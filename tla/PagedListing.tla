---------------------------- MODULE PagedListing ----------------------------
(***************************************************************************)
(* Listing all queues or exchanges in bounded pages, _list_all_pages of    *)
(* resources/v4/queues/services.py and resources/v4/exchanges/services.py, *)
(* and handing the list to build_user_policy_selections, while other       *)
(* clients declare and delete resources at the broker.  Each page is cut   *)
(* out of the resources as they are when its request is answered.          *)
(*                                                                         *)
(* A resource is a number that gives its place in the order in which the   *)
(* broker lists.                                                           *)
(***************************************************************************)
EXTENDS Integers, FiniteSets, SequencesExt

CONSTANTS
  Resource,              \* what may exist at the broker
  page_size              \* the argument of the caller

ASSUME ResourceAssumption == Resource \subseteq Nat /\ IsFiniteSet(Resource)
ASSUME PageAssumption == page_size \in Nat \ {0}

VARIABLES
  pc,                    \* where the listing is
  page,                  \* the page asked for next
  page_count,            \* what the first page reported
  listed,                \* the items collected so far
  selections,            \* the resources with a recorded policy selection
  resources,             \* what exists at the broker
  at_start,              \* what existed when the first page was cut
  reported,              \* <<page, page_count>> of the latest response
  created, deleted       \* was anything, since the first page was cut?

listing == <<pc, page, page_count, listed, selections, at_start, reported>>
vars == <<listing, resources, created, deleted>>

Init ==
  /\ pc = "first"
  /\ page = 1
  /\ page_count = 0
  /\ listed = <<>>
  /\ selections = {}
  /\ resources \in SUBSET Resource
  /\ at_start = {}
  /\ reported = <<0, 0>>
  /\ created = FALSE /\ deleted = FALSE

-----------------------------------------------------------------------------
(* The broker's side: the resources in order, cut into pages.              *)
Rank(r, S) == Cardinality({s \in S : s <= r})

InOrder(S) == [i \in 1 .. Cardinality(S) |-> CHOOSE r \in S : Rank(r, S) = i]

ItemsOf(p) == SubSeq(InOrder(resources), (p - 1) * page_size + 1,
                     Min({p * page_size, Cardinality(resources)}))

Pages == (Cardinality(resources) + page_size - 1) \div page_size

(* An empty listing may count as no page or as one. *)
ReportedCounts == IF resources = {} THEN {0, 1} ELSE {Pages}

Create ==
  /\ \E r \in Resource \ resources : resources' = resources \cup {r}
  /\ created' = TRUE
  /\ UNCHANGED <<listing, deleted>>

Delete ==
  /\ \E r \in resources : resources' = resources \ {r}
  /\ deleted' = TRUE
  /\ UNCHANGED <<listing, created>>

-----------------------------------------------------------------------------
(* Faulty FetchFirst: the first page is asked for again. *)
FetchFirstAgain ==
  /\ pc = "first"
  /\ page_count' \in ReportedCounts
  /\ reported' = <<1, page_count'>>
  /\ listed' = ItemsOf(1)
  /\ page' = 1
  /\ pc' = "more"
  /\ at_start' = resources
  /\ created' = FALSE /\ deleted' = FALSE
  /\ UNCHANGED <<selections, resources>>

(* Faulty FetchNext: every other page. *)
FetchSecondNext ==
  /\ pc = "more" /\ page <= page_count
  /\ \E n \in ReportedCounts : reported' = <<page, n>>
  /\ listed' = listed \o ItemsOf(page)
  /\ page' = page + 2
  /\ UNCHANGED <<pc, page_count, selections, at_start, resources, created, deleted>>

FetchFirst ==
  /\ pc = "first"
  /\ page_count' \in ReportedCounts
  /\ reported' = <<1, page_count'>>
  /\ listed' = ItemsOf(1)
  /\ page' = 2
  /\ pc' = "more"
  /\ at_start' = resources
  /\ created' = FALSE /\ deleted' = FALSE
  /\ UNCHANGED <<selections, resources>>

FetchNext ==
  /\ pc = "more" /\ page <= page_count
  /\ \E n \in ReportedCounts : reported' = <<page, n>>
  /\ listed' = listed \o ItemsOf(page)
  /\ page' = page + 1
  /\ UNCHANGED <<pc, page_count, selections, at_start, resources, created, deleted>>

(* A page beyond the last is refused by the broker, if it is not empty; a  *)
(* request may also fail, or answer with a malformed envelope.  All of     *)
(* them raise out of the listing, and what was collected is dropped.       *)
FetchFails ==
  /\ pc = "first" \/ (pc = "more" /\ page <= page_count)
  /\ pc' = "failed"
  /\ listed' = <<>>
  /\ UNCHANGED <<page, page_count, selections, at_start, reported, resources,
                 created, deleted>>

(* Faulty Return: the last page is left out. *)
ReturnEarly ==
  /\ pc = "more" /\ page >= page_count
  /\ pc' = "listed"
  /\ UNCHANGED <<page, page_count, listed, selections, at_start, reported,
                 resources, created, deleted>>

(* Faulty Return: waits for a page that is never fetched. *)
ReturnLate ==
  /\ pc = "more" /\ page > page_count + 1
  /\ pc' = "listed"
  /\ UNCHANGED <<page, page_count, listed, selections, at_start, reported,
                 resources, created, deleted>>

Return ==
  /\ pc = "more" /\ page > page_count
  /\ pc' = "listed"
  /\ UNCHANGED <<page, page_count, listed, selections, at_start, reported,
                 resources, created, deleted>>

(* build_user_policy_selections records the listed resources one by one,   *)
(* and raises at the first that it has recorded already.                   *)
Select ==
  /\ pc = "listed"
  /\ IsInjective(listed)
  /\ selections' = ToSet(listed)
  /\ pc' = "selected"
  /\ UNCHANGED <<page, page_count, listed, at_start, reported, resources,
                 created, deleted>>

RejectDuplicate ==
  /\ pc = "listed"
  /\ ~IsInjective(listed)
  /\ pc' = "rejected"
  /\ UNCHANGED <<page, page_count, listed, selections, at_start, reported,
                 resources, created, deleted>>

Client == FetchFirst \/ FetchNext \/ FetchFails \/ Return \/ Select \/ RejectDuplicate

Next == Client \/ Create \/ Delete

Spec == Init /\ [][Next]_vars /\ WF_vars(Client)
-----------------------------------------------------------------------------
Ended == pc \in {"selected", "rejected", "failed"}
Complete == pc \in {"listed", "selected", "rejected"}

TypeOK ==
  /\ pc \in {"first", "more", "listed", "selected", "rejected", "failed"}
  /\ page_count \in Nat
  /\ page \in Nat \ {0}
  /\ page > 2 => page <= page_count + 1
  /\ listed \in Seq(Resource)
  /\ selections \subseteq Resource /\ resources \subseteq Resource
  /\ at_start \subseteq Resource
  /\ reported \in Nat \X Nat
  /\ created \in BOOLEAN /\ deleted \in BOOLEAN

(***************************************************************************)
(* If nothing changes while the pages are fetched, the list is what the    *)
(* broker holds, each resource once and in the broker's order.             *)
(***************************************************************************)
QuietListingExact ==
  Complete /\ ~created /\ ~deleted
    => listed = InOrder(at_start)

(***************************************************************************)
(* While resources are only declared, none that was there from the start   *)
(* is skipped: one that is not listed yet is still ahead, beyond the pages *)
(* fetched so far.  At the end, that is beyond the page count the first    *)
(* page reported, which is where the listing does lose it.                 *)
(***************************************************************************)
GrowthDefers ==
  pc # "first" /\ pc # "failed" /\ ~deleted
    => \A r \in at_start \ ToSet(listed) : Rank(r, resources) > (page - 1) * page_size

(***************************************************************************)
(* While resources are only deleted, none is listed twice; so              *)
(* build_user_policy_selections rejects a capture only if something was    *)
(* declared during it.                                                     *)
(***************************************************************************)
ShrinkageRepeatsNothing ==
  ~created => IsInjective(listed) /\ pc # "rejected"

(***************************************************************************)
(* The listing ends, though resources come and go all the time.            *)
(***************************************************************************)
ListingEnds == <>Ended

(***************************************************************************)
(* What list_by_vhost documents: pages are fetched until RabbitMQ reports  *)
(* that all matching resources have been returned.                         *)
(***************************************************************************)
FetchesUntilReported == Complete => reported[1] >= reported[2]
=============================================================================
