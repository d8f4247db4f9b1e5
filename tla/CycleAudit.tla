----------------------------- MODULE CycleAudit -----------------------------
(***************************************************************************)
(* The two cycle sections of an audit: client/cluster_auditor.py, audit,   *)
(* over a typed topology (topology/models.py, TopologyEdge) and the search *)
(* of topology/cycles.py, which runs step by step as CycleSearch has it.   *)
(* The audit searches the structural cycles and then, if that answer is    *)
(* complete, picks the message-loop candidates out of it instead of        *)
(* searching again.                                                        *)
(*                                                                         *)
(* An edge is a hop with a kind.  Bindings that differ in routing key or   *)
(* arguments only are one edge here: no cycle tells them apart.            *)
(***************************************************************************)
EXTENDS CycleSearch

CONSTANTS
  Exchange, Queue, Shovel,   \* the NodeIds of each kind, numbered in order
  Topology,              \* the sets of edges
  Declared               \* the sets of nodes a topology may contain

EdgeKind == {"alternate_exchange", "binding", "dead_letter", "shovel"}

Edge == [source : Node, target : Node, kind : EdgeKind]

(* TopologyEdge rejects an edge whose endpoints do not fit its kind.       *)
ValidEdge(e) ==
  CASE e.kind = "binding" -> e.source \in Exchange /\ e.target \in Exchange \cup Queue
    [] e.kind = "dead_letter" -> e.source \in Queue /\ e.target \in Exchange
    [] e.kind = "alternate_exchange" -> e.source \in Exchange /\ e.target \in Exchange
    [] e.kind = "shovel" -> \/ e.source \in Exchange \cup Queue /\ e.target \in Shovel
                            \/ e.source \in Shovel /\ e.target \in Exchange \cup Queue

ASSUME KindAssumption ==
  /\ Node = Exchange \cup Queue \cup Shovel
  /\ Exchange \cap Queue = {} /\ Exchange \cap Shovel = {} /\ Queue \cap Shovel = {}
ASSUME TopologyAssumption ==
  /\ Topology \subseteq SUBSET {e \in Edge : ValidEdge(e)}
  /\ Declared \subseteq SUBSET Node

VARIABLES
  edges, all_node_ids,   \* the topology
  structural_cycles, message_loop_candidates,   \* the report so far
  pc                     \* which section is under way

topology == <<edges, all_node_ids>>
report == <<structural_cycles, message_loop_candidates>>
audit_vars == <<vars, topology, report, pc>>

None == [cycles |-> {}, truncated |-> FALSE]

(* Edges with an undeclared endpoint take part in no cycle.                *)
Contained == {e \in edges : e.source \in all_node_ids /\ e.target \in all_node_ids}

Adjacency ==
  [v \in Node |-> {w \in Node : \E e \in Contained : e.source = v /\ e.target = w}]

(* The first edge between two nodes in edge order; kinds sort by name.     *)
SortsBefore(k, l) ==
  \/ k = l
  \/ k = "alternate_exchange"
  \/ k = "binding" /\ l # "alternate_exchange"
  \/ k = "dead_letter" /\ l = "shovel"

Representative(hop) ==
  CHOOSE e \in Contained :
    /\ <<e.source, e.target>> = hop
    /\ \A f \in Contained : <<f.source, f.target>> = hop => SortsBefore(e.kind, f.kind)

Republishes(e) == e.kind \in {"dead_letter", "shovel"}

(* Faulty RepublishingPairs: an alternate exchange counts as republishing. *)
AlternatePairs ==
  {<<e.source, e.target>> :
     e \in {f \in Contained : Republishes(f) \/ f.kind = "alternate_exchange"}}

RepublishingPairs == {<<e.source, e.target>> : e \in {f \in Contained : Republishes(f)}}

(* message_loop_candidates_from_complete_result: by the edges that stand   *)
(* for the hops of a cycle.                                                *)
FromCompleteResult(result) ==
  [cycles |-> {p \in result.cycles :
                 \E hop \in Hops(p) : Republishes(Representative(hop))},
   truncated |-> FALSE]

-----------------------------------------------------------------------------
AuditInit ==
  /\ edges \in Topology /\ all_node_ids \in Declared /\ max_cycles \in Limit
  /\ adjacency = Adjacency /\ required = Node \X Node
  /\ Called
  /\ structural_cycles = None
  /\ message_loop_candidates = None
  /\ pc = "structural"

SearchOn ==
  /\ Next
  /\ UNCHANGED <<topology, report, pc>>

(* Only part of the structural cycles is known, so the candidates are      *)
(* searched for.                                                           *)
SearchCandidates ==
  /\ pc = "structural" /\ ~Running
  /\ truncated
  /\ structural_cycles' = Result
  /\ pc' = "candidates"
  /\ required' = RepublishingPairs
  /\ components' = ToSearch(adjacency, RepublishingPairs)
  /\ worklist' = <<>> /\ budget' = NoLimit
  /\ all_cycles' = Nil /\ node_paths' = Nil
  /\ truncated' = FALSE
  /\ UNCHANGED <<adjacency, max_cycles, topology, message_loop_candidates>>

(* Faulty FilterCandidates: a truncated answer is filtered, too. *)
FilterAnyway ==
  /\ pc = "structural" /\ ~Running
  /\ structural_cycles' = Result
  /\ message_loop_candidates' = FromCompleteResult(Result)
  /\ pc' = "done"
  /\ UNCHANGED <<vars, topology>>

FilterCandidates ==
  /\ pc = "structural" /\ ~Running
  /\ ~truncated
  /\ structural_cycles' = Result
  /\ message_loop_candidates' = FromCompleteResult(Result)
  /\ pc' = "done"
  /\ UNCHANGED <<vars, topology>>

ReportCandidates ==
  /\ pc = "candidates" /\ ~Running
  /\ message_loop_candidates' = Result
  /\ pc' = "done"
  /\ UNCHANGED <<vars, topology, structural_cycles>>

AuditNext == SearchOn \/ SearchCandidates \/ FilterCandidates \/ ReportCandidates

AuditSpec == AuditInit /\ [][AuditNext]_audit_vars

-----------------------------------------------------------------------------
(* What find_message_loop_candidates may answer with the same limit.       *)
FindMessageLoopCandidates ==
  SearchResults(AllCycles(Adjacency, RepublishingPairs), LimitOf(max_cycles))

(***************************************************************************)
(* The shortcut is invisible: whichever way the audit found its            *)
(* candidates, message_loop_candidates with the same limit could have      *)
(* answered the same.                                                      *)
(***************************************************************************)
ShortcutAgrees ==
  pc = "done" => message_loop_candidates \in FindMessageLoopCandidates

(***************************************************************************)
(* A reader of the report can see why a cycle is a candidate: one of the   *)
(* edges that represent its hops is a dead-letter or shovel edge.          *)
(***************************************************************************)
CandidatesShowRepublishing ==
  \A p \in message_loop_candidates.cycles :
    \E hop \in Hops(p) : Republishes(Representative(hop))
=============================================================================
