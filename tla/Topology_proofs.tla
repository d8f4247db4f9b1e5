--------------------------- MODULE Topology_proofs ---------------------------
(***************************************************************************)
(* Proofs about the topology that the parser builds: about TopologyCapture *)
(* and AuditorFiles, for whatever the broker may hold and however many     *)
(* changes other clients make, and about MessageWalk, for every accepted   *)
(* capture, whatever policies the broker selected, and every way of a      *)
(* message.                                                                *)
(***************************************************************************)
EXTENDS AuditorFiles, MessageWalk, FiniteSetTheorems, TLAPS

(* EffectiveHops of a broker that holds Q, X and P and selected s.         *)
HopsInEffect(Q, X, P, s) ==
  {Hop(q.id, NodeIdAt(q.id.vhost, EffectOf(P, s, q, "dead_letter_exchange"), "exchange"),
       "dead_letter", EffectOf(P, s, q, "dead_letter_routing_key")) :
     q \in {r \in Q : EffectOf(P, s, r, "dead_letter_exchange") # None}} \cup
  {Hop(x.id, NodeIdAt(x.id.vhost, EffectOf(P, s, x, "alternate_exchange"), "exchange"),
       "alternate_exchange", None) :
     x \in {r \in X : EffectOf(P, s, r, "alternate_exchange") # None}}

(* What a broker may look like.                                            *)
Coherent(Q, X, P, s) ==
  /\ Q \subseteq Queue /\ X \subseteq Exchange /\ P \subseteq Policy
  /\ UniqueIds(Q) /\ UniqueIds(X) /\ UniqueNames(P)
  /\ s \in MaySelectAll(Q, X, P)

BrokerInv == Coherent(queues, exchanges, policies, selected)

(* What the requests left unanswered say of the capture.                   *)
CaptureInv ==
  /\ capture = [vhosts |-> Vhosts, queues |-> capture.queues, exchanges |-> capture.exchanges,
                bindings |-> capture.bindings, policies |-> capture.policies, shovels |-> {},
                observed_queues |-> capture.observed_queues,
                observed_exchanges |-> capture.observed_exchanges,
                observing |-> capture.observing, hosts |-> {}]
  /\ "queues" \notin captured => ~capture.observing
  /\ "exchanges" \notin captured => capture.observed_exchanges = {}
  /\ outcome = "pending" => ~capture.observing
  /\ effective = [r \in Requests |-> effective[r]]

(* The export and the hops in effect were taken from one broker.           *)
ExportInv ==
  "definitions" \in captured =>
    \E X \in SUBSET Exchange :
      \E s \in [Ids(capture.queues) \cup Ids(X) -> PolicyNames] :
        /\ Coherent(capture.queues, X, capture.policies, s)
        /\ capture.exchanges = {x \in X : ~Omitted(x)}
        /\ effective["definitions"] = HopsInEffect(capture.queues, X, capture.policies, s)

OutcomeInv == outcome = "parsed" => ~Rejects(capture) /\ "definitions" \in captured

IInv == BrokerInv /\ CaptureInv /\ ExportInv /\ OutcomeInv

-----------------------------------------------------------------------------
(* The operators *)

(* EffectiveHops reads nothing but the broker.                             *)
LEMMA EffectiveHopsAreInEffect ==
  EffectiveHops = HopsInEffect(queues, exchanges, policies, selected)
  BY DEF EffectiveHops, HopsInEffect, InEffect

(* A policy that the broker may select for a resource is one that          *)
(* _apply_to_matches accepts.                                              *)
LEMMA ScopesMatch ==
  ASSUME NEW kind \in {"queue", "exchange"}, NEW type, NEW scope \in Scopes(kind, type)
  PROVE  ApplyToMatches(scope, kind, type)
<1>1. CASE kind = "exchange"
  BY <1>1 DEF Scopes, ApplyToMatches
<1>2. CASE kind = "queue" /\ type = "classic"
  BY <1>2 DEF Scopes, ApplyToMatches
<1>3. CASE kind = "queue" /\ type = "quorum"
  BY <1>3 DEF Scopes, ApplyToMatches
<1>4. CASE kind = "queue" /\ type = "stream"
  BY <1>4 DEF Scopes, ApplyToMatches
<1>5. CASE kind = "queue" /\ type \notin {"classic", "quorum", "stream"}
  BY <1>5 DEF Scopes, ApplyToMatches
<1>6. QED BY <1>1, <1>2, <1>3, <1>4, <1>5

(* The policy selected for r is one that covers it.                        *)
SelectionCovers(P, s, r, type) ==
  \/ s[r.id] = None
  \/ \E p \in P : /\ p.vhost = r.id.vhost /\ p.name = s[r.id]
                  /\ ApplyToMatches(p.apply_to, r.id.kind, type)

(* As is every policy that the broker may select.                          *)
LEMMA SelectableCovers ==
  ASSUME NEW P, NEW s, NEW r, NEW type, r.id.kind \in {"queue", "exchange"},
         s[r.id] \in MaySelect(P, r.id, type)
  PROVE  SelectionCovers(P, s, r, type)
  BY ScopesMatch DEF MaySelect, SelectionCovers

(* A setting that no covering policy has is decided by the resource alone. *)
LEMMA NoPolicyNoEffect ==
  ASSUME NEW P, NEW s, NEW r, NEW type, NEW field,
         UniqueNames(P), SelectionCovers(P, s, r, type),
         PoliciesThatCanSet(r.id, type, P, field) = {}
  PROVE  EffectOf(P, s, r, field) = r[field]
<1>1. CASE s[r.id] = None
  BY <1>1 DEF EffectOf, OrElse
<1>2. CASE s[r.id] # None
  <2>1. PICK p \in P : /\ p.vhost = r.id.vhost /\ p.name = s[r.id]
                       /\ ApplyToMatches(p.apply_to, r.id.kind, type)
    BY <1>2 DEF SelectionCovers
  <2>2. p[field] = None
    BY <2>1 DEF PoliciesThatCanSet
  <2>3. \A c \in P : c.vhost = r.id.vhost /\ c.name = s[r.id] => c = p
    BY <2>1 DEF UniqueNames
  <2>4. (CHOOSE c \in P : c.vhost = r.id.vhost /\ c.name = s[r.id]) = p
    BY <2>1, <2>3
  <2>5. QED BY <1>2, <2>2, <2>4 DEF EffectOf, OrElse
<1>3. QED BY <1>1, <1>2

(* A setting of its own is what a resource does.                           *)
LEMMA ArgumentGoesFirst ==
  ASSUME NEW P, NEW s, NEW r, NEW field, r[field] # None
  PROVE  EffectOf(P, s, r, field) = r[field]
  BY DEF EffectOf, OrElse

(* The policy a broker selected for a queue or an exchange covers it.      *)
LEMMA CoherentSelects ==
  ASSUME NEW Q, NEW X, NEW P, NEW s, Coherent(Q, X, P, s)
  PROVE  /\ UniqueNames(P) /\ \A p \in P : p.name # None
         /\ \A q \in Q : SelectionCovers(P, s, q, TypeOf(q))
         /\ \A x \in X : SelectionCovers(P, s, x, None)
<1>1. UniqueNames(P) /\ \A p \in P : p.name # None
  BY PolicyAssumption DEF Coherent
<1>2. ASSUME NEW q \in Q PROVE SelectionCovers(P, s, q, TypeOf(q))
  <2>1. s[q.id] \in MaySelect(P, q.id, TypeOf(q)) /\ q.id.kind = "queue"
    BY KindAssumption DEF Coherent, MaySelectAll
  <2>2. QED BY <2>1, SelectableCovers
<1>3. ASSUME NEW x \in X PROVE SelectionCovers(P, s, x, None)
  <2>1. s[x.id] \in MaySelect(P, x.id, None) /\ x.id.kind = "exchange"
    BY KindAssumption DEF Coherent, MaySelectAll
  <2>2. QED BY <2>1, SelectableCovers
<1>4. QED BY <1>1, <1>2, <1>3

(* What a queue that was not listed does is decided by its arguments.      *)
LEMMA UnobservedQueue ==
  ASSUME NEW P, NEW s, NEW q, NEW type, NEW selections,
         UniqueNames(P), SelectionCovers(P, s, q, type),
         ~Observed(q.id, selections), ~DeadLetterUnknown(q, type, P, selections)
  PROVE  /\ EffectOf(P, s, q, "dead_letter_exchange") = q.dead_letter_exchange
         /\ q.dead_letter_exchange # None =>
              EffectOf(P, s, q, "dead_letter_routing_key") = q.dead_letter_routing_key
<1>1. /\ q.dead_letter_exchange = None =>
           PoliciesThatCanSet(q.id, type, P, "dead_letter_exchange") = {}
      /\ q.dead_letter_exchange # None /\ q.dead_letter_routing_key = None =>
           PoliciesThatCanSet(q.id, type, P, "dead_letter_routing_key") = {}
  BY DEF DeadLetterUnknown
<1>2. EffectOf(P, s, q, "dead_letter_exchange") = q.dead_letter_exchange
  <2>1. CASE q.dead_letter_exchange = None
    BY <1>1, <2>1, NoPolicyNoEffect
  <2>2. CASE q.dead_letter_exchange # None
    BY <2>2, ArgumentGoesFirst
  <2>3. QED BY <2>1, <2>2
<1>3. ASSUME q.dead_letter_exchange # None
      PROVE  EffectOf(P, s, q, "dead_letter_routing_key") = q.dead_letter_routing_key
  <2>1. CASE q.dead_letter_routing_key = None
    BY <1>1, <1>3, <2>1, NoPolicyNoEffect
  <2>2. CASE q.dead_letter_routing_key # None
    BY <2>2, ArgumentGoesFirst
  <2>3. QED BY <2>1, <2>2
<1>4. QED BY <1>2, <1>3

(* And so it is with an exchange.                                          *)
LEMMA UnobservedExchange ==
  ASSUME NEW P, NEW s, NEW x, NEW selections,
         UniqueNames(P), SelectionCovers(P, s, x, None),
         ~Observed(x.id, selections), ~AlternateExchangeUnknown(x, P, selections)
  PROVE  EffectOf(P, s, x, "alternate_exchange") = x.alternate_exchange
<1>1. x.alternate_exchange = None => PoliciesThatCanSet(x.id, None, P, "alternate_exchange") = {}
  BY DEF AlternateExchangeUnknown
<1>2. CASE x.alternate_exchange = None
  BY <1>1, <1>2, NoPolicyNoEffect
<1>3. CASE x.alternate_exchange # None
  BY <1>3, ArgumentGoesFirst
<1>4. QED BY <1>2, <1>3

-----------------------------------------------------------------------------
(* A parse of an export alone *)

(* Nothing counts as observed.                                             *)
LEMMA NothingObserved ==
  ASSUME ~capture.observing
  PROVE  \A id : ~Observed(id, Selections(capture))
  BY DEF Observed, Selections

(* The hops of a queue whose settings its own arguments decide.            *)
LEMMA QueueHopsExact ==
  ASSUME CaptureInv, ~capture.observing, capture.observed_exchanges = {},
         ~Rejects(capture), NEW X, NEW s,
         Coherent(capture.queues, X, capture.policies, s),
         capture.exchanges \subseteq X,
         NEW q \in capture.queues
  PROVE  HopsFrom(ParsedHops, q.id) =
         HopsFrom(HopsInEffect(capture.queues, X, capture.policies, s), q.id)
<1> DEFINE P == capture.policies
           own == Hop(q.id, NodeIdAt(q.id.vhost, q.dead_letter_exchange, "exchange"),
                      "dead_letter", q.dead_letter_routing_key)
           hops == IF q.dead_letter_exchange # None THEN {own} ELSE {}
<1>1. /\ q.id.kind = "queue"
      /\ \A x \in X : x.id.kind = "exchange"
      /\ \A r \in capture.queues : r.id = q.id => r = q
  BY KindAssumption DEF Coherent, UniqueIds
<1>2. \A x \in X : x.id # q.id
  BY <1>1
<1>3. HopsFrom(ParsedHops, q.id) = hops
  <2>1. \A r, field : DeadLetterValue(r, P, Selections(capture), field) = r[field]
    BY NothingObserved DEF DeadLetterValue
  <2>2. \A e \in AlternateExchangeEdges(capture) : e.source # q.id
    BY <1>2 DEF AlternateExchangeEdges, AlternateSources, Hop, Ids
  <2>3. \A e : e \in DeadLetterEdges(capture) /\ e.source = q.id <=> e \in hops
    BY <1>1, <2>1 DEF DeadLetterEdges, Hop
  <2>4. QED BY <2>2, <2>3 DEF HopsFrom, ParsedHops
<1>4. ResolvedQueueType(capture, q) = TypeOf(q)
  BY DEF ResolvedQueueType, TypeOf, CaptureInv
<1>5. ~DeadLetterUnknown(q, TypeOf(q), P, Selections(capture))
  BY <1>4 DEF Rejects
<1>6. UniqueNames(P) /\ SelectionCovers(P, s, q, TypeOf(q)) /\ ~Observed(q.id, Selections(capture))
  BY CoherentSelects, NothingObserved
<1>7. /\ EffectOf(P, s, q, "dead_letter_exchange") = q.dead_letter_exchange
      /\ q.dead_letter_exchange # None =>
           EffectOf(P, s, q, "dead_letter_routing_key") = q.dead_letter_routing_key
  BY <1>5, <1>6, UnobservedQueue
<1>8. HopsFrom(HopsInEffect(capture.queues, X, P, s), q.id) = hops
  <2>1. \A e : e \in HopsInEffect(capture.queues, X, P, s) /\ e.source = q.id <=> e \in hops
    BY <1>1, <1>2, <1>7 DEF HopsInEffect, Hop
  <2>2. QED BY <2>1 DEF HopsFrom
<1>9. QED BY <1>3, <1>8

(* The hops of an exported exchange, in the same way.                      *)
LEMMA ExchangeHopsExact ==
  ASSUME CaptureInv, ~capture.observing, capture.observed_exchanges = {},
         ~Rejects(capture), NEW X, NEW s,
         Coherent(capture.queues, X, capture.policies, s),
         capture.exchanges \subseteq X,
         NEW x \in capture.exchanges
  PROVE  HopsFrom(ParsedHops, x.id) =
         HopsFrom(HopsInEffect(capture.queues, X, capture.policies, s), x.id)
<1> DEFINE P == capture.policies
           own == Hop(x.id, NodeIdAt(x.id.vhost, x.alternate_exchange, "exchange"),
                      "alternate_exchange", None)
           hops == IF x.alternate_exchange # None THEN {own} ELSE {}
<1>1. /\ x \in X /\ x.id.kind = "exchange"
      /\ \A q \in capture.queues : q.id.kind = "queue"
      /\ \A y \in X : y.id = x.id => y = x
  BY KindAssumption DEF Coherent, UniqueIds
<1>2. \A q \in capture.queues : q.id # x.id
  BY <1>1
<1>3. AlternateSources(capture) = capture.exchanges
  BY DEF AlternateSources
<1>4. HopsFrom(ParsedHops, x.id) = hops
  <2>1. \A y : AlternateExchangeValue(y, P, Selections(capture)) = y.alternate_exchange
    BY NothingObserved DEF AlternateExchangeValue
  <2>2. \A e \in DeadLetterEdges(capture) : e.source # x.id
    BY <1>2 DEF DeadLetterEdges, Hop
  <2>3. \A e : e \in AlternateExchangeEdges(capture) /\ e.source = x.id <=> e \in hops
    BY <1>1, <1>3, <2>1 DEF AlternateExchangeEdges, Hop
  <2>4. QED BY <2>2, <2>3 DEF HopsFrom, ParsedHops
<1>5. ~AlternateExchangeUnknown(x, P, Selections(capture)) /\ ~Observed(x.id, Selections(capture))
  BY <1>3, NothingObserved DEF Rejects
<1>6. UniqueNames(P) /\ SelectionCovers(P, s, x, None)
  BY <1>1, CoherentSelects
<1>7. EffectOf(P, s, x, "alternate_exchange") = x.alternate_exchange
  BY <1>5, <1>6, UnobservedExchange
<1>8. HopsFrom(HopsInEffect(capture.queues, X, P, s), x.id) = hops
  <2>1. \A e : e \in HopsInEffect(capture.queues, X, P, s) /\ e.source = x.id <=> e \in hops
    BY <1>1, <1>2, <1>7 DEF HopsInEffect, Hop
  <2>2. QED BY <2>1 DEF HopsFrom
<1>9. QED BY <1>4, <1>8

(* The two together.                                                       *)
LEMMA ExportAloneIsExact ==
  ASSUME IInv PROVE UnobservedNeverGuesses
<1> SUFFICES ASSUME outcome = "parsed", captured = {"definitions"},
                    NEW id \in Ids(capture.queues) \cup Ids(capture.exchanges)
             PROVE  HopsFrom(ParsedHops, id) = HopsFrom(effective["definitions"], id)
  BY DEF UnobservedNeverGuesses
<1>1. /\ CaptureInv /\ ~capture.observing /\ capture.observed_exchanges = {}
      /\ ~Rejects(capture)
  BY DEF IInv, CaptureInv, OutcomeInv
<1>2. PICK X \in SUBSET Exchange :
        \E s \in [Ids(capture.queues) \cup Ids(X) -> PolicyNames] :
          /\ Coherent(capture.queues, X, capture.policies, s)
          /\ capture.exchanges = {x \in X : ~Omitted(x)}
          /\ effective["definitions"] = HopsInEffect(capture.queues, X, capture.policies, s)
  BY DEF IInv, ExportInv
<1>3. PICK s \in [Ids(capture.queues) \cup Ids(X) -> PolicyNames] :
        /\ Coherent(capture.queues, X, capture.policies, s)
        /\ capture.exchanges = {x \in X : ~Omitted(x)}
        /\ effective["definitions"] = HopsInEffect(capture.queues, X, capture.policies, s)
  BY <1>2
<1>4. capture.exchanges \subseteq X
  BY <1>3
<1>5. CASE id \in Ids(capture.queues)
  <2>1. PICK q \in capture.queues : id = q.id
    BY <1>5 DEF Ids
  <2>2. QED BY <1>1, <1>3, <1>4, <2>1, QueueHopsExact
<1>6. CASE id \in Ids(capture.exchanges)
  <2>1. PICK x \in capture.exchanges : id = x.id
    BY <1>6 DEF Ids
  <2>2. QED BY <1>1, <1>3, <1>4, <2>1, ExchangeHopsExact
<1>7. QED BY <1>5, <1>6

-----------------------------------------------------------------------------
(* The invariant *)

LEMMA InitInv == Init => IInv
<1> SUFFICES ASSUME Init PROVE IInv
  OBVIOUS
<1>1. BrokerInv
  BY DEF Init, BrokerInv, Coherent
<1>2. CaptureInv
  BY DEF Init, CaptureInv, Nothing
<1>3. ExportInv /\ OutcomeInv
  BY DEF Init, ExportInv, OutcomeInv
<1>4. QED BY <1>1, <1>2, <1>3 DEF IInv

(* Other clients keep the broker coherent.                                 *)
LEMMA ClientsKeepBroker ==
  ASSUME BrokerInv,
         \/ \E p \in Policy : PutPolicy(p) \/ DeletePolicy(p)
         \/ \E q \in Queue : DeclareQueue(q) \/ DeleteQueue(q)
         \/ \E x \in Exchange : DeclareExchange(x) \/ DeleteExchange(x)
  PROVE  BrokerInv' /\ UNCHANGED <<captured, capture, outcome, effective>>
<1>1. /\ selected' \in MaySelectAll(queues', exchanges', policies')
      /\ UNCHANGED <<captured, capture, outcome, effective>>
  BY DEF PutPolicy, DeletePolicy, DeclareQueue, DeleteQueue, DeclareExchange,
         DeleteExchange, Change
<1>2. ASSUME NEW p \in Policy, PutPolicy(p) \/ DeletePolicy(p)
      PROVE  BrokerInv'
  <2>1. UNCHANGED <<queues, exchanges>> /\ policies' \subseteq Policy /\ UniqueNames(policies')
    BY <1>2 DEF PutPolicy, DeletePolicy, BrokerInv, Coherent, UniqueNames
  <2>2. QED BY <1>1, <2>1 DEF BrokerInv, Coherent, UniqueIds
<1>3. ASSUME NEW q \in Queue, DeclareQueue(q) \/ DeleteQueue(q)
      PROVE  BrokerInv'
  <2>1. UNCHANGED <<exchanges, policies>> /\ queues' \subseteq Queue /\ UniqueIds(queues')
    BY <1>3 DEF DeclareQueue, DeleteQueue, BrokerInv, Coherent, UniqueIds, Ids
  <2>2. QED BY <1>1, <2>1 DEF BrokerInv, Coherent, UniqueIds, UniqueNames
<1>4. ASSUME NEW x \in Exchange, DeclareExchange(x) \/ DeleteExchange(x)
      PROVE  BrokerInv'
  <2>1. UNCHANGED <<queues, policies>> /\ exchanges' \subseteq Exchange /\ UniqueIds(exchanges')
    BY <1>4 DEF DeclareExchange, DeleteExchange, BrokerInv, Coherent, UniqueIds, Ids
  <2>2. QED BY <1>1, <2>1 DEF BrokerInv, Coherent, UniqueIds, UniqueNames
<1>5. QED BY <1>1, <1>2, <1>3, <1>4

(* What an answer leaves of the record it fills in.                        *)
LEMMA ExportStep ==
  ASSUME IInv, ExportDefinitions PROVE IInv'
<1>1. /\ outcome = "pending" /\ captured' = captured \cup {"definitions"}
      /\ effective' = [effective EXCEPT !["definitions"] = EffectiveHops]
      /\ UNCHANGED <<queues, exchanges, policies, selected, outcome>>
  BY DEF ExportDefinitions, Answer, broker
<1>2. /\ capture'.queues = queues /\ capture'.policies = policies
      /\ capture'.exchanges = {x \in exchanges : ~Omitted(x)}
      /\ capture'.observing = capture.observing
      /\ capture'.observed_exchanges = capture.observed_exchanges
      /\ capture' = [vhosts |-> Vhosts, queues |-> capture'.queues,
                     exchanges |-> capture'.exchanges, bindings |-> capture'.bindings,
                     policies |-> capture'.policies, shovels |-> {},
                     observed_queues |-> capture'.observed_queues,
                     observed_exchanges |-> capture'.observed_exchanges,
                     observing |-> capture'.observing, hosts |-> {}]
  <2>1. PICK bindings : capture' = [capture EXCEPT
            !.queues = queues, !.exchanges = {x \in exchanges : ~Omitted(x)},
            !.policies = policies, !.bindings = bindings]
    BY DEF ExportDefinitions, Answer
  <2>2. capture' = [vhosts |-> Vhosts, queues |-> queues,
                    exchanges |-> {x \in exchanges : ~Omitted(x)}, bindings |-> bindings,
                    policies |-> policies, shovels |-> {},
                    observed_queues |-> capture.observed_queues,
                    observed_exchanges |-> capture.observed_exchanges,
                    observing |-> capture.observing, hosts |-> {}]
    <3> DEFINE kept == {x \in exchanges : ~Omitted(x)}
               oq == capture.observed_queues
               ox == capture.observed_exchanges
               q == capture.queues
               x == capture.exchanges
               b == capture.bindings
               p == capture.policies
               o == capture.observing
    <3>1. capture' = [capture EXCEPT !.queues = queues, !.exchanges = kept,
                                     !.policies = policies, !.bindings = bindings]
      BY <2>1
    <3>2. capture = [vhosts |-> Vhosts, queues |-> q, exchanges |-> x, bindings |-> b,
                     policies |-> p, shovels |-> {}, observed_queues |-> oq,
                     observed_exchanges |-> ox, observing |-> o, hosts |-> {}]
      BY DEF IInv, CaptureInv
    <3> HIDE DEF kept, oq, ox, q, x, b, p, o
    <3>3. capture' = [vhosts |-> Vhosts, queues |-> queues, exchanges |-> kept,
                      bindings |-> bindings, policies |-> policies, shovels |-> {},
                      observed_queues |-> oq, observed_exchanges |-> ox,
                      observing |-> o, hosts |-> {}]
      BY <3>1, <3>2
    <3>4. QED BY <3>3 DEF kept, oq, ox, o
  <2>3. QED BY <2>2
<1>3. /\ effective'["definitions"] = EffectiveHops
      /\ effective' = [r \in Requests |-> effective'[r]]
  BY <1>1 DEF IInv, CaptureInv, Requests
<1>4. BrokerInv'
  BY <1>1 DEF IInv, BrokerInv, Coherent, UniqueIds, UniqueNames
<1>5. CaptureInv'
  BY <1>1, <1>2, <1>3 DEF IInv, CaptureInv
<1>6. ExportInv'
  <2>1. /\ exchanges \in SUBSET Exchange
        /\ selected \in [Ids(queues) \cup Ids(exchanges) -> PolicyNames]
        /\ Coherent(queues, exchanges, policies, selected)
    BY DEF IInv, BrokerInv, Coherent, MaySelectAll
  <2>2. effective'["definitions"] = HopsInEffect(queues, exchanges, policies, selected)
    BY <1>3, EffectiveHopsAreInEffect
  <2>3. QED BY <1>2, <2>1, <2>2 DEF ExportInv
<1>7. OutcomeInv'
  BY <1>1 DEF OutcomeInv
<1>8. QED BY <1>4, <1>5, <1>6, <1>7 DEF IInv

(* A listing fills in nothing that the export is about.                    *)
LEMMA ListingStep ==
  ASSUME IInv, ListQueues \/ ListExchanges PROVE IInv'
<1>1. PICK request \in {"queues", "exchanges"} :
        /\ outcome = "pending" /\ captured' = captured \cup {request}
        /\ effective' = [effective EXCEPT ![request] = EffectiveHops]
        /\ UNCHANGED <<queues, exchanges, policies, selected, outcome>>
        /\ request # "exchanges" => capture'.observed_exchanges = capture.observed_exchanges
  BY DEF ListQueues, ListExchanges, Answer, broker, IInv, CaptureInv
<1>2. /\ capture'.queues = capture.queues /\ capture'.policies = capture.policies
      /\ capture'.exchanges = capture.exchanges
      /\ capture'.observing = capture.observing
      /\ capture' = [vhosts |-> Vhosts, queues |-> capture'.queues,
                     exchanges |-> capture'.exchanges, bindings |-> capture'.bindings,
                     policies |-> capture'.policies, shovels |-> {},
                     observed_queues |-> capture'.observed_queues,
                     observed_exchanges |-> capture'.observed_exchanges,
                     observing |-> capture'.observing, hosts |-> {}]
  BY DEF ListQueues, ListExchanges, Answer, IInv, CaptureInv
<1>3. /\ effective'["definitions"] = effective["definitions"]
      /\ effective' = [r \in Requests |-> effective'[r]]
  BY <1>1 DEF IInv, CaptureInv, Requests
<1>4. BrokerInv'
  BY <1>1 DEF IInv, BrokerInv, Coherent, UniqueIds, UniqueNames
<1>5. CaptureInv'
  BY <1>1, <1>2, <1>3 DEF IInv, CaptureInv
<1>6. ExportInv'
  BY <1>1, <1>2, <1>3 DEF IInv, ExportInv
<1>7. OutcomeInv'
  BY <1>1 DEF OutcomeInv
<1>8. QED BY <1>4, <1>5, <1>6, <1>7 DEF IInv

(* The parse only looks.                                                   *)
LEMMA AuditStep ==
  ASSUME IInv, Audit PROVE IInv'
<1>1. /\ outcome = "pending" /\ "definitions" \in captured /\ outcome' # "pending"
      /\ UNCHANGED <<queues, exchanges, policies, selected, captured, effective>>
  BY DEF Audit, broker
<1>2. /\ capture'.queues = capture.queues /\ capture'.policies = capture.policies
      /\ capture'.exchanges = capture.exchanges
      /\ capture'.observed_exchanges = capture.observed_exchanges
      /\ capture'.observing = ("queues" \in captured)
      /\ capture' = [vhosts |-> Vhosts, queues |-> capture'.queues,
                     exchanges |-> capture'.exchanges, bindings |-> capture'.bindings,
                     policies |-> capture'.policies, shovels |-> {},
                     observed_queues |-> capture'.observed_queues,
                     observed_exchanges |-> capture'.observed_exchanges,
                     observing |-> capture'.observing, hosts |-> {}]
  BY DEF Audit, IInv, CaptureInv
<1>3. BrokerInv'
  BY <1>1 DEF IInv, BrokerInv, Coherent, UniqueIds, UniqueNames
<1>4. CaptureInv'
  BY <1>1, <1>2 DEF IInv, CaptureInv
<1>5. ExportInv'
  BY <1>1, <1>2 DEF IInv, ExportInv
<1>6. OutcomeInv'
  BY <1>1 DEF Audit, OutcomeInv
<1>7. QED BY <1>3, <1>4, <1>5, <1>6 DEF IInv

(* Nothing in the invariant is about history variables other than          *)
(* effective.                                                              *)
LEMMA FrameStep ==
  ASSUME IInv, BrokerInv', UNCHANGED <<captured, capture, outcome, effective>>
  PROVE  IInv'
  BY DEF IInv, CaptureInv, ExportInv, OutcomeInv

LEMMA NextInv == IInv /\ [Next]_vars => IInv'
<1> SUFFICES ASSUME IInv, [Next]_vars PROVE IInv'
  OBVIOUS
<1>1. CASE \/ \E p \in Policy : PutPolicy(p) \/ DeletePolicy(p)
           \/ \E q \in Queue : DeclareQueue(q) \/ DeleteQueue(q)
           \/ \E x \in Exchange : DeclareExchange(x) \/ DeleteExchange(x)
  <2>1. BrokerInv' /\ UNCHANGED <<captured, capture, outcome, effective>>
    BY <1>1, ClientsKeepBroker DEF IInv
  <2>2. QED BY <2>1, FrameStep
<1>2. CASE ExportDefinitions
  BY <1>2, ExportStep
<1>3. CASE ListQueues \/ ListExchanges
  BY <1>3, ListingStep
<1>4. CASE Audit
  BY <1>4, AuditStep
<1>5. CASE UNCHANGED vars
  <2>1. BrokerInv'
    BY <1>5 DEF IInv, BrokerInv, vars, broker
  <2>2. UNCHANGED <<captured, capture, outcome, effective>>
    BY <1>5 DEF vars
  <2>3. QED BY <2>1, <2>2, FrameStep
<1>6. QED BY <1>1, <1>2, <1>3, <1>4, <1>5 DEF Next

(***************************************************************************)
(* An export that is parsed without observations gives the hops in effect, *)
(* whatever the broker holds and whatever policies it selected: the guard  *)
(* of _require_unobserved_policy_irrelevance (policy_routes.py) leaves     *)
(* nothing to guess.                                                       *)
(***************************************************************************)
THEOREM NeverGuesses == Spec => []UnobservedNeverGuesses
<1>1. IInv => UnobservedNeverGuesses
  BY ExportAloneIsExact
<1>2. QED BY InitInv, NextInv, <1>1, PTL DEF Spec

-----------------------------------------------------------------------------
(* A capture with listings *)

(* What the broker was seen to hold.                                       *)
SeenInv ==
  /\ queues \subseteq seen.queues /\ exchanges \subseteq seen.exchanges
  /\ policies \subseteq seen.policies
  /\ "definitions" \in captured =>
       /\ capture.queues \subseteq seen.queues /\ capture.exchanges \subseteq seen.exchanges
       /\ capture.policies \subseteq seen.policies

(* A listing and the hops in effect were taken from one broker.            *)
SeenBroker(Q, X, P, s) ==
  /\ Coherent(Q, X, P, s)
  /\ Q \subseteq seen.queues /\ X \subseteq seen.exchanges /\ P \subseteq seen.policies

ListedQueues(Q, s) == {[id |-> q.id, queue_type |-> TypeOf(q), policy |-> s[q.id]] : q \in Q}

ListedExchanges(X, s) ==
  {[id |-> x.id, type |-> x.type, internal |-> x.internal, policy |-> s[x.id],
    alternate_exchange |-> x.alternate_exchange] : x \in X}

QueuesInv ==
  "queues" \in captured =>
    \E Q \in SUBSET Queue, X \in SUBSET Exchange, P \in SUBSET Policy :
    \E s \in [Ids(Q) \cup Ids(X) -> PolicyNames] :
      /\ SeenBroker(Q, X, P, s)
      /\ capture.observed_queues = ListedQueues(Q, s)
      /\ effective["queues"] = HopsInEffect(Q, X, P, s)

ExchangesInv ==
  "exchanges" \in captured =>
    \E Q \in SUBSET Queue, X \in SUBSET Exchange, P \in SUBSET Policy :
    \E s \in [Ids(Q) \cup Ids(X) -> PolicyNames] :
      /\ SeenBroker(Q, X, P, s)
      /\ capture.observed_exchanges = ListedExchanges(X, s)
      /\ effective["exchanges"] = HopsInEffect(Q, X, P, s)

(* What is concluded, and from what.                                       *)
AuditInv ==
  /\ captured \subseteq Requests
  /\ outcome \in {"pending", "parsed", "error"}
  /\ outcome = "parsed" => ("queues" \in captured) = ("exchanges" \in captured)
  /\ outcome # "pending" =>
       "definitions" \in captured /\ capture.observing = ("queues" \in captured)
  /\ outcome = "error" =>
       ("queues" \in captured) # ("exchanges" \in captured) \/ Rejects(capture)

(* As long as nobody changes it, there is but one broker.                  *)
QuietInv ==
  changes = 0 =>
    /\ "definitions" \in captured =>
         /\ capture.queues = queues /\ capture.policies = policies
         /\ capture.exchanges = {x \in exchanges : ~Omitted(x)}
    /\ "queues" \in captured => capture.observed_queues = ListedQueues(queues, selected)
    /\ "exchanges" \in captured =>
         capture.observed_exchanges = ListedExchanges(exchanges, selected)

HInv == SeenInv /\ QueuesInv /\ ExchangesInv /\ AuditInv /\ changes \in Nat /\ QuietInv

(* The steps that only add to what was seen.                               *)
LEMMA SeenGrows ==
  ASSUME HInv, NEW Q, NEW X, NEW P, NEW s, SeenBroker(Q, X, P, s),
         seen.queues \subseteq seen'.queues, seen.exchanges \subseteq seen'.exchanges,
         seen.policies \subseteq seen'.policies
  PROVE  SeenBroker(Q, X, P, s)'
  BY DEF SeenBroker, Coherent, UniqueIds, UniqueNames

LEMMA HInitInv == Init => HInv
<1> SUFFICES ASSUME Init PROVE HInv
  OBVIOUS
<1>1. SeenInv
  BY DEF Init, SeenInv
<1>2. QueuesInv /\ ExchangesInv
  BY DEF Init, QueuesInv, ExchangesInv
<1>3. AuditInv
  BY DEF Init, AuditInv
<1>4. changes \in Nat /\ QuietInv
  BY DEF Init, QuietInv
<1>5. QED BY <1>1, <1>2, <1>3, <1>4 DEF HInv

LEMMA HChangeStep ==
  ASSUME HInv, Change PROVE HInv'
<1>1. /\ outcome = "pending" /\ changes' = changes + 1 /\ changes \in Nat
      /\ UNCHANGED <<captured, capture, outcome, effective>>
  BY DEF Change, HInv
<1>2. /\ seen'.queues = seen.queues \cup queues'
      /\ seen'.exchanges = seen.exchanges \cup exchanges'
      /\ seen'.policies = seen.policies \cup policies'
  BY DEF Change
<1>3. SeenInv'
  BY <1>1, <1>2 DEF HInv, SeenInv
<1>4. QueuesInv' /\ ExchangesInv'
  <2>1. ASSUME NEW Q, NEW X, NEW P, NEW s, SeenBroker(Q, X, P, s)
        PROVE  SeenBroker(Q, X, P, s)'
    BY <1>2, <2>1, SeenGrows
  <2>2. QED BY <1>1, <2>1 DEF HInv, QueuesInv, ExchangesInv, ListedQueues, ListedExchanges
<1>5. AuditInv'
  BY <1>1 DEF HInv, AuditInv, Rejects
<1>6. changes' # 0 /\ changes' \in Nat
  BY <1>1
<1>7. QED BY <1>3, <1>4, <1>5, <1>6 DEF HInv, QuietInv

(* The broker as it is has been seen.                                      *)
LEMMA BrokerIsSeen ==
  ASSUME IInv, HInv
  PROVE  /\ SeenBroker(queues, exchanges, policies, selected)
         /\ queues \in SUBSET Queue /\ exchanges \in SUBSET Exchange
         /\ policies \in SUBSET Policy
         /\ selected \in [Ids(queues) \cup Ids(exchanges) -> PolicyNames]
  BY DEF IInv, BrokerInv, Coherent, MaySelectAll, HInv, SeenInv, SeenBroker

LEMMA HAnswerStep ==
  ASSUME IInv, HInv, NEW request \in Requests, NEW answer, Answer(request, answer),
         request # "definitions" => /\ answer.queues = capture.queues
                                    /\ answer.exchanges = capture.exchanges
                                    /\ answer.policies = capture.policies,
         request = "definitions" => /\ answer.queues = queues /\ answer.policies = policies
                                    /\ answer.exchanges = {x \in exchanges : ~Omitted(x)},
         IF request = "queues" THEN answer.observed_queues = ListedQueues(queues, selected)
         ELSE answer.observed_queues = capture.observed_queues,
         IF request = "exchanges"
         THEN answer.observed_exchanges = ListedExchanges(exchanges, selected)
         ELSE answer.observed_exchanges = capture.observed_exchanges
  PROVE  HInv'
<1>1. /\ outcome = "pending" /\ captured' = captured \cup {request} /\ capture' = answer
      /\ effective' = [effective EXCEPT ![request] = EffectiveHops]
      /\ UNCHANGED <<queues, exchanges, policies, selected, outcome, seen, changes>>
  BY DEF Answer, broker
<1>2. /\ effective'[request] = HopsInEffect(queues, exchanges, policies, selected)
      /\ \A r \in Requests : r # request => effective'[r] = effective[r]
  BY <1>1, EffectiveHopsAreInEffect DEF IInv, CaptureInv
<1>3. \A Q, X, P, s : SeenBroker(Q, X, P, s)' <=> SeenBroker(Q, X, P, s)
  BY <1>1 DEF SeenBroker, Coherent, UniqueIds, UniqueNames
<1>4. /\ \A Q, s : ListedQueues(Q, s)' = ListedQueues(Q, s)
      /\ \A X, s : ListedExchanges(X, s)' = ListedExchanges(X, s)
  BY DEF ListedQueues, ListedExchanges
<1>5. SeenInv'
  BY <1>1 DEF HInv, SeenInv
<1>6. QueuesInv'
  <2>1. CASE request = "queues"
    <3>1. /\ SeenBroker(queues, exchanges, policies, selected)'
          /\ capture'.observed_queues = ListedQueues(queues, selected)'
          /\ effective'["queues"] = HopsInEffect(queues, exchanges, policies, selected)'
      BY <1>1, <1>2, <1>3, <2>1, BrokerIsSeen DEF ListedQueues
    <3>2. QED BY <1>1, <3>1, BrokerIsSeen DEF QueuesInv
  <2>2. CASE request # "queues"
    BY <1>1, <1>2, <1>3, <1>4, <2>2 DEF HInv, QueuesInv, Requests
  <2>3. QED BY <2>1, <2>2
<1>7. ExchangesInv'
  <2>1. CASE request = "exchanges"
    <3>1. /\ SeenBroker(queues, exchanges, policies, selected)'
          /\ capture'.observed_exchanges = ListedExchanges(exchanges, selected)'
          /\ effective'["exchanges"] = HopsInEffect(queues, exchanges, policies, selected)'
      BY <1>1, <1>2, <1>3, <2>1, BrokerIsSeen DEF ListedExchanges
    <3>2. QED BY <1>1, <3>1, BrokerIsSeen DEF ExchangesInv
  <2>2. CASE request # "exchanges"
    BY <1>1, <1>2, <1>3, <1>4, <2>2 DEF HInv, ExchangesInv, Requests
  <2>3. QED BY <2>1, <2>2
<1>8. AuditInv'
  BY <1>1 DEF HInv, AuditInv, Requests
<1>9. QuietInv'
  BY <1>1, <1>4 DEF HInv, QuietInv, ListedQueues, ListedExchanges
<1>10. QED BY <1>1, <1>5, <1>6, <1>7, <1>8, <1>9 DEF HInv

LEMMA HAuditStep ==
  ASSUME IInv, HInv, Audit PROVE HInv'
<1>1. /\ outcome = "pending" /\ "definitions" \in captured
      /\ outcome' = IF (("queues" \in captured) # ("exchanges" \in captured)) \/ Rejects(capture')
                    THEN "error" ELSE "parsed"
      /\ UNCHANGED <<queues, exchanges, policies, selected, captured, effective, seen, changes>>
  BY DEF Audit, broker
<1>2. /\ capture'.queues = capture.queues /\ capture'.policies = capture.policies
      /\ capture'.exchanges = capture.exchanges
      /\ capture'.observed_queues = capture.observed_queues
      /\ capture'.observed_exchanges = capture.observed_exchanges
      /\ capture'.observing = ("queues" \in captured)
  BY DEF Audit, IInv, CaptureInv
<1>3. SeenInv'
  BY <1>1, <1>2 DEF HInv, SeenInv
<1>4. QueuesInv' /\ ExchangesInv'
  <2>1. \A Q, X, P, s : SeenBroker(Q, X, P, s)' <=> SeenBroker(Q, X, P, s)
    BY <1>1 DEF SeenBroker, Coherent, UniqueIds, UniqueNames
  <2>2. QED BY <1>1, <1>2, <2>1
            DEF HInv, QueuesInv, ExchangesInv, ListedQueues, ListedExchanges
<1>5. AuditInv'
  <2>1. Rejects(capture)' <=> Rejects(capture')
    OBVIOUS
  <2>2. QED BY <1>1, <1>2, <2>1 DEF HInv, AuditInv
<1>6. QuietInv'
  BY <1>1, <1>2 DEF HInv, QuietInv, ListedQueues, ListedExchanges
<1>7. QED BY <1>1, <1>3, <1>4, <1>5, <1>6 DEF HInv

LEMMA HNextInv == IInv /\ HInv /\ [Next]_vars => HInv'
<1> SUFFICES ASSUME IInv, HInv, [Next]_vars PROVE HInv'
  OBVIOUS
<1>1. CASE Change
  BY <1>1, HChangeStep
<1>2. CASE ExportDefinitions
  <2>1. PICK bindings : Answer("definitions", [capture EXCEPT
            !.queues = queues, !.exchanges = {x \in exchanges : ~Omitted(x)},
            !.policies = policies, !.bindings = bindings])
    BY <1>2 DEF ExportDefinitions
  <2> DEFINE answer == [capture EXCEPT
            !.queues = queues, !.exchanges = {x \in exchanges : ~Omitted(x)},
            !.policies = policies, !.bindings = bindings]
  <2>2. /\ answer.queues = queues /\ answer.policies = policies
        /\ answer.exchanges = {x \in exchanges : ~Omitted(x)}
        /\ answer.observed_queues = capture.observed_queues
        /\ answer.observed_exchanges = capture.observed_exchanges
    BY DEF IInv, CaptureInv
  <2> HIDE DEF answer
  <2>3. Answer("definitions", answer)
    BY <2>1 DEF answer
  <2>4. QED BY <2>2, <2>3, HAnswerStep DEF Requests
<1>3. CASE ListQueues
  <2> DEFINE answer == [capture EXCEPT !.observed_queues = ListedQueues(queues, selected)]
  <2>1. /\ answer.queues = capture.queues /\ answer.policies = capture.policies
        /\ answer.exchanges = capture.exchanges
        /\ answer.observed_queues = ListedQueues(queues, selected)
        /\ answer.observed_exchanges = capture.observed_exchanges
    BY DEF IInv, CaptureInv
  <2>2. Answer("queues", answer)
    BY <1>3 DEF ListQueues, ListedQueues
  <2> HIDE DEF answer
  <2>3. QED BY <2>1, <2>2, HAnswerStep DEF Requests
<1>4. CASE ListExchanges
  <2> DEFINE answer == [capture EXCEPT !.observed_exchanges = ListedExchanges(exchanges, selected)]
  <2>1. /\ answer.queues = capture.queues /\ answer.policies = capture.policies
        /\ answer.exchanges = capture.exchanges
        /\ answer.observed_queues = capture.observed_queues
        /\ answer.observed_exchanges = ListedExchanges(exchanges, selected)
    BY DEF IInv, CaptureInv
  <2>2. Answer("exchanges", answer)
    BY <1>4 DEF ListExchanges, ListedExchanges
  <2> HIDE DEF answer
  <2>3. QED BY <2>1, <2>2, HAnswerStep DEF Requests
<1>5. CASE Audit
  BY <1>5, HAuditStep
<1>6. CASE UNCHANGED vars
  <2>1. UNCHANGED <<queues, exchanges, policies, selected, captured, capture, outcome,
                    effective, seen, changes>>
    BY <1>6 DEF vars, broker
  <2>2. \A Q, X, P, s : SeenBroker(Q, X, P, s)' <=> SeenBroker(Q, X, P, s)
    BY <2>1 DEF SeenBroker, Coherent, UniqueIds, UniqueNames
  <2>3. QueuesInv' /\ ExchangesInv'
    BY <2>1, <2>2 DEF HInv, QueuesInv, ExchangesInv, ListedQueues, ListedExchanges
  <2>4. SeenInv' /\ QuietInv'
    BY <2>1 DEF HInv, SeenInv, QuietInv, ListedQueues, ListedExchanges
  <2>5. AuditInv'
    BY <2>1 DEF HInv, AuditInv
  <2>6. QED BY <2>1, <2>3, <2>4, <2>5 DEF HInv
<1>7. QED BY <1>1, <1>2, <1>3, <1>4, <1>5, <1>6
          DEF Next, PutPolicy, DeletePolicy, DeclareQueue, DeleteQueue, DeclareExchange,
              DeleteExchange

LEMMA HInvariance == Spec => [](IInv /\ HInv)
  BY InitInv, NextInv, HInitInv, HNextInv, PTL DEF Spec

-----------------------------------------------------------------------------
(* A parse of a capture with listings *)

(* The policy that a broker with the policies P selected for r is the one  *)
(* observed, and the export E, of perhaps another time, does not           *)
(* contradict it.                                                          *)
ObservedWell(E, P, s, r, type, selections) ==
  /\ \A p \in E, c \in P : p.vhost = c.vhost /\ p.name = c.name => p = c
  /\ UniqueNames(P) /\ \A p \in E : p.name # None
  /\ selections[r.id] = s[r.id] /\ ~ObservationConflicts(r.id, type, E, selections)
  /\ SelectionCovers(P, s, r, type)

(* It leads to what the broker did.                                        *)
LEMMA ObservedValue ==
  ASSUME NEW E, NEW P, NEW s, NEW r, NEW type, NEW selections, NEW field,
         ObservedWell(E, P, s, r, type, selections)
  PROVE  OrElse(r[field], PolicyValue(r.id, E, selections, field)) = EffectOf(P, s, r, field)
<1> USE DEF ObservedWell
<1>1. CASE s[r.id] = None
  <2>1. Selected(r.id, E, selections) = {}
    BY <1>1 DEF Selected
  <2>2. PolicyValue(r.id, E, selections, field) = None
    BY <2>1 DEF PolicyValue
  <2>3. QED BY <1>1, <2>2 DEF EffectOf
<1>2. CASE s[r.id] # None
  <2>1. PICK p \in E : Selected(r.id, E, selections) = {p}
    BY <1>2 DEF ObservationConflicts
  <2>2. PICK c \in P : c.vhost = r.id.vhost /\ c.name = s[r.id]
    BY <1>2 DEF SelectionCovers
  <2>3. p.vhost = r.id.vhost /\ p.name = s[r.id]
    BY <2>1 DEF Selected
  <2>4. p = c
    BY <2>2, <2>3 DEF UniqueNames
  <2>5. (CHOOSE d \in P : d.vhost = r.id.vhost /\ d.name = s[r.id]) = p
    <3>1. \A d \in P : d.vhost = r.id.vhost /\ d.name = s[r.id] => d = p
      BY <2>2, <2>4 DEF UniqueNames
    <3>2. QED BY <2>2, <2>4, <3>1
  <2>6. PolicyValue(r.id, E, selections, field) = p[field]
    BY <2>1 DEF PolicyValue
  <2>7. QED BY <1>2, <2>5, <2>6 DEF EffectOf
<1>3. QED BY <1>1, <1>2

(* A selection of the broker does not conflict with an export of its own.  *)
LEMMA OwnSelectionFits ==
  ASSUME NEW P, NEW s, NEW r, NEW type, NEW selections,
         UniqueNames(P), selections[r.id] = s[r.id], SelectionCovers(P, s, r, type)
  PROVE  ~ObservationConflicts(r.id, type, P, selections)
<1>1. SUFFICES ASSUME s[r.id] # None
               PROVE  \E p \in P : /\ Selected(r.id, P, selections) = {p}
                                   /\ ApplyToMatches(p.apply_to, r.id.kind, type)
  BY DEF ObservationConflicts
<1>2. PICK p \in P : /\ p.vhost = r.id.vhost /\ p.name = s[r.id]
                     /\ ApplyToMatches(p.apply_to, r.id.kind, type)
  BY <1>1 DEF SelectionCovers
<1>3. Selected(r.id, P, selections) = {p}
  BY <1>2 DEF Selected, UniqueNames
<1>4. QED BY <1>2, <1>3

(* What was listed, by the capture as a whole.                             *)
LEMMA Listings ==
  ASSUME IInv, HInv, captured = Requests, outcome # "pending"
  PROVE  /\ capture.observing /\ capture.vhosts = Vhosts
         /\ outcome = "error" => Rejects(capture)
         /\ outcome = "parsed" => ~Rejects(capture)
         /\ \A o \in capture.observed_queues : o.id.kind = "queue"
         /\ \A o \in capture.observed_exchanges : o.id.kind = "exchange"
<1>1. capture.observing /\ (outcome = "error" => Rejects(capture))
  BY DEF HInv, AuditInv, Requests
<1>2. \A o \in capture.observed_queues : o.id.kind = "queue"
  <2>1. PICK Q \in SUBSET Queue : \E s : capture.observed_queues = ListedQueues(Q, s)
    BY DEF HInv, QueuesInv, Requests
  <2>2. QED BY <2>1, KindAssumption DEF ListedQueues
<1>3. \A o \in capture.observed_exchanges : o.id.kind = "exchange"
  <2>1. PICK X \in SUBSET Exchange : \E s : capture.observed_exchanges = ListedExchanges(X, s)
    BY DEF HInv, ExchangesInv, Requests
  <2>2. QED BY <2>1, KindAssumption DEF ListedExchanges
<1>4. capture.vhosts = Vhosts /\ (outcome = "parsed" => ~Rejects(capture))
  BY DEF IInv, CaptureInv, OutcomeInv
<1>5. QED BY <1>1, <1>2, <1>3, <1>4

(* Whoever was listed was observed, with the policy listed.                *)
LEMMA SelectionsExact ==
  ASSUME NEW T,
         T.observing \/ (T.observed_queues = {} /\ T.observed_exchanges = {}),
         ~DuplicateObservations(T.observed_queues),
         ~DuplicateObservations(T.observed_exchanges),
         \A o \in T.observed_queues : o.id.kind = "queue",
         \A o \in T.observed_exchanges : o.id.kind = "exchange"
  PROVE  /\ \A id : Observed(id, Selections(T)) <=>
                      id \in Ids(T.observed_queues) \cup Ids(T.observed_exchanges)
         /\ \A o \in T.observed_queues \cup T.observed_exchanges :
              Selections(T)[o.id] = o.policy
<1> DEFINE Listed == T.observed_queues \cup T.observed_exchanges
<1>1. DOMAIN Selections(T) = Ids(T.observed_queues) \cup Ids(T.observed_exchanges)
  <2>1. CASE T.observing
    BY <2>1 DEF Selections
  <2>2. CASE ~T.observing
    BY <2>2 DEF Selections, Ids
  <2>3. QED BY <2>1, <2>2
<1>2. ASSUME NEW o \in Listed PROVE Selections(T)[o.id] = o.policy
  <2>1. \A r \in Listed : r.id = o.id => r = o
    BY DEF DuplicateObservations
  <2>2. (CHOOSE r \in Listed : r.id = o.id) = o
    BY <2>1
  <2>3. o.id \in Ids(T.observed_queues) \cup Ids(T.observed_exchanges)
    BY DEF Ids
  <2>4. T.observing
    OBVIOUS
  <2>5. QED BY <2>2, <2>3, <2>4 DEF Selections
<1>3. QED BY <1>1, <1>2 DEF Observed

LEMMA DeadLetterWasEffective ==
  ASSUME IInv, HInv, outcome = "parsed", captured = Requests, NothingRenamed,
         NEW e \in DeadLetterEdges(capture)
  PROVE  e \in effective["definitions"] \cup effective["queues"]
<1> DEFINE E == capture.policies
           sel == Selections(capture)
<1>1. /\ capture.observing /\ ~Rejects(capture) /\ capture.vhosts = Vhosts
      /\ \A o \in capture.observed_queues : o.id.kind = "queue"
      /\ \A o \in capture.observed_exchanges : o.id.kind = "exchange"
  BY Listings
<1>2. PICK q \in capture.queues :
        /\ DeadLetterValue(q, E, sel, "dead_letter_exchange") # None
        /\ e = Hop(q.id,
                   NodeIdAt(q.id.vhost, DeadLetterValue(q, E, sel, "dead_letter_exchange"),
                            "exchange"),
                   "dead_letter", DeadLetterValue(q, E, sel, "dead_letter_routing_key"))
  BY DEF DeadLetterEdges
<1>3. PICK X, s : /\ Coherent(capture.queues, X, E, s)
                  /\ effective["definitions"] = HopsInEffect(capture.queues, X, E, s)
  BY DEF IInv, ExportInv, Requests
<1>4. ~DeadLetterUnknown(q, TypeOf(q), E, sel)
  <2>1. ResolvedQueueType(capture, q) = TypeOf(q)
    BY <1>1 DEF ResolvedQueueType, TypeOf
  <2>2. QED BY <1>1, <2>1 DEF Rejects
<1>5. CASE ~Observed(q.id, sel)
  <2>1. /\ DeadLetterValue(q, E, sel, "dead_letter_exchange") = q.dead_letter_exchange
        /\ DeadLetterValue(q, E, sel, "dead_letter_routing_key") = q.dead_letter_routing_key
    BY <1>5 DEF DeadLetterValue
  <2>2. UniqueNames(E) /\ SelectionCovers(E, s, q, TypeOf(q))
    BY <1>3, CoherentSelects
  <2>3. /\ EffectOf(E, s, q, "dead_letter_exchange") = q.dead_letter_exchange
        /\ EffectOf(E, s, q, "dead_letter_routing_key") = q.dead_letter_routing_key
    BY <1>2, <1>4, <1>5, <2>1, <2>2, UnobservedQueue
  <2>4. QED BY <1>2, <1>3, <2>1, <2>3 DEF HopsInEffect
<1>6. CASE Observed(q.id, sel)
  <2>1. PICK Q, Y, P, t : /\ SeenBroker(Q, Y, P, t)
                          /\ capture.observed_queues = ListedQueues(Q, t)
                          /\ effective["queues"] = HopsInEffect(Q, Y, P, t)
    BY DEF HInv, QueuesInv, Requests
  <2>2. ~DuplicateObservations(capture.observed_queues)
        /\ ~DuplicateObservations(capture.observed_exchanges)
    BY <1>1 DEF Rejects
  <2>3. q.id.kind = "queue" /\ q \in seen.queues /\ E \subseteq seen.policies
    BY <1>3, KindAssumption DEF Coherent, HInv, SeenInv, Requests
  <2>4. PICK o \in capture.observed_queues : o.id = q.id
    BY <1>1, <1>6, <2>2, <2>3, SelectionsExact DEF Ids
  <2>5. PICK r \in Q : o.id = r.id /\ o.policy = t[r.id]
    BY <2>1 DEF ListedQueues
  <2>6. r = q
    BY <2>1, <2>3, <2>4, <2>5 DEF SeenBroker, NothingRenamed, UniqueIds
  <2>7. sel[q.id] = t[q.id]
    BY <1>1, <2>2, <2>4, <2>5, SelectionsExact
  <2>8. \A p \in E, c \in P : p.vhost = c.vhost /\ p.name = c.name => p = c
    BY <2>1, <2>3 DEF SeenBroker, NothingRenamed, UniqueNames
  <2>9. /\ SelectionCovers(P, t, q, TypeOf(q)) /\ UniqueNames(P)
        /\ \A p \in E : p.name # None
    BY <1>3, <2>1, <2>6, CoherentSelects DEF SeenBroker
  <2>10. ~ObservationConflicts(q.id, TypeOf(q), E, sel)
    BY <1>4, <1>6 DEF DeadLetterUnknown
  <2>11. \A field : DeadLetterValue(q, E, sel, field) = EffectOf(P, t, q, field)
    <3>1. ObservedWell(E, P, t, q, TypeOf(q), sel)
      BY <2>7, <2>8, <2>9, <2>10 DEF ObservedWell
    <3>2. QED BY <1>6, <3>1, ObservedValue DEF DeadLetterValue
  <2>12. QED BY <1>2, <2>1, <2>6, <2>11 DEF HopsInEffect
<1>7. QED BY <1>5, <1>6

LEMMA AlternateWasEffective ==
  ASSUME IInv, HInv, outcome = "parsed", captured = Requests, NothingRenamed,
         NEW e \in AlternateExchangeEdges(capture)
  PROVE  e \in effective["definitions"] \cup effective["exchanges"]
<1> DEFINE E == capture.policies
           sel == Selections(capture)
<1>1. /\ capture.observing /\ ~Rejects(capture)
      /\ \A o \in capture.observed_queues : o.id.kind = "queue"
      /\ \A o \in capture.observed_exchanges : o.id.kind = "exchange"
      /\ ~DuplicateObservations(capture.observed_queues)
      /\ ~DuplicateObservations(capture.observed_exchanges)
  BY Listings DEF Rejects
<1>2. PICK x \in AlternateSources(capture) :
        /\ AlternateExchangeValue(x, E, sel) # None
        /\ e = Hop(x.id, NodeIdAt(x.id.vhost, AlternateExchangeValue(x, E, sel), "exchange"),
                   "alternate_exchange", None)
  BY DEF AlternateExchangeEdges
<1>3. PICK X, s : /\ Coherent(capture.queues, X, E, s)
                  /\ capture.exchanges = {y \in X : ~Omitted(y)}
                  /\ effective["definitions"] = HopsInEffect(capture.queues, X, E, s)
  BY DEF IInv, ExportInv, Requests
<1>4. ~AlternateExchangeUnknown(x, E, sel)
  BY <1>1 DEF Rejects
<1>5. CASE ~Observed(x.id, sel)
  <2>1. x \in capture.exchanges
    BY <1>1, <1>5, SelectionsExact DEF AlternateSources, Ids
  <2>2. AlternateExchangeValue(x, E, sel) = x.alternate_exchange
    BY <1>5 DEF AlternateExchangeValue
  <2>3. x \in X /\ UniqueNames(E) /\ SelectionCovers(E, s, x, None)
    BY <1>3, <2>1, CoherentSelects
  <2>4. EffectOf(E, s, x, "alternate_exchange") = x.alternate_exchange
    BY <1>4, <1>5, <2>3, UnobservedExchange
  <2>5. QED BY <1>2, <1>3, <2>2, <2>3, <2>4 DEF HopsInEffect
<1>6. CASE Observed(x.id, sel)
  <2>1. PICK Q, Y, P, t : /\ SeenBroker(Q, Y, P, t)
                          /\ capture.observed_exchanges = ListedExchanges(Y, t)
                          /\ effective["exchanges"] = HopsInEffect(Q, Y, P, t)
    BY DEF HInv, ExchangesInv, Requests
  <2>2. x.id.kind = "exchange" /\ (x \in capture.exchanges => x \in seen.exchanges)
    BY <1>1, <1>3, KindAssumption DEF AlternateSources, Coherent, HInv, SeenInv, Requests
  <2>3. PICK o \in capture.observed_exchanges :
          o.id = x.id /\ (x \in capture.observed_exchanges => o = x)
    BY <1>1, <1>6, <2>2, SelectionsExact DEF Ids
  <2>4. PICK y \in Y : /\ o.id = y.id /\ o.policy = t[y.id]
                       /\ o.alternate_exchange = y.alternate_exchange
    BY <2>1 DEF ListedExchanges
  <2>5. y.id = x.id /\ y.alternate_exchange = x.alternate_exchange
    <3>1. CASE x \in capture.exchanges
      BY <2>1, <2>2, <2>3, <2>4, <3>1 DEF SeenBroker, NothingRenamed, UniqueIds
    <3>2. CASE x \in capture.observed_exchanges
      BY <2>3, <2>4, <3>2
    <3>3. QED BY <3>1, <3>2 DEF AlternateSources
  <2>6. sel[y.id] = t[y.id]
    BY <1>1, <2>3, <2>4, SelectionsExact
  <2>7. \A p \in E, c \in P : p.vhost = c.vhost /\ p.name = c.name => p = c
    BY <2>1 DEF SeenBroker, NothingRenamed, UniqueNames, HInv, SeenInv, Requests
  <2>8. /\ SelectionCovers(P, t, y, None) /\ UniqueNames(P)
        /\ \A p \in E : p.name # None
    BY <1>3, <2>1, CoherentSelects DEF SeenBroker
  <2>9. ~ObservationConflicts(y.id, None, E, sel)
    BY <1>4, <1>6, <2>5 DEF AlternateExchangeUnknown
  <2>10. AlternateExchangeValue(x, E, sel) = EffectOf(P, t, y, "alternate_exchange")
    <3>1. ObservedWell(E, P, t, y, None, sel)
      BY <2>6, <2>7, <2>8, <2>9 DEF ObservedWell
    <3>2. OrElse(y.alternate_exchange, PolicyValue(y.id, E, sel, "alternate_exchange")) =
            EffectOf(P, t, y, "alternate_exchange")
      BY <3>1, ObservedValue
    <3>3. QED BY <1>6, <2>5, <3>2 DEF AlternateExchangeValue
  <2>11. QED BY <1>2, <2>1, <2>5, <2>10 DEF HopsInEffect
<1>7. QED BY <1>5, <1>6

(***************************************************************************)
(* A capture with listings, however torn, gives only hops that were in     *)
(* effect when one of its requests was answered, unless a name has come to *)
(* mean something else meanwhile (_TopologyBuilder, policy_routes.py).     *)
(***************************************************************************)
THEOREM ParsedHopsWereEffective == Spec => []HopsWereEffective
<1>1. IInv /\ HInv => HopsWereEffective
  <2>1. SUFFICES ASSUME IInv, HInv, outcome = "parsed", captured = Requests, NothingRenamed,
                        NEW e \in ParsedHops
                 PROVE  \E r \in Requests : e \in effective[r]
    BY DEF HopsWereEffective
  <2>2. e \in effective["definitions"] \cup effective["queues"] \cup effective["exchanges"]
    BY <2>1, DeadLetterWasEffective, AlternateWasEffective DEF ParsedHops
  <2>3. QED BY <2>2 DEF Requests
<1>2. QED BY <1>1, HInvariance, PTL

-----------------------------------------------------------------------------
(* A capture of a broker that nobody changed *)

(* Whatever the broker holds is listed.                                    *)
LEMMA QueueIsListed ==
  ASSUME NEW Q, NEW s, NEW q \in Q
  PROVE  \E o \in ListedQueues(Q, s) : o.id = q.id /\ o.policy = s[q.id]
<1> DEFINE o == [id |-> q.id, queue_type |-> TypeOf(q), policy |-> s[q.id]]
<1>1. o \in ListedQueues(Q, s)
  BY DEF ListedQueues
<1>2. o.id = q.id /\ o.policy = s[q.id]
  OBVIOUS
<1> HIDE DEF o
<1>3. QED BY <1>1, <1>2

LEMMA ExchangeIsListed ==
  ASSUME NEW X, NEW s, NEW x \in X
  PROVE  \E o \in ListedExchanges(X, s) :
           /\ o.id = x.id /\ o.policy = s[x.id]
           /\ o.alternate_exchange = x.alternate_exchange
<1> DEFINE o == [id |-> x.id, type |-> x.type, internal |-> x.internal, policy |-> s[x.id],
                 alternate_exchange |-> x.alternate_exchange]
<1>1. o \in ListedExchanges(X, s)
  BY DEF ListedExchanges
<1>2. o.id = x.id /\ o.policy = s[x.id] /\ o.alternate_exchange = x.alternate_exchange
  OBVIOUS
<1> HIDE DEF o
<1>3. QED BY <1>1, <1>2

(* Everything was listed, and nothing contradicts the export.              *)
LEMMA QuietListings ==
  ASSUME IInv, HInv, captured = Requests, outcome # "pending", changes = 0
  PROVE  /\ ~DuplicateObservations(capture.observed_queues)
         /\ ~DuplicateObservations(capture.observed_exchanges)
         /\ capture.queues = queues /\ capture.policies = policies
         /\ \A q \in queues :
              /\ Observed(q.id, Selections(capture))
              /\ ObservedWell(policies, policies, selected, q, TypeOf(q), Selections(capture))
         /\ \A x \in exchanges :
              /\ Observed(x.id, Selections(capture))
              /\ ObservedWell(policies, policies, selected, x, None, Selections(capture))
<1> DEFINE sel == Selections(capture)
<1>1. /\ capture.queues = queues /\ capture.policies = policies
      /\ capture.observed_queues = ListedQueues(queues, selected)
      /\ capture.observed_exchanges = ListedExchanges(exchanges, selected)
  BY DEF HInv, QuietInv, Requests
<1>2. Coherent(queues, exchanges, policies, selected)
  BY DEF IInv, BrokerInv
<1>3. ~DuplicateObservations(capture.observed_queues)
  BY <1>1, <1>2 DEF DuplicateObservations, ListedQueues, Coherent, UniqueIds
<1>4. ~DuplicateObservations(capture.observed_exchanges)
  BY <1>1, <1>2 DEF DuplicateObservations, ListedExchanges, Coherent, UniqueIds
<1>5. /\ UniqueNames(policies) /\ \A p \in policies : p.name # None
      /\ \A q \in queues : SelectionCovers(policies, selected, q, TypeOf(q))
      /\ \A x \in exchanges : SelectionCovers(policies, selected, x, None)
  BY <1>2, CoherentSelects
<1>6. ASSUME NEW r, NEW type, NEW o \in capture.observed_queues \cup capture.observed_exchanges,
             o.id = r.id, o.policy = selected[r.id], SelectionCovers(policies, selected, r, type)
      PROVE  /\ Observed(r.id, sel)
             /\ ObservedWell(policies, policies, selected, r, type, sel)
  <2>1. Observed(r.id, sel) /\ sel[r.id] = selected[r.id]
    BY <1>3, <1>4, <1>6, Listings, SelectionsExact DEF Ids
  <2>2. ~ObservationConflicts(r.id, type, policies, sel)
    BY <1>5, <1>6, <2>1, OwnSelectionFits
  <2>3. QED BY <1>5, <1>6, <2>1, <2>2 DEF ObservedWell, UniqueNames
<1>7. ASSUME NEW q \in queues
      PROVE  /\ Observed(q.id, sel)
             /\ ObservedWell(policies, policies, selected, q, TypeOf(q), sel)
  <2>1. PICK o \in capture.observed_queues : o.id = q.id /\ o.policy = selected[q.id]
    BY <1>1, QueueIsListed
  <2>2. QED BY <1>5, <1>6, <2>1
<1>8. ASSUME NEW x \in exchanges
      PROVE  /\ Observed(x.id, sel)
             /\ ObservedWell(policies, policies, selected, x, None, sel)
  <2>1. PICK o \in capture.observed_exchanges : o.id = x.id /\ o.policy = selected[x.id]
    BY <1>1, ExchangeIsListed
  <2>2. QED BY <1>5, <1>6, <2>1
<1>9. QED BY <1>1, <1>3, <1>4, <1>7, <1>8

(* The sources of alternate exchanges are the exchanges of the broker.     *)
LEMMA QuietSources ==
  ASSUME IInv, HInv, captured = Requests, changes = 0
  PROVE  /\ \A y \in AlternateSources(capture) : \E x \in exchanges :
              y.id = x.id /\ y.alternate_exchange = x.alternate_exchange
         /\ \A x \in exchanges : \E y \in AlternateSources(capture) :
              y.id = x.id /\ y.alternate_exchange = x.alternate_exchange
<1>1. /\ capture.exchanges = {x \in exchanges : ~Omitted(x)}
      /\ capture.observed_exchanges = ListedExchanges(exchanges, selected)
  BY DEF HInv, QuietInv, Requests
<1>2. UniqueIds(exchanges)
  BY DEF IInv, BrokerInv, Coherent
<1>3. \A o \in capture.observed_exchanges : \E x \in exchanges :
        o.id = x.id /\ o.alternate_exchange = x.alternate_exchange
  BY <1>1 DEF ListedExchanges
<1>4. ASSUME NEW x \in exchanges
      PROVE  \E y \in AlternateSources(capture) :
               y.id = x.id /\ y.alternate_exchange = x.alternate_exchange
  <2>1. CASE x \in capture.exchanges
    BY <2>1 DEF AlternateSources
  <2>2. CASE x \notin capture.exchanges
    <3>1. x.id \notin Ids(capture.exchanges)
      BY <1>1, <1>2, <2>2 DEF Ids, UniqueIds
    <3>2. PICK o \in capture.observed_exchanges :
            o.id = x.id /\ o.alternate_exchange = x.alternate_exchange
      BY <1>1, ExchangeIsListed
    <3>3. QED BY <3>1, <3>2 DEF AlternateSources
  <2>3. QED BY <2>1, <2>2
<1>5. QED BY <1>1, <1>3, <1>4 DEF AlternateSources

LEMMA QuietIsAccepted ==
  ASSUME IInv, HInv, captured = Requests, outcome # "pending", changes = 0
  PROVE  ~Rejects(capture)
<1> DEFINE sel == Selections(capture)
<1>1. ASSUME NEW q \in capture.queues
      PROVE  /\ ~QueueTypeUnknown(capture, q)
             /\ ~DeadLetterUnknown(q, ResolvedQueueType(capture, q), capture.policies, sel)
  <2>1. /\ q \in queues /\ queues \subseteq Queue /\ capture.vhosts = Vhosts
        /\ capture.observed_queues = ListedQueues(queues, selected)
        /\ capture.policies = policies /\ UniqueIds(queues)
    BY DEF IInv, CaptureInv, BrokerInv, Coherent, HInv, QuietInv, Requests
  <2>2. ResolvedQueueType(capture, q) = TypeOf(q)
    BY <2>1 DEF ResolvedQueueType, TypeOf
  <2>3. TypeOf(q) # None
    BY <2>1, VhostsAssumption DEF TypeOf
  <2>4. \A o \in capture.observed_queues : o.id = q.id => o.queue_type = TypeOf(q)
    BY <2>1 DEF ListedQueues, UniqueIds
  <2>5. ~QueueTypeUnknown(capture, q)
    BY <2>2, <2>3, <2>4 DEF QueueTypeUnknown
  <2>6. ~DeadLetterUnknown(q, TypeOf(q), policies, sel)
    BY <2>1, QuietListings DEF DeadLetterUnknown, ObservedWell
  <2>7. QED BY <2>1, <2>2, <2>5, <2>6
<1>2. ASSUME NEW y \in AlternateSources(capture)
      PROVE  ~AlternateExchangeUnknown(y, capture.policies, sel)
  <2>1. PICK x \in exchanges : y.id = x.id
    BY QuietSources
  <2>2. Observed(x.id, sel) /\ ~ObservationConflicts(x.id, None, policies, sel)
    BY QuietListings DEF ObservedWell
  <2>3. QED BY <2>1, <2>2, QuietListings DEF AlternateExchangeUnknown
<1>3. QED BY <1>1, <1>2, QuietListings DEF Rejects

LEMMA QuietHops ==
  ASSUME IInv, HInv, captured = Requests, outcome # "pending", changes = 0
  PROVE  ParsedHops = EffectiveHops
<1> DEFINE sel == Selections(capture)
           effect(r, field) == EffectOf(policies, selected, r, field)
           dead_letters ==
             {Hop(q.id, NodeIdAt(q.id.vhost, effect(q, "dead_letter_exchange"), "exchange"),
                  "dead_letter", effect(q, "dead_letter_routing_key")) :
                q \in {r \in queues : effect(r, "dead_letter_exchange") # None}}
           alternates ==
             {Hop(x.id, NodeIdAt(x.id.vhost, effect(x, "alternate_exchange"), "exchange"),
                  "alternate_exchange", None) :
                x \in {r \in exchanges : effect(r, "alternate_exchange") # None}}
<1>1. capture.queues = queues /\ capture.policies = policies
  BY QuietListings
<1>2. \A q \in queues : \A field : DeadLetterValue(q, policies, sel, field) = effect(q, field)
  BY QuietListings, ObservedValue DEF DeadLetterValue
<1>3. DeadLetterEdges(capture) = dead_letters
  BY <1>1, <1>2 DEF DeadLetterEdges
<1>4. \A y, x : x \in exchanges /\ y.id = x.id /\ y.alternate_exchange = x.alternate_exchange =>
        AlternateExchangeValue(y, policies, sel) = effect(x, "alternate_exchange")
  <2>1. \A x \in exchanges :
          OrElse(x.alternate_exchange, PolicyValue(x.id, policies, sel, "alternate_exchange")) =
            effect(x, "alternate_exchange")
    BY QuietListings, ObservedValue
  <2>2. QED BY <2>1, QuietListings DEF AlternateExchangeValue
<1>5. AlternateExchangeEdges(capture) = alternates
  <2>1. \A e : e \in AlternateExchangeEdges(capture) => e \in alternates
    BY <1>1, <1>4, QuietSources DEF AlternateExchangeEdges
  <2>2. \A e : e \in alternates => e \in AlternateExchangeEdges(capture)
    BY <1>1, <1>4, QuietSources DEF AlternateExchangeEdges
  <2>3. QED BY <2>1, <2>2
<1>6. EffectiveHops = dead_letters \cup alternates
  BY EffectiveHopsAreInEffect DEF HopsInEffect
<1>7. QED BY <1>3, <1>5, <1>6 DEF ParsedHops

(***************************************************************************)
(* Both listings of a quiet broker and its export are never refused, and   *)
(* the parser finds every hop in effect and no other, those of exchanges   *)
(* that the export omits included (_TopologyBuilder).                      *)
(***************************************************************************)
THEOREM QuietCapturesAreExact == Spec => []QuietCaptureExact
<1>1. IInv /\ HInv => QuietCaptureExact
  <2>1. SUFFICES ASSUME IInv, HInv, outcome # "pending", captured = Requests, changes = 0
                 PROVE  outcome = "parsed" /\ ParsedHops = EffectiveHops
    BY DEF QuietCaptureExact
  <2>2. outcome \in {"parsed", "error"} /\ outcome # "error"
    BY <2>1, Listings, QuietIsAccepted DEF HInv, AuditInv
  <2>3. QED BY <2>1, <2>2, QuietHops
<1>2. QED BY <1>1, HInvariance, PTL

(***************************************************************************)
(* What dangles in a quiet capture is not there, but for system exchanges  *)
(* that an export alone cannot name (_referenced_exchange_supplements).    *)
(***************************************************************************)
THEOREM DanglingResourcesAreAbsent == Spec => []DanglingIsAbsent
<1>1. IInv /\ HInv => DanglingIsAbsent
  <2>1. SUFFICES ASSUME IInv, HInv, outcome = "parsed", changes = 0,
                        NEW e \in DanglingEdges(capture),
                        NEW id \in {e.source, e.target} \ NodeIds(capture),
                        id \in Ids(queues) \cup Ids(exchanges)
                 PROVE  id \in System /\ captured = {"definitions"}
    BY DEF DanglingIsAbsent
  <2>2. /\ capture.queues = queues /\ capture.vhosts = Vhosts
        /\ capture.exchanges = {x \in exchanges : ~Omitted(x)} /\ exchanges \subseteq Exchange
    BY <2>1 DEF HInv, QuietInv, AuditInv, IInv, CaptureInv, BrokerInv, Coherent
  <2>3. id \notin Ids(capture.queues) /\ id \notin Ids(capture.exchanges)
    BY <2>1 DEF NodeIds
  <2>4. PICK x \in exchanges : x.id = id
    BY <2>1, <2>2, <2>3 DEF Ids
  <2>5. Omitted(x)
    BY <2>2, <2>3, <2>4 DEF Ids
  <2>6. /\ id.kind = "exchange" /\ id.vhost \in DOMAIN capture.vhosts
        /\ id \in UNION {{d.source, d.target} : d \in Edges(capture)}
    BY <2>1, <2>2, <2>4, KindAssumption, VhostsAssumption DEF DanglingEdges
  <2>7. id \notin Ids(capture.observed_exchanges) /\ id.name \notin PredeclaredNames
    BY <2>1, <2>6 DEF NodeIds, SupplementIds
  <2>8. id \in System
    BY <2>4, <2>5, <2>7 DEF Omitted
  <2>9. "exchanges" \notin captured
    <3>1. "exchanges" \in captured => id \in Ids(capture.observed_exchanges)
      BY <2>1, <2>4, ExchangeIsListed DEF HInv, QuietInv, Ids
    <3>2. QED BY <2>7, <3>1
  <2>10. captured = {"definitions"}
    BY <2>1, <2>9 DEF HInv, AuditInv, Requests
  <2>11. QED BY <2>8, <2>10
<1>2. QED BY <1>1, HInvariance, PTL

-----------------------------------------------------------------------------
(* Files *)

(* The exported exchanges as a listing in which none has a policy.         *)
Unselected == AsListed(capture.exchanges)

(* What from_files can make of the files of a quiet capture: the export,   *)
(* with each of the listings or an empty one.                              *)
IsLoaded(T) ==
  /\ T.vhosts = Vhosts /\ T.queues = queues /\ T.policies = policies
  /\ T.exchanges = capture.exchanges
  /\ T.observed_queues \in {{}, ListedQueues(queues, selected)}
  /\ T.observed_exchanges \in {{}, ListedExchanges(exchanges, selected), Unselected}
  /\ T.observing \/ (T.observed_queues = {} /\ T.observed_exchanges = {})

(* A complete capture of a broker that nobody changed.                     *)
QuietCapture ==
  /\ IInv /\ HInv
  /\ captured = Requests /\ outcome # "pending" /\ changes = 0

LEMMA QuietBroker ==
  ASSUME QuietCapture
  PROVE  /\ capture.vhosts = Vhosts /\ capture.queues = queues /\ capture.policies = policies
         /\ capture.exchanges = {x \in exchanges : ~Omitted(x)}
         /\ capture.observed_queues = ListedQueues(queues, selected)
         /\ capture.observed_exchanges = ListedExchanges(exchanges, selected)
         /\ capture.observing = TRUE
         /\ queues \subseteq Queue /\ exchanges \subseteq Exchange
         /\ UniqueIds(queues) /\ UniqueIds(exchanges)
         /\ UniqueNames(policies) /\ \A p \in policies : p.name # None
         /\ \A q \in queues : q.id.kind = "queue" /\ SelectionCovers(policies, selected, q, TypeOf(q))
         /\ \A x \in exchanges :
              x.id.kind = "exchange" /\ SelectionCovers(policies, selected, x, None)
<1>1. Coherent(queues, exchanges, policies, selected)
  BY DEF QuietCapture, IInv, BrokerInv
<1>2. /\ capture.vhosts = Vhosts /\ capture.queues = queues /\ capture.policies = policies
      /\ capture.exchanges = {x \in exchanges : ~Omitted(x)}
      /\ capture.observed_queues = ListedQueues(queues, selected)
      /\ capture.observed_exchanges = ListedExchanges(exchanges, selected)
  BY DEF QuietCapture, IInv, CaptureInv, HInv, QuietInv, Requests
<1>3. /\ UniqueNames(policies) /\ \A p \in policies : p.name # None
      /\ \A q \in queues : SelectionCovers(policies, selected, q, TypeOf(q))
      /\ \A x \in exchanges : SelectionCovers(policies, selected, x, None)
  BY <1>1, CoherentSelects
<1>4. /\ queues \subseteq Queue /\ exchanges \subseteq Exchange
      /\ UniqueIds(queues) /\ UniqueIds(exchanges)
  BY <1>1 DEF Coherent
<1>5. capture.observing = TRUE
  <2>1. capture.observing = ("queues" \in captured)
    BY DEF QuietCapture, HInv, AuditInv
  <2>2. ("queues" \in captured) = TRUE
    BY DEF QuietCapture, Requests
  <2>3. QED BY <2>1, <2>2
<1>6. QED BY <1>2, <1>3, <1>4, <1>5, KindAssumption

(* An exported exchange, as one without a policy.                          *)
LEMMA UnselectedExchanges ==
  ASSUME QuietCapture
  PROVE  \A o \in Unselected : \E x \in capture.exchanges :
           /\ o.id = x.id /\ o.policy = None /\ o.alternate_exchange = x.alternate_exchange
<1>1. \A x \in capture.exchanges : "policy" \notin DOMAIN x
  BY QuietBroker, RecordAssumption
<1>2. QED BY <1>1 DEF Unselected, AsListed

(* Who was observed by way of the files, and that it does not mislead.     *)
LEMMA LoadedSelections ==
  ASSUME QuietCapture, NEW T, IsLoaded(T)
  PROVE  /\ \A id : Observed(id, Selections(T)) <=>
                      id \in Ids(T.observed_queues) \cup Ids(T.observed_exchanges)
         /\ \A o \in T.observed_queues \cup T.observed_exchanges : Selections(T)[o.id] = o.policy
<1>1. /\ ~DuplicateObservations(T.observed_queues)
      /\ \A o \in T.observed_queues : o.id.kind = "queue"
  BY QuietBroker DEF IsLoaded, DuplicateObservations, ListedQueues, UniqueIds
<1>2. /\ ~DuplicateObservations(T.observed_exchanges)
      /\ \A o \in T.observed_exchanges : o.id.kind = "exchange"
  <2>1. CASE T.observed_exchanges \in {{}, ListedExchanges(exchanges, selected)}
    BY <2>1, QuietBroker DEF DuplicateObservations, ListedExchanges, UniqueIds
  <2>2. CASE T.observed_exchanges = Unselected
    <3>1. \A x \in capture.exchanges : "policy" \notin DOMAIN x /\ x.id.kind = "exchange"
      BY QuietBroker, RecordAssumption
    <3>2. UniqueIds(capture.exchanges)
      BY QuietBroker DEF UniqueIds
    <3>3. QED BY <2>2, <3>1, <3>2 DEF DuplicateObservations, Unselected, AsListed, UniqueIds
  <2>3. QED BY <2>1, <2>2 DEF IsLoaded
<1>3. T.observing \/ (T.observed_queues = {} /\ T.observed_exchanges = {})
  BY DEF IsLoaded
<1>4. QED BY <1>1, <1>2, <1>3, SelectionsExact

(* A queue that was listed has the policy of the broker.                   *)
LEMMA LoadedQueue ==
  ASSUME QuietCapture, NEW T, IsLoaded(T), ~Rejects(T), NEW q \in queues
  PROVE  /\ DeadLetterValue(q, T.policies, Selections(T), "dead_letter_exchange") =
              EffectOf(policies, selected, q, "dead_letter_exchange")
         /\ DeadLetterValue(q, T.policies, Selections(T), "dead_letter_exchange") # None =>
              DeadLetterValue(q, T.policies, Selections(T), "dead_letter_routing_key") =
              EffectOf(policies, selected, q, "dead_letter_routing_key")
<1> DEFINE sel == Selections(T)
<1>1. /\ q \in T.queues /\ T.policies = policies /\ q.id.kind = "queue"
      /\ UniqueNames(policies) /\ SelectionCovers(policies, selected, q, TypeOf(q))
      /\ \A p \in policies : p.name # None
  BY QuietBroker DEF IsLoaded
<1>2. ResolvedQueueType(T, q) = TypeOf(q)
  BY DEF ResolvedQueueType, TypeOf, IsLoaded
<1>3. ~DeadLetterUnknown(q, TypeOf(q), policies, sel)
  BY <1>1, <1>2 DEF Rejects
<1>4. CASE ~Observed(q.id, sel)
  <2>1. \A field : DeadLetterValue(q, T.policies, sel, field) = q[field]
    BY <1>4 DEF DeadLetterValue
  <2>2. QED BY <1>1, <1>3, <1>4, <2>1, UnobservedQueue
<1>5. CASE Observed(q.id, sel)
  <2>1. q.id \in Ids(T.observed_queues)
    <3>1. \A o \in T.observed_exchanges : o.id.kind = "exchange"
      BY QuietBroker, UnselectedExchanges DEF IsLoaded, ListedExchanges
    <3>2. QED BY <1>1, <1>5, <3>1, LoadedSelections DEF Ids
  <2>2. sel[q.id] = selected[q.id]
    <3>1. PICK o \in T.observed_queues : o.id = q.id
      BY <2>1 DEF Ids
    <3>2. o.policy = selected[q.id]
      BY <3>1 DEF IsLoaded, ListedQueues
    <3>3. QED BY <3>1, <3>2, LoadedSelections
  <2>3. ~ObservationConflicts(q.id, TypeOf(q), policies, sel)
    BY <1>3, <1>5 DEF DeadLetterUnknown
  <2>4. ObservedWell(policies, policies, selected, q, TypeOf(q), sel)
    BY <1>1, <2>2, <2>3 DEF ObservedWell, UniqueNames
  <2>5. \A field : OrElse(q[field], PolicyValue(q.id, policies, sel, field)) =
                   EffectOf(policies, selected, q, field)
    BY <2>4, ObservedValue
  <2>6. QED BY <1>1, <1>5, <2>5 DEF DeadLetterValue
<1>6. QED BY <1>4, <1>5

(* The exchanges whose alternate exchange is looked for are the broker's,  *)
(* the exported ones among them.                                           *)
LEMMA LoadedSources ==
  ASSUME QuietCapture, NEW T, IsLoaded(T)
  PROVE  /\ \A y \in AlternateSources(T) : \E x \in exchanges :
              y.id = x.id /\ y.alternate_exchange = x.alternate_exchange
         /\ capture.exchanges \subseteq AlternateSources(T) \cap exchanges
<1>1. \A o \in T.observed_exchanges : \E x \in exchanges :
        o.id = x.id /\ o.alternate_exchange = x.alternate_exchange
  BY QuietBroker, UnselectedExchanges DEF IsLoaded, ListedExchanges
<1>2. T.exchanges = capture.exchanges /\ capture.exchanges \subseteq exchanges
  BY QuietBroker DEF IsLoaded
<1>3. QED BY <1>1, <1>2 DEF AlternateSources

(* An exchange does what it is taken to do, and is taken to do nothing     *)
(* only where all policies were lost.                                      *)
LEMMA LoadedExchange ==
  ASSUME QuietCapture, NEW T, IsLoaded(T), ~Rejects(T),
         NEW y \in AlternateSources(T), NEW x \in exchanges,
         y.id = x.id, y.alternate_exchange = x.alternate_exchange
  PROVE  \/ AlternateExchangeValue(y, T.policies, Selections(T)) =
              EffectOf(policies, selected, x, "alternate_exchange")
         \/ /\ T.observed_exchanges \notin {{}, ListedExchanges(exchanges, selected)}
            /\ AlternateExchangeValue(y, T.policies, Selections(T)) = None
<1> DEFINE sel == Selections(T)
<1>1. /\ T.policies = policies /\ x.id.kind = "exchange"
      /\ UniqueNames(policies) /\ SelectionCovers(policies, selected, x, None)
      /\ \A p \in policies : p.name # None
  BY QuietBroker DEF IsLoaded
<1>2. ~AlternateExchangeUnknown(y, policies, sel)
  BY <1>1 DEF Rejects
<1>3. CASE ~Observed(x.id, sel)
  <2>1. AlternateExchangeValue(y, T.policies, sel) = x.alternate_exchange
    BY <1>3 DEF AlternateExchangeValue
  <2>2. ~AlternateExchangeUnknown(x, policies, sel)
    BY <1>2, <1>3 DEF AlternateExchangeUnknown
  <2>3. QED BY <1>1, <1>3, <2>1, <2>2, UnobservedExchange
<1>4. CASE Observed(x.id, sel)
  <2>1. AlternateExchangeValue(y, T.policies, sel) =
          OrElse(x.alternate_exchange, PolicyValue(x.id, policies, sel, "alternate_exchange"))
    BY <1>1, <1>4 DEF AlternateExchangeValue
  <2>2. PICK o \in T.observed_exchanges : o.id = x.id
    <3>1. \A o \in T.observed_queues : o.id.kind = "queue"
      BY QuietBroker DEF IsLoaded, ListedQueues
    <3>2. QED BY <1>1, <1>4, <3>1, LoadedSelections DEF Ids
  <2>3. sel[x.id] = o.policy
    BY <2>2, LoadedSelections
  <2>4. CASE T.observed_exchanges = ListedExchanges(exchanges, selected)
    <3>1. sel[x.id] = selected[x.id]
      BY <2>2, <2>3, <2>4 DEF ListedExchanges
    <3>2. ~ObservationConflicts(x.id, None, policies, sel)
      BY <1>2, <1>4 DEF AlternateExchangeUnknown
    <3>3. ObservedWell(policies, policies, selected, x, None, sel)
      BY <1>1, <3>1, <3>2 DEF ObservedWell, UniqueNames
    <3>4. QED BY <2>1, <3>3, ObservedValue
  <2>5. CASE /\ T.observed_exchanges = Unselected
             /\ T.observed_exchanges # ListedExchanges(exchanges, selected)
    <3>1. sel[x.id] = None
      BY <2>2, <2>3, <2>5, UnselectedExchanges
    <3>2. PolicyValue(x.id, policies, sel, "alternate_exchange") = None
      BY <1>1, <3>1 DEF PolicyValue, Selected
    <3>3. AlternateExchangeValue(y, T.policies, sel) = x.alternate_exchange
      BY <2>1, <3>2 DEF OrElse
    <3>4. CASE x.alternate_exchange = None
      BY <2>2, <2>5, <3>3, <3>4
    <3>5. CASE x.alternate_exchange # None
      BY <3>3, <3>5, ArgumentGoesFirst
    <3>6. QED BY <3>4, <3>5
  <2>6. QED BY <2>2, <2>4, <2>5 DEF IsLoaded
<1>5. QED BY <1>3, <1>4

(* No hop is invented, and none of what was exported is lost but by a      *)
(* listing without policies.                                               *)
LEMMA LoadedHops ==
  ASSUME QuietCapture, NEW T, IsLoaded(T), ~Rejects(T)
  PROVE  LET hops == DeadLetterEdges(T) \cup AlternateExchangeEdges(T)
         IN  /\ hops \subseteq EffectiveHops
             /\ T.observed_exchanges \in {{}, ListedExchanges(exchanges, selected)} =>
                  \A id \in Ids(queues) \cup Ids(capture.exchanges) :
                    HopsFrom(hops, id) = HopsFrom(EffectiveHops, id)
<1> DEFINE effect(r, field) == EffectOf(policies, selected, r, field)
           value(q, field) == DeadLetterValue(q, T.policies, Selections(T), field)
           alternate(y) == AlternateExchangeValue(y, T.policies, Selections(T))
           dead_letters ==
             {Hop(q.id, NodeIdAt(q.id.vhost, effect(q, "dead_letter_exchange"), "exchange"),
                  "dead_letter", effect(q, "dead_letter_routing_key")) :
                q \in {r \in queues : effect(r, "dead_letter_exchange") # None}}
           alternates ==
             {Hop(x.id, NodeIdAt(x.id.vhost, effect(x, "alternate_exchange"), "exchange"),
                  "alternate_exchange", None) :
                x \in {r \in exchanges : effect(r, "alternate_exchange") # None}}
<1>1. EffectiveHops = dead_letters \cup alternates
  BY EffectiveHopsAreInEffect DEF HopsInEffect
<1>2. DeadLetterEdges(T) = dead_letters
  <2>1. \A q \in queues :
          /\ value(q, "dead_letter_exchange") = effect(q, "dead_letter_exchange")
          /\ value(q, "dead_letter_exchange") # None =>
               value(q, "dead_letter_routing_key") = effect(q, "dead_letter_routing_key")
    BY LoadedQueue
  <2>2. T.queues = queues
    BY DEF IsLoaded
  <2>3. \A e : e \in DeadLetterEdges(T) <=> e \in dead_letters
    BY <2>1, <2>2 DEF DeadLetterEdges
  <2>4. QED BY <2>3
<1>3. AlternateExchangeEdges(T) \subseteq alternates
  <2>1. SUFFICES ASSUME NEW y \in AlternateSources(T), alternate(y) # None
                 PROVE  Hop(y.id, NodeIdAt(y.id.vhost, alternate(y), "exchange"),
                            "alternate_exchange", None) \in alternates
    BY DEF AlternateExchangeEdges
  <2>2. PICK x \in exchanges : y.id = x.id /\ y.alternate_exchange = x.alternate_exchange
    BY LoadedSources
  <2>3. alternate(y) = effect(x, "alternate_exchange")
    BY <2>1, <2>2, LoadedExchange
  <2>4. QED BY <2>1, <2>2, <2>3
<1>4. ASSUME T.observed_exchanges \in {{}, ListedExchanges(exchanges, selected)},
             NEW id \in Ids(queues) \cup Ids(capture.exchanges),
             NEW e \in EffectiveHops, e.source = id
      PROVE  e \in DeadLetterEdges(T) \cup AlternateExchangeEdges(T)
  <2>1. CASE e \in dead_letters
    BY <1>2, <2>1
  <2>2. CASE e \in alternates
    <3>1. PICK x \in exchanges :
            /\ effect(x, "alternate_exchange") # None
            /\ e = Hop(x.id, NodeIdAt(x.id.vhost, effect(x, "alternate_exchange"), "exchange"),
                       "alternate_exchange", None)
      BY <2>2
    <3>2. x.id = id
      BY <1>4, <3>1 DEF Hop
    <3>3. x \in capture.exchanges
      BY <1>4, <3>2, QuietBroker DEF Ids, UniqueIds
    <3>4. x \in AlternateSources(T)
      BY <3>3, LoadedSources
    <3>5. alternate(x) = effect(x, "alternate_exchange")
      BY <1>4, <3>4, LoadedExchange
    <3>6. QED BY <3>1, <3>4, <3>5 DEF AlternateExchangeEdges
  <2>3. QED BY <1>1, <1>4, <2>1, <2>2
<1> HIDE DEF dead_letters, alternates
<1>5. QED BY <1>1, <1>2, <1>3, <1>4 DEF HopsFrom

(* Of all that may lie in the files, only the export passes for one, and   *)
(* only an array for a listing.                                            *)
LEMMA DefinitionsAreExport ==
  ASSUME NEW d \in Saved, DefinitionsError(d) = None
  PROVE  d.content = Exported
<1>1. d.json \notin {"none", "absent"} /\ IsDefinitions(d)
  BY RecordAssumption DEF DefinitionsError
<1>2. d \in {Export, OldExport}
  BY <1>1 DEF IsDefinitions, Saved, Sections, File, Array, VhostExport, ErrorBody, PageBody,
              QueueListing, ExchangeListing, ExportedQueues, ExportedExchanges, Unreadable
<1>3. QED BY <1>2 DEF Export, OldExport, File

LEMMA ListedQueuesLoaded ==
  ASSUME QuietCapture, NEW f \in Saved, SnapshotError(f, QueueFields) = None
  PROVE  AsListed(f.content) \in {{}, ListedQueues(queues, selected)}
<1>1. f.json = "array" /\ \A r \in f.content : QueueFields \subseteq DOMAIN r
  BY RecordAssumption DEF SnapshotError, Saved, File, Array, VhostExport, ErrorBody, PageBody,
              QueueListing, ExchangeListing, ExportedQueues, ExportedExchanges, Unreadable,
              Export, OldExport
<1>2. f \in {QueueListing, ExchangeListing, ExportedQueues, ExportedExchanges}
  BY <1>1 DEF Saved, File, VhostExport, ErrorBody, PageBody, Unreadable, Export, OldExport
<1>3. \/ f.content = ListedQueues(queues, selected)
      \/ f.content = ListedExchanges(exchanges, selected)
      \/ f.content = queues
      \/ f.content = capture.exchanges
  BY <1>2, QuietBroker DEF QueueListing, ExchangeListing, ExportedQueues, ExportedExchanges,
                           Array, File
<1>4. CASE f.content = ListedQueues(queues, selected)
  <2>1. \A r \in f.content : "policy" \in DOMAIN r
    BY <1>1 DEF QueueFields
  <2>2. AsListed(f.content) = f.content
    BY <2>1 DEF AsListed
  <2>3. QED BY <1>4, <2>2
<1>5. CASE \/ f.content = ListedExchanges(exchanges, selected)
           \/ f.content = queues \/ f.content = capture.exchanges
  <2>1. \A r \in f.content : "queue_type" \notin DOMAIN r \/ "policy" \notin DOMAIN r
    <3>1. CASE f.content = ListedExchanges(exchanges, selected)
      BY <3>1 DEF ListedExchanges
    <3>2. CASE f.content = queues \/ f.content = capture.exchanges
      BY <3>2, QuietBroker, RecordAssumption
    <3>3. QED BY <1>5, <3>1, <3>2
  <2>2. f.content = {}
    BY <1>1, <2>1 DEF QueueFields
  <2>3. QED BY <2>2 DEF AsListed
<1>6. QED BY <1>3, <1>4, <1>5

LEMMA ListedExchangesLoaded ==
  ASSUME QuietCapture, NEW f \in Saved, SnapshotError(f, ExchangeFields) = None
  PROVE  \/ AsListed(f.content) \in {{}, ListedExchanges(exchanges, selected)}
         \/ f = ExportedExchanges /\ AsListed(f.content) = Unselected
<1>1. f.json = "array" /\ \A r \in f.content : ExchangeFields \subseteq DOMAIN r
  BY RecordAssumption DEF SnapshotError, Saved, File, Array, VhostExport, ErrorBody, PageBody,
              QueueListing, ExchangeListing, ExportedQueues, ExportedExchanges, Unreadable,
              Export, OldExport
<1>2. f \in {QueueListing, ExchangeListing, ExportedQueues, ExportedExchanges}
  BY <1>1 DEF Saved, File, VhostExport, ErrorBody, PageBody, Unreadable, Export, OldExport
<1>3. \/ f.content = ListedQueues(queues, selected)
      \/ f.content = ListedExchanges(exchanges, selected)
      \/ f.content = queues
      \/ f = ExportedExchanges /\ f.content = capture.exchanges
  BY <1>2, QuietBroker DEF QueueListing, ExchangeListing, ExportedQueues, ExportedExchanges,
                           Array, File
<1>4. CASE f.content = ListedExchanges(exchanges, selected)
  <2>1. \A r \in f.content : "policy" \in DOMAIN r
    BY <1>4 DEF ListedExchanges
  <2>2. AsListed(f.content) = f.content
    BY <2>1 DEF AsListed
  <2>3. QED BY <1>4, <2>2
<1>5. CASE f.content = ListedQueues(queues, selected) \/ f.content = queues
  <2>1. \A r \in f.content : "type" \notin DOMAIN r
    <3>1. CASE f.content = ListedQueues(queues, selected)
      BY <3>1 DEF ListedQueues
    <3>2. CASE f.content = queues
      BY <3>2, QuietBroker, RecordAssumption
    <3>3. QED BY <1>5, <3>1, <3>2
  <2>2. f.content = {}
    BY <1>1, <2>1 DEF ExchangeFields
  <2>3. QED BY <2>2 DEF AsListed
<1>6. CASE f = ExportedExchanges /\ f.content = capture.exchanges
  BY <1>6 DEF Unselected
<1>7. QED BY <1>3, <1>4, <1>5, <1>6

(* Files that load are a topology as above.                                *)
LEMMA LoadedIsLoaded ==
  ASSUME QuietCapture, NEW d \in Saved, NEW q \in Saved \cup {NotGiven},
         NEW x \in Saved \cup {NotGiven}, NEW files,
         files = [definitions |-> d, queues |-> q, exchanges |-> x], LoadError(files) = None
  PROVE  /\ IsLoaded(Loaded(files))
         /\ x # ExportedExchanges =>
              Loaded(files).observed_exchanges \in {{}, ListedExchanges(exchanges, selected)}
<1> DEFINE listed(f) == IF f.json = "absent" THEN {} ELSE AsListed(f.content)
           T == Loaded(files)
<1>1. /\ DefinitionsError(d) = None /\ SnapshotError(q, QueueFields) = None
      /\ SnapshotError(x, ExchangeFields) = None
      /\ (q.json = "absent") = (x.json = "absent")
  BY RecordAssumption DEF LoadError, OrElse
<1>2. d.content = Exported
  BY <1>1, DefinitionsAreExport
<1>3. \A f \in Saved : f.json # "absent"
  BY DEF Saved, File, Array, VhostExport, ErrorBody, PageBody, Unreadable, Export, OldExport,
         QueueListing, ExchangeListing, ExportedQueues, ExportedExchanges
<1>4. listed(q) \in {{}, ListedQueues(queues, selected)}
  <2>1. CASE q.json = "absent"
    BY <2>1
  <2>2. CASE q.json # "absent"
    <3>1. q \in Saved
      BY <2>2 DEF NotGiven, File
    <3>2. AsListed(q.content) \in {{}, ListedQueues(queues, selected)}
      BY <1>1, <3>1, ListedQueuesLoaded
    <3>3. QED BY <2>2, <3>2
  <2>3. QED BY <2>1, <2>2
<1>5. \/ listed(x) \in {{}, ListedExchanges(exchanges, selected)}
      \/ x = ExportedExchanges /\ listed(x) = Unselected
  <2>1. CASE x.json = "absent"
    BY <2>1
  <2>2. CASE x.json # "absent"
    <3>1. x \in Saved
      BY <2>2 DEF NotGiven, File
    <3>2. \/ AsListed(x.content) \in {{}, ListedExchanges(exchanges, selected)}
          \/ x = ExportedExchanges /\ AsListed(x.content) = Unselected
      BY <1>1, <3>1, ListedExchangesLoaded
    <3>3. QED BY <2>2, <3>2
  <2>3. QED BY <2>1, <2>2
<1>6. T = [Exported EXCEPT !.observed_queues = listed(q), !.observed_exchanges = listed(x),
                           !.observing = (q.json # "absent")]
  BY <1>2 DEF Loaded
<1> HIDE DEF listed, T
<1>7. /\ T.vhosts = capture.vhosts /\ T.queues = capture.queues
      /\ T.policies = capture.policies /\ T.exchanges = capture.exchanges
      /\ T.observed_queues = listed(q) /\ T.observed_exchanges = listed(x)
      /\ T.observing = (q.json # "absent")
  BY <1>6 DEF Exported, QuietCapture, IInv, CaptureInv
<1>8. q.json = "absent" => listed(q) = {} /\ listed(x) = {}
  BY <1>1 DEF listed
<1>9. IsLoaded(T)
  BY <1>4, <1>5, <1>7, <1>8, QuietBroker DEF IsLoaded
<1>10. QED BY <1>5, <1>7, <1>9 DEF T

(* The right files give the capture back.                                  *)
LEMMA RightFilesLoad ==
  ASSUME QuietCapture
  PROVE  LoadError(RightFiles) = None /\ Loaded(RightFiles) = capture
<1>1. /\ QueueListing = Array(ListedQueues(queues, selected))
      /\ ExchangeListing = Array(ListedExchanges(exchanges, selected))
  BY QuietBroker DEF QueueListing, ExchangeListing
<1>2. \A r \in ListedQueues(queues, selected) :
        QueueFields \subseteq DOMAIN r /\ "policy" \in DOMAIN r
  BY DEF ListedQueues, QueueFields
<1>3. \A r \in ListedExchanges(exchanges, selected) :
        ExchangeFields \subseteq DOMAIN r /\ "policy" \in DOMAIN r
  BY DEF ListedExchanges, ExchangeFields
<1>4. DefinitionsError(Export) = None
  BY DEF DefinitionsError, IsDefinitions, Export, File, Sections
<1>5. /\ SnapshotError(QueueListing, QueueFields) = None
      /\ SnapshotError(ExchangeListing, ExchangeFields) = None
  BY <1>1, <1>2, <1>3 DEF SnapshotError, Array, File
<1>6. LoadError(RightFiles) = None
  BY <1>1, <1>4, <1>5 DEF LoadError, RightFiles, OrElse, Array, File
<1>7. /\ AsListed(ListedQueues(queues, selected)) = ListedQueues(queues, selected)
      /\ AsListed(ListedExchanges(exchanges, selected)) = ListedExchanges(exchanges, selected)
  BY <1>2, <1>3 DEF AsListed
<1>8. Loaded(RightFiles) =
        [Exported EXCEPT !.observed_queues = capture.observed_queues,
                         !.observed_exchanges = capture.observed_exchanges, !.observing = TRUE]
  <2>1. /\ RightFiles.definitions.content = Exported
        /\ RightFiles.queues.json = "array" /\ RightFiles.exchanges.json = "array"
        /\ RightFiles.queues.content = ListedQueues(queues, selected)
        /\ RightFiles.exchanges.content = ListedExchanges(exchanges, selected)
    BY <1>1 DEF RightFiles, Array, File, Export
  <2>2. QED BY <1>7, <2>1, QuietBroker DEF Loaded
<1>9. Loaded(RightFiles) = capture
  <2>1. /\ capture.observing = TRUE
        /\ capture = [vhosts |-> Vhosts, queues |-> capture.queues,
              exchanges |-> capture.exchanges, bindings |-> capture.bindings,
              policies |-> capture.policies, shovels |-> {},
              observed_queues |-> capture.observed_queues,
              observed_exchanges |-> capture.observed_exchanges,
              observing |-> capture.observing, hosts |-> {}]
    BY QuietBroker DEF QuietCapture, IInv, CaptureInv
  <2>2. QED BY <1>8, <2>1 DEF Exported
<1>10. QED BY <1>6, <1>9

(***************************************************************************)
(* Whatever is given for which file, from_files raises or does not mislead *)
(* (_load_resource_snapshot, ClusterDefinitionsResponse).                  *)
(***************************************************************************)
THEOREM MixedUpFilesNeverMislead == Spec => []FilesNeverMislead
<1>1. IInv /\ HInv => FilesNeverMislead
  <2>1. SUFFICES ASSUME QuietCapture PROVE FilesNeverMislead
    BY DEF FilesNeverMislead, QuietCapture
  <2>2. ASSUME NEW d \in Saved, NEW q \in Saved \cup {NotGiven},
               NEW x \in Saved \cup {NotGiven}, NEW files,
               files = [definitions |-> d, queues |-> q, exchanges |-> x],
               LoadError(files) = None, ~Rejects(Loaded(files)), NEW hops,
               hops = DeadLetterEdges(Loaded(files)) \cup AlternateExchangeEdges(Loaded(files))
        PROVE  /\ Ids(capture.queues) \cup Ids(capture.exchanges) \subseteq NodeIds(Loaded(files))
               /\ hops \subseteq EffectiveHops
               /\ x # ExportedExchanges =>
                    \A id \in Ids(capture.queues) \cup Ids(capture.exchanges) :
                      HopsFrom(hops, id) = HopsFrom(EffectiveHops, id)
    <3>1. IsLoaded(Loaded(files))
      BY <2>1, <2>2, LoadedIsLoaded
    <3>2. /\ hops \subseteq EffectiveHops
          /\ Loaded(files).observed_exchanges \in {{}, ListedExchanges(exchanges, selected)} =>
               \A id \in Ids(queues) \cup Ids(capture.exchanges) :
                 HopsFrom(hops, id) = HopsFrom(EffectiveHops, id)
      BY <2>1, <2>2, <3>1, LoadedHops
    <3>3. Ids(capture.queues) \cup Ids(capture.exchanges) \subseteq NodeIds(Loaded(files))
      BY <2>1, <3>1, QuietBroker DEF IsLoaded, NodeIds
    <3>4. QED BY <2>1, <2>2, <3>2, <3>3, LoadedIsLoaded, QuietBroker
  <2>3. QED BY <2>1, <2>2, RightFilesLoad DEF FilesNeverMislead
<1>2. QED BY <1>1, HInvariance, PTL

-----------------------------------------------------------------------------
(***************************************************************************)
(* MessageWalk: where a message can be                                     *)
(***************************************************************************)

Places(c) ==
  Ids(c.queues) \cup Ids(ExchangesOf(c)) \cup Ids(c.shovels) \cup {Elsewhere}

(* The exchanges there are, exported or listed or predeclared.             *)
LEMMA ExchangesFit ==
  ASSUME NEW c \in Captures
  PROVE  /\ UniqueIds(ExchangesOf(c))
         /\ Ids(ExchangesOf(c)) \subseteq NodeId(DOMAIN c.vhosts, "exchange")
         /\ Ids(c.exchanges) \cup PredeclaredIds(c) \subseteq Ids(ExchangesOf(c))
         /\ \A x \in ExchangesOf(c) : x.id.kind = "exchange"
         /\ \A x \in ExchangesOf(c) :
              x.id.name \in PredeclaredNames => x.type = PredeclaredType(x.id.name)
<1>1. PredeclaredIds(c) \subseteq NodeId(DOMAIN c.vhosts, "exchange")
  BY DEF PredeclaredIds, NodeId, NodeIdAt
<1>2. /\ UniqueIds(c.exchanges)
      /\ \A x \in c.exchanges : x.id.name \notin PredeclaredNames
      /\ Ids(c.exchanges) \cup Ids(c.observed_exchanges) \subseteq
           NodeId(DOMAIN c.vhosts, "exchange")
      /\ ~DuplicateObservations(c.observed_exchanges) /\ ListingsFit(c)
  BY CapturesAssumption DEF Rejects
<1>3. CASE c.observing
  <2>1. ExchangesOf(c) = c.observed_exchanges
    BY <1>3 DEF ExchangesOf
  <2>2. UniqueIds(ExchangesOf(c))
    BY <1>2, <2>1 DEF DuplicateObservations, UniqueIds
  <2>3. Ids(ExchangesOf(c)) \subseteq NodeId(DOMAIN c.vhosts, "exchange")
    BY <1>2, <2>1
  <2>4. \A x \in ExchangesOf(c) : x.id.kind = "exchange"
    BY <2>3 DEF Ids, NodeId
  <2>5. QED BY <1>2, <1>3, <2>1, <2>2, <2>3, <2>4 DEF ListingsFit
<1>4. CASE ~c.observing
  <2>1. ExchangesOf(c) = c.exchanges \cup PredeclaredExchanges(c)
    BY <1>4 DEF ExchangesOf
  <2>2. \A x \in PredeclaredExchanges(c) :
          /\ x.id \in PredeclaredIds(c) /\ x.type = PredeclaredType(x.id.name)
          /\ x.id.name \in PredeclaredNames
          /\ x = [id |-> x.id, type |-> PredeclaredType(x.id.name), internal |-> FALSE,
                  alternate_exchange |-> None]
    BY DEF PredeclaredExchanges, PredeclaredIds, NodeIdAt
  <2>3. PredeclaredIds(c) = Ids(PredeclaredExchanges(c))
    <3>1. ASSUME NEW id \in PredeclaredIds(c)
          PROVE  id \in Ids(PredeclaredExchanges(c))
      <4> DEFINE x == [id |-> id, type |-> PredeclaredType(id.name), internal |-> FALSE,
                       alternate_exchange |-> None]
      <4>1. x \in PredeclaredExchanges(c) /\ x.id = id
        BY DEF PredeclaredExchanges
      <4>2. QED BY <4>1 DEF Ids
    <3>2. \A id \in Ids(PredeclaredExchanges(c)) : id \in PredeclaredIds(c)
      BY <2>2 DEF Ids
    <3>3. QED BY <3>1, <3>2
  <2>4. Ids(ExchangesOf(c)) = Ids(c.exchanges) \cup PredeclaredIds(c)
    BY <2>1, <2>3 DEF Ids
  <2>5. \A x, y \in PredeclaredExchanges(c) : x.id = y.id => x = y
    BY <2>2
  <2>6. UniqueIds(ExchangesOf(c))
    BY <1>2, <2>1, <2>2, <2>5 DEF UniqueIds
  <2>7. Ids(ExchangesOf(c)) \subseteq NodeId(DOMAIN c.vhosts, "exchange")
    BY <1>1, <1>2, <2>4
  <2>8. \A x \in ExchangesOf(c) : x.id.kind = "exchange"
    BY <2>7 DEF Ids, NodeId
  <2>9. \A x \in ExchangesOf(c) :
          x.id.name \in PredeclaredNames => x.type = PredeclaredType(x.id.name)
    BY <1>2, <2>1, <2>2
  <2>10. QED BY <2>4, <2>6, <2>7, <2>8, <2>9
<1>5. QED BY <1>3, <1>4

(* The kind of a place says which of them it is.                           *)
LEMMA PlaceForms ==
  ASSUME NEW c \in Captures, NEW n \in Places(c)
  PROVE  /\ n = NodeIdAt(n.vhost, n.name, n.kind) /\ n # None
         /\ n.kind \in {"queue", "exchange", "shovel", "elsewhere"}
         /\ n.kind = "queue" <=> n \in Ids(c.queues)
         /\ n.kind = "shovel" <=> n \in Ids(c.shovels)
         /\ n.kind = "elsewhere" <=> n = Elsewhere
         /\ n.kind = "exchange" <=> n \in Ids(ExchangesOf(c))
         /\ n # Elsewhere => n.vhost \in DOMAIN c.vhosts
<1>1. ASSUME NEW kind, NEW m \in NodeId(DOMAIN c.vhosts, kind)
      PROVE  m = NodeIdAt(m.vhost, m.name, kind) /\ m.kind = kind /\ m.vhost \in DOMAIN c.vhosts
  BY DEF NodeId, NodeIdAt
<1>2. /\ Ids(c.queues) \subseteq NodeId(DOMAIN c.vhosts, "queue")
      /\ Ids(c.shovels) \subseteq NodeId(DOMAIN c.vhosts, "shovel")
  BY CapturesAssumption
<1>3. Ids(ExchangesOf(c)) \subseteq NodeId(DOMAIN c.vhosts, "exchange")
  BY ExchangesFit
<1>4. Elsewhere.kind = "elsewhere" /\ Elsewhere = NodeIdAt(None, None, "elsewhere")
      /\ Elsewhere.vhost = None /\ Elsewhere.name = None
  BY DEF Elsewhere, NodeIdAt
<1>5. None # Elsewhere /\ None \notin NodeId(DOMAIN c.vhosts, "queue")
      /\ None \notin NodeId(DOMAIN c.vhosts, "exchange")
      /\ None \notin NodeId(DOMAIN c.vhosts, "shovel")
  BY NoneIsNoNode
<1>6. CASE n \in Ids(c.queues)
  BY <1>1, <1>2, <1>3, <1>4, <1>5, <1>6
<1>7. CASE n \in Ids(ExchangesOf(c))
  BY <1>1, <1>2, <1>3, <1>4, <1>5, <1>7
<1>8. CASE n \in Ids(c.shovels)
  BY <1>1, <1>2, <1>3, <1>4, <1>5, <1>8
<1>9. CASE n = Elsewhere
  BY <1>1, <1>2, <1>3, <1>4, <1>5, <1>9
<1>10. QED BY <1>6, <1>7, <1>8, <1>9 DEF Places

-----------------------------------------------------------------------------
(* The graph of an accepted capture *)

(* What the listings say of who was selected, and of whom.                 *)
LEMMA ListingsSelect ==
  ASSUME NEW c \in Captures, NEW s \in MayHaveSelected(c)
  PROVE  /\ c.observing => \A r \in c.queues \cup ExchangesOf(c) :
              Observed(r.id, Selections(c)) /\ Selections(c)[r.id] = s[r.id]
         /\ ~c.observing => \A id : ~Observed(id, Selections(c))
<1>1. CASE ~c.observing
  BY <1>1 DEF Observed, Selections
<1>2. CASE c.observing
  <2>1. /\ ListingsFit(c) /\ ~Rejects(c)
        /\ Ids(c.queues) \subseteq NodeId(DOMAIN c.vhosts, "queue")
        /\ Ids(c.observed_exchanges) \subseteq NodeId(DOMAIN c.vhosts, "exchange")
    BY CapturesAssumption
  <2>2. /\ \A o \in c.observed_queues : o.id \in Ids(c.queues)
        /\ Ids(c.observed_queues) = Ids(c.queues)
    BY <1>2, <2>1 DEF ListingsFit, Ids
  <2>3. /\ \A o \in c.observed_queues : o.id.kind = "queue"
        /\ \A o \in c.observed_exchanges : o.id.kind = "exchange"
    BY <2>1, <2>2 DEF Ids, NodeId
  <2>4. /\ ~DuplicateObservations(c.observed_queues)
        /\ ~DuplicateObservations(c.observed_exchanges)
    BY <2>1 DEF Rejects
  <2>5. /\ \A id : Observed(id, Selections(c)) <=>
                      id \in Ids(c.observed_queues) \cup Ids(c.observed_exchanges)
        /\ \A o \in c.observed_queues \cup c.observed_exchanges :
              Selections(c)[o.id] = o.policy
    BY <1>2, <2>3, <2>4, SelectionsExact
  <2>6. \A o \in c.observed_queues \cup c.observed_exchanges : s[o.id] = o.policy
    BY DEF MayHaveSelected
  <2>7. ASSUME NEW r \in c.queues \cup ExchangesOf(c)
        PROVE  \E o \in c.observed_queues \cup c.observed_exchanges : o.id = r.id
    BY <1>2, <2>2 DEF ExchangesOf, Ids
  <2>8. \A o \in c.observed_queues \cup c.observed_exchanges :
          o.id \in Ids(c.observed_queues) \cup Ids(c.observed_exchanges)
    BY DEF Ids
  <2>9. QED BY <1>2, <2>5, <2>6, <2>7, <2>8
<1>3. QED BY <1>1, <1>2

(* The parser finds the dead-letter exchange in effect at a queue.         *)
LEMMA DeadLetterInEffect ==
  ASSUME NEW c \in Captures, NEW s \in MayHaveSelected(c), NEW q \in c.queues
  PROVE  DeadLetterValue(q, c.policies, Selections(c), "dead_letter_exchange") =
         EffectOf(c.policies, s, q, "dead_letter_exchange")
<1> DEFINE P == c.policies
           sel == Selections(c)
           type == ResolvedQueueType(c, q)
<1>1. UniqueNames(P) /\ (\A p \in P : p.name # None) /\ ~DeadLetterUnknown(q, type, P, sel)
  BY CapturesAssumption DEF Rejects
<1>2. SelectionCovers(P, s, q, type)
  <2>1. q.id.kind = "queue"
    BY CapturesAssumption DEF Ids, NodeId
  <2>2. s[q.id] \in MaySelect(P, q.id, type)
    BY DEF MayHaveSelected
  <2>3. QED BY <2>1, <2>2, SelectableCovers
<1>3. CASE ~c.observing
  <2>1. ~Observed(q.id, sel)
    BY <1>3, ListingsSelect
  <2>2. EffectOf(P, s, q, "dead_letter_exchange") = q.dead_letter_exchange
    BY <1>1, <1>2, <2>1, UnobservedQueue
  <2>3. QED BY <2>1, <2>2 DEF DeadLetterValue
<1>4. CASE c.observing
  <2>1. Observed(q.id, sel) /\ sel[q.id] = s[q.id]
    BY <1>4, ListingsSelect
  <2>2. ObservedWell(P, P, s, q, type, sel)
    BY <1>1, <1>2, <2>1 DEF ObservedWell, UniqueNames, DeadLetterUnknown
  <2>3. OrElse(q["dead_letter_exchange"], PolicyValue(q.id, P, sel, "dead_letter_exchange")) =
        EffectOf(P, s, q, "dead_letter_exchange")
    BY <2>2, ObservedValue
  <2>4. QED BY <2>1, <2>3 DEF DeadLetterValue
<1>5. QED BY <1>3, <1>4

(* It looks for the alternate exchange of every exchange, but of the       *)
(* predeclared ones only if they were listed, and finds the one in effect. *)
LEMMA AlternateInEffect ==
  ASSUME NEW c \in Captures, NEW s \in MayHaveSelected(c), NEW x \in ExchangesOf(c),
         c.observing \/ x \notin PredeclaredExchanges(c)
  PROVE  \E y \in AlternateSources(c) :
           /\ y.id = x.id /\ y.type = x.type
           /\ AlternateExchangeValue(y, c.policies, Selections(c)) =
              EffectOf(c.policies, s, x, "alternate_exchange")
<1> DEFINE P == c.policies
           sel == Selections(c)
<1>1. UniqueNames(P) /\ \A p \in P : p.name # None
  BY CapturesAssumption
<1>2. SelectionCovers(P, s, x, None)
  <2>1. x.id.kind = "exchange"
    BY ExchangesFit
  <2>2. s[x.id] \in MaySelect(P, x.id, None)
    BY DEF MayHaveSelected
  <2>3. QED BY <2>1, <2>2, SelectableCovers
<1>3. \A y \in AlternateSources(c) : ~AlternateExchangeUnknown(y, P, sel)
  BY CapturesAssumption DEF Rejects
<1>4. CASE ~c.observing
  <2>1. x \in AlternateSources(c)
    BY <1>4 DEF ExchangesOf, AlternateSources
  <2>2. ~Observed(x.id, sel)
    BY <1>4, ListingsSelect
  <2>3. EffectOf(P, s, x, "alternate_exchange") = x.alternate_exchange
    BY <1>1, <1>2, <1>3, <2>1, <2>2, UnobservedExchange
  <2>4. QED BY <2>1, <2>2, <2>3 DEF AlternateExchangeValue
<1>5. CASE c.observing
  <2>1. PICK y \in AlternateSources(c) :
          y.id = x.id /\ y.type = x.type /\ y.alternate_exchange = x.alternate_exchange
    <3>1. x \in c.observed_exchanges /\ ListingsFit(c)
      BY <1>5, CapturesAssumption DEF ExchangesOf
    <3>2. CASE x.id \in Ids(c.exchanges)
      BY <1>5, <3>1, <3>2 DEF ListingsFit, Ids, AlternateSources
    <3>3. CASE x.id \notin Ids(c.exchanges)
      BY <3>1, <3>3 DEF AlternateSources
    <3>4. QED BY <3>2, <3>3
  <2>2. Observed(y.id, sel) /\ sel[y.id] = s[y.id]
    BY <1>5, <2>1, ListingsSelect
  <2>3. ObservedWell(P, P, s, y, None, sel)
    BY <1>1, <1>2, <1>3, <2>1, <2>2
       DEF ObservedWell, UniqueNames, AlternateExchangeUnknown, SelectionCovers
  <2>4. OrElse(y["alternate_exchange"], PolicyValue(y.id, P, sel, "alternate_exchange")) =
        EffectOf(P, s, y, "alternate_exchange")
    BY <2>3, ObservedValue
  <2>5. EffectOf(P, s, y, "alternate_exchange") = EffectOf(P, s, x, "alternate_exchange")
    BY <2>1 DEF EffectOf
  <2>6. QED BY <2>1, <2>2, <2>4, <2>5 DEF AlternateExchangeValue
<1>6. QED BY <1>4, <1>5

(* What it asks about is there.                                            *)
LEMMA SourcesAreThere ==
  ASSUME NEW c \in Captures, NEW y \in AlternateSources(c)
  PROVE  y.id \in Ids(ExchangesOf(c)) /\ y.id.kind = "exchange"
<1>1. y.id \in Ids(c.exchanges) \cup Ids(c.observed_exchanges)
  BY DEF AlternateSources, Ids
<1>2. Ids(c.observed_exchanges) \subseteq Ids(ExchangesOf(c))
  <2>1. CASE c.observing
    BY <2>1 DEF ExchangesOf
  <2>2. CASE ~c.observing
    BY <2>2, CapturesAssumption DEF ListingsFit, Ids
  <2>3. QED BY <2>1, <2>2
<1>3. y.id \in Ids(ExchangesOf(c))
  BY <1>1, <1>2, ExchangesFit
<1>4. QED BY <1>3, ExchangesFit DEF NodeId

(* Which nodes an edge joins says whether it republishes.                  *)
LEMMA EdgeForms ==
  ASSUME NEW c \in Captures, NEW e \in Edges(c)
  PROVE  /\ {e.source.kind, e.target.kind} \subseteq {"queue", "exchange", "shovel"}
         /\ e.source.kind # "exchange" \/ e.target.kind = "shovel" => Republishes(e)
         /\ e.kind = "binding" =>
              \E b \in c.bindings : e.source = b.source /\ e.target = b.target
<1>1. CASE e \in BindingEdges(c)
  <2>1. PICK b \in c.bindings : e = Hop(b.source, b.target, "binding", None)
    BY <1>1 DEF BindingEdges
  <2>2. b.source.kind = "exchange" /\ b.target.kind \in {"exchange", "queue"}
    BY CapturesAssumption DEF NodeId
  <2>3. QED BY <2>1, <2>2 DEF Hop
<1>2. CASE e \in DeadLetterEdges(c)
  <2>1. PICK q \in c.queues : \E name, key :
          e = Hop(q.id, NodeIdAt(q.id.vhost, name, "exchange"), "dead_letter", key)
    BY <1>2 DEF DeadLetterEdges
  <2>2. q.id \in Ids(c.queues)
    BY DEF Ids
  <2>3. q.id.kind = "queue"
    BY <2>2, PlaceForms DEF Places
  <2>4. QED BY <2>1, <2>3 DEF Hop, NodeIdAt, Republishes
<1>3. CASE e \in AlternateExchangeEdges(c)
  <2>1. PICK x \in AlternateSources(c) : \E name :
          e = Hop(x.id, NodeIdAt(x.id.vhost, name, "exchange"), "alternate_exchange", None)
    BY <1>3 DEF AlternateExchangeEdges
  <2>2. x.id.kind = "exchange"
    BY SourcesAreThere
  <2>3. QED BY <2>1, <2>2 DEF Hop, NodeIdAt
<1>4. CASE e \in ShovelEdges(c)
  <2>1. PICK s \in c.shovels :
          \/ e = Hop(LocalResource(s.src), s.id, "shovel", None) /\ HasLocalResource(s.src, c.hosts)
          \/ e = Hop(s.id, LocalResource(s.dest), "shovel", None) /\ HasLocalResource(s.dest, c.hosts)
    BY <1>4 DEF ShovelEdges
  <2>2. s.id \in Ids(c.shovels) /\ {s.src, s.dest} \subseteq Side(DOMAIN c.vhosts, Host, Name \cup PredeclaredNames)
    BY CapturesAssumption DEF Ids
  <2>3. s.id.kind = "shovel"
    BY <2>2, PlaceForms DEF Places
  <2>4. ASSUME NEW side \in Side(DOMAIN c.vhosts, Host, Name \cup PredeclaredNames), side.resource # None
        PROVE  LocalResource(side).kind \in {"queue", "exchange"}
    BY <2>4 DEF Side, SideResource, LocalResource, NodeIdAt
  <2>5. CASE e = Hop(LocalResource(s.src), s.id, "shovel", None) /\ HasLocalResource(s.src, c.hosts)
    BY <2>2, <2>3, <2>4, <2>5 DEF Hop, Republishes, HasLocalResource
  <2>6. CASE e = Hop(s.id, LocalResource(s.dest), "shovel", None) /\ HasLocalResource(s.dest, c.hosts)
    BY <2>2, <2>3, <2>4, <2>6 DEF Hop, Republishes, HasLocalResource
  <2>7. QED BY <2>1, <2>5, <2>6
<1>5. QED BY <1>1, <1>2, <1>3, <1>4 DEF Edges

(* An edge between places joins nodes of the graph: it does not dangle.    *)
LEMMA EdgesBetweenPlaces ==
  ASSUME NEW c \in Captures, NEW e \in Edges(c), {e.source, e.target} \subseteq Places(c)
  PROVE  /\ {e.source, e.target} \subseteq NodeIds(c)
         /\ e.target \in Adjacency(c)[e.source]
<1>1. ASSUME NEW n \in {e.source, e.target}
      PROVE  n \in NodeIds(c)
  <2>1. n \in Places(c) /\ n.kind \in {"queue", "exchange", "shovel"}
    BY EdgeForms
  <2>2. CASE n \in Ids(ExchangesOf(c)) \ Ids(c.exchanges)
    <3>1. n.kind = "exchange" /\ n.vhost \in DOMAIN c.vhosts
      BY <2>1, <2>2, PlaceForms DEF Elsewhere, NodeIdAt
    <3>2. n \in Ids(c.observed_exchanges) \/ n.name \in PredeclaredNames
      BY <2>2 DEF ExchangesOf, PredeclaredExchanges, PredeclaredIds, NodeIdAt, Ids
    <3>3. QED BY <3>1, <3>2 DEF NodeIds, SupplementIds
  <2>3. CASE n \notin Ids(ExchangesOf(c)) \ Ids(c.exchanges)
    BY <2>1, <2>3, PlaceForms DEF NodeIds
  <2>4. QED BY <2>2, <2>3
<1>2. {e.source, e.target} \subseteq NodeIds(c)
  BY <1>1
<1>3. e.target \in Adjacency(c)[e.source]
  BY <1>2 DEF Adjacency
<1>4. QED BY <1>2, <1>3

-----------------------------------------------------------------------------
(* What is concluded about the side of a shovel *)

(* A side that is confirmed local leads to its resource and nowhere else.  *)
LEMMA LeadsToLocal ==
  ASSUME NEW c \in Captures, NEW side \in Side(DOMAIN c.vhosts, Host, Name \cup PredeclaredNames),
         IsConfirmedLocal(side, c.hosts), side.resource # None,
         NEW n \in Places(c), Leads(side, n)
  PROVE  n = LocalResource(side)
<1>1. PICK i \in DOMAIN side.uris :
        LET uri == side.uris[i]
            here == side.protocol = "local" \/ uri.host \in OwnHost \cup {None}
        IN  /\ uri.valid
            /\ IF ~here THEN n = Elsewhere
               ELSE /\ n # Elsewhere
                    /\ uri.vhost # None => n.vhost = uri.vhost
                    /\ side.resource # None =>
                         n.name = side.resource.name /\ n.kind = side.resource.kind
  BY DEF Leads
<1>2. side.protocol = "local" \/ side.uris[i].host \in OwnHost \cup {None}
  BY CapturesAssumption DEF IsConfirmedLocal
<1>3. side.uris[i].vhost = EndpointVhost(side) /\ EndpointVhost(side) # None
  BY DEF IsConfirmedLocal, EndpointVhost
<1>4. /\ n.vhost = EndpointVhost(side)
      /\ n.name = side.resource.name /\ n.kind = side.resource.kind
  BY <1>1, <1>2, <1>3
<1>5. QED BY <1>4, PlaceForms DEF LocalResource

(* And if the candidates of a side agree on a virtual host, the message    *)
(* gets there or out of the cluster.                                       *)
LEMMA LeadsToVhost ==
  ASSUME NEW side, EndpointVhost(side) # None, NEW n, Leads(side, n), n # Elsewhere
  PROVE  n.vhost = EndpointVhost(side)
<1>1. PICK i \in DOMAIN side.uris : side.uris[i].vhost # None => n.vhost = side.uris[i].vhost
  BY DEF Leads
<1>2. side.uris[i].vhost = EndpointVhost(side)
  BY DEF EndpointVhost
<1>3. QED BY <1>1, <1>2

-----------------------------------------------------------------------------
(* The invariant of the walk *)

(* The message is somewhere, and the report is of what was captured.       *)
PlaceInv ==
  /\ configuration \in Captures /\ policy_of \in MayHaveSelected(configuration)
  /\ report = Report(configuration)
  /\ at = None \/ at \in Places(configuration)
  /\ at = None => origin = None /\ marked = None

(* What a shovel holds it has taken from the virtual host it came from.    *)
OriginInv ==
  origin # None =>
    \E s \in configuration.shovels :
      /\ s.id = at
      /\ \E n : Takes(s, n) /\ n # Elsewhere /\ n.vhost = origin

(* The message reached where it is from the marked hop through the graph.  *)
MarkInv ==
  marked # None =>
    \E e \in Edges(configuration) :
      /\ marked = <<e.source, e.target>> /\ Republishes(e)
      /\ {e.source, e.target, at} \subseteq NodeIds(configuration)
      /\ Graph(NodeIds(configuration))!Reaches(Adjacency(configuration), e.target, at)

WalkInv == PlaceInv /\ OriginInv /\ MarkInv

(* Whatever moves the message moves it to a place.                         *)
LEMMA EntersPlaces ==
  ASSUME PlaceInv, NEW id, NEW publication, Enter(id, publication),
         id.kind \in {"shovel", "elsewhere"} => id \in Ids(configuration.shovels) \cup {Elsewhere}
  PROVE  at' = id /\ at' \in Places(configuration) /\ at' # None
<1>1. at' = id /\ id \in Places(configuration)
  BY DEF Enter, Exists, Places
<1>2. QED BY <1>1, PlaceForms DEF PlaceInv

(* Every step moves it to a place, and nothing else changes.               *)
LEMMA StepsToPlaces ==
  ASSUME PlaceInv, WalkNext
  PROVE  /\ configuration' = configuration /\ policy_of' = policy_of /\ report' = report
         /\ at' \in Places(configuration) /\ at' # None
<1>1. configuration \in Captures
  BY DEF PlaceInv
<1>2. ASSUME NEW id \in Places(configuration), id.kind \in {"shovel", "elsewhere"}
      PROVE  id \in Ids(configuration.shovels) \cup {Elsewhere}
  BY <1>1, <1>2, PlaceForms
<1>3. CASE Publish
  <2>1. PICK x \in ExchangesOf(configuration) : Enter(x.id, TRUE)
    BY <1>3 DEF Publish
  <2>2. x.id.kind = "exchange"
    BY <1>1, ExchangesFit
  <2>3. QED BY <1>3, <2>1, <2>2, EntersPlaces DEF Publish
<1>4. CASE Route
  <2>1. PICK b \in configuration.bindings : Enter(b.target, FALSE)
    BY <1>4 DEF Route
  <2>2. b.target.kind \in {"exchange", "queue"}
    BY <1>1, CapturesAssumption DEF NodeId
  <2>3. QED BY <1>4, <2>1, <2>2, EntersPlaces DEF Route
<1>5. CASE RouteByDefault
  <2>1. PICK q \in configuration.queues : Enter(q.id, FALSE)
    BY <1>5 DEF RouteByDefault
  <2>2. q.id \in Places(configuration)
    BY DEF Ids, Places
  <2>3. QED BY <1>2, <1>5, <2>1, <2>2, EntersPlaces DEF RouteByDefault
<1>6. CASE UseAlternateExchange
  <2>1. PICK v, name : Enter(NodeIdAt(v, name, "exchange"), FALSE)
    BY <1>6 DEF UseAlternateExchange
  <2>2. NodeIdAt(v, name, "exchange").kind = "exchange"
    BY DEF NodeIdAt
  <2>3. QED BY <1>6, <2>1, <2>2, EntersPlaces DEF UseAlternateExchange
<1>7. CASE DeadLetter
  <2>1. PICK v, name : Enter(NodeIdAt(v, name, "exchange"), TRUE)
    BY <1>7 DEF DeadLetter
  <2>2. NodeIdAt(v, name, "exchange").kind = "exchange"
    BY DEF NodeIdAt
  <2>3. QED BY <1>7, <2>1, <2>2, EntersPlaces DEF DeadLetter
<1>8. CASE Consume
  <2>1. PICK s \in configuration.shovels : Enter(s.id, TRUE)
    BY <1>8 DEF Consume
  <2>2. s.id \in Places(configuration)
    BY DEF Ids, Places
  <2>3. QED BY <1>2, <1>8, <2>1, <2>2, EntersPlaces DEF Consume
<1>9. CASE Deliver
  <2>1. PICK id \in Places(configuration) : Enter(id, TRUE)
    BY <1>9 DEF Deliver, Places
  <2>2. QED BY <1>2, <1>9, <2>1, EntersPlaces DEF Deliver
<1>10. QED BY <1>3, <1>4, <1>5, <1>6, <1>7, <1>8, <1>9 DEF WalkNext

(* Routing by a binding is an edge.                                        *)
LEMMA RoutesAreEdges ==
  ASSUME Route
  PROVE  \E e \in Edges(configuration) :
           e.source = at /\ e.target = at' /\ e.kind = "binding"
<1>1. PICK b \in configuration.bindings : b.source = at /\ Enter(b.target, FALSE)
  BY DEF Route
<1>2. Hop(b.source, b.target, "binding", None) \in Edges(configuration)
  BY DEF Edges, BindingEdges
<1>3. QED BY <1>1, <1>2 DEF Enter, Hop

(* So is an alternate exchange in effect, unless a policy set it unseen.   *)
LEMMA AlternatesAreEdges ==
  ASSUME PlaceInv, UseAlternateExchange, ~ByUnseenPolicy
  PROVE  \E e \in Edges(configuration) : e.source = at /\ e.target = at'
<1> DEFINE target(x) == NodeIdAt(x.id.vhost, Effect(x, "alternate_exchange"), "exchange")
<1>1. PICK x \in ExchangesOf(configuration) :
        /\ x.id = at /\ Effect(x, "alternate_exchange") # None
        /\ Enter(target(x), FALSE)
  BY DEF UseAlternateExchange
<1>2. at' = target(x)
  BY <1>1 DEF Enter
<1>3. configuration.observing \/ x \notin PredeclaredExchanges(configuration)
  BY <1>1, <1>2 DEF ByUnseenPolicy
<1>4. PICK y \in AlternateSources(configuration) :
        /\ y.id = x.id
        /\ AlternateExchangeValue(y, configuration.policies, Selections(configuration)) =
           Effect(x, "alternate_exchange")
  BY <1>3, AlternateInEffect DEF PlaceInv, Effect
<1>5. Hop(y.id, target(x), "alternate_exchange", None) \in Edges(configuration)
  BY <1>1, <1>4 DEF Edges, AlternateExchangeEdges
<1>6. QED BY <1>1, <1>2, <1>4, <1>5 DEF Hop

(* And so is dead-lettering.                                               *)
LEMMA DeadLettersAreEdges ==
  ASSUME PlaceInv, DeadLetter
  PROVE  \E e \in Edges(configuration) : e.source = at /\ e.target = at'
<1> DEFINE target(q) == NodeIdAt(q.id.vhost, Effect(q, "dead_letter_exchange"), "exchange")
<1>1. PICK q \in configuration.queues :
        /\ q.id = at /\ Effect(q, "dead_letter_exchange") # None
        /\ Enter(target(q), TRUE)
  BY DEF DeadLetter
<1>2. DeadLetterValue(q, configuration.policies, Selections(configuration),
                      "dead_letter_exchange") = Effect(q, "dead_letter_exchange")
  BY DeadLetterInEffect DEF PlaceInv, Effect
<1>3. PICK key : Hop(q.id, target(q), "dead_letter", key) \in Edges(configuration)
  BY <1>1, <1>2 DEF Edges, DeadLetterEdges
<1>4. QED BY <1>1, <1>3 DEF Enter, Hop

(* And a hop over a shovel that keeps nothing open.                        *)
LEMMA ShovelsAreEdges ==
  ASSUME PlaceInv, at # None, Consume \/ Deliver, ~ByOpenShovel
  PROVE  \E e \in Edges(configuration) : e.source = at /\ e.target = at'
<1>1. configuration \in Captures /\ at \in Places(configuration)
      /\ report.shovels_with_unconfirmed_endpoints =
           ShovelsWithUnconfirmedEndpoints(configuration)
  BY DEF PlaceInv, Report
<1>2. ASSUME NEW s \in configuration.shovels, s.id \in {at, at'}
      PROVE  /\ HasLocalResource(s.src, configuration.hosts)
             /\ HasLocalResource(s.dest, configuration.hosts)
             /\ {s.src, s.dest} \subseteq
                  Side(DOMAIN configuration.vhosts, Host, Name \cup PredeclaredNames)
  <2>1. s.id \notin ShovelsWithUnconfirmedEndpoints(configuration)
        /\ s.src.resource # None /\ s.dest.resource # None
    BY <1>1, <1>2 DEF ByOpenShovel
  <2>2. ~HasUnconfirmedEndpoint(s, configuration.hosts)
    BY <2>1 DEF ShovelsWithUnconfirmedEndpoints
  <2>3. QED BY <1>1, <2>1, <2>2, CapturesAssumption DEF HasUnconfirmedEndpoint, HasLocalResource
<1>3. CASE Consume
  <2>1. PICK s \in configuration.shovels : Takes(s, at) /\ Enter(s.id, TRUE)
    BY <1>3 DEF Consume
  <2>2. at' = s.id
    BY <2>1 DEF Enter
  <2>3. at = LocalResource(s.src) /\ HasLocalResource(s.src, configuration.hosts)
    BY <1>1, <1>2, <2>1, <2>2, LeadsToLocal DEF Takes, HasLocalResource
  <2>4. Hop(LocalResource(s.src), s.id, "shovel", None) \in Edges(configuration)
    BY <2>3 DEF Edges, ShovelEdges
  <2>5. QED BY <2>2, <2>3, <2>4 DEF Hop
<1>4. CASE Deliver
  <2>1. PICK s \in configuration.shovels :
          s.id = at /\ \E id \in Ids(configuration.queues) \cup Ids(ExchangesOf(configuration))
                                   \cup {Elsewhere} : Leads(s.dest, id) /\ Enter(id, TRUE)
    BY <1>4 DEF Deliver
  <2>2. PICK id \in Ids(configuration.queues) \cup Ids(ExchangesOf(configuration)) \cup {Elsewhere} :
          Leads(s.dest, id) /\ Enter(id, TRUE)
    BY <2>1
  <2>3. id \in Places(configuration) /\ at' = id
    BY <2>2 DEF Places, Enter
  <2>4. at' = LocalResource(s.dest) /\ HasLocalResource(s.dest, configuration.hosts)
    BY <1>1, <1>2, <2>1, <2>2, <2>3, LeadsToLocal DEF HasLocalResource
  <2>5. Hop(s.id, LocalResource(s.dest), "shovel", None) \in Edges(configuration)
    BY <2>4 DEF Edges, ShovelEdges
  <2>6. QED BY <2>1, <2>4, <2>5 DEF Hop
<1>5. QED BY <1>3, <1>4

(* Out of a default exchange the message gets into a queue.                *)
LEMMA DefaultGoesToQueues ==
  ASSUME PlaceInv, RouteByDefault
  PROVE  ByDefault /\ at' \in Ids(configuration.queues) /\ at'.kind = "queue" /\ at.name = ""
<1>1. configuration \in Captures
  BY DEF PlaceInv
<1>2. PICK q \in configuration.queues : at = DefaultExchange(q.id.vhost) /\ Enter(q.id, FALSE)
  BY DEF RouteByDefault
<1>3. q.id \in Ids(configuration.queues)
  BY DEF Ids
<1>4. q.id.vhost \in DOMAIN configuration.vhosts /\ q.id.kind = "queue"
  BY <1>1, <1>3, CapturesAssumption DEF NodeId
<1>5. QED BY <1>2, <1>3, <1>4 DEF Enter, ByDefault, DefaultExchange, NodeIdAt

(* So every hop is an edge, default exchanges, open shovels and unseen     *)
(* policies apart.                                                         *)
LEMMA HopsAreEdges ==
  ASSUME PlaceInv, at # None, WalkNext, ~ByOpenShovel, ~ByUnseenPolicy, ~RouteByDefault
  PROVE  \E e \in Edges(configuration) : e.source = at /\ e.target = at'
<1>1. ~Publish
  BY DEF Publish
<1>2. CASE Route \/ UseAlternateExchange
  <2>1. QED BY <1>2, RoutesAreEdges, AlternatesAreEdges
<1>3. CASE DeadLetter
  <2>1. QED BY <1>3, DeadLettersAreEdges
<1>4. CASE Consume \/ Deliver
  <2>1. QED BY <1>4, ShovelsAreEdges
<1>5. QED BY <1>1, <1>2, <1>3, <1>4 DEF WalkNext

-----------------------------------------------------------------------------
(* The invariant is inductive *)

(* Nothing has been sent yet.                                              *)
LEMMA WalkInitInv == WalkInit => WalkInv
  BY DEF WalkInit, WalkInv, PlaceInv, OriginInv, MarkInv

(* The message goes from place to place.                                   *)
LEMMA PlaceStep ==
  ASSUME PlaceInv, WalkNext
  PROVE  PlaceInv'
  BY StepsToPlaces DEF PlaceInv

(* Only a shovel that takes the message knows where it came from.          *)
LEMMA OriginStep ==
  ASSUME PlaceInv, OriginInv, WalkNext
  PROVE  OriginInv'
<1>1. configuration \in Captures /\ configuration' = configuration
  BY StepsToPlaces DEF PlaceInv
<1>2. CASE Consume
  <2>1. PICK s \in configuration.shovels : Takes(s, at) /\ Enter(s.id, TRUE)
    BY <1>2 DEF Consume
  <2>2. s.id = at' /\ origin' = at.vhost
    BY <1>2, <2>1 DEF Consume, Enter
  <2>3. ASSUME origin' # None
        PROVE  at # Elsewhere
    BY <2>2, <2>3 DEF Elsewhere, NodeIdAt
  <2>4. QED BY <1>1, <2>1, <2>2, <2>3 DEF OriginInv
<1>3. CASE Deliver
  BY <1>3 DEF Deliver, OriginInv
<1>4. CASE origin = None /\ ~Consume /\ ~Deliver
  <2>1. origin' = None
    BY <1>4 DEF WalkNext, Publish, Route, RouteByDefault, UseAlternateExchange, DeadLetter
  <2>2. QED BY <2>1 DEF OriginInv
<1>5. CASE origin # None /\ ~Consume /\ ~Deliver
  <2>1. at # None /\ at \in Ids(configuration.shovels)
    BY <1>5 DEF PlaceInv, OriginInv, Ids
  <2>2. at.kind = "shovel"
    BY <1>1, <2>1, PlaceForms DEF Places
  <2>3. ~Publish
    BY <2>1 DEF Publish
  <2>4. ~Route
    BY <1>1, <2>2, CapturesAssumption DEF Route, NodeId
  <2>5. ~RouteByDefault
    <3>1. \A v : DefaultExchange(v).kind = "exchange"
      BY DEF DefaultExchange, NodeIdAt
    <3>2. QED BY <2>2, <3>1 DEF RouteByDefault
  <2>6. ~UseAlternateExchange
    BY <1>1, <2>2, ExchangesFit DEF UseAlternateExchange
  <2>7. ~DeadLetter
    <3>1. \A q \in configuration.queues : q.id.kind = "queue"
      BY <1>1, CapturesAssumption DEF Ids, NodeId
    <3>2. QED BY <2>2, <3>1 DEF DeadLetter
  <2>8. QED BY <1>5, <2>3, <2>4, <2>5, <2>6, <2>7 DEF WalkNext
<1>6. QED BY <1>2, <1>3, <1>4, <1>5

(* What is reached is reached still, one hop further.                      *)
LEMMA ReachesFurther ==
  ASSUME NEW N, NEW adj, NEW a, NEW b \in N, NEW d \in adj[b],
         Graph(N)!Reaches(adj, a, b)
  PROVE  Graph(N)!Reaches(adj, a, d)
  BY DEF Graph!Reaches, Graph!Closed

(* And every node reaches itself.                                          *)
LEMMA ReachesItself ==
  ASSUME NEW N, NEW adj, NEW a
  PROVE  Graph(N)!Reaches(adj, a, a)
  BY DEF Graph!Reaches

(* A hop along an edge takes the mark along.                               *)
LEMMA MarkCarried ==
  ASSUME PlaceInv, MarkInv, WalkNext, at # None, marked' = marked,
         NEW e \in Edges(configuration), e.source = at, e.target = at'
  PROVE  MarkInv'
<1>1. configuration \in Captures /\ configuration' = configuration
      /\ {at, at'} \subseteq Places(configuration)
  BY StepsToPlaces DEF PlaceInv
<1>2. {at, at'} \subseteq NodeIds(configuration) /\ at' \in Adjacency(configuration)[at]
  BY <1>1, EdgesBetweenPlaces
<1>3. SUFFICES ASSUME marked # None PROVE MarkInv'
  BY DEF MarkInv
<1>4. PICK f \in Edges(configuration) :
        /\ marked = <<f.source, f.target>> /\ Republishes(f)
        /\ {f.source, f.target, at} \subseteq NodeIds(configuration)
        /\ Graph(NodeIds(configuration))!Reaches(Adjacency(configuration), f.target, at)
  BY <1>3 DEF MarkInv
<1>5. Graph(NodeIds(configuration))!Reaches(Adjacency(configuration), f.target, at')
  BY <1>2, <1>4, ReachesFurther
<1>6. QED BY <1>1, <1>2, <1>4, <1>5 DEF MarkInv

(* So does a republishing hop, if it does not get a mark of its own.       *)
LEMMA MarkMade ==
  ASSUME PlaceInv, MarkInv, WalkNext, at # None, Mark(InGraph(at, at')),
         at.kind # "exchange" \/ at'.kind = "shovel"
  PROVE  MarkInv'
<1>1. configuration \in Captures /\ configuration' = configuration
      /\ {at, at'} \subseteq Places(configuration)
      /\ report.edges = {<<e.source, e.target>> : e \in Edges(configuration)}
  BY StepsToPlaces DEF PlaceInv, Report
<1>2. CASE ~InGraph(at, at')
  <2>1. marked' = None
    BY <1>2 DEF Mark
  <2>2. QED BY <2>1 DEF MarkInv
<1>3. CASE InGraph(at, at')
  <2>1. PICK e \in Edges(configuration) : e.source = at /\ e.target = at'
    BY <1>1, <1>3 DEF InGraph
  <2>2. CASE marked' = marked
    BY <2>1, <2>2, MarkCarried
  <2>3. CASE marked' = <<at, at'>>
    <3>1. Republishes(e)
      BY <1>1, <2>1, EdgeForms
    <3>2. {at, at'} \subseteq NodeIds(configuration)
      BY <1>1, <2>1, EdgesBetweenPlaces
    <3>3. Graph(NodeIds(configuration))!Reaches(Adjacency(configuration), at', at')
      BY ReachesItself
    <3>4. QED BY <1>1, <2>1, <2>3, <3>1, <3>2, <3>3 DEF MarkInv
  <2>4. QED BY <1>3, <2>2, <2>3 DEF Mark
<1>4. QED BY <1>2, <1>3

(* Each way of moving keeps the mark, makes one or ends it.                *)
LEMMA MarkStep ==
  ASSUME PlaceInv, MarkInv, WalkNext
  PROVE  MarkInv'
<1>1. configuration \in Captures /\ configuration' = configuration
  BY StepsToPlaces DEF PlaceInv
<1>2. CASE Publish
  <2>1. marked' = None
    BY <1>2 DEF Publish, PlaceInv
  <2>2. QED BY <2>1 DEF MarkInv
<1>3. CASE Route
  <2>1. marked' = marked
    BY <1>3 DEF Route
  <2>2. PICK e \in Edges(configuration) : e.source = at /\ e.target = at'
    BY <1>3, RoutesAreEdges
  <2>3. CASE at = None
    <3>1. marked' = None
      BY <2>1, <2>3 DEF PlaceInv
    <3>2. QED BY <3>1 DEF MarkInv
  <2>4. CASE at # None
    BY <2>1, <2>2, <2>4, MarkCarried
  <2>5. QED BY <2>3, <2>4
<1>4. CASE RouteByDefault
  BY <1>4 DEF RouteByDefault, MarkInv
<1>5. CASE UseAlternateExchange
  <2>1. CASE ~InGraph(at, at')
    BY <1>5, <2>1 DEF UseAlternateExchange, MarkInv
  <2>2. CASE InGraph(at, at')
    <3>1. marked' = marked
      BY <1>5, <2>2 DEF UseAlternateExchange
    <3>2. PICK e \in Edges(configuration) : e.source = at /\ e.target = at'
      BY <2>2 DEF InGraph, PlaceInv, Report
    <3>3. PICK x \in ExchangesOf(configuration) : x.id = at
      BY <1>5 DEF UseAlternateExchange
    <3>4. at # None
      <4>1. at.kind = "exchange" /\ at \in Ids(ExchangesOf(configuration))
        BY <1>1, <3>3, ExchangesFit DEF Ids
      <4>2. QED BY <1>1, <4>1, PlaceForms DEF Places
    <3>5. QED BY <3>1, <3>2, <3>4, MarkCarried
  <2>3. QED BY <2>1, <2>2
<1>6. CASE DeadLetter
  <2>1. PICK q \in configuration.queues : q.id = at
    BY <1>6 DEF DeadLetter
  <2>2. q.id \in Ids(configuration.queues)
    BY DEF Ids
  <2>3. at # None /\ at.kind = "queue"
    BY <1>1, <2>1, <2>2, PlaceForms DEF Places
  <2>4. QED BY <1>6, <2>3, MarkMade DEF DeadLetter
<1>7. CASE Consume
  <2>1. PICK s \in configuration.shovels : Enter(s.id, TRUE)
    BY <1>7 DEF Consume
  <2>2. s.id \in Ids(configuration.shovels)
    BY DEF Ids
  <2>3. at'.kind = "shovel"
    BY <1>1, <2>1, <2>2, PlaceForms DEF Places, Enter
  <2>4. QED BY <1>7, <2>3, MarkMade DEF Consume
<1>8. CASE Deliver
  <2>1. PICK s \in configuration.shovels : s.id = at
    BY <1>8 DEF Deliver
  <2>2. s.id \in Ids(configuration.shovels)
    BY DEF Ids
  <2>3. at # None /\ at.kind = "shovel"
    BY <1>1, <2>1, <2>2, PlaceForms DEF Places
  <2>4. QED BY <1>8, <2>3, MarkMade DEF Deliver
<1>9. QED BY <1>2, <1>3, <1>4, <1>5, <1>6, <1>7, <1>8 DEF WalkNext

(* The message is at a place, the origin is that of the shovel that took   *)
(* it, and a marked hop still reaches it through the graph.                *)
THEOREM WalkInvariance == WalkSpec => []WalkInv
<1>1. WalkInv /\ [WalkNext]_walk_vars => WalkInv'
  <2>1. SUFFICES ASSUME WalkInv, [WalkNext]_walk_vars PROVE WalkInv'
    OBVIOUS
  <2>2. CASE WalkNext
    BY <2>1, <2>2, PlaceStep, OriginStep, MarkStep DEF WalkInv
  <2>3. CASE UNCHANGED walk_vars
    BY <2>1, <2>3 DEF walk_vars, WalkInv, PlaceInv, OriginInv, MarkInv
  <2>4. QED BY <2>1, <2>2, <2>3
<1>2. QED BY <1>1, WalkInitInv, PTL DEF WalkSpec

-----------------------------------------------------------------------------
(* What the report promises *)

(* A hop outside the graph is one out of a default exchange, one of an     *)
(* open shovel or one by an unseen policy.                                 *)
LEMMA HopsInReport ==
  ASSUME PlaceInv, at # None, WalkNext, ~ByOpenShovel, ~ByUnseenPolicy
  PROVE  RouteByDefault \/ <<at, at'>> \in report.edges
<1>1. report.edges = {<<e.source, e.target>> : e \in Edges(configuration)}
  BY DEF PlaceInv, Report
<1>2. QED BY <1>1, HopsAreEdges

(* Every hop of a message is an edge, whatever was captured and whatever   *)
(* policies the broker selected; default exchanges and open shovels apart, *)
(* and without listings also what a policy gives a predeclared exchange.   *)
THEOREM EveryHopIsCaptured == WalkSpec => HopsAreCaptured
<1>1. WalkInv /\ [WalkNext]_walk_vars =>
        [at # None /\ ~ByDefault /\ ~ByOpenShovel /\ ~ByUnseenPolicy =>
           <<at, at'>> \in report.edges]_walk_vars
  BY HopsInReport, DefaultGoesToQueues DEF WalkInv
<1>2. QED BY <1>1, WalkInvariance, PTL DEF WalkSpec, HopsAreCaptured

(* A message that comes back to a republishing hop went along a reported   *)
(* loop.                                                                   *)
THEOREM EveryLoopIsReported == WalkSpec => LoopsAreReported
<1>1. WalkInv /\ [WalkNext]_walk_vars =>
        [marked # None /\ marked = <<at, at'>> => marked \in report.loops]_walk_vars
  <2>1. SUFFICES ASSUME PlaceInv, MarkInv, marked # None, marked = <<at, at'>>
                 PROVE  marked \in report.loops
    BY DEF WalkInv
  <2>2. PICK e \in Edges(configuration) :
          /\ marked = <<e.source, e.target>> /\ Republishes(e)
          /\ {e.source, e.target, at} \subseteq NodeIds(configuration)
          /\ Graph(NodeIds(configuration))!Reaches(Adjacency(configuration), e.target, at)
    BY <2>1 DEF MarkInv
  <2>3. e.source = at
    BY <2>1, <2>2
  <2>4. <<e.source, e.target>> \in LoopHops(configuration)
    BY <2>2, <2>3 DEF LoopHops
  <2>5. report.loops = LoopHops(configuration)
    BY <2>1 DEF PlaceInv, Report
  <2>6. QED BY <2>2, <2>4, <2>5
<1>2. QED BY <1>1, WalkInvariance, PTL DEF WalkSpec, LoopsAreReported

-----------------------------------------------------------------------------
(* The findings *)

(* What gets out of an exchange gets out along an edge.                    *)
LEMMA BlackHolesKeep ==
  ASSUME PlaceInv, at # None, WalkNext, ~ByOpenShovel, ~ByUnseenPolicy
  PROVE  at \notin report.black_hole_exchanges
<1>1. report.black_hole_exchanges = BlackHoleExchanges(configuration)
  BY DEF PlaceInv, Report
<1>2. CASE RouteByDefault
  BY <1>1, <1>2, DefaultGoesToQueues DEF BlackHoleExchanges
<1>3. CASE ~RouteByDefault
  BY <1>1, <1>3, HopsAreEdges DEF BlackHoleExchanges, Sources
<1>4. QED BY <1>2, <1>3

(* An internal exchange is reached along an edge only.                     *)
LEMMA UnreachablesAreNotReached ==
  ASSUME PlaceInv, at # None, WalkNext, ~ByOpenShovel, ~ByUnseenPolicy
  PROVE  at' \notin report.unreachable_internal_exchanges
<1>1. report.unreachable_internal_exchanges = UnreachableInternalExchanges(configuration)
  BY DEF PlaceInv, Report
<1>2. CASE RouteByDefault
  BY <1>1, <1>2, DefaultGoesToQueues
     DEF UnreachableInternalExchanges, InternalIds, ExchangeIds
<1>3. CASE ~RouteByDefault
  BY <1>1, <1>3, HopsAreEdges DEF UnreachableInternalExchanges, Targets
<1>4. QED BY <1>2, <1>3

(* So is a queue, if not from a default exchange.                          *)
LEMMA IngressIsDeclared ==
  ASSUME PlaceInv, at # None, WalkNext, ~ByOpenShovel, ~ByDefault
  PROVE  at' \notin report.queues_without_declared_ingress
<1>1. report.queues_without_declared_ingress = QueuesWithoutDeclaredIngress(configuration)
  BY DEF PlaceInv, Report
<1>2. ~RouteByDefault
  BY DefaultGoesToQueues
<1>3. CASE ~ByUnseenPolicy
  BY <1>1, <1>2, <1>3, HopsAreEdges DEF QueuesWithoutDeclaredIngress, Targets
<1>4. CASE ByUnseenPolicy
  <2>1. at'.kind = "exchange"
    BY <1>4 DEF ByUnseenPolicy, NodeIdAt
  <2>2. \A id \in Ids(configuration.queues) : id.kind = "queue"
    BY CapturesAssumption DEF PlaceInv, NodeId
  <2>3. QED BY <1>1, <2>1, <2>2 DEF QueuesWithoutDeclaredIngress
<1>5. QED BY <1>3, <1>4

(* A message goes from what is there to what is there.                     *)
LEMMA DanglingIsNotTaken ==
  ASSUME PlaceInv, at # None, WalkNext
  PROVE  <<at, at'>> \notin report.dangling_edges
<1>1. report.dangling_edges =
        {<<e.source, e.target>> : e \in DanglingEdges(configuration)}
  BY DEF PlaceInv, Report
<1>2. configuration \in Captures /\ {at, at'} \subseteq Places(configuration)
  BY StepsToPlaces DEF PlaceInv
<1>3. SUFFICES ASSUME NEW e \in DanglingEdges(configuration), e.source = at, e.target = at'
               PROVE  FALSE
  BY <1>1
<1>4. e \in Edges(configuration) /\ ~ {e.source, e.target} \subseteq NodeIds(configuration)
  BY DEF DanglingEdges
<1>5. QED BY <1>2, <1>3, <1>4, EdgesBetweenPlaces

(* A shovel that carries a message from one virtual host to another is     *)
(* listed for that, or its virtual hosts are not known.                    *)
LEMMA CrossingIsListed ==
  ASSUME PlaceInv, OriginInv, at # None, WalkNext,
         origin # None, at' # Elsewhere, at'.vhost # origin
  PROVE  at \in report.cross_vhost_shovels \cup report.shovels_with_unresolved_vhost
<1>1. /\ report.cross_vhost_shovels = CrossVhostShovels(configuration)
      /\ report.shovels_with_unresolved_vhost = ShovelsWithUnresolvedVhost(configuration)
      /\ configuration \in Captures
  BY DEF PlaceInv, Report
<1>2. PICK s \in configuration.shovels :
        s.id = at /\ \E n : Takes(s, n) /\ n # Elsewhere /\ n.vhost = origin
  BY DEF OriginInv
<1>3. PICK n : Takes(s, n) /\ n # Elsewhere /\ n.vhost = origin
  BY <1>2
<1>4. at.kind = "shovel"
  <2>1. at \in Ids(configuration.shovels)
    BY <1>2 DEF Ids
  <2>2. QED BY <1>1, <2>1, PlaceForms DEF Places
<1>5. Deliver
  <2>1. ~Publish
    BY DEF Publish
  <2>2. ~Route
    BY <1>1, <1>4, CapturesAssumption DEF Route, NodeId
  <2>3. ~RouteByDefault
    <3>1. \A v : DefaultExchange(v).kind = "exchange"
      BY DEF DefaultExchange, NodeIdAt
    <3>2. QED BY <1>4, <3>1 DEF RouteByDefault
  <2>4. ~UseAlternateExchange
    BY <1>1, <1>4, ExchangesFit DEF UseAlternateExchange
  <2>5. ~DeadLetter
    <3>1. \A q \in configuration.queues : q.id.kind = "queue"
      BY <1>1, CapturesAssumption DEF Ids, NodeId
    <3>2. QED BY <1>4, <3>1 DEF DeadLetter
  <2>6. ~Consume
    BY <1>4 DEF Consume
  <2>7. QED BY <2>1, <2>2, <2>3, <2>4, <2>5, <2>6 DEF WalkNext
<1>6. PICK t \in configuration.shovels : t.id = at /\ Leads(t.dest, at')
  BY <1>5 DEF Deliver, Enter
<1>7. t = s
  <2>1. UniqueIds(configuration.shovels)
    BY <1>1, CapturesAssumption
  <2>2. QED BY <1>2, <1>6, <2>1 DEF UniqueIds
<1>8. CASE None \in {EndpointVhost(s.src), EndpointVhost(s.dest)}
  BY <1>1, <1>2, <1>8 DEF ShovelsWithUnresolvedVhost
<1>9. CASE None \notin {EndpointVhost(s.src), EndpointVhost(s.dest)}
  <2>1. origin = EndpointVhost(s.src)
    BY <1>3, <1>9, LeadsToVhost DEF Takes
  <2>2. at'.vhost = EndpointVhost(s.dest)
    BY <1>6, <1>7, <1>9, LeadsToVhost
  <2>3. QED BY <1>1, <1>2, <1>9, <2>1, <2>2 DEF CrossVhostShovels
<1>10. QED BY <1>8, <1>9

(* The findings of the report hold of every message, whatever policies the *)
(* broker selected; without listings, but for what a policy gives a        *)
(* predeclared exchange.                                                   *)
THEOREM FindingsAlwaysHold == WalkSpec => FindingsHold
<1>1. WalkInv /\ [WalkNext]_walk_vars =>
        [at # None =>
           /\ ~ByOpenShovel /\ ~ByUnseenPolicy => at \notin report.black_hole_exchanges
           /\ ~ByOpenShovel /\ ~ByUnseenPolicy =>
                at' \notin report.unreachable_internal_exchanges
           /\ ~ByOpenShovel /\ ~ByDefault => at' \notin report.queues_without_declared_ingress
           /\ <<at, at'>> \notin report.dangling_edges
           /\ origin # None /\ at' # Elsewhere /\ at'.vhost # origin =>
                at \in report.cross_vhost_shovels \cup report.shovels_with_unresolved_vhost]_walk_vars
  BY BlackHolesKeep, UnreachablesAreNotReached, IngressIsDeclared, DanglingIsNotTaken,
     CrossingIsListed DEF WalkInv
<1>2. QED BY <1>1, WalkInvariance, PTL DEF WalkSpec, FindingsHold

-----------------------------------------------------------------------------
(* Fan-out *)

(* The graph knows a fanout exchange, exported or not, for one.            *)
LEMMA FanoutIsKnown ==
  ASSUME PlaceInv, IsFanout(at)
  PROVE  ExchangeType(configuration, at) = "fanout"
<1> DEFINE c == configuration
           known == {y \in AlternateSources(c) : y.id = at}
<1>1. c \in Captures /\ policy_of \in MayHaveSelected(c)
  BY DEF PlaceInv
<1>2. PICK x \in ExchangesOf(c) : x.id = at /\ x.type = "fanout"
  BY DEF IsFanout
<1>3. CASE c.observing \/ x \notin PredeclaredExchanges(c)
  <2>1. PICK y \in AlternateSources(c) : y.id = at /\ y.type = "fanout"
    BY <1>1, <1>2, <1>3, AlternateInEffect
  <2>2. \A z \in AlternateSources(c) : z.id = at => z = y
    <3>1. UniqueIds(c.exchanges) /\ ~DuplicateObservations(c.observed_exchanges)
      BY <1>1, CapturesAssumption DEF Rejects
    <3>2. QED BY <2>1, <3>1 DEF AlternateSources, UniqueIds, DuplicateObservations, Ids
  <2>3. known = {y}
    BY <2>1, <2>2
  <2>4. QED BY <2>1, <2>3 DEF ExchangeType
<1>4. CASE ~c.observing /\ x \in PredeclaredExchanges(c)
  <2>1. at.name \in PredeclaredNames
    BY <1>2, <1>4 DEF PredeclaredExchanges, PredeclaredIds, NodeIdAt
  <2>2. AlternateSources(c) = c.exchanges
    BY <1>1, <1>4, CapturesAssumption DEF AlternateSources, ListingsFit
  <2>3. known = {}
    BY <1>1, <2>1, <2>2, CapturesAssumption
  <2>4. PredeclaredType(at.name) = "fanout"
    BY <1>1, <1>2, <2>1, ExchangesFit
  <2>5. QED BY <2>3, <2>4 DEF ExchangeType
<1>5. QED BY <1>3, <1>4

(* It copies a message to queues along bindings only.                      *)
LEMMA CopiesAreBound ==
  ASSUME PlaceInv, at # None, WalkNext, at.kind = "exchange", at'.kind = "queue", IsFanout(at)
  PROVE  Route
<1>1. configuration \in Captures
  BY DEF PlaceInv
<1>2. ~Publish
  BY DEF Publish
<1>3. ~RouteByDefault
  <2>1. "" \in PredeclaredNames /\ PredeclaredType("") = "direct"
    BY DEF PredeclaredNames, PredeclaredType
  <2>2. QED BY <1>1, <2>1, DefaultGoesToQueues, ExchangesFit DEF IsFanout
<1>4. ~UseAlternateExchange
  <2>1. \A v, name : NodeIdAt(v, name, "exchange").kind = "exchange"
    BY DEF NodeIdAt
  <2>2. QED BY <2>1 DEF UseAlternateExchange, Enter
<1>5. ~DeadLetter
  <2>1. \A q \in configuration.queues : q.id.kind = "queue"
    BY <1>1, CapturesAssumption DEF Ids, NodeId
  <2>2. QED BY <2>1 DEF DeadLetter
<1>6. /\ \A s \in configuration.shovels : s.id.kind = "shovel"
  BY <1>1, CapturesAssumption DEF Ids, NodeId
<1>7. ~Consume
  BY <1>6 DEF Consume, Enter
<1>8. ~Deliver
  BY <1>6 DEF Deliver
<1>9. QED BY <1>2, <1>3, <1>4, <1>5, <1>7, <1>8 DEF WalkNext

(* A queue is described with a type if it is there.                        *)
LEMMA QueuesAreDescribed ==
  ASSUME PlaceInv, NEW id, id.kind = "queue"
  PROVE  /\ FanoutQueue(configuration, id).id = id
         /\ Exists(id) = (FanoutQueue(configuration, id).queue_type # None)
<1>1. configuration \in Captures
  BY DEF PlaceInv
<1>2. FanoutQueue(configuration, id).id = id
  BY DEF FanoutQueue
<1>3. CASE id \in Ids(configuration.queues)
  <2>1. Exists(id)
    BY <1>3 DEF Exists
  <2>2. \A q \in configuration.queues : ~QueueTypeUnknown(configuration, q)
    BY <1>1, CapturesAssumption DEF Rejects
  <2>3. \A q \in configuration.queues : ResolvedQueueType(configuration, q) # None
    BY <2>2 DEF QueueTypeUnknown
  <2>4. (CHOOSE q \in configuration.queues : q.id = id) \in configuration.queues
    BY <1>3 DEF Ids
  <2>5. FanoutQueue(configuration, id).queue_type # None
    BY <1>3, <2>3, <2>4 DEF FanoutQueue
  <2>6. QED BY <1>2, <2>1, <2>5
<1>4. CASE id \notin Ids(configuration.queues)
  <2>1. ~Exists(id)
    <3>1. \A x \in Ids(ExchangesOf(configuration)) : x.kind = "exchange"
      BY <1>1, ExchangesFit DEF NodeId
    <3>2. QED BY <1>4, <3>1 DEF Exists
  <2>2. FanoutQueue(configuration, id).queue_type = None
    BY <1>4 DEF FanoutQueue
  <2>3. Exists(id) = FALSE
    BY <2>1 DEF Exists
  <2>4. (FanoutQueue(configuration, id).queue_type # None) = FALSE
    BY <2>2
  <2>5. QED BY <1>2, <2>3, <2>4
<1>5. QED BY <1>3, <1>4

(* Such a binding is in the report, and so is its queue.                   *)
LEMMA CopiesAreDescribed ==
  ASSUME PlaceInv, at # None, WalkNext, at.kind = "exchange", at'.kind = "queue", IsFanout(at)
  PROVE  /\ at \in DOMAIN report.fanout_exchange_bindings
         /\ at' \in Ids(report.fanout_exchange_bindings[at])
         /\ \A q \in report.fanout_exchange_bindings[at] : Exists(q.id) = (q.queue_type # None)
<1>1. /\ report.fanout_exchange_bindings = FanoutExchangeBindings(configuration)
      /\ configuration \in Captures /\ {at, at'} \subseteq Places(configuration)
  BY StepsToPlaces DEF PlaceInv, Report
<1>2. Route
  BY CopiesAreBound
<1>3. PICK e \in Edges(configuration) : e.source = at /\ e.target = at' /\ e.kind = "binding"
  BY <1>2, RoutesAreEdges
<1>4. at \in NodeIds(configuration)
  BY <1>1, <1>3, EdgesBetweenPlaces
<1>5. at \in {y \in ExchangeIds(configuration) : ExchangeType(configuration, y) = "fanout"}
  BY <1>4, FanoutIsKnown DEF ExchangeIds
<1> DEFINE bound == {f \in Edges(configuration) :
                       f.kind = "binding" /\ f.source = at /\ f.target.kind = "queue"}
<1>6. /\ at \in DOMAIN report.fanout_exchange_bindings
      /\ report.fanout_exchange_bindings[at] = {FanoutQueue(configuration, f.target) : f \in bound}
  BY <1>1, <1>5 DEF FanoutExchangeBindings
<1>7. at' \in Ids(report.fanout_exchange_bindings[at])
  <2>1. e \in bound
    BY <1>3
  <2>2. FanoutQueue(configuration, at') \in report.fanout_exchange_bindings[at]
    BY <1>3, <1>6, <2>1
  <2>3. FanoutQueue(configuration, at').id = at'
    BY QueuesAreDescribed
  <2>4. QED BY <2>2, <2>3 DEF Ids
<1>8. ASSUME NEW q \in report.fanout_exchange_bindings[at]
      PROVE  Exists(q.id) = (q.queue_type # None)
  <2>1. PICK f \in bound : q = FanoutQueue(configuration, f.target)
    BY <1>6
  <2>2. f.target.kind = "queue"
    OBVIOUS
  <2>3. QED BY <2>1, <2>2, QueuesAreDescribed
<1>9. QED BY <1>6, <1>7, <1>8

(* What a fanout exchange puts into a queue was described.                 *)
THEOREM FanoutIsDescribed == WalkSpec => FanoutDescribed
<1>1. WalkInv /\ [WalkNext]_walk_vars =>
        [at # None /\ at.kind = "exchange" /\ at' # at /\ at'.kind = "queue" /\ IsFanout(at) =>
           /\ at \in DOMAIN report.fanout_exchange_bindings
           /\ at' \in Ids(report.fanout_exchange_bindings[at])
           /\ \A q \in report.fanout_exchange_bindings[at] :
                Exists(q.id) = (q.queue_type # None)]_walk_vars
  BY CopiesAreDescribed DEF WalkInv
<1>2. QED BY <1>1, WalkInvariance, PTL DEF WalkSpec, FanoutDescribed

-----------------------------------------------------------------------------
(* Competing consumers *)

(* A shovel that may take from a queue and is confirmed is its consumer.   *)
LEMMA TakersConsume ==
  ASSUME NEW c \in Captures, NEW s \in c.shovels, NEW q \in Ids(c.queues), Takes(s, q),
         s.id \notin ShovelsWithUnconfirmedEndpoints(c)
  PROVE  /\ HasLocalResource(s.src, c.hosts) /\ LocalResource(s.src) = q
         /\ s.src.resource.kind = "queue"
         /\ s.id \in Consumers(c, q)
<1>1. ~HasUnconfirmedEndpoint(s, c.hosts)
  BY DEF ShovelsWithUnconfirmedEndpoints
<1>2. s.src \in Side(DOMAIN c.vhosts, Host, Name \cup PredeclaredNames) /\ q \in Places(c) /\ q.kind = "queue"
  BY CapturesAssumption, PlaceForms DEF Places
<1>3. HasLocalResource(s.src, c.hosts) /\ LocalResource(s.src) = q
  BY <1>1, <1>2, LeadsToLocal DEF HasUnconfirmedEndpoint, HasLocalResource, Takes
<1>4. s.src.resource.kind = "queue"
  BY <1>2, <1>3 DEF LocalResource, NodeIdAt
<1>5. QED BY <1>3, <1>4 DEF Consumers

(* If two of them may, both are reported.                                  *)
LEMMA TakersCompete ==
  ASSUME NEW c \in Captures, NEW q \in Ids(c.queues) \ StreamIds(c),
         NEW s \in c.shovels, NEW t \in c.shovels, Takes(s, q), Takes(t, q), s # t,
         {s.id, t.id} \cap ShovelsWithUnconfirmedEndpoints(c) = {}
  PROVE  Consumers(c, q) \in CompetingShovelConsumers(c) /\ {s.id, t.id} \subseteq Consumers(c, q)
<1>1. {s.id, t.id} \subseteq Consumers(c, q)
  BY TakersConsume
<1>2. s.id # t.id
  BY CapturesAssumption DEF UniqueIds
<1>3. IsFiniteSet(Consumers(c, q))
  <2>1. IsFiniteSet(c.shovels)
    BY CapturesAssumption
  <2>2. IsFiniteSet({u.id : u \in c.shovels})
    <3>1. [u \in c.shovels |-> u.id] \in Surjection(c.shovels, {u.id : u \in c.shovels})
      BY DEF Surjection
    <3>2. QED BY <2>1, <3>1, FS_Surjection DEF ExistsSurjection
  <2>3. Consumers(c, q) \subseteq {u.id : u \in c.shovels}
    BY DEF Consumers
  <2>4. QED BY <2>2, <2>3, FS_Subset
<1>4. Cardinality(Consumers(c, q)) >= 2
  <2>1. Cardinality({s.id, t.id}) = 2
    <3>1. {s.id, t.id} = {s.id} \cup {t.id} /\ t.id \notin {s.id}
      BY <1>2
    <3>2. IsFiniteSet({s.id}) /\ Cardinality({s.id}) = 1
      BY FS_Singleton
    <3>3. Cardinality({s.id} \cup {t.id}) = 1 + 1
      BY <3>1, <3>2, FS_AddElement
    <3>4. QED BY <3>1, <3>3
  <2>2. Cardinality({s.id, t.id}) <= Cardinality(Consumers(c, q))
    BY <1>1, <1>3, FS_Subset
  <2>3. Cardinality(Consumers(c, q)) \in Nat
    BY <1>3, FS_CardinalityType
  <2>4. QED BY <2>1, <2>2, <2>3
<1>5. q \in {LocalResource(u.src) : u \in
               {v \in c.shovels : /\ HasLocalResource(v.src, c.hosts)
                                  /\ v.src.resource.kind = "queue"}}
  BY TakersConsume
<1>6. QED BY <1>1, <1>4, <1>5 DEF CompetingShovelConsumers

(* Shovels that could take one message from each other are reported.       *)
THEOREM CompetitorsAreReported == WalkSpec => []CompetitorsReported
<1>1. WalkInv => CompetitorsReported
  <2>1. SUFFICES ASSUME PlaceInv,
                        NEW q \in configuration.queues, q.id \notin StreamIds(configuration),
                        NEW s \in configuration.shovels, NEW t \in configuration.shovels,
                        Takes(s, q.id), Takes(t, q.id), s # t,
                        {s.id, t.id} \cap report.shovels_with_unconfirmed_endpoints = {}
                 PROVE  \E S \in report.competing_shovel_consumers : {s.id, t.id} \subseteq S
    BY DEF WalkInv, CompetitorsReported
  <2>2. /\ report.shovels_with_unconfirmed_endpoints =
             ShovelsWithUnconfirmedEndpoints(configuration)
        /\ report.competing_shovel_consumers = CompetingShovelConsumers(configuration)
        /\ configuration \in Captures
    BY <2>1 DEF PlaceInv, Report
  <2>3. q.id \in Ids(configuration.queues) \ StreamIds(configuration)
    BY <2>1 DEF Ids
  <2>4. QED BY <2>1, <2>2, <2>3, TakersCompete
<1>2. QED BY <1>1, WalkInvariance, PTL
=============================================================================
