---------------------------- MODULE MCCycleAudit ----------------------------
(* Bounded inputs for CycleAudit: two exchanges, a queue and a shovel. *)
EXTENDS CycleAudit

X == {1, 3}
Q == {2}
S == {4}
MCNode == X \cup Q \cup S

E(k, A, B) == {[source |-> a, target |-> b, kind |-> k] : a \in A, b \in B}

AtMostOne(U) == {{}} \cup {{e} : e \in U}

(* The parser derives at most one dead-letter or alternate edge from a     *)
(* resource and at most one edge from each side of a shovel.               *)
MCTopology ==
  {b \cup a1 \cup a2 \cup d \cup i \cup o :
     b \in SUBSET (E("binding", X, Q) \cup E("binding", {1}, {1, 3}) \cup E("binding", {3}, {1})),
     a1 \in AtMostOne(E("alternate_exchange", {1}, X)),
     a2 \in AtMostOne(E("alternate_exchange", {3}, {1})),
     d \in AtMostOne(E("dead_letter", Q, X)),
     i \in AtMostOne(E("shovel", X \cup Q, S)),
     o \in AtMostOne(E("shovel", S, X \cup Q))}

(* Everything declared, or one exchange or the queue absent: its edges     *)
(* dangle.                                                                 *)
MCDeclared == {MCNode, MCNode \ {3}, MCNode \ {2}}
=============================================================================
