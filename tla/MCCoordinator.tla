--------------------------- MODULE MCCoordinator ---------------------------
(***************************************************************************)
(* Instances of Coordinator for TLC.  One owner with three units and three *)
(* intents: two that together sell more, and one that reuses a nonce.      *)
(* Behaviours come in two groups, by what moves (acting): solvers win and  *)
(* batches settle while admissions run side by side; or feeds and lookups  *)
(* screen while the owner acts, reads fail and the process restarts.       *)
(***************************************************************************)
EXTENDS Coordinator, TLC

CONSTANTS alice,
          MaxScreening   \* bound: the last timestamp of a behaviour of the second group

Order(nonce, sell) == [owner |-> alice, nonce |-> nonce, sell |-> sell, validUntil |-> 9]
First == Order(1, 2)
ThreeIntents == {First, Order(2, 2), Order(1, 1)}
ThreeUnits == (alice :> 3)

Busy == {i \in Intents : posts[i] # Idle}

\* Bound: while lookups screen, one admission runs at a time, until the first
\* batch is solved, and the owner keeps two units and the second nonce.
ScreeningBound ==
  "lookup" \in acting => /\ Cardinality(Busy) <= 1 /\ First \notin Busy
                         /\ now <= MaxScreening /\ covered[alice] >= 2
                         /\ nonceUsed \subseteq {<<alice, 1>>}
=============================================================================
