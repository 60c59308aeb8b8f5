-------------------------- MODULE BatchLifecycle --------------------------
(***************************************************************************)
(* What the settlement core promises about a batch, whatever the intents,  *)
(* the venues and the governor do.  A batch is open, then won, then ends   *)
(* once, in one of three ways.  While its window is open the lead changes  *)
(* only for a better offer; afterwards the lead is sealed.  Blame falls    *)
(* only with an expiry, on the leader, after the deadline; a win only with *)
(* a settlement, on the leader.                                            *)
(***************************************************************************)
EXTENDS Integers

CONSTANTS Batches, Solvers, WINDOW, DEADLINE

VARIABLES
  clock,
  phase,    \* phase[b]: "open", "won", "settled", "unwound" or "expired"
  leader,   \* leader[b]: the solver of the best offer, meaningful once won
  lead,     \* lead[b]: the savings of the best offer
  blame,    \* blame[s]: expiries charged to s
  wins      \* wins[s]: settlements credited to s, auctions aside

lifecycleVars == <<clock, phase, leader, lead, blame, wins>>

LifecycleInit ==
  /\ clock \in Nat
  /\ phase = [b \in Batches |-> "open"]
  /\ leader \in [Batches -> Solvers]
  /\ lead \in [Batches -> Nat]
  /\ blame = [s \in Solvers |-> 0]
  /\ wins = [s \in Solvers |-> 0]

\* A first offer, or a strictly better one.
Lead(b, s) ==
  /\ b < clock /\ clock <= b + WINDOW
  /\ phase[b] = "open" \/ (phase[b] = "won" /\ lead'[b] > lead[b])
  /\ phase' = [phase EXCEPT ![b] = "won"]
  /\ leader' = [leader EXCEPT ![b] = s]
  /\ lead'[b] \in Nat /\ lead' = [lead EXCEPT ![b] = lead'[b]]
  /\ UNCHANGED <<clock, blame, wins>>

Settle(b) ==
  /\ phase[b] = "won" /\ clock > b + WINDOW
  /\ phase' = [phase EXCEPT ![b] = "settled"]
  /\ wins' = [wins EXCEPT ![leader[b]] = @ + 1]
  /\ UNCHANGED <<clock, leader, lead, blame>>

Unwind(b) ==
  /\ phase[b] = "won" /\ clock > b + WINDOW
  /\ phase' = [phase EXCEPT ![b] = "unwound"]
  /\ UNCHANGED <<clock, leader, lead, blame, wins>>

Expire(b) ==
  /\ phase[b] = "won" /\ clock > b + WINDOW + DEADLINE
  /\ phase' = [phase EXCEPT ![b] = "expired"]
  /\ blame' = [blame EXCEPT ![leader[b]] = @ + 1]
  /\ UNCHANGED <<clock, leader, lead, wins>>

Pass ==
  /\ clock' > clock
  /\ UNCHANGED <<phase, leader, lead, blame, wins>>

LifecycleNext ==
  \/ \E b \in Batches : Settle(b) \/ Unwind(b) \/ Expire(b)
  \/ \E b \in Batches, s \in Solvers : Lead(b, s)
  \/ Pass

LifecycleSpec == LifecycleInit /\ [][LifecycleNext]_lifecycleVars
=============================================================================
