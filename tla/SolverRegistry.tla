-------------------------- MODULE SolverRegistry --------------------------
(***************************************************************************)
(* The bond and the scoreboard of the solvers                              *)
(* (contracts/src/SolverRegistry.sol).  One record per solver, split into  *)
(* one function per field; bondBalance is the bond token the contract      *)
(* itself holds and slashedTotal what it has paid to the treasury.         *)
(*                                                                         *)
(* The clock is block.timestamp.  Two callers are trusted: the governor    *)
(* (a timelock, any of whose calls may come at any time) and Settlement,   *)
(* whose calls are the operators reportFailedFinalize and recordWin.       *)
(* setSettlement and setAuctionHouse run once, before the first batch, so  *)
(* they are part of the initial state.                                     *)
(***************************************************************************)
EXTENDS Integers, FiniteSets, FiniteSetsExt

CONSTANTS
  Solvers,            \* the addresses that ever bond
  BondAmounts,        \* what one call of bond may bring
  MinBonds,           \* the values the governor may choose for minBond
  MIN_BOND_FLOOR,     \* the least of them, where minBond starts
  UNBOND_COOLDOWN,
  SLASH_FAILED_FINALIZE_BPS,
  REGISTRY_BPS,
  MaxBonded,          \* bound: one solver's bond
  MaxSlashes,         \* bound: slashes of one solver by the governor
  MaxTime             \* bound: the last timestamp

\* setMinBond enforces the floor: a minimum of zero would make every address
\* active.
ASSUME RegistryAssumption ==
  /\ IsFiniteSet(Solvers)
  /\ BondAmounts \subseteq Nat
  /\ MinBonds \subseteq Nat \ {0}
  /\ MIN_BOND_FLOOR \in MinBonds /\ \A m \in MinBonds : m >= MIN_BOND_FLOOR
  /\ UNBOND_COOLDOWN \in Nat \ {0}
  /\ REGISTRY_BPS \in Nat \ {0}
  /\ SLASH_FAILED_FINALIZE_BPS \in 0..REGISTRY_BPS
  /\ MaxBonded \in Nat /\ MaxSlashes \in Nat /\ MaxTime \in Nat

VARIABLES
  now,                \* block.timestamp
  bonded,             \* Solver.bonded
  unbondAvailableAt,  \* Solver.unbondAvailableAt, 0 when no exit is pending
  batchesWon,         \* Solver.batchesWon
  savingsGenerated,   \* Solver.savingsGeneratedUsd
  failedFinalizes,    \* Solver.failedFinalizes
  slashCount,         \* Solver.slashCount
  minBond,
  bondBalance,        \* bondToken.balanceOf(registry)
  slashedTotal        \* bondToken received by the treasury from slashes

bondVars == <<bonded, unbondAvailableAt, bondBalance>>
slashVars == <<slashCount, slashedTotal>>
scoreVars == <<batchesWon, savingsGenerated, failedFinalizes>>
registryVars == <<bondVars, slashVars, scoreVars, minBond>>

RegistryTypeOK ==
  /\ now \in 0..MaxTime
  /\ bonded \in [Solvers -> Nat]
  /\ unbondAvailableAt \in [Solvers -> Nat]
  /\ batchesWon \in [Solvers -> Nat]
  /\ savingsGenerated \in [Solvers -> Nat]
  /\ failedFinalizes \in [Solvers -> Nat]
  /\ slashCount \in [Solvers -> Nat]
  /\ minBond \in Nat \ {0}
  /\ bondBalance \in Int
  /\ slashedTotal \in Nat

RegistryInit ==
  /\ now = 0
  /\ bonded = [s \in Solvers |-> 0]
  /\ unbondAvailableAt = [s \in Solvers |-> 0]
  /\ batchesWon = [s \in Solvers |-> 0]
  /\ savingsGenerated = [s \in Solvers |-> 0]
  /\ failedFinalizes = [s \in Solvers |-> 0]
  /\ slashCount = [s \in Solvers |-> 0]
  /\ minBond = MIN_BOND_FLOOR
  /\ bondBalance = 0
  /\ slashedTotal = 0

----------------------------------------------------------------------------

\* Mutant: a pending exit does not count.
isActiveLeaving(s) == bonded[s] >= minBond

isActive(s) == bonded[s] >= minBond /\ unbondAvailableAt[s] = 0

\* Topping up cancels a pending exit.
bond(s, amount) ==
  /\ bonded[s] + amount <= MaxBonded
  /\ bonded' = [bonded EXCEPT ![s] = @ + amount]
  /\ unbondAvailableAt' = [unbondAvailableAt EXCEPT ![s] = 0]
  /\ bondBalance' = bondBalance + amount
  /\ UNCHANGED <<slashVars, scoreVars, minBond>>

\* A second request starts the cooldown again.
requestUnbond(s) ==
  /\ bonded[s] # 0
  /\ unbondAvailableAt' = [unbondAvailableAt EXCEPT ![s] = now + UNBOND_COOLDOWN]
  /\ UNCHANGED <<bonded, bondBalance, slashVars, scoreVars, minBond>>

withdrawBond(s) ==
  /\ unbondAvailableAt[s] # 0
  /\ now >= unbondAvailableAt[s]
  /\ bonded[s] # 0
  /\ bonded' = [bonded EXCEPT ![s] = 0]
  /\ unbondAvailableAt' = [unbondAvailableAt EXCEPT ![s] = 0]
  /\ bondBalance' = bondBalance - bonded[s]
  /\ UNCHANGED <<slashVars, scoreVars, minBond>>

\* Mutant: the slash is booked and the bond token never sent.
TakeBondUnpaid(s, amount) ==
  /\ bonded' = [bonded EXCEPT ![s] = @ - amount]
  /\ slashCount' = [slashCount EXCEPT ![s] = @ + 1]
  /\ slashedTotal' = slashedTotal + amount
  /\ UNCHANGED bondBalance

\* The bond, the counter and the treasury move together.
TakeBond(s, amount) ==
  /\ bonded' = [bonded EXCEPT ![s] = @ - amount]
  /\ slashCount' = [slashCount EXCEPT ![s] = @ + 1]
  /\ bondBalance' = bondBalance - amount
  /\ slashedTotal' = slashedTotal + amount

slash(s, amount) ==
  /\ amount <= bonded[s]
  /\ slashCount[s] < MaxSlashes
  /\ TakeBond(s, amount)
  /\ UNCHANGED <<unbondAvailableAt, scoreVars, minBond>>

setMinBond(value) ==
  /\ value \in MinBonds
  /\ minBond' = value
  /\ UNCHANGED <<bondVars, slashVars, scoreVars>>

\* A share that rounds to zero leaves even the counter alone.
slashShare(s, shareBps) ==
  LET amount == (bonded[s] * shareBps) \div REGISTRY_BPS
  IN  \/ amount = 0 /\ UNCHANGED <<bonded, bondBalance, slashVars>>
      \/ amount # 0 /\ TakeBond(s, amount)

reportFailedFinalize(s) ==
  /\ failedFinalizes' = [failedFinalizes EXCEPT ![s] = @ + 1]
  /\ slashShare(s, SLASH_FAILED_FINALIZE_BPS)
  /\ UNCHANGED <<unbondAvailableAt, batchesWon, savingsGenerated, minBond>>

recordWin(s, savings) ==
  /\ batchesWon' = [batchesWon EXCEPT ![s] = @ + 1]
  /\ savingsGenerated' = [savingsGenerated EXCEPT ![s] = @ + savings]
  /\ UNCHANGED <<bondVars, slashVars, failedFinalizes, minBond>>

\* What a solver does with its bond, and what the governor may do to it.
SolverExit(s) == requestUnbond(s) \/ withdrawBond(s)
GovernorCall ==
  \/ \E s \in Solvers, amount \in BondAmounts : slash(s, amount)
  \/ \E value \in MinBonds : setMinBond(value)

----------------------------------------------------------------------------

\* Conservation: the contract holds exactly the bonds it owes, through every
\* top-up, exit and slash (SolverRegistry.sol keeps no other account of them).
RegistrySolvent == bondBalance = SumFunctionOnSet(bonded, Solvers)
=============================================================================
