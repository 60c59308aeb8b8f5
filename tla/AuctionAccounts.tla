--------------------------- MODULE AuctionAccounts ---------------------------
(***************************************************************************)
(* What the auction house holds, for every set of auctions, intents,       *)
(* owners and solvers: exactly what it owes, never less than a transfer    *)
(* needs, and never what belongs to an owner whose order did not trade.    *)
(*                                                                         *)
(* The accounts are kept per intent: dues is what the house still owes its *)
(* owner, spent what the owner parted with, gained what the receiver got.  *)
(***************************************************************************)
EXTENDS AuctionProofs

dues == [i \in Intents |->
  IF i \in Escrowed /\ ~commitments[i].refunded
  THEN i.sellAmount - (IF PhaseOf(i) = "EXECUTED" THEN commitments[i].filledSell ELSE 0)
  ELSE 0]
spent == [i \in Intents |->
  IF i \in Escrowed
  THEN (IF commitments[i].refunded THEN commitments[i].filledSell ELSE i.sellAmount) ELSE 0]
gained == [i \in Intents |->
  IF i \in Escrowed /\ PhaseOf(i) = "EXECUTED" THEN commitments[i].filledBuy ELSE 0]
crossedNow == {a \in Auctions : auctions[a].phase = "CROSSED"}

Sells(t)      == {i \in Intents : SellToken(i) = t}
SellsOf(o, t) == {i \in Intents : i.owner = o /\ SellToken(i) = t}
BuysFor(o, t) == {i \in Intents : i.receiver = o /\ BuyToken(i) = t}

LEMMA ClaimFields ==
  ASSUME BaseInv, NEW i \in Intents, commitments[i] # NoCommitment
  PROVE  /\ commitments[i] \in CommitmentRecords /\ commitments[i].auction \in Auctions
         /\ commitments[i].escrowed \in BOOLEAN /\ commitments[i].refunded \in BOOLEAN
         /\ commitments[i].filledSell \in Nat /\ commitments[i].filledBuy \in Nat
         /\ commitments[i].filledSell <= i.sellAmount /\ i.sellAmount \in Nat
         /\ EscrowOk(i)
<1>1. commitments[i] \in CommitmentRecords
  BY DEF BaseInv, WellFormed
<1>2. EscrowOk(i)
  BY DEF BaseInv, EscrowInv
<1>3. commitments[i].filledSell <= i.sellAmount
  BY <1>2 DEF EscrowOk
<1>4. QED  BY <1>1, <1>2, <1>3, IntentData DEF CommitmentRecords

LEMMA ClaimNat ==
  ASSUME BaseInv, NEW i \in Intents
  PROVE  dues[i] \in Nat /\ spent[i] \in Nat /\ gained[i] \in Nat
<1>1. CASE i \in Escrowed
  <2>1. commitments[i] # NoCommitment
    BY <1>1 DEF Escrowed
  <2>2. /\ commitments[i].filledSell \in Nat /\ commitments[i].filledBuy \in Nat
        /\ commitments[i].filledSell <= i.sellAmount /\ i.sellAmount \in Nat
    BY <2>1, ClaimFields
  <2>3. QED  BY <2>2 DEF dues, spent, gained
<1>2. CASE i \notin Escrowed
  BY <1>2 DEF dues, spent, gained
<1>3. QED  BY <1>1, <1>2

\* What an intent claims changes only with its escrow, its refund, the end of
\* its auction, and the fill of an auction that has ended.
LEMMA ClaimKept ==
  ASSUME NEW i \in Intents, i \in Escrowed' <=> i \in Escrowed,
         i \in Escrowed => /\ commitments'[i].refunded = commitments[i].refunded
                           /\ PhaseOf(i)' = "EXECUTED" <=> PhaseOf(i) = "EXECUTED"
                           /\ commitments[i].refunded \/ PhaseOf(i) = "EXECUTED" =>
                                /\ commitments'[i].filledSell = commitments[i].filledSell
                                /\ commitments'[i].filledBuy = commitments[i].filledBuy
  PROVE  dues'[i] = dues[i] /\ spent'[i] = spent[i] /\ gained'[i] = gained[i]
<1>1. CASE i \in Escrowed
  <2>1. dues'[i] = dues[i]
    BY <1>1 DEF dues
  <2>2. spent'[i] = spent[i]
    BY <1>1 DEF spent
  <2>3. gained'[i] = gained[i]
    BY <1>1 DEF gained
  <2>4. QED  BY <2>1, <2>2, <2>3
<1>2. CASE i \notin Escrowed
  BY <1>2 DEF dues, spent, gained
<1>3. QED  BY <1>1, <1>2

\* The same, when the commitment does not change.
LEMMA ClaimFixed ==
  ASSUME NEW i \in Intents, commitments'[i] = commitments[i],
         i \in Escrowed => (PhaseOf(i)' = "EXECUTED" <=> PhaseOf(i) = "EXECUTED")
  PROVE  dues'[i] = dues[i] /\ spent'[i] = spent[i] /\ gained'[i] = gained[i]
<1>1. i \in Escrowed' <=> i \in Escrowed
  BY DEF Escrowed
<1>2. QED  BY <1>1, ClaimKept

----------------------------------------------------------------------------
(* The steps that change no claim.                                         *)

\* A fill that comes or goes before the end of its auction is nobody's yet: only
\* the freeze, the execution and the refund change what is claimed.
QuietClaims == \A i \in Intents : dues'[i] = dues[i] /\ spent'[i] = spent[i] /\ gained'[i] = gained[i]

LEMMA CommitClaims == ASSUME BaseInv, NEW i \in Intents, commitAuctionIntent(i) PROVE QuietClaims
<1> SUFFICES ASSUME NEW j \in Intents
             PROVE  dues'[j] = dues[j] /\ spent'[j] = spent[j] /\ gained'[j] = gained[j]
  BY DEF QuietClaims
<1>1. CASE j = i
  <2>1. i \notin Escrowed
    BY DEF commitAuctionIntent, Escrowed
  <2>2. PICK a : commitments' = [commitments EXCEPT ![i] =
              [auction |-> a, escrowed |-> FALSE, cancelled |-> FALSE, refunded |-> FALSE,
               filledSell |-> 0, filledBuy |-> 0]]
    BY DEF commitAuctionIntent
  <2>3. ~commitments'[i].escrowed
    BY <2>2 DEF BaseInv, WellFormed
  <2>4. i \notin Escrowed'
    BY <2>3 DEF Escrowed
  <2>5. QED  BY <1>1, <2>1, <2>4, ClaimKept
<1>2. CASE j # i
  <2>1. commitments'[j] = commitments[j] /\ auctions' = auctions
    BY <1>2 DEF commitAuctionIntent, BaseInv, WellFormed
  <2>2. j \in Escrowed => (PhaseOf(j)' = "EXECUTED" <=> PhaseOf(j) = "EXECUTED")
    BY <2>1 DEF PhaseOf
  <2>3. QED  BY <2>1, <2>2, ClaimFixed
<1>3. QED  BY <1>1, <1>2

LEMMA CancelClaims == ASSUME BaseInv, NEW i \in Intents, cancelBeforeFreeze(i) PROVE QuietClaims
<1> SUFFICES ASSUME NEW j \in Intents
             PROVE  dues'[j] = dues[j] /\ spent'[j] = spent[j] /\ gained'[j] = gained[j]
  BY DEF QuietClaims
<1>1. auctions' = auctions
  BY DEF cancelBeforeFreeze
<1>2. CASE j = i
  <2>1. commitments[i] \in CommitmentRecords /\ commitments[i] # NoCommitment
    BY DEF cancelBeforeFreeze, BaseInv, WellFormed
  <2>2. commitments'[i] = [commitments[i] EXCEPT !.cancelled = TRUE]
    BY DEF cancelBeforeFreeze, BaseInv, WellFormed
  <2>3. /\ commitments'[i] \in CommitmentRecords
        /\ commitments'[i].escrowed = commitments[i].escrowed
        /\ commitments'[i].auction = commitments[i].auction
    BY <2>1, <2>2 DEF CommitmentRecords
  <2>4. /\ commitments'[i].refunded = commitments[i].refunded
        /\ commitments'[i].filledSell = commitments[i].filledSell
        /\ commitments'[i].filledBuy = commitments[i].filledBuy
    BY <2>1, <2>2 DEF CommitmentRecords
  <2>5. i \in Escrowed' <=> i \in Escrowed
    BY <2>1, <2>3, RecordsExist DEF Escrowed
  <2>6. PhaseOf(i)' = PhaseOf(i)
    BY <1>1, <2>3 DEF PhaseOf
  <2>7. QED  BY <1>2, <2>4, <2>5, <2>6, ClaimKept
<1>3. CASE j # i
  <2>1. commitments'[j] = commitments[j]
    BY <1>3 DEF cancelBeforeFreeze, BaseInv, WellFormed
  <2>2. j \in Escrowed => (PhaseOf(j)' = "EXECUTED" <=> PhaseOf(j) = "EXECUTED")
    BY <1>1, <2>1 DEF PhaseOf
  <2>3. QED  BY <2>1, <2>2, ClaimFixed
<1>4. QED  BY <1>2, <1>3

\* An auction moves on without executing, and no commitment changes.
LEMMA PhaseClaims ==
  ASSUME BaseInv, NEW a \in Auctions, commitments' = commitments,
         \A c \in Auctions : c # a => auctions'[c] = auctions[c],
         auctions[a].phase # "EXECUTED", auctions'[a].phase # "EXECUTED"
  PROVE  QuietClaims
<1> SUFFICES ASSUME NEW j \in Intents
             PROVE  dues'[j] = dues[j] /\ spent'[j] = spent[j] /\ gained'[j] = gained[j]
  BY DEF QuietClaims
<1>1. j \in Escrowed => commitments[j].auction \in Auctions
  BY ClaimFields DEF Escrowed
<1>2. j \in Escrowed => (PhaseOf(j)' = "EXECUTED" <=> PhaseOf(j) = "EXECUTED")
  BY <1>1 DEF PhaseOf
<1>3. QED  BY <1>2, ClaimFixed

\* The same when the fills of its book are given back.
LEMMA RollbackClaims ==
  ASSUME BaseInv, NEW a \in Auctions, commitments' = rollbackFills(a),
         \A c \in Auctions : c # a => auctions'[c] = auctions[c],
         auctions[a].phase = "CROSSED", auctions'[a].phase # "EXECUTED"
  PROVE  QuietClaims
<1> SUFFICES ASSUME NEW j \in Intents
             PROVE  dues'[j] = dues[j] /\ spent'[j] = spent[j] /\ gained'[j] = gained[j]
  BY DEF QuietClaims
<1>0. WellFormed /\ BookInv
  BY DEF BaseInv
<1>1. CASE j \in Booked(a)
  <2>1. /\ commitments[j] # NoCommitment /\ commitments[j].auction = a
        /\ commitments[j] \in CommitmentRecords
    BY <1>0, <1>1, BookedCommitted
  <2>2. /\ commitments'[j] \in CommitmentRecords /\ commitments'[j].auction = a
        /\ commitments'[j].refunded = commitments[j].refunded
        /\ commitments'[j].escrowed = commitments[j].escrowed
    BY <1>0, <1>1, RollbackFields
  <2>3. j \in Escrowed' <=> j \in Escrowed
    BY <2>1, <2>2, RecordsExist DEF Escrowed
  <2>4. PhaseOf(j) = "CROSSED" /\ PhaseOf(j)' # "EXECUTED"
    BY <2>1, <2>2 DEF PhaseOf
  <2>5. ~commitments[j].refunded
    BY <2>1, <2>4, ClaimFields DEF EscrowOk
  <2>6. QED  BY <2>2, <2>3, <2>4, <2>5, ClaimKept
<1>2. CASE j \notin Booked(a)
  <2>1. commitments'[j] = commitments[j]
    BY <1>0, <1>2, RollbackFields
  <2>2. j \in Escrowed => commitments[j].auction \in Auctions /\ commitments[j].auction # a
    BY <1>0, <1>2, Elsewhere DEF Escrowed
  <2>3. j \in Escrowed => (PhaseOf(j)' = "EXECUTED" <=> PhaseOf(j) = "EXECUTED")
    BY <2>1, <2>2 DEF PhaseOf
  <2>4. QED  BY <2>1, <2>3, ClaimFixed
<1>3. QED  BY <1>1, <1>2

LEMMA SubmitClaims ==
  ASSUME BaseInv, NEW a \in Auctions, NEW s \in Solvers, NEW price \in Prices, submitCross(a, s, price)
  PROVE  QuietClaims
<1> SUFFICES ASSUME NEW j \in Intents
             PROVE  dues'[j] = dues[j] /\ spent'[j] = spent[j] /\ gained'[j] = gained[j]
  BY DEF QuietClaims
<1>0. WellFormed /\ BookInv
  BY DEF BaseInv
<1>1. PICK fill : Crosses(a, s, price, fill)
  BY SubmitStep
<1>2. /\ auctions[a].phase = "FROZEN" /\ auctions'[a].phase = "CROSSED"
      /\ \A c \in Auctions : c # a => auctions'[c] = auctions[c]
  BY <1>0, <1>1, SubmitPhase
<1>3. CASE \E k \in DOMAIN fill : books[a][k] = j
  <2>1. PICK k \in DOMAIN fill : books[a][k] = j
    BY <1>3
  <2>2. k \in DOMAIN books[a] /\ j \in Booked(a)
    BY <1>1, <2>1 DEF Crosses, Booked
  <2>3. /\ commitments[j] # NoCommitment /\ commitments[j].auction = a
        /\ commitments[j] \in CommitmentRecords
    BY <1>0, <2>2, BookedCommitted
  <2>4. /\ commitments'[j] \in CommitmentRecords /\ commitments'[j].auction = commitments[j].auction
        /\ commitments'[j].refunded = commitments[j].refunded /\ commitments'[j].escrowed
    BY <1>0, <1>1, <2>1, SubmitFields
  <2>5. commitments[j].escrowed
    BY <1>1, <2>1 DEF Crosses, applyCrossReturns, executionAllowed
  <2>6. j \in Escrowed' /\ j \in Escrowed
    BY <2>3, <2>4, <2>5, RecordsExist DEF Escrowed
  <2>7. PhaseOf(j) = "FROZEN" /\ PhaseOf(j)' = "CROSSED"
    BY <1>2, <2>3, <2>4 DEF PhaseOf
  <2>8. ~commitments[j].refunded
    BY <2>3, <2>7, ClaimFields DEF EscrowOk
  <2>9. QED  BY <2>4, <2>6, <2>7, <2>8, ClaimKept
<1>4. CASE ~ \E k \in DOMAIN fill : books[a][k] = j
  <2>1. commitments'[j] = commitments[j]
    BY <1>0, <1>1, <1>4, SubmitSkips DEF Crosses
  <2>2. j \in Escrowed => commitments[j].auction \in Auctions
    BY ClaimFields DEF Escrowed
  <2>3. j \in Escrowed => (PhaseOf(j)' = "EXECUTED" <=> PhaseOf(j) = "EXECUTED")
    BY <1>2, <2>1, <2>2 DEF PhaseOf
  <2>4. QED  BY <2>1, <2>3, ClaimFixed
<1>5. QED  BY <1>3, <1>4

\* Every step but the freeze, the execution and the refund.
LEMMA QuietSteps ==
  ASSUME BaseInv, [Next]_vars, \A a \in Auctions : ~freeze(a) /\ ~executeCross(a),
         \A i \in Intents : ~refundEscrow(i)
  PROVE  QuietClaims
<1>0. WellFormed /\ BookInv
  BY DEF BaseInv
<1>1. ASSUME NEW a \in Auctions, openAuction(a) PROVE QuietClaims
  <2>1. auctions[a] \in AuctionRecords /\ auctions'[a] = [auctions[a] EXCEPT !.phase = "DISCLOSURE"]
    BY <1>0, <1>1 DEF openAuction, WellFormed
  <2>2. auctions'[a].phase = "DISCLOSURE"
    BY <2>1 DEF AuctionRecords
  <2>3. QED  BY <1>0, <1>1, <2>2, PhaseClaims DEF openAuction, WellFormed
<1>2. ASSUME NEW a \in Auctions, extend(a) PROVE QuietClaims
  <2>1. resolved(a) \in AuctionRecords /\ resolved(a).phase = auctions[a].phase
    BY <1>0, <1>2, ResolvedTypes DEF extend
  <2>2. auctions'[a] = [resolved(a) EXCEPT !.extensions = @ + 1, !.collarBps = @ + COLLAR_STEP]
    BY <1>0, <1>2 DEF extend, WellFormed
  <2>3. auctions'[a].phase = "FROZEN" /\ auctions[a].phase = "FROZEN"
    BY <1>2, <2>1, <2>2 DEF extend, AuctionRecords
  <2>4. QED  BY <1>0, <1>2, <2>3, PhaseClaims DEF extend, WellFormed
<1>3. ASSUME NEW a \in Auctions, NEW c \in Challengers, NEW p \in Prices, challenge(a, c, p)
      PROVE  QuietClaims
  <2>1. CASE UNCHANGED <<auctions, commitments>>
    <3>1. \A i \in Intents : PhaseOf(i)' = PhaseOf(i)
      BY <2>1 DEF PhaseOf
    <3>2. QED  BY <2>1, <3>1, ClaimFixed DEF QuietClaims
  <2>2. QED  BY <1>0, <1>3, <2>1, ChallengePhase, RollbackClaims
<1>4. ASSUME NEW a \in Auctions, abortAuction(a) PROVE QuietClaims
  BY <1>0, <1>4, AbortPhase, PhaseClaims, RollbackClaims
<1>5. ASSUME UNCHANGED <<auctions, books, commitments>> PROVE QuietClaims
  <2>1. \A i \in Intents : PhaseOf(i)' = PhaseOf(i)
    BY <1>5 DEF PhaseOf
  <2>2. QED  BY <1>5, <2>1, ClaimFixed DEF QuietClaims
<1>6. QED
  BY <1>1, <1>2, <1>3, <1>4, <1>5, CommitClaims, CancelClaims, SubmitClaims, StepCases, WorldStep

----------------------------------------------------------------------------
(* The steps that change a claim.                                          *)

LEMMA FreezeClaims ==
  ASSUME BaseInv, NEW a \in Auctions, freeze(a), NEW pulled, Freezes(a, pulled), NEW i \in Intents
  PROVE  /\ dues'[i] = dues[i] + (IF i \in pulled THEN i.sellAmount ELSE 0)
         /\ spent'[i] = spent[i] + (IF i \in pulled THEN i.sellAmount ELSE 0)
         /\ gained'[i] = gained[i]
<1>0. WellFormed /\ BookInv
  BY DEF BaseInv
<1>1. /\ auctions[a].phase = "DISCLOSURE" /\ auctions'[a].phase = "FROZEN"
      /\ \A c \in Auctions : c # a => auctions'[c] = auctions[c]
  BY <1>0, FreezePhase
<1>2. dues[i] \in Nat /\ spent[i] \in Nat /\ gained[i] \in Nat /\ i.sellAmount \in Nat
  BY ClaimNat, IntentData
<1>3. CASE i \in pulled
  <2>1. /\ i \in Booked(a) /\ commitments'[i] \in CommitmentRecords /\ commitments'[i].auction = a
        /\ commitments'[i].refunded = commitments[i].refunded /\ commitments'[i].escrowed
    BY <1>0, <1>3, FreezeFields
  <2>2. commitments[i] # NoCommitment /\ commitments[i].auction = a
    BY <1>0, <2>1, BookedCommitted
  <2>3. PhaseOf(i) = "DISCLOSURE" /\ PhaseOf(i)' = "FROZEN"
    BY <1>1, <2>1, <2>2 DEF PhaseOf
  <2>4. ~commitments[i].refunded /\ ~commitments[i].escrowed
    BY <2>2, <2>3, ClaimFields DEF EscrowOk
  <2>5. i \notin Escrowed /\ i \in Escrowed'
    BY <2>1, <2>4, RecordsExist DEF Escrowed
  <2>6. dues[i] = 0 /\ spent[i] = 0 /\ gained[i] = 0
    BY <2>5 DEF dues, spent, gained
  <2>7. dues'[i] = i.sellAmount - 0
    BY <2>1, <2>3, <2>4, <2>5 DEF dues
  <2>8. spent'[i] = i.sellAmount
    BY <2>1, <2>3, <2>4, <2>5 DEF spent
  <2>9. gained'[i] = 0
    BY <2>3 DEF gained
  <2>10. QED  BY <1>2, <1>3, <2>6, <2>7, <2>8, <2>9
<1>4. CASE i \notin pulled /\ i \in Booked(a)
  <2>1. /\ commitments'[i] \in CommitmentRecords /\ commitments'[i].auction = a
        /\ commitments'[i].refunded = commitments[i].refunded
        /\ commitments'[i].escrowed = commitments[i].escrowed
        /\ commitments'[i].filledSell = commitments[i].filledSell
        /\ commitments'[i].filledBuy = commitments[i].filledBuy
    <3>1. commitments[i].escrowed \in BOOLEAN
      BY <1>0, <1>4, BookedCommitted DEF CommitmentRecords
    <3>2. QED  BY <1>0, <1>4, <3>1, FreezeFields
  <2>2. commitments[i] # NoCommitment /\ commitments[i].auction = a
    BY <1>0, <1>4, BookedCommitted
  <2>3. PhaseOf(i) = "DISCLOSURE" /\ PhaseOf(i)' = "FROZEN"
    BY <1>1, <2>1, <2>2 DEF PhaseOf
  <2>4. i \in Escrowed' <=> i \in Escrowed
    BY <2>1, <2>2, RecordsExist DEF Escrowed
  <2>5. QED  BY <1>2, <1>4, <2>1, <2>3, <2>4, ClaimKept
<1>5. CASE i \notin Booked(a)
  <2>1. commitments'[i] = commitments[i] /\ i \notin pulled
    BY <1>0, <1>5, FreezeFields
  <2>2. i \in Escrowed => commitments[i].auction \in Auctions /\ commitments[i].auction # a
    BY <1>0, <1>5, Elsewhere DEF Escrowed
  <2>3. i \in Escrowed => (PhaseOf(i)' = "EXECUTED" <=> PhaseOf(i) = "EXECUTED")
    BY <1>1, <2>1, <2>2 DEF PhaseOf
  <2>4. QED  BY <1>2, <2>1, <2>3, ClaimFixed
<1>6. QED  BY <1>3, <1>4, <1>5

LEMMA ExecuteClaims ==
  ASSUME BaseInv, NEW a \in Auctions, executeCross(a), NEW i \in Intents
  PROVE  /\ dues'[i] = dues[i] - (IF i \in Booked(a) THEN commitments[i].filledSell ELSE 0)
         /\ spent'[i] = spent[i]
         /\ gained'[i] = gained[i] + (IF i \in Booked(a) THEN commitments[i].filledBuy ELSE 0)
<1>0. WellFormed /\ BookInv
  BY DEF BaseInv
<1>1. /\ auctions[a].phase = "CROSSED" /\ auctions'[a].phase = "EXECUTED"
      /\ \A c \in Auctions : c # a => auctions'[c] = auctions[c]
      /\ commitments' = commitments
  BY <1>0, ExecutePhase
<1>2. dues[i] \in Nat /\ spent[i] \in Nat /\ gained[i] \in Nat
  BY ClaimNat
<1>3. Escrowed' = Escrowed
  BY <1>1 DEF Escrowed
<1>4. spent'[i] = spent[i]
  BY <1>1, <1>3 DEF spent
<1>5. CASE i \in Booked(a)
  <2>1. commitments[i] # NoCommitment /\ commitments[i].auction = a
    BY <1>0, <1>5, BookedCommitted
  <2>2. PhaseOf(i) = "CROSSED" /\ PhaseOf(i)' = "EXECUTED"
    BY <1>1, <2>1 DEF PhaseOf
  <2>3. /\ commitments[i].filledSell \in Nat /\ commitments[i].filledBuy \in Nat
        /\ i.sellAmount \in Nat /\ ~commitments[i].refunded
        /\ ~commitments[i].escrowed => commitments[i].filledSell = 0 /\ commitments[i].filledBuy = 0
    BY <2>1, <2>2, ClaimFields DEF EscrowOk
  <2>4. CASE commitments[i].escrowed
    <3>1. i \in Escrowed
      BY <2>1, <2>4 DEF Escrowed
    <3>2. dues[i] = i.sellAmount - 0 /\ dues'[i] = i.sellAmount - commitments[i].filledSell
      BY <1>1, <1>3, <2>2, <2>3, <3>1 DEF dues
    <3>3. gained[i] = 0 /\ gained'[i] = commitments[i].filledBuy
      BY <1>1, <1>3, <2>2, <3>1 DEF gained
    <3>4. QED  BY <1>4, <1>5, <2>3, <3>2, <3>3
  <2>5. CASE ~commitments[i].escrowed
    <3>1. i \notin Escrowed
      BY <2>5 DEF Escrowed
    <3>2. dues[i] = 0 /\ dues'[i] = 0 /\ gained[i] = 0 /\ gained'[i] = 0
      BY <1>3, <3>1 DEF dues, gained
    <3>3. QED  BY <1>4, <1>5, <2>3, <2>5, <3>2
  <2>6. QED  BY <2>4, <2>5
<1>6. CASE i \notin Booked(a)
  <2>1. i \in Escrowed => commitments[i].auction \in Auctions /\ commitments[i].auction # a
    BY <1>0, <1>6, Elsewhere DEF Escrowed
  <2>2. i \in Escrowed => (PhaseOf(i)' = "EXECUTED" <=> PhaseOf(i) = "EXECUTED")
    BY <1>1, <2>1 DEF PhaseOf
  <2>3. QED  BY <1>1, <1>2, <1>6, <2>2, ClaimFixed
<1>7. QED  BY <1>5, <1>6

LEMMA RefundClaims ==
  ASSUME BaseInv, NEW i \in Intents, refundEscrow(i)
  PROVE  /\ i.sellAmount - commitments[i].filledSell \in Nat
         /\ dues[i] = i.sellAmount - commitments[i].filledSell /\ dues'[i] = 0
         /\ spent'[i] = spent[i] - (i.sellAmount - commitments[i].filledSell)
         /\ gained'[i] = gained[i]
         /\ \A j \in Intents : j # i => /\ dues'[j] = dues[j] /\ spent'[j] = spent[j]
                                        /\ gained'[j] = gained[j]
<1>1. auctions' = auctions /\ commitments[i] # NoCommitment /\ commitments[i].escrowed
      /\ ~commitments[i].refunded /\ PhaseOf(i) \in {"EXECUTED", "ABORTED"}
  BY DEF refundEscrow, refundable, PhaseOf
<1>2. /\ commitments[i] \in CommitmentRecords
      /\ commitments[i].filledSell \in Nat /\ i.sellAmount \in Nat
      /\ commitments[i].filledSell <= i.sellAmount
      /\ PhaseOf(i) = "ABORTED" => commitments[i].filledSell = 0
  BY <1>1, ClaimFields DEF EscrowOk
<1>3. commitments'[i] = [commitments[i] EXCEPT !.refunded = TRUE]
  BY DEF refundEscrow, BaseInv, WellFormed
<1>4. /\ commitments'[i] \in CommitmentRecords /\ commitments'[i].refunded
      /\ commitments'[i].escrowed = commitments[i].escrowed
  BY <1>2, <1>3 DEF CommitmentRecords
<1>5. /\ commitments'[i].auction = commitments[i].auction
      /\ commitments'[i].filledSell = commitments[i].filledSell
      /\ commitments'[i].filledBuy = commitments[i].filledBuy
  BY <1>2, <1>3 DEF CommitmentRecords
<1>6. i \in Escrowed /\ i \in Escrowed'
  BY <1>1, <1>4, RecordsExist DEF Escrowed
<1>7. PhaseOf(i)' = PhaseOf(i)
  BY <1>1, <1>5 DEF PhaseOf
<1>8. dues[i] = i.sellAmount - commitments[i].filledSell /\ dues'[i] = 0
  BY <1>1, <1>2, <1>4, <1>6, <1>7 DEF dues
<1>9. spent[i] = i.sellAmount /\ spent'[i] = commitments[i].filledSell
  BY <1>1, <1>4, <1>5, <1>6 DEF spent
<1>10. gained'[i] = gained[i]
  BY <1>5, <1>6, <1>7 DEF gained
<1>11. ASSUME NEW j \in Intents, j # i
       PROVE  dues'[j] = dues[j] /\ spent'[j] = spent[j] /\ gained'[j] = gained[j]
  <2>1. commitments'[j] = commitments[j]
    BY <1>11 DEF refundEscrow, BaseInv, WellFormed
  <2>2. j \in Escrowed => (PhaseOf(j)' = "EXECUTED" <=> PhaseOf(j) = "EXECUTED")
    BY <1>1, <2>1 DEF PhaseOf
  <2>3. QED  BY <2>1, <2>2, ClaimFixed
<1>12. QED  BY <1>2, <1>8, <1>9, <1>10, <1>11

----------------------------------------------------------------------------
(* The bonds of the standing crosses.                                      *)

bonds == BOND * Cardinality(crossedNow)

LEMMA BondsTypes == IsFiniteSet(crossedNow) /\ Cardinality(crossedNow) \in Nat /\ bonds \in Nat
<1>1. IsFiniteSet(crossedNow)
  BY Numbers, FS_Subset DEF crossedNow
<1>2. Cardinality(crossedNow) \in Nat
  BY <1>1, FS_CardinalityType
<1>3. \A m, n \in Nat : m * n \in Nat
  OBVIOUS
<1>4. QED  BY <1>1, <1>2, <1>3, Numbers DEF bonds

LEMMA BondsKept ==
  ASSUME \A c \in Auctions : auctions'[c].phase = "CROSSED" <=> auctions[c].phase = "CROSSED"
  PROVE  bonds' = bonds
<1>1. crossedNow' = crossedNow
  BY DEF crossedNow
<1>2. QED  BY <1>1 DEF bonds

LEMMA BondTaken ==
  ASSUME NEW a \in Auctions, auctions[a].phase # "CROSSED", auctions'[a].phase = "CROSSED",
         \A c \in Auctions : c # a => auctions'[c] = auctions[c]
  PROVE  bonds' = bonds + BOND
<1>1. crossedNow' = crossedNow \cup {a} /\ a \notin crossedNow
  BY DEF crossedNow
<1>2. Cardinality(crossedNow \cup {a}) = Cardinality(crossedNow) + 1
  BY <1>1, BondsTypes, FS_AddElement
<1>3. bonds' = BOND * (Cardinality(crossedNow) + 1)
  BY <1>1, <1>2 DEF bonds
<1>4. \A m, n \in Nat : m * (n + 1) = m * n + m
  OBVIOUS
<1>5. QED  BY <1>3, <1>4, BondsTypes, Numbers DEF bonds

LEMMA BondReturned ==
  ASSUME NEW a \in Auctions, auctions[a].phase = "CROSSED", auctions'[a].phase # "CROSSED",
         \A c \in Auctions : c # a => auctions'[c] = auctions[c]
  PROVE  bonds' = bonds - BOND
<1>1. crossedNow' = crossedNow \ {a} /\ a \in crossedNow
  BY DEF crossedNow
<1>2. Cardinality(crossedNow \ {a}) = Cardinality(crossedNow) - 1
  BY <1>1, BondsTypes, FS_RemoveElement
<1>3. bonds' = BOND * (Cardinality(crossedNow) - 1)
  BY <1>1, <1>2 DEF bonds
<1>4. \A m, n \in Nat : m * (n - 1) = m * n - m
  OBVIOUS
<1>5. QED  BY <1>3, <1>4, BondsTypes, Numbers DEF bonds

----------------------------------------------------------------------------
(* The house holds what it owes.                                           *)

Owes(t) == SumFunctionOnSet(dues, Sells(t)) + (IF t = Quote THEN bonds ELSE 0)
HouseHolds == \A t \in Tokens : ledger[House][t] = Owes(t)

LEMMA SellsFinite == \A t : IsFiniteSet(Sells(t)) /\ Sells(t) \subseteq Intents
BY Numbers, FS_Subset DEF Sells

LEMMA DuesNat == ASSUME BaseInv, NEW t PROVE SumFunctionOnSet(dues, Sells(t)) \in Nat
BY SellsFinite, ClaimNat, SumNat

LEMMA DuesQuiet ==
  ASSUME QuietClaims, NEW t PROVE SumFunctionOnSet(dues', Sells(t)) = SumFunctionOnSet(dues, Sells(t))
BY SellsFinite, SumSame DEF QuietClaims

\* The house's sum of what it owes, intent by intent.
LEMMA HouseForms == ASSUME BaseInv PROVE HouseHolds <=> HouseSolvent
<1>1. ASSUME NEW t \in Tokens
      PROVE  SumFunctionOnSet(dues, Sells(t)) =
               SumFunctionOnSet(owed, {i \in Escrowed : SellToken(i) = t /\ ~commitments[i].refunded})
  <2> DEFINE K == {i \in Escrowed : SellToken(i) = t /\ ~commitments[i].refunded}
  <2>1. K \subseteq Sells(t)
    BY DEF Escrowed, Sells
  <2>2. \A i \in K : owed[i] \in Int /\ dues[i] = owed[i]
    <3> SUFFICES ASSUME NEW i \in K PROVE owed[i] \in Int /\ dues[i] = owed[i]
      OBVIOUS
    <3>1. i \in Intents /\ i \in Escrowed /\ ~commitments[i].refunded
      BY DEF Escrowed
    <3>2. dues[i] = owed[i]
      BY <3>1 DEF dues, owed
    <3>3. QED  BY <3>1, <3>2, ClaimNat
  <2>3. \A i \in Sells(t) : i \notin K => dues[i] = 0
    BY DEF Sells, dues
  <2> HIDE DEF K
  <2>4. SumFunctionOnSet(dues, Sells(t)) = SumFunctionOnSet(owed, K)
    BY <2>1, <2>2, <2>3, SellsFinite, SumRestrict
  <2>5. QED  BY <2>4 DEF K
<1>2. QED  BY <1>1 DEF HouseHolds, HouseSolvent, Owes, bonds, crossedNow

\* A step that changes no claim, and takes a bond or hands one out, or neither.
LEMMA HouseQuiet ==
  ASSUME BaseInv, HouseHolds, QuietClaims, WellFormed',
         \A t \in Tokens : t # Quote => ledger'[House][t] = ledger[House][t],
         ledger'[House][Quote] - ledger[House][Quote] = bonds' - bonds
  PROVE  HouseHolds'
<1> SUFFICES ASSUME NEW t \in Tokens PROVE ledger'[House][t] = Owes(t)'
  BY DEF HouseHolds
<1>1. SumFunctionOnSet(dues', Sells(t)) = SumFunctionOnSet(dues, Sells(t))
  BY DuesQuiet
<1>2. ledger[House][t] = Owes(t)
  BY DEF HouseHolds
<1>3. bonds \in Int /\ bonds' \in Int /\ SumFunctionOnSet(dues, Sells(t)) \in Int
  <2>1. IsFiniteSet(crossedNow')
    BY Numbers, FS_Subset DEF crossedNow
  <2>2. Cardinality(crossedNow') \in Nat
    BY <2>1, FS_CardinalityType
  <2>3. \A m, n \in Nat : m * n \in Nat
    OBVIOUS
  <2>4. bonds' \in Nat
    BY <2>2, <2>3, Numbers DEF bonds
  <2>5. QED  BY <2>4, BondsTypes, DuesNat
<1>4. ledger[House][t] \in Int /\ ledger'[House][t] \in Int
  BY Parties DEF BaseInv, WellFormed
<1>5. QED  BY <1>1, <1>2, <1>3, <1>4 DEF Owes

LEMMA HouseSubmit ==
  ASSUME BaseInv, BaseInv', HouseHolds, NEW a \in Auctions, NEW s \in Solvers, NEW price \in Prices,
         submitCross(a, s, price)
  PROVE  HouseHolds'
<1>0. WellFormed /\ BookInv /\ WellFormed'
  BY DEF BaseInv
<1>1. PICK fill : Crosses(a, s, price, fill)
  BY SubmitStep
<1>2. bonds' = bonds + BOND
  BY <1>0, <1>1, SubmitPhase, BondTaken
<1>3. /\ ledger \in [Accounts -> [Tokens -> Int]] /\ House \in Accounts /\ s \in Accounts /\ s # House
      /\ Quote \in Tokens /\ BOND \in Int /\ ledger' = transfer(ledger, s, House, Quote, BOND)
  BY <1>0, Parties, Numbers DEF WellFormed, submitCross
<1>4. ledger'[House][Quote] = ledger[House][Quote] + BOND
  BY <1>3, TransferGets
<1>5. ASSUME NEW t \in Tokens, t # Quote PROVE ledger'[House][t] = ledger[House][t]
  BY <1>3, <1>5, TransferOther
<1>6. ledger[House][Quote] \in Int /\ bonds \in Int
  BY <1>3, BondsTypes
<1>7. ledger'[House][Quote] - ledger[House][Quote] = bonds' - bonds
  BY <1>2, <1>3, <1>4, <1>6
<1>8. QED  BY <1>0, <1>5, <1>7, SubmitClaims, HouseQuiet

LEMMA HouseChallenge ==
  ASSUME BaseInv, BaseInv', HouseHolds, NEW a \in Auctions, NEW c \in Challengers, NEW p \in Prices,
         challenge(a, c, p), QuietClaims
  PROVE  HouseHolds'
<1>0. WellFormed /\ BookInv /\ WellFormed'
  BY DEF BaseInv
<1>1. auctions[a].phase = "CROSSED" /\ auctions[a].solver \in Solvers
  BY DEF BaseInv, CrossInv, challenge, challengeable
<1>2. /\ \A t \in Tokens \ {Quote} : ledger'[House][t] = ledger[House][t]
      /\ auctions'[a].phase = "CROSSED" => ledger'[House][Quote] = ledger[House][Quote]
      /\ auctions'[a].phase # "CROSSED" => ledger'[House][Quote] = ledger[House][Quote] - BOND
  BY <1>0, <1>1, ChallengeLedger
<1>3. ledger[House][Quote] \in Int /\ bonds \in Int /\ BOND \in Int
  BY <1>0, Parties, Numbers, BondsTypes DEF WellFormed
<1>4. CASE auctions'[a].phase = "CROSSED"
  <2>1. auctions' = auctions
    BY <1>0, <1>4, ChallengePhase
  <2>2. bonds' = bonds
    BY <2>1, BondsKept
  <2>3. ledger'[House][Quote] - ledger[House][Quote] = bonds' - bonds
    BY <1>2, <1>3, <1>4, <2>2
  <2>4. QED  BY <1>0, <1>2, <2>3, HouseQuiet
<1>5. CASE auctions'[a].phase # "CROSSED"
  <2>1. \A d \in Auctions : d # a => auctions'[d] = auctions[d]
    BY <1>0, <1>1, <1>5, ChallengePhase
  <2>2. bonds' = bonds - BOND
    BY <1>1, <1>5, <2>1, BondReturned
  <2>3. ledger'[House][Quote] - ledger[House][Quote] = bonds' - bonds
    BY <1>2, <1>3, <1>5, <2>2
  <2>4. QED  BY <1>0, <1>2, <2>3, HouseQuiet
<1>6. QED  BY <1>4, <1>5

LEMMA HouseAbort ==
  ASSUME BaseInv, BaseInv', HouseHolds, NEW a \in Auctions, abortAuction(a), QuietClaims
  PROVE  HouseHolds'
<1>0. WellFormed /\ BookInv /\ WellFormed'
  BY DEF BaseInv
<1>1. auctions'[a].phase = "ABORTED" /\ \A c \in Auctions : c # a => auctions'[c] = auctions[c]
  BY <1>0, AbortPhase
<1>2. ledger[House][Quote] \in Int /\ bonds \in Int /\ BOND \in Int
  BY <1>0, Parties, Numbers, BondsTypes DEF WellFormed
<1>3. CASE auctions[a].phase = "CROSSED"
  <2>1. bonds' = bonds - BOND
    BY <1>1, <1>3, BondReturned
  <2> DEFINE s == auctions[a].solver
  <2>2. /\ ledger \in [Accounts -> [Tokens -> Int]] /\ House \in Accounts /\ s \in Accounts /\ s # House
        /\ Quote \in Tokens /\ ledger' = transfer(ledger, House, s, Quote, BOND)
    BY <1>0, <1>3, Parties, Numbers DEF WellFormed, abortAuction, BaseInv, CrossInv
  <2> HIDE DEF s
  <2>3. ledger'[House][Quote] = ledger[House][Quote] - BOND
    BY <1>2, <2>2, TransferPays
  <2>4. ASSUME NEW t \in Tokens, t # Quote PROVE ledger'[House][t] = ledger[House][t]
    BY <1>2, <2>2, <2>4, TransferOther
  <2>5. ledger'[House][Quote] - ledger[House][Quote] = bonds' - bonds
    BY <1>2, <2>1, <2>3
  <2>6. QED  BY <1>0, <2>4, <2>5, HouseQuiet
<1>4. CASE auctions[a].phase # "CROSSED"
  <2>1. bonds' = bonds
    BY <1>1, <1>4, BondsKept
  <2>2. ledger' = ledger
    BY <1>4 DEF abortAuction
  <2>3. ledger'[House][Quote] - ledger[House][Quote] = bonds' - bonds
    BY <1>2, <2>1, <2>2
  <2>4. QED  BY <1>0, <2>2, <2>3, HouseQuiet
<1>5. QED  BY <1>3, <1>4

\* The freeze owes what it takes in.
LEMMA HouseFreeze ==
  ASSUME BaseInv, BaseInv', HouseHolds, NEW a \in Auctions, freeze(a)
  PROVE  HouseHolds'
<1>0. WellFormed /\ BookInv /\ WellFormed'
  BY DEF BaseInv
<1>1. PICK pulled : Freezes(a, pulled)
  BY <1>0, FreezeStep
<1>2. pulled \in SUBSET Intents
  BY <1>0, <1>1, BookTypes DEF Freezes
<1>3. bonds' = bonds
  BY <1>0, FreezePhase, BondsKept
<1> SUFFICES ASSUME NEW t \in Tokens PROVE ledger'[House][t] = Owes(t)'
  BY DEF HouseHolds
<1> DEFINE more == [i \in Intents |-> IF i \in pulled THEN i.sellAmount ELSE 0]
<1>4. \A i \in Sells(t) : dues[i] \in Int /\ more[i] \in Int /\ dues'[i] = dues[i] + more[i]
  <2> SUFFICES ASSUME NEW i \in Sells(t)
               PROVE  dues[i] \in Int /\ more[i] \in Int /\ dues'[i] = dues[i] + more[i]
    OBVIOUS
  <2>1. i \in Intents
    BY DEF Sells
  <2>2. dues'[i] = dues[i] + (IF i \in pulled THEN i.sellAmount ELSE 0)
    BY <1>1, <2>1, FreezeClaims
  <2>3. QED  BY <2>1, <2>2, ClaimNat, IntentData
<1>5. SumFunctionOnSet(more, Sells(t)) = escrowOf(pulled, Owners, t)
  <2> DEFINE K == {i \in pulled : i.owner \in Owners /\ SellToken(i) = t}
             f == [i \in pulled |-> i.sellAmount]
  <2>1. K \subseteq Sells(t)
    BY <1>2 DEF Sells
  <2>2. \A i \in K : f[i] \in Int /\ more[i] = f[i]
    BY <1>2, IntentData
  <2>3. \A i \in Sells(t) : i \notin K => more[i] = 0
    BY IntentData DEF Sells
  <2> HIDE DEF K, f, more
  <2>4. SumFunctionOnSet(more, Sells(t)) = SumFunctionOnSet(f, K)
    BY <2>1, <2>2, <2>3, SellsFinite, SumRestrict
  <2>5. QED  BY <2>4 DEF escrowOf, K, f
<1> HIDE DEF more
<1>6. SumFunctionOnSet(dues', Sells(t)) = SumFunctionOnSet(dues, Sells(t)) + SumFunctionOnSet(more, Sells(t))
  BY <1>4, SellsFinite, SumPlus
<1>7. escrowOf(pulled, {House}, t) = 0
  <2>1. {i \in pulled : i.owner \in {House} /\ SellToken(i) = t} = {}
    BY <1>2, IntentData, Parties
  <2>2. QED  BY <2>1, SumEmpty DEF escrowOf
<1>8. ledger'[House][t] = ledger[House][t] - escrowOf(pulled, {House}, t) + escrowOf(pulled, Owners, t)
  BY <1>1, Parties DEF Freezes
<1>9. ledger[House][t] = Owes(t)
  BY DEF HouseHolds
<1>10. /\ ledger[House][t] \in Int /\ bonds \in Int /\ escrowOf(pulled, Owners, t) \in Int
       /\ SumFunctionOnSet(dues, Sells(t)) \in Int
  BY <1>0, <1>2, Parties, BondsTypes, EscrowNat, DuesNat DEF WellFormed
<1>11. QED  BY <1>3, <1>5, <1>6, <1>7, <1>8, <1>9, <1>10 DEF Owes

\* What a standing cross pays out is what its orders sold, and one bond: the
\* fills of each side and the dust add up to what the other side gave.
LEMMA CrossPays ==
  ASSUME BaseInv, StandsInv, NEW a \in Auctions, auctions[a].phase = "CROSSED", NEW t \in Tokens,
         NEW sold, sold = [i \in Intents |-> IF i \in Booked(a) THEN commitments[i].filledSell ELSE 0]
  PROVE  PaidOut(a, Accounts \ {House}, t) =
           SumFunctionOnSet(sold, Sells(t)) + (IF t = Quote THEN BOND ELSE 0)
<1>0. WellFormed /\ BookInv
  BY DEF BaseInv
<1> DEFINE A == Accounts \ {House}
           give == [i \in Booked(a) |-> commitments[i].filledSell]
           get == [i \in Booked(a) |-> commitments[i].filledBuy]
<1>1. \A i \in Booked(a) : /\ i \in Intents /\ i.token = AuctionToken[a]
                           /\ i.receiver \in A /\ i.buy \in BOOLEAN
                           /\ commitments[i].filledSell \in Nat /\ commitments[i].filledBuy \in Nat
  <2> SUFFICES ASSUME NEW i \in Booked(a)
               PROVE  /\ i \in Intents /\ i.token = AuctionToken[a]
                      /\ i.receiver \in A /\ i.buy \in BOOLEAN
                      /\ commitments[i].filledSell \in Nat /\ commitments[i].filledBuy \in Nat
    OBVIOUS
  <2>1. i \in Intents /\ commitments[i] # NoCommitment
    BY <1>0, BookedCommitted
  <2>2. i.token = AuctionToken[a]
    BY <1>0 DEF BookInv
  <2>3. QED  BY <2>1, <2>2, ClaimFields, IntentData, Parties
<1>2. AuctionToken[a] \in Tokens /\ AuctionToken[a] # Quote
  BY AuctionData
<1>3. Treasury \in A /\ auctions[a].solver \in A
  BY Parties DEF BaseInv, CrossInv
<1>4. SumFunctionOnSet(sold, Sells(t)) = SumFunctionOnSet(give, {i \in Booked(a) : SellToken(i) = t})
  <2> DEFINE K == {i \in Booked(a) : SellToken(i) = t}
  <2>1. K \subseteq Sells(t)
    BY <1>1 DEF Sells
  <2>2. \A i \in K : give[i] \in Int /\ sold[i] = give[i]
    BY <1>1
  <2>3. \A i \in Sells(t) : i \notin K => sold[i] = 0
    BY DEF Sells
  <2> HIDE DEF K, give
  <2>4. QED  BY <2>1, <2>2, <2>3, SellsFinite, SumRestrict DEF K
<1>5. Received(a, A, t) = SumFunctionOnSet(get, {i \in Booked(a) : BuyToken(i) = t})
  <2>1. {i \in Booked(a) : i.receiver \in A /\ BuyToken(i) = t} = {i \in Booked(a) : BuyToken(i) = t}
    BY <1>1
  <2>2. QED  BY <2>1 DEF Received
<1>6. FiguresOk(a)
  BY DEF StandsInv
<1>7. PaidOut(a, A, t) =
        Received(a, A, t) + (IF t = AuctionToken[a] THEN auctions[a].tokenDust ELSE 0)
        + (IF t = Quote THEN auctions[a].quoteDust ELSE 0) + (IF t = Quote THEN BOND ELSE 0)
  BY <1>3 DEF PaidOut
<1>8. Received(a, A, t) \in Nat /\ auctions[a].tokenDust \in Nat /\ auctions[a].quoteDust \in Nat
      /\ BOND \in Nat
  BY <1>0, ReceivedNat, BookedCommitted, Numbers DEF WellFormed, AuctionRecords
<1>9. CASE t = AuctionToken[a]
  <2>1. {i \in Booked(a) : BuyToken(i) = t} = {i \in Booked(a) : i.buy = TRUE}
    BY <1>1, <1>2, <1>9 DEF BuyToken
  <2>2. {i \in Booked(a) : SellToken(i) = t} = {i \in Booked(a) : i.buy = FALSE}
    BY <1>1, <1>2, <1>9 DEF SellToken
  <2>3. Received(a, A, t) = GotBy(a, TRUE)
    BY <1>5, <2>1 DEF GotBy
  <2>4. SumFunctionOnSet(sold, Sells(t)) = SoldBy(a, FALSE)
    BY <1>4, <2>2 DEF SoldBy
  <2>5. SoldBy(a, FALSE) = GotBy(a, TRUE) + auctions[a].tokenDust
    BY <1>6 DEF FiguresOk
  <2> DEFINE g == GotBy(a, TRUE)
             d == auctions[a].tokenDust
  <2>6. PaidOut(a, A, t) = g + d + 0 + 0
    BY <1>2, <1>7, <1>9, <2>3
  <2>7. SumFunctionOnSet(sold, Sells(t)) = g + d /\ g \in Nat /\ d \in Nat
    BY <1>8, <2>3, <2>4, <2>5
  <2> HIDE DEF g, d
  <2>8. QED  BY <1>2, <1>9, <2>6, <2>7
<1>10. CASE t = Quote
  <2>1. {i \in Booked(a) : BuyToken(i) = t} = {i \in Booked(a) : i.buy = FALSE}
    BY <1>1, <1>2, <1>10 DEF BuyToken
  <2>2. {i \in Booked(a) : SellToken(i) = t} = {i \in Booked(a) : i.buy = TRUE}
    BY <1>1, <1>2, <1>10 DEF SellToken
  <2>3. Received(a, A, t) = GotBy(a, FALSE)
    BY <1>5, <2>1 DEF GotBy
  <2>4. SumFunctionOnSet(sold, Sells(t)) = SoldBy(a, TRUE)
    BY <1>4, <2>2 DEF SoldBy
  <2>5. SoldBy(a, TRUE) = GotBy(a, FALSE) + auctions[a].quoteDust
    BY <1>6 DEF FiguresOk
  <2> DEFINE g == GotBy(a, FALSE)
             d == auctions[a].quoteDust
  <2>6. PaidOut(a, A, t) = g + 0 + d + BOND
    BY <1>2, <1>7, <1>10, <2>3
  <2>7. SumFunctionOnSet(sold, Sells(t)) = g + d /\ g \in Nat /\ d \in Nat
    BY <1>8, <2>3, <2>4, <2>5
  <2> HIDE DEF g, d
  <2>8. QED  BY <1>8, <1>10, <2>6, <2>7
<1>11. CASE t # AuctionToken[a] /\ t # Quote
  <2>1. {i \in Booked(a) : BuyToken(i) = t} = {} /\ {i \in Booked(a) : SellToken(i) = t} = {}
    BY <1>1, <1>11 DEF BuyToken, SellToken
  <2>2. Received(a, A, t) = 0 /\ SumFunctionOnSet(sold, Sells(t)) = 0
    BY <1>4, <1>5, <2>1, SumEmpty
  <2>3. QED  BY <1>7, <1>11, <2>2
<1>12. QED  BY <1>9, <1>10, <1>11

LEMMA HouseExecute ==
  ASSUME BaseInv, StandsInv, HouseHolds, NEW a \in Auctions, executeCross(a)
  PROVE  HouseHolds'
<1>0. WellFormed /\ BookInv
  BY DEF BaseInv
<1>1. /\ auctions[a].phase = "CROSSED" /\ auctions'[a].phase = "EXECUTED"
      /\ \A c \in Auctions : c # a => auctions'[c] = auctions[c]
  BY <1>0, ExecutePhase
<1>2. bonds' = bonds - BOND
  BY <1>1, BondReturned
<1> SUFFICES ASSUME NEW t \in Tokens PROVE ledger'[House][t] = Owes(t)'
  BY DEF HouseHolds
<1> DEFINE sold == [i \in Intents |-> IF i \in Booked(a) THEN commitments[i].filledSell ELSE 0]
<1>3. \A i \in Sells(t) : dues'[i] \in Int /\ sold[i] \in Int /\ dues[i] = dues'[i] + sold[i]
  <2> SUFFICES ASSUME NEW i \in Sells(t)
               PROVE  dues'[i] \in Int /\ sold[i] \in Int /\ dues[i] = dues'[i] + sold[i]
    OBVIOUS
  <2>1. i \in Intents
    BY DEF Sells
  <2>2. sold[i] \in Nat
    BY <1>0, <2>1, BookedCommitted, ClaimFields
  <2>3. dues'[i] = dues[i] - (IF i \in Booked(a) THEN commitments[i].filledSell ELSE 0)
    BY <2>1, ExecuteClaims
  <2>4. dues'[i] = dues[i] - sold[i]
    BY <2>1, <2>3
  <2>5. QED  BY <2>1, <2>2, <2>4, ClaimNat
<1>4. PaidOut(a, Accounts \ {House}, t) =
        SumFunctionOnSet(sold, Sells(t)) + (IF t = Quote THEN BOND ELSE 0)
  BY <1>1, CrossPays
<1> HIDE DEF sold
<1>5. SumFunctionOnSet(dues, Sells(t)) = SumFunctionOnSet(dues', Sells(t)) + SumFunctionOnSet(sold, Sells(t))
  BY <1>3, SellsFinite, SumPlus
<1>6. ledger'[House][t] = ledger[House][t] - PaidOut(a, Accounts \ {House}, t)
  BY <1>0, BookedCommitted, ExecuteLedger
<1>7. ledger[House][t] = Owes(t)
  BY DEF HouseHolds
<1>8. SumFunctionOnSet(dues', Sells(t)) \in Int /\ SumFunctionOnSet(sold, Sells(t)) \in Int
  BY <1>3, SellsFinite, SumInt
<1>9. bonds \in Int /\ BOND \in Int
  BY BondsTypes, Numbers
<1>10. QED  BY <1>2, <1>4, <1>5, <1>6, <1>7, <1>8, <1>9 DEF Owes

LEMMA HouseRefund ==
  ASSUME BaseInv, HouseHolds, NEW i \in Intents, refundEscrow(i)
  PROVE  HouseHolds'
<1>0. WellFormed
  BY DEF BaseInv
<1>1. bonds' = bonds
  <2>1. auctions' = auctions
    BY DEF refundEscrow
  <2>2. QED  BY <2>1, BondsKept
<1> SUFFICES ASSUME NEW t \in Tokens PROVE ledger'[House][t] = Owes(t)'
  BY DEF HouseHolds
<1> DEFINE n == i.sellAmount - commitments[i].filledSell
<1>2. /\ n \in Nat /\ dues[i] = n /\ dues'[i] = 0
      /\ \A j \in Intents : j # i => dues'[j] = dues[j]
  BY RefundClaims
<1>3. /\ ledger \in [Accounts -> [Tokens -> Int]] /\ House \in Accounts /\ i.owner \in Accounts
      /\ i.owner # House /\ SellToken(i) \in Tokens
      /\ ledger' = transfer(ledger, House, i.owner, SellToken(i), n)
  BY <1>0, Parties, IntentData DEF WellFormed, refundEscrow
<1> HIDE DEF n
<1>4. ledger[House][t] = Owes(t)
  BY DEF HouseHolds
<1>5. SumFunctionOnSet(dues, Sells(t)) \in Int /\ bonds \in Int /\ ledger[House][t] \in Int
  BY <1>3, DuesNat, BondsTypes
<1>6. CASE t = SellToken(i)
  <2>1. ledger'[House][t] = ledger[House][t] - n
    BY <1>2, <1>3, <1>6, TransferPays
  <2>2. i \in Sells(t) /\ Sells(t) \subseteq Intents
    BY <1>6 DEF Sells
  <2>3. \A j \in Sells(t) : dues[j] \in Int /\ dues'[j] \in Int
    BY <1>2, <2>2, ClaimNat
  <2>4. SumFunctionOnSet(dues', Sells(t)) = SumFunctionOnSet(dues, Sells(t)) - dues[i] + dues'[i]
    BY <1>2, <2>2, <2>3, SellsFinite, SumUpdate
  <2>5. QED  BY <1>1, <1>2, <1>4, <1>5, <2>1, <2>4 DEF Owes
<1>7. CASE t # SellToken(i)
  <2>1. ledger'[House][t] = ledger[House][t]
    BY <1>2, <1>3, <1>7, TransferOther
  <2>2. \A j \in Sells(t) : dues'[j] = dues[j]
    BY <1>2, <1>7 DEF Sells
  <2>3. SumFunctionOnSet(dues', Sells(t)) = SumFunctionOnSet(dues, Sells(t))
    BY <2>2, SellsFinite, SumSame
  <2>4. QED  BY <1>1, <1>4, <2>1, <2>3 DEF Owes
<1>8. QED  BY <1>6, <1>7

LEMMA HouseStill ==
  ASSUME BaseInv, WellFormed', HouseHolds, QuietClaims,
         \A t \in Tokens : ledger'[House][t] = ledger[House][t],
         \A c \in Auctions : auctions'[c].phase = "CROSSED" <=> auctions[c].phase = "CROSSED"
  PROVE  HouseHolds'
<1>1. bonds' = bonds
  BY BondsKept
<1>2. ledger[House][Quote] \in Int /\ bonds \in Int
  BY Parties, Numbers, BondsTypes DEF BaseInv, WellFormed
<1>3. ledger'[House][Quote] - ledger[House][Quote] = bonds' - bonds
  BY <1>1, <1>2, Numbers
<1>4. QED  BY <1>3, HouseQuiet

\* The world around the house moves nothing of the house's.
LEMMA WorldFunds ==
  ASSUME WellFormed,
         \/ OwnerStep \/ MarketStep
         \/ pause \/ Tick \/ (\E t \in Tokens \ {Quote} : setAuctionTokenAllowed(t)) \/ UNCHANGED vars
  PROVE  \/ UNCHANGED <<ledger, movedOut>>
         \/ \E o \in Owners, t \in Tokens :
              /\ ledger' = [ledger EXCEPT ![o][t] = 0]
              /\ movedOut' = [movedOut EXCEPT ![o][t] = @ + ledger[o][t]]
<1>1. CASE OwnerStep
  BY <1>1 DEF OwnerStep, moveFunds, setApproval, invalidateNonce
<1>2. CASE MarketStep
  BY <1>2 DEF MarketStep, fundVars
<1>3. QED
  BY <1>1, <1>2 DEF pause, Tick, setAuctionTokenAllowed, vars, fundVars

LEMMA HouseStep ==
  ASSUME BaseInv, StandsInv, HouseHolds, [Next]_vars
  PROVE  HouseHolds'
<1>0. WellFormed /\ BookInv /\ BaseInv' /\ WellFormed'
  BY BaseStep DEF BaseInv
<1>1. CASE \E a \in Auctions : freeze(a) \/ executeCross(a)
  BY <1>0, <1>1, HouseFreeze, HouseExecute
<1>2. CASE \E i \in Intents : refundEscrow(i)
  BY <1>2, HouseRefund
<1> SUFFICES ASSUME \A a \in Auctions : ~freeze(a) /\ ~executeCross(a),
                    \A i \in Intents : ~refundEscrow(i)
             PROVE  HouseHolds'
  BY <1>1, <1>2
<1>3. QuietClaims
  BY QuietSteps
<1>4. ASSUME NEW i \in Intents, commitAuctionIntent(i) \/ cancelBeforeFreeze(i) PROVE HouseHolds'
  <2>1. ledger' = ledger /\ auctions' = auctions
    BY <1>4 DEF commitAuctionIntent, cancelBeforeFreeze, fundVars
  <2>2. QED  BY <1>0, <1>3, <2>1, HouseStill
<1>5. ASSUME NEW a \in Auctions, openAuction(a) PROVE HouseHolds'
  <2>1. /\ ledger' = ledger /\ auctions[a].phase = "NONE"
        /\ auctions' = [auctions EXCEPT ![a].phase = "DISCLOSURE"]
    BY <1>5 DEF openAuction, fundVars
  <2>2. auctions[a] \in AuctionRecords /\ auctions'[a] = [auctions[a] EXCEPT !.phase = "DISCLOSURE"]
    BY <1>0, <2>1 DEF WellFormed
  <2>3. auctions'[a].phase = "DISCLOSURE"
    BY <2>2 DEF AuctionRecords
  <2>4. \A c \in Auctions : c # a => auctions'[c] = auctions[c]
    BY <1>0, <2>1 DEF WellFormed
  <2>5. \A c \in Auctions : auctions'[c].phase = "CROSSED" <=> auctions[c].phase = "CROSSED"
    BY <2>1, <2>3, <2>4
  <2>6. QED  BY <1>0, <1>3, <2>1, <2>5, HouseStill
<1>6. ASSUME NEW a \in Auctions, extend(a) PROVE HouseHolds'
  <2>1. /\ ledger' = ledger /\ auctions[a].phase = "FROZEN" /\ referenceReturns(a)
        /\ auctions' = [auctions EXCEPT ![a] = [resolved(a) EXCEPT !.extensions = @ + 1,
                                                                  !.collarBps = @ + COLLAR_STEP]]
    BY <1>6 DEF extend, fundVars
  <2>2. resolved(a) \in AuctionRecords /\ resolved(a).phase = auctions[a].phase
    BY <1>0, <2>1, ResolvedTypes
  <2>3. auctions'[a] = [resolved(a) EXCEPT !.extensions = @ + 1, !.collarBps = @ + COLLAR_STEP]
    BY <1>0, <2>1 DEF WellFormed
  <2>4. auctions'[a].phase = "FROZEN"
    BY <2>1, <2>2, <2>3 DEF AuctionRecords
  <2>5. \A c \in Auctions : c # a => auctions'[c] = auctions[c]
    BY <1>0, <2>1 DEF WellFormed
  <2>6. \A c \in Auctions : auctions'[c].phase = "CROSSED" <=> auctions[c].phase = "CROSSED"
    BY <2>1, <2>4, <2>5
  <2>7. QED  BY <1>0, <1>3, <2>1, <2>6, HouseStill
<1>7. ASSUME \/ OwnerStep \/ MarketStep
             \/ pause \/ Tick \/ (\E t \in Tokens \ {Quote} : setAuctionTokenAllowed(t))
             \/ UNCHANGED vars
      PROVE  HouseHolds'
  <2>1. auctions' = auctions
    BY <1>7, WorldStep
  <2>2. \A t \in Tokens : ledger'[House][t] = ledger[House][t]
    <3>1. ASSUME NEW o \in Owners, NEW t \in Tokens, ledger' = [ledger EXCEPT ![o][t] = 0]
          PROVE  ledger'[House] = ledger[House]
      <4>1. o # House
        BY Parties
      <4>2. QED  BY <1>0, <3>1, <4>1, Parties DEF WellFormed
    <3>2. QED  BY <1>0, <1>7, <3>1, WorldFunds
  <2>3. QED  BY <1>0, <1>3, <2>1, <2>2, HouseStill
<1>8. QED
  BY <1>0, <1>3, <1>4, <1>5, <1>6, <1>7, HouseSubmit, HouseChallenge, HouseAbort, StepCases

LEMMA HouseInit == Init => HouseHolds
<1> SUFFICES ASSUME Init, NEW t \in Tokens PROVE ledger[House][t] = Owes(t)
  BY DEF HouseHolds
<1>1. ledger[House][t] = 0
  BY Parties, AuctionAssumption DEF Init
<1>2. \A i \in Sells(t) : dues[i] = 0
  BY DEF Init, dues, Escrowed, Sells
<1>3. SumFunctionOnSet(dues, Sells(t)) = 0
  BY <1>2, SellsFinite, SumZero
<1>4. crossedNow = {}
  BY DEF Init, crossedNow, NewAuction
<1>5. bonds = BOND * 0
  BY <1>4, FS_EmptySet DEF bonds
<1>6. bonds = 0
  BY <1>5, Numbers
<1>7. QED  BY <1>1, <1>3, <1>6 DEF Owes

LEMMA HouseAlways == Spec => [](BaseInv /\ StandsInv /\ HouseHolds)
<1>1. Init => HouseHolds
  BY HouseInit
<1>2. BaseInv /\ StandsInv /\ HouseHolds /\ [Next]_vars => HouseHolds'
  BY HouseStep
<1>3. QED  BY <1>1, <1>2, StandsAlways, PTL DEF Spec

\* The house holds exactly the escrows it has not given back, less what the
\* executed crosses paid out of them, and one bond per standing cross, over all
\* its auctions together (freeze, submitCross, challenge, executeCross,
\* abortAuction, refundEscrow).
THEOREM HouseHoldsWhatItOwes == Spec => []HouseSolvent
<1>1. BaseInv /\ StandsInv /\ HouseHolds => HouseSolvent
  BY HouseForms
<1>2. QED  BY <1>1, HouseAlways, PTL

----------------------------------------------------------------------------
(* Nobody is asked for more than they have.                                *)

Covered == \A c \in Accounts \ {House}, t \in Tokens : ledger[c][t] >= 0

LEMMA TransferOthers ==
  ASSUME NEW l \in [Accounts -> [Tokens -> Int]], NEW from \in Accounts, NEW to \in Accounts,
         from # to, NEW t \in Tokens, NEW n \in Nat, NEW d \in Accounts, d # from, NEW u \in Tokens
  PROVE  transfer(l, from, to, t, n)[d][u] >= l[d][u]
<1>1. n \in Int /\ l[d][u] \in Int
  OBVIOUS
<1>2. CASE d = to /\ u = t
  <2>1. transfer(l, from, to, t, n)[to][t] = l[to][t] + n
    BY <1>1, TransferGets
  <2>2. QED  BY <1>1, <1>2, <2>1
<1>3. CASE d # to \/ u # t
  <2>1. transfer(l, from, to, t, n)[d][u] = l[d][u]
    BY <1>1, <1>3, TransferOther
  <2>2. QED  BY <1>1, <2>1
<1>4. QED  BY <1>2, <1>3

\* A transfer its payer can cover leaves nobody short.
LEMMA TransferCovered ==
  ASSUME NEW l \in [Accounts -> [Tokens -> Int]], NEW from \in Accounts, NEW to \in Accounts,
         from # to, NEW t \in Tokens, NEW n \in Nat, from # House => l[from][t] >= n,
         NEW d \in Accounts, d # House, NEW u \in Tokens, l[d][u] >= 0
  PROVE  transfer(l, from, to, t, n)[d][u] >= 0
<1>1. n \in Int /\ l[d][u] \in Int
  OBVIOUS
<1>2. CASE d # from
  <2>1. transfer(l, from, to, t, n)[d][u] >= l[d][u]
    BY <1>2, TransferOthers
  <2> DEFINE m == transfer(l, from, to, t, n)
  <2>2. m \in [Accounts -> [Tokens -> Int]]
    BY <1>1, TransferTypes
  <2>3. m[d][u] >= l[d][u]
    BY <2>1
  <2> HIDE DEF m
  <2>4. m[d][u] \in Int
    BY <2>2
  <2>5. m[d][u] >= 0
    BY <1>1, <2>3, <2>4
  <2>6. QED  BY <2>5 DEF m
<1>3. CASE d = from /\ u = t
  <2>1. transfer(l, from, to, t, n)[from][t] = l[from][t] - n
    BY <1>1, TransferPays
  <2>2. QED  BY <1>1, <1>3, <2>1
<1>4. CASE d = from /\ u # t
  <2>1. transfer(l, from, to, t, n)[d][u] = l[d][u]
    BY <1>1, <1>4, TransferOther
  <2>2. QED  BY <2>1
<1>5. QED  BY <1>2, <1>3, <1>4

LEMMA SplitCovered ==
  ASSUME NEW l \in [Accounts -> [Tokens -> Int]], NEW w \in Accounts, w # House, NEW n \in Nat,
         NEW d \in Accounts, d # House, NEW u \in Tokens, l[d][u] >= 0
  PROVE  splitBond(l, w, n)[d][u] >= 0
<1>1. House \in Accounts /\ Treasury \in Accounts /\ House # Treasury /\ Quote \in Tokens /\ n \in Int
  BY Parties, Numbers
<1> DEFINE m == transfer(l, House, w, Quote, n)
           k == BOND - reward
<1>2. m \in [Accounts -> [Tokens -> Int]]
  BY <1>1, TransferTypes
<1>3. m[d][u] >= 0
  BY <1>1, TransferCovered
<1>4. k \in Nat
  BY Numbers, RewardShare
<1> HIDE DEF m, k
<1>5. transfer(m, House, Treasury, Quote, k)[d][u] >= 0
  BY <1>1, <1>2, <1>3, <1>4, TransferCovered
<1>6. QED  BY <1>5 DEF splitBond, m, k

LEMMA ChallengeCovered ==
  ASSUME BaseInv, Covered, NEW a \in Auctions, NEW c \in Challengers, NEW p \in Prices, challenge(a, c, p)
  PROVE  Covered'
<1> SUFFICES ASSUME NEW d \in Accounts \ {House}, NEW u \in Tokens PROVE ledger'[d][u] >= 0
  BY DEF Covered
<1> DEFINE taken == transfer(ledger, c, House, Quote, BOND)
           s == auctions[a].solver
<1>1. /\ House \in Accounts /\ Quote \in Tokens /\ ledger \in [Accounts -> [Tokens -> Int]]
      /\ c \in Accounts /\ c # House /\ s \in Accounts /\ s # House
      /\ ledger[c][Quote] >= BOND /\ ledger[d][u] >= 0 /\ BOND \in Nat /\ BOND \in Int
  <2>1. /\ House \in Accounts /\ Quote \in Tokens /\ ledger \in [Accounts -> [Tokens -> Int]]
        /\ BOND \in Nat /\ BOND \in Int
    BY Parties, Numbers DEF BaseInv, WellFormed
  <2>2. c \in Accounts /\ c # House
    BY Parties
  <2>3. auctions[a].phase = "CROSSED" /\ ledger[c][Quote] >= BOND
    BY DEF challenge, challengeable, canPay
  <2>4. s \in Accounts /\ s # House
    BY <2>3, Parties DEF BaseInv, CrossInv
  <2>5. ledger[d][u] >= 0
    BY DEF Covered
  <2>6. QED  BY <2>1, <2>2, <2>3, <2>4, <2>5
<1>2. reward \in Nat /\ BOND + reward \in Nat
  BY <1>1, RewardShare
<1>3. ledger' = splitBond(taken, s, reward) \/ ledger' = splitBond(taken, c, BOND + reward)
  BY DEF challenge, seizeBond, payBond, splitBond
<1>4. taken \in [Accounts -> [Tokens -> Int]]
  BY <1>1, TransferTypes
<1>5. taken[d][u] >= 0
  BY <1>1, TransferCovered
<1> HIDE DEF taken, s
<1>6. QED  BY <1>1, <1>2, <1>3, <1>4, <1>5, SplitCovered

----------------------------------------------------------------------------
(* The freeze: the escrows one owner gives out of one balance.             *)

LEMMA FreezePulls ==
  ASSUME WellFormed, BookInv, NEW a \in Auctions, NEW P \in SUBSET DOMAIN books[a], obtained(a, P),
         NEW c \in Accounts, NEW t \in Tokens, ledger[c][t] >= 0
  PROVE  escrowOf({books[a][k] : k \in P}, {c}, t) <= ledger[c][t]
<1> DEFINE f == [j \in P |-> books[a][j].sellAmount]
           K == {k \in P : books[a][k].owner = c /\ SellToken(books[a][k]) = t}
           pulled == {books[a][k] : k \in P}
           g == [i \in pulled |-> i.sellAmount]
           m == [k \in K |-> books[a][k]]
           L == {i \in pulled : i.owner \in {c} /\ SellToken(i) = t}
<1>1. /\ \A k \in P : books[a][k] \in Intents /\ k \in Nat /\ books[a][k].sellAmount \in Nat
      /\ IsFiniteSet(K)
  <2>1. /\ \A k \in DOMAIN books[a] : books[a][k] \in Intents
        /\ DOMAIN books[a] = 1..Len(books[a]) /\ Len(books[a]) \in Nat
        /\ IsFiniteSet(DOMAIN books[a])
    BY BookTypes
  <2>2. \A k \in P : books[a][k].sellAmount \in Nat
    BY <2>1, IntentData
  <2>3. IsFiniteSet(K)
    BY <2>1, FS_Subset
  <2>4. QED  BY <2>1, <2>2, <2>3
<1>2. escrowOf(pulled, {c}, t) = SumFunctionOnSet(f, K)
  <2>1. L = {m[k] : k \in K}
    OBVIOUS
  <2>2. \A j, k \in K : m[j] = m[k] => j = k
    BY DEF BookInv
  <2>3. \A k \in K : f[k] \in Int /\ g[m[k]] = f[k]
    BY <1>1
  <2>4. escrowOf(pulled, {c}, t) = SumFunctionOnSet(g, L)
    BY DEF escrowOf
  <2> HIDE DEF f, g, m, K, L, pulled
  <2>5. SumFunctionOnSet(g, {m[k] : k \in K}) = SumFunctionOnSet(f, K)
    BY <1>1, <2>2, <2>3, SumRename
  <2>6. QED  BY <2>1, <2>4, <2>5
<1>3. ledger[c][t] \in Int
  BY DEF WellFormed
<1>4. CASE K = {}
  <2>1. SumFunctionOnSet(f, K) = 0
    <3> HIDE DEF f, K
    <3>1. QED  BY <1>4, SumEmpty
  <2>2. QED  BY <1>2, <1>3, <2>1
<1>5. CASE K # {}
  <2>1. PICK k \in K : \A j \in K : j <= k
    <3>1. \A k \in K : k \in Nat
      BY <1>1
    <3> HIDE DEF K
    <3>2. QED  BY <1>1, <1>5, <3>1, LastPosition
  <2>2. k \in P /\ k \in DOMAIN books[a] /\ books[a][k].owner = c /\ SellToken(books[a][k]) = t
    OBVIOUS
  <2> DEFINE Q == {j \in P : j < k}
             e == [j \in Q |-> books[a][j].sellAmount]
             W == {j \in Q : books[a][j].owner = c /\ SellToken(books[a][j]) = t}
  <2>3. permitTransfers(a, k, Q)
    BY <2>2 DEF obtained
  <2>4. SumFunctionOnSet(e, W) + books[a][k].sellAmount <= ledger[c][t]
    BY <2>2, <2>3 DEF permitTransfers
  <2>5. W = K \ {k}
    BY <1>1, <2>1
  <2>6. SumFunctionOnSet(f, K) = f[k] + SumFunctionOnSet(f, K \ {k})
    <3>1. \A j \in K : f[j] \in Int
      BY <1>1
    <3> HIDE DEF f, K
    <3>2. QED  BY <1>1, <2>1, <3>1, SumRemove
  <2>7. SumFunctionOnSet(e, W) = SumFunctionOnSet(f, W)
    <3>1. IsFiniteSet(W)
      BY <1>1, <2>5, FS_Subset
    <3>2. \A j \in W : e[j] = f[j]
      OBVIOUS
    <3> HIDE DEF e, f, W
    <3>3. QED  BY <3>1, <3>2, SumSame
  <2>8. SumFunctionOnSet(e, W) \in Int
    <3>1. IsFiniteSet(W)
      BY <1>1, <2>5, FS_Subset
    <3>2. \A j \in W : e[j] \in Int
      BY <1>1
    <3> HIDE DEF e, W
    <3>3. QED  BY <3>1, <3>2, SumInt
  <2>9. f[k] = books[a][k].sellAmount /\ books[a][k].sellAmount \in Nat
    BY <1>1
  <2> HIDE DEF f, K, e, W
  <2>10. QED  BY <1>2, <1>3, <2>4, <2>5, <2>6, <2>7, <2>8, <2>9
<1>6. QED  BY <1>4, <1>5

LEMMA FreezeCovered ==
  ASSUME BaseInv, Covered, NEW a \in Auctions, freeze(a)
  PROVE  Covered'
<1>0. WellFormed /\ BookInv
  BY DEF BaseInv
<1>1. PICK P \in SUBSET DOMAIN books[a] :
        /\ obtained(a, P)
        /\ ledger' = [c \in Accounts |-> [t \in Tokens |->
             ledger[c][t] - escrowOf({books[a][k] : k \in P}, {c}, t)
             + (IF c = House THEN escrowOf({books[a][k] : k \in P}, Owners, t) ELSE 0)]]
  BY DEF freeze
<1> SUFFICES ASSUME NEW c \in Accounts \ {House}, NEW t \in Tokens PROVE ledger'[c][t] >= 0
  BY DEF Covered
<1> DEFINE pulled == {books[a][k] : k \in P}
<1>2. pulled \in SUBSET Intents
  BY <1>0, BookTypes
<1>3. ledger[c][t] >= 0 /\ ledger[c][t] \in Int
  BY <1>0 DEF Covered, WellFormed
<1>4. escrowOf(pulled, {c}, t) <= ledger[c][t]
  BY <1>0, <1>1, <1>3, FreezePulls
<1>5. ledger'[c][t] = ledger[c][t] - escrowOf(pulled, {c}, t) + 0
  BY <1>1
<1> HIDE DEF pulled
<1>6. escrowOf(pulled, {c}, t) \in Nat
  BY <1>2, EscrowNat
<1>7. QED  BY <1>3, <1>4, <1>5, <1>6

LEMMA CoveredStep ==
  ASSUME BaseInv, Covered, [Next]_vars
  PROVE  Covered'
<1>0. /\ WellFormed /\ BookInv /\ ledger \in [Accounts -> [Tokens -> Int]]
      /\ House \in Accounts /\ Quote \in Tokens /\ BOND \in Nat
  BY Parties, Numbers DEF BaseInv, WellFormed
<1>1. ASSUME ledger' = ledger PROVE Covered'
  BY <1>1 DEF Covered
<1>2. ASSUME NEW from \in Accounts, NEW to \in Accounts, from # to, NEW t \in Tokens, NEW n \in Nat,
             from # House => ledger[from][t] >= n, ledger' = transfer(ledger, from, to, t, n)
      PROVE  Covered'
  <2> SUFFICES ASSUME NEW d \in Accounts \ {House}, NEW u \in Tokens PROVE ledger'[d][u] >= 0
    BY DEF Covered
  <2>1. ledger[d][u] >= 0 /\ d \in Accounts /\ d # House
    BY DEF Covered
  <2>2. QED  BY <1>0, <1>2, <2>1, TransferCovered
<1>3. ASSUME NEW i \in Intents, commitAuctionIntent(i) \/ cancelBeforeFreeze(i) PROVE Covered'
  BY <1>1, <1>3 DEF commitAuctionIntent, cancelBeforeFreeze, fundVars
<1>4. ASSUME NEW i \in Intents, refundEscrow(i) PROVE Covered'
  <2> DEFINE n == i.sellAmount - commitments[i].filledSell
  <2>1. n \in Nat /\ i.owner \in Accounts /\ i.owner # House /\ SellToken(i) \in Tokens
    BY <1>4, RefundClaims, Parties, IntentData
  <2>2. ledger' = transfer(ledger, House, i.owner, SellToken(i), n)
    BY <1>4 DEF refundEscrow
  <2> HIDE DEF n
  <2>3. QED  BY <1>0, <1>2, <2>1, <2>2
<1>5. ASSUME NEW a \in Auctions, openAuction(a) \/ extend(a) PROVE Covered'
  BY <1>1, <1>5 DEF openAuction, extend, fundVars
<1>6. ASSUME NEW a \in Auctions, executeCross(a) PROVE Covered'
  <2> SUFFICES ASSUME NEW c \in Accounts \ {House}, NEW t \in Tokens PROVE ledger'[c][t] >= 0
    BY DEF Covered
  <2>1. ledger'[c][t] = ledger[c][t] + PaidOut(a, {c}, t)
    BY <1>0, <1>6, ExecuteLedger, BookedCommitted
  <2>2. PaidOut(a, {c}, t) \in Nat
    BY <1>0, PaidOutNat, BookedCommitted
  <2>3. ledger[c][t] >= 0 /\ ledger[c][t] \in Int
    BY <1>0 DEF Covered
  <2>4. QED  BY <2>1, <2>2, <2>3
<1>7. ASSUME NEW a \in Auctions, abortAuction(a) PROVE Covered'
  <2>1. CASE auctions[a].phase = "CROSSED"
    <3>1. auctions[a].solver \in Accounts /\ auctions[a].solver # House
      BY <2>1, Parties DEF BaseInv, CrossInv
    <3>2. ledger' = transfer(ledger, House, auctions[a].solver, Quote, BOND)
      BY <1>7, <2>1 DEF abortAuction
    <3>3. QED  BY <1>0, <1>2, <3>1, <3>2
  <2>2. CASE auctions[a].phase # "CROSSED"
    BY <1>1, <1>7, <2>2 DEF abortAuction
  <2>3. QED  BY <2>1, <2>2
<1>8. ASSUME NEW a \in Auctions, NEW s \in Solvers, NEW p \in Prices, submitCross(a, s, p)
      PROVE  Covered'
  <2>1. s \in Accounts /\ s # House
    BY Parties
  <2>2. ledger' = transfer(ledger, s, House, Quote, BOND) /\ ledger[s][Quote] >= BOND
    BY <1>8 DEF submitCross, canPay
  <2>3. QED  BY <1>0, <1>2, <2>1, <2>2
<1>9. ASSUME \/ OwnerStep \/ MarketStep
             \/ pause \/ Tick \/ (\E t \in Tokens \ {Quote} : setAuctionTokenAllowed(t))
             \/ UNCHANGED vars
      PROVE  Covered'
  <2>1. ASSUME NEW o \in Owners, NEW t \in Tokens, ledger' = [ledger EXCEPT ![o][t] = 0]
        PROVE  Covered'
    <3> SUFFICES ASSUME NEW d \in Accounts \ {House}, NEW u \in Tokens PROVE ledger'[d][u] >= 0
      BY DEF Covered
    <3>1. ledger[d][u] >= 0 /\ o \in Accounts
      BY Parties DEF Covered
    <3>2. ledger'[d][u] = IF d = o /\ u = t THEN 0 ELSE ledger[d][u]
      BY <1>0, <2>1, <3>1
    <3>3. QED  BY <3>1, <3>2
  <2>2. QED  BY <1>0, <1>1, <1>9, <2>1, WorldFunds
<1>10. QED
  BY <1>3, <1>4, <1>5, <1>6, <1>7, <1>8, <1>9, FreezeCovered, ChallengeCovered, StepCases

LEMMA CoveredInit == Init => Covered
<1> SUFFICES ASSUME Init, NEW c \in Accounts \ {House}, NEW t \in Tokens PROVE ledger[c][t] >= 0
  BY DEF Covered
<1>1. \A d \in Owners \cup Solvers : InitialBalances[d] \in [Tokens -> Nat]
  BY AuctionAssumption
<1>2. ledger[c] = IF c \in Owners \cup Solvers THEN InitialBalances[c] ELSE [u \in Tokens |-> 0]
  BY DEF Init
<1>3. ledger[c][t] \in Nat
  BY <1>1, <1>2
<1>4. QED  BY <1>3

LEMMA FundsAlways == Spec => [](BaseInv /\ StandsInv /\ HouseHolds /\ Covered)
<1>1. Init => Covered
  BY CoveredInit
<1>2. BaseInv /\ Covered /\ [Next]_vars => Covered'
  BY CoveredStep
<1>3. QED  BY <1>1, <1>2, HouseAlways, PTL DEF Spec

\* The state is well formed, and no transfer the house makes, and no escrow or
\* bond it takes, is one the payer could not cover (the safeTransfer calls of
\* challenge, executeCross, abortAuction and refundEscrow have no guard on the
\* balance; freeze relies on Permit2, escrow after escrow).
THEOREM TypeCorrect == Spec => []TypeOK
<1>1. BaseInv /\ HouseHolds /\ Covered => TypeOK
  <2> SUFFICES ASSUME BaseInv, HouseHolds, Covered, NEW c \in Accounts, NEW t \in Tokens
               PROVE  ledger[c][t] >= 0
    BY DEF TypeOK, BaseInv
  <2>1. CASE c = House
    <3>1. ledger[House][t] = Owes(t)
      BY DEF HouseHolds
    <3>2. SumFunctionOnSet(dues, Sells(t)) \in Nat /\ bonds \in Nat
      BY DuesNat, BondsTypes
    <3>3. QED  BY <2>1, <3>1, <3>2 DEF Owes
  <2>2. CASE c # House
    BY <2>2 DEF Covered
  <2>3. QED  BY <2>1, <2>2
<1>2. QED  BY <1>1, FundsAlways, PTL

\* Both: every payment the house makes or takes can be made, and what it holds
\* is what it owes (freeze, submitCross, challenge, executeCross, abortAuction,
\* refundEscrow).
THEOREM AccountsAlwaysHold == Spec => []AccountsHold
BY HouseHoldsWhatItOwes, TypeCorrect, PTL DEF AccountsHold

----------------------------------------------------------------------------
(* The owners.                                                             *)

\* Owners who stake no bonds and receive no penalties: what they hold changes
\* only through their own orders.
OwnersTradeOnly == Owners \cap (Solvers \cup Challengers \cup {Treasury}) = {}

SpentBy(o, t)   == SumFunctionOnSet(spent, SellsOf(o, t))
GainedBy(o, t)  == SumFunctionOnSet(gained, BuysFor(o, t))
OwnerHolds(o, t) ==
  ledger[o][t] + movedOut[o][t] = InitialBalances[o][t] - SpentBy(o, t) + GainedBy(o, t)
OwnersHold == \A o \in Owners, t \in Tokens : OwnerHolds(o, t)

LEMMA ClaimSets ==
  ASSUME NEW o, NEW t
  PROVE  /\ IsFiniteSet(SellsOf(o, t)) /\ SellsOf(o, t) \subseteq Intents
         /\ IsFiniteSet(BuysFor(o, t)) /\ BuysFor(o, t) \subseteq Intents
BY Numbers, FS_Subset DEF SellsOf, BuysFor

LEMMA OwnerSums ==
  ASSUME BaseInv, NEW o \in Owners, NEW t \in Tokens
  PROVE  /\ SpentBy(o, t) \in Int /\ GainedBy(o, t) \in Int
         /\ ledger[o][t] \in Int /\ movedOut[o][t] \in Int /\ InitialBalances[o][t] \in Int
<1>1. SpentBy(o, t) \in Int
  <2>1. \A i \in SellsOf(o, t) : spent[i] \in Int
    BY ClaimSets, ClaimNat
  <2>2. QED  BY <2>1, ClaimSets, SumInt DEF SpentBy
<1>2. GainedBy(o, t) \in Int
  <2>1. \A i \in BuysFor(o, t) : gained[i] \in Int
    BY ClaimSets, ClaimNat
  <2>2. QED  BY <2>1, ClaimSets, SumInt DEF GainedBy
<1>3. ledger[o][t] \in Int /\ movedOut[o][t] \in Int
  BY Parties DEF BaseInv, WellFormed
<1>4. InitialBalances[o][t] \in Int
  BY AuctionAssumption
<1>5. QED  BY <1>1, <1>2, <1>3, <1>4

\* The owner's sums of the property, intent by intent.
LEMMA OwnerForms == ASSUME BaseInv, OwnersHold PROVE OwnersWhole
<1> SUFFICES ASSUME NEW o \in Owners, NEW t \in Tokens
             PROVE  ledger[o][t] + movedOut[o][t] =
                      InitialBalances[o][t]
                      - SumFunctionOnSet(out, {i \in Escrowed : i.owner = o /\ SellToken(i) = t})
                      + SumFunctionOnSet(bought, {i \in Escrowed : i.receiver = o /\ BuyToken(i) = t})
  BY DEF OwnersWhole
<1>1. SpentBy(o, t) = SumFunctionOnSet(out, {i \in Escrowed : i.owner = o /\ SellToken(i) = t})
  <2> DEFINE K == {i \in Escrowed : i.owner = o /\ SellToken(i) = t}
  <2>1. K \subseteq SellsOf(o, t)
    BY DEF Escrowed, SellsOf
  <2>2. \A i \in K : out[i] \in Int /\ spent[i] = out[i]
    <3> SUFFICES ASSUME NEW i \in K PROVE out[i] \in Int /\ spent[i] = out[i]
      OBVIOUS
    <3>1. i \in Intents /\ i \in Escrowed
      BY DEF Escrowed
    <3>2. spent[i] = out[i]
      BY <3>1 DEF spent, out
    <3>3. QED  BY <3>1, <3>2, ClaimNat
  <2>3. \A i \in SellsOf(o, t) : i \notin K => spent[i] = 0
    BY DEF SellsOf, spent
  <2> HIDE DEF K
  <2>4. SumFunctionOnSet(spent, SellsOf(o, t)) = SumFunctionOnSet(out, K)
    BY <2>1, <2>2, <2>3, ClaimSets, SumRestrict
  <2>5. QED  BY <2>4 DEF K, SpentBy
<1>2. GainedBy(o, t) = SumFunctionOnSet(bought, {i \in Escrowed : i.receiver = o /\ BuyToken(i) = t})
  <2> DEFINE K == {i \in Escrowed : i.receiver = o /\ BuyToken(i) = t}
  <2>1. K \subseteq BuysFor(o, t)
    BY DEF Escrowed, BuysFor
  <2>2. \A i \in K : bought[i] \in Int /\ gained[i] = bought[i]
    <3> SUFFICES ASSUME NEW i \in K PROVE bought[i] \in Int /\ gained[i] = bought[i]
      OBVIOUS
    <3>1. i \in Intents /\ i \in Escrowed
      BY DEF Escrowed
    <3>2. gained[i] = bought[i]
      BY <3>1 DEF gained, bought
    <3>3. QED  BY <3>1, <3>2, ClaimNat
  <2>3. \A i \in BuysFor(o, t) : i \notin K => gained[i] = 0
    BY DEF BuysFor, gained
  <2> HIDE DEF K
  <2>4. SumFunctionOnSet(gained, BuysFor(o, t)) = SumFunctionOnSet(bought, K)
    BY <2>1, <2>2, <2>3, ClaimSets, SumRestrict
  <2>5. QED  BY <2>4 DEF K, GainedBy
<1>3. OwnerHolds(o, t)
  BY DEF OwnersHold
<1>4. QED  BY <1>1, <1>2, <1>3 DEF OwnerHolds

\* A step that changes no claim and only moves what is the owner's to move.
LEMMA OwnerQuiet ==
  ASSUME BaseInv, QuietClaims, NEW o \in Owners, NEW t \in Tokens, OwnerHolds(o, t),
         ledger'[o][t] + movedOut'[o][t] = ledger[o][t] + movedOut[o][t]
  PROVE  OwnerHolds(o, t)'
<1>1. SpentBy(o, t)' = SpentBy(o, t)
  <2>1. \A i \in SellsOf(o, t) : spent'[i] = spent[i]
    BY ClaimSets DEF QuietClaims
  <2>2. SumFunctionOnSet(spent', SellsOf(o, t)) = SumFunctionOnSet(spent, SellsOf(o, t))
    BY <2>1, ClaimSets, SumSame
  <2>3. QED  BY <2>2 DEF SpentBy
<1>2. GainedBy(o, t)' = GainedBy(o, t)
  <2>1. \A i \in BuysFor(o, t) : gained'[i] = gained[i]
    BY ClaimSets DEF QuietClaims
  <2>2. SumFunctionOnSet(gained', BuysFor(o, t)) = SumFunctionOnSet(gained, BuysFor(o, t))
    BY <2>1, ClaimSets, SumSame
  <2>3. QED  BY <2>2 DEF GainedBy
<1>3. QED  BY <1>1, <1>2 DEF OwnerHolds

LEMMA OwnerFreeze ==
  ASSUME BaseInv, NEW o \in Owners, NEW t \in Tokens, OwnerHolds(o, t),
         NEW a \in Auctions, freeze(a)
  PROVE  OwnerHolds(o, t)'
<1>0. WellFormed /\ BookInv
  BY DEF BaseInv
<1>1. PICK pulled : Freezes(a, pulled)
  BY <1>0, FreezeStep
<1>2. pulled \in SUBSET Intents
  BY <1>0, <1>1, BookTypes DEF Freezes
<1>3. movedOut' = movedOut
  BY DEF freeze
<1>4. \A i \in Intents : /\ spent'[i] = spent[i] + (IF i \in pulled THEN i.sellAmount ELSE 0)
                         /\ gained'[i] = gained[i]
  BY <1>1, FreezeClaims
<1> DEFINE more == [i \in Intents |-> IF i \in pulled THEN i.sellAmount ELSE 0]
           S == SellsOf(o, t)
<1>5. \A i \in S : spent[i] \in Int /\ more[i] \in Int /\ spent'[i] = spent[i] + more[i]
  BY <1>4, ClaimNat, IntentData DEF SellsOf
<1>6. SumFunctionOnSet(more, S) = escrowOf(pulled, {o}, t)
  <2> DEFINE K == {i \in pulled : i.owner \in {o} /\ SellToken(i) = t}
             f == [i \in pulled |-> i.sellAmount]
  <2>1. K \subseteq S
    BY <1>2 DEF SellsOf
  <2>2. \A i \in K : f[i] \in Int /\ more[i] = f[i]
    BY <1>2, IntentData
  <2>3. \A i \in S : i \notin K => more[i] = 0
    BY IntentData DEF SellsOf
  <2>4. IsFiniteSet(S)
    BY ClaimSets
  <2> HIDE DEF K, f, more, S
  <2>5. SumFunctionOnSet(more, S) = SumFunctionOnSet(f, K)
    BY <2>1, <2>2, <2>3, <2>4, SumRestrict
  <2>6. QED  BY <2>5 DEF escrowOf, K, f
<1>7. IsFiniteSet(S)
  BY ClaimSets
<1> HIDE DEF more, S
<1>8. SumFunctionOnSet(spent', S) = SumFunctionOnSet(spent, S) + SumFunctionOnSet(more, S)
  BY <1>5, <1>7, SumPlus
<1>9. SpentBy(o, t)' = SpentBy(o, t) + escrowOf(pulled, {o}, t)
  BY <1>6, <1>8 DEF SpentBy, S
<1>10. GainedBy(o, t)' = GainedBy(o, t)
  <2>1. \A i \in BuysFor(o, t) : gained'[i] = gained[i]
    BY <1>4, ClaimSets
  <2>2. SumFunctionOnSet(gained', BuysFor(o, t)) = SumFunctionOnSet(gained, BuysFor(o, t))
    BY <2>1, ClaimSets, SumSame
  <2>3. QED  BY <2>2 DEF GainedBy
<1>11. escrowOf(pulled, {o}, t) \in Int
  BY <1>2, EscrowNat
<1>12. ledger'[o][t] = ledger[o][t] - escrowOf(pulled, {o}, t)
  <2>1. o \in Accounts /\ o # House /\ ledger[o][t] \in Int
    BY <1>0, Parties DEF WellFormed
  <2>2. ledger'[o][t] = ledger[o][t] - escrowOf(pulled, {o}, t) + 0
    BY <1>1, <2>1 DEF Freezes
  <2>3. QED  BY <1>11, <2>1, <2>2
<1>13. QED  BY <1>3, <1>9, <1>10, <1>11, <1>12, OwnerSums DEF OwnerHolds

LEMMA OwnerExecute ==
  ASSUME BaseInv, OwnersTradeOnly, NEW o \in Owners, NEW t \in Tokens, OwnerHolds(o, t),
         NEW a \in Auctions, executeCross(a)
  PROVE  OwnerHolds(o, t)'
<1>0. WellFormed /\ BookInv
  BY DEF BaseInv
<1>1. auctions[a].solver \in Solvers
  BY DEF BaseInv, CrossInv, executeCross, executable
<1>2. movedOut' = movedOut
  BY DEF executeCross
<1>3. \A i \in Intents :
        /\ spent'[i] = spent[i]
        /\ gained'[i] = gained[i] + (IF i \in Booked(a) THEN commitments[i].filledBuy ELSE 0)
  BY ExecuteClaims
<1> DEFINE more == [i \in Intents |-> IF i \in Booked(a) THEN commitments[i].filledBuy ELSE 0]
           S == BuysFor(o, t)
<1>4. \A i \in Booked(a) : i \in Intents /\ commitments[i].filledBuy \in Nat
  BY <1>0, BookedCommitted, ClaimFields
<1>5. \A i \in S : gained[i] \in Int /\ more[i] \in Int /\ gained'[i] = gained[i] + more[i]
  BY <1>3, <1>4, ClaimNat DEF BuysFor
<1>6. SumFunctionOnSet(more, S) = Received(a, {o}, t)
  <2> DEFINE K == {i \in Booked(a) : i.receiver \in {o} /\ BuyToken(i) = t}
             f == [i \in Booked(a) |-> commitments[i].filledBuy]
  <2>1. K \subseteq S
    BY <1>4 DEF BuysFor
  <2>2. \A i \in K : f[i] \in Int /\ more[i] = f[i]
    BY <1>4
  <2>3. \A i \in S : i \notin K => more[i] = 0
    BY DEF BuysFor
  <2>4. IsFiniteSet(S)
    BY ClaimSets
  <2> HIDE DEF K, f, more, S
  <2>5. SumFunctionOnSet(more, S) = SumFunctionOnSet(f, K)
    BY <2>1, <2>2, <2>3, <2>4, SumRestrict
  <2>6. QED  BY <2>5 DEF Received, K, f
<1>7. IsFiniteSet(S)
  BY ClaimSets
<1> HIDE DEF more, S
<1>8. SumFunctionOnSet(gained', S) = SumFunctionOnSet(gained, S) + SumFunctionOnSet(more, S)
  BY <1>5, <1>7, SumPlus
<1>9. GainedBy(o, t)' = GainedBy(o, t) + Received(a, {o}, t)
  BY <1>6, <1>8 DEF GainedBy, S
<1>10. SpentBy(o, t)' = SpentBy(o, t)
  <2>1. \A i \in SellsOf(o, t) : spent'[i] = spent[i]
    BY <1>3, ClaimSets
  <2>2. SumFunctionOnSet(spent', SellsOf(o, t)) = SumFunctionOnSet(spent, SellsOf(o, t))
    BY <2>1, ClaimSets, SumSame
  <2>3. QED  BY <2>2 DEF SpentBy
<1>11. Received(a, {o}, t) \in Nat
  BY <1>0, ReceivedNat, BookedCommitted
<1>12. ledger'[o][t] = ledger[o][t] + Received(a, {o}, t)
  <2>1. o \in Accounts \ {House} /\ Treasury # o /\ auctions[a].solver # o
    BY <1>1, Parties DEF OwnersTradeOnly
  <2>2. ledger'[o][t] = ledger[o][t] + PaidOut(a, {o}, t)
    BY <1>0, <2>1, ExecuteLedger, BookedCommitted
  <2>3. PaidOut(a, {o}, t) = Received(a, {o}, t) + 0 + 0 + 0
    BY <2>1 DEF PaidOut
  <2>4. QED  BY <1>11, <2>2, <2>3
<1>13. QED  BY <1>2, <1>9, <1>10, <1>11, <1>12, OwnerSums DEF OwnerHolds

LEMMA OwnerRefund ==
  ASSUME BaseInv, NEW o \in Owners, NEW t \in Tokens, OwnerHolds(o, t),
         NEW i \in Intents, refundEscrow(i)
  PROVE  OwnerHolds(o, t)'
<1> DEFINE n == i.sellAmount - commitments[i].filledSell
<1>1. /\ n \in Nat /\ spent'[i] = spent[i] - n /\ gained'[i] = gained[i]
      /\ \A j \in Intents : j # i => spent'[j] = spent[j] /\ gained'[j] = gained[j]
  BY RefundClaims
<1>2. /\ ledger \in [Accounts -> [Tokens -> Int]] /\ House \in Accounts /\ i.owner \in Accounts
      /\ i.owner # House /\ SellToken(i) \in Tokens /\ o \in Accounts /\ o # House
      /\ ledger' = transfer(ledger, House, i.owner, SellToken(i), n)
  BY Parties, IntentData DEF BaseInv, WellFormed, refundEscrow
<1>3. movedOut' = movedOut
  BY DEF refundEscrow
<1> HIDE DEF n
<1>4. GainedBy(o, t)' = GainedBy(o, t)
  <2>1. \A j \in BuysFor(o, t) : gained'[j] = gained[j]
    BY <1>1, ClaimSets
  <2>2. SumFunctionOnSet(gained', BuysFor(o, t)) = SumFunctionOnSet(gained, BuysFor(o, t))
    BY <2>1, ClaimSets, SumSame
  <2>3. QED  BY <2>2 DEF GainedBy
<1>5. CASE o = i.owner /\ t = SellToken(i)
  <2>1. ledger'[o][t] = ledger[o][t] + n
    BY <1>1, <1>2, <1>5, TransferGets
  <2>2. i \in SellsOf(o, t) /\ SellsOf(o, t) \subseteq Intents
    BY <1>5 DEF SellsOf
  <2>3. \A j \in SellsOf(o, t) : spent[j] \in Int /\ spent'[j] \in Int
    <3>1. spent[i] \in Int /\ spent'[i] \in Int
      BY <1>1, ClaimNat
    <3>2. QED  BY <1>1, <2>2, <3>1, ClaimNat
  <2>4. SumFunctionOnSet(spent', SellsOf(o, t))
          = SumFunctionOnSet(spent, SellsOf(o, t)) - spent[i] + spent'[i]
    <3> DEFINE S == SellsOf(o, t)
    <3>1. IsFiniteSet(S) /\ \A j \in S \ {i} : spent'[j] = spent[j]
      BY <1>1, <2>2, ClaimSets
    <3>2. i \in S /\ \A j \in S : spent[j] \in Int /\ spent'[j] \in Int
      BY <2>2, <2>3
    <3> HIDE DEF S
    <3>3. SumFunctionOnSet(spent', S) = SumFunctionOnSet(spent, S) - spent[i] + spent'[i]
      BY <3>1, <3>2, SumUpdate
    <3>4. QED  BY <3>3 DEF S
  <2>5. spent[i] \in Int
    BY ClaimNat
  <2>6. SpentBy(o, t)' = SpentBy(o, t) - n
    BY <1>1, <2>4, <2>5, OwnerSums DEF SpentBy
  <2>7. QED  BY <1>1, <1>3, <1>4, <2>1, <2>6, OwnerSums DEF OwnerHolds
<1>6. CASE o # i.owner \/ t # SellToken(i)
  <2>1. ledger'[o][t] = ledger[o][t]
    BY <1>1, <1>2, <1>6, TransferOther
  <2>2. \A j \in SellsOf(o, t) : spent'[j] = spent[j]
    BY <1>1, <1>6 DEF SellsOf
  <2>3. SumFunctionOnSet(spent', SellsOf(o, t)) = SumFunctionOnSet(spent, SellsOf(o, t))
    BY <2>2, ClaimSets, SumSame
  <2>4. SpentBy(o, t)' = SpentBy(o, t)
    BY <2>3 DEF SpentBy
  <2>5. QED  BY <1>3, <1>4, <2>1, <2>4 DEF OwnerHolds
<1>7. QED  BY <1>5, <1>6

LEMMA OwnerStaysPut ==
  ASSUME BaseInv, OwnersTradeOnly, [Next]_vars, NEW o \in Owners, NEW t \in Tokens,
         \A a \in Auctions : ~freeze(a) /\ ~executeCross(a), \A i \in Intents : ~refundEscrow(i)
  PROVE  ledger'[o][t] + movedOut'[o][t] = ledger[o][t] + movedOut[o][t]
<1>0. /\ WellFormed /\ BookInv /\ ledger \in [Accounts -> [Tokens -> Int]]
      /\ movedOut \in [Owners -> [Tokens -> Int]]
      /\ House \in Accounts /\ Quote \in Tokens /\ BOND \in Int
      /\ o \in Accounts /\ o # House /\ o # Treasury /\ o \notin Solvers /\ o \notin Challengers
  BY Parties, Numbers DEF BaseInv, WellFormed, OwnersTradeOnly
<1>1. CASE UNCHANGED <<ledger, movedOut>>
  BY <1>1
<1>2. ASSUME NEW i \in Intents, commitAuctionIntent(i) \/ cancelBeforeFreeze(i)
      PROVE  UNCHANGED <<ledger, movedOut>>
  BY <1>2 DEF commitAuctionIntent, cancelBeforeFreeze, fundVars
<1>3. ASSUME NEW a \in Auctions, openAuction(a) \/ extend(a) PROVE UNCHANGED <<ledger, movedOut>>
  BY <1>3 DEF openAuction, extend, fundVars
<1>4. ASSUME NEW a \in Auctions, abortAuction(a)
      PROVE  ledger'[o][t] = ledger[o][t] /\ movedOut' = movedOut
  <2>1. CASE auctions[a].phase = "CROSSED"
    <3>1. /\ auctions[a].solver \in Accounts /\ auctions[a].solver # House
          /\ auctions[a].solver # o
      BY <1>0, <2>1, Parties DEF BaseInv, CrossInv
    <3>2. ledger' = transfer(ledger, House, auctions[a].solver, Quote, BOND)
      BY <1>4, <2>1 DEF abortAuction
    <3>3. ledger'[o][t] = ledger[o][t]
      BY <1>0, <3>1, <3>2, TransferOther
    <3>4. QED  BY <1>4, <3>3 DEF abortAuction
  <2>2. CASE auctions[a].phase # "CROSSED"
    BY <1>4, <2>2 DEF abortAuction
  <2>3. QED  BY <2>1, <2>2
<1>5. ASSUME NEW a \in Auctions, NEW s \in Solvers, NEW p \in Prices, submitCross(a, s, p)
      PROVE  ledger'[o][t] = ledger[o][t] /\ movedOut' = movedOut
  <2>1. s \in Accounts /\ s # House /\ s # o
    BY <1>0, Parties
  <2>2. ledger' = transfer(ledger, s, House, Quote, BOND)
    BY <1>5 DEF submitCross
  <2>3. ledger'[o][t] = ledger[o][t]
    BY <1>0, <2>1, <2>2, TransferOther
  <2>4. QED  BY <1>5, <2>3 DEF submitCross
<1>6. ASSUME NEW a \in Auctions, NEW c \in Challengers, NEW p \in Prices, challenge(a, c, p)
      PROVE  ledger'[o][t] = ledger[o][t] /\ movedOut' = movedOut
  <2>1. auctions[a].solver \in Solvers
    BY <1>6 DEF BaseInv, CrossInv, challenge, challengeable
  <2>2. o \in Accounts \ {House, Treasury, c, auctions[a].solver}
    BY <1>0, <2>1
  <2>3. ledger'[o][t] = ledger[o][t]
    BY <1>0, <1>6, <2>1, <2>2, ChallengeLedger
  <2>4. QED  BY <1>6, <2>3 DEF challenge
<1>7. ASSUME NEW q \in Owners, NEW u \in Tokens, ledger' = [ledger EXCEPT ![q][u] = 0],
             movedOut' = [movedOut EXCEPT ![q][u] = @ + ledger[q][u]]
      PROVE  ledger'[o][t] + movedOut'[o][t] = ledger[o][t] + movedOut[o][t]
  <2>1. ledger[o][t] \in Int /\ movedOut[o][t] \in Int
    BY <1>0
  <2>2. CASE q = o /\ u = t
    <3>1. ledger'[o][t] = 0 /\ movedOut'[o][t] = movedOut[o][t] + ledger[o][t]
      BY <1>0, <1>7, <2>2
    <3>2. QED  BY <2>1, <3>1
  <2>3. CASE q # o \/ u # t
    <3>1. q \in Accounts
      BY Parties
    <3>2. ledger'[o][t] = ledger[o][t]
      BY <1>0, <1>7, <2>3, <3>1
    <3>3. movedOut'[o][t] = movedOut[o][t]
      BY <1>0, <1>7, <2>3
    <3>4. QED  BY <3>2, <3>3
  <2>4. QED  BY <2>2, <2>3
<1>8. QED
  BY <1>0, <1>1, <1>2, <1>3, <1>4, <1>5, <1>6, <1>7, StepCases, WorldFunds

LEMMA OwnersStep ==
  ASSUME BaseInv, OwnersTradeOnly, OwnersHold, [Next]_vars
  PROVE  OwnersHold'
<1> SUFFICES ASSUME NEW o \in Owners, NEW t \in Tokens PROVE OwnerHolds(o, t)'
  BY DEF OwnersHold
<1>1. OwnerHolds(o, t)
  BY DEF OwnersHold
<1>2. CASE \E a \in Auctions : freeze(a) \/ executeCross(a)
  BY <1>1, <1>2, OwnerFreeze, OwnerExecute
<1>3. CASE \E i \in Intents : refundEscrow(i)
  BY <1>1, <1>3, OwnerRefund
<1>4. CASE (\A a \in Auctions : ~freeze(a) /\ ~executeCross(a)) /\ (\A i \in Intents : ~refundEscrow(i))
  BY <1>1, <1>4, QuietSteps, OwnerStaysPut, OwnerQuiet
<1>5. QED  BY <1>2, <1>3, <1>4

LEMMA OwnersInit == Init => OwnersHold
<1> SUFFICES ASSUME Init, NEW o \in Owners, NEW t \in Tokens PROVE OwnerHolds(o, t)
  BY DEF OwnersHold
<1>1. ledger[o][t] = InitialBalances[o][t] /\ movedOut[o][t] = 0
  BY Parties DEF Init
<1>2. InitialBalances[o][t] \in Int
  BY AuctionAssumption
<1>3. \A i \in Intents : spent[i] = 0 /\ gained[i] = 0
  BY DEF Init, spent, gained, Escrowed
<1>4. SpentBy(o, t) = 0
  BY <1>3, ClaimSets, SumZero DEF SpentBy
<1>5. GainedBy(o, t) = 0
  BY <1>3, ClaimSets, SumZero DEF GainedBy
<1>6. QED  BY <1>1, <1>2, <1>4, <1>5 DEF OwnerHolds

\* An owner who is no solver, no challenger and not the treasury has everything
\* it started with, except what it moved away itself, what stands in escrow, and
\* what an executed cross exchanged at the price it accepted: a dropped, aborted
\* or rolled back commitment costs nothing (freeze, challenge, executeCross,
\* abortAuction, refundEscrow).
THEOREM OwnersKeepTheirs == ASSUME OwnersTradeOnly PROVE Spec => []OwnersWhole
<1>1. Init => OwnersHold
  BY OwnersInit
<1>2. BaseInv /\ OwnersHold /\ [Next]_vars => OwnersHold'
  BY OwnersStep
<1>3. BaseInv /\ OwnersHold => OwnersWhole
  BY OwnerForms
<1>4. QED  BY <1>1, <1>2, <1>3, StandsAlways, PTL DEF Spec
=============================================================================
