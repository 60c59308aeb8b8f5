--------------------------- MODULE AuctionProofs ---------------------------
(***************************************************************************)
(* Theorems about AuctionHouse, for every set of auctions, intents, owners *)
(* and solvers: what a book and a commitment look like in every reachable  *)
(* state, that a cross stands on the book it was checked against, what a   *)
(* limit is worth, and that a print is never altered.                      *)
(***************************************************************************)
EXTENDS AuctionHouse, SharedLemmas

----------------------------------------------------------------------------
(* What the constants are.                                                 *)

LEMMA PricesNat == /\ \A p \in Prices : p \in Nat /\ p # 0
                   /\ \A m \in Multipliers : m \in Nat
BY AuctionAssumption

LEMMA AuctionData ==
  ASSUME NEW a \in Auctions
  PROVE  /\ AuctionToken[a] \in Tokens \ {Quote} /\ AuctionToken[a] \in Tokens
         /\ AuctionKind[a] \in {"OPEN", "CLOSE"}
         /\ CrossAt[a] \in Nat /\ AuctionDay[a] \in Nat
BY AuctionAssumption

LEMMA IntentData ==
  ASSUME NEW i \in Intents
  PROVE  /\ i.owner \in Owners /\ i.receiver \in Owners
         /\ i.token \in Tokens \ {Quote} /\ i.buy \in BOOLEAN
         /\ i.kind \in {"MOO", "LOO", "ROO"}
         /\ i.sellAmount \in Nat /\ i.minBuyAmount \in Nat /\ i.maxDev \in Nat
         /\ SellToken(i) \in Tokens /\ BuyToken(i) \in Tokens
<1>1. AuctionIntent(i) /\ Quote \in Tokens
  BY AuctionAssumption
<1>2. QED  BY <1>1 DEF AuctionIntent, SellToken, BuyToken

LEMMA Numbers ==
  /\ BOND \in Nat /\ CHALLENGE_REWARD_BPS \in 0..BPS /\ MaxTime \in Nat
  /\ COLLAR_INITIAL \in Nat /\ COLLAR_STEP \in Nat
  /\ CROSS_DELAY_OPEN \in Nat /\ EXTENSION_PERIOD \in Nat /\ MAX_EXTENSIONS \in Nat
  /\ PAUSE_DURATION \in Nat
  /\ IsFiniteSet(Auctions) /\ IsFiniteSet(Intents) /\ Quote \in Tokens
BY AuctionAssumption

LEMMA Parties ==
  /\ House \in Accounts /\ Treasury \in Accounts /\ House # Treasury
  /\ \A s \in Solvers : s \in Accounts /\ s # House
  /\ \A o \in Owners : o \in Accounts /\ o # House
  /\ \A c \in Challengers : c \in Accounts /\ c # House
  /\ NoSolver \notin Solvers /\ NoCommitment \notin CommitmentRecords
BY AuctionAssumption DEF Accounts

----------------------------------------------------------------------------
(* The arithmetic of a fill.                                               *)

LEMMA DivNat == ASSUME NEW x \in Nat, NEW y \in Nat \ {0} PROVE x \div y \in Nat
BY Z3

LEMMA BoughtNat ==
  ASSUME NEW i, NEW n \in Nat, NEW price \in Nat \ {0}
  PROVE  boughtAt(i, n, price) \in Nat
<1>1. n * WAD \in Nat /\ n * price \in Nat
  BY ScaleAssumption, Z3
<1>2. (n * WAD) \div price \in Nat
  BY <1>1, DivNat
<1>3. (n * price) \div WAD \in Nat
  BY <1>1, ScaleAssumption, DivNat
<1>4. QED  BY <1>2, <1>3 DEF boughtAt, tokenOf, quoteOf

LEMMA NothingBought ==
  ASSUME NEW i, NEW price \in Nat \ {0}
  PROVE  boughtAt(i, 0, price) = 0
<1>1. (0 * WAD) \div price = 0 /\ (0 * price) \div WAD = 0
  BY ScaleAssumption, Z3
<1>2. QED  BY <1>1 DEF boughtAt, tokenOf, quoteOf

LEMMA BookTypes ==
  ASSUME WellFormed, NEW a \in Auctions
  PROVE  /\ \A k \in DOMAIN books[a] : books[a][k] \in Intents
         /\ DOMAIN books[a] = 1..Len(books[a]) /\ Len(books[a]) \in Nat
         /\ IsFiniteSet(DOMAIN books[a])
         /\ Booked(a) \subseteq Intents
<1>1. books[a] \in Seq(Intents)
  BY DEF WellFormed
<1>2. /\ \A k \in DOMAIN books[a] : books[a][k] \in Intents
      /\ DOMAIN books[a] = 1..Len(books[a]) /\ Len(books[a]) \in Nat
  BY <1>1
<1>3. IsFiniteSet(1..Len(books[a]))
  BY <1>2, FS_Interval
<1>4. QED  BY <1>2, <1>3 DEF Booked

LEMMA FillSums ==
  ASSUME WellFormed, NEW a \in Auctions, NEW P \in SUBSET DOMAIN books[a],
         NEW fill \in [P -> Nat], NEW buy, NEW price \in Nat \ {0}
  PROVE  SoldIn(a, fill, buy) \in Nat /\ BoughtIn(a, fill, buy, price) \in Nat
<1> DEFINE K == {k \in DOMAIN fill : books[a][k].buy = buy}
           got == [k \in DOMAIN fill |-> boughtAt(books[a][k], fill[k], price)]
<1>1. IsFiniteSet(K)
  BY BookTypes, FS_Subset
<1>2. \A k \in K : fill[k] \in Nat /\ got[k] \in Nat
  BY BoughtNat
<1> HIDE DEF K, got
<1>3. SumFunctionOnSet(fill, K) \in Nat /\ SumFunctionOnSet(got, K) \in Nat
  BY <1>1, <1>2, SumNat
<1>4. QED  BY <1>3 DEF SoldIn, BoughtIn, K, got

----------------------------------------------------------------------------
(* Types.                                                                  *)

LEMMA ResolvedTypes ==
  ASSUME WellFormed, NEW a \in Auctions, referenceReturns(a)
  PROVE  /\ resolved(a) \in AuctionRecords
         /\ resolved(a).phase = auctions[a].phase
         /\ resolved(a).extensions = auctions[a].extensions
         /\ resolved(a).collarBps = auctions[a].collarBps
         /\ referenceAt(a) <= now => resolved(a).referenceFinal
<1>1. auctions[a] \in AuctionRecords
  BY DEF WellFormed
<1>2. openReference[a] \in Nat /\ refPrice[AuctionToken[a]] \in Nat
  <2>1. /\ openReference \in [Auctions -> Prices \cup {0}]
        /\ refPrice \in [Tokens \ {Quote} -> Prices \cup {0}]
    BY DEF WellFormed
  <2>2. openReference[a] \in Prices \cup {0} /\ refPrice[AuctionToken[a]] \in Prices \cup {0}
    BY <2>1, AuctionData
  <2>3. QED  BY <2>2, PricesNat
<1>3. CASE ~referenceDue(a)
  BY <1>1, <1>3 DEF resolved, AuctionRecords, referenceDue
<1>4. CASE referenceDue(a)
  <2> DEFINE ref == IF hasOpenReference(a) THEN openReference[a] ELSE refPrice[AuctionToken[a]]
             excluded == auctions[a].rooExcluded \/ (AuctionKind[a] = "OPEN" /\ openReference[a] = 0)
  <2>1. ref \in Nat /\ excluded \in BOOLEAN
    BY <1>1, <1>2 DEF AuctionRecords
  <2>2. resolved(a) = [auctions[a] EXCEPT !.refPrice = ref, !.rooExcluded = excluded,
                                          !.referenceFinal = TRUE]
    BY <1>4 DEF resolved
  <2> HIDE DEF ref, excluded
  <2>3. QED  BY <1>1, <2>1, <2>2 DEF AuctionRecords
<1>5. QED  BY <1>3, <1>4

\* What an action leaves alone keeps its type.
LEMMA TypesKept ==
  ASSUME WellFormed,
         now' \in 0..MaxTime, pausedUntil' \in 0..MaxTime,
         auctions' \in [Auctions -> AuctionRecords],
         books' \in [Auctions -> Seq(Intents)],
         \A a \in Auctions : Len(books'[a]) <= MAX_AUCTION_INTENTS,
         commitments' \in [Intents -> CommitmentRecords \cup {NoCommitment}],
         ledger' \in [Accounts -> [Tokens -> Int]],
         UNCHANGED <<latestPrintDay, movedOut, active, wins, worldVars>>
  PROVE  WellFormed'
BY DEF WellFormed, worldVars

LEMMA InitTypes == Init => WellFormed
<1> SUFFICES ASSUME Init PROVE WellFormed
  OBVIOUS
<1>1. now \in 0..MaxTime /\ pausedUntil \in 0..MaxTime
  BY Numbers DEF Init
<1>2. NewAuction \in AuctionRecords
  BY Numbers DEF NewAuction, AuctionRecords
<1>3. auctions \in [Auctions -> AuctionRecords]
  BY <1>2 DEF Init
<1>4. ledger \in [Accounts -> [Tokens -> Int]]
  <2>1. \A c \in Owners \cup Solvers : InitialBalances[c] \in [Tokens -> Nat]
    BY AuctionAssumption
  <2>2. \A c \in Accounts : (IF c \in Owners \cup Solvers THEN InitialBalances[c]
                             ELSE [t \in Tokens |-> 0]) \in [Tokens -> Int]
    BY <2>1
  <2>3. QED  BY <2>2 DEF Init
<1>5. \A a \in Auctions : Len(books[a]) <= MAX_AUCTION_INTENTS
  BY AuctionAssumption DEF Init
<1>6. QED
  BY <1>1, <1>3, <1>4, <1>5 DEF Init, WellFormed

\* What a transfer does to the two accounts, and to the others.
LEMMA TransferTypes ==
  ASSUME NEW l \in [Accounts -> [Tokens -> Int]], NEW from \in Accounts, NEW to \in Accounts,
         NEW t \in Tokens, NEW n \in Int
  PROVE  transfer(l, from, to, t, n) \in [Accounts -> [Tokens -> Int]]
<1> DEFINE m == credit(l, from, t, -n)
<1>1. m \in [Accounts -> [Tokens -> Int]]
  BY DEF credit
<1> HIDE DEF m
<1>2. credit(m, to, t, n) \in [Accounts -> [Tokens -> Int]]
  BY <1>1 DEF credit
<1>3. transfer(l, from, to, t, n) = credit(m, to, t, n)
  BY DEF transfer, m
<1>4. QED  BY <1>2, <1>3

LEMMA TransferPays ==
  ASSUME NEW l \in [Accounts -> [Tokens -> Int]], NEW from \in Accounts, NEW to \in Accounts,
         from # to, NEW t \in Tokens, NEW n \in Int
  PROVE  transfer(l, from, to, t, n)[from][t] = l[from][t] - n
<1> DEFINE m == credit(l, from, t, -n)
<1>1. m \in [Accounts -> [Tokens -> Int]] /\ m[from][t] = l[from][t] + (-n)
  BY DEF credit
<1> HIDE DEF m
<1>2. credit(m, to, t, n)[from][t] = m[from][t]
  BY <1>1 DEF credit
<1>3. transfer(l, from, to, t, n) = credit(m, to, t, n)
  BY DEF transfer, m
<1>4. QED  BY <1>1, <1>2, <1>3

LEMMA TransferGets ==
  ASSUME NEW l \in [Accounts -> [Tokens -> Int]], NEW from \in Accounts, NEW to \in Accounts,
         from # to, NEW t \in Tokens, NEW n \in Int
  PROVE  transfer(l, from, to, t, n)[to][t] = l[to][t] + n
<1> DEFINE m == credit(l, from, t, -n)
<1>1. m \in [Accounts -> [Tokens -> Int]] /\ m[to][t] = l[to][t]
  BY DEF credit
<1> HIDE DEF m
<1>2. credit(m, to, t, n)[to][t] = m[to][t] + n
  BY <1>1 DEF credit
<1>3. transfer(l, from, to, t, n) = credit(m, to, t, n)
  BY DEF transfer, m
<1>4. QED  BY <1>1, <1>2, <1>3

LEMMA TransferOther ==
  ASSUME NEW l \in [Accounts -> [Tokens -> Int]], NEW from \in Accounts, NEW to \in Accounts,
         from # to, NEW t \in Tokens, NEW n \in Int, NEW d \in Accounts, NEW u \in Tokens,
         u # t \/ (d # from /\ d # to)
  PROVE  transfer(l, from, to, t, n)[d][u] = l[d][u]
<1> DEFINE m == credit(l, from, t, -n)
<1>1. /\ m \in [Accounts -> [Tokens -> Int]]
      /\ d # from \/ u # t => m[d][u] = l[d][u]
  BY DEF credit
<1> HIDE DEF m
<1>2. d # to \/ u # t => credit(m, to, t, n)[d][u] = m[d][u]
  BY <1>1 DEF credit
<1>3. transfer(l, from, to, t, n) = credit(m, to, t, n)
  BY DEF transfer, m
<1>4. QED  BY <1>1, <1>2, <1>3

LEMMA CommitTypes ==
  ASSUME WellFormed, NEW i \in Intents, commitAuctionIntent(i)
  PROVE  WellFormed'
<1>1. PICK a \in nextCross(i.auctionKind, i.token) :
        /\ Len(books[a]) < MAX_AUCTION_INTENTS
        /\ commitments' = [commitments EXCEPT ![i] =
             [auction |-> a, escrowed |-> FALSE, cancelled |-> FALSE, refunded |-> FALSE,
              filledSell |-> 0, filledBuy |-> 0]]
        /\ books' = [books EXCEPT ![a] = Append(books[a], i)]
  BY DEF commitAuctionIntent
<1>2. a \in Auctions
  BY DEF nextCross
<1>3. books[a] \in Seq(Intents) /\ Len(books[a]) \in Nat /\ MAX_AUCTION_INTENTS \in Nat
  BY <1>2, AuctionAssumption DEF WellFormed
<1>4. Append(books[a], i) \in Seq(Intents) /\ Len(Append(books[a], i)) <= MAX_AUCTION_INTENTS
  BY <1>1, <1>3
<1>5. books' \in [Auctions -> Seq(Intents)] /\ \A c \in Auctions : Len(books'[c]) <= MAX_AUCTION_INTENTS
  BY <1>1, <1>2, <1>4 DEF WellFormed
<1>6. commitments' \in [Intents -> CommitmentRecords \cup {NoCommitment}]
  BY <1>1, <1>2 DEF WellFormed, CommitmentRecords
<1>7. QED
  BY <1>5, <1>6, TypesKept DEF WellFormed, commitAuctionIntent, clockVars, printVars, fundVars

LEMMA OpenTypes ==
  ASSUME WellFormed, NEW a \in Auctions, openAuction(a)
  PROVE  WellFormed'
<1>1. auctions[a] \in AuctionRecords
  BY DEF WellFormed
<1>2. [auctions[a] EXCEPT !.phase = "DISCLOSURE"] \in AuctionRecords
  BY <1>1 DEF AuctionRecords
<1>3. auctions' \in [Auctions -> AuctionRecords]
  BY <1>2 DEF openAuction, WellFormed
<1>4. QED
  BY <1>3, TypesKept DEF WellFormed, openAuction, clockVars, printVars, fundVars

LEMMA CancelTypes ==
  ASSUME WellFormed, NEW i \in Intents, cancelBeforeFreeze(i)
  PROVE  WellFormed'
<1>1. commitments[i] \in CommitmentRecords
  BY DEF cancelBeforeFreeze, WellFormed
<1>2. commitments' \in [Intents -> CommitmentRecords \cup {NoCommitment}]
  BY <1>1 DEF cancelBeforeFreeze, WellFormed, CommitmentRecords
<1>3. QED
  BY <1>2, TypesKept DEF WellFormed, cancelBeforeFreeze, clockVars, printVars, fundVars

LEMMA EscrowNat ==
  ASSUME NEW S \in SUBSET Intents, NEW A, NEW t
  PROVE  escrowOf(S, A, t) \in Nat
<1> DEFINE K == {i \in S : i.owner \in A /\ SellToken(i) = t}
           f == [i \in S |-> i.sellAmount]
<1>1. IsFiniteSet(K)
  BY Numbers, FS_Subset
<1>2. \A i \in K : f[i] \in Nat
  BY IntentData
<1> HIDE DEF K, f
<1>3. SumFunctionOnSet(f, K) \in Nat
  BY <1>1, <1>2, SumNat
<1>4. QED  BY <1>3 DEF escrowOf, K, f

\* What freeze does to the book, for the set pulled of the intents it obtains.
Freezes(a, pulled) ==
  /\ pulled \subseteq Booked(a)
  /\ \A i \in pulled : ~commitments[i].cancelled /\ i.owner \in approved
  /\ commitments' = [i \in Intents |->
       IF i \notin Booked(a) \/ commitments[i].cancelled THEN commitments[i]
       ELSE IF i \in pulled THEN [commitments[i] EXCEPT !.escrowed = TRUE]
       ELSE [commitments[i] EXCEPT !.cancelled = TRUE]]
  /\ ledger' = [c \in Accounts |-> [t \in Tokens |->
       ledger[c][t] - escrowOf(pulled, {c}, t)
       + (IF c = House THEN escrowOf(pulled, Owners, t) ELSE 0)]]

LEMMA FreezeStep ==
  ASSUME WellFormed, NEW a \in Auctions, freeze(a)
  PROVE  \E pulled : Freezes(a, pulled)
<1>1. PICK P \in SUBSET DOMAIN books[a] :
       /\ obtained(a, P)
       /\ commitments' = [i \in Intents |->
            IF i \notin Booked(a) \/ commitments[i].cancelled THEN commitments[i]
            ELSE IF i \in {books[a][k] : k \in P} THEN [commitments[i] EXCEPT !.escrowed = TRUE]
            ELSE [commitments[i] EXCEPT !.cancelled = TRUE]]
       /\ ledger' = [c \in Accounts |-> [t \in Tokens |->
            ledger[c][t] - escrowOf({books[a][k] : k \in P}, {c}, t)
            + (IF c = House THEN escrowOf({books[a][k] : k \in P}, Owners, t) ELSE 0)]]
  BY DEF freeze
<1> DEFINE pulled == {books[a][k] : k \in P}
<1>2. pulled \subseteq Booked(a)
  BY DEF Booked
<1>3. \A i \in pulled : ~commitments[i].cancelled /\ i.owner \in approved
  BY <1>1 DEF obtained, permitTransfers
<1>4. Freezes(a, pulled)
  BY <1>1, <1>2, <1>3 DEF Freezes
<1>5. QED  BY <1>4

LEMMA FreezeTypes ==
  ASSUME WellFormed, NEW a \in Auctions, freeze(a),
         \A i \in Booked(a) : commitments[i] # NoCommitment
  PROVE  WellFormed'
<1>1. PICK pulled : Freezes(a, pulled)
  BY FreezeStep
<1>2. pulled \in SUBSET Intents
  BY <1>1, BookTypes DEF Freezes
<1>3. ledger' \in [Accounts -> [Tokens -> Int]]
  <2> DEFINE n(c, t) == ledger[c][t] - escrowOf(pulled, {c}, t)
                        + (IF c = House THEN escrowOf(pulled, Owners, t) ELSE 0)
  <2>1. \A c \in Accounts, t \in Tokens : n(c, t) \in Int
    <3> SUFFICES ASSUME NEW c \in Accounts, NEW t \in Tokens PROVE n(c, t) \in Int
      OBVIOUS
    <3>1. escrowOf(pulled, {c}, t) \in Nat /\ escrowOf(pulled, Owners, t) \in Nat
      BY <1>2, EscrowNat
    <3>2. ledger[c][t] \in Int
      BY DEF WellFormed
    <3>3. QED  BY <3>1, <3>2
  <2>2. ledger' = [c \in Accounts |-> [t \in Tokens |-> n(c, t)]]
    BY <1>1 DEF Freezes
  <2> HIDE DEF n
  <2>3. QED  BY <2>1, <2>2
<1>4. commitments' \in [Intents -> CommitmentRecords \cup {NoCommitment}]
  <2>1. \A i \in Booked(a) : commitments[i] \in CommitmentRecords
    BY BookTypes DEF WellFormed
  <2>2. \A i \in Booked(a) : /\ [commitments[i] EXCEPT !.escrowed = TRUE] \in CommitmentRecords
                             /\ [commitments[i] EXCEPT !.cancelled = TRUE] \in CommitmentRecords
    BY <2>1 DEF CommitmentRecords
  <2>3. \A i \in Intents : commitments'[i] \in CommitmentRecords \cup {NoCommitment}
    BY <1>1, <2>2 DEF Freezes, WellFormed
  <2>4. commitments' = [i \in Intents |-> commitments'[i]]
    BY <1>1 DEF Freezes
  <2>5. QED  BY <2>3, <2>4
<1>5. auctions' \in [Auctions -> AuctionRecords]
  <2>1. auctions[a] \in AuctionRecords
    BY DEF WellFormed
  <2>2. refPrice[AuctionToken[a]] \in Nat /\ uiMultiplier[AuctionToken[a]] \in Nat
    <3>1. /\ refPrice[AuctionToken[a]] \in Prices \cup {0}
          /\ uiMultiplier[AuctionToken[a]] \in Multipliers
      BY AuctionData DEF WellFormed
    <3>2. QED  BY <3>1, PricesNat
  <2>3. [auctions[a] EXCEPT !.phase = "FROZEN", !.refPrice = refPrice[AuctionToken[a]],
                            !.multiplier = uiMultiplier[AuctionToken[a]]] \in AuctionRecords
    BY <2>1, <2>2 DEF AuctionRecords
  <2>4. auctions' = [auctions EXCEPT ![a] =
          [auctions[a] EXCEPT !.phase = "FROZEN", !.refPrice = refPrice[AuctionToken[a]],
                              !.multiplier = uiMultiplier[AuctionToken[a]]]]
    BY DEF freeze, WellFormed
  <2>5. QED  BY <2>3, <2>4 DEF WellFormed
<1>6. QED
  BY <1>3, <1>4, <1>5, TypesKept DEF WellFormed, freeze, clockVars, printVars

LEMMA ExtendTypes ==
  ASSUME WellFormed, NEW a \in Auctions, extend(a)
  PROVE  WellFormed'
<1>1. resolved(a) \in AuctionRecords
  BY ResolvedTypes DEF extend
<1>2. resolved(a).extensions + 1 \in 0..MAX_EXTENSIONS /\ resolved(a).collarBps + COLLAR_STEP \in Nat
  BY <1>1, ResolvedTypes, Numbers DEF extend, AuctionRecords
<1>3. [resolved(a) EXCEPT !.extensions = resolved(a).extensions + 1,
                          !.collarBps = resolved(a).collarBps + COLLAR_STEP] \in AuctionRecords
  BY <1>1, <1>2 DEF AuctionRecords
<1>4. auctions' \in [Auctions -> AuctionRecords]
  BY <1>3 DEF extend, WellFormed
<1>5. QED
  BY <1>4, TypesKept DEF WellFormed, extend, clockVars, printVars, fundVars

\* What submitCross does, for the executions fill it is called with.
Crosses(a, solver, price, fill) ==
  /\ fill \in [DOMAIN fill -> Nat] /\ DOMAIN fill \subseteq DOMAIN books[a]
  /\ applyCrossReturns(a, resolved(a), price, fill)
  /\ commitments' = applyCross(a, price, fill)
  /\ auctions' = [auctions EXCEPT ![a] = crossed(a, solver, price, fill)]

LEMMA SubmitStep ==
  ASSUME NEW a \in Auctions, NEW s \in Solvers, NEW price \in Prices, submitCross(a, s, price)
  PROVE  \E fill : Crosses(a, s, price, fill)
<1> DEFINE Does(fill) == /\ applyCrossReturns(a, resolved(a), price, fill)
                         /\ commitments' = applyCross(a, price, fill)
                         /\ auctions' = [auctions EXCEPT ![a] = crossed(a, s, price, fill)]
<1>1. PICK P \in SUBSET DOMAIN books[a] : \E fill \in [P -> 0..MaxSell] : Does(fill)
  BY DEF submitCross
<1>2. PICK fill \in [P -> 0..MaxSell] : Does(fill)
  BY <1>1
<1>3. \A k \in P : fill[k] \in Nat
  BY <1>2
<1>4. fill \in [DOMAIN fill -> Nat] /\ DOMAIN fill \subseteq DOMAIN books[a]
  BY <1>3
<1>5. Crosses(a, s, price, fill)
  BY <1>2, <1>4 DEF Crosses
<1>6. QED  BY <1>5

LEMMA CrossFigures ==
  ASSUME WellFormed, NEW a \in Auctions, NEW s, NEW price \in Prices, NEW fill,
         Crosses(a, s, price, fill)
  PROVE  /\ \A buy \in BOOLEAN : /\ SoldIn(a, fill, buy) \in Nat
                                 /\ BoughtIn(a, fill, buy, price) \in Nat
         /\ countParticipants(a, fill) \in Nat
         /\ SoldIn(a, fill, FALSE) - BoughtIn(a, fill, TRUE, price) \in Nat
         /\ SoldIn(a, fill, TRUE) - BoughtIn(a, fill, FALSE, price) \in Nat
<1>1. price \in Nat \ {0}
  BY PricesNat
<1>2. fill \in [DOMAIN fill -> Nat] /\ DOMAIN fill \in SUBSET DOMAIN books[a]
  BY DEF Crosses
<1>3. \A buy \in BOOLEAN : /\ SoldIn(a, fill, buy) \in Nat
                           /\ BoughtIn(a, fill, buy, price) \in Nat
  BY <1>1, <1>2, FillSums
<1>4. countParticipants(a, fill) \in Nat
  <2>1. IsFiniteSet(DOMAIN fill)
    BY <1>2, BookTypes, FS_Subset
  <2> DEFINE who == [k \in DOMAIN fill |-> books[a][k].owner]
             all == {who[k] : k \in DOMAIN fill}
  <2>2. who \in Surjection(DOMAIN fill, all)
    BY DEF Surjection
  <2>3. IsFiniteSet(all)
    BY <2>1, <2>2, FS_Surjection
  <2>4. countParticipants(a, fill) = Cardinality(all)
    BY DEF countParticipants
  <2> HIDE DEF all
  <2>5. QED  BY <2>3, <2>4, FS_CardinalityType
<1>5. /\ SoldIn(a, fill, FALSE) >= BoughtIn(a, fill, TRUE, price)
      /\ SoldIn(a, fill, TRUE) >= BoughtIn(a, fill, FALSE, price)
  BY DEF Crosses, applyCrossReturns
<1>6. /\ SoldIn(a, fill, FALSE) \in Nat /\ BoughtIn(a, fill, FALSE, price) \in Nat
      /\ SoldIn(a, fill, TRUE) \in Nat /\ BoughtIn(a, fill, TRUE, price) \in Nat
  BY <1>3
<1>7. /\ SoldIn(a, fill, FALSE) - BoughtIn(a, fill, TRUE, price) \in Nat
      /\ SoldIn(a, fill, TRUE) - BoughtIn(a, fill, FALSE, price) \in Nat
  <2> DEFINE w == SoldIn(a, fill, FALSE)
             x == BoughtIn(a, fill, TRUE, price)
             y == SoldIn(a, fill, TRUE)
             z == BoughtIn(a, fill, FALSE, price)
  <2>1. w \in Nat /\ x \in Nat /\ y \in Nat /\ z \in Nat /\ w >= x /\ y >= z
    BY <1>5, <1>6
  <2> HIDE DEF w, x, y, z
  <2>2. w - x \in Nat /\ y - z \in Nat
    BY <2>1
  <2>3. QED  BY <2>2 DEF w, x, y, z
<1>8. QED  BY <1>3, <1>4, <1>7

LEMMA SubmitTypes ==
  ASSUME WellFormed, NEW a \in Auctions, NEW s \in Solvers, NEW price \in Prices,
         submitCross(a, s, price), \A i \in Booked(a) : commitments[i] # NoCommitment
  PROVE  WellFormed'
<1>1. PICK fill : Crosses(a, s, price, fill)
  BY SubmitStep
<1>2. resolved(a) \in AuctionRecords /\ price \in Nat \ {0} /\ now \in Nat
  BY ResolvedTypes, PricesNat DEF submitCross, WellFormed
<1>3. auctions' \in [Auctions -> AuctionRecords]
  <2>1. /\ BoughtIn(a, fill, TRUE, price) \in Nat /\ countParticipants(a, fill) \in Nat
        /\ SoldIn(a, fill, FALSE) - BoughtIn(a, fill, TRUE, price) \in Nat
        /\ SoldIn(a, fill, TRUE) - BoughtIn(a, fill, FALSE, price) \in Nat
    BY <1>1, CrossFigures
  <2>2. crossed(a, s, price, fill) \in AuctionRecords
    BY <1>2, <2>1 DEF AuctionRecords, crossed
  <2>3. QED  BY <1>1, <2>2 DEF WellFormed, Crosses
<1>4. commitments' \in [Intents -> CommitmentRecords \cup {NoCommitment}]
  <2>1. \A i \in Intents : commitments'[i] \in CommitmentRecords \cup {NoCommitment}
    <3> SUFFICES ASSUME NEW i \in Intents
                 PROVE  commitments'[i] \in CommitmentRecords \cup {NoCommitment}
      OBVIOUS
    <3>1. CASE ~ \E k \in DOMAIN fill : books[a][k] = i
      BY <1>1, <3>1 DEF Crosses, applyCross, WellFormed
    <3>2. CASE \E k \in DOMAIN fill : books[a][k] = i
      <4> DEFINE k == CHOOSE j \in DOMAIN fill : books[a][j] = i
      <4>1. k \in DOMAIN fill /\ books[a][k] = i
        BY <3>2
      <4>2. commitments[i] \in CommitmentRecords
        BY <1>1, <4>1, BookTypes DEF Crosses, WellFormed, Booked
      <4>3. commitments'[i] = [commitments[i] EXCEPT
              !.filledSell = commitments[i].filledSell + fill[k],
              !.filledBuy = commitments[i].filledBuy + boughtAt(i, fill[k], price)]
        BY <1>1, <3>2 DEF Crosses, applyCross
      <4> HIDE DEF k
      <4>4. fill[k] \in Nat /\ boughtAt(i, fill[k], price) \in Nat
        BY <1>1, <1>2, <4>1, BoughtNat DEF Crosses
      <4>5. /\ commitments[i].filledSell + fill[k] \in Nat
            /\ commitments[i].filledBuy + boughtAt(i, fill[k], price) \in Nat
        BY <4>2, <4>4 DEF CommitmentRecords
      <4>6. QED  BY <4>2, <4>3, <4>5 DEF CommitmentRecords
    <3>3. QED  BY <3>1, <3>2
  <2>2. commitments' = [i \in Intents |-> commitments'[i]]
    BY <1>1 DEF Crosses, applyCross
  <2>3. QED  BY <2>1, <2>2
<1>5. ledger' \in [Accounts -> [Tokens -> Int]]
  <2>1. ledger' = transfer(ledger, s, House, Quote, BOND) /\ ledger \in [Accounts -> [Tokens -> Int]]
    BY DEF submitCross, WellFormed
  <2>2. s \in Accounts /\ House \in Accounts /\ s # House /\ Quote \in Tokens /\ BOND \in Int
    BY Parties, Numbers
  <2>3. QED  BY <2>1, <2>2, TransferTypes
<1>6. QED
  BY <1>3, <1>4, <1>5, TypesKept DEF WellFormed, submitCross, clockVars, printVars

LEMMA RewardShare == reward \in Nat /\ reward <= BOND
<1> DEFINE x == BOND * CHALLENGE_REWARD_BPS
<1>1. BOND \in Nat /\ CHALLENGE_REWARD_BPS \in 0..BPS /\ BPS \in Nat \ {0}
  BY Numbers, ScaleAssumption
<1>2. x \in Nat /\ x <= BOND * BPS
  BY <1>1, Z3
<1>3. BOND * BPS \in Nat /\ (BOND * BPS) \div BPS = BOND
  BY <1>1, Z3
<1> HIDE DEF x
<1>4. x \div BPS \in Nat /\ x \div BPS <= (BOND * BPS) \div BPS
  BY <1>1, <1>2, <1>3, Z3
<1>5. QED  BY <1>3, <1>4 DEF reward, x

\* A cross that is taken back leaves a record of the same shape.
LEMMA RollbackCrossTyped ==
  ASSUME WellFormed, NEW a \in Auctions
  PROVE  rollbackCross(a) \in AuctionRecords
<1>1. auctions[a] \in AuctionRecords
  BY DEF WellFormed
<1>2. QED
  BY <1>1 DEF rollbackCross, AuctionRecords

\* Giving the fills of a book back touches nothing else.
LEMMA RollbackTypes ==
  ASSUME WellFormed, NEW a \in Auctions, \A i \in Booked(a) : commitments[i] # NoCommitment
  PROVE  /\ rollbackFills(a) \in [Intents -> CommitmentRecords \cup {NoCommitment}]
         /\ rollbackCross(a) \in AuctionRecords
<1>1. \A i \in Booked(a) : commitments[i] \in CommitmentRecords
  BY BookTypes DEF WellFormed
<1>2. \A i \in Booked(a) :
        [commitments[i] EXCEPT !.filledSell = 0, !.filledBuy = 0] \in CommitmentRecords
  BY <1>1 DEF CommitmentRecords
<1>3. rollbackFills(a) \in [Intents -> CommitmentRecords \cup {NoCommitment}]
  BY <1>2 DEF rollbackFills, WellFormed
<1>4. QED  BY <1>3, RollbackCrossTyped

\* The loser's bond is split between the winner, who is handed n in all, and the
\* treasury.
splitBond(l, winner, n) ==
  transfer(transfer(l, House, winner, Quote, n), House, Treasury, Quote, BOND - reward)

LEMMA SplitTypes ==
  ASSUME NEW l \in [Accounts -> [Tokens -> Int]], NEW w \in Accounts, w # House, NEW n \in Int
  PROVE  /\ splitBond(l, w, n) \in [Accounts -> [Tokens -> Int]]
         /\ splitBond(l, w, n)[House][Quote] = l[House][Quote] - n - (BOND - reward)
<1>1. House \in Accounts /\ Treasury \in Accounts /\ House # Treasury
  BY Parties
<1>2. Quote \in Tokens
  BY Numbers
<1> DEFINE m == transfer(l, House, w, Quote, n)
           k == BOND - reward
<1>3. m \in [Accounts -> [Tokens -> Int]]
  BY <1>1, <1>2, TransferTypes
<1>p. m[House][Quote] = l[House][Quote] - n
  BY <1>1, <1>2, TransferPays
<1>4. k \in Int
  BY Numbers, RewardShare
<1> HIDE DEF m, k
<1>5. transfer(m, House, Treasury, Quote, k) \in [Accounts -> [Tokens -> Int]]
  BY <1>1, <1>2, <1>3, <1>4, TransferTypes
<1>q. transfer(m, House, Treasury, Quote, k)[House][Quote] = m[House][Quote] - k
  BY <1>1, <1>2, <1>3, <1>4, TransferPays
<1>6. splitBond(l, w, n) = transfer(m, House, Treasury, Quote, k)
  BY DEF splitBond, m, k
<1>7. splitBond(l, w, n)[House][Quote] = l[House][Quote] - n - k
  BY <1>p, <1>q, <1>6
<1>8. QED  BY <1>5, <1>6, <1>7 DEF k

LEMMA SplitOther ==
  ASSUME NEW l \in [Accounts -> [Tokens -> Int]], NEW w \in Accounts, w # House, NEW n \in Int,
         NEW d \in Accounts, NEW u \in Tokens, u # Quote \/ (d # House /\ d # Treasury /\ d # w)
  PROVE  splitBond(l, w, n)[d][u] = l[d][u]
<1>1. House \in Accounts /\ Treasury \in Accounts /\ House # Treasury
  BY Parties
<1>2. Quote \in Tokens
  BY Numbers
<1> DEFINE m == transfer(l, House, w, Quote, n)
           k == BOND - reward
<1>3. m \in [Accounts -> [Tokens -> Int]]
  BY <1>1, <1>2, TransferTypes, TransferPays, TransferGets
<1>4. m[d][u] = l[d][u]
  BY <1>1, <1>2, TransferOther
<1>5. k \in Int
  BY Numbers, RewardShare
<1> HIDE DEF m, k
<1>6. transfer(m, House, Treasury, Quote, k)[d][u] = m[d][u]
  BY <1>1, <1>2, <1>3, <1>5, TransferOther, SMTT(60)
<1>7. QED  BY <1>4, <1>6 DEF splitBond, m, k

\* What a challenge does to the accounts: only a winning one hands out the
\* solver's bond too.
LEMMA ChallengeLedger ==
  ASSUME WellFormed, NEW a \in Auctions, NEW c \in Challengers, NEW p \in Prices,
         challenge(a, c, p), auctions[a].solver \in Solvers
  PROVE  /\ ledger' \in [Accounts -> [Tokens -> Int]]
         /\ \A t \in Tokens \ {Quote} : ledger'[House][t] = ledger[House][t]
         /\ auctions'[a].phase = "CROSSED" => ledger'[House][Quote] = ledger[House][Quote]
         /\ auctions'[a].phase # "CROSSED" => ledger'[House][Quote] = ledger[House][Quote] - BOND
         /\ \A d \in Accounts \ {House, Treasury, c, auctions[a].solver}, t \in Tokens :
              ledger'[d][t] = ledger[d][t]
<1> DEFINE taken == transfer(ledger, c, House, Quote, BOND)
           s == auctions[a].solver
<1>0. BOND \in Int /\ reward \in Int /\ BOND + reward \in Int
  BY Numbers, RewardShare
<1>1. /\ House \in Accounts /\ Treasury \in Accounts /\ House # Treasury /\ Quote \in Tokens
      /\ ledger \in [Accounts -> [Tokens -> Int]] /\ ledger[House][Quote] \in Int
      /\ c \in Accounts /\ c # House /\ s \in Accounts /\ s # House
      /\ auctions[a].phase = "CROSSED" /\ auctions \in [Auctions -> AuctionRecords]
  BY Parties, Numbers DEF WellFormed, challenge, challengeable
<1>2a. taken \in [Accounts -> [Tokens -> Int]]
  BY <1>0, <1>1, TransferTypes
<1>2b. taken[House][Quote] = ledger[House][Quote] + BOND
  BY <1>0, <1>1, TransferGets
<1>2. taken \in [Accounts -> [Tokens -> Int]] /\ taken[House][Quote] = ledger[House][Quote] + BOND
  BY <1>2a, <1>2b
<1>3. ASSUME NEW d \in Accounts, NEW u \in Tokens, u # Quote \/ (d # c /\ d # House)
      PROVE  taken[d][u] = ledger[d][u]
  BY <1>0, <1>1, <1>3, TransferOther
<1>4. CASE ledger' = seizeBond(taken, s) /\ UNCHANGED <<auctions, commitments>>
  <2>1. ledger' = splitBond(taken, s, reward)
    BY <1>4 DEF seizeBond, splitBond
  <2> HIDE DEF taken, s
  <2>2. /\ ledger' \in [Accounts -> [Tokens -> Int]]
        /\ ledger'[House][Quote] = taken[House][Quote] - reward - (BOND - reward)
    BY <1>0, <1>1, <1>2, <2>1, SplitTypes
  <2>3. ASSUME NEW d \in Accounts, NEW u \in Tokens,
               u # Quote \/ (d # House /\ d # Treasury /\ d # c /\ d # s)
        PROVE  ledger'[d][u] = ledger[d][u]
    <3>1. taken[d][u] = ledger[d][u]
      BY <1>3, <2>3
    <3>2. ledger'[d][u] = taken[d][u]
      BY <1>0, <1>1, <1>2, <2>1, <2>3, SplitOther
    <3>3. QED  BY <3>1, <3>2
  <2>4. ledger'[House][Quote] = ledger[House][Quote]
    BY <1>0, <1>1, <1>2, <2>2
  <2>5. auctions'[a].phase = "CROSSED"
    BY <1>1, <1>4
  <2>6. QED  BY <1>1, <2>2, <2>3, <2>4, <2>5 DEF s
<1>5. CASE ledger' = payBond(taken, c) /\ auctions' = [auctions EXCEPT ![a] =
                   [rollbackCross(a) EXCEPT !.phase = "FROZEN", !.solver = NoSolver]]
  <2>1. ledger' = splitBond(taken, c, BOND + reward)
    BY <1>5 DEF payBond, splitBond
  <2> HIDE DEF taken, s
  <2>2. /\ ledger' \in [Accounts -> [Tokens -> Int]]
        /\ ledger'[House][Quote] = taken[House][Quote] - (BOND + reward) - (BOND - reward)
    BY <1>0, <1>1, <1>2, <2>1, SplitTypes
  <2>3. ASSUME NEW d \in Accounts, NEW u \in Tokens,
               u # Quote \/ (d # House /\ d # Treasury /\ d # c /\ d # s)
        PROVE  ledger'[d][u] = ledger[d][u]
    <3>1. taken[d][u] = ledger[d][u]
      BY <1>3, <2>3
    <3>2. ledger'[d][u] = taken[d][u]
      BY <1>0, <1>1, <1>2, <2>1, <2>3, SplitOther
    <3>3. QED  BY <3>1, <3>2
  <2>4. ledger'[House][Quote] = ledger[House][Quote] - BOND
    BY <1>0, <1>1, <1>2, <2>2
  <2>5. auctions'[a].phase = "FROZEN"
    <3>1. rollbackCross(a) \in AuctionRecords
      BY RollbackCrossTyped
    <3>2. QED  BY <1>1, <1>5, <3>1 DEF AuctionRecords
  <2>6. QED  BY <1>1, <2>2, <2>3, <2>4, <2>5 DEF s
<1>6. QED
  BY <1>4, <1>5 DEF challenge

LEMMA ChallengeTypes ==
  ASSUME WellFormed, NEW a \in Auctions, NEW c \in Challengers, NEW p \in Prices,
         challenge(a, c, p), auctions[a].solver \in Solvers,
         \A i \in Booked(a) : commitments[i] # NoCommitment
  PROVE  WellFormed'
<1>1. ledger' \in [Accounts -> [Tokens -> Int]]
  BY ChallengeLedger
<1>2. CASE UNCHANGED <<auctions, commitments>>
  BY <1>1, <1>2, TypesKept DEF WellFormed, challenge, clockVars, printVars
<1>3. CASE /\ commitments' = rollbackFills(a)
           /\ auctions' = [auctions EXCEPT ![a] = [rollbackCross(a) EXCEPT !.phase = "FROZEN",
                                                                           !.solver = NoSolver]]
  <2>1. [rollbackCross(a) EXCEPT !.phase = "FROZEN", !.solver = NoSolver] \in AuctionRecords
    BY RollbackTypes DEF AuctionRecords
  <2>2. auctions' \in [Auctions -> AuctionRecords]
    BY <1>3, <2>1 DEF WellFormed
  <2>3. commitments' \in [Intents -> CommitmentRecords \cup {NoCommitment}]
    BY <1>3, RollbackTypes
  <2>4. QED
    BY <1>1, <2>2, <2>3, TypesKept DEF WellFormed, challenge, clockVars, printVars
<1>4. QED  BY <1>2, <1>3 DEF challenge

LEMMA ReceivedNat ==
  ASSUME WellFormed, NEW a \in Auctions, NEW A, NEW t,
         \A i \in Booked(a) : commitments[i] # NoCommitment
  PROVE  Received(a, A, t) \in Nat
<1> DEFINE f == [i \in Booked(a) |-> commitments[i].filledBuy]
           K == {i \in Booked(a) : i.receiver \in A /\ BuyToken(i) = t}
<1>1. IsFiniteSet(K)
  BY BookTypes, Numbers, FS_Subset
<1>2. \A i \in K : f[i] \in Nat
  BY BookTypes DEF WellFormed, CommitmentRecords
<1> HIDE DEF f, K
<1>3. SumFunctionOnSet(f, K) \in Nat
  BY <1>1, <1>2, SumNat
<1>4. QED  BY <1>3 DEF Received, f, K

LEMMA PaidOutNat ==
  ASSUME WellFormed, NEW a \in Auctions, NEW A, NEW t,
         \A i \in Booked(a) : commitments[i] # NoCommitment
  PROVE  PaidOut(a, A, t) \in Nat
<1>1. Received(a, A, t) \in Nat
  BY ReceivedNat
<1>2. auctions[a].tokenDust \in Nat /\ auctions[a].quoteDust \in Nat /\ BOND \in Nat
  BY Numbers DEF WellFormed, AuctionRecords
<1> DEFINE d1 == IF Treasury \in A /\ t = AuctionToken[a] THEN auctions[a].tokenDust ELSE 0
           d2 == IF Treasury \in A /\ t = Quote THEN auctions[a].quoteDust ELSE 0
           d3 == IF auctions[a].solver \in A /\ t = Quote THEN BOND ELSE 0
<1>3. d1 \in Nat /\ d2 \in Nat /\ d3 \in Nat
  BY <1>2
<1>4. PaidOut(a, A, t) = Received(a, A, t) + d1 + d2 + d3
  BY DEF PaidOut
<1> HIDE DEF d1, d2, d3
<1>5. QED  BY <1>1, <1>3, <1>4

LEMMA ExecuteLedger ==
  ASSUME WellFormed, NEW a \in Auctions, executeCross(a),
         \A i \in Booked(a) : commitments[i] # NoCommitment
  PROVE  /\ ledger' \in [Accounts -> [Tokens -> Int]]
         /\ \A t \in Tokens : ledger'[House][t] = ledger[House][t] - PaidOut(a, Accounts \ {House}, t)
         /\ \A c \in Accounts \ {House}, t \in Tokens : ledger'[c][t] = ledger[c][t] + PaidOut(a, {c}, t)
<1> DEFINE n(c, t) == IF c = House THEN ledger[House][t] - PaidOut(a, Accounts \ {House}, t)
                                   ELSE ledger[c][t] + PaidOut(a, {c}, t)
<1>1. ledger' = [c \in Accounts |-> [t \in Tokens |-> n(c, t)]]
  BY DEF executeCross
<1>2. \A c \in Accounts, t \in Tokens : n(c, t) \in Int
  <2> SUFFICES ASSUME NEW c \in Accounts, NEW t \in Tokens PROVE n(c, t) \in Int
    OBVIOUS
  <2>1. PaidOut(a, Accounts \ {House}, t) \in Nat /\ PaidOut(a, {c}, t) \in Nat
    BY PaidOutNat
  <2>2. ledger[House][t] \in Int /\ ledger[c][t] \in Int
    BY Parties DEF WellFormed
  <2>3. QED  BY <2>1, <2>2
<1>3. \A c \in Accounts, t \in Tokens : ledger'[c][t] = n(c, t)
  BY <1>1
<1>4. ledger' \in [Accounts -> [Tokens -> Int]]
  <2> HIDE DEF n
  <2>1. QED  BY <1>1, <1>2
<1>5. QED  BY <1>3, <1>4, Parties

LEMMA ExecuteTypes ==
  ASSUME WellFormed, NEW a \in Auctions, executeCross(a), auctions[a].solver \in Solvers,
         \A i \in Booked(a) : commitments[i] # NoCommitment
  PROVE  WellFormed'
<1>1. ledger' \in [Accounts -> [Tokens -> Int]]
  BY ExecuteLedger
<1>2. [auctions[a] EXCEPT !.phase = "EXECUTED"] \in AuctionRecords
  <2>1. auctions[a] \in AuctionRecords
    BY DEF WellFormed
  <2>2. QED  BY <2>1 DEF AuctionRecords
<1>3. auctions' \in [Auctions -> AuctionRecords]
  BY <1>2 DEF WellFormed, executeCross
<1>4. wins' \in [Solvers -> Nat]
  BY DEF WellFormed, executeCross
<1>5. latestPrintDay' \in [Tokens \ {Quote} -> Nat]
  <2>1. latestPrintDay \in [Tokens \ {Quote} -> Nat]
    BY DEF WellFormed
  <2>2. AuctionToken[a] \in Tokens \ {Quote} /\ AuctionDay[a] \in Nat
    BY AuctionData
  <2>3. laterDay(AuctionDay[a], latestPrintDay[AuctionToken[a]]) \in Nat
    BY <2>1, <2>2 DEF laterDay
  <2>4. \/ latestPrintDay' = latestPrintDay
        \/ latestPrintDay' = [latestPrintDay EXCEPT ![AuctionToken[a]] =
                                laterDay(AuctionDay[a], latestPrintDay[AuctionToken[a]])]
    BY DEF executeCross, publishPrint, printVars
  <2>5. QED  BY <2>1, <2>3, <2>4
<1>6. QED
  BY <1>1, <1>3, <1>4, <1>5 DEF WellFormed, executeCross, clockVars, worldVars

LEMMA AbortTypes ==
  ASSUME WellFormed, NEW a \in Auctions, abortAuction(a),
         auctions[a].phase = "CROSSED" => auctions[a].solver \in Solvers,
         \A i \in Booked(a) : commitments[i] # NoCommitment
  PROVE  WellFormed'
<1>1. CASE auctions[a].phase = "CROSSED"
  <2>1. /\ commitments' = rollbackFills(a)
        /\ auctions' = [auctions EXCEPT ![a] = [rollbackCross(a) EXCEPT !.phase = "ABORTED"]]
        /\ ledger' = transfer(ledger, House, auctions[a].solver, Quote, BOND)
    BY <1>1 DEF abortAuction
  <2>2. [rollbackCross(a) EXCEPT !.phase = "ABORTED"] \in AuctionRecords
    <3>1. rollbackCross(a) \in AuctionRecords
      BY RollbackTypes
    <3>2. QED  BY <3>1 DEF AuctionRecords
  <2>3. auctions' \in [Auctions -> AuctionRecords]
    BY <2>1, <2>2 DEF WellFormed
  <2>4. commitments' \in [Intents -> CommitmentRecords \cup {NoCommitment}]
    BY <2>1, RollbackTypes
  <2>5. /\ ledger \in [Accounts -> [Tokens -> Int]] /\ House \in Accounts
        /\ auctions[a].solver \in Accounts /\ Quote \in Tokens /\ BOND \in Int
    BY <1>1, Parties, Numbers DEF WellFormed
  <2>6. ledger' \in [Accounts -> [Tokens -> Int]]
    BY <2>1, <2>5, TransferTypes
  <2>7. QED
    BY <2>3, <2>4, <2>6, TypesKept DEF WellFormed, abortAuction, clockVars, printVars
<1>2. CASE auctions[a].phase # "CROSSED"
  <2>1. [auctions[a] EXCEPT !.phase = "ABORTED"] \in AuctionRecords
    <3>1. auctions[a] \in AuctionRecords
      BY DEF WellFormed
    <3>2. QED  BY <3>1 DEF AuctionRecords
  <2>2. auctions' \in [Auctions -> AuctionRecords]
    BY <1>2, <2>1 DEF WellFormed, abortAuction
  <2>3. QED
    BY <1>2, <2>2, TypesKept DEF WellFormed, abortAuction, clockVars, printVars
<1>3. QED  BY <1>1, <1>2

LEMMA RefundTypes ==
  ASSUME WellFormed, NEW i \in Intents, refundEscrow(i)
  PROVE  WellFormed'
<1>1. commitments[i] \in CommitmentRecords
  BY DEF WellFormed, refundEscrow, refundable
<1>2. [commitments[i] EXCEPT !.refunded = TRUE] \in CommitmentRecords
  BY <1>1 DEF CommitmentRecords
<1>3. commitments' \in [Intents -> CommitmentRecords \cup {NoCommitment}]
  BY <1>2 DEF WellFormed, refundEscrow
<1> DEFINE n == i.sellAmount - commitments[i].filledSell
<1>4. n \in Int
  BY <1>1, IntentData DEF CommitmentRecords
<1>5. ledger' = transfer(ledger, House, i.owner, SellToken(i), n)
  BY DEF refundEscrow
<1> HIDE DEF n
<1>6. /\ ledger \in [Accounts -> [Tokens -> Int]] /\ House \in Accounts
      /\ i.owner \in Accounts /\ SellToken(i) \in Tokens
  BY Parties, IntentData DEF WellFormed
<1>7. ledger' \in [Accounts -> [Tokens -> Int]]
  BY <1>4, <1>5, <1>6, TransferTypes
<1>8. QED
  BY <1>3, <1>7, TypesKept DEF WellFormed, refundEscrow, clockVars, printVars

LEMMA OwnerTypes == ASSUME WellFormed, OwnerStep PROVE WellFormed'
<1>1. ledger' \in [Accounts -> [Tokens -> Int]] /\ movedOut' \in [Owners -> [Tokens -> Int]]
  <2>1. CASE \E o \in Owners \cap acting, t \in Tokens : moveFunds(o, t)
    <3>1. PICK o \in Owners, t \in Tokens : moveFunds(o, t)
      BY <2>1
    <3>2. o \in Accounts
      BY Parties
    <3>3. ledger' = [ledger EXCEPT ![o][t] = 0] /\ ledger \in [Accounts -> [Tokens -> Int]]
      BY <3>1 DEF moveFunds, WellFormed
    <3>4. ledger' \in [Accounts -> [Tokens -> Int]]
      BY <3>2, <3>3
    <3>5. /\ movedOut' = [movedOut EXCEPT ![o][t] = movedOut[o][t] + ledger[o][t]]
          /\ movedOut \in [Owners -> [Tokens -> Int]]
      BY <3>1 DEF moveFunds, WellFormed
    <3>6. movedOut[o][t] + ledger[o][t] \in Int
      BY <3>2, <3>3, <3>5
    <3>7. movedOut' \in [Owners -> [Tokens -> Int]]
      BY <3>5, <3>6
    <3>8. QED  BY <3>4, <3>7
  <2>2. CASE UNCHANGED <<ledger, movedOut>>
    BY <2>2 DEF WellFormed
  <2>3. QED  BY <2>1, <2>2 DEF OwnerStep, setApproval, invalidateNonce
<1>2. QED
  BY <1>1 DEF WellFormed, OwnerStep, clockVars, houseVars, printVars, worldVars

LEMMA MarketTypes == ASSUME WellFormed, MarketStep PROVE WellFormed'
<1>1. uiMultiplier' \in [Tokens \ {Quote} -> Multipliers]
  BY DEF WellFormed, MarketStep, worldVars
<1>2. refPrice' \in [Tokens \ {Quote} -> Prices \cup {0}]
  BY DEF WellFormed, MarketStep, worldVars
<1>3. openReference' \in [Auctions -> Prices \cup {0}]
  BY DEF WellFormed, MarketStep, worldVars
<1>4. active' \subseteq Solvers
  BY DEF WellFormed, MarketStep, worldVars
<1>5. QED
  BY <1>1, <1>2, <1>3, <1>4 DEF WellFormed, MarketStep, clockVars, houseVars, printVars, fundVars

LEMMA OtherTypes ==
  ASSUME WellFormed, pause \/ Tick \/ (\E t \in Tokens \ {Quote} : setAuctionTokenAllowed(t))
                     \/ UNCHANGED vars
  PROVE  WellFormed'
<1>1. CASE pause
  BY <1>1, Numbers DEF WellFormed, pause, houseVars, printVars, fundVars, worldVars
<1>2. CASE Tick
  BY <1>2, Numbers DEF WellFormed, Tick, houseVars, printVars, fundVars, worldVars
<1>3. CASE \E t \in Tokens \ {Quote} : setAuctionTokenAllowed(t)
  BY <1>3 DEF WellFormed, setAuctionTokenAllowed, clockVars, printVars, fundVars, worldVars
<1>4. CASE UNCHANGED vars
  BY <1>4 DEF WellFormed, vars, clockVars, houseVars, printVars, fundVars, worldVars
<1>5. QED  BY <1>1, <1>2, <1>3, <1>4

----------------------------------------------------------------------------
(* The books.                                                              *)

\* An intent stands in the book of one auction at most, once, and in that of
\* its own token; its commitment names that auction (commitAuctionIntent).
BookInv ==
  /\ \A a \in Auctions : \A j, k \in DOMAIN books[a] : books[a][j] = books[a][k] => j = k
  /\ \A a \in Auctions : \A i \in Booked(a) :
       /\ commitments[i] # NoCommitment /\ commitments[i].auction = a
       /\ i.token = AuctionToken[a]
  /\ \A i \in Intents, a \in Auctions :
       commitments[i] # NoCommitment /\ commitments[i].auction = a => i \in Booked(a)

\* Only commitAuctionIntent books; the others leave the books, and the
\* commitments that exist, where they are.
SameBooking ==
  /\ books' = books
  /\ \A i \in Intents :
       /\ commitments'[i] = NoCommitment <=> commitments[i] = NoCommitment
       /\ commitments[i] # NoCommitment => commitments'[i].auction = commitments[i].auction

LEMMA BookKept == ASSUME WellFormed, BookInv, SameBooking PROVE BookInv'
<1>1. ASSUME NEW a \in Auctions PROVE Booked(a)' = Booked(a)
  BY DEF SameBooking, Booked
<1>2. \A a \in Auctions : Booked(a) \subseteq Intents
  BY BookTypes
<1>3. \A a \in Auctions : \A j, k \in DOMAIN books'[a] : books'[a][j] = books'[a][k] => j = k
  BY DEF SameBooking, BookInv
<1>4. ASSUME NEW a \in Auctions, NEW i \in Booked(a)'
      PROVE  /\ commitments'[i] # NoCommitment /\ commitments'[i].auction = a
             /\ i.token = AuctionToken[a]
  BY <1>1, <1>2, <1>4 DEF SameBooking, BookInv
<1>5. ASSUME NEW i \in Intents, NEW a \in Auctions,
             commitments'[i] # NoCommitment, commitments'[i].auction = a
      PROVE  i \in Booked(a)'
  BY <1>1, <1>5 DEF SameBooking, BookInv
<1>6. QED  BY <1>3, <1>4, <1>5 DEF BookInv

LEMMA CommitBooks ==
  ASSUME WellFormed, BookInv, NEW i \in Intents, commitAuctionIntent(i)
  PROVE  BookInv'
<1>1. commitments[i] = NoCommitment
  BY DEF commitAuctionIntent
<1>2. PICK a \in nextCross(i.auctionKind, i.token) :
        /\ commitments' = [commitments EXCEPT ![i] =
             [auction |-> a, escrowed |-> FALSE, cancelled |-> FALSE, refunded |-> FALSE,
              filledSell |-> 0, filledBuy |-> 0]]
        /\ books' = [books EXCEPT ![a] = Append(books[a], i)]
  BY DEF commitAuctionIntent
<1>3. a \in Auctions /\ AuctionToken[a] = i.token
  BY <1>2 DEF nextCross
<1>4. i \notin Booked(a)
  BY <1>1, <1>3 DEF BookInv
<1>5. /\ commitments'[i] # NoCommitment /\ commitments'[i].auction = a
      /\ \A j \in Intents : j # i => commitments'[j] = commitments[j]
  <2> DEFINE new == [auction |-> a, escrowed |-> FALSE, cancelled |-> FALSE, refunded |-> FALSE,
                     filledSell |-> 0, filledBuy |-> 0]
  <2>1. new \in CommitmentRecords
    BY <1>3 DEF CommitmentRecords
  <2>2. commitments'[i] = new /\ new # NoCommitment
    BY <1>2, <2>1, Parties DEF WellFormed
  <2>3. QED  BY <1>2, <2>2 DEF WellFormed
<1>6. books[a] \in Seq(Intents) /\ books \in [Auctions -> Seq(Intents)]
  BY <1>3 DEF WellFormed
<1>7. /\ \A c \in Auctions : c # a => books'[c] = books[c]
      /\ books'[a] = Append(books[a], i)
  BY <1>2, <1>3, <1>6
<1>8. ASSUME NEW c \in Auctions, c # a PROVE Booked(c)' = Booked(c)
  BY <1>7, <1>8 DEF Booked
<1> DEFINE n == Len(books[a]) + 1
<1>9. /\ DOMAIN books'[a] = DOMAIN books[a] \cup {n} /\ n \notin DOMAIN books[a]
      /\ books'[a][n] = i /\ \A k \in DOMAIN books[a] : books'[a][k] = books[a][k]
  BY <1>6, <1>7
<1> HIDE DEF n
<1>10. Booked(a)' = Booked(a) \cup {i}
  BY <1>9 DEF Booked
<1>11. ASSUME NEW c \in Auctions, NEW j \in DOMAIN books'[c], NEW k \in DOMAIN books'[c],
              books'[c][j] = books'[c][k]
       PROVE  j = k
  <2>1. CASE c # a
    BY <1>7, <1>11, <2>1 DEF BookInv
  <2>2. CASE c = a
    <3>1. \A l \in DOMAIN books[a] : books[a][l] # i
      BY <1>4 DEF Booked
    <3>2. QED  BY <1>3, <1>9, <1>11, <2>2, <3>1 DEF BookInv
  <2>3. QED  BY <2>1, <2>2
<1>12. ASSUME NEW c \in Auctions, NEW j \in Booked(c)'
       PROVE  /\ commitments'[j] # NoCommitment /\ commitments'[j].auction = c
              /\ j.token = AuctionToken[c]
  <2>1. CASE j = i
    <3>1. c = a
      BY <1>1, <1>8, <1>12, <2>1 DEF BookInv
    <3>2. QED  BY <1>3, <1>5, <2>1, <3>1
  <2>2. CASE j # i
    <3>1. j \in Booked(c)
      BY <1>8, <1>10, <1>12, <2>2
    <3>2. j \in Intents
      BY <3>1, BookTypes
    <3>3. QED  BY <1>5, <2>2, <3>1, <3>2 DEF BookInv
  <2>3. QED  BY <2>1, <2>2
<1>13. ASSUME NEW j \in Intents, NEW c \in Auctions,
              commitments'[j] # NoCommitment, commitments'[j].auction = c
       PROVE  j \in Booked(c)'
  <2>1. CASE j = i
    BY <1>5, <1>10, <1>13, <2>1
  <2>2. CASE j # i
    <3>1. j \in Booked(c)
      BY <1>5, <1>13, <2>2 DEF BookInv
    <3>2. QED  BY <1>8, <1>10, <3>1
  <2>3. QED  BY <2>1, <2>2
<1>14. QED  BY <1>11, <1>12, <1>13 DEF BookInv

\* A booked intent is committed.
LEMMA BookedCommitted ==
  ASSUME WellFormed, BookInv, NEW a \in Auctions, NEW i \in Booked(a)
  PROVE  /\ i \in Intents /\ commitments[i] \in CommitmentRecords
         /\ commitments[i] # NoCommitment /\ commitments[i].auction = a
<1>1. i \in Intents
  BY BookTypes
<1>2. QED  BY <1>1 DEF BookInv, WellFormed

LEMMA RecordsExist == \A c \in CommitmentRecords : c # NoCommitment
BY Parties

\* What each action does to one commitment.
LEMMA FreezeFields ==
  ASSUME WellFormed, BookInv, NEW a \in Auctions, NEW pulled, Freezes(a, pulled), NEW i \in Intents
  PROVE  /\ i \notin Booked(a) => commitments'[i] = commitments[i]
         /\ i \in Booked(a) =>
              /\ commitments'[i] \in CommitmentRecords
              /\ commitments'[i].auction = a
              /\ commitments'[i].refunded = commitments[i].refunded
              /\ commitments'[i].filledSell = commitments[i].filledSell
              /\ commitments'[i].filledBuy = commitments[i].filledBuy
              /\ commitments'[i].escrowed = (commitments[i].escrowed \/ i \in pulled)
              /\ commitments'[i].cancelled = (i \notin pulled)
         /\ i \in pulled => i \in Booked(a)
<1>1. /\ pulled \subseteq Booked(a) /\ \A j \in pulled : ~commitments[j].cancelled
      /\ commitments'[i] = IF i \notin Booked(a) \/ commitments[i].cancelled THEN commitments[i]
                           ELSE IF i \in pulled THEN [commitments[i] EXCEPT !.escrowed = TRUE]
                           ELSE [commitments[i] EXCEPT !.cancelled = TRUE]
  BY DEF Freezes
<1>2. CASE i \notin Booked(a)
  BY <1>1, <1>2
<1>3. CASE i \in Booked(a)
  <2>1. commitments[i] \in CommitmentRecords /\ commitments[i].auction = a
    BY <1>3, BookedCommitted
  <2>2. CASE commitments[i].cancelled
    BY <1>1, <1>3, <2>1, <2>2 DEF CommitmentRecords
  <2>3. CASE ~commitments[i].cancelled /\ i \in pulled
    <3>1. commitments'[i] = [commitments[i] EXCEPT !.escrowed = TRUE]
      BY <1>1, <1>3, <2>3
    <3>2. QED  BY <1>3, <2>1, <2>3, <3>1 DEF CommitmentRecords
  <2>4. CASE ~commitments[i].cancelled /\ i \notin pulled
    <3>1. commitments'[i] = [commitments[i] EXCEPT !.cancelled = TRUE]
      BY <1>1, <1>3, <2>4
    <3>2. QED  BY <1>3, <2>1, <2>4, <3>1 DEF CommitmentRecords
  <2>5. QED  BY <2>2, <2>3, <2>4
<1>4. QED  BY <1>1, <1>2, <1>3

LEMMA SubmitSkips ==
  ASSUME NEW a \in Auctions, NEW s, NEW price, NEW fill, Crosses(a, s, price, fill),
         NEW i \in Intents, ~ \E k \in DOMAIN fill : books[a][k] = i
  PROVE  commitments'[i] = commitments[i]
BY DEF Crosses, applyCross

LEMMA SubmitFills ==
  ASSUME WellFormed, BookInv, NEW a \in Auctions, NEW s, NEW price, NEW fill,
         Crosses(a, s, price, fill), NEW k \in DOMAIN fill, NEW i \in Intents, books[a][k] = i
  PROVE  /\ i \in Booked(a) /\ fill[k] \in Nat /\ k \in DOMAIN books[a]
         /\ commitments[i].escrowed /\ ~commitments[i].cancelled
         /\ participating(Entry(a, k), resolved(a).refPrice, resolved(a).rooExcluded)
         /\ acceptsPrice(Entry(a, k), price, resolved(a).refPrice)
         /\ fill[k] <= i.sellAmount - commitments[i].filledSell
<1>1. fill \in [DOMAIN fill -> Nat] /\ DOMAIN fill \subseteq DOMAIN books[a]
  BY DEF Crosses
<1>2. i \in Booked(a) /\ fill[k] \in Nat /\ k \in DOMAIN books[a]
  BY <1>1 DEF Booked
<1>3. executionAllowed(a, resolved(a), price, k, fill[k])
  BY DEF Crosses, applyCrossReturns
<1>4. /\ commitments[i].escrowed /\ ~commitments[i].cancelled
      /\ participating(Entry(a, k), resolved(a).refPrice, resolved(a).rooExcluded)
      /\ acceptsPrice(Entry(a, k), price, resolved(a).refPrice)
      /\ fill[k] <= i.sellAmount - commitments[i].filledSell
  BY <1>3 DEF executionAllowed
<1>5. QED  BY <1>2, <1>4

\* The commitment a fill leaves, field by field.
LEMMA SubmitFields ==
  ASSUME WellFormed, BookInv, NEW a \in Auctions, NEW s, NEW price \in Prices, NEW fill,
         Crosses(a, s, price, fill), NEW k \in DOMAIN fill, NEW i \in Intents, books[a][k] = i
  PROVE  /\ commitments'[i] \in CommitmentRecords
         /\ commitments'[i].auction = commitments[i].auction
         /\ commitments'[i].refunded = commitments[i].refunded
         /\ commitments'[i].escrowed /\ ~commitments'[i].cancelled
         /\ commitments'[i].filledSell = commitments[i].filledSell + fill[k]
         /\ commitments'[i].filledBuy = commitments[i].filledBuy + boughtAt(i, fill[k], price)
<1>a. /\ i \in Booked(a) /\ fill[k] \in Nat
      /\ commitments[i].escrowed /\ ~commitments[i].cancelled
  BY SubmitFills
<1>d. /\ commitments' = applyCross(a, price, fill)
      /\ fill \in [DOMAIN fill -> Nat] /\ DOMAIN fill \subseteq DOMAIN books[a]
  BY DEF Crosses
<1>b. (CHOOSE j \in DOMAIN fill : books[a][j] = i) = k
  <2>1. \A j \in DOMAIN fill : books[a][j] = i => j = k
    BY <1>d DEF BookInv
  <2>2. QED  BY <2>1
<1>c. commitments'[i] = [commitments[i] EXCEPT
         !.filledSell = commitments[i].filledSell + fill[k],
         !.filledBuy  = commitments[i].filledBuy + boughtAt(i, fill[k], price)]
  BY <1>d, <1>b DEF applyCross
<1> DEFINE c == commitments[i]
           x == c.filledSell + fill[k]
           y == c.filledBuy + boughtAt(i, fill[k], price)
<1>1. /\ commitments'[i] = [c EXCEPT !.filledSell = x, !.filledBuy = y]
      /\ i \in Booked(a) /\ fill[k] \in Nat /\ c.escrowed /\ ~c.cancelled
  BY <1>a, <1>c
<1>2. c \in CommitmentRecords
  BY <1>1, BookedCommitted
<1>3. boughtAt(i, fill[k], price) \in Nat
  BY <1>1, PricesNat, BoughtNat
<1>4. x \in Nat /\ y \in Nat
  BY <1>1, <1>2, <1>3 DEF CommitmentRecords
<1> HIDE DEF x, y, c
<1>5. /\ commitments'[i] \in CommitmentRecords
      /\ commitments'[i].auction = c.auction /\ commitments'[i].refunded = c.refunded
      /\ commitments'[i].escrowed = c.escrowed /\ commitments'[i].cancelled = c.cancelled
      /\ commitments'[i].filledSell = x /\ commitments'[i].filledBuy = y
  BY <1>1, <1>2, <1>4 DEF CommitmentRecords
<1>6. QED  BY <1>1, <1>5 DEF x, y, c

LEMMA RollbackFields ==
  ASSUME WellFormed, BookInv, NEW a \in Auctions, commitments' = rollbackFills(a), NEW i \in Intents
  PROVE  /\ i \notin Booked(a) => commitments'[i] = commitments[i]
         /\ i \in Booked(a) =>
              /\ commitments'[i] \in CommitmentRecords
              /\ commitments'[i].auction = a
              /\ commitments'[i].refunded = commitments[i].refunded
              /\ commitments'[i].escrowed = commitments[i].escrowed
              /\ commitments'[i].cancelled = commitments[i].cancelled
              /\ commitments'[i].filledSell = 0
              /\ commitments'[i].filledBuy = 0
<1>1. CASE i \notin Booked(a)
  BY <1>1 DEF rollbackFills
<1>2. CASE i \in Booked(a)
  <2>1. commitments[i] \in CommitmentRecords /\ commitments[i].auction = a
    BY <1>2, BookedCommitted
  <2>2. commitments'[i] = [commitments[i] EXCEPT !.filledSell = 0, !.filledBuy = 0]
    BY <1>2 DEF rollbackFills
  <2> DEFINE c == commitments[i]
  <2>3. c \in CommitmentRecords /\ commitments'[i] = [c EXCEPT !.filledSell = 0, !.filledBuy = 0]
    BY <2>1, <2>2 DEF c
  <2> HIDE DEF c
  <2>4. [c EXCEPT !.filledSell = 0, !.filledBuy = 0] \in CommitmentRecords
    BY <2>3 DEF CommitmentRecords
  <2>5. /\ commitments'[i].auction = c.auction /\ commitments'[i].refunded = c.refunded
        /\ commitments'[i].escrowed = c.escrowed /\ commitments'[i].cancelled = c.cancelled
        /\ commitments'[i].filledSell = 0 /\ commitments'[i].filledBuy = 0
    BY <2>3 DEF CommitmentRecords
  <2>6. QED  BY <1>2, <2>1, <2>3, <2>4, <2>5 DEF c
<1>3. QED  BY <1>1, <1>2

\* Every action but commitAuctionIntent books nobody.
LEMMA CancelBooks ==
  ASSUME WellFormed, NEW i \in Intents, cancelBeforeFreeze(i) \/ refundEscrow(i)
  PROVE  SameBooking
<1>1. /\ books' = books /\ commitments[i] \in CommitmentRecords
      /\ \/ commitments' = [commitments EXCEPT ![i] = [commitments[i] EXCEPT !.cancelled = TRUE]]
         \/ commitments' = [commitments EXCEPT ![i] = [commitments[i] EXCEPT !.refunded = TRUE]]
  BY DEF cancelBeforeFreeze, refundEscrow, refundable, WellFormed
<1>2. commitments'[i] \in CommitmentRecords /\ commitments'[i].auction = commitments[i].auction
  <2>1. \/ commitments'[i] = [commitments[i] EXCEPT !.cancelled = TRUE]
        \/ commitments'[i] = [commitments[i] EXCEPT !.refunded = TRUE]
    BY <1>1 DEF WellFormed
  <2>2. QED  BY <1>1, <2>1 DEF CommitmentRecords
<1>3. \A j \in Intents : j # i => commitments'[j] = commitments[j]
  BY <1>1 DEF WellFormed
<1>4. QED  BY <1>1, <1>2, <1>3, RecordsExist DEF SameBooking

LEMMA FreezeBooks ==
  ASSUME WellFormed, BookInv, NEW a \in Auctions, freeze(a) PROVE SameBooking
<1>1. PICK pulled : Freezes(a, pulled)
  BY FreezeStep
<1>2. books' = books
  BY DEF freeze
<1>3. ASSUME NEW i \in Intents
      PROVE  /\ commitments'[i] = NoCommitment <=> commitments[i] = NoCommitment
             /\ commitments[i] # NoCommitment => commitments'[i].auction = commitments[i].auction
  <2>1. CASE i \notin Booked(a)
    BY <1>1, <2>1, FreezeFields
  <2>2. CASE i \in Booked(a)
    <3>1. commitments'[i] \in CommitmentRecords /\ commitments'[i].auction = a
      BY <1>1, <2>2, FreezeFields
    <3>2. commitments[i] # NoCommitment /\ commitments[i].auction = a
      BY <2>2, BookedCommitted
    <3>3. QED  BY <3>1, <3>2, RecordsExist
  <2>3. QED  BY <2>1, <2>2
<1>4. QED  BY <1>2, <1>3 DEF SameBooking

LEMMA SubmitBooks ==
  ASSUME WellFormed, BookInv, NEW a \in Auctions, NEW s \in Solvers, NEW price \in Prices,
         submitCross(a, s, price)
  PROVE  SameBooking
<1>1. PICK fill : Crosses(a, s, price, fill)
  BY SubmitStep
<1>2. books' = books
  BY DEF submitCross
<1>3. ASSUME NEW i \in Intents
      PROVE  /\ commitments'[i] = NoCommitment <=> commitments[i] = NoCommitment
             /\ commitments[i] # NoCommitment => commitments'[i].auction = commitments[i].auction
  <2>1. CASE ~ \E k \in DOMAIN fill : books[a][k] = i
    BY <1>1, <2>1, SubmitSkips
  <2>2. ASSUME NEW k \in DOMAIN fill, books[a][k] = i
        PROVE  /\ commitments'[i] # NoCommitment /\ commitments[i] # NoCommitment
               /\ commitments'[i].auction = commitments[i].auction
    <3>1. /\ commitments'[i] \in CommitmentRecords
          /\ commitments'[i].auction = commitments[i].auction
      BY <1>1, <2>2, SubmitFields
    <3>2. i \in Booked(a)
      BY <1>1, <2>2, SubmitFills
    <3>3. QED  BY <3>1, <3>2, BookedCommitted, RecordsExist
  <2>3. QED  BY <2>1, <2>2
<1>4. QED  BY <1>2, <1>3 DEF SameBooking

LEMMA RollbackBooks ==
  ASSUME WellFormed, BookInv, NEW a \in Auctions, commitments' = rollbackFills(a), books' = books
  PROVE  SameBooking
<1>1. ASSUME NEW i \in Intents
      PROVE  /\ commitments'[i] = NoCommitment <=> commitments[i] = NoCommitment
             /\ commitments[i] # NoCommitment => commitments'[i].auction = commitments[i].auction
  <2>1. CASE i \notin Booked(a)
    BY <2>1, RollbackFields
  <2>2. CASE i \in Booked(a)
    <3>1. commitments'[i] \in CommitmentRecords /\ commitments'[i].auction = a
      BY <2>2, RollbackFields
    <3>2. commitments[i] # NoCommitment /\ commitments[i].auction = a
      BY <2>2, BookedCommitted
    <3>3. QED  BY <3>1, <3>2, RecordsExist
  <2>3. QED  BY <2>1, <2>2
<1>2. QED  BY <1>1 DEF SameBooking

----------------------------------------------------------------------------
(* The escrows and the standing crosses.                                   *)

\* An escrow is taken by the freeze and given back once, after the end; a fill
\* exists while a cross stands or after it executed, never beyond the escrow.
EscrowOk(i) ==
  LET c == commitments[i]
  IN  /\ c.escrowed => PhaseOf(i) \in {"FROZEN", "CROSSED", "EXECUTED", "ABORTED"} /\ ~c.cancelled
      /\ c.filledSell # 0 \/ c.filledBuy # 0 => c.escrowed /\ PhaseOf(i) \in {"CROSSED", "EXECUTED"}
      /\ c.filledSell <= i.sellAmount
      /\ c.refunded => c.escrowed /\ PhaseOf(i) \in {"EXECUTED", "ABORTED"}
EscrowInv == \A i \in Intents : commitments[i] # NoCommitment => EscrowOk(i)

\* A standing or executed cross has a solver, a price and the final reference.
CrossInv ==
  \A a \in Auctions : auctions[a].phase \in {"CROSSED", "EXECUTED"} =>
    /\ auctions[a].solver \in Solvers /\ auctions[a].clearingPrice \in Prices
    /\ auctions[a].referenceFinal

BaseInv == WellFormed /\ BookInv /\ EscrowInv /\ CrossInv

LEMMA EscrowKept ==
  ASSUME WellFormed, NEW i \in Intents, commitments[i] # NoCommitment => EscrowOk(i),
         commitments'[i] # NoCommitment, commitments'[i] = commitments[i],
         auctions'[commitments[i].auction].phase = auctions[commitments[i].auction].phase
  PROVE  EscrowOk(i)'
BY DEF EscrowOk, PhaseOf

LEMMA Elsewhere ==
  ASSUME WellFormed, BookInv, NEW i \in Intents, commitments[i] # NoCommitment,
         NEW a \in Auctions, i \notin Booked(a)
  PROVE  commitments[i].auction \in Auctions /\ commitments[i].auction # a
<1>1. commitments[i] \in CommitmentRecords
  BY DEF WellFormed
<1>2. QED  BY <1>1 DEF BookInv, CommitmentRecords

LEMMA CommitEscrow ==
  ASSUME BaseInv, NEW i \in Intents, commitAuctionIntent(i)
  PROVE  EscrowInv' /\ CrossInv'
<1>1. PICK a \in nextCross(i.auctionKind, i.token) :
        commitments' = [commitments EXCEPT ![i] =
             [auction |-> a, escrowed |-> FALSE, cancelled |-> FALSE, refunded |-> FALSE,
              filledSell |-> 0, filledBuy |-> 0]]
  BY DEF commitAuctionIntent
<1>2. auctions' = auctions
  BY DEF commitAuctionIntent
<1>3. ASSUME NEW j \in Intents, commitments'[j] # NoCommitment PROVE EscrowOk(j)'
  <2>1. CASE j = i
    <3>1. commitments'[i] = [auction |-> a, escrowed |-> FALSE, cancelled |-> FALSE,
                             refunded |-> FALSE, filledSell |-> 0, filledBuy |-> 0]
      BY <1>1 DEF BaseInv, WellFormed
    <3>2. i.sellAmount \in Nat
      BY IntentData
    <3>3. QED  BY <2>1, <3>1, <3>2 DEF EscrowOk
  <2>2. CASE j # i
    <3>1. commitments'[j] = commitments[j]
      BY <1>1, <2>2 DEF BaseInv, WellFormed
    <3>2. QED  BY <1>2, <1>3, <3>1, EscrowKept DEF BaseInv, EscrowInv
  <2>3. QED  BY <2>1, <2>2
<1>4. QED  BY <1>2, <1>3 DEF EscrowInv, BaseInv, CrossInv

LEMMA OpenEscrow ==
  ASSUME BaseInv, NEW a \in Auctions, openAuction(a)
  PROVE  EscrowInv' /\ CrossInv'
<1>1. /\ auctions[a].phase = "NONE" /\ commitments' = commitments
      /\ auctions'[a].phase = "DISCLOSURE"
      /\ \A c \in Auctions : c # a => auctions'[c] = auctions[c]
  <2>1. auctions[a] \in AuctionRecords /\ auctions'[a] = [auctions[a] EXCEPT !.phase = "DISCLOSURE"]
    BY DEF openAuction, BaseInv, WellFormed
  <2>2. auctions'[a].phase = "DISCLOSURE"
    BY <2>1 DEF AuctionRecords
  <2>3. QED  BY <2>2 DEF openAuction, BaseInv, WellFormed
<1>2. ASSUME NEW i \in Intents, commitments'[i] # NoCommitment PROVE EscrowOk(i)'
  <2>1. commitments[i] # NoCommitment /\ commitments[i].auction \in Auctions /\ EscrowOk(i)
    BY <1>1, <1>2 DEF BaseInv, WellFormed, CommitmentRecords, EscrowInv
  <2>2. CASE commitments[i].auction # a
    BY <1>1, <1>2, <2>1, <2>2, EscrowKept DEF BaseInv
  <2>3. CASE commitments[i].auction = a
    BY <1>1, <2>1, <2>3 DEF EscrowOk, PhaseOf
  <2>4. QED  BY <2>2, <2>3
<1>3. CrossInv'
  BY <1>1 DEF BaseInv, CrossInv
<1>4. QED  BY <1>2, <1>3 DEF EscrowInv

LEMMA CancelEscrow ==
  ASSUME BaseInv, NEW i \in Intents, cancelBeforeFreeze(i)
  PROVE  EscrowInv' /\ CrossInv'
<1>1. /\ auctions' = auctions /\ commitments[i] \in CommitmentRecords
      /\ PhaseOf(i) \in {"NONE", "DISCLOSURE"}
      /\ commitments'[i] = [commitments[i] EXCEPT !.cancelled = TRUE]
      /\ \A j \in Intents : j # i => commitments'[j] = commitments[j]
  BY DEF cancelBeforeFreeze, BaseInv, WellFormed, PhaseOf
<1>2. ASSUME NEW j \in Intents, commitments'[j] # NoCommitment PROVE EscrowOk(j)'
  <2>1. CASE j = i
    <3>1. EscrowOk(i)
      BY <1>1, RecordsExist DEF BaseInv, EscrowInv
    <3>2. /\ commitments'[i].auction = commitments[i].auction
          /\ commitments'[i].escrowed = commitments[i].escrowed
          /\ commitments'[i].refunded = commitments[i].refunded
          /\ commitments'[i].filledSell = commitments[i].filledSell
          /\ commitments'[i].filledBuy = commitments[i].filledBuy
      BY <1>1 DEF CommitmentRecords
    <3>3. QED  BY <1>1, <2>1, <3>1, <3>2 DEF EscrowOk, PhaseOf
  <2>2. CASE j # i
    BY <1>1, <1>2, <2>2, EscrowKept DEF BaseInv, EscrowInv
  <2>3. QED  BY <2>1, <2>2
<1>3. QED  BY <1>1, <1>2 DEF EscrowInv, BaseInv, CrossInv

LEMMA RefundOnce ==
  ASSUME BaseInv, NEW i \in Intents, refundEscrow(i)
  PROVE  EscrowInv' /\ CrossInv'
<1>1. /\ auctions' = auctions /\ commitments[i] \in CommitmentRecords
      /\ PhaseOf(i) \in {"EXECUTED", "ABORTED"} /\ commitments[i].escrowed
      /\ commitments'[i] = [commitments[i] EXCEPT !.refunded = TRUE]
      /\ \A j \in Intents : j # i => commitments'[j] = commitments[j]
  BY DEF refundEscrow, refundable, BaseInv, WellFormed, PhaseOf
<1>2. ASSUME NEW j \in Intents, commitments'[j] # NoCommitment PROVE EscrowOk(j)'
  <2>1. CASE j = i
    <3>1. EscrowOk(i)
      BY <1>1, RecordsExist DEF BaseInv, EscrowInv
    <3>2. /\ commitments'[i].auction = commitments[i].auction
          /\ commitments'[i].escrowed = commitments[i].escrowed
          /\ commitments'[i].cancelled = commitments[i].cancelled
          /\ commitments'[i].filledSell = commitments[i].filledSell
          /\ commitments'[i].filledBuy = commitments[i].filledBuy
      BY <1>1 DEF CommitmentRecords
    <3>3. QED  BY <1>1, <2>1, <3>1, <3>2 DEF EscrowOk, PhaseOf
  <2>2. CASE j # i
    BY <1>1, <1>2, <2>2, EscrowKept DEF BaseInv, EscrowInv
  <2>3. QED  BY <2>1, <2>2
<1>3. QED  BY <1>1, <1>2 DEF EscrowInv, BaseInv, CrossInv

LEMMA FreezePhase ==
  ASSUME WellFormed, NEW a \in Auctions, freeze(a)
  PROVE  /\ auctions[a].phase = "DISCLOSURE" /\ auctions'[a].phase = "FROZEN"
         /\ \A c \in Auctions : c # a => auctions'[c] = auctions[c]
<1>1. auctions[a] \in AuctionRecords
  BY DEF WellFormed
<1>2. auctions' = [auctions EXCEPT ![a] =
        [auctions[a] EXCEPT !.phase = "FROZEN", !.refPrice = refPrice[AuctionToken[a]],
                            !.multiplier = uiMultiplier[AuctionToken[a]]]]
  BY DEF freeze, WellFormed
<1>3. auctions'[a] = [auctions[a] EXCEPT !.phase = "FROZEN", !.refPrice = refPrice[AuctionToken[a]],
                            !.multiplier = uiMultiplier[AuctionToken[a]]]
  BY <1>2 DEF WellFormed
<1>4. auctions'[a].phase = "FROZEN"
  BY <1>1, <1>3 DEF AuctionRecords
<1>5. QED  BY <1>2, <1>4 DEF freeze, WellFormed

LEMMA FreezeEscrow ==
  ASSUME BaseInv, NEW a \in Auctions, freeze(a)
  PROVE  EscrowInv' /\ CrossInv'
<1> USE DEF BaseInv
<1>1. PICK pulled : Freezes(a, pulled)
  BY FreezeStep
<1>2. /\ auctions[a].phase = "DISCLOSURE" /\ auctions'[a].phase = "FROZEN"
      /\ \A c \in Auctions : c # a => auctions'[c] = auctions[c]
  BY FreezePhase
<1>3. ASSUME NEW i \in Intents, commitments'[i] # NoCommitment PROVE EscrowOk(i)'
  <2>1. CASE i \notin Booked(a)
    <3>1. commitments'[i] = commitments[i]
      BY <1>1, <2>1, FreezeFields
    <3>2. commitments[i].auction \in Auctions /\ commitments[i].auction # a
      BY <1>3, <2>1, <3>1, Elsewhere
    <3>3. QED  BY <1>2, <1>3, <3>1, <3>2, EscrowKept DEF EscrowInv
  <2>2. CASE i \in Booked(a)
    <3>1. /\ commitments[i].auction = a /\ commitments[i] # NoCommitment /\ EscrowOk(i)
          /\ commitments[i] \in CommitmentRecords
      BY <2>2, BookedCommitted DEF EscrowInv
    <3>2. /\ commitments'[i].auction = a
          /\ commitments'[i].refunded = commitments[i].refunded
          /\ commitments'[i].filledSell = commitments[i].filledSell
          /\ commitments'[i].filledBuy = commitments[i].filledBuy
          /\ commitments'[i].escrowed = (commitments[i].escrowed \/ i \in pulled)
          /\ commitments'[i].cancelled = (i \notin pulled)
      BY <1>1, <2>2, FreezeFields
    <3>3. ~commitments[i].escrowed
      BY <1>2, <3>1 DEF EscrowOk, PhaseOf
    <3>4. QED  BY <1>2, <3>1, <3>2, <3>3 DEF EscrowOk, PhaseOf
  <2>3. QED  BY <2>1, <2>2
<1>4. CrossInv'
  BY <1>2 DEF CrossInv
<1>5. QED  BY <1>3, <1>4 DEF EscrowInv

LEMMA ExtendEscrow ==
  ASSUME BaseInv, NEW a \in Auctions, extend(a)
  PROVE  EscrowInv' /\ CrossInv'
<1> USE DEF BaseInv
<1>1. /\ auctions[a].phase = "FROZEN" /\ auctions'[a].phase = "FROZEN"
      /\ commitments' = commitments
      /\ \A c \in Auctions : c # a => auctions'[c] = auctions[c]
  <2>1. resolved(a) \in AuctionRecords /\ resolved(a).phase = auctions[a].phase
    BY ResolvedTypes DEF extend
  <2>2. auctions'[a] = [resolved(a) EXCEPT !.extensions = resolved(a).extensions + 1,
                                           !.collarBps = resolved(a).collarBps + COLLAR_STEP]
    BY DEF extend, WellFormed
  <2>3. auctions'[a].phase = resolved(a).phase
    BY <2>1, <2>2 DEF AuctionRecords
  <2>4. QED  BY <2>1, <2>3 DEF extend, WellFormed
<1>2. ASSUME NEW i \in Intents, commitments'[i] # NoCommitment PROVE EscrowOk(i)'
  <2>1. commitments[i].auction \in Auctions
    BY <1>1, <1>2 DEF WellFormed, CommitmentRecords
  <2>2. auctions'[commitments[i].auction].phase = auctions[commitments[i].auction].phase
    BY <1>1, <2>1
  <2>3. QED  BY <1>1, <1>2, <2>2, EscrowKept DEF EscrowInv
<1>3. CrossInv'
  BY <1>1 DEF CrossInv
<1>4. QED  BY <1>2, <1>3 DEF EscrowInv

LEMMA SubmitPhase ==
  ASSUME WellFormed, NEW a \in Auctions, NEW s \in Solvers, NEW price \in Prices,
         submitCross(a, s, price), NEW fill, Crosses(a, s, price, fill)
  PROVE  /\ auctions[a].phase = "FROZEN" /\ auctions'[a].phase = "CROSSED"
         /\ auctions'[a].solver = s /\ auctions'[a].clearingPrice = price
         /\ auctions'[a].referenceFinal
         /\ auctions'[a].refPrice = resolved(a).refPrice
         /\ auctions'[a].rooExcluded = resolved(a).rooExcluded
         /\ auctions'[a].matchedVolume = BoughtIn(a, fill, TRUE, price)
         /\ auctions'[a].tokenDust = SoldIn(a, fill, FALSE) - BoughtIn(a, fill, TRUE, price)
         /\ auctions'[a].quoteDust = SoldIn(a, fill, TRUE) - BoughtIn(a, fill, FALSE, price)
         /\ \A c \in Auctions : c # a => auctions'[c] = auctions[c]
<1>1. /\ auctions' = [auctions EXCEPT ![a] = crossed(a, s, price, fill)]
      /\ auctions[a].phase = "FROZEN" /\ referenceReturns(a) /\ referenceAt(a) <= now
  BY DEF Crosses, submitCross
<1>2. resolved(a) \in AuctionRecords /\ resolved(a).referenceFinal
  BY <1>1, ResolvedTypes
<1>3. auctions'[a] = crossed(a, s, price, fill) /\ \A c \in Auctions : c # a => auctions'[c] = auctions[c]
  BY <1>1 DEF WellFormed
<1> DEFINE r == resolved(a)
           v == BoughtIn(a, fill, TRUE, price)
           n == countParticipants(a, fill)
           d == SoldIn(a, fill, FALSE) - BoughtIn(a, fill, TRUE, price)
           q == SoldIn(a, fill, TRUE) - BoughtIn(a, fill, FALSE, price)
<1>4. crossed(a, s, price, fill) =
        [r EXCEPT !.phase = "CROSSED", !.solver = s, !.clearingPrice = price,
                  !.matchedVolume = v, !.participants = n, !.tokenDust = d, !.quoteDust = q,
                  !.crossSubmittedAt = now]
  BY DEF crossed
<1>5. r \in AuctionRecords /\ r.referenceFinal
  BY <1>2
<1> HIDE DEF r, v, n, d, q
<1> DEFINE x == [r EXCEPT !.phase = "CROSSED", !.solver = s, !.clearingPrice = price,
                  !.matchedVolume = v, !.participants = n, !.tokenDust = d, !.quoteDust = q,
                  !.crossSubmittedAt = now]
<1>6. /\ x.phase = "CROSSED" /\ x.solver = s /\ x.clearingPrice = price
  BY <1>5 DEF AuctionRecords
<1>7. x.referenceFinal = r.referenceFinal /\ x.refPrice = r.refPrice /\ x.rooExcluded = r.rooExcluded
  BY <1>5 DEF AuctionRecords
<1>8. x.matchedVolume = v /\ x.tokenDust = d /\ x.quoteDust = q
  BY <1>5 DEF AuctionRecords
<1>9. auctions'[a] = x
  BY <1>3, <1>4
<1> HIDE DEF x
<1>10. QED  BY <1>1, <1>3, <1>5, <1>6, <1>7, <1>8, <1>9 DEF r, v, d, q

LEMMA SubmitEscrow ==
  ASSUME BaseInv, NEW a \in Auctions, NEW s \in Solvers, NEW price \in Prices,
         submitCross(a, s, price)
  PROVE  EscrowInv' /\ CrossInv'
<1> USE DEF BaseInv
<1>1. PICK fill : Crosses(a, s, price, fill)
  BY SubmitStep
<1>2. /\ auctions[a].phase = "FROZEN" /\ auctions'[a].phase = "CROSSED"
      /\ auctions'[a].solver = s /\ auctions'[a].clearingPrice = price
      /\ auctions'[a].referenceFinal
      /\ \A c \in Auctions : c # a => auctions'[c] = auctions[c]
  BY <1>1, SubmitPhase
<1>3. ASSUME NEW i \in Intents, commitments'[i] # NoCommitment PROVE EscrowOk(i)'
  <2>1. CASE ~ \E k \in DOMAIN fill : books[a][k] = i
    <3>1. commitments'[i] = commitments[i] /\ commitments[i] # NoCommitment
      BY <1>1, <1>3, <2>1, SubmitSkips
    <3>2. commitments[i] \in CommitmentRecords /\ EscrowOk(i)
      BY <3>1 DEF WellFormed, EscrowInv
    <3>3. CASE commitments[i].auction # a
      <4>1. commitments[i].auction \in Auctions
        BY <3>2 DEF CommitmentRecords
      <4>2. QED  BY <1>2, <1>3, <3>1, <3>3, <4>1, EscrowKept DEF EscrowInv
    <3>4. CASE commitments[i].auction = a
      BY <1>2, <3>1, <3>2, <3>4 DEF EscrowOk, PhaseOf
    <3>5. QED  BY <3>3, <3>4
  <2>2. ASSUME NEW k \in DOMAIN fill, books[a][k] = i PROVE EscrowOk(i)'
    <3>1. /\ i \in Booked(a) /\ fill[k] \in Nat
          /\ fill[k] <= i.sellAmount - commitments[i].filledSell
      BY <1>1, <2>2, SubmitFills
    <3>2. /\ commitments[i] \in CommitmentRecords /\ commitments[i].auction = a
          /\ commitments[i] # NoCommitment
      BY <3>1, BookedCommitted
    <3>3. EscrowOk(i)
      BY <3>2 DEF EscrowInv
    <3>4. /\ commitments'[i].auction = commitments[i].auction
          /\ commitments'[i].refunded = commitments[i].refunded
          /\ commitments'[i].escrowed /\ ~commitments'[i].cancelled
          /\ commitments'[i].filledSell = commitments[i].filledSell + fill[k]
      BY <1>1, <2>2, SubmitFields
    <3>5. commitments'[i].filledSell <= i.sellAmount
      <4>1. commitments[i].filledSell \in Nat /\ i.sellAmount \in Nat
        BY <3>2, IntentData DEF CommitmentRecords
      <4>2. QED  BY <3>1, <3>4, <4>1
    <3>6. ~commitments[i].refunded
      BY <1>2, <3>2, <3>3 DEF EscrowOk, PhaseOf
    <3>7. QED  BY <1>2, <3>2, <3>4, <3>5, <3>6 DEF EscrowOk, PhaseOf
  <2>3. QED  BY <2>1, <2>2
<1>4. CrossInv'
  BY <1>2 DEF CrossInv
<1>5. QED  BY <1>3, <1>4 DEF EscrowInv

\* A cross that is given up: the fills of the book go back, the auction leaves
\* its phase for one without a cross.
LEMMA RollbackEscrow ==
  ASSUME BaseInv, NEW a \in Auctions, auctions[a].phase = "CROSSED",
         commitments' = rollbackFills(a), auctions'[a].phase \in {"FROZEN", "ABORTED"},
         \A c \in Auctions : c # a => auctions'[c] = auctions[c]
  PROVE  EscrowInv' /\ CrossInv'
<1> USE DEF BaseInv
<1>1. ASSUME NEW i \in Intents, commitments'[i] # NoCommitment PROVE EscrowOk(i)'
  <2>1. CASE i \notin Booked(a)
    <3>1. commitments'[i] = commitments[i]
      BY <2>1, RollbackFields
    <3>2. commitments[i].auction \in Auctions /\ commitments[i].auction # a
      BY <1>1, <2>1, <3>1, Elsewhere
    <3>3. QED  BY <1>1, <3>1, <3>2, EscrowKept DEF EscrowInv
  <2>2. CASE i \in Booked(a)
    <3>1. /\ commitments[i].auction = a /\ commitments[i] # NoCommitment /\ EscrowOk(i)
          /\ commitments[i] \in CommitmentRecords
      BY <2>2, BookedCommitted DEF EscrowInv
    <3>2. /\ commitments'[i].auction = a
          /\ commitments'[i].refunded = commitments[i].refunded
          /\ commitments'[i].escrowed = commitments[i].escrowed
          /\ commitments'[i].cancelled = commitments[i].cancelled
          /\ commitments'[i].filledSell = 0
          /\ commitments'[i].filledBuy = 0
      BY <2>2, RollbackFields
    <3>3. 0 <= i.sellAmount
      BY IntentData
    <3>4. QED  BY <3>1, <3>2, <3>3 DEF EscrowOk, PhaseOf
  <2>3. QED  BY <2>1, <2>2
<1>2. CrossInv'
  BY DEF CrossInv
<1>3. QED  BY <1>1, <1>2 DEF EscrowInv

LEMMA ChallengePhase ==
  ASSUME WellFormed, BookInv, NEW a \in Auctions, NEW c \in Challengers, NEW p \in Prices,
         challenge(a, c, p)
  PROVE  /\ auctions[a].phase = "CROSSED"
         /\ \/ UNCHANGED <<auctions, commitments>>
            \/ /\ commitments' = rollbackFills(a) /\ auctions'[a].phase = "FROZEN"
               /\ \A d \in Auctions : d # a => auctions'[d] = auctions[d]
<1>1. auctions[a].phase = "CROSSED"
  BY DEF challenge, challengeable
<1>2. CASE /\ commitments' = rollbackFills(a)
           /\ auctions' = [auctions EXCEPT ![a] = [rollbackCross(a) EXCEPT !.phase = "FROZEN",
                                                                           !.solver = NoSolver]]
  <2>1. rollbackCross(a) \in AuctionRecords
    BY RollbackTypes, BookedCommitted
  <2>2. auctions'[a] = [rollbackCross(a) EXCEPT !.phase = "FROZEN", !.solver = NoSolver]
    BY <1>2 DEF WellFormed
  <2>3. auctions'[a].phase = "FROZEN"
    BY <2>1, <2>2 DEF AuctionRecords
  <2>4. QED  BY <1>1, <1>2, <2>3 DEF WellFormed
<1>3. QED  BY <1>1, <1>2 DEF challenge

LEMMA ChallengeEscrow ==
  ASSUME BaseInv, NEW a \in Auctions, NEW c \in Challengers, NEW p \in Prices, challenge(a, c, p)
  PROVE  EscrowInv' /\ CrossInv'
<1>1. CASE UNCHANGED <<auctions, commitments>>
  BY <1>1 DEF BaseInv, EscrowInv, CrossInv, EscrowOk, PhaseOf
<1>2. CASE /\ commitments' = rollbackFills(a) /\ auctions'[a].phase = "FROZEN"
           /\ \A d \in Auctions : d # a => auctions'[d] = auctions[d]
  <2>1. auctions[a].phase = "CROSSED"
    BY DEF challenge, challengeable
  <2>2. QED  BY <1>2, <2>1, RollbackEscrow
<1>3. QED  BY <1>1, <1>2, ChallengePhase DEF BaseInv

LEMMA ExecutePhase ==
  ASSUME WellFormed, NEW a \in Auctions, executeCross(a)
  PROVE  /\ auctions[a].phase = "CROSSED" /\ auctions'[a] = [auctions[a] EXCEPT !.phase = "EXECUTED"]
         /\ auctions[a] \in AuctionRecords /\ auctions'[a].phase = "EXECUTED"
         /\ \A c \in Auctions : c # a => auctions'[c] = auctions[c]
         /\ commitments' = commitments
<1>1. auctions[a] \in AuctionRecords /\ auctions'[a] = [auctions[a] EXCEPT !.phase = "EXECUTED"]
  BY DEF executeCross, WellFormed
<1>2. auctions'[a].phase = "EXECUTED"
  BY <1>1 DEF AuctionRecords
<1>3. QED  BY <1>1, <1>2 DEF executeCross, executable, WellFormed

LEMMA ExecuteEscrow ==
  ASSUME BaseInv, NEW a \in Auctions, executeCross(a)
  PROVE  EscrowInv' /\ CrossInv'
<1> USE DEF BaseInv
<1>1. /\ auctions[a].phase = "CROSSED" /\ auctions'[a] = [auctions[a] EXCEPT !.phase = "EXECUTED"]
      /\ auctions[a] \in AuctionRecords /\ auctions'[a].phase = "EXECUTED"
      /\ \A c \in Auctions : c # a => auctions'[c] = auctions[c]
      /\ commitments' = commitments
  BY ExecutePhase
<1>2. ASSUME NEW i \in Intents, commitments'[i] # NoCommitment PROVE EscrowOk(i)'
  <2>1. commitments[i] # NoCommitment /\ commitments[i].auction \in Auctions /\ EscrowOk(i)
    BY <1>1, <1>2 DEF WellFormed, CommitmentRecords, EscrowInv
  <2>2. CASE commitments[i].auction # a
    BY <1>1, <1>2, <2>1, <2>2, EscrowKept
  <2>3. CASE commitments[i].auction = a
    BY <1>1, <2>1, <2>3 DEF EscrowOk, PhaseOf
  <2>4. QED  BY <2>2, <2>3
<1>3. /\ auctions'[a].solver = auctions[a].solver
      /\ auctions'[a].clearingPrice = auctions[a].clearingPrice
      /\ auctions'[a].referenceFinal = auctions[a].referenceFinal
  BY <1>1 DEF AuctionRecords
<1>4. CrossInv'
  BY <1>1, <1>3 DEF CrossInv
<1>5. QED  BY <1>2, <1>4 DEF EscrowInv

LEMMA AbortPhase ==
  ASSUME WellFormed, BookInv, NEW a \in Auctions, abortAuction(a)
  PROVE  /\ auctions[a].phase \in {"DISCLOSURE", "FROZEN", "CROSSED"}
         /\ auctions'[a].phase = "ABORTED"
         /\ \A c \in Auctions : c # a => auctions'[c] = auctions[c]
         /\ commitments' = IF auctions[a].phase = "CROSSED" THEN rollbackFills(a) ELSE commitments
<1>1. auctions[a].phase \in {"DISCLOSURE", "FROZEN", "CROSSED"}
  BY DEF abortAuction, abortable
<1>2. CASE auctions[a].phase = "CROSSED"
  <2>1. rollbackCross(a) \in AuctionRecords
    BY RollbackTypes, BookedCommitted
  <2>2. auctions'[a] = [rollbackCross(a) EXCEPT !.phase = "ABORTED"]
    BY <1>2 DEF abortAuction, WellFormed
  <2>3. auctions'[a].phase = "ABORTED"
    BY <2>1, <2>2 DEF AuctionRecords
  <2>4. QED  BY <1>1, <1>2, <2>3 DEF abortAuction, WellFormed
<1>3. CASE auctions[a].phase # "CROSSED"
  <2>1. auctions[a] \in AuctionRecords /\ auctions'[a] = [auctions[a] EXCEPT !.phase = "ABORTED"]
    BY <1>3 DEF abortAuction, WellFormed
  <2>2. auctions'[a].phase = "ABORTED"
    BY <2>1 DEF AuctionRecords
  <2>3. QED  BY <1>1, <1>3, <2>2 DEF abortAuction, WellFormed
<1>4. QED  BY <1>2, <1>3

LEMMA AbortEscrow ==
  ASSUME BaseInv, NEW a \in Auctions, abortAuction(a)
  PROVE  EscrowInv' /\ CrossInv'
<1> USE DEF BaseInv
<1>1. /\ auctions[a].phase \in {"DISCLOSURE", "FROZEN", "CROSSED"}
      /\ auctions'[a].phase = "ABORTED"
      /\ \A c \in Auctions : c # a => auctions'[c] = auctions[c]
      /\ commitments' = IF auctions[a].phase = "CROSSED" THEN rollbackFills(a) ELSE commitments
  BY AbortPhase
<1>2. CASE auctions[a].phase = "CROSSED"
  BY <1>1, <1>2, RollbackEscrow
<1>3. CASE auctions[a].phase # "CROSSED"
  <2>1. ASSUME NEW i \in Intents, commitments'[i] # NoCommitment PROVE EscrowOk(i)'
    <3>1. commitments[i] # NoCommitment /\ commitments[i].auction \in Auctions /\ EscrowOk(i)
      BY <1>1, <1>3, <2>1 DEF WellFormed, CommitmentRecords, EscrowInv
    <3>2. CASE commitments[i].auction # a
      BY <1>1, <1>3, <2>1, <3>1, <3>2, EscrowKept
    <3>3. CASE commitments[i].auction = a
      BY <1>1, <1>3, <3>1, <3>3 DEF EscrowOk, PhaseOf
    <3>4. QED  BY <3>2, <3>3
  <2>2. CrossInv'
    BY <1>1 DEF CrossInv
  <2>3. QED  BY <2>1, <2>2 DEF EscrowInv
<1>4. QED  BY <1>2, <1>3

----------------------------------------------------------------------------
(* The invariant that the others rest on.                                  *)

LEMMA BaseInit == Init => BaseInv
<1> SUFFICES ASSUME Init PROVE BaseInv
  OBVIOUS
<1>1. WellFormed
  BY InitTypes
<1>2. \A i \in Intents : commitments[i] = NoCommitment
  BY DEF Init
<1>3. \A a \in Auctions : books[a] = <<>> /\ auctions[a].phase = "NONE"
  BY DEF Init, NewAuction
<1>4. \A a \in Auctions : DOMAIN books[a] = {} /\ Booked(a) = {}
  BY <1>3 DEF Booked
<1>5. BookInv
  BY <1>2, <1>4 DEF BookInv
<1>6. EscrowInv /\ CrossInv
  BY <1>2, <1>3 DEF EscrowInv, CrossInv
<1>7. QED  BY <1>1, <1>5, <1>6 DEF BaseInv

LEMMA HouseKept ==
  ASSUME BookInv, EscrowInv, CrossInv, UNCHANGED <<auctions, books, commitments>>
  PROVE  BookInv' /\ EscrowInv' /\ CrossInv'
<1>1. ASSUME NEW a \in Auctions PROVE Booked(a)' = Booked(a)
  BY DEF Booked
<1>2. BookInv'
  BY <1>1 DEF BookInv
<1>3. EscrowInv'
  BY DEF EscrowInv, EscrowOk, PhaseOf
<1>4. CrossInv'
  BY DEF CrossInv
<1>5. QED  BY <1>2, <1>3, <1>4

\* Every call on the house, and the steps of the world around it.
LEMMA StepCases ==
  ASSUME [Next]_vars
  PROVE  \/ \E i \in Intents : commitAuctionIntent(i) \/ cancelBeforeFreeze(i) \/ refundEscrow(i)
         \/ \E a \in Auctions : openAuction(a) \/ freeze(a) \/ extend(a) \/ executeCross(a) \/ abortAuction(a)
         \/ \E a \in Auctions, s \in Solvers, p \in Prices : submitCross(a, s, p)
         \/ \E a \in Auctions, c \in Challengers, p \in Prices : challenge(a, c, p)
         \/ OwnerStep \/ MarketStep
         \/ pause \/ Tick \/ (\E t \in Tokens \ {Quote} : setAuctionTokenAllowed(t)) \/ UNCHANGED vars
BY DEF Next

LEMMA WorldStep ==
  ASSUME \/ OwnerStep \/ MarketStep
         \/ pause \/ Tick \/ (\E t \in Tokens \ {Quote} : setAuctionTokenAllowed(t)) \/ UNCHANGED vars
  PROVE  UNCHANGED <<auctions, books, commitments, rounds, latestPrintDay>>
BY DEF OwnerStep, MarketStep, pause, Tick, setAuctionTokenAllowed, vars, clockVars, houseVars, printVars

LEMMA BaseStep == BaseInv /\ [Next]_vars => BaseInv'
<1> SUFFICES ASSUME BaseInv, [Next]_vars PROVE BaseInv'
  OBVIOUS
<1>1. WellFormed /\ BookInv /\ EscrowInv /\ CrossInv
  BY DEF BaseInv
<1>2. \A a \in Auctions : \A i \in Booked(a) : commitments[i] # NoCommitment
  BY <1>1 DEF BookInv
<1>3. ASSUME NEW i \in Intents, commitAuctionIntent(i) PROVE BaseInv'
  BY <1>1, <1>3, CommitTypes, CommitBooks, CommitEscrow DEF BaseInv
<1>4. ASSUME NEW i \in Intents, cancelBeforeFreeze(i) PROVE BaseInv'
  BY <1>1, <1>4, CancelTypes, CancelBooks, BookKept, CancelEscrow DEF BaseInv
<1>5. ASSUME NEW i \in Intents, refundEscrow(i) PROVE BaseInv'
  BY <1>1, <1>5, RefundTypes, CancelBooks, BookKept, RefundOnce DEF BaseInv
<1>6. ASSUME NEW a \in Auctions, openAuction(a) PROVE BaseInv'
  <2>1. SameBooking
    BY <1>6 DEF openAuction, SameBooking
  <2>2. QED  BY <1>1, <1>6, <2>1, OpenTypes, BookKept, OpenEscrow DEF BaseInv
<1>7. ASSUME NEW a \in Auctions, freeze(a) PROVE BaseInv'
  BY <1>1, <1>2, <1>7, FreezeTypes, FreezeBooks, BookKept, FreezeEscrow DEF BaseInv
<1>8. ASSUME NEW a \in Auctions, extend(a) PROVE BaseInv'
  <2>1. SameBooking
    BY <1>8 DEF extend, SameBooking
  <2>2. QED  BY <1>1, <1>8, <2>1, ExtendTypes, BookKept, ExtendEscrow DEF BaseInv
<1>9. ASSUME NEW a \in Auctions, NEW s \in Solvers, NEW p \in Prices, submitCross(a, s, p)
      PROVE  BaseInv'
  BY <1>1, <1>2, <1>9, SubmitTypes, SubmitBooks, BookKept, SubmitEscrow DEF BaseInv
<1>10. ASSUME NEW a \in Auctions, NEW c \in Challengers, NEW p \in Prices, challenge(a, c, p)
       PROVE  BaseInv'
  <2>1. auctions[a].solver \in Solvers
    BY <1>1, <1>10 DEF CrossInv, challenge, challengeable
  <2>2. WellFormed'
    BY <1>1, <1>2, <1>10, <2>1, ChallengeTypes
  <2>3. books' = books
    BY <1>10 DEF challenge
  <2>4. SameBooking
    <3>1. CASE commitments' = commitments
      BY <2>3, <3>1 DEF SameBooking
    <3>2. CASE commitments' = rollbackFills(a)
      BY <1>1, <2>3, <3>2, RollbackBooks
    <3>3. QED  BY <1>1, <1>10, <3>1, <3>2, ChallengePhase
  <2>5. QED  BY <1>1, <1>10, <2>2, <2>4, BookKept, ChallengeEscrow DEF BaseInv
<1>11. ASSUME NEW a \in Auctions, executeCross(a) PROVE BaseInv'
  <2>1. auctions[a].solver \in Solvers
    BY <1>1, <1>11 DEF CrossInv, executeCross, executable
  <2>2. SameBooking
    BY <1>11 DEF executeCross, SameBooking
  <2>3. QED  BY <1>1, <1>2, <1>11, <2>1, <2>2, ExecuteTypes, BookKept, ExecuteEscrow DEF BaseInv
<1>12. ASSUME NEW a \in Auctions, abortAuction(a) PROVE BaseInv'
  <2>1. auctions[a].phase = "CROSSED" => auctions[a].solver \in Solvers
    BY <1>1 DEF CrossInv
  <2>2. WellFormed'
    BY <1>1, <1>2, <1>12, <2>1, AbortTypes
  <2>3. books' = books
    BY <1>12 DEF abortAuction
  <2>4. SameBooking
    <3>1. CASE commitments' = commitments
      BY <2>3, <3>1 DEF SameBooking
    <3>2. CASE commitments' = rollbackFills(a)
      BY <1>1, <2>3, <3>2, RollbackBooks
    <3>3. QED  BY <1>1, <1>12, <3>1, <3>2, AbortPhase
  <2>5. QED  BY <1>1, <1>12, <2>2, <2>4, BookKept, AbortEscrow DEF BaseInv
<1>13. ASSUME \/ OwnerStep \/ MarketStep
              \/ pause \/ Tick \/ (\E t \in Tokens \ {Quote} : setAuctionTokenAllowed(t))
              \/ UNCHANGED vars
       PROVE  BaseInv'
  <2>1. WellFormed'
    BY <1>1, <1>13, OwnerTypes, MarketTypes, OtherTypes
  <2>2. UNCHANGED <<auctions, books, commitments>>
    BY <1>13, WorldStep
  <2>3. QED  BY <1>1, <2>1, <2>2, HouseKept DEF BaseInv
<1>14. QED
  BY <1>3, <1>4, <1>5, <1>6, <1>7, <1>8, <1>9, <1>10, <1>11, <1>12, <1>13, StepCases

----------------------------------------------------------------------------
(* A cross stands on the book it was checked against.                      *)

\* What each order of a crossed book got is what the one price gives for what
\* it sold, and an order that was filled accepts that price.
FillOk(a, k) ==
  LET c == commitments[books[a][k]]
      x == auctions[a]
  IN  /\ c.filledBuy = boughtAt(books[a][k], c.filledSell, x.clearingPrice)
      /\ c.filledSell # 0 => /\ participating(Entry(a, k), x.refPrice, x.rooExcluded)
                             /\ acceptsPrice(Entry(a, k), x.clearingPrice, x.refPrice)

\* The figures of the cross balance, token for token, and leave no volume out.
FiguresOk(a) ==
  LET x == auctions[a]
  IN  /\ SoldBy(a, FALSE) = GotBy(a, TRUE) + x.tokenDust
      /\ SoldBy(a, TRUE) = GotBy(a, FALSE) + x.quoteDust
      /\ x.matchedVolume = GotBy(a, TRUE)
      /\ x.matchedVolume + Cardinality(DOMAIN books[a])
           >= matched(frozenBook(a), x.clearingPrice, x.refPrice, x.rooExcluded)

StandsInv ==
  \A a \in Auctions : auctions[a].phase \in {"CROSSED", "EXECUTED"} =>
    FiguresOk(a) /\ \A k \in DOMAIN books[a] : FillOk(a, k)

\* A step that leaves the cross of an auction, and the fills of its book, alone.
SameCross(a) ==
  /\ books'[a] = books[a]
  /\ auctions'[a].refPrice = auctions[a].refPrice
  /\ auctions'[a].rooExcluded = auctions[a].rooExcluded
  /\ auctions'[a].clearingPrice = auctions[a].clearingPrice
  /\ auctions'[a].matchedVolume = auctions[a].matchedVolume
  /\ auctions'[a].tokenDust = auctions[a].tokenDust
  /\ auctions'[a].quoteDust = auctions[a].quoteDust
  /\ \A i \in Booked(a) :
       /\ commitments'[i].filledSell = commitments[i].filledSell
       /\ commitments'[i].filledBuy = commitments[i].filledBuy
       /\ commitments'[i].escrowed = commitments[i].escrowed
       /\ commitments'[i].cancelled = commitments[i].cancelled

LEMMA FrozenBookKept ==
  ASSUME NEW a \in Auctions, books'[a] = books[a],
         \A i \in Booked(a) : /\ commitments'[i].escrowed = commitments[i].escrowed
                              /\ commitments'[i].cancelled = commitments[i].cancelled
  PROVE  frozenBook(a)' = frozenBook(a) /\ \A k \in DOMAIN books[a] : Entry(a, k)' = Entry(a, k)
<1>1. ASSUME NEW k \in DOMAIN books[a] PROVE Entry(a, k)' = Entry(a, k)
  BY DEF Entry
<1>2. \A k \in DOMAIN books[a] : books[a][k] \in Booked(a)
  BY DEF Booked
<1> DEFINE F == {j \in DOMAIN books[a] : ~commitments[books[a][j]].cancelled
                                         /\ commitments[books[a][j]].escrowed}
           G == {j \in DOMAIN books'[a] : ~commitments'[books'[a][j]].cancelled
                                          /\ commitments'[books'[a][j]].escrowed}
<1>3. F = G
  BY <1>2
<1>4. frozenBook(a) = {Entry(a, k) : k \in F}
  BY DEF frozenBook
<1>5. frozenBook(a)' = {Entry(a, k)' : k \in G}
  BY DEF frozenBook
<1>6. \A k \in F : Entry(a, k)' = Entry(a, k)
  BY <1>1
<1> HIDE DEF F, G
<1>7. frozenBook(a)' = frozenBook(a)
  BY <1>3, <1>4, <1>5, <1>6
<1>8. QED  BY <1>1, <1>7

LEMMA CrossKept ==
  ASSUME NEW a \in Auctions, SameCross(a), FiguresOk(a), \A k \in DOMAIN books[a] : FillOk(a, k)
  PROVE  FiguresOk(a)' /\ \A k \in DOMAIN books'[a] : FillOk(a, k)'
<1>1. books'[a] = books[a] /\ Booked(a)' = Booked(a)
  BY DEF SameCross, Booked
<1>2. frozenBook(a)' = frozenBook(a) /\ \A k \in DOMAIN books[a] : Entry(a, k)' = Entry(a, k)
  BY FrozenBookKept DEF SameCross
<1>3. /\ SoldBy(a, TRUE)' = SoldBy(a, TRUE) /\ SoldBy(a, FALSE)' = SoldBy(a, FALSE)
      /\ GotBy(a, TRUE)' = GotBy(a, TRUE) /\ GotBy(a, FALSE)' = GotBy(a, FALSE)
  <2>1. /\ [i \in Booked(a)' |-> commitments'[i].filledSell] = [i \in Booked(a) |-> commitments[i].filledSell]
        /\ [i \in Booked(a)' |-> commitments'[i].filledBuy] = [i \in Booked(a) |-> commitments[i].filledBuy]
    BY <1>1 DEF SameCross
  <2>2. QED  BY <1>1, <2>1 DEF SoldBy, GotBy
<1>4. FiguresOk(a)'
  BY <1>1, <1>2, <1>3 DEF FiguresOk, SameCross
<1>5. ASSUME NEW k \in DOMAIN books'[a] PROVE FillOk(a, k)'
  <2>1. k \in DOMAIN books[a] /\ books[a][k] \in Booked(a) /\ Entry(a, k)' = Entry(a, k)
    BY <1>1, <1>2 DEF Booked
  <2>2. FillOk(a, k)
    BY <2>1
  <2>3. QED  BY <1>1, <2>1, <2>2 DEF FillOk, SameCross
<1>6. QED  BY <1>4, <1>5

LEMMA SameCrossKeptWhole ==
  ASSUME NEW a \in Auctions, books'[a] = books[a], auctions'[a] = auctions[a],
         \A i \in Booked(a) : commitments'[i] = commitments[i]
  PROVE  SameCross(a)
BY DEF SameCross

\* The book of one auction is untouched by what another does to its own.
LEMMA OtherBook ==
  ASSUME BaseInv, NEW a \in Auctions, NEW b \in Auctions, a # b, NEW i \in Booked(b)
  PROVE  i \in Intents /\ i \notin Booked(a)
<1>1. i \in Intents /\ commitments[i].auction = b
  BY BookedCommitted DEF BaseInv
<1>2. QED  BY <1>1, BookedCommitted DEF BaseInv

LEMMA StandingStep ==
  ASSUME BaseInv, [Next]_vars, NEW b \in Auctions, auctions'[b].phase \in {"CROSSED", "EXECUTED"}
  PROVE  \/ SameCross(b) /\ auctions[b].phase \in {"CROSSED", "EXECUTED"}
         \/ \E s \in Solvers, p \in Prices : submitCross(b, s, p)
<1> USE DEF BaseInv
<1> DEFINE Goal == \/ SameCross(b) /\ auctions[b].phase \in {"CROSSED", "EXECUTED"}
                   \/ \E s \in Solvers, p \in Prices : submitCross(b, s, p)
<1>1. ASSUME NEW i \in Intents, commitAuctionIntent(i) PROVE Goal
  <2>1. PICK a \in nextCross(i.auctionKind, i.token) :
          /\ auctions[a].phase \in {"NONE", "DISCLOSURE"}
          /\ commitments' = [commitments EXCEPT ![i] =
               [auction |-> a, escrowed |-> FALSE, cancelled |-> FALSE, refunded |-> FALSE,
                filledSell |-> 0, filledBuy |-> 0]]
          /\ books' = [books EXCEPT ![a] = Append(books[a], i)]
    BY <1>1 DEF commitAuctionIntent
  <2>2. commitments[i] = NoCommitment /\ auctions' = auctions
    BY <1>1 DEF commitAuctionIntent
  <2>3. a # b /\ books'[b] = books[b]
    BY <2>1, <2>2 DEF WellFormed
  <2>4. ASSUME NEW j \in Booked(b) PROVE commitments'[j] = commitments[j]
    <3>1. j \in Intents /\ j # i
      BY <2>2, BookedCommitted
    <3>2. QED  BY <2>1, <3>1 DEF WellFormed
  <2>5. QED  BY <2>2, <2>3, <2>4, SameCrossKeptWhole
<1>2. ASSUME NEW i \in Intents, cancelBeforeFreeze(i) PROVE Goal
  <2>1. /\ auctions' = auctions /\ books' = books
        /\ auctions[commitments[i].auction].phase \in {"NONE", "DISCLOSURE"}
        /\ \A j \in Intents : j # i => commitments'[j] = commitments[j]
    BY <1>2 DEF cancelBeforeFreeze, WellFormed
  <2>2. ASSUME NEW j \in Booked(b) PROVE commitments'[j] = commitments[j]
    <3>1. j \in Intents /\ commitments[j].auction = b
      BY BookedCommitted
    <3>2. QED  BY <2>1, <3>1
  <2>3. QED  BY <2>1, <2>2, SameCrossKeptWhole
<1>3. ASSUME NEW i \in Intents, refundEscrow(i) PROVE Goal
  <2>1. /\ auctions' = auctions /\ books' = books
        /\ commitments[i] \in CommitmentRecords
        /\ commitments'[i] = [commitments[i] EXCEPT !.refunded = TRUE]
        /\ \A j \in Intents : j # i => commitments'[j] = commitments[j]
    BY <1>3 DEF refundEscrow, refundable, WellFormed
  <2>2. ASSUME NEW j \in Booked(b)
        PROVE  /\ commitments'[j].filledSell = commitments[j].filledSell
               /\ commitments'[j].filledBuy = commitments[j].filledBuy
               /\ commitments'[j].escrowed = commitments[j].escrowed
               /\ commitments'[j].cancelled = commitments[j].cancelled
    <3>1. j \in Intents
      BY BookedCommitted
    <3>2. CASE j # i
      BY <2>1, <3>1, <3>2
    <3>3. CASE j = i
      BY <2>1, <3>3 DEF CommitmentRecords
    <3>4. QED  BY <3>2, <3>3
  <2>3. SameCross(b)
    BY <2>1, <2>2 DEF SameCross
  <2>4. QED  BY <2>1, <2>3
<1>4. ASSUME NEW a \in Auctions, openAuction(a) PROVE Goal
  <2>1. books' = books /\ commitments' = commitments
    BY <1>4 DEF openAuction
  <2>2. auctions[a] \in AuctionRecords /\ auctions'[a] = [auctions[a] EXCEPT !.phase = "DISCLOSURE"]
    BY <1>4 DEF openAuction, WellFormed
  <2>3. auctions'[a].phase = "DISCLOSURE"
    BY <2>2 DEF AuctionRecords
  <2>4. auctions'[b] = auctions[b]
    BY <1>4, <2>3 DEF openAuction, WellFormed
  <2>5. QED  BY <2>1, <2>4, SameCrossKeptWhole
<1>5. ASSUME NEW a \in Auctions, freeze(a) PROVE Goal
  <2>1. PICK pulled : Freezes(a, pulled)
    BY <1>5, FreezeStep
  <2>2. a # b /\ auctions'[b] = auctions[b] /\ books' = books
    BY <1>5, FreezePhase DEF freeze
  <2>3. ASSUME NEW j \in Booked(b) PROVE commitments'[j] = commitments[j]
    <3>1. j \in Intents /\ j \notin Booked(a)
      BY <2>2, OtherBook
    <3>2. QED  BY <2>1, <3>1, FreezeFields
  <2>4. QED  BY <2>2, <2>3, SameCrossKeptWhole
<1>6. ASSUME NEW a \in Auctions, extend(a) PROVE Goal
  <2>1. books' = books /\ commitments' = commitments /\ auctions[a].phase = "FROZEN"
    BY <1>6 DEF extend
  <2>2. auctions'[a] = [resolved(a) EXCEPT !.extensions = resolved(a).extensions + 1,
                                           !.collarBps = resolved(a).collarBps + COLLAR_STEP]
    BY <1>6 DEF extend, WellFormed
  <2>3. resolved(a) \in AuctionRecords /\ resolved(a).phase = "FROZEN"
    BY <1>6, <2>1, ResolvedTypes DEF extend
  <2>4. auctions'[a].phase = "FROZEN"
    BY <2>2, <2>3 DEF AuctionRecords
  <2>5. auctions'[b] = auctions[b]
    BY <1>6, <2>4 DEF extend, WellFormed
  <2>6. QED  BY <2>1, <2>5, SameCrossKeptWhole
<1>7. ASSUME NEW a \in Auctions, NEW s \in Solvers, NEW p \in Prices, submitCross(a, s, p)
      PROVE  Goal
  <2>1. CASE a = b
    BY <1>7, <2>1
  <2>2. CASE a # b
    <3>1. PICK fill : Crosses(a, s, p, fill)
      BY <1>7, SubmitStep
    <3>2. auctions'[b] = auctions[b] /\ books' = books
      BY <1>7, <2>2, <3>1, SubmitPhase DEF submitCross
    <3>3. ASSUME NEW j \in Booked(b) PROVE commitments'[j] = commitments[j]
      <4>1. j \in Intents /\ j \notin Booked(a)
        BY <2>2, OtherBook
      <4>2. \A k \in DOMAIN fill : books[a][k] # j
        BY <3>1, <4>1 DEF Crosses, Booked
      <4>3. QED  BY <3>1, <4>1, <4>2, SubmitSkips
    <3>4. QED  BY <3>2, <3>3, SameCrossKeptWhole
  <2>3. QED  BY <2>1, <2>2
<1>8. ASSUME NEW a \in Auctions, NEW c \in Challengers, NEW p \in Prices, challenge(a, c, p)
      PROVE  Goal
  <2>1. books' = books
    BY <1>8 DEF challenge
  <2>2. CASE UNCHANGED <<auctions, commitments>>
    BY <2>1, <2>2, SameCrossKeptWhole
  <2>3. CASE /\ commitments' = rollbackFills(a) /\ auctions'[a].phase = "FROZEN"
             /\ \A d \in Auctions : d # a => auctions'[d] = auctions[d]
    <3>1. a # b /\ auctions'[b] = auctions[b]
      BY <2>3
    <3>2. ASSUME NEW j \in Booked(b) PROVE commitments'[j] = commitments[j]
      <4>1. j \in Intents /\ j \notin Booked(a)
        BY <3>1, OtherBook
      <4>2. QED  BY <2>3, <4>1, RollbackFields
    <3>3. QED  BY <2>1, <3>1, <3>2, SameCrossKeptWhole
  <2>4. QED  BY <1>8, <2>2, <2>3, ChallengePhase
<1>9. ASSUME NEW a \in Auctions, executeCross(a) PROVE Goal
  <2>1. /\ auctions[a].phase = "CROSSED" /\ auctions'[a] = [auctions[a] EXCEPT !.phase = "EXECUTED"]
        /\ auctions[a] \in AuctionRecords
        /\ \A c \in Auctions : c # a => auctions'[c] = auctions[c]
        /\ commitments' = commitments /\ books' = books
    BY <1>9, ExecutePhase DEF executeCross
  <2>2. CASE b = a
    <3>1. /\ auctions'[a].refPrice = auctions[a].refPrice
          /\ auctions'[a].rooExcluded = auctions[a].rooExcluded
          /\ auctions'[a].clearingPrice = auctions[a].clearingPrice
          /\ auctions'[a].matchedVolume = auctions[a].matchedVolume
          /\ auctions'[a].tokenDust = auctions[a].tokenDust
          /\ auctions'[a].quoteDust = auctions[a].quoteDust
      BY <2>1 DEF AuctionRecords
    <3>2. SameCross(b)
      BY <2>1, <2>2, <3>1 DEF SameCross
    <3>3. QED  BY <2>1, <2>2, <3>2
  <2>3. CASE b # a
    BY <2>1, <2>3, SameCrossKeptWhole
  <2>4. QED  BY <2>2, <2>3
<1>10. ASSUME NEW a \in Auctions, abortAuction(a) PROVE Goal
  <2>1. /\ a # b /\ auctions'[b] = auctions[b] /\ books' = books
        /\ commitments' = IF auctions[a].phase = "CROSSED" THEN rollbackFills(a) ELSE commitments
    BY <1>10, AbortPhase DEF abortAuction
  <2>2. ASSUME NEW j \in Booked(b) PROVE commitments'[j] = commitments[j]
    <3>1. j \in Intents /\ j \notin Booked(a)
      BY <2>1, OtherBook
    <3>2. QED  BY <2>1, <3>1, RollbackFields
  <2>3. QED  BY <2>1, <2>2, SameCrossKeptWhole
<1>11. ASSUME UNCHANGED <<auctions, books, commitments>> PROVE Goal
  BY <1>11, SameCrossKeptWhole
<1>12. QED
  BY <1>1, <1>2, <1>3, <1>4, <1>5, <1>6, <1>7, <1>8, <1>9, <1>10, <1>11, StepCases, WorldStep

\* Whatever a book matches is a quantity.
LEMMA MatchedNat ==
  ASSUME NEW book, IsFiniteSet(book), \A e \in book : e.sellAmount \in Nat,
         NEW price \in Nat \ {0}, NEW ref, NEW rooExcluded
  PROVE  matched(book, price, ref, rooExcluded) \in Nat
<1> DEFINE B == Takers(book, TRUE, price, ref, rooExcluded)
           S == Takers(book, FALSE, price, ref, rooExcluded)
           f == [e \in book |-> tokenOf(e.sellAmount, price)]
           g == [e \in book |-> e.sellAmount]
<1>1. IsFiniteSet(B) /\ IsFiniteSet(S) /\ B \subseteq book /\ S \subseteq book
  BY FS_Subset DEF Takers
<1>2. \A e \in book : f[e] \in Nat
  <2> SUFFICES ASSUME NEW e \in book PROVE tokenOf(e.sellAmount, price) \in Nat
    OBVIOUS
  <2>1. e.sellAmount * WAD \in Nat
    BY ScaleAssumption, Z3
  <2>2. QED  BY <2>1, DivNat DEF tokenOf
<1>3. \A e \in book : g[e] \in Nat
  OBVIOUS
<1> HIDE DEF B, S, f, g
<1>4. SumFunctionOnSet(f, B) \in Nat /\ SumFunctionOnSet(g, S) \in Nat
  BY <1>1, <1>2, <1>3, SumNat
<1>5. /\ demand(book, price, ref, rooExcluded) = SumFunctionOnSet(f, B)
      /\ supply(book, price, ref, rooExcluded) = SumFunctionOnSet(g, S)
  BY DEF demand, supply, B, S, f, g
<1>6. QED  BY <1>4, <1>5 DEF matched

LEMMA FrozenMatchedNat ==
  ASSUME WellFormed, NEW a \in Auctions, NEW price \in Nat \ {0}, NEW ref, NEW rooExcluded
  PROVE  matched(frozenBook(a), price, ref, rooExcluded) \in Nat
<1> DEFINE D == {j \in DOMAIN books[a] : /\ ~commitments[books[a][j]].cancelled
                                         /\ commitments[books[a][j]].escrowed}
           m == [k \in D |-> Entry(a, k)]
<1>1. IsFiniteSet(D)
  BY BookTypes, FS_Subset
<1>2. frozenBook(a) = {m[k] : k \in D}
  BY DEF frozenBook
<1>3. IsFiniteSet(frozenBook(a))
  <2>1. m \in Surjection(D, {m[k] : k \in D})
    BY DEF Surjection
  <2> HIDE DEF D, m
  <2>2. QED  BY <1>1, <1>2, <2>1, FS_Surjection
<1>4. \A e \in frozenBook(a) : e.sellAmount \in Nat
  <2>1. ASSUME NEW k \in D PROVE Entry(a, k).sellAmount \in Nat
    <3>1. books[a][k] \in Intents
      BY BookTypes
    <3>2. Entry(a, k).sellAmount = books[a][k].sellAmount
      BY DEF Entry
    <3>3. QED  BY <3>1, <3>2, IntentData
  <2>2. QED  BY <1>2, <2>1
<1>5. QED  BY <1>3, <1>4, MatchedNat

\* Before a cross the fills of a frozen book are zero.
LEMMA NoFillsYet ==
  ASSUME BaseInv, NEW a \in Auctions, auctions[a].phase = "FROZEN", NEW i \in Booked(a)
  PROVE  commitments[i].filledSell = 0 /\ commitments[i].filledBuy = 0
<1>1. /\ commitments[i] \in CommitmentRecords /\ commitments[i].auction = a
      /\ commitments[i] # NoCommitment /\ i \in Intents
  BY BookedCommitted DEF BaseInv
<1>2. EscrowOk(i)
  BY <1>1 DEF BaseInv, EscrowInv
<1>3. QED  BY <1>1, <1>2 DEF EscrowOk, PhaseOf

\* The fills a cross leaves on its book are the executions it was called with.
LEMMA CrossFills ==
  ASSUME BaseInv, NEW a \in Auctions, NEW s, NEW price \in Prices, NEW fill,
         Crosses(a, s, price, fill), auctions[a].phase = "FROZEN", NEW i \in Booked(a)
  PROVE  /\ commitments'[i].escrowed = commitments[i].escrowed
         /\ commitments'[i].cancelled = commitments[i].cancelled
         /\ \A k \in DOMAIN fill : books[a][k] = i =>
              /\ commitments'[i].filledSell = fill[k]
              /\ commitments'[i].filledBuy = boughtAt(i, fill[k], price)
         /\ (\A k \in DOMAIN fill : books[a][k] # i) =>
              commitments'[i].filledSell = 0 /\ commitments'[i].filledBuy = 0
<1> USE DEF BaseInv
<1>1. i \in Intents /\ commitments[i].filledSell = 0 /\ commitments[i].filledBuy = 0
  BY BookTypes, NoFillsYet
<1>2. ASSUME \A k \in DOMAIN fill : books[a][k] # i PROVE commitments'[i] = commitments[i]
  BY <1>1, <1>2, SubmitSkips
<1>3. ASSUME NEW k \in DOMAIN fill, books[a][k] = i
      PROVE  /\ commitments'[i].filledSell = fill[k]
             /\ commitments'[i].filledBuy = boughtAt(i, fill[k], price)
             /\ commitments'[i].escrowed = commitments[i].escrowed
             /\ commitments'[i].cancelled = commitments[i].cancelled
  <2>1. fill[k] \in Nat /\ commitments[i].escrowed /\ ~commitments[i].cancelled
    BY <1>1, <1>3, SubmitFills
  <2>2. boughtAt(i, fill[k], price) \in Nat
    BY <2>1, PricesNat, BoughtNat
  <2>3. /\ commitments'[i].escrowed /\ ~commitments'[i].cancelled
        /\ commitments'[i].filledSell = commitments[i].filledSell + fill[k]
        /\ commitments'[i].filledBuy = commitments[i].filledBuy + boughtAt(i, fill[k], price)
    BY <1>1, <1>3, SubmitFields
  <2>4. /\ commitments'[i] \in CommitmentRecords /\ commitments[i] \in CommitmentRecords
    BY <1>1, <1>3, SubmitFields, BookedCommitted
  <2>5. /\ commitments'[i].escrowed = commitments[i].escrowed
        /\ commitments'[i].cancelled = commitments[i].cancelled
    BY <2>1, <2>3, <2>4 DEF CommitmentRecords
  <2> DEFINE n == boughtAt(i, fill[k], price)
  <2>6. n \in Nat /\ commitments'[i].filledBuy = 0 + n
    BY <1>1, <2>2, <2>3
  <2> HIDE DEF n
  <2>7. commitments'[i].filledBuy = n /\ commitments'[i].filledSell = fill[k]
    BY <1>1, <2>1, <2>3, <2>6
  <2>8. QED  BY <2>5, <2>7 DEF n
<1>4. QED  BY <1>1, <1>2, <1>3

LEMMA CrossSums ==
  ASSUME BaseInv, NEW a \in Auctions, NEW s, NEW price \in Prices, NEW fill,
         Crosses(a, s, price, fill), auctions[a].phase = "FROZEN", books' = books,
         NEW buy \in BOOLEAN
  PROVE  /\ SoldBy(a, buy)' = SoldIn(a, fill, buy)
         /\ GotBy(a, buy)' = BoughtIn(a, fill, buy, price)
<1> USE DEF BaseInv
<1> DEFINE K == {k \in DOMAIN fill : books[a][k].buy = buy}
           B == {i \in Booked(a) : i.buy = buy}
           m == [k \in K |-> books[a][k]]
           got == [k \in DOMAIN fill |-> boughtAt(books[a][k], fill[k], price)]
           g == [i \in Booked(a) |-> commitments'[i].filledSell]
           h == [i \in Booked(a) |-> commitments'[i].filledBuy]
<1>1. /\ fill \in [DOMAIN fill -> Nat] /\ DOMAIN fill \subseteq DOMAIN books[a]
  BY DEF Crosses
<1>2. IsFiniteSet(K) /\ IsFiniteSet(B)
  BY <1>1, BookTypes, Numbers, FS_Subset
<1>3. \A x, y \in K : m[x] = m[y] => x = y
  BY <1>1 DEF BookInv
<1>4. ASSUME NEW x \in K
      PROVE  /\ fill[x] \in Int /\ g[m[x]] = fill[x] /\ m[x] \in B
             /\ got[x] \in Int /\ h[m[x]] = got[x]
  <2>1. m[x] = books[a][x] /\ m[x] \in Booked(a) /\ m[x] \in B /\ fill[x] \in Nat
    BY <1>1 DEF Booked
  <2>2. /\ commitments'[m[x]].filledSell = fill[x]
        /\ commitments'[m[x]].filledBuy = boughtAt(m[x], fill[x], price)
    BY <2>1, CrossFills
  <2>3. boughtAt(m[x], fill[x], price) \in Nat
    BY <2>1, PricesNat, BoughtNat
  <2>4. QED  BY <2>1, <2>2, <2>3
<1>5. ASSUME NEW b \in B, \A x \in K : m[x] # b PROVE g[b] = 0 /\ h[b] = 0
  <2>1. b \in Booked(a) /\ \A k \in DOMAIN fill : books[a][k] # b
    BY <1>5
  <2>2. QED  BY <2>1, CrossFills
<1>6. SoldBy(a, buy)' = SumFunctionOnSet(g, B) /\ GotBy(a, buy)' = SumFunctionOnSet(h, B)
  BY DEF SoldBy, GotBy, Booked
<1>7. /\ SoldIn(a, fill, buy) = SumFunctionOnSet(fill, K)
      /\ BoughtIn(a, fill, buy, price) = SumFunctionOnSet(got, K)
  BY DEF SoldIn, BoughtIn
<1> HIDE DEF K, B, m, got, g, h
<1>8. SumFunctionOnSet(g, B) = SumFunctionOnSet(fill, K)
  BY <1>2, <1>3, <1>4, <1>5, SumImage
<1>9. SumFunctionOnSet(h, B) = SumFunctionOnSet(got, K)
  BY <1>2, <1>3, <1>4, <1>5, SumImage
<1>10. QED  BY <1>6, <1>7, <1>8, <1>9

LEMMA NewCross ==
  ASSUME BaseInv, NEW a \in Auctions, NEW s \in Solvers, NEW price \in Prices,
         submitCross(a, s, price)
  PROVE  FiguresOk(a)' /\ \A k \in DOMAIN books'[a] : FillOk(a, k)'
<1> USE DEF BaseInv
<1>1. PICK fill : Crosses(a, s, price, fill)
  BY SubmitStep
<1>a. /\ auctions[a].phase = "FROZEN" /\ auctions'[a].clearingPrice = price
      /\ auctions'[a].refPrice = resolved(a).refPrice
      /\ auctions'[a].rooExcluded = resolved(a).rooExcluded
  BY <1>1, SubmitPhase
<1>b. auctions'[a].matchedVolume = BoughtIn(a, fill, TRUE, price)
  BY <1>1, SubmitPhase
<1>c. auctions'[a].tokenDust = SoldIn(a, fill, FALSE) - BoughtIn(a, fill, TRUE, price)
  BY <1>1, SubmitPhase
<1>d. auctions'[a].quoteDust = SoldIn(a, fill, TRUE) - BoughtIn(a, fill, FALSE, price)
  BY <1>1, SubmitPhase
<1> DEFINE ref == resolved(a).refPrice
           roo == resolved(a).rooExcluded
           soldS == SoldIn(a, fill, FALSE)
           soldB == SoldIn(a, fill, TRUE)
           gotB == BoughtIn(a, fill, TRUE, price)
           gotS == BoughtIn(a, fill, FALSE, price)
<1>2. /\ auctions[a].phase = "FROZEN" /\ books' = books
      /\ auctions'[a].clearingPrice = price
      /\ auctions'[a].refPrice = ref /\ auctions'[a].rooExcluded = roo
      /\ auctions'[a].matchedVolume = gotB
      /\ auctions'[a].tokenDust = soldS - gotB
      /\ auctions'[a].quoteDust = soldB - gotS
  BY <1>a, <1>b, <1>c, <1>d DEF submitCross
<1>3. price \in Nat \ {0}
  BY PricesNat
<1>4. \A i \in Booked(a) : /\ commitments'[i].escrowed = commitments[i].escrowed
                           /\ commitments'[i].cancelled = commitments[i].cancelled
  BY <1>1, <1>2, CrossFills
<1>5. frozenBook(a)' = frozenBook(a) /\ \A k \in DOMAIN books[a] : Entry(a, k)' = Entry(a, k)
  BY <1>2, <1>4, FrozenBookKept
<1>6. /\ SoldBy(a, FALSE)' = soldS /\ SoldBy(a, TRUE)' = soldB
      /\ GotBy(a, FALSE)' = gotS /\ GotBy(a, TRUE)' = gotB
  <2>1. books' = books
    BY <1>2
  <2>2. auctions[a].phase = "FROZEN"
    BY <1>2
  <2>3. SoldBy(a, FALSE)' = SoldIn(a, fill, FALSE) /\ GotBy(a, FALSE)' = BoughtIn(a, fill, FALSE, price)
    <3>1. FALSE \in BOOLEAN
      OBVIOUS
    <3>2. QED  BY <1>1, <2>1, <2>2, <3>1, CrossSums
  <2>4. SoldBy(a, TRUE)' = SoldIn(a, fill, TRUE) /\ GotBy(a, TRUE)' = BoughtIn(a, fill, TRUE, price)
    <3>1. TRUE \in BOOLEAN
      OBVIOUS
    <3>2. QED  BY <1>1, <2>1, <2>2, <3>1, CrossSums
  <2>5. QED  BY <2>3, <2>4
<1>7. soldS \in Nat /\ soldB \in Nat /\ gotB \in Nat /\ gotS \in Nat
  BY <1>1, CrossFigures
<1>8. gotB + Cardinality(DOMAIN books[a]) >= matched(frozenBook(a), price, ref, roo)
  <2> DEFINE v == matched(frozenBook(a), price, ref, roo)
             n == Cardinality(DOMAIN fill)
             o == Cardinality(DOMAIN books[a])
  <2>1. gotB + n >= v
    BY <1>1 DEF Crosses, applyCrossReturns, volumeEnough
  <2>2. v \in Nat
    BY <1>3, FrozenMatchedNat
  <2>3. n \in Nat /\ o \in Nat /\ n <= o
    <3>1. IsFiniteSet(DOMAIN books[a]) /\ DOMAIN fill \subseteq DOMAIN books[a]
      BY <1>1, BookTypes DEF Crosses
    <3>2. QED  BY <3>1, FS_Subset, FS_CardinalityType
  <2> HIDE DEF v, n, o, gotB
  <2>4. QED  BY <1>7, <2>1, <2>2, <2>3 DEF v, o
<1>9. FiguresOk(a)'
  <2> HIDE DEF ref, roo, soldS, soldB, gotB, gotS
  <2>1. soldS = gotB + (soldS - gotB) /\ soldB = gotS + (soldB - gotS)
    BY <1>7
  <2>2. auctions'[a].matchedVolume + Cardinality(DOMAIN books'[a])
          >= matched(frozenBook(a)', auctions'[a].clearingPrice, auctions'[a].refPrice,
                     auctions'[a].rooExcluded)
    BY <1>2, <1>5, <1>8
  <2>3. QED  BY <1>2, <1>6, <2>1, <2>2 DEF FiguresOk
<1>10. ASSUME NEW k \in DOMAIN books'[a] PROVE FillOk(a, k)'
  <2> DEFINE i == books[a][k]
  <2>1. k \in DOMAIN books[a] /\ books'[a][k] = i /\ i \in Booked(a) /\ i \in Intents
    BY <1>2, BookTypes DEF Booked
  <2>2. CASE k \in DOMAIN fill
    <3>1. /\ commitments'[i].filledSell = fill[k]
          /\ commitments'[i].filledBuy = boughtAt(i, fill[k], price)
      BY <1>1, <1>2, <2>1, <2>2, CrossFills
    <3>2. participating(Entry(a, k), ref, roo) /\ acceptsPrice(Entry(a, k), price, ref)
      BY <1>1, <2>1, <2>2, SubmitFills
    <3>3. QED  BY <1>2, <1>5, <2>1, <3>1, <3>2 DEF FillOk
  <2>3. CASE k \notin DOMAIN fill
    <3>1. ASSUME NEW j \in DOMAIN fill PROVE books[a][j] # i
      <4>1. j \in DOMAIN books[a] /\ j # k
        BY <1>1, <2>3 DEF Crosses
      <4>2. QED  BY <2>1, <4>1 DEF BookInv
    <3>2. commitments'[i].filledSell = 0 /\ commitments'[i].filledBuy = 0
      <4>1. i \in Booked(a) /\ \A j \in DOMAIN fill : books[a][j] # i
        BY <2>1, <3>1
      <4> HIDE DEF i
      <4>2. i \in Intents /\ ~ \E j \in DOMAIN fill : books[a][j] = i
        BY <4>1, BookTypes
      <4>3. commitments'[i] = commitments[i]
        BY <1>1, <4>2, SubmitSkips
      <4>4. QED  BY <1>a, <4>1, <4>3, NoFillsYet
    <3>3. boughtAt(i, 0, price) = 0
      BY <1>3, NothingBought
    <3>4. QED  BY <1>2, <2>1, <3>2, <3>3 DEF FillOk
  <2>4. QED  BY <2>2, <2>3
<1>11. QED  BY <1>9, <1>10

LEMMA StandsStep == BaseInv /\ StandsInv /\ [Next]_vars => StandsInv'
<1> SUFFICES ASSUME BaseInv, StandsInv, [Next]_vars, NEW b \in Auctions,
                    auctions'[b].phase \in {"CROSSED", "EXECUTED"}
             PROVE  FiguresOk(b)' /\ \A k \in DOMAIN books'[b] : FillOk(b, k)'
  BY DEF StandsInv
<1>1. CASE SameCross(b) /\ auctions[b].phase \in {"CROSSED", "EXECUTED"}
  <2>1. FiguresOk(b) /\ \A k \in DOMAIN books[b] : FillOk(b, k)
    BY <1>1 DEF StandsInv
  <2>2. QED  BY <1>1, <2>1, CrossKept
<1>2. CASE \E s \in Solvers, p \in Prices : submitCross(b, s, p)
  BY <1>2, NewCross
<1>3. QED  BY <1>1, <1>2, StandingStep

LEMMA StandsInit == Init => StandsInv
BY DEF Init, StandsInv, NewAuction

LEMMA StandsAlways == Spec => [](BaseInv /\ StandsInv)
<1>1. Init => BaseInv /\ StandsInv
  BY BaseInit, StandsInit
<1>2. BaseInv /\ StandsInv /\ [Next]_vars => (BaseInv /\ StandsInv)'
  BY BaseStep, StandsStep
<1>3. QED  BY <1>1, <1>2, PTL DEF Spec

\* The recorded fills and dust of a standing or executed cross balance token for
\* token, every filled order accepts its one price under the final reference, and
\* no volume the frozen book could match at that price was left out by more than
\* the rounding (submitCross, challenge, extend, executeCross).
THEOREM CrossesStand == Spec => []CrossStands
<1>1. BaseInv /\ StandsInv => CrossStands
  <2> SUFFICES ASSUME BaseInv, StandsInv, NEW a \in Auctions,
                      auctions[a].phase \in {"CROSSED", "EXECUTED"}
               PROVE  LET x == auctions[a]
                          filled == {k \in DOMAIN books[a] : commitments[books[a][k]].filledSell > 0}
                      IN  /\ SoldBy(a, FALSE) = GotBy(a, TRUE) + x.tokenDust
                          /\ SoldBy(a, TRUE) = GotBy(a, FALSE) + x.quoteDust
                          /\ x.matchedVolume = GotBy(a, TRUE)
                          /\ x.referenceFinal
                          /\ \A k \in filled : /\ participating(Entry(a, k), x.refPrice, x.rooExcluded)
                                               /\ acceptsPrice(Entry(a, k), x.clearingPrice, x.refPrice)
                          /\ x.matchedVolume + Cardinality(DOMAIN books[a])
                               >= matched(frozenBook(a), x.clearingPrice, x.refPrice, x.rooExcluded)
    BY DEF CrossStands
  <2>1. auctions[a].referenceFinal
    BY DEF BaseInv, CrossInv
  <2>2. FiguresOk(a)
    BY DEF StandsInv
  <2>3. ASSUME NEW k \in DOMAIN books[a], commitments[books[a][k]].filledSell > 0
        PROVE  /\ participating(Entry(a, k), auctions[a].refPrice, auctions[a].rooExcluded)
               /\ acceptsPrice(Entry(a, k), auctions[a].clearingPrice, auctions[a].refPrice)
    <3>1. FillOk(a, k)
      BY DEF StandsInv
    <3>2. commitments[books[a][k]].filledSell # 0
      BY <2>3
    <3>3. QED  BY <3>1, <3>2 DEF FillOk
  <2>4. QED  BY <2>1, <2>2, <2>3 DEF FiguresOk
<1>2. QED  BY <1>1, StandsAlways, PTL

----------------------------------------------------------------------------
(* What a limit is worth.                                                  *)

LEMMA FloorBounds ==
  ASSUME NEW x \in Nat, NEW y \in Nat \ {0}
  PROVE  /\ x \div y \in Nat /\ (x \div y) * y <= x /\ x < (x \div y + 1) * y
BY Z3

LEMMA TimesLe == ASSUME NEW x \in Nat, NEW y \in Nat, NEW n \in Nat, x <= y PROVE x * n <= y * n
BY Z3

LEMMA SellerFloor ==
  ASSUME NEW fs \in Nat, NEW fb \in Nat, NEW wad \in Nat, NEW price \in Nat, NEW L \in Nat,
         NEW sell \in Nat, NEW min \in Nat,
         fs * price <= (fb + 1) * wad, L <= price, min * wad <= (L + 1) * sell
  PROVE  ((fb + 1) * wad + fs) * sell >= min * fs * wad
<1>1. fs * L <= fs * price
  BY Z3
<1>2. fs * (L + 1) <= (fb + 1) * wad + fs
  <2>1. fs * (L + 1) = fs * L + fs
    BY Z3
  <2>2. fs * L \in Nat /\ fs * price \in Nat /\ (fb + 1)*wad \in Nat
    BY Z3
  <2>3. QED  BY <1>1, <2>1, <2>2
<1>3. (fs * (L + 1)) * sell <= ((fb + 1) * wad + fs) * sell
  <2>1. fs * (L + 1) \in Nat /\ (fb + 1) * wad + fs \in Nat
    BY Z3
  <2>2. QED  BY <1>2, <2>1, TimesLe
<1>4. (min * wad) * fs <= ((L + 1) * sell) * fs
  <2>1. min * wad \in Nat /\ (L + 1) * sell \in Nat
    BY Z3
  <2>2. QED  BY <2>1, TimesLe
<1>5. /\ ((L + 1) * sell) * fs = (fs * (L + 1)) * sell
      /\ (min * wad) * fs = min * fs * wad
  BY Z3
<1>6. (min * wad) * fs \in Nat /\ ((L + 1) * sell) * fs \in Nat /\ ((fb + 1) * wad + fs) * sell \in Nat
  BY Z3
<1>7. QED  BY <1>3, <1>4, <1>5, <1>6

LEMMA BuyerFloor ==
  ASSUME NEW fs \in Nat, NEW fb \in Nat, NEW wad \in Nat, NEW price \in Nat, NEW L \in Nat,
         NEW sell \in Nat, NEW min \in Nat,
         fs * wad <= (fb + 1) * price, price <= L, L * min <= sell * wad
  PROVE  ((fb + 1) * wad + fs) * sell >= min * fs * wad
<1> DEFINE u == fb + 1
<1>0. u \in Nat
  OBVIOUS
<1>1. price * u <= L * u
  BY <1>0, TimesLe
<1> HIDE DEF u
<1>2. fs * wad <= L * u
  <2>1. price * u = u * price /\ price * u \in Nat /\ L * u \in Nat /\ fs * wad \in Nat
    BY <1>0, Z3
  <2>2. fs * wad <= u * price
    BY DEF u
  <2>3. QED  BY <1>1, <2>1, <2>2
<1>3. (fs * wad) * min <= (L * u) * min
  <2>1. L * u \in Nat /\ fs * wad \in Nat
    BY <1>0, Z3
  <2>2. QED  BY <1>2, <2>1, TimesLe
<1>4. (L * min) * u <= (sell * wad) * u
  <2>1. L * min \in Nat /\ sell * wad \in Nat
    BY Z3
  <2>2. QED  BY <1>0, <2>1, TimesLe
<1>5. /\ (L * u) * min = (L * min) * u
      /\ (fs * wad) * min = min * fs * wad
      /\ (sell * wad) * u = (u * wad) * sell
      /\ (u * wad + fs) * sell = (u * wad) * sell + fs * sell
  BY <1>0, Z3
<1>6. /\ min * fs * wad \in Nat /\ (L * min) * u \in Nat /\ (u * wad) * sell \in Nat /\ fs * sell \in Nat
      /\ (u * wad + fs) * sell \in Nat
  BY <1>0, Z3
<1>7. (u * wad + fs) * sell >= min * fs * wad
  BY <1>3, <1>4, <1>5, <1>6
<1>8. QED  BY <1>7 DEF u

\* What a floored price says of the amounts it was computed from.
LEMMA SellLimit ==
  ASSUME NEW i \in Intents, NEW fs \in Nat, NEW price \in Nat,
         i.kind = "LOO", ~i.buy, fs # 0, fs <= i.sellAmount, limitOf(i) = 0 \/ limitOf(i) <= price
  PROVE  ((boughtAt(i, fs, price) + 1) * WAD + fs) * i.sellAmount >= i.minBuyAmount * fs * WAD
<1> DEFINE sell == i.sellAmount
           min == i.minBuyAmount
           fb == (fs * price) \div WAD
           L == (min * WAD) \div sell
<1>1. sell \in Nat \ {0} /\ min \in Nat /\ WAD \in Nat \ {0}
  BY IntentData, ScaleAssumption
<1>2. boughtAt(i, fs, price) = fb /\ limitOf(i) = L
  BY DEF boughtAt, quoteOf, limitOf
<1>3. fs * price \in Nat /\ min * WAD \in Nat
  BY <1>1, Z3
<1>4. fb \in Nat /\ fs * price < (fb + 1) * WAD
  BY <1>1, <1>3, FloorBounds
<1>5. L \in Nat /\ min * WAD < (L + 1) * sell
  BY <1>1, <1>3, FloorBounds
<1>6. L = 0 \/ L <= price
  BY <1>2
<1> HIDE DEF sell, min, fb, L
<1>7. L <= price
  BY <1>5, <1>6
<1>8. /\ (fb + 1) * WAD \in Nat /\ (L + 1) * sell \in Nat
  BY <1>1, <1>4, <1>5, Z3
<1>9. fs * price <= (fb + 1) * WAD /\ min * WAD <= (L + 1) * sell
  BY <1>3, <1>4, <1>5, <1>8
<1>10. ((fb + 1) * WAD + fs) * sell >= min * fs * WAD
  BY <1>1, <1>4, <1>5, <1>7, <1>9, SellerFloor
<1>11. QED  BY <1>2, <1>10 DEF sell, min

LEMMA BuyLimit ==
  ASSUME NEW i \in Intents, NEW fs \in Nat, NEW price \in Nat \ {0},
         i.kind = "LOO", i.buy, i.minBuyAmount # 0, limitOf(i) # 0, price <= limitOf(i)
  PROVE  ((boughtAt(i, fs, price) + 1) * WAD + fs) * i.sellAmount >= i.minBuyAmount * fs * WAD
<1> DEFINE sell == i.sellAmount
           min == i.minBuyAmount
           fb == (fs * WAD) \div price
           L == (sell * WAD) \div min
<1>1. sell \in Nat /\ min \in Nat \ {0} /\ WAD \in Nat \ {0}
  BY IntentData, ScaleAssumption
<1>2. boughtAt(i, fs, price) = fb /\ limitOf(i) = L
  BY DEF boughtAt, tokenOf, limitOf
<1>3. fs * WAD \in Nat /\ sell * WAD \in Nat
  BY <1>1, Z3
<1>4. fb \in Nat /\ fs * WAD < (fb + 1) * price
  BY <1>3, FloorBounds
<1>5. L \in Nat /\ L * min <= sell * WAD
  BY <1>1, <1>3, FloorBounds
<1>6. price <= L
  BY <1>2
<1> HIDE DEF sell, min, fb, L
<1>7. (fb + 1) * price \in Nat
  BY <1>4, Z3
<1>8. fs * WAD <= (fb + 1) * price
  BY <1>3, <1>4, <1>7
<1>9. ((fb + 1) * WAD + fs) * sell >= min * fs * WAD
  BY <1>1, <1>4, <1>5, <1>6, <1>8, BuyerFloor
<1>10. QED  BY <1>2, <1>9 DEF sell, min

\* A limit order that was filled got its signed ratio, up to the rounding of the
\* stored limit and of the fill, in every phase a fill exists (_limitOf,
\* _applyCross, acceptsPrice).
THEOREM LimitsHold == Spec => []LimitUpToRounding
<1>1. BaseInv /\ StandsInv => LimitUpToRounding
  <2> SUFFICES ASSUME BaseInv, StandsInv, NEW i \in Escrowed, i.kind = "LOO",
                      i.buy => limitOf(i) # 0
               PROVE  ((commitments[i].filledBuy + 1) * WAD + commitments[i].filledSell) * i.sellAmount
                        >= i.minBuyAmount * commitments[i].filledSell * WAD
    BY DEF LimitUpToRounding
  <2> DEFINE fs == commitments[i].filledSell
             fb == commitments[i].filledBuy
             a == commitments[i].auction
             price == auctions[a].clearingPrice
  <2>1. i \in Intents /\ commitments[i] # NoCommitment /\ commitments[i] \in CommitmentRecords
    BY DEF Escrowed, BaseInv, WellFormed
  <2>2. /\ fs \in Nat /\ fb \in Nat /\ a \in Auctions
        /\ i.sellAmount \in Nat /\ i.minBuyAmount \in Nat /\ i.buy \in BOOLEAN /\ WAD \in Nat
    BY <2>1, IntentData, ScaleAssumption DEF CommitmentRecords
  <2>3. EscrowOk(i)
    BY <2>1 DEF BaseInv, EscrowInv
  <2>4. CASE i.minBuyAmount = 0 \/ fs = 0
    <3>1. ((fb + 1) * WAD + fs) * i.sellAmount \in Nat
      <4> HIDE DEF fs, fb
      <4>1. QED  BY <2>2, Z3
    <3>2. i.minBuyAmount * fs * WAD = 0
      <4> HIDE DEF fs, fb
      <4>1. QED  BY <2>2, <2>4, Z3
    <3>3. QED  BY <3>1, <3>2
  <2>5. CASE i.minBuyAmount # 0 /\ fs # 0
    <3>1. auctions[a].phase \in {"CROSSED", "EXECUTED"} /\ fs <= i.sellAmount
      BY <2>3, <2>5 DEF EscrowOk, PhaseOf
    <3>2. price \in Nat \ {0}
      BY <2>2, <3>1, PricesNat DEF BaseInv, CrossInv
    <3>3. PICK k \in DOMAIN books[a] : books[a][k] = i
      BY <2>1, <2>2 DEF BaseInv, BookInv, Booked
    <3>4. FillOk(a, k)
      BY <2>2, <3>1 DEF StandsInv
    <3>5. fb = boughtAt(i, fs, price) /\ acceptsPrice(Entry(a, k), price, auctions[a].refPrice)
      BY <2>5, <3>3, <3>4 DEF FillOk
    <3>6. limitOf(i) = 0 \/ (IF i.buy THEN price <= limitOf(i) ELSE price >= limitOf(i))
      <4>1. /\ Entry(a, k).kind = "LOO" /\ Entry(a, k).limitPrice = limitOf(i)
            /\ Entry(a, k).buy = i.buy
        BY <3>3 DEF Entry
      <4>2. effectiveLimit(Entry(a, k), auctions[a].refPrice) = limitOf(i)
        BY <4>1 DEF effectiveLimit
      <4>3. QED  BY <3>5, <4>1, <4>2 DEF acceptsPrice
    <3>7. CASE i.buy
      <4>1. limitOf(i) # 0 /\ price <= limitOf(i)
        BY <3>6, <3>7
      <4> HIDE DEF fs, fb, a, price
      <4>2. ((boughtAt(i, fs, price) + 1) * WAD + fs) * i.sellAmount >= i.minBuyAmount * fs * WAD
        BY <2>1, <2>2, <2>5, <3>2, <3>7, <4>1, BuyLimit
      <4>3. QED  BY <3>5, <4>2 DEF fs, fb
    <3>8. CASE ~i.buy
      <4>1. limitOf(i) = 0 \/ limitOf(i) <= price
        <5>1. limitOf(i) = 0 \/ price >= limitOf(i)
          BY <3>6, <3>8
        <5>2. QED  BY <5>1
      <4> HIDE DEF fs, fb, a, price
      <4>2. ((boughtAt(i, fs, price) + 1) * WAD + fs) * i.sellAmount >= i.minBuyAmount * fs * WAD
        BY <2>1, <2>2, <2>5, <3>1, <3>2, <3>8, <4>1, SellLimit
      <4>3. QED  BY <3>5, <4>2 DEF fs, fb
    <3>9. QED  BY <2>2, <3>7, <3>8
  <2>6. QED  BY <2>4, <2>5
<1>2. QED  BY <1>1, StandsAlways, PTL

----------------------------------------------------------------------------
(* The closing prints.                                                     *)

\* A closing auction that has not executed has no print yet.
PrintInv ==
  /\ DOMAIN rounds = (Tokens \ {Quote}) \X {AuctionDay[a] : a \in Auctions}
  /\ rounds = [r \in DOMAIN rounds |-> rounds[r]]
  /\ \A a \in Auctions : auctions[a].phase # "EXECUTED" /\ AuctionKind[a] = "CLOSE" =>
       rounds[<<AuctionToken[a], AuctionDay[a]>>] = NoRound

\* An executed auction is never touched again.
LEMMA EndedKept ==
  ASSUME WellFormed, [Next]_vars, NEW c \in Auctions, auctions[c].phase = "EXECUTED"
  PROVE  auctions'[c] = auctions[c]
<1>1. ASSUME NEW i \in Intents, commitAuctionIntent(i) \/ cancelBeforeFreeze(i) \/ refundEscrow(i)
      PROVE  auctions'[c] = auctions[c]
  BY <1>1 DEF commitAuctionIntent, cancelBeforeFreeze, refundEscrow
<1>2. ASSUME NEW a \in Auctions, openAuction(a) \/ freeze(a) \/ extend(a)
      PROVE  auctions'[c] = auctions[c]
  BY <1>2 DEF openAuction, freeze, extend, WellFormed
<1>3. ASSUME NEW a \in Auctions, executeCross(a) PROVE auctions'[c] = auctions[c]
  BY <1>3 DEF executeCross, executable, WellFormed
<1>4. ASSUME NEW a \in Auctions, abortAuction(a) PROVE auctions'[c] = auctions[c]
  <2>1. a # c
    BY <1>4 DEF abortAuction, abortable
  <2>2. QED  BY <1>4, <2>1 DEF abortAuction, WellFormed
<1>5. ASSUME NEW a \in Auctions, NEW s \in Solvers, NEW p \in Prices, submitCross(a, s, p)
      PROVE  auctions'[c] = auctions[c]
  <2>1. a # c
    BY <1>5 DEF submitCross
  <2>2. PICK P, fill : auctions' = [auctions EXCEPT ![a] = crossed(a, s, p, fill)]
    BY <1>5 DEF submitCross
  <2>3. QED  BY <2>1, <2>2 DEF WellFormed
<1>6. ASSUME NEW a \in Auctions, NEW h \in Challengers, NEW p \in Prices, challenge(a, h, p)
      PROVE  auctions'[c] = auctions[c]
  <2>1. a # c
    BY <1>6 DEF challenge, challengeable
  <2>2. QED  BY <1>6, <2>1 DEF challenge, WellFormed
<1>7. QED  BY <1>1, <1>2, <1>3, <1>4, <1>5, <1>6, StepCases, WorldStep

\* Only the execution of a closing cross publishes, and only its own round.
LEMMA PrintStep ==
  ASSUME WellFormed, [Next]_vars
  PROVE  \/ UNCHANGED <<rounds, latestPrintDay>>
         \/ \E a \in Auctions : /\ executeCross(a) /\ AuctionKind[a] = "CLOSE"
                                /\ \E v : rounds' = [rounds EXCEPT ![<<AuctionToken[a], AuctionDay[a]>>] = v]
                                /\ latestPrintDay' = [latestPrintDay EXCEPT
                                     ![AuctionToken[a]] = laterDay(AuctionDay[a], @)]
<1>1. ASSUME NEW i \in Intents, commitAuctionIntent(i) \/ cancelBeforeFreeze(i) \/ refundEscrow(i)
      PROVE  UNCHANGED <<rounds, latestPrintDay>>
  BY <1>1 DEF commitAuctionIntent, cancelBeforeFreeze, refundEscrow, printVars
<1>2. ASSUME NEW a \in Auctions, openAuction(a) \/ freeze(a) \/ extend(a) \/ abortAuction(a)
      PROVE  UNCHANGED <<rounds, latestPrintDay>>
  BY <1>2 DEF openAuction, freeze, extend, abortAuction, printVars
<1>3. ASSUME NEW a \in Auctions, NEW s \in Solvers, NEW p \in Prices, submitCross(a, s, p)
      PROVE  UNCHANGED <<rounds, latestPrintDay>>
  BY <1>3 DEF submitCross, printVars
<1>4. ASSUME NEW a \in Auctions, NEW h \in Challengers, NEW p \in Prices, challenge(a, h, p)
      PROVE  UNCHANGED <<rounds, latestPrintDay>>
  BY <1>4 DEF challenge, printVars
<1>5. ASSUME NEW a \in Auctions, executeCross(a), ~ UNCHANGED <<rounds, latestPrintDay>>
      PROVE  /\ AuctionKind[a] = "CLOSE"
             /\ \E v : rounds' = [rounds EXCEPT ![<<AuctionToken[a], AuctionDay[a]>>] = v]
             /\ latestPrintDay' = [latestPrintDay EXCEPT
                  ![AuctionToken[a]] = laterDay(AuctionDay[a], @)]
  BY <1>5 DEF executeCross, publishPrint, printable, printVars
<1>6. QED  BY <1>1, <1>2, <1>3, <1>4, <1>5, StepCases, WorldStep

LEMMA RoundsApart ==
  ASSUME NEW a \in Auctions, NEW c \in Auctions, a # c,
         AuctionKind[a] = "CLOSE", AuctionKind[c] = "CLOSE"
  PROVE  <<AuctionToken[a], AuctionDay[a]>> # <<AuctionToken[c], AuctionDay[c]>>
BY AuctionAssumption

LEMMA PrintKept == WellFormed /\ PrintInv /\ [Next]_vars => PrintInv'
<1> SUFFICES ASSUME WellFormed, PrintInv, [Next]_vars PROVE PrintInv'
  OBVIOUS
<1>1. ASSUME NEW c \in Auctions, auctions'[c].phase # "EXECUTED"
      PROVE  auctions[c].phase # "EXECUTED"
  BY <1>1, EndedKept
<1>2. CASE UNCHANGED <<rounds, latestPrintDay>>
  BY <1>1, <1>2 DEF PrintInv
<1>3. ASSUME NEW a \in Auctions, executeCross(a), AuctionKind[a] = "CLOSE",
             NEW v, rounds' = [rounds EXCEPT ![<<AuctionToken[a], AuctionDay[a]>>] = v]
      PROVE  PrintInv'
  <2>1. auctions'[a].phase = "EXECUTED"
    BY <1>3, ExecutePhase
  <2>2. ASSUME NEW c \in Auctions, auctions'[c].phase # "EXECUTED", AuctionKind[c] = "CLOSE"
        PROVE  rounds'[<<AuctionToken[c], AuctionDay[c]>>] = NoRound
    <3> DEFINE r == <<AuctionToken[c], AuctionDay[c]>>
    <3>1. rounds[r] = NoRound
      BY <1>1, <2>2 DEF PrintInv
    <3>2. <<AuctionToken[a], AuctionDay[a]>> # r
      BY <1>3, <2>1, <2>2, RoundsApart
    <3>3. AuctionToken[c] \in Tokens \ {Quote}
      BY AuctionData
    <3>4. r \in DOMAIN rounds
      BY <3>3 DEF PrintInv
    <3> HIDE DEF r
    <3>5. QED  BY <1>3, <3>1, <3>2, <3>4 DEF r
  <2>3. DOMAIN rounds' = DOMAIN rounds /\ rounds' = [r \in DOMAIN rounds' |-> rounds'[r]]
    BY <1>3
  <2>4. QED  BY <2>2, <2>3 DEF PrintInv
<1>4. QED  BY <1>2, <1>3, PrintStep

\* A published print is never altered, and the latest print of a token never
\* falls back to an earlier day, in whatever order the crosses of several days
\* are executed (executeCross, _publishPrint).
THEOREM PrintsNeverAltered == Spec => PrintsStand
<1>1. Init => WellFormed /\ PrintInv
  <2> SUFFICES ASSUME Init PROVE PrintInv
    BY InitTypes
  <2>1. rounds = [r \in (Tokens \ {Quote}) \X {AuctionDay[a] : a \in Auctions} |-> NoRound]
    BY DEF Init
  <2>2. ASSUME NEW a \in Auctions PROVE rounds[<<AuctionToken[a], AuctionDay[a]>>] = NoRound
    <3>1. <<AuctionToken[a], AuctionDay[a]>> \in (Tokens \ {Quote}) \X {AuctionDay[c] : c \in Auctions}
      BY AuctionData
    <3>2. QED  BY <2>1, <3>1
  <2>3. DOMAIN rounds = (Tokens \ {Quote}) \X {AuctionDay[a] : a \in Auctions}
        /\ rounds = [r \in DOMAIN rounds |-> rounds[r]]
    BY <2>1
  <2>4. QED  BY <2>2, <2>3 DEF PrintInv
<1>2. WellFormed /\ PrintInv /\ [Next]_vars =>
        [/\ \A r \in DOMAIN rounds : rounds[r] # NoRound => rounds'[r] = rounds[r]
         /\ \A t \in DOMAIN latestPrintDay : latestPrintDay'[t] >= latestPrintDay[t]]_vars
  <2> SUFFICES ASSUME WellFormed, PrintInv, [Next]_vars
               PROVE  /\ \A r \in DOMAIN rounds : rounds[r] # NoRound => rounds'[r] = rounds[r]
                      /\ \A t \in DOMAIN latestPrintDay : latestPrintDay'[t] >= latestPrintDay[t]
    OBVIOUS
  <2>1. DOMAIN latestPrintDay = Tokens \ {Quote} /\ \A t \in Tokens \ {Quote} : latestPrintDay[t] \in Nat
    BY DEF WellFormed
  <2>2. CASE UNCHANGED <<rounds, latestPrintDay>>
    BY <2>1, <2>2
  <2>3. ASSUME NEW a \in Auctions, executeCross(a), AuctionKind[a] = "CLOSE",
               NEW v, rounds' = [rounds EXCEPT ![<<AuctionToken[a], AuctionDay[a]>>] = v],
               latestPrintDay' = [latestPrintDay EXCEPT ![AuctionToken[a]] = laterDay(AuctionDay[a], @)]
        PROVE  /\ \A r \in DOMAIN rounds : rounds[r] # NoRound => rounds'[r] = rounds[r]
               /\ \A t \in DOMAIN latestPrintDay : latestPrintDay'[t] >= latestPrintDay[t]
    <3>1. auctions[a].phase # "EXECUTED"
      BY <2>3 DEF executeCross, executable
    <3>2. rounds[<<AuctionToken[a], AuctionDay[a]>>] = NoRound
      BY <2>3, <3>1 DEF PrintInv
    <3>3. \A r \in DOMAIN rounds : rounds[r] # NoRound => rounds'[r] = rounds[r]
      BY <2>3, <3>2 DEF PrintInv
    <3>4. AuctionDay[a] \in Nat /\ AuctionToken[a] \in Tokens \ {Quote}
      BY AuctionData
    <3>5. \A t \in DOMAIN latestPrintDay : latestPrintDay'[t] >= latestPrintDay[t]
      BY <2>1, <2>3, <3>4 DEF laterDay
    <3>6. QED  BY <3>3, <3>5
  <2>4. QED  BY <2>2, <2>3, PrintStep
<1>3. WellFormed /\ PrintInv /\ BaseInv /\ [Next]_vars => (WellFormed /\ PrintInv)'
  BY BaseStep, PrintKept DEF BaseInv
<1>4. Spec => []BaseInv
  BY StandsAlways, PTL
<1>5. QED  BY <1>1, <1>2, <1>3, <1>4, PTL DEF Spec, PrintsStand
=============================================================================
