--------------------------- MODULE AuctionHouse ---------------------------
(***************************************************************************)
(* The opening and closing call auctions                                   *)
(* (contracts/src/AuctionHouse.sol with the pause of Guarded.sol).  Unlike *)
(* Settlement this contract takes custody: the freeze pulls every escrow   *)
(* it can, and a cross is held open to a challenge before it executes.     *)
(*                                                                         *)
(*   NONE -> DISCLOSURE -> FROZEN <-> CROSSED -> EXECUTED                  *)
(*              \------------\-----------\-----> ABORTED                   *)
(*                                                                         *)
(* Auctions are named, one per token, kind and day; an auction nobody has  *)
(* named yet is in phase NONE.  An action is one call that does not        *)
(* revert.  Solver registry, oracle, calendar and Permit2 appear as the    *)
(* answers they give here.                                                 *)
(***************************************************************************)
EXTENDS AuctionBook, Sequences

CONSTANTS
  Auctions,
  AuctionToken, AuctionKind, CrossAt, AuctionDay,   \* functions of Auctions
  Intents,            \* the auction intents owners may sign
  Tokens, Quote,
  Owners, Solvers, House, Treasury,
  Challengers,        \* accounts whose allowance lets the house take a bond
  InitialBalances,    \* [Owners \cup Solvers -> [Tokens -> Nat]]
  Prices,             \* oracle prices and prices a cross may name, 0 excluded
  Multipliers,
  NoCommitment, NoSolver, NoRound,
  BOND,
  AUCTION_WINDOW, FREEZE_OFFSET, CROSS_DELAY_OPEN,
  EXTENSION_PERIOD, MAX_EXTENSIONS, CHALLENGE_WINDOW, CHALLENGE_REWARD_BPS,
  PRINT_MIN_VOLUME, PRINT_MIN_PARTICIPANTS, PRINT_SCALE, QUOTE_UNIT,
  MAX_AUCTION_INTENTS, MAX_CROSS_EXECUTIONS,
  PAUSE_DURATION,
  Disturbances,       \* sets of owners and parts of the world that may act together
  MaxTime             \* bound: the last timestamp

Accounts == Owners \cup Solvers \cup {House, Treasury}
SellToken(i) == IF i.buy THEN Quote ELSE i.token
BuyToken(i)  == IF i.buy THEN i.token ELSE Quote
MaxSell == Max({i.sellAmount : i \in Intents})

\* What the ABI decodes; a pair has the quote token on one side, and nobody
\* names the contract itself as a party.
AuctionIntent(i) ==
  /\ i.owner \in Owners /\ i.receiver \in Owners
  /\ i.token \in Tokens \ {Quote}
  /\ i.buy \in BOOLEAN /\ i.kind \in {"MOO", "LOO", "ROO"}
  /\ i.sellAmount \in Nat /\ i.minBuyAmount \in Nat /\ i.maxDev \in Nat

CommitmentRecords ==
  [auction : Auctions, escrowed : BOOLEAN, cancelled : BOOLEAN, refunded : BOOLEAN,
   filledSell : Nat, filledBuy : Nat]
AuctionRecords ==
  [phase : {"NONE", "DISCLOSURE", "FROZEN", "CROSSED", "EXECUTED", "ABORTED"},
   referenceFinal : BOOLEAN, rooExcluded : BOOLEAN, extensions : 0..MAX_EXTENSIONS,
   collarBps : Nat, refPrice : Nat, clearingPrice : Nat, matchedVolume : Nat,
   participants : Nat, tokenDust : Nat, quoteDust : Nat, solver : Solvers \cup {NoSolver},
   crossSubmittedAt : Nat, multiplier : Nat]

ASSUME AuctionAssumption ==
  /\ AuctionToken \in [Auctions -> Tokens \ {Quote}]
  /\ AuctionKind \in [Auctions -> {"OPEN", "CLOSE"}]
  /\ CrossAt \in [Auctions -> Nat] /\ AuctionDay \in [Auctions -> Nat \ {0}]
  /\ \A a \in Auctions : CrossAt[a] >= FREEZE_OFFSET
  /\ \A a, c \in Auctions : /\ AuctionToken[a] = AuctionToken[c]
                           /\ AuctionKind[a] = AuctionKind[c]
                           /\ AuctionDay[a] = AuctionDay[c] => a = c
  /\ IsFiniteSet(Auctions) /\ IsFiniteSet(Intents)
  /\ \A i \in Intents : AuctionIntent(i)
  /\ \A c \in Owners \cup Solvers : InitialBalances[c] \in [Tokens -> Nat]
  /\ Quote \in Tokens
  /\ Prices \subseteq Nat \ {0} /\ Multipliers \subseteq Nat
  /\ Challengers \subseteq Owners \cup Solvers
  /\ House \notin Owners \cup Solvers \cup {Treasury}
  /\ NoSolver \notin Solvers /\ NoCommitment \notin CommitmentRecords
  /\ BOND \in Nat /\ CHALLENGE_REWARD_BPS \in 0..BPS
  /\ COLLAR_INITIAL \in Nat /\ COLLAR_STEP \in Nat
  /\ {CROSS_DELAY_OPEN, EXTENSION_PERIOD, MAX_EXTENSIONS, PAUSE_DURATION} \subseteq Nat
  /\ {PRINT_SCALE, MAX_AUCTION_INTENTS, MaxTime} \subseteq Nat /\ QUOTE_UNIT \in Nat \ {0}

VARIABLES
  now, pausedUntil,
  auctions,       \* auctions[a], a record
  books,          \* books[a], the sequence of intents committed to a
  commitments,    \* commitments[i], NoCommitment or a record
  auctionTokenAllowed,
  rounds,         \* rounds[<<token, day>>], the closing prints
  latestPrintDay,
  \* the outside world
  ledger, nonceUsed, approved, movedOut,
  active,         \* solvers the registry calls active
  wins,           \* what recordWin added to the registry
  uiMultiplier,
  refPrice,       \* refPrice[token] of the oracle, 0 when unhealthy
  openReference,  \* openReference[a], 0 while not available
  held,           \* held[a]: the market has the session the cross needs
  acting          \* the owners and the parts of the world that move in this behaviour

clockVars == <<now, pausedUntil>>
printVars == <<rounds, latestPrintDay>>
fundVars  == <<ledger, nonceUsed, approved, movedOut>>
worldVars == <<uiMultiplier, refPrice, openReference, held, acting>>
houseVars == <<auctions, books, commitments, auctionTokenAllowed>>
vars == <<clockVars, houseVars, printVars, fundVars, active, wins, worldVars>>

freezeAt(a) == CrossAt[a] - FREEZE_OFFSET
referenceAt(a) == IF AuctionKind[a] = "OPEN" THEN CrossAt[a] + CROSS_DELAY_OPEN ELSE CrossAt[a]
deadline(a) == referenceAt(a) + EXTENSION_PERIOD * (MAX_EXTENSIONS + 1)

NewAuction == [phase |-> "NONE", referenceFinal |-> FALSE, rooExcluded |-> FALSE, extensions |-> 0,
               collarBps |-> COLLAR_INITIAL, refPrice |-> 0, clearingPrice |-> 0,
               matchedVolume |-> 0, participants |-> 0, tokenDust |-> 0, quoteDust |-> 0,
               solver |-> NoSolver, crossSubmittedAt |-> 0, multiplier |-> 0]

Init ==
  /\ now = 0 /\ pausedUntil = 0
  /\ auctions = [a \in Auctions |-> NewAuction]
  /\ books = [a \in Auctions |-> <<>>]
  /\ commitments = [i \in Intents |-> NoCommitment]
  /\ auctionTokenAllowed = Tokens \ {Quote}
  /\ rounds = [r \in (Tokens \ {Quote}) \X {AuctionDay[a] : a \in Auctions} |-> NoRound]
  /\ latestPrintDay = [t \in Tokens \ {Quote} |-> 0]
  /\ ledger = [c \in Accounts |-> IF c \in Owners \cup Solvers THEN InitialBalances[c]
                                  ELSE [t \in Tokens |-> 0]]
  /\ nonceUsed = {} /\ approved = Owners
  /\ movedOut = [o \in Owners |-> [t \in Tokens |-> 0]]
  /\ active = Solvers
  /\ wins = [s \in Solvers |-> 0]
  /\ uiMultiplier \in [Tokens \ {Quote} -> Multipliers]
  /\ refPrice \in [Tokens \ {Quote} -> Prices]
  /\ openReference = [a \in Auctions |-> 0]
  /\ held = Auctions
  /\ acting \in Disturbances

----------------------------------------------------------------------------
\* Views.

isPaused == now < pausedUntil

\* The next cross of a kind: the calendar's first auction session of that kind
\* that has not ended.
nextCross(kind, token) ==
  {a \in Auctions : /\ AuctionKind[a] = kind /\ AuctionToken[a] = token
                    /\ a \in held /\ now < CrossAt[a]
                    /\ \A c \in Auctions : AuctionKind[c] = kind /\ AuctionToken[c] = token
                                           /\ c \in held /\ now < CrossAt[c]
                                           => CrossAt[a] <= CrossAt[c]}

inAuctionSession(a) == CrossAt[a] - AUCTION_WINDOW <= now /\ now < CrossAt[a] /\ a \in held

\* A limit is a price, floored; a zero divisor reverts.
limitReturns(i) == i.kind = "LOO" => (IF i.buy THEN i.minBuyAmount ELSE i.sellAmount) # 0
limitOf(i) == IF i.kind # "LOO" THEN 0
              ELSE IF i.buy THEN (i.sellAmount * WAD) \div i.minBuyAmount
                            ELSE (i.minBuyAmount * WAD) \div i.sellAmount

Entry(a, k) == LET i == books[a][k]
               IN  [id |-> k, buy |-> i.buy, kind |-> i.kind, limitPrice |-> limitOf(i),
                    maxDev |-> i.maxDev, sellAmount |-> i.sellAmount]
Booked(a) == {books[a][k] : k \in DOMAIN books[a]}
\* The entries _match counts once the book is frozen.
frozenBook(a) ==
  {Entry(a, k) : k \in {j \in DOMAIN books[a] : /\ ~commitments[books[a][j]].cancelled
                                                /\ commitments[books[a][j]].escrowed}}

----------------------------------------------------------------------------
\* Before the freeze.

signable(i) == ledger[i.owner][SellToken(i)] >= i.sellAmount /\ i.owner \in approved

commitAuctionIntent(i) ==
  /\ ~isPaused
  /\ commitments[i] = NoCommitment
  /\ i.token \in auctionTokenAllowed
  /\ signable(i)
  /\ limitReturns(i)
  /\ \E a \in nextCross(i.auctionKind, i.token) :
       /\ i.validUntil >= CrossAt[a]
       /\ auctions[a].phase \in {"NONE", "DISCLOSURE"}
       /\ Len(books[a]) < MAX_AUCTION_INTENTS
       /\ commitments' = [commitments EXCEPT ![i] =
            [auction |-> a, escrowed |-> FALSE, cancelled |-> FALSE, refunded |-> FALSE,
             filledSell |-> 0, filledBuy |-> 0]]
       /\ books' = [books EXCEPT ![a] = Append(@, i)]
  /\ UNCHANGED <<clockVars, auctions, auctionTokenAllowed, printVars, fundVars, active, wins, worldVars>>

openAuction(a) ==
  /\ ~isPaused
  /\ inAuctionSession(a)
  /\ auctions[a].phase = "NONE"
  /\ auctions' = [auctions EXCEPT ![a].phase = "DISCLOSURE"]
  /\ UNCHANGED <<clockVars, books, commitments, auctionTokenAllowed, printVars, fundVars, active,
                 wins, worldVars>>

cancelBeforeFreeze(i) ==
  /\ commitments[i] # NoCommitment
  /\ auctions[commitments[i].auction].phase \in {"NONE", "DISCLOSURE"}
  /\ commitments' = [commitments EXCEPT ![i].cancelled = TRUE]
  /\ UNCHANGED <<clockVars, auctions, books, auctionTokenAllowed, printVars, fundVars, active,
                 wins, worldVars>>

\* Permit2 transfers the k-th escrow of a, given that it transferred those in
\* the set P before it.
NonceKey(i) == <<i.owner, i.nonce>>
permitTransfers(a, k, P) ==
  LET i == books[a][k]
      spent == SumFunctionOnSet([j \in P |-> books[a][j].sellAmount],
                 {j \in P : books[a][j].owner = i.owner /\ SellToken(books[a][j]) = SellToken(i)})
  IN  /\ now <= i.validUntil
      /\ NonceKey(i) \notin nonceUsed
      /\ \A j \in P : NonceKey(books[a][j]) # NonceKey(i)
      /\ i.owner \in approved
      /\ spent + i.sellAmount <= ledger[i.owner][SellToken(i)]

\* The escrows in P are exactly those the loop of freeze obtains, in its order.
obtained(a, P) ==
  \A k \in DOMAIN books[a] :
    k \in P <=> /\ ~commitments[books[a][k]].cancelled
                /\ permitTransfers(a, k, {j \in P : j < k})

\* What the intents in S sell of a token, out of the accounts in A.
escrowOf(S, A, t) ==
  SumFunctionOnSet([i \in S |-> i.sellAmount], {i \in S : i.owner \in A /\ SellToken(i) = t})

freeze(a) ==
  /\ ~isPaused
  /\ auctions[a].phase = "DISCLOSURE"
  /\ freezeAt(a) <= now /\ now < CrossAt[a]
  /\ refPrice[AuctionToken[a]] # 0
  /\ \E P \in SUBSET DOMAIN books[a] :
       LET pulled == {books[a][k] : k \in P}
       IN  /\ obtained(a, P)
           /\ commitments' = [i \in Intents |->
                IF i \notin Booked(a) \/ commitments[i].cancelled THEN commitments[i]
                ELSE IF i \in pulled THEN [commitments[i] EXCEPT !.escrowed = TRUE]
                ELSE [commitments[i] EXCEPT !.cancelled = TRUE]]
           /\ nonceUsed' = nonceUsed \cup {NonceKey(i) : i \in pulled}
           /\ ledger' = [c \in Accounts |-> [t \in Tokens |->
                ledger[c][t] - escrowOf(pulled, {c}, t)
                + (IF c = House THEN escrowOf(pulled, Owners, t) ELSE 0)]]
  /\ auctions' = [auctions EXCEPT ![a].phase = "FROZEN",
                                  ![a].refPrice = refPrice[AuctionToken[a]],
                                  ![a].multiplier = uiMultiplier[AuctionToken[a]]]
  /\ UNCHANGED <<clockVars, books, auctionTokenAllowed, printVars, approved, movedOut, active,
                 wins, worldVars>>

----------------------------------------------------------------------------
\* The cross.

\* _reference: the first call after referenceAt fixes the reference for good.
\* An opening without its reference falls back on the feed and drops the
\* relative orders; without a healthy feed the call reverts.
referenceDue(a) == ~auctions[a].referenceFinal /\ referenceAt(a) <= now
hasOpenReference(a) == AuctionKind[a] = "OPEN" /\ openReference[a] # 0
referenceReturns(a) == referenceDue(a) => hasOpenReference(a) \/ refPrice[AuctionToken[a]] # 0
resolved(a) ==
  IF ~referenceDue(a) THEN auctions[a]
  ELSE [auctions[a] EXCEPT
          !.refPrice = IF hasOpenReference(a) THEN openReference[a] ELSE refPrice[AuctionToken[a]],
          !.rooExcluded = @ \/ (AuctionKind[a] = "OPEN" /\ openReference[a] = 0),
          !.referenceFinal = TRUE]

extend(a) ==
  /\ auctions[a].phase = "FROZEN"
  /\ auctions[a].extensions < MAX_EXTENSIONS
  /\ referenceReturns(a)
  /\ now >= referenceAt(a) + EXTENSION_PERIOD * (auctions[a].extensions + 1)
  /\ auctions' = [auctions EXCEPT ![a] = [resolved(a) EXCEPT !.extensions = @ + 1,
                                                             !.collarBps = @ + COLLAR_STEP]]
  /\ UNCHANGED <<clockVars, books, commitments, auctionTokenAllowed, printVars, fundVars, active,
                 wins, worldVars>>

\* A cross names book positions and what each sells; uniform pricing leaves no
\* choice in what each buys.
boughtAt(i, executedSell, price) ==
  IF i.buy THEN tokenOf(executedSell, price) ELSE quoteOf(executedSell, price)
SoldIn(a, fill, buy) ==
  SumFunctionOnSet(fill, {k \in DOMAIN fill : books[a][k].buy = buy})
BoughtIn(a, fill, buy, price) ==
  SumFunctionOnSet([k \in DOMAIN fill |-> boughtAt(books[a][k], fill[k], price)],
                   {k \in DOMAIN fill : books[a][k].buy = buy})

countParticipants(a, fill) == Cardinality({books[a][k].owner : k \in DOMAIN fill})

\* The checks of _applyCross, for auction record x.
executionAllowed(a, x, price, k, sell) ==
  LET c == commitments[books[a][k]]
  IN  /\ c.escrowed /\ ~c.cancelled
      /\ participating(Entry(a, k), x.refPrice, x.rooExcluded)
      /\ acceptsPrice(Entry(a, k), price, x.refPrice)
      /\ sell <= books[a][k].sellAmount - c.filledSell

volumeEnough(a, x, price, fill) ==
  LET matchable == matched(frozenBook(a), price, x.refPrice, x.rooExcluded)
  IN  matchable # 0 /\ BoughtIn(a, fill, TRUE, price) + Cardinality(DOMAIN fill) >= matchable

applyCrossReturns(a, x, price, fill) ==
  /\ Cardinality(DOMAIN fill) <= MAX_CROSS_EXECUTIONS
  /\ limitsReturn(frozenBook(a), x.refPrice, x.rooExcluded)
  /\ \A k \in DOMAIN fill : executionAllowed(a, x, price, k, fill[k])
  /\ SoldIn(a, fill, FALSE) >= BoughtIn(a, fill, TRUE, price)
  /\ SoldIn(a, fill, TRUE)  >= BoughtIn(a, fill, FALSE, price)
  /\ volumeEnough(a, x, price, fill)

applyCross(a, price, fill) ==
  [i \in Intents |->
     IF \E k \in DOMAIN fill : books[a][k] = i
     THEN LET k == CHOOSE j \in DOMAIN fill : books[a][j] = i
          IN  [commitments[i] EXCEPT !.filledSell = @ + fill[k],
                                     !.filledBuy  = @ + boughtAt(i, fill[k], price)]
     ELSE commitments[i]]

\* One transfer of n units of t.
credit(l, c, t, n) == [l EXCEPT ![c][t] = @ + n]
transfer(l, from, to, t, n) == credit(credit(l, from, t, -n), to, t, n)
canPay(c) == ledger[c][Quote] >= BOND

\* The auction a cross leaves behind.
crossed(a, solver, price, fill) ==
  [resolved(a) EXCEPT
     !.phase = "CROSSED", !.solver = solver, !.clearingPrice = price,
     !.matchedVolume = BoughtIn(a, fill, TRUE, price),
     !.participants = countParticipants(a, fill),
     !.tokenDust = SoldIn(a, fill, FALSE) - BoughtIn(a, fill, TRUE, price),
     !.quoteDust = SoldIn(a, fill, TRUE) - BoughtIn(a, fill, FALSE, price),
     !.crossSubmittedAt = now]

submitCross(a, solver, price) ==
  /\ ~isPaused
  /\ auctions[a].phase = "FROZEN"
  /\ solver \in active
  /\ referenceReturns(a)
  /\ referenceAt(a) <= now
  /\ inCollar(price, resolved(a).refPrice, auctions[a].collarBps)
  /\ canPay(solver)
  /\ \E P \in SUBSET DOMAIN books[a] : \E fill \in [P -> 0..MaxSell] :
       /\ applyCrossReturns(a, resolved(a), price, fill)
       /\ commitments' = applyCross(a, price, fill)
       /\ auctions' = [auctions EXCEPT ![a] = crossed(a, solver, price, fill)]
  /\ ledger' = transfer(ledger, solver, House, Quote, BOND)
  /\ UNCHANGED <<clockVars, books, auctionTokenAllowed, printVars, nonceUsed, approved, movedOut,
                 active, wins, worldVars>>

\* Mutant: the fills of the cross stay.
rollbackFillsKept(a) == commitments

\* Every fill of the book and every figure of the cross goes back to zero.
rollbackFills(a) ==
  [i \in Intents |-> IF i \in Booked(a)
                     THEN [commitments[i] EXCEPT !.filledSell = 0, !.filledBuy = 0]
                     ELSE commitments[i]]
rollbackCross(a) == [auctions[a] EXCEPT !.tokenDust = 0, !.quoteDust = 0, !.clearingPrice = 0,
                                        !.matchedVolume = 0, !.participants = 0]

reward == (BOND * CHALLENGE_REWARD_BPS) \div BPS

\* Mutant: the solver's own bond is handed back with the loser's.
seizeBondTwice(l, winner) ==
  transfer(transfer(l, House, winner, Quote, BOND + reward), House, Treasury, Quote, BOND - reward)

\* Both bonds leave, or only the loser's.
payBond(l, winner) ==
  transfer(transfer(l, House, winner, Quote, BOND + reward), House, Treasury, Quote, BOND - reward)
seizeBond(l, winner) ==
  transfer(transfer(l, House, winner, Quote, reward), House, Treasury, Quote, BOND - reward)

\* A challenge on the closing second is still heard.
challengeable(a) ==
  /\ ~isPaused
  /\ auctions[a].phase = "CROSSED"
  /\ now <= auctions[a].crossSubmittedAt + CHALLENGE_WINDOW

challenge(a, challenger, betterPrice) ==
  LET x == auctions[a]
      taken == transfer(ledger, challenger, House, Quote, BOND)
      better == isBetter(frozenBook(a), betterPrice, x.clearingPrice, x.refPrice, x.rooExcluded)
  IN  /\ challengeable(a)
      /\ canPay(challenger)
      /\ inCollar(betterPrice, x.refPrice, x.collarBps)
      /\ \/ /\ ~better
            /\ ledger' = seizeBond(taken, x.solver)
            /\ UNCHANGED <<auctions, commitments>>
         \/ /\ better
            /\ ledger' = payBond(taken, challenger)
            /\ commitments' = rollbackFills(a)
            /\ auctions' = [auctions EXCEPT ![a] = [rollbackCross(a) EXCEPT !.phase = "FROZEN",
                                                                            !.solver = NoSolver]]
      /\ UNCHANGED <<clockVars, books, auctionTokenAllowed, printVars, nonceUsed, approved,
                     movedOut, active, wins, worldVars>>

\* Mutant: paid to the signer instead of the receiver.
ReceivedByOwner(a, A, t) ==
  SumFunctionOnSet([i \in Booked(a) |-> commitments[i].filledBuy],
                   {i \in Booked(a) : i.owner \in A /\ BuyToken(i) = t})

\* What the execution pays to the accounts in A: every fill to its receiver,
\* dust to the treasury, the bond back to the solver.
Received(a, A, t) ==
  SumFunctionOnSet([i \in Booked(a) |-> commitments[i].filledBuy],
                   {i \in Booked(a) : i.receiver \in A /\ BuyToken(i) = t})
PaidOut(a, A, t) ==
  Received(a, A, t)
  + (IF Treasury \in A /\ t = AuctionToken[a] THEN auctions[a].tokenDust ELSE 0)
  + (IF Treasury \in A /\ t = Quote THEN auctions[a].quoteDust ELSE 0)
  + (IF auctions[a].solver \in A /\ t = Quote THEN BOND ELSE 0)

\* A thin close publishes nothing.
printable(a, quoteVolume) ==
  /\ AuctionKind[a] = "CLOSE"
  /\ quoteVolume >= PRINT_MIN_VOLUME
  /\ auctions[a].participants >= PRINT_MIN_PARTICIPANTS

\* Mutant: the latest print is the last one to execute.
laterDayAlways(day, latest) == day

laterDay(day, latest) == IF day > latest THEN day ELSE latest

publishPrint(a, quoteVolume) ==
  LET token == AuctionToken[a]
      day   == AuctionDay[a]
  IN  IF ~printable(a, quoteVolume) THEN UNCHANGED printVars
      ELSE /\ rounds' = [rounds EXCEPT ![<<token, day>>] =
                [answer |-> (auctions[a].clearingPrice * PRINT_SCALE) \div QUOTE_UNIT,
                 startedAt |-> freezeAt(a), updatedAt |-> CrossAt[a],
                 volume |-> quoteVolume, participants |-> auctions[a].participants]]
           /\ latestPrintDay' = [latestPrintDay EXCEPT ![token] = laterDay(day, @)]

executable(a) ==
  /\ ~isPaused
  /\ auctions[a].phase = "CROSSED"
  /\ now > auctions[a].crossSubmittedAt + CHALLENGE_WINDOW
  /\ uiMultiplier[AuctionToken[a]] = auctions[a].multiplier

executeCross(a) ==
  /\ executable(a)
  /\ auctions' = [auctions EXCEPT ![a].phase = "EXECUTED"]
  /\ ledger' = [c \in Accounts |-> [t \in Tokens |->
       IF c = House THEN ledger[House][t] - PaidOut(a, Accounts \ {House}, t)
                    ELSE ledger[c][t] + PaidOut(a, {c}, t)]]
  /\ wins' = [wins EXCEPT ![auctions[a].solver] = @ + 1]
  /\ publishPrint(a, quoteOf(auctions[a].matchedVolume, auctions[a].clearingPrice))
  /\ UNCHANGED <<clockVars, books, commitments, auctionTokenAllowed, nonceUsed, approved,
                 movedOut, active, worldVars>>

----------------------------------------------------------------------------
\* The ways out.  Neither is guarded by the pause.

\* Mutant: a standing cross cannot be abandoned.
abortableUncrossed(a) ==
  /\ auctions[a].phase \in {"DISCLOSURE", "FROZEN"}
  /\ \/ /\ auctions[a].phase = "FROZEN"
        /\ uiMultiplier[AuctionToken[a]] # auctions[a].multiplier
     \/ a \notin held
     \/ now > deadline(a)

abortable(a) ==
  /\ auctions[a].phase \in {"DISCLOSURE", "FROZEN", "CROSSED"}
  /\ \/ /\ auctions[a].phase = "FROZEN"
        /\ uiMultiplier[AuctionToken[a]] # auctions[a].multiplier
     \/ a \notin held
     \/ now > deadline(a)

abortAuction(a) ==
  /\ abortable(a)
  /\ IF auctions[a].phase = "CROSSED"
     THEN /\ commitments' = rollbackFills(a)
          /\ auctions' = [auctions EXCEPT ![a] = [rollbackCross(a) EXCEPT !.phase = "ABORTED"]]
          /\ ledger' = transfer(ledger, House, auctions[a].solver, Quote, BOND)
     ELSE /\ auctions' = [auctions EXCEPT ![a].phase = "ABORTED"]
          /\ UNCHANGED <<commitments, ledger>>
  /\ UNCHANGED <<clockVars, books, auctionTokenAllowed, printVars, nonceUsed, approved, movedOut,
                 active, wins, worldVars>>

refundable(i) ==
  /\ commitments[i] # NoCommitment
  /\ auctions[commitments[i].auction].phase \in {"EXECUTED", "ABORTED"}
  /\ commitments[i].escrowed
  /\ ~commitments[i].refunded

refundEscrow(i) ==
  /\ refundable(i)
  /\ commitments' = [commitments EXCEPT ![i].refunded = TRUE]
  /\ ledger' = transfer(ledger, House, i.owner, SellToken(i), i.sellAmount - commitments[i].filledSell)
  /\ UNCHANGED <<clockVars, auctions, books, auctionTokenAllowed, printVars, nonceUsed, approved,
                 movedOut, active, wins, worldVars>>

----------------------------------------------------------------------------
\* Guardian, governor and the outside world.

pause ==
  /\ "guardian" \in acting
  /\ now + PAUSE_DURATION <= MaxTime
  /\ pausedUntil' = now + PAUSE_DURATION
  /\ UNCHANGED <<now, houseVars, printVars, fundVars, active, wins, worldVars>>

setAuctionTokenAllowed(t) ==
  /\ "governor" \in acting
  /\ \/ auctionTokenAllowed' = auctionTokenAllowed \cup {t}
     \/ auctionTokenAllowed' = auctionTokenAllowed \ {t}
  /\ UNCHANGED <<clockVars, auctions, books, commitments, printVars, fundVars, active, wins, worldVars>>

moveFunds(o, t) ==
  /\ ledger[o][t] > 0
  /\ ledger' = [ledger EXCEPT ![o][t] = 0]
  /\ movedOut' = [movedOut EXCEPT ![o][t] = @ + ledger[o][t]]
  /\ UNCHANGED <<nonceUsed, approved>>
setApproval(o) ==
  /\ \/ approved' = approved \cup {o}
     \/ approved' = approved \ {o}
  /\ UNCHANGED <<ledger, nonceUsed, movedOut>>
invalidateNonce(i) ==
  /\ nonceUsed' = nonceUsed \cup {NonceKey(i)}
  /\ UNCHANGED <<ledger, approved, movedOut>>

OwnerStep ==
  /\ \/ \E o \in Owners \cap acting, t \in Tokens : moveFunds(o, t)
     \/ \E o \in Owners \cap acting : setApproval(o)
     \/ \E i \in Intents : i.owner \in acting /\ invalidateNonce(i)
  /\ UNCHANGED <<clockVars, houseVars, printVars, active, wins, worldVars>>

MarketStep ==
  /\ \/ /\ "issuer" \in acting
        /\ \E t \in Tokens \ {Quote}, m \in Multipliers : uiMultiplier' = [uiMultiplier EXCEPT ![t] = m]
        /\ UNCHANGED <<refPrice, openReference, held, active>>
     \/ /\ "oracle" \in acting
        /\ \E t \in Tokens \ {Quote}, p \in Prices \cup {0} : refPrice' = [refPrice EXCEPT ![t] = p]
        /\ UNCHANGED <<uiMultiplier, openReference, held, active>>
     \/ /\ \E a \in Auctions : /\ AuctionKind[a] = "OPEN" /\ openReference[a] = 0
                               /\ referenceAt(a) <= now
                               /\ \E p \in Prices : openReference' = [openReference EXCEPT ![a] = p]
        /\ UNCHANGED <<uiMultiplier, refPrice, held, active>>
     \/ /\ "calendar" \in acting
        /\ held' \in SUBSET Auctions
        /\ UNCHANGED <<uiMultiplier, refPrice, openReference, active>>
     \/ /\ "registry" \in acting
        /\ active' \in SUBSET Solvers
        /\ UNCHANGED worldVars
  /\ UNCHANGED <<clockVars, houseVars, printVars, fundVars, wins, acting>>

Tick ==
  /\ now < MaxTime
  /\ now' = now + 1
  /\ UNCHANGED <<pausedUntil, houseVars, printVars, fundVars, active, wins, worldVars>>

Next ==
  \/ \E i \in Intents : commitAuctionIntent(i) \/ cancelBeforeFreeze(i) \/ refundEscrow(i)
  \/ \E a \in Auctions : openAuction(a) \/ freeze(a) \/ extend(a) \/ executeCross(a) \/ abortAuction(a)
  \/ \E a \in Auctions, s \in Solvers, p \in Prices : submitCross(a, s, p)
  \/ \E a \in Auctions, c \in Challengers, p \in Prices : challenge(a, c, p)
  \/ pause
  \/ \E t \in Tokens \ {Quote} : setAuctionTokenAllowed(t)
  \/ OwnerStep
  \/ MarketStep
  \/ Tick

Spec == Init /\ [][Next]_vars

\* Time passes, and anyone who wants the escrow back may call the two ways out:
\* neither needs the guardian, a solver or a healthy oracle.
FairSpec == /\ Spec
            /\ WF_vars(Tick)
            /\ \A a \in Auctions : WF_vars(abortAuction(a))
            /\ \A i \in Intents : WF_vars(refundEscrow(i))

----------------------------------------------------------------------------
\* Properties.

\* Everything but the signs of the balances.
WellFormed ==
  /\ now \in 0..MaxTime /\ pausedUntil \in 0..MaxTime
  /\ auctions \in [Auctions -> AuctionRecords]
  /\ books \in [Auctions -> Seq(Intents)]
  /\ \A a \in Auctions : Len(books[a]) <= MAX_AUCTION_INTENTS
  /\ commitments \in [Intents -> CommitmentRecords \cup {NoCommitment}]
  /\ latestPrintDay \in [Tokens \ {Quote} -> Nat]
  /\ ledger \in [Accounts -> [Tokens -> Int]]
  /\ movedOut \in [Owners -> [Tokens -> Int]]
  /\ active \subseteq Solvers /\ wins \in [Solvers -> Nat]
  /\ uiMultiplier \in [Tokens \ {Quote} -> Multipliers]
  /\ refPrice \in [Tokens \ {Quote} -> Prices \cup {0}]
  /\ openReference \in [Auctions -> Prices \cup {0}]

\* No transfer the contract makes is one it, or the payer, could not cover: the
\* actions that pay out have no guard on the balance, the tokens do (the
\* safeTransfer calls of challenge, executeCross, abortAuction, refundEscrow).
TypeOK == WellFormed /\ \A c \in Accounts, t \in Tokens : ledger[c][t] >= 0

Escrowed == {i \in Intents : commitments[i] # NoCommitment /\ commitments[i].escrowed}
PhaseOf(i) == auctions[commitments[i].auction].phase

\* What the house owes at any moment: every escrow not yet given back, less
\* what an executed cross already paid out of it, and one bond per standing
\* cross.  It holds exactly that, over all its auctions together: no bond is
\* ever paid out of an escrow, no fill out of another auction's (freeze,
\* submitCross, challenge, executeCross, abortAuction, refundEscrow).
owed == [i \in Escrowed |->
  i.sellAmount - (IF PhaseOf(i) = "EXECUTED" THEN commitments[i].filledSell ELSE 0)]
HouseSolvent ==
  \A t \in Tokens :
    ledger[House][t] =
      SumFunctionOnSet(owed, {i \in Escrowed : SellToken(i) = t /\ ~commitments[i].refunded})
      + (IF t = Quote THEN BOND * Cardinality({a \in Auctions : auctions[a].phase = "CROSSED"}) ELSE 0)

\* The house holds what it owes and nobody is asked for more than they have:
\* every payment it makes or takes can be made (executeCross, abortAuction,
\* challenge and refundEscrow pay out, freeze and submitCross take).
AccountsHold == TypeOK /\ HouseSolvent

\* An owner's tokens are in the account, moved away by the owner, in escrow, or
\* exchanged by an executed cross; a dropped, aborted or rolled back commitment
\* costs its owner nothing.  (Owners here do not challenge.)
out == [i \in Escrowed |-> IF commitments[i].refunded THEN commitments[i].filledSell ELSE i.sellAmount]
bought == [i \in Escrowed |-> IF PhaseOf(i) = "EXECUTED" THEN commitments[i].filledBuy ELSE 0]
OwnersWhole ==
  \A o \in Owners, t \in Tokens :
    ledger[o][t] + movedOut[o][t] =
      InitialBalances[o][t]
      - SumFunctionOnSet(out, {i \in Escrowed : i.owner = o /\ SellToken(i) = t})
      + SumFunctionOnSet(bought, {i \in Escrowed : i.receiver = o /\ BuyToken(i) = t})

\* What the buying or the selling orders of a book sold, and what they got.
SoldBy(a, buy) ==
  SumFunctionOnSet([i \in Booked(a) |-> commitments[i].filledSell], {i \in Booked(a) : i.buy = buy})
GotBy(a, buy) ==
  SumFunctionOnSet([i \in Booked(a) |-> commitments[i].filledBuy], {i \in Booked(a) : i.buy = buy})

\* A cross stands on the book it was checked against, whatever happens between
\* its submission and its execution: the recorded fills and dust balance token
\* for token, every filled order accepts the one price under the final
\* reference, and nothing the frozen book could match at that price was left
\* out by more than the rounding of one unit per execution
\* (_applyCross and _rollbackCross against freeze, extend and _reference).
CrossStands ==
  \A a \in Auctions : auctions[a].phase \in {"CROSSED", "EXECUTED"} =>
    LET x == auctions[a]
        filled == {k \in DOMAIN books[a] : commitments[books[a][k]].filledSell > 0}
    IN  /\ SoldBy(a, FALSE) = GotBy(a, TRUE) + x.tokenDust
        /\ SoldBy(a, TRUE) = GotBy(a, FALSE) + x.quoteDust
        /\ x.matchedVolume = GotBy(a, TRUE)
        /\ x.referenceFinal
        /\ \A k \in filled : /\ participating(Entry(a, k), x.refPrice, x.rooExcluded)
                             /\ acceptsPrice(Entry(a, k), x.clearingPrice, x.refPrice)
        /\ x.matchedVolume + Cardinality(DOMAIN books[a])
             >= matched(frozenBook(a), x.clearingPrice, x.refPrice, x.rooExcluded)

\* A limit order that was filled got its signed ratio, up to the rounding of
\* the stored limit price and of the fill.  A buyer who asks for more than WAD
\* units per unit of the quote is stored with a limit of zero, which _match and
\* _applyCross read as no limit (_limitOf, _applyCross).
LimitUpToRounding ==
  \A i \in Escrowed : i.kind = "LOO" /\ (i.buy => limitOf(i) # 0) =>
    LET c == commitments[i]
    IN  ((c.filledBuy + 1) * WAD + c.filledSell) * i.sellAmount >= i.minBuyAmount * c.filledSell * WAD

\* A print, once published, is never altered, and the latest one never falls
\* back to an earlier day (_publishPrint, whatever the order in which crosses
\* of several days execute).
PrintsStand ==
  [][/\ \A r \in DOMAIN rounds : rounds[r] # NoRound => rounds'[r] = rounds[r]
     /\ \A t \in DOMAIN latestPrintDay : latestPrintDay'[t] >= latestPrintDay[t]]_vars

\* Whatever the guardian, the solvers, the issuer and the oracle do, an escrow
\* comes back or is exchanged: the two ways out need none of them.
EscrowReturns ==
  \A i \in Intents : commitments[i] # NoCommitment /\ commitments[i].escrowed
                     ~> commitments[i] # NoCommitment /\ commitments[i].refunded
=============================================================================
