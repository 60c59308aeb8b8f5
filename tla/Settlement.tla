---------------------------- MODULE Settlement ----------------------------
(***************************************************************************)
(* The settlement core: Settlement.sol with the Guarded pause it inherits, *)
(* composed with SolverRegistry and with the outside world its calls reach *)
(* (Permit2, the token ledger, the venue, the calendar, the oracle).       *)
(*                                                                         *)
(* A transaction is atomic, so one action is one call that does not        *)
(* revert; a call that reverts changes nothing and is not a step.  A batch *)
(* is named, as in the code, by the timestamp at which it stops collecting *)
(* intents.  Its life:                                                     *)
(*                                                                         *)
(*   collectEnd < now <= solveEnd      solutions compete (submitSolution)  *)
(*   solveEnd < now                    anyone may finalize                 *)
(*   solveEnd + FINALIZE_DEADLINE < now   anyone may also expireBatch      *)
(*                                                                         *)
(* Solutions is the finite set of candidates the solvers may send.  They   *)
(* need not be right: what verify refuses is never recorded.               *)
(***************************************************************************)
EXTENDS SolverRegistry, ClearingVerifier

CONSTANTS
  Batches,          \* batch ids
  Solutions,        \* candidate solutions (see ClearingVerifier)
  Tokens,
  Owners,           \* owners and receivers of intents
  Self, Treasury,   \* the contract's and the treasury's accounts
  InitialBalances,  \* [Owners -> [Tokens -> Nat]]
  Adapters,         \* venue adapters; quotable ones can be a baseline
  NoAdapter,        \* address zero
  NoBest,           \* the zero record of the mapping best
  OraclePrices,     \* [Tokens -> Nat], prices per smallest unit
  Multipliers,      \* values of a token's uiMultiplier
  Spreads,          \* states of the pool: what a swap loses to it
  Calendars,        \* what the session manager may say of a batch id
  BatchDuration,    \* SessionManager.batchDuration, 0 in the auctions
  MaxDeviationBps,  \* SessionManager.maxDeviationBps
  CapChoices,       \* exposure caps the governor may set
  Disturbances,     \* sets of parts of the outside world that may act together
  AuctionVolumes,   \* quote volumes an executed auction may report
  MaxAuctionWins,   \* bound: auctions one solver crosses
  SOLUTION_WINDOW, FINALIZE_DEADLINE, MAX_SOLUTIONS_PER_SOLVER,
  PAUSE_DURATION, SECONDS_PER_DAY,
  FEE_CAP_SHARE_BPS, FEE_CAP_NOTIONAL_BPS, MIN_SAVINGS_BPS,
  SOLVER_SHARE_OF_FEE_BPS

Accounts == Owners \cup Solvers \cup {Self, Treasury}
Sessions == DOMAIN BatchDuration
Days == 0..(MaxTime \div SECONDS_PER_DAY)
NonceKey(s, k) == <<Leg(s, k).intent.owner, Leg(s, k).intent.nonce>>
NonceKeys == UNION {{NonceKey(s, k) : k \in Legs(s)} : s \in Solutions}
BestRecords == [solution : Solutions, savings : Nat, solver : Solvers,
                multiplierHash : UNION {[T -> Multipliers] : T \in SUBSET Tokens}]

\* What the types of the contracts give every candidate, right or wrong: whole
\* amounts, and parties and tokens that exist (Types.sol).
WellTyped(s) ==
  /\ s.batchId \in Batches
  /\ s.claimedSavings \in Nat
  /\ TokensOf(s) \subseteq Tokens
  /\ \A t \in TokensOf(s) : s.prices[t] \in Nat
  /\ s.repeats \in Seq([token : TokensOf(s), price : Nat])
  /\ s.executions \in Seq({Leg(s, k) : k \in Legs(s)})
  /\ \A k \in Legs(s) :
       /\ Leg(s, k).executedSell \in Nat /\ Leg(s, k).executedBuy \in Nat
       /\ {Leg(s, k).intent.owner, Leg(s, k).intent.receiver} \subseteq Owners
  /\ s.venueCalls \in Seq({s.venueCalls[v] : v \in DOMAIN s.venueCalls})
  /\ \A v \in DOMAIN s.venueCalls :
       /\ s.venueCalls[v].amountIn \in Nat
       /\ {s.venueCalls[v].tokenIn, s.venueCalls[v].tokenOut} \subseteq Tokens

\* The constants of the code satisfy the last conjunct by far: 7 days against
\* 10 + 300 seconds.
ASSUME SettlementAssumption ==
  /\ Batches \subseteq Nat
  /\ Solvers # {}
  /\ NoBest \notin BestRecords
  /\ \A s \in Solutions : WellTyped(s)
  /\ OraclePrices \in [Tokens -> Nat \ {0}]
  /\ InitialBalances \in [Owners -> [Tokens -> Nat]]
  /\ Adapters # {} /\ CapChoices # {} /\ Spreads \subseteq Nat
  /\ PAUSE_DURATION \in Nat
  /\ SECONDS_PER_DAY \in Nat \ {0}
  /\ MAX_SOLUTIONS_PER_SOLVER \in Nat
  /\ SOLVER_SHARE_OF_FEE_BPS \in Nat
  /\ AuctionVolumes \subseteq Nat /\ MaxAuctionWins \in Nat
  /\ SOLUTION_WINDOW \in Nat /\ FINALIZE_DEADLINE \in Nat
  /\ UNBOND_COOLDOWN >= SOLUTION_WINDOW + FINALIZE_DEADLINE

\* The books are kept per account, so the contract, the treasury and the solvers
\* are not owners of intents themselves, and nobody sums over infinitely many.
ASSUME AccountsAssumption ==
  /\ Owners \cap (Solvers \cup {Self, Treasury}) = {}
  /\ Self \notin Solvers \cup {Treasury}
  /\ IsFiniteSet(Tokens) /\ IsFiniteSet(Batches)

VARIABLES
  \* Settlement's storage
  best,                \* best[b]: NoBest or [solution, savings, solver, multiplierHash]
  finalized,
  solutionsSubmitted,
  tokenAllowed, adapterAllowed, baselineAdapter,
  caps,                \* capPerBatchUsd, capPerTokenDailyUsd, capGlobalDailyUsd
  today, perTokenOnDay,
  pausedUntil,
  \* the outside world
  ledger,              \* token balances
  nonceUsed,           \* Permit2's nonce bitmap
  approved,            \* owners whose allowance to Permit2 stands
  uiMultiplier,
  spread, readable,    \* the pool, and whether the adapter can quote it
  healthy,             \* tokens whose oracle price is healthy
  calendar,            \* calendar[b]: [session, guardBand]
  acting,              \* the parts of it that move in this behaviour, one of Disturbances
  \* history
  outcome,             \* how a batch ended
  fills,               \* executed legs
  movedOut,            \* what owners moved out of their accounts themselves
  auctionWins          \* auctionWins[s]: auctions that reported s as their winner

allowVars == <<tokenAllowed, adapterAllowed, baselineAdapter, caps>>
exposureVars == <<today, perTokenOnDay>>
batchVars == <<best, finalized, solutionsSubmitted>>
ownerVars == <<ledger, nonceUsed, approved, movedOut>>
worldVars == <<uiMultiplier, spread, readable, healthy, calendar, acting>>
historyVars == <<outcome, fills, auctionWins>>
vars == <<now, registryVars, allowVars, exposureVars, batchVars, pausedUntil,
          ownerVars, worldVars, historyVars>>

\* The deployed protocol: tokens, adapters, the baseline and the caps have been
\* set by the governor, no batch has been solved yet.
Init ==
  /\ RegistryInit
  /\ best = [b \in Batches |-> NoBest]
  /\ finalized = [b \in Batches |-> FALSE]
  /\ solutionsSubmitted = [b \in Batches |-> [s \in Solvers |-> 0]]
  /\ tokenAllowed = Tokens
  /\ adapterAllowed = Adapters
  /\ baselineAdapter \in Adapters
  /\ caps \in CapChoices
  /\ today = [index |-> 0, global |-> 0]
  /\ perTokenOnDay = [d \in Days |-> [t \in Tokens |-> 0]]
  /\ pausedUntil = 0
  /\ ledger = [a \in Accounts |-> IF a \in Owners THEN InitialBalances[a]
                                  ELSE [t \in Tokens |-> 0]]
  /\ nonceUsed = {}
  /\ approved = Owners
  /\ uiMultiplier \in [Tokens -> Multipliers]
  /\ spread \in Spreads
  /\ readable = TRUE
  /\ healthy = Tokens
  /\ calendar \in [Batches -> Calendars]
  /\ acting \in Disturbances
  /\ outcome = [b \in Batches |-> "none"]
  /\ fills = {}
  /\ movedOut = [o \in Owners |-> [t \in Tokens |-> 0]]
  /\ auctionWins = [s \in Solvers |-> 0]

----------------------------------------------------------------------------
\* Views.

isPaused == now < pausedUntil

collectEnd(b) == b
solveEnd(b) == b + SOLUTION_WINDOW

\* batchWindow returns instead of reverting.
batchWindow(b) ==
  LET duration == BatchDuration[calendar[b].session]
  IN  /\ duration # 0
      /\ b % duration = 0
      /\ ~calendar[b].guardBand

multiplierHash(s) == [t \in TokensOf(s) |-> uiMultiplier[t]]

\* What the pool gives for an exact input: the mid price less the spread.
VenueOut(tokenIn, tokenOut, amount, sp) ==
  LET mid == (amount * OraclePrices[tokenIn]) \div OraclePrices[tokenOut]
  IN  IF mid > sp THEN mid - sp ELSE 0

legUsd(s) == [k \in Legs(s) |-> ValueUsd(s, Leg(s, k).executedSell, Leg(s, k).intent.sellToken)]
notionalUsd(s) == SumFunctionOnSet(legUsd(s), Legs(s))

\* What the legs sell of a token at the price of one of its places.
SellLegs(s, token) == {k \in Legs(s) : Leg(s, k).intent.sellToken = token}
tokenNotional(s, token, price) ==
  SumFunctionOnSet([k \in Legs(s) |-> quoteOf(Leg(s, k).executedSell, price)], SellLegs(s, token))

capScale(session) == IF session \in {"CLOSED_WEEKEND", "HOLIDAY", "PROTECTIVE"} THEN 1 ELSE 2

----------------------------------------------------------------------------
\* submitSolution.

\* Legs doomed before the solution is recorded are refused.
requireCollectable(s) ==
  \A k \in Legs(s) : /\ Leg(s, k).intent.validUntil > solveEnd(s.batchId)
                     /\ NonceKey(s, k) \notin nonceUsed

\* One quote per pair direction, on that direction's gross volume.
Direction(s, tin, tout) ==
  {k \in Legs(s) : Leg(s, k).intent.sellToken = tin /\ Leg(s, k).intent.buyToken = tout}
sold(s, tin, tout) == SumFunctionOnSet(executedSells(s), Direction(s, tin, tout))
claimed(s, tin, tout) ==
  SumFunctionOnSet([k \in Legs(s) |-> Leg(s, k).baseline], Direction(s, tin, tout))

Priced == baselineAdapter # NoAdapter /\ readable

\* The floor does not revert: no claimed baseline is below the venue's quote.
baselineFloor(s) ==
  Priced => \A tin, tout \in TokensOf(s) :
              sold(s, tin, tout) # 0 =>
                claimed(s, tin, tout) >= VenueOut(tin, tout, sold(s, tin, tout), spread)

\* Every venue call names an allowed, quotable adapter and listed tokens.
venueCallsAllowed(s) ==
  \A v \in DOMAIN s.venueCalls : /\ s.venueCalls[v].adapter \in adapterAllowed
                                 /\ s.venueCalls[v].tokenIn \in TokensOf(s)
                                 /\ s.venueCalls[v].tokenOut \in TokensOf(s)

\* _verify returns, and what it returns.
verifyReturns(s) ==
  /\ TokensOf(s) \subseteq tokenAllowed \cap healthy
  /\ venueCallsAllowed(s)
  /\ Verifies(s, OraclePrices, MaxDeviationBps[calendar[s.batchId].session], FEE_CAP_NOTIONAL_BPS)
  /\ baselineFloor(s)
verify(s) == IF Priced THEN Savings(s) ELSE 0

\* Mutants: one solution too many; a window one second too long.
underLimitOneMore(b, solver) == solutionsSubmitted[b][solver] <= MAX_SOLUTIONS_PER_SOLVER
inWindowLate(b) == collectEnd(b) < now /\ now <= solveEnd(b) + 1

underLimit(b, solver) == solutionsSubmitted[b][solver] < MAX_SOLUTIONS_PER_SOLVER
inWindow(b) == collectEnd(b) < now /\ now <= solveEnd(b)

submitSolution(solver, s) ==
  LET b == s.batchId
      outbid == best[b] # NoBest /\ s.claimedSavings <= best[b].savings
  IN  /\ ~isPaused
      /\ isActive(solver)
      /\ underLimit(b, solver)
      /\ batchWindow(b)
      /\ inWindow(b)
      /\ ~finalized[b]
      /\ requireCollectable(s)
      /\ verifyReturns(s)
      /\ verify(s) = s.claimedSavings
      /\ solutionsSubmitted' = [solutionsSubmitted EXCEPT ![b][solver] = @ + 1]
      /\ best' = IF outbid THEN best
                 ELSE [best EXCEPT ![b] =
                        [solution |-> s, savings |-> s.claimedSavings, solver |-> solver,
                         multiplierHash |-> multiplierHash(s)]]
      /\ UNCHANGED <<now, registryVars, finalized, allowVars, exposureVars, pausedUntil,
                     ownerVars, worldVars, historyVars>>

----------------------------------------------------------------------------
\* finalize.

\* Permit2 transfers leg k, given that it transferred the legs before it: the
\* signature is the owner's, the deadline has not passed, the nonce is unspent,
\* and the allowance and the remaining balance cover the amount.
permitTransfers(s, k) ==
  LET i == Leg(s, k).intent
  IN  /\ Leg(s, k).signed
      /\ now <= i.validUntil
      /\ NonceKey(s, k) \notin nonceUsed
      /\ \A j \in 1..(k - 1) : NonceKey(s, j) # NonceKey(s, k)
      /\ i.owner \in approved
      /\ SoldUpTo(s, k, {i.owner}, i.sellToken) <= ledger[i.owner][i.sellToken]

\* How many legs _pull collects before the first that Permit2 refuses.
collected(s) == Cardinality({k \in Legs(s) : \A j \in 1..k : permitTransfers(s, j)})

\* Mutant: the session a leg was signed for is not looked at.
pullReturnsAnySession(s) ==
  \A k \in Legs(s) : k <= collected(s) + 1 =>
    LET i == Leg(s, k).intent
    IN  /\ i.validAfter <= collectEnd(s.batchId) /\ collectEnd(s.batchId) <= i.validUntil
        /\ {i.sellToken, i.buyToken} \subseteq tokenAllowed

\* _pull's own checks hold on every leg it comes to; otherwise it reverts.
\* PROTECTIVE has no bit in an intent's session mask.
pullReturns(s) ==
  \A k \in Legs(s) : k <= collected(s) + 1 =>
    LET i == Leg(s, k).intent
    IN  /\ i.validAfter <= collectEnd(s.batchId) /\ collectEnd(s.batchId) <= i.validUntil
        /\ calendar[s.batchId].session \in i.allowedSessions \ {"PROTECTIVE"}
        /\ {i.sellToken, i.buyToken} \subseteq tokenAllowed

\* Mutant: the last leg collected is forgotten.
refundButLast(l, s, n) ==
  [a \in Accounts |-> [t \in Tokens |->
     l[a][t] + SoldUpTo(s, n - 1, {a}, t) - (IF a = Self THEN SoldUpTo(s, n - 1, Owners, t) ELSE 0)]]

\* The ledger after the contract takes, or gives back, the first n legs.
pull(l, s, n) ==
  [a \in Accounts |-> [t \in Tokens |->
     l[a][t] - SoldUpTo(s, n, {a}, t) + (IF a = Self THEN SoldUpTo(s, n, Owners, t) ELSE 0)]]
refund(l, s, n) ==
  [a \in Accounts |-> [t \in Tokens |->
     l[a][t] + SoldUpTo(s, n, {a}, t) - (IF a = Self THEN SoldUpTo(s, n, Owners, t) ELSE 0)]]

CallIn(s, v, token) ==
  SumFunctionOnSet([u \in 1..v |-> s.venueCalls[u].amountIn],
    {u \in 1..v : s.venueCalls[u].tokenIn = token})
CallOut(s, v, token, sp) ==
  SumFunctionOnSet([u \in 1..v |-> VenueOut(s.venueCalls[u].tokenIn, s.venueCalls[u].tokenOut,
                                            s.venueCalls[u].amountIn, sp)],
    {u \in 1..v : s.venueCalls[u].tokenOut = token})

\* Every swap in turn has its input in hand and returns at least minOut.
routeReturns(l, s) ==
  \A v \in DOMAIN s.venueCalls :
    LET c == s.venueCalls[v]
    IN  /\ c.adapter \in adapterAllowed
        /\ l[Self][c.tokenIn] + CallOut(s, v - 1, c.tokenIn, spread) >= CallIn(s, v, c.tokenIn)
        /\ VenueOut(c.tokenIn, c.tokenOut, c.amountIn, spread) >= c.minOut
route(l, s) ==
  [l EXCEPT ![Self] = [t \in Tokens |->
     @[t] + CallOut(s, Len(s.venueCalls), t, spread) - CallIn(s, Len(s.venueCalls), t)]]

deliver(l, s) ==
  [a \in Accounts |-> [t \in Tokens |->
     l[a][t] + BoughtFor(s, {a}, t) - (IF a = Self THEN BoughtFor(s, Owners, t) ELSE 0)]]

deliverReturns(l, s) == \A t \in TokensOf(s) : delivered(s, t) <= l[Self][t]

\* Mutant: the counter never restarts.
globalSoFarForever(day) == today.global

\* The global counter restarts with the first charge of a day.
globalSoFar(day) == IF today.index = day THEN today.global ELSE 0

\* A token is charged once for every place of the array that names it.
repeatedNotional(s, token) ==
  SumFunctionOnSet([r \in DOMAIN s.repeats |-> tokenNotional(s, token, s.repeats[r].price)],
                   Again(s, token))
chargedFor(s, token) == tokenNotional(s, token, s.prices[token]) + repeatedNotional(s, token)

\* Per-batch, global and per-token daily caps, halved in the quiet sessions.
chargeExposure(s) ==
  LET scale    == capScale(calendar[s.batchId].session)
      day      == now \div SECONDS_PER_DAY
      global   == globalSoFar(day) + notionalUsd(s)
      tokenDay == [t \in Tokens |-> perTokenOnDay[day][t]
                     + (IF t \in TokensOf(s) THEN chargedFor(s, t) ELSE 0)]
  IN  /\ notionalUsd(s) <= (caps.perBatch * scale) \div 2
      /\ global <= (caps.globalDaily * scale) \div 2
      /\ \A t \in TokensOf(s) : tokenDay[t] <= (caps.perTokenDaily * scale) \div 2
      /\ today' = [index |-> day, global |-> global]
      /\ perTokenOnDay' = [perTokenOnDay EXCEPT ![day] = tokenDay]

\* What the batch left in the contract above the balance it found there.
withheld(l, t) == IF l[Self][t] > ledger[Self][t] THEN l[Self][t] - ledger[Self][t] ELSE 0
withheldUsd(l, s) ==
  SumFunction([t \in TokensOf(s) |-> ValueUsd(s, withheld(l, t), t)])
  + SumFunction([r \in DOMAIN s.repeats |-> quoteOf(withheld(l, s.repeats[r].token), s.repeats[r].price)])

\* The surplus is paid out whole: the solver's share, and the rest, dust
\* included, to the treasury.  It is read before any of it is paid, so a token
\* that is listed twice is paid out twice, and the transfer reverts when the
\* contract has no more of it.
settleFees(l, s, winner) ==
  LET cap == feeCap(winner.savings + withheldUsd(l, s), notionalUsd(s),
                    FEE_CAP_SHARE_BPS, FEE_CAP_NOTIONAL_BPS)
      passthrough == winner.savings * BPS < notionalUsd(s) * MIN_SAVINGS_BPS
      toSolver(t) == IF passthrough THEN 0
                     ELSE Listings(s, t) * ((withheld(l, t) * SOLVER_SHARE_OF_FEE_BPS) \div BPS)
      paid(t) == IF t \in TokensOf(s) THEN Listings(s, t) * withheld(l, t) ELSE 0
  IN  /\ withheldUsd(l, s) <= cap
      /\ \A t \in TokensOf(s) : paid(t) <= l[Self][t]
      /\ ledger' = [a \in Accounts |-> [t \in Tokens |->
           l[a][t] - (IF a = Self THEN paid(t) ELSE 0)
                   + (IF a = winner.solver /\ t \in TokensOf(s) THEN toSolver(t) ELSE 0)
                   + (IF a = Treasury /\ t \in TokensOf(s) THEN paid(t) - toSolver(t) ELSE 0)]]
      /\ recordWin(winner.solver, winner.savings)

Fill(s, k) == [batch |-> s.batchId, leg |-> k, intent |-> Leg(s, k).intent,
               session |-> calendar[s.batchId].session,
               executedSell |-> Leg(s, k).executedSell, executedBuy |-> Leg(s, k).executedBuy]

\* The conditions both endings of finalize share.
finalizable(b) ==
  /\ ~isPaused
  /\ ~finalized[b]
  /\ batchWindow(b)
  /\ now > solveEnd(b)
  /\ best[b] # NoBest
  /\ multiplierHash(best[b].solution) = best[b].multiplierHash
  /\ pullReturns(best[b].solution)

\* A leg could not be collected: everything taken goes back, nobody is slashed.
finalizeUnwind(b) ==
  LET s == best[b].solution
      n == collected(s)
  IN  /\ finalizable(b)
      /\ n # Len(s.executions)
      /\ finalized' = [finalized EXCEPT ![b] = TRUE]
      /\ ledger' = refund(pull(ledger, s, n), s, n)
      /\ nonceUsed' = nonceUsed \cup {NonceKey(s, k) : k \in 1..n}
      /\ outcome' = [outcome EXCEPT ![b] = "unwound"]
      /\ UNCHANGED <<now, registryVars, allowVars, exposureVars, best, solutionsSubmitted,
                     pausedUntil, approved, movedOut, worldVars, fills, auctionWins>>

\* Every leg collected: route, deliver, charge, pay, score.
finalizeSettle(b) ==
  LET s == best[b].solution
      taken == pull(ledger, s, Len(s.executions))
  IN  /\ finalizable(b)
      /\ collected(s) = Len(s.executions)
      /\ routeReturns(taken, s)
      /\ deliverReturns(route(taken, s), s)
      /\ finalized' = [finalized EXCEPT ![b] = TRUE]
      /\ nonceUsed' = nonceUsed \cup {NonceKey(s, k) : k \in Legs(s)}
      /\ chargeExposure(s)
      /\ settleFees(deliver(route(taken, s), s), s, best[b])
      /\ outcome' = [outcome EXCEPT ![b] = "settled"]
      /\ fills' = fills \cup {Fill(s, k) : k \in Legs(s)}
      /\ UNCHANGED <<now, allowVars, best, solutionsSubmitted,
                     pausedUntil, approved, movedOut, worldVars, auctionWins>>

\* Mutant: a retired batch can be retired again.
expirableAgain(b) ==
  /\ batchWindow(b)
  /\ now > solveEnd(b) + FINALIZE_DEADLINE
  /\ best[b] # NoBest

\* The winner never finalized.  Not guarded by the pause.
expirable(b) ==
  /\ ~finalized[b]
  /\ batchWindow(b)
  /\ now > solveEnd(b) + FINALIZE_DEADLINE
  /\ best[b] # NoBest
expireBatch(b) ==
  /\ expirable(b)
  /\ finalized' = [finalized EXCEPT ![b] = TRUE]
  /\ reportFailedFinalize(best[b].solver)
  /\ outcome' = [outcome EXCEPT ![b] = "expired"]
  /\ UNCHANGED <<now, best, solutionsSubmitted, allowVars, exposureVars, pausedUntil,
                 ownerVars, worldVars, fills, auctionWins>>

----------------------------------------------------------------------------
\* The guardian and the governor.

\* There is no unpause: the pause carries its own deadline, and may be renewed.
pause ==
  /\ "guardian" \in acting
  /\ now + PAUSE_DURATION <= MaxTime
  /\ pausedUntil' = now + PAUSE_DURATION
  /\ UNCHANGED <<now, registryVars, allowVars, exposureVars, batchVars,
                 ownerVars, worldVars, historyVars>>

setTokenAllowed(t) ==
  /\ \/ tokenAllowed' = tokenAllowed \cup {t}
     \/ tokenAllowed' = tokenAllowed \ {t}
  /\ UNCHANGED <<adapterAllowed, baselineAdapter, caps>>

setAdapterAllowed(a) ==
  /\ \/ adapterAllowed' = adapterAllowed \cup {a}
     \/ adapterAllowed' = adapterAllowed \ {a}
  /\ UNCHANGED <<tokenAllowed, baselineAdapter, caps>>

setBaselineAdapter(a) ==
  /\ a \in adapterAllowed \cup {NoAdapter}
  /\ baselineAdapter' = a
  /\ UNCHANGED <<tokenAllowed, adapterAllowed, caps>>

setExposureCaps(c) ==
  /\ caps' = c
  /\ UNCHANGED <<tokenAllowed, adapterAllowed, baselineAdapter>>

GovernorStep ==
  /\ "governor" \in acting
  /\ \/ \E t \in Tokens : setTokenAllowed(t)
     \/ \E a \in Adapters : setAdapterAllowed(a)
     \/ \E a \in Adapters \cup {NoAdapter} : setBaselineAdapter(a)
     \/ \E c \in CapChoices : setExposureCaps(c)
  /\ UNCHANGED <<now, registryVars, exposureVars, batchVars, pausedUntil,
                 ownerVars, worldVars, historyVars>>

----------------------------------------------------------------------------
\* The outside world between two calls.

\* An owner spends a balance elsewhere, changes the allowance to Permit2, or
\* burns a nonce.
moveFunds(o, t) ==
  /\ ledger[o][t] > 0
  /\ ledger' = [ledger EXCEPT ![o][t] = 0]
  /\ movedOut' = [movedOut EXCEPT ![o][t] = @ + ledger[o][t]]
  /\ UNCHANGED <<nonceUsed, approved>>
setApproval(o) ==
  /\ \/ approved' = approved \cup {o}
     \/ approved' = approved \ {o}
  /\ UNCHANGED <<ledger, nonceUsed, movedOut>>
invalidateNonce(key) ==
  /\ nonceUsed' = nonceUsed \cup {key}
  /\ UNCHANGED <<ledger, approved, movedOut>>

OwnerStep ==
  /\ "owner" \in acting
  /\ \/ \E o \in Owners, t \in Tokens : moveFunds(o, t)
     \/ \E o \in Owners : setApproval(o)
     \/ \E key \in NonceKeys : invalidateNonce(key)
  /\ UNCHANGED <<now, registryVars, allowVars, exposureVars, batchVars, pausedUntil,
                 worldVars, historyVars>>

MarketStep ==
  /\ \/ /\ "venue" \in acting
        /\ spread' \in Spreads /\ readable' \in BOOLEAN
        /\ UNCHANGED <<uiMultiplier, healthy, calendar>>
     \/ /\ "issuer" \in acting
        /\ \E t \in Tokens, m \in Multipliers : uiMultiplier' = [uiMultiplier EXCEPT ![t] = m]
        /\ UNCHANGED <<spread, readable, healthy, calendar>>
     \/ /\ "oracle" \in acting
        /\ healthy' \in SUBSET Tokens
        /\ UNCHANGED <<uiMultiplier, spread, readable, calendar>>
     \/ /\ "calendar" \in acting
        /\ \E b \in Batches, c \in Calendars : calendar' = [calendar EXCEPT ![b] = c]
        /\ UNCHANGED <<uiMultiplier, spread, readable, healthy>>
  /\ UNCHANGED <<now, registryVars, allowVars, exposureVars, batchVars, pausedUntil,
                 ownerVars, acting, historyVars>>

\* executeCross of AuctionHouse reports the winner of an auction to the same
\* scoreboard.
auctionWin(s, volume) ==
  /\ auctionWins[s] < MaxAuctionWins
  /\ auctionWins' = [auctionWins EXCEPT ![s] = @ + 1]
  /\ recordWin(s, volume)
  /\ UNCHANGED <<now, allowVars, exposureVars, batchVars, pausedUntil, ownerVars, worldVars, outcome, fills>>

AuctionStep == "auction" \in acting /\ \E s \in Solvers, volume \in AuctionVolumes : auctionWin(s, volume)

RegistryStep ==
  /\ \/ \E s \in Solvers, amount \in BondAmounts : bond(s, amount)
     \/ "exit" \in acting /\ \E s \in Solvers : SolverExit(s)
     \/ "governor" \in acting /\ GovernorCall
  /\ UNCHANGED <<now, allowVars, exposureVars, batchVars, pausedUntil,
                 ownerVars, worldVars, historyVars>>

Tick ==
  /\ now < MaxTime
  /\ now' = now + 1
  /\ UNCHANGED <<registryVars, allowVars, exposureVars, batchVars, pausedUntil,
                 ownerVars, worldVars, historyVars>>

Next ==
  \/ \E solver \in Solvers, s \in Solutions : submitSolution(solver, s)
  \/ \E b \in Batches : finalizeUnwind(b) \/ finalizeSettle(b) \/ expireBatch(b)
  \/ pause
  \/ GovernorStep
  \/ OwnerStep
  \/ MarketStep
  \/ RegistryStep
  \/ AuctionStep
  \/ Tick

Spec == Init /\ [][Next]_vars

----------------------------------------------------------------------------
\* Properties.

TypeOK ==
  /\ RegistryTypeOK
  /\ best \in [Batches -> BestRecords \cup {NoBest}]
  /\ finalized \in [Batches -> BOOLEAN]
  /\ solutionsSubmitted \in [Batches -> [Solvers -> 0..MAX_SOLUTIONS_PER_SOLVER]]
  /\ tokenAllowed \in SUBSET Tokens
  /\ adapterAllowed \in SUBSET Adapters
  /\ baselineAdapter \in Adapters \cup {NoAdapter}
  /\ caps \in CapChoices
  /\ today \in [index : Days, global : Nat]
  /\ perTokenOnDay \in [Days -> [Tokens -> Nat]]
  /\ pausedUntil \in 0..MaxTime
  /\ ledger \in [Accounts -> [Tokens -> Int]]
  /\ nonceUsed \in SUBSET NonceKeys
  /\ approved \in SUBSET Owners
  /\ uiMultiplier \in [Tokens -> Multipliers]
  /\ spread \in Spreads
  /\ readable \in BOOLEAN
  /\ healthy \in SUBSET Tokens
  /\ calendar \in [Batches -> Calendars]
  /\ acting \in Disturbances
  /\ outcome \in [Batches -> {"none", "settled", "unwound", "expired"}]
  /\ movedOut \in [Owners -> [Tokens -> Int]]
  /\ auctionWins \in [Solvers -> Nat]

\* Between two calls the contract holds no token: whatever a batch took in was
\* delivered, refunded or paid out as fee in the same finalize (_pull, _refund,
\* _route, _deliver and _settleFees of Settlement.sol together).
CustodyEmpty == \A t \in Tokens : ledger[Self][t] = 0

\* An owner's balance is what they started with, less what they moved away
\* themselves, less what their fills sold, plus what fills delivered to them.
\* An unwound, expired or refused batch costs an owner nothing
\* (finalize and _refund of Settlement.sol).
OwnersWhole ==
  \A o \in Owners, t \in Tokens :
    ledger[o][t] + movedOut[o][t] =
      InitialBalances[o][t]
      - SumFunctionOnSet([f \in fills |-> f.executedSell],
          {f \in fills : f.intent.owner = o /\ f.intent.sellToken = t})
      + SumFunctionOnSet([f \in fills |-> f.executedBuy],
          {f \in fills : f.intent.receiver = o /\ f.intent.buyToken = t})

\* A signature settles at most once over all batches, never beyond its amount,
\* its limit or its sessions, and only in a batch that settled
\* (submitSolution records, finalize executes, Permit2 burns the nonce).
SettledAsSigned ==
  /\ \A f, g \in fills : f.intent.owner = g.intent.owner /\ f.intent.nonce = g.intent.nonce => f = g
  /\ \A f \in fills :
       /\ outcome[f.batch] = "settled"
       /\ f.executedSell <= f.intent.sellAmount
       /\ f.executedBuy * f.intent.sellAmount >= f.intent.minBuyAmount * f.executedSell
       /\ f.session \in f.intent.allowedSessions

\* The scoreboard is what happened: a failed finalize per expired batch of that
\* winner, a win per settled one and per auction that reported it, and neither
\* for a batch that was unwound (expireBatch, finalize, executeCross of
\* AuctionHouse and SolverRegistry's counters).
ScoresMatchOutcomes ==
  \A s \in Solvers :
    LET ended(how) == {b \in Batches : outcome[b] = how /\ best[b].solver = s}
    IN  /\ failedFinalizes[s] = Cardinality(ended("expired"))
        /\ batchesWon[s] = Cardinality(ended("settled")) + auctionWins[s]

\* The two exposure accounts of _chargeExposure agree: what the global counter
\* holds for its day is the sum of that day's per-token counters, and no later
\* day has been charged.  A settled batch that lists a token twice charges the
\* token's counter twice and the global one once: then the global counter is
\* the smaller of the two accounts, never the larger.
DayAccountsAgree ==
  LET byToken == SumFunctionOnSet(perTokenOnDay[today.index], Tokens)
  IN  /\ today.global <= byToken
      /\ (\A b \in Batches : outcome[b] = "settled" => best[b].solution.repeats = <<>>) =>
           today.global = byToken
      /\ \A d \in Days, t \in Tokens : d > today.index => perTokenOnDay[d][t] = 0

\* While a batch has a recorded winner, an exit of that winner that is pending
\* cannot end before a whole cooldown has run from the batch's own window: the
\* winner was active when submitSolution recorded it, so requestUnbond came
\* later.  Inductive, and what BondOutlivesDuty rests on.
DutyInv ==
  \A b \in Batches : best[b] # NoBest =>
    /\ now > b
    /\ unbondAvailableAt[best[b].solver] # 0 =>
         unbondAvailableAt[best[b].solver] > b + UNBOND_COOLDOWN

\* The cooldown outlasts the winner's duty: a solver takes its bond out only
\* when every unretired batch it won is past the deadline, so that expireBatch
\* has had a bond to slash since then (withdrawBond of SolverRegistry.sol
\* against submitSolution and expireBatch of Settlement.sol).
BondOutlivesDuty ==
  [][\A s \in Solvers, b \in Batches :
       /\ best[b] # NoBest
       /\ best[b].solver = s
       /\ ~finalized[b]
       /\ withdrawBond(s)
       => now > solveEnd(b) + FINALIZE_DEADLINE]_vars

\* What submitSolution checked of a candidate is still true of the one it
\* recorded: it is for that batch, its legs and venue calls are in listed
\* tokens, and each leg stays inside the amount and the limit its owner signed.
\* Inductive.
WithinLimits(s) ==
  /\ \A k \in Legs(s) :
       LET e == Leg(s, k)
       IN  /\ {e.intent.sellToken, e.intent.buyToken} \subseteq TokensOf(s)
           /\ e.executedSell <= e.intent.sellAmount
           /\ limitRespected(e.executedBuy, e.intent.sellAmount, e.intent.minBuyAmount,
                             e.executedSell)
  /\ \A v \in DOMAIN s.venueCalls :
       {s.venueCalls[v].tokenIn, s.venueCalls[v].tokenOut} \subseteq TokensOf(s)
RecordedInv ==
  \A b \in Batches : best[b] # NoBest =>
    best[b].solution.batchId = b /\ WithinLimits(best[b].solution)

\* How a batch ended and the contract's own flag agree, and only a batch with a
\* recorded winner ends (finalized, in finalize and expireBatch).  Inductive,
\* and what the refinement rests on.
EndInv ==
  \A b \in Batches : /\ finalized[b] <=> outcome[b] # "none"
                     /\ finalized[b] => best[b] # NoBest

----------------------------------------------------------------------------
\* The promise a batch makes, and how this state shows it.

AnySolver == CHOOSE s \in Solvers : TRUE

BatchPhase  == [b \in Batches |-> IF outcome[b] # "none" THEN outcome[b]
                                 ELSE IF best[b] = NoBest THEN "open" ELSE "won"]
BatchLeader == [b \in Batches |-> IF best[b] = NoBest THEN AnySolver ELSE best[b].solver]
BatchLead   == [b \in Batches |-> IF best[b] = NoBest THEN 0 ELSE best[b].savings]
BatchWins   == [s \in Solvers |-> batchesWon[s] - auctionWins[s]]

Lifecycle == INSTANCE BatchLifecycle WITH
  WINDOW   <- SOLUTION_WINDOW,
  DEADLINE <- FINALIZE_DEADLINE,
  clock    <- now,
  phase    <- BatchPhase,
  leader   <- BatchLeader,
  lead     <- BatchLead,
  blame    <- failedFinalizes,
  wins     <- BatchWins

\* Every batch ends at most once; the recorded winner changes only inside the
\* window and only for strictly higher savings; blame and credit fall on the
\* recorded winner, blame only after the deadline, and auctions aside nothing
\* else is credited (submitSolution, finalize and
\* expireBatch of Settlement.sol implement BatchLifecycle).
ImplementsLifecycle == Lifecycle!LifecycleSpec
=============================================================================
