-------------------------- MODULE MCPlansAndViews --------------------------
(***************************************************************************)
(* What is worked out from the chain, for TLC: the solver's plans, quotes  *)
(* and batch times, and the views of the indexer, its receipts and a       *)
(* browser tab.  They share no memory, so a behaviour is about one of them *)
(* (subject); a plan is one step from a job to its outcome.                *)
(***************************************************************************)
EXTENDS Indexer, TabView, CrossPlanner, SolverClearing, VenueQuote, BatchClock, Receipt, AgentMandate, Preflight, Faucet, OpenReference, TLC

VARIABLE subject

planVars == <<crossDone, clearingDone, quoteDone>>
viewVars == <<tabVars, receiptVars>>
asideVars == <<mandateVars, preflightVars, faucetVars, tapeVars>>
subjectVars == <<subject, indexerVars, planVars, clockVars, viewVars, asideVars>>

Subjects == {"indexer", "tab", "cross", "clearing", "venue", "clock", "receipt", "mandate", "preflight", "faucet", "reference"}

\* What is not the subject stays at one of its initial states.
Fixed(name, cases, case) == subject = name \/ case = CHOOSE c \in cases : TRUE

SubjectsInit ==
  /\ subject \in Subjects
  /\ CrossInit /\ ClearingInit /\ QuoteInit /\ ReceiptInit
  /\ IndexerInit /\ Fixed("indexer", IndexCases, indexCase)
  /\ TabInit /\ Fixed("tab", TabCases, tabCase)
  /\ ClockInit /\ Fixed("clock", ClockCalendars, calendar)
  /\ MandateInit /\ Fixed("mandate", MandatePrices, agentPrice)
  /\ PreflightInit /\ Fixed("preflight", PreflightJobs, plans) /\ Fixed("preflight", CapSettings, exposureCaps)
  /\ FaucetInit /\ Fixed("faucet", FaucetCases, faucetCase)
  /\ TapeInit /\ Fixed("reference", TapeCases, tapeCase)

\* A step of the subject; what is not the subject stands still.
SubjectsNext ==
  \/ subject = "indexer" /\ IndexerNext /\ UNCHANGED <<subject, planVars, clockVars, viewVars, asideVars>>
  \/ subject = "tab" /\ TabNext /\ UNCHANGED <<subject, indexerVars, planVars, clockVars, receiptVars, asideVars>>
  \/ subject = "cross" /\ planCross
     /\ UNCHANGED <<subject, indexerVars, clearingDone, quoteDone, clockVars, viewVars, asideVars>>
  \/ subject = "clearing" /\ solve
     /\ UNCHANGED <<subject, indexerVars, crossDone, quoteDone, clockVars, viewVars, asideVars>>
  \/ subject = "venue" /\ quoteWithStats
     /\ UNCHANGED <<subject, indexerVars, crossDone, clearingDone, clockVars, viewVars, asideVars>>
  \/ subject = "clock" /\ ClockNext /\ UNCHANGED <<subject, indexerVars, planVars, viewVars, asideVars>>
  \/ subject = "receipt" /\ ReceiptNext /\ UNCHANGED <<subject, indexerVars, tabVars, planVars, clockVars, asideVars>>
  \/ subject = "mandate" /\ MandateNext
     /\ UNCHANGED <<subject, indexerVars, planVars, clockVars, viewVars, preflightVars, faucetVars, tapeVars>>
  \/ subject = "preflight" /\ PreflightNext
     /\ UNCHANGED <<subject, indexerVars, planVars, clockVars, viewVars, mandateVars, faucetVars, tapeVars>>
  \/ subject = "faucet" /\ FaucetNext
     /\ UNCHANGED <<subject, indexerVars, planVars, clockVars, viewVars, mandateVars, preflightVars, tapeVars>>
  \/ subject = "reference" /\ TapeNext
     /\ UNCHANGED <<subject, indexerVars, planVars, clockVars, viewVars, mandateVars, preflightVars, faucetVars>>

\* The fairness of each module, for the behaviours that are about it.
SubjectsFair ==
  /\ WF_indexerVars(subject = "indexer" /\ MineBlock)
  /\ WF_indexerVars(subject = "indexer" /\ IndexerStep)
  /\ WF_tabVars(subject = "tab" /\ refresh)
  /\ WF_tabVars(subject = "tab" /\ \E r \in refreshes : refreshReads(r))
  /\ WF_tabVars(subject = "tab" /\ \E r \in refreshes : refreshShows(r))
  /\ WF_tabVars(subject = "tab" /\ \E h \in SentHashes : receiptIndexed(h))
  /\ WF_tabVars(subject = "tab" /\ \E t \in StreamTabs : ping(t))
  /\ WF_tabVars(subject = "tab" /\ \E t \in StreamTabs : openSocket(t))

SubjectsSpec == SubjectsInit /\ [][SubjectsNext]_subjectVars /\ SubjectsFair

---------------------------------------------------------------------------
(* The indexer: forks and a chain, a batch that ends in each way.          *)

Indexing(fork, confirmations, txs, reorgs, faults, height) ==
  [fork |-> fork, confirmations |-> confirmations, txs |-> txs, reorgs |-> reorgs, faults |-> faults, height |-> height]
IndexInstances ==
  {Indexing(TRUE, 0, {"submit A", "submit B", "finalize"}, 1, 0, 5),
   Indexing(FALSE, 1, {"submit A", "below threshold"}, 1, 1, 5),
   Indexing(FALSE, 0, {}, 0, 0, 3),
   Indexing(TRUE, 0, {"open", "cross", "submit A"}, 1, 0, 5),
   Indexing(TRUE, 0, {"submit A", "expire", "unwind"}, 1, 1, 5),
   Indexing(TRUE, 0, {"submit A", "finalize"}, 1, 0, 6),
   Indexing(TRUE, 0, {"submit A"}, 2, 0, 5),
   Indexing(FALSE, 1, {"submit A"}, 2, 0, 6)}

(* Crosses: two buyers and up to three sellers of every kind, one of whom   *)
(* may ask for a deviation above the whole; the contract takes four fills.  *)

Entry(id, buy, kind, limit, dev, amount) ==
  [id |-> id, buy |-> buy, kind |-> kind, limitPrice |-> limit, maxDev |-> dev, sellAmount |-> amount]
Entries(id, buy, kinds, amounts) == {Entry(id, buy, k[1], k[2], k[3], a) : k \in kinds, a \in amounts}
MOO == <<"MOO", 0, 0>>
CrossInstances ==
  {[book |-> {a, b, c, d, e}, ref |-> 6, collarBps |-> 4, rooExcluded |-> x, preferred |-> p] :
     a \in Entries(1, TRUE, {MOO, <<"LOO", 5, 0>>, <<"ROO", 0, 2>>}, {3, 7}),
     b \in Entries(2, TRUE, {MOO, <<"LOO", 7, 0>>}, {0, 4}),
     c \in Entries(3, FALSE, {MOO, <<"LOO", 5, 0>>, <<"ROO", 0, 1>>, <<"ROO", 0, 11>>}, {1, 3}),
     d \in Entries(4, FALSE, {MOO, <<"LOO", 6, 0>>}, {1, 2}),
     e \in Entries(5, FALSE, {MOO}, {0, 1}), x \in BOOLEAN, p \in {0, 5}}

(* Batches: four intents, two prices, pools of two depths.                 *)

Intent(sellsQuoteToken, sells, atLeast, partial) ==
  [sellToken |-> IF sellsQuoteToken THEN "quote" ELSE "base", buyToken |-> IF sellsQuoteToken THEN "base" ELSE "quote",
   sellAmount |-> sells, minBuyAmount |-> atLeast, partialFill |-> partial]
Pool(num, den, depth) == [num |-> num, den |-> den, depth |-> depth]
\* Limits inside the band, where tiers and prices meet, and limits beyond it.
TightOrders ==
  {Intent(TRUE, x[1], x[2], f) : x \in {<<6, 3>>, <<7, 4>>}, f \in BOOLEAN}
  \X {Intent(TRUE, 6, 4, TRUE), Intent(TRUE, 6, 4, FALSE), Intent(TRUE, 5, 2, FALSE), Intent(FALSE, 4, 7, TRUE)}
  \X {Intent(FALSE, 5, m, f) : m \in {3, 7}, f \in BOOLEAN}
  \X {Intent(FALSE, x[1], x[2], f) : x \in {<<1, 1>>, <<3, 5>>}, f \in BOOLEAN}
WideOrders ==
  {Intent(TRUE, s, m, f) : s \in {5, 8}, m \in {1, 3}, f \in BOOLEAN}
  \X {Intent(TRUE, 6, 2, TRUE), Intent(TRUE, 6, 1, FALSE)}
  \X {Intent(FALSE, 5, m, f) : m \in {3, 7}, f \in BOOLEAN}
  \X {Intent(FALSE, s, 1, f) : s \in {1, 3}, f \in BOOLEAN}
\* Intents over nothing, on one side or after one that sells something.
EmptyOrders ==
  {Intent(TRUE, 0, m, TRUE) : m \in {0, 1}} \X {Intent(TRUE, s, 0, TRUE) : s \in {0, 5}}
  \X {Intent(FALSE, s, 3, TRUE) : s \in {1, 5}} \X {Intent(FALSE, s, 0, FALSE) : s \in {0, 3}}
ClearingInstances ==
  {[intents |-> i, ref |-> [quotePrice |-> r[1], basePrice |-> r[2], maxDeviationBps |-> 3],
    venue |-> ("quote" :> Pool(1, 2, v[1]) @@ "base" :> Pool(3, 2, v[2])), profile |-> p] :
     i \in TightOrders \cup WideOrders \cup EmptyOrders,
     r \in {<<3, 5>>, <<5, 9>>}, v \in {<<5, 4>>, <<5, 20>>, <<20, 4>>}, p \in {"a", "b"}}

(* Pools: positions across negative and positive ticks, spacings 1 and 2.  *)

TickPrices == [t \in -8..8 |-> t + 14]
Positions ==
  ({(-6 :> 5 @@ -3 :> 3 @@ 5 :> -8), (-8 :> 4 @@ 3 :> 4 @@ 7 :> -8), (-6 :> 8 @@ 6 :> -8)} \X {1})
  \cup ({(-8 :> 5 @@ -4 :> 3 @@ 4 :> -3 @@ 6 :> -5), (-6 :> 4 @@ -2 :> 4 @@ 6 :> -8)} \X {2})
LiquidityAt(net, t) == MapThenSumSet(LAMBDA x : net[x], {x \in DOMAIN net : x <= t})
QuoteInstances ==
  {j \in {[sqrtPrice |-> TickPrices[t], tick |-> t, fee |-> f, spacing |-> n[2], liquidity |-> LiquidityAt(n[1], t),
           net |-> n[1], zeroForOne |-> z, amountIn |-> a] :
            t \in -6..4, f \in {0, 1}, n \in Positions, z \in BOOLEAN, a \in 1..12} : j.liquidity > 0}

(* Days of 60 seconds; clocks change, holidays and early closes.           *)

Marks == [preMarket |-> 8, auctionOpen |-> 16, open |-> 20, auction |-> 4, close |-> 40, postMarketEnd |-> 50]
Offsets == [EST |-> 5, EDT |-> 4]
Durations ==
  [CLOSED_OVERNIGHT |-> 3, PRE_MARKET |-> 2, AUCTION_OPEN |-> 0, OPEN |-> 2, AUCTION_CLOSE |-> 0,
   POST_MARKET |-> 2, CLOSED_WEEKEND |-> 4, HOLIDAY |-> 5, PROTECTIVE |-> 7]
Calendars ==
  {[dst |-> <<0, 130, 340>>, holidays |-> {}, early |-> <<>>],
   [dst |-> <<0, 20, 270>>, holidays |-> {0, 4}, early |-> (1 :> 30)],
   [dst |-> <<0, 5, 127, 250>>, holidays |-> {}, early |-> (0 :> 22)]}
Seconds == 6..260

(* Receipts: attributions of three fills; every order of three solutions,  *)
(* two of them equally good, sent by either solver and again.              *)

Sent(by, n) == [solver |-> by, solution |-> n, savings |-> IF n = 1 THEN 1 ELSE 2]
Submissions == UNION {[1..n -> {Sent(s, k) : s \in {"a", "b"}, k \in 1..3}] : n \in 1..3}
Fill(token, amount) == [owner |-> "u", sell |-> token, amount |-> amount, baseline |-> amount]
OneBatch == [submits |-> <<Sent("a", 1)>>, end |-> "settled", fills |-> <<>>,
             routed |-> [q |-> 0, b |-> 0], rates |-> <<1, 1, 1, 1>>, lost |-> FALSE, moved |-> FALSE]
ReceiptInstances ==
  {[OneBatch EXCEPT !.fills = f, !.routed = [q |-> r, b |-> 0]] :
     f \in {<<Fill("q", x), Fill("q", y), Fill("q", z)>> : x \in 1..2, y \in 1..2, z \in 1..3} \cup {<<Fill("q", 2), Fill("b", 1)>>},
     r \in 0..8}
  \cup {j \in {[OneBatch EXCEPT !.submits = s, !.end = e, !.fills = <<Fill("q", 2), Fill("b", 1), Fill("q", 1)>>,
                                !.rates = r, !.lost = l, !.moved = m] :
                  s \in Submissions, e \in {"settled", "at venue", "unwound", "expired"},
                  r \in {<<1, 2, 1, 2>>, <<1, 1, 2, 2>>, <<2, 1, 1, 1>>, <<2, 2, 1, 2>>}, l \in BOOLEAN, m \in BOOLEAN} :
           j.rates[BestAfter(j.submits, Len(j.submits))] = 1}

(* Mandates: one account with three intents, one nonce twice; another's.   *)

Granting(expiry, perBatch, perDay, auction) ==
  [expiry |-> expiry, perBatch |-> perBatch, perDay |-> perDay, auction |-> auction]
Signed(account, nonce, amount, until, auction, fits) ==
  [account |-> account, nonce |-> nonce, amount |-> amount, validUntil |-> until, auction |-> auction, fits |-> fits]
MandateGrants == {Granting(3, 3, 3, TRUE)}
AgentSigns ==
  {Signed(1, 1, 1, 1, FALSE, TRUE), Signed(1, 1, 2, 3, TRUE, TRUE), Signed(1, 2, 1, 2, FALSE, TRUE),
   Signed(1, 2, 1, 3, FALSE, FALSE), Signed(2, 1, 1, 3, FALSE, TRUE)}
EasternDays == [t \in 0..3 |-> (t + 1) \div 3]

(* Preflight: plans of two batches, netted or routed, against two caps.    *)

Fills(sells, sell, buys, buy, baseline) ==
  [sellToken |-> sells, executedSell |-> sell, buyToken |-> buys, executedBuy |-> buy, baseline |-> baseline]
Planned(end, halved, fills, routes) ==
  [collectEnd |-> end, halved |-> halved, fills |-> fills, price |-> ("quote" :> 4 @@ "base" :> 8), routes |-> routes]
Netted(end, halved) == Planned(end, halved, <<Fills("quote", 6, "base", 3, 2), Fills("base", 3, "quote", 6, 4)>>, <<>>)
Routed(end, minOut) ==
  Planned(end, FALSE, <<Fills("quote", 6, "base", 3, 2)>>,
          <<[tokenIn |-> "quote", tokenOut |-> "base", amountIn |-> 6, minOut |-> minOut]>>)
\* No plan at all is what the other subjects leave it at.
PlansTried ==
  {<<>>, <<Netted(0, TRUE), Routed(2, 3)>>, <<Netted(0, FALSE), Routed(0, 3)>>,
   <<Netted(0, FALSE), Routed(2, 5)>>, <<Netted(0, TRUE), Netted(2, FALSE)>>}
CapsTried == {[batch |-> 12, token |-> 13, global |-> 20], [batch |-> 24, token |-> 26, global |-> 33]}
OthersCharge == {[token |-> "quote", usd |-> 9, again |-> 0], [token |-> "base", usd |-> 9, again |-> 9]}

(* Faucet: three requests, the first and the last for one account.         *)

Clients == <<"i1", "i1", "i2">>
AskingFor == <<"a", "b", "a">>
ToppedUp == <<"eth", "quote">>
ToppedUpTo == [eth |-> 1, quote |-> 2]
Purse(held, own, reverting, restarting) == [held |-> held, own |-> own, reverts |-> reverting, restarts |-> restarting]
Purses == {Purse(1, 3, 1, FALSE), Purse(3, 2, 0, TRUE)}

(* Opening references: the days of the calendars on which there is an opening. *)

Bells == {x \in Calendars \X (0..4) : \E s \in 0..59 : sessionAt(x[1], 60 * x[2] + s) = "OPEN"}
Answers == <<2, 5, 3, 7, 4, 6>>

---------------------------------------------------------------------------
\* The opening reference is exact, and the auction and the keeper agree on it
\* (PriceOracle.sol, _reference, reference in keeper.ts), in the behaviours about
\* it; the other subjects leave it at an initial state.
ReferenceKept == subject = "reference" => ReferenceHolds

\* The index reaches the deepest block it may take and stays there, however
\* blocks, rewrites, failing reads and crashes interleave, unless the chain
\* lost everything stored (nextBlock waits for a head that comes).
IndexerCatchesUp == <>[](subject = "indexer" => IndexCaughtUp)
===========================================================================
