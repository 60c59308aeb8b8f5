--------------------------- MODULE MCSettlement ---------------------------
(***************************************************************************)
(* Instances of Settlement for TLC.  Two tokens at the price of one, a     *)
(* pool that keeps a spread, and ten-part scales in place of basis points, *)
(* so that a fee, its cap and its rounding all show on amounts of ten.     *)
(***************************************************************************)
EXTENDS Settlement, TLC

CONSTANTS alice, bob, usdg, nvda, uni

Intent(o, r, nonce, st, bt, sell, min, until) ==
  [owner |-> o, receiver |-> r, nonce |-> nonce, sellToken |-> st, buyToken |-> bt,
   sellAmount |-> sell, minBuyAmount |-> min, validAfter |-> 0, validUntil |-> until,
   partialFill |-> FALSE, allowedSessions |-> {"OPEN", "CLOSED_WEEKEND"}]

Exec(i, buy, base) ==
  [intent |-> i, executedSell |-> i.sellAmount, executedBuy |-> buy, baseline |-> base,
   signed |-> TRUE]

Sol(b, execs, calls, savings) ==
  [batchId |-> b, prices |-> (usdg :> 1 @@ nvda :> 1), repeats |-> <<>>,
   executions |-> execs, venueCalls |-> calls, claimedSavings |-> savings]

\* The same solution, its array naming a token again.
ListedTwice(s, t) == [s EXCEPT !.repeats = <<[token |-> t, price |-> 1]>>]

Swap(tin, tout, amount, min) ==
  [adapter |-> uni, tokenIn |-> tin, tokenOut |-> tout, amountIn |-> amount, minOut |-> min]

\* alice sells ten usdg, bob ten nvda; alice also signs a second intent over
\* the same balance, for the open session only.
AliceBuys  == Intent(alice, alice, 1, usdg, nvda, 10, 5, 20)
AliceAgain == [Intent(alice, bob, 2, usdg, nvda, 10, 5, 20) EXCEPT !.allowedSessions = {"OPEN"}]
BobSells   == Intent(bob, bob,     1, nvda, usdg, 10, 5, 20)

\* Netted in full; netted with a fee; routed; the wrong ones are refused.
Netted(b)  == Sol(b, <<Exec(AliceBuys, 10, 7), Exec(BobSells, 10, 7)>>, <<>>, 6)
WithFee(b) == Sol(b, <<Exec(AliceBuys, 9, 7), Exec(BobSells, 10, 7)>>, <<>>, 5)
Routed(b)  == Sol(b, <<Exec(AliceBuys, 7, 7)>>, <<Swap(usdg, nvda, 10, 7)>>, 0)
Twice(b)   == Sol(b, <<Exec(AliceBuys, 9, 9), Exec(AliceAgain, 8, 8)>>,
                     <<Swap(usdg, nvda, 20, 17)>>, 0)
BobFirst(b) == Sol(b, <<Exec(BobSells, 10, 7), Exec(AliceAgain, 10, 7)>>, <<>>, 6)
Overpaid(b) == Sol(b, <<Exec(AliceBuys, 11, 7), Exec(BobSells, 10, 7)>>, <<>>, 7)
Short(b)    == Sol(b, <<Exec(AliceBuys, 10, 7)>>, <<>>, 3)

OneEach == (alice :> (usdg :> 10 @@ nvda :> 0)) @@ (bob :> (usdg :> 0 @@ nvda :> 10))
TwoEach == (alice :> (usdg :> 20 @@ nvda :> 0)) @@ (bob :> (usdg :> 0 @@ nvda :> 20))
AtOne == [t \in {usdg, nvda} |-> 1]
Durations == [OPEN |-> 1, CLOSED_WEEKEND |-> 2, AUCTION_OPEN |-> 0]
Deviations == [OPEN |-> 1, CLOSED_WEEKEND |-> 2, AUCTION_OPEN |-> 2]
OpenDay == {[session |-> "OPEN", guardBand |-> FALSE]}
Closed == {[session |-> "AUCTION_OPEN", guardBand |-> FALSE], [session |-> "OPEN", guardBand |-> TRUE]}
Weekend == {[session |-> "CLOSED_WEEKEND", guardBand |-> FALSE]} \cup OpenDay
TightCaps == {[perBatch |-> 20, perTokenDaily |-> 10, globalDaily |-> 20]}
WideCaps == {[perBatch |-> 100, perTokenDaily |-> 100, globalDaily |-> 100]}
AllDays == Closed \cup Weekend
AllCaps == TightCaps \cup WideCaps

\* Disjoint intents, so that both batches may settle on the same day.
RoutedAgain(b) == Sol(b, <<Exec(AliceAgain, 7, 7)>>, <<Swap(usdg, nvda, 10, 7)>>, 0)
FundsSolutions == UNION {{Netted(b), WithFee(b), RoutedAgain(b), Twice(b), BobFirst(b),
                          Overpaid(b), Short(b), ListedTwice(Netted(b), nvda),
                          ListedTwice(WithFee(b), nvda)} : b \in Batches}
RaceSolutions == UNION {{Netted(b), WithFee(b), Routed(b)} : b \in Batches}
=============================================================================
