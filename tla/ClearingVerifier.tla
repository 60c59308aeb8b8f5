------------------------- MODULE ClearingVerifier -------------------------
(***************************************************************************)
(* What ClearingVerifier.verify accepts and what it computes               *)
(* (contracts/src/ClearingVerifier.sol), over the solutions of             *)
(* contracts/src/interfaces/Types.sol:                                     *)
(*                                                                         *)
(*   solution  [batchId, prices, repeats, executions, venueCalls,          *)
(*              claimedSavings]                                            *)
(*             prices is a function on the tokens of the solution's array, *)
(*             with the price at the first place of each, the place that   *)
(*             _tokenIndex finds; repeats are the further places of the    *)
(*             array, [token, price] each, as nothing refuses an array     *)
(*             that names a token twice                                    *)
(*   execution [intent, executedSell, executedBuy, baseline, signed]       *)
(*   venueCall [adapter, tokenIn, tokenOut, amountIn, minOut]              *)
(*   intent    [owner, receiver, nonce, sellToken, buyToken, sellAmount,   *)
(*              minBuyAmount, validAfter, validUntil, partialFill,         *)
(*              allowedSessions]                                           *)
(*                                                                         *)
(* An execution carries its intent in place of an index, its baseline      *)
(* quote in place of a parallel array, and whether the signature sent      *)
(* with it is the owner's.  The packed byte layout and the array lengths   *)
(* are therefore well formed by construction.                              *)
(***************************************************************************)
EXTENDS ClearingMath, Sequences, FiniteSetsExt

TokensOf(s) == DOMAIN s.prices
\* The places of the array that name a token again, and how often it is named.
Again(s, token) == {r \in DOMAIN s.repeats : s.repeats[r].token = token}
Listings(s, token) == 1 + Cardinality(Again(s, token))
Legs(s) == DOMAIN s.executions
Leg(s, k) == s.executions[k]

\* Value of a token amount at the solution's own price.
ValueUsd(s, amount, token) == quoteOf(amount, s.prices[token])

executedSells(s) == [k \in Legs(s) |-> Leg(s, k).executedSell]
executedBuys(s) == [k \in Legs(s) |-> Leg(s, k).executedBuy]

\* Sold and bought by the first n legs, in one token, by the parties in A.
SoldUpTo(s, n, A, token) ==
  SumFunctionOnSet(executedSells(s),
    {k \in 1..n : Leg(s, k).intent.owner \in A /\ Leg(s, k).intent.sellToken = token})
\* Mutant: the bought token goes to the owner, whoever the receiver is.
BoughtForOwner(s, A, token) ==
  SumFunctionOnSet(executedBuys(s),
    {k \in Legs(s) : Leg(s, k).intent.owner \in A /\ Leg(s, k).intent.buyToken = token})
BoughtFor(s, A, token) ==
  SumFunctionOnSet(executedBuys(s),
    {k \in Legs(s) : Leg(s, k).intent.receiver \in A /\ Leg(s, k).intent.buyToken = token})

pulled(s, token) ==
  SumFunctionOnSet(executedSells(s),
    {k \in Legs(s) : Leg(s, k).intent.sellToken = token})
delivered(s, token) ==
  SumFunctionOnSet(executedBuys(s),
    {k \in Legs(s) : Leg(s, k).intent.buyToken = token})

\* Settlement hands the verifier minOut, the least a venue may return.
venueDeltas(s, token) ==
  SumFunctionOnSet([v \in DOMAIN s.venueCalls |-> s.venueCalls[v].minOut],
    {v \in DOMAIN s.venueCalls : s.venueCalls[v].tokenOut = token})
  - SumFunctionOnSet([v \in DOMAIN s.venueCalls |-> s.venueCalls[v].amountIn],
    {v \in DOMAIN s.venueCalls : s.venueCalls[v].tokenIn = token})

----------------------------------------------------------------------------

\* Every leg settles at the batch's prices, up to the fee ceiling.
checkUniformPrice(s, e, maxFeeBps) ==
  feeWithinBand(e.executedSell * s.prices[e.intent.sellToken],
                e.executedBuy * s.prices[e.intent.buyToken], maxFeeBps)

\* Every place of the array is checked, the repeated ones with their own price.
checkBand(s, oraclePrices, maxDeviationBps) ==
  /\ \A t \in TokensOf(s) : withinBand(s.prices[t], oraclePrices[t], maxDeviationBps)
  /\ \A r \in DOMAIN s.repeats :
       withinBand(s.repeats[r].price, oraclePrices[s.repeats[r].token], maxDeviationBps)

\* Amounts are booked at a token's first place; a repeated one stays at zero.
checkConservation(s) ==
  \A t \in TokensOf(s) : conserved(pulled(s, t), venueDeltas(s, t), delivered(s, t)) >= 0

checkExecution(s, e, maxFeeBps) ==
  /\ e.intent.sellToken \in TokensOf(s) /\ e.intent.buyToken \in TokensOf(s)
  /\ e.executedSell <= e.intent.sellAmount
  /\ e.executedSell # e.intent.sellAmount => e.intent.partialFill
  /\ limitRespected(e.executedBuy, e.intent.sellAmount, e.intent.minBuyAmount, e.executedSell)
  /\ checkUniformPrice(s, e, maxFeeBps)
  /\ e.executedBuy >= e.baseline

\* verify returns instead of reverting.
Verifies(s, oraclePrices, maxDeviationBps, maxFeeBps) ==
  /\ checkBand(s, oraclePrices, maxDeviationBps)
  /\ \A k \in Legs(s) : checkExecution(s, Leg(s, k), maxFeeBps)
  /\ checkConservation(s)

\* The savings verify returns: what each leg got above its baseline.
Savings(s) ==
  SumFunction([k \in Legs(s) |-> ValueUsd(s, Leg(s, k).executedBuy - Leg(s, k).baseline,
                                          Leg(s, k).intent.buyToken)])
=============================================================================
