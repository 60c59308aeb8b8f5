--------------------------- MODULE ClearingMath ---------------------------
(***************************************************************************)
(* The predicates a batch is judged on                                     *)
(* (contracts/src/libraries/ClearingMath.sol).  Prices are scaled by WAD,  *)
(* fees and bands are parts of BPS; both scales are constants so that a    *)
(* small instance still meets the rounding.                                *)
(***************************************************************************)
EXTENDS Integers

CONSTANTS WAD, BPS

ASSUME ScaleAssumption == WAD \in Nat \ {0} /\ BPS \in Nat \ {0}

\* The realised rate is at least the asked one, without a division.
limitRespected(executedBuy, sellAmount, minBuyAmount, executedSell) ==
  executedBuy * sellAmount >= minBuyAmount * executedSell

\* What one fill withholds is inside the fee ceiling.
feeWithinBand(valueIn, valueOut, maxFeeBps) ==
  /\ valueOut <= valueIn
  /\ (valueIn - valueOut) * BPS <= valueIn * maxFeeBps

withinBand(price, ref, maxDeviationBps) ==
  LET diff == IF price > ref THEN price - ref ELSE ref - price
  IN  diff * BPS <= ref * maxDeviationBps

\* Both conversions floor.
quoteOf(tokenAmount, price) == (tokenAmount * price) \div WAD
tokenOf(quoteAmount, price) == (quoteAmount * WAD) \div price

conserved(pulled, venueDelta, delivered) == pulled + venueDelta - delivered

\* The lower of a share of the surplus and a share of the notional.
feeCap(surplusUsd, notionalUsd, shareBps, notionalBps) ==
  LET byShare    == (surplusUsd * shareBps) \div BPS
      byNotional == (notionalUsd * notionalBps) \div BPS
  IN  IF byShare < byNotional THEN byShare ELSE byNotional
=============================================================================
