---------------------------- MODULE AuctionBook ----------------------------
(***************************************************************************)
(* The arithmetic of a call auction (the book functions of                 *)
(* contracts/src/AuctionHouse.sol).  A book here is a set of entries       *)
(*                                                                         *)
(*   [id, buy, kind, limitPrice, maxDev, sellAmount]                       *)
(*                                                                         *)
(* already filtered to the commitments _match looks at.  A price is quote  *)
(* per WAD units of the token, a limit of zero is no limit.                *)
(***************************************************************************)
EXTENDS ClearingMath, FiniteSetsExt

CONSTANTS COLLAR_INITIAL, COLLAR_STEP

\* A relative order has no meaning without a reference.
participating(e, ref, rooExcluded) == e.kind = "ROO" => ~rooExcluded /\ ref # 0

effectiveLimit(e, ref) ==
  CASE e.kind = "MOO" -> 0
    [] e.kind = "LOO" -> e.limitPrice
    [] e.kind = "ROO" /\ e.buy  -> (ref * (BPS + e.maxDev)) \div BPS
    [] e.kind = "ROO" /\ ~e.buy -> (ref * (BPS - e.maxDev)) \div BPS

\* The subtraction in the last case is checked: a deviation above the whole
\* makes every function of the book revert.
limitsReturn(book, ref, rooExcluded) ==
  \A e \in book : e.kind = "ROO" /\ ~e.buy /\ participating(e, ref, rooExcluded) => e.maxDev <= BPS

\* Mutant: a seller's limit is not looked at.
acceptsPriceSellAny(e, price, ref) ==
  LET limit == effectiveLimit(e, ref)
  IN  limit = 0 \/ ~e.buy \/ price <= limit

acceptsPrice(e, price, ref) ==
  LET limit == effectiveLimit(e, ref)
  IN  limit = 0 \/ (IF e.buy THEN price <= limit ELSE price >= limit)

Takers(book, buy, price, ref, rooExcluded) ==
  {e \in book : e.buy = buy /\ participating(e, ref, rooExcluded) /\ acceptsPrice(e, price, ref)}

\* Both sides in units of the token.
demand(book, price, ref, rooExcluded) ==
  IF price = 0 THEN 0
  ELSE SumFunctionOnSet([e \in book |-> tokenOf(e.sellAmount, price)],
                        Takers(book, TRUE, price, ref, rooExcluded))
supply(book, price, ref, rooExcluded) ==
  IF price = 0 THEN 0
  ELSE SumFunctionOnSet([e \in book |-> e.sellAmount],
                        Takers(book, FALSE, price, ref, rooExcluded))

matched(book, price, ref, rooExcluded) ==
  LET d == demand(book, price, ref, rooExcluded)
      s == supply(book, price, ref, rooExcluded)
  IN  IF d < s THEN d ELSE s

distance(x, y) == IF x > y THEN x - y ELSE y - x

gap(book, price, ref, rooExcluded) ==
  distance(demand(book, price, ref, rooExcluded), supply(book, price, ref, rooExcluded))

\* Volume first, then the smaller imbalance, then the distance to the reference.
isBetter(book, candidate, incumbent, ref, rooExcluded) ==
  LET volA == matched(book, candidate, ref, rooExcluded)
      volB == matched(book, incumbent, ref, rooExcluded)
      gapA == gap(book, candidate, ref, rooExcluded)
      gapB == gap(book, incumbent, ref, rooExcluded)
  IN  \/ volA > volB
      \/ volA = volB /\ gapA < gapB
      \/ volA = volB /\ gapA = gapB /\ distance(candidate, ref) < distance(incumbent, ref)

inCollar(price, ref, collarBps) ==
  /\ (ref * (BPS - collarBps)) \div BPS <= price
  /\ price <= (ref * (BPS + collarBps)) \div BPS
=============================================================================
