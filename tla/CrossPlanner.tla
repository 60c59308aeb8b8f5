--------------------------- MODULE CrossPlanner ---------------------------
(***************************************************************************)
(* The cross the keeper builds for a frozen book (solver/src/cross.ts).    *)
(* A job is a book with its reference, collar and indicative price; its    *)
(* plan is what planCross returns.  filledSell is zero in every frozen     *)
(* book, so what remains of an entry is its sellAmount.                    *)
(***************************************************************************)
EXTENDS AuctionBook

CONSTANTS
  CrossJobs,   \* bound: records [book, ref, collarBps, rooExcluded, preferred]
  MAX_CROSS_EXECUTIONS

VARIABLE crossDone   \* <<>> before, <<job, plan>> after

NoPlan == [ok |-> FALSE, price |-> 0, fill |-> <<>>]

collar(ref, collarBps) == [low  |-> (ref * (BPS - collarBps)) \div BPS,
                           high |-> (ref * (BPS + collarBps)) \div BPS]

\* Demand no longer exceeds supply.
short(j, p) == demand(j.book, p, j.ref, j.rooExcluded) <= supply(j.book, p, j.ref, j.rooExcluded)

\* Mutant: the lower half keeps the middle.
balancingPriceLow(j, from, to) ==
  LET search[w \in (from..to) \X (from..to)] ==
        LET mid == (w[1] + w[2]) \div 2
        IN  IF w[1] >= w[2] THEN w[1]
            ELSE IF short(j, mid) THEN search[<<w[1], IF mid > from THEN mid - 1 ELSE mid>>] ELSE search[<<mid + 1, w[2]>>]
  IN  IF from > to \/ ~short(j, to) THEN -1 ELSE search[<<from, to>>]

\* The binary search, -1 where the code returns null.
balancingPrice(j, from, to) ==
  LET search[w \in (from..to) \X (from..to)] ==
        LET mid == (w[1] + w[2]) \div 2
        IN  IF w[1] >= w[2] THEN w[1]
            ELSE IF short(j, mid) THEN search[<<w[1], mid>>] ELSE search[<<mid + 1, w[2]>>]
  IN  IF from > to \/ ~short(j, to) THEN -1 ELSE search[<<from, to>>]

\* What an execution receives for what it sells.
boughtFor(e, sell, price) == IF e.buy THEN tokenOf(sell, price) ELSE quoteOf(sell, price)
FillTotal(amounts, side) == SumFunctionOnSet(amounts, {e \in DOMAIN amounts : e.buy = side})

\* The planner's own copy of _applyCross, on executions that follow the book's
\* order and the price.  Its integers are signed: a seller whose deviation is
\* above the whole has a limit below zero, which every price respects.
checkCross(j, price, fill) ==
  LET got    == [e \in DOMAIN fill |-> boughtFor(e, fill[e], price)]
      volume == matched(j.book, price, j.ref, j.rooExcluded)
  IN  /\ \A e \in DOMAIN fill : /\ participating(e, j.ref, j.rooExcluded)
                                /\ acceptsPrice(e, price, j.ref)
                                /\ fill[e] <= e.sellAmount
      /\ FillTotal(fill, FALSE) >= FillTotal(got, TRUE)
      /\ FillTotal(fill, TRUE) >= FillTotal(got, FALSE)
      /\ volume # 0
      /\ FillTotal(got, TRUE) + Cardinality(DOMAIN fill) >= volume

\* _applyCross itself: as many executions as it takes, and _match over the whole
\* book, whose limits are unsigned.
applyCross(j, price, fill) ==
  /\ Cardinality(DOMAIN fill) <= MAX_CROSS_EXECUTIONS
  /\ limitsReturn(j.book, j.ref, j.rooExcluded)
  /\ checkCross(j, price, fill)

Held(sells) == SumFunctionOnSet([e \in sells |-> e.sellAmount], sells)

\* One unit each, in the order of the remainders, until nothing is left.
topUp(floors, sells, target, available) ==
  LET rem(e)       == (e.sellAmount * target) % available
      open         == {e \in sells : floors[e] < e.sellAmount}
      before(x, e) == rem(x) > rem(e) \/ (rem(x) = rem(e) /\ x.id < e.id)
      left         == target - SumFunctionOnSet(floors, sells)
      raised       == {e \in open : Cardinality({x \in open : before(x, e)}) < left}
  IN  [e \in sells |-> IF e \in raised THEN floors[e] + 1 ELSE floors[e]]

\* The sellers' shares of the target: floors, then the remainders.
split(sells, target, available) ==
  topUp([e \in sells |-> (e.sellAmount * target) \div available], sells, target, available)

placed(buys, shares) ==
  [e \in buys \cup {s \in DOMAIN shares : shares[s] > 0} |-> IF e.buy THEN e.sellAmount ELSE shares[e]]

\* The buyers in full and the sellers' shares; what stays open is whether every
\* unit found a seller and the check of the result.
attemptedFor(price, buys, sells, target) ==
  IF target = 0 \/ Held(sells) < target THEN NoPlan
  ELSE [ok |-> TRUE, price |-> price, fill |-> placed(buys, split(sells, target, Held(sells)))]

boughtAt(buys, price) == SumFunctionOnSet([e \in buys |-> tokenOf(e.sellAmount, price)], buys)

attemptedAt(j, price) ==
  LET buys  == {e \in Takers(j.book, TRUE, price, j.ref, j.rooExcluded) : tokenOf(e.sellAmount, price) > 0}
      sells == {e \in Takers(j.book, FALSE, price, j.ref, j.rooExcluded) : e.sellAmount > 0}
  IN  IF price = -1 THEN NoPlan ELSE attemptedFor(price, buys, sells, boughtAt(buys, price))

\* The search starts at the indicative price, inside the collar.
searchFrom(j, edge) == IF j.preferred < edge.low THEN edge.low ELSE j.preferred
planPrice(j, edge) == balancingPrice(j, searchFrom(j, edge), edge.high)
attempted(j) == attemptedAt(j, planPrice(j, collar(j.ref, j.collarBps)))

placesAll(plan) ==
  LET got == [e \in DOMAIN plan.fill |-> boughtFor(e, plan.fill[e], plan.price)]
  IN  FillTotal(plan.fill, FALSE) = FillTotal(got, TRUE)

checked(j, plan) ==
  IF plan.ok /\ placesAll(plan) /\ checkCross(j, plan.price, plan.fill) THEN plan ELSE NoPlan
plannedCross(j) == checked(j, attempted(j))

\* What a book holds, and that the search does not start at a price of zero:
\* prices have many digits and the collar is far narrower than the whole.
ASSUME CrossAssumption ==
  /\ MAX_CROSS_EXECUTIONS \in Nat
  /\ \A j \in CrossJobs :
       /\ IsFiniteSet(j.book) /\ {j.ref, j.collarBps, j.preferred} \subseteq Nat
       /\ \A e \in j.book : e.buy \in BOOLEAN /\ e.kind \in {"MOO", "LOO", "ROO"}
                            /\ {e.id, e.limitPrice, e.maxDev, e.sellAmount} \subseteq Nat
       /\ \A d, e \in j.book : d.id = e.id => d = e
       /\ j.preferred > 0 \/ collar(j.ref, j.collarBps).low > 0

CrossInit == crossDone = <<>>
planCross == crossDone = <<>> /\ \E j \in CrossJobs : crossDone' = <<j, plannedCross(j)>>
CrossSpec == CrossInit /\ [][planCross]_crossDone

---------------------------------------------------------------------------
(* Properties.                                                             *)

\* "The smallest price where demand no longer exceeds supply", against a search
\* of every price of the collar.
BalancingPriceSmallest ==
  \A d \in {crossDone} \ {<<>>} :
    LET edge == collar(d[1].ref, d[1].collarBps)
        good == {p \in searchFrom(d[1], edge)..edge.high : short(d[1], p)}
    IN  planPrice(d[1], edge) = (IF good = {} THEN -1 ELSE Min(good))

ShareOfUnit(plan, sells) ==
  \A e \in {s \in DOMAIN plan.fill : ~s.buy} :
    (plan.fill[e] - 1) * Held(sells) < e.sellAmount * FillTotal(plan.fill, FALSE)

\* The two things the planner does not look at: how many executions the contract
\* takes, and a seller's deviation above the whole, at which the contract's
\* subtraction reverts while the planner's goes below zero.
ContractReads(j, plan) ==
  Cardinality(DOMAIN plan.fill) <= MAX_CROSS_EXECUTIONS /\ limitsReturn(j.book, j.ref, j.rooExcluded)

\* The binary search finds the smallest balancing price, which needs the book's
\* monotony, relative orders and rounding included, and what the planner builds
\* at it holds together ("conservation then holds by construction"): whenever
\* something matches, every unit finds a seller, the planner's check passes, no
\* seller gives more than a unit above its pro rata share, and _applyCross takes
\* the plan exactly when its executions and the limits of the book can be read
\* (balancingPrice, planCross, _applyCross).
PlanAlwaysBuilds ==
  /\ BalancingPriceSmallest
  /\ \A d \in {crossDone} \ {<<>>} : \A plan \in {attempted(d[1])} :
       plan.ok => /\ d[2] = plan
                  /\ applyCross(d[1], plan.price, plan.fill) <=> ContractReads(d[1], plan)
                  /\ ShareOfUnit(plan, Takers(d[1].book, FALSE, plan.price, d[1].ref, d[1].rooExcluded))
===========================================================================
