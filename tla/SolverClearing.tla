-------------------------- MODULE SolverClearing --------------------------
(***************************************************************************)
(* How the solver turns the intents of one pair into a solution            *)
(* (solver/src/clearing.ts, solve.ts, math.ts).  A job is                  *)
(*                                                                         *)
(*   [intents, ref, venue, profile]                                        *)
(*                                                                         *)
(* where intents is a sequence of records [sellToken, buyToken,            *)
(* sellAmount, minBuyAmount, partialFill] between two tokens "base" and    *)
(* "quote", ref holds the oracle's unit prices and the session's band, and *)
(* venue is what the baseline adapter quotes at the block of the inputs.   *)
(*                                                                         *)
(* A pair price p is quote units per WAD base units; a unit price is USD   *)
(* per WAD units of a token.  Prices of fills are always unit prices.      *)
(***************************************************************************)
EXTENDS ClearingVerifier

CONSTANTS
  ClearingJobs,          \* bound
  SolverFeeBps           \* FEE_CAP_NOTIONAL_BPS

VARIABLE clearingDone    \* <<>> before, <<job, outcome>> after

smaller(x, y) == IF x < y THEN x ELSE y
ceilDiv(x, y) == (x + y - 1) \div y

---------------------------------------------------------------------------
(* Prices.                                                                 *)

baseUnitPrice(p, ref) == (p * ref.quotePrice) \div WAD
inBand(p, ref) == withinBand(baseUnitPrice(p, ref), ref.basePrice, ref.maxDeviationBps)
referencePairPrice(ref) == (ref.basePrice * WAD) \div ref.quotePrice

\* At most four steps out while the next price is in the band, or in until one is.
nudgeOut(x, step, ref) ==
  LET out(y) == IF y + step >= 0 /\ inBand(y + step, ref) THEN y + step ELSE y IN out(out(out(out(x))))
nudgeIn(x, step, ref) ==
  LET in(y) == IF inBand(y, ref) THEN y ELSE y + step IN in(in(in(in(x))))

\* The two edges, unless they cross or leave the band.
edgesWithin(lo, hi, ref) == IF lo > hi \/ ~inBand(lo, ref) \/ ~inBand(hi, ref) THEN <<>> ELSE <<lo, hi>>

\* The lowest and the highest pair price inside the band, <<>> for none.
bandEdges(ref) ==
  LET slack == (ref.basePrice * ref.maxDeviationBps) \div BPS
      lo0   == ceilDiv((ref.basePrice - slack) * WAD, ref.quotePrice)
      hi0   == ((ref.basePrice + slack + 1) * WAD - 1) \div ref.quotePrice
      lo    == nudgeIn(nudgeOut(lo0, -1, ref), 1, ref)
      hi    == nudgeIn(nudgeOut(hi0, 1, ref), -1, ref)
  IN  edgesWithin(lo, hi, ref)

sellsQuote(i) == i.sellToken = "quote"

\* ClearingVerifier.evaluateVolume.
acceptsAt(i, price) ==
  IF sellsQuote(i) THEN i.sellAmount * WAD >= i.minBuyAmount * price
                   ELSE i.minBuyAmount * WAD <= i.sellAmount * price

volumeAt(intents, price) ==
  LET legs(buy) == {k \in DOMAIN intents : sellsQuote(intents[k]) = buy /\ acceptsAt(intents[k], price)}
      d == SumFunctionOnSet([k \in DOMAIN intents |-> intents[k].minBuyAmount], legs(TRUE))
      s == SumFunctionOnSet([k \in DOMAIN intents |-> intents[k].sellAmount], legs(FALSE))
  IN  [executable |-> smaller(d, s), imbalance |-> IF d > s THEN d - s ELSE s - d, price |-> price]

apart(x, y) == IF x > y THEN x - y ELSE y - x

\* Mutant: the smaller imbalance comes before the larger volume.
betterBalanced(a, b, pRef) ==
  \/ a.imbalance < b.imbalance
  \/ a.imbalance = b.imbalance /\ a.executable > b.executable
  \/ a.imbalance = b.imbalance /\ a.executable = b.executable /\ apart(a.price, pRef) < apart(b.price, pRef)
  \/ /\ a.imbalance = b.imbalance /\ a.executable = b.executable
     /\ apart(a.price, pRef) = apart(b.price, pRef) /\ a.price < b.price

better(a, b, pRef) ==
  \/ a.executable > b.executable
  \/ a.executable = b.executable /\ a.imbalance < b.imbalance
  \/ a.executable = b.executable /\ a.imbalance = b.imbalance /\ apart(a.price, pRef) < apart(b.price, pRef)
  \/ /\ a.executable = b.executable /\ a.imbalance = b.imbalance
     /\ apart(a.price, pRef) = apart(b.price, pRef) /\ a.price < b.price

\* Every limit as a price.
limitPrices(intents) ==
  {(intents[k].sellAmount * WAD) \div intents[k].minBuyAmount :
     k \in {k \in DOMAIN intents : sellsQuote(intents[k]) /\ intents[k].minBuyAmount > 0}}
  \cup {ceilDiv(intents[k].minBuyAmount * WAD, intents[k].sellAmount) :
     k \in {k \in DOMAIN intents : ~sellsQuote(intents[k]) /\ intents[k].sellAmount > 0}}

NoClearing == [executable |-> 0, imbalance |-> 0, price |-> 0]

\* The best of the limits, the reference and the edges.
bestWithin(intents, ref, edges) ==
  LET tried == {p \in limitPrices(intents) \cup {referencePairPrice(ref), edges[1], edges[2]} :
                  p > 0 /\ edges[1] <= p /\ p <= edges[2] /\ inBand(p, ref)}
      outcomes == {volumeAt(intents, p) : p \in tried}
  IN  IF edges = <<>> \/ tried = {} THEN NoClearing
      ELSE CHOOSE c \in outcomes : \A o \in outcomes \ {c} : better(c, o, referencePairPrice(ref))
clear(intents, ref) == bestWithin(intents, ref, bandEdges(ref))

---------------------------------------------------------------------------
(* Fills at one price.  A candidate is [index, buys, size, partial,        *)
(* better]; an allotment is a function from indices to base units.         *)

Sizes(C) == SumFunction([c \in C |-> c.size])
Allotted(f) == SumFunction(f)
Indices(C) == {c.index : c \in C}
At(C, n) == CHOOSE c \in C : c.index = n

\* Two allotments side by side.
joined(f, g) == [n \in DOMAIN f \cup DOMAIN g |-> IF n \in DOMAIN f THEN f[n] ELSE g[n]]

Whole(C) == [n \in Indices(C) |-> At(C, n).size]

\* One after the other, with ahead[x] before x, each gets what it has room for
\* until nothing is left.
handOut(room, ahead, left) ==
  [x \in DOMAIN room |-> LET gone == SumFunctionOnSet(room, ahead[x])
                         IN  IF left <= gone THEN 0 ELSE smaller(room[x], left - gone)]

\* Partial intents pro rata, and the units flooring left over in index order.
shareOut(parts, rest) ==
  LET share == [c \in parts |-> smaller((c.size * rest) \div Sizes(parts), c.size)]
      room  == [c \in parts |-> c.size - share[c]]
      ahead == [c \in parts |-> {x \in parts : x.index < c.index}]
      more  == handOut(room, ahead, rest - SumFunction(share))
  IN  [n \in Indices(parts) |-> share[At(parts, n)] + more[At(parts, n)]]

\* Whole intents, the smallest first, up to their share of the capacity: after
\* one that does not fit, none does.
smallestUpTo(whole, c) == {x \in whole : x.size < c.size \/ (x.size = c.size /\ x.index <= c.index)}
takenWhole(whole, wholeShare) == {c \in whole : Sizes(smallestUpTo(whole, c)) <= wholeShare}
afterWhole(whole, parts, taken, cap) ==
  joined(joined(Whole(taken), [n \in Indices(whole \ taken) |-> 0]), shareOut(parts, cap - Sizes(taken)))

\* One tier that does not fit its capacity.
rationTier(tier, cap) ==
  LET whole == {c \in tier : ~c.partial}
  IN  afterWhole(whole, tier \ whole, takenWhole(whole, (cap * Sizes(whole)) \div Sizes(tier)), cap)

fitted(tier, cap) == IF Sizes(tier) <= cap THEN Whole(tier) ELSE rationTier(tier, cap)

secondTier(one, rest, capacity) == joined(one, fitted(rest, capacity - Allotted(one)))

\* Strictly better intents before those exactly at the price.
ration(side, capacity) ==
  secondTier(fitted({c \in side : c.better}, capacity), {c \in side : ~c.better}, capacity)

refused(i, sell, buy, sellPrice, buyPrice) ==
  \/ sell > i.sellAmount
  \/ sell # i.sellAmount /\ ~i.partialFill
  \/ buy = 0
  \/ ~limitRespected(buy, i.sellAmount, i.minBuyAmount, sell)
  \/ ~feeWithinBand(sell * sellPrice, buy * buyPrice, SolverFeeBps)

execution(i, c, a, qp, bp) ==
  LET sell == IF ~c.buys THEN a ELSE IF a = c.size THEN i.sellAmount ELSE ceilDiv(a * bp, qp)
      buy  == IF c.buys THEN a ELSE (a * bp) \div qp
  IN  IF a = 0 THEN [index |-> c.index, executedSell |-> 0, executedBuy |-> 0, bad |-> FALSE]
      ELSE [index |-> c.index, executedSell |-> sell, executedBuy |-> buy,
            bad |-> IF c.buys THEN refused(i, sell, buy, qp, bp) ELSE refused(i, sell, buy, bp, qp)]

\* The short side in full, the long side rationed to it.
allotments(buyers, sellers, venueBase) ==
  IF Sizes(buyers) > Sizes(sellers)
  THEN joined(Whole(sellers), ration(buyers, Sizes(sellers) + venueBase))
  ELSE joined(Whole(buyers), ration(sellers, Sizes(buyers) + venueBase))

fillsFor(intents, live, qp, bp, venueBase) ==
  LET allot == allotments({c \in live : c.buys}, {c \in live : ~c.buys}, venueBase)
  IN  {execution(intents[c.index], c, allot[c.index], qp, bp) : c \in live}

candidates(intents, price, qp, bp) ==
  LET all == {[index |-> k, buys |-> sellsQuote(intents[k]), partial |-> intents[k].partialFill,
               size |-> IF sellsQuote(intents[k]) THEN (intents[k].sellAmount * qp) \div bp ELSE intents[k].sellAmount,
               better |-> IF sellsQuote(intents[k])
                          THEN intents[k].sellAmount * WAD # intents[k].minBuyAmount * price
                          ELSE intents[k].minBuyAmount * WAD # intents[k].sellAmount * price] :
                k \in {k \in DOMAIN intents : acceptsAt(intents[k], price)}}
  IN  {c \in all : c.size > 0}

\* Each pass takes out the first intent whose fill the verifier would refuse.
withoutRefused(intents, live, qp, bp, venueBase) ==
  LET bad == {f.index : f \in {f \in fillsFor(intents, live, qp, bp, venueBase) : f.bad}}
  IN  IF bad = {} THEN live ELSE {c \in live : c.index # Min(bad)}

allocateAt(intents, price, qp, bp, venueBase) ==
  LET live[n \in 0..Len(intents)] ==
        IF n = 0 THEN candidates(intents, price, qp, bp)
        ELSE withoutRefused(intents, live[n - 1], qp, bp, venueBase)
  IN  {f \in fillsFor(intents, live[Len(intents)], qp, bp, venueBase) : f.executedSell > 0}
allocate(intents, price, ref, venueBase) ==
  LET bp == baseUnitPrice(price, ref)
  IN  IF bp = 0 THEN {} ELSE allocateAt(intents, price, ref.quotePrice, bp, venueBase)

---------------------------------------------------------------------------
(* The venue, and what is left for it.                                     *)

\* quoteFromState at one block: -1 where the adapter reverts.
venueQuote(venue, tokenIn, amount) ==
  IF amount > venue[tokenIn].depth THEN -1 ELSE (amount * venue[tokenIn].num) \div venue[tokenIn].den

Other(token) == IF token = "quote" THEN "base" ELSE "quote"
SoldIn(intents, fills, token) ==
  SumFunction([f \in {f \in fills : intents[f.index].sellToken = token} |-> f.executedSell])
BoughtIn(intents, fills, token) ==
  SumFunction([f \in {f \in fills : intents[f.index].buyToken = token} |-> f.executedBuy])

residual(intents, fills, token) == SoldIn(intents, fills, token) - BoughtIn(intents, fills, token)

\* The token in surplus goes to the venue for at least what the other lacks.
\* <<>> is no call needed, NoCall is no call possible.
NoCall == [tokenIn |-> "none", tokenOut |-> "none", amountIn |-> 0, minOut |-> 0]

route(intents, fills, venue) ==
  LET r(token)  == residual(intents, fills, token)
      tokenIn   == IF r("quote") < 0 THEN "base" ELSE "quote"
      out       == venueQuote(venue, tokenIn, r(tokenIn))
  IN  IF r("base") >= 0 /\ r("quote") >= 0 THEN <<>>
      ELSE IF r("base") < 0 /\ r("quote") < 0 THEN <<NoCall>>
      ELSE IF out < -r(Other(tokenIn)) THEN <<NoCall>>
      ELSE <<[tokenIn |-> tokenIn, tokenOut |-> Other(tokenIn), amountIn |-> r(tokenIn), minOut |-> out]>>

\* The shortfall goes to the fills with the most room, <<>> when there is none.
\* Only fills that get no less than their baseline come here.
raiseToFloor(fills, baselines, floor) ==
  LET room  == [f \in fills |-> f.executedBuy - baselines[f.index]]
      ahead == [f \in fills |-> {g \in fills : room[g] > room[f] \/ (room[g] = room[f] /\ g.index < f.index)}]
      lacking == floor - SumFunction([f \in fills |-> baselines[f.index]])
      more  == handOut(room, ahead, lacking)
  IN  IF SumFunction(more) < lacking THEN <<>>
      ELSE [n \in Indices(fills) |-> baselines[n] + more[At(fills, n)]]

Skipped == [mode |-> "skipped", fills |-> {}, baselines |-> <<>>, basePrice |-> 0, venueCalls |-> <<>>]

\* A division by zero: solve throws and there is no plan.
Thrown == [Skipped EXCEPT !.mode = "thrown"]

---------------------------------------------------------------------------
(* solve.ts.                                                               *)

\* Each fill on its own at the venue.
venueAlone(intents, venue, fills) ==
  [n \in Indices(fills) |-> venueQuote(venue, intents[n].sellToken, At(fills, n).executedSell)]

\* A direction's baselines raised to the venue's quote on its whole volume.
liftedToward(intents, fills, alone, token, floor) ==
  LET toward == {f \in fills : intents[f.index].sellToken = token}
  IN  IF floor = -1 THEN <<>> ELSE raiseToFloor(toward, alone, floor)
lift(intents, venue, fills, alone) ==
  [token \in {intents[f.index].sellToken : f \in fills} |->
     liftedToward(intents, fills, alone, token, venueQuote(venue, token, SoldIn(intents, fills, token)))]

nettedWith(intents, fills, basePrice, lifted, calls) ==
  IF (\E token \in DOMAIN lifted : lifted[token] = <<>>) \/ calls = <<NoCall>> THEN Skipped
  ELSE [mode |-> "netted", fills |-> fills, basePrice |-> basePrice, venueCalls |-> calls,
        baselines |-> [n \in Indices(fills) |-> lifted[intents[n].sellToken][n]]]

\* Kept only when every fill beats the venue on its own, both directions reach
\* the venue's floor and the venue returns what the residual needs.
netted(intents, venue, basePrice, fills, alone) ==
  IF \E f \in fills : alone[f.index] = -1 \/ f.executedBuy < alone[f.index] THEN Skipped
  ELSE nettedWith(intents, fills, basePrice, lift(intents, venue, fills, alone), route(intents, fills, venue))

nettedFills(intents, venue, basePrice, fills) ==
  IF fills = {} THEN Skipped ELSE netted(intents, venue, basePrice, fills, venueAlone(intents, venue, fills))
nettedAt(intents, ref, venue, c) ==
  IF c.executable = 0 THEN Skipped
  ELSE nettedFills(intents, venue, baseUnitPrice(c.price, ref), allocate(intents, c.price, ref, 0))
tryNetted(intents, ref, venue) == nettedAt(intents, ref, venue, clear(intents, ref))

\* The last intent takes what the others' floors left.
TotalSell(intents, side) == SumFunction([n \in side |-> intents[n].sellAmount])
routedFills(intents, side, out) ==
  LET part == [n \in side |-> (out * intents[n].sellAmount) \div TotalSell(intents, side)]
  IN  {[index |-> n, executedSell |-> intents[n].sellAmount, bad |-> FALSE,
        executedBuy |-> IF n = Max(side) THEN out - SumFunctionOnSet(part, side \ {n}) ELSE part[n]] : n \in side}

impliedPrice(fills, buying, qp) ==
  IF buying THEN Min({(f.executedSell * qp) \div f.executedBuy : f \in fills})
            ELSE Max({ceilDiv(f.executedBuy * qp, f.executedSell) : f \in fills})

uniformAt(intents, f, qp, bp) ==
  IF sellsQuote(intents[f.index]) THEN feeWithinBand(f.executedSell * qp, f.executedBuy * bp, SolverFeeBps)
                                  ELSE feeWithinBand(f.executedSell * bp, f.executedBuy * qp, SolverFeeBps)

brokenIn(intents, fills) ==
  {f.index : f \in {f \in fills :
     \/ f.executedBuy = 0
     \/ ~limitRespected(f.executedBuy, intents[f.index].sellAmount, intents[f.index].minBuyAmount, f.executedSell)}}

routedAt(intents, ref, fills, price, call) ==
  IF \/ ~withinBand(price, ref.basePrice, ref.maxDeviationBps)
     \/ \E f \in fills : ~uniformAt(intents, f, ref.quotePrice, price)
  THEN Skipped
  ELSE [mode |-> "routed", fills |-> fills, basePrice |-> price, venueCalls |-> <<call>>,
        baselines |-> [n \in Indices(fills) |-> At(fills, n).executedBuy]]

\* One side in one venue call; an intent whose limit the venue breaks leaves and
\* the rest is quoted again.  Intents over nothing make the shares, or the price
\* of what is sold, divide by zero.
routeSide(intents, ref, venue, all, tokenIn) ==
  LET try[side \in SUBSET all] ==
        LET total  == TotalSell(intents, side)
            out    == venueQuote(venue, tokenIn, total)
            fills  == routedFills(intents, side, out)
            broken == brokenIn(intents, fills)
        IN  IF side = {} \/ out = -1 THEN Skipped
            ELSE IF total = 0 /\ side # {Max(side)} THEN Thrown
            ELSE IF broken # {} THEN try[side \ {Min(broken)}]
            ELSE IF tokenIn = "base" /\ \E f \in fills : f.executedSell = 0 THEN Thrown
            ELSE routedAt(intents, ref, fills, impliedPrice(fills, tokenIn = "quote", ref.quotePrice),
                          [tokenIn |-> tokenIn, tokenOut |-> Other(tokenIn), amountIn |-> total, minOut |-> out])
  IN  try[all]

\* The larger side in USD, the buyers on a tie.
tryRouted(intents, entries, ref, venue) ==
  LET on(buy) == {n \in entries : sellsQuote(intents[n]) = buy}
      usd(S, price) == SumFunction([n \in S |-> (intents[n].sellAmount * price) \div WAD])
      buying == usd(on(TRUE), ref.quotePrice) >= usd(on(FALSE), ref.basePrice)
  IN  routeSide(intents, ref, venue, on(buying), IF buying THEN "quote" ELSE "base")

\* Both directions at the buyers' price if it fits both, else the larger one.
bothDirections(intents, ref, buy, sell) ==
  IF \E f \in buy.fills \cup sell.fills : ~uniformAt(intents, f, ref.quotePrice, buy.basePrice)
  THEN IF buy.venueCalls[1].amountIn * ref.quotePrice >= sell.venueCalls[1].amountIn * ref.basePrice
       THEN buy ELSE sell
  ELSE [mode |-> "routed", fills |-> buy.fills \cup sell.fills, basePrice |-> buy.basePrice,
        baselines |-> joined(buy.baselines, sell.baselines), venueCalls |-> buy.venueCalls \o sell.venueCalls]

routedSides(intents, ref, buy, sell) ==
  IF "thrown" \in {buy.mode, sell.mode} THEN Thrown
  ELSE IF sell.mode = "skipped" THEN buy
  ELSE IF buy.mode = "skipped" THEN sell ELSE bothDirections(intents, ref, buy, sell)

\* Profile b: each direction on its own.
routeEverything(intents, ref, venue) ==
  LET side(buy) == tryRouted(intents, {n \in DOMAIN intents : sellsQuote(intents[n]) = buy}, ref, venue)
  IN  routedSides(intents, ref, side(TRUE), side(FALSE))

\* Netted where that works, else routed.
nettedOrRouted(j, netting) ==
  IF netting.mode = "netted" THEN netting ELSE tryRouted(j.intents, DOMAIN j.intents, j.ref, j.venue)
solved(j) ==
  IF j.profile = "b" THEN routeEverything(j.intents, j.ref, j.venue)
  ELSE nettedOrRouted(j, tryNetted(j.intents, j.ref, j.venue))

\* The solution as Settlement and the verifier read it, its executions named by
\* the places of their intents; orderTokens names a token once.
assemble(j, o) ==
  [prices     |-> [token \in {"quote", "base"} |-> IF token = "quote" THEN j.ref.quotePrice ELSE o.basePrice],
   repeats    |-> <<>>,
   executions |-> [n \in Indices(o.fills) |->
                    [intent |-> j.intents[n], baseline |-> o.baselines[n],
                     executedSell |-> At(o.fills, n).executedSell, executedBuy |-> At(o.fills, n).executedBuy]],
   venueCalls |-> o.venueCalls]

\* What the chain and the adapter let through: two oracle prices, a band narrower
\* than the price, intents between the two tokens, quotes that are amounts.
ASSUME ClearingAssumption ==
  /\ SolverFeeBps \in Nat
  /\ \A j \in ClearingJobs :
       /\ j.ref.quotePrice \in Nat \ {0} /\ j.ref.basePrice \in Nat /\ j.ref.maxDeviationBps \in 0..BPS
       /\ j.intents \in Seq({j.intents[k] : k \in DOMAIN j.intents})
       /\ \A k \in DOMAIN j.intents :
            /\ j.intents[k].sellAmount \in Nat /\ j.intents[k].minBuyAmount \in Nat
            /\ {j.intents[k].sellToken, j.intents[k].buyToken} = {"quote", "base"}
       /\ \A token \in {"quote", "base"} :
            /\ j.venue[token].depth \in Nat /\ j.venue[token].num \in Nat
            /\ j.venue[token].den \in Nat \ {0}

ClearingInit == clearingDone = <<>>
solve == clearingDone = <<>> /\ \E j \in ClearingJobs : clearingDone' = <<j, solved(j)>>
ClearingSpec == ClearingInit /\ [][solve]_clearingDone

---------------------------------------------------------------------------
(* Properties.                                                             *)

\* The edges are those of the band: every pair price up to the highest one that
\* can matter is in the band exactly when it lies between them.
BandEdgesExact ==
  \A d \in {clearingDone} \ {<<>>} :
    LET ref   == d[1].ref
        edges == bandEdges(ref)
        top   == (2 * ref.basePrice * WAD) \div ref.quotePrice + WAD
    IN  {p \in 0..top : inBand(p, ref)} = IF edges = <<>> THEN {} ELSE edges[1]..edges[2]

\* No price of the band executes more than the one clear chooses.
VolumeMaximal ==
  \A d \in {clearingDone} \ {<<>>} :
    LET j     == d[1]
        edges == bandEdges(j.ref)
    IN  edges # <<>> => \A p \in edges[1]..edges[2] :
          p > 0 => volumeAt(j.intents, p).executable <= clear(j.intents, j.ref).executable

\* What solve hands over the contract takes: the verifier verifies it, each
\* direction's baselines reach the venue's quote on the direction's whole
\* volume, and each venue call asks for no more than the venue gives.  Netting
\* with partial fills, rounding and a residual, routing and the two directions
\* of profile b included (clear, allocate, tryNetted, tryRouted,
\* routeEverything).
PlansVerify ==
  \A d \in {clearingDone} \ {<<>>} :
    LET j == d[1]
        o == d[2]
        s == assemble(j, o)
        oracle == [token \in {"quote", "base"} |-> IF token = "quote" THEN j.ref.quotePrice ELSE j.ref.basePrice]
  IN  o.mode \notin {"skipped", "thrown"} =>
          /\ Verifies(s, oracle, j.ref.maxDeviationBps, SolverFeeBps)
          /\ \A token \in {j.intents[f.index].sellToken : f \in o.fills} :
               SumFunction([f \in {f \in o.fills : j.intents[f.index].sellToken = token} |-> o.baselines[f.index]])
                 >= venueQuote(j.venue, token, SoldIn(j.intents, o.fills, token))
          /\ \A k \in DOMAIN o.venueCalls :
               o.venueCalls[k].minOut <= venueQuote(j.venue, o.venueCalls[k].tokenIn, o.venueCalls[k].amountIn)

Rationed(long, cap, a) ==
  /\ Allotted(a) <= cap
  /\ \A x \in long : a[x.index] <= x.size /\ (a[x.index] \in {0, x.size} \/ x.partial)
  /\ Allotted(a) < cap => \A x \in long : x.partial => a[x.index] = x.size
LongSideRationed(all, buyers) ==
  LET long == IF Sizes(buyers) > Sizes(all \ buyers) THEN buyers ELSE all \ buyers
  IN  Rationed(long, Sizes(all \ long), ration(long, Sizes(all \ long)))

\* In each tier no intent gets more than its size, an intent that may not be
\* filled in part gets all or nothing, and partial fills use up what the
\* capacity leaves them.
RationExact ==
  \A d \in {clearingDone} \ {<<>>} : \A c \in {clear(d[1].intents, d[1].ref)} :
    \A all \in {IF baseUnitPrice(c.price, d[1].ref) = 0 THEN {}
                ELSE candidates(d[1].intents, c.price, d[1].ref.quotePrice, baseUnitPrice(c.price, d[1].ref))} :
      LongSideRationed(all, {x \in all : x.buys})

\* The price clear chooses among the limits, the reference and the band's edges
\* is the best of the whole band (Lemma 2 of the clearing design, bandEdges
\* whose "closed forms are exact"), and the side that is too long is rationed
\* without loss (ration).
ClearingBest == BandEdgesExact /\ VolumeMaximal /\ RationExact

\* A plan is the best the rules allow and one the contract takes (solve).
ClearingHolds == ClearingBest /\ PlansVerify
===========================================================================
