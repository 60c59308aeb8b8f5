---------------------------- MODULE VenueQuote ----------------------------
(***************************************************************************)
(* The venue's quote recomputed off chain (solver/src/v3math.ts), with the *)
(* pool's reads of v3pool.ts.  The scales of the libraries are constants   *)
(* so that wrapping, rounding and word boundaries are met on small         *)
(* numbers: Q96 is QuoteQ, a word of the bitmap has QuoteWord bits, 256    *)
(* bit arithmetic wraps at QuoteWrap.  A job is                            *)
(*                                                                         *)
(*   [sqrtPrice, tick, fee, spacing, liquidity, net, zeroForOne, amountIn] *)
(*                                                                         *)
(* where net is liquidityNet on the initialized ticks.                     *)
(***************************************************************************)
EXTENDS Integers, FiniteSets, FiniteSetsExt, SequencesExt

CONSTANTS
  QuoteJobs,                \* bound
  TickPrice,                \* getSqrtPriceAtTick, a function on the ticks
  QuoteQ, QuoteWord, QuoteWrap, QuoteFeeUnit,
  MaxTickCrossings, MaxLoopSteps

\* The table of factors is left to the tests; what the quote needs of it is
\* that a higher tick has a higher price.
ASSUME TickPriceAssumption ==
  \A s, t \in DOMAIN TickPrice : s < t => TickPrice[s] < TickPrice[t]

\* Initialized ticks are multiples of the spacing.
ASSUME QuoteAssumption ==
  /\ QuoteWord \in Nat \ {0}
  /\ \A j \in QuoteJobs :
       /\ j.tick \in Int /\ j.spacing \in Nat \ {0} /\ j.zeroForOne \in BOOLEAN
       /\ \A t \in DOMAIN j.net : t \in Int /\ t % j.spacing = 0

VARIABLE quoteDone

roundingUp(x, d) == (x + d - 1) \div d

\* Binary search for the greatest tick whose price does not exceed the input.
getTickAtSqrtPrice(p) ==
  LET ticks == DOMAIN TickPrice
      search[w \in ticks \X ticks] ==
        LET mid == (w[1] + w[2] + 1) \div 2
        IN  IF w[1] >= w[2] THEN w[1]
            ELSE IF TickPrice[mid] <= p THEN search[<<mid, w[2]>>] ELSE search[<<w[1], mid - 1>>]
  IN  search[<<Min(ticks), Max(ticks) - 1>>]

getAmount0Delta(x, y, liquidity, up) ==
  LET a == IF x < y THEN x ELSE y
      b == IF x < y THEN y ELSE x
      n == liquidity * QuoteQ * (b - a)
  IN  IF up THEN roundingUp(roundingUp(n, b), a) ELSE (n \div b) \div a

getAmount1Delta(x, y, liquidity, up) ==
  LET n == liquidity * (IF x < y THEN y - x ELSE x - y)
  IN  IF up THEN roundingUp(n, QuoteQ) ELSE n \div QuoteQ

\* The product wraps, and the wrap is what sends it down the fallback.
nextFromAmount0RoundingUp(p, liquidity, amount) ==
  LET numerator   == liquidity * QuoteQ
      product     == (amount * p) % QuoteWrap
      denominator == (numerator + product) % QuoteWrap
  IN  IF amount = 0 THEN p
      ELSE IF product \div amount = p /\ denominator >= numerator
      THEN roundingUp(numerator * p, denominator)
      ELSE roundingUp(numerator, numerator \div p + amount)

nextFromAmount1RoundingDown(p, liquidity, amount) == p + (amount * QuoteQ) \div liquidity

\* Exact input: the step ends at the target or uses up what remains.
computeSwapStepExactIn(current, target, liquidity, remaining, fee) ==
  LET zeroForOne == current >= target
      delta(x, y, in, up) == IF in = zeroForOne THEN getAmount0Delta(x, y, liquidity, up)
                                                ELSE getAmount1Delta(x, y, liquidity, up)
      lessFee == (remaining * (QuoteFeeUnit - fee)) \div QuoteFeeUnit
      whole   == delta(current, target, TRUE, TRUE)
      next    == IF lessFee >= whole THEN target
                 ELSE IF zeroForOne THEN nextFromAmount0RoundingUp(current, liquidity, lessFee)
                                    ELSE nextFromAmount1RoundingDown(current, liquidity, lessFee)
  IN  [next |-> next, out |-> delta(current, next, FALSE, FALSE),
       paid |-> IF lessFee >= whole THEN whole + roundingUp(whole * fee, QuoteFeeUnit - fee) ELSE remaining]

\* Division that rounds toward zero.
tdiv(a, b) == IF a >= 0 THEN a \div b ELSE -((-a) \div b)

\* Mutant: negative ticks are compressed toward zero.
compressTruncated(tick, spacing) == tdiv(tick, spacing)
compress(tick, spacing) ==
  IF tick < 0 /\ tick % spacing # 0 THEN tdiv(tick, spacing) - 1 ELSE tdiv(tick, spacing)

\* The next initialized tick inside the word, or the end of the word.
nextInitializedTick(net, tick, spacing, lte) ==
  LET at     == compress(tick, spacing) + (IF lte THEN 0 ELSE 1)
      bitPos == at % QuoteWord
      word   == {(t \div spacing) % QuoteWord :
                   t \in {t \in DOMAIN net : (t \div spacing) \div QuoteWord = at \div QuoteWord}}
      masked == {b \in word : IF lte THEN b <= bitPos ELSE b >= bitPos}
      end    == IF lte THEN 0 ELSE QuoteWord - 1
      bit    == IF masked = {} THEN end ELSE IF lte THEN Max(masked) ELSE Min(masked)
  IN  [next |-> (at + bit - bitPos) * spacing, initialized |-> masked # {}]

\* The pool after one step, its tick crossed or not.  An error ends the loop
\* with the contract's name for it.
afterStep(j, s, to, step, reached) ==
  LET crossed   == reached /\ to.initialized
      liquidity == IF crossed THEN s.liquidity + (IF j.zeroForOne THEN -j.net[to.next] ELSE j.net[to.next])
                   ELSE s.liquidity
  IN  [sqrtPrice |-> step.next, liquidity |-> liquidity,
       tick      |-> IF ~reached THEN getTickAtSqrtPrice(step.next)
                     ELSE IF j.zeroForOne THEN to.next - 1 ELSE to.next,
       remaining |-> s.remaining - step.paid, out |-> s.out + step.out,
       crossings |-> IF crossed THEN s.crossings + 1 ELSE s.crossings,
       error     |-> IF crossed /\ s.crossings + 1 > MaxTickCrossings THEN "TooManyTickCrossings"
                     ELSE IF crossed /\ liquidity = 0 THEN "LiquidityExhausted" ELSE "none"]
swapStep(j, s, to, step) == afterStep(j, s, to, step, step.next = TickPrice[to.next])

\* One turn of the loop.
stepTo(j, s, to) ==
  IF to.next \notin DOMAIN TickPrice THEN [s EXCEPT !.error = "InvalidTick"]
  ELSE swapStep(j, s, to, computeSwapStepExactIn(s.sqrtPrice, TickPrice[to.next], s.liquidity, s.remaining, j.fee))
quoteStep(j, s) == stepTo(j, s, nextInitializedTick(j.net, s.tick, j.spacing, j.zeroForOne))

finished(end) ==
  IF end.error = "none" /\ end.remaining # 0 THEN [end EXCEPT !.error = "LiquidityExhausted"] ELSE end
quoteExactIn(j) ==
  LET start == [sqrtPrice |-> j.sqrtPrice, liquidity |-> j.liquidity, tick |-> j.tick,
                remaining |-> j.amountIn, out |-> 0, crossings |-> 0, error |-> "none"]
      turn(s, n) == IF s.error # "none" \/ s.remaining <= 0 THEN s ELSE quoteStep(j, s)
  IN  finished(FoldLeft(turn, start, [n \in 1..MaxLoopSteps |-> n]))

QuoteInit == quoteDone = <<>>
quoteWithStats == quoteDone = <<>> /\ \E j \in QuoteJobs : quoteDone' = <<j, quoteExactIn(j)>>
QuoteSpec == QuoteInit /\ [][quoteWithStats]_quoteDone

---------------------------------------------------------------------------
(* Properties.                                                             *)

\* The word search finds what a search of all ticks finds: no initialized tick lies between the tick and the
\* next one named, which is initialized exactly when it is said to be.
NoTickSkipped ==
  \A d \in {quoteDone} \ {<<>>} :
    LET j  == d[1]
        to == nextInitializedTick(j.net, j.tick, j.spacing, j.zeroForOne)
        passed == IF j.zeroForOne THEN {t \in DOMAIN j.net : to.next < t /\ t <= j.tick}
                                  ELSE {t \in DOMAIN j.net : j.tick < t /\ t < to.next}
    IN  /\ passed = {}
        /\ to.initialized = (to.next \in DOMAIN j.net)
        /\ IF j.zeroForOne THEN to.next <= j.tick ELSE to.next > j.tick

\* A quote uses up exactly what was put in, no tick of the pool is passed over,
\* on negative ticks and at word ends too, and selling back what came out, in
\* the pool the quote leaves behind, never returns more: every rounding, the
\* wrapped branch and the tick crossings go against the trader
\* (nextInitializedTick, computeSwapStepExactIn, nextFromAmount0RoundingUp,
\* quoteExactIn).
RoundTripNeverProfits ==
  /\ NoTickSkipped
  /\ \A d \in {quoteDone} \ {<<>>} :
       LET j   == d[1]
           end == d[2]
           returned == [j EXCEPT !.sqrtPrice = end.sqrtPrice, !.tick = end.tick, !.liquidity = end.liquidity,
                                 !.zeroForOne = ~j.zeroForOne, !.amountIn = end.out]
       IN  end.error = "none" => /\ end.remaining = 0
                                 /\ \A back \in {quoteExactIn(returned)} : back.error = "none" => back.out <= j.amountIn
===========================================================================
