------------------------------ MODULE Preflight ------------------------------
(***************************************************************************)
(* The checks a solver makes before it commits (preflight of simulate.ts   *)
(* with math.ts) against what Settlement makes of them at finalize         *)
(* (_chargeExposure and _settleFees).  A batch of the solver is asked      *)
(* about once and then won; until it is finalized other batches, its own   *)
(* and those of other solvers, are charged against the same caps, the      *)
(* governor moves the caps and the pool may give more than was asked.      *)
(* Hearing, submitting and recovering are SolverService's.                 *)
(***************************************************************************)
EXTENDS ClearingMath, FiniteSets, Sequences, FiniteSetsExt, SequencesExt

CONSTANTS
  PreflightJobs,    \* sequences of plans: [collectEnd, halved, fills, price, routes]
  PlanTokens,
  CapSettings,      \* [batch, token, global]: what a governor may set
  OtherCharges,     \* [token, usd, again]: batches of other solvers, and what
                    \* naming the token again charges it once more
  VenueExtras,      \* what the pool gives above minOut
  DayLength, PlanWindow, PlanDeadline, PreflightHorizon,
  ShareOfFee, ShareOfNotional   \* FEE_CAP_SHARE_BPS, FEE_CAP_NOTIONAL_BPS

\* What of a solution the checks look at.
PlanRecords ==
  [collectEnd : Nat, halved : BOOLEAN, price : [PlanTokens -> Nat],
   fills : Seq([sellToken : PlanTokens, executedSell : Nat, buyToken : PlanTokens, executedBuy : Nat, baseline : Nat]),
   routes : Seq([tokenIn : PlanTokens, tokenOut : PlanTokens, amountIn : Nat, minOut : Nat])]

ASSUME PreflightAssumption ==
  /\ {DayLength, PlanWindow, PlanDeadline, PreflightHorizon, ShareOfFee, ShareOfNotional} \subseteq Nat
  /\ DayLength > 0 /\ ShareOfFee <= BPS /\ VenueExtras \subseteq Nat /\ IsFiniteSet(PlanTokens)
  /\ \A job \in PreflightJobs : job \in Seq(PlanRecords)
  /\ CapSettings \subseteq [batch : Nat, token : Nat, global : Nat]
  /\ OtherCharges \subseteq [token : PlanTokens, usd : Nat, again : Nat]

VARIABLES
  plans,                  \* this behaviour's
  chainSecond,
  exposureCaps,           \* capPerBatchUsd, capPerTokenDailyUsd, capGlobalDailyUsd
  todayTotal,             \* Settlement.today: [index, global]
  perTokenOnDay,
  planState,              \* per plan: "closed", "refused", "won", "reverted", "finalized", "given up"
  triedAt,                \* the block of the last attempt
  capsRaised, capsLowered, chargedOn,  \* history since each plan was asked about
  reverts                 \* history: [plan, day, extra, lowered, charged]

settled == <<todayTotal, perTokenOnDay>>
askedOf == <<planState, triedAt>>
sinceAsked == <<capsRaised, capsLowered, chargedOn>>
preflightVars == <<plans, chainSecond, exposureCaps, settled, askedOf, sinceAsked, reverts>>

PlanIds == DOMAIN plans
Days == 0..(PreflightHorizon \div DayLength)
dayOf(second) == second \div DayLength
solveEndOf(p) == p.collectEnd + PlanWindow

PreflightInit ==
  /\ plans \in PreflightJobs /\ chainSecond = 0
  /\ exposureCaps \in CapSettings
  /\ todayTotal = [index |-> 0, global |-> 0]
  /\ perTokenOnDay = [d \in Days |-> [t \in PlanTokens |-> 0]]
  /\ planState = [b \in PlanIds |-> "closed"] /\ triedAt = [b \in PlanIds |-> 0]
  /\ capsRaised = [b \in PlanIds |-> FALSE] /\ capsLowered = [b \in PlanIds |-> FALSE]
  /\ chargedOn = [b \in PlanIds |-> {}] /\ reverts = {}

---------------------------------------------------------------------------
(* The solver's side, math.ts.                                             *)

\* Per token: what the fills pull and deliver, and what the routes credit less what they sell.
pulledOf(p, t) ==
  SumFunctionOnSet([k \in DOMAIN p.fills |-> p.fills[k].executedSell], {k \in DOMAIN p.fills : p.fills[k].sellToken = t})
deliveredOf(p, t) ==
  SumFunctionOnSet([k \in DOMAIN p.fills |-> p.fills[k].executedBuy], {k \in DOMAIN p.fills : p.fills[k].buyToken = t})
routedDelta(p, t) ==
  SumFunctionOnSet([r \in DOMAIN p.routes |-> (IF p.routes[r].tokenOut = t THEN p.routes[r].minOut ELSE 0)
                                              - (IF p.routes[r].tokenIn = t THEN p.routes[r].amountIn ELSE 0)], DOMAIN p.routes)

conservation(p, t) == conserved(pulledOf(p, t), routedDelta(p, t), deliveredOf(p, t))

\* Floored per execution, never once over the total.
claimedSavings(p) ==
  SumFunctionOnSet([k \in DOMAIN p.fills |-> quoteOf(p.fills[k].executedBuy - p.fills[k].baseline, p.price[p.fills[k].buyToken])],
                   DOMAIN p.fills)

\* Each execution counts for the total and for the token it sells.
exposureNotional(p) ==
  LET usd == [k \in DOMAIN p.fills |-> quoteOf(p.fills[k].executedSell, p.price[p.fills[k].sellToken])]
  IN  [notionalUsd |-> SumFunctionOnSet(usd, DOMAIN p.fills),
       perToken    |-> [t \in PlanTokens |-> SumFunctionOnSet(usd, {k \in DOMAIN p.fills : p.fills[k].sellToken = t})]]

\* Weekend, holiday and protective sessions halve every cap.
capScale(p) == IF p.halved THEN 1 ELSE 2

\* Mutant: the stored total is taken for that of the day.
globalOnAnyDay(day) == todayTotal.global

globalOn(day) == IF todayTotal.index = day THEN todayTotal.global ELSE 0

\* What is stored, read for the day finalize is expected on.
exposureState(p, finalizeAt) ==
  [globalToday |-> globalOn(dayOf(finalizeAt)), perTokenToday |-> perTokenOnDay[dayOf(finalizeAt)]]

exposureViolations(p, state) ==
  LET exposure == exposureNotional(p)
      half(cap) == (cap * capScale(p)) \div 2
  IN  {v \in {"batch", "global", "token"} :
         \/ v = "batch" /\ exposure.notionalUsd > half(exposureCaps.batch)
         \/ v = "global" /\ state.globalToday + exposure.notionalUsd > half(exposureCaps.global)
         \/ v = "token" /\ \E t \in PlanTokens : state.perTokenToday[t] + exposure.perToken[t] > half(exposureCaps.token)}

\* minOut stands in for what the venue returns.
feeCheck(p) ==
  LET withheldUsd == SumFunctionOnSet([t \in PlanTokens |-> IF conservation(p, t) > 0 THEN quoteOf(conservation(p, t), p.price[t]) ELSE 0],
                                      PlanTokens)
  IN  withheldUsd <= feeCap(claimedSavings(p) + withheldUsd, exposureNotional(p).notionalUsd, ShareOfFee, ShareOfNotional)

preflight(p) == exposureViolations(p, exposureState(p, solveEndOf(p) + 1)) = {} /\ feeCheck(p)

---------------------------------------------------------------------------
(* The contract's side, Settlement.sol.                                    *)

tokenNotional(p, token) ==
  SumFunctionOnSet([k \in DOMAIN p.fills |->
                      IF p.fills[k].sellToken = token THEN (p.fills[k].executedSell * p.price[token]) \div WAD ELSE 0],
                   DOMAIN p.fills)

notionalUsd(p) ==
  SumFunctionOnSet([k \in DOMAIN p.fills |-> (p.fills[k].executedSell * p.price[p.fills[k].sellToken]) \div WAD], DOMAIN p.fills)

\* today, rolled to the day of the charge.
rolled(day) == IF todayTotal.index # day THEN [index |-> day, global |-> 0] ELSE todayTotal

\* Whether a charge of usd, split by token, passes; a reverted charge leaves no trace.
chargePasses(usd, byToken, scale, day) ==
  /\ usd <= (exposureCaps.batch * scale) \div 2
  /\ rolled(day).global + usd <= (exposureCaps.global * scale) \div 2
  /\ \A t \in PlanTokens : perTokenOnDay[day][t] + byToken[t] <= (exposureCaps.token * scale) \div 2

chargeExposure(usd, byToken, scale, day) ==
  /\ chargePasses(usd, byToken, scale, day)
  /\ todayTotal' = [rolled(day) EXCEPT !.global = @ + usd]
  /\ perTokenOnDay' = [perTokenOnDay EXCEPT ![day] = [t \in PlanTokens |-> @[t] + byToken[t]]]
  /\ chargedOn' = [b \in PlanIds |-> IF planState[b] = "closed" THEN {} ELSE chargedOn[b] \cup {day}]

\* What is left in the contract of each token when the fills are delivered.
withheld(p, t, extra) ==
  LET sold   == SumFunctionOnSet([r \in DOMAIN p.routes |-> p.routes[r].amountIn], {r \in DOMAIN p.routes : p.routes[r].tokenIn = t})
      bought == SumFunctionOnSet([r \in DOMAIN p.routes |-> p.routes[r].minOut + extra],
                                 {r \in DOMAIN p.routes : p.routes[r].tokenOut = t})
      left   == pulledOf(p, t) - sold + bought - deliveredOf(p, t)
  IN  IF left > 0 THEN left ELSE 0

feesPass(p, extra) ==
  LET usd == SumFunctionOnSet([t \in PlanTokens |-> (withheld(p, t, extra) * p.price[t]) \div WAD], PlanTokens)
  IN  usd <= feeCap(claimedSavings(p) + usd, notionalUsd(p), ShareOfFee, ShareOfNotional)

planCharge(p) == [t \in PlanTokens |-> tokenNotional(p, t)]
finalizePasses(p, extra, day) == chargePasses(notionalUsd(p), planCharge(p), capScale(p), day) /\ feesPass(p, extra)

---------------------------------------------------------------------------
(* Steps.                                                                  *)

\* Asked at one block of the solving window; what passes is submitted and won.
preflightPlan(b) ==
  /\ planState[b] = "closed" /\ plans[b].collectEnd < chainSecond /\ chainSecond <= solveEndOf(plans[b])
  /\ planState' = [planState EXCEPT ![b] = IF preflight(plans[b]) THEN "won" ELSE "refused"]
  /\ UNCHANGED <<plans, chainSecond, exposureCaps, settled, triedAt, sinceAsked, reverts>>

mayFinalize(b) ==
  /\ planState[b] \in {"won", "reverted"} /\ chainSecond > triedAt[b]
  /\ chainSecond > solveEndOf(plans[b]) /\ chainSecond <= solveEndOf(plans[b]) + PlanDeadline

finalizePlan(b, extra) ==
  /\ mayFinalize(b) /\ feesPass(plans[b], extra)
  /\ chargeExposure(notionalUsd(plans[b]), planCharge(plans[b]), capScale(plans[b]), dayOf(chainSecond))
  /\ planState' = [planState EXCEPT ![b] = "finalized"]
  /\ UNCHANGED <<plans, chainSecond, exposureCaps, triedAt, capsRaised, capsLowered, reverts>>

\* finalizeWon tries twice, at two blocks.
finalizeReverts(b, extra) ==
  /\ mayFinalize(b) /\ ~finalizePasses(plans[b], extra, dayOf(chainSecond))
  /\ planState' = [planState EXCEPT ![b] = IF @ = "won" THEN "reverted" ELSE "given up"]
  /\ triedAt' = [triedAt EXCEPT ![b] = chainSecond]
  /\ reverts' = reverts \cup {[plan |-> b, extra |-> extra, lowered |-> capsLowered[b],
                               charged |-> dayOf(chainSecond) \in chargedOn[b]]}
  /\ UNCHANGED <<plans, chainSecond, exposureCaps, settled, sinceAsked>>

OtherFinalizes(o) ==
  /\ chargeExposure(o.usd, [t \in PlanTokens |-> IF t = o.token THEN o.usd + o.again ELSE 0], 2, dayOf(chainSecond))
  /\ UNCHANGED <<plans, chainSecond, exposureCaps, askedOf, capsRaised, capsLowered, reverts>>

\* Bound: once plans have been asked about, the caps move once.
setExposureCaps(c) ==
  /\ c # exposureCaps /\ \A b \in PlanIds : ~capsRaised[b] /\ ~capsLowered[b]
  /\ exposureCaps' = c
  /\ capsRaised' = [b \in PlanIds |-> capsRaised[b] \/ (planState[b] # "closed" /\ \E x \in DOMAIN c : c[x] > exposureCaps[x])]
  /\ capsLowered' = [b \in PlanIds |-> capsLowered[b] \/ (planState[b] # "closed" /\ \E x \in DOMAIN c : c[x] < exposureCaps[x])]
  /\ UNCHANGED <<plans, chainSecond, settled, askedOf, chargedOn, reverts>>

ChainSecondPasses ==
  /\ chainSecond < PreflightHorizon /\ chainSecond' = chainSecond + 1
  /\ UNCHANGED <<plans, exposureCaps, settled, askedOf, sinceAsked, reverts>>

PreflightNext ==
  \/ \E b \in PlanIds : preflightPlan(b) \/ \E x \in VenueExtras : finalizePlan(b, x) \/ finalizeReverts(b, x)
  \/ \E o \in OtherCharges : OtherFinalizes(o)
  \/ \E c \in CapSettings : setExposureCaps(c)
  \/ ChainSecondPasses

PreflightSpec == PreflightInit /\ [][PreflightNext]_preflightVars

---------------------------------------------------------------------------
(* Properties.                                                             *)

PreflightTypeOK ==
  /\ chainSecond \in 0..PreflightHorizon /\ exposureCaps \in CapSettings
  /\ todayTotal \in [index : Days, global : Nat] /\ perTokenOnDay \in [Days -> [PlanTokens -> Nat]]
  /\ planState \in [PlanIds -> {"closed", "refused", "won", "reverted", "finalized", "given up"}]

\* At every state of the contract the solver's arithmetic gives the verdict the
\* contract would give in the same second for a venue that returns minOut, on the
\* first charge of a day as on a later one (math.ts: "operation for operation").
MirrorExact ==
  \A b \in PlanIds :
    (exposureViolations(plans[b], exposureState(plans[b], chainSecond)) = {} /\ feeCheck(plans[b]))
      <=> finalizePasses(plans[b], 0, dayOf(chainSecond))

\* A batch that passed and reverts all the same met something new: another batch was
\* charged on that day since, one of the solver's own in flight included, which
\* preflight does not count; a cap was lowered; or the pool gave more than minOut.
RevertsExplained == \A r \in reverts : r.extra > 0 \/ r.lowered \/ r.charged

\* What is refused would have been refused: for the fee whatever the venue returned
\* ("The venue can only return more"), for exposure on the expected day until a
\* cap is raised.
RefusedRightly ==
  \A b \in PlanIds :
    planState[b] = "refused" =>
      \/ ~feeCheck(plans[b]) /\ \A x \in VenueExtras : ~feesPass(plans[b], x)
      \/ feeCheck(plans[b])
         /\ (dayOf(chainSecond) = dayOf(solveEndOf(plans[b]) + 1) /\ ~capsRaised[b]
             => ~chargePasses(notionalUsd(plans[b]), planCharge(plans[b]), capScale(plans[b]), dayOf(chainSecond)))

\* What preflight says is what finalize does, for as long as the chain stands still.
PreflightHolds == PreflightTypeOK /\ MirrorExact /\ RevertsExplained /\ RefusedRightly
=============================================================================
