------------------------- MODULE SettlementProofs -------------------------
(***************************************************************************)
(* Theorems about Settlement, for every set of batches, solvers,           *)
(* solutions, tokens and owners: what a session promises, and then the     *)
(* accounts: what the registry and the contract hold, what the scoreboard  *)
(* counts, what a signature may cost its owner and what a day is charged.  *)
(***************************************************************************)
EXTENDS Settlement, SharedLemmas

LEMMA BestSolver ==
  ASSUME NEW r \in BestRecords
  PROVE  r.solver \in Solvers /\ r.savings \in Nat /\ r.solution \in Solutions
BY DEF BestRecords

----------------------------------------------------------------------------
(* Type correctness. *)

LEMMA DayType ==
  ASSUME now \in 0..MaxTime
  PROVE  now \div SECONDS_PER_DAY \in Days
<1>1. now \in Nat /\ MaxTime \in Nat /\ SECONDS_PER_DAY \in Nat \ {0}
  BY RegistryAssumption, SettlementAssumption
<1>2. now \div SECONDS_PER_DAY \in Nat /\ MaxTime \div SECONDS_PER_DAY \in Nat
  BY <1>1
<1>3. now \div SECONDS_PER_DAY <= MaxTime \div SECONDS_PER_DAY
  BY <1>1, Z3
<1>4. QED  BY <1>2, <1>3 DEF Days

LEMMA InitTypes == Init => TypeOK
<1> SUFFICES ASSUME Init PROVE TypeOK  OBVIOUS
<1>1. RegistryTypeOK
  <2>1. MIN_BOND_FLOOR \in Nat \ {0} /\ MaxTime \in Nat
    BY RegistryAssumption
  <2>2. now \in 0..MaxTime /\ minBond \in Nat \ {0}
    BY <2>1 DEF Init, RegistryInit
  <2>3. QED  BY <2>2 DEF Init, RegistryInit, RegistryTypeOK
<1>2. 0 \in Days
  <2>1. MaxTime \in Nat /\ SECONDS_PER_DAY \in Nat \ {0}
    BY RegistryAssumption, SettlementAssumption
  <2>2. MaxTime \div SECONDS_PER_DAY \in Nat
    BY <2>1, QuotientNat
  <2>3. QED  BY <2>2 DEF Days
<1>3. ledger \in [Accounts -> [Tokens -> Int]]
  BY SettlementAssumption DEF Init, Accounts
<1>4. pausedUntil \in 0..MaxTime
  BY RegistryAssumption DEF Init
<1>5. solutionsSubmitted \in [Batches -> [Solvers -> 0..MAX_SOLUTIONS_PER_SOLVER]]
  BY SettlementAssumption DEF Init
<1>6. QED
  BY <1>1, <1>2, <1>3, <1>4, <1>5 DEF Init, TypeOK

\* What the parts of a candidate are, once its types are unfolded.
LEMMA SolutionTypes ==
  ASSUME NEW s \in Solutions
  PROVE  /\ s.batchId \in Batches /\ s.batchId \in Nat /\ s.claimedSavings \in Nat
         /\ TokensOf(s) \subseteq Tokens
         /\ Len(s.executions) \in Nat /\ Legs(s) = 1..Len(s.executions) /\ IsFiniteSet(Legs(s))
         /\ Len(s.venueCalls) \in Nat /\ DOMAIN s.venueCalls = 1..Len(s.venueCalls)
<1>1. WellTyped(s)
  BY SettlementAssumption
<1>2. Len(s.executions) \in Nat /\ Legs(s) = 1..Len(s.executions)
  BY <1>1 DEF WellTyped, Legs
<1>3. Len(s.venueCalls) \in Nat /\ DOMAIN s.venueCalls = 1..Len(s.venueCalls)
  BY <1>1 DEF WellTyped
<1>4. IsFiniteSet(1..Len(s.executions))
  BY <1>2, FS_Interval
<1>5. QED  BY <1>1, <1>2, <1>3, <1>4, SettlementAssumption DEF WellTyped

\* Sums over some of the legs, or some of the calls, are numbers.
LEMMA LegSums ==
  ASSUME NEW s \in Solutions, NEW K \in SUBSET Legs(s)
  PROVE  /\ IsFiniteSet(K)
         /\ \A k \in K : executedSells(s)[k] \in Nat /\ executedBuys(s)[k] \in Nat
         /\ SumFunctionOnSet(executedSells(s), K) \in Nat
         /\ SumFunctionOnSet(executedBuys(s), K) \in Nat
<1>1. IsFiniteSet(K)
  BY SolutionTypes, FS_Subset
<1>2. \A k \in K : executedSells(s)[k] \in Nat /\ executedBuys(s)[k] \in Nat
  BY SettlementAssumption DEF WellTyped, executedSells, executedBuys
<1>3. QED  BY <1>1, <1>2, SumNat

LEMMA DivNat == ASSUME NEW x \in Nat, NEW y \in Nat \ {0} PROVE x \div y \in Nat
BY Z3

LEMMA LedgerSums ==
  ASSUME NEW s \in Solutions, NEW n \in 0..Len(s.executions), NEW A, NEW t
  PROVE  SoldUpTo(s, n, A, t) \in Nat /\ BoughtFor(s, A, t) \in Nat
<1> DEFINE K == {k \in 1..n : Leg(s, k).intent.owner \in A /\ Leg(s, k).intent.sellToken = t}
<1>1. K \subseteq Legs(s)
  BY SolutionTypes
<1>2. SumFunctionOnSet(executedSells(s), K) \in Nat
  BY <1>1, LegSums
<1>3. BoughtFor(s, A, t) \in Nat
  BY LegSums DEF BoughtFor
<1>4. QED  BY <1>2, <1>3 DEF SoldUpTo

LEMMA CallSums ==
  ASSUME NEW s \in Solutions, NEW v \in 0..Len(s.venueCalls), NEW t \in Tokens, NEW sp \in Spreads
  PROVE  CallIn(s, v, t) \in Nat /\ CallOut(s, v, t, sp) \in Nat
<1>1. \A u \in 1..v : /\ s.venueCalls[u].amountIn \in Nat
                      /\ s.venueCalls[u].tokenIn \in Tokens /\ s.venueCalls[u].tokenOut \in Tokens
  <2>1. 1..v \subseteq DOMAIN s.venueCalls
    BY SolutionTypes
  <2>2. QED  BY <2>1, SettlementAssumption DEF WellTyped
<1>2. \A a, b \in Tokens, amount \in Nat : VenueOut(a, b, amount, sp) \in Nat
  <2> SUFFICES ASSUME NEW a \in Tokens, NEW b \in Tokens, NEW amount \in Nat
               PROVE  VenueOut(a, b, amount, sp) \in Nat
    OBVIOUS
  <2>1. OraclePrices[a] \in Nat /\ OraclePrices[b] \in Nat \ {0} /\ sp \in Nat
    BY SettlementAssumption
  <2>2. amount * OraclePrices[a] \in Nat
    BY <2>1
  <2>3. (amount * OraclePrices[a]) \div OraclePrices[b] \in Nat
    BY <2>1, <2>2, DivNat
  <2> DEFINE mid == (amount * OraclePrices[a]) \div OraclePrices[b]
  <2> HIDE DEF mid
  <2>4. mid \in Nat => (IF mid > sp THEN mid - sp ELSE 0) \in Nat
    BY <2>1
  <2>5. QED  BY <2>3, <2>4 DEF VenueOut, mid
<1>3. IsFiniteSet(1..v)
  <2>1. v \in Nat
    BY SolutionTypes
  <2>2. QED  BY <2>1, FS_Interval
<1>4. ASSUME NEW K \in SUBSET (1..v)
      PROVE  IsFiniteSet(K)
  BY <1>3, FS_Subset
<1>5. CallIn(s, v, t) \in Nat
  <2> DEFINE K == {u \in 1..v : s.venueCalls[u].tokenIn = t}
             f == [u \in 1..v |-> s.venueCalls[u].amountIn]
  <2>1. IsFiniteSet(K) /\ \A u \in K : f[u] \in Nat
    BY <1>1, <1>4
  <2> HIDE DEF K, f
  <2>2. SumFunctionOnSet(f, K) \in Nat
    BY <2>1, SumNat
  <2>3. QED  BY <2>2 DEF CallIn, K, f
<1>6. CallOut(s, v, t, sp) \in Nat
  <2> DEFINE K == {u \in 1..v : s.venueCalls[u].tokenOut = t}
             f == [u \in 1..v |-> VenueOut(s.venueCalls[u].tokenIn, s.venueCalls[u].tokenOut,
                                           s.venueCalls[u].amountIn, sp)]
  <2>1. IsFiniteSet(K) /\ \A u \in K : f[u] \in Nat
    BY <1>1, <1>2, <1>4
  <2> HIDE DEF K, f
  <2>2. SumFunctionOnSet(f, K) \in Nat
    BY <2>1, SumNat
  <2>3. QED  BY <2>2 DEF CallOut, K, f
<1>7. QED  BY <1>5, <1>6

\* What a candidate inside its limits is worth: every leg's token is priced.
LEMMA NotionalSums ==
  ASSUME NEW s \in Solutions, WithinLimits(s), NEW K \in SUBSET Legs(s)
  PROVE  /\ IsFiniteSet(K) /\ \A k \in K : legUsd(s)[k] \in Nat
         /\ SumFunctionOnSet(legUsd(s), K) \in Nat
<1>1. IsFiniteSet(K)
  BY LegSums
<1>2. ASSUME NEW k \in K
      PROVE  legUsd(s)[k] \in Nat
  <2> DEFINE e == Leg(s, k)
             p == s.prices[e.intent.sellToken]
  <2>1. e.executedSell \in Nat /\ e.intent.sellToken \in TokensOf(s)
    BY SettlementAssumption DEF WellTyped, WithinLimits
  <2>2. p \in Nat /\ WAD \in Nat \ {0}
    BY <2>1, SettlementAssumption, ScaleAssumption DEF WellTyped
  <2>3. legUsd(s)[k] = (e.executedSell * p) \div WAD
    BY DEF legUsd, ValueUsd, quoteOf
  <2> HIDE DEF e, p
  <2>4. e.executedSell * p \in Nat
    BY <2>1, <2>2
  <2>5. (e.executedSell * p) \div WAD \in Nat
    BY <2>2, <2>4
  <2>6. QED  BY <2>3, <2>5
<1>3. QED  BY <1>1, <1>2, SumNat

\* What the places of the array that name a token again are.
LEMMA RepeatTypes ==
  ASSUME NEW s \in Solutions, NEW t
  PROVE  /\ IsFiniteSet(Again(s, t)) /\ Again(s, t) \subseteq DOMAIN s.repeats
         /\ Listings(s, t) \in Nat \ {0}
         /\ \A r \in Again(s, t) : s.repeats[r].price \in Nat
         /\ s.repeats = <<>> => Again(s, t) = {}
<1> DEFINE places == s.repeats
           kind == [token : TokensOf(s), price : Nat]
<1>1. places \in Seq(kind)
  BY SettlementAssumption DEF WellTyped
<1>2. \A x \in kind : x.price \in Nat
  OBVIOUS
<1> HIDE DEF kind
<1>3. Len(places) \in Nat /\ DOMAIN places = 1..Len(places) /\ \A r \in DOMAIN places : places[r] \in kind
  BY <1>1
<1>4. IsFiniteSet(1..Len(places))
  <2>1. 1 \in Int /\ Len(places) \in Int
    BY <1>3
  <2> HIDE DEF places
  <2>2. QED  BY <2>1, FS_Interval
<1>5. Again(s, t) \subseteq DOMAIN places
  BY DEF Again
<1>6. IsFiniteSet(Again(s, t)) /\ Cardinality(Again(s, t)) \in Nat
  BY <1>3, <1>4, <1>5, FS_Subset, FS_CardinalityType
<1>7. \A r \in Again(s, t) : s.repeats[r].price \in Nat
  BY <1>2, <1>3, <1>5
<1>8. s.repeats = <<>> => Again(s, t) = {}
  BY <1>5
<1>9. QED  BY <1>5, <1>6, <1>7, <1>8 DEF Listings

LEMMA TokenNotionals ==
  ASSUME NEW s \in Solutions, NEW t, NEW p \in Nat
  PROVE  tokenNotional(s, t, p) \in Nat
<1> DEFINE K == SellLegs(s, t)
           f == [k \in Legs(s) |-> quoteOf(Leg(s, k).executedSell, p)]
<1>1. K \subseteq Legs(s)
  BY DEF SellLegs
<1>2. IsFiniteSet(K)
  BY <1>1, LegSums
<1>3. ASSUME NEW k \in K
      PROVE  f[k] \in Nat
  <2>1. Leg(s, k).executedSell \in Nat /\ WAD \in Nat \ {0}
    BY <1>1, SettlementAssumption, ScaleAssumption DEF WellTyped
  <2>2. f[k] = (Leg(s, k).executedSell * p) \div WAD
    BY <1>1 DEF quoteOf
  <2> HIDE DEF f
  <2>3. Leg(s, k).executedSell * p \in Nat
    BY <2>1
  <2>4. QED  BY <2>1, <2>2, <2>3, DivNat
<1> HIDE DEF f, K
<1>4. SumFunctionOnSet(f, K) \in Nat
  BY <1>2, <1>3, SumNat
<1>5. QED  BY <1>4 DEF tokenNotional, f, K

\* What a token is charged: at its first place, and at the places that name it
\* again, of which most solutions have none.
LEMMA Charges ==
  ASSUME NEW s \in Solutions, NEW t \in TokensOf(s)
  PROVE  /\ tokenNotional(s, t, s.prices[t]) \in Nat
         /\ repeatedNotional(s, t) \in Nat /\ chargedFor(s, t) \in Nat
         /\ s.repeats = <<>> => repeatedNotional(s, t) = 0
<1> DEFINE K == Again(s, t)
           f == [r \in DOMAIN s.repeats |-> tokenNotional(s, t, s.repeats[r].price)]
<1>1. tokenNotional(s, t, s.prices[t]) \in Nat
  <2>1. s.prices[t] \in Nat
    BY SettlementAssumption DEF WellTyped
  <2>2. QED  BY <2>1, TokenNotionals
<1>2. IsFiniteSet(K) /\ \A r \in K : f[r] \in Nat
  BY RepeatTypes, TokenNotionals
<1>3. s.repeats = <<>> => K = {}
  BY RepeatTypes
<1> HIDE DEF f, K
<1>4. SumFunctionOnSet(f, K) \in Nat /\ (K = {} => SumFunctionOnSet(f, K) = 0)
  BY <1>2, SumNat, SumEmpty
<1>5. repeatedNotional(s, t) = SumFunctionOnSet(f, K)
  BY DEF repeatedNotional, f, K
<1>6. QED  BY <1>1, <1>3, <1>4, <1>5 DEF chargedFor

LEMMA HashType ==
  ASSUME TypeOK, NEW s \in Solutions
  PROVE  multiplierHash(s) \in UNION {[T -> Multipliers] : T \in SUBSET Tokens}
<1>1. TokensOf(s) \in SUBSET Tokens
  BY SolutionTypes
<1>2. multiplierHash(s) \in [TokensOf(s) -> Multipliers]
  BY <1>1 DEF multiplierHash, TypeOK
<1>3. QED  BY <1>1, <1>2

LEMMA SubmitTypes ==
  ASSUME TypeOK, NEW solver \in Solvers, NEW s \in Solutions, submitSolution(solver, s)
  PROVE  TypeOK'
<1> DEFINE b == s.batchId
<1>1. b \in Batches /\ s.claimedSavings \in Nat
  BY SolutionTypes
<1>2. multiplierHash(s) \in UNION {[T -> Multipliers] : T \in SUBSET Tokens}
  BY HashType
<1>3. best' \in [Batches -> BestRecords \cup {NoBest}]
  BY <1>1, <1>2 DEF submitSolution, TypeOK, BestRecords
<1>4. solutionsSubmitted' \in [Batches -> [Solvers -> 0..MAX_SOLUTIONS_PER_SOLVER]]
  <2>1. /\ solutionsSubmitted' = [solutionsSubmitted EXCEPT ![b][solver] = @ + 1]
        /\ solutionsSubmitted[b][solver] < MAX_SOLUTIONS_PER_SOLVER
    BY DEF submitSolution, underLimit
  <2>2. solutionsSubmitted \in [Batches -> [Solvers -> 0..MAX_SOLUTIONS_PER_SOLVER]]
    BY DEF TypeOK
  <2>3. MAX_SOLUTIONS_PER_SOLVER \in Nat
    BY SettlementAssumption
  <2>4. solutionsSubmitted[b][solver] + 1 \in 0..MAX_SOLUTIONS_PER_SOLVER
    BY <1>1, <2>1, <2>2, <2>3
  <2>5. QED  BY <1>1, <2>1, <2>2, <2>4
<1>6. RegistryTypeOK'
  BY DEF submitSolution, TypeOK, RegistryTypeOK, registryVars, bondVars, slashVars, scoreVars
<1>7. QED
  BY <1>3, <1>4, <1>6
  DEF submitSolution, TypeOK, allowVars, exposureVars, ownerVars, worldVars, historyVars

\* A share of at most the whole never exceeds the amount (_slashShare).
LEMMA ShareBound ==
  ASSUME NEW x \in Nat, NEW R \in Nat \ {0}, NEW p \in 0..R
  PROVE  (x * p) \div R \in Nat /\ (x * p) \div R <= x
<1> DEFINE y == x * p
<1>1. y \in Nat
  BY Z3
<1>2. y <= x * R
  BY Z3
<1>3. x * R \in Nat /\ (x * R) \div R = x
  BY Z3
<1> HIDE DEF y
<1>4. y \div R \in Nat
  BY <1>1, Z3
<1>5. y \div R <= (x * R) \div R
  BY <1>1, <1>2, <1>3, Z3
<1>6. QED  BY <1>3, <1>4, <1>5 DEF y

LEMMA TakeBondTypes ==
  ASSUME RegistryTypeOK, NEW s \in Solvers, NEW amount \in Nat, amount <= bonded[s],
         TakeBond(s, amount)
  PROVE  /\ bonded' \in [Solvers -> Nat] /\ slashCount' \in [Solvers -> Nat]
         /\ bondBalance' \in Int /\ slashedTotal' \in Nat
BY DEF RegistryTypeOK, TakeBond

LEMMA ReportFailedFinalizeTypes ==
  ASSUME RegistryTypeOK, NEW s \in Solvers, reportFailedFinalize(s), now' = now
  PROVE  RegistryTypeOK'
<1> DEFINE share == (bonded[s] * SLASH_FAILED_FINALIZE_BPS) \div REGISTRY_BPS
<1>1. bonded[s] \in Nat /\ REGISTRY_BPS \in Nat \ {0} /\ SLASH_FAILED_FINALIZE_BPS \in 0..REGISTRY_BPS
  BY RegistryAssumption DEF RegistryTypeOK
<1>2. share \in Nat /\ share <= bonded[s]
  BY <1>1, ShareBound
<1>3. \/ bonded' = bonded /\ slashCount' = slashCount /\ bondBalance' = bondBalance
         /\ slashedTotal' = slashedTotal
      \/ TakeBond(s, share)
  BY DEF reportFailedFinalize, slashShare, slashVars
<1> HIDE DEF share
<1>4. /\ bonded' \in [Solvers -> Nat] /\ slashCount' \in [Solvers -> Nat]
      /\ bondBalance' \in Int /\ slashedTotal' \in Nat
  <2>1. CASE TakeBond(s, share)
    BY <2>1, <1>2, TakeBondTypes
  <2>2. CASE bonded' = bonded /\ slashCount' = slashCount /\ bondBalance' = bondBalance
             /\ slashedTotal' = slashedTotal
    BY <2>2 DEF RegistryTypeOK
  <2>3. QED  BY <1>3, <2>1, <2>2
<1>5. failedFinalizes' \in [Solvers -> Nat]
  BY DEF reportFailedFinalize, RegistryTypeOK
<1>6. QED
  BY <1>4, <1>5 DEF reportFailedFinalize, RegistryTypeOK

LEMMA ExpireTypes ==
  ASSUME TypeOK, NEW b \in Batches, expireBatch(b)
  PROVE  TypeOK'
<1>1. best[b].solver \in Solvers
  BY BestSolver DEF expireBatch, expirable, TypeOK
<1>2. RegistryTypeOK'
  BY <1>1, ReportFailedFinalizeTypes DEF expireBatch, TypeOK
<1>3. QED
  BY <1>2 DEF expireBatch, TypeOK, allowVars, exposureVars, ownerVars, worldVars

----------------------------------------------------------------------------
\* Both endings of finalize.

LEMMA CollectedRange ==
  ASSUME NEW s \in Solutions
  PROVE  collected(s) \in 0..Len(s.executions) /\ Legs(s) = 1..Len(s.executions)
<1> DEFINE K == {k \in Legs(s) : \A j \in 1..k : permitTransfers(s, j)}
           n == Len(s.executions)
<1>1. n \in Nat /\ Legs(s) = 1..n
  BY SolutionTypes
<1>2. IsFiniteSet(1..n) /\ Cardinality(1..n) = n
  BY <1>1, FS_Interval
<1>3. K \subseteq 1..n
  BY <1>1
<1> HIDE DEF K, n
<1>4. Cardinality(K) \in Nat /\ Cardinality(K) <= n
  BY <1>2, <1>3, FS_Subset, FS_CardinalityType
<1>5. QED  BY <1>1, <1>4 DEF collected, K, n

Ledgers == [Accounts -> [Tokens -> Int]]

LEMMA PullType ==
  ASSUME NEW l \in Ledgers, NEW s \in Solutions, NEW n \in 0..Len(s.executions)
  PROVE  pull(l, s, n) \in Ledgers /\ refund(l, s, n) \in Ledgers
<1>1. \A a \in Accounts, t \in Tokens :
        l[a][t] \in Int /\ SoldUpTo(s, n, {a}, t) \in Nat /\ SoldUpTo(s, n, Owners, t) \in Nat
  BY LedgerSums DEF Ledgers
<1>2. pull(l, s, n) \in Ledgers
  BY <1>1 DEF pull, Ledgers
<1>3. refund(l, s, n) \in Ledgers
  BY <1>1 DEF refund, Ledgers
<1>4. QED  BY <1>2, <1>3

LEMMA DeliverType ==
  ASSUME NEW l \in Ledgers, NEW s \in Solutions
  PROVE  deliver(l, s) \in Ledgers
<1>1. \A a \in Accounts, t \in Tokens :
        l[a][t] \in Int /\ BoughtFor(s, {a}, t) \in Nat /\ BoughtFor(s, Owners, t) \in Nat
  <2>1. Len(s.executions) \in 0..Len(s.executions)
    BY SolutionTypes
  <2>2. QED  BY <2>1, LedgerSums DEF Ledgers
<1>2. QED  BY <1>1 DEF deliver, Ledgers

LEMMA RouteType ==
  ASSUME NEW l \in Ledgers, NEW s \in Solutions, spread \in Spreads
  PROVE  route(l, s) \in Ledgers
<1>1. \A t \in Tokens : /\ l[Self][t] \in Int
                        /\ CallOut(s, Len(s.venueCalls), t, spread) \in Nat
                        /\ CallIn(s, Len(s.venueCalls), t) \in Nat
  <2>1. Len(s.venueCalls) \in 0..Len(s.venueCalls)
    BY SolutionTypes
  <2>2. QED  BY <2>1, CallSums DEF Ledgers, Accounts
<1>2. Self \in Accounts
  BY DEF Accounts
<1>3. QED  BY <1>1, <1>2 DEF route, Ledgers

LEMMA UnwindTypes ==
  ASSUME TypeOK, NEW b \in Batches, finalizeUnwind(b)
  PROVE  TypeOK'
<1> DEFINE s == best[b].solution
           n == collected(s)
<1>1. s \in Solutions
  BY BestSolver DEF finalizeUnwind, finalizable, TypeOK
<1>2. n \in 0..Len(s.executions) /\ Legs(s) = 1..Len(s.executions)
  BY <1>1, CollectedRange
<1>3. ledger' = refund(pull(ledger, s, n), s, n) /\ ledger \in Ledgers
  BY DEF finalizeUnwind, TypeOK, Ledgers
<1>4. nonceUsed' = nonceUsed \cup {NonceKey(s, k) : k \in 1..n} /\ nonceUsed \in SUBSET NonceKeys
  BY DEF finalizeUnwind, TypeOK
<1> HIDE DEF s, n
<1>5. ledger' \in Ledgers
  BY <1>1, <1>2, <1>3, PullType
<1>6. {NonceKey(s, k) : k \in 1..n} \subseteq NonceKeys
  BY <1>1, <1>2 DEF NonceKeys
<1>7. RegistryTypeOK'
  BY DEF finalizeUnwind, TypeOK, RegistryTypeOK, registryVars, bondVars, slashVars, scoreVars
<1>8. QED
  BY <1>4, <1>5, <1>6, <1>7
  DEF finalizeUnwind, TypeOK, Ledgers, allowVars, exposureVars, worldVars

\* The exposure accounts keep their types: a day is always one of Days.
LEMMA ChargeTypes ==
  ASSUME TypeOK, NEW s \in Solutions, WithinLimits(s), chargeExposure(s)
  PROVE  today' \in [index : Days, global : Nat] /\ perTokenOnDay' \in [Days -> [Tokens -> Nat]]
<1> DEFINE day == now \div SECONDS_PER_DAY
           tokenDay == [t \in Tokens |-> perTokenOnDay[day][t]
                          + (IF t \in TokensOf(s) THEN chargedFor(s, t) ELSE 0)]
<1>1. day \in Days
  BY DayType DEF TypeOK, RegistryTypeOK
<1>2. notionalUsd(s) \in Nat /\ \A t \in TokensOf(s) : chargedFor(s, t) \in Nat
  BY NotionalSums, Charges DEF notionalUsd
<1>3. today' = [index |-> day, global |-> globalSoFar(day) + notionalUsd(s)]
  BY DEF chargeExposure
<1>4. perTokenOnDay' = [perTokenOnDay EXCEPT ![day] = tokenDay]
  BY DEF chargeExposure
<1> HIDE DEF day
<1>5. tokenDay \in [Tokens -> Nat]
  BY <1>1, <1>2 DEF TypeOK
<1> HIDE DEF tokenDay
<1>6. perTokenOnDay' \in [Days -> [Tokens -> Nat]]
  BY <1>1, <1>4, <1>5 DEF TypeOK
<1>7. today.global \in Nat
  BY DEF TypeOK
<1>8. QED  BY <1>1, <1>2, <1>3, <1>6, <1>7 DEF globalSoFar

\* Fees keep the ledger one of numbers.
LEMMA FeeTypes ==
  ASSUME TypeOK, NEW l \in Ledgers, NEW s \in Solutions, NEW winner \in BestRecords,
         settleFees(l, s, winner)
  PROVE  ledger' \in Ledgers
<1> DEFINE passthrough == winner.savings * BPS < notionalUsd(s) * MIN_SAVINGS_BPS
           toSolver(t) == IF passthrough THEN 0
                          ELSE Listings(s, t) * ((withheld(l, t) * SOLVER_SHARE_OF_FEE_BPS) \div BPS)
           paid(t) == IF t \in TokensOf(s) THEN Listings(s, t) * withheld(l, t) ELSE 0
<1>1. \A t \in Tokens : withheld(l, t) \in Int
  <2>1. \A t \in Tokens : l[Self][t] \in Int /\ ledger[Self][t] \in Int
    BY DEF Ledgers, TypeOK, Accounts
  <2>2. QED  BY <2>1 DEF withheld
<1>2. \A t \in Tokens : toSolver(t) \in Int
  <2>1. \A x \in Int : (x * SOLVER_SHARE_OF_FEE_BPS) \div BPS \in Int
    BY SettlementAssumption, ScaleAssumption
  <2>2. \A t \in Tokens : Listings(s, t) \in Int
    BY RepeatTypes
  <2>3. \A x, y \in Int : x * y \in Int
    OBVIOUS
  <2>4. QED  BY <1>1, <2>1, <2>2, <2>3
<1>3. \A t \in Tokens : paid(t) \in Int
  <2>1. \A t \in Tokens : Listings(s, t) \in Int
    BY RepeatTypes
  <2>2. \A x, y \in Int : x * y \in Int
    OBVIOUS
  <2>3. QED  BY <1>1, <2>1, <2>2
<1>4. ledger' = [a \in Accounts |-> [t \in Tokens |->
           l[a][t] - (IF a = Self THEN paid(t) ELSE 0)
                   + (IF a = winner.solver /\ t \in TokensOf(s) THEN toSolver(t) ELSE 0)
                   + (IF a = Treasury /\ t \in TokensOf(s) THEN paid(t) - toSolver(t) ELSE 0)]]
  BY DEF settleFees
<1> HIDE DEF paid, toSolver
<1>5. \A a \in Accounts, t \in Tokens : l[a][t] \in Int
  BY DEF Ledgers
<1>6. QED  BY <1>2, <1>3, <1>4, <1>5 DEF Ledgers

LEMMA SettleTypes ==
  ASSUME TypeOK, RecordedInv, NEW b \in Batches, finalizeSettle(b)
  PROVE  TypeOK'
<1> DEFINE s == best[b].solution
           n == Len(s.executions)
           l == deliver(route(pull(ledger, s, n), s), s)
<1>1. best[b] \in BestRecords /\ s \in Solutions /\ WithinLimits(s)
  BY BestSolver DEF finalizeSettle, finalizable, TypeOK, RecordedInv
<1>2. n \in 0..Len(s.executions) /\ Legs(s) = 1..Len(s.executions)
  <2>1. n \in Nat
    BY <1>1, SolutionTypes
  <2>2. QED  BY <1>1, <2>1, CollectedRange
<1>3. chargeExposure(s) /\ settleFees(l, s, best[b])
  BY DEF finalizeSettle
<1>4. nonceUsed' = nonceUsed \cup {NonceKey(s, k) : k \in Legs(s)} /\ nonceUsed \in SUBSET NonceKeys
  BY DEF finalizeSettle, TypeOK
<1> HIDE DEF s
<1>5. pull(ledger, s, n) \in Ledgers
  BY <1>1, <1>2, PullType DEF TypeOK, Ledgers
<1> HIDE DEF n
<1>6. l \in Ledgers
  BY <1>1, <1>5, RouteType, DeliverType DEF TypeOK
<1> HIDE DEF l
<1>7. ledger' \in Ledgers
  BY <1>1, <1>3, <1>6, FeeTypes
<1>8. today' \in [index : Days, global : Nat] /\ perTokenOnDay' \in [Days -> [Tokens -> Nat]]
  BY <1>1, <1>3, ChargeTypes
<1>9. {NonceKey(s, k) : k \in Legs(s)} \subseteq NonceKeys
  BY <1>1 DEF NonceKeys
<1>10. RegistryTypeOK'
  <2>1. recordWin(best[b].solver, best[b].savings)
    BY DEF finalizeSettle, settleFees
  <2>2. best[b].solver \in Solvers /\ best[b].savings \in Nat /\ now' = now
    BY <1>1, BestSolver DEF finalizeSettle
  <2>3. QED
    BY <2>1, <2>2 DEF TypeOK, recordWin, RegistryTypeOK, bondVars, slashVars
<1>11. QED
  BY <1>4, <1>7, <1>8, <1>9, <1>10
  DEF finalizeSettle, TypeOK, Ledgers, allowVars, worldVars

----------------------------------------------------------------------------
\* Everybody else.

LEMMA RegistryStepTypes ==
  ASSUME TypeOK, RegistryStep
  PROVE  TypeOK'
<1>1. RegistryTypeOK'
  <2>1. now' = now
    BY DEF RegistryStep
  <2>2. ASSUME NEW s \in Solvers, NEW amount \in BondAmounts, bond(s, amount)
        PROVE  RegistryTypeOK'
    BY <2>1, <2>2, RegistryAssumption DEF bond, TypeOK, RegistryTypeOK, slashVars, scoreVars
  <2>3. ASSUME NEW s \in Solvers, requestUnbond(s)
        PROVE  RegistryTypeOK'
    BY <2>1, <2>3, RegistryAssumption DEF requestUnbond, TypeOK, RegistryTypeOK, slashVars, scoreVars
  <2>4. ASSUME NEW s \in Solvers, withdrawBond(s)
        PROVE  RegistryTypeOK'
    BY <2>1, <2>4 DEF withdrawBond, TypeOK, RegistryTypeOK, slashVars, scoreVars
  <2>5. ASSUME NEW s \in Solvers, NEW amount \in BondAmounts, slash(s, amount)
        PROVE  RegistryTypeOK'
    <3>1. amount \in Nat /\ RegistryTypeOK /\ TakeBond(s, amount) /\ amount <= bonded[s]
      BY <2>5, RegistryAssumption DEF slash, TypeOK
    <3>2. QED
      BY <2>1, <2>5, <3>1, TakeBondTypes DEF slash, RegistryTypeOK, scoreVars
  <2>6. ASSUME NEW value \in MinBonds, setMinBond(value)
        PROVE  RegistryTypeOK'
    BY <2>1, <2>6, RegistryAssumption
    DEF setMinBond, TypeOK, RegistryTypeOK, bondVars, slashVars, scoreVars
  <2>7. QED
    BY <2>2, <2>3, <2>4, <2>5, <2>6 DEF RegistryStep, SolverExit, GovernorCall
<1>2. QED
  BY <1>1 DEF RegistryStep, TypeOK, allowVars, exposureVars, batchVars, ownerVars, worldVars,
              historyVars

LEMMA AuctionStepTypes ==
  ASSUME TypeOK, AuctionStep
  PROVE  TypeOK'
<1>1. PICK s \in Solvers, volume \in AuctionVolumes : auctionWin(s, volume)
  BY DEF AuctionStep
<1>2. recordWin(s, volume) /\ volume \in Nat /\ now' = now
  BY <1>1, SettlementAssumption DEF auctionWin
<1>3. RegistryTypeOK'
  BY <1>2 DEF TypeOK, recordWin, RegistryTypeOK, bondVars, slashVars
<1>4. auctionWins' \in [Solvers -> Nat]
  BY <1>1 DEF auctionWin, TypeOK
<1>5. QED
  BY <1>1, <1>3, <1>4
  DEF auctionWin, TypeOK, allowVars, exposureVars, batchVars, ownerVars, worldVars

LEMMA OwnerStepTypes ==
  ASSUME TypeOK, OwnerStep
  PROVE  TypeOK'
<1>1. RegistryTypeOK'
  BY DEF OwnerStep, TypeOK, RegistryTypeOK, registryVars, bondVars, slashVars, scoreVars
<1>2. ledger \in Ledgers /\ nonceUsed \in SUBSET NonceKeys /\ approved \in SUBSET Owners
      /\ movedOut \in [Owners -> [Tokens -> Int]] /\ Owners \subseteq Accounts
  BY DEF TypeOK, Ledgers, Accounts
<1>3. /\ ledger' \in Ledgers /\ nonceUsed' \in SUBSET NonceKeys /\ approved' \in SUBSET Owners
      /\ movedOut' \in [Owners -> [Tokens -> Int]]
  <2>1. ASSUME NEW o \in Owners, NEW t \in Tokens, moveFunds(o, t)
        PROVE  ledger' \in Ledgers /\ movedOut' \in [Owners -> [Tokens -> Int]]
    <3>1. ledger[o][t] \in Int /\ o \in Accounts
      BY <1>2 DEF Ledgers
    <3>2. ledger' \in Ledgers
      BY <1>2, <2>1, <3>1 DEF moveFunds, Ledgers
    <3>3. movedOut' \in [Owners -> [Tokens -> Int]]
      BY <1>2, <2>1, <3>1 DEF moveFunds
    <3>4. QED  BY <3>2, <3>3
  <2>2. CASE \E o \in Owners, t \in Tokens : moveFunds(o, t)
    BY <1>2, <2>1, <2>2 DEF moveFunds
  <2>3. CASE \E o \in Owners : setApproval(o)
    BY <1>2, <2>3 DEF setApproval
  <2>4. CASE \E key \in NonceKeys : invalidateNonce(key)
    BY <1>2, <2>4 DEF invalidateNonce
  <2>5. QED  BY <2>2, <2>3, <2>4 DEF OwnerStep
<1>4. QED
  BY <1>1, <1>3 DEF OwnerStep, TypeOK, Ledgers, allowVars, exposureVars, batchVars, worldVars,
                    historyVars

LEMMA OtherTypes ==
  ASSUME TypeOK, pause \/ GovernorStep \/ MarketStep \/ Tick
  PROVE  TypeOK'
<1> USE DEF TypeOK, allowVars, exposureVars, batchVars, ownerVars, worldVars, historyVars
<1>1. CASE pause
  <2>1. RegistryTypeOK'
    BY <1>1 DEF pause, RegistryTypeOK, registryVars, bondVars, slashVars, scoreVars
  <2>2. pausedUntil' \in 0..MaxTime
    BY <1>1, RegistryAssumption, SettlementAssumption DEF pause, RegistryTypeOK
  <2>3. QED  BY <1>1, <2>1, <2>2 DEF pause
<1>2. CASE GovernorStep
  <2>1. RegistryTypeOK'
    BY <1>2 DEF GovernorStep, RegistryTypeOK, registryVars, bondVars, slashVars, scoreVars
  <2>2. QED
    BY <1>2, <2>1
    DEF GovernorStep, setTokenAllowed, setAdapterAllowed, setBaselineAdapter, setExposureCaps
<1>3. CASE MarketStep
  <2>1. RegistryTypeOK'
    BY <1>3 DEF MarketStep, RegistryTypeOK, registryVars, bondVars, slashVars, scoreVars
  <2>2. /\ uiMultiplier' \in [Tokens -> Multipliers]
        /\ spread' \in Spreads /\ readable' \in BOOLEAN
        /\ healthy' \in SUBSET Tokens
        /\ calendar' \in [Batches -> Calendars]
    <3>1. ASSUME NEW t \in Tokens, NEW m \in Multipliers, uiMultiplier' = [uiMultiplier EXCEPT ![t] = m]
          PROVE  uiMultiplier' \in [Tokens -> Multipliers]
      BY <3>1
    <3>2. ASSUME NEW b \in Batches, NEW c \in Calendars, calendar' = [calendar EXCEPT ![b] = c]
          PROVE  calendar' \in [Batches -> Calendars]
      BY <3>2
    <3>3. uiMultiplier' \in [Tokens -> Multipliers]
      BY <1>3, <3>1 DEF MarketStep
    <3>4. calendar' \in [Batches -> Calendars]
      BY <1>3, <3>2 DEF MarketStep
    <3>5. spread' \in Spreads /\ readable' \in BOOLEAN /\ healthy' \in SUBSET Tokens
      BY <1>3 DEF MarketStep
    <3>6. QED  BY <3>3, <3>4, <3>5
  <2>3. UNCHANGED <<allowVars, exposureVars, batchVars, pausedUntil, ownerVars, acting, historyVars>>
    BY <1>3 DEF MarketStep
  <2>4. QED  BY <2>1, <2>2, <2>3
<1>4. CASE Tick
  <2>1. RegistryTypeOK'
    BY <1>4, RegistryAssumption DEF Tick, RegistryTypeOK, registryVars, bondVars, slashVars, scoreVars
  <2>2. QED  BY <1>4, <2>1 DEF Tick
<1>5. QED  BY <1>1, <1>2, <1>3, <1>4

LEMMA StutterTypes == TypeOK /\ UNCHANGED vars => TypeOK'
BY DEF TypeOK, RegistryTypeOK, vars, registryVars, bondVars, slashVars, scoreVars, allowVars,
       exposureVars, batchVars, ownerVars, worldVars, historyVars

\* Only a submission writes the record of a winner, after verify accepted it.
LEMMA RecordedStep ==
  ASSUME TypeOK, RecordedInv, [Next]_vars
  PROVE  RecordedInv'
<1>1. ASSUME NEW solver \in Solvers, NEW s \in Solutions, submitSolution(solver, s)
      PROVE  RecordedInv'
  <2> DEFINE rec == [solution |-> s, savings |-> s.claimedSavings, solver |-> solver,
                     multiplierHash |-> multiplierHash(s)]
  <2>1. best' = best \/ best' = [best EXCEPT ![s.batchId] = rec]
    BY <1>1 DEF submitSolution
  <2>2. WithinLimits(s)
    BY <1>1 DEF submitSolution, verifyReturns, venueCallsAllowed, Verifies, checkExecution,
                WithinLimits
  <2>3. rec.solution = s
    OBVIOUS
  <2> HIDE DEF rec
  <2>4. QED  BY <2>1, <2>2, <2>3 DEF RecordedInv, TypeOK
<1>2. CASE UNCHANGED best
  BY <1>2 DEF RecordedInv
<1>3. QED
  BY <1>1, <1>2
  DEF Next, finalizeUnwind, finalizeSettle, expireBatch, pause, GovernorStep, OwnerStep,
      MarketStep, RegistryStep, AuctionStep, auctionWin, Tick, batchVars, vars

LEMMA TypesAndRecords == Spec => [](TypeOK /\ RecordedInv)
<1>1. Init => TypeOK /\ RecordedInv
  BY InitTypes DEF Init, RecordedInv
<1>2. TypeOK /\ RecordedInv /\ [Next]_vars => TypeOK'
  BY SubmitTypes, UnwindTypes, SettleTypes, ExpireTypes, RegistryStepTypes, AuctionStepTypes,
     OwnerStepTypes, OtherTypes, StutterTypes
  DEF Next
<1>3. QED  BY <1>1, <1>2, RecordedStep, PTL DEF Spec

\* Type correctness of the settlement core: in particular a slash never takes
\* more than the bond, no day is charged outside the modelled days and a
\* recorded winner is always a whole record of a bonded address.
THEOREM TypeCorrect == Spec => []TypeOK
BY TypesAndRecords, PTL

----------------------------------------------------------------------------
(* The bond outlives the duty. *)

\* Only submissions write the record of a winner, and only for an active
\* solver inside the window.
LEMMA BestMoves ==
  ASSUME TypeOK, Next, NEW b \in Batches, best'[b] # best[b]
  PROVE  /\ now > b
         /\ unbondAvailableAt[best'[b].solver] = 0
         /\ unbondAvailableAt' = unbondAvailableAt
         /\ now' = now
<1>1. ASSUME NEW solver \in Solvers, NEW s \in Solutions, submitSolution(solver, s)
      PROVE  /\ now > b /\ unbondAvailableAt[best'[b].solver] = 0
             /\ unbondAvailableAt' = unbondAvailableAt /\ now' = now
  <2>1. best' = [best EXCEPT ![s.batchId] =
                   [solution |-> s, savings |-> s.claimedSavings, solver |-> solver,
                    multiplierHash |-> multiplierHash(s)]]
    BY <1>1 DEF submitSolution
  <2>2. b = s.batchId /\ best'[b].solver = solver
    BY <2>1 DEF TypeOK
  <2>3. isActive(solver) /\ collectEnd(s.batchId) < now /\ UNCHANGED <<now, registryVars>>
    BY <1>1 DEF submitSolution, inWindow
  <2>4. b \in Nat /\ now \in Nat
    BY SettlementAssumption, RegistryAssumption DEF TypeOK, RegistryTypeOK
  <2>5. QED  BY <2>2, <2>3, <2>4 DEF isActive, collectEnd, registryVars, bondVars
<1>2. ASSUME UNCHANGED best
      PROVE  FALSE
  BY <1>2
<1>3. QED
  BY <1>1, <1>2
  DEF Next, finalizeUnwind, finalizeSettle, expireBatch, pause, GovernorStep, OwnerStep,
      MarketStep, RegistryStep, AuctionStep, auctionWin, Tick, batchVars

\* How an exit moves: not at all, or cancelled, or started anew.
LEMMA ExitMoves ==
  ASSUME TypeOK, Next, NEW s \in Solvers
  PROVE  unbondAvailableAt'[s] \in {unbondAvailableAt[s], 0, now + UNBOND_COOLDOWN}
<1>1. CASE UNCHANGED unbondAvailableAt
  BY <1>1
<1>2. ASSUME NEW u \in Solvers, NEW amount \in BondAmounts, bond(u, amount)
      PROVE  unbondAvailableAt'[s] \in {unbondAvailableAt[s], 0}
  BY <1>2 DEF bond, TypeOK, RegistryTypeOK
<1>3. ASSUME NEW u \in Solvers, requestUnbond(u)
      PROVE  unbondAvailableAt'[s] \in {unbondAvailableAt[s], now + UNBOND_COOLDOWN}
  BY <1>3 DEF requestUnbond, TypeOK, RegistryTypeOK
<1>4. ASSUME NEW u \in Solvers, withdrawBond(u)
      PROVE  unbondAvailableAt'[s] \in {unbondAvailableAt[s], 0}
  BY <1>4 DEF withdrawBond, TypeOK, RegistryTypeOK
<1>5. CASE RegistryStep
  BY <1>1, <1>2, <1>3, <1>4, <1>5
  DEF RegistryStep, SolverExit, GovernorCall, slash, setMinBond, bondVars
<1>6. QED
  BY <1>1, <1>5
  DEF Next, submitSolution, finalizeUnwind, finalizeSettle, settleFees, recordWin, expireBatch,
      reportFailedFinalize, pause, GovernorStep, OwnerStep, MarketStep, AuctionStep, auctionWin, Tick,
      registryVars, bondVars

LEMMA TimeMoves ==
  ASSUME TypeOK, Next
  PROVE  now' >= now
<1>1. now \in Nat
  BY RegistryAssumption DEF TypeOK, RegistryTypeOK
<1>2. CASE now' = now
  BY <1>1, <1>2
<1>3. CASE Tick
  BY <1>1, <1>3 DEF Tick
<1>4. QED
  BY <1>2, <1>3
  DEF Next, submitSolution, finalizeUnwind, finalizeSettle, expireBatch, pause, GovernorStep,
      OwnerStep, MarketStep, RegistryStep, AuctionStep, auctionWin

\* The invariant behind BondOutlivesDuty holds on every reachable state: a
\* solver was active when its solution was recorded, so an exit it starts can
\* end only a whole cooldown later.
THEOREM DutyInvariant == Spec => [](TypeOK /\ DutyInv)
<1>1. Init => DutyInv
  BY DEF Init, DutyInv
<1>2. ASSUME TypeOK, TypeOK', DutyInv, Next
      PROVE  DutyInv'
  <2> SUFFICES ASSUME NEW b \in Batches, best'[b] # NoBest
               PROVE  /\ now' > b
                      /\ unbondAvailableAt'[best'[b].solver] # 0 =>
                           unbondAvailableAt'[best'[b].solver] > b + UNBOND_COOLDOWN
    BY DEF DutyInv
  <2>1. b \in Nat /\ now \in Nat /\ now' \in Nat /\ UNBOND_COOLDOWN \in Nat /\ now' >= now
    <3>1. now' >= now
      BY <1>2, TimeMoves
    <3>2. QED
      BY <1>2, <3>1, SettlementAssumption, RegistryAssumption DEF TypeOK, RegistryTypeOK
  <2>2. CASE best'[b] # best[b]
    <3>1. /\ now > b /\ unbondAvailableAt[best'[b].solver] = 0
          /\ unbondAvailableAt' = unbondAvailableAt /\ now' = now
      BY <1>2, <2>2, BestMoves
    <3>2. QED  BY <3>1
  <2>3. CASE best'[b] = best[b]
    <3> DEFINE w == best[b].solver
    <3>1. w \in Solvers
      BY <1>2, <2>3, BestSolver DEF TypeOK
    <3>2. now > b /\ (unbondAvailableAt[w] # 0 => unbondAvailableAt[w] > b + UNBOND_COOLDOWN)
      BY <1>2, <2>3 DEF DutyInv
    <3> HIDE DEF w
    <3>3. unbondAvailableAt'[w] \in {unbondAvailableAt[w], 0, now + UNBOND_COOLDOWN}
      BY <1>2, <3>1, ExitMoves
    <3>4. now + UNBOND_COOLDOWN > b + UNBOND_COOLDOWN /\ now' > b
      BY <2>1, <3>2
    <3>5. unbondAvailableAt'[w] # 0 => unbondAvailableAt'[w] > b + UNBOND_COOLDOWN
      BY <3>2, <3>3, <3>4
    <3>6. QED  BY <2>3, <3>4, <3>5 DEF w
  <2>4. QED  BY <2>2, <2>3
<1>3. DutyInv /\ UNCHANGED vars => DutyInv'
  BY DEF DutyInv, vars, registryVars, bondVars, batchVars
<1>4. TypeOK /\ TypeOK' /\ DutyInv /\ [Next]_vars => DutyInv'
  BY <1>2, <1>3
<1>5. QED  BY <1>1, <1>4, TypeCorrect, PTL DEF Spec

\* A winner's bond stays in the registry until every batch it won and has not
\* retired is past its deadline, for all windows, deadlines and cooldowns with
\* UNBOND_COOLDOWN >= SOLUTION_WINDOW + FINALIZE_DEADLINE.
THEOREM BondHeld == Spec => BondOutlivesDuty
<1> DEFINE Held == \A s \in Solvers, b \in Batches :
                     /\ best[b] # NoBest
                     /\ best[b].solver = s
                     /\ ~finalized[b]
                     /\ withdrawBond(s)
                     => now > solveEnd(b) + FINALIZE_DEADLINE
<1>1. TypeOK /\ DutyInv => Held
  <2> SUFFICES ASSUME TypeOK, DutyInv, NEW s \in Solvers, NEW b \in Batches,
                      best[b] # NoBest, best[b].solver = s, withdrawBond(s)
               PROVE  now > solveEnd(b) + FINALIZE_DEADLINE
    OBVIOUS
  <2>1. /\ b \in Nat /\ now \in Nat /\ unbondAvailableAt[s] \in Nat
        /\ UNBOND_COOLDOWN \in Nat /\ SOLUTION_WINDOW \in Nat /\ FINALIZE_DEADLINE \in Nat
        /\ UNBOND_COOLDOWN >= SOLUTION_WINDOW + FINALIZE_DEADLINE
    BY SettlementAssumption, RegistryAssumption DEF TypeOK, RegistryTypeOK
  <2>2. unbondAvailableAt[s] # 0 /\ now >= unbondAvailableAt[s]
    BY DEF withdrawBond
  <2>3. unbondAvailableAt[s] > b + UNBOND_COOLDOWN
    BY <2>2 DEF DutyInv
  <2>4. QED  BY <2>1, <2>2, <2>3 DEF solveEnd
<1>2. QED  BY <1>1, DutyInvariant, PTL DEF BondOutlivesDuty

----------------------------------------------------------------------------
(* The settlement core implements BatchLifecycle. *)

\* The abstract phase and the contract's own flag tell the same story.
THEOREM EndInvariant == Spec => [](TypeOK /\ EndInv)
<1>1. Init => EndInv
  BY DEF Init, EndInv
<1>2. ASSUME TypeOK, EndInv, Next
      PROVE  EndInv'
  <2>1. ASSUME NEW b \in Batches, finalizeUnwind(b)
        PROVE  EndInv'
    BY <1>2, <2>1 DEF finalizeUnwind, finalizable, TypeOK, EndInv
  <2>2. ASSUME NEW b \in Batches, finalizeSettle(b)
        PROVE  EndInv'
    BY <1>2, <2>2 DEF finalizeSettle, finalizable, TypeOK, EndInv
  <2>3. ASSUME NEW b \in Batches, expireBatch(b)
        PROVE  EndInv'
    BY <1>2, <2>3 DEF expireBatch, expirable, TypeOK, EndInv
  <2>4. ASSUME NEW solver \in Solvers, NEW s \in Solutions, submitSolution(solver, s)
        PROVE  EndInv'
    BY <1>2, <2>4 DEF submitSolution, TypeOK, EndInv, historyVars
  <2>5. CASE UNCHANGED <<best, finalized, outcome>>
    BY <1>2, <2>5 DEF EndInv
  <2>6. QED
    BY <1>2, <2>1, <2>2, <2>3, <2>4, <2>5
    DEF Next, pause, GovernorStep, OwnerStep, MarketStep, RegistryStep, AuctionStep, auctionWin, Tick,
        batchVars, historyVars
<1>3. EndInv /\ UNCHANGED vars => EndInv'
  BY DEF EndInv, vars, batchVars, historyVars
<1>4. TypeOK /\ EndInv /\ [Next]_vars => EndInv'
  BY <1>2, <1>3
<1>5. QED  BY <1>1, <1>4, TypeCorrect, PTL DEF Spec

LEMMA InitRefines == Init => Lifecycle!LifecycleInit
<1> SUFFICES ASSUME Init PROVE Lifecycle!LifecycleInit  OBVIOUS
<1>1. AnySolver \in Solvers
  BY SettlementAssumption DEF AnySolver
<1>2. QED
  BY <1>1
  DEF Init, RegistryInit, Lifecycle!LifecycleInit, BatchPhase, BatchLeader, BatchLead, BatchWins

\* A batch about to end is, in the abstract, won.
LEMMA WonPhase ==
  ASSUME TypeOK, EndInv, NEW b \in Batches, ~finalized[b], best[b] # NoBest
  PROVE  /\ BatchPhase[b] = "won" /\ BatchLeader[b] = best[b].solver
         /\ BatchLead[b] = best[b].savings
BY DEF TypeOK, EndInv, BatchPhase, BatchLeader, BatchLead

\* Writing how a batch ended moves the abstract phase and nothing else.
LEMMA EndPhase ==
  ASSUME TypeOK, NEW b \in Batches, NEW how \in {"settled", "unwound", "expired"},
         outcome' = [outcome EXCEPT ![b] = how], best' = best
  PROVE  /\ BatchPhase' = [BatchPhase EXCEPT ![b] = how]
         /\ BatchLeader' = BatchLeader /\ BatchLead' = BatchLead
BY DEF TypeOK, BatchPhase, BatchLeader, BatchLead

LEMMA UnwindRefines ==
  ASSUME TypeOK, EndInv, NEW b \in Batches, finalizeUnwind(b)
  PROVE  Lifecycle!Unwind(b)
<1>1. /\ ~finalized[b] /\ best[b] # NoBest /\ best' = best /\ now > solveEnd(b)
      /\ outcome' = [outcome EXCEPT ![b] = "unwound"]
      /\ UNCHANGED <<now, failedFinalizes, BatchWins>>
  BY DEF finalizeUnwind, finalizable, registryVars, scoreVars, BatchWins
<1>2. BatchPhase[b] = "won"
  BY <1>1, WonPhase
<1>3. /\ BatchPhase' = [BatchPhase EXCEPT ![b] = "unwound"]
      /\ BatchLeader' = BatchLeader /\ BatchLead' = BatchLead
  BY <1>1, EndPhase
<1>4. QED  BY <1>1, <1>2, <1>3 DEF Lifecycle!Unwind, solveEnd

LEMMA SettleRefines ==
  ASSUME TypeOK, EndInv, NEW b \in Batches, finalizeSettle(b)
  PROVE  Lifecycle!Settle(b)
<1>1. /\ ~finalized[b] /\ best[b] # NoBest /\ best' = best /\ now > solveEnd(b)
      /\ outcome' = [outcome EXCEPT ![b] = "settled"]
      /\ batchesWon' = [batchesWon EXCEPT ![best[b].solver] = @ + 1]
      /\ UNCHANGED <<now, failedFinalizes, auctionWins>>
  BY DEF finalizeSettle, finalizable, settleFees, recordWin
<1>2. BatchPhase[b] = "won" /\ BatchLeader[b] = best[b].solver
  BY <1>1, WonPhase
<1>3. /\ BatchPhase' = [BatchPhase EXCEPT ![b] = "settled"]
      /\ BatchLeader' = BatchLeader /\ BatchLead' = BatchLead
  BY <1>1, EndPhase
<1>4. BatchWins' = [BatchWins EXCEPT ![best[b].solver] = @ + 1]
  <2>1. \A s \in Solvers : batchesWon[s] \in Nat /\ auctionWins[s] \in Nat
    BY DEF TypeOK, RegistryTypeOK
  <2>2. batchesWon \in [Solvers -> Nat]
    BY DEF TypeOK, RegistryTypeOK
  <2>3. BatchWins' = [s \in Solvers |-> batchesWon'[s] - auctionWins[s]]
    BY <1>1 DEF BatchWins
  <2>4. ASSUME NEW s \in Solvers
        PROVE  batchesWon'[s] - auctionWins[s]
                 = [BatchWins EXCEPT ![best[b].solver] = @ + 1][s]
    <3>1. CASE s = best[b].solver
      <4>1. batchesWon'[s] = batchesWon[s] + 1
        BY <1>1, <2>2, <3>1
      <4>2. [BatchWins EXCEPT ![best[b].solver] = @ + 1][s] = (batchesWon[s] - auctionWins[s]) + 1
        BY <3>1 DEF BatchWins
      <4>3. QED  BY <2>1, <4>1, <4>2
    <3>2. CASE s # best[b].solver
      BY <1>1, <2>2, <3>2 DEF BatchWins
    <3>3. QED  BY <3>1, <3>2
  <2>5. QED  BY <2>3, <2>4 DEF BatchWins
<1>5. QED  BY <1>1, <1>2, <1>3, <1>4 DEF Lifecycle!Settle, solveEnd

LEMMA ExpireRefines ==
  ASSUME TypeOK, EndInv, NEW b \in Batches, expireBatch(b)
  PROVE  Lifecycle!Expire(b)
<1>1. /\ ~finalized[b] /\ best[b] # NoBest /\ best' = best
      /\ now > solveEnd(b) + FINALIZE_DEADLINE
      /\ outcome' = [outcome EXCEPT ![b] = "expired"]
      /\ failedFinalizes' = [failedFinalizes EXCEPT ![best[b].solver] = @ + 1]
      /\ UNCHANGED <<now, BatchWins>>
  BY DEF expireBatch, expirable, reportFailedFinalize, BatchWins
<1>2. BatchPhase[b] = "won" /\ BatchLeader[b] = best[b].solver
  BY <1>1, WonPhase
<1>3. /\ BatchPhase' = [BatchPhase EXCEPT ![b] = "expired"]
      /\ BatchLeader' = BatchLeader /\ BatchLead' = BatchLead
  BY <1>1, EndPhase
<1>4. QED  BY <1>1, <1>2, <1>3 DEF Lifecycle!Expire, solveEnd

LEMMA SubmitRefines ==
  ASSUME TypeOK, EndInv, NEW solver \in Solvers, NEW s \in Solutions, submitSolution(solver, s)
  PROVE  (\E b \in Batches : Lifecycle!Lead(b, solver)) \/ UNCHANGED Lifecycle!lifecycleVars
<1> DEFINE b == s.batchId
           rec == [solution |-> s, savings |-> s.claimedSavings, solver |-> solver,
                   multiplierHash |-> multiplierHash(s)]
<1>1. /\ ~finalized[b] /\ collectEnd(b) < now /\ now <= solveEnd(b)
      /\ UNCHANGED <<now, outcome, failedFinalizes, BatchWins>>
  BY DEF submitSolution, inWindow, registryVars, scoreVars, historyVars, BatchWins
<1>2. \/ best' = best
      \/ /\ best[b] = NoBest \/ ~(s.claimedSavings <= best[b].savings)
         /\ best' = [best EXCEPT ![b] = rec]
  BY DEF submitSolution
<1>3. b \in Batches /\ b \in Nat /\ s.claimedSavings \in Nat
  BY SolutionTypes
<1>4. best \in [Batches -> BestRecords \cup {NoBest}] /\ outcome[b] = "none"
      /\ outcome \in [Batches -> {"none", "settled", "unwound", "expired"}]
  BY <1>1, <1>3 DEF TypeOK, EndInv
<1>5. rec # NoBest /\ rec.solver = solver /\ rec.savings = s.claimedSavings
  <2>1. rec \in BestRecords
    <3>1. multiplierHash(s) \in UNION {[T -> Multipliers] : T \in SUBSET Tokens}
      BY HashType
    <3>2. QED  BY <1>3, <3>1 DEF BestRecords
  <2>2. QED  BY <2>1, SettlementAssumption
<1> HIDE DEF b, rec
<1>6. CASE best' = best
  BY <1>1, <1>6 DEF Lifecycle!lifecycleVars, BatchPhase, BatchLeader, BatchLead
<1>7. CASE /\ best[b] = NoBest \/ ~(s.claimedSavings <= best[b].savings)
           /\ best' = [best EXCEPT ![b] = rec]
  <2>1. BatchPhase' = [BatchPhase EXCEPT ![b] = "won"]
    BY <1>1, <1>3, <1>4, <1>5, <1>7 DEF BatchPhase
  <2>2. BatchLeader' = [BatchLeader EXCEPT ![b] = solver]
    BY <1>3, <1>4, <1>5, <1>7 DEF BatchLeader
  <2>3. BatchLead' = [BatchLead EXCEPT ![b] = s.claimedSavings]
    BY <1>3, <1>4, <1>5, <1>7 DEF BatchLead
  <2>4. BatchLead'[b] = s.claimedSavings
    BY <1>3, <2>3 DEF BatchLead
  <2>5. BatchPhase[b] = "open" \/ (BatchPhase[b] = "won" /\ BatchLead'[b] > BatchLead[b])
    <3>1. CASE best[b] = NoBest
      BY <1>3, <1>4, <3>1 DEF BatchPhase
    <3>2. CASE best[b] # NoBest
      <4>1. best[b].savings \in Nat
        BY <1>3, <1>4, <3>2, BestSolver
      <4>2. s.claimedSavings > best[b].savings
        BY <1>3, <1>7, <3>2, <4>1
      <4>3. QED  BY <1>3, <1>4, <2>4, <3>2, <4>2 DEF BatchPhase, BatchLead
    <3>3. QED  BY <3>1, <3>2
  <2>6. b < now /\ now <= b + SOLUTION_WINDOW
    BY <1>1 DEF collectEnd, solveEnd
  <2>7. Lifecycle!Lead(b, solver)
    BY <1>1, <1>3, <2>1, <2>2, <2>3, <2>4, <2>5, <2>6 DEF Lifecycle!Lead
  <2>8. QED  BY <1>3, <2>7
<1>8. QED  BY <1>2, <1>6, <1>7

\* Nobody else touches what the lifecycle sees, except that time passes.
LEMMA OthersRefine ==
  ASSUME TypeOK, pause \/ GovernorStep \/ OwnerStep \/ MarketStep \/ RegistryStep \/ AuctionStep \/ Tick
  PROVE  Lifecycle!Pass \/ UNCHANGED Lifecycle!lifecycleVars
<1>1. UNCHANGED <<best, outcome>>
  BY DEF pause, GovernorStep, OwnerStep, MarketStep, RegistryStep, AuctionStep, auctionWin, Tick, batchVars, historyVars
<1>2. UNCHANGED <<failedFinalizes, BatchWins>>
  <2>1. CASE AuctionStep
    <3>1. PICK s \in Solvers, volume \in AuctionVolumes : auctionWin(s, volume)
      BY <2>1 DEF AuctionStep
    <3>2. /\ batchesWon' = [batchesWon EXCEPT ![s] = @ + 1]
          /\ auctionWins' = [auctionWins EXCEPT ![s] = @ + 1]
          /\ failedFinalizes' = failedFinalizes
      BY <3>1 DEF auctionWin, recordWin
    <3>3. batchesWon \in [Solvers -> Nat] /\ auctionWins \in [Solvers -> Nat]
      BY DEF TypeOK, RegistryTypeOK
    <3>4. \A u \in Solvers : batchesWon'[u] - auctionWins'[u] = batchesWon[u] - auctionWins[u]
      BY <3>2, <3>3
    <3>5. QED  BY <3>2, <3>4 DEF BatchWins
  <2>2. CASE UNCHANGED <<failedFinalizes, batchesWon, auctionWins>>
    BY <2>2 DEF BatchWins
  <2>3. QED
    BY <2>1, <2>2
    DEF pause, GovernorStep, OwnerStep, MarketStep, RegistryStep, Tick, registryVars, scoreVars,
        historyVars, bond, SolverExit, requestUnbond, withdrawBond, GovernorCall, slash, setMinBond
<1>3. UNCHANGED <<BatchPhase, BatchLeader, BatchLead>>
  BY <1>1 DEF BatchPhase, BatchLeader, BatchLead
<1>4. CASE UNCHANGED now
  BY <1>2, <1>3, <1>4 DEF Lifecycle!lifecycleVars
<1>5. CASE Tick
  <2>1. now' > now
    BY <1>5 DEF Tick, TypeOK, RegistryTypeOK
  <2>2. QED  BY <1>2, <1>3, <2>1 DEF Lifecycle!Pass
<1>6. QED
  BY <1>4, <1>5 DEF pause, GovernorStep, OwnerStep, MarketStep, RegistryStep, AuctionStep, auctionWin

\* Every step of the contracts is a step of BatchLifecycle or invisible to it,
\* whatever the intents, the venue, the governor, the guardian and the owners
\* do: a batch ends at most once, the lead is sealed when the window closes and
\* only grows before, and nobody is blamed before the deadline or for a batch
\* that somebody else won.
THEOREM SettlementImplementsLifecycle == Spec => ImplementsLifecycle
<1>1. Init => Lifecycle!LifecycleInit
  BY InitRefines
<1>2. ASSUME TypeOK, EndInv, [Next]_vars
      PROVE  [Lifecycle!LifecycleNext]_(Lifecycle!lifecycleVars)
  <2>1. CASE UNCHANGED vars
    BY <2>1 DEF vars, registryVars, scoreVars, batchVars, historyVars, Lifecycle!lifecycleVars,
                BatchPhase, BatchLeader, BatchLead, BatchWins
  <2>2. CASE Next
    BY <1>2, <2>2, SubmitRefines, UnwindRefines, SettleRefines, ExpireRefines, OthersRefine
    DEF Next, Lifecycle!LifecycleNext
  <2>3. QED  BY <1>2, <2>1, <2>2
<1>3. QED
  BY <1>1, <1>2, EndInvariant, PTL DEF Spec, ImplementsLifecycle, Lifecycle!LifecycleSpec

----------------------------------------------------------------------------
(* The registry holds the bonds it owes. *)

\* Moving one bond and the balance by the same amount keeps them equal.
LEMMA BondMoves ==
  ASSUME RegistryTypeOK, RegistrySolvent, NEW s \in Solvers,
         \A u \in Solvers : bonded'[u] \in Int,
         \A u \in Solvers \ {s} : bonded'[u] = bonded[u],
         bondBalance' = bondBalance - bonded[s] + bonded'[s]
  PROVE  RegistrySolvent'
<1>1. IsFiniteSet(Solvers)
  BY RegistryAssumption
<1>2. \A u \in Solvers : bonded[u] \in Int /\ bonded'[u] \in Int
  BY DEF RegistryTypeOK
<1>3. SumFunctionOnSet(bonded', Solvers) = SumFunctionOnSet(bonded, Solvers) - bonded[s] + bonded'[s]
  BY <1>1, <1>2, SumUpdate
<1>4. QED  BY <1>3 DEF RegistrySolvent

LEMMA TakeBondSolvent ==
  ASSUME RegistryTypeOK, RegistrySolvent, NEW s \in Solvers, NEW amount \in Nat,
         TakeBond(s, amount)
  PROVE  RegistrySolvent'
<1>1. /\ \A u \in Solvers : bonded'[u] \in Int
      /\ \A u \in Solvers \ {s} : bonded'[u] = bonded[u]
      /\ bondBalance' = bondBalance - bonded[s] + bonded'[s]
  BY DEF TakeBond, RegistryTypeOK
<1>2. QED  BY <1>1, BondMoves

\* The contract holds exactly the bonds it owes, through every top-up, exit and
\* slash, for any number of solvers (bond, withdrawBond, slash and
\* reportFailedFinalize of SolverRegistry.sol).
THEOREM RegistryBacked == Spec => []RegistrySolvent
<1>1. Init => RegistrySolvent
  <2> SUFFICES ASSUME Init PROVE RegistrySolvent  OBVIOUS
  <2>1. bondBalance = 0 /\ \A s \in Solvers : bonded[s] = 0
    BY DEF Init, RegistryInit
  <2>2. QED  BY <2>1, RegistryAssumption, SumZero DEF RegistrySolvent
<1>2. ASSUME TypeOK, RegistrySolvent, [Next]_vars
      PROVE  RegistrySolvent'
  <2>1. RegistryTypeOK
    BY <1>2 DEF TypeOK
  <2>2. CASE UNCHANGED <<bonded, bondBalance>>
    BY <1>2, <2>2 DEF RegistrySolvent
  <2>3. ASSUME NEW s \in Solvers, NEW amount \in BondAmounts, bond(s, amount)
        PROVE  RegistrySolvent'
    <3>1. amount \in Nat
      BY RegistryAssumption
    <3>2. /\ \A u \in Solvers : bonded'[u] \in Int
          /\ \A u \in Solvers \ {s} : bonded'[u] = bonded[u]
          /\ bondBalance' = bondBalance - bonded[s] + bonded'[s]
      BY <2>1, <2>3, <3>1 DEF bond, RegistryTypeOK
    <3>3. QED  BY <1>2, <2>1, <3>2, BondMoves
  <2>4. ASSUME NEW s \in Solvers, withdrawBond(s)
        PROVE  RegistrySolvent'
    <3>1. /\ \A u \in Solvers : bonded'[u] \in Int
          /\ \A u \in Solvers \ {s} : bonded'[u] = bonded[u]
          /\ bondBalance' = bondBalance - bonded[s] + bonded'[s]
      BY <2>1, <2>4 DEF withdrawBond, RegistryTypeOK
    <3>2. QED  BY <1>2, <2>1, <3>1, BondMoves
  <2>5. ASSUME NEW s \in Solvers, NEW amount \in BondAmounts, slash(s, amount)
        PROVE  RegistrySolvent'
    BY <1>2, <2>1, <2>5, TakeBondSolvent, RegistryAssumption DEF slash
  <2>6. ASSUME NEW b \in Batches, expireBatch(b)
        PROVE  RegistrySolvent'
    <3> DEFINE s == best[b].solver
               share == (bonded[s] * SLASH_FAILED_FINALIZE_BPS) \div REGISTRY_BPS
    <3>1. s \in Solvers
      BY <1>2, <2>6, BestSolver DEF expireBatch, expirable, TypeOK
    <3>2. UNCHANGED <<bonded, bondBalance>> \/ TakeBond(s, share)
      BY <2>6 DEF expireBatch, reportFailedFinalize, slashShare
    <3>3. share \in Nat
      <4>1. /\ bonded[s] \in Nat /\ REGISTRY_BPS \in Nat \ {0}
            /\ SLASH_FAILED_FINALIZE_BPS \in 0..REGISTRY_BPS
        BY <2>1, <3>1, RegistryAssumption DEF RegistryTypeOK
      <4>2. QED  BY <4>1, ShareBound
    <3> HIDE DEF share, s
    <3>4. QED  BY <1>2, <2>1, <2>2, <3>1, <3>2, <3>3, TakeBondSolvent
  <2>7. CASE RegistryStep
    BY <2>2, <2>3, <2>4, <2>5, <2>7
    DEF RegistryStep, SolverExit, GovernorCall, requestUnbond, setMinBond, bondVars
  <2>8. QED
    BY <1>2, <2>2, <2>6, <2>7
    DEF Next, submitSolution, finalizeUnwind, finalizeSettle, settleFees, recordWin, pause,
        GovernorStep, OwnerStep, MarketStep, AuctionStep, auctionWin, Tick, registryVars, bondVars, vars
<1>3. QED  BY <1>1, <1>2, TypeCorrect, PTL DEF Spec

----------------------------------------------------------------------------
(* The scoreboard counts how batches ended. *)

Ended(how, s) == {b \in Batches : outcome[b] = how /\ best[b].solver = s}

\* Ending a batch adds it to one of these sets and touches no other.
LEMMA EndedGrows ==
  ASSUME TypeOK, EndInv, NEW b \in Batches, ~finalized[b], best' = best,
         NEW end \in {"settled", "unwound", "expired"}, outcome' = [outcome EXCEPT ![b] = end],
         NEW how \in {"settled", "expired"}, NEW s
  PROVE  Cardinality(Ended(how, s)') =
           Cardinality(Ended(how, s)) + (IF how = end /\ best[b].solver = s THEN 1 ELSE 0)
<1>1. IsFiniteSet(Ended(how, s)) /\ Cardinality(Ended(how, s)) \in Nat
  BY AccountsAssumption, FS_Subset, FS_CardinalityType DEF Ended
<1>2. outcome[b] = "none" /\ b \notin Ended(how, s)
  BY DEF EndInv, TypeOK, Ended
<1>3. CASE how = end /\ best[b].solver = s
  <2>1. Ended(how, s)' = Ended(how, s) \cup {b}
    BY <1>3 DEF Ended, TypeOK
  <2>2. Cardinality(Ended(how, s) \cup {b}) = Cardinality(Ended(how, s)) + 1
    BY <1>1, <1>2, FS_AddElement
  <2>3. QED  BY <1>3, <2>1, <2>2
<1>4. CASE ~(how = end /\ best[b].solver = s)
  <2>1. Ended(how, s)' = Ended(how, s)
    BY <1>2, <1>4 DEF Ended, TypeOK
  <2>2. Cardinality(Ended(how, s)') = Cardinality(Ended(how, s)) + 0
    BY <1>1, <2>1
  <2>3. QED  BY <1>4, <2>2
<1>5. QED  BY <1>3, <1>4

LEMMA EndedCount ==
  ASSUME NEW how, NEW s
  PROVE  Cardinality(Ended(how, s)) \in Nat
BY AccountsAssumption, FS_Subset, FS_CardinalityType DEF Ended

\* A failed finalize for each expired batch, a win for each settled one and for
\* each auction that reported the solver: no batch is counted twice, forgotten
\* or counted for somebody else (expireBatch and finalize of Settlement.sol,
\* executeCross of AuctionHouse.sol, the counters of SolverRegistry.sol).
THEOREM ScoresExact == Spec => []ScoresMatchOutcomes
<1> DEFINE Scores == \A s \in Solvers :
                       /\ failedFinalizes[s] = Cardinality(Ended("expired", s))
                       /\ batchesWon[s] = Cardinality(Ended("settled", s)) + auctionWins[s]
<1>1. ScoresMatchOutcomes <=> Scores
  BY DEF ScoresMatchOutcomes, Ended
<1>2. Init => Scores
  <2> SUFFICES ASSUME Init, NEW s \in Solvers
               PROVE  /\ failedFinalizes[s] = Cardinality(Ended("expired", s))
                      /\ batchesWon[s] = Cardinality(Ended("settled", s)) + auctionWins[s]
    OBVIOUS
  <2>1. Ended("expired", s) = {} /\ Ended("settled", s) = {}
    BY DEF Init, Ended
  <2>2. Cardinality({}) = 0
    BY FS_EmptySet
  <2>3. failedFinalizes[s] = 0 /\ batchesWon[s] = 0 /\ auctionWins[s] = 0
    BY DEF Init, RegistryInit
  <2>4. QED  BY <2>1, <2>2, <2>3
<1>3. ASSUME TypeOK, EndInv, Scores, [Next]_vars
      PROVE  Scores'
  <2> DEFINE failed(s) == Cardinality(Ended("expired", s))
             won(s) == Cardinality(Ended("settled", s))
  <2>0. \A s \in Solvers : /\ failed(s) \in Nat /\ won(s) \in Nat
                            /\ failedFinalizes[s] \in Nat /\ batchesWon[s] \in Nat
                            /\ auctionWins[s] \in Nat
    BY <1>3, EndedCount DEF TypeOK, RegistryTypeOK
  <2>1. ASSUME NEW b \in Batches, finalizeUnwind(b)
        PROVE  Scores'
    <3>1. /\ ~finalized[b] /\ best' = best /\ outcome' = [outcome EXCEPT ![b] = "unwound"]
          /\ UNCHANGED <<failedFinalizes, batchesWon, auctionWins>>
      BY <2>1 DEF finalizeUnwind, finalizable, registryVars, scoreVars
    <3> SUFFICES ASSUME NEW s \in Solvers
                 PROVE  /\ failedFinalizes'[s] = Cardinality(Ended("expired", s)')
                        /\ batchesWon'[s] = Cardinality(Ended("settled", s)') + auctionWins'[s]
      OBVIOUS
    <3>2. /\ Cardinality(Ended("expired", s)') = failed(s) + 0
          /\ Cardinality(Ended("settled", s)') = won(s) + 0
      BY <1>3, <3>1, EndedGrows
    <3>3. failedFinalizes[s] = failed(s) /\ batchesWon[s] = won(s) + auctionWins[s]
      BY <1>3
    <3> HIDE DEF failed, won
    <3>4. QED  BY <2>0, <3>1, <3>2, <3>3
  <2>2. ASSUME NEW b \in Batches, finalizeSettle(b)
        PROVE  Scores'
    <3>1. /\ ~finalized[b] /\ best' = best /\ outcome' = [outcome EXCEPT ![b] = "settled"]
          /\ UNCHANGED <<failedFinalizes, auctionWins>>
          /\ batchesWon' = [batchesWon EXCEPT ![best[b].solver] = @ + 1]
      BY <2>2 DEF finalizeSettle, finalizable, settleFees, recordWin
    <3> SUFFICES ASSUME NEW s \in Solvers
                 PROVE  /\ failedFinalizes'[s] = Cardinality(Ended("expired", s)')
                        /\ batchesWon'[s] = Cardinality(Ended("settled", s)') + auctionWins'[s]
      OBVIOUS
    <3>2. /\ Cardinality(Ended("expired", s)') = failed(s) + 0
          /\ Cardinality(Ended("settled", s)') = won(s) + (IF best[b].solver = s THEN 1 ELSE 0)
      BY <1>3, <3>1, EndedGrows
    <3>3. failedFinalizes[s] = failed(s) /\ batchesWon[s] = won(s) + auctionWins[s]
      BY <1>3
    <3>4. batchesWon'[s] = batchesWon[s] + (IF best[b].solver = s THEN 1 ELSE 0)
      BY <1>3, <2>0, <3>1 DEF TypeOK, RegistryTypeOK
    <3> HIDE DEF failed, won
    <3>5. QED  BY <2>0, <3>1, <3>2, <3>3, <3>4
  <2>3. ASSUME NEW b \in Batches, expireBatch(b)
        PROVE  Scores'
    <3>1. /\ ~finalized[b] /\ best' = best /\ outcome' = [outcome EXCEPT ![b] = "expired"]
          /\ UNCHANGED <<batchesWon, auctionWins>>
          /\ failedFinalizes' = [failedFinalizes EXCEPT ![best[b].solver] = @ + 1]
      BY <2>3 DEF expireBatch, expirable, reportFailedFinalize
    <3> SUFFICES ASSUME NEW s \in Solvers
                 PROVE  /\ failedFinalizes'[s] = Cardinality(Ended("expired", s)')
                        /\ batchesWon'[s] = Cardinality(Ended("settled", s)') + auctionWins'[s]
      OBVIOUS
    <3>2. /\ Cardinality(Ended("expired", s)') = failed(s) + (IF best[b].solver = s THEN 1 ELSE 0)
          /\ Cardinality(Ended("settled", s)') = won(s) + 0
      BY <1>3, <3>1, EndedGrows
    <3>3. failedFinalizes[s] = failed(s) /\ batchesWon[s] = won(s) + auctionWins[s]
      BY <1>3
    <3>4. failedFinalizes'[s] = failedFinalizes[s] + (IF best[b].solver = s THEN 1 ELSE 0)
      BY <1>3, <2>0, <3>1 DEF TypeOK, RegistryTypeOK
    <3> HIDE DEF failed, won
    <3>5. QED  BY <2>0, <3>1, <3>2, <3>3, <3>4
  <2>4. ASSUME outcome' = outcome, \A b \in Batches : outcome[b] = "none" \/ best'[b] = best[b], NEW s
        PROVE  Ended("expired", s)' = Ended("expired", s) /\ Ended("settled", s)' = Ended("settled", s)
    BY <2>4 DEF Ended
  <2>5. CASE /\ UNCHANGED <<failedFinalizes, batchesWon, auctionWins, outcome>>
             /\ \A b \in Batches : outcome[b] = "none" \/ best'[b] = best[b]
    BY <1>3, <2>4, <2>5
  <2>6. ASSUME NEW solver \in Solvers, NEW s \in Solutions, submitSolution(solver, s)
        PROVE  Scores'
    <3>1. /\ UNCHANGED <<failedFinalizes, batchesWon, auctionWins, outcome>>
          /\ ~finalized[s.batchId] /\ s.batchId \in Batches
      BY <2>6, SolutionTypes DEF submitSolution, registryVars, scoreVars, historyVars
    <3>2. outcome[s.batchId] = "none"
      BY <1>3, <3>1 DEF EndInv, TypeOK
    <3>3. \A b \in Batches : b = s.batchId \/ best'[b] = best[b]
      BY <1>3, <2>6 DEF submitSolution, TypeOK
    <3>4. QED  BY <2>5, <3>1, <3>2, <3>3
  <2>7. ASSUME NEW u \in Solvers, NEW volume \in AuctionVolumes, auctionWin(u, volume)
        PROVE  Scores'
    <3>1. /\ UNCHANGED <<failedFinalizes, outcome, best>>
          /\ batchesWon' = [batchesWon EXCEPT ![u] = @ + 1]
          /\ auctionWins' = [auctionWins EXCEPT ![u] = @ + 1]
      BY <2>7 DEF auctionWin, recordWin, batchVars
    <3> SUFFICES ASSUME NEW s \in Solvers
                 PROVE  /\ failedFinalizes'[s] = Cardinality(Ended("expired", s)')
                        /\ batchesWon'[s] = Cardinality(Ended("settled", s)') + auctionWins'[s]
      OBVIOUS
    <3>2. /\ Cardinality(Ended("expired", s)') = failed(s)
          /\ Cardinality(Ended("settled", s)') = won(s)
      BY <2>4, <3>1
    <3>3. failedFinalizes[s] = failed(s) /\ batchesWon[s] = won(s) + auctionWins[s]
      BY <1>3
    <3>4. /\ batchesWon'[s] = batchesWon[s] + (IF u = s THEN 1 ELSE 0)
          /\ auctionWins'[s] = auctionWins[s] + (IF u = s THEN 1 ELSE 0)
      BY <1>3, <2>0, <3>1 DEF TypeOK, RegistryTypeOK
    <3> HIDE DEF failed, won
    <3>5. QED  BY <2>0, <3>1, <3>2, <3>3, <3>4
  <2>8. CASE UNCHANGED <<failedFinalizes, batchesWon, auctionWins, outcome, best>>
    BY <2>5, <2>8
  <2>9. CASE RegistryStep
    BY <2>8, <2>9
    DEF RegistryStep, bond, SolverExit, requestUnbond, withdrawBond, GovernorCall, slash, setMinBond,
        scoreVars, batchVars, historyVars
  <2>10. QED
    BY <1>3, <2>1, <2>2, <2>3, <2>6, <2>7, <2>8, <2>9
    DEF Next, pause, GovernorStep, OwnerStep, MarketStep, AuctionStep, Tick, registryVars, scoreVars,
        batchVars, historyVars, vars
<1>4. TypeOK /\ EndInv /\ Scores /\ [Next]_vars => Scores'
  BY <1>3
<1>5. QED  BY <1>1, <1>2, <1>4, EndInvariant, PTL DEF Spec

----------------------------------------------------------------------------
(* A signature settles at most once, and as it was signed. *)

\* What every executed leg has behind it.
FillsInv ==
  /\ IsFiniteSet(fills)
  /\ \A f \in fills : /\ f.batch \in Batches /\ outcome[f.batch] = "settled"
                      /\ f.executedSell \in Nat /\ f.executedBuy \in Nat
                      /\ <<f.intent.owner, f.intent.nonce>> \in nonceUsed

\* A batch settles only when Permit2 transferred each of its legs.
LEMMA AllCollected ==
  ASSUME NEW s \in Solutions, collected(s) = Len(s.executions)
  PROVE  \A k \in Legs(s) : permitTransfers(s, k)
<1> DEFINE n == Len(s.executions)
           K == {k \in Legs(s) : \A j \in 1..k : permitTransfers(s, j)}
<1>1. n \in Nat /\ Legs(s) = 1..n
  BY SolutionTypes
<1>2. IsFiniteSet(1..n) /\ Cardinality(1..n) = n
  BY <1>1, FS_Interval
<1>3. K \subseteq 1..n /\ Cardinality(K) = n
  BY <1>1 DEF collected
<1> HIDE DEF K, n
<1>4. K = 1..n
  BY <1>2, <1>3, FS_Subset
<1> USE DEF K
<1>5. ASSUME NEW k \in 1..n
      PROVE  permitTransfers(s, k)
  <2>1. k \in K /\ k \in 1..k
    BY <1>4
  <2>2. QED  BY <2>1
<1>6. QED  BY <1>1, <1>5

\* The fills of a batch that settles.
LEMMA NewFills ==
  ASSUME TypeOK, RecordedInv, NEW b \in Batches, finalizeSettle(b)
  PROVE  LET s == best[b].solution
         IN  /\ s \in Solutions /\ s.batchId = b
             /\ fills' = fills \cup {Fill(s, k) : k \in Legs(s)}
             /\ \A k \in Legs(s) :
                  LET f == Fill(s, k)
                  IN  /\ permitTransfers(s, k)
                      /\ f.batch = b /\ f.executedSell \in Nat /\ f.executedBuy \in Nat
                      /\ <<f.intent.owner, f.intent.nonce>> \in nonceUsed' \ nonceUsed
                      /\ f.executedSell <= f.intent.sellAmount
                      /\ f.executedBuy * f.intent.sellAmount >= f.intent.minBuyAmount * f.executedSell
                      /\ f.session \in f.intent.allowedSessions
<1> DEFINE s == best[b].solution
<1>1. s \in Solutions /\ s.batchId = b /\ WithinLimits(s)
  BY BestSolver DEF finalizeSettle, finalizable, TypeOK, RecordedInv
<1>2. /\ fills' = fills \cup {Fill(s, k) : k \in Legs(s)}
      /\ nonceUsed' = nonceUsed \cup {NonceKey(s, k) : k \in Legs(s)}
      /\ collected(s) = Len(s.executions) /\ pullReturns(s)
  BY DEF finalizeSettle, finalizable
<1> HIDE DEF s
<1>3. ASSUME NEW k \in Legs(s)
      PROVE  LET f == Fill(s, k)
             IN  /\ permitTransfers(s, k)
                 /\ f.batch = b /\ f.executedSell \in Nat /\ f.executedBuy \in Nat
                 /\ <<f.intent.owner, f.intent.nonce>> \in nonceUsed' \ nonceUsed
                 /\ f.executedSell <= f.intent.sellAmount
                 /\ f.executedBuy * f.intent.sellAmount >= f.intent.minBuyAmount * f.executedSell
                 /\ f.session \in f.intent.allowedSessions
  <2> DEFINE f == Fill(s, k)
  <2>1. permitTransfers(s, k)
    BY <1>1, <1>2, AllCollected
  <2>2. f.batch = b /\ f.executedSell \in Nat /\ f.executedBuy \in Nat
    BY <1>1, SettlementAssumption DEF Fill, WellTyped
  <2>3. <<f.intent.owner, f.intent.nonce>> = NonceKey(s, k)
    BY DEF Fill, NonceKey
  <2>4. NonceKey(s, k) \notin nonceUsed /\ NonceKey(s, k) \in nonceUsed'
    BY <1>2, <2>1 DEF permitTransfers
  <2>5. /\ f.executedSell <= f.intent.sellAmount
        /\ f.executedBuy * f.intent.sellAmount >= f.intent.minBuyAmount * f.executedSell
    BY <1>1 DEF WithinLimits, limitRespected, Fill
  <2>6. f.session \in f.intent.allowedSessions
    <3>1. k <= collected(s) + 1
      BY <1>1, <1>2, SolutionTypes
    <3>2. QED  BY <1>2, <3>1 DEF pullReturns, Fill
  <2> HIDE DEF f
  <2>7. QED  BY <2>1, <2>2, <2>3, <2>4, <2>5, <2>6 DEF f
<1>4. QED  BY <1>1, <1>2, <1>3 DEF s

\* Apart from a settlement nothing touches the fills, no nonce is ever freed
\* and a batch that settled stays so.
LEMMA FillsStand ==
  ASSUME TypeOK, EndInv, [Next]_vars, \A b \in Batches : ~finalizeSettle(b)
  PROVE  /\ fills' = fills /\ nonceUsed \subseteq nonceUsed'
         /\ \A b \in Batches : outcome[b] = "settled" => outcome'[b] = "settled"
<1>1. ASSUME NEW b \in Batches, finalizeUnwind(b)
      PROVE  /\ fills' = fills /\ nonceUsed \subseteq nonceUsed'
             /\ \A c \in Batches : outcome[c] = "settled" => outcome'[c] = "settled"
  <2>1. outcome[b] = "none" /\ outcome' = [outcome EXCEPT ![b] = "unwound"]
    BY <1>1 DEF finalizeUnwind, finalizable, EndInv, TypeOK
  <2>2. QED  BY <1>1, <2>1 DEF finalizeUnwind, TypeOK
<1>2. ASSUME NEW b \in Batches, expireBatch(b)
      PROVE  /\ fills' = fills /\ nonceUsed \subseteq nonceUsed'
             /\ \A c \in Batches : outcome[c] = "settled" => outcome'[c] = "settled"
  <2>1. outcome[b] = "none" /\ outcome' = [outcome EXCEPT ![b] = "expired"]
    BY <1>2 DEF expireBatch, expirable, EndInv, TypeOK
  <2>2. QED  BY <1>2, <2>1 DEF expireBatch, TypeOK, ownerVars
<1>3. CASE OwnerStep
  BY <1>3 DEF OwnerStep, moveFunds, setApproval, invalidateNonce, historyVars
<1>4. CASE UNCHANGED <<fills, nonceUsed, outcome>>
  BY <1>4
<1>5. QED
  BY <1>1, <1>2, <1>3, <1>4
  DEF Next, submitSolution, pause, GovernorStep, MarketStep, RegistryStep, AuctionStep, auctionWin, Tick, ownerVars,
      historyVars, vars

LEMMA FillsStep ==
  ASSUME TypeOK, RecordedInv, EndInv, FillsInv, [Next]_vars
  PROVE  FillsInv'
<1>1. ASSUME NEW b \in Batches, finalizeSettle(b)
      PROVE  FillsInv'
  <2> DEFINE s == best[b].solution
             new == {Fill(s, k) : k \in Legs(s)}
  <2>1. s \in Solutions /\ fills' = fills \cup new
    BY <1>1, NewFills
  <2>2. \A f \in new : /\ f.batch = b /\ f.executedSell \in Nat /\ f.executedBuy \in Nat
                       /\ <<f.intent.owner, f.intent.nonce>> \in nonceUsed'
    BY <1>1, NewFills
  <2>3. IsFiniteSet(new)
    <3> DEFINE m == [k \in Legs(s) |-> Fill(s, k)]
    <3>1. m \in Surjection(Legs(s), new)
      BY DEF Surjection
    <3>2. QED  BY <2>1, <3>1, SolutionTypes, FS_Surjection
  <2>4. outcome' = [outcome EXCEPT ![b] = "settled"] /\ nonceUsed \subseteq nonceUsed'
    BY <1>1 DEF finalizeSettle
  <2> HIDE DEF new
  <2>5. IsFiniteSet(fills')
    BY <2>1, <2>3, FS_Union DEF FillsInv
  <2>6. \A f \in fills' : /\ f.batch \in Batches /\ outcome'[f.batch] = "settled"
                          /\ f.executedSell \in Nat /\ f.executedBuy \in Nat
                          /\ <<f.intent.owner, f.intent.nonce>> \in nonceUsed'
    BY <2>1, <2>2, <2>4 DEF FillsInv, TypeOK
  <2>7. QED  BY <2>5, <2>6 DEF FillsInv
<1>2. CASE \A b \in Batches : ~finalizeSettle(b)
  <2>1. /\ fills' = fills /\ nonceUsed \subseteq nonceUsed'
        /\ \A b \in Batches : outcome[b] = "settled" => outcome'[b] = "settled"
    BY <1>2, FillsStand
  <2>2. QED  BY <2>1 DEF FillsInv
<1>3. QED  BY <1>1, <1>2

\* All that the accounts below rest on.
LEMMA SettlementInvariants == Spec => [](TypeOK /\ RecordedInv /\ EndInv /\ FillsInv)
<1>1. Init => FillsInv
  BY FS_EmptySet DEF Init, FillsInv
<1>2. QED  BY <1>1, FillsStep, TypesAndRecords, EndInvariant, PTL DEF Spec

\* A signature settles at most once over all batches, within its amount, its
\* limit and its sessions (Permit2's nonces, _verify and _pull together).
THEOREM SignaturesRespected == Spec => []SettledAsSigned
<1>1. Init => SettledAsSigned
  BY DEF Init, SettledAsSigned
<1>2. ASSUME TypeOK, RecordedInv, EndInv, FillsInv, SettledAsSigned, [Next]_vars
      PROVE  SettledAsSigned'
  <2>1. ASSUME NEW b \in Batches, finalizeSettle(b)
        PROVE  SettledAsSigned'
    <3> DEFINE s == best[b].solution
    <3>1. s \in Solutions /\ fills' = fills \cup {Fill(s, k) : k \in Legs(s)}
          /\ outcome'[b] = "settled" /\ \A f \in fills : outcome'[f.batch] = "settled"
      <4>1. s \in Solutions /\ fills' = fills \cup {Fill(s, k) : k \in Legs(s)}
        BY <1>2, <2>1, NewFills
      <4>2. outcome' = [outcome EXCEPT ![b] = "settled"]
        BY <2>1 DEF finalizeSettle
      <4>3. \A f \in fills : f.batch \in Batches /\ outcome[f.batch] = "settled"
        BY <1>2 DEF FillsInv
      <4> HIDE DEF s
      <4>4. QED  BY <1>2, <4>1, <4>2, <4>3 DEF TypeOK
    <3>2. \A k \in Legs(s) :
            LET f == Fill(s, k)
            IN  /\ permitTransfers(s, k)
                /\ f.batch = b
                /\ <<f.intent.owner, f.intent.nonce>> \in nonceUsed' \ nonceUsed
                /\ f.executedSell <= f.intent.sellAmount
                /\ f.executedBuy * f.intent.sellAmount >= f.intent.minBuyAmount * f.executedSell
                /\ f.session \in f.intent.allowedSessions
      BY <1>2, <2>1, NewFills
    <3> HIDE DEF s
    <3>3. ASSUME NEW j \in Legs(s), NEW k \in Legs(s), NonceKey(s, j) = NonceKey(s, k)
          PROVE  j = k
      <4>1. j \in Nat /\ k \in Nat /\ j >= 1 /\ k >= 1
        BY <3>1, SolutionTypes
      <4>2. ~(j \in 1..(k - 1)) /\ ~(k \in 1..(j - 1))
        BY <3>2, <3>3 DEF permitTransfers
      <4>3. QED  BY <4>1, <4>2
    <3>4. ASSUME NEW f \in fills', NEW g \in fills',
                 f.intent.owner = g.intent.owner, f.intent.nonce = g.intent.nonce
          PROVE  f = g
      <4> DEFINE key(h) == <<h.intent.owner, h.intent.nonce>>
      <4>1. \A h \in fills : key(h) \in nonceUsed
        BY <1>2 DEF FillsInv
      <4>2. \A k \in Legs(s) : key(Fill(s, k)) \notin nonceUsed /\ key(Fill(s, k)) = NonceKey(s, k)
        BY <3>2 DEF Fill, NonceKey
      <4>3. key(f) = key(g)
        BY <3>4
      <4> HIDE DEF key
      <4>4. CASE f \in fills /\ g \in fills
        BY <1>2, <3>4, <4>4 DEF SettledAsSigned
      <4>5. CASE f \notin fills \/ g \notin fills
        <5>1. f \notin fills /\ g \notin fills
          BY <3>1, <4>1, <4>2, <4>3, <4>5
        <5>2. PICK j \in Legs(s), k \in Legs(s) : f = Fill(s, j) /\ g = Fill(s, k)
          BY <3>1, <5>1
        <5>3. j = k
          BY <3>3, <4>2, <4>3, <5>2
        <5>4. QED  BY <5>2, <5>3
      <4>6. QED  BY <4>4, <4>5
    <3>5. ASSUME NEW f \in fills'
          PROVE  /\ outcome'[f.batch] = "settled"
                 /\ f.executedSell <= f.intent.sellAmount
                 /\ f.executedBuy * f.intent.sellAmount >= f.intent.minBuyAmount * f.executedSell
                 /\ f.session \in f.intent.allowedSessions
      BY <1>2, <3>1, <3>2, <3>5 DEF SettledAsSigned
    <3>6. QED  BY <3>4, <3>5 DEF SettledAsSigned
  <2>2. CASE \A b \in Batches : ~finalizeSettle(b)
    <3>1. /\ fills' = fills
          /\ \A b \in Batches : outcome[b] = "settled" => outcome'[b] = "settled"
      BY <1>2, <2>2, FillsStand
    <3>2. QED  BY <1>2, <3>1 DEF SettledAsSigned, FillsInv
  <2>3. QED  BY <2>1, <2>2
<1>3. TypeOK /\ RecordedInv /\ EndInv /\ FillsInv /\ SettledAsSigned /\ [Next]_vars => SettledAsSigned'
  BY <1>2
<1>4. QED  BY <1>1, <1>3, SettlementInvariants, PTL DEF Spec

----------------------------------------------------------------------------
(* What a finalize does to the ledger. *)

\* Only owners sign and receive: nothing is pulled from, or delivered to, the
\* contract itself, and what is delivered is delivered to owners.
LEMMA PartiesAreOwners ==
  ASSUME NEW s \in Solutions, NEW n \in 0..Len(s.executions), NEW t
  PROVE  /\ SoldUpTo(s, n, {Self}, t) = 0
         /\ BoughtFor(s, {Self}, t) = 0
         /\ BoughtFor(s, Owners, t) = delivered(s, t)
<1>1. \A k \in Legs(s) : {Leg(s, k).intent.owner, Leg(s, k).intent.receiver} \subseteq Owners
  BY SettlementAssumption DEF WellTyped
<1>2. Self \notin Owners /\ 1..n \subseteq Legs(s)
  BY AccountsAssumption, SolutionTypes
<1>3. {k \in 1..n : Leg(s, k).intent.owner \in {Self} /\ Leg(s, k).intent.sellToken = t} = {}
  BY <1>1, <1>2
<1>4. {k \in Legs(s) : Leg(s, k).intent.receiver \in {Self} /\ Leg(s, k).intent.buyToken = t} = {}
  BY <1>1, <1>2
<1>5. {k \in Legs(s) : Leg(s, k).intent.receiver \in Owners /\ Leg(s, k).intent.buyToken = t}
        = {k \in Legs(s) : Leg(s, k).intent.buyToken = t}
  BY <1>1
<1>6. QED  BY <1>3, <1>4, <1>5, SumEmpty DEF SoldUpTo, BoughtFor, delivered

\* A token no leg or call of the solution names is not touched.
LEMMA UnlistedToken ==
  ASSUME NEW s \in Solutions, WithinLimits(s), NEW t, t \notin TokensOf(s), NEW sp
  PROVE  /\ \A A : SoldUpTo(s, Len(s.executions), A, t) = 0 /\ BoughtFor(s, A, t) = 0
         /\ CallIn(s, Len(s.venueCalls), t) = 0 /\ CallOut(s, Len(s.venueCalls), t, sp) = 0
<1>1. /\ \A k \in Legs(s) : Leg(s, k).intent.sellToken # t /\ Leg(s, k).intent.buyToken # t
      /\ \A v \in DOMAIN s.venueCalls : s.venueCalls[v].tokenIn # t /\ s.venueCalls[v].tokenOut # t
  BY DEF WithinLimits
<1>2. Legs(s) = 1..Len(s.executions) /\ DOMAIN s.venueCalls = 1..Len(s.venueCalls)
  BY SolutionTypes
<1>3. ASSUME NEW A
      PROVE  SoldUpTo(s, Len(s.executions), A, t) = 0 /\ BoughtFor(s, A, t) = 0
  <2>1. {k \in 1..Len(s.executions) :
           Leg(s, k).intent.owner \in A /\ Leg(s, k).intent.sellToken = t} = {}
    BY <1>1, <1>2
  <2>2. {k \in Legs(s) : Leg(s, k).intent.receiver \in A /\ Leg(s, k).intent.buyToken = t} = {}
    BY <1>1
  <2>3. QED  BY <2>1, <2>2, SumEmpty DEF SoldUpTo, BoughtFor
<1>4. CallIn(s, Len(s.venueCalls), t) = 0
  <2>1. {u \in 1..Len(s.venueCalls) : s.venueCalls[u].tokenIn = t} = {}
    BY <1>1, <1>2
  <2>2. QED  BY <2>1, SumEmpty DEF CallIn
<1>5. CallOut(s, Len(s.venueCalls), t, sp) = 0
  <2>1. {u \in 1..Len(s.venueCalls) : s.venueCalls[u].tokenOut = t} = {}
    BY <1>1, <1>2
  <2>2. QED  BY <2>1, SumEmpty DEF CallOut
<1>6. QED  BY <1>3, <1>4, <1>5

\* Taking legs and giving them back leaves every balance as it was.
LEMMA UnwoundLedger ==
  ASSUME TypeOK, NEW b \in Batches, finalizeUnwind(b)
  PROVE  \A a \in Accounts, t \in Tokens : ledger'[a][t] = ledger[a][t]
<1> DEFINE s == best[b].solution
           n == collected(s)
<1>1. s \in Solutions
  BY BestSolver DEF finalizeUnwind, finalizable, TypeOK
<1>2. ledger' = refund(pull(ledger, s, n), s, n)
  BY DEF finalizeUnwind
<1>3. n \in 0..Len(s.executions)
  BY <1>1, CollectedRange
<1> HIDE DEF s, n
<1> SUFFICES ASSUME NEW a \in Accounts, NEW t \in Tokens
             PROVE  ledger'[a][t] = ledger[a][t]
  OBVIOUS
<1>4. /\ ledger[a][t] \in Int
      /\ SoldUpTo(s, n, {a}, t) \in Nat /\ SoldUpTo(s, n, Owners, t) \in Nat
  BY <1>1, <1>3, LedgerSums DEF TypeOK
<1> DEFINE x == SoldUpTo(s, n, {a}, t)
           y == SoldUpTo(s, n, Owners, t)
<1>5. ledger'[a][t] = (ledger[a][t] - x + (IF a = Self THEN y ELSE 0))
                        + x - (IF a = Self THEN y ELSE 0)
  BY <1>2 DEF refund, pull
<1> HIDE DEF x, y
<1>6. x \in Nat /\ y \in Nat
  BY <1>4 DEF x, y
<1>7. QED  BY <1>4, <1>5, <1>6

\* The ledger a settlement leaves, up to the fees.
LEMMA DeliveredLedger ==
  ASSUME TypeOK, NEW s \in Solutions, NEW a \in Accounts, NEW t \in Tokens
  PROVE  LET n == Len(s.executions)
             r == route(pull(ledger, s, n), s)
             l == deliver(r, s)
         IN  /\ r \in Ledgers /\ l \in Ledgers
             /\ a # Self => l[a][t] = ledger[a][t] - SoldUpTo(s, n, {a}, t) + BoughtFor(s, {a}, t)
             /\ r[Self][t] = ledger[Self][t] + SoldUpTo(s, n, Owners, t)
                               + CallOut(s, Len(s.venueCalls), t, spread)
                               - CallIn(s, Len(s.venueCalls), t)
             /\ l[Self][t] = r[Self][t] - delivered(s, t)
<1> DEFINE n == Len(s.executions)
           p == pull(ledger, s, n)
           r == route(p, s)
           l == deliver(r, s)
<1>1. n \in 0..Len(s.executions)
  BY SolutionTypes
<1>2. p \in Ledgers
  BY <1>1, PullType DEF TypeOK, Ledgers
<1>3. r \in Ledgers
  <2> HIDE DEF p
  <2>1. QED  BY <1>2, RouteType DEF TypeOK
<1>4. l \in Ledgers
  <2> HIDE DEF r
  <2>1. QED  BY <1>3, DeliverType
<1>5. \A c \in Accounts : /\ ledger[c][t] \in Int
                          /\ SoldUpTo(s, n, {c}, t) \in Nat /\ BoughtFor(s, {c}, t) \in Nat
                          /\ SoldUpTo(s, n, Owners, t) \in Nat
                          /\ BoughtFor(s, Owners, t) \in Nat
  BY <1>1, LedgerSums DEF TypeOK
<1>6. Self \in Accounts
  BY DEF Accounts
<1>7. \A c \in Accounts : p[c][t] = ledger[c][t] - SoldUpTo(s, n, {c}, t)
                                      + (IF c = Self THEN SoldUpTo(s, n, Owners, t) ELSE 0)
  BY DEF pull
<1> HIDE DEF p
<1>8. /\ a # Self => r[a][t] = p[a][t]
      /\ r[Self][t] = p[Self][t] + CallOut(s, Len(s.venueCalls), t, spread)
                        - CallIn(s, Len(s.venueCalls), t)
  BY <1>2, <1>6 DEF route, Ledgers
<1> HIDE DEF r
<1>9. \A c \in Accounts : l[c][t] = r[c][t] + BoughtFor(s, {c}, t)
                                      - (IF c = Self THEN BoughtFor(s, Owners, t) ELSE 0)
  BY DEF deliver
<1> HIDE DEF l
<1>10. /\ SoldUpTo(s, n, {Self}, t) = 0 /\ BoughtFor(s, {Self}, t) = 0
       /\ BoughtFor(s, Owners, t) = delivered(s, t)
  BY <1>1, PartiesAreOwners
<1>11. \A c \in Accounts : r[c][t] \in Int /\ p[c][t] \in Int
  BY <1>2, <1>3 DEF Ledgers
<1>12. p[Self][t] = ledger[Self][t] + SoldUpTo(s, n, Owners, t)
  BY <1>5, <1>6, <1>7, <1>10
<1>13. l[Self][t] = r[Self][t] - delivered(s, t)
  BY <1>5, <1>6, <1>9, <1>10, <1>11
<1>14. a # Self => l[a][t] = ledger[a][t] - SoldUpTo(s, n, {a}, t) + BoughtFor(s, {a}, t)
  <2> SUFFICES ASSUME a # Self
               PROVE  l[a][t] = ledger[a][t] - SoldUpTo(s, n, {a}, t) + BoughtFor(s, {a}, t)
    OBVIOUS
  <2> DEFINE x == SoldUpTo(s, n, {a}, t)
  <2>1. p[a][t] = ledger[a][t] - SoldUpTo(s, n, {a}, t)
    <3>1. p[a][t] = ledger[a][t] - x + 0 /\ ledger[a][t] \in Int /\ x \in Nat
      BY <1>5, <1>7
    <3> HIDE DEF x
    <3>2. p[a][t] = ledger[a][t] - x
      BY <3>1
    <3>3. QED  BY <3>2 DEF x
  <2>2. l[a][t] = r[a][t] + BoughtFor(s, {a}, t)
    BY <1>5, <1>9, <1>11
  <2>3. QED  BY <1>8, <2>1, <2>2
<1>15. QED  BY <1>3, <1>4, <1>8, <1>12, <1>13, <1>14 DEF l, r, p

\* Nobody is paid twice what is there once.
LEMMA PaidOnce ==
  ASSUME NEW n \in Nat \ {0}, NEW x \in Nat, n * x <= x
  PROVE  n * x = x
<1>1. 1 * x <= n * x /\ n * x \in Nat
  BY ProductMonotone
<1>2. QED  BY <1>1

\* What a settlement pays out of the contract's own account is the surplus the
\* batch left there: nothing stays, and nothing that was not there is paid.
LEMMA SettledSelf ==
  ASSUME TypeOK, RecordedInv, CustodyEmpty, NEW b \in Batches, finalizeSettle(b),
         NEW t \in Tokens
  PROVE  ledger'[Self][t] = 0
<1> DEFINE s == best[b].solution
           n == Len(s.executions)
           r == route(pull(ledger, s, n), s)
           l == deliver(r, s)
<1>1. /\ best[b] \in BestRecords /\ s \in Solutions /\ WithinLimits(s)
      /\ deliverReturns(r, s) /\ settleFees(l, s, best[b])
  BY BestSolver DEF finalizeSettle, finalizable, TypeOK, RecordedInv
<1>2. Self \in Accounts /\ Self # best[b].solver /\ Self # Treasury
  BY <1>1, BestSolver, AccountsAssumption DEF Accounts
<1>3. ledger[Self][t] = 0
  BY DEF CustodyEmpty
<1> HIDE DEF s
<1>4. /\ r \in Ledgers /\ l \in Ledgers
      /\ r[Self][t] = ledger[Self][t] + SoldUpTo(s, n, Owners, t)
                        + CallOut(s, Len(s.venueCalls), t, spread)
                        - CallIn(s, Len(s.venueCalls), t)
      /\ l[Self][t] = r[Self][t] - delivered(s, t)
  BY <1>1, <1>2, DeliveredLedger
<1>5. r[Self][t] \in Int /\ l[Self][t] \in Int
  BY <1>2, <1>4 DEF Ledgers
<1>6. delivered(s, t) \in Nat
  BY <1>1, LegSums DEF delivered
<1> HIDE DEF l
<1>7. l[Self][t] >= 0 /\ (t \notin TokensOf(s) => l[Self][t] = 0)
  <2>1. CASE t \in TokensOf(s)
    <3>1. delivered(s, t) <= r[Self][t]
      BY <1>1, <2>1 DEF deliverReturns
    <3> HIDE DEF r
    <3>2. QED  BY <1>4, <1>5, <1>6, <2>1, <3>1
  <2>2. CASE t \notin TokensOf(s)
    <3>1. /\ SoldUpTo(s, n, Owners, t) = 0 /\ BoughtFor(s, Owners, t) = 0
          /\ CallIn(s, Len(s.venueCalls), t) = 0
          /\ CallOut(s, Len(s.venueCalls), t, spread) = 0
      BY <1>1, <2>2, UnlistedToken
    <3>2. n \in 0..Len(s.executions)
      BY <1>1, SolutionTypes
    <3>3. delivered(s, t) = 0
      BY <1>1, <3>1, <3>2, PartiesAreOwners
    <3> HIDE DEF r
    <3>4. QED  BY <1>3, <1>4, <2>2, <3>1, <3>3
  <2>3. QED  BY <2>1, <2>2
<1>8. withheld(l, t) = l[Self][t]
  BY <1>3, <1>5, <1>7 DEF withheld
<1> DEFINE passthrough == best[b].savings * BPS < notionalUsd(s) * MIN_SAVINGS_BPS
           toSolver(u) == IF passthrough THEN 0
                          ELSE Listings(s, u) * ((withheld(l, u) * SOLVER_SHARE_OF_FEE_BPS) \div BPS)
           paid(u) == IF u \in TokensOf(s) THEN Listings(s, u) * withheld(l, u) ELSE 0
<1>9. ledger' = [a \in Accounts |-> [u \in Tokens |->
           l[a][u] - (IF a = Self THEN paid(u) ELSE 0)
                   + (IF a = best[b].solver /\ u \in TokensOf(s) THEN toSolver(u) ELSE 0)
                   + (IF a = Treasury /\ u \in TokensOf(s) THEN paid(u) - toSolver(u) ELSE 0)]]
  BY <1>1 DEF settleFees
<1>10. paid(t) = l[Self][t]
  <2>1. CASE t \in TokensOf(s)
    <3>1. Listings(s, t) * l[Self][t] <= l[Self][t] /\ paid(t) = Listings(s, t) * l[Self][t]
      BY <1>1, <1>8, <2>1 DEF settleFees
    <3>2. Listings(s, t) \in Nat \ {0} /\ l[Self][t] \in Nat
      BY <1>1, <1>5, <1>7, RepeatTypes
    <3> HIDE DEF paid
    <3>3. QED  BY <3>1, <3>2, PaidOnce
  <2>2. CASE t \notin TokensOf(s)
    BY <1>7, <2>2
  <2>3. QED  BY <2>1, <2>2
<1> HIDE DEF paid, toSolver
<1>11. ledger'[Self][t] = l[Self][t] - paid(t) + 0 + 0
  BY <1>2, <1>9
<1>12. QED  BY <1>5, <1>10, <1>11

\* A settlement moves an owner's balance by its legs and by nothing else.
LEMMA SettledOwner ==
  ASSUME TypeOK, NEW b \in Batches, finalizeSettle(b), NEW o \in Owners, NEW t \in Tokens
  PROVE  LET s == best[b].solution
         IN  ledger'[o][t] = ledger[o][t] - SoldUpTo(s, Len(s.executions), {o}, t)
                               + BoughtFor(s, {o}, t)
<1> DEFINE s == best[b].solution
           n == Len(s.executions)
           l == deliver(route(pull(ledger, s, n), s), s)
<1>1. best[b] \in BestRecords /\ s \in Solutions /\ settleFees(l, s, best[b])
  BY BestSolver DEF finalizeSettle, finalizable, TypeOK
<1>2. o \in Accounts /\ o # Self /\ o # best[b].solver /\ o # Treasury
  BY <1>1, BestSolver, AccountsAssumption DEF Accounts
<1> HIDE DEF s
<1>3. /\ l \in Ledgers
      /\ l[o][t] = ledger[o][t] - SoldUpTo(s, n, {o}, t) + BoughtFor(s, {o}, t)
  BY <1>1, <1>2, DeliveredLedger
<1> HIDE DEF l
<1> DEFINE passthrough == best[b].savings * BPS < notionalUsd(s) * MIN_SAVINGS_BPS
           toSolver(u) == IF passthrough THEN 0
                          ELSE Listings(s, u) * ((withheld(l, u) * SOLVER_SHARE_OF_FEE_BPS) \div BPS)
           paid(u) == IF u \in TokensOf(s) THEN Listings(s, u) * withheld(l, u) ELSE 0
<1>4. ledger' = [a \in Accounts |-> [u \in Tokens |->
           l[a][u] - (IF a = Self THEN paid(u) ELSE 0)
                   + (IF a = best[b].solver /\ u \in TokensOf(s) THEN toSolver(u) ELSE 0)
                   + (IF a = Treasury /\ u \in TokensOf(s) THEN paid(u) - toSolver(u) ELSE 0)]]
  BY <1>1 DEF settleFees
<1> HIDE DEF paid, toSolver
<1>5. ledger'[o][t] = l[o][t] - 0 + 0 + 0
  BY <1>2, <1>4
<1>6. l[o][t] \in Int
  BY <1>2, <1>3 DEF Ledgers
<1>7. ledger'[o][t] = l[o][t]
  BY <1>5, <1>6
<1>8. QED  BY <1>3, <1>7 DEF s

\* Every other step leaves the ledger alone or moves one balance of one owner
\* out, and writes it down.
LEMMA OtherLedgers ==
  ASSUME TypeOK, [Next]_vars, \A b \in Batches : ~finalizeSettle(b)
  PROVE  /\ \A t \in Tokens : ledger'[Self][t] = ledger[Self][t]
         /\ \A o \in Owners, t \in Tokens :
              ledger'[o][t] + movedOut'[o][t] = ledger[o][t] + movedOut[o][t]
<1>1. Self \in Accounts /\ Owners \subseteq Accounts /\ Self \notin Owners
  BY AccountsAssumption DEF Accounts
<1>2. \A o \in Owners, t \in Tokens : ledger[o][t] \in Int /\ movedOut[o][t] \in Int
  BY <1>1 DEF TypeOK
<1>3. CASE UNCHANGED <<ledger, movedOut>>
  BY <1>3
<1>4. ASSUME NEW b \in Batches, finalizeUnwind(b)
      PROVE  /\ \A t \in Tokens : ledger'[Self][t] = ledger[Self][t]
             /\ \A o \in Owners, t \in Tokens :
                  ledger'[o][t] + movedOut'[o][t] = ledger[o][t] + movedOut[o][t]
  <2>1. \A a \in Accounts, t \in Tokens : ledger'[a][t] = ledger[a][t]
    BY <1>4, UnwoundLedger
  <2>2. movedOut' = movedOut
    BY <1>4 DEF finalizeUnwind
  <2>3. QED  BY <1>1, <2>1, <2>2
<1>5. ASSUME NEW p \in Owners, NEW u \in Tokens, moveFunds(p, u)
      PROVE  /\ \A t \in Tokens : ledger'[Self][t] = ledger[Self][t]
             /\ \A o \in Owners, t \in Tokens :
                  ledger'[o][t] + movedOut'[o][t] = ledger[o][t] + movedOut[o][t]
  <2>1. /\ ledger' = [ledger EXCEPT ![p][u] = 0]
        /\ movedOut' = [movedOut EXCEPT ![p][u] = @ + ledger[p][u]]
    BY <1>5 DEF moveFunds
  <2>2. ledger \in [Accounts -> [Tokens -> Int]] /\ movedOut \in [Owners -> [Tokens -> Int]]
    BY DEF TypeOK
  <2>3. \A t \in Tokens : ledger'[Self][t] = ledger[Self][t]
    BY <1>1, <2>1, <2>2
  <2>4. ASSUME NEW o \in Owners, NEW t \in Tokens
        PROVE  ledger'[o][t] + movedOut'[o][t] = ledger[o][t] + movedOut[o][t]
    <3>1. CASE o = p /\ t = u
      <4>1. ledger'[o][t] = 0 /\ movedOut'[o][t] = movedOut[o][t] + ledger[o][t]
        BY <1>1, <2>1, <2>2, <3>1
      <4>2. QED  BY <1>2, <4>1
    <3>2. CASE ~(o = p /\ t = u)
      <4>1. ledger'[o][t] = ledger[o][t] /\ movedOut'[o][t] = movedOut[o][t]
        BY <1>1, <2>1, <2>2, <3>2
      <4>2. QED  BY <4>1
    <3>3. QED  BY <3>1, <3>2
  <2>5. QED  BY <2>3, <2>4
<1>6. CASE OwnerStep
  BY <1>3, <1>5, <1>6 DEF OwnerStep, setApproval, invalidateNonce
<1>7. QED
  BY <1>3, <1>4, <1>6
  DEF Next, submitSolution, expireBatch, pause, GovernorStep, MarketStep, RegistryStep, AuctionStep, auctionWin, Tick,
      ownerVars, vars

\* Between two calls the contract holds no token, whatever was collected,
\* routed, delivered, refunded or paid (finalize of Settlement.sol).
THEOREM NothingKept == Spec => []CustodyEmpty
<1>1. Init => CustodyEmpty
  <2> SUFFICES ASSUME Init, NEW t \in Tokens PROVE ledger[Self][t] = 0
    BY DEF CustodyEmpty
  <2>1. Self \in Accounts /\ Self \notin Owners
    BY AccountsAssumption DEF Accounts
  <2>2. QED  BY <2>1 DEF Init
<1>2. ASSUME TypeOK, RecordedInv, CustodyEmpty, [Next]_vars
      PROVE  CustodyEmpty'
  <2> SUFFICES ASSUME NEW t \in Tokens PROVE ledger'[Self][t] = 0
    BY DEF CustodyEmpty
  <2>1. ASSUME NEW b \in Batches, finalizeSettle(b)
        PROVE  ledger'[Self][t] = 0
    BY <1>2, <2>1, SettledSelf
  <2>2. CASE \A b \in Batches : ~finalizeSettle(b)
    <3>1. ledger'[Self][t] = ledger[Self][t]
      BY <1>2, <2>2, OtherLedgers
    <3>2. QED  BY <1>2, <3>1 DEF CustodyEmpty
  <2>3. QED  BY <2>1, <2>2
<1>3. TypeOK /\ RecordedInv /\ CustodyEmpty /\ [Next]_vars => CustodyEmpty'
  BY <1>2
<1>4. QED  BY <1>1, <1>3, TypesAndRecords, PTL DEF Spec

----------------------------------------------------------------------------
(* What the fills of an owner add up to. *)

SoldBy(o, t) == {f \in fills : f.intent.owner = o /\ f.intent.sellToken = t}
BoughtBy(o, t) == {f \in fills : f.intent.receiver = o /\ f.intent.buyToken = t}
Sold(o, t) == SumFunctionOnSet([f \in fills |-> f.executedSell], SoldBy(o, t))
Bought(o, t) == SumFunctionOnSet([f \in fills |-> f.executedBuy], BoughtBy(o, t))

LEMMA FillSums ==
  ASSUME FillsInv, NEW o, NEW t
  PROVE  Sold(o, t) \in Nat /\ Bought(o, t) \in Nat
<1>1. IsFiniteSet(SoldBy(o, t)) /\ IsFiniteSet(BoughtBy(o, t))
  BY FS_Subset DEF FillsInv, SoldBy, BoughtBy
<1>2. /\ \A f \in SoldBy(o, t) : [g \in fills |-> g.executedSell][f] \in Nat
      /\ \A f \in BoughtBy(o, t) : [g \in fills |-> g.executedBuy][f] \in Nat
  BY DEF FillsInv, SoldBy, BoughtBy
<1>3. QED  BY <1>1, <1>2, SumNat DEF Sold, Bought

\* A settlement adds its legs to these sums, each leg once.
LEMMA SettledFills ==
  ASSUME TypeOK, RecordedInv, FillsInv, NEW b \in Batches, finalizeSettle(b), NEW o, NEW t
  PROVE  LET s == best[b].solution
         IN  /\ Sold(o, t)' = Sold(o, t) + SoldUpTo(s, Len(s.executions), {o}, t)
             /\ Bought(o, t)' = Bought(o, t) + BoughtFor(s, {o}, t)
<1> DEFINE s == best[b].solution
           KS == {k \in 1..Len(s.executions) :
                    Leg(s, k).intent.owner \in {o} /\ Leg(s, k).intent.sellToken = t}
           KB == {k \in Legs(s) : Leg(s, k).intent.receiver \in {o} /\ Leg(s, k).intent.buyToken = t}
<1>1. s \in Solutions /\ fills' = fills \cup {Fill(s, k) : k \in Legs(s)}
  BY NewFills
<1>2. \A k \in Legs(s) : <<Fill(s, k).intent.owner, Fill(s, k).intent.nonce>> \notin nonceUsed
  BY NewFills
<1> HIDE DEF s
<1>3. \A k \in Legs(s) : Fill(s, k) \notin fills
  BY <1>2 DEF FillsInv
<1>4. \A k \in Legs(s) : /\ Fill(s, k).leg = k /\ Fill(s, k).intent = Leg(s, k).intent
                         /\ Fill(s, k).executedSell = executedSells(s)[k]
                         /\ Fill(s, k).executedBuy = executedBuys(s)[k]
  BY DEF Fill, executedSells, executedBuys
<1>5. Legs(s) = 1..Len(s.executions)
  BY <1>1, SolutionTypes
<1>6. KS \subseteq Legs(s) /\ KB \subseteq Legs(s)
  BY <1>5
<1>7. SoldBy(o, t)' = SoldBy(o, t) \cup {Fill(s, k) : k \in KS}
  <2>1. SoldBy(o, t)' = {f \in fills' : f.intent.owner = o /\ f.intent.sellToken = t}
    BY DEF SoldBy
  <2>2. KS = {k \in Legs(s) : Leg(s, k).intent.owner = o /\ Leg(s, k).intent.sellToken = t}
    BY <1>5
  <2> HIDE DEF KS
  <2>3. QED  BY <1>1, <1>4, <2>1, <2>2 DEF SoldBy
<1>8. BoughtBy(o, t)' = BoughtBy(o, t) \cup {Fill(s, k) : k \in KB}
  <2>1. BoughtBy(o, t)' = {f \in fills' : f.intent.receiver = o /\ f.intent.buyToken = t}
    BY DEF BoughtBy
  <2>2. QED  BY <1>1, <1>4, <2>1 DEF BoughtBy
<1>9. /\ IsFiniteSet(KS) /\ IsFiniteSet(KB)
      /\ \A k \in Legs(s) : executedSells(s)[k] \in Nat /\ executedBuys(s)[k] \in Nat
  BY <1>1, <1>6, LegSums
<1>10. Sold(o, t)' = Sold(o, t) + SoldUpTo(s, Len(s.executions), {o}, t)
  <2> DEFINE old == [x \in fills |-> x.executedSell]
             new == [x \in fills' |-> x.executedSell]
             S == SoldBy(o, t)
             h == executedSells(s)
             N == {Fill(s, k) : k \in KS}
             m == [k \in KS |-> Fill(s, k)]
  <2>1. IsFiniteSet(S) /\ S \subseteq fills /\ fills \subseteq fills'
    BY <1>1, FS_Subset DEF FillsInv, SoldBy
  <2>2. \A x \in S : old[x] \in Int /\ new[x] = old[x]
    <3> SUFFICES ASSUME NEW x \in S PROVE old[x] \in Int /\ new[x] = old[x]
      OBVIOUS
    <3>1. x \in fills /\ x \in fills'
      BY <2>1
    <3>2. x.executedSell \in Nat
      BY <3>1 DEF FillsInv
    <3>3. QED  BY <3>1, <3>2
  <2>3. \A k \in KS : h[k] \in Int /\ new[m[k]] = h[k]
    BY <1>1, <1>4, <1>6, <1>9
  <2>4. S \cap N = {}
    BY <1>3, <1>6 DEF SoldBy
  <2>5. Sold(o, t)' = SumFunctionOnSet(new, SoldBy(o, t)')
    BY DEF Sold
  <2>6. Sold(o, t) = SumFunctionOnSet(old, S) /\ SoldUpTo(s, Len(s.executions), {o}, t) = SumFunctionOnSet(h, KS)
    BY DEF Sold, SoldUpTo
  <2>7. m \in Bijection(KS, N)
    BY <1>4, <1>6 DEF Bijection, Injection, Surjection, IsInjective
  <2> HIDE DEF old, new, S, h, m, N, KS, KB
  <2>8. SumFunctionOnSet(new, S \cup N) = SumFunctionOnSet(old, S) + SumFunctionOnSet(h, KS)
    BY <1>9, <2>1, <2>2, <2>3, <2>4, <2>7, SumExtend
  <2>9. QED  BY <1>7, <2>5, <2>6, <2>8 DEF S, N
<1>11. Bought(o, t)' = Bought(o, t) + BoughtFor(s, {o}, t)
  <2> DEFINE old == [x \in fills |-> x.executedBuy]
             new == [x \in fills' |-> x.executedBuy]
             S == BoughtBy(o, t)
             h == executedBuys(s)
             N == {Fill(s, k) : k \in KB}
             m == [k \in KB |-> Fill(s, k)]
  <2>1. IsFiniteSet(S) /\ S \subseteq fills /\ fills \subseteq fills'
    BY <1>1, FS_Subset DEF FillsInv, BoughtBy
  <2>2. \A x \in S : old[x] \in Int /\ new[x] = old[x]
    <3> SUFFICES ASSUME NEW x \in S PROVE old[x] \in Int /\ new[x] = old[x]
      OBVIOUS
    <3>1. x \in fills /\ x \in fills'
      BY <2>1
    <3>2. x.executedBuy \in Nat
      BY <3>1 DEF FillsInv
    <3>3. QED  BY <3>1, <3>2
  <2>3. \A k \in KB : h[k] \in Int /\ new[m[k]] = h[k]
    BY <1>1, <1>4, <1>6, <1>9
  <2>4. S \cap N = {}
    BY <1>3, <1>6 DEF BoughtBy
  <2>5. Bought(o, t)' = SumFunctionOnSet(new, BoughtBy(o, t)')
    BY DEF Bought
  <2>6. Bought(o, t) = SumFunctionOnSet(old, S) /\ BoughtFor(s, {o}, t) = SumFunctionOnSet(h, KB)
    BY DEF Bought, BoughtFor
  <2>7. m \in Bijection(KB, N)
    BY <1>4, <1>6 DEF Bijection, Injection, Surjection, IsInjective
  <2> HIDE DEF old, new, S, h, m, N, KS, KB
  <2>8. SumFunctionOnSet(new, S \cup N) = SumFunctionOnSet(old, S) + SumFunctionOnSet(h, KB)
    BY <1>9, <2>1, <2>2, <2>3, <2>4, <2>7, SumExtend
  <2>9. QED  BY <1>8, <2>5, <2>6, <2>8 DEF S, N
<1>12. QED  BY <1>10, <1>11 DEF s

\* An owner's balance differs from what they started with by what they moved
\* out themselves and by their fills, however many batches were refused,
\* unwound, expired or settled in between (finalize and _refund of
\* Settlement.sol).
THEOREM OwnersMadeWhole == Spec => []OwnersWhole
<1> DEFINE Whole == \A o \in Owners, t \in Tokens :
                      ledger[o][t] + movedOut[o][t]
                        = InitialBalances[o][t] - Sold(o, t) + Bought(o, t)
<1>1. OwnersWhole <=> Whole
  BY DEF OwnersWhole, Sold, Bought, SoldBy, BoughtBy
<1>2. Init => Whole
  <2> SUFFICES ASSUME Init, NEW o \in Owners, NEW t \in Tokens
               PROVE  ledger[o][t] + movedOut[o][t]
                        = InitialBalances[o][t] - Sold(o, t) + Bought(o, t)
    OBVIOUS
  <2>1. ledger[o][t] = InitialBalances[o][t] /\ movedOut[o][t] = 0
    BY DEF Init, Accounts
  <2>2. Sold(o, t) = 0 /\ Bought(o, t) = 0
    <3>1. SoldBy(o, t) = {} /\ BoughtBy(o, t) = {}
      BY DEF Init, SoldBy, BoughtBy
    <3>2. QED  BY <3>1, SumEmpty DEF Sold, Bought
  <2>3. InitialBalances[o][t] \in Nat
    BY SettlementAssumption
  <2>4. QED  BY <2>1, <2>2, <2>3
<1>3. ASSUME TypeOK, RecordedInv, EndInv, FillsInv, Whole, [Next]_vars
      PROVE  Whole'
  <2>1. ASSUME NEW b \in Batches, finalizeSettle(b)
        PROVE  Whole'
    <3> SUFFICES ASSUME NEW o \in Owners, NEW t \in Tokens
                 PROVE  ledger'[o][t] + movedOut'[o][t]
                          = InitialBalances[o][t] - Sold(o, t)' + Bought(o, t)'
      OBVIOUS
    <3> DEFINE s == best[b].solution
               x == SoldUpTo(s, Len(s.executions), {o}, t)
               y == BoughtFor(s, {o}, t)
    <3>1. ledger'[o][t] = ledger[o][t] - x + y
      BY <1>3, <2>1, SettledOwner
    <3>2. Sold(o, t)' = Sold(o, t) + x /\ Bought(o, t)' = Bought(o, t) + y
      BY <1>3, <2>1, SettledFills
    <3>3. x \in Nat /\ y \in Nat
      <4>1. s \in Solutions
        BY <1>3, <2>1, NewFills
      <4> HIDE DEF s
      <4>2. Len(s.executions) \in 0..Len(s.executions)
        BY <4>1, SolutionTypes
      <4>3. QED  BY <4>1, <4>2, LedgerSums
    <3>4. movedOut' = movedOut
      BY <2>1 DEF finalizeSettle
    <3>5. /\ ledger[o][t] \in Int /\ movedOut[o][t] \in Int /\ InitialBalances[o][t] \in Int
          /\ Sold(o, t) \in Nat /\ Bought(o, t) \in Nat
      <4>1. o \in Accounts
        BY DEF Accounts
      <4>2. QED  BY <1>3, <4>1, FillSums, SettlementAssumption DEF TypeOK
    <3>6. ledger[o][t] + movedOut[o][t] = InitialBalances[o][t] - Sold(o, t) + Bought(o, t)
      BY <1>3
    <3> HIDE DEF x, y, s
    <3> DEFINE w == movedOut[o][t]
               z == InitialBalances[o][t]
               l == ledger[o][t]
               p == Sold(o, t)
               q == Bought(o, t)
    <3>7. ledger'[o][t] + movedOut'[o][t] = l - x + y + w /\ z - Sold(o, t)' + Bought(o, t)' = z - (p + x) + (q + y)
      BY <3>1, <3>2, <3>4
    <3>8. l \in Int /\ w \in Int /\ z \in Int /\ p \in Nat /\ q \in Nat /\ l + w = z - p + q
      BY <3>5, <3>6
    <3> HIDE DEF l, w, z, p, q
    <3>9. l - x + y + w = z - (p + x) + (q + y)
      BY <3>3, <3>8
    <3>10. ledger'[o][t] + movedOut'[o][t] = InitialBalances[o][t] - Sold(o, t)' + Bought(o, t)'
      BY <3>7, <3>9 DEF z
    <3>11. QED  BY <3>10
  <2>2. CASE \A b \in Batches : ~finalizeSettle(b)
    <3>1. fills' = fills
      BY <1>3, <2>2, FillsStand
    <3> SUFFICES ASSUME NEW o \in Owners, NEW t \in Tokens
                 PROVE  ledger'[o][t] + movedOut'[o][t]
                          = InitialBalances[o][t] - Sold(o, t)' + Bought(o, t)'
      OBVIOUS
    <3>2. Sold(o, t)' = Sold(o, t) /\ Bought(o, t)' = Bought(o, t)
      BY <3>1 DEF Sold, Bought, SoldBy, BoughtBy
    <3>3. ledger'[o][t] + movedOut'[o][t] = ledger[o][t] + movedOut[o][t]
      BY <1>3, <2>2, OtherLedgers
    <3>4. QED  BY <1>3, <3>2, <3>3
  <2>3. QED  BY <2>1, <2>2
<1>4. TypeOK /\ RecordedInv /\ EndInv /\ FillsInv /\ Whole /\ [Next]_vars => Whole'
  BY <1>3
<1>5. QED  BY <1>1, <1>2, <1>4, SettlementInvariants, PTL DEF Spec

----------------------------------------------------------------------------
(* What a day is charged. *)

\* No day that is still to come has been charged yet.
DayInv == today.index <= now \div SECONDS_PER_DAY

\* The days do not run backwards.
LEMMA DaysPass ==
  ASSUME TypeOK, [Next]_vars
  PROVE  now' \div SECONDS_PER_DAY >= now \div SECONDS_PER_DAY
<1>1. now \in Nat /\ SECONDS_PER_DAY \in Nat \ {0}
  BY SettlementAssumption, RegistryAssumption DEF TypeOK, RegistryTypeOK
<1>2. now' = now \/ now' = now + 1
  BY DEF Next, submitSolution, finalizeUnwind, finalizeSettle, expireBatch, pause, GovernorStep,
         OwnerStep, MarketStep, RegistryStep, AuctionStep, auctionWin, Tick, vars
<1>3. (now + 1) \div SECONDS_PER_DAY >= now \div SECONDS_PER_DAY
  BY <1>1, Z3
<1>4. CASE now' = now
  BY <1>1, <1>4
<1>5. CASE now' = now + 1
  BY <1>3, <1>5
<1>6. QED  BY <1>2, <1>4, <1>5

\* What a batch is charged token by token, at the first place of each, is what
\* it is charged as a whole: each of its legs counts for the one token it sells.
LEMMA ChargeSplits ==
  ASSUME NEW s \in Solutions, WithinLimits(s),
         NEW x, \A t \in Tokens : x[t] = IF t \in TokensOf(s) THEN tokenNotional(s, t, s.prices[t]) ELSE 0
  PROVE  SumFunctionOnSet(x, Tokens) = notionalUsd(s)
<1> DEFINE part == [t \in Tokens |-> SellLegs(s, t)]
<1>1. IsFiniteSet(Legs(s)) /\ IsFiniteSet(Tokens) /\ TokensOf(s) \subseteq Tokens
  BY SolutionTypes, AccountsAssumption
<1>2. \A k \in Legs(s) : legUsd(s)[k] \in Int
  <2> SUFFICES ASSUME NEW k \in Legs(s) PROVE legUsd(s)[k] \in Int
    OBVIOUS
  <2>1. {k} \in SUBSET Legs(s)
    OBVIOUS
  <2>2. \A j \in {k} : legUsd(s)[j] \in Nat
    BY <2>1, NotionalSums
  <2>3. QED  BY <2>2
<1>3. \A k \in Legs(s) : Leg(s, k).intent.sellToken \in TokensOf(s)
  BY DEF WithinLimits
<1>4. /\ part \in [Tokens -> SUBSET Legs(s)]
      /\ \A k \in Legs(s) : \E t \in Tokens : k \in part[t]
      /\ \A t, u \in Tokens : t # u => part[t] \cap part[u] = {}
  BY <1>1, <1>3 DEF SellLegs
<1>5. ASSUME NEW t \in Tokens
      PROVE  x[t] = SumFunctionOnSet(legUsd(s), part[t])
  <2>1. part[t] = SellLegs(s, t) /\ SellLegs(s, t) \subseteq Legs(s)
    BY DEF SellLegs
  <2> HIDE DEF part
  <2>2. CASE t \in TokensOf(s)
    <3> DEFINE f == [k \in Legs(s) |-> quoteOf(Leg(s, k).executedSell, s.prices[t])]
    <3>1. IsFiniteSet(SellLegs(s, t))
      BY <2>1, LegSums
    <3>2. \A k \in SellLegs(s, t) : f[k] = legUsd(s)[k]
      BY <2>1 DEF SellLegs, legUsd, ValueUsd
    <3>3. tokenNotional(s, t, s.prices[t]) = SumFunctionOnSet(f, SellLegs(s, t))
      BY DEF tokenNotional
    <3> HIDE DEF f
    <3>4. SumFunctionOnSet(f, SellLegs(s, t)) = SumFunctionOnSet(legUsd(s), SellLegs(s, t))
      BY <3>1, <3>2, SumSame
    <3>5. QED  BY <2>1, <2>2, <3>3, <3>4
  <2>3. CASE t \notin TokensOf(s)
    <3>1. part[t] = {}
      BY <1>3, <2>1, <2>3 DEF SellLegs
    <3>2. QED  BY <2>3, <3>1, SumEmpty
  <2>4. QED  BY <2>2, <2>3
<1> HIDE DEF part
<1>6. SumFunctionOnSet(x, Tokens) = SumFunctionOnSet(legUsd(s), Legs(s))
  BY <1>1, <1>2, <1>4, <1>5, SumPartition
<1>7. QED  BY <1>6 DEF notionalUsd

\* Every settled batch so far named each of its tokens once.
PlainSettled == \A b \in Batches : outcome[b] = "settled" => best[b].solution.repeats = <<>>

\* A charge adds the same to the two accounts of its day, whether it is the
\* day's first or a later one; a token named again adds to the token's alone.
LEMMA ChargeAgrees ==
  ASSUME TypeOK, DayAccountsAgree, DayInv, NEW s \in Solutions, WithinLimits(s), chargeExposure(s)
  PROVE  LET byToken == SumFunctionOnSet(perTokenOnDay'[today'.index], Tokens)
         IN  /\ today'.index = now \div SECONDS_PER_DAY
             /\ today'.global <= byToken
             /\ PlainSettled /\ s.repeats = <<>> => today'.global = byToken
             /\ \A d \in Days, t \in Tokens : d > today'.index => perTokenOnDay'[d][t] = 0
<1> DEFINE day == now \div SECONDS_PER_DAY
           x == [t \in Tokens |-> IF t \in TokensOf(s) THEN tokenNotional(s, t, s.prices[t]) ELSE 0]
           y == [t \in Tokens |-> IF t \in TokensOf(s) THEN chargedFor(s, t) ELSE 0]
           before == perTokenOnDay[day]
           after == [t \in Tokens |-> before[t] + (IF t \in TokensOf(s) THEN chargedFor(s, t) ELSE 0)]
<1>1. day \in Days /\ day \in Nat
  BY DayType DEF TypeOK, RegistryTypeOK, Days
<1>2. notionalUsd(s) \in Nat
  BY NotionalSums DEF notionalUsd
<1>3. /\ today' = [index |-> day, global |-> globalSoFar(day) + notionalUsd(s)]
      /\ perTokenOnDay' = [perTokenOnDay EXCEPT ![day] = after]
  BY DEF chargeExposure
<1>4. today.index <= day /\ today.index \in Nat /\ today.global \in Nat
  BY DEF DayInv, TypeOK, Days
<1> HIDE DEF day
<1>5. before \in [Tokens -> Nat]
  BY <1>1 DEF TypeOK
<1>6. SumFunctionOnSet(x, Tokens) = notionalUsd(s)
  BY ChargeSplits
<1>7. IsFiniteSet(Tokens)
  BY AccountsAssumption
<1>8. \A t \in Tokens : x[t] \in Nat /\ y[t] \in Nat /\ x[t] <= y[t] /\ (s.repeats = <<>> => x[t] = y[t])
  <2> SUFFICES ASSUME NEW t \in Tokens
               PROVE  x[t] \in Nat /\ y[t] \in Nat /\ x[t] <= y[t] /\ (s.repeats = <<>> => x[t] = y[t])
    OBVIOUS
  <2>1. CASE t \in TokensOf(s)
    <3>1. /\ tokenNotional(s, t, s.prices[t]) \in Nat /\ repeatedNotional(s, t) \in Nat
          /\ s.repeats = <<>> => repeatedNotional(s, t) = 0
      BY <2>1, Charges
    <3>2. x[t] = tokenNotional(s, t, s.prices[t])
          /\ y[t] = tokenNotional(s, t, s.prices[t]) + repeatedNotional(s, t)
      BY <2>1 DEF chargedFor
    <3> HIDE DEF x, y
    <3>3. QED  BY <3>1, <3>2
  <2>2. CASE t \notin TokensOf(s)
    BY <2>2
  <2>3. QED  BY <2>1, <2>2
<1>9. \A t \in Tokens : before[t] \in Nat /\ after[t] = before[t] + y[t]
  BY <1>5
<1> HIDE DEF x, y, after, before
<1>10. SumFunctionOnSet(after, Tokens) = SumFunctionOnSet(before, Tokens) + SumFunctionOnSet(y, Tokens)
  <2>1. \A t \in Tokens : before[t] \in Int /\ y[t] \in Int /\ after[t] = before[t] + y[t]
    BY <1>8, <1>9
  <2>2. QED  BY <1>7, <2>1, SumPlus
<1>11. /\ SumFunctionOnSet(x, Tokens) \in Nat /\ SumFunctionOnSet(y, Tokens) \in Nat
       /\ SumFunctionOnSet(before, Tokens) \in Nat
  BY <1>7, <1>8, <1>9, SumNat
<1>12. SumFunctionOnSet(x, Tokens) <= SumFunctionOnSet(y, Tokens)
  <2>1. \A t \in Tokens : x[t] \in Int /\ y[t] \in Int /\ x[t] <= y[t]
    BY <1>8
  <2>2. QED  BY <1>7, <2>1, SumMonotone
<1>13. s.repeats = <<>> => SumFunctionOnSet(x, Tokens) = SumFunctionOnSet(y, Tokens)
  BY <1>7, <1>8, SumSame
<1>14. /\ globalSoFar(day) \in Nat /\ globalSoFar(day) <= SumFunctionOnSet(before, Tokens)
       /\ PlainSettled => globalSoFar(day) = SumFunctionOnSet(before, Tokens)
  <2>1. CASE today.index = day
    BY <1>4, <2>1 DEF globalSoFar, DayAccountsAgree, PlainSettled, before
  <2>2. CASE today.index # day
    <3>1. day > today.index
      BY <1>1, <1>4, <2>2
    <3>2. \A t \in Tokens : before[t] = 0
      BY <1>1, <3>1 DEF DayAccountsAgree, before
    <3>3. SumFunctionOnSet(before, Tokens) = 0 /\ globalSoFar(day) = 0
      BY <1>7, <2>2, <3>2, SumZero DEF globalSoFar
    <3>4. QED  BY <3>3
  <2>3. QED  BY <2>1, <2>2
<1>15. today'.index = day /\ today'.global = globalSoFar(day) + SumFunctionOnSet(x, Tokens)
  BY <1>3, <1>6
<1>16. perTokenOnDay'[day] = after
  BY <1>1, <1>3 DEF TypeOK
<1>17. ASSUME NEW d \in Days, NEW t \in Tokens, d > day
       PROVE  perTokenOnDay'[d][t] = 0
  <2>1. d \in Nat
    BY DEF Days
  <2>2. d # day /\ d > today.index
    BY <1>1, <1>4, <1>17, <2>1
  <2>3. perTokenOnDay'[d] = perTokenOnDay[d]
    BY <1>3, <2>2 DEF TypeOK
  <2>4. QED  BY <2>2, <2>3 DEF DayAccountsAgree
<1> DEFINE g == globalSoFar(day)
           sx == SumFunctionOnSet(x, Tokens)
           sy == SumFunctionOnSet(y, Tokens)
           sb == SumFunctionOnSet(before, Tokens)
<1>18. /\ g \in Nat /\ sx \in Nat /\ sy \in Nat /\ sb \in Nat /\ g <= sb /\ sx <= sy
       /\ PlainSettled => g = sb
       /\ s.repeats = <<>> => sx = sy
  BY <1>11, <1>12, <1>13, <1>14
<1>19. /\ today'.global = g + sx
       /\ SumFunctionOnSet(perTokenOnDay'[today'.index], Tokens) = sb + sy
  BY <1>10, <1>15, <1>16
<1> HIDE DEF g, sx, sy, sb
<1>20. g + sx <= sb + sy /\ (PlainSettled /\ s.repeats = <<>> => g + sx = sb + sy)
  BY <1>18
<1>21. QED  BY <1>15, <1>17, <1>19, <1>20 DEF day

\* A batch that settled stays settled, and so does the solution it settled.
LEMMA SettledStands ==
  ASSUME TypeOK, EndInv, [Next]_vars
  PROVE  \A b \in Batches : outcome[b] = "settled" => outcome'[b] = "settled" /\ best'[b] = best[b]
<1>1. \A b \in Batches : outcome[b] = "settled" => outcome'[b] = "settled"
  <2>1. CASE \A b \in Batches : ~finalizeSettle(b)
    BY <2>1, FillsStand
  <2>2. ASSUME NEW b \in Batches, finalizeSettle(b)
        PROVE  \A c \in Batches : outcome[c] = "settled" => outcome'[c] = "settled"
    BY <2>2 DEF finalizeSettle, TypeOK
  <2>3. QED  BY <2>1, <2>2
<1>2. ASSUME NEW solver \in Solvers, NEW s \in Solutions, submitSolution(solver, s)
      PROVE  \A b \in Batches : outcome[b] = "settled" => best'[b] = best[b]
  <2>1. ~finalized[s.batchId] /\ s.batchId \in Batches
    BY <1>2, SolutionTypes DEF submitSolution
  <2>2. outcome[s.batchId] = "none"
    BY <2>1 DEF EndInv, TypeOK
  <2>3. \A b \in Batches : b = s.batchId \/ best'[b] = best[b]
    BY <1>2 DEF submitSolution, TypeOK
  <2>4. QED  BY <2>2, <2>3
<1>4. \A b \in Batches : outcome[b] = "settled" => best'[b] = best[b]
  BY <1>2
  DEF Next, finalizeUnwind, finalizeSettle, expireBatch, pause, GovernorStep, OwnerStep,
      MarketStep, RegistryStep, AuctionStep, auctionWin, Tick, batchVars, vars
<1>5. QED  BY <1>1, <1>4

\* What the global counter of a day holds is what its per-token counters add up
\* to, unless a settled batch named a token twice, which charges that token
\* again and the global counter not; then it holds less, never more.  No later
\* day is charged before it comes (_chargeExposure of Settlement.sol).
THEOREM DaysChargedOnce == Spec => []DayAccountsAgree
<1>1. Init => DayAccountsAgree /\ DayInv
  <2> SUFFICES ASSUME Init PROVE DayAccountsAgree /\ DayInv
    OBVIOUS
  <2>1. /\ today.index = 0 /\ today.global = 0 /\ now = 0
        /\ \A d \in Days, t \in Tokens : perTokenOnDay[d][t] = 0
    BY DEF Init, RegistryInit
  <2>2. SECONDS_PER_DAY \in Nat \ {0} /\ MaxTime \in Nat
    BY SettlementAssumption, RegistryAssumption
  <2>3. 0 \div SECONDS_PER_DAY = 0 /\ MaxTime \div SECONDS_PER_DAY \in Nat
    BY <2>2, Z3
  <2>4. 0 \in Days
    BY <2>3 DEF Days
  <2>5. SumFunctionOnSet(perTokenOnDay[0], Tokens) = 0
    BY <2>1, <2>4, AccountsAssumption, SumZero
  <2>6. QED  BY <2>1, <2>3, <2>5 DEF DayAccountsAgree, DayInv
<1>2. ASSUME TypeOK, RecordedInv, EndInv, DayAccountsAgree, DayInv, [Next]_vars
      PROVE  DayAccountsAgree' /\ DayInv'
  <2>1. /\ now \div SECONDS_PER_DAY \in Nat /\ now' \div SECONDS_PER_DAY >= now \div SECONDS_PER_DAY
        /\ today.index \in Nat
    BY <1>2, DaysPass, DayType DEF TypeOK, RegistryTypeOK, Days
  <2>2. PlainSettled' => PlainSettled
    BY <1>2, SettledStands DEF PlainSettled
  <2>3. ASSUME NEW b \in Batches, finalizeSettle(b)
        PROVE  DayAccountsAgree' /\ DayInv'
    <3> DEFINE s == best[b].solution
    <3>1. s \in Solutions /\ WithinLimits(s) /\ chargeExposure(s) /\ now' = now
      BY <1>2, <2>3, BestSolver DEF finalizeSettle, finalizable, TypeOK, RecordedInv
    <3>2. PlainSettled' => s.repeats = <<>>
      <4>1. outcome'[b] = "settled" /\ best'[b].solution = s
        BY <1>2, <2>3 DEF finalizeSettle, TypeOK
      <4>2. QED  BY <4>1 DEF PlainSettled
    <3> HIDE DEF s
    <3>3. LET byToken == SumFunctionOnSet(perTokenOnDay'[today'.index], Tokens)
          IN  /\ today'.index = now \div SECONDS_PER_DAY
              /\ today'.global <= byToken
              /\ PlainSettled /\ s.repeats = <<>> => today'.global = byToken
              /\ \A d \in Days, t \in Tokens : d > today'.index => perTokenOnDay'[d][t] = 0
      BY <1>2, <3>1, ChargeAgrees
    <3>4. DayAccountsAgree'
      BY <2>2, <3>2, <3>3 DEF DayAccountsAgree, PlainSettled
    <3>5. QED  BY <2>1, <3>1, <3>3, <3>4 DEF DayInv
  <2>4. CASE UNCHANGED exposureVars
    <3>1. DayAccountsAgree'
      <4>1. today' = today /\ perTokenOnDay' = perTokenOnDay
        BY <2>4 DEF exposureVars
      <4>2. QED  BY <1>2, <2>2, <4>1 DEF DayAccountsAgree, PlainSettled
    <3>2. today' = today /\ today.index <= now \div SECONDS_PER_DAY
      BY <1>2, <2>4 DEF DayInv, exposureVars
    <3>3. now' \div SECONDS_PER_DAY \in Int
      <4>1. now' = now \/ now' = now + 1
        BY <1>2 DEF Next, submitSolution, finalizeUnwind, finalizeSettle, expireBatch, pause,
                    GovernorStep, OwnerStep, MarketStep, RegistryStep, AuctionStep, auctionWin, Tick,
                    vars
      <4>2. now \in Int /\ SECONDS_PER_DAY \in Nat \ {0}
        BY <1>2, SettlementAssumption, RegistryAssumption DEF TypeOK, RegistryTypeOK
      <4>3. QED  BY <4>1, <4>2
    <3>4. QED  BY <2>1, <3>1, <3>2, <3>3 DEF DayInv
  <2>5. QED
    BY <1>2, <2>3, <2>4
    DEF Next, submitSolution, finalizeUnwind, expireBatch, pause, GovernorStep, OwnerStep,
        MarketStep, RegistryStep, AuctionStep, auctionWin, Tick, vars
<1>3. TypeOK /\ RecordedInv /\ EndInv /\ DayAccountsAgree /\ DayInv /\ [Next]_vars
        => (DayAccountsAgree /\ DayInv)'
  BY <1>2
<1>4. QED  BY <1>1, <1>3, TypesAndRecords, EndInvariant, PTL DEF Spec

=============================================================================
