------------------------- MODULE CoordinatorProofs -------------------------
(***************************************************************************)
(* Theorems about Coordinator, for every set of batches, intents, owners   *)
(* and concurrent requests: the three maps of the mempool agree, a nonce   *)
(* is held while its signature lives, a served feed is served unchanged,   *)
(* and no balance is promised twice.                                       *)
(***************************************************************************)
EXTENDS Coordinator, SharedLemmas

\* A held nonce is that of its intent, for as long as the signature lives.
HeldInv ==
  \A k \in DOMAIN byOwnerNonce :
    /\ ownerNonceKey(byOwnerNonce[k].intent) = k
    /\ byOwnerNonce[k].validUntil = byOwnerNonce[k].intent.validUntil

holds(i) == ownerNonceKey(i) \in DOMAIN byOwnerNonce /\ byOwnerNonce[ownerNonceKey(i)].intent = i

\* An intent waits in the batch it is pending in, once, and nowhere else.
WaitInv ==
  /\ \A b \in Batches :
       /\ IsInjective(getByBatch(b))
       /\ \A i \in Waiting(b) : byHash[i] = [batch |-> b, status |-> "pending"]
  /\ \A i \in Intents : isPending(i) => i \in Waiting(byHash[i].batch)

\* What was admitted and not withdrawn holds its nonce until it ends.
AcceptInv ==
  \A i \in Intents :
    /\ isPending(i) => accepted[i] # Idle
    /\ accepted[i] # Idle /\ now <= i.validUntil => holds(i)

\* A stamp on its way is not from the future.
StampInv ==
  \A i \in Intents : posts[i] # Idle =>
    /\ posts[i].step = "prior" => posts[i].at <= now
    /\ posts[i].step = "admit" => posts[i].stamp <= now

PoolInv == TypeOK /\ HeldInv /\ WaitInv /\ AcceptInv /\ StampInv

\* The intents of a feed belong to its batch and are remembered as long as it
\* is; of those that came in time, a build leaves none out.
FeedHolds(b) ==
  frozenFeeds[b] # NoFeed =>
    LET f == frozenFeeds[b]
    IN  /\ isCollectClosed(b, now)
        /\ ~f.ready =>
             /\ byBatch[b] # NoList
             /\ \A i \in ToSet(f.list) : byHash[i] # Idle /\ byHash[i].batch = b
             /\ \A i \in Waiting(b) : accepted[i] = "timely" => i \in ToSet(f.list)
        /\ f.ready => \A i \in f.intents :
             byBatch[b] # NoList /\ byHash[i] # Idle /\ byHash[i].batch = b

FeedInv == \A b \in Batches : FeedHolds(b)

\* Settlement keeps its deadline and does not race an admission, a lookup or
\* a restart.
TimelySettlement ==
  \A D \in Disturbances : "settle" \in D => D \cap {"late", "race", "lookup", "restart"} = {}

\* What an owner can still be pulled for is there, and what an admission read
\* of it is not more.
FundInv ==
  /\ \A i \in pulled : ownerNonceKey(i) \in nonceUsed
  /\ \A o \in Owners : covered[o] <= Funded(o)
  /\ \A i \in Intents : posts[i] # Idle => posts[i].cover <= Funded(i.owner)

\* What an admission set aside stays without a claim.
AsideInv ==
  \A i \in Intents : posts[i] # Idle /\ posts[i].step # "prior" =>
    /\ posts[i].spent \subseteq nonceUsed
    /\ \A b \in posts[i].unwinnable : now > solveEnd(b) /\ won[b] = {}

\* Until the deadline, a winner has what its batch was served, all of it still
\* pending.
WonInv ==
  /\ "lookup" \notin acting => \A r \in Lookups : lookups[r] = Idle
  /\ "settle" \in acting => \A b \in Batches : now <= forgetAt(b) =>
       /\ served(b) => \A i \in frozenFeeds[b].intents : isPending(i)
       /\ won[b] # {} => served(b) /\ won[b] \subseteq frozenFeeds[b].intents

----------------------------------------------------------------------------
(* What the constants are.                                                 *)

LEMMA PoolNumbers ==
  /\ SOLUTION_WINDOW \in Nat /\ FINALIZE_DEADLINE \in Nat /\ STATUS_RETENTION \in Nat
  /\ MaxPosts \in Nat /\ MaxTime \in Nat /\ MaxAttempts \in Nat \ {0}
  /\ IsFiniteSet(Intents) /\ InitialCover \in [Owners -> Nat]
  /\ Idle \notin {"timely", "late"} /\ Idle \notin StoredIntents /\ Idle \notin Screenings
  /\ Idle \notin Posts /\ NoFeed \notin Feeds /\ NoList \notin Seq(Intents)
BY CoordinatorAssumption

LEMMA IntentFacts ==
  ASSUME NEW i \in Intents
  PROVE  /\ i.owner \in Owners /\ i.sell \in Nat /\ i.validUntil \in Nat
         /\ ownerNonceKey(i) \in Keys
BY CoordinatorAssumption DEF Keys

LEMMA BatchTimes ==
  ASSUME NEW b \in Batches
  PROVE  b \in Nat /\ solveEnd(b) \in Nat /\ forgetAt(b) \in Nat /\ solveEnd(b) <= forgetAt(b)
<1>1. b \in Nat
  BY CoordinatorAssumption
<1>2. QED  BY <1>1, PoolNumbers DEF solveEnd, forgetAt

\* What a set of intents sells.
LEMMA SellsNat ==
  ASSUME NEW S, S \subseteq Intents
  PROVE  IsFiniteSet(S) /\ sumSell(S) \in Nat /\ \A i \in S : sells[i] \in Nat /\ sells[i] \in Int
<1>1. IsFiniteSet(S)
  BY PoolNumbers, FS_Subset
<1>2. \A i \in S : sells[i] \in Nat
  BY CoordinatorAssumption DEF sells
<1>3. QED  BY <1>1, <1>2, SumNat DEF sumSell

LEMMA SellsLess ==
  ASSUME NEW S, S \subseteq Intents, NEW T, T \subseteq S
  PROVE  sumSell(T) <= sumSell(S)
BY SellsNat, SumSubset DEF sumSell

LEMMA SellsAdd ==
  ASSUME NEW S, S \subseteq Intents, NEW i \in Intents
  PROVE  sumSell(S \cup {i}) <= sumSell(S) + i.sell
<1>1. sumSell(S) \in Nat /\ i.sell \in Nat /\ sells[i] = i.sell
  BY SellsNat, IntentFacts DEF sells
<1>2. CASE i \in S
  <2>1. S \cup {i} = S
    BY <1>2
  <2>2. sumSell(S \cup {i}) = sumSell(S)
    BY <2>1
  <2>3. QED  BY <1>1, <2>2
<1>3. CASE i \notin S
  <2>1. S \cup {i} \subseteq Intents
    OBVIOUS
  <2>2. \A j \in S \cup {i} : sells[j] \in Int
    BY <2>1, SellsNat
  <2>3. sumSell(S \cup {i}) = sells[i] + sumSell(S)
    BY <1>3, <2>2, SellsNat, SumAdd DEF sumSell
  <2>4. QED  BY <1>1, <2>3
<1>4. QED  BY <1>2, <1>3

LEMMA SellsApart ==
  ASSUME NEW S, S \subseteq Intents, NEW T, T \subseteq Intents, S \cap T = {}
  PROVE  sumSell(S \cup T) = sumSell(S) + sumSell(T)
BY SellsNat, SumUnion DEF sumSell

\* What withdraw leaves of a list: everything but the intents taken out, each
\* as often as before.
LEMMA WithoutLeaves ==
  ASSUME NEW list \in Seq(Intents), NEW G
  PROVE  /\ without(list, G) \in Seq(Intents)
         /\ ToSet(without(list, G)) = ToSet(list) \ G
         /\ IsInjective(list) => IsInjective(without(list, G))
<1> DEFINE left   == {k \in DOMAIN list : list[k] \notin G}
           n      == Cardinality(left)
           upto(k) == {j \in left : j <= k}
           rank   == [k \in left |-> Cardinality(upto(k))]
           nth(m) == CHOOSE k \in left : Cardinality(upto(k)) = m
           rest   == [m \in 1..n |-> list[nth(m)]]
<1>1. Len(list) \in Nat /\ DOMAIN list = 1..Len(list) /\ \A k \in DOMAIN list : list[k] \in Intents
  OBVIOUS
<1>2. IsFiniteSet(DOMAIN list)
  BY <1>1, FS_Interval
<1>3. IsFiniteSet(left) /\ n \in Nat /\ left \subseteq DOMAIN list /\ \A k \in left : k \in Nat
  <2>1. left \subseteq DOMAIN list
    OBVIOUS
  <2>2. IsFiniteSet(left)
    BY <1>2, <2>1, FS_Subset
  <2>3. QED  BY <1>1, <2>1, <2>2, FS_CardinalityType
<1>4. ASSUME NEW k \in left
      PROVE  /\ IsFiniteSet(upto(k)) /\ Cardinality(upto(k)) \in 1..n /\ k \in upto(k)
  <2>1. upto(k) \subseteq left /\ k \in upto(k) /\ upto(k) # {}
    BY <1>3
  <2>2. IsFiniteSet(upto(k)) /\ Cardinality(upto(k)) <= n
    BY <1>3, <2>1, FS_Subset
  <2>3. Cardinality(upto(k)) \in Nat /\ Cardinality(upto(k)) # 0
    BY <2>1, <2>2, FS_CardinalityType, FS_EmptySet
  <2>4. QED  BY <1>3, <2>1, <2>2, <2>3
<1>5. ASSUME NEW j \in left, NEW k \in left, Cardinality(upto(j)) = Cardinality(upto(k)), j <= k
      PROVE  j = k
  <2>1. upto(j) \subseteq upto(k)
    BY <1>3, <1>5
  <2>2. upto(k) = upto(j)
    BY <1>4, <1>5, <2>1, FS_Subset
  <2>3. k \in upto(j)
    BY <1>4, <2>2
  <2>4. QED  BY <1>3, <1>5, <2>3
<1>6. rank \in Injection(left, 1..n)
  <2>1. rank \in [left -> 1..n]
    BY <1>4
  <2>2. ASSUME NEW j \in left, NEW k \in left, rank[j] = rank[k] PROVE j = k
    <3>1. j <= k \/ k <= j
      BY <1>3
    <3>2. QED  BY <1>5, <2>2, <3>1
  <2>3. QED  BY <2>1, <2>2 DEF Injection, IsInjective
<1>7. rank \in Surjection(left, 1..n)
  <2>1. IsFiniteSet(1..n) /\ Cardinality(1..n) = n
    BY <1>3, FS_Interval
  <2>2. QED  BY <1>6, <2>1, FS_Injection
<1>8. ASSUME NEW m \in 1..n PROVE nth(m) \in left /\ Cardinality(upto(nth(m))) = m
  <2>1. \E k \in left : rank[k] = m
    BY <1>7 DEF Surjection
  <2>2. \E k \in left : Cardinality(upto(k)) = m
    BY <2>1
  <2>3. QED  BY <2>2
<1>9. \A k \in left : nth(Cardinality(upto(k))) = k /\ Cardinality(upto(k)) \in 1..n
  <2> SUFFICES ASSUME NEW k \in left PROVE nth(Cardinality(upto(k))) = k
    BY <1>4
  <2> DEFINE j == nth(Cardinality(upto(k)))
  <2>1. j \in left /\ Cardinality(upto(j)) = Cardinality(upto(k))
    BY <1>4, <1>8
  <2>2. rank[j] = rank[k]
    BY <2>1
  <2>3. QED  BY <1>6, <2>1, <2>2 DEF Injection, IsInjective
<1>10. without(list, G) = rest
  BY DEF without
<1> HIDE DEF nth
<1>11. \A m \in 1..n : rest[m] = list[nth(m)] /\ nth(m) \in left /\ rest[m] \in Intents
  BY <1>1, <1>8
<1>12. DOMAIN rest = 1..n /\ rest \in Seq(Intents)
  BY <1>3, <1>11
<1>13. ToSet(rest) = ToSet(list) \ G
  <2>1. ASSUME NEW x \in ToSet(rest) PROVE x \in ToSet(list) \ G
    <3>1. PICK m \in 1..n : x = rest[m]
      BY <1>12 DEF ToSet
    <3>2. QED  BY <1>11, <3>1 DEF ToSet
  <2>2. ASSUME NEW x \in ToSet(list) \ G PROVE x \in ToSet(rest)
    <3>1. PICK k \in DOMAIN list : x = list[k]
      BY DEF ToSet
    <3>2. k \in left
      BY <3>1
    <3>3. PICK m \in 1..n : nth(m) = k
      BY <1>9, <3>2
    <3>4. rest[m] = x /\ m \in DOMAIN rest
      BY <1>11, <1>12, <3>1, <3>3
    <3>5. QED  BY <3>4 DEF ToSet
  <2>3. QED  BY <2>1, <2>2
<1>14. ASSUME IsInjective(list) PROVE IsInjective(rest)
  <2> SUFFICES ASSUME NEW l \in 1..n, NEW m \in 1..n, rest[l] = rest[m] PROVE l = m
    BY <1>12 DEF IsInjective
  <2>1. nth(l) = nth(m)
    BY <1>3, <1>11, <1>14 DEF IsInjective
  <2>2. QED  BY <1>8, <2>1
<1>15. QED  BY <1>10, <1>12, <1>13, <1>14

----------------------------------------------------------------------------
(* Types.                                                                  *)

PriorPosts == [step : {"prior"}, at : Nat, cover : Nat, prior : SUBSET Claims]
StampPosts == [step : {"stamp"}, cover : Nat, attempt : 1..MaxAttempts, spent : SUBSET Keys,
               unwinnable : SUBSET Batches, lookup : Batches]
AdmitPosts == [step : {"admit"}, cover : Nat, attempt : 1..MaxAttempts, spent : SUBSET Keys,
               unwinnable : SUBSET Batches, lookup : Batches, stamp : Nat]
Building == [ready : {FALSE}, list : Seq(Intents), cover : [Owners -> Nat], spent : SUBSET Keys]
Unscreened == [ready : {TRUE}, screened : {FALSE}, intents : SUBSET Intents]
Screened == [ready : {TRUE}, screened : {TRUE}, intents : SUBSET Intents,
             cover : [Owners -> Nat], spent : SUBSET Keys]

LEMMA PostKinds ==
  ASSUME TypeOK, NEW i \in Intents, posts[i] # Idle
  PROVE  /\ posts[i] \in Posts
         /\ \/ posts[i] \in PriorPosts /\ posts[i].step = "prior"
            \/ posts[i] \in StampPosts /\ posts[i].step = "stamp"
            \/ posts[i] \in AdmitPosts /\ posts[i].step = "admit"
<1>1. posts[i] \in Posts
  BY DEF TypeOK
<1>2. posts[i] \in PriorPosts \/ posts[i] \in StampPosts \/ posts[i] \in AdmitPosts
  BY <1>1 DEF Posts, PriorPosts, StampPosts, AdmitPosts
<1>3. posts[i] \in PriorPosts => posts[i].step = "prior"
  BY DEF PriorPosts
<1>4. posts[i] \in StampPosts => posts[i].step = "stamp"
  BY DEF StampPosts
<1>5. posts[i] \in AdmitPosts => posts[i].step = "admit"
  BY DEF AdmitPosts
<1>6. QED  BY <1>1, <1>2, <1>3, <1>4, <1>5

LEMMA PriorFields ==
  ASSUME TypeOK, NEW i \in Intents, posts[i] # Idle, posts[i].step = "prior"
  PROVE  posts[i].at \in Nat /\ posts[i].cover \in Nat /\ posts[i].prior \subseteq Claims
BY PostKinds DEF PriorPosts

LEMMA StampFields ==
  ASSUME TypeOK, NEW i \in Intents, posts[i] # Idle, posts[i].step = "stamp"
  PROVE  /\ posts[i].cover \in Nat /\ posts[i].attempt \in 1..MaxAttempts
         /\ posts[i].spent \subseteq Keys /\ posts[i].unwinnable \subseteq Batches
         /\ posts[i].lookup \in Batches
BY PostKinds DEF StampPosts

LEMMA AdmitFields ==
  ASSUME TypeOK, NEW i \in Intents, posts[i] # Idle, posts[i].step = "admit"
  PROVE  /\ posts[i].cover \in Nat /\ posts[i].attempt \in 1..MaxAttempts
         /\ posts[i].spent \subseteq Keys /\ posts[i].unwinnable \subseteq Batches
         /\ posts[i].lookup \in Batches /\ posts[i].stamp \in Nat
BY PostKinds DEF AdmitPosts

LEMMA FeedKinds ==
  ASSUME TypeOK, NEW b \in Batches, frozenFeeds[b] # NoFeed
  PROVE  /\ frozenFeeds[b] \in Feeds
         /\ \/ frozenFeeds[b] \in Building /\ ~frozenFeeds[b].ready
            \/ frozenFeeds[b] \in Unscreened /\ frozenFeeds[b].ready /\ ~frozenFeeds[b].screened
            \/ frozenFeeds[b] \in Screened /\ frozenFeeds[b].ready /\ frozenFeeds[b].screened
<1>1. frozenFeeds[b] \in Feeds
  BY DEF TypeOK
<1>2. frozenFeeds[b] \in Building \/ frozenFeeds[b] \in Unscreened \/ frozenFeeds[b] \in Screened
  BY <1>1 DEF Feeds, Building, Unscreened, Screened
<1>3. frozenFeeds[b] \in Building => ~frozenFeeds[b].ready
  BY DEF Building
<1>4. frozenFeeds[b] \in Unscreened => frozenFeeds[b].ready /\ ~frozenFeeds[b].screened
  BY DEF Unscreened
<1>5. frozenFeeds[b] \in Screened => frozenFeeds[b].ready /\ frozenFeeds[b].screened
  BY DEF Screened
<1>6. QED  BY <1>1, <1>2, <1>3, <1>4, <1>5

LEMMA BuildFields ==
  ASSUME TypeOK, NEW b \in Batches, frozenFeeds[b] # NoFeed, ~frozenFeeds[b].ready
  PROVE  /\ frozenFeeds[b].list \in Seq(Intents) /\ frozenFeeds[b].cover \in [Owners -> Nat]
         /\ frozenFeeds[b].spent \subseteq Keys
BY FeedKinds DEF Building

LEMMA ServedFields ==
  ASSUME TypeOK, NEW b \in Batches, frozenFeeds[b] # NoFeed, frozenFeeds[b].ready
  PROVE  /\ frozenFeeds[b].intents \subseteq Intents /\ frozenFeeds[b].screened \in BOOLEAN
         /\ frozenFeeds[b].screened => /\ frozenFeeds[b].cover \in [Owners -> Nat]
                                       /\ frozenFeeds[b].spent \subseteq Keys
<1>1. frozenFeeds[b] \in Unscreened \/ frozenFeeds[b] \in Screened
  BY FeedKinds
<1>2. QED  BY <1>1 DEF Unscreened, Screened

LEMMA LookupFields ==
  ASSUME TypeOK, NEW r \in Lookups, lookups[r] # Idle
  PROVE  /\ lookups[r].list \in Seq(Intents) /\ lookups[r].cover \in [Owners -> Nat]
         /\ lookups[r].spent \subseteq Keys
<1>1. lookups[r] \in Screenings
  BY DEF TypeOK
<1>2. QED  BY <1>1 DEF Screenings

LEMMA Lists ==
  ASSUME TypeOK, NEW b \in Batches
  PROVE  /\ getByBatch(b) \in Seq(Intents) /\ Waiting(b) \subseteq Intents
         /\ byBatch[b] # NoList => byBatch[b] \in Seq(Intents) /\ getByBatch(b) = byBatch[b]
         /\ byBatch[b] = NoList => getByBatch(b) = <<>> /\ Waiting(b) = {}
<1>1. byBatch[b] \in Seq(Intents) \cup {NoList}
  BY DEF TypeOK
<1>2. <<>> \in Seq(Intents) /\ ToSet(<<>>) = {}
  BY DEF ToSet
<1>3. getByBatch(b) \in Seq(Intents)
  BY <1>1, <1>2 DEF getByBatch
<1>4. \A k \in DOMAIN getByBatch(b) : getByBatch(b)[k] \in Intents
  BY <1>3
<1>5. Waiting(b) \subseteq Intents
  BY <1>4 DEF Waiting, ToSet
<1>6. QED  BY <1>1, <1>2, <1>3, <1>5 DEF getByBatch, Waiting

LEMMA Stored ==
  ASSUME TypeOK, NEW i \in Intents, byHash[i] # Idle
  PROVE  /\ byHash[i] \in StoredIntents /\ byHash[i].batch \in Batches
         /\ byHash[i].status \in {"pending", "expired", "rejected"}
         /\ isPending(i) => byHash[i] = [batch |-> byHash[i].batch, status |-> "pending"]
<1>1. byHash[i] \in StoredIntents
  BY DEF TypeOK
<1>2. QED  BY <1>1 DEF StoredIntents, isPending

----------------------------------------------------------------------------
(* What a sweep and a withdrawal do to the maps.                           *)

LEMMA SweepTypes ==
  ASSUME TypeOK, NEW time, sweep(time)
  PROVE  /\ byBatch' \in [Batches -> Seq(Intents) \cup {NoList}]
         /\ byHash' \in [Intents -> StoredIntents \cup {Idle}]
         /\ DOMAIN byOwnerNonce' \subseteq Keys
         /\ \A k \in DOMAIN byOwnerNonce' : byOwnerNonce'[k] \in [intent : Intents, validUntil : Nat]
         /\ frozenFeeds' \in [Batches -> Feeds \cup {NoFeed}]
<1>1. byBatch' \in [Batches -> Seq(Intents) \cup {NoList}]
  BY DEF sweep, sweepBatches, TypeOK
<1>2. byHash' \in [Intents -> StoredIntents \cup {Idle}]
  <2>1. byHash' = sweepStatus(time)
    BY DEF sweep
  <2>2. \A i \in Intents : byHash[i] # Idle => [byHash[i] EXCEPT !.status = "expired"] \in StoredIntents
    <3> SUFFICES ASSUME NEW i \in Intents, byHash[i] # Idle
                 PROVE  [byHash[i] EXCEPT !.status = "expired"] \in StoredIntents
      OBVIOUS
    <3>1. byHash[i] \in StoredIntents
      BY Stored
    <3>2. QED  BY <3>1 DEF StoredIntents
  <2>3. \A i \in Intents : byHash[i] \in StoredIntents \cup {Idle}
    BY DEF TypeOK
  <2>4. QED  BY <2>1, <2>2, <2>3 DEF sweepStatus
<1>3. byOwnerNonce' = sweepNonces(time)
  BY DEF sweep
<1>4. /\ DOMAIN byOwnerNonce' \subseteq DOMAIN byOwnerNonce
      /\ \A k \in DOMAIN byOwnerNonce' : byOwnerNonce'[k] = byOwnerNonce[k]
  BY <1>3 DEF sweepNonces
<1>5. frozenFeeds' \in [Batches -> Feeds \cup {NoFeed}]
  BY DEF sweep, sweepFeeds, TypeOK
<1>6. QED  BY <1>1, <1>2, <1>4, <1>5 DEF TypeOK

\* A sweep forgets batches past their deadline, and nothing of the others.
LEMMA SweepBatch ==
  ASSUME TypeOK, NEW time \in Nat, time <= now, sweep(time), NEW b \in Batches
  PROVE  \/ /\ byBatch[b] # NoList /\ forgetAt(b) < now
            /\ byBatch'[b] = NoList /\ frozenFeeds'[b] = NoFeed
            /\ b \in swept(time)
         \/ /\ byBatch'[b] = byBatch[b] /\ frozenFeeds'[b] = frozenFeeds[b]
            /\ byBatch[b] # NoList => time <= forgetAt(b)
            /\ b \notin swept(time)
<1>1. time \in Nat /\ now \in Nat /\ forgetAt(b) \in Nat
  BY BatchTimes DEF TypeOK
<1>2. /\ byBatch'[b] = IF b \in swept(time) THEN NoList ELSE byBatch[b]
      /\ frozenFeeds'[b] = IF b \in swept(time) THEN NoFeed ELSE frozenFeeds[b]
  BY DEF sweep, sweepBatches, sweepFeeds
<1>3. b \in swept(time) <=> byBatch[b] # NoList /\ time > forgetAt(b)
  BY DEF swept
<1>4. QED  BY <1>1, <1>2, <1>3

LEMMA SweepHash ==
  ASSUME TypeOK, NEW time \in Nat, sweep(time), NEW i \in Intents
  PROVE  /\ byHash[i] = Idle => byHash'[i] = Idle
         /\ byHash'[i] # Idle => byHash[i] # Idle /\ byHash'[i].batch = byHash[i].batch
         /\ isPending(i)' => isPending(i) /\ byHash'[i] = byHash[i]
                             /\ \A b \in swept(time) : i \notin Waiting(b)
         /\ byHash[i] # Idle /\ time <= forgetAt(byHash[i].batch) + STATUS_RETENTION
              => byHash'[i] # Idle
         /\ isPending(i) /\ time <= forgetAt(byHash[i].batch) + STATUS_RETENTION
              /\ (\A b \in swept(time) : i \notin Waiting(b)) => byHash'[i] = byHash[i]
<1>1. byHash'[i] =
        IF byHash[i] = Idle \/ time > forgetAt(byHash[i].batch) + STATUS_RETENTION THEN Idle
        ELSE IF isPending(i) /\ \E b \in swept(time) : i \in Waiting(b)
             THEN [byHash[i] EXCEPT !.status = "expired"]
        ELSE byHash[i]
  BY DEF sweep, sweepStatus
<1>2. CASE byHash[i] = Idle
  BY <1>1, <1>2 DEF isPending
<1>3. CASE byHash[i] # Idle
  <2>1. byHash[i] \in StoredIntents /\ byHash[i].batch \in Batches
    BY <1>3, Stored
  <2>2. forgetAt(byHash[i].batch) + STATUS_RETENTION \in Nat
    BY <2>1, BatchTimes, PoolNumbers
  <2> DEFINE old == [byHash[i] EXCEPT !.status = "expired"]
  <2>3. old \in StoredIntents /\ old.batch = byHash[i].batch /\ old.status = "expired"
    BY <2>1 DEF StoredIntents
  <2>4. old # Idle
    BY <2>3, PoolNumbers
  <2>5. CASE time > forgetAt(byHash[i].batch) + STATUS_RETENTION
    <3>1. byHash'[i] = Idle
      BY <1>1, <2>5
    <3>2. QED  BY <1>3, <2>2, <2>5, <3>1 DEF isPending
  <2>6. CASE ~(time > forgetAt(byHash[i].batch) + STATUS_RETENTION)
    <3>1. CASE isPending(i) /\ \E b \in swept(time) : i \in Waiting(b)
      <4>1. byHash'[i] = old
        BY <1>1, <1>3, <2>6, <3>1
      <4>2. ~isPending(i)'
        BY <2>3, <4>1 DEF isPending
      <4>3. QED  BY <1>3, <2>3, <2>4, <3>1, <4>1, <4>2
    <3>2. CASE ~(isPending(i) /\ \E b \in swept(time) : i \in Waiting(b))
      <4>1. byHash'[i] = byHash[i]
        BY <1>1, <1>3, <2>6, <3>2
      <4>2. isPending(i)' = isPending(i)
        BY <4>1 DEF isPending
      <4>3. QED  BY <1>3, <3>2, <4>1, <4>2
    <3>3. QED  BY <3>1, <3>2
  <2>7. QED  BY <2>5, <2>6
<1>4. QED  BY <1>2, <1>3

LEMMA SweepNonce ==
  ASSUME TypeOK, HeldInv, NEW time \in Nat, time <= now, sweep(time)
  PROVE  /\ HeldInv'
         /\ \A i \in Intents : holds(i) /\ now <= i.validUntil => holds(i)'
<1>1. byOwnerNonce' = sweepNonces(time)
  BY DEF sweep
<1>2. /\ DOMAIN byOwnerNonce' \subseteq DOMAIN byOwnerNonce
      /\ \A k \in DOMAIN byOwnerNonce' : byOwnerNonce'[k] = byOwnerNonce[k]
  BY <1>1 DEF sweepNonces
<1>3. HeldInv'
  BY <1>2 DEF HeldInv
<1>4. ASSUME NEW i \in Intents, holds(i), now <= i.validUntil
      PROVE  holds(i)'
  <2>1. byOwnerNonce[ownerNonceKey(i)].validUntil = i.validUntil
    BY <1>4 DEF holds, HeldInv
  <2>2. time <= i.validUntil
    BY <1>4, IntentFacts DEF TypeOK
  <2>3. ownerNonceKey(i) \in DOMAIN byOwnerNonce'
    BY <1>1, <1>4, <2>1, <2>2 DEF sweepNonces, holds
  <2>4. QED  BY <1>2, <1>4, <2>3 DEF holds
<1>5. QED  BY <1>3, <1>4

\* After a sweep the maps agree as they did.
LEMMA SweepWaits ==
  ASSUME PoolInv, NEW time \in Nat, time <= now, sweep(time), now' = now, accepted' = accepted
  PROVE  HeldInv' /\ WaitInv' /\ AcceptInv'
<1>0. TypeOK /\ HeldInv /\ WaitInv /\ AcceptInv
  BY DEF PoolInv
<1>1. ASSUME NEW b \in Batches
      PROVE  /\ IsInjective(getByBatch(b)')
             /\ b \in swept(time) => Waiting(b)' = {}
             /\ b \notin swept(time) => Waiting(b)' = Waiting(b)
  <2>1. CASE byBatch'[b] = NoList /\ b \in swept(time)
    <3>1. getByBatch(b)' = <<>>
      BY <2>1 DEF getByBatch
    <3>2. QED  BY <2>1, <3>1 DEF Waiting, ToSet, IsInjective
  <2>2. CASE byBatch'[b] = byBatch[b] /\ b \notin swept(time)
    <3>1. getByBatch(b)' = getByBatch(b)
      BY <2>2 DEF getByBatch
    <3>2. QED  BY <1>0, <2>2, <3>1 DEF Waiting, WaitInv
  <2>3. QED  BY <1>0, <2>1, <2>2, SweepBatch
<1>2. ASSUME NEW b \in Batches, NEW i \in Waiting(b)'
      PROVE  byHash'[i] = [batch |-> b, status |-> "pending"]
  <2>1. b \notin swept(time) /\ i \in Waiting(b)
    BY <1>1, <1>2
  <2>2. i \in Intents /\ byHash[i] = [batch |-> b, status |-> "pending"]
    BY <1>0, <2>1, Lists DEF WaitInv
  <2>3. byHash[i] \in StoredIntents
    BY <2>2 DEF StoredIntents
  <2>4. isPending(i) /\ byHash[i].batch = b /\ byHash[i] # Idle
    BY <2>2, <2>3, PoolNumbers DEF isPending
  <2>5. \A c \in swept(time) : i \notin Waiting(c)
    <3> SUFFICES ASSUME NEW c \in swept(time), i \in Waiting(c) PROVE FALSE
      OBVIOUS
    <3>1. c \in Batches
      BY DEF swept
    <3>2. byHash[i] = [batch |-> c, status |-> "pending"]
      BY <1>0, <3>1 DEF WaitInv
    <3>3. QED  BY <2>1, <2>2, <3>2
  <2>6. byBatch[b] # NoList
    BY <1>0, <2>1, Lists
  <2>7. time <= forgetAt(b)
    BY <1>0, <2>1, <2>6, SweepBatch
  <2>8. time <= forgetAt(b) + STATUS_RETENTION
    BY <2>7, BatchTimes, PoolNumbers
  <2>9. QED  BY <1>0, <2>2, <2>4, <2>5, <2>8, SweepHash
<1>3. ASSUME NEW i \in Intents, isPending(i)'
      PROVE  i \in Waiting(byHash[i].batch)' /\ byHash'[i] = byHash[i] /\ isPending(i)
  <2>1. /\ isPending(i) /\ byHash'[i] = byHash[i]
        /\ \A b \in swept(time) : i \notin Waiting(b)
    BY <1>0, <1>3, SweepHash
  <2>2. byHash[i] # Idle /\ byHash[i].batch \in Batches
    BY <1>0, <2>1, Stored DEF isPending
  <2>3. i \in Waiting(byHash[i].batch)
    BY <1>0, <2>1 DEF WaitInv
  <2>4. PICK b \in Batches : b = byHash[i].batch
    BY <2>2
  <2>5. i \in Waiting(b) /\ b \notin swept(time)
    BY <2>1, <2>3, <2>4
  <2>6. Waiting(b)' = Waiting(b)
    BY <1>1, <2>5
  <2>7. i \in Waiting(b)' /\ byHash'[i].batch = b
    BY <2>1, <2>4, <2>5, <2>6
  <2>8. QED  BY <2>1, <2>7 DEF Waiting, getByBatch
<1>4. WaitInv'
  <2>1. ASSUME NEW i \in Intents, isPending(i)' PROVE (i \in Waiting(byHash[i].batch))'
    <3>1. i \in Waiting(byHash[i].batch)' /\ byHash'[i] = byHash[i]
      BY <1>3, <2>1
    <3>2. QED  BY <3>1 DEF Waiting, getByBatch
  <2>2. QED  BY <1>1, <1>2, <2>1 DEF WaitInv
<1>5. AcceptInv'
  BY <1>0, <1>3, SweepNonce DEF AcceptInv
<1>6. QED  BY <1>0, <1>4, <1>5, SweepNonce

LEMMA WithdrawTypes ==
  ASSUME TypeOK, NEW W, W \subseteq Intents, withdraw(W)
  PROVE  /\ byBatch' \in [Batches -> Seq(Intents) \cup {NoList}]
         /\ byHash' \in [Intents -> StoredIntents \cup {Idle}]
         /\ DOMAIN byOwnerNonce' \subseteq Keys
         /\ \A k \in DOMAIN byOwnerNonce' : byOwnerNonce'[k] \in [intent : Intents, validUntil : Nat]
         /\ accepted' \in [Intents -> {"timely", "late", Idle}]
<1>1. byBatch' \in [Batches -> Seq(Intents) \cup {NoList}]
  <2>1. \A b \in Batches : byBatch[b] # NoList => byBatch[b] \in Seq(Intents)
    BY Lists
  <2>2. \A G : \A b \in Batches : byBatch[b] # NoList => without(byBatch[b], G) \in Seq(Intents)
    BY <2>1, WithoutLeaves
  <2>3. QED  BY <2>2 DEF withdraw, afterWithdraw
<1>2. byHash' \in [Intents -> StoredIntents \cup {Idle}]
  <2>1. ASSUME NEW i \in Intents
        PROVE  /\ byHash[i] \in StoredIntents \cup {Idle}
               /\ i \in Gone(W) => [byHash[i] EXCEPT !.status = "rejected"] \in StoredIntents
    <3>1. byHash[i] \in StoredIntents \cup {Idle}
      BY DEF TypeOK
    <3>2. i \in Gone(W) => byHash[i] \in StoredIntents
      BY <3>1 DEF Gone, isPending
    <3>3. QED  BY <3>1, <3>2 DEF StoredIntents
  <2>2. QED  BY <2>1 DEF withdraw
<1>3. /\ DOMAIN byOwnerNonce' \subseteq DOMAIN byOwnerNonce
      /\ \A k \in DOMAIN byOwnerNonce' : byOwnerNonce'[k] = byOwnerNonce[k]
  BY DEF withdraw
<1>4. accepted' \in [Intents -> {"timely", "late", Idle}]
  BY DEF withdraw, TypeOK
<1>5. QED  BY <1>1, <1>2, <1>3, <1>4 DEF TypeOK

\* The intents withdrawn are no longer pending, the others stay as they are.
LEMMA WithdrawHash ==
  ASSUME TypeOK, NEW W, W \subseteq Intents, withdraw(W), NEW i \in Intents
  PROVE  /\ i \in Gone(W) => ~isPending(i)' /\ accepted'[i] = Idle
         /\ i \notin Gone(W) => byHash'[i] = byHash[i] /\ accepted'[i] = accepted[i]
                                /\ isPending(i)' = isPending(i)
         /\ byHash[i] # Idle => byHash'[i] # Idle /\ byHash'[i].batch = byHash[i].batch
         /\ byHash[i] = Idle => byHash'[i] = Idle
<1>1. byHash'[i] = IF i \in Gone(W) THEN [byHash[i] EXCEPT !.status = "rejected"] ELSE byHash[i]
  BY DEF withdraw
<1>2. accepted'[i] = IF i \in Gone(W) THEN Idle ELSE accepted[i]
  BY DEF withdraw
<1>3. CASE i \in Gone(W)
  <2>1. byHash[i] \in StoredIntents /\ byHash[i] # Idle
    BY <1>3, Stored DEF Gone, isPending
  <2>2. byHash'[i] = [byHash[i] EXCEPT !.status = "rejected"]
    BY <1>1, <1>3
  <2>3. byHash'[i] \in StoredIntents /\ byHash'[i].status = "rejected" /\ byHash'[i].batch = byHash[i].batch
    BY <2>1, <2>2 DEF StoredIntents
  <2>4. byHash'[i] # Idle /\ ~isPending(i)'
    BY <2>3, PoolNumbers DEF isPending
  <2>5. QED  BY <1>2, <1>3, <2>1, <2>3, <2>4
<1>4. CASE i \notin Gone(W)
  BY <1>1, <1>2, <1>4 DEF isPending
<1>5. QED  BY <1>3, <1>4

LEMMA WithdrawBatch ==
  ASSUME TypeOK, WaitInv, NEW W, W \subseteq Intents, withdraw(W), NEW b \in Batches
  PROVE  /\ byBatch[b] = NoList <=> byBatch'[b] = NoList
         /\ IsInjective(getByBatch(b)')
         /\ Waiting(b)' = Waiting(b) \ Gone(W)
<1> DEFINE G == {i \in Gone(W) : byHash[i].batch = b}
<1>1. byBatch'[b] = IF byBatch[b] = NoList THEN NoList ELSE without(byBatch[b], G)
  BY DEF withdraw, afterWithdraw
<1>2. CASE byBatch[b] = NoList
  <2>1. byBatch'[b] = NoList
    BY <1>1, <1>2
  <2>2. getByBatch(b)' = <<>>
    BY <2>1 DEF getByBatch
  <2>3. Waiting(b)' = {} /\ Waiting(b) = {} /\ IsInjective(getByBatch(b)')
    BY <1>2, <2>2, Lists DEF Waiting, ToSet, IsInjective
  <2>4. QED  BY <1>2, <2>1, <2>3
<1>3. CASE byBatch[b] # NoList
  <2>1. byBatch[b] \in Seq(Intents) /\ getByBatch(b) = byBatch[b]
    BY <1>3, Lists
  <2>2. byBatch'[b] = without(byBatch[b], G)
    BY <1>1, <1>3
  <2> HIDE DEF G
  <2>3. /\ byBatch'[b] \in Seq(Intents) /\ ToSet(byBatch'[b]) = ToSet(byBatch[b]) \ G
        /\ IsInjective(byBatch[b]) => IsInjective(byBatch'[b])
    BY <2>1, <2>2, WithoutLeaves
  <2>4. byBatch'[b] # NoList
    BY <2>3, PoolNumbers
  <2>5. getByBatch(b)' = byBatch'[b]
    BY <2>4 DEF getByBatch
  <2>6. IsInjective(byBatch[b])
    BY <2>1 DEF WaitInv
  <2>7. Waiting(b) = ToSet(byBatch[b]) /\ Waiting(b)' = ToSet(byBatch'[b])
    BY <2>1, <2>5 DEF Waiting
  <2>8. \A i \in Waiting(b) : i \in G <=> i \in Gone(W)
    <3>1. ASSUME NEW i \in Waiting(b) PROVE byHash[i].batch = b
      <4>1. byHash[i] = [batch |-> b, status |-> "pending"]
        BY DEF WaitInv
      <4>2. QED  BY <4>1
    <3>2. QED  BY <3>1 DEF G
  <2>9. QED  BY <1>3, <2>3, <2>4, <2>5, <2>6, <2>7, <2>8
<1>4. QED  BY <1>2, <1>3

LEMMA WithdrawNonce ==
  ASSUME TypeOK, HeldInv, NEW W, W \subseteq Intents, withdraw(W)
  PROVE  /\ HeldInv'
         /\ \A i \in Intents : holds(i) /\ i \notin Gone(W) => holds(i)'
<1>1. /\ DOMAIN byOwnerNonce' \subseteq DOMAIN byOwnerNonce
      /\ \A k \in DOMAIN byOwnerNonce' : byOwnerNonce'[k] = byOwnerNonce[k]
  BY DEF withdraw
<1>2. \A k \in DOMAIN byOwnerNonce : byOwnerNonce[k].intent \notin Gone(W) => k \in DOMAIN byOwnerNonce'
  BY DEF withdraw
<1>3. QED  BY <1>1, <1>2 DEF HeldInv, holds

LEMMA WithdrawWaits ==
  ASSUME PoolInv, NEW W, W \subseteq Intents, withdraw(W), now' = now
  PROVE  HeldInv' /\ WaitInv' /\ AcceptInv'
<1>0. TypeOK /\ HeldInv /\ WaitInv /\ AcceptInv
  BY DEF PoolInv
<1>1. ASSUME NEW b \in Batches
      PROVE  /\ IsInjective(getByBatch(b)')
             /\ \A i \in Waiting(b)' : byHash'[i] = [batch |-> b, status |-> "pending"]
  <2>1. IsInjective(getByBatch(b)') /\ Waiting(b)' = Waiting(b) \ Gone(W)
    BY <1>0, WithdrawBatch
  <2>2. ASSUME NEW i \in Waiting(b)' PROVE byHash'[i] = [batch |-> b, status |-> "pending"]
    <3>1. i \in Waiting(b) /\ i \notin Gone(W) /\ i \in Intents
      BY <1>0, <2>1, <2>2, Lists
    <3>2. byHash'[i] = byHash[i]
      BY <1>0, <3>1, WithdrawHash
    <3>3. QED  BY <1>0, <3>1, <3>2 DEF WaitInv
  <2>3. QED  BY <2>1, <2>2
<1>2. ASSUME NEW i \in Intents, isPending(i)'
      PROVE  (i \in Waiting(byHash[i].batch))' /\ isPending(i) /\ i \notin Gone(W)
  <2>1. i \notin Gone(W) /\ isPending(i) /\ byHash'[i] = byHash[i]
    BY <1>0, <1>2, WithdrawHash
  <2>2. byHash[i].batch \in Batches
    BY <1>0, <2>1, Stored DEF isPending
  <2>3. PICK b \in Batches : b = byHash[i].batch
    BY <2>2
  <2>4. i \in Waiting(b)
    BY <1>0, <2>1, <2>3 DEF WaitInv
  <2>5. i \in Waiting(b)' /\ byHash'[i].batch = b
    BY <1>0, <2>1, <2>3, <2>4, WithdrawBatch
  <2>6. QED  BY <2>1, <2>5 DEF Waiting, getByBatch
<1>3. WaitInv'
  BY <1>1, <1>2 DEF WaitInv
<1>4. ASSUME NEW i \in Intents
      PROVE  /\ isPending(i)' => accepted'[i] # Idle
             /\ accepted'[i] # Idle /\ now' <= i.validUntil => holds(i)'
  <2>1. accepted'[i] # Idle => i \notin Gone(W) /\ accepted[i] # Idle
    BY <1>0, WithdrawHash
  <2>2. isPending(i)' => i \notin Gone(W) /\ accepted'[i] = accepted[i] /\ isPending(i)
    BY <1>0, WithdrawHash
  <2>3. QED  BY <1>0, <2>1, <2>2, WithdrawNonce DEF AcceptInv
<1>5. AcceptInv'
  BY <1>4 DEF AcceptInv
<1>6. QED  BY <1>0, <1>3, <1>5, WithdrawNonce

\* What a screening takes out was in its list.
LEMMA RejectedIn ==
  ASSUME NEW x, x.list \in Seq(Intents), NEW K
  PROVE  rejected(x, K) \subseteq ToSet(x.list) /\ rejected(x, K) \subseteq Intents
<1>1. \A k \in DOMAIN x.list : x.list[k] \in Intents
  OBVIOUS
<1>2. QED  BY <1>1 DEF rejected, ToSet

----------------------------------------------------------------------------
(* Every step keeps the types.                                             *)

LEMMA InitTypes == Init => TypeOK
<1> SUFFICES ASSUME Init PROVE TypeOK
  OBVIOUS
<1>1. now \in Nat /\ covered \in [Owners -> Nat] /\ acting \in Disturbances
  BY PoolNumbers DEF Init
<1>2. /\ nonceUsed \subseteq Keys /\ settled \subseteq Batches /\ pulled \subseteq Intents
      /\ won \in [Batches -> SUBSET Intents]
  BY DEF Init
<1>3. /\ byBatch \in [Batches -> Seq(Intents) \cup {NoList}]
      /\ byHash \in [Intents -> StoredIntents \cup {Idle}]
      /\ frozenFeeds \in [Batches -> Feeds \cup {NoFeed}]
      /\ posts \in [Intents -> Posts \cup {Idle}]
      /\ lookups \in [Lookups -> Screenings \cup {Idle}]
      /\ accepted \in [Intents -> {"timely", "late", Idle}]
  BY DEF Init
<1>4. DOMAIN byOwnerNonce = {}
  BY DEF Init
<1>5. QED  BY <1>1, <1>2, <1>3, <1>4 DEF TypeOK

LEMMA FactsTypes ==
  ASSUME TypeOK, NEW i \in Intents, postFacts(i)
  PROVE  TypeOK'
<1>1. committed(i.owner) \subseteq Claims
  <2>1. \A b \in Batches : Waiting(b) \subseteq Intents
    BY Lists
  <2>2. QED  BY <2>1 DEF committed, Claims
<1>2. covered[i.owner] \in Nat /\ now \in Nat
  BY IntentFacts DEF TypeOK
<1> DEFINE post == [step |-> "prior", at |-> now, cover |-> covered[i.owner],
                    prior |-> committed(i.owner)]
<1>3. post \in Posts
  BY <1>1, <1>2 DEF Posts
<1>4. posts' = [posts EXCEPT ![i] = post]
  BY DEF postFacts
<1> HIDE DEF post
<1>5. posts' \in [Intents -> Posts \cup {Idle}]
  BY <1>3, <1>4 DEF TypeOK
<1>6. QED  BY <1>5 DEF postFacts, TypeOK, chainVars, poolVars

\* The window an admission is looked up for, or the refusal.
LEMMA WindowPosts ==
  ASSUME TypeOK, NEW i \in Intents, NEW time, NEW cover \in Nat, NEW attempt \in 1..MaxAttempts,
         NEW spent \in SUBSET Keys, NEW unwinnable \in SUBSET Batches,
         windowAt(i, time, cover, attempt, spent, unwinnable)
  PROVE  /\ posts' \in [Intents -> Posts \cup {Idle}]
         /\ \A j \in Intents : j # i => posts'[j] = posts[j]
         /\ posts'[i] # Idle => /\ posts'[i].step = "stamp" /\ posts'[i].cover = cover
                                /\ posts'[i].spent = spent /\ posts'[i].unwinnable = unwinnable
<1> DEFINE post == [step |-> "stamp", cover |-> cover, attempt |-> attempt, spent |-> spent,
                    unwinnable |-> unwinnable, lookup |-> CHOOSE b \in openWindow(time) : TRUE]
           next == IF \E b \in openWindow(time) : i.validUntil > solveEnd(b) THEN post ELSE Idle
<1>1. posts' = [posts EXCEPT ![i] = next]
  BY DEF windowAt
<1>2. ASSUME next # Idle PROVE next = post /\ post \in Posts
  <2>1. (CHOOSE b \in openWindow(time) : TRUE) \in openWindow(time)
    BY <1>2
  <2>2. openWindow(time) \subseteq Batches
    BY DEF openWindow
  <2>3. QED  BY <1>2, <2>1, <2>2 DEF Posts
<1>3. next \in Posts \cup {Idle}
  BY <1>2
<1>4. next # Idle => /\ next.step = "stamp" /\ next.cover = cover
                     /\ next.spent = spent /\ next.unwinnable = unwinnable
  BY <1>2
<1> HIDE DEF next
<1>5. posts \in [Intents -> Posts \cup {Idle}]
  BY DEF TypeOK
<1>6. QED  BY <1>1, <1>3, <1>4, <1>5

LEMMA PriorTypes ==
  ASSUME TypeOK, NEW i \in Intents, postPrior(i)
  PROVE  TypeOK' /\ posts[i].at \in Nat /\ sweep(posts[i].at)
<1> DEFINE p == posts[i]
           spent == IF p.prior = {} THEN {} ELSE nonceUsed
           lost  == {b \in {c.batch : c \in p.prior} : p.at > solveEnd(b) /\ unwon(b)}
<1>1. p # Idle /\ p.step = "prior" /\ windowAt(i, p.at, p.cover, 1, spent, lost)
      /\ UNCHANGED <<now, chainVars, lookups, accepted>>
  BY DEF postPrior
<1>2. p.at \in Nat /\ p.cover \in Nat /\ p.prior \subseteq Claims
  BY <1>1, PriorFields
<1>3. spent \in SUBSET Keys /\ lost \in SUBSET Batches
  BY <1>2 DEF TypeOK, Claims
<1>4. 1 \in 1..MaxAttempts
  BY PoolNumbers
<1> HIDE DEF spent, lost
<1>5. posts' \in [Intents -> Posts \cup {Idle}]
  BY <1>1, <1>2, <1>3, <1>4, WindowPosts
<1>6. sweep(p.at)
  BY <1>1 DEF windowAt
<1>7. /\ byBatch' \in [Batches -> Seq(Intents) \cup {NoList}]
      /\ byHash' \in [Intents -> StoredIntents \cup {Idle}]
      /\ DOMAIN byOwnerNonce' \subseteq Keys
      /\ \A k \in DOMAIN byOwnerNonce' : byOwnerNonce'[k] \in [intent : Intents, validUntil : Nat]
      /\ frozenFeeds' \in [Batches -> Feeds \cup {NoFeed}]
  BY <1>6, SweepTypes
<1>8. QED  BY <1>1, <1>2, <1>5, <1>6, <1>7 DEF TypeOK, chainVars

LEMMA StampTypes ==
  ASSUME TypeOK, NEW i \in Intents, postStamp(i)
  PROVE  /\ TypeOK'
         /\ \A j \in Intents : j # i => posts'[j] = posts[j]
         /\ posts'[i] # Idle /\ posts'[i].step = "admit" /\ posts'[i].stamp = now
         /\ posts'[i].cover = posts[i].cover /\ posts'[i].spent = posts[i].spent
         /\ posts'[i].unwinnable = posts[i].unwinnable
<1>1. posts[i] # Idle /\ posts[i].step = "stamp"
  BY DEF postStamp
<1> DEFINE post == [step |-> "admit", cover |-> posts[i].cover, attempt |-> posts[i].attempt,
                    spent |-> posts[i].spent, unwinnable |-> posts[i].unwinnable,
                    lookup |-> posts[i].lookup, stamp |-> now]
<1>2. post \in Posts
  BY <1>1, StampFields DEF Posts, TypeOK
<1>3. post # Idle /\ post.step = "admit" /\ post.stamp = now /\ post.cover = posts[i].cover
      /\ post.spent = posts[i].spent /\ post.unwinnable = posts[i].unwinnable
  BY <1>2, PoolNumbers
<1>4. posts' = [posts EXCEPT ![i] = post]
  BY DEF postStamp
<1> HIDE DEF post
<1>5. posts' \in [Intents -> Posts \cup {Idle}] /\ posts'[i] = post
      /\ \A j \in Intents : j # i => posts'[j] = posts[j]
  BY <1>2, <1>4 DEF TypeOK
<1>6. TypeOK'
  BY <1>5 DEF postStamp, TypeOK, chainVars, poolVars
<1>7. QED  BY <1>3, <1>5, <1>6

\* What an admission adds to the maps.
LEMMA AdmitMaps ==
  ASSUME TypeOK, NEW i \in Intents, NEW b \in Batches, admit(i, b)
  PROVE  /\ byHash'[i] = [batch |-> b, status |-> "pending"] /\ byHash'[i] \in StoredIntents
         /\ \A j \in Intents : j # i => byHash'[j] = byHash[j] /\ accepted'[j] = accepted[j]
         /\ accepted'[i] = IF now <= b THEN "timely" ELSE "late"
         /\ byBatch'[b] = Append(getByBatch(b), i) /\ byBatch'[b] \in Seq(Intents)
         /\ \A c \in Batches : c # b => byBatch'[c] = byBatch[c]
         /\ DOMAIN byOwnerNonce' = DOMAIN byOwnerNonce \cup {ownerNonceKey(i)}
         /\ byOwnerNonce'[ownerNonceKey(i)] = [intent |-> i, validUntil |-> i.validUntil]
         /\ \A k \in DOMAIN byOwnerNonce : k # ownerNonceKey(i) => byOwnerNonce'[k] = byOwnerNonce[k]
<1>1. /\ byHash \in [Intents -> StoredIntents \cup {Idle}]
      /\ byBatch \in [Batches -> Seq(Intents) \cup {NoList}]
      /\ accepted \in [Intents -> {"timely", "late", Idle}]
  BY DEF TypeOK
<1>2. /\ byHash'[i] = [batch |-> b, status |-> "pending"]
      /\ \A j \in Intents : j # i => byHash'[j] = byHash[j]
  BY <1>1 DEF admit
<1>3. /\ accepted'[i] = IF now <= b THEN "timely" ELSE "late"
      /\ \A j \in Intents : j # i => accepted'[j] = accepted[j]
  BY <1>1 DEF admit
<1>4. /\ byBatch'[b] = Append(getByBatch(b), i)
      /\ \A c \in Batches : c # b => byBatch'[c] = byBatch[c]
  BY <1>1 DEF admit
<1>5. getByBatch(b) \in Seq(Intents)
  BY Lists
<1>6. Append(getByBatch(b), i) \in Seq(Intents)
  BY <1>5
<1>7. byHash'[i] \in StoredIntents
  BY <1>2 DEF StoredIntents
<1>8. /\ DOMAIN byOwnerNonce' = DOMAIN byOwnerNonce \cup {ownerNonceKey(i)}
      /\ byOwnerNonce'[ownerNonceKey(i)] = [intent |-> i, validUntil |-> i.validUntil]
      /\ \A k \in DOMAIN byOwnerNonce : k # ownerNonceKey(i) => byOwnerNonce'[k] = byOwnerNonce[k]
  BY DEF admit
<1>9. QED  BY <1>2, <1>3, <1>4, <1>6, <1>7, <1>8

LEMMA AdmitTypes ==
  ASSUME TypeOK, NEW i \in Intents, NEW b \in Batches, admit(i, b)
  PROVE  /\ byBatch' \in [Batches -> Seq(Intents) \cup {NoList}]
         /\ byHash' \in [Intents -> StoredIntents \cup {Idle}]
         /\ DOMAIN byOwnerNonce' \subseteq Keys
         /\ \A k \in DOMAIN byOwnerNonce' : byOwnerNonce'[k] \in [intent : Intents, validUntil : Nat]
         /\ frozenFeeds' \in [Batches -> Feeds \cup {NoFeed}]
         /\ accepted' \in [Intents -> {"timely", "late", Idle}]
<1>1. byBatch' \in [Batches -> Seq(Intents) \cup {NoList}]
  <2> DEFINE list == Append(getByBatch(b), i)
  <2>1. list \in Seq(Intents)
    BY Lists
  <2>2. byBatch' = [byBatch EXCEPT ![b] = list]
    BY DEF admit
  <2> HIDE DEF list
  <2>3. QED  BY <2>1, <2>2 DEF TypeOK
<1>2. byHash' \in [Intents -> StoredIntents \cup {Idle}]
  <2>1. [batch |-> b, status |-> "pending"] \in StoredIntents
    BY DEF StoredIntents
  <2>2. QED  BY <2>1 DEF admit, TypeOK
<1>3. accepted' \in [Intents -> {"timely", "late", Idle}]
  BY DEF admit, TypeOK
<1>4. frozenFeeds' \in [Batches -> Feeds \cup {NoFeed}]
  BY DEF admit, TypeOK
<1>5. ownerNonceKey(i) \in Keys /\ [intent |-> i, validUntil |-> i.validUntil] \in [intent : Intents, validUntil : Nat]
  BY IntentFacts
<1>6. /\ DOMAIN byOwnerNonce' = DOMAIN byOwnerNonce \cup {ownerNonceKey(i)}
      /\ byOwnerNonce'[ownerNonceKey(i)] = [intent |-> i, validUntil |-> i.validUntil]
      /\ \A k \in DOMAIN byOwnerNonce : k # ownerNonceKey(i) => byOwnerNonce'[k] = byOwnerNonce[k]
  BY AdmitMaps
<1>7. /\ DOMAIN byOwnerNonce' \subseteq Keys
      /\ \A k \in DOMAIN byOwnerNonce' : byOwnerNonce'[k] \in [intent : Intents, validUntil : Nat]
  BY <1>5, <1>6 DEF TypeOK
<1>8. QED  BY <1>1, <1>2, <1>3, <1>4, <1>7

\* A request at its last await: it is admitted, given up, or tries the window
\* of its stamp.
LEMMA AnswerKinds ==
  ASSUME TypeOK, NEW i \in Intents, postAdmit(i)
  PROVE  /\ posts[i] # Idle /\ posts[i].step = "admit"
         /\ UNCHANGED <<now, chainVars, lookups>>
         /\ \/ /\ posts' = [posts EXCEPT ![i] = Idle]
               /\ admissible(i) /\ admit(i, posts[i].lookup)
            \/ posts' = [posts EXCEPT ![i] = Idle] /\ UNCHANGED poolVars
            \/ /\ posts[i].attempt + 1 \in 1..MaxAttempts /\ UNCHANGED accepted
               /\ windowAt(i, posts[i].stamp, posts[i].cover, posts[i].attempt + 1,
                           posts[i].spent, posts[i].unwinnable)
<1>1. posts[i] # Idle /\ posts[i].step = "admit" /\ UNCHANGED <<now, chainVars, lookups>>
  BY DEF postAdmit
<1>2. posts[i].attempt \in 1..MaxAttempts
  BY <1>1, AdmitFields
<1>3. posts[i].attempt < MaxAttempts => posts[i].attempt + 1 \in 1..MaxAttempts
  BY <1>2, PoolNumbers
<1>4. QED  BY <1>1, <1>3 DEF postAdmit

LEMMA AnswerTypes ==
  ASSUME TypeOK, NEW i \in Intents, postAdmit(i)
  PROVE  TypeOK'
<1>1. posts[i] # Idle /\ posts[i].step = "admit" /\ UNCHANGED <<now, chainVars, lookups>>
  BY AnswerKinds
<1>2. CASE posts' = [posts EXCEPT ![i] = Idle] /\ admissible(i) /\ admit(i, posts[i].lookup)
  <2>1. posts[i].lookup \in Batches
    BY <1>1, AdmitFields
  <2>2. PICK b \in Batches : admit(i, b)
    BY <1>2, <2>1
  <2>3. posts' \in [Intents -> Posts \cup {Idle}]
    BY <1>2 DEF TypeOK
  <2>4. /\ byBatch' \in [Batches -> Seq(Intents) \cup {NoList}]
        /\ byHash' \in [Intents -> StoredIntents \cup {Idle}]
        /\ DOMAIN byOwnerNonce' \subseteq Keys
        /\ \A k \in DOMAIN byOwnerNonce' : byOwnerNonce'[k] \in [intent : Intents, validUntil : Nat]
        /\ frozenFeeds' \in [Batches -> Feeds \cup {NoFeed}]
        /\ accepted' \in [Intents -> {"timely", "late", Idle}]
    BY <2>2, AdmitTypes
  <2>5. QED  BY <1>1, <2>3, <2>4 DEF TypeOK, chainVars
<1>3. CASE posts' = [posts EXCEPT ![i] = Idle] /\ UNCHANGED poolVars
  <2>1. posts' \in [Intents -> Posts \cup {Idle}]
    BY <1>3 DEF TypeOK
  <2>2. QED  BY <1>1, <1>3, <2>1 DEF TypeOK, chainVars, poolVars
<1>4. CASE /\ posts[i].attempt + 1 \in 1..MaxAttempts /\ UNCHANGED accepted
           /\ windowAt(i, posts[i].stamp, posts[i].cover, posts[i].attempt + 1,
                       posts[i].spent, posts[i].unwinnable)
  <2>1. /\ posts[i].cover \in Nat /\ posts[i].spent \in SUBSET Keys
        /\ posts[i].unwinnable \in SUBSET Batches
    BY <1>1, AdmitFields
  <2>2. posts' \in [Intents -> Posts \cup {Idle}]
    BY <1>4, <2>1, WindowPosts
  <2>3. sweep(posts[i].stamp)
    BY <1>4 DEF windowAt
  <2>4. /\ byBatch' \in [Batches -> Seq(Intents) \cup {NoList}]
        /\ byHash' \in [Intents -> StoredIntents \cup {Idle}]
        /\ DOMAIN byOwnerNonce' \subseteq Keys
        /\ \A k \in DOMAIN byOwnerNonce' : byOwnerNonce'[k] \in [intent : Intents, validUntil : Nat]
        /\ frozenFeeds' \in [Batches -> Feeds \cup {NoFeed}]
    BY <2>3, SweepTypes
  <2>5. QED  BY <1>1, <1>4, <2>2, <2>4 DEF TypeOK, chainVars
<1>5. QED  BY <1>2, <1>3, <1>4, AnswerKinds

LEMMA FailedTypes ==
  ASSUME TypeOK, NEW i \in Intents, postFailed(i)
  PROVE  TypeOK'
<1>1. posts' \in [Intents -> Posts \cup {Idle}]
  BY DEF postFailed, TypeOK
<1>2. QED  BY <1>1 DEF postFailed, TypeOK, chainVars, poolVars

LEMMA StatusTypes ==
  ASSUME TypeOK, NEW r \in Lookups, NEW i \in Intents, getStatus(r, i)
  PROVE  TypeOK'
<1>1. /\ UNCHANGED <<now, chainVars, posts, accepted>>
      /\ byHash[i] # Idle /\ sweep(now)
      /\ lookups' = IF isPending(i) /\ ~isCollectClosed(byHash[i].batch, now)
                    THEN [lookups EXCEPT ![r] = screening(byHash[i].batch)] ELSE lookups
  BY DEF getStatus
<1>2. PICK b \in Batches : b = byHash[i].batch
  BY <1>1, Stored
<1>3. screening(b) \in Screenings
  BY Lists DEF screening, Screenings, TypeOK
<1>4. screening(byHash[i].batch) \in Screenings
  BY <1>2, <1>3
<1>5. lookups' \in [Lookups -> Screenings \cup {Idle}]
  BY <1>1, <1>4 DEF TypeOK
<1>6. /\ byBatch' \in [Batches -> Seq(Intents) \cup {NoList}]
      /\ byHash' \in [Intents -> StoredIntents \cup {Idle}]
      /\ DOMAIN byOwnerNonce' \subseteq Keys
      /\ \A k \in DOMAIN byOwnerNonce' : byOwnerNonce'[k] \in [intent : Intents, validUntil : Nat]
      /\ frozenFeeds' \in [Batches -> Feeds \cup {NoFeed}]
  BY <1>1, SweepTypes
<1>7. QED  BY <1>1, <1>5, <1>6 DEF TypeOK, chainVars

LEMMA OpenFeedTypes ==
  ASSUME TypeOK, NEW r \in Lookups, NEW b \in Batches, getOpenFeed(r, b)
  PROVE  TypeOK'
<1>1. screening(b) \in Screenings
  BY Lists DEF screening, Screenings, TypeOK
<1>2. lookups' \in [Lookups -> Screenings \cup {Idle}]
  BY <1>1 DEF getOpenFeed, TypeOK
<1>3. QED  BY <1>2 DEF getOpenFeed, TypeOK, chainVars, poolVars

\* What a lookup that is answered takes out.
LEMMA LookupKinds ==
  ASSUME TypeOK, NEW r \in Lookups, lookupDone(r)
  PROVE  \E W : /\ W \subseteq Intents /\ W \subseteq ToSet(lookups[r].list) /\ withdraw(W)
                /\ lookups[r] # Idle /\ lookups' = [lookups EXCEPT ![r] = Idle]
                /\ UNCHANGED <<now, chainVars, frozenFeeds, posts>>
<1>1. lookups[r] # Idle /\ lookups' = [lookups EXCEPT ![r] = Idle]
      /\ UNCHANGED <<now, chainVars, frozenFeeds, posts>>
  BY DEF lookupDone
<1>2. PICK K : withdraw(rejected(lookups[r], K))
  BY DEF lookupDone
<1>3. lookups[r].list \in Seq(Intents)
  BY <1>1, LookupFields
<1>4. /\ rejected(lookups[r], K) \subseteq Intents
      /\ rejected(lookups[r], K) \subseteq ToSet(lookups[r].list)
  BY <1>3, RejectedIn
<1>5. QED  BY <1>1, <1>2, <1>4

LEMMA LookupTypes ==
  ASSUME TypeOK, NEW r \in Lookups, lookupDone(r)
  PROVE  TypeOK'
<1>1. PICK W : /\ W \subseteq Intents /\ withdraw(W) /\ lookups' = [lookups EXCEPT ![r] = Idle]
               /\ UNCHANGED <<now, chainVars, frozenFeeds, posts>>
  BY LookupKinds
<1>2. /\ byBatch' \in [Batches -> Seq(Intents) \cup {NoList}]
      /\ byHash' \in [Intents -> StoredIntents \cup {Idle}]
      /\ DOMAIN byOwnerNonce' \subseteq Keys
      /\ \A k \in DOMAIN byOwnerNonce' : byOwnerNonce'[k] \in [intent : Intents, validUntil : Nat]
      /\ accepted' \in [Intents -> {"timely", "late", Idle}]
  BY <1>1, WithdrawTypes
<1>3. lookups' \in [Lookups -> Screenings \cup {Idle}]
  BY <1>1 DEF TypeOK
<1>4. QED  BY <1>1, <1>2, <1>3 DEF TypeOK, chainVars

\* The feed a first request starts, or serves at once.
LEMMA FrozenKinds ==
  ASSUME TypeOK, NEW b \in Batches, getFrozenFeed(b)
  PROVE  /\ frozenFeeds[b] = NoFeed /\ isCollectClosed(b, now)
         /\ frozenFeeds' \in [Batches -> Feeds \cup {NoFeed}]
         /\ \A c \in Batches : c # b => frozenFeeds'[c] = frozenFeeds[c]
         /\ \/ /\ ~frozenFeeds'[b].ready /\ frozenFeeds'[b].list = getByBatch(b)
               /\ byBatch[b] # NoList
            \/ /\ frozenFeeds'[b].ready /\ ~frozenFeeds'[b].screened
               /\ frozenFeeds'[b].intents = Waiting(b)
<1> DEFINE build == [ready |-> FALSE, list |-> getByBatch(b), cover |-> covered, spent |-> nonceUsed]
           plain == [ready |-> TRUE, screened |-> FALSE, intents |-> Waiting(b)]
           feed  == IF now <= solveEnd(b) /\ getByBatch(b) # <<>> THEN build ELSE plain
<1>1. frozenFeeds[b] = NoFeed /\ isCollectClosed(b, now)
  BY DEF getFrozenFeed, unbuilt
<1>2. frozenFeeds' = [frozenFeeds EXCEPT ![b] = feed]
  BY DEF getFrozenFeed
<1>3. build \in Feeds /\ plain \in Feeds
  BY Lists DEF Feeds, TypeOK
<1>4. feed \in Feeds /\ (\/ feed = build /\ byBatch[b] # NoList
                         \/ feed = plain)
  BY <1>3, Lists
<1>5. \/ ~feed.ready /\ feed.list = getByBatch(b) /\ byBatch[b] # NoList
      \/ feed.ready /\ ~feed.screened /\ feed.intents = Waiting(b)
  BY <1>4
<1> HIDE DEF feed
<1>6. frozenFeeds \in [Batches -> Feeds \cup {NoFeed}]
  BY DEF TypeOK
<1>7. frozenFeeds' \in [Batches -> Feeds \cup {NoFeed}] /\ frozenFeeds'[b] = feed
      /\ \A c \in Batches : c # b => frozenFeeds'[c] = frozenFeeds[c]
  BY <1>2, <1>4, <1>6
<1>8. QED  BY <1>1, <1>5, <1>7

LEMMA FrozenTypes ==
  ASSUME TypeOK, NEW b \in Batches, getFrozenFeed(b)
  PROVE  TypeOK'
<1>1. frozenFeeds' \in [Batches -> Feeds \cup {NoFeed}]
  BY FrozenKinds
<1>2. QED  BY <1>1 DEF getFrozenFeed, TypeOK, chainVars

\* What a build that is answered takes out, and serves.
LEMMA BuiltKinds ==
  ASSUME TypeOK, NEW b \in Batches, feedBuilt(b)
  PROVE  /\ frozenFeeds[b] # NoFeed /\ ~frozenFeeds[b].ready
         /\ UNCHANGED <<now, chainVars, posts, lookups>>
         /\ \A c \in Batches : c # b => frozenFeeds'[c] = frozenFeeds[c]
         /\ frozenFeeds' \in [Batches -> Feeds \cup {NoFeed}]
         /\ frozenFeeds'[b].ready /\ frozenFeeds'[b].screened
         /\ frozenFeeds'[b].cover = frozenFeeds[b].cover
         /\ frozenFeeds'[b].spent = frozenFeeds[b].spent
         /\ \E K \in SUBSET DOMAIN frozenFeeds[b].list :
              /\ keeps(frozenFeeds[b], K)
              /\ withdraw(rejected(frozenFeeds[b], K))
              /\ rejected(frozenFeeds[b], K) \subseteq Intents
              /\ rejected(frozenFeeds[b], K) \subseteq ToSet(frozenFeeds[b].list)
              /\ frozenFeeds'[b].intents = Waiting(b) \ Gone(rejected(frozenFeeds[b], K))
<1>1. frozenFeeds[b] # NoFeed /\ ~frozenFeeds[b].ready /\ UNCHANGED <<now, chainVars, posts, lookups>>
  BY DEF feedBuilt, unbuilt
<1>2. PICK K \in SUBSET DOMAIN frozenFeeds[b].list :
        /\ keeps(frozenFeeds[b], K)
        /\ withdraw(rejected(frozenFeeds[b], K))
        /\ frozenFeeds' = [frozenFeeds EXCEPT ![b] =
             [ready |-> TRUE, screened |-> TRUE,
              intents |-> Waiting(b) \ Gone(rejected(frozenFeeds[b], K)),
              cover |-> frozenFeeds[b].cover, spent |-> frozenFeeds[b].spent]]
  BY DEF feedBuilt
<1> DEFINE feed == [ready |-> TRUE, screened |-> TRUE,
                    intents |-> Waiting(b) \ Gone(rejected(frozenFeeds[b], K)),
                    cover |-> frozenFeeds[b].cover, spent |-> frozenFeeds[b].spent]
<1>3. frozenFeeds[b].list \in Seq(Intents)
  BY <1>1, BuildFields
<1>4. /\ rejected(frozenFeeds[b], K) \subseteq Intents
      /\ rejected(frozenFeeds[b], K) \subseteq ToSet(frozenFeeds[b].list)
  BY <1>3, RejectedIn
<1>5. feed \in Feeds
  BY <1>1, BuildFields, Lists DEF Feeds
<1>6. /\ feed.ready /\ feed.screened
      /\ feed.cover = frozenFeeds[b].cover /\ feed.spent = frozenFeeds[b].spent
      /\ feed.intents = Waiting(b) \ Gone(rejected(frozenFeeds[b], K))
  OBVIOUS
<1>7. frozenFeeds' = [frozenFeeds EXCEPT ![b] = feed]
  BY <1>2
<1> HIDE DEF feed
<1>8. /\ frozenFeeds' \in [Batches -> Feeds \cup {NoFeed}] /\ frozenFeeds'[b] = feed
      /\ \A c \in Batches : c # b => frozenFeeds'[c] = frozenFeeds[c]
  BY <1>5, <1>7 DEF TypeOK
<1>9. QED  BY <1>1, <1>2, <1>4, <1>6, <1>8

LEMMA BuiltTypes ==
  ASSUME TypeOK, NEW b \in Batches, feedBuilt(b)
  PROVE  TypeOK'
<1>1. /\ UNCHANGED <<now, chainVars, posts, lookups>>
      /\ frozenFeeds' \in [Batches -> Feeds \cup {NoFeed}]
  BY BuiltKinds
<1>2. PICK W : W \subseteq Intents /\ withdraw(W)
  BY BuiltKinds
<1>3. /\ byBatch' \in [Batches -> Seq(Intents) \cup {NoList}]
      /\ byHash' \in [Intents -> StoredIntents \cup {Idle}]
      /\ DOMAIN byOwnerNonce' \subseteq Keys
      /\ \A k \in DOMAIN byOwnerNonce' : byOwnerNonce'[k] \in [intent : Intents, validUntil : Nat]
      /\ accepted' \in [Intents -> {"timely", "late", Idle}]
  BY <1>2, WithdrawTypes
<1>4. QED  BY <1>1, <1>3 DEF TypeOK, chainVars

LEMMA FeedFailedTypes ==
  ASSUME TypeOK, NEW b \in Batches, feedFailed(b)
  PROVE  TypeOK'
<1>1. frozenFeeds' \in [Batches -> Feeds \cup {NoFeed}]
  BY DEF feedFailed, TypeOK
<1>2. QED  BY <1>1 DEF feedFailed, TypeOK, chainVars

LEMMA WinKinds ==
  ASSUME TypeOK, NEW b \in Batches, win(b)
  PROVE  /\ won' \in [Batches -> SUBSET Intents]
         /\ frozenFeeds[b] # NoFeed /\ frozenFeeds[b].ready /\ now <= solveEnd(b)
         /\ won'[b] \subseteq frozenFeeds[b].intents
         /\ \A c \in Batches : c # b => won'[c] = won[c]
         /\ UNCHANGED <<now, covered, nonceUsed, settled, pulled, acting, poolVars, posts, lookups>>
<1>1. /\ frozenFeeds[b] # NoFeed /\ frozenFeeds[b].ready /\ now <= solveEnd(b)
      /\ UNCHANGED <<now, covered, nonceUsed, settled, pulled, acting, poolVars, posts, lookups>>
  BY DEF win, served
<1>2. PICK S \in SUBSET frozenFeeds[b].intents : won' = [won EXCEPT ![b] = S]
  BY DEF win
<1>3. S \subseteq Intents
  BY <1>1, ServedFields
<1>4. QED  BY <1>1, <1>2, <1>3 DEF TypeOK

LEMMA WinTypes ==
  ASSUME TypeOK, NEW b \in Batches, win(b)
  PROVE  TypeOK'
BY WinKinds DEF TypeOK, poolVars

\* What finalize takes of an owner was there, so the balance stays a number.
LEMMA SettleTypes ==
  ASSUME TypeOK, NEW b \in Batches, settle(b)
  PROVE  TypeOK'
<1>1. settled' \subseteq Batches /\ UNCHANGED <<now, won, acting, poolVars, posts, lookups>>
  BY DEF settle, TypeOK
<1>2. won[b] \subseteq Intents
  BY DEF TypeOK
<1>3. CASE collectable(won[b])
  <2>1. /\ covered' = [o \in Owners |-> covered[o] - sumSell({i \in won[b] : i.owner = o})]
        /\ nonceUsed' = nonceUsed \cup {ownerNonceKey(i) : i \in won[b]}
        /\ pulled' = pulled \cup won[b]
    BY <1>3 DEF settle
  <2>2. ASSUME NEW o \in Owners
        PROVE  covered[o] - sumSell({i \in won[b] : i.owner = o}) \in Nat
    <3>1. sumSell({i \in won[b] : i.owner = o}) \in Nat
      <4>1. {i \in won[b] : i.owner = o} \subseteq Intents
        BY <1>2
      <4>2. QED  BY <4>1, SellsNat
    <3>2. sumSell({i \in won[b] : i.owner = o}) <= covered[o]
      BY <1>3 DEF collectable
    <3>3. QED  BY <3>1, <3>2 DEF TypeOK
  <2>3. covered' \in [Owners -> Nat]
    BY <2>1, <2>2
  <2>4. nonceUsed' \subseteq Keys /\ pulled' \subseteq Intents
    BY <1>2, <2>1, IntentFacts DEF TypeOK
  <2>5. QED  BY <1>1, <2>3, <2>4 DEF TypeOK, poolVars
<1>4. CASE UNCHANGED <<covered, nonceUsed, pulled>>
  BY <1>1, <1>4 DEF TypeOK, poolVars
<1>5. QED  BY <1>3, <1>4 DEF settle

LEMMA RestartTypes == TypeOK /\ Restart => TypeOK'
<1> SUFFICES ASSUME TypeOK, Restart PROVE TypeOK'
  OBVIOUS
<1>1. /\ byBatch' \in [Batches -> Seq(Intents) \cup {NoList}]
      /\ byHash' \in [Intents -> StoredIntents \cup {Idle}]
      /\ frozenFeeds' \in [Batches -> Feeds \cup {NoFeed}]
      /\ posts' \in [Intents -> Posts \cup {Idle}]
      /\ lookups' \in [Lookups -> Screenings \cup {Idle}]
      /\ accepted' \in [Intents -> {"timely", "late", Idle}]
      /\ DOMAIN byOwnerNonce' = {} /\ UNCHANGED <<now, chainVars>>
  BY DEF Restart
<1>2. QED  BY <1>1 DEF TypeOK, chainVars

LEMMA OwnerTypes == TypeOK /\ OwnerStep => TypeOK'
<1> SUFFICES ASSUME TypeOK, OwnerStep PROVE TypeOK'
  OBVIOUS
<1>1. covered' \in [Owners -> Nat]
  <2>1. CASE UNCHANGED covered
    BY <2>1 DEF TypeOK
  <2>2. CASE \E o \in Owners : \E n \in 0..Funded(o) : covered' = [covered EXCEPT ![o] = n]
    BY <2>2 DEF TypeOK
  <2>3. QED  BY <2>1, <2>2 DEF OwnerStep
<1>2. nonceUsed' \subseteq Keys
  BY DEF OwnerStep, TypeOK
<1>3. QED  BY <1>1, <1>2 DEF OwnerStep, TypeOK, poolVars

LEMMA TypeStep == TypeOK /\ [Next]_vars => TypeOK'
<1> SUFFICES ASSUME TypeOK, [Next]_vars PROVE TypeOK'
  OBVIOUS
<1>1. ASSUME NEW i \in Intents,
             postFacts(i) \/ postPrior(i) \/ postStamp(i) \/ postAdmit(i) \/ postFailed(i)
      PROVE  TypeOK'
  BY <1>1, FactsTypes, PriorTypes, StampTypes, AnswerTypes, FailedTypes
<1>2. ASSUME NEW r \in Lookups, NEW i \in Intents, getStatus(r, i) PROVE TypeOK'
  BY <1>2, StatusTypes
<1>3. ASSUME NEW r \in Lookups, NEW b \in Batches, getOpenFeed(r, b) PROVE TypeOK'
  BY <1>3, OpenFeedTypes
<1>4. ASSUME NEW r \in Lookups, lookupDone(r) PROVE TypeOK'
  BY <1>4, LookupTypes
<1>5. ASSUME NEW b \in Batches,
             getFrozenFeed(b) \/ feedBuilt(b) \/ feedFailed(b) \/ win(b) \/ settle(b)
      PROVE  TypeOK'
  BY <1>5, FrozenTypes, BuiltTypes, FeedFailedTypes, WinTypes, SettleTypes
<1>6. CASE Restart \/ OwnerStep
  BY <1>6, RestartTypes, OwnerTypes
<1>7. CASE Tick \/ UNCHANGED vars
  BY <1>7 DEF Tick, vars, chainVars, poolVars, TypeOK
<1>8. QED  BY <1>1, <1>2, <1>3, <1>4, <1>5, <1>6, <1>7 DEF Next

----------------------------------------------------------------------------
(* The maps agree after every step.                                        *)

LEMMA AppendFacts ==
  ASSUME NEW list \in Seq(Intents), NEW i \in Intents
  PROVE  /\ Append(list, i) \in Seq(Intents)
         /\ ToSet(Append(list, i)) = ToSet(list) \cup {i}
         /\ IsInjective(list) /\ i \notin ToSet(list) => IsInjective(Append(list, i))
<1> DEFINE longer == Append(list, i)
<1>1. /\ longer \in Seq(Intents) /\ Len(list) \in Nat
      /\ DOMAIN list = 1..Len(list) /\ DOMAIN longer = 1..(Len(list) + 1)
      /\ \A k \in DOMAIN list : longer[k] = list[k]
      /\ longer[Len(list) + 1] = i
  OBVIOUS
<1> HIDE DEF longer
<1>2. ToSet(longer) = ToSet(list) \cup {i}
  <2>1. ASSUME NEW x \in ToSet(longer) PROVE x \in ToSet(list) \cup {i}
    <3>1. PICK k \in DOMAIN longer : x = longer[k]
      BY DEF ToSet
    <3>2. k \in DOMAIN list \/ k = Len(list) + 1
      BY <1>1
    <3>3. QED  BY <1>1, <3>1, <3>2 DEF ToSet
  <2>2. ASSUME NEW x \in ToSet(list) \cup {i} PROVE x \in ToSet(longer)
    <3>1. CASE x = i
      <4>1. Len(list) + 1 \in DOMAIN longer
        BY <1>1
      <4>2. QED  BY <1>1, <3>1, <4>1 DEF ToSet
    <3>2. CASE x \in ToSet(list)
      <4>1. PICK k \in DOMAIN list : x = list[k]
        BY <3>2 DEF ToSet
      <4>2. k \in DOMAIN longer /\ longer[k] = x
        BY <1>1, <4>1
      <4>3. QED  BY <4>2 DEF ToSet
    <3>3. QED  BY <3>1, <3>2
  <2>3. QED  BY <2>1, <2>2
<1>3. ASSUME IsInjective(list), i \notin ToSet(list) PROVE IsInjective(longer)
  <2>1. \A k \in DOMAIN list : list[k] # i
    BY <1>3 DEF ToSet
  <2>2. ASSUME NEW k \in DOMAIN longer, NEW m \in DOMAIN longer, longer[k] = longer[m]
        PROVE  k = m
    <3>1. /\ k \in DOMAIN list \/ k = Len(list) + 1
          /\ m \in DOMAIN list \/ m = Len(list) + 1
      BY <1>1
    <3>2. CASE k \in DOMAIN list /\ m \in DOMAIN list
      BY <1>1, <1>3, <2>2, <3>2 DEF IsInjective
    <3>3. CASE k = Len(list) + 1 \/ m = Len(list) + 1
      BY <1>1, <2>1, <2>2, <3>1, <3>3
    <3>4. QED  BY <3>1, <3>2, <3>3
  <2>3. QED  BY <2>2 DEF IsInjective
<1>4. QED  BY <1>1, <1>2, <1>3 DEF longer

\* An intent the pool does not know waits nowhere.
LEMMA IdleWaits ==
  ASSUME TypeOK, WaitInv, NEW i \in Intents, byHash[i] = Idle, NEW b \in Batches
  PROVE  i \notin Waiting(b)
<1> SUFFICES ASSUME i \in Waiting(b) PROVE FALSE
  OBVIOUS
<1>1. byHash[i] = [batch |-> b, status |-> "pending"]
  BY DEF WaitInv
<1>2. byHash[i] \in StoredIntents
  BY <1>1 DEF StoredIntents
<1>3. QED  BY <1>2, PoolNumbers

LEMMA AdmitBatch ==
  ASSUME TypeOK, WaitInv, NEW i \in Intents, byHash[i] = Idle, NEW b \in Batches, admit(i, b)
  PROVE  /\ \A c \in Batches : IsInjective(getByBatch(c)')
         /\ Waiting(b)' = Waiting(b) \cup {i} /\ i \notin Waiting(b)
         /\ \A c \in Batches : c # b => Waiting(c)' = Waiting(c)
<1>1. byBatch'[b] = Append(getByBatch(b), i) /\ byBatch'[b] \in Seq(Intents)
  BY AdmitMaps
<1>2. getByBatch(b)' = Append(getByBatch(b), i)
  BY <1>1, PoolNumbers DEF getByBatch
<1>3. i \notin ToSet(getByBatch(b)) /\ i \notin Waiting(b)
  BY IdleWaits DEF Waiting
<1>4. getByBatch(b) \in Seq(Intents) /\ IsInjective(getByBatch(b))
  BY Lists DEF WaitInv
<1>5. IsInjective(getByBatch(b)') /\ Waiting(b)' = Waiting(b) \cup {i}
  <2>1. /\ ToSet(Append(getByBatch(b), i)) = ToSet(getByBatch(b)) \cup {i}
        /\ IsInjective(Append(getByBatch(b), i))
    BY <1>3, <1>4, AppendFacts
  <2>2. QED  BY <1>2, <2>1 DEF Waiting
<1>6. ASSUME NEW c \in Batches, c # b PROVE IsInjective(getByBatch(c)') /\ Waiting(c)' = Waiting(c)
  <2>1. byBatch'[c] = byBatch[c]
    BY <1>6, AdmitMaps
  <2>2. getByBatch(c)' = getByBatch(c)
    BY <2>1 DEF getByBatch
  <2>3. IsInjective(getByBatch(c))
    BY DEF WaitInv
  <2>4. QED  BY <2>2, <2>3 DEF Waiting
<1>7. QED  BY <1>3, <1>5, <1>6

LEMMA AdmitWaits ==
  ASSUME PoolInv, NEW i \in Intents, NEW b \in Batches, admissible(i), admit(i, b), now' = now
  PROVE  HeldInv' /\ WaitInv' /\ AcceptInv'
<1>0. TypeOK /\ HeldInv /\ WaitInv /\ AcceptInv
  BY DEF PoolInv
<1>1. byHash[i] = Idle /\ ownerNonceKey(i) \notin DOMAIN byOwnerNonce
  BY DEF admissible
<1>2. /\ DOMAIN byOwnerNonce' = DOMAIN byOwnerNonce \cup {ownerNonceKey(i)}
      /\ byOwnerNonce'[ownerNonceKey(i)] = [intent |-> i, validUntil |-> i.validUntil]
      /\ \A k \in DOMAIN byOwnerNonce : k # ownerNonceKey(i) => byOwnerNonce'[k] = byOwnerNonce[k]
  BY <1>0, AdmitMaps
<1>3. HeldInv'
  BY <1>0, <1>2 DEF HeldInv
<1>4. holds(i)' /\ \A j \in Intents : holds(j) => holds(j)'
  BY <1>1, <1>2 DEF holds
<1>5. /\ byHash'[i] = [batch |-> b, status |-> "pending"] /\ byHash'[i] \in StoredIntents
      /\ \A j \in Intents : j # i => byHash'[j] = byHash[j] /\ accepted'[j] = accepted[j]
      /\ accepted'[i] = IF now <= b THEN "timely" ELSE "late"
  BY <1>0, AdmitMaps
<1>6. accepted'[i] # Idle
  BY <1>5, PoolNumbers
<1>7. \A j \in Intents : j # i => isPending(j)' = isPending(j)
  BY <1>5 DEF isPending
<1>8. AcceptInv'
  <2>1. ASSUME NEW j \in Intents
        PROVE  /\ isPending(j)' => accepted'[j] # Idle
               /\ accepted'[j] # Idle /\ now' <= j.validUntil => holds(j)'
    <3>1. CASE j = i
      BY <1>4, <1>6, <3>1
    <3>2. CASE j # i
      BY <1>0, <1>4, <1>5, <1>7, <3>2 DEF AcceptInv
    <3>3. QED  BY <3>1, <3>2
  <2>2. QED  BY <2>1 DEF AcceptInv
<1>9. WaitInv'
  <2>1. /\ \A c \in Batches : IsInjective(getByBatch(c)')
        /\ Waiting(b)' = Waiting(b) \cup {i}
        /\ \A c \in Batches : c # b => Waiting(c)' = Waiting(c)
    BY <1>0, <1>1, AdmitBatch
  <2>2. ASSUME NEW c \in Batches, NEW j \in Waiting(c)'
        PROVE  byHash'[j] = [batch |-> c, status |-> "pending"]
    <3>1. CASE j = i /\ c = b
      BY <1>5, <3>1
    <3>2. CASE j \in Waiting(c)
      <4>1. j # i /\ j \in Intents
        BY <1>0, <1>1, <3>2, IdleWaits, Lists
      <4>2. byHash'[j] = byHash[j]
        BY <1>5, <4>1
      <4>3. byHash[j] = [batch |-> c, status |-> "pending"]
        BY <1>0, <3>2 DEF WaitInv
      <4>4. QED  BY <4>2, <4>3
    <3>3. QED  BY <2>1, <2>2, <3>1, <3>2
  <2>3. ASSUME NEW j \in Intents, isPending(j)'
        PROVE  (j \in Waiting(byHash[j].batch))'
    <3>1. PICK c \in Batches : byHash'[j].batch = c /\ j \in Waiting(c)'
      <4>1. CASE j = i
        BY <1>5, <2>1, <4>1
      <4>2. CASE j # i
        <5>1. isPending(j) /\ byHash'[j] = byHash[j]
          BY <1>5, <1>7, <2>3, <4>2
        <5>2. byHash[j].batch \in Batches
          BY <1>0, <5>1, Stored DEF isPending
        <5>3. PICK c \in Batches : byHash[j].batch = c
          BY <5>2
        <5>4. j \in Waiting(c)
          BY <1>0, <5>1, <5>3 DEF WaitInv
        <5>5. QED  BY <2>1, <5>1, <5>3, <5>4
      <4>3. QED  BY <4>1, <4>2
    <3>2. QED  BY <3>1 DEF Waiting, getByBatch
  <2>4. QED  BY <2>1, <2>2, <2>3 DEF WaitInv
<1>10. QED  BY <1>3, <1>8, <1>9

\* The pool as it was, at the same time or later.
LEMMA PoolLeft ==
  ASSUME PoolInv, now' \in Nat, now <= now',
         UNCHANGED <<byBatch, byHash, byOwnerNonce, accepted>>
  PROVE  HeldInv' /\ WaitInv' /\ AcceptInv'
<1>0. TypeOK /\ HeldInv /\ WaitInv /\ AcceptInv
  BY DEF PoolInv
<1>1. HeldInv'
  BY <1>0 DEF HeldInv
<1>2. WaitInv'
  BY <1>0 DEF WaitInv, Waiting, getByBatch, isPending
<1>3. AcceptInv'
  <2>1. ASSUME NEW i \in Intents
        PROVE  /\ isPending(i)' = isPending(i) /\ holds(i)' = holds(i)
               /\ now' <= i.validUntil => now <= i.validUntil
    BY <1>0, IntentFacts DEF isPending, holds, TypeOK
  <2>2. QED  BY <1>0, <2>1 DEF AcceptInv
<1>4. QED  BY <1>1, <1>2, <1>3

\* A restart forgets everything.
LEMMA RestartWaits ==
  ASSUME Restart
  PROVE  HeldInv' /\ WaitInv' /\ AcceptInv'
<1>1. /\ DOMAIN byOwnerNonce' = {} /\ \A i \in Intents : byHash'[i] = Idle /\ accepted'[i] = Idle
      /\ \A b \in Batches : byBatch'[b] = NoList
  BY DEF Restart
<1>2. \A b \in Batches : getByBatch(b)' = <<>>
  BY <1>1 DEF getByBatch
<1>3. \A b \in Batches : IsInjective(getByBatch(b)') /\ Waiting(b)' = {}
  BY <1>2 DEF Waiting, ToSet, IsInjective
<1>4. \A i \in Intents : ~isPending(i)'
  BY <1>1 DEF isPending
<1>5. WaitInv'
  BY <1>3, <1>4 DEF WaitInv
<1>6. QED  BY <1>1, <1>4, <1>5 DEF HeldInv, AcceptInv

\* Intents are taken out by a lookup, or from the list of a feed that is built.
takenOut(W) ==
  /\ W \subseteq Intents /\ withdraw(W)
  /\ \/ \E r \in Lookups : lookups[r] # Idle
     \/ \E c \in Batches : feedBuilt(c) /\ W \subseteq ToSet(frozenFeeds[c].list)

\* An intent is admitted at the last await of its request.
admits(i, b) ==
  /\ posts[i] # Idle /\ posts[i].step = "admit"
  /\ admissible(i) /\ admit(i, b) /\ UNCHANGED chainVars

\* The mempool after a step is the one a sweep, a withdrawal, an admission or
\* a restart leaves, or the one there was.
LEMMA PoolKinds ==
  ASSUME PoolInv, [Next]_vars
  PROVE  \/ \E time \in Nat : time <= now /\ sweep(time) /\ now' = now /\ accepted' = accepted
         \/ \E W : takenOut(W) /\ now' = now
         \/ \E i \in Intents, b \in Batches : admits(i, b) /\ now' = now
         \/ Restart
         \/ UNCHANGED <<byBatch, byHash, byOwnerNonce, accepted>> /\ now' \in Nat /\ now <= now'
<1>0. TypeOK /\ StampInv /\ now \in Nat
  BY DEF PoolInv, TypeOK
<1>1. ASSUME NEW i \in Intents, postFacts(i) \/ postStamp(i) \/ postFailed(i)
      PROVE  UNCHANGED <<byBatch, byHash, byOwnerNonce, accepted>> /\ now' = now
  BY <1>1 DEF postFacts, postStamp, postFailed, poolVars
<1>2. ASSUME NEW i \in Intents, postPrior(i)
      PROVE  \E time \in Nat : time <= now /\ sweep(time) /\ now' = now /\ accepted' = accepted
  <2>1. posts[i] # Idle /\ posts[i].step = "prior" /\ now' = now /\ accepted' = accepted
    BY <1>2 DEF postPrior
  <2>2. posts[i].at \in Nat /\ sweep(posts[i].at) /\ posts[i].at <= now
    BY <1>0, <1>2, <2>1, PriorTypes DEF StampInv
  <2>3. QED  BY <2>1, <2>2
<1>3. ASSUME NEW i \in Intents, postAdmit(i)
      PROVE  \/ \E time \in Nat : time <= now /\ sweep(time) /\ now' = now /\ accepted' = accepted
             \/ \E j \in Intents, b \in Batches : admits(j, b) /\ now' = now
             \/ UNCHANGED <<byBatch, byHash, byOwnerNonce, accepted>> /\ now' = now
  <2>1. posts[i] # Idle /\ posts[i].step = "admit" /\ now' = now /\ UNCHANGED chainVars
    BY <1>0, <1>3, AnswerKinds
  <2>2. posts[i].stamp \in Nat /\ posts[i].stamp <= now /\ posts[i].lookup \in Batches
    BY <1>0, <2>1, AdmitFields DEF StampInv
  <2>3. CASE admissible(i) /\ admit(i, posts[i].lookup)
    BY <2>1, <2>2, <2>3 DEF admits
  <2>4. CASE UNCHANGED poolVars
    BY <2>1, <2>4 DEF poolVars
  <2>5. CASE /\ UNCHANGED accepted
             /\ windowAt(i, posts[i].stamp, posts[i].cover, posts[i].attempt + 1,
                         posts[i].spent, posts[i].unwinnable)
    <3>1. sweep(posts[i].stamp)
      BY <2>5 DEF windowAt
    <3>2. QED  BY <2>1, <2>2, <2>5, <3>1
  <2>6. QED  BY <1>0, <1>3, <2>3, <2>4, <2>5, AnswerKinds
<1>4. ASSUME NEW r \in Lookups, NEW i \in Intents, getStatus(r, i)
      PROVE  \E time \in Nat : time <= now /\ sweep(time) /\ now' = now /\ accepted' = accepted
  <2>1. sweep(now) /\ now' = now /\ accepted' = accepted
    BY <1>4 DEF getStatus
  <2>2. QED  BY <1>0, <2>1
<1>5. ASSUME NEW r \in Lookups, NEW b \in Batches, getOpenFeed(r, b)
      PROVE  UNCHANGED <<byBatch, byHash, byOwnerNonce, accepted>> /\ now' = now
  BY <1>5 DEF getOpenFeed, poolVars
<1>6. ASSUME NEW r \in Lookups, lookupDone(r)
      PROVE  \E W : takenOut(W) /\ now' = now
  BY <1>0, <1>6, LookupKinds DEF takenOut
<1>7. ASSUME NEW b \in Batches, feedBuilt(b)
      PROVE  \E W : takenOut(W) /\ now' = now
  BY <1>0, <1>7, BuiltKinds DEF takenOut
<1>8. ASSUME NEW b \in Batches, getFrozenFeed(b) \/ feedFailed(b) \/ win(b) \/ settle(b)
      PROVE  UNCHANGED <<byBatch, byHash, byOwnerNonce, accepted>> /\ now' = now
  BY <1>8 DEF getFrozenFeed, feedFailed, win, settle, poolVars
<1>9. CASE OwnerStep \/ Tick \/ UNCHANGED vars
  <2>1. UNCHANGED <<byBatch, byHash, byOwnerNonce, accepted>> /\ (now' = now \/ now' = now + 1)
    BY <1>9 DEF OwnerStep, Tick, vars, poolVars
  <2>2. QED  BY <1>0, <2>1
<1>10. now' = now => now' \in Nat /\ now <= now'
  BY <1>0
<1>11. ASSUME NEW i \in Intents,
             postFacts(i) \/ postPrior(i) \/ postStamp(i) \/ postAdmit(i) \/ postFailed(i)
       PROVE  \/ \E time \in Nat : time <= now /\ sweep(time) /\ now' = now /\ accepted' = accepted
              \/ \E j \in Intents, b \in Batches : admits(j, b) /\ now' = now
              \/ UNCHANGED <<byBatch, byHash, byOwnerNonce, accepted>> /\ now' = now
  BY <1>1, <1>2, <1>3, <1>11
<1>12. ASSUME NEW b \in Batches,
              getFrozenFeed(b) \/ feedBuilt(b) \/ feedFailed(b) \/ win(b) \/ settle(b)
       PROVE  \/ \E W : takenOut(W) /\ now' = now
              \/ UNCHANGED <<byBatch, byHash, byOwnerNonce, accepted>> /\ now' = now
  BY <1>7, <1>8, <1>12
<1>13. QED  BY <1>4, <1>5, <1>6, <1>9, <1>10, <1>11, <1>12 DEF Next

\* What an admission carries on to its next await.
LEMMA PriorKept ==
  ASSUME TypeOK, NEW i \in Intents, postPrior(i)
  PROVE  /\ posts[i] # Idle
         /\ \A j \in Intents : j # i => posts'[j] = posts[j]
         /\ posts'[i] # Idle =>
              /\ posts'[i].step = "stamp" /\ posts'[i].cover = posts[i].cover
              /\ posts'[i].spent \subseteq nonceUsed
              /\ \A b \in posts'[i].unwinnable : posts[i].at > solveEnd(b) /\ won[b] = {}
<1> DEFINE spent == IF posts[i].prior = {} THEN {} ELSE nonceUsed
           lost  == {b \in {c.batch : c \in posts[i].prior} :
                       posts[i].at > solveEnd(b) /\ unwon(b)}
<1>1. posts[i] # Idle /\ posts[i].step = "prior"
  BY DEF postPrior
<1>2. windowAt(i, posts[i].at, posts[i].cover, 1, spent, lost)
  BY DEF postPrior
<1>3. posts[i].at \in Nat /\ posts[i].cover \in Nat /\ posts[i].prior \subseteq Claims
  BY <1>1, PriorFields
<1>4. spent \in SUBSET Keys /\ lost \in SUBSET Batches /\ 1 \in 1..MaxAttempts
  BY <1>3, PoolNumbers DEF TypeOK, Claims
<1>5. spent \subseteq nonceUsed /\ \A b \in lost : posts[i].at > solveEnd(b) /\ won[b] = {}
  BY DEF unwon
<1> HIDE DEF spent, lost
<1>6. /\ \A j \in Intents : j # i => posts'[j] = posts[j]
      /\ posts'[i] # Idle => /\ posts'[i].step = "stamp" /\ posts'[i].cover = posts[i].cover
                             /\ posts'[i].spent = spent /\ posts'[i].unwinnable = lost
  BY <1>2, <1>3, <1>4, WindowPosts, SMTT(60)
<1>7. QED  BY <1>1, <1>5, <1>6

LEMMA AnswerKept ==
  ASSUME TypeOK, NEW i \in Intents, postAdmit(i)
  PROVE  /\ posts[i] # Idle /\ posts[i].step = "admit"
         /\ \A j \in Intents : j # i => posts'[j] = posts[j]
         /\ posts'[i] # Idle =>
              /\ posts'[i].step = "stamp" /\ posts'[i].cover = posts[i].cover
              /\ posts'[i].spent = posts[i].spent
              /\ posts'[i].unwinnable = posts[i].unwinnable
<1>1. posts[i] # Idle /\ posts[i].step = "admit"
  BY AnswerKinds
<1>2. CASE posts' = [posts EXCEPT ![i] = Idle]
  BY <1>1, <1>2 DEF TypeOK
<1>3. CASE /\ posts[i].attempt + 1 \in 1..MaxAttempts
           /\ windowAt(i, posts[i].stamp, posts[i].cover, posts[i].attempt + 1,
                       posts[i].spent, posts[i].unwinnable)
  <2>1. PICK n \in 1..MaxAttempts : n = posts[i].attempt + 1
    BY <1>3
  <2>2. windowAt(i, posts[i].stamp, posts[i].cover, n, posts[i].spent, posts[i].unwinnable)
    BY <1>3, <2>1
  <2>3. /\ posts[i].cover \in Nat /\ posts[i].spent \in SUBSET Keys
        /\ posts[i].unwinnable \in SUBSET Batches
    BY <1>1, AdmitFields
  <2>4. QED  BY <1>1, <2>2, <2>3, WindowPosts
<1>4. QED  BY <1>2, <1>3, AnswerKinds

\* Stamps on their way stay in the past.
LEMMA StampStep ==
  ASSUME PoolInv, [Next]_vars
  PROVE  StampInv'
<1>0. TypeOK /\ StampInv /\ now \in Nat /\ TypeOK'
  BY TypeStep DEF PoolInv, TypeOK
<1> DEFINE fresh(j) == posts'[j] # Idle =>
                         /\ posts'[j].step = "prior" => posts'[j].at <= now'
                         /\ posts'[j].step = "admit" => posts'[j].stamp <= now'
<1>1. ASSUME NEW i \in Intents,
             postFacts(i) \/ postPrior(i) \/ postStamp(i) \/ postAdmit(i) \/ postFailed(i)
      PROVE  now' = now /\ (\A j \in Intents : j # i => posts'[j] = posts[j]) /\ fresh(i)
  <2>1. CASE postFacts(i)
    <3> DEFINE post == [step |-> "prior", at |-> now, cover |-> covered[i.owner],
                        prior |-> committed(i.owner)]
    <3>1. post.step = "prior" /\ post.at = now
      OBVIOUS
    <3>2. now' = now /\ posts' = [posts EXCEPT ![i] = post]
      BY <2>1 DEF postFacts
    <3> HIDE DEF post
    <3>3. posts'[i] = post /\ \A j \in Intents : j # i => posts'[j] = posts[j]
      BY <1>0, <3>2 DEF TypeOK
    <3>4. QED  BY <1>0, <3>1, <3>2, <3>3
  <2>2. CASE postPrior(i)
    <3>1. now' = now
      BY <2>2 DEF postPrior
    <3>2. QED  BY <1>0, <2>2, <3>1, PriorKept
  <2>3. CASE postStamp(i)
    <3>1. now' = now
      BY <2>3 DEF postStamp
    <3>2. QED  BY <1>0, <2>3, <3>1, StampTypes
  <2>4. CASE postAdmit(i)
    <3>1. now' = now
      BY <2>4 DEF postAdmit
    <3>2. QED  BY <1>0, <2>4, <3>1, AnswerKept
  <2>5. CASE postFailed(i)
    BY <1>0, <2>5 DEF postFailed, TypeOK
  <2>6. QED  BY <1>1, <2>1, <2>2, <2>3, <2>4, <2>5
<1>2. ASSUME NEW i \in Intents, now' = now, \A j \in Intents : j # i => posts'[j] = posts[j], fresh(i)
      PROVE  StampInv'
  <2>1. \A j \in Intents : fresh(j)
    BY <1>0, <1>2 DEF StampInv
  <2>2. QED  BY <2>1 DEF StampInv
<1>3. ASSUME posts' = posts, now' \in Nat, now <= now' PROVE StampInv'
  <2>1. ASSUME NEW j \in Intents PROVE fresh(j)
    <3>1. posts[j] # Idle => /\ posts[j].step = "prior" => posts[j].at \in Nat
                             /\ posts[j].step = "admit" => posts[j].stamp \in Nat
      BY <1>0, PriorFields, AdmitFields
    <3>2. QED  BY <1>0, <1>3, <3>1 DEF StampInv
  <2>2. QED  BY <2>1 DEF StampInv
<1>4. CASE \E i \in Intents :
             postFacts(i) \/ postPrior(i) \/ postStamp(i) \/ postAdmit(i) \/ postFailed(i)
  BY <1>1, <1>2, <1>4
<1>5. CASE Restart
  <2>1. \A j \in Intents : posts'[j] = Idle
    BY <1>5 DEF Restart
  <2>2. QED  BY <2>1 DEF StampInv
<1>6. CASE \/ \E r \in Lookups, i \in Intents : getStatus(r, i)
           \/ \E r \in Lookups, b \in Batches : getOpenFeed(r, b)
           \/ \E r \in Lookups : lookupDone(r)
           \/ \E b \in Batches : getFrozenFeed(b) \/ feedBuilt(b) \/ feedFailed(b) \/ win(b) \/ settle(b)
           \/ OwnerStep \/ Tick \/ UNCHANGED vars
  <2>1. posts' = posts /\ (now' = now \/ now' = now + 1)
    BY <1>6 DEF getStatus, getOpenFeed, lookupDone, getFrozenFeed, feedBuilt, feedFailed, win, settle,
                OwnerStep, Tick, vars
  <2>2. QED  BY <1>0, <1>3, <2>1
<1>7. QED  BY <1>4, <1>5, <1>6 DEF Next

LEMMA PoolStep == PoolInv /\ [Next]_vars => PoolInv'
<1> SUFFICES ASSUME PoolInv, [Next]_vars PROVE PoolInv'
  OBVIOUS
<1>1. TypeOK' /\ StampInv'
  BY TypeStep, StampStep DEF PoolInv
<1>2. HeldInv' /\ WaitInv' /\ AcceptInv'
  BY PoolKinds, SweepWaits, WithdrawWaits, AdmitWaits, RestartWaits, PoolLeft DEF takenOut, admits
<1>3. QED  BY <1>1, <1>2 DEF PoolInv

LEMMA PoolInit == Init => PoolInv
<1> SUFFICES ASSUME Init PROVE PoolInv
  OBVIOUS
<1>1. TypeOK
  BY InitTypes
<1>2. /\ DOMAIN byOwnerNonce = {}
      /\ \A i \in Intents : byHash[i] = Idle /\ accepted[i] = Idle /\ posts[i] = Idle
      /\ \A b \in Batches : byBatch[b] = NoList
  BY DEF Init
<1>3. \A b \in Batches : getByBatch(b) = <<>>
  BY <1>2 DEF getByBatch
<1>4. \A b \in Batches : IsInjective(getByBatch(b)) /\ Waiting(b) = {}
  BY <1>3 DEF Waiting, ToSet, IsInjective
<1>5. \A i \in Intents : ~isPending(i)
  BY <1>2 DEF isPending
<1>6. HeldInv /\ WaitInv /\ AcceptInv /\ StampInv
  BY <1>2, <1>4, <1>5 DEF HeldInv, WaitInv, AcceptInv, StampInv
<1>7. QED  BY <1>1, <1>6 DEF PoolInv

LEMMA PoolAlways == Spec => []PoolInv
BY PoolInit, PoolStep, PTL DEF Spec

LEMMA PoolImplies == PoolInv => PoolHolds
<1> SUFFICES ASSUME PoolInv PROVE PoolHolds
  OBVIOUS
<1>0. TypeOK /\ HeldInv /\ WaitInv /\ AcceptInv
  BY DEF PoolInv
<1>1. ASSUME NEW b \in Batches, NEW i \in Waiting(b)
      PROVE  /\ byHash[i] = [batch |-> b, status |-> "pending"]
             /\ now <= i.validUntil => holds(i)
  <2>1. byHash[i] = [batch |-> b, status |-> "pending"] /\ i \in Intents
    BY <1>0, Lists DEF WaitInv
  <2>2. byHash[i] \in StoredIntents
    BY <2>1 DEF StoredIntents
  <2>3. isPending(i)
    BY <2>1, <2>2, PoolNumbers DEF isPending
  <2>4. QED  BY <1>0, <2>1, <2>3 DEF AcceptInv
<1>2. PoolConsistent
  BY <1>0, <1>1 DEF PoolConsistent, HeldInv, WaitInv, holds
<1>3. NonceHeld
  BY <1>0 DEF NonceHeld, AcceptInv, holds
<1>4. QED  BY <1>0, <1>2, <1>3 DEF PoolHolds

\* What a request finds in a map has the type it was put there with; the maps
\* of the mempool agree; and of two accepted signatures that could still settle
\* no two carry one nonce, whatever sweeps, screenings, late replies and
\* restarts do (admit, withdraw and sweep of mempool.ts).
THEOREM PoolAlwaysHolds == Spec => []PoolHolds
BY PoolAlways, PoolImplies, PTL

----------------------------------------------------------------------------
(* A served feed stays.                                                    *)

\* A feed changes when it is started, built, given up, or forgotten with its
\* batch.
LEMMA FeedChanges ==
  ASSUME PoolInv, [Next]_vars, NEW b \in Batches
  PROVE  \/ frozenFeeds'[b] = frozenFeeds[b]
         \/ frozenFeeds'[b] = NoFeed /\ (Restart \/ forgetAt(b) < now \/ ~served(b))
         \/ getFrozenFeed(b)
         \/ feedBuilt(b)
<1>0. TypeOK /\ StampInv /\ now \in Nat
  BY DEF PoolInv, TypeOK
<1>1. ASSUME NEW time \in Nat, time <= now, sweep(time)
      PROVE  \/ frozenFeeds'[b] = frozenFeeds[b]
             \/ frozenFeeds'[b] = NoFeed /\ forgetAt(b) < now
  BY <1>0, <1>1, SweepBatch
<1>2. ASSUME NEW i \in Intents, postFacts(i) \/ postStamp(i) \/ postFailed(i)
      PROVE  frozenFeeds' = frozenFeeds
  BY <1>2 DEF postFacts, postStamp, postFailed, poolVars
<1>3. ASSUME NEW i \in Intents, postPrior(i)
      PROVE  \E time \in Nat : time <= now /\ sweep(time)
  <2>1. posts[i] # Idle /\ posts[i].step = "prior"
    BY <1>3 DEF postPrior
  <2>2. posts[i].at \in Nat /\ sweep(posts[i].at) /\ posts[i].at <= now
    BY <1>0, <1>3, <2>1, PriorTypes DEF StampInv
  <2>3. QED  BY <2>2
<1>4. ASSUME NEW i \in Intents, postAdmit(i)
      PROVE  frozenFeeds' = frozenFeeds \/ \E time \in Nat : time <= now /\ sweep(time)
  <2>1. posts[i] # Idle /\ posts[i].step = "admit"
    BY <1>0, <1>4, AnswerKinds
  <2>2. posts[i].stamp \in Nat /\ posts[i].stamp <= now
    BY <1>0, <2>1, AdmitFields DEF StampInv
  <2>3. admit(i, posts[i].lookup) \/ UNCHANGED poolVars => frozenFeeds' = frozenFeeds
    BY DEF admit, poolVars
  <2>4. windowAt(i, posts[i].stamp, posts[i].cover, posts[i].attempt + 1,
                 posts[i].spent, posts[i].unwinnable) => sweep(posts[i].stamp)
    BY DEF windowAt
  <2>5. QED  BY <1>0, <1>4, <2>2, <2>3, <2>4, AnswerKinds
<1>5. ASSUME NEW r \in Lookups, NEW i \in Intents, getStatus(r, i) PROVE sweep(now)
  BY <1>5 DEF getStatus
<1>6. ASSUME NEW r \in Lookups, lookupDone(r) \/ \E c \in Batches : getOpenFeed(r, c)
      PROVE  frozenFeeds' = frozenFeeds
  BY <1>6 DEF lookupDone, getOpenFeed, poolVars
<1>7. ASSUME NEW c \in Batches, getFrozenFeed(c), c # b PROVE frozenFeeds'[b] = frozenFeeds[b]
  BY <1>0, <1>7, FrozenKinds
<1>8. ASSUME NEW c \in Batches, feedBuilt(c), c # b PROVE frozenFeeds'[b] = frozenFeeds[b]
  BY <1>0, <1>8, BuiltKinds
<1>9. ASSUME NEW c \in Batches, feedFailed(c)
      PROVE  \/ frozenFeeds'[b] = frozenFeeds[b]
             \/ frozenFeeds'[b] = NoFeed /\ ~served(b)
  BY <1>0, <1>9 DEF feedFailed, served, TypeOK
<1>10. ASSUME NEW c \in Batches, win(c) \/ settle(c) PROVE frozenFeeds' = frozenFeeds
  BY <1>10 DEF win, settle, poolVars
<1>11. Restart => frozenFeeds'[b] = NoFeed
  BY DEF Restart
<1>12. OwnerStep \/ Tick \/ UNCHANGED vars => frozenFeeds' = frozenFeeds
  BY DEF OwnerStep, Tick, vars, poolVars
<1>13. ASSUME NEW i \in Intents,
              postFacts(i) \/ postPrior(i) \/ postStamp(i) \/ postAdmit(i) \/ postFailed(i)
       PROVE  frozenFeeds' = frozenFeeds \/ \E time \in Nat : time <= now /\ sweep(time)
  BY <1>2, <1>3, <1>4, <1>13
<1>14. ASSUME NEW c \in Batches,
              getFrozenFeed(c) \/ feedBuilt(c) \/ feedFailed(c) \/ win(c) \/ settle(c)
       PROVE  \/ frozenFeeds'[b] = frozenFeeds[b]
              \/ frozenFeeds'[b] = NoFeed /\ ~served(b)
              \/ getFrozenFeed(b) \/ feedBuilt(b)
  BY <1>7, <1>8, <1>9, <1>10, <1>14
<1>15. QED  BY <1>0, <1>1, <1>5, <1>6, <1>11, <1>12, <1>13, <1>14 DEF Next

LEMMA ServedKept ==
  ASSUME PoolInv, [Next]_vars, NEW b \in Batches, served(b), now <= forgetAt(b), ~Restart
  PROVE  frozenFeeds'[b] = frozenFeeds[b]
<1>1. ~(forgetAt(b) < now)
  BY BatchTimes DEF PoolInv, TypeOK
<1>2. ~getFrozenFeed(b) /\ ~feedBuilt(b)
  BY DEF getFrozenFeed, feedBuilt, unbuilt, served
<1>3. QED  BY <1>1, <1>2, FeedChanges

\* The intents of a served feed are served unchanged while the batch may
\* settle (frozenFeed and sweep of mempool.ts).
THEOREM ServedAsFrozen == Spec => FeedStable
<1>1. ASSUME PoolInv, [Next]_vars, NEW b \in Batches, served(b), now <= forgetAt(b), ~Restart
      PROVE  frozenFeeds'[b] = frozenFeeds[b]
  BY <1>1, ServedKept
<1>2. PoolInv /\ [Next]_vars =>
        [\A b \in Batches : served(b) /\ now <= forgetAt(b) /\ ~Restart
                            => frozenFeeds'[b] = frozenFeeds[b]]_vars
  BY <1>1
<1>3. QED  BY <1>2, PoolAlways, PTL DEF Spec, FeedStable

----------------------------------------------------------------------------
(* What a screened feed serves was covered at its block.                   *)

\* The positions a screening keeps draw no more of an owner than it has.
LEMMA KeptCovered ==
  ASSUME NEW x, x.list \in Seq(Intents), x.cover \in [Owners -> Nat],
         NEW K \in SUBSET DOMAIN x.list, keeps(x, K), NEW o \in Owners
  PROVE  drawn(x.list, K, o) <= x.cover[o]
<1> DEFINE list == x.list
           Ko == {k \in K : list[k].owner = o}
           all == {list[k] : k \in Ko}
<1>1. /\ DOMAIN list = 1..Len(list) /\ Len(list) \in Nat
      /\ \A k \in DOMAIN list : list[k] \in Intents
  OBVIOUS
<1>2. IsFiniteSet(Ko) /\ (\A k \in Ko : k \in Nat) /\ Ko \subseteq DOMAIN list
  <2>1. IsFiniteSet(DOMAIN list) /\ Ko \subseteq DOMAIN list
    BY <1>1, FS_Interval
  <2>2. QED  BY <1>1, <2>1, FS_Subset
<1>3. drawn(x.list, K, o) = sumSell(all)
  BY DEF drawn
<1>4. x.cover[o] \in Nat
  OBVIOUS
<1>5. CASE Ko = {}
  <2>1. all = {}
    BY <1>5
  <2>2. sumSell(all) = 0
    BY <2>1, SumEmpty DEF sumSell
  <2>3. QED  BY <1>3, <1>4, <2>2
<1>6. CASE Ko # {}
  <2>1. PICK k \in Ko : \A j \in Ko : j <= k
    BY <1>2, <1>6, LastPosition
  <2> DEFINE before == {list[j] : j \in {m \in {n \in K : n < k} : list[m].owner = list[k].owner}}
  <2>2. list[k].owner = o /\ k \in K /\ k \in DOMAIN list /\ list[k] \in Intents
    BY <1>1, <1>2
  <2>3. drawn(x.list, {j \in K : j < k}, x.list[k].owner) = sumSell(before)
    BY DEF drawn
  <2>4. drawn(x.list, {j \in K : j < k}, x.list[k].owner) + x.list[k].sell
          <= x.cover[x.list[k].owner]
    BY <2>2 DEF keeps
  <2>5. all = before \cup {list[k]}
    <3>1. \A j \in Ko : j < k \/ j = k
      BY <1>2, <2>1
    <3>2. QED  BY <2>1, <2>2, <3>1
  <2>6. before \subseteq Intents
    BY <1>1, <2>5
  <2>7. sumSell(all) = sumSell(before \cup {list[k]})
    BY <2>5
  <2> HIDE DEF all, before
  <2>8. sumSell(before \cup {list[k]}) <= sumSell(before) + list[k].sell
    BY <2>2, <2>6, SellsAdd
  <2>9. sumSell(before) + list[k].sell <= x.cover[o]
    BY <2>2, <2>3, <2>4
  <2>10. all \subseteq Intents
    BY <2>2, <2>5, <2>6
  <2>11. sumSell(all) \in Nat /\ sumSell(before) \in Nat /\ list[k].sell \in Nat
    BY <2>2, <2>6, <2>10, SellsNat, IntentFacts
  <2>12. sumSell(all) <= x.cover[o]
    BY <1>4, <2>7, <2>8, <2>9, <2>11
  <2>13. QED  BY <1>3, <2>12
<1>7. QED  BY <1>5, <1>6

\* The intents a feed lists are intents.
LEMMA FeedLists ==
  ASSUME TypeOK, NEW b \in Batches, frozenFeeds[b] # NoFeed
  PROVE  /\ ~frozenFeeds[b].ready => ToSet(frozenFeeds[b].list) \subseteq Intents
         /\ frozenFeeds[b].ready => frozenFeeds[b].intents \subseteq Intents
<1>1. CASE ~frozenFeeds[b].ready
  <2>1. frozenFeeds[b].list \in Seq(Intents)
    BY <1>1, BuildFields
  <2>2. \A k \in DOMAIN frozenFeeds[b].list : frozenFeeds[b].list[k] \in Intents
    BY <2>1
  <2>3. QED  BY <1>1, <2>2 DEF ToSet
<1>2. CASE frozenFeeds[b].ready
  BY <1>2, ServedFields
<1>3. QED  BY <1>1, <1>2

\* When a feed stays, and its batch and the intents it knows stay known, it
\* keeps its promise.
LEMMA FeedStays ==
  ASSUME TypeOK, NEW b \in Batches, FeedHolds(b), frozenFeeds'[b] = frozenFeeds[b],
         now \in Nat, now' \in Nat, now <= now',
         byBatch[b] # NoList => byBatch'[b] # NoList,
         byBatch[b] # NoList => \A i \in Intents : byHash[i] # Idle /\ byHash[i].batch = b =>
                                  byHash'[i] # Idle /\ byHash'[i].batch = b,
         frozenFeeds[b] # NoFeed =>
           \A i \in Waiting(b)' : accepted'[i] = "timely" => i \in Waiting(b) /\ accepted[i] = "timely"
  PROVE  FeedHolds(b)'
<1> SUFFICES ASSUME frozenFeeds[b] # NoFeed PROVE FeedHolds(b)'
  BY DEF FeedHolds
<1>1. isCollectClosed(b, now)'
  <2>1. isCollectClosed(b, now)
    BY DEF FeedHolds
  <2>2. QED  BY <2>1, BatchTimes DEF isCollectClosed
<1>2. CASE ~frozenFeeds[b].ready
  <2>1. /\ byBatch[b] # NoList
        /\ \A i \in ToSet(frozenFeeds[b].list) : byHash[i] # Idle /\ byHash[i].batch = b
        /\ \A i \in Waiting(b) : accepted[i] = "timely" => i \in ToSet(frozenFeeds[b].list)
    BY <1>2 DEF FeedHolds
  <2>2. \A i \in ToSet(frozenFeeds[b].list) : byHash'[i] # Idle /\ byHash'[i].batch = b
    BY <1>2, <2>1, FeedLists
  <2>3. \A i \in Waiting(b)' : accepted'[i] = "timely" => i \in ToSet(frozenFeeds[b].list)
    BY <2>1
  <2>4. QED  BY <1>1, <1>2, <2>1, <2>2, <2>3 DEF FeedHolds
<1>3. CASE frozenFeeds[b].ready
  <2>1. \A i \in frozenFeeds[b].intents : byBatch[b] # NoList /\ byHash[i] # Idle /\ byHash[i].batch = b
    BY <1>3 DEF FeedHolds
  <2>2. \A i \in frozenFeeds[b].intents : byBatch'[b] # NoList /\ byHash'[i] # Idle /\ byHash'[i].batch = b
    BY <1>3, <2>1, FeedLists
  <2>3. QED  BY <1>1, <1>3, <2>2 DEF FeedHolds
<1>4. QED  BY <1>2, <1>3

\* A withdrawal or an admission leaves what the batches knew, and nothing new
\* in time for a closed one.
LEMMA KnownStays ==
  ASSUME PoolInv, NEW b \in Batches, now' = now,
         \/ \E W : W \subseteq Intents /\ withdraw(W)
         \/ \E i \in Intents, c \in Batches : admissible(i) /\ admit(i, c)
  PROVE  /\ byBatch[b] # NoList => byBatch'[b] # NoList
         /\ \A i \in Intents : byHash[i] # Idle =>
              /\ byHash'[i] # Idle /\ byHash'[i].batch = byHash[i].batch
              /\ accepted'[i] = "timely" => accepted[i] = "timely"
         /\ isCollectClosed(b, now) =>
              \A i \in Waiting(b)' : accepted'[i] = "timely" => i \in Waiting(b) /\ accepted[i] = "timely"
<1>0. TypeOK /\ WaitInv
  BY DEF PoolInv
<1>1. CASE \E W : W \subseteq Intents /\ withdraw(W)
  <2>1. PICK W : W \subseteq Intents /\ withdraw(W)
    BY <1>1
  <2>2. byBatch[b] # NoList => byBatch'[b] # NoList
    BY <1>0, <2>1, WithdrawBatch
  <2>3. \A i \in Intents : accepted'[i] = "timely" => accepted[i] = "timely"
    BY <1>0, <2>1, WithdrawHash, PoolNumbers
  <2>4. Waiting(b)' \subseteq Waiting(b) /\ Waiting(b) \subseteq Intents
    BY <1>0, <2>1, WithdrawBatch, Lists
  <2>5. \A i \in Intents : byHash[i] # Idle => byHash'[i] # Idle /\ byHash'[i].batch = byHash[i].batch
    BY <1>0, <2>1, WithdrawHash
  <2>6. QED  BY <2>2, <2>3, <2>4, <2>5
<1>2. CASE \E i \in Intents, c \in Batches : admissible(i) /\ admit(i, c)
  <2>1. PICK i \in Intents, c \in Batches : admissible(i) /\ admit(i, c)
    BY <1>2
  <2>2. byHash[i] = Idle
    BY <2>1 DEF admissible
  <2>3. /\ byBatch'[c] \in Seq(Intents) /\ \A d \in Batches : d # c => byBatch'[d] = byBatch[d]
        /\ \A j \in Intents : j # i => byHash'[j] = byHash[j] /\ accepted'[j] = accepted[j]
        /\ accepted'[i] = IF now <= c THEN "timely" ELSE "late"
    BY <1>0, <2>1, AdmitMaps
  <2>4. byBatch[b] # NoList => byBatch'[b] # NoList
    BY <2>3, PoolNumbers
  <2>5. /\ Waiting(c)' = Waiting(c) \cup {i}
        /\ \A d \in Batches : d # c => Waiting(d)' = Waiting(d)
    BY <1>0, <2>1, <2>2, AdmitBatch
  <2>6. i \notin Waiting(b) /\ Waiting(b) \subseteq Intents
    BY <1>0, <2>2, IdleWaits, Lists
  <2>7. ASSUME isCollectClosed(b, now), NEW j \in Waiting(b)', accepted'[j] = "timely"
        PROVE  j \in Waiting(b) /\ accepted[j] = "timely"
    <3>1. CASE j \in Waiting(b)
      BY <2>3, <2>6, <2>7, <3>1
    <3>2. CASE j = i /\ c = b
      <4>1. ~(now <= c)
        BY <1>0, <2>7, <3>2, BatchTimes DEF isCollectClosed, TypeOK
      <4>2. QED  BY <2>3, <2>7, <3>2, <4>1
    <3>3. QED  BY <2>5, <2>7, <3>1, <3>2
  <2>8. QED  BY <2>2, <2>3, <2>4, <2>7
<1>3. QED  BY <1>1, <1>2

\* What a feed promises, with what a screened one serves.
feedCovered(b) ==
  served(b) /\ frozenFeeds[b].screened =>
    LET f == frozenFeeds[b]
        timely == {i \in f.intents : accepted[i] = "timely"}
    IN  /\ \A i \in timely : ownerNonceKey(i) \notin f.spent
        /\ \A o \in Owners : sumSell({i \in timely : i.owner = o}) <= f.cover[o]

LEMMA CoverStays ==
  ASSUME TypeOK, NEW b \in Batches, feedCovered(b), frozenFeeds'[b] = frozenFeeds[b],
         served(b) => \A i \in frozenFeeds[b].intents : accepted'[i] = "timely" => accepted[i] = "timely"
  PROVE  feedCovered(b)'
<1> SUFFICES ASSUME served(b), frozenFeeds[b].screened PROVE feedCovered(b)'
  BY DEF feedCovered, served
<1> DEFINE f == frozenFeeds[b]
           old == {i \in f.intents : accepted[i] = "timely"}
           new == {i \in f.intents : accepted'[i] = "timely"}
<1>1. /\ \A i \in old : ownerNonceKey(i) \notin f.spent
      /\ \A o \in Owners : sumSell({i \in old : i.owner = o}) <= f.cover[o]
  BY DEF feedCovered
<1>2. new \subseteq old /\ old \subseteq Intents
  BY FeedLists DEF served
<1>3. f.cover \in [Owners -> Nat]
  BY ServedFields DEF served
<1>4. ASSUME NEW o \in Owners PROVE sumSell({i \in new : i.owner = o}) <= f.cover[o]
  <2>1. /\ {i \in new : i.owner = o} \subseteq {i \in old : i.owner = o}
        /\ {i \in new : i.owner = o} \subseteq Intents
        /\ {i \in old : i.owner = o} \subseteq Intents
    BY <1>2
  <2>2. sumSell({i \in new : i.owner = o}) <= sumSell({i \in old : i.owner = o})
    BY <2>1, SellsLess
  <2>3. sumSell({i \in new : i.owner = o}) \in Nat /\ sumSell({i \in old : i.owner = o}) \in Nat
    BY <2>1, SellsNat
  <2>4. QED  BY <1>1, <1>3, <2>2, <2>3
<1>5. \A i \in new : ownerNonceKey(i) \notin f.spent
  BY <1>1, <1>2
<1>6. frozenFeeds'[b] = f /\ new = {i \in frozenFeeds'[b].intents : accepted'[i] = "timely"}
  OBVIOUS
<1>7. QED  BY <1>4, <1>5, <1>6 DEF feedCovered

\* A feed that is built serves what was kept, and what came too late.
LEMMA BuiltCovered ==
  ASSUME PoolInv, FeedInv, NEW b \in Batches, feedBuilt(b)
  PROVE  FeedHolds(b)' /\ feedCovered(b)'
<1>0. TypeOK /\ WaitInv
  BY DEF PoolInv
<1>1. /\ frozenFeeds[b] # NoFeed /\ ~frozenFeeds[b].ready /\ now' = now
      /\ frozenFeeds'[b].ready /\ frozenFeeds'[b].screened
      /\ frozenFeeds'[b].cover = frozenFeeds[b].cover
      /\ frozenFeeds'[b].spent = frozenFeeds[b].spent
  BY <1>0, BuiltKinds
<1>2. PICK K \in SUBSET DOMAIN frozenFeeds[b].list :
              /\ keeps(frozenFeeds[b], K)
              /\ withdraw(rejected(frozenFeeds[b], K))
              /\ rejected(frozenFeeds[b], K) \subseteq Intents
              /\ rejected(frozenFeeds[b], K) \subseteq ToSet(frozenFeeds[b].list)
              /\ frozenFeeds'[b].intents = Waiting(b) \ Gone(rejected(frozenFeeds[b], K))
  BY <1>0, BuiltKinds
<1> DEFINE x == frozenFeeds[b]
           W == rejected(x, K)
           timely == {i \in frozenFeeds'[b].intents : accepted'[i] = "timely"}
<1>3. /\ isCollectClosed(b, now) /\ byBatch[b] # NoList
      /\ \A i \in Waiting(b) : accepted[i] = "timely" => i \in ToSet(x.list)
  BY <1>1 DEF FeedInv, FeedHolds
<1>4. x.list \in Seq(Intents) /\ x.cover \in [Owners -> Nat]
  BY <1>0, <1>1, BuildFields
<1>5. frozenFeeds'[b].intents \subseteq Waiting(b) /\ Waiting(b) \subseteq Intents
  BY <1>0, <1>2, Lists
<1>6. ASSUME NEW i \in frozenFeeds'[b].intents
      PROVE  byHash'[i] # Idle /\ byHash'[i].batch = b /\ isPending(i)
  <2>1. i \in Intents /\ byHash[i] = [batch |-> b, status |-> "pending"]
    BY <1>0, <1>5 DEF WaitInv
  <2>2. byHash[i] \in StoredIntents
    BY <2>1 DEF StoredIntents
  <2>3. byHash[i] # Idle /\ byHash[i].batch = b /\ isPending(i)
    BY <2>1, <2>2, PoolNumbers DEF isPending
  <2>4. QED  BY <1>0, <1>2, <2>1, <2>3, WithdrawHash
<1>7. byBatch'[b] # NoList
  BY <1>0, <1>2, <1>3, WithdrawBatch
<1>8. FeedHolds(b)'
  <2>1. isCollectClosed(b, now)'
    BY <1>1, <1>3 DEF isCollectClosed
  <2>2. QED  BY <1>1, <1>6, <1>7, <2>1 DEF FeedHolds
<1>9. ASSUME NEW i \in timely
      PROVE  \E k \in K : x.list[k] = i
  <2>1. i \in Waiting(b) /\ i \in Intents /\ i \notin Gone(W)
    BY <1>2, <1>5
  <2>2. accepted[i] = "timely"
    BY <1>0, <1>2, <2>1, WithdrawHash
  <2>3. PICK k \in DOMAIN x.list : x.list[k] = i
    BY <1>3, <2>1, <2>2 DEF ToSet
  <2>4. i \notin W
    BY <1>6, <2>1 DEF Gone
  <2>5. k \in K
    BY <2>3, <2>4 DEF rejected
  <2>6. QED  BY <2>3, <2>5
<1>10. \A i \in timely : ownerNonceKey(i) \notin x.spent
  BY <1>2, <1>9 DEF keeps
<1>11. ASSUME NEW o \in Owners PROVE sumSell({i \in timely : i.owner = o}) <= x.cover[o]
  <2> DEFINE mine == {i \in timely : i.owner = o}
             kept == {x.list[k] : k \in {j \in K : x.list[j].owner = o}}
  <2>1. mine \subseteq kept
    BY <1>9
  <2>2. kept \subseteq Intents
    BY <1>4
  <2>3. sumSell(kept) <= x.cover[o]
    BY <1>2, <1>4, KeptCovered DEF drawn
  <2> HIDE DEF mine, kept
  <2>4. sumSell(mine) <= sumSell(kept) /\ sumSell(mine) \in Nat /\ sumSell(kept) \in Nat
    BY <2>1, <2>2, SellsLess, SellsNat
  <2>5. sumSell(mine) <= x.cover[o]
    BY <1>4, <2>3, <2>4
  <2>6. QED  BY <2>5 DEF mine
<1>12. feedCovered(b)'
  <2>1. (\A i \in timely : ownerNonceKey(i) \notin frozenFeeds'[b].spent)
        /\ \A o \in Owners : sumSell({i \in timely : i.owner = o}) <= frozenFeeds'[b].cover[o]
    BY <1>1, <1>10, <1>11
  <2>2. QED  BY <2>1 DEF feedCovered
<1>13. QED  BY <1>8, <1>12

FeedsInv == PoolInv /\ FeedInv /\ FeedCovered

\* A feed that stays as it is keeps what it promises.
LEMMA FeedLeft ==
  ASSUME FeedsInv, [Next]_vars, NEW b \in Batches, frozenFeeds'[b] = frozenFeeds[b]
  PROVE  FeedHolds(b)' /\ feedCovered(b)'
<1>0. /\ TypeOK /\ PoolInv /\ FeedHolds(b) /\ feedCovered(b) /\ now \in Nat
      /\ TypeOK' /\ now' \in Nat
  BY TypeStep DEF FeedsInv, PoolInv, FeedInv, FeedCovered, feedCovered, TypeOK
<1>1. CASE frozenFeeds[b] = NoFeed
  BY <1>1 DEF FeedHolds, feedCovered, served
<1>2. ASSUME frozenFeeds[b] # NoFeed, NEW time \in Nat, time <= now, sweep(time), now' = now,
             accepted' = accepted
      PROVE  FeedHolds(b)' /\ feedCovered(b)'
  <2>1. byBatch'[b] = byBatch[b] /\ (byBatch[b] # NoList => time <= forgetAt(b))
    <3>1. frozenFeeds'[b] # NoFeed
      BY <1>2
    <3>2. QED  BY <1>0, <1>2, <3>1, SweepBatch
  <2>2. byBatch[b] # NoList =>
          \A i \in Intents : byHash[i] # Idle /\ byHash[i].batch = b =>
            byHash'[i] # Idle /\ byHash'[i].batch = b
    <3> SUFFICES ASSUME byBatch[b] # NoList, NEW i \in Intents, byHash[i] # Idle, byHash[i].batch = b
                 PROVE  byHash'[i] # Idle /\ byHash'[i].batch = b
      OBVIOUS
    <3>1. time <= forgetAt(b) + STATUS_RETENTION
      BY <1>2, <2>1, BatchTimes, PoolNumbers
    <3>2. QED  BY <1>0, <1>2, <3>1, SweepHash
  <2>3. Waiting(b)' = Waiting(b)
    BY <2>1 DEF Waiting, getByBatch
  <2>4. FeedHolds(b)'
    BY <1>0, <1>2, <2>1, <2>2, <2>3, FeedStays
  <2>5. QED  BY <1>0, <1>2, <2>4, CoverStays
<1>3. ASSUME frozenFeeds[b] # NoFeed, now' = now,
             \/ \E W : W \subseteq Intents /\ withdraw(W)
             \/ \E i \in Intents, c \in Batches : admissible(i) /\ admit(i, c)
      PROVE  FeedHolds(b)' /\ feedCovered(b)'
  <2>1. /\ byBatch[b] # NoList => byBatch'[b] # NoList
        /\ \A i \in Intents : byHash[i] # Idle =>
              /\ byHash'[i] # Idle /\ byHash'[i].batch = byHash[i].batch
              /\ accepted'[i] = "timely" => accepted[i] = "timely"
        /\ isCollectClosed(b, now) =>
              \A i \in Waiting(b)' : accepted'[i] = "timely" => i \in Waiting(b) /\ accepted[i] = "timely"
    BY <1>0, <1>3, KnownStays
  <2>2. isCollectClosed(b, now)
    BY <1>0, <1>3 DEF FeedHolds
  <2>3. FeedHolds(b)'
    BY <1>0, <1>3, <2>1, <2>2, FeedStays
  <2>4. served(b) => \A i \in frozenFeeds[b].intents : i \in Intents /\ byHash[i] # Idle
    BY <1>0, <1>3, FeedLists DEF FeedHolds, served
  <2>5. QED  BY <1>0, <2>1, <2>3, <2>4, CoverStays
<1>4. CASE Restart
  <2>1. frozenFeeds'[b] = NoFeed
    BY <1>4 DEF Restart
  <2>2. QED  BY <2>1 DEF FeedHolds, feedCovered, served
<1>5. ASSUME UNCHANGED <<byBatch, byHash, byOwnerNonce, accepted>>, now <= now'
      PROVE  FeedHolds(b)' /\ feedCovered(b)'
  <2>1. Waiting(b)' = Waiting(b)
    BY <1>5 DEF Waiting, getByBatch
  <2>2. FeedHolds(b)'
    BY <1>0, <1>5, <2>1, FeedStays
  <2>3. QED  BY <1>0, <1>5, <2>2, CoverStays
<1>6. QED  BY <1>0, <1>1, <1>2, <1>3, <1>4, <1>5, PoolKinds DEF takenOut, admits

\* A feed that is started lists what waits.
LEMMA FrozenHolds ==
  ASSUME PoolInv, NEW b \in Batches, getFrozenFeed(b)
  PROVE  FeedHolds(b)' /\ feedCovered(b)'
<1>0. TypeOK /\ WaitInv
  BY DEF PoolInv
<1>1. UNCHANGED <<now, byBatch, byHash, accepted>> /\ Waiting(b)' = Waiting(b)
  BY DEF getFrozenFeed, Waiting, getByBatch
<1>2. isCollectClosed(b, now)'
  BY <1>0, <1>1, FrozenKinds DEF isCollectClosed
<1>3. ASSUME NEW i \in Waiting(b)
      PROVE  byBatch[b] # NoList /\ byHash[i] # Idle /\ byHash[i].batch = b
  <2>1. byHash[i] = [batch |-> b, status |-> "pending"]
    BY <1>0 DEF WaitInv
  <2>2. i \in Intents /\ byHash[i] \in StoredIntents
    BY <1>0, <2>1, Lists DEF StoredIntents
  <2>3. byBatch[b] # NoList
    BY <1>0, Lists
  <2>4. QED  BY <2>1, <2>2, <2>3, PoolNumbers
<1>4. CASE ~frozenFeeds'[b].ready /\ frozenFeeds'[b].list = getByBatch(b) /\ byBatch[b] # NoList
  <2>1. ToSet(frozenFeeds'[b].list) = Waiting(b)
    BY <1>4 DEF Waiting
  <2>2. FeedHolds(b)'
    BY <1>1, <1>2, <1>3, <1>4, <2>1 DEF FeedHolds
  <2>3. QED  BY <1>4, <2>2 DEF feedCovered, served
<1>5. CASE /\ frozenFeeds'[b].ready /\ ~frozenFeeds'[b].screened
           /\ frozenFeeds'[b].intents = Waiting(b)
  <2>1. FeedHolds(b)'
    BY <1>1, <1>2, <1>3, <1>5 DEF FeedHolds
  <2>2. QED  BY <1>5, <2>1 DEF feedCovered
<1>6. QED  BY <1>0, <1>4, <1>5, FrozenKinds

LEMMA FeedsStep == FeedsInv /\ [Next]_vars => FeedsInv'
<1> SUFFICES ASSUME FeedsInv, [Next]_vars PROVE FeedsInv'
  OBVIOUS
<1>1. PoolInv'
  BY PoolStep DEF FeedsInv
<1>2. ASSUME NEW b \in Batches PROVE FeedHolds(b)' /\ feedCovered(b)'
  <2>1. CASE frozenFeeds'[b] = frozenFeeds[b]
    BY <2>1, FeedLeft
  <2>2. CASE frozenFeeds'[b] = NoFeed
    BY <2>2 DEF FeedHolds, feedCovered, served
  <2>3. CASE getFrozenFeed(b)
    BY <2>3, FrozenHolds DEF FeedsInv
  <2>4. CASE feedBuilt(b)
    BY <2>4, BuiltCovered DEF FeedsInv
  <2>5. QED  BY <2>1, <2>2, <2>3, <2>4, FeedChanges DEF FeedsInv
<1>3. FeedInv' /\ FeedCovered'
  BY <1>2 DEF FeedInv, FeedCovered, feedCovered
<1>4. QED  BY <1>1, <1>3 DEF FeedsInv

LEMMA FeedsInit == Init => FeedsInv
<1> SUFFICES ASSUME Init PROVE FeedsInv
  OBVIOUS
<1>1. PoolInv /\ \A b \in Batches : frozenFeeds[b] = NoFeed
  BY PoolInit DEF Init
<1>2. QED  BY <1>1 DEF FeedsInv, FeedInv, FeedHolds, FeedCovered, served

LEMMA FeedsAlways == Spec => []FeedsInv
BY FeedsInit, FeedsStep, PTL DEF Spec

\* Of the intents that came before the close, a screened feed serves only what
\* could be collected at its block, the whole of it together (screenBatch).
THEOREM FeedsAlwaysCovered == Spec => []FeedCovered
<1>1. FeedsInv => FeedCovered
  BY DEF FeedsInv
<1>2. QED  BY <1>1, FeedsAlways, PTL

----------------------------------------------------------------------------
(* No balance is promised twice over the pool.                             *)

LEMMA FundedNumber ==
  ASSUME TypeOK, NEW o \in Owners
  PROVE  /\ InitialCover[o] \in Nat /\ Funded(o) \in Int /\ covered[o] \in Nat
         /\ sumSell({i \in pulled : i.owner = o}) \in Nat
<1>1. {i \in pulled : i.owner = o} \subseteq Intents
  BY DEF TypeOK
<1>2. InitialCover[o] \in Nat /\ sumSell({i \in pulled : i.owner = o}) \in Nat
  BY <1>1, PoolNumbers, SellsNat
<1>3. QED  BY <1>2 DEF Funded, TypeOK

\* Settlement keeps to its deadline and meets no admission.
LEMMA SettledInTime ==
  ASSUME TimelySettlement, TypeOK, NEW b \in Batches, settle(b)
  PROVE  /\ now <= forgetAt(b) /\ (\A i \in Intents : posts[i] = Idle)
         /\ "settle" \in acting /\ "lookup" \notin acting /\ "restart" \notin acting
<1>1. acting \in Disturbances /\ "settle" \in acting
  BY DEF TypeOK, settle
<1>2. acting \cap {"late", "race", "lookup", "restart"} = {}
  BY <1>1 DEF TimelySettlement
<1>3. QED  BY <1>1, <1>2 DEF settle

LEMMA ChainKinds ==
  ASSUME [Next]_vars
  PROVE  UNCHANGED chainVars \/ OwnerStep \/ \E b \in Batches : win(b) \/ settle(b)
<1>1. ASSUME NEW i \in Intents,
             postFacts(i) \/ postPrior(i) \/ postStamp(i) \/ postAdmit(i) \/ postFailed(i)
      PROVE  UNCHANGED chainVars
  BY <1>1 DEF postFacts, postPrior, postStamp, postAdmit, postFailed
<1>2. ASSUME NEW r \in Lookups, NEW i \in Intents, getStatus(r, i) PROVE UNCHANGED chainVars
  BY <1>2 DEF getStatus
<1>3. ASSUME NEW r \in Lookups, NEW b \in Batches, getOpenFeed(r, b) PROVE UNCHANGED chainVars
  BY <1>3 DEF getOpenFeed
<1>4. ASSUME NEW r \in Lookups, lookupDone(r) PROVE UNCHANGED chainVars
  BY <1>4 DEF lookupDone
<1>5. ASSUME NEW b \in Batches, getFrozenFeed(b) \/ feedBuilt(b) \/ feedFailed(b)
      PROVE  UNCHANGED chainVars
  BY <1>5 DEF getFrozenFeed, feedBuilt, feedFailed
<1>6. Restart \/ Tick \/ UNCHANGED vars => UNCHANGED chainVars
  BY DEF Restart, Tick, vars
<1>7. QED  BY <1>1, <1>2, <1>3, <1>4, <1>5, <1>6 DEF Next

\* What an admission in flight carries after a step.
LEMMA PostChanges ==
  ASSUME PoolInv, [Next]_vars, NEW j \in Intents, posts'[j] # Idle
  PROVE  \/ posts'[j] = posts[j]
         \/ /\ posts'[j].step = "prior" /\ posts'[j].cover = covered[j.owner]
            /\ UNCHANGED chainVars
         \/ /\ posts[j] # Idle /\ posts'[j].step # "prior" /\ posts'[j].cover = posts[j].cover
            /\ now' = now /\ UNCHANGED chainVars
            /\ \/ /\ posts[j].step # "prior" /\ posts'[j].spent = posts[j].spent
                  /\ posts'[j].unwinnable = posts[j].unwinnable
               \/ /\ posts'[j].spent \subseteq nonceUsed
                  /\ \A b \in posts'[j].unwinnable : now > solveEnd(b) /\ won[b] = {}
<1>0. TypeOK /\ StampInv /\ now \in Nat /\ TypeOK'
  BY TypeStep DEF PoolInv, TypeOK
<1>1. ASSUME NEW i \in Intents, i # j,
             postFacts(i) \/ postPrior(i) \/ postStamp(i) \/ postAdmit(i) \/ postFailed(i)
      PROVE  posts'[j] = posts[j]
  <2>1. postFacts(i) \/ postFailed(i) => posts'[j] = posts[j]
    BY <1>0, <1>1 DEF postFacts, postFailed, TypeOK
  <2>2. QED  BY <1>0, <1>1, <2>1, PriorKept, StampTypes, AnswerKept
<1>2. CASE postFacts(j)
  <2> DEFINE post == [step |-> "prior", at |-> now, cover |-> covered[j.owner],
                      prior |-> committed(j.owner)]
  <2>1. post.step = "prior" /\ post.cover = covered[j.owner]
    OBVIOUS
  <2>2. posts' = [posts EXCEPT ![j] = post] /\ UNCHANGED chainVars
    BY <1>2 DEF postFacts
  <2> HIDE DEF post
  <2>3. posts'[j] = post
    BY <1>0, <2>2 DEF TypeOK
  <2>4. QED  BY <2>1, <2>2, <2>3
<1>3. CASE postPrior(j)
  <2>1. now' = now /\ UNCHANGED chainVars /\ posts[j].step = "prior"
    BY <1>3 DEF postPrior
  <2>2. /\ posts[j] # Idle /\ posts'[j].step = "stamp" /\ posts'[j].cover = posts[j].cover
        /\ posts'[j].spent \subseteq nonceUsed
        /\ \A b \in posts'[j].unwinnable : posts[j].at > solveEnd(b) /\ won[b] = {}
    BY <1>0, <1>3, PriorKept
  <2>3. posts[j].at \in Nat /\ posts[j].at <= now
    BY <1>0, <2>1, <2>2, PriorFields DEF StampInv
  <2>4. posts'[j] \in Posts
    BY <1>0 DEF TypeOK
  <2>5. posts'[j].unwinnable \subseteq Batches
    BY <2>2, <2>4 DEF Posts
  <2>6. \A b \in posts'[j].unwinnable : now > solveEnd(b) /\ won[b] = {}
    BY <1>0, <2>2, <2>3, <2>5, BatchTimes
  <2>7. QED  BY <2>1, <2>2, <2>6
<1>4. CASE postStamp(j)
  <2>1. /\ now' = now /\ UNCHANGED chainVars /\ posts[j] # Idle /\ posts[j].step = "stamp"
    BY <1>4 DEF postStamp
  <2>2. QED  BY <1>0, <1>4, <2>1, StampTypes
<1>5. CASE postAdmit(j)
  <2>1. now' = now /\ UNCHANGED chainVars
    BY <1>5 DEF postAdmit
  <2>2. QED  BY <1>0, <1>5, <2>1, AnswerKept
<1>6. CASE postFailed(j)
  <2>1. posts'[j] = Idle
    BY <1>0, <1>6 DEF postFailed, TypeOK
  <2>2. QED  BY <2>1
<1>7. Restart => posts'[j] = Idle
  BY DEF Restart
<1>8. ASSUME \/ \E r \in Lookups, i \in Intents : getStatus(r, i)
             \/ \E r \in Lookups, b \in Batches : getOpenFeed(r, b)
             \/ \E r \in Lookups : lookupDone(r)
             \/ \E b \in Batches : getFrozenFeed(b) \/ feedBuilt(b) \/ feedFailed(b) \/ win(b) \/ settle(b)
             \/ OwnerStep \/ Tick \/ UNCHANGED vars
      PROVE  posts' = posts
  BY <1>8 DEF getStatus, getOpenFeed, lookupDone, getFrozenFeed, feedBuilt, feedFailed, win, settle,
              OwnerStep, Tick, vars
<1>9. ASSUME NEW i \in Intents,
             postFacts(i) \/ postPrior(i) \/ postStamp(i) \/ postAdmit(i) \/ postFailed(i)
      PROVE  \/ posts'[j] = posts[j]
             \/ postFacts(j) \/ postPrior(j) \/ postStamp(j) \/ postAdmit(j) \/ postFailed(j)
  BY <1>1, <1>9
<1>10. QED  BY <1>2, <1>3, <1>4, <1>5, <1>6, <1>7, <1>8, <1>9 DEF Next

\* What finalize takes was still there, of intents it had not taken before.
LEMMA SettleFunds ==
  ASSUME TypeOK, FundInv, NEW b \in Batches, settle(b), collectable(won[b]), NEW o \in Owners
  PROVE  /\ Funded(o)' = Funded(o) - sumSell({i \in won[b] : i.owner = o})
         /\ covered'[o] = covered[o] - sumSell({i \in won[b] : i.owner = o})
         /\ sumSell({i \in won[b] : i.owner = o}) \in Nat
<1> DEFINE taken == {i \in won[b] : i.owner = o}
           before == {i \in pulled : i.owner = o}
           after == {i \in pulled' : i.owner = o}
<1>1. /\ covered' = [u \in Owners |-> covered[u] - sumSell({i \in won[b] : i.owner = u})]
      /\ pulled' = pulled \cup won[b]
  BY DEF settle
<1>2. won[b] \subseteq Intents /\ pulled \subseteq Intents
  BY DEF TypeOK
<1>3. won[b] \cap pulled = {}
  BY DEF FundInv, collectable
<1>4. after = before \cup taken /\ before \cap taken = {} /\ before \subseteq Intents /\ taken \subseteq Intents
  BY <1>1, <1>2, <1>3
<1>5. Funded(o) = InitialCover[o] - sumSell(before) /\ Funded(o)' = InitialCover[o] - sumSell(after)
  BY DEF Funded
<1>6. covered'[o] = covered[o] - sumSell(taken)
  BY <1>1
<1> HIDE DEF taken, before, after
<1>7. sumSell(after) = sumSell(before \cup taken)
  BY <1>4
<1>8. sumSell(before \cup taken) = sumSell(before) + sumSell(taken)
  BY <1>4, SellsApart
<1>9. sumSell(before) \in Nat /\ sumSell(taken) \in Nat /\ InitialCover[o] \in Nat
  BY <1>4, SellsNat, FundedNumber
<1>10. Funded(o)' = Funded(o) - sumSell(taken)
  BY <1>5, <1>7, <1>8, <1>9
<1>11. QED  BY <1>6, <1>9, <1>10 DEF taken

LEMMA FundStep ==
  ASSUME TimelySettlement, PoolInv, FundInv, [Next]_vars
  PROVE  FundInv'
<1>0. TypeOK /\ TypeOK'
  BY TypeStep DEF PoolInv
<1>1. ASSUME pulled' = pulled, nonceUsed \subseteq nonceUsed',
             \A o \in Owners : covered'[o] <= Funded(o)
      PROVE  FundInv'
  <2>1. \A o \in Owners : Funded(o)' = Funded(o)
    BY <1>1 DEF Funded
  <2>2. ASSUME NEW j \in Intents, posts'[j] # Idle PROVE posts'[j].cover <= Funded(j.owner)
    <3>1. posts[j] # Idle => posts[j].cover <= Funded(j.owner)
      BY DEF FundInv
    <3>2. covered[j.owner] <= Funded(j.owner)
      BY IntentFacts DEF FundInv
    <3>3. QED  BY <2>2, <3>1, <3>2, PostChanges
  <2>3. ASSUME NEW j \in Intents, posts'[j] # Idle PROVE posts'[j].cover <= Funded(j.owner)'
    <3>1. PICK o \in Owners : o = j.owner
      BY IntentFacts
    <3>2. posts'[j].cover <= Funded(o)
      BY <2>2, <2>3, <3>1
    <3>3. posts'[j].cover <= Funded(o)'
      BY <2>1, <3>2
    <3>4. QED  BY <3>1, <3>3 DEF Funded
  <2>4. \A i \in pulled' : ownerNonceKey(i) \in nonceUsed'
    BY <1>1 DEF FundInv
  <2>5. \A o \in Owners : covered'[o] <= Funded(o)'
    BY <1>1, <2>1
  <2>6. QED  BY <2>3, <2>4, <2>5 DEF FundInv
<1>2. CASE UNCHANGED chainVars
  BY <1>1, <1>2 DEF chainVars, FundInv
<1>3. CASE OwnerStep
  <2>1. pulled' = pulled /\ nonceUsed \subseteq nonceUsed'
    BY <1>3 DEF OwnerStep
  <2>2. ASSUME NEW o \in Owners PROVE covered'[o] <= Funded(o)
    <3>1. covered[o] <= Funded(o)
      BY DEF FundInv
    <3>2. CASE UNCHANGED covered
      BY <3>1, <3>2
    <3>3. CASE \E u \in Owners : \E n \in 0..Funded(u) : covered' = [covered EXCEPT ![u] = n]
      <4>0. PICK u \in Owners : \E n \in 0..Funded(u) : covered' = [covered EXCEPT ![u] = n]
        BY <3>3
      <4>1. PICK n \in 0..Funded(u) : covered' = [covered EXCEPT ![u] = n]
        BY <4>0
      <4>2. CASE u = o
        <5>1. covered'[o] = n
          BY <1>0, <4>1, <4>2 DEF TypeOK
        <5>2. n <= Funded(o)
          BY <4>1, <4>2, FundedNumber, <1>0
        <5>3. QED  BY <5>1, <5>2
      <4>3. CASE u # o
        BY <1>0, <3>1, <4>1, <4>3 DEF TypeOK
      <4>4. QED  BY <4>2, <4>3
    <3>4. QED  BY <1>3, <3>2, <3>3 DEF OwnerStep
  <2>3. QED  BY <1>1, <2>1, <2>2
<1>4. ASSUME NEW b \in Batches, win(b) PROVE FundInv'
  <2>1. covered' = covered /\ nonceUsed' = nonceUsed /\ pulled' = pulled
    BY <1>4 DEF win
  <2>2. QED  BY <1>1, <2>1 DEF FundInv
<1>5. ASSUME NEW b \in Batches, settle(b) PROVE FundInv'
  <2>1. CASE collectable(won[b])
    <3>1. \A i \in Intents : posts'[i] = Idle
      BY <1>0, <1>5, SettledInTime DEF settle
    <3>2. /\ nonceUsed' = nonceUsed \cup {ownerNonceKey(i) : i \in won[b]}
          /\ pulled' = pulled \cup won[b]
      BY <1>5, <2>1 DEF settle
    <3>3. \A i \in pulled' : ownerNonceKey(i) \in nonceUsed'
      BY <3>2 DEF FundInv
    <3>4. ASSUME NEW o \in Owners PROVE covered'[o] <= Funded(o)'
      <4>1. /\ Funded(o)' = Funded(o) - sumSell({i \in won[b] : i.owner = o})
            /\ covered'[o] = covered[o] - sumSell({i \in won[b] : i.owner = o})
            /\ sumSell({i \in won[b] : i.owner = o}) \in Nat
        BY <1>0, <1>5, <2>1, SettleFunds
      <4>2. covered[o] <= Funded(o) /\ Funded(o) \in Int /\ covered[o] \in Nat
        BY <1>0, FundedNumber DEF FundInv
      <4>3. QED  BY <4>1, <4>2
    <3>5. QED  BY <3>1, <3>3, <3>4 DEF FundInv
  <2>2. CASE UNCHANGED <<covered, nonceUsed, pulled>>
    BY <1>1, <2>2 DEF FundInv
  <2>3. QED  BY <1>5, <2>1, <2>2 DEF settle
<1>6. QED  BY <1>2, <1>3, <1>4, <1>5, ChainKinds

\* Time goes on, nonces stay used, and a batch past its window is won by nobody
\* else.
LEMMA LostStays ==
  ASSUME PoolInv, [Next]_vars
  PROVE  /\ now \in Nat /\ now' \in Nat /\ now <= now' /\ nonceUsed \subseteq nonceUsed'
         /\ \A b \in Batches : now > solveEnd(b) /\ won[b] = {} => now' > solveEnd(b) /\ won'[b] = {}
<1>0. TypeOK /\ TypeOK' /\ now \in Nat /\ now' \in Nat
  BY TypeStep DEF PoolInv, TypeOK
<1>1. now <= now' /\ nonceUsed \subseteq nonceUsed'
  <2>1. now <= now'
    <3>1. Restart => now' = now
      BY DEF Restart
    <3>2. ASSUME NEW time, sweep(time), now' = now PROVE now <= now'
      BY <1>0, <3>2
    <3>3. QED  BY <1>0, <3>1, PoolKinds
  <2>2. nonceUsed \subseteq nonceUsed'
    <3>1. UNCHANGED chainVars \/ OwnerStep => nonceUsed \subseteq nonceUsed'
      BY DEF chainVars, OwnerStep
    <3>2. ASSUME NEW b \in Batches, win(b) \/ settle(b) PROVE nonceUsed \subseteq nonceUsed'
      BY <3>2 DEF win, settle
    <3>3. QED  BY <3>1, <3>2, ChainKinds
  <2>3. QED  BY <2>1, <2>2
<1>2. ASSUME NEW b \in Batches, now > solveEnd(b), won[b] = {}
      PROVE  now' > solveEnd(b) /\ won'[b] = {}
  <2>1. now' > solveEnd(b)
    BY <1>0, <1>1, <1>2, BatchTimes
  <2>2. UNCHANGED chainVars \/ OwnerStep => won' = won
    BY DEF chainVars, OwnerStep
  <2>3. ASSUME NEW c \in Batches, settle(c) PROVE won' = won
    BY <2>3 DEF settle
  <2>4. ASSUME NEW c \in Batches, win(c) PROVE won'[b] = won[b]
    <3>1. now <= solveEnd(c) /\ \A d \in Batches : d # c => won'[d] = won[d]
      BY <1>0, <2>4, WinKinds
    <3>2. c # b
      BY <1>0, <1>2, <3>1, BatchTimes
    <3>3. QED  BY <3>1, <3>2
  <2>5. QED  BY <1>2, <2>1, <2>2, <2>3, <2>4, ChainKinds
<1>3. QED  BY <1>0, <1>1, <1>2

LEMMA AsideStep ==
  ASSUME PoolInv, AsideInv, [Next]_vars
  PROVE  AsideInv'
<1>0. TypeOK /\ TypeOK'
  BY TypeStep DEF PoolInv
<1>1. nonceUsed \subseteq nonceUsed'
  BY LostStays
<1>2. ASSUME NEW b \in Batches, now > solveEnd(b), won[b] = {}
      PROVE  now' > solveEnd(b) /\ won'[b] = {}
  BY <1>2, LostStays
<1>3. ASSUME NEW j \in Intents, posts'[j] # Idle, posts'[j].step # "prior"
      PROVE  /\ posts'[j].spent \subseteq nonceUsed'
             /\ \A b \in posts'[j].unwinnable : now' > solveEnd(b) /\ won'[b] = {}
  <2>1. /\ posts'[j].spent \subseteq nonceUsed
        /\ \A b \in posts'[j].unwinnable : now > solveEnd(b) /\ won[b] = {}
    <3>1. posts[j] # Idle /\ posts[j].step # "prior" =>
            /\ posts[j].spent \subseteq nonceUsed
            /\ \A b \in posts[j].unwinnable : now > solveEnd(b) /\ won[b] = {}
      BY DEF AsideInv
    <3>2. QED  BY <1>3, <3>1, PostChanges
  <2>2. posts'[j].unwinnable \subseteq Batches
    <3>1. posts'[j] \in Posts
      BY <1>0, <1>3 DEF TypeOK
    <3>2. QED  BY <1>3, <3>1 DEF Posts
  <2>3. QED  BY <1>1, <1>2, <2>1, <2>2
<1>4. QED  BY <1>3 DEF AsideInv

LEMMA ActingStays ==
  ASSUME [Next]_vars
  PROVE  acting' = acting
<1>1. UNCHANGED chainVars \/ OwnerStep => acting' = acting
  BY DEF chainVars, OwnerStep
<1>2. ASSUME NEW b \in Batches, win(b) \/ settle(b) PROVE acting' = acting
  BY <1>2 DEF win, settle
<1>3. QED  BY <1>1, <1>2, ChainKinds

\* Where nothing looks up, no lookup is on its way.
LEMMA LookupsStay ==
  ASSUME TypeOK, "lookup" \notin acting, \A r \in Lookups : lookups[r] = Idle, [Next]_vars
  PROVE  \A r \in Lookups : lookups'[r] = Idle
<1>1. ASSUME NEW i \in Intents,
             postFacts(i) \/ postPrior(i) \/ postStamp(i) \/ postAdmit(i) \/ postFailed(i)
      PROVE  lookups' = lookups
  BY <1>1 DEF postFacts, postPrior, postStamp, postAdmit, postFailed
<1>2. ASSUME NEW r \in Lookups,
             \/ \E i \in Intents : getStatus(r, i)
             \/ \E b \in Batches : getOpenFeed(r, b)
             \/ lookupDone(r)
      PROVE  FALSE
  BY <1>2 DEF getStatus, getOpenFeed, lookupDone
<1>3. ASSUME NEW b \in Batches,
             getFrozenFeed(b) \/ feedBuilt(b) \/ feedFailed(b) \/ win(b) \/ settle(b)
      PROVE  lookups' = lookups
  BY <1>3 DEF getFrozenFeed, feedBuilt, feedFailed, win, settle
<1>4. OwnerStep \/ Tick \/ UNCHANGED vars => lookups' = lookups
  BY DEF OwnerStep, Tick, vars
<1>5. Restart => \A r \in Lookups : lookups'[r] = Idle
  BY DEF Restart
<1>6. QED  BY <1>1, <1>2, <1>3, <1>4, <1>5 DEF Next

\* Until the deadline, what a feed serves stays pending.
LEMMA PendingStays ==
  ASSUME FeedsInv, [Next]_vars, ~Restart, \A r \in Lookups : lookups[r] = Idle,
         NEW b \in Batches, now <= forgetAt(b), served(b),
         NEW i \in frozenFeeds[b].intents, isPending(i)
  PROVE  isPending(i)'
<1>0. /\ TypeOK /\ WaitInv /\ PoolInv /\ FeedHolds(b) /\ now \in Nat /\ forgetAt(b) \in Nat
      /\ \A c \in Batches : FeedHolds(c)
  BY BatchTimes DEF FeedsInv, FeedInv, PoolInv, TypeOK
<1>1. i \in Intents /\ byHash[i] # Idle /\ byHash[i].batch = b
  BY <1>0, FeedLists DEF FeedHolds, served
<1>2. ASSUME NEW time \in Nat, time <= now, sweep(time) PROVE isPending(i)'
  <2>1. \A c \in swept(time) : i \notin Waiting(c)
    <3> SUFFICES ASSUME NEW c \in swept(time), i \in Waiting(c) PROVE FALSE
      OBVIOUS
    <3>1. c \in Batches /\ time > forgetAt(c)
      BY DEF swept
    <3>2. byHash[i] = [batch |-> c, status |-> "pending"]
      BY <1>0, <3>1 DEF WaitInv
    <3>3. c = b
      BY <1>1, <3>2
    <3>4. QED  BY <1>0, <1>2, <3>1, <3>3
  <2>2. time <= forgetAt(byHash[i].batch) + STATUS_RETENTION
    BY <1>0, <1>1, <1>2, PoolNumbers
  <2>3. byHash'[i] = byHash[i]
    BY <1>0, <1>1, <1>2, <2>1, <2>2, SweepHash
  <2>4. QED  BY <2>3 DEF isPending
<1>3. ASSUME NEW W, takenOut(W) PROVE isPending(i)'
  <2>1. W \subseteq Intents /\ withdraw(W)
    BY <1>3 DEF takenOut
  <2>2. PICK c \in Batches : feedBuilt(c) /\ W \subseteq ToSet(frozenFeeds[c].list)
    BY <1>3 DEF takenOut
  <2>3. frozenFeeds[c] # NoFeed /\ ~frozenFeeds[c].ready /\ c # b
    BY <1>0, <2>2, BuiltKinds DEF served
  <2>4. \A j \in W : byHash[j].batch = c
    <3>1. FeedHolds(c)
      BY <1>0
    <3>2. \A j \in ToSet(frozenFeeds[c].list) : byHash[j].batch = c
      BY <2>3, <3>1 DEF FeedHolds
    <3>3. QED  BY <2>2, <3>2
  <2>5. i \notin Gone(W)
    BY <1>1, <2>3, <2>4 DEF Gone
  <2>6. QED  BY <1>0, <1>1, <2>1, <2>5, WithdrawHash
<1>4. ASSUME NEW j \in Intents, NEW c \in Batches, admits(j, c) PROVE isPending(i)'
  <2>1. i # j
    BY <1>1, <1>4 DEF admits, admissible
  <2>2. byHash'[i] = byHash[i]
    BY <1>0, <1>1, <1>4, <2>1 DEF admits, admit, TypeOK
  <2>3. QED  BY <2>2 DEF isPending
<1>5. byHash' = byHash => isPending(i)'
  BY DEF isPending
<1>6. QED  BY <1>0, <1>2, <1>3, <1>4, <1>5, PoolKinds

LEMMA WonStep ==
  ASSUME TimelySettlement, FeedsInv, WonInv, [Next]_vars
  PROVE  WonInv'
<1>0. /\ TypeOK /\ PoolInv /\ WaitInv /\ TypeOK' /\ acting' = acting
      /\ now \in Nat /\ now' \in Nat /\ now <= now'
  BY TypeStep, ActingStays, LostStays DEF FeedsInv, PoolInv
<1>1. "lookup" \notin acting' => \A r \in Lookups : lookups'[r] = Idle
  BY <1>0, LookupsStay DEF WonInv
<1>2. ASSUME "settle" \in acting, NEW b \in Batches, now' <= forgetAt(b)
      PROVE  /\ served(b)' => \A i \in frozenFeeds'[b].intents : isPending(i)'
             /\ won'[b] # {} => served(b)' /\ won'[b] \subseteq frozenFeeds'[b].intents
  <2>1. /\ "lookup" \notin acting /\ "restart" \notin acting
        /\ ~Restart /\ \A r \in Lookups : lookups[r] = Idle
    <3>1. acting \in Disturbances
      BY <1>0 DEF TypeOK
    <3>2. acting \cap {"late", "race", "lookup", "restart"} = {}
      BY <1>2, <3>1 DEF TimelySettlement
    <3>3. QED  BY <3>2 DEF WonInv, Restart
  <2>2. now <= forgetAt(b)
    BY <1>0, <1>2, BatchTimes
  <2>3. /\ served(b) => \A i \in frozenFeeds[b].intents : isPending(i)
        /\ won[b] # {} => served(b) /\ won[b] \subseteq frozenFeeds[b].intents
    BY <1>2, <2>2 DEF WonInv
  <2>4. served(b) => served(b)' /\ frozenFeeds'[b] = frozenFeeds[b]
    <3>1. served(b) => frozenFeeds'[b] = frozenFeeds[b]
      BY <1>0, <2>1, <2>2, ServedKept
    <3>2. QED  BY <3>1 DEF served
  <2>5. CASE served(b)
    <3>1. \A i \in frozenFeeds'[b].intents : isPending(i)'
      BY <2>1, <2>2, <2>3, <2>4, <2>5, PendingStays
    <3>2. won'[b] # {} => won'[b] \subseteq frozenFeeds'[b].intents
      <4>1. ASSUME NEW c \in Batches, win(c) PROVE won'[b] = won[b] \/ won'[b] \subseteq frozenFeeds[b].intents
        BY <1>0, <4>1, WinKinds
      <4>2. ASSUME NEW c \in Batches, settle(c) PROVE won' = won
        BY <4>2 DEF settle
      <4>3. UNCHANGED chainVars \/ OwnerStep => won' = won
        BY DEF chainVars, OwnerStep
      <4>4. QED  BY <2>3, <2>4, <2>5, <4>1, <4>2, <4>3, ChainKinds
    <3>3. QED  BY <2>4, <2>5, <3>1, <3>2
  <2>6. CASE ~served(b)
    <3>1. won'[b] = {}
      <4>1. won[b] = {}
        BY <2>3, <2>6
      <4>2. ASSUME NEW c \in Batches, win(c) PROVE won'[b] = won[b]
        BY <1>0, <2>6, <4>2, WinKinds DEF served
      <4>3. ASSUME NEW c \in Batches, settle(c) PROVE won' = won
        BY <4>3 DEF settle
      <4>4. UNCHANGED chainVars \/ OwnerStep => won' = won
        BY DEF chainVars, OwnerStep
      <4>5. QED  BY <4>1, <4>2, <4>3, <4>4, ChainKinds
    <3>2. CASE frozenFeeds'[b] = frozenFeeds[b] \/ frozenFeeds'[b] = NoFeed
      BY <2>6, <3>1, <3>2 DEF served
    <3>3. CASE getFrozenFeed(b)
      <4>1. byHash' = byHash
        BY <3>3 DEF getFrozenFeed
      <4>2. ASSUME NEW i \in Waiting(b) PROVE isPending(i)'
        <5>1. byHash[i] = [batch |-> b, status |-> "pending"]
          BY <1>0 DEF WaitInv
        <5>2. byHash[i] \in StoredIntents
          BY <5>1 DEF StoredIntents
        <5>3. QED  BY <4>1, <5>1, <5>2, PoolNumbers DEF isPending
      <4>3. served(b)' => frozenFeeds'[b].intents = Waiting(b)
        BY <1>0, <3>3, FrozenKinds DEF served
      <4>4. QED  BY <3>1, <4>2, <4>3
    <3>4. CASE feedBuilt(b)
      <4>1. PICK W : /\ W \subseteq Intents /\ withdraw(W)
                     /\ frozenFeeds'[b].intents = Waiting(b) \ Gone(W)
        BY <1>0, <3>4, BuiltKinds
      <4>2. ASSUME NEW i \in frozenFeeds'[b].intents PROVE isPending(i)'
        <5>1. i \in Waiting(b) /\ i \in Intents /\ i \notin Gone(W)
          BY <1>0, <4>1, Lists
        <5>2. byHash[i] = [batch |-> b, status |-> "pending"]
          BY <1>0, <5>1 DEF WaitInv
        <5>3. byHash[i] \in StoredIntents
          BY <5>2 DEF StoredIntents
        <5>4. isPending(i)
          BY <5>2, <5>3, PoolNumbers DEF isPending
        <5>5. QED  BY <1>0, <4>1, <5>1, <5>4, WithdrawHash
      <4>3. QED  BY <3>1, <4>2
    <3>5. QED  BY <1>0, <3>2, <3>3, <3>4, FeedChanges
  <2>7. QED  BY <2>5, <2>6
<1>3. QED  BY <1>0, <1>1, <1>2 DEF WonInv

\* A claim that is new came with an admission.
LEMMA ClaimsShrink ==
  ASSUME PoolInv, PendingCovered, [Next]_vars, pulled' = pulled,
         \A i \in Intents : isPending(i)' =>
           isPending(i) /\ byHash[i].batch \in Batches /\ byHash'[i].batch = byHash[i].batch
  PROVE  PendingCovered'
<1>0. TypeOK /\ nonceUsed \subseteq nonceUsed'
  BY LostStays DEF PoolInv
<1>1. ASSUME NEW o \in Owners PROVE sumSell(claims(o)') <= Funded(o)'
  <2>1. claims(o)' \subseteq claims(o)
    <3> SUFFICES ASSUME NEW i \in claims(o)' PROVE i \in claims(o)
      OBVIOUS
    <3>1. /\ i \in Intents /\ i.owner = o /\ isPending(i)' /\ ownerNonceKey(i) \notin nonceUsed'
          /\ ~(now' > solveEnd(byHash'[i].batch) /\ won'[byHash'[i].batch] = {})
      BY DEF claims, solveEnd
    <3>2. isPending(i) /\ byHash'[i].batch = byHash[i].batch
      BY <3>1
    <3>3. PICK b \in Batches : b = byHash[i].batch
      BY <3>1
    <3>4. ~(now' > solveEnd(b) /\ won'[b] = {})
      BY <3>1, <3>2, <3>3
    <3>5. ~(now > solveEnd(b) /\ won[b] = {})
      BY <3>4, LostStays
    <3>6. QED  BY <1>0, <3>1, <3>2, <3>3, <3>5 DEF claims
  <2>2. claims(o) \subseteq Intents /\ claims(o)' \subseteq Intents
    BY DEF claims
  <2>3. sumSell(claims(o)) <= Funded(o)
    BY DEF PendingCovered
  <2>4. sumSell(claims(o)') <= sumSell(claims(o))
    BY <2>1, <2>2, SellsLess
  <2>5. sumSell(claims(o)') \in Nat /\ sumSell(claims(o)) \in Nat
    BY <2>2, SellsNat
  <2>6. Funded(o)' = Funded(o) /\ Funded(o) \in Int
    BY <1>0, FundedNumber DEF Funded
  <2>7. QED  BY <2>3, <2>4, <2>5, <2>6
<1>2. QED  BY <1>1 DEF PendingCovered

\* An admission counts every claim on the balance it read.
LEMMA AdmitCovered ==
  ASSUME PoolInv, FundInv, AsideInv, PendingCovered,
         NEW i \in Intents, NEW b \in Batches, admits(i, b), now' = now
  PROVE  PendingCovered'
<1>0. /\ TypeOK /\ WaitInv /\ nonceUsed' = nonceUsed /\ pulled' = pulled /\ won' = won
      /\ posts[i] # Idle /\ posts[i].step = "admit" /\ admissible(i) /\ admit(i, b)
  BY DEF PoolInv, chainVars, admits
<1>1. \A j \in Intents : j # i => byHash'[j] = byHash[j]
  BY <1>0 DEF admit, TypeOK
<1>2. \A j \in Intents : j # i => isPending(j)' = isPending(j)
  BY <1>1 DEF isPending
<1>3. \A o \in Owners : Funded(o)' = Funded(o)
  BY <1>0 DEF Funded
<1>4. ASSUME NEW o \in Owners, NEW j \in claims(o)', j # i
      PROVE  /\ j \in Intents /\ j.owner = o /\ isPending(j) /\ ownerNonceKey(j) \notin nonceUsed
             /\ ~(now > solveEnd(byHash[j].batch) /\ won[byHash[j].batch] = {})
  BY <1>0, <1>1, <1>2, <1>4 DEF claims, solveEnd
<1>5. ASSUME NEW o \in Owners, o # i.owner PROVE sumSell(claims(o)') <= Funded(o)'
  <2>1. claims(o)' \subseteq claims(o)
    <3> SUFFICES ASSUME NEW j \in claims(o)' PROVE j \in claims(o)
      OBVIOUS
    <3>1. j # i
      BY <1>5 DEF claims
    <3>2. QED  BY <1>4, <3>1 DEF claims
  <2>2. claims(o) \subseteq Intents /\ claims(o)' \subseteq Intents
    BY DEF claims
  <2>3. sumSell(claims(o)) <= Funded(o)
    BY DEF PendingCovered
  <2>4. sumSell(claims(o)') <= sumSell(claims(o))
    BY <2>1, <2>2, SellsLess
  <2>5. sumSell(claims(o)') \in Nat /\ sumSell(claims(o)) \in Nat /\ Funded(o) \in Int
    BY <1>0, <2>2, SellsNat, FundedNumber
  <2>6. QED  BY <1>3, <2>3, <2>4, <2>5
<1>6. ASSUME NEW o \in Owners, o = i.owner PROVE sumSell(claims(o)') <= Funded(o)'
  <2>1. ASSUME NEW j \in claims(o)', j # i PROVE j \in holding(i)
    <3>1. /\ j \in Intents /\ j.owner = o /\ isPending(j) /\ ownerNonceKey(j) \notin nonceUsed
          /\ ~(now > solveEnd(byHash[j].batch) /\ won[byHash[j].batch] = {})
      BY <1>4, <2>1
    <3>2. byHash[j].batch \in Batches
      BY <1>0, <3>1, Stored DEF isPending
    <3>3. PICK c \in Batches : c = byHash[j].batch
      BY <3>2
    <3>4. j \in Waiting(c)
      BY <1>0, <3>1, <3>3 DEF WaitInv
    <3> DEFINE claim == [intent |-> j, batch |-> c]
    <3>5. claim \in committed(i.owner)
      BY <1>6, <3>1, <3>4 DEF committed
    <3>6. claim.intent = j /\ claim.batch = c
      OBVIOUS
    <3>7. posts[i].spent \subseteq nonceUsed
          /\ \A d \in posts[i].unwinnable : now > solveEnd(d) /\ won[d] = {}
      BY <1>0 DEF AsideInv
    <3>8. c \notin posts[i].unwinnable /\ ownerNonceKey(j) \notin posts[i].spent
      BY <3>1, <3>3, <3>7
    <3> HIDE DEF claim
    <3>9. QED  BY <3>5, <3>6, <3>8 DEF holding
  <2>2. holding(i) \subseteq Intents
    <3>1. \A c \in Batches : Waiting(c) \subseteq Intents
      BY <1>0, Lists
    <3>2. \A d \in committed(i.owner) : d.intent \in Intents
      BY <3>1 DEF committed
    <3>3. QED  BY <3>2 DEF holding
  <2>3. claims(o)' \subseteq holding(i) \cup {i} /\ claims(o)' \subseteq Intents
        /\ holding(i) \cup {i} \subseteq Intents
    BY <2>1, <2>2 DEF claims
  <2>4. sumSell(claims(o)') <= sumSell(holding(i) \cup {i})
    BY <2>3, SellsLess
  <2>5. sumSell(holding(i) \cup {i}) <= sumSell(holding(i)) + i.sell
    BY <2>2, SellsAdd
  <2>6. sumSell(holding(i)) + i.sell <= posts[i].cover
    BY <1>0 DEF admissible
  <2>7. posts[i].cover <= Funded(o)
    BY <1>0, <1>6 DEF FundInv
  <2>8. /\ sumSell(claims(o)') \in Nat /\ sumSell(holding(i) \cup {i}) \in Nat
        /\ sumSell(holding(i)) \in Nat /\ i.sell \in Nat
    BY <2>2, <2>3, SellsNat, IntentFacts
  <2>9. posts[i].cover \in Nat /\ Funded(o) \in Int
    BY <1>0, AdmitFields, FundedNumber
  <2>10. sumSell(claims(o)') <= Funded(o)
    BY <2>4, <2>5, <2>6, <2>7, <2>8, <2>9
  <2>11. QED  BY <1>3, <2>10
<1>7. QED  BY <1>5, <1>6 DEF PendingCovered

\* Settlement takes claims that were covered.
LEMMA SettleCovered ==
  ASSUME TimelySettlement, FeedsInv, FundInv, WonInv, PendingCovered, [Next]_vars,
         NEW b \in Batches, settle(b), collectable(won[b])
  PROVE  PendingCovered'
<1>0. /\ TypeOK /\ PoolInv /\ FeedHolds(b)
  BY DEF FeedsInv, PoolInv, FeedInv
<1>1. /\ now <= forgetAt(b) /\ "settle" \in acting /\ now > solveEnd(b) /\ won[b] # {}
      /\ nonceUsed' = nonceUsed \cup {ownerNonceKey(i) : i \in won[b]}
      /\ UNCHANGED <<now, won, byHash>>
  BY <1>0, SettledInTime DEF settle, poolVars
<1>2. ASSUME NEW i \in won[b]
      PROVE  /\ i \in Intents /\ isPending(i) /\ byHash[i].batch = b
             /\ ownerNonceKey(i) \notin nonceUsed
  <2>1. served(b) /\ i \in frozenFeeds[b].intents /\ isPending(i)
    BY <1>1 DEF WonInv
  <2>2. i \in Intents /\ byHash[i].batch = b
    BY <1>0, <2>1, FeedLists DEF FeedHolds, served
  <2>3. QED  BY <2>1, <2>2 DEF collectable
<1>3. ASSUME NEW o \in Owners PROVE sumSell(claims(o)') <= Funded(o)'
  <2> DEFINE taken == {i \in won[b] : i.owner = o}
             left == claims(o)'
  <2>1. taken \subseteq claims(o)
    BY <1>1, <1>2 DEF claims
  <2>2. left \subseteq claims(o) /\ left \cap taken = {}
    <3>1. ASSUME NEW i \in left PROVE i \in claims(o) /\ i \notin won[b]
      <4>1. /\ i \in Intents /\ i.owner = o /\ isPending(i)' /\ ownerNonceKey(i) \notin nonceUsed'
            /\ ~(now' > solveEnd(byHash'[i].batch) /\ won'[byHash'[i].batch] = {})
        BY DEF claims, solveEnd
      <4>2. isPending(i) /\ ownerNonceKey(i) \notin nonceUsed /\ i \notin won[b]
        BY <1>1, <4>1 DEF isPending
      <4>3. ~(now > solveEnd(byHash[i].batch) /\ won[byHash[i].batch] = {})
        BY <1>1, <4>1
      <4>4. QED  BY <4>1, <4>2, <4>3 DEF claims
    <3>2. QED  BY <3>1
  <2>3. claims(o) \subseteq Intents /\ left \subseteq Intents /\ taken \subseteq Intents
    BY <1>2 DEF claims
  <2>4. sumSell(claims(o)) <= Funded(o)
    BY DEF PendingCovered
  <2>5. Funded(o)' = Funded(o) - sumSell(taken)
    BY <1>0, SettleFunds
  <2> HIDE DEF taken, left
  <2>6. sumSell(left \cup taken) = sumSell(left) + sumSell(taken)
    BY <2>2, <2>3, SellsApart
  <2>7. left \cup taken \subseteq claims(o)
    BY <2>1, <2>2
  <2>8. sumSell(left \cup taken) <= sumSell(claims(o))
    BY <2>3, <2>7, SellsLess
  <2>9. sumSell(left) \in Nat /\ sumSell(taken) \in Nat /\ sumSell(claims(o)) \in Nat /\ Funded(o) \in Int
    BY <1>0, <2>3, SellsNat, FundedNumber
  <2>10. sumSell(left) <= Funded(o)'
    BY <2>4, <2>5, <2>6, <2>8, <2>9
  <2>11. QED  BY <2>10 DEF left
<1>4. QED  BY <1>3 DEF PendingCovered

\* Without an admission, what is pending was pending before, in its batch.
LEMMA PendingBefore ==
  ASSUME PoolInv, [Next]_vars
  PROVE  \/ \E i \in Intents, b \in Batches : admits(i, b) /\ now' = now
         \/ \A j \in Intents : isPending(j)' =>
              isPending(j) /\ byHash[j].batch \in Batches /\ byHash'[j].batch = byHash[j].batch
<1>0. TypeOK
  BY DEF PoolInv
<1>1. ASSUME NEW j \in Intents, isPending(j)',
             ~\E i \in Intents, b \in Batches : admits(i, b) /\ now' = now
      PROVE  isPending(j) /\ byHash'[j] = byHash[j]
  <2>1. ASSUME NEW time \in Nat, sweep(time) PROVE isPending(j) /\ byHash'[j] = byHash[j]
    BY <1>0, <1>1, <2>1, SweepHash
  <2>2. ASSUME NEW W, takenOut(W) PROVE isPending(j) /\ byHash'[j] = byHash[j]
    BY <1>0, <1>1, <2>2, WithdrawHash DEF takenOut
  <2>3. ~Restart
    BY <1>1 DEF Restart, isPending
  <2>4. byHash' = byHash => isPending(j) /\ byHash'[j] = byHash[j]
    BY <1>1 DEF isPending
  <2>5. QED  BY <1>1, <2>1, <2>2, <2>3, <2>4, PoolKinds
<1>2. ASSUME NEW j \in Intents, isPending(j) PROVE byHash[j].batch \in Batches
  BY <1>0, <1>2, Stored DEF isPending
<1>3. QED  BY <1>1, <1>2

LEMMA PendingStep ==
  ASSUME TimelySettlement, FeedsInv, FundInv, AsideInv, WonInv, PendingCovered, [Next]_vars
  PROVE  PendingCovered'
<1>0. PoolInv
  BY DEF FeedsInv
<1>1. CASE \E i \in Intents, b \in Batches : admits(i, b) /\ now' = now
  BY <1>0, <1>1, AdmitCovered
<1>2. CASE \A j \in Intents : isPending(j)' =>
             isPending(j) /\ byHash[j].batch \in Batches /\ byHash'[j].batch = byHash[j].batch
  <2>1. CASE pulled' = pulled
    BY <1>0, <1>2, <2>1, ClaimsShrink
  <2>2. ASSUME NEW b \in Batches, settle(b) PROVE pulled' = pulled \/ collectable(won[b])
    BY <2>2 DEF settle
  <2>3. ASSUME NEW b \in Batches, win(b) PROVE pulled' = pulled
    BY <2>3 DEF win
  <2>4. UNCHANGED chainVars \/ OwnerStep => pulled' = pulled
    BY DEF chainVars, OwnerStep
  <2>5. QED  BY <2>1, <2>2, <2>3, <2>4, ChainKinds, SettleCovered
<1>3. QED  BY <1>0, <1>1, <1>2, PendingBefore

CoveredInv == FeedsInv /\ FundInv /\ AsideInv /\ WonInv /\ PendingCovered

LEMMA CoveredInit == Init => CoveredInv
<1> SUFFICES ASSUME Init PROVE CoveredInv
  OBVIOUS
<1>0. FeedsInv /\ TypeOK
  BY FeedsInit, InitTypes
<1>1. /\ covered = InitialCover /\ pulled = {} /\ \A b \in Batches : won[b] = {}
      /\ \A i \in Intents : byHash[i] = Idle /\ posts[i] = Idle
      /\ \A b \in Batches : frozenFeeds[b] = NoFeed
      /\ \A r \in Lookups : lookups[r] = Idle
  BY DEF Init
<1>2. ASSUME NEW o \in Owners PROVE Funded(o) = InitialCover[o] /\ InitialCover[o] \in Nat
  <2>1. {i \in pulled : i.owner = o} = {}
    BY <1>1
  <2>2. sumSell({i \in pulled : i.owner = o}) = 0
    BY <2>1, SumEmpty DEF sumSell
  <2>3. QED  BY <2>2, PoolNumbers DEF Funded
<1>3. FundInv
  BY <1>1, <1>2 DEF FundInv
<1>4. AsideInv /\ WonInv
  BY <1>1 DEF AsideInv, WonInv, served
<1>5. PendingCovered
  <2>1. ASSUME NEW o \in Owners PROVE sumSell(claims(o)) <= Funded(o)
    <3>1. claims(o) = {}
      BY <1>1 DEF claims, isPending
    <3>2. sumSell(claims(o)) = 0
      BY <3>1, SumEmpty DEF sumSell
    <3>3. QED  BY <1>2, <3>2
  <2>2. QED  BY <2>1 DEF PendingCovered
<1>6. QED  BY <1>0, <1>3, <1>4, <1>5 DEF CoveredInv

\* No balance is promised twice, over the pool as in each feed: requests of one
\* owner may run side by side, solvers win, batches settle and owners move
\* their balance (the recount before admit in routes/intents.ts, and screen).
THEOREM PoolAlwaysCovered ==
  ASSUME TimelySettlement
  PROVE  Spec => []PoolCovered
<1>1. Init => CoveredInv
  BY CoveredInit
<1>2. CoveredInv /\ [Next]_vars => CoveredInv'
  BY FeedsStep, FundStep, AsideStep, WonStep, PendingStep DEF CoveredInv, FeedsInv
<1>3. CoveredInv => PoolCovered
  BY DEF CoveredInv, FeedsInv, PoolCovered
<1>4. QED  BY <1>1, <1>2, <1>3, PTL DEF Spec
=============================================================================
