---------------------------- MODULE Coordinator ----------------------------
(***************************************************************************)
(* The coordinator's mempool and the three routes that change it           *)
(* (api/src/mempool.ts, api/src/routes/intents.ts, api/src/revalidate.ts). *)
(*                                                                         *)
(* The process is one thread, so what runs between two awaits is atomic;   *)
(* an action is one such stretch.  Across an await anything may happen:    *)
(* other requests, the chain, and time, of which a reply tells only the    *)
(* block it was read at.  Everything here is in memory and is lost at a    *)
(* restart.                                                                *)
(*                                                                         *)
(* One sell token; covered[o] is what Permit2 can take from an owner, the  *)
(* smaller of balance and allowance.  A batch is named by its collectEnd.  *)
(***************************************************************************)
EXTENDS Integers, Sequences, FiniteSets, Functions, SequencesExt

CONSTANTS
  Batches,
  Intents,         \* [owner, nonce, sell, validUntil] records
  Owners,
  InitialCover,    \* [Owners -> Nat]
  Lookups,         \* concurrent status and open feed requests
  Idle, NoFeed, NoList,
  SOLUTION_WINDOW, FINALIZE_DEADLINE, STATUS_RETENTION,
  MaxAttempts,     \* windows an admission tries before it gives up
  Disturbances,    \* sets of clients and parts of the world that may act together
  MaxPosts,        \* bound: admissions in flight
  MaxTime          \* bound: the last timestamp

ownerNonceKey(i) == <<i.owner, i.nonce>>
Keys == {ownerNonceKey(i) : i \in Intents}

\* What the requests, the maps and the feeds hold.
Claims == [intent : Intents, batch : Batches]
StoredIntents == [batch : Batches, status : {"pending", "expired", "rejected"}]
Screenings == [list : Seq(Intents), cover : [Owners -> Nat], spent : SUBSET Keys]
Feeds ==
  [ready : {FALSE}, list : Seq(Intents), cover : [Owners -> Nat], spent : SUBSET Keys]
  \cup [ready : {TRUE}, screened : {FALSE}, intents : SUBSET Intents]
  \cup [ready : {TRUE}, screened : {TRUE}, intents : SUBSET Intents,
        cover : [Owners -> Nat], spent : SUBSET Keys]
Posts ==
  [step : {"prior"}, at : Nat, cover : Nat, prior : SUBSET Claims]
  \cup [step : {"stamp"}, cover : Nat, attempt : 1..MaxAttempts, spent : SUBSET Keys,
        unwinnable : SUBSET Batches, lookup : Batches]
  \cup [step : {"admit"}, cover : Nat, attempt : 1..MaxAttempts, spent : SUBSET Keys,
        unwinnable : SUBSET Batches, lookup : Batches, stamp : Nat]

ASSUME CoordinatorAssumption ==
  /\ Batches \subseteq Nat /\ IsFiniteSet(Intents)
  /\ InitialCover \in [Owners -> Nat]
  /\ \A i \in Intents : i.owner \in Owners /\ i.sell \in Nat /\ i.validUntil \in Nat
  /\ {SOLUTION_WINDOW, FINALIZE_DEADLINE, STATUS_RETENTION, MaxPosts, MaxTime} \subseteq Nat
  /\ MaxAttempts \in Nat \ {0}
  /\ Idle \notin {"timely", "late"} \cup StoredIntents \cup Screenings \cup Posts
  /\ NoFeed \notin Feeds /\ NoList \notin Seq(Intents)

VARIABLES
  \* the chain
  now, covered, nonceUsed,
  won,          \* won[b]: the intents of the winning solution, {} if none
  settled,      \* batches finalized
  pulled,       \* intents finalize took
  acting,       \* the clients and parts of the world that move in this behaviour
  \* the mempool
  byBatch,      \* byBatch[b], NoList or the sequence of intents waiting in b
  byHash,       \* byHash[i], Idle or [batch, status]
  byOwnerNonce, \* nonce key -> [intent, validUntil], for the held ones
  frozenFeeds,  \* NoFeed, a build in progress, or the served feed
  \* requests in flight
  posts,        \* posts[i]: the admission of i, between two awaits
  lookups,      \* lookups[r]: a screening of an open batch, between two awaits
  \* history, since the last restart
  accepted      \* accepted[i]: Idle, or whether i was admitted in time, if not withdrawn since

chainVars == <<covered, nonceUsed, won, settled, pulled, acting>>
poolVars  == <<byBatch, byHash, byOwnerNonce, frozenFeeds, accepted>>
vars == <<now, chainVars, poolVars, posts, lookups>>

solveEnd(b) == b + SOLUTION_WINDOW
forgetAt(b) == solveEnd(b) + FINALIZE_DEADLINE
isCollectClosed(b, time) == time > b

Init ==
  /\ now = 0 /\ covered = InitialCover /\ nonceUsed = {}
  /\ won = [b \in Batches |-> {}] /\ settled = {} /\ pulled = {}
  /\ acting \in Disturbances
  /\ byBatch = [b \in Batches |-> NoList]
  /\ byHash = [i \in Intents |-> Idle]
  /\ byOwnerNonce = [k \in {} |-> 0]
  /\ frozenFeeds = [b \in Batches |-> NoFeed]
  /\ posts = [i \in Intents |-> Idle]
  /\ lookups = [r \in Lookups |-> Idle]
  /\ accepted = [i \in Intents |-> Idle]

----------------------------------------------------------------------------
\* Helpers of the mempool.

sells == [i \in Intents |-> i.sell]
sumSell(S) == SumFunctionOnSet(sells, S)
getByBatch(b) == IF byBatch[b] = NoList THEN <<>> ELSE byBatch[b]
Waiting(b) == ToSet(getByBatch(b))
isPending(i) == byHash[i] # Idle /\ byHash[i].status = "pending"
served(b) == frozenFeeds[b] # NoFeed /\ frozenFeeds[b].ready

\* The pool after sweep(time).  A batch that never held an intent keeps its
\* feed.
swept(time) == {b \in Batches : byBatch[b] # NoList /\ time > forgetAt(b)}

sweepBatches(time) == [b \in Batches |-> IF b \in swept(time) THEN NoList ELSE byBatch[b]]
sweepFeeds(time) == [b \in Batches |-> IF b \in swept(time) THEN NoFeed ELSE frozenFeeds[b]]
\* Mutant: a nonce is let go with its batch.
sweepNoncesWithBatch(time) ==
  [k \in {key \in DOMAIN byOwnerNonce :
            byHash[byOwnerNonce[key].intent] # Idle
            /\ byHash[byOwnerNonce[key].intent].batch \notin swept(time)} |-> byOwnerNonce[k]]

sweepNonces(time) ==
  [k \in {key \in DOMAIN byOwnerNonce : time <= byOwnerNonce[key].validUntil} |-> byOwnerNonce[k]]
sweepStatus(time) ==
  [i \in Intents |->
     IF byHash[i] = Idle \/ time > forgetAt(byHash[i].batch) + STATUS_RETENTION THEN Idle
     ELSE IF isPending(i) /\ \E b \in swept(time) : i \in Waiting(b)
          THEN [byHash[i] EXCEPT !.status = "expired"]
     ELSE byHash[i]]

sweep(time) ==
  /\ byBatch' = sweepBatches(time)
  /\ frozenFeeds' = sweepFeeds(time)
  /\ byOwnerNonce' = sweepNonces(time)
  /\ byHash' = sweepStatus(time)

\* Pending intents of an owner in the batches still held.
committed(owner) ==
  UNION {{[intent |-> i, batch |-> b] : i \in {j \in Waiting(b) : j.owner = owner /\ isPending(j)}}
         : b \in Batches}

\* withdraw, of every pending intent of W: each leaves the list of its batch.
Gone(W) == {i \in W : isPending(i)}

\* The list without the intents in G, in its order.
without(list, G) ==
  LET left   == {k \in DOMAIN list : list[k] \notin G}
      nth(n) == CHOOSE k \in left : Cardinality({j \in left : j <= k}) = n
  IN  [n \in 1..Cardinality(left) |-> list[nth(n)]]

afterWithdraw(W) ==
  [b \in Batches |-> IF byBatch[b] = NoList THEN NoList
                     ELSE without(byBatch[b], {i \in Gone(W) : byHash[i].batch = b})]
withdraw(W) ==
  /\ byHash' = [i \in Intents |-> IF i \in Gone(W) THEN [byHash[i] EXCEPT !.status = "rejected"]
                                  ELSE byHash[i]]
  /\ byBatch' = afterWithdraw(W)
  /\ byOwnerNonce' = [k \in {key \in DOMAIN byOwnerNonce : byOwnerNonce[key].intent \notin Gone(W)}
                        |-> byOwnerNonce[k]]
  /\ accepted' = [i \in Intents |-> IF i \in Gone(W) THEN Idle ELSE accepted[i]]

\* screen: in the order of admission, each draws on what the kept ones before
\* it left.  K is the set of positions it keeps.
drawn(list, K, owner) == sumSell({list[k] : k \in {j \in K : list[j].owner = owner}})
keeps(x, K) ==
  \A k \in DOMAIN x.list :
    k \in K <=> /\ ownerNonceKey(x.list[k]) \notin x.spent
                /\ drawn(x.list, {j \in K : j < k}, x.list[k].owner) + x.list[k].sell
                     <= x.cover[x.list[k].owner]
rejected(x, K) == {x.list[k] : k \in DOMAIN x.list \ K}

\* The list and the facts a screening starts from: the facts are pinned to the
\* block of the request's stamp, so a slow reply does not make them newer.
screening(b) == [list |-> getByBatch(b), cover |-> covered, spent |-> nonceUsed]

----------------------------------------------------------------------------
\* POST /v1/intents.

openWindow(time) == {b \in Batches : b > time /\ \A c \in Batches : c > time => b <= c}

\* The request has its stamp; balance, allowance and nonce are read, and then
\* which earlier intents hold a claim on the owner's balance.
postFacts(i) ==
  /\ posts[i] = Idle
  /\ Cardinality({j \in Intents : posts[j] # Idle}) < MaxPosts
  /\ ownerNonceKey(i) \notin nonceUsed
  /\ i.sell <= covered[i.owner]
  /\ posts' = [posts EXCEPT ![i] = [step |-> "prior", at |-> now, cover |-> covered[i.owner],
                                    prior |-> committed(i.owner)]]
  /\ UNCHANGED <<now, chainVars, poolVars, lookups>>

\* windowAt: the window of that time, or the request is refused.
windowAt(i, time, cover, attempt, spent, unwinnable) ==
  /\ sweep(time)
  /\ posts' = [posts EXCEPT ![i] =
       IF \E b \in openWindow(time) : i.validUntil > solveEnd(b)
       THEN [step |-> "stamp", cover |-> cover, attempt |-> attempt, spent |-> spent,
             unwinnable |-> unwinnable, lookup |-> CHOOSE b \in openWindow(time) : TRUE]
       ELSE Idle]

\* Mutant: a batch past its window is over, won or not.
unwonAnyway(b) == TRUE

unwon(b) == won[b] = {}

\* The nonces of the earlier intents are read, a word of the bitmap at a time
\* (here one word per owner), and then which of their batches nobody won.
postPrior(i) ==
  LET p == posts[i]
      batches == {c.batch : c \in p.prior}
  IN  /\ p # Idle /\ p.step = "prior"
      /\ windowAt(i, p.at, p.cover, 1, IF p.prior = {} THEN {} ELSE nonceUsed,
                  {b \in batches : p.at > solveEnd(b) /\ unwon(b)})
      /\ UNCHANGED <<now, chainVars, lookups, accepted>>

\* The chain answers the last stamp; the reply is on its way.
postStamp(i) ==
  /\ posts[i] # Idle /\ posts[i].step = "stamp"
  /\ posts' = [posts EXCEPT ![i] =
       [step |-> "admit", cover |-> @.cover, attempt |-> @.attempt, spent |-> @.spent,
        unwinnable |-> @.unwinnable, lookup |-> @.lookup, stamp |-> now]]
  /\ UNCHANGED <<now, chainVars, poolVars, lookups>>

\* The recount, with nothing asynchronous between it and admit: an intent
\* admitted since counts as well.
holding(i) ==
  {c.intent : c \in {d \in committed(i.owner) : /\ d.batch \notin posts[i].unwinnable
                                               /\ ownerNonceKey(d.intent) \notin posts[i].spent}}

admissible(i) ==
  /\ sumSell(holding(i)) + i.sell <= posts[i].cover
  /\ byHash[i] = Idle
  /\ ownerNonceKey(i) \notin DOMAIN byOwnerNonce

admit(i, b) ==
  /\ byOwnerNonce' = [k \in DOMAIN byOwnerNonce \cup {ownerNonceKey(i)} |->
       IF k = ownerNonceKey(i) THEN [intent |-> i, validUntil |-> i.validUntil] ELSE byOwnerNonce[k]]
  /\ byHash' = [byHash EXCEPT ![i] = [batch |-> b, status |-> "pending"]]
  /\ byBatch' = [byBatch EXCEPT ![b] = Append(getByBatch(b), i)]
  /\ accepted' = [accepted EXCEPT ![i] = IF now <= b THEN "timely" ELSE "late"]
  /\ UNCHANGED frozenFeeds

postAdmit(i) ==
  LET p == posts[i]
      passed == p.stamp >= p.lookup
  IN  /\ p # Idle /\ p.step = "admit"
      /\ \/ /\ ~passed
            /\ posts' = [posts EXCEPT ![i] = Idle]
            /\ IF admissible(i) THEN admit(i, p.lookup) ELSE UNCHANGED poolVars
         \/ /\ passed /\ p.attempt = MaxAttempts
            /\ posts' = [posts EXCEPT ![i] = Idle]
            /\ UNCHANGED poolVars
         \/ /\ passed /\ p.attempt < MaxAttempts
            /\ windowAt(i, p.stamp, p.cover, p.attempt + 1, p.spent, p.unwinnable)
            /\ UNCHANGED accepted
      /\ UNCHANGED <<now, chainVars, lookups>>

\* A read fails or times out, and the request with it.
postFailed(i) ==
  /\ posts[i] # Idle
  /\ posts' = [posts EXCEPT ![i] = Idle]
  /\ UNCHANGED <<now, chainVars, poolVars, lookups>>

----------------------------------------------------------------------------
\* GET /v1/intents/:hash and GET /v1/batches/:id/intents.

\* A status lookup sweeps, and screens the batch while it still collects.
getStatus(r, i) ==
  /\ "lookup" \in acting
  /\ lookups[r] = Idle
  /\ byHash[i] # Idle
  /\ sweep(now)
  /\ lookups' = IF isPending(i) /\ ~isCollectClosed(byHash[i].batch, now)
                THEN [lookups EXCEPT ![r] = screening(byHash[i].batch)] ELSE lookups
  /\ UNCHANGED <<now, chainVars, posts, accepted>>

\* The feed of a batch that still collects is screened on every request.
getOpenFeed(r, b) ==
  /\ "lookup" \in acting
  /\ lookups[r] = Idle
  /\ ~isCollectClosed(b, now)
  /\ getByBatch(b) # <<>>
  /\ lookups' = [lookups EXCEPT ![r] = screening(b)]
  /\ UNCHANGED <<now, chainVars, poolVars, posts>>

lookupDone(r) ==
  /\ lookups[r] # Idle
  /\ \E K \in SUBSET DOMAIN lookups[r].list :
       keeps(lookups[r], K) /\ withdraw(rejected(lookups[r], K))
  /\ lookups' = [lookups EXCEPT ![r] = Idle]
  /\ UNCHANGED <<now, chainVars, frozenFeeds, posts>>

\* Mutant: every request builds a feed of its own.
unbuiltAlways(b) == frozenFeeds[b] = NoFeed \/ served(b)

unbuilt(b) == frozenFeeds[b] = NoFeed

\* The first request after collection builds the frozen feed, the others share
\* it.  After solveEnd a spent nonce may be the batch's own, so nothing is
\* screened.
getFrozenFeed(b) ==
  /\ isCollectClosed(b, now)
  /\ unbuilt(b)
  /\ frozenFeeds' = [frozenFeeds EXCEPT ![b] =
       IF now <= solveEnd(b) /\ getByBatch(b) # <<>>
       THEN [ready |-> FALSE, list |-> getByBatch(b), cover |-> covered, spent |-> nonceUsed]
       ELSE [ready |-> TRUE, screened |-> FALSE, intents |-> Waiting(b)]]
  /\ UNCHANGED <<now, chainVars, byBatch, byHash, byOwnerNonce, accepted, posts, lookups>>

feedBuilt(b) ==
  /\ ~unbuilt(b) /\ ~frozenFeeds[b].ready
  /\ \E K \in SUBSET DOMAIN frozenFeeds[b].list :
       /\ keeps(frozenFeeds[b], K)
       /\ withdraw(rejected(frozenFeeds[b], K))
       /\ frozenFeeds' = [frozenFeeds EXCEPT ![b] =
            [ready |-> TRUE, screened |-> TRUE,
             intents |-> Waiting(b) \ Gone(rejected(frozenFeeds[b], K)),
             cover |-> frozenFeeds[b].cover, spent |-> frozenFeeds[b].spent]]
  /\ UNCHANGED <<now, chainVars, posts, lookups>>

\* A read fails, and the next request tries again.
feedFailed(b) ==
  /\ "node" \in acting
  /\ ~unbuilt(b) /\ ~frozenFeeds[b].ready
  /\ frozenFeeds' = [frozenFeeds EXCEPT ![b] = NoFeed]
  /\ UNCHANGED <<now, chainVars, byBatch, byHash, byOwnerNonce, accepted, posts, lookups>>

Restart ==
  /\ "restart" \in acting
  /\ byBatch' = [b \in Batches |-> NoList]
  /\ byHash' = [i \in Intents |-> Idle]
  /\ byOwnerNonce' = [k \in {} |-> 0]
  /\ frozenFeeds' = [b \in Batches |-> NoFeed]
  /\ posts' = [i \in Intents |-> Idle]
  /\ lookups' = [r \in Lookups |-> Idle]
  /\ accepted' = [i \in Intents |-> Idle]
  /\ UNCHANGED <<now, chainVars>>

----------------------------------------------------------------------------
\* The chain.

Funded(o) == InitialCover[o] - sumSell({i \in pulled : i.owner = o})

\* An owner moves the balance away or back, or burns a nonce.
OwnerStep ==
  /\ "owner" \in acting
  /\ \/ /\ \E o \in Owners : \E n \in 0..Funded(o) : covered' = [covered EXCEPT ![o] = n]
        /\ UNCHANGED nonceUsed
     \/ /\ \E k \in Keys : nonceUsed' = nonceUsed \cup {k}
        /\ UNCHANGED covered
  /\ UNCHANGED <<now, won, settled, pulled, acting, poolVars, posts, lookups>>

\* A solver wins with some of what it was served.
win(b) ==
  /\ "solver" \in acting
  /\ served(b) /\ isCollectClosed(b, now) /\ now <= solveEnd(b)
  /\ \E S \in SUBSET frozenFeeds[b].intents : S # {} /\ won' = [won EXCEPT ![b] = S]
  /\ UNCHANGED <<now, covered, nonceUsed, settled, pulled, acting, poolVars, posts, lookups>>

\* finalize takes every leg, or gives everything back.
collectable(S) == /\ \A i \in S : ownerNonceKey(i) \notin nonceUsed /\ now <= i.validUntil
                  /\ \A o \in Owners : sumSell({i \in S : i.owner = o}) <= covered[o]
\* By the deadline and between admissions, unless a behaviour has it later or
\* racing them.
settle(b) ==
  /\ "settle" \in acting
  /\ "late" \in acting \/ now <= forgetAt(b)
  /\ "race" \in acting \/ \A i \in Intents : posts[i] = Idle
  /\ won[b] # {} /\ b \notin settled /\ now > solveEnd(b)
  /\ settled' = settled \cup {b}
  /\ IF collectable(won[b])
     THEN /\ covered' = [o \in Owners |-> covered[o] - sumSell({i \in won[b] : i.owner = o})]
          /\ nonceUsed' = nonceUsed \cup {ownerNonceKey(i) : i \in won[b]}
          /\ pulled' = pulled \cup won[b]
     ELSE UNCHANGED <<covered, nonceUsed, pulled>>
  /\ UNCHANGED <<now, won, acting, poolVars, posts, lookups>>

Tick ==
  /\ now < MaxTime
  /\ now' = now + 1
  /\ UNCHANGED <<chainVars, poolVars, posts, lookups>>

Next ==
  \/ \E i \in Intents : postFacts(i) \/ postPrior(i) \/ postStamp(i) \/ postAdmit(i)
                       \/ postFailed(i)
  \/ \E r \in Lookups, i \in Intents : getStatus(r, i)
  \/ \E r \in Lookups, b \in Batches : getOpenFeed(r, b)
  \/ \E r \in Lookups : lookupDone(r)
  \/ \E b \in Batches : getFrozenFeed(b) \/ feedBuilt(b) \/ feedFailed(b) \/ win(b) \/ settle(b)
  \/ Restart
  \/ OwnerStep
  \/ Tick

Spec == Init /\ [][Next]_vars

----------------------------------------------------------------------------
\* Properties.

\* The maps, the requests between their awaits and the feeds hold what the code
\* puts there: no field of one kind of record is ever read from another.
TypeOK ==
  /\ now \in Nat /\ covered \in [Owners -> Nat] /\ nonceUsed \subseteq Keys
  /\ won \in [Batches -> SUBSET Intents] /\ settled \subseteq Batches /\ pulled \subseteq Intents
  /\ acting \in Disturbances
  /\ byBatch \in [Batches -> Seq(Intents) \cup {NoList}]
  /\ byHash \in [Intents -> StoredIntents \cup {Idle}]
  /\ DOMAIN byOwnerNonce \subseteq Keys
  /\ \A k \in DOMAIN byOwnerNonce : byOwnerNonce[k] \in [intent : Intents, validUntil : Nat]
  /\ frozenFeeds \in [Batches -> Feeds \cup {NoFeed}]
  /\ posts \in [Intents -> Posts \cup {Idle}]
  /\ lookups \in [Lookups -> Screenings \cup {Idle}]
  /\ accepted \in [Intents -> {"timely", "late", Idle}]

\* The three maps of the mempool agree through admissions, screenings, sweeps
\* and late replies: an intent waits in one batch, once, as pending there, and
\* holds its nonce until Permit2 would refuse it (admit, withdraw and sweep).
PoolConsistent ==
  /\ \A k \in DOMAIN byOwnerNonce : ownerNonceKey(byOwnerNonce[k].intent) = k
  /\ \A b \in Batches :
       /\ IsInjective(getByBatch(b))
       /\ \A i \in Waiting(b) :
            /\ byHash[i] = [batch |-> b, status |-> "pending"]
            /\ now <= i.validUntil => /\ ownerNonceKey(i) \in DOMAIN byOwnerNonce
                                      /\ byOwnerNonce[ownerNonceKey(i)].intent = i

\* A nonce is held for as long as its signature could still settle: of two
\* intents the coordinator accepted and did not withdraw, both unexpired, no
\* two carry one nonce, although batches are forgotten, statuses dropped and
\* sweeps run at any time (admit, sweep and withdraw of mempool.ts).
NonceHeld ==
  \A i, j \in Intents :
    /\ accepted[i] # Idle /\ accepted[j] # Idle
    /\ ownerNonceKey(i) = ownerNonceKey(j)
    /\ now <= i.validUntil /\ now <= j.validUntil
    => i = j

\* What an owner's pending intents may still be pulled for, over all batches,
\* together with what finalize has pulled, never exceeds what the owner
\* brought: admissions of one owner running at the same time do not each count
\* the same balance (the recount before admit in routes/intents.ts).  A claim
\* ends when its nonce is spent or its batch closed without a winner.
claims(o) ==
  {i \in Intents : /\ i.owner = o /\ isPending(i)
                   /\ ownerNonceKey(i) \notin nonceUsed
                   /\ ~(now > solveEnd(byHash[i].batch) /\ won[byHash[i].batch] = {})}
PendingCovered == \A o \in Owners : sumSell(claims(o)) <= Funded(o)

\* The mempool is well typed and consistent, and of two live signatures no two
\* carry one nonce.
PoolHolds == TypeOK /\ PoolConsistent /\ NonceHeld

\* A frozen feed, once served, is served unchanged until the batch is past its
\* deadline, whatever is screened, swept, admitted or withdrawn meanwhile;
\* only a restart loses it (frozenFeed of mempool.ts).
FeedStable ==
  [][\A b \in Batches : served(b) /\ now <= forgetAt(b) /\ ~Restart
                        => frozenFeeds'[b] = frozenFeeds[b]]_vars

\* What a feed screened in time serves could be collected at its block: no
\* nonce was spent there and no owner was overdrawn by the feed as a whole
\* (screenBatch and screen).  Of the intents accepted before the close.
FeedCovered ==
  \A b \in Batches : served(b) /\ frozenFeeds[b].screened =>
    LET f == frozenFeeds[b]
        timely == {i \in f.intents : accepted[i] = "timely"}
    IN  /\ \A i \in timely : ownerNonceKey(i) \notin f.spent
        /\ \A o \in Owners : sumSell({i \in timely : i.owner = o}) <= f.cover[o]

\* No balance is promised twice, over the pool as in each feed.
PoolCovered == PendingCovered /\ FeedCovered
=============================================================================
