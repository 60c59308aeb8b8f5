------------------------------ MODULE OrderPath ------------------------------
(***************************************************************************)
(* One owner's way from a card in the browser to the contract that takes   *)
(* the tokens: the trade card and the commit card, the checks before a     *)
(* signature, the coordinator's front door, and what Settlement and        *)
(* AuctionHouse do with what was signed.  Cards, coordinator and contracts *)
(* each check the same facts, at different moments: between two of them    *)
(* time passes, the owner acts, another of the owner's promises is taken.  *)
(*                                                                         *)
(* A press of a button is a try, with one action per stretch between two   *)
(* awaits.  The coordinator's own interleavings are in Coordinator; here a *)
(* request is answered at one moment.  One sell token; a signature is its  *)
(* form, since what it covers is the intent it travels with.               *)
(***************************************************************************)
EXTENDS Integers, Sequences, FiniteSets, FiniteSetsExt

CONSTANTS
  PathCases,           \* [presses, amounts, approved, gap, last, acts] records
  PathWindows,         \* the ends of the batches that collect
  LongestWindow,       \* the longest wait for the next of them
  PathSolutionWindow,  \* SOLUTION_WINDOW
  PathDeadline,        \* FINALIZE_DEADLINE
  ValidFor,            \* VALID_FOR_SECONDS
  StaleStamp,          \* HEAD_REUSE_MS
  PathCrosses,         \* the crosses of one kind, in time
  PathFreeze,          \* from the freeze to the cross
  AfterCross,          \* AFTER_CROSS_SECONDS
  SlackBlocks,         \* SLACK_BLOCKS
  PathBalance, PathHorizon

PathActs == {"owner", "wallet", "lost replies", "odd signatures", "old stamps"}

ASSUME PathAssumption ==
  /\ PathWindows \subseteq Nat /\ IsFiniteSet(PathWindows) /\ PathCrosses \subseteq Nat /\ IsFiniteSet(PathCrosses)
  /\ {PathSolutionWindow, PathDeadline, ValidFor, StaleStamp, PathFreeze, AfterCross, SlackBlocks,
      PathBalance, PathHorizon, LongestWindow} \subseteq Nat
  /\ \A c \in PathCases :
       /\ c.presses \in Seq({"sign", "approve", "commit"}) /\ c.acts \subseteq PathActs
       /\ c.gap \in Nat /\ c.last \in 0..PathHorizon
  /\ \A time \in 0..PathHorizon, b \in PathWindows :
       time < b => \E e \in PathWindows : time < e /\ e <= time + LongestWindow
  /\ \A x, y \in PathCrosses : x < y => x + AfterCross < y

Unread == -1
NoWindow == PathHorizon + 9
NonceRange == 0..9
ClockNonce == 20
Unlimited == PathBalance + 1    \* maxUint256

VARIABLES
  pathCase,
  \* the chain: the owner's side of it, winners and books
  pathTime, held, approved, usedNonces, ownerCode, winners, books, collected, strayed,
  \* the coordinator
  mempool,
  \* the browser: what the cards read, how the wallet is set, the tries
  reads, walletAt, entered, tries, submitting, approvingFlag, busy,
  \* history
  ownerActed, promises, failed, refusals

ownerSide == <<held, approved, usedNonces, ownerCode, winners, books, collected>>
cardSide == <<reads, entered, submitting, approvingFlag, busy>>
historySide == <<promises, failed, refusals>>
pathVars == <<pathCase, pathTime, ownerSide, strayed, mempool, cardSide, walletAt, tries, ownerActed, historySide>>

Tries == DOMAIN pathCase.presses
PathAct(a) == a \in pathCase.acts
NotPressed == [step |-> "none"]
doing(t, step) == tries[t].step = step
is(t, kind) == pathCase.presses[t] = kind
at(t, step) == tries' = [tries EXCEPT ![t].step = step]

PathInit ==
  /\ pathCase \in PathCases
  /\ pathTime = 0 /\ held = PathBalance /\ approved = (IF pathCase.approved THEN Unlimited ELSE 0)
  /\ usedNonces = {} /\ ownerCode = "none" /\ winners = [b \in PathWindows |-> {}]
  /\ books = [x \in PathCrosses |-> <<>>] /\ collected = {} /\ strayed = {}
  /\ mempool = {}
  /\ reads = [balance |-> Unread, allowance |-> Unread] /\ walletAt = "app"
  /\ entered = 0 /\ tries = [t \in Tries |-> NotPressed]
  /\ submitting = FALSE /\ approvingFlag = FALSE /\ busy = FALSE
  /\ ownerActed = FALSE /\ promises = {} /\ failed = {} /\ refusals = {}

---------------------------------------------------------------------------
(* What the coordinator tells the cards.                                   *)

pathSolveEnd(b) == b + PathSolutionWindow

\* The batch that collects at a time, NoWindow if none.
windowAt(time) == Min({b \in PathWindows : time < b} \cup {NoWindow})

\* Nonces of admitted intents that are not spent and not past their end.
heldNonces(time) == {i.nonce : i \in {j \in mempool : time <= j.validUntil}}

\* GET /v1/nonces: the first that is free on chain and held by no accepted intent.
nextNonce(time) == Min(NonceRange \ (usedNonces \cup heldNonces(time)))

\* The intent the trade card builds: valid from the time it was told, for a
\* quarter of an hour and at least until its batch ends.
buildIntent(try) ==
  [try |-> try.id, form |-> try.form, nonce |-> try.nonce, sell |-> try.amount,
   validAfter |-> Min({try.chainTime, try.collectEnd}),
   validUntil |-> Max({try.chainTime + ValidFor, try.collectEnd})]

\* Mutant: valid for two days of crosses.
buildAuctionIntentLong(try) ==
  [try |-> try.id, form |-> try.form, nonce |-> try.nonce, sell |-> try.amount, validAfter |-> 0, validUntil |-> 2 * PathHorizon]

\* The commitment: valid until a while after the cross the page shows.
buildAuctionIntent(try) ==
  [try |-> try.id, form |-> try.form, nonce |-> try.nonce, sell |-> try.amount, validAfter |-> 0, validUntil |-> try.crossAt + AfterCross]

---------------------------------------------------------------------------
(* Signatures: what the API takes and what Permit2 takes.                  *)

\* The forms a wallet may return: 65 bytes with v of 27 or 28, the compact
\* 64 bytes, 65 with v of 0 or 1, or bytes of another length.
SignatureForms == {"65", "64", "v01", "other"}

\* Permit2: an owner with code is asked, any other signature is recovered.
permit2Takes(form) == IF ownerCode # "none" THEN ownerCode = "answers" ELSE form \in {"65", "64"}

permit2EoaSignature(form) == form \in {"65", "64"}

\* The path is chosen from the owner's code at this moment.
signatureAccepted(form) ==
  IF ownerCode = "none" THEN permit2EoaSignature(form) ELSE ownerCode = "answers"

---------------------------------------------------------------------------
(* POST /v1/intents, answered at one moment.                               *)

\* What earlier intents still hold: those not spent whose batch may still be
\* won or was.
promised(time) ==
  SumFunctionOnSet([i \in mempool |-> i.sell],
    {i \in mempool : i.nonce \notin usedNonces
                     /\ (time <= pathSolveEnd(i.batch) \/ winners[i.batch] # {})})

timely(intent, b) == intent.validAfter <= b /\ intent.validUntil > pathSolveEnd(b)

\* Mutant: earlier intents are forgotten.
coveredAlone(intent, funds) == intent.sell <= funds

coveredBeside(intent, funds) == promised(pathTime) + intent.sell <= funds

\* "ok", or the reason of the first check that fails.
verdict(intent) ==
  IF ~signatureAccepted(intent.form) THEN "BAD_SIGNATURE"
  ELSE IF intent.nonce \in usedNonces THEN "NonceAlreadyUsed"
  ELSE IF held < intent.sell THEN "INSUFFICIENT_BALANCE"
  ELSE IF approved < intent.sell THEN "NOT_APPROVED"
  ELSE IF windowAt(pathTime) = NoWindow THEN "NO_OPEN_BATCH"
  ELSE IF ~timely(intent, windowAt(pathTime)) THEN "IntentExpired"
  ELSE IF ~coveredBeside(intent, held) THEN "INSUFFICIENT_BALANCE"
  ELSE IF ~coveredBeside(intent, approved) THEN "NOT_APPROVED"
  ELSE IF intent.nonce \in heldNonces(pathTime) THEN "DUPLICATE_INTENT"
  ELSE "ok"

\* It joins the batch that collects now.
admit(intent) ==
  mempool' = mempool \cup {[batch |-> windowAt(pathTime), try |-> intent.try, form |-> intent.form, nonce |-> intent.nonce,
                           sell |-> intent.sell, validUntil |-> intent.validUntil]}

---------------------------------------------------------------------------
(* The cards.  reads is what the page last read of the account.            *)

ends(t, outcome) == tries' = [tries EXCEPT ![t].step = "done", ![t].outcome = outcome]

typeAmount(a) ==
  /\ entered = 0 /\ a \in pathCase.amounts /\ entered' = a
  /\ UNCHANGED <<pathCase, pathTime, ownerSide, strayed, mempool, reads, submitting, approvingFlag, busy,
                 walletAt, tries, ownerActed, historySide>>

readAccount ==
  /\ \A t \in Tries : tries[t] = NotPressed \/ doing(t, "done")
  /\ reads' \in {[reads EXCEPT !.balance = held], [reads EXCEPT !.allowance = approved]} \ {reads}
  /\ UNCHANGED <<pathCase, pathTime, ownerSide, strayed, mempool, entered, submitting, approvingFlag, busy,
                 walletAt, tries, ownerActed, historySide>>

unread == Unread \in {reads.balance, reads.allowance}
short == reads.balance # Unread /\ reads.balance < entered
unapproved == ~short /\ reads.allowance # Unread /\ reads.allowance < entered
canSign == entered > 0 /\ ~unread /\ ~short /\ ~unapproved

started(t, step) ==
  /\ tries[t] = NotPressed /\ \A u \in Tries : u < t => tries[u] # NotPressed
  /\ tries' = [tries EXCEPT ![t] =
       [step |-> step, id |-> t, amount |-> entered, chainTime |-> Unread, collectEnd |-> Unread, nonce |-> Unread,
        crossAt |-> Min(PathCrosses), checkedAt |-> walletAt, form |-> "65", said |-> "none", outcome |-> "none"]]

\* The button is free while the coordinator is asked: a second press is taken.
pressSign(t) ==
  /\ is(t, "sign") /\ canSign /\ ~submitting /\ \A u \in Tries : ~(is(u, "sign") /\ doing(u, "signing"))
  /\ started(t, "asking")
  /\ UNCHANGED <<pathCase, pathTime, ownerSide, strayed, mempool, cardSide, walletAt, ownerActed, historySide>>

pressApprove(t) ==
  /\ is(t, "approve") /\ entered > 0 /\ unapproved /\ ~approvingFlag
  /\ started(t, "guarding") /\ approvingFlag' = TRUE
  /\ UNCHANGED <<pathCase, pathTime, ownerSide, strayed, mempool, reads, entered, submitting, busy,
                 walletAt, ownerActed, historySide>>

pressCommit(t) ==
  /\ is(t, "commit") /\ entered > 0 /\ ~short /\ ~unapproved /\ ~busy
  /\ started(t, "guarding")
  /\ UNCHANGED <<pathCase, pathTime, ownerSide, strayed, mempool, cardSide, walletAt, ownerActed, historySide>>

\* The two heads are a few blocks apart on one chain, and as far as the fork is
\* old on two.
walletSeesSameChain == walletAt = "app" \/ pathCase.gap <= SlackBlocks

\* Mutant: the flag stays when the guard refuses.
flagAfterApproved(t) == approvingFlag

\* The approval is over, however it ended.
flagAfter(t) == IF is(t, "approve") THEN FALSE ELSE approvingFlag

guard(t) ==
  /\ doing(t, "guarding")
  /\ \/ /\ walletSeesSameChain
        /\ tries' = [tries EXCEPT ![t].step = IF is(t, "approve") THEN "sending" ELSE "asking", ![t].checkedAt = walletAt]
        /\ UNCHANGED approvingFlag
     \/ /\ ~walletSeesSameChain \/ PathAct("lost replies")
        /\ ends(t, "guard") /\ approvingFlag' = flagAfter(t)
  /\ UNCHANGED <<pathCase, pathTime, ownerSide, strayed, mempool, reads, entered, submitting, busy,
                 walletAt, ownerActed, historySide>>

\* currentBatch and nextNonce are asked together and answer in either order;
\* with the last answer the wallet is asked to sign.
answered(t, try) ==
  LET all == try.nonce # Unread /\ (is(t, "sign") => try.chainTime # Unread) IN
  /\ tries' = [tries EXCEPT ![t] = IF all THEN [try EXCEPT !.step = "signing"] ELSE try]
  /\ busy' = (busy \/ is(t, "commit"))

\* From a stamp that may be a little old.
askCurrentBatch(t) ==
  /\ is(t, "sign") /\ doing(t, "asking") /\ tries[t].chainTime = Unread
  /\ \E time \in IF PathAct("old stamps") THEN Max({0, pathTime - StaleStamp})..pathTime ELSE {pathTime} :
       IF windowAt(time) = NoWindow THEN ends(t, "no batch") /\ UNCHANGED busy
       ELSE answered(t, [tries[t] EXCEPT !.chainTime = time, !.collectEnd = windowAt(time)])
  /\ UNCHANGED <<pathCase, pathTime, ownerSide, strayed, mempool, reads, entered, submitting, approvingFlag,
                 walletAt, ownerActed, historySide>>

\* No answer: the trade card says so, the commit card takes the clock.
askNextNonce(t) ==
  /\ doing(t, "asking") /\ tries[t].nonce = Unread
  /\ \/ answered(t, [tries[t] EXCEPT !.nonce = nextNonce(pathTime)])
     \/ PathAct("lost replies") /\ is(t, "sign") /\ ends(t, "not asked") /\ UNCHANGED busy
     \/ PathAct("lost replies") /\ is(t, "commit") /\ answered(t, [tries[t] EXCEPT !.nonce = ClockNonce + t])
  /\ UNCHANGED <<pathCase, pathTime, ownerSide, strayed, mempool, reads, entered, submitting, approvingFlag,
                 walletAt, ownerActed, historySide>>

sign(t) ==
  /\ doing(t, "signing")
  /\ \E form \in IF PathAct("odd signatures") THEN SignatureForms ELSE {"65"} :
       tries' = [tries EXCEPT ![t].step = IF is(t, "sign") THEN "posting" ELSE "simulating", ![t].form = form]
  /\ submitting' = (submitting \/ is(t, "sign"))
  /\ UNCHANGED <<pathCase, pathTime, ownerSide, strayed, mempool, reads, entered, approvingFlag, busy,
                 walletAt, ownerActed, historySide>>

reject(t) ==
  /\ doing(t, "signing") \/ doing(t, "sending")
  /\ ends(t, "rejected")
  /\ busy' = (busy /\ ~is(t, "commit")) /\ approvingFlag' = flagAfter(t)
  /\ UNCHANGED <<pathCase, pathTime, ownerSide, strayed, mempool, reads, entered, submitting,
                 walletAt, ownerActed, historySide>>

\* A promise: what was signed, and that a desk has it.
promise(desk, intent) ==
  [desk |-> desk, try |-> intent.try, nonce |-> intent.nonce, sell |-> intent.sell,
   waited |-> IF desk = "batch" THEN pathTime - tries[intent.try].chainTime ELSE 0]

post(t) ==
  /\ doing(t, "posting")
  /\ LET intent == buildIntent(tries[t])
         v == verdict(intent)
     IN /\ tries' = [tries EXCEPT ![t].step = "replying", ![t].said = v]
        /\ IF v = "ok" THEN /\ admit(intent)
                            /\ promises' = promises \cup {promise("batch", intent)} /\ UNCHANGED refusals
           ELSE /\ refusals' = refusals \cup {[try |-> t, reason |-> v, waited |-> pathTime - tries[t].chainTime]}
                /\ UNCHANGED <<mempool, promises>>
  /\ UNCHANGED <<pathCase, pathTime, ownerSide, strayed, cardSide, walletAt, ownerActed, failed>>

\* The reply, or none.  An intent that was sent replaces what was entered.
reply(t) ==
  /\ doing(t, "replying")
  /\ \/ ends(t, tries[t].said) /\ entered' = (IF tries[t].said = "ok" THEN 0 ELSE entered)
     \/ PathAct("lost replies") /\ ends(t, "no reply") /\ UNCHANGED entered
  /\ submitting' = FALSE
  /\ UNCHANGED <<pathCase, pathTime, ownerSide, strayed, mempool, reads, approvingFlag, busy,
                 walletAt, ownerActed, historySide>>

---------------------------------------------------------------------------
(* Transactions go where the wallet points.                                *)

ahead == {x \in PathCrosses : pathTime < x}
nextCross == Min(ahead)

\* What commitAuctionIntent answers now; the nonce is not looked at.
houseTakes(intent) ==
  /\ ahead # {} /\ <<"auction", nextCross>> \notin collected
  /\ intent.validUntil >= nextCross
  /\ held >= intent.sell /\ approved >= intent.sell
  /\ IF ownerCode = "none" THEN intent.form = "65" ELSE ownerCode = "answers"

\* Asked first without sending.
simulateCommit(t) ==
  /\ doing(t, "simulating")
  /\ IF houseTakes(buildAuctionIntent(tries[t]))
     THEN at(t, "sending") /\ UNCHANGED busy
     ELSE ends(t, "refused") /\ busy' = FALSE
  /\ UNCHANGED <<pathCase, pathTime, ownerSide, strayed, mempool, reads, entered, submitting, approvingFlag,
                 walletAt, ownerActed, historySide>>

sendTransaction(t) ==
  /\ doing(t, "sending")
  /\ IF walletAt = "app" THEN at(t, "landing") /\ UNCHANGED strayed
     ELSE at(t, "lost") /\ strayed' = strayed \cup {[try |-> t, moved |-> tries[t].checkedAt # walletAt]}
  /\ UNCHANGED <<pathCase, pathTime, ownerSide, mempool, cardSide, walletAt, ownerActed, historySide>>

\* No receipt of it on this chain: the wait gives up.
receiptMissing(t) ==
  /\ doing(t, "lost") /\ ends(t, "no receipt")
  /\ busy' = (busy /\ ~is(t, "commit")) /\ approvingFlag' = flagAfter(t)
  /\ UNCHANGED <<pathCase, pathTime, ownerSide, strayed, mempool, reads, entered, submitting,
                 walletAt, ownerActed, historySide>>

landApproval(t) ==
  /\ is(t, "approve") /\ doing(t, "landing") /\ approved' = Unlimited /\ at(t, "rechecking")
  /\ UNCHANGED <<pathCase, pathTime, held, usedNonces, ownerCode, winners, books, collected, strayed, mempool,
                 cardSide, walletAt, ownerActed, historySide>>

recheckAllowance(t) ==
  /\ doing(t, "rechecking") /\ reads' = [reads EXCEPT !.allowance = approved]
  /\ ends(t, "approved") /\ approvingFlag' = flagAfter(t)
  /\ UNCHANGED <<pathCase, pathTime, ownerSide, strayed, mempool, entered, submitting, busy,
                 walletAt, ownerActed, historySide>>

\* The card shows the commitment as made whatever the receipt says.
landCommitment(t) ==
  /\ is(t, "commit") /\ doing(t, "landing")
  /\ LET intent == buildAuctionIntent(tries[t]) IN
     IF houseTakes(intent)
     THEN /\ books' = [books EXCEPT ![nextCross] = Append(@, intent)]
          /\ promises' = promises \cup {promise("auction", intent)} /\ ends(t, "committed")
     ELSE UNCHANGED <<books, promises>> /\ ends(t, "reverted")
  /\ entered' = 0 /\ busy' = FALSE
  /\ UNCHANGED <<pathCase, pathTime, held, approved, usedNonces, ownerCode, winners, collected, strayed, mempool,
                 reads, submitting, approvingFlag, walletAt, ownerActed, failed, refusals>>

---------------------------------------------------------------------------
(* Where a promise is taken.                                               *)

\* A list maps places to intents.  Permit2 takes the one at place k, when those at
\* J were taken before it: in time, its nonce free, the funds left enough for it.
takable(list, k, J) ==
  /\ pathTime <= list[k].validUntil
  /\ list[k].nonce \notin usedNonces \cup {list[j].nonce : j \in J}
  /\ SumFunctionOnSet([j \in J |-> list[j].sell], J) + list[k].sell <= Min({held, approved})
  /\ permit2Takes(list[k].form)

\* The places of a list that are taken, in their order.
takes(list) ==
  CHOOSE J \in SUBSET DOMAIN list :
    \A k \in DOMAIN list : k \in J <=> takable(list, k, {j \in J : j < k})

take(list, J) ==
  /\ held' = held - SumFunctionOnSet([j \in J |-> list[j].sell], J)
  /\ usedNonces' = usedNonces \cup {list[j].nonce : j \in J}

\* Intents of a batch, listed by their tries.
byTry(S) == [t \in {i.try : i \in S} |-> CHOOSE i \in S : i.try = t]

\* usable and _requireCollectable: not expired by solveEnd, nonce not spent; the
\* feed was screened when the batch closed.
usable(b) == byTry({i \in mempool : i.batch = b /\ i.validUntil > pathSolveEnd(b)})
collectableNow(b) == {usable(b)[t] : t \in takes(usable(b))}

submitSolution(b) ==
  /\ b < pathTime /\ pathTime <= pathSolveEnd(b) /\ winners[b] = {}
  /\ \E S \in (SUBSET mempool) \ {{}} : S \subseteq collectableNow(b) /\ winners' = [winners EXCEPT ![b] = S]
  /\ UNCHANGED <<pathCase, pathTime, held, approved, usedNonces, ownerCode, books, collected, strayed, mempool,
                 cardSide, walletAt, tries, ownerActed, historySide>>

Kept(desk, t) == CHOOSE p \in promises : p.desk = desk /\ p.try = t

\* finalize collects in order up to the first leg that fails; the legs before
\* it are given back, their nonces spent.
finalizeBatch(b) ==
  /\ pathSolveEnd(b) < pathTime /\ pathTime <= pathSolveEnd(b) + PathDeadline
  /\ winners[b] # {} /\ <<"batch", b>> \notin collected
  /\ LET legs   == byTry(winners[b])
         missed == DOMAIN legs \ takes(legs)
     IN IF missed = {} THEN take(legs, DOMAIN legs) /\ UNCHANGED failed
        ELSE /\ failed' = failed \cup {Kept("batch", Min(missed))}
             /\ usedNonces' = usedNonces \cup {legs[t].nonce : t \in {u \in DOMAIN legs : u < Min(missed)}}
             /\ UNCHANGED held
  /\ collected' = collected \cup {<<"batch", b>>}
  /\ UNCHANGED <<pathCase, pathTime, approved, ownerCode, winners, books, strayed, mempool, cardSide,
                 walletAt, tries, ownerActed, promises, refusals>>

\* freeze pulls the book in order and drops what it cannot take.
freezeBook(x) ==
  /\ x - PathFreeze <= pathTime /\ pathTime < x /\ <<"auction", x>> \notin collected /\ books[x] # <<>>
  /\ take(books[x], takes(books[x]))
  /\ failed' = failed \cup {Kept("auction", books[x][k].try) : k \in DOMAIN books[x] \ takes(books[x])}
  /\ collected' = collected \cup {<<"auction", x>>}
  /\ UNCHANGED <<pathCase, pathTime, approved, ownerCode, winners, books, strayed, mempool, cardSide,
                 walletAt, tries, ownerActed, promises, refusals>>

---------------------------------------------------------------------------
(* Everything else.                                                        *)

\* The owner spends, revokes, burns a nonce or delegates the account.
OwnerActs ==
  /\ PathAct("owner") /\ ~ownerActed /\ ownerActed' = TRUE
  /\ \/ held > 0 /\ held' = held - 1 /\ UNCHANGED <<approved, usedNonces, ownerCode>>
     \/ approved' = 0 /\ UNCHANGED <<held, usedNonces, ownerCode>>
     \/ \E p \in promises : usedNonces' = usedNonces \cup {p.nonce} /\ UNCHANGED <<held, approved, ownerCode>>
     \/ ownerCode' \in {"answers", "silent"} /\ UNCHANGED <<held, approved, usedNonces>>
  /\ UNCHANGED <<pathCase, pathTime, winners, books, collected, strayed, mempool, cardSide, walletAt, tries, historySide>>

WalletMoves ==
  /\ PathAct("wallet") /\ walletAt' \in {"app", "other"} \ {walletAt}
  /\ UNCHANGED <<pathCase, pathTime, ownerSide, strayed, mempool, cardSide, tries, ownerActed, historySide>>

PathSecond ==
  /\ pathTime < pathCase.last /\ pathTime' = pathTime + 1
  /\ UNCHANGED <<pathCase, ownerSide, strayed, mempool, cardSide, walletAt, tries, ownerActed, historySide>>

Pressing == \E t \in Tries : pressSign(t) \/ pressApprove(t) \/ pressCommit(t)

\* A try goes on: replies come or time out, and the person answers the wallet.
TryStep(t) ==
  \/ guard(t) \/ askCurrentBatch(t) \/ askNextNonce(t)
  \/ sign(t) \/ reject(t) \/ post(t) \/ reply(t) \/ simulateCommit(t) \/ sendTransaction(t) \/ receiptMissing(t)
  \/ landApproval(t) \/ recheckAllowance(t) \/ landCommitment(t)

PathNext ==
  \/ \E a \in 1..PathBalance : typeAmount(a)
  \/ readAccount \/ Pressing \/ \E t \in Tries : TryStep(t)
  \/ \E b \in PathWindows : submitSolution(b) \/ finalizeBatch(b)
  \/ \E x \in PathCrosses : freezeBook(x)
  \/ OwnerActs \/ WalletMoves \/ PathSecond

---------------------------------------------------------------------------
(* Properties.                                                             *)

\* The owner's promises together are more than there is, and one of them is to an
\* auction, which the coordinator does not see.
Overcommitted ==
  /\ \E q \in promises : q.desk = "auction"
  /\ SumFunctionOnSet([q \in promises |-> q.sell], promises) > PathBalance

\* Another promise needs the same nonce, one of the two to an auction; or the funds
\* are promised twice.
SharedWithAuction(p) ==
  \/ \E q \in promises \ {p} : "auction" \in {p.desk, q.desk} /\ p.nonce = q.nonce
  \/ Overcommitted

\* An admitted intent is one that solvers can collect, from the end of its batch to
\* solveEnd, and a collection that was won or committed fails only by the owner's
\* own doing: an act on the chain, an auction promised what an intent needs too, or
\* a signature so late that the intent expires before finalize (the check is
\* against solveEnd, Permit2's deadline comes after it).  A second intent, a
\* second press or a lost reply never makes one fail.
PromisesKept ==
  /\ \A i \in mempool :
       \/ ~(i.batch < pathTime /\ pathTime <= pathSolveEnd(i.batch))
       \/ ownerActed \/ SharedWithAuction(Kept("batch", i.try))
       \/ i \in collectableNow(i.batch)
  /\ \A p \in failed :
       \/ ownerActed \/ SharedWithAuction(p)
       \/ p.waited > ValidFor - LongestWindow - PathSolutionWindow - PathDeadline

\* An intent the card builds is admitted, when nothing else was going on: the
\* facts the card reads are those the coordinator checks, the nonce is free and
\* the validity outlives the batch the intent ends up in, unless the person
\* took longer to sign than it lasts.
LoneIntentAccepted ==
  \A x \in refusals :
    \/ ownerActed \/ \E t \in Tries : t # x.try /\ tries[t] # NotPressed
    \/ x.reason = "NO_OPEN_BATCH"
    \/ x.reason = "BAD_SIGNATURE" /\ tries[x.try].form \notin {"65", "64"}
    \/ x.reason = "IntentExpired" /\ x.waited > ValidFor - LongestWindow - PathSolutionWindow - 1

\* A card's transaction goes to the chain the card reads, unless the wallet was
\* pointed elsewhere after the check or the fork is too young to be told apart.
SpendsWhereRead == \A s \in strayed : s.moved \/ pathCase.gap <= SlackBlocks

\* A commitment is in the book of the cross its page showed, or in none.
JoinsCrossShown ==
  \A x \in PathCrosses : \A k \in DOMAIN books[x] : tries[books[x][k].try].crossAt = x

\* What the cards do stands before the coordinator and the contracts.
CardsRight == LoneIntentAccepted /\ SpendsWhereRead /\ JoinsCrossShown

\* No button stays taken: whatever a reply, a wallet or a refused check does,
\* every flag that disables a button is cleared again.
ButtonsComeBack == []<>~(submitting \/ approvingFlag \/ busy)
=============================================================================
