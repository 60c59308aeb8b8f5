------------------------------- MODULE Faucet -------------------------------
(***************************************************************************)
(* The testnet faucet (routes/faucet.ts): the two windows that limit who   *)
(* asks, the queue that serves one request at a time, and the transfers    *)
(* it sends under nonces it counts itself.  Transfers are mined in the     *)
(* order of their nonces and may be slow: a request gives up on a receipt  *)
(* and the next one starts while the transfer is still pending.  The       *)
(* windows and the queue are in memory and gone when the process restarts. *)
(***************************************************************************)
EXTENDS Lists, FiniteSetsExt, SequencesExt

CONSTANTS
  Asks,             \* the requests of this behaviour
  AskedFrom,        \* the client address of each
  AskedFor,         \* the account each asks for
  FaucetAssets,     \* a sequence, the native coin first
  Targets,          \* what an account is topped up to, by asset
  FaucetCases,      \* [held, own, reverts, restarts]: the tokens an account starts with, the
                    \* faucet's coins; bounds: transfers that revert, whether the process may restart
  PerAddress, PerIp, Hour, ReceiptWait, FaucetHorizon

ASSUME FaucetAssumption ==
  /\ {PerAddress, PerIp, Hour, ReceiptWait, FaucetHorizon} \subseteq Nat
  /\ FaucetAssets \in Seq(Range(FaucetAssets)) \ {<<>>} /\ IsInjective(FaucetAssets)
  /\ \A c \in FaucetCases : {c.held, c.own, c.reverts} \subseteq Nat
  /\ \A i \in DOMAIN FaucetAssets : Targets[FaucetAssets[i]] \in Nat

VARIABLES
  faucetCase, faucetSecond,
  takes,            \* Window.seen: per <<"ip" or "address", key>>, the times kept
  stage,            \* per request: its state
  queue,            \* requests behind `serial`, the running one first
  running,          \* per request: what is due, the next nonce, what was sent, since when it waits
  balances, minedNonces, pending,    \* the chain: balances, nonces used, [nonce, to, asset, amount]
  reverted,         \* the nonces whose transfer reverted
  taken, sent, gaveUp                \* history: times admitted since the process started, transfers
                                     \* broadcast, accounts given up on

requestSide == <<takes, stage, queue, running>>
tokenSide == <<balances, minedNonces, pending, reverted>>
faucetHistory == <<taken, sent, gaveUp>>
faucetVars == <<faucetCase, faucetSecond, requestSide, tokenSide, faucetHistory>>

Accounts == {AskedFor[r] : r \in Asks}
Assets == Range(FaucetAssets)
WindowKeys == {<<"ip", AskedFrom[r]>> : r \in Asks} \cup {<<"address", AskedFor[r]>> : r \in Asks}
Idle == [due |-> <<>>, nonce |-> 0, sends |-> {}, since |-> 0]

FaucetInit ==
  /\ faucetCase \in FaucetCases /\ faucetSecond = 0
  /\ takes = [k \in WindowKeys |-> <<>>] /\ stage = [r \in Asks |-> "idle"]
  /\ queue = <<>> /\ running = [r \in Asks |-> Idle]
  /\ balances = [a \in Accounts |-> [x \in Assets |-> IF x = FaucetAssets[1] THEN 0 ELSE faucetCase.held]]
  /\ minedNonces = 0 /\ pending = {} /\ reverted = {}
  /\ taken = [k \in WindowKeys |-> <<>>] /\ sent = {} /\ gaveUp = {}

---------------------------------------------------------------------------
(* Window.                                                                 *)

limitOf(k) == IF k[1] = "ip" THEN PerIp ELSE PerAddress
recent(k) == inOrder(takes[k], {n \in DOMAIN takes[k] : takes[k][n] > faucetSecond - Hour})
mayTake(k) == Len(recent(k)) < limitOf(k)

\* take(): the old ones are dropped either way.
kept(k, admitted) == IF admitted THEN Append(recent(k), faucetSecond) ELSE recent(k)

\* The account's window is asked only when the client's admits, and a request the
\* account's refuses has used a place of the client's all the same.
POSTfaucet(r) ==
  LET ip == <<"ip", AskedFrom[r]>>
      address == <<"address", AskedFor[r]>>
      asks == IF mayTake(ip) THEN {ip, address} ELSE {ip}
      took == {k \in asks : mayTake(k)}
  IN  /\ stage[r] = "idle"
      /\ takes' = [k \in WindowKeys |-> IF k \in asks THEN kept(k, k \in took) ELSE takes[k]]
      /\ taken' = [k \in WindowKeys |-> IF k \in took THEN Append(taken[k], faucetSecond) ELSE taken[k]]
      /\ stage' = [stage EXCEPT ![r] = IF address \in took THEN "queued" ELSE "limited"]
      /\ queue' = IF address \in took THEN Append(queue, r) ELSE queue
      /\ UNCHANGED <<faucetCase, faucetSecond, running, tokenSide, sent, gaveUp>>

---------------------------------------------------------------------------
(* One task of the queue.                                                  *)

shortfall(held, target) == IF held >= target THEN 0 ELSE target - held

\* What the faucet's own account still has: nobody held coins at the start.
ownCoins == faucetCase.own - SumFunction([a \in Accounts |-> balances[a][FaucetAssets[1]]])

\* Mutant: tasks do not wait for each other.
turnOfAnybody(r) == r \in Range(queue)

\* serial: a task starts when the one before it has ended, however it ended.
turn(r) == queue # <<>> /\ Head(queue) = r

ends(r, answer) ==
  /\ stage' = [stage EXCEPT ![r] = answer] /\ running' = [running EXCEPT ![r] = Idle]
  /\ queue' = inOrder(queue, {k \in DOMAIN queue : queue[k] # r})

\* The balances of the account, read at once, and then the faucet's own.
readHeld(r) ==
  /\ turn(r) /\ stage[r] = "queued"
  /\ LET held == balances[AskedFor[r]]
         due == [i \in DOMAIN FaucetAssets |-> shortfall(held[FaucetAssets[i]], Targets[FaucetAssets[i]])]
     IN  stage' = [stage EXCEPT ![r] = "held"] /\ running' = [running EXCEPT ![r].due = due]
  /\ UNCHANGED <<faucetCase, faucetSecond, takes, queue, tokenSide, faucetHistory>>

readOwn(r) ==
  /\ turn(r) /\ stage[r] = "held"
  /\ IF ownCoins < running[r].due[1] + 1
     THEN ends(r, "out of coins")
     ELSE stage' = [stage EXCEPT ![r] = "read"] /\ UNCHANGED <<queue, running>>
  /\ UNCHANGED <<faucetCase, faucetSecond, takes, tokenSide, faucetHistory>>

\* The count at "pending": what is mined and what waits to be.
countNonces(r) ==
  /\ turn(r) /\ stage[r] = "read"
  /\ running' = [running EXCEPT ![r].nonce = minedNonces + Cardinality(pending)]
  /\ stage' = [stage EXCEPT ![r] = "sending"]
  /\ UNCHANGED <<faucetCase, faucetSecond, takes, queue, tokenSide, faucetHistory>>

nextDue(r) == {i \in DOMAIN running[r].due : running[r].due[i] > 0 /\ i \notin {s.i : s \in running[r].sends}}

nonceFree(n) == n >= minedNonces /\ n \notin {p.nonce : p \in pending}

givesUp(r) == gaveUp \cup IF running[r].sends = {} THEN {} ELSE {AskedFor[r]}

\* Broadcast, and answered or not; a nonce in use is refused.
sendNext(r, answered) ==
  /\ turn(r) /\ stage[r] = "sending" /\ nextDue(r) # {}
  /\ IF nonceFree(running[r].nonce)
     THEN LET i == Min(nextDue(r))
              transfer == [nonce |-> running[r].nonce, to |-> AskedFor[r],
                           asset |-> FaucetAssets[i], amount |-> running[r].due[i]]
          IN  /\ pending' = pending \cup {transfer} /\ sent' = sent \cup {transfer}
              /\ IF answered
                 THEN /\ running' = [running EXCEPT ![r].nonce = @ + 1,
                                                   ![r].sends = @ \cup {[i |-> i, nonce |-> transfer.nonce]}]
                      /\ UNCHANGED <<stage, queue, gaveUp>>
                 ELSE ends(r, "failed") /\ gaveUp' = gaveUp \cup {AskedFor[r]}
     ELSE ends(r, "nonce refused") /\ gaveUp' = givesUp(r) /\ UNCHANGED <<pending, sent>>
  /\ UNCHANGED <<faucetCase, faucetSecond, takes, balances, minedNonces, reverted, taken>>

waits(r) ==
  /\ turn(r) /\ stage[r] = "sending" /\ nextDue(r) = {}
  /\ stage' = [stage EXCEPT ![r] = "waiting"] /\ running' = [running EXCEPT ![r].since = faucetSecond]
  /\ UNCHANGED <<faucetCase, faucetSecond, takes, queue, tokenSide, faucetHistory>>

allMined(r) == \A s \in running[r].sends : s.nonce < minedNonces

outcome(r) == IF \E s \in running[r].sends : s.nonce \in reverted THEN "reverted" ELSE "sent"

receipts(r) ==
  /\ turn(r) /\ stage[r] = "waiting"
  /\ \/ allMined(r) /\ ends(r, outcome(r)) /\ UNCHANGED gaveUp
     \/ ~allMined(r) /\ faucetSecond >= running[r].since + ReceiptWait /\ ends(r, "failed") /\ gaveUp' = givesUp(r)
  /\ UNCHANGED <<faucetCase, faucetSecond, takes, tokenSide, taken, sent>>

\* Any read or send of the task may throw; what was sent stays sent.
taskThrows(r) ==
  /\ turn(r) /\ stage[r] \in {"queued", "held", "read", "sending"}
  /\ ends(r, "failed") /\ gaveUp' = givesUp(r)
  /\ UNCHANGED <<faucetCase, faucetSecond, takes, tokenSide, taken, sent>>

\* The process ends and is started again: the windows, the queue and the tasks are
\* gone, and so is every request that had not been answered.
FaucetRestarts ==
  /\ faucetCase.restarts /\ takes # [k \in WindowKeys |-> <<>>]
  /\ takes' = [k \in WindowKeys |-> <<>>] /\ taken' = takes'
  /\ stage' = [r \in Asks |-> IF r \in Range(queue) THEN "failed" ELSE stage[r]]
  /\ queue' = <<>> /\ running' = [r \in Asks |-> Idle]
  /\ gaveUp' = gaveUp \cup {AskedFor[r] : r \in {q \in Asks : running[q].sends # {}}}
  /\ UNCHANGED <<faucetCase, faucetSecond, tokenSide, sent>>

---------------------------------------------------------------------------
\* A transfer that reverts uses its nonce and moves nothing.
TransferMined ==
  \E p \in pending :
    /\ p.nonce = minedNonces
    /\ minedNonces' = minedNonces + 1 /\ pending' = pending \ {p}
    /\ \/ balances' = [balances EXCEPT ![p.to][p.asset] = @ + p.amount] /\ UNCHANGED reverted
       \/ Cardinality(reverted) < faucetCase.reverts /\ reverted' = reverted \cup {p.nonce} /\ UNCHANGED balances
    /\ UNCHANGED <<faucetCase, faucetSecond, requestSide, faucetHistory>>

FaucetSecondPasses ==
  /\ faucetSecond < FaucetHorizon /\ faucetSecond' = faucetSecond + 1
  /\ UNCHANGED <<faucetCase, requestSide, tokenSide, faucetHistory>>

FaucetNext ==
  \/ \E r \in Asks :
       \/ POSTfaucet(r) \/ readHeld(r) \/ readOwn(r) \/ countNonces(r) \/ waits(r) \/ receipts(r) \/ taskThrows(r)
       \/ \E answered \in BOOLEAN : sendNext(r, answered)
  \/ FaucetRestarts \/ TransferMined \/ FaucetSecondPasses

FaucetSpec == FaucetInit /\ [][FaucetNext]_faucetVars

---------------------------------------------------------------------------
\* The queue holds the requests being served, and only sent transfers are mined.
FaucetTypeOK ==
  /\ stage \in [Asks -> {"idle", "limited", "queued", "held", "read", "sending", "waiting", "sent", "reverted", "failed",
                      "out of coins", "nonce refused"}]
  /\ {r \in Asks : stage[r] \in {"queued", "held", "read", "sending", "waiting"}} = Range(queue)
  /\ minedNonces \in 0..Cardinality(sent) /\ pending \subseteq sent

amountOf == [p \in pending |-> p.amount]
coming(a, x) == SumFunctionOnSet(amountOf, {p \in pending : p.to = a /\ p.asset = x})

\* "An address that already holds the target is sent nothing, so repeating the call
\* costs the faucet nothing": whatever an account's requests send it, together with
\* what it held, is within the target, unless a request gave up on a transfer that
\* was already sent: the next reads the balance before that one is mined.
ToppedUpOnce ==
  \A a \in Accounts \ gaveUp : \A i \in DOMAIN FaucetAssets :
    LET x == FaucetAssets[i]
    IN  balances[a][x] + coming(a, x) <= IF faucetCase.held > Targets[x] /\ i # 1 THEN faucetCase.held ELSE Targets[x]

\* "One request at a time, so two of them never pick the same nonce": no transfer
\* is refused for its nonce, whatever the requests before it left in the pool.
NeverCollides == \A r \in Asks : stage[r] # "nonce refused"

\* At most the limit of a client or of an account is taken in any hour of a process.
WindowsBound ==
  \A k \in WindowKeys : \A i \in DOMAIN taken[k] :
    Cardinality({j \in DOMAIN taken[k] : taken[k][j] \in taken[k][i]..(taken[k][i] + Hour - 1)}) <= limitOf(k)

\* The faucet tops up, once, and within its limits (faucetRoutes).
FaucetHolds == FaucetTypeOK /\ ToppedUpOnce /\ NeverCollides /\ WindowsBound

=============================================================================
