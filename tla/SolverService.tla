--------------------------- MODULE SolverService ---------------------------
(***************************************************************************)
(* The solver as a service: run.ts with the submit half (send.ts), the     *)
(* finalize half (finalize.ts), the store a crash leaves behind (store.ts) *)
(* and what a restart does with it (recover.ts).                           *)
(*                                                                         *)
(* Every batch is a task of its own and every await of the code is a point *)
(* at which the chain, the other tasks, a crash or the wall clock may come *)
(* first.  task[b] names the await the task of b is in:                    *)
(*                                                                         *)
(*   feed -> window -> simulate -> send -> reply -> receipt                *)
(*        -> solveEnd -> ask -> finalize -> try -> confirm (-> retry)      *)
(*                                                                         *)
(* Settlement is seen through what the service asks of it: bestSolution,   *)
(* whether the batch is retired, and the receipts of two transactions.     *)
(* Which bytes were sent is left out: a batch is built once (SubmitsOnce), *)
(* so the hash in the store is the hash on chain exactly when both exist.  *)
(***************************************************************************)
EXTENDS Integers, FiniteSets

CONSTANTS
  SolverBatches,            \* batch ids, the second at which each stops collecting
  SolutionWindow,           \* SOLUTION_WINDOW
  FinalizeDeadline,         \* FINALIZE_DEADLINE
  MaxTracked,               \* MAX_TRACKED
  SolverHorizon,            \* bound: last chain second
  SolverCrashes,            \* bound: crashes
  SolverCases               \* bound: the batches that close and the outside
                            \* parts that act together, a set of pairs

SolverParts == {"rival", "others", "reads", "wall clock", "crash", "signal", "stream"}

ASSUME SolverAssumption ==
  /\ SolverBatches \subseteq Nat
  /\ SolverCases \subseteq (SUBSET SolverBatches) \X (SUBSET SolverParts)
  /\ {SolutionWindow, FinalizeDeadline, MaxTracked, SolverHorizon, SolverCrashes} \subseteq Nat

VARIABLES
  solverCase,   \* which batches close and which parts act, fixed at the start
  chainTime,    \* timestamp of the newest block
  best,         \* bestSolution: "none", "mine" or "rival"
  retired,      \* Settlement: "open", "settled", "unwound" or "expired"
  submitTx,     \* this solver's submit: "none", "pending" or its receipt
  finalizeTx,   \* this solver's last finalize, likewise
  sends,        \* history: submits broadcast per batch
  threw,        \* history: batches whose submit call threw
  published,    \* batches whose collect_closed frame went out
  up,           \* "off", "on", "stopping"
  crashes,
  record,       \* the store on disk: a status per batch, or "none"
  seen, inflight,
  attempt, head, \* the finalizer's attempt and the head it was made on
  task,         \* the await the task of a batch is in, "none" or "ended"
  line          \* the line recorded for a batch, or "none"

chainVars == <<chainTime, best, retired, submitTx, finalizeTx>>
memory == <<up, seen, inflight, attempt, head, task, line>>
solverVars == <<solverCase, chainVars, sends, threw, published, crashes, record, memory>>

solveEndOf(b) == b + SolutionWindow
deadlineOf(b) == solveEndOf(b) + FinalizeDeadline
OPEN == {"built", "submitted", "best"}
ReceiptsOfSubmit == {"best", "not_best", "reverted"}
ReceiptsOfFinalize == {"settled", "unwound", "reverted", "already"}

Acts(part) == part \in solverCase[2]

SolverInit ==
  /\ solverCase \in SolverCases
  /\ chainTime = 0
  /\ best = [b \in SolverBatches |-> "none"]
  /\ retired = [b \in SolverBatches |-> "open"]
  /\ submitTx = [b \in SolverBatches |-> "none"]
  /\ finalizeTx = [b \in SolverBatches |-> "none"]
  /\ sends = [b \in SolverBatches |-> 0]
  /\ threw = {}
  /\ published = {}
  /\ up = "on"
  /\ crashes = 0
  /\ record = [b \in SolverBatches |-> "none"]
  /\ seen = {}
  /\ inflight = {}
  /\ attempt = [b \in SolverBatches |-> 0]
  /\ head = [b \in SolverBatches |-> 0]
  /\ task = [b \in SolverBatches |-> "none"]
  /\ line = [b \in SolverBatches |-> "none"]

---------------------------------------------------------------------------
(* The chain and the other solvers.                                        *)

Block == /\ chainTime < SolverHorizon
         /\ chainTime' = chainTime + 1
         /\ UNCHANGED <<best, retired, submitTx, finalizeTx, sends, threw, published, crashes, record, memory>>

InWindow(b) == b < chainTime /\ chainTime <= solveEndOf(b)

RivalSubmits(b) ==
  /\ Acts("rival") /\ InWindow(b) /\ best[b] # "rival"
  /\ best' = [best EXCEPT ![b] = "rival"]
  /\ UNCHANGED <<chainTime, retired, submitTx, finalizeTx, sends, threw, published, crashes, record, memory>>

\* A submit that lands inside the window is the best, or refused for not being
\* the best, or reverts on what changed since the dry run; outside it reverts.
MineSubmit(b) ==
  /\ submitTx[b] = "pending"
  /\ \E r \in ReceiptsOfSubmit :
       /\ r = "best" => InWindow(b)
       /\ r = "not_best" => InWindow(b) /\ best[b] = "rival"
       /\ submitTx' = [submitTx EXCEPT ![b] = r]
       /\ best' = IF r = "best" THEN [best EXCEPT ![b] = "mine"] ELSE best
  /\ UNCHANGED <<chainTime, retired, finalizeTx, sends, threw, published, crashes, record, memory>>

CanFinalize(b) == best[b] # "none" /\ retired[b] = "open" /\ chainTime > solveEndOf(b)

MineFinalize(b) ==
  /\ finalizeTx[b] = "pending"
  /\ \E r \in ReceiptsOfFinalize :
       /\ (r = "already") = (retired[b] # "open")
       /\ r \in {"settled", "unwound"} => CanFinalize(b)
       /\ finalizeTx' = [finalizeTx EXCEPT ![b] = r]
       /\ retired' = IF r \in {"settled", "unwound"} THEN [retired EXCEPT ![b] = r] ELSE retired
  /\ UNCHANGED <<chainTime, best, submitTx, sends, threw, published, crashes, record, memory>>

OtherRetires(b) ==
  /\ Acts("others") /\ CanFinalize(b)
  /\ \E r \in {"settled", "unwound", "expired"} :
       /\ r = "expired" => chainTime > deadlineOf(b)
       /\ retired' = [retired EXCEPT ![b] = r]
  /\ UNCHANGED <<chainTime, best, submitTx, finalizeTx, sends, threw, published, crashes, record, memory>>

---------------------------------------------------------------------------
(* run.ts.  A task that ends records one line, unless the backstop did.    *)

recordsLine(b, status) == IF b \in inflight THEN [line EXCEPT ![b] = status] ELSE line

Ends(b, status) ==
  /\ task' = [task EXCEPT ![b] = "ended"]
  /\ line' = recordsLine(b, status)
  /\ inflight' = inflight \ {b}

Goes(b, step) == task' = [task EXCEPT ![b] = step] /\ UNCHANGED <<line, inflight>>

Writes(b, status) == record' = [record EXCEPT ![b] = status]

In(b, step) == up # "off" /\ task[b] = step

\* What every step of a task leaves alone.
Aside == UNCHANGED <<chainTime, best, retired, threw, published, up, crashes, seen>>

\* The coordinator says a batch closed, once.  A solver that is down or between
\* two connections never hears of it.
onFrame(b) ==
  /\ b \in solverCase[1] \ published /\ chainTime > b
  /\ published' = published \cup {b}
  /\ \E heard \in BOOLEAN :
       /\ heard \/ Acts("stream")
       /\ IF heard /\ up = "on" /\ b \notin seen
            THEN /\ seen' = seen \cup {b}
                 /\ IF Cardinality(inflight) >= MaxTracked
                      THEN /\ line' = [line EXCEPT ![b] = "abandoned"]
                           /\ UNCHANGED <<task, inflight>>
                      ELSE /\ task' = [task EXCEPT ![b] = "feed"]
                           /\ inflight' = inflight \cup {b}
                           /\ UNCHANGED line
            ELSE UNCHANGED <<seen, line, task, inflight>>
  /\ UNCHANGED <<chainVars, sends, threw, up, crashes, record, attempt, head>>

\* The feed, the usable intents, the plan and the preflight only read.
readFeed(b) ==
  /\ In(b, "feed")
  /\ \/ \E status \in {"empty", "infeasible", "error"} : Ends(b, status)
     \/ Goes(b, "window")
  /\ Aside /\ UNCHANGED <<submitTx, finalizeTx, sends, record, attempt, head>>

checkWindow(b) ==
  /\ In(b, "window")
  /\ IF chainTime > solveEndOf(b) THEN Ends(b, "window_missed") ELSE Goes(b, "simulate")
  /\ Aside /\ UNCHANGED <<submitTx, finalizeTx, sends, record, attempt, head>>

\* The dry run on the newest block, and the record before anything leaves.
simulate(b) ==
  /\ In(b, "simulate")
  /\ \/ Ends(b, "simulation_reverted") /\ UNCHANGED record
     \/ InWindow(b) /\ Writes(b, "built") /\ Goes(b, "send")
  /\ Aside /\ UNCHANGED <<submitTx, finalizeTx, sends, attempt, head>>

sendSubmit(b) ==
  /\ In(b, "send")
  /\ Goes(b, "reply")
  /\ \E sent \in BOOLEAN :
       /\ submitTx' = IF sent THEN [submitTx EXCEPT ![b] = "pending"] ELSE submitTx
       /\ sends' = IF sent THEN [sends EXCEPT ![b] = @ + 1] ELSE sends
  /\ Aside /\ UNCHANGED <<finalizeTx, record, attempt, head>>

\* A call that throws, whether or not the node took the transaction, is
\* recorded as abandoned.
sendReplies(b) ==
  /\ In(b, "reply")
  /\ \/ submitTx[b] # "none" /\ Writes(b, "submitted") /\ Goes(b, "receipt") /\ UNCHANGED threw
     \/ Writes(b, "abandoned") /\ Ends(b, "submit_reverted") /\ threw' = threw \cup {b}
  /\ UNCHANGED <<chainVars, sends, published, up, crashes, seen, attempt, head>>

\* Mutant: a receipt that does not come in time counts as a failed submit.
lateReceiptGivesUp(b) == Writes(b, "abandoned")

\* No receipt in time: the record stays open and the finalizer will ask.
lateReceipt(b) == UNCHANGED record

receiptOfSubmit(b) ==
  /\ In(b, "receipt")
  /\ \/ submitTx[b] = "reverted" /\ Writes(b, "abandoned") /\ Ends(b, "submit_reverted")
     \/ submitTx[b] = "not_best" /\ Writes(b, "not_best") /\ Ends(b, "not_best")
     \/ submitTx[b] = "best" /\ Writes(b, "best") /\ Goes(b, "solveEnd")
     \/ lateReceipt(b) /\ Goes(b, "solveEnd")
  /\ Aside /\ UNCHANGED <<submitTx, finalizeTx, sends, attempt, head>>

---------------------------------------------------------------------------
(* finalize.ts.  done writes the store before the line is recorded.        *)

Done(b, status) == Writes(b, status) /\ Ends(b, status)

\* Mutant: the end is one block and not every block after it.
windowOverOnce(b) == chainTime = solveEndOf(b) + 1

windowOver(b) == chainTime > solveEndOf(b)

untilSolveEnd(b) ==
  /\ In(b, "solveEnd") /\ windowOver(b)
  /\ IF chainTime > deadlineOf(b) THEN Done(b, "abandoned") ELSE Goes(b, "ask") /\ UNCHANGED record
  /\ Aside /\ UNCHANGED <<submitTx, finalizeTx, sends, attempt, head>>

askBest(b) ==
  /\ In(b, "ask")
  /\ IF best[b] # "mine" THEN Done(b, "not_best") ELSE Goes(b, "finalize") /\ UNCHANGED record
  /\ attempt' = [attempt EXCEPT ![b] = 0]
  /\ Aside /\ UNCHANGED <<submitTx, finalizeTx, sends, head>>

\* The first attempt that fails waits for another block, the second is the last.
Fails(b) ==
  IF attempt[b] = 1
    THEN Done(b, "finalize_reverted") /\ UNCHANGED attempt
    ELSE /\ Goes(b, "retry")
         /\ attempt' = [attempt EXCEPT ![b] = 1]
         /\ UNCHANGED record

\* The head, then the dry run and the send.  The dry run names a batch retired
\* already; a send may fail with the transaction taken or not.
readHead(b) ==
  /\ In(b, "finalize")
  /\ IF chainTime > deadlineOf(b)
       THEN Done(b, "abandoned") /\ UNCHANGED head
       ELSE Goes(b, "try") /\ head' = [head EXCEPT ![b] = chainTime] /\ UNCHANGED record
  /\ Aside /\ UNCHANGED <<submitTx, finalizeTx, sends, attempt>>

tryFinalize(b) ==
  /\ In(b, "try")
  /\ \/ retired[b] # "open" /\ Done(b, "finalized_by_other") /\ UNCHANGED <<attempt, finalizeTx>>
     \/ retired[b] = "open" /\ Fails(b) /\ UNCHANGED finalizeTx
     \/ /\ retired[b] = "open"
        /\ finalizeTx' = [finalizeTx EXCEPT ![b] = "pending"]
        /\ Fails(b) \/ (Goes(b, "confirm") /\ UNCHANGED <<record, attempt>>)
  /\ Aside /\ UNCHANGED <<submitTx, sends, head>>

\* A receipt that does not come throws out of the task: the record stays open.
confirm(b) ==
  /\ In(b, "confirm")
  /\ \/ finalizeTx[b] = "settled" /\ Done(b, "finalized") /\ UNCHANGED attempt
     \/ finalizeTx[b] = "unwound" /\ Done(b, "finalized_passthrough") /\ UNCHANGED attempt
     \/ finalizeTx[b] = "already" /\ Done(b, "finalized_by_other") /\ UNCHANGED attempt
     \/ finalizeTx[b] = "reverted" /\ Fails(b)
     \/ Ends(b, "error") /\ UNCHANGED <<record, attempt>>
  /\ Aside /\ UNCHANGED <<submitTx, finalizeTx, sends, head>>

\* The next block, or the deadline.
untilNextBlock(b) ==
  /\ In(b, "retry") /\ chainTime > head[b]
  /\ IF chainTime > deadlineOf(b) THEN Done(b, "abandoned") ELSE Goes(b, "finalize") /\ UNCHANGED record
  /\ Aside /\ UNCHANGED <<submitTx, finalizeTx, sends, attempt, head>>

\* A read that fails throws out of the task; the record stays as it is.
taskThrows(b) ==
  /\ Acts("reads") /\ up # "off" /\ task[b] \in {"window", "receipt", "solveEnd", "ask", "finalize", "retry"}
  /\ Ends(b, "error")
  /\ Aside /\ UNCHANGED <<submitTx, finalizeTx, sends, record, attempt, head>>

---------------------------------------------------------------------------
(* The wall clock, the end of the process and its return.                  *)

\* withBackstop: the line is recorded, the task itself runs on.
backstop(b) ==
  /\ Acts("wall clock") /\ up # "off" /\ b \in inflight
  /\ line' = [line EXCEPT ![b] = "abandoned"]
  /\ inflight' = inflight \ {b}
  /\ UNCHANGED <<chainVars, sends, threw, published, up, crashes, record, seen, attempt, head, task>>

stop == /\ Acts("signal") /\ up = "on"
        /\ up' = "stopping"
        /\ UNCHANGED <<chainVars, sends, threw, published, crashes, record, seen, inflight, attempt, head, task, line>>

Gone == /\ up' = "off"
        /\ seen' = {}
        /\ inflight' = {}
        /\ attempt' = [b \in SolverBatches |-> 0]
        /\ head' = [b \in SolverBatches |-> 0]
        /\ task' = [b \in SolverBatches |-> "none"]
        /\ line' = [b \in SolverBatches |-> "none"]
        /\ UNCHANGED <<chainVars, sends, threw, published, record>>

exit == up = "stopping" /\ inflight = {} /\ Gone /\ UNCHANGED crashes

crash == /\ Acts("crash") /\ up # "off" /\ crashes < SolverCrashes
         /\ crashes' = crashes + 1
         /\ Gone

resumesAt == "solveEnd"

\* Records that may be a winner go to the finalizer, all of them, past the cap.
Recovered == {b \in SolverBatches : record[b] \in OPEN}
TooLate == {b \in Recovered : chainTime > deadlineOf(b)}

recover ==
  /\ up = "off" /\ up' = "on"
  /\ record' = [b \in SolverBatches |-> IF b \in TooLate THEN "abandoned" ELSE record[b]]
  /\ task' = [b \in SolverBatches |-> CASE b \in TooLate -> "ended"
                                        [] b \in Recovered \ TooLate -> resumesAt
                                        [] OTHER -> "none"]
  /\ line' = [b \in SolverBatches |-> IF b \in TooLate THEN "abandoned" ELSE "none"]
  /\ seen' = Recovered
  /\ inflight' = Recovered \ TooLate
  /\ UNCHANGED <<chainVars, sends, threw, published, crashes, attempt, head>>

---------------------------------------------------------------------------
TaskStep(b) ==
  \/ readFeed(b) \/ checkWindow(b) \/ simulate(b) \/ sendSubmit(b) \/ sendReplies(b)
  \/ receiptOfSubmit(b) \/ untilSolveEnd(b) \/ askBest(b) \/ readHead(b)
  \/ tryFinalize(b) \/ confirm(b) \/ untilNextBlock(b)

SolverNext ==
  /\ UNCHANGED solverCase
  /\ \/ Block \/ stop \/ exit \/ crash \/ recover
     \/ \E b \in SolverBatches :
          \/ RivalSubmits(b) \/ MineSubmit(b) \/ MineFinalize(b) \/ OtherRetires(b)
          \/ onFrame(b) \/ TaskStep(b) \/ taskThrows(b) \/ backstop(b)

\* Blocks come, and a task that can take a step takes it.  Nothing is assumed
\* of the miners, of the other solvers, of the backstop or of a restart.
SolverFair == /\ WF_solverVars(Block /\ UNCHANGED solverCase)
              /\ \A b \in SolverBatches : WF_solverVars(TaskStep(b) /\ UNCHANGED solverCase)

SolverSpec == SolverInit /\ [][SolverNext]_solverVars /\ SolverFair

---------------------------------------------------------------------------
(* Properties.                                                             *)

\* A batch is submitted once (run.ts), over crashes too: a record found at
\* "built" is asked about, never sent again.
SubmitsOnce == \A b \in SolverBatches : sends[b] <= 1

\* While a batch this solver won can still be finalized in time, the record on
\* disk is one that a restart hands to the finalizer (recover.ts), whatever
\* the process was doing when it died.  Two ends are final by design: a submit
\* call that threw, and a second revert.
WonStaysRecoverable ==
  \A b \in SolverBatches \ threw :
    best[b] = "mine" /\ retired[b] = "open" /\ chainTime <= deadlineOf(b)
      => record[b] \in OPEN \cup {"finalize_reverted"}

\* What the store says of an ended batch is what the chain did with it, a
\* finalize is only ever sent for a batch this solver won, and nothing is sent
\* again because a record was found open (store.ts, finalize.ts, recover.ts).
RecordsTellTruth ==
  /\ SubmitsOnce
  /\ \A b \in SolverBatches :
       /\ record[b] = "not_best" => best[b] # "mine"
       /\ record[b] = "finalized" => retired[b] = "settled"
       /\ record[b] = "finalized_passthrough" => retired[b] = "unwound"
       /\ record[b] = "finalized_by_other" => retired[b] # "open"
       /\ finalizeTx[b] # "none" => best[b] = "mine"

\* The store loses no batch that can still be finalized and says what happened
\* (store.ts, recover.ts).
StoreKept == WonStaysRecoverable /\ RecordsTellTruth

\* No task outlives its batch: with blocks coming, whatever is in flight ends
\* by its own steps, without the wall clock backstop (track, finalizeWon).
TasksEnd == []<>(inflight = {})
===========================================================================
