--------------------------- MODULE ServicesProofs ---------------------------
(***************************************************************************)
(* Theorems about the processes that act on what the chain does next: what *)
(* the solver's file says of a batch, over crashes, restarts, failed reads *)
(* and lost replies, and what a listener of the coordinator's stream hears *)
(* of the batches, the topics and the outcomes; and the owner's cards,     *)
(* which check what others check later.  For all values of the constants.  *)
(***************************************************************************)
EXTENDS SolverService, Lifecycle, OrderPath, SharedLemmas, TLAPS

----------------------------------------------------------------------------
(* The solver's file.                                                      *)

Finalizing == {"finalize", "try", "confirm", "retry"}
Steps == {"none", "ended", "feed", "window", "simulate", "send", "reply", "receipt", "solveEnd",
          "ask"} \cup Finalizing
Statuses == {"none", "not_best", "abandoned", "finalized", "finalized_passthrough",
             "finalized_by_other", "finalize_reverted"} \cup OPEN

SolverTypes ==
  /\ chainTime \in Nat
  /\ best \in [SolverBatches -> {"none", "mine", "rival"}]
  /\ retired \in [SolverBatches -> {"open", "settled", "unwound", "expired"}]
  /\ submitTx \in [SolverBatches -> {"none", "pending"} \cup ReceiptsOfSubmit]
  /\ finalizeTx \in [SolverBatches -> {"none", "pending"} \cup ReceiptsOfFinalize]
  /\ sends \in [SolverBatches -> Nat]
  /\ record \in [SolverBatches -> Statuses]
  /\ task \in [SolverBatches -> Steps]

\* Until a batch is announced the file has nothing of it, and until the file
\* has it nothing was sent.
SentInv(b) ==
  /\ b \notin published => record[b] = "none"
  /\ task[b] \in {"feed", "window", "simulate"} => b \in published /\ record[b] = "none"
  /\ task[b] \notin {"none", "ended", "feed", "window", "simulate"} => record[b] # "none"
  /\ task[b] = "send" => record[b] = "built" /\ sends[b] = 0
  /\ record[b] = "none" => sends[b] = 0
  /\ submitTx[b] # "none" => sends[b] = 1
  /\ sends[b] <= 1

\* A lead comes from a receipt, and a finalize from a lead that nobody can
\* take any more.
LeadInv(b) ==
  /\ best[b] = "mine" => submitTx[b] = "best"
  /\ task[b] \in {"ask"} \cup Finalizing => windowOver(b)
  /\ task[b] \in Finalizing \/ finalizeTx[b] # "none" => best[b] = "mine" /\ windowOver(b)
  /\ finalizeTx[b] = "settled" => retired[b] = "settled"
  /\ finalizeTx[b] = "unwound" => retired[b] = "unwound"
  /\ finalizeTx[b] = "already" => retired[b] # "open"

\* A closed record has a reason that stays.
ClosedInv(b) ==
  /\ record[b] = "not_best" => best[b] # "mine" /\ (submitTx[b] = "not_best" \/ windowOver(b))
  /\ record[b] = "abandoned" => b \in threw \/ submitTx[b] = "reverted" \/ chainTime > deadlineOf(b)
  /\ record[b] = "finalized" => retired[b] = "settled"
  /\ record[b] = "finalized_passthrough" => retired[b] = "unwound"
  /\ record[b] = "finalized_by_other" => retired[b] # "open"

BatchInv(b) == SentInv(b) /\ LeadInv(b) /\ ClosedInv(b)
SolverInv == SolverTypes /\ \A b \in SolverBatches : BatchInv(b)

\* What the helpers of run.ts and finalize.ts do to one batch.
LEMMA TaskEnds ==
  ASSUME SolverTypes, NEW c \in SolverBatches, NEW status, Ends(c, status)
  PROVE  /\ task' \in [SolverBatches -> Steps] /\ task'[c] = "ended"
         /\ \A b \in SolverBatches : b # c => task'[b] = task[b]
BY DEF SolverTypes, Ends, Steps

LEMMA TaskGoes ==
  ASSUME SolverTypes, NEW c \in SolverBatches, NEW step \in Steps, Goes(c, step)
  PROVE  /\ task' \in [SolverBatches -> Steps] /\ task'[c] = step
         /\ \A b \in SolverBatches : b # c => task'[b] = task[b]
BY DEF SolverTypes, Goes

LEMMA RecordWritten ==
  ASSUME SolverTypes, NEW c \in SolverBatches, NEW status \in Statuses, Writes(c, status)
  PROVE  /\ record' \in [SolverBatches -> Statuses] /\ record'[c] = status
         /\ \A b \in SolverBatches : b # c => record'[b] = record[b]
BY DEF SolverTypes, Writes

LEMMA DoneWith ==
  ASSUME SolverTypes, NEW c \in SolverBatches, NEW status \in Statuses, Done(c, status)
  PROVE  /\ task' \in [SolverBatches -> Steps] /\ task'[c] = "ended"
         /\ record' \in [SolverBatches -> Statuses] /\ record'[c] = status
         /\ \A b \in SolverBatches : b # c => task'[b] = task[b] /\ record'[b] = record[b]
BY TaskEnds, RecordWritten DEF Done

LEMMA FailsOnce ==
  ASSUME SolverTypes, NEW c \in SolverBatches, Fails(c)
  PROVE  /\ task' \in [SolverBatches -> Steps] /\ record' \in [SolverBatches -> Statuses]
         /\ \/ task'[c] = "ended" /\ record'[c] = "finalize_reverted"
            \/ task'[c] = "retry" /\ record'[c] = record[c]
         /\ \A b \in SolverBatches : b # c => task'[b] = task[b] /\ record'[b] = record[b]
<1>1. "finalize_reverted" \in Statuses /\ "retry" \in Steps
  BY DEF Statuses, Steps, Finalizing
<1>2. CASE attempt[c] = 1
  BY <1>1, <1>2, DoneWith DEF Fails
<1>3. CASE attempt[c] # 1
  <2>1. Goes(c, "retry") /\ record' = record
    BY <1>3 DEF Fails
  <2>2. QED  BY <1>1, <2>1, TaskGoes DEF SolverTypes
<1>4. QED  BY <1>2, <1>3

\* A batch nobody touched, with the same clock, stays as it was.
Same(b) ==
  /\ best'[b] = best[b] /\ retired'[b] = retired[b]
  /\ submitTx'[b] = submitTx[b] /\ finalizeTx'[b] = finalizeTx[b] /\ sends'[b] = sends[b]
  /\ record'[b] = record[b] /\ task'[b] = task[b]

LEMMA Untouched ==
  ASSUME NEW b \in SolverBatches, BatchInv(b), Same(b), chainTime' = chainTime,
         published \subseteq published', threw \subseteq threw'
  PROVE  BatchInv(b)'
BY DEF BatchInv, Same, SentInv, LeadInv, ClosedInv, windowOver


\* A step of the task of c leaves the chain and the other batches alone.
TaskOnly(c) ==
  /\ UNCHANGED <<chainTime, best, retired, published>> /\ threw \subseteq threw'
  /\ \A b \in SolverBatches \ {c} : Same(b)

LEMMA TaskKeeps ==
  ASSUME SolverInv, NEW c \in SolverBatches, TaskOnly(c), SolverTypes', BatchInv(c)'
  PROVE  SolverInv'
<1>1. ASSUME NEW b \in SolverBatches PROVE BatchInv(b)'
  <2>1. CASE b = c
    BY <2>1
  <2>2. CASE b # c
    BY <2>2, Untouched DEF SolverInv, TaskOnly
  <2>3. QED  BY <2>1, <2>2
<1>2. QED  BY <1>1 DEF SolverInv

LEMMA ReadFeedKeeps ==
  ASSUME SolverInv, NEW c \in SolverBatches, readFeed(c)
  PROVE  SolverInv'
<1>1. SolverTypes /\ BatchInv(c)
  BY DEF SolverInv
<1>2. /\ TaskOnly(c) /\ SolverTypes'
      /\ UNCHANGED <<submitTx, finalizeTx, sends, threw>>
      /\ task[c] = "feed" /\ task'[c] \in {"ended", "window"} /\ record' = record
  BY <1>1, TaskEnds, TaskGoes
  DEF readFeed, In, Aside, Same, TaskOnly, SolverTypes, Steps, Statuses, OPEN, Finalizing
<1>3. BatchInv(c)'
  BY <1>1, <1>2 DEF TaskOnly, BatchInv, SentInv, LeadInv, ClosedInv, windowOver, Finalizing, OPEN
<1>4. QED  BY <1>2, <1>3, TaskKeeps

LEMMA CheckWindowKeeps ==
  ASSUME SolverInv, NEW c \in SolverBatches, checkWindow(c)
  PROVE  SolverInv'
<1>1. SolverTypes /\ BatchInv(c)
  BY DEF SolverInv
<1>2. /\ TaskOnly(c) /\ SolverTypes'
      /\ UNCHANGED <<submitTx, finalizeTx, sends, threw>>
      /\ task[c] = "window" /\ task'[c] \in {"ended", "simulate"} /\ record' = record
  BY <1>1, TaskEnds, TaskGoes
  DEF checkWindow, In, Aside, Same, TaskOnly, SolverTypes, Steps, Statuses, OPEN, Finalizing
<1>3. BatchInv(c)'
  BY <1>1, <1>2 DEF TaskOnly, BatchInv, SentInv, LeadInv, ClosedInv, windowOver, Finalizing
<1>4. QED  BY <1>2, <1>3, TaskKeeps

LEMMA SimulateKeeps ==
  ASSUME SolverInv, NEW c \in SolverBatches, simulate(c)
  PROVE  SolverInv'
<1>1. SolverTypes /\ BatchInv(c)
  BY DEF SolverInv
<1>2. /\ TaskOnly(c) /\ SolverTypes'
      /\ UNCHANGED <<submitTx, finalizeTx, sends, threw>>
      /\ task[c] = "simulate"
      /\ \/ task'[c] = "ended" /\ record'[c] = record[c]
         \/ task'[c] = "send" /\ record'[c] = "built"
  BY <1>1, TaskEnds, TaskGoes, RecordWritten
  DEF simulate, In, Aside, Same, TaskOnly, SolverTypes, Steps, Statuses, OPEN, Finalizing
<1>3. BatchInv(c)'
  BY <1>1, <1>2 DEF TaskOnly, BatchInv, SentInv, LeadInv, ClosedInv, windowOver, Finalizing
<1>4. QED  BY <1>2, <1>3, TaskKeeps

LEMMA SendSubmitKeeps ==
  ASSUME SolverInv, NEW c \in SolverBatches, sendSubmit(c)
  PROVE  SolverInv'
<1>1. SolverTypes /\ BatchInv(c)
  BY DEF SolverInv
<1>2. /\ TaskOnly(c) /\ SolverTypes'
      /\ UNCHANGED <<finalizeTx, threw>> /\ record' = record
      /\ task[c] = "send" /\ task'[c] = "reply"
      /\ \/ submitTx'[c] = submitTx[c] /\ sends'[c] = sends[c]
         \/ submitTx'[c] = "pending" /\ sends'[c] = sends[c] + 1
  BY <1>1, TaskGoes
  DEF sendSubmit, In, Aside, Same, TaskOnly, SolverTypes, Steps, Statuses, OPEN, Finalizing
<1>3. BatchInv(c)'
  BY <1>1, <1>2 DEF TaskOnly, BatchInv, SentInv, LeadInv, ClosedInv, windowOver, Finalizing
<1>4. QED  BY <1>2, <1>3, TaskKeeps

LEMMA SendRepliesKeeps ==
  ASSUME SolverInv, NEW c \in SolverBatches, sendReplies(c)
  PROVE  SolverInv'
<1>1. SolverTypes /\ BatchInv(c)
  BY DEF SolverInv
<1>2. /\ TaskOnly(c) /\ SolverTypes'
      /\ UNCHANGED <<submitTx, finalizeTx, sends>>
      /\ task[c] = "reply"
      /\ \/ task'[c] = "receipt" /\ record'[c] = "submitted" /\ submitTx[c] # "none"
         \/ task'[c] = "ended" /\ record'[c] = "abandoned" /\ c \in threw'
  BY <1>1, TaskEnds, TaskGoes, RecordWritten
  DEF sendReplies, In, Aside, Same, TaskOnly, SolverTypes, Steps, Statuses, OPEN, Finalizing, chainVars
<1>3. BatchInv(c)'
  BY <1>1, <1>2 DEF TaskOnly, BatchInv, SentInv, LeadInv, ClosedInv, windowOver, Finalizing
<1>4. QED  BY <1>2, <1>3, TaskKeeps

LEMMA ReceiptOfSubmitKeeps ==
  ASSUME SolverInv, NEW c \in SolverBatches, receiptOfSubmit(c)
  PROVE  SolverInv'
<1>1. SolverTypes /\ BatchInv(c)
  BY DEF SolverInv
<1>2. /\ TaskOnly(c) /\ SolverTypes'
      /\ UNCHANGED <<submitTx, finalizeTx, sends, threw>>
      /\ task[c] = "receipt"
      /\ \/ /\ task'[c] = "ended" /\ submitTx[c] = "reverted" /\ record'[c] = "abandoned"
         \/ /\ task'[c] = "ended" /\ submitTx[c] = "not_best" /\ record'[c] = "not_best"
         \/ /\ task'[c] = "solveEnd" /\ submitTx[c] = "best" /\ record'[c] = "best"
         \/ /\ task'[c] = "solveEnd" /\ record'[c] = record[c]
  BY <1>1, TaskEnds, TaskGoes, RecordWritten
  DEF receiptOfSubmit, In, Aside, Same, TaskOnly, SolverTypes, Steps, Statuses, OPEN, Finalizing, lateReceipt
<1>3. BatchInv(c)'
  BY <1>1, <1>2 DEF TaskOnly, BatchInv, SentInv, LeadInv, ClosedInv, windowOver, Finalizing
<1>4. QED  BY <1>2, <1>3, TaskKeeps

LEMMA UntilSolveEndKeeps ==
  ASSUME SolverInv, NEW c \in SolverBatches, untilSolveEnd(c)
  PROVE  SolverInv'
<1>1. SolverTypes /\ BatchInv(c)
  BY DEF SolverInv
<1>2. /\ TaskOnly(c) /\ SolverTypes'
      /\ UNCHANGED <<submitTx, finalizeTx, sends, threw>>
      /\ task[c] = "solveEnd" /\ windowOver(c)
      /\ \/ task'[c] = "ended" /\ record'[c] = "abandoned" /\ chainTime > deadlineOf(c)
         \/ task'[c] = "ask" /\ record'[c] = record[c]
  BY <1>1, TaskGoes, DoneWith
  DEF untilSolveEnd, In, Aside, Same, TaskOnly, SolverTypes, Steps, Statuses, OPEN, Finalizing
<1>3. BatchInv(c)'
  BY <1>1, <1>2 DEF TaskOnly, BatchInv, SentInv, LeadInv, ClosedInv, windowOver, Finalizing
<1>4. QED  BY <1>2, <1>3, TaskKeeps

LEMMA AskBestKeeps ==
  ASSUME SolverInv, NEW c \in SolverBatches, askBest(c)
  PROVE  SolverInv'
<1>1. SolverTypes /\ BatchInv(c)
  BY DEF SolverInv
<1>2. /\ TaskOnly(c) /\ SolverTypes'
      /\ UNCHANGED <<submitTx, finalizeTx, sends, threw>>
      /\ task[c] = "ask"
      /\ \/ task'[c] = "ended" /\ record'[c] = "not_best" /\ best[c] # "mine"
         \/ task'[c] = "finalize" /\ record'[c] = record[c] /\ best[c] = "mine"
  BY <1>1, TaskGoes, DoneWith
  DEF askBest, In, Aside, Same, TaskOnly, SolverTypes, Steps, Statuses, OPEN, Finalizing
<1>3. BatchInv(c)'
  BY <1>1, <1>2 DEF TaskOnly, BatchInv, SentInv, LeadInv, ClosedInv, windowOver, Finalizing
<1>4. QED  BY <1>2, <1>3, TaskKeeps

LEMMA ReadHeadKeeps ==
  ASSUME SolverInv, NEW c \in SolverBatches, readHead(c)
  PROVE  SolverInv'
<1>1. SolverTypes /\ BatchInv(c)
  BY DEF SolverInv
<1>2. /\ TaskOnly(c) /\ SolverTypes'
      /\ UNCHANGED <<submitTx, finalizeTx, sends, threw>>
      /\ task[c] = "finalize"
      /\ \/ task'[c] = "ended" /\ record'[c] = "abandoned" /\ chainTime > deadlineOf(c)
         \/ task'[c] = "try" /\ record'[c] = record[c]
  BY <1>1, TaskGoes, DoneWith
  DEF readHead, In, Aside, Same, TaskOnly, SolverTypes, Steps, Statuses, OPEN, Finalizing
<1>3. BatchInv(c)'
  BY <1>1, <1>2 DEF TaskOnly, BatchInv, SentInv, LeadInv, ClosedInv, windowOver, Finalizing
<1>4. QED  BY <1>2, <1>3, TaskKeeps

LEMMA TryFinalizeKeeps ==
  ASSUME SolverInv, NEW c \in SolverBatches, tryFinalize(c)
  PROVE  SolverInv'
<1>1. SolverTypes /\ BatchInv(c)
  BY DEF SolverInv
<1>2. /\ TaskOnly(c) /\ SolverTypes'
      /\ UNCHANGED <<submitTx, sends, threw>>
      /\ task[c] = "try" /\ finalizeTx'[c] \in {finalizeTx[c], "pending"}
      /\ \/ /\ task'[c] = "ended" /\ record'[c] = "finalized_by_other" /\ retired[c] # "open"
         \/ task'[c] = "ended" /\ record'[c] = "finalize_reverted"
         \/ task'[c] \in {"retry", "confirm"} /\ record'[c] = record[c]
  BY <1>1, TaskGoes, DoneWith, FailsOnce
  DEF tryFinalize, In, Aside, Same, TaskOnly, SolverTypes, Steps, Statuses, OPEN, Finalizing
<1>3. BatchInv(c)'
  BY <1>1, <1>2 DEF TaskOnly, BatchInv, SentInv, LeadInv, ClosedInv, windowOver, Finalizing
<1>4. QED  BY <1>2, <1>3, TaskKeeps

LEMMA ConfirmKeeps ==
  ASSUME SolverInv, NEW c \in SolverBatches, confirm(c)
  PROVE  SolverInv'
<1>1. SolverTypes /\ BatchInv(c)
  BY DEF SolverInv
<1>2. /\ TaskOnly(c) /\ SolverTypes'
      /\ UNCHANGED <<submitTx, finalizeTx, sends, threw>>
      /\ task[c] = "confirm"
      /\ \/ /\ task'[c] = "ended" /\ record'[c] = "finalized" /\ finalizeTx[c] = "settled"
         \/ /\ task'[c] = "ended" /\ record'[c] = "finalized_passthrough" /\ finalizeTx[c] = "unwound"
         \/ /\ task'[c] = "ended" /\ record'[c] = "finalized_by_other" /\ finalizeTx[c] = "already"
         \/ task'[c] = "ended" /\ record'[c] = "finalize_reverted"
         \/ task'[c] \in {"ended", "retry"} /\ record'[c] = record[c]
  BY <1>1, TaskEnds, DoneWith, FailsOnce
  DEF confirm, In, Aside, Same, TaskOnly, SolverTypes, Steps, Statuses, OPEN, Finalizing
<1>3. BatchInv(c)'
  BY <1>1, <1>2 DEF TaskOnly, BatchInv, SentInv, LeadInv, ClosedInv, windowOver, Finalizing
<1>4. QED  BY <1>2, <1>3, TaskKeeps

LEMMA UntilNextBlockKeeps ==
  ASSUME SolverInv, NEW c \in SolverBatches, untilNextBlock(c)
  PROVE  SolverInv'
<1>1. SolverTypes /\ BatchInv(c)
  BY DEF SolverInv
<1>2. /\ TaskOnly(c) /\ SolverTypes'
      /\ UNCHANGED <<submitTx, finalizeTx, sends, threw>>
      /\ task[c] = "retry"
      /\ \/ task'[c] = "ended" /\ record'[c] = "abandoned" /\ chainTime > deadlineOf(c)
         \/ task'[c] = "finalize" /\ record'[c] = record[c]
  BY <1>1, TaskGoes, DoneWith
  DEF untilNextBlock, In, Aside, Same, TaskOnly, SolverTypes, Steps, Statuses, OPEN, Finalizing
<1>3. BatchInv(c)'
  BY <1>1, <1>2 DEF TaskOnly, BatchInv, SentInv, LeadInv, ClosedInv, windowOver, Finalizing
<1>4. QED  BY <1>2, <1>3, TaskKeeps

LEMMA TaskThrowsKeeps ==
  ASSUME SolverInv, NEW c \in SolverBatches, taskThrows(c)
  PROVE  SolverInv'
<1>1. SolverTypes /\ BatchInv(c)
  BY DEF SolverInv
<1>2. /\ TaskOnly(c) /\ SolverTypes'
      /\ UNCHANGED <<submitTx, finalizeTx, sends, threw>>
      /\ task'[c] = "ended" /\ record' = record
  BY <1>1, TaskEnds
  DEF taskThrows, In, Aside, Same, TaskOnly, SolverTypes, Steps, Statuses, OPEN, Finalizing
<1>3. BatchInv(c)'
  BY <1>1, <1>2 DEF TaskOnly, BatchInv, SentInv, LeadInv, ClosedInv, windowOver, Finalizing
<1>4. QED  BY <1>2, <1>3, TaskKeeps

\* The wall clock records a line and lets the task run on.
LEMMA BackstopKeeps ==
  ASSUME SolverInv, NEW c \in SolverBatches, backstop(c)
  PROVE  SolverInv'
<1>1. SolverTypes' /\ TaskOnly(c) /\ Same(c)
  BY DEF SolverInv, SolverTypes, backstop, chainVars, TaskOnly, Same
<1>2. BatchInv(c)'
  BY <1>1, Untouched DEF SolverInv, TaskOnly
<1>3. QED  BY <1>1, <1>2, TaskKeeps

\* A task begins with a batch that was never announced before.
LEMMA OnFrameKeeps ==
  ASSUME SolverInv, NEW c \in SolverBatches, onFrame(c)
  PROVE  SolverInv'
<1>1. /\ SolverTypes' /\ published' = published \cup {c}
      /\ UNCHANGED <<chainTime, best, retired, submitTx, finalizeTx, sends, record, threw>>
      /\ \A b \in SolverBatches \ {c} : task'[b] = task[b]
      /\ task'[c] \in {task[c], "feed"} /\ c \notin published
  BY DEF SolverInv, SolverTypes, onFrame, chainVars, Steps
<1>2. ASSUME NEW b \in SolverBatches PROVE BatchInv(b)'
  <2>1. CASE b = c
    BY <1>1, <2>1 DEF SolverInv, BatchInv, SentInv, LeadInv, ClosedInv, windowOver, Finalizing
  <2>2. CASE b # c
    BY <1>1, <2>2, Untouched DEF SolverInv, Same
  <2>3. QED  BY <2>1, <2>2
<1>3. QED  BY <1>1, <1>2 DEF SolverInv

----------------------------------------------------------------------------
(* The chain: what it does with a batch, seen from the file.               *)

\* A step of the chain at batch c.
ChainAt(c) ==
  /\ UNCHANGED <<chainTime, sends, threw, published, record, task>>
  /\ \A b \in SolverBatches \ {c} : Same(b)

LEMMA ChainKeeps ==
  ASSUME SolverInv, NEW c \in SolverBatches, ChainAt(c), SolverTypes', BatchInv(c)'
  PROVE  SolverInv'
<1>1. ASSUME NEW b \in SolverBatches PROVE BatchInv(b)'
  <2>1. CASE b = c
    BY <2>1
  <2>2. CASE b # c
    BY <2>2, Untouched DEF SolverInv, ChainAt
  <2>3. QED  BY <2>1, <2>2
<1>2. QED  BY <1>1 DEF SolverInv

\* The window is still open, so the task of c has not asked yet.
LEMMA RivalSubmitsKeeps ==
  ASSUME SolverInv, NEW c \in SolverBatches, RivalSubmits(c)
  PROVE  SolverInv'
<1>1. SolverTypes /\ BatchInv(c)
  BY DEF SolverInv
<1>2. /\ ChainAt(c) /\ SolverTypes' /\ UNCHANGED <<retired, submitTx, finalizeTx>>
      /\ best'[c] = "rival" /\ chainTime <= solveEndOf(c)
  BY <1>1 DEF RivalSubmits, InWindow, memory, ChainAt, Same, SolverTypes
<1>3. ~windowOver(c)
  BY <1>1, <1>2, SolverAssumption DEF SolverTypes, windowOver, solveEndOf
<1>4. BatchInv(c)'
  BY <1>1, <1>2, <1>3 DEF ChainAt, BatchInv, SentInv, LeadInv, ClosedInv, windowOver
<1>5. QED  BY <1>2, <1>4, ChainKeeps

\* A pending submit gets its receipt; a record already closed had another
\* reason than a receipt, and one that holds.
LEMMA MineSubmitKeeps ==
  ASSUME SolverInv, NEW c \in SolverBatches, MineSubmit(c)
  PROVE  SolverInv'
<1>1. SolverTypes /\ BatchInv(c)
  BY DEF SolverInv
<1>2. PICK r \in ReceiptsOfSubmit :
        /\ r = "best" => InWindow(c)
        /\ r = "not_best" => InWindow(c) /\ best[c] = "rival"
        /\ submitTx' = [submitTx EXCEPT ![c] = r]
        /\ best' = IF r = "best" THEN [best EXCEPT ![c] = "mine"] ELSE best
  BY DEF MineSubmit
<1>3. /\ ChainAt(c) /\ SolverTypes' /\ UNCHANGED <<retired, finalizeTx>>
      /\ submitTx[c] = "pending" /\ submitTx'[c] = r
      /\ best'[c] = IF r = "best" THEN "mine" ELSE best[c]
  BY <1>1, <1>2 DEF MineSubmit, memory, ChainAt, Same, SolverTypes, ReceiptsOfSubmit
<1>4. r = "best" => ~windowOver(c)
  BY <1>1, <1>2, SolverAssumption DEF SolverTypes, InWindow, windowOver, solveEndOf
<1>5. SentInv(c)' /\ LeadInv(c)'
  BY <1>1, <1>3, <1>4 DEF ChainAt, BatchInv, SentInv, LeadInv, windowOver, ReceiptsOfSubmit
<1>6. ClosedInv(c)'
  BY <1>1, <1>3, <1>4 DEF ChainAt, BatchInv, ClosedInv, windowOver, ReceiptsOfSubmit
<1>7. QED  BY <1>3, <1>5, <1>6, ChainKeeps DEF BatchInv

LEMMA MineFinalizeKeeps ==
  ASSUME SolverInv, NEW c \in SolverBatches, MineFinalize(c)
  PROVE  SolverInv'
<1>1. SolverTypes /\ BatchInv(c)
  BY DEF SolverInv
<1>2. PICK r \in ReceiptsOfFinalize :
        /\ (r = "already") = (retired[c] # "open")
        /\ r \in {"settled", "unwound"} => CanFinalize(c)
        /\ finalizeTx' = [finalizeTx EXCEPT ![c] = r]
        /\ retired' = IF r \in {"settled", "unwound"} THEN [retired EXCEPT ![c] = r] ELSE retired
  BY DEF MineFinalize
<1>3. /\ ChainAt(c) /\ SolverTypes' /\ UNCHANGED <<best, submitTx>>
      /\ finalizeTx[c] = "pending" /\ finalizeTx'[c] = r
      /\ retired'[c] = IF r \in {"settled", "unwound"} THEN r ELSE retired[c]
      /\ r \in {"settled", "unwound"} => retired[c] = "open"
  BY <1>1, <1>2 DEF MineFinalize, CanFinalize, memory, ChainAt, Same, SolverTypes, ReceiptsOfFinalize
<1>4. BatchInv(c)'
  BY <1>1, <1>2, <1>3 DEF ChainAt, BatchInv, SentInv, LeadInv, ClosedInv, windowOver, ReceiptsOfFinalize
<1>5. QED  BY <1>3, <1>4, ChainKeeps

LEMMA OtherRetiresKeeps ==
  ASSUME SolverInv, NEW c \in SolverBatches, OtherRetires(c)
  PROVE  SolverInv'
<1>1. SolverTypes /\ BatchInv(c)
  BY DEF SolverInv
<1>2. /\ ChainAt(c) /\ SolverTypes' /\ UNCHANGED <<best, submitTx, finalizeTx>>
      /\ retired[c] = "open" /\ retired'[c] # "open"
  BY <1>1 DEF OtherRetires, CanFinalize, memory, ChainAt, Same, SolverTypes
<1>3. BatchInv(c)'
  BY <1>1, <1>2 DEF ChainAt, BatchInv, SentInv, LeadInv, ClosedInv, windowOver
<1>4. QED  BY <1>2, <1>3, ChainKeeps

\* Time only closes windows and passes deadlines.
LEMMA BlockKeeps ==
  ASSUME SolverInv, Block
  PROVE  SolverInv'
<1>1. /\ SolverTypes /\ chainTime' = chainTime + 1
      /\ UNCHANGED <<best, retired, submitTx, finalizeTx, sends, threw, published, record, task>>
  BY DEF SolverInv, Block, memory
<1>2. SolverTypes'
  BY <1>1 DEF SolverTypes
<1>3. ASSUME NEW b \in SolverBatches PROVE BatchInv(b)'
  <2>1. solveEndOf(b) \in Nat /\ deadlineOf(b) \in Nat /\ chainTime \in Nat
    BY <1>1, SolverAssumption DEF SolverTypes, solveEndOf, deadlineOf
  <2>2. BatchInv(b)
    BY DEF SolverInv
  <2>3. QED  BY <1>1, <2>1, <2>2 DEF BatchInv, SentInv, LeadInv, ClosedInv, windowOver
<1>4. QED  BY <1>2, <1>3 DEF SolverInv

----------------------------------------------------------------------------
(* The end of the process and its return.                                  *)

\* What the process had in memory is gone; the file is not.
LEMMA GoneKeeps ==
  ASSUME SolverInv, Gone
  PROVE  SolverInv'
<1>1. /\ SolverTypes' /\ \A b \in SolverBatches : task'[b] = "none"
      /\ UNCHANGED <<chainTime, best, retired, submitTx, finalizeTx, sends, threw, published, record>>
  BY DEF SolverInv, SolverTypes, Gone, chainVars, Steps
<1>2. ASSUME NEW b \in SolverBatches PROVE BatchInv(b)'
  BY <1>1 DEF SolverInv, BatchInv, SentInv, LeadInv, ClosedInv, windowOver, Finalizing
<1>3. QED  BY <1>1, <1>2 DEF SolverInv

\* A restart asks again about what the file left open, and gives up what is past
\* its deadline.
LEMMA RecoverKeeps ==
  ASSUME SolverInv, recover
  PROVE  SolverInv'
<1>1. /\ SolverTypes
      /\ UNCHANGED <<chainTime, best, retired, submitTx, finalizeTx, sends, threw, published>>
  BY DEF SolverInv, recover, chainVars
<1>2. ASSUME NEW b \in SolverBatches
      PROVE  \/ /\ task'[b] = "ended" /\ record'[b] = "abandoned"
                /\ chainTime > deadlineOf(b) /\ record[b] \in OPEN
             \/ task'[b] = "solveEnd" /\ record'[b] = record[b] /\ record[b] \in OPEN
             \/ task'[b] = "none" /\ record'[b] = record[b]
  BY DEF recover, TooLate, Recovered, resumesAt
<1>3. SolverTypes'
  <2>1. record' \in [SolverBatches -> Statuses]
    BY <1>1 DEF SolverTypes, recover, Statuses
  <2>2. task' \in [SolverBatches -> Steps]
    BY DEF recover, Steps, resumesAt
  <2>3. QED  BY <1>1, <2>1, <2>2 DEF SolverTypes
<1>4. ASSUME NEW b \in SolverBatches PROVE BatchInv(b)'
  BY <1>1, <1>2 DEF SolverInv, BatchInv, SentInv, LeadInv, ClosedInv, windowOver, OPEN, Finalizing
<1>5. QED  BY <1>3, <1>4 DEF SolverInv

LEMMA SolverStep == SolverInv /\ [SolverNext]_solverVars => SolverInv'
<1> SUFFICES ASSUME SolverInv, [SolverNext]_solverVars PROVE SolverInv'
  OBVIOUS
<1>1. CASE UNCHANGED solverVars
  <2>1. /\ UNCHANGED <<chainTime, best, retired, submitTx, finalizeTx, sends, threw, published,
                       record, task>>
    BY <1>1 DEF solverVars, chainVars, memory
  <2>2. QED  BY <2>1 DEF SolverInv, SolverTypes, BatchInv, SentInv, LeadInv, ClosedInv, windowOver
<1>2. CASE stop
  <2>1. UNCHANGED <<chainTime, best, retired, submitTx, finalizeTx, sends, threw, published,
                    record, task>>
    BY <1>2 DEF stop, chainVars
  <2>2. QED  BY <2>1 DEF SolverInv, SolverTypes, BatchInv, SentInv, LeadInv, ClosedInv, windowOver
<1>3. CASE Block \/ exit \/ crash \/ recover
  BY <1>3, BlockKeeps, GoneKeeps, RecoverKeeps DEF exit, crash
<1>4. ASSUME NEW c \in SolverBatches,
             RivalSubmits(c) \/ MineSubmit(c) \/ MineFinalize(c) \/ OtherRetires(c)
      PROVE  SolverInv'
  BY <1>4, RivalSubmitsKeeps, MineSubmitKeeps, MineFinalizeKeeps, OtherRetiresKeeps
<1>5. ASSUME NEW c \in SolverBatches, onFrame(c) \/ taskThrows(c) \/ backstop(c)
      PROVE  SolverInv'
  BY <1>5, OnFrameKeeps, TaskThrowsKeeps, BackstopKeeps
<1>6. ASSUME NEW c \in SolverBatches, TaskStep(c)
      PROVE  SolverInv'
  BY <1>6, ReadFeedKeeps, CheckWindowKeeps, SimulateKeeps, SendSubmitKeeps, SendRepliesKeeps,
     ReceiptOfSubmitKeeps, UntilSolveEndKeeps, AskBestKeeps, ReadHeadKeeps, TryFinalizeKeeps,
     ConfirmKeeps, UntilNextBlockKeeps
  DEF TaskStep
<1>7. QED  BY <1>1, <1>2, <1>3, <1>4, <1>5, <1>6 DEF SolverNext

LEMMA SolverStart == SolverInit => SolverInv
BY SolverAssumption
DEF SolverInit, SolverInv, SolverTypes, BatchInv, SentInv, LeadInv, ClosedInv, Steps, Statuses,
    Finalizing, windowOver

LEMMA FileImplies == SolverInv => StoreKept
<1> SUFFICES ASSUME SolverInv PROVE StoreKept
  OBVIOUS
<1>1. ASSUME NEW b \in SolverBatches \ threw,
             best[b] = "mine", retired[b] = "open", chainTime <= deadlineOf(b)
      PROVE  record[b] \in OPEN \cup {"finalize_reverted"}
  <2>1. SolverTypes /\ BatchInv(b)
    BY DEF SolverInv
  <2>2. record[b] \in Statuses /\ submitTx[b] = "best" /\ sends[b] = 1
    BY <1>1, <2>1 DEF SolverTypes, BatchInv, LeadInv, SentInv
  <2>3. ~(chainTime > deadlineOf(b))
    BY <1>1, <2>1, SolverAssumption DEF SolverTypes, deadlineOf, solveEndOf
  <2>4. QED  BY <1>1, <2>1, <2>2, <2>3 DEF BatchInv, SentInv, ClosedInv, Statuses
<1>2. WonStaysRecoverable
  BY <1>1 DEF WonStaysRecoverable
<1>3. RecordsTellTruth
  BY DEF SolverInv, BatchInv, SentInv, LeadInv, ClosedInv, RecordsTellTruth, SubmitsOnce
<1>4. QED  BY <1>2, <1>3 DEF StoreKept

\* Whatever step the process dies at, a batch it won and can still finalize has a
\* record that a restart takes up; a closed record says what the chain did; and no
\* batch is submitted twice (run.ts, send.ts, finalize.ts, store.ts, recover.ts).
THEOREM StoreAlwaysKept == SolverSpec => []StoreKept
<1>1. SolverSpec => []SolverInv
  BY SolverStart, SolverStep, PTL DEF SolverSpec
<1>2. QED  BY <1>1, FileImplies, PTL

----------------------------------------------------------------------------
(* The lifecycle's announcements: what a batch's frames say.               *)

Seconds == Nat \cup {None}
TopicStages == {"session", "protective", "oracle"}
Reading == {"current"} \cup TopicStages

Tracked == Nat \X {"collects", "closed"}
FrameKinds == {"opened", "closed"} \X Nat \X Nat

OneCollects(list) ==
  \A i, j \in DOMAIN list : list[i][2] = "collects" /\ list[j][2] = "collects" => i = j

\* What closeDue leaves of the tracked batches.
ClosesInto(list, T, new) ==
  /\ new \in Seq(Tracked)
  /\ \A k \in DOMAIN new : \E j \in DOMAIN list :
       /\ new[k][1] = list[j][1]
       /\ new[k][2] = "collects" => list[j][2] = "collects" /\ T <= list[j][1]
  /\ \A j \in DOMAIN list : list[j][2] = "collects" /\ T <= list[j][1] =>
       \E k \in DOMAIN new : new[k] = list[j]

\* What an eviction leaves of them.
EvictsInto(list, new) ==
  /\ new \in Seq(Tracked)
  /\ \A k \in DOMAIN new : \E j \in DOMAIN list : new[k] = list[j]
  /\ \A j \in DOMAIN list : list[j][2] = "collects" => \E k \in DOMAIN new : new[k] = list[j]

LEMMA LifecycleNumbers ==
  /\ BatchSeconds \in Nat /\ BatchSeconds > 0 /\ KeptSeconds \in Nat /\ MaxTrackedBatches \in Nat
  /\ LogRange \in Nat /\ MaxLogChunks \in Nat /\ ReceiptWait \in Nat /\ LifecycleHorizon \in Nat
BY LifecycleAssumption

\* What is kept of a list, with what is over closed.
LEMMA ClosesKept ==
  ASSUME NEW list \in Seq(Tracked), NEW T \in Nat, NEW new, new = closedAt(T, keptAt(T, list))
  PROVE  ClosesInto(list, T, new) /\ (OneCollects(list) => OneCollects(new))
<1> DEFINE K    == {k \in DOMAIN list : T <= list[k][1] + KeptSeconds}
           kept == keptAt(T, list)
<1>1. PICK n, pos : TakesFrom(kept, Tracked, list, K, n, pos)
  <2>1. kept = inOrder(list, K) /\ K \subseteq DOMAIN list
    BY DEF keptAt
  <2> HIDE DEF K, kept
  <2>2. QED  BY <2>1, InTheirOrder
<1>2. /\ \A k \in DOMAIN list : list[k] \in Tracked /\ list[k] = <<list[k][1], list[k][2]>>
                                /\ list[k][1] \in Nat
      /\ \A m \in 1..n : pos[m] \in DOMAIN list /\ kept[m] = list[pos[m]]
  BY <1>1 DEF Tracked, TakesFrom
<1>3. /\ DOMAIN new = 1..n
      /\ \A m \in 1..n :
           new[m] = IF T > list[pos[m]][1] THEN <<list[pos[m]][1], "closed">> ELSE list[pos[m]]
  BY <1>1, <1>2 DEF closedAt, isOverAt, TakesFrom
<1> HIDE DEF K, kept
<1>4. \A m \in 1..n : /\ new[m] \in Tracked /\ new[m][1] = list[pos[m]][1]
                      /\ new[m][2] = "collects" => list[pos[m]][2] = "collects" /\ T <= list[pos[m]][1]
  <2> SUFFICES ASSUME NEW m \in 1..n
               PROVE  /\ new[m] \in Tracked /\ new[m][1] = list[pos[m]][1]
                      /\ new[m][2] = "collects" => list[pos[m]][2] = "collects" /\ T <= list[pos[m]][1]
    OBVIOUS
  <2>1. CASE T > list[pos[m]][1]
    <3>1. new[m] = <<list[pos[m]][1], "closed">> /\ list[pos[m]][1] \in Nat
      BY <1>2, <1>3, <2>1
    <3>2. QED  BY <3>1 DEF Tracked
  <2>2. CASE ~(T > list[pos[m]][1])
    <3>1. new[m] = list[pos[m]] /\ list[pos[m]][1] \in Nat /\ list[pos[m]] \in Tracked
      BY <1>2, <1>3, <2>2
    <3>2. QED  BY <2>2, <3>1
  <2>3. QED  BY <2>1, <2>2
<1>5. new \in Seq(Tracked)
  <2>1. n \in Nat /\ new = [m \in 1..n |-> new[m]]
    BY <1>1, <1>3 DEF closedAt, TakesFrom
  <2>2. new \in [1..n -> Tracked]
    BY <1>4, <2>1
  <2>3. QED  BY <2>1, <2>2
<1>6. \A k \in DOMAIN new : \E j \in DOMAIN list :
              /\ new[k][1] = list[j][1]
              /\ new[k][2] = "collects" => list[j][2] = "collects" /\ T <= list[j][1]
  BY <1>2, <1>3, <1>4
<1>7. ASSUME NEW j \in DOMAIN list, list[j][2] = "collects", T <= list[j][1]
      PROVE  \E k \in DOMAIN new : new[k] = list[j]
  <2>1. j \in K
    BY <1>2, <1>7, LifecycleNumbers DEF K
  <2>2. PICK m \in 1..n : pos[m] = j
    BY <1>1, <2>1 DEF TakesFrom
  <2>3. new[m] = list[j] /\ m \in DOMAIN new
    BY <1>2, <1>3, <1>7, <2>2
  <2>4. QED  BY <2>3
<1>8. ASSUME OneCollects(list),
             NEW i \in DOMAIN new, NEW j \in DOMAIN new, new[i][2] = "collects", new[j][2] = "collects"
      PROVE  i = j
  <2>1. i \in 1..n /\ j \in 1..n /\ pos[i] \in DOMAIN list /\ pos[j] \in DOMAIN list
    BY <1>2, <1>3, <1>8
  <2>2. list[pos[i]][2] = "collects" /\ list[pos[j]][2] = "collects"
    BY <1>4, <1>8, <2>1
  <2>3. pos[i] = pos[j]
    BY <1>8, <2>1, <2>2 DEF OneCollects
  <2>4. QED  BY <1>1, <2>1, <2>3 DEF TakesFrom
<1>9. ClosesInto(list, T, new)
  BY <1>5, <1>6, <1>7 DEF ClosesInto
<1>10. QED  BY <1>8, <1>9 DEF OneCollects

\* At most one batch is still to be closed, so one frame at most goes out.
LEMMA ClosedAtMostOne ==
  ASSUME NEW list \in Seq(Tracked), NEW T \in Nat,
         OneCollects(list)
  PROVE  \/ closedFrames(T, list) = <<>> /\ \A k \in DOMAIN list : ~isDueAt(T, list[k])
         \/ \E p \in DOMAIN list : isDueAt(T, list[p]) /\ closedFrames(T, list) = << <<"closed", list[p][1], T>> >>
<1> DEFINE K   == {k \in DOMAIN list : isDueAt(T, list[k])}
           due == inOrder(list, K)
<1>1. PICK n, pos : TakesFrom(due, Tracked, list, K, n, pos)
  <2>1. K \subseteq DOMAIN list
    OBVIOUS
  <2> HIDE DEF K
  <2>2. QED  BY <2>1, InTheirOrder
<1>2. closedFrames(T, list) = [m \in 1..n |-> <<"closed", list[pos[m]][1], T>>]
  BY <1>1 DEF closedFrames, TakesFrom
<1>3. \A j, k \in K : j = k
  BY DEF isDueAt, OneCollects
<1>4. CASE n = 0
  <2>1. 1..n = {}
    BY <1>4
  <2>2. \A k \in DOMAIN list : ~isDueAt(T, list[k])
    BY <1>1, <2>1 DEF TakesFrom
  <2>3. closedFrames(T, list) = <<>>
    BY <1>2, <1>4
  <2>4. QED  BY <2>2, <2>3
<1>5. CASE n # 0
  <2>1. n \in Nat /\ 1 \in 1..n /\ pos[1] \in K
    BY <1>1, <1>5 DEF TakesFrom
  <2>2. n = 1
    <3>1. n \in Nat /\ \A m \in 1..n : pos[m] = pos[1]
      BY <1>1, <1>3, <2>1 DEF TakesFrom
    <3>2. \A m \in 1..n : m = 1
      BY <1>1, <2>1, <3>1 DEF TakesFrom
    <3>3. n \in 1..n
      BY <1>5, <3>1
    <3>4. QED  BY <3>2, <3>3
  <2>3. closedFrames(T, list) = [m \in 1..1 |-> <<"closed", list[pos[m]][1], T>>]
    BY <1>2, <2>2
  <2>4. closedFrames(T, list) = << <<"closed", list[pos[1]][1], T>> >>
    BY <2>3
  <2>5. QED  BY <2>1, <2>4
<1>6. QED  BY <1>4, <1>5

\* Only closed batches are evicted.
LEMMA EvictsClosed ==
  ASSUME NEW list \in Seq(Tracked), NEW new, new = evict(list)
  PROVE  EvictsInto(list, new) /\ (OneCollects(list) => OneCollects(new))
<1> DEFINE over    == Len(list) - MaxTrackedBatches
           closed  == {k \in DOMAIN list : list[k][2] = "closed"}
           leaving == {k \in closed : Cardinality({i \in closed : i <= k}) <= over}
           K       == DOMAIN list \ leaving
<1>1. new = inOrder(list, K)
  BY DEF evict
<1>2. K \subseteq DOMAIN list /\ \A j \in DOMAIN list : list[j][2] = "collects" => j \in K
  OBVIOUS
<1> HIDE DEF K
<1>3. PICK n, pos : TakesFrom(new, Tracked, list, K, n, pos)
  BY <1>1, <1>2, InTheirOrder
<1>4. \A m \in 1..n : pos[m] \in DOMAIN list /\ new[m] = list[pos[m]]
  BY <1>2, <1>3 DEF TakesFrom
<1>5. ASSUME NEW j \in DOMAIN list, list[j][2] = "collects" PROVE \E k \in DOMAIN new : new[k] = list[j]
  <2>1. PICK m \in 1..n : pos[m] = j
    BY <1>2, <1>3, <1>5 DEF TakesFrom
  <2>2. QED  BY <1>3, <1>4, <2>1 DEF TakesFrom
<1>6. new \in Seq(Tracked) /\ \A k \in DOMAIN new : \E j \in DOMAIN list : new[k] = list[j]
  BY <1>3, <1>4 DEF TakesFrom
<1>7. ASSUME OneCollects(list),
             NEW i \in DOMAIN new, NEW j \in DOMAIN new, new[i][2] = "collects", new[j][2] = "collects"
      PROVE  i = j
  <2>1. i \in 1..n /\ j \in 1..n /\ pos[i] \in DOMAIN list /\ pos[j] \in DOMAIN list
    BY <1>3, <1>4, <1>7 DEF TakesFrom
  <2>2. pos[i] = pos[j]
    BY <1>4, <1>7, <2>1 DEF OneCollects
  <2>3. QED  BY <1>3, <2>1, <2>2 DEF TakesFrom
<1>8. EvictsInto(list, new)
  BY <1>5, <1>6 DEF EvictsInto
<1>9. QED  BY <1>7, <1>8 DEF OneCollects

\* What a listener has heard of a batch.
heardOf(fr, kind, id) == \E k \in DOMAIN fr : fr[k][1] = kind /\ fr[k][2] = id

HeardOnce(fr) ==
  \A i, k \in DOMAIN fr : fr[i][1] = fr[k][1] /\ fr[i][2] = fr[k][2] => i = k
ClosesWhatOpened(fr) ==
  \A k \in DOMAIN fr : fr[k][1] = "closed" =>
    \E i \in DOMAIN fr : i < k /\ fr[i][1] = "opened" /\ fr[i][2] = fr[k][2]
OpensAfterClose(fr) ==
  \A i, k \in DOMAIN fr : i < k /\ fr[k][1] = "opened" =>
    /\ fr[i][2] < fr[k][2]
    /\ \E c \in DOMAIN fr : c < k /\ fr[c][1] = "closed" /\ fr[c][2] = fr[i][2]
TimesRise(fr) == \A i, k \in DOMAIN fr : i < k => fr[i][3] <= fr[k][3]
FramesGood(fr) == HeardOnce(fr) /\ ClosesWhatOpened(fr) /\ OpensAfterClose(fr) /\ TimesRise(fr)

TrackedGood(tr, fr, ob) ==
  /\ \A k \in DOMAIN tr : tr[k][1] <= ob
  /\ OneCollects(tr)
  /\ \A k \in DOMAIN tr : tr[k][2] = "collects" =>
       heardOf(fr, "opened", tr[k][1]) /\ ~heardOf(fr, "closed", tr[k][1])
  /\ \A k \in DOMAIN fr : fr[k][2] <= ob
  /\ \A k \in DOMAIN fr : fr[k][1] = "opened" =>
       \/ heardOf(fr, "closed", fr[k][2])
       \/ \E j \in DOMAIN tr : tr[j][1] = fr[k][2] /\ tr[j][2] = "collects"

LEMMA FrameAppended ==
  ASSUME NEW fr \in Seq(FrameKinds), NEW f \in FrameKinds, NEW new, new = Append(fr, f)
  PROVE  /\ new \in Seq(FrameKinds)
         /\ \A k \in DOMAIN fr : k \in Nat /\ k \in DOMAIN new /\ new[k] = fr[k] /\ k < Len(fr) + 1
                                 /\ fr[k][2] \in Nat /\ fr[k][3] \in Nat
         /\ \A k \in DOMAIN new : k \in DOMAIN fr \/ k = Len(fr) + 1
         /\ Len(fr) + 1 \in DOMAIN new /\ Len(fr) \in Nat /\ Len(fr) + 1 \notin DOMAIN fr
         /\ new[Len(fr) + 1] = f /\ f[2] \in Nat /\ f[3] \in Nat
<1>1. Len(new) = Len(fr) + 1 /\ Len(fr) \in Nat /\ DOMAIN fr = 1..Len(fr) /\ DOMAIN new = 1..Len(new)
      /\ new \in Seq(FrameKinds) /\ new[Len(fr) + 1] = f
  OBVIOUS
<1>2. \A k \in DOMAIN fr : new[k] = fr[k] /\ fr[k] \in FrameKinds
  BY <1>1
<1>3. \A g \in FrameKinds : g[2] \in Nat /\ g[3] \in Nat
  BY DEF FrameKinds
<1>4. \A k \in DOMAIN fr : k \in Nat /\ k \in DOMAIN new /\ k < Len(fr) + 1
  BY <1>1
<1>5. \A k \in DOMAIN new : k \in DOMAIN fr \/ k = Len(fr) + 1
  BY <1>1
<1>6. Len(fr) + 1 \in DOMAIN new /\ Len(fr) + 1 \notin DOMAIN fr
  BY <1>1
<1>7. QED  BY <1>1, <1>2, <1>3, <1>4, <1>5, <1>6

LEMMA HeardAfter ==
  ASSUME NEW fr \in Seq(FrameKinds), NEW f \in FrameKinds, NEW new, new = Append(fr, f), NEW what, NEW b
  PROVE  heardOf(new, what, b) <=> heardOf(fr, what, b) \/ (what = f[1] /\ b = f[2])
<1> DEFINE l == Len(fr) + 1
<1>1. /\ \A k \in DOMAIN fr : k \in DOMAIN new /\ new[k] = fr[k]
      /\ \A k \in DOMAIN new : k \in DOMAIN fr \/ k = l
      /\ l \in DOMAIN new /\ new[l] = f
  BY FrameAppended
<1> HIDE DEF l
<1>2. ASSUME heardOf(new, what, b) PROVE heardOf(fr, what, b) \/ (what = f[1] /\ b = f[2])
  BY <1>1, <1>2 DEF heardOf
<1>3. ASSUME heardOf(fr, what, b) PROVE heardOf(new, what, b)
  BY <1>1, <1>3 DEF heardOf
<1>4. heardOf(new, f[1], f[2])
  BY <1>1 DEF heardOf
<1>5. QED  BY <1>2, <1>3, <1>4

LEMMA FrameAdded ==
  ASSUME NEW fr \in Seq(FrameKinds), NEW f \in FrameKinds, NEW new, new = Append(fr, f),
         FramesGood(fr), \A k \in DOMAIN fr : fr[k][3] <= f[3],
         f[1] = "closed" => heardOf(fr, "opened", f[2]) /\ ~heardOf(fr, "closed", f[2]),
         f[1] = "opened" => \A k \in DOMAIN fr : fr[k][2] < f[2] /\ heardOf(fr, "closed", fr[k][2])
  PROVE  FramesGood(new)
<1> DEFINE l == Len(fr) + 1
<1>1. /\ \A k \in DOMAIN fr : k \in Nat /\ k \in DOMAIN new /\ new[k] = fr[k] /\ k < l
                              /\ fr[k][2] \in Nat /\ fr[k][3] \in Nat
      /\ \A k \in DOMAIN new : k \in DOMAIN fr \/ k = l
      /\ l \in DOMAIN new /\ l \in Nat /\ l \notin DOMAIN fr
      /\ new[l] = f /\ f[2] \in Nat /\ f[3] \in Nat /\ f[1] \in {"opened", "closed"}
  BY FrameAppended DEF FrameKinds
<1> HIDE DEF l
<1>2. ASSUME NEW i \in DOMAIN fr, fr[i][1] = f[1], fr[i][2] = f[2] PROVE FALSE
  BY <1>1, <1>2 DEF heardOf
<1>3. ASSUME NEW i \in DOMAIN new, NEW k \in DOMAIN new, new[i][1] = new[k][1], new[i][2] = new[k][2]
      PROVE  i = k
  <2>1. CASE i \in DOMAIN fr /\ k \in DOMAIN fr
    BY <1>1, <1>3, <2>1 DEF FramesGood, HeardOnce
  <2>2. CASE i = l /\ k \in DOMAIN fr
    BY <1>1, <1>2, <1>3, <2>2
  <2>3. CASE i \in DOMAIN fr /\ k = l
    BY <1>1, <1>2, <1>3, <2>3
  <2>4. QED  BY <1>1, <2>1, <2>2, <2>3
<1>4. ASSUME NEW k \in DOMAIN new, new[k][1] = "closed"
      PROVE  \E i \in DOMAIN new : i < k /\ new[i][1] = "opened" /\ new[i][2] = new[k][2]
  <2>1. \E i \in DOMAIN fr : i < k /\ fr[i][1] = "opened" /\ fr[i][2] = new[k][2]
    <3>1. CASE k \in DOMAIN fr
      BY <1>1, <1>4, <3>1 DEF FramesGood, ClosesWhatOpened
    <3>2. CASE k = l
      BY <1>1, <1>4, <3>2 DEF heardOf
    <3>3. QED  BY <1>1, <3>1, <3>2
  <2>2. QED  BY <1>1, <2>1
<1>5. ASSUME NEW i \in DOMAIN new, NEW k \in DOMAIN new, i < k, new[k][1] = "opened"
      PROVE  /\ new[i][2] < new[k][2]
             /\ \E c \in DOMAIN new : c < k /\ new[c][1] = "closed" /\ new[c][2] = new[i][2]
  <2>1. i \in DOMAIN fr
    BY <1>1, <1>5
  <2>2. /\ fr[i][2] < new[k][2]
        /\ \E c \in DOMAIN fr : c < k /\ fr[c][1] = "closed" /\ fr[c][2] = fr[i][2]
    <3>1. CASE k \in DOMAIN fr
      BY <1>1, <1>5, <2>1, <3>1 DEF FramesGood, OpensAfterClose
    <3>2. CASE k = l
      BY <1>1, <1>5, <2>1, <3>2 DEF heardOf
    <3>3. QED  BY <1>1, <3>1, <3>2
  <2>3. QED  BY <1>1, <2>1, <2>2
<1>6. ASSUME NEW i \in DOMAIN new, NEW k \in DOMAIN new, i < k PROVE new[i][3] <= new[k][3]
  <2>1. i \in DOMAIN fr
    BY <1>1, <1>6
  <2>2. CASE k \in DOMAIN fr
    BY <1>1, <1>6, <2>1, <2>2 DEF FramesGood, TimesRise
  <2>3. CASE k = l
    BY <1>1, <2>1, <2>3
  <2>4. QED  BY <1>1, <2>2, <2>3
<1>7. HeardOnce(new)
  BY <1>3 DEF HeardOnce
<1>8. ClosesWhatOpened(new)
  BY <1>4 DEF ClosesWhatOpened
<1>9. OpensAfterClose(new)
  BY <1>5 DEF OpensAfterClose
<1>10. TimesRise(new)
  BY <1>6 DEF TimesRise
<1>11. QED  BY <1>7, <1>8, <1>9, <1>10 DEF FramesGood

LEMMA ClosedFrame ==
  ASSUME NEW fr \in Seq(FrameKinds), NEW id \in Nat, NEW T \in Nat,
         FramesGood(fr), \A k \in DOMAIN fr : fr[k][3] <= T,
         heardOf(fr, "opened", id), ~heardOf(fr, "closed", id)
  PROVE  /\ Append(fr, <<"closed", id, T>>) \in Seq(FrameKinds)
         /\ FramesGood(Append(fr, <<"closed", id, T>>))
<1> DEFINE f == <<"closed", id, T>>
<1>1. f \in FrameKinds /\ f[1] = "closed" /\ f[2] = id /\ f[3] = T /\ f[1] # "opened"
  BY DEF FrameKinds
<1> HIDE DEF f
<1>2. Append(fr, f) \in Seq(FrameKinds) /\ FramesGood(Append(fr, f))
  BY <1>1, FrameAppended, FrameAdded
<1>3. QED  BY <1>2 DEF f

\* closeDue, whoever calls it.
LEMMA CloseKeeps ==
  ASSUME NEW list \in Seq(Tracked), NEW fr \in Seq(FrameKinds), NEW ob \in Int, NEW T \in Nat,
         TrackedGood(list, fr, ob), FramesGood(fr), \A k \in DOMAIN fr : fr[k][3] <= T,
         NEW new, new = closedAt(T, keptAt(T, list)), NEW nf, nf = fr \o closedFrames(T, list)
  PROVE  /\ new \in Seq(Tracked) /\ nf \in Seq(FrameKinds)
         /\ TrackedGood(new, nf, ob) /\ FramesGood(nf)
         /\ closedFrames(T, list) = <<>> => nf = fr
         /\ closedFrames(T, list) # <<>> => \A k \in DOMAIN nf : nf[k][3] <= T
<1>1. OneCollects(list)
  BY DEF TrackedGood
<1>2. ClosesInto(list, T, new) /\ OneCollects(new) /\ new \in Seq(Tracked)
  <2>1. ClosesInto(list, T, new)
    BY ClosesKept
  <2>2. OneCollects(list) => OneCollects(new)
    BY ClosesKept
  <2>3. QED  BY <1>1, <2>1, <2>2 DEF ClosesInto
<1>3. \A k \in DOMAIN new : new[k][1] <= ob
  BY <1>2 DEF TrackedGood, ClosesInto
<1>4. \A j \in DOMAIN list : list[j][1] \in Nat
  <2> SUFFICES ASSUME NEW j \in DOMAIN list PROVE list[j][1] \in Nat
    OBVIOUS
  <2>1. list[j] \in Tracked
    OBVIOUS
  <2>2. QED  BY <2>1 DEF Tracked
<1>5. CASE closedFrames(T, list) = <<>> /\ \A k \in DOMAIN list : ~isDueAt(T, list[k])
  <2>1. nf = fr
    BY <1>5
  <2>2. \A k \in DOMAIN new : new[k][2] = "collects" =>
          heardOf(fr, "opened", new[k][1]) /\ ~heardOf(fr, "closed", new[k][1])
    <3> SUFFICES ASSUME NEW k \in DOMAIN new, new[k][2] = "collects"
                 PROVE  heardOf(fr, "opened", new[k][1]) /\ ~heardOf(fr, "closed", new[k][1])
      OBVIOUS
    <3>1. PICK j \in DOMAIN list : new[k][1] = list[j][1] /\ list[j][2] = "collects"
      BY <1>2 DEF ClosesInto
    <3>2. QED  BY <3>1 DEF TrackedGood
  <2>3. \A k \in DOMAIN fr : fr[k][1] = "opened" =>
          \/ heardOf(fr, "closed", fr[k][2])
          \/ \E j \in DOMAIN new : new[j][1] = fr[k][2] /\ new[j][2] = "collects"
    <3> SUFFICES ASSUME NEW k \in DOMAIN fr, fr[k][1] = "opened", ~heardOf(fr, "closed", fr[k][2])
                 PROVE  \E j \in DOMAIN new : new[j][1] = fr[k][2] /\ new[j][2] = "collects"
      OBVIOUS
    <3>1. PICK j \in DOMAIN list : list[j][1] = fr[k][2] /\ list[j][2] = "collects"
      BY DEF TrackedGood
    <3>2. T <= list[j][1]
      BY <1>4, <1>5, <3>1 DEF isDueAt, isOverAt
    <3>3. PICK i \in DOMAIN new : new[i] = list[j]
      BY <1>2, <3>1, <3>2 DEF ClosesInto
    <3>4. QED  BY <3>1, <3>3
  <2>4. TrackedGood(new, fr, ob)
    BY <1>2, <1>3, <2>2, <2>3 DEF TrackedGood
  <2>5. QED  BY <1>2, <1>5, <2>1, <2>4
<1>6. CASE \E p \in DOMAIN list : isDueAt(T, list[p]) /\ closedFrames(T, list) = << <<"closed", list[p][1], T>> >>
  <2>1. PICK p \in DOMAIN list : isDueAt(T, list[p]) /\ closedFrames(T, list) = << <<"closed", list[p][1], T>> >>
    BY <1>6
  <2> DEFINE id == list[p][1]
  <2>2. id \in Nat /\ list[p][2] = "collects" /\ T > id
    BY <1>4, <2>1 DEF isDueAt, isOverAt
  <2> DEFINE f == <<"closed", id, T>>
  <2>3. nf = Append(fr, f)
    BY <2>1
  <2>4. heardOf(fr, "opened", id) /\ ~heardOf(fr, "closed", id) /\ id <= ob
    BY <2>2 DEF TrackedGood
  <2> HIDE DEF id
  <2>5. nf \in Seq(FrameKinds) /\ FramesGood(nf)
    BY <2>2, <2>3, <2>4, ClosedFrame
  <2>5a. f \in FrameKinds /\ f[1] = "closed" /\ f[2] = id /\ f[3] = T
    BY <2>2 DEF FrameKinds
  <2> HIDE DEF f
  <2>6. /\ \A k \in DOMAIN fr : nf[k] = fr[k]
        /\ \A k \in DOMAIN nf : k \in DOMAIN fr \/ (nf[k][1] = "closed" /\ nf[k][2] = id /\ nf[k][3] = T)
    BY <2>3, <2>5a, FrameAppended
  <2>7. \A what, b : heardOf(nf, what, b) <=> heardOf(fr, what, b) \/ (what = "closed" /\ b = id)
    BY <2>3, <2>5a, HeardAfter
  <2>8. \A k \in DOMAIN new : new[k][2] # "collects"
    <3> SUFFICES ASSUME NEW k \in DOMAIN new, new[k][2] = "collects" PROVE FALSE
      OBVIOUS
    <3>1. PICK j \in DOMAIN list : new[k][1] = list[j][1] /\ list[j][2] = "collects" /\ T <= list[j][1]
      BY <1>2 DEF ClosesInto
    <3>2. j = p
      BY <1>1, <2>2, <3>1 DEF OneCollects
    <3>3. QED  BY <2>2, <3>1, <3>2 DEF id
  <2>9. \A k \in DOMAIN nf : nf[k][2] <= ob
    BY <2>4, <2>6 DEF TrackedGood
  <2>10. \A k \in DOMAIN nf : nf[k][1] = "opened" => heardOf(nf, "closed", nf[k][2])
    <3> SUFFICES ASSUME NEW k \in DOMAIN nf, nf[k][1] = "opened" PROVE heardOf(nf, "closed", nf[k][2])
      OBVIOUS
    <3>1. k \in DOMAIN fr /\ nf[k] = fr[k]
      BY <2>6
    <3>2. CASE heardOf(fr, "closed", fr[k][2])
      BY <2>7, <3>1, <3>2
    <3>3. CASE \E j \in DOMAIN list : list[j][1] = fr[k][2] /\ list[j][2] = "collects"
      <4>1. fr[k][2] = id
        BY <1>1, <2>2, <3>3 DEF id, OneCollects
      <4>2. QED  BY <2>7, <3>1, <4>1
    <3>4. QED  BY <3>1, <3>2, <3>3 DEF TrackedGood
  <2>11. TrackedGood(new, nf, ob)
    BY <1>2, <1>3, <2>8, <2>9, <2>10 DEF TrackedGood, OneCollects
  <2>12. \A k \in DOMAIN nf : nf[k][3] <= T
    BY <2>6
  <2>13. closedFrames(T, list) # <<>>
    BY <2>1
  <2>14. QED  BY <1>2, <2>5, <2>11, <2>12, <2>13
<1>7. QED  BY <1>1, <1>5, <1>6, ClosedAtMostOne

LEMMA EvictKeeps ==
  ASSUME NEW list \in Seq(Tracked), NEW fr, NEW ob, TrackedGood(list, fr, ob), NEW new, new = evict(list)
  PROVE  new \in Seq(Tracked) /\ TrackedGood(new, fr, ob)
<1>1. OneCollects(list)
  BY DEF TrackedGood
<1>2. EvictsInto(list, new) /\ OneCollects(new) /\ new \in Seq(Tracked)
  BY <1>1, EvictsClosed DEF EvictsInto
<1>3. \A k \in DOMAIN new : new[k][1] <= ob
  BY <1>2 DEF TrackedGood, EvictsInto
<1>4. \A k \in DOMAIN new : new[k][2] = "collects" =>
        heardOf(fr, "opened", new[k][1]) /\ ~heardOf(fr, "closed", new[k][1])
  BY <1>2 DEF TrackedGood, EvictsInto
<1>5. \A k \in DOMAIN fr : fr[k][1] = "opened" =>
        \/ heardOf(fr, "closed", fr[k][2])
        \/ \E j \in DOMAIN new : new[j][1] = fr[k][2] /\ new[j][2] = "collects"
  <2> SUFFICES ASSUME NEW k \in DOMAIN fr, fr[k][1] = "opened", ~heardOf(fr, "closed", fr[k][2])
               PROVE  \E j \in DOMAIN new : new[j][1] = fr[k][2] /\ new[j][2] = "collects"
    OBVIOUS
  <2>1. PICK j \in DOMAIN list : list[j][1] = fr[k][2] /\ list[j][2] = "collects"
    BY DEF TrackedGood
  <2>2. PICK i \in DOMAIN new : new[i] = list[j]
    BY <1>2, <2>1 DEF EvictsInto
  <2>3. QED  BY <2>1, <2>2
<1>6. \A k \in DOMAIN fr : fr[k][2] <= ob
  BY DEF TrackedGood
<1>7. QED  BY <1>2, <1>3, <1>4, <1>5, <1>6 DEF TrackedGood

\* The open, with no batch still to be closed.
LEMMA OpenKeeps ==
  ASSUME NEW list \in Seq(Tracked), NEW fr \in Seq(FrameKinds), NEW ob \in Int, NEW id \in Nat, NEW T \in Nat,
         TrackedGood(list, fr, ob), FramesGood(fr), \A k \in DOMAIN fr : fr[k][3] <= T,
         ob < id, \A k \in DOMAIN list : list[k][2] # "collects",
         NEW new, new = Append(list, <<id, "collects">>), NEW nf, nf = Append(fr, <<"opened", id, T>>)
  PROVE  new \in Seq(Tracked) /\ nf \in Seq(FrameKinds) /\ TrackedGood(new, nf, id) /\ FramesGood(nf)
<1> DEFINE l == Len(list) + 1
<1>1. <<id, "collects">> \in Tracked
  BY DEF Tracked
<1>2. /\ new \in Seq(Tracked) /\ l \in DOMAIN new /\ new[l] = <<id, "collects">>
      /\ \A k \in DOMAIN new : k = l \/ (k \in DOMAIN list /\ new[k] = list[k])
  BY <1>1
<1>3. \A k \in DOMAIN list : list[k][1] \in Nat /\ list[k][1] <= ob
  BY DEF Tracked, TrackedGood
<1>4. \A k \in DOMAIN fr : fr[k][2] \in Nat /\ fr[k][2] <= ob
  BY DEF FrameKinds, TrackedGood
<1>5. \A k \in DOMAIN fr : fr[k][1] = "opened" => heardOf(fr, "closed", fr[k][2])
  BY DEF TrackedGood
<1>6. \A k \in DOMAIN fr : fr[k][2] < id /\ heardOf(fr, "closed", fr[k][2])
  <2> SUFFICES ASSUME NEW k \in DOMAIN fr PROVE heardOf(fr, "closed", fr[k][2])
    BY <1>4
  <2>1. fr[k][1] \in {"opened", "closed"}
    BY DEF FrameKinds
  <2>2. CASE fr[k][1] = "closed"
    BY <2>2 DEF heardOf
  <2>3. QED  BY <1>5, <2>1, <2>2
<1> DEFINE f == <<"opened", id, T>>
<1>7a. f \in FrameKinds /\ f[1] = "opened" /\ f[2] = id /\ f[3] = T /\ f[1] # "closed" /\ nf = Append(fr, f)
  BY DEF FrameKinds
<1> HIDE DEF f
<1>7. nf \in Seq(FrameKinds) /\ FramesGood(nf)
  BY <1>6, <1>7a, FrameAppended, FrameAdded
<1>8. /\ \A k \in DOMAIN fr : nf[k] = fr[k]
      /\ \A k \in DOMAIN nf : k \in DOMAIN fr \/ (nf[k][1] = "opened" /\ nf[k][2] = id)
  BY <1>7a, FrameAppended
<1>9. \A what, b : heardOf(nf, what, b) <=> heardOf(fr, what, b) \/ (what = "opened" /\ b = id)
  BY <1>7a, HeardAfter
<1> HIDE DEF l
<1>10. \A k \in DOMAIN new : new[k][1] <= id
  BY <1>2, <1>3
<1>11. \A k \in DOMAIN new : new[k][2] = "collects" => k = l
  BY <1>2
<1>12. heardOf(nf, "opened", id) /\ ~heardOf(nf, "closed", id)
  <2>1. ~heardOf(fr, "closed", id)
    <3>1. \A k \in DOMAIN fr : fr[k][2] # id
      BY <1>4
    <3>2. QED  BY <3>1 DEF heardOf
  <2>2. "closed" # "opened"
    OBVIOUS
  <2>3. QED  BY <1>9, <2>1, <2>2
<1>13. \A k \in DOMAIN new : new[k][2] = "collects" =>
         heardOf(nf, "opened", new[k][1]) /\ ~heardOf(nf, "closed", new[k][1])
  <2>1. new[l][1] = id
    BY <1>2
  <2>2. QED  BY <1>11, <1>12, <2>1
<1>14. \A k \in DOMAIN nf : nf[k][2] <= id
  BY <1>4, <1>8
<1>15. \A k \in DOMAIN nf : nf[k][1] = "opened" =>
         \/ heardOf(nf, "closed", nf[k][2])
         \/ \E j \in DOMAIN new : new[j][1] = nf[k][2] /\ new[j][2] = "collects"
  <2> SUFFICES ASSUME NEW k \in DOMAIN nf, nf[k][1] = "opened"
               PROVE  \/ heardOf(nf, "closed", nf[k][2])
                      \/ \E j \in DOMAIN new : new[j][1] = nf[k][2] /\ new[j][2] = "collects"
    OBVIOUS
  <2>1. CASE k \in DOMAIN fr
    BY <1>6, <1>8, <1>9, <2>1
  <2>2. CASE nf[k][2] = id
    <3>1. l \in DOMAIN new /\ new[l][1] = id /\ new[l][2] = "collects"
      BY <1>2
    <3>2. QED  BY <2>2, <3>1
  <2>3. QED  BY <1>8, <2>1, <2>2
<1>16. QED  BY <1>2, <1>7, <1>10, <1>11, <1>13, <1>14, <1>15 DEF TrackedGood, OneCollects

----------------------------------------------------------------------------
(* The tick.                                                               *)

TickTypes ==
  /\ lifecycleCase \in LifecycleCases
  /\ headTime \in Nat /\ polledHead \in Seconds /\ queuedHead \in Seconds
  /\ tickTime \in Nat /\ lastTickTime \in Seconds
  /\ tickStage \in {"idle", "stamp", "end"} \cup Reading
  /\ announcing \in {"off", "logs", "receipts"}
  /\ announcing # "off" => tickStage \in Reading \cup {"end"}
  /\ tickStage \in Reading \/ announcing # "off" => lastTickTime = tickTime

AnnounceTypes ==
  /\ logCursor \in Seconds
  /\ finishLog \in [LifecycleBatches -> Seconds]
  /\ toldOutcomes \in [LifecycleBatches -> Nat]
  /\ waitingReceipts \subseteq LifecycleBatches /\ gaveUp \subseteq LifecycleBatches

BatchTypes ==
  /\ openBatch \in Seconds /\ latestClose \in Seconds
  /\ trackedBatches \in Seq(Tracked) /\ frames \in Seq(FrameKinds)

ScheduleInv ==
  /\ tickStage = "idle" => queuedHead = None
  /\ ~onFork => /\ tickStage # "stamp"
                /\ queuedHead <= headTime /\ lastTickTime <= headTime
                /\ queuedHead # None => lastTickTime <= queuedHead

ClockInv ==
  /\ openBatch # None =>
       lastTickTime # None /\ \E n \in Nat : openBatch = n * BatchSeconds /\ openBatch <= lastTickTime + BatchSeconds
  /\ \A k \in DOMAIN frames : frames[k][3] <= lastTickTime \/ frames[k][3] <= latestClose
  /\ latestClose <= lastTickTime \/ (~onFork /\ latestClose <= queuedHead)

StoryInv ==
  /\ BatchTypes
  /\ TrackedGood(trackedBatches, frames, openBatch) /\ FramesGood(frames)
  /\ ClockInv

\* closeDue at a second no frame is later than.
LEMMA CloseDueKeeps ==
  ASSUME TickTypes, StoryInv, NEW T \in Nat, closeDue(T, trackedBatches), UNCHANGED openBatch,
         lastTickTime <= T, latestClose <= T
  PROVE  /\ BatchTypes' /\ TrackedGood(trackedBatches, frames, openBatch)' /\ FramesGood(frames)'
         /\ latestClose' <= T /\ latestClose <= latestClose'
         /\ \A k \in DOMAIN frames' : \/ frames'[k][3] <= latestClose'
                                      \/ frames'[k][3] <= lastTickTime
<1> USE DEF None, Seconds
<1>1. BatchTypes /\ lastTickTime \in Int /\ latestClose \in Int /\ openBatch \in Int
  BY DEF StoryInv, BatchTypes, TickTypes
<1>2. \A k \in DOMAIN frames : frames[k][3] \in Nat /\ (frames[k][3] <= lastTickTime \/ frames[k][3] <= latestClose)
  <2> SUFFICES ASSUME NEW k \in DOMAIN frames PROVE frames[k][3] \in Nat
    BY DEF StoryInv, ClockInv
  <2>1. frames[k] \in FrameKinds
    BY <1>1 DEF BatchTypes
  <2>2. QED  BY <2>1 DEF FrameKinds
<1>3. \A k \in DOMAIN frames : frames[k][3] <= T
  BY <1>1, <1>2
<1> DEFINE new == closedAt(T, keptAt(T, trackedBatches))
           nf  == frames \o closedFrames(T, trackedBatches)
<1>4. /\ new \in Seq(Tracked) /\ nf \in Seq(FrameKinds)
      /\ TrackedGood(new, nf, openBatch) /\ FramesGood(nf)
      /\ closedFrames(T, trackedBatches) = <<>> => nf = frames
      /\ closedFrames(T, trackedBatches) # <<>> => \A k \in DOMAIN nf : nf[k][3] <= T
  BY <1>1, <1>3, CloseKeeps DEF StoryInv, BatchTypes
<1>5. /\ trackedBatches' = new /\ frames' = nf /\ openBatch' = openBatch
      /\ latestClose' = IF closedFrames(T, trackedBatches) # <<>> /\ T > latestClose THEN T ELSE latestClose
  BY DEF closeDue
<1> HIDE DEF new, nf
<1>6. latestClose' \in Seconds /\ latestClose' <= T /\ latestClose <= latestClose'
  BY <1>1, <1>5 DEF BatchTypes
<1>7. BatchTypes' /\ TrackedGood(trackedBatches, frames, openBatch)' /\ FramesGood(frames)'
  BY <1>1, <1>4, <1>5, <1>6 DEF BatchTypes
<1>8. ASSUME NEW k \in DOMAIN frames'
      PROVE  frames'[k][3] <= latestClose' \/ frames'[k][3] <= lastTickTime
  <2>1. CASE closedFrames(T, trackedBatches) = <<>>
    <3>1. frames' = frames /\ latestClose' = latestClose
      BY <1>4, <1>5, <2>1
    <3>2. QED  BY <1>2, <1>8, <3>1
  <2>2. CASE closedFrames(T, trackedBatches) # <<>>
    <3>1. latestClose' = T
      BY <1>1, <1>5, <2>2
    <3>2. frames'[k][3] <= T
      BY <1>4, <1>5, <1>8, <2>2
    <3>3. QED  BY <3>1, <3>2
  <2>3. QED  BY <2>1, <2>2
<1>9. QED  BY <1>6, <1>7, <1>8

\* Everything tracked is dropped.
LEMMA StartsAfresh ==
  ASSUME NEW T, startOver(T)
  PROVE  /\ BatchTypes' /\ TrackedGood(trackedBatches, frames, openBatch)' /\ FramesGood(frames)'
         /\ frames' = <<>> /\ latestClose' = None /\ openBatch' = None
<1>1. trackedBatches' = <<>> /\ latestClose' = None /\ frames' = <<>> /\ openBatch' = None
  BY DEF startOver
<1>2. FramesGood(<<>>) /\ TrackedGood(<<>>, <<>>, None)
  BY DEF FramesGood, HeardOnce, ClosesWhatOpened, OpensAfterClose, TimesRise, TrackedGood, OneCollects
<1>3. <<>> \in Seq(Tracked) /\ <<>> \in Seq(FrameKinds)
  OBVIOUS
<1>4. BatchTypes'
  BY <1>1, <1>3 DEF BatchTypes, Seconds
<1>5. QED  BY <1>1, <1>2, <1>4

\* The start of a tick, at the head it found or at the one left for it.
LEMMA BeginsKeeps ==
  ASSUME TickTypes, StoryInv, NEW T \in Nat, begins(T), UNCHANGED lifecycleCase,
         lastTickTime <= T => latestClose <= T
  PROVE  StoryInv'
<1> USE DEF None, Seconds
<1>1. lastTickTime' = T /\ lastTickTime \in Int /\ latestClose \in Int
  BY DEF begins, StoryInv, BatchTypes, TickTypes
<1>2. CASE lastTickTime # None /\ T < lastTickTime
  <2>1. startOver(T)
    BY <1>2 DEF begins
  <2>2. ClockInv'
    BY <1>1, <2>1, StartsAfresh DEF ClockInv
  <2>3. QED  BY <2>1, <2>2, StartsAfresh DEF StoryInv
<1>3. CASE ~(lastTickTime # None /\ T < lastTickTime)
  <2>1. lastTickTime <= T /\ latestClose <= T
    BY <1>1, <1>3
  <2>2. closeDue(T, trackedBatches) /\ UNCHANGED openBatch
    BY <1>3 DEF begins
  <2>3. /\ BatchTypes' /\ TrackedGood(trackedBatches, frames, openBatch)' /\ FramesGood(frames)'
        /\ latestClose' <= T /\ latestClose <= latestClose'
        /\ \A k \in DOMAIN frames' : frames'[k][3] <= latestClose' \/ frames'[k][3] <= lastTickTime
    BY <2>1, <2>2, CloseDueKeeps
  <2>4. \A k \in DOMAIN frames' : frames'[k][3] <= T \/ frames'[k][3] <= latestClose'
    <3> SUFFICES ASSUME NEW k \in DOMAIN frames' PROVE frames'[k][3] <= T \/ frames'[k][3] <= latestClose'
      OBVIOUS
    <3>1. frames'[k] \in FrameKinds
      BY <2>3 DEF BatchTypes
    <3>2. frames'[k][3] \in Nat
      BY <3>1 DEF FrameKinds
    <3>3. QED  BY <1>1, <2>1, <2>3, <3>2
  <2>5. openBatch' # None =>
          T # None /\ \E n \in Nat : openBatch' = n * BatchSeconds /\ openBatch' <= T + BatchSeconds
    <3> SUFFICES ASSUME openBatch' # None
                 PROVE  \E n \in Nat : openBatch' = n * BatchSeconds /\ openBatch' <= T + BatchSeconds
      OBVIOUS
    <3>1. PICK n \in Nat : openBatch = n * BatchSeconds /\ openBatch <= lastTickTime + BatchSeconds
      BY <2>2 DEF StoryInv, ClockInv
    <3>2. openBatch \in Int
      BY DEF StoryInv, BatchTypes
    <3>3. openBatch' <= T + BatchSeconds
      BY <1>1, <2>1, <2>2, <3>1, <3>2, LifecycleNumbers
    <3>4. QED  BY <2>2, <3>1, <3>3
  <2>6. ClockInv'
    BY <1>1, <2>3, <2>4, <2>5 DEF ClockInv
  <2>7. QED  BY <2>3, <2>6 DEF StoryInv
<1>4. QED  BY <1>2, <1>3

TopicInv ==
  /\ knownTopics = [k \in 1..Len(Topics) |-> knownTopics[k]]
  /\ turnedFrom = [k \in 1..Len(Topics) |-> turnedFrom[k]]
  /\ toldTopics = [k \in 1..Len(Topics) |-> toldTopics[k]]
  /\ TopicsUpToDate

\* TopicsUpToDate, of one topic.
TopicTold(k, known, from, told) ==
  IF Topics[k] = "oracle" THEN from = Healthy /\ known = Unhealthy => told = Unhealthy
  ELSE IF from = None THEN told = None ELSE told = known

LifecycleInv == TickTypes /\ AnnounceTypes /\ StoryInv /\ ScheduleInv /\ TopicInv

LEMMA StoryStays ==
  ASSUME StoryInv, TickTypes, UNCHANGED <<lifecycleCase, batchState, lastTickTime>>,
         latestClose <= lastTickTime \/ latestClose <= queuedHead',
         queuedHead' \in Seconds
  PROVE  StoryInv'
<1>1. UNCHANGED <<openBatch, trackedBatches, latestClose, frames, lastTickTime, lifecycleCase>>
  BY DEF batchState
<1>2. BatchTypes'
  BY <1>1 DEF StoryInv, BatchTypes
<1>3. TrackedGood(trackedBatches, frames, openBatch)' /\ FramesGood(frames)'
  BY <1>1 DEF StoryInv
<1>4. ClockInv'
  BY <1>1 DEF StoryInv, ClockInv, onFork
<1>5. QED  BY <1>2, <1>3, <1>4 DEF StoryInv

LEMMA TopicsStay ==
  ASSUME TopicInv, UNCHANGED topicState
  PROVE  TopicInv'
BY DEF TopicInv, topicState, TopicsUpToDate

LEMMA AnnouncerStays ==
  ASSUME AnnounceTypes, UNCHANGED announcer, UNCHANGED finishLog
  PROVE  AnnounceTypes'
BY DEF AnnounceTypes, announcer

LEMMA BeginsSets ==
  ASSUME TickTypes, AnnounceTypes, TopicInv, NEW T \in Nat, begins(T),
         UNCHANGED <<lifecycleCase, headTime, finishLog>>, polledHead' \in Seconds, queuedHead' \in Seconds
  PROVE  TickTypes' /\ AnnounceTypes' /\ TopicInv'
<1>1. tickTime' = T /\ lastTickTime' = T /\ tickStage' = "current" /\ announcing' = "logs"
  BY DEF begins
<1>2. TickTypes'
  BY <1>1 DEF TickTypes, Seconds, Reading
<1>3. CASE startOver(T)
  <2>1. AnnounceTypes'
    BY <1>3 DEF startOver, AnnounceTypes, Seconds
  <2>2. knownTopics' = Unknown /\ turnedFrom' = Unknown /\ toldTopics' = Unknown
    BY <1>3 DEF startOver
  <2>3. \A k \in 1..Len(Topics) : Unknown[k] = None
    BY DEF Unknown
  <2>4. TopicInv'
    BY <2>2, <2>3 DEF TopicInv, TopicsUpToDate, Unknown, None, Healthy
  <2>5. QED  BY <1>2, <2>1, <2>4
<1>4. CASE UNCHANGED <<openBatch, topicState, logCursor, waitingReceipts, toldOutcomes, gaveUp>>
  BY <1>2, <1>4, TopicsStay DEF AnnounceTypes
<1>5. QED  BY <1>3, <1>4 DEF begins

LEMMA StartsKeeps ==
  ASSUME LifecycleInv, NEW T \in Nat, starts(T), UNCHANGED <<lifecycleCase, chainSide>>,
         polledHead' \in Seconds, queuedHead' = None, announcing = "off",
         ~onFork => lastTickTime <= T /\ latestClose <= T /\ T <= headTime
  PROVE  LifecycleInv'
<1>1. /\ TickTypes /\ AnnounceTypes /\ StoryInv /\ ScheduleInv /\ TopicInv
      /\ UNCHANGED <<lifecycleCase, headTime, finishLog>> /\ queuedHead' \in Seconds
  BY DEF LifecycleInv, chainSide, Seconds
<1>2. lastTickTime \in Int /\ latestClose \in Int /\ queuedHead \in Int /\ headTime \in Nat
  BY <1>1 DEF StoryInv, BatchTypes, TickTypes, Seconds, None
<1>3. CASE onFork
  <2>1. /\ tickTime' = T /\ tickStage' = "stamp"
        /\ UNCHANGED <<lastTickTime, batchState, topicState, announcer>>
    BY <1>3 DEF starts
  <2>2. latestClose <= lastTickTime
    BY <1>1, <1>3 DEF StoryInv, ClockInv
  <2>3. StoryInv'
    BY <1>1, <2>1, <2>2, StoryStays
  <2>4. TickTypes'
    BY <1>1, <2>1 DEF TickTypes, announcer, Reading, TopicStages
  <2>5. ScheduleInv'
    BY <1>1, <1>3, <2>1 DEF ScheduleInv, onFork
  <2>6. AnnounceTypes' /\ TopicInv'
    BY <1>1, <2>1, AnnouncerStays, TopicsStay
  <2>7. QED  BY <2>3, <2>4, <2>5, <2>6 DEF LifecycleInv
<1>4. CASE ~onFork
  <2>1. begins(T)
    BY <1>4 DEF starts
  <2>2. StoryInv'
    BY <1>1, <1>4, <2>1, BeginsKeeps
  <2>3. TickTypes' /\ AnnounceTypes' /\ TopicInv'
    BY <1>1, <2>1, BeginsSets
  <2>4. ScheduleInv'
    BY <1>1, <1>2, <1>4, <2>1 DEF begins, ScheduleInv, onFork, None
  <2>5. QED  BY <2>2, <2>3, <2>4 DEF LifecycleInv
<1>5. QED  BY <1>3, <1>4

LEMMA PollKeeps == ASSUME LifecycleInv, poll PROVE LifecycleInv'
<1>1. /\ TickTypes /\ AnnounceTypes /\ StoryInv /\ ScheduleInv /\ TopicInv
      /\ UNCHANGED <<lifecycleCase, chainSide>> /\ polledHead' = headTime
      /\ UNCHANGED <<headTime, finishLog>>
  BY DEF LifecycleInv, poll, chainSide
<1>2. /\ lastTickTime \in Int /\ latestClose \in Int /\ queuedHead \in Int /\ headTime \in Nat
      /\ polledHead' \in Seconds
      /\ ~onFork => lastTickTime <= headTime /\ queuedHead <= headTime
      /\ latestClose <= lastTickTime \/ (~onFork /\ latestClose <= queuedHead)
  BY <1>1 DEF StoryInv, BatchTypes, TickTypes, Seconds, None, ScheduleInv, ClockInv
<1>3. CASE tickStage = "idle"
  <2>1. starts(headTime) /\ queuedHead' = queuedHead /\ queuedHead = None /\ announcing = "off"
    BY <1>1, <1>3 DEF poll, ScheduleInv, TickTypes, Reading, TopicStages
  <2>2. ~onFork => lastTickTime <= headTime /\ latestClose <= headTime
    BY <1>2
  <2>3. QED  BY <1>1, <1>2, <2>1, <2>2, StartsKeeps
<1>4. CASE tickStage # "idle"
  <2>1. /\ queuedHead' = headTime /\ queuedHead' \in Seconds
        /\ UNCHANGED <<tickStage, tickTime, lastTickTime, topicState, announcer>>
    BY <1>1, <1>2, <1>4 DEF poll, Seconds
  <2>2. TickTypes'
    BY <1>1, <1>2, <2>1 DEF TickTypes, announcer
  <2>3. ScheduleInv'
    BY <1>1, <1>2, <1>4, <2>1 DEF ScheduleInv, onFork
  <2>4. AnnounceTypes' /\ TopicInv'
    BY <1>1, <2>1, AnnouncerStays, TopicsStay
  <2>5. CASE ~onFork /\ lastTickTime # None /\ headTime >= lastTickTime
    <3>1. closeDue(headTime, trackedBatches) /\ UNCHANGED openBatch
      BY <1>4, <2>5 DEF poll
    <3>2. latestClose <= headTime
      BY <1>2, <2>5
    <3>3. /\ BatchTypes' /\ TrackedGood(trackedBatches, frames, openBatch)' /\ FramesGood(frames)'
          /\ latestClose' <= headTime
          /\ \A k \in DOMAIN frames' : frames'[k][3] <= latestClose' \/ frames'[k][3] <= lastTickTime
      BY <1>1, <1>2, <2>5, <3>1, <3>2, CloseDueKeeps
    <3>4. ClockInv'
      BY <1>1, <2>1, <2>5, <3>1, <3>3 DEF StoryInv, ClockInv, onFork
    <3>5. StoryInv'
      BY <3>3, <3>4 DEF StoryInv
    <3>6. QED  BY <2>2, <2>3, <2>4, <3>5 DEF LifecycleInv
  <2>6. CASE UNCHANGED batchState
    <3>1. latestClose <= lastTickTime \/ latestClose <= queuedHead'
      BY <1>2, <2>1
    <3>2. StoryInv'
      BY <1>1, <2>1, <2>6, <3>1, StoryStays
    <3>3. QED  BY <2>2, <2>3, <2>4, <3>2 DEF LifecycleInv
  <2>7. QED  BY <1>4, <2>5, <2>6 DEF poll
<1>5. QED  BY <1>3, <1>4

LEMMA ReadStampKeeps == ASSUME LifecycleInv, readStamp PROVE LifecycleInv'
<1>1. /\ TickTypes /\ AnnounceTypes /\ StoryInv /\ ScheduleInv /\ TopicInv
      /\ UNCHANGED <<lifecycleCase, polledHead, queuedHead, headTime, finishLog>>
      /\ tickStage = "stamp" /\ onFork /\ announcing = "off"
  BY DEF LifecycleInv, readStamp, chainSide, ScheduleInv, TickTypes, Reading, TopicStages
<1>2. /\ tickTime \in Nat /\ polledHead' \in Seconds /\ queuedHead' \in Seconds
      /\ latestClose <= lastTickTime /\ latestClose \in Int /\ lastTickTime \in Int
  BY <1>1 DEF StoryInv, BatchTypes, TickTypes, Seconds, None, ClockInv
<1>3. CASE begins(tickTime)
  <2>1. StoryInv'
    BY <1>1, <1>2, <1>3, BeginsKeeps
  <2>2. TickTypes' /\ AnnounceTypes' /\ TopicInv'
    BY <1>1, <1>2, <1>3, BeginsSets
  <2>3. ScheduleInv'
    BY <1>1, <1>3 DEF begins, ScheduleInv, onFork
  <2>4. QED  BY <2>1, <2>2, <2>3 DEF LifecycleInv
<1>4. CASE tickStage' = "end" /\ UNCHANGED <<tickTime, lastTickTime, batchState, topicState, announcer>>
  <2>1. StoryInv'
    BY <1>1, <1>2, <1>4, StoryStays
  <2>2. TickTypes' /\ ScheduleInv'
    BY <1>1, <1>4 DEF TickTypes, ScheduleInv, onFork, announcer, Reading, TopicStages
  <2>3. AnnounceTypes' /\ TopicInv'
    BY <1>1, <1>4, AnnouncerStays, TopicsStay
  <2>4. QED  BY <2>1, <2>2, <2>3 DEF LifecycleInv
<1>5. QED  BY <1>3, <1>4 DEF readStamp

LEMMA EndTickKeeps == ASSUME LifecycleInv, endTick PROVE LifecycleInv'
<1>1. /\ TickTypes /\ AnnounceTypes /\ StoryInv /\ ScheduleInv /\ TopicInv
      /\ UNCHANGED <<lifecycleCase, polledHead, headTime, finishLog, chainSide>>
      /\ tickStage = "end" /\ announcing = "off" /\ queuedHead' = None
  BY DEF LifecycleInv, endTick, chainSide
<1>2. /\ polledHead' \in Seconds /\ queuedHead' \in Seconds
      /\ latestClose \in Int /\ lastTickTime \in Int /\ queuedHead \in Seconds
      /\ latestClose <= lastTickTime \/ (~onFork /\ latestClose <= queuedHead)
      /\ ~onFork => queuedHead <= headTime /\ (queuedHead # None => lastTickTime <= queuedHead)
  BY <1>1 DEF StoryInv, BatchTypes, TickTypes, Seconds, None, ClockInv, ScheduleInv
<1>3. CASE queuedHead = None
  <2>1. tickStage' = "idle" /\ UNCHANGED <<tickTime, lastTickTime, batchState, topicState, announcer>>
    BY <1>3 DEF endTick
  <2>2. StoryInv'
    BY <1>1, <1>2, <1>3, <2>1, StoryStays DEF None
  <2>3. TickTypes' /\ ScheduleInv'
    BY <1>1, <1>2, <1>3, <2>1 DEF TickTypes, ScheduleInv, onFork, announcer, Reading, TopicStages
  <2>4. AnnounceTypes' /\ TopicInv'
    BY <1>1, <2>1, AnnouncerStays, TopicsStay
  <2>5. QED  BY <2>2, <2>3, <2>4 DEF LifecycleInv
<1>4. CASE queuedHead # None
  <2>1. starts(queuedHead) /\ queuedHead \in Nat
    BY <1>2, <1>4 DEF endTick, Seconds
  <2>2. ~onFork => lastTickTime <= queuedHead /\ latestClose <= queuedHead /\ queuedHead <= headTime
    BY <1>2, <1>4, <2>1
  <2>3. QED  BY <1>1, <1>2, <2>1, <2>2, StartsKeeps
<1>5. QED  BY <1>3, <1>4

\* The chain's own steps.
LEMMA ChainSideKeeps ==
  ASSUME LifecycleInv, UNCHANGED <<lifecycleCase, schedule, batchState, topicState, announcer>>,
         headTime' \in Nat, headTime <= headTime' \/ onFork, finishLog' \in [LifecycleBatches -> Seconds]
  PROVE  LifecycleInv'
<1>1. /\ TickTypes /\ AnnounceTypes /\ StoryInv /\ ScheduleInv /\ TopicInv
      /\ UNCHANGED <<polledHead, queuedHead, tickStage, tickTime, lastTickTime>>
      /\ UNCHANGED <<announcing, logCursor, waitingReceipts, toldOutcomes, gaveUp>>
  BY DEF LifecycleInv, schedule, announcer
<1>2. /\ latestClose \in Int /\ lastTickTime \in Int /\ queuedHead \in Seconds /\ headTime \in Nat
      /\ queuedHead \in Int
      /\ latestClose <= lastTickTime \/ (~onFork /\ latestClose <= queuedHead)
  BY <1>1 DEF StoryInv, BatchTypes, TickTypes, Seconds, None, ClockInv
<1>3. StoryInv'
  BY <1>1, <1>2, StoryStays
<1>4. TickTypes' /\ AnnounceTypes'
  BY <1>1 DEF TickTypes, AnnounceTypes
<1>5. ScheduleInv'
  BY <1>1, <1>2 DEF ScheduleInv, onFork
<1>6. QED  BY <1>1, <1>3, <1>4, <1>5, TopicsStay DEF LifecycleInv

LEMMA MinedKeeps == ASSUME LifecycleInv, Mined PROVE LifecycleInv'
<1>1. /\ headTime \in Nat /\ headTime' = headTime + 1 /\ finishLog \in [LifecycleBatches -> Seconds]
  BY DEF LifecycleInv, TickTypes, AnnounceTypes, Mined
<1>2. finishLog' \in [LifecycleBatches -> Seconds]
  BY <1>1 DEF Mined, Seconds
<1>3. headTime' \in Nat /\ headTime <= headTime'
  BY <1>1
<1>4. QED  BY <1>2, <1>3, ChainSideKeeps DEF Mined

LEMMA RevertedKeeps == ASSUME LifecycleInv, Reverted PROVE LifecycleInv'
<1>1. /\ headTime \in Nat /\ finishLog \in [LifecycleBatches -> Seconds] /\ onFork
  BY DEF LifecycleInv, TickTypes, AnnounceTypes, Reverted
<1>2. PICK h \in 1..(headTime - 1) :
        /\ headTime' = h
        /\ finishLog' = [b \in LifecycleBatches |-> IF finishLog[b] > h THEN None ELSE finishLog[b]]
  BY DEF Reverted
<1>3. headTime' \in Nat /\ finishLog' \in [LifecycleBatches -> Seconds]
  BY <1>1, <1>2 DEF Seconds
<1>4. QED  BY <1>1, <1>3, ChainSideKeeps DEF Reverted

LEMMA IndexedKeeps == ASSUME LifecycleInv, NEW b \in LifecycleBatches, Indexed(b) PROVE LifecycleInv'
<1>1. /\ headTime' \in Nat /\ headTime \in Int /\ headTime <= headTime' /\ finishLog' \in [LifecycleBatches -> Seconds]
  BY DEF LifecycleInv, TickTypes, AnnounceTypes, Indexed
<1>2. QED  BY <1>1, ChainSideKeeps DEF Indexed

\* The announcer's steps leave the tick and what the topics hold.
LEMMA AnnouncerKeeps ==
  ASSUME LifecycleInv, AnnouncerAside, announcing # "off", announcing' \in {"off", "logs", "receipts"},
         AnnounceTypes'
  PROVE  LifecycleInv'
<1>1. /\ TickTypes /\ StoryInv /\ ScheduleInv /\ TopicInv
      /\ UNCHANGED <<lifecycleCase, headTime, finishLog, polledHead, queuedHead, tickStage, tickTime, lastTickTime>>
      /\ UNCHANGED batchState /\ UNCHANGED topicState
  BY DEF LifecycleInv, schedule, chainSide, AnnouncerAside
<1>2. /\ latestClose \in Int /\ lastTickTime \in Int /\ queuedHead' \in Seconds
      /\ latestClose <= lastTickTime \/ latestClose <= queuedHead'
  BY <1>1 DEF StoryInv, BatchTypes, TickTypes, Seconds, None, ClockInv
<1>3. StoryInv'
  BY <1>1, <1>2, StoryStays
<1>4. TickTypes' /\ ScheduleInv'
  BY <1>1 DEF TickTypes, ScheduleInv, onFork
<1>5. QED  BY <1>1, <1>3, <1>4, TopicsStay DEF LifecycleInv

LEMMA ReadLogsKeeps == ASSUME LifecycleInv, readLogs PROVE LifecycleInv'
<1>1. /\ tickTime \in Nat /\ AnnounceTypes /\ LogRange \in Nat /\ MaxLogChunks \in Nat
      /\ UNCHANGED <<toldOutcomes, gaveUp>> /\ AnnouncerAside /\ announcing = "logs" /\ UNCHANGED finishLog
  BY LifecycleNumbers DEF LifecycleInv, TickTypes, readLogs, AnnouncerAside, chainSide
<1>2. \A from, to : LogsIn(from, to) \subseteq LifecycleBatches
  BY DEF LogsIn
<1>3. CASE logCursor = None \/ logCursor > tickTime
  <2>1. logCursor' = tickTime + 1 /\ announcing' = "receipts" /\ UNCHANGED waitingReceipts
    BY <1>3 DEF readLogs
  <2>2. AnnounceTypes'
    BY <1>1, <2>1 DEF AnnounceTypes, Seconds
  <2>3. QED  BY <1>1, <2>1, <2>2, AnnouncerKeeps
<1>4. CASE ~(logCursor = None \/ logCursor > tickTime)
  <2> DEFINE last == logCursor + LogRange - 1
             to   == IF last < tickTime THEN last ELSE tickTime
  <2>1. logCursor \in Nat /\ to \in Int /\ to + 1 \in Nat
    BY <1>1, <1>4 DEF AnnounceTypes, Seconds
  <2>2. CASE /\ waitingReceipts' = waitingReceipts \cup LogsIn(logCursor, to)
             /\ logCursor' = to + 1 /\ logChunks' = logChunks + 1
             /\ announcing' = IF to = tickTime \/ logChunks' = MaxLogChunks THEN "receipts" ELSE "logs"
    <3>1. AnnounceTypes'
      BY <1>1, <1>2, <2>1, <2>2 DEF AnnounceTypes, Seconds
    <3>2. announcing' \in {"off", "logs", "receipts"}
      BY <2>2
    <3>3. QED  BY <1>1, <3>1, <3>2, AnnouncerKeeps
  <2>3. CASE /\ announcing' = "off" /\ cursorFailed(to)
             /\ \E heard \in SUBSET LogsIn(logCursor, to) : waitingReceipts' = waitingReceipts \cup heard
    <3>1. AnnounceTypes'
      BY <1>1, <1>2, <2>3 DEF AnnounceTypes, Seconds, cursorFailed
    <3>2. QED  BY <1>1, <2>3, <3>1, AnnouncerKeeps
  <2>4. QED  BY <1>4, <2>2, <2>3 DEF readLogs
<1>5. QED  BY <1>3, <1>4

LEMMA DeliverKeeps == ASSUME LifecycleInv, deliverReceipts PROVE LifecycleInv'
<1>1. /\ AnnounceTypes /\ AnnouncerAside /\ announcing = "receipts" /\ announcing' = "off"
      /\ UNCHANGED logCursor /\ UNCHANGED finishLog
  BY DEF LifecycleInv, deliverReceipts, AnnouncerAside, chainSide
<1>2. \E ready, late :
        /\ late \subseteq waitingReceipts
        /\ toldOutcomes' = [b \in LifecycleBatches |-> IF b \in ready THEN toldOutcomes[b] + 1 ELSE toldOutcomes[b]]
        /\ gaveUp' = gaveUp \cup late
        /\ waitingReceipts' = (waitingReceipts \ ready) \ late
  <2>1. PICK unseen : LET ready == (waitingReceipts \cap hasReceipt) \ unseen
                          late  == {b \in waitingReceipts \ ready : waitedEnough(b)}
                      IN  /\ toldOutcomes' = [b \in LifecycleBatches |->
                               IF b \in ready THEN toldOutcomes[b] + 1 ELSE toldOutcomes[b]]
                          /\ gaveUp' = gaveUp \cup late
                          /\ waitingReceipts' = (waitingReceipts \ ready) \ late
    BY DEF deliverReceipts
  <2> DEFINE ready == (waitingReceipts \cap hasReceipt) \ unseen
             late  == {b \in waitingReceipts \ ready : waitedEnough(b)}
  <2>2. late \subseteq waitingReceipts
    OBVIOUS
  <2>3. QED  BY <2>1, <2>2
<1>3. AnnounceTypes'
  BY <1>1, <1>2 DEF AnnounceTypes
<1>4. QED  BY <1>1, <1>3, AnnouncerKeeps

\* What a tick's reads leave alone.
LEMMA TickReadKeeps ==
  ASSUME LifecycleInv,
         UNCHANGED <<lifecycleCase, chainSide, polledHead, queuedHead, tickTime, lastTickTime, announcer>>,
         tickStage \in Reading, tickStage' \in {"end"} \cup Reading, StoryInv', TopicInv'
  PROVE  LifecycleInv'
<1>1. /\ TickTypes /\ AnnounceTypes /\ ScheduleInv
      /\ UNCHANGED <<headTime, finishLog, announcing>>
  BY DEF LifecycleInv, chainSide, announcer
<1>2. TickTypes'
  BY <1>1 DEF TickTypes, Reading, TopicStages
<1>3. ScheduleInv'
  BY <1>1 DEF ScheduleInv, onFork, Reading, TopicStages
<1>4. QED  BY <1>1, <1>2, <1>3, AnnouncerStays DEF LifecycleInv

LEMMA ReadTopicKeeps == ASSUME LifecycleInv, readTopic PROVE LifecycleInv'
<1>1. /\ TickTypes /\ StoryInv /\ TopicInv
      /\ UNCHANGED <<lifecycleCase, chainSide, polledHead, queuedHead, tickTime, lastTickTime, announcer>>
      /\ tickStage \in TopicStages /\ tickStage \in Reading
  <2>1. Len(Topics) = 3 /\ \A j \in 1..3 : Topics[j] \in TopicStages
    BY DEF Topics, TopicStages
  <2>2. tickStage \in {Topics[j] : j \in 1..Len(Topics)}
    BY DEF readTopic
  <2>3. tickStage \in TopicStages
    BY <2>1, <2>2
  <2>4. QED  BY <2>3 DEF LifecycleInv, readTopic, Reading
<1> DEFINE k     == TopicNo(tickStage)
           value == TopicAt[k][tickTime]
<1>2. k \in 1..Len(Topics) /\ Topics[k] = tickStage
  BY <1>1 DEF TopicNo, Topics, TopicStages
<1>3. \/ ReadFails
      \/ tellsOf(k, value) /\ tickStage' = "end" /\ frameFailed(k, value) /\ UNCHANGED batchState
      \/ tickStage' = NextStage(k) /\ remembered(k, value) /\ UNCHANGED batchState
  BY DEF readTopic
<1> HIDE DEF k, value
<1>4. UNCHANGED batchState
  BY <1>3 DEF ReadFails
<1>5. StoryInv'
  <2>1. /\ latestClose <= lastTickTime \/ latestClose <= queuedHead'
        /\ queuedHead' \in Seconds
    BY <1>1 DEF StoryInv, ClockInv, TickTypes
  <2>2. QED  BY <1>1, <1>4, <2>1, StoryStays
<1>6. tickStage' \in {"end"} \cup Reading
  <2>1. NextStage(k) \in {"end"} \cup Reading
    BY <1>2 DEF NextStage, Topics, Reading, TopicStages
  <2>2. QED  BY <1>3, <2>1 DEF ReadFails
<1>7. TopicInv'
  <2>1. CASE UNCHANGED topicState
    BY <1>1, <2>1, TopicsStay
  <2>2. /\ DOMAIN knownTopics = 1..Len(Topics) /\ DOMAIN turnedFrom = 1..Len(Topics) /\ DOMAIN toldTopics = 1..Len(Topics)
        /\ \A j \in 1..Len(Topics) : TopicTold(j, knownTopics[j], turnedFrom[j], toldTopics[j])
    BY <1>1 DEF TopicInv, TopicsUpToDate, TopicTold
  <2>3. ASSUME NEW v, NEW w, NEW u,
               knownTopics' = [knownTopics EXCEPT ![k] = v], turnedFrom' = [turnedFrom EXCEPT ![k] = w],
               toldTopics' = [toldTopics EXCEPT ![k] = u], TopicTold(k, v, w, u)
        PROVE  TopicInv'
    <3>1. /\ knownTopics' = [j \in 1..Len(Topics) |-> knownTopics'[j]]
          /\ turnedFrom' = [j \in 1..Len(Topics) |-> turnedFrom'[j]]
          /\ toldTopics' = [j \in 1..Len(Topics) |-> toldTopics'[j]]
      BY <2>2, <2>3
    <3>2. ASSUME NEW j \in 1..Len(Topics) PROVE TopicTold(j, knownTopics'[j], turnedFrom'[j], toldTopics'[j])
      <4>1. CASE j = k
        <5>1. knownTopics'[k] = v /\ turnedFrom'[k] = w /\ toldTopics'[k] = u
          BY <1>2, <2>2, <2>3
        <5>2. QED  BY <2>3, <4>1, <5>1
      <4>2. CASE j # k
        <5>1. knownTopics'[j] = knownTopics[j] /\ turnedFrom'[j] = turnedFrom[j] /\ toldTopics'[j] = toldTopics[j]
          BY <2>2, <2>3, <4>2
        <5>2. QED  BY <2>2, <5>1
      <4>3. QED  BY <4>1, <4>2
    <3>3. QED  BY <3>1, <3>2 DEF TopicInv, TopicsUpToDate, TopicTold
  <2>4. CASE tellsOf(k, value) /\ frameFailed(k, value)
    <3>1. CASE UNCHANGED toldTopics
      BY <1>1, <2>4, <3>1, TopicsStay DEF frameFailed, topicState
    <3>2. CASE Topics[k] = "oracle" /\ toldTopics' = [toldTopics EXCEPT ![k] = value]
      <4>1. TopicTold(k, knownTopics[k], turnedFrom[k], value)
        BY <2>4, <3>2 DEF TopicTold, tellsOf, Healthy, Unhealthy
      <4>2. knownTopics' = [knownTopics EXCEPT ![k] = knownTopics[k]] /\ turnedFrom' = [turnedFrom EXCEPT ![k] = turnedFrom[k]]
        <5>1. knownTopics' = knownTopics /\ turnedFrom' = turnedFrom
          BY <2>4 DEF frameFailed
        <5>2. knownTopics = [j \in 1..Len(Topics) |-> knownTopics[j]] /\ turnedFrom = [j \in 1..Len(Topics) |-> turnedFrom[j]]
          BY <1>1 DEF TopicInv
        <5>3. QED  BY <5>1, <5>2
      <4>3. QED  BY <2>3, <3>2, <4>1, <4>2
    <3>3. QED  BY <2>4, <3>1, <3>2 DEF frameFailed
  <2>5. CASE remembered(k, value) /\ value = knownTopics[k]
    <3>1. UNCHANGED <<turnedFrom, toldTopics>>
      BY <2>5 DEF remembered
    <3>2. knownTopics' = knownTopics
      <4>1. knownTopics = [j \in 1..Len(Topics) |-> knownTopics[j]]
        BY <1>1 DEF TopicInv
      <4>2. knownTopics' = [knownTopics EXCEPT ![k] = knownTopics[k]]
        BY <2>5 DEF remembered
      <4>3. QED  BY <4>1, <4>2
    <3>3. QED  BY <1>1, <3>1, <3>2, TopicsStay DEF topicState
  <2>6. CASE remembered(k, value) /\ value # knownTopics[k]
    <3>1. PICK u : u = IF tellsOf(k, value) THEN value ELSE None
      OBVIOUS
    <3>2. /\ knownTopics' = [knownTopics EXCEPT ![k] = value] /\ turnedFrom' = [turnedFrom EXCEPT ![k] = knownTopics[k]]
          /\ toldTopics' = [toldTopics EXCEPT ![k] = u]
      BY <2>6, <3>1 DEF remembered
    <3>3. TopicTold(k, value, knownTopics[k], u)
      BY <2>6, <3>1 DEF TopicTold, tellsOf, Healthy, Unhealthy, None
    <3>4. QED  BY <2>3, <3>2, <3>3
  <2>7. QED  BY <1>3, <2>1, <2>4, <2>5, <2>6 DEF ReadFails, topicState
<1>8. QED  BY <1>1, <1>5, <1>6, <1>7, TickReadKeeps

\* openWindow names batches in the order of time.
LEMMA NamedAfter ==
  ASSUME NEW T \in Nat, namedAt(T) # None
  PROVE  /\ namedAt(T) \in Nat
         /\ \E m \in Nat : namedAt(T) = m * BatchSeconds /\ namedAt(T) <= T + BatchSeconds
         /\ \A n \in Nat : n * BatchSeconds <= T + BatchSeconds => n * BatchSeconds <= namedAt(T)
<1> DEFINE q == T \div BatchSeconds
<1>1. q \in Nat /\ q * BatchSeconds <= T /\ T < q * BatchSeconds + BatchSeconds
  BY LifecycleNumbers
<1>2. namedAt(T) = (q + 1) * BatchSeconds
  BY DEF namedAt
<1> HIDE DEF q
<1>3. (q + 1) * BatchSeconds = q * BatchSeconds + BatchSeconds /\ q * BatchSeconds \in Nat
  BY <1>1, LifecycleNumbers
<1>4. ASSUME NEW n \in Nat, n * BatchSeconds <= T + BatchSeconds
      PROVE  n * BatchSeconds <= (q + 1) * BatchSeconds
  <2>1. CASE n <= q + 1
    BY <1>1, <2>1, LifecycleNumbers
  <2>2. CASE n >= q + 2
    <3>1. (q + 2) * BatchSeconds <= n * BatchSeconds
      BY <1>1, <2>2, LifecycleNumbers
    <3>2. (q + 2) * BatchSeconds = q * BatchSeconds + BatchSeconds + BatchSeconds
      BY <1>1, LifecycleNumbers
    <3>3. n * BatchSeconds \in Nat
      BY LifecycleNumbers
    <3>4. QED  BY <1>1, <1>3, <1>4, <3>1, <3>2, <3>3, LifecycleNumbers
  <2>3. QED  BY <1>1, <2>1, <2>2
<1>5. namedAt(T) \in Nat /\ namedAt(T) <= T + BatchSeconds
  BY <1>1, <1>2, <1>3, LifecycleNumbers
<1>6. QED  BY <1>1, <1>2, <1>4, <1>5

LEMMA ReadCurrentKeeps == ASSUME LifecycleInv, readCurrent PROVE LifecycleInv'
<1> DEFINE id == namedAt(tickTime)
           named == IF latestClose > tickTime THEN latestClose ELSE tickTime
<1>1. /\ TickTypes /\ StoryInv /\ TopicInv
      /\ UNCHANGED <<lifecycleCase, chainSide, polledHead, queuedHead, tickTime, lastTickTime, announcer>>
      /\ tickStage = "current" /\ tickStage \in Reading /\ lastTickTime = tickTime
      /\ BatchTypes /\ TrackedGood(trackedBatches, frames, openBatch) /\ FramesGood(frames) /\ ClockInv
  BY DEF LifecycleInv, readCurrent, Reading, TickTypes, StoryInv
<1>2. \/ ReadFails
      \/ /\ tickStage' = "session" /\ id # None /\ openNow(id) /\ openBatch' = id
         /\ trackedBatches' = evict(Append(trackedBatches, <<id, "collects">>))
         /\ frames' = Append(frames, <<"opened", id, named>>) /\ UNCHANGED <<latestClose, topicState>>
      \/ /\ tickStage' = "session" /\ trackedBatches' = evict(trackedBatches)
         /\ UNCHANGED <<openBatch, frames, latestClose, topicState>>
  BY DEF readCurrent
<1>3. tickStage' \in {"end"} \cup Reading /\ UNCHANGED topicState
  BY <1>2 DEF ReadFails, Reading, TopicStages
<1>4. StoryInv'
  <2>1. CASE ReadFails
    <3>1. latestClose <= lastTickTime \/ latestClose <= queuedHead'
      BY <1>1 DEF ClockInv
    <3>2. QED  BY <1>1, <2>1, <3>1, StoryStays DEF ReadFails, TickTypes
  <2>2. CASE /\ trackedBatches' = evict(trackedBatches)
             /\ UNCHANGED <<openBatch, frames, latestClose, topicState>>
    <3>1. trackedBatches' \in Seq(Tracked) /\ TrackedGood(trackedBatches', frames, openBatch)
      BY <1>1, <2>2, EvictKeeps DEF BatchTypes
    <3>2. TrackedGood(trackedBatches, frames, openBatch)'
      BY <2>2, <3>1
    <3>3. BatchTypes' /\ FramesGood(frames)' /\ ClockInv'
      BY <1>1, <2>2, <3>1 DEF BatchTypes, ClockInv, onFork
    <3>4. QED  BY <3>2, <3>3 DEF StoryInv
  <2>3. CASE /\ id # None /\ openNow(id) /\ openBatch' = id
             /\ trackedBatches' = evict(Append(trackedBatches, <<id, "collects">>))
             /\ frames' = Append(frames, <<"opened", id, named>>) /\ UNCHANGED latestClose
    <3>1. /\ tickTime \in Nat
          /\ latestClose \in Seconds /\ latestClose \in Int
          /\ openBatch \in Seconds /\ openBatch \in Int
      BY <1>1 DEF TickTypes, BatchTypes, Seconds, None
    <3>2. /\ id \in Nat
          /\ \E m \in Nat : id = m * BatchSeconds /\ id <= tickTime + BatchSeconds
          /\ \A n \in Nat : n * BatchSeconds <= tickTime + BatchSeconds => n * BatchSeconds <= id
      BY <2>3, <3>1, NamedAfter
    <3> HIDE DEF id
    <3>3. openBatch < id
      <4>1. CASE openBatch = None
        BY <3>2, <4>1 DEF None
      <4>2. CASE openBatch # None
        <5>1. openBatch <= id
          BY <1>1, <3>2, <4>2 DEF ClockInv
        <5>2. QED  BY <2>3, <3>1, <3>2, <5>1 DEF openNow
      <4>3. QED  BY <4>1, <4>2
    <3>4. \A k \in DOMAIN trackedBatches : trackedBatches[k][2] # "collects"
      <4> SUFFICES ASSUME NEW k \in DOMAIN trackedBatches, trackedBatches[k][2] = "collects" PROVE FALSE
        OBVIOUS
      <4>1. trackedBatches[k] \in Tracked
        BY <1>1 DEF BatchTypes
      <4>2. trackedBatches[k][1] \in Nat
        BY <4>1 DEF Tracked
      <4>3. trackedBatches[k][1] <= openBatch
        BY <1>1 DEF TrackedGood
      <4>4. QED  BY <2>3, <3>1, <3>2, <3>3, <4>2, <4>3 DEF openNow
    <3>5. named \in Nat /\ tickTime <= named /\ latestClose <= named /\ (named = tickTime \/ named = latestClose)
      BY <3>1 DEF Seconds, None
    <3> HIDE DEF named
    <3>6. \A k \in DOMAIN frames : frames[k][3] \in Nat /\ frames[k][3] <= named
      <4> SUFFICES ASSUME NEW k \in DOMAIN frames PROVE frames[k][3] \in Nat /\ frames[k][3] <= named
        OBVIOUS
      <4>1. frames[k] \in FrameKinds
        BY <1>1 DEF BatchTypes
      <4>2. frames[k][3] \in Nat
        BY <4>1 DEF FrameKinds
      <4>3. frames[k][3] <= tickTime \/ frames[k][3] <= latestClose
        BY <1>1 DEF ClockInv
      <4>4. QED  BY <3>1, <3>5, <4>2, <4>3
    <3> DEFINE new == Append(trackedBatches, <<id, "collects">>)
               nf  == Append(frames, <<"opened", id, named>>)
    <3>7. new \in Seq(Tracked) /\ nf \in Seq(FrameKinds) /\ TrackedGood(new, nf, id) /\ FramesGood(nf)
      BY <1>1, <3>1, <3>2, <3>3, <3>4, <3>5, <3>6, OpenKeeps DEF BatchTypes
    <3>8. evict(new) \in Seq(Tracked) /\ TrackedGood(evict(new), nf, id)
      BY <3>7, EvictKeeps
    <3>9. trackedBatches' = evict(new) /\ frames' = nf /\ openBatch' = id /\ latestClose' = latestClose
      BY <2>3
    <3>10. \A k \in DOMAIN nf : nf[k][3] <= tickTime \/ nf[k][3] <= latestClose
      <4>1. <<"opened", id, named>> \in FrameKinds /\ <<"opened", id, named>>[3] = named
        BY <3>2, <3>5 DEF FrameKinds
      <4>2. \A k \in DOMAIN nf : (k \in DOMAIN frames /\ nf[k] = frames[k]) \/ nf[k] = <<"opened", id, named>>
        BY <1>1, <4>1, FrameAppended DEF BatchTypes
      <4>3. named <= tickTime \/ named <= latestClose
        BY <3>5
      <4>4. QED  BY <1>1, <4>1, <4>2, <4>3 DEF ClockInv
    <3> HIDE DEF new, nf
    <3>11. BatchTypes' /\ TrackedGood(trackedBatches, frames, openBatch)' /\ FramesGood(frames)'
      BY <3>1, <3>2, <3>7, <3>8, <3>9 DEF BatchTypes, Seconds
    <3>12. ClockInv'
      <4>1. latestClose' <= lastTickTime' \/ (~onFork' /\ latestClose' <= queuedHead')
        BY <1>1, <3>9 DEF ClockInv, onFork
      <4>2. lastTickTime' = tickTime /\ tickTime # None
        BY <1>1, <3>1 DEF None
      <4>3. QED  BY <3>2, <3>9, <3>10, <4>1, <4>2 DEF ClockInv
    <3>13. QED  BY <3>11, <3>12 DEF StoryInv
  <2>4. QED  BY <1>2, <2>1, <2>2, <2>3
<1>5. QED  BY <1>1, <1>3, <1>4, TopicsStay, TickReadKeeps

LEMMA LifecycleStart == LifecycleInit => LifecycleInv
<1> SUFFICES ASSUME LifecycleInit PROVE LifecycleInv
  OBVIOUS
<1>1. TickTypes
  BY DEF LifecycleInit, TickTypes, Seconds, None, Reading, TopicStages
<1>1a. AnnounceTypes
  BY DEF LifecycleInit, AnnounceTypes, Seconds
<1>1b. ScheduleInv
  BY DEF LifecycleInit, ScheduleInv, None
<1>2. FramesGood(<<>>) /\ TrackedGood(<<>>, <<>>, None)
  BY DEF FramesGood, HeardOnce, ClosesWhatOpened, OpensAfterClose, TimesRise, TrackedGood, OneCollects
<1>3. <<>> \in Seq(Tracked) /\ <<>> \in Seq(FrameKinds)
  OBVIOUS
<1>4. StoryInv
  BY <1>2, <1>3 DEF LifecycleInit, StoryInv, BatchTypes, ClockInv, Seconds, None
<1>5. \A k \in 1..Len(Topics) : Unknown[k] = None
  BY DEF Unknown
<1>6. TopicInv
  BY <1>5 DEF LifecycleInit, TopicInv, TopicsUpToDate, Unknown, None, Healthy
<1>7. QED  BY <1>1, <1>1a, <1>1b, <1>4, <1>6 DEF LifecycleInv

LEMMA LifecycleStep == LifecycleInv /\ [LifecycleNext]_lifecycleVars => LifecycleInv'
<1> SUFFICES ASSUME LifecycleInv, [LifecycleNext]_lifecycleVars PROVE LifecycleInv'
  OBVIOUS
<1>1. CASE UNCHANGED lifecycleVars
  <2>1. UNCHANGED <<lifecycleCase, chainSide, schedule, batchState, topicState, announcer>>
    BY <1>1 DEF lifecycleVars
  <2>2. headTime' = headTime /\ finishLog' = finishLog
    BY <2>1 DEF chainSide
  <2>3. headTime \in Nat /\ finishLog \in [LifecycleBatches -> Seconds]
    BY DEF LifecycleInv, TickTypes, AnnounceTypes
  <2>4. QED  BY <2>1, <2>2, <2>3, ChainSideKeeps
<1>2. CASE LifecycleNext
  BY <1>2, MinedKeeps, RevertedKeeps, IndexedKeeps, PollKeeps, ReadStampKeeps, ReadCurrentKeeps, ReadTopicKeeps,
     ReadLogsKeeps, DeliverKeeps, EndTickKeeps
  DEF LifecycleNext
<1>3. QED  BY <1>1, <1>2

LEMMA AtMostOne ==
  ASSUME NEW S, \A i, k \in S : i = k
  PROVE  Cardinality(S) <= 1
<1>1. CASE S = {}
  BY <1>1, FS_EmptySet
<1>2. CASE S # {}
  <2>1. PICK x \in S : TRUE
    BY <1>2
  <2>2. S = {x}
    BY <2>1
  <2>3. QED  BY <2>2, FS_Singleton
<1>3. QED  BY <1>1, <1>2

LEMMA StoryHeard == LifecycleInv => ListenersUpToDate
<1> SUFFICES ASSUME LifecycleInv PROVE ListenersUpToDate
  OBVIOUS
<1>1. /\ HeardOnce(frames) /\ ClosesWhatOpened(frames) /\ OpensAfterClose(frames) /\ TimesRise(frames)
      /\ frames \in Seq(FrameKinds) /\ TopicsUpToDate
  BY DEF LifecycleInv, StoryInv, BatchTypes, FramesGood, TopicInv
<1>2. DOMAIN frames = 1..Len(frames) /\ Len(frames) \in Nat
  BY <1>1
<1>3. ASSUME NEW b \in LifecycleBatches PROVE Cardinality(Opened(b)) <= 1 /\ Cardinality(Closed(b)) <= 1
  <2>1. \A i, k \in Opened(b) : i = k
    BY <1>1, <1>2 DEF Opened, HeardOnce
  <2>2. \A i, k \in Closed(b) : i = k
    BY <1>1, <1>2 DEF Closed, HeardOnce
  <2>3. QED  BY <2>1, <2>2, AtMostOne
<1>4. ASSUME NEW k \in 1..Len(frames), frames[k][1] = "closed"
      PROVE  \E i \in 1..(k - 1) : i \in Opened(frames[k][2])
  <2>1. PICK i \in DOMAIN frames : i < k /\ frames[i][1] = "opened" /\ frames[i][2] = frames[k][2]
    BY <1>1, <1>2, <1>4 DEF ClosesWhatOpened
  <2>2. i \in 1..(k - 1) /\ i \in Opened(frames[k][2])
    BY <1>2, <2>1 DEF Opened
  <2>3. QED  BY <2>2
<1>5. ASSUME NEW k \in 1..Len(frames), frames[k][1] = "opened", NEW i \in 1..(k - 1)
      PROVE  /\ frames[i][2] < frames[k][2] \/ frames[i][1] = "closed"
             /\ frames[i][1] = "opened" => \E c \in Closed(frames[i][2]) : c < k
  <2>1. i \in DOMAIN frames /\ k \in DOMAIN frames /\ i < k
    BY <1>2
  <2>2. /\ frames[i][2] < frames[k][2]
        /\ \E c \in DOMAIN frames : c < k /\ frames[c][1] = "closed" /\ frames[c][2] = frames[i][2]
    BY <1>1, <1>5, <2>1 DEF OpensAfterClose
  <2>3. PICK c \in DOMAIN frames : c < k /\ frames[c][1] = "closed" /\ frames[c][2] = frames[i][2]
    BY <2>2
  <2>4. c \in Closed(frames[i][2])
    BY <1>2, <2>3 DEF Closed
  <2>5. QED  BY <2>2, <2>3, <2>4
<1>6. \A i, k \in 1..Len(frames) : i < k => frames[i][3] <= frames[k][3]
  BY <1>1, <1>2 DEF TimesRise
<1>7. BatchesHeardInOrder
  BY <1>3, <1>4, <1>5, <1>6 DEF BatchesHeardInOrder
<1>8. QED  BY <1>1, <1>7 DEF ListenersUpToDate

\* A listener hears every batch open and close once, each closed before the next
\* opens and no frame earlier than one before it; knows the session and protection
\* as the lifecycle holds them, if it had the first reading; and was told of every
\* price that turned unhealthy from a healthy reading, of none whose reading before
\* was missing or which began unhealthy: over polls during a tick, reads that fail,
\* revert or hang, frames that fail, and forks put back (closeDue, tickOnce and
\* afterClose of lifecycle.ts).
THEOREM ListenersAlwaysUpToDate == LifecycleSpec => []ListenersUpToDate
<1>1. LifecycleSpec => []LifecycleInv
  BY LifecycleStart, LifecycleStep, PTL DEF LifecycleSpec
<1>2. QED  BY <1>1, StoryHeard, PTL

----------------------------------------------------------------------------
(* The outcomes of finished batches.                                       *)

\* A chain is never put back; a fork that is has no finished batches.
NeverPutBack ==
  \A c \in LifecycleCases : c[1] = "fork" /\ "revert" \in c[2] => "logs" \notin c[2]

\* A batch whose log was read: behind the cursor, or in a range whose reading
\* failed halfway and will be read again.
logRead(b) ==
  /\ finishLog[b] # None
  /\ \/ finishLog[b] < logCursor
     \/ /\ toldOutcomes[b] = 0 /\ b \in waitingReceipts /\ announcing # "receipts"
        /\ logCursor # None /\ logCursor <= finishLog[b]
        /\ finishLog[b] <= logCursor + LogRange - 1 /\ finishLog[b] <= lastTickTime

OutcomeOf(b) ==
  /\ toldOutcomes[b] <= 1
  /\ toldOutcomes[b] = 1 => b \notin waitingReceipts
  /\ b \in waitingReceipts \/ toldOutcomes[b] = 1 => logRead(b)
  /\ b \in gaveUp => finishLog[b] # None /\ lastTickTime > finishLog[b] + ReceiptWait

CursorInv ==
  /\ logCursor <= lastTickTime + 1
  /\ ~PartIn("logs") => \A b \in LifecycleBatches : finishLog[b] = None

OutcomeInv == CursorInv /\ \A b \in LifecycleBatches : OutcomeOf(b)

\* What the proofs below need of the types.
LEMMA AnnounceFacts ==
  ASSUME LifecycleInv
  PROVE  /\ TickTypes /\ AnnounceTypes
         /\ logCursor \in Int /\ lastTickTime \in Int /\ tickTime \in Nat /\ headTime \in Nat
         /\ \A b \in LifecycleBatches : finishLog[b] \in Int /\ finishLog[b] >= None /\ toldOutcomes[b] \in Nat
         /\ LogRange \in Nat /\ ReceiptWait \in Nat /\ None = -1
         /\ announcing # "off" => lastTickTime = tickTime
BY LifecycleNumbers DEF LifecycleInv, TickTypes, AnnounceTypes, Seconds, None

LEMMA OutcomesStay ==
  ASSUME OutcomeInv, UNCHANGED <<lifecycleCase, finishLog, announcer, lastTickTime>>
  PROVE  OutcomeInv'
BY DEF OutcomeInv, CursorInv, OutcomeOf, logRead, announcer, PartIn

\* A tick starts: time goes on, or everything told is forgotten.
LEMMA OutcomesBegin ==
  ASSUME LifecycleInv, OutcomeInv, NEW T \in Nat, begins(T), UNCHANGED <<lifecycleCase, finishLog>>, announcing = "off"
  PROVE  OutcomeInv'
<1> USE AnnounceFacts
<1>1. lastTickTime' = T /\ announcing' = "logs"
  BY DEF begins
<1>2. ~PartIn("logs")' => \A b \in LifecycleBatches : finishLog'[b] = None
  BY DEF OutcomeInv, CursorInv, PartIn
<1>3. CASE startOver(T)
  <2>1. logCursor' = None /\ waitingReceipts' = {} /\ gaveUp' = {} /\ toldOutcomes' = [b \in LifecycleBatches |-> 0]
    BY <1>3 DEF startOver
  <2>2. \A b \in LifecycleBatches : OutcomeOf(b)'
    BY <2>1 DEF OutcomeOf
  <2>3. CursorInv'
    BY <1>1, <1>2, <2>1 DEF CursorInv
  <2>4. QED  BY <2>2, <2>3 DEF OutcomeInv
<1>4. CASE /\ ~(lastTickTime # None /\ T < lastTickTime)
           /\ UNCHANGED <<logCursor, waitingReceipts, toldOutcomes, gaveUp>>
  <2>1. lastTickTime <= T
    BY <1>4
  <2>2. ASSUME NEW b \in LifecycleBatches PROVE OutcomeOf(b)'
    <3>1. OutcomeOf(b)
      BY DEF OutcomeInv
    <3>2. logRead(b) => logRead(b)'
      BY <1>1, <1>4, <2>1 DEF logRead
    <3>3. QED  BY <1>1, <1>4, <2>1, <3>1, <3>2 DEF OutcomeOf
  <2>3. CursorInv'
    BY <1>1, <1>2, <1>4, <2>1 DEF CursorInv, OutcomeInv
  <2>4. QED  BY <2>2, <2>3 DEF OutcomeInv
<1>5. QED  BY <1>3, <1>4 DEF begins

LEMMA OutcomesStart ==
  ASSUME LifecycleInv, OutcomeInv, NEW T \in Nat, starts(T), UNCHANGED <<lifecycleCase, finishLog>>, announcing = "off"
  PROVE  OutcomeInv'
BY OutcomesBegin, OutcomesStay DEF starts

LEMMA OutcomesMined ==
  ASSUME LifecycleInv, OutcomeInv, Mined
  PROVE  OutcomeInv'
<1> USE AnnounceFacts
<1>1. /\ UNCHANGED <<lifecycleCase, lastTickTime, announcing, logCursor, waitingReceipts, toldOutcomes, gaveUp>>
  BY DEF Mined, schedule, announcer
<1>2. CASE UNCHANGED finishLog
  BY <1>1, <1>2 DEF OutcomeInv, CursorInv, OutcomeOf, logRead, PartIn
<1>3. CASE \E c \in LifecycleBatches : /\ PartIn("logs") /\ finishLog[c] = None
                                       /\ finishLog' = [finishLog EXCEPT ![c] = headTime + 1]
  <2>1. PICK c \in LifecycleBatches : /\ PartIn("logs") /\ finishLog[c] = None
                                      /\ finishLog' = [finishLog EXCEPT ![c] = headTime + 1]
    BY <1>3
  <2>2. CursorInv'
    BY <1>1, <2>1 DEF OutcomeInv, CursorInv, PartIn
  <2>3. ASSUME NEW b \in LifecycleBatches PROVE OutcomeOf(b)'
    <3>1. OutcomeOf(b)
      BY DEF OutcomeInv
    <3>2. CASE b = c
      <4>1. ~logRead(b) /\ b \notin gaveUp
        BY <2>1, <3>1, <3>2 DEF logRead, OutcomeOf
      <4>2. QED  BY <1>1, <3>1, <4>1 DEF OutcomeOf
    <3>3. CASE b # c
      <4>1. finishLog'[b] = finishLog[b]
        BY <2>1, <3>3 DEF AnnounceTypes
      <4>2. QED  BY <1>1, <3>1, <4>1 DEF OutcomeOf, logRead
    <3>4. QED  BY <3>2, <3>3
  <2>4. QED  BY <2>2, <2>3 DEF OutcomeInv
<1>4. QED  BY <1>2, <1>3 DEF Mined

LEMMA OutcomesReverted ==
  ASSUME NeverPutBack, LifecycleInv, OutcomeInv, Reverted
  PROVE  OutcomeInv'
<1> USE AnnounceFacts
<1>1. ~PartIn("logs")
  BY DEF Reverted, onFork, PartIn, NeverPutBack, TickTypes
<1>2. \A b \in LifecycleBatches : finishLog[b] = None
  BY <1>1 DEF OutcomeInv, CursorInv
<1>3. PICK h \in 1..(headTime - 1) :
        finishLog' = [b \in LifecycleBatches |-> IF finishLog[b] > h THEN None ELSE finishLog[b]]
  BY DEF Reverted
<1>4. finishLog' = finishLog
  BY <1>2, <1>3 DEF AnnounceTypes
<1>5. QED  BY <1>4, OutcomesStay DEF Reverted, schedule

LEMMA OutcomesReadLogs ==
  ASSUME LifecycleInv, OutcomeInv, readLogs
  PROVE  /\ OutcomeInv'
         /\ logCursor # None /\ logCursor' > logCursor => LogsIn(logCursor, logCursor' - 1) \subseteq waitingReceipts'
<1> USE AnnounceFacts
<1>1. /\ UNCHANGED <<lifecycleCase, finishLog, lastTickTime, tickTime, toldOutcomes, gaveUp>>
      /\ announcing = "logs" /\ lastTickTime = tickTime
      /\ ~PartIn("logs")' => \A b \in LifecycleBatches : finishLog'[b] = None
  BY DEF readLogs, AnnouncerAside, chainSide, schedule, OutcomeInv, CursorInv, PartIn
<1>2. CASE logCursor = None \/ logCursor > tickTime
  <2>1. logCursor' = tickTime + 1 /\ UNCHANGED waitingReceipts
    BY <1>2 DEF readLogs
  <2>2. CursorInv'
    BY <1>1, <2>1 DEF CursorInv
  <2>3. ASSUME NEW b \in LifecycleBatches PROVE OutcomeOf(b)'
    <3>1. OutcomeOf(b)
      BY DEF OutcomeInv
    <3>2. ASSUME logRead(b) PROVE logRead(b)'
      <4>1. finishLog[b] < logCursor'
        BY <1>1, <1>2, <2>1, <3>2 DEF logRead, OutcomeInv, CursorInv
      <4>2. QED  BY <1>1, <3>2, <4>1 DEF logRead
    <3>3. QED  BY <1>1, <2>1, <3>1, <3>2 DEF OutcomeOf
  <2>4. logCursor # None => ~(logCursor' > logCursor)
    BY <1>2, <2>1
  <2>5. QED  BY <2>2, <2>3, <2>4 DEF OutcomeInv
<1>3. CASE ~(logCursor = None \/ logCursor > tickTime)
  <2> DEFINE last == logCursor + LogRange - 1
             to   == IF last < tickTime THEN last ELSE tickTime
  <2>1. to \in Int /\ to <= tickTime /\ to <= last /\ logCursor <= to + 1 /\ logCursor # None
        /\ (last <= to \/ tickTime <= to)
    BY <1>3
  <2>2. last = logCursor + LogRange - 1
    OBVIOUS
  <2>3. \/ /\ waitingReceipts' = waitingReceipts \cup LogsIn(logCursor, to)
           /\ logCursor' = to + 1
        \/ /\ announcing' = "off" /\ logCursor' = logCursor
           /\ \E heard \in SUBSET LogsIn(logCursor, to) : waitingReceipts' = waitingReceipts \cup heard
    BY <1>3 DEF readLogs, cursorFailed
  <2> HIDE DEF last, to
  <2>4. CASE /\ waitingReceipts' = waitingReceipts \cup LogsIn(logCursor, to)
             /\ logCursor' = to + 1
    <3>1. CursorInv'
      BY <1>1, <2>1, <2>4 DEF CursorInv
    <3>2. ASSUME NEW b \in LifecycleBatches PROVE OutcomeOf(b)'
      <4>1. OutcomeOf(b)
        BY DEF OutcomeInv
      <4>2. ASSUME logRead(b) PROVE logRead(b)'
        <5>1. finishLog[b] < logCursor'
          BY <1>1, <2>1, <2>2, <2>4, <4>2 DEF logRead
        <5>2. QED  BY <1>1, <4>2, <5>1 DEF logRead
      <4>3. CASE b \in LogsIn(logCursor, to)
        <5>1. logCursor <= finishLog[b] /\ finishLog[b] <= to
          BY <4>3 DEF LogsIn
        <5>2. finishLog[b] # None
          BY <1>3, <5>1 DEF AnnounceTypes, Seconds
        <5>3. logRead(b)'
          BY <1>1, <2>1, <2>4, <5>1, <5>2 DEF logRead
        <5>4. toldOutcomes[b] # 1
          BY <4>1, <5>1 DEF OutcomeOf, logRead
        <5>5. QED  BY <1>1, <4>1, <5>3, <5>4 DEF OutcomeOf
      <4>4. CASE b \notin LogsIn(logCursor, to)
        BY <1>1, <2>4, <4>1, <4>2, <4>4 DEF OutcomeOf
      <4>5. QED  BY <4>3, <4>4
    <3>3. LogsIn(logCursor, logCursor' - 1) \subseteq waitingReceipts'
      <4>1. logCursor' - 1 = to
        BY <2>1, <2>4
      <4>2. QED  BY <2>4, <4>1
    <3>4. QED  BY <3>1, <3>2, <3>3 DEF OutcomeInv
  <2>5. CASE /\ announcing' = "off" /\ logCursor' = logCursor
             /\ \E heard \in SUBSET LogsIn(logCursor, to) : waitingReceipts' = waitingReceipts \cup heard
    <3>1. CursorInv'
      BY <1>1, <2>5 DEF CursorInv, OutcomeInv
    <3>2. ASSUME NEW b \in LifecycleBatches PROVE OutcomeOf(b)'
      <4>1. OutcomeOf(b)
        BY DEF OutcomeInv
      <4>2. ASSUME logRead(b) PROVE logRead(b)'
        BY <1>1, <2>5, <4>2 DEF logRead
      <4>3. CASE b \in LogsIn(logCursor, to) /\ b \in waitingReceipts'
        <5>1. logCursor <= finishLog[b] /\ finishLog[b] <= to
          BY <4>3 DEF LogsIn
        <5>2. finishLog[b] # None
          BY <1>3, <5>1 DEF AnnounceTypes, Seconds
        <5>3. toldOutcomes[b] # 1
          BY <4>1, <5>1 DEF OutcomeOf, logRead
        <5>4. toldOutcomes[b] = 0
          BY <4>1, <5>3 DEF OutcomeOf
        <5>5. logRead(b)'
          BY <1>1, <2>1, <2>2, <2>5, <4>3, <5>1, <5>2, <5>4 DEF logRead
        <5>6. QED  BY <1>1, <4>1, <5>3, <5>5 DEF OutcomeOf
      <4>4. CASE ~(b \in LogsIn(logCursor, to) /\ b \in waitingReceipts')
        <5>1. b \in waitingReceipts' <=> b \in waitingReceipts
          BY <2>5, <4>4
        <5>2. QED  BY <1>1, <4>1, <4>2, <5>1 DEF OutcomeOf
      <4>5. QED  BY <4>3, <4>4
    <3>3. QED  BY <2>5, <3>1, <3>2 DEF OutcomeInv
  <2>6. QED  BY <2>3, <2>4, <2>5
<1>4. QED  BY <1>2, <1>3

LEMMA OutcomesDelivered ==
  ASSUME LifecycleInv, OutcomeInv, deliverReceipts
  PROVE  OutcomeInv' /\ logCursor' = logCursor
<1> USE AnnounceFacts
<1>1. /\ UNCHANGED <<lifecycleCase, finishLog, lastTickTime, tickTime, logCursor>>
      /\ announcing = "receipts" /\ announcing' = "off" /\ lastTickTime = tickTime
  BY DEF deliverReceipts, AnnouncerAside, chainSide, schedule
<1>2. \E ready, late :
        /\ ready \subseteq waitingReceipts /\ \A b \in late : waitedEnough(b) /\ b \in waitingReceipts
        /\ toldOutcomes' = [b \in LifecycleBatches |-> IF b \in ready THEN toldOutcomes[b] + 1 ELSE toldOutcomes[b]]
        /\ gaveUp' = gaveUp \cup late
        /\ waitingReceipts' = (waitingReceipts \ ready) \ late
  <2>1. PICK unseen : LET ready == (waitingReceipts \cap hasReceipt) \ unseen
                          late  == {b \in waitingReceipts \ ready : waitedEnough(b)}
                      IN  /\ toldOutcomes' = [b \in LifecycleBatches |->
                               IF b \in ready THEN toldOutcomes[b] + 1 ELSE toldOutcomes[b]]
                          /\ gaveUp' = gaveUp \cup late
                          /\ waitingReceipts' = (waitingReceipts \ ready) \ late
    BY DEF deliverReceipts
  <2> DEFINE ready == (waitingReceipts \cap hasReceipt) \ unseen
             late  == {b \in waitingReceipts \ ready : waitedEnough(b)}
  <2>2. ready \subseteq waitingReceipts /\ \A b \in late : waitedEnough(b) /\ b \in waitingReceipts
    OBVIOUS
  <2>3. QED  BY <2>1, <2>2
<1>3. PICK ready, late :
        /\ ready \subseteq waitingReceipts /\ \A b \in late : waitedEnough(b) /\ b \in waitingReceipts
        /\ toldOutcomes' = [b \in LifecycleBatches |-> IF b \in ready THEN toldOutcomes[b] + 1 ELSE toldOutcomes[b]]
        /\ gaveUp' = gaveUp \cup late
        /\ waitingReceipts' = (waitingReceipts \ ready) \ late
  BY <1>2
<1>4. CursorInv'
  BY <1>1 DEF CursorInv, OutcomeInv, PartIn
<1>5. ASSUME NEW b \in LifecycleBatches PROVE OutcomeOf(b)'
  <2>1. OutcomeOf(b) /\ toldOutcomes'[b] = IF b \in ready THEN toldOutcomes[b] + 1 ELSE toldOutcomes[b]
    BY <1>3 DEF OutcomeInv
  <2>2. logRead(b) => finishLog[b] # None /\ finishLog[b] < logCursor /\ logRead(b)'
    BY <1>1 DEF logRead
  <2>3. CASE b \in ready
    <3>1. toldOutcomes[b] # 1 /\ b \in waitingReceipts
      BY <1>3, <2>1, <2>3 DEF OutcomeOf
    <3>2. toldOutcomes[b] = 0
      BY <2>1, <3>1 DEF OutcomeOf
    <3>3. toldOutcomes'[b] = 1 /\ b \notin waitingReceipts' /\ logRead(b)'
      BY <1>3, <2>1, <2>2, <2>3, <3>1, <3>2 DEF OutcomeOf
    <3>4. b \in gaveUp' => b \in gaveUp \/ waitedEnough(b)
      BY <1>3
    <3>5. b \in gaveUp' => finishLog'[b] # None /\ lastTickTime' > finishLog'[b] + ReceiptWait
      BY <1>1, <2>1, <2>2, <3>1, <3>4 DEF OutcomeOf, waitedEnough
    <3>6. QED  BY <3>3, <3>5 DEF OutcomeOf
  <2>4. CASE b \notin ready
    <3>1. toldOutcomes'[b] = toldOutcomes[b] /\ (b \in waitingReceipts' => b \in waitingReceipts)
      BY <1>3, <2>1, <2>4
    <3>2. b \in gaveUp' => b \in gaveUp \/ (waitedEnough(b) /\ b \in waitingReceipts)
      BY <1>3
    <3>3. b \in gaveUp' => finishLog'[b] # None /\ lastTickTime' > finishLog'[b] + ReceiptWait
      BY <1>1, <2>1, <2>2, <3>2 DEF OutcomeOf, waitedEnough
    <3>4. QED  BY <2>1, <2>2, <3>1, <3>3 DEF OutcomeOf
  <2>5. QED  BY <2>3, <2>4
<1>6. QED  BY <1>1, <1>4, <1>5 DEF OutcomeInv

\* The announcer's cursor moves only in readLogs while a tick goes on.
LEMMA OutcomeStep ==
  ASSUME NeverPutBack, LifecycleInv, OutcomeInv, [LifecycleNext]_lifecycleVars
  PROVE  /\ OutcomeInv'
         /\ logCursor # None /\ logCursor' > logCursor /\ tickTime' = tickTime =>
              LogsIn(logCursor, logCursor' - 1) \subseteq waitingReceipts' \cup waitingReceipts
<1> USE AnnounceFacts
<1> DEFINE Heard == logCursor # None /\ logCursor' > logCursor /\ tickTime' = tickTime =>
                      LogsIn(logCursor, logCursor' - 1) \subseteq waitingReceipts' \cup waitingReceipts
<1>1. ASSUME logCursor' = logCursor PROVE Heard
  BY <1>1
<1>2. ASSUME NEW T, begins(T) PROVE Heard
  <2>1. logCursor' = None \/ logCursor' = logCursor
    BY <1>2 DEF begins, startOver
  <2>2. logCursor # None => logCursor \in Nat
    BY DEF AnnounceTypes, Seconds
  <2>3. QED  BY <2>1, <2>2
<1>3. ASSUME UNCHANGED <<lifecycleCase, finishLog, announcer, lastTickTime>> PROVE OutcomeInv' /\ Heard
  BY <1>1, <1>3, OutcomesStay DEF announcer
<1>4. ASSUME NEW T \in Nat, starts(T), UNCHANGED <<lifecycleCase, finishLog>>, announcing = "off"
      PROVE  OutcomeInv' /\ Heard
  <2>1. OutcomeInv'
    BY <1>4, OutcomesStart
  <2>2. Heard
    BY <1>1, <1>2, <1>4 DEF starts, announcer
  <2>3. QED  BY <2>1, <2>2
<1> SUFFICES OutcomeInv' /\ Heard
  OBVIOUS
<1> HIDE DEF Heard
<1>5. CASE UNCHANGED lifecycleVars
  BY <1>3, <1>5 DEF lifecycleVars, chainSide, schedule
<1>6. CASE Mined
  BY <1>1, <1>6, OutcomesMined DEF Mined, announcer
<1>7. CASE Reverted
  BY <1>1, <1>7, OutcomesReverted DEF Reverted, announcer
<1>8. ASSUME NEW b \in LifecycleBatches, Indexed(b) PROVE OutcomeInv' /\ Heard
  BY <1>3, <1>8 DEF Indexed, schedule
<1>9. CASE poll
  <2>1. UNCHANGED <<lifecycleCase, finishLog>>
    BY <1>9 DEF poll, chainSide
  <2>2. CASE tickStage = "idle"
    <3>1. starts(headTime) /\ announcing = "off"
      BY <1>9, <2>2 DEF poll, TickTypes, Reading, TopicStages
    <3>2. QED  BY <1>4, <2>1, <3>1
  <2>3. CASE tickStage # "idle"
    BY <1>3, <1>9, <2>1, <2>3 DEF poll
  <2>4. QED  BY <2>2, <2>3
<1>10. CASE readStamp
  <2>1. UNCHANGED <<lifecycleCase, finishLog>> /\ announcing = "off" /\ tickTime \in Nat
    BY <1>10 DEF readStamp, chainSide, TickTypes, Reading, TopicStages
  <2>2. CASE begins(tickTime)
    BY <1>2, <2>1, <2>2, OutcomesBegin
  <2>3. CASE UNCHANGED <<lastTickTime, announcer>>
    BY <1>3, <2>1, <2>3
  <2>4. QED  BY <1>10, <2>2, <2>3 DEF readStamp
<1>11. CASE readCurrent \/ readTopic
  BY <1>3, <1>11 DEF readCurrent, readTopic, chainSide
<1>12. CASE readLogs
  <2>1. OutcomeInv'
    BY <1>12, OutcomesReadLogs
  <2>2. Heard
    BY <1>12, OutcomesReadLogs DEF Heard
  <2>3. QED  BY <2>1, <2>2
<1>13. CASE deliverReceipts
  BY <1>1, <1>13, OutcomesDelivered
<1>14. CASE endTick
  <2>1. UNCHANGED <<lifecycleCase, finishLog>> /\ announcing = "off" /\ queuedHead \in Seconds
    BY <1>14 DEF endTick, chainSide, TickTypes
  <2>2. CASE queuedHead = None
    BY <1>3, <1>14, <2>1, <2>2 DEF endTick
  <2>3. CASE queuedHead # None
    BY <1>4, <1>14, <2>1, <2>3 DEF endTick, Seconds
  <2>4. QED  BY <2>2, <2>3
<1>15. QED
  BY <1>5, <1>6, <1>7, <1>8, <1>9, <1>10, <1>11, <1>12, <1>13, <1>14 DEF LifecycleNext

LEMMA OutcomeStart == LifecycleInit => OutcomeInv
BY LifecycleNumbers DEF LifecycleInit, OutcomeInv, CursorInv, OutcomeOf, None

LEMMA OutcomesHold == LifecycleInv /\ OutcomeInv => OutcomesOnce
BY DEF OutcomeInv, OutcomeOf, OutcomesOnce

\* Where no chain with finished batches is put back, each finished batch is told
\* once or given up after the wait, and the log cursor passes nothing unheard,
\* whatever reads fail halfway (announce.ts, tickOnce of lifecycle.ts).
THEOREM OutcomesAlwaysAccounted ==
  ASSUME NeverPutBack
  PROVE  LifecycleSpec => OutcomesAccounted
<1>1. LifecycleInv /\ OutcomeInv /\ [LifecycleNext]_lifecycleVars => OutcomeInv'
  BY OutcomeStep
<1>2. LifecycleSpec => [](LifecycleInv /\ OutcomeInv)
  BY <1>1, LifecycleStart, LifecycleStep, OutcomeStart, PTL DEF LifecycleSpec
<1>3. LifecycleInv /\ OutcomeInv /\ [LifecycleNext]_lifecycleVars =>
        [logCursor # None /\ logCursor' > logCursor /\ tickTime' = tickTime
           => LogsIn(logCursor, logCursor' - 1) \subseteq waitingReceipts' \cup waitingReceipts]_lifecycleVars
  BY OutcomeStep
<1>4. LifecycleSpec => RangesHeard
  BY <1>2, <1>3, PTL DEF LifecycleSpec, RangesHeard
<1>5. LifecycleSpec => []OutcomesOnce
  BY <1>2, OutcomesHold, PTL
<1>6. QED  BY <1>4, <1>5, PTL DEF OutcomesAccounted

----------------------------------------------------------------------------
(* The cards.                                                              *)

PathSteps == {"guarding", "asking", "signing", "posting", "replying", "simulating", "sending", "landing",
              "lost", "rechecking", "done"}

Verdicts == {"none", "ok", "BAD_SIGNATURE", "NonceAlreadyUsed", "INSUFFICIENT_BALANCE", "NOT_APPROVED", "NO_OPEN_BATCH",
             "IntentExpired", "DUPLICATE_INTENT"}
Outcomes == Verdicts \cup {"guard", "no batch", "not asked", "rejected", "no reply", "refused", "no receipt", "approved",
                          "committed", "reverted"}

\* What Min says of a word with no free nonce is left open.
NonceValues == Int \cup {Min({})}

TryRecords ==
  [step : PathSteps, id : Tries, amount : 1..PathBalance, chainTime : Int, collectEnd : Int, nonce : NonceValues,
   crossAt : {Min(PathCrosses)}, checkedAt : {"app", "other"}, form : SignatureForms, said : Verdicts, outcome : Outcomes]

PathTypes ==
  /\ pathCase \in PathCases /\ pathTime \in 0..pathCase.last
  /\ entered \in 0..PathBalance /\ walletAt \in {"app", "other"}
  /\ tries \in [Tries -> TryRecords \cup {NotPressed}]
  /\ \A t \in Tries : tries[t] # NotPressed => tries[t].id = t

\* The steps at which the chain or the coordinator may have something of the try.
Told == {"rechecking", "replying", "done"}

\* What a try that is under way has checked: a transaction that is prepared was
\* checked where the wallet points, an intent carries a time it was told.
TryGood(t, r, now) ==
  /\ r.step \in {"guarding", "simulating", "sending"} => ~is(t, "sign")
  /\ r.step \in {"posting", "replying"} => is(t, "sign")
  /\ r.step \in {"asking", "signing", "simulating", "sending"} /\ ~is(t, "sign") =>
       r.checkedAt = "app" \/ pathCase.gap <= SlackBlocks
  /\ r.chainTime # Unread => r.chainTime \in 0..now
  /\ is(t, "sign") /\ r.step \in {"signing", "posting"} => r.chainTime # Unread

TriesInv == \A t \in Tries : tries[t] # NotPressed => TryGood(t, tries[t], pathTime)

\* A step of the try t to the record r.
TryBecomes(t, r) ==
  /\ UNCHANGED pathCase /\ tries' = [tries EXCEPT ![t] = r]
  /\ r \in TryRecords /\ r.id = t /\ TryGood(t, r, pathTime)
  /\ tries[t].step \in Told => r.step \in Told
  /\ tries[t].step \in {"replying", "done"} => r.step \in {"replying", "done"} /\ r.form = tries[t].form
  /\ tries[t] # NotPressed => r.amount = tries[t].amount
  /\ pathTime' = pathTime /\ walletAt' = walletAt /\ entered' \in {0, entered}

LEMMA PathFacts ==
  /\ PathHorizon \in Nat /\ PathBalance \in Nat /\ AfterCross \in Nat /\ LongestWindow \in Nat /\ SlackBlocks \in Nat
  /\ StaleStamp \in Nat /\ PathSolutionWindow \in Nat /\ ValidFor \in Nat
  /\ PathWindows \subseteq Nat /\ PathCrosses \subseteq Nat
  /\ IsFiniteSet(PathWindows) /\ IsFiniteSet(PathCrosses)
  /\ \A c \in PathCases : c.gap \in Nat /\ c.last \in 0..PathHorizon
  /\ \A c \in PathCases : c.presses \in Seq({"sign", "approve", "commit"})
BY PathAssumption

LEMMA TimeTyped == ASSUME PathTypes PROVE pathTime \in 0..PathHorizon /\ pathTime \in Nat
<1>1. pathTime \in 0..pathCase.last /\ pathCase.last \in 0..PathHorizon /\ PathHorizon \in Nat
  BY PathFacts DEF PathTypes
<1>2. QED  BY <1>1

LEMMA TriesNat == ASSUME PathTypes PROVE Tries \subseteq Nat
<1>1. pathCase.presses \in Seq({"sign", "approve", "commit"})
  BY PathFacts DEF PathTypes
<1>2. DOMAIN pathCase.presses = 1..Len(pathCase.presses) /\ Len(pathCase.presses) \in Nat
  BY <1>1
<1>3. QED  BY <1>2 DEF Tries

LEMMA MinOf ==
  ASSUME NEW K, IsFiniteSet(K), K \subseteq Nat, K # {}
  PROVE  Min(K) \in K /\ Min(K) \in Nat /\ \A j \in K : Min(K) <= j
<1>1. \A k \in K : k \in Nat
  OBVIOUS
<1>2. QED  BY <1>1, FirstPosition

LEMMA LaterOf ==
  ASSUME NEW a \in Int, NEW b \in Int
  PROVE  Max({a, b}) \in {a, b} /\ Max({a, b}) >= a /\ Max({a, b}) >= b
<1>1. \E m \in {a, b} : \A e \in {a, b} : m >= e
  <2>1. CASE a >= b
    BY <2>1
  <2>2. CASE ~(a >= b)
    BY <2>2
  <2>3. QED  BY <2>1, <2>2
<1>2. QED  BY <1>1 DEF Max

LEMMA NextNonceTyped == ASSUME NEW time PROVE nextNonce(time) \in NonceValues
<1> DEFINE free == NonceRange \ (usedNonces \cup heldNonces(time))
<1>1. nextNonce(time) = Min(free)
  BY DEF nextNonce
<1>2. CASE free = {}
  BY <1>1, <1>2 DEF NonceValues
<1>3. CASE free # {}
  <2>1. IsFiniteSet(0..9)
    BY 0 \in Int, 9 \in Int, FS_Interval
  <2>2. free \subseteq 0..9
    BY DEF NonceRange
  <2>3. IsFiniteSet(free) /\ free \subseteq Nat
    BY <2>1, <2>2, FS_Subset
  <2> HIDE DEF free
  <2>4. Min(free) \in Nat
    BY <1>3, <2>3, MinOf
  <2>5. QED  BY <1>1, <2>4 DEF NonceValues
<1>4. QED  BY <1>2, <1>3

\* The window a time falls in.
LEMMA WindowAt ==
  ASSUME NEW time \in 0..PathHorizon
  PROVE  /\ windowAt(time) \in Nat /\ time < windowAt(time)
         /\ windowAt(time) # NoWindow => windowAt(time) \in PathWindows /\ windowAt(time) <= time + LongestWindow
<1> DEFINE K == {b \in PathWindows : time < b} \cup {NoWindow}
<1>1. PathHorizon \in Nat /\ LongestWindow \in Nat /\ NoWindow \in Nat /\ time \in Nat /\ time < NoWindow
  BY PathFacts DEF NoWindow
<1>2. IsFiniteSet(K)
  <2>1. IsFiniteSet({b \in PathWindows : time < b})
    BY PathFacts, FS_Subset
  <2>2. QED  BY <2>1, FS_AddElement
<1>3. K \subseteq Nat /\ K # {}
  BY <1>1, PathFacts
<1>4. \A b \in K : b = NoWindow \/ (b \in PathWindows /\ time < b)
  OBVIOUS
<1>5. \A e \in PathWindows : time < e => e \in K
  OBVIOUS
<1>6. windowAt(time) = Min(K)
  BY DEF windowAt
<1> HIDE DEF K
<1>7. windowAt(time) \in K /\ \A e \in K : windowAt(time) <= e
  BY <1>2, <1>3, <1>6, MinOf
<1>8. ASSUME windowAt(time) # NoWindow PROVE windowAt(time) \in PathWindows /\ windowAt(time) <= time + LongestWindow
  <2>1. windowAt(time) \in PathWindows /\ time < windowAt(time)
    BY <1>4, <1>7, <1>8
  <2>2. PICK e \in PathWindows : time < e /\ e <= time + LongestWindow
    BY <2>1, PathAssumption
  <2>3. windowAt(time) <= e /\ e \in Nat /\ windowAt(time) \in Nat
    BY <1>3, <1>5, <1>7, <2>2, PathFacts
  <2>4. QED  BY <1>1, <2>1, <2>2, <2>3
<1>9. QED  BY <1>1, <1>3, <1>4, <1>7, <1>8

----------------------------------------------------------------------------
(* What a step does to the tries.                                          *)

LEMMA BecomesTyped ==
  ASSUME PathTypes, NEW t \in Tries, NEW r, TryBecomes(t, r)
  PROVE  /\ PathTypes' /\ Tries' = Tries
         /\ tries'[t] = r /\ \A u \in Tries : u # t => tries'[u] = tries[u]
<1>1. Tries' = Tries
  BY DEF TryBecomes, Tries
<1>2. tries'[t] = r /\ \A u \in Tries : u # t => tries'[u] = tries[u]
  BY DEF TryBecomes, PathTypes
<1>3. tries' \in [Tries -> TryRecords \cup {NotPressed}]
  BY DEF TryBecomes, PathTypes
<1>4. TryRecords' = TryRecords
  BY <1>1 DEF TryRecords
<1>5. entered' \in 0..PathBalance
  BY PathFacts DEF TryBecomes, PathTypes
<1>6. \A u \in Tries : tries'[u] # NotPressed => tries'[u].id = u
  BY <1>2 DEF TryBecomes, PathTypes
<1>7. QED  BY <1>1, <1>2, <1>3, <1>4, <1>5, <1>6 DEF TryBecomes, PathTypes, NotPressed

LEMMA PressedIsRecord ==
  ASSUME PathTypes, NEW t \in Tries, tries[t].step \in PathSteps
  PROVE  tries[t] \in TryRecords /\ tries[t].id = t
BY DEF PathTypes, NotPressed, PathSteps

LEMMA BecomesGood ==
  ASSUME PathTypes, TriesInv, NEW t \in Tries, NEW r, TryBecomes(t, r)
  PROVE  TriesInv'
<1>1. Tries' = Tries /\ tries'[t] = r /\ \A u \in Tries : u # t => tries'[u] = tries[u]
  BY BecomesTyped
<1>2. pathTime' = pathTime /\ pathCase' = pathCase
  BY DEF TryBecomes
<1>3. ASSUME NEW u \in Tries, tries'[u] # NotPressed PROVE TryGood(u, tries[u], pathTime)'
  <2>1. CASE u = t
    BY <1>1, <1>2, <2>1 DEF TryBecomes, TryGood, is
  <2>2. CASE u # t
    BY <1>1, <1>2, <1>3, <2>2 DEF TriesInv, TryGood, is, NotPressed
  <2>3. QED  BY <2>1, <2>2
<1>4. QED  BY <1>1, <1>3 DEF TriesInv, NotPressed

\* A button pressed.
LEMMA StartedBecomes ==
  ASSUME PathTypes, NEW t \in Tries, NEW step \in {"asking", "guarding"}, started(t, step), entered > 0,
         step = "asking" => is(t, "sign"), step = "guarding" => ~is(t, "sign"),
         UNCHANGED <<pathCase, pathTime, walletAt, entered>>
  PROVE  \E r : TryBecomes(t, r) /\ r.amount = entered /\ r.step = step /\ tries[t] = NotPressed
<1> DEFINE r == [step |-> step, id |-> t, amount |-> entered, chainTime |-> Unread, collectEnd |-> Unread, nonce |-> Unread,
                 crossAt |-> Min(PathCrosses), checkedAt |-> walletAt, form |-> "65", said |-> "none", outcome |-> "none"]
<1>1. tries' = [tries EXCEPT ![t] = r] /\ tries[t] = NotPressed
  BY DEF started
<1>2. r \in TryRecords
  <2>1. Unread \in Int /\ Unread \in NonceValues
    BY DEF Unread, NonceValues
  <2>2. entered \in 1..PathBalance /\ walletAt \in {"app", "other"}
    BY PathFacts DEF PathTypes
  <2>3. step \in PathSteps /\ "65" \in SignatureForms
    BY DEF PathSteps, SignatureForms
  <2>5. "none" \in Verdicts /\ "none" \in Outcomes
    BY DEF Verdicts, Outcomes
  <2>4. QED  BY <2>1, <2>2, <2>3, <2>5 DEF TryRecords
<1>3. TryGood(t, r, pathTime)
  BY DEF TryGood
<1>4. TryBecomes(t, r)
  BY <1>1, <1>2, <1>3 DEF TryBecomes, NotPressed, Told
<1>5. QED  BY <1>1, <1>4

LEMMA PressedIsGood ==
  ASSUME PathTypes, TriesInv, NEW t \in Tries, tries[t].step \in PathSteps
  PROVE  /\ tries[t] \in TryRecords /\ tries[t].id = t /\ TryGood(t, tries[t], pathTime)
         /\ tries[t] # NotPressed /\ tries[t].amount \in 1..PathBalance
<1>1. tries[t] # NotPressed
  BY DEF NotPressed, PathSteps
<1>2. QED  BY <1>1, PressedIsRecord DEF TriesInv, TryRecords

\* A try that ends.
LEMMA EndsBecomes ==
  ASSUME PathTypes, TriesInv, NEW t \in Tries, tries[t].step \in PathSteps, NEW outcome \in Outcomes, ends(t, outcome),
         UNCHANGED <<pathCase, pathTime, walletAt>>, entered' \in {0, entered}
  PROVE  \E r : TryBecomes(t, r) /\ r.step = "done"
<1> DEFINE r == [tries[t] EXCEPT !.step = "done", !.outcome = outcome]
<1>1. tries[t] \in TryRecords /\ tries[t].id = t /\ TryGood(t, tries[t], pathTime) /\ tries[t] # NotPressed
  BY PressedIsGood
<1>2. tries' = [tries EXCEPT ![t] = r]
  BY DEF PathTypes, ends
<1>3. r \in TryRecords /\ r.id = t /\ r.step = "done" /\ r.amount = tries[t].amount /\ r.form = tries[t].form
      /\ r.chainTime = tries[t].chainTime
  BY <1>1 DEF TryRecords, PathSteps
<1>4. TryGood(t, r, pathTime)
  BY <1>1, <1>3 DEF TryGood
<1> HIDE DEF r
<1>5. TryBecomes(t, r)
  BY <1>1, <1>2, <1>3, <1>4 DEF TryBecomes, Told
<1>6. QED  BY <1>3, <1>5

\* A try that goes on to another step.
LEMMA AtBecomes ==
  ASSUME PathTypes, TriesInv, NEW t \in Tries, tries[t].step \in PathSteps \ Told, NEW step \in PathSteps, at(t, step),
         TryGood(t, [tries[t] EXCEPT !.step = step], pathTime),
         UNCHANGED <<pathCase, pathTime, walletAt>>, entered' \in {0, entered}
  PROVE  \E r : TryBecomes(t, r) /\ r.step = step
<1> DEFINE r == [tries[t] EXCEPT !.step = step]
<1>1. tries[t] \in TryRecords /\ tries[t].id = t /\ tries[t] # NotPressed
  BY PressedIsGood
<1>2. tries' = [tries EXCEPT ![t] = r]
  BY DEF PathTypes, at
<1>3. r \in TryRecords /\ r.id = t /\ r.step = step /\ r.amount = tries[t].amount
  BY <1>1 DEF TryRecords, PathSteps
<1>4. TryGood(t, r, pathTime)
  OBVIOUS
<1> HIDE DEF r
<1>5. TryBecomes(t, r)
  BY <1>1, <1>2, <1>3, <1>4 DEF TryBecomes, Told
<1>6. QED  BY <1>3, <1>5

LEMMA GuardBecomes ==
  ASSUME PathTypes, TriesInv, NEW t \in Tries, guard(t)
  PROVE  \E r : TryBecomes(t, r)
<1>1. tries[t].step \in PathSteps /\ tries[t].step = "guarding"
  BY DEF guard, doing, PathSteps
<1>2. tries[t] \in TryRecords /\ tries[t].id = t /\ TryGood(t, tries[t], pathTime) /\ tries[t] # NotPressed
  BY <1>1, PressedIsGood
<1>3. UNCHANGED <<pathCase, pathTime, walletAt, entered>>
  BY DEF guard
<1>4. CASE walletSeesSameChain /\ tries' = [tries EXCEPT ![t].step = IF is(t, "approve") THEN "sending" ELSE "asking", ![t].checkedAt = walletAt]
  <2> DEFINE next == IF is(t, "approve") THEN "sending" ELSE "asking"
             r == [tries[t] EXCEPT !.step = next, !.checkedAt = walletAt]
  <2>1. tries' = [tries EXCEPT ![t] = r]
    BY <1>4 DEF PathTypes
  <2>2. next \in {"sending", "asking"} /\ next \in PathSteps
    BY DEF PathSteps
  <2> HIDE DEF next
  <2>3. r \in TryRecords /\ r.id = t /\ r.step = next /\ r.checkedAt = walletAt /\ r.amount = tries[t].amount
        /\ r.chainTime = tries[t].chainTime
    BY <1>2, <2>2 DEF TryRecords, PathTypes
  <2> HIDE DEF r
  <2>4. TryGood(t, r, pathTime)
    BY <1>1, <1>2, <1>4, <2>2, <2>3 DEF TryGood, walletSeesSameChain
  <2>5. TryBecomes(t, r)
    BY <1>1, <1>2, <1>3, <2>1, <2>3, <2>4 DEF TryBecomes, Told
  <2>6. QED  BY <2>5
<1>5. CASE ends(t, "guard")
  BY <1>1, <1>3, <1>5, "guard" \in Outcomes, EndsBecomes DEF Outcomes
<1>6. QED  BY <1>4, <1>5 DEF guard

\* The answers of the coordinator.
LEMMA AnsweredBecomes ==
  ASSUME PathTypes, TriesInv, NEW t \in Tries, tries[t].step = "asking", NEW s \in TryRecords,
         s.step = "asking", s.id = t, s.amount = tries[t].amount, TryGood(t, s, pathTime), answered(t, s),
         UNCHANGED <<pathCase, pathTime, walletAt, entered>>
  PROVE  \E r : TryBecomes(t, r) /\ r.step \in {"asking", "signing"}
<1> DEFINE all == s.nonce # Unread /\ (is(t, "sign") => s.chainTime # Unread)
           r == IF all THEN [s EXCEPT !.step = "signing"] ELSE s
<1>1. tries' = [tries EXCEPT ![t] = r]
  BY DEF answered
<1>2. r \in TryRecords /\ r.id = t /\ r.amount = tries[t].amount /\ r.chainTime = s.chainTime
      /\ r.step \in {"asking", "signing"} /\ r.checkedAt = s.checkedAt
      /\ (r.step = "signing" /\ is(t, "sign") => r.chainTime # Unread)
  <2>1. CASE all
    BY <2>1 DEF TryRecords, PathSteps
  <2>2. CASE ~all
    BY <2>2
  <2>3. QED  BY <2>1, <2>2
<1> HIDE DEF r
<1>3. TryGood(t, r, pathTime)
  BY <1>2 DEF TryGood
<1>4. TryBecomes(t, r)
  BY <1>1, <1>2, <1>3 DEF TryBecomes, Told
<1>5. QED  BY <1>2, <1>4

LEMMA AskCurrentBatchBecomes ==
  ASSUME PathTypes, TriesInv, NEW t \in Tries, askCurrentBatch(t)
  PROVE  \E r : TryBecomes(t, r)
<1>1. tries[t].step \in PathSteps /\ tries[t].step = "asking"
  BY DEF askCurrentBatch, doing, PathSteps
<1>2. tries[t] \in TryRecords /\ tries[t].id = t /\ TryGood(t, tries[t], pathTime) /\ is(t, "sign")
  BY <1>1, PressedIsGood DEF askCurrentBatch
<1>3. UNCHANGED <<pathCase, pathTime, walletAt, entered>> /\ pathTime \in 0..PathHorizon /\ pathTime \in Nat
      /\ StaleStamp \in Nat /\ PathHorizon \in Nat
  BY PathFacts, TimeTyped DEF askCurrentBatch
<1>9. ASSUME NEW time, time \in IF PathAct("old stamps") THEN Max({0, pathTime - StaleStamp})..pathTime ELSE {pathTime}
      PROVE  time \in 0..pathTime
  <2> DEFINE old == pathTime - StaleStamp
  <2>1. pathTime \in Nat /\ old \in Int
    BY <1>3
  <2> HIDE DEF old
  <2>6. PICK zero \in Int : zero = 0
    OBVIOUS
  <2>7. Max({zero, old}) \in {zero, old} /\ Max({zero, old}) >= zero
    BY <2>1, <2>6, LaterOf
  <2>2. Max({0, old}) \in Int /\ Max({0, old}) >= 0
    <3>1. {zero, old} = {0, old}
      BY <2>6
    <3>2. Max({zero, old}) = Max({0, old})
      BY <3>1
    <3>3. Max({0, old}) = 0 \/ Max({0, old}) = old
      BY <2>6, <2>7, <3>2
    <3>4. Max({0, old}) >= 0
      BY <2>6, <2>7, <3>2
    <3>5. QED  BY <2>1, <3>3, <3>4
  <2> USE DEF old
  <2>3. CASE PathAct("old stamps")
    <3>1. time \in Max({0, old})..pathTime
      BY <1>9, <2>3
    <3> HIDE DEF old
    <3>2. QED  BY <2>1, <2>2, <3>1
  <2>4. CASE ~PathAct("old stamps")
    <3>1. time = pathTime
      BY <1>9, <2>4
    <3>2. QED  BY <2>1, <3>1
  <2>5. QED  BY <2>3, <2>4
<1>4. PICK time :
        /\ time \in IF PathAct("old stamps") THEN Max({0, pathTime - StaleStamp})..pathTime ELSE {pathTime}
        /\ IF windowAt(time) = NoWindow THEN ends(t, "no batch") /\ UNCHANGED busy
           ELSE answered(t, [tries[t] EXCEPT !.chainTime = time, !.collectEnd = windowAt(time)])
  BY DEF askCurrentBatch
<1>5. time \in 0..pathTime
  BY <1>4, <1>9
<1>6. CASE windowAt(time) = NoWindow
  BY <1>1, <1>3, <1>4, <1>6, "no batch" \in Outcomes, EndsBecomes DEF Outcomes
<1>7. CASE windowAt(time) # NoWindow
  <2> DEFINE s == [tries[t] EXCEPT !.chainTime = time, !.collectEnd = windowAt(time)]
  <2>1. windowAt(time) \in Int /\ time \in Int
    <3>1. time \in 0..PathHorizon
      <4>1. pathTime \in Nat /\ pathTime \in 0..PathHorizon /\ PathHorizon \in Nat
        BY <1>3
      <4>2. QED  BY <1>5, <4>1
    <3>2. QED  BY <3>1, WindowAt, PathFacts
  <2>2. s \in TryRecords /\ s.step = "asking" /\ s.id = t /\ s.amount = tries[t].amount /\ s.chainTime = time
    BY <1>1, <1>2, <2>1 DEF TryRecords
  <2>3. answered(t, s)
    BY <1>4, <1>7
  <2> HIDE DEF s
  <2>4. TryGood(t, s, pathTime)
    BY <1>2, <1>5, <2>2 DEF TryGood
  <2>5. QED  BY <1>1, <1>3, <2>2, <2>3, <2>4, AnsweredBecomes
<1>8. QED  BY <1>6, <1>7

LEMMA AskNextNonceBecomes ==
  ASSUME PathTypes, TriesInv, NEW t \in Tries, askNextNonce(t)
  PROVE  \E r : TryBecomes(t, r)
<1>1. tries[t].step \in PathSteps /\ tries[t].step = "asking"
  BY DEF askNextNonce, doing, PathSteps
<1>2. tries[t] \in TryRecords /\ tries[t].id = t /\ TryGood(t, tries[t], pathTime)
  BY <1>1, PressedIsGood
<1>3. UNCHANGED <<pathCase, pathTime, walletAt, entered>>
  BY DEF askNextNonce
<1>4. ASSUME NEW nonce \in NonceValues, answered(t, [tries[t] EXCEPT !.nonce = nonce])
      PROVE  \E r : TryBecomes(t, r)
  <2> DEFINE s == [tries[t] EXCEPT !.nonce = nonce]
  <2>1. s \in TryRecords /\ s.step = "asking" /\ s.id = t /\ s.amount = tries[t].amount /\ s.chainTime = tries[t].chainTime
        /\ s.checkedAt = tries[t].checkedAt
    BY <1>1, <1>2 DEF TryRecords
  <2>2. answered(t, s)
    BY <1>4
  <2> HIDE DEF s
  <2>3. TryGood(t, s, pathTime)
    BY <1>1, <1>2, <2>1 DEF TryGood
  <2>4. QED  BY <1>1, <1>3, <2>1, <2>2, <2>3, AnsweredBecomes
<1>5. CASE answered(t, [tries[t] EXCEPT !.nonce = nextNonce(pathTime)])
  BY <1>4, <1>5, NextNonceTyped
<1>6. CASE ends(t, "not asked")
  BY <1>1, <1>3, <1>6, "not asked" \in Outcomes, EndsBecomes DEF Outcomes
<1>7. CASE answered(t, [tries[t] EXCEPT !.nonce = ClockNonce + t])
  <2>1. ClockNonce + t \in NonceValues
    BY TriesNat DEF NonceValues, ClockNonce
  <2>2. QED  BY <1>4, <1>7, <2>1
<1>8. QED  BY <1>5, <1>6, <1>7 DEF askNextNonce

LEMMA SignBecomes ==
  ASSUME PathTypes, TriesInv, NEW t \in Tries, sign(t)
  PROVE  \E r : TryBecomes(t, r)
<1>1. tries[t].step \in PathSteps /\ tries[t].step = "signing"
  BY DEF sign, doing, PathSteps
<1>2. tries[t] \in TryRecords /\ tries[t].id = t /\ TryGood(t, tries[t], pathTime) /\ tries[t] # NotPressed
  BY <1>1, PressedIsGood
<1>3. UNCHANGED <<pathCase, pathTime, walletAt, entered>>
  BY DEF sign
<1> DEFINE next == IF is(t, "sign") THEN "posting" ELSE "simulating"
<1>4. PICK form \in SignatureForms : tries' = [tries EXCEPT ![t].step = next, ![t].form = form]
  BY DEF sign, SignatureForms
<1>5. next \in PathSteps /\ next \in {"posting", "simulating"} /\ (next = "posting" => is(t, "sign")) /\ (next = "simulating" => ~is(t, "sign"))
  BY DEF PathSteps
<1> HIDE DEF next
<1> DEFINE r == [tries[t] EXCEPT !.step = next, !.form = form]
<1>6. tries' = [tries EXCEPT ![t] = r]
  BY <1>4 DEF PathTypes
<1>7. r \in TryRecords /\ r.id = t /\ r.step = next /\ r.checkedAt = tries[t].checkedAt /\ r.amount = tries[t].amount
      /\ r.chainTime = tries[t].chainTime
  BY <1>2, <1>5 DEF TryRecords
<1> HIDE DEF r
<1>8. TryGood(t, r, pathTime)
  BY <1>1, <1>2, <1>5, <1>7 DEF TryGood
<1>9. TryBecomes(t, r)
  BY <1>1, <1>2, <1>3, <1>6, <1>7, <1>8 DEF TryBecomes, Told
<1>10. QED  BY <1>9

LEMMA RejectBecomes ==
  ASSUME PathTypes, TriesInv, NEW t \in Tries, reject(t)
  PROVE  \E r : TryBecomes(t, r)
<1>1. tries[t].step \in PathSteps /\ "rejected" \in Outcomes
  BY DEF reject, doing, PathSteps, Outcomes
<1>2. UNCHANGED <<pathCase, pathTime, walletAt, entered>> /\ ends(t, "rejected")
  BY DEF reject
<1>3. QED  BY <1>1, <1>2, EndsBecomes

LEMMA VerdictTyped == ASSUME NEW intent PROVE verdict(intent) \in Verdicts
BY DEF verdict, Verdicts

LEMMA PostBecomes ==
  ASSUME PathTypes, TriesInv, NEW t \in Tries, post(t)
  PROVE  \E r : TryBecomes(t, r) /\ r.step = "replying" /\ r.form = tries[t].form
<1>1. tries[t].step \in PathSteps /\ tries[t].step = "posting"
  BY DEF post, doing, PathSteps
<1>2. tries[t] \in TryRecords /\ tries[t].id = t /\ TryGood(t, tries[t], pathTime) /\ tries[t] # NotPressed
  BY <1>1, PressedIsGood
<1>3. UNCHANGED <<pathCase, pathTime, walletAt, entered>>
  BY DEF post, cardSide
<1>4. PICK v \in Verdicts : tries' = [tries EXCEPT ![t].step = "replying", ![t].said = v]
  BY VerdictTyped DEF post
<1> DEFINE r == [tries[t] EXCEPT !.step = "replying", !.said = v]
<1>6. tries' = [tries EXCEPT ![t] = r]
  BY <1>4 DEF PathTypes
<1>7. r \in TryRecords /\ r.id = t /\ r.step = "replying" /\ r.amount = tries[t].amount
      /\ r.chainTime = tries[t].chainTime /\ r.form = tries[t].form
  BY <1>2, <1>4 DEF TryRecords, PathSteps
<1> HIDE DEF r
<1>8. TryGood(t, r, pathTime)
  BY <1>1, <1>2, <1>7 DEF TryGood
<1>9. TryBecomes(t, r)
  BY <1>1, <1>2, <1>3, <1>6, <1>7, <1>8 DEF TryBecomes, Told
<1>10. QED  BY <1>7, <1>9

LEMMA ReplyBecomes ==
  ASSUME PathTypes, TriesInv, NEW t \in Tries, reply(t)
  PROVE  \E r : TryBecomes(t, r) /\ r.step = "done"
<1>1. tries[t].step \in PathSteps /\ tries[t].step = "replying"
  BY DEF reply, doing, PathSteps
<1>2. tries[t] \in TryRecords
  BY <1>1, PressedIsGood
<1>3. tries[t].said \in Outcomes /\ "no reply" \in Outcomes
  BY <1>2 DEF TryRecords, Outcomes
<1>4. UNCHANGED <<pathCase, pathTime, walletAt>> /\ entered' \in {0, entered}
  BY DEF reply
<1>5. QED  BY <1>1, <1>3, <1>4, EndsBecomes DEF reply

LEMMA SimulateBecomes ==
  ASSUME PathTypes, TriesInv, NEW t \in Tries, simulateCommit(t)
  PROVE  \E r : TryBecomes(t, r)
<1>1. tries[t].step \in PathSteps \ Told /\ tries[t].step = "simulating" /\ "sending" \in PathSteps /\ "refused" \in Outcomes
  BY DEF simulateCommit, doing, PathSteps, Told, Outcomes
<1>2. tries[t] \in TryRecords /\ TryGood(t, tries[t], pathTime)
  BY <1>1, PressedIsGood
<1>3. UNCHANGED <<pathCase, pathTime, walletAt, entered>>
  BY DEF simulateCommit
<1>4. TryGood(t, [tries[t] EXCEPT !.step = "sending"], pathTime)
  BY <1>1, <1>2 DEF TryGood, TryRecords
<1>5. at(t, "sending") \/ ends(t, "refused")
  BY DEF simulateCommit
<1>6. QED  BY <1>1, <1>3, <1>4, <1>5, EndsBecomes, AtBecomes

LEMMA SendBecomes ==
  ASSUME PathTypes, TriesInv, NEW t \in Tries, sendTransaction(t)
  PROVE  \E r : TryBecomes(t, r)
<1>1. tries[t].step \in PathSteps \ Told /\ tries[t].step = "sending" /\ "landing" \in PathSteps /\ "lost" \in PathSteps
  BY DEF sendTransaction, doing, PathSteps, Told
<1>2. tries[t] \in TryRecords /\ TryGood(t, tries[t], pathTime)
  BY <1>1, PressedIsGood
<1>3. UNCHANGED <<pathCase, pathTime, walletAt, entered>>
  BY DEF sendTransaction, cardSide
<1>4. TryGood(t, [tries[t] EXCEPT !.step = "landing"], pathTime) /\ TryGood(t, [tries[t] EXCEPT !.step = "lost"], pathTime)
  BY <1>1, <1>2 DEF TryGood, TryRecords
<1>5. at(t, "landing") \/ at(t, "lost")
  BY DEF sendTransaction
<1>6. QED  BY <1>1, <1>3, <1>4, <1>5, AtBecomes

LEMMA MissingBecomes ==
  ASSUME PathTypes, TriesInv, NEW t \in Tries, receiptMissing(t)
  PROVE  \E r : TryBecomes(t, r)
<1>1. tries[t].step \in PathSteps /\ "no receipt" \in Outcomes
  BY DEF receiptMissing, doing, PathSteps, Outcomes
<1>2. UNCHANGED <<pathCase, pathTime, walletAt, entered>> /\ ends(t, "no receipt")
  BY DEF receiptMissing
<1>3. QED  BY <1>1, <1>2, EndsBecomes

LEMMA LandApprovalBecomes ==
  ASSUME PathTypes, TriesInv, NEW t \in Tries, landApproval(t)
  PROVE  \E r : TryBecomes(t, r) /\ r.step = "rechecking"
<1>1. tries[t].step \in PathSteps \ Told /\ tries[t].step = "landing" /\ "rechecking" \in PathSteps
  BY DEF landApproval, doing, PathSteps, Told
<1>2. tries[t] \in TryRecords /\ TryGood(t, tries[t], pathTime)
  BY <1>1, PressedIsGood
<1>3. UNCHANGED <<pathCase, pathTime, walletAt, entered>> /\ at(t, "rechecking")
  BY DEF landApproval, cardSide
<1>4. TryGood(t, [tries[t] EXCEPT !.step = "rechecking"], pathTime)
  BY <1>1, <1>2 DEF TryGood, TryRecords
<1>6. QED  BY <1>1, <1>3, <1>4, AtBecomes

LEMMA RecheckBecomes ==
  ASSUME PathTypes, TriesInv, NEW t \in Tries, recheckAllowance(t)
  PROVE  \E r : TryBecomes(t, r) /\ r.step = "done"
<1>1. tries[t].step \in PathSteps /\ "approved" \in Outcomes
  BY DEF recheckAllowance, doing, PathSteps, Outcomes
<1>2. UNCHANGED <<pathCase, pathTime, walletAt, entered>> /\ ends(t, "approved")
  BY DEF recheckAllowance
<1>3. QED  BY <1>1, <1>2, EndsBecomes

LEMMA LandCommitmentBecomes ==
  ASSUME PathTypes, TriesInv, NEW t \in Tries, landCommitment(t)
  PROVE  \E r : TryBecomes(t, r) /\ r.step = "done"
<1>1. tries[t].step \in PathSteps /\ "committed" \in Outcomes /\ "reverted" \in Outcomes
  BY DEF landCommitment, doing, PathSteps, Outcomes
<1>2. UNCHANGED <<pathCase, pathTime, walletAt>> /\ entered' \in {0, entered} /\ (ends(t, "committed") \/ ends(t, "reverted"))
  BY DEF landCommitment
<1>3. QED  BY <1>1, <1>2, EndsBecomes

\* A step of a try, whatever it is.
LEMMA TryStepBecomes ==
  ASSUME PathTypes, TriesInv, NEW t \in Tries, TryStep(t)
  PROVE  \E r : TryBecomes(t, r)
BY GuardBecomes, AskCurrentBatchBecomes, AskNextNonceBecomes, SignBecomes, RejectBecomes, PostBecomes, ReplyBecomes,
   SimulateBecomes, SendBecomes, MissingBecomes, LandApprovalBecomes, RecheckBecomes, LandCommitmentBecomes DEF TryStep

LEMMA PressBecomes ==
  ASSUME PathTypes, TriesInv, NEW t \in Tries, pressSign(t) \/ pressApprove(t) \/ pressCommit(t)
  PROVE  \E r : TryBecomes(t, r) /\ r.amount = entered /\ r.step \notin Told /\ tries[t] = NotPressed
<1>1. CASE pressSign(t)
  <2>1. started(t, "asking") /\ entered > 0 /\ is(t, "sign") /\ UNCHANGED <<pathCase, pathTime, walletAt, entered>>
    BY <1>1 DEF pressSign, canSign, cardSide
  <2>2. QED  BY <2>1, StartedBecomes DEF Told
<1>2. CASE pressApprove(t) \/ pressCommit(t)
  <2>1. started(t, "guarding") /\ entered > 0 /\ ~is(t, "sign") /\ UNCHANGED <<pathCase, pathTime, walletAt, entered>>
    BY <1>2 DEF pressApprove, pressCommit, cardSide, is
  <2>2. QED  BY <2>1, StartedBecomes DEF Told
<1>3. QED  BY <1>1, <1>2

----------------------------------------------------------------------------
(* A lone try.                                                             *)

Quiet == ~ownerActed /\ \A t \in Tries : tries[t].step \notin Told

\* Nothing has happened to the owner's side yet, and the cards read what is there.
Undisturbed ==
  /\ held = PathBalance /\ usedNonces = {} /\ ownerCode = "none" /\ mempool = {}
  /\ \A b \in PathWindows : winners[b] = {}
  /\ \A x \in PathCrosses : books[x] = <<>>
  /\ reads = [balance |-> reads.balance, allowance |-> reads.allowance]
  /\ reads.balance \in {Unread, held} /\ reads.allowance \in {Unread, approved} /\ approved \in Nat

CanPay == \A t \in Tries : is(t, "sign") /\ tries[t] # NotPressed => tries[t].amount <= held /\ tries[t].amount <= approved

QuietInv == Quiet => Undisturbed /\ CanPay

\* What was refused has been answered.
RefusalsInv == \A x \in refusals : x.try \in Tries /\ tries[x.try].step \in {"replying", "done"}

Commitments ==
  [try : Tries, form : SignatureForms, nonce : NonceValues, sell : 1..PathBalance, validAfter : {0}, validUntil : Int]

\* A book has what pressed tries signed, and only the first cross has one.
BooksInv ==
  /\ books \in [PathCrosses -> Seq(Commitments)]
  /\ \A x \in PathCrosses : books[x] # <<>> => x = Min(PathCrosses)
  /\ \A x \in PathCrosses : \A k \in DOMAIN books[x] : tries[books[x][k].try] # NotPressed

CardsInv == PathTypes /\ TriesInv /\ QuietInv /\ RefusalsInv /\ BooksInv /\ LoneIntentAccepted /\ SpendsWhereRead

LEMMA QuietBefore ==
  ASSUME PathTypes, NEW t \in Tries, NEW r, TryBecomes(t, r), ownerActed' = ownerActed, Quiet'
  PROVE  Quiet /\ r.step \notin Told
<1>1. Tries' = Tries /\ tries'[t] = r /\ \A u \in Tries : u # t => tries'[u] = tries[u]
  BY BecomesTyped
<1>2. r.step \notin Told
  BY <1>1 DEF Quiet
<1>3. tries[t].step \notin Told
  BY <1>2 DEF TryBecomes
<1>4. QED  BY <1>1, <1>2, <1>3 DEF Quiet

\* The owner's side, the coordinator and what the cards read.
sameWorld == UNCHANGED <<held, approved, usedNonces, ownerCode, winners, books, mempool, reads>>

LEMMA UndisturbedSame == ASSUME Undisturbed, sameWorld PROVE Undisturbed'
BY DEF Undisturbed, sameWorld

LEMMA TryKeepsQuiet ==
  ASSUME PathTypes, QuietInv, NEW t \in Tries, NEW r, TryBecomes(t, r), tries[t] # NotPressed, ownerActed' = ownerActed,
         sameWorld \/ r.step \in Told
  PROVE  QuietInv'
<1> SUFFICES ASSUME Quiet' PROVE Undisturbed' /\ CanPay'
  BY DEF QuietInv
<1>1. Quiet /\ r.step \notin Told
  BY QuietBefore
<1>2. sameWorld /\ Undisturbed /\ CanPay
  BY <1>1 DEF QuietInv
<1>3. Tries' = Tries /\ tries'[t] = r /\ \A u \in Tries : u # t => tries'[u] = tries[u]
  BY BecomesTyped
<1>4. ASSUME NEW u \in Tries, is(u, "sign")', tries'[u] # NotPressed
      PROVE  tries'[u].amount <= held' /\ tries'[u].amount <= approved'
  <2>1. is(u, "sign") /\ held' = held /\ approved' = approved
    BY <1>2, <1>4 DEF is, TryBecomes, sameWorld
  <2>2. CASE u = t
    BY <1>2, <1>3, <2>1, <2>2 DEF CanPay, TryBecomes
  <2>3. CASE u # t
    BY <1>2, <1>3, <1>4, <2>1, <2>3 DEF CanPay
  <2>4. QED  BY <2>2, <2>3
<1>5. CanPay'
  BY <1>3, <1>4 DEF CanPay, NotPressed
<1>6. QED  BY <1>2, <1>5, UndisturbedSame

LEMMA TryStepKeepsQuiet ==
  ASSUME PathTypes, TriesInv, QuietInv, NEW t \in Tries, TryStep(t)
  PROVE  QuietInv'
<1>1. tries[t].step \in PathSteps /\ ownerActed' = ownerActed
  BY DEF TryStep, guard, askCurrentBatch, askNextNonce, sign, reject, post, reply, simulateCommit, sendTransaction,
         receiptMissing, landApproval, recheckAllowance, landCommitment, doing, PathSteps
<1>2. tries[t] # NotPressed
  BY <1>1, PressedIsGood
<1>3. CASE post(t) \/ reply(t) \/ landApproval(t) \/ recheckAllowance(t) \/ landCommitment(t)
  <2>1. PICK r : TryBecomes(t, r) /\ r.step \in {"replying", "done", "rechecking"}
    BY <1>3, PostBecomes, ReplyBecomes, LandApprovalBecomes, RecheckBecomes, LandCommitmentBecomes
  <2>2. r.step \in Told
    BY <2>1 DEF Told
  <2>3. QED  BY <1>1, <1>2, <2>1, <2>2, TryKeepsQuiet
<1>4. CASE ~(post(t) \/ reply(t) \/ landApproval(t) \/ recheckAllowance(t) \/ landCommitment(t))
  <2>1. sameWorld
    BY <1>4 DEF TryStep, guard, askCurrentBatch, askNextNonce, sign, reject, simulateCommit, sendTransaction,
                receiptMissing, ownerSide, cardSide, sameWorld
  <2>2. PICK r : TryBecomes(t, r)
    BY TryStepBecomes
  <2>3. QED  BY <1>1, <1>2, <2>1, <2>2, TryKeepsQuiet
<1>5. QED  BY <1>3, <1>4

LEMMA PressKeepsQuiet ==
  ASSUME PathTypes, TriesInv, QuietInv, NEW t \in Tries, pressSign(t) \/ pressApprove(t) \/ pressCommit(t)
  PROVE  QuietInv'
<1> SUFFICES ASSUME Quiet' PROVE Undisturbed' /\ CanPay'
  BY DEF QuietInv
<1>1. PICK r : TryBecomes(t, r) /\ r.amount = entered /\ tries[t] = NotPressed
  BY PressBecomes
<1>2. ownerActed' = ownerActed /\ sameWorld
  BY DEF pressSign, pressApprove, pressCommit, ownerSide, cardSide, sameWorld
<1>3. Quiet /\ Undisturbed /\ CanPay
  BY <1>1, <1>2, QuietBefore DEF QuietInv
<1>4. Tries' = Tries /\ tries'[t] = r /\ \A u \in Tries : u # t => tries'[u] = tries[u]
  BY <1>1, BecomesTyped
<1>5. is(t, "sign") => entered <= held /\ entered <= approved
  <2> SUFFICES ASSUME is(t, "sign") PROVE entered <= held /\ entered <= approved
    OBVIOUS
  <2>1. canSign
    BY DEF pressSign, pressApprove, pressCommit, is
  <2>2. reads.balance = held /\ reads.allowance = approved /\ held \in Nat /\ approved \in Nat /\ entered \in Nat
    BY <1>3, <2>1, PathFacts DEF canSign, unread, Undisturbed, PathTypes
  <2>3. ~(held < entered) /\ ~(approved < entered)
    BY <2>1, <2>2 DEF canSign, short, unapproved, unread
  <2>4. QED  BY <2>2, <2>3
<1>6. ASSUME NEW u \in Tries, is(u, "sign")', tries'[u] # NotPressed
      PROVE  tries'[u].amount <= held' /\ tries'[u].amount <= approved'
  <2>1. is(u, "sign") /\ held' = held /\ approved' = approved
    BY <1>1, <1>2, <1>6 DEF is, TryBecomes, sameWorld
  <2>2. CASE u = t
    BY <1>1, <1>4, <1>5, <2>1, <2>2
  <2>3. CASE u # t
    BY <1>3, <1>4, <1>6, <2>1, <2>3 DEF CanPay
  <2>4. QED  BY <2>2, <2>3
<1>7. CanPay'
  BY <1>4, <1>6 DEF CanPay, NotPressed
<1>8. QED  BY <1>2, <1>3, <1>7, UndisturbedSame

\* Everything that is not a step of a try.
Around ==
  \/ \E a \in 1..PathBalance : typeAmount(a)
  \/ readAccount
  \/ \E b \in PathWindows : submitSolution(b) \/ finalizeBatch(b)
  \/ \E x \in PathCrosses : freezeBook(x)
  \/ OwnerActs \/ WalletMoves \/ PathSecond

LEMMA AroundTyped ==
  ASSUME PathTypes, TriesInv, Around
  PROVE  PathTypes' /\ TriesInv' /\ Tries' = Tries /\ tries' = tries
<1>1. pathCase' = pathCase /\ tries' = tries
  BY DEF Around, typeAmount, readAccount, submitSolution, finalizeBatch, freezeBook, OwnerActs, WalletMoves, PathSecond
<1>2. Tries' = Tries
  BY <1>1 DEF Tries
<1>3. TryRecords' = TryRecords
  BY <1>2 DEF TryRecords
<1>4. walletAt' \in {"app", "other"}
  BY DEF Around, typeAmount, readAccount, submitSolution, finalizeBatch, freezeBook, OwnerActs, WalletMoves, PathSecond,
         PathTypes
<1>5. entered' \in 0..PathBalance
  <2>1. ASSUME NEW a \in 1..PathBalance, typeAmount(a) PROVE entered' \in 0..PathBalance
    BY <2>1, PathFacts DEF typeAmount
  <2>2. CASE entered' = entered
    BY <2>2 DEF PathTypes
  <2>3. QED
    BY <2>1, <2>2 DEF Around, readAccount, submitSolution, finalizeBatch, freezeBook, OwnerActs, WalletMoves, PathSecond, cardSide
<1>6. pathTime' \in 0..pathCase.last /\ pathTime' \in Nat /\ pathTime' >= pathTime
  <2>1. pathTime \in Nat /\ pathTime \in 0..pathCase.last /\ pathCase.last \in Nat
    BY TimeTyped, PathFacts DEF PathTypes
  <2>2. CASE PathSecond
    BY <2>1, <2>2 DEF PathSecond
  <2>3. CASE pathTime' = pathTime
    BY <2>1, <2>3
  <2>4. QED
    BY <2>2, <2>3 DEF Around, typeAmount, readAccount, submitSolution, finalizeBatch, freezeBook, OwnerActs, WalletMoves
<1>7. PathTypes'
  BY <1>1, <1>2, <1>3, <1>4, <1>5, <1>6 DEF PathTypes, NotPressed
<1>8. ASSUME NEW t \in Tries, tries[t] # NotPressed PROVE TryGood(t, tries[t], pathTime)'
  <2>1. TryGood(t, tries[t], pathTime) /\ pathTime \in Nat
    BY <1>8, TimeTyped DEF TriesInv
  <2>2. tries[t].chainTime \in 0..pathTime => tries[t].chainTime \in 0..pathTime'
    BY <1>6, <2>1
  <2>3. QED  BY <1>1, <2>1, <2>2 DEF TryGood, is
<1>9. TriesInv'
  BY <1>1, <1>2, <1>8 DEF TriesInv, NotPressed
<1>10. QED  BY <1>1, <1>2, <1>7, <1>9

LEMMA AroundKeepsQuiet ==
  ASSUME PathTypes, TriesInv, QuietInv, Around
  PROVE  QuietInv'
<1> SUFFICES ASSUME Quiet' PROVE Undisturbed' /\ CanPay'
  BY DEF QuietInv
<1>1. Tries' = Tries /\ tries' = tries /\ pathCase' = pathCase
  BY AroundTyped DEF Around, typeAmount, readAccount, submitSolution, finalizeBatch, freezeBook, OwnerActs, WalletMoves, PathSecond
<1>2. ~OwnerActs /\ ownerActed' = ownerActed
  BY DEF Quiet, Around, typeAmount, readAccount, submitSolution, finalizeBatch, freezeBook, OwnerActs, WalletMoves, PathSecond
<1>3. Undisturbed /\ CanPay
  BY <1>1, <1>2 DEF QuietInv, Quiet
<1>4. ASSUME NEW b \in PathWindows PROVE ~submitSolution(b) /\ ~finalizeBatch(b)
  <2>1. mempool = {} /\ winners[b] = {}
    BY <1>3 DEF Undisturbed
  <2>2. ~submitSolution(b)
    BY <2>1 DEF submitSolution
  <2>3. ~finalizeBatch(b)
    BY <2>1 DEF finalizeBatch
  <2>4. QED  BY <2>2, <2>3
<1>5. ASSUME NEW x \in PathCrosses PROVE ~freezeBook(x)
  BY <1>3 DEF Undisturbed, freezeBook
<1>6. (\E a \in 1..PathBalance : typeAmount(a)) \/ readAccount \/ WalletMoves \/ PathSecond
  BY <1>2, <1>4, <1>5 DEF Around
<1>7. UNCHANGED <<held, approved, usedNonces, ownerCode, winners, books, mempool>>
  BY <1>6 DEF typeAmount, readAccount, WalletMoves, PathSecond, ownerSide
<1>8. CanPay'
  BY <1>1, <1>3, <1>7 DEF CanPay, is, NotPressed
<1>9. CASE readAccount
  <2>1. reads' = [reads EXCEPT !.balance = held] \/ reads' = [reads EXCEPT !.allowance = approved]
    BY <1>9 DEF readAccount
  <2>2. reads = [balance |-> reads.balance, allowance |-> reads.allowance]
    BY <1>3 DEF Undisturbed
  <2>3. /\ reads' = [balance |-> reads'.balance, allowance |-> reads'.allowance]
        /\ reads'.balance \in {reads.balance, held} /\ reads'.allowance \in {reads.allowance, approved}
    BY <2>1, <2>2
  <2>4. QED  BY <1>3, <1>7, <1>8, <2>3 DEF Undisturbed
<1>10. CASE ~readAccount
  <2>1. sameWorld
    BY <1>6, <1>7, <1>10 DEF typeAmount, WalletMoves, PathSecond, cardSide, sameWorld
  <2>2. QED  BY <1>3, <1>8, <2>1, UndisturbedSame
<1>11. QED  BY <1>9, <1>10

\* What history says of a try stays true of it.
TriesStay ==
  /\ Tries' = Tries
  /\ \A t \in Tries : tries[t] # NotPressed => tries'[t] # NotPressed
  /\ \A t \in Tries : tries[t].step \in {"replying", "done"} =>
       tries'[t].step \in {"replying", "done"} /\ tries'[t].form = tries[t].form

LEMMA TriesAlwaysStay == ASSUME PathTypes, TriesInv, PathNext PROVE TriesStay
<1>1. ASSUME NEW t \in Tries, NEW r, TryBecomes(t, r) PROVE TriesStay
  <2>1. Tries' = Tries /\ tries'[t] = r /\ \A u \in Tries : u # t => tries'[u] = tries[u]
    BY <1>1, BecomesTyped
  <2>2. r # NotPressed
    <3>1. r.step \in PathSteps
      BY <1>1 DEF TryBecomes, TryRecords
    <3>2. QED  BY <3>1 DEF NotPressed, PathSteps
  <2>3. QED  BY <1>1, <2>1, <2>2 DEF TriesStay, TryBecomes, NotPressed
<1>2. CASE Around
  BY <1>2, AroundTyped DEF TriesStay, NotPressed
<1>3. CASE \E t \in Tries : TryStep(t)
  BY <1>1, <1>3, TryStepBecomes
<1>4. CASE Pressing
  BY <1>1, <1>4, PressBecomes DEF Pressing
<1>5. QED  BY <1>2, <1>3, <1>4 DEF PathNext, Around

\* The steps that write history, and what the others leave.
LEMMA HistoryStays ==
  ASSUME PathNext
  PROVE  /\ refusals' = refusals \/ \E t \in Tries : post(t)
         /\ strayed' = strayed \/ \E t \in Tries : sendTransaction(t)
         /\ books' = books \/ \E t \in Tries : landCommitment(t)
         /\ pathCase' = pathCase /\ (ownerActed => ownerActed')
<1>1. CASE Around
  <2>1. UNCHANGED <<refusals, strayed, books>>
    BY <1>1 DEF Around, typeAmount, readAccount, submitSolution, finalizeBatch, freezeBook, OwnerActs, WalletMoves, PathSecond,
                ownerSide, historySide
  <2>2. pathCase' = pathCase
    BY <1>1 DEF Around, typeAmount, readAccount, submitSolution, finalizeBatch, freezeBook, OwnerActs, WalletMoves, PathSecond
  <2>3. ownerActed => ownerActed'
    BY <1>1 DEF Around, typeAmount, readAccount, submitSolution, finalizeBatch, freezeBook, OwnerActs, WalletMoves, PathSecond
  <2>4. QED  BY <2>1, <2>2, <2>3
<1>2. ASSUME NEW t \in Tries, pressSign(t) \/ pressApprove(t) \/ pressCommit(t)
      PROVE  UNCHANGED <<refusals, strayed, books, pathCase, ownerActed>>
  BY <1>2 DEF pressSign, pressApprove, pressCommit, ownerSide, historySide
<1>3. ASSUME NEW t \in Tries, TryStep(t)
      PROVE  /\ refusals' = refusals \/ post(t)
             /\ strayed' = strayed \/ sendTransaction(t)
             /\ books' = books \/ landCommitment(t)
             /\ UNCHANGED <<pathCase, ownerActed>>
  BY <1>3 DEF TryStep, guard, askCurrentBatch, askNextNonce, sign, reject, post, reply, simulateCommit, sendTransaction,
         receiptMissing, landApproval, recheckAllowance, landCommitment, ownerSide, historySide
<1>4. QED  BY <1>1, <1>2, <1>3 DEF PathNext, Around, Pressing

LEMMA StrayedKept ==
  ASSUME PathTypes, TriesInv, SpendsWhereRead, PathNext
  PROVE  SpendsWhereRead'
<1>1. pathCase' = pathCase /\ (strayed' = strayed \/ \E t \in Tries : sendTransaction(t))
  BY HistoryStays
<1>2. ASSUME NEW t \in Tries, sendTransaction(t), walletAt # "app"
      PROVE  tries[t].checkedAt # walletAt \/ pathCase.gap <= SlackBlocks
  <2>1. tries[t].step = "sending" /\ tries[t].step \in PathSteps
    BY <1>2 DEF sendTransaction, doing, PathSteps
  <2>2. TryGood(t, tries[t], pathTime)
    BY <2>1, PressedIsGood
  <2>3. QED  BY <1>2, <2>1, <2>2 DEF TryGood
<1>3. ASSUME NEW t \in Tries, sendTransaction(t) PROVE SpendsWhereRead'
  <2>1. CASE walletAt = "app"
    BY <1>1, <1>3, <2>1 DEF sendTransaction, SpendsWhereRead
  <2>2. CASE walletAt # "app"
    <3> DEFINE new == [try |-> t, moved |-> tries[t].checkedAt # walletAt]
    <3>1. strayed' = strayed \cup {new}
      BY <1>3, <2>2 DEF sendTransaction
    <3>2. new.moved \/ pathCase.gap <= SlackBlocks
      BY <1>2, <1>3, <2>2
    <3> HIDE DEF new
    <3>3. QED  BY <1>1, <3>1, <3>2 DEF SpendsWhereRead
  <2>3. QED  BY <2>1, <2>2
<1>4. QED  BY <1>1, <1>3 DEF SpendsWhereRead

\* The cross a commitment is taken for is ahead, and its book is open.
LEMMA NextCross ==
  ASSUME PathTypes, ahead # {}
  PROVE  nextCross \in PathCrosses /\ nextCross \in Nat /\ pathTime < nextCross /\ \A x \in ahead : nextCross <= x
<1>1. IsFiniteSet(ahead) /\ ahead \subseteq Nat /\ \A x \in ahead : x \in PathCrosses /\ pathTime < x
  BY PathFacts, FS_Subset DEF ahead
<1> HIDE DEF ahead
<1>2. nextCross \in ahead /\ nextCross \in Nat /\ \A x \in ahead : nextCross <= x
  BY <1>1, MinOf DEF nextCross
<1>3. QED  BY <1>1, <1>2

\* A commitment reaches the chain before the cross it was built for has passed.
LEMMA LandsInFirst ==
  ASSUME PathTypes, NEW t \in Tries, tries[t] \in TryRecords, houseTakes(buildAuctionIntent(tries[t]))
  PROVE  nextCross = Min(PathCrosses) /\ nextCross \in PathCrosses /\ nextCross \in Nat /\ AfterCross \in Nat
<1> DEFINE intent == buildAuctionIntent(tries[t])
<1>1. ahead # {} /\ intent.validUntil >= nextCross
  BY DEF houseTakes
<1>2. intent.validUntil = Min(PathCrosses) + AfterCross
  BY DEF buildAuctionIntent, TryRecords
<1>3. nextCross \in PathCrosses /\ nextCross \in Nat /\ AfterCross \in Nat
  BY <1>1, NextCross, PathFacts
<1>4. Min(PathCrosses) \in PathCrosses /\ \A x \in PathCrosses : Min(PathCrosses) <= x
  BY <1>3, PathFacts, MinOf
<1>5. PICK x \in PathCrosses : x = Min(PathCrosses)
  BY <1>4
<1>6. x <= nextCross /\ x \in Nat /\ nextCross <= x + AfterCross
  BY <1>1, <1>2, <1>3, <1>4, <1>5, PathFacts
<1>7. x < nextCross => x + AfterCross < nextCross
  BY <1>3, PathAssumption
<1>8. QED  BY <1>3, <1>5, <1>6, <1>7

LEMMA AppendToBook ==
  ASSUME NEW S, NEW list \in Seq(S), NEW e \in S
  PROVE  /\ Append(list, e) \in Seq(S)
         /\ \A k \in DOMAIN Append(list, e) :
              Append(list, e)[k] = e \/ (k \in DOMAIN list /\ Append(list, e)[k] = list[k])
<1>1. Append(list, e) \in Seq(S)
  OBVIOUS
<1>2. Len(list) \in Nat /\ DOMAIN list = 1..Len(list)
  OBVIOUS
<1>3. DOMAIN Append(list, e) = 1..(Len(list) + 1)
  BY <1>2
<1>4. ASSUME NEW k \in DOMAIN Append(list, e)
      PROVE  Append(list, e)[k] = e \/ (k \in DOMAIN list /\ Append(list, e)[k] = list[k])
  <2>1. k \in 1..(Len(list) + 1)
    BY <1>3
  <2>2. CASE k = Len(list) + 1
    BY <1>2, <2>2
  <2>3. CASE k # Len(list) + 1
    <3>1. k \in 1..Len(list)
      BY <1>2, <2>1, <2>3
    <3>2. QED  BY <1>2, <3>1
  <2>4. QED  BY <2>2, <2>3
<1>5. QED  BY <1>1, <1>4

LEMMA BooksKept ==
  ASSUME PathTypes, TriesInv, BooksInv, PathNext
  PROVE  BooksInv'
<1>1. TriesStay /\ (books' = books \/ \E t \in Tries : landCommitment(t))
  BY TriesAlwaysStay, HistoryStays
<1>2. Commitments' = Commitments
  BY <1>1 DEF Commitments, TriesStay
<1>3. ASSUME NEW x \in PathCrosses, NEW k \in DOMAIN books[x]
      PROVE  books[x][k].try \in Tries /\ tries'[books[x][k].try] # NotPressed
  <2>1. books[x][k] \in Commitments
    BY <1>3 DEF BooksInv
  <2>2. books[x][k].try \in Tries /\ tries[books[x][k].try] # NotPressed
    BY <1>3, <2>1 DEF BooksInv, Commitments
  <2>3. QED  BY <1>1, <2>2 DEF TriesStay
<1>4. CASE books' = books
  BY <1>2, <1>3, <1>4 DEF BooksInv, NotPressed
<1>5. ASSUME NEW t \in Tries, landCommitment(t), books' # books PROVE BooksInv'
  <2> DEFINE intent == buildAuctionIntent(tries[t])
             cross  == nextCross
  <2>1. houseTakes(intent) /\ books' = [books EXCEPT ![cross] = Append(@, intent)]
    BY <1>5 DEF landCommitment
  <2>2. tries[t].step \in PathSteps
    BY <1>5 DEF landCommitment, doing, PathSteps
  <2>3. tries[t] \in TryRecords /\ tries[t].id = t /\ tries[t] # NotPressed
    BY <2>2, PressedIsGood
  <2>4. cross = Min(PathCrosses) /\ cross \in PathCrosses /\ cross \in Nat /\ AfterCross \in Nat
    BY <2>1, <2>3, LandsInFirst
  <2>5. intent \in Commitments /\ intent.try = t
    BY <2>3, <2>4 DEF Commitments, buildAuctionIntent, TryRecords
  <2> HIDE DEF intent, cross
  <2>6. books \in [PathCrosses -> Seq(Commitments)]
    BY DEF BooksInv
  <2>7. cross \in PathCrosses
    BY <2>4
  <2>8. /\ Append(books[cross], intent) \in Seq(Commitments)
        /\ \A k \in DOMAIN Append(books[cross], intent) :
             \/ Append(books[cross], intent)[k] = intent
             \/ k \in DOMAIN books[cross] /\ Append(books[cross], intent)[k] = books[cross][k]
    BY <2>5, <2>6, <2>7, AppendToBook
  <2>9. books' \in [PathCrosses -> Seq(Commitments)]
    BY <2>1, <2>6, <2>7, <2>8
  <2>10. ASSUME NEW x \in PathCrosses, books'[x] # <<>> PROVE x = Min(PathCrosses)
    <3>1. CASE x = cross
      BY <2>4, <3>1
    <3>2. CASE x # cross
      BY <2>1, <2>6, <2>10, <3>2 DEF BooksInv
    <3>3. QED  BY <3>1, <3>2
  <2>11. ASSUME NEW x \in PathCrosses, NEW k \in DOMAIN books'[x] PROVE tries'[books'[x][k].try] # NotPressed
    <3>1. CASE x = cross
      <4>1. books'[x] = Append(books[cross], intent)
        BY <2>1, <2>6, <2>7, <3>1
      <4>2. CASE books'[x][k] = intent
        BY <1>1, <2>3, <2>5, <4>2 DEF TriesStay
      <4>3. CASE k \in DOMAIN books[x] /\ books'[x][k] = books[x][k]
        BY <1>3, <4>3
      <4>4. QED  BY <2>8, <2>11, <3>1, <4>1, <4>2, <4>3
    <3>2. CASE x # cross
      <4>1. books'[x] = books[x]
        BY <2>1, <2>6, <3>2
      <4>2. QED  BY <1>3, <2>11, <4>1
    <3>3. QED  BY <3>1, <3>2
  <2>12. QED  BY <1>2, <2>9, <2>10, <2>11 DEF BooksInv, NotPressed
<1>6. QED  BY <1>1, <1>4, <1>5

\* The cross a page showed is the first.
LEMMA BooksRight ==
  ASSUME PathTypes, BooksInv
  PROVE  JoinsCrossShown
<1>1. SUFFICES ASSUME NEW x \in PathCrosses, NEW k \in DOMAIN books[x]
               PROVE  tries[books[x][k].try].crossAt = x
  BY DEF JoinsCrossShown
<1>2. books[x] \in Seq(Commitments) /\ books[x][k] \in Commitments
  BY <1>1 DEF BooksInv
<1>3. books[x][k].try \in Tries /\ tries[books[x][k].try] # NotPressed
  BY <1>1, <1>2 DEF BooksInv, Commitments
<1>4. tries[books[x][k].try].crossAt = Min(PathCrosses)
  BY <1>3 DEF PathTypes, TryRecords
<1>5. books[x] # <<>>
  BY <1>1, <1>2
<1>6. QED  BY <1>4, <1>5 DEF BooksInv

LEMMA EarlierOf ==
  ASSUME NEW a \in Int, NEW b \in Int
  PROVE  Min({a, b}) \in Int /\ Min({a, b}) <= a
<1>1. \E m \in {a, b} : \A e \in {a, b} : m <= e
  <2>1. CASE a <= b
    BY <2>1
  <2>2. CASE ~(a <= b)
    BY <2>2
  <2>3. QED  BY <2>1, <2>2
<1>2. Min({a, b}) \in {a, b} /\ \A e \in {a, b} : Min({a, b}) <= e
  BY <1>1 DEF Min
<1>3. QED  BY <1>2

\* An intent that comes too late was signed too slowly.
LEMMA TimelyUnlessSlow ==
  ASSUME PathTypes, NEW t \in Tries, tries[t] \in TryRecords, tries[t].chainTime \in 0..pathTime,
         windowAt(pathTime) # NoWindow, ~timely(buildIntent(tries[t]), windowAt(pathTime))
  PROVE  pathTime - tries[t].chainTime > ValidFor - LongestWindow - PathSolutionWindow - 1
<1> DEFINE b     == windowAt(pathTime)
           told  == tries[t].chainTime
           end   == tries[t].collectEnd
           until == told + ValidFor
<1>1. /\ pathTime \in 0..PathHorizon /\ pathTime \in Nat /\ LongestWindow \in Nat /\ PathSolutionWindow \in Nat
      /\ ValidFor \in Nat
  BY TimeTyped, PathFacts
<1>2. told \in 0..pathTime /\ told \in Int /\ end \in Int /\ until \in Int
  BY <1>1 DEF TryRecords
<1>3. b \in Nat /\ pathTime < b /\ b <= pathTime + LongestWindow
  BY <1>1, WindowAt
<1>4. buildIntent(tries[t]).validAfter = Min({told, end}) /\ buildIntent(tries[t]).validUntil = Max({until, end})
  BY DEF buildIntent
<1> HIDE DEF b, told, end, until
<1>5. Min({told, end}) \in Int /\ Min({told, end}) <= told
  BY <1>2, EarlierOf
<1>6. Max({until, end}) \in Int /\ Max({until, end}) >= until
  BY <1>2, LaterOf
<1>7. ~(Min({told, end}) <= b /\ Max({until, end}) > b + PathSolutionWindow)
  BY <1>4 DEF timely, pathSolveEnd, b
<1>8. Min({told, end}) <= b
  BY <1>1, <1>2, <1>3, <1>5
<1>9. until <= b + PathSolutionWindow
  BY <1>1, <1>2, <1>3, <1>6, <1>7, <1>8
<1>10. told + ValidFor <= b + PathSolutionWindow
  BY <1>9 DEF until
<1>11. pathTime - told > ValidFor - LongestWindow - PathSolutionWindow - 1
  BY <1>1, <1>2, <1>3, <1>10
<1>12. QED  BY <1>11 DEF told

Excused(t) ==
  LET said == verdict(buildIntent(tries[t])) IN
  \/ said = "ok" \/ said = "NO_OPEN_BATCH"
  \/ said = "BAD_SIGNATURE" /\ tries[t].form \notin {"65", "64"}
  \/ said = "IntentExpired" /\ pathTime - tries[t].chainTime > ValidFor - LongestWindow - PathSolutionWindow - 1

LEMMA LoneVerdict ==
  ASSUME PathTypes, TriesInv, QuietInv, Quiet, NEW t \in Tries, tries[t].step = "posting"
  PROVE  Excused(t)
<1>1. tries[t].step \in PathSteps
  BY DEF PathSteps
<1>2. tries[t] \in TryRecords /\ TryGood(t, tries[t], pathTime) /\ tries[t] # NotPressed
  BY <1>1, PressedIsGood
<1>3. is(t, "sign") /\ tries[t].chainTime \in 0..pathTime
  BY <1>2 DEF TryGood
<1>4. Undisturbed /\ CanPay
  BY DEF QuietInv
<1> DEFINE intent == buildIntent(tries[t])
<1>5. tries[t].amount <= held /\ tries[t].amount <= approved /\ tries[t].amount \in Nat
  BY <1>2, <1>3, <1>4, PathFacts DEF CanPay, TryRecords
<1>6. held \in Nat /\ approved \in Nat /\ mempool = {} /\ usedNonces = {} /\ ownerCode = "none"
  BY <1>4, PathFacts DEF Undisturbed
<1>7. intent.sell = tries[t].amount /\ intent.form = tries[t].form
  BY DEF buildIntent
<1>8. ~timely(intent, windowAt(pathTime)) /\ windowAt(pathTime) # NoWindow =>
        pathTime - tries[t].chainTime > ValidFor - LongestWindow - PathSolutionWindow - 1
  BY <1>2, <1>3, TimelyUnlessSlow
<1> HIDE DEF intent
<1>9. ~signatureAccepted(intent.form) => tries[t].form \notin {"65", "64"}
  BY <1>6, <1>7 DEF signatureAccepted, permit2EoaSignature
<1>10. intent.nonce \notin usedNonces /\ ~(held < intent.sell) /\ ~(approved < intent.sell)
  BY <1>5, <1>6, <1>7
<1>11. promised(pathTime) = 0
  <2>1. {i \in mempool : i.nonce \notin usedNonces
                         /\ (pathTime <= pathSolveEnd(i.batch) \/ winners[i.batch] # {})} = {}
    BY <1>6
  <2>2. QED  BY <2>1, SumEmpty DEF promised
<1>12. coveredBeside(intent, held) /\ coveredBeside(intent, approved)
  BY <1>5, <1>6, <1>7, <1>11 DEF coveredBeside
<1>13. intent.nonce \notin heldNonces(pathTime)
  BY <1>6 DEF heldNonces
<1>14. \/ verdict(intent) = "ok" \/ verdict(intent) = "NO_OPEN_BATCH"
       \/ verdict(intent) = "BAD_SIGNATURE" /\ ~signatureAccepted(intent.form)
       \/ verdict(intent) = "IntentExpired" /\ ~timely(intent, windowAt(pathTime)) /\ windowAt(pathTime) # NoWindow
  BY <1>10, <1>12, <1>13 DEF verdict
<1>15. QED  BY <1>8, <1>9, <1>14 DEF Excused, intent

LEMMA RefusalsKept ==
  ASSUME PathTypes, TriesInv, QuietInv, RefusalsInv, LoneIntentAccepted, PathNext
  PROVE  RefusalsInv' /\ LoneIntentAccepted'
<1>1. /\ TriesStay /\ (refusals' = refusals \/ \E t \in Tries : post(t))
      /\ (ownerActed => ownerActed')
  BY TriesAlwaysStay, HistoryStays
<1> DEFINE Fine(x) ==
      \/ ownerActed' \/ \E t \in Tries : t # x.try /\ tries'[t] # NotPressed
      \/ x.reason = "NO_OPEN_BATCH"
      \/ x.reason = "BAD_SIGNATURE" /\ tries'[x.try].form \notin {"65", "64"}
      \/ x.reason = "IntentExpired" /\ x.waited > ValidFor - LongestWindow - PathSolutionWindow - 1
<1>2. ASSUME NEW x \in refusals
      PROVE  x.try \in Tries /\ tries'[x.try].step \in {"replying", "done"} /\ Fine(x)
  <2>1. x.try \in Tries /\ tries[x.try].step \in {"replying", "done"}
    BY DEF RefusalsInv
  <2>2. tries'[x.try].step \in {"replying", "done"} /\ tries'[x.try].form = tries[x.try].form
    BY <1>1, <2>1 DEF TriesStay
  <2>3. QED  BY <1>1, <2>1, <2>2 DEF LoneIntentAccepted, TriesStay
<1>3. Tries' = Tries
  BY <1>1 DEF TriesStay
<1>4. SUFFICES \A x \in refusals' : x.try \in Tries /\ tries'[x.try].step \in {"replying", "done"} /\ Fine(x)
  BY <1>3 DEF RefusalsInv, LoneIntentAccepted, NotPressed
<1>5. ASSUME NEW t \in Tries, post(t), NEW x \in refusals', x \notin refusals
      PROVE  x.try \in Tries /\ tries'[x.try].step \in {"replying", "done"} /\ Fine(x)
  <2> DEFINE said == verdict(buildIntent(tries[t]))
  <2>1. said # "ok" /\ x = [try |-> t, reason |-> said, waited |-> pathTime - tries[t].chainTime]
    BY <1>5 DEF post
  <2>2. PICK r : TryBecomes(t, r) /\ r.step = "replying" /\ r.form = tries[t].form
    BY <1>5, PostBecomes
  <2>3. tries'[t] = r
    BY <2>2, BecomesTyped
  <2>4. tries[t].step = "posting"
    BY <1>5 DEF post, doing
  <2>5. x.try = t /\ x.reason = said /\ x.waited = pathTime - tries[t].chainTime
    BY <2>1
  <2>6. CASE Quiet
    <3>1. Excused(t)
      BY <2>4, <2>6, LoneVerdict
    <3>2. \/ said = "NO_OPEN_BATCH"
          \/ said = "BAD_SIGNATURE" /\ tries[t].form \notin {"65", "64"}
          \/ said = "IntentExpired" /\ pathTime - tries[t].chainTime > ValidFor - LongestWindow - PathSolutionWindow - 1
      BY <2>1, <3>1 DEF Excused
    <3> HIDE DEF said
    <3>3. tries'[x.try].form = tries[t].form
      BY <2>2, <2>3, <2>5
    <3>4. Fine(x)
      BY <2>5, <3>2, <3>3
    <3>5. QED  BY <2>2, <2>3, <2>5, <3>4
  <2>7. CASE ~Quiet
    <3>1. ownerActed \/ \E u \in Tries : tries[u].step \in Told
      BY <2>7 DEF Quiet
    <3>2. ASSUME NEW u \in Tries, tries[u].step \in Told PROVE u # t /\ tries'[u] # NotPressed
      <4>1. tries[u] # NotPressed
        BY <3>2 DEF Told, NotPressed
      <4>2. QED  BY <1>1, <2>4, <3>2, <4>1 DEF TriesStay, Told
    <3>3. Fine(x)
      BY <1>1, <2>5, <3>1, <3>2
    <3>4. QED  BY <2>2, <2>3, <2>5, <3>3
  <2>8. QED  BY <2>6, <2>7
<1>6. QED  BY <1>1, <1>2, <1>5

LEMMA CardsStart == PathInit => CardsInv
<1> SUFFICES ASSUME PathInit PROVE CardsInv
  OBVIOUS
<1>1. pathCase \in PathCases /\ pathTime = 0 /\ entered = 0 /\ walletAt = "app" /\ tries = [t \in Tries |-> NotPressed]
  BY DEF PathInit
<1>2. pathCase.last \in 0..PathHorizon /\ PathHorizon \in Nat /\ PathBalance \in Nat
  BY <1>1, PathFacts
<1>3. PathTypes
  BY <1>1, <1>2 DEF PathTypes
<1>4. TriesInv
  BY <1>1 DEF TriesInv
<1>5. Undisturbed
  BY PathFacts DEF PathInit, Undisturbed, Unlimited, Unread
<1>6. QuietInv
  BY <1>1, <1>5 DEF QuietInv, CanPay
<1>7. RefusalsInv /\ LoneIntentAccepted /\ SpendsWhereRead
  BY DEF PathInit, RefusalsInv, LoneIntentAccepted, SpendsWhereRead
<1>8. BooksInv
  <2>1. books = [x \in PathCrosses |-> <<>>] /\ <<>> \in Seq(Commitments)
    BY DEF PathInit
  <2>2. QED  BY <2>1 DEF BooksInv
<1>9. QED  BY <1>3, <1>4, <1>6, <1>7, <1>8 DEF CardsInv

LEMMA CardsKept == CardsInv /\ [PathNext]_pathVars => CardsInv'
<1> SUFFICES ASSUME CardsInv, [PathNext]_pathVars PROVE CardsInv'
  OBVIOUS
<1>1. PathTypes /\ TriesInv /\ QuietInv /\ RefusalsInv /\ BooksInv /\ SpendsWhereRead /\ LoneIntentAccepted
  BY DEF CardsInv
<1>2. CASE PathNext
  <2>1. RefusalsInv' /\ LoneIntentAccepted' /\ SpendsWhereRead' /\ BooksInv'
    BY <1>1, <1>2, RefusalsKept, StrayedKept, BooksKept
  <2>2. PathTypes' /\ TriesInv' /\ QuietInv'
    <3>1. CASE \E t \in Tries : TryStep(t)
      <4>1. PICK t \in Tries : TryStep(t)
        BY <3>1
      <4>2. PICK r : TryBecomes(t, r)
        BY <1>1, <4>1, TryStepBecomes
      <4>3. QED  BY <1>1, <4>1, <4>2, BecomesTyped, BecomesGood, TryStepKeepsQuiet
    <3>2. CASE Pressing
      <4>1. PICK t \in Tries : pressSign(t) \/ pressApprove(t) \/ pressCommit(t)
        BY <3>2 DEF Pressing
      <4>2. PICK r : TryBecomes(t, r)
        BY <1>1, <4>1, PressBecomes
      <4>3. QED  BY <1>1, <4>1, <4>2, BecomesTyped, BecomesGood, PressKeepsQuiet
    <3>3. CASE Around
      BY <1>1, <3>3, AroundTyped, AroundKeepsQuiet
    <3>4. QED  BY <1>2, <3>1, <3>2, <3>3 DEF PathNext, Around
  <2>3. QED  BY <2>1, <2>2 DEF CardsInv
<1>3. CASE UNCHANGED pathVars
  BY <1>1, <1>3 DEF pathVars, ownerSide, cardSide, historySide, CardsInv, PathTypes, TriesInv, TryGood, is, QuietInv, Quiet, Undisturbed,
                    CanPay, RefusalsInv, BooksInv, SpendsWhereRead, LoneIntentAccepted, Commitments, Tries, TryRecords
<1>4. QED  BY <1>2, <1>3

\* What the cards show and check stands before the coordinator and the contracts:
\* CardsRight, for any number of presses, windows, crosses and amounts.
THEOREM CardsAlwaysRight == PathInit /\ [][PathNext]_pathVars => []CardsRight
<1>1. CardsInv => CardsRight
  BY BooksRight DEF CardsInv, CardsRight
<1>2. QED  BY CardsStart, CardsKept, <1>1, PTL


----------------------------------------------------------------------------
(* What promises and intents add up to.                                    *)

pledged(S) == SumFunctionOnSet([p \in S |-> p.sell], S)
placed(list, J) == SumFunctionOnSet([j \in J |-> list[j].sell], J)

LEMMA PledgedNat ==
  ASSUME NEW S, IsFiniteSet(S), \A p \in S : p.sell \in Nat
  PROVE  pledged(S) \in Nat
<1>1. \A p \in S : [q \in S |-> q.sell][p] \in Nat
  OBVIOUS
<1>2. QED  BY <1>1, SumNat DEF pledged

LEMMA PledgedPart ==
  ASSUME NEW S, IsFiniteSet(S), NEW T, T \subseteq S, \A p \in S : p.sell \in Nat
  PROVE  /\ pledged(S) = pledged(T) + pledged(S \ T)
         /\ pledged(T) \in Nat /\ pledged(S \ T) \in Nat /\ pledged(S) \in Nat
<1> DEFINE U == S \ T
           f == [p \in S |-> p.sell]
<1>1. IsFiniteSet(T) /\ IsFiniteSet(U) /\ T \cap U = {} /\ T \cup U = S
  BY FS_Subset
<1>2. \A p \in T \cup U : f[p] \in Int
  BY <1>1
<1>3. (\A p \in T : f[p] = [q \in T |-> q.sell][p]) /\ (\A p \in U : f[p] = [q \in U |-> q.sell][p])
  BY <1>1
<1>4. pledged(S) = SumFunctionOnSet(f, S) /\ pledged(T) \in Nat /\ pledged(U) \in Nat
  BY <1>1, PledgedNat DEF pledged
<1> HIDE DEF U, f
<1>5. SumFunctionOnSet(f, T \cup U) = SumFunctionOnSet(f, T) + SumFunctionOnSet(f, U)
  BY <1>1, <1>2, SumUnion
<1>6. SumFunctionOnSet(f, T) = pledged(T) /\ SumFunctionOnSet(f, U) = pledged(U)
  BY <1>1, <1>3, SumSame DEF pledged
<1>7. pledged(S) = pledged(T) + pledged(U)
  BY <1>1, <1>4, <1>5, <1>6
<1>8. pledged(S) \in Nat
  BY <1>4, <1>7
<1>9. QED  BY <1>4, <1>7, <1>8 DEF U

LEMMA PledgedSubset ==
  ASSUME NEW S, IsFiniteSet(S), NEW T, T \subseteq S, \A p \in S : p.sell \in Nat
  PROVE  pledged(T) <= pledged(S) /\ pledged(T) \in Nat /\ pledged(S) \in Nat
<1>1. /\ pledged(S) = pledged(T) + pledged(S \ T)
      /\ pledged(T) \in Nat /\ pledged(S \ T) \in Nat /\ pledged(S) \in Nat
  BY PledgedPart
<1>2. QED  BY <1>1

LEMMA PledgedAdd ==
  ASSUME NEW S, IsFiniteSet(S), NEW x, x \notin S, \A p \in S \cup {x} : p.sell \in Nat
  PROVE  pledged(S \cup {x}) = pledged(S) + x.sell
<1> DEFINE T == S \cup {x}
           f == [p \in T |-> p.sell]
<1>1. (\A p \in T : f[p] \in Int) /\ f[x] = x.sell /\ \A p \in S : f[p] = [q \in S |-> q.sell][p]
  OBVIOUS
<1>2. pledged(T) = SumFunctionOnSet(f, T)
  BY DEF pledged
<1> HIDE DEF f
<1>3. SumFunctionOnSet(f, S \cup {x}) = f[x] + SumFunctionOnSet(f, S)
  BY <1>1, SumAdd
<1>4. SumFunctionOnSet(f, S) = pledged(S)
  BY <1>1, SumSame DEF pledged
<1>5. pledged(S) \in Nat /\ x.sell \in Nat
  BY PledgedNat
<1>6. QED  BY <1>1, <1>2, <1>3, <1>4, <1>5

\* The places of a list add up to what stands at them.
LEMMA PlacedIs ==
  ASSUME NEW list, NEW J, IsFiniteSet(J), NEW m,
         \A j, k \in J : m[j] = m[k] => j = k,
         \A j \in J : m[j].sell = list[j].sell /\ list[j].sell \in Nat
  PROVE  placed(list, J) = pledged({m[j] : j \in J}) /\ placed(list, J) \in Nat
<1> DEFINE S == {m[j] : j \in J}
           f == [j \in J |-> list[j].sell]
           g == [p \in S |-> p.sell]
<1>1. \A j \in J : f[j] \in Int /\ f[j] \in Nat /\ g[m[j]] = f[j]
  OBVIOUS
<1>2. placed(list, J) = SumFunctionOnSet(f, J) /\ pledged(S) = SumFunctionOnSet(g, S)
  BY DEF placed, pledged
<1> HIDE DEF f, g
<1>3. SumFunctionOnSet(g, {m[j] : j \in J}) = SumFunctionOnSet(f, J)
  BY <1>1, SumRename
<1>4. SumFunctionOnSet(f, J) \in Nat
  BY <1>1, SumNat
<1>5. QED  BY <1>2, <1>3, <1>4

----------------------------------------------------------------------------
(* Lists and what Permit2 takes of them.                                   *)

LEMMA ByTry ==
  ASSUME NEW S, \A i, j \in S : i.try = j.try => i = j
  PROVE  /\ DOMAIN byTry(S) = {i.try : i \in S}
         /\ \A i \in S : i.try \in DOMAIN byTry(S) /\ byTry(S)[i.try] = i
         /\ \A t \in DOMAIN byTry(S) : byTry(S)[t] \in S /\ byTry(S)[t].try = t
<1>1. DOMAIN byTry(S) = {i.try : i \in S}
  BY DEF byTry
<1>2. ASSUME NEW t \in DOMAIN byTry(S) PROVE byTry(S)[t] \in S /\ byTry(S)[t].try = t
  <2>1. byTry(S)[t] = CHOOSE i \in S : i.try = t
    BY <1>1 DEF byTry
  <2>2. \E i \in S : i.try = t
    BY <1>1
  <2>3. QED  BY <2>1, <2>2
<1>3. ASSUME NEW i \in S PROVE i.try \in DOMAIN byTry(S) /\ byTry(S)[i.try] = i
  BY <1>1, <1>2
<1>4. QED  BY <1>1, <1>2, <1>3

\* J tells which of the places up to n are taken.
Taking(list, n, J) ==
  /\ J \subseteq DOMAIN list /\ \A j \in J : j <= n
  /\ \A k \in DOMAIN list : k <= n => (k \in J <=> takable(list, k, {j \in J : j < k}))

LEMMA TakingNext ==
  ASSUME NEW list, DOMAIN list \subseteq Nat, NEW n \in Nat, NEW J, Taking(list, n, J)
  PROVE  \E K : Taking(list, n + 1, K)
<1> DEFINE K == IF n + 1 \in DOMAIN list /\ takable(list, n + 1, J) THEN J \cup {n + 1} ELSE J
<1>1. J \subseteq DOMAIN list /\ J \subseteq Nat /\ \A j \in J : j <= n
  BY DEF Taking
<1>2. K \subseteq DOMAIN list /\ \A j \in K : j <= n + 1
  <2>1. \A j \in J : j <= n + 1
    BY <1>1
  <2>2. QED  BY <1>1, <2>1
<1>3. ASSUME NEW k \in DOMAIN list, k <= n + 1 PROVE k \in K <=> takable(list, k, {j \in K : j < k})
  <2>1. k \in Nat
    OBVIOUS
  <2>2. CASE k <= n
    <3>1. {j \in K : j < k} = {j \in J : j < k}
      BY <1>1, <2>1, <2>2
    <3>2. k \in K <=> k \in J
      BY <2>1, <2>2
    <3>3. QED  BY <2>2, <3>1, <3>2 DEF Taking
  <2>3. CASE k = n + 1
    <3>1. {j \in K : j < k} = J
      BY <1>1, <2>3
    <3>2. n + 1 \notin J
      BY <1>1
    <3>3. QED  BY <2>3, <3>1, <3>2
  <2>4. QED  BY <1>3, <2>1, <2>2, <2>3
<1>4. QED  BY <1>2, <1>3 DEF Taking

LEMMA TakesIs ==
  ASSUME NEW list, NEW n \in Nat, DOMAIN list \subseteq 1..n
  PROVE  /\ takes(list) \subseteq DOMAIN list
         /\ \A k \in DOMAIN list : k \in takes(list) <=> takable(list, k, {j \in takes(list) : j < k})
<1>1. DOMAIN list \subseteq Nat
  OBVIOUS
<1>2. \E J : Taking(list, n, J)
  <2> DEFINE Bad == {m \in 0..n : ~ \E J : Taking(list, m, J)}
  <2> SUFFICES ASSUME Bad # {} PROVE FALSE
    BY DEF Bad
  <2>1. IsFiniteSet(0..n)
    BY 0 \in Int, n \in Int, FS_Interval
  <2>2. IsFiniteSet(Bad) /\ Bad \subseteq Nat
    BY <2>1, FS_Subset
  <2>3. PICK m \in Bad : \A l \in Bad : m <= l
    <3> HIDE DEF Bad
    <3>1. QED  BY <2>2, MinOf
  <2>4. m \in 0..n /\ ~ \E J : Taking(list, m, J)
    OBVIOUS
  <2>5. m # 0
    <3>1. Taking(list, 0, {})
      BY DEF Taking
    <3>2. QED  BY <2>4, <3>1
  <2>6. m - 1 \in 0..n /\ m - 1 \in Nat /\ m - 1 \notin Bad /\ (m - 1) + 1 = m
    <3>1. m - 1 \in 0..n /\ m - 1 \in Nat /\ ~(m <= m - 1) /\ (m - 1) + 1 = m
      BY <2>4, <2>5
    <3>2. QED  BY <2>3, <3>1
  <2>7. PICK J : Taking(list, m - 1, J)
    BY <2>6
  <2>8. \E K : Taking(list, (m - 1) + 1, K)
    BY <1>1, <2>6, <2>7, TakingNext
  <2>9. QED  BY <2>4, <2>6, <2>8
<1>3. PICK J : Taking(list, n, J)
  BY <1>2
<1>4. J \in SUBSET DOMAIN list /\ \A k \in DOMAIN list : k \in J <=> takable(list, k, {j \in J : j < k})
  BY <1>3 DEF Taking
<1>5. QED  BY <1>4 DEF takes

----------------------------------------------------------------------------
(* The owner's promises.                                                   *)

AuctionPromised == \E q \in promises : q.desk = "auction"
NonceAtAuction(n) == \E q \in promises : q.desk = "auction" /\ q.nonce = n

\* What a desk keeps of a promise: the intent that was signed.
Backs(p, desk, i) == p.desk = desk /\ p.try = i.try /\ p.nonce = i.nonce /\ p.sell = i.sell

\* A promise so late that its intent may expire before finalize.
Late(p) == p.waited > ValidFor - LongestWindow - PathSolutionWindow - PathDeadline

\* A try promises once, to the desk its button is for.
PromisesInv ==
  /\ IsFiniteSet(promises)
  /\ \A p \in promises :
       /\ p.try \in Tries /\ tries[p.try].step \in {"replying", "done"}
       /\ p.desk = IF is(p.try, "sign") THEN "batch" ELSE "auction"
       /\ p.sell \in 1..PathBalance /\ p.waited \in Int
  /\ \A p, q \in promises : p.try = q.try => p = q

\* What the coordinator admitted is promised and outlives its window; of two
\* intents with one nonce, one has expired.
MempoolInv ==
  /\ IsFiniteSet(mempool)
  /\ \A i \in mempool :
       /\ i.batch \in PathWindows /\ i.validUntil \in Int /\ pathSolveEnd(i.batch) < i.validUntil
       /\ i.form \in {"65", "64"}
       /\ \E p \in promises : Backs(p, "batch", i) /\ i.batch + ValidFor <= i.validUntil + LongestWindow + p.waited
  /\ \A i, j \in mempool : i.try = j.try => i = j
  /\ \A i, j \in mempool : i.nonce = j.nonce /\ i # j => pathTime > i.validUntil \/ pathTime > j.validUntil

WinnersInv ==
  /\ winners \in [PathWindows -> SUBSET mempool]
  /\ \A b \in PathWindows : \A i \in winners[b] : i.batch = b

CollectedInv == \A b \in PathWindows : <<"batch", b>> \in collected => pathSolveEnd(b) < pathTime

\* What is in a book is promised, once, and valid at the cross.
BookedInv ==
  /\ \A x \in PathCrosses : \A k \in DOMAIN books[x] :
       /\ books[x][k].validUntil >= x /\ books[x][k].form = "65"
       /\ \E p \in promises : Backs(p, "auction", books[x][k])
  /\ \A x, y \in PathCrosses : \A k \in DOMAIN books[x], l \in DOMAIN books[y] :
       books[x][k].try = books[y][l].try => x = y /\ k = l

\* A promise waits in a book that is still open.
Waits(q) == \E x \in PathCrosses : <<"auction", x>> \notin collected /\ \E k \in DOMAIN books[x] : books[x][k].try = q.try

\* A spent nonce is that of a promise that no longer waits in a book; of an
\* admitted intent it is spent for itself, for an auction or when it has expired.
SpentInv ==
  /\ \A n \in usedNonces : \E q \in promises : q.nonce = n /\ ~Waits(q)
  /\ \A i \in mempool :
       i.nonce \in usedNonces =>
         NonceAtAuction(i.nonce) \/ pathTime > i.validUntil \/ <<"batch", i.batch>> \in collected

spentPromises == {p \in promises : p.nonce \in usedNonces}

\* Intents that may still be collected, as promised counts them.
liveIntents == {i \in mempool : i.nonce \notin usedNonces /\ (pathTime <= pathSolveEnd(i.batch) \/ winners[i.batch] # {})}

\* What is gone was promised; without an auction the coordinator sees every promise.
FundsInv ==
  /\ held \in 0..PathBalance /\ PathBalance <= held + pledged(spentPromises)
  /\ AuctionPromised \/ pledged(liveIntents) <= held
  /\ approved \in {0, Unlimited} /\ (promises # {} => approved = Unlimited)
  /\ ownerCode = "none"

FailedInv == \A p \in failed : p \in promises /\ (SharedWithAuction(p) \/ Late(p))

KeptInv ==
  PromisesInv /\ MempoolInv /\ WinnersInv /\ CollectedInv /\ BookedInv /\ SpentInv /\ FundsInv /\ FailedInv

\* What a list is made of: intents that are promised, each by a try of its own.
Listed(list, desk) ==
  /\ \A k \in DOMAIN list : list[k].form \in {"65", "64"} /\ \E p \in promises : Backs(p, desk, list[k])
  /\ \A j, k \in DOMAIN list : list[j].try = list[k].try => j = k

LEMMA LeastOf ==
  ASSUME NEW a \in Int, NEW b \in Int, a <= b
  PROVE  Min({a, b}) = a
<1>1. \E m \in {a, b} : \A e \in {a, b} : m <= e
  OBVIOUS
<1>2. Min({a, b}) \in {a, b} /\ \A e \in {a, b} : Min({a, b}) <= e
  BY <1>1 DEF Min
<1>3. QED  BY <1>2

LEMMA FundsLeft ==
  ASSUME FundsInv, promises # {}
  PROVE  Min({held, approved}) = held /\ held \in Nat /\ approved >= held
<1>1. held \in Nat /\ held <= PathBalance /\ approved = PathBalance + 1 /\ PathBalance \in Nat
  BY PathFacts DEF FundsInv, Unlimited
<1>2. QED  BY <1>1, LeastOf

LEMMA PromiseSells ==
  ASSUME PromisesInv
  PROVE  \A p \in promises : p.sell \in Nat /\ p.sell > 0
<1>1. PathBalance \in Nat
  BY PathFacts
<1>2. QED  BY <1>1 DEF PromisesInv

\* Intents of a list whose nonces are free are promises that are not spent.
LEMMA PlacedUnspent ==
  ASSUME PromisesInv, NEW list, NEW desk, Listed(list, desk),
         NEW J, J \subseteq DOMAIN list, IsFiniteSet(J), \A j \in J : list[j].nonce \notin usedNonces
  PROVE  /\ placed(list, J) <= pledged(promises \ spentPromises) /\ placed(list, J) \in Nat
         /\ \E T : /\ T \subseteq promises \ spentPromises /\ placed(list, J) = pledged(T)
                   /\ \A p \in T : \E j \in J : p.nonce = list[j].nonce
<1> DEFINE m == [j \in J |-> CHOOSE p \in promises : Backs(p, desk, list[j])]
           T == {m[j] : j \in J}
           U == promises \ spentPromises
<1>1. ASSUME NEW j \in J PROVE m[j] \in promises /\ Backs(m[j], desk, list[j])
  BY DEF Listed
<1> HIDE DEF m
<1>2. \A j \in J : m[j] \in U /\ m[j].try = list[j].try /\ m[j].sell = list[j].sell /\ m[j].nonce = list[j].nonce
  BY <1>1 DEF Backs, spentPromises
<1>3. \A j, k \in J : m[j] = m[k] => j = k
  BY <1>2 DEF Listed
<1>4. \A j \in J : m[j].sell = list[j].sell /\ list[j].sell \in Nat
  BY <1>1, <1>2, PromiseSells
<1>5. placed(list, J) = pledged(T) /\ placed(list, J) \in Nat
  BY <1>3, <1>4, PlacedIs
<1>6. T \subseteq U /\ \A p \in T : \E j \in J : p.nonce = list[j].nonce
  BY <1>2
<1>7. IsFiniteSet(U) /\ \A p \in U : p.sell \in Nat
  BY FS_Subset, PromiseSells DEF PromisesInv
<1> HIDE DEF T, U
<1>8. pledged(T) <= pledged(U)
  BY <1>6, <1>7, PledgedSubset
<1>9. QED  BY <1>5, <1>6, <1>8 DEF U

\* Unless the owner promised more than there is, what is not spent is there.
LEMMA UnspentCovered ==
  ASSUME PromisesInv, FundsInv, AuctionPromised, ~Overcommitted
  PROVE  pledged(promises \ spentPromises) <= held
<1>1. IsFiniteSet(promises) /\ spentPromises \subseteq promises /\ \A p \in promises : p.sell \in Nat
  BY PromiseSells DEF PromisesInv, spentPromises
<1>2. /\ pledged(promises) = pledged(spentPromises) + pledged(promises \ spentPromises)
      /\ pledged(spentPromises) \in Nat /\ pledged(promises \ spentPromises) \in Nat /\ pledged(promises) \in Nat
  BY <1>1, PledgedPart
<1>3. PathBalance \in Nat /\ held \in Nat /\ PathBalance <= held + pledged(spentPromises)
  BY PathFacts DEF FundsInv
<1>4. ~(pledged(promises) > PathBalance)
  BY DEF AuctionPromised, Overcommitted, pledged
<1>5. QED  BY <1>2, <1>3, <1>4

LEMMA IntentSells ==
  ASSUME PromisesInv, MempoolInv
  PROVE  \A i \in mempool : i.sell \in Nat /\ i.sell > 0
BY PromiseSells DEF MempoolInv, Backs

\* Live intents of a list are what the coordinator counts, apart from the rest.
LEMMA PlacedLive ==
  ASSUME PromisesInv, MempoolInv, NEW list, NEW J, J \subseteq DOMAIN list, IsFiniteSet(J),
         \A j, k \in DOMAIN list : list[j].try = list[k].try => j = k,
         \A j \in J : list[j] \in liveIntents
  PROVE  \E T : /\ T \subseteq liveIntents /\ placed(list, J) = pledged(T) /\ T = {list[j] : j \in J}
               /\ pledged(liveIntents) = pledged(T) + pledged(liveIntents \ T)
               /\ pledged(T) \in Nat /\ pledged(liveIntents \ T) \in Nat /\ pledged(liveIntents) \in Nat
<1> DEFINE m == [j \in J |-> list[j]]
           T == {m[j] : j \in J}
<1>1. \A j \in J : m[j] = list[j] /\ m[j] \in liveIntents
  OBVIOUS
<1>2. IsFiniteSet(liveIntents) /\ \A i \in liveIntents : i.sell \in Nat
  BY IntentSells, FS_Subset DEF liveIntents, MempoolInv
<1>3. (\A j, k \in J : m[j] = m[k] => j = k) /\ \A j \in J : m[j].sell = list[j].sell /\ list[j].sell \in Nat
  BY <1>1, <1>2
<1>4. T \subseteq liveIntents /\ T = {list[j] : j \in J}
  BY <1>1
<1> HIDE DEF m
<1>5. placed(list, J) = pledged(T)
  BY <1>3, PlacedIs
<1> HIDE DEF T
<1>6. /\ pledged(liveIntents) = pledged(T) + pledged(liveIntents \ T)
      /\ pledged(T) \in Nat /\ pledged(liveIntents \ T) \in Nat /\ pledged(liveIntents) \in Nat
  BY <1>2, <1>4, PledgedPart
<1>7. QED  BY <1>4, <1>5, <1>6

LEMMA PlacedAdd ==
  ASSUME NEW list, NEW J, IsFiniteSet(J), NEW k, k \notin J, \A j \in J \cup {k} : list[j].sell \in Nat
  PROVE  placed(list, J \cup {k}) = placed(list, J) + list[k].sell /\ placed(list, J) \in Nat
<1> DEFINE K == J \cup {k}
           f == [j \in K |-> list[j].sell]
           g == [j \in J |-> list[j].sell]
<1>1. (\A j \in J \cup {k} : f[j] \in Int) /\ f[k] = list[k].sell /\ \A j \in J : f[j] = g[j] /\ g[j] \in Nat
  OBVIOUS
<1>2. placed(list, K) = SumFunctionOnSet(f, K) /\ placed(list, J) = SumFunctionOnSet(g, J)
  BY DEF placed
<1> HIDE DEF f, g
<1>3. SumFunctionOnSet(f, J \cup {k}) = f[k] + SumFunctionOnSet(f, J)
  BY <1>1, SumAdd
<1>4. SumFunctionOnSet(f, J) = SumFunctionOnSet(g, J) /\ SumFunctionOnSet(g, J) \in Nat
  BY <1>1, SumSame, SumNat
<1>5. QED  BY <1>1, <1>2, <1>3, <1>4

LEMMA ListSells ==
  ASSUME PromisesInv, NEW list, NEW desk, Listed(list, desk), NEW n \in Nat, DOMAIN list \subseteq 1..n
  PROVE  /\ \A k \in DOMAIN list : list[k].sell \in Nat
         /\ \A J \in SUBSET DOMAIN list : IsFiniteSet(J)
         /\ DOMAIN list # {} => promises # {}
<1>1. IsFiniteSet(1..n)
  BY 1 \in Int, n \in Int, FS_Interval
<1>2. \A J \in SUBSET DOMAIN list : IsFiniteSet(J)
  BY <1>1, FS_Subset
<1>3. QED  BY <1>2, PromiseSells DEF Listed, Backs

\* What is taken of a list is there.
LEMMA TakenFits ==
  ASSUME PromisesInv, FundsInv, NEW list, NEW desk, Listed(list, desk), NEW n \in Nat, DOMAIN list \subseteq 1..n
  PROVE  /\ takes(list) \subseteq DOMAIN list /\ IsFiniteSet(takes(list))
         /\ placed(list, takes(list)) <= held /\ placed(list, takes(list)) \in Nat
         /\ \A k \in takes(list) : list[k].nonce \notin usedNonces /\ pathTime <= list[k].validUntil
<1> DEFINE J == takes(list)
<1>1. J \subseteq DOMAIN list /\ \A k \in DOMAIN list : k \in J <=> takable(list, k, {l \in J : l < k})
  BY TakesIs
<1>2. IsFiniteSet(J) /\ (\A k \in J : k \in Nat) /\ \A k \in DOMAIN list : list[k].sell \in Nat
  BY <1>1, ListSells
<1>3. \A k \in J : list[k].nonce \notin usedNonces /\ pathTime <= list[k].validUntil
  BY <1>1 DEF takable
<1>4. CASE J = {}
  <2>1. placed(list, {}) = 0
    BY SumEmpty DEF placed
  <2>2. held >= 0
    BY PathFacts DEF FundsInv
  <2>3. QED  BY <1>1, <1>2, <1>3, <1>4, <2>1, <2>2
<1>5. CASE J # {}
  <2> HIDE DEF J
  <2>1. PICK k \in J : \A j \in J : j <= k
    BY <1>2, <1>5, LastPosition
  <2> DEFINE before == {l \in J : l < k}
  <2>2. takable(list, k, before) /\ promises # {}
    BY <1>1, <2>1, ListSells
  <2>3. placed(list, before) + list[k].sell <= held
    BY <2>2, FundsLeft DEF takable, placed
  <2>4. J = before \cup {k} /\ k \notin before /\ IsFiniteSet(before) /\ (\A j \in before \cup {k} : list[j].sell \in Nat)
    BY <1>1, <1>2, <2>1, FS_Subset
  <2> HIDE DEF before
  <2>5. placed(list, before \cup {k}) = placed(list, before) + list[k].sell /\ placed(list, before) \in Nat
    BY <2>4, PlacedAdd
  <2>6. placed(list, J) <= held /\ placed(list, J) \in Nat
    BY <1>1, <1>2, <2>1, <2>3, <2>4, <2>5
  <2>7. QED  BY <1>1, <1>2, <1>3, <2>6 DEF J
<1>6. QED  BY <1>4, <1>5

\* What can be asked for in vain: the list's place k is late, its nonce is gone, or
\* the funds do not reach.
LEMMA MissedFor ==
  ASSUME PromisesInv, FundsInv, NEW list, NEW desk, Listed(list, desk), NEW n \in Nat, DOMAIN list \subseteq 1..n,
         NEW k \in DOMAIN list, k \notin takes(list), pathTime \in Nat, list[k].validUntil \in Int
  PROVE  \/ pathTime > list[k].validUntil
         \/ list[k].nonce \in usedNonces
         \/ \E j \in takes(list) : j < k /\ list[j].nonce = list[k].nonce
         \/ \E J : /\ J \subseteq takes(list) \cup {k} /\ J \subseteq DOMAIN list /\ IsFiniteSet(J) /\ placed(list, J) > held
                   /\ \A j \in J : list[j].nonce \notin usedNonces
<1> DEFINE before == {j \in takes(list) : j < k}
           both   == before \cup {k}
<1>1. takes(list) \subseteq DOMAIN list /\ \A j \in DOMAIN list : j \in takes(list) <=> takable(list, j, {l \in takes(list) : l < j})
  BY TakesIs
<1>2. ~takable(list, k, before)
  BY <1>1
<1>3. \A j \in before : list[j].nonce \notin usedNonces
  BY <1>1 DEF takable
<1>4. promises # {} /\ list[k].form \in {"65", "64"} /\ ownerCode = "none"
  BY DEF Listed, FundsInv
<1>5. permit2Takes(list[k].form) /\ Min({held, approved}) = held
  BY <1>4, FundsLeft DEF permit2Takes
<1>6. SUFFICES ASSUME ~(pathTime > list[k].validUntil), list[k].nonce \notin usedNonces,
                      ~ \E j \in takes(list) : j < k /\ list[j].nonce = list[k].nonce
               PROVE  placed(list, both) > held /\ IsFiniteSet(both)
  BY <1>1, <1>3
<1>7. ~(placed(list, before) + list[k].sell <= held)
  BY <1>2, <1>5, <1>6 DEF takable, placed
<1>8. IsFiniteSet(before) /\ IsFiniteSet(both) /\ k \notin before /\ \A j \in before \cup {k} : list[j].sell \in Nat
  <2>1. before \subseteq DOMAIN list /\ both \subseteq DOMAIN list /\ ~(k < k)
    BY <1>1
  <2>2. QED  BY <2>1, ListSells
<1>9. placed(list, before \cup {k}) = placed(list, before) + list[k].sell /\ placed(list, before) \in Nat
  BY <1>8, PlacedAdd
<1>10. held \in Nat /\ list[k].sell \in Nat
  BY <1>4, <1>8, FundsLeft
<1>11. QED  BY <1>7, <1>8, <1>9, <1>10

LEMMA TriesRange == ASSUME PathTypes PROVE \E n \in Nat : Tries = 1..n
<1>1. pathCase.presses \in Seq({"sign", "approve", "commit"})
  BY PathFacts DEF PathTypes
<1>2. DOMAIN pathCase.presses = 1..Len(pathCase.presses) /\ Len(pathCase.presses) \in Nat
  BY <1>1
<1>3. QED  BY <1>2 DEF Tries

LEMMA KeptIs ==
  ASSUME PromisesInv, NEW p \in promises
  PROVE  Kept(p.desk, p.try) = p
BY DEF PromisesInv, Kept

\* Admitted intents as a list.
LEMMA ListOfBatch ==
  ASSUME PathTypes, PromisesInv, MempoolInv, NEW S, S \subseteq mempool
  PROVE  /\ Listed(byTry(S), "batch")
         /\ \E n \in Nat : DOMAIN byTry(S) \subseteq 1..n
         /\ \A i \in S : i.try \in DOMAIN byTry(S) /\ byTry(S)[i.try] = i
         /\ \A t \in DOMAIN byTry(S) : byTry(S)[t] \in S /\ byTry(S)[t].try = t
<1>1. /\ DOMAIN byTry(S) = {i.try : i \in S}
      /\ \A i \in S : i.try \in DOMAIN byTry(S) /\ byTry(S)[i.try] = i
      /\ \A t \in DOMAIN byTry(S) : byTry(S)[t] \in S /\ byTry(S)[t].try = t
  <2>1. \A i, j \in S : i.try = j.try => i = j
    BY DEF MempoolInv
  <2>2. QED  BY <2>1, ByTry
<1>2. \A i \in S : i.try \in Tries /\ i.form \in {"65", "64"} /\ \E p \in promises : Backs(p, "batch", i)
  BY DEF MempoolInv, PromisesInv, Backs
<1>3. PICK n \in Nat : Tries = 1..n
  BY TriesRange
<1>4. DOMAIN byTry(S) \subseteq 1..n
  BY <1>1, <1>2, <1>3
<1>5. Listed(byTry(S), "batch")
  BY <1>1, <1>2 DEF Listed
<1>6. QED  BY <1>1, <1>4, <1>5

\* The funds reach for intents that are live, unless too much was promised with an auction.
LEMMA LiveCovered ==
  ASSUME PromisesInv, MempoolInv, FundsInv, NEW list, NEW desk, Listed(list, desk), NEW J, J \subseteq DOMAIN list, IsFiniteSet(J),
         \A j \in J : list[j].nonce \notin usedNonces, AuctionPromised \/ \A j \in J : list[j] \in liveIntents,
         placed(list, J) > held
  PROVE  Overcommitted
<1> SUFFICES ASSUME ~Overcommitted PROVE FALSE
  OBVIOUS
<1>1. IsFiniteSet(promises) /\ \A p \in promises \ spentPromises : p.sell \in Nat
  BY PromiseSells DEF PromisesInv
<1>2. held \in Nat /\ PathBalance \in Nat /\ pledged(promises \ spentPromises) \in Nat
  BY <1>1, PathFacts, PledgedNat, FS_Subset DEF FundsInv
<1>3. placed(list, J) <= pledged(promises \ spentPromises) /\ placed(list, J) \in Nat
  BY PlacedUnspent
<1>4. CASE AuctionPromised
  BY <1>2, <1>3, <1>4, UnspentCovered
<1>5. CASE ~AuctionPromised
  <2>1. \A j, k \in DOMAIN list : list[j].try = list[k].try => j = k
    BY DEF Listed
  <2>2. PICK T : /\ placed(list, J) = pledged(T)
                 /\ pledged(liveIntents) = pledged(T) + pledged(liveIntents \ T)
                 /\ pledged(T) \in Nat /\ pledged(liveIntents \ T) \in Nat /\ pledged(liveIntents) \in Nat
    BY <1>5, <2>1, PlacedLive
  <2>3. pledged(liveIntents) <= held
    BY <1>5 DEF FundsInv
  <2>4. QED  BY <1>2, <2>2, <2>3
<1>6. QED  BY <1>4, <1>5

\* An intent of a batch that is not taken expired, or an auction is in the way.
LEMMA MissedOfBatch ==
  ASSUME PathTypes, PromisesInv, MempoolInv, SpentInv, FundsInv, NEW b \in PathWindows,
         NEW S, S \subseteq mempool, \A i \in S : i.batch = b, pathTime <= pathSolveEnd(b) \/ winners[b] # {},
         <<"batch", b>> \notin collected, NEW i \in S, i.try \notin takes(byTry(S))
  PROVE  /\ Kept("batch", i.try) \in promises /\ Backs(Kept("batch", i.try), "batch", i)
         /\ SharedWithAuction(Kept("batch", i.try)) \/ pathTime > i.validUntil
<1> DEFINE list == byTry(S)
           k == i.try
<1>1. Listed(list, "batch")
  BY ListOfBatch
<1>2. PICK n \in Nat : DOMAIN list \subseteq 1..n
  BY ListOfBatch
<1>3. k \in DOMAIN list /\ list[k] = i /\ \A t \in DOMAIN list : list[t] \in S /\ list[t].try = t
  BY ListOfBatch
<1>4. PICK p \in promises : Backs(p, "batch", i)
  BY DEF MempoolInv
<1>5. p = Kept("batch", k)
  BY <1>4, KeptIs DEF Backs
<1>6. pathTime \in Nat /\ i.validUntil \in Int
  BY TimeTyped DEF MempoolInv
<1> HIDE DEF list
<1>7. takes(list) \subseteq DOMAIN list /\ \A j \in takes(list) : list[j].nonce \notin usedNonces /\ pathTime <= list[j].validUntil
  BY <1>1, <1>2, TakenFits
<1>8. \/ pathTime > i.validUntil
      \/ i.nonce \in usedNonces
      \/ \E j \in takes(list) : j < k /\ list[j].nonce = i.nonce
      \/ \E J : /\ J \subseteq takes(list) \cup {k} /\ J \subseteq DOMAIN list /\ IsFiniteSet(J) /\ placed(list, J) > held
                /\ \A j \in J : list[j].nonce \notin usedNonces
  <2>1. k \notin takes(list)
    BY DEF list
  <2>2. QED  BY <1>1, <1>2, <1>3, <1>6, <2>1, MissedFor
<1>9. CASE i.nonce \in usedNonces
  <2>1. NonceAtAuction(i.nonce) \/ pathTime > i.validUntil
    BY <1>9 DEF SpentInv
  <2>2. NonceAtAuction(i.nonce) => SharedWithAuction(p)
    BY <1>4 DEF NonceAtAuction, SharedWithAuction, Backs
  <2>3. QED  BY <1>4, <1>5, <2>1, <2>2
<1>10. CASE \E j \in takes(list) : j < k /\ list[j].nonce = i.nonce
  <2>1. PICK j \in takes(list) : j < k /\ list[j].nonce = i.nonce
    BY <1>10
  <2>2. list[j] \in mempool /\ list[j].try = j /\ pathTime <= list[j].validUntil
    BY <1>3, <1>7, <2>1
  <2>3. list[j] # i
    <3>1. k \in Nat
      BY <1>2, <1>3
    <3>2. QED  BY <2>1, <2>2, <3>1
  <2>4. list[j].validUntil \in Int
    BY <2>2 DEF MempoolInv
  <2>5. pathTime > list[j].validUntil \/ pathTime > i.validUntil
    BY <2>1, <2>2, <2>3 DEF MempoolInv
  <2>6. QED  BY <1>4, <1>5, <1>6, <2>2, <2>4, <2>5
<1>11. CASE \E J : /\ J \subseteq takes(list) \cup {k} /\ J \subseteq DOMAIN list /\ IsFiniteSet(J) /\ placed(list, J) > held
                  /\ \A j \in J : list[j].nonce \notin usedNonces
  <2>1. PICK J : /\ J \subseteq DOMAIN list /\ IsFiniteSet(J) /\ placed(list, J) > held
                 /\ \A j \in J : list[j].nonce \notin usedNonces
    BY <1>11
  <2>2. \A j \in J : list[j] \in liveIntents
    BY <1>3, <2>1 DEF liveIntents
  <2>3. Overcommitted
    BY <1>1, <2>1, <2>2, LiveCovered
  <2>4. QED  BY <1>4, <1>5, <2>3 DEF SharedWithAuction
<1>12. QED  BY <1>4, <1>5, <1>8, <1>9, <1>10, <1>11

\* What freeze cannot take of a book shares its nonce or its funds.
LEMMA MissedOfBook ==
  ASSUME PathTypes, PromisesInv, MempoolInv, BookedInv, SpentInv, FundsInv, BooksInv, NEW x \in PathCrosses,
         <<"auction", x>> \notin collected, pathTime < x, NEW k \in DOMAIN books[x], k \notin takes(books[x])
  PROVE  Kept("auction", books[x][k].try) \in promises /\ SharedWithAuction(Kept("auction", books[x][k].try))
<1> DEFINE list == books[x]
<1>1. list \in Seq(Commitments) /\ list[k] \in Commitments
  BY DEF BooksInv
<1>2. DOMAIN list = 1..Len(list) /\ Len(list) \in Nat /\ \A j \in DOMAIN list : list[j] \in Commitments
  BY <1>1
<1>3. Listed(list, "auction")
  BY DEF Listed, BookedInv
<1>4. pathTime \in Nat /\ x \in Nat /\ list[k].validUntil \in Int /\ list[k].validUntil >= x
  BY <1>1, TimeTyped, PathFacts DEF Commitments, BookedInv
<1>5. ~(pathTime > list[k].validUntil)
  BY <1>4
<1>6. PICK p \in promises : Backs(p, "auction", list[k])
  BY DEF BookedInv
<1>7. p = Kept("auction", list[k].try) /\ p.desk = "auction" /\ AuctionPromised
  BY <1>6, KeptIs DEF Backs, AuctionPromised
<1> HIDE DEF list
<1>8. takes(list) \subseteq DOMAIN list
  BY <1>2, TakesIs
<1>9. \/ list[k].nonce \in usedNonces
      \/ \E j \in takes(list) : j < k /\ list[j].nonce = list[k].nonce
      \/ \E J : /\ J \subseteq takes(list) \cup {k} /\ J \subseteq DOMAIN list /\ IsFiniteSet(J) /\ placed(list, J) > held
                /\ \A j \in J : list[j].nonce \notin usedNonces
  <2>1. k \in DOMAIN list /\ k \notin takes(list) /\ DOMAIN list \subseteq 1..Len(list)
    BY <1>2 DEF list
  <2>2. QED  BY <1>2, <1>3, <1>4, <1>5, <2>1, MissedFor
<1>10. CASE list[k].nonce \in usedNonces
  <2>1. PICK q \in promises : q.nonce = list[k].nonce /\ ~Waits(q)
    BY <1>10 DEF SpentInv
  <2>2. q # p
    BY <1>6, <2>1 DEF Waits, Backs, list
  <2>3. QED  BY <1>6, <1>7, <2>1, <2>2 DEF SharedWithAuction, Backs, list
<1>11. CASE \E j \in takes(list) : j < k /\ list[j].nonce = list[k].nonce
  <2>1. PICK j \in takes(list) : j < k /\ list[j].nonce = list[k].nonce
    BY <1>11
  <2>2. j \in DOMAIN list /\ j # k
    BY <1>2, <1>8, <2>1
  <2>3. PICK q \in promises : Backs(q, "auction", list[j])
    BY <1>3, <2>2 DEF Listed
  <2>4. q # p
    BY <1>3, <1>6, <2>2, <2>3 DEF Listed, Backs, list
  <2>5. QED  BY <1>6, <1>7, <2>1, <2>3, <2>4 DEF SharedWithAuction, Backs, list
<1>12. CASE \E J : /\ J \subseteq takes(list) \cup {k} /\ J \subseteq DOMAIN list /\ IsFiniteSet(J) /\ placed(list, J) > held
                  /\ \A j \in J : list[j].nonce \notin usedNonces
  <2>1. Overcommitted
    BY <1>3, <1>7, <1>12, LiveCovered
  <2>2. QED  BY <1>6, <1>7, <2>1 DEF SharedWithAuction, list
<1>13. QED  BY <1>9, <1>10, <1>11, <1>12

----------------------------------------------------------------------------
(* Steps.                                                                  *)

LEMMA SharedGrows ==
  ASSUME PromisesInv, promises \subseteq promises', PromisesInv', PathTypes, pathCase' = pathCase, NEW p, SharedWithAuction(p)
  PROVE  SharedWithAuction(p)'
<1>1. CASE \E q \in promises \ {p} : "auction" \in {p.desk, q.desk} /\ p.nonce = q.nonce
  BY <1>1 DEF SharedWithAuction
<1>2. CASE Overcommitted
  <2>1. (\E q \in promises : q.desk = "auction") /\ pledged(promises) > PathBalance
    BY <1>2 DEF Overcommitted, pledged
  <2>2. PathBalance \in Nat
    BY PathFacts
  <2>3. IsFiniteSet(promises') /\ \A q \in promises' : q.sell \in Nat
    BY <2>2 DEF PromisesInv
  <2>4. pledged(promises) <= pledged(promises') /\ pledged(promises) \in Nat /\ pledged(promises') \in Nat
    BY <2>3, PledgedSubset
  <2>5. pledged(promises') > PathBalance
    BY <2>1, <2>2, <2>4
  <2>6. QED  BY <2>1, <2>5 DEF SharedWithAuction, Overcommitted, pledged
<1>3. QED  BY <1>1, <1>2 DEF SharedWithAuction

LEMMA SpentGrows ==
  ASSUME PromisesInv, promises \subseteq promises', usedNonces \subseteq usedNonces', PromisesInv'
  PROVE  pledged(spentPromises) <= pledged(spentPromises') /\ pledged(spentPromises) \in Nat /\ pledged(spentPromises') \in Nat
<1>1. PathBalance \in Nat
  BY PathFacts
<1>2. IsFiniteSet(spentPromises') /\ (\A q \in spentPromises' : q.sell \in Nat) /\ spentPromises \subseteq spentPromises'
  BY <1>1, FS_Subset DEF PromisesInv, spentPromises
<1>3. QED  BY <1>2, PledgedSubset

LEMMA PromisesSame ==
  ASSUME PathTypes, PromisesInv, TriesStay, pathCase' = pathCase, promises' = promises
  PROVE  PromisesInv'
BY DEF PromisesInv, TriesStay, is

LEMMA FailedSame ==
  ASSUME PathTypes, PromisesInv, FailedInv, PromisesInv', promises \subseteq promises', pathCase' = pathCase, failed' = failed
  PROVE  FailedInv'
<1>1. ASSUME NEW p \in failed PROVE p \in promises' /\ (SharedWithAuction(p)' \/ Late(p))
  <2>1. p \in promises /\ (SharedWithAuction(p) \/ Late(p))
    BY DEF FailedInv
  <2>2. QED  BY <2>1, SharedGrows
<1>2. QED  BY <1>1 DEF FailedInv, Late

moneyVars == <<held, usedNonces, ownerCode, winners, books, collected, mempool, promises, failed>>

\* Time passes, and tries go on; Permit2 may be approved.
LEMMA SteadyKeeps ==
  ASSUME PathTypes, KeptInv, TriesStay, pathCase' = pathCase, pathTime' \in Nat, pathTime' >= pathTime, UNCHANGED moneyVars,
         approved' \in {approved, Unlimited}
  PROVE  KeptInv'
<1>1. /\ UNCHANGED <<held, usedNonces, ownerCode, winners, books, collected, mempool, promises, failed>>
      /\ pathTime \in Nat
  BY TimeTyped DEF moneyVars
<1>2. PromisesInv'
  BY <1>1, PromisesSame DEF KeptInv
<1>3. MempoolInv'
  <2>1. \A i, j \in mempool : i.nonce = j.nonce /\ i # j => pathTime' > i.validUntil \/ pathTime' > j.validUntil
    BY <1>1 DEF KeptInv, MempoolInv
  <2>2. QED  BY <1>1, <2>1 DEF KeptInv, MempoolInv, Backs, pathSolveEnd
<1>4. WinnersInv' /\ BookedInv'
  BY <1>1 DEF KeptInv, WinnersInv, BookedInv, Backs
<1>5. CollectedInv'
  <2>1. \A b \in PathWindows : pathSolveEnd(b) \in Int
    BY PathFacts DEF pathSolveEnd
  <2>2. QED  BY <1>1, <2>1 DEF KeptInv, CollectedInv, pathSolveEnd
<1>6. SpentInv'
  <2>1. ASSUME NEW i \in mempool, i.nonce \in usedNonces
        PROVE  NonceAtAuction(i.nonce) \/ pathTime' > i.validUntil \/ <<"batch", i.batch>> \in collected
    <3>1. i.validUntil \in Int
      BY DEF KeptInv, MempoolInv
    <3>2. QED  BY <1>1, <2>1, <3>1 DEF KeptInv, SpentInv
  <2>2. QED  BY <1>1, <2>1 DEF KeptInv, SpentInv, NonceAtAuction, Waits
<1>7. FundsInv'
  <2>1. spentPromises' = spentPromises /\ (AuctionPromised' <=> AuctionPromised)
    BY <1>1 DEF spentPromises, AuctionPromised
  <2>2. \A i \in mempool : i.batch \in Nat /\ i.sell \in Nat
    BY PathFacts, IntentSells DEF KeptInv, MempoolInv
  <2>3. liveIntents' \subseteq liveIntents
    BY <1>1, <2>2, PathFacts DEF liveIntents, pathSolveEnd
  <2>4. IsFiniteSet(liveIntents) /\ \A i \in liveIntents : i.sell \in Nat
    BY <2>2, FS_Subset DEF liveIntents, KeptInv, MempoolInv
  <2>5. pledged(liveIntents') <= pledged(liveIntents) /\ pledged(liveIntents') \in Nat /\ pledged(liveIntents) \in Nat
    BY <2>3, <2>4, PledgedSubset
  <2>6. held \in Nat
    BY PathFacts DEF KeptInv, FundsInv
  <2>7. AuctionPromised' \/ pledged(liveIntents') <= held'
    BY <1>1, <2>1, <2>5, <2>6 DEF KeptInv, FundsInv
  <2>8. QED  BY <1>1, <2>1, <2>7 DEF KeptInv, FundsInv, Unlimited
<1>8. FailedInv'
  BY <1>1, <1>2, FailedSame DEF KeptInv
<1>9. QED  BY <1>2, <1>3, <1>4, <1>5, <1>6, <1>7, <1>8 DEF KeptInv

\* A new promise is its try's only one.
LEMMA PromiseAdded ==
  ASSUME PathTypes, PromisesInv, TriesStay, pathCase' = pathCase, NEW p, promises' = promises \cup {p},
         p.try \in Tries, tries[p.try].step \notin {"replying", "done"}, tries'[p.try].step \in {"replying", "done"},
         p.desk = IF is(p.try, "sign") THEN "batch" ELSE "auction", p.sell \in 1..PathBalance, p.waited \in Int
  PROVE  PromisesInv' /\ p \notin promises /\ \A q \in promises : q.try # p.try
<1>1. \A q \in promises : q.try # p.try
  BY DEF PromisesInv
<1>2. IsFiniteSet(promises')
  BY FS_AddElement DEF PromisesInv
<1>3. ASSUME NEW q \in promises'
      PROVE  /\ q.try \in Tries' /\ tries'[q.try].step \in {"replying", "done"}
             /\ q.desk = IF is(q.try, "sign")' THEN "batch" ELSE "auction"
             /\ q.sell \in 1..PathBalance /\ q.waited \in Int
  <2>1. CASE q \in promises
    BY <2>1 DEF PromisesInv, TriesStay, is
  <2>2. CASE q = p
    BY <2>2 DEF TriesStay, is
  <2>3. QED  BY <2>1, <2>2
<1>4. \A q, r \in promises' : q.try = r.try => q = r
  BY <1>1 DEF PromisesInv
<1>5. QED  BY <1>1, <1>2, <1>3, <1>4 DEF PromisesInv

\* What the coordinator checked of an intent it admits.
LEMMA Admitted ==
  ASSUME NEW intent, verdict(intent) = "ok", ownerCode = "none", MempoolInv, PathTypes
  PROVE  /\ intent.form \in {"65", "64"} /\ intent.nonce \notin usedNonces
         /\ windowAt(pathTime) # NoWindow /\ intent.validUntil > pathSolveEnd(windowAt(pathTime))
         /\ promised(pathTime) + intent.sell <= held /\ ~(approved < intent.sell)
         /\ \A i \in mempool : i.nonce = intent.nonce => pathTime > i.validUntil
<1>1. /\ signatureAccepted(intent.form) /\ intent.nonce \notin usedNonces /\ ~(approved < intent.sell)
      /\ windowAt(pathTime) # NoWindow /\ timely(intent, windowAt(pathTime)) /\ coveredBeside(intent, held)
      /\ intent.nonce \notin heldNonces(pathTime)
  BY DEF verdict
<1>2. ASSUME NEW i \in mempool, i.nonce = intent.nonce PROVE pathTime > i.validUntil
  <2>1. ~(pathTime <= i.validUntil)
    BY <1>1, <1>2 DEF heldNonces
  <2>2. pathTime \in Nat /\ i.validUntil \in Int
    BY TimeTyped DEF MempoolInv
  <2>3. QED  BY <2>1, <2>2
<1>3. QED  BY <1>1, <1>2 DEF signatureAccepted, permit2EoaSignature, timely, coveredBeside

LEMMA PromisedIsLive ==
  ASSUME PromisesInv, MempoolInv
  PROVE  promised(pathTime) = pledged(liveIntents) /\ IsFiniteSet(liveIntents) /\ pledged(liveIntents) \in Nat
<1> DEFINE f == [i \in mempool |-> i.sell]
           g == [i \in liveIntents |-> i.sell]
<1>1. IsFiniteSet(liveIntents) /\ \A i \in liveIntents : i.sell \in Nat /\ f[i] = g[i]
  BY IntentSells, FS_Subset DEF liveIntents, MempoolInv
<1>2. promised(pathTime) = SumFunctionOnSet(f, liveIntents)
  BY DEF promised, liveIntents
<1> HIDE DEF f
<1>3. SumFunctionOnSet(f, liveIntents) = SumFunctionOnSet(g, liveIntents)
  BY <1>1, SumSame
<1>4. pledged(liveIntents) \in Nat
  BY <1>1, PledgedNat
<1>5. QED  BY <1>1, <1>2, <1>3, <1>4 DEF pledged

LEMMA PostKeeps ==
  ASSUME PathTypes, TriesInv, KeptInv, TriesStay, NEW t \in Tries, post(t)
  PROVE  KeptInv'
<1> DEFINE intent == buildIntent(tries[t])
           told == tries[t].chainTime
           until == told + ValidFor
           b == windowAt(pathTime)
           new == [batch |-> b, try |-> intent.try, form |-> intent.form, nonce |-> intent.nonce,
                   sell |-> intent.sell, validUntil |-> intent.validUntil]
           p == promise("batch", intent)
<1>1. UNCHANGED <<pathCase, pathTime, held, approved, usedNonces, ownerCode, winners, books, collected, failed>>
  BY DEF post, ownerSide
<1>2. tries[t].step \in PathSteps /\ tries[t].step = "posting"
  BY DEF post, doing, PathSteps
<1>3. /\ tries[t] \in TryRecords /\ tries[t].id = t /\ is(t, "sign") /\ told \in 0..pathTime /\ tries[t].amount \in 1..PathBalance
      /\ pathTime \in 0..PathHorizon /\ pathTime \in Nat
  <2>1. tries[t] \in TryRecords /\ tries[t].id = t /\ TryGood(t, tries[t], pathTime) /\ tries[t].amount \in 1..PathBalance
    BY <1>2, PressedIsGood
  <2>2. is(t, "sign") /\ told \in 0..pathTime
    BY <1>2, <2>1 DEF TryGood
  <2>3. QED  BY <2>1, <2>2, TimeTyped
<1>4. PromisesInv /\ MempoolInv /\ WinnersInv /\ CollectedInv /\ BookedInv /\ SpentInv /\ FundsInv /\ FailedInv
  BY DEF KeptInv
<1>5. CASE verdict(intent) # "ok"
  <2>1. UNCHANGED <<mempool, promises>>
    BY <1>5 DEF post
  <2>2. UNCHANGED moneyVars /\ pathTime' \in Nat /\ pathTime' >= pathTime /\ approved' \in {approved, Unlimited}
    BY <1>1, <1>3, <2>1 DEF moneyVars
  <2>3. QED  BY <1>1, <2>2, SteadyKeeps
<1>6. CASE verdict(intent) = "ok"
  <2>1. mempool' = mempool \cup {new} /\ promises' = promises \cup {p}
    BY <1>6 DEF post, admit
  <2>2. /\ intent.form \in {"65", "64"} /\ intent.nonce \notin usedNonces
        /\ b # NoWindow /\ intent.validUntil > pathSolveEnd(b)
        /\ promised(pathTime) + intent.sell <= held /\ ~(approved < intent.sell)
        /\ \A i \in mempool : i.nonce = intent.nonce => pathTime > i.validUntil
    BY <1>4, <1>6, Admitted DEF FundsInv
  <2>3. intent.try = t /\ intent.nonce = tries[t].nonce /\ intent.sell = tries[t].amount /\ intent.validUntil = Max({until, tries[t].collectEnd})
    BY <1>3 DEF buildIntent
  <2>4. intent.validUntil \in Int /\ intent.validUntil >= until /\ until \in Int /\ told \in Int /\ ValidFor \in Nat
    <3>1. told \in Int /\ until \in Int /\ tries[t].collectEnd \in Int /\ ValidFor \in Nat
      BY <1>3, PathFacts DEF TryRecords
    <3> HIDE DEF until, told
    <3>2. QED  BY <2>3, <3>1, LaterOf
  <2>5. /\ p.desk = "batch" /\ p.try = t /\ p.nonce = intent.nonce /\ p.sell = intent.sell /\ p.waited = pathTime - told
        /\ p.sell \in 1..PathBalance /\ p.waited \in Int
    BY <1>3, <2>3, <2>4 DEF promise
  <2>6. tries'[t].step = "replying"
    BY DEF post, PathTypes
  <2>7. b \in PathWindows /\ b \in Nat /\ pathTime < b /\ b <= pathTime + LongestWindow /\ LongestWindow \in Nat
    BY <1>3, <2>2, WindowAt, PathFacts
  <2>8. new.batch = b /\ new.try = t /\ new.nonce = intent.nonce /\ new.sell = intent.sell /\ new.form = intent.form
        /\ new.validUntil = intent.validUntil
    BY <2>3
  <2>9. b + ValidFor <= new.validUntil + LongestWindow + p.waited
    BY <1>3, <2>4, <2>5, <2>7, <2>8
  <2> HIDE DEF new, p, b, intent, told, until
  <2>10. PromisesInv' /\ p \notin promises /\ (\A q \in promises : q.try # t) /\ promises \subseteq promises'
    <3>1. p.try \in Tries /\ tries[p.try].step \notin {"replying", "done"} /\ tries'[p.try].step \in {"replying", "done"}
          /\ (p.desk = IF is(p.try, "sign") THEN "batch" ELSE "auction")
      BY <1>2, <1>3, <2>5, <2>6
    <3>2. QED  BY <1>1, <1>4, <2>1, <2>5, <3>1, PromiseAdded
  <2>11. \A i \in mempool : i.try # t
    BY <1>4, <2>10 DEF MempoolInv, Backs
  <2>12. MempoolInv'
    <3>1. IsFiniteSet(mempool')
      BY <1>4, <2>1, FS_AddElement DEF MempoolInv
    <3>2. ASSUME NEW i \in mempool'
          PROVE  /\ i.batch \in PathWindows /\ i.validUntil \in Int /\ pathSolveEnd(i.batch) < i.validUntil
                 /\ i.form \in {"65", "64"}
                 /\ \E q \in promises' : Backs(q, "batch", i) /\ i.batch + ValidFor <= i.validUntil + LongestWindow + q.waited
      <4>1. CASE i \in mempool
        BY <1>4, <2>10, <4>1 DEF MempoolInv
      <4>2. CASE i = new
        <5>1. Backs(p, "batch", new) /\ p \in promises'
          BY <2>1, <2>5, <2>8 DEF Backs
        <5>2. pathSolveEnd(b) \in Int /\ pathSolveEnd(b) < new.validUntil
          BY <2>2, <2>4, <2>7, <2>8, PathFacts DEF pathSolveEnd
        <5>3. QED  BY <2>2, <2>4, <2>7, <2>8, <2>9, <4>2, <5>1, <5>2
      <4>3. QED  BY <2>1, <4>1, <4>2
    <3>3. ASSUME NEW i \in mempool', NEW j \in mempool', i # j
          PROVE  i.try # j.try /\ (i.nonce = j.nonce => pathTime > i.validUntil \/ pathTime > j.validUntil)
      <4>1. CASE i \in mempool /\ j \in mempool
        BY <1>4, <3>3, <4>1 DEF MempoolInv
      <4>2. CASE i = new /\ j \in mempool
        BY <2>2, <2>8, <2>11, <4>2
      <4>3. CASE j = new /\ i \in mempool
        BY <2>2, <2>8, <2>11, <4>3
      <4>4. QED  BY <2>1, <3>3, <4>1, <4>2, <4>3
    <3>4. QED  BY <1>1, <3>1, <3>2, <3>3 DEF MempoolInv, Backs, pathSolveEnd
  <2>13. WinnersInv' /\ CollectedInv'
    BY <1>1, <1>4, <2>1 DEF WinnersInv, CollectedInv, pathSolveEnd
  <2>14. BookedInv'
    BY <1>1, <1>4, <2>10 DEF BookedInv, Backs
  <2>15. SpentInv'
    <3>1. \A n \in usedNonces : \E q \in promises' : q.nonce = n /\ ~Waits(q)'
      BY <1>1, <1>4, <2>10 DEF SpentInv, Waits
    <3>2. ASSUME NEW i \in mempool', i.nonce \in usedNonces
          PROVE  NonceAtAuction(i.nonce)' \/ pathTime > i.validUntil \/ <<"batch", i.batch>> \in collected
      <4>1. i \in mempool
        BY <2>1, <2>2, <2>8, <3>2
      <4>2. QED  BY <1>4, <2>10, <3>2, <4>1 DEF SpentInv, NonceAtAuction
    <3>3. QED  BY <1>1, <3>1, <3>2 DEF SpentInv, NonceAtAuction
  <2>16. FundsInv'
    <3>1. held \in 0..PathBalance /\ held \in Nat /\ PathBalance \in Nat /\ PathBalance <= held + pledged(spentPromises)
          /\ approved \in {0, Unlimited}
      BY <1>4, PathFacts DEF FundsInv
    <3>2. PathBalance <= held' + pledged(spentPromises')
      <4>1. usedNonces \subseteq usedNonces'
        BY <1>1
      <4>2. pledged(spentPromises) <= pledged(spentPromises') /\ pledged(spentPromises) \in Nat /\ pledged(spentPromises') \in Nat
        BY <1>4, <2>10, <4>1, SpentGrows
      <4>3. QED  BY <1>1, <3>1, <4>2
    <3>3. approved = Unlimited
      <4>1. intent.sell \in Nat /\ intent.sell > 0
        BY <2>5, <3>1
      <4>2. QED  BY <2>2, <3>1, <4>1
    <3>4. liveIntents' = liveIntents \cup {new} /\ new \notin liveIntents
      <4>1. pathTime <= pathSolveEnd(new.batch) /\ new.nonce \notin usedNonces
        BY <1>3, <2>2, <2>7, <2>8, PathFacts DEF pathSolveEnd
      <4>2. new \notin mempool
        BY <2>8, <2>11
      <4>3. QED  BY <1>1, <2>1, <4>1, <4>2 DEF liveIntents, pathSolveEnd
    <3>5. promised(pathTime) = pledged(liveIntents) /\ IsFiniteSet(liveIntents) /\ pledged(liveIntents) \in Nat
      BY <1>4, PromisedIsLive
    <3>6. \A i \in liveIntents \cup {new} : i.sell \in Nat
      BY <1>4, <2>5, <2>8, <3>1, IntentSells DEF liveIntents
    <3>7. pledged(liveIntents \cup {new}) = pledged(liveIntents) + new.sell
      BY <3>4, <3>5, <3>6, PledgedAdd
    <3>8. pledged(liveIntents') <= held'
      BY <1>1, <2>2, <2>8, <3>4, <3>5, <3>7
    <3>9. QED  BY <1>1, <1>4, <3>1, <3>2, <3>3, <3>8 DEF FundsInv, Unlimited
  <2>17. FailedInv'
    BY <1>1, <1>4, <2>10, FailedSame
  <2>18. QED  BY <2>10, <2>12, <2>13, <2>14, <2>15, <2>16, <2>17 DEF KeptInv
<1>7. QED  BY <1>5, <1>6

\* A book after a commitment: its entries stand where they stood, the new one is last.
LEMMA BookGrows ==
  ASSUME NEW S, NEW list \in Seq(S), NEW e
  PROVE  \A k \in DOMAIN Append(list, e) :
           \/ k = Len(list) + 1 /\ Append(list, e)[k] = e
           \/ k \in DOMAIN list /\ Append(list, e)[k] = list[k]
<1>1. Len(list) \in Nat /\ DOMAIN list = 1..Len(list) /\ DOMAIN Append(list, e) = 1..(Len(list) + 1)
  OBVIOUS
<1>2. ASSUME NEW k \in DOMAIN Append(list, e)
      PROVE  (k = Len(list) + 1 /\ Append(list, e)[k] = e) \/ (k \in DOMAIN list /\ Append(list, e)[k] = list[k])
  <2>1. k \in 1..(Len(list) + 1)
    BY <1>1
  <2>2. CASE k = Len(list) + 1
    BY <1>1, <2>2
  <2>3. CASE k # Len(list) + 1
    <3>1. k \in 1..Len(list)
      BY <1>1, <2>1, <2>3
    <3>2. QED  BY <1>1, <3>1
  <2>4. QED  BY <2>2, <2>3
<1>3. QED  BY <1>2

LEMMA CommitKeeps ==
  ASSUME PathTypes, TriesInv, BooksInv, KeptInv, TriesStay, NEW t \in Tries, landCommitment(t)
  PROVE  KeptInv'
<1> DEFINE intent == buildAuctionIntent(tries[t])
           p == promise("auction", intent)
           x == nextCross
<1>1. UNCHANGED <<pathCase, pathTime, held, approved, usedNonces, ownerCode, winners, collected, mempool, failed>>
  BY DEF landCommitment
<1>2. tries[t].step \in PathSteps /\ tries[t].step = "landing" /\ ~is(t, "sign")
  BY DEF landCommitment, doing, is, PathSteps
<1>3. tries[t] \in TryRecords /\ tries[t].id = t /\ tries[t].amount \in 1..PathBalance /\ pathTime \in Nat
  BY <1>2, PressedIsGood, TimeTyped
<1>4. PromisesInv /\ MempoolInv /\ WinnersInv /\ CollectedInv /\ BookedInv /\ SpentInv /\ FundsInv /\ FailedInv
  BY DEF KeptInv
<1>5. CASE ~houseTakes(intent)
  <2>1. UNCHANGED <<books, promises>>
    BY <1>5 DEF landCommitment
  <2>2. UNCHANGED moneyVars /\ pathTime' \in Nat /\ pathTime' >= pathTime /\ approved' \in {approved, Unlimited}
    BY <1>1, <1>3, <2>1 DEF moneyVars
  <2>3. QED  BY <1>1, <2>2, SteadyKeeps
<1>6. CASE houseTakes(intent)
  <2>1. books' = [books EXCEPT ![x] = Append(@, intent)] /\ promises' = promises \cup {p} /\ ends(t, "committed")
    BY <1>6 DEF landCommitment
  <2>2. /\ <<"auction", x>> \notin collected /\ intent.validUntil >= x /\ approved >= intent.sell /\ intent.form = "65"
    BY <1>4, <1>6 DEF houseTakes, FundsInv
  <2>3. x \in PathCrosses /\ x \in Nat
    BY <1>3, <1>6, LandsInFirst
  <2>4. intent.try = t /\ intent.nonce = tries[t].nonce /\ intent.sell = tries[t].amount
    BY <1>3 DEF buildAuctionIntent
  <2>5. p.desk = "auction" /\ p.try = t /\ p.nonce = intent.nonce /\ p.sell = intent.sell /\ p.sell \in 1..PathBalance /\ p.waited \in Int
    BY <1>3, <2>4 DEF promise
  <2>6. tries'[t].step = "done"
    BY <2>1 DEF ends, PathTypes
  <2> HIDE DEF intent, p, x
  <2>7. PromisesInv' /\ p \notin promises /\ (\A q \in promises : q.try # t) /\ promises \subseteq promises' /\ p \in promises'
    <3>1. p.try \in Tries /\ tries[p.try].step \notin {"replying", "done"} /\ tries'[p.try].step \in {"replying", "done"}
          /\ (p.desk = IF is(p.try, "sign") THEN "batch" ELSE "auction")
      BY <1>2, <2>5, <2>6
    <3>2. QED  BY <1>1, <1>4, <2>1, <2>5, <3>1, PromiseAdded
  <2>8. MempoolInv' /\ WinnersInv' /\ CollectedInv'
    BY <1>1, <1>4, <2>7 DEF MempoolInv, WinnersInv, CollectedInv, Backs, pathSolveEnd
  <2>9. books \in [PathCrosses -> Seq(Commitments)]
    BY DEF BooksInv
  <2>10. /\ \A y \in PathCrosses : \A k \in DOMAIN books'[y] :
              \/ y = x /\ k = Len(books[x]) + 1 /\ books'[y][k] = intent
              \/ k \in DOMAIN books[y] /\ books'[y][k] = books[y][k]
    <3>1. \A k \in DOMAIN Append(books[x], intent) :
            \/ k = Len(books[x]) + 1 /\ Append(books[x], intent)[k] = intent
            \/ k \in DOMAIN books[x] /\ Append(books[x], intent)[k] = books[x][k]
      BY <2>3, <2>9, BookGrows
    <3>2. books'[x] = Append(books[x], intent) /\ \A y \in PathCrosses : y # x => books'[y] = books[y]
      BY <2>1, <2>3, <2>9
    <3>3. QED  BY <3>1, <3>2
  <2>11. \A y \in PathCrosses : \A k \in DOMAIN books[y] : books[y][k].try # t
    BY <1>4, <2>7 DEF BookedInv, Backs
  <2>12. BookedInv'
    <3>1. ASSUME NEW y \in PathCrosses, NEW k \in DOMAIN books'[y]
          PROVE  /\ books'[y][k].validUntil >= y /\ books'[y][k].form = "65"
                 /\ \E q \in promises' : Backs(q, "auction", books'[y][k])
      <4>1. CASE y = x /\ books'[y][k] = intent
        <5>1. Backs(p, "auction", intent)
          BY <2>4, <2>5 DEF Backs
        <5>2. QED  BY <2>2, <2>7, <4>1, <5>1
      <4>2. CASE k \in DOMAIN books[y] /\ books'[y][k] = books[y][k]
        BY <1>4, <2>7, <4>2 DEF BookedInv
      <4>3. QED  BY <2>10, <3>1, <4>1, <4>2
    <3>2. ASSUME NEW y \in PathCrosses, NEW z \in PathCrosses, NEW k \in DOMAIN books'[y], NEW l \in DOMAIN books'[z],
                 books'[y][k].try = books'[z][l].try
          PROVE  y = z /\ k = l
      <4>1. CASE books'[y][k].try = t
        <5>1. y = x /\ k = Len(books[x]) + 1
          BY <2>10, <2>11, <4>1
        <5>2. z = x /\ l = Len(books[x]) + 1
          BY <2>10, <2>11, <3>2, <4>1
        <5>3. QED  BY <5>1, <5>2
      <4>2. CASE books'[y][k].try # t
        <5>1. k \in DOMAIN books[y] /\ books'[y][k] = books[y][k] /\ l \in DOMAIN books[z] /\ books'[z][l] = books[z][l]
          BY <2>4, <2>10, <3>2, <4>2
        <5>2. QED  BY <1>4, <3>2, <5>1 DEF BookedInv
      <4>3. QED  BY <4>1, <4>2
    <3>3. QED  BY <3>1, <3>2 DEF BookedInv, Backs
  <2>13. SpentInv'
    <3>1. ASSUME NEW q \in promises, Waits(q)' PROVE Waits(q)
      <4>1. PICK y \in PathCrosses : <<"auction", y>> \notin collected /\ \E k \in DOMAIN books'[y] : books'[y][k].try = q.try
        BY <1>1, <3>1 DEF Waits
      <4>2. PICK k \in DOMAIN books'[y] : books'[y][k].try = q.try
        BY <4>1
      <4>3. q.try # t
        BY <2>7
      <4>4. k \in DOMAIN books[y] /\ books'[y][k] = books[y][k]
        BY <2>4, <2>10, <4>2, <4>3
      <4>5. QED  BY <4>1, <4>2, <4>4 DEF Waits
    <3>2. \A n \in usedNonces : \E q \in promises' : q.nonce = n /\ ~Waits(q)'
      BY <1>4, <2>7, <3>1 DEF SpentInv
    <3>3. \A i \in mempool : NonceAtAuction(i.nonce) => NonceAtAuction(i.nonce)'
      BY <2>7 DEF NonceAtAuction
    <3>4. QED  BY <1>1, <1>4, <3>2, <3>3 DEF SpentInv, NonceAtAuction
  <2>14. FundsInv'
    <3>1. held \in 0..PathBalance /\ held \in Nat /\ PathBalance \in Nat /\ PathBalance <= held + pledged(spentPromises)
          /\ approved \in {0, Unlimited}
      BY <1>4, PathFacts DEF FundsInv
    <3>2. usedNonces \subseteq usedNonces'
      BY <1>1
    <3>3. pledged(spentPromises) <= pledged(spentPromises') /\ pledged(spentPromises) \in Nat /\ pledged(spentPromises') \in Nat
      BY <1>4, <2>7, <3>2, SpentGrows
    <3>4. PathBalance <= held' + pledged(spentPromises')
      BY <1>1, <3>1, <3>3
    <3>5. approved = Unlimited
      <4>1. intent.sell \in Nat /\ intent.sell > 0
        BY <2>5, <3>1
      <4>2. QED  BY <2>2, <3>1, <4>1
    <3>6. AuctionPromised'
      BY <2>5, <2>7 DEF AuctionPromised
    <3>7. QED  BY <1>1, <1>4, <3>1, <3>4, <3>5, <3>6 DEF FundsInv, Unlimited
  <2>15. FailedInv'
    BY <1>1, <1>4, <2>7, FailedSame
  <2>16. QED  BY <2>7, <2>8, <2>12, <2>13, <2>14, <2>15 DEF KeptInv
<1>7. QED  BY <1>5, <1>6

\* A solution is submitted while the window is open.
LEMMA SubmitKeeps ==
  ASSUME PathTypes, KeptInv, NEW b \in PathWindows, submitSolution(b)
  PROVE  KeptInv'
<1>1. UNCHANGED <<pathCase, pathTime, held, approved, usedNonces, ownerCode, books, collected, mempool, failed, promises, tries>>
  BY DEF submitSolution, historySide
<1>2. PICK S \in (SUBSET mempool) \ {{}} : S \subseteq collectableNow(b) /\ winners' = [winners EXCEPT ![b] = S]
  BY DEF submitSolution
<1>3. PromisesInv /\ MempoolInv /\ WinnersInv /\ CollectedInv /\ BookedInv /\ SpentInv /\ FundsInv /\ FailedInv
  BY DEF KeptInv
<1>4. Tries' = Tries
  BY <1>1 DEF Tries
<1>5. PromisesInv' /\ MempoolInv' /\ CollectedInv' /\ BookedInv' /\ SpentInv'
  BY <1>1, <1>3, <1>4 DEF PromisesInv, MempoolInv, CollectedInv, BookedInv, SpentInv, is, Backs, pathSolveEnd, NonceAtAuction, Waits
<1>6. \A i \in S : i.batch = b
  <2> DEFINE U == {i \in mempool : i.batch = b /\ i.validUntil > pathSolveEnd(b)}
  <2>1. U \subseteq mempool
    OBVIOUS
  <2>2. usable(b) = byTry(U) /\ \A i \in U : i.batch = b
    BY DEF usable
  <2> HIDE DEF U
  <2>3. \A k \in DOMAIN usable(b) : usable(b)[k] \in U
    BY <1>3, <2>1, <2>2, ListOfBatch
  <2>4. PICK n \in Nat : DOMAIN usable(b) \subseteq 1..n
    BY <1>3, <2>1, <2>2, ListOfBatch
  <2>5. takes(usable(b)) \subseteq DOMAIN usable(b)
    BY <2>4, TakesIs
  <2>6. QED  BY <1>2, <2>2, <2>3, <2>5 DEF collectableNow
<1>7. winners'[b] = S /\ (\A c \in PathWindows : c # b => winners'[c] = winners[c]) /\ winners' \in [PathWindows -> SUBSET mempool]
  BY <1>2, <1>3 DEF WinnersInv
<1>8. WinnersInv'
  <2>1. \A c \in PathWindows : \A i \in winners'[c] : i.batch = c
    BY <1>3, <1>6, <1>7 DEF WinnersInv
  <2>2. QED  BY <1>1, <1>7, <2>1 DEF WinnersInv
<1>9. liveIntents' = liveIntents
  <2>1. pathTime <= pathSolveEnd(b)
    BY DEF submitSolution
  <2>2. \A i \in mempool : i.batch \in PathWindows
    BY <1>3 DEF MempoolInv
  <2>3. ASSUME NEW i \in mempool
        PROVE  (pathTime <= pathSolveEnd(i.batch) \/ winners[i.batch] # {}) <=> (pathTime <= pathSolveEnd(i.batch) \/ winners'[i.batch] # {})
    BY <1>7, <2>1, <2>2
  <2>4. QED  BY <1>1, <2>3 DEF liveIntents, pathSolveEnd
<1>10. FundsInv'
  <2>1. spentPromises' = spentPromises /\ (AuctionPromised' <=> AuctionPromised)
    BY <1>1 DEF spentPromises, AuctionPromised
  <2>2. QED  BY <1>1, <1>3, <1>9, <2>1 DEF FundsInv, Unlimited
<1>11. FailedInv'
  BY <1>1, <1>3, <1>5, FailedSame
<1>12. QED  BY <1>3, <1>5, <1>8, <1>10, <1>11 DEF KeptInv

\* What is taken of a list was promised and not spent.
LEMMA Spends ==
  ASSUME PromisesInv, NEW list, NEW desk, Listed(list, desk), NEW J, J \subseteq DOMAIN list, IsFiniteSet(J),
         \A j \in J : list[j].nonce \notin usedNonces,
         promises' = promises, usedNonces' = usedNonces \cup {list[j].nonce : j \in J}
  PROVE  /\ pledged(spentPromises) + placed(list, J) <= pledged(spentPromises')
         /\ pledged(spentPromises) \in Nat /\ placed(list, J) \in Nat /\ pledged(spentPromises') \in Nat
<1>1. PICK T : /\ T \subseteq promises \ spentPromises /\ placed(list, J) = pledged(T)
               /\ \A p \in T : \E j \in J : p.nonce = list[j].nonce
  BY PlacedUnspent
<1> DEFINE S == spentPromises
           U == S \cup T
<1>2. S \subseteq spentPromises' /\ T \subseteq spentPromises' /\ spentPromises' \subseteq promises
  BY <1>1 DEF spentPromises
<1>3. IsFiniteSet(spentPromises') /\ IsFiniteSet(U) /\ (\A p \in spentPromises' : p.sell \in Nat) /\ \A p \in U : p.sell \in Nat
  BY <1>2, PromiseSells, FS_Subset DEF PromisesInv
<1>4. U \ S = T /\ S \subseteq U /\ U \subseteq spentPromises'
  BY <1>1, <1>2
<1> HIDE DEF S, U
<1>5. pledged(U) = pledged(S) + pledged(U \ S) /\ pledged(S) \in Nat /\ pledged(U \ S) \in Nat /\ pledged(U) \in Nat
  BY <1>3, <1>4, PledgedPart
<1>6. pledged(U) <= pledged(spentPromises') /\ pledged(spentPromises') \in Nat
  BY <1>3, <1>4, PledgedSubset
<1>7. pledged(S) + placed(list, J) <= pledged(spentPromises') /\ placed(list, J) \in Nat
  BY <1>1, <1>4, <1>5, <1>6
<1>8. QED  BY <1>5, <1>6, <1>7 DEF S

\* What finalize spends: the legs up to the first that fails, and their funds if none does.
LEMMA FinalizeTakes ==
  ASSUME PathTypes, KeptInv, NEW b \in PathWindows, finalizeBatch(b)
  PROVE  \E J : /\ J \subseteq takes(byTry(winners[b])) /\ J \subseteq DOMAIN byTry(winners[b]) /\ IsFiniteSet(J)
               /\ usedNonces' = usedNonces \cup {byTry(winners[b])[j].nonce : j \in J}
               /\ held' \in 0..PathBalance /\ held' + placed(byTry(winners[b]), J) >= held
<1> DEFINE legs == byTry(winners[b])
           missed == DOMAIN legs \ takes(legs)
<1>1. PromisesInv /\ MempoolInv /\ WinnersInv /\ FundsInv /\ winners[b] \subseteq mempool
  BY DEF KeptInv, WinnersInv
<1>2. Listed(legs, "batch")
  BY <1>1, ListOfBatch
<1>3. PICK n \in Nat : DOMAIN legs \subseteq 1..n
  BY <1>1, ListOfBatch
<1>4. /\ (missed = {} => take(legs, DOMAIN legs))
      /\ (missed # {} => /\ usedNonces' = usedNonces \cup {legs[t].nonce : t \in {u \in DOMAIN legs : u < Min(missed)}}
                         /\ held' = held)
  BY DEF finalizeBatch
<1> HIDE DEF legs
<1>5. /\ takes(legs) \subseteq DOMAIN legs /\ IsFiniteSet(takes(legs))
      /\ placed(legs, takes(legs)) <= held /\ placed(legs, takes(legs)) \in Nat
  BY <1>1, <1>2, <1>3, TakenFits
<1>6. held \in 0..PathBalance /\ PathBalance \in Nat
  BY <1>1, PathFacts DEF FundsInv
<1>7. CASE missed = {}
  <2>1. takes(legs) = DOMAIN legs
    BY <1>5, <1>7
  <2>2. held' = held - placed(legs, takes(legs)) /\ usedNonces' = usedNonces \cup {legs[j].nonce : j \in takes(legs)}
    BY <1>4, <1>7, <2>1 DEF take, placed
  <2>3. held' \in 0..PathBalance /\ held' + placed(legs, takes(legs)) >= held
    BY <1>5, <1>6, <2>2
  <2>4. QED  BY <1>5, <2>2, <2>3 DEF legs
<1>8. CASE missed # {}
  <2> DEFINE J == {u \in DOMAIN legs : u < Min(missed)}
  <2>1. IsFiniteSet(missed) /\ missed \subseteq Nat /\ IsFiniteSet(J) /\ J \subseteq DOMAIN legs /\ DOMAIN legs \subseteq Nat
    <3>1. \A K \in SUBSET DOMAIN legs : IsFiniteSet(K)
      BY <1>1, <1>2, <1>3, ListSells
    <3>2. QED  BY <1>3, <3>1
  <2>2. Min(missed) \in Nat /\ \A k \in missed : Min(missed) <= k
    <3> HIDE DEF missed
    <3>1. QED  BY <1>8, <2>1, MinOf
  <2>3. J \subseteq takes(legs)
    <3>1. ASSUME NEW u \in J, u \in missed PROVE FALSE
      <4>1. u \in Nat /\ u < Min(missed) /\ Min(missed) <= u
        BY <2>1, <2>2, <3>1
      <4>2. QED  BY <2>2, <4>1
    <3>2. QED  BY <3>1
  <2>4. \A j \in J : legs[j].sell \in Nat
    BY <1>1, <1>2, <1>3, ListSells
  <2>5. placed(legs, J) \in Nat
    <3> DEFINE f == [j \in J |-> legs[j].sell]
    <3>1. \A j \in J : f[j] \in Nat
      BY <2>4
    <3> HIDE DEF f, J
    <3>2. SumFunctionOnSet(f, J) \in Nat
      BY <2>1, <3>1, SumNat
    <3>3. QED  BY <3>2 DEF f, placed
  <2>6. held' \in 0..PathBalance /\ held' + placed(legs, J) >= held
    BY <1>4, <1>6, <1>8, <2>5
  <2>7. usedNonces' = usedNonces \cup {legs[j].nonce : j \in J}
    BY <1>4, <1>8
  <2> HIDE DEF J
  <2>8. QED  BY <2>1, <2>3, <2>6, <2>7 DEF legs
<1>9. QED  BY <1>7, <1>8

\* What takes part in the funds is unchanged but for what is taken of a list.
LEMMA FundsTaken ==
  ASSUME PromisesInv, MempoolInv, FundsInv, NEW list, NEW desk, Listed(list, desk), NEW J, J \subseteq DOMAIN list, IsFiniteSet(J),
         \A j \in J : list[j].nonce \notin usedNonces,
         usedNonces' = usedNonces \cup {list[j].nonce : j \in J},
         held' \in 0..PathBalance, held' + placed(list, J) >= held,
         UNCHANGED <<promises, mempool, winners, pathTime, approved, ownerCode>>,
         AuctionPromised \/ \A j \in J : list[j] \in liveIntents
  PROVE  FundsInv'
<1>1. /\ pledged(spentPromises) + placed(list, J) <= pledged(spentPromises')
      /\ pledged(spentPromises) \in Nat /\ placed(list, J) \in Nat /\ pledged(spentPromises') \in Nat
  BY Spends
<1>2. held \in 0..PathBalance /\ PathBalance \in Nat /\ PathBalance <= held + pledged(spentPromises)
  BY PathFacts DEF FundsInv
<1>3. PathBalance <= held' + pledged(spentPromises')
  BY <1>1, <1>2
<1>4. AuctionPromised' <=> AuctionPromised
  BY DEF AuctionPromised
<1>5. CASE AuctionPromised
  BY <1>3, <1>4, <1>5 DEF FundsInv, Unlimited
<1>6. CASE ~AuctionPromised
  <2>1. \A j, k \in DOMAIN list : list[j].try = list[k].try => j = k
    BY DEF Listed
  <2>2. PICK T : /\ T \subseteq liveIntents /\ placed(list, J) = pledged(T) /\ T = {list[j] : j \in J}
                 /\ pledged(liveIntents) = pledged(T) + pledged(liveIntents \ T)
                 /\ pledged(T) \in Nat /\ pledged(liveIntents \ T) \in Nat /\ pledged(liveIntents) \in Nat
    BY <1>6, <2>1, PlacedLive
  <2>3. liveIntents' \subseteq liveIntents \ T
    BY <2>2 DEF liveIntents, pathSolveEnd
  <2>4. IsFiniteSet(liveIntents \ T) /\ \A i \in liveIntents \ T : i.sell \in Nat
    BY IntentSells, FS_Subset DEF liveIntents, MempoolInv
  <2>5. pledged(liveIntents') <= pledged(liveIntents \ T) /\ pledged(liveIntents') \in Nat
    BY <2>3, <2>4, PledgedSubset
  <2>6. pledged(liveIntents) <= held
    BY <1>6 DEF FundsInv
  <2>7. pledged(liveIntents') <= held'
    BY <1>1, <1>2, <2>2, <2>5, <2>6
  <2>8. QED  BY <1>3, <2>7 DEF FundsInv, Unlimited
<1>7. QED  BY <1>5, <1>6

\* An admitted intent that expires before finalize was sent late.
LEMMA ExpiredIsLate ==
  ASSUME PathTypes, PromisesInv, MempoolInv, NEW i \in mempool, pathTime > i.validUntil,
         pathTime <= pathSolveEnd(i.batch) + PathDeadline
  PROVE  Late(Kept("batch", i.try))
<1>1. PICK p \in promises : Backs(p, "batch", i) /\ i.batch + ValidFor <= i.validUntil + LongestWindow + p.waited
  BY DEF MempoolInv
<1>2. p = Kept("batch", i.try) /\ p.waited \in Int
  BY <1>1, KeptIs DEF Backs, PromisesInv
<1>3. /\ pathTime \in Nat /\ i.validUntil \in Int /\ i.batch \in Nat /\ LongestWindow \in Nat /\ ValidFor \in Nat
      /\ PathSolutionWindow \in Nat /\ PathDeadline \in Nat
  BY TimeTyped, PathAssumption DEF MempoolInv
<1>4. p.waited > ValidFor - LongestWindow - PathSolutionWindow - PathDeadline
  BY <1>1, <1>2, <1>3 DEF pathSolveEnd
<1>5. QED  BY <1>2, <1>4 DEF Late

LEMMA FinalizeKeeps ==
  ASSUME PathTypes, KeptInv, NEW b \in PathWindows, finalizeBatch(b)
  PROVE  KeptInv'
<1> DEFINE legs == byTry(winners[b])
           missed == DOMAIN legs \ takes(legs)
<1>1. UNCHANGED <<pathCase, pathTime, approved, ownerCode, winners, books, mempool, promises, tries>>
  BY DEF finalizeBatch
<1>2. PromisesInv /\ MempoolInv /\ WinnersInv /\ CollectedInv /\ BookedInv /\ SpentInv /\ FundsInv /\ FailedInv
  BY DEF KeptInv
<1>3. /\ pathSolveEnd(b) < pathTime /\ pathTime <= pathSolveEnd(b) + PathDeadline
      /\ winners[b] # {} /\ <<"batch", b>> \notin collected /\ collected' = collected \cup {<<"batch", b>>}
  BY DEF finalizeBatch
<1>4. /\ (missed = {} => failed' = failed)
      /\ (missed # {} => failed' = failed \cup {Kept("batch", Min(missed))})
  BY DEF finalizeBatch
<1>5. PICK J : /\ J \subseteq takes(legs) /\ J \subseteq DOMAIN legs /\ IsFiniteSet(J)
               /\ usedNonces' = usedNonces \cup {legs[j].nonce : j \in J}
               /\ held' \in 0..PathBalance /\ held' + placed(legs, J) >= held
  BY FinalizeTakes
<1>6. winners[b] \subseteq mempool /\ \A i \in winners[b] : i.batch = b
  BY <1>2 DEF WinnersInv
<1>7. Listed(legs, "batch") /\ \A t \in DOMAIN legs : legs[t] \in winners[b] /\ legs[t].try = t
  BY <1>2, <1>6, ListOfBatch
<1>8. PICK n \in Nat : DOMAIN legs \subseteq 1..n
  BY <1>2, <1>6, ListOfBatch
<1>9. \A j \in J : legs[j].nonce \notin usedNonces /\ pathTime <= legs[j].validUntil
  <2> HIDE DEF legs
  <2>1. \A k \in takes(legs) : legs[k].nonce \notin usedNonces /\ pathTime <= legs[k].validUntil
    BY <1>2, <1>7, <1>8, TakenFits
  <2>2. QED  BY <1>5, <2>1
<1>10. Tries' = Tries
  BY <1>1 DEF Tries
<1>11. PromisesInv' /\ MempoolInv' /\ WinnersInv' /\ BookedInv'
  BY <1>1, <1>2, <1>10 DEF PromisesInv, MempoolInv, WinnersInv, BookedInv, is, Backs, pathSolveEnd
<1>12. CollectedInv'
  BY <1>1, <1>2, <1>3 DEF CollectedInv, pathSolveEnd
<1>13. FailedInv'
  <2>1. CASE missed = {}
    BY <1>1, <1>2, <1>4, <1>11, <2>1, FailedSame
  <2>2. CASE missed # {}
    <3>1. IsFiniteSet(missed) /\ missed \subseteq Nat
      <4>1. \A K \in SUBSET DOMAIN legs : IsFiniteSet(K)
        <5> HIDE DEF legs
        <5>1. QED  BY <1>2, <1>7, <1>8, ListSells
      <4>2. QED  BY <1>8, <4>1
    <3>2. Min(missed) \in missed
      <4> HIDE DEF missed
      <4>1. QED  BY <2>2, <3>1, MinOf
    <3>3. PICK i \in winners[b] : i = legs[Min(missed)]
      BY <1>7, <3>2
    <3>4. i.try = Min(missed) /\ i \in mempool /\ i.batch = b
      BY <1>6, <1>7, <3>2, <3>3
    <3>5. i.try \notin takes(byTry(winners[b]))
      BY <3>2, <3>4
    <3>6. /\ Kept("batch", i.try) \in promises
          /\ SharedWithAuction(Kept("batch", i.try)) \/ pathTime > i.validUntil
      BY <1>2, <1>3, <1>6, <3>5, MissedOfBatch
    <3>7. pathTime > i.validUntil => Late(Kept("batch", i.try))
      BY <1>2, <1>3, <3>4, ExpiredIsLate
    <3>8. failed' = failed \cup {Kept("batch", i.try)}
      BY <1>4, <2>2, <3>4
    <3> HIDE DEF missed, legs
    <3>9. ASSUME NEW p \in failed' PROVE p \in promises' /\ (SharedWithAuction(p)' \/ Late(p))
      <4>1. p \in promises /\ (SharedWithAuction(p) \/ Late(p))
        BY <1>2, <3>6, <3>7, <3>8 DEF FailedInv
      <4>2. QED  BY <1>1, <1>2, <1>11, <4>1, SharedGrows
    <3>10. QED  BY <3>9 DEF FailedInv, Late
  <2>3. QED  BY <2>1, <2>2
<1>14. SpentInv'
  <2>1. \A q \in promises : Waits(q)' => Waits(q)
    BY <1>1, <1>3 DEF Waits
  <2>2. ASSUME NEW j \in J PROVE \E q \in promises : q.nonce = legs[j].nonce /\ ~Waits(q)'
    <3>1. PICK q \in promises : Backs(q, "batch", legs[j])
      BY <1>5, <1>7 DEF Listed
    <3>2. ASSUME Waits(q) PROVE FALSE
      <4>1. PICK x \in PathCrosses : \E k \in DOMAIN books[x] : books[x][k].try = q.try
        BY <3>2 DEF Waits
      <4>2. PICK k \in DOMAIN books[x] : books[x][k].try = q.try
        BY <4>1
      <4>3. PICK r \in promises : Backs(r, "auction", books[x][k])
        BY <1>2 DEF BookedInv
      <4>4. r = q
        BY <1>2, <4>2, <4>3 DEF PromisesInv, Backs
      <4>5. QED  BY <3>1, <4>3, <4>4 DEF Backs
    <3>3. QED  BY <2>1, <3>1, <3>2 DEF Backs
  <2>3. ASSUME NEW m \in usedNonces' PROVE \E q \in promises : q.nonce = m /\ ~Waits(q)'
    <3>1. CASE m \in usedNonces
      BY <1>2, <2>1, <3>1 DEF SpentInv
    <3>2. CASE \E j \in J : m = legs[j].nonce
      BY <2>2, <3>2
    <3>3. QED  BY <1>5, <3>1, <3>2
  <2>4. ASSUME NEW i \in mempool, i.nonce \in usedNonces'
        PROVE  NonceAtAuction(i.nonce) \/ pathTime > i.validUntil \/ <<"batch", i.batch>> \in collected'
    <3>1. CASE i.nonce \in usedNonces
      BY <1>2, <1>3, <3>1 DEF SpentInv
    <3>2. ASSUME NEW j \in J, i.nonce = legs[j].nonce
          PROVE  pathTime > i.validUntil \/ <<"batch", i.batch>> \in collected'
      <4>1. legs[j] \in mempool /\ legs[j].batch = b /\ pathTime <= legs[j].validUntil
        BY <1>5, <1>6, <1>7, <1>9
      <4>2. PICK l \in mempool : l = legs[j]
        BY <4>1
      <4>3. CASE l = i
        BY <1>3, <4>1, <4>2, <4>3
      <4>4. CASE l # i
        <5>1. pathTime > l.validUntil \/ pathTime > i.validUntil
          BY <1>2, <3>2, <4>2, <4>4 DEF MempoolInv
        <5>2. pathTime \in Nat /\ l.validUntil \in Int
          BY <1>2, TimeTyped DEF MempoolInv
        <5>3. QED  BY <4>1, <4>2, <5>1, <5>2
      <4>5. QED  BY <4>3, <4>4
    <3>3. QED  BY <1>5, <2>4, <3>1, <3>2
  <2>5. QED  BY <1>1, <2>3, <2>4 DEF SpentInv, NonceAtAuction
<1>15. FundsInv'
  <2>1. \A j \in J : legs[j] \in liveIntents
    BY <1>3, <1>5, <1>6, <1>7, <1>9 DEF liveIntents
  <2> HIDE DEF legs
  <2>2. QED  BY <1>1, <1>2, <1>5, <1>7, <1>9, <2>1, FundsTaken
<1>16. QED  BY <1>11, <1>12, <1>13, <1>14, <1>15 DEF KeptInv

LEMMA FreezeKeeps ==
  ASSUME PathTypes, BooksInv, KeptInv, NEW x \in PathCrosses, freezeBook(x)
  PROVE  KeptInv'
<1> DEFINE list == books[x]
           J == takes(list)
<1>1. UNCHANGED <<pathCase, pathTime, approved, ownerCode, winners, books, mempool, promises, tries>>
  BY DEF freezeBook
<1>2. PromisesInv /\ MempoolInv /\ WinnersInv /\ CollectedInv /\ BookedInv /\ SpentInv /\ FundsInv /\ FailedInv
  BY DEF KeptInv
<1>3. /\ pathTime < x /\ <<"auction", x>> \notin collected /\ list # <<>> /\ collected' = collected \cup {<<"auction", x>>}
      /\ held' = held - placed(list, J) /\ usedNonces' = usedNonces \cup {list[j].nonce : j \in J}
      /\ failed' = failed \cup {Kept("auction", list[k].try) : k \in DOMAIN list \ J}
  BY DEF freezeBook, take, placed
<1>4. list \in Seq(Commitments)
  BY DEF BooksInv
<1>5. DOMAIN list = 1..Len(list) /\ Len(list) \in Nat /\ 1 \in DOMAIN list
  <2>1. DOMAIN list = 1..Len(list) /\ Len(list) \in Nat /\ Len(list) # 0
    BY <1>3, <1>4
  <2>2. QED  BY <2>1
<1>6. Listed(list, "auction")
  BY <1>2 DEF Listed, BookedInv
<1>7. \A j \in DOMAIN list : \E q \in promises : Backs(q, "auction", list[j])
  BY <1>6 DEF Listed
<1>8. AuctionPromised /\ \A j \in DOMAIN list : NonceAtAuction(list[j].nonce)
  BY <1>5, <1>7 DEF AuctionPromised, NonceAtAuction, Backs
<1>9. ASSUME NEW k \in DOMAIN list \ J
      PROVE  Kept("auction", list[k].try) \in promises /\ SharedWithAuction(Kept("auction", list[k].try))
  BY <1>2, <1>3, <1>9, MissedOfBook
<1>10. \A y \in PathCrosses : \A k \in DOMAIN list, l \in DOMAIN books[y] : list[k].try = books[y][l].try => y = x
  BY <1>2 DEF BookedInv
<1> HIDE DEF list, J
<1>11. /\ J \subseteq DOMAIN list /\ IsFiniteSet(J) /\ placed(list, J) <= held /\ placed(list, J) \in Nat
       /\ \A j \in J : list[j].nonce \notin usedNonces
  <2>1. DOMAIN list \subseteq 1..Len(list)
    BY <1>5
  <2>2. QED  BY <1>2, <1>5, <1>6, <2>1, TakenFits DEF J
<1>12. Tries' = Tries
  BY <1>1 DEF Tries
<1>13. PromisesInv' /\ MempoolInv' /\ WinnersInv' /\ BookedInv'
  BY <1>1, <1>2, <1>12 DEF PromisesInv, MempoolInv, WinnersInv, BookedInv, is, Backs, pathSolveEnd
<1>14. CollectedInv'
  BY <1>1, <1>2, <1>3 DEF CollectedInv, pathSolveEnd
<1>15. FailedInv'
  <2>1. ASSUME NEW p \in failed' PROVE p \in promises' /\ (SharedWithAuction(p)' \/ Late(p))
    <3>1. p \in promises /\ (SharedWithAuction(p) \/ Late(p))
      BY <1>2, <1>3, <1>9 DEF FailedInv
    <3>2. QED  BY <1>1, <1>2, <1>13, <3>1, SharedGrows
  <2>2. QED  BY <2>1 DEF FailedInv, Late
<1>16. SpentInv'
  <2>1. \A q \in promises : Waits(q)' => Waits(q)
    BY <1>1, <1>3 DEF Waits
  <2>2. ASSUME NEW j \in J PROVE \E q \in promises : q.nonce = list[j].nonce /\ ~Waits(q)'
    <3>1. PICK q \in promises : Backs(q, "auction", list[j])
      BY <1>7, <1>11
    <3>2. ASSUME Waits(q)' PROVE FALSE
      <4>1. PICK y \in PathCrosses : <<"auction", y>> \notin collected' /\ \E k \in DOMAIN books[y] : books[y][k].try = q.try
        BY <1>1, <3>2 DEF Waits
      <4>2. y = x
        BY <1>10, <1>11, <3>1, <4>1 DEF Backs
      <4>3. QED  BY <1>3, <4>1, <4>2
    <3>3. QED  BY <3>1, <3>2 DEF Backs
  <2>3. ASSUME NEW m \in usedNonces' PROVE \E q \in promises : q.nonce = m /\ ~Waits(q)'
    <3>1. CASE m \in usedNonces
      BY <1>2, <2>1, <3>1 DEF SpentInv
    <3>2. CASE \E j \in J : m = list[j].nonce
      BY <2>2, <3>2
    <3>3. QED  BY <1>3, <3>1, <3>2
  <2>4. \A i \in mempool :
          i.nonce \in usedNonces' => NonceAtAuction(i.nonce) \/ pathTime > i.validUntil \/ <<"batch", i.batch>> \in collected'
    BY <1>2, <1>3, <1>8, <1>11 DEF SpentInv
  <2>5. QED  BY <1>1, <2>3, <2>4 DEF SpentInv, NonceAtAuction
<1>17. FundsInv'
  <2>1. held' \in 0..PathBalance /\ held' + placed(list, J) >= held
    <3>1. held \in 0..PathBalance /\ PathBalance \in Nat
      BY <1>2, PathFacts DEF FundsInv
    <3>2. QED  BY <1>3, <1>11, <3>1
  <2>2. QED  BY <1>1, <1>2, <1>3, <1>6, <1>8, <1>11, <2>1, FundsTaken
<1>18. QED  BY <1>13, <1>14, <1>15, <1>16, <1>17 DEF KeptInv

LEMMA KeptStart == PathInit => KeptInv
<1> SUFFICES ASSUME PathInit PROVE KeptInv
  OBVIOUS
<1>1. /\ pathTime = 0 /\ held = PathBalance /\ approved \in {0, Unlimited} /\ usedNonces = {} /\ ownerCode = "none"
      /\ winners = [b \in PathWindows |-> {}] /\ books = [x \in PathCrosses |-> <<>>] /\ collected = {} /\ mempool = {}
      /\ promises = {} /\ failed = {}
  BY DEF PathInit
<1>2. IsFiniteSet({}) /\ PathBalance \in Nat
  BY FS_EmptySet, PathFacts
<1>3. PromisesInv /\ MempoolInv /\ WinnersInv /\ CollectedInv
  BY <1>1, <1>2 DEF PromisesInv, MempoolInv, WinnersInv, CollectedInv
<1>4. BookedInv /\ SpentInv /\ FailedInv
  BY <1>1 DEF BookedInv, SpentInv, FailedInv
<1>5. spentPromises = {} /\ liveIntents = {}
  BY <1>1 DEF spentPromises, liveIntents
<1>6. pledged({}) = 0
  BY SumEmpty DEF pledged
<1>7. held \in 0..PathBalance /\ PathBalance <= held + 0 /\ 0 <= held
  BY <1>1, <1>2
<1>8. FundsInv
  BY <1>1, <1>5, <1>6, <1>7 DEF FundsInv
<1>9. QED  BY <1>3, <1>4, <1>8 DEF KeptInv

LEMMA KeptStep ==
  ASSUME PathTypes, TriesInv, BooksInv, KeptInv, PathNext, ~ownerActed'
  PROVE  KeptInv'
<1>1. TriesStay /\ pathCase' = pathCase /\ pathTime \in Nat
  BY TriesAlwaysStay, HistoryStays, TimeTyped
<1>2. ASSUME NEW t \in Tries, TryStep(t) PROVE KeptInv'
  <2>1. CASE post(t)
    BY <1>1, <2>1, PostKeeps
  <2>2. CASE landCommitment(t)
    BY <1>1, <2>2, CommitKeeps
  <2>3. CASE ~post(t) /\ ~landCommitment(t)
    <3>1. UNCHANGED moneyVars /\ pathTime' = pathTime /\ approved' \in {approved, Unlimited}
      BY <1>2, <2>3 DEF TryStep, guard, askCurrentBatch, askNextNonce, sign, reject, reply, simulateCommit, sendTransaction,
              receiptMissing, landApproval, recheckAllowance, ownerSide, historySide, moneyVars
    <3>2. pathTime' \in Nat /\ pathTime' >= pathTime
      BY <1>1, <3>1
    <3>3. QED  BY <1>1, <3>1, <3>2, SteadyKeeps
  <2>4. QED  BY <2>1, <2>2, <2>3
<1>3. CASE Pressing
  <2>1. UNCHANGED moneyVars /\ pathTime' = pathTime /\ approved' = approved
    BY <1>3 DEF Pressing, pressSign, pressApprove, pressCommit, ownerSide, historySide, moneyVars
  <2>2. pathTime' \in Nat /\ pathTime' >= pathTime
    BY <1>1, <2>1
  <2>3. QED  BY <1>1, <2>1, <2>2, SteadyKeeps
<1>4. CASE Around
  <2>1. CASE (\E a \in 1..PathBalance : typeAmount(a)) \/ readAccount \/ WalletMoves \/ PathSecond
    <3>1. UNCHANGED moneyVars /\ pathTime' \in {pathTime, pathTime + 1} /\ approved' = approved
      BY <2>1 DEF typeAmount, readAccount, WalletMoves, PathSecond, ownerSide, historySide, moneyVars
    <3>2. pathTime' \in Nat /\ pathTime' >= pathTime
      BY <1>1, <3>1
    <3>3. QED  BY <1>1, <3>1, <3>2, SteadyKeeps
  <2>2. ASSUME NEW b \in PathWindows, submitSolution(b) \/ finalizeBatch(b) PROVE KeptInv'
    BY <2>2, SubmitKeeps, FinalizeKeeps
  <2>3. ASSUME NEW x \in PathCrosses, freezeBook(x) PROVE KeptInv'
    BY <2>3, FreezeKeeps
  <2>4. CASE OwnerActs
    BY <2>4 DEF OwnerActs
  <2>5. QED  BY <1>4, <2>1, <2>2, <2>3, <2>4 DEF Around
<1>5. QED  BY <1>2, <1>3, <1>4 DEF PathNext, Around

\* What solvers may take, and what failed.
LEMMA KeptHolds ==
  ASSUME PathTypes, ownerActed \/ KeptInv
  PROVE  PromisesKept
<1>1. CASE ownerActed
  BY <1>1 DEF PromisesKept
<1>2. CASE ~ownerActed
  <2>1. PromisesInv /\ MempoolInv /\ WinnersInv /\ CollectedInv /\ BookedInv /\ SpentInv /\ FundsInv /\ FailedInv
    BY <1>2 DEF KeptInv
  <2>2. ASSUME NEW i \in mempool, i.batch < pathTime, pathTime <= pathSolveEnd(i.batch)
        PROVE  SharedWithAuction(Kept("batch", i.try)) \/ i \in collectableNow(i.batch)
    <3> DEFINE b == i.batch
               S == {j \in mempool : j.batch = b /\ j.validUntil > pathSolveEnd(b)}
    <3>1. /\ b \in PathWindows /\ pathSolveEnd(b) \in Int /\ i.validUntil \in Int /\ pathSolveEnd(b) < i.validUntil
          /\ pathTime \in Nat
      BY <2>1, TimeTyped, PathFacts DEF MempoolInv, pathSolveEnd
    <3>2. i \in S /\ S \subseteq mempool /\ \A j \in S : j.batch = b
      BY <3>1
    <3>3. usable(b) = byTry(S)
      BY DEF usable
    <3>4. <<"batch", b>> \notin collected
      BY <2>1, <2>2, <3>1 DEF CollectedInv
    <3>5. ~(pathTime > i.validUntil)
      BY <2>2, <3>1
    <3> HIDE DEF S
    <3>6. CASE i.try \in takes(byTry(S))
      <4>1. byTry(S)[i.try] = i
        BY <2>1, <3>2, ListOfBatch
      <4>2. QED  BY <3>3, <3>6, <4>1 DEF collectableNow
    <3>7. CASE i.try \notin takes(byTry(S))
      BY <2>1, <2>2, <3>1, <3>2, <3>4, <3>5, <3>7, MissedOfBatch
    <3>8. QED  BY <3>6, <3>7
  <2>3. QED  BY <2>1, <2>2 DEF PromisesKept, FailedInv, Late
<1>3. QED  BY <1>1, <1>2

KeptUnlessActed == ownerActed \/ KeptInv

LEMMA KeptAlways == CardsInv /\ KeptUnlessActed /\ [PathNext]_pathVars => KeptUnlessActed'
<1> SUFFICES ASSUME CardsInv, KeptUnlessActed, [PathNext]_pathVars PROVE KeptUnlessActed'
  OBVIOUS
<1>1. PathTypes /\ TriesInv /\ BooksInv
  BY DEF CardsInv
<1>2. CASE PathNext
  <2>1. ownerActed => ownerActed'
    BY <1>2, HistoryStays
  <2>2. QED  BY <1>1, <1>2, <2>1, KeptStep DEF KeptUnlessActed
<1>3. CASE UNCHANGED pathVars
  <2>1. /\ UNCHANGED <<pathCase, pathTime, approved, tries, ownerActed, held, usedNonces, ownerCode, winners, books, collected,
                       mempool, promises, failed>>
    BY <1>3 DEF pathVars, ownerSide, historySide
  <2>2. TriesStay /\ UNCHANGED moneyVars /\ approved' \in {approved, Unlimited} /\ pathTime' \in Nat /\ pathTime' >= pathTime
    BY <1>1, <2>1, TimeTyped DEF TriesStay, Tries, moneyVars, NotPressed
  <2>3. QED  BY <1>1, <2>1, <2>2, SteadyKeeps DEF KeptUnlessActed
<1>4. QED  BY <1>2, <1>3

\* What the coordinator admits can be collected, and a collection fails only by the
\* owner's own doing: PromisesKept, for any number of presses, windows, crosses
\* and amounts.
THEOREM PromisesAlwaysKept == PathInit /\ [][PathNext]_pathVars => []PromisesKept
<1>1. PathInit => CardsInv /\ KeptUnlessActed
  BY CardsStart, KeptStart DEF KeptUnlessActed
<1>2. CardsInv /\ KeptUnlessActed /\ [PathNext]_pathVars => (CardsInv /\ KeptUnlessActed)'
  BY CardsKept, KeptAlways
<1>3. CardsInv /\ KeptUnlessActed => PromisesKept
  BY KeptHolds DEF CardsInv, KeptUnlessActed
<1>4. QED  BY <1>1, <1>2, <1>3, PTL

=============================================================================
