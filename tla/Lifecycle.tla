----------------------------- MODULE Lifecycle -----------------------------
(***************************************************************************)
(* What the coordinator's stream announces: the batch lifecycle            *)
(* (api/src/lifecycle.ts) and the contracts' own logs (announce.ts).       *)
(*                                                                         *)
(* A poll sees a head and drives a tick; a tick is a chain of reads, any   *)
(* of which may take as long as it likes or fail, and polls go on          *)
(* meanwhile.  tickStage names what the tick waits for:                    *)
(*                                                                         *)
(*   stamp (a fork) -> current -> session -> protective -> oracle -> end   *)
(*                                                                         *)
(* and next to it runs the announcer, announcing: logs -> receipts -> off. *)
(* A block carries one second, so its number is its time.  A batch is      *)
(* known by the second at which it stops collecting, and one token stands  *)
(* for all of which the topics tell.                                       *)
(***************************************************************************)
EXTENDS Lists, FiniteSetsExt

CONSTANTS
  BatchSeconds,          \* batchDuration
  NoBatchAt,             \* seconds of a guard band or an auction phase
  KeptSeconds,           \* from collectEnd to solveEnd + FINALIZE_DEADLINE
  MaxTrackedBatches,     \* MAX_TRACKED
  LogRange,              \* logBlockRange
  MaxLogChunks,          \* MAX_LOG_CHUNKS_PER_TICK
  ReceiptWait,           \* RECEIPT_WAIT_SECONDS
  TopicAt,               \* what a read of a topic answers at each second
  LifecycleHorizon,      \* bound: a second past the last of every case
  LifecycleCases         \* bound: a kind of node, the parts that act and the last
                         \* second told apart; later heads look like it

Topics == <<"session", "protective", "oracle">>
LifecycleParts == {"failing reads", "failing logs", "revert", "logs"}

ASSUME LifecycleAssumption ==
  /\ {BatchSeconds, KeptSeconds, MaxTrackedBatches, LogRange, MaxLogChunks, ReceiptWait, LifecycleHorizon} \subseteq Nat
  /\ BatchSeconds # 0
  /\ LifecycleCases \subseteq {"fork", "chain"} \X (SUBSET LifecycleParts) \X (1..LifecycleHorizon)

VARIABLES
  lifecycleCase,
  headTime, finishLog,   \* the chain: its head, and the block of each batch's BatchSettled
  hasReceipt,            \* batches the indexer has
  polledHead, queuedHead,
  tickStage, tickTime, lastTickTime,
  openBatch, trackedBatches, latestClose,   \* state.current, tracked, closedAt
  knownTopics,           \* session, tokenSessions, healthy
  announcing, logCursor, logChunks, waitingReceipts,
  frames,                \* history: opened and closed frames since chain time last went back
  turnedFrom,            \* history: the reading held before the present one of each topic
  toldTopics,            \* history: what was announced since the present reading is held
  toldOutcomes,          \* history: batch.settled or batch.failed frames per batch
  gaveUp

chainSide == <<headTime, finishLog, hasReceipt>>
schedule == <<polledHead, queuedHead, tickStage, tickTime, lastTickTime>>
batchState == <<openBatch, trackedBatches, latestClose, frames>>
topicState == <<knownTopics, turnedFrom, toldTopics>>
announcer == <<announcing, logCursor, logChunks, waitingReceipts, toldOutcomes, gaveUp>>
lifecycleVars == <<lifecycleCase, chainSide, schedule, batchState, topicState, announcer>>

None == -1
LifecycleBatches == {b \in 1..LifecycleHorizon : b % BatchSeconds = 0}
PartIn(part) == part \in lifecycleCase[2]
onFork == lifecycleCase[1] = "fork"
lastSecond == lifecycleCase[3]
Unknown == [k \in 1..Len(Topics) |-> None]

\* The answers of refPrice; it reverts for a token without a price.
Healthy == 0
Unhealthy == 1
NoAnswer == -2

LifecycleInit ==
  /\ lifecycleCase \in LifecycleCases
  /\ headTime = 0 /\ finishLog = [b \in LifecycleBatches |-> None] /\ hasReceipt = {}
  /\ polledHead = None /\ queuedHead = None
  /\ tickStage = "idle" /\ tickTime = 0 /\ lastTickTime = None
  /\ openBatch = None /\ trackedBatches = <<>> /\ latestClose = None /\ frames = <<>>
  /\ knownTopics = Unknown /\ turnedFrom = Unknown /\ toldTopics = Unknown
  /\ announcing = "off" /\ logCursor = None /\ logChunks = 0 /\ waitingReceipts = {}
  /\ toldOutcomes = [b \in LifecycleBatches |-> 0] /\ gaveUp = {}

---------------------------------------------------------------------------
(* The chain and the indexer.  A fork may be put back to an earlier block. *)

Mined ==
  /\ headTime < lastSecond /\ headTime' = headTime + 1
  /\ \/ UNCHANGED finishLog
     \/ \E b \in LifecycleBatches :
          /\ PartIn("logs") /\ b < headTime /\ finishLog[b] = None
          /\ finishLog' = [finishLog EXCEPT ![b] = headTime + 1]
  /\ UNCHANGED <<lifecycleCase, hasReceipt, schedule, batchState, topicState, announcer>>

Reverted ==
  /\ onFork /\ PartIn("revert") /\ headTime = lastSecond - 1
  /\ \E h \in 1..(headTime - 1) :
       /\ headTime' = h
       /\ finishLog' = [b \in LifecycleBatches |-> IF finishLog[b] > h THEN None ELSE finishLog[b]]
       /\ hasReceipt' = {b \in hasReceipt : finishLog[b] <= h}
  /\ UNCHANGED <<lifecycleCase, schedule, batchState, topicState, announcer>>

Indexed(b) ==
  /\ PartIn("logs") /\ finishLog[b] # None /\ b \notin hasReceipt
  /\ hasReceipt' = hasReceipt \cup {b}
  /\ UNCHANGED <<lifecycleCase, headTime, finishLog, schedule, batchState, topicState, announcer>>

\* buildCurrentBatch: at the second a batch stops collecting openWindow already
\* names its successor.
namedAt(T) == IF T \in NoBatchAt THEN None ELSE (T \div BatchSeconds + 1) * BatchSeconds

---------------------------------------------------------------------------
(* Closing.  trackedBatches is the Map in its order: <<batch, whether it   *)
(* collects or is closed>>.                                                *)

isOverAt(T, t) == T > t[1]
isDueAt(T, t) == t[2] = "collects" /\ isOverAt(T, t)
keptAt(T, seq) == inOrder(seq, {k \in DOMAIN seq : T <= seq[k][1] + KeptSeconds})
closedAt(T, seq) == [k \in DOMAIN seq |-> IF isOverAt(T, seq[k]) THEN <<seq[k][1], "closed">> ELSE seq[k]]
closedFrames(T, seq) ==
  LET due == inOrder(seq, {k \in DOMAIN seq : isDueAt(T, seq[k])})
  IN  [k \in DOMAIN due |-> <<"closed", due[k][1], T>>]

\* Mutant: a batch past its deadline is dropped before it is closed.
closeDueDropped(T, seq) ==
  /\ trackedBatches' = closedAt(T, keptAt(T, seq))
  /\ latestClose' = IF closedFrames(T, keptAt(T, seq)) # <<>> /\ T > latestClose THEN T ELSE latestClose
  /\ frames' = frames \o closedFrames(T, keptAt(T, seq))

closeDue(T, seq) ==
  /\ trackedBatches' = closedAt(T, keptAt(T, seq))
  /\ latestClose' = IF closedFrames(T, seq) # <<>> /\ T > latestClose THEN T ELSE latestClose
  /\ frames' = frames \o closedFrames(T, seq)

\* Everything belongs to a history the chain no longer has.
startOver(T) ==
  /\ trackedBatches' = <<>> /\ latestClose' = None /\ frames' = <<>> /\ openBatch' = None
  /\ knownTopics' = Unknown /\ turnedFrom' = Unknown /\ toldTopics' = Unknown
  /\ logCursor' = None /\ waitingReceipts' = {}
  /\ toldOutcomes' = [b \in LifecycleBatches |-> 0] /\ gaveUp' = {}

\* tickOnce up to its first read.
begins(T) ==
  /\ tickTime' = T /\ lastTickTime' = T /\ tickStage' = "current" /\ announcing' = "logs" /\ logChunks' = 0
  /\ IF lastTickTime # None /\ T < lastTickTime
       THEN startOver(T)
       ELSE /\ closeDue(T, trackedBatches)
            /\ UNCHANGED <<openBatch, topicState, logCursor, waitingReceipts, toldOutcomes, gaveUp>>

\* tickOnce on a fork starts by reading the block the poll only numbered.
starts(T) ==
  IF onFork
    THEN /\ tickTime' = T /\ tickStage' = "stamp"
         /\ UNCHANGED <<lastTickTime, batchState, topicState, announcer>>
    ELSE begins(T)

\* poll and drive: a tick, or the head is left for the one that runs.  On a
\* chain the poll knows the time and closes what is due at once.
poll ==
  /\ headTime # polledHead \/ headTime = lastSecond
  /\ polledHead' = headTime
  /\ IF tickStage = "idle"
       THEN starts(headTime) /\ UNCHANGED queuedHead
       ELSE /\ queuedHead' = headTime
            /\ IF ~onFork /\ lastTickTime # None /\ headTime >= lastTickTime
                 THEN closeDue(headTime, trackedBatches) /\ UNCHANGED openBatch
                 ELSE UNCHANGED batchState
            /\ UNCHANGED <<tickStage, tickTime, lastTickTime, topicState, announcer>>
  /\ UNCHANGED <<lifecycleCase, chainSide>>

\* The block a fork was asked for may be gone.
readStamp ==
  /\ tickStage = "stamp"
  /\ \/ tickTime <= headTime /\ begins(tickTime)
     \/ /\ tickTime > headTime \/ PartIn("failing reads")
        /\ tickStage' = "end" /\ UNCHANGED <<tickTime, lastTickTime, batchState, topicState, announcer>>
  /\ UNCHANGED <<lifecycleCase, chainSide, polledHead, queuedHead>>

ReadFails == /\ PartIn("failing reads") /\ tickStage' = "end"
             /\ UNCHANGED <<batchState, topicState>>

\* Mutant: the open does not wait for the close of the batch before it.
openNowEager(id) == id # openBatch
\* No open while an older batch is still to be closed.
openNow(id) ==
  id # openBatch /\ ~\E k \in DOMAIN trackedBatches : trackedBatches[k][2] = "collects" /\ trackedBatches[k][1] < id

\* Closed batches leave, oldest first, until the cap holds.
evict(seq) ==
  LET over    == Len(seq) - MaxTrackedBatches
      closed  == {k \in DOMAIN seq : seq[k][2] = "closed"}
      leaving == {k \in closed : Cardinality({i \in closed : i <= k}) <= over}
  IN  inOrder(seq, DOMAIN seq \ leaving)

readCurrent ==
  /\ tickStage = "current"
  /\ \/ ReadFails
     \/ LET id == namedAt(tickTime)
            at == IF latestClose > tickTime THEN latestClose ELSE tickTime
        IN  /\ tickStage' = "session"
            /\ IF id # None /\ openNow(id)
                 THEN /\ openBatch' = id
                      /\ trackedBatches' = evict(Append(trackedBatches, <<id, "collects">>))
                      /\ frames' = Append(frames, <<"opened", id, at>>)
                 ELSE /\ trackedBatches' = evict(trackedBatches)
                      /\ UNCHANGED <<openBatch, frames>>
            /\ UNCHANGED <<latestClose, topicState>>
  /\ UNCHANGED <<lifecycleCase, chainSide, polledHead, queuedHead, tickTime, lastTickTime, announcer>>

---------------------------------------------------------------------------
(* The topics after the open.  A change is announced, then remembered; the *)
(* announcement of a session or an unhealthy price needs a read of its     *)
(* own.  The first reading is announced by nobody, the last topic only     *)
(* tells of a turn from healthy to unhealthy, and a price that could not   *)
(* be read is forgotten.                                                   *)

TopicNo(stage) == CHOOSE k \in 1..Len(Topics) : Topics[k] = stage
NextStage(k) == IF k = Len(Topics) THEN "end" ELSE Topics[k + 1]

tellsOf(k, value) ==
  /\ knownTopics[k] # None /\ knownTopics[k] # value
  /\ Topics[k] = "oracle" => knownTopics[k] = Healthy /\ value = Unhealthy

remembered(k, value) ==
  /\ knownTopics' = [knownTopics EXCEPT ![k] = value]
  /\ IF value = knownTopics[k]
       THEN UNCHANGED <<turnedFrom, toldTopics>>
       ELSE /\ turnedFrom' = [turnedFrom EXCEPT ![k] = knownTopics[k]]
            /\ toldTopics' = [toldTopics EXCEPT ![k] = IF tellsOf(k, value) THEN value ELSE None]

\* The read for the frame fails, of an unhealthy price perhaps only that of a
\* token after this one, whose frame is out by then and is sent again.
frameFailed(k, value) ==
  /\ UNCHANGED <<knownTopics, turnedFrom>>
  /\ \/ UNCHANGED toldTopics
     \/ Topics[k] = "oracle" /\ toldTopics' = [toldTopics EXCEPT ![k] = value]

readTopic ==
  /\ tickStage \in {Topics[k] : k \in 1..Len(Topics)}
  /\ LET k == TopicNo(tickStage)
         value == TopicAt[k][tickTime]
     IN  \/ ReadFails
         \/ /\ tellsOf(k, value) /\ PartIn("failing reads") /\ Topics[k] # "protective"
            /\ tickStage' = "end" /\ frameFailed(k, value) /\ UNCHANGED batchState
         \/ tickStage' = NextStage(k) /\ remembered(k, value) /\ UNCHANGED batchState
  /\ UNCHANGED <<lifecycleCase, chainSide, polledHead, queuedHead, tickTime, lastTickTime, announcer>>

---------------------------------------------------------------------------
(* announce.ts, next to the reads of the tick.                             *)

LogsIn(from, to) == {b \in LifecycleBatches : from <= finishLog[b] /\ finishLog[b] <= to}

AnnouncerAside == UNCHANGED <<lifecycleCase, chainSide, schedule, batchState, topicState>>

\* Mutant: the cursor moves before the logs of the range are announced.
cursorFailedMoved(to) == logCursor' = to + 1
\* The cursor moves only past what was read: a read that fails halfway, with
\* some of the range's batches already waiting, is tried again.
cursorFailed(to) == UNCHANGED logCursor

readLogs ==
  /\ announcing = "logs"
  /\ IF logCursor = None \/ logCursor > tickTime
       THEN logCursor' = tickTime + 1 /\ announcing' = "receipts" /\ UNCHANGED <<logChunks, waitingReceipts>>
       ELSE LET last == logCursor + LogRange - 1
                to   == IF last < tickTime THEN last ELSE tickTime
            IN  \/ /\ waitingReceipts' = waitingReceipts \cup LogsIn(logCursor, to)
                   /\ logCursor' = to + 1 /\ logChunks' = logChunks + 1
                   /\ announcing' = IF to = tickTime \/ logChunks' = MaxLogChunks THEN "receipts" ELSE "logs"
                \/ /\ PartIn("failing logs") /\ announcing' = "off" /\ cursorFailed(to) /\ UNCHANGED logChunks
                   /\ \E heard \in SUBSET LogsIn(logCursor, to) : waitingReceipts' = waitingReceipts \cup heard
  /\ UNCHANGED <<toldOutcomes, gaveUp>> /\ AnnouncerAside

waitedEnough(b) == tickTime > finishLog[b] + ReceiptWait

\* The receipt's outcome is announced, or the wait goes on or is given up.  A
\* database that does not answer looks like a receipt that is not there.
deliverReceipts ==
  /\ announcing = "receipts" /\ announcing' = "off"
  /\ \E unread \in (IF PartIn("failing logs") THEN SUBSET waitingReceipts ELSE {{}}) :
       LET ready == (waitingReceipts \cap hasReceipt) \ unread
           late  == {b \in waitingReceipts \ ready : waitedEnough(b)}
       IN  /\ toldOutcomes' = [b \in LifecycleBatches |-> IF b \in ready THEN toldOutcomes[b] + 1 ELSE toldOutcomes[b]]
           /\ gaveUp' = gaveUp \cup late
           /\ waitingReceipts' = (waitingReceipts \ ready) \ late
  /\ UNCHANGED <<logCursor, logChunks>> /\ AnnouncerAside

\* The announcer is awaited on every path out; then the head left behind, if any.
endTick ==
  /\ tickStage = "end" /\ announcing = "off"
  /\ queuedHead' = None
  /\ IF queuedHead = None
       THEN tickStage' = "idle" /\ UNCHANGED <<tickTime, lastTickTime, batchState, topicState, announcer>>
       ELSE starts(queuedHead)
  /\ UNCHANGED <<lifecycleCase, chainSide, polledHead>>

LifecycleNext ==
  \/ Mined \/ Reverted \/ (\E b \in LifecycleBatches : Indexed(b))
  \/ poll \/ readStamp \/ readCurrent \/ readTopic \/ readLogs \/ deliverReceipts \/ endTick

\* Blocks come and the poll's timer fires.  No read is assumed to come back.
LifecycleFair == WF_lifecycleVars(Mined) /\ WF_lifecycleVars(poll)
LifecycleSpec == LifecycleInit /\ [][LifecycleNext]_lifecycleVars /\ LifecycleFair

---------------------------------------------------------------------------
(* Properties.                                                             *)

Opened(b) == {k \in 1..Len(frames) : frames[k][1] = "opened" /\ frames[k][2] = b}
Closed(b) == {k \in 1..Len(frames) : frames[k][1] = "closed" /\ frames[k][2] = b}

\* A listener hears a batch end before the next begins, each once, and
\* no frame about a batch carries an earlier time than one sent before it
\* (closeDue and the open of afterClose, polls and ticks interleaved).
BatchesHeardInOrder ==
  /\ \A b \in LifecycleBatches : Cardinality(Opened(b)) <= 1 /\ Cardinality(Closed(b)) <= 1
  /\ \A k \in 1..Len(frames) : frames[k][1] = "closed" => \E i \in 1..(k - 1) : i \in Opened(frames[k][2])
  /\ \A k \in 1..Len(frames) : frames[k][1] = "opened" =>
       \A i \in 1..(k - 1) : /\ frames[i][2] < frames[k][2] \/ frames[i][1] = "closed"
                             /\ frames[i][1] = "opened" => \E c \in Closed(frames[i][2]) : c < k
  /\ \A i, k \in 1..Len(frames) : i < k => frames[i][3] <= frames[k][3]

\* A listener who has the first reading of the session and of protection and
\* every frame since knows what the lifecycle holds, and a price that is held
\* unhealthy after a healthy one was told: a read failing between the change and
\* its frame swallows nothing.  Nothing is told of a price whose reading before
\* was missing or which was unhealthy at the first (afterClose).
TopicsUpToDate ==
  \A k \in 1..Len(Topics) :
    IF Topics[k] = "oracle"
      THEN turnedFrom[k] = Healthy /\ knownTopics[k] = Unhealthy => toldTopics[k] = Unhealthy
      ELSE IF turnedFrom[k] = None THEN toldTopics[k] = None ELSE toldTopics[k] = knownTopics[k]

\* What a listener of the stream has heard is the chain's story: batches in
\* order, and the turns of every topic.
ListenersUpToDate == BatchesHeardInOrder /\ TopicsUpToDate

\* A finished batch is announced once, or given up after the wait.
OutcomesOnce ==
  \A b \in LifecycleBatches :
    /\ toldOutcomes[b] <= 1
    /\ toldOutcomes[b] = 1 => b \notin waitingReceipts
    /\ b \in gaveUp /\ finishLog[b] # None => lastTickTime > finishLog[b] + ReceiptWait

\* A log the cursor has passed was heard.
RangesHeard ==
  [][logCursor # None /\ logCursor' > logCursor /\ tickTime' = tickTime
       => LogsIn(logCursor, logCursor' - 1) \subseteq waitingReceipts' \cup waitingReceipts]_lifecycleVars

\* Every finished batch the announcer's cursor has passed is announced once or
\* given up after the wait, none skipped and none told twice, although steps
\* fail halfway and are retried (step, announce, deliverReceipts).
OutcomesAccounted == []OutcomesOnce /\ RangesHeard

\* On a chain every batch that was opened is closed, even if every read of the
\* tick hangs for ever: the poll closes it.
OpenedAreClosed ==
  []<>(~onFork => \A b \in LifecycleBatches : b < lastSecond /\ Opened(b) # {} => Closed(b) # {})
===========================================================================
