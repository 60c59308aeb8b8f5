------------------------------ MODULE Indexer ------------------------------
(***************************************************************************)
(* The indexer: the ingest step (indexer/src/ingest.ts), its Postgres      *)
(* store (store.ts), the rows a log becomes (project.ts), the baselines    *)
(* read after a commit (baseline.ts), the process around them (index.ts)   *)
(* and the reconciliation with the chain (reconcile.ts).                   *)
(*                                                                         *)
(* The chain is a sequence of blocks, each known by its hash, and their     *)
(* logs.  It may be rewritten from a height on, and a step reads it several *)
(* times:                                                                  *)
(*                                                                         *)
(*   boot -> check -> logs -> blocks -> baselines -> caught -> wait ...    *)
(*                                                                         *)
(* One database transaction is one step of the model: it lands or not.     *)
(***************************************************************************)
EXTENDS Integers, Sequences, FiniteSets, FiniteSetsExt, Functions, Lists

CONSTANTS
  DeployedAt,         \* the first block where Settlement has code
  MaxRange,           \* MAX_RANGE
  MaxRewind,          \* MAX_REWIND
  IndexHorizon,       \* bound: the height a chain reaches
  IndexCases          \* bound: [fork, confirmations, txs, reorgs, faults, height]

ASSUME IndexerAssumption ==
  /\ {MaxRange, MaxRewind} \subseteq Nat \ {0} /\ IndexHorizon \in Nat
  /\ DeployedAt \in 2..IndexHorizon
  /\ \A c \in IndexCases : c.confirmations \in Nat /\ c.fork \in BOOLEAN /\ c.height \in DeployedAt..IndexHorizon

VARIABLES
  indexCase,
  chainBlocks,        \* the hash at each height
  chainLogs,          \* the logs of those blocks, in their order
  nextHash, reorgsLeft, faultsLeft,
  store,              \* the tables and indexer_state
  indexStage, rangeFrom, rangeTo, rangeLogs, recentReset

indexerVars == <<indexCase, chainBlocks, chainLogs, nextHash, reorgsLeft, faultsLeft,
                 store, indexStage, rangeFrom, rangeTo, rangeLogs, recentReset>>
theChain == <<indexCase, chainBlocks, chainLogs, nextHash, reorgsLeft>>
theRange == <<rangeFrom, rangeTo, rangeLogs>>

NoRow == [outcome |-> "none", solver |-> "none", block |-> 0, reason |-> "none"]
NoTables == [batch |-> NoRow, auction |-> "none", solutions |-> <<>>]
NoCheckpoint == [lastBlock |-> 0, lastHash |-> 0]

IndexerInit ==
  /\ indexCase \in IndexCases
  /\ chainBlocks = [n \in 1..DeployedAt |-> n] /\ chainLogs = <<>> /\ nextHash = DeployedAt + 1
  /\ reorgsLeft = indexCase.reorgs /\ faultsLeft = indexCase.faults
  /\ store = [state |-> NoCheckpoint, logs |-> <<>>, tables |-> NoTables,
              blocks |-> {}, winning |-> {}, quotes |-> {}]
  /\ indexStage = "boot" /\ rangeFrom = 0 /\ rangeTo = 0 /\ rangeLogs = <<>> /\ recentReset = FALSE

---------------------------------------------------------------------------
(* What a read of the chain and of the checkpoint finds.                   *)

HashAt(n) == IF n \in DOMAIN chainBlocks THEN chainBlocks[n] ELSE 0

\* The binary search on eth_getCode.
codeSearch[range \in (0..IndexHorizon) \X (0..IndexHorizon)] ==
  LET lo  == range[1]
      hi  == range[2]
      mid == (lo + hi) \div 2
  IN  IF lo >= hi THEN lo
      ELSE IF mid >= DeployedAt THEN codeSearch[<<lo, mid>>] ELSE codeSearch[<<mid + 1, hi>>]
firstBlockWithCode == codeSearch[<<0, Len(chainBlocks)>>]

initial == [lastBlock |-> firstBlockWithCode - 1, lastHash |-> HashAt(firstBlockWithCode - 1)]
checkpoint == IF store.state = NoCheckpoint THEN initial ELSE store.state

---------------------------------------------------------------------------
(* The chain: one batch, one auction, at most one transaction in a block.  *)

upTo(logs, height) == inOrder(logs, {k \in DOMAIN logs : logs[k].block <= height})
mined == {l.tx : l \in Range(chainLogs)}
leads(logs) == {k \in DOMAIN logs : logs[k].event = "submitted" /\ logs[k].good}
BestOf(logs) == IF leads(logs) = {} THEN "none" ELSE logs[Max(leads(logs))].solver

Log(tx, event, solver, good, height) ==
  [tx |-> tx, event |-> event, solver |-> solver, good |-> good, block |-> height, hash |-> nextHash]

\* The transactions that close the batch: a finalize that settles, with or without
\* the note that it saved too little, one that could not collect and unwinds, and
\* expireBatch.
Closers == {"finalize", "below threshold", "unwind", "expire"}

\* What a transaction logs at this place of the chain; <<>> when it reverts.
LogsMined(tx, height) ==
  LET best   == BestOf(chainLogs)
      closed == mined \cap Closers # {}
      L(event, solver, good) == Log(tx, event, solver, good, height)
  IN  CASE tx = "submit A" /\ ~closed -> <<L("submitted", "A", best = "none")>> \o
                                         (IF best = "none" THEN <<>> ELSE <<L("rejected", "A", FALSE)>>)
        [] tx = "submit B" /\ ~closed -> <<L("submitted", "B", TRUE)>>
        [] tx = "finalize" /\ best # "none" /\ ~closed -> <<L("settled", best, TRUE)>>
        [] tx = "below threshold" /\ best # "none" /\ ~closed ->
             <<L("passthrough", best, TRUE), L("settled", best, TRUE)>>
        [] tx = "unwind" /\ best # "none" /\ ~closed -> <<L("passthrough", best, FALSE)>>
        [] tx = "expire" /\ best # "none" /\ ~closed -> <<L("passthrough", "none", FALSE)>>
        [] tx = "open" -> <<L("opened", "none", TRUE)>>
        [] tx = "cross" /\ "open" \in mined -> <<L("crossed", "none", TRUE)>>
        [] OTHER -> <<>>

MineBlock ==
  /\ Len(chainBlocks) < indexCase.height
  /\ \E tx \in (indexCase.txs \ mined) \cup {"none"} :
       /\ tx # "none" => LogsMined(tx, Len(chainBlocks) + 1) # <<>>
       /\ chainLogs' = chainLogs \o LogsMined(tx, Len(chainBlocks) + 1)
  /\ chainBlocks' = Append(chainBlocks, nextHash) /\ nextHash' = nextHash + 1
  /\ UNCHANGED <<indexCase, reorgsLeft, faultsLeft, store, indexStage, theRange, recentReset>>

\* The blocks above keep are thrown away.  Between two reads of a step, what the
\* step already relies on was deep enough to stay: that is what confirmations are
\* for.  Only a range that had a log above may go too.
Reorg ==
  /\ reorgsLeft > 0 /\ Len(chainBlocks) < indexCase.height
  /\ \E keep \in DeployedAt..(Len(chainBlocks) - 1) :
       /\ \/ indexStage \notin {"logs", "blocks"}
          \/ indexStage = "logs" /\ keep >= checkpoint.lastBlock
          \/ indexStage = "blocks" /\ (keep >= rangeTo \/ \E l \in Range(rangeLogs) : l.block > keep)
       /\ chainBlocks' = SubSeq(chainBlocks, 1, keep) /\ chainLogs' = upTo(chainLogs, keep)
  /\ reorgsLeft' = reorgsLeft - 1
  /\ UNCHANGED <<indexCase, nextHash, faultsLeft, store, indexStage, theRange, recentReset>>

---------------------------------------------------------------------------
(* project and the three kinds of write.                                   *)

reasonOf(tx) == CASE tx = "expire" -> "winner never finalized"
                  [] tx = "unwind" -> "intent could not be collected"
                  [] OTHER -> "savings below threshold"

\* The batch's row: settled is an upsert that keeps the reason of the
\* passthrough before it, a passthrough is an insert that leaves a row alone.
batchRow(row, l) ==
  CASE l.event = "settled" -> [outcome |-> "settled", solver |-> l.solver, block |-> l.block,
                               reason |-> row.reason]
    [] l.event = "passthrough" /\ row = NoRow ->
         [outcome |-> IF l.tx = "expire" THEN "expired" ELSE "passthrough", solver |-> "none", block |-> l.block,
          reason |-> reasonOf(l.tx)]
    [] OTHER -> row

\* An auction that was never opened has no row to merge into.
auctionRow(row, l) ==
  CASE l.event = "opened" /\ row = "none" -> "open"
    [] l.event = "crossed" /\ row # "none" -> "crossed"
    [] OTHER -> row

solutionRows(rows, l) ==
  CASE l.event = "submitted" -> Append(rows, [tx |-> l.tx, solver |-> l.solver, accepted |-> TRUE, block |-> l.block])
    [] l.event = "rejected" ->
         [k \in 1..Len(rows) |-> IF rows[k].tx = l.tx /\ rows[k].solver = l.solver
                                 THEN [rows[k] EXCEPT !.accepted = FALSE] ELSE rows[k]]
    [] OTHER -> rows

project(tables, l) ==
  [batch |-> batchRow(tables.batch, l), auction |-> auctionRow(tables.auction, l),
   solutions |-> solutionRows(tables.solutions, l)]
Projected(tables, logs) ==
  LET after[k \in 0..Len(logs)] == IF k = 0 THEN tables ELSE project(after[k - 1], logs[k])
  IN  after[Len(logs)]

\* The winning solution comes from the calldata of a finalize, which settles or
\* unwinds; expireBatch has none.  A first row stays.
closingLog(l) == l.event \in {"settled", "passthrough"} /\ l.tx # "expire"
winningSolutions(rows, logs) ==
  LET closing == {k \in DOMAIN logs : closingLog(logs[k])}
      first   == logs[Min(closing)]
  IN  IF rows = {} /\ closing # {} THEN {[solver |-> first.solver, block |-> first.block]} ELSE rows

---------------------------------------------------------------------------
(* The store.                                                              *)

firstSight(logs, rows) ==
  inOrder(logs, {k \in DOMAIN logs : \A r \in Range(rows) : r.tx # logs[k].tx \/ r.event # logs[k].event})

commit(lastBlock, lastHash, blocks, logs) ==
  LET new == firstSight(logs, store.logs)
      overwritten == {b[1] : b \in blocks}
  IN  [state |-> [lastBlock |-> lastBlock, lastHash |-> lastHash],
       logs |-> store.logs \o new,
       tables |-> Projected(store.tables, new),
       blocks |-> {b \in store.blocks : b[1] \notin overwritten} \cup blocks,
       winning |-> winningSolutions(store.winning, logs),
       quotes |-> store.quotes]

\* Everything above goes, and the domain tables are rebuilt from what remains.
rewindTo(lastBlock, lastHash) ==
  LET logs == upTo(store.logs, lastBlock)
  IN  [state |-> [lastBlock |-> lastBlock, lastHash |-> lastHash], logs |-> logs,
       tables |-> Projected(NoTables, logs),
       blocks |-> {b \in store.blocks : b[1] <= lastBlock},
       winning |-> {w \in store.winning : w.block <= lastBlock},
       quotes |-> {q \in store.quotes : q.closed <= lastBlock}]

---------------------------------------------------------------------------
(* The process.                                                            *)

\* Zero confirmations are for a fork.
confirmationsFor == indexCase.fork \/ indexCase.confirmations > 0
boot ==
  /\ indexStage = "boot"
  /\ indexStage' = IF confirmationsFor THEN "check" ELSE "stopped"
  /\ recentReset' = FALSE
  /\ UNCHANGED <<theChain, faultsLeft, store, theRange>>

\* Any read or database error ends the step; the backoff leads to the next.
StepFails ==
  /\ indexStage \in {"check", "logs", "blocks", "caught"} /\ faultsLeft > 0
  /\ indexStage' = "check" /\ faultsLeft' = faultsLeft - 1
  /\ UNCHANGED <<theChain, store, theRange, recentReset>>

\* The process dies anywhere and is started again.
IndexerCrash ==
  /\ indexStage # "stopped" /\ faultsLeft > 0
  /\ indexStage' = "boot" /\ faultsLeft' = faultsLeft - 1
  /\ UNCHANGED <<theChain, store, theRange, recentReset>>

TenMinutesPass == /\ recentReset /\ recentReset' = FALSE
                  /\ UNCHANGED <<theChain, faultsLeft, store, indexStage, theRange>>

storedBlocks(atOrBelow) ==
  LET below == {b \in store.blocks : b[1] <= atOrBelow}
  IN  {b \in below : Cardinality({x \in below : x[1] > b[1]}) < MaxRewind}

\* The newest stored block the chain still has, or everything once; a second
\* time inside ten minutes stops the process.  The reset is remembered before
\* its own read, which may fail.
rewind(cp) ==
  LET common == {b \in storedBlocks(cp.lastBlock) : HashAt(b[1]) = b[2]}
      newest == CHOOSE b \in common : \A x \in common : x[1] <= b[1]
  IN  IF common # {}
        THEN store' = rewindTo(newest[1], newest[2]) /\ indexStage' = "logs" /\ UNCHANGED <<recentReset, faultsLeft>>
        ELSE IF recentReset
               THEN indexStage' = "stopped" /\ UNCHANGED <<store, recentReset, faultsLeft>>
               ELSE /\ recentReset' = TRUE
                    /\ \/ store' = rewindTo(initial.lastBlock, initial.lastHash) /\ indexStage' = "logs" /\ UNCHANGED faultsLeft
                       \/ faultsLeft > 0 /\ faultsLeft' = faultsLeft - 1 /\ indexStage' = "check" /\ UNCHANGED store

\* step, first part: does the chain still have the checkpoint?
checkChain ==
  /\ indexStage = "check"
  /\ IF HashAt(checkpoint.lastBlock) = checkpoint.lastHash
       THEN indexStage' = "logs" /\ UNCHANGED <<store, recentReset, faultsLeft>>
       ELSE rewind(checkpoint)
  /\ UNCHANGED <<theChain, theRange>>

safeHead == IF Len(chainBlocks) > indexCase.confirmations THEN Len(chainBlocks) - indexCase.confirmations ELSE 0
LogsBetween(from, to) == inOrder(chainLogs, {k \in DOMAIN chainLogs : from <= chainLogs[k].block /\ chainLogs[k].block <= to})

\* step, second part: the range and its logs.
readRange ==
  /\ indexStage = "logs"
  /\ LET last == checkpoint.lastBlock
         to   == IF safeHead < last + MaxRange THEN safeHead ELSE last + MaxRange
     IN  /\ rangeFrom' = last + 1
         /\ IF to < last + 1
              THEN rangeTo' = last /\ rangeLogs' = <<>> /\ indexStage' = "caught"
              ELSE rangeTo' = to /\ rangeLogs' = LogsBetween(last + 1, to) /\ indexStage' = "blocks"
  /\ UNCHANGED <<theChain, faultsLeft, store, recentReset>>

\* Mutant: a log of a history that changed between the two reads is taken.
movedUnseen == HashAt(rangeTo) = 0
\* A block that is gone makes its read fail; one that changed is seen by its hash.
moved == \/ HashAt(rangeTo) = 0
         \/ \E l \in Range(rangeLogs) : HashAt(l.block) # l.hash

\* step, third part: the blocks of the range and the commit.
writeRange ==
  /\ indexStage = "blocks"
  /\ IF moved
       THEN indexStage' = "check" /\ UNCHANGED store
       ELSE /\ store' = commit(rangeTo, HashAt(rangeTo),
                               {<<n, HashAt(n)>> : n \in {rangeTo} \cup {l.block : l \in Range(rangeLogs)}}, rangeLogs)
            /\ indexStage' = IF rangeLogs # <<>> THEN "baselines" ELSE "caught"
  /\ UNCHANGED <<theChain, faultsLeft, theRange, recentReset>>

\* The parent of the block with the winning submission.
baselineBlock == LET mine == {k \in 1..Len(store.tables.solutions) : \E w \in store.winning : w.solver = store.tables.solutions[k].solver}
              IN  (IF mine # {} THEN store.tables.solutions[Min(mine)].block ELSE store.tables.batch.block) - 1

\* After the commit, for a batch settled in the range: the venue's answer at
\* the quote's block, as the node has it now.  A failed read stores nothing.
answered ==
  IF store.tables.batch.outcome = "settled" /\ store.tables.batch.block \in rangeFrom..rangeTo
     /\ HashAt(baselineBlock) # 0 /\ ~\E q \in store.quotes : q.block = baselineBlock
    THEN {[block |-> baselineBlock, answer |-> HashAt(baselineBlock), closed |-> store.tables.batch.block]}
    ELSE {}

recordBaselines ==
  /\ indexStage = "baselines" /\ indexStage' = "caught"
  /\ \/ store' = [store EXCEPT !.quotes = @ \cup answered] /\ UNCHANGED faultsLeft
     \/ faultsLeft > 0 /\ faultsLeft' = faultsLeft - 1 /\ UNCHANGED store
  /\ UNCHANGED <<theChain, theRange, recentReset>>

\* Mutant: the wait is for a head above the last block indexed, plus the depth twice.
waitsForDeep == Len(chainBlocks) > rangeTo + 2 * indexCase.confirmations
\* nextBlock: the head that makes the next block deep enough.
waitsFor == Len(chainBlocks) > rangeTo + indexCase.confirmations

caughtUp ==
  /\ indexStage = "caught"
  /\ indexStage' = IF rangeTo >= safeHead THEN "wait" ELSE "check"
  /\ UNCHANGED <<theChain, faultsLeft, store, theRange, recentReset>>

nextBlock ==
  /\ indexStage = "wait" /\ indexStage' = "check"
  /\ \/ waitsFor /\ UNCHANGED faultsLeft
     \/ faultsLeft > 0 /\ faultsLeft' = faultsLeft - 1
  /\ UNCHANGED <<theChain, store, theRange, recentReset>>

IndexerStep == boot \/ checkChain \/ readRange \/ writeRange \/ recordBaselines \/ caughtUp \/ (waitsFor /\ nextBlock)
IndexerNext ==
  \/ MineBlock \/ Reorg \/ StepFails \/ IndexerCrash \/ TenMinutesPass
  \/ boot \/ checkChain \/ readRange \/ writeRange \/ recordBaselines \/ caughtUp \/ nextBlock

\* The chain goes on and the process is scheduled.
IndexerFair == WF_indexerVars(MineBlock) /\ WF_indexerVars(IndexerStep)
IndexerSpec == IndexerInit /\ [][IndexerNext]_indexerVars /\ IndexerFair

---------------------------------------------------------------------------
(* reconcile.ts: the rows against reads of the contracts at the checkpoint.*)

Agreed == store.state # NoCheckpoint /\ HashAt(store.state.lastBlock) = store.state.lastHash
ChainLogs == upTo(chainLogs, store.state.lastBlock)
finalizedAt == \E l \in Range(ChainLogs) : l.event \in {"settled", "passthrough"}

differences ==
  LET row == store.tables.batch IN
  {c \in {"outcome", "solver", "best", "batches row"} :
     CASE c = "outcome" -> row # NoRow /\ ~finalizedAt
       [] c = "solver"  -> row.outcome = "settled" /\ row.solver # BestOf(ChainLogs)
       [] c = "best"    -> row.outcome \in {"passthrough", "expired"} /\ BestOf(ChainLogs) = "none"
       [] OTHER         -> row = NoRow /\ store.tables.solutions # <<>> /\ finalizedAt}

---------------------------------------------------------------------------
(* Properties.                                                             *)

\* Whenever the chain still has the block the checkpoint names, every stored
\* quote is the answer of the chain's own block, although it is read by number after the commit, and a reconciliation reports nothing.
BaselinesTrue ==
  Agreed => /\ \A q \in store.quotes : q.answer = HashAt(q.block)
            /\ differences = {}

\* Whenever the chain still has the block the checkpoint names, every table is
\* what the chain's logs up to it make of them, nothing missing and nothing of
\* a discarded history, and the stored quotes are its own: step, commit, rewind
\* and recordBaselines, through rewritten blocks, failing reads and crashes.
IndexAgrees ==
  /\ BaselinesTrue
  /\ Agreed => /\ store.logs = ChainLogs
               /\ store.tables = Projected(NoTables, ChainLogs)
               /\ store.winning = winningSolutions({}, ChainLogs)

\* Every block that is deep enough is indexed, or the process gave up because
\* the chain lost everything stored.
IndexCaughtUp == indexStage = "stopped" \/ (Agreed /\ store.state.lastBlock = safeHead)
===========================================================================
