------------------------------ MODULE Receipt ------------------------------
(***************************************************************************)
(* What a reader is shown of a batch: the rows the indexer projects from   *)
(* its logs (indexer/src/project.ts), the quotes it stores while the state *)
(* is there (baseline.ts), the receipt built from both (receipt.ts), the   *)
(* app's own scan of the logs (app/src/lib/batches.ts) and the list of     *)
(* batches in pages (api/src/routes/batches.ts).                           *)
(*                                                                         *)
(* A job is the life of one batch on the chain:                            *)
(*   submits  a sequence of [solver, solution, savings], one block each;   *)
(*            whoever sends a solution, its hash is of what was sent, and  *)
(*            so are its savings                                           *)
(*   end      "settled", "at venue", "unwound" or "expired"                *)
(*   fills    a sequence of [owner, sell, amount, baseline]                *)
(*   routed   per sold token, what went to the venue                       *)
(*   rates    per block, what the venue gives for one unit                 *)
(*   lost     whether the indexer's reads of quotes failed                 *)
(*   moved    whether the baseline adapter was replaced afterwards         *)
(***************************************************************************)
EXTENDS Integers, Sequences, FiniteSets, FiniteSetsExt

CONSTANTS
  ReceiptJobs,        \* bound
  PageSize,           \* PAGE
  ListedBatches,      \* bound: the batches that may be indexed
  ListedFirst         \* bound: the ones indexed before anybody asks

VARIABLES
  receiptDone,        \* <<>> before, <<job, receipt>> after
  listed,             \* the batches table
  pages, pageCursor,  \* what a reader has got so far, and the cursor for the next page
  listedAtStart       \* history: the table at the first page

Unavailable == -1
FirstPage == -1      \* no cursor yet
LastPage == -2       \* no cursor to follow

receiptVars == <<receiptDone, listed, pages, pageCursor, listedAtStart>>

---------------------------------------------------------------------------
(* The chain: submitSolution keeps a strictly better solution in place.    *)

BestAfter(submits, n) ==
  CHOOSE i \in 1..n : /\ \A k \in 1..n : submits[i].savings >= submits[k].savings
                      /\ \A k \in 1..(i - 1) : submits[k].savings < submits[i].savings

Finalized(j) == j.end # "expired"
endBlock(j) == Len(j.submits) + 1

---------------------------------------------------------------------------
(* project.ts.                                                             *)

\* SolutionSubmitted inserts an accepted row, SolutionRejected in the same
\* transaction takes it back.  A solution sent twice has two rows with one hash.
solutionsRows(j) ==
  [i \in DOMAIN j.submits |->
     [solver |-> j.submits[i].solver, hash |-> j.submits[i].solution, block |-> i,
      accepted |-> BestAfter(j.submits, i) = i]]

\* BatchPassthrough inserts the row, BatchSettled decides over it.
batchesRow(j) ==
  CASE j.end = "settled" -> [outcome |-> "settled", reason |-> "", solver |-> j.submits[BestAfter(j.submits, Len(j.submits))].solver]
    [] j.end = "at venue" -> [outcome |-> "settled", reason |-> "savings below threshold",
                              solver |-> j.submits[BestAfter(j.submits, Len(j.submits))].solver]
    [] j.end = "unwound" -> [outcome |-> "passthrough", reason |-> "intent could not be collected", solver |-> "none"]
    [] j.end = "expired" -> [outcome |-> "expired", reason |-> "winner never finalized", solver |-> "none"]

\* The winning solution is read from the calldata of the finalize.
winningHash(j) == IF Finalized(j) THEN j.submits[BestAfter(j.submits, Len(j.submits))].solution ELSE 0

fillRows(j) == IF j.end \in {"settled", "at venue"} THEN j.fills ELSE <<>>

---------------------------------------------------------------------------
(* receipt.ts and baseline.ts.                                             *)

\* The parent of the block of the first submit with the winning hash, or of the
\* fill's own.
withHash(j, hash) == {i \in DOMAIN j.submits : solutionsRows(j)[i].hash = hash}
quoteBlock(j) ==
  IF winningHash(j) # 0 THEN solutionsRows(j)[Min(withHash(j, winningHash(j)))].block - 1 ELSE endBlock(j) - 1

directionFills(j, sell) == {n \in DOMAIN fillRows(j) : fillRows(j)[n].sell = sell}
directionSold(j, sell) == SumFunctionOnSet([n \in DOMAIN fillRows(j) |-> fillRows(j)[n].amount], directionFills(j, sell))
directionBaseline(j, sell) == SumFunctionOnSet([n \in DOMAIN fillRows(j) |-> fillRows(j)[n].baseline], directionFills(j, sell))
directions(j) == {fillRows(j)[n].sell : n \in DOMAIN fillRows(j)}

\* One call per fill and one per direction, each a pair of a token and an amount.
baselineCalls(j) ==
  {<<fillRows(j)[n].sell, fillRows(j)[n].amount>> : n \in DOMAIN fillRows(j)}
    \cup {<<sell, directionSold(j, sell)>> : sell \in directions(j)}

quoteFromState(j, block, amount) == amount * j.rates[block + 1]

\* The answers kept at settle, under the adapter of the quote block.
recordedCalls(j) == IF j.lost THEN {} ELSE baselineCalls(j)

\* A stored answer, else the chain's own, which by then no longer has the state.
quoted(j, sell, amount) ==
  IF <<sell, amount>> \in recordedCalls(j) /\ ~j.moved
    THEN quoteFromState(j, quoteBlock(j), amount) ELSE Unavailable

share(routed, amount, sold) == IF sold = 0 THEN 0 ELSE (routed * amount) \div sold

\* How much of a fill reached a venue, pro rata and never more than the fill.
attribute(j, n) ==
  LET f == fillRows(j)[n]
      s == share(j.routed[f.sell], f.amount, directionSold(j, f.sell))
      routedSell == IF s > f.amount THEN f.amount ELSE s
  IN  [routedSell |-> routedSell, nettedSell |-> f.amount - routedSell]

publicOutcome(row) ==
  IF row.outcome = "settled" /\ row.reason = "savings below threshold" THEN "settled_at_venue" ELSE row.outcome

\* Mutant: a row that was never rejected reads accepted.
wonByRow(j, i) == solutionsRows(j)[i].accepted

\* Once a batch has a winner only the winning hash is accepted.
won(j, i) == IF winningHash(j) = 0 THEN solutionsRows(j)[i].accepted ELSE solutionsRows(j)[i].hash = winningHash(j)

solverShown(j) ==
  LET accepted == {i \in DOMAIN j.submits : solutionsRows(j)[i].accepted}
  IN  IF batchesRow(j).solver # "none" THEN batchesRow(j).solver
      ELSE solutionsRows(j)[Max(accepted)].solver

baselineMismatches(j) ==
  {sell \in directions(j) :
     LET floor == quoted(j, sell, directionSold(j, sell))
     IN  floor # Unavailable /\ directionBaseline(j, sell) < floor}

receiptOf(j) ==
  [outcome     |-> publicOutcome(batchesRow(j)),
   accepted    |-> {i \in DOMAIN j.submits : won(j, i)},
   solver      |-> solverShown(j),
   attribution |-> [n \in DOMAIN fillRows(j) |-> attribute(j, n)],
   mismatches  |-> baselineMismatches(j),
   failure     |-> publicOutcome(batchesRow(j)) \notin {"settled", "settled_at_venue"}]

buildReceipt ==
  /\ receiptDone = <<>>
  /\ \E j \in ReceiptJobs : receiptDone' = <<j, receiptOf(j)>>
  /\ UNCHANGED <<listed, pages, pageCursor, listedAtStart>>

\* What the contract has checked of a batch: something was submitted, and the verifier
\* held the baselines of each direction against the venue at the winning submit.
ASSUME ReceiptAssumption ==
  /\ PageSize \in Nat \ {0} /\ ListedBatches \subseteq Nat /\ IsFiniteSet(ListedBatches) /\ ListedFirst \subseteq ListedBatches
  /\ \A j \in ReceiptJobs :
       /\ j.end \in {"settled", "at venue", "unwound", "expired"}
       /\ Len(j.submits) \in Nat \ {0} /\ DOMAIN j.submits = 1..Len(j.submits)
       /\ \A i \in DOMAIN j.submits :
            j.submits[i].savings \in Nat /\ j.submits[i].solution \in Nat \ {0} /\ j.rates[i] \in Nat
       /\ \A i, k \in DOMAIN j.submits :
            j.submits[i].solution = j.submits[k].solution => j.submits[i].savings = j.submits[k].savings
       /\ Len(j.fills) \in Nat /\ DOMAIN j.fills = 1..Len(j.fills)
       /\ \A n \in DOMAIN j.fills : {j.fills[n].amount, j.fills[n].baseline, j.routed[j.fills[n].sell]} \subseteq Nat
       /\ \A sell \in directions(j) :
            directionBaseline(j, sell) >= directionSold(j, sell) * j.rates[BestAfter(j.submits, Len(j.submits))]

---------------------------------------------------------------------------
(* The app's scan reads the same logs without an indexer.                  *)

endLogs(j) == CASE j.end = "settled" -> <<"settled">>
                [] j.end = "at venue" -> <<"passthrough", "settled">>
                [] OTHER -> <<"passthrough">>

laterRow(held, row) == IF held = "passthrough" /\ row = "settled" THEN row ELSE held

\* A batch has one such log, or two.
oneRowPerBatch(j) ==
  LET rows == endLogs(j) IN IF Len(rows) = 1 THEN rows[1] ELSE laterRow(rows[1], rows[2])

---------------------------------------------------------------------------
(* GET /v1/batches: newest first, below the cursor, one row more than a    *)
(* page to know whether there is another.                                  *)

indexed(b) ==
  /\ b \in ListedBatches \ listed
  /\ listed' = listed \cup {b}
  /\ UNCHANGED <<receiptDone, pages, pageCursor, listedAtStart>>

\* The n newest batches of a set, newest first.
newest(S, n) == [k \in 1..Min({n, Cardinality(S)}) |-> CHOOSE b \in S : Cardinality({c \in S : c > b}) = k - 1]

cursorAfter(page, rows) == page[Len(page)]

listBatches ==
  /\ pageCursor # LastPage
  /\ LET below == {b \in listed : pageCursor = FirstPage \/ b < pageCursor}
         rows  == newest(below, PageSize + 1)
         page  == SubSeq(rows, 1, Min({PageSize, Len(rows)}))
     IN  /\ pages' = pages \o page
         /\ pageCursor' = IF Len(rows) > PageSize THEN cursorAfter(page, rows) ELSE LastPage
  /\ listedAtStart' = IF pageCursor = FirstPage THEN listed ELSE listedAtStart
  /\ UNCHANGED <<receiptDone, listed>>

ReceiptInit ==
  /\ receiptDone = <<>>
  /\ listed = ListedFirst /\ pages = <<>> /\ pageCursor = FirstPage /\ listedAtStart = {}

\* A reader of one batch, or one of the list.
ReceiptNext ==
  \/ pages = <<>> /\ listed = ListedFirst /\ buildReceipt
  \/ receiptDone = <<>> /\ (listBatches \/ \E b \in ListedBatches : indexed(b))

ReceiptSpec == ReceiptInit /\ [][ReceiptNext]_receiptVars

---------------------------------------------------------------------------
(* Properties.                                                             *)

\* Every unit of a fill is either netted or routed, no fill shows more routed
\* than it sold, and the fills of a direction together never show more routed
\* than the venue got, nor fall short of it by a unit per fill (attribute).
AttributionAddsUp ==
  \A d \in {receiptDone} \ {<<>>} :
    LET j == d[1]
    IN  \A sell \in directions(j) :
          LET ns    == directionFills(j, sell)
              shown == SumFunctionOnSet([n \in DOMAIN fillRows(j) |-> d[2].attribution[n].routedSell], ns)
              least == Min({j.routed[sell], directionSold(j, sell)})
          IN  /\ \A n \in ns : LET a == d[2].attribution[n]
                               IN  a.routedSell >= 0 /\ a.nettedSell >= 0 /\ a.routedSell + a.nettedSell = fillRows(j)[n].amount
              /\ shown <= j.routed[sell] /\ shown > least - Cardinality(ns)

\* The receipt names the solution the contract kept, although a solution beaten
\* later leaves no log saying so, and its solver, also where the batch expired
\* and no log names one (the N16 rule, solverShown).  What reads accepted once a
\* batch is finalized is that solution and every later copy of it, which the
\* contract rejected and the hash cannot tell apart: never another solution, and
\* never an earlier row.
ReceiptNamesWinner ==
  \A d \in {receiptDone} \ {<<>>} :
    LET best == BestAfter(d[1].submits, Len(d[1].submits))
    IN  /\ best \in d[2].accepted
        /\ Finalized(d[1]) =>
             /\ d[2].accepted = {i \in DOMAIN d[1].submits : d[1].submits[i].solution = d[1].submits[best].solution}
             /\ \A i \in d[2].accepted : i >= best /\ d[1].submits[i].savings = d[1].submits[best].savings
        /\ d[2].solver = d[1].submits[best].solver

\* A batch the contract accepted shows no baseline under the venue's floor,
\* wherever the venue went between the winning submit and the finalize and
\* whatever was submitted after the winner (quoteBlock, directions).
FloorsHold == \A d \in {receiptDone} \ {<<>>} : d[2].mismatches = {}

\* The app's scan and the indexer say the same of a batch, the one that logs
\* both a passthrough and a settlement included (oneRowPerBatch, project).
ScanAgrees ==
  \A d \in {receiptDone} \ {<<>>} :
    (oneRowPerBatch(d[1]) = "settled") <=> ~d[2].failure

\* A reader who follows the cursor to the end sees every batch that was there at
\* the start once, newest first, though batches are indexed between the pages.
PagesComplete ==
  /\ pageCursor = LastPage => listedAtStart \subseteq {pages[i] : i \in DOMAIN pages}
  /\ \A i, k \in DOMAIN pages : i < k => pages[i] > pages[k]

\* What a reader is shown of a batch is what the chain did with it, in the
\* receipt and in the app's own scan (attribute, solverShown, quoteBlock,
\* oneRowPerBatch, project), and every batch is in the pages (listBatches).
ReceiptTrue == AttributionAddsUp /\ ReceiptNamesWinner /\ FloorsHold /\ ScanAgrees /\ PagesComplete
===========================================================================
