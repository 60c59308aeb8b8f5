---------------------------- MODULE BatchClock ----------------------------
(***************************************************************************)
(* Which batch a second belongs to: the calendar (SessionManager.sol), the *)
(* windows Settlement derives from it, the search that mirrors them        *)
(* (packages/shared/batch.ts) and the one the coordinator opens            *)
(* (openWindow in api/src/mempool.ts), behind a reader that remembers      *)
(* transitions.                                                            *)
(*                                                                         *)
(* A day has ClockDay seconds.  A calendar is a record                     *)
(*   [dst, holidays, early]: the DST table, the holidays, and the second   *)
(*   at which some days close early.                                       *)
(***************************************************************************)
EXTENDS Integers, Sequences, FiniteSets, FiniteSetsExt, SequencesExt

CONSTANTS
  ClockDay,              \* SECONDS_PER_DAY
  ClockMarks,            \* the second of each start of a session, and "close", "auction"
  ClockOffsets,          \* EST_OFFSET and EDT_OFFSET
  ClockDurations,        \* batchDuration by session
  ClockGuard,            \* GUARD_BAND
  ClockWindow,           \* SOLUTION_WINDOW
  ClockSearch,           \* MAX_STEPS of the search and MAX_TRANSITION_STEPS
  ClockSpans,            \* spans the reader remembers at most
  ClockCalendars,        \* bound: calendars
  ClockSeconds,          \* bound: the seconds asked about
  ClockAsks,             \* bound: questions
  ClockApart             \* bound: seconds between two questions

VARIABLES
  calendar,
  spans,        \* what rememberTransitions has kept
  asked         \* the questions so far: pairs of a second and openWindow's answer

clockVars == <<calendar, spans, asked>>

---------------------------------------------------------------------------
(* SessionManager.                                                         *)

boundariesBefore(c, t) == Cardinality({i \in DOMAIN c.dst : c.dst[i] <= t})
utcOffset(c, t) == IF boundariesBefore(c, t) % 2 = 1 THEN ClockOffsets.EDT ELSE ClockOffsets.EST
easternDay(c, t) == (t - utcOffset(c, t)) \div ClockDay
secondOfDay(c, t) == (t - utcOffset(c, t)) % ClockDay
closeOf(c, day) == IF day \in DOMAIN c.early THEN c.early[day] ELSE ClockMarks.close
covered(c, t) == c.dst # <<>> /\ t >= c.dst[1] /\ t < c.dst[Len(c.dst)]

\* Day 0 is a Thursday.
dayOfWeek(day) == (day + 4) % 7

sessionAt(c, t) ==
  LET day == easternDay(c, t)
      s   == secondOfDay(c, t)
      close == closeOf(c, day)
  IN  IF ~covered(c, t) THEN "PROTECTIVE"
      ELSE IF dayOfWeek(day) \in {0, 6} THEN "CLOSED_WEEKEND"
      ELSE IF day \in c.holidays THEN "HOLIDAY"
      ELSE IF s < ClockMarks.preMarket THEN "CLOSED_OVERNIGHT"
      ELSE IF s < ClockMarks.auctionOpen THEN "PRE_MARKET"
      ELSE IF s < ClockMarks.open THEN "AUCTION_OPEN"
      ELSE IF s < close - ClockMarks.auction THEN "OPEN"
      ELSE IF s < close THEN "AUCTION_CLOSE"
      ELSE IF s < ClockMarks.postMarketEnd THEN "POST_MARKET" ELSE "CLOSED_OVERNIGHT"

inGuardBand(c, t) == \E u \in {t - ClockGuard, t + ClockGuard} : sessionAt(c, u) # sessionAt(c, t)

\* The next mark of the day after t, or midnight.
nextMark(c, t) ==
  LET day   == easternDay(c, t)
      close == closeOf(c, day)
      marks == SelectSeq(<<ClockMarks.preMarket, ClockMarks.auctionOpen, ClockMarks.open, close - ClockMarks.auction,
                           close, ClockMarks.postMarketEnd>>, LAMBDA m : m > secondOfDay(c, t))
  IN  day * ClockDay + utcOffset(c, t) + (IF marks = <<>> THEN ClockDay ELSE marks[1])

\* The next second at which the session could change.
nextBoundary(c, t) ==
  LET shifts == {c.dst[i] : i \in DOMAIN c.dst} \cap (t + 1)..(nextMark(c, t) - 1)
  IN  IF shifts = {} THEN nextMark(c, t) ELSE Min(shifts)

RECURSIVE walkTransitions(_, _, _, _)
walkTransitions(c, start, t, steps) ==
  LET candidate == nextBoundary(c, t)
  IN  IF steps = 0 \/ ~covered(c, t) THEN 0
      ELSE IF sessionAt(c, candidate) # start THEN candidate
      ELSE walkTransitions(c, start, candidate, steps - 1)

nextTransition(c, from) == walkTransitions(c, sessionAt(c, from), from, ClockSearch)

---------------------------------------------------------------------------
(* Settlement.batchWindow, which the helper has to agree with.             *)

batchWindow(c, id) ==
  LET d == ClockDurations[sessionAt(c, id)]
  IN  d # 0 /\ id % d = 0 /\ ~inGuardBand(c, id)

---------------------------------------------------------------------------
(* batch.ts.  An answer is [batchId, reason, retryAt], batchId 0 for none. *)

windowOf(id) == [batchId |-> id, reason |-> "", retryAt |-> 0]
noBatch(why, retry) == [batchId |-> 0, reason |-> why, retryAt |-> retry]
isBatch(r) == r.batchId # 0

isValidBatchId(c, id) ==
  LET d == ClockDurations[sessionAt(c, id)]
  IN  d # 0 /\ id % d = 0 /\ ~inGuardBand(c, id)

bandAt(c, t) == inGuardBand(c, t)

aligned(cursor, d) == ((cursor + d - 1) \div d) * d

---------------------------------------------------------------------------
(* rememberTransitions: one answer serves every second up to the           *)
(* transition.  A reader without memory is one that remembers nothing yet. *)

\* Mutant: a span covers its own end.
hitIn(kept, from) == SelectSeq(kept, LAMBDA s : from >= s[1] /\ from <= s[2])

hit(kept, from) == SelectSeq(kept, LAMBDA s : from >= s[1] /\ from < s[2])

remembered(c, kept, from) == IF hit(kept, from) # <<>> THEN hit(kept, from)[1][2] ELSE nextTransition(c, from)

rememberTransitions(c, kept, from) ==
  LET to == nextTransition(c, from)
  IN  IF hit(kept, from) # <<>> \/ to <= from THEN kept
      ELSE Append(IF Len(kept) >= ClockSpans THEN Tail(kept) ELSE kept, <<from, to>>)

---------------------------------------------------------------------------
(* The searches.                                                           *)

\* Past an auction phase, up to an aligned second, out of a guard band, or the
\* answer.  Aligning can cross into a session with another duration.
RECURSIVE search(_, _, _, _), pastAuction(_, _, _, _, _)
search(c, kept, cursor, steps) ==
  LET d == ClockDurations[sessionAt(c, cursor)]
  IN  IF steps = 0 THEN <<noBatch("search_exhausted", cursor), kept>>
      ELSE IF d = 0
        THEN pastAuction(c, rememberTransitions(c, kept, cursor), cursor, remembered(c, kept, cursor), steps)
      ELSE IF aligned(cursor, d) # cursor THEN search(c, kept, aligned(cursor, d), steps - 1)
      ELSE IF bandAt(c, cursor) THEN search(c, kept, cursor + 1, steps - 1)
      ELSE <<windowOf(cursor), kept>>
pastAuction(c, kept, cursor, transition, steps) ==
  IF transition <= cursor THEN <<noBatch("auction_phase", 0), kept>> ELSE search(c, kept, transition, steps - 1)

\* The batch found, and what the reader remembers after finding it.
foundBatch(c, kept, from) == search(c, kept, from + 1, ClockSearch)
nextValidBatchId(c, from) == foundBatch(c, <<>>, from)[1]

\* The last boundary strictly before now.
lastBoundary(now, d) == ((now - 1) \div d) * d

solvableBatchId(c, now) ==
  LET dNow == ClockDurations[sessionAt(c, now)]
      candidate == lastBoundary(now, dNow)
      next == nextValidBatchId(c, now)
      d == ClockDurations[sessionAt(c, candidate)]
  IN  IF dNow = 0 THEN noBatch("auction_phase", 0)
      ELSE IF now > candidate + ClockWindow
        THEN noBatch("window_closed", IF isBatch(next) THEN next.batchId + 1 ELSE 0)
      ELSE IF d = 0 \/ candidate % d # 0 THEN noBatch("auction_phase", 0)
      ELSE IF inGuardBand(c, candidate) THEN noBatch("guard_band", 0)
      ELSE windowOf(candidate)

---------------------------------------------------------------------------
(* openWindow.                                                             *)

\* The walk from now to the batch found, at most so many transitions of it.
RECURSIVE auctionBefore(_, _, _, _, _)
auctionBefore(c, kept, t, id, steps) ==
  LET next == remembered(c, kept, t)
      held == rememberTransitions(c, kept, t)
  IN  IF steps = 0 THEN [found |-> FALSE, kept |-> kept]
      ELSE IF next <= t \/ next >= id THEN [found |-> FALSE, kept |-> held]
      ELSE IF ClockDurations[sessionAt(c, next)] = 0 THEN [found |-> TRUE, kept |-> held]
      ELSE auctionBefore(c, held, next, id, steps - 1)

walked(lookup, walk) == <<IF walk.found THEN noBatch("auction_phase", 0) ELSE lookup, walk.kept>>
lookedUp(c, now, lookup) ==
  IF isBatch(lookup[1]) THEN walked(lookup[1], auctionBefore(c, lookup[2], now, lookup[1].batchId, 4)) ELSE lookup

\* An auction phase at once, or what the search and the walk after it find.
opened(c, kept, now) ==
  IF ClockDurations[sessionAt(c, now)] = 0 THEN <<noBatch("auction_phase", 0), kept>>
  ELSE lookedUp(c, now, foundBatch(c, kept, now))

openWindow(now) ==
  /\ Len(asked) < ClockAsks
  /\ \E answer \in {opened(calendar, spans, now)} : asked' = Append(asked, <<now, answer[1]>>) /\ spans' = answer[2]
  /\ UNCHANGED calendar

ClockInit == calendar \in ClockCalendars /\ spans = <<>> /\ asked = <<>>
\* Two questions come at most ClockApart seconds apart, in either order.
ClockNext ==
  \E now \in ClockSeconds : /\ \A i \in {Len(asked)} \ {0} : now - asked[i][1] \in -ClockApart..ClockApart
                            /\ openWindow(now)

---------------------------------------------------------------------------
(* Properties.  Each is about the last question asked.                     *)

LastAsked == {asked[i] : i \in {Len(asked)} \ {0}}

\* nextTransition, which walks the marks of a day, midnight and the shifts of
\* the clocks, finds the first second whose session differs, over a weekend,
\* a holiday, an early close and the end of the table too.
TransitionExact ==
  \A q \in LastAsked :
    LET next == nextTransition(calendar, q[1])
    IN  /\ next # 0 => /\ next > q[1] /\ sessionAt(calendar, next) # sessionAt(calendar, q[1])
                       /\ \A u \in q[1]..(next - 1) : sessionAt(calendar, u) = sessionAt(calendar, q[1])
        /\ next = 0 <=> ~covered(calendar, q[1])

\* The search offers the first batch the contract accepts, never skips one and
\* never offers one it refuses (nextValidBatchId against batchWindow).
FirstValidBatch ==
  \A q \in LastAsked :
    LET r == nextValidBatchId(calendar, q[1])
    IN  /\ isBatch(r)
        /\ batchWindow(calendar, r.batchId)
        /\ \A id \in (q[1] + 1)..(r.batchId - 1) : ~batchWindow(calendar, id)

\* A batch is solvable exactly while the contract takes solutions for it, and a
\* solver told to come back later is told the second the next window opens,
\* except for the batch that closes in the very second it asks: that window is
\* passed over (solvableBatchId).
SolvableExact ==
  \A q \in LastAsked :
    LET r == solvableBatchId(calendar, q[1])
        takes(now) == {id \in (now - ClockWindow)..(now - 1) : id > 0 /\ batchWindow(calendar, id)}
    IN  /\ takes(q[1]) = IF isBatch(r) THEN {r.batchId} ELSE {}
        /\ r.retryAt # 0 => /\ takes(r.retryAt) # {}
                            /\ \A u \in q[1]..(r.retryAt - 1) : takes(u) \subseteq {q[1]}

\* The coordinator opens the first batch the contract accepts, unless an
\* auction phase comes before it; what the reader remembered from earlier
\* questions, in whatever order they came, changes nothing (openWindow,
\* rememberTransitions).
OpensBeforeAuction ==
  \A q \in LastAsked :
    LET first == nextValidBatchId(calendar, q[1])
        auction == \E u \in q[1]..(first.batchId - 1) : ClockDurations[sessionAt(calendar, u)] = 0
    IN  q[2] = IF auction THEN noBatch("auction_phase", 0) ELSE first

\* The searches that mirror the contract agree with it, from what is remembered of
\* earlier questions too: transitions, the next batch, the batch to solve and the
\* batch to open (nextTransition, nextValidBatchId, solvableBatchId, openWindow
\* against sessionAt and batchWindow).
WindowsAgree == TransitionExact /\ FirstValidBatch /\ SolvableExact /\ OpensBeforeAuction
===========================================================================
