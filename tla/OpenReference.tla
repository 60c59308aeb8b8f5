--------------------------- MODULE OpenReference ---------------------------
(***************************************************************************)
(* The opening reference of a day (PriceOracle.finalizeOpenReference): a   *)
(* walk back over the rounds of the feed, made by anybody at any time      *)
(* after the window, while rounds keep coming; and who uses it: an opening *)
(* auction, which takes it or the last answer once (AuctionHouse._reference)*)
(* and the keeper, which works out what the auction took or will take      *)
(* (reference in keeper.ts).  Rounds are [answer, at]; a second has at     *)
(* most one, and the answer of the n-th is TapeAnswers[n].                 *)
(***************************************************************************)
EXTENDS BatchClock

CONSTANTS
  TapeCases,             \* pairs of a calendar and a day on which the market opens
  TapeAnswers,           \* the answers the feed gives, in order
  OpenRefWindow,         \* OPEN_REF_WINDOW, CROSS_DELAY_OPEN of the house too
  OpenRefMinUpdates,     \* OPEN_REF_MIN_UPDATES
  MaxOpenRefRounds,      \* MAX_OPEN_REF_ROUNDS
  TapeStaleness,         \* stalenessOpen
  TapeExtension, TapeExtensions,   \* EXTENSION_PERIOD, MAX_EXTENSIONS
  TapeBefore, TapeAfter  \* bound: seconds before and after the bell

ASSUME TapeAssumption ==
  /\ {OpenRefWindow, OpenRefMinUpdates, MaxOpenRefRounds, TapeStaleness, TapeExtension,
      TapeExtensions, TapeBefore, TapeAfter} \subseteq Nat
  /\ \A i \in DOMAIN TapeAnswers : TapeAnswers[i] \in Nat \ {0}

VARIABLES
  tapeCase, tapeSecond,
  windowStart,   \* _openWindow's answer, the same as long as the calendar is
  rounds,        \* the feed's rounds so far
  openRef,       \* openRef[token][day], 0 for none
  opening,       \* the auction: its phase, extensions and the reference it took
  reach          \* history: [rounds, late], the rounds there were when openRef was set, and
                 \* whether the auction had taken its reference by then

tapeVars == <<tapeCase, windowStart, tapeSecond, rounds, openRef, opening, reach>>

---------------------------------------------------------------------------
(* PriceOracle.                                                            *)

RECURSIVE openAfter(_, _, _)
openAfter(c, cursor, end) ==
  IF cursor >= end THEN 0
  ELSE IF sessionAt(c, cursor) = "OPEN" THEN cursor
  ELSE IF nextTransition(c, cursor) <= cursor THEN 0
  ELSE openAfter(c, nextTransition(c, cursor), end)

\* The first second of OPEN from the midnight of the day on, 0 for NotATradingDay.
sessionOpenUtc(c, day) == openAfter(c, day * ClockDay, (day + 2) * ClockDay)

windowEnd == windowStart + OpenRefWindow

stampOf(id) == IF id = 0 THEN 0 ELSE rounds[id].at

\* Mutant: rounds after the window count as its updates.
beforeEndAll(at) == TRUE

beforeEnd(at) == at <= windowEnd

\* One turn of the loop of _timeWeightedFeed, from the round the walk is at.
walkBack(w) ==
  LET at == stampOf(w.id)
      from == IF at > windowStart THEN at ELSE windowStart
      weighs == beforeEnd(at) /\ w.segmentEnd > from /\ w.id # 0
  IN  [id |-> w.id - 1,
       weighted |-> w.weighted + (IF weighs THEN rounds[w.id].answer * (w.segmentEnd - from) ELSE 0),
       span |-> w.span + (IF weighs THEN w.segmentEnd - from ELSE 0),
       segmentEnd |-> IF weighs THEN from ELSE w.segmentEnd,
       updates |-> w.updates + (IF beforeEnd(at) /\ at >= windowStart THEN 1 ELSE 0),
       over |-> (beforeEnd(at) /\ at <= windowStart) \/ w.id <= 1]

timeWeightedFeed ==
  FoldLeft(LAMBDA w, n : IF w.over THEN w ELSE walkBack(w),
           [id |-> Len(rounds), weighted |-> 0, span |-> 0, segmentEnd |-> windowEnd, updates |-> 0, over |-> FALSE],
           [n \in 1..MaxOpenRefRounds |-> n])

settles == openRef = 0 /\ tapeSecond >= windowEnd /\ timeWeightedFeed.updates >= OpenRefMinUpdates

finalizeOpenReference ==
  /\ settles
  /\ LET w == timeWeightedFeed IN openRef' = IF w.span = 0 THEN 0 ELSE w.weighted \div w.span
  /\ reach' = [rounds |-> Len(rounds), late |-> opening.final]
  /\ UNCHANGED <<tapeCase, windowStart, tapeSecond, rounds, opening>>

latest == IF rounds = <<>> THEN 0 ELSE rounds[Len(rounds)].answer
\* refPrice in OPEN: the last answer and whether it is fresh.
fresh == rounds # <<>> /\ tapeSecond - stampOf(Len(rounds)) <= TapeStaleness

---------------------------------------------------------------------------
(* The auction.  Its bell is the first second of OPEN on its day.          *)

referenceFrom == windowStart + OpenRefWindow

\* _reference: once, whatever oracle says later; an unhealthy price reverts.
referenceTaken ==
  IF opening.final \/ tapeSecond < referenceFrom THEN opening
  ELSE IF openRef # 0 THEN [opening EXCEPT !.final = TRUE, !.ref = openRef]
  ELSE [opening EXCEPT !.final = TRUE, !.ref = latest, !.rooExcluded = TRUE]
referenceReads == opening.final \/ openRef # 0 \/ fresh

extendOpening ==
  /\ opening.phase = "FROZEN" /\ opening.extensions < TapeExtensions /\ referenceReads
  /\ tapeSecond >= referenceFrom + TapeExtension * (opening.extensions + 1)
  /\ opening' = [referenceTaken EXCEPT !.extensions = @ + 1]
  /\ UNCHANGED <<tapeCase, windowStart, tapeSecond, rounds, openRef, reach>>

submitOpeningCross ==
  /\ opening.phase = "FROZEN" /\ tapeSecond >= referenceFrom /\ referenceReads
  /\ opening' = [referenceTaken EXCEPT !.phase = "CROSSED"]
  /\ UNCHANGED <<tapeCase, windowStart, tapeSecond, rounds, openRef, reach>>

challengeOpening ==
  /\ opening.phase = "CROSSED" /\ opening' = [opening EXCEPT !.phase = "FROZEN"]
  /\ UNCHANGED <<tapeCase, windowStart, tapeSecond, rounds, openRef, reach>>

---------------------------------------------------------------------------
\* keeper.ts: the auction's own once it was extended, the oracle's before.
keeperReference ==
  IF opening.extensions > 0 THEN [ref |-> opening.ref, rooExcluded |-> openRef = 0]
  ELSE IF openRef # 0 THEN [ref |-> openRef, rooExcluded |-> FALSE]
  ELSE [ref |-> latest, rooExcluded |-> TRUE]

---------------------------------------------------------------------------
TapeInit ==
  /\ tapeCase \in TapeCases
  /\ windowStart = sessionOpenUtc(tapeCase[1], tapeCase[2])
  /\ tapeSecond = windowStart - TapeBefore
  /\ rounds = <<>> /\ openRef = 0 /\ reach = [rounds |-> 0, late |-> FALSE]
  /\ opening = [phase |-> "FROZEN", extensions |-> 0, final |-> FALSE, ref |-> 0, rooExcluded |-> FALSE]

RoundArrives ==
  /\ Len(rounds) < Len(TapeAnswers) /\ (rounds # <<>> => stampOf(Len(rounds)) < tapeSecond)
  /\ rounds' = Append(rounds, [answer |-> TapeAnswers[Len(rounds) + 1], at |-> tapeSecond])
  /\ UNCHANGED <<tapeCase, windowStart, tapeSecond, openRef, opening, reach>>

TapeSecondPasses ==
  /\ tapeSecond < windowStart + TapeAfter /\ tapeSecond' = tapeSecond + 1
  /\ UNCHANGED <<tapeCase, windowStart, rounds, openRef, opening, reach>>

TapeNext ==
  \/ finalizeOpenReference \/ extendOpening \/ submitOpeningCross \/ challengeOpening
  \/ RoundArrives \/ TapeSecondPasses

TapeSpec == TapeInit /\ [][TapeNext]_tapeVars

---------------------------------------------------------------------------
\* Of the first n rounds, those a walk from the last reaches.
Reached(n) == {i \in 1..n : i > n - MaxOpenRefRounds}
\* The round that is the feed's answer in a second, 0 for none.
LiveAt(n, s) == Cardinality({i \in 1..n : rounds[i].at <= s})
Weighed(n) == {s \in windowStart..(windowEnd - 1) : LiveAt(n, s) \in Reached(n)}
InWindow(n) == {i \in Reached(n) : rounds[i].at \in windowStart..windowEnd}

TapeTypeOK ==
  /\ tapeSecond \in (windowStart - TapeBefore)..(windowStart + TapeAfter)
  /\ Len(rounds) <= Len(TapeAnswers) /\ openRef \in Nat

\* An opening auction asks for the day its bell falls on (crossAt / 1 days): the window
\* of that day begins with that bell, whatever clock is in force (_sessionOpenUtc).
OwnOpening ==
  /\ sessionAt(tapeCase[1], windowStart) = "OPEN" /\ sessionAt(tapeCase[1], windowStart - 1) = "AUCTION_OPEN"
  /\ windowStart \div ClockDay = tapeCase[2]

\* The reference is the average, over the seconds of the window, of the answer that was
\* live, a second whose round lies further back than the walk left out,
\* and rests on enough updates stamped inside (_timeWeightedFeed).
ReferenceExact ==
  openRef # 0 =>
    /\ openRef = MapThenSumSet(LAMBDA s : rounds[LiveAt(reach.rounds, s)].answer, Weighed(reach.rounds))
                   \div Cardinality(Weighed(reach.rounds))
    /\ Cardinality(InWindow(reach.rounds)) >= OpenRefMinUpdates

\* "Callable by anyone once the window has closed": a day with enough updates that
\* are still within reach can be settled, and no other.
SettledWhenever ==
  openRef = 0 /\ tapeSecond >= windowEnd => (settles <=> Cardinality(InWindow(Len(rounds))) >= OpenRefMinUpdates)

\* The reference an auction took stays, and the keeper works with the same one, except
\* after a cross that was put back before any extension, or when the day was settled
\* after the auction had taken the last answer (reference in keeper.ts).
KeeperSeesReference ==
  LET house == [ref |-> referenceTaken.ref, rooExcluded |-> referenceTaken.rooExcluded]
  IN  tapeSecond >= referenceFrom /\ opening.phase = "FROZEN" =>
        keeperReference = house \/ (opening.final /\ (opening.extensions = 0 \/ reach.late))

\* The opening reference is exact and whoever uses it agrees on it.
ReferenceHolds == TapeTypeOK /\ OwnOpening /\ ReferenceExact /\ SettledWhenever /\ KeeperSeesReference

============================================================================
