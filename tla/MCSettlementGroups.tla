------------------------ MODULE MCSettlementGroups ------------------------
(***************************************************************************)
(* Settlement with one part of the outside world moving per behaviour: the *)
(* owners; the pool, the feeds and the calendar; or the governor.  The     *)
(* interleavings of each part with two batches are all checked, those      *)
(* between parts are not.  The even batch may fall on a weekend for the    *)
(* governor, whose caps then halve.                                        *)
(***************************************************************************)
EXTENDS MCSettlement

GroupInit ==
  /\ Init
  /\ spread = 3
  /\ "governor" \notin acting => caps \in WideCaps
  /\ \A b \in Batches :
       calendar[b] \in IF "governor" \in acting /\ b % 2 = 0 THEN Weekend ELSE OpenDay

GroupSpec == GroupInit /\ [][Next]_vars

\* Bound: the governor delists only one of the tokens; while the market moves,
\* the calendar has open sessions or none.
GroupBound ==
  /\ usdg \in tokenAllowed
  /\ "calendar" \in acting => \A b \in Batches : calendar[b] \in Closed \cup OpenDay
=============================================================================
