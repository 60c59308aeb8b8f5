------------------------------ MODULE TabView ------------------------------
(***************************************************************************)
(* What a browser tab shows and what keeps it current, in three parts that *)
(* do not meet, one of them per behaviour (tabCase):                       *)
(*                                                                         *)
(*   "quote"  the trade card asks for a quote while the amount is edited   *)
(*            (TradeWidget.tsx);                                           *)
(*   "rows"   the list of the intents sent, refreshed by a timer and by    *)
(*            every announcement (MyIntents.tsx, IntentsProvider.tsx);     *)
(*   "socket" the stream the announcements come from: its places, pings    *)
(*            and closes on the server (routes/stream.ts), its reconnects  *)
(*            in the tab (lib/coordinator/stream.ts).                      *)
(***************************************************************************)
EXTENDS Integers, FiniteSets

CONSTANTS
  FormAmounts,          \* bound: amounts typed, 0 for none
  FormEdits,            \* bound: edits
  SentHashes,           \* bound: intents
  RefreshLimit,         \* bound: refreshes under way at once
  TabReloads,           \* bound: reloads of the tab and restarts of the coordinator
  StreamTabs,           \* bound: tabs that want the stream
  TabSockets,           \* bound: sockets of one tab the server holds at once
  StreamMaxClients,     \* STREAM_MAX_CLIENTS
  MissedPings,          \* MISSED_PINGS_TO_CLOSE
  StreamCuts            \* bound: connections that break without a word

VARIABLES
  tabCase,
  formAmount, quoteWanted, quotesOut, shownFor, formQuoting, formEdits,
  sentRows, savedRows, statusOf, heldBy, receiptOf404, refreshes, answers, tabReloads,
  place, missed, clientSide, streamCuts

quoteVars == <<formAmount, quoteWanted, quotesOut, shownFor, formQuoting, formEdits>>
rowVars == <<sentRows, savedRows, statusOf, heldBy, receiptOf404, refreshes, answers, tabReloads>>
socketVars == <<place, missed, clientSide, streamCuts>>
tabVars == <<tabCase, quoteVars, rowVars, socketVars>>

TabCases == {"quote", "rows", "socket"}

TabInit ==
  /\ tabCase \in TabCases
  /\ formAmount = 0 /\ quoteWanted = FALSE /\ quotesOut = {} /\ shownFor = 0 /\ formQuoting = FALSE /\ formEdits = 0
  /\ sentRows = {} /\ savedRows = {} /\ refreshes = {} /\ answers = <<>> /\ tabReloads = 0
  /\ statusOf = [h \in SentHashes |-> "unsent"]
  /\ heldBy = {} /\ receiptOf404 = {}
  /\ place = [t \in StreamTabs |-> 0]
  /\ missed = [t \in StreamTabs |-> 0]
  /\ clientSide = [t \in StreamTabs |-> "waiting"]
  /\ streamCuts = 0

---------------------------------------------------------------------------
(* The quote effect: a request per edit, sent after a pause, whose answer  *)
(* counts only while its effect is the live one.                           *)

\* Every edit runs the cleanup of the last effect and the next effect.
editAmount(a) ==
  /\ tabCase = "quote" /\ formEdits < FormEdits /\ a # formAmount
  /\ formEdits' = formEdits + 1
  /\ formAmount' = a
  /\ quotesOut' = {[q EXCEPT !.live = FALSE] : q \in quotesOut}
  /\ quoteWanted' = (a # 0)
  /\ formQuoting' = (a # 0)
  /\ shownFor' = IF a = 0 THEN 0 ELSE shownFor
  /\ UNCHANGED <<tabCase, rowVars, socketVars>>

fetchBaseline ==
  /\ quoteWanted
  /\ quoteWanted' = FALSE
  /\ quotesOut' = quotesOut \cup {[amount |-> formAmount, live |-> TRUE, edit |-> formEdits]}
  /\ UNCHANGED <<tabCase, formAmount, shownFor, formQuoting, formEdits, rowVars, socketVars>>

\* Mutant: an answer counts whenever it comes.
answerCountsAlways(q) == TRUE

answerCounts(q) == q.live

\* Answers come in any order; one that failed shows no quote.
baselineAnswers(q) ==
  /\ quotesOut' = quotesOut \ {q}
  /\ \E ok \in BOOLEAN : shownFor' = IF ~answerCounts(q) THEN shownFor ELSE IF ok THEN q.amount ELSE 0
  /\ formQuoting' = (formQuoting /\ ~answerCounts(q))
  /\ UNCHANGED <<tabCase, formAmount, quoteWanted, formEdits, rowVars, socketVars>>

---------------------------------------------------------------------------
(* The coordinator and the indexer, as the list meets them.                *)

statusMoves(h) ==
  /\ \/ statusOf[h] = "pending" /\ \E s \in {"batched", "rejected"} : statusOf' = [statusOf EXCEPT ![h] = s]
     \/ statusOf[h] = "batched" /\ statusOf' = [statusOf EXCEPT ![h] = "settled"]
  /\ UNCHANGED <<tabCase, quoteVars, sentRows, savedRows, heldBy, receiptOf404, refreshes, answers, tabReloads, socketVars>>

receiptIndexed(h) ==
  /\ statusOf[h] = "settled" /\ h \notin receiptOf404
  /\ receiptOf404' = receiptOf404 \cup {h}
  /\ UNCHANGED <<tabCase, quoteVars, sentRows, savedRows, statusOf, heldBy, refreshes, answers, tabReloads, socketVars>>

coordinatorRestarts ==
  /\ tabCase = "rows" /\ tabReloads < TabReloads /\ heldBy # {}
  /\ tabReloads' = tabReloads + 1
  /\ heldBy' = {}
  /\ UNCHANGED <<tabCase, quoteVars, sentRows, savedRows, statusOf, receiptOf404, refreshes, answers, socketVars>>

\* What the row of an intent says when both are asked now: the coordinator's
\* status, or the receipt once the coordinator has forgotten the intent.
rowLook(h) == IF h \in heldBy THEN statusOf[h] ELSE IF h \in receiptOf404 THEN "settled" ELSE "No longer held"

---------------------------------------------------------------------------
(* IntentsProvider and MyIntents.  A refresh keeps the list it started     *)
(* with; what it shows is not tied to the list the tab has by then.        *)

refreshOf(list) == [list |-> list, read |-> FALSE, got |-> <<>>]

\* A change of the list starts a refresh at once.
startsRefresh(list) == IF list = {} THEN refreshes ELSE refreshes \cup {refreshOf(list)}
emptied(list) == IF list = {} THEN <<>> ELSE answers

remember(h) ==
  /\ tabCase = "rows" /\ statusOf[h] = "unsent" /\ Cardinality(refreshes) < RefreshLimit
  /\ statusOf' = [statusOf EXCEPT ![h] = "pending"]
  /\ heldBy' = heldBy \cup {h}
  /\ sentRows' = sentRows \cup {h}
  /\ savedRows' = sentRows'
  /\ refreshes' = startsRefresh(sentRows')
  /\ UNCHANGED <<tabCase, quoteVars, receiptOf404, answers, tabReloads, socketVars>>

forget(h) ==
  /\ h \in sentRows /\ Cardinality(refreshes) < RefreshLimit
  /\ sentRows' = sentRows \ {h}
  /\ savedRows' = sentRows'
  /\ refreshes' = startsRefresh(sentRows')
  /\ answers' = emptied(sentRows')
  /\ UNCHANGED <<tabCase, quoteVars, statusOf, heldBy, receiptOf404, tabReloads, socketVars>>

reload ==
  /\ tabCase = "rows" /\ tabReloads < TabReloads /\ savedRows # {}
  /\ tabReloads' = tabReloads + 1
  /\ sentRows' = savedRows
  /\ refreshes' = IF savedRows = {} THEN {} ELSE {refreshOf(savedRows)}
  /\ answers' = <<>>
  /\ UNCHANGED <<tabCase, quoteVars, savedRows, statusOf, heldBy, receiptOf404, socketVars>>

polls == tabCase = "rows" /\ refreshOf(sentRows) \notin refreshes

\* The timer, or an announcement from the stream.  An announcement may be
\* lost; the timer is not.
refresh ==
  /\ polls /\ Cardinality(refreshes) < RefreshLimit
  /\ IF sentRows = {} THEN answers # <<>> /\ answers' = <<>> /\ UNCHANGED refreshes
     ELSE refreshes' = refreshes \cup {refreshOf(sentRows)} /\ UNCHANGED answers
  /\ UNCHANGED <<tabCase, quoteVars, sentRows, savedRows, statusOf, heldBy, receiptOf404, tabReloads, socketVars>>

refreshReads(r) ==
  /\ r \in refreshes /\ ~r.read
  /\ refreshes' = (refreshes \ {r}) \cup {[r EXCEPT !.read = TRUE, !.got = [h \in r.list |-> rowLook(h)]]}
  /\ UNCHANGED <<tabCase, quoteVars, sentRows, savedRows, statusOf, heldBy, receiptOf404, answers, tabReloads, socketVars>>

refreshShows(r) ==
  /\ r \in refreshes /\ r.read
  /\ answers' = r.got
  /\ refreshes' = refreshes \ {r}
  /\ UNCHANGED <<tabCase, quoteVars, sentRows, savedRows, statusOf, heldBy, receiptOf404, tabReloads, socketVars>>

---------------------------------------------------------------------------
(* The stream.  place[t] counts the sockets of a tab that the server still *)
(* holds: a connection that broke without a word keeps its place until it  *)
(* has missed its pings.  clientSide is what the tab believes.             *)

PlacesTaken == Cardinality({k \in StreamTabs \X (1..TabSockets) : k[2] <= place[k[1]]})

\* Mutant: a tab whose socket was closed does not try again.
closedSideForGood == "refused"

\* onclose sets the timer that opens the next socket.
closedSide == "waiting"

\* open, onopen and subscribe; at its limit the server closes with 1013 and the
\* tab waits and tries again.
openSocket(t) ==
  /\ tabCase = "socket" /\ clientSide[t] = "waiting" /\ place[t] < TabSockets
  /\ IF PlacesTaken >= StreamMaxClients THEN clientSide' = [clientSide EXCEPT ![t] = closedSide] /\ UNCHANGED place
     ELSE clientSide' = [clientSide EXCEPT ![t] = "live"] /\ place' = [place EXCEPT ![t] = @ + 1]
  /\ UNCHANGED <<tabCase, quoteVars, rowVars, missed, streamCuts>>

\* The network goes away under a socket, noticed by both ends, by one or by none.  A
\* tab that does not notice is deaf: it sends nothing that could fail.
connectionBreaks(t) ==
  /\ clientSide[t] = "live" /\ streamCuts < StreamCuts
  /\ streamCuts' = streamCuts + 1
  /\ \E side \in {closedSide, "deaf"} : clientSide' = [clientSide EXCEPT ![t] = side]
  /\ \E noticed \in BOOLEAN :
       place' = IF noticed THEN [place EXCEPT ![t] = @ - 1] ELSE place
  /\ UNCHANGED <<tabCase, quoteVars, rowVars, missed>>

\* The browser finds out after all, or never does: it is not in the tab's code.
hearsOfBreak(t) ==
  /\ clientSide[t] = "deaf"
  /\ clientSide' = [clientSide EXCEPT ![t] = closedSide]
  /\ UNCHANGED <<tabCase, quoteVars, rowVars, place, missed, streamCuts>>

\* The tab is closed while nobody can tell the server.
tabCloses(t) ==
  /\ tabCase = "socket" /\ clientSide[t] # "closed" /\ streamCuts < StreamCuts
  /\ streamCuts' = streamCuts + 1
  /\ clientSide' = [clientSide EXCEPT ![t] = "closed"]
  /\ \E told \in BOOLEAN :
       place' = IF told /\ clientSide[t] = "live" THEN [place EXCEPT ![t] = @ - 1] ELSE place
  /\ UNCHANGED <<tabCase, quoteVars, rowVars, missed>>

\* Sockets of t the server holds and nobody is at the other end of.
dead(t) == place[t] - (IF clientSide[t] = "live" THEN 1 ELSE 0)

misses(n) == n + 1

\* The timer of a dead socket: a ping more unanswered, or the end of it.  A live
\* one answers and its count stays at nothing.
ping(t) ==
  /\ tabCase = "socket" /\ dead(t) > 0
  /\ IF missed[t] >= MissedPings
       THEN place' = [place EXCEPT ![t] = @ - 1] /\ missed' = [missed EXCEPT ![t] = 0]
       ELSE missed' = [missed EXCEPT ![t] = misses(@)] /\ UNCHANGED place
  /\ UNCHANGED <<tabCase, quoteVars, rowVars, clientSide, streamCuts>>

---------------------------------------------------------------------------
TabNext ==
  \/ \E a \in FormAmounts : editAmount(a)
  \/ fetchBaseline
  \/ \E q \in quotesOut : baselineAnswers(q)
  \/ coordinatorRestarts \/ reload \/ refresh
  \/ \E h \in SentHashes : statusMoves(h) \/ receiptIndexed(h) \/ remember(h) \/ forget(h)
  \/ \E r \in refreshes : refreshReads(r) \/ refreshShows(r)
  \/ \E t \in StreamTabs : openSocket(t) \/ connectionBreaks(t) \/ hearsOfBreak(t) \/ tabCloses(t) \/ ping(t)

\* Timers fire and requests are answered.  Nothing is assumed of announcements.
TabFair ==
  /\ WF_tabVars(refresh)
  /\ WF_tabVars(\E r \in refreshes : refreshReads(r))
  /\ WF_tabVars(\E r \in refreshes : refreshShows(r))
  /\ WF_tabVars(\E h \in SentHashes : receiptIndexed(h))
  /\ WF_tabVars(\E t \in StreamTabs : ping(t))
  /\ WF_tabVars(\E t \in StreamTabs : openSocket(t))

TabSpec == TabInit /\ [][TabNext]_tabVars /\ TabFair

---------------------------------------------------------------------------
(* Properties.                                                             *)

\* A quote on the card that is not being asked for anew is the quote of the
\* amount in the field, however late earlier answers come in.
QuoteMatchesForm == ~formQuoting /\ shownFor # 0 => shownFor = formAmount

\* Whatever order refreshes answer in, and though one that started with an older
\* list may overwrite a newer one, the rows end up being the intents the tab
\* holds, each with what the coordinator or the receipt says of it.
RowsCatchUp ==
  <>[](tabCase = "rows" => /\ answers = [h \in sentRows |-> rowLook(h)] \/ (answers = <<>> /\ sentRows = {}))

\* Once connections stop breaking, every place nobody is behind is given back
\* and every tab that stays and has noticed has the stream again, although its own
\* dead sockets may hold the places it needs (the pings and the limit in wsHandler;
\* open and onclose in the tab).  One that never notices lives on its timer, which
\* RowsCatchUp relies on alone.
WatcherReturns ==
  <>[](tabCase = "socket" => \A t \in StreamTabs : dead(t) = 0 /\ clientSide[t] \in {"live", "closed", "deaf"})

\* What a tab shows, and that it goes on hearing, come right in the end (refresh,
\* openSocket, wsHandler).
TabCatchesUp == RowsCatchUp /\ WatcherReturns
===========================================================================
