------------------------ MODULE PlansAndViewsProofs ------------------------
(***************************************************************************)
(* Theorems about what surrounds the batches and auctions: the mandates an *)
(* agent acts under, the quote on the trade card, the faucet, the solver's *)
(* preflight, the receipts and their pages, the indexer's tables, for all  *)
(* values of the constants.                                                *)
(***************************************************************************)
EXTENDS AgentMandate, TabView, Faucet, Preflight, Receipt, Indexer, SharedLemmas, SequenceTheorems, TLAPS

----------------------------------------------------------------------------
(* The quote on the card.                                                  *)

\* Only the request of the last edit is live, and only while none is wanted.
QuoteInv ==
  /\ QuoteMatchesForm
  /\ \A q \in quotesOut : /\ q.live => q.amount = formAmount
                         /\ q = [amount |-> q.amount, live |-> q.live, edit |-> q.edit]

\* A quote the card shows and is not asking for anew is that of the amount in the
\* field, in whatever order answers to earlier amounts come (the quote effect of
\* TradeWidget.tsx).
THEOREM QuoteAlwaysMatches == TabSpec => []QuoteMatchesForm
<1>1. TabInit => QuoteInv
  BY DEF TabInit, QuoteInv, QuoteMatchesForm
<1>2. QuoteInv /\ [TabNext]_tabVars => QuoteInv'
  <2> SUFFICES ASSUME QuoteInv, [TabNext]_tabVars PROVE QuoteInv'
    OBVIOUS
  <2>1. CASE UNCHANGED quoteVars
    BY <2>1 DEF QuoteInv, QuoteMatchesForm, quoteVars
  <2>2. ASSUME NEW a \in FormAmounts, editAmount(a) PROVE QuoteInv'
    <3>1. \A q \in quotesOut' : ~q.live /\ q = [amount |-> q.amount, live |-> q.live, edit |-> q.edit]
      BY <2>2 DEF editAmount, QuoteInv
    <3>2. QuoteMatchesForm'
      BY <2>2 DEF editAmount, QuoteMatchesForm, QuoteInv
    <3>3. QED  BY <3>1, <3>2 DEF QuoteInv
  <2>3. CASE fetchBaseline
    BY <2>3 DEF QuoteInv, QuoteMatchesForm, fetchBaseline
  <2>4. ASSUME NEW q \in quotesOut, baselineAnswers(q) PROVE QuoteInv'
    BY <2>4 DEF QuoteInv, QuoteMatchesForm, baselineAnswers, answerCounts
  <2>5. ASSUME NEW h \in SentHashes, statusMoves(h) \/ receiptIndexed(h) \/ remember(h) \/ forget(h)
        PROVE  UNCHANGED quoteVars
    BY <2>5 DEF statusMoves, receiptIndexed, remember, forget
  <2>6. CASE coordinatorRestarts \/ reload \/ refresh
    BY <2>1, <2>6 DEF coordinatorRestarts, reload, refresh
  <2>7. ASSUME NEW r \in refreshes, refreshReads(r) \/ refreshShows(r) PROVE UNCHANGED quoteVars
    BY <2>7 DEF refreshReads, refreshShows
  <2>8. ASSUME NEW t \in StreamTabs, openSocket(t) \/ connectionBreaks(t) \/ hearsOfBreak(t) \/ tabCloses(t) \/ ping(t)
        PROVE  UNCHANGED quoteVars
    BY <2>8 DEF openSocket, connectionBreaks, hearsOfBreak, tabCloses, ping
  <2>9. CASE UNCHANGED tabVars
    BY <2>1, <2>9 DEF tabVars
  <2>10. QED  BY <2>1, <2>2, <2>3, <2>4, <2>5, <2>6, <2>7, <2>8, <2>9 DEF TabNext
<1>3. QuoteInv => QuoteMatchesForm
  BY DEF QuoteInv
<1>4. QED  BY <1>1, <1>2, <1>3, PTL DEF TabSpec

----------------------------------------------------------------------------
(* The mandates' book keeping.                                             *)

BookingRecords == [id : {0} \cup Ids, notional : Nat, day : Nat, released : BOOLEAN]

MandateTypes ==
  /\ MandateTypeOK
  /\ Cardinality(Granted) \in Nat /\ Granted = 1..Cardinality(Granted)
  /\ today \in Nat
  /\ drawn \subseteq [intent : AgentIntents, booking : BookingRecords] /\ IsFiniteSet(drawn)

\* A booking is under the mandate of the intent's account, and the intent is
\* authorized as long as it is not given back.
BookingInv ==
  \A i \in AgentIntents :
    /\ bookings[i].id # 0 =>
         /\ bookings[i].id = i.account /\ i.account \in Granted
         /\ i.validUntil <= mandates[i.account].expiry
         /\ bookings[i].day <= budgetDay[i.account]
    /\ i \in authorizedDigest <=> bookings[i].id # 0 /\ ~bookings[i].released

bookedSum == [id \in Ids |-> [d \in Nat |-> SumFunctionOnSet(notionalOf, bookedOn(id, d))]]

BudgetInv ==
  \A id \in Ids : budgetDay[id] <= today /\ budgetSpent[id] = bookedSum[id][budgetDay[id]]

\* Whatever is released and booked again, a day's bookings stay within the cap.
DayInv ==
  \A id \in Granted : \A d \in Nat : bookedSum[id][d] <= mandates[id].perDay

\* What was taken stays booked: its nonce is spent.
DrawnInv ==
  \A p \in drawn : p.intent \in authorizedDigest /\ nonceSpent(p.intent) /\ p.booking = bookings[p.intent]

MandateInv == MandateTypes /\ BookingInv /\ BudgetInv /\ DayInv /\ DrawnInv

LEMMA MandateNumbers ==
  /\ MandateHorizon \in Nat /\ MaxMandates \in Nat /\ MaxDuration \in Nat /\ IsFiniteSet(AgentIntents)
  /\ MandatePrices \subseteq Nat /\ \A t \in 0..MandateHorizon : EasternDay[t] \in Nat
  /\ \A s, t \in 0..MandateHorizon : s <= t => EasternDay[s] <= EasternDay[t]
  /\ \A m \in MandateTerms : m.expiry \in Nat /\ m.perBatch \in Nat /\ m.perDay \in Nat
  /\ \A i \in AgentIntents : i.account \in Nat /\ i.nonce \in Nat /\ i.amount \in Nat /\ i.validUntil \in Nat
  /\ Ids \subseteq Nat /\ 0 \notin Ids
BY MandateAssumption DEF MandateAssumption, Ids

LEMMA MandateFacts ==
  ASSUME MandateInv
  PROVE  /\ \A i \in AgentIntents : bookings[i] \in BookingRecords /\ bookings[i].id \in {0} \cup Ids
                                    /\ bookings[i].notional \in Nat /\ bookings[i].day \in Nat
                                    /\ notionalOf[i] = bookings[i].notional
         /\ \A id \in Ids : budgetDay[id] \in Nat /\ budgetSpent[id] \in Nat
         /\ \A id, d : bookedOn(id, d) \subseteq AgentIntents /\ IsFiniteSet(bookedOn(id, d))
         /\ \A id \in Ids, d \in Nat : /\ bookedSum[id][d] \in Nat
                                     /\ bookedSum[id][d] = SumFunctionOnSet(notionalOf, bookedOn(id, d))
         /\ \A id \in Granted : mandates[id].perDay \in Nat /\ mandates[id].expiry \in Nat /\ id \in Ids
<1>1. \A i \in AgentIntents : bookings[i] \in BookingRecords
  BY DEF MandateInv, MandateTypes, MandateTypeOK, BookingRecords
<1>2. \A i \in AgentIntents : bookings[i] \in BookingRecords /\ bookings[i].id \in {0} \cup Ids
                              /\ bookings[i].notional \in Nat /\ bookings[i].day \in Nat
                              /\ notionalOf[i] = bookings[i].notional
  BY <1>1 DEF BookingRecords, notionalOf
<1>3. \A id \in Ids : budgetDay[id] \in Nat /\ budgetSpent[id] \in Nat
  BY DEF MandateInv, MandateTypes, MandateTypeOK
<1>4. ASSUME NEW id, NEW d PROVE bookedOn(id, d) \subseteq AgentIntents /\ IsFiniteSet(bookedOn(id, d))
  BY MandateNumbers, FS_Subset DEF bookedOn
<1>5. ASSUME NEW id \in Ids, NEW d \in Nat
      PROVE  bookedSum[id][d] \in Nat /\ bookedSum[id][d] = SumFunctionOnSet(notionalOf, bookedOn(id, d))
  <2>1. \A i \in bookedOn(id, d) : notionalOf[i] \in Nat
    BY <1>2, <1>4
  <2>2. QED  BY <2>1, <1>4, SumNat DEF bookedSum
<1>6. \A id \in Granted : mandates[id].perDay \in Nat /\ mandates[id].expiry \in Nat /\ id \in Ids
  BY MandateNumbers DEF MandateInv, MandateTypes, MandateTypeOK
<1>7. QED  BY <1>2, <1>3, <1>4, <1>5, <1>6

LEMMA BookedSums ==
  ASSUME NEW id \in Ids, NEW d \in Nat
  PROVE  /\ bookedSum[id][d] = SumFunctionOnSet(notionalOf, bookedOn(id, d))
         /\ bookedSum'[id][d] = SumFunctionOnSet(notionalOf', bookedOn(id, d)')
BY DEF bookedSum

\* A step that leaves bookings and budgets alone, and what was granted.
LEMMA BookingsStay ==
  ASSUME MandateInv, MandateTypes', UNCHANGED <<budgets, mandates>>, today <= today',
         \A i \in AgentIntents : nonceSpent(i) => nonceSpent(i)',
         drawn' = drawn
  PROVE  MandateInv'
<1>1. /\ notionalOf' = notionalOf
      /\ bookedSum' = bookedSum
  BY DEF notionalOf, bookedSum, bookedOn, budgets
<1>2. BookingInv'
  BY DEF MandateInv, BookingInv, budgets, Granted
<1>3. BudgetInv'
  BY <1>1, MandateFacts DEF MandateInv, MandateTypes, BudgetInv, budgets
<1>4. DayInv'
  BY <1>1 DEF MandateInv, DayInv, budgets, Granted
<1>5. DrawnInv'
  BY DEF MandateInv, MandateTypes, DrawnInv, budgets
<1>6. QED  BY <1>2, <1>3, <1>4, <1>5 DEF MandateInv

LEMMA MandateStart == MandateInit => MandateInv
<1> SUFFICES ASSUME MandateInit PROVE MandateInv
  OBVIOUS
<1>1. today \in Nat /\ Granted = {} /\ Cardinality(Granted) = 0
  BY MandateNumbers, FS_EmptySet DEF MandateInit, today, Granted
<1>2. MandateTypes
  <2>1. bookings \in [AgentIntents -> BookingRecords]
    BY DEF MandateInit, NoBooking, BookingRecords
  <2>2. MandateTypeOK
    BY <1>1, <2>1, MandateNumbers DEF MandateInit, MandateTypeOK, BookingRecords
  <2>3. QED  BY <1>1, <2>2, FS_EmptySet DEF MandateTypes, MandateInit
<1>3. \A i \in AgentIntents : bookings[i].id = 0
  BY DEF MandateInit, NoBooking
<1>4. \A id \in Ids : \A d \in Nat : bookedOn(id, d) = {} /\ bookedSum[id][d] = 0
  BY <1>3, MandateNumbers, SumEmpty DEF bookedOn, bookedSum
<1>5. BookingInv /\ DayInv /\ DrawnInv
  BY <1>1, <1>3 DEF BookingInv, DayInv, DrawnInv, MandateInit
<1>6. BudgetInv
  BY <1>1, <1>4 DEF BudgetInv, MandateInit
<1>7. QED  BY <1>2, <1>5, <1>6 DEF MandateInv

LEMMA GrantKeeps ==
  ASSUME MandateInv, NEW m \in MandateTerms, createMandate(m)
  PROVE  MandateInv'
<1> DEFINE n == Cardinality(Granted) + 1
<1>1. /\ Granted' = Granted \cup {n} /\ n \in Ids /\ n \notin Granted
      /\ \A id \in Granted : mandates'[id] = mandates[id]
      /\ mandates'[n] = m
      /\ UNCHANGED <<mandateTime, agentPrice, agentHealthy, revoked, budgets, takenSide>>
  <2>1. n \in Ids /\ n \in Nat /\ Granted = 1..(n - 1)
    <3>1. n \in Ids
      BY DEF createMandate
    <3>2. Cardinality(Granted) = n - 1 /\ n \in Nat
      BY DEF MandateInv, MandateTypes
    <3>3. QED  BY <3>1, <3>2 DEF MandateInv, MandateTypes
  <2>2. n \notin Granted
    BY <2>1
  <2>3. mandates' = [k \in Granted \cup {n} |-> IF k = n THEN m ELSE mandates[k]]
    BY DEF createMandate
  <2>4. UNCHANGED <<mandateTime, agentPrice, agentHealthy, revoked, budgets, takenSide>>
    BY DEF createMandate
  <2> HIDE DEF n
  <2>5. QED  BY <2>1, <2>2, <2>3, <2>4 DEF Granted
<1>2. MandateTypes'
  <2>1. Cardinality(Granted) = n - 1 /\ n \in Nat /\ n >= 1
    BY DEF MandateInv, MandateTypes
  <2> HIDE DEF n
  <2>5. Granted' = 1..n
    BY <1>1, <2>1 DEF MandateInv, MandateTypes
  <2>2. Cardinality(Granted') = n
    BY <2>1, <2>5, FS_Interval
  <2>3. MandateTypeOK'
    BY <1>1 DEF MandateInv, MandateTypes, MandateTypeOK, budgets
  <2>4. QED
    BY <1>1, <2>1, <2>2, <2>3, <2>5 DEF MandateInv, MandateTypes, today, takenSide
<1> HIDE DEF n
<1>3. /\ notionalOf' = notionalOf
      /\ bookedSum' = bookedSum
  BY <1>1 DEF notionalOf, bookedSum, bookedOn, budgets
<1>4. BookingInv'
  BY <1>1 DEF MandateInv, BookingInv, budgets
<1>5. BudgetInv'
  BY <1>1, <1>3 DEF MandateInv, BudgetInv, budgets, today
<1>6. DayInv'
  <2>1. ASSUME NEW d \in Nat PROVE bookedSum[n][d] = 0
    <3>1. bookedOn(n, d) = {}
      BY <1>1, MandateNumbers DEF bookedOn, MandateInv, BookingInv
    <3>2. bookedSum[n][d] = SumFunctionOnSet(notionalOf, bookedOn(n, d))
      BY <1>1, BookedSums
    <3>3. QED  BY <3>1, <3>2, SumEmpty
  <2>2. m.perDay \in Nat
    BY MandateNumbers
  <2>3. QED  BY <1>1, <1>3, <2>1, <2>2 DEF MandateInv, DayInv
<1>7. DrawnInv'
  BY <1>1 DEF MandateInv, DrawnInv, budgets, takenSide, nonceSpent
<1>8. QED  BY <1>2, <1>4, <1>5, <1>6, <1>7 DEF MandateInv

\* The sums of the bookings after one intent's booking changed.
LEMMA OthersBooked ==
  ASSUME MandateInv, NEW i \in AgentIntents, DOMAIN bookings' = AgentIntents,
         \A j \in AgentIntents : j # i => bookings'[j] = bookings[j],
         NEW id \in Ids, NEW d \in Nat, i \notin bookedOn(id, d), i \notin bookedOn(id, d)'
  PROVE  bookedSum'[id][d] = bookedSum[id][d]
<1>1. bookedOn(id, d)' = bookedOn(id, d)
  BY DEF bookedOn
<1>2. \A j \in bookedOn(id, d) : notionalOf[j] = notionalOf'[j]
  BY DEF bookedOn, notionalOf
<1>3. SumFunctionOnSet(notionalOf, bookedOn(id, d)) = SumFunctionOnSet(notionalOf', bookedOn(id, d))
  BY <1>2, MandateFacts, SumSame
<1>4. QED  BY <1>1, <1>3, BookedSums

LEMMA BookedMore ==
  ASSUME MandateInv, NEW i \in AgentIntents, DOMAIN bookings' = AgentIntents,
         \A j \in AgentIntents : j # i => bookings'[j] = bookings[j], bookings'[i].notional \in Nat,
         NEW id \in Ids, NEW d \in Nat, i \notin bookedOn(id, d), i \in bookedOn(id, d)'
  PROVE  bookedSum'[id][d] = bookedSum[id][d] + bookings'[i].notional
<1>1. bookedOn(id, d)' = bookedOn(id, d) \cup {i}
  BY DEF bookedOn
<1>2. /\ \A j \in bookedOn(id, d) : notionalOf[j] = notionalOf'[j] /\ notionalOf'[j] \in Nat
      /\ notionalOf'[i] = bookings'[i].notional
  BY MandateFacts DEF bookedOn, notionalOf
<1>3. SumFunctionOnSet(notionalOf, bookedOn(id, d)) = SumFunctionOnSet(notionalOf', bookedOn(id, d))
  BY <1>2, MandateFacts, SumSame
<1>4. \A j \in bookedOn(id, d) \cup {i} : notionalOf'[j] \in Int
  BY <1>2
<1>5. SumFunctionOnSet(notionalOf', bookedOn(id, d) \cup {i})
        = notionalOf'[i] + SumFunctionOnSet(notionalOf', bookedOn(id, d))
  BY <1>4, MandateFacts, SumAdd
<1>6. bookedSum[id][d] = SumFunctionOnSet(notionalOf', bookedOn(id, d)) /\ bookedSum[id][d] \in Nat
  <2>1. SumFunctionOnSet(notionalOf, bookedOn(id, d)) \in Nat
    BY MandateFacts
  <2>2. bookedSum[id][d] = SumFunctionOnSet(notionalOf, bookedOn(id, d))
    BY BookedSums
  <2>3. QED  BY <1>3, <2>1, <2>2
<1>7. bookedSum'[id][d] = SumFunctionOnSet(notionalOf', bookedOn(id, d) \cup {i})
  BY <1>1, BookedSums
<1>8. notionalOf'[i] = bookings'[i].notional
  BY <1>2
<1>9. QED  BY <1>5, <1>6, <1>7, <1>8

LEMMA BookedLess ==
  ASSUME MandateInv, NEW i \in AgentIntents, DOMAIN bookings' = AgentIntents,
         \A j \in AgentIntents : j # i => bookings'[j] = bookings[j],
         NEW id \in Ids, NEW d \in Nat, i \in bookedOn(id, d), i \notin bookedOn(id, d)'
  PROVE  bookedSum[id][d] = bookedSum'[id][d] + bookings[i].notional
<1>1. bookedOn(id, d)' = bookedOn(id, d) \ {i}
  BY DEF bookedOn
<1>2. \A j \in bookedOn(id, d) \ {i} : notionalOf[j] = notionalOf'[j]
  BY DEF bookedOn, notionalOf
<1>3. /\ IsFiniteSet(bookedOn(id, d)) /\ IsFiniteSet(bookedOn(id, d) \ {i})
      /\ \A j \in bookedOn(id, d) : notionalOf[j] \in Nat /\ notionalOf[j] \in Int
  BY MandateFacts, FS_Subset
<1>4. SumFunctionOnSet(notionalOf, bookedOn(id, d) \ {i}) = SumFunctionOnSet(notionalOf', bookedOn(id, d) \ {i})
  BY <1>2, <1>3, SumSame
<1>5. SumFunctionOnSet(notionalOf, bookedOn(id, d))
        = notionalOf[i] + SumFunctionOnSet(notionalOf, bookedOn(id, d) \ {i})
  BY <1>3, SumRemove
<1>6. notionalOf[i] = bookings[i].notional /\ notionalOf[i] \in Nat
  BY MandateFacts
<1>7. SumFunctionOnSet(notionalOf, bookedOn(id, d) \ {i}) \in Nat
  BY <1>3, SumNat
<1>8. bookedSum'[id][d] = SumFunctionOnSet(notionalOf, bookedOn(id, d) \ {i})
  BY <1>1, <1>4, BookedSums
<1>9. QED  BY <1>5, <1>6, <1>7, <1>8, BookedSums

LEMMA AuthorizeKeeps ==
  ASSUME MandateInv, NEW id \in Ids, NEW i \in AgentIntents, authorize(id, i)
  PROVE  MandateInv'
<1> DEFINE notional == i.amount * agentPrice
           booking == [id |-> id, notional |-> notional, day |-> today, released |-> FALSE]
<1>0. PICK day \in Nat : day = today
  BY DEF MandateInv, MandateTypes
<1>1. /\ id \in Granted /\ i.account = id /\ i.validUntil <= mandates[id].expiry
      /\ i \notin authorizedDigest
      /\ spentToday(id) + notional <= mandates[id].perDay
      /\ budgetDay' = [budgetDay EXCEPT ![id] = today]
      /\ budgetSpent' = [budgetSpent EXCEPT ![id] = spentToday(id) + notional]
      /\ authorizedDigest' = authorizedDigest \cup {i}
      /\ bookings' = [bookings EXCEPT ![i] = booking]
      /\ UNCHANGED <<mandateTime, agentPrice, agentHealthy, mandates, revoked, accountNonces, drawn>>
  BY DEF authorize, checkRules, records, takenSide
<1>2. /\ notional \in Nat /\ today \in Nat /\ booking \in BookingRecords
      /\ bookings \in [AgentIntents -> BookingRecords]
      /\ budgetDay \in [Ids -> Nat] /\ budgetSpent \in [Ids -> Nat]
  <2>1. i.amount \in Nat /\ agentPrice \in Nat /\ today \in Nat
    BY MandateNumbers DEF MandateInv, MandateTypes, MandateTypeOK
  <2>2. notional \in Nat
    BY <2>1
  <2>3. booking \in BookingRecords
    BY <2>1, <2>2 DEF BookingRecords
  <2>4. QED  BY <2>1, <2>2, <2>3 DEF MandateInv, MandateTypes, MandateTypeOK, BookingRecords
<1>3. booking.id = id /\ booking.day = day /\ booking.notional = notional /\ booking.released = FALSE
  BY <1>0
<1> HIDE DEF notional, booking
<1>4. /\ DOMAIN bookings' = AgentIntents /\ bookings'[i] = booking
      /\ \A j \in AgentIntents : j # i => bookings'[j] = bookings[j]
      /\ bookings' \in [AgentIntents -> BookingRecords]
  BY <1>1, <1>2
<1>5. today' = today /\ today = day /\ Granted' = Granted
  BY <1>0, <1>1 DEF today, Granted
<1>6. /\ \A j \in Ids, d \in Nat : i \notin bookedOn(j, d)
      /\ i \in bookedOn(id, day)'
      /\ \A j \in Ids, d \in Nat : i \in bookedOn(j, d)' => j = id /\ d = day
  <2>1. bookings[i].id = 0 \/ bookings[i].released
    BY <1>1, MandateFacts DEF MandateInv, BookingInv, BookingRecords
  <2>2. ASSUME NEW j \in Ids, NEW d \in Nat PROVE i \notin bookedOn(j, d)
    BY <2>1, MandateNumbers DEF bookedOn
  <2>3. QED  BY <1>3, <1>4, <2>2 DEF bookedOn
<1>7. /\ bookedSum'[id][day] = bookedSum[id][day] + notional
      /\ \A j \in Ids, d \in Nat : j # id \/ d # day => bookedSum'[j][d] = bookedSum[j][d]
  <2>1. bookedSum'[id][day] = bookedSum[id][day] + notional
    BY <1>2, <1>3, <1>4, <1>5, <1>6, BookedMore
  <2>2. ASSUME NEW j \in Ids, NEW d \in Nat, j # id \/ d # day PROVE bookedSum'[j][d] = bookedSum[j][d]
    BY <1>4, <1>6, <2>2, OthersBooked
  <2>3. QED  BY <2>1, <2>2
<1>8. spentToday(id) = bookedSum[id][day]
  <2>1. budgetDay[id] <= today /\ budgetSpent[id] = bookedSum[id][budgetDay[id]]
    BY DEF MandateInv, BudgetInv
  <2>2. CASE budgetDay[id] = today
    BY <1>5, <2>1, <2>2 DEF spentToday
  <2>3. CASE budgetDay[id] # today
    <3>1. budgetDay[id] < today
      BY <1>2, <2>1, <2>3
    <3>2. ASSUME NEW j \in AgentIntents, bookings[j].id = id PROVE bookings[j].day # day
      <4>1. bookings[j].day <= budgetDay[id] /\ bookings[j].day \in Nat /\ budgetDay[id] \in Nat
        BY <3>2, MandateNumbers, MandateFacts DEF MandateInv, BookingInv
      <4>2. QED  BY <1>5, <3>1, <4>1
    <3>3. bookedOn(id, day) = {}
      BY <3>2 DEF bookedOn
    <3>4. bookedSum[id][day] = 0
      BY <3>3, BookedSums, SumEmpty
    <3>5. QED  BY <1>5, <2>3, <3>4 DEF spentToday
  <2>4. QED  BY <2>2, <2>3
<1>9. MandateTypes'
  <2>1. spentToday(id) + notional \in Nat
    BY <1>2, <1>8, MandateFacts
  <2>2. budgetDay' \in [Ids -> Nat] /\ budgetSpent' \in [Ids -> Nat]
    BY <1>1, <1>2, <2>1
  <2>3. MandateTypeOK'
    BY <1>1, <1>4, <1>5, <2>2 DEF MandateInv, MandateTypes, MandateTypeOK, BookingRecords
  <2>4. QED  BY <1>1, <1>5, <2>3 DEF MandateInv, MandateTypes
<1>10. BookingInv'
  <2> SUFFICES ASSUME NEW j \in AgentIntents
               PROVE  /\ bookings'[j].id # 0 =>
                           /\ bookings'[j].id = j.account /\ j.account \in Granted
                           /\ j.validUntil <= mandates[j.account].expiry
                           /\ bookings'[j].day <= budgetDay'[j.account]
                      /\ j \in authorizedDigest' <=> bookings'[j].id # 0 /\ ~bookings'[j].released
    BY <1>1, <1>5 DEF BookingInv
  <2>1. CASE j = i
    BY <1>1, <1>2, <1>3, <1>4, <1>5, <2>1, MandateNumbers
  <2>2. CASE j # i
    <3>1. bookings'[j] = bookings[j] /\ (j \in authorizedDigest' <=> j \in authorizedDigest)
      BY <1>1, <1>4, <2>2
    <3>2. CASE bookings[j].id = 0
      BY <3>1, <3>2 DEF MandateInv, BookingInv
    <3>3. CASE bookings[j].id # 0
      <4>1. /\ bookings[j].id = j.account /\ j.account \in Granted /\ j.account \in Ids
            /\ j.validUntil <= mandates[j.account].expiry
            /\ bookings[j].day <= budgetDay[j.account] /\ bookings[j].day \in Nat /\ budgetDay[j.account] \in Nat
        BY <3>3, MandateFacts DEF MandateInv, BookingInv
      <4>2. budgetDay[j.account] <= budgetDay'[j.account] /\ budgetDay'[j.account] \in Nat
        BY <1>1, <1>2, <4>1 DEF MandateInv, BudgetInv
      <4>3. QED  BY <3>1, <3>3, <4>1, <4>2 DEF MandateInv, BookingInv
    <3>4. QED  BY <3>2, <3>3
  <2>3. QED  BY <2>1, <2>2
<1>11. BudgetInv'
  <2>1. ASSUME NEW j \in Ids PROVE budgetDay'[j] <= today /\ budgetSpent'[j] = bookedSum'[j][budgetDay'[j]]
    <3>1. CASE j = id
      BY <1>1, <1>2, <1>5, <1>7, <1>8, <3>1
    <3>2. CASE j # id
      BY <1>1, <1>2, <1>5, <1>7, <3>2 DEF MandateInv, BudgetInv
    <3>3. QED  BY <3>1, <3>2
  <2>2. QED  BY <1>5, <2>1 DEF BudgetInv
<1>12. DayInv'
  <2>1. ASSUME NEW j \in Granted, NEW d \in Nat PROVE bookedSum'[j][d] <= mandates[j].perDay
    BY <1>1, <1>7, <1>8, MandateFacts DEF MandateInv, DayInv
  <2>2. QED  BY <1>1, <1>5, <2>1 DEF DayInv
<1>13. DrawnInv'
  <2>1. ASSUME NEW p \in drawn PROVE p.intent # i /\ p.intent \in AgentIntents
    BY <1>1 DEF MandateInv, MandateTypes, DrawnInv
  <2>2. QED  BY <1>1, <1>4, <2>1 DEF MandateInv, DrawnInv, nonceSpent
<1>14. QED  BY <1>9, <1>10, <1>11, <1>12, <1>13 DEF MandateInv

LEMMA ReleaseKeeps ==
  ASSUME MandateInv, NEW id \in Ids, NEW i \in AgentIntents, releaseUnspent(id, i)
  PROVE  MandateInv'
<1>0. PICK day \in Nat, notional \in Nat : day = bookings[i].day /\ notional = bookings[i].notional
  BY MandateFacts
<1>1. /\ bookings[i].id = id /\ ~bookings[i].released /\ ~nonceSpent(i)
      /\ budgetSpent' = [budgetSpent EXCEPT ![id] = @ - givesBack(id, bookings[i])]
      /\ bookings' = [bookings EXCEPT ![i].released = TRUE]
      /\ authorizedDigest' = authorizedDigest \ {i}
      /\ UNCHANGED <<mandateTime, agentPrice, agentHealthy, mandates, revoked, budgetDay, accountNonces, drawn>>
  BY DEF releaseUnspent, records, takenSide
<1>2. /\ bookings \in [AgentIntents -> BookingRecords] /\ budgetSpent \in [Ids -> Nat]
      /\ id # 0
  BY MandateFacts, MandateNumbers DEF MandateInv, MandateTypes, MandateTypeOK, BookingRecords
<1>3. /\ DOMAIN bookings' = AgentIntents
      /\ \A j \in AgentIntents : j # i => bookings'[j] = bookings[j]
      /\ bookings'[i].id = id /\ bookings'[i].day = day /\ bookings'[i].notional = notional
      /\ bookings'[i].released
      /\ bookings' \in [AgentIntents -> BookingRecords]
  BY <1>0, <1>1, <1>2 DEF BookingRecords
<1>4. today' = today /\ Granted' = Granted
  BY <1>1 DEF today, Granted
<1>5. /\ i \in bookedOn(id, day)
      /\ \A j \in Ids, d \in Nat : i \notin bookedOn(j, d)'
      /\ \A j \in Ids, d \in Nat : i \in bookedOn(j, d) => j = id /\ d = day
  BY <1>0, <1>1, <1>3 DEF bookedOn
<1>6. /\ bookedSum[id][day] = bookedSum'[id][day] + notional
      /\ \A j \in Ids, d \in Nat : j # id \/ d # day => bookedSum'[j][d] = bookedSum[j][d]
  <2>1. bookedSum[id][day] = bookedSum'[id][day] + bookings[i].notional
    BY <1>3, <1>5, BookedLess
  <2>2. ASSUME NEW j \in Ids, NEW d \in Nat, j # id \/ d # day PROVE bookedSum'[j][d] = bookedSum[j][d]
    BY <1>3, <1>5, <2>2, OthersBooked
  <2>3. QED  BY <1>0, <2>1, <2>2
<1>7. bookedSum'[id][day] \in Nat /\ bookedSum[id][day] \in Nat
  <2>1. bookedOn(id, day)' \subseteq AgentIntents
    BY DEF bookedOn
  <2>2. \A j \in bookedOn(id, day)' : notionalOf'[j] \in Nat
    BY <1>3, <2>1 DEF notionalOf, BookingRecords
  <2>3. IsFiniteSet(bookedOn(id, day)')
    BY <2>1, MandateNumbers, FS_Subset
  <2>4. SumFunctionOnSet(notionalOf', bookedOn(id, day)') \in Nat
    BY <2>2, <2>3, SumNat
  <2>5. QED  BY <2>4, MandateFacts DEF bookedSum
<1>8. BudgetInv'
  <2>1. ASSUME NEW j \in Ids PROVE budgetDay[j] <= today /\ budgetSpent'[j] = bookedSum'[j][budgetDay[j]]
    <3>1. budgetDay[j] <= today /\ budgetSpent[j] = bookedSum[j][budgetDay[j]]
      BY DEF MandateInv, BudgetInv
    <3>2. CASE j = id /\ budgetDay[id] = day
      BY <1>1, <1>2, <1>6, <1>7, <3>1, <3>2, <1>0 DEF givesBack
    <3>3. CASE j # id \/ budgetDay[id] # day
      BY <1>1, <1>2, <1>6, <3>1, <3>3, <1>0, MandateFacts DEF givesBack
    <3>4. QED  BY <3>2, <3>3
  <2>2. QED  BY <1>1, <1>4, <2>1 DEF BudgetInv
<1>9. MandateTypes'
  <2>1. budgetSpent'[id] \in Nat
    <3>1. CASE budgetDay[id] = day
      BY <1>1, <1>7, <1>8, <3>1 DEF BudgetInv
    <3>2. CASE budgetDay[id] # day
      BY <1>0, <1>1, <1>2, <3>2 DEF givesBack
    <3>3. QED  BY <3>1, <3>2
  <2>2. budgetSpent' \in [Ids -> Nat]
    BY <1>1, <1>2, <2>1
  <2>3. MandateTypeOK'
    BY <1>1, <1>3, <1>4, <2>2 DEF MandateInv, MandateTypes, MandateTypeOK, BookingRecords
  <2>4. QED  BY <1>1, <1>4, <2>3 DEF MandateInv, MandateTypes
<1>10. BookingInv'
  <2>1. ASSUME NEW j \in AgentIntents
        PROVE  /\ bookings'[j].id # 0 =>
                    /\ bookings'[j].id = j.account /\ j.account \in Granted
                    /\ j.validUntil <= mandates[j.account].expiry
                    /\ bookings'[j].day <= budgetDay[j.account]
               /\ j \in authorizedDigest' <=> bookings'[j].id # 0 /\ ~bookings'[j].released
    <3>1. bookings'[j].id = bookings[j].id /\ bookings'[j].day = bookings[j].day
      BY <1>0, <1>1, <1>3
    <3>2. j \in authorizedDigest' <=> bookings'[j].id # 0 /\ ~bookings'[j].released
      BY <1>1, <1>3 DEF MandateInv, BookingInv
    <3>3. QED  BY <3>1, <3>2 DEF MandateInv, BookingInv
  <2>2. QED  BY <1>1, <1>4, <2>1 DEF BookingInv
<1>11. DayInv'
  <2>1. ASSUME NEW j \in Granted, NEW d \in Nat PROVE bookedSum'[j][d] <= mandates[j].perDay
    <3>1. bookedSum[j][d] <= mandates[j].perDay /\ mandates[j].perDay \in Nat /\ j \in Ids
      BY MandateFacts DEF MandateInv, DayInv
    <3>2. QED  BY <1>2, <1>6, <1>7, <3>1
  <2>2. QED  BY <1>1, <1>4, <2>1 DEF DayInv
<1>12. DrawnInv'
  <2>1. ASSUME NEW p \in drawn PROVE p.intent # i /\ p.intent \in AgentIntents
    BY <1>1 DEF MandateInv, MandateTypes, DrawnInv
  <2>2. QED  BY <1>1, <1>3, <2>1 DEF MandateInv, DrawnInv, nonceSpent
<1>13. QED  BY <1>8, <1>9, <1>10, <1>11, <1>12 DEF MandateInv

LEMMA PullKeeps ==
  ASSUME MandateInv, NEW i \in AgentIntents, pull(i)
  PROVE  MandateInv'
<1> DEFINE took == [intent |-> i, booking |-> bookings[i]]
<1>1. /\ i \in authorizedDigest /\ drawn' = drawn \cup {took}
      /\ accountNonces' = accountNonces \cup {<<i.account, i.nonce>>}
      /\ UNCHANGED <<mandateTime, agentPrice, agentHealthy, mandates, revoked, budgets>>
  BY DEF pull, accountAuthorized, records
<1>2. took \in [intent : AgentIntents, booking : BookingRecords] /\ took.intent = i /\ took.booking = bookings[i]
  BY MandateFacts
<1> HIDE DEF took
<1>3. MandateTypes'
  <2>1. drawn' \subseteq [intent : AgentIntents, booking : BookingRecords] /\ IsFiniteSet(drawn')
    BY <1>1, <1>2, FS_AddElement DEF MandateInv, MandateTypes
  <2>2. MandateTypeOK' /\ Granted' = Granted /\ today' = today
    BY <1>1 DEF MandateInv, MandateTypes, MandateTypeOK, budgets, Granted, today
  <2>3. QED  BY <2>1, <2>2 DEF MandateInv, MandateTypes
<1>4. notionalOf' = notionalOf /\ bookedSum' = bookedSum
  BY <1>1 DEF notionalOf, bookedSum, bookedOn, budgets
<1>5. BookingInv'
  BY <1>1 DEF MandateInv, BookingInv, budgets, Granted
<1>6. BudgetInv'
  BY <1>1, <1>4 DEF MandateInv, BudgetInv, budgets, today
<1>7. DayInv'
  BY <1>1, <1>4 DEF MandateInv, DayInv, Granted
<1>8. DrawnInv'
  <2>1. ASSUME NEW p \in drawn' PROVE p.intent \in authorizedDigest /\ nonceSpent(p.intent)' /\ p.booking = bookings[p.intent]
    BY <1>1, <1>2 DEF MandateInv, DrawnInv, nonceSpent
  <2>2. QED  BY <1>1, <2>1 DEF DrawnInv, budgets
<1>9. QED  BY <1>3, <1>5, <1>6, <1>7, <1>8 DEF MandateInv

LEMMA MandateStep == MandateInv /\ [MandateNext]_mandateVars => MandateInv'
<1> SUFFICES ASSUME MandateInv, [MandateNext]_mandateVars PROVE MandateInv'
  OBVIOUS
<1>1. ASSUME NEW id \in Ids, revokeMandate(id) PROVE MandateInv'
  <2>1. MandateTypes' /\ today' = today /\ UNCHANGED <<budgets, mandates, takenSide>>
    BY <1>1 DEF revokeMandate, MandateInv, MandateTypes, MandateTypeOK, budgets, takenSide, Granted, today
  <2>2. QED  BY <2>1, BookingsStay DEF MandateInv, MandateTypes, takenSide, nonceSpent
<1>2. CASE OracleMoves
  <2>1. MandateTypes' /\ today' = today /\ UNCHANGED <<budgets, mandates, takenSide>>
    BY <1>2 DEF OracleMoves, MandateInv, MandateTypes, MandateTypeOK, budgets, takenSide, records, Granted, today
  <2>2. QED  BY <2>1, BookingsStay DEF MandateInv, MandateTypes, takenSide, nonceSpent
<1>3. CASE MandateSecond
  <2>1. mandateTime \in 0..MandateHorizon /\ mandateTime' = mandateTime + 1 /\ mandateTime < MandateHorizon
    BY <1>3 DEF MandateSecond, MandateInv, MandateTypes, MandateTypeOK
  <2>2. mandateTime' \in 0..MandateHorizon /\ mandateTime <= mandateTime'
    BY <2>1, MandateNumbers
  <2>3. today' \in Nat /\ today <= today'
    BY <2>1, <2>2, MandateNumbers DEF today
  <2>4. UNCHANGED <<agentPrice, agentHealthy, records, budgets, takenSide>>
    BY <1>3 DEF MandateSecond
  <2>5. MandateTypes'
    BY <2>2, <2>3, <2>4 DEF MandateInv, MandateTypes, MandateTypeOK, budgets, takenSide, records, Granted
  <2>6. QED  BY <2>3, <2>4, <2>5, BookingsStay DEF takenSide, nonceSpent, records
<1>4. CASE UNCHANGED mandateVars
  <2>1. MandateTypes' /\ today' = today /\ UNCHANGED <<budgets, mandates, takenSide>>
    BY <1>4 DEF mandateVars, MandateInv, MandateTypes, MandateTypeOK, budgets, takenSide, records, Granted, today
  <2>2. QED  BY <2>1, BookingsStay DEF MandateInv, MandateTypes, takenSide, nonceSpent
<1>5. QED
  BY <1>1, <1>2, <1>3, <1>4, GrantKeeps, AuthorizeKeeps, ReleaseKeeps, PullKeeps DEF MandateNext

\* Of a day's bookings some were taken, others may be: together within the cap.
LEMMA DayHolds == MandateInv => WithinDay
<1> SUFFICES ASSUME MandateInv, NEW id \in Granted, NEW t \in 0..mandateTime
             PROVE  LET d == EasternDay[t] IN
                      SumFunctionOnSet(notionalOf,
                        {i \in AgentIntents : bookings[i].id = id /\ bookings[i].day = d /\ i.validUntil >= mandateTime
                                              /\ i \in authorizedDigest /\ ~nonceSpent(i)})
                      + SumFunctionOnSet(drawnOf, {p \in drawn : p.booking.id = id /\ p.booking.day = d})
                      <= mandates[id].perDay
  BY DEF WithinDay
<1> DEFINE d == EasternDay[t]
           due == {i \in AgentIntents : bookings[i].id = id /\ bookings[i].day = d /\ i.validUntil >= mandateTime
                                        /\ i \in authorizedDigest /\ ~nonceSpent(i)}
           gone == {p \in drawn : p.booking.id = id /\ p.booking.day = d}
           m == [p \in gone |-> p.intent]
           image == {m[p] : p \in gone}
<1>1. d \in Nat
  <2>1. t \in 0..MandateHorizon
    BY MandateNumbers DEF MandateInv, MandateTypes, MandateTypeOK
  <2>2. QED  BY <2>1, MandateNumbers
<1>2. \A p \in gone : /\ m[p] \in AgentIntents /\ m[p] \in authorizedDigest /\ nonceSpent(m[p])
                      /\ p = [intent |-> m[p], booking |-> bookings[m[p]]]
                      /\ drawnOf[p] = bookings[m[p]].notional
                      /\ bookings[m[p]].id = id /\ bookings[m[p]].day = d
  BY DEF MandateInv, MandateTypes, DrawnInv, drawnOf
<1>3. \A i \in due \cup image : i \in bookedOn(id, d)
  BY <1>2 DEF bookedOn, MandateInv, BookingInv
<1>4. due \cap image = {} /\ due \cup image \subseteq bookedOn(id, d)
  BY <1>2, <1>3
<1>5. IsFiniteSet(gone) /\ IsFiniteSet(due) /\ IsFiniteSet(image)
  <2>1. IsFiniteSet(gone)
    BY FS_Subset DEF MandateInv, MandateTypes
  <2>2. due \subseteq bookedOn(id, d) /\ image \subseteq bookedOn(id, d)
    BY <1>4
  <2> HIDE DEF gone, due, image
  <2>3. QED  BY <2>1, <2>2, MandateFacts, FS_Subset
<1>6. SumFunctionOnSet(notionalOf, image) = SumFunctionOnSet(drawnOf, gone)
  <2> HIDE DEF gone, m, due, d
  <2>1. ASSUME NEW p \in gone, NEW q \in gone, m[p] = m[q] PROVE p = q
    BY <1>2, <2>1
  <2>2. \A p \in gone : drawnOf[p] \in Int /\ notionalOf[m[p]] = drawnOf[p]
    BY <1>2, MandateFacts
  <2> DEFINE f == drawnOf
             g == notionalOf
  <2> HIDE DEF f, g
  <2>0. IsFiniteSet(gone)
    BY <1>5
  <2>3. \A p, q \in gone : m[p] = m[q] => p = q
    BY <2>1
  <2>4. \A p \in gone : f[p] \in Int /\ g[m[p]] = f[p]
    BY <2>2 DEF f, g
  <2>5. SumFunctionOnSet(g, {m[p] : p \in gone}) = SumFunctionOnSet(f, gone)
    <3>1. \A S, F, G, M : IsFiniteSet(S) /\ (\A p, q \in S : M[p] = M[q] => p = q)
                        /\ (\A p \in S : F[p] \in Int /\ G[M[p]] = F[p])
            => SumFunctionOnSet(G, {M[p] : p \in S}) = SumFunctionOnSet(F, S)
      BY SumRename
    <3>2. QED  BY <2>0, <2>3, <2>4, <3>1
  <2>6. QED  BY <2>5 DEF f, g
<1> HIDE DEF d, due, gone, image, m
<1>7. \A i \in bookedOn(id, d) : notionalOf[i] \in Nat
  BY MandateFacts
<1>8. SumFunctionOnSet(notionalOf, due \cup image)
        = SumFunctionOnSet(notionalOf, due) + SumFunctionOnSet(notionalOf, image)
  BY <1>4, <1>5, <1>7, SumUnion
<1>9. SumFunctionOnSet(notionalOf, due \cup image) <= bookedSum[id][d]
  <2>1. SumFunctionOnSet(notionalOf, due \cup image) <= SumFunctionOnSet(notionalOf, bookedOn(id, d))
    BY <1>4, <1>7, MandateFacts, SumSubset
  <2>2. QED  BY <1>1, <2>1, MandateFacts
<1>10. bookedSum[id][d] <= mandates[id].perDay /\ bookedSum[id][d] \in Nat /\ mandates[id].perDay \in Nat
  BY <1>1, MandateFacts DEF MandateInv, DayInv
<1>11. SumFunctionOnSet(notionalOf, due) \in Nat /\ SumFunctionOnSet(notionalOf, image) \in Nat
  <2>1. \A i \in due \cup image : notionalOf[i] \in Nat
    BY <1>4, <1>7
  <2>2. QED  BY <1>5, <2>1, SumNat
<1>12. SumFunctionOnSet(notionalOf, due) + SumFunctionOnSet(drawnOf, gone) <= mandates[id].perDay
  BY <1>6, <1>8, <1>9, <1>10, <1>11
<1>13. QED  BY <1>12 DEF d, due, gone

LEMMA BoxHolds == MandateInv => MandateHolds
<1> SUFFICES ASSUME MandateInv PROVE MandateHolds
  OBVIOUS
<1>1. LedgerExact
  BY MandateFacts DEF MandateInv, BudgetInv, LedgerExact
<1>2. AuthorizedStaysGood
  <2> SUFFICES ASSUME NEW i \in authorizedDigest, mandateTime <= i.validUntil
               PROVE  \/ accountAuthorized(i) \/ i.account \in revoked
                      \/ mandateTime = mandates[i.account].expiry
    BY DEF AuthorizedStaysGood
  <2>1. i \in AgentIntents /\ mandateTime \in Nat
    BY MandateNumbers DEF MandateInv, MandateTypes, MandateTypeOK
  <2>2. bookings[i].id = i.account /\ i.account \in Granted /\ i.validUntil <= mandates[i.account].expiry
    BY <2>1 DEF MandateInv, BookingInv
  <2>3. i.validUntil \in Nat /\ mandates[i.account].expiry \in Nat
    BY <2>1, <2>2, MandateNumbers, MandateFacts
  <2>4. QED  BY <2>1, <2>2, <2>3 DEF accountAuthorized
<1>3. QED  BY <1>1, <1>2, DayHolds DEF MandateHolds, MandateInv, MandateTypes

\* Whatever an agent signs and whoever books and releases, in whatever order, a
\* mandate's ledger is exact, no day's takings exceed its cap, and what was
\* authorized stays good to its end (authorize, releaseUnspent and
\* isValidSignature of AgentMandate.sol and MandateAccount.sol).
THEOREM MandateAlwaysHolds == MandateSpec => []MandateHolds
<1>1. MandateSpec => []MandateInv
  BY MandateStart, MandateStep, PTL DEF MandateSpec
<1>2. QED  BY <1>1, BoxHolds, PTL
----------------------------------------------------------------------------
(* The faucet.                                                             *)

Stages == {"idle", "limited", "queued", "held", "read", "sending", "waiting", "sent", "reverted", "failed",
           "out of coins", "nonce refused"}
InService == {"queued", "held", "read", "sending", "waiting"}
Transfers == [nonce : Nat, to : Accounts, asset : Assets, amount : Nat]

FaucetTypes ==
  /\ faucetCase \in FaucetCases /\ faucetSecond \in Nat
  /\ stage \in [Asks -> Stages]
  /\ running \in [Asks -> [due : Seq(Nat), nonce : Nat, sends : SUBSET [i : Nat, nonce : Nat], since : Nat]]
  /\ balances \in [Accounts -> [Assets -> Nat]] /\ minedNonces \in Nat
  /\ IsFiniteSet(sent) /\ pending \subseteq sent /\ sent \subseteq Transfers

\* Only the first of the queue is past its turn, and what a request sent is
\* remembered while it runs.
QueueInv ==
  /\ queue \in Seq(Asks)
  /\ \A j, k \in DOMAIN queue : queue[j] = queue[k] => j = k
  /\ \A r \in Asks : stage[r] \in InService <=> \E k \in DOMAIN queue : queue[k] = r
  /\ \A k \in DOMAIN queue : k # 1 => stage[queue[k]] = "queued"
  /\ \A r \in Asks : stage[r] \notin {"sending", "waiting"} => running[r].sends = {}
  /\ \A r \in Asks : stage[r] \in {"held", "read", "sending"} => DOMAIN running[r].due = DOMAIN FaucetAssets

\* What is mined and what waits to be uses the first nonces, each once.
NonceInv ==
  /\ \A p \in pending : minedNonces <= p.nonce
  /\ \A p, q \in pending : p.nonce = q.nonce => p = q
  /\ Cardinality(pending) \in Nat /\ Cardinality(sent) = minedNonces + Cardinality(pending)
  /\ \A p \in sent : p.nonce < minedNonces + Cardinality(pending)

CountInv ==
  /\ \A r \in Asks : stage[r] = "sending" => running[r].nonce = minedNonces + Cardinality(pending)
  /\ NeverCollides

\* A transfer on its way is one its request waits for, or its account is given up.
PendingInv ==
  \A p \in pending :
    \/ p.to \in gaveUp
    \/ \E r \in Asks : /\ stage[r] \in {"sending", "waiting"} /\ AskedFor[r] = p.to
                       /\ \E s \in running[r].sends : s.nonce = p.nonce

\* What an account has or is about to have.
credit == [a \in Accounts |-> [x \in Assets |-> balances[a][x] + coming(a, x)]]
bound == [i \in DOMAIN FaucetAssets |->
            IF faucetCase.held > Targets[FaucetAssets[i]] /\ i # 1 THEN faucetCase.held ELSE Targets[FaucetAssets[i]]]

\* What the running request has yet to send was computed from a balance nothing is
\* on its way to.
DueInv ==
  \A r \in Asks : stage[r] \in {"held", "read", "sending"} /\ AskedFor[r] \notin gaveUp =>
    \A i \in nextDue(r) : credit[AskedFor[r]][FaucetAssets[i]] + running[r].due[i] <= bound[i]

CreditInv == \A a \in Accounts \ gaveUp : \A i \in DOMAIN FaucetAssets : credit[a][FaucetAssets[i]] <= bound[i]

newer(list, T) == {n \in DOMAIN list : list[n] > T - Hour}
window(list, t) == {n \in DOMAIN list : list[n] \in t..(t + Hour - 1)}

\* The times a window still keeps are as many as were taken, from now on.
WindowInv ==
  \A k \in WindowKeys :
    /\ takes[k] \in Seq(Nat) /\ taken[k] \in Seq(Nat)
    /\ \A n \in DOMAIN taken[k] : taken[k][n] <= faucetSecond
    /\ \A T \in Nat : T >= faucetSecond => Cardinality(newer(takes[k], T)) = Cardinality(newer(taken[k], T))
    /\ \A n \in DOMAIN taken[k] : Cardinality(window(taken[k], taken[k][n])) <= limitOf(k)

FaucetInv == FaucetTypes /\ QueueInv /\ NonceInv /\ CountInv /\ PendingInv /\ DueInv /\ CreditInv /\ WindowInv

LEMMA FaucetNumbers ==
  /\ PerAddress \in Nat /\ PerIp \in Nat /\ Hour \in Nat /\ \A k : limitOf(k) \in Nat
  /\ Len(FaucetAssets) \in Nat \ {0} /\ DOMAIN FaucetAssets = 1..Len(FaucetAssets) /\ 1 \in DOMAIN FaucetAssets
  /\ \A i \in DOMAIN FaucetAssets : FaucetAssets[i] \in Assets /\ Targets[FaucetAssets[i]] \in Nat
  /\ \A i, j \in DOMAIN FaucetAssets : FaucetAssets[i] = FaucetAssets[j] => i = j
  /\ \A x \in Assets : \E i \in DOMAIN FaucetAssets : FaucetAssets[i] = x
  /\ \A c \in FaucetCases : c.held \in Nat
<1>1. {PerAddress, PerIp, Hour} \subseteq Nat
  BY FaucetAssumption
<1>2. FaucetAssets \in Seq(Assets) /\ FaucetAssets # <<>>
  BY FaucetAssumption DEF Assets
<1>3. \A i, j \in DOMAIN FaucetAssets : FaucetAssets[i] = FaucetAssets[j] => i = j
  BY FaucetAssumption DEF IsInjective
<1>4. \A x \in Assets : \E i \in DOMAIN FaucetAssets : FaucetAssets[i] = x
  BY DEF Assets, Range
<1>5. \A c \in FaucetCases : c.held \in Nat
  BY FaucetAssumption
<1>6. \A i \in DOMAIN FaucetAssets : Targets[FaucetAssets[i]] \in Nat
  BY FaucetAssumption
<1>7. \A k : limitOf(k) \in Nat
  BY <1>1 DEF limitOf
<1>8. Len(FaucetAssets) \in Nat \ {0} /\ DOMAIN FaucetAssets = 1..Len(FaucetAssets) /\ 1 \in DOMAIN FaucetAssets
  BY <1>2
<1>9. \A i \in DOMAIN FaucetAssets : FaucetAssets[i] \in Assets
  BY <1>2
<1>10. QED  BY <1>1, <1>3, <1>4, <1>5, <1>6, <1>7, <1>8, <1>9

----------------------------------------------------------------------------
(* The faucet's windows.                                                   *)

LEMMA NewerFinite ==
  ASSUME NEW list \in Seq(Nat), NEW T \in Nat
  PROVE  IsFiniteSet(newer(list, T)) /\ Cardinality(newer(list, T)) \in Nat
<1>1. IsFiniteSet(DOMAIN list)
  BY FS_Interval
<1>2. newer(list, T) \subseteq DOMAIN list
  BY DEF newer
<1>3. QED  BY <1>1, <1>2, FS_Subset, FS_CardinalityType

LEMMA WindowFinite ==
  ASSUME NEW list \in Seq(Nat), NEW t \in Nat
  PROVE  IsFiniteSet(window(list, t)) /\ Cardinality(window(list, t)) \in Nat
<1>1. IsFiniteSet(DOMAIN list)
  BY FS_Interval
<1>2. window(list, t) \subseteq DOMAIN list
  BY DEF window
<1>3. QED  BY <1>1, <1>2, FS_Subset, FS_CardinalityType

\* Dropping what is older than an hour changes no count from now on.
LEMMA NewerKept ==
  ASSUME NEW list \in Seq(Nat), NEW now \in Nat
  PROVE  LET recently == inOrder(list, newer(list, now))
         IN  /\ recently \in Seq(Nat)
             /\ Len(recently) = Cardinality(newer(list, now))
             /\ \A T \in Nat : T >= now => Cardinality(newer(recently, T)) = Cardinality(newer(list, T))
<1> DEFINE K == newer(list, now)
           recently == inOrder(list, K)
<1>1. K \subseteq DOMAIN list /\ DOMAIN list \subseteq Nat
  BY DEF newer
<1>2. PICK n, pos : TakesFrom(recently, Nat, list, K, n, pos)
  BY <1>1, InTheirOrder
<1>3. Len(recently) = Cardinality(K)
  <2>1. DOMAIN recently = 1..Cardinality(K) /\ Cardinality(K) \in Nat
    BY NewerFinite DEF inOrder
  <2>2. recently \in Seq(Nat)
    BY <1>2 DEF TakesFrom
  <2> HIDE DEF recently, K
  <2>3. QED  BY <2>1, <2>2
<1>4. ASSUME NEW T \in Nat, T >= now PROVE Cardinality(newer(recently, T)) = Cardinality(newer(list, T))
  <2> DEFINE from == newer(recently, T)
             onto == newer(list, T)
             map  == [m \in from |-> pos[m]]
  <2>1. \A j \in onto : j \in K
    BY <1>4, FaucetNumbers DEF newer
  <2>2. /\ \A m \in from : m \in 1..n /\ pos[m] \in onto
        /\ \A j \in onto : \E m \in from : pos[m] = j
    <3> HIDE DEF K, recently
    <3>1. ASSUME NEW m \in from PROVE m \in 1..n /\ pos[m] \in onto
      BY <1>1, <1>2 DEF TakesFrom, newer
    <3>2. ASSUME NEW j \in onto PROVE \E m \in from : pos[m] = j
      <4>1. PICK m \in 1..n : pos[m] = j
        BY <1>2, <2>1 DEF TakesFrom
      <4>2. m \in from
        BY <1>2, <4>1 DEF TakesFrom, newer
      <4>3. QED  BY <4>1, <4>2
    <3>3. QED  BY <3>1, <3>2
  <2>3. \A l, m \in from : pos[l] = pos[m] => l = m
    BY <1>2, <2>2 DEF TakesFrom
  <2>4. recently \in Seq(Nat)
    BY <1>2 DEF TakesFrom
  <2>5. IsFiniteSet(from)
    BY <2>4, NewerFinite
  <2> HIDE DEF from, onto, recently, K
  <2>6. map \in Bijection(from, onto)
    BY <2>2, <2>3 DEF Bijection, Injection, Surjection, IsInjective
  <2>7. Cardinality(from) = Cardinality(onto)
    BY <2>5, <2>6, FS_Bijection DEF ExistsBijection
  <2>8. QED  BY <2>7 DEF from, onto
<1>5. recently \in Seq(Nat)
  BY <1>2 DEF TakesFrom
<1>6. QED  BY <1>3, <1>4, <1>5

LEMMA NewerAppend ==
  ASSUME NEW list \in Seq(Nat), NEW t \in Nat, NEW T \in Nat
  PROVE  Cardinality(newer(Append(list, t), T)) =
           IF t > T - Hour THEN Cardinality(newer(list, T)) + 1 ELSE Cardinality(newer(list, T))
<1> DEFINE n == Len(list) + 1
<1>1. /\ n \notin newer(list, T)
      /\ newer(Append(list, t), T) = IF t > T - Hour THEN newer(list, T) \cup {n} ELSE newer(list, T)
  BY FaucetNumbers DEF newer
<1>2. IsFiniteSet(newer(list, T))
  BY NewerFinite
<1> HIDE DEF n
<1>3. Cardinality(newer(list, T) \cup {n}) = Cardinality(newer(list, T)) + 1
  BY <1>1, <1>2, FS_AddElement
<1>4. QED  BY <1>1, <1>3

\* A time taken while fewer than the limit are kept overfills no hour.
LEMMA WindowAppend ==
  ASSUME NEW list \in Seq(Nat), NEW now \in Nat, NEW limit \in Nat,
         \A n \in DOMAIN list : list[n] <= now,
         Cardinality(newer(list, now)) < limit,
         \A n \in DOMAIN list : Cardinality(window(list, list[n])) <= limit
  PROVE  \A n \in DOMAIN Append(list, now) : Cardinality(window(Append(list, now), Append(list, now)[n])) <= limit
<1> DEFINE longer == Append(list, now)
           last   == Len(list) + 1
           full   == newer(list, now) \cup {last}
<1>1. /\ longer \in Seq(Nat) /\ Len(list) \in Nat /\ DOMAIN longer = 1..last /\ DOMAIN list = 1..Len(list)
      /\ \A n \in DOMAIN list : longer[n] = list[n]
      /\ longer[last] = now
  OBVIOUS
<1>2. last \notin newer(list, now)
  BY <1>1 DEF newer
<1>3. IsFiniteSet(full) /\ Cardinality(full) <= limit
  <2>1. IsFiniteSet(newer(list, now)) /\ Cardinality(newer(list, now)) \in Nat
    BY NewerFinite
  <2>2. Cardinality(full) = Cardinality(newer(list, now)) + 1
    BY <1>2, <2>1, FS_AddElement
  <2>3. IsFiniteSet(full)
    BY <2>1, FS_AddElement
  <2>4. QED  BY <2>1, <2>2, <2>3
<1>4. ASSUME NEW t \in Nat, \E n \in 1..last : n \in window(longer, t) /\ longer[n] > now - Hour /\ t > now - Hour
      PROVE  Cardinality(window(longer, t)) <= limit
  <2>1. ASSUME NEW n \in window(longer, t) PROVE n \in full
    <3>1. n \in 1..last /\ longer[n] >= t /\ longer[n] \in Nat
      BY <1>1, FaucetNumbers DEF window
    <3>2. CASE n = last
      BY <3>2
    <3>3. CASE n # last
      <4>1. n \in DOMAIN list /\ list[n] = longer[n]
        BY <1>1, <3>1, <3>3
      <4>2. list[n] > now - Hour
        BY <1>4, <3>1, <4>1, FaucetNumbers
      <4>3. QED  BY <4>1, <4>2 DEF newer
    <3>4. QED  BY <3>2, <3>3
  <2>2. Cardinality(window(longer, t)) <= Cardinality(full)
    BY <1>3, <2>1, FS_Subset
  <2>3. Cardinality(full) \in Nat /\ Cardinality(window(longer, t)) \in Nat
    BY <1>1, <1>3, WindowFinite, FS_CardinalityType
  <2> HIDE DEF full, longer
  <2>4. QED  BY <1>3, <2>2, <2>3
<1> SUFFICES ASSUME NEW n \in 1..last PROVE Cardinality(window(longer, longer[n])) <= limit
  BY <1>1
<1>5. longer[n] \in Nat /\ longer[n] <= now
  BY <1>1
<1>6. CASE n = last
  <2>1. CASE Hour = 0
    <3>1. window(longer, longer[n]) = {}
      BY <1>1, <1>5, <2>1 DEF window
    <3>2. QED  BY <3>1, FS_EmptySet
  <2>2. CASE Hour # 0
    <3>1. n \in window(longer, longer[n]) /\ longer[n] > now - Hour
      BY <1>1, <1>5, <1>6, <2>2, FaucetNumbers DEF window
    <3>2. QED  BY <1>4, <1>5, <3>1
  <2>3. QED  BY <2>1, <2>2
<1>7. CASE n # last
  <2>1. n \in DOMAIN list /\ longer[n] = list[n] /\ list[n] \in Nat
    BY <1>1, <1>7
  <2>2. CASE list[n] > now - Hour
    <3>1. n \in window(longer, longer[n]) /\ longer[n] > now - Hour
      BY <1>1, <2>1, <2>2, FaucetNumbers DEF window
    <3>2. QED  BY <1>4, <1>5, <3>1
  <2>3. CASE ~(list[n] > now - Hour)
    <3>1. window(longer, longer[n]) = window(list, list[n])
      BY <1>1, <2>1, <2>3, FaucetNumbers DEF window
    <3>2. QED  BY <2>1, <3>1
  <2>4. QED  BY <2>2, <2>3
<1>8. QED  BY <1>6, <1>7

\* A step that asks no window.
LEMMA WindowsStay ==
  ASSUME FaucetTypes, WindowInv, UNCHANGED <<takes, taken>>, faucetSecond' \in Nat, faucetSecond <= faucetSecond'
  PROVE  WindowInv'
<1> SUFFICES ASSUME NEW k \in WindowKeys
    PROVE /\ takes'[k] \in Seq(Nat) /\ taken'[k] \in Seq(Nat)
          /\ \A n \in DOMAIN taken'[k] : taken'[k][n] <= faucetSecond'
          /\ \A T \in Nat : T >= faucetSecond' => Cardinality(newer(takes'[k], T)) = Cardinality(newer(taken'[k], T))
          /\ \A n \in DOMAIN taken'[k] : Cardinality(window(taken'[k], taken'[k][n])) <= limitOf(k)
  BY DEF WindowInv, WindowKeys, newer, window, limitOf
<1>1. takes[k] \in Seq(Nat) /\ taken[k] \in Seq(Nat)
  BY DEF WindowInv
<1>2. faucetSecond \in Nat
  BY DEF FaucetTypes
<1>3. \A n \in DOMAIN taken[k] : taken[k][n] \in Nat /\ taken[k][n] <= faucetSecond
  BY <1>1 DEF WindowInv
<1>4. \A n \in DOMAIN taken[k] : taken[k][n] <= faucetSecond'
  BY <1>2, <1>3
<1>5. \A T \in Nat : T >= faucetSecond' => Cardinality(newer(takes[k], T)) = Cardinality(newer(taken[k], T))
  <2>1. \A T \in Nat : T >= faucetSecond => Cardinality(newer(takes[k], T)) = Cardinality(newer(taken[k], T))
    BY DEF WindowInv
  <2>2. \A T \in Nat : T >= faucetSecond' => T >= faucetSecond
    BY <1>2
  <2>3. QED  BY <2>1, <2>2
<1>6. \A n \in DOMAIN taken[k] : Cardinality(window(taken[k], taken[k][n])) <= limitOf(k)
  BY DEF WindowInv
<1>7. QED  BY <1>1, <1>4, <1>5, <1>6

LEMMA NoWindowAsked ==
  ASSUME FaucetTypes, WindowInv, UNCHANGED <<takes, taken, faucetSecond>>
  PROVE  WindowInv'
<1>1. faucetSecond' = faucetSecond /\ faucetSecond \in Nat
  BY DEF FaucetTypes
<1>2. faucetSecond' \in Nat /\ faucetSecond <= faucetSecond'
  BY <1>1
<1>3. QED  BY <1>2, WindowsStay

LEMMA AskKeepsWindows ==
  ASSUME FaucetTypes, WindowInv, NEW r \in Asks, POSTfaucet(r)
  PROVE  WindowInv'
<1> DEFINE ip == <<"ip", AskedFrom[r]>>
           address == <<"address", AskedFor[r]>>
           asks == IF mayTake(ip) THEN {ip, address} ELSE {ip}
           took == {k \in asks : mayTake(k)}
<1>1. /\ takes' = [k \in WindowKeys |->
                    IF k \notin asks THEN takes[k]
                    ELSE IF k \in took THEN Append(recent(k), faucetSecond) ELSE recent(k)]
      /\ taken' = [k \in WindowKeys |-> IF k \in took THEN Append(taken[k], faucetSecond) ELSE taken[k]]
      /\ faucetSecond' = faucetSecond
  <2>1. takes' = [k \in WindowKeys |-> IF k \in asks THEN kept(k, k \in took) ELSE takes[k]]
    BY DEF POSTfaucet
  <2>2. taken' = [k \in WindowKeys |-> IF k \in took THEN Append(taken[k], faucetSecond) ELSE taken[k]]
    BY DEF POSTfaucet
  <2>3. faucetSecond' = faucetSecond
    BY DEF POSTfaucet
  <2> HIDE DEF asks, took
  <2>4. QED  BY <2>1, <2>2, <2>3 DEF kept
<1>0. \A k \in took : k \in asks /\ Len(recent(k)) < limitOf(k)
  BY DEF mayTake
<1> HIDE DEF asks, took
<1>2. PICK now \in Nat : now = faucetSecond
  BY DEF FaucetTypes
<1> SUFFICES ASSUME NEW k \in WindowKeys
    PROVE /\ takes'[k] \in Seq(Nat) /\ taken'[k] \in Seq(Nat)
          /\ \A n \in DOMAIN taken'[k] : taken'[k][n] <= now
          /\ \A T \in Nat : T >= now => Cardinality(newer(takes'[k], T)) = Cardinality(newer(taken'[k], T))
          /\ \A n \in DOMAIN taken'[k] : Cardinality(window(taken'[k], taken'[k][n])) <= limitOf(k)
  BY <1>1, <1>2 DEF WindowInv, WindowKeys, newer, window, limitOf
<1>3. /\ takes[k] \in Seq(Nat) /\ taken[k] \in Seq(Nat)
      /\ \A n \in DOMAIN taken[k] : taken[k][n] <= now
      /\ \A T \in Nat : T >= now => Cardinality(newer(takes[k], T)) = Cardinality(newer(taken[k], T))
      /\ \A n \in DOMAIN taken[k] : Cardinality(window(taken[k], taken[k][n])) <= limitOf(k)
  BY <1>2 DEF WindowInv
<1>4. CASE k \notin asks
  BY <1>0, <1>1, <1>3, <1>4
<1> DEFINE recently == inOrder(takes[k], newer(takes[k], now))
<1>5. recent(k) = recently
  BY <1>2 DEF recent, newer
<1>6. /\ recently \in Seq(Nat)
      /\ Len(recently) = Cardinality(newer(takes[k], now))
      /\ \A T \in Nat : T >= now => Cardinality(newer(recently, T)) = Cardinality(newer(takes[k], T))
  BY <1>3, NewerKept
<1> HIDE DEF recently
<1>7. CASE k \in asks /\ k \notin took
  <2>1. takes'[k] = recently /\ taken'[k] = taken[k]
    BY <1>1, <1>5, <1>7
  <2>2. QED  BY <1>3, <1>6, <2>1
<1>8. CASE k \in took
  <2>1. takes'[k] = Append(recently, now) /\ taken'[k] = Append(taken[k], now)
    BY <1>0, <1>1, <1>2, <1>5, <1>8
  <2>2. takes'[k] \in Seq(Nat) /\ taken'[k] \in Seq(Nat)
    BY <1>3, <1>6, <2>1
  <2>3. \A n \in DOMAIN taken'[k] : taken'[k][n] <= now
    BY <1>3, <2>1
  <2>4. ASSUME NEW T \in Nat, T >= now PROVE Cardinality(newer(takes'[k], T)) = Cardinality(newer(taken'[k], T))
    <3>1. Cardinality(newer(recently, T)) = Cardinality(newer(taken[k], T))
      BY <1>3, <1>6, <2>4
    <3>2. Cardinality(newer(Append(recently, now), T)) =
            IF now > T - Hour THEN Cardinality(newer(recently, T)) + 1 ELSE Cardinality(newer(recently, T))
      BY <1>6, NewerAppend
    <3>3. Cardinality(newer(Append(taken[k], now), T)) =
            IF now > T - Hour THEN Cardinality(newer(taken[k], T)) + 1 ELSE Cardinality(newer(taken[k], T))
      BY <1>3, NewerAppend
    <3>4. QED  BY <2>1, <3>1, <3>2, <3>3
  <2>5. Cardinality(newer(taken[k], now)) < limitOf(k) /\ limitOf(k) \in Nat
    <3>1. Len(recently) < limitOf(k)
      BY <1>0, <1>5, <1>8
    <3>2. QED  BY <1>3, <1>6, <3>1, FaucetNumbers
  <2>6. \A n \in DOMAIN taken'[k] : Cardinality(window(taken'[k], taken'[k][n])) <= limitOf(k)
    BY <1>3, <2>1, <2>5, WindowAppend
  <2>7. QED  BY <2>2, <2>3, <2>4, <2>6
<1>9. QED  BY <1>0, <1>4, <1>7, <1>8

----------------------------------------------------------------------------
(* The faucet's queue and nonces.                                          *)

Running == {"held", "read", "sending", "waiting"}

\* The task whose turn it is is the only one that has begun.
LEMMA TurnFacts ==
  ASSUME QueueInv, NEW r \in Asks, turn(r)
  PROVE  /\ 1 \in DOMAIN queue /\ queue[1] = r /\ stage[r] \in InService
         /\ \A k \in DOMAIN queue : k # 1 => queue[k] # r
         /\ \A q \in Asks : stage[q] \in Running => q = r
<1>1. queue \in Seq(Asks)
  BY DEF QueueInv
<1>2. 1 \in DOMAIN queue /\ queue[1] = r
  BY <1>1 DEF turn
<1>3. stage[r] \in InService
  BY <1>2 DEF QueueInv
<1>4. \A k \in DOMAIN queue : k # 1 => queue[k] # r
  BY <1>2 DEF QueueInv
<1>5. ASSUME NEW q \in Asks, stage[q] \in Running PROVE q = r
  <2>1. PICK k \in DOMAIN queue : queue[k] = q
    BY <1>5 DEF QueueInv, InService, Running
  <2>2. k = 1
    BY <1>5, <2>1 DEF QueueInv, Running
  <2>3. QED  BY <1>2, <2>1, <2>2
<1>6. QED  BY <1>2, <1>3, <1>4, <1>5

\* A task that ends leaves a queue in which nobody's turn has begun.
LEMMA EndLeavesQueue ==
  ASSUME FaucetTypes, QueueInv, NEW r \in Asks, turn(r),
         NEW answer \in Stages \ InService, ends(r, answer)
  PROVE  /\ QueueInv'
         /\ \A q \in Asks : stage'[q] \notin Running
         /\ stage' = [stage EXCEPT ![r] = answer] /\ running' = [running EXCEPT ![r] = Idle]
<1> DEFINE K == {k \in DOMAIN queue : queue[k] # r}
<1>1. /\ stage' = [stage EXCEPT ![r] = answer] /\ running' = [running EXCEPT ![r] = Idle]
      /\ queue' = inOrder(queue, K)
  BY DEF ends
<1>2. queue \in Seq(Asks) /\ K \subseteq DOMAIN queue
  BY DEF QueueInv
<1>3. PICK n, pos : TakesFrom(queue', Asks, queue, K, n, pos)
  BY <1>1, <1>2, InTheirOrder
<1>4. queue' \in Seq(Asks) /\ DOMAIN queue' = 1..n /\ \A m \in 1..n : queue'[m] \in Asks
  <2>1. queue' \in Seq(Asks)
    BY <1>3 DEF TakesFrom
  <2>2. DOMAIN queue' = 1..n
    BY <1>3 DEF TakesFrom
  <2>3. \A m \in DOMAIN queue' : queue'[m] \in Asks
    <3> HIDE <1>1
    <3>1. QED  BY <2>1
  <2>4. QED  BY <2>1, <2>2, <2>3
<1>5. \A m \in 1..n : pos[m] \in DOMAIN queue /\ queue[pos[m]] # r /\ queue'[m] = queue[pos[m]]
  BY <1>3 DEF TakesFrom
<1>6. \A l, m \in 1..n : pos[l] = pos[m] => l = m
  BY <1>3 DEF TakesFrom
<1>7. \A k \in DOMAIN queue : queue[k] # r => \E m \in 1..n : queue'[m] = queue[k]
  BY <1>3 DEF TakesFrom
<1> HIDE DEF K
<1>8. \A j, k \in DOMAIN queue' : queue'[j] = queue'[k] => j = k
  <2> SUFFICES ASSUME NEW j \in 1..n, NEW k \in 1..n, queue'[j] = queue'[k] PROVE j = k
    BY <1>4
  <2>1. pos[j] = pos[k]
    BY <1>5 DEF QueueInv
  <2>2. QED  BY <1>6, <2>1
<1>9. stage \in [Asks -> Stages] /\ running \in [Asks -> [due : Seq(Nat), nonce : Nat, sends : SUBSET [i : Nat, nonce : Nat], since : Nat]]
  BY DEF FaucetTypes
<1>10. \A q \in Asks : q # r => (stage'[q] = stage[q] /\ running'[q] = running[q])
  BY <1>1, <1>9
<1>11. stage'[r] = answer /\ running'[r] = Idle
  BY <1>1, <1>9
<1>12. ASSUME NEW q \in Asks PROVE stage'[q] \in InService <=> \E k \in DOMAIN queue' : queue'[k] = q
  <2>1. CASE q = r
    <3>1. stage'[q] \notin InService
      BY <1>11, <2>1
    <3>2. ~\E k \in DOMAIN queue' : queue'[k] = q
      BY <1>4, <1>5, <2>1
    <3>3. QED  BY <3>1, <3>2
  <2>2. CASE q # r
    <3>1. stage'[q] \in InService <=> \E k \in DOMAIN queue : queue[k] = q
      BY <1>10, <2>2 DEF QueueInv
    <3>2. (\E k \in DOMAIN queue : queue[k] = q) <=> \E k \in DOMAIN queue' : queue'[k] = q
      BY <1>4, <1>5, <1>7, <2>2
    <3>3. QED  BY <3>1, <3>2
  <2>3. QED  BY <2>1, <2>2
<1>13. ASSUME NEW q \in Asks PROVE stage'[q] \notin Running
  <2>1. CASE q = r
    BY <1>11, <2>1 DEF InService, Running
  <2>2. CASE q # r
    BY <1>10, <2>2, TurnFacts
  <2>3. QED  BY <2>1, <2>2
<1>14. \A k \in DOMAIN queue' : k # 1 => stage'[queue'[k]] = "queued"
  <2>1. ASSUME NEW k \in DOMAIN queue' PROVE stage'[queue'[k]] = "queued"
    <3>1. queue'[k] \in Asks
      BY <1>4
    <3>2. stage'[queue'[k]] \in InService
      BY <1>12, <3>1
    <3>3. QED  BY <1>13, <3>1, <3>2 DEF InService, Running
  <2>2. QED  BY <2>1
<1>15. \A q \in Asks : stage'[q] \notin {"sending", "waiting"} => running'[q].sends = {}
  BY <1>10, <1>11 DEF QueueInv, Idle
<1>16. QueueInv'
  <2>1. \A q \in Asks : stage'[q] \notin {"held", "read", "sending"}
    BY <1>13 DEF Running
  <2>2. QED  BY <1>4, <1>8, <1>12, <1>14, <1>15, <2>1 DEF QueueInv
<1>17. QED  BY <1>1, <1>13, <1>16

\* Two states of the chain between which no transfer was sent or mined.
LEMMA ChainStays ==
  ASSUME FaucetInv, UNCHANGED <<minedNonces, pending, sent, balances, faucetCase>>
  PROVE  NonceInv' /\ credit' = credit /\ bound' = bound
<1>1. NonceInv'
  BY DEF FaucetInv, NonceInv
<1>2. credit' = credit
  BY DEF credit, coming, amountOf
<1>3. bound' = bound
  BY DEF bound
<1>4. QED  BY <1>1, <1>2, <1>3

LEMMA IdleTyped == Idle \in [due : Seq(Nat), nonce : Nat, sends : SUBSET [i : Nat, nonce : Nat], since : Nat]
<1>1. <<>> \in Seq(Nat)
  OBVIOUS
<1>2. {} \in SUBSET [i : Nat, nonce : Nat]
  OBVIOUS
<1>3. QED  BY <1>1, <1>2, Zenon DEF Idle

\* A task ends and sends nothing more; what it sent is given up unless it is mined.
LEMMA EndKeeps ==
  ASSUME FaucetInv, NEW r \in Asks, turn(r),
         NEW answer \in {"sent", "reverted", "failed", "out of coins"}, ends(r, answer),
         UNCHANGED <<faucetCase, faucetSecond, takes, tokenSide, taken, sent>>,
         gaveUp \subseteq gaveUp', \A p \in pending : p.to \in gaveUp'
  PROVE  FaucetInv'
<1>1. answer \in Stages \ InService /\ answer # "nonce refused"
  BY DEF Stages, InService
<1>2. /\ QueueInv'
      /\ \A q \in Asks : stage'[q] \notin Running
      /\ stage' = [stage EXCEPT ![r] = answer] /\ running' = [running EXCEPT ![r] = Idle]
  BY <1>1, EndLeavesQueue DEF FaucetInv
<1>3. FaucetTypes'
  <2>1. Idle \in [due : Seq(Nat), nonce : Nat, sends : SUBSET [i : Nat, nonce : Nat], since : Nat]
    BY IdleTyped
  <2>2. QED  BY <1>1, <1>2, <2>1 DEF FaucetInv, FaucetTypes, tokenSide
<1>4. NonceInv' /\ credit' = credit /\ bound' = bound
  BY ChainStays DEF tokenSide
<1>5. CountInv'
  BY <1>1, <1>2 DEF FaucetInv, FaucetTypes, CountInv, NeverCollides, Running
<1>6. PendingInv'
  BY DEF PendingInv, tokenSide
<1>7. DueInv'
  BY <1>2 DEF DueInv, Running
<1>8. CreditInv'
  BY <1>4 DEF FaucetInv, CreditInv
<1>9. WindowInv'
  BY NoWindowAsked DEF FaucetInv
<1>10. QED  BY <1>2, <1>3, <1>4, <1>5, <1>6, <1>7, <1>8, <1>9 DEF FaucetInv

\* A transfer on its way was sent by the task whose turn it is, or is given up.
LEMMA Awaited ==
  ASSUME FaucetInv, NEW r \in Asks, turn(r), NEW p \in pending, p.to \notin gaveUp
  PROVE  p.to = AskedFor[r] /\ \E s \in running[r].sends : s.nonce = p.nonce
<1>1. PICK q \in Asks : /\ stage[q] \in {"sending", "waiting"} /\ AskedFor[q] = p.to
                        /\ \E s \in running[q].sends : s.nonce = p.nonce
  BY DEF FaucetInv, PendingInv
<1>2. q = r
  BY <1>1, TurnFacts DEF FaucetInv, Running
<1>3. QED  BY <1>1, <1>2

LEMMA NothingAwaited ==
  ASSUME FaucetInv, NEW r \in Asks, turn(r), stage[r] \in {"queued", "held", "read"}
  PROVE  running[r].sends = {} /\ \A p \in pending : p.to \in gaveUp
<1>1. running[r].sends = {}
  BY DEF FaucetInv, QueueInv
<1>2. QED  BY <1>1, Awaited

LEMMA ThrowKeeps == ASSUME FaucetInv, NEW r \in Asks, taskThrows(r) PROVE FaucetInv'
<1>1. turn(r) /\ ends(r, "failed") /\ gaveUp' = givesUp(r)
  BY DEF taskThrows
<1>2. ASSUME NEW p \in pending PROVE p.to \in gaveUp'
  BY <1>1, Awaited DEF givesUp
<1>3. gaveUp \subseteq gaveUp'
  BY <1>1 DEF givesUp
<1>4. UNCHANGED <<faucetCase, faucetSecond, takes, tokenSide, taken, sent>>
  BY DEF taskThrows
<1>5. QED  BY <1>1, <1>2, <1>3, <1>4, EndKeeps

LEMMA ReceiptsKeep == ASSUME FaucetInv, NEW r \in Asks, receipts(r) PROVE FaucetInv'
<1>1. turn(r) /\ UNCHANGED <<faucetCase, faucetSecond, takes, tokenSide, taken, sent>>
  BY DEF receipts
<1>2. CASE allMined(r) /\ ends(r, outcome(r)) /\ UNCHANGED gaveUp
  <2>1. ASSUME NEW p \in pending, p.to \notin gaveUp PROVE FALSE
    <3>1. PICK s \in running[r].sends : s.nonce = p.nonce
      BY <1>1, <2>1, Awaited
    <3>2. s.nonce < minedNonces
      BY <1>2 DEF allMined
    <3>3. minedNonces <= p.nonce /\ p.nonce \in Nat /\ minedNonces \in Nat
      BY DEF FaucetInv, NonceInv, FaucetTypes, Transfers
    <3>4. QED  BY <3>1, <3>2, <3>3
  <2>2. outcome(r) \in {"sent", "reverted", "failed", "out of coins"}
    BY DEF outcome
  <2>3. QED  BY <1>1, <1>2, <2>1, <2>2, EndKeeps
<1>3. CASE ends(r, "failed") /\ gaveUp' = givesUp(r)
  <2>1. ASSUME NEW p \in pending PROVE p.to \in gaveUp'
    BY <1>1, <1>3, Awaited DEF givesUp
  <2>2. gaveUp \subseteq gaveUp'
    BY <1>3 DEF givesUp
  <2>3. QED  BY <1>1, <1>3, <2>1, <2>2, EndKeeps
<1>4. QED  BY <1>2, <1>3 DEF receipts

\* A task goes on to its next stage and keeps its turn.
LEMMA StageKeeps ==
  ASSUME FaucetInv, NEW r \in Asks, turn(r), NEW next \in {"held", "read", "sending", "waiting"},
         stage' = [stage EXCEPT ![r] = next], UNCHANGED queue,
         \A q \in Asks : q # r => running'[q] = running[q],
         next \in {"held", "read"} => running'[r].sends = {},
         next # "waiting" => DOMAIN running'[r].due = DOMAIN FaucetAssets
  PROVE  QueueInv' /\ \A q \in Asks : stage'[q] \in Running => q = r
<1>1. stage \in [Asks -> Stages]
  BY DEF FaucetInv, FaucetTypes
<1>2. stage'[r] = next /\ \A q \in Asks : q # r => stage'[q] = stage[q]
  BY <1>1
<1>3. \A q \in Asks : stage'[q] \in Running => q = r
  BY <1>2, TurnFacts DEF FaucetInv
<1>4. \A q \in Asks : stage'[q] \in InService <=> stage[q] \in InService
  BY <1>2, TurnFacts DEF FaucetInv, InService
<1>5. \A k \in DOMAIN queue : queue[k] \in Asks
  BY DEF FaucetInv, QueueInv
<1>6. \A k \in DOMAIN queue : k # 1 => stage'[queue[k]] = "queued"
  BY <1>2, <1>5, TurnFacts DEF FaucetInv, QueueInv
<1>7. \A q \in Asks : stage'[q] \notin {"sending", "waiting"} => running'[q].sends = {}
  BY <1>2 DEF FaucetInv, QueueInv
<1>8. \A q \in Asks : stage'[q] \in {"held", "read", "sending"} => DOMAIN running'[q].due = DOMAIN FaucetAssets
  BY <1>2, <1>3 DEF Running
<1>9. QED  BY <1>3, <1>4, <1>6, <1>7, <1>8 DEF FaucetInv, QueueInv

LEMMA WaitsKeep == ASSUME FaucetInv, NEW r \in Asks, waits(r) PROVE FaucetInv'
<1>1. /\ turn(r) /\ stage[r] = "sending"
      /\ stage' = [stage EXCEPT ![r] = "waiting"] /\ running' = [running EXCEPT ![r].since = faucetSecond]
      /\ UNCHANGED <<faucetCase, faucetSecond, takes, queue, tokenSide, faucetHistory>>
  BY DEF waits
<1>2. FaucetTypes'
  BY <1>1 DEF FaucetInv, FaucetTypes, Stages, tokenSide, faucetHistory
<1>3. \A q \in Asks : running'[q].sends = running[q].sends /\ (q # r => running'[q] = running[q])
  BY <1>1 DEF FaucetInv, FaucetTypes
<1>4. QueueInv' /\ \A q \in Asks : stage'[q] \in Running => q = r
  BY <1>1, <1>3, StageKeeps
<1>5. stage'[r] = "waiting"
  BY <1>1 DEF FaucetInv, FaucetTypes
<1>6. NonceInv' /\ credit' = credit /\ bound' = bound
  BY <1>1, ChainStays DEF tokenSide, faucetHistory
<1>7. CountInv'
  <2>1. \A q \in Asks : stage'[q] # "sending"
    BY <1>4, <1>5 DEF Running
  <2>2. \A q \in Asks : stage'[q] # "nonce refused"
    BY <1>1, <1>5 DEF FaucetInv, FaucetTypes, CountInv, NeverCollides
  <2>3. QED  BY <2>1, <2>2 DEF CountInv, NeverCollides
<1>8. PendingInv'
  <2>1. \A p \in pending : p.to \notin gaveUp => p.to = AskedFor[r] /\ \E s \in running[r].sends : s.nonce = p.nonce
    BY <1>1, Awaited
  <2>2. QED  BY <1>1, <1>3, <1>5, <2>1 DEF PendingInv, tokenSide, faucetHistory
<1>9. DueInv'
  <2>1. \A q \in Asks : stage'[q] \notin {"held", "read", "sending"}
    BY <1>4, <1>5 DEF Running
  <2>2. QED  BY <2>1 DEF DueInv
<1>10. CreditInv'
  BY <1>1, <1>6 DEF FaucetInv, CreditInv, faucetHistory
<1>11. WindowInv'
  BY <1>1, NoWindowAsked DEF FaucetInv, faucetHistory
<1>12. QED  BY <1>2, <1>4, <1>6, <1>7, <1>8, <1>9, <1>10, <1>11 DEF FaucetInv

LEMMA CountKeeps == ASSUME FaucetInv, NEW r \in Asks, countNonces(r) PROVE FaucetInv'
<1>1. /\ turn(r) /\ stage[r] = "read"
      /\ running' = [running EXCEPT ![r].nonce = minedNonces + Cardinality(pending)]
      /\ stage' = [stage EXCEPT ![r] = "sending"]
      /\ UNCHANGED <<faucetCase, faucetSecond, takes, queue, tokenSide, faucetHistory>>
  BY DEF countNonces
<1>2. minedNonces + Cardinality(pending) \in Nat
  BY DEF FaucetInv, FaucetTypes, NonceInv
<1>3. FaucetTypes'
  BY <1>1, <1>2 DEF FaucetInv, FaucetTypes, Stages, tokenSide, faucetHistory
<1>4. /\ \A q \in Asks : running'[q].sends = running[q].sends /\ running'[q].due = running[q].due
      /\ running'[r].nonce = minedNonces + Cardinality(pending)
  BY <1>1 DEF FaucetInv, FaucetTypes
<1>14. \A q \in Asks : q # r => running'[q] = running[q]
  BY <1>1 DEF FaucetInv, FaucetTypes
<1>5. QueueInv' /\ \A q \in Asks : stage'[q] \in Running => q = r
  <2>1. UNCHANGED queue
    BY <1>1
  <2>2. DOMAIN running'[r].due = DOMAIN FaucetAssets
    BY <1>1, <1>4 DEF FaucetInv, QueueInv
  <2>3. QED  BY <1>1, <1>14, <2>1, <2>2, StageKeeps
<1>6. stage'[r] = "sending" /\ \A q \in Asks : q # r => stage'[q] = stage[q]
  BY <1>1 DEF FaucetInv, FaucetTypes
<1>7. NonceInv' /\ credit' = credit /\ bound' = bound
  BY <1>1, ChainStays DEF tokenSide, faucetHistory
<1>8. CountInv'
  <2>1. \A q \in Asks : stage'[q] = "sending" => running'[q].nonce = minedNonces + Cardinality(pending)
    BY <1>4, <1>5 DEF Running
  <2>2. \A q \in Asks : stage'[q] # "nonce refused"
    BY <1>6 DEF FaucetInv, CountInv, NeverCollides
  <2>3. QED  BY <1>1, <2>1, <2>2 DEF CountInv, NeverCollides, tokenSide
<1>9. PendingInv'
  <2>1. \A p \in pending : p.to \in gaveUp
    BY <1>1, NothingAwaited
  <2>2. QED  BY <1>1, <2>1 DEF PendingInv, tokenSide, faucetHistory
<1>10. DueInv'
  <2>1. ASSUME NEW q \in Asks PROVE nextDue(q)' = nextDue(q)
    <3>1. running'[q].sends = running[q].sends /\ running'[q].due = running[q].due
      BY <1>4
    <3>2. QED  BY <3>1 DEF nextDue
  <2>2. ASSUME NEW q \in Asks, stage'[q] \in {"held", "read", "sending"}, AskedFor[q] \notin gaveUp
        PROVE  \A i \in nextDue(q)' : credit'[AskedFor[q]][FaucetAssets[i]] + running'[q].due[i] <= bound'[i]
    <3>1. q = r
      BY <1>5, <2>2 DEF Running
    <3>2. \A i \in nextDue(r) : credit[AskedFor[r]][FaucetAssets[i]] + running[r].due[i] <= bound[i]
      BY <1>1, <2>2, <3>1 DEF FaucetInv, DueInv
    <3>3. running'[r].due = running[r].due /\ nextDue(r)' = nextDue(r)
      BY <1>4, <2>1
    <3>4. ASSUME NEW i \in nextDue(q)'
          PROVE  credit'[AskedFor[q]][FaucetAssets[i]] + running'[q].due[i] <= bound'[i]
      <4>1. i \in nextDue(r)
        BY <3>1, <3>3, <3>4
      <4>2. QED  BY <1>7, <3>1, <3>2, <3>3, <4>1
    <3>5. QED  BY <3>4
  <2>3. QED  BY <1>1, <2>2 DEF DueInv, faucetHistory
<1>11. CreditInv'
  BY <1>1, <1>7 DEF FaucetInv, CreditInv, faucetHistory
<1>12. WindowInv'
  BY <1>1, NoWindowAsked DEF FaucetInv, faucetHistory
<1>13. QED  BY <1>3, <1>5, <1>7, <1>8, <1>9, <1>10, <1>11, <1>12 DEF FaucetInv

\* Nothing on its way to an account is nothing it may not see yet.
LEMMA NothingComing ==
  ASSUME FaucetTypes, NEW a \in Accounts, NEW x \in Assets, \A p \in pending : p.to # a
  PROVE  credit[a][x] = balances[a][x]
<1>1. {p \in pending : p.to = a /\ p.asset = x} = {}
  OBVIOUS
<1>2. coming(a, x) = 0
  BY <1>1, SumEmpty DEF coming
<1>3. balances[a][x] \in Nat
  BY DEF FaucetTypes
<1>4. QED  BY <1>2, <1>3 DEF credit

LEMMA ReadKeeps == ASSUME FaucetInv, NEW r \in Asks, readHeld(r) PROVE FaucetInv'
<1> DEFINE held == balances[AskedFor[r]]
           due  == [i \in DOMAIN FaucetAssets |-> shortfall(held[FaucetAssets[i]], Targets[FaucetAssets[i]])]
<1>1. /\ turn(r) /\ stage[r] = "queued" /\ UNCHANGED <<faucetCase, faucetSecond, takes, tokenSide, faucetHistory>>
      /\ stage' = [stage EXCEPT ![r] = "held"] /\ running' = [running EXCEPT ![r].due = due] /\ UNCHANGED queue
  BY DEF readHeld
<1>2. running[r].sends = {} /\ \A p \in pending : p.to \in gaveUp
  BY <1>1, NothingAwaited
<1>4. stage' = [stage EXCEPT ![r] = "held"] /\ running' = [running EXCEPT ![r].due = due] /\ UNCHANGED queue
  BY <1>1
<1>5. FaucetInv'
  <2>1. /\ AskedFor[r] \in Accounts
        /\ \A i \in DOMAIN FaucetAssets : held[FaucetAssets[i]] \in Nat /\ Targets[FaucetAssets[i]] \in Nat
    <3>1. AskedFor[r] \in Accounts
      BY DEF Accounts
    <3>2. held \in [Assets -> Nat]
      BY <3>1 DEF FaucetInv, FaucetTypes
    <3> HIDE DEF held
    <3>3. QED  BY <3>1, <3>2, FaucetNumbers
  <2>2. \A i \in DOMAIN FaucetAssets :
          /\ due[i] \in Nat
          /\ due[i] > 0 => held[FaucetAssets[i]] + due[i] = Targets[FaucetAssets[i]]
    BY <2>1 DEF shortfall
  <2>3. due \in Seq(Nat)
    BY <2>2, FaucetNumbers
  <2>4. DOMAIN due = DOMAIN FaucetAssets
    OBVIOUS
  <2> HIDE DEF due, held
  <2>5. FaucetTypes'
    BY <1>1, <1>4, <2>3 DEF FaucetInv, FaucetTypes, Stages, tokenSide, faucetHistory
  <2>6. /\ \A q \in Asks : running'[q].sends = running[q].sends /\ (q # r => running'[q] = running[q])
        /\ running'[r].due = due
    BY <1>4 DEF FaucetInv, FaucetTypes
  <2>7. QueueInv' /\ \A q \in Asks : stage'[q] \in Running => q = r
    BY <1>1, <1>2, <1>4, <2>4, <2>6, StageKeeps
  <2>8. stage'[r] = "held" /\ \A q \in Asks : q # r => stage'[q] = stage[q]
    BY <1>4 DEF FaucetInv, FaucetTypes
  <2>9. NonceInv' /\ credit' = credit /\ bound' = bound
    BY <1>1, ChainStays DEF tokenSide, faucetHistory
  <2>10. CountInv'
    <3>1. \A q \in Asks : stage'[q] # "sending"
      BY <2>7, <2>8 DEF Running
    <3>2. \A q \in Asks : stage'[q] # "nonce refused"
      BY <2>8 DEF FaucetInv, CountInv, NeverCollides
    <3>3. QED  BY <3>1, <3>2 DEF CountInv, NeverCollides
  <2>11. PendingInv'
    BY <1>1, <1>2 DEF PendingInv, tokenSide, faucetHistory
  <2>12. DueInv'
    <3>1. ASSUME NEW q \in Asks, stage'[q] \in {"held", "read", "sending"}, AskedFor[q] \notin gaveUp
          PROVE  \A i \in nextDue(q)' : credit'[AskedFor[q]][FaucetAssets[i]] + running'[q].due[i] <= bound'[i]
      <4>1. q = r
        BY <2>7, <3>1 DEF Running
      <4>2. ASSUME NEW i \in nextDue(q)'
            PROVE  credit'[AskedFor[q]][FaucetAssets[i]] + running'[q].due[i] <= bound'[i]
        <5>1. i \in DOMAIN FaucetAssets /\ due[i] > 0
          BY <2>4, <2>6, <4>1, <4>2 DEF nextDue
        <5>2. \A p \in pending : p.to # AskedFor[r]
          BY <1>2, <3>1, <4>1
        <5>3. credit[AskedFor[r]][FaucetAssets[i]] = held[FaucetAssets[i]]
          BY <2>1, <5>1, <5>2, NothingComing, FaucetNumbers DEF FaucetInv, held
        <5>4. held[FaucetAssets[i]] + due[i] = Targets[FaucetAssets[i]]
          BY <2>2, <5>1
        <5>5. Targets[FaucetAssets[i]] <= bound[i]
          BY <5>1, FaucetNumbers DEF bound, FaucetInv, FaucetTypes
        <5>6. QED  BY <2>6, <2>9, <4>1, <5>3, <5>4, <5>5
      <4>3. QED  BY <4>2
    <3>2. QED  BY <1>1, <3>1 DEF DueInv, faucetHistory
  <2>13. CreditInv'
    BY <1>1, <2>9 DEF FaucetInv, CreditInv, faucetHistory
  <2>14. WindowInv'
    BY <1>1, NoWindowAsked DEF FaucetInv, faucetHistory
  <2>15. QED  BY <2>5, <2>7, <2>9, <2>10, <2>11, <2>12, <2>13, <2>14 DEF FaucetInv
<1>6. QED  BY <1>5

LEMMA OwnKeeps == ASSUME FaucetInv, NEW r \in Asks, readOwn(r) PROVE FaucetInv'
<1>1. /\ turn(r) /\ stage[r] = "held" /\ UNCHANGED <<faucetCase, faucetSecond, takes, tokenSide, faucetHistory>>
      /\ \/ ends(r, "out of coins")
         \/ stage' = [stage EXCEPT ![r] = "read"] /\ UNCHANGED <<queue, running>>
  BY DEF readOwn
<1>2. running[r].sends = {} /\ \A p \in pending : p.to \in gaveUp
  BY <1>1, NothingAwaited
<1>3. CASE ends(r, "out of coins")
  BY <1>1, <1>2, <1>3, EndKeeps DEF faucetHistory
<1>4. CASE stage' = [stage EXCEPT ![r] = "read"] /\ UNCHANGED <<queue, running>>
  <2>1. FaucetTypes'
    BY <1>1, <1>4 DEF FaucetInv, FaucetTypes, Stages, tokenSide, faucetHistory
  <2>2. QueueInv' /\ \A q \in Asks : stage'[q] \in Running => q = r
    <3>1. DOMAIN running[r].due = DOMAIN FaucetAssets
      BY <1>1 DEF FaucetInv, QueueInv
    <3>2. UNCHANGED queue /\ running' = running /\ stage' = [stage EXCEPT ![r] = "read"]
      BY <1>4
    <3>3. QED  BY <1>1, <1>2, <3>1, <3>2, StageKeeps
  <2>3. stage'[r] = "read" /\ \A q \in Asks : q # r => stage'[q] = stage[q]
    BY <1>4 DEF FaucetInv, FaucetTypes
  <2>4. NonceInv' /\ credit' = credit /\ bound' = bound
    BY <1>1, ChainStays DEF tokenSide, faucetHistory
  <2>5. CountInv'
    <3>1. \A q \in Asks : stage'[q] # "sending"
      BY <2>2, <2>3 DEF Running
    <3>2. \A q \in Asks : stage'[q] # "nonce refused"
      BY <2>3 DEF FaucetInv, CountInv, NeverCollides
    <3>3. QED  BY <3>1, <3>2 DEF CountInv, NeverCollides
  <2>6. PendingInv'
    BY <1>1, <1>2 DEF PendingInv, tokenSide, faucetHistory
  <2>7. DueInv'
    <3>1. \A q \in Asks : nextDue(q)' = nextDue(q)
      BY <1>4 DEF nextDue
    <3>2. \A q \in Asks : stage'[q] \in {"held", "read", "sending"} => stage[q] \in {"held", "read", "sending"}
      BY <1>1, <2>3
    <3>3. running' = running /\ gaveUp' = gaveUp
      BY <1>1, <1>4 DEF faucetHistory
    <3>4. QED  BY <2>4, <3>1, <3>2, <3>3 DEF FaucetInv, DueInv
  <2>8. CreditInv'
    BY <1>1, <2>4 DEF FaucetInv, CreditInv, faucetHistory
  <2>9. WindowInv'
    BY <1>1, NoWindowAsked DEF FaucetInv, faucetHistory
  <2>10. QED  BY <2>1, <2>2, <2>4, <2>5, <2>6, <2>7, <2>8, <2>9 DEF FaucetInv
<1>5. QED  BY <1>1, <1>3, <1>4

----------------------------------------------------------------------------
(* The faucet's transfers.                                                 *)

incoming(a, x, P) == {p \in P : p.to = a /\ p.asset = x}

LEMMA IncomingFinite ==
  ASSUME FaucetTypes, NEW a, NEW x
  PROVE  /\ IsFiniteSet(pending) /\ IsFiniteSet(incoming(a, x, pending))
         /\ \A p \in pending : amountOf[p] = p.amount /\ p.amount \in Nat
         /\ SumFunctionOnSet(amountOf, incoming(a, x, pending)) \in Nat
<1>1. IsFiniteSet(pending)
  BY FS_Subset DEF FaucetTypes
<1>2. incoming(a, x, pending) \subseteq pending
  BY DEF incoming
<1>3. IsFiniteSet(incoming(a, x, pending))
  BY <1>1, <1>2, FS_Subset
<1>4. \A p \in pending : amountOf[p] = p.amount /\ p.amount \in Nat
  BY DEF amountOf, FaucetTypes, Transfers
<1>5. SumFunctionOnSet(amountOf, incoming(a, x, pending)) \in Nat
  BY <1>2, <1>3, <1>4, SumNat
<1>6. QED  BY <1>1, <1>3, <1>4, <1>5

LEMMA CreditIs ==
  ASSUME NEW a \in Accounts, NEW x \in Assets
  PROVE  /\ credit[a][x] = balances[a][x] + SumFunctionOnSet(amountOf, incoming(a, x, pending))
         /\ credit'[a][x] = balances'[a][x] + SumFunctionOnSet(amountOf', incoming(a, x, pending'))
BY DEF credit, coming, incoming

\* A transfer that is sent is credited to its account, and to no other.
LEMMA CreditMore ==
  ASSUME FaucetTypes, NEW t \in Transfers, t \notin pending, pending' = pending \cup {t}, UNCHANGED balances,
         NEW a \in Accounts, NEW x \in Assets
  PROVE  credit'[a][x] = IF t.to = a /\ t.asset = x THEN credit[a][x] + t.amount ELSE credit[a][x]
<1> DEFINE before == incoming(a, x, pending)
           after  == incoming(a, x, pending')
<1>1. \A p \in pending' : amountOf'[p] = p.amount
  BY DEF amountOf
<1>2. /\ IsFiniteSet(before) /\ SumFunctionOnSet(amountOf, before) \in Nat
      /\ \A p \in pending : amountOf[p] = p.amount /\ p.amount \in Nat
  BY IncomingFinite
<1>3. before \subseteq pending /\ t \notin before /\ t.amount \in Nat /\ balances[a][x] \in Nat
  BY DEF incoming, Transfers, FaucetTypes
<1>4. after = IF t.to = a /\ t.asset = x THEN before \cup {t} ELSE before
  BY DEF incoming
<1>5. /\ credit[a][x] = balances[a][x] + SumFunctionOnSet(amountOf, before)
      /\ credit'[a][x] = balances[a][x] + SumFunctionOnSet(amountOf', after)
  BY CreditIs
<1> HIDE DEF before, after
<1>6. \A p \in before : amountOf[p] = amountOf'[p]
  BY <1>1, <1>2, <1>3
<1>7. SumFunctionOnSet(amountOf, before) = SumFunctionOnSet(amountOf', before)
  BY <1>2, <1>6, SumSame
<1>8. \A p \in before \cup {t} : amountOf'[p] \in Int
  BY <1>1, <1>2, <1>3
<1>9. SumFunctionOnSet(amountOf', before \cup {t}) = amountOf'[t] + SumFunctionOnSet(amountOf', before)
  BY <1>2, <1>3, <1>8, SumAdd
<1>10. amountOf'[t] = t.amount
  BY <1>1
<1>11. CASE t.to = a /\ t.asset = x
  <2>1. after = before \cup {t}
    BY <1>4, <1>11
  <2>2. credit'[a][x] = balances[a][x] + (t.amount + SumFunctionOnSet(amountOf, before))
    BY <1>5, <1>7, <1>9, <1>10, <2>1
  <2>3. QED  BY <1>2, <1>3, <1>5, <1>11, <2>2
<1>12. CASE ~(t.to = a /\ t.asset = x)
  <2>1. after = before
    BY <1>4, <1>12
  <2>2. QED  BY <1>5, <1>7, <1>12, <2>1
<1>13. QED  BY <1>11, <1>12

\* Mining moves an amount from what is coming to what is there.
LEMMA CreditMined ==
  ASSUME FaucetTypes, NEW t \in pending, pending' = pending \ {t},
         balances' = [balances EXCEPT ![t.to][t.asset] = @ + t.amount],
         NEW a \in Accounts, NEW x \in Assets
  PROVE  credit'[a][x] = credit[a][x]
<1> DEFINE before == incoming(a, x, pending)
           after  == incoming(a, x, pending')
<1>1. \A p \in pending' : amountOf'[p] = p.amount
  BY DEF amountOf
<1>2. /\ IsFiniteSet(before) /\ SumFunctionOnSet(amountOf, before) \in Nat
      /\ \A p \in pending : amountOf[p] = p.amount /\ p.amount \in Nat
  BY IncomingFinite
<1>3. /\ before \subseteq pending /\ after \subseteq pending' /\ after \subseteq before
      /\ after = IF t.to = a /\ t.asset = x THEN before \ {t} ELSE before
  BY DEF incoming
<1>4. balances[a][x] \in Nat
  BY DEF FaucetTypes
<1>5. balances'[a][x] = IF t.to = a /\ t.asset = x THEN balances[a][x] + t.amount ELSE balances[a][x]
  BY DEF FaucetTypes
<1>6. /\ credit[a][x] = balances[a][x] + SumFunctionOnSet(amountOf, before)
      /\ credit'[a][x] = balances'[a][x] + SumFunctionOnSet(amountOf', after)
  BY CreditIs
<1>7. t.to = a /\ t.asset = x => t \in before
  BY DEF incoming
<1> HIDE DEF before, after
<1>8. IsFiniteSet(after) /\ \A p \in after : amountOf[p] = amountOf'[p] /\ amountOf[p] \in Nat
  BY <1>1, <1>2, <1>3, FS_Subset
<1>9. SumFunctionOnSet(amountOf, after) = SumFunctionOnSet(amountOf', after)
  BY <1>8, SumSame
<1>10. SumFunctionOnSet(amountOf, after) \in Nat
  BY <1>8, SumNat
<1>11. CASE t.to = a /\ t.asset = x
  <2>1. \A p \in before : amountOf[p] \in Int
    BY <1>2, <1>3
  <2>2. t \in before /\ after = before \ {t}
    BY <1>3, <1>7, <1>11
  <2>3. SumFunctionOnSet(amountOf, before) = amountOf[t] + SumFunctionOnSet(amountOf, before \ {t})
    BY <1>2, <2>1, <2>2, SumRemove
  <2>4. amountOf[t] = t.amount /\ t.amount \in Nat
    BY <1>2
  <2>5. balances'[a][x] = balances[a][x] + t.amount
    BY <1>5, <1>11
  <2>6. credit[a][x] = balances[a][x] + (t.amount + SumFunctionOnSet(amountOf, after))
    BY <1>6, <2>2, <2>3, <2>4
  <2>7. credit'[a][x] = (balances[a][x] + t.amount) + SumFunctionOnSet(amountOf, after)
    BY <1>6, <1>9, <2>5
  <2>8. QED  BY <1>4, <1>10, <2>4, <2>6, <2>7
<1>12. CASE ~(t.to = a /\ t.asset = x)
  <2>1. after = before /\ balances'[a][x] = balances[a][x]
    BY <1>3, <1>5, <1>12
  <2>2. QED  BY <1>6, <1>9, <2>1
<1>13. QED  BY <1>11, <1>12

\* A transfer that reverts is no longer coming, and nothing else changes.
LEMMA CreditLost ==
  ASSUME FaucetTypes, NEW t \in pending, pending' = pending \ {t}, UNCHANGED balances,
         NEW a \in Accounts, NEW x \in Assets
  PROVE  credit'[a][x] \in Nat /\ credit[a][x] \in Nat /\ credit'[a][x] <= credit[a][x]
<1> DEFINE before == incoming(a, x, pending)
           after  == incoming(a, x, pending')
<1>1. \A p \in pending' : amountOf'[p] = p.amount
  BY DEF amountOf
<1>2. /\ IsFiniteSet(before) /\ SumFunctionOnSet(amountOf, before) \in Nat
      /\ \A p \in pending : amountOf[p] = p.amount /\ p.amount \in Nat
  BY IncomingFinite
<1>3. /\ before \subseteq pending /\ after \subseteq pending' /\ after \subseteq before
      /\ after = IF t.to = a /\ t.asset = x THEN before \ {t} ELSE before
  BY DEF incoming
<1>4. balances[a][x] \in Nat
  BY DEF FaucetTypes
<1>5. /\ credit[a][x] = balances[a][x] + SumFunctionOnSet(amountOf, before)
      /\ credit'[a][x] = balances'[a][x] + SumFunctionOnSet(amountOf', after)
      /\ balances'[a][x] = balances[a][x]
  BY CreditIs
<1>6. t.to = a /\ t.asset = x => t \in before
  BY DEF incoming
<1> HIDE DEF before, after
<1>7. IsFiniteSet(after) /\ \A p \in after : amountOf[p] = amountOf'[p] /\ amountOf[p] \in Nat
  BY <1>1, <1>2, <1>3, FS_Subset
<1>8. SumFunctionOnSet(amountOf, after) = SumFunctionOnSet(amountOf', after) /\ SumFunctionOnSet(amountOf, after) \in Nat
  BY <1>7, SumSame, SumNat
<1>9. SumFunctionOnSet(amountOf, after) <= SumFunctionOnSet(amountOf, before)
  <2>1. CASE t.to = a /\ t.asset = x
    <3>1. \A p \in before : amountOf[p] \in Int
      BY <1>2, <1>3
    <3>2. t \in before /\ after = before \ {t}
      BY <1>3, <1>6, <2>1
    <3>3. SumFunctionOnSet(amountOf, before) = amountOf[t] + SumFunctionOnSet(amountOf, before \ {t})
      BY <1>2, <3>1, <3>2, SumRemove
    <3>4. amountOf[t] \in Nat
      BY <1>2
    <3>5. QED  BY <1>2, <1>8, <3>2, <3>3, <3>4
  <2>2. CASE ~(t.to = a /\ t.asset = x)
    BY <1>2, <1>3, <2>2
  <2>3. QED  BY <2>1, <2>2
<1>10. QED  BY <1>2, <1>4, <1>5, <1>8, <1>9

LEMMA CreditTyped ==
  ASSUME FaucetTypes, NEW a \in Accounts, NEW x \in Assets
  PROVE  credit[a][x] \in Nat
<1>1. balances[a][x] \in Nat /\ SumFunctionOnSet(amountOf, incoming(a, x, pending)) \in Nat
  BY IncomingFinite DEF FaucetTypes
<1>2. QED  BY <1>1, CreditIs

LEMMA BoundTyped ==
  ASSUME FaucetTypes, NEW i \in DOMAIN FaucetAssets
  PROVE  bound[i] \in Nat
<1>1. Targets[FaucetAssets[i]] \in Nat /\ faucetCase.held \in Nat
  BY FaucetNumbers DEF FaucetTypes
<1>2. QED  BY <1>1 DEF bound

LEMMA MinedKeeps == ASSUME FaucetInv, TransferMined PROVE FaucetInv'
<1>1. PICK t \in pending :
        /\ t.nonce = minedNonces
        /\ minedNonces' = minedNonces + 1 /\ pending' = pending \ {t}
        /\ balances' = [balances EXCEPT ![t.to][t.asset] = @ + t.amount] \/ UNCHANGED balances
        /\ UNCHANGED <<faucetCase, faucetSecond, requestSide, faucetHistory>>
  BY DEF TransferMined
<1>2. t \in Transfers /\ IsFiniteSet(pending) /\ Cardinality(pending) \in Nat /\ minedNonces \in Nat
  BY IncomingFinite DEF FaucetInv, FaucetTypes, NonceInv
<1>3. \A a \in Accounts : \A x \in Assets :
        credit'[a][x] \in Nat /\ credit[a][x] \in Nat /\ credit'[a][x] <= credit[a][x]
  <2>1. CASE balances' = [balances EXCEPT ![t.to][t.asset] = @ + t.amount]
    <3>1. \A a \in Accounts : \A x \in Assets : credit'[a][x] = credit[a][x]
      BY <1>1, <2>1, CreditMined DEF FaucetInv
    <3>2. \A a \in Accounts : \A x \in Assets : credit[a][x] \in Nat
      BY CreditTyped DEF FaucetInv
    <3>3. QED  BY <3>1, <3>2
  <2>2. CASE UNCHANGED balances
    BY <1>1, <2>2, CreditLost DEF FaucetInv
  <2>3. QED  BY <1>1, <2>1, <2>2
<1>4. FaucetTypes'
  <2>1. balances' \in [Accounts -> [Assets -> Nat]]
    <3>1. balances \in [Accounts -> [Assets -> Nat]] /\ t.to \in Accounts /\ t.asset \in Assets /\ t.amount \in Nat
      BY <1>2 DEF FaucetInv, FaucetTypes, Transfers
    <3>2. balances[t.to][t.asset] + t.amount \in Nat
      BY <3>1
    <3>3. CASE balances' = [balances EXCEPT ![t.to][t.asset] = @ + t.amount]
      BY <3>1, <3>2, <3>3
    <3>4. CASE UNCHANGED balances
      BY <3>1, <3>4
    <3>5. QED  BY <1>1, <3>3, <3>4
  <2>2. minedNonces' \in Nat /\ pending' \subseteq pending
    BY <1>1, <1>2
  <2>3. QED  BY <1>1, <2>1, <2>2 DEF FaucetInv, FaucetTypes, requestSide, faucetHistory
<1>5. Cardinality(pending') = Cardinality(pending) - 1
  BY <1>1, <1>2, FS_RemoveElement
<1>6. Cardinality(pending') \in Nat /\ minedNonces' + Cardinality(pending') = minedNonces + Cardinality(pending)
  <2>1. IsFiniteSet(pending')
    BY <1>1, <1>2, FS_RemoveElement
  <2>2. Cardinality(pending') \in Nat
    BY <2>1, FS_CardinalityType
  <2>3. QED  BY <1>1, <1>2, <1>5, <2>2
<1>7. NonceInv'
  <2>1. ASSUME NEW p \in pending' PROVE minedNonces' <= p.nonce
    <3>1. p \in pending /\ p # t /\ p.nonce \in Nat
      BY <1>1, <2>1 DEF FaucetInv, FaucetTypes, Transfers
    <3>2. minedNonces <= p.nonce /\ p.nonce # minedNonces
      BY <1>1, <3>1 DEF FaucetInv, NonceInv
    <3>3. QED  BY <1>1, <1>2, <3>1, <3>2
  <2>2. \A p, q \in pending' : p.nonce = q.nonce => p = q
    BY <1>1 DEF FaucetInv, NonceInv
  <2>3. Cardinality(sent') = minedNonces' + Cardinality(pending')
    BY <1>1, <1>6 DEF FaucetInv, NonceInv, faucetHistory
  <2>4. \A p \in sent' : p.nonce < minedNonces' + Cardinality(pending')
    BY <1>1, <1>6 DEF FaucetInv, NonceInv, faucetHistory
  <2>5. QED  BY <1>6, <2>1, <2>2, <2>3, <2>4 DEF NonceInv
<1>8. QueueInv'
  BY <1>1 DEF FaucetInv, QueueInv, requestSide
<1>9. CountInv'
  BY <1>1, <1>6 DEF FaucetInv, CountInv, NeverCollides, requestSide
<1>10. PendingInv'
  BY <1>1 DEF FaucetInv, PendingInv, requestSide, faucetHistory
<1>11. bound' = bound
  BY <1>1 DEF bound
<1>12. CreditInv'
  <2>1. ASSUME NEW a \in Accounts \ gaveUp, NEW i \in DOMAIN FaucetAssets
        PROVE  credit'[a][FaucetAssets[i]] <= bound[i]
    <3>1. credit[a][FaucetAssets[i]] <= bound[i] /\ FaucetAssets[i] \in Assets
      BY FaucetNumbers DEF FaucetInv, CreditInv
    <3>2. bound[i] \in Nat
      BY BoundTyped DEF FaucetInv
    <3>3. QED  BY <1>3, <3>1, <3>2
  <2>2. QED  BY <1>1, <1>11, <2>1 DEF CreditInv, faucetHistory
<1>13. DueInv'
  <2>1. running' = running /\ stage' = stage /\ gaveUp' = gaveUp
    BY <1>1 DEF requestSide, faucetHistory
  <2>2. ASSUME NEW q \in Asks, stage[q] \in {"held", "read", "sending"}, AskedFor[q] \notin gaveUp
        PROVE  \A i \in nextDue(q) : credit'[AskedFor[q]][FaucetAssets[i]] + running[q].due[i] <= bound[i]
    <3>1. /\ DOMAIN running[q].due = DOMAIN FaucetAssets
          /\ \A i \in nextDue(q) : credit[AskedFor[q]][FaucetAssets[i]] + running[q].due[i] <= bound[i]
      BY <2>2 DEF FaucetInv, DueInv, QueueInv
    <3>2. AskedFor[q] \in Accounts
      BY DEF Accounts
    <3>3. \A i \in nextDue(q) : i \in DOMAIN FaucetAssets /\ FaucetAssets[i] \in Assets /\ i \in DOMAIN running[q].due
      BY <3>1, FaucetNumbers DEF nextDue
    <3>4. ASSUME NEW i \in nextDue(q)
          PROVE  credit'[AskedFor[q]][FaucetAssets[i]] + running[q].due[i] <= bound[i]
      <4>1. credit'[AskedFor[q]][FaucetAssets[i]] <= credit[AskedFor[q]][FaucetAssets[i]]
            /\ credit'[AskedFor[q]][FaucetAssets[i]] \in Nat /\ credit[AskedFor[q]][FaucetAssets[i]] \in Nat
        BY <1>3, <3>2, <3>3
      <4>2. running[q].due[i] \in Nat
        BY <3>3 DEF FaucetInv, FaucetTypes
      <4>3. bound[i] \in Nat
        BY <3>3, BoundTyped DEF FaucetInv
      <4>4. credit[AskedFor[q]][FaucetAssets[i]] + running[q].due[i] <= bound[i]
        BY <3>1
      <4>5. QED  BY <4>1, <4>2, <4>3, <4>4
    <3>5. QED  BY <3>4
  <2>3. \A q \in Asks : nextDue(q)' = nextDue(q)
    BY <2>1 DEF nextDue
  <2>4. QED  BY <1>11, <2>1, <2>2, <2>3 DEF DueInv
<1>14. WindowInv'
  BY <1>1, NoWindowAsked DEF FaucetInv, requestSide, faucetHistory
<1>15. QED  BY <1>4, <1>7, <1>8, <1>9, <1>10, <1>12, <1>13, <1>14 DEF FaucetInv

\* The task that sends has the first nonce nobody used, and what it is about to send
\* is one of the assets that are due.
LEMMA SendFacts ==
  ASSUME FaucetInv, NEW r \in Asks, turn(r), stage[r] = "sending", nextDue(r) # {},
         NEW t, t = [nonce |-> running[r].nonce, to |-> AskedFor[r],
                     asset |-> FaucetAssets[Min(nextDue(r))], amount |-> running[r].due[Min(nextDue(r))]]
  PROVE  /\ nonceFree(running[r].nonce)
         /\ running[r].nonce \in Nat /\ running[r].nonce = minedNonces + Cardinality(pending)
         /\ Min(nextDue(r)) \in nextDue(r) /\ Min(nextDue(r)) \in Nat /\ nextDue(r) \subseteq DOMAIN running[r].due
         /\ t \in Transfers /\ t \notin sent
<1>1. /\ running[r].due \in Seq(Nat) /\ running[r].nonce \in Nat
      /\ minedNonces \in Nat /\ Cardinality(pending) \in Nat
  BY DEF FaucetInv, FaucetTypes, NonceInv
<1>2. nextDue(r) \subseteq DOMAIN running[r].due /\ IsFiniteSet(nextDue(r)) /\ \A k \in nextDue(r) : k \in Nat
  <2>1. nextDue(r) \subseteq DOMAIN running[r].due
    BY DEF nextDue
  <2>2. DOMAIN running[r].due = 1..Len(running[r].due) /\ Len(running[r].due) \in Nat
    BY <1>1
  <2>3. IsFiniteSet(DOMAIN running[r].due)
    BY <2>2, FS_Interval
  <2>4. \A k \in DOMAIN running[r].due : k \in Nat
    BY <2>2
  <2>5. QED  BY <2>1, <2>3, <2>4, FS_Subset
<1>3. Min(nextDue(r)) \in nextDue(r) /\ Min(nextDue(r)) \in Nat
  BY <1>2, FirstPosition
<1>4. running[r].nonce = minedNonces + Cardinality(pending)
  BY DEF FaucetInv, CountInv
<1>5. \A p \in sent : p.nonce # running[r].nonce
  <2>1. \A p \in sent : p.nonce \in Nat /\ p.nonce < minedNonces + Cardinality(pending)
    BY DEF FaucetInv, FaucetTypes, NonceInv, Transfers
  <2>2. QED  BY <1>1, <1>4, <2>1
<1>6. nonceFree(running[r].nonce)
  <2>1. running[r].nonce >= minedNonces
    BY <1>1, <1>4
  <2>2. \A p \in pending : p.nonce # running[r].nonce
    BY <1>5 DEF FaucetInv, FaucetTypes
  <2>3. QED  BY <2>1, <2>2 DEF nonceFree
<1>7. t \in Transfers
  <2>1. AskedFor[r] \in Accounts
    BY DEF Accounts
  <2>2. running[r].due[Min(nextDue(r))] \in Nat
    BY <1>1, <1>2, <1>3
  <2>3. FaucetAssets[Min(nextDue(r))] \in Assets
    <3>1. DOMAIN running[r].due = DOMAIN FaucetAssets
      BY DEF FaucetInv, QueueInv
    <3>2. QED  BY <1>2, <1>3, <3>1, FaucetNumbers
  <2>4. QED  BY <1>1, <2>1, <2>2, <2>3 DEF Transfers
<1>8. t \notin sent
  BY <1>5
<1>9. QED  BY <1>1, <1>2, <1>3, <1>4, <1>6, <1>7, <1>8

\* What a broadcast does to the chain's side, whoever hears of it.
LEMMA Broadcast ==
  ASSUME FaucetInv, NEW t \in Transfers, t \notin sent, t.nonce = minedNonces + Cardinality(pending),
         pending' = pending \cup {t}, sent' = sent \cup {t}, UNCHANGED <<balances, minedNonces, faucetCase>>
  PROVE  /\ NonceInv' /\ bound' = bound
         /\ Cardinality(pending') = Cardinality(pending) + 1
         /\ IsFiniteSet(sent') /\ pending' \subseteq sent' /\ sent' \subseteq Transfers
         /\ \A a \in Accounts : \A x \in Assets :
              credit'[a][x] = IF t.to = a /\ t.asset = x THEN credit[a][x] + t.amount ELSE credit[a][x]
<1>1. /\ pending \subseteq sent /\ t \notin pending /\ IsFiniteSet(pending) /\ IsFiniteSet(sent) /\ sent \subseteq Transfers
      /\ minedNonces \in Nat /\ Cardinality(pending) \in Nat
  BY IncomingFinite DEF FaucetInv, FaucetTypes, NonceInv
<1>2. Cardinality(pending') = Cardinality(pending) + 1
  BY <1>1, FS_AddElement
<1>3. Cardinality(sent') = Cardinality(sent) + 1 /\ IsFiniteSet(sent')
  BY <1>1, FS_AddElement
<1>4. \A p \in sent : p.nonce \in Nat /\ p.nonce < minedNonces + Cardinality(pending)
  BY <1>1 DEF FaucetInv, NonceInv, Transfers
<1>5. NonceInv'
  <2>1. \A p \in pending' : minedNonces' <= p.nonce
    BY <1>1 DEF FaucetInv, NonceInv
  <2>2. \A p \in pending : p.nonce # t.nonce
    BY <1>1, <1>4
  <2>3. \A p, q \in pending' : p.nonce = q.nonce => p = q
    BY <2>2 DEF FaucetInv, NonceInv
  <2>4. Cardinality(pending') \in Nat /\ Cardinality(sent') = minedNonces' + Cardinality(pending')
    BY <1>1, <1>2, <1>3 DEF FaucetInv, NonceInv
  <2>5. \A p \in sent' : p.nonce < minedNonces' + Cardinality(pending')
    BY <1>1, <1>2, <1>4
  <2>6. QED  BY <2>1, <2>3, <2>4, <2>5 DEF NonceInv
<1>6. bound' = bound
  BY DEF bound
<1>7. \A a \in Accounts : \A x \in Assets :
        credit'[a][x] = IF t.to = a /\ t.asset = x THEN credit[a][x] + t.amount ELSE credit[a][x]
  BY <1>1, CreditMore DEF FaucetInv
<1>8. pending' \subseteq sent' /\ sent' \subseteq Transfers
  BY <1>1
<1>9. QED  BY <1>2, <1>3, <1>5, <1>6, <1>7, <1>8

LEMMA SendKeeps == ASSUME FaucetInv, NEW r \in Asks, NEW replied \in BOOLEAN, sendNext(r, replied) PROVE FaucetInv'
<1> DEFINE a == AskedFor[r]
           i == Min(nextDue(r))
           t == [nonce |-> running[r].nonce, to |-> a, asset |-> FaucetAssets[i], amount |-> running[r].due[i]]
<1>1. /\ turn(r) /\ stage[r] = "sending" /\ nextDue(r) # {}
      /\ UNCHANGED <<faucetCase, faucetSecond, takes, balances, minedNonces, taken>>
  BY DEF sendNext
<1>2. /\ nonceFree(running[r].nonce)
      /\ running[r].nonce \in Nat /\ running[r].nonce = minedNonces + Cardinality(pending)
      /\ i \in nextDue(r) /\ i \in Nat /\ nextDue(r) \subseteq DOMAIN running[r].due
      /\ t \in Transfers /\ t \notin sent
  BY <1>1, SendFacts
<1>3. /\ pending' = pending \cup {t} /\ sent' = sent \cup {t}
      /\ \/ /\ running' = [running EXCEPT ![r].nonce = @ + 1, ![r].sends = @ \cup {[i |-> i, nonce |-> t.nonce]}]
            /\ UNCHANGED <<stage, queue, gaveUp>>
         \/ ends(r, "failed") /\ gaveUp' = gaveUp \cup {a}
  BY <1>2 DEF sendNext
<1>4. /\ t.nonce = running[r].nonce /\ t.to = a /\ t.asset = FaucetAssets[i] /\ t.amount = running[r].due[i]
      /\ a \in Accounts
  BY DEF Accounts
<1>5. DOMAIN running[r].due = DOMAIN FaucetAssets
  BY <1>1 DEF FaucetInv, QueueInv
<1>6. \A j \in nextDue(r) : a \notin gaveUp => credit[a][FaucetAssets[j]] + running[r].due[j] <= bound[j]
  BY <1>1 DEF FaucetInv, DueInv
<1> HIDE DEF t, i
<1>7. /\ NonceInv' /\ bound' = bound
      /\ Cardinality(pending') = Cardinality(pending) + 1
      /\ IsFiniteSet(sent') /\ pending' \subseteq sent' /\ sent' \subseteq Transfers
      /\ \A b \in Accounts : \A x \in Assets :
           credit'[b][x] = IF t.to = b /\ t.asset = x THEN credit[b][x] + t.amount ELSE credit[b][x]
  <2>1. t \in Transfers /\ t \notin sent /\ t.nonce = minedNonces + Cardinality(pending)
    BY <1>2, <1>4
  <2>2. pending' = pending \cup {t} /\ sent' = sent \cup {t}
    BY <1>3
  <2>3. UNCHANGED <<balances, minedNonces, faucetCase>>
    BY <1>1
  <2>4. QED  BY <2>1, <2>2, <2>3, Broadcast
<1>8. i \in DOMAIN FaucetAssets /\ FaucetAssets[i] \in Assets
  BY <1>2, <1>5, FaucetNumbers
<1>9. ASSUME NEW b \in Accounts \ gaveUp, NEW j \in DOMAIN FaucetAssets
      PROVE  credit'[b][FaucetAssets[j]] <= bound'[j]
  <2>1. FaucetAssets[j] \in Assets /\ credit[b][FaucetAssets[j]] <= bound[j]
    BY FaucetNumbers DEF FaucetInv, CreditInv
  <2>2. CASE b = a /\ j = i
    BY <1>2, <1>4, <1>6, <1>7, <1>8, <2>2
  <2>3. CASE b # a
    BY <1>4, <1>7, <2>1, <2>3
  <2>4. CASE j # i
    <3>1. FaucetAssets[j] # FaucetAssets[i]
      BY <1>8, <2>4, FaucetNumbers
    <3>2. QED  BY <1>4, <1>7, <2>1, <3>1
  <2>5. QED  BY <2>2, <2>3, <2>4
<1>10. WindowInv'
  BY <1>1, NoWindowAsked DEF FaucetInv
<1>11. \A p \in pending : p.to \notin gaveUp => p.to = a /\ \E s \in running[r].sends : s.nonce = p.nonce
  BY <1>1, Awaited
<1>12. CASE ends(r, "failed") /\ gaveUp' = gaveUp \cup {a}
  <2>1. /\ QueueInv'
        /\ \A q \in Asks : stage'[q] \notin Running
        /\ stage' = [stage EXCEPT ![r] = "failed"] /\ running' = [running EXCEPT ![r] = Idle]
    BY <1>1, <1>12, EndLeavesQueue DEF FaucetInv, Stages, InService
  <2>2. FaucetTypes'
    BY <1>1, <1>7, <2>1, IdleTyped DEF FaucetInv, FaucetTypes, Stages
  <2>3. CountInv'
    BY <2>1 DEF FaucetInv, FaucetTypes, CountInv, NeverCollides, Running
  <2>4. PendingInv'
    BY <1>3, <1>4, <1>11, <1>12 DEF PendingInv
  <2>5. DueInv'
    BY <2>1 DEF DueInv, Running
  <2>6. CreditInv'
    BY <1>9, <1>12 DEF CreditInv
  <2>7. QED  BY <1>7, <1>10, <2>1, <2>2, <2>3, <2>4, <2>5, <2>6 DEF FaucetInv
<1>13. CASE /\ running' = [running EXCEPT ![r].nonce = @ + 1, ![r].sends = @ \cup {[i |-> i, nonce |-> t.nonce]}]
            /\ UNCHANGED <<stage, queue, gaveUp>>
  <2>1. FaucetTypes'
    <3>1. [i |-> i, nonce |-> t.nonce] \in [i : Nat, nonce : Nat] /\ running[r].nonce + 1 \in Nat
      BY <1>2, <1>4
    <3>2. running' \in [Asks -> [due : Seq(Nat), nonce : Nat, sends : SUBSET [i : Nat, nonce : Nat], since : Nat]]
      BY <1>13, <3>1 DEF FaucetInv, FaucetTypes
    <3>3. QED  BY <1>1, <1>7, <1>13, <3>2 DEF FaucetInv, FaucetTypes
  <2>2. /\ \A q \in Asks : q # r => running'[q] = running[q]
        /\ running'[r].due = running[r].due /\ running'[r].nonce = running[r].nonce + 1
        /\ running'[r].sends = running[r].sends \cup {[i |-> i, nonce |-> t.nonce]}
    BY <1>13 DEF FaucetInv, FaucetTypes
  <2>3. \A q \in Asks : stage[q] \in Running => q = r
    BY <1>1, TurnFacts DEF FaucetInv
  <2>4. QueueInv'
    <3>1. \A q \in Asks : stage[q] \notin {"sending", "waiting"} => running'[q].sends = {}
      BY <1>1, <2>2 DEF FaucetInv, QueueInv
    <3>2. \A q \in Asks : stage[q] \in {"held", "read", "sending"} => DOMAIN running'[q].due = DOMAIN FaucetAssets
      BY <1>5, <2>2, <2>3 DEF Running
    <3>3. QED  BY <1>13, <3>1, <3>2 DEF FaucetInv, QueueInv
  <2>5. CountInv'
    <3>1. minedNonces \in Nat /\ Cardinality(pending) \in Nat
      BY DEF FaucetInv, FaucetTypes, NonceInv
    <3>2. running'[r].nonce = minedNonces' + Cardinality(pending')
      BY <1>1, <1>2, <1>7, <2>2, <3>1
    <3>3. \A q \in Asks : stage'[q] = "sending" => running'[q].nonce = minedNonces' + Cardinality(pending')
      BY <1>13, <2>3, <3>2 DEF Running
    <3>4. NeverCollides'
      BY <1>13 DEF FaucetInv, CountInv, NeverCollides
    <3>5. QED  BY <3>3, <3>4 DEF CountInv
  <2>6. PendingInv'
    <3>1. stage'[r] = "sending"
      BY <1>1, <1>13
    <3>2. [i |-> i, nonce |-> t.nonce] \in running'[r].sends /\ running[r].sends \subseteq running'[r].sends
      BY <2>2
    <3>3. ASSUME NEW p \in pending', p.to \notin gaveUp
          PROVE  p.to = a /\ \E s \in running'[r].sends : s.nonce = p.nonce
      <4>1. CASE p = t
        BY <1>4, <3>2, <4>1
      <4>2. CASE p \in pending
        BY <1>11, <3>2, <3>3, <4>2
      <4>3. QED  BY <1>3, <4>1, <4>2
    <3>4. QED  BY <1>13, <3>1, <3>3 DEF PendingInv
  <2>7. DueInv'
    <3>1. ASSUME NEW q \in Asks, stage[q] \in {"held", "read", "sending"}, AskedFor[q] \notin gaveUp, NEW j \in nextDue(q)'
          PROVE  credit'[AskedFor[q]][FaucetAssets[j]] + running'[q].due[j] <= bound'[j]
      <4>1. q = r
        BY <2>3, <3>1 DEF Running
      <4>2. j \in nextDue(r) /\ j # i
        <5>1. j \in DOMAIN running'[r].due /\ running'[r].due[j] > 0 /\ \A s \in running'[r].sends : s.i # j
          BY <3>1, <4>1 DEF nextDue
        <5>2. j # i
          <6>1. [i |-> i, nonce |-> t.nonce] \in running'[r].sends /\ [i |-> i, nonce |-> t.nonce].i = i
            BY <2>2
          <6>2. QED  BY <5>1, <6>1
        <5>3. j \in DOMAIN running[r].due /\ running[r].due[j] > 0 /\ \A s \in running[r].sends : s.i # j
          BY <2>2, <5>1
        <5>4. QED  BY <5>2, <5>3 DEF nextDue
      <4>3. j \in DOMAIN FaucetAssets /\ FaucetAssets[j] # FaucetAssets[i] /\ FaucetAssets[j] \in Assets
        BY <1>2, <1>5, <1>8, <4>2, FaucetNumbers
      <4>4. credit'[a][FaucetAssets[j]] = credit[a][FaucetAssets[j]]
        BY <1>4, <1>7, <4>3
      <4>5. QED  BY <1>6, <1>7, <2>2, <3>1, <4>1, <4>2, <4>4
    <3>2. QED  BY <1>13, <3>1 DEF DueInv
  <2>8. CreditInv'
    BY <1>9, <1>13 DEF CreditInv
  <2>9. QED  BY <1>7, <1>10, <2>1, <2>4, <2>5, <2>6, <2>7, <2>8 DEF FaucetInv
<1>14. QED  BY <1>3, <1>12, <1>13

\* Only requests that are asked or whose turn it is move, and a request that is
\* asked joins the queue at its end.
LEMMA AskKeeps == ASSUME FaucetInv, NEW r \in Asks, POSTfaucet(r) PROVE FaucetInv'
<1>1. PICK next \in {"queued", "limited"} :
        /\ stage' = [stage EXCEPT ![r] = next]
        /\ queue' = IF next = "queued" THEN Append(queue, r) ELSE queue
  BY DEF POSTfaucet
<1>2. stage[r] = "idle" /\ UNCHANGED <<faucetCase, faucetSecond, running, tokenSide, sent, gaveUp>>
  BY DEF POSTfaucet
<1>3. stage \in [Asks -> Stages]
  BY DEF FaucetInv, FaucetTypes
<1>4. stage'[r] = next /\ \A q \in Asks : q # r => stage'[q] = stage[q]
  BY <1>1, <1>3
<1>5. FaucetTypes'
  <2>1. stage' \in [Asks -> Stages]
    BY <1>1, <1>3 DEF Stages
  <2>2. QED  BY <1>2, <2>1 DEF FaucetInv, FaucetTypes, tokenSide
<1>6. NonceInv' /\ credit' = credit /\ bound' = bound
  BY <1>2, ChainStays DEF tokenSide
<1>7. \A q \in Asks : stage'[q] \in Running <=> stage[q] \in Running
  BY <1>2, <1>4 DEF Running
<1>8. QueueInv'
  <2>1. queue \in Seq(Asks) /\ Len(queue) \in Nat
    BY DEF FaucetInv, QueueInv
  <2>2. \A k \in DOMAIN queue : queue[k] \in Asks /\ queue[k] # r
    BY <1>2, <2>1 DEF FaucetInv, QueueInv, InService
  <2>3. \A q \in Asks : stage'[q] \notin {"sending", "waiting"} => running'[q].sends = {}
    BY <1>2, <1>4 DEF FaucetInv, QueueInv
  <2>4. \A q \in Asks : stage'[q] \in {"held", "read", "sending"} => DOMAIN running'[q].due = DOMAIN FaucetAssets
    BY <1>1, <1>2, <1>4 DEF FaucetInv, QueueInv
  <2>5. CASE next = "limited"
    <3>1. queue' = queue
      BY <1>1, <2>5
    <3>2. \A q \in Asks : stage'[q] \in InService <=> stage[q] \in InService
      BY <1>2, <1>4, <2>5 DEF InService
    <3>3. \A k \in DOMAIN queue : k # 1 => stage'[queue[k]] = "queued"
      BY <1>4, <2>2 DEF FaucetInv, QueueInv
    <3>4. QED  BY <2>3, <2>4, <3>1, <3>2, <3>3 DEF FaucetInv, QueueInv
  <2>6. CASE next = "queued"
    <3> DEFINE last == Len(queue) + 1
    <3>1. queue' = Append(queue, r)
      BY <1>1, <2>6
    <3>2. /\ queue' \in Seq(Asks) /\ DOMAIN queue' = 1..last /\ queue'[last] = r /\ last \in 1..last
          /\ \A k \in DOMAIN queue' : k # last => k \in DOMAIN queue /\ queue'[k] = queue[k]
          /\ \A k \in DOMAIN queue : k \in DOMAIN queue' /\ queue'[k] = queue[k]
      BY <2>1, <3>1
    <3> HIDE DEF last
    <3>3. \A j, k \in DOMAIN queue' : queue'[j] = queue'[k] => j = k
      BY <2>2, <3>2 DEF FaucetInv, QueueInv
    <3>4. ASSUME NEW q \in Asks PROVE stage'[q] \in InService <=> \E k \in DOMAIN queue' : queue'[k] = q
      <4>1. CASE q = r
        BY <1>4, <2>6, <3>2, <4>1 DEF InService
      <4>2. CASE q # r
        <5>1. stage'[q] \in InService <=> \E k \in DOMAIN queue : queue[k] = q
          BY <1>4, <4>2 DEF FaucetInv, QueueInv
        <5>2. (\E k \in DOMAIN queue : queue[k] = q) <=> \E k \in DOMAIN queue' : queue'[k] = q
          BY <3>2, <4>2
        <5>3. QED  BY <5>1, <5>2
      <4>3. QED  BY <4>1, <4>2
    <3>5. \A k \in DOMAIN queue' : k # 1 => stage'[queue'[k]] = "queued"
      BY <1>4, <2>2, <2>6, <3>2 DEF FaucetInv, QueueInv
    <3>6. QED  BY <2>3, <2>4, <3>2, <3>3, <3>4, <3>5 DEF QueueInv
  <2>7. QED  BY <2>5, <2>6
<1>9. CountInv'
  BY <1>1, <1>2, <1>4 DEF FaucetInv, CountInv, NeverCollides, tokenSide
<1>10. PendingInv'
  <2>1. \A q \in Asks : stage[q] \in {"sending", "waiting"} => stage'[q] \in {"sending", "waiting"}
    BY <1>2, <1>4
  <2>2. QED  BY <1>2, <2>1 DEF FaucetInv, PendingInv, tokenSide
<1>11. DueInv'
  <2>1. \A q \in Asks : stage'[q] \in {"held", "read", "sending"} => stage[q] \in {"held", "read", "sending"}
    BY <1>1, <1>4
  <2>2. \A q \in Asks : nextDue(q)' = nextDue(q)
    BY <1>2 DEF nextDue
  <2>3. QED  BY <1>2, <1>6, <2>1, <2>2 DEF FaucetInv, DueInv
<1>12. CreditInv'
  BY <1>2, <1>6 DEF FaucetInv, CreditInv
<1>13. WindowInv'
  BY AskKeepsWindows DEF FaucetInv
<1>14. QED  BY <1>5, <1>6, <1>8, <1>9, <1>10, <1>11, <1>12, <1>13 DEF FaucetInv

\* A process that starts again remembers nothing, and what it had sent and not
\* answered is given up.
LEMMA RestartKeeps == ASSUME FaucetInv, FaucetRestarts PROVE FaucetInv'
<1>1. /\ takes' = [k \in WindowKeys |-> <<>>] /\ taken' = takes'
      /\ stage' = [r \in Asks |-> IF r \in Range(queue) THEN "failed" ELSE stage[r]]
      /\ queue' = <<>> /\ running' = [r \in Asks |-> Idle]
      /\ gaveUp' = gaveUp \cup {AskedFor[r] : r \in {q \in Asks : running[q].sends # {}}}
      /\ UNCHANGED <<faucetCase, faucetSecond, tokenSide, sent>>
  BY DEF FaucetRestarts
<1>2. \A r \in Asks : stage'[r] \in Stages \ InService /\ stage'[r] # "nonce refused"
  <2> TAKE r \in Asks
  <2>1. stage[r] \in InService <=> r \in Range(queue)
    BY DEF FaucetInv, QueueInv, Range
  <2>2. stage[r] \in Stages /\ stage[r] # "nonce refused"
    BY DEF FaucetInv, FaucetTypes, CountInv, NeverCollides
  <2>3. stage'[r] = IF r \in Range(queue) THEN "failed" ELSE stage[r]
    BY <1>1
  <2>4. QED  BY <2>1, <2>2, <2>3 DEF Stages, InService
<1>3. \A r \in Asks : running'[r] = Idle /\ Idle.sends = {}
  BY <1>1 DEF Idle
<1>4. FaucetTypes'
  <2>1. stage' \in [Asks -> Stages]
    BY <1>1, <1>2
  <2>2. running' \in [Asks -> [due : Seq(Nat), nonce : Nat, sends : SUBSET [i : Nat, nonce : Nat], since : Nat]]
    BY <1>1, IdleTyped
  <2>3. QED  BY <1>1, <2>1, <2>2 DEF FaucetInv, FaucetTypes, tokenSide
<1>5. NonceInv' /\ credit' = credit /\ bound' = bound
  BY <1>1, ChainStays DEF tokenSide
<1>6. QueueInv'
  <2>1. queue' \in Seq(Asks) /\ \A k \in DOMAIN queue' : FALSE
    BY <1>1
  <2>2. \A r \in Asks : stage'[r] \notin InService /\ stage'[r] \notin {"held", "read", "sending"}
    BY <1>2 DEF InService
  <2>3. QED  BY <1>3, <2>1, <2>2 DEF QueueInv
<1>7. CountInv'
  BY <1>2 DEF CountInv, NeverCollides, InService
<1>8. PendingInv'
  <2>1. ASSUME NEW p \in pending PROVE p.to \in gaveUp'
    <3>1. CASE p.to \in gaveUp
      BY <1>1, <3>1
    <3>2. CASE p.to \notin gaveUp
      <4>1. PICK r \in Asks : AskedFor[r] = p.to /\ \E s \in running[r].sends : s.nonce = p.nonce
        BY <3>2 DEF FaucetInv, PendingInv
      <4>2. QED  BY <1>1, <4>1
    <3>3. QED  BY <3>1, <3>2
  <2>2. QED  BY <1>1, <2>1 DEF PendingInv, tokenSide
<1>9. DueInv'
  BY <1>2 DEF DueInv, InService
<1>10. CreditInv'
  <2>1. gaveUp \subseteq gaveUp'
    BY <1>1
  <2>2. QED  BY <1>5, <2>1 DEF FaucetInv, CreditInv
<1>11. WindowInv'
  <2>1. ASSUME NEW k \in WindowKeys
        PROVE  /\ takes'[k] = <<>> /\ taken'[k] = <<>>
               /\ \A T \in Nat : newer(takes'[k], T) = newer(taken'[k], T)
    BY <1>1
  <2>2. <<>> \in Seq(Nat) /\ \A n \in DOMAIN <<>> : FALSE
    OBVIOUS
  <2>3. \A k \in WindowKeys : /\ takes'[k] \in Seq(Nat) /\ taken'[k] \in Seq(Nat)
                             /\ \A n \in DOMAIN taken'[k] : FALSE
    BY <2>1, <2>2
  <2>4. QED  BY <2>1, <2>3 DEF WindowInv, WindowKeys, newer, window, limitOf
<1>12. QED  BY <1>4, <1>5, <1>6, <1>7, <1>8, <1>9, <1>10, <1>11 DEF FaucetInv

\* A step in which at most time passes.
LEMMA ClockKeeps ==
  ASSUME FaucetInv, UNCHANGED <<faucetCase, requestSide, tokenSide, faucetHistory>>,
         faucetSecond' \in Nat, faucetSecond <= faucetSecond'
  PROVE  FaucetInv'
<1>1. /\ UNCHANGED <<takes, stage, queue, running>>
      /\ UNCHANGED <<balances, minedNonces, pending>>
      /\ UNCHANGED <<taken, sent, gaveUp>>
  BY DEF requestSide, tokenSide, faucetHistory
<1>2. FaucetTypes'
  BY <1>1 DEF FaucetInv, FaucetTypes
<1>3. NonceInv' /\ credit' = credit /\ bound' = bound
  BY <1>1, ChainStays
<1>4. QueueInv' /\ CountInv' /\ PendingInv'
  BY <1>1 DEF FaucetInv, QueueInv, CountInv, NeverCollides, PendingInv
<1>5. DueInv'
  <2>1. \A q \in Asks : nextDue(q)' = nextDue(q)
    BY <1>1 DEF nextDue
  <2>2. QED  BY <1>1, <1>3, <2>1 DEF FaucetInv, DueInv
<1>6. CreditInv'
  BY <1>1, <1>3 DEF FaucetInv, CreditInv
<1>7. WindowInv'
  BY <1>1, WindowsStay DEF FaucetInv
<1>8. QED  BY <1>2, <1>3, <1>4, <1>5, <1>6, <1>7 DEF FaucetInv

LEMMA FaucetStart == FaucetInit => FaucetInv
<1> SUFFICES ASSUME FaucetInit PROVE FaucetInv
  OBVIOUS
<1>1. faucetCase.held \in Nat /\ faucetCase \in FaucetCases
  BY FaucetNumbers DEF FaucetInit
<1>2. balances \in [Accounts -> [Assets -> Nat]]
  BY <1>1 DEF FaucetInit
<1>3. FaucetTypes
  <2>1. running \in [Asks -> [due : Seq(Nat), nonce : Nat, sends : SUBSET [i : Nat, nonce : Nat], since : Nat]]
    BY IdleTyped DEF FaucetInit
  <2>2. QED  BY <1>1, <1>2, <2>1, FS_EmptySet DEF FaucetInit, FaucetTypes, Stages
<1>4. QueueInv
  BY DEF FaucetInit, QueueInv, InService, Idle
<1>5. NonceInv /\ CountInv
  BY FS_EmptySet DEF FaucetInit, NonceInv, CountInv, NeverCollides
<1>6. PendingInv /\ DueInv
  BY DEF FaucetInit, PendingInv, DueInv
<1>7. CreditInv
  <2>1. ASSUME NEW a \in Accounts, NEW i \in DOMAIN FaucetAssets PROVE credit[a][FaucetAssets[i]] <= bound[i]
    <3>1. FaucetAssets[i] \in Assets
      BY FaucetNumbers
    <3>2. credit[a][FaucetAssets[i]] = balances[a][FaucetAssets[i]]
      BY <1>3, <3>1, NothingComing DEF FaucetInit
    <3>3. balances[a][FaucetAssets[i]] = IF i = 1 THEN 0 ELSE faucetCase.held
      BY <3>1, FaucetNumbers DEF FaucetInit
    <3>4. QED  BY <1>1, <3>2, <3>3, FaucetNumbers DEF bound
  <2>2. QED  BY <2>1 DEF CreditInv
<1>8. WindowInv
  <2>1. ASSUME NEW k \in WindowKeys PROVE takes[k] = <<>> /\ taken[k] = <<>>
    BY <2>1 DEF FaucetInit
  <2>2. <<>> \in Seq(Nat) /\ \A n \in DOMAIN <<>> : FALSE
    OBVIOUS
  <2>3. \A k \in WindowKeys : /\ takes[k] \in Seq(Nat) /\ taken[k] \in Seq(Nat) /\ takes[k] = taken[k]
                             /\ \A n \in DOMAIN taken[k] : FALSE
    BY <2>1, <2>2
  <2>4. \A k \in WindowKeys : \A T \in Nat : newer(takes[k], T) = newer(taken[k], T)
    BY <2>3
  <2>5. QED  BY <2>3, <2>4 DEF WindowInv
<1>9. QED  BY <1>3, <1>4, <1>5, <1>6, <1>7, <1>8 DEF FaucetInv

LEMMA FaucetStep == FaucetInv /\ [FaucetNext]_faucetVars => FaucetInv'
<1> SUFFICES ASSUME FaucetInv, [FaucetNext]_faucetVars PROVE FaucetInv'
  OBVIOUS
<1>1. CASE UNCHANGED faucetVars
  <2>1. UNCHANGED <<faucetCase, requestSide, tokenSide, faucetHistory>> /\ faucetSecond' = faucetSecond
    BY <1>1 DEF faucetVars
  <2>2. faucetSecond \in Nat
    BY DEF FaucetInv, FaucetTypes
  <2>3. faucetSecond' \in Nat /\ faucetSecond <= faucetSecond'
    BY <2>1, <2>2
  <2>4. QED  BY <2>1, <2>3, ClockKeeps
<1>2. CASE FaucetSecondPasses
  <2>1. UNCHANGED <<faucetCase, requestSide, tokenSide, faucetHistory>> /\ faucetSecond' = faucetSecond + 1
    BY <1>2 DEF FaucetSecondPasses
  <2>2. faucetSecond \in Nat
    BY DEF FaucetInv, FaucetTypes
  <2>3. faucetSecond' \in Nat /\ faucetSecond <= faucetSecond'
    BY <2>1, <2>2
  <2>4. QED  BY <2>1, <2>3, ClockKeeps
<1>3. ASSUME NEW r \in Asks, POSTfaucet(r) PROVE FaucetInv'
  BY <1>3, AskKeeps
<1>4. ASSUME NEW r \in Asks, readHeld(r) PROVE FaucetInv'
  BY <1>4, ReadKeeps
<1>5. ASSUME NEW r \in Asks, countNonces(r) PROVE FaucetInv'
  BY <1>5, CountKeeps
<1>6. ASSUME NEW r \in Asks, waits(r) PROVE FaucetInv'
  BY <1>6, WaitsKeep
<1>7. ASSUME NEW r \in Asks, receipts(r) PROVE FaucetInv'
  BY <1>7, ReceiptsKeep
<1>8. ASSUME NEW r \in Asks, taskThrows(r) PROVE FaucetInv'
  BY <1>8, ThrowKeeps
<1>9. ASSUME NEW r \in Asks, NEW replied \in BOOLEAN, sendNext(r, replied) PROVE FaucetInv'
  BY <1>9, SendKeeps
<1>10. CASE TransferMined
  BY <1>10, MinedKeeps
<1>11. ASSUME NEW r \in Asks, readOwn(r) PROVE FaucetInv'
  BY <1>11, OwnKeeps
<1>12. CASE FaucetRestarts
  BY <1>12, RestartKeeps
<1>13. QED  BY <1>1, <1>2, <1>3, <1>4, <1>5, <1>6, <1>7, <1>8, <1>9, <1>10, <1>11, <1>12 DEF FaucetNext

LEMMA FaucetPromises == FaucetInv => FaucetHolds
<1> SUFFICES ASSUME FaucetInv PROVE FaucetHolds
  OBVIOUS
<1>1. FaucetTypeOK
  <2>1. stage \in [Asks -> Stages] /\ pending \subseteq sent
    BY DEF FaucetInv, FaucetTypes
  <2>2. {r \in Asks : stage[r] \in InService} = Range(queue)
    <3>1. \A k \in DOMAIN queue : queue[k] \in Asks
      BY DEF FaucetInv, QueueInv
    <3>2. QED  BY <3>1 DEF FaucetInv, QueueInv, Range
  <2>3. minedNonces \in 0..Cardinality(sent)
    BY DEF FaucetInv, FaucetTypes, NonceInv
  <2>4. QED  BY <2>1, <2>2, <2>3 DEF FaucetTypeOK, Stages, InService
<1>2. ToppedUpOnce
  <2>1. ASSUME NEW a \in Accounts \ gaveUp, NEW i \in DOMAIN FaucetAssets
        PROVE  balances[a][FaucetAssets[i]] + coming(a, FaucetAssets[i]) <= bound[i]
    <3>1. credit[a][FaucetAssets[i]] <= bound[i] /\ FaucetAssets[i] \in Assets
      BY FaucetNumbers DEF FaucetInv, CreditInv
    <3>2. QED  BY <3>1 DEF credit
  <2>2. QED  BY <2>1 DEF ToppedUpOnce, bound
<1>3. NeverCollides
  BY DEF FaucetInv, CountInv
<1>4. WindowsBound
  BY DEF FaucetInv, WindowInv, WindowsBound, window
<1>5. QED  BY <1>1, <1>2, <1>3, <1>4 DEF FaucetHolds

\* Whatever was broadcast, mined late, refused or given up on before it, no transfer
\* of the faucet takes a nonce twice, an account is topped up once and not beyond its
\* target unless a request gave up on a transfer already sent to it, and no client
\* and no account is served more often than its window allows (routes/faucet.ts).
THEOREM FaucetAlwaysHolds == FaucetSpec => []FaucetHolds
<1>1. FaucetSpec => []FaucetInv
  BY FaucetStart, FaucetStep, PTL DEF FaucetSpec
<1>2. QED  BY <1>1, FaucetPromises, PTL

----------------------------------------------------------------------------
(* Preflight: the arithmetic of a plan.                                    *)

\* A share of at most the whole grows no faster than what it is a share of.
LEMMA ShareSlope ==
  ASSUME NEW s \in Int, NEW d \in Nat, NEW part \in Nat, part <= BPS
  PROVE  ((s + d) * part) \div BPS <= (s * part) \div BPS + d
<1>1. BPS \in Nat \ {0}
  BY ScaleAssumption
<1> DEFINE p == ((s + d) * part) \div BPS
           q == (s * part) \div BPS
<1>2. s * part \in Int /\ (s + d) * part \in Int
  BY Z3
<1>3. p \in Int /\ q \in Int
  BY <1>1, <1>2, QuotientInt
<1>4. BPS * p <= (s + d) * part /\ s * part < BPS * q + BPS
  BY <1>1, <1>2, QuotientBounds
<1> HIDE DEF p, q
<1>5. (s + d) * part = s * part + d * part /\ d * part <= d * BPS
  BY <1>1, Z3
<1>6. BPS * p < BPS * (q + d + 1)
  BY <1>1, <1>2, <1>3, <1>4, <1>5, Z3
<1>7. p < q + d + 1
  BY <1>1, <1>3, <1>6, Z3
<1>8. QED  BY <1>3, <1>7 DEF p, q

\* What is over the fee cap stays over it when the venue returns more.
LEMMA FeeCapGrowsSlower ==
  ASSUME NEW savings \in Int, NEW usd \in Nat, NEW more \in Nat, usd <= more, NEW notional \in Int,
         usd > feeCap(savings + usd, notional, ShareOfFee, ShareOfNotional)
  PROVE  more > feeCap(savings + more, notional, ShareOfFee, ShareOfNotional)
<1>1. ShareOfFee \in Nat /\ ShareOfFee <= BPS /\ ShareOfNotional \in Nat /\ BPS \in Nat \ {0}
  BY PreflightAssumption, ScaleAssumption
<1> DEFINE d  == more - usd
           a  == ((savings + usd) * ShareOfFee) \div BPS
           b  == ((savings + more) * ShareOfFee) \div BPS
           n  == (notional * ShareOfNotional) \div BPS
<1>2. d \in Nat /\ savings + usd \in Int /\ savings + more = (savings + usd) + d
  OBVIOUS
<1>3. b <= a + d
  BY <1>1, <1>2, ShareSlope
<1>4. (savings + usd) * ShareOfFee \in Int /\ (savings + more) * ShareOfFee \in Int /\ notional * ShareOfNotional \in Int
  BY <1>1, Z3
<1>5. a \in Int /\ b \in Int /\ n \in Int
  BY <1>1, <1>4, QuotientInt
<1>6. usd > (IF a < n THEN a ELSE n)
  BY DEF feeCap
<1>7. more > (IF b < n THEN b ELSE n) => more > feeCap(savings + more, notional, ShareOfFee, ShareOfNotional)
  BY DEF feeCap
<1> HIDE DEF a, b, n
<1>8. more > (IF b < n THEN b ELSE n)
  BY <1>3, <1>5, <1>6 DEF d
<1>9. QED  BY <1>7, <1>8
LEMMA PlanTypes ==
  ASSUME NEW p \in PlanRecords
  PROVE  /\ p.collectEnd \in Nat /\ p.halved \in BOOLEAN
         /\ IsFiniteSet(DOMAIN p.fills) /\ IsFiniteSet(DOMAIN p.routes)
         /\ \A k \in DOMAIN p.fills :
              /\ p.fills[k].sellToken \in PlanTokens /\ p.fills[k].buyToken \in PlanTokens
              /\ p.fills[k].executedSell \in Nat /\ p.fills[k].executedBuy \in Nat /\ p.fills[k].baseline \in Nat
         /\ \A r \in DOMAIN p.routes : p.routes[r].amountIn \in Nat /\ p.routes[r].minOut \in Nat
         /\ \A t \in PlanTokens : p.price[t] \in Nat
<1> DEFINE Fill == [sellToken : PlanTokens, executedSell : Nat, buyToken : PlanTokens, executedBuy : Nat, baseline : Nat]
           Route == [tokenIn : PlanTokens, tokenOut : PlanTokens, amountIn : Nat, minOut : Nat]
<1>1. p.fills \in Seq(Fill) /\ p.routes \in Seq(Route)
  BY DEF PlanRecords
<1>2. p.collectEnd \in Nat /\ p.halved \in BOOLEAN /\ p.price \in [PlanTokens -> Nat]
  BY DEF PlanRecords
<1>3. /\ DOMAIN p.fills = 1..Len(p.fills) /\ Len(p.fills) \in Nat
      /\ DOMAIN p.routes = 1..Len(p.routes) /\ Len(p.routes) \in Nat
  BY <1>1
<1>4. IsFiniteSet(DOMAIN p.fills) /\ IsFiniteSet(DOMAIN p.routes)
  BY <1>3, FS_Interval
<1>5. (\A k \in DOMAIN p.fills : p.fills[k] \in Fill) /\ (\A r \in DOMAIN p.routes : p.routes[r] \in Route)
  <2> HIDE DEF Fill, Route
  <2>1. p.fills \in [1..Len(p.fills) -> Fill] /\ p.routes \in [1..Len(p.routes) -> Route]
    BY <1>1
  <2>2. QED  BY <1>3, <2>1
<1>6. QED  BY <1>2, <1>4, <1>5

\* What a fill is worth, by either side's expression.
LEMMA FillWorth ==
  ASSUME NEW p \in PlanRecords, NEW k \in DOMAIN p.fills
  PROVE  /\ (p.fills[k].executedSell * p.price[p.fills[k].sellToken]) \div WAD \in Nat
         /\ quoteOf(p.fills[k].executedSell, p.price[p.fills[k].sellToken])
              = (p.fills[k].executedSell * p.price[p.fills[k].sellToken]) \div WAD
         /\ quoteOf(p.fills[k].executedBuy - p.fills[k].baseline, p.price[p.fills[k].buyToken]) \in Int
<1> DEFINE a == p.fills[k].executedSell
           s == p.price[p.fills[k].sellToken]
           d == p.fills[k].executedBuy - p.fills[k].baseline
           b == p.price[p.fills[k].buyToken]
<1>1. a \in Nat /\ s \in Nat /\ d \in Int /\ b \in Nat /\ WAD \in Nat \ {0}
  BY PlanTypes, ScaleAssumption
<1> HIDE DEF a, s, d, b
<1>2. a * s \in Nat /\ d * b \in Int
  BY <1>1, Z3
<1>3. (a * s) \div WAD \in Nat /\ (d * b) \div WAD \in Int
  BY <1>1, <1>2, QuotientNat, QuotientInt
<1>4. QED  BY <1>3 DEF quoteOf, a, s, d, b

\* The solver's exposure is the contract's, in total and per token.
LEMMA ExposureMirrors ==
  ASSUME NEW p \in PlanRecords
  PROVE  /\ notionalUsd(p) \in Nat /\ exposureNotional(p).notionalUsd = notionalUsd(p)
         /\ \A t \in PlanTokens : tokenNotional(p, t) \in Nat /\ exposureNotional(p).perToken[t] = tokenNotional(p, t)
<1> DEFINE D     == DOMAIN p.fills
           worth == [k \in D |-> (p.fills[k].executedSell * p.price[p.fills[k].sellToken]) \div WAD]
           usd   == [k \in D |-> quoteOf(p.fills[k].executedSell, p.price[p.fills[k].sellToken])]
<1>1. IsFiniteSet(D) /\ \A k \in D : worth[k] \in Nat /\ usd[k] = worth[k]
  BY PlanTypes, FillWorth
<1>2. notionalUsd(p) = SumFunctionOnSet(worth, D) /\ exposureNotional(p).notionalUsd = SumFunctionOnSet(usd, D)
  BY DEF notionalUsd, exposureNotional
<1>3. ASSUME NEW t \in PlanTokens
      PROVE  tokenNotional(p, t) \in Nat /\ exposureNotional(p).perToken[t] = tokenNotional(p, t)
  <2> DEFINE K    == {k \in D : p.fills[k].sellToken = t}
             mine == [k \in D |-> IF p.fills[k].sellToken = t THEN (p.fills[k].executedSell * p.price[t]) \div WAD ELSE 0]
  <2>1. \A k \in K : mine[k] = worth[k]
    OBVIOUS
  <2>2. \A k \in D : k \notin K => mine[k] = 0
    OBVIOUS
  <2>3. K \subseteq D /\ tokenNotional(p, t) = SumFunctionOnSet(mine, D)
    BY DEF tokenNotional
  <2>4. exposureNotional(p).perToken[t] = SumFunctionOnSet(usd, K)
    BY DEF exposureNotional
  <2> HIDE DEF K, D, mine, usd, worth
  <2>5. IsFiniteSet(K)
    BY <1>1, <2>3, FS_Subset
  <2>6. \A k \in K : usd[k] \in Int /\ mine[k] = usd[k]
    BY <1>1, <2>1, <2>3
  <2>7. \A k \in D : mine[k] \in Nat
    BY <1>1, <2>1, <2>2
  <2>8. SumFunctionOnSet(mine, D) = SumFunctionOnSet(usd, K)
    BY <1>1, <2>2, <2>3, <2>6, SumRestrict
  <2>9. SumFunctionOnSet(mine, D) \in Nat
    BY <1>1, <2>7, SumNat
  <2>10. QED  BY <2>3, <2>4, <2>8, <2>9
<1> HIDE DEF D, worth, usd
<1>4. SumFunctionOnSet(usd, D) = SumFunctionOnSet(worth, D) /\ SumFunctionOnSet(worth, D) \in Nat
  BY <1>1, SumSame, SumNat
<1>5. QED  BY <1>2, <1>3, <1>4

LEMMA SavingsInt == ASSUME NEW p \in PlanRecords PROVE claimedSavings(p) \in Int
<1> DEFINE f == [k \in DOMAIN p.fills |-> quoteOf(p.fills[k].executedBuy - p.fills[k].baseline, p.price[p.fills[k].buyToken])]
<1>1. IsFiniteSet(DOMAIN p.fills) /\ \A k \in DOMAIN p.fills : f[k] \in Int
  BY PlanTypes, FillWorth
<1> HIDE DEF f
<1>2. SumFunctionOnSet(f, DOMAIN p.fills) \in Int
  BY <1>1, SumInt
<1>3. QED  BY <1>2 DEF claimedSavings, f

\* What the routes leave, taken route by route or token by token; more if the
\* venue gives more.
LEMMA WithheldMirrors ==
  ASSUME NEW p \in PlanRecords, NEW t \in PlanTokens, NEW x \in Nat
  PROVE  /\ conservation(p, t) \in Int
         /\ withheld(p, t, 0) = IF conservation(p, t) > 0 THEN conservation(p, t) ELSE 0
         /\ withheld(p, t, x) \in Nat /\ withheld(p, t, 0) <= withheld(p, t, x)
<1> DEFINE R    == DOMAIN p.routes
           In   == {r \in R : p.routes[r].tokenIn = t}
           Out  == {r \in R : p.routes[r].tokenOut = t}
           amt  == [r \in R |-> p.routes[r].amountIn]
           exact == [r \in R |-> p.routes[r].minOut + 0]
           more == [r \in R |-> p.routes[r].minOut + x]
           delta == [r \in R |-> (IF p.routes[r].tokenOut = t THEN p.routes[r].minOut ELSE 0)
                                 - (IF p.routes[r].tokenIn = t THEN p.routes[r].amountIn ELSE 0)]
           ins   == [r \in R |-> IF p.routes[r].tokenIn = t THEN p.routes[r].amountIn ELSE 0]
           outs  == [r \in R |-> IF p.routes[r].tokenOut = t THEN p.routes[r].minOut ELSE 0]
           sum(f, S) == SumFunctionOnSet(f, S)
<1>1. IsFiniteSet(R) /\ \A r \in R : p.routes[r].amountIn \in Nat /\ p.routes[r].minOut \in Nat
  BY PlanTypes
<1>2. /\ \A r \in R : amt[r] \in Nat /\ exact[r] \in Nat /\ more[r] \in Nat /\ exact[r] <= more[r]
      /\ \A r \in R : delta[r] \in Int /\ ins[r] \in Int /\ outs[r] = delta[r] + ins[r] /\ outs[r] \in Int
      /\ \A r \in In : ins[r] = amt[r]
      /\ \A r \in R : r \notin In => ins[r] = 0
      /\ \A r \in Out : outs[r] = exact[r]
      /\ \A r \in R : r \notin Out => outs[r] = 0
  BY <1>1
<1>3. In \subseteq R /\ Out \subseteq R
  OBVIOUS
<1>4. pulledOf(p, t) \in Int /\ deliveredOf(p, t) \in Int
  <2> DEFINE S == {k \in DOMAIN p.fills : p.fills[k].sellToken = t}
             B == {k \in DOMAIN p.fills : p.fills[k].buyToken = t}
             f == [k \in DOMAIN p.fills |-> p.fills[k].executedSell]
             g == [k \in DOMAIN p.fills |-> p.fills[k].executedBuy]
  <2>1. IsFiniteSet(S) /\ IsFiniteSet(B)
    BY PlanTypes, FS_Subset
  <2>2. (\A k \in S : f[k] \in Int) /\ (\A k \in B : g[k] \in Int)
    BY PlanTypes
  <2> HIDE DEF S, B, f, g
  <2>3. SumFunctionOnSet(f, S) \in Int /\ SumFunctionOnSet(g, B) \in Int
    BY <2>1, <2>2, SumInt
  <2>4. QED  BY <2>3 DEF pulledOf, deliveredOf, S, B, f, g
<1>5. /\ routedDelta(p, t) = sum(delta, R)
      /\ conservation(p, t) = pulledOf(p, t) + sum(delta, R) - deliveredOf(p, t)
  BY DEF routedDelta, conservation, conserved
<1>6. /\ withheld(p, t, 0) = (LET left == pulledOf(p, t) - sum(amt, In) + sum(exact, Out) - deliveredOf(p, t)
                              IN  IF left > 0 THEN left ELSE 0)
      /\ withheld(p, t, x) = (LET left == pulledOf(p, t) - sum(amt, In) + sum(more, Out) - deliveredOf(p, t)
                              IN  IF left > 0 THEN left ELSE 0)
  BY DEF withheld
<1> HIDE DEF R, In, Out, amt, exact, more, delta, ins, outs
<1>7. IsFiniteSet(In) /\ IsFiniteSet(Out)
  BY <1>1, <1>3, FS_Subset
<1>8. /\ sum(delta, R) \in Int /\ sum(ins, R) \in Int
      /\ sum(amt, In) \in Int /\ sum(exact, Out) \in Int /\ sum(more, Out) \in Int
  <2>1. \A r \in R : amt[r] \in Int /\ exact[r] \in Int /\ more[r] \in Int
    BY <1>2
  <2>2. QED  BY <1>1, <1>2, <1>3, <1>7, <2>1, SumInt
<1>9. sum(outs, R) = sum(delta, R) + sum(ins, R)
  BY <1>1, <1>2, SumPlus
<1>10. sum(ins, R) = sum(amt, In)
  <2>1. \A r \in In : amt[r] \in Int /\ ins[r] = amt[r]
    BY <1>2, <1>3
  <2>2. QED  BY <1>1, <1>2, <1>3, <2>1, SumRestrict
<1>11. sum(outs, R) = sum(exact, Out)
  <2>1. \A r \in Out : exact[r] \in Int /\ outs[r] = exact[r]
    BY <1>2, <1>3
  <2>2. QED  BY <1>1, <1>2, <1>3, <2>1, SumRestrict
<1>12. sum(exact, Out) <= sum(more, Out)
  <2>1. \A r \in Out : exact[r] \in Int /\ more[r] \in Int /\ exact[r] <= more[r]
    BY <1>2, <1>3
  <2>2. QED  BY <1>7, <2>1, SumMonotone
<1> HIDE DEF sum
<1>13. QED  BY <1>4, <1>5, <1>6, <1>8, <1>9, <1>10, <1>11, <1>12

\* What is withheld is worth, by either side's expression.
LEMMA WithheldWorth ==
  ASSUME NEW p \in PlanRecords, NEW t \in PlanTokens, NEW x \in Nat
  PROVE  /\ (IF conservation(p, t) > 0 THEN quoteOf(conservation(p, t), p.price[t]) ELSE 0)
              = (withheld(p, t, 0) * p.price[t]) \div WAD
         /\ (withheld(p, t, 0) * p.price[t]) \div WAD \in Nat /\ (withheld(p, t, x) * p.price[t]) \div WAD \in Nat
         /\ (withheld(p, t, 0) * p.price[t]) \div WAD <= (withheld(p, t, x) * p.price[t]) \div WAD
<1> DEFINE c == conservation(p, t)
           v == p.price[t]
           w == withheld(p, t, 0)
           m == withheld(p, t, x)
<1>1. v \in Nat /\ WAD \in Nat \ {0}
  BY PlanTypes, ScaleAssumption
<1>2. c \in Int /\ w = (IF c > 0 THEN c ELSE 0) /\ w \in Nat /\ m \in Nat /\ w <= m
  <2>1. withheld(p, t, 0) \in Nat
    BY WithheldMirrors
  <2>2. QED  BY <2>1, WithheldMirrors
<1> HIDE DEF c, v, w, m
<1>3. w * v \in Nat /\ m * v \in Nat /\ w * v <= m * v
  BY <1>1, <1>2, ProductMonotone
<1>4. (w * v) \div WAD \in Nat /\ (m * v) \div WAD \in Nat /\ (w * v) \div WAD <= (m * v) \div WAD
  <2>1. (w * v) \div WAD \in Nat /\ (m * v) \div WAD \in Nat
    BY <1>1, <1>3, QuotientNat
  <2>2. (w * v) \div WAD <= (m * v) \div WAD
    BY <1>1, <1>3, QuotientMonotone
  <2>3. QED  BY <2>1, <2>2
<1>5. (IF c > 0 THEN quoteOf(c, v) ELSE 0) = (w * v) \div WAD
  <2>1. CASE c > 0
    BY <1>2, <2>1 DEF quoteOf
  <2>2. CASE ~(c > 0)
    <3>1. (0 * v) \div WAD = 0
      BY <1>1, Z3
    <3>2. QED  BY <1>2, <2>2, <3>1
  <2>3. QED  BY <2>1, <2>2
<1>6. QED  BY <1>4, <1>5 DEF c, v, w, m

\* The solver's fee check is the contract's for a venue that returns minOut, and
\* one that returns more does not mend it.
LEMMA FeesMirror ==
  ASSUME NEW p \in PlanRecords, NEW x \in Nat
  PROVE  (feeCheck(p) <=> feesPass(p, 0)) /\ (~feeCheck(p) => ~feesPass(p, x))
<1> DEFINE asked == [t \in PlanTokens |-> IF conservation(p, t) > 0 THEN quoteOf(conservation(p, t), p.price[t]) ELSE 0]
           least == [t \in PlanTokens |-> (withheld(p, t, 0) * p.price[t]) \div WAD]
           more  == [t \in PlanTokens |-> (withheld(p, t, x) * p.price[t]) \div WAD]
           sum(f) == SumFunctionOnSet(f, PlanTokens)
           s == claimedSavings(p)
           n == notionalUsd(p)
<1>1. IsFiniteSet(PlanTokens) /\ s \in Int /\ n \in Int /\ exposureNotional(p).notionalUsd = n
  BY PreflightAssumption, SavingsInt, ExposureMirrors
<1>2. \A t \in PlanTokens : asked[t] = least[t] /\ least[t] \in Nat /\ more[t] \in Nat /\ least[t] <= more[t]
  BY WithheldWorth
<1>3. feeCheck(p) <=> sum(asked) <= feeCap(s + sum(asked), n, ShareOfFee, ShareOfNotional)
  BY <1>1 DEF feeCheck
<1>4. feesPass(p, 0) <=> sum(least) <= feeCap(s + sum(least), n, ShareOfFee, ShareOfNotional)
  BY DEF feesPass
<1>5. feesPass(p, x) <=> sum(more) <= feeCap(s + sum(more), n, ShareOfFee, ShareOfNotional)
  BY DEF feesPass
<1> HIDE DEF asked, least, more, s, n
<1>6. sum(asked) = sum(least) /\ sum(least) \in Nat /\ sum(more) \in Nat /\ sum(least) <= sum(more)
  <2>1. sum(asked) = sum(least)
    BY <1>1, <1>2, SumSame
  <2>2. sum(least) \in Nat /\ sum(more) \in Nat
    BY <1>1, <1>2, SumNat
  <2>3. \A t \in PlanTokens : least[t] \in Int /\ more[t] \in Int /\ least[t] <= more[t]
    BY <1>2
  <2>4. sum(least) <= sum(more)
    BY <1>1, <2>3, SumMonotone
  <2>5. QED  BY <2>1, <2>2, <2>4
<1> HIDE DEF sum
<1>7. feeCheck(p) <=> feesPass(p, 0)
  BY <1>3, <1>4, <1>6
<1>8. ASSUME ~feeCheck(p), feesPass(p, x) PROVE FALSE
  <2> DEFINE cap(u) == feeCap(s + u, n, ShareOfFee, ShareOfNotional)
  <2>1. cap(sum(least)) \in Int /\ cap(sum(more)) \in Int
    <3>1. ASSUME NEW u \in Int PROVE feeCap(s + u, n, ShareOfFee, ShareOfNotional) \in Int
      <4>1. BPS \in Nat \ {0} /\ (s + u) * ShareOfFee \in Int /\ n * ShareOfNotional \in Int
        BY <1>1, PreflightAssumption, ScaleAssumption, Z3
      <4>2. ((s + u) * ShareOfFee) \div BPS \in Int /\ (n * ShareOfNotional) \div BPS \in Int
        BY <4>1, QuotientInt
      <4>3. QED  BY <4>2 DEF feeCap
    <3>2. QED  BY <1>6, <3>1
  <2>2. sum(least) > cap(sum(least)) /\ ~(sum(more) > cap(sum(more)))
    BY <1>3, <1>5, <1>6, <1>8, <2>1
  <2>3. sum(more) > cap(sum(more))
    BY <1>1, <1>6, <2>2, FeeCapGrowsSlower
  <2>4. QED  BY <2>2, <2>3
<1>9. QED  BY <1>7, <1>8

----------------------------------------------------------------------------
(* Preflight: what changes between the question and the charge.            *)

\* The day a plan is expected to be charged on.
expectedDay(p) == dayOf(solveEndOf(p) + 1)

\* A plan fits under caps, beside what was charged.
fitsIn(p, caps, global, spent) ==
  /\ notionalUsd(p) <= (caps.batch * capScale(p)) \div 2
  /\ global + notionalUsd(p) <= (caps.global * capScale(p)) \div 2
  /\ \A t \in PlanTokens : spent[t] + tokenNotional(p, t) <= (caps.token * capScale(p)) \div 2
fits(p, day) == fitsIn(p, exposureCaps, globalOn(day), perTokenOnDay[day])

PreflightTypes ==
  /\ PreflightTypeOK /\ plans \in PreflightJobs
  /\ chargedOn \in [PlanIds -> SUBSET Days]
  /\ capsRaised \in [PlanIds -> BOOLEAN] /\ capsLowered \in [PlanIds -> BOOLEAN]

\* Nothing is charged on a day to come.
DaysAhead ==
  /\ todayTotal.index <= dayOf(chainSecond)
  /\ \A d \in Days : d > dayOf(chainSecond) => \A t \in PlanTokens : perTokenOnDay[d][t] = 0

\* What was asked about and won fits on every day it may be charged on, until that
\* day is charged or a cap is lowered.
WonInv(b) ==
  planState[b] \in {"won", "reverted"} =>
    /\ feeCheck(plans[b])
    /\ ~capsLowered[b] => \A d \in Days : d >= expectedDay(plans[b]) /\ d \notin chargedOn[b] => fits(plans[b], d)

\* What was refused for exposure does not fit until the expected day is over or a
\* cap is raised.
RefusedInv(b) ==
  planState[b] = "refused" /\ feeCheck(plans[b]) /\ ~capsRaised[b]
  /\ dayOf(chainSecond) <= expectedDay(plans[b]) /\ expectedDay(plans[b]) \in Days
    => ~fits(plans[b], expectedDay(plans[b]))

PreflightInv ==
  /\ PreflightTypes /\ DaysAhead /\ RevertsExplained
  /\ \A b \in PlanIds : WonInv(b) /\ RefusedInv(b)

LEMMA SecondTypes ==
  ASSUME PreflightTypes
  PROVE  chainSecond \in Nat /\ chainSecond <= PreflightHorizon /\ PreflightHorizon \in Nat /\ chainSecond <= chainSecond
<1>1. chainSecond \in 0..PreflightHorizon
  BY DEF PreflightTypes, PreflightTypeOK
<1>2. PreflightHorizon \in Nat
  BY PreflightAssumption
<1>3. QED  BY <1>1, <1>2

LEMMA PlanTyped == ASSUME PreflightTypes, NEW b \in PlanIds PROVE plans[b] \in PlanRecords
<1>1. plans \in Seq(PlanRecords)
  BY PreflightAssumption DEF PreflightTypes
<1>2. QED  BY <1>1 DEF PlanIds

LEMMA DayTypes ==
  ASSUME NEW s \in Nat, NEW u \in Nat
  PROVE  /\ dayOf(s) \in Nat /\ (s <= u => dayOf(s) <= dayOf(u))
         /\ s <= PreflightHorizon => dayOf(s) \in Days
         /\ Days \subseteq Nat /\ \A d \in Days : \A e \in Nat : e <= d => e \in Days
<1>1. DayLength \in Nat \ {0} /\ PreflightHorizon \in Nat
  BY PreflightAssumption
<1>2. dayOf(s) \in Nat /\ PreflightHorizon \div DayLength \in Nat
  BY <1>1, QuotientNat DEF dayOf
<1>3. s <= u => dayOf(s) <= dayOf(u)
  BY <1>1, QuotientMonotone DEF dayOf
<1>4. s <= PreflightHorizon => dayOf(s) <= PreflightHorizon \div DayLength
  BY <1>1, QuotientMonotone DEF dayOf
<1>5. Days = 0..(PreflightHorizon \div DayLength)
  BY DEF Days
<1> DEFINE last == PreflightHorizon \div DayLength
<1> HIDE DEF last
<1>6. last \in Nat /\ Days = 0..last /\ (s <= PreflightHorizon => dayOf(s) <= last)
  BY <1>2, <1>4, <1>5 DEF last
<1>7. QED  BY <1>2, <1>3, <1>6

LEMMA ExpectedDay ==
  ASSUME NEW p \in PlanRecords, NEW s \in Nat
  PROVE  /\ expectedDay(p) \in Nat /\ solveEndOf(p) \in Nat
         /\ s <= solveEndOf(p) => dayOf(s) <= expectedDay(p)
         /\ s > solveEndOf(p) => expectedDay(p) <= dayOf(s)
<1>1. p.collectEnd \in Nat /\ PlanWindow \in Nat
  BY PlanTypes, PreflightAssumption
<1>2. solveEndOf(p) \in Nat
  BY <1>1 DEF solveEndOf
<1>3. QED  BY <1>2, DayTypes DEF expectedDay

\* A half of the cap, or all of it.
LEMMA HalfCap ==
  ASSUME NEW p \in PlanRecords, NEW a \in Nat, NEW b \in Nat, a <= b
  PROVE  /\ (a * capScale(p)) \div 2 \in Nat /\ (b * capScale(p)) \div 2 \in Nat
         /\ (a * capScale(p)) \div 2 <= (b * capScale(p)) \div 2
<1>1. capScale(p) \in Nat
  BY DEF capScale
<1>2. a * capScale(p) \in Nat /\ b * capScale(p) \in Nat /\ a * capScale(p) <= b * capScale(p)
  BY <1>1, ProductMonotone
<1>3. (a * capScale(p)) \div 2 \in Nat /\ (b * capScale(p)) \div 2 \in Nat
  BY <1>2, QuotientNat
<1>4. QED  BY <1>2, <1>3, QuotientMonotone

LEMMA FitsMonotone ==
  ASSUME NEW p \in PlanRecords,
         NEW c \in [batch : Nat, token : Nat, global : Nat], NEW e \in [batch : Nat, token : Nat, global : Nat],
         c.batch <= e.batch, c.token <= e.token, c.global <= e.global,
         NEW g \in Nat, NEW h \in Nat, h <= g,
         NEW u \in [PlanTokens -> Nat], NEW v \in [PlanTokens -> Nat], \A t \in PlanTokens : v[t] <= u[t],
         fitsIn(p, c, g, u)
  PROVE  fitsIn(p, e, h, v)
<1> DEFINE half(n) == (n * capScale(p)) \div 2
<1>1. /\ half(c.batch) \in Nat /\ half(e.batch) \in Nat /\ half(c.batch) <= half(e.batch)
      /\ half(c.token) \in Nat /\ half(e.token) \in Nat /\ half(c.token) <= half(e.token)
      /\ half(c.global) \in Nat /\ half(e.global) \in Nat /\ half(c.global) <= half(e.global)
  <2>1. c.batch \in Nat /\ e.batch \in Nat /\ c.token \in Nat /\ e.token \in Nat /\ c.global \in Nat /\ e.global \in Nat
    OBVIOUS
  <2>2. QED  BY <2>1, HalfCap
<1>2. notionalUsd(p) \in Nat /\ \A t \in PlanTokens : tokenNotional(p, t) \in Nat
  BY ExposureMirrors
<1>3. /\ notionalUsd(p) <= half(c.batch) /\ g + notionalUsd(p) <= half(c.global)
      /\ \A t \in PlanTokens : u[t] + tokenNotional(p, t) <= half(c.token)
  BY DEF fitsIn
<1> HIDE DEF half
<1>4. /\ notionalUsd(p) <= half(e.batch) /\ h + notionalUsd(p) <= half(e.global)
      /\ \A t \in PlanTokens : v[t] + tokenNotional(p, t) <= half(e.token)
  BY <1>1, <1>2, <1>3
<1>5. QED  BY <1>4 DEF fitsIn, half

LEMMA StateTypes ==
  ASSUME PreflightTypes, NEW d \in Days
  PROVE  /\ exposureCaps \in [batch : Nat, token : Nat, global : Nat]
         /\ globalOn(d) \in Nat /\ perTokenOnDay[d] \in [PlanTokens -> Nat]
         /\ chainSecond \in Nat /\ chainSecond <= PreflightHorizon /\ dayOf(chainSecond) \in Days
<1>1. PreflightTypeOK /\ CapSettings \subseteq [batch : Nat, token : Nat, global : Nat] /\ PreflightHorizon \in Nat
  BY PreflightAssumption DEF PreflightTypes
<1>2. chainSecond \in Nat /\ chainSecond <= PreflightHorizon
  <2>1. chainSecond \in 0..PreflightHorizon
    BY <1>1 DEF PreflightTypeOK
  <2>2. QED  BY <1>1, <2>1
<1>3. dayOf(chainSecond) \in Days
  BY <1>2, DayTypes
<1>4. globalOn(d) \in Nat
  BY <1>1 DEF PreflightTypeOK, globalOn
<1>5. QED  BY <1>1, <1>2, <1>3, <1>4 DEF PreflightTypeOK

\* The contract's verdict and the solver's, at any second.
LEMMA VerdictMirrors ==
  ASSUME PreflightTypes, NEW p \in PlanRecords, NEW s, dayOf(s) \in Days
  PROVE  /\ chargePasses(notionalUsd(p), planCharge(p), capScale(p), dayOf(s)) <=> fits(p, dayOf(s))
         /\ exposureViolations(p, exposureState(p, s)) = {} <=> fits(p, dayOf(s))
<1>1. rolled(dayOf(s)).global = globalOn(dayOf(s))
  BY DEF rolled, globalOn
<1>2. \A t \in PlanTokens : planCharge(p)[t] = tokenNotional(p, t)
  BY DEF planCharge
<1>3. chargePasses(notionalUsd(p), planCharge(p), capScale(p), dayOf(s)) <=> fits(p, dayOf(s))
  BY <1>1, <1>2 DEF chargePasses, fits, fitsIn
<1> DEFINE n == notionalUsd(p)
           g == globalOn(dayOf(s))
           half(cap) == (cap * capScale(p)) \div 2
           over == {v \in {"batch", "global", "token"} :
                      \/ v = "batch" /\ n > half(exposureCaps.batch)
                      \/ v = "global" /\ g + n > half(exposureCaps.global)
                      \/ v = "token" /\ \E t \in PlanTokens : perTokenOnDay[dayOf(s)][t] + tokenNotional(p, t) > half(exposureCaps.token)}
<1>4. exposureViolations(p, exposureState(p, s)) = over
  BY ExposureMirrors DEF exposureViolations, exposureState
<1>5. /\ half(exposureCaps.batch) \in Nat /\ half(exposureCaps.global) \in Nat /\ half(exposureCaps.token) \in Nat
      /\ n \in Nat /\ g \in Nat
      /\ \A t \in PlanTokens : tokenNotional(p, t) \in Nat /\ perTokenOnDay[dayOf(s)][t] \in Nat
  <2>1. exposureCaps.batch \in Nat /\ exposureCaps.global \in Nat /\ exposureCaps.token \in Nat
    BY StateTypes
  <2>2. half(exposureCaps.batch) \in Nat /\ half(exposureCaps.global) \in Nat /\ half(exposureCaps.token) \in Nat
    BY <2>1, HalfCap
  <2>3. QED  BY <2>2, StateTypes, ExposureMirrors
<1>6. fits(p, dayOf(s)) <=> /\ n <= half(exposureCaps.batch) /\ g + n <= half(exposureCaps.global)
                           /\ \A t \in PlanTokens : perTokenOnDay[dayOf(s)][t] + tokenNotional(p, t) <= half(exposureCaps.token)
  BY DEF fits, fitsIn
<1> DEFINE over1 == n > half(exposureCaps.batch)
           over2 == g + n > half(exposureCaps.global)
           over3 == \E t \in PlanTokens : perTokenOnDay[dayOf(s)][t] + tokenNotional(p, t) > half(exposureCaps.token)
<1>7. fits(p, dayOf(s)) <=> ~over1 /\ ~over2 /\ ~over3
  <2> HIDE DEF half, n, g
  <2>1. QED  BY <1>5, <1>6
<1>8. over = {} <=> ~over1 /\ ~over2 /\ ~over3
  <2>1. over = {v \in {"batch", "global", "token"} : (v = "batch" /\ over1) \/ (v = "global" /\ over2) \/ (v = "token" /\ over3)}
    OBVIOUS
  <2> HIDE DEF over, over1, over2, over3
  <2>2. QED  BY <2>1
<1>9. QED  BY <1>3, <1>4, <1>7, <1>8

\* A charge on the present day: it fits what is there, and leaves other days alone.
LEMMA ChargeEffects ==
  ASSUME PreflightTypes, DaysAhead, NEW day, day = dayOf(chainSecond), NEW usd \in Nat, NEW byToken \in [PlanTokens -> Nat], NEW scale,
         chargeExposure(usd, byToken, scale, day)
  PROVE  /\ todayTotal' \in [index : Days, global : Nat] /\ todayTotal'.index = day
         /\ perTokenOnDay' \in [Days -> [PlanTokens -> Nat]]
         /\ chargedOn' \in [PlanIds -> SUBSET Days]
         /\ \A d \in Days : d # day => perTokenOnDay'[d] = perTokenOnDay[d] /\ globalOn(d)' <= globalOn(d)
         /\ \A d \in Days : d > day => globalOn(d)' = globalOn(d)
         /\ globalOn(day) <= globalOn(day)'
         /\ \A t \in PlanTokens : perTokenOnDay[day][t] <= perTokenOnDay'[day][t]
         /\ \A b \in PlanIds : planState[b] # "closed" => chargedOn'[b] = chargedOn[b] \cup {day}
         /\ \A d \in Days : globalOn(d)' \in Nat
<1>1. /\ todayTotal \in [index : Days, global : Nat] /\ perTokenOnDay \in [Days -> [PlanTokens -> Nat]]
      /\ chargedOn \in [PlanIds -> SUBSET Days] /\ Days \subseteq Nat /\ todayTotal.index <= day
  BY DayTypes DEF PreflightTypes, PreflightTypeOK, DaysAhead
<1>2. day \in Days
  <2>1. chainSecond \in Nat /\ chainSecond <= PreflightHorizon
    BY SecondTypes
  <2>2. QED  BY <2>1, DayTypes
<1>3. /\ todayTotal' = [rolled(day) EXCEPT !.global = @ + usd]
      /\ perTokenOnDay' = [perTokenOnDay EXCEPT ![day] = [t \in PlanTokens |-> @[t] + byToken[t]]]
      /\ chargedOn' = [b \in PlanIds |-> IF planState[b] = "closed" THEN {} ELSE chargedOn[b] \cup {day}]
  BY DEF chargeExposure
<1>4. rolled(day) \in [index : Days, global : Nat] /\ rolled(day).index = day /\ rolled(day).global = globalOn(day)
  BY <1>1, <1>2 DEF rolled, globalOn
<1>5. todayTotal' \in [index : Days, global : Nat] /\ todayTotal'.index = day /\ todayTotal'.global = globalOn(day) + usd
  BY <1>3, <1>4
<1>6. /\ \A d \in Days : globalOn(d)' = IF d = day THEN globalOn(day) + usd ELSE 0
      /\ \A d \in Days : globalOn(d) \in Nat /\ (d > day => globalOn(d) = 0)
  BY <1>1, <1>2, <1>5 DEF globalOn
<1>7. /\ \A d \in Days : d # day => perTokenOnDay'[d] = perTokenOnDay[d]
      /\ perTokenOnDay'[day] = [t \in PlanTokens |-> perTokenOnDay[day][t] + byToken[t]]
  BY <1>1, <1>2, <1>3
<1>8. /\ perTokenOnDay[day] \in [PlanTokens -> Nat] /\ perTokenOnDay'[day] \in [PlanTokens -> Nat]
      /\ \A t \in PlanTokens : perTokenOnDay[day][t] <= perTokenOnDay'[day][t]
  <2>1. PICK u \in [PlanTokens -> Nat] : u = perTokenOnDay[day]
    BY <1>1, <1>2
  <2>2. perTokenOnDay'[day] = [t \in PlanTokens |-> u[t] + byToken[t]]
    BY <1>7, <2>1
  <2>3. \A t \in PlanTokens : u[t] \in Nat /\ byToken[t] \in Nat
    BY <2>1
  <2>4. QED  BY <2>1, <2>2, <2>3
<1>9. perTokenOnDay' \in [Days -> [PlanTokens -> Nat]]
  BY <1>1, <1>3, <1>7, <1>8
<1>10. /\ chargedOn' \in [PlanIds -> SUBSET Days]
       /\ \A b \in PlanIds : planState[b] # "closed" => chargedOn'[b] = chargedOn[b] \cup {day}
  BY <1>1, <1>2, <1>3
<1>11. /\ \A d \in Days : d # day => globalOn(d)' <= globalOn(d)
       /\ \A d \in Days : d > day => globalOn(d)' = globalOn(d)
       /\ globalOn(day) <= globalOn(day)' /\ \A d \in Days : globalOn(d)' \in Nat
  <2>1. ASSUME NEW d \in Days
        PROVE  /\ d # day => globalOn(d)' <= globalOn(d)
               /\ d > day => globalOn(d)' = globalOn(d)
               /\ d = day => globalOn(d) <= globalOn(d)'
               /\ globalOn(d)' \in Nat
    <3>1. d \in Nat /\ day \in Nat /\ globalOn(d) \in Nat /\ globalOn(day) \in Nat /\ (d > day => globalOn(d) = 0)
      BY <1>1, <1>2, <1>6
    <3>2. globalOn(d)' = IF d = day THEN globalOn(day) + usd ELSE 0
      BY <1>6
    <3>3. CASE d = day
      BY <3>1, <3>2, <3>3
    <3>4. CASE d # day
      BY <3>1, <3>2, <3>4
    <3>5. QED  BY <3>3, <3>4
  <2>2. QED  BY <1>2, <2>1
<1>12. QED  BY <1>5, <1>7, <1>8, <1>9, <1>10, <1>11

\* What a charge does to the invariants of the plans it is not a charge of.
LEMMA ChargeKeeps ==
  ASSUME PreflightTypes, DaysAhead, NEW usd \in Nat, NEW byToken \in [PlanTokens -> Nat], NEW scale,
         chargeExposure(usd, byToken, scale, dayOf(chainSecond)),
         UNCHANGED <<plans, chainSecond, exposureCaps, capsRaised, capsLowered>>,
         NEW b \in PlanIds, WonInv(b), RefusedInv(b)
  PROVE  planState'[b] = planState[b] => WonInv(b)' /\ RefusedInv(b)'
<1> DEFINE p == plans[b]
<1> SUFFICES ASSUME planState'[b] = planState[b] PROVE WonInv(b)' /\ RefusedInv(b)'
  OBVIOUS
<1>0. PICK day : day = dayOf(chainSecond)
  OBVIOUS
<1>1. p \in PlanRecords /\ p' = p /\ dayOf(chainSecond)' = day /\ day \in Days /\ chainSecond \in Nat /\ Days \subseteq Nat
  <2>1. p \in PlanRecords /\ p' = p /\ dayOf(chainSecond)' = day
    BY <1>0, PlanTyped DEF dayOf
  <2>2. chainSecond \in Nat /\ chainSecond <= PreflightHorizon
    BY SecondTypes
  <2>3. QED  BY <1>0, <2>1, <2>2, DayTypes
<1>2. expectedDay(p) \in Nat
  BY <1>1, ExpectedDay
<1>3. \A d \in Days : fits(p, d) <=> fitsIn(p, exposureCaps, globalOn(d), perTokenOnDay[d])
  BY DEF fits
<1>4. \A d \in Days : fits(p, d)' <=> fitsIn(p, exposureCaps, globalOn(d)', perTokenOnDay'[d])
  BY <1>1 DEF fits, fitsIn, notionalUsd, tokenNotional, capScale
<1>5. ASSUME NEW d \in Days
      PROVE  /\ globalOn(d) \in Nat /\ globalOn(d)' \in Nat
             /\ perTokenOnDay[d] \in [PlanTokens -> Nat] /\ perTokenOnDay'[d] \in [PlanTokens -> Nat]
             /\ exposureCaps \in [batch : Nat, token : Nat, global : Nat]
  <2>1. perTokenOnDay' \in [Days -> [PlanTokens -> Nat]] /\ globalOn(d)' \in Nat
    BY <1>0, ChargeEffects
  <2>2. QED  BY <2>1, StateTypes
<1>6. ASSUME NEW d \in Days, d # day, fits(p, d)
      PROVE  fits(p, d)'
  <2>1. perTokenOnDay'[d] = perTokenOnDay[d] /\ globalOn(d)' <= globalOn(d)
    BY <1>6, <1>0, ChargeEffects
  <2>2. fitsIn(p, exposureCaps, globalOn(d)', perTokenOnDay'[d])
    <3>1. \A t \in PlanTokens : perTokenOnDay'[d][t] <= perTokenOnDay[d][t]
      BY <1>5, <2>1
    <3>2. exposureCaps.batch <= exposureCaps.batch /\ exposureCaps.token <= exposureCaps.token /\ exposureCaps.global <= exposureCaps.global
      BY <1>5
    <3>3. fitsIn(p, exposureCaps, globalOn(d), perTokenOnDay[d])
      BY <1>3, <1>6
    <3>4. QED  BY <1>1, <1>5, <2>1, <3>1, <3>2, <3>3, FitsMonotone
  <2>3. QED  BY <1>4, <2>2
<1>7. ASSUME NEW d \in Days, d >= day, fits(p, d)'
      PROVE  fits(p, d)
  <2>1. globalOn(d) <= globalOn(d)' /\ \A t \in PlanTokens : perTokenOnDay[d][t] <= perTokenOnDay'[d][t]
    <3>1. CASE d = day
      BY <3>1, <1>0, ChargeEffects
    <3>2. CASE d # day
      <4>1. d > day
        <5>1. d \in Nat /\ day \in Nat /\ d >= day
          BY <1>1, <1>7
        <5>2. QED  BY <3>2, <5>1
      <4>2. perTokenOnDay'[d] = perTokenOnDay[d] /\ globalOn(d)' = globalOn(d)
        <5>1. \A e \in Days : e > day => globalOn(e)' = globalOn(e)
          BY <1>0, ChargeEffects
        <5>2. \A e \in Days : e # day => perTokenOnDay'[e] = perTokenOnDay[e]
          BY <1>0, ChargeEffects
        <5>3. QED  BY <3>2, <4>1, <5>1, <5>2
      <4>3. QED  BY <1>5, <4>2
    <3>3. QED  BY <3>1, <3>2
  <2>2. fitsIn(p, exposureCaps, globalOn(d), perTokenOnDay[d])
    <3>1. exposureCaps.batch <= exposureCaps.batch /\ exposureCaps.token <= exposureCaps.token /\ exposureCaps.global <= exposureCaps.global
      BY <1>5
    <3>2. fitsIn(p, exposureCaps, globalOn(d)', perTokenOnDay'[d])
      BY <1>4, <1>7
    <3>3. PICK g, h, u, v : g = globalOn(d)' /\ h = globalOn(d) /\ u = perTokenOnDay'[d] /\ v = perTokenOnDay[d]
      OBVIOUS
    <3>4. /\ g \in Nat /\ h \in Nat /\ h <= g /\ u \in [PlanTokens -> Nat] /\ v \in [PlanTokens -> Nat]
          /\ \A t \in PlanTokens : v[t] <= u[t]
      BY <1>5, <2>1, <3>3
    <3>5. fitsIn(p, exposureCaps, h, v)
      BY <1>1, <1>5, <3>1, <3>2, <3>3, <3>4, FitsMonotone
    <3>6. QED  BY <3>3, <3>5
  <2>3. QED  BY <1>3, <2>2
<1>8. planState[b] # "closed" => chargedOn'[b] = chargedOn[b] \cup {day}
  BY <1>0, ChargeEffects
<1> HIDE DEF p
<1>9. WonInv(b)'
  <2> SUFFICES ASSUME planState[b] \in {"won", "reverted"} PROVE WonInv(b)'
    BY DEF WonInv
  <2>1. feeCheck(p) /\ (~capsLowered[b] => \A d \in Days : d >= expectedDay(p) /\ d \notin chargedOn[b] => fits(p, d))
    BY DEF WonInv, p
  <2>2. feeCheck(p)' <=> feeCheck(p)
    BY <1>1 DEF p, feeCheck, conservation, conserved, pulledOf, deliveredOf, routedDelta, claimedSavings, exposureNotional
  <2>3. expectedDay(p)' = expectedDay(p)
    BY <1>1 DEF expectedDay, dayOf, solveEndOf
  <2>4. ~capsLowered'[b] => \A d \in Days : d >= expectedDay(p) /\ d \notin chargedOn'[b] => fits(p, d)'
    BY <1>6, <1>8, <2>1
  <2>5. QED  BY <2>1, <2>2, <2>3, <2>4 DEF WonInv, p
<1>10. RefusedInv(b)'
  <2>1. planState[b] = "refused" /\ feeCheck(p) /\ ~capsRaised[b] /\ day <= expectedDay(p) /\ expectedDay(p) \in Days
          => ~fits(p, expectedDay(p))
    BY <1>0 DEF RefusedInv, p
  <2>2. QED  BY <1>0, <1>1, <1>7, <2>1 DEF RefusedInv, p
<1>11. QED  BY <1>9, <1>10

\* A plan that fits on the expected day fits on any later one, of which nothing is
\* charged yet.
LEMMA FitsLater ==
  ASSUME PreflightTypes, DaysAhead, NEW p \in PlanRecords, NEW e \in Days, NEW d \in Days,
         dayOf(chainSecond) <= e, e <= d, fits(p, e)
  PROVE  fits(p, d)
<1>1. CASE d = e
  BY <1>1
<1>2. CASE d # e
  <2>1. Days \subseteq Nat /\ dayOf(chainSecond) \in Nat /\ todayTotal.index \in Days /\ todayTotal.index <= dayOf(chainSecond)
    <3>1. chainSecond \in Nat
      BY StateTypes
    <3>2. QED  BY <3>1, DayTypes DEF DaysAhead, PreflightTypes, PreflightTypeOK
  <2>2. d > dayOf(chainSecond) /\ d # todayTotal.index
    <3>1. d \in Nat /\ e \in Nat /\ todayTotal.index \in Nat
      BY <2>1
    <3>2. QED  BY <1>2, <2>1, <3>1
  <2>3. globalOn(d) = 0 /\ \A t \in PlanTokens : perTokenOnDay[d][t] = 0
    BY <2>2 DEF globalOn, DaysAhead
  <2>4. PICK c, g, h, u, v : /\ c = exposureCaps /\ g = globalOn(e) /\ h = globalOn(d)
                             /\ u = perTokenOnDay[e] /\ v = perTokenOnDay[d]
    OBVIOUS
  <2>5. /\ c \in [batch : Nat, token : Nat, global : Nat] /\ g \in Nat /\ h \in Nat
        /\ u \in [PlanTokens -> Nat] /\ v \in [PlanTokens -> Nat]
    BY <2>4, StateTypes
  <2>6. h <= g /\ \A t \in PlanTokens : v[t] <= u[t]
    BY <2>3, <2>4, <2>5
  <2>7. c.batch <= c.batch /\ c.token <= c.token /\ c.global <= c.global
    BY <2>5
  <2>8. fitsIn(p, c, g, u)
    BY <2>4 DEF fits
  <2>9. fitsIn(p, c, h, v)
    BY <2>5, <2>6, <2>7, <2>8, FitsMonotone
  <2>10. QED  BY <2>4, <2>9 DEF fits
<1>3. QED  BY <1>1, <1>2

LEMMA AskedKeeps ==
  ASSUME PreflightTypes, DaysAhead, NEW b \in PlanIds, preflightPlan(b)
  PROVE  WonInv(b)' /\ RefusedInv(b)'
<1> DEFINE p == plans[b]
<1>1. p \in PlanRecords /\ chainSecond <= solveEndOf(p)
  BY PlanTyped DEF preflightPlan
<1>2. planState'[b] = (IF preflight(p) THEN "won" ELSE "refused")
  BY DEF preflightPlan, PreflightTypes, PreflightTypeOK
<1>3. UNCHANGED <<plans, chainSecond, exposureCaps, todayTotal, perTokenOnDay, capsRaised, capsLowered, chargedOn>>
  BY DEF preflightPlan, settled, sinceAsked
<1>4. dayOf(chainSecond) <= expectedDay(p) /\ expectedDay(p) \in Nat /\ Days \subseteq Nat
  <2>2. chainSecond \in Nat
    BY SecondTypes
  <2>3. QED  BY <1>1, <2>2, ExpectedDay, DayTypes
<1>5. expectedDay(p) \in Days => (preflight(p) <=> fits(p, expectedDay(p)) /\ feeCheck(p))
  BY <1>1, VerdictMirrors DEF preflight, expectedDay
<1>6. preflight(p) => feeCheck(p)
  BY DEF preflight
<1>7. /\ feeCheck(p)' <=> feeCheck(p)
      /\ expectedDay(p)' = expectedDay(p)
      /\ \A d \in Days : fits(p, d)' <=> fits(p, d)
  <2>1. p' = p
    BY <1>3
  <2>2. feeCheck(p)' <=> feeCheck(p)
    BY <2>1 DEF feeCheck, conservation, conserved, pulledOf, deliveredOf, routedDelta, claimedSavings, exposureNotional
  <2>3. expectedDay(p)' = expectedDay(p)
    BY <2>1 DEF expectedDay, dayOf, solveEndOf
  <2>4. ASSUME NEW d \in Days PROVE fits(p, d)' <=> fits(p, d)
    <3>1. globalOn(d)' = globalOn(d)
      BY <1>3 DEF globalOn
    <3>2. QED  BY <1>3, <2>1, <3>1 DEF fits, fitsIn, notionalUsd, tokenNotional, capScale
  <2>5. QED  BY <2>2, <2>3, <2>4
<1>8. dayOf(chainSecond)' = dayOf(chainSecond) /\ p' = p
  BY <1>3 DEF dayOf
<1> HIDE DEF p
<1>9. WonInv(b)'
  <2> SUFFICES ASSUME planState'[b] \in {"won", "reverted"} PROVE WonInv(b)'
    BY DEF WonInv
  <2>1. preflight(p)
    BY <1>2
  <2>2. ASSUME NEW d \in Days, d >= expectedDay(p) PROVE fits(p, d)'
    <3>1. expectedDay(p) \in Days
      <4>2. chainSecond \in Nat
        BY SecondTypes
      <4>3. d \in Nat /\ expectedDay(p) <= d
        BY <1>4, <2>2
      <4>4. QED  BY <1>4, <2>2, <4>2, <4>3, DayTypes
    <3>2. fits(p, expectedDay(p))
      BY <1>5, <2>1, <3>1
    <3>3. expectedDay(p) <= d
      BY <1>4, <2>2
    <3>4. fits(p, d)
      BY <1>1, <1>4, <3>1, <3>2, <3>3, FitsLater
    <3>5. QED  BY <1>7, <2>2, <3>4
  <2>3. QED  BY <1>6, <1>7, <1>8, <2>1, <2>2 DEF WonInv, p
<1>10. RefusedInv(b)'
  <2> SUFFICES ASSUME planState'[b] = "refused", feeCheck(p), expectedDay(p) \in Days PROVE ~fits(p, expectedDay(p))'
    BY <1>7, <1>8 DEF RefusedInv, p
  <2>1. ~fits(p, expectedDay(p))
    BY <1>2, <1>5
  <2>2. QED  BY <1>7, <2>1
<1>11. QED  BY <1>9, <1>10

\* Steps that charge nothing and move no cap.
LEMMA QuietKeeps ==
  ASSUME PreflightTypes, NEW b \in PlanIds, WonInv(b), RefusedInv(b),
         UNCHANGED <<plans, exposureCaps, todayTotal, perTokenOnDay, capsRaised, capsLowered, chargedOn>>,
         chainSecond' \in Nat, chainSecond <= chainSecond',
         planState'[b] \in {"won", "reverted"} => planState[b] \in {"won", "reverted"},
         planState'[b] = "refused" => planState[b] = "refused"
  PROVE  WonInv(b)' /\ RefusedInv(b)'
<1> DEFINE p == plans[b]
<1>1. p \in PlanRecords /\ p' = p
  BY PlanTyped
<1>2. /\ dayOf(chainSecond) \in Nat /\ dayOf(chainSecond)' \in Nat /\ dayOf(chainSecond) <= dayOf(chainSecond)'
      /\ expectedDay(p) \in Nat
  <2>2. chainSecond \in Nat
    BY SecondTypes
  <2>3. PICK s : s = chainSecond'
    OBVIOUS
  <2>4. dayOf(chainSecond)' = dayOf(s)
    BY <2>3 DEF dayOf
  <2>5. dayOf(chainSecond) \in Nat /\ dayOf(s) \in Nat /\ dayOf(chainSecond) <= dayOf(s)
    BY <2>2, <2>3, DayTypes
  <2>6. QED  BY <1>1, <2>2, <2>4, <2>5, ExpectedDay
<1>3. feeCheck(p)' <=> feeCheck(p)
  BY <1>1 DEF feeCheck, conservation, conserved, pulledOf, deliveredOf, routedDelta, claimedSavings, exposureNotional
<1>4. expectedDay(p)' = expectedDay(p)
  BY <1>1 DEF expectedDay, dayOf, solveEndOf
<1>5. ASSUME NEW d \in Days PROVE fits(p, d)' <=> fits(p, d)
  <2>1. globalOn(d)' = globalOn(d)
    BY DEF globalOn
  <2>2. QED  BY <1>1, <2>1 DEF fits, fitsIn, notionalUsd, tokenNotional, capScale
<1> HIDE DEF p
<1>6. WonInv(b)'
  BY <1>1, <1>3, <1>4, <1>5 DEF WonInv, p
<1>7. RefusedInv(b)'
  <2> SUFFICES ASSUME planState'[b] = "refused", feeCheck(p), ~capsRaised[b],
                      dayOf(chainSecond)' <= expectedDay(p), expectedDay(p) \in Days
               PROVE  ~fits(p, expectedDay(p))'
    BY <1>1, <1>3, <1>4 DEF RefusedInv, p
  <2>1. ~fits(p, expectedDay(p))
    BY <1>2 DEF RefusedInv, p
  <2>2. QED  BY <1>4, <1>5, <2>1
<1>8. QED  BY <1>6, <1>7

LEMMA CapsKeep ==
  ASSUME PreflightTypes, NEW b \in PlanIds, WonInv(b), RefusedInv(b), NEW c \in CapSettings, setExposureCaps(c)
  PROVE  WonInv(b)' /\ RefusedInv(b)'
<1> DEFINE p == plans[b]
<1>1. p \in PlanRecords /\ p' = p /\ UNCHANGED <<planState, chainSecond, todayTotal, perTokenOnDay, chargedOn>>
  BY PlanTyped DEF setExposureCaps, askedOf, settled
<1>2. /\ exposureCaps' = c /\ c \in [batch : Nat, token : Nat, global : Nat]
      /\ exposureCaps \in [batch : Nat, token : Nat, global : Nat]
  BY PreflightAssumption DEF setExposureCaps, PreflightTypes, PreflightTypeOK
<1>3. planState[b] # "closed" =>
        /\ ~capsRaised'[b] => ~capsRaised[b] /\ c.batch <= exposureCaps.batch /\ c.token <= exposureCaps.token /\ c.global <= exposureCaps.global
        /\ ~capsLowered'[b] => ~capsLowered[b] /\ exposureCaps.batch <= c.batch /\ exposureCaps.token <= c.token /\ exposureCaps.global <= c.global
  <2> SUFFICES ASSUME planState[b] # "closed"
               PROVE  /\ ~capsRaised'[b] => ~capsRaised[b] /\ c.batch <= exposureCaps.batch /\ c.token <= exposureCaps.token /\ c.global <= exposureCaps.global
                      /\ ~capsLowered'[b] => ~capsLowered[b] /\ exposureCaps.batch <= c.batch /\ exposureCaps.token <= c.token /\ exposureCaps.global <= c.global
    OBVIOUS
  <2>1. /\ capsRaised'[b] = (capsRaised[b] \/ \E x \in DOMAIN c : c[x] > exposureCaps[x])
        /\ capsLowered'[b] = (capsLowered[b] \/ \E x \in DOMAIN c : c[x] < exposureCaps[x])
    BY DEF setExposureCaps
  <2>2. DOMAIN c = {"batch", "token", "global"}
    BY <1>2
  <2>3. /\ c.batch \in Nat /\ c.token \in Nat /\ c.global \in Nat
        /\ exposureCaps.batch \in Nat /\ exposureCaps.token \in Nat /\ exposureCaps.global \in Nat
    BY <1>2
  <2>4. ~capsRaised'[b] => ~capsRaised[b] /\ ~(c["batch"] > exposureCaps["batch"]) /\ ~(c["token"] > exposureCaps["token"])
                           /\ ~(c["global"] > exposureCaps["global"])
    BY <2>1, <2>2
  <2>5. ~capsLowered'[b] => ~capsLowered[b] /\ ~(c["batch"] < exposureCaps["batch"]) /\ ~(c["token"] < exposureCaps["token"])
                            /\ ~(c["global"] < exposureCaps["global"])
    BY <2>1, <2>2
  <2>6. QED  BY <2>3, <2>4, <2>5
<1>4. feeCheck(p)' <=> feeCheck(p)
  BY <1>1 DEF feeCheck, conservation, conserved, pulledOf, deliveredOf, routedDelta, claimedSavings, exposureNotional
<1>5. expectedDay(p)' = expectedDay(p) /\ dayOf(chainSecond)' = dayOf(chainSecond)
  BY <1>1 DEF expectedDay, dayOf, solveEndOf
<1>6. ASSUME NEW d \in Days
      PROVE  /\ fits(p, d) <=> fitsIn(p, exposureCaps, globalOn(d), perTokenOnDay[d])
             /\ fits(p, d)' <=> fitsIn(p, c, globalOn(d), perTokenOnDay[d])
             /\ globalOn(d) \in Nat /\ perTokenOnDay[d] \in [PlanTokens -> Nat]
             /\ globalOn(d) <= globalOn(d) /\ \A t \in PlanTokens : perTokenOnDay[d][t] <= perTokenOnDay[d][t]
  <2>1. globalOn(d)' = globalOn(d)
    BY <1>1 DEF globalOn
  <2>2. fits(p, d) <=> fitsIn(p, exposureCaps, globalOn(d), perTokenOnDay[d])
    BY DEF fits
  <2>3. fits(p, d)' <=> fitsIn(p, c, globalOn(d), perTokenOnDay[d])
    BY <1>1, <1>2, <2>1 DEF fits, fitsIn, notionalUsd, tokenNotional, capScale
  <2>4. globalOn(d) \in Nat /\ perTokenOnDay[d] \in [PlanTokens -> Nat]
    BY StateTypes
  <2>5. PICK u \in [PlanTokens -> Nat] : u = perTokenOnDay[d]
    BY <2>4
  <2>6. \A t \in PlanTokens : u[t] <= u[t]
    OBVIOUS
  <2>7. QED  BY <2>2, <2>3, <2>4, <2>5, <2>6
<1> HIDE DEF p
<1>7. WonInv(b)'
  <2> SUFFICES ASSUME planState[b] \in {"won", "reverted"} PROVE WonInv(b)'
    BY <1>1 DEF WonInv
  <2>1. ASSUME ~capsLowered'[b], NEW d \in Days, fits(p, d) PROVE fits(p, d)'
    BY <1>1, <1>2, <1>3, <1>6, <2>1, FitsMonotone
  <2>2. QED  BY <1>1, <1>3, <1>4, <1>5, <2>1 DEF WonInv, p
<1>8. RefusedInv(b)'
  <2> SUFFICES ASSUME planState[b] = "refused", feeCheck(p), ~capsRaised'[b],
                      dayOf(chainSecond) <= expectedDay(p), expectedDay(p) \in Days
               PROVE  ~fits(p, expectedDay(p))'
    BY <1>1, <1>4, <1>5 DEF RefusedInv, p
  <2>1. ~fits(p, expectedDay(p))
    BY <1>3 DEF RefusedInv, p
  <2>2. ASSUME NEW d \in Days, fits(p, d)' PROVE fits(p, d)
    BY <1>1, <1>2, <1>3, <1>6, <2>2, FitsMonotone
  <2>3. QED  BY <1>5, <2>1, <2>2
<1>9. QED  BY <1>7, <1>8

\* A revert is explained: what has not changed since the question still fits.
LEMMA RevertKeeps ==
  ASSUME PreflightTypes, RevertsExplained, NEW b \in PlanIds, WonInv(b), NEW x \in VenueExtras, finalizeReverts(b, x)
  PROVE  RevertsExplained'
<1> DEFINE p == plans[b]
<1>1. p \in PlanRecords /\ chainSecond > solveEndOf(p) /\ planState[b] \in {"won", "reverted"}
  BY PlanTyped DEF finalizeReverts, mayFinalize
<1>2. x \in Nat
  BY PreflightAssumption
<1>3. PICK day : day = dayOf(chainSecond)
  OBVIOUS
<1>4. day \in Days /\ expectedDay(p) <= day /\ expectedDay(p) \in Nat /\ day \in Nat
  <2>2. chainSecond \in Nat /\ chainSecond <= PreflightHorizon
    BY SecondTypes
  <2>3. QED  BY <1>1, <1>3, <2>2, ExpectedDay, DayTypes
<1>5. ASSUME x = 0, ~capsLowered[b], day \notin chargedOn[b] PROVE FALSE
  <2>1. feeCheck(p) /\ fits(p, day)
    BY <1>1, <1>4, <1>5 DEF WonInv, p
  <2>2. chargePasses(notionalUsd(p), planCharge(p), capScale(p), day) /\ feesPass(p, 0)
    BY <1>1, <1>3, <1>4, <2>1, VerdictMirrors, FeesMirror
  <2>3. QED  BY <1>3, <1>5, <2>2 DEF finalizeReverts, finalizePasses, p
<1>6. reverts' = reverts \cup {[plan |-> b, extra |-> x, lowered |-> capsLowered[b], charged |-> day \in chargedOn[b]]}
  BY <1>3 DEF finalizeReverts
<1>7. x > 0 \/ capsLowered[b] \/ day \in chargedOn[b]
  BY <1>2, <1>5
<1>8. ASSUME NEW r \in reverts' PROVE r.extra > 0 \/ r.lowered \/ r.charged
  <2>1. CASE r \in reverts
    BY <2>1 DEF RevertsExplained
  <2>2. CASE r = [plan |-> b, extra |-> x, lowered |-> capsLowered[b], charged |-> day \in chargedOn[b]]
    <3>1. r.extra = x
      BY <2>2
    <3>2. capsLowered[b] => r.lowered
      BY <2>2
    <3>3. day \in chargedOn[b] => r.charged
      BY <2>2
    <3>4. QED  BY <1>7, <3>1, <3>2, <3>3
  <2>3. QED  BY <1>6, <2>1, <2>2
<1>9. QED  BY <1>8 DEF RevertsExplained

LEMMA PreflightTypesKept ==
  ASSUME PreflightTypes, DaysAhead, PreflightNext
  PROVE  PreflightTypes' /\ DaysAhead'
<1>1. plans' = plans /\ PlanIds' = PlanIds
  BY DEF PreflightNext, preflightPlan, finalizePlan, finalizeReverts, OtherFinalizes, setExposureCaps, ChainSecondPasses, PlanIds
<1>2. /\ chainSecond \in 0..PreflightHorizon /\ exposureCaps \in CapSettings
      /\ todayTotal \in [index : Days, global : Nat] /\ perTokenOnDay \in [Days -> [PlanTokens -> Nat]]
      /\ planState \in [PlanIds -> {"closed", "refused", "won", "reverted", "finalized", "given up"}]
      /\ chargedOn \in [PlanIds -> SUBSET Days]
      /\ capsRaised \in [PlanIds -> BOOLEAN] /\ capsLowered \in [PlanIds -> BOOLEAN]
  BY DEF PreflightTypes, PreflightTypeOK
<1> DEFINE Goal == /\ chainSecond' \in 0..PreflightHorizon /\ exposureCaps' \in CapSettings
                   /\ todayTotal' \in [index : Days, global : Nat] /\ perTokenOnDay' \in [Days -> [PlanTokens -> Nat]]
                   /\ planState' \in [PlanIds -> {"closed", "refused", "won", "reverted", "finalized", "given up"}]
                   /\ chargedOn' \in [PlanIds -> SUBSET Days]
                   /\ capsRaised' \in [PlanIds -> BOOLEAN] /\ capsLowered' \in [PlanIds -> BOOLEAN]
                   /\ DaysAhead'
<1>3. ASSUME NEW usd \in Nat, NEW byToken \in [PlanTokens -> Nat], NEW scale,
             chargeExposure(usd, byToken, scale, dayOf(chainSecond)), chainSecond' = chainSecond
      PROVE  /\ todayTotal' \in [index : Days, global : Nat] /\ perTokenOnDay' \in [Days -> [PlanTokens -> Nat]]
             /\ chargedOn' \in [PlanIds -> SUBSET Days] /\ DaysAhead'
  <2>1. PICK day : day = dayOf(chainSecond)
    OBVIOUS
  <2>2. /\ todayTotal' \in [index : Days, global : Nat] /\ todayTotal'.index = day
        /\ perTokenOnDay' \in [Days -> [PlanTokens -> Nat]] /\ chargedOn' \in [PlanIds -> SUBSET Days]
        /\ \A d \in Days : d # day => perTokenOnDay'[d] = perTokenOnDay[d]
    BY <1>3, <2>1, ChargeEffects
  <2>3. dayOf(chainSecond)' = day /\ day \in Nat /\ Days \subseteq Nat
    <3>1. chainSecond \in Nat
      BY SecondTypes
    <3>2. QED  BY <1>3, <2>1, <3>1, DayTypes DEF dayOf
  <2>4. \A d \in Days : d > day => \A t \in PlanTokens : perTokenOnDay[d][t] = 0
    BY <2>1 DEF DaysAhead
  <2>5. \A d \in Days : d > day => d # day
    BY <2>3
  <2>6. QED  BY <2>2, <2>3, <2>4, <2>5 DEF DaysAhead
<1>4. ASSUME UNCHANGED <<todayTotal, perTokenOnDay>>, chainSecond <= chainSecond', chainSecond' \in 0..PreflightHorizon PROVE DaysAhead'
  <2>1. PICK s : s = chainSecond'
    OBVIOUS
  <2>2. chainSecond \in Nat /\ s \in Nat /\ dayOf(chainSecond)' = dayOf(s) /\ chainSecond <= s
    BY <1>4, <2>1, SecondTypes DEF dayOf
  <2>3. dayOf(s) \in Nat /\ dayOf(chainSecond) \in Nat /\ dayOf(chainSecond) <= dayOf(s) /\ Days \subseteq Nat
    BY <2>2, DayTypes
  <2>4. todayTotal.index \in Nat /\ todayTotal.index <= dayOf(chainSecond)
    BY <1>2, <2>3 DEF DaysAhead
  <2>5. ASSUME NEW d \in Days, d > dayOf(s) PROVE \A t \in PlanTokens : perTokenOnDay[d][t] = 0
    <3>1. d > dayOf(chainSecond)
      BY <2>3, <2>5
    <3>2. QED  BY <3>1 DEF DaysAhead
  <2>6. QED  BY <1>4, <2>2, <2>3, <2>4, <2>5 DEF DaysAhead
<1>5. chainSecond <= chainSecond
  BY SecondTypes
<1>6. ASSUME NEW b \in PlanIds, preflightPlan(b) PROVE Goal
  BY <1>2, <1>4, <1>5, <1>6 DEF preflightPlan, settled, sinceAsked
<1>7. ASSUME NEW b \in PlanIds, NEW x \in VenueExtras, finalizePlan(b, x) PROVE Goal
  <2>1. notionalUsd(plans[b]) \in Nat /\ planCharge(plans[b]) \in [PlanTokens -> Nat]
    BY PlanTyped, ExposureMirrors DEF planCharge
  <2>2. chargeExposure(notionalUsd(plans[b]), planCharge(plans[b]), capScale(plans[b]), dayOf(chainSecond)) /\ chainSecond' = chainSecond
    BY <1>7 DEF finalizePlan
  <2>3. /\ todayTotal' \in [index : Days, global : Nat] /\ perTokenOnDay' \in [Days -> [PlanTokens -> Nat]]
        /\ chargedOn' \in [PlanIds -> SUBSET Days] /\ DaysAhead'
    BY <1>3, <2>1, <2>2
  <2>4. planState' \in [PlanIds -> {"closed", "refused", "won", "reverted", "finalized", "given up"}]
    BY <1>2, <1>7 DEF finalizePlan
  <2>5. UNCHANGED <<chainSecond, exposureCaps, capsRaised, capsLowered>>
    BY <1>7 DEF finalizePlan
  <2>6. QED  BY <1>2, <2>3, <2>4, <2>5
<1>8. ASSUME NEW b \in PlanIds, NEW x \in VenueExtras, finalizeReverts(b, x) PROVE Goal
  <2>1. planState' \in [PlanIds -> {"closed", "refused", "won", "reverted", "finalized", "given up"}]
    BY <1>2, <1>8 DEF finalizeReverts
  <2>2. UNCHANGED <<chainSecond, exposureCaps, todayTotal, perTokenOnDay, capsRaised, capsLowered, chargedOn>>
    BY <1>8 DEF finalizeReverts, settled, sinceAsked
  <2>3. QED  BY <1>2, <1>4, <1>5, <2>1, <2>2
<1>9. ASSUME NEW o \in OtherCharges, OtherFinalizes(o) PROVE Goal
  <2> DEFINE byToken == [t \in PlanTokens |-> IF t = o.token THEN o.usd + o.again ELSE 0]
  <2>0. o.usd \in Nat /\ o.usd + o.again \in Nat
    BY PreflightAssumption
  <2>1. o.usd \in Nat /\ byToken \in [PlanTokens -> Nat]
    BY <2>0
  <2>2. chargeExposure(o.usd, byToken, 2, dayOf(chainSecond)) /\ chainSecond' = chainSecond
    BY <1>9 DEF OtherFinalizes
  <2> HIDE DEF byToken
  <2>3. /\ todayTotal' \in [index : Days, global : Nat] /\ perTokenOnDay' \in [Days -> [PlanTokens -> Nat]]
        /\ chargedOn' \in [PlanIds -> SUBSET Days] /\ DaysAhead'
    BY <1>3, <2>1, <2>2
  <2>4. QED  BY <1>2, <1>9, <2>3 DEF OtherFinalizes, askedOf
<1>10. ASSUME NEW c \in CapSettings, setExposureCaps(c) PROVE Goal
  <2>1. capsRaised' \in [PlanIds -> BOOLEAN] /\ capsLowered' \in [PlanIds -> BOOLEAN]
    BY <1>2, <1>10 DEF setExposureCaps
  <2>2. exposureCaps' \in CapSettings /\ UNCHANGED <<chainSecond, todayTotal, perTokenOnDay, planState, chargedOn>>
    BY <1>10 DEF setExposureCaps, settled, askedOf
  <2>3. QED  BY <1>2, <1>4, <1>5, <2>1, <2>2
<1>11. ASSUME ChainSecondPasses PROVE Goal
  <2>1. chainSecond' \in 0..PreflightHorizon /\ chainSecond <= chainSecond'
    BY <1>11, SecondTypes DEF ChainSecondPasses
  <2>2. QED  BY <1>2, <1>4, <1>11, <2>1 DEF ChainSecondPasses, settled, askedOf, sinceAsked
<1>12. Goal
  BY <1>6, <1>7, <1>8, <1>9, <1>10, <1>11 DEF PreflightNext
<1>13. QED  BY <1>1, <1>12 DEF PreflightTypes, PreflightTypeOK

LEMMA PreflightStart == PreflightInit => PreflightInv
<1> SUFFICES ASSUME PreflightInit PROVE PreflightInv
  OBVIOUS
<1>1. 0 \in Days /\ dayOf(0) \in Nat /\ PreflightHorizon \in Nat
  BY DayTypes, PreflightAssumption
<1>2. PreflightTypes
  BY <1>1 DEF PreflightInit, PreflightTypes, PreflightTypeOK
<1>3. DaysAhead
  BY <1>1 DEF PreflightInit, DaysAhead
<1>4. RevertsExplained /\ \A b \in PlanIds : WonInv(b) /\ RefusedInv(b)
  BY DEF PreflightInit, RevertsExplained, WonInv, RefusedInv
<1>5. QED  BY <1>2, <1>3, <1>4 DEF PreflightInv

LEMMA PreflightStep == PreflightInv /\ [PreflightNext]_preflightVars => PreflightInv'
<1> SUFFICES ASSUME PreflightInv, [PreflightNext]_preflightVars PROVE PreflightInv'
  OBVIOUS
<1>1. PreflightTypes /\ DaysAhead /\ RevertsExplained /\ \A b \in PlanIds : WonInv(b) /\ RefusedInv(b)
  BY DEF PreflightInv
<1>2. chainSecond \in Nat /\ chainSecond <= chainSecond
  BY <1>1, SecondTypes
<1>3. CASE UNCHANGED preflightVars
  <2>1. UNCHANGED <<plans, chainSecond, exposureCaps, todayTotal, perTokenOnDay, planState, capsRaised, capsLowered, chargedOn, reverts>>
    BY <1>3 DEF preflightVars, settled, askedOf, sinceAsked
  <2>2. PlanIds' = PlanIds /\ PreflightTypes' /\ DaysAhead' /\ RevertsExplained'
    BY <1>1, <2>1 DEF PreflightTypes, PreflightTypeOK, DaysAhead, dayOf, RevertsExplained, PlanIds
  <2>3. \A b \in PlanIds : WonInv(b)' /\ RefusedInv(b)'
    BY <1>1, <1>2, <2>1, QuietKeeps
  <2>4. QED  BY <2>2, <2>3 DEF PreflightInv
<1>4. CASE PreflightNext
  <2>1. plans' = plans /\ PlanIds' = PlanIds
    BY <1>4 DEF PreflightNext, preflightPlan, finalizePlan, finalizeReverts, OtherFinalizes, setExposureCaps, ChainSecondPasses, PlanIds
  <2>2. PreflightTypes' /\ DaysAhead'
    BY <1>1, <1>4, PreflightTypesKept
  <2> DEFINE Plans(b) == WonInv(b)' /\ RefusedInv(b)'
  <2>3. ASSUME NEW b \in PlanIds, preflightPlan(b) PROVE RevertsExplained' /\ \A c \in PlanIds : Plans(c)
    <3>1. UNCHANGED <<plans, chainSecond, exposureCaps, todayTotal, perTokenOnDay, capsRaised, capsLowered, chargedOn, reverts>>
      BY <2>3 DEF preflightPlan, settled, sinceAsked
    <3>2. ASSUME NEW c \in PlanIds, c # b PROVE Plans(c)
      <4>1. planState'[c] = planState[c]
        BY <1>1, <2>3, <3>2 DEF preflightPlan, PreflightTypes, PreflightTypeOK
      <4>2. QED  BY <1>1, <1>2, <3>1, <4>1, QuietKeeps
    <3>3. Plans(b)
      BY <1>1, <2>3, AskedKeeps
    <3>4. QED  BY <1>1, <3>1, <3>2, <3>3 DEF RevertsExplained
  <2>4. ASSUME NEW b \in PlanIds, NEW x \in VenueExtras, finalizePlan(b, x) PROVE RevertsExplained' /\ \A c \in PlanIds : Plans(c)
    <3>1. notionalUsd(plans[b]) \in Nat /\ planCharge(plans[b]) \in [PlanTokens -> Nat]
      BY <1>1, PlanTyped, ExposureMirrors DEF planCharge
    <3>2. /\ chargeExposure(notionalUsd(plans[b]), planCharge(plans[b]), capScale(plans[b]), dayOf(chainSecond))
          /\ UNCHANGED <<plans, chainSecond, exposureCaps, capsRaised, capsLowered, reverts>>
      BY <2>4 DEF finalizePlan
    <3>3. ASSUME NEW c \in PlanIds, c # b PROVE Plans(c)
      <4>1. planState'[c] = planState[c]
        BY <1>1, <2>4, <3>3 DEF finalizePlan, PreflightTypes, PreflightTypeOK
      <4>2. QED  BY <1>1, <3>1, <3>2, <4>1, ChargeKeeps
    <3>4. Plans(b)
      <4>1. planState'[b] = "finalized"
        BY <1>1, <2>4 DEF finalizePlan, PreflightTypes, PreflightTypeOK
      <4>2. QED  BY <4>1 DEF WonInv, RefusedInv
    <3>5. QED  BY <1>1, <3>2, <3>3, <3>4 DEF RevertsExplained
  <2>5. ASSUME NEW b \in PlanIds, NEW x \in VenueExtras, finalizeReverts(b, x) PROVE RevertsExplained' /\ \A c \in PlanIds : Plans(c)
    <3>1. UNCHANGED <<plans, chainSecond, exposureCaps, todayTotal, perTokenOnDay, capsRaised, capsLowered, chargedOn>>
      BY <2>5 DEF finalizeReverts, settled, sinceAsked
    <3>2. ASSUME NEW c \in PlanIds PROVE Plans(c)
      <4>1. /\ planState'[c] \in {"won", "reverted"} => planState[c] \in {"won", "reverted"}
            /\ planState'[c] = "refused" => planState[c] = "refused"
        <5>1. CASE c = b
          BY <1>1, <2>5, <5>1 DEF finalizeReverts, mayFinalize, PreflightTypes, PreflightTypeOK
        <5>2. CASE c # b
          BY <1>1, <2>5, <3>2, <5>2 DEF finalizeReverts, PreflightTypes, PreflightTypeOK
        <5>3. QED  BY <5>1, <5>2
      <4>2. QED  BY <1>1, <1>2, <3>1, <4>1, QuietKeeps
    <3>3. RevertsExplained'
      BY <1>1, <2>5, RevertKeeps
    <3>4. QED  BY <3>2, <3>3
  <2>6. ASSUME NEW o \in OtherCharges, OtherFinalizes(o) PROVE RevertsExplained' /\ \A c \in PlanIds : Plans(c)
    <3> DEFINE byToken == [t \in PlanTokens |-> IF t = o.token THEN o.usd + o.again ELSE 0]
    <3>0. o.usd \in Nat /\ o.usd + o.again \in Nat
      BY PreflightAssumption
    <3>1. o.usd \in Nat /\ byToken \in [PlanTokens -> Nat]
      BY <3>0
    <3>2. /\ chargeExposure(o.usd, byToken, 2, dayOf(chainSecond))
          /\ UNCHANGED <<plans, chainSecond, exposureCaps, capsRaised, capsLowered, reverts, planState>>
      BY <2>6 DEF OtherFinalizes, askedOf
    <3> HIDE DEF byToken
    <3>3. ASSUME NEW c \in PlanIds PROVE Plans(c)
      BY <1>1, <3>1, <3>2, ChargeKeeps
    <3>4. QED  BY <1>1, <3>2, <3>3 DEF RevertsExplained
  <2>7. ASSUME NEW s \in CapSettings, setExposureCaps(s) PROVE RevertsExplained' /\ \A c \in PlanIds : Plans(c)
    <3>1. reverts' = reverts
      BY <2>7 DEF setExposureCaps
    <3>2. QED  BY <1>1, <2>7, <3>1, CapsKeep DEF RevertsExplained
  <2>8. ASSUME ChainSecondPasses PROVE RevertsExplained' /\ \A c \in PlanIds : Plans(c)
    <3>1. /\ UNCHANGED <<plans, exposureCaps, todayTotal, perTokenOnDay, planState, capsRaised, capsLowered, chargedOn, reverts>>
          /\ chainSecond' \in Nat /\ chainSecond <= chainSecond'
      BY <1>2, <2>8 DEF ChainSecondPasses, settled, askedOf, sinceAsked
    <3>2. QED  BY <1>1, <3>1, QuietKeeps DEF RevertsExplained
  <2>9. RevertsExplained' /\ \A c \in PlanIds : Plans(c)
    BY <1>4, <2>3, <2>4, <2>5, <2>6, <2>7, <2>8 DEF PreflightNext
  <2>10. QED  BY <2>1, <2>2, <2>9 DEF PreflightInv
<1>5. QED  BY <1>3, <1>4

\* What preflight says of a plan is what finalize does with it, for as long as the
\* chain stands still; a revert after it met something new, and what is refused
\* would have been refused.
THEOREM PreflightAlwaysHolds == PreflightSpec => []PreflightHolds
<1>1. PreflightInv => PreflightHolds
  <2> SUFFICES ASSUME PreflightInv PROVE PreflightHolds
    OBVIOUS
  <2>1. PreflightTypes /\ RevertsExplained /\ \A b \in PlanIds : RefusedInv(b)
    BY DEF PreflightInv
  <2>2. dayOf(chainSecond) \in Days
    <3>1. 0 \in Days
      BY DayTypes, PreflightAssumption
    <3>2. QED  BY <2>1, <3>1, StateTypes
  <2>3. MirrorExact
    <3>1. ASSUME NEW b \in PlanIds
          PROVE  (exposureViolations(plans[b], exposureState(plans[b], chainSecond)) = {} /\ feeCheck(plans[b]))
                   <=> finalizePasses(plans[b], 0, dayOf(chainSecond))
      <4>1. plans[b] \in PlanRecords
        BY <2>1, PlanTyped
      <4>2. feeCheck(plans[b]) <=> feesPass(plans[b], 0)
        BY <4>1, FeesMirror
      <4>3. exposureViolations(plans[b], exposureState(plans[b], chainSecond)) = {}
              <=> chargePasses(notionalUsd(plans[b]), planCharge(plans[b]), capScale(plans[b]), dayOf(chainSecond))
        BY <2>1, <2>2, <4>1, VerdictMirrors
      <4>4. QED  BY <4>2, <4>3 DEF finalizePasses
    <3>2. QED  BY <3>1 DEF MirrorExact
  <2>4. RefusedRightly
    <3>1. ASSUME NEW b \in PlanIds, planState[b] = "refused"
          PROVE  \/ ~feeCheck(plans[b]) /\ \A x \in VenueExtras : ~feesPass(plans[b], x)
                 \/ /\ feeCheck(plans[b])
                    /\ dayOf(chainSecond) = expectedDay(plans[b]) /\ ~capsRaised[b]
                         => ~chargePasses(notionalUsd(plans[b]), planCharge(plans[b]), capScale(plans[b]), dayOf(chainSecond))
      <4>1. plans[b] \in PlanRecords
        BY <2>1, PlanTyped
      <4>2. CASE ~feeCheck(plans[b])
        <5>1. \A x \in VenueExtras : ~feesPass(plans[b], x)
          BY <4>1, <4>2, PreflightAssumption, FeesMirror
        <5>2. QED  BY <4>2, <5>1
      <4>3. CASE feeCheck(plans[b])
        <5>1. ASSUME dayOf(chainSecond) = expectedDay(plans[b]), ~capsRaised[b] PROVE ~fits(plans[b], dayOf(chainSecond))
          <6>1. dayOf(chainSecond) <= dayOf(chainSecond)
            BY <2>1, <2>2, DayTypes, PreflightAssumption
          <6>2. QED  BY <2>1, <2>2, <3>1, <4>3, <5>1, <6>1 DEF RefusedInv
        <5>2. QED  BY <2>1, <2>2, <4>1, <4>3, <5>1, VerdictMirrors
      <4>4. QED  BY <4>2, <4>3
    <3>2. QED  BY <3>1 DEF RefusedRightly, expectedDay
  <2>5. QED  BY <2>1, <2>3, <2>4 DEF PreflightHolds, PreflightTypes
<1>2. QED  BY PreflightStart, PreflightStep, <1>1, PTL DEF PreflightSpec

----------------------------------------------------------------------------
(* Receipts: the solution a batch ends with.                               *)

\* i is the first of the best of the first n submissions.
FirstBest(submits, n, i) ==
  /\ i \in 1..n /\ \A k \in 1..n : submits[i].savings >= submits[k].savings
  /\ \A k \in 1..(i - 1) : submits[k].savings < submits[i].savings

LEMMA FirstBestExists ==
  ASSUME NEW submits, NEW m \in Nat, \A i \in 1..m : submits[i].savings \in Nat, NEW n \in 1..m
  PROVE  \E i \in 1..n : FirstBest(submits, n, i)
<1> DEFINE Bad == {k \in 1..n : ~ \E i \in 1..k : FirstBest(submits, k, i)}
<1>0. n \in 1..n
  OBVIOUS
<1> SUFFICES ASSUME Bad # {} PROVE FALSE
  BY <1>0
<1>1. IsFiniteSet(Bad) /\ \A k \in Bad : k \in Nat
  <2>1. IsFiniteSet(1..n)
    <3>1. 1 \in Int /\ n \in Int
      OBVIOUS
    <3>2. QED  BY <3>1, FS_Interval
  <2>2. QED  BY <2>1, FS_Subset
<1>2. PICK k \in Bad : \A j \in Bad : k <= j
  <2> HIDE DEF Bad
  <2>1. QED  BY <1>1, FirstPosition
<1>3. k \in 1..n /\ ~ \E i \in 1..k : FirstBest(submits, k, i)
  BY <1>2
<1>4. k # 1
  BY <1>3 DEF FirstBest
<1>5. PICK i \in 1..(k - 1) : FirstBest(submits, k - 1, i)
  <2>1. k - 1 \in 1..n /\ k - 1 \notin Bad
    BY <1>2, <1>3, <1>4
  <2>2. QED  BY <2>1
<1> HIDE DEF Bad
<1>6. submits[i].savings \in Nat /\ submits[k].savings \in Nat /\ \A l \in 1..k : submits[l].savings \in Nat
  BY <1>3
<1>7. CASE submits[k].savings > submits[i].savings
  <2>1. \A l \in 1..(k - 1) : submits[l].savings < submits[k].savings
    BY <1>3, <1>5, <1>6, <1>7 DEF FirstBest
  <2>2. k \in 1..k /\ \A l \in 1..k : l = k \/ l \in 1..(k - 1)
    BY <1>3
  <2>3. FirstBest(submits, k, k)
    BY <1>6, <2>1, <2>2 DEF FirstBest
  <2>4. QED  BY <1>3, <2>2, <2>3
<1>8. CASE ~(submits[k].savings > submits[i].savings)
  <2>1. i \in 1..k /\ \A l \in 1..k : l = k \/ l \in 1..(k - 1)
    BY <1>3
  <2>2. FirstBest(submits, k, i)
    BY <1>5, <1>6, <1>8, <2>1 DEF FirstBest
  <2>3. QED  BY <1>3, <2>1, <2>2
<1>9. QED  BY <1>7, <1>8

LEMMA BestIsFirstBest ==
  ASSUME NEW submits, NEW m \in Nat, \A i \in 1..m : submits[i].savings \in Nat, NEW n \in 1..m
  PROVE  FirstBest(submits, n, BestAfter(submits, n))
<1>1. \E i \in 1..n : FirstBest(submits, n, i)
  BY FirstBestExists
<1>2. BestAfter(submits, n) = CHOOSE i \in 1..n : FirstBest(submits, n, i)
  BY DEF BestAfter, FirstBest
<1>3. QED  BY <1>1, <1>2

\* The last submission that was accepted when it came is the one kept in the end.
LEMMA LastAcceptedIsBest ==
  ASSUME NEW submits, NEW n \in Nat \ {0}, \A i \in 1..n : submits[i].savings \in Nat
  PROVE  LET best == BestAfter(submits, n)
             accepted == {i \in 1..n : BestAfter(submits, i) = i}
         IN  best \in 1..n /\ best \in accepted /\ Max(accepted) = best
<1> DEFINE best == BestAfter(submits, n)
           accepted == {i \in 1..n : BestAfter(submits, i) = i}
<1>1. FirstBest(submits, n, best)
  BY BestIsFirstBest
<1>2. best \in 1..n
  BY <1>1 DEF FirstBest
<1>3. BestAfter(submits, best) = best
  <2>1. FirstBest(submits, best, BestAfter(submits, best))
    BY <1>2, BestIsFirstBest
  <2> DEFINE b == BestAfter(submits, best)
  <2> HIDE DEF b, best
  <2>2. b \in 1..best /\ b \in 1..n
    BY <1>2, <2>1 DEF FirstBest, b
  <2>3. submits[b].savings >= submits[best].savings
    BY <1>2, <2>1 DEF FirstBest, b
  <2>4. b # best => b \in 1..(best - 1)
    BY <1>2, <2>2
  <2>5. b # best => submits[b].savings < submits[best].savings
    BY <1>1, <2>4 DEF FirstBest
  <2>6. QED  BY <1>2, <2>2, <2>3, <2>5 DEF b
<1>4. ASSUME NEW i \in accepted PROVE i <= best
  <2> HIDE DEF best
  <2>1. i \in 1..n /\ FirstBest(submits, i, i)
    BY BestIsFirstBest
  <2>2. i > best => best \in 1..(i - 1)
    BY <1>2, <2>1
  <2>3. i > best => submits[best].savings < submits[i].savings
    BY <2>1, <2>2 DEF FirstBest
  <2>4. submits[best].savings >= submits[i].savings
    BY <1>1, <2>1 DEF FirstBest
  <2>5. QED  BY <1>2, <2>1, <2>3, <2>4
<1>5. best \in accepted
  BY <1>2, <1>3
<1> HIDE DEF best, accepted
<1>6. Max(accepted) = best
  <2>1. \A x \in accepted : x \in Nat
    BY DEF accepted
  <2>2. \A x \in accepted : (\A y \in accepted : x >= y) => x = best
    BY <1>4, <1>5, <2>1
  <2>3. \A y \in accepted : best >= y
    BY <1>4, <1>5, <2>1
  <2>4. QED  BY <1>5, <2>2, <2>3 DEF Max
<1>7. QED  BY <1>2, <1>5, <1>6 DEF best, accepted

----------------------------------------------------------------------------
(* Receipts: what is shown of a job.                                       *)

Best(j) == BestAfter(j.submits, Len(j.submits))

LEMMA JobFacts ==
  ASSUME NEW j \in ReceiptJobs
  PROVE  /\ j.end \in {"settled", "at venue", "unwound", "expired"}
         /\ Best(j) \in DOMAIN j.submits /\ DOMAIN j.submits = 1..Len(j.submits)
         /\ BestAfter(j.submits, Best(j)) = Best(j)
         /\ Max({i \in DOMAIN j.submits : BestAfter(j.submits, i) = i}) = Best(j)
         /\ j.submits[Best(j)].savings \in Nat /\ j.rates[Best(j)] \in Nat /\ Best(j) \in Nat \ {0}
<1>1. Len(j.submits) \in Nat \ {0} /\ DOMAIN j.submits = 1..Len(j.submits)
  BY ReceiptAssumption
<1>2. \A i \in 1..Len(j.submits) : j.submits[i].savings \in Nat /\ j.rates[i] \in Nat
  BY <1>1, ReceiptAssumption
<1>0. PICK n \in Nat \ {0} : n = Len(j.submits)
  BY <1>1
<1>3. PICK s : n = Len(j.submits) /\ s = j.submits
  BY <1>0
<1>4. \A i \in 1..n : s[i].savings \in Nat
  BY <1>2, <1>3
<1>5. /\ BestAfter(s, n) \in 1..n /\ BestAfter(s, n) \in {i \in 1..n : BestAfter(s, i) = i}
      /\ Max({i \in 1..n : BestAfter(s, i) = i}) = BestAfter(s, n)
  BY <1>4, LastAcceptedIsBest
<1>6. Best(j) = BestAfter(s, n)
  BY <1>3 DEF Best
<1>7. j.end \in {"settled", "at venue", "unwound", "expired"}
  BY ReceiptAssumption
<1>8. {i \in DOMAIN j.submits : BestAfter(j.submits, i) = i} = {i \in 1..n : BestAfter(s, i) = i}
  BY <1>1, <1>3
<1>9. Max({i \in DOMAIN j.submits : BestAfter(j.submits, i) = i}) = Best(j)
  BY <1>5, <1>6, <1>8
<1>10. Best(j) \in DOMAIN j.submits /\ BestAfter(j.submits, Best(j)) = Best(j)
  BY <1>1, <1>3, <1>5, <1>6
<1>11. j.submits[Best(j)].savings \in Nat /\ j.rates[Best(j)] \in Nat
  <2>1. PICK b : b = Best(j)
    OBVIOUS
  <2>2. b \in 1..Len(j.submits)
    BY <1>1, <1>10, <2>1
  <2>3. QED  BY <1>2, <2>1, <2>2
<1>12. Best(j) \in Nat \ {0}
  BY <1>4, <1>5, <1>6
<1>13. QED  BY <1>1, <1>7, <1>9, <1>10, <1>11, <1>12

\* The submissions of the winning solution.
WinnerCopies(j) == {i \in DOMAIN j.submits : j.submits[i].solution = j.submits[Best(j)].solution}

\* A copy of the winner is as good and comes after it.
LEMMA CopiesFollow ==
  ASSUME NEW j \in ReceiptJobs
  PROVE  /\ WinnerCopies(j) \subseteq Nat /\ Best(j) \in WinnerCopies(j)
         /\ \A i \in WinnerCopies(j) : i >= Best(j) /\ j.submits[i].savings = j.submits[Best(j)].savings
         /\ Min(WinnerCopies(j)) = Best(j)
         /\ j.submits[Best(j)].solution \in Nat \ {0}
<1>1. /\ Len(j.submits) \in Nat \ {0} /\ DOMAIN j.submits = 1..Len(j.submits) /\ Best(j) \in DOMAIN j.submits
  BY JobFacts, ReceiptAssumption
<1>2. /\ \A i \in DOMAIN j.submits : j.submits[i].savings \in Nat /\ j.submits[i].solution \in Nat \ {0}
      /\ \A i, k \in DOMAIN j.submits :
           j.submits[i].solution = j.submits[k].solution => j.submits[i].savings = j.submits[k].savings
  BY ReceiptAssumption
<1>3. PICK n, s, b : n \in Nat \ {0} /\ n = Len(j.submits) /\ s = j.submits /\ b = Best(j)
  BY <1>1
<1>4. FirstBest(s, n, b)
  <2>1. n \in 1..n /\ \A i \in 1..n : s[i].savings \in Nat
    BY <1>1, <1>2, <1>3
  <2>2. b = BestAfter(s, n)
    BY <1>3 DEF Best
  <2>3. QED  BY <2>1, <2>2, BestIsFirstBest
<1>5. b \in 1..n /\ \A k \in 1..(b - 1) : s[k].savings < s[b].savings
  BY <1>4 DEF FirstBest
<1>6. WinnerCopies(j) = {i \in 1..n : s[i].solution = s[b].solution}
  BY <1>1, <1>3 DEF WinnerCopies
<1>7. ASSUME NEW i \in 1..n, s[i].solution = s[b].solution PROVE i >= b /\ s[i].savings = s[b].savings
  <2>1. s[i].savings = s[b].savings /\ s[b].savings \in Nat
    BY <1>1, <1>2, <1>3, <1>5, <1>7
  <2>2. i < b => i \in 1..(b - 1)
    BY <1>5
  <2>3. QED  BY <1>5, <2>1, <2>2
<1>8. WinnerCopies(j) \subseteq Nat /\ b \in WinnerCopies(j) /\ \A i \in WinnerCopies(j) : i >= b
  BY <1>5, <1>6, <1>7
<1>9. Min(WinnerCopies(j)) = b
  <2> DEFINE W == WinnerCopies(j)
  <2>1. W \subseteq Nat /\ b \in W /\ \A i \in W : b <= i
    BY <1>8
  <2> HIDE DEF W
  <2>2. \A x \in W : (\A y \in W : x <= y) => x = b
    BY <2>1
  <2>3. Min(W) = b
    BY <2>1, <2>2 DEF Min
  <2>4. QED  BY <2>3 DEF W
<1>10. QED  BY <1>1, <1>2, <1>3, <1>6, <1>7, <1>8, <1>9

LEMMA WinnerShown ==
  ASSUME NEW j \in ReceiptJobs
  PROVE  /\ Best(j) \in receiptOf(j).accepted
         /\ Finalized(j) => receiptOf(j).accepted = WinnerCopies(j)
         /\ receiptOf(j).solver = j.submits[Best(j)].solver
<1> DEFINE rows == solutionsRows(j)
           accepted == {i \in DOMAIN j.submits : rows[i].accepted}
<1>1. \A i \in DOMAIN j.submits :
        /\ rows[i].hash = j.submits[i].solution /\ rows[i].solver = j.submits[i].solver
        /\ rows[i].accepted <=> BestAfter(j.submits, i) = i
  BY DEF solutionsRows
<1>2. accepted = {i \in DOMAIN j.submits : BestAfter(j.submits, i) = i}
  BY <1>1
<1>3. receiptOf(j).accepted = {i \in DOMAIN j.submits : won(j, i)} /\ receiptOf(j).solver = solverShown(j)
  BY DEF receiptOf
<1>4. \A i \in DOMAIN j.submits :
        /\ Finalized(j) => (won(j, i) <=> j.submits[i].solution = j.submits[Best(j)].solution)
        /\ ~Finalized(j) => (won(j, i) <=> BestAfter(j.submits, i) = i)
  BY <1>1, CopiesFollow DEF won, winningHash, Best
<1>5. Best(j) \in receiptOf(j).accepted
  BY <1>3, <1>4, JobFacts
<1>6. Finalized(j) => receiptOf(j).accepted = WinnerCopies(j)
  BY <1>3, <1>4 DEF WinnerCopies
<1>7. rows[Max(accepted)].solver = j.submits[Best(j)].solver
  <2> HIDE DEF rows, accepted
  <2>1. Max(accepted) = Best(j)
    BY <1>2, JobFacts
  <2>2. QED  BY <1>1, <2>1, JobFacts
<1>8. solverShown(j) = IF batchesRow(j).solver # "none" THEN batchesRow(j).solver ELSE rows[Max(accepted)].solver
  BY DEF solverShown
<1>9. batchesRow(j).solver # "none" => batchesRow(j).solver = j.submits[Best(j)].solver
  <2>1. CASE j.end = "settled"
    BY <2>1 DEF batchesRow, Best
  <2>2. CASE j.end = "at venue"
    BY <2>2 DEF batchesRow, Best
  <2>3. CASE j.end = "unwound"
    BY <2>3 DEF batchesRow
  <2>4. CASE j.end = "expired"
    BY <2>4 DEF batchesRow
  <2>5. QED  BY <2>1, <2>2, <2>3, <2>4, JobFacts
<1>10. QED  BY <1>3, <1>5, <1>6, <1>7, <1>8, <1>9

LEMMA ScanShown ==
  ASSUME NEW j \in ReceiptJobs
  PROVE  (oneRowPerBatch(j) = "settled") <=> ~receiptOf(j).failure
<1>1. receiptOf(j).failure <=> publicOutcome(batchesRow(j)) \notin {"settled", "settled_at_venue"}
  BY DEF receiptOf
<1>2. CASE j.end = "settled"
  BY <1>1, <1>2 DEF batchesRow, publicOutcome, endLogs, oneRowPerBatch
<1>3. CASE j.end = "at venue"
  <2>1. endLogs(j) = <<"passthrough", "settled">>
    BY <1>3 DEF endLogs
  <2>2. oneRowPerBatch(j) = laterRow("passthrough", "settled")
    BY <2>1 DEF oneRowPerBatch
  <2>3. QED  BY <1>1, <1>3, <2>2 DEF batchesRow, publicOutcome, laterRow
<1>4. CASE j.end = "unwound"
  BY <1>1, <1>4 DEF batchesRow, publicOutcome, endLogs, oneRowPerBatch
<1>5. CASE j.end = "expired"
  BY <1>1, <1>5 DEF batchesRow, publicOutcome, endLogs, oneRowPerBatch
<1>6. QED  BY <1>2, <1>3, <1>4, <1>5, JobFacts

LEMMA FillFacts ==
  ASSUME NEW j \in ReceiptJobs
  PROVE  /\ DOMAIN fillRows(j) \subseteq DOMAIN j.fills /\ \A n \in DOMAIN fillRows(j) : fillRows(j)[n] = j.fills[n]
         /\ fillRows(j) # <<>> => j.end \in {"settled", "at venue"}
         /\ IsFiniteSet(DOMAIN fillRows(j))
         /\ \A n \in DOMAIN fillRows(j) :
              /\ fillRows(j)[n].amount \in Nat /\ fillRows(j)[n].baseline \in Nat
              /\ j.routed[fillRows(j)[n].sell] \in Nat
<1>1. Len(j.fills) \in Nat /\ DOMAIN j.fills = 1..Len(j.fills)
  BY ReceiptAssumption
<1>2. IsFiniteSet(DOMAIN j.fills)
  <2>1. 1 \in Int /\ Len(j.fills) \in Int
    BY <1>1
  <2>2. QED  BY <1>1, <2>1, FS_Interval
<1>3. \A n \in DOMAIN j.fills : j.fills[n].amount \in Nat /\ j.fills[n].baseline \in Nat /\ j.routed[j.fills[n].sell] \in Nat
  BY ReceiptAssumption
<1>4. CASE j.end \in {"settled", "at venue"}
  BY <1>2, <1>3, <1>4 DEF fillRows
<1>5. CASE j.end \notin {"settled", "at venue"}
  <2>1. fillRows(j) = <<>>
    BY <1>5 DEF fillRows
  <2>2. DOMAIN fillRows(j) = {}
    BY <2>1
  <2>3. QED  BY <2>1, <2>2, FS_EmptySet
<1>6. QED  BY <1>4, <1>5

LEMMA DirectionFacts ==
  ASSUME NEW j \in ReceiptJobs, NEW sell \in directions(j)
  PROVE  /\ IsFiniteSet(directionFills(j, sell)) /\ directionFills(j, sell) # {}
         /\ directionFills(j, sell) \subseteq DOMAIN fillRows(j)
         /\ directionSold(j, sell) \in Nat /\ directionBaseline(j, sell) \in Nat /\ j.routed[sell] \in Nat
<1>1. PICK n \in DOMAIN fillRows(j) : sell = fillRows(j)[n].sell
  BY DEF directions
<1>2. directionFills(j, sell) \subseteq DOMAIN fillRows(j) /\ n \in directionFills(j, sell)
  BY <1>1 DEF directionFills
<1>3. IsFiniteSet(directionFills(j, sell))
  BY <1>2, FillFacts, FS_Subset
<1>4. j.routed[sell] \in Nat
  BY <1>1, FillFacts
<1> DEFINE sold == [i \in DOMAIN fillRows(j) |-> fillRows(j)[i].amount]
           base == [i \in DOMAIN fillRows(j) |-> fillRows(j)[i].baseline]
<1>5. \A i \in directionFills(j, sell) : sold[i] \in Nat /\ base[i] \in Nat
  BY <1>2, FillFacts
<1>6. directionSold(j, sell) = SumFunctionOnSet(sold, directionFills(j, sell))
      /\ directionBaseline(j, sell) = SumFunctionOnSet(base, directionFills(j, sell))
  BY DEF directionSold, directionBaseline
<1> HIDE DEF sold, base
<1>7. QED  BY <1>2, <1>3, <1>4, <1>5, <1>6, SumNat

LEMMA FloorsShown == ASSUME NEW j \in ReceiptJobs PROVE receiptOf(j).mismatches = {}
<1>1. receiptOf(j).mismatches = baselineMismatches(j)
  BY DEF receiptOf
<1>2. ASSUME NEW sell \in directions(j), quoted(j, sell, directionSold(j, sell)) # Unavailable,
             directionBaseline(j, sell) < quoted(j, sell, directionSold(j, sell))
      PROVE  FALSE
  <2>1. directionBaseline(j, sell) >= directionSold(j, sell) * j.rates[Best(j)]
    BY ReceiptAssumption DEF Best
  <2>2. quoted(j, sell, directionSold(j, sell)) = quoteFromState(j, quoteBlock(j), directionSold(j, sell))
    BY <1>2 DEF quoted
  <2>3. PICK n \in DOMAIN fillRows(j) : sell = fillRows(j)[n].sell
    BY DEF directions
  <2>4. j.end \in {"settled", "at venue"}
    <3>1. fillRows(j) # <<>>
      BY <2>3
    <3>2. QED  BY <3>1, FillFacts
  <2>5. winningHash(j) = j.submits[Best(j)].solution /\ winningHash(j) # 0
    BY <2>4, CopiesFollow DEF winningHash, Finalized, Best
  <2>6. quoteBlock(j) = Best(j) - 1
    <3>1. withHash(j, winningHash(j)) = WinnerCopies(j)
      BY <2>5 DEF withHash, solutionsRows, WinnerCopies
    <3>2. solutionsRows(j)[Best(j)].block = Best(j)
      BY JobFacts DEF solutionsRows
    <3>3. QED  BY <2>5, <3>1, <3>2, CopiesFollow DEF quoteBlock
  <2>7. quoteFromState(j, quoteBlock(j), directionSold(j, sell)) = directionSold(j, sell) * j.rates[Best(j)]
    <3>0. Best(j) \in Nat
      BY JobFacts
    <3>1. quoteBlock(j) + 1 = Best(j)
      BY <2>6, <3>0
    <3>2. QED  BY <3>1 DEF quoteFromState
  <2>8. directionSold(j, sell) * j.rates[Best(j)] \in Nat /\ directionBaseline(j, sell) \in Nat
    <3>1. directionSold(j, sell) \in Nat /\ j.rates[Best(j)] \in Nat
      BY JobFacts, DirectionFacts
    <3>2. PICK x \in Nat, y \in Nat : x = directionSold(j, sell) /\ y = j.rates[Best(j)]
      BY <3>1
    <3>3. x * y \in Nat
      OBVIOUS
    <3>4. QED  BY <3>2, <3>3, DirectionFacts
  <2>9. QED  BY <1>2, <2>1, <2>2, <2>7, <2>8
<1>3. QED  BY <1>1, <1>2 DEF baselineMismatches

----------------------------------------------------------------------------
(* Receipts: the attribution of fills.                                     *)

\* What of a fill is shown as routed.
routedOf(j, n) == receiptOf(j).attribution[n].routedSell

LEMMA ShareOfFill ==
  ASSUME NEW R \in Nat, NEW T \in Nat, NEW a \in Nat, NEW r,
         r = LET q == share(R, a, T) IN IF q > a THEN a ELSE q
  PROVE  /\ r \in Nat /\ r <= a
         /\ T = 0 => r = 0
         /\ T > 0 /\ R <= T => T * r <= R * a /\ R * a < T * r + T
         /\ T > 0 /\ R > T => r = a
<1>1. CASE T = 0
  BY <1>1 DEF share
<1>2. CASE T > 0
  <2> DEFINE q == (R * a) \div T
  <2>1. share(R, a, T) = q
    BY <1>2 DEF share
  <2>2. R * a \in Nat /\ T \in Nat \ {0}
    BY <1>2, Z3
  <2>3. q \in Nat /\ T * q <= R * a /\ R * a < T * q + T
    BY <2>2, QuotientNat, QuotientBounds
  <2>4. r = IF q > a THEN a ELSE q
    BY <2>1
  <2> HIDE DEF q
  <2>5. ASSUME R <= T PROVE q <= a
    <3>1. R * a <= T * a
      BY <2>5, Z3
    <3>2. T * q <= T * a
      BY <2>2, <2>3, <3>1, Z3
    <3>3. QED  BY <2>2, <2>3, <3>2, Z3
  <2>6. ASSUME R > T PROVE q >= a
    <3>1. R * a >= T * a
      BY <2>6, Z3
    <3>2. T * a < T * q + T
      BY <2>2, <2>3, <3>1, Z3
    <3>3. T * a < T * (q + 1)
      BY <2>2, <2>3, <3>2, Z3
    <3>4. a < q + 1
      BY <2>2, <2>3, <3>3, Z3
    <3>5. QED  BY <2>3, <3>4
  <2>7. r \in Nat /\ r <= a
    BY <2>3, <2>4
  <2>8. R <= T => r = q
    BY <2>3, <2>4, <2>5
  <2>9. R > T => r = a
    BY <2>3, <2>4, <2>6
  <2>10. QED  BY <1>2, <2>2, <2>3, <2>7, <2>8, <2>9
<1>3. QED  BY <1>1, <1>2

LEMMA FillShown ==
  ASSUME NEW j \in ReceiptJobs, NEW sell \in directions(j), NEW n \in directionFills(j, sell)
  PROVE  LET R == j.routed[sell]
             T == directionSold(j, sell)
             a == fillRows(j)[n].amount
             r == routedOf(j, n)
         IN  /\ a \in Nat /\ r \in Nat /\ r <= a
             /\ receiptOf(j).attribution[n].nettedSell = a - r
             /\ T = 0 => r = 0
             /\ T > 0 /\ R <= T => T * r <= R * a /\ R * a < T * r + T
             /\ T > 0 /\ R > T => r = a
<1>1. n \in DOMAIN fillRows(j) /\ fillRows(j)[n].sell = sell
  BY DEF directionFills
<1>2. receiptOf(j).attribution[n] = attribute(j, n)
  BY <1>1 DEF receiptOf
<1>3. PICK R \in Nat, T \in Nat, a \in Nat :
        R = j.routed[sell] /\ T = directionSold(j, sell) /\ a = fillRows(j)[n].amount
  BY <1>1, FillFacts, DirectionFacts
<1>4. PICK r : r = LET q == share(R, a, T) IN IF q > a THEN a ELSE q
  OBVIOUS
<1>5. attribute(j, n) = [routedSell |-> r, nettedSell |-> a - r]
  BY <1>1, <1>3, <1>4 DEF attribute
<1>6. routedOf(j, n) = r /\ receiptOf(j).attribution[n].nettedSell = a - r
  BY <1>2, <1>5 DEF routedOf
<1>7. /\ r \in Nat /\ r <= a
      /\ T = 0 => r = 0
      /\ T > 0 /\ R <= T => T * r <= R * a /\ R * a < T * r + T
      /\ T > 0 /\ R > T => r = a
  BY <1>4, ShareOfFill
<1>8. QED  BY <1>3, <1>6, <1>7

LEMMA RoutedShown ==
  ASSUME NEW j \in ReceiptJobs, NEW sell \in directions(j)
  PROVE  LET ns    == directionFills(j, sell)
             shown == SumFunctionOnSet([n \in DOMAIN fillRows(j) |-> routedOf(j, n)], ns)
             least == Min({j.routed[sell], directionSold(j, sell)})
         IN  shown <= j.routed[sell] /\ shown > least - Cardinality(ns)
<1>0. PICK R \in Nat, T \in Nat : R = j.routed[sell] /\ T = directionSold(j, sell)
  BY DirectionFacts
<1>1. PICK S, s, a :
        /\ R = j.routed[sell] /\ T = directionSold(j, sell) /\ S = directionFills(j, sell)
        /\ s = [n \in DOMAIN fillRows(j) |-> routedOf(j, n)]
        /\ a = [n \in DOMAIN fillRows(j) |-> fillRows(j)[n].amount]
  BY <1>0
<1>2. IsFiniteSet(S) /\ S # {} /\ S \subseteq DOMAIN fillRows(j)
  BY <1>1, DirectionFacts
<1>3. SumFunctionOnSet(a, S) = T
  BY <1>1 DEF directionSold
<1>4. ASSUME NEW n \in S
      PROVE  /\ a[n] \in Nat /\ s[n] \in Nat
             /\ T = 0 => s[n] = 0
             /\ T > 0 /\ R <= T => T * s[n] <= R * a[n] /\ R * a[n] < T * s[n] + T
             /\ T > 0 /\ R > T => s[n] = a[n]
  <2>1. a[n] = fillRows(j)[n].amount /\ s[n] = routedOf(j, n)
    BY <1>1, <1>2
  <2>2. n \in directionFills(j, sell)
    BY <1>1
  <2>3. QED  BY <1>1, <2>1, <2>2, FillShown
<1>5. Cardinality(S) \in Nat \ {0}
  BY <1>2, FS_CardinalityType, FS_EmptySet
<1>6. SumFunctionOnSet(s, S) <= R /\ SumFunctionOnSet(s, S) > Min({R, T}) - Cardinality(S)
  <2>1. CASE T = 0
    <3>1. SumFunctionOnSet(s, S) = 0
      BY <1>2, <1>4, <2>1, SumZero
    <3>2. Min({R, T}) = 0
      BY <2>1, MinOfTwo
    <3>3. QED  BY <1>5, <3>1, <3>2
  <2>2. CASE T > 0 /\ R <= T
    <3>1. T \in Nat \ {0} /\ \A n \in S : a[n] \in Nat /\ s[n] \in Nat /\ T * s[n] <= R * a[n] /\ R * a[n] < T * s[n] + T
      BY <1>4, <2>2
    <3>2. SumFunctionOnSet(s, S) <= R /\ R < SumFunctionOnSet(s, S) + Cardinality(S)
      BY <1>2, <1>3, <3>1, SharesOfAll
    <3>3. Min({R, T}) = R
      BY <2>2, MinOfTwo
    <3>4. SumFunctionOnSet(s, S) \in Nat
      BY <1>2, <3>1, SumNat
    <3>5. QED  BY <1>5, <3>2, <3>3, <3>4
  <2>3. CASE T > 0 /\ R > T
    <3>1. \A n \in S : s[n] = a[n]
      BY <1>4, <2>3
    <3>2. SumFunctionOnSet(s, S) = T
      BY <1>2, <1>3, <3>1, SumSame
    <3>3. Min({R, T}) = T
      BY <2>3, MinOfTwo
    <3>4. QED  BY <1>5, <2>3, <3>2, <3>3
  <2>4. QED  BY <2>1, <2>2, <2>3
<1>7. QED  BY <1>1, <1>6

----------------------------------------------------------------------------
(* The list of batches in pages.                                           *)

\* The members of S above b.
above(S, b) == {c \in S : c > b}

LEMMA AboveFacts ==
  ASSUME NEW S, IsFiniteSet(S), S \subseteq Nat
  PROVE  /\ Cardinality(S) \in Nat
         /\ \A b \in S : IsFiniteSet(above(S, b)) /\ Cardinality(above(S, b)) \in 0..(Cardinality(S) - 1)
         /\ \A b, c \in S : b < c => Cardinality(above(S, c)) < Cardinality(above(S, b))
<1>1. Cardinality(S) \in Nat /\ \A b \in S : b \in Nat
  BY FS_CardinalityType
<1>2. ASSUME NEW b \in S
      PROVE  IsFiniteSet(above(S, b)) /\ Cardinality(above(S, b)) \in 0..(Cardinality(S) - 1)
  <2>1. above(S, b) \subseteq S \ {b}
    BY <1>1 DEF above
  <2>2. IsFiniteSet(S \ {b}) /\ Cardinality(S \ {b}) = Cardinality(S) - 1
    BY FS_RemoveElement
  <2>3. IsFiniteSet(above(S, b)) /\ Cardinality(above(S, b)) <= Cardinality(S \ {b})
    BY <2>1, <2>2, FS_Subset
  <2>4. Cardinality(above(S, b)) \in Nat
    BY <2>3, FS_CardinalityType
  <2>5. QED  BY <1>1, <2>2, <2>3, <2>4
<1>3. ASSUME NEW b \in S, NEW c \in S, b < c PROVE Cardinality(above(S, c)) < Cardinality(above(S, b))
  <2>1. \A x \in above(S, c) : x \in above(S, b)
    <3>1. ASSUME NEW x \in S, x > c PROVE x > b
      BY <1>1, <1>3, <3>1
    <3>2. QED  BY <3>1 DEF above
  <2>2. above(S, c) \subseteq above(S, b) \ {c} /\ c \in above(S, b)
    <3>1. b \in Nat /\ c \in Nat /\ ~(c > c) /\ c > b
      BY <1>1, <1>3
    <3>2. c \notin above(S, c) /\ c \in above(S, b)
      BY <3>1 DEF above
    <3>3. QED  BY <2>1, <3>2
  <2>3. IsFiniteSet(above(S, b) \ {c}) /\ Cardinality(above(S, b) \ {c}) = Cardinality(above(S, b)) - 1
    BY <1>2, <2>2, FS_RemoveElement
  <2>4. Cardinality(above(S, c)) <= Cardinality(above(S, b) \ {c})
    BY <2>2, <2>3, FS_Subset
  <2>5. Cardinality(above(S, c)) \in Nat /\ Cardinality(above(S, b)) \in Nat
    BY <1>2, FS_CardinalityType
  <2>6. QED  BY <2>3, <2>4, <2>5
<1>4. QED  BY <1>1, <1>2, <1>3

\* Every rank from the newest on is taken.
LEMMA RankTaken ==
  ASSUME NEW S, IsFiniteSet(S), S \subseteq Nat, NEW r \in 0..(Cardinality(S) - 1)
  PROVE  \E b \in S : Cardinality(above(S, b)) = r
<1> DEFINE ranks == 0..(Cardinality(S) - 1)
           rank  == [b \in S |-> Cardinality(above(S, b))]
<1>1. Cardinality(S) \in Nat /\ rank \in [S -> ranks]
  BY AboveFacts
<1>2. ASSUME NEW b \in S, NEW c \in S, rank[b] = rank[c] PROVE b = c
  <2>1. b \in Nat /\ c \in Nat
    OBVIOUS
  <2>2. b < c => Cardinality(above(S, c)) < Cardinality(above(S, b))
    BY AboveFacts
  <2>3. c < b => Cardinality(above(S, b)) < Cardinality(above(S, c))
    BY AboveFacts
  <2>4. Cardinality(above(S, b)) = Cardinality(above(S, c)) /\ Cardinality(above(S, b)) \in Nat
    BY <1>2, AboveFacts, FS_CardinalityType
  <2>5. QED  BY <2>1, <2>2, <2>3, <2>4
<1>3. rank \in Injection(S, ranks)
  BY <1>1, <1>2 DEF Injection, IsInjective
<1>4. IsFiniteSet(ranks) /\ Cardinality(ranks) = Cardinality(S)
  <2>1. 0 \in Int /\ Cardinality(S) - 1 \in Int
    BY <1>1
  <2>2. IsFiniteSet(ranks) /\ Cardinality(ranks) = IF 0 > Cardinality(S) - 1 THEN 0 ELSE (Cardinality(S) - 1) - 0 + 1
    BY <2>1, FS_Interval
  <2>3. QED  BY <1>1, <2>2
<1>5. rank \in Surjection(S, ranks)
  <2> HIDE DEF rank, ranks
  <2>1. QED  BY <1>3, <1>4, FS_Injection
<1>6. r \in ranks
  OBVIOUS
<1>7. \E b \in S : rank[b] = r
  <2> HIDE DEF rank, ranks
  <2>1. QED  BY <1>5, <1>6 DEF Surjection
<1>8. QED  BY <1>7

\* Rows that are members of S, highest first, with none skipped.
NewestOnly(S, n, rows, size) ==
  /\ rows = [k \in 1..size |-> rows[k]]
  /\ \A k \in 1..size : rows[k] \in S
  /\ \A i, k \in 1..size : i < k => rows[i] > rows[k]
  /\ \A m \in 1..size : \A b \in S : b >= rows[m] => \E k \in 1..m : rows[k] = b
  /\ Cardinality(S) <= n => \A b \in S : \E k \in 1..size : rows[k] = b

\* The newest of a set come in falling order; whatever is not older than the last
\* of the first m is among them.
LEMMA NewestFirst ==
  ASSUME NEW S, IsFiniteSet(S), S \subseteq Nat, NEW n \in Nat, NEW rows, rows = newest(S, n),
         NEW size, size = IF n <= Cardinality(S) THEN n ELSE Cardinality(S)
  PROVE  size \in Nat /\ NewestOnly(S, n, rows, size)
<1> DEFINE rank(b) == Cardinality(above(S, b))
<1>1. Cardinality(S) \in Nat /\ size \in Nat /\ size <= Cardinality(S) /\ \A b \in S : b \in Nat
  BY FS_CardinalityType
<1>2. Min({n, Cardinality(S)}) = size
  BY <1>1, MinOfTwo
<1>3. rows = [k \in 1..size |-> CHOOSE b \in S : rank(b) = k - 1]
  BY <1>2 DEF newest, above
<1>4. ASSUME NEW k \in 1..size PROVE rows[k] \in S /\ rank(rows[k]) = k - 1
  <2>1. k - 1 \in 0..(Cardinality(S) - 1)
    BY <1>1
  <2>2. \E b \in S : rank(b) = k - 1
    BY <2>1, RankTaken
  <2>3. rows[k] = CHOOSE b \in S : rank(b) = k - 1
    BY <1>3
  <2> HIDE DEF rank
  <2>4. QED  BY <2>2, <2>3
<1>5. \A b \in S : rank(b) \in 0..(Cardinality(S) - 1) /\ rank(b) \in Nat
  BY AboveFacts, FS_CardinalityType
<1>6. \A b, c \in S : b < c => rank(c) < rank(b)
  BY AboveFacts
<1>7. rows = [k \in 1..size |-> rows[k]]
  BY <1>3
<1> HIDE DEF rank
<1>8. ASSUME NEW i \in 1..size, NEW k \in 1..size, i < k PROVE rows[i] > rows[k]
  <2>1. rows[i] \in S /\ rows[k] \in S /\ rank(rows[i]) < rank(rows[k])
    BY <1>1, <1>4, <1>8
  <2>2. rows[i] \in Nat /\ rows[k] \in Nat /\ rank(rows[i]) \in Nat /\ rank(rows[k]) \in Nat
    BY <1>1, <1>5, <2>1
  <2>3. rows[i] < rows[k] => rank(rows[k]) < rank(rows[i])
    BY <1>6, <2>1
  <2>4. rows[i] # rows[k]
    BY <2>1, <2>2
  <2>5. QED  BY <2>1, <2>2, <2>3, <2>4
<1>9. ASSUME NEW b \in S, rank(b) < size PROVE rank(b) + 1 \in 1..size /\ rows[rank(b) + 1] = b
  <2>1. PICK k : k = rank(b) + 1
    OBVIOUS
  <2>2. k \in 1..size /\ k - 1 = rank(b)
    BY <1>1, <1>5, <1>9, <2>1
  <2>3. rows[k] \in S /\ rank(rows[k]) = rank(b)
    BY <1>4, <2>2
  <2>4. rows[k] \in Nat /\ b \in Nat /\ rank(b) \in Nat
    BY <1>1, <1>5, <2>3
  <2>5. (rows[k] < b => rank(b) < rank(rows[k])) /\ (b < rows[k] => rank(rows[k]) < rank(b))
    BY <1>6, <2>3
  <2>6. rows[k] = b
    BY <2>3, <2>4, <2>5
  <2>7. QED  BY <2>1, <2>2, <2>6
<1>10. ASSUME NEW m \in 1..size, NEW b \in S, b >= rows[m] PROVE \E k \in 1..m : rows[k] = b
  <2>1. rows[m] \in S /\ rank(rows[m]) = m - 1 /\ rows[m] \in Nat /\ b \in Nat /\ rank(b) \in Nat
    BY <1>1, <1>4, <1>5
  <2>2. rows[m] < b => rank(b) < rank(rows[m])
    BY <1>6, <2>1
  <2>3. rank(b) <= m - 1
    BY <1>10, <2>1, <2>2
  <2>4. rank(b) < size /\ rank(b) + 1 \in 1..m
    BY <1>1, <2>1, <2>3
  <2>5. QED  BY <1>9, <2>4
<1>11. ASSUME Cardinality(S) <= n, NEW b \in S PROVE \E k \in 1..size : rows[k] = b
  <2>1. size = Cardinality(S)
    BY <1>1, <1>11
  <2>2. rank(b) < size
    BY <1>1, <1>5, <2>1
  <2>3. QED  BY <1>9, <2>2
<1>12. QED  BY <1>1, <1>4, <1>7, <1>8, <1>10, <1>11 DEF NewestOnly

\* What a reader has got is the newest of what there was, down to its cursor.
PagesInv ==
  /\ listed \subseteq ListedBatches /\ listedAtStart \subseteq listed
  /\ pages \in Seq(ListedBatches)
  /\ \A i, k \in DOMAIN pages : i < k => pages[i] > pages[k]
  /\ pageCursor \in ListedBatches \cup {FirstPage, LastPage}
  /\ pageCursor = FirstPage => pages = <<>>
  /\ pageCursor \in ListedBatches =>
       /\ \A i \in DOMAIN pages : pages[i] >= pageCursor
       /\ \A b \in listedAtStart : b >= pageCursor => \E i \in DOMAIN pages : pages[i] = b
  /\ pageCursor = LastPage => \A b \in listedAtStart : \E i \in DOMAIN pages : pages[i] = b

LEMMA ListFacts ==
  /\ PageSize \in Nat \ {0} /\ ListedBatches \subseteq Nat /\ IsFiniteSet(ListedBatches) /\ ListedFirst \subseteq ListedBatches
  /\ FirstPage \notin ListedBatches /\ LastPage \notin ListedBatches /\ FirstPage # LastPage
<1>1. /\ PageSize \in Nat \ {0} /\ ListedBatches \subseteq Nat /\ IsFiniteSet(ListedBatches)
      /\ ListedFirst \subseteq ListedBatches
  BY ReceiptAssumption
<1>2. FirstPage \notin Nat /\ LastPage \notin Nat /\ FirstPage # LastPage
  BY DEF FirstPage, LastPage
<1>3. QED  BY <1>1, <1>2

\* What the next page is: of the batches below the cursor the newest, and a cursor
\* only if there are more.
LEMMA NextPage ==
  ASSUME PagesInv, listBatches
  PROVE  LET below == {b \in listed : pageCursor = FirstPage \/ b < pageCursor}
         IN  \E page \in Seq(ListedBatches) :
               /\ pages' = pages \o page
               /\ \A i \in DOMAIN page : page[i] \in below
               /\ \A i, k \in DOMAIN page : i < k => page[i] > page[k]
               /\ \/ /\ pageCursor' = LastPage
                     /\ \A b \in below : \E k \in DOMAIN page : page[k] = b
                  \/ /\ pageCursor' \in below
                     /\ \A i \in DOMAIN page : page[i] >= pageCursor'
                     /\ \A b \in below : b >= pageCursor' => \E k \in DOMAIN page : page[k] = b
<1>1. PICK S : S = {b \in listed : pageCursor = FirstPage \/ b < pageCursor}
  OBVIOUS
<1>2. S \subseteq listed /\ S \subseteq ListedBatches /\ S \subseteq Nat /\ IsFiniteSet(S)
  BY <1>1, ListFacts, FS_Subset DEF PagesInv
<1>3. PageSize \in Nat \ {0} /\ Cardinality(S) \in Nat
  BY <1>2, ListFacts, FS_CardinalityType
<1>4. PICK n \in Nat, size \in Nat, m \in Nat :
        /\ n = PageSize + 1 /\ size = IF n <= Cardinality(S) THEN n ELSE Cardinality(S)
        /\ m = IF PageSize <= size THEN PageSize ELSE size
  BY <1>3
<1>5. PICK rows : rows = newest(S, n)
  OBVIOUS
<1>6. /\ rows = [k \in 1..size |-> rows[k]]
      /\ \A k \in 1..size : rows[k] \in S
      /\ \A i, k \in 1..size : i < k => rows[i] > rows[k]
      /\ \A l \in 1..size : \A b \in S : b >= rows[l] => \E k \in 1..l : rows[k] = b
      /\ Cardinality(S) <= n => \A b \in S : \E k \in 1..size : rows[k] = b
  <2>1. IsFiniteSet(S) /\ S \subseteq Nat /\ n \in Nat /\ size = IF n <= Cardinality(S) THEN n ELSE Cardinality(S)
    BY <1>2, <1>4
  <2>2. NewestOnly(S, n, rows, size)
    BY <1>5, <2>1, NewestFirst
  <2>3. QED  BY <2>2 DEF NewestOnly
<1>7. rows \in Seq(S) /\ Len(rows) = size
  <2>1. rows = [k \in 1..size |-> rows[k]] /\ \A k \in 1..size : rows[k] \in S
    BY <1>6
  <2>2. PICK f : f = rows
    OBVIOUS
  <2>3. rows = [k \in 1..size |-> f[k]] /\ \A k \in 1..size : f[k] \in S
    BY <2>1, <2>2
  <2>4. size \in Nat
    BY <1>4
  <2>5. QED  BY <2>3, <2>4
<1>8. Min({PageSize, Len(rows)}) = m /\ m <= size
  <2>1. Min({PageSize, Len(rows)}) = IF PageSize <= Len(rows) THEN PageSize ELSE Len(rows)
    BY <1>3, <1>4, <1>7, MinOfTwo
  <2>2. QED  BY <1>3, <1>4, <1>7, <2>1
<1>9. PICK page : page = SubSeq(rows, 1, m)
  OBVIOUS
<1>10. /\ pages' = pages \o page
       /\ pageCursor' = IF size > PageSize THEN page[Len(page)] ELSE LastPage
  <2>1. /\ pages' = pages \o SubSeq(rows, 1, Min({PageSize, Len(rows)}))
        /\ pageCursor' = IF Len(rows) > PageSize
                           THEN SubSeq(rows, 1, Min({PageSize, Len(rows)}))[Len(SubSeq(rows, 1, Min({PageSize, Len(rows)})))]
                           ELSE LastPage
    BY <1>1, <1>4, <1>5 DEF listBatches, cursorAfter
  <2>2. QED  BY <1>7, <1>8, <1>9, <2>1
<1>11. page = [i \in 1..m |-> rows[i]]
  <2>1. 1 \in 1..(Len(rows) + 1) /\ m \in (1 - 1)..Len(rows)
    BY <1>4, <1>7, <1>8
  <2>2. Len(page) = m /\ DOMAIN page = 1..m /\ \A i \in 1..m : page[i] = rows[i]
    <3>1. SubSeq(rows, 1, m) \in Seq(S) /\ Len(SubSeq(rows, 1, m)) = m
      BY <1>4, <1>7, <1>8, <2>1, SubSeqProperties
    <3>2. \A i \in 1..m : SubSeq(rows, 1, m)[i] = rows[i]
      <4>1. \A i \in 1..(m - 1 + 1) : SubSeq(rows, 1, m)[i] = rows[1 + i - 1]
        BY <1>7, <2>1, SubSeqProperties
      <4>2. m - 1 + 1 = m /\ \A i \in 1..m : 1 + i - 1 = i
        BY <1>4
      <4>3. QED  BY <4>1, <4>2
    <3>3. QED  BY <1>4, <1>9, <3>1, <3>2
  <2>3. page = [i \in DOMAIN page |-> page[i]]
    BY <1>7, <1>9
  <2>4. QED  BY <2>2, <2>3
<1>12. \A i \in 1..m : i \in 1..size /\ rows[i] \in S /\ rows[i] \in ListedBatches /\ rows[i] \in Nat
  <2>1. ASSUME NEW i \in 1..m PROVE i \in 1..size
    BY <1>4, <1>8
  <2>2. \A i \in 1..size : rows[i] \in S
    BY <1>6
  <2>3. QED  BY <1>2, <2>1, <2>2
<1>13. page \in Seq(ListedBatches) /\ Len(page) = m /\ DOMAIN page = 1..m
  BY <1>4, <1>11, <1>12
<1>14. \A i \in DOMAIN page : page[i] \in S /\ page[i] \in Nat /\ page[i] = rows[i]
  BY <1>11, <1>12
<1>15. \A i, k \in DOMAIN page : i < k => page[i] > page[k]
  BY <1>6, <1>12, <1>13, <1>14
<1>16. CASE size > PageSize
  <2>1. m = PageSize /\ m \in 1..m /\ m \in 1..size
    BY <1>3, <1>4, <1>16
  <2>2. pageCursor' = page[m] /\ page[m] = rows[m] /\ rows[m] \in S
    BY <1>10, <1>13, <1>14, <1>16, <2>1
  <2>3. \A b \in S : b >= pageCursor' => \E k \in DOMAIN page : page[k] = b
    <3>1. ASSUME NEW b \in S, b >= rows[m] PROVE \E k \in 1..m : page[k] = b
      <4>1. PICK k \in 1..m : rows[k] = b
        BY <1>6, <2>1, <3>1
      <4>2. QED  BY <1>13, <1>14, <4>1
    <3>2. QED  BY <1>13, <2>2, <3>1
  <2>4. \A i \in DOMAIN page : page[i] >= pageCursor'
    <3>1. ASSUME NEW i \in 1..m PROVE page[i] >= page[m]
      <4>1. page[i] \in Nat /\ page[m] \in Nat
        BY <1>13, <1>14, <2>1
      <4>2. i = m \/ i < m
        OBVIOUS
      <4>3. QED  BY <1>13, <1>15, <2>1, <4>1, <4>2
    <3>2. QED  BY <1>13, <2>2, <3>1
  <2>5. pageCursor' \in S
    BY <2>2
  <2>6. QED  BY <1>1, <1>10, <1>13, <1>14, <1>15, <2>3, <2>4, <2>5
<1>17. CASE ~(size > PageSize)
  <2>1. m = size /\ size = Cardinality(S) /\ Cardinality(S) <= n
    BY <1>3, <1>4, <1>17
  <2>2. pageCursor' = LastPage
    BY <1>10, <1>17
  <2>3. \A b \in S : \E k \in DOMAIN page : page[k] = b
    BY <1>6, <1>13, <1>14, <2>1
  <2>4. QED  BY <1>1, <1>10, <1>13, <1>14, <1>15, <2>2, <2>3
<1>18. QED  BY <1>16, <1>17

LEMMA PageKeeps == ASSUME PagesInv, listBatches PROVE PagesInv'
<1>1. PICK S : S = {b \in listed : pageCursor = FirstPage \/ b < pageCursor}
  OBVIOUS
<1>2. PICK page \in Seq(ListedBatches) :
        /\ pages' = pages \o page
        /\ \A i \in DOMAIN page : page[i] \in S
        /\ \A i, k \in DOMAIN page : i < k => page[i] > page[k]
        /\ \/ /\ pageCursor' = LastPage
              /\ \A b \in S : \E k \in DOMAIN page : page[k] = b
           \/ /\ pageCursor' \in S
              /\ \A i \in DOMAIN page : page[i] >= pageCursor'
              /\ \A b \in S : b >= pageCursor' => \E k \in DOMAIN page : page[k] = b
  BY <1>1, NextPage
<1>3. /\ listed' = listed /\ pageCursor # LastPage
      /\ listedAtStart' = IF pageCursor = FirstPage THEN listed ELSE listedAtStart
  BY DEF listBatches
<1>4. pageCursor = FirstPage \/ pageCursor \in ListedBatches
  BY <1>3 DEF PagesInv
<1>5. S \subseteq listed /\ listed \subseteq ListedBatches /\ ListedBatches \subseteq Nat
  BY <1>1, ListFacts DEF PagesInv
<1>6. PICK l \in Nat, m \in Nat : l = Len(pages) /\ m = Len(page)
  BY DEF PagesInv
<1>7. DOMAIN pages = 1..l /\ DOMAIN page = 1..m
  BY <1>6 DEF PagesInv
<1>8. /\ pages' \in Seq(ListedBatches) /\ DOMAIN pages' = 1..(l + m)
      /\ \A i \in 1..l : pages'[i] = pages[i]
      /\ \A k \in 1..m : pages'[l + k] = page[k]
  BY <1>2, <1>6, <1>7 DEF PagesInv
<1>9. \A i \in DOMAIN pages : pages[i] \in ListedBatches
  BY DEF PagesInv
<1>10. \A i \in DOMAIN pages, b \in S : pages[i] > b
  <2>1. CASE pageCursor = FirstPage
    BY <2>1 DEF PagesInv
  <2>2. CASE pageCursor \in ListedBatches
    <3>1. ASSUME NEW i \in DOMAIN pages, NEW b \in S PROVE pages[i] > b
      <4>1. b < pageCursor
        BY <1>1, <2>2, ListFacts
      <4>2. pages[i] >= pageCursor
        BY <2>2 DEF PagesInv
      <4>3. pages[i] \in Nat /\ pageCursor \in Nat /\ b \in Nat
        BY <1>5, <1>9, <2>2
      <4>4. QED  BY <4>1, <4>2, <4>3
    <3>2. QED  BY <3>1
  <2>3. QED  BY <1>4, <2>1, <2>2
<1>11. ASSUME NEW i \in DOMAIN pages', NEW k \in DOMAIN pages', i < k PROVE pages'[i] > pages'[k]
  <2>1. CASE k \in 1..l
    <3>1. i \in 1..l
      BY <1>8, <1>11, <2>1
    <3>2. pages[i] > pages[k]
      BY <1>7, <1>11, <2>1, <3>1 DEF PagesInv
    <3>3. QED  BY <1>8, <2>1, <3>1, <3>2
  <2>2. CASE k \notin 1..l
    <3>1. PICK y \in 1..m : k = l + y
      <4>1. k - l \in 1..m /\ k = l + (k - l)
        BY <1>8, <2>2
      <4>2. QED  BY <4>1
    <3>2. CASE i \in 1..l
      BY <1>2, <1>7, <1>8, <1>10, <3>1, <3>2
    <3>3. CASE i \notin 1..l
      <4>1. PICK x \in 1..m : i = l + x
        <5>1. i - l \in 1..m /\ i = l + (i - l)
          BY <1>8, <3>3
        <5>2. QED  BY <5>1
      <4>2. x < y
        BY <1>11, <3>1, <4>1
      <4>3. pages'[i] = page[x] /\ pages'[k] = page[y]
        BY <1>8, <3>1, <4>1
      <4>4. page[x] > page[y]
        BY <1>2, <1>7, <4>2
      <4>5. QED  BY <4>3, <4>4
    <3>4. QED  BY <3>2, <3>3
  <2>3. QED  BY <2>1, <2>2
<1>12. \A b : (\E i \in DOMAIN pages : pages[i] = b) => \E i \in DOMAIN pages' : pages'[i] = b
  BY <1>7, <1>8
<1>13. \A b : (\E k \in DOMAIN page : page[k] = b) => \E i \in DOMAIN pages' : pages'[i] = b
  <2>1. ASSUME NEW k \in 1..m PROVE l + k \in 1..(l + m)
    OBVIOUS
  <2>2. QED  BY <1>7, <1>8, <2>1
<1>14. \A i \in DOMAIN pages' : (\E k \in DOMAIN pages : pages'[i] = pages[k]) \/ (\E k \in DOMAIN page : pages'[i] = page[k])
  <2>1. ASSUME NEW i \in 1..(l + m), i \notin 1..l PROVE \E k \in 1..m : i = l + k
    <3>1. i - l \in 1..m /\ i = l + (i - l)
      BY <2>1
    <3>2. QED  BY <3>1
  <2>2. ASSUME NEW i \in 1..(l + m)
        PROVE (\E k \in DOMAIN pages : pages'[i] = pages[k]) \/ (\E k \in DOMAIN page : pages'[i] = page[k])
    <3>1. CASE i \in 1..l
      BY <1>7, <1>8, <3>1
    <3>2. CASE i \notin 1..l
      <4>1. PICK k \in 1..m : i = l + k
        BY <2>1, <3>2
      <4>2. QED  BY <1>7, <1>8, <4>1
    <3>3. QED  BY <3>1, <3>2
  <2>3. QED  BY <1>8, <2>2
\* What was there at the start is at or above the old cursor, or below it still.
<1>15. \A b \in listedAtStart' : b \in S \/ \E i \in DOMAIN pages : pages[i] = b
  <2>1. CASE pageCursor = FirstPage
    BY <1>1, <1>3, <2>1
  <2>2. CASE pageCursor \in ListedBatches
    <3>1. ASSUME NEW b \in listedAtStart' PROVE b \in S \/ \E i \in DOMAIN pages : pages[i] = b
      <4>1. b \in listedAtStart /\ b \in listed
        BY <1>3, <2>2, ListFacts DEF PagesInv
      <4>2. b \in Nat /\ pageCursor \in Nat
        BY <1>5, <2>2, <4>1
      <4>3. CASE b < pageCursor
        BY <1>1, <4>1, <4>3
      <4>4. CASE b >= pageCursor
        BY <2>2, <4>1, <4>4 DEF PagesInv
      <4>5. QED  BY <4>2, <4>3, <4>4
    <3>2. QED  BY <3>1
  <2>3. QED  BY <1>4, <2>1, <2>2
<1>16. listed' \subseteq ListedBatches /\ listedAtStart' \subseteq listed'
  BY <1>3, <1>5 DEF PagesInv
<1>17. \A i, k \in DOMAIN pages' : i < k => pages'[i] > pages'[k]
  BY <1>11
<1>18. CASE pageCursor' = LastPage /\ \A b \in S : \E k \in DOMAIN page : page[k] = b
  <2>1. \A b \in listedAtStart' : \E i \in DOMAIN pages' : pages'[i] = b
    BY <1>12, <1>13, <1>15, <1>18
  <2>2. pageCursor' # FirstPage /\ pageCursor' \notin ListedBatches
    BY <1>18, ListFacts
  <2>3. QED  BY <1>8, <1>16, <1>17, <1>18, <2>1, <2>2 DEF PagesInv
<1>19. CASE /\ pageCursor' \in S
            /\ \A i \in DOMAIN page : page[i] >= pageCursor'
            /\ \A b \in S : b >= pageCursor' => \E k \in DOMAIN page : page[k] = b
  <2>1. pageCursor' \in ListedBatches /\ pageCursor' # FirstPage /\ pageCursor' # LastPage
    BY <1>5, <1>19, ListFacts
  <2>2. \A i \in DOMAIN pages : pages[i] >= pageCursor'
    <3>1. ASSUME NEW i \in DOMAIN pages PROVE pages[i] >= pageCursor'
      <4>1. pages[i] > pageCursor' /\ pages[i] \in Nat /\ pageCursor' \in Nat
        BY <1>5, <1>9, <1>10, <1>19, <2>1
      <4>2. QED  BY <4>1
    <3>2. QED  BY <3>1
  <2>3. \A i \in DOMAIN pages' : pages'[i] >= pageCursor'
    BY <1>14, <1>19, <2>2
  <2>4. \A b \in listedAtStart' : b >= pageCursor' => \E i \in DOMAIN pages' : pages'[i] = b
    BY <1>12, <1>13, <1>15, <1>19
  <2>5. QED  BY <1>8, <1>16, <1>17, <2>1, <2>3, <2>4 DEF PagesInv
<1>20. QED  BY <1>2, <1>18, <1>19

\* A receipt is of a job, and as built.
ReceiptInv == PagesInv /\ (receiptDone = <<>> \/ \E j \in ReceiptJobs : receiptDone = <<j, receiptOf(j)>>)

LEMMA ReceiptStart == ReceiptInit => ReceiptInv
<1> SUFFICES ASSUME ReceiptInit PROVE ReceiptInv
  OBVIOUS
<1>1. receiptDone = <<>> /\ listed = ListedFirst /\ pages = <<>> /\ pageCursor = FirstPage /\ listedAtStart = {}
  BY DEF ReceiptInit
<1>2. pages \in Seq(ListedBatches) /\ DOMAIN pages = {}
  BY <1>1
<1>3. PagesInv
  BY <1>1, <1>2, ListFacts DEF PagesInv
<1>4. QED  BY <1>1, <1>3 DEF ReceiptInv

LEMMA ReceiptStep == ReceiptInv /\ [ReceiptNext]_receiptVars => ReceiptInv'
<1> SUFFICES ASSUME ReceiptInv, [ReceiptNext]_receiptVars PROVE ReceiptInv'
  OBVIOUS
<1>1. CASE buildReceipt
  <2>1. PagesInv'
    BY <1>1 DEF buildReceipt, ReceiptInv, PagesInv
  <2>2. \E j \in ReceiptJobs : receiptDone' = <<j, receiptOf(j)>>
    BY <1>1 DEF buildReceipt
  <2>3. QED  BY <2>1, <2>2 DEF ReceiptInv
<1>2. CASE listBatches
  <2>1. PagesInv'
    BY <1>2, PageKeeps DEF ReceiptInv
  <2>2. receiptDone' = receiptDone
    BY <1>2 DEF listBatches
  <2>3. QED  BY <2>1, <2>2 DEF ReceiptInv
<1>3. ASSUME NEW b \in ListedBatches, indexed(b) PROVE ReceiptInv'
  <2>1. /\ listed' = listed \cup {b}
        /\ UNCHANGED <<receiptDone, pages, pageCursor, listedAtStart>>
    BY <1>3 DEF indexed
  <2>2. PagesInv'
    BY <2>1 DEF ReceiptInv, PagesInv
  <2>3. QED  BY <2>1, <2>2 DEF ReceiptInv
<1>4. CASE UNCHANGED receiptVars
  BY <1>4 DEF receiptVars, ReceiptInv, PagesInv
<1>5. QED  BY <1>1, <1>2, <1>3, <1>4 DEF ReceiptNext

\* What a reader is shown of a batch is what the chain did with it: its fills split
\* into netted and routed add up, it names the solution the contract kept and accepts
\* nothing but that solution and later copies of it, no baseline is
\* shown below the venue's floor, the app's scan says the same; and the pages hold
\* every batch, however many are indexed between them (receipt.ts, project.ts,
\* lib/batches.ts, routes/batches.ts).
THEOREM ReceiptAlwaysTrue == ReceiptSpec => []ReceiptTrue
<1>1. ReceiptInv => ReceiptTrue
  <2> SUFFICES ASSUME ReceiptInv PROVE ReceiptTrue
    OBVIOUS
  <2>1. ASSUME NEW d \in {receiptDone} \ {<<>>}
        PROVE  \E j \in ReceiptJobs : d = <<j, receiptOf(j)>> /\ d[1] = j /\ d[2] = receiptOf(j)
    BY <2>1 DEF ReceiptInv
  <2>2. ReceiptNamesWinner
    <3>1. ASSUME NEW j \in ReceiptJobs
          PROVE  LET best == BestAfter(j.submits, Len(j.submits))
                 IN  /\ best \in receiptOf(j).accepted
                     /\ Finalized(j) =>
                          /\ receiptOf(j).accepted = {i \in DOMAIN j.submits : j.submits[i].solution = j.submits[best].solution}
                          /\ \A i \in receiptOf(j).accepted : i >= best /\ j.submits[i].savings = j.submits[best].savings
                     /\ receiptOf(j).solver = j.submits[best].solver
      <4>1. PICK best : best = Best(j)
        OBVIOUS
      <4>2. Finalized(j) => /\ receiptOf(j).accepted = WinnerCopies(j)
                            /\ \A i \in WinnerCopies(j) : i >= best /\ j.submits[i].savings = j.submits[best].savings
        BY <4>1, WinnerShown, CopiesFollow
      <4>3. best \in receiptOf(j).accepted /\ receiptOf(j).solver = j.submits[best].solver
        BY <4>1, WinnerShown
      <4>4. best = BestAfter(j.submits, Len(j.submits))
        BY <4>1 DEF Best
      <4>5. WinnerCopies(j) = {i \in DOMAIN j.submits : j.submits[i].solution = j.submits[best].solution}
        BY <4>1 DEF WinnerCopies
      <4>6. QED  BY <4>2, <4>3, <4>4, <4>5
    <3>2. QED  BY <2>1, <3>1 DEF ReceiptNamesWinner
  <2>3. FloorsHold
    BY <2>1, FloorsShown DEF FloorsHold
  <2>4. ScanAgrees
    BY <2>1, ScanShown DEF ScanAgrees
  <2>5. AttributionAddsUp
    <3>1. ASSUME NEW d \in {receiptDone} \ {<<>>}, NEW j \in ReceiptJobs, d[1] = j, d[2] = receiptOf(j),
                 NEW sell \in directions(d[1])
          PROVE  LET ns    == directionFills(d[1], sell)
                     shown == SumFunctionOnSet([n \in DOMAIN fillRows(d[1]) |-> d[2].attribution[n].routedSell], ns)
                     least == Min({d[1].routed[sell], directionSold(d[1], sell)})
                 IN  /\ \A n \in ns : LET a == d[2].attribution[n]
                                      IN  a.routedSell >= 0 /\ a.nettedSell >= 0 /\ a.routedSell + a.nettedSell = fillRows(d[1])[n].amount
                     /\ shown <= d[1].routed[sell] /\ shown > least - Cardinality(ns)
      <4>1. ASSUME NEW n \in directionFills(j, sell)
            PROVE  LET a == receiptOf(j).attribution[n]
                   IN  a.routedSell >= 0 /\ a.nettedSell >= 0 /\ a.routedSell + a.nettedSell = fillRows(j)[n].amount
        <5>1. PICK r, a : r = routedOf(j, n) /\ a = fillRows(j)[n].amount
          OBVIOUS
        <5>2. a \in Nat /\ r \in Nat /\ r <= a /\ receiptOf(j).attribution[n].nettedSell = a - r
          BY <3>1, <5>1, FillShown
        <5>3. r >= 0 /\ a - r >= 0 /\ r + (a - r) = a
          BY <5>2
        <5>4. receiptOf(j).attribution[n].routedSell = r
          BY <5>1 DEF routedOf
        <5>5. QED  BY <5>1, <5>2, <5>3, <5>4
      <4>2. LET ns    == directionFills(j, sell)
                shown == SumFunctionOnSet([n \in DOMAIN fillRows(j) |-> receiptOf(j).attribution[n].routedSell], ns)
                least == Min({j.routed[sell], directionSold(j, sell)})
            IN  shown <= j.routed[sell] /\ shown > least - Cardinality(ns)
        BY <3>1, RoutedShown DEF routedOf
      <4>3. QED  BY <3>1, <4>1, <4>2
    <3>2. QED  BY <2>1, <3>1 DEF AttributionAddsUp
  <2>6. PagesComplete
    BY DEF PagesComplete, ReceiptInv, PagesInv
  <2>7. QED  BY <2>2, <2>3, <2>4, <2>5, <2>6 DEF ReceiptTrue
<1>2. QED  BY ReceiptStart, ReceiptStep, <1>1, PTL DEF ReceiptSpec

----------------------------------------------------------------------------
(* The logs of the indexer, in their order.                                *)

IndexTxs == {"submit A", "submit B", "finalize", "below threshold", "unwind", "expire", "open", "cross"}
IndexEvents == {"submitted", "rejected", "settled", "passthrough", "opened", "crossed"}
IndexSolvers == {"A", "B", "none"}
LogSet == [tx : IndexTxs, event : IndexEvents, solver : IndexSolvers, good : BOOLEAN, block : Nat, hash : Nat]

\* Logs in the order of their blocks.
Ordered(list) ==
  /\ list \in Seq(LogSet)
  /\ \A j, k \in DOMAIN list : j <= k => list[j].block <= list[k].block

LEMMA LogsAre ==
  ASSUME NEW list, Ordered(list)
  PROVE  /\ list \in Seq(LogSet) /\ Len(list) \in Nat /\ DOMAIN list = 1..Len(list)
         /\ \A k \in DOMAIN list : list[k] \in LogSet /\ list[k].block \in Nat
<1>1. list \in Seq(LogSet) /\ Len(list) \in Nat /\ DOMAIN list = 1..Len(list)
  BY LenProperties DEF Ordered
<1>2. \A k \in DOMAIN list : list[k] \in LogSet
  BY <1>1, ElementOfSeq
<1>3. QED  BY <1>1, <1>2 DEF LogSet

\* A stretch of positions, kept in order, is a part of the list.
LEMMA StretchOf ==
  ASSUME NEW A, NEW list \in Seq(A), NEW a \in Nat \ {0}, NEW b \in Nat, a <= b + 1, b <= Len(list)
  PROVE  inOrder(list, a..b) = SubSeq(list, a, b)
<1> DEFINE n == b - a + 1
           nth == [i \in 1..n |-> CHOOSE k \in a..b : Cardinality({j \in a..b : j <= k}) = i]
<1>1. IsFiniteSet(a..b) /\ Cardinality(a..b) = n /\ n \in Nat
  <2>1. a \in Int /\ b \in Int /\ n \in Nat
    OBVIOUS
  <2>2. n = IF a <= b THEN b - a + 1 ELSE 0
    OBVIOUS
  <2>3. QED  BY <2>1, <2>2, FS_Interval
<1>2. ASSUME NEW k \in a..b PROVE Cardinality({j \in a..b : j <= k}) = k - a + 1
  <2>1. {j \in a..b : j <= k} = a..k
    OBVIOUS
  <2>2. a \in Int /\ k \in Int /\ a <= k
    OBVIOUS
  <2>3. Cardinality(a..k) = k - a + 1
    BY <2>2, FS_Interval
  <2>4. QED  BY <2>1, <2>3
<1>3. ASSUME NEW i \in 1..n PROVE nth[i] = a + i - 1
  <2>1. a + i - 1 \in a..b /\ Cardinality({j \in a..b : j <= a + i - 1}) = i
    <3>1. a + i - 1 \in a..b
      OBVIOUS
    <3>2. Cardinality({j \in a..b : j <= a + i - 1}) = (a + i - 1) - a + 1
      BY <1>2, <3>1
    <3>3. QED  BY <3>1, <3>2
  <2>2. nth[i] \in a..b /\ Cardinality({j \in a..b : j <= nth[i]}) = i
    BY <2>1
  <2> HIDE DEF nth
  <2>3. Cardinality({j \in a..b : j <= nth[i]}) = nth[i] - a + 1
    BY <1>2, <2>2
  <2>4. i = nth[i] - a + 1 /\ nth[i] \in Int
    BY <2>2, <2>3
  <2>5. QED  BY <2>4
<1>4. inOrder(list, a..b) = [i \in 1..n |-> list[nth[i]]]
  BY <1>1 DEF inOrder
<1> HIDE DEF nth
<1>5. inOrder(list, a..b) = [i \in 1..n |-> list[a + i - 1]]
  BY <1>3, <1>4
<1>6. SubSeq(list, a, b) = [i \in 1..n |-> list[a + i - 1]]
  <2>1. \A i \in a..b : list[i] \in A
    BY LenProperties
  <2>2. /\ SubSeq(list, a, b) \in Seq(A)
        /\ Len(SubSeq(list, a, b)) = n
        /\ \A i \in 1..n : SubSeq(list, a, b)[i] = list[a + i - 1]
    BY <2>1, SubSeqProperties
  <2>3. QED  BY <2>2, LenProperties
<1>7. QED  BY <1>5, <1>6

\* Logs come in the order of their blocks, so those up to a height are the first
\* ones.
LEMMA UpToIs ==
  ASSUME NEW list, Ordered(list), NEW height \in Int
  PROVE  \E m \in 0..Len(list) :
           /\ \A k \in DOMAIN list : list[k].block <= height <=> k <= m
           /\ {k \in DOMAIN list : list[k].block <= height} = 1..m
           /\ upTo(list, height) = SubSeq(list, 1, m)
<1> DEFINE K == {k \in DOMAIN list : list[k].block <= height}
<1>1. Len(list) \in Nat /\ DOMAIN list = 1..Len(list) /\ \A k \in DOMAIN list : list[k].block \in Nat
  BY LogsAre
<1>2. \E m \in 0..Len(list) : \A k \in DOMAIN list : list[k].block <= height <=> k <= m
  <2>1. CASE K = {}
    BY <1>1, <2>1
  <2>2. CASE K # {}
    <3>1. IsFiniteSet(K)
      <4>1. 1 \in Int /\ Len(list) \in Int
        BY <1>1
      <4>2. IsFiniteSet(1..Len(list))
        BY <4>1, FS_Interval
      <4>3. K \subseteq 1..Len(list)
        BY <1>1
      <4>4. QED  BY <4>2, <4>3, FS_Subset
    <3>2. PICK m \in K : \A j \in K : j <= m
      <4>1. \A k \in K : k \in Nat
        BY <1>1
      <4> HIDE DEF K
      <4>2. QED  BY <2>2, <3>1, <4>1, LastPosition
    <3>3. ASSUME NEW k \in DOMAIN list PROVE list[k].block <= height <=> k <= m
      <4>1. k <= m => list[k].block <= list[m].block
        BY <3>2 DEF Ordered
      <4>2. QED  BY <1>1, <3>2, <4>1
    <3>4. QED  BY <1>1, <3>2, <3>3
  <2>3. QED  BY <2>1, <2>2
<1>3. PICK m \in 0..Len(list) : \A k \in DOMAIN list : list[k].block <= height <=> k <= m
  BY <1>2
<1>4. K = 1..m
  BY <1>1, <1>3
<1>5. upTo(list, height) = SubSeq(list, 1, m)
  <2>1. upTo(list, height) = inOrder(list, 1..m)
    BY <1>4 DEF upTo
  <2>2. list \in Seq(LogSet) /\ 1 \in Nat \ {0} /\ m \in Nat /\ 1 <= m + 1 /\ m <= Len(list)
    BY <1>1 DEF Ordered
  <2>3. QED  BY <2>1, <2>2, StretchOf
<1>6. QED  BY <1>3, <1>4, <1>5

\* A first part of a list of logs.
LEMMA FrontOf ==
  ASSUME NEW list, Ordered(list), NEW m \in 0..Len(list)
  PROVE  /\ Ordered(SubSeq(list, 1, m)) /\ Len(SubSeq(list, 1, m)) = m
         /\ DOMAIN SubSeq(list, 1, m) = 1..m
         /\ \A k \in 1..m : SubSeq(list, 1, m)[k] = list[k]
<1>1. list \in Seq(LogSet) /\ Len(list) \in Nat /\ DOMAIN list = 1..Len(list)
  BY LenProperties DEF Ordered
<1>2. \A i \in 1..m : list[i] \in LogSet
  BY <1>1, ElementOfSeq
<1>3. /\ SubSeq(list, 1, m) \in Seq(LogSet)
      /\ Len(SubSeq(list, 1, m)) = m
      /\ \A i \in 1..m : SubSeq(list, 1, m)[i] = list[i]
  <2>1. 1 \in Int /\ m \in Int
    OBVIOUS
  <2>2. /\ SubSeq(list, 1, m) \in Seq(LogSet)
        /\ Len(SubSeq(list, 1, m)) = IF 1 <= m THEN m - 1 + 1 ELSE 0
        /\ \A i \in 1..(m - 1 + 1) : SubSeq(list, 1, m)[i] = list[1 + i - 1]
    BY <1>2, <2>1, SubSeqProperties
  <2>3. QED  BY <2>2
<1>4. DOMAIN SubSeq(list, 1, m) = 1..m
  BY <1>3, LenProperties
<1>5. \A j, k \in 1..m : j <= k => SubSeq(list, 1, m)[j].block <= SubSeq(list, 1, m)[k].block
  BY <1>1, <1>3 DEF Ordered
<1>6. QED  BY <1>3, <1>4, <1>5 DEF Ordered

LEMMA UpToAll ==
  ASSUME NEW list, Ordered(list), NEW height \in Int, \A k \in DOMAIN list : list[k].block <= height
  PROVE  upTo(list, height) = list
<1>1. PICK m \in 0..Len(list) : /\ \A k \in DOMAIN list : list[k].block <= height <=> k <= m
                                /\ upTo(list, height) = SubSeq(list, 1, m)
  BY UpToIs
<1>2. list \in Seq(LogSet) /\ Len(list) \in Nat /\ DOMAIN list = 1..Len(list)
  BY LenProperties DEF Ordered
<1>3. m = Len(list)
  <2>1. Len(list) \in DOMAIN list => Len(list) <= m
    BY <1>1
  <2>2. Len(list) = 0 \/ Len(list) \in DOMAIN list
    BY <1>2
  <2>3. m \in Nat /\ m <= Len(list)
    BY <1>2
  <2>4. Len(list) <= m
    BY <1>2, <2>1, <2>2, <2>3
  <2>5. Len(list) \in Nat
    BY <1>2
  <2>6. QED  BY <2>3, <2>4, <2>5
<1>4. QED  BY <1>1, <1>2, <1>3, SubSeqFull

\* Cutting twice is cutting at the lower height.
LEMMA UpToTwice ==
  ASSUME NEW list, Ordered(list), NEW low \in Int, NEW high \in Int, low <= high
  PROVE  upTo(upTo(list, high), low) = upTo(list, low)
<1>1. PICK m \in 0..Len(list) : /\ \A k \in DOMAIN list : list[k].block <= high <=> k <= m
                                /\ upTo(list, high) = SubSeq(list, 1, m)
  BY UpToIs
<1>2. PICK n \in 0..Len(list) : /\ \A k \in DOMAIN list : list[k].block <= low <=> k <= n
                                /\ upTo(list, low) = SubSeq(list, 1, n)
  BY UpToIs
<1> DEFINE front == SubSeq(list, 1, m)
<1>3. list \in Seq(LogSet) /\ Len(list) \in Nat /\ DOMAIN list = 1..Len(list) /\ \A k \in DOMAIN list : list[k].block \in Nat
  BY LogsAre
<1>4. n <= m
  <2> SUFFICES ASSUME n > m PROVE FALSE
    BY <1>1, <1>2, <1>3
  <2>1. n \in DOMAIN list /\ list[n].block <= low
    BY <1>1, <1>2, <1>3
  <2>2. list[n].block <= high
    BY <1>3, <2>1
  <2>3. QED  BY <1>1, <2>1, <2>2
<1>5. Ordered(front) /\ Len(front) = m /\ DOMAIN front = 1..m /\ \A k \in 1..m : front[k] = list[k]
  BY FrontOf
<1> HIDE DEF front
<1>6. PICK p \in 0..Len(front) : /\ \A k \in DOMAIN front : front[k].block <= low <=> k <= p
                                 /\ upTo(front, low) = SubSeq(front, 1, p)
  BY <1>5, UpToIs
<1>7. p = n
  <2>1. \A k \in 1..m : k <= n <=> k <= p
    <3> SUFFICES ASSUME NEW k \in 1..m PROVE k <= n <=> k <= p
      OBVIOUS
    <3>1. k \in DOMAIN list /\ front[k] = list[k] /\ k \in DOMAIN front
      BY <1>3, <1>5
    <3>2. list[k].block <= low <=> k <= n
      BY <1>2, <3>1
    <3>3. front[k].block <= low <=> k <= p
      BY <1>6, <3>1
    <3>4. QED  BY <3>1, <3>2, <3>3
  <2>2. p \in 0..m /\ n \in 0..m
    BY <1>2, <1>4, <1>5, <1>6
  <2>3. QED  BY <2>1, <2>2
<1>8. SubSeq(front, 1, n) = SubSeq(list, 1, n)
  <2>1. /\ Ordered(SubSeq(front, 1, n)) /\ Len(SubSeq(front, 1, n)) = n /\ \A k \in 1..n : SubSeq(front, 1, n)[k] = front[k]
    BY <1>4, <1>5, FrontOf
  <2>2. /\ Ordered(SubSeq(list, 1, n)) /\ Len(SubSeq(list, 1, n)) = n /\ \A k \in 1..n : SubSeq(list, 1, n)[k] = list[k]
    BY FrontOf
  <2>3. \A k \in 1..n : SubSeq(front, 1, n)[k] = SubSeq(list, 1, n)[k]
    BY <1>4, <1>5, <2>1, <2>2
  <2>4. QED  BY <2>1, <2>2, <2>3, SeqEqual DEF Ordered
<1>9. QED  BY <1>1, <1>2, <1>6, <1>7, <1>8 DEF front

\* Two ordered lists, the second above the first, join to an ordered one.
LEMMA JoinOf ==
  ASSUME NEW s, Ordered(s), NEW t, Ordered(t), \A j \in DOMAIN s, k \in DOMAIN t : s[j].block <= t[k].block
  PROVE  /\ Ordered(s \o t) /\ DOMAIN (s \o t) = 1..(Len(s) + Len(t)) /\ Len(s \o t) = Len(s) + Len(t)
         /\ \A k \in DOMAIN s : k \in DOMAIN (s \o t) /\ (s \o t)[k] = s[k]
         /\ \A k \in DOMAIN t : Len(s) + k \in DOMAIN (s \o t) /\ (s \o t)[Len(s) + k] = t[k]
         /\ \A k \in DOMAIN (s \o t) : k \in DOMAIN s \/ (k > Len(s) /\ k - Len(s) \in DOMAIN t /\ (s \o t)[k] = t[k - Len(s)])
<1>1. s \in Seq(LogSet) /\ Len(s) \in Nat /\ DOMAIN s = 1..Len(s)
  BY LogsAre
<1>2. t \in Seq(LogSet) /\ Len(t) \in Nat /\ DOMAIN t = 1..Len(t)
  BY LogsAre
<1> DEFINE u == s \o t
           a == Len(s)
           b == Len(t)
<1>3. /\ u \in Seq(LogSet) /\ Len(u) = a + b
      /\ \A i \in 1..(a + b) : u[i] = IF i <= a THEN s[i] ELSE t[i - a]
  BY <1>1, <1>2, ConcatProperties
<1>4. DOMAIN u = 1..(a + b)
  BY <1>3, LenProperties
<1> HIDE DEF u
<1>5. a \in Nat /\ b \in Nat /\ DOMAIN s = 1..a /\ DOMAIN t = 1..b
  BY <1>1, <1>2
<1> HIDE DEF a, b
<1>6. \A k \in 1..a : k \in DOMAIN u /\ u[k] = s[k]
  BY <1>3, <1>4, <1>5
<1>7. \A k \in 1..b : a + k \in DOMAIN u /\ u[a + k] = t[k]
  <2>1. ASSUME NEW k \in 1..b, NEW i, i = a + k PROVE i \in DOMAIN u /\ u[i] = t[k]
    <3>1. i \in 1..(a + b) /\ ~(i <= a) /\ i - a = k
      BY <1>5, <2>1
    <3>2. u[i] = t[i - a]
      BY <1>3, <3>1
    <3>3. QED  BY <1>4, <3>1, <3>2
  <2>2. QED  BY <2>1
<1>8. \A k \in 1..(a + b) : k \in 1..a \/ (k > a /\ k - a \in 1..b /\ u[k] = t[k - a])
  <2> SUFFICES ASSUME NEW k \in 1..(a + b), ~(k \in 1..a) PROVE k > a /\ k - a \in 1..b /\ u[k] = t[k - a]
    OBVIOUS
  <2>1. k > a /\ k - a \in 1..b /\ ~(k <= a)
    BY <1>5
  <2>2. QED  BY <1>3, <2>1
<1>9. ASSUME NEW j \in 1..(a + b), NEW k \in 1..(a + b), j <= k PROVE u[j].block <= u[k].block
  <2>1. CASE j \in 1..a /\ k \in 1..a
    BY <1>5, <1>6, <1>9, <2>1 DEF Ordered
  <2>2. CASE j \in 1..a /\ ~(k \in 1..a)
    BY <1>5, <1>6, <1>8, <2>2
  <2>3. CASE ~(j \in 1..a)
    <3>1. ~(k \in 1..a)
      BY <1>5, <1>9, <2>3
    <3>2. j - a \in 1..b /\ k - a \in 1..b /\ u[j] = t[j - a] /\ u[k] = t[k - a]
      BY <1>8, <2>3, <3>1
    <3>3. j - a <= k - a
      BY <1>5, <1>9
    <3>4. QED  BY <1>5, <3>2, <3>3 DEF Ordered
  <2>4. QED  BY <2>1, <2>2, <2>3
<1>10. Ordered(u)
  BY <1>3, <1>4, <1>9 DEF Ordered
<1>11. QED  BY <1>3, <1>4, <1>5, <1>6, <1>7, <1>8, <1>10 DEF u, a, b

LEMMA UpToJoined ==
  ASSUME NEW s, Ordered(s), NEW t, Ordered(t), NEW height \in Int,
         \A j \in DOMAIN s, k \in DOMAIN t : s[j].block <= t[k].block,
         \A k \in DOMAIN t : t[k].block > height
  PROVE  upTo(s \o t, height) = upTo(s, height)
<1> DEFINE u == s \o t
<1>1. /\ Ordered(u) /\ DOMAIN u = 1..(Len(s) + Len(t)) /\ Len(u) = Len(s) + Len(t)
      /\ \A k \in DOMAIN s : k \in DOMAIN u /\ u[k] = s[k]
      /\ \A k \in DOMAIN u : k \in DOMAIN s \/ (k > Len(s) /\ k - Len(s) \in DOMAIN t /\ u[k] = t[k - Len(s)])
  BY JoinOf
<1> HIDE DEF u
<1>2. Len(s) \in Nat /\ DOMAIN s = 1..Len(s)
  BY LogsAre
<1>3. Len(t) \in Nat /\ DOMAIN t = 1..Len(t) /\ \A k \in DOMAIN t : t[k].block \in Nat
  BY LogsAre
<1>4. PICK m \in 0..Len(u) : /\ \A k \in DOMAIN u : u[k].block <= height <=> k <= m
                             /\ upTo(u, height) = SubSeq(u, 1, m)
  BY <1>1, UpToIs
<1>5. PICK n \in 0..Len(s) : /\ \A k \in DOMAIN s : s[k].block <= height <=> k <= n
                             /\ upTo(s, height) = SubSeq(s, 1, n)
  BY UpToIs
<1>6. m \in Nat /\ n \in Nat /\ n <= Len(s) /\ m <= Len(s) + Len(t)
  BY <1>1, <1>2, <1>3
<1>7. m <= Len(s)
  <2> SUFFICES ASSUME m > Len(s) PROVE FALSE
    BY <1>2, <1>6
  <2>1. m \in DOMAIN u /\ ~(m \in DOMAIN s)
    BY <1>1, <1>2, <1>3, <1>6
  <2>2. u[m].block <= height
    BY <1>4, <1>6, <2>1
  <2>3. m - Len(s) \in DOMAIN t /\ u[m] = t[m - Len(s)]
    BY <1>1, <2>1
  <2>4. QED  BY <1>3, <2>2, <2>3
<1>8. m = n
  <2>1. \A k \in 1..Len(s) : k <= m <=> k <= n
    BY <1>1, <1>2, <1>4, <1>5
  <2>2. QED  BY <1>2, <1>6, <1>7, <2>1
<1>9. Ordered(SubSeq(u, 1, m)) /\ Len(SubSeq(u, 1, m)) = m /\ \A k \in 1..m : SubSeq(u, 1, m)[k] = u[k]
  BY <1>1, <1>4, FrontOf
<1>10. Ordered(SubSeq(s, 1, m)) /\ Len(SubSeq(s, 1, m)) = m /\ \A k \in 1..m : SubSeq(s, 1, m)[k] = s[k]
  BY <1>5, <1>8, FrontOf
<1>11. \A k \in 1..m : u[k] = s[k]
  BY <1>1, <1>2, <1>6, <1>7
<1>12. SubSeq(u, 1, m) = SubSeq(s, 1, m)
  BY <1>9, <1>10, <1>11, SeqEqual DEF Ordered
<1>13. QED  BY <1>4, <1>5, <1>8, <1>12 DEF u

Between(list, from, to) == inOrder(list, {k \in DOMAIN list : from <= list[k].block /\ list[k].block <= to})

\* What is below a height splits at any lower one: what a store has, and the next
\* range.
LEMMA UpToSplit ==
  ASSUME NEW list, Ordered(list), NEW from \in Int, NEW to \in Int, from <= to + 1
  PROVE  /\ upTo(list, to) = upTo(list, from - 1) \o Between(list, from, to)
         /\ Ordered(Between(list, from, to))
         /\ \A k \in DOMAIN Between(list, from, to) :
              \E i \in DOMAIN list : Between(list, from, to)[k] = list[i] /\ from <= list[i].block /\ list[i].block <= to
<1> DEFINE K == {k \in DOMAIN list : from <= list[k].block /\ list[k].block <= to}
           between == inOrder(list, K)
<1>1. list \in Seq(LogSet) /\ Len(list) \in Nat /\ DOMAIN list = 1..Len(list) /\ \A k \in DOMAIN list : list[k].block \in Nat
  BY LogsAre
<1>2. PICK m \in 0..Len(list) : /\ \A k \in DOMAIN list : list[k].block <= to <=> k <= m
                                /\ upTo(list, to) = SubSeq(list, 1, m)
  BY UpToIs
<1>3. PICK n \in 0..Len(list) : /\ \A k \in DOMAIN list : list[k].block <= from - 1 <=> k <= n
                                /\ upTo(list, from - 1) = SubSeq(list, 1, n)
  <2>1. from - 1 \in Int
    OBVIOUS
  <2>2. QED  BY <2>1, UpToIs
<1>4. m \in Nat /\ n \in Nat /\ n <= Len(list) /\ m <= Len(list)
  BY <1>1
<1>5. n <= m
  <2> SUFFICES ASSUME n > m PROVE FALSE
    BY <1>4
  <2>1. n \in DOMAIN list /\ list[n].block <= from - 1
    BY <1>1, <1>3, <1>4
  <2>2. list[n].block <= to
    BY <1>1, <2>1
  <2>3. QED  BY <1>2, <2>1, <2>2
<1>6. K = (n + 1)..m
  <2>1. \A k \in DOMAIN list : from <= list[k].block <=> ~(list[k].block <= from - 1)
    BY <1>1
  <2>2. \A k \in DOMAIN list : k \in K <=> (~(k <= n) /\ k <= m)
    BY <1>2, <1>3, <2>1
  <2>3. QED  BY <1>1, <1>4, <2>2
<1>7. between = SubSeq(list, n + 1, m)
  <2>1. n + 1 \in Nat \ {0} /\ n + 1 <= m + 1
    BY <1>4, <1>5
  <2>2. QED  BY <1>1, <1>4, <1>6, <2>1, StretchOf
<1>8. upTo(list, to) = upTo(list, from - 1) \o between
  <2>1. 1 \in 1..(Len(list) + 1) /\ n \in (1 - 1)..Len(list) /\ m \in n..Len(list)
    BY <1>1, <1>4, <1>5
  <2>2. SubSeq(list, 1, n) \o SubSeq(list, n + 1, m) = SubSeq(list, 1, m)
    BY <1>1, <2>1, ConcatAdjacentSubSeq
  <2>3. QED  BY <1>2, <1>3, <1>7, <2>2
<1>9. /\ between \in Seq(LogSet) /\ Len(between) = m - n
      /\ \A i \in 1..(m - n) : between[i] = list[n + i]
  <2>1. \A i \in (n + 1)..m : list[i] \in LogSet
    BY <1>1, <1>4, LogsAre
  <2>2. n + 1 \in Int /\ m \in Int
    BY <1>4
  <2>3. /\ SubSeq(list, n + 1, m) \in Seq(LogSet)
        /\ Len(SubSeq(list, n + 1, m)) = IF n + 1 <= m THEN m - (n + 1) + 1 ELSE 0
        /\ \A i \in 1..(m - (n + 1) + 1) : SubSeq(list, n + 1, m)[i] = list[n + 1 + i - 1]
    BY <2>1, <2>2, SubSeqProperties
  <2>4. m - (n + 1) + 1 = m - n /\ (IF n + 1 <= m THEN m - (n + 1) + 1 ELSE 0) = m - n
    BY <1>4, <1>5
  <2>5. \A i \in 1..(m - n) : n + 1 + i - 1 = n + i
    BY <1>4
  <2>6. QED  BY <1>7, <2>3, <2>4, <2>5
<1> HIDE DEF between
<1>10. DOMAIN between = 1..(m - n)
  BY <1>9, LenProperties
<1>11. \A i \in 1..(m - n) : n + i \in DOMAIN list /\ n + i \in K
  BY <1>1, <1>4, <1>6
<1>12. Ordered(between)
  <2>1. \A j, k \in 1..(m - n) : j <= k => list[n + j].block <= list[n + k].block
    BY <1>4, <1>11 DEF Ordered
  <2>2. QED  BY <1>9, <1>10, <2>1 DEF Ordered
<1>13. \A k \in DOMAIN between : \E i \in DOMAIN list : between[k] = list[i] /\ from <= list[i].block /\ list[i].block <= to
  BY <1>9, <1>10, <1>11
<1>14. QED  BY <1>8, <1>12, <1>13 DEF between, Between

----------------------------------------------------------------------------
(* The tables that logs become, one log after the other.                   *)

\* h solves the recursion over the first n logs.
FoldSolves(tables, logs, n, h) ==
  h = [k \in 0..n |-> IF k = 0 THEN tables ELSE project(h[k - 1], logs[k])]

\* The tables after all logs, by the recursion they are the last value of.
LEMMA ProjectedUnfold ==
  ASSUME NEW tables, NEW logs
  PROVE  Projected(tables, logs) = (CHOOSE h : FoldSolves(tables, logs, Len(logs), h))[Len(logs)]
BY DEF Projected, FoldSolves

LEMMA FoldStep ==
  ASSUME NEW tables, NEW logs, NEW n \in Nat, NEW h, FoldSolves(tables, logs, n, h)
  PROVE  h[0] = tables /\ \A k \in 1..n : h[k] = project(h[k - 1], logs[k])
BY DEF FoldSolves

\* Every list has such a solution, by the first length that would have none.
LEMMA FoldExists ==
  ASSUME NEW tables, NEW logs, NEW n \in Nat
  PROVE  \E h : FoldSolves(tables, logs, n, h)
<1> DEFINE Bad == {m \in 0..n : ~ \E h : FoldSolves(tables, logs, m, h)}
<1> SUFFICES ASSUME Bad # {} PROVE FALSE
  OBVIOUS
<1>1. PICK m \in Bad : \A j \in Bad : m <= j
  <2>1. Bad \subseteq 0..n
    OBVIOUS
  <2> HIDE DEF Bad
  <2>2. QED  BY <2>1, FirstOf
<1>2. CASE m = 0
  <2>1. [k \in 0..0 |-> IF k = 0 THEN tables ELSE project([i \in 0..0 |-> tables][k - 1], logs[k])] = [i \in 0..0 |-> tables]
    OBVIOUS
  <2>2. FoldSolves(tables, logs, 0, [i \in 0..0 |-> tables])
    BY <2>1 DEF FoldSolves
  <2>3. QED  BY <1>1, <1>2, <2>2
<1>3. CASE m # 0
  <2>1. m - 1 \in 0..n /\ m \in Nat /\ ~(m - 1 \in Bad)
    BY <1>1, <1>3
  <2>2. PICK g : FoldSolves(tables, logs, m - 1, g)
    BY <2>1
  <2>3. g[0] = tables /\ \A k \in 1..(m - 1) : g[k] = project(g[k - 1], logs[k])
    <3>1. m - 1 \in Nat
      BY <2>1
    <3>2. QED  BY <2>2, <3>1, FoldStep
  <2> DEFINE h == [k \in 0..m |-> IF k = m THEN project(g[m - 1], logs[m]) ELSE g[k]]
  <2>4. \A k \in 0..m : h[k] = IF k = 0 THEN tables ELSE project(h[k - 1], logs[k])
    <3> SUFFICES ASSUME NEW k \in 0..m PROVE h[k] = IF k = 0 THEN tables ELSE project(h[k - 1], logs[k])
      OBVIOUS
    <3>1. CASE k = 0
      BY <1>3, <2>1, <2>3, <3>1
    <3>2. CASE k = m
      <4>1. h[m] = project(g[m - 1], logs[m]) /\ h[m - 1] = g[m - 1]
        BY <2>1
      <4>2. QED  BY <1>3, <3>2, <4>1
    <3>3. CASE k # 0 /\ k # m
      <4>1. k \in 1..(m - 1) /\ h[k] = g[k] /\ h[k - 1] = g[k - 1]
        BY <2>1, <3>3
      <4>2. QED  BY <2>3, <3>3, <4>1
    <3>4. QED  BY <3>1, <3>2, <3>3
  <2>5. h = [k \in 0..m |-> h[k]]
    OBVIOUS
  <2> HIDE DEF h
  <2>6. FoldSolves(tables, logs, m, h)
    BY <2>4, <2>5 DEF FoldSolves
  <2>7. QED  BY <1>1, <2>6
<1>4. QED  BY <1>2, <1>3

\* Two folds that begin alike agree for as long as their logs do.
LEMMA FoldsAgree ==
  ASSUME NEW tables, NEW s, NEW t, NEW n \in Nat, NEW m \in Nat, NEW g, NEW h,
         FoldSolves(tables, s, n, g), FoldSolves(tables, t, m, h),
         NEW p \in Nat, p <= n, p <= m, \A k \in 1..p : s[k] = t[k]
  PROVE  g[p] = h[p]
<1> DEFINE Bad == {k \in 0..p : g[k] # h[k]}
<1>1. ASSUME Bad # {} PROVE FALSE
  <2>1. PICK k \in Bad : \A j \in Bad : k <= j
    <3>1. Bad \subseteq 0..p
      OBVIOUS
    <3> HIDE DEF Bad
    <3>2. QED  BY <1>1, <3>1, FirstOf
  <2>2. /\ g[0] = tables /\ \A i \in 1..n : g[i] = project(g[i - 1], s[i])
        /\ h[0] = tables /\ \A i \in 1..m : h[i] = project(h[i - 1], t[i])
    BY FoldStep
  <2>3. k # 0 /\ k \in 1..p
    BY <2>1, <2>2
  <2>4. k - 1 \in 0..p /\ ~(k - 1 \in Bad)
    BY <2>1, <2>3
  <2>5. g[k - 1] = h[k - 1] /\ s[k] = t[k]
    BY <2>3, <2>4
  <2>6. g[k] = project(g[k - 1], s[k]) /\ h[k] = project(h[k - 1], t[k])
    BY <2>2, <2>3
  <2>7. QED  BY <2>1, <2>5, <2>6
<1>2. p \in 0..p
  OBVIOUS
<1>3. QED  BY <1>1, <1>2

LEMMA ProjectedIs ==
  ASSUME NEW tables, NEW logs, Len(logs) \in Nat
  PROVE  \E h : FoldSolves(tables, logs, Len(logs), h) /\ Projected(tables, logs) = h[Len(logs)]
<1>1. FoldSolves(tables, logs, Len(logs), CHOOSE h : FoldSolves(tables, logs, Len(logs), h))
  BY FoldExists
<1>2. QED  BY <1>1, ProjectedUnfold

LEMMA ProjectedNone == ASSUME NEW tables PROVE Projected(tables, <<>>) = tables
<1>1. Len(<<>>) = 0
  OBVIOUS
<1>2. PICK h : FoldSolves(tables, <<>>, 0, h) /\ Projected(tables, <<>>) = h[0]
  BY <1>1, ProjectedIs
<1>3. QED  BY <1>2, FoldStep

\* Projecting range after range is projecting all at once.
LEMMA ProjectedJoined ==
  ASSUME NEW A, NEW s \in Seq(A), NEW t \in Seq(A), NEW tables
  PROVE  Projected(tables, s \o t) = Projected(Projected(tables, s), t)
<1> DEFINE u == s \o t
           a == Len(s)
           b == Len(t)
           n == a + b
<1>1. a \in Nat /\ b \in Nat /\ Len(u) = n /\ n \in Nat /\ a <= n
  BY LenProperties, ConcatProperties
<1>2. \A i \in 1..(a + b) : u[i] = IF i <= a THEN s[i] ELSE t[i - a]
  BY ConcatProperties
<1>3. PICK h : FoldSolves(tables, u, n, h) /\ Projected(tables, u) = h[n]
  <2> HIDE DEF u, a, b, n
  <2>1. QED  BY <1>1, ProjectedIs
<1>4. PICK g : FoldSolves(tables, s, a, g) /\ Projected(tables, s) = g[a]
  BY <1>1, ProjectedIs
<1>5. PICK f : FoldSolves(Projected(tables, s), t, b, f) /\ Projected(Projected(tables, s), t) = f[b]
  BY <1>1, ProjectedIs
<1>11. n = a + b
  OBVIOUS
<1> HIDE DEF u, a, b, n
<1>6. g[a] = h[a]
  <2>1. a <= a
    BY <1>1
  <2>2. \A k \in 1..a : s[k] = u[k]
    BY <1>1, <1>2, <1>11
  <2>3. QED  BY <1>1, <1>3, <1>4, <2>1, <2>2, FoldsAgree
<1> DEFINE Bad == {k \in 0..b : h[a + k] # f[k]}
<1>7. ASSUME Bad # {} PROVE FALSE
  <2>1. PICK k \in Bad : \A j \in Bad : k <= j
    <3>1. Bad \subseteq 0..b
      OBVIOUS
    <3> HIDE DEF Bad
    <3>2. QED  BY <1>1, <1>7, <3>1, FirstOf
  <2>2. f[0] = Projected(tables, s) /\ \A i \in 1..b : f[i] = project(f[i - 1], t[i])
    BY <1>1, <1>5, FoldStep
  <2>3. \A i \in 1..(a + b) : h[i] = project(h[i - 1], u[i])
    <3>1. \A i \in 1..n : h[i] = project(h[i - 1], u[i])
      BY <1>1, <1>3, FoldStep
    <3>2. QED  BY <1>11, <3>1
  <2>4. k # 0
    <3> SUFFICES ASSUME k = 0 PROVE FALSE
      OBVIOUS
    <3>1. h[a + 0] # f[0]
      BY <2>1
    <3>2. a + 0 = a
      BY <1>1
    <3>3. QED  BY <1>4, <1>6, <2>2, <3>1, <3>2
  <2>5. k \in 1..b /\ k - 1 \in 0..b /\ ~(k - 1 \in Bad)
    BY <1>1, <2>1, <2>4
  <2>6. h[a + (k - 1)] = f[k - 1]
    BY <2>5
  <2> DEFINE i == a + k
  <2>7. i \in 1..(a + b) /\ ~(i <= a) /\ i - a = k /\ i - 1 = a + (k - 1)
    BY <1>1, <2>5
  <2> HIDE DEF i
  <2>8. u[i] = t[k]
    BY <1>2, <2>7
  <2>9. h[i] = project(h[i - 1], u[i])
    BY <2>3, <2>7
  <2>10. h[i] = f[k]
    BY <2>2, <2>5, <2>6, <2>7, <2>8, <2>9
  <2>11. QED  BY <2>1, <2>10 DEF i
<1>8. b \in 0..b
  BY <1>1
<1>9. h[n] = f[b]
  BY <1>7, <1>8, <1>11
<1>10. QED  BY <1>3, <1>5, <1>9 DEF u

----------------------------------------------------------------------------
(* What the rows say of the logs they come from.                           *)

SolutionSet == [tx : IndexTxs, solver : IndexSolvers, accepted : BOOLEAN, block : Nat]
Ending == {"settled", "passthrough"}

\* The rows after the first n logs.
RowsSay(logs, n, tables) ==
  /\ tables.batch = NoRow <=> \A k \in 1..n : logs[k].event \notin Ending
  /\ tables.batch.outcome = "settled" =>
       \E k \in 1..n : logs[k].event = "settled" /\ logs[k].solver = tables.batch.solver /\ logs[k].block = tables.batch.block
  /\ tables.batch.outcome \in {"passthrough", "expired"} => \E k \in 1..n : logs[k].event = "passthrough"
  /\ tables.solutions \in Seq(SolutionSet)
  /\ \A i \in 1..Len(tables.solutions) :
       \E k \in 1..n : logs[k].event = "submitted" /\ logs[k].block = tables.solutions[i].block

LEMMA RowsBegin == ASSUME NEW logs PROVE RowsSay(logs, 0, NoTables)
BY DEF RowsSay, NoTables, NoRow

\* One more log, one more projection.
LEMMA RowsStep ==
  ASSUME NEW logs, NEW n \in Nat, NEW tables, RowsSay(logs, n, tables), logs[n + 1] \in LogSet
  PROVE  RowsSay(logs, n + 1, project(tables, logs[n + 1]))
<1> DEFINE l == logs[n + 1]
           row == tables.batch
           rows == tables.solutions
           new == batchRow(row, l)
           more == solutionRows(rows, l)
<1>1. \A k \in 1..(n + 1) : k \in 1..n \/ k = n + 1
  OBVIOUS
<1>2. n + 1 \in 1..(n + 1) /\ \A k \in 1..n : k \in 1..(n + 1)
  OBVIOUS
<1>3. project(tables, l).batch = new /\ project(tables, l).solutions = more
  BY DEF project
<1>4. row = NoRow <=> \A k \in 1..n : logs[k].event \notin Ending
  BY DEF RowsSay
<1>5. new = NoRow <=> row = NoRow /\ l.event \notin Ending
  BY DEF batchRow, NoRow, Ending
<1>6. new = NoRow <=> \A k \in 1..(n + 1) : logs[k].event \notin Ending
  BY <1>1, <1>2, <1>4, <1>5
<1>7. ASSUME new.outcome = "settled"
      PROVE  \E k \in 1..(n + 1) : logs[k].event = "settled" /\ logs[k].solver = new.solver /\ logs[k].block = new.block
  <2>1. CASE l.event = "settled"
    <3>1. new.solver = l.solver /\ new.block = l.block
      BY <2>1 DEF batchRow
    <3>2. QED  BY <1>2, <2>1, <3>1
  <2>2. CASE l.event # "settled"
    <3>1. new = row
      BY <1>7, <2>2 DEF batchRow
    <3>2. QED  BY <1>2, <1>7, <3>1 DEF RowsSay
  <2>3. QED  BY <2>1, <2>2
<1>8. ASSUME new.outcome \in {"passthrough", "expired"}
      PROVE  \E k \in 1..(n + 1) : logs[k].event = "passthrough"
  <2>1. CASE l.event = "passthrough"
    BY <1>2, <2>1
  <2>2. CASE l.event # "passthrough"
    <3>1. new = row
      BY <1>8, <2>2 DEF batchRow
    <3>2. QED  BY <1>2, <1>8, <3>1 DEF RowsSay
  <2>3. QED  BY <2>1, <2>2
<1>9. rows \in Seq(SolutionSet) /\ Len(rows) \in Nat /\ DOMAIN rows = 1..Len(rows) /\ \A i \in 1..Len(rows) : rows[i] \in SolutionSet
  BY LenProperties, ElementOfSeq DEF RowsSay
<1>10. \A i \in 1..Len(rows) : \E k \in 1..(n + 1) : logs[k].event = "submitted" /\ logs[k].block = rows[i].block
  BY <1>2 DEF RowsSay
<1>11. /\ more \in Seq(SolutionSet)
       /\ \A i \in 1..Len(more) : \E k \in 1..(n + 1) : logs[k].event = "submitted" /\ logs[k].block = more[i].block
  <2>1. CASE l.event = "submitted"
    <3> DEFINE e == [tx |-> l.tx, solver |-> l.solver, accepted |-> TRUE, block |-> l.block]
    <3>1. more = Append(rows, e) /\ e \in SolutionSet
      BY <2>1 DEF solutionRows, SolutionSet, LogSet
    <3>2. more \in Seq(SolutionSet) /\ Len(more) = Len(rows) + 1
          /\ \A i \in 1..(Len(rows) + 1) : more[i] = IF i <= Len(rows) THEN rows[i] ELSE e
      BY <1>9, <3>1
    <3>3. e.block = l.block
      OBVIOUS
    <3> HIDE DEF e, more
    <3>4. ASSUME NEW i \in 1..Len(more) PROVE \E k \in 1..(n + 1) : logs[k].event = "submitted" /\ logs[k].block = more[i].block
      <4>1. CASE i <= Len(rows)
        BY <1>9, <1>10, <3>2, <4>1
      <4>2. CASE ~(i <= Len(rows))
        BY <1>2, <1>9, <2>1, <3>2, <3>3, <4>2
      <4>3. QED  BY <4>1, <4>2
    <3>5. QED  BY <3>2, <3>4
  <2>2. CASE l.event = "rejected"
    <3> DEFINE at(k) == IF rows[k].tx = l.tx /\ rows[k].solver = l.solver THEN [rows[k] EXCEPT !.accepted = FALSE] ELSE rows[k]
    <3>1. more = [k \in 1..Len(rows) |-> at(k)]
      BY <2>2 DEF solutionRows
    <3>2. \A k \in 1..Len(rows) : at(k) \in SolutionSet /\ at(k).block = rows[k].block
      BY <1>9 DEF SolutionSet
    <3> HIDE DEF at, more
    <3>3. more \in Seq(SolutionSet) /\ Len(more) = Len(rows) /\ \A i \in 1..Len(rows) : more[i] = at(i)
      <4>1. more \in [1..Len(rows) -> SolutionSet]
        BY <3>1, <3>2
      <4>2. more \in Seq(SolutionSet) /\ DOMAIN more = 1..Len(rows)
        BY <1>9, <4>1
      <4>3. QED  BY <1>9, <3>1, <4>1, <4>2
    <3>4. QED  BY <1>10, <3>2, <3>3
  <2>3. CASE l.event \notin {"submitted", "rejected"}
    <3>1. more = rows
      BY <2>3 DEF solutionRows
    <3>2. QED  BY <1>9, <1>10, <3>1
  <2>4. QED  BY <2>1, <2>2, <2>3
<1> HIDE DEF new, more
<1>12. QED  BY <1>3, <1>6, <1>7, <1>8, <1>11 DEF RowsSay

LEMMA RowsOf ==
  ASSUME NEW logs \in Seq(LogSet)
  PROVE  RowsSay(logs, Len(logs), Projected(NoTables, logs))
<1> DEFINE n == Len(logs)
<1>1. n \in Nat /\ \A k \in 1..n : logs[k] \in LogSet
  BY LenProperties, ElementOfSeq
<1>2. PICK h : FoldSolves(NoTables, logs, n, h) /\ Projected(NoTables, logs) = h[n]
  BY <1>1, ProjectedIs
<1> HIDE DEF n
<1>3. h[0] = NoTables /\ \A k \in 1..n : h[k] = project(h[k - 1], logs[k])
  BY <1>1, <1>2, FoldStep
<1> DEFINE Bad == {k \in 0..n : ~RowsSay(logs, k, h[k])}
<1>4. ASSUME Bad # {} PROVE FALSE
  <2>1. PICK k \in Bad : \A j \in Bad : k <= j
    <3>1. Bad \subseteq 0..n
      OBVIOUS
    <3> HIDE DEF Bad
    <3>2. QED  BY <1>1, <1>4, <3>1, FirstOf
  <2>2. k # 0
    BY <1>3, <2>1, RowsBegin
  <2> DEFINE j == k - 1
  <2>3. j \in Nat /\ j \in 0..n /\ k = j + 1 /\ j + 1 \in 1..n /\ ~(j \in Bad)
    BY <1>1, <2>1, <2>2
  <2> HIDE DEF j
  <2>4. RowsSay(logs, j, h[j]) /\ logs[j + 1] \in LogSet
    BY <1>1, <2>3
  <2>5. RowsSay(logs, j + 1, project(h[j], logs[j + 1]))
    BY <2>3, <2>4, RowsStep
  <2>6. h[j + 1] = project(h[j], logs[j + 1])
    <3>1. j + 1 - 1 = j
      BY <2>3
    <3>2. QED  BY <1>3, <2>3, <3>1
  <2>7. QED  BY <2>1, <2>3, <2>5, <2>6
<1>5. QED  BY <1>1, <1>2, <1>4 DEF n

----------------------------------------------------------------------------
(* What a chain logs of its batch.                                         *)

\* Where nothing was seen before, every log is a first sight.
LEMMA NoneSighted ==
  ASSUME NEW list \in Seq(LogSet), NEW rows,
         \A k \in DOMAIN list : \A r \in Range(rows) : r.tx # list[k].tx \/ r.event # list[k].event
  PROVE  firstSight(list, rows) = list
<1>1. Len(list) \in Nat /\ DOMAIN list = 1..Len(list)
  BY LenProperties
<1>2. {k \in DOMAIN list : \A r \in Range(rows) : r.tx # list[k].tx \/ r.event # list[k].event} = 1..Len(list)
  BY <1>1
<1>3. firstSight(list, rows) = inOrder(list, 1..Len(list))
  BY <1>2 DEF firstSight
<1>4. 1 \in Nat \ {0} /\ 1 <= Len(list) + 1 /\ Len(list) <= Len(list)
  BY <1>1
<1>5. inOrder(list, 1..Len(list)) = SubSeq(list, 1, Len(list))
  BY <1>1, <1>4, StretchOf
<1>6. QED  BY <1>3, <1>5, SubSeqFull

\* Who leads is the solver of the last good submission.
LEMMA BestIs ==
  ASSUME NEW logs, NEW i \in leads(logs), leads(logs) \subseteq Nat, \A j \in leads(logs) : j <= i
  PROVE  BestOf(logs) = logs[i].solver
<1>1. \A x \in leads(logs) : (\A y \in leads(logs) : x >= y) <=> x = i
  <2>1. \A x \in leads(logs) : x \in Nat /\ i \in Nat
    OBVIOUS
  <2>2. QED  BY <2>1
<1>2. Max(leads(logs)) = i
  BY <1>1 DEF Max
<1>3. QED  BY <1>2 DEF BestOf

LEMMA LeadsPlaced ==
  ASSUME NEW logs \in Seq(LogSet)
  PROVE  /\ leads(logs) \subseteq DOMAIN logs /\ leads(logs) \subseteq Nat /\ IsFiniteSet(leads(logs))
         /\ leads(logs) # {} => \E i \in leads(logs) : \A j \in leads(logs) : j <= i
<1>1. Len(logs) \in Nat /\ DOMAIN logs = 1..Len(logs)
  BY LenProperties
<1>2. leads(logs) \subseteq 1..Len(logs)
  BY <1>1 DEF leads
<1>3. IsFiniteSet(leads(logs))
  <2>1. 1 \in Int /\ Len(logs) \in Int
    BY <1>1
  <2>2. QED  BY <1>2, <2>1, FS_Interval, FS_Subset
<1>4. \A k \in leads(logs) : k \in Nat
  BY <1>1, <1>2
<1>5. leads(logs) # {} => \E i \in leads(logs) : \A j \in leads(logs) : j <= i
  BY <1>3, <1>4, LastPosition
<1>6. QED  BY <1>1, <1>2, <1>3, <1>4, <1>5

\* The log at place k, if it ends the batch, follows the submission that leads
\* for good, and no submission follows it.
EndsRight(logs, k) ==
  logs[k].event \in Ending =>
    /\ logs[k].tx \in Closers
    /\ \A j \in DOMAIN logs : j > k => logs[j].event # "submitted"
    /\ \E i \in leads(logs) : /\ i < k /\ \A j \in leads(logs) : j <= i
                              /\ logs[k].event = "settled" => logs[k].solver = logs[i].solver

Lawful(logs) ==
  /\ Ordered(logs)
  /\ \A k \in DOMAIN logs : DeployedAt < logs[k].block
  /\ \A j, k \in DOMAIN logs : logs[j].tx = logs[k].tx /\ logs[j].event = logs[k].event => j = k
  /\ \A k \in DOMAIN logs : logs[k].event = "submitted" => logs[k].solver # "none"
  /\ \A k \in DOMAIN logs : EndsRight(logs, k)

\* A chain that is cut is lawful still.
LEMMA LawfulFront ==
  ASSUME NEW logs, Lawful(logs), NEW height \in Int
  PROVE  /\ Lawful(upTo(logs, height))
         /\ \A k \in DOMAIN upTo(logs, height) : k \in DOMAIN logs /\ upTo(logs, height)[k] = logs[k] /\ logs[k].block <= height
         /\ \A k \in DOMAIN logs : logs[k].block <= height => k \in DOMAIN upTo(logs, height)
<1>1. Ordered(logs)
  BY DEF Lawful
<1>2. PICK m \in 0..Len(logs) : /\ \A k \in DOMAIN logs : logs[k].block <= height <=> k <= m
                                /\ upTo(logs, height) = SubSeq(logs, 1, m)
  BY <1>1, UpToIs
<1> DEFINE front == SubSeq(logs, 1, m)
<1>3. Ordered(front) /\ Len(front) = m /\ DOMAIN front = 1..m /\ \A k \in 1..m : front[k] = logs[k]
  BY <1>1, FrontOf
<1> HIDE DEF front
<1>4. Len(logs) \in Nat /\ DOMAIN logs = 1..Len(logs)
  BY <1>1, LogsAre
<1>5. m \in Nat /\ \A k \in 1..m : k \in DOMAIN logs
  BY <1>4
<1>6. \A k \in DOMAIN logs : k <= m <=> k \in 1..m
  BY <1>4, <1>5
<1>7. \A k \in 1..m : k \in leads(front) <=> k \in leads(logs)
  BY <1>3, <1>5 DEF leads
<1>8. leads(front) \subseteq 1..m
  BY <1>3 DEF leads
<1>9. ASSUME NEW k \in 1..m PROVE EndsRight(front, k)
  <2> SUFFICES ASSUME front[k].event \in Ending
               PROVE  /\ front[k].tx \in Closers
                      /\ \A j \in DOMAIN front : j > k => front[j].event # "submitted"
                      /\ \E i \in leads(front) : /\ i < k /\ \A j \in leads(front) : j <= i
                                                 /\ front[k].event = "settled" => front[k].solver = front[i].solver
    BY DEF EndsRight
  <2>1. k \in DOMAIN logs /\ front[k] = logs[k] /\ EndsRight(logs, k)
    BY <1>3, <1>5 DEF Lawful
  <2>2. PICK i \in leads(logs) : /\ i < k /\ \A j \in leads(logs) : j <= i
                                 /\ logs[k].event = "settled" => logs[k].solver = logs[i].solver
    BY <2>1 DEF EndsRight
  <2>3. i \in DOMAIN logs
    BY DEF leads
  <2>4. i \in 1..m /\ i \in leads(front) /\ front[i] = logs[i]
    BY <1>3, <1>4, <1>5, <1>7, <2>2, <2>3
  <2>5. \A j \in leads(front) : j <= i
    BY <1>7, <1>8, <2>2
  <2>6. front[k].tx \in Closers /\ \A j \in DOMAIN front : j > k => front[j].event # "submitted"
    BY <1>3, <1>5, <2>1 DEF EndsRight
  <2>7. QED  BY <2>1, <2>2, <2>4, <2>5, <2>6
<1>10. Lawful(front)
  <2>1. \A k \in DOMAIN front : DeployedAt < front[k].block
    BY <1>3, <1>5 DEF Lawful
  <2>2. \A j, k \in DOMAIN front : front[j].tx = front[k].tx /\ front[j].event = front[k].event => j = k
    BY <1>3, <1>5 DEF Lawful
  <2>3. \A k \in DOMAIN front : front[k].event = "submitted" => front[k].solver # "none"
    BY <1>3, <1>5 DEF Lawful
  <2>4. QED  BY <1>3, <1>9, <2>1, <2>2, <2>3 DEF Lawful
<1>11. QED  BY <1>2, <1>3, <1>5, <1>6, <1>10 DEF front

\* What a transaction logs at a height, when closed says whether the batch has
\* ended and best who leads.
MinedRight(new, tx, height, closed, best) ==
  /\ new \in Seq(LogSet)
  /\ \A k \in DOMAIN new : new[k].tx = tx /\ new[k].block = height /\ new[k].hash = nextHash
  /\ \A j, k \in DOMAIN new : new[j].event = new[k].event => j = k
  /\ \A k \in DOMAIN new :
       new[k].event = "submitted" => ~closed /\ new[k].solver # "none" /\ \A j \in DOMAIN new : new[j].event \notin Ending
  /\ \A k \in DOMAIN new :
       new[k].event \in Ending => /\ ~closed /\ tx \in Closers /\ best # "none"
                                  /\ new[k].event = "settled" => new[k].solver = best

\* A log that fits there alone.
Fits(a, tx, height, closed, best) ==
  /\ a \in LogSet /\ a.tx = tx /\ a.block = height /\ a.hash = nextHash
  /\ a.event = "submitted" => ~closed /\ a.solver # "none"
  /\ a.event \in Ending => ~closed /\ tx \in Closers /\ best # "none" /\ (a.event = "settled" => a.solver = best)

LEMMA OneMined ==
  ASSUME NEW a, NEW tx, NEW height, NEW closed, NEW best, Fits(a, tx, height, closed, best)
  PROVE  MinedRight(<<a>>, tx, height, closed, best)
<1>1. <<a>> \in Seq(LogSet) /\ DOMAIN <<a>> = {1} /\ <<a>>[1] = a
  BY DEF Fits
<1>2. a.event = "submitted" => a.event \notin Ending
  BY DEF Ending
<1> DEFINE new == <<a>>
<1>3. \A k \in DOMAIN new : new[k] = a /\ k = 1
  BY <1>1
<1>4. new \in Seq(LogSet)
  BY <1>1
<1> HIDE DEF new
<1>5. QED  BY <1>2, <1>3, <1>4 DEF new, MinedRight, Fits

LEMMA TwoMined ==
  ASSUME NEW a, NEW b, NEW tx, NEW height, NEW closed, NEW best,
         Fits(a, tx, height, closed, best), Fits(b, tx, height, closed, best),
         a.event # b.event, b.event # "submitted", a.event = "submitted" => b.event \notin Ending
  PROVE  MinedRight(<<a, b>>, tx, height, closed, best)
<1> DEFINE new == <<a, b>>
<1>1. new \in Seq(LogSet)
  BY DEF Fits
<1>2. DOMAIN new = {1, 2} /\ new[1] = a /\ new[2] = b
  OBVIOUS
<1> HIDE DEF new
<1>3. a.event = "submitted" => a.event \notin Ending
  BY DEF Ending
<1>4. \A k \in DOMAIN new : (k = 1 /\ new[k] = a) \/ (k = 2 /\ new[k] = b)
  <2>1. \A k \in DOMAIN new : k = 1 \/ k = 2
    BY <1>2
  <2>2. QED  BY <1>2, <2>1
<1>5. \A k \in DOMAIN new : new[k].tx = tx /\ new[k].block = height /\ new[k].hash = nextHash
  BY <1>4 DEF Fits
<1>6. \A j, k \in DOMAIN new : new[j].event = new[k].event => j = k
  BY <1>4
<1>7. \A k \in DOMAIN new :
       new[k].event = "submitted" => ~closed /\ new[k].solver # "none" /\ \A j \in DOMAIN new : new[j].event \notin Ending
  BY <1>3, <1>4 DEF Fits
<1>8. \A k \in DOMAIN new :
       new[k].event \in Ending => /\ ~closed /\ tx \in Closers /\ best # "none"
                                  /\ new[k].event = "settled" => new[k].solver = best
  BY <1>4 DEF Fits
<1>9. QED  BY <1>1, <1>5, <1>6, <1>7, <1>8 DEF MinedRight, new

LEMMA TwoAre == ASSUME NEW a, NEW b PROVE <<a>> \o <<b>> = <<a, b>>
<1> DEFINE S == {a, b}
           c == <<a>> \o <<b>>
           d == <<a, b>>
<1>1. <<a>> \in Seq(S) /\ <<b>> \in Seq(S) /\ d \in Seq(S)
  OBVIOUS
<1>2. Len(<<a>>) = 1 /\ Len(<<b>>) = 1 /\ Len(d) = 2 /\ <<a>>[1] = a /\ <<b>>[1] = b /\ d[1] = a /\ d[2] = b
  OBVIOUS
<1>3. c \in Seq(S) /\ Len(c) = 2 /\ \A i \in 1..2 : c[i] = IF i <= 1 THEN <<a>>[i] ELSE <<b>>[i - 1]
  BY <1>1, <1>2, ConcatProperties
<1>4. c[1] = a /\ c[2] = b
  BY <1>2, <1>3
<1> HIDE DEF c, d, S
<1>5. \A i \in 1..2 : c[i] = d[i]
  BY <1>2, <1>4
<1>6. c = d
  BY <1>1, <1>2, <1>3, <1>5, SeqEqual
<1>7. QED  BY <1>6 DEF c, d

\* What any transaction logs, whatever it finds.
LEMMA MinedIs ==
  ASSUME Lawful(chainLogs), nextHash \in Nat, NEW tx, NEW height \in Nat
  PROVE  MinedRight(LogsMined(tx, height), tx, height, mined \cap Closers # {}, BestOf(chainLogs))
<1> DEFINE best == BestOf(chainLogs)
           closed == mined \cap Closers # {}
           L(event, solver, good) == Log(tx, event, solver, good, height)
           new == LogsMined(tx, height)
<1>1. best \in IndexSolvers
  <2>1. chainLogs \in Seq(LogSet)
    BY DEF Lawful, Ordered
  <2>2. CASE leads(chainLogs) = {}
    BY <2>2 DEF BestOf, IndexSolvers
  <2>3. CASE leads(chainLogs) # {}
    <3>1. PICK i \in leads(chainLogs) : \A j \in leads(chainLogs) : j <= i
      BY <2>1, <2>3, LeadsPlaced
    <3>2. best = chainLogs[i].solver /\ i \in DOMAIN chainLogs
      BY <2>1, <3>1, LeadsPlaced, BestIs
    <3>3. chainLogs[i] \in LogSet
      BY <2>1, <3>2, LenProperties, ElementOfSeq
    <3>4. QED  BY <3>2, <3>3 DEF LogSet
  <2>4. QED  BY <2>2, <2>3
<1> HIDE DEF best, closed
<1>2. ASSUME NEW event \in IndexEvents, NEW solver \in IndexSolvers, NEW good \in BOOLEAN, tx \in IndexTxs,
             event = "submitted" => ~closed /\ solver # "none",
             event \in Ending => ~closed /\ tx \in Closers /\ best # "none" /\ (event = "settled" => solver = best)
      PROVE  Fits(L(event, solver, good), tx, height, closed, best) /\ L(event, solver, good).event = event
  <2>1. L(event, solver, good) = [tx |-> tx, event |-> event, solver |-> solver, good |-> good, block |-> height, hash |-> nextHash]
    BY DEF Log
  <2>2. L(event, solver, good) \in LogSet
    BY <1>2, <2>1 DEF LogSet
  <2>3. QED  BY <1>2, <2>1, <2>2 DEF Fits
<1> HIDE DEF L
<1>3. new = CASE tx = "submit A" /\ ~closed -> <<L("submitted", "A", best = "none")>> \o (IF best = "none" THEN <<>> ELSE <<L("rejected", "A", FALSE)>>)
              [] tx = "submit B" /\ ~closed -> <<L("submitted", "B", TRUE)>>
              [] tx = "finalize" /\ best # "none" /\ ~closed -> <<L("settled", best, TRUE)>>
              [] tx = "below threshold" /\ best # "none" /\ ~closed -> <<L("passthrough", best, TRUE), L("settled", best, TRUE)>>
              [] tx = "unwind" /\ best # "none" /\ ~closed -> <<L("passthrough", best, FALSE)>>
              [] tx = "expire" /\ best # "none" /\ ~closed -> <<L("passthrough", "none", FALSE)>>
              [] tx = "open" -> <<L("opened", "none", TRUE)>>
              [] tx = "cross" /\ "open" \in mined -> <<L("crossed", "none", TRUE)>>
              [] OTHER -> <<>>
  BY DEF LogsMined, L, best, closed, Closers
<1> HIDE DEF new
<1>4. CASE new = <<>>
  BY <1>4 DEF MinedRight, new, best, closed
<1>5. CASE tx = "submit A" /\ ~closed
  <2>1. new = <<L("submitted", "A", best = "none")>> \o (IF best = "none" THEN <<>> ELSE <<L("rejected", "A", FALSE)>>)
    BY <1>3, <1>5
  <2>2. \A good \in BOOLEAN : Fits(L("submitted", "A", good), tx, height, closed, best) /\ L("submitted", "A", good).event = "submitted"
    BY <1>2, <1>5 DEF IndexTxs, IndexEvents, IndexSolvers, Ending
  <2>3. Fits(L("rejected", "A", FALSE), tx, height, closed, best) /\ L("rejected", "A", FALSE).event = "rejected"
    BY <1>2, <1>5 DEF IndexTxs, IndexEvents, IndexSolvers, Ending
  <2> DEFINE a == L("submitted", "A", best = "none")
             b == L("rejected", "A", FALSE)
  <2>4. Fits(a, tx, height, closed, best) /\ a.event = "submitted" /\ Fits(b, tx, height, closed, best) /\ b.event = "rejected"
    BY <2>2, <2>3
  <2>5. new = <<a>> \o (IF best = "none" THEN <<>> ELSE <<b>>)
    BY <2>1
  <2> HIDE DEF a, b
  <2>6. new = <<a>> \/ new = <<a, b>>
    <3>1. CASE best = "none"
      <4>1. <<a>> \o <<>> = <<a>>
        OBVIOUS
      <4>2. QED  BY <2>5, <3>1, <4>1
    <3>2. CASE best # "none"
      <4>1. <<a>> \o <<b>> = <<a, b>>
        BY TwoAre
      <4>2. QED  BY <2>5, <3>2, <4>1
    <3>3. QED  BY <3>1, <3>2
  <2>7. b.event \notin Ending
    BY <2>4 DEF Ending
  <2>8. QED  BY <2>4, <2>6, <2>7, OneMined, TwoMined DEF new, best, closed
<1>6. CASE tx = "submit B" /\ ~closed
  <2>1. new = <<L("submitted", "B", TRUE)>>
    BY <1>3, <1>6
  <2>2. Fits(L("submitted", "B", TRUE), tx, height, closed, best)
    BY <1>2, <1>6 DEF IndexTxs, IndexEvents, IndexSolvers, Ending
  <2>3. QED  BY <2>1, <2>2, OneMined DEF new, best, closed
<1>7. CASE tx = "finalize" /\ best # "none" /\ ~closed
  <2>1. new = <<L("settled", best, TRUE)>>
    BY <1>3, <1>7
  <2>2. Fits(L("settled", best, TRUE), tx, height, closed, best)
    BY <1>1, <1>2, <1>7 DEF IndexTxs, IndexEvents, Closers
  <2>3. QED  BY <2>1, <2>2, OneMined DEF new, best, closed
<1>8. CASE tx = "below threshold" /\ best # "none" /\ ~closed
  <2> DEFINE a == L("passthrough", best, TRUE)
             b == L("settled", best, TRUE)
  <2>1. new = <<a, b>>
    BY <1>3, <1>8
  <2>2. Fits(a, tx, height, closed, best) /\ a.event = "passthrough"
    BY <1>1, <1>2, <1>8 DEF IndexTxs, IndexEvents, Closers
  <2>3. Fits(b, tx, height, closed, best) /\ b.event = "settled"
    BY <1>1, <1>2, <1>8 DEF IndexTxs, IndexEvents, Closers
  <2> HIDE DEF a, b
  <2>4. QED  BY <2>1, <2>2, <2>3, TwoMined DEF new, best, closed
<1>9. CASE tx = "expire" /\ best # "none" /\ ~closed
  <2>1. new = <<L("passthrough", "none", FALSE)>>
    BY <1>3, <1>9
  <2>2. Fits(L("passthrough", "none", FALSE), tx, height, closed, best)
    BY <1>2, <1>9 DEF IndexTxs, IndexEvents, IndexSolvers, Closers
  <2>3. QED  BY <2>1, <2>2, OneMined DEF new, best, closed
<1>10. CASE tx = "open"
  <2>1. new = <<L("opened", "none", TRUE)>>
    BY <1>3, <1>10
  <2>2. Fits(L("opened", "none", TRUE), tx, height, closed, best)
    BY <1>2, <1>10 DEF IndexTxs, IndexEvents, IndexSolvers, Ending
  <2>3. QED  BY <2>1, <2>2, OneMined DEF new, best, closed
<1>11. CASE tx = "cross" /\ "open" \in mined
  <2>1. new = <<L("crossed", "none", TRUE)>>
    BY <1>3, <1>11
  <2>2. Fits(L("crossed", "none", TRUE), tx, height, closed, best)
    BY <1>2, <1>11 DEF IndexTxs, IndexEvents, IndexSolvers, Ending
  <2>3. QED  BY <2>1, <2>2, OneMined DEF new, best, closed
<1>12. CASE tx = "unwind" /\ best # "none" /\ ~closed
  <2>1. new = <<L("passthrough", best, FALSE)>>
    BY <1>3, <1>12
  <2>2. Fits(L("passthrough", best, FALSE), tx, height, closed, best)
    BY <1>1, <1>2, <1>12 DEF IndexTxs, IndexEvents, Closers
  <2>3. QED  BY <2>1, <2>2, OneMined DEF new, best, closed
<1>13. QED  BY <1>3, <1>4, <1>5, <1>6, <1>7, <1>8, <1>9, <1>10, <1>11, <1>12

\* A block mined on a lawful chain leaves it lawful.
LEMMA LawfulMined ==
  ASSUME Lawful(chainLogs), nextHash \in Nat, NEW tx, NEW height \in Nat,
         tx \notin mined \/ LogsMined(tx, height) = <<>>, DeployedAt < height,
         \A k \in DOMAIN chainLogs : chainLogs[k].block < height
  PROVE  /\ Ordered(LogsMined(tx, height)) /\ Lawful(chainLogs \o LogsMined(tx, height))
         /\ \A k \in DOMAIN LogsMined(tx, height) : LogsMined(tx, height)[k].block = height /\ LogsMined(tx, height)[k].hash = nextHash
<1> DEFINE new == LogsMined(tx, height)
           old == chainLogs
           best == BestOf(chainLogs)
           closed == mined \cap Closers # {}
           u == old \o new
           n == Len(old)
<1>1. MinedRight(new, tx, height, closed, best)
  BY MinedIs
<1>2. \A k \in DOMAIN old : old[k].tx \in mined
  BY DEF mined, Range
<1>3. leads(old) # {} => \E i \in leads(old) : (\A j \in leads(old) : j <= i) /\ best = old[i].solver
  <2>1. old \in Seq(LogSet)
    BY DEF Lawful, Ordered
  <2>2. QED  BY <2>1, LeadsPlaced, BestIs
<1>4. leads(old) = {} => best = "none"
  BY DEF BestOf
<1>5. tx \notin mined \/ new = <<>>
  OBVIOUS
<1>6. \A k \in DOMAIN old : old[k].block < height
  OBVIOUS
<1> HIDE DEF new, best
<1>7. Ordered(old) /\ n \in Nat /\ DOMAIN old = 1..n /\ \A k \in DOMAIN old : old[k].block \in Nat
  BY LogsAre DEF Lawful
<1>8. Ordered(new)
  <2>1. \A k \in DOMAIN new : new[k].block = height
    BY <1>1 DEF MinedRight
  <2>2. QED  BY <1>1, <2>1 DEF Ordered, MinedRight
<1>9. DOMAIN new = 1..Len(new) /\ Len(new) \in Nat
  BY <1>8, LogsAre
<1>10. \A j \in DOMAIN old, k \in DOMAIN new : old[j].block <= new[k].block
  BY <1>1, <1>6, <1>7 DEF MinedRight
<1>11. /\ Ordered(u) /\ DOMAIN u = 1..(n + Len(new))
       /\ \A k \in DOMAIN old : k \in DOMAIN u /\ u[k] = old[k]
       /\ \A k \in DOMAIN u : k \in DOMAIN old \/ (k > n /\ k - n \in DOMAIN new /\ u[k] = new[k - n])
  BY <1>7, <1>8, <1>10, JoinOf
<1> HIDE DEF u
<1>12. \A k \in DOMAIN u : DeployedAt < u[k].block
  <2>1. \A k \in DOMAIN old : DeployedAt < old[k].block
    BY DEF Lawful
  <2>2. \A k \in DOMAIN new : new[k].block = height
    BY <1>1 DEF MinedRight
  <2>3. QED  BY <1>11, <2>1, <2>2
<1>13. \A k \in DOMAIN new : new[k].tx = tx /\ tx \notin mined
  BY <1>1, <1>5, <1>9 DEF MinedRight
<1>14. ASSUME NEW j \in DOMAIN u, NEW k \in DOMAIN u, u[j].tx = u[k].tx, u[j].event = u[k].event PROVE j = k
  <2>1. CASE j \in DOMAIN old /\ k \in DOMAIN old
    BY <1>11, <1>14, <2>1 DEF Lawful
  <2>2. CASE j \in DOMAIN old /\ ~(k \in DOMAIN old)
    BY <1>2, <1>11, <1>13, <1>14, <2>2
  <2>3. CASE ~(j \in DOMAIN old) /\ k \in DOMAIN old
    BY <1>2, <1>11, <1>13, <1>14, <2>3
  <2>4. CASE ~(j \in DOMAIN old) /\ ~(k \in DOMAIN old)
    <3>1. j - n \in DOMAIN new /\ k - n \in DOMAIN new /\ new[j - n].event = new[k - n].event
      BY <1>11, <1>14, <2>4
    <3>2. j - n = k - n
      BY <1>1, <3>1 DEF MinedRight
    <3>3. j \in Int /\ k \in Int
      BY <1>7, <1>9, <1>11
    <3>4. QED  BY <1>7, <3>2, <3>3
  <2>5. QED  BY <2>1, <2>2, <2>3, <2>4
<1>15. \A k \in DOMAIN u : u[k].event = "submitted" => u[k].solver # "none"
  <2>1. \A k \in DOMAIN old : old[k].event = "submitted" => old[k].solver # "none"
    BY DEF Lawful
  <2>2. \A k \in DOMAIN new : new[k].event = "submitted" => new[k].solver # "none"
    BY <1>1 DEF MinedRight
  <2>3. QED  BY <1>11, <2>1, <2>2
<1>16. ASSUME \A k \in DOMAIN new : new[k].event # "submitted" PROVE leads(u) = leads(old)
  <2>1. \A k \in DOMAIN u : k \in leads(u) <=> k \in leads(old)
    <3> SUFFICES ASSUME NEW k \in DOMAIN u PROVE k \in leads(u) <=> k \in leads(old)
      OBVIOUS
    <3>1. CASE k \in DOMAIN old
      BY <1>11, <3>1 DEF leads
    <3>2. CASE ~(k \in DOMAIN old)
      BY <1>11, <1>16, <3>2 DEF leads
    <3>3. QED  BY <3>1, <3>2
  <2>2. leads(u) \subseteq DOMAIN u /\ leads(old) \subseteq DOMAIN u
    BY <1>11 DEF leads
  <2>3. QED  BY <2>1, <2>2
<1>17. ASSUME NEW k \in DOMAIN u, u[k].event \in Ending
       PROVE  /\ u[k].tx \in Closers
              /\ \A j \in DOMAIN u : j > k => u[j].event # "submitted"
              /\ \E i \in leads(u) : /\ i < k /\ \A j \in leads(u) : j <= i
                                     /\ u[k].event = "settled" => u[k].solver = u[i].solver
  <2>1. CASE k \in DOMAIN old
    <3>1. u[k] = old[k] /\ EndsRight(old, k)
      BY <1>11, <2>1 DEF Lawful
    <3>2. closed
      BY <1>2, <1>17, <2>1, <3>1 DEF EndsRight
    <3>3. \A j \in DOMAIN new : new[j].event # "submitted"
      BY <1>1, <3>2 DEF MinedRight
    <3>4. leads(u) = leads(old)
      BY <1>16, <3>3
    <3>5. \A j \in DOMAIN u : j > k => u[j].event # "submitted"
      BY <1>11, <1>17, <3>1, <3>3 DEF EndsRight
    <3>6. PICK i \in leads(old) : /\ i < k /\ \A j \in leads(old) : j <= i
                                  /\ old[k].event = "settled" => old[k].solver = old[i].solver
      BY <1>17, <3>1 DEF EndsRight
    <3>7. i \in DOMAIN old /\ u[i] = old[i]
      BY <1>11 DEF leads
    <3>8. old[k].tx \in Closers
      BY <1>17, <3>1 DEF EndsRight
    <3>9. QED  BY <3>1, <3>4, <3>5, <3>6, <3>7, <3>8
  <2>2. CASE ~(k \in DOMAIN old)
    <3>1. k > n /\ k - n \in DOMAIN new /\ u[k] = new[k - n]
      BY <1>11, <2>2
    <3>2. ~closed /\ tx \in Closers /\ best # "none" /\ (u[k].event = "settled" => u[k].solver = best) /\ u[k].tx = tx
      BY <1>1, <1>17, <3>1 DEF MinedRight
    <3>3. \A j \in DOMAIN new : new[j].event # "submitted"
      BY <1>1, <1>17, <3>1 DEF MinedRight
    <3>4. leads(u) = leads(old)
      BY <1>16, <3>3
    <3>5. PICK i \in leads(old) : (\A j \in leads(old) : j <= i) /\ best = old[i].solver
      BY <1>3, <1>4, <3>2
    <3>6. i \in DOMAIN old /\ u[i] = old[i]
      BY <1>11 DEF leads
    <3>7. i < k
      BY <1>7, <1>9, <1>11, <3>1, <3>6
    <3>8. \A j \in DOMAIN u : j > k => ~(j \in DOMAIN old)
      BY <1>7, <1>9, <1>11, <3>1
    <3>9. \A j \in DOMAIN u : j > k => u[j].event # "submitted"
      BY <1>11, <3>3, <3>8
    <3>10. QED  BY <3>2, <3>4, <3>5, <3>6, <3>7, <3>9
  <2>3. QED  BY <2>1, <2>2
<1>18. \A k \in DOMAIN u : EndsRight(u, k)
  BY <1>17 DEF EndsRight
<1>19. Lawful(u)
  BY <1>11, <1>12, <1>14, <1>15, <1>18 DEF Lawful
<1>20. \A k \in DOMAIN new : new[k].block = height /\ new[k].hash = nextHash
  BY <1>1 DEF MinedRight
<1>21. QED  BY <1>8, <1>19, <1>20 DEF new, u

\* No transaction logs nothing.
LEMMA NoneMined == ASSUME NEW height PROVE LogsMined("none", height) = <<>>
BY DEF LogsMined

----------------------------------------------------------------------------
(* The winning solution, and the first block with code.                    *)

SettledAt(logs) == {k \in DOMAIN logs : closingLog(logs[k])}
Winning(logs) == winningSolutions({}, logs)
WonBy(l) == {[solver |-> l.solver, block |-> l.block]}

\* The winning row is that of the first settlement.
LEMMA WinsIs ==
  ASSUME NEW logs, Ordered(logs), NEW rows
  PROVE  /\ rows # {} => winningSolutions(rows, logs) = rows
         /\ SettledAt(logs) = {} => winningSolutions(rows, logs) = rows
         /\ rows = {} /\ SettledAt(logs) # {} =>
              \E f \in SettledAt(logs) : (\A j \in SettledAt(logs) : f <= j) /\ winningSolutions(rows, logs) = WonBy(logs[f])
<1>1. Len(logs) \in Nat /\ DOMAIN logs = 1..Len(logs)
  BY LogsAre
<1>2. SettledAt(logs) \subseteq 1..Len(logs)
  BY <1>1 DEF SettledAt
<1>3. IsFiniteSet(SettledAt(logs)) /\ \A k \in SettledAt(logs) : k \in Nat
  <2>1. 1 \in Int /\ Len(logs) \in Int
    BY <1>1
  <2>2. \A k \in 1..Len(logs) : k \in Nat
    OBVIOUS
  <2>3. \A k \in SettledAt(logs) : k \in Nat
    BY <1>2, <2>2
  <2>4. QED  BY <1>2, <2>1, <2>3, FS_Interval, FS_Subset
<1>4. SettledAt(logs) # {} => Min(SettledAt(logs)) \in SettledAt(logs) /\ \A j \in SettledAt(logs) : Min(SettledAt(logs)) <= j
  BY <1>3, FirstPosition
<1>5. winningSolutions(rows, logs) = IF rows = {} /\ SettledAt(logs) # {} THEN WonBy(logs[Min(SettledAt(logs))]) ELSE rows
  BY DEF winningSolutions, SettledAt, WonBy
<1>6. QED  BY <1>4, <1>5

\* Range after range gives the winning row of all, since the first stays.
LEMMA WinsJoined ==
  ASSUME NEW s, Ordered(s), NEW t, Ordered(t), \A j \in DOMAIN s, k \in DOMAIN t : s[j].block <= t[k].block
  PROVE  Winning(s \o t) = winningSolutions(Winning(s), t)
<1> DEFINE u == s \o t
           n == Len(s)
<1>1. n \in Nat /\ DOMAIN s = 1..n /\ DOMAIN t = 1..Len(t) /\ Len(t) \in Nat
  BY LogsAre
<1>2. /\ Ordered(u) /\ DOMAIN u = 1..(n + Len(t))
      /\ \A k \in DOMAIN s : k \in DOMAIN u /\ u[k] = s[k]
      /\ \A k \in DOMAIN t : n + k \in DOMAIN u /\ u[n + k] = t[k]
      /\ \A k \in DOMAIN u : k \in DOMAIN s \/ (k > n /\ k - n \in DOMAIN t /\ u[k] = t[k - n])
  BY JoinOf
<1> HIDE DEF u, n
<1>3. \A k \in DOMAIN s : k \in SettledAt(s) <=> k \in SettledAt(u)
  BY <1>2 DEF SettledAt
<1>4. \A k \in SettledAt(u) : k \in DOMAIN s \/ (k > n /\ k - n \in SettledAt(t) /\ u[k] = t[k - n])
  BY <1>2 DEF SettledAt
<1>5. \A k \in SettledAt(t) : n + k \in SettledAt(u)
  BY <1>2 DEF SettledAt
<1>6. SettledAt(s) \subseteq DOMAIN s /\ SettledAt(t) \subseteq DOMAIN t /\ SettledAt(u) \subseteq DOMAIN u
  BY DEF SettledAt
<1>7. CASE SettledAt(s) # {}
  <2>1. PICK f \in SettledAt(s) : (\A j \in SettledAt(s) : f <= j) /\ Winning(s) = WonBy(s[f])
    BY <1>7, WinsIs DEF Winning
  <2>2. f \in SettledAt(u) /\ f \in DOMAIN s /\ u[f] = s[f]
    BY <1>2, <1>3, <1>6
  <2>3. PICK g \in SettledAt(u) : (\A j \in SettledAt(u) : g <= j) /\ Winning(u) = WonBy(u[g])
    BY <1>2, <2>2, WinsIs DEF Winning
  <2>4. g = f
    <3>1. g <= f
      BY <2>2, <2>3
    <3>2. g \in DOMAIN s
      BY <1>1, <1>2, <1>6, <2>2, <3>1
    <3>3. f <= g
      BY <1>3, <2>1, <3>2
    <3>4. QED  BY <1>1, <2>2, <3>1, <3>2, <3>3
  <2>5. Winning(s) # {}
    BY <2>1 DEF WonBy
  <2>6. winningSolutions(Winning(s), t) = Winning(s)
    BY <2>5, WinsIs
  <2>7. QED  BY <2>1, <2>2, <2>3, <2>4, <2>6 DEF u
<1>8. CASE SettledAt(s) = {} /\ SettledAt(t) # {}
  <2>1. Winning(s) = {}
    BY <1>8, WinsIs DEF Winning
  <2>2. PICK f \in SettledAt(t) : (\A j \in SettledAt(t) : f <= j) /\ winningSolutions(Winning(s), t) = WonBy(t[f])
    BY <1>8, <2>1, WinsIs
  <2>3. n + f \in SettledAt(u)
    BY <1>5
  <2>4. PICK g \in SettledAt(u) : (\A j \in SettledAt(u) : g <= j) /\ Winning(u) = WonBy(u[g])
    BY <1>2, <2>3, WinsIs DEF Winning
  <2>5. g - n \in SettledAt(t) /\ u[g] = t[g - n]
    BY <1>3, <1>4, <1>8
  <2>6. f = g - n
    <3>1. f <= g - n /\ g <= n + f
      BY <2>2, <2>3, <2>4, <2>5
    <3>2. f \in Int /\ g \in Int
      BY <1>1, <1>2, <1>6
    <3>3. QED  BY <1>1, <3>1, <3>2
  <2>7. QED  BY <2>2, <2>4, <2>5, <2>6 DEF u
<1>9. CASE SettledAt(s) = {} /\ SettledAt(t) = {}
  <2>1. SettledAt(u) = {}
    BY <1>3, <1>4, <1>9
  <2>2. Winning(u) = {} /\ Winning(s) = {} /\ winningSolutions(Winning(s), t) = Winning(s)
    BY <1>2, <1>9, <2>1, WinsIs DEF Winning
  <2>3. QED  BY <2>2 DEF u
<1>10. QED  BY <1>7, <1>8, <1>9

\* Deleting the winning rows above a height leaves those of the logs below it.
LEMMA WinsUpTo ==
  ASSUME NEW logs, Lawful(logs), NEW height \in Int
  PROVE  {w \in Winning(logs) : w.block <= height} = Winning(upTo(logs, height))
<1> DEFINE front == upTo(logs, height)
<1>1. /\ Lawful(front)
      /\ \A k \in DOMAIN front : k \in DOMAIN logs /\ front[k] = logs[k] /\ logs[k].block <= height
      /\ \A k \in DOMAIN logs : logs[k].block <= height => k \in DOMAIN front
  BY LawfulFront
<1> HIDE DEF front
<1>2. Ordered(logs) /\ Ordered(front) /\ \A k \in DOMAIN logs : logs[k].block \in Nat
  <2>1. Ordered(logs) /\ Ordered(front)
    BY <1>1 DEF Lawful
  <2>2. QED  BY <2>1, LogsAre
<1>3. SettledAt(front) \subseteq SettledAt(logs)
  BY <1>1 DEF SettledAt
<1>4. CASE SettledAt(logs) = {}
  <2>1. Winning(logs) = {} /\ Winning(front) = {}
    BY <1>2, <1>3, <1>4, WinsIs DEF Winning
  <2>2. QED  BY <2>1 DEF front
<1>5. CASE SettledAt(logs) # {}
  <2>1. PICK f \in SettledAt(logs) : (\A j \in SettledAt(logs) : f <= j) /\ Winning(logs) = WonBy(logs[f])
    BY <1>2, <1>5, WinsIs DEF Winning
  <2>2. f \in DOMAIN logs
    BY DEF SettledAt
  <2>3. CASE logs[f].block <= height
    <3>1. f \in SettledAt(front) /\ front[f] = logs[f]
      BY <1>1, <2>2, <2>3 DEF SettledAt
    <3>2. PICK g \in SettledAt(front) : (\A j \in SettledAt(front) : g <= j) /\ Winning(front) = WonBy(front[g])
      BY <1>2, <3>1, WinsIs DEF Winning
    <3>3. g <= f /\ f <= g
      BY <1>3, <2>1, <3>1, <3>2
    <3>4. f \in Int /\ g \in Int
      <4>1. DOMAIN logs = 1..Len(logs) /\ Len(logs) \in Nat
        BY <1>2, LogsAre
      <4>2. g \in DOMAIN logs
        BY <1>3 DEF SettledAt
      <4>3. QED  BY <2>2, <4>1, <4>2
    <3>5. g = f
      BY <3>3, <3>4
    <3>6. \A w \in WonBy(logs[f]) : w.block <= height
      BY <2>3 DEF WonBy
    <3>7. QED  BY <2>1, <3>1, <3>2, <3>5, <3>6 DEF front
  <2>4. CASE ~(logs[f].block <= height)
    <3>1. SettledAt(front) = {}
      <4> SUFFICES ASSUME NEW k \in SettledAt(front) PROVE FALSE
        OBVIOUS
      <4>1. k \in DOMAIN logs /\ logs[k].block <= height /\ f <= k
        BY <1>1, <1>3, <2>1 DEF SettledAt
      <4>2. logs[f].block <= logs[k].block
        BY <1>2, <2>2, <4>1 DEF Ordered
      <4>3. logs[f].block \in Nat /\ logs[k].block \in Nat
        BY <1>2, <2>2, <4>1
      <4>4. QED  BY <2>4, <4>1, <4>2, <4>3
    <3>2. Winning(front) = {}
      BY <1>2, <3>1, WinsIs DEF Winning
    <3>3. \A w \in WonBy(logs[f]) : ~(w.block <= height)
      BY <2>4 DEF WonBy
    <3>4. QED  BY <2>1, <3>2, <3>3 DEF front
  <2>5. QED  BY <2>3, <2>4
<1>6. QED  BY <1>4, <1>5

\* f solves the binary search.
SearchSolves(f) ==
  f = [range \in (0..IndexHorizon) \X (0..IndexHorizon) |->
         LET lo  == range[1]
             hi  == range[2]
             mid == (lo + hi) \div 2
         IN  IF lo >= hi THEN lo
             ELSE IF mid >= DeployedAt THEN f[<<lo, mid>>] ELSE f[<<mid + 1, hi>>]]
Sought(lo, hi) == IF lo >= hi \/ DeployedAt <= lo THEN lo ELSE IF DeployedAt >= hi THEN hi ELSE DeployedAt

\* The search halves: the block it looks for stays between lo and hi.
LEMMA SoughtHalves ==
  ASSUME DeployedAt \in Nat, NEW lo \in Nat, NEW hi \in Nat, NEW mid \in Nat, lo < hi, lo <= mid, mid < hi
  PROVE  /\ mid >= DeployedAt => Sought(lo, hi) = Sought(lo, mid)
         /\ ~(mid >= DeployedAt) => Sought(lo, hi) = Sought(mid + 1, hi)
BY DEF Sought

LEMMA SearchStep ==
  ASSUME NEW f, SearchSolves(f), NEW lo \in 0..IndexHorizon, NEW hi \in 0..IndexHorizon, NEW mid, mid = (lo + hi) \div 2
  PROVE  f[<<lo, hi>>] = IF lo >= hi THEN lo ELSE IF mid >= DeployedAt THEN f[<<lo, mid>>] ELSE f[<<mid + 1, hi>>]
<1>1. <<lo, hi>> \in (0..IndexHorizon) \X (0..IndexHorizon) /\ <<lo, hi>>[1] = lo /\ <<lo, hi>>[2] = hi
  OBVIOUS
<1>2. QED  BY <1>1 DEF SearchSolves

\* The recursion of the search has a solution, because each half is shorter.
LEMMA SearchSolvable ==
  ASSUME IndexHorizon \in Nat, DeployedAt \in Nat
  PROVE  \E f : SearchSolves(f)
<1> DEFINE P == (0..IndexHorizon) \X (0..IndexHorizon)
           goal == [range \in P |-> Sought(range[1], range[2])]
           next(range, lo, hi, mid) == IF lo >= hi THEN lo ELSE IF mid >= DeployedAt THEN goal[<<lo, mid>>] ELSE goal[<<mid + 1, hi>>]
<1>1. ASSUME NEW range \in P, NEW lo, lo = range[1], NEW hi, hi = range[2], NEW mid, mid = (lo + hi) \div 2
      PROVE  goal[range] = next(range, lo, hi, mid)
  <2>1. lo \in Nat /\ hi \in Nat /\ lo \in 0..IndexHorizon /\ hi \in 0..IndexHorizon /\ goal[range] = Sought(lo, hi)
    BY <1>1
  <2>2. CASE lo >= hi
    BY <2>1, <2>2 DEF Sought
  <2>3. CASE ~(lo >= hi)
    <3>1. mid \in Nat /\ lo <= mid /\ mid < hi
      BY <1>1, <2>1, <2>3, Halfway
    <3>2. <<lo, mid>> \in P /\ <<mid + 1, hi>> \in P
      BY <2>1, <3>1
    <3>3. goal[<<lo, mid>>] = Sought(lo, mid) /\ goal[<<mid + 1, hi>>] = Sought(mid + 1, hi)
      BY <3>2
    <3>4. lo < hi
      BY <2>1, <2>3
    <3>5. /\ mid >= DeployedAt => Sought(lo, hi) = Sought(lo, mid)
          /\ ~(mid >= DeployedAt) => Sought(lo, hi) = Sought(mid + 1, hi)
      BY <2>1, <3>1, <3>4, SoughtHalves
    <3> HIDE DEF goal
    <3>6. QED  BY <2>1, <2>3, <3>3, <3>5
  <2>4. QED  BY <2>2, <2>3
<1>2. goal = [range \in P |-> goal[range]]
  OBVIOUS
<1> HIDE DEF goal
<1>3. goal = [range \in P |-> next(range, range[1], range[2], (range[1] + range[2]) \div 2)]
  <2> DEFINE after(range) == next(range, range[1], range[2], (range[1] + range[2]) \div 2)
  <2>1. \A range \in P : goal[range] = after(range)
    BY <1>1
  <2> HIDE DEF after, P, next
  <2>2. goal = [range \in P |-> after(range)]
    BY <1>2, <2>1
  <2>3. QED  BY <2>2 DEF after
<1>4. SearchSolves(goal)
  BY <1>3 DEF SearchSolves
<1>5. QED  BY <1>4

\* The binary search finds the block of the deployment from every head.
LEMMA SearchFinds ==
  ASSUME NEW h \in Nat, DeployedAt <= h, h <= IndexHorizon, IndexHorizon \in Nat
  PROVE  codeSearch[<<0, h>>] = DeployedAt
<1> DEFINE H == 0..IndexHorizon
           found(lo, hi) == codeSearch[<<lo, hi>>]
<1>1. DeployedAt \in Nat \ {0} /\ DeployedAt <= IndexHorizon
  BY IndexerAssumption
<1>2. SearchSolves(codeSearch)
  <2>1. codeSearch = CHOOSE f : SearchSolves(f)
    BY DEF codeSearch, SearchSolves
  <2>2. \E f : SearchSolves(f)
    BY <1>1, SearchSolvable
  <2>3. QED  BY <2>1, <2>2
<1>3. ASSUME NEW lo \in H, NEW hi \in H, NEW mid, mid = (lo + hi) \div 2
      PROVE  found(lo, hi) = IF lo >= hi THEN lo ELSE IF mid >= DeployedAt THEN found(lo, mid) ELSE found(mid + 1, hi)
  BY <1>2, <1>3, SearchStep
<1> HIDE DEF found
<1> DEFINE Bad == {d \in H : \E lo \in H : \E hi \in H : lo + d = hi /\ found(lo, hi) # Sought(lo, hi)}
<1>4. ASSUME Bad # {} PROVE FALSE
  <2>1. PICK d \in Bad : \A e \in Bad : d <= e
    <3>1. Bad \subseteq 0..IndexHorizon
      OBVIOUS
    <3> HIDE DEF Bad
    <3>2. QED  BY <1>4, <3>1, FirstOf
  <2>2. PICK lo \in H : \E hi \in H : lo + d = hi /\ found(lo, hi) # Sought(lo, hi)
    BY <2>1
  <2>3. PICK hi \in H : lo + d = hi /\ found(lo, hi) # Sought(lo, hi)
    BY <2>2
  <2>4. PICK mid : mid = (lo + hi) \div 2
    OBVIOUS
  <2>5. found(lo, hi) = IF lo >= hi THEN lo ELSE IF mid >= DeployedAt THEN found(lo, mid) ELSE found(mid + 1, hi)
    BY <1>3, <2>4
  <2>6. lo < hi
    <3>1. lo >= hi => found(lo, hi) = Sought(lo, hi)
      BY <2>5 DEF Sought
    <3>2. QED  BY <2>3, <3>1
  <2>7. mid \in Nat /\ lo <= mid /\ mid < hi
    BY <2>4, <2>6, Halfway
  <2>8. mid \in H /\ mid + 1 \in H
    BY <2>7
  <2>9. found(lo, mid) = Sought(lo, mid)
    <3>1. mid - lo \in H /\ mid - lo < d /\ lo + (mid - lo) = mid
      BY <2>1, <2>3, <2>7
    <3>2. ~(mid - lo \in Bad)
      BY <2>1, <3>1
    <3>3. QED  BY <2>8, <3>1, <3>2
  <2>10. found(mid + 1, hi) = Sought(mid + 1, hi)
    <3>1. hi - (mid + 1) \in H /\ hi - (mid + 1) < d /\ (mid + 1) + (hi - (mid + 1)) = hi
      BY <2>1, <2>3, <2>7
    <3>2. ~(hi - (mid + 1) \in Bad)
      BY <2>1, <3>1
    <3>3. QED  BY <2>8, <3>1, <3>2
  <2>11. /\ mid >= DeployedAt => Sought(lo, hi) = Sought(lo, mid)
         /\ ~(mid >= DeployedAt) => Sought(lo, hi) = Sought(mid + 1, hi)
    <3>1. lo \in Nat /\ hi \in Nat /\ DeployedAt \in Nat
      BY <1>1
    <3>2. QED  BY <2>6, <2>7, <3>1, SoughtHalves
  <2>12. QED  BY <2>3, <2>5, <2>6, <2>9, <2>10, <2>11
<1>5. h \in H /\ 0 \in H /\ 0 + h = h
  OBVIOUS
<1>6. found(0, h) = Sought(0, h)
  BY <1>4, <1>5
<1>7. QED  BY <1>1, <1>6 DEF Sought, found

----------------------------------------------------------------------------
(* The invariant of the indexer.                                           *)

BlockAt(blocks, n) == IF n \in DOMAIN blocks THEN blocks[n] ELSE 0

\* The checkpoint a step starts from.
CheckpointOf(state) == IF state = NoCheckpoint THEN [lastBlock |-> DeployedAt - 1, lastHash |-> DeployedAt - 1] ELSE state

\* The blocks the store remembers, the checkpoint's own among them.
Remembered(s) == s.blocks \cup {<<CheckpointOf(s.state).lastBlock, CheckpointOf(s.state).lastHash>>}

\* No hash is used twice, and the logs are those of the chain's own blocks.
ChainSound(blocks, logs, next) ==
  /\ blocks \in Seq(Nat \ {0}) /\ next \in Nat
  /\ DeployedAt <= Len(blocks) /\ Len(blocks) <= IndexHorizon
  /\ \A n \in 1..DeployedAt : blocks[n] = n
  /\ \A n \in DOMAIN blocks : blocks[n] < next
  /\ Lawful(logs)
  /\ \A k \in DOMAIN logs : logs[k].block \in DOMAIN blocks /\ logs[k].hash = blocks[logs[k].block]

\* The tables are what the stored logs make of them, and nothing is above the
\* checkpoint.
StoreSound(s, next) ==
  /\ s = [state |-> s.state, logs |-> s.logs, tables |-> s.tables, blocks |-> s.blocks, winning |-> s.winning,
          quotes |-> s.quotes]
  /\ Lawful(s.logs) /\ s.tables = Projected(NoTables, s.logs) /\ s.winning = Winning(s.logs)
  /\ \A k \in DOMAIN s.logs : s.logs[k].block <= CheckpointOf(s.state).lastBlock
  /\ \A b \in Remembered(s) : b[1] \in Nat /\ b[1] <= CheckpointOf(s.state).lastBlock /\ b[2] \in Nat /\ 1 <= b[2] /\ b[2] < next
  /\ \A q \in s.quotes : q.closed \in Nat /\ DeployedAt < q.closed /\ q.closed <= CheckpointOf(s.state).lastBlock

\* Up to a block that is the chain's own, the stored logs and quotes are too.
TrueUpTo(s, blocks, logs, n) ==
  /\ upTo(s.logs, n) = upTo(logs, n)
  /\ \A q \in s.quotes : q.closed <= n => q.block \in 1..n /\ q.answer = BlockAt(blocks, q.block)
PairsAgree(s, blocks, logs) ==
  \A b \in Remembered(s) : BlockAt(blocks, b[1]) = b[2] => TrueUpTo(s, blocks, logs, b[1])

OnChain(s, blocks) == BlockAt(blocks, CheckpointOf(s.state).lastBlock) = CheckpointOf(s.state).lastHash

\* A range that was read goes on from the store, or the hash of a log shows
\* that the chain has moved.
RangeRead(s, blocks, logs, from, to, range) ==
  /\ OnChain(s, blocks) /\ from = CheckpointOf(s.state).lastBlock + 1 /\ from <= to /\ to \in DOMAIN blocks
  /\ Ordered(range) /\ upTo(logs, to) = s.logs \o range
  /\ \A k \in DOMAIN range : range[k].block \in from..to /\ range[k].hash = BlockAt(blocks, range[k].block)
RangeStale(blocks, next, range) ==
  \E k \in DOMAIN range : range[k].hash \in 1..next /\ range[k].hash # next /\ BlockAt(blocks, range[k].block) # range[k].hash

StageSound(phase, s, blocks, logs, next, from, to, range) ==
  /\ phase = "logs" => OnChain(s, blocks)
  /\ phase = "blocks" => RangeRead(s, blocks, logs, from, to, range) \/ RangeStale(blocks, next, range)

IndexInv ==
  /\ indexCase \in IndexCases
  /\ ChainSound(chainBlocks, chainLogs, nextHash) /\ StoreSound(store, nextHash)
  /\ PairsAgree(store, chainBlocks, chainLogs)
  /\ StageSound(indexStage, store, chainBlocks, chainLogs, nextHash, rangeFrom, rangeTo, rangeLogs)

\* The blocks of a sound chain.
LEMMA BlocksAre ==
  ASSUME NEW blocks, NEW logs, NEW next, ChainSound(blocks, logs, next)
  PROVE  /\ Len(blocks) \in Nat /\ DOMAIN blocks = 1..Len(blocks) /\ next \in Nat
         /\ \A n \in DOMAIN blocks : blocks[n] \in Nat /\ blocks[n] # 0 /\ blocks[n] < next /\ BlockAt(blocks, n) = blocks[n]
         /\ DeployedAt \in Nat /\ 2 <= DeployedAt /\ DeployedAt <= Len(blocks)
<1>1. blocks \in Seq(Nat \ {0}) /\ Len(blocks) \in Nat /\ DOMAIN blocks = 1..Len(blocks)
  BY LenProperties DEF ChainSound
<1>2. \A n \in DOMAIN blocks : blocks[n] \in Nat \ {0}
  BY <1>1, ElementOfSeq
<1>3. DeployedAt \in Nat /\ 2 <= DeployedAt
  BY IndexerAssumption
<1>4. QED  BY <1>1, <1>2, <1>3 DEF ChainSound, BlockAt

\* Nothing is logged at or below the deployment.
LEMMA UpToNone ==
  ASSUME NEW logs, Lawful(logs), NEW n \in Int, n <= DeployedAt, DeployedAt \in Nat
  PROVE  upTo(logs, n) = <<>>
<1> DEFINE front == upTo(logs, n)
<1>1. /\ Lawful(front)
      /\ \A k \in DOMAIN front : k \in DOMAIN logs /\ front[k] = logs[k] /\ logs[k].block <= n
  BY LawfulFront
<1> HIDE DEF front
<1>2. front \in Seq(LogSet) /\ Len(front) \in Nat /\ DOMAIN front = 1..Len(front)
  BY <1>1, LogsAre DEF Lawful
<1>3. Len(front) = 0
  <2> SUFFICES ASSUME Len(front) # 0 PROVE FALSE
    OBVIOUS
  <2>1. 1 \in DOMAIN front
    BY <1>2
  <2>2. 1 \in DOMAIN logs /\ logs[1].block <= n
    BY <1>1, <2>1
  <2>3. DeployedAt < logs[1].block /\ logs[1].block \in Nat
    BY <2>2, LogsAre DEF Lawful
  <2>4. QED  BY <2>2, <2>3
<1>4. front = <<>>
  BY <1>2, <1>3, EmptySeq
<1>5. QED  BY <1>4 DEF front

\* The node's search finds the first block with code, and the step's checkpoint.
LEMMA CheckpointIs ==
  ASSUME ChainSound(chainBlocks, chainLogs, nextHash)
  PROVE  /\ checkpoint = CheckpointOf(store.state) /\ initial = CheckpointOf(NoCheckpoint)
         /\ \A n : HashAt(n) = BlockAt(chainBlocks, n)
         /\ BlockAt(chainBlocks, DeployedAt - 1) = DeployedAt - 1
<1>1. /\ Len(chainBlocks) \in Nat /\ DOMAIN chainBlocks = 1..Len(chainBlocks)
      /\ DeployedAt \in Nat /\ 2 <= DeployedAt /\ DeployedAt <= Len(chainBlocks)
  BY BlocksAre
<1>2. Len(chainBlocks) <= IndexHorizon /\ IndexHorizon \in Nat
  BY IndexerAssumption DEF ChainSound
<1>3. firstBlockWithCode = DeployedAt
  BY <1>1, <1>2, SearchFinds DEF firstBlockWithCode
<1>4. \A n : HashAt(n) = BlockAt(chainBlocks, n)
  BY DEF HashAt, BlockAt
<1>5. BlockAt(chainBlocks, DeployedAt - 1) = DeployedAt - 1
  <2>1. DeployedAt - 1 \in 1..DeployedAt /\ DeployedAt - 1 \in DOMAIN chainBlocks
    BY <1>1
  <2>2. QED  BY <2>1 DEF BlockAt, ChainSound
<1>6. initial = [lastBlock |-> DeployedAt - 1, lastHash |-> DeployedAt - 1]
  BY <1>3, <1>4, <1>5 DEF initial
<1>7. QED  BY <1>4, <1>5, <1>6 DEF CheckpointOf, checkpoint

----------------------------------------------------------------------------
(* The chain grows and is cut.                                             *)

\* One block more: the old ones stay, and its hash is new.
LEMMA GrownIs ==
  ASSUME NEW blocks, NEW logs, NEW next, ChainSound(blocks, logs, next)
  PROVE  /\ Append(blocks, next) \in Seq(Nat \ {0}) /\ Len(Append(blocks, next)) = Len(blocks) + 1
         /\ DOMAIN Append(blocks, next) = 1..(Len(blocks) + 1)
         /\ \A n \in DOMAIN blocks : Append(blocks, next)[n] = blocks[n]
         /\ Append(blocks, next)[Len(blocks) + 1] = next
         /\ \A n, h : h < next /\ h # 0 /\ BlockAt(Append(blocks, next), n) = h => BlockAt(blocks, n) = h /\ n \in DOMAIN blocks
         /\ \A n \in DOMAIN blocks : BlockAt(Append(blocks, next), n) = BlockAt(blocks, n)
<1>1. /\ Len(blocks) \in Nat /\ DOMAIN blocks = 1..Len(blocks) /\ next \in Nat
      /\ \A n \in DOMAIN blocks : blocks[n] < next
      /\ 1 \in DOMAIN blocks
  BY BlocksAre
<1>2. blocks \in Seq(Nat \ {0}) /\ next \in Nat \ {0}
  <2>1. blocks[1] \in Nat /\ blocks[1] < next
    BY <1>1, BlocksAre
  <2>2. QED  BY <1>1, <2>1 DEF ChainSound
<1> DEFINE grown == Append(blocks, next)
<1>3. /\ grown \in Seq(Nat \ {0}) /\ Len(grown) = Len(blocks) + 1
      /\ \A i \in 1..Len(blocks) : grown[i] = blocks[i]
      /\ grown[Len(blocks) + 1] = next
  BY <1>2, AppendProperties
<1>4. DOMAIN grown = 1..(Len(blocks) + 1)
  BY <1>3, LenProperties
<1> HIDE DEF grown
<1>5. \A n \in DOMAIN grown : n \in DOMAIN blocks \/ n = Len(blocks) + 1
  BY <1>1, <1>4
<1>6. \A n \in DOMAIN blocks : n \in DOMAIN grown /\ grown[n] = blocks[n]
  BY <1>1, <1>3, <1>4
<1>7. ASSUME NEW n, NEW h, h < next, h # 0, BlockAt(grown, n) = h PROVE BlockAt(blocks, n) = h /\ n \in DOMAIN blocks
  <2>1. n \in DOMAIN grown /\ grown[n] = h
    BY <1>7 DEF BlockAt
  <2>2. n # Len(blocks) + 1
    <3>1. ~(next < next)
      BY <1>1
    <3>2. QED  BY <1>3, <1>7, <2>1, <3>1
  <2>3. QED  BY <1>5, <1>6, <2>1, <2>2 DEF BlockAt
<1>8. QED  BY <1>1, <1>3, <1>4, <1>6, <1>7 DEF grown, BlockAt

\* The blocks above keep are gone, the others are what they were.
LEMMA CutIs ==
  ASSUME NEW blocks, NEW logs, NEW next, ChainSound(blocks, logs, next), NEW keep \in DeployedAt..(Len(blocks) - 1)
  PROVE  /\ SubSeq(blocks, 1, keep) \in Seq(Nat \ {0}) /\ Len(SubSeq(blocks, 1, keep)) = keep
         /\ DOMAIN SubSeq(blocks, 1, keep) = 1..keep
         /\ \A n \in 1..keep : n \in DOMAIN blocks /\ SubSeq(blocks, 1, keep)[n] = blocks[n] /\ BlockAt(SubSeq(blocks, 1, keep), n) = BlockAt(blocks, n)
         /\ \A n : ~(n \in 1..keep) => BlockAt(SubSeq(blocks, 1, keep), n) = 0
<1>1. Len(blocks) \in Nat /\ DOMAIN blocks = 1..Len(blocks) /\ DeployedAt \in Nat /\ 2 <= DeployedAt
  BY BlocksAre
<1>2. blocks \in Seq(Nat \ {0})
  BY DEF ChainSound
<1>3. \A i \in 1..keep : i \in DOMAIN blocks
  BY <1>1
<1>4. \A i \in 1..keep : blocks[i] \in Nat \ {0}
  BY <1>1, <1>2, <1>3, ElementOfSeq
<1>5. 1 \in Int /\ keep \in Int /\ 1 <= keep
  BY <1>1
<1>6. /\ SubSeq(blocks, 1, keep) \in Seq(Nat \ {0})
      /\ Len(SubSeq(blocks, 1, keep)) = IF 1 <= keep THEN keep - 1 + 1 ELSE 0
      /\ \A i \in 1..(keep - 1 + 1) : SubSeq(blocks, 1, keep)[i] = blocks[1 + i - 1]
  BY <1>4, <1>5, SubSeqProperties
<1> DEFINE cut == SubSeq(blocks, 1, keep)
<1>7. cut \in Seq(Nat \ {0}) /\ Len(cut) = keep /\ \A i \in 1..keep : cut[i] = blocks[i]
  <2>1. keep - 1 + 1 = keep /\ \A i \in 1..keep : 1 + i - 1 = i
    BY <1>5
  <2>2. QED  BY <1>5, <1>6, <2>1
<1>8. DOMAIN cut = 1..keep
  BY <1>7, LenProperties
<1> HIDE DEF cut
<1>9. QED  BY <1>3, <1>7, <1>8 DEF cut, BlockAt

LEMMA GrownUpTo ==
  ASSUME NEW blocks, NEW logs, NEW next, NEW new, ChainSound(blocks, logs, next),
         Ordered(new), \A k \in DOMAIN new : new[k].block = Len(blocks) + 1
  PROVE  \A n \in DOMAIN blocks : upTo(logs \o new, n) = upTo(logs, n)
<1>1. Len(blocks) \in Nat /\ DOMAIN blocks = 1..Len(blocks)
  BY BlocksAre
<1>2. ASSUME NEW n \in DOMAIN blocks PROVE upTo(logs \o new, n) = upTo(logs, n)
  <2>1. Ordered(logs) /\ \A j \in DOMAIN logs : logs[j].block \in DOMAIN blocks
    BY DEF ChainSound, Lawful
  <2>2. n \in Int /\ \A k \in DOMAIN new : new[k].block > n
    BY <1>1
  <2>3. \A j \in DOMAIN logs, k \in DOMAIN new : logs[j].block <= new[k].block
    BY <1>1, <2>1
  <2>4. QED  BY <2>1, <2>2, <2>3, UpToJoined
<1>3. QED  BY <1>2

\* What the store says of a block that stays is true of a longer chain.
LEMMA GrownAgrees ==
  ASSUME NEW s, NEW blocks, NEW logs, NEW next, NEW new,
         ChainSound(blocks, logs, next), StoreSound(s, next), PairsAgree(s, blocks, logs),
         Ordered(new), \A k \in DOMAIN new : new[k].block = Len(blocks) + 1
  PROVE  PairsAgree(s, Append(blocks, next), logs \o new)
<1>1. /\ Len(blocks) \in Nat /\ DOMAIN blocks = 1..Len(blocks)
      /\ \A n \in DOMAIN blocks : blocks[n] \in Nat /\ blocks[n] # 0 /\ blocks[n] < next /\ BlockAt(blocks, n) = blocks[n]
  BY BlocksAre
<1>2. /\ \A n, h : h < next /\ h # 0 /\ BlockAt(Append(blocks, next), n) = h => BlockAt(blocks, n) = h /\ n \in DOMAIN blocks
      /\ \A n \in DOMAIN blocks : BlockAt(Append(blocks, next), n) = BlockAt(blocks, n)
  BY GrownIs
<1>3. \A n \in DOMAIN blocks : upTo(logs \o new, n) = upTo(logs, n)
  BY GrownUpTo
<1>4. ASSUME NEW b \in Remembered(s), BlockAt(Append(blocks, next), b[1]) = b[2]
      PROVE  TrueUpTo(s, Append(blocks, next), logs \o new, b[1])
  <2>1. b[2] < next /\ b[2] # 0
    BY DEF StoreSound
  <2>2. BlockAt(blocks, b[1]) = b[2] /\ b[1] \in DOMAIN blocks
    BY <1>2, <1>4, <2>1
  <2>3. TrueUpTo(s, blocks, logs, b[1])
    BY <2>2 DEF PairsAgree
  <2>4. \A m \in 1..b[1] : m \in DOMAIN blocks
    BY <1>1, <2>2
  <2>5. QED  BY <1>2, <1>3, <2>2, <2>3, <2>4 DEF TrueUpTo
<1>5. QED  BY <1>4 DEF PairsAgree

\* A range that was read, or is stale, stays so when the chain grows.
LEMMA GrownStage ==
  ASSUME NEW s, NEW blocks, NEW logs, NEW next, NEW new, NEW phase, NEW from, NEW to, NEW range,
         ChainSound(blocks, logs, next), StoreSound(s, next), PairsAgree(s, blocks, logs),
         StageSound(phase, s, blocks, logs, next, from, to, range),
         Ordered(new), \A k \in DOMAIN new : new[k].block = Len(blocks) + 1
  PROVE  StageSound(phase, s, Append(blocks, next), logs \o new, next + 1, from, to, range)
<1>1. /\ Len(blocks) \in Nat /\ DOMAIN blocks = 1..Len(blocks) /\ next \in Nat
      /\ \A n \in DOMAIN blocks : blocks[n] \in Nat /\ blocks[n] # 0 /\ blocks[n] < next /\ BlockAt(blocks, n) = blocks[n]
  BY BlocksAre
<1>2. /\ \A n, h : h < next /\ h # 0 /\ BlockAt(Append(blocks, next), n) = h => BlockAt(blocks, n) = h /\ n \in DOMAIN blocks
      /\ \A n \in DOMAIN blocks : BlockAt(Append(blocks, next), n) = BlockAt(blocks, n) /\ n \in DOMAIN Append(blocks, next)
  <2>1. \A n \in DOMAIN blocks : n \in DOMAIN Append(blocks, next)
    BY <1>1, GrownIs
  <2>2. QED  BY <2>1, GrownIs
<1>3. OnChain(s, blocks) => OnChain(s, Append(blocks, next))
  <2> SUFFICES ASSUME OnChain(s, blocks) PROVE OnChain(s, Append(blocks, next))
    OBVIOUS
  <2> DEFINE n == CheckpointOf(s.state).lastBlock
             h == CheckpointOf(s.state).lastHash
  <2>1. BlockAt(blocks, n) = h /\ h # 0
    <3>1. <<n, h>> \in Remembered(s)
      BY DEF Remembered
    <3>2. <<n, h>>[2] # 0
      BY <3>1 DEF StoreSound
    <3>3. QED  BY <3>2 DEF OnChain
  <2> HIDE DEF n, h
  <2>2. n \in DOMAIN blocks
    BY <2>1 DEF BlockAt
  <2>3. BlockAt(Append(blocks, next), n) = h
    BY <1>2, <2>1, <2>2
  <2>4. QED  BY <2>3 DEF OnChain, n, h
<1>4. ASSUME RangeRead(s, blocks, logs, from, to, range)
      PROVE  RangeRead(s, Append(blocks, next), logs \o new, from, to, range)
  <2>1. to \in DOMAIN blocks /\ from \in Int /\ 1 <= from
    <3>1. <<CheckpointOf(s.state).lastBlock, CheckpointOf(s.state).lastHash>> \in Remembered(s)
      BY DEF Remembered
    <3>2. CheckpointOf(s.state).lastBlock \in Nat
      BY <3>1 DEF StoreSound
    <3>3. QED  BY <1>4, <3>2 DEF RangeRead
  <2>2. upTo(logs \o new, to) = upTo(logs, to)
    <3>1. \A n \in DOMAIN blocks : upTo(logs \o new, n) = upTo(logs, n)
      BY GrownUpTo
    <3>2. QED  BY <2>1, <3>1
  <2>3. \A n \in from..to : n \in DOMAIN blocks
    BY <1>1, <2>1
  <2>4. \A k \in DOMAIN range : range[k].hash = BlockAt(Append(blocks, next), range[k].block)
    BY <1>2, <1>4, <2>3 DEF RangeRead
  <2>5. QED  BY <1>2, <1>3, <1>4, <2>1, <2>2, <2>4 DEF RangeRead
<1>5. ASSUME RangeStale(blocks, next, range)
      PROVE  RangeStale(Append(blocks, next), next + 1, range)
  <2>1. PICK k \in DOMAIN range : range[k].hash \in 1..next /\ range[k].hash # next /\ BlockAt(blocks, range[k].block) # range[k].hash
    BY <1>5 DEF RangeStale
  <2> DEFINE h == range[k].hash
             n == range[k].block
  <2>2. h < next /\ h # 0 /\ h \in 1..(next + 1) /\ h # next + 1
    BY <1>1, <2>1
  <2>5. BlockAt(blocks, n) # h
    BY <2>1
  <2> HIDE DEF h, n
  <2>3. BlockAt(Append(blocks, next), n) # h
    BY <1>2, <2>2, <2>5
  <2>4. QED  BY <2>2, <2>3 DEF RangeStale, h, n
<1>6. QED  BY <1>3, <1>4, <1>5 DEF StageSound

LEMMA GrownStore ==
  ASSUME NEW s, NEW next \in Nat, StoreSound(s, next) PROVE StoreSound(s, next + 1)
<1>1. \A b \in Remembered(s) : b[1] \in Nat /\ b[1] <= CheckpointOf(s.state).lastBlock /\ b[2] \in Nat /\ 1 <= b[2] /\ b[2] < next + 1
  BY DEF StoreSound
<1>2. QED  BY <1>1 DEF StoreSound

LEMMA MineBlockStep == ASSUME IndexInv, MineBlock PROVE IndexInv'
<1> DEFINE height == Len(chainBlocks) + 1
<1>1. PICK tx \in (indexCase.txs \ mined) \cup {"none"} : chainLogs' = chainLogs \o LogsMined(tx, height)
  BY DEF MineBlock
<1>2. Len(chainBlocks) < indexCase.height /\ chainBlocks' = Append(chainBlocks, nextHash) /\ nextHash' = nextHash + 1
  BY DEF MineBlock
<1>3. UNCHANGED <<indexCase, store, indexStage, rangeFrom, rangeTo, rangeLogs>>
  BY DEF MineBlock, theRange
<1>4. ChainSound(chainBlocks, chainLogs, nextHash) /\ StoreSound(store, nextHash)
      /\ PairsAgree(store, chainBlocks, chainLogs)
      /\ StageSound(indexStage, store, chainBlocks, chainLogs, nextHash, rangeFrom, rangeTo, rangeLogs)
      /\ indexCase \in IndexCases
  BY DEF IndexInv
<1>5. /\ Len(chainBlocks) \in Nat /\ DOMAIN chainBlocks = 1..Len(chainBlocks) /\ nextHash \in Nat
      /\ \A n \in DOMAIN chainBlocks : chainBlocks[n] < nextHash
      /\ DeployedAt \in Nat /\ 2 <= DeployedAt /\ DeployedAt <= Len(chainBlocks)
  BY <1>4, BlocksAre
<1>6. height \in Nat /\ DeployedAt < height /\ height <= IndexHorizon
  <2>1. indexCase.height \in DeployedAt..IndexHorizon /\ IndexHorizon \in Nat
    BY <1>4, IndexerAssumption
  <2>2. QED  BY <1>2, <1>5, <2>1
<1>7. \A k \in DOMAIN chainLogs : chainLogs[k].block < height
  BY <1>4, <1>5 DEF ChainSound
<1> DEFINE new == LogsMined(tx, height)
<1>8. tx \notin mined \/ new = <<>>
  BY <1>4, <1>5, <1>6, NoneMined DEF ChainSound
<1>9. /\ Ordered(new) /\ Lawful(chainLogs \o new)
      /\ \A k \in DOMAIN new : new[k].block = height /\ new[k].hash = nextHash
  <2>1. Lawful(chainLogs)
    BY <1>4 DEF ChainSound
  <2>2. QED  BY <1>5, <1>6, <1>7, <1>8, <2>1, LawfulMined
<1> HIDE DEF new
<1>10. /\ Append(chainBlocks, nextHash) \in Seq(Nat \ {0}) /\ Len(Append(chainBlocks, nextHash)) = height
       /\ DOMAIN Append(chainBlocks, nextHash) = 1..height
       /\ \A n \in DOMAIN chainBlocks : Append(chainBlocks, nextHash)[n] = chainBlocks[n]
       /\ Append(chainBlocks, nextHash)[height] = nextHash
  BY <1>4, GrownIs
<1> DEFINE grown == Append(chainBlocks, nextHash)
           more == chainLogs \o new
<1>11. ChainSound(grown, more, nextHash + 1)
  <2> HIDE DEF grown
  <2>1. \A n \in 1..DeployedAt : n \in DOMAIN chainBlocks
    BY <1>5
  <2>2. \A n \in 1..DeployedAt : grown[n] = n
    BY <1>4, <1>10, <2>1 DEF ChainSound, grown
  <2>3. \A n \in 1..height : n \in DOMAIN chainBlocks \/ n = height
    BY <1>5
  <2>4. \A n \in 1..height : grown[n] < nextHash + 1
    <3> SUFFICES ASSUME NEW n \in 1..height PROVE grown[n] < nextHash + 1
      OBVIOUS
    <3>1. CASE n = height
      BY <1>5, <1>10, <3>1 DEF grown
    <3>2. CASE n \in DOMAIN chainBlocks
      <4>1. grown[n] = chainBlocks[n] /\ chainBlocks[n] < nextHash /\ chainBlocks[n] \in Nat
        BY <1>4, <1>10, <3>2, BlocksAre DEF grown
      <4>2. QED  BY <1>5, <4>1
    <3>3. QED  BY <2>3, <3>1, <3>2
  <2>5. /\ DOMAIN more = 1..(Len(chainLogs) + Len(new))
        /\ \A k \in DOMAIN more : (k \in DOMAIN chainLogs /\ more[k] = chainLogs[k]) \/ (k - Len(chainLogs) \in DOMAIN new /\ more[k] = new[k - Len(chainLogs)])
    <3>1. Ordered(chainLogs) /\ \A j \in DOMAIN chainLogs : chainLogs[j].block \in Nat /\ chainLogs[j].block < height
      BY <1>4, <1>7, LogsAre DEF ChainSound, Lawful
    <3>2. \A j \in DOMAIN chainLogs, k \in DOMAIN new : chainLogs[j].block <= new[k].block
      BY <1>6, <1>9, <3>1
    <3>3. QED  BY <1>9, <3>1, <3>2, JoinOf
  <2> HIDE DEF more
  <2>6. ASSUME NEW k \in DOMAIN more PROVE more[k].block \in 1..height /\ more[k].hash = grown[more[k].block]
    <3>1. CASE k \in DOMAIN chainLogs /\ more[k] = chainLogs[k]
      <4>1. more[k].block \in DOMAIN chainBlocks /\ more[k].hash = chainBlocks[more[k].block]
        BY <1>4, <3>1 DEF ChainSound
      <4>2. QED  BY <1>5, <1>10, <4>1 DEF grown
    <3>2. CASE k - Len(chainLogs) \in DOMAIN new /\ more[k] = new[k - Len(chainLogs)]
      <4>1. more[k].block = height /\ more[k].hash = nextHash
        BY <1>9, <3>2
      <4>2. QED  BY <1>6, <1>10, <4>1 DEF grown
    <3>3. QED  BY <2>5, <3>1, <3>2
  <2>7. Lawful(more)
    BY <1>9 DEF more
  <2>8. grown \in Seq(Nat \ {0}) /\ Len(grown) = height /\ DOMAIN grown = 1..height
    BY <1>10 DEF grown
  <2>9. nextHash + 1 \in Nat /\ DeployedAt <= height
    BY <1>5, <1>6
  <2>10. QED  BY <1>6, <2>2, <2>4, <2>6, <2>7, <2>8, <2>9 DEF ChainSound
<1>12. StoreSound(store, nextHash + 1)
  BY <1>4, <1>5, GrownStore
<1>13. PairsAgree(store, grown, more)
  BY <1>4, <1>9, GrownAgrees
<1>14. StageSound(indexStage, store, grown, more, nextHash + 1, rangeFrom, rangeTo, rangeLogs)
  BY <1>4, <1>9, GrownStage
<1>15. chainBlocks' = grown /\ chainLogs' = more /\ nextHash' = nextHash + 1
  BY <1>1, <1>2 DEF new
<1> HIDE DEF grown, more
<1>16. QED  BY <1>3, <1>4, <1>11, <1>12, <1>13, <1>14, <1>15 DEF IndexInv

\* A rewritten chain is sound.
LEMMA CutSound ==
  ASSUME NEW blocks, NEW logs, NEW next, ChainSound(blocks, logs, next), NEW keep \in DeployedAt..(Len(blocks) - 1)
  PROVE  ChainSound(SubSeq(blocks, 1, keep), upTo(logs, keep), next)
<1> DEFINE cut == SubSeq(blocks, 1, keep)
           front == upTo(logs, keep)
<1>1. /\ cut \in Seq(Nat \ {0}) /\ Len(cut) = keep /\ DOMAIN cut = 1..keep
      /\ \A n \in 1..keep : n \in DOMAIN blocks /\ cut[n] = blocks[n]
  BY CutIs
<1> HIDE DEF cut
<1>2. /\ Len(blocks) \in Nat /\ DeployedAt \in Nat /\ 2 <= DeployedAt /\ next \in Nat
      /\ \A n \in DOMAIN blocks : blocks[n] < next
  BY BlocksAre
<1>3. keep \in Int /\ DeployedAt <= keep /\ keep <= Len(blocks)
  BY <1>2
<1>4. /\ Lawful(front)
      /\ \A k \in DOMAIN front : k \in DOMAIN logs /\ front[k] = logs[k] /\ logs[k].block <= keep
  BY <1>3, LawfulFront DEF ChainSound
<1> HIDE DEF front
<1>5. ASSUME NEW k \in DOMAIN front PROVE front[k].block \in DOMAIN cut /\ front[k].hash = cut[front[k].block]
  <2>1. logs[k].block \in DOMAIN blocks /\ logs[k].hash = blocks[logs[k].block] /\ logs[k].block <= keep
    BY <1>4 DEF ChainSound
  <2>2. logs[k].block \in Nat /\ 1 <= logs[k].block
    <3>1. DOMAIN blocks = 1..Len(blocks)
      BY BlocksAre
    <3>2. QED  BY <1>2, <2>1, <3>1
  <2>3. logs[k].block \in 1..keep
    BY <1>3, <2>1, <2>2
  <2>4. QED  BY <1>1, <1>4, <2>1, <2>3
<1>6. \A n \in 1..DeployedAt : n \in 1..keep
  BY <1>2, <1>3
<1>7. \A n \in 1..DeployedAt : cut[n] = n
  BY <1>1, <1>6 DEF ChainSound
<1>8. \A n \in DOMAIN cut : cut[n] < next
  BY <1>1, <1>2
<1>9. Len(cut) <= IndexHorizon
  <2>1. Len(blocks) <= IndexHorizon /\ IndexHorizon \in Nat
    BY IndexerAssumption DEF ChainSound
  <2>2. QED  BY <1>1, <1>2, <1>3, <2>1
<1>10. ChainSound(cut, front, next)
  BY <1>1, <1>2, <1>3, <1>4, <1>5, <1>7, <1>8, <1>9 DEF ChainSound
<1>11. QED  BY <1>10 DEF cut, front

\* A block that the shorter chain still has, and all below it, is what it was.
LEMMA CutAgrees ==
  ASSUME NEW s, NEW blocks, NEW logs, NEW next, ChainSound(blocks, logs, next), StoreSound(s, next),
         PairsAgree(s, blocks, logs), NEW keep \in DeployedAt..(Len(blocks) - 1)
  PROVE  PairsAgree(s, SubSeq(blocks, 1, keep), upTo(logs, keep))
<1> DEFINE cut == SubSeq(blocks, 1, keep)
           front == upTo(logs, keep)
<1>1. /\ \A n \in 1..keep : BlockAt(cut, n) = BlockAt(blocks, n)
      /\ \A n : ~(n \in 1..keep) => BlockAt(cut, n) = 0
  BY CutIs
<1>2. keep \in Int
  <2>1. Len(blocks) \in Nat /\ DeployedAt \in Nat
    BY BlocksAre
  <2>2. QED  BY <2>1
<1>3. \A n \in 1..keep : upTo(front, n) = upTo(logs, n)
  <2> SUFFICES ASSUME NEW n \in 1..keep PROVE upTo(front, n) = upTo(logs, n)
    OBVIOUS
  <2>1. Ordered(logs) /\ n \in Int /\ n <= keep
    BY <1>2 DEF ChainSound, Lawful
  <2>2. QED  BY <1>2, <2>1, UpToTwice
<1> HIDE DEF cut, front
<1>4. ASSUME NEW b \in Remembered(s), BlockAt(cut, b[1]) = b[2] PROVE TrueUpTo(s, cut, front, b[1])
  <2>1. b[2] # 0
    BY DEF StoreSound
  <2>2. b[1] \in 1..keep
    BY <1>1, <1>4, <2>1
  <2>3. TrueUpTo(s, blocks, logs, b[1])
    BY <1>1, <1>4, <2>2 DEF PairsAgree
  <2>4. \A m \in 1..b[1] : m \in 1..keep
    BY <1>2, <2>2
  <2>5. QED  BY <1>1, <1>3, <2>2, <2>3, <2>4 DEF TrueUpTo
<1>5. PairsAgree(s, cut, front)
  BY <1>4 DEF PairsAgree
<1>6. QED  BY <1>5 DEF cut, front

\* A rewrite leaves the range going on from the store, or stale by a log above the
\* cut.
LEMMA ReorgStep == ASSUME IndexInv, Reorg PROVE IndexInv'
<1>1. ChainSound(chainBlocks, chainLogs, nextHash) /\ StoreSound(store, nextHash)
      /\ PairsAgree(store, chainBlocks, chainLogs)
      /\ StageSound(indexStage, store, chainBlocks, chainLogs, nextHash, rangeFrom, rangeTo, rangeLogs)
      /\ indexCase \in IndexCases
  BY DEF IndexInv
<1>2. PICK keep \in DeployedAt..(Len(chainBlocks) - 1) :
       /\ \/ indexStage \notin {"logs", "blocks"}
          \/ indexStage = "logs" /\ keep >= checkpoint.lastBlock
          \/ indexStage = "blocks" /\ (keep >= rangeTo \/ \E l \in Range(rangeLogs) : l.block > keep)
       /\ chainBlocks' = SubSeq(chainBlocks, 1, keep) /\ chainLogs' = upTo(chainLogs, keep)
  BY DEF Reorg
<1>3. UNCHANGED <<indexCase, nextHash, store, indexStage, rangeFrom, rangeTo, rangeLogs>>
  BY DEF Reorg, theRange
<1> DEFINE cut == SubSeq(chainBlocks, 1, keep)
           front == upTo(chainLogs, keep)
<1>4. ChainSound(cut, front, nextHash) /\ PairsAgree(store, cut, front)
  BY <1>1, CutSound, CutAgrees
<1>5. /\ DOMAIN cut = 1..keep
      /\ \A n \in 1..keep : BlockAt(cut, n) = BlockAt(chainBlocks, n)
      /\ \A n : ~(n \in 1..keep) => BlockAt(cut, n) = 0
  BY <1>1, CutIs
<1>6. /\ Len(chainBlocks) \in Nat /\ DOMAIN chainBlocks = 1..Len(chainBlocks) /\ DeployedAt \in Nat /\ 2 <= DeployedAt
      /\ nextHash \in Nat
      /\ \A n \in DOMAIN chainBlocks : chainBlocks[n] \in Nat /\ chainBlocks[n] # 0 /\ chainBlocks[n] < nextHash /\ BlockAt(chainBlocks, n) = chainBlocks[n]
  BY <1>1, BlocksAre
<1>7. keep \in Nat /\ keep < Len(chainBlocks)
  BY <1>6
<1>8. <<CheckpointOf(store.state).lastBlock, CheckpointOf(store.state).lastHash>> \in Remembered(store)
  BY DEF Remembered
<1>9. CheckpointOf(store.state).lastBlock \in Nat /\ CheckpointOf(store.state).lastHash # 0
  BY <1>1, <1>8 DEF StoreSound
<1>10. ASSUME OnChain(store, chainBlocks), keep >= CheckpointOf(store.state).lastBlock PROVE OnChain(store, cut)
  <2> HIDE DEF cut
  <2>1. CheckpointOf(store.state).lastBlock \in DOMAIN chainBlocks
    BY <1>9, <1>10 DEF OnChain, BlockAt
  <2>2. CheckpointOf(store.state).lastBlock \in 1..keep
    BY <1>6, <1>7, <1>9, <1>10, <2>1
  <2>3. QED  BY <1>5, <1>10, <2>2 DEF OnChain
<1>11. CASE indexStage \notin {"logs", "blocks"}
  <2>1. StageSound(indexStage, store, cut, front, nextHash, rangeFrom, rangeTo, rangeLogs)
    BY <1>11 DEF StageSound
  <2>2. QED  BY <1>1, <1>2, <1>3, <1>4, <2>1 DEF IndexInv
<1>12. CASE indexStage = "logs" /\ keep >= checkpoint.lastBlock
  <2>1. checkpoint = CheckpointOf(store.state)
    BY <1>1, CheckpointIs
  <2>2. OnChain(store, cut)
    BY <1>1, <1>10, <1>12, <2>1 DEF StageSound
  <2>3. StageSound(indexStage, store, cut, front, nextHash, rangeFrom, rangeTo, rangeLogs)
    BY <1>12, <2>2 DEF StageSound
  <2>4. QED  BY <1>1, <1>2, <1>3, <1>4, <2>3 DEF IndexInv
<1>13. CASE indexStage = "blocks" /\ (keep >= rangeTo \/ \E l \in Range(rangeLogs) : l.block > keep)
  <2>1. ASSUME RangeRead(store, chainBlocks, chainLogs, rangeFrom, rangeTo, rangeLogs), keep >= rangeTo
        PROVE  RangeRead(store, cut, front, rangeFrom, rangeTo, rangeLogs)
    <3>1. rangeTo \in 1..keep /\ rangeTo \in Int /\ rangeFrom = CheckpointOf(store.state).lastBlock + 1 /\ rangeFrom <= rangeTo
      BY <1>6, <1>7, <2>1 DEF RangeRead
    <3>2. OnChain(store, cut)
      <4>1. keep >= CheckpointOf(store.state).lastBlock
        BY <1>7, <1>9, <3>1
      <4>2. QED  BY <1>10, <2>1, <4>1 DEF RangeRead
    <3>3. upTo(front, rangeTo) = upTo(chainLogs, rangeTo)
      <4>1. Ordered(chainLogs) /\ rangeTo <= keep /\ keep \in Int
        BY <1>1, <1>7, <2>1, <3>1 DEF ChainSound, Lawful
      <4>2. QED  BY <3>1, <4>1, UpToTwice
    <3> HIDE DEF cut, front
    <3>4. \A n \in rangeFrom..rangeTo : n \in 1..keep
      BY <1>7, <1>9, <3>1
    <3>5. \A k \in DOMAIN rangeLogs : rangeLogs[k].hash = BlockAt(cut, rangeLogs[k].block)
      BY <1>5, <2>1, <3>4 DEF RangeRead
    <3>6. QED  BY <1>5, <2>1, <3>1, <3>2, <3>3, <3>5 DEF RangeRead
  <2>2. ASSUME RangeRead(store, chainBlocks, chainLogs, rangeFrom, rangeTo, rangeLogs),
               \E l \in Range(rangeLogs) : l.block > keep
        PROVE  RangeStale(cut, nextHash, rangeLogs)
    <3>1. PICK k \in DOMAIN rangeLogs : rangeLogs[k].block > keep
      BY <2>2 DEF Range
    <3> DEFINE n == rangeLogs[k].block
               h == rangeLogs[k].hash
    <3>2. n \in rangeFrom..rangeTo /\ h = BlockAt(chainBlocks, n) /\ rangeTo \in DOMAIN chainBlocks /\ rangeFrom = CheckpointOf(store.state).lastBlock + 1
      BY <2>2 DEF RangeRead
    <3>3. n > keep
      BY <3>1
    <3> HIDE DEF n, h, cut
    <3>4. n \in DOMAIN chainBlocks
      BY <1>6, <1>9, <3>2
    <3>5. h \in Nat /\ h # 0 /\ h < nextHash
      BY <1>6, <3>2, <3>4
    <3>6. ~(n \in 1..keep)
      BY <1>7, <3>3
    <3>7. BlockAt(cut, n) # h /\ h \in 1..nextHash /\ h # nextHash
      BY <1>5, <1>6, <3>5, <3>6
    <3>8. QED  BY <3>7 DEF RangeStale, n, h
  <2>3. ASSUME RangeStale(chainBlocks, nextHash, rangeLogs) PROVE RangeStale(cut, nextHash, rangeLogs)
    <3>1. PICK k \in DOMAIN rangeLogs : rangeLogs[k].hash \in 1..nextHash /\ rangeLogs[k].hash # nextHash
                                       /\ BlockAt(chainBlocks, rangeLogs[k].block) # rangeLogs[k].hash
      BY <2>3 DEF RangeStale
    <3> DEFINE n == rangeLogs[k].block
               h == rangeLogs[k].hash
    <3>2. h \in 1..nextHash /\ h # nextHash /\ BlockAt(chainBlocks, n) # h
      BY <3>1
    <3> HIDE DEF n, h, cut
    <3>3. BlockAt(cut, n) # h
      <4>1. h # 0
        BY <3>2
      <4>2. QED  BY <1>5, <3>2, <4>1
    <3>4. QED  BY <3>2, <3>3 DEF RangeStale, n, h
  <2>4. StageSound(indexStage, store, cut, front, nextHash, rangeFrom, rangeTo, rangeLogs)
    BY <1>1, <1>13, <2>1, <2>2, <2>3 DEF StageSound
  <2>5. QED  BY <1>1, <1>2, <1>3, <1>4, <2>4 DEF IndexInv
<1>14. QED  BY <1>2, <1>11, <1>12, <1>13

\* Steps that touch neither the chain nor the store, and end where nothing is promised.
LEMMA QuietStep ==
  ASSUME IndexInv, UNCHANGED <<indexCase, chainBlocks, chainLogs, nextHash, store>>,
         indexStage' \notin {"logs", "blocks"} \/ UNCHANGED <<indexStage, rangeFrom, rangeTo, rangeLogs>>
  PROVE  IndexInv'
<1>1. CASE indexStage' \notin {"logs", "blocks"}
  <2>1. StageSound(indexStage', store, chainBlocks, chainLogs, nextHash, rangeFrom', rangeTo', rangeLogs')
    BY <1>1 DEF StageSound
  <2>2. QED  BY <2>1 DEF IndexInv
<1>2. CASE UNCHANGED <<indexStage, rangeFrom, rangeTo, rangeLogs>>
  BY <1>2 DEF IndexInv
<1>3. QED  BY <1>1, <1>2

\* Back to a stored block that the chain has, the store is what it would have been
\* there.
LEMMA RewoundSound ==
  ASSUME IndexInv, NEW n \in Nat, NEW h \in Nat, BlockAt(chainBlocks, n) = h, h # 0,
         TrueUpTo(store, chainBlocks, chainLogs, n)
  PROVE  /\ StoreSound(rewindTo(n, h), nextHash) /\ PairsAgree(rewindTo(n, h), chainBlocks, chainLogs)
         /\ OnChain(rewindTo(n, h), chainBlocks)
<1> DEFINE s == rewindTo(n, h)
           logs == upTo(store.logs, n)
<1>1. ChainSound(chainBlocks, chainLogs, nextHash) /\ StoreSound(store, nextHash)
      /\ PairsAgree(store, chainBlocks, chainLogs)
  BY DEF IndexInv
<1>2. /\ s = [state |-> [lastBlock |-> n, lastHash |-> h], logs |-> logs, tables |-> Projected(NoTables, logs),
              blocks |-> {b \in store.blocks : b[1] <= n},
              winning |-> {w \in store.winning : w.block <= n},
              quotes |-> {q \in store.quotes : q.closed <= n}]
  BY DEF rewindTo
<1> HIDE DEF s, logs
<1>3. /\ s = [state |-> s.state, logs |-> s.logs, tables |-> s.tables, blocks |-> s.blocks, winning |-> s.winning, quotes |-> s.quotes]
      /\ s.state = [lastBlock |-> n, lastHash |-> h] /\ s.logs = logs /\ s.tables = Projected(NoTables, logs)
      /\ s.blocks = {b \in store.blocks : b[1] <= n}
      /\ s.winning = {w \in store.winning : w.block <= n} /\ s.quotes = {q \in store.quotes : q.closed <= n}
  BY <1>2
<1>4. n \in DOMAIN chainBlocks /\ n # 0 /\ h < nextHash
  <2>1. /\ DOMAIN chainBlocks = 1..Len(chainBlocks) /\ Len(chainBlocks) \in Nat
        /\ \A m \in DOMAIN chainBlocks : chainBlocks[m] < nextHash /\ BlockAt(chainBlocks, m) = chainBlocks[m]
    BY <1>1, BlocksAre
  <2>2. n \in DOMAIN chainBlocks
    BY DEF BlockAt
  <2>3. n # 0
    BY <2>1, <2>2
  <2>4. QED  BY <2>1, <2>2, <2>3
<1>5. CheckpointOf(s.state) = [lastBlock |-> n, lastHash |-> h]
  <2>1. s.state # NoCheckpoint
    BY <1>3, <1>4 DEF NoCheckpoint
  <2>2. QED  BY <1>3, <2>1 DEF CheckpointOf
<1>6. /\ Lawful(logs) /\ \A k \in DOMAIN logs : logs[k].block <= n
  <2>1. Lawful(store.logs)
    BY <1>1 DEF StoreSound
  <2>2. Lawful(upTo(store.logs, n)) /\ \A k \in DOMAIN upTo(store.logs, n) : upTo(store.logs, n)[k].block <= n
    BY <2>1, LawfulFront
  <2>3. QED  BY <2>2 DEF logs
<1>7. s.winning = Winning(s.logs)
  <2>1. Lawful(store.logs) /\ store.winning = Winning(store.logs)
    BY <1>1 DEF StoreSound
  <2>2. {w \in Winning(store.logs) : w.block <= n} = Winning(upTo(store.logs, n))
    BY <2>1, WinsUpTo
  <2>3. QED  BY <1>3, <2>1, <2>2 DEF logs
<1>8. Remembered(s) = {b \in store.blocks : b[1] <= n} \cup {<<n, h>>}
  BY <1>3, <1>5 DEF Remembered
<1>9. \A b \in store.blocks : b \in Remembered(store)
  BY DEF Remembered
<1>10. \A b \in Remembered(s) : b[1] \in Nat /\ b[1] <= n /\ b[2] \in Nat /\ 1 <= b[2] /\ b[2] < nextHash
  <2> SUFFICES ASSUME NEW b \in Remembered(s) PROVE b[1] \in Nat /\ b[1] <= n /\ b[2] \in Nat /\ 1 <= b[2] /\ b[2] < nextHash
    OBVIOUS
  <2>1. CASE b \in store.blocks /\ b[1] <= n
    BY <1>1, <1>9, <2>1 DEF StoreSound
  <2>2. CASE b = <<n, h>>
    BY <1>4, <2>2
  <2>3. QED  BY <1>8, <2>1, <2>2
<1>11. StoreSound(s, nextHash)
  <2>1. \A q \in s.quotes : q.closed \in Nat /\ DeployedAt < q.closed /\ q.closed <= n
    BY <1>1, <1>3 DEF StoreSound
  <2>2. QED  BY <1>3, <1>5, <1>6, <1>7, <1>10, <2>1 DEF StoreSound
<1>12. ASSUME NEW b \in Remembered(s), BlockAt(chainBlocks, b[1]) = b[2] PROVE TrueUpTo(s, chainBlocks, chainLogs, b[1])
  <2>1. b[1] \in Nat /\ b[1] <= n
    BY <1>10
  <2>2. TrueUpTo(store, chainBlocks, chainLogs, b[1])
    <3>1. CASE b \in store.blocks
      BY <1>1, <1>9, <1>12, <3>1 DEF PairsAgree
    <3>2. CASE b = <<n, h>>
      BY <3>2
    <3>3. QED  BY <1>8, <3>1, <3>2
  <2>3. upTo(logs, b[1]) = upTo(store.logs, b[1])
    <3>1. Ordered(store.logs)
      BY <1>1 DEF StoreSound, Lawful
    <3>2. upTo(upTo(store.logs, n), b[1]) = upTo(store.logs, b[1])
      BY <2>1, <3>1, UpToTwice
    <3>3. QED  BY <3>2 DEF logs
  <2>4. QED  BY <1>3, <2>2, <2>3 DEF TrueUpTo
<1>13. PairsAgree(s, chainBlocks, chainLogs)
  BY <1>12 DEF PairsAgree
<1>14. OnChain(s, chainBlocks)
  BY <1>5 DEF OnChain
<1>15. QED  BY <1>11, <1>13, <1>14 DEF s

\* Nothing is stored below the first block with code.
LEMMA NothingBelow ==
  ASSUME IndexInv
  PROVE  /\ DeployedAt - 1 \in Nat /\ DeployedAt - 1 # 0 /\ BlockAt(chainBlocks, DeployedAt - 1) = DeployedAt - 1
         /\ TrueUpTo(store, chainBlocks, chainLogs, DeployedAt - 1)
<1>1. ChainSound(chainBlocks, chainLogs, nextHash) /\ StoreSound(store, nextHash)
  BY DEF IndexInv
<1>2. DeployedAt \in Nat /\ 2 <= DeployedAt
  BY <1>1, BlocksAre
<1>3. BlockAt(chainBlocks, DeployedAt - 1) = DeployedAt - 1
  BY <1>1, CheckpointIs
<1>4. Lawful(store.logs) /\ Lawful(chainLogs)
  BY <1>1 DEF StoreSound, ChainSound
<1>5. upTo(store.logs, DeployedAt - 1) = <<>> /\ upTo(chainLogs, DeployedAt - 1) = <<>>
  <2>1. DeployedAt - 1 \in Int /\ DeployedAt - 1 <= DeployedAt
    BY <1>2
  <2>2. QED  BY <1>2, <1>4, <2>1, UpToNone
<1>6. \A q \in store.quotes : ~(q.closed <= DeployedAt - 1)
  BY <1>1, <1>2 DEF StoreSound
<1>7. QED  BY <1>2, <1>3, <1>5, <1>6 DEF TrueUpTo

\* There is a newest common block.
LEMMA NewestOf ==
  ASSUME NEW common, NEW n \in Nat, \A b \in common : b[1] \in Nat /\ b[1] <= n, common # {}
  PROVE  LET highest == CHOOSE b \in common : \A x \in common : x[1] <= b[1] IN highest \in common
<1> DEFINE heights == {b[1] : b \in common}
<1>1. heights \subseteq 0..n /\ heights # {}
  OBVIOUS
<1>2. \A k \in heights : \E b \in common : b[1] = k
  OBVIOUS
<1>3. \A b \in common : b[1] \in heights
  OBVIOUS
<1> HIDE DEF heights
<1>4. IsFiniteSet(heights) /\ \A k \in heights : k \in Nat
  <2>1. 0 \in Int /\ n \in Int
    OBVIOUS
  <2>2. \A k \in heights : k \in Nat
    BY <1>1
  <2>3. QED  BY <1>1, <2>1, <2>2, FS_Interval, FS_Subset
<1>5. PICK k \in heights : \A j \in heights : j <= k
  BY <1>1, <1>4, LastPosition
<1>6. \E b \in common : \A x \in common : x[1] <= b[1]
  BY <1>2, <1>3, <1>5
<1>7. QED  BY <1>6

\* A step from the check leaves the checkpoint on the chain, when it goes on.
LEMMA GoesOn ==
  ASSUME IndexInv, UNCHANGED <<indexCase, chainBlocks, chainLogs, nextHash>>, indexStage' = "logs",
         StoreSound(store', nextHash), PairsAgree(store', chainBlocks, chainLogs), OnChain(store', chainBlocks)
  PROVE  IndexInv'
<1>1. StageSound(indexStage', store', chainBlocks, chainLogs, nextHash, rangeFrom', rangeTo', rangeLogs')
  BY DEF StageSound
<1>2. QED  BY <1>1 DEF IndexInv

LEMMA CheckChainStep == ASSUME IndexInv, checkChain PROVE IndexInv'
<1>1. ChainSound(chainBlocks, chainLogs, nextHash) /\ StoreSound(store, nextHash)
      /\ PairsAgree(store, chainBlocks, chainLogs)
  BY DEF IndexInv
<1>2. UNCHANGED <<indexCase, chainBlocks, chainLogs, nextHash, rangeFrom, rangeTo, rangeLogs>>
  BY DEF checkChain, theChain, theRange
<1>3. /\ checkpoint = CheckpointOf(store.state) /\ initial = CheckpointOf(NoCheckpoint)
      /\ \A n : HashAt(n) = BlockAt(chainBlocks, n)
  BY <1>1, CheckpointIs
<1>4. CASE HashAt(checkpoint.lastBlock) = checkpoint.lastHash
  <2>1. indexStage' = "logs" /\ store' = store
    BY <1>4 DEF checkChain
  <2>2. OnChain(store, chainBlocks)
    BY <1>3, <1>4 DEF OnChain
  <2>3. QED  BY <1>1, <1>2, <2>1, <2>2, GoesOn
<1>5. CASE HashAt(checkpoint.lastBlock) # checkpoint.lastHash
  <2> DEFINE common == {b \in storedBlocks(checkpoint.lastBlock) : HashAt(b[1]) = b[2]}
             highest == CHOOSE b \in common : \A x \in common : x[1] <= b[1]
  <2>1. rewind(checkpoint)
    BY <1>5 DEF checkChain
  <2>2. CASE common # {}
    <3>1. store' = rewindTo(highest[1], highest[2]) /\ indexStage' = "logs"
      BY <2>1, <2>2 DEF rewind
    <3>2. \A b \in common : b \in store.blocks /\ HashAt(b[1]) = b[2]
      BY DEF storedBlocks
    <3> HIDE DEF common
    <3>3. \A b \in common : b \in Remembered(store)
      BY <3>2 DEF Remembered
    <3>4. \A b \in common : b[1] \in Nat /\ b[1] <= CheckpointOf(store.state).lastBlock /\ b[2] \in Nat /\ b[2] # 0
      BY <1>1, <3>3 DEF StoreSound
    <3>5. CheckpointOf(store.state).lastBlock \in Nat
      <4>1. <<CheckpointOf(store.state).lastBlock, CheckpointOf(store.state).lastHash>> \in Remembered(store)
        BY DEF Remembered
      <4>2. QED  BY <1>1, <4>1 DEF StoreSound
    <3>6. highest \in common
      BY <2>2, <3>4, <3>5, NewestOf
    <3> HIDE DEF highest
    <3>7. highest[1] \in Nat /\ highest[2] \in Nat /\ highest[2] # 0 /\ BlockAt(chainBlocks, highest[1]) = highest[2]
      BY <1>3, <3>2, <3>4, <3>6
    <3>8. TrueUpTo(store, chainBlocks, chainLogs, highest[1])
      BY <1>1, <3>3, <3>6, <3>7 DEF PairsAgree
    <3> DEFINE n == highest[1]
               h == highest[2]
    <3> HIDE DEF n, h
    <3>9. StoreSound(rewindTo(n, h), nextHash) /\ PairsAgree(rewindTo(n, h), chainBlocks, chainLogs)
          /\ OnChain(rewindTo(n, h), chainBlocks)
      <4>1. n \in Nat /\ h \in Nat /\ h # 0 /\ BlockAt(chainBlocks, n) = h /\ TrueUpTo(store, chainBlocks, chainLogs, n)
        BY <3>7, <3>8 DEF n, h
      <4>2. QED  BY <4>1, RewoundSound
    <3>10. store' = rewindTo(n, h)
      BY <3>1 DEF n, h
    <3>11. QED  BY <1>2, <3>1, <3>9, <3>10, GoesOn
  <2>3. CASE common = {}
    <3>1. \/ indexStage' \in {"stopped", "check"} /\ UNCHANGED store
          \/ store' = rewindTo(initial.lastBlock, initial.lastHash) /\ indexStage' = "logs"
      BY <2>1, <2>3 DEF rewind
    <3>2. CASE indexStage' \in {"stopped", "check"} /\ UNCHANGED store
      <4>1. indexStage' \notin {"logs", "blocks"}
        BY <3>2
      <4>2. QED  BY <1>2, <3>2, <4>1, QuietStep
    <3>3. CASE store' = rewindTo(initial.lastBlock, initial.lastHash) /\ indexStage' = "logs"
      <4> DEFINE d == DeployedAt - 1
      <4>1. initial.lastBlock = d /\ initial.lastHash = d
        BY <1>3 DEF CheckpointOf
      <4>2. d \in Nat /\ d # 0 /\ BlockAt(chainBlocks, d) = d /\ TrueUpTo(store, chainBlocks, chainLogs, d)
        BY NothingBelow
      <4> HIDE DEF d
      <4>3. StoreSound(rewindTo(d, d), nextHash) /\ PairsAgree(rewindTo(d, d), chainBlocks, chainLogs)
            /\ OnChain(rewindTo(d, d), chainBlocks)
        BY <4>2, RewoundSound
      <4>4. store' = rewindTo(d, d)
        BY <3>3, <4>1
      <4>5. QED  BY <1>2, <3>3, <4>3, <4>4, GoesOn
    <3>4. QED  BY <3>1, <3>2, <3>3
  <2>4. QED  BY <2>2, <2>3
<1>6. QED  BY <1>4, <1>5

LEMMA ReadRangeStep == ASSUME IndexInv, readRange PROVE IndexInv'
<1> DEFINE last == checkpoint.lastBlock
           to == IF safeHead < last + MaxRange THEN safeHead ELSE last + MaxRange
<1>1. ChainSound(chainBlocks, chainLogs, nextHash) /\ StoreSound(store, nextHash)
      /\ PairsAgree(store, chainBlocks, chainLogs) /\ indexCase \in IndexCases
      /\ StageSound(indexStage, store, chainBlocks, chainLogs, nextHash, rangeFrom, rangeTo, rangeLogs)
  BY DEF IndexInv
<1>2. UNCHANGED <<indexCase, chainBlocks, chainLogs, nextHash, store>> /\ indexStage = "logs"
  BY DEF readRange, theChain
<1>3. checkpoint = CheckpointOf(store.state) /\ \A n : HashAt(n) = BlockAt(chainBlocks, n)
  BY <1>1, CheckpointIs
<1>4. OnChain(store, chainBlocks)
  BY <1>1, <1>2 DEF StageSound
<1>5. last \in Nat
  <2>1. <<CheckpointOf(store.state).lastBlock, CheckpointOf(store.state).lastHash>> \in Remembered(store)
    BY DEF Remembered
  <2>2. QED  BY <1>1, <1>3, <2>1 DEF StoreSound
<1>6. /\ Len(chainBlocks) \in Nat /\ DOMAIN chainBlocks = 1..Len(chainBlocks)
      /\ \A n \in DOMAIN chainBlocks : BlockAt(chainBlocks, n) = chainBlocks[n]
  BY <1>1, BlocksAre
<1>7. to \in Nat /\ to <= Len(chainBlocks)
  <2>1. indexCase.confirmations \in Nat /\ MaxRange \in Nat
    BY <1>1, IndexerAssumption
  <2>2. safeHead \in Nat /\ safeHead <= Len(chainBlocks)
    BY <1>6, <2>1 DEF safeHead
  <2> HIDE DEF last
  <2>3. QED  BY <1>5, <1>6, <2>1, <2>2
<1>8. CASE to < last + 1
  <2>1. indexStage' = "caught"
    BY <1>8 DEF readRange
  <2>2. indexStage' \notin {"logs", "blocks"}
    BY <2>1
  <2>3. QED  BY <1>2, <2>2, QuietStep
<1>9. CASE ~(to < last + 1)
  <2>1. rangeFrom' = last + 1 /\ rangeTo' = to /\ rangeLogs' = LogsBetween(last + 1, to) /\ indexStage' = "blocks"
    BY <1>9 DEF readRange
  <2>2. CheckpointOf(store.state).lastBlock = last
    BY <1>3
  <2> HIDE DEF last, to
  <2> DEFINE from == last + 1
             range == LogsBetween(from, to)
  <2>3. from \in Int /\ to \in Int /\ from <= to + 1 /\ from - 1 = last /\ from <= to /\ to \in DOMAIN chainBlocks
    BY <1>5, <1>6, <1>7, <1>9
  <2>4. Ordered(chainLogs)
    BY <1>1 DEF ChainSound, Lawful
  <2> HIDE DEF from
  <2>5. /\ upTo(chainLogs, to) = upTo(chainLogs, from - 1) \o range
        /\ Ordered(range)
        /\ \A k \in DOMAIN range : \E i \in DOMAIN chainLogs : range[k] = chainLogs[i] /\ from <= chainLogs[i].block /\ chainLogs[i].block <= to
    <3>1. range = Between(chainLogs, from, to)
      BY DEF LogsBetween, Between
    <3> HIDE DEF range
    <3>2. from \in Int /\ to \in Int /\ from <= to + 1
      BY <2>3
    <3>3. /\ upTo(chainLogs, to) = upTo(chainLogs, from - 1) \o Between(chainLogs, from, to)
          /\ Ordered(Between(chainLogs, from, to))
          /\ \A k \in DOMAIN Between(chainLogs, from, to) :
               \E i \in DOMAIN chainLogs : Between(chainLogs, from, to)[k] = chainLogs[i] /\ from <= chainLogs[i].block /\ chainLogs[i].block <= to
      BY <2>4, <3>2, UpToSplit
    <3>4. QED  BY <3>1, <3>3
  <2> HIDE DEF range
  <2>6. upTo(chainLogs, last) = store.logs
    <3>1. TrueUpTo(store, chainBlocks, chainLogs, last)
      <4> DEFINE b == <<CheckpointOf(store.state).lastBlock, CheckpointOf(store.state).lastHash>>
      <4>1. b \in Remembered(store)
        BY DEF Remembered
      <4>2. b[1] = last /\ BlockAt(chainBlocks, b[1]) = b[2]
        BY <1>4, <2>2 DEF OnChain
      <4> HIDE DEF b
      <4>3. QED  BY <1>1, <4>1, <4>2 DEF PairsAgree
    <3>2. Ordered(store.logs) /\ \A k \in DOMAIN store.logs : store.logs[k].block <= last
      BY <1>1, <2>2 DEF StoreSound, Lawful
    <3>3. upTo(store.logs, last) = store.logs
      BY <1>5, <3>2, UpToAll
    <3>4. QED  BY <3>1, <3>3 DEF TrueUpTo
  <2>7. ASSUME NEW k \in DOMAIN range PROVE range[k].block \in from..to /\ range[k].hash = BlockAt(chainBlocks, range[k].block)
    <3>1. PICK i \in DOMAIN chainLogs : range[k] = chainLogs[i] /\ from <= chainLogs[i].block /\ chainLogs[i].block <= to
      BY <2>5
    <3>2. chainLogs[i].block \in DOMAIN chainBlocks /\ chainLogs[i].hash = chainBlocks[chainLogs[i].block]
      BY <1>1 DEF ChainSound
    <3>3. chainLogs[i].block \in Int
      BY <1>6, <3>2
    <3>4. QED  BY <1>6, <2>3, <3>1, <3>2, <3>3
  <2>8. from = CheckpointOf(store.state).lastBlock + 1
    BY <2>2 DEF from
  <2>9. upTo(chainLogs, to) = store.logs \o range
    BY <2>3, <2>5, <2>6
  <2>10. RangeRead(store, chainBlocks, chainLogs, from, to, range)
    BY <1>4, <2>3, <2>5, <2>7, <2>8, <2>9 DEF RangeRead
  <2>11. StageSound("blocks", store, chainBlocks, chainLogs, nextHash, from, to, range)
    BY <2>10 DEF StageSound
  <2>12. rangeFrom' = from /\ rangeTo' = to /\ rangeLogs' = range
    BY <2>1 DEF from, range
  <2>13. QED  BY <1>1, <1>2, <2>1, <2>11, <2>12 DEF IndexInv
<1>10. QED  BY <1>8, <1>9

\* The range goes on where the store ends.
LEMMA ContinuedIs ==
  ASSUME NEW s, NEW blocks, NEW logs, NEW next, NEW from, NEW to, NEW range,
         ChainSound(blocks, logs, next), StoreSound(s, next), RangeRead(s, blocks, logs, from, to, range)
  PROVE  /\ Lawful(s.logs \o range) /\ Ordered(s.logs) /\ Ordered(range)
         /\ \A j \in DOMAIN s.logs, k \in DOMAIN range : s.logs[j].block <= range[k].block
         /\ \A k \in DOMAIN (s.logs \o range) : (s.logs \o range)[k].block <= to
         /\ firstSight(range, s.logs) = range
         /\ from \in Nat /\ to \in Nat /\ from - 1 = CheckpointOf(s.state).lastBlock
<1> DEFINE more == s.logs \o range
           last == CheckpointOf(s.state).lastBlock
<1>1. last \in Nat
  <2>1. <<CheckpointOf(s.state).lastBlock, CheckpointOf(s.state).lastHash>> \in Remembered(s)
    BY DEF Remembered
  <2>2. QED  BY <2>1 DEF StoreSound
<1>2. from = last + 1 /\ from <= to /\ to \in DOMAIN blocks
  BY DEF RangeRead
<1>3. /\ \A k \in DOMAIN s.logs : s.logs[k].block <= last
      /\ \A k \in DOMAIN range : range[k].block \in from..to
      /\ Ordered(s.logs) /\ Ordered(range) /\ Lawful(logs) /\ upTo(logs, to) = more
  BY DEF RangeRead, StoreSound, ChainSound, Lawful
<1>4. Len(blocks) \in Nat /\ DOMAIN blocks = 1..Len(blocks)
  BY BlocksAre
<1> HIDE DEF last, more
<1>5. from \in Nat /\ to \in Nat /\ from - 1 = last
  BY <1>1, <1>2, <1>4
<1>6. \A j \in DOMAIN s.logs : s.logs[j].block \in Nat
  BY <1>3, LogsAre
<1>7. \A j \in DOMAIN s.logs, k \in DOMAIN range : s.logs[j].block < range[k].block
  BY <1>1, <1>2, <1>3, <1>5, <1>6
<1>8. \A j \in DOMAIN s.logs, k \in DOMAIN range : s.logs[j].block <= range[k].block
  BY <1>1, <1>2, <1>3, <1>5, <1>6
<1>9. Lawful(more) /\ \A k \in DOMAIN more : more[k].block <= to
  <2>1. Lawful(upTo(logs, to)) /\ \A k \in DOMAIN upTo(logs, to) : upTo(logs, to)[k].block <= to
    <3>1. to \in Int
      BY <1>5
    <3>2. QED  BY <1>3, <3>1, LawfulFront
  <2>2. QED  BY <1>3, <2>1
<1>10. /\ \A k \in DOMAIN s.logs : k \in DOMAIN more /\ more[k] = s.logs[k]
       /\ \A k \in DOMAIN range : Len(s.logs) + k \in DOMAIN more /\ more[Len(s.logs) + k] = range[k]
  BY <1>3, <1>8, JoinOf DEF more
<1>11. firstSight(range, s.logs) = range
  <2>1. \A k \in DOMAIN range : \A r \in Range(s.logs) : r.tx # range[k].tx \/ r.event # range[k].event
    <3> SUFFICES ASSUME NEW k \in DOMAIN range, NEW r \in Range(s.logs), r.tx = range[k].tx, r.event = range[k].event PROVE FALSE
      OBVIOUS
    <3>1. PICK j \in DOMAIN s.logs : r = s.logs[j]
      BY DEF Range
    <3>2. more[j] = r /\ j \in DOMAIN more /\ more[Len(s.logs) + k] = range[k] /\ Len(s.logs) + k \in DOMAIN more
      BY <1>10, <3>1
    <3>3. j = Len(s.logs) + k
      <4> DEFINE i == Len(s.logs) + k
      <4>1. i \in DOMAIN more /\ more[i].tx = more[j].tx /\ more[i].event = more[j].event
        BY <3>2
      <4> HIDE DEF i
      <4>2. i = j
        BY <1>9, <3>2, <4>1 DEF Lawful
      <4>3. QED  BY <4>2 DEF i
    <3>4. s.logs[j].block = range[k].block
      BY <3>1, <3>2, <3>3
    <3>5. s.logs[j].block \in Nat /\ s.logs[j].block < range[k].block
      BY <1>6, <1>7
    <3>6. QED  BY <3>4, <3>5
  <2>2. range \in Seq(LogSet)
    BY <1>3 DEF Ordered
  <2>3. QED  BY <2>1, <2>2, NoneSighted
<1>12. QED  BY <1>3, <1>5, <1>8, <1>9, <1>11 DEF more, last

\* Committing a range the chain still has leaves the store true up to its end.
LEMMA CommittedSound ==
  ASSUME IndexInv, RangeRead(store, chainBlocks, chainLogs, rangeFrom, rangeTo, rangeLogs),
         NEW s, s = commit(rangeTo, HashAt(rangeTo), {<<n, HashAt(n)>> : n \in {rangeTo} \cup {l.block : l \in Range(rangeLogs)}}, rangeLogs)
  PROVE  StoreSound(s, nextHash) /\ PairsAgree(s, chainBlocks, chainLogs)
<1> DEFINE more == store.logs \o rangeLogs
           seen == {<<n, HashAt(n)>> : n \in {rangeTo} \cup {l.block : l \in Range(rangeLogs)}}
           blocksNow == {b \in store.blocks : b[1] \notin {c[1] : c \in seen}} \cup seen
           last == CheckpointOf(store.state).lastBlock
<1>1. ChainSound(chainBlocks, chainLogs, nextHash) /\ StoreSound(store, nextHash)
      /\ PairsAgree(store, chainBlocks, chainLogs)
  BY DEF IndexInv
<1>2. /\ Lawful(more) /\ Ordered(store.logs) /\ Ordered(rangeLogs)
      /\ \A j \in DOMAIN store.logs, k \in DOMAIN rangeLogs : store.logs[j].block <= rangeLogs[k].block
      /\ \A k \in DOMAIN more : more[k].block <= rangeTo
      /\ firstSight(rangeLogs, store.logs) = rangeLogs
      /\ rangeFrom \in Nat /\ rangeTo \in Nat /\ rangeFrom - 1 = last
  BY <1>1, ContinuedIs
<1>3. /\ \A n : HashAt(n) = BlockAt(chainBlocks, n)
      /\ Len(chainBlocks) \in Nat /\ DOMAIN chainBlocks = 1..Len(chainBlocks)
      /\ \A n \in DOMAIN chainBlocks : BlockAt(chainBlocks, n) \in Nat /\ BlockAt(chainBlocks, n) # 0 /\ BlockAt(chainBlocks, n) < nextHash
  BY <1>1, BlocksAre, CheckpointIs
<1>4. /\ rangeTo \in DOMAIN chainBlocks /\ OnChain(store, chainBlocks) /\ upTo(chainLogs, rangeTo) = more
      /\ rangeFrom <= rangeTo /\ \A k \in DOMAIN rangeLogs : rangeLogs[k].block \in rangeFrom..rangeTo
  BY DEF RangeRead
<1>5. s = [state |-> [lastBlock |-> rangeTo, lastHash |-> HashAt(rangeTo)],
           logs |-> more,
           tables |-> Projected(store.tables, rangeLogs),
           blocks |-> blocksNow,
           winning |-> winningSolutions(store.winning, rangeLogs),
           quotes |-> store.quotes]
  BY <1>2 DEF commit
<1>6. last \in Nat /\ last < rangeTo
  <2>1. <<CheckpointOf(store.state).lastBlock, CheckpointOf(store.state).lastHash>> \in Remembered(store)
    BY DEF Remembered
  <2>2. last \in Nat
    BY <1>1, <2>1 DEF StoreSound
  <2> HIDE DEF last
  <2>3. QED  BY <1>2, <1>4, <2>2
<1>7. \A b \in seen : b[1] \in rangeFrom..rangeTo /\ b[2] = HashAt(b[1])
  <2>1. \A l \in Range(rangeLogs) : l.block \in rangeFrom..rangeTo
    BY <1>4 DEF Range
  <2>2. rangeTo \in rangeFrom..rangeTo
    BY <1>2, <1>4
  <2>3. QED  BY <2>1, <2>2
<1>8. Projected(store.tables, rangeLogs) = Projected(NoTables, more)
  <2>1. store.tables = Projected(NoTables, store.logs)
    BY <1>1 DEF StoreSound
  <2>2. store.logs \in Seq(LogSet) /\ rangeLogs \in Seq(LogSet)
    BY <1>2 DEF Ordered
  <2>3. QED  BY <2>1, <2>2, ProjectedJoined
<1>9. winningSolutions(store.winning, rangeLogs) = Winning(more)
  <2>1. store.winning = Winning(store.logs)
    BY <1>1 DEF StoreSound
  <2>2. QED  BY <1>2, <2>1, WinsJoined
<1>10. \A b \in blocksNow : b \in store.blocks \/ b \in seen
  OBVIOUS
<1> HIDE DEF more, seen, last, blocksNow
<1>11. /\ s = [state |-> s.state, logs |-> s.logs, tables |-> s.tables, blocks |-> s.blocks, winning |-> s.winning, quotes |-> s.quotes]
       /\ s.state = [lastBlock |-> rangeTo, lastHash |-> HashAt(rangeTo)] /\ s.logs = more
       /\ s.tables = Projected(NoTables, more) /\ s.winning = Winning(more) /\ s.quotes = store.quotes
       /\ \A b \in s.blocks : b \in store.blocks \/ b \in seen
  <2>1. /\ s = [state |-> s.state, logs |-> s.logs, tables |-> s.tables, blocks |-> s.blocks, winning |-> s.winning, quotes |-> s.quotes]
        /\ s.state = [lastBlock |-> rangeTo, lastHash |-> HashAt(rangeTo)] /\ s.logs = more
        /\ s.tables = Projected(store.tables, rangeLogs) /\ s.winning = winningSolutions(store.winning, rangeLogs)
        /\ s.quotes = store.quotes
    BY <1>5
  <2>2. s.blocks = blocksNow
    BY <1>5
  <2>3. \A b \in s.blocks : b \in store.blocks \/ b \in seen
    BY <1>10, <2>2
  <2>4. QED  BY <1>8, <1>9, <2>1, <2>3
<1>12. CheckpointOf(s.state) = [lastBlock |-> rangeTo, lastHash |-> HashAt(rangeTo)]
  <2>1. s.state # NoCheckpoint
    BY <1>6, <1>11 DEF NoCheckpoint
  <2>2. QED  BY <1>11, <2>1 DEF CheckpointOf
<1>13. ASSUME NEW b \in Remembered(s) PROVE b \in Remembered(store) \/ (b[1] \in rangeFrom..rangeTo /\ b[2] = HashAt(b[1]))
  <2>1. CASE b \in s.blocks
    BY <1>7, <1>11, <2>1 DEF Remembered
  <2>2. CASE b = <<rangeTo, HashAt(rangeTo)>>
    BY <1>2, <1>4, <2>2
  <2>3. QED  BY <1>12, <2>1, <2>2 DEF Remembered
<1>14. ASSUME NEW b \in Remembered(s)
       PROVE  b[1] \in Nat /\ b[1] <= rangeTo /\ b[2] \in Nat /\ 1 <= b[2] /\ b[2] < nextHash
  <2>1. CASE b \in Remembered(store)
    <3>1. b[1] \in Nat /\ b[1] <= last /\ b[2] \in Nat /\ 1 <= b[2] /\ b[2] < nextHash
      BY <1>1, <2>1 DEF StoreSound, last
    <3>2. QED  BY <1>2, <1>6, <3>1
  <2>2. CASE b[1] \in rangeFrom..rangeTo /\ b[2] = HashAt(b[1])
    <3>1. b[1] \in DOMAIN chainBlocks /\ b[1] \in Nat /\ b[1] <= rangeTo
      BY <1>2, <1>3, <1>4, <1>6, <2>2
    <3>2. QED  BY <1>3, <2>2, <3>1
  <2>3. QED  BY <1>13, <2>1, <2>2
<1>15. StoreSound(s, nextHash)
  <2>1. \A q \in store.quotes : q.closed \in Nat /\ DeployedAt < q.closed /\ q.closed <= last
    BY <1>1 DEF StoreSound, last
  <2>2. \A q \in s.quotes : q.closed \in Nat /\ DeployedAt < q.closed /\ q.closed <= rangeTo
    BY <1>2, <1>6, <1>11, <2>1
  <2>3. CheckpointOf(s.state).lastBlock = rangeTo
    BY <1>12
  <2>4. /\ Lawful(s.logs) /\ s.tables = Projected(NoTables, s.logs) /\ s.winning = Winning(s.logs)
        /\ \A k \in DOMAIN s.logs : s.logs[k].block <= rangeTo
    BY <1>2, <1>11
  <2>5. s = [state |-> s.state, logs |-> s.logs, tables |-> s.tables, blocks |-> s.blocks, winning |-> s.winning, quotes |-> s.quotes]
    BY <1>11
  <2>6. QED  BY <1>14, <2>2, <2>3, <2>4, <2>5 DEF StoreSound
<1>16. ASSUME NEW b \in Remembered(s), BlockAt(chainBlocks, b[1]) = b[2] PROVE TrueUpTo(s, chainBlocks, chainLogs, b[1])
  <2>1. b[1] \in Nat /\ b[1] <= rangeTo
    BY <1>14
  <2>2. upTo(more, b[1]) = upTo(chainLogs, b[1])
    <3>1. Ordered(chainLogs)
      BY <1>1 DEF ChainSound, Lawful
    <3>2. QED  BY <1>2, <1>4, <2>1, <3>1, UpToTwice
  <2>3. \A q \in store.quotes : q.closed <= b[1] => q.block \in 1..b[1] /\ q.answer = BlockAt(chainBlocks, q.block)
    <3>1. CASE b \in Remembered(store)
      BY <1>1, <1>16, <3>1 DEF PairsAgree, TrueUpTo
    <3>2. CASE b[1] \in rangeFrom..rangeTo
      <4>1. TrueUpTo(store, chainBlocks, chainLogs, last)
        <5> DEFINE c == <<CheckpointOf(store.state).lastBlock, CheckpointOf(store.state).lastHash>>
        <5>1. c \in Remembered(store)
          BY DEF Remembered
        <5>2. c[1] = last /\ BlockAt(chainBlocks, c[1]) = c[2]
          BY <1>4 DEF OnChain, last
        <5> HIDE DEF c
        <5>3. QED  BY <1>1, <5>1, <5>2 DEF PairsAgree
      <4>2. \A q \in store.quotes : q.closed \in Nat /\ q.closed <= last
        BY <1>1 DEF StoreSound, last
      <4>3. \A q \in store.quotes : q.block \in 1..last /\ q.answer = BlockAt(chainBlocks, q.block)
        BY <4>1, <4>2 DEF TrueUpTo
      <4>4. \A m \in 1..last : m \in 1..b[1]
        BY <1>2, <1>6, <2>1, <3>2
      <4>5. QED  BY <4>3, <4>4
    <3>3. QED  BY <1>13, <3>1, <3>2
  <2>4. QED  BY <1>11, <2>2, <2>3 DEF TrueUpTo
<1>17. PairsAgree(s, chainBlocks, chainLogs)
  BY <1>16 DEF PairsAgree
<1>18. QED  BY <1>15, <1>17

LEMMA WriteRangeStep == ASSUME IndexInv, writeRange PROVE IndexInv'
<1>1. UNCHANGED <<indexCase, chainBlocks, chainLogs, nextHash, rangeFrom, rangeTo, rangeLogs>> /\ indexStage = "blocks"
  BY DEF writeRange, theChain, theRange
<1>2. CASE moved
  <2>1. indexStage' = "check" /\ UNCHANGED store
    BY <1>2 DEF writeRange
  <2>2. indexStage' \notin {"logs", "blocks"}
    BY <2>1
  <2>3. QED  BY <1>1, <2>1, <2>2, QuietStep
<1>3. CASE ~moved
  <2>1. store' = commit(rangeTo, HashAt(rangeTo), {<<n, HashAt(n)>> : n \in {rangeTo} \cup {l.block : l \in Range(rangeLogs)}}, rangeLogs)
        /\ indexStage' \in {"baselines", "caught"}
    BY <1>3 DEF writeRange
  <2>2. ~RangeStale(chainBlocks, nextHash, rangeLogs)
    <3> SUFFICES ASSUME RangeStale(chainBlocks, nextHash, rangeLogs) PROVE moved
      BY <1>3
    <3>1. PICK k \in DOMAIN rangeLogs : BlockAt(chainBlocks, rangeLogs[k].block) # rangeLogs[k].hash
      BY DEF RangeStale
    <3>2. rangeLogs[k] \in Range(rangeLogs)
      BY DEF Range
    <3>3. HashAt(rangeLogs[k].block) # rangeLogs[k].hash
      BY <3>1 DEF HashAt, BlockAt
    <3>4. QED  BY <3>2, <3>3 DEF moved
  <2>3. RangeRead(store, chainBlocks, chainLogs, rangeFrom, rangeTo, rangeLogs)
    BY <1>1, <2>2 DEF IndexInv, StageSound
  <2> DEFINE s == commit(rangeTo, HashAt(rangeTo), {<<n, HashAt(n)>> : n \in {rangeTo} \cup {l.block : l \in Range(rangeLogs)}}, rangeLogs)
  <2>4. StoreSound(s, nextHash) /\ PairsAgree(s, chainBlocks, chainLogs)
    BY <2>3, CommittedSound
  <2>5. store' = s
    BY <2>1
  <2> HIDE DEF s
  <2>6. StageSound(indexStage', s, chainBlocks, chainLogs, nextHash, rangeFrom, rangeTo, rangeLogs)
    BY <2>1 DEF StageSound
  <2>7. QED  BY <1>1, <2>4, <2>5, <2>6 DEF IndexInv
<1>4. QED  BY <1>2, <1>3

\* The settled row of the batch has its block among the logs, and a submission
\* that the rows hold was mined no later.
LEMMA SettledRow ==
  ASSUME NEW logs, Lawful(logs), NEW tables, tables = Projected(NoTables, logs), tables.batch.outcome = "settled"
  PROVE  /\ \E k \in DOMAIN logs : logs[k].event = "settled" /\ logs[k].solver = tables.batch.solver /\ logs[k].block = tables.batch.block
         /\ Len(tables.solutions) \in Nat
         /\ \A i \in 1..Len(tables.solutions) : tables.solutions[i].block \in Nat /\ tables.solutions[i].block <= tables.batch.block
<1>1. logs \in Seq(LogSet) /\ Len(logs) \in Nat /\ DOMAIN logs = 1..Len(logs) /\ \A k \in DOMAIN logs : logs[k].block \in Nat
  BY LogsAre DEF Lawful
<1>2. RowsSay(logs, Len(logs), tables)
  BY <1>1, RowsOf
<1>3. PICK k \in DOMAIN logs : logs[k].event = "settled" /\ logs[k].solver = tables.batch.solver /\ logs[k].block = tables.batch.block
  BY <1>1, <1>2 DEF RowsSay
<1>4. Len(tables.solutions) \in Nat
  BY <1>2, LenProperties DEF RowsSay
<1>5. ASSUME NEW i \in 1..Len(tables.solutions)
      PROVE  tables.solutions[i].block \in Nat /\ tables.solutions[i].block <= tables.batch.block
  <2>1. PICK j \in DOMAIN logs : logs[j].event = "submitted" /\ logs[j].block = tables.solutions[i].block
    BY <1>1, <1>2 DEF RowsSay
  <2>2. ~(j > k)
    <3>1. EndsRight(logs, k) /\ logs[k].event \in Ending
      BY <1>3 DEF Lawful, Ending
    <3>2. QED  BY <2>1, <3>1 DEF EndsRight
  <2>3. j <= k
    BY <1>1, <2>2
  <2>4. logs[j].block <= logs[k].block
    BY <2>3 DEF Lawful, Ordered
  <2>5. QED  BY <1>1, <1>3, <2>1, <2>4
<1>6. QED  BY <1>3, <1>4, <1>5

\* A quote is read at a block below the end of its batch, and the chain has both.
LEMMA AnswerPlaced ==
  ASSUME IndexInv, NEW q \in answered
  PROVE  /\ q.closed \in Nat /\ DeployedAt < q.closed /\ q.closed <= CheckpointOf(store.state).lastBlock
         /\ q.block \in 1..q.closed /\ q.answer = BlockAt(chainBlocks, q.block)
<1>1. ChainSound(chainBlocks, chainLogs, nextHash) /\ StoreSound(store, nextHash)
  BY DEF IndexInv
<1> DEFINE batch == store.tables.batch
           rows == store.tables.solutions
           mine == {k \in 1..Len(rows) : \E w \in store.winning : w.solver = rows[k].solver}
<1>2. /\ batch.outcome = "settled" /\ HashAt(baselineBlock) # 0
      /\ q = [block |-> baselineBlock, answer |-> HashAt(baselineBlock), closed |-> batch.block]
  BY DEF answered
<1>3. Lawful(store.logs) /\ store.tables = Projected(NoTables, store.logs)
  BY <1>1 DEF StoreSound
<1>4. /\ \E k \in DOMAIN store.logs : store.logs[k].event = "settled" /\ store.logs[k].solver = batch.solver /\ store.logs[k].block = batch.block
      /\ Len(rows) \in Nat
      /\ \A i \in 1..Len(rows) : rows[i].block \in Nat /\ rows[i].block <= batch.block
  BY <1>2, <1>3, SettledRow
<1>5. batch.block \in Nat /\ DeployedAt < batch.block /\ batch.block <= CheckpointOf(store.state).lastBlock
  <2>1. PICK k \in DOMAIN store.logs : store.logs[k].block = batch.block
    BY <1>4
  <2>2. store.logs[k].block \in Nat
    BY <1>3, LogsAre DEF Lawful
  <2>3. QED  BY <1>1, <1>3, <2>1, <2>2 DEF StoreSound, Lawful
<1>6. baselineBlock = (IF mine # {} THEN rows[Min(mine)].block ELSE batch.block) - 1
  BY DEF baselineBlock
<1>7. mine # {} => Min(mine) \in 1..Len(rows)
  <2>1. mine \subseteq 1..Len(rows)
    OBVIOUS
  <2> HIDE DEF mine
  <2>2. IsFiniteSet(mine) /\ \A k \in mine : k \in Nat
    <3>1. 1 \in Int /\ Len(rows) \in Int
      BY <1>4
    <3>2. \A k \in 1..Len(rows) : k \in Nat
      OBVIOUS
    <3>3. \A k \in mine : k \in Nat
      BY <2>1, <3>2
    <3>4. QED  BY <2>1, <3>1, <3>3, FS_Interval, FS_Subset
  <2>3. mine # {} => Min(mine) \in mine
    BY <2>2, FirstPosition
  <2>4. QED  BY <2>1, <2>3
<1> HIDE DEF mine, rows, batch
<1>8. baselineBlock \in Int /\ baselineBlock <= batch.block
  <2>1. CASE mine # {}
    <3>1. rows[Min(mine)].block \in Nat /\ rows[Min(mine)].block <= batch.block
      BY <1>4, <1>7, <2>1
    <3>2. baselineBlock = rows[Min(mine)].block - 1
      BY <1>6, <2>1
    <3>3. QED  BY <1>5, <3>1, <3>2
  <2>2. CASE mine = {}
    BY <1>5, <1>6, <2>2
  <2>3. QED  BY <2>1, <2>2
<1>9. baselineBlock \in DOMAIN chainBlocks /\ HashAt(baselineBlock) = BlockAt(chainBlocks, baselineBlock)
  BY <1>2 DEF HashAt, BlockAt
<1>10. 1 <= baselineBlock
  <2>1. DOMAIN chainBlocks = 1..Len(chainBlocks)
    BY <1>1, BlocksAre
  <2>2. QED  BY <1>9, <2>1
<1>11. q.block = baselineBlock /\ q.answer = HashAt(baselineBlock) /\ q.closed = batch.block
  BY <1>2
<1>12. QED  BY <1>5, <1>8, <1>9, <1>10, <1>11

LEMMA AnsweredSound ==
  ASSUME IndexInv, NEW s, s = [store EXCEPT !.quotes = @ \cup answered]
  PROVE  StoreSound(s, nextHash) /\ PairsAgree(s, chainBlocks, chainLogs)
<1> DEFINE more == store.quotes \cup answered
<1>1. ChainSound(chainBlocks, chainLogs, nextHash) /\ StoreSound(store, nextHash)
      /\ PairsAgree(store, chainBlocks, chainLogs)
  BY DEF IndexInv
<1>2. store = [state |-> store.state, logs |-> store.logs, tables |-> store.tables, blocks |-> store.blocks,
               winning |-> store.winning, quotes |-> store.quotes]
  BY <1>1 DEF StoreSound
<1>3. \A q \in more : q \in store.quotes \/ q \in answered
  OBVIOUS
<1>4. s = [store EXCEPT !.quotes = more]
  OBVIOUS
<1> HIDE DEF more
<1>5. s = [state |-> store.state, logs |-> store.logs, tables |-> store.tables, blocks |-> store.blocks,
           winning |-> store.winning, quotes |-> more]
  BY <1>2, <1>4
<1>6. /\ s = [state |-> s.state, logs |-> s.logs, tables |-> s.tables, blocks |-> s.blocks, winning |-> s.winning, quotes |-> s.quotes]
      /\ s.state = store.state /\ s.logs = store.logs /\ s.tables = store.tables /\ s.blocks = store.blocks
      /\ s.winning = store.winning /\ s.quotes = more
  <2>1. /\ s.state = store.state /\ s.logs = store.logs /\ s.tables = store.tables /\ s.blocks = store.blocks
        /\ s.winning = store.winning /\ s.quotes = more
    BY <1>5
  <2>2. QED  BY <1>5, <2>1
<1>7. Remembered(s) = Remembered(store)
  BY <1>6 DEF Remembered
<1>8. \A q \in answered : /\ q.closed \in Nat /\ DeployedAt < q.closed /\ q.closed <= CheckpointOf(store.state).lastBlock
                          /\ q.block \in 1..q.closed /\ q.answer = BlockAt(chainBlocks, q.block)
  BY AnswerPlaced
<1>9. \A q \in s.quotes : q.closed \in Nat /\ DeployedAt < q.closed /\ q.closed <= CheckpointOf(store.state).lastBlock
  BY <1>1, <1>3, <1>6, <1>8 DEF StoreSound
<1>10. StoreSound(s, nextHash)
  BY <1>1, <1>6, <1>7, <1>9 DEF StoreSound
<1>11. ASSUME NEW b \in Remembered(s), BlockAt(chainBlocks, b[1]) = b[2] PROVE TrueUpTo(s, chainBlocks, chainLogs, b[1])
  <2>1. TrueUpTo(store, chainBlocks, chainLogs, b[1]) /\ b[1] \in Nat
    BY <1>1, <1>7, <1>11 DEF PairsAgree, StoreSound
  <2>2. ASSUME NEW q \in s.quotes, q.closed <= b[1] PROVE q.block \in 1..b[1] /\ q.answer = BlockAt(chainBlocks, q.block)
    <3>1. CASE q \in store.quotes
      BY <2>1, <2>2, <3>1 DEF TrueUpTo
    <3>2. CASE q \in answered
      <4>1. q.closed \in Nat /\ q.block \in 1..q.closed /\ q.answer = BlockAt(chainBlocks, q.block)
        BY <1>8, <3>2
      <4>2. \A m \in 1..q.closed : m \in 1..b[1]
        BY <2>1, <2>2, <4>1
      <4>3. QED  BY <4>1, <4>2
    <3>3. QED  BY <1>3, <1>6, <3>1, <3>2
  <2>3. QED  BY <1>6, <2>1, <2>2 DEF TrueUpTo
<1>12. QED  BY <1>10, <1>11 DEF PairsAgree

LEMMA RecordBaselinesStep == ASSUME IndexInv, recordBaselines PROVE IndexInv'
<1>1. UNCHANGED <<indexCase, chainBlocks, chainLogs, nextHash>> /\ indexStage' = "caught"
  BY DEF recordBaselines, theChain
<1>2. indexStage' \notin {"logs", "blocks"}
  BY <1>1
<1>3. CASE UNCHANGED store
  BY <1>1, <1>2, <1>3, QuietStep
<1>4. CASE store' = [store EXCEPT !.quotes = @ \cup answered]
  <2> DEFINE s == [store EXCEPT !.quotes = @ \cup answered]
  <2>1. StoreSound(s, nextHash) /\ PairsAgree(s, chainBlocks, chainLogs)
    BY AnsweredSound
  <2>2. store' = s
    BY <1>4
  <2> HIDE DEF s
  <2>3. StageSound(indexStage', s, chainBlocks, chainLogs, nextHash, rangeFrom', rangeTo', rangeLogs')
    BY <1>2 DEF StageSound
  <2>4. QED  BY <1>1, <2>1, <2>2, <2>3 DEF IndexInv
<1>5. QED  BY <1>3, <1>4 DEF recordBaselines

\* Before the first step nothing is stored.
LEMMA IndexBegins == IndexerInit => IndexInv
<1> SUFFICES ASSUME IndexerInit PROVE IndexInv
  OBVIOUS
<1>1. DeployedAt \in Nat /\ 2 <= DeployedAt /\ DeployedAt <= IndexHorizon
  BY IndexerAssumption
<1>2. chainBlocks = [n \in 1..DeployedAt |-> n] /\ chainLogs = <<>> /\ nextHash = DeployedAt + 1
      /\ store = [state |-> NoCheckpoint, logs |-> <<>>, tables |-> NoTables, blocks |-> {}, winning |-> {}, quotes |-> {}]
      /\ indexStage = "boot" /\ indexCase \in IndexCases
  BY DEF IndexerInit
<1>3. Lawful(<<>>) /\ Ordered(<<>>)
  BY DEF Lawful, Ordered
<1>4. chainBlocks \in Seq(Nat \ {0}) /\ Len(chainBlocks) = DeployedAt /\ DOMAIN chainBlocks = 1..DeployedAt
  <2>1. chainBlocks \in [1..DeployedAt -> Nat \ {0}]
    BY <1>2
  <2>2. chainBlocks \in Seq(Nat \ {0})
    BY <1>1, <2>1
  <2>3. DOMAIN chainBlocks = 1..DeployedAt
    BY <2>1
  <2>4. QED  BY <1>1, <2>2, <2>3, LenProperties
<1>5. ChainSound(chainBlocks, chainLogs, nextHash)
  <2>1. \A n \in 1..DeployedAt : chainBlocks[n] = n /\ chainBlocks[n] < nextHash
    BY <1>1, <1>2
  <2>2. \A k \in DOMAIN chainLogs : FALSE
    BY <1>2
  <2>3. QED  BY <1>1, <1>2, <1>3, <1>4, <2>1, <2>2 DEF ChainSound
<1>6. CheckpointOf(store.state) = [lastBlock |-> DeployedAt - 1, lastHash |-> DeployedAt - 1]
  BY <1>2 DEF CheckpointOf
<1>7. Remembered(store) = {<<DeployedAt - 1, DeployedAt - 1>>}
  BY <1>2, <1>6 DEF Remembered
<1>8. StoreSound(store, nextHash)
  <2>1. Winning(<<>>) = {}
    <3>1. SettledAt(<<>>) = {}
      BY DEF SettledAt
    <3>2. QED  BY <1>3, <3>1, WinsIs DEF Winning
  <2>2. Projected(NoTables, <<>>) = NoTables
    BY ProjectedNone
  <2>3. \A k \in DOMAIN store.logs : FALSE
    BY <1>2
  <2>4. \A b \in Remembered(store) : b[1] \in Nat /\ b[1] <= DeployedAt - 1 /\ b[2] \in Nat /\ 1 <= b[2] /\ b[2] < nextHash
    BY <1>1, <1>2, <1>7
  <2>5. /\ store = [state |-> store.state, logs |-> store.logs, tables |-> store.tables, blocks |-> store.blocks,
                    winning |-> store.winning, quotes |-> store.quotes]
        /\ store.logs = <<>> /\ store.tables = NoTables /\ store.winning = {} /\ store.quotes = {}
    BY <1>2
  <2>6. QED  BY <1>3, <1>6, <2>1, <2>2, <2>3, <2>4, <2>5 DEF StoreSound
<1>9. PairsAgree(store, chainBlocks, chainLogs)
  BY <1>2 DEF PairsAgree, TrueUpTo
<1>10. QED  BY <1>2, <1>5, <1>8, <1>9 DEF IndexInv, StageSound

LEMMA IndexKept == IndexInv /\ [IndexerNext]_indexerVars => IndexInv'
<1> SUFFICES ASSUME IndexInv, [IndexerNext]_indexerVars PROVE IndexInv'
  OBVIOUS
<1>1. CASE boot
  <2>1. UNCHANGED <<indexCase, chainBlocks, chainLogs, nextHash, store>> /\ indexStage' \notin {"logs", "blocks"}
    BY <1>1 DEF boot, theChain
  <2>2. QED  BY <2>1, QuietStep
<1>2. CASE StepFails
  <2>1. UNCHANGED <<indexCase, chainBlocks, chainLogs, nextHash, store>> /\ indexStage' \notin {"logs", "blocks"}
    BY <1>2 DEF StepFails, theChain
  <2>2. QED  BY <2>1, QuietStep
<1>3. CASE IndexerCrash
  <2>1. UNCHANGED <<indexCase, chainBlocks, chainLogs, nextHash, store>> /\ indexStage' \notin {"logs", "blocks"}
    BY <1>3 DEF IndexerCrash, theChain
  <2>2. QED  BY <2>1, QuietStep
<1>4. CASE TenMinutesPass
  <2>1. UNCHANGED <<indexCase, chainBlocks, chainLogs, nextHash, store>> /\ UNCHANGED <<indexStage, rangeFrom, rangeTo, rangeLogs>>
    BY <1>4 DEF TenMinutesPass, theChain, theRange
  <2>2. QED  BY <2>1, QuietStep
<1>5. CASE caughtUp
  <2>1. UNCHANGED <<indexCase, chainBlocks, chainLogs, nextHash, store>> /\ indexStage' \notin {"logs", "blocks"}
    BY <1>5 DEF caughtUp, theChain
  <2>2. QED  BY <2>1, QuietStep
<1>6. CASE nextBlock
  <2>1. UNCHANGED <<indexCase, chainBlocks, chainLogs, nextHash, store>> /\ indexStage' \notin {"logs", "blocks"}
    BY <1>6 DEF nextBlock, theChain
  <2>2. QED  BY <2>1, QuietStep
<1>7. CASE UNCHANGED indexerVars
  <2>1. UNCHANGED <<indexCase, chainBlocks, chainLogs, nextHash, store>> /\ UNCHANGED <<indexStage, rangeFrom, rangeTo, rangeLogs>>
    BY <1>7 DEF indexerVars
  <2>2. QED  BY <2>1, QuietStep
<1>8. CASE MineBlock
  BY <1>8, MineBlockStep
<1>9. CASE Reorg
  BY <1>9, ReorgStep
<1>10. CASE checkChain
  BY <1>10, CheckChainStep
<1>11. CASE readRange
  BY <1>11, ReadRangeStep
<1>12. CASE writeRange
  BY <1>12, WriteRangeStep
<1>13. CASE recordBaselines
  BY <1>13, RecordBaselinesStep
<1>14. QED  BY <1>1, <1>2, <1>3, <1>4, <1>5, <1>6, <1>7, <1>8, <1>9, <1>10, <1>11, <1>12, <1>13 DEF IndexerNext

\* The rows of lawful logs pass the reconciliation.
LEMMA RowsReconciled ==
  ASSUME NEW logs, Lawful(logs), NEW tables, tables = Projected(NoTables, logs)
  PROVE  /\ tables.batch # NoRow <=> \E k \in DOMAIN logs : logs[k].event \in {"settled", "passthrough"}
         /\ tables.batch.outcome = "settled" => tables.batch.solver = BestOf(logs)
         /\ tables.batch.outcome \in {"passthrough", "expired"} => BestOf(logs) # "none"
<1>1. logs \in Seq(LogSet) /\ Len(logs) \in Nat /\ DOMAIN logs = 1..Len(logs)
  BY LogsAre DEF Lawful
<1>2. RowsSay(logs, Len(logs), tables)
  BY <1>1, RowsOf
<1>3. leads(logs) \subseteq Nat
  BY <1>1, LeadsPlaced
<1>4. ASSUME NEW k \in DOMAIN logs, logs[k].event \in Ending
      PROVE  BestOf(logs) # "none" /\ (logs[k].event = "settled" => logs[k].solver = BestOf(logs))
  <2>1. PICK i \in leads(logs) : /\ \A j \in leads(logs) : j <= i
                                 /\ logs[k].event = "settled" => logs[k].solver = logs[i].solver
    BY <1>4 DEF Lawful, EndsRight
  <2>2. BestOf(logs) = logs[i].solver
    BY <1>3, <2>1, BestIs
  <2>3. i \in DOMAIN logs /\ logs[i].event = "submitted"
    BY DEF leads
  <2>4. logs[i].solver # "none"
    BY <2>3 DEF Lawful
  <2>5. QED  BY <2>1, <2>2, <2>4
<1>5. tables.batch # NoRow <=> \E k \in DOMAIN logs : logs[k].event \in {"settled", "passthrough"}
  BY <1>1, <1>2 DEF RowsSay, Ending
<1>6. tables.batch.outcome = "settled" => tables.batch.solver = BestOf(logs)
  BY <1>1, <1>2, <1>4 DEF RowsSay, Ending
<1>7. tables.batch.outcome \in {"passthrough", "expired"} => BestOf(logs) # "none"
  BY <1>1, <1>2, <1>4 DEF RowsSay, Ending
<1>8. QED  BY <1>5, <1>6, <1>7

\* The checkpoint is one of the blocks remembered.
LEMMA IndexInvAgrees == IndexInv => IndexAgrees
<1> SUFFICES ASSUME IndexInv PROVE IndexAgrees
  OBVIOUS
<1> SUFFICES ASSUME Agreed
             PROVE  /\ \A q \in store.quotes : q.answer = HashAt(q.block)
                    /\ differences = {}
                    /\ store.logs = ChainLogs
                    /\ store.tables = Projected(NoTables, ChainLogs)
                    /\ store.winning = winningSolutions({}, ChainLogs)
  BY DEF IndexAgrees, BaselinesTrue
<1>1. ChainSound(chainBlocks, chainLogs, nextHash) /\ StoreSound(store, nextHash)
      /\ PairsAgree(store, chainBlocks, chainLogs)
  BY DEF IndexInv
<1> DEFINE last == store.state.lastBlock
           b == <<CheckpointOf(store.state).lastBlock, CheckpointOf(store.state).lastHash>>
<1>2. store.state # NoCheckpoint /\ HashAt(last) = store.state.lastHash /\ CheckpointOf(store.state) = store.state
  BY DEF Agreed, CheckpointOf
<1>3. \A n : HashAt(n) = BlockAt(chainBlocks, n)
  BY <1>1, CheckpointIs
<1>4. b \in Remembered(store) /\ b[1] = last /\ BlockAt(chainBlocks, b[1]) = b[2]
  <2>1. b \in Remembered(store)
    BY DEF Remembered
  <2>2. b[1] = last /\ b[2] = store.state.lastHash
    BY <1>2
  <2> HIDE DEF b
  <2>3. QED  BY <1>2, <1>3, <2>1, <2>2
<1> HIDE DEF b
<1>5. TrueUpTo(store, chainBlocks, chainLogs, last) /\ last \in Nat
  BY <1>1, <1>4 DEF PairsAgree, StoreSound
<1>6. store.logs = ChainLogs
  <2>1. Ordered(store.logs) /\ \A k \in DOMAIN store.logs : store.logs[k].block <= last
    BY <1>1, <1>2 DEF StoreSound, Lawful
  <2>2. upTo(store.logs, last) = store.logs
    BY <1>5, <2>1, UpToAll
  <2>3. QED  BY <1>5, <2>2 DEF TrueUpTo, ChainLogs
<1>7. store.tables = Projected(NoTables, store.logs) /\ store.winning = winningSolutions({}, store.logs) /\ Lawful(store.logs)
  BY <1>1 DEF StoreSound, Winning
<1>8. \A q \in store.quotes : q.answer = HashAt(q.block)
  <2>1. \A q \in store.quotes : q.closed <= last
    BY <1>1, <1>2 DEF StoreSound
  <2>2. QED  BY <1>3, <1>5, <2>1 DEF TrueUpTo
<1>9. /\ store.tables.batch # NoRow <=> \E k \in DOMAIN store.logs : store.logs[k].event \in {"settled", "passthrough"}
      /\ store.tables.batch.outcome = "settled" => store.tables.batch.solver = BestOf(store.logs)
      /\ store.tables.batch.outcome \in {"passthrough", "expired"} => BestOf(store.logs) # "none"
  BY <1>7, RowsReconciled
<1>10. finalizedAt <=> \E k \in DOMAIN store.logs : store.logs[k].event \in {"settled", "passthrough"}
  BY <1>6 DEF finalizedAt, Range
<1>11. differences = {}
  <2>1. ~(store.tables.batch # NoRow /\ ~finalizedAt)
    BY <1>9, <1>10
  <2>2. ~(store.tables.batch.outcome = "settled" /\ store.tables.batch.solver # BestOf(ChainLogs))
    BY <1>6, <1>9
  <2>3. ~(store.tables.batch.outcome \in {"passthrough", "expired"} /\ BestOf(ChainLogs) = "none")
    BY <1>6, <1>9
  <2>4. ~(store.tables.batch = NoRow /\ store.tables.solutions # <<>> /\ finalizedAt)
    BY <1>9, <1>10
  <2>5. QED  BY <2>1, <2>2, <2>3, <2>4 DEF differences
<1>12. QED  BY <1>6, <1>7, <1>8, <1>11

\* Whenever the chain still has the block the checkpoint names, every table is what
\* the chain's own logs up to it make of them, the stored quotes are the answers of
\* its own blocks and a reconciliation reports nothing, however steps, commits,
\* rewinds, baselines, rewritten blocks, failing reads and crashes interleave
\* (step, commit, rewind, recordBaselines, reconcile).
THEOREM IndexAlwaysAgrees == IndexerSpec => []IndexAgrees
<1>1. IndexInv /\ [IndexerNext]_indexerVars => IndexInv'
  BY IndexKept
<1>2. QED  BY <1>1, IndexBegins, IndexInvAgrees, PTL DEF IndexerSpec
=============================================================================
