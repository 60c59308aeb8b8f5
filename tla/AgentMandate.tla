----------------------------- MODULE AgentMandate -----------------------------
(***************************************************************************)
(* AgentMandate.sol and the signature check of MandateAccount.sol: what an *)
(* agent may have drawn from the account an owner gave it.  The agent      *)
(* signs whatever it likes, several intents with one nonce too; authorize  *)
(* and releaseUnspent are called by anybody.  A desk (Settlement or        *)
(* AuctionHouse) has Permit2 take an authorized intent at any moment; what *)
(* a desk checks besides is left to it, and so are the account's funds.    *)
(*                                                                         *)
(* A digest is the intent it is the digest of: the spender, the nonce and  *)
(* the deadline follow from it.                                            *)
(***************************************************************************)
EXTENDS Integers, FiniteSets, FiniteSetsExt

CONSTANTS
  MandateTerms,       \* [expiry, perBatch, perDay, auction]: what an owner may grant
  AgentIntents,       \* [account, nonce, amount, validUntil, auction, fits]
  EasternDay,         \* easternDay of every second
  MaxDuration,        \* MANDATE_MAX_DURATION
  MandatePrices, MandateHorizon, MaxMandates

ASSUME MandateAssumption ==
  /\ MandateHorizon \in Nat /\ MaxMandates \in Nat /\ MaxDuration \in Nat /\ IsFiniteSet(AgentIntents)
  /\ MandatePrices \subseteq Nat /\ EasternDay \in [0..MandateHorizon -> Nat]
  /\ \A s, t \in 0..MandateHorizon : s <= t => EasternDay[s] <= EasternDay[t]
  /\ \A m \in MandateTerms : {m.expiry, m.perBatch, m.perDay} \subseteq Nat
  /\ \A i \in AgentIntents : {i.account, i.nonce, i.amount, i.validUntil} \subseteq Nat

VARIABLES
  mandateTime, agentPrice, agentHealthy,   \* the chain's clock and the oracle
  mandates,              \* records: the terms granted, by id
  revoked, authorizedDigest, bookings, budgetDay, budgetSpent,
  accountNonces,         \* Permit2's: <<account, nonce>> spent
  drawn                  \* history: intents taken, with the booking they were taken under

records == <<mandates, revoked>>
budgets == <<authorizedDigest, bookings, budgetDay, budgetSpent>>
takenSide == <<accountNonces, drawn>>
mandateVars == <<mandateTime, agentPrice, agentHealthy, records, budgets, takenSide>>

Ids == 1..MaxMandates
NoBooking == [id |-> 0, notional |-> 0, day |-> 0, released |-> FALSE]

MandateInit ==
  /\ mandateTime = 0 /\ agentPrice \in MandatePrices /\ agentHealthy = TRUE
  /\ mandates = <<>> /\ revoked = {}
  /\ authorizedDigest = {} /\ bookings = [i \in AgentIntents |-> NoBooking]
  /\ budgetDay = [id \in Ids |-> 0] /\ budgetSpent = [id \in Ids |-> 0]
  /\ accountNonces = {} /\ drawn = {}

today == EasternDay[mandateTime]
Granted == DOMAIN mandates

\* The count of the owner's mandates makes the id, and the account is its own.
createMandate(m) ==
  LET id == Cardinality(Granted) + 1 IN
  /\ id \in Ids /\ m.expiry > mandateTime /\ m.expiry <= mandateTime + MaxDuration
  /\ mandates' = [n \in Granted \cup {id} |-> IF n = id THEN m ELSE mandates[n]]
  /\ UNCHANGED <<mandateTime, agentPrice, agentHealthy, revoked, budgets, takenSide>>

revokeMandate(id) ==
  /\ id \in Granted \ revoked /\ revoked' = revoked \cup {id}
  /\ UNCHANGED <<mandateTime, agentPrice, agentHealthy, mandates, budgets, takenSide>>

\* Sessions, tokens, deviation and the agent flag are one fact of an intent.
checkRules(id, i) ==
  /\ id \notin revoked /\ mandateTime < mandates[id].expiry
  /\ i.account = id /\ i.fits
  /\ i.validUntil <= mandates[id].expiry
  /\ i.auction => mandates[id].auction

spentToday(id) == IF budgetDay[id] = today THEN budgetSpent[id] ELSE 0

authorize(id, i) ==
  LET notional == i.amount * agentPrice IN
  /\ id \in Granted /\ checkRules(id, i) /\ i \notin authorizedDigest
  /\ agentHealthy /\ notional <= mandates[id].perBatch
  /\ spentToday(id) + notional <= mandates[id].perDay
  /\ budgetDay' = [budgetDay EXCEPT ![id] = today]
  /\ budgetSpent' = [budgetSpent EXCEPT ![id] = spentToday(id) + notional]
  /\ authorizedDigest' = authorizedDigest \cup {i}
  /\ bookings' = [bookings EXCEPT ![i] = [id |-> id, notional |-> notional, day |-> today, released |-> FALSE]]
  /\ UNCHANGED <<mandateTime, agentPrice, agentHealthy, records, takenSide>>

nonceSpent(i) == <<i.account, i.nonce>> \in accountNonces

\* Mutant: a release of an earlier day's booking lowers today's budget.
givesBackAnyDay(id, b) == b.notional

givesBack(id, b) == IF budgetDay[id] = b.day THEN b.notional ELSE 0

releaseUnspent(id, i) ==
  /\ bookings[i].id = id /\ ~bookings[i].released
  /\ mandateTime > i.validUntil /\ ~nonceSpent(i)
  /\ budgetSpent' = [budgetSpent EXCEPT ![id] = @ - givesBack(id, bookings[i])]
  /\ bookings' = [bookings EXCEPT ![i].released = TRUE]
  /\ authorizedDigest' = authorizedDigest \ {i}
  /\ UNCHANGED <<mandateTime, agentPrice, agentHealthy, records, budgetDay, takenSide>>

\* isValidSignature of the account.
accountAuthorized(i) ==
  /\ i.account \in Granted /\ bookings[i].id = i.account
  /\ i.account \notin revoked /\ mandateTime < mandates[i.account].expiry
  /\ i \in authorizedDigest

\* Permit2 takes it once, by its deadline, and asks the account.
pull(i) ==
  /\ mandateTime <= i.validUntil /\ ~nonceSpent(i) /\ accountAuthorized(i)
  /\ accountNonces' = accountNonces \cup {<<i.account, i.nonce>>}
  /\ drawn' = drawn \cup {[intent |-> i, booking |-> bookings[i]]}
  /\ UNCHANGED <<mandateTime, agentPrice, agentHealthy, records, budgets>>

OracleMoves ==
  /\ \/ agentPrice' \in MandatePrices \ {agentPrice} /\ UNCHANGED agentHealthy
     \/ agentHealthy' = ~agentHealthy /\ UNCHANGED agentPrice
  /\ UNCHANGED <<mandateTime, records, budgets, takenSide>>

MandateSecond ==
  /\ mandateTime < MandateHorizon /\ mandateTime' = mandateTime + 1
  /\ UNCHANGED <<agentPrice, agentHealthy, records, budgets, takenSide>>

MandateNext ==
  \/ \E m \in MandateTerms : createMandate(m)
  \/ \E id \in Ids : revokeMandate(id) \/ \E i \in AgentIntents : authorize(id, i) \/ releaseUnspent(id, i)
  \/ \E i \in AgentIntents : pull(i)
  \/ OracleMoves \/ MandateSecond

MandateSpec == MandateInit /\ [][MandateNext]_mandateVars

---------------------------------------------------------------------------
(* Properties.                                                             *)

MandateTypeOK ==
  /\ mandateTime \in 0..MandateHorizon /\ agentPrice \in MandatePrices /\ agentHealthy \in BOOLEAN
  /\ Granted \subseteq Ids /\ \A id \in Granted : mandates[id] \in MandateTerms
  /\ revoked \subseteq Granted /\ authorizedDigest \subseteq AgentIntents
  /\ bookings \in [AgentIntents -> [id : {0} \cup Ids, notional : Nat, day : Nat, released : BOOLEAN]]
  /\ budgetDay \in [Ids -> Nat] /\ budgetSpent \in [Ids -> Nat]

notionalOf == [i \in AgentIntents |-> bookings[i].notional]
drawnOf == [p \in drawn |-> p.booking.notional]
bookedOn(id, d) == {i \in AgentIntents : bookings[i].id = id /\ bookings[i].day = d /\ ~bookings[i].released}

\* The day's total is that of the bookings of the day that were not given back,
\* whatever was booked, released, booked again or released on a later day
\* (authorize and releaseUnspent keep it without looking at the others).
LedgerExact ==
  \A id \in Granted : budgetSpent[id] = SumFunctionOnSet(notionalOf, bookedOn(id, budgetDay[id]))

\* Of what was booked on one day no more than the day's cap was taken or may still
\* be: a release, which makes room, never frees an intent that a desk may yet take
\* ("A fully compromised agent still cannot leave the box", AgentMandate.sol).
WithinDay ==
  \A id \in Granted : \A d \in {EasternDay[t] : t \in 0..mandateTime} :
    SumFunctionOnSet(notionalOf,
      {i \in AgentIntents : bookings[i].id = id /\ bookings[i].day = d /\ i.validUntil >= mandateTime
                            /\ i \in authorizedDigest /\ ~nonceSpent(i)})
    + SumFunctionOnSet(drawnOf, {p \in drawn : p.booking.id = id /\ p.booking.day = d})
    <= mandates[id].perDay

\* What was authorized stays good to its last second, unless the owner revoked the
\* mandate or another intent used the nonce.  One second is missing: an intent may
\* end with the mandate, and the account answers no more at that second.
AuthorizedStaysGood ==
  \A i \in authorizedDigest :
    mandateTime <= i.validUntil =>
      \/ accountAuthorized(i) \/ i.account \in revoked
      \/ mandateTime = mandates[i.account].expiry

\* An agent stays in the box its owner made, and the box is no smaller than it says.
MandateHolds == MandateTypeOK /\ LedgerExact /\ WithinDay /\ AuthorizedStaysGood
=============================================================================
