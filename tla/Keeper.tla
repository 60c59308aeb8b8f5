------------------------------ MODULE Keeper ------------------------------
(***************************************************************************)
(* The auction keeper (keeper.ts): at each block it reads where an auction *)
(* stands and tries the calls that phase wants, each first as a dry run.   *)
(* An auction is followed through the times and phases of AuctionHouse     *)
(* that decide which call the chain takes; its book is left out.           *)
(*                                                                         *)
(* A look at the chain and the calls that follow from it are separate      *)
(* steps, and so are a dry run and its transaction: other callers, a       *)
(* challenge, a failing node or the end of the process come between them.  *)
(*                                                                         *)
(* A second of the model stands for a long time of the chain, an extension *)
(* period; a keeper that runs looks at least once in it.                   *)
(***************************************************************************)
EXTENDS Integers, Sequences

CONSTANTS
  KeeperFreezeAt, KeeperCrossAt, KeeperReferenceAt,   \* auctionTiming
  KeeperExtension, KeeperMaxExtensions, KeeperChallenge,
  KeeperReleaseAfter,   \* RELEASE_AFTER
  KeeperCrashes,        \* bound: ends of the process
  KeeperChallenges,     \* bound: challenges that name a better price
  KeeperCases           \* bound: pairs of a last second and the parts that act

\* "node": the node answers a call with an error, or the house is paused;
\* "reads": what a plan is made from cannot be read once the auction is frozen
\* (indicative reverts on a deviation above the whole, refPrice on its feed).
KeeperParts == {"callers", "challenger", "multiplier", "node", "reads", "crash"}

ASSUME KeeperAssumption ==
  /\ {KeeperFreezeAt, KeeperCrossAt, KeeperReferenceAt, KeeperExtension, KeeperMaxExtensions,
      KeeperChallenge, KeeperReleaseAfter, KeeperCrashes, KeeperChallenges} \subseteq Nat
  /\ KeeperCases \subseteq Nat \X (SUBSET KeeperParts)

VARIABLES
  keeperCase,
  houseTime, phase, extensions, crossedAt,
  challenges,
  multiplierMoved,   \* since the freeze, so that no cross can be paid out
  keeperUp, keeperCrashes,
  wanted,            \* the calls the current look still has to try, in order
  calling,           \* "look", "call" or "send"
  refusedCalls, released, publishedAt,
  lookedNow,         \* history: a look of this process began in this second
  downLate           \* history: past the auction's deadline the process ended or was missing

houseVars == <<houseTime, phase, extensions, crossedAt, challenges, multiplierMoved>>
keeperMemory == <<wanted, calling, refusedCalls, released, publishedAt>>
keeperHistory == <<lookedNow, downLate>>
keeperVars == <<keeperCase, houseVars, keeperUp, keeperCrashes, keeperMemory, keeperHistory>>

PartActs(part) == part \in keeperCase[2]
Over == phase \in {"EXECUTED", "ABORTED"}

\* abortAuction's deadline.
AbortDeadline == KeeperReferenceAt + KeeperExtension * (KeeperMaxExtensions + 1)

KeeperInit ==
  /\ keeperCase \in KeeperCases
  /\ houseTime = 0 /\ phase = "NONE" /\ extensions = 0 /\ crossedAt = 0
  /\ challenges = 0 /\ multiplierMoved = FALSE
  /\ keeperUp = TRUE /\ keeperCrashes = 0
  /\ wanted = <<>> /\ calling = "look"
  /\ refusedCalls = {} /\ released = FALSE /\ publishedAt = -1
  /\ lookedNow = FALSE /\ downLate = FALSE

---------------------------------------------------------------------------
(* What AuctionHouse answers to a call.                                    *)

answer(call) ==
  CASE call = "openAuction" ->
         IF phase = "NONE" /\ houseTime < KeeperCrossAt THEN "ok" ELSE "revert"
    [] call = "publishIndicative" -> IF phase \in {"DISCLOSURE", "FROZEN"} THEN "ok" ELSE "revert"
    [] call = "freeze" ->
         IF phase # "DISCLOSURE" \/ houseTime >= KeeperCrossAt THEN "revert"
         ELSE IF houseTime < KeeperFreezeAt THEN "too early" ELSE "ok"
    [] call = "submitCross" ->
         IF phase # "FROZEN" THEN "revert"
         ELSE IF houseTime < KeeperReferenceAt THEN "too early" ELSE "ok"
    [] call = "extend" ->
         IF phase # "FROZEN" \/ extensions >= KeeperMaxExtensions THEN "revert"
         ELSE IF houseTime < KeeperReferenceAt + KeeperExtension * (extensions + 1) THEN "too early" ELSE "ok"
    [] call = "abortAuction" ->
         IF Over \/ phase = "NONE" THEN "revert"
         ELSE IF phase = "FROZEN" /\ multiplierMoved THEN "ok"
         ELSE IF houseTime <= AbortDeadline THEN "too early" ELSE "ok"
    [] call = "executeCross" ->
         IF phase # "CROSSED" THEN "revert"
         ELSE IF houseTime <= crossedAt + KeeperChallenge THEN "too early"
         ELSE IF multiplierMoved THEN "revert" ELSE "ok"

Lands(call) ==
  /\ phase' = CASE call = "openAuction" -> "DISCLOSURE"
                [] call = "freeze" -> "FROZEN"
                [] call = "submitCross" -> "CROSSED"
                [] call = "abortAuction" -> "ABORTED"
                [] call = "executeCross" -> "EXECUTED"
                [] OTHER -> phase
  /\ extensions' = IF call = "extend" THEN extensions + 1 ELSE extensions
  /\ crossedAt' = IF call = "submitCross" THEN houseTime ELSE crossedAt
  /\ UNCHANGED <<houseTime, challenges, multiplierMoved>>

\* The clock stops at the bound, which lies past every time of the auction.
Second ==
  /\ houseTime < keeperCase[1] /\ (keeperUp => lookedNow)
  /\ houseTime' = houseTime + 1
  /\ lookedNow' = FALSE
  /\ downLate' = (downLate \/ (~keeperUp /\ houseTime > AbortDeadline))
  /\ UNCHANGED <<keeperCase, phase, extensions, crossedAt, challenges, multiplierMoved, keeperUp, keeperCrashes, keeperMemory>>

\* Every call is anyone's.
OtherCalls(call) ==
  /\ PartActs("callers") /\ answer(call) = "ok" /\ call # "publishIndicative"
  /\ Lands(call)
  /\ UNCHANGED <<keeperCase, keeperUp, keeperCrashes, keeperMemory, keeperHistory>>

\* A better price puts the cross back.
Challenged ==
  /\ PartActs("challenger") /\ phase = "CROSSED" /\ houseTime <= crossedAt + KeeperChallenge
  /\ challenges < KeeperChallenges /\ challenges' = challenges + 1
  /\ phase' = "FROZEN"
  /\ UNCHANGED <<keeperCase, houseTime, extensions, crossedAt, multiplierMoved, keeperUp, keeperCrashes, keeperMemory, keeperHistory>>

MultiplierMoves ==
  /\ PartActs("multiplier") /\ phase \in {"FROZEN", "CROSSED"} /\ ~multiplierMoved
  /\ multiplierMoved' = TRUE
  /\ UNCHANGED <<keeperCase, houseTime, phase, extensions, crossedAt, challenges, keeperUp, keeperCrashes, keeperMemory, keeperHistory>>

---------------------------------------------------------------------------
(* tick and step: the calls a look at the chain asks for, in order.        *)

callsFor(planned) ==
  CASE phase = "NONE" -> IF houseTime < KeeperCrossAt THEN <<"openAuction">> ELSE <<>>
    [] phase = "DISCLOSURE" ->
         IF houseTime < KeeperFreezeAt THEN <<"publishIndicative">>
         ELSE IF houseTime < KeeperCrossAt THEN <<"freeze">> ELSE <<"abortAuction">>
    [] phase = "FROZEN" ->
         IF houseTime < KeeperReferenceAt THEN <<"publishIndicative">>
         ELSE (IF planned THEN <<"submitCross">> ELSE <<>>) \o <<"extend", "abortAuction">>
    [] phase = "CROSSED" -> <<"executeCross">>
    [] OTHER -> <<>>

\* publish, once in a second of the chain.
unpublished(call) == call # "publishIndicative" \/ publishedAt # houseTime

\* Mutant: a process follows the auctions it opened, and after a restart it has
\* opened none.
toTryOwn(planned) ==
  IF keeperCrashes > 0 /\ phase # "NONE" THEN <<>> ELSE SelectSeq(callsFor(planned), unpublished)

toTry(planned) == SelectSeq(callsFor(planned), unpublished)

releaseDue == ~released /\ ~Over /\ phase # "NONE" /\ houseTime > KeeperReferenceAt + KeeperReleaseAfter

planning == phase = "FROZEN" /\ houseTime >= KeeperReferenceAt

\* planCross finds a cross in the book or not; a read that fails ends the look.
look ==
  /\ keeperUp /\ calling = "look"
  /\ \/ \E planned \in BOOLEAN :
          wanted' = IF released \/ releaseDue THEN <<>> ELSE toTry(planned)
     \/ PartActs("reads") /\ planning /\ wanted' = <<>>
  /\ released' = (released \/ releaseDue)
  /\ calling' = IF wanted' = <<>> THEN "look" ELSE "call"
  /\ lookedNow' = TRUE
  /\ UNCHANGED <<keeperCase, houseVars, keeperUp, keeperCrashes, refusedCalls, publishedAt, downLate>>

\* After a call that was refused the next one is tried; after one that only
\* has to wait, submitCross ends the look and extend does not.
nextCall(outcome) ==
  LET call == Head(wanted)
      goesOn == Tail(wanted) # <<>> /\ (outcome = "refused" \/ (outcome = "wait" /\ call = "extend"))
  IN  /\ wanted' = IF goesOn THEN Tail(wanted) ELSE <<>>
      /\ calling' = IF goesOn THEN "call" ELSE "look"

Refuses == refusedCalls' = refusedCalls \cup {Head(wanted)} /\ nextCall("refused")

waits(reply) == reply = "too early"

\* act, the dry run.  Anything but a revert that says too early is final for
\* this auction and call, an error of the node included.
act ==
  /\ keeperUp /\ calling = "call"
  /\ LET call == Head(wanted)
     IN  IF call \in refusedCalls THEN nextCall("refused") /\ UNCHANGED refusedCalls
         ELSE \/ answer(call) = "ok" /\ calling' = "send" /\ UNCHANGED <<wanted, refusedCalls>>
              \/ waits(answer(call)) /\ nextCall("wait") /\ UNCHANGED refusedCalls
              \/ answer(call) # "ok" /\ ~waits(answer(call)) /\ Refuses
              \/ PartActs("node") /\ Refuses
  /\ UNCHANGED <<keeperCase, houseVars, keeperUp, keeperCrashes, released, publishedAt, keeperHistory>>

\* sendAndWait: it lands, it reverts on what changed since the dry run, the
\* node fails, or the receipt never comes and the look ends by an exception.
sendAndWait ==
  /\ keeperUp /\ calling = "send"
  /\ LET call == Head(wanted)
     IN  \/ /\ answer(call) = "ok" /\ Lands(call)
            /\ \/ /\ nextCall("sent")
                  /\ publishedAt' = IF call = "publishIndicative" THEN houseTime ELSE publishedAt
                  /\ UNCHANGED refusedCalls
               \/ /\ PartActs("node")
                  /\ wanted' = <<>> /\ calling' = "look"
                  /\ UNCHANGED <<refusedCalls, publishedAt>>
         \/ (answer(call) # "ok" \/ PartActs("node")) /\ Refuses /\ UNCHANGED <<houseVars, publishedAt>>
  /\ UNCHANGED <<keeperCase, keeperUp, keeperCrashes, released, keeperHistory>>

keeperDies ==
  /\ PartActs("crash") /\ keeperUp /\ keeperCrashes < KeeperCrashes
  /\ keeperUp' = FALSE /\ keeperCrashes' = keeperCrashes + 1
  /\ downLate' = (downLate \/ houseTime > AbortDeadline)
  /\ UNCHANGED <<keeperCase, houseVars, keeperMemory, lookedNow>>

runKeeper ==
  /\ ~keeperUp /\ keeperUp' = TRUE
  /\ wanted' = <<>> /\ calling' = "look"
  /\ refusedCalls' = {} /\ released' = FALSE /\ publishedAt' = -1
  /\ lookedNow' = FALSE
  /\ UNCHANGED <<keeperCase, houseVars, keeperCrashes, downLate>>

HouseCalls == {"openAuction", "freeze", "submitCross", "extend", "abortAuction", "executeCross"}

KeeperNext ==
  \/ Second \/ Challenged \/ MultiplierMoves \/ look \/ act \/ sendAndWait \/ keeperDies \/ runKeeper
  \/ \E call \in HouseCalls : OtherCalls(call)

\* A running process polls for blocks and time goes on.  A process that ends takes
\* its container with it, which the host starts again (entrypoint.sh).  Nothing
\* is assumed of the other callers, nor of when the process comes back.
KeeperFair == /\ WF_keeperVars(Second) /\ WF_keeperVars(look) /\ WF_keeperVars(act)
              /\ WF_keeperVars(sendAndWait) /\ WF_keeperVars(runKeeper)

KeeperSpec == KeeperInit /\ [][KeeperNext]_keeperVars /\ KeeperFair

---------------------------------------------------------------------------
(* Properties.                                                             *)

\* The auctions a keeper gives up: when RELEASE_AFTER is over it lets go of one
\* past whose deadline the process ended or was missing, that was crossed too
\* late, whose book or reference cannot be read, or one of whose ending calls
\* was refused.  A refusal is for good, so that an auction whose cross was
\* looked at just before a challenge put it back is not executed when it is
\* crossed again; and a cross that cannot be executed is not aborted.
CrossStuck ==
  /\ phase = "CROSSED"
  /\ multiplierMoved \/ ("executeCross" \in refusedCalls /\ (challenges > 0 \/ PartActs("node")))
LetGo ==
  /\ released
  /\ \/ downLate
     \/ crossedAt > AbortDeadline
     \/ planning /\ PartActs("reads")
     \/ CrossStuck
     \/ "abortAuction" \in refusedCalls /\ PartActs("node")

\* The keeper brings every auction to its end that is open, frozen or crossed,
\* whoever opened it and whatever the process before it knew: one started again
\* takes up where the chain is.
KeeperFinishes == phase \in {"DISCLOSURE", "FROZEN", "CROSSED"} ~> Over \/ LetGo

===========================================================================
