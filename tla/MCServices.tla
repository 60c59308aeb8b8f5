---------------------------- MODULE MCServices ----------------------------
(***************************************************************************)
(* The processes that act on what the chain does next, for TLC: the solver,*)
(* the auction keeper, the coordinator's announcements and an owner at the *)
(* cards.  They share no memory, so a behaviour is about one of them       *)
(* (service), with the chain and the other parties as its surroundings.    *)
(***************************************************************************)
EXTENDS SolverService, Keeper, Lifecycle, OrderPath

VARIABLE service

Services == {"solver", "keeper", "lifecycle", "owner"}
serviceVars == <<service, solverVars, keeperVars, lifecycleVars, pathVars>>

\* A process that is not the subject stays at one of its initial states.
Fixed(name, cases, case) == service = name \/ case = CHOOSE c \in cases : TRUE

ServicesInit ==
  /\ service \in Services
  /\ SolverInit /\ KeeperInit /\ LifecycleInit /\ PathInit
  /\ Fixed("solver", SolverCases, solverCase)
  /\ Fixed("keeper", KeeperCases, keeperCase)
  /\ Fixed("lifecycle", LifecycleCases, lifecycleCase)
  /\ Fixed("owner", PathCases, pathCase)

ServicesNext ==
  \/ service = "solver" /\ SolverNext /\ UNCHANGED <<service, keeperVars, lifecycleVars, pathVars>>
  \/ service = "keeper" /\ KeeperNext /\ UNCHANGED <<service, solverVars, lifecycleVars, pathVars>>
  \/ service = "lifecycle" /\ LifecycleNext /\ UNCHANGED <<service, solverVars, keeperVars, pathVars>>
  \/ service = "owner" /\ PathNext /\ UNCHANGED <<service, solverVars, keeperVars, lifecycleVars>>

MaxPresses == 2

\* The fairness of each module, for the behaviours that are about it.
ServicesFair ==
  /\ WF_solverVars(service = "solver" /\ Block /\ UNCHANGED solverCase)
  /\ \A b \in SolverBatches : WF_solverVars(service = "solver" /\ TaskStep(b) /\ UNCHANGED solverCase)
  /\ WF_keeperVars(service = "keeper" /\ Second)
  /\ WF_keeperVars(service = "keeper" /\ look)
  /\ WF_keeperVars(service = "keeper" /\ act)
  /\ WF_keeperVars(service = "keeper" /\ sendAndWait)
  /\ WF_keeperVars(service = "keeper" /\ runKeeper)
  /\ WF_lifecycleVars(service = "lifecycle" /\ Mined)
  /\ WF_lifecycleVars(service = "lifecycle" /\ poll)
  /\ \A t \in 1..MaxPresses : WF_pathVars(service = "owner" /\ t \in Tries /\ TryStep(t))

ServicesSpec == ServicesInit /\ [][ServicesNext]_serviceVars /\ ServicesFair

---------------------------------------------------------------------------
(* The instances.                                                          *)

SolverInstances ==
  {<<{1}, {"rival", "others", "reads"}>>, <<{1}, {"wall clock", "signal", "stream"}>>,
   <<{1}, {"crash", "rival"}>>, <<{1, 2}, {"wall clock"}>>}

KeeperInstances ==
  {<<9, {"crash", "multiplier"}>>, <<9, {"callers", "crash"}>>, <<9, {"challenger", "reads"}>>, <<9, {"node"}>>}

LifecycleInstances ==
  {<<"chain", {"logs"}, 5>>, <<"chain", {"failing reads"}, 5>>, <<"chain", {"logs", "failing logs"}, 4>>,
   <<"fork", {"revert", "failing reads"}, 4>>}

\* What is pressed, with which amounts, whether Permit2 is approved, how far
\* apart the two chains' heads are, when time stops, who else acts.
PathCase(presses, amounts, ok, gap, last, acts) ==
  [presses |-> presses, amounts |-> amounts, approved |-> ok, gap |-> gap, last |-> last, acts |-> acts]

PathInstances ==
  {PathCase(<<"sign">>, {2}, TRUE, 9, 9, {"owner", "odd signatures", "old stamps"}),
   PathCase(<<"sign", "sign">>, {2}, TRUE, 9, 5, {"lost replies"}),
   PathCase(<<"approve", "sign">>, {2}, FALSE, 9, 9, {"wallet", "lost replies"}),
   PathCase(<<"approve", "commit">>, {2}, FALSE, 9, 9, {"wallet"}),
   PathCase(<<"commit", "commit">>, {1, 2}, TRUE, 9, 7, {}),
   PathCase(<<"commit">>, {2}, TRUE, 1, 9, {"wallet", "lost replies", "odd signatures"}),
   PathCase(<<"commit", "sign">>, {1}, TRUE, 9, 6, {}),
   PathCase(<<"sign", "sign">>, {1}, TRUE, 9, 4, {})}

TopicValues ==
  <<[t \in 0..LifecycleHorizon |-> t \div 4],
    [t \in 0..LifecycleHorizon |-> IF t \in {3, 4} THEN 1 ELSE 0],
    [t \in 0..LifecycleHorizon |-> IF t = 4 THEN NoAnswer ELSE IF t \in {2, 5} THEN Unhealthy ELSE Healthy]>>
===========================================================================
