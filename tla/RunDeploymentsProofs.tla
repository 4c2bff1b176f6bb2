------------------------ MODULE RunDeploymentsProofs ------------------------
(***************************************************************************)
(* Proofs about RunDeployments: whatever requests, deployment tasks and    *)
(* reconciliations interleave, and whatever calls time out, run late or    *)
(* are cut off, the active deployment was confirmed by the agent, and      *)
(* nothing asks for its container to be stopped but the activation of a    *)
(* confirmed successor or the deletion of the app.                         *)
(***************************************************************************)
EXTENDS RunDeployments, TLAPS

Labels ==
    {"idle", "ship", "shipping", "start", "starting", "previous", "stopping", "flip", "ready",
     "fail", "removing", "rmdir", "delete_app", "stop_each", "pending", "restoring", "sweep",
     "list", "listing", "sweeping", "swept"}

(* The active deployment has a row and was confirmed; a row was minted.     *)
RowsInv == Rows \subseteq minted /\ (active # None => active \in Rows \cap confirmed)

(* An activation works on a deployment, and past the agent's answer on one  *)
(* that is confirmed.                                                       *)
WorkInv ==
    \A p \in Procs :
        /\ pc[p] = "starting" => dep[p] \in Deps
        /\ pc[p] \in {"previous", "stopping", "flip"} => dep[p] \in confirmed

(* A request to stop a container comes from the deletion of the app, from   *)
(* the deletion of the deployment itself, whose row is gone for good, or    *)
(* from the activation of another, confirmed one.                           *)
StopFor(c) ==
    c[1] = "stop" =>
        \/ c[3] = None
        \/ c[3] = c[2] /\ c[2] \in minted \ Rows
        \/ c[3] # c[2] /\ c[3] \in confirmed

(* What is shipped or started is a deployment.                              *)
Names(c) == c[1] \in {"ship", "start"} => c[2] \in Deps

CallsInv ==
    /\ \A c \in late : StopFor(c) /\ Names(c)
    /\ \A p \in Procs : StopFor(rpc[p]) /\ Names(rpc[p])

SwitchInv == Places /\ pc \in [Procs -> Labels] /\ RowsInv /\ WorkInv /\ CallsInv

USE RunAssumption DEF Procs, Calls, Quiet, Ok, Err

\* Init => SwitchInv: nothing is deployed and no call is under way
LEMMA InitSwitch == Init => SwitchInv
  BY DEF Init, SwitchInv, Places, Labels, RowsInv, WorkInv, CallsInv, StopFor, Names, Rows

USE DEF SwitchInv, Places, Labels, RowsInv, WorkInv, CallsInv, StopFor, Names, Rows,
        rows, agent, session, local

\* The task of a deployment preserves the invariant
LEMMA DeployKeeps ==
  ASSUME SwitchInv, NEW p \in Requests,
         (\E d \in Deps : StartDeployment(p, d)) \/ Ship(p) \/ Shipped(p) \/ MarkReady(p)
             \/ RecordFailure(p)
  PROVE  SwitchInv'
<1> USE DEF Goto, CallAgent, Answered, Finish
<1>1. CASE \E d \in Deps : StartDeployment(p, d)
  BY <1>1 DEF StartDeployment, Begin, Admit
<1>2. CASE Ship(p) BY <1>2 DEF Ship
<1>3. CASE Shipped(p) BY <1>3 DEF Shipped
<1>4. CASE MarkReady(p)
  <2>1. Rows' = Rows BY <1>4 DEF MarkReady
  <2> HIDE DEF Rows
  <2> QED BY <1>4, <2>1 DEF MarkReady
<1>5. CASE RecordFailure(p)
  <2>1. Rows' = Rows BY <1>5 DEF RecordFailure
  <2> HIDE DEF Rows
  <2> QED BY <1>5, <2>1 DEF RecordFailure
<1> QED BY <1>1, <1>2, <1>3, <1>4, <1>5

\* activate_with_containers preserves the invariant
LEMMA ActivateKeeps ==
  ASSUME SwitchInv, NEW p \in Requests,
         (\E d \in Deps : ActivateRequest(p, d)) \/ StartNew(p) \/ NewStarted(p)
             \/ StopPrevious(p) \/ PreviousStopped(p) \/ Flip(p)
  PROVE  SwitchInv'
<1> USE DEF Goto, CallAgent, Answered, Finish, Fail
<1>1. CASE \E d \in Deps : ActivateRequest(p, d)
  BY <1>1 DEF ActivateRequest, Admit
<1>2. CASE StartNew(p) BY <1>2 DEF StartNew
<1>3. CASE NewStarted(p) BY <1>3 DEF NewStarted
<1>4. CASE StopPrevious(p) BY <1>4 DEF StopPrevious
<1>5. CASE PreviousStopped(p) BY <1>5 DEF PreviousStopped
<1>6. CASE Flip(p) BY <1>6 DEF Flip
<1> QED BY <1>1, <1>2, <1>3, <1>4, <1>5, <1>6

\* The deletions of a deployment and of the app preserve the invariant
LEMMA DeleteKeeps ==
  ASSUME SwitchInv, NEW p \in Requests,
         (\E d \in Deps : DeleteDeployment(p, d)) \/ RemoveDir(p) \/ Removed(p)
             \/ DeleteApp(p) \/ StopEach(p) \/ EachStopped(p) \/ DeleteAppRows(p)
  PROVE  SwitchInv'
<1> USE DEF Goto, CallAgent, Answered, Finish
<1>1. CASE \E d \in Deps : DeleteDeployment(p, d)
  BY <1>1 DEF DeleteDeployment, Admit
<1>2. CASE RemoveDir(p) BY <1>2 DEF RemoveDir
<1>3. CASE Removed(p) BY <1>3 DEF Removed
<1>4. CASE DeleteApp(p) BY <1>4 DEF DeleteApp, Begin, Admit
<1>5. CASE StopEach(p) BY <1>5 DEF StopEach
<1>6. CASE EachStopped(p) BY <1>6 DEF EachStopped
<1>7. CASE DeleteAppRows(p) BY <1>7 DEF DeleteAppRows
<1> QED BY <1>1, <1>2, <1>3, <1>4, <1>5, <1>6, <1>7

\* A reconciliation preserves the invariant
LEMMA ReconcileKeeps ==
  ASSUME SwitchInv, Reconcile
  PROVE  SwitchInv'
<1> USE DEF Goto, CallAgent, Answered, Rec
<1>1. CASE FailPending BY <1>1 DEF FailPending
<1>2. CASE FailEach
  <2>1. Rows' = Rows BY <1>2 DEF FailEach
  <2> HIDE DEF Rows
  <2> QED BY <1>2, <2>1 DEF FailEach
<1>3. CASE Restore BY <1>3 DEF Restore
<1>4. CASE Restored BY <1>4 DEF Restored
<1>5. CASE SweepRead BY <1>5 DEF SweepRead
<1>6. CASE SweepList BY <1>6 DEF SweepList
<1>7. CASE SweepListed BY <1>7 DEF SweepListed
<1>8. CASE SweepDelete BY <1>8 DEF SweepDelete
<1>9. CASE SweepDeleted BY <1>9 DEF SweepDeleted
<1>10. CASE SweepDone BY <1>10 DEF SweepDone
<1> QED BY <1>1, <1>2, <1>3, <1>4, <1>5, <1>6, <1>7, <1>8, <1>9, <1>10 DEF Reconcile

\* The agent's tasks, late ones included, preserve the invariant
LEMMA AgentKeeps ==
  ASSUME SwitchInv,
         (\E p \in Procs : AgentRuns(p) \/ AgentFails(p)) \/ (\E c \in Calls : LateRuns(c))
  PROVE  SwitchInv'
<1>1. ASSUME NEW c \in Calls, Names(c), Effect(c)
      PROVE  running' \subseteq Deps /\ dirs' \subseteq Deps
  BY <1>1 DEF Effect, RunningAfter, DirsAfter
<1>2. CASE \E p \in Procs : AgentRuns(p)
  <2>1. PICK p \in Procs : AgentRuns(p) BY <1>2
  <2>2. running' \subseteq Deps /\ dirs' \subseteq Deps
    BY <1>1, <2>1 DEF AgentRuns
  <2>3. todo' \in [Procs -> SUBSET Deps] BY <2>1 DEF AgentRuns
  <2> QED BY <2>1, <2>2, <2>3 DEF AgentRuns
<1>3. CASE \E p \in Procs : AgentFails(p) BY <1>3 DEF AgentFails, Fault
<1>4. CASE \E c \in Calls : LateRuns(c)
  <2>1. PICK c \in Calls : LateRuns(c) BY <1>4
  <2>2. running' \subseteq Deps /\ dirs' \subseteq Deps
    BY <1>1, <2>1 DEF LateRuns
  <2> QED BY <2>1, <2>2 DEF LateRuns
<1> QED BY <1>2, <1>3, <1>4

\* Timeouts, lost sessions and dropped requests preserve the invariant
LEMMA FaultsKeep ==
  ASSUME SwitchInv,
         \/ \E p \in Procs : CallTimeout(p)
         \/ \E p \in Requests : RequestDropped(p)
         \/ SessionLost \/ AgentConnects
  PROVE  SwitchInv'
<1> USE DEF Fault, Goto, Finish
<1>1. CASE \E p \in Procs : CallTimeout(p) BY <1>1 DEF CallTimeout
<1>2. CASE \E p \in Requests : RequestDropped(p) BY <1>2 DEF RequestDropped
<1>3. CASE SessionLost BY <1>3, SMTT(90) DEF SessionLost, InFlight
<1>4. CASE AgentConnects BY <1>4 DEF AgentConnects
<1> QED BY <1>1, <1>2, <1>3, <1>4

\* The inductive invariant holds in every reachable state
THEOREM SwitchInvariant == Spec => []SwitchInv
<1>1. SwitchInv /\ UNCHANGED vars => SwitchInv' BY DEF vars
<1>2. SwitchInv /\ Next => SwitchInv'
  <2> HIDE DEF SwitchInv, Calls
  <2> QED BY DeployKeeps, ActivateKeeps, DeleteKeeps, ReconcileKeeps, AgentKeeps, FaultsKeep
          DEF Next, RequestStep, AgentStep
<1> HIDE DEF SwitchInv
<1> QED BY InitSwitch, <1>1, <1>2, PTL DEF Spec

\* activate_with_containers flips `active` "only once the new container is
\* confirmed up", and a failed redeploy, the deletion of a deployment or a
\* reconciliation never takes the active container down
THEOREM SwitchesAreSafe == Spec => []SwitchesSafely
<1>1. SwitchInv => SwitchesSafely
  BY DEF SwitchesSafely, ActiveWasConfirmed, OnlyReplacedIsStopped, Outstanding, InFlight
<1> HIDE DEF SwitchInv
<1> QED BY <1>1, SwitchInvariant, PTL

\* What a step does to the three flags: it sets them or leaves them alone
LEMMA FlagsAreSet ==
  ASSUME [Next]_vars
  PROVE  /\ app' = FALSE \/ app' = app
         /\ connected' = TRUE \/ connected' = FALSE \/ connected' = connected
         /\ signal' = TRUE \/ signal' = FALSE \/ signal' = signal
<1> HIDE DEF SwitchInv, Calls
<1>1. CASE UNCHANGED vars BY <1>1 DEF vars
<1>2. CASE \E p \in Requests, d \in Deps :
              StartDeployment(p, d) \/ ActivateRequest(p, d) \/ DeleteDeployment(p, d)
  BY <1>2 DEF StartDeployment, ActivateRequest, DeleteDeployment
<1>3. CASE \E p \in Requests : DeleteApp(p) \/ RequestStep(p) \/ RequestDropped(p)
  BY <1>3 DEF DeleteApp, RequestStep, RequestDropped, Ship, Shipped, MarkReady, RecordFailure,
              StartNew, NewStarted, StopPrevious, PreviousStopped, Flip, RemoveDir, Removed,
              StopEach, EachStopped, DeleteAppRows
<1>4. CASE Reconcile
  BY <1>4 DEF Reconcile, FailPending, FailEach, Restore, Restored, SweepRead, SweepList,
              SweepListed, SweepDelete, SweepDeleted, SweepDone
<1>5. CASE \E p \in Procs : AgentStep(p) \/ CallTimeout(p)
  BY <1>5 DEF AgentStep, AgentRuns, AgentFails, CallTimeout
<1>6. CASE \E c \in Calls : LateRuns(c) BY <1>6 DEF LateRuns
<1>7. CASE SessionLost \/ AgentConnects BY <1>7 DEF SessionLost, AgentConnects
<1> QED BY <1>1, <1>2, <1>3, <1>4, <1>5, <1>6, <1>7 DEF Next

\* Type correctness of the rows, the agent and the processes
THEOREM TypeCorrect == Spec => []TypeOK
<1> DEFINE Flags == app \in BOOLEAN /\ connected \in BOOLEAN /\ signal \in BOOLEAN
<1>1. Init => Flags BY DEF Init
<1>2. Flags /\ [Next]_vars => Flags' BY FlagsAreSet, Zenon
<1>3. SwitchInv /\ Flags => TypeOK BY DEF TypeOK
<1> HIDE DEF SwitchInv, Flags
<1> QED BY <1>1, <1>2, <1>3, SwitchInvariant, PTL DEF Spec

-----------------------------------------------------------------------------
(* The rows.  A deleted app has none.                                       *)
GoneInv == ~app => Rows = {} /\ active = None

\* What a step does to the rows
RowsStay == UNCHANGED <<app, active, Rows>>
RowAdded(d) == app /\ d \notin Rows /\ Rows' = Rows \cup {d} /\ UNCHANGED <<app, active>>
RowActivated(d) == app /\ d \in Rows /\ active' = d /\ UNCHANGED <<app, Rows>>
RowRemoved(d) == d \in Rows /\ active # d /\ Rows' = Rows \ {d} /\ UNCHANGED <<app, active>>
AppRemoved == app' = FALSE /\ active' = None /\ Rows' = {}

RowStep ==
    \/ RowsStay \/ AppRemoved
    \/ \E d \in Deps : RowAdded(d) \/ RowActivated(d) \/ RowRemoved(d)

\* A handler or task writes the rows as a whole
LEMMA RowSteps == SwitchInv /\ [Next]_vars => RowStep
<1> HIDE DEF WorkInv, CallsInv, Calls
<1> SUFFICES ASSUME SwitchInv, [Next]_vars PROVE RowStep OBVIOUS
<1>0. ASSUME UNCHANGED rows PROVE RowsStay BY <1>0 DEF RowsStay
<1>1. ASSUME NEW p \in Requests, NEW d \in Deps, StartDeployment(p, d) PROVE RowAdded(d)
  BY <1>1 DEF StartDeployment, RowAdded
<1>2. ASSUME NEW p \in Requests, NEW d \in Deps, DeleteDeployment(p, d) PROVE RowRemoved(d)
  BY <1>2 DEF DeleteDeployment, RowRemoved
<1>3. ASSUME NEW p \in Requests, Flip(p)
      PROVE  RowsStay \/ \E d \in Deps : RowActivated(d)
  <2>1. CASE UNCHANGED active BY <1>0, <1>3, <2>1 DEF Flip
  <2>2. CASE app /\ dep[p] \in Rows /\ active' = dep[p]
    <3>1. RowActivated(dep[p]) /\ dep[p] \in Deps BY <1>3, <2>2 DEF Flip, RowActivated
    <3> QED BY <3>1
  <2> QED BY <1>3, <2>1, <2>2 DEF Flip
<1>4. ASSUME NEW p \in Requests, DeleteAppRows(p) PROVE AppRemoved
  BY <1>4 DEF DeleteAppRows, AppRemoved
<1>5. ASSUME NEW p \in Requests, MarkReady(p) \/ RecordFailure(p) PROVE RowsStay
  <2>1. Rows' = Rows BY <1>5 DEF MarkReady, RecordFailure
  <2> QED BY <1>5, <2>1 DEF MarkReady, RecordFailure, RowsStay
<1>6. CASE FailEach
  <2>1. Rows' = Rows BY <1>6 DEF FailEach
  <2> QED BY <1>6, <2>1 DEF FailEach, RowsStay, RowStep
<1> HIDE DEF SwitchInv, Rows
<1>7. ASSUME NEW p \in Requests,
             \/ \E d \in Deps : ActivateRequest(p, d)
             \/ DeleteApp(p) \/ Ship(p) \/ Shipped(p) \/ StartNew(p) \/ NewStarted(p)
             \/ StopPrevious(p) \/ PreviousStopped(p) \/ RemoveDir(p) \/ Removed(p)
             \/ StopEach(p) \/ EachStopped(p) \/ RequestDropped(p)
      PROVE  UNCHANGED rows
  BY <1>7 DEF ActivateRequest, DeleteApp, Ship, Shipped, StartNew, NewStarted, StopPrevious,
              PreviousStopped, RemoveDir, Removed, StopEach, EachStopped, RequestDropped
<1>8. ASSUME Reconcile, ~FailEach PROVE UNCHANGED rows
  BY <1>8 DEF Reconcile, FailPending, Restore, Restored, SweepRead, SweepList, SweepListed,
              SweepDelete, SweepDeleted, SweepDone
<1>9. ASSUME \/ \E p \in Procs : AgentStep(p) \/ CallTimeout(p)
             \/ \E c \in Calls : LateRuns(c)
             \/ SessionLost \/ AgentConnects \/ UNCHANGED vars
      PROVE  UNCHANGED rows
  BY <1>9 DEF AgentStep, AgentRuns, AgentFails, CallTimeout, LateRuns, SessionLost,
              AgentConnects, vars
<1> HIDE DEF rows, vars, Procs
<1> QED BY <1>0, <1>1, <1>2, <1>3, <1>4, <1>5, <1>6, <1>7, <1>8, <1>9
        DEF Next, RequestStep, RowStep

HIDE DEF SwitchInv, Places, Labels, RowsInv, WorkInv, CallsInv, Rows, Calls

\* A deployment is recorded or activated only while the app has its row
LEMMA GoneKept == GoneInv /\ RowStep => GoneInv'
  BY DEF GoneInv, RowStep, RowsStay, RowAdded, RowActivated, RowRemoved, AppRemoved

\* Each of these is a step of the catalogue
LEMMA RowStepIsCatalogs ==
  ASSUME GoneInv, RowStep, Rows \subseteq Deps
  PROVE  [Catalog!Next]_(Catalog!vars)
<1> USE DEF Catalog!Exists, Catalog!DeploymentsOf
<1>0. None # "app" OBVIOUS
<1>1. CASE RowsStay BY <1>1 DEF RowsStay, Catalog!vars
<1>2. ASSUME NEW d \in Deps, RowAdded(d) PROVE Catalog!AddDeployment(d)
  BY <1>0, <1>2 DEF RowAdded, Catalog!AddDeployment
<1>3. ASSUME NEW d \in Deps, RowActivated(d) PROVE Catalog!Activate("app", d)
  BY <1>0, <1>3 DEF RowActivated, Catalog!Activate
<1>4. ASSUME NEW d \in Deps, RowRemoved(d) PROVE Catalog!RemoveDeployment("app", d)
  BY <1>4 DEF RowRemoved, Catalog!RemoveDeployment
<1>5. CASE AppRemoved
  <2>1. CASE app
    <3>1. Catalog!RemoveApp("app") BY <1>0, <1>5, <2>1 DEF AppRemoved, Catalog!RemoveApp
    <3> QED BY <3>1 DEF Catalog!Next
  <2>2. CASE ~app
    BY <1>5, <2>2 DEF AppRemoved, GoneInv, Catalog!vars
  <2> QED BY <2>1, <2>2
<1> QED BY <1>1, <1>2, <1>3, <1>4, <1>5 DEF RowStep, Catalog!Next

(* The handlers of routes/api.rs and the reconciliation change the rows     *)
(* only by the steps of AppCatalog, which storage.rs is shown to take: what *)
(* is proved of the catalogue holds of an app in run mode too.              *)
THEOREM RowsFollow == Spec => RowsFollowCatalog
<1>1. Init => GoneInv BY DEF Init, GoneInv
<1>2. SwitchInv => Rows \subseteq Deps BY DEF Rows
<1>3. SwitchInv /\ GoneInv /\ [Next]_vars => GoneInv' /\ [Catalog!Next]_(Catalog!vars)
  BY <1>2, RowSteps, GoneKept, RowStepIsCatalogs
<1> QED BY <1>1, <1>3, SwitchInvariant, PTL DEF Spec, RowsFollowCatalog
=============================================================================
