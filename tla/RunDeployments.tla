--------------------------- MODULE RunDeployments ---------------------------
(***************************************************************************)
(* Run-mode deployments of one app: the handlers of routes/api.rs that     *)
(* pair a change of the rows with calls to the agent, the reconciliation   *)
(* that runs when an agent connects (reconcile.rs), and the agent's        *)
(* containers and deployment directories.                                  *)
(*                                                                         *)
(* A change of the rows is one step here: AppCatalog, which HubStorage     *)
(* implements.  A call to the agent is not: the request travels, the agent *)
(* runs it in a task of its own, and the hub may have given up by then.    *)
(***************************************************************************)
EXTENDS Naturals, FiniteSets

CONSTANTS Deps,      \* deployment ids
          Requests,  \* slots for concurrent requests and deployment tasks
          Failures,  \* what the environment may do: see FailureKinds
          MaxFaults, \* bound on how often it does
          MaxRequests, \* bound on the requests made
          None

FailureKinds ==
    {"error",    \* the agent answers with an error
     "timeout",  \* a one-shot call times out on the hub while the agent works on
     "blip",     \* the session ends, the agent's tasks go on
     "restart",  \* the agent process restarts
     "drop"}     \* the client of a request goes away

ASSUME RunAssumption ==
    /\ None \notin Deps \cup {"app", "Pending", "Ready", "Failed"}
    /\ Failures \subseteq FailureKinds /\ MaxFaults \in Nat /\ MaxRequests \in Nat

Rec == "reconciler"
Procs == Requests \cup {Rec}

VARIABLES
    app,       \* the row of the app exists
    status,    \* status[d]: the row of d, None without a row
    active,    \* active_deployment_id
    minted,    \* ids in use: a deployment id is never given out twice
    running,   \* deployments whose container runs on the agent
    dirs,      \* deployments whose files are on the agent
    late,      \* agent tasks whose caller has given up
    connected, \* the agent has a session
    signal,    \* agent_connected channel (capacity 1) is not empty
    pc, dep,   \* dep[p]: the deployment p works on
    task,      \* slots that hold a detached deployment task
    todo,      \* todo[p]: deployments still to visit in a loop
    rpc,       \* rpc[p]: the call p waits for, or its outcome
    confirmed, \* history: deployments the agent has reported as started
    faults,    \* failures so far
    made       \* requests so far

rows == <<app, status, active, minted>>
agent == <<running, dirs, late>>
session == <<connected, signal>>
local == <<pc, dep, task, todo, rpc>>
vars == <<rows, agent, session, local, confirmed, faults, made>>

Rows == {d \in Deps : status[d] # None}
\* an agent operation, its deployment, and (history only) the deployment on
\* whose behalf the hub asks for it
Calls == {"ship", "start", "stop", "rmdir", "list"} \X (Deps \cup {None}) \X (Deps \cup {None})

Quiet == <<"quiet", None, None>>
Ok == <<"ok", None, None>>
Err == <<"err", None, None>>

Init ==
    /\ app = TRUE /\ status = [d \in Deps |-> None]
    /\ active = None /\ minted = {}
    /\ running = {} /\ dirs = {} /\ late = {}
    /\ connected = FALSE /\ signal = FALSE
    /\ pc = [p \in Procs |-> "idle"] /\ dep = [p \in Procs |-> None]
    /\ task = {} /\ todo = [p \in Procs |-> {}]
    /\ rpc = [p \in Procs |-> Quiet]
    /\ confirmed = {} /\ faults = 0 /\ made = 0

-----------------------------------------------------------------------------
Fault(kind) ==
    /\ kind \in Failures
    /\ faults < MaxFaults
    /\ faults' = faults + 1

Admit ==
    /\ made < MaxRequests
    /\ made' = made + 1

Goto(p, l) == pc' = [pc EXCEPT ![p] = l]

\* for_host: a disconnected host's link fails the call at once
CallAgent(p, op, d, e, l) ==
    /\ rpc' = [rpc EXCEPT ![p] = IF connected THEN <<op, d, e>> ELSE Err]
    /\ Goto(p, l)

\* p at l has its answer r
Answered(p, l, r) ==
    /\ pc[p] = l
    /\ rpc[p] = r
    /\ rpc' = [rpc EXCEPT ![p] = Quiet]

\* the handler returns, or the task records its failure
Finish(p) ==
    /\ Goto(p, "idle")
    /\ dep' = [dep EXCEPT ![p] = None]
    /\ task' = task \ {p}

Fail(p) == IF p \in task THEN Goto(p, "fail") /\ UNCHANGED <<dep, task>> ELSE Finish(p)

Begin(p, d, l) ==
    /\ Admit
    /\ p \in Requests
    /\ pc[p] = "idle"
    /\ Goto(p, l)
    /\ dep' = [dep EXCEPT ![p] = d]

-----------------------------------------------------------------------------
(* A git deployment of the app and its detached task *)

\* start_git_deployment: refused while the app has a Pending row
StartDeployment(p, d) ==
    /\ app
    /\ d \notin minted
    /\ \A e \in Deps : status[e] # "Pending"
    /\ Begin(p, d, "ship")
    /\ status' = [status EXCEPT ![d] = "Pending"]
    /\ minted' = minted \cup {d}
    /\ task' = task \cup {p}
    /\ UNCHANGED <<app, active, agent, session, todo, rpc, confirmed, faults>>

\* clone and finish_git_deployment, which needs the row; then ship to the agent
Ship(p) ==
    /\ pc[p] = "ship"
    /\ \/ dep[p] \in Rows /\ CallAgent(p, "ship", dep[p], dep[p], "shipping")
       \/ Goto(p, "fail") /\ UNCHANGED rpc
    /\ UNCHANGED <<rows, agent, session, dep, task, todo, confirmed, faults, made>>

Shipped(p) ==
    /\ \/ Answered(p, "shipping", Ok) /\ Goto(p, "start")
       \/ Answered(p, "shipping", Err) /\ Goto(p, "fail")
    /\ UNCHANGED <<rows, agent, session, dep, task, todo, confirmed, faults, made>>

MarkReady(p) ==
    /\ pc[p] = "ready"
    /\ \/ /\ dep[p] \in Rows
          /\ status' = [status EXCEPT ![dep[p]] = "Ready"]
          /\ Finish(p)
       \/ /\ dep[p] \notin Rows
          /\ Goto(p, "fail")
          /\ UNCHANGED <<status, dep, task>>
    /\ UNCHANGED <<app, active, minted, agent, session, todo, rpc, confirmed, faults, made>>

\* fail_git_deployment: nothing to record if the row is gone
RecordFailure(p) ==
    /\ pc[p] = "fail"
    /\ status' = [d \in Deps |-> IF d = dep[p] /\ d \in Rows THEN "Failed" ELSE status[d]]
    /\ Finish(p)
    /\ UNCHANGED <<app, active, minted, agent, session, todo, rpc, confirmed, faults, made>>

-----------------------------------------------------------------------------
(* activate_with_containers, as a request or at the end of a task *)

\* a request for an unknown deployment has no effect
ActivateRequest(p, d) ==
    /\ app /\ d \in Rows
    /\ Admit
    /\ p \in Requests /\ pc[p] = "idle"
    /\ dep' = [dep EXCEPT ![p] = d]
    /\ CallAgent(p, "start", d, d, "starting")
    /\ UNCHANGED <<rows, agent, session, task, todo, confirmed, faults>>

StartNew(p) ==
    /\ pc[p] = "start"
    /\ \/ /\ app /\ dep[p] \in Rows
          /\ CallAgent(p, "start", dep[p], dep[p], "starting")
          /\ UNCHANGED <<dep, task>>
       \/ /\ ~(app /\ dep[p] \in Rows)
          /\ Fail(p)
          /\ UNCHANGED rpc
    /\ UNCHANGED <<rows, agent, session, todo, confirmed, faults, made>>

\* the new container is confirmed up, or the old one is left alone
NewStarted(p) ==
    /\ \/ /\ Answered(p, "starting", Ok)
          /\ confirmed' = confirmed \cup {dep[p]}
          /\ Goto(p, "previous")
          /\ UNCHANGED <<dep, task>>
       \/ /\ Answered(p, "starting", Err)
          /\ Fail(p)
          /\ UNCHANGED confirmed
    /\ UNCHANGED <<rows, agent, session, todo, faults, made>>

StopPrevious(p) ==
    /\ pc[p] = "previous"
    /\ IF active \in Rows \ {dep[p]}
         THEN CallAgent(p, "stop", active, dep[p], "stopping")
         ELSE Goto(p, "flip") /\ UNCHANGED rpc
    /\ UNCHANGED <<rows, agent, session, dep, task, todo, confirmed, faults, made>>

\* an error is only logged
PreviousStopped(p) ==
    /\ \E r \in {Ok, Err} : Answered(p, "stopping", r)
    /\ Goto(p, "flip")
    /\ UNCHANGED <<rows, agent, session, dep, task, todo, confirmed, faults, made>>

\* variant: activation without a check of the row
FlipUnchecked(p) ==
    /\ pc[p] = "flip"
    /\ active' = dep[p]
    /\ IF p \in task THEN Goto(p, "ready") /\ UNCHANGED <<dep, task>> ELSE Finish(p)
    /\ UNCHANGED <<app, status, minted, agent, session, todo, rpc, confirmed, faults, made>>

\* storage::activate_deployment
Flip(p) ==
    /\ pc[p] = "flip"
    /\ \/ /\ app /\ dep[p] \in Rows
          /\ active' = dep[p]
          /\ IF p \in task THEN Goto(p, "ready") /\ UNCHANGED <<dep, task>> ELSE Finish(p)
       \/ /\ ~(app /\ dep[p] \in Rows)
          /\ Fail(p)
          /\ UNCHANGED active
    /\ UNCHANGED <<app, status, minted, agent, session, todo, rpc, confirmed, faults, made>>

-----------------------------------------------------------------------------
(* delete_deployment_with_containers and delete_app_with_containers *)

\* storage::delete_deployment: refused for the active deployment
DeleteDeployment(p, d) ==
    /\ d \in Rows
    /\ active # d
    /\ Admit
    /\ p \in Requests /\ pc[p] = "idle"
    /\ status' = [status EXCEPT ![d] = None]
    /\ dep' = [dep EXCEPT ![p] = d]
    /\ CallAgent(p, "stop", d, d, "removing")
    /\ UNCHANGED <<app, active, minted, agent, session, task, todo, confirmed, faults>>

RemoveDir(p) ==
    /\ pc[p] = "removing"
    /\ \/ /\ rpc[p] = Ok
          /\ CallAgent(p, "rmdir", dep[p], dep[p], "rmdir")
          /\ UNCHANGED <<dep, task>>
       \/ Answered(p, "removing", Err) /\ Finish(p)
    /\ UNCHANGED <<rows, agent, session, todo, confirmed, faults, made>>

Removed(p) ==
    /\ \E r \in {Ok, Err} : Answered(p, "rmdir", r)
    /\ Finish(p)
    /\ UNCHANGED <<rows, agent, session, todo, confirmed, faults, made>>

\* variant: the active id is visited whether or not there is one
DeleteAppActiveToo(p) ==
    /\ app
    /\ Begin(p, None, "delete_app")
    /\ todo' = [todo EXCEPT ![p] = Rows \cup {active}]
    /\ UNCHANGED <<rows, agent, session, task, rpc, confirmed, faults>>

\* list_deployments is read once
DeleteApp(p) ==
    /\ app
    /\ Begin(p, None, "delete_app")
    /\ todo' = [todo EXCEPT ![p] = Rows]
    /\ UNCHANGED <<rows, agent, session, task, rpc, confirmed, faults>>

StopEach(p) ==
    /\ pc[p] = "delete_app"
    /\ \E d \in todo[p] :
          /\ CallAgent(p, "stop", d, None, "stop_each")
          /\ todo' = [todo EXCEPT ![p] = @ \ {d}]
    /\ UNCHANGED <<rows, agent, session, dep, task, confirmed, faults, made>>

EachStopped(p) ==
    /\ \/ /\ Answered(p, "stop_each", Ok)
          /\ Goto(p, "delete_app")
          /\ UNCHANGED <<dep, task, todo>>
       \/ /\ Answered(p, "stop_each", Err)
          /\ Finish(p)
          /\ todo' = [todo EXCEPT ![p] = {}]
    /\ UNCHANGED <<rows, agent, session, confirmed, faults, made>>

\* storage::delete_app: the rows of the deployments go with it
DeleteAppRows(p) ==
    /\ pc[p] = "delete_app"
    /\ todo[p] = {}
    /\ app' = FALSE
    /\ status' = [d \in Deps |-> None]
    /\ active' = None
    /\ Finish(p)
    /\ UNCHANGED <<minted, agent, session, todo, rpc, confirmed, faults, made>>

-----------------------------------------------------------------------------
(* on_agent_connected: one reconciliation at a time, driven by the signal *)

FailPending ==
    /\ pc[Rec] = "idle"
    /\ signal
    /\ signal' = FALSE
    /\ todo' = [todo EXCEPT ![Rec] = {d \in Rows : status[d] = "Pending"}]
    /\ Goto(Rec, "pending")
    /\ UNCHANGED <<rows, agent, connected, dep, task, rpc, confirmed, faults, made>>

FailEach ==
    /\ pc[Rec] = "pending"
    /\ \E d \in todo[Rec] :
          /\ status' = [status EXCEPT ![d] = IF d \in Rows THEN "Failed" ELSE None]
          /\ todo' = [todo EXCEPT ![Rec] = @ \ {d}]
    /\ UNCHANGED <<app, active, minted, agent, session, pc, dep, task, rpc, confirmed, faults, made>>

\* reconcile_app: start the container of the active deployment
Restore ==
    /\ pc[Rec] = "pending"
    /\ todo[Rec] = {}
    /\ IF active \in Rows
         THEN CallAgent(Rec, "start", active, active, "restoring")
         ELSE Goto(Rec, "sweep") /\ UNCHANGED rpc
    /\ UNCHANGED <<rows, agent, session, dep, task, todo, confirmed, faults, made>>

Restored ==
    /\ \E r \in {Ok, Err} : Answered(Rec, "restoring", r)
    /\ Goto(Rec, "sweep")
    /\ UNCHANGED <<rows, agent, session, dep, task, todo, confirmed, faults, made>>

\* sweep_agent_orphaned_deployment_dirs: the valid ids are read once
SweepRead ==
    /\ pc[Rec] = "sweep"
    /\ todo' = [todo EXCEPT ![Rec] = Rows]
    /\ Goto(Rec, "list")
    /\ UNCHANGED <<rows, agent, session, dep, task, rpc, confirmed, faults, made>>

SweepList ==
    /\ pc[Rec] = "list"
    /\ IF connected THEN CallAgent(Rec, "list", None, None, "listing") /\ UNCHANGED todo
       ELSE Goto(Rec, "idle") /\ todo' = [todo EXCEPT ![Rec] = {}] /\ UNCHANGED rpc
    /\ UNCHANGED <<rows, agent, session, dep, task, confirmed, faults, made>>

SweepListed ==
    /\ \/ Answered(Rec, "listing", Ok) /\ Goto(Rec, "sweeping") /\ UNCHANGED todo
       \/ /\ Answered(Rec, "listing", Err)
          /\ Goto(Rec, "idle")
          /\ todo' = [todo EXCEPT ![Rec] = {}]
    /\ UNCHANGED <<rows, agent, session, dep, task, confirmed, faults, made>>

SweepDelete ==
    /\ pc[Rec] = "sweeping"
    /\ \E d \in todo[Rec] :
          /\ CallAgent(Rec, "rmdir", d, None, "swept")
          /\ todo' = [todo EXCEPT ![Rec] = @ \ {d}]
    /\ UNCHANGED <<rows, agent, session, dep, task, confirmed, faults, made>>

SweepDeleted ==
    /\ \E r \in {Ok, Err} : Answered(Rec, "swept", r)
    /\ Goto(Rec, "sweeping")
    /\ UNCHANGED <<rows, agent, session, dep, task, todo, confirmed, faults, made>>

\* variant: the signal is taken at the end of the reconciliation
SweepDoneTakesSignal ==
    /\ pc[Rec] = "sweeping"
    /\ todo[Rec] = {}
    /\ Goto(Rec, "idle")
    /\ signal' = FALSE
    /\ UNCHANGED <<rows, agent, connected, dep, task, todo, rpc, confirmed, faults, made>>

SweepDone ==
    /\ pc[Rec] = "sweeping"
    /\ todo[Rec] = {}
    /\ Goto(Rec, "idle")
    /\ UNCHANGED <<rows, agent, session, dep, task, todo, rpc, confirmed, faults, made>>

-----------------------------------------------------------------------------
(* The agent: every request runs in a task of its own *)

\* containers::start binds the deployment's directory; a running container
\* needs nothing
CanRun(c) == c[1] = "start" => c[2] \in dirs \cup running

RunningAfter(c) ==
    CASE c[1] = "start" -> running \cup {c[2]}
      [] c[1] = "stop" -> running \ {c[2]}
      [] OTHER -> running

\* a shipped deployment is in place at once; removing a missing one succeeds
DirsAfter(c) ==
    CASE c[1] = "ship" -> dirs \cup {c[2]}
      [] c[1] = "rmdir" -> dirs \ {c[2]}
      [] OTHER -> dirs

Effect(c) == running' = RunningAfter(c) /\ dirs' = DirsAfter(c)

AgentRuns(p) ==
    /\ rpc[p] \in Calls
    /\ CanRun(rpc[p])
    /\ Effect(rpc[p])
    /\ todo' = IF rpc[p][1] = "list" THEN [todo EXCEPT ![p] = dirs \ @] ELSE todo
    /\ rpc' = [rpc EXCEPT ![p] = Ok]
    /\ UNCHANGED <<rows, late, session, pc, dep, task, confirmed, faults, made>>

AgentFails(p) ==
    /\ rpc[p] \in Calls
    /\ Fault("error") \/ (~CanRun(rpc[p]) /\ UNCHANGED faults)
    /\ rpc' = [rpc EXCEPT ![p] = Err]
    /\ UNCHANGED <<rows, agent, session, pc, dep, task, todo, confirmed, made>>

LateRuns(c) ==
    /\ c \in late
    /\ IF CanRun(c) THEN Effect(c) ELSE UNCHANGED <<running, dirs>>
    /\ late' = late \ {c}
    /\ UNCHANGED <<rows, session, local, confirmed, faults, made>>

\* CALL_TIMEOUT; containers::start streams and has none
CallTimeout(p) ==
    /\ Fault("timeout")
    /\ rpc[p] \in Calls
    /\ rpc[p][1] # "start"
    /\ late' = late \cup {rpc[p]}
    /\ rpc' = [rpc EXCEPT ![p] = Err]
    /\ UNCHANGED <<rows, running, dirs, session, pc, dep, task, todo, confirmed, made>>

InFlight == {p \in Procs : rpc[p] \in Calls}

\* fail_all_pending ends every call of the session
SessionLost ==
    /\ connected
    /\ connected' = FALSE
    /\ \/ Fault("blip") /\ late' = late \cup {rpc[p] : p \in InFlight}
       \/ Fault("restart") /\ late' = {}
    /\ rpc' = [p \in Procs |-> IF p \in InFlight THEN Err ELSE rpc[p]]
    /\ UNCHANGED <<rows, running, dirs, signal, pc, dep, task, todo, confirmed, made>>

\* try_send into the channel of one: a signal that is already there is enough
AgentConnects ==
    /\ ~connected
    /\ connected' = TRUE
    /\ signal' = TRUE
    /\ UNCHANGED <<rows, agent, local, confirmed, faults, made>>

\* axum drops the handler at the await it is at; the agent's task goes on
RequestDropped(p) ==
    /\ Fault("drop")
    /\ p \in Requests \ task
    /\ pc[p] # "idle"
    /\ late' = late \cup ({rpc[p]} \cap Calls)
    /\ rpc' = [rpc EXCEPT ![p] = Quiet]
    /\ todo' = [todo EXCEPT ![p] = {}]
    /\ Finish(p)
    /\ UNCHANGED <<rows, running, dirs, session, confirmed, made>>

-----------------------------------------------------------------------------
RequestStep(p) ==
    \/ Ship(p) \/ Shipped(p) \/ MarkReady(p) \/ RecordFailure(p)
    \/ StartNew(p) \/ NewStarted(p) \/ StopPrevious(p) \/ PreviousStopped(p) \/ Flip(p)
    \/ RemoveDir(p) \/ Removed(p)
    \/ StopEach(p) \/ EachStopped(p) \/ DeleteAppRows(p)

Reconcile ==
    \/ FailPending \/ FailEach \/ Restore \/ Restored
    \/ SweepRead \/ SweepList \/ SweepListed \/ SweepDelete \/ SweepDeleted \/ SweepDone

AgentStep(p) == AgentRuns(p) \/ AgentFails(p)

Next ==
    \/ \E p \in Requests, d \in Deps :
          StartDeployment(p, d) \/ ActivateRequest(p, d) \/ DeleteDeployment(p, d)
    \/ \E p \in Requests : DeleteApp(p) \/ RequestStep(p) \/ RequestDropped(p)
    \/ Reconcile
    \/ \E p \in Procs : AgentStep(p) \/ CallTimeout(p)
    \/ \E c \in Calls : LateRuns(c)
    \/ SessionLost \/ AgentConnects

Spec == Init /\ [][Next]_vars

(* The hub's tasks and the agent's run when they can.  Nobody has to send a *)
(* request, and the agent need not connect.                                 *)
FairSpec ==
    /\ Spec
    /\ \A p \in Requests : WF_vars(RequestStep(p))
    /\ WF_vars(Reconcile)
    /\ \A p \in Procs : WF_vars(AgentStep(p))
    /\ \A c \in Calls : WF_vars(LateRuns(c))

-----------------------------------------------------------------------------
(* Rows, deployments, calls and processes.                                  *)
Places ==
    /\ status \in [Deps -> {None, "Pending", "Ready", "Failed"}]
    /\ active \in Deps \cup {None} /\ minted \subseteq Deps
    /\ running \subseteq Deps /\ dirs \subseteq Deps /\ confirmed \subseteq Deps
    /\ late \subseteq Calls /\ faults \in 0..MaxFaults /\ made \in 0..MaxRequests
    /\ dep \in [Procs -> Deps \cup {None}]
    /\ task \subseteq Requests
    /\ todo \in [Procs -> SUBSET Deps]
    /\ rpc \in [Procs -> Calls \cup {Quiet, Ok, Err}]

(* Type invariant of the rows, the agent and the processes.                 *)
TypeOK == Places /\ app \in BOOLEAN /\ connected \in BOOLEAN /\ signal \in BOOLEAN

(* activate_with_containers flips `active` "only once the new container is  *)
(* confirmed up": whatever runs concurrently, the active deployment is one  *)
(* the agent has reported as started.                                       *)
ActiveWasConfirmed == active # None => active \in confirmed

Outstanding == late \cup {rpc[p] : p \in InFlight}

(* No request to stop the active deployment's container is outstanding,     *)
(* sent or late, unless an activation of another deployment that the agent  *)
(* has confirmed made it, or the app's deletion: a failed redeploy, the     *)
(* deletion of a deployment and a reconciliation never take it down.        *)
OnlyReplacedIsStopped ==
    \A c \in Outstanding : c[1] = "stop" /\ c[2] = active /\ active # None =>
        c[3] = None \/ (c[3] # active /\ c[3] \in confirmed)

(* What serves an app changes only to something confirmed up, and only      *)
(* what was replaced is taken down.                                         *)
SwitchesSafely == ActiveWasConfirmed /\ OnlyReplacedIsStopped

(* The rows change only as AppCatalog allows, whose steps HubStorage shows   *)
(* storage.rs to take: there is one app, which all deployments are made for *)
(* and which is there from the start.                                       *)
Catalog == INSTANCE AppCatalog WITH
    Apps <- {"app"}, Names <- {"app"},
    appName <- [a \in {"app"} |-> IF app THEN "app" ELSE None],
    active <- [a \in {"app"} |-> active],
    depApp <- [d \in Deps |-> "app"],
    live <- Rows

RowsFollowCatalog == [][Catalog!Next]_(Catalog!vars)

Idle == late = {} /\ \A p \in Requests : pc[p] = "idle"

(* Each connection of an agent is followed by a reconciliation that starts  *)
(* the active deployment's container, also when the signal finds the        *)
(* channel full: no state where the app is down survives a reconnect,       *)
(* unless requests are under way or its files are gone.                     *)
ReconcileRestores ==
    signal ~> \/ ~Idle \/ ~connected
              \/ active # None => active \in running \/ active \notin dirs

(* "a bad redeploy degrades to 'the old deployment keeps serving,' never to *)
(* 'nothing is serving'": the active deployment's container runs, or an     *)
(* activation is about to make a running one active, or the app is being    *)
(* deleted.                                                                 *)
NeverNothingServing ==
    active # None =>
        \/ active \in running
        \/ \E p \in Requests :
              \/ pc[p] \in {"stopping", "flip"} /\ dep[p] \in running
              \/ pc[p] \in {"delete_app", "stop_each"}

=============================================================================
