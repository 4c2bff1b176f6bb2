----------------------------- MODULE HubStorage -----------------------------
(***************************************************************************)
(* The hub's storage layer (berth-hub/src/storage.rs): rows in SQLite,     *)
(* directory trees under apps/ and tmp/, and the one write_lock that makes *)
(* the handlers which change both look atomic.                             *)
(*                                                                         *)
(* A request is a process; its program counter names the next durable      *)
(* step.  Any step of another process may come between two steps.  A       *)
(* request can be dropped at an await point (axum drops the handler when   *)
(* its client goes away), the hub can crash between any two steps, and a   *)
(* restart sweeps tmp/ and the orphaned directories before it serves.      *)
(***************************************************************************)
EXTENDS Naturals

CONSTANTS Apps,       \* app ids (UUIDs: each is made once)
          GitApps,    \* the apps created with a git source
          Deps,       \* deployment ids (UUIDs: each is made once)
          Names,      \* app names
          Procs,      \* requests the hub may be running at the same time
          MaxCrashes, \* bound on hub crashes
          None        \* absence of a row, an id or a lock holder

ASSUME ConstantsAssumption ==
    /\ GitApps \subseteq Apps
    /\ None \notin Apps \cup Deps \cup Names \cup Procs
    /\ Apps \cap Deps = {}
    /\ MaxCrashes \in Nat

VARIABLES
    \* the database
    appName,   \* appName[a]: column name of the row of a; None: no row
    active,    \* active[a]: column active_deployment_id
    status,    \* status[d]: column status of the row of d; "none": no row
    \* ids
    mintedApps, \* app ids handed out by Uuid::now_v7
    depApp,    \* depApp[d]: the app a deployment id was made for; None: not made
    \* the file system
    appDirs,   \* app ids with a directory apps/<id>
    depDirs,   \* deployment ids with a directory apps/<app>/deployments/<id>
    files,     \* deployment ids whose directory holds files/
    tmp,       \* trees under tmp/: <<"staged", id>> on the way in, <<"doomed", id>> out
    \* the process
    phase,     \* "sweep_tmp", "sweep_dirs" (startup) or "serving"
    lock,      \* holder of AppState::write_lock
    pc,        \* next step of each request
    pApp,      \* the app each request is about
    pDep,      \* the deployment each request is about
    pName,     \* the name a create or rename asks for
    detached,  \* requests that have become a spawned git deployment task
    recon,     \* the deployment fail_pending_deployments is about to fail
    crashes

db   == <<appName, active, status>>
ids  == <<mintedApps, depApp>>
disk == <<appDirs, depDirs, files, tmp>>
args == <<pApp, pDep, pName>>
vars == <<db, ids, disk, phase, lock, pc, args, detached, recon, crashes>>

-----------------------------------------------------------------------------
(* Rows *)

AppRows == {a \in Apps : appName[a] # None}
DepRows == {d \in Deps : status[d] # "none"}

\* find_deployment_row: the row exists and belongs to the app
IsDeploymentOf(d, a) == d \in DepRows /\ depApp[d] = a

\* the unique index on apps.name
NameFree(n, a) == \A b \in Apps \ {a} : appName[b] # n

FreshDep(d) == depApp[d] = None

\* removing or moving away a directory takes what is below it along
RemoveAppTree(a) ==
    /\ appDirs' = appDirs \ {a}
    /\ depDirs' = {d \in depDirs : depApp[d] # a}
    /\ files' = {d \in files : depApp[d] # a}

\* variant: files/ is forgotten
RemoveDepDirOnly(d) ==
    /\ depDirs' = depDirs \ {d}
    /\ UNCHANGED <<appDirs, files>>

RemoveDepTree(d) ==
    /\ depDirs' = depDirs \ {d}
    /\ files' = files \ {d}
    /\ UNCHANGED appDirs

-----------------------------------------------------------------------------
(* Program counters, grouped by what they mean *)

Locked == {"create_stage", "create_rename", "create_commit",
           "delete_commit", "delete_rename", "delete_remove",
           "upload_rename", "upload_insert", "activate_write", "remove_row",
           "pending_mkdir", "pending_insert", "pending_spawn"}

Unlocked == {"idle", "rename_write", "upload_find", "activate_find",
             "remove_rename", "remove_dir",
             "git_start", "git_clone", "git_find", "git_move", "git_record",
             "git_ready", "git_fail"}

\* steps reached only by straight-line code after the previous one: no await
\* lies before them, so the request cannot be dropped there
NoAwait == {"idle", "create_rename", "delete_remove", "remove_dir"}

\* a request starts with the ids it was given and the first step it waits at
Start(p, l, a, d, n) ==
    /\ pc[p] = "idle"
    /\ pc' = [pc EXCEPT ![p] = l]
    /\ pApp' = [pApp EXCEPT ![p] = a]
    /\ pDep' = [pDep EXCEPT ![p] = d]
    /\ pName' = [pName EXCEPT ![p] = n]
    /\ UNCHANGED detached

Goto(p, l) == pc' = [pc EXCEPT ![p] = l] /\ UNCHANGED <<args, detached>>

\* the handler or task returns and its locals are gone
Return(p) ==
    /\ pc' = [pc EXCEPT ![p] = "idle"]
    /\ pApp' = [pApp EXCEPT ![p] = None]
    /\ pDep' = [pDep EXCEPT ![p] = None]
    /\ pName' = [pName EXCEPT ![p] = None]
    /\ detached' = detached \ {p}

Acquire(p) == lock = None /\ lock' = p
Release == lock' = None

\* an error: a git task goes on to record the failure, a request just returns
GiveUp(p) == IF p \in detached THEN Goto(p, "git_fail") ELSE Return(p)

-----------------------------------------------------------------------------
Init ==
    /\ appName = [a \in Apps |-> None]
    /\ active = [a \in Apps |-> None]
    /\ status = [d \in Deps |-> "none"]
    /\ mintedApps = {}
    /\ depApp = [d \in Deps |-> None]
    /\ appDirs = {} /\ depDirs = {} /\ files = {} /\ tmp = {}
    /\ phase = "sweep_tmp"
    /\ lock = None
    /\ pc = [p \in Procs |-> "idle"]
    /\ pApp = [p \in Procs |-> None]
    /\ pDep = [p \in Procs |-> None]
    /\ pName = [p \in Procs |-> None]
    /\ detached = {}
    /\ recon = None
    /\ crashes = 0

-----------------------------------------------------------------------------
(* create_app: name check, staged tree renamed into apps/, row and grant   *)
(* in one transaction, all under write_lock.                               *)

CreateAppCheck(p, a, n) ==
    /\ Acquire(p)
    /\ a \notin mintedApps
    /\ \A b \in Apps : appName[b] # n
    /\ mintedApps' = mintedApps \cup {a}
    /\ Start(p, "create_stage", a, None, n)
    /\ UNCHANGED <<db, depApp, disk>>

CreateAppStage(p) ==
    /\ pc[p] = "create_stage"
    /\ tmp' = tmp \cup {<<"staged", pApp[p]>>}
    /\ Goto(p, "create_rename")
    /\ UNCHANGED <<db, ids, appDirs, depDirs, files, lock>>

CreateAppRename(p) ==
    /\ pc[p] = "create_rename"
    /\ tmp' = tmp \ {<<"staged", pApp[p]>>}
    /\ appDirs' = appDirs \cup {pApp[p]}
    /\ Goto(p, "create_commit")
    /\ UNCHANGED <<db, ids, depDirs, files, lock>>

\* variant: no unique index on apps.name
CreateAppCommitAnyName(p) ==
    /\ pc[p] = "create_commit"
    /\ appName' = [appName EXCEPT ![pApp[p]] = pName[p]]
    /\ Release
    /\ Return(p)
    /\ UNCHANGED <<active, status, ids, disk>>

\* The unique index can still reject the insert: update_app renames without
\* the lock.  The directory is then left behind.
CreateAppCommit(p) ==
    /\ pc[p] = "create_commit"
    /\ IF NameFree(pName[p], pApp[p])
         THEN /\ appName' = [appName EXCEPT ![pApp[p]] = pName[p]]
              /\ active' = [active EXCEPT ![pApp[p]] = None]
         ELSE UNCHANGED <<appName, active>>
    /\ Release
    /\ Return(p)
    /\ UNCHANGED <<status, ids, disk>>

-----------------------------------------------------------------------------
(* update_app: a rename reads, checks and writes without write_lock. *)

UpdateAppCheck(p, a, n) ==
    /\ a \in AppRows
    /\ NameFree(n, a)
    /\ Start(p, "rename_write", a, None, n)
    /\ UNCHANGED <<db, ids, disk, lock>>

UpdateAppWrite(p) ==
    /\ pc[p] = "rename_write"
    /\ IF pApp[p] \in AppRows /\ NameFree(pName[p], pApp[p])
         THEN appName' = [appName EXCEPT ![pApp[p]] = pName[p]]
         ELSE UNCHANGED appName
    /\ Return(p)
    /\ UNCHANGED <<active, status, ids, disk, lock>>

-----------------------------------------------------------------------------
(* delete_app: the rows in one transaction, then the tree moves to tmp/    *)
(* and is removed, all under write_lock.                                   *)

DeleteAppFind(p, a) ==
    /\ Acquire(p)
    /\ a \in AppRows
    /\ Start(p, "delete_commit", a, None, None)
    /\ UNCHANGED <<db, ids, disk>>

DeleteAppCommit(p) ==
    /\ pc[p] = "delete_commit"
    /\ status' = [d \in Deps |-> IF depApp[d] = pApp[p] THEN "none" ELSE status[d]]
    /\ appName' = [appName EXCEPT ![pApp[p]] = None]
    /\ active' = [active EXCEPT ![pApp[p]] = None]
    /\ Goto(p, "delete_rename")
    /\ UNCHANGED <<ids, disk, lock>>

DeleteAppRename(p) ==
    /\ pc[p] = "delete_rename"
    /\ RemoveAppTree(pApp[p])
    /\ tmp' = tmp \cup {<<"doomed", pApp[p]>>}
    /\ Goto(p, "delete_remove")
    /\ UNCHANGED <<db, ids, lock>>

DeleteAppRemove(p) ==
    /\ pc[p] = "delete_remove"
    /\ tmp' = tmp \ {<<"doomed", pApp[p]>>}
    /\ Release
    /\ Return(p)
    /\ UNCHANGED <<db, ids, appDirs, depDirs, files>>

-----------------------------------------------------------------------------
(* create_deployment (zip upload): staged without the lock, moved into     *)
(* place and recorded under it, activated under it in a second section.    *)

UploadStage(p, a, d) ==
    /\ a \in AppRows
    /\ FreshDep(d)
    /\ depApp' = [depApp EXCEPT ![d] = a]
    /\ tmp' = tmp \cup {<<"staged", d>>}
    /\ Start(p, "upload_find", a, d, None)
    /\ UNCHANGED <<db, mintedApps, appDirs, depDirs, files, lock>>

UploadFind(p) ==
    /\ pc[p] = "upload_find"
    /\ lock = None
    /\ IF pApp[p] \in AppRows
         THEN /\ lock' = p
              /\ Goto(p, "upload_rename")
              /\ UNCHANGED tmp
         ELSE /\ tmp' = tmp \ {<<"staged", pDep[p]>>}
              /\ Return(p)
              /\ UNCHANGED lock
    /\ UNCHANGED <<db, ids, appDirs, depDirs, files>>

\* The rename needs the app's tree to be there.
UploadRename(p) ==
    /\ pc[p] = "upload_rename"
    /\ tmp' = tmp \ {<<"staged", pDep[p]>>}
    /\ IF pApp[p] \in appDirs
         THEN /\ depDirs' = depDirs \cup {pDep[p]}
              /\ files' = files \cup {pDep[p]}
              /\ Goto(p, "upload_insert")
              /\ UNCHANGED lock
         ELSE /\ Release
              /\ Return(p)
              /\ UNCHANGED <<depDirs, files>>
    /\ UNCHANGED <<db, ids, appDirs>>

UploadInsert(p) ==
    /\ pc[p] = "upload_insert"
    /\ status' = [status EXCEPT ![pDep[p]] = "ready"]
    /\ Release
    /\ Goto(p, "activate_find")
    /\ UNCHANGED <<appName, active, ids, disk>>

\* A failing insert takes the directory back.
UploadInsertFails(p) ==
    /\ pc[p] = "upload_insert"
    /\ RemoveDepTree(pDep[p])
    /\ Release
    /\ Return(p)
    /\ UNCHANGED <<db, ids, tmp>>

-----------------------------------------------------------------------------
(* activate_deployment: both rows are looked up and the pointer is written *)
(* under write_lock.  The API's activate request enters here too.          *)

ActivateRequest(p, a, d) ==
    /\ a \in AppRows
    /\ IsDeploymentOf(d, a)
    /\ Start(p, "activate_find", a, d, None)
    /\ UNCHANGED <<db, ids, disk, lock>>

ActivateFind(p) ==
    /\ pc[p] = "activate_find"
    /\ lock = None
    /\ IF pApp[p] \in AppRows /\ IsDeploymentOf(pDep[p], pApp[p])
         THEN lock' = p /\ Goto(p, "activate_write")
         ELSE UNCHANGED lock /\ GiveUp(p)
    /\ UNCHANGED <<db, ids, disk>>

ActivateWrite(p) ==
    /\ pc[p] = "activate_write"
    /\ active' = [active EXCEPT ![pApp[p]] = pDep[p]]
    /\ Release
    /\ IF p \in detached THEN Goto(p, "git_ready") ELSE Return(p)
    /\ UNCHANGED <<appName, status, ids, disk>>

-----------------------------------------------------------------------------
(* delete_deployment: the guard and the row under write_lock, the tree     *)
(* after the lock is released.                                             *)

\* variant: the guard is evaluated without the lock
DeleteDeploymentFindUnlocked(p, a, d) ==
    /\ a \in AppRows
    /\ active[a] # d
    /\ IsDeploymentOf(d, a)
    /\ Start(p, "remove_row", a, d, None)
    /\ UNCHANGED <<db, ids, disk, lock>>

DeleteDeploymentFind(p, a, d) ==
    /\ Acquire(p)
    /\ a \in AppRows
    /\ active[a] # d
    /\ IsDeploymentOf(d, a)
    /\ Start(p, "remove_row", a, d, None)
    /\ UNCHANGED <<db, ids, disk>>

DeleteDeploymentRow(p) ==
    /\ pc[p] = "remove_row"
    /\ status' = [status EXCEPT ![pDep[p]] = "none"]
    /\ Release
    /\ Goto(p, "remove_rename")
    /\ UNCHANGED <<appName, active, ids, disk>>

DeleteDeploymentRename(p) ==
    /\ pc[p] = "remove_rename"
    /\ IF pDep[p] \in depDirs
         THEN /\ RemoveDepTree(pDep[p])
              /\ tmp' = tmp \cup {<<"doomed", pDep[p]>>}
              /\ Goto(p, "remove_dir")
         ELSE Return(p) /\ UNCHANGED disk
    /\ UNCHANGED <<db, ids, lock>>

DeleteDeploymentRemove(p) ==
    /\ pc[p] = "remove_dir"
    /\ tmp' = tmp \ {<<"doomed", pDep[p]>>}
    /\ Return(p)
    /\ UNCHANGED <<db, ids, appDirs, depDirs, files, lock>>

-----------------------------------------------------------------------------
(* create_pending_git_deployment, then the spawned run_git_deployment.     *)

StartGitFind(p, a, d) ==
    /\ Acquire(p)
    /\ a \in AppRows \cap GitApps
    /\ \A e \in Deps : IsDeploymentOf(e, a) => status[e] # "pending"
    /\ FreshDep(d)
    /\ depApp' = [depApp EXCEPT ![d] = a]
    /\ Start(p, "pending_mkdir", a, d, None)
    /\ UNCHANGED <<db, mintedApps, disk>>

StartGitMkdir(p) ==
    /\ pc[p] = "pending_mkdir"
    /\ IF pApp[p] \in appDirs
         THEN /\ depDirs' = depDirs \cup {pDep[p]}
              /\ Goto(p, "pending_insert")
              /\ UNCHANGED lock
         ELSE Release /\ Return(p) /\ UNCHANGED depDirs
    /\ UNCHANGED <<db, ids, appDirs, files, tmp>>

StartGitInsert(p) ==
    /\ pc[p] = "pending_insert"
    /\ status' = [status EXCEPT ![pDep[p]] = "pending"]
    /\ Goto(p, "pending_spawn")
    /\ UNCHANGED <<appName, active, ids, disk, lock>>

\* Nothing takes the directory back when this insert fails.
StartGitInsertFails(p) ==
    /\ pc[p] = "pending_insert"
    /\ Release
    /\ Return(p)
    /\ UNCHANGED <<db, ids, disk>>

\* start_git_deployment: from here on a detached task, no longer a request
StartGitSpawn(p) ==
    /\ pc[p] = "pending_spawn"
    /\ Release
    /\ pc' = [pc EXCEPT ![p] = "git_start"]
    /\ detached' = detached \cup {p}
    /\ UNCHANGED <<db, ids, disk, args>>

GitStart(p) ==
    /\ pc[p] = "git_start"
    /\ Goto(p, IF pApp[p] \in AppRows THEN "git_clone" ELSE "git_fail")
    /\ UNCHANGED <<db, ids, disk, lock>>

GitClone(p) ==
    /\ pc[p] = "git_clone"
    /\ tmp' = tmp \cup {<<"staged", pDep[p]>>}
    /\ Goto(p, "git_find")
    /\ UNCHANGED <<db, ids, appDirs, depDirs, files, lock>>

\* every later error of the task first drops the staging directory
GitAbort(p) ==
    /\ tmp' = tmp \ {<<"staged", pDep[p]>>}
    /\ Goto(p, "git_fail")
    /\ UNCHANGED <<appDirs, depDirs, files>>

\* clone or build command failed or timed out
GitFetchFails(p) ==
    /\ pc[p] = "git_find"
    /\ GitAbort(p)
    /\ UNCHANGED <<db, ids, lock>>

\* finish_git_deployment takes no lock: each of its steps may find that a
\* delete came first.
GitFind(p) ==
    /\ pc[p] = "git_find"
    /\ IF pApp[p] \in AppRows
         THEN Goto(p, "git_move") /\ UNCHANGED disk
         ELSE GitAbort(p)
    /\ UNCHANGED <<db, ids, lock>>

GitMove(p) ==
    /\ pc[p] = "git_move"
    /\ IF pDep[p] \in depDirs
         THEN /\ files' = files \cup {pDep[p]}
              /\ Goto(p, "git_record")
              /\ UNCHANGED <<appDirs, depDirs, tmp>>
         ELSE GitAbort(p)
    /\ UNCHANGED <<db, ids, lock>>

GitRecord(p) ==
    /\ pc[p] = "git_record"
    /\ tmp' = tmp \ {<<"staged", pDep[p]>>}
    /\ Goto(p, IF IsDeploymentOf(pDep[p], pApp[p]) THEN "activate_find" ELSE "git_fail")
    /\ UNCHANGED <<db, ids, appDirs, depDirs, files, lock>>

\* set_deployment_status writes whatever the row said before; without a row
\* it is an error
SetStatus(d, s) ==
    /\ status' = IF d \in DepRows THEN [status EXCEPT ![d] = s] ELSE status
    /\ UNCHANGED <<appName, active>>

GitReady(p) ==
    /\ pc[p] = "git_ready"
    /\ SetStatus(pDep[p], "ready")
    /\ IF pDep[p] \in DepRows THEN Return(p) ELSE Goto(p, "git_fail")
    /\ UNCHANGED <<ids, disk, lock>>

GitFail(p) ==
    /\ pc[p] = "git_fail"
    /\ SetStatus(pDep[p], "failed")
    /\ Return(p)
    /\ UNCHANGED <<ids, disk, lock>>

-----------------------------------------------------------------------------
(* A request whose client goes away is dropped at the await it sits at;    *)
(* its lock guard is dropped with it.  Detached tasks are not requests.    *)

Cancel(p) ==
    /\ p \notin detached
    /\ pc[p] \notin NoAwait
    /\ lock' = IF lock = p THEN None ELSE lock
    /\ Return(p)
    /\ UNCHANGED <<db, ids, disk>>

-----------------------------------------------------------------------------
(* fail_pending_deployments (reconcile.rs), run whenever an agent          *)
(* connects: a Pending row is read, its install container is removed, and  *)
(* only then is the row written.                                           *)

ReconcileRead(d) ==
    /\ recon = None
    /\ status[d] = "pending"
    /\ recon' = d
    /\ UNCHANGED db

\* variant: the row is left as it was
ReconcileForgets ==
    /\ recon # None
    /\ recon' = None
    /\ UNCHANGED db

ReconcileFail ==
    /\ recon # None
    /\ SetStatus(recon, "failed")
    /\ recon' = None

Reconcile ==
    /\ phase = "serving"
    /\ (\E d \in Deps : ReconcileRead(d)) \/ ReconcileFail
    /\ UNCHANGED <<ids, disk, phase, lock, pc, args, detached, crashes>>

-----------------------------------------------------------------------------
(* Crash, and the sweeps that run before the hub serves again *)

Crash ==
    /\ crashes < MaxCrashes
    /\ crashes' = crashes + 1
    /\ phase' = "sweep_tmp"
    /\ lock' = None
    /\ pc' = [p \in Procs |-> "idle"]
    /\ pApp' = [p \in Procs |-> None]
    /\ pDep' = [p \in Procs |-> None]
    /\ pName' = [p \in Procs |-> None]
    /\ detached' = {}
    /\ recon' = None
    /\ UNCHANGED <<db, ids, disk>>

SweepTmp ==
    /\ phase = "sweep_tmp"
    /\ tmp' = {}
    /\ phase' = "sweep_dirs"
    /\ UNCHANGED <<appDirs, depDirs, files>>

\* variant: only empty app directories can be removed
OrphanEmptyApps == {a \in appDirs \ AppRows : \A d \in depDirs : depApp[d] # a}
\* variant: only Ready deployments keep their directory
OrphanUnlessReady == {d \in depDirs : depApp[d] \in AppRows /\ status[d] # "ready"}

OrphanApps == appDirs \ AppRows
OrphanDeps == {d \in depDirs : depApp[d] \in AppRows /\ d \notin DepRows}

SweepOrphanApp(a) ==
    /\ phase = "sweep_dirs"
    /\ a \in OrphanApps
    /\ RemoveAppTree(a)
    /\ UNCHANGED <<tmp, phase>>

SweepOrphanDep(d) ==
    /\ phase = "sweep_dirs"
    /\ d \in OrphanDeps
    /\ RemoveDepTree(d)
    /\ UNCHANGED <<tmp, phase>>

StartServing ==
    /\ phase = "sweep_dirs"
    /\ OrphanApps = {} /\ OrphanDeps = {}
    /\ phase' = "serving"
    /\ UNCHANGED disk

Startup ==
    /\ \/ SweepTmp
       \/ \E a \in Apps : SweepOrphanApp(a)
       \/ \E d \in Deps : SweepOrphanDep(d)
       \/ StartServing
    /\ UNCHANGED <<db, ids, lock, pc, args, detached, recon, crashes>>

-----------------------------------------------------------------------------
Begin(p) ==
    \/ \E a \in Apps, n \in Names : CreateAppCheck(p, a, n) \/ UpdateAppCheck(p, a, n)
    \/ \E a \in Apps : DeleteAppFind(p, a)
    \/ \E a \in Apps, d \in Deps :
          \/ UploadStage(p, a, d)
          \/ StartGitFind(p, a, d)
          \/ ActivateRequest(p, a, d)
          \/ DeleteDeploymentFind(p, a, d)

Continue(p) ==
    \/ CreateAppStage(p) \/ CreateAppRename(p) \/ CreateAppCommit(p)
    \/ UpdateAppWrite(p)
    \/ DeleteAppCommit(p) \/ DeleteAppRename(p) \/ DeleteAppRemove(p)
    \/ UploadFind(p) \/ UploadRename(p) \/ UploadInsert(p) \/ UploadInsertFails(p)
    \/ ActivateFind(p) \/ ActivateWrite(p)
    \/ DeleteDeploymentRow(p) \/ DeleteDeploymentRename(p) \/ DeleteDeploymentRemove(p)
    \/ StartGitMkdir(p)
    \/ StartGitInsert(p) \/ StartGitInsertFails(p) \/ StartGitSpawn(p)
    \/ GitStart(p) \/ GitClone(p) \/ GitFetchFails(p) \/ GitFind(p) \/ GitMove(p)
    \/ GitRecord(p) \/ GitReady(p) \/ GitFail(p)

Serving == phase = "serving" /\ UNCHANGED <<phase, recon, crashes>>

Next ==
    \/ \E p \in Procs : Serving /\ (Begin(p) \/ Continue(p) \/ Cancel(p))
    \/ Reconcile
    \/ Crash
    \/ Startup

Spec == Init /\ [][Next]_vars

(* tokio polls every woken task and hands its Mutex over in FIFO order, so  *)
(* a request that is enabled again and again gets its turn.  Reconciliation *)
(* runs when an agent connects: after a restart of the hub the agent        *)
(* redials until it does (berth-agent/src/main.rs), and no session lasts    *)
(* for ever.  The latter is an assumption about the network.                *)
Fairness ==
    /\ \A p \in Procs : SF_vars(Serving /\ Continue(p))
    /\ WF_vars(Startup)
    /\ WF_vars(Reconcile)

FairSpec == Spec /\ Fairness

-----------------------------------------------------------------------------
(* Type invariant: every variable of the storage layer stays in its range. *)
TypeOK ==
    /\ appName \in [Apps -> Names \cup {None}]
    /\ active \in [Apps -> Deps \cup {None}]
    /\ status \in [Deps -> {"none", "pending", "ready", "failed"}]
    /\ mintedApps \subseteq Apps
    /\ depApp \in [Deps -> Apps \cup {None}]
    /\ appDirs \subseteq Apps
    /\ depDirs \subseteq Deps
    /\ files \subseteq depDirs
    /\ tmp \subseteq {"staged", "doomed"} \X (Apps \cup Deps)
    /\ phase \in {"sweep_tmp", "sweep_dirs", "serving"}
    /\ lock \in Procs \cup {None}
    /\ pc \in [Procs -> Locked \cup Unlocked]
    /\ pApp \in [Procs -> Apps \cup {None}]
    /\ pDep \in [Procs -> Deps \cup {None}]
    /\ pName \in [Procs -> Names \cup {None}]
    /\ detached \subseteq Procs
    /\ recon \in Deps \cup {None}
    /\ crashes \in 0..MaxCrashes

(* active_deployment_id of an app is never dangling: it names an existing   *)
(* deployment row of that very app, whatever activate_deployment,           *)
(* delete_deployment and delete_app interleave, are dropped or crash.       *)
ActiveNotDangling ==
    \A a \in AppRows : active[a] # None => IsDeploymentOf(active[a], a)

(* No deployment row outlives its app row: create_deployment and            *)
(* create_pending_git_deployment insert under the lock delete_app takes.    *)
NoOrphanRows == \A d \in DepRows : depApp[d] \in AppRows

(* Every row has its directory tree, in every state a crash could leave     *)
(* behind: create makes the tree before the row, delete drops the row       *)
(* before the tree, and the sweeps only touch trees without a row.          *)
RowsHaveDirs == AppRows \subseteq appDirs /\ DepRows \subseteq depDirs

(* create_pending_git_deployment admits one Pending deployment per app.     *)
OnePendingPerApp ==
    \A d, e \in DepRows :
        status[d] = "pending" /\ status[e] = "pending" /\ depApp[d] = depApp[e] => d = e

(* A Ready deployment has its content in files/: upload moves the tree      *)
(* before the insert, finish_git_deployment before mark_git_deployment_ready.*)
ReadyHasFiles == \A d \in Deps : status[d] = "ready" => d \in files

(* The rows fit together: `active` names a row of its app, every deployment *)
(* has its app, and an app at most one Pending deployment.                  *)
RowsConsistent == ActiveNotDangling /\ NoOrphanRows /\ OnePendingPerApp

(* The disk holds what the rows promise: a tree for every row, and the      *)
(* files of every Ready deployment.                                         *)
DiskConsistent == RowsHaveDirs /\ ReadyHasFiles

(* When the hub starts to serve, the sweeps have left exactly the trees the *)
(* database names and nothing under tmp/.                                   *)
StartupLeavesNoOrphans ==
    [][phase # "serving" /\ phase' = "serving" =>
         appDirs' = AppRows' /\ depDirs' = DepRows' /\ tmp' = {}]_vars

(* Every request and every git deployment task comes to an end: nobody      *)
(* waits for write_lock for ever.                                           *)
RequestsFinish == \A p \in Procs : pc[p] # "idle" ~> pc[p] = "idle"

(* No deployment stays Pending for ever, even when its task died with the   *)
(* hub or its request was dropped between the insert and the spawn: the     *)
(* next connection of an agent fails what no task is left to finish.        *)
PendingResolves == \A d \in Deps : status[d] = "pending" ~> status[d] # "pending"

(* Both together: what was begun is finished, by its own task or, after a   *)
(* crash or a dropped request, by a reconciliation.                         *)
WorkResolves == RequestsFinish /\ PendingResolves

(* The rows change only as AppCatalog allows: each handler takes effect in  *)
(* one step, although it reads and writes in several.                       *)
Catalog == INSTANCE AppCatalog WITH live <- DepRows
ImplementsCatalog == Catalog!Spec

-----------------------------------------------------------------------------
(* The inductive invariant behind the safety properties *)

MakingApp == {"create_stage", "create_rename", "create_commit"}
MakingDep == {"upload_find", "upload_rename", "upload_insert",
              "pending_mkdir", "pending_insert"}

\* write_lock is held exactly by the request that is inside its section
LockInv == \A p \in Procs : pc[p] \in Locked <=> lock = p

\* nothing runs while the startup sweeps do
StartupInv ==
    /\ phase # "serving" => \A p \in Procs : pc[p] = "idle"
    /\ phase = "sweep_dirs" => tmp = {}

\* the ids and names a request works with
ArgsInv ==
    \A p \in Procs :
        /\ pc[p] # "idle" => pApp[p] \in Apps
        /\ pDep[p] # None => depApp[pDep[p]] # None /\ depApp[pDep[p]] = pApp[p]
        /\ pc[p] \in MakingApp \cup {"rename_write"} => pName[p] \in Names
        /\ pc[p] \notin MakingApp \cup {"idle", "rename_write", "delete_commit",
                                        "delete_rename", "delete_remove"} => pDep[p] # None
        /\ p \in detached =>
             pc[p] \in {"git_start", "git_clone", "git_find", "git_move", "git_record",
                       "activate_find", "activate_write", "git_ready", "git_fail"}

\* ids are new until their row appears, and nobody else knows them
FreshInv ==
    /\ AppRows \subseteq mintedApps
    /\ recon # None => depApp[recon] # None
    /\ \A p \in Procs :
         /\ pc[p] \in MakingApp => pApp[p] \in mintedApps \ AppRows
         /\ pc[p] \in MakingDep =>
              /\ status[pDep[p]] = "none"
              /\ \A q \in Procs \ {p} : pDep[q] # pDep[p]

\* what a request has checked still holds when it acts on it
SectionInv ==
    \A p \in Procs :
        /\ pc[p] = "create_commit" => pApp[p] \in appDirs
        /\ pc[p] \in {"delete_commit", "upload_rename", "upload_insert", "pending_mkdir",
                      "pending_insert", "activate_write", "remove_row"} => pApp[p] \in AppRows
        /\ pc[p] = "delete_rename" => pApp[p] \notin AppRows
        /\ pc[p] = "upload_insert" => pDep[p] \in files
        /\ pc[p] = "pending_insert" => pDep[p] \in depDirs
        /\ pc[p] \in {"pending_mkdir", "pending_insert"} =>
             \A e \in Deps : depApp[e] = pApp[p] => status[e] # "pending"
        /\ pc[p] \in {"activate_write", "remove_row"} => IsDeploymentOf(pDep[p], pApp[p])
        /\ pc[p] = "remove_row" => active[pApp[p]] # pDep[p]
        /\ pc[p] = "remove_rename" => status[pDep[p]] = "none"
        /\ (\/ pc[p] \in {"git_record", "git_ready"}
            \/ p \in detached /\ pc[p] \in {"activate_find", "activate_write"}) =>
             (status[pDep[p]] # "none" => pDep[p] \in files)

\* a deployment tree is inside the tree of its app
NestedInv == \A d \in depDirs : depApp[d] \in appDirs

(* The inductive invariant: who holds the lock, what each handler has       *)
(* established before its next step, and the safety properties themselves.  *)
IndInv ==
    /\ TypeOK /\ LockInv /\ StartupInv /\ ArgsInv /\ FreshInv /\ SectionInv /\ NestedInv
    /\ ActiveNotDangling /\ NoOrphanRows /\ RowsHaveDirs /\ OnePendingPerApp /\ ReadyHasFiles
=============================================================================
