-------------------------- MODULE HubStorageProofs --------------------------
(***************************************************************************)
(* Proofs that the storage layer is safe for every number of apps,         *)
(* deployments, names, concurrent requests and crashes.  IndInv is         *)
(* inductive: the lemmas below take the operations of storage.rs one by    *)
(* one, a step for each durable step of the handler.  The safety           *)
(* properties are conjuncts of IndInv; the refinement of AppCatalog and    *)
(* the startup property follow from it.                                    *)
(*                                                                         *)
(* The last part is about the other files of the hub, those of Enrolment:  *)
(* the hub's identity outlives any number of crashes between the writes of *)
(* its files, and a revocation is final.                                   *)
(***************************************************************************)
EXTENDS HubStorage, Enrolment, TLAPS

(* The vocabulary of the invariant and the frames of the actions are used   *)
(* by every leaf; a leaf names the action it is about.                      *)
USE ConstantsAssumption
USE DEF IndInv, TypeOK, LockInv, StartupInv, ArgsInv, FreshInv, SectionInv, NestedInv,
        ActiveNotDangling, NoOrphanRows, RowsHaveDirs, OnePendingPerApp, ReadyHasFiles,
        AppRows, DepRows, IsDeploymentOf, Locked, Unlocked, MakingApp, MakingDep,
        Serving, db, ids, disk, args, vars
USE DEF Start, Acquire, Release, Goto, Return, GiveUp

-----------------------------------------------------------------------------
(* The empty data directory of a first start satisfies the invariant. *)
LEMMA InitInd == Init => IndInv
  BY DEF Init

(* create_app: the new id has no row before the commit, and its tree is in place. *)
LEMMA CreateAppInd ==
  ASSUME IndInv, NEW p \in Procs, Serving,
         \/ \E a \in Apps, n \in Names : CreateAppCheck(p, a, n)
         \/ CreateAppStage(p)
         \/ CreateAppRename(p)
         \/ CreateAppCommit(p)
  PROVE  IndInv'
<1>1. CASE \E a \in Apps, n \in Names : CreateAppCheck(p, a, n)
  BY <1>1 DEF CreateAppCheck
<1>2. CASE CreateAppStage(p)
  BY <1>2 DEF CreateAppStage
<1>3. CASE CreateAppRename(p)
  BY <1>3 DEF CreateAppRename
<1>4. CASE CreateAppCommit(p)
  BY <1>4 DEF CreateAppCommit, NameFree
<1> QED BY <1>1, <1>2, <1>3, <1>4

(* update_app changes a name and nothing the invariant ties to it. *)
LEMMA UpdateAppInd ==
  ASSUME IndInv, NEW p \in Procs, Serving,
         \/ \E a \in Apps, n \in Names : UpdateAppCheck(p, a, n)
         \/ UpdateAppWrite(p)
  PROVE  IndInv'
<1>1. CASE \E a \in Apps, n \in Names : UpdateAppCheck(p, a, n)
  BY <1>1 DEF UpdateAppCheck, NameFree
<1>2. CASE UpdateAppWrite(p)
  BY <1>2, SMTT(30) DEF UpdateAppWrite, NameFree
<1> QED BY <1>1, <1>2

(* delete_app: the rows go in one commit, so a tree is only moved without rows. *)
LEMMA DeleteAppInd ==
  ASSUME IndInv, NEW p \in Procs, Serving,
         \/ \E a \in Apps : DeleteAppFind(p, a)
         \/ DeleteAppCommit(p)
         \/ DeleteAppRename(p)
         \/ DeleteAppRemove(p)
  PROVE  IndInv'
<1>1. CASE \E a \in Apps : DeleteAppFind(p, a)
  BY <1>1 DEF DeleteAppFind
<1>2. CASE DeleteAppCommit(p)
  BY <1>2 DEF DeleteAppCommit
<1>3. CASE DeleteAppRename(p)
  BY <1>3 DEF DeleteAppRename, RemoveAppTree
<1>4. CASE DeleteAppRemove(p)
  BY <1>4 DEF DeleteAppRemove
<1> QED BY <1>1, <1>2, <1>3, <1>4

(* create_deployment: the id is known to nobody else until the insert. *)
LEMMA UploadInd ==
  ASSUME IndInv, NEW p \in Procs, Serving,
         \/ \E a \in Apps, d \in Deps : UploadStage(p, a, d)
         \/ UploadFind(p)
         \/ UploadRename(p)
         \/ UploadInsert(p)
         \/ UploadInsertFails(p)
  PROVE  IndInv'
<1>1. CASE \E a \in Apps, d \in Deps : UploadStage(p, a, d)
  BY <1>1 DEF UploadStage, FreshDep
<1>2. CASE UploadFind(p)
  BY <1>2, SMTT(30) DEF UploadFind
<1>3. CASE UploadRename(p)
  BY <1>3 DEF UploadRename
<1>4. CASE UploadInsert(p)
  BY <1>4 DEF UploadInsert
<1>5. CASE UploadInsertFails(p)
  BY <1>5 DEF UploadInsertFails, RemoveDepTree
<1> QED BY <1>1, <1>2, <1>3, <1>4, <1>5

(* activate_deployment: the lock keeps the two rows it found until the write. *)
LEMMA ActivateInd ==
  ASSUME IndInv, NEW p \in Procs, Serving,
         \/ \E a \in Apps, d \in Deps : ActivateRequest(p, a, d)
         \/ ActivateFind(p)
         \/ ActivateWrite(p)
  PROVE  IndInv'
<1>1. CASE \E a \in Apps, d \in Deps : ActivateRequest(p, a, d)
  BY <1>1 DEF ActivateRequest
<1>2. CASE ActivateFind(p)
  BY <1>2, SMTT(30) DEF ActivateFind
<1>3. CASE ActivateWrite(p)
  BY <1>3 DEF ActivateWrite
<1> QED BY <1>1, <1>2, <1>3

(* delete_deployment: the lock keeps the app's pointer away from the row. *)
LEMMA DeleteDeploymentInd ==
  ASSUME IndInv, NEW p \in Procs, Serving,
         \/ \E a \in Apps, d \in Deps : DeleteDeploymentFind(p, a, d)
         \/ DeleteDeploymentRow(p)
         \/ DeleteDeploymentRename(p)
         \/ DeleteDeploymentRemove(p)
  PROVE  IndInv'
<1>1. CASE \E a \in Apps, d \in Deps : DeleteDeploymentFind(p, a, d)
  BY <1>1 DEF DeleteDeploymentFind
<1>2. CASE DeleteDeploymentRow(p)
  BY <1>2 DEF DeleteDeploymentRow
<1>3. CASE DeleteDeploymentRename(p)
  BY <1>3, SMTT(30) DEF DeleteDeploymentRename, RemoveDepTree
<1>4. CASE DeleteDeploymentRemove(p)
  BY <1>4 DEF DeleteDeploymentRemove
<1> QED BY <1>1, <1>2, <1>3, <1>4

(* create_pending_git_deployment: the check for a Pending row holds until the insert. *)
LEMMA StartGitInd ==
  ASSUME IndInv, NEW p \in Procs, Serving,
         \/ \E a \in Apps, d \in Deps : StartGitFind(p, a, d)
         \/ StartGitMkdir(p)
         \/ StartGitInsert(p)
         \/ StartGitInsertFails(p)
         \/ StartGitSpawn(p)
  PROVE  IndInv'
<1>1. CASE \E a \in Apps, d \in Deps : StartGitFind(p, a, d)
  BY <1>1 DEF StartGitFind, FreshDep
<1>2. CASE StartGitMkdir(p)
  BY <1>2 DEF StartGitMkdir
<1>3. CASE StartGitInsert(p)
  BY <1>3 DEF StartGitInsert
<1>4. CASE StartGitInsertFails(p)
  BY <1>4 DEF StartGitInsertFails
<1>5. CASE StartGitSpawn(p)
  BY <1>5 DEF StartGitSpawn
<1> QED BY <1>1, <1>2, <1>3, <1>4, <1>5

(* run_git_deployment: it marks ready only what it has moved into place. *)
LEMMA GitTaskInd ==
  ASSUME IndInv, NEW p \in Procs, Serving,
         \/ GitStart(p)
         \/ GitClone(p)
         \/ GitFetchFails(p)
         \/ GitFind(p)
         \/ GitMove(p)
         \/ GitRecord(p)
         \/ GitReady(p)
         \/ GitFail(p)
  PROVE  IndInv'
<1>1. CASE GitStart(p)
  BY <1>1 DEF GitStart
<1>2. CASE GitClone(p)
  BY <1>2 DEF GitClone
<1>3. CASE GitFetchFails(p)
  BY <1>3 DEF GitFetchFails, GitAbort
<1>4. CASE GitFind(p)
  BY <1>4 DEF GitFind, GitAbort
<1>5. CASE GitMove(p)
  BY <1>5 DEF GitMove, GitAbort
<1>6. CASE GitRecord(p)
  BY <1>6 DEF GitRecord
<1>7. CASE GitReady(p)
  BY <1>7, SMTT(30) DEF GitReady, SetStatus
<1>8. CASE GitFail(p)
  BY <1>8 DEF GitFail, SetStatus
<1> QED BY <1>1, <1>2, <1>3, <1>4, <1>5, <1>6, <1>7, <1>8

(* A dropped request gives its lock back and changes nothing else. *)
LEMMA CancelInd ==
  ASSUME IndInv, NEW p \in Procs, Serving, Cancel(p)
  PROVE  IndInv'
  BY DEF Cancel, NoAwait

(* fail_pending_deployments only writes rows that exist, and never Pending. *)
LEMMA ReconcileInd ==
  ASSUME IndInv, Reconcile
  PROVE  IndInv'
  BY DEF Reconcile, ReconcileRead, ReconcileFail, SetStatus

(* A crash keeps rows and trees and forgets every request. *)
LEMMA CrashInd ==
  ASSUME IndInv, Crash
  PROVE  IndInv'
  BY DEF Crash

(* The startup sweeps touch only trees without a row. *)
LEMMA StartupInd ==
  ASSUME IndInv, Startup
  PROVE  IndInv'
<1>1. CASE SweepTmp
  BY <1>1 DEF Startup, SweepTmp
<1>2. CASE \E a \in Apps : SweepOrphanApp(a)
  BY <1>2 DEF Startup, SweepOrphanApp, OrphanApps, RemoveAppTree
<1>3. CASE \E d \in Deps : SweepOrphanDep(d)
  BY <1>3 DEF Startup, SweepOrphanDep, OrphanDeps, RemoveDepTree
<1>4. CASE StartServing
  BY <1>4 DEF Startup, StartServing
<1> QED BY <1>1, <1>2, <1>3, <1>4 DEF Startup

-----------------------------------------------------------------------------
(* Every step of the storage layer preserves the invariant. *)
LEMMA NextInd == IndInv /\ [Next]_vars => IndInv'
<1> SUFFICES ASSUME IndInv, [Next]_vars
             PROVE  IndInv'
  OBVIOUS
<1>1. ASSUME NEW p \in Procs, Serving, Begin(p)
      PROVE  IndInv'
  BY <1>1, CreateAppInd, UpdateAppInd, DeleteAppInd, UploadInd, ActivateInd,
     DeleteDeploymentInd, StartGitInd, ZenonT(40) DEF Begin
<1>2. ASSUME NEW p \in Procs, Serving, Continue(p)
      PROVE  IndInv'
  BY <1>2, CreateAppInd, UpdateAppInd, DeleteAppInd, UploadInd, ActivateInd,
     DeleteDeploymentInd, StartGitInd, GitTaskInd, ZenonT(40) DEF Continue
<1>3. ASSUME NEW p \in Procs, Serving, Cancel(p)
      PROVE  IndInv'
  BY <1>3, CancelInd
<1>4. CASE Reconcile
  BY <1>4, ReconcileInd
<1>5. CASE Crash
  BY <1>5, CrashInd
<1>6. CASE Startup
  BY <1>6, StartupInd
<1>7. CASE UNCHANGED vars
  BY <1>7
<1> QED BY <1>1, <1>2, <1>3, <1>4, <1>5, <1>6, <1>7 DEF Next

(* The inductive invariant holds in every reachable state of the storage    *)
(* layer, for every number of apps, deployments, requests and crashes.      *)
THEOREM StorageInvariant == Spec => []IndInv
<1>1. IndInv /\ [Next]_vars => IndInv'
  BY NextInd
<1> QED BY InitInd, <1>1, PTL DEF Spec

(* The type invariant of the storage layer. *)
THEOREM TypeCorrect == Spec => []TypeOK
<1>1. IndInv => TypeOK
  OBVIOUS
<1> QED BY <1>1, StorageInvariant, PTL

(* active_deployment_id never dangles, deployment rows never outlive the    *)
(* row of their app, and an app never has two Pending deployments:          *)
(* activate_deployment, delete_deployment, delete_app and the inserts       *)
(* exclude each other through write_lock.                                   *)
THEOREM RowsStayConsistent == Spec => []RowsConsistent
<1>1. IndInv => RowsConsistent
  BY DEF RowsConsistent
<1> QED BY <1>1, StorageInvariant, PTL

(* A row always has its directory tree, and a Ready deployment its files/,  *)
(* through crashes, dropped requests and the startup sweeps.                *)
THEOREM TreesBehindRows == Spec => []DiskConsistent
<1>1. IndInv => DiskConsistent
  BY DEF DiskConsistent
<1> QED BY <1>1, StorageInvariant, PTL

(* When the hub begins to serve, apps/ holds exactly the trees the database *)
(* names, and tmp/ is empty.                                                *)
THEOREM CleanStart == Spec => StartupLeavesNoOrphans
<1>1. IndInv /\ [Next]_vars =>
        [phase # "serving" /\ phase' = "serving" =>
           appDirs' = AppRows' /\ depDirs' = DepRows' /\ tmp' = {}]_vars
  <2> SUFFICES ASSUME IndInv, Next, phase # "serving", phase' = "serving"
               PROVE  appDirs' = AppRows' /\ depDirs' = DepRows' /\ tmp' = {}
    OBVIOUS
  <2>1. Startup /\ StartServing
    BY DEF Next, Reconcile, Crash, Startup, SweepTmp, SweepOrphanApp, SweepOrphanDep
  <2> QED BY <2>1 DEF Startup, StartServing, OrphanApps, OrphanDeps
<1> QED BY <1>1, StorageInvariant, PTL DEF Spec, StartupLeavesNoOrphans

-----------------------------------------------------------------------------
(* Refinement *)

(* The steps that leave the catalogue alone: they write neither a name, nor *)
(* an active pointer, nor the set of deployment rows, nor bind an id.       *)
LEMMA CatalogUnchanged ==
  ASSUME IndInv, NEW p \in Procs, Serving,
         \/ CreateAppStage(p) \/ CreateAppRename(p)
         \/ DeleteAppRename(p) \/ DeleteAppRemove(p)
         \/ UploadFind(p) \/ UploadRename(p) \/ UploadInsertFails(p)
         \/ ActivateFind(p) \/ DeleteDeploymentRename(p) \/ DeleteDeploymentRemove(p)
         \/ StartGitMkdir(p) \/ StartGitInsertFails(p) \/ StartGitSpawn(p)
         \/ GitStart(p) \/ GitClone(p) \/ GitFetchFails(p) \/ GitFind(p) \/ GitMove(p)
         \/ GitRecord(p) \/ GitReady(p) \/ GitFail(p) \/ Cancel(p)
  PROVE  UNCHANGED <<appName, active, depApp, DepRows>>
  BY SMTT(30) DEF CreateAppStage, CreateAppRename, DeleteAppRename, DeleteAppRemove, UploadFind,
     UploadRename, UploadInsertFails, ActivateFind, DeleteDeploymentRename,
     DeleteDeploymentRemove, StartGitMkdir, StartGitInsertFails, StartGitSpawn, GitStart,
     GitClone, GitFetchFails, GitFind, GitMove, GitRecord, GitReady, GitFail, Cancel, SetStatus

(* A request that is admitted binds at most a deployment id to its app.     *)
LEMMA BeginRefines ==
  ASSUME IndInv, NEW p \in Procs, Serving, Begin(p)
  PROVE  [Catalog!Next]_(Catalog!vars)
<1> USE DEF Catalog!vars
<1>1. CASE \E a \in Apps, d \in Deps : UploadStage(p, a, d) \/ StartGitFind(p, a, d)
  <2>1. PICK a \in Apps, d \in Deps : UploadStage(p, a, d) \/ StartGitFind(p, a, d)
    BY <1>1
  <2>2. Catalog!BindDeployment(d, a)
    BY <2>1 DEF UploadStage, StartGitFind, FreshDep, Catalog!BindDeployment
  <2> QED BY <2>2 DEF Catalog!Next
<1>2. CASE UNCHANGED <<appName, active, depApp, DepRows>>
  BY <1>2
<1> QED
  BY <1>1, <1>2 DEF Begin, CreateAppCheck, UpdateAppCheck, DeleteAppFind, ActivateRequest,
     DeleteDeploymentFind

(* Each handler changes the catalogue in one step: its commit, write or     *)
(* insert, where IndInv supplies the guard of the abstract operation.       *)
LEMMA ContinueRefines ==
  ASSUME IndInv, NEW p \in Procs, Serving, Continue(p)
  PROVE  [Catalog!Next]_(Catalog!vars)
<1>1. CASE CreateAppCommit(p)
  <2>1. pApp[p] \in Apps /\ pName[p] \in Names
    BY <1>1 DEF CreateAppCommit
  <2>2. CASE NameFree(pName[p], pApp[p])
    <3>1. Catalog!AddApp(pApp[p], pName[p])
      BY <1>1, <2>1, <2>2 DEF CreateAppCommit, NameFree, Catalog!AddApp, Catalog!Exists,
         Catalog!DeploymentsOf
    <3> QED BY <2>1, <3>1 DEF Catalog!Next
  <2>3. CASE ~NameFree(pName[p], pApp[p])
    BY <1>1, <2>3 DEF CreateAppCommit, Catalog!vars
  <2> QED BY <2>2, <2>3
<1>2. CASE UpdateAppWrite(p)
  <2>1. pApp[p] \in Apps /\ pName[p] \in Names
    BY <1>2 DEF UpdateAppWrite
  <2>2. CASE pApp[p] \in AppRows /\ NameFree(pName[p], pApp[p])
    <3>1. Catalog!Rename(pApp[p], pName[p])
      BY <1>2, <2>1, <2>2 DEF UpdateAppWrite, NameFree, Catalog!Rename, Catalog!Exists,
         Catalog!DeploymentsOf
    <3> QED BY <2>1, <3>1 DEF Catalog!Next
  <2>3. CASE ~(pApp[p] \in AppRows /\ NameFree(pName[p], pApp[p]))
    BY <1>2, <2>3 DEF UpdateAppWrite, Catalog!vars
  <2> QED BY <2>2, <2>3
<1>3. CASE DeleteAppCommit(p)
  <2>1. PICK a \in Apps : a = pApp[p]
    BY <1>3 DEF DeleteAppCommit
  <2>2. Catalog!RemoveApp(a)
    BY <1>3, <2>1 DEF DeleteAppCommit, Catalog!RemoveApp, Catalog!Exists,
         Catalog!DeploymentsOf
  <2> QED BY <2>1, <2>2 DEF Catalog!Next
<1>4. CASE UploadInsert(p) \/ StartGitInsert(p)
  <2>1. PICK d \in Deps : d = pDep[p]
    BY <1>4 DEF UploadInsert, StartGitInsert
  <2>2. Catalog!AddDeployment(d)
    BY <1>4, <2>1 DEF UploadInsert, StartGitInsert, Catalog!AddDeployment, Catalog!Exists,
         Catalog!DeploymentsOf
  <2> QED BY <2>1, <2>2 DEF Catalog!Next
<1>5. CASE ActivateWrite(p)
  <2>1. PICK a \in Apps, d \in Deps : a = pApp[p] /\ d = pDep[p]
    BY <1>5 DEF ActivateWrite
  <2>2. Catalog!Activate(a, d)
    BY <1>5, <2>1 DEF ActivateWrite, Catalog!Activate, Catalog!Exists,
         Catalog!DeploymentsOf
  <2> QED BY <2>1, <2>2 DEF Catalog!Next
<1>6. CASE DeleteDeploymentRow(p)
  <2>1. PICK a \in Apps, d \in Deps : a = pApp[p] /\ d = pDep[p]
    BY <1>6 DEF DeleteDeploymentRow
  <2>2. Catalog!RemoveDeployment(a, d)
    BY <1>6, <2>1 DEF DeleteDeploymentRow, Catalog!RemoveDeployment, Catalog!Exists,
         Catalog!DeploymentsOf
  <2> QED BY <2>1, <2>2 DEF Catalog!Next
<1>7. CASE UNCHANGED <<appName, active, depApp, DepRows>>
  BY <1>7 DEF Catalog!vars
<1> QED BY <1>1, <1>2, <1>3, <1>4, <1>5, <1>6, <1>7, CatalogUnchanged DEF Continue

(* The storage layer implements AppCatalog: seen through the database, each *)
(* handler is one indivisible operation of the catalogue.                   *)
THEOREM StorageImplementsCatalog == Spec => ImplementsCatalog
<1>1. Init => Catalog!Init
  BY DEF Init, Catalog!Init
<1>2. IndInv /\ [Next]_vars => [Catalog!Next]_(Catalog!vars)
  <2> SUFFICES ASSUME IndInv, [Next]_vars
               PROVE  [Catalog!Next]_(Catalog!vars)
    OBVIOUS
  <2>1. ASSUME NEW p \in Procs, Serving, Begin(p) \/ Continue(p)
        PROVE  [Catalog!Next]_(Catalog!vars)
    BY <2>1, BeginRefines, ContinueRefines
  <2>2. ASSUME NEW p \in Procs, Serving, Cancel(p)
        PROVE  [Catalog!Next]_(Catalog!vars)
    BY <2>2, CatalogUnchanged DEF Catalog!vars
  <2>3. CASE Reconcile
    BY <2>3 DEF Reconcile, ReconcileRead, ReconcileFail, SetStatus, Catalog!vars
  <2>4. CASE Crash \/ Startup \/ UNCHANGED vars
    BY <2>4 DEF Crash, Startup, Catalog!vars
  <2> QED BY <2>1, <2>2, <2>3, <2>4 DEF Next
<1> QED BY <1>1, <1>2, StorageInvariant, PTL DEF Spec, ImplementsCatalog, Catalog!Spec

-----------------------------------------------------------------------------
(* Enrolment *)

HIDE ConstantsAssumption

(* Until a start fails to read a file that is there, fingerprint.txt is     *)
(* written last, and only while it is missing: once it is there, even torn, *)
(* the certificate and its key are whole and stay.                          *)
PrintIsLast == print # Missing => Whole(cert) /\ key = cert /\ print \in {Torn, cert}

(* What a start has established by the step it is at.                       *)
StartInv ==
    /\ hub \in {"cert", "key", "print"} => print = Missing /\ Whole(served) /\ shown = served
    /\ hub \in {"key", "print"} => cert = served
    /\ hub = "print" => key = served
    /\ hub \in {"secrets", "serve"} => print # Missing /\ served = cert /\ shown \in {Torn, cert}

(* Agents are pinned to, or about to be pinned to, the certificate on disk, *)
(* which by then is the last the hub will ever make.                        *)
PinInv ==
    /\ agent = "pin" => print # Missing /\ served = cert
    /\ \A p \in {pin, config} : Whole(p) => print # Missing /\ p = cert

CertificateInv == misread \/ (PrintIsLast /\ StartInv /\ PinInv)

(* What was encrypted was encrypted with the key on disk, which the hub     *)
(* serves with, whatever it could not read.                                 *)
SealInv ==
    /\ sealed # Missing => secrets = sealed /\ Whole(sealed)
    /\ hub = "serve" => Whole(secrets) /\ sealing = secrets

Numbers ==
    /\ made \in Nat /\ served \in Nat \cup {Torn} /\ shown \in Nat \cup {Torn}
    /\ sealing \in Nat /\ sealed \in Nat /\ config \in Nat \cup {Torn}

IdentityInv == Places /\ Numbers /\ CertificateInv /\ SealInv

USE EnrolmentAssumption
USE DEF Missing, Torn, Whole

\* EnrolmentInit => IdentityInv: there is no file yet and nobody is pinned
LEMMA InitIdentity == EnrolmentInit => IdentityInv
  BY DEF EnrolmentInit, IdentityInv, Places, Numbers, CertificateInv, PrintIsLast, StartInv, PinInv, SealInv

\* The steps of the hub's start, and its crashes, preserve the invariant
LEMMA HubKeeps ==
  ASSUME IdentityInv, Boot \/ Persist \/ LoadSecrets \/ Seal \/ HubCrash
  PROVE  IdentityInv'
<1> USE DEF hubVars, httpsVars, sessionVars, agentVars, tlsFiles
<1>1. CASE Boot
  BY <1>1 DEF Boot, Fault, IdentityInv, Places, Numbers, CertificateInv, PrintIsLast, StartInv,
              PinInv, SealInv
<1>2. CASE Persist
  BY <1>2 DEF Persist, WriteCert, WriteKey, WritePrint, IdentityInv, Places, Numbers,
              CertificateInv, PrintIsLast, StartInv, PinInv, SealInv
<1>3. CASE LoadSecrets
  BY <1>3 DEF LoadSecrets, IdentityInv, Places, Numbers, CertificateInv, PrintIsLast, StartInv,
              PinInv, SealInv
<1>4. CASE Seal
  BY <1>4 DEF Seal, IdentityInv, Places, Numbers, CertificateInv, PrintIsLast, StartInv, PinInv,
              SealInv
<1>5. CASE HubCrash
  <2> USE <1>5 DEF HubCrash, Stopped, Fault, IdentityInv
  <2>1. Places' BY DEF Places, Numbers, LeftAgent
  <2>2. Numbers' BY DEF Numbers
  <2>3. CASE misread BY <2>1, <2>2, <2>3 DEF CertificateInv, SealInv
  <2>4. CASE ~misread
    <3>1. PrintIsLast' BY <2>4 DEF CertificateInv, PrintIsLast, StartInv
    <3>2. StartInv' BY <2>4 DEF CertificateInv, StartInv
    <3>3. PinInv' BY <2>4 DEF CertificateInv, PinInv, StartInv, LeftAgent
    <3>4. SealInv' BY DEF SealInv
    <3> QED BY <2>1, <2>2, <3>1, <3>2, <3>3, <3>4 DEF CertificateInv
  <2> QED BY <2>3, <2>4
<1> QED BY <1>1, <1>2, <1>3, <1>4, <1>5

\* The HTTPS watcher and renewals preserve the invariant: they touch none of
\* the files it is about
LEMMA HttpsKeeps ==
  ASSUME IdentityInv, Https \/ Renew
  PROVE  IdentityInv'
<1> USE DEF hubVars, httpsVars, sessionVars, agentVars, tlsFiles,
            IdentityInv, Places, Numbers, CertificateInv, PrintIsLast, StartInv, PinInv, SealInv
<1>1. CASE LoadHttps BY <1>1 DEF LoadHttps, Stopped
<1>2. CASE FirstLook BY <1>2 DEF FirstLook
<1>3. CASE Poll BY <1>3 DEF Poll
<1>4. CASE Reload BY <1>4 DEF Reload
<1>5. CASE Renew BY <1>5 DEF Renew
<1> QED BY <1>1, <1>2, <1>3, <1>4, <1>5 DEF Https

\* The admin's requests preserve the invariant
LEMMA AdminKeeps ==
  ASSUME IdentityInv, CreateHost \/ RevokeHost \/ ConfigurePin
  PROVE  IdentityInv'
<1> USE DEF hubVars, httpsVars, sessionVars, agentVars, tlsFiles,
            IdentityInv, Places, Numbers, CertificateInv, PrintIsLast, StartInv, PinInv, SealInv
<1>1. CASE CreateHost BY <1>1 DEF CreateHost
<1>2. CASE RevokeHost BY <1>2 DEF RevokeHost
<1>3. CASE ConfigurePin BY <1>3 DEF ConfigurePin
<1> QED BY <1>1, <1>2, <1>3

\* The agent's loop, its crashes and lost connections preserve the invariant
LEMMA AgentKeeps ==
  ASSUME IdentityInv, Agent \/ AgentCrash \/ ConnectionLost
  PROVE  IdentityInv'
<1> USE DEF hubVars, httpsVars, sessionVars, agentVars, tlsFiles,
            IdentityInv, Places, Numbers, CertificateInv, PrintIsLast, StartInv, PinInv, SealInv
<1>1. CASE Dial BY <1>1 DEF Dial, Listening, Fails, NoPin
<1>2. CASE PersistPin BY <1>2 DEF PersistPin, Fails, Fault
<1>3. CASE Ask BY <1>3 DEF Ask
<1>4. CASE NoticeLoss BY <1>4 DEF NoticeLoss, Fails
<1>5. CASE Redial BY <1>5 DEF Redial
<1>6. CASE AgentCrash BY <1>6 DEF AgentCrash, Fault, ConnectionEnds, LeftReader
<1>7. CASE ConnectionLost BY <1>7 DEF ConnectionLost, Fault, ConnectionEnds, LeftReader, LeftAgent
<1> QED BY <1>1, <1>2, <1>3, <1>4, <1>5, <1>6, <1>7 DEF Agent

\* The session handler and its reader preserve the invariant
LEMMA SessionKeeps ==
  ASSUME IdentityInv, Session \/ Disconnect \/ Hear
  PROVE  IdentityInv'
<1> USE DEF hubVars, httpsVars, sessionVars, agentVars, tlsFiles,
            IdentityInv, Places, Numbers, CertificateInv, PrintIsLast, StartInv, PinInv, SealInv
<1>1. CASE Authenticate BY <1>1 DEF Authenticate, Refuse, Fails
<1>2. CASE Connect BY <1>2 DEF Connect, Refuse, Fails
<1>3. CASE Touch BY <1>3 DEF Touch
<1>4. CASE Disconnect BY <1>4 DEF Disconnect
<1>5. CASE Hear BY <1>5 DEF Hear
<1> QED BY <1>1, <1>2, <1>3, <1>4, <1>5 DEF Session

\* What a step does to the connection: it is up, down, or as before
LEMMA ConnIsSet == [EnrolmentNext]_enrolmentVars => conn' = TRUE \/ conn' = FALSE \/ conn' = conn
<1> SUFFICES ASSUME [EnrolmentNext]_enrolmentVars
             PROVE  conn' = TRUE \/ conn' = FALSE \/ conn' = conn
  OBVIOUS
<1> USE DEF hubVars, httpsVars, sessionVars, agentVars, tlsFiles
<1>1. CASE UNCHANGED enrolmentVars BY <1>1 DEF enrolmentVars
<1>2. CASE Boot \/ Persist \/ LoadSecrets \/ Seal \/ HubCrash
  BY <1>2 DEF Boot, Persist, LoadSecrets, Seal, HubCrash, Stopped
<1>3. CASE Https \/ Renew
  BY <1>3 DEF Https, LoadHttps, FirstLook, Poll, Reload, Renew, Stopped
<1>4. CASE CreateHost \/ RevokeHost \/ ConfigurePin
  BY <1>4 DEF CreateHost, RevokeHost, ConfigurePin
<1>5. CASE Agent \/ AgentCrash \/ ConnectionLost
  BY <1>5 DEF Agent, Dial, PersistPin, Ask, NoticeLoss, Redial, AgentCrash,
              ConnectionLost, ConnectionEnds, Fails
<1>6. CASE Session \/ Disconnect \/ Hear
  BY <1>6 DEF Session, Authenticate, Connect, Touch, Disconnect, Hear, Refuse, Fails
<1> QED BY <1>1, <1>2, <1>3, <1>4, <1>5, <1>6 DEF EnrolmentNext

\* The inductive invariant holds in every reachable state, for any number of
\* crashes, lost connections, read and write errors
THEOREM EnrolmentInvariant == EnrolmentSpec => []IdentityInv
<1>1. IdentityInv /\ UNCHANGED enrolmentVars => IdentityInv'
  BY DEF enrolmentVars, hubVars, httpsVars, sessionVars, agentVars, tlsFiles,
         IdentityInv, Places, Numbers, CertificateInv, PrintIsLast, StartInv, PinInv, SealInv
<1>2. IdentityInv /\ EnrolmentNext => IdentityInv'
  BY HubKeeps, HttpsKeeps, AdminKeeps, AgentKeeps, SessionKeeps DEF EnrolmentNext
<1> QED BY InitIdentity, <1>1, <1>2, PTL DEF EnrolmentSpec

\* Every part of hub and agent is where the code can be, and the redial delay
\* never passes its maximum (main.rs:81)
THEOREM EnrolmentTypeCorrect == EnrolmentSpec => []EnrolmentTypes
<1>1. EnrolmentInit => conn \in BOOLEAN BY DEF EnrolmentInit
<1>2. conn \in BOOLEAN /\ [EnrolmentNext]_enrolmentVars => (conn \in BOOLEAN)'
  BY ConnIsSet, Zenon
<1>3. IdentityInv /\ conn \in BOOLEAN => EnrolmentTypes BY DEF IdentityInv, EnrolmentTypes
<1> QED BY <1>1, <1>2, <1>3, EnrolmentInvariant, PTL DEF EnrolmentSpec

\* "so the fingerprint stays stable across restarts" (agent_tls.rs:20): a hub
\* that serves presents the certificate its agents have pinned, with its key,
\* unless a start could not read a file of agent-tls/ that was there; and it can
\* decrypt what it has stored, whatever it could not read
THEOREM IdentityIsStable == EnrolmentSpec => []IdentityLasts
<1>1. IdentityInv => IdentityLasts
  BY DEF IdentityInv, CertificateInv, PrintIsLast, StartInv, PinInv, SealInv, IdentityLasts
<1> QED BY <1>1, EnrolmentInvariant, PTL

\* Once a revoked host is out, without a session and without a handler that has
\* passed the check of its token (grpc.rs:42), no step lets it in (storage.rs:412)
THEOREM RevocationIsFinal == EnrolmentSpec => RevocationLasts
<1> USE DEF Out, hubVars, httpsVars, sessionVars, agentVars, tlsFiles
<1>1. ASSUME [EnrolmentNext]_enrolmentVars
      PROVE  [Out => Out']_enrolmentVars
  <2>1. CASE UNCHANGED enrolmentVars BY <2>1
  <2>2. CASE Boot \/ Persist \/ LoadSecrets \/ Seal \/ HubCrash
    BY <2>2 DEF Boot, Persist, LoadSecrets, Seal, HubCrash, Stopped
  <2>3. CASE Https \/ Renew
    BY <2>3 DEF Https, LoadHttps, Stopped, FirstLook, Poll, Reload, Renew
  <2>4. CASE CreateHost \/ RevokeHost \/ ConfigurePin
    BY <2>4 DEF CreateHost, RevokeHost, ConfigurePin
  <2>5. CASE Agent \/ AgentCrash \/ ConnectionLost
    BY <2>5 DEF Agent, Dial, PersistPin, Ask, NoticeLoss, Redial, AgentCrash,
                ConnectionLost, ConnectionEnds, Registers, HostFound
  <2>6. CASE Session \/ Disconnect \/ Hear
    BY <2>6 DEF Session, Authenticate, HostFound, Connect, Touch,
                Disconnect, Hear, Refuse
  <2> QED BY <1>1, <2>1, <2>2, <2>3, <2>4, <2>5, <2>6 DEF EnrolmentNext
<1> QED BY <1>1, PTL DEF EnrolmentSpec, RevocationLasts
=============================================================================
