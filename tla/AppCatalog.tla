----------------------------- MODULE AppCatalog -----------------------------
(***************************************************************************)
(* What the hub promises its users about the catalogue of apps and         *)
(* deployments: every operation is one indivisible change of the rows, the *)
(* active deployment of an app is always one of its own deployments, and   *)
(* only a deployment that is not active can be deleted.  HubStorage shows  *)
(* how the handlers of storage.rs reach this with a lock that spans        *)
(* several database and file-system steps.                                 *)
(***************************************************************************)
CONSTANTS Apps,   \* app ids
          Deps,   \* deployment ids
          Names,  \* app names (subdomains)
          None    \* absence: no row, no active deployment

VARIABLES appName,  \* appName[a]: the name of the row of a, None without a row
          active,   \* active[a]: the column active_deployment_id
          depApp,   \* depApp[d]: the app the deployment id d was made for
          live      \* the deployments that have a row

vars == <<appName, active, depApp, live>>

Exists(a) == appName[a] # None

DeploymentsOf(a) == {d \in live : depApp[d] = a}

Init ==
    /\ appName = [a \in Apps |-> None]
    /\ active = [a \in Apps |-> None]
    /\ depApp = [d \in Deps |-> None]
    /\ live = {}

(* A new row under a name no other app has. *)
AddApp(a, n) ==
    /\ ~Exists(a)
    /\ \A b \in Apps : appName[b] # n
    /\ appName' = [appName EXCEPT ![a] = n]
    /\ active' = [active EXCEPT ![a] = None]
    /\ UNCHANGED <<depApp, live>>

Rename(a, n) ==
    /\ Exists(a)
    /\ \A b \in Apps \ {a} : appName[b] # n
    /\ appName' = [appName EXCEPT ![a] = n]
    /\ UNCHANGED <<active, depApp, live>>

(* The row goes together with every deployment row of the app. *)
RemoveApp(a) ==
    /\ Exists(a)
    /\ appName' = [appName EXCEPT ![a] = None]
    /\ active' = [active EXCEPT ![a] = None]
    /\ live' = live \ DeploymentsOf(a)
    /\ UNCHANGED depApp

(* An id is bound to its app once, before its row appears. *)
BindDeployment(d, a) ==
    /\ depApp[d] = None
    /\ depApp' = [depApp EXCEPT ![d] = a]
    /\ UNCHANGED <<appName, active, live>>

AddDeployment(d) ==
    /\ d \notin live
    /\ depApp[d] # None
    /\ Exists(depApp[d])
    /\ live' = live \cup {d}
    /\ UNCHANGED <<appName, active, depApp>>

Activate(a, d) ==
    /\ Exists(a)
    /\ d \in DeploymentsOf(a)
    /\ active' = [active EXCEPT ![a] = d]
    /\ UNCHANGED <<appName, depApp, live>>

RemoveDeployment(a, d) ==
    /\ d \in DeploymentsOf(a)
    /\ active[a] # d
    /\ live' = live \ {d}
    /\ UNCHANGED <<appName, active, depApp>>

Next ==
    \/ \E a \in Apps, n \in Names : AddApp(a, n) \/ Rename(a, n)
    \/ \E a \in Apps : RemoveApp(a)
    \/ \E a \in Apps, d \in Deps :
          BindDeployment(d, a) \/ Activate(a, d) \/ RemoveDeployment(a, d)
    \/ \E d \in Deps : AddDeployment(d)

Spec == Init /\ [][Next]_vars
=============================================================================
