----------------------- MODULE AgentDeploymentsProofs -----------------------
(***************************************************************************)
(* Proofs about AgentDeployments: for any zip, room, start requests and    *)
(* faults, the deployment's files are an upload's whole content or not     *)
(* there, and the delayed removal of an install container takes the one it *)
(* was scheduled for.                                                      *)
(***************************************************************************)
EXTENDS AgentDeployments, TLAPS

Results == {"none", "ok", "failed"}
Places == {"none", "open", "receive", "unpack", "place", "answer", "deregister", "done"}

UploadTypes ==
    /\ call \in {"mkdir", "send", "await", "ok", "failed"}
    /\ session \in {"up", "lost"} /\ reply \in Results
    /\ out \in Seq(Nat) /\ channel \in [Handlers -> Seq(Nat)]
    /\ entry \in Handlers \cup {Nobody}
    /\ upload \in [Handlers -> Places] /\ result \in [Handlers -> Results]
    /\ sent \in 0..Last /\ (call \in {"mkdir", "send"} => sent < Last)
    /\ Len(out) <= Room /\ \A u \in Handlers : Len(channel[u]) <= Room

StartTypes ==
    /\ main \in {"absent", "created", "running"}
    /\ inst \in {"absent", "created", "running", "ok", "failed"}
    /\ gen \in Nat /\ own \in [Starts -> Nat]
    /\ start \in [Starts -> Tasks] /\ cleanup \subseteq Starts

FaultTypes == faults \in 0..MaxFaults

(* A handler that has begun and not ended is the one in the table: there is *)
(* one at most, and the staging directory is its own.  Nobody has answered  *)
(* "ok" before the files were all in place.                                 *)
Shipped == files = Whole \/ deleted

PlaceInv ==
    /\ files \in {Nothing, Whole}
    /\ \A u \in Handlers :
          /\ upload[u] \notin {"none", "done"} => entry = u
          /\ upload[u] = "place" => staging = Whole
          /\ result[u] = "ok" => Shipped
    /\ reply = "ok" \/ call = "ok" => Shipped

(* Until a reconciliation removes an install container, the request that    *)
(* created the one there is the only one to wait for it or to sleep before  *)
(* removing it, and it does one or the other.                               *)
Holds(s) == start[s] \in {"boot", "wait"} \/ s \in cleanup

HoldInv ==
    /\ \A s \in cleanup : start[s] \in {"create", "startmain", "ok", "failed"}
    /\ swept \/ ( /\ ~spoiled
                  /\ \A s \in Starts : Holds(s) =>
                        /\ inst # "absent"
                        /\ start[s] = "wait" \/ s \in cleanup => own[s] = gen
                        /\ \A t \in Starts : Holds(t) => t = s )

AgentInv == UploadTypes /\ StartTypes /\ FaultTypes /\ PlaceInv /\ HoldInv

USE DeploymentAssumption DEF Fault

UploadSteps ==
    \/ MakeDir \/ SendChunk \/ ReadFails \/ UploadReturns \/ Route \/ DeleteDir
    \/ \E u \in Handlers : Upload(u)

StartSteps ==
    \/ \E s \in Starts : StartRequest(s) \/ Start(s) \/ Cleanup(s) \/ PodmanError(s)
    \/ InstallExits \/ Sweep \/ Stop \/ RemovalFails

\* The upload leaves the containers alone, and the containers the upload
LEMMA UploadsApart == UploadSteps => UNCHANGED <<podman, starts, history>>
  BY DEF UploadSteps, MakeDir, SendChunk, ReadFails, UploadReturns, Route, DeleteDir, Upload,
         OpenZip, ReceiveChunk, Unpack, Place, SendAnswer, Deregister

LEMMA StartsApart == StartSteps => UNCHANGED <<hub, wire, uploads, disk>>
  BY DEF StartSteps, StartRequest, Start, Inspect, CreateInstall, StartInstall, Wait, WaitTimeout,
         CreateMain, StartMain, Cleanup, InstallExits, Sweep, Stop, PodmanError, CreateFails,
         WaitFails, CleanupFails, RemovalFails

\* A step is one of these
LEMMA StepKinds ==
  [Next]_vars => UploadSteps \/ StartSteps \/ SessionLost \/ AgentRestart \/ UNCHANGED vars
  BY DEF Next, UploadSteps, StartSteps

\* An agent's restart ends its tasks
LEMMA RestartEnds ==
  ASSUME AgentRestart
  PROVE  /\ \A u \in Handlers : upload'[u] \in {"none", "done"} /\ channel'[u] = <<>>
         /\ \A s \in Starts : ~Holds(s)'
  BY DEF AgentRestart, Holds, Ended

\* Room in a queue
LEMMA Queued ==
  ASSUME NEW q \in Seq(Nat), NEW x \in Nat
  PROVE  /\ Append(q, x) \in Seq(Nat) /\ (Len(q) < Room => Len(Append(q, x)) <= Room)
         /\ Len(q) \in Nat
         /\ <<x>> \in Seq(Nat) /\ Len(<<x>>) = 1
         /\ q # <<>> => /\ Head(q) \in Nat /\ Tail(q) \in Seq(Nat)
                        /\ Len(Tail(q)) = Len(q) - 1
  OBVIOUS

\* The empty queue
LEMMA NoQueue == <<>> \in Seq(Nat) /\ Len(<<>>) = 0
  OBVIOUS

-----------------------------------------------------------------------------
(* Types *)

USE DEF Handlers, Nobody, Last, Results, Places

\* The state of the upload keeps its types
LEMMA UploadTypesKept == UploadTypes /\ [Next]_vars => UploadTypes'
<1> SUFFICES ASSUME UploadTypes, [Next]_vars PROVE UploadTypes' OBVIOUS
<1> USE DEF hub, wire, uploads, disk
<1>1. CASE MakeDir BY <1>1 DEF MakeDir, UploadTypes
<1>2. CASE SendChunk
  <2>1. out' \in Seq(Nat) /\ Len(out') <= Room BY <1>2, Queued DEF SendChunk, UploadTypes
  <2>2. /\ sent' \in 0..Last /\ (call' \in {"mkdir", "send"} => sent' < Last)
        /\ call' \in {"await", "send"}
    BY <1>2 DEF SendChunk, UploadTypes
  <2> QED BY <1>2, <2>1, <2>2 DEF SendChunk, UploadTypes
<1>3. CASE ReadFails BY <1>3 DEF ReadFails, UploadTypes
<1>4. CASE UploadReturns BY <1>4 DEF UploadReturns, UploadTypes
<1>5. CASE Route
  <2>1. out' \in Seq(Nat) /\ Len(out') <= Room /\ Head(out) \in Nat
    BY <1>5, Queued, SMTT(30) DEF Route, UploadTypes
  <2>2. PICK u \in Handlers : Forward(u) \/ Spawn(u) BY <1>5 DEF Route
  <2>3. CASE Forward(u)
    <3>1. channel' \in [Handlers -> Seq(Nat)] /\ \A v \in Handlers : Len(channel'[v]) <= Room
      <4>1. CASE UNCHANGED channel BY <4>1 DEF UploadTypes
      <4>2. CASE Len(channel[u]) < Room /\ channel' = [channel EXCEPT ![u] = Append(@, Head(out))]
        <5>1. Append(channel[u], Head(out)) \in Seq(Nat) /\ Len(Append(channel[u], Head(out))) <= Room
          BY <2>1, <4>2, Queued DEF UploadTypes
        <5> QED BY <4>2, <5>1 DEF UploadTypes
      <4> QED BY <2>3, <4>1, <4>2 DEF Forward
    <3> QED BY <1>5, <2>1, <2>3, <3>1 DEF Route, Forward, UploadTypes
  <2>4. CASE Spawn(u)
    <3>1. channel' \in [Handlers -> Seq(Nat)] /\ \A v \in Handlers : Len(channel'[v]) <= Room
      BY <2>1, <2>4, Queued, SMTT(30) DEF Spawn, UploadTypes
    <3> QED BY <1>5, <2>1, <2>4, <3>1 DEF Route, Spawn, UploadTypes
  <2> QED BY <2>2, <2>3, <2>4
<1>6. CASE DeleteDir BY <1>6 DEF DeleteDir, UploadTypes
<1>7. ASSUME NEW u \in Handlers, Upload(u) PROVE UploadTypes'
  <2>1. CASE OpenZip(u) BY <2>1 DEF OpenZip, Answer, UploadTypes
  <2>2. CASE ReceiveChunk(u)
    <3>1. channel' \in [Handlers -> Seq(Nat)] /\ \A v \in Handlers : Len(channel'[v]) <= Room
      BY <2>2, Queued DEF ReceiveChunk, UploadTypes
    <3>2. upload' \in [Handlers -> Places] /\ result' \in [Handlers -> Results]
      BY <2>2 DEF ReceiveChunk, Answer, UploadTypes
    <3>3. UNCHANGED <<hub, wire, entry>> BY <2>2, Zenon DEF ReceiveChunk
    <3> QED BY <3>1, <3>2, <3>3 DEF UploadTypes
  <2>3. CASE Unpack(u) BY <2>3 DEF Unpack, Answer, UploadTypes
  <2>4. CASE Place(u) BY <2>4 DEF Place, Answer, UploadTypes
  <2>5. CASE SendAnswer(u) BY <2>5 DEF SendAnswer, UploadTypes
  <2>6. CASE Deregister(u) BY <2>6, NoQueue DEF Deregister, UploadTypes
  <2> QED BY <1>7, <2>1, <2>2, <2>3, <2>4, <2>5, <2>6 DEF Upload
<1>8. CASE StartSteps BY <1>8, StartsApart DEF UploadTypes
<1>9. CASE SessionLost BY <1>9, NoQueue DEF SessionLost, UploadTypes
<1>10. CASE AgentRestart BY <1>10, NoQueue DEF AgentRestart, UploadTypes
<1>11. CASE UNCHANGED vars BY <1>11 DEF vars, UploadTypes
<1> QED BY <1>1, <1>2, <1>3, <1>4, <1>5, <1>6, <1>7, <1>8, <1>9, <1>10, <1>11, StepKinds DEF UploadSteps

\* The containers and the requests for them keep theirs
LEMMA StartTypesKept == StartTypes /\ [Next]_vars => StartTypes'
<1> SUFFICES ASSUME StartTypes, [Next]_vars PROVE StartTypes' OBVIOUS
<1> USE DEF podman, starts, StartTypes, Tasks, Goto
<1>1. ASSUME NEW s \in Starts, StartRequest(s) \/ Start(s) \/ Cleanup(s) \/ PodmanError(s) PROVE StartTypes'
  <2>1. CASE StartRequest(s) BY <2>1 DEF StartRequest
  <2>2. CASE Inspect(s) BY <2>2 DEF Inspect
  <2>3. CASE CreateInstall(s) BY <2>3 DEF CreateInstall
  <2>4. CASE StartInstall(s) BY <2>4 DEF StartInstall
  <2>5. CASE Wait(s) BY <2>5 DEF Wait
  <2>6. CASE WaitTimeout(s) BY <2>6 DEF WaitTimeout
  <2>7. CASE CreateMain(s) BY <2>7 DEF CreateMain
  <2>8. CASE StartMain(s) BY <2>8 DEF StartMain
  <2>10. CASE CreateFails(s) BY <2>10 DEF CreateFails
  <2>11. CASE WaitFails(s) BY <2>11 DEF WaitFails
  <2>12. CASE CleanupFails(s) BY <2>12 DEF CleanupFails
  <2>9. CASE Cleanup(s) BY <2>9 DEF Cleanup
  <2> QED BY <1>1, <2>1, <2>2, <2>3, <2>4, <2>5, <2>6, <2>7, <2>8, <2>9, <2>10, <2>11, <2>12
          DEF Start, PodmanError
<1>2. CASE InstallExits BY <1>2 DEF InstallExits
<1>3. CASE Sweep BY <1>3 DEF Sweep
<1>4. CASE Stop BY <1>4 DEF Stop
<1>9. CASE RemovalFails BY <1>9 DEF RemovalFails
<1>5. CASE UploadSteps BY <1>5, UploadsApart
<1>6. CASE SessionLost BY <1>6 DEF SessionLost
<1>7. CASE AgentRestart BY <1>7 DEF AgentRestart
<1>8. CASE UNCHANGED vars BY <1>8 DEF vars
<1> QED BY <1>1, <1>2, <1>3, <1>4, <1>5, <1>6, <1>7, <1>8, <1>9, StepKinds DEF StartSteps

\* Faults stay within their bound
LEMMA FaultTypesKept == FaultTypes /\ [Next]_vars => FaultTypes'
<1> SUFFICES ASSUME FaultTypes, [Next]_vars PROVE FaultTypes' OBVIOUS
<1>1. [Next]_vars => UNCHANGED faults \/ Fault
  BY DEF Next, vars, MakeDir, SendChunk, ReadFails, UploadReturns, Route, DeleteDir, Upload,
         OpenZip, ReceiveChunk, Unpack, Place, SendAnswer, Deregister, StartRequest, Start,
         Inspect, CreateInstall, StartInstall, Wait, WaitTimeout, CreateMain, StartMain, Cleanup,
         PodmanError, CreateFails, WaitFails, CleanupFails, RemovalFails,
         InstallExits, Sweep, Stop, SessionLost, AgentRestart
<1> QED BY <1>1 DEF FaultTypes

-----------------------------------------------------------------------------
(* The upload's content and the install container *)

\* The files are whole or not there, through every step
LEMMA PlaceKept == UploadTypes /\ PlaceInv /\ [Next]_vars => PlaceInv'
<1> SUFFICES ASSUME UploadTypes, PlaceInv, [Next]_vars PROVE PlaceInv' OBVIOUS
<1> USE DEF hub, wire, uploads, disk, PlaceInv, Shipped
<1>1. CASE MakeDir BY <1>1 DEF MakeDir
<1>2. CASE SendChunk BY <1>2 DEF SendChunk
<1>3. CASE ReadFails BY <1>3 DEF ReadFails
<1>4. CASE UploadReturns BY <1>4 DEF UploadReturns
<1>5. CASE Route
  <2>1. PICK u \in Handlers : Forward(u) \/ Spawn(u) BY <1>5 DEF Route
  <2>2. CASE Forward(u) BY <1>5, <2>2 DEF Route, Forward
  <2>3. CASE Spawn(u)
    <3>1. \A v \in Handlers : upload[v] \in {"none", "done"} BY <2>3 DEF Spawn
    <3> QED BY <1>5, <2>3, <3>1 DEF Route, Spawn, UploadTypes
  <2> QED BY <2>1, <2>2, <2>3
<1>6. CASE DeleteDir BY <1>6 DEF DeleteDir
<1>7. ASSUME NEW u \in Handlers, Upload(u) PROVE PlaceInv'
  <2> HIDE DEF Handlers
  <2>1. CASE OpenZip(u) BY <2>1 DEF OpenZip, Answer, UploadTypes
  <2>2. CASE ReceiveChunk(u) BY <2>2 DEF ReceiveChunk, Answer, UploadTypes
  <2>3. CASE Unpack(u)
    <3>1. \A v \in Handlers \ {u} : upload[v] \in {"none", "done"} BY <2>3 DEF Unpack
    <3> QED BY <2>3, <3>1 DEF Unpack, Answer, UploadTypes
  <2>4. CASE Place(u)
    <3>1. \A v \in Handlers \ {u} : upload[v] \in {"none", "done"} BY <2>4 DEF Place
    <3>2. staging = Whole BY <2>4 DEF Place
    <3>3. CASE dir /\ files = Nothing BY <2>4, <3>1, <3>2, <3>3 DEF Place, Answer, UploadTypes
    <3>4. CASE ~(dir /\ files = Nothing) BY <2>4, <3>1, <3>4 DEF Place, Answer, UploadTypes
    <3> QED BY <3>3, <3>4
  <2>5. CASE SendAnswer(u) BY <2>5 DEF SendAnswer, UploadTypes
  <2>6. CASE Deregister(u)
    <3>1. \A v \in Handlers \ {u} : upload[v] \in {"none", "done"} BY <2>6 DEF Deregister
    <3> QED BY <2>6, <3>1 DEF Deregister, UploadTypes
  <2> QED BY <1>7, <2>1, <2>2, <2>3, <2>4, <2>5, <2>6 DEF Upload
<1>8. CASE StartSteps BY <1>8, StartsApart
<1>9. CASE SessionLost BY <1>9 DEF SessionLost
<1>10. CASE AgentRestart BY <1>10, RestartEnds DEF AgentRestart
<1>11. CASE UNCHANGED vars BY <1>11 DEF vars
<1> QED BY <1>1, <1>2, <1>3, <1>4, <1>5, <1>6, <1>7, <1>8, <1>9, <1>10, <1>11, StepKinds DEF UploadSteps

\* An install container is held by one request, through every step
LEMMA HoldKept == StartTypes /\ HoldInv /\ [Next]_vars => HoldInv'
<1> SUFFICES ASSUME StartTypes, HoldInv, [Next]_vars PROVE HoldInv' OBVIOUS
<1> USE DEF podman, starts, history, HoldInv, Holds, Goto, StartTypes
<1>1. ASSUME NEW s \in Starts, StartRequest(s) \/ Start(s) \/ Cleanup(s) \/ PodmanError(s) PROVE HoldInv'
  <2>1. CASE StartRequest(s) BY <2>1 DEF StartRequest
  <2>2. CASE Inspect(s) BY <2>2 DEF Inspect
  <2>3. CASE CreateInstall(s) BY <2>3 DEF CreateInstall
  <2>4. CASE StartInstall(s) BY <2>4 DEF StartInstall
  <2>5. CASE Wait(s) BY <2>5 DEF Wait
  <2>6. CASE WaitTimeout(s) BY <2>6 DEF WaitTimeout
  <2>7. CASE CreateMain(s) BY <2>7 DEF CreateMain
  <2>8. CASE StartMain(s) BY <2>8 DEF StartMain
  <2>10. CASE CreateFails(s) BY <2>10 DEF CreateFails
  <2>11. CASE WaitFails(s) BY <2>11 DEF WaitFails
  <2>12. CASE CleanupFails(s) BY <2>12 DEF CleanupFails
  <2>9. CASE Cleanup(s)
    <3>1. CASE swept BY <2>9, <3>1 DEF Cleanup
    <3>2. CASE ~swept
      <4>1. own[s] = gen /\ ~spoiled BY <2>9, <3>2 DEF Cleanup
      <4>2. ~spoiled'
        <5>1. ~(spoiled \/ (inst = "running" /\ own[s] # gen)) BY <4>1
        <5>2. spoiled' = (spoiled \/ (inst = "running" /\ own[s] # gen)) BY <2>9 DEF Cleanup
        <5> QED BY <5>1, <5>2, Zenon
      <4>3. \A t \in Starts : ~Holds(t)' BY <2>9, <3>2 DEF Cleanup
      <4>4. \A t \in cleanup' : start'[t] \in {"create", "startmain", "ok", "failed"} BY <2>9 DEF Cleanup
      <4> HIDE DEF Holds
      <4> QED BY <4>2, <4>3, <4>4
    <3> QED BY <3>1, <3>2
  <2> QED BY <1>1, <2>1, <2>2, <2>3, <2>4, <2>5, <2>6, <2>7, <2>8, <2>9, <2>10, <2>11, <2>12
          DEF Start, PodmanError
<1>2. CASE InstallExits BY <1>2 DEF InstallExits
<1>3. CASE Sweep BY <1>3 DEF Sweep
<1>4. CASE Stop BY <1>4 DEF Stop
<1>9. CASE RemovalFails BY <1>9 DEF RemovalFails
<1>5. CASE UploadSteps BY <1>5, UploadsApart
<1>6. CASE SessionLost BY <1>6 DEF SessionLost
<1>7. CASE AgentRestart BY <1>7, RestartEnds DEF AgentRestart
<1>8. CASE UNCHANGED vars BY <1>8 DEF vars
<1> QED BY <1>1, <1>2, <1>3, <1>4, <1>5, <1>6, <1>7, <1>8, <1>9, StepKinds DEF StartSteps

\* Init => AgentInv
LEMMA InitAgent == Init => AgentInv
  BY NoQueue DEF Init, AgentInv, UploadTypes, StartTypes, FaultTypes, PlaceInv, Shipped, HoldInv, Holds, Tasks

-----------------------------------------------------------------------------
(* One handler at a time owns the staging directory, "ok" is answered with  *)
(* the files in place, and one request at a time owns the install container *)
(* that has the deployment's name.                                          *)
THEOREM AgentInvariant == Spec => []AgentInv
<1>1. AgentInv /\ [Next]_vars => AgentInv'
  BY UploadTypesKept, StartTypesKept, FaultTypesKept, PlaceKept, HoldKept DEF AgentInv
<1> QED BY <1>1, InitAgent, PTL DEF Spec

(* The files of a deployment are never part of an upload, and all there     *)
(* when the hub has been told so (upload_zip_and_extract), unless deleted.  *)
THEOREM FilesAreWhole == Spec => []FilesWhole
<1>1. AgentInv => FilesWhole BY DEF AgentInv, PlaceInv, Shipped, FilesWhole
<1> QED BY <1>1, AgentInvariant, PTL

(* schedule_cleanup goes by a name, and still removes no other request's    *)
(* running install before a reconciliation has removed one.                 *)
THEOREM CleanupsSpare == Spec => []CleanupSpares
<1>1. AgentInv => CleanupSpares BY DEF AgentInv, HoldInv, CleanupSpares
<1> QED BY <1>1, AgentInvariant, PTL

(* Types: every channel stays within its room, every task at a known place. *)
THEOREM TypeCorrect == Spec => []TypeOK
<1>1. AgentInv => TypeOK BY DEF AgentInv, UploadTypes, StartTypes, FaultTypes, TypeOK
<1> QED BY <1>1, AgentInvariant, PTL
=============================================================================
