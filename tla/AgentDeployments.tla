-------------------------- MODULE AgentDeployments --------------------------
(***************************************************************************)
(* One run-mode deployment on its agent: the hub makes its directory and   *)
(* uploads its files as a zip, in chunks that the agent's session loop     *)
(* routes to a handler; start requests run the install command in a        *)
(* container of its own, removed a while later, and then create and start  *)
(* the deployment's container; others stop and remove both, or delete the  *)
(* directory.  RunDeployments has each of these as one step of the agent.  *)
(*                                                                         *)
(* The zip is the sequence 1..Chunks, ended by an empty chunk, Last.       *)
(***************************************************************************)
EXTENDS Naturals, Sequences, FiniteSets

CONSTANTS Chunks,   \* chunks of the zip
          Room,     \* room in an upload's channel and in the session
          Starts,   \* start requests: of the deploy task, activations, reconciliations
          MaxFaults \* bound on lost sessions, agent restarts, disk and Podman errors

ASSUME DeploymentAssumption == {Chunks, Room} \subseteq Nat \ {0} /\ MaxFaults \in Nat

\* handlers of upload chunks: the second one for chunks that outlive the first
Handlers == {1, 2}
Nobody == 0
Last == Chunks + 1
Whole == [i \in 1..Chunks |-> i]
Nothing == <<>>

VARIABLES
    \* the hub's upload
    call,     \* where ship_run_deployment_to_agent is
    sent,     \* chunks of the zip sent
    deleted,  \* the deletion of the deployment was asked for
    \* the session
    session,  \* the session the upload began in: "up" or "lost"
    out,      \* chunks on their way to the agent
    reply,    \* the agent's answer to the upload on its way
    \* the agent's uploads
    entry,    \* the handler in_flight_uploads names, or Nobody
    upload,   \* upload[u]: where handler u is
    channel,  \* channel[u]: chunks routed to u
    result,   \* result[u]: what u will answer
    \* its disk: the directory, the zip received, what it unpacks to
    dir, zip, staging, files,
    \* Podman: the deployment's container and its install container
    main, inst,
    gen,      \* incarnation of the install container
    \* the agent's containers
    start,    \* start[s]: where the handler of request s is
    own,      \* own[s]: the incarnation s waits for
    cleanup,  \* requests whose schedule_cleanup sleeps
    sweep,    \* stop_and_remove of the install container by a reconciliation
    stop,     \* stop_and_remove of the deployment's container
    faults,
    \* history
    cut,      \* uploads no final chunk will follow: the session or the hub gave up
    swept,    \* a reconciliation has removed an install container
    spoiled,  \* a cleanup has removed a running install that was not its own
    forgotten \* install containers whose cleanup nobody will run

hub == <<call, sent, deleted>>
wire == <<session, out, reply>>
uploads == <<entry, upload, channel, result>>
disk == <<dir, zip, staging, files>>
podman == <<main, inst, gen>>
starts == <<start, own, cleanup, sweep, stop>>
history == <<swept, spoiled, forgotten>>
vars == <<hub, wire, uploads, disk, podman, starts, faults, cut, history>>

Init ==
    /\ call = "mkdir" /\ sent = 0 /\ deleted = FALSE
    /\ session = "up" /\ out = <<>> /\ reply = "none"
    /\ entry = Nobody /\ upload = [u \in Handlers |-> "none"]
    /\ channel = [u \in Handlers |-> <<>>] /\ result = [u \in Handlers |-> "none"]
    /\ dir = FALSE /\ zip = Nothing /\ staging = Nothing /\ files = Nothing
    /\ main = "absent" /\ inst = "absent" /\ gen = 0
    /\ start = [s \in Starts |-> "none"] /\ own = [s \in Starts |-> 0]
    /\ cleanup = {} /\ sweep = "none" /\ stop = "none"
    /\ faults = 0 /\ cut = {}
    /\ swept = FALSE /\ spoiled = FALSE /\ forgotten = {}

Fault == faults < MaxFaults /\ faults' = faults + 1

-----------------------------------------------------------------------------
(* The hub: ship_run_deployment_to_agent.  A request that finds no session  *)
(* fails, and so does one whose session ends.                               *)

\* create_deployment_dir; a failed call may have made it all the same
MakeDir ==
    /\ call = "mkdir"
    /\ \/ session = "up" /\ dir' = TRUE /\ call' = "send"
       \/ dir' \in {dir, TRUE} /\ call' = "failed"
    /\ UNCHANGED <<sent, deleted, wire, uploads, zip, staging, files, podman, starts,
                   faults, cut, history>>

\* the next chunk, or the empty last one
SendChunk ==
    /\ call = "send" /\ session = "up" /\ Len(out) < Room
    /\ out' = Append(out, sent + 1)
    /\ sent' = sent + 1
    /\ call' = IF sent + 1 = Last THEN "await" ELSE "send"
    /\ UNCHANGED <<deleted, session, reply, uploads, disk, podman, starts, faults, cut, history>>

\* the zip cannot be read: the stream ends without its last chunk
ReadFails ==
    /\ Fault
    /\ call = "send" /\ session = "up"
    /\ call' = "await"
    /\ cut' = Handlers
    /\ UNCHANGED <<sent, deleted, wire, uploads, disk, podman, starts, history>>

\* the answer is taken once every chunk is sent; UPLOAD_TIMEOUT starts then
UploadReturns ==
    /\ \/ call = "await" /\ reply # "none" /\ call' = reply
       \/ call = "await" /\ session = "up" /\ call' = "failed"
       \/ call = "await" /\ session = "lost" /\ reply = "none" /\ call' = "failed"
       \/ call = "send" /\ session = "lost" /\ call' = "failed"
    /\ UNCHANGED <<sent, deleted, wire, uploads, disk, podman, starts, faults, cut, history>>

-----------------------------------------------------------------------------
(* The agent's session loop: route_upload_chunk *)

\* the handler holds its receiver until it has answered
Listens(u) == upload[u] \in {"open", "receive", "unpack", "place", "answer"}

\* variant: an unbounded channel
ForwardUnbounded(u) ==
    /\ entry = u
    /\ channel' = [channel EXCEPT ![u] = IF Listens(u) THEN Append(@, Head(out)) ELSE @]
    /\ UNCHANGED <<entry, upload>>

\* to the registered handler, waiting for room while it listens
Forward(u) ==
    /\ entry = u
    /\ \/ Listens(u) /\ Len(channel[u]) < Room
          /\ channel' = [channel EXCEPT ![u] = Append(@, Head(out))]
       \/ ~Listens(u) /\ UNCHANGED channel
    /\ UNCHANGED <<entry, upload>>

\* to a new one
Spawn(u) ==
    /\ entry = Nobody /\ upload[u] = "none" /\ (u = 2 => upload[1] # "none")
    /\ entry' = u
    /\ upload' = [upload EXCEPT ![u] = "open"]
    /\ channel' = [channel EXCEPT ![u] = <<Head(out)>>]

Route ==
    /\ session = "up" /\ out # <<>>
    /\ out' = Tail(out)
    /\ \E u \in Handlers : Forward(u) \/ Spawn(u)
    /\ UNCHANGED <<hub, session, reply, result, disk, podman, starts, faults, cut, history>>

-----------------------------------------------------------------------------
(* A handler: upload_zip_and_extract.  The channel has a sender as long as  *)
(* the handler is in the table, which the handler itself is removed from    *)
(* only after its end: the channel is never closed while it receives.       *)
Answer(u, r) ==
    /\ upload' = [upload EXCEPT ![u] = "answer"]
    /\ result' = [result EXCEPT ![u] = r]

OpenZip(u) ==
    /\ upload[u] = "open"
    /\ \/ zip' = Nothing /\ upload' = [upload EXCEPT ![u] = "receive"] /\ UNCHANGED <<result, faults>>
       \/ Fault /\ Answer(u, "failed") /\ UNCHANGED zip
    /\ UNCHANGED <<hub, wire, entry, channel, dir, staging, files, podman, starts, cut, history>>

\* variant: is_final is not looked at
ReceiveUntilClosed(u) ==
    /\ upload[u] = "receive" /\ channel[u] # <<>>
    /\ channel' = [channel EXCEPT ![u] = Tail(@)]
    /\ zip' = IF Head(channel[u]) = Last THEN zip ELSE Append(zip, Head(channel[u]))
    /\ UNCHANGED <<hub, wire, entry, upload, result, dir, staging, files, podman, starts,
                   faults, cut, history>>

\* receive_zip: each chunk is written, the last one ends it
ReceiveChunk(u) ==
    /\ upload[u] = "receive" /\ channel[u] # <<>>
    /\ channel' = [channel EXCEPT ![u] = Tail(@)]
    /\ \/ /\ zip' = IF Head(channel[u]) = Last THEN zip ELSE Append(zip, Head(channel[u]))
          /\ upload' = [upload EXCEPT ![u] = IF Head(channel[u]) = Last THEN "unpack" ELSE @]
          /\ UNCHANGED <<result, faults>>
       \/ Fault /\ Answer(u, "failed") /\ UNCHANGED zip
    /\ UNCHANGED <<hub, wire, entry, dir, staging, files, podman, starts, cut, history>>

\* variant: what can be read of a zip is unpacked
UnpackPart(u) ==
    /\ upload[u] = "unpack"
    /\ staging' = zip
    /\ upload' = [upload EXCEPT ![u] = "place"]
    /\ UNCHANGED <<hub, wire, entry, channel, result, dir, zip, files, podman, starts,
                   faults, cut, history>>

\* into the staging directory, which is removed again when the zip is refused:
\* for its size, for its paths, or because it is not whole
Unpack(u) ==
    /\ upload[u] = "unpack"
    /\ \/ /\ zip = Whole
          /\ staging' = zip
          /\ upload' = [upload EXCEPT ![u] = "place"] /\ UNCHANGED <<result, faults>>
       \/ /\ staging' = Nothing
          /\ Answer(u, "failed")
          /\ IF zip = Whole THEN Fault ELSE UNCHANGED faults
    /\ UNCHANGED <<hub, wire, entry, channel, dir, zip, files, podman, starts, cut, history>>

\* the rename needs the deployment's directory and nothing in its place
Place(u) ==
    /\ upload[u] = "place"
    /\ staging' = Nothing
    /\ IF dir /\ files = Nothing
       THEN files' = staging /\ Answer(u, "ok")
       ELSE Answer(u, "failed") /\ UNCHANGED files
    /\ UNCHANGED <<hub, wire, entry, channel, dir, zip, podman, starts, faults, cut, history>>

\* the zip is removed and the answer sent, if anybody waits for it
SendAnswer(u) ==
    /\ upload[u] = "answer"
    /\ zip' = Nothing
    /\ upload' = [upload EXCEPT ![u] = "deregister"]
    /\ reply' = IF session = "up" /\ reply = "none" THEN result[u] ELSE reply
    /\ UNCHANGED <<hub, session, out, entry, channel, result, dir, staging, files,
                   podman, starts, faults, cut, history>>

Deregister(u) ==
    /\ upload[u] = "deregister"
    /\ upload' = [upload EXCEPT ![u] = "done"]
    /\ entry' = Nobody
    /\ channel' = [channel EXCEPT ![u] = <<>>]
    /\ UNCHANGED <<hub, wire, result, disk, podman, starts, faults, cut, history>>

\* delete_deployment_dir: away in one rename
DeleteDir ==
    /\ ~deleted
    /\ deleted' = TRUE
    /\ dir' = FALSE /\ files' = Nothing
    /\ UNCHANGED <<call, sent, wire, uploads, zip, staging, podman, starts, faults, cut, history>>

-----------------------------------------------------------------------------
(* The agent's containers.  Requests come in this session or a later one.  *)

\* a request to start, once the upload has succeeded
StartRequest(s) ==
    /\ call = "ok" /\ start[s] = "none"
    /\ start' = [start EXCEPT ![s] = "inspect"]
    /\ UNCHANGED <<hub, wire, uploads, disk, podman, own, cleanup, sweep, stop, faults, cut, history>>

Goto(s, where) == start' = [start EXCEPT ![s] = where]

\* start: the container is left alone, started, or to be installed; no
\* answer from Podman, or no image, is an error
Inspect(s) ==
    /\ start[s] = "inspect"
    /\ \/ main = "running" /\ Goto(s, "ok") /\ UNCHANGED faults
       \/ main = "created" /\ Goto(s, "startmain") /\ UNCHANGED faults
       \/ main = "absent" /\ Goto(s, "install") /\ UNCHANGED faults
       \/ Fault /\ Goto(s, "failed")
    /\ UNCHANGED <<hub, wire, uploads, disk, podman, own, cleanup, sweep, stop, cut, history>>

\* variant: a container of that name is replaced
ReplaceInstall(s) ==
    /\ start[s] = "install"
    /\ inst' = "created" /\ gen' = gen + 1 /\ Goto(s, "boot")
    /\ UNCHANGED <<hub, wire, uploads, disk, main, own, cleanup, sweep, stop, faults, cut, history>>

\* run_command_to_completion: a container of that name is in the way
CreateInstall(s) ==
    /\ start[s] = "install"
    /\ IF inst = "absent"
       THEN inst' = "created" /\ gen' = gen + 1 /\ Goto(s, "boot")
       ELSE Goto(s, "failed") /\ UNCHANGED <<inst, gen>>
    /\ UNCHANGED <<hub, wire, uploads, disk, main, own, cleanup, sweep, stop, faults, cut, history>>

\* whatever has the name is started; an error leaves it, with no cleanup
StartInstall(s) ==
    /\ start[s] = "boot"
    /\ \/ /\ inst # "absent"
          /\ inst' = "running" /\ own' = [own EXCEPT ![s] = gen]
          /\ Goto(s, "wait") /\ UNCHANGED <<faults, forgotten>>
       \/ /\ Goto(s, "failed") /\ UNCHANGED <<inst, own>>
          /\ IF inst = "absent" THEN UNCHANGED <<faults, forgotten>>
             ELSE Fault /\ forgotten' = forgotten \cup {gen}
    /\ UNCHANGED <<hub, wire, uploads, disk, main, gen, cleanup, sweep, stop, cut,
                   swept, spoiled>>

\* the install command ends by itself
InstallExits ==
    /\ inst = "running"
    /\ inst' \in {"ok", "failed"}
    /\ UNCHANGED <<hub, wire, uploads, disk, main, gen, starts, faults, cut, history>>

Mine(s) == inst # "absent" /\ own[s] = gen

\* variant: a failed install returns at once
WaitFailsEarly(s) ==
    /\ start[s] = "wait"
    /\ ~(Mine(s) /\ inst = "running")
    /\ Goto(s, IF Mine(s) /\ inst = "ok" THEN "create" ELSE "failed")
    /\ cleanup' = IF Mine(s) /\ inst = "ok" THEN cleanup \cup {s} ELSE cleanup
    /\ UNCHANGED <<hub, wire, uploads, disk, podman, own, sweep, stop, faults, cut, history>>

\* its exit is awaited and its removal scheduled; one removed meanwhile may
\* have been seen to end or not
Wait(s) ==
    /\ start[s] = "wait"
    /\ ~(Mine(s) /\ inst = "running")
    /\ \/ (Mine(s) => inst = "ok") /\ Goto(s, "create")
       \/ (Mine(s) => inst = "failed") /\ Goto(s, "failed")
    /\ cleanup' = cleanup \cup {s}
    /\ UNCHANGED <<hub, wire, uploads, disk, podman, own, sweep, stop, faults, cut, history>>

\* the install takes too long and is stopped; an error of that is ignored
WaitTimeout(s) ==
    /\ start[s] = "wait"
    /\ \/ /\ inst' = IF inst = "running" THEN "failed" ELSE inst
          /\ UNCHANGED faults
       \/ Fault /\ UNCHANGED inst
    /\ Goto(s, "failed")
    /\ cleanup' = cleanup \cup {s}
    /\ UNCHANGED <<hub, wire, uploads, disk, main, gen, own, sweep, stop, cut, history>>

\* the wait itself fails, whatever the container does
WaitFails(s) ==
    /\ Fault
    /\ start[s] = "wait"
    /\ Goto(s, "failed")
    /\ cleanup' = cleanup \cup {s}
    /\ UNCHANGED <<hub, wire, uploads, disk, podman, own, sweep, stop, cut, history>>

CreateMain(s) ==
    /\ start[s] = "create"
    /\ IF main = "absent" THEN main' = "created" /\ Goto(s, "startmain")
                          ELSE Goto(s, "failed") /\ UNCHANGED main
    /\ UNCHANGED <<hub, wire, uploads, disk, inst, gen, own, cleanup, sweep, stop, faults, cut, history>>

StartMain(s) ==
    /\ start[s] = "startmain"
    /\ \/ main # "absent" /\ main' = "running" /\ Goto(s, "ok") /\ UNCHANGED faults
       \/ main = "absent" /\ Goto(s, "failed") /\ UNCHANGED <<main, faults>>
       \/ main # "absent" /\ Fault /\ Goto(s, "failed") /\ UNCHANGED main
    /\ UNCHANGED <<hub, wire, uploads, disk, inst, gen, own, cleanup, sweep, stop, cut, history>>

\* the end of schedule_cleanup: whatever has the name is removed by force
Cleanup(s) ==
    /\ s \in cleanup
    /\ cleanup' = cleanup \ {s}
    /\ inst' = "absent"
    /\ spoiled' = (spoiled \/ (inst = "running" /\ own[s] # gen))
    /\ UNCHANGED <<hub, wire, uploads, disk, main, gen, start, own, sweep, stop, faults, cut,
                   swept, forgotten>>

\* its error is ignored, and nobody tries again
CleanupFails(s) ==
    /\ Fault
    /\ s \in cleanup
    /\ cleanup' = cleanup \ {s}
    /\ forgotten' = forgotten \cup {own[s]}
    /\ UNCHANGED <<hub, wire, uploads, disk, podman, start, own, sweep, stop, cut,
                   swept, spoiled>>

\* Podman does not create the container
CreateFails(s) ==
    /\ Fault
    /\ start[s] \in {"install", "create"}
    /\ Goto(s, "failed")
    /\ UNCHANGED <<hub, wire, uploads, disk, podman, own, cleanup, sweep, stop, cut, history>>

\* stop_and_remove of the install container, asked for by a reconciliation,
\* and of the deployment's container: stopped, then removed
Sweep ==
    /\ \/ /\ sweep = "none"
          /\ inst' = IF inst = "running" THEN "failed" ELSE inst
          /\ sweep' = IF inst = "absent" THEN "done" ELSE "remove"
          /\ UNCHANGED swept
       \/ sweep = "remove" /\ inst' = "absent" /\ sweep' = "done" /\ swept' = TRUE
    /\ UNCHANGED <<hub, wire, uploads, disk, main, gen, start, own, cleanup, stop, faults, cut,
                   spoiled, forgotten>>

Stop ==
    /\ \/ /\ stop = "none"
          /\ main' = IF main = "running" THEN "created" ELSE main
          /\ stop' = IF main = "absent" THEN "done" ELSE "remove"
       \/ stop = "remove" /\ main' = "absent" /\ stop' = "done"
    /\ UNCHANGED <<hub, wire, uploads, disk, inst, gen, start, own, cleanup, sweep, faults, cut, history>>

\* either request ends with an error of the stop or of the removal
RemovalFails ==
    /\ Fault
    /\ \/ sweep # "done" /\ sweep' = "done" /\ UNCHANGED stop
       \/ stop # "done" /\ stop' = "done" /\ UNCHANGED sweep
    /\ UNCHANGED <<hub, wire, uploads, disk, podman, start, own, cleanup, cut, history>>

-----------------------------------------------------------------------------
(* Faults of the session and the agent *)

\* messages both ways are lost; handlers go on
SessionLost ==
    /\ Fault
    /\ session = "up"
    /\ session' = "lost"
    /\ out' = <<>> /\ cut' = Handlers
    /\ UNCHANGED <<hub, reply, uploads, disk, podman, starts, history>>

\* the agent's tasks end where they are; containers and files stay
Ended(where) == where \in {"none", "ok", "failed"}

AgentRestart ==
    /\ Fault
    /\ session' = "lost" /\ out' = <<>> /\ cut' = Handlers
    /\ entry' = Nobody
    /\ upload' = [u \in Handlers |-> IF upload[u] = "none" THEN "none" ELSE "done"]
    /\ channel' = [u \in Handlers |-> <<>>]
    /\ start' = [s \in Starts |-> IF Ended(start[s]) THEN start[s] ELSE "failed"]
    /\ cleanup' = {}
    /\ sweep' = IF sweep = "none" THEN sweep ELSE "done"
    /\ stop' = IF stop = "none" THEN stop ELSE "done"
    /\ forgotten' = IF inst = "absent" THEN forgotten ELSE forgotten \cup {gen}
    /\ UNCHANGED <<hub, reply, result, disk, podman, own, swept, spoiled>>

-----------------------------------------------------------------------------
Upload(u) ==
    \/ OpenZip(u) \/ ReceiveChunk(u) \/ Unpack(u)
    \/ Place(u) \/ SendAnswer(u) \/ Deregister(u)

Start(s) ==
    \/ Inspect(s) \/ CreateInstall(s) \/ StartInstall(s) \/ Wait(s) \/ WaitTimeout(s)
    \/ CreateMain(s) \/ StartMain(s)

PodmanError(s) == CreateFails(s) \/ WaitFails(s) \/ CleanupFails(s)

Next ==
    \/ MakeDir \/ SendChunk \/ ReadFails \/ UploadReturns
    \/ Route \/ DeleteDir
    \/ \E u \in Handlers : Upload(u)
    \/ \E s \in Starts : StartRequest(s) \/ Start(s) \/ Cleanup(s) \/ PodmanError(s)
    \/ InstallExits \/ Sweep \/ Stop \/ RemovalFails
    \/ SessionLost \/ AgentRestart

Spec == Init /\ [][Next]_vars

\* Tasks that can run do, and timers fire; no request need come, no install
\* command end by itself.
Fairness ==
    /\ WF_vars(MakeDir) /\ WF_vars(SendChunk) /\ WF_vars(UploadReturns) /\ WF_vars(Route)
    /\ \A u \in Handlers : WF_vars(Upload(u))
    /\ \A s \in Starts : WF_vars(Start(s)) /\ WF_vars(Cleanup(s))
    /\ WF_vars(sweep = "remove" /\ Sweep)

FairSpec == Spec /\ Fairness

-----------------------------------------------------------------------------
(* Properties *)

Tasks == {"none", "inspect", "install", "boot", "wait", "create", "startmain", "ok", "failed"}

\* Where every task is, and every channel within its room (main.rs: the
\* channel of an upload; agent_link.rs: the session's).
TypeOK ==
    /\ call \in {"mkdir", "send", "await", "ok", "failed"} /\ sent \in 0..Last
    /\ session \in {"up", "lost"} /\ reply \in {"none", "ok", "failed"}
    /\ Len(out) <= Room /\ \A u \in Handlers : Len(channel[u]) <= Room
    /\ entry \in Handlers \cup {Nobody}
    /\ \A u \in Handlers : upload[u] \in {"none", "open", "receive", "unpack", "place",
                                         "answer", "deregister", "done"}
    /\ main \in {"absent", "created", "running"}
    /\ inst \in {"absent", "created", "running", "ok", "failed"}
    /\ gen \in Nat /\ start \in [Starts -> Tasks] /\ cleanup \subseteq Starts
    /\ faults \in 0..MaxFaults

\* "content is fully in its final location before this returns" (fs_ops.rs:42):
\* the deployment's files are never part of an upload, whatever chunks were
\* lost, late or handled by a second handler, and they are all there when the
\* hub has been told that the upload succeeded, unless it was deleted.
FilesWhole ==
    /\ files \in {Nothing, Whole}
    /\ call = "ok" /\ ~deleted => files = Whole

\* The delayed removal of an install container goes by its name: it takes no
\* other running install, except after a reconciliation has removed the one it
\* was scheduled for.
CleanupSpares == spoiled => swept

\* The hub's upload ends, with an answer, a timeout or the end of the session,
\* and so does every handler of its chunks, except one whose last chunk will
\* not come: its own entry in the table keeps its channel open (main.rs:192).
UploadsEnd ==
    /\ (call = "mkdir") ~> (call \in {"ok", "failed"})
    /\ \A u \in Handlers : (upload[u] = "open") ~> (upload[u] = "done" \/ u \in cut)

\* An install container does not stay: it is removed after its grace period,
\* also when its wait failed or it could not be stopped, except one that failed
\* to start, one that was there when the agent restarted, and one whose one
\* removal failed.
InstallBoxGone == (inst # "absent") ~> (inst = "absent" \/ gen \in forgotten)
=============================================================================
