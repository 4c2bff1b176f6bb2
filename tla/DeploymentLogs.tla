--------------------------- MODULE DeploymentLogs ---------------------------
(***************************************************************************)
(* The logs of one run-mode deployment: the pumps that copy what the agent *)
(* streams into install.log and run.log and broadcast it, the registry     *)
(* that admits one pump at a time, the rotation of run.log, and the log    *)
(* endpoint, which joins what is on disk to what is still to come.         *)
(*                                                                         *)
(* A chunk is a number: the position of a line in the output of the        *)
(* install command or of the container, or Blank for the empty chunk that  *)
(* ends a log stream.  A chunk has some size, chosen when it is written.   *)
(* A session is the one of AgentLink seen from its streams: a stream is    *)
(* open, or cut with what has arrived left to read.                        *)
(***************************************************************************)
EXTENDS Naturals, Sequences, Functions

CONSTANTS Activations, Reconciles, \* tasks that start the container and then pump its log
          Readers,     \* requests of the log endpoint
          InstallLines, MaxLines, \* bounds on what the install and the container print
          TailLines,   \* TAIL_LINES
          RotateAt,    \* RUN_LOG_ROTATE_BYTES
          MaxChunk,    \* size of the largest chunk
          Lag,         \* LOG_BROADCAST_CAPACITY
          Room,        \* room of a stream between the session and its pump
          MaxFaults,   \* bound on lost sessions, containers that stop, errors of disk and Podman
          None

Tasks == Activations \cup Reconciles

ASSUME LogAssumption ==
    /\ Activations \cap Reconciles = {} /\ None \notin Tasks
    /\ {InstallLines, MaxLines, TailLines, MaxFaults} \subseteq Nat
    /\ {RotateAt, MaxChunk, Lag, Room} \subseteq Nat \ {0}

VARIABLES
    \* Podman
    up,       \* the container exists and runs
    first,    \* lines printed before this container was created
    lines,    \* lines printed so far
    \* the agent
    job,      \* job[t]: the handler of t's latest request
    next,     \* next[t]: chunks of it already sent
    \* the session
    session,  \* the agent is connected
    closing,  \* the lost session's link has its maps emptied and still takes requests
    stream,   \* stream[t]: "none", "open", "cut" with its session, or "unanswered"
    wire,     \* wire[t]: what has reached the hub for t
    \* the hub
    pc, stage, \* pc[t], stage[t]: the start request, then the run log
    registry, \* LogRegistry: the task whose pump is registered, or None
    fileOpen, written, \* the file and bytes_written of t's pump
    chunk,    \* chunk[t]: what is being pushed
    active,   \* the deployment was activated
    \* disk
    install, run, old, \* install.log, run.log, run.log.1
    size, oldSize,     \* bytes of run.log and run.log.1
    uncounted, \* history: bytes of run.log that a failed metadata() or write left out of written
    reader,   \* reader[r]: a request of the log endpoint
    faults,
    missed    \* history: since the last reconciliation began, nobody started a run-log pump
              \* (one about to end was registered, a reconciliation failed, nobody answered
              \* a start, its task had given up), or one ended while the container ran

podman == <<up, first, lines>>
agent == <<job, next>>
link == <<session, closing, stream, wire>>
task == <<pc, stage, registry, fileOpen, written, chunk>>
disk == <<install, run, old, size, oldSize, uncounted>>
vars == <<podman, agent, link, task, active, disk, reader, faults, missed>>

Blank == 0
\* results travel the stream behind the chunks
Ok == MaxLines + InstallLines + 1
Failed == Ok + 1
Final == Ok + 2

Init ==
    /\ up = FALSE /\ first = 0 /\ lines = 0
    /\ job = [t \in Tasks |-> "none"] /\ next = [t \in Tasks |-> 0]
    /\ session = TRUE /\ closing = FALSE /\ stream = [t \in Tasks |-> "none"] /\ wire = [t \in Tasks |-> <<>>]
    /\ pc = [t \in Tasks |-> "idle"] /\ stage = [t \in Tasks |-> "start"]
    /\ registry = None /\ fileOpen = [t \in Tasks |-> FALSE]
    /\ written = [t \in Tasks |-> 0] /\ chunk = [t \in Tasks |-> Blank]
    /\ active = FALSE
    /\ install = <<>> /\ run = <<>> /\ old = <<>>
    /\ size = 0 /\ oldSize = 0 /\ uncounted = 0
    /\ reader = [r \in Readers |->
          [pc |-> "idle", kind |-> "run", open |-> FALSE, live |-> FALSE, queue |-> <<>>,
           seen |-> {}, due |-> {}, excused |-> FALSE]]
    /\ faults = 0 /\ missed = FALSE

Fault == faults < MaxFaults /\ faults' = faults + 1
-----------------------------------------------------------------------------
(* The container: it prints, stops and is started again by Podman, and is   *)
(* ended by the stop_and_remove of a redeployment.                          *)
BoxPrints ==
    /\ up /\ lines < MaxLines
    /\ lines' = lines + 1
    /\ UNCHANGED <<up, first, agent, link, task, active, disk, reader, faults, missed>>

\* the logs followed for the tasks ts end
FollowsEnd(ts) == job' = [t \in Tasks |-> IF t \in ts /\ job[t] = "logs" THEN "ending" ELSE job[t]]
Captured(ts) == \E t \in ts : job[t] = "logs" /\ stream[t] = "open"

BoxRemoved ==
    /\ Fault
    /\ up
    /\ up' = FALSE
    /\ FollowsEnd(Tasks)
    /\ UNCHANGED <<first, lines, next, link, task, active, disk, reader, missed>>

BoxRestarts ==
    /\ Fault
    /\ up
    /\ FollowsEnd(Tasks)
    /\ missed' = (missed \/ Captured(Tasks))
    /\ UNCHANGED <<podman, next, link, task, active, disk, reader>>

\* Podman breaks a log off
LogFails(t) ==
    /\ Fault
    /\ job[t] = "logs"
    /\ FollowsEnd({t})
    /\ missed' = (missed \/ Captured({t}))
    /\ UNCHANGED <<podman, next, link, task, active, disk, reader>>

-----------------------------------------------------------------------------
(* The agent.  A handler sends into the session it was started in; once     *)
(* the stream is cut, or ended by the hub, what it sends is dropped and the *)
(* handler goes on.                                                         *)
Send(t, c) ==
    \/ stream[t] = "open" /\ Len(wire[t]) < Room
       /\ wire' = [wire EXCEPT ![t] = Append(@, c)]
    \/ stream[t] # "open" /\ UNCHANGED wire

InstallChunk(t) ==
    /\ job[t] = "install" /\ next[t] < InstallLines
    /\ Send(t, next[t] + 1)
    /\ next' = [next EXCEPT ![t] = @ + 1]
    /\ UNCHANGED <<podman, job, session, closing, stream, task, active, disk, reader, faults, missed>>

\* a container that runs already is left alone; Podman or the install may fail
StartEnds(t, result) ==
    /\ job[t] = "install"
    /\ Send(t, result)
    /\ job' = [job EXCEPT ![t] = "none"]
    /\ IF result = Ok /\ ~up
       THEN up' = TRUE /\ first' = lines
       ELSE UNCHANGED <<up, first>>
    /\ missed' = (missed \/ (result = Ok /\ ~up /\ stream[t] # "open"))
    /\ UNCHANGED <<lines, next, session, closing, stream, task, active, disk, reader, faults>>

\* the last TailLines lines, then each new one
LogChunk(t) ==
    /\ job[t] = "logs" /\ next[t] < lines
    /\ Send(t, next[t] + 1)
    /\ next' = [next EXCEPT ![t] = @ + 1]
    /\ UNCHANGED <<podman, job, session, closing, stream, task, active, disk, reader, faults, missed>>

\* variant: the end of the log is not told
LogEndsSilently(t) ==
    /\ job[t] = "ending"
    /\ job' = [job EXCEPT ![t] = "none"]
    /\ UNCHANGED <<podman, next, link, task, active, disk, reader, faults, missed>>

\* the stream of the container's log ends
LogEnds(t) ==
    /\ job[t] = "ending"
    /\ Send(t, Final)
    /\ job' = [job EXCEPT ![t] = "none"]
    /\ UNCHANGED <<podman, next, session, closing, stream, task, active, disk, reader, faults, missed>>

SessionLost ==
    /\ Fault
    /\ session
    /\ session' = FALSE /\ closing' = TRUE
    /\ stream' = [t \in Tasks |-> IF stream[t] = "open" THEN "cut" ELSE stream[t]]
    /\ UNCHANGED <<podman, agent, wire, task, active, disk, reader, missed>>

\* the last step of fail_all_pending: the outbound sender is dropped
LinkClosed ==
    /\ closing
    /\ closing' = FALSE
    /\ UNCHANGED <<podman, agent, session, stream, wire, task, active, disk, reader, faults,
                   missed>>

\* variant: a connection is not told to the reconciler
ReconnectUnnoticed(t) ==
    /\ ~session
    /\ session' = TRUE
    /\ UNCHANGED <<podman, agent, closing, stream, wire, task, active, disk, reader, faults,
                   missed>>

\* a connection asks for a reconciliation, unless one has been asked for
Reconnect(t) ==
    /\ ~session
    /\ session' = TRUE
    /\ IF \E c \in Reconciles : pc[c] = "queued"
       THEN UNCHANGED pc
       ELSE pc[t] = "idle" /\ pc' = [pc EXCEPT ![t] = "queued"]
    /\ UNCHANGED <<podman, agent, closing, stream, wire, stage, registry, fileOpen, written,
                   chunk, active, disk, reader, faults, missed>>

-----------------------------------------------------------------------------
(* The tasks of the hub: containers::start with the install log of an       *)
(* activation, then the detached run-log pump.                              *)
Begin(t) ==
    /\ t \in Activations /\ pc[t] = "idle"
    /\ pc' = [pc EXCEPT ![t] = "call"]
    /\ UNCHANGED <<podman, agent, link, stage, registry, fileOpen, written, chunk,
                   active, disk, reader, faults, missed>>

\* the reconciler is one task: it takes the next connection when it is done
\* with the last, and starts what is active
Starting(c) == stage[c] = "start" /\ pc[c] \in {"call", "register", "receive", "broadcast"}

Reconcile(t) ==
    /\ t \in Reconciles /\ pc[t] = "queued"
    /\ \A c \in Reconciles : ~Starting(c)
    /\ pc' = [pc EXCEPT ![t] = IF active THEN "call" ELSE "done"]
    /\ missed' = (missed /\ ~active)
    /\ UNCHANGED <<podman, agent, link, stage, registry, fileOpen, written, chunk,
                   active, disk, reader, faults>>

\* the agent takes the request
Requested(t) ==
    IF stage[t] = "start"
    THEN /\ job' = [job EXCEPT ![t] = "install"]
         /\ next' = [next EXCEPT ![t] = 0]
    ELSE /\ job' = [job EXCEPT ![t] = IF up THEN "logs" ELSE "ending"]
         /\ next' = [next EXCEPT ![t] = IF lines - first > TailLines THEN lines - TailLines ELSE first]

\* call_streaming_reply: the stream enters the map, and the request is sent.  On
\* the link of a lost session whose map has been emptied, nobody answers it and
\* nobody closes its stream; an error if there is no session any more.
Call(t) ==
    /\ pc[t] = "call"
    /\ \/ /\ session
          /\ pc' = [pc EXCEPT ![t] = "register"]
          /\ stream' = [stream EXCEPT ![t] = "open"]
          /\ Requested(t)
          /\ UNCHANGED missed
       \/ /\ closing
          /\ pc' = [pc EXCEPT ![t] = "register"]
          /\ stream' = [stream EXCEPT ![t] = "unanswered"]
          /\ missed' = TRUE
          /\ UNCHANGED agent
       \/ /\ ~session
          /\ pc' = [pc EXCEPT ![t] = "done"]
          /\ UNCHANGED <<stream, agent, missed>>
    /\ UNCHANGED <<podman, session, closing, wire, stage, registry, fileOpen, written, chunk,
                   active, disk, reader, faults>>

\* readers that are between their subscription and the end of their backlog
Reading(kind) == {r \in Readers : reader[r].pc \in {"old", "current"} /\ reader[r].kind = kind}
Excuse(rs) == [r \in Readers |-> IF r \in rs THEN [reader[r] EXCEPT !.excused = TRUE] ELSE reader[r]]

\* the run-log pump o will not read on for long
Ending(o) == stage[o] = "start" \/ stream[o] # "open" \/ job[o] # "logs"

EndStream(t) ==
    /\ stream' = [stream EXCEPT ![t] = "none"]
    /\ wire' = [wire EXCEPT ![t] = <<>>]

\* the length of the file as opened: appended to for the run log, else truncated;
\* nothing when metadata() fails
OpenSize(t) ==
    \/ written' = [written EXCEPT ![t] = IF stage[t] = "run" THEN size ELSE 0]
       /\ UNCHANGED <<uncounted, faults>>
    \/ Fault
       /\ stage[t] = "run" /\ written' = [written EXCEPT ![t] = 0] /\ uncounted' = size

\* LogPump::try_new: registered or not, and the file opened, for the run log
\* at its end; a start without a log target has no pump
TryNew(t) ==
    /\ registry = None
    /\ registry' = t
    /\ \/ /\ fileOpen' = [fileOpen EXCEPT ![t] = TRUE]
          /\ OpenSize(t)
          /\ IF stage[t] = "start"
             THEN install' = <<>> /\ reader' = Excuse(Reading("install"))
             ELSE UNCHANGED <<install, reader>>
       \/ /\ Fault
          /\ fileOpen' = [fileOpen EXCEPT ![t] = FALSE]
          /\ written' = [written EXCEPT ![t] = 0]
          /\ UNCHANGED <<install, reader, uncounted>>

Register(t) ==
    /\ pc[t] = "register"
    /\ \/ /\ stage[t] = "start" => t \in Activations
          /\ TryNew(t)
          /\ pc' = [pc EXCEPT ![t] = "receive"]
          /\ UNCHANGED <<link, missed>>
       \/ /\ stage[t] = "start" /\ (t \in Reconciles \/ registry # None)
          /\ pc' = [pc EXCEPT ![t] = "receive"]
          /\ UNCHANGED <<link, registry, fileOpen, written, install, uncounted, reader, faults,
                         missed>>
       \/ /\ stage[t] = "run" /\ registry # None
          /\ pc' = [pc EXCEPT ![t] = "done"]
          /\ missed' = (missed \/ Ending(registry))
          /\ EndStream(t)
          /\ UNCHANGED <<session, closing, registry, fileOpen, written, install, uncounted,
                         reader, faults>>
    /\ UNCHANGED <<podman, agent, stage, chunk, active, run, old, size, oldSize>>

Pumping(t) == registry = t

\* variant: a full file takes one more chunk
RotatesLate(t) == stage[t] = "run" /\ fileOpen[t] /\ written[t] > RotateAt

\* LogPump::push up to the broadcast
Rotates(t) == stage[t] = "run" /\ fileOpen[t] /\ written[t] >= RotateAt
Payload(c) == IF c = Final THEN <<>> ELSE <<c>>

Sizes(c) == IF c = Final THEN {0} ELSE 1..MaxChunk

\* the file is renamed and opened anew, then written to; each may fail, the
\* write with part of the chunk written
Rotate(t, c) ==
    /\ Rotates(t)
    /\ \/ /\ old' = run /\ run' = Payload(c) /\ oldSize' = size
          /\ size' \in Sizes(c)
          /\ written' = [written EXCEPT ![t] = size'] /\ uncounted' = 0
          /\ reader' = Excuse(Reading("run"))
          /\ UNCHANGED <<fileOpen, faults>>
       \/ /\ Fault
          /\ old' = run /\ run' = <<>> /\ oldSize' = size
          /\ \/ fileOpen' = [fileOpen EXCEPT ![t] = FALSE] /\ size' = 0
             \/ UNCHANGED fileOpen /\ size' \in 0..MaxChunk - 1
          /\ written' = [written EXCEPT ![t] = 0] /\ uncounted' = size'
          /\ reader' = Excuse(Reading("run"))
       \/ /\ Fault
          /\ fileOpen' = [fileOpen EXCEPT ![t] = FALSE]
          /\ written' = [written EXCEPT ![t] = 0]
          /\ UNCHANGED <<run, old, size, oldSize, uncounted, reader>>
    /\ UNCHANGED install

\* (what is written to install.log is counted too, and nothing looks at it)
Write(t, c) ==
    /\ ~Rotates(t) /\ fileOpen[t]
    /\ \/ /\ stage[t] = "run"
          /\ run' = run \o Payload(c)
          /\ \E n \in Sizes(c) : size' = size + n /\ written' = [written EXCEPT ![t] = @ + n]
          /\ UNCHANGED install
       \/ /\ stage[t] = "start"
          /\ install' = install \o Payload(c)
          /\ UNCHANGED <<run, size, written>>
    /\ UNCHANGED <<fileOpen, old, oldSize, uncounted, reader, faults>>

\* not persisted, which a watching client does not notice; a write that fails
\* may leave a part that is not counted
Skip(t) ==
    /\ ~Rotates(t)
    /\ IF ~fileOpen[t] THEN UNCHANGED <<size, uncounted, faults>>
       ELSE /\ Fault
            /\ \E n \in IF stage[t] = "run" THEN 0..MaxChunk - 1 ELSE {0} :
                  size' = size + n /\ uncounted' = uncounted + n
    /\ UNCHANGED <<fileOpen, written, install, run, old, oldSize, reader>>

Push(t, c) ==
    /\ Rotate(t, c) \/ Write(t, c) \/ Skip(t)
    /\ chunk' = [chunk EXCEPT ![t] = c]
    /\ pc' = [pc EXCEPT ![t] = "broadcast"]

Receive(t) ==
    /\ pc[t] = "receive" /\ wire[t] # <<>> /\ Head(wire[t]) \notin {Ok, Failed}
    /\ wire' = [wire EXCEPT ![t] = Tail(@)]
    /\ IF Pumping(t)
       THEN Push(t, Head(wire[t]))
       ELSE UNCHANGED <<pc, chunk, fileOpen, written, disk, reader, faults>>
    /\ UNCHANGED <<podman, agent, session, closing, stream, stage, registry, active, missed>>

\* the broadcast: a receiver that is Lag chunks behind loses the oldest
Deliver(q, c) == IF Len(q) < Lag THEN Append(q, c) ELSE Append(Tail(q), c)
Broadcast(c) ==
    [r \in Readers |->
        IF ~reader[r].open THEN reader[r]
        ELSE [reader[r] EXCEPT !.queue = Deliver(@, c),
                               !.due = @ \cup Range(Payload(c)),
                               !.excused = @ \/ Len(reader[r].queue) = Lag]]

\* dropping the pump deregisters it and closes its channel
DropPump(t, rs) ==
    IF Pumping(t)
    THEN registry' = None /\ reader' = [r \in Readers |-> [rs[r] EXCEPT !.open = FALSE]]
    ELSE UNCHANGED registry /\ reader' = rs

SendChunk(t) ==
    /\ pc[t] = "broadcast"
    /\ IF chunk[t] = Final
       THEN /\ DropPump(t, Broadcast(chunk[t]))
            /\ EndStream(t)
            /\ pc' = [pc EXCEPT ![t] = "done"]
       ELSE /\ reader' = Broadcast(chunk[t])
            /\ pc' = [pc EXCEPT ![t] = "receive"]
            /\ UNCHANGED <<registry, stream, wire>>
    /\ UNCHANGED <<podman, agent, session, closing, stage, fileOpen, written, chunk,
                   active, disk, faults, missed>>

\* drain_command_output has its result, or either stream was cut; after a
\* start that succeeded the run-log pump is spawned
StreamOver(t) ==
    /\ pc[t] = "receive"
    /\ LET result == IF wire[t] # <<>> THEN Head(wire[t]) ELSE Failed IN
       /\ wire[t] = <<>> => stream[t] = "cut"
       /\ result \in {Ok, Failed}
       /\ IF result = Ok
          THEN /\ pc' = [pc EXCEPT ![t] = "call"]
               /\ stage' = [stage EXCEPT ![t] = "run"]
               /\ active' = TRUE
          ELSE pc' = [pc EXCEPT ![t] = "done"] /\ UNCHANGED <<stage, active>>
    /\ EndStream(t)
    /\ DropPump(t, reader)
    /\ missed' = (missed \/ (stage[t] = "start" /\ t \in Reconciles
                               /\ wire[t] # <<>> /\ Head(wire[t]) = Failed))
    /\ UNCHANGED <<podman, agent, session, closing, fileOpen, written, chunk, disk, faults>>

-----------------------------------------------------------------------------
(* The log endpoint.  The phase is the one asked for, or the one being      *)
(* pumped, or the furthest on disk: any.                                    *)
Kind(t) == IF stage[t] = "start" THEN "install" ELSE "run"
OnDisk(kind) == Range(IF kind = "run" THEN old \o run ELSE install)

\* LogRegistry::active subscribes under the lock
Attach(r, kind, follow) ==
    /\ reader[r].pc = "idle"
    /\ reader' = [reader EXCEPT ![r] =
          [@ EXCEPT !.pc = IF kind = "run" THEN "old" ELSE "current",
                    !.kind = kind,
                    !.open = follow /\ registry # None /\ Kind(registry) = kind,
                    !.live = follow /\ registry # None /\ Kind(registry) = kind,
                    !.due = OnDisk(kind)]]
    /\ UNCHANGED <<podman, agent, link, task, active, disk, faults, missed>>

\* read_backlog: the rotated file first
ReadOld(r) ==
    /\ reader[r].pc = "old"
    /\ reader' = [reader EXCEPT ![r] =
          [@ EXCEPT !.pc = "current", !.seen = reader[r].seen \cup Range(old)]]
    /\ UNCHANGED <<podman, agent, link, task, active, disk, faults, missed>>

\* variant: what was broadcast while it read is dropped
ReadThenSubscribe(r) ==
    /\ reader[r].pc = "current"
    /\ reader' = [reader EXCEPT ![r] =
          [@ EXCEPT !.pc = IF reader[r].live THEN "live" ELSE "done", !.queue = <<>>,
                    !.seen = reader[r].seen
                             \cup Range(IF reader[r].kind = "run" THEN run ELSE install)]]
    /\ UNCHANGED <<podman, agent, link, task, active, disk, faults, missed>>

\* read_backlog: the file being written, and on to the live tail
ReadCurrent(r) ==
    /\ reader[r].pc = "current"
    /\ reader' = [reader EXCEPT ![r] =
          [@ EXCEPT !.pc = IF reader[r].live THEN "live" ELSE "done",
                    !.seen = reader[r].seen
                             \cup Range(IF reader[r].kind = "run" THEN run ELSE install)]]
    /\ UNCHANGED <<podman, agent, link, task, active, disk, faults, missed>>

\* live_tail
TailNext(r) ==
    /\ reader[r].pc = "live"
    /\ IF reader[r].queue # <<>>
       THEN reader' = [reader EXCEPT ![r] =
              [@ EXCEPT !.queue = Tail(reader[r].queue),
                        !.seen = reader[r].seen \cup Range(Payload(Head(reader[r].queue)))]]
       ELSE /\ ~reader[r].open
            /\ reader' = [reader EXCEPT ![r].pc = "done"]
    /\ UNCHANGED <<podman, agent, link, task, active, disk, faults, missed>>

-----------------------------------------------------------------------------
AgentStep(t) ==
    \/ InstallChunk(t) \/ StartEnds(t, Ok) \/ StartEnds(t, Failed)
    \/ LogChunk(t) \/ LogEnds(t)

HubStep(t) == Reconcile(t) \/ Call(t) \/ Register(t) \/ Receive(t) \/ SendChunk(t) \/ StreamOver(t)

ReadStep(r) == ReadOld(r) \/ ReadCurrent(r) \/ TailNext(r)

Next ==
    \/ BoxPrints \/ BoxRemoved \/ BoxRestarts \/ SessionLost \/ LinkClosed
    \/ \E t \in Tasks : AgentStep(t) \/ LogFails(t) \/ Begin(t) \/ HubStep(t)
    \/ \E t \in Reconciles : Reconnect(t)
    \/ \E r \in Readers :
          \/ \E kind \in {"install", "run"}, follow \in BOOLEAN : Attach(r, kind, follow)
          \/ ReadStep(r)

Spec == Init /\ [][Next]_vars

(* Tasks, handlers and clients that read on run; the agent dials again.     *)
(* A container need not print and nobody need ask for a deployment.         *)
Fairness ==
    /\ WF_vars(LinkClosed \/ \E t \in Tasks : AgentStep(t) \/ HubStep(t))
    /\ WF_vars(\E t \in Reconciles : Reconnect(t))
    /\ WF_vars(\E r \in Readers : ReadStep(r))

FairSpec == Spec /\ Fairness

-----------------------------------------------------------------------------
(* The run log stays bounded and keeps what it promises.  The limit is      *)
(* tested before a chunk of any size is written, so run.log outgrows it by  *)
(* less than one chunk, however many pumps wrote it one after the other,    *)
(* and by what errors of the disk left uncounted: bytes that were there     *)
(* when its length could not be read, and parts of failed writes.  And      *)
(* run.log.1 is a full file, so that a rotation never leaves less than one  *)
(* file's worth of output.                                                  *)
RunLogBounded ==
    /\ size < RotateAt + MaxChunk + uncounted
    /\ oldSize = 0 \/ oldSize >= RotateAt

(* "The caller never misses a pump's final bytes to a race with it          *)
(* finishing" and "the backlog already covers everything up to subscribe    *)
(* time": a reader whose response has ended has got everything that was on  *)
(* disk when it came and, following a pump, everything pushed since, unless *)
(* it lagged or the files were rotated or truncated while it read them.     *)
ReadersMissNothing ==
    \A r \in Readers :
        reader[r].pc = "done" /\ ~reader[r].excused => reader[r].due \subseteq reader[r].seen

(* the pump of t has more to come, or waits for an answer that nobody gives *)
Followed(t) ==
    \/ stream[t] = "open" /\ job[t] \in {"install", "logs"}
    \/ stream[t] = "unanswered"

(* A client that follows a log is let go once there is nothing to follow:   *)
(* the response ends when the command has ended, the container has stopped  *)
(* or is gone, Podman broke its log off or the session is lost.  Left out   *)
(* is a pump whose call entered the map of a lost session after it was      *)
(* emptied (agent_link.rs:93-97): it holds its followers for ever.          *)
FollowersEnd ==
    \A r \in Readers :
        reader[r].pc = "live" ~>
            \/ reader[r].pc = "done"
            \/ reader[r].open /\ \E t \in Tasks : Pumping(t) /\ Followed(t)

(* The log of an active deployment is pumped again after every interruption *)
(* while its container runs.  Left out (missed) is what lasts until the     *)
(* next reconciliation: the pump of before had not ended yet when the new   *)
(* one asked to be registered, the reconciliation failed to start the       *)
(* container, nobody answered a start, the agent started the container for  *)
(* a task that had already lost its session, or the log ended though the    *)
(* container runs: it had stopped and was started again by Podman, or       *)
(* Podman broke the log off.                                                *)
CaptureResumes ==
    <>[](active /\ up /\ session /\ ~missed) =>
        <>[](\E t \in Tasks : Pumping(t) /\ stage[t] = "run" /\ pc[t] \in {"receive", "broadcast"})
=============================================================================
