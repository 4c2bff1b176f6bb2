----------------------------- MODULE GitBuilds ------------------------------
(***************************************************************************)
(* Deployments built from git: execute_git_deployment on the hub clones on *)
(* a blocking thread, then has the agent run the build command in a        *)
(* container that mounts the checkout (run_command_to_completion), with    *)
(* its output streamed back.                                               *)
(*                                                                         *)
(* Three things outlive the task that started them: the clone thread, the  *)
(* agent's command and the container.  The rows are not modelled here (see *)
(* HubStorage).  A lost session closes the stream of every build under way, *)
(* but not of one whose call enters the map of the lost link too late.     *)
(***************************************************************************)
EXTENDS Naturals, Sequences, FiniteSets

CONSTANTS Deps,      \* deployments, each with a task of its own
          Builds,    \* those with a build command (GitDeployMode::Build)
          Permits,   \* MAX_CONCURRENT_GIT_FETCHES
          MaxOutput, \* bound on the chunks a command writes
          TailLines, \* TAIL_LINES: a log begins with the last ones; a chunk is a line
          MaxFaults  \* bound on lost sessions, agent restarts and Podman errors

ASSUME BuildAssumption ==
    /\ Builds \subseteq Deps
    /\ Permits \in Nat \ {0} /\ MaxOutput \in Nat /\ TailLines \in Nat \ {0} /\ MaxFaults \in Nat

VARIABLES
    \* the hub
    pc,        \* pc[d]: where the task is
    thread,    \* thread[d]: the blocking clone
    interrupt, \* clones asked to stop
    permits,   \* permits left in the semaphore
    staging,   \* deployments with a staging directory
    logging,   \* deployments registered in the LogRegistry, by clone or build
    file,      \* file[d]: chunks in build.log
    \* the session
    up, closed, \* closed: builds whose session is gone
    ending,    \* the lost session's link has its maps emptied and still takes requests
    wire,      \* wire[d]: replies under way to the task, chunks then a result
    \* the agent
    cmd,       \* cmd[d]: run_command_to_completion and the final result
    cleanup,   \* containers schedule_cleanup will remove
    pump,      \* pump[d]: forward_logs and the forwarder behind it
    skipped,   \* skipped[d]: chunks already older than the tail when the log was opened
    sent,      \* sent[d]: how far the log has been forwarded, skipped chunks included
    broken,    \* logs that Podman broke off
    \* Podman
    box,       \* box[d]: the build container
    written,   \* written[d]: chunks it has written
    faults,
    abandoned  \* containers nobody will remove: a restart forgot the removal, or it failed

hub == <<pc, thread, interrupt, permits, staging, logging, file>>
session == <<up, closed, ending, wire>>
log == <<pump, skipped, sent, broken>>
agent == <<cmd, cleanup, log>>
podman == <<box, written>>
vars == <<hub, session, agent, podman, faults, abandoned>>

Ok == "ok"
Failed == "failed"
Log == "log"

Init ==
    /\ pc = [d \in Deps |-> "permit"] /\ thread = [d \in Deps |-> "none"]
    /\ interrupt = {} /\ permits = Permits /\ staging = {} /\ logging = {}
    /\ file = [d \in Deps |-> 0]
    /\ up = TRUE /\ closed = {} /\ ending = FALSE /\ wire = [d \in Deps |-> <<>>]
    /\ cmd = [d \in Deps |-> "none"] /\ cleanup = {}
    /\ pump = [d \in Deps |-> "none"] /\ sent = [d \in Deps |-> 0]
    /\ skipped = [d \in Deps |-> 0] /\ broken = {}
    /\ box = [d \in Deps |-> "absent"] /\ written = [d \in Deps |-> 0]
    /\ faults = 0 /\ abandoned = {}

Fault == faults < MaxFaults /\ faults' = faults + 1

Goto(d, l) == pc' = [pc EXCEPT ![d] = l]

-----------------------------------------------------------------------------
(* Clone *)

\* variant: a clone does not wait for its permit
StartCloneAnyway(d) ==
    /\ pc[d] = "permit"
    /\ permits' = IF permits > 0 THEN permits - 1 ELSE 0
    /\ thread' = [thread EXCEPT ![d] = "running"]
    /\ staging' = staging \cup {d}
    /\ logging' = logging \cup {d}
    /\ Goto(d, "cloning")
    /\ UNCHANGED <<interrupt, file, session, agent, podman, faults, abandoned>>

\* acquire_git_fetch_permit, spawn_blocking
StartClone(d) ==
    /\ pc[d] = "permit"
    /\ permits > 0
    /\ permits' = permits - 1
    /\ thread' = [thread EXCEPT ![d] = "running"]
    /\ staging' = staging \cup {d}
    /\ logging' = logging \cup {d}
    /\ Goto(d, "cloning")
    /\ UNCHANGED <<interrupt, file, session, agent, podman, faults, abandoned>>

\* clone_shallow returns, done, failed or interrupted: the thread drops its
\* permit and its log sink
ThreadEnds(d) ==
    /\ thread[d] = "running"
    /\ \E r \in {Ok, Failed} : thread' = [thread EXCEPT ![d] = r]
    /\ permits' = permits + 1
    /\ logging' = logging \ {d}
    /\ UNCHANGED <<pc, interrupt, staging, file, session, agent, podman, faults, abandoned>>

\* the timeout asks the thread to stop and waits for it
CloneTimeout(d) ==
    /\ pc[d] = "cloning"
    /\ thread[d] = "running"
    /\ interrupt' = interrupt \cup {d}
    /\ Goto(d, "joining")
    /\ UNCHANGED <<thread, permits, staging, logging, file, session, agent, podman, faults, abandoned>>

\* every error path removes the staging directory
GiveUp(d) == Goto(d, "failed") /\ staging' = staging \ {d}

CloneFails(d) ==
    /\ \/ pc[d] = "cloning" /\ thread[d] = Failed
       \/ pc[d] = "joining" /\ thread[d] # "running"
    /\ GiveUp(d)
    /\ UNCHANGED <<thread, interrupt, permits, logging, file, session, agent, podman, faults, abandoned>>

\* without a build command the checkout is finished at once:
\* finish_git_deployment moves it
FinishClone(d) ==
    /\ pc[d] = "cloning"
    /\ thread[d] = Ok
    /\ d \notin Builds
    /\ Goto(d, "built")
    /\ staging' = staging \ {d}
    /\ UNCHANGED <<thread, interrupt, permits, logging, file, session, agent, podman, faults, abandoned>>

-----------------------------------------------------------------------------
(* The build command, as the hub sees it *)

\* run_build_command: without a session the call fails at once; on the link
\* of a session that is ending it is sent and nobody answers or closes it
StartBuild(d) ==
    /\ pc[d] = "cloning"
    /\ thread[d] = Ok
    /\ d \in Builds
    /\ \/ /\ up
          /\ Goto(d, "draining")
          /\ logging' = logging \cup {d}
          /\ cmd' = [cmd EXCEPT ![d] = "create"]
          /\ UNCHANGED staging
       \/ /\ ~up
          /\ GiveUp(d)
          /\ UNCHANGED <<logging, cmd>>
       \/ /\ ending
          /\ Goto(d, "draining")
          /\ logging' = logging \cup {d}
          /\ UNCHANGED <<staging, cmd>>
    /\ UNCHANGED <<thread, interrupt, permits, file, session, cleanup, log, podman, faults, abandoned>>

\* drain_command_output: a log chunk goes to the pump
DrainLog(d) ==
    /\ pc[d] = "draining"
    /\ wire[d] # <<>> /\ Head(wire[d]) = Log
    /\ file' = [file EXCEPT ![d] = @ + 1]
    /\ wire' = [wire EXCEPT ![d] = Tail(@)]
    /\ UNCHANGED <<pc, thread, interrupt, permits, staging, logging, up, closed, ending, agent, podman, faults, abandoned>>

\* the result, or the closed stream; finish_git_deployment moves the checkout
DrainEnd(d) ==
    /\ pc[d] = "draining"
    /\ \/ /\ wire[d] # <<>> /\ Head(wire[d]) # Log
          /\ \/ Head(wire[d]) = Ok /\ Goto(d, "built") /\ staging' = staging \ {d}
             \/ Head(wire[d]) = Failed /\ GiveUp(d)
       \/ /\ wire[d] = <<>> /\ d \in closed
          /\ GiveUp(d)
    /\ logging' = logging \ {d}
    /\ wire' = [wire EXCEPT ![d] = <<>>]
    /\ UNCHANGED <<thread, interrupt, permits, file, up, closed, ending, agent, podman, faults, abandoned>>

-----------------------------------------------------------------------------
(* The build command on the agent *)

\* send: an error (the session is gone) is ignored
Reply(d, m) ==
    /\ wire' = IF d \in closed THEN wire ELSE [wire EXCEPT ![d] = Append(@, m)]
    /\ UNCHANGED <<up, closed, ending>>

Cmd(d, l) == cmd' = [cmd EXCEPT ![d] = l]

\* create and start the container, with forward_logs behind it
CreateBox(d) ==
    /\ cmd[d] = "create"
    /\ box[d] = "absent"
    /\ box' = [box EXCEPT ![d] = "running"]
    /\ pump' = [pump EXCEPT ![d] = "opening"]
    /\ Cmd(d, "wait")
    /\ UNCHANGED <<hub, session, cleanup, skipped, sent, broken, written, faults, abandoned>>

\* no image, or Podman does not create the container, or it creates it and
\* does not start it: no removal is scheduled
CreateFails(d) ==
    /\ Fault
    /\ cmd[d] = "create"
    /\ \/ UNCHANGED box
       \/ box[d] = "absent" /\ box' = [box EXCEPT ![d] = "created"]
    /\ Cmd(d, "done")
    /\ Reply(d, Failed)
    /\ UNCHANGED <<hub, cleanup, log, written, abandoned>>

\* wait_container reports the exit
WaitEnds(d) ==
    /\ cmd[d] = "wait"
    /\ box[d] \in {Ok, Failed}
    /\ Cmd(d, IF box[d] = Ok THEN "join_ok" ELSE "join_failed")
    /\ UNCHANGED <<hub, session, cleanup, log, podman, faults, abandoned>>

\* the command's timeout stops the container; an error of that is ignored
WaitTimeout(d) ==
    /\ cmd[d] = "wait"
    /\ Cmd(d, "join_failed")
    /\ \/ box' = [box EXCEPT ![d] = IF @ = "running" THEN Failed ELSE @] /\ UNCHANGED faults
       \/ Fault /\ UNCHANGED box
    /\ UNCHANGED <<hub, session, cleanup, log, written, abandoned>>

\* wait_container itself fails, the container runs on
WaitFails(d) ==
    /\ Fault
    /\ cmd[d] = "wait"
    /\ Cmd(d, "join_failed")
    /\ UNCHANGED <<hub, session, cleanup, log, podman, abandoned>>

Joining == {"join_ok", "join_failed"}

\* the pump is waited for a while (PUMP_JOIN_TIMEOUT); then schedule_cleanup
JoinPump(d) ==
    /\ cmd[d] \in Joining
    /\ cleanup' = cleanup \cup {d}
    /\ Cmd(d, IF cmd[d] = "join_ok" THEN "final_ok" ELSE "final_failed")
    /\ UNCHANGED <<hub, session, log, podman, faults, abandoned>>

\* stream_command: the forwarder is awaited without a limit, then the result
SendFinal(d) ==
    /\ cmd[d] \in {"final_ok", "final_failed"}
    /\ pump[d] = "ended"
    /\ Reply(d, IF cmd[d] = "final_ok" THEN Ok ELSE Failed)
    /\ Cmd(d, "done")
    /\ UNCHANGED <<hub, cleanup, log, podman, faults, abandoned>>

\* Podman takes the log request of forward_logs: from the last TailLines on
OpenLog(d) ==
    /\ pump[d] = "opening"
    /\ box[d] # "absent"
    /\ LET first == IF written[d] > TailLines THEN written[d] - TailLines ELSE 0 IN
         /\ skipped' = [skipped EXCEPT ![d] = first]
         /\ sent' = [sent EXCEPT ![d] = first]
    /\ pump' = [pump EXCEPT ![d] = "reading"]
    /\ UNCHANGED <<hub, session, cmd, cleanup, broken, podman, faults, abandoned>>

\* variant: one chunk too many
ForwardLogAgain(d) ==
    /\ pump[d] = "reading"
    /\ sent[d] <= written[d]
    /\ Reply(d, Log)
    /\ sent' = [sent EXCEPT ![d] = @ + 1]
    /\ pump' = IF d \in closed THEN [pump EXCEPT ![d] = "ended"] ELSE pump
    /\ UNCHANGED <<hub, cmd, cleanup, skipped, broken, podman, faults, abandoned>>

\* forward_logs and the forwarder: a chunk of the container's output
ForwardLog(d) ==
    /\ pump[d] = "reading"
    /\ sent[d] < written[d]
    /\ Reply(d, Log)
    /\ sent' = [sent EXCEPT ![d] = @ + 1]
    /\ pump' = IF d \in closed THEN [pump EXCEPT ![d] = "ended"] ELSE pump
    /\ UNCHANGED <<hub, cmd, cleanup, skipped, broken, podman, faults, abandoned>>

\* variant: the end of the container ends the log
LogEndsAbruptly(d) ==
    /\ pump[d] = "reading"
    /\ box[d] # "running"
    /\ pump' = [pump EXCEPT ![d] = "ended"]
    /\ UNCHANGED <<hub, session, cmd, cleanup, skipped, sent, broken, podman, faults, abandoned>>

\* a followed log ends when the container has stopped and all is read, or when
\* the container is removed
LogEnds(d) ==
    /\ \/ pump[d] \in {"opening", "reading"} /\ box[d] = "absent"
       \/ pump[d] = "reading" /\ box[d] # "running" /\ sent[d] = written[d]
    /\ pump' = [pump EXCEPT ![d] = "ended"]
    /\ UNCHANGED <<hub, session, cmd, cleanup, skipped, sent, broken, podman, faults, abandoned>>

\* forward_logs stops at an error of the stream, whatever the container does
LogBreaks(d) ==
    /\ Fault
    /\ pump[d] \in {"opening", "reading"}
    /\ pump' = [pump EXCEPT ![d] = "ended"]
    /\ broken' = broken \cup {d}
    /\ UNCHANGED <<hub, session, cmd, cleanup, skipped, sent, podman, abandoned>>

\* variant: remove_container without force
CleanupUnforced(d) ==
    /\ d \in cleanup
    /\ cleanup' = cleanup \ {d}
    /\ box' = [box EXCEPT ![d] = IF @ = "running" THEN @ ELSE "absent"]
    /\ UNCHANGED <<hub, session, cmd, log, written, faults, abandoned>>

\* schedule_cleanup, after its grace period: a forced removal
Cleanup(d) ==
    /\ d \in cleanup
    /\ cleanup' = cleanup \ {d}
    /\ box' = [box EXCEPT ![d] = "absent"]
    /\ UNCHANGED <<hub, session, cmd, log, written, faults, abandoned>>

\* its error is ignored, and nobody tries again
CleanupFails(d) ==
    /\ Fault
    /\ d \in cleanup
    /\ cleanup' = cleanup \ {d}
    /\ abandoned' = abandoned \cup {d}
    /\ UNCHANGED <<hub, session, cmd, log, podman>>

-----------------------------------------------------------------------------
(* Podman, the session and the agent's process *)

BoxWrites(d) ==
    /\ box[d] = "running"
    /\ written[d] < MaxOutput
    /\ written' = [written EXCEPT ![d] = @ + 1]
    /\ UNCHANGED <<hub, session, agent, box, faults, abandoned>>

BoxExits(d) ==
    /\ box[d] = "running"
    /\ \E r \in {Ok, Failed} : box' = [box EXCEPT ![d] = r]
    /\ UNCHANGED <<hub, session, agent, written, faults, abandoned>>

Building == {d \in Deps : pc[d] = "draining"}

\* replies that have arrived stay in their channels
Lose ==
    /\ up' = FALSE
    /\ ending' = TRUE
    /\ closed' = closed \cup Building
    /\ \E arrived \in [Deps -> 0..(MaxOutput + 1)] :
          /\ \A d \in Deps : arrived[d] <= Len(wire[d]) /\ (d \notin Building => arrived[d] = Len(wire[d]))
          /\ wire' = [d \in Deps |-> SubSeq(wire[d], 1, arrived[d])]

SessionLost ==
    /\ Fault
    /\ up
    /\ Lose
    /\ UNCHANGED <<hub, agent, podman, abandoned>>

\* the agent's tasks end with it, their containers do not
AgentRestart ==
    /\ Fault
    /\ up
    /\ Lose
    /\ abandoned' = abandoned \cup {d \in Deps : box[d] # "absent"}
    /\ cmd' = [d \in Deps |-> IF cmd[d] = "none" THEN "none" ELSE "done"]
    /\ cleanup' = {}
    /\ pump' = [d \in Deps |-> IF pump[d] = "none" THEN "none" ELSE "ended"]
    /\ UNCHANGED <<hub, skipped, sent, broken, podman>>

Reconnect ==
    /\ ~up
    /\ up' = TRUE
    /\ UNCHANGED <<hub, closed, ending, wire, agent, podman, faults, abandoned>>

\* the last step of fail_all_pending: the outbound sender is dropped
LinkClosed ==
    /\ ending
    /\ ending' = FALSE
    /\ UNCHANGED <<hub, up, closed, wire, agent, podman, faults, abandoned>>

-----------------------------------------------------------------------------
HubStep(d) ==
    \/ StartClone(d) \/ CloneTimeout(d) \/ CloneFails(d) \/ FinishClone(d)
    \/ StartBuild(d) \/ DrainLog(d) \/ DrainEnd(d)

AgentStep(d) ==
    \/ CreateBox(d) \/ WaitEnds(d) \/ JoinPump(d) \/ SendFinal(d)
    \/ OpenLog(d) \/ ForwardLog(d) \/ LogEnds(d) \/ Cleanup(d)

PodmanError(d) ==
    CreateFails(d) \/ WaitFails(d) \/ LogBreaks(d) \/ CleanupFails(d)

Next ==
    \/ \E d \in Deps :
          \/ HubStep(d) \/ ThreadEnds(d)
          \/ AgentStep(d) \/ WaitTimeout(d) \/ PodmanError(d)
          \/ BoxWrites(d) \/ BoxExits(d)
    \/ SessionLost \/ AgentRestart \/ Reconnect \/ LinkClosed

Spec == Init /\ [][Next]_vars

(* Tasks run, timers fire, and an interrupted clone notices.  Nothing is    *)
(* assumed of the network a clone waits for or of the command: a build may  *)
(* run, and write, for ever.  One condition for all is enough: every step   *)
(* uses up something, and the steps left out are bounded.                   *)
Progress ==
    \/ LinkClosed
    \/ \E d \in Deps :
          \/ HubStep(d) \/ AgentStep(d)
          \/ (d \in interrupt /\ ThreadEnds(d))
          \/ (cmd[d] = "wait" /\ WaitTimeout(d))

FairSpec == Spec /\ WF_vars(Progress)

-----------------------------------------------------------------------------
(* Type invariant.                                                          *)
TypeOK ==
    /\ permits \in 0..Permits
    /\ \A d \in Deps :
          /\ pc[d] \in {"permit", "cloning", "joining", "draining", "built", "failed"}
          /\ thread[d] \in {"none", "running", Ok, Failed}
          /\ box[d] \in {"absent", "created", "running", Ok, Failed}
          /\ pump[d] \in {"none", "opening", "reading", "ended"}
          /\ skipped[d] + file[d] \in 0..sent[d] /\ sent[d] \in 0..written[d]

(* Clones under way never exceed the permits, timed-out ones that have not  *)
(* noticed yet included: each thread holds its permit until it exits.       *)
FetchesBounded == Cardinality({d \in Deps : thread[d] = "running"}) <= Permits

(* A staging directory is not removed under something that works in it: not *)
(* under a clone that timed out, and not under a build container, also when *)
(* Podman could not stop it.  The hub gives up on a container that still    *)
(* runs in two cases: its session was lost, or the command failed (its wait *)
(* or its stop did) and its log, which the result waits for, broke off too. *)
StagingInUse ==
    \A d \in Deps :
        /\ thread[d] = "running" => d \in staging
        /\ box[d] = "running" /\ d \notin closed =>
              d \in staging \/ (d \in broken /\ pc[d] = "failed")

(* The clones under way: no more than the permits, each with its directory. *)
FetchesContained == FetchesBounded /\ StagingInUse

(* When the task has its result, every line of the log is in build.log, from *)
(* the tail that Podman began with to the last line the command has written, *)
(* however far the log lags behind the exit: "the caller's final result      *)
(* always follows every chunk of output that led up to it".  Not so if       *)
(* Podman broke the log off, or the cleanup removed the container before all *)
(* was read; the result is the same then.                                    *)
LogComplete ==
    \A d \in Deps : pc[d] = "built" =>
        /\ skipped[d] + file[d] = sent[d]
        /\ sent[d] = written[d] \/ box[d] = "absent" \/ d \in broken

(* a call on the link of an ending session, which nobody answers            *)
Unanswered(d) == pc[d] = "draining" /\ cmd[d] = "none"

(* Every deployment task ends, with a command that never does and Podman    *)
(* refusing to stop it too: the forced cleanup ends the log the result      *)
(* waits for.  Left out are a call that entered the map of a lost session   *)
(* after it was emptied, and a container that goes on writing because its   *)
(* removal failed as well.                                                  *)
TasksEnd ==
    \A d \in Deps :
        <>(\/ pc[d] \in {"built", "failed"} \/ Unanswered(d)
           \/ box[d] = "running" /\ d \in abandoned \ closed)

(* A build container that has started is removed in the end, whoever has    *)
(* given up on it, unless the agent restarted or the one removal failed.    *)
(* One that was created and not started stays (CreateFails).                *)
BoxesRemoved ==
    \A d \in Deps :
        box[d] \in {"running", Ok, Failed} ~> box[d] = "absent" \/ d \in abandoned

(* Tasks and their containers both come to an end.                          *)
BuildsEnd == TasksEnd /\ BoxesRemoved
=============================================================================
