-------------------------- MODULE GitBuildsProofs ---------------------------
(***************************************************************************)
(* Proofs about GitBuilds: for any deployments, permits, output and        *)
(* faults, the clones under way hold the permits that are taken, nothing   *)
(* loses its staging directory while it works in it, and a build log is    *)
(* complete when its result arrives.                                       *)
(***************************************************************************)
EXTENDS GitBuilds, FiniteSetTheorems, TLAPS

Messages == {Log, Ok, Failed}
Commands == {"none", "create", "wait", "join_ok", "join_failed", "final_ok", "final_failed", "done"}

BuildTypes ==
    /\ pc \in [Deps -> {"permit", "cloning", "joining", "draining", "built", "failed"}]
    /\ thread \in [Deps -> {"none", "running", Ok, Failed}]
    /\ box \in [Deps -> {"absent", "created", "running", Ok, Failed}]
    /\ pump \in [Deps -> {"none", "opening", "reading", "ended"}]
    /\ cmd \in [Deps -> Commands]
    /\ file \in [Deps -> Nat] /\ sent \in [Deps -> Nat] /\ skipped \in [Deps -> Nat]
    /\ written \in [Deps -> 0..MaxOutput]
    /\ wire \in [Deps -> Seq(Messages)]

Fetching == {d \in Deps : thread[d] = "running"}

(* Each thread holds a permit.                                              *)
PermitInv ==
    /\ permits \in Nat /\ IsFiniteSet(Fetching)
    /\ Cardinality(Fetching) + permits = Permits

(* The clone belongs to a task that waits for it.                           *)
CloneInv(d) ==
    /\ pc[d] = "permit" <=> thread[d] = "none"
    /\ thread[d] = "running" => pc[d] \in {"cloning", "joining"}
    /\ pc[d] \in {"cloning", "joining", "draining"} => d \in staging

Pumping == {"opening", "reading"}

(* The command begins after the clone, from nothing, and its log from the   *)
(* tail; while it, its pump or its container runs, the task waits for it or *)
(* has lost its session, or has its failure from a log that broke off.      *)
CommandInv(d) ==
    /\ pc[d] \in {"permit", "cloning", "joining"} => cmd[d] = "none" /\ d \notin closed
    /\ d \notin Builds => cmd[d] = "none"
    /\ cmd[d] \in {"none", "create"} =>
          /\ box[d] = "absent" /\ pump[d] = "none" /\ wire[d] = <<>>
          /\ file[d] = 0 /\ written[d] = 0
    /\ pump[d] \in {"none", "opening"} => sent[d] = 0 /\ skipped[d] = 0
    /\ cmd[d] \in {"join_ok", "final_ok"} => box[d] # "running"
    /\ cmd[d] \notin {"none", "done"} \/ pump[d] \in Pumping => pc[d] = "draining" \/ d \in closed
    /\ box[d] = "running" =>
          pc[d] = "draining" \/ d \in closed \/ (d \in broken /\ pc[d] = "failed")
    /\ pump[d] = "ended" =>
          \/ d \in closed \/ d \in broken
          \/ box[d] # "running" /\ (sent[d] = written[d] \/ box[d] = "absent")

(* The result, if it is on the wire, is the last message there.             *)
Last(d) == wire[d][Len(wire[d])]
HasResult(d) == wire[d] # <<>> /\ Last(d) # Log

(* Nothing more will be written to the log, and what could be read was.     *)
LogOver(d) ==
    /\ cmd[d] = "done" /\ pump[d] \notin Pumping
    /\ sent[d] = written[d] \/ box[d] = "absent" \/ d \in broken

(* Chunks precede the result, and the result what could still be written;   *)
(* a good result says that the container has exited.                        *)
LogInv(d) ==
    /\ \A i \in 1..Len(wire[d]) : i < Len(wire[d]) => wire[d][i] = Log
    /\ HasResult(d) \/ (pc[d] = "built" /\ d \in Builds) => LogOver(d)
    /\ HasResult(d) /\ box[d] = "running" => Last(d) = Failed /\ d \in broken
    /\ HasResult(d) => skipped[d] + file[d] + Len(wire[d]) = sent[d] + 1
    /\ ~HasResult(d) => skipped[d] + file[d] + Len(wire[d]) <= sent[d]
    /\ ~HasResult(d) /\ pc[d] = "draining" /\ d \notin closed =>
          skipped[d] + file[d] + Len(wire[d]) = sent[d]
    /\ pc[d] \in {"built", "failed"} => wire[d] = <<>>
    /\ pc[d] = "built" => skipped[d] + file[d] = sent[d] /\ box[d] # "running"
    /\ sent[d] <= written[d]

Fine(d) == CloneInv(d) /\ CommandInv(d) /\ LogInv(d)

BuildInv == BuildTypes /\ PermitInv /\ \A d \in Deps : Fine(d)

USE BuildAssumption DEF Ok, Failed, Log, Messages, Commands, Pumping

\* Init => BuildInv
LEMMA InitBuild == Init => BuildInv
<1> SUFFICES ASSUME Init PROVE BuildInv OBVIOUS
<1>1. Fetching = {} BY DEF Init, Fetching
<1>2. PermitInv BY <1>1, FS_EmptySet DEF Init, PermitInv
<1> QED BY <1>2 DEF Init, BuildInv, BuildTypes, Fine, CloneInv, CommandInv, LogInv, LogOver, HasResult, Last

\* What is not touched stays as it was
LEMMA Elsewhere ==
  ASSUME NEW e, Fine(e),
         pc'[e] = pc[e], thread'[e] = thread[e], cmd'[e] = cmd[e], box'[e] = box[e],
         pump'[e] = pump[e], file'[e] = file[e], sent'[e] = sent[e],
         skipped'[e] = skipped[e], e \in broken' <=> e \in broken,
         written'[e] = written[e], wire'[e] = wire[e],
         e \in staging' <=> e \in staging, e \in closed' <=> e \in closed
  PROVE  Fine(e)'
  BY DEF Fine, CloneInv, CommandInv, LogInv, LogOver, HasResult, Last

USE DEF BuildInv, hub, session, log, agent, podman, Goto, GiveUp, Cmd, Reply

\* The hub's task and its clone thread preserve the invariant
LEMMA HubKeeps ==
  ASSUME BuildInv, NEW d \in Deps,
         HubStep(d) \/ ThreadEnds(d)
  PROVE  BuildInv'
<1>1. CASE StartClone(d)
  <2> USE <1>1 DEF StartClone
  <2>1. BuildTypes' BY DEF BuildTypes
  <2>2. PermitInv'
    <3>1. d \notin Fetching BY DEF Fetching, Fine, CloneInv
    <3>2. Fetching' = Fetching \cup {d} BY DEF Fetching, BuildTypes
    <3>3. IsFiniteSet(Fetching') /\ Cardinality(Fetching') = Cardinality(Fetching) + 1
      BY <3>1, <3>2, FS_AddElement DEF PermitInv
    <3>4. Cardinality(Fetching) \in Nat BY FS_CardinalityType DEF PermitInv
    <3> QED BY <3>3, <3>4 DEF PermitInv
  <2>3. Fine(d)'
    <3>1. CloneInv(d)' BY DEF BuildTypes, Fine, CloneInv
    <3>2. CommandInv(d)' BY DEF BuildTypes, Fine, CloneInv, CommandInv, LogInv, LogOver, HasResult, Last
    <3>3. LogInv(d)' BY DEF BuildTypes, Fine, CommandInv, LogInv, LogOver, HasResult, Last
    <3> QED BY <3>1, <3>2, <3>3 DEF Fine
  <2>4. \A e \in Deps \ {d} : Fine(e)' BY Elsewhere DEF BuildTypes
  <2> QED BY <2>1, <2>2, <2>3, <2>4
<1>2. CASE ThreadEnds(d)
  <2> USE <1>2 DEF ThreadEnds
  <2>1. BuildTypes' BY DEF BuildTypes
  <2>2. PermitInv'
    <3>1. d \in Fetching BY DEF Fetching
    <3>2. Fetching' = Fetching \ {d} BY DEF Fetching, BuildTypes
    <3>3. IsFiniteSet(Fetching') /\ Cardinality(Fetching') = Cardinality(Fetching) - 1
      BY <3>1, <3>2, FS_RemoveElement DEF PermitInv
    <3>4. Cardinality(Fetching) \in Nat BY FS_CardinalityType DEF PermitInv
    <3> QED BY <3>3, <3>4 DEF PermitInv
  <2>3. Fine(d)' BY DEF BuildTypes, Fine, CloneInv, CommandInv, LogInv, LogOver, HasResult, Last
  <2>4. \A e \in Deps \ {d} : Fine(e)' BY Elsewhere DEF BuildTypes
  <2> QED BY <2>1, <2>2, <2>3, <2>4
<1>3. CASE CloneTimeout(d)
  <2> USE <1>3 DEF CloneTimeout
  <2>1. BuildTypes' BY DEF BuildTypes
  <2>2. PermitInv' BY DEF PermitInv, Fetching
  <2>3. Fine(d)'
    <3>1. CloneInv(d)' BY DEF BuildTypes, Fine, CloneInv
    <3>2. CommandInv(d)' BY DEF BuildTypes, Fine, CloneInv, CommandInv, LogInv, LogOver, HasResult, Last
    <3>3. LogInv(d)' BY DEF BuildTypes, Fine, CommandInv, LogInv, LogOver, HasResult, Last
    <3> QED BY <3>1, <3>2, <3>3 DEF Fine
  <2>4. \A e \in Deps \ {d} : Fine(e)' BY Elsewhere DEF BuildTypes
  <2> QED BY <2>1, <2>2, <2>3, <2>4
<1>4. CASE CloneFails(d)
  <2> USE <1>4 DEF CloneFails
  <2>1. BuildTypes' BY DEF BuildTypes
  <2>2. PermitInv' BY DEF PermitInv, Fetching
  <2>3. Fine(d)' BY DEF BuildTypes, Fine, CloneInv, CommandInv, LogInv, LogOver, HasResult, Last
  <2>4. \A e \in Deps \ {d} : Fine(e)' BY Elsewhere DEF BuildTypes
  <2> QED BY <2>1, <2>2, <2>3, <2>4
<1>5. CASE StartBuild(d)
  <2> USE <1>5 DEF StartBuild
  <2>1. BuildTypes'
    <3>1. pc' = [pc EXCEPT ![d] = "draining"] \/ pc' = [pc EXCEPT ![d] = "failed"] OBVIOUS
    <3>2. cmd' = [cmd EXCEPT ![d] = "create"] \/ cmd' = cmd OBVIOUS
    <3>3. UNCHANGED <<thread, box, pump, file, skipped, sent, written, wire>> OBVIOUS
    <3>4. pc' \in [Deps -> {"permit", "cloning", "joining", "draining", "built", "failed"}]
      <4> DEFINE S == {"permit", "cloning", "joining", "draining", "built", "failed"}
      <4>1. pc \in [Deps -> S] BY DEF BuildTypes
      <4>2. "draining" \in S /\ "failed" \in S OBVIOUS
      <4> HIDE DEF S
      <4>3. pc' \in [Deps -> S] BY <3>1, <4>1, <4>2, Zenon
      <4> QED BY <4>3 DEF S
    <3>5. cmd' \in [Deps -> Commands] BY <3>2 DEF BuildTypes
    <3> QED BY <3>3, <3>4, <3>5 DEF BuildTypes
  <2>2. PermitInv' BY DEF PermitInv, Fetching
  <2>3. Fine(d)'
    <3>1. CloneInv(d)' BY DEF BuildTypes, Fine, CloneInv
    <3>4. /\ cmd[d] = "none" /\ d \notin closed /\ box[d] = "absent" /\ pump[d] = "none"
          /\ wire[d] = <<>> /\ file[d] = 0 /\ sent[d] = 0 /\ written[d] = 0 /\ skipped[d] = 0
      BY DEF Fine, CommandInv
    <3>5. UNCHANGED <<closed, box, pump, wire, file, skipped, sent, written, broken>> OBVIOUS
    <3>6. \/ pc'[d] = "draining" /\ cmd'[d] \in {"none", "create"}
          \/ pc'[d] = "failed" /\ cmd'[d] = "none"
      <4>1. \/ pc'[d] = "draining" /\ cmd'[d] = "create"
            \/ pc'[d] \in {"draining", "failed"} /\ cmd' = cmd
        BY DEF BuildTypes
      <4> QED BY <3>4, <4>1
    <3>2. CommandInv(d)' BY <3>4, <3>5, <3>6 DEF CommandInv
    <3>3. LogInv(d)' BY <3>4, <3>5, <3>6 DEF LogInv, LogOver, HasResult, Last
    <3> QED BY <3>1, <3>2, <3>3 DEF Fine
  <2>4. \A e \in Deps \ {d} : Fine(e)' BY Elsewhere DEF BuildTypes
  <2> QED BY <2>1, <2>2, <2>3, <2>4
<1>6. CASE DrainLog(d)
  <2> USE <1>6 DEF DrainLog
  <2>1. BuildTypes' BY DEF BuildTypes
  <2>2. PermitInv' BY DEF PermitInv, Fetching
  <2>3. Fine(d)'
    <3>1. CloneInv(d)' BY DEF BuildTypes, Fine, CloneInv
    <3>2. CommandInv(d)' BY DEF BuildTypes, Fine, CloneInv, CommandInv, LogInv, LogOver, HasResult, Last
    <3>4. /\ Len(wire'[d]) = Len(wire[d]) - 1 /\ Len(wire[d]) \in Nat \ {0}
          /\ \A i \in 1..Len(wire'[d]) : wire'[d][i] = wire[d][i + 1]
          /\ wire[d][1] = Log
      BY DEF BuildTypes
    <3>5. /\ file'[d] = file[d] + 1 /\ pc[d] = "draining"
          /\ UNCHANGED <<pc, closed, cmd, pump, box, skipped, sent, written, broken>>
      BY DEF BuildTypes
    <3>6. (HasResult(d)' <=> HasResult(d)) /\ (HasResult(d) => Last(d)' = Last(d))
      <4>1. wire'[d] \in Seq(Messages) /\ wire[d] \in Seq(Messages) BY <2>1 DEF BuildTypes
      <4>2. CASE Len(wire[d]) = 1
        <5>1. Len(wire'[d]) = 0 BY <3>4, <4>2
        <5>2. wire'[d] = <<>> BY <4>1, <5>1
        <5> QED BY <3>4, <4>2, <5>2 DEF HasResult, Last
      <4>3. CASE Len(wire[d]) > 1
        <5>1. Len(wire'[d]) \in 1..Len(wire'[d]) BY <3>4, <4>3
        <5>2. wire'[d][Len(wire'[d])] = wire[d][Len(wire[d])] BY <3>4, <5>1
        <5>3. wire'[d] # <<>>
          <6>1. Len(wire'[d]) # 0 BY <3>4, <4>3
          <6> QED BY <6>1
        <5>4. wire[d] # <<>> OBVIOUS
        <5> QED BY <5>2, <5>3, <5>4 DEF HasResult, Last
      <4>4. \A n \in Nat \ {0} : n = 1 \/ n > 1 OBVIOUS
      <4> QED BY <3>4, <4>2, <4>3, <4>4
    <3>7. \A i \in 1..Len(wire'[d]) : i < Len(wire'[d]) => wire'[d][i] = Log
      BY <3>4 DEF Fine, LogInv
    <3>3. LogInv(d)'
      <4> HIDE DEF HasResult, Last
      <4>1. LogInv(d) /\ file[d] \in Nat /\ skipped[d] \in Nat /\ sent[d] \in Nat
        BY DEF BuildTypes, Fine
      <4>2. LogOver(d)' <=> LogOver(d) BY <3>5 DEF LogOver
      <4>3. skipped'[d] + file'[d] + Len(wire'[d]) = skipped[d] + file[d] + Len(wire[d])
        BY <3>4, <3>5, <4>1
      <4>4. UNCHANGED <<sent[d], written[d], box[d], pc[d]>> /\ pc[d] = "draining" BY <3>5
      <4> HIDE DEF LogOver
      <4> QED BY <3>5, <3>6, <3>7, <4>1, <4>2, <4>3, <4>4 DEF LogInv
    <3> QED BY <3>1, <3>2, <3>3 DEF Fine
  <2>4. \A e \in Deps \ {d} : Fine(e)' BY Elsewhere DEF BuildTypes
  <2> QED BY <2>1, <2>2, <2>3, <2>4
<1>7. CASE DrainEnd(d)
  <2> USE <1>7 DEF DrainEnd
  <2>1. BuildTypes'
    <3>1. <<>> \in Seq(Messages) OBVIOUS
    <3> QED BY <3>1 DEF BuildTypes
  <2>2. PermitInv' BY DEF PermitInv, Fetching
  <2>3. Fine(d)'
    <3>1. CloneInv(d)' BY DEF BuildTypes, Fine, CloneInv
    <3>4. /\ pc[d] = "draining" /\ wire'[d] = <<>> /\ Len(wire'[d]) = 0
          /\ pc'[d] \in {"built", "failed"}
          /\ UNCHANGED <<closed, cmd, pump, box, file, skipped, sent, written, broken>>
      BY DEF BuildTypes
    <3>5. ~HasResult(d)' BY <3>4 DEF HasResult
    <3>6. CASE wire[d] # <<>> /\ Head(wire[d]) # Log
      <4>1. Len(wire[d]) = 1 /\ Last(d) = Head(wire[d]) /\ HasResult(d)
        <5>1. wire[d] \in Seq(Messages) /\ Len(wire[d]) \in Nat \ {0} /\ wire[d][1] # Log
          BY <3>6 DEF BuildTypes
        <5>2. ~(1 < Len(wire[d])) BY <5>1 DEF Fine, LogInv
        <5>4. PICK n \in Nat \ {0} : n = Len(wire[d]) BY <5>1
        <5>3. Len(wire[d]) = 1 BY <5>2, <5>4
        <5> QED BY <3>6, <5>1, <5>3 DEF HasResult, Last
      <4>2. pc'[d] = "built" => Last(d) = Ok BY <3>6, <4>1 DEF BuildTypes
      <4>3. pc'[d] = "failed" \/ box[d] # "running" BY <4>1, <4>2, <3>4 DEF Fine, LogInv
      <4> HIDE DEF HasResult, Last
      <4>8. LogOver(d) /\ sent[d] <= written[d] BY <4>1 DEF Fine, LogInv
      <4>9. skipped[d] + file[d] + 1 = sent[d] + 1 BY <4>1 DEF Fine, LogInv
      <4>10. skipped[d] + file[d] = sent[d]
        <5>1. skipped[d] \in Nat /\ file[d] \in Nat /\ sent[d] \in Nat BY DEF BuildTypes
        <5> QED BY <4>9, <5>1
      <4>4. LogOver(d)' /\ skipped[d] + file[d] = sent[d] /\ sent[d] <= written[d]
        BY <3>4, <4>8, <4>10 DEF LogOver
      <4>5. box[d] = "running" => d \in broken BY <4>1 DEF Fine, LogInv
      <4>6. CommandInv(d)' BY <3>4, <4>3, <4>4, <4>5 DEF Fine, CommandInv, LogOver
      <4>7. LogInv(d)' BY <3>4, <3>5, <4>3, <4>4 DEF LogInv, BuildTypes
      <4> QED BY <3>1, <4>6, <4>7 DEF Fine
    <3>7. CASE wire[d] = <<>> /\ d \in closed
      <4>1. pc'[d] = "failed" BY <3>7 DEF BuildTypes
      <4>2. CommandInv(d)' BY <3>4, <3>7, <4>1 DEF Fine, CommandInv
      <4>3. ~HasResult(d) /\ Len(wire[d]) = 0 BY <3>7 DEF HasResult
      <4> HIDE DEF HasResult, Last
      <4>4. LogInv(d)' BY <3>4, <3>5, <3>7, <4>1, <4>3 DEF Fine, LogInv, BuildTypes
      <4> QED BY <3>1, <4>2, <4>4 DEF Fine
    <3> QED BY <3>6, <3>7
  <2>4. \A e \in Deps \ {d} : Fine(e)' BY Elsewhere DEF BuildTypes
  <2> QED BY <2>1, <2>2, <2>3, <2>4
<1>8. CASE FinishClone(d)
  <2> USE <1>8 DEF FinishClone
  <2>1. BuildTypes' BY DEF BuildTypes
  <2>2. PermitInv' BY DEF PermitInv, Fetching
  <2>3. Fine(d)'
    <3>1. CloneInv(d)' BY DEF BuildTypes, Fine, CloneInv
    <3>4. /\ cmd[d] = "none" /\ box[d] = "absent" /\ pump[d] = "none" /\ wire[d] = <<>>
          /\ file[d] = 0 /\ sent[d] = 0 /\ written[d] = 0 /\ skipped[d] = 0
      BY DEF Fine, CommandInv
    <3>5. /\ pc'[d] = "built"
          /\ UNCHANGED <<closed, cmd, pump, box, wire, file, skipped, sent, written, broken>>
      BY DEF BuildTypes
    <3>2. CommandInv(d)' BY <3>4, <3>5 DEF CommandInv
    <3>3. LogInv(d)' BY <3>4, <3>5 DEF LogInv, HasResult
    <3> QED BY <3>1, <3>2, <3>3 DEF Fine
  <2>4. \A e \in Deps \ {d} : Fine(e)' BY Elsewhere DEF BuildTypes
  <2> QED BY <2>1, <2>2, <2>3, <2>4
<1> QED BY <1>1, <1>2, <1>3, <1>4, <1>5, <1>6, <1>7, <1>8 DEF HubStep

\* The agent's command, its pump and its container preserve the invariant
LEMMA AgentKeeps ==
  ASSUME BuildInv, NEW d \in Deps,
         AgentStep(d) \/ WaitTimeout(d) \/ PodmanError(d) \/ BoxWrites(d) \/ BoxExits(d)
  PROVE  BuildInv'
<1>1. CASE CreateBox(d)
  <2> USE <1>1 DEF CreateBox
  <2>1. BuildTypes' BY DEF BuildTypes
  <2>2. PermitInv' BY DEF PermitInv, Fetching
  <2>3. Fine(d)'
    <3>1. CloneInv(d)' BY DEF BuildTypes, Fine, CloneInv
    <3>4. /\ pump[d] = "none" /\ wire[d] = <<>> /\ file[d] = 0 /\ sent[d] = 0 /\ written[d] = 0
          /\ skipped[d] = 0
          /\ pc[d] = "draining" \/ d \in closed
      BY DEF Fine, CommandInv
    <3>5. /\ cmd'[d] = "wait" /\ box'[d] = "running" /\ pump'[d] = "opening"
          /\ UNCHANGED <<pc, closed, wire, file, skipped, sent, written, broken>>
      BY DEF BuildTypes
    <3>6. pc[d] \notin {"permit", "cloning", "joining", "built"} /\ d \in Builds
      BY DEF Fine, CommandInv, LogInv, LogOver
    <3>2. CommandInv(d)' BY <3>4, <3>5, <3>6 DEF CommandInv
    <3>3. LogInv(d)' BY <3>4, <3>5, <3>6 DEF LogInv, LogOver, HasResult, Last
    <3> QED BY <3>1, <3>2, <3>3 DEF Fine
  <2>4. \A e \in Deps \ {d} : Fine(e)' BY Elsewhere DEF BuildTypes
  <2> QED BY <2>1, <2>2, <2>3, <2>4
<1>2. CASE CreateFails(d)
  <2> USE <1>2 DEF CreateFails
  <2>1. BuildTypes' BY DEF BuildTypes
  <2>2. PermitInv' BY DEF PermitInv, Fetching
  <2>3. Fine(d)'
    <3>1. CloneInv(d)' BY DEF BuildTypes, Fine, CloneInv
    <3>4. /\ box[d] = "absent" /\ pump[d] = "none" /\ wire[d] = <<>>
          /\ file[d] = 0 /\ sent[d] = 0 /\ written[d] = 0 /\ skipped[d] = 0
          /\ pc[d] = "draining" \/ d \in closed
      BY DEF Fine, CommandInv
    <3>5. /\ cmd'[d] = "done" /\ box'[d] \in {"absent", "created"}
          /\ UNCHANGED <<pc, closed, pump, file, skipped, sent, written, broken>>
      BY <3>4 DEF BuildTypes
    <3>6. pc[d] \notin {"permit", "cloning", "joining", "built"} /\ d \in Builds
      BY DEF Fine, CommandInv, LogInv, LogOver
    <3>7. (wire'[d] = <<>> /\ d \in closed) \/ (wire'[d] = <<Failed>> /\ d \notin closed)
      <4>1. CASE d \in closed BY <3>4, <4>1
      <4>2. CASE d \notin closed
        <5>1. wire'[d] = Append(wire[d], Failed) BY <4>2 DEF BuildTypes
        <5> QED BY <3>4, <4>2, <5>1
      <4> QED BY <4>1, <4>2
    <3>2. CommandInv(d)' BY <3>4, <3>5, <3>6 DEF CommandInv
    <3>3. LogInv(d)' BY <3>4, <3>5, <3>6, <3>7 DEF LogInv, LogOver, HasResult, Last
    <3> QED BY <3>1, <3>2, <3>3 DEF Fine
  <2>4. \A e \in Deps \ {d} : Fine(e)' BY Elsewhere DEF BuildTypes
  <2> QED BY <2>1, <2>2, <2>3, <2>4
<1>3. CASE WaitEnds(d)
  <2> USE <1>3 DEF WaitEnds
  <2>1. BuildTypes' BY DEF BuildTypes
  <2>2. PermitInv' BY DEF PermitInv, Fetching
  <2>3. Fine(d)'
    <3>1. CloneInv(d)' BY DEF BuildTypes, Fine, CloneInv
    <3>2. CommandInv(d)' BY DEF BuildTypes, Fine, CloneInv, CommandInv, LogInv, LogOver, HasResult, Last
    <3>3. LogInv(d)' BY DEF BuildTypes, Fine, CommandInv, LogInv, LogOver, HasResult, Last
    <3> QED BY <3>1, <3>2, <3>3 DEF Fine
  <2>4. \A e \in Deps \ {d} : Fine(e)' BY Elsewhere DEF BuildTypes
  <2> QED BY <2>1, <2>2, <2>3, <2>4
<1>4. CASE WaitTimeout(d)
  <2> USE <1>4 DEF WaitTimeout
  <2>1. BuildTypes' BY DEF BuildTypes
  <2>2. PermitInv' BY DEF PermitInv, Fetching
  <2>3. Fine(d)' BY DEF BuildTypes, Fine, CloneInv, CommandInv, LogInv, LogOver, HasResult, Last
  <2>4. \A e \in Deps \ {d} : Fine(e)' BY Elsewhere DEF BuildTypes
  <2> QED BY <2>1, <2>2, <2>3, <2>4
<1>5. CASE WaitFails(d)
  <2> USE <1>5 DEF WaitFails
  <2>1. BuildTypes' BY DEF BuildTypes
  <2>2. PermitInv' BY DEF PermitInv, Fetching
  <2>3. Fine(d)' BY DEF BuildTypes, Fine, CloneInv, CommandInv, LogInv, LogOver, HasResult, Last
  <2>4. \A e \in Deps \ {d} : Fine(e)' BY Elsewhere DEF BuildTypes
  <2> QED BY <2>1, <2>2, <2>3, <2>4
<1>6. CASE JoinPump(d)
  <2> USE <1>6 DEF JoinPump
  <2>1. BuildTypes' BY DEF BuildTypes
  <2>2. PermitInv' BY DEF PermitInv, Fetching
  <2>3. Fine(d)'
    <3>1. CloneInv(d)' BY DEF BuildTypes, Fine, CloneInv
    <3>4. /\ cmd[d] \notin {"none", "create", "done"} /\ cmd'[d] \notin {"none", "create", "done"}
          /\ cmd'[d] = "final_ok" <=> cmd[d] = "join_ok"
          /\ cmd'[d] # "join_ok" /\ cmd[d] \in Joining
          /\ UNCHANGED <<pc, closed, box, pump, wire, file, skipped, sent, written, broken>>
      BY DEF BuildTypes, Joining
    <3>2. CommandInv(d)' BY <3>4 DEF Fine, CommandInv
    <3>3. LogInv(d)' BY <3>4 DEF Fine, LogInv, LogOver, HasResult, Last
    <3> QED BY <3>1, <3>2, <3>3 DEF Fine
  <2>4. \A e \in Deps \ {d} : Fine(e)' BY Elsewhere DEF BuildTypes
  <2> QED BY <2>1, <2>2, <2>3, <2>4
<1>7. CASE SendFinal(d)
  <2> USE <1>7 DEF SendFinal
  <2>1. BuildTypes' BY DEF BuildTypes
  <2>2. PermitInv' BY DEF PermitInv, Fetching
  <2>3. Fine(d)'
    <3>1. CloneInv(d)' BY DEF BuildTypes, Fine, CloneInv
    <3>2. CommandInv(d)' BY DEF BuildTypes, Fine, CloneInv, CommandInv, LogInv, LogOver, HasResult, Last
    <3>4. /\ cmd[d] \in {"final_ok", "final_failed"} /\ cmd'[d] = "done" /\ pump[d] = "ended"
          /\ UNCHANGED <<pc, closed, pump, box, file, skipped, sent, written, broken>>
      BY DEF BuildTypes
    <3>5. ~HasResult(d) /\ pc[d] # "built" BY <3>4 DEF Fine, CommandInv, LogInv, LogOver
    <3>3. LogInv(d)'
      <4>6. CASE d \in closed
        <5>1. wire'[d] = wire[d] BY <4>6 DEF BuildTypes
        <5> QED BY <3>4, <3>5, <4>6, <5>1 DEF Fine, LogInv, LogOver, HasResult, Last
      <4>7. CASE d \notin closed
        <5>1. PICK m \in {Ok, Failed} :
                wire'[d] = Append(wire[d], m) /\ (m = Ok => cmd[d] = "final_ok")
          BY <4>7 DEF BuildTypes
        <5>2. /\ wire[d] \in Seq(Messages) /\ Len(wire'[d]) = Len(wire[d]) + 1
              /\ \A i \in 1..Len(wire[d]) : wire'[d][i] = wire[d][i] /\ wire[d][i] = Log
              /\ wire'[d][Len(wire'[d])] = m
          BY <3>5, <5>1 DEF BuildTypes, Fine, LogInv, HasResult, Last
        <5>3. pc[d] = "draining" /\ skipped[d] + file[d] + Len(wire[d]) = sent[d]
          BY <3>4, <3>5, <4>7 DEF Fine, CommandInv, LogInv
        <5>4. /\ box[d] # "running" \/ d \in broken
              /\ sent[d] = written[d] \/ box[d] = "absent" \/ d \in broken
          BY <3>4, <4>7 DEF Fine, CommandInv
        <5>5. sent[d] <= written[d] BY DEF Fine, LogInv
        <5>6. HasResult(d)' /\ Last(d)' = m BY <5>1, <5>2 DEF HasResult, Last
        <5>7. \A i \in 1..Len(wire'[d]) : i < Len(wire'[d]) => wire'[d][i] = Log BY <5>2
        <5>11. box[d] = "running" => m = Failed BY <3>4, <5>1 DEF Fine, CommandInv
        <5> HIDE DEF HasResult
        <5>8. skipped'[d] + file'[d] + Len(wire'[d]) = sent'[d] + 1 BY <3>4, <5>2, <5>3 DEF BuildTypes
        <5>9. pc'[d] \notin {"built", "failed"} BY <3>4, <5>3
        <5>10. LogOver(d)' /\ sent'[d] <= written'[d] BY <3>4, <5>4, <5>5 DEF LogOver
        <5>12. box'[d] = "running" => Last(d)' = Failed /\ d \in broken'
          BY <3>4, <5>4, <5>6, <5>11
        <5> QED BY <5>6, <5>7, <5>8, <5>9, <5>10, <5>12 DEF LogInv
      <4> QED BY <4>6, <4>7
    <3> QED BY <3>1, <3>2, <3>3 DEF Fine
  <2>4. \A e \in Deps \ {d} : Fine(e)' BY Elsewhere DEF BuildTypes
  <2> QED BY <2>1, <2>2, <2>3, <2>4
<1>8. CASE ForwardLog(d)
  <2> USE <1>8 DEF ForwardLog
  <2>1. BuildTypes' BY DEF BuildTypes
  <2>2. PermitInv' BY DEF PermitInv, Fetching
  <2>3. Fine(d)'
    <3>1. CloneInv(d)' BY DEF BuildTypes, Fine, CloneInv
    <3>4. /\ pump[d] = "reading" /\ pump'[d] \in {"reading", "ended"}
          /\ d \in closed => pump'[d] = "ended" /\ wire'[d] = wire[d]
          /\ d \notin closed => pump'[d] = "reading" /\ wire'[d] = Append(wire[d], Log)
          /\ sent'[d] = sent[d] + 1 /\ sent'[d] <= written[d]
          /\ UNCHANGED <<pc, closed, cmd, box, file, skipped, written, broken>>
      BY DEF BuildTypes
    <3>5. ~HasResult(d) /\ ~LogOver(d) BY <3>4 DEF Fine, LogInv, LogOver
    <3>6. cmd[d] \notin {"none", "create"} /\ (pc[d] = "draining" \/ d \in closed)
      BY <3>4 DEF Fine, CommandInv
    <3>2. CommandInv(d)' BY <3>4, <3>6 DEF Fine, CommandInv
    <3>7. /\ ~HasResult(d)'
          /\ \A i \in 1..Len(wire'[d]) : i < Len(wire'[d]) => wire'[d][i] = Log
          /\ d \notin closed => Len(wire'[d]) = Len(wire[d]) + 1
      <4>1. CASE d \in closed BY <3>4, <3>5, <4>1 DEF Fine, LogInv, HasResult, Last
      <4>2. CASE d \notin closed
        <5>1. /\ Len(wire'[d]) = Len(wire[d]) + 1 /\ wire'[d][Len(wire'[d])] = Log
              /\ \A i \in 1..Len(wire[d]) : wire'[d][i] = wire[d][i]
          BY <3>4, <4>2 DEF BuildTypes
        <5>2. \A i \in 1..Len(wire[d]) : wire[d][i] = Log
          BY <3>5 DEF BuildTypes, Fine, LogInv, HasResult, Last
        <5> QED BY <5>1, <5>2 DEF BuildTypes, HasResult, Last
      <4> QED BY <4>1, <4>2
    <3>8. pc[d] # "built" BY <3>4, <3>5, <3>6 DEF Fine, CommandInv, LogInv
    <3>9. pc[d] = "failed" => wire'[d] = <<>> BY <3>4, <3>6 DEF Fine, LogInv
    <3>3. LogInv(d)'
      <4> HIDE DEF HasResult, Last, LogOver
      <4> QED BY <3>4, <3>5, <3>6, <3>7, <3>8, <3>9 DEF BuildTypes, Fine, LogInv
    <3> QED BY <3>1, <3>2, <3>3 DEF Fine
  <2>4. \A e \in Deps \ {d} : Fine(e)' BY Elsewhere DEF BuildTypes
  <2> QED BY <2>1, <2>2, <2>3, <2>4
<1>9. CASE LogEnds(d)
  <2> USE <1>9 DEF LogEnds
  <2>1. BuildTypes' BY DEF BuildTypes
  <2>2. PermitInv' BY DEF PermitInv, Fetching
  <2>3. Fine(d)' BY DEF BuildTypes, Fine, CloneInv, CommandInv, LogInv, LogOver, HasResult, Last
  <2>4. \A e \in Deps \ {d} : Fine(e)' BY Elsewhere DEF BuildTypes
  <2> QED BY <2>1, <2>2, <2>3, <2>4
<1>10. CASE Cleanup(d)
  <2> USE <1>10 DEF Cleanup
  <2>1. BuildTypes' BY DEF BuildTypes
  <2>2. PermitInv' BY DEF PermitInv, Fetching
  <2>3. Fine(d)' BY DEF BuildTypes, Fine, CloneInv, CommandInv, LogInv, LogOver, HasResult, Last
  <2>4. \A e \in Deps \ {d} : Fine(e)' BY Elsewhere DEF BuildTypes
  <2> QED BY <2>1, <2>2, <2>3, <2>4
<1>11. CASE BoxWrites(d)
  <2> USE <1>11 DEF BoxWrites
  <2>1. BuildTypes' BY DEF BuildTypes
  <2>2. PermitInv' BY DEF PermitInv, Fetching
  <2>3. Fine(d)' BY DEF BuildTypes, Fine, CloneInv, CommandInv, LogInv, LogOver, HasResult, Last
  <2>4. \A e \in Deps \ {d} : Fine(e)' BY Elsewhere DEF BuildTypes
  <2> QED BY <2>1, <2>2, <2>3, <2>4
<1>12. CASE BoxExits(d)
  <2> USE <1>12 DEF BoxExits
  <2>1. BuildTypes' BY DEF BuildTypes
  <2>2. PermitInv' BY DEF PermitInv, Fetching
  <2>3. Fine(d)' BY DEF BuildTypes, Fine, CloneInv, CommandInv, LogInv, LogOver, HasResult, Last
  <2>4. \A e \in Deps \ {d} : Fine(e)' BY Elsewhere DEF BuildTypes
  <2> QED BY <2>1, <2>2, <2>3, <2>4
<1>13. CASE OpenLog(d)
  <2> USE <1>13 DEF OpenLog
  <2>1. BuildTypes' BY DEF BuildTypes
  <2>2. PermitInv' BY DEF PermitInv, Fetching
  <2>3. Fine(d)'
    <3>1. CloneInv(d)' BY DEF BuildTypes, Fine, CloneInv
    <3>4. PICK first \in 0..written[d] : sent'[d] = first /\ skipped'[d] = first
      BY DEF BuildTypes
    <3>5. /\ pump[d] = "opening" /\ pump'[d] = "reading"
          /\ UNCHANGED <<pc, closed, cmd, box, wire, file, written, broken>>
      BY DEF BuildTypes
    <3>6. ~HasResult(d) /\ ~LogOver(d) /\ sent[d] = 0 /\ skipped[d] = 0
      BY <3>5 DEF Fine, CommandInv, LogInv, LogOver
    <3>7. file[d] = 0 /\ Len(wire[d]) = 0 BY <3>6 DEF BuildTypes, Fine, LogInv
    <3>2. CommandInv(d)' BY <3>5 DEF Fine, CommandInv
    <3>8. ~HasResult(d)' /\ (pc[d] # "built" \/ d \notin Builds) BY <3>5, <3>6 DEF HasResult, Last, Fine, LogInv
    <3>9. pc[d] # "built" BY <3>5, <3>8 DEF Fine, CommandInv
    <3>3. LogInv(d)'
      <4> HIDE DEF HasResult, Last, LogOver
      <4> QED BY <3>4, <3>5, <3>7, <3>8, <3>9 DEF BuildTypes, Fine, LogInv
    <3> QED BY <3>1, <3>2, <3>3 DEF Fine
  <2>4. \A e \in Deps \ {d} : Fine(e)' BY Elsewhere DEF BuildTypes
  <2> QED BY <2>1, <2>2, <2>3, <2>4
<1>14. CASE LogBreaks(d)
  <2> USE <1>14 DEF LogBreaks
  <2>1. BuildTypes' BY DEF BuildTypes
  <2>2. PermitInv' BY DEF PermitInv, Fetching
  <2>3. Fine(d)' BY DEF BuildTypes, Fine, CloneInv, CommandInv, LogInv, LogOver, HasResult, Last
  <2>4. \A e \in Deps \ {d} : Fine(e)' BY Elsewhere DEF BuildTypes
  <2> QED BY <2>1, <2>2, <2>3, <2>4
<1>15. CASE CleanupFails(d)
  <2> USE <1>15 DEF CleanupFails
  <2>1. BuildTypes' BY DEF BuildTypes
  <2>2. PermitInv' BY DEF PermitInv, Fetching
  <2>3. Fine(d)' BY DEF BuildTypes, Fine, CloneInv, CommandInv, LogInv, LogOver, HasResult, Last
  <2>4. \A e \in Deps \ {d} : Fine(e)' BY Elsewhere DEF BuildTypes
  <2> QED BY <2>1, <2>2, <2>3, <2>4
<1> QED BY <1>1, <1>2, <1>3, <1>4, <1>5, <1>6, <1>7, <1>8, <1>9, <1>10, <1>11, <1>12, <1>13, <1>14, <1>15
        DEF AgentStep, PodmanError

\* What is left of a sequence cut after n elements
LEMMA Truncated ==
  ASSUME NEW s \in Seq(Messages), NEW n \in Nat, n <= Len(s)
  PROVE  /\ SubSeq(s, 1, n) \in Seq(Messages) /\ Len(SubSeq(s, 1, n)) = n
         /\ \A i \in 1..n : SubSeq(s, 1, n)[i] = s[i]
         /\ n = 0 => SubSeq(s, 1, n) = <<>>
  OBVIOUS

\* A lost session closes the builds under way and cuts what was on the wire,
\* with or without the agent's tasks
LEMMA LoseKeeps ==
  ASSUME BuildInv, Lose, NEW d \in Deps,
         UNCHANGED <<pc, thread, staging, file, skipped, sent, written, box, broken>>,
         cmd'[d] = cmd[d] \/ (cmd[d] # "none" /\ cmd'[d] = "done"),
         pump'[d] = pump[d] \/ (pump[d] # "none" /\ pump'[d] = "ended"),
         cmd'[d] # cmd[d] => pump'[d] \notin Pumping
  PROVE  Fine(d)' /\ wire' \in [Deps -> Seq(Messages)]
<1>1. PICK arrived \in [Deps -> 0..(MaxOutput + 1)] :
        /\ \A e \in Deps : arrived[e] <= Len(wire[e]) /\ (e \notin Building => arrived[e] = Len(wire[e]))
        /\ wire' = [e \in Deps |-> SubSeq(wire[e], 1, arrived[e])]
  BY DEF Lose
<1>2. \A e \in Deps : wire[e] \in Seq(Messages) /\ arrived[e] \in Nat /\ arrived[e] <= Len(wire[e])
  BY <1>1 DEF BuildTypes
<1>3. wire' \in [Deps -> Seq(Messages)]
  <2>1. \A e \in Deps : SubSeq(wire[e], 1, arrived[e]) \in Seq(Messages) BY <1>2, Truncated
  <2> QED BY <1>1, <2>1
<1>4. PICK n \in Nat : n = arrived[d] BY <1>2
<1>5. /\ wire[d] \in Seq(Messages) /\ n <= Len(wire[d]) /\ Len(wire'[d]) = n
      /\ \A i \in 1..n : wire'[d][i] = wire[d][i]
      /\ n = 0 => wire'[d] = <<>>
      /\ pc[d] # "draining" => n = Len(wire[d])
  <2>1. wire'[d] = SubSeq(wire[d], 1, n) BY <1>1, <1>4
  <2>2. pc[d] # "draining" => n = Len(wire[d]) BY <1>1, <1>4 DEF Building
  <2> QED BY <1>2, <1>4, <2>1, <2>2, Truncated
<1>6. (d \in closed => d \in closed') /\ (pc[d] = "draining" => d \in closed')
      /\ (pc[d] # "draining" /\ d \in closed' => d \in closed)
  BY DEF Lose, Building
<1>7. wire[d] = <<>> => wire'[d] = <<>> BY <1>5
<1>8. HasResult(d)' => HasResult(d) /\ n = Len(wire[d]) /\ Last(d)' = Last(d)
  <2> SUFFICES ASSUME HasResult(d)'
               PROVE  HasResult(d) /\ n = Len(wire[d]) /\ Last(d)' = Last(d)
    OBVIOUS
  <2>1. n # 0 /\ wire'[d][n] # Log BY <1>5 DEF HasResult, Last
  <2>2. n \in 1..n /\ n \in 1..Len(wire[d]) BY <1>5, <2>1
  <2>3. wire[d][n] # Log BY <1>5, <2>1, <2>2
  <2>4. n = Len(wire[d]) BY <1>5, <2>2, <2>3 DEF Fine, LogInv
  <2> QED BY <2>1, <2>2, <2>3, <2>4, <1>5 DEF HasResult, Last
<1>9. HasResult(d) /\ n = Len(wire[d]) => HasResult(d)'
  <2> SUFFICES ASSUME HasResult(d), n = Len(wire[d]) PROVE HasResult(d)' OBVIOUS
  <2>1. n # 0 BY <1>5 DEF HasResult
  <2>2. n \in 1..n BY <2>1
  <2>3. wire'[d][n] # Log BY <1>5, <2>2 DEF HasResult, Last
  <2>4. wire'[d] # <<>> BY <1>5, <2>1
  <2> QED BY <1>5, <2>3, <2>4 DEF HasResult, Last
<1>10. CloneInv(d)' BY DEF Fine, CloneInv
<1>11. CommandInv(d)'
  <2>1. pump[d] \in {"none", "opening", "reading", "ended"} BY DEF BuildTypes
  <2>2. CommandInv(d) BY DEF Fine
  <2>3. UNCHANGED <<pc, file, skipped, sent, written, box, broken>> OBVIOUS
  <2> QED BY <1>6, <1>7, <2>1, <2>2, <2>3 DEF CommandInv
<1>12. LogInv(d)'
  <2> HIDE DEF HasResult
  <2>1. \A i \in 1..Len(wire'[d]) : i < Len(wire'[d]) => wire'[d][i] = Log BY <1>5 DEF Fine, LogInv
  <2>2. HasResult(d)' \/ (pc'[d] = "built" /\ d \in Builds) => LogOver(d)'
    BY <1>8 DEF Fine, LogInv, LogOver
  <2>3. HasResult(d)' => skipped'[d] + file'[d] + Len(wire'[d]) = sent'[d] + 1
    BY <1>5, <1>8 DEF Fine, LogInv
  <2>4. ~HasResult(d)' => skipped'[d] + file'[d] + Len(wire'[d]) <= sent'[d]
    BY <1>5, <1>9 DEF Fine, LogInv, BuildTypes
  <2>5. ~(pc'[d] = "draining" /\ d \notin closed') BY <1>6
  <2>6. HasResult(d)' /\ box'[d] = "running" => Last(d)' = Failed /\ d \in broken'
    BY <1>8 DEF Fine, LogInv
  <2> QED BY <1>7, <2>1, <2>2, <2>3, <2>4, <2>5, <2>6 DEF Fine, LogInv
<1> QED BY <1>3, <1>10, <1>11, <1>12 DEF Fine

\* The invariant is inductive
LEMMA BuildStep == BuildInv /\ [Next]_vars => BuildInv'
<1> SUFFICES ASSUME BuildInv, [Next]_vars PROVE BuildInv' OBVIOUS
<1>1. CASE \E d \in Deps :
             \/ HubStep(d) \/ ThreadEnds(d)
             \/ AgentStep(d) \/ WaitTimeout(d) \/ PodmanError(d)
             \/ BoxWrites(d) \/ BoxExits(d)
  BY <1>1, HubKeeps, AgentKeeps
<1>2. CASE SessionLost
  <2>1. PermitInv' BY <1>2 DEF SessionLost, PermitInv, Fetching
  <2>2. \A d \in Deps : Fine(d)' /\ wire' \in [Deps -> Seq(Messages)] BY <1>2, LoseKeeps DEF SessionLost
  <2>3. BuildTypes'
    <3>1. CASE Deps = {} BY <1>2, <3>1 DEF SessionLost, Lose, BuildTypes
    <3> QED BY <1>2, <2>2, <3>1 DEF SessionLost, BuildTypes
  <2> QED BY <2>1, <2>2, <2>3
<1>3. CASE AgentRestart
  <2>1. PermitInv' BY <1>3 DEF AgentRestart, PermitInv, Fetching
  <2>2. ASSUME NEW d \in Deps PROVE Fine(d)' /\ wire' \in [Deps -> Seq(Messages)]
    <3>1. /\ cmd'[d] = cmd[d] \/ (cmd[d] # "none" /\ cmd'[d] = "done")
          /\ pump'[d] = pump[d] \/ (pump[d] # "none" /\ pump'[d] = "ended")
          /\ cmd'[d] # cmd[d] => pump'[d] \notin Pumping
      BY <1>3 DEF AgentRestart
    <3>2. UNCHANGED <<pc, thread, staging, file, skipped, sent, written, box, broken>> /\ Lose
      BY <1>3 DEF AgentRestart
    <3> QED BY <3>1, <3>2, LoseKeeps
  <2>3. BuildTypes'
    <3>1. CASE Deps = {} BY <1>3, <3>1 DEF AgentRestart, Lose, BuildTypes
    <3> QED BY <1>3, <2>2, <3>1 DEF AgentRestart, BuildTypes
  <2> QED BY <2>1, <2>2, <2>3
<1>4. CASE Reconnect
  <2>1. BuildTypes' /\ PermitInv' BY <1>4 DEF Reconnect, BuildTypes, PermitInv, Fetching
  <2> QED BY <1>4, <2>1, Elsewhere DEF Reconnect
<1>6. CASE LinkClosed
  <2>1. BuildTypes' /\ PermitInv' BY <1>6 DEF LinkClosed, BuildTypes, PermitInv, Fetching
  <2> QED BY <1>6, <2>1, Elsewhere DEF LinkClosed
<1>5. CASE UNCHANGED vars
  <2>1. BuildTypes' /\ PermitInv' BY <1>5 DEF vars, BuildTypes, PermitInv, Fetching
  <2> QED BY <1>5, <2>1, Elsewhere DEF vars
<1> QED BY <1>1, <1>2, <1>3, <1>4, <1>5, <1>6 DEF Next

(* Each clone thread holds a permit until it ends; the staging directory    *)
(* stays while the task waits for a clone or a command, and what the agent  *)
(* still runs belongs to such a task or to a lost session; the result is    *)
(* the last message of its stream, behind every chunk.                      *)
THEOREM BuildInvariant == Spec => []BuildInv
<1> HIDE DEF BuildInv
<1> QED BY InitBuild, BuildStep, PTL DEF Spec

(* No more clones run than there are permits, timed-out ones included, and  *)
(* no staging directory is removed under a clone, or under a build          *)
(* container whose session lasts and whose log did not break off.           *)
THEOREM FetchesAreContained == Spec => []FetchesContained
<1>1. BuildInv => FetchesContained
  <2> SUFFICES ASSUME BuildInv PROVE FetchesContained OBVIOUS
  <2>1. FetchesBounded
    <3>1. Cardinality(Fetching) \in Nat BY FS_CardinalityType DEF PermitInv
    <3> QED BY <3>1 DEF PermitInv, Fetching, FetchesBounded
  <2>2. StagingInUse BY DEF StagingInUse, Fine, CloneInv, CommandInv
  <2> QED BY <2>1, <2>2 DEF FetchesContained
<1> HIDE DEF BuildInv
<1> QED BY <1>1, BuildInvariant, PTL

(* When the task has its result, build.log holds every chunk from the tail  *)
(* on that the agent forwarded, and those are all to the command's last     *)
(* unless Podman broke the log off or the container has been removed:       *)
(* run_command_to_completion ends the log before the result.                *)
THEOREM LogsAreComplete == Spec => []LogComplete
<1>1. BuildInv => LogComplete BY DEF LogComplete, Fine, CommandInv, LogInv, LogOver
<1> HIDE DEF BuildInv
<1> QED BY <1>1, BuildInvariant, PTL

(* Types: permits never exceed MAX_CONCURRENT_GIT_FETCHES, and no log is    *)
(* longer than the output it comes from.                                    *)
THEOREM TypeCorrect == Spec => []TypeOK
<1>1. BuildInv => TypeOK
  <2> SUFFICES ASSUME BuildInv PROVE TypeOK OBVIOUS
  <2>1. permits \in 0..Permits
    <3>1. Cardinality(Fetching) \in Nat BY FS_CardinalityType DEF PermitInv
    <3> QED BY <3>1 DEF PermitInv
  <2>2. ASSUME NEW d \in Deps
        PROVE  skipped[d] + file[d] \in 0..sent[d] /\ sent[d] \in 0..written[d]
    <3>1. /\ file[d] \in Nat /\ sent[d] \in Nat /\ skipped[d] \in Nat
          /\ written[d] \in 0..MaxOutput /\ Len(wire[d]) \in Nat /\ sent[d] <= written[d]
      BY DEF BuildTypes, Fine, LogInv
    <3>2. HasResult(d) => Len(wire[d]) # 0 BY DEF HasResult, BuildTypes
    <3> HIDE DEF HasResult
    <3>3. skipped[d] + file[d] <= sent[d] BY <3>1, <3>2 DEF Fine, LogInv
    <3> QED BY <3>1, <3>3
  <2> QED BY <2>1, <2>2 DEF TypeOK, BuildTypes
<1> HIDE DEF BuildInv
<1> QED BY <1>1, BuildInvariant, PTL
=============================================================================
