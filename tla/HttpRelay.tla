----------------------------- MODULE HttpRelay ------------------------------
(***************************************************************************)
(* Requests to run-mode apps: the hub relays each over the agent's Session *)
(* stream (berth-hub/src/routes/apps.rs), the agent proxies it to the      *)
(* container (berth-agent/src/relay.rs), and an upgraded connection turns  *)
(* both directions into byte pumps.                                        *)
(*                                                                         *)
(* All requests share the session's two channels, and each end has one     *)
(* reader: the hub's reader task and the agent's session loop.  Both wait  *)
(* for room in the channel of the request a message is for, so a slow      *)
(* request holds up the others.  A session is not reopened here: requests  *)
(* that follow belong to a fresh link.                                     *)
(***************************************************************************)
EXTENDS Naturals, Sequences

CONSTANTS Ordinary,   \* requests answered with a body
          Upgrades,   \* requests that ask for another protocol (websockets)
          Chunks,     \* chunks in each direction's body
          Cap,        \* capacity of a request's channel, at each end
          SessionCap, \* messages under way on the session, in each direction
          MaxFaults   \* bound on the failures of peers and of the session

ASSUME RelayAssumption ==
    /\ Ordinary \cap Upgrades = {}
    /\ Chunks \in Nat \ {0} /\ Cap \in Nat \ {0} /\ SessionCap \in Nat \ {0}
    /\ MaxFaults \in Nat

Requests == Ordinary \cup Upgrades

\* The parts of a relayed request or response: the head, the chunks 1..Chunks,
\* the empty chunk marked is_final, and a response's error part.
Headers == 0
End == Chunks + 1
Error == Chunks + 2
Stopped == Chunks + 3     \* nothing more to send

VARIABLES
    sessionUp,  \* the session's stream is open
    up, down,   \* messages <<request, part>> to and from the agent
    link,       \* the AgentLink: "open", "cleared" of its streams, "dead" without outbound
    \* the hub
    handler,    \* handler[r]: serve_run_mode and what it leaves running
    fed,        \* fed[r]: the next part of the request to send
    entry,      \* requests with a sender in the link's streams map
    inbox,      \* inbox[r]: the channel behind that sender
    bdone,      \* upgrades whose write_browser half has ended
    \* the browser
    received,   \* received[r]: response chunks the browser has
    eof,        \* requests whose response the browser has seen end
    left,       \* requests whose browser is gone
    bclosed,    \* upgrades whose browser has closed its side
    \* the agent
    inflight,   \* requests in the InFlightRelays map
    body,       \* body[r]: the channel behind the map's sender
    task,       \* task[r]: serve_relayed_request
    made,       \* made[r]: the next part of the response to send
    cdone,      \* upgrades whose write_container half has ended
    \* the container
    taken,      \* taken[r]: request parts the container has read
    switched,   \* upgrades the container has agreed to
    cclosed,    \* upgrades whose container has closed its side
    failed,     \* requests whose container broke off its response
    faults

session == <<sessionUp, up, down, link>>
hub == <<handler, fed, entry, inbox, bdone>>
browser == <<received, eof, left, bclosed>>
agent == <<inflight, body, task, made, cdone>>
container == <<taken, switched, cclosed, failed>>
vars == <<session, hub, browser, agent, container, faults>>

Init ==
    /\ sessionUp = TRUE /\ up = <<>> /\ down = <<>> /\ link = "open"
    /\ handler = [r \in Requests |-> "idle"]
    /\ fed = [r \in Requests |-> Stopped]
    /\ entry = {} /\ inbox = [r \in Requests |-> <<>>] /\ bdone = {}
    /\ received = [r \in Requests |-> <<>>]
    /\ eof = {} /\ left = {} /\ bclosed = {}
    /\ inflight = {} /\ body = [r \in Requests |-> <<>>]
    /\ task = [r \in Requests |-> "none"]
    /\ made = [r \in Requests |-> Headers] /\ cdone = {}
    /\ taken = [r \in Requests |-> <<>>]
    /\ switched = {} /\ cclosed = {} /\ failed = {} /\ faults = 0

Fault == faults < MaxFaults /\ faults' = faults + 1

Handle(r, h) == handler' = [handler EXCEPT ![r] = h]

-----------------------------------------------------------------------------
(* serve_run_mode and the request feeder *)

\* call_bidi_streamed: the stream enters the link's map ...
Request(r) ==
    /\ handler[r] = "idle"
    /\ Handle(r, "insert")
    /\ entry' = entry \cup {r}
    /\ UNCHANGED <<session, fed, inbox, bdone, browser, agent, container, faults>>

\* ... and leaves it again, with 502, if the link has no outbound sender
GetOutbound(r) ==
    /\ handler[r] = "insert"
    /\ \/ /\ link # "dead"
          /\ Handle(r, "head")
          /\ fed' = [fed EXCEPT ![r] = Headers]
          /\ UNCHANGED entry
       \/ /\ link = "dead"
          /\ Handle(r, "done")
          /\ entry' = entry \ {r}
          /\ UNCHANGED fed
    /\ UNCHANGED <<session, inbox, bdone, browser, agent, container, faults>>

Feed(r, part, next) ==
    /\ sessionUp
    /\ Len(up) < SessionCap
    /\ up' = Append(up, <<r, part>>)
    /\ fed' = [fed EXCEPT ![r] = next]
    /\ UNCHANGED <<sessionUp, down, link, handler, entry, inbox, bdone, browser, agent, container, faults>>

FeedHead(r) == fed[r] = Headers /\ Feed(r, Headers, 1)

\* the feeder goes on with an ordinary body, an upgrade waits for its pump
CanFeed(r) == fed[r] \in 1..End /\ (r \in Ordinary \/ handler[r] = "pump")

FeedChunk(r) ==
    /\ CanFeed(r)
    /\ fed[r] # End
    /\ r \notin left \cup bclosed
    /\ Feed(r, fed[r], fed[r] + 1)

\* variant: the end is announced with one chunk to go
FeedEndEarly(r) ==
    /\ CanFeed(r)
    /\ \/ r \in left \cup bclosed
       \/ r \in Ordinary /\ fed[r] >= Chunks
    /\ Feed(r, End, Stopped)

\* a body that breaks off ends like a complete one: errors are skipped
FeedEnd(r) ==
    /\ CanFeed(r)
    /\ \/ r \in left \cup bclosed
       \/ r \in Ordinary /\ fed[r] = End
    /\ Feed(r, End, Stopped)

\* what is sent into a lost session is lost; once tonic has dropped the receiver
\* the send fails, and takes the stream out of the map
FeedStops(r) ==
    /\ ~sessionUp
    /\ \/ fed[r] = Headers
       \/ CanFeed(r) /\ (r \in Ordinary \/ fed[r] # End \/ r \in left \cup bclosed)
    /\ fed' = [fed EXCEPT ![r] = Stopped]
    /\ entry' \in {entry, entry \ {r}}
    /\ UNCHANGED <<session, handler, inbox, bdone, browser, agent, container, faults>>

\* the first reply decides: a body, an upgrade, or 502
TakeHead(r) ==
    /\ handler[r] = "head"
    /\ inbox[r] # <<>>
    /\ Handle(r, CASE Head(inbox[r]) # Headers -> "ending"
                   [] Head(inbox[r]) = Headers /\ r \in switched -> "pump"
                   [] OTHER -> "body")
    /\ inbox' = [inbox EXCEPT ![r] = Tail(@)]
    /\ UNCHANGED <<session, fed, entry, bdone, browser, agent, container, faults>>

\* the response cannot be built from the head: a body is dropped with its
\* EndStreamOnDrop, for an upgrade nothing calls end_stream
HeadUnusable(r) ==
    /\ Fault
    /\ handler[r] = "head"
    /\ inbox[r] # <<>> /\ Head(inbox[r]) = Headers
    /\ Handle(r, IF r \in switched THEN "abandoned" ELSE "ending")
    /\ inbox' = [inbox EXCEPT ![r] = Tail(@)]
    /\ UNCHANGED <<session, fed, entry, bdone, browser, agent, container>>

Closed(r) == r \notin entry /\ inbox[r] = <<>>

HeadClosed(r) ==
    /\ handler[r] = "head"
    /\ Closed(r)
    /\ Handle(r, "done")
    /\ UNCHANGED <<session, fed, entry, inbox, bdone, browser, agent, container, faults>>

\* response_body_stream: the final chunk and a closed channel both end the body
BodyChunk(r) ==
    /\ handler[r] = "body"
    /\ inbox[r] # <<>>
    /\ inbox' = [inbox EXCEPT ![r] = Tail(@)]
    /\ \/ /\ Head(inbox[r]) = End
          /\ eof' = eof \cup {r}
          /\ Handle(r, "ending")
          /\ UNCHANGED received
       \/ /\ Head(inbox[r]) # End
          /\ received' = [received EXCEPT ![r] = Append(@, Head(inbox[r]))]
          /\ UNCHANGED <<handler, eof>>
    /\ UNCHANGED <<session, fed, entry, bdone, left, bclosed, agent, container, faults>>

BodyClosed(r) ==
    /\ handler[r] = "body"
    /\ Closed(r)
    /\ eof' = eof \cup {r}
    /\ Handle(r, "ending")
    /\ UNCHANGED <<session, fed, entry, inbox, bdone, received, left, bclosed, agent, container, faults>>

\* variant: the entry is left to the session's end
EndStreamSkipped(r) ==
    /\ handler[r] = "ending"
    /\ Handle(r, "done")
    /\ UNCHANGED <<session, fed, entry, inbox, bdone, browser, agent, container, faults>>

\* end_stream, inline or in the task EndStreamOnDrop spawns
EndStream(r) ==
    /\ handler[r] = "ending"
    /\ entry' = entry \ {r}
    /\ Handle(r, "done")
    /\ UNCHANGED <<session, fed, inbox, bdone, browser, agent, container, faults>>

-----------------------------------------------------------------------------
(* pump_upgraded_connection at the hub: the read half is Feed* above *)

WriteBrowser(r) ==
    /\ handler[r] = "pump"
    /\ r \notin bdone
    /\ \/ /\ inbox[r] # <<>>
          /\ inbox' = [inbox EXCEPT ![r] = Tail(@)]
          /\ \/ /\ Head(inbox[r]) # End /\ r \notin left
                /\ received' = [received EXCEPT ![r] = Append(@, Head(inbox[r]))]
                /\ UNCHANGED <<bdone, eof>>
             \/ /\ Head(inbox[r]) = End \/ r \in left
                /\ bdone' = bdone \cup {r}
                /\ eof' = eof \cup {r}
                /\ UNCHANGED received
       \/ /\ Closed(r)
          /\ bdone' = bdone \cup {r}
          /\ eof' = eof \cup {r}
          /\ UNCHANGED <<inbox, received>>
    /\ UNCHANGED <<session, handler, fed, entry, left, bclosed, agent, container, faults>>

PumpEnds(r) ==
    /\ handler[r] = "pump"
    /\ r \in bdone
    /\ fed[r] = Stopped
    /\ Handle(r, "ending")
    /\ UNCHANGED <<session, fed, entry, inbox, bdone, browser, agent, container, faults>>

\* the browser is gone before its connection has switched
UpgradeFails(r) ==
    /\ handler[r] = "pump"
    /\ r \in left \ bdone
    /\ fed[r] = 1 /\ received[r] = <<>>
    /\ Handle(r, "ending")
    /\ UNCHANGED <<session, fed, entry, inbox, bdone, browser, agent, container, faults>>

BrowserCloses(r) ==
    /\ handler[r] = "pump"
    /\ r \notin bclosed
    /\ bclosed' = bclosed \cup {r}
    /\ UNCHANGED <<session, hub, received, eof, left, agent, container, faults>>

\* The browser goes away: a handler that has no head yet is dropped with its
\* receiver, a response body is dropped with its EndStreamOnDrop.
BrowserLeaves(r) ==
    /\ Fault
    /\ handler[r] \in {"insert", "head", "body", "pump"}
    /\ r \notin left
    /\ left' = left \cup {r}
    /\ Handle(r, CASE handler[r] \in {"insert", "head"} -> "abandoned"
                   [] handler[r] = "body" -> "ending"
                   [] OTHER -> "pump")
    /\ UNCHANGED <<session, fed, entry, inbox, bdone, received, eof, bclosed, agent, container>>

-----------------------------------------------------------------------------
(* The agent *)

Receiving == {"proxy", "stream", "pump"}

\* route_relay_message: a head starts a task, a chunk waits for room in the
\* task's channel and the session loop waits with it
Route ==
    /\ up # <<>>
    /\ LET r == Head(up)[1]
           part == Head(up)[2]
       IN /\ up' = Tail(up)
          /\ \/ /\ part = Headers
                /\ inflight' = inflight \cup {r}
                /\ task' = [task EXCEPT ![r] = "proxy"]
                /\ UNCHANGED body
             \/ /\ part # Headers
                /\ r \in inflight /\ task[r] \in Receiving
                /\ Len(body[r]) < Cap
                /\ body' = [body EXCEPT ![r] = Append(@, part)]
                /\ UNCHANGED <<inflight, task>>
             \/ /\ part # Headers
                /\ r \notin inflight \/ task[r] \notin Receiving
                /\ UNCHANGED <<inflight, body, task>>
    /\ UNCHANGED <<sessionUp, down, link, hub, browser, made, cdone, container, faults>>

\* send: an error (the session is gone) is ignored
Reply(r, part) ==
    /\ made' = [made EXCEPT ![r] = part + 1]
    /\ IF sessionUp THEN Len(down) < SessionCap /\ down' = Append(down, <<r, part>>)
       ELSE UNCHANGED down
    /\ UNCHANGED <<sessionUp, up, link, hub, browser, cdone, taken, cclosed>>

Become(r, t) == task' = [task EXCEPT ![r] = t] /\ UNCHANGED <<inflight, body>>

\* the task drops its receiver and takes its sender out of the map
Ended(r) ==
    /\ task' = [task EXCEPT ![r] = "gone"]
    /\ inflight' = inflight \ {r}
    /\ body' = [body EXCEPT ![r] = <<>>]

\* no container, no address, or the request to it fails
ProxyFails(r) ==
    /\ Fault
    /\ task[r] = "proxy"
    /\ Reply(r, Error)
    /\ Ended(r)
    /\ UNCHANGED <<switched, failed>>

\* the container answers, perhaps before it has read the whole request
Respond(r) ==
    /\ task[r] = "proxy"
    /\ Reply(r, Headers)
    /\ \/ Become(r, "stream") /\ UNCHANGED switched
       \/ r \in Upgrades /\ Become(r, "pump") /\ switched' = switched \cup {r}
    /\ UNCHANGED <<failed, faults>>

ResponseChunk(r) ==
    /\ \/ task[r] = "stream"
       \/ task[r] = "pump" /\ r \notin cclosed
    /\ made[r] \in 1..Chunks
    /\ Reply(r, made[r])
    /\ UNCHANGED <<inflight, body, task, switched, failed, faults>>

\* stream_response_body: a broken response ends like a complete one
ResponseEnd(r) ==
    /\ task[r] = "stream"
    /\ Reply(r, End)
    /\ \/ made[r] = End /\ UNCHANGED <<failed, faults>>
       \/ made[r] # End /\ Fault /\ failed' = failed \cup {r}
    /\ Ended(r)
    /\ UNCHANGED switched

\* request_body, or write_container of an upgraded connection
TakeBody(r) ==
    /\ body[r] # <<>>
    /\ \/ r \in Ordinary /\ task[r] \in {"proxy", "stream"}
       \/ task[r] = "pump" /\ r \notin cdone
    /\ body' = [body EXCEPT ![r] = Tail(@)]
    /\ \/ /\ r \notin cclosed
          /\ taken' = [taken EXCEPT ![r] = Append(@, Head(body[r]))]
          /\ cdone' = IF r \in Upgrades /\ Head(body[r]) = End THEN cdone \cup {r} ELSE cdone
       \/ /\ r \in cclosed
          /\ cdone' = cdone \cup {r}
          /\ UNCHANGED taken
    /\ UNCHANGED <<session, hub, browser, inflight, task, made, switched, cclosed, failed, faults>>

ContainerCloses(r) ==
    /\ task[r] = "pump"
    /\ r \notin cclosed
    /\ cclosed' = cclosed \cup {r}
    /\ UNCHANGED <<session, hub, browser, agent, taken, switched, failed, faults>>

\* read_container has seen the end
PumpReadEnd(r) ==
    /\ task[r] = "pump"
    /\ r \in cclosed
    /\ made[r] \in 1..End
    /\ Reply(r, End)
    /\ UNCHANGED <<inflight, body, task, switched, failed, faults>>

\* the container's side fails to switch after its 101: the error part ends
\* write_browser as a final chunk does
SwitchFails(r) ==
    /\ Fault
    /\ task[r] = "pump" /\ made[r] = 1
    /\ r \notin cclosed \cup cdone /\ taken[r] = <<>>
    /\ Reply(r, End)
    /\ Ended(r)
    /\ UNCHANGED <<switched, failed>>

PumpDone(r) ==
    /\ task[r] = "pump"
    /\ made[r] = End + 1
    /\ r \in cdone
    /\ Ended(r)
    /\ UNCHANGED <<session, hub, browser, made, cdone, container, faults>>

-----------------------------------------------------------------------------
(* The hub's reader and the end of the session *)

Listening == {"head", "body", "pump"}

\* variant: an unbounded channel
ResolveUnbounded ==
    /\ down # <<>>
    /\ LET r == Head(down)[1] IN
         \/ /\ r \in entry /\ handler[r] \in Listening
            /\ inbox' = [inbox EXCEPT ![r] = Append(@, Head(down)[2])]
         \/ /\ ~(r \in entry /\ handler[r] \in Listening)
            /\ UNCHANGED inbox
    /\ down' = Tail(down)
    /\ UNCHANGED <<sessionUp, up, link, handler, fed, entry, bdone, browser, agent, container, faults>>

\* AgentLink::resolve
Resolve ==
    /\ down # <<>>
    /\ LET r == Head(down)[1] IN
         \/ /\ r \in entry /\ handler[r] \in Listening
            /\ Len(inbox[r]) < Cap
            /\ inbox' = [inbox EXCEPT ![r] = Append(@, Head(down)[2])]
         \/ /\ ~(r \in entry /\ handler[r] \in Listening)
            /\ UNCHANGED inbox
    /\ down' = Tail(down)
    /\ UNCHANGED <<sessionUp, up, link, handler, fed, entry, bdone, browser, agent, container, faults>>

SessionLost ==
    /\ Fault
    /\ sessionUp
    /\ sessionUp' = FALSE
    /\ up' = <<>>
    /\ \E n \in 0..Len(down) : down' = SubSeq(down, 1, n)
    /\ UNCHANGED <<link, hub, browser, agent, container>>

\* variant: streams still waiting for their first reply are kept
FailStartedStreams ==
    /\ ~sessionUp /\ down = <<>>
    /\ link = "open"
    /\ link' = "cleared"
    /\ entry' = {r \in entry : handler[r] \in {"insert", "head"}}
    /\ UNCHANGED <<sessionUp, up, down, handler, fed, inbox, bdone, browser, agent, container, faults>>

\* fail_all_pending, one lock at a time
FailStreams ==
    /\ ~sessionUp /\ down = <<>>
    /\ link = "open"
    /\ link' = "cleared"
    /\ entry' = {}
    /\ UNCHANGED <<sessionUp, up, down, handler, fed, inbox, bdone, browser, agent, container, faults>>

FailOutbound ==
    /\ link = "cleared"
    /\ link' = "dead"
    /\ UNCHANGED <<sessionUp, up, down, hub, browser, agent, container, faults>>

-----------------------------------------------------------------------------
HubStep(r) ==
    \/ GetOutbound(r)
    \/ FeedHead(r) \/ FeedChunk(r) \/ FeedEnd(r) \/ FeedStops(r)
    \/ TakeHead(r) \/ HeadClosed(r) \/ BodyChunk(r) \/ BodyClosed(r) \/ EndStream(r)
    \/ WriteBrowser(r) \/ PumpEnds(r)

AgentStep(r) == PumpReadEnd(r) \/ PumpDone(r)

\* the container reads, and answers when it has read the request
ContainerStep(r) ==
    \/ TakeBody(r)
    \/ ResponseChunk(r)
    \/ made[r] = End /\ ResponseEnd(r)
    \/ (r \in Upgrades \/ \E i \in 1..Len(taken[r]) : taken[r][i] = End) /\ Respond(r)

Next ==
    \/ \E r \in Requests :
          \/ Request(r) \/ HubStep(r)
          \/ HeadUnusable(r) \/ UpgradeFails(r) \/ BrowserCloses(r) \/ BrowserLeaves(r)
          \/ AgentStep(r) \/ ProxyFails(r) \/ Respond(r) \/ ResponseChunk(r) \/ ResponseEnd(r)
          \/ SwitchFails(r) \/ TakeBody(r) \/ ContainerCloses(r)
    \/ Route \/ Resolve \/ SessionLost \/ FailStreams \/ FailOutbound

Spec == Init /\ [][Next]_vars

(* Tasks of the hub and the agent run when they can, the browser reads what *)
(* it is sent, and the container reads and answers.  A peer of an upgraded  *)
(* connection closes when it sees the other side closed.  One condition for *)
(* all is enough: every step uses up something, none can starve another.    *)
Progress ==
    \/ \E r \in Requests :
          \/ HubStep(r) \/ AgentStep(r) \/ ContainerStep(r)
          \/ r \in eof /\ BrowserCloses(r)
          \/ r \in cdone /\ ContainerCloses(r)
    \/ Route \/ Resolve \/ FailStreams \/ FailOutbound

FairSpec == Spec /\ WF_vars(Progress)

-----------------------------------------------------------------------------
(* Type invariant: channels within their capacities, parts in range.        *)
TypeOK ==
    /\ sessionUp \in BOOLEAN /\ link \in {"open", "cleared", "dead"}
    /\ \A q \in {up, down} :
          Len(q) <= SessionCap /\ \A i \in 1..Len(q) : q[i] \in Requests \X (0..Error)
    /\ \A r \in Requests :
          /\ handler[r] \in {"idle", "insert", "head", "body", "pump", "ending", "done", "abandoned"}
          /\ task[r] \in Receiving \cup {"none", "gone"}
          /\ fed[r] \in 0..Stopped /\ made[r] \in 0..Stopped
          /\ Len(inbox[r]) <= Cap /\ Len(body[r]) <= Cap
    /\ entry \subseteq Requests /\ inflight \subseteq Requests

InTurn(s) == \A i \in 1..Len(s) : s[i] = i \/ (s[i] = End /\ i = Len(s))

(* No chunk is lost, duplicated or reordered on the way through two         *)
(* processes and six channels, in either direction and whatever is lost or  *)
(* dropped meanwhile: each end has a prefix of what the other one sent.     *)
ChunksInTurn == \A r \in Requests : InTurn(received[r]) /\ InTurn(taken[r])

Complete(s) == \A c \in 1..Chunks : \E i \in 1..Len(s) : s[i] = c

(* An end of a body stands for the whole body, except where the code ends   *)
(* it for a broken one: a response whose container or session failed, a     *)
(* request whose browser left.                                              *)
EndsAreHonest ==
    \A r \in Ordinary :
        /\ r \in eof => Complete(received[r]) \/ r \in failed \/ ~sessionUp
        /\ (\E i \in 1..Len(taken[r]) : taken[r][i] = End) => Complete(taken[r]) \/ r \in left

(* What arrives of a body is what was sent, and its end is its end.         *)
BodiesFaithful == ChunksInTurn /\ EndsAreHonest

(* A request that has been answered leaves no sender in the link's streams  *)
(* map.  One whose browser leaves before the response head does, and one    *)
(* whose switch to another protocol cannot be answered: nothing calls       *)
(* end_stream for it until the session ends.                                *)
EntriesAccounted ==
    \A r \in entry : handler[r] \in Listening \cup {"insert", "ending", "abandoned"}

(* what the request sent is lost with its session, and its receiver was put *)
(* into the map after the map had been emptied                              *)
Stranded(r) == handler[r] = "head" /\ link = "dead" /\ r \in entry /\ fed[r] = Stopped

(* Requests do not wait for each other in a circle: every ordinary request  *)
(* ends, with a slow or closing upgrade beside it, and also when the        *)
(* session is lost.  Left out is one that registers between the two last    *)
(* steps of fail_all_pending (agent_link.rs:95-97) and sends before tonic   *)
(* drops the receiver: its head never comes and its channel never closes.   *)
OrdinaryEnds ==
    \A r \in Ordinary : []<>(handler[r] \in {"idle", "done", "abandoned"} \/ Stranded(r))

NeverPumped(r) == handler[r] \in {"ending", "done", "abandoned"} /\ fed[r] = 1

(* An upgraded connection that either peer closes comes to an end on the    *)
(* hub and, while the session lasts, on the agent, unless the browser was   *)
(* gone before the hub's pump had started.                                  *)
UpgradeEnds ==
    \A r \in Upgrades : []<>(r \in bclosed \cup cclosed =>
        /\ handler[r] \in {"done", "abandoned"}
        /\ task[r] = "gone" \/ ~sessionUp \/ NeverPumped(r))

(* Both kinds of requests end.                                              *)
RelaysEnd == OrdinaryEnds /\ UpgradeEnds
=============================================================================
