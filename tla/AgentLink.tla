----------------------------- MODULE AgentLink ------------------------------
(***************************************************************************)
(* The hub's end of an agent's Session stream (berth-hub/src/agent_link.rs *)
(* and grpc.rs): the registry of connected hosts, and, for each session,   *)
(* the link that matches the agent's replies to the calls waiting for them.*)
(*                                                                         *)
(* A call takes a link from the registry, puts itself into one of the two  *)
(* maps, takes the outbound sender, sends, and waits.  Every mutex of the  *)
(* link is its own, so any step of the session, of its reader task and of  *)
(* other calls may come in between.                                        *)
(***************************************************************************)
EXTENDS Naturals, Sequences, FiniteSets

CONSTANTS OneShot,      \* calls that expect one reply (call, call_chunked, call_streamed)
          Streaming,    \* calls that expect many (call_streaming_reply, call_bidi_streamed)
          MaxSessions,  \* bound on the sessions the host opens
          Replies,      \* replies the agent sends to a streaming call; the last one ends it
          Cap,          \* STREAM_CHANNEL_CAPACITY
          OutCap        \* capacity of a session's outbound channel

ASSUME LinkAssumption ==
    /\ OneShot \cap Streaming = {}
    /\ MaxSessions \in Nat /\ Replies \in Nat \ {0} /\ Cap \in Nat \ {0} /\ OutCap \in Nat \ {0}

Calls == OneShot \cup Streaming
Sessions == 1..MaxSessions
NoLink == 0            \* for_host of a disconnected host: a fresh link nobody serves
Nobody == <<>>         \* the reader is not holding a stream sender

VARIABLES
    registered, \* the session in AgentRegistry, 0 if the host is not connected
    phase,      \* phase[s]: where Hub::session and its reader task are
    broken,     \* sessions whose connection is gone
    outOpen,    \* sessions whose outbound receiver tonic still holds
    outbound,   \* sessions whose link has an outbound sender
    pending,    \* pending[s]: one-shot calls in the link's map
    streams,    \* streams[s]: streaming calls in the link's map
    inbound,    \* inbound[s]: messages from the agent the reader has not seen
    reader,     \* reader[s]: the <<call, reply>> resolve is sending into a stream channel
    outq,       \* outq[s]: requests in the session's outbound channel
    asked,      \* asked[s]: calls the agent has received
    replied,    \* replied[c]: replies the agent has sent
    pc,         \* pc[c]: the next step of the call
    link,       \* link[c]: the session whose link the call uses
    chan,       \* chan[c]: the call's channel
    got         \* got[c]: what the caller has taken out of it

sessionVars == <<registered, phase, broken, outOpen>>
maps == <<outbound, pending, streams>>
wire == <<inbound, reader, outq, asked, replied>>
callVars == <<pc, link, chan, got>>
vars == <<sessionVars, maps, wire, callVars>>

Init ==
    /\ registered = NoLink
    /\ phase = [s \in Sessions |-> "new"]
    /\ broken = {} /\ outOpen = {} /\ outbound = {}
    /\ pending = [s \in Sessions \cup {NoLink} |-> {}]
    /\ streams = [s \in Sessions \cup {NoLink} |-> {}]
    /\ inbound = [s \in Sessions |-> <<>>]
    /\ reader = [s \in Sessions |-> Nobody]
    /\ outq = [s \in Sessions |-> {}] /\ asked = [s \in Sessions |-> {}]
    /\ replied = [c \in Calls |-> 0]
    /\ pc = [c \in Calls |-> "idle"]
    /\ link = [c \in Calls |-> NoLink]
    /\ chan = [c \in Calls |-> <<>>]
    /\ got = [c \in Calls |-> <<>>]

-----------------------------------------------------------------------------
(* Hub::session and the agent's connection *)

SetPhase(s, ph) == phase' = [phase EXCEPT ![s] = ph]

\* AgentRegistry::connect: refused while the host has an entry
Connect(s) ==
    /\ phase[s] = "new"
    /\ s > 1 => phase[s - 1] # "new"
    /\ registered = NoLink
    /\ registered' = s
    /\ outOpen' = outOpen \cup {s}
    /\ SetPhase(s, "connected")
    /\ UNCHANGED <<broken, maps, wire, callVars>>

SetOutbound(s) ==
    /\ phase[s] = "connected"
    /\ outbound' = outbound \cup {s}
    /\ SetPhase(s, "touching")
    /\ UNCHANGED <<registered, broken, outOpen, pending, streams, wire, callVars>>

\* touch_host_last_seen has returned: the reader task is spawned
SpawnReader(s) ==
    /\ phase[s] = "touching"
    /\ SetPhase(s, "up")
    /\ UNCHANGED <<registered, broken, outOpen, maps, wire, callVars>>

\* The connection goes away; what the reader has not read yet may be lost.
ConnectionLost(s) ==
    /\ phase[s] \in {"connected", "touching", "up"}
    /\ s \notin broken
    /\ broken' = broken \cup {s}
    /\ \E n \in 0..Len(inbound[s]) : inbound' = [inbound EXCEPT ![s] = SubSeq(@, 1, n)]
    /\ UNCHANGED <<registered, phase, outOpen, maps, reader, outq, asked, replied, callVars>>

\* The connection is gone before the handler has spawned the reader: tonic
\* drops the handler at the await it is at.
HandlerDropped(s) ==
    /\ phase[s] \in {"connected", "touching"}
    /\ s \in broken
    /\ SetPhase(s, "dropped")
    /\ outOpen' = outOpen \ {s}
    /\ UNCHANGED <<registered, broken, maps, wire, callVars>>

\* tonic drops the response stream, and with it the outbound receiver
ResponseDropped(s) ==
    /\ phase[s] \notin {"connected", "touching"}
    /\ s \in broken \cap outOpen
    /\ outOpen' = outOpen \ {s}
    /\ UNCHANGED <<registered, phase, broken, maps, wire, callVars>>

-----------------------------------------------------------------------------
(* The reader task: resolve each message, then take the link down *)

\* the call's receiver has been dropped
Gone == {"ending", "done", "dropped"}

\* resolve: look up the stream, or hand over to the one-shot, or drop
Resolve(s) ==
    /\ phase[s] = "up"
    /\ reader[s] = Nobody
    /\ inbound[s] # <<>>
    /\ LET m == Head(inbound[s]) IN
         /\ inbound' = [inbound EXCEPT ![s] = Tail(@)]
         /\ reader' = [reader EXCEPT ![s] = IF m[1] \in streams[s] THEN m ELSE Nobody]
         /\ pending' = [pending EXCEPT ![s] = @ \ ({m[1]} \ streams[s])]
         /\ chan' = IF m[1] \in pending[s] \ streams[s]
                      THEN [chan EXCEPT ![m[1]] = Append(@, m[2])] ELSE chan
    /\ UNCHANGED <<sessionVars, outbound, streams, outq, asked, replied, pc, link, got>>

\* variant: a full channel forgets its oldest reply
ResolveOverwrites(s) ==
    /\ reader[s] # Nobody
    /\ LET c == reader[s][1]
           kept == IF Len(chan[c]) < Cap THEN chan[c] ELSE Tail(chan[c])
       IN chan' = [chan EXCEPT ![c] = Append(kept, reader[s][2])]
    /\ reader' = [reader EXCEPT ![s] = Nobody]
    /\ UNCHANGED <<sessionVars, maps, inbound, outq, asked, replied, pc, link, got>>

\* resolve: `sender.send(payload).await` waits for room, or for the receiver
\* to be dropped
ResolveSend(s) ==
    /\ reader[s] # Nobody
    /\ LET c == reader[s][1] IN
         \/ /\ pc[c] \in Gone
            /\ UNCHANGED chan
         \/ /\ pc[c] \notin Gone
            /\ Len(chan[c]) < Cap
            /\ chan' = [chan EXCEPT ![c] = Append(@, reader[s][2])]
    /\ reader' = [reader EXCEPT ![s] = Nobody]
    /\ UNCHANGED <<sessionVars, maps, inbound, outq, asked, replied, pc, link, got>>

\* variant: the end of the session is handled only when no stream is open
DisconnectWhenIdle(s) ==
    /\ phase[s] = "up"
    /\ s \in broken
    /\ inbound[s] = <<>> /\ reader[s] = Nobody
    /\ streams[s] = {}
    /\ registered' = NoLink
    /\ SetPhase(s, "disconnected")
    /\ UNCHANGED <<broken, outOpen, maps, wire, callVars>>

\* incoming.message() has ended: AgentRegistry::disconnect
Disconnect(s) ==
    /\ phase[s] = "up"
    /\ s \in broken
    /\ inbound[s] = <<>> /\ reader[s] = Nobody
    /\ registered' = NoLink
    /\ SetPhase(s, "disconnected")
    /\ UNCHANGED <<broken, outOpen, maps, wire, callVars>>

\* fail_all_pending, one lock at a time
FailPending(s) ==
    /\ phase[s] = "disconnected"
    /\ pending' = [pending EXCEPT ![s] = {}]
    /\ SetPhase(s, "no_pending")
    /\ UNCHANGED <<registered, broken, outOpen, outbound, streams, wire, callVars>>

FailStreams(s) ==
    /\ phase[s] = "no_pending"
    /\ streams' = [streams EXCEPT ![s] = {}]
    /\ SetPhase(s, "no_streams")
    /\ UNCHANGED <<registered, broken, outOpen, outbound, pending, wire, callVars>>

FailOutbound(s) ==
    /\ phase[s] = "no_streams"
    /\ outbound' = outbound \ {s}
    /\ SetPhase(s, "dead")
    /\ UNCHANGED <<registered, broken, outOpen, pending, streams, wire, callVars>>

-----------------------------------------------------------------------------
(* The agent: requests leave the outbound channel, replies come back *)

AgentReceives(s, c) ==
    /\ s \notin broken
    /\ phase[s] = "up"
    /\ c \in outq[s]
    /\ outq' = [outq EXCEPT ![s] = @ \ {c}]
    /\ asked' = [asked EXCEPT ![s] = @ \cup {c}]
    /\ UNCHANGED <<sessionVars, maps, inbound, reader, replied, callVars>>

AgentReplies(s, c) ==
    /\ s \notin broken
    /\ c \in asked[s]
    /\ replied[c] < IF c \in OneShot THEN 1 ELSE Replies
    /\ replied' = [replied EXCEPT ![c] = @ + 1]
    /\ inbound' = [inbound EXCEPT ![s] = Append(@, <<c, replied[c] + 1>>)]
    /\ UNCHANGED <<sessionVars, maps, reader, outq, asked, callVars>>

-----------------------------------------------------------------------------
(* A call *)

Step(c, l) == pc' = [pc EXCEPT ![c] = l]

\* the call leaves neither map behind when it gives up
Forget(c) ==
    /\ pending' = [pending EXCEPT ![link[c]] = @ \ {c}]
    /\ streams' = [streams EXCEPT ![link[c]] = @ \ {c}]
    /\ UNCHANGED outbound

GetLink(c) ==
    /\ pc[c] = "idle"
    /\ link' = [link EXCEPT ![c] = registered]
    /\ Step(c, "insert")
    /\ UNCHANGED <<sessionVars, maps, wire, chan, got>>

\* variant: every call registers in the one-shot map
InsertOneShot(c) ==
    /\ pc[c] = "insert"
    /\ pending' = [pending EXCEPT ![link[c]] = @ \cup {c}]
    /\ Step(c, "outbound")
    /\ UNCHANGED <<sessionVars, outbound, streams, wire, link, chan, got>>

Insert(c) ==
    /\ pc[c] = "insert"
    /\ IF c \in OneShot
         THEN pending' = [pending EXCEPT ![link[c]] = @ \cup {c}] /\ UNCHANGED streams
         ELSE streams' = [streams EXCEPT ![link[c]] = @ \cup {c}] /\ UNCHANGED pending
    /\ Step(c, "outbound")
    /\ UNCHANGED <<sessionVars, outbound, wire, link, chan, got>>

GetOutbound(c) ==
    /\ pc[c] = "outbound"
    /\ IF link[c] \in outbound
         THEN Step(c, "send") /\ UNCHANGED maps
         ELSE Step(c, "done") /\ Forget(c)
    /\ UNCHANGED <<sessionVars, wire, link, chan, got>>

\* A send waits for room in the outbound channel; it succeeds as long as the
\* receiver is there, whether or not the request is ever delivered.
Send(c) ==
    /\ pc[c] = "send"
    /\ \/ /\ link[c] \in outOpen
          /\ Cardinality(outq[link[c]]) < OutCap
          /\ outq' = [outq EXCEPT ![link[c]] = @ \cup {c}]
          /\ Step(c, "wait")
          /\ UNCHANGED maps
       \/ /\ link[c] \notin outOpen
          /\ Step(c, "done")
          /\ Forget(c)
          /\ UNCHANGED outq
    /\ UNCHANGED <<sessionVars, inbound, reader, asked, replied, link, chan, got>>

\* the next message of the channel; a one-shot or the last reply ends the call
Receive(c) ==
    /\ pc[c] = "wait"
    /\ chan[c] # <<>>
    /\ got' = [got EXCEPT ![c] = Append(@, Head(chan[c]))]
    /\ chan' = [chan EXCEPT ![c] = Tail(@)]
    /\ \/ c \in OneShot /\ Step(c, "done")
       \/ c \in Streaming /\ Head(chan[c]) = Replies /\ Step(c, "ending")
       \/ c \in Streaming /\ Head(chan[c]) # Replies /\ UNCHANGED pc
    /\ UNCHANGED <<sessionVars, maps, wire, link>>

\* the link dropped the sender: the caller sees a closed channel
ChannelClosed(c) ==
    /\ pc[c] = "wait"
    /\ chan[c] = <<>>
    /\ c \notin pending[link[c]] \cup streams[link[c]]
    /\ ~ \E r \in 1..Replies : reader[link[c]] = <<c, r>>
    /\ Step(c, "done")
    /\ UNCHANGED <<sessionVars, maps, wire, link, chan, got>>

\* variant: the timed-out call stays in the map
CallTimeoutKeepsEntry(c) ==
    /\ c \in OneShot
    /\ pc[c] = "wait"
    /\ chan[c] = <<>>
    /\ Step(c, "done")
    /\ UNCHANGED <<sessionVars, maps, wire, link, chan, got>>

\* variant: only a call whose host is gone times out
CallTimeoutWhenGone(c) ==
    /\ c \in OneShot
    /\ pc[c] = "wait"
    /\ chan[c] = <<>>
    /\ registered = NoLink
    /\ Forget(c)
    /\ Step(c, "done")
    /\ UNCHANGED <<sessionVars, wire, link, chan, got>>

\* the timeout of a one-shot call's reply; streaming calls have none
CallTimeout(c) ==
    /\ c \in OneShot
    /\ pc[c] = "wait"
    /\ chan[c] = <<>>
    /\ Forget(c)
    /\ Step(c, "done")
    /\ UNCHANGED <<sessionVars, wire, link, chan, got>>

\* the client goes away while its response is streamed: EndStreamOnDrop
EndStreamOnDrop(c) ==
    /\ c \in Streaming
    /\ pc[c] = "wait"
    /\ Step(c, "ending")
    /\ UNCHANGED <<sessionVars, maps, wire, link, chan, got>>

EndStream(c) ==
    /\ pc[c] = "ending"
    /\ Forget(c)
    /\ Step(c, "done")
    /\ UNCHANGED <<sessionVars, wire, link, chan, got>>

\* the request that made the call is dropped at an await; nothing cleans up
CallDropped(c) ==
    /\ pc[c] \in {"insert", "outbound", "send", "wait"}
    /\ Step(c, "dropped")
    /\ UNCHANGED <<sessionVars, maps, wire, link, chan, got>>

-----------------------------------------------------------------------------
SessionStep(s) ==
    \/ SetOutbound(s) \/ SpawnReader(s) \/ HandlerDropped(s) \/ ResponseDropped(s)
    \/ Disconnect(s) \/ FailPending(s) \/ FailStreams(s) \/ FailOutbound(s)

ReaderStep(s) == Resolve(s) \/ ResolveSend(s)

CallStep(c) ==
    \/ Insert(c) \/ GetOutbound(c) \/ Send(c)
    \/ ChannelClosed(c) \/ CallTimeout(c) \/ EndStream(c)

Next ==
    \/ \E s \in Sessions :
          \/ Connect(s) \/ ConnectionLost(s) \/ SessionStep(s) \/ ReaderStep(s)
          \/ \E c \in Calls : AgentReceives(s, c) \/ AgentReplies(s, c)
    \/ \E c \in Calls :
          \/ GetLink(c) \/ CallStep(c) \/ Receive(c)
          \/ EndStreamOnDrop(c) \/ CallDropped(c)

Spec == Init /\ [][Next]_vars

(* tokio polls every task that can run: the session handler, its reader and *)
(* the callers all make progress, a timeout eventually fires, and the       *)
(* consumer of a stream takes what is in its channel (a log pump always     *)
(* does, a browser that has stalled does not).  Nothing is assumed of the   *)
(* agent: it may stop reading its session while it waits for a container    *)
(* (berth-agent/src/main.rs:143-158, relay.rs:61-63), and it need not       *)
(* reply.  One condition for all is enough: every step uses up something,   *)
(* so none can starve another.                                              *)
Progress ==
    \/ \E s \in Sessions : SessionStep(s) \/ ReaderStep(s)
    \/ \E c \in Calls : CallStep(c) \/ Receive(c)

FairSpec == Spec /\ WF_vars(Progress)

-----------------------------------------------------------------------------
Phases == {"new", "connected", "touching", "dropped", "up", "disconnected",
           "no_pending", "no_streams", "dead"}

(* Type invariant of the link, the registry and the calls.                  *)
TypeOK ==
    /\ registered \in Sessions \cup {NoLink}
    /\ phase \in [Sessions -> Phases]
    /\ broken \subseteq Sessions /\ outOpen \subseteq Sessions /\ outbound \subseteq Sessions
    /\ pending \in [Sessions \cup {NoLink} -> SUBSET OneShot]
    /\ streams \in [Sessions \cup {NoLink} -> SUBSET Streaming]
    /\ inbound \in [Sessions -> Seq(Calls \X (1..Replies))]
    /\ reader \in [Sessions -> (Streaming \X (1..Replies)) \cup {Nobody}]
    /\ outq \in [Sessions -> SUBSET Calls] /\ asked \in [Sessions -> SUBSET Calls]
    /\ replied \in [Calls -> 0..Replies]
    /\ pc \in [Calls -> {"idle", "insert", "outbound", "send", "wait", "ending", "done", "dropped"}]
    /\ link \in [Calls -> Sessions \cup {NoLink}]
    /\ chan \in [Calls -> Seq(1..Replies)]
    /\ got \in [Calls -> Seq(1..Replies)]

\* a call as its caller sees it, and the calls that are with the agent or on
\* their way to it
Seen(l) == CASE l = "idle" -> "idle" [] l \in Gone -> "over" [] OTHER -> "open"
Status == [c \in Calls |-> Seen(pc[c])]
Requested == {c \in Calls : \E s \in Sessions : c \in outq[s] \cup asked[s]}
Limit == [c \in Calls |-> IF c \in OneShot THEN 1 ELSE Replies]

(* Maps, reader and channels together are what RemoteCalls promises: what a *)
(* caller gets is what the agent sent to that very call, in order and       *)
(* without a gap, never more than it asked for and never after its end,     *)
(* however resolve interleaves with end_stream, timeouts and the end of the *)
(* session.                                                                 *)
Remote == INSTANCE RemoteCalls WITH
    status <- Status, requested <- Requested, sent <- replied, taken <- got

ImplementsCalls == Remote!Spec

(* A call that has returned, with a result, a timeout or an error, is in    *)
(* neither map of its link: nothing is left for resolve to hold open.       *)
NoStaleEntry ==
    \A c \in Calls : pc[c] = "done" => c \notin pending[link[c]] \cup streams[link[c]]

(* The registry names the one session that is being served, and a session   *)
(* that is up is always the registered one: disconnect, which removes by    *)
(* host, never removes a newer session of the same host.                    *)
OneSessionPerHost ==
    \A s \in Sessions : phase[s] \in {"connected", "touching", "up"} => registered = s

(* The link's maps and the registry agree with the calls and the sessions   *)
(* that are there.                                                          *)
TablesCurrent == NoStaleEntry /\ OneSessionPerHost

(* A session whose reader runs is unregistered once its stream has ended    *)
(* (grpc.rs:63; a connection lost without a sign has not), so the agent's   *)
(* next dial is accepted; a reader that waits for room in a stream's        *)
(* channel does not prevent it.                                             *)
LostSessionUnregistered ==
    []<>(\A s \in Sessions : phase[s] = "up" /\ s \in broken => registered # s)

(* the outbound channel is full, and the agent that does not read it is     *)
(* still connected                                                          *)
SendBlocked(c) ==
    /\ pc[c] = "send"
    /\ link[c] \in outOpen \ broken
    /\ Cardinality(outq[link[c]]) >= OutCap

(* Every one-shot call ends: with its reply, a timeout, or an error when    *)
(* the session ends.  Left out is one that waits for room to send: the      *)
(* timeout covers the reply (agent_link.rs:168-172), not the send (120), so *)
(* it hangs for as long as the agent stays connected and does not read.     *)
OneShotReturns ==
    \A c \in OneShot : []<>(pc[c] \in {"idle", "done", "dropped"} \/ SendBlocked(c))

(* fail_all_pending "unblocks every waiting caller (closed channel/stream   *)
(* instead of hanging)": once the link is dead no stream's caller waits,    *)
(* except one that entered the map after it was emptied and sent before the *)
(* outbound sender was dropped (agent_link.rs:94-97).                       *)
StreamCallersUnblocked ==
    \A c \in Streaming :
        []<>~(pc[c] = "wait" /\ phase[link[c]] = "dead" /\ c \notin streams[link[c]])

(* The end of a session reaches every caller, of either kind.               *)
CallersReturn == OneShotReturns /\ StreamCallersUnblocked
=============================================================================
