--------------------------- MODULE AgentLinkProofs --------------------------
(***************************************************************************)
(* Proofs about AgentLink, for any number of calls and sessions and        *)
(* channels of any capacity: the registry never names a session other than *)
(* the one being served, a call that has returned is in no map, the chunks *)
(* of a streamed reply reach their caller in order and complete, and the   *)
(* link implements RemoteCalls.                                            *)
(***************************************************************************)
EXTENDS AgentLink, TLAPS

MapTypes ==
    /\ registered \in Sessions \cup {NoLink}
    /\ phase \in [Sessions -> Phases]
    /\ pending \in [Sessions \cup {NoLink} -> SUBSET OneShot]
    /\ streams \in [Sessions \cup {NoLink} -> SUBSET Streaming]
    /\ pc \in [Calls -> {"idle", "insert", "outbound", "send", "wait", "ending", "done", "dropped"}]
    /\ link \in [Calls -> Sessions \cup {NoLink}]
    /\ DOMAIN chan = Calls
    /\ inbound \in [Sessions -> Seq(Calls \X (1..Replies))]
    /\ replied \in [Calls -> 0..Replies]
    /\ reader \in [Sessions -> (Streaming \X (1..Replies)) \cup {Nobody}]

(* A call is only ever in a map of the link it took from the registry, and  *)
(* only after it has put itself there.                                      *)
EntriesAreTheCallsOwn ==
    \A c \in Calls : \A s \in Sessions \cup {NoLink} :
        c \in pending[s] \cup streams[s] => s = link[c] /\ pc[c] \notin {"idle", "insert"}

(* A one-shot call whose channel holds its reply has left the map: resolve  *)
(* removes the sender before it uses it.                                    *)
AnsweredIsRemoved ==
    \A c \in OneShot : chan[c] # <<>> =>
        pc[c] \notin {"idle", "insert"} /\ c \notin pending[link[c]]

LinkInv ==
    /\ MapTypes
    /\ EntriesAreTheCallsOwn
    /\ AnsweredIsRemoved
    /\ NoStaleEntry
    /\ OneSessionPerHost

USE LinkAssumption DEF Calls, Sessions, NoLink, Nobody, Phases

\* Init => LinkInv: nothing is registered and every map is empty
LEMMA InitLink == Init => LinkInv
  BY DEF Init, LinkInv, MapTypes, EntriesAreTheCallsOwn, AnsweredIsRemoved,
         NoStaleEntry, OneSessionPerHost

USE DEF LinkInv, MapTypes, EntriesAreTheCallsOwn, AnsweredIsRemoved,
        NoStaleEntry, OneSessionPerHost, sessionVars, maps, wire, callVars,
        SetPhase, Step, Forget

\* The session handler and its reader task preserve the invariant
LEMMA SessionKeeps ==
  ASSUME LinkInv, NEW s \in Sessions,
         Connect(s) \/ ConnectionLost(s) \/ SessionStep(s)
  PROVE  LinkInv'
<1>1. CASE Connect(s) BY <1>1 DEF Connect
<1>2. CASE ConnectionLost(s)
  <2>1. PICK n \in 0..Len(inbound[s]) : inbound' = [inbound EXCEPT ![s] = SubSeq(@, 1, n)]
    BY <1>2 DEF ConnectionLost
  <2>2. SubSeq(inbound[s], 1, n) \in Seq(Calls \X (1..Replies))
    <3>1. inbound[s] \in Seq(Calls \X (1..Replies)) OBVIOUS
    <3> HIDE DEF LinkInv, Calls
    <3> QED BY <3>1
  <2>3. inbound' \in [Sessions -> Seq(Calls \X (1..Replies))]
    BY <2>1, <2>2
  <2> QED BY <1>2, <2>3 DEF ConnectionLost
<1>3. CASE SetOutbound(s) BY <1>3 DEF SetOutbound
<1>4. CASE SpawnReader(s) BY <1>4 DEF SpawnReader
<1>5. CASE HandlerDropped(s) BY <1>5 DEF HandlerDropped
<1>6. CASE ResponseDropped(s) BY <1>6 DEF ResponseDropped
<1>7. CASE Disconnect(s) BY <1>7 DEF Disconnect
<1>8. CASE FailPending(s) BY <1>8 DEF FailPending
<1>9. CASE FailStreams(s) BY <1>9 DEF FailStreams
<1>10. CASE FailOutbound(s) BY <1>10 DEF FailOutbound
<1> QED BY <1>1, <1>2, <1>3, <1>4, <1>5, <1>6, <1>7, <1>8, <1>9, <1>10 DEF SessionStep

\* resolve preserves the invariant
LEMMA ReaderKeeps ==
  ASSUME LinkInv, NEW s \in Sessions, ReaderStep(s)
  PROVE  LinkInv'
<1>1. CASE Resolve(s)
  <2>1. UNCHANGED <<registered, phase, streams, replied, pc, link>> /\ inbound[s] # <<>>
    BY <1>1 DEF Resolve
  <2>2. PICK m \in Calls \X (1..Replies) : m = Head(inbound[s])
    BY <2>1
  <2>3. /\ inbound' = [inbound EXCEPT ![s] = Tail(inbound[s])]
        /\ reader' = [reader EXCEPT ![s] = IF m[1] \in streams[s] THEN m ELSE Nobody]
        /\ pending' = [pending EXCEPT ![s] = @ \ ({m[1]} \ streams[s])]
        /\ chan' = IF m[1] \in pending[s] \ streams[s]
                     THEN [chan EXCEPT ![m[1]] = Append(@, m[2])] ELSE chan
    BY <1>1, <2>2 DEF Resolve
  <2>4. MapTypes'
    <3>1. inbound' \in [Sessions -> Seq(Calls \X (1..Replies))]
      BY <2>1, <2>3, SMTT(30)
    <3>2. reader' \in [Sessions -> (Streaming \X (1..Replies)) \cup {Nobody}]
      <4>1. CASE m[1] \in streams[s]
        <5>1. m \in Streaming \X (1..Replies) BY <2>2, <4>1
        <5> QED BY <2>3, <4>1, <5>1
      <4>2. CASE m[1] \notin streams[s] BY <2>3, <4>2
      <4> QED BY <4>1, <4>2
    <3> QED BY <2>1, <2>3, <3>1, <3>2
  <2>5. \A t \in Sessions \cup {NoLink} : pending'[t] \subseteq pending[t] BY <2>3
  <2>6. \A c \in Calls : c # m[1] => chan'[c] = chan[c] BY <2>3
  <2>7. m[1] \in OneShot /\ chan'[m[1]] # chan[m[1]] =>
          m[1] \in pending[s] /\ m[1] \notin pending'[s]
    BY <2>2, <2>3
  <2>8. OneSessionPerHost' BY <2>1
  <2>9. EntriesAreTheCallsOwn' BY <2>1, <2>5
  <2>10. NoStaleEntry' BY <2>1, <2>5
  <2>11. AnsweredIsRemoved'
    <3> SUFFICES ASSUME NEW c \in OneShot, chan'[c] # <<>>
                 PROVE  pc[c] \notin {"idle", "insert"} /\ c \notin pending'[link[c]]
      BY <2>1
    <3>1. CASE chan'[c] = chan[c]
      <4>1. link[c] \in Sessions \cup {NoLink} OBVIOUS
      <4>2. pc[c] \notin {"idle", "insert"} /\ c \notin pending[link[c]] BY <3>1
      <4> QED BY <2>5, <4>1, <4>2
    <3>2. CASE chan'[c] # chan[c]
      <4>1. c = m[1] BY <2>6, <3>2
      <4>2. c \in pending[s] /\ c \notin pending'[s] BY <2>7, <3>2, <4>1
      <4>3. s = link[c] /\ pc[c] \notin {"idle", "insert"} BY <4>2
      <4> QED BY <4>2, <4>3
    <3> QED BY <3>1, <3>2
  <2> QED BY <2>4, <2>8, <2>9, <2>10, <2>11
<1>2. CASE ResolveSend(s)
  <2>1. UNCHANGED <<registered, phase, pending, streams, inbound, replied, pc, link>>
    BY <1>2 DEF ResolveSend
  <2>2. PICK r \in Streaming \X (1..Replies) : reader[s] = r
    BY <1>2 DEF ResolveSend
  <2>3. \/ chan' = chan
        \/ chan' = [chan EXCEPT ![r[1]] = Append(@, r[2])]
    BY <1>2, <2>2 DEF ResolveSend
  <2>4. r[1] \notin OneShot
    BY <2>2
  <2>6. DOMAIN chan' = Calls BY <2>3
  <2>7. reader' \in [Sessions -> (Streaming \X (1..Replies)) \cup {Nobody}]
    BY <1>2 DEF ResolveSend
  <2>8. MapTypes' BY <2>1, <2>6, <2>7
  <2>9. \A c \in OneShot : chan'[c] = chan[c] BY <2>3, <2>4
  <2>10. AnsweredIsRemoved' BY <2>1, <2>9
  <2>11. EntriesAreTheCallsOwn' BY <2>1
  <2>12. NoStaleEntry' BY <2>1
  <2>13. OneSessionPerHost' BY <2>1
  <2> QED BY <2>8, <2>10, <2>11, <2>12, <2>13
<1> QED BY <1>1, <1>2 DEF ReaderStep

\* The agent touches none of the hub's maps
LEMMA AgentKeeps ==
  ASSUME LinkInv, NEW s \in Sessions, NEW c \in Calls,
         AgentReceives(s, c) \/ AgentReplies(s, c)
  PROVE  LinkInv'
<1>1. CASE AgentReceives(s, c) BY <1>1 DEF AgentReceives
<1>2. CASE AgentReplies(s, c)
  <2>1. /\ replied[c] \in Nat /\ replied[c] + 1 \in 1..Replies
        /\ UNCHANGED <<registered, phase, pending, streams, reader, pc, link, chan>>
    BY <1>2 DEF AgentReplies
  <2>2. <<c, replied[c] + 1>> \in Calls \X (1..Replies) BY <2>1
  <2>3. inbound' \in [Sessions -> Seq(Calls \X (1..Replies))]
    BY <1>2, <2>2 DEF AgentReplies
  <2>4. replied' \in [Calls -> 0..Replies] BY <1>2, <2>1 DEF AgentReplies
  <2> QED BY <2>1, <2>3, <2>4
<1> QED BY <1>1, <1>2

\* Every step of a call preserves the invariant
LEMMA CallKeeps ==
  ASSUME LinkInv, NEW c \in Calls,
         GetLink(c) \/ CallStep(c) \/ Receive(c) \/ EndStreamOnDrop(c) \/ CallDropped(c)
  PROVE  LinkInv'
<1>1. CASE GetLink(c) BY <1>1 DEF GetLink
<1>2. CASE Insert(c)
  <2>1. /\ pc[c] = "insert"
        /\ pc' = [pc EXCEPT ![c] = "outbound"]
        /\ UNCHANGED <<registered, phase, inbound, reader, replied, link, chan>>
    BY <1>2 DEF Insert
  <2>2. CASE c \in OneShot
    <3>1. pending' = [pending EXCEPT ![link[c]] = @ \cup {c}] /\ streams' = streams
      BY <1>2, <2>2 DEF Insert
    <3> QED BY <2>1, <2>2, <3>1, SMTT(90)
  <2>3. CASE c \notin OneShot
    <3>1. streams' = [streams EXCEPT ![link[c]] = @ \cup {c}] /\ pending' = pending
      BY <1>2, <2>3 DEF Insert
    <3> QED BY <2>1, <2>3, <3>1
  <2> QED BY <2>2, <2>3
<1>3. CASE GetOutbound(c)
  <2>1. /\ pc[c] = "outbound"
        /\ UNCHANGED <<registered, phase, inbound, reader, replied, link, chan>>
    BY <1>3 DEF GetOutbound
  <2>2. CASE pc' = [pc EXCEPT ![c] = "send"] /\ UNCHANGED maps
    BY <2>1, <2>2
  <2>3. CASE pc' = [pc EXCEPT ![c] = "done"] /\ Forget(c)
    BY <2>1, <2>3, SMTT(90)
  <2> QED BY <1>3, <2>2, <2>3 DEF GetOutbound
<1>4. CASE Send(c)
  <2>1. /\ pc[c] = "send"
        /\ UNCHANGED <<registered, phase, inbound, reader, replied, link, chan>>
    BY <1>4 DEF Send
  <2>2. CASE pc' = [pc EXCEPT ![c] = "wait"] /\ UNCHANGED maps
    BY <2>1, <2>2
  <2>3. CASE pc' = [pc EXCEPT ![c] = "done"] /\ Forget(c)
    BY <2>1, <2>3, SMTT(30)
  <2> QED BY <1>4, <2>2, <2>3 DEF Send
<1>5. CASE Receive(c)
  <2>1. /\ pc[c] = "wait" /\ chan[c] # <<>>
        /\ chan' = [chan EXCEPT ![c] = Tail(chan[c])]
        /\ UNCHANGED <<registered, phase, pending, streams, inbound, reader, replied, link>>
        /\ \/ c \in OneShot /\ pc' = [pc EXCEPT ![c] = "done"]
           \/ c \in Streaming /\ pc' = [pc EXCEPT ![c] = "ending"]
           \/ c \in Streaming /\ pc' = pc
    BY <1>5 DEF Receive
  <2>2. MapTypes' BY <2>1, ZenonT(40)
  <2>3. \A d \in Calls \ {c} : chan'[d] = chan[d] /\ pc'[d] = pc[d] BY <2>1
  <2>4. pc'[c] \in {"wait", "ending", "done"} /\ (pc'[c] = "done" => c \in OneShot) BY <2>1
  <2>5. OneSessionPerHost' BY <2>1
  <2>6. EntriesAreTheCallsOwn' BY <2>1, <2>3, <2>4
  <2>7. AnsweredIsRemoved' BY <2>1, <2>3, <2>4
  <2>8. NoStaleEntry' BY <2>1, <2>3, <2>4
  <2> QED BY <2>2, <2>5, <2>6, <2>7, <2>8
<1>6. CASE ChannelClosed(c) BY <1>6 DEF ChannelClosed
<1>7. CASE CallTimeout(c) BY <1>7, SMTT(90) DEF CallTimeout
<1>8. CASE EndStream(c) BY <1>8 DEF EndStream
<1>9. CASE EndStreamOnDrop(c) BY <1>9 DEF EndStreamOnDrop
<1>10. CASE CallDropped(c) BY <1>10 DEF CallDropped
<1> QED BY <1>1, <1>2, <1>3, <1>4, <1>5, <1>6, <1>7, <1>8, <1>9, <1>10 DEF CallStep

\* The invariant is inductive
LEMMA NextLink == LinkInv /\ [Next]_vars => LinkInv'
<1> SUFFICES ASSUME LinkInv, [Next]_vars PROVE LinkInv'
  OBVIOUS
<1>1. CASE UNCHANGED vars BY <1>1 DEF vars
<1>2. CASE Next BY <1>2, SessionKeeps, ReaderKeeps, AgentKeeps, CallKeeps DEF Next
<1> QED BY <1>1, <1>2

(* At every moment at most one session of a host is being served and the    *)
(* registry names it: connect refuses while an entry exists, so disconnect, *)
(* which removes by host id, removes its own entry.                         *)
THEOREM RegistryNamesServedSession == Spec => []OneSessionPerHost
<1>1. LinkInv => OneSessionPerHost OBVIOUS
<1> QED BY <1>1, InitLink, NextLink, PTL DEF Spec

(* A call that has returned has left both maps of its link, on every path:  *)
(* reply, timeout, closed channel, failed send, end_stream.                 *)
THEOREM ReturnedCallsLeaveNoEntry == Spec => []NoStaleEntry
<1>1. LinkInv => NoStaleEntry OBVIOUS
<1> QED BY <1>1, InitLink, NextLink, PTL DEF Spec

(* The maps and the registry together, as the run on small instances has    *)
(* them: what resolve and disconnect find belongs to a call or a session    *)
(* that is there.                                                           *)
THEOREM TablesStayCurrent == Spec => []TablesCurrent
<1>1. LinkInv => TablesCurrent BY DEF TablesCurrent
<1> QED BY <1>1, InitLink, NextLink, PTL DEF Spec

HIDE DEF LinkInv, MapTypes, EntriesAreTheCallsOwn, AnsweredIsRemoved, NoStaleEntry,
         OneSessionPerHost, Calls, Sessions, Phases

-----------------------------------------------------------------------------
(* Types of what the maps do not need                                       *)
RestTypes ==
    /\ broken \subseteq Sessions /\ outOpen \subseteq Sessions /\ outbound \subseteq Sessions
    /\ outq \in [Sessions -> SUBSET Calls] /\ asked \in [Sessions -> SUBSET Calls]
    /\ chan \in [Calls -> Seq(1..Replies)] /\ got \in [Calls -> Seq(1..Replies)]

\* A queue of replies, with one more or one less
LEMMA Queued ==
  ASSUME NEW T, NEW q \in Seq(T), NEW x \in T
  PROVE  Append(q, x) \in Seq(T) /\ (q # <<>> => Head(q) \in T /\ Tail(q) \in Seq(T))
  OBVIOUS

\* The channels, and what the sessions hold of the connection, keep their types
LEMMA RestKept == LinkInv /\ RestTypes /\ [Next]_vars => RestTypes'
<1> SUFFICES ASSUME LinkInv, RestTypes, [Next]_vars PROVE RestTypes' OBVIOUS
<1> USE DEF RestTypes
<1>1. ASSUME NEW s \in Sessions, Connect(s) \/ ConnectionLost(s) \/ SessionStep(s) PROVE RestTypes'
  BY <1>1 DEF Connect, ConnectionLost, SessionStep, SetOutbound, SpawnReader, HandlerDropped,
              ResponseDropped, Disconnect, FailPending, FailStreams, FailOutbound
<1>2. ASSUME NEW s \in Sessions, Resolve(s) PROVE RestTypes'
  <2>1. UNCHANGED <<broken, outOpen, outbound, outq, asked, got>> BY <1>2 DEF Resolve
  <2>0. inbound[s] \in Seq(Calls \X (1..Replies)) /\ inbound[s] # <<>>
    BY <1>2 DEF Resolve, LinkInv, MapTypes
  <2>2. PICK m \in Calls \X (1..Replies) : m = Head(inbound[s]) BY <2>0
  <2>3. chan' = chan \/ chan' = [chan EXCEPT ![m[1]] = Append(@, m[2])] BY <1>2, <2>2 DEF Resolve
  <2>4. m[1] \in Calls /\ m[2] \in 1..Replies BY <2>2
  <2>5. Append(chan[m[1]], m[2]) \in Seq(1..Replies) BY <2>4, Queued
  <2> QED BY <2>1, <2>3, <2>4, <2>5
<1>3. ASSUME NEW s \in Sessions, ResolveSend(s) PROVE RestTypes'
  <2>1. UNCHANGED <<broken, outOpen, outbound, outq, asked, got>> BY <1>3 DEF ResolveSend
  <2>2. PICK m \in Streaming \X (1..Replies) : m = reader[s] BY <1>3 DEF ResolveSend, LinkInv, MapTypes
  <2>3. chan' = chan \/ chan' = [chan EXCEPT ![m[1]] = Append(@, m[2])] BY <1>3, <2>2 DEF ResolveSend
  <2>4. m[1] \in Calls /\ m[2] \in 1..Replies BY <2>2 DEF Calls
  <2>5. Append(chan[m[1]], m[2]) \in Seq(1..Replies) BY <2>4, Queued
  <2> QED BY <2>1, <2>3, <2>4, <2>5, ZenonT(40)
<1>4. ASSUME NEW s \in Sessions, NEW c \in Calls, AgentReceives(s, c) \/ AgentReplies(s, c)
      PROVE  RestTypes'
  <2>1. CASE AgentReceives(s, c)
    <3>1. UNCHANGED <<broken, outOpen, outbound, chan, got>> BY <2>1 DEF AgentReceives
    <3>2. outq' \in [Sessions -> SUBSET Calls] BY <2>1 DEF AgentReceives
    <3>3. asked' \in [Sessions -> SUBSET Calls] BY <2>1 DEF AgentReceives
    <3> QED BY <3>1, <3>2, <3>3
  <2>2. CASE AgentReplies(s, c) BY <2>2 DEF AgentReplies
  <2> QED BY <1>4, <2>1, <2>2
<1>5. ASSUME NEW c \in Calls, Receive(c) PROVE RestTypes'
  <2>1. Head(chan[c]) \in 1..Replies /\ Tail(chan[c]) \in Seq(1..Replies)
    BY <1>5, Queued DEF Receive
  <2>2. Append(got[c], Head(chan[c])) \in Seq(1..Replies) BY <2>1, Queued
  <2> QED BY <1>5, <2>1, <2>2 DEF Receive
<1>6. ASSUME NEW c \in Calls,
             GetLink(c) \/ CallStep(c) \/ EndStreamOnDrop(c) \/ CallDropped(c)
      PROVE  RestTypes'
  <2>1. CASE Send(c)
    <3>1. UNCHANGED <<broken, outOpen, outbound, asked, chan, got>> BY <2>1 DEF Send
    <3>2. outq' \in [Sessions -> SUBSET Calls]
      <4>1. CASE UNCHANGED outq BY <4>1
      <4>2. CASE outq' = [outq EXCEPT ![link[c]] = @ \cup {c}] BY <4>2
      <4> QED BY <2>1, <4>1, <4>2 DEF Send
    <3> QED BY <3>1, <3>2
  <2>2. CASE GetLink(c) \/ Insert(c) \/ GetOutbound(c) BY <2>2 DEF GetLink, Insert, GetOutbound
  <2>3. CASE ChannelClosed(c) \/ CallTimeout(c) \/ EndStream(c) \/ EndStreamOnDrop(c) \/ CallDropped(c)
    BY <2>3 DEF ChannelClosed, CallTimeout, EndStream, EndStreamOnDrop, CallDropped
  <2> QED BY <1>6, <2>1, <2>2, <2>3 DEF CallStep
<1>7. CASE UNCHANGED vars BY <1>7 DEF vars
<1> QED BY <1>1, <1>2, <1>3, <1>4, <1>5, <1>6, <1>7 DEF Next, ReaderStep

(* Types of the link, the registry, the wire and the calls' channels.       *)
THEOREM TypeCorrect == Spec => []TypeOK
<1>1. Init => RestTypes BY DEF Init, RestTypes
<1>2. LinkInv /\ RestTypes => TypeOK BY DEF LinkInv, MapTypes, RestTypes, TypeOK
<1> QED BY <1>1, <1>2, InitLink, NextLink, RestKept, PTL DEF Spec

-----------------------------------------------------------------------------
(* The order of replies.  A call is live while its receiver may still take  *)
(* something.  What the agent has sent to it is then found, in the order it *)
(* was sent, in what the caller has, in its channel, with the reader and on *)
(* the wire.                                                                *)
Live(c) == pc[c] \notin Gone

Delivered(c) == Len(got[c]) + Len(chan[c])

Held(c) == link[c] \in Sessions /\ reader[link[c]] # Nobody /\ reader[link[c]][1] = c

Taken(c) == Delivered(c) + IF Held(c) THEN 1 ELSE 0

\* q[i] is the reply r to c
IsReply(q, i, c, r) == q[i][1] = c /\ q[i][2] = r

\* q holds replies to c, those above b without a gap and none above n
InOrder(q, c, b, n) ==
    /\ \A i \in 1..Len(q) : q[i][1] = c =>
          /\ b < q[i][2] /\ q[i][2] <= n
          /\ \A r \in 1..Replies : b < r /\ r < q[i][2] =>
                \E j \in 1..Len(q) : j < i /\ IsReply(q, j, c, r)
    /\ \A i, j \in 1..Len(q) : i < j /\ q[i][1] = c /\ q[j][1] = c => q[i][2] < q[j][2]

\* and all of them up to n
UpTo(q, c, b, n) ==
    \A r \in 1..Replies : b < r /\ r <= n => \E i \in 1..Len(q) : IsReply(q, i, c, r)

\* Requests and replies travel in the session of the link the call uses.
Travels(c, s) ==
    \/ c \in outq[s] \cup asked[s]
    \/ \E i \in 1..Len(inbound[s]) : inbound[s][i][1] = c
    \/ reader[s] # Nobody /\ reader[s][1] = c

Unsent == {"idle", "insert", "outbound", "send"}

\* A live call is in its map as long as its session serves the link, a
\* one-shot until it has its reply.
Entered(c) ==
    /\ pc[c] \in {"outbound", "send", "wait"}
    /\ link[c] \in Sessions /\ phase[link[c]] \in {"new", "connected", "touching", "up"}
    => \/ c \in pending[link[c]] \cup streams[link[c]]
       \/ c \in OneShot /\ Delivered(c) > 0

Addressed(c) == \A s \in Sessions : Travels(c, s) => s = link[c] /\ pc[c] \notin Unsent

Fresh(c) == pc[c] \in Unsent => replied[c] = 0 /\ got[c] = <<>> /\ chan[c] = <<>>

GotInOrder(c) == \A i \in 1..Len(got[c]) : got[c][i] = i

InTransit(c) ==
    Live(c) =>
        /\ \A i \in 1..Len(chan[c]) : chan[c][i] = Len(got[c]) + i
        /\ Held(c) => reader[link[c]][2] = Delivered(c) + 1
        /\ Taken(c) <= replied[c]
        /\ link[c] \in Sessions => InOrder(inbound[link[c]], c, Taken(c), replied[c])
        /\ link[c] \in Sessions \ broken => UpTo(inbound[link[c]], c, Taken(c), replied[c])

CallInOrder(c) ==
    /\ Addressed(c) /\ Fresh(c) /\ Entered(c) /\ GotInOrder(c) /\ InTransit(c)
    /\ c \in OneShot => replied[c] <= 1

OrderInv == \A c \in Calls : CallInOrder(c)

Message == Calls \X (1..Replies)

\* Lemmas' queues are queues of messages
LEMMA IsMessage ==
  ASSUME NEW q \in Seq(Message), NEW i \in 1..Len(q)
  PROVE  q[i][1] \in Calls /\ q[i][2] \in 1..Replies
<1>1. q[i] \in Message OBVIOUS
<1> QED BY <1>1 DEF Message

\* A reply to c follows those before it
LEMMA AppendOwn ==
  ASSUME NEW q \in Seq(Message), NEW c \in Calls, NEW b \in Nat, NEW n \in Nat, b <= n,
         InOrder(q, c, b, n), UpTo(q, c, b, n), n + 1 \in 1..Replies
  PROVE  /\ InOrder(Append(q, <<c, n + 1>>), c, b, n + 1)
         /\ UpTo(Append(q, <<c, n + 1>>), c, b, n + 1)
<1> DEFINE m == <<c, n + 1>>
           p == Append(q, m)
<1>1. m \in Message BY DEF Message
<1>2. /\ Len(q) \in Nat /\ Len(p) = Len(q) + 1 /\ p[Len(q) + 1] = m
      /\ \A i \in 1..Len(q) : p[i] = q[i]
  BY <1>1
<1>3. m[1] = c /\ m[2] = n + 1 OBVIOUS
<1>4. \A i \in 1..Len(q) : q[i][2] \in 1..Replies BY IsMessage
<1> HIDE DEF p, m
<1>5. \A r \in 1..Replies : b < r /\ r <= n => \E j \in 1..Len(p) : j < Len(p) /\ IsReply(p, j, c, r)
  <2> SUFFICES ASSUME NEW r \in 1..Replies, b < r, r <= n
               PROVE  \E j \in 1..Len(p) : j < Len(p) /\ IsReply(p, j, c, r)
    OBVIOUS
  <2>1. PICK j \in 1..Len(q) : IsReply(q, j, c, r) BY DEF UpTo
  <2>2. j \in 1..Len(p) /\ j < Len(p) /\ p[j] = q[j] BY <1>2
  <2> QED BY <2>1, <2>2 DEF IsReply
<1>6. IsReply(p, Len(p), c, n + 1) /\ Len(p) \in 1..Len(p) BY <1>2, <1>3 DEF IsReply
<1>7. UpTo(p, c, b, n + 1)
  <2> SUFFICES ASSUME NEW r \in 1..Replies, b < r, r <= n + 1
               PROVE  \E i \in 1..Len(p) : IsReply(p, i, c, r)
    BY DEF UpTo
  <2>1. CASE r = n + 1 BY <1>6, <2>1
  <2>2. CASE r <= n BY <1>5, <2>2
  <2> QED BY <2>1, <2>2
<1>8. ASSUME NEW i \in 1..Len(p), p[i][1] = c
      PROVE  /\ b < p[i][2] /\ p[i][2] <= n + 1
             /\ \A r \in 1..Replies : b < r /\ r < p[i][2] =>
                   \E j \in 1..Len(p) : j < i /\ IsReply(p, j, c, r)
  <2>1. CASE i \in 1..Len(q)
    <3>1. p[i] = q[i] /\ q[i][1] = c /\ q[i][2] \in 1..Replies BY <1>2, <1>4, <1>8, <2>1
    <3>2. b < q[i][2] /\ q[i][2] <= n BY <2>1, <3>1 DEF InOrder
    <3>3. ASSUME NEW r \in 1..Replies, b < r, r < q[i][2]
          PROVE  \E j \in 1..Len(p) : j < i /\ IsReply(p, j, c, r)
      <4>1. PICK j \in 1..Len(q) : j < i /\ IsReply(q, j, c, r) BY <2>1, <3>1, <3>3 DEF InOrder
      <4>2. j \in 1..Len(p) /\ p[j] = q[j] BY <1>2
      <4> QED BY <4>1, <4>2 DEF IsReply
    <3> QED BY <3>1, <3>2, <3>3
  <2>2. CASE i = Len(p)
    <3>1. p[i][2] = n + 1 BY <1>6, <2>2 DEF IsReply
    <3> QED BY <1>5, <2>2, <3>1
  <2> QED BY <1>2, <2>1, <2>2
<1>9. ASSUME NEW i \in 1..Len(p), NEW j \in 1..Len(p), i < j, p[i][1] = c, p[j][1] = c
      PROVE  p[i][2] < p[j][2]
  <2>1. i \in 1..Len(q) /\ p[i] = q[i] BY <1>2, <1>9
  <2>2. CASE j \in 1..Len(q)
    <3>1. p[j] = q[j] BY <1>2, <2>2
    <3> QED BY <1>9, <2>1, <2>2, <3>1 DEF InOrder
  <2>3. CASE j = Len(p)
    <3>1. p[j][2] = n + 1 BY <1>6, <2>3 DEF IsReply
    <3>2. q[i][2] <= n /\ q[i][2] \in 1..Replies BY <1>4, <1>9, <2>1 DEF InOrder
    <3> QED BY <2>1, <3>1, <3>2
  <2> QED BY <1>2, <2>2, <2>3
<1>10. InOrder(p, c, b, n + 1) BY <1>8, <1>9 DEF InOrder
<1> QED BY <1>7, <1>10 DEF p, m

\* Only replies to other calls, or none, follow what is left of a queue
LEMMA SamePrefix ==
  ASSUME NEW q \in Seq(Message), NEW p \in Seq(Message), NEW c \in Calls, NEW b \in Nat, NEW n \in Nat,
         NEW k \in 0..Len(q), k <= Len(p),
         \A i \in 1..k : p[i] = q[i], \A i \in 1..Len(p) : p[i][1] = c => i <= k
  PROVE  /\ InOrder(q, c, b, n) => InOrder(p, c, b, n)
         /\ k = Len(q) /\ UpTo(q, c, b, n) => UpTo(p, c, b, n)
<1>1. Len(q) \in Nat /\ Len(p) \in Nat OBVIOUS
<1>2. \A i \in 1..k : i \in 1..Len(q) /\ i \in 1..Len(p) BY <1>1
<1>3. \A i \in 1..Len(p) : p[i][1] = c => i \in 1..k BY <1>1
<1>4. ASSUME InOrder(q, c, b, n) PROVE InOrder(p, c, b, n)
  <2>1. ASSUME NEW i \in 1..Len(p), p[i][1] = c
        PROVE  /\ b < p[i][2] /\ p[i][2] <= n
               /\ \A r \in 1..Replies : b < r /\ r < p[i][2] =>
                     \E j \in 1..Len(p) : j < i /\ IsReply(p, j, c, r)
    <3>1. i \in 1..k /\ i \in 1..Len(q) /\ p[i] = q[i] BY <1>2, <1>3, <2>1
    <3>2. b < q[i][2] /\ q[i][2] <= n BY <1>4, <2>1, <3>1 DEF InOrder
    <3>3. ASSUME NEW r \in 1..Replies, b < r, r < q[i][2]
          PROVE  \E j \in 1..Len(p) : j < i /\ IsReply(p, j, c, r)
      <4>1. PICK j \in 1..Len(q) : j < i /\ IsReply(q, j, c, r) BY <1>4, <2>1, <3>1, <3>3 DEF InOrder
      <4>2. j \in 1..k BY <1>1, <3>1, <4>1
      <4>3. j \in 1..Len(p) /\ p[j] = q[j] BY <1>2, <4>2
      <4> QED BY <4>1, <4>3 DEF IsReply
    <3> QED BY <3>1, <3>2, <3>3
  <2>2. ASSUME NEW i \in 1..Len(p), NEW j \in 1..Len(p), i < j, p[i][1] = c, p[j][1] = c
        PROVE  p[i][2] < p[j][2]
    <3>1. i \in 1..Len(q) /\ p[i] = q[i] /\ j \in 1..Len(q) /\ p[j] = q[j] BY <1>2, <1>3, <2>2
    <3> QED BY <1>4, <2>2, <3>1 DEF InOrder
  <2> QED BY <2>1, <2>2 DEF InOrder
<1>5. ASSUME k = Len(q), UpTo(q, c, b, n) PROVE UpTo(p, c, b, n)
  <2> SUFFICES ASSUME NEW r \in 1..Replies, b < r, r <= n
               PROVE  \E i \in 1..Len(p) : IsReply(p, i, c, r)
    BY DEF UpTo
  <2>1. PICK i \in 1..Len(q) : IsReply(q, i, c, r) BY <1>5 DEF UpTo
  <2>2. i \in 1..Len(p) /\ p[i] = q[i] BY <1>2, <1>5
  <2> QED BY <2>1, <2>2 DEF IsReply
<1> QED BY <1>4, <1>5

\* A reply to another call is not between them
LEMMA AppendOther ==
  ASSUME NEW q \in Seq(Message), NEW c \in Calls, NEW b \in Nat, NEW n \in Nat,
         NEW m \in Message, m[1] # c
  PROVE  /\ InOrder(q, c, b, n) => InOrder(Append(q, m), c, b, n)
         /\ UpTo(q, c, b, n) => UpTo(Append(q, m), c, b, n)
<1> DEFINE p == Append(q, m)
<1>1. /\ Len(q) \in Nat /\ Len(p) = Len(q) + 1 /\ p[Len(q) + 1] = m /\ p \in Seq(Message)
      /\ \A i \in 1..Len(q) : p[i] = q[i]
  OBVIOUS
<1> HIDE DEF p
<1>2. Len(q) \in 0..Len(q) /\ Len(q) <= Len(p) BY <1>1
<1>3. \A i \in 1..Len(p) : p[i][1] = c => i <= Len(q) BY <1>1
<1> QED BY <1>1, <1>2, <1>3, SamePrefix DEF p

\* What a lost connection leaves of the wire is in order
LEMMA Truncated ==
  ASSUME NEW q \in Seq(Message), NEW c \in Calls, NEW b \in Nat, NEW n \in Nat,
         NEW k \in 0..Len(q), InOrder(q, c, b, n)
  PROVE  InOrder(SubSeq(q, 1, k), c, b, n)
<1> DEFINE p == SubSeq(q, 1, k)
<1>1. Len(p) = k /\ p \in Seq(Message) /\ \A i \in 1..k : p[i] = q[i] OBVIOUS
<1> HIDE DEF p
<1>2. k <= Len(p) /\ \A i \in 1..Len(p) : p[i][1] = c => i <= k BY <1>1
<1> QED BY <1>1, <1>2, SamePrefix DEF p

\* The queue without its first message, which is not a reply to c above e
LEMMA WithoutFirst ==
  ASSUME NEW q \in Seq(Message), q # <<>>, NEW c \in Calls, NEW b \in Nat, NEW n \in Nat,
         NEW e \in Nat, b <= e, InOrder(q, c, b, n),
         q[1][1] = c => q[1][2] <= e,
         \A i \in 2..Len(q) : q[i][1] = c => e < q[i][2]
  PROVE  /\ InOrder(Tail(q), c, e, n)
         /\ UpTo(q, c, b, n) => UpTo(Tail(q), c, e, n)
<1> DEFINE p == Tail(q)
<1>1. /\ Len(q) \in Nat \ {0} /\ Len(p) = Len(q) - 1
      /\ \A i \in 1..Len(p) : p[i] = q[i + 1]
  OBVIOUS
<1> HIDE DEF p
<1>2. \A i \in 1..Len(q) : q[i][2] \in 1..Replies BY IsMessage
<1>3. \A i \in 1..Len(p) : i + 1 \in 1..Len(q) /\ i + 1 \in 2..Len(q) BY <1>1
<1>4. ASSUME NEW r \in 1..Replies, NEW j \in 1..Len(q), IsReply(q, j, c, r), e < r
      PROVE  j - 1 \in 1..Len(p) /\ IsReply(p, j - 1, c, r)
  <2>1. j # 1 BY <1>4 DEF IsReply
  <2>2. j - 1 \in 1..Len(p) /\ (j - 1) + 1 = j BY <1>1, <2>1
  <2>3. p[j - 1] = q[j] BY <1>1, <2>2
  <2> QED BY <1>4, <2>2, <2>3 DEF IsReply
<1>5. ASSUME NEW i \in 1..Len(p), p[i][1] = c
      PROVE  /\ e < p[i][2] /\ p[i][2] <= n
             /\ \A r \in 1..Replies : e < r /\ r < p[i][2] =>
                   \E j \in 1..Len(p) : j < i /\ IsReply(p, j, c, r)
  <2>1. p[i] = q[i + 1] /\ i + 1 \in 1..Len(q) /\ i + 1 \in 2..Len(q) BY <1>1, <1>3
  <2>2. e < q[i + 1][2] /\ q[i + 1][2] <= n BY <1>5, <2>1 DEF InOrder
  <2>3. ASSUME NEW r \in 1..Replies, e < r, r < q[i + 1][2]
        PROVE  \E j \in 1..Len(p) : j < i /\ IsReply(p, j, c, r)
    <3>1. b < r BY <2>3
    <3>2. PICK j \in 1..Len(q) : j < i + 1 /\ IsReply(q, j, c, r)
      BY <1>5, <2>1, <2>3, <3>1 DEF InOrder
    <3>3. j - 1 \in 1..Len(p) /\ IsReply(p, j - 1, c, r) BY <1>4, <2>3, <3>2
    <3>4. j - 1 < i BY <3>2
    <3> QED BY <3>3, <3>4
  <2> QED BY <2>1, <2>2, <2>3
<1>6. ASSUME NEW i \in 1..Len(p), NEW j \in 1..Len(p), i < j, p[i][1] = c, p[j][1] = c
      PROVE  p[i][2] < p[j][2]
  <2>1. /\ i + 1 \in 1..Len(q) /\ j + 1 \in 1..Len(q) /\ i + 1 < j + 1
        /\ p[i] = q[i + 1] /\ p[j] = q[j + 1]
    BY <1>1, <1>3, <1>6
  <2> QED BY <1>6, <2>1 DEF InOrder
<1>7. ASSUME UpTo(q, c, b, n) PROVE UpTo(p, c, e, n)
  <2> SUFFICES ASSUME NEW r \in 1..Replies, e < r, r <= n
               PROVE  \E i \in 1..Len(p) : IsReply(p, i, c, r)
    BY DEF UpTo
  <2>1. PICK j \in 1..Len(q) : IsReply(q, j, c, r) BY <1>7 DEF UpTo
  <2> QED BY <1>4, <2>1
<1>8. InOrder(p, c, e, n) BY <1>5, <1>6 DEF InOrder
<1> QED BY <1>7, <1>8 DEF p

\* The first reply on the wire is the next one, if it is to c
LEMMA TailOwn ==
  ASSUME NEW q \in Seq(Message), q # <<>>, NEW c \in Calls, NEW b \in Nat, NEW n \in Nat,
         InOrder(q, c, b, n), q[1][1] = c
  PROVE  /\ q[1][2] = b + 1 /\ b + 1 <= n
         /\ InOrder(Tail(q), c, b + 1, n)
         /\ UpTo(q, c, b, n) => UpTo(Tail(q), c, b + 1, n)
<1>1. Len(q) \in Nat \ {0} /\ 1 \in 1..Len(q) OBVIOUS
<1>2. \A i \in 1..Len(q) : q[i][2] \in 1..Replies BY IsMessage
<1>3. b < q[1][2] /\ q[1][2] <= n BY <1>1 DEF InOrder
<1>4. q[1][2] = b + 1
  <2> SUFFICES ASSUME b + 1 < q[1][2] PROVE FALSE BY <1>1, <1>2, <1>3
  <2>1. b + 1 \in 1..Replies BY <1>1, <1>2
  <2>2. \E j \in 1..Len(q) : j < 1 /\ IsReply(q, j, c, b + 1) BY <1>1, <2>1 DEF InOrder
  <2> QED BY <2>2
<1>5. \A i \in 2..Len(q) : q[i][1] = c => b + 1 < q[i][2]
  <2> SUFFICES ASSUME NEW i \in 2..Len(q), q[i][1] = c PROVE b + 1 < q[i][2] OBVIOUS
  <2>1. i \in 1..Len(q) /\ 1 < i BY <1>1
  <2>2. q[1][2] < q[i][2] BY <1>1, <2>1 DEF InOrder
  <2> QED BY <1>4, <2>2
<1>6. b <= b + 1 /\ b + 1 \in Nat /\ q[1][2] <= b + 1 BY <1>4
<1> QED BY <1>3, <1>4, <1>5, <1>6, WithoutFirst

\* and the next one is still to come, if it is not
LEMMA TailOther ==
  ASSUME NEW q \in Seq(Message), q # <<>>, NEW c \in Calls, NEW b \in Nat, NEW n \in Nat,
         InOrder(q, c, b, n), q[1][1] # c
  PROVE  InOrder(Tail(q), c, b, n) /\ (UpTo(q, c, b, n) => UpTo(Tail(q), c, b, n))
<1>1. \A i \in 2..Len(q) : q[i][1] = c => b < q[i][2] BY DEF InOrder
<1> QED BY <1>1, WithoutFirst

-----------------------------------------------------------------------------
(* Steps keep the replies in order                                          *)

\* Sizes of what a call has
LEMMA Sizes ==
  ASSUME TypeOK, NEW c \in Calls
  PROVE  /\ got[c] \in Seq(1..Replies) /\ chan[c] \in Seq(1..Replies)
         /\ Len(got[c]) \in Nat /\ Len(chan[c]) \in Nat /\ replied[c] \in 0..Replies
         /\ Delivered(c) \in Nat /\ Taken(c) \in Nat
         /\ (~Held(c) => Taken(c) = Delivered(c)) /\ (Held(c) => Taken(c) = Delivered(c) + 1)
         /\ \A s \in Sessions : inbound[s] \in Seq(Message)
<1>1. got[c] \in Seq(1..Replies) /\ chan[c] \in Seq(1..Replies) /\ replied[c] \in 0..Replies
  BY DEF TypeOK
<1>2. Len(got[c]) \in Nat /\ Len(chan[c]) \in Nat BY <1>1
<1>3. \A s \in Sessions : inbound[s] \in Seq(Message) BY DEF TypeOK, Message
<1>4. Delivered(c) \in Nat
  <2>1. \A x, y \in Nat : x + y \in Nat OBVIOUS
  <2> QED BY <1>2, <2>1 DEF Delivered
<1>5. (~Held(c) => Taken(c) = Delivered(c)) /\ (Held(c) => Taken(c) = Delivered(c) + 1)
  BY <1>4 DEF Taken
<1>6. Taken(c) \in Nat BY <1>4, <1>5
<1> QED BY <1>1, <1>2, <1>3, <1>4, <1>5, <1>6

\* A call that has no part in the step
LEMMA Untouched ==
  ASSUME NEW c \in Calls, CallInOrder(c), Entered(c)',
         pc'[c] = pc[c], link'[c] = link[c], got'[c] = got[c], chan'[c] = chan[c],
         replied'[c] = replied[c], UNCHANGED <<inbound, reader, broken>>,
         \A s \in Sessions : c \in outq'[s] \cup asked'[s] => c \in outq[s] \cup asked[s]
  PROVE  CallInOrder(c)'
<1>1. Held(c)' <=> Held(c) BY DEF Held
<1>2. Delivered(c)' = Delivered(c) BY DEF Delivered
<1>3. Taken(c)' = Taken(c) BY <1>1, <1>2 DEF Taken
<1>4. Addressed(c)' BY DEF CallInOrder, Addressed, Travels
<1>5. Fresh(c)' /\ GotInOrder(c)' BY DEF CallInOrder, Fresh, GotInOrder
<1>6. InTransit(c)' BY <1>1, <1>2, <1>3 DEF CallInOrder, InTransit, Live
<1> QED BY <1>4, <1>5, <1>6 DEF CallInOrder

\* A call whose receiver is dropped, or which was never sent
LEMMA NoLonger ==
  ASSUME NEW c \in Calls, CallInOrder(c), pc'[c] \in Gone,
         link'[c] = link[c], got'[c] = got[c], replied'[c] = replied[c],
         UNCHANGED <<inbound, reader>>,
         \A s \in Sessions : c \in outq'[s] \cup asked'[s] => c \in outq[s] \cup asked[s]
  PROVE  CallInOrder(c)'
<1>1. pc'[c] \notin Unsent /\ pc'[c] # "wait" BY DEF Gone, Unsent
<1>2. Addressed(c)' BY <1>1 DEF CallInOrder, Addressed, Travels
<1>3. Fresh(c)' /\ GotInOrder(c)' BY <1>1 DEF CallInOrder, Fresh, GotInOrder
<1>4. InTransit(c)' BY DEF InTransit, Live
<1>5. Entered(c)' BY <1>1 DEF Entered, Unsent
<1> QED BY <1>2, <1>3, <1>4, <1>5 DEF CallInOrder

\* The session handler and the end of the session
LEMMA SessionOrder ==
  ASSUME TypeOK, OrderInv, NEW s \in Sessions, Connect(s) \/ SessionStep(s)
  PROVE  OrderInv'
<1>1. UNCHANGED <<wire, callVars, broken>>
  BY DEF Connect, SessionStep, SetOutbound, SpawnReader, HandlerDropped, ResponseDropped,
         Disconnect, FailPending, FailStreams, FailOutbound
<1>2. /\ phase' = phase \/ \E ph \in Phases : phase' = [phase EXCEPT ![s] = ph]
      /\ phase'[s] \in {"new", "connected", "touching", "up"} => phase[s] \in {"new", "connected", "touching", "up"}
      /\ phase'[s] \in {"new", "connected", "touching", "up"} => UNCHANGED <<pending, streams>>
      /\ \A t \in Sessions \ {s} : pending'[t] = pending[t] /\ streams'[t] = streams[t]
  BY DEF Connect, SessionStep, SetOutbound, SpawnReader, HandlerDropped, ResponseDropped,
         Disconnect, FailPending, FailStreams, FailOutbound, Phases, TypeOK
<1>3. ASSUME NEW c \in Calls PROVE Entered(c)'
  <2>1. CallInOrder(c) BY DEF OrderInv
  <2>2. UNCHANGED <<pc, link, chan, got>> BY <1>1
  <2>3. Delivered(c)' = Delivered(c) BY <2>2 DEF Delivered
  <2>4. CASE link[c] = s BY <1>2, <2>1, <2>2, <2>3, <2>4 DEF CallInOrder, Entered
  <2>5. CASE link[c] # s /\ link[c] \in Sessions
    <3>1. phase'[link[c]] = phase[link[c]] BY <1>2, <2>5 DEF TypeOK
    <3>2. link[c] \in Sessions \ {s} BY <2>5
    <3>3. pending'[link[c]] = pending[link[c]] /\ streams'[link[c]] = streams[link[c]] BY <1>2, <3>2
    <3> QED BY <2>1, <2>2, <2>3, <3>1, <3>3 DEF CallInOrder, Entered
  <2>6. CASE link[c] \notin Sessions BY <2>2, <2>6 DEF Entered
  <2> QED BY <2>4, <2>5, <2>6
<1>4. ASSUME NEW c \in Calls PROVE CallInOrder(c)'
  <2>1. UNCHANGED <<pc, link, got, chan, replied, inbound, reader, broken, outq, asked>> BY <1>1
  <2>2. CallInOrder(c) BY DEF OrderInv
  <2> QED BY <1>3, <2>1, <2>2, Untouched
<1> QED BY <1>4 DEF OrderInv

\* The wire of a call's session, cut, shortened or lengthened
LEMMA WireMoved ==
  ASSUME TypeOK, NEW c \in Calls, CallInOrder(c), Entered(c)',
         UNCHANGED <<pc, link, got>>, chan'[c] = chan[c], replied'[c] = replied[c],
         Held(c)' <=> Held(c), Held(c) => reader'[link[c]] = reader[link[c]],
         broken \subseteq broken', \A s \in Sessions : Travels(c, s)' => Travels(c, s),
         Live(c) /\ link[c] \in Sessions => InOrder(inbound'[link[c]], c, Taken(c), replied[c]),
         Live(c) /\ link[c] \in Sessions \ broken' => UpTo(inbound'[link[c]], c, Taken(c), replied[c])
  PROVE  CallInOrder(c)'
<1>1. Delivered(c)' = Delivered(c) BY DEF Delivered
<1>2. Taken(c)' = Taken(c) BY <1>1 DEF Taken
<1>3. Addressed(c)' BY DEF CallInOrder, Addressed
<1>4. Fresh(c)' /\ GotInOrder(c)' BY DEF CallInOrder, Fresh, GotInOrder
<1>5. InTransit(c)' BY <1>1, <1>2 DEF CallInOrder, InTransit, Live
<1> QED BY <1>3, <1>4, <1>5 DEF CallInOrder

\* The connection goes away
LEMMA LossOrder ==
  ASSUME TypeOK, OrderInv, NEW s \in Sessions, ConnectionLost(s)
  PROVE  OrderInv'
<1>1. PICK n \in 0..Len(inbound[s]) : inbound' = [inbound EXCEPT ![s] = SubSeq(@, 1, n)]
  BY DEF ConnectionLost
<1>2. /\ UNCHANGED <<phase, pending, streams, reader, outq, asked, replied, pc, link, chan, got>>
      /\ broken' = broken \cup {s}
  BY DEF ConnectionLost
<1>3. inbound'[s] = SubSeq(inbound[s], 1, n) /\ \A t \in Sessions \ {s} : inbound'[t] = inbound[t]
  BY <1>1 DEF TypeOK
<1>4. inbound[s] \in Seq(Message) BY DEF TypeOK, Message
<1>5. Len(inbound'[s]) = n /\ \A i \in 1..n : inbound'[s][i] = inbound[s][i] /\ i \in 1..Len(inbound[s])
  BY <1>3, <1>4
<1>6. ASSUME NEW c \in Calls PROVE CallInOrder(c)'
  <2>1. CallInOrder(c) BY DEF OrderInv
  <2>2. Entered(c)' BY <1>2, <2>1 DEF CallInOrder, Entered, Delivered
  <2>3. Held(c)' <=> Held(c) BY <1>2 DEF Held
  <2>4. ASSUME NEW t \in Sessions, Travels(c, t)' PROVE Travels(c, t)
    <3>1. CASE t = s BY <1>2, <1>5, <2>4, <3>1 DEF Travels
    <3>2. CASE t # s BY <1>2, <1>3, <2>4, <3>2 DEF Travels
    <3> QED BY <3>1, <3>2
  <2>5. Live(c) /\ link[c] \in Sessions => InOrder(inbound'[link[c]], c, Taken(c), replied[c])
    <3> SUFFICES ASSUME Live(c), link[c] \in Sessions
                 PROVE  InOrder(inbound'[link[c]], c, Taken(c), replied[c])
      OBVIOUS
    <3>1. InOrder(inbound[link[c]], c, Taken(c), replied[c]) BY <2>1 DEF CallInOrder, InTransit
    <3>2. Taken(c) \in Nat /\ replied[c] \in Nat BY Sizes
    <3>3. CASE link[c] = s
      <4>1. InOrder(inbound[s], c, Taken(c), replied[c]) BY <3>1, <3>3
      <4>2. InOrder(SubSeq(inbound[s], 1, n), c, Taken(c), replied[c])
        BY <1>4, <3>2, <4>1, Truncated
      <4> QED BY <1>3, <3>3, <4>2
    <3>4. CASE link[c] # s BY <1>3, <3>1, <3>4
    <3> QED BY <3>3, <3>4
  <2>6. Live(c) /\ link[c] \in Sessions \ broken' => UpTo(inbound'[link[c]], c, Taken(c), replied[c])
    BY <1>2, <1>3, <2>1 DEF CallInOrder, InTransit
  <2> QED BY <1>2, <2>1, <2>2, <2>3, <2>4, <2>5, <2>6, WireMoved
<1> QED BY <1>6 DEF OrderInv

\* Requests reach the agent, replies leave it
LEMMA AgentOrder ==
  ASSUME TypeOK, OrderInv, NEW s \in Sessions, NEW d \in Calls,
         AgentReceives(s, d) \/ AgentReplies(s, d)
  PROVE  OrderInv'
<1>1. CASE AgentReceives(s, d)
  <2>1. /\ UNCHANGED <<phase, pending, streams, broken, inbound, reader, replied, pc, link, chan, got>>
        /\ d \in outq[s]
    BY <1>1 DEF AgentReceives
  <2>2. \A t \in Sessions : outq'[t] \cup asked'[t] \subseteq outq[t] \cup asked[t]
    BY <1>1 DEF AgentReceives, TypeOK
  <2>3. ASSUME NEW c \in Calls PROVE CallInOrder(c)'
    <3>1. CallInOrder(c) BY DEF OrderInv
    <3>2. Entered(c)' BY <2>1, <3>1 DEF CallInOrder, Entered, Delivered
    <3> QED BY <2>1, <2>2, <3>1, <3>2, Untouched
  <2> QED BY <2>3 DEF OrderInv
<1>2. CASE AgentReplies(s, d)
  <2>1. /\ UNCHANGED <<phase, pending, streams, broken, outq, asked, reader, pc, link, chan, got>>
        /\ d \in asked[s] /\ s \notin broken
    BY <1>2 DEF AgentReplies
  <2> DEFINE n == replied[d]
             m == <<d, n + 1>>
  <2>2. /\ n \in Nat /\ n + 1 \in 1..Replies /\ m \in Message /\ m[1] = d /\ m[2] = n + 1
        /\ d \in OneShot => n + 1 <= 1
    <3>1. n \in Nat /\ n < (IF d \in OneShot THEN 1 ELSE Replies) BY <1>2 DEF AgentReplies, TypeOK
    <3> QED BY <3>1 DEF Message
  <2>3. /\ inbound'[s] = Append(inbound[s], m) /\ \A t \in Sessions \ {s} : inbound'[t] = inbound[t]
        /\ replied'[d] = n + 1 /\ \A c \in Calls \ {d} : replied'[c] = replied[c]
    BY <1>2 DEF AgentReplies, TypeOK
  <2>4. inbound[s] \in Seq(Message) BY DEF TypeOK, Message
  <2> HIDE DEF n, m
  <2>5. /\ Len(inbound[s]) \in Nat /\ Len(inbound'[s]) = Len(inbound[s]) + 1
        /\ inbound'[s][Len(inbound[s]) + 1] = m
        /\ \A i \in 1..Len(inbound[s]) : inbound'[s][i] = inbound[s][i]
    BY <2>2, <2>3, <2>4
  <2>6. Travels(d, s) BY <2>1 DEF Travels
  <2>7. CallInOrder(d) BY DEF OrderInv
  <2>8. link[d] = s /\ pc[d] \notin Unsent BY <2>6, <2>7 DEF CallInOrder, Addressed
  <2>9. ASSUME NEW c \in Calls, NEW t \in Sessions, Travels(c, t)' PROVE Travels(c, t)
    <3>1. CASE t # s BY <2>1, <2>3, <2>9, <3>1 DEF Travels
    <3>2. CASE t = s /\ c = d BY <2>6, <3>2
    <3>3. CASE t = s /\ c # d
      <4>1. CASE \E i \in 1..Len(inbound'[s]) : inbound'[s][i][1] = c
        <5>1. PICK i \in 1..Len(inbound'[s]) : inbound'[s][i][1] = c BY <4>1
        <5>2. i \in 1..Len(inbound[s]) /\ inbound[s][i][1] = c BY <2>2, <2>5, <3>3, <5>1, SMTT(30)
        <5> QED BY <3>3, <5>2 DEF Travels
      <4> QED BY <2>1, <2>9, <3>3, <4>1 DEF Travels
    <3> QED BY <3>1, <3>2, <3>3
  <2>10. ASSUME NEW c \in Calls \ {d} PROVE CallInOrder(c)'
    <3>1. CallInOrder(c) BY DEF OrderInv
    <3>2. Entered(c)' BY <2>1, <3>1 DEF CallInOrder, Entered, Delivered
    <3>3. Held(c)' <=> Held(c) BY <2>1 DEF Held
    <3>4. Taken(c) \in Nat /\ replied[c] \in Nat BY Sizes
    <3>5. Live(c) /\ link[c] \in Sessions => InOrder(inbound'[link[c]], c, Taken(c), replied[c])
      <4> SUFFICES ASSUME Live(c), link[c] \in Sessions
                   PROVE  InOrder(inbound'[link[c]], c, Taken(c), replied[c])
        OBVIOUS
      <4>1. InOrder(inbound[link[c]], c, Taken(c), replied[c]) BY <3>1 DEF CallInOrder, InTransit
      <4>2. CASE link[c] = s
        <5>1. InOrder(inbound[s], c, Taken(c), replied[c]) BY <4>1, <4>2
        <5>2. m[1] # c BY <2>2
        <5>3. InOrder(Append(inbound[s], m), c, Taken(c), replied[c])
          BY <2>2, <2>4, <3>4, <5>1, <5>2, AppendOther
        <5> QED BY <2>3, <4>2, <5>3
      <4>3. CASE link[c] # s BY <2>3, <4>1, <4>3
      <4> QED BY <4>2, <4>3
    <3>6. Live(c) /\ link[c] \in Sessions \ broken' => UpTo(inbound'[link[c]], c, Taken(c), replied[c])
      <4> SUFFICES ASSUME Live(c), link[c] \in Sessions \ broken
                   PROVE  UpTo(inbound'[link[c]], c, Taken(c), replied[c])
        BY <2>1
      <4>1. UpTo(inbound[link[c]], c, Taken(c), replied[c]) BY <3>1 DEF CallInOrder, InTransit
      <4>2. CASE link[c] = s
        <5>1. UpTo(inbound[s], c, Taken(c), replied[c]) BY <4>1, <4>2
        <5>2. m[1] # c BY <2>2
        <5>3. UpTo(Append(inbound[s], m), c, Taken(c), replied[c])
          BY <2>2, <2>4, <3>4, <5>1, <5>2, AppendOther
        <5> QED BY <2>3, <4>2, <5>3
      <4>3. CASE link[c] # s BY <2>3, <4>1, <4>3
      <4> QED BY <4>2, <4>3
    <3> QED BY <2>1, <2>3, <2>9, <3>1, <3>2, <3>3, <3>5, <3>6, WireMoved
  <2>11. CallInOrder(d)'
    <3>1. Entered(d)' BY <2>1, <2>7 DEF CallInOrder, Entered, Delivered
    <3>2. Addressed(d)' BY <2>1, <2>7, <2>9 DEF CallInOrder, Addressed
    <3>3. Fresh(d)' /\ GotInOrder(d)' BY <2>1, <2>7, <2>8 DEF CallInOrder, Fresh, GotInOrder
    <3>4. (Held(d)' <=> Held(d)) /\ Delivered(d)' = Delivered(d) BY <2>1 DEF Held, Delivered
    <3>5. Taken(d)' = Taken(d) BY <3>4 DEF Taken
    <3>6. InTransit(d)'
      <4> SUFFICES ASSUME Live(d) PROVE InTransit(d)' BY <2>1 DEF InTransit, Live
      <4>1. /\ \A i \in 1..Len(chan[d]) : chan[d][i] = Len(got[d]) + i
            /\ Held(d) => reader[link[d]][2] = Delivered(d) + 1
            /\ Taken(d) <= n /\ InOrder(inbound[s], d, Taken(d), n) /\ UpTo(inbound[s], d, Taken(d), n)
        BY <2>1, <2>7, <2>8 DEF CallInOrder, InTransit, n
      <4>2. Taken(d) \in Nat BY Sizes
      <4>3. InOrder(inbound'[s], d, Taken(d), n + 1) /\ UpTo(inbound'[s], d, Taken(d), n + 1)
        BY <2>2, <2>3, <2>4, <4>1, <4>2, AppendOwn DEF m
      <4>4. Taken(d) <= n + 1 BY <2>2, <4>1, <4>2
      <4> QED BY <2>1, <2>3, <2>8, <3>4, <3>5, <4>1, <4>3, <4>4 DEF InTransit
    <3>7. d \in OneShot => replied'[d] <= 1 BY <2>2, <2>3
    <3> QED BY <3>1, <3>2, <3>3, <3>6, <3>7 DEF CallInOrder
  <2> QED BY <2>10, <2>11 DEF OrderInv
<1> QED BY <1>1, <1>2

\* The next reply enters the channel, of which the caller has taken g replies
LEMMA OneMore ==
  ASSUME NEW ch \in Seq(1..Replies), NEW g \in Nat, NEW r \in 1..Replies, r = (g + Len(ch)) + 1,
         \A i \in 1..Len(ch) : ch[i] = g + i
  PROVE  /\ \A i \in 1..Len(Append(ch, r)) : Append(ch, r)[i] = g + i
         /\ g + Len(Append(ch, r)) = (g + Len(ch)) + 1
<1> DEFINE p == Append(ch, r)
<1>1. Len(ch) \in Nat /\ Len(p) = Len(ch) + 1 /\ p[Len(ch) + 1] = r
      /\ \A i \in 1..Len(ch) : p[i] = ch[i]
  OBVIOUS
<1>2. \A x, y \in Nat : (x + y) + 1 = x + (y + 1) OBVIOUS
<1>3. r = g + (Len(ch) + 1) BY <1>1, <1>2
<1> HIDE DEF p
<1>4. ASSUME NEW i \in 1..Len(p) PROVE p[i] = g + i
  <2>1. i \in 1..Len(ch) \/ i = Len(ch) + 1 BY <1>1
  <2> QED BY <1>1, <1>3, <2>1
<1>5. g + Len(p) = (g + Len(ch)) + 1 BY <1>1, <1>2
<1> QED BY <1>4, <1>5 DEF p

\* resolve takes the first message off the wire
LEMMA ResolveOrder ==
  ASSUME TypeOK, OrderInv, NEW s \in Sessions, Resolve(s)
  PROVE  OrderInv'
<1>1. /\ UNCHANGED <<phase, broken, streams, outq, asked, replied, pc, link, got>>
      /\ phase[s] = "up" /\ reader[s] = Nobody /\ inbound[s] # <<>>
  BY DEF Resolve
<1>2. PICK q \in Seq(Message) : q = inbound[s] /\ q # <<>> BY <1>1 DEF TypeOK, Message
<1>3. Len(q) \in Nat /\ 1 \in 1..Len(q) /\ Len(Tail(q)) = Len(q) - 1
      /\ \A i \in 1..Len(Tail(q)) : Tail(q)[i] = q[i + 1] /\ i + 1 \in 1..Len(q)
  BY <1>2
<1>4. PICK m \in Message : m = q[1] /\ m = Head(q) BY <1>2, <1>3
<1>13. PICK d \in Calls : d = m[1] /\ m[2] \in 1..Replies /\ m # Nobody BY <1>4 DEF Message
<1>5. /\ inbound' = [inbound EXCEPT ![s] = Tail(q)]
      /\ reader' = [reader EXCEPT ![s] = IF d \in streams[s] THEN m ELSE Nobody]
      /\ pending' = [pending EXCEPT ![s] = @ \ ({d} \ streams[s])]
      /\ chan' = IF d \in pending[s] \ streams[s] THEN [chan EXCEPT ![d] = Append(@, m[2])] ELSE chan
  BY <1>2, <1>4, <1>13 DEF Resolve
<1>6. /\ inbound'[s] = Tail(q) /\ \A t \in Sessions \ {s} : inbound'[t] = inbound[t]
      /\ reader'[s] = (IF d \in streams[s] THEN m ELSE Nobody)
      /\ \A t \in Sessions \ {s} : reader'[t] = reader[t]
      /\ \A c \in Calls \ {d} : chan'[c] = chan[c]
      /\ \A c \in Calls \ {d} : \A t \in Sessions : c \in pending'[t] <=> c \in pending[t]
  BY <1>5 DEF TypeOK
<1>7. Travels(d, s) BY <1>2, <1>3, <1>4, <1>13 DEF Travels
<1>8. CallInOrder(d) BY DEF OrderInv
<1>9. link[d] = s /\ pc[d] \notin Unsent BY <1>7, <1>8 DEF CallInOrder, Addressed
<1>10. ASSUME NEW c \in Calls, NEW t \in Sessions, Travels(c, t)' PROVE Travels(c, t)
  <2>1. CASE t # s BY <1>1, <1>6, <1>10, <2>1 DEF Travels
  <2>2. CASE t = s
    <3>1. CASE \E i \in 1..Len(inbound'[s]) : inbound'[s][i][1] = c
      <4>1. PICK i \in 1..Len(inbound'[s]) : inbound'[s][i][1] = c BY <3>1
      <4>2. i + 1 \in 1..Len(q) /\ q[i + 1][1] = c BY <1>3, <1>6, <4>1
      <4> QED BY <1>2, <2>2, <4>2 DEF Travels
    <3>2. CASE reader'[s] # Nobody /\ reader'[s][1] = c
      <4>1. c = d BY <1>6, <1>13, <3>2
      <4> QED BY <1>7, <2>2, <4>1
    <3> QED BY <1>1, <1>10, <2>2, <3>1, <3>2 DEF Travels
  <2> QED BY <2>1, <2>2
<1>11. ASSUME NEW c \in Calls \ {d} PROVE CallInOrder(c)'
  <2>1. CallInOrder(c) BY DEF OrderInv
  <2>2. link[c] \in Sessions => (c \in pending'[link[c]] <=> c \in pending[link[c]]) BY <1>6
  <2>3. Entered(c)'
    <3>1. Delivered(c)' = Delivered(c) BY <1>1, <1>6 DEF Delivered
    <3> QED BY <1>1, <2>1, <2>2, <3>1 DEF CallInOrder, Entered
  <2>4. (Held(c)' <=> Held(c)) /\ (Held(c) => reader'[link[c]] = reader[link[c]])
    <3>1. CASE link[c] = s BY <1>1, <1>6, <1>13, <3>1 DEF Held
    <3>2. CASE link[c] # s BY <1>1, <1>6, <3>2 DEF Held
    <3> QED BY <3>1, <3>2
  <2>5. Taken(c) \in Nat /\ replied[c] \in Nat BY Sizes
  <2>6. ASSUME Live(c), link[c] \in Sessions
        PROVE  /\ InOrder(inbound'[link[c]], c, Taken(c), replied[c])
               /\ link[c] \notin broken => UpTo(inbound'[link[c]], c, Taken(c), replied[c])
    <3>1. /\ InOrder(inbound[link[c]], c, Taken(c), replied[c])
          /\ link[c] \notin broken => UpTo(inbound[link[c]], c, Taken(c), replied[c])
      BY <2>1, <2>6 DEF CallInOrder, InTransit
    <3>2. CASE link[c] = s
      <4>1. /\ InOrder(q, c, Taken(c), replied[c])
            /\ s \notin broken => UpTo(q, c, Taken(c), replied[c])
        BY <1>2, <3>1, <3>2
      <4>2. q # <<>> /\ q[1][1] # c BY <1>2, <1>4, <1>13
      <4>3. /\ InOrder(Tail(q), c, Taken(c), replied[c])
            /\ s \notin broken => UpTo(Tail(q), c, Taken(c), replied[c])
        BY <1>2, <2>5, <4>1, <4>2, TailOther
      <4> QED BY <1>6, <3>2, <4>3
    <3>3. CASE link[c] # s BY <1>6, <2>6, <3>1, <3>3
    <3> QED BY <3>2, <3>3
  <2>7. \A t \in Sessions : Travels(c, t)' => Travels(c, t) BY <1>10
  <2> QED BY <1>1, <1>6, <2>1, <2>3, <2>4, <2>6, <2>7, WireMoved
<1>12. CallInOrder(d)'
  <2>1. Addressed(d)' BY <1>1, <1>8, <1>10 DEF CallInOrder, Addressed
  <2>2. Fresh(d)' /\ GotInOrder(d)' BY <1>1, <1>8, <1>9 DEF CallInOrder, Fresh, GotInOrder
  <2>3. d \in OneShot => replied'[d] <= 1 BY <1>1, <1>8 DEF CallInOrder
  <2>4. CASE ~Live(d)
    <3>1. pc[d] \notin {"outbound", "send", "wait"} BY <2>4 DEF Live, Gone
    <3>2. Entered(d)' /\ InTransit(d)' BY <1>1, <2>4, <3>1 DEF Entered, InTransit, Live
    <3> QED BY <2>1, <2>2, <2>3, <3>2 DEF CallInOrder
  <2>5. CASE Live(d)
    <3>1. pc[d] = "wait" BY <1>9, <2>5 DEF Live, Gone, Unsent, TypeOK
    <3>2. ~Held(d) BY <1>1, <1>9 DEF Held
    <3>3. /\ Delivered(d) \in Nat /\ Taken(d) = Delivered(d) /\ replied[d] \in Nat
          /\ chan[d] \in Seq(1..Replies) /\ Len(got[d]) \in Nat /\ Len(chan[d]) \in Nat
      BY <3>2, Sizes
    <3>4. /\ \A i \in 1..Len(chan[d]) : chan[d][i] = Len(got[d]) + i
          /\ InOrder(q, d, Delivered(d), replied[d])
          /\ s \notin broken => UpTo(q, d, Delivered(d), replied[d])
      BY <1>2, <1>8, <1>9, <2>5, <3>3 DEF CallInOrder, InTransit
    <3>5. /\ m[2] = Delivered(d) + 1 /\ Delivered(d) + 1 <= replied[d]
          /\ InOrder(inbound'[s], d, Delivered(d) + 1, replied[d])
          /\ s \notin broken => UpTo(inbound'[s], d, Delivered(d) + 1, replied[d])
      <4>1. q # <<>> /\ q[1][1] = d /\ q[1] = m BY <1>2, <1>4, <1>13
      <4> QED BY <1>6, <3>3, <3>4, <4>1, TailOwn
    <3>6. d \in pending[s] \cup streams[s] \/ (d \in OneShot /\ Delivered(d) > 0)
      BY <1>1, <1>8, <1>9, <3>1 DEF CallInOrder, Entered
    <3>7. CASE d \in streams[s]
      <4>1. reader'[s] = m /\ chan' = chan BY <1>5, <1>6, <3>7
      <4>2. Held(d)' /\ Delivered(d)' = Delivered(d) BY <1>1, <1>9, <1>13, <4>1 DEF Held, Delivered
      <4>3. Taken(d)' = Delivered(d) + 1 BY <4>2 DEF Taken
      <4>4. InTransit(d)' BY <1>1, <1>9, <3>4, <3>5, <4>1, <4>2, <4>3 DEF InTransit
      <4>5. Entered(d)' BY <1>1, <1>9, <3>7 DEF Entered
      <4> QED BY <2>1, <2>2, <2>3, <4>4, <4>5 DEF CallInOrder
    <3>8. CASE d \notin streams[s]
      <4>1. d \in OneShot BY <3>6, <3>8 DEF TypeOK
      <4>2. replied[d] <= 1 BY <1>8, <4>1 DEF CallInOrder
      <4>3. d \in pending[s] BY <3>3, <3>5, <3>6, <3>8, <4>2
      <4>4. reader'[s] = Nobody /\ chan'[d] = Append(chan[d], m[2])
        BY <1>5, <1>6, <3>8, <4>3 DEF TypeOK
      <4>5. m[2] = (Len(got[d]) + Len(chan[d])) + 1 BY <3>5 DEF Delivered
      <4>8. /\ \A i \in 1..Len(chan'[d]) : chan'[d][i] = Len(got'[d]) + i
            /\ Len(got'[d]) + Len(chan'[d]) = (Len(got[d]) + Len(chan[d])) + 1
        <5>1. PICK r \in 1..Replies : r = m[2] BY <1>13
        <5>2. r = (Len(got[d]) + Len(chan[d])) + 1 BY <4>5, <5>1
        <5>3. /\ \A i \in 1..Len(Append(chan[d], r)) : Append(chan[d], r)[i] = Len(got[d]) + i
              /\ Len(got[d]) + Len(Append(chan[d], r)) = (Len(got[d]) + Len(chan[d])) + 1
          BY <3>3, <3>4, <5>2, OneMore, ZenonT(40)
        <5> QED BY <1>1, <4>4, <5>1, <5>3
      <4>6. Delivered(d)' = Delivered(d) + 1 /\ ~Held(d)'
        BY <1>1, <1>9, <4>4, <4>8 DEF Delivered, Held
      <4>7. Taken(d)' = Delivered(d) + 1 BY <3>3, <4>6 DEF Taken
      <4>9. InTransit(d)' BY <1>1, <1>9, <3>5, <4>6, <4>7, <4>8 DEF InTransit
      <4>10. Entered(d)' BY <3>3, <4>1, <4>6 DEF Entered
      <4> QED BY <2>1, <2>2, <2>3, <4>9, <4>10 DEF CallInOrder
    <3> QED BY <3>7, <3>8
  <2> QED BY <2>4, <2>5
<1> QED BY <1>11, <1>12 DEF OrderInv

\* resolve hands it to a stream
LEMMA ResolveSendOrder ==
  ASSUME TypeOK, OrderInv, NEW s \in Sessions, ResolveSend(s)
  PROVE  OrderInv'
<1>1. /\ UNCHANGED <<phase, broken, pending, streams, inbound, outq, asked, replied, pc, link, got>>
      /\ reader[s] # Nobody
      /\ reader' = [reader EXCEPT ![s] = Nobody]
  BY DEF ResolveSend
<1>2. PICK d \in Calls, r \in 1..Replies : d = reader[s][1] /\ r = reader[s][2]
  <2>1. reader[s] \in Streaming \X (1..Replies) BY <1>1 DEF TypeOK
  <2> QED BY <2>1 DEF Calls
<1>3. \/ pc[d] \in Gone /\ chan' = chan
      \/ pc[d] \notin Gone /\ chan' = [chan EXCEPT ![d] = Append(@, r)]
  BY <1>2 DEF ResolveSend
<1>4. reader'[s] = Nobody /\ \A t \in Sessions \ {s} : reader'[t] = reader[t] BY <1>1 DEF TypeOK
<1>5. Travels(d, s) BY <1>1, <1>2 DEF Travels
<1>6. CallInOrder(d) BY <1>2 DEF OrderInv
<1>7. link[d] = s /\ pc[d] \notin Unsent BY <1>5, <1>6 DEF CallInOrder, Addressed
<1>8. Held(d) BY <1>1, <1>2, <1>7 DEF Held
<1>9. ASSUME NEW c \in Calls, NEW t \in Sessions, Travels(c, t)' PROVE Travels(c, t)
  <2>1. CASE t # s BY <1>1, <1>4, <1>9, <2>1 DEF Travels
  <2>2. CASE t = s BY <1>1, <1>4, <1>9, <2>2 DEF Travels
  <2> QED BY <2>1, <2>2
<1>10. ASSUME NEW c \in Calls \ {d} PROVE CallInOrder(c)'
  <2>1. CallInOrder(c) BY DEF OrderInv
  <2>2. chan'[c] = chan[c] BY <1>3 DEF TypeOK
  <2>3. Entered(c)' BY <1>1, <2>1, <2>2 DEF CallInOrder, Entered, Delivered
  <2>4. (Held(c)' <=> Held(c)) /\ (Held(c) => reader'[link[c]] = reader[link[c]])
    <3>1. CASE link[c] = s BY <1>1, <1>2, <1>4, <3>1 DEF Held
    <3>2. CASE link[c] # s BY <1>1, <1>4, <3>2 DEF Held
    <3> QED BY <3>1, <3>2
  <2>5. \A t \in Sessions : Travels(c, t)' => Travels(c, t) BY <1>9
  <2>6. /\ Live(c) /\ link[c] \in Sessions => InOrder(inbound'[link[c]], c, Taken(c), replied[c])
        /\ Live(c) /\ link[c] \in Sessions \ broken' => UpTo(inbound'[link[c]], c, Taken(c), replied[c])
    BY <1>1, <2>1 DEF CallInOrder, InTransit
  <2> QED BY <1>1, <2>1, <2>2, <2>3, <2>4, <2>5, <2>6, WireMoved
<1>11. CallInOrder(d)'
  <2>1. Addressed(d)' BY <1>1, <1>2, <1>6, <1>9 DEF CallInOrder, Addressed
  <2>2. Fresh(d)' /\ GotInOrder(d)' BY <1>1, <1>6, <1>7 DEF CallInOrder, Fresh, GotInOrder
  <2>3. d \in OneShot => replied'[d] <= 1 BY <1>1, <1>6 DEF CallInOrder
  <2>4. CASE pc[d] \in Gone
    <3>1. Entered(d)' /\ InTransit(d)' BY <1>1, <2>4 DEF Entered, InTransit, Live, Gone
    <3> QED BY <2>1, <2>2, <2>3, <3>1 DEF CallInOrder
  <2>5. CASE pc[d] \notin Gone
    <3>1. /\ Delivered(d) \in Nat /\ Taken(d) = Delivered(d) + 1
          /\ chan[d] \in Seq(1..Replies) /\ Len(got[d]) \in Nat /\ Len(chan[d]) \in Nat
      BY <1>2, <1>8, Sizes
    <3>2. /\ \A i \in 1..Len(chan[d]) : chan[d][i] = Len(got[d]) + i
          /\ r = Delivered(d) + 1
          /\ Delivered(d) + 1 <= replied[d]
          /\ InOrder(inbound[s], d, Delivered(d) + 1, replied[d])
          /\ s \notin broken => UpTo(inbound[s], d, Delivered(d) + 1, replied[d])
      BY <1>2, <1>6, <1>7, <1>8, <2>5, <3>1 DEF CallInOrder, InTransit, Live
    <3>3. chan'[d] = Append(chan[d], r) BY <1>2, <1>3, <2>5 DEF TypeOK
    <3>4. r = (Len(got[d]) + Len(chan[d])) + 1 BY <3>2 DEF Delivered
    <3>7. /\ \A i \in 1..Len(chan'[d]) : chan'[d][i] = Len(got'[d]) + i
          /\ Len(got'[d]) + Len(chan'[d]) = (Len(got[d]) + Len(chan[d])) + 1
      <4>1. /\ \A i \in 1..Len(Append(chan[d], r)) : Append(chan[d], r)[i] = Len(got[d]) + i
            /\ Len(got[d]) + Len(Append(chan[d], r)) = (Len(got[d]) + Len(chan[d])) + 1
        BY <3>1, <3>2, <3>4, OneMore
      <4> QED BY <1>1, <3>3, <4>1
    <3>5. Delivered(d)' = Delivered(d) + 1 /\ ~Held(d)'
      BY <1>1, <1>4, <1>7, <3>7 DEF Delivered, Held
    <3>6. Taken(d)' = Delivered(d) + 1 BY <3>1, <3>5 DEF Taken
    <3>8. InTransit(d)' BY <1>1, <1>7, <3>2, <3>5, <3>6, <3>7 DEF InTransit
    <3>9. Entered(d)' BY <1>1, <1>6, <3>1, <3>5 DEF CallInOrder, Entered
    <3> QED BY <2>1, <2>2, <2>3, <3>8, <3>9 DEF CallInOrder
  <2> QED BY <2>4, <2>5
<1> QED BY <1>10, <1>11 DEF OrderInv

\* A call's steps leave the others alone
LEMMA OthersOrder ==
  ASSUME TypeOK, OrderInv, NEW d \in Calls, NEW c \in Calls \ {d},
         GetLink(d) \/ CallStep(d) \/ Receive(d) \/ EndStreamOnDrop(d) \/ CallDropped(d)
  PROVE  CallInOrder(c)'
<1>1. UNCHANGED <<phase, broken, inbound, reader, asked, replied>>
  BY DEF GetLink, CallStep, Insert, GetOutbound, Send, ChannelClosed, CallTimeout, EndStream,
         Receive, EndStreamOnDrop, CallDropped
<1>2. pc'[c] = pc[c] /\ link'[c] = link[c] /\ got'[c] = got[c] /\ chan'[c] = chan[c]
  BY DEF TypeOK, GetLink, CallStep, Insert, GetOutbound, Send, ChannelClosed, CallTimeout,
         EndStream, Receive, EndStreamOnDrop, CallDropped
<1>3. \A s \in Sessions : c \in outq'[s] => c \in outq[s]
  <2>1. outq' = outq \/ outq' = [outq EXCEPT ![link[d]] = @ \cup {d}]
    BY DEF GetLink, CallStep, Insert, GetOutbound, Send, ChannelClosed, CallTimeout, EndStream,
           Receive, EndStreamOnDrop, CallDropped
  <2>2. CASE outq' = outq BY <2>2
  <2>3. CASE outq' = [outq EXCEPT ![link[d]] = @ \cup {d}]
    <3> SUFFICES ASSUME NEW s \in Sessions, c \in outq'[s] PROVE c \in outq[s] OBVIOUS
    <3>1. outq'[s] = outq[s] \/ outq'[s] = outq[s] \cup {d} BY <2>3 DEF TypeOK
    <3> QED BY <3>1
  <2> QED BY <2>1, <2>2, <2>3
<1>4. \A s \in Sessions \cup {NoLink} :
        (c \in pending[s] => c \in pending'[s]) /\ (c \in streams[s] => c \in streams'[s])
  <2>1. /\ \/ pending' = pending
           \/ pending' = [pending EXCEPT ![link[d]] = @ \ {d}]
           \/ pending' = [pending EXCEPT ![link[d]] = @ \cup {d}]
        /\ \/ streams' = streams
           \/ streams' = [streams EXCEPT ![link[d]] = @ \ {d}]
           \/ streams' = [streams EXCEPT ![link[d]] = @ \cup {d}]
    BY DEF GetLink, CallStep, Insert, GetOutbound, Send, ChannelClosed, CallTimeout, EndStream,
           Receive, EndStreamOnDrop, CallDropped
  <2> QED BY <2>1 DEF TypeOK
<1>5. CallInOrder(c) BY DEF OrderInv
<1>6. Entered(c)' BY <1>1, <1>2, <1>4, <1>5 DEF CallInOrder, Entered, Delivered
<1> QED BY <1>1, <1>2, <1>3, <1>5, <1>6, Untouched

\* The caller takes the next reply
LEMMA OneTaken ==
  ASSUME NEW g \in Seq(1..Replies), NEW ch \in Seq(1..Replies), ch # <<>>,
         \A i \in 1..Len(g) : g[i] = i, \A i \in 1..Len(ch) : ch[i] = Len(g) + i
  PROVE  /\ \A i \in 1..Len(Append(g, Head(ch))) : Append(g, Head(ch))[i] = i
         /\ \A i \in 1..Len(Tail(ch)) : Tail(ch)[i] = Len(Append(g, Head(ch))) + i
         /\ Len(Append(g, Head(ch))) + Len(Tail(ch)) = Len(g) + Len(ch)
<1> DEFINE h == Append(g, Head(ch))
           t == Tail(ch)
<1>1. Head(ch) \in 1..Replies /\ Head(ch) = ch[1] /\ Len(ch) \in Nat \ {0} /\ Len(g) \in Nat OBVIOUS
<1>2. Len(h) = Len(g) + 1 /\ h[Len(g) + 1] = Head(ch) /\ \A i \in 1..Len(g) : h[i] = g[i] BY <1>1
<1>3. Len(t) = Len(ch) - 1 /\ \A i \in 1..Len(t) : t[i] = ch[i + 1] OBVIOUS
<1> HIDE DEF h, t
<1>4. Head(ch) = Len(g) + 1 BY <1>1
<1>5. ASSUME NEW i \in 1..Len(h) PROVE h[i] = i
  <2>1. i \in 1..Len(g) \/ i = Len(g) + 1 BY <1>1, <1>2
  <2> QED BY <1>2, <1>4, <2>1
<1>6. ASSUME NEW i \in 1..Len(t) PROVE t[i] = Len(h) + i
  <2>1. i + 1 \in 1..Len(ch) /\ t[i] = ch[i + 1] BY <1>1, <1>3
  <2>2. ch[i + 1] = Len(g) + (i + 1) BY <2>1
  <2>3. i \in Nat BY <1>1, <1>3
  <2>4. \A x, y \in Nat : x + (y + 1) = (x + 1) + y OBVIOUS
  <2>5. Len(g) + (i + 1) = (Len(g) + 1) + i BY <1>1, <2>3, <2>4
  <2> QED BY <1>2, <2>1, <2>2, <2>5
<1>7. \A x \in Nat, y \in Nat \ {0} : (x + 1) + (y - 1) = x + y OBVIOUS
<1>8. Len(h) + Len(t) = Len(g) + Len(ch) BY <1>1, <1>2, <1>3, <1>7
<1> QED BY <1>5, <1>6, <1>8 DEF h, t

\* Every step of a call keeps its own replies in order
LEMMA OwnOrder ==
  ASSUME TypeOK, OrderInv, NEW d \in Calls,
         GetLink(d) \/ CallStep(d) \/ Receive(d) \/ EndStreamOnDrop(d) \/ CallDropped(d)
  PROVE  CallInOrder(d)'
<1>0. CallInOrder(d) BY DEF OrderInv
<1>1. CASE GetLink(d)
  <2>1. /\ pc[d] = "idle" /\ pc'[d] = "insert" /\ link'[d] = registered
        /\ UNCHANGED <<phase, broken, inbound, reader, outq, asked, replied, chan, got>>
    BY <1>1 DEF GetLink, TypeOK
  <2>2. \A s \in Sessions : ~Travels(d, s) BY <1>0, <2>1 DEF CallInOrder, Addressed, Unsent
  <2>3. \A s \in Sessions : ~Travels(d, s)' BY <2>1, <2>2 DEF Travels
  <2>4. replied'[d] = 0 /\ got'[d] = <<>> /\ chan'[d] = <<>>
    BY <1>0, <2>1 DEF CallInOrder, Fresh, Unsent
  <2>5. Len(got'[d]) = 0 /\ Len(chan'[d]) = 0 BY <2>4
  <2>6. Delivered(d)' = 0 BY <2>5 DEF Delivered
  <2>7. ~Held(d)' BY <2>3 DEF Held, Travels
  <2>8. Taken(d)' = 0 BY <2>6, <2>7 DEF Taken
  <2>9. ASSUME link'[d] \in Sessions
        PROVE  InOrder(inbound'[link'[d]], d, 0, 0) /\ UpTo(inbound'[link'[d]], d, 0, 0)
    <3>1. \A i \in 1..Len(inbound'[link'[d]]) : inbound'[link'[d]][i][1] # d BY <2>3, <2>9 DEF Travels
    <3> QED BY <3>1 DEF InOrder, UpTo
  <2>10. InTransit(d)' BY <2>4, <2>5, <2>7, <2>8, <2>9 DEF InTransit
  <2>11. Addressed(d)' /\ GotInOrder(d)' BY <2>3, <2>5 DEF Addressed, GotInOrder
  <2>12. Fresh(d)' /\ Entered(d)' BY <2>1, <2>4 DEF Fresh, Entered
  <2> QED BY <2>4, <2>10, <2>11, <2>12 DEF CallInOrder
<1>2. CASE Insert(d)
  <2>1. /\ pc[d] = "insert" /\ pc'[d] = "outbound"
        /\ UNCHANGED <<phase, broken, inbound, reader, outq, asked, replied, link, chan, got>>
    BY <1>2 DEF Insert, TypeOK
  <2>2. d \in pending'[link[d]] \cup streams'[link[d]]
    BY <1>2 DEF Insert, TypeOK
  <2>3. (Held(d)' <=> Held(d)) /\ Delivered(d)' = Delivered(d) BY <2>1 DEF Held, Delivered
  <2>4. Taken(d)' = Taken(d) BY <2>3 DEF Taken
  <2>5. InTransit(d)' BY <1>0, <2>1, <2>3, <2>4 DEF CallInOrder, InTransit, Live, Gone
  <2>6. Addressed(d)' BY <1>0, <2>1 DEF CallInOrder, Addressed, Travels, Unsent
  <2>7. Fresh(d)' /\ GotInOrder(d)' BY <1>0, <2>1 DEF CallInOrder, Fresh, GotInOrder, Unsent
  <2>8. Entered(d)' BY <2>1, <2>2 DEF Entered
  <2> QED BY <1>0, <2>1, <2>5, <2>6, <2>7, <2>8 DEF CallInOrder
<1>3. CASE GetOutbound(d)
  <2>1. /\ pc[d] = "outbound"
        /\ UNCHANGED <<phase, broken, inbound, reader, outq, asked, replied, link, chan, got>>
        /\ (pc'[d] = "send" /\ UNCHANGED maps) \/ pc'[d] = "done"
    BY <1>3 DEF GetOutbound, TypeOK
  <2>2. CASE pc'[d] = "done" BY <1>0, <2>1, <2>2, NoLonger DEF Gone
  <2>3. CASE pc'[d] = "send" /\ UNCHANGED maps
    <3>1. (Held(d)' <=> Held(d)) /\ Delivered(d)' = Delivered(d) BY <2>1 DEF Held, Delivered
    <3>2. Taken(d)' = Taken(d) BY <3>1 DEF Taken
    <3>3. InTransit(d)' BY <1>0, <2>1, <2>3, <3>1, <3>2 DEF CallInOrder, InTransit, Live, Gone
    <3>4. Addressed(d)' BY <1>0, <2>1, <2>3 DEF CallInOrder, Addressed, Travels, Unsent
    <3>5. Fresh(d)' /\ GotInOrder(d)' BY <1>0, <2>1, <2>3 DEF CallInOrder, Fresh, GotInOrder, Unsent
    <3>6. Entered(d)' BY <1>0, <2>1, <2>3, <3>1 DEF CallInOrder, Entered
    <3> QED BY <1>0, <2>1, <3>3, <3>4, <3>5, <3>6 DEF CallInOrder
  <2> QED BY <2>1, <2>2, <2>3
<1>4. CASE Send(d)
  <2>1. /\ pc[d] = "send"
        /\ UNCHANGED <<phase, broken, inbound, reader, asked, replied, link, chan, got>>
        /\ \/ /\ pc'[d] = "wait" /\ UNCHANGED maps
              /\ outq' = [outq EXCEPT ![link[d]] = @ \cup {d}]
           \/ pc'[d] = "done" /\ UNCHANGED outq
    BY <1>4 DEF Send, TypeOK
  <2>2. CASE pc'[d] = "done" /\ UNCHANGED outq BY <1>0, <2>1, <2>2, NoLonger DEF Gone
  <2>3. CASE /\ pc'[d] = "wait" /\ UNCHANGED maps
             /\ outq' = [outq EXCEPT ![link[d]] = @ \cup {d}]
    <3>1. (Held(d)' <=> Held(d)) /\ Delivered(d)' = Delivered(d) BY <2>1 DEF Held, Delivered
    <3>2. Taken(d)' = Taken(d) BY <3>1 DEF Taken
    <3>3. InTransit(d)' BY <1>0, <2>1, <2>3, <3>1, <3>2 DEF CallInOrder, InTransit, Live, Gone
    <3>4. Addressed(d)'
      <4>1. \A s \in Sessions : ~Travels(d, s) BY <1>0, <2>1 DEF CallInOrder, Addressed, Unsent
      <4>2. \A s \in Sessions : s # link[d] => ~Travels(d, s)' BY <2>1, <2>3, <4>1 DEF Travels, TypeOK
      <4> QED BY <2>1, <2>3, <4>2 DEF Addressed, Unsent
    <3>5. Fresh(d)' /\ GotInOrder(d)' BY <1>0, <2>1, <2>3 DEF CallInOrder, Fresh, GotInOrder, Unsent
    <3>6. Entered(d)' BY <1>0, <2>1, <2>3, <3>1 DEF CallInOrder, Entered
    <3> QED BY <1>0, <2>1, <3>3, <3>4, <3>5, <3>6 DEF CallInOrder
  <2> QED BY <2>1, <2>2, <2>3
<1>5. CASE Receive(d)
  <2>1. /\ pc[d] = "wait" /\ chan[d] # <<>>
        /\ UNCHANGED <<phase, broken, pending, streams, inbound, reader, outq, asked, replied, link>>
        /\ got'[d] = Append(got[d], Head(chan[d])) /\ chan'[d] = Tail(chan[d])
        /\ pc'[d] \in {"wait", "ending", "done"}
    BY <1>5 DEF Receive, TypeOK
  <2>2. got[d] \in Seq(1..Replies) /\ chan[d] \in Seq(1..Replies) BY Sizes
  <2>3. /\ \A i \in 1..Len(got[d]) : got[d][i] = i
        /\ \A i \in 1..Len(chan[d]) : chan[d][i] = Len(got[d]) + i
    BY <1>0, <2>1 DEF CallInOrder, GotInOrder, InTransit, Live, Gone
  <2>4. /\ \A i \in 1..Len(got'[d]) : got'[d][i] = i
        /\ \A i \in 1..Len(chan'[d]) : chan'[d][i] = Len(got'[d]) + i
        /\ Len(got'[d]) + Len(chan'[d]) = Len(got[d]) + Len(chan[d])
    <3>1. LET g == Append(got[d], Head(chan[d]))
              t == Tail(chan[d])
          IN  /\ \A i \in 1..Len(g) : g[i] = i
              /\ \A i \in 1..Len(t) : t[i] = Len(g) + i
              /\ Len(g) + Len(t) = Len(got[d]) + Len(chan[d])
      BY <2>1, <2>2, <2>3, OneTaken
    <3> QED BY <2>1, <3>1
  <2>5. (Held(d)' <=> Held(d)) /\ Delivered(d)' = Delivered(d) BY <2>1, <2>4 DEF Held, Delivered
  <2>6. Taken(d)' = Taken(d) BY <2>5 DEF Taken
  <2>7. InTransit(d)' BY <1>0, <2>1, <2>4, <2>5, <2>6 DEF CallInOrder, InTransit, Live, Gone
  <2>8. Addressed(d)' /\ Fresh(d)' BY <1>0, <2>1 DEF CallInOrder, Addressed, Fresh, Travels, Unsent
  <2>9. GotInOrder(d)' BY <2>4 DEF GotInOrder
  <2>10. Entered(d)' BY <1>0, <2>1, <2>5 DEF CallInOrder, Entered
  <2> QED BY <1>0, <2>1, <2>7, <2>8, <2>9, <2>10 DEF CallInOrder
<1>6. CASE ChannelClosed(d) \/ CallTimeout(d) \/ EndStream(d) \/ EndStreamOnDrop(d) \/ CallDropped(d)
  <2>1. UNCHANGED <<inbound, reader, outq, asked, replied, link, chan, got>> /\ pc'[d] \in Gone
    BY <1>6 DEF ChannelClosed, CallTimeout, EndStream, EndStreamOnDrop, CallDropped, Gone, TypeOK
  <2> QED BY <1>0, <2>1, NoLonger
<1> QED BY <1>1, <1>2, <1>3, <1>4, <1>5, <1>6 DEF CallStep

(* What a caller has taken is what the agent sent to that call, in order    *)
(* and without a gap: along the way from the agent through resolve and the  *)
(* channel nothing is lost, doubled or overtaken while the call lives.      *)
THEOREM RepliesStayInOrder == Spec => []OrderInv
<1>1. Init => OrderInv
  <2> SUFFICES ASSUME Init, NEW c \in Calls PROVE CallInOrder(c) BY DEF OrderInv
  <2>1. /\ pc[c] = "idle" /\ link[c] = NoLink /\ got[c] = <<>> /\ chan[c] = <<>> /\ replied[c] = 0
        /\ \A s \in Sessions : outq[s] = {} /\ asked[s] = {} /\ inbound[s] = <<>> /\ reader[s] = Nobody
    BY DEF Init
  <2>2. link[c] \notin Sessions BY <2>1 DEF Sessions
  <2>3. Addressed(c) BY <2>1 DEF Addressed, Travels
  <2>4. Fresh(c) /\ Entered(c) /\ GotInOrder(c) BY <2>1 DEF Fresh, Entered, GotInOrder
  <2>5. ~Held(c) /\ Delivered(c) = 0 BY <2>1, <2>2 DEF Held, Delivered
  <2>6. InTransit(c) BY <2>1, <2>2, <2>5 DEF InTransit, Taken
  <2> QED BY <2>1, <2>3, <2>4, <2>6 DEF CallInOrder
<1>2. TypeOK /\ OrderInv /\ [Next]_vars => OrderInv'
  <2> SUFFICES ASSUME TypeOK, OrderInv, [Next]_vars PROVE OrderInv' OBVIOUS
  <2>1. ASSUME NEW d \in Calls,
               GetLink(d) \/ CallStep(d) \/ Receive(d) \/ EndStreamOnDrop(d) \/ CallDropped(d)
        PROVE  OrderInv'
    <3>1. CallInOrder(d)' BY <2>1, OwnOrder
    <3>2. \A c \in Calls \ {d} : CallInOrder(c)' BY <2>1, OthersOrder
    <3> QED BY <3>1, <3>2 DEF OrderInv
  <2>2. CASE UNCHANGED vars
    <3> SUFFICES ASSUME NEW c \in Calls PROVE CallInOrder(c)' BY DEF OrderInv
    <3>1. CallInOrder(c) BY DEF OrderInv
    <3>2. Entered(c)' BY <2>2, <3>1 DEF vars, CallInOrder, Entered, Delivered
    <3> QED BY <2>2, <3>1, <3>2, Untouched DEF vars
  <2> QED BY <2>1, <2>2, SessionOrder, LossOrder, AgentOrder, ResolveOrder, ResolveSendOrder
          DEF Next, ReaderStep
<1> QED BY <1>1, <1>2, TypeCorrect, PTL DEF Spec

-----------------------------------------------------------------------------
(* The link implements RemoteCalls *)

\* A step of a call is a step of its status
LEMMA StatusMoves ==
  ASSUME TypeOK, NEW c \in Calls, NEW l, pc' = [pc EXCEPT ![c] = l]
  PROVE  Status' = [Status EXCEPT ![c] = Seen(l)] /\ Status[c] = Seen(pc[c])
<1>1. pc \in [Calls -> {"idle", "insert", "outbound", "send", "wait", "ending", "done", "dropped"}]
  BY DEF TypeOK
<1>2. \A d \in Calls : pc'[d] = IF d = c THEN l ELSE pc[d] BY <1>1
<1>3. \A d \in Calls : Status'[d] = Seen(pc'[d]) /\ Status[d] = Seen(pc[d]) BY DEF Status
<1>4. Status' = [d \in Calls |-> Status'[d]] /\ Status = [d \in Calls |-> Status[d]] BY DEF Status
<1>5. \A d \in Calls : Status'[d] = IF d = c THEN Seen(l) ELSE Status[d]
  <2> TAKE d \in Calls
  <2>1. CASE d = c
    <3>1. pc'[d] = l BY <1>2, <2>1
    <3> QED BY <1>3, <2>1, <3>1, Zenon
  <2>2. CASE d # c
    <3>1. pc'[d] = pc[d] BY <1>2, <2>2
    <3> QED BY <1>3, <2>2, <3>1, Zenon
  <2> QED BY <2>1, <2>2
<1> QED BY <1>3, <1>4, <1>5

\* Every call is idle, open or over
LEMMA SeenFacts ==
  /\ Seen("idle") = "idle" /\ \A l \in Gone : Seen(l) = "over"
  /\ \A l \in {"insert", "outbound", "send", "wait"} : Seen(l) = "open"
  BY DEF Seen, Gone

\* The session, its reader and the wire: only an answer of the agent shows
LEMMA SessionMaps ==
  ASSUME TypeOK, NEW s \in Sessions,
         Connect(s) \/ ConnectionLost(s) \/ SessionStep(s) \/ ReaderStep(s)
  PROVE  UNCHANGED <<Status, Requested, replied, got>>
<1>1. UNCHANGED <<outq, asked, replied, pc, got>>
  BY DEF Connect, ConnectionLost, SessionStep, SetOutbound, SpawnReader, HandlerDropped,
         ResponseDropped, Disconnect, FailPending, FailStreams, FailOutbound, ReaderStep,
         Resolve, ResolveSend
<1> QED BY <1>1 DEF Status, Requested

LEMMA AgentMaps ==
  ASSUME TypeOK, OrderInv, NEW s \in Sessions, NEW c \in Calls,
         AgentReceives(s, c) \/ AgentReplies(s, c)
  PROVE  UNCHANGED <<Status, Requested, replied, got>> \/ Remote!Answer(c)
<1>1. CASE AgentReceives(s, c)
  <2>1. /\ UNCHANGED <<replied, pc, got>> /\ c \in outq[s]
        /\ outq' = [outq EXCEPT ![s] = @ \ {c}] /\ asked' = [asked EXCEPT ![s] = @ \cup {c}]
    BY <1>1 DEF AgentReceives
  <2>2. \A t \in Sessions : outq'[t] \cup asked'[t] = outq[t] \cup asked[t]
    BY <2>1 DEF TypeOK
  <2>3. Requested' = Requested BY <2>2 DEF Requested
  <2> QED BY <2>1, <2>3 DEF Status
<1>2. CASE AgentReplies(s, c)
  <2>1. /\ UNCHANGED <<outq, asked, pc, got>> /\ c \in asked[s]
        /\ replied[c] < Limit[c] /\ replied' = [replied EXCEPT ![c] = @ + 1]
    BY <1>2 DEF AgentReplies, Limit
  <2>2. c \in Requested BY <2>1 DEF Requested
  <2>3. UNCHANGED <<Status, Requested>> BY <2>1 DEF Status, Requested
  <2> QED BY <2>1, <2>2, <2>3 DEF Remote!Answer
<1> QED BY <1>1, <1>2

\* Steps of a call: it begins, is sent, or ends
LEMMA CallMaps ==
  ASSUME TypeOK, OrderInv, NEW c \in Calls,
         GetLink(c) \/ CallStep(c) \/ EndStreamOnDrop(c) \/ CallDropped(c)
  PROVE  \/ UNCHANGED <<Status, Requested, replied, got>>
         \/ Remote!Begin(c) \/ Remote!Request(c) \/ Remote!End(c)
<1> DEFINE open == {"insert", "outbound", "send", "wait"}
<1>0. ASSUME NEW l, pc' = [pc EXCEPT ![c] = l]
      PROVE  Status' = [Status EXCEPT ![c] = Seen(l)] /\ Status[c] = Seen(pc[c])
  BY <1>0, StatusMoves
<1>1. ASSUME UNCHANGED <<outq, asked>> PROVE UNCHANGED Requested BY <1>1 DEF Requested
<1>2. CASE GetLink(c)
  <2>1. /\ pc[c] = "idle" /\ pc' = [pc EXCEPT ![c] = "insert"]
        /\ UNCHANGED <<outq, asked, replied, got>>
    BY <1>2 DEF GetLink
  <2> QED BY <1>0, <1>1, <2>1, SeenFacts DEF Remote!Begin
<1>3. ASSUME NEW l \in Gone, pc' = [pc EXCEPT ![c] = l], pc[c] \in open,
             UNCHANGED <<outq, asked, replied, got>>
      PROVE  Remote!End(c)
  BY <1>0, <1>1, <1>3, SeenFacts DEF Remote!End
<1>4. ASSUME NEW l \in open, pc' = [pc EXCEPT ![c] = l], pc[c] \in open
      PROVE  UNCHANGED Status
  <2>1. Status' = [Status EXCEPT ![c] = "open"] /\ Status[c] = "open"
    BY <1>0, <1>4, SeenFacts
  <2> QED BY <2>1 DEF Status
<1>5. CASE Insert(c)
  <2>1. /\ pc[c] = "insert" /\ pc' = [pc EXCEPT ![c] = "outbound"]
        /\ UNCHANGED <<outq, asked, replied, got>>
    BY <1>5 DEF Insert
  <2> QED BY <1>1, <1>4, <2>1
<1>6. CASE GetOutbound(c)
  <2>1. pc[c] = "outbound" /\ UNCHANGED <<outq, asked, replied, got>> BY <1>6 DEF GetOutbound
  <2>2. CASE pc' = [pc EXCEPT ![c] = "send"] BY <1>1, <1>4, <2>1, <2>2
  <2>3. CASE pc' = [pc EXCEPT ![c] = "done"] BY <1>3, <2>1, <2>3 DEF Gone
  <2> QED BY <1>6, <2>2, <2>3 DEF GetOutbound
<1>7. CASE Send(c)
  <2>1. pc[c] = "send" /\ UNCHANGED <<asked, replied, got>> BY <1>7 DEF Send
  <2>2. CASE pc' = [pc EXCEPT ![c] = "done"] /\ UNCHANGED outq BY <1>3, <2>1, <2>2 DEF Gone
  <2>3. CASE /\ pc' = [pc EXCEPT ![c] = "wait"] /\ link[c] \in outOpen
             /\ outq' = [outq EXCEPT ![link[c]] = @ \cup {c}]
    <3>1. UNCHANGED Status BY <1>4, <2>1, <2>3
    <3>2. Status[c] = "open"
      <4>1. Status[c] = Seen("send") BY <1>0, <2>1, <2>3
      <4> QED BY <4>1, SeenFacts
    <3>3. link[c] \in Sessions BY <2>3 DEF TypeOK
    <3>4. c \notin Requested
      <4>1. Addressed(c) BY DEF OrderInv, CallInOrder
      <4> QED BY <2>1, <4>1 DEF Addressed, Travels, Unsent, Requested
    <3>5. /\ \A t \in Sessions \ {link[c]} : outq'[t] = outq[t]
          /\ outq'[link[c]] = outq[link[c]] \cup {c}
      BY <2>3, <3>3 DEF TypeOK
    <3>6. Requested' = Requested \cup {c}
      <4>1. ASSUME NEW d \in Calls PROVE d \in Requested' <=> d \in Requested \/ d = c
        BY <2>1, <3>3, <3>5 DEF Requested
      <4> QED BY <4>1 DEF Requested
    <3> QED BY <2>1, <3>1, <3>2, <3>4, <3>6 DEF Remote!Request
  <2> QED BY <1>7, <2>2, <2>3 DEF Send
<1>8. CASE ChannelClosed(c) \/ CallTimeout(c) \/ CallDropped(c) \/ EndStreamOnDrop(c)
  <2>1. /\ pc[c] \in open /\ \E l \in Gone : pc' = [pc EXCEPT ![c] = l]
        /\ UNCHANGED <<outq, asked, replied, got>>
    BY <1>8 DEF ChannelClosed, CallTimeout, CallDropped, EndStreamOnDrop, Gone
  <2> QED BY <1>3, <2>1
<1>9. CASE EndStream(c)
  <2>1. /\ pc[c] = "ending" /\ pc' = [pc EXCEPT ![c] = "done"]
        /\ UNCHANGED <<outq, asked, replied, got>>
    BY <1>9 DEF EndStream
  <2>2. Status' = [Status EXCEPT ![c] = "over"] /\ Status[c] = "over"
    BY <1>0, <2>1, SeenFacts DEF Gone
  <2>3. UNCHANGED Status BY <2>2 DEF Status
  <2> QED BY <1>1, <2>1, <2>3
<1> QED BY <1>2, <1>5, <1>6, <1>7, <1>8, <1>9 DEF CallStep

\* What the caller takes out of its channel is the next answer
LEMMA ReceiveMaps ==
  ASSUME TypeOK, OrderInv, NEW c \in Calls, Receive(c)
  PROVE  Remote!Take(c)
<1>0. CallInOrder(c) BY DEF OrderInv
<1>1. /\ pc[c] = "wait" /\ chan[c] # <<>> /\ UNCHANGED <<outq, asked, replied>>
      /\ got' = [got EXCEPT ![c] = Append(got[c], Head(chan[c]))]
  BY DEF Receive
<1>2. /\ got[c] \in Seq(1..Replies) /\ chan[c] \in Seq(1..Replies) /\ replied[c] \in Nat
      /\ replied[c] <= Replies
  BY DEF TypeOK
<1>3. /\ Len(got[c]) \in Nat /\ Len(chan[c]) \in Nat /\ Len(chan[c]) > 0
      /\ Head(chan[c]) = chan[c][1]
  BY <1>1, <1>2
<1>4. Head(chan[c]) = Len(got[c]) + 1 /\ Len(got[c]) + Len(chan[c]) <= replied[c]
  <2>1. InTransit(c) /\ Live(c) BY <1>0, <1>1 DEF CallInOrder, Live, Gone
  <2>2. chan[c][1] = Len(got[c]) + 1 BY <1>3, <2>1 DEF InTransit
  <2>3. Taken(c) <= replied[c] BY <2>1 DEF InTransit
  <2>4. Delivered(c) \in Nat /\ (Taken(c) = Delivered(c) \/ Taken(c) = Delivered(c) + 1) BY Sizes
  <2>5. \A d, n \in Nat : d + 1 <= n => d <= n OBVIOUS
  <2>7. Delivered(c) <= replied[c] BY <1>2, <2>3, <2>4, <2>5
  <2> QED BY <1>3, <2>2, <2>7 DEF Delivered
<1>5. Len(got[c]) < replied[c]
  <2>1. \A g, h, n \in Nat : h > 0 /\ g + h <= n => g < n OBVIOUS
  <2> QED BY <1>2, <1>3, <1>4, <2>1
<1>6. Status[c] = "open" BY <1>1, SeenFacts DEF Status
<1>7. UNCHANGED Requested BY <1>1 DEF Requested
<1>8. CASE c \in OneShot
  <2>1. Limit[c] = 1 BY <1>8 DEF Limit
  <2>2. Len(got[c]) + 1 = 1 BY <1>0, <1>2, <1>3, <1>5, <1>8 DEF CallInOrder
  <2>3. pc' = [pc EXCEPT ![c] = "done"] BY <1>8 DEF Receive
  <2>4. Status' = [Status EXCEPT ![c] = "over"]
    <3>1. Status' = [Status EXCEPT ![c] = Seen("done")] BY <2>3, StatusMoves
    <3> QED BY <3>1, SeenFacts DEF Gone
  <2> QED BY <1>1, <1>4, <1>5, <1>6, <1>7, <2>1, <2>2, <2>4 DEF Remote!Take
<1>9. CASE c \notin OneShot
  <2>0. c \in Streaming BY <1>9 DEF Calls
  <2>1. Limit[c] = Replies BY <1>9 DEF Limit
  <2>2. CASE Head(chan[c]) = Replies
    <3>1. pc' = [pc EXCEPT ![c] = "ending"] BY <1>9, <2>0, <2>2 DEF Receive
    <3>2. Status' = [Status EXCEPT ![c] = "over"]
      <4>1. Status' = [Status EXCEPT ![c] = Seen("ending")] BY <3>1, StatusMoves
      <4> QED BY <4>1, SeenFacts DEF Gone
    <3> QED BY <1>1, <1>4, <1>5, <1>6, <1>7, <2>1, <2>2, <3>2 DEF Remote!Take
  <2>3. CASE Head(chan[c]) # Replies
    <3>1. pc' = pc BY <1>9, <2>3 DEF Receive
    <3>2. UNCHANGED Status BY <3>1 DEF Status
    <3> QED BY <1>1, <1>4, <1>5, <1>6, <1>7, <2>1, <2>3, <3>2 DEF Remote!Take
  <2> QED BY <2>2, <2>3
<1> QED BY <1>8, <1>9

(* Two maps, a reader and channels under locks of their own hand each       *)
(* caller what RemoteCalls promises, for any number of calls and sessions:  *)
(* answers to its own request, in order, no more than it asked for, and     *)
(* none after its end.                                                      *)
THEOREM LinkImplementsCalls == Spec => ImplementsCalls
<1>1. Init => Remote!Init
  <2> SUFFICES ASSUME Init PROVE Remote!Init OBVIOUS
  <2>1. \A c \in Calls : pc[c] = "idle" BY DEF Init
  <2>2. Status = [c \in Calls |-> "idle"] BY <2>1, SeenFacts DEF Status
  <2>3. Requested = {} BY DEF Init, Requested
  <2> QED BY <2>2, <2>3 DEF Init, Remote!Init
<1>2. TypeOK /\ OrderInv /\ [Next]_vars => [Remote!Next]_(Remote!vars)
  <2> SUFFICES ASSUME TypeOK, OrderInv, [Next]_vars PROVE [Remote!Next]_(Remote!vars) OBVIOUS
  <2>1. ASSUME NEW s \in Sessions,
               Connect(s) \/ ConnectionLost(s) \/ SessionStep(s) \/ ReaderStep(s)
        PROVE  UNCHANGED Remote!vars
    BY <2>1, SessionMaps DEF Remote!vars
  <2>2. ASSUME NEW s \in Sessions, NEW c \in Calls, AgentReceives(s, c) \/ AgentReplies(s, c)
        PROVE  [Remote!Next]_(Remote!vars)
    BY <2>2, AgentMaps DEF Remote!Next, Remote!vars
  <2>3. ASSUME NEW c \in Calls,
               GetLink(c) \/ CallStep(c) \/ EndStreamOnDrop(c) \/ CallDropped(c)
        PROVE  [Remote!Next]_(Remote!vars)
    BY <2>3, CallMaps DEF Remote!Next, Remote!vars
  <2>4. ASSUME NEW c \in Calls, Receive(c) PROVE [Remote!Next]_(Remote!vars)
    BY <2>4, ReceiveMaps DEF Remote!Next
  <2>5. CASE UNCHANGED vars BY <2>5 DEF vars, Status, Requested, Remote!vars
  <2> QED BY <2>1, <2>2, <2>3, <2>4, <2>5 DEF Next
<1> QED BY <1>1, <1>2, TypeCorrect, RepliesStayInOrder, PTL DEF Spec, ImplementsCalls, Remote!Spec
=============================================================================
