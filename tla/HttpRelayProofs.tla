-------------------------- MODULE HttpRelayProofs ---------------------------
(***************************************************************************)
(* Proofs about HttpRelay, for any requests, bodies of any length and      *)
(* channels of any capacity: what arrives of a body, in either direction,  *)
(* is what was sent and its end is its end; and the link's streams map     *)
(* holds senders of requests in progress only.                             *)
(*                                                                         *)
(* A part of a body is at one place on its way.  What makes that inductive *)
(* is to say, for each direction, where it stands: the receiving end has   *)
(* the first parts, its channel the next ones, and those that follow are   *)
(* on the session, among the parts of other requests.                      *)
(***************************************************************************)
EXTENDS HttpRelay, TLAPS

Part == 0..Error
Message == Requests \X Part

\* channels and what the two ends have got
ChannelTypes ==
    /\ up \in Seq(Message) /\ down \in Seq(Message)
    /\ Len(up) <= SessionCap /\ Len(down) <= SessionCap
    /\ inbox \in [Requests -> Seq(Part)] /\ body \in [Requests -> Seq(Part)]
    /\ received \in [Requests -> Seq(Part)] /\ taken \in [Requests -> Seq(Part)]
    /\ \A r \in Requests : Len(inbox[r]) <= Cap /\ Len(body[r]) <= Cap

\* the places of a request
PlaceTypes ==
    /\ handler \in [Requests -> {"idle", "insert", "head", "body", "pump", "ending", "done", "abandoned"}]
    /\ task \in [Requests -> Receiving \cup {"none", "gone"}]
    /\ fed \in [Requests -> 0..End \cup {Stopped}] /\ made \in [Requests -> 0..Stopped]
    /\ entry \subseteq Requests /\ inflight \subseteq Requests

\* only upgraded connections are pumped, and closed by a peer
Kinds ==
    /\ switched \cup bclosed \cup cclosed \cup cdone \cup bdone \subseteq Upgrades
    /\ \A r \in Requests : handler[r] = "pump" \/ task[r] = "pump" => r \in Upgrades

Types == ChannelTypes /\ PlaceTypes /\ Kinds

-----------------------------------------------------------------------------
(* Parts in their order.  In what follows r is a request and B the requests *)
(* whose body may be broken off.                                            *)

\* part x may come when it is c's turn: the end of a broken body, or an error
\* instead of a head
Jumps(x, c, r, B) == x = Error \/ (x = End /\ r \in B /\ c # Headers)

Last == {End, Error}

\* the channel s holds the parts from b on
Turn(s, b, r, B) ==
    \A i \in 1..Len(s) :
        /\ s[i] = b + i - 1 \/ Jumps(s[i], b + i - 1, r, B)
        /\ s[i] = Error => b + i - 1 = 0
        /\ s[i] \in Last => i = Len(s)

Over(s) == \E i \in 1..Len(s) : s[i] \in Last

\* the part to come after them
After(s, b) == IF Over(s) THEN Stopped ELSE b + Len(s)

IsPart(q, i, r, c) == q[i][1] = r /\ q[i][2] = c

Absent(q, r) == \A i \in 1..Len(q) : q[i][1] # r

\* message i of q is preceded by the parts of r from lo on
Preceded(q, i, r, lo, B) ==
    \A c \in Part : lo <= c /\ c < q[i][2] =>
        \/ \E j \in 1..Len(q) : j < i /\ IsPart(q, j, r, c)
        \/ Jumps(q[i][2], c, r, B)

\* q holds parts of r, from lo on and below n, in order and without a gap
InOrder(q, r, lo, n, B) ==
    /\ \A i \in 1..Len(q) : q[i][1] = r =>
          /\ lo <= q[i][2] /\ q[i][2] < n
          /\ q[i][2] = Error => lo = 0
          /\ Preceded(q, i, r, lo, B)
    /\ \A i, j \in 1..Len(q) : i < j /\ q[i][1] = r /\ q[j][1] = r =>
          q[i][2] < q[j][2] /\ q[j][2] # Error

\* and all of those
AllOf(q, r, lo, n) ==
    \A c \in Part : lo <= c /\ c < n => \E i \in 1..Len(q) : IsPart(q, i, r, c)

-----------------------------------------------------------------------------
(* The request's body: from the hub's feeder to the container. *)

UpBroken == Upgrades \cup left

Fed(r) == IF fed[r] = Stopped THEN End + 1 ELSE fed[r]

\* the task and the container may still take parts
Takes(r) == task[r] # "gone" /\ r \notin cdone

Routed(r) == IF task[r] = "none" THEN 0
             ELSE IF Over(taken[r]) THEN Stopped ELSE After(body[r], Len(taken[r]) + 1)

UpChain(r) ==
    /\ Turn(taken[r], 1, r, UpBroken)
    /\ Takes(r) =>
          /\ Turn(body[r], Len(taken[r]) + 1, r, UpBroken)
          /\ Over(taken[r]) => body[r] = <<>>
          /\ IF Routed(r) = Stopped THEN fed[r] = Stopped ELSE Routed(r) <= Fed(r)
          /\ InOrder(up, r, Routed(r), Fed(r), UpBroken)
          /\ sessionUp /\ fed[r] # Stopped => AllOf(up, r, Routed(r), fed[r])

(* The response: from the agent's task to the browser. *)

DownBroken == Upgrades \cup failed

\* the hub still reads the response
Reads(r) == handler[r] \in Listening /\ r \notin bdone

Base(r) == IF handler[r] = "head" THEN 0 ELSE Len(received[r]) + 1

Resolved(r) == After(inbox[r], Base(r))

DownChain(r) ==
    /\ \A i \in 1..Len(received[r]) : received[r][i] = i
    /\ Reads(r) =>
          /\ handler[r] = "head" => received[r] = <<>>
          /\ Turn(inbox[r], Base(r), r, DownBroken)
    /\ Reads(r) /\ r \in entry =>
          /\ IF Resolved(r) = Stopped THEN made[r] > End ELSE Resolved(r) <= made[r]
          /\ InOrder(down, r, Resolved(r), made[r], DownBroken)
          /\ sessionUp /\ made[r] <= End => AllOf(down, r, Resolved(r), made[r])
    /\ r \in Ordinary /\ r \in eof => Complete(received[r]) \/ r \in failed \/ ~sessionUp

\* a sender that is waited for is missing only when the session is lost
Waits == Listening \cup {"insert"}

Served(r) == handler[r] \in Waits => r \in entry \/ ~sessionUp

\* nothing of the request has been sent
Before == {"idle", "insert"}

(* The places of a request agree. *)
Stages(r) ==
    /\ handler[r] \in Before =>
          /\ task[r] = "none" /\ fed[r] = Stopped /\ Absent(up, r) /\ Absent(down, r)
          /\ inbox[r] = <<>> /\ received[r] = <<>>
    /\ r \in entry => handler[r] \notin {"idle", "done"}
    /\ r \in bdone => handler[r] \notin Before \cup {"head", "body"}
    /\ fed[r] = Headers => task[r] = "none" /\ Absent(up, r)
    /\ task[r] = "none" => body[r] = <<>> /\ taken[r] = <<>> /\ r \notin cdone
    /\ task[r] # "none" => \A i \in 1..Len(up) : ~IsPart(up, i, r, Headers)
    /\ task[r] \in Receiving => r \in inflight
    /\ task[r] \in {"none", "proxy"} => made[r] = Headers
    /\ task[r] = "stream" => made[r] \in 1..End
    /\ task[r] = "pump" => made[r] \in 1..End + 1

RelayInv == Types /\ \A r \in Requests : Served(r) /\ Stages(r) /\ UpChain(r) /\ DownChain(r)

-----------------------------------------------------------------------------
USE RelayAssumption DEF Headers, End, Error, Stopped, Part

LEMMA IsMessage ==
  ASSUME NEW q \in Seq(Message), NEW i \in 1..Len(q)
  PROVE  q[i][1] \in Requests /\ q[i][2] \in Part
<1>1. q[i] \in Message OBVIOUS
<1> QED BY <1>1 DEF Message

(* A part of r sent in its turn, or before it where that is allowed.        *)
LEMMA AppendOwn ==
  ASSUME NEW q \in Seq(Message), NEW r \in Requests, NEW B, NEW lo \in Nat, NEW n \in Nat,
         NEW x \in Part, InOrder(q, r, lo, n, B), AllOf(q, r, lo, n), lo <= n, n <= x,
         x = n \/ (x = End /\ r \in B /\ n # 0) \/ x = Error,
         x = Error => n = 0
  PROVE  /\ InOrder(Append(q, <<r, x>>), r, lo, x + 1, B)
         /\ x = n => AllOf(Append(q, <<r, x>>), r, lo, x + 1)
<1> DEFINE m == <<r, x>>
           p == Append(q, m)
<1>1. m \in Message BY DEF Message
<1>2. /\ Len(q) \in Nat /\ Len(p) = Len(q) + 1 /\ p[Len(q) + 1] = m
      /\ \A i \in 1..Len(q) : p[i] = q[i]
  BY <1>1
<1>3. m[1] = r /\ m[2] = x OBVIOUS
<1>4. \A i \in 1..Len(q) : q[i][2] \in Part BY IsMessage
<1> HIDE DEF p, m
<1>5. \A c \in Part : lo <= c /\ c < n => \E j \in 1..Len(p) : j < Len(p) /\ IsPart(p, j, r, c)
  <2> SUFFICES ASSUME NEW c \in Part, lo <= c, c < n
               PROVE  \E j \in 1..Len(p) : j < Len(p) /\ IsPart(p, j, r, c)
    OBVIOUS
  <2>1. PICK j \in 1..Len(q) : IsPart(q, j, r, c) BY DEF AllOf
  <2>2. j \in 1..Len(p) /\ j < Len(p) /\ p[j] = q[j] BY <1>2
  <2> QED BY <2>1, <2>2 DEF IsPart
<1>6. IsPart(p, Len(p), r, x) /\ Len(p) \in 1..Len(p) BY <1>2, <1>3 DEF IsPart
<1>7. x = n => AllOf(p, r, lo, x + 1)
  <2> SUFFICES ASSUME x = n, NEW c \in Part, lo <= c, c < x + 1
               PROVE  \E i \in 1..Len(p) : IsPart(p, i, r, c)
    BY DEF AllOf
  <2>1. CASE c = x BY <1>6, <2>1
  <2>2. CASE c < n BY <1>5, <2>2
  <2> QED BY <2>1, <2>2
<1>8. ASSUME NEW i \in 1..Len(p), p[i][1] = r
      PROVE  /\ lo <= p[i][2] /\ p[i][2] < x + 1
             /\ p[i][2] = Error => lo = 0
             /\ Preceded(p, i, r, lo, B)
  <2>1. CASE i \in 1..Len(q)
    <3>1. p[i] = q[i] /\ q[i][1] = r /\ q[i][2] \in Part BY <1>2, <1>4, <1>8, <2>1
    <3>2. /\ lo <= q[i][2] /\ q[i][2] < n /\ (q[i][2] = Error => lo = 0)
          /\ Preceded(q, i, r, lo, B)
      BY <2>1, <3>1 DEF InOrder
    <3>3. ASSUME NEW c \in Part, lo <= c, c < q[i][2]
          PROVE  (\E j \in 1..Len(p) : j < i /\ IsPart(p, j, r, c)) \/ Jumps(q[i][2], c, r, B)
      <4>1. CASE Jumps(q[i][2], c, r, B) BY <4>1
      <4>2. CASE \E j \in 1..Len(q) : j < i /\ IsPart(q, j, r, c)
        <5>1. PICK j \in 1..Len(q) : j < i /\ IsPart(q, j, r, c) BY <4>2
        <5>2. j \in 1..Len(p) /\ p[j] = q[j] BY <1>2
        <5> QED BY <5>1, <5>2 DEF IsPart
      <4> QED BY <3>2, <3>3, <4>1, <4>2 DEF Preceded
    <3>4. Preceded(p, i, r, lo, B) BY <3>1, <3>3 DEF Preceded
    <3> QED BY <3>1, <3>2, <3>4
  <2>2. CASE i = Len(p)
    <3>1. p[i][2] = x BY <1>6, <2>2 DEF IsPart
    <3>2. ASSUME NEW c \in Part, lo <= c, c < x
          PROVE  (\E j \in 1..Len(p) : j < i /\ IsPart(p, j, r, c)) \/ Jumps(x, c, r, B)
      <4>1. CASE c < n BY <1>5, <2>2, <3>2, <4>1
      <4>2. CASE n <= c BY <3>2, <4>2 DEF Jumps
      <4> QED BY <4>1, <4>2
    <3>3. Preceded(p, i, r, lo, B) BY <3>1, <3>2 DEF Preceded
    <3> QED BY <3>1, <3>3
  <2> QED BY <1>2, <2>1, <2>2
<1>9. ASSUME NEW i \in 1..Len(p), NEW j \in 1..Len(p), i < j, p[i][1] = r, p[j][1] = r
      PROVE  p[i][2] < p[j][2] /\ p[j][2] # Error
  <2>1. i \in 1..Len(q) /\ p[i] = q[i] BY <1>2, <1>9
  <2>2. CASE j \in 1..Len(q)
    <3>1. p[j] = q[j] BY <1>2, <2>2
    <3> QED BY <1>9, <2>1, <2>2, <3>1 DEF InOrder
  <2>3. CASE j = Len(p)
    <3>1. p[j][2] = x BY <1>6, <2>3 DEF IsPart
    <3>2. q[i][2] < n /\ q[i][2] \in Part BY <1>4, <1>9, <2>1 DEF InOrder
    <3> QED BY <2>1, <3>1, <3>2
  <2> QED BY <1>2, <2>2, <2>3
<1>10. InOrder(p, r, lo, x + 1, B) BY <1>8, <1>9 DEF InOrder
<1> QED BY <1>7, <1>10 DEF p, m

(* A queue p that has the messages of r of a prefix of q.                   *)
LEMMA SamePrefix ==
  ASSUME NEW q \in Seq(Message), NEW p \in Seq(Message), NEW r \in Requests, NEW B,
         NEW lo \in Nat, NEW n \in Nat, NEW k \in 0..Len(q), k <= Len(p),
         \A i \in 1..k : p[i] = q[i], \A i \in 1..Len(p) : p[i][1] = r => i <= k
  PROVE  /\ InOrder(q, r, lo, n, B) => InOrder(p, r, lo, n, B)
         /\ k = Len(q) /\ AllOf(q, r, lo, n) => AllOf(p, r, lo, n)
<1>1. Len(q) \in Nat /\ Len(p) \in Nat OBVIOUS
<1>2. \A i \in 1..k : i \in 1..Len(q) /\ i \in 1..Len(p) BY <1>1
<1>3. \A i \in 1..Len(p) : p[i][1] = r => i \in 1..k BY <1>1
<1>4. ASSUME InOrder(q, r, lo, n, B) PROVE InOrder(p, r, lo, n, B)
  <2>1. ASSUME NEW i \in 1..Len(p), p[i][1] = r
        PROVE  /\ lo <= p[i][2] /\ p[i][2] < n
               /\ p[i][2] = Error => lo = 0
               /\ Preceded(p, i, r, lo, B)
    <3>1. i \in 1..k /\ i \in 1..Len(q) /\ p[i] = q[i] BY <1>2, <1>3, <2>1
    <3>2. /\ lo <= q[i][2] /\ q[i][2] < n /\ (q[i][2] = Error => lo = 0)
          /\ Preceded(q, i, r, lo, B)
      BY <1>4, <2>1, <3>1 DEF InOrder
    <3>3. ASSUME NEW c \in Part, lo <= c, c < q[i][2]
          PROVE  (\E j \in 1..Len(p) : j < i /\ IsPart(p, j, r, c)) \/ Jumps(q[i][2], c, r, B)
      <4>1. CASE Jumps(q[i][2], c, r, B) BY <4>1
      <4>2. CASE \E j \in 1..Len(q) : j < i /\ IsPart(q, j, r, c)
        <5>1. PICK j \in 1..Len(q) : j < i /\ IsPart(q, j, r, c) BY <4>2
        <5>2. j \in 1..k BY <1>1, <3>1, <5>1
        <5>3. j \in 1..Len(p) /\ p[j] = q[j] BY <1>2, <5>2
        <5> QED BY <5>1, <5>3 DEF IsPart
      <4> QED BY <3>2, <3>3, <4>1, <4>2 DEF Preceded
    <3>4. Preceded(p, i, r, lo, B) BY <3>1, <3>3 DEF Preceded
    <3> QED BY <3>1, <3>2, <3>4
  <2>2. ASSUME NEW i \in 1..Len(p), NEW j \in 1..Len(p), i < j, p[i][1] = r, p[j][1] = r
        PROVE  p[i][2] < p[j][2] /\ p[j][2] # Error
    <3>1. i \in 1..Len(q) /\ p[i] = q[i] /\ j \in 1..Len(q) /\ p[j] = q[j] BY <1>2, <1>3, <2>2
    <3> QED BY <1>4, <2>2, <3>1 DEF InOrder
  <2> QED BY <2>1, <2>2 DEF InOrder
<1>5. ASSUME k = Len(q), AllOf(q, r, lo, n) PROVE AllOf(p, r, lo, n)
  <2> SUFFICES ASSUME NEW c \in Part, lo <= c, c < n
               PROVE  \E i \in 1..Len(p) : IsPart(p, i, r, c)
    BY DEF AllOf
  <2>1. PICK i \in 1..Len(q) : IsPart(q, i, r, c) BY <1>5 DEF AllOf
  <2>2. i \in 1..Len(p) /\ p[i] = q[i] BY <1>2, <1>5
  <2> QED BY <2>1, <2>2 DEF IsPart
<1> QED BY <1>4, <1>5

(* What a lost session leaves to be read is in order.                       *)
LEMMA Truncated ==
  ASSUME NEW q \in Seq(Message), NEW r \in Requests, NEW B, NEW lo \in Nat, NEW n \in Nat,
         NEW k \in 0..Len(q), InOrder(q, r, lo, n, B)
  PROVE  InOrder(SubSeq(q, 1, k), r, lo, n, B)
<1> DEFINE p == SubSeq(q, 1, k)
<1>1. Len(p) = k /\ p \in Seq(Message) /\ \A i \in 1..k : p[i] = q[i] OBVIOUS
<1> HIDE DEF p
<1>2. k <= Len(p) /\ \A i \in 1..Len(p) : p[i][1] = r => i <= k BY <1>1
<1> QED BY <1>1, <1>2, SamePrefix DEF p

(* The queue without its first message, which is no part of r from e on.    *)
LEMMA WithoutFirst ==
  ASSUME NEW q \in Seq(Message), q # <<>>, NEW r \in Requests, NEW B, NEW lo \in Nat, NEW n \in Nat,
         NEW e \in Nat, lo <= e, InOrder(q, r, lo, n, B),
         q[1][1] = r => q[1][2] < e,
         \A i \in 2..Len(q) : q[i][1] = r => e <= q[i][2] /\ (q[i][2] = Error => e = 0)
  PROVE  /\ InOrder(Tail(q), r, e, n, B)
         /\ AllOf(q, r, lo, n) => AllOf(Tail(q), r, e, n)
<1> DEFINE p == Tail(q)
<1>1. /\ Len(q) \in Nat \ {0} /\ Len(p) = Len(q) - 1
      /\ \A i \in 1..Len(p) : p[i] = q[i + 1]
  OBVIOUS
<1> HIDE DEF p
<1>2. \A i \in 1..Len(q) : q[i][2] \in Part BY IsMessage
<1>3. \A i \in 1..Len(p) : i + 1 \in 1..Len(q) /\ i + 1 \in 2..Len(q) BY <1>1
<1>4. ASSUME NEW c \in Part, NEW j \in 1..Len(q), IsPart(q, j, r, c), e <= c
      PROVE  j - 1 \in 1..Len(p) /\ IsPart(p, j - 1, r, c)
  <2>1. j # 1 BY <1>4 DEF IsPart
  <2>2. j - 1 \in 1..Len(p) /\ (j - 1) + 1 = j BY <1>1, <2>1
  <2>3. p[j - 1] = q[j] BY <1>1, <2>2
  <2> QED BY <1>4, <2>2, <2>3 DEF IsPart
<1>5. ASSUME NEW i \in 1..Len(p), p[i][1] = r
      PROVE  /\ e <= p[i][2] /\ p[i][2] < n
             /\ p[i][2] = Error => e = 0
             /\ Preceded(p, i, r, e, B)
  <2>1. p[i] = q[i + 1] /\ i + 1 \in 1..Len(q) /\ i + 1 \in 2..Len(q) BY <1>1, <1>3
  <2>2. e <= q[i + 1][2] /\ q[i + 1][2] < n /\ (q[i + 1][2] = Error => e = 0) BY <1>5, <2>1 DEF InOrder
  <2>3. ASSUME NEW c \in Part, e <= c, c < q[i + 1][2]
        PROVE  (\E j \in 1..Len(p) : j < i /\ IsPart(p, j, r, c)) \/ Jumps(q[i + 1][2], c, r, B)
    <3>1. lo <= c BY <2>3
    <3>2. Preceded(q, i + 1, r, lo, B) BY <1>5, <2>1 DEF InOrder
    <3>3. CASE Jumps(q[i + 1][2], c, r, B) BY <3>3
    <3>4. CASE \E j \in 1..Len(q) : j < i + 1 /\ IsPart(q, j, r, c)
      <4>1. PICK j \in 1..Len(q) : j < i + 1 /\ IsPart(q, j, r, c) BY <3>4
      <4>2. j - 1 \in 1..Len(p) /\ IsPart(p, j - 1, r, c) BY <1>4, <2>3, <4>1
      <4>3. j - 1 < i BY <4>1
      <4> QED BY <4>2, <4>3
    <3> QED BY <2>3, <3>1, <3>2, <3>3, <3>4 DEF Preceded
  <2>4. Preceded(p, i, r, e, B) BY <2>1, <2>3 DEF Preceded
  <2> QED BY <2>1, <2>2, <2>4
<1>6. ASSUME NEW i \in 1..Len(p), NEW j \in 1..Len(p), i < j, p[i][1] = r, p[j][1] = r
      PROVE  p[i][2] < p[j][2] /\ p[j][2] # Error
  <2>1. /\ i + 1 \in 1..Len(q) /\ j + 1 \in 1..Len(q) /\ i + 1 < j + 1
        /\ p[i] = q[i + 1] /\ p[j] = q[j + 1]
    BY <1>1, <1>3, <1>6, SMTT(30)
  <2> QED BY <1>6, <2>1 DEF InOrder
<1>7. ASSUME AllOf(q, r, lo, n) PROVE AllOf(p, r, e, n)
  <2> SUFFICES ASSUME NEW c \in Part, e <= c, c < n
               PROVE  \E i \in 1..Len(p) : IsPart(p, i, r, c)
    BY DEF AllOf
  <2>1. PICK j \in 1..Len(q) : IsPart(q, j, r, c) BY <1>7 DEF AllOf
  <2> QED BY <1>4, <2>1
<1>8. InOrder(p, r, e, n, B) BY <1>5, <1>6 DEF InOrder
<1> QED BY <1>7, <1>8 DEF p

(* The first message of r is the one whose turn it is; nothing follows the  *)
(* end of a body or an error.                                               *)
LEMMA TailOwn ==
  ASSUME NEW q \in Seq(Message), q # <<>>, NEW r \in Requests, NEW B, NEW lo \in Nat, NEW n \in Nat,
         n <= Stopped, InOrder(q, r, lo, n, B), q[1][1] = r
  PROVE  /\ q[1][2] \in Part /\ lo <= q[1][2] /\ q[1][2] < n
         /\ q[1][2] = lo \/ Jumps(q[1][2], lo, r, B)
         /\ q[1][2] = Error => lo = 0
         /\ q[1][2] \notin Last =>
               /\ InOrder(Tail(q), r, lo + 1, n, B)
               /\ AllOf(q, r, lo, n) => AllOf(Tail(q), r, lo + 1, n)
         /\ q[1][2] \in Last => Absent(Tail(q), r)
<1>1. 1 \in 1..Len(q) /\ q[1][2] \in Part /\ Len(q) \in Nat BY IsMessage
<1>2. /\ lo <= q[1][2] /\ q[1][2] < n /\ (q[1][2] = Error => lo = 0)
      /\ Preceded(q, 1, r, lo, B)
  BY <1>1 DEF InOrder
<1>3. q[1][2] = lo \/ Jumps(q[1][2], lo, r, B)
  <2> SUFFICES ASSUME lo < q[1][2] PROVE Jumps(q[1][2], lo, r, B) BY <1>1, <1>2
  <2>1. lo \in Part BY <1>1
  <2>2. ~\E j \in 1..Len(q) : j < 1 /\ IsPart(q, j, r, lo) OBVIOUS
  <2> QED BY <1>2, <2>1, <2>2 DEF Preceded
<1>4. \A i \in 2..Len(q) : q[i][1] = r => q[1][2] < q[i][2] /\ q[i][2] # Error /\ q[i][2] < n /\ q[i][2] \in Part
  BY <1>1, IsMessage DEF InOrder
<1>5. ASSUME q[1][2] \notin Last
      PROVE  /\ InOrder(Tail(q), r, lo + 1, n, B)
             /\ AllOf(q, r, lo, n) => AllOf(Tail(q), r, lo + 1, n)
  <2>1. q[1][2] = lo BY <1>3, <1>5 DEF Jumps, Last
  <2>2. \A i \in 2..Len(q) : q[i][1] = r => lo + 1 <= q[i][2] /\ (q[i][2] = Error => lo + 1 = 0)
    BY <1>4, <2>1
  <2>3. lo + 1 \in Nat /\ lo <= lo + 1 /\ q[1][2] < lo + 1 BY <2>1
  <2> QED BY <2>2, <2>3, WithoutFirst
<1>6. ASSUME q[1][2] \in Last PROVE Absent(Tail(q), r)
  <2>1. \A i \in 2..Len(q) : q[i][1] # r BY <1>1, <1>4, <1>6 DEF Last
  <2> DEFINE p == Tail(q)
  <2>2. Len(p) = Len(q) - 1 /\ \A i \in 1..Len(p) : p[i] = q[i + 1] OBVIOUS
  <2> HIDE DEF p
  <2>3. \A i \in 1..Len(p) : i + 1 \in 2..Len(q) BY <1>1, <2>2
  <2>4. Absent(p, r) BY <2>1, <2>2, <2>3 DEF Absent
  <2> QED BY <2>4 DEF p
<1> QED BY <1>1, <1>2, <1>3, <1>5, <1>6

(* The wire of r after a step of another request. *)
Moved(p, q, r) ==
    \/ p = q
    \/ \E m \in Message : m[1] # r /\ p = Append(q, m)
    \/ q # <<>> /\ q[1][1] # r /\ p = Tail(q)

LEMMA OthersMove ==
  ASSUME NEW q \in Seq(Message), NEW p, NEW r \in Requests, NEW B, NEW lo \in Nat, NEW n \in Nat,
         Moved(p, q, r)
  PROVE  /\ InOrder(q, r, lo, n, B) => InOrder(p, r, lo, n, B)
         /\ AllOf(q, r, lo, n) => AllOf(p, r, lo, n)
<1>1. CASE p = q BY <1>1
<1>2. ASSUME NEW m \in Message, m[1] # r, p = Append(q, m)
      PROVE  /\ InOrder(q, r, lo, n, B) => InOrder(p, r, lo, n, B)
             /\ AllOf(q, r, lo, n) => AllOf(p, r, lo, n)
  <2>1. /\ Len(q) \in Nat /\ Len(p) = Len(q) + 1 /\ p[Len(q) + 1] = m /\ p \in Seq(Message)
        /\ \A i \in 1..Len(q) : p[i] = q[i]
    BY <1>2
  <2>2. Len(q) \in 0..Len(q) /\ Len(q) <= Len(p) BY <2>1
  <2>3. \A i \in 1..Len(p) : p[i][1] = r => i <= Len(q) BY <1>2, <2>1
  <2> QED BY <2>1, <2>2, <2>3, SamePrefix
<1>3. CASE q # <<>> /\ q[1][1] # r /\ p = Tail(q)
  <2>1. ASSUME InOrder(q, r, lo, n, B) PROVE InOrder(p, r, lo, n, B)
    <3>1. \A i \in 2..Len(q) : q[i][1] = r => lo <= q[i][2] /\ (q[i][2] = Error => lo = 0)
      BY <2>1 DEF InOrder
    <3> QED BY <1>3, <2>1, <3>1, WithoutFirst
  <2>2. ASSUME AllOf(q, r, lo, n) PROVE AllOf(p, r, lo, n)
    <3> SUFFICES ASSUME NEW c \in Part, lo <= c, c < n
                 PROVE  \E i \in 1..Len(p) : IsPart(p, i, r, c)
      BY DEF AllOf
    <3>1. PICK j \in 1..Len(q) : IsPart(q, j, r, c) BY <2>2 DEF AllOf
    <3>2. j # 1 BY <1>3, <3>1 DEF IsPart
    <3>3. /\ Len(q) \in Nat \ {0} /\ Len(p) = Len(q) - 1 /\ \A i \in 1..Len(p) : p[i] = q[i + 1]
      BY <1>3
    <3>4. j - 1 \in 1..Len(p) /\ (j - 1) + 1 = j BY <3>2, <3>3
    <3>5. p[j - 1] = q[j] BY <3>3, <3>4
    <3> QED BY <3>1, <3>4, <3>5 DEF IsPart
  <2> QED BY <2>1, <2>2
<1> QED BY <1>1, <1>2, <1>3 DEF Moved

\* q has every message of r that p has
Within(p, q, r) == \A i \in 1..Len(p) : p[i][1] = r => \E j \in 1..Len(q) : q[j] = p[i]

LEMMA WireWithin ==
  ASSUME NEW q \in Seq(Message), NEW p, NEW r,
         Moved(p, q, r) \/ (q # <<>> /\ p = Tail(q)) \/ \E k \in 0..Len(q) : p = SubSeq(q, 1, k)
  PROVE  Within(p, q, r)
<1>1. CASE p = q BY <1>1 DEF Within
<1>2. ASSUME NEW m \in Message, m[1] # r, p = Append(q, m) PROVE Within(p, q, r)
  <2>1. /\ Len(q) \in Nat /\ Len(p) = Len(q) + 1 /\ p[Len(q) + 1] = m
        /\ \A i \in 1..Len(q) : p[i] = q[i]
    BY <1>2
  <2>2. \A i \in 1..Len(p) : i \in 1..Len(q) \/ i = Len(q) + 1 BY <2>1
  <2> QED BY <1>2, <2>1, <2>2 DEF Within
<1>3. CASE q # <<>> /\ p = Tail(q)
  <2>1. /\ Len(q) \in Nat \ {0} /\ Len(p) = Len(q) - 1 /\ \A i \in 1..Len(p) : p[i] = q[i + 1]
    BY <1>3
  <2>2. \A i \in 1..Len(p) : i + 1 \in 1..Len(q) BY <2>1
  <2> QED BY <2>1, <2>2 DEF Within
<1>4. ASSUME NEW k \in 0..Len(q), p = SubSeq(q, 1, k) PROVE Within(p, q, r)
  <2>1. Len(p) = k /\ \A i \in 1..k : p[i] = q[i] /\ i \in 1..Len(q) BY <1>4
  <2> QED BY <2>1 DEF Within
<1> QED BY <1>1, <1>2, <1>3, <1>4 DEF Moved

LEMMA WithinFacts ==
  ASSUME NEW q, NEW p, NEW r, Within(p, q, r)
  PROVE  /\ Absent(q, r) => Absent(p, r)
         /\ (\A i \in 1..Len(q) : ~IsPart(q, i, r, Headers)) =>
               \A i \in 1..Len(p) : ~IsPart(p, i, r, Headers)
BY DEF Within, Absent, IsPart

(* No message of r is in any order. *)
LEMMA AbsentFacts ==
  ASSUME NEW q, NEW r, NEW B, NEW lo, NEW n, Absent(q, r)
  PROVE  InOrder(q, r, lo, n, B)
BY DEF Absent, InOrder

(* Bounds and exceptions may grow. *)
LEMMA Weaken ==
  ASSUME NEW q \in Seq(Message), NEW r \in Requests, NEW B, NEW C, NEW lo \in Nat, NEW n \in Nat,
         NEW m \in Nat, InOrder(q, r, lo, n, B), n <= m, r \in B => r \in C
  PROVE  InOrder(q, r, lo, m, C)
<1>1. \A i \in 1..Len(q) : q[i][2] \in Part BY IsMessage
<1>2. \A x, c : Jumps(x, c, r, B) => Jumps(x, c, r, C) BY DEF Jumps
<1>3. \A i \in 1..Len(q) : Preceded(q, i, r, lo, B) => Preceded(q, i, r, lo, C)
  BY <1>2 DEF Preceded
<1>4. \A i \in 1..Len(q) : q[i][2] < n => q[i][2] < m BY <1>1
<1> QED BY <1>3, <1>4 DEF InOrder

-----------------------------------------------------------------------------
(* Channels. *)

LEMMA TurnEmpty ==
  ASSUME NEW b, NEW r, NEW B
  PROVE  Turn(<<>>, b, r, B) /\ ~Over(<<>>) /\ (b \in Nat => After(<<>>, b) = b)
<1>1. 1..Len(<<>>) = {} OBVIOUS
<1>2. ~Over(<<>>) BY <1>1 DEF Over
<1>3. b \in Nat => b + Len(<<>>) = b OBVIOUS
<1> QED BY <1>1, <1>2, <1>3 DEF Turn, After

LEMMA TurnAppend ==
  ASSUME NEW s \in Seq(Part), NEW b \in Nat, NEW r, NEW B, NEW x \in Part,
         Turn(s, b, r, B), ~Over(s),
         x = b + Len(s) \/ Jumps(x, b + Len(s), r, B), x = Error => b + Len(s) = 0
  PROVE  /\ Turn(Append(s, x), b, r, B)
         /\ Over(Append(s, x)) <=> x \in Last
         /\ After(Append(s, x), b) = IF x \in Last THEN Stopped ELSE b + Len(s) + 1
<1> DEFINE t == Append(s, x)
<1>1. /\ Len(s) \in Nat /\ Len(t) = Len(s) + 1 /\ t[Len(s) + 1] = x
      /\ \A i \in 1..Len(s) : t[i] = s[i]
  OBVIOUS
<1> HIDE DEF t
<1>2. \A i \in 1..Len(s) : s[i] \notin Last BY DEF Over
<1>3. \A i \in 1..Len(t) : i \in 1..Len(s) \/ i = Len(s) + 1 BY <1>1
<1>4. b + (Len(s) + 1) - 1 = b + Len(s) BY <1>1
<1>5. Turn(t, b, r, B)
  <2> SUFFICES ASSUME NEW i \in 1..Len(t)
               PROVE  /\ t[i] = b + i - 1 \/ Jumps(t[i], b + i - 1, r, B)
                      /\ t[i] = Error => b + i - 1 = 0
                      /\ t[i] \in Last => i = Len(t)
    BY DEF Turn
  <2>1. CASE i \in 1..Len(s) BY <1>1, <1>2, <2>1 DEF Turn
  <2>2. CASE i = Len(s) + 1 BY <1>1, <1>4, <2>2
  <2> QED BY <1>3, <2>1, <2>2
<1>6. Over(t) <=> x \in Last
  <2>1. Len(s) + 1 \in 1..Len(t) BY <1>1
  <2> QED BY <1>1, <1>2, <1>3, <2>1 DEF Over
<1>7. b + Len(t) = b + Len(s) + 1 BY <1>1
<1> QED BY <1>5, <1>6, <1>7 DEF After, t

LEMMA TurnTail ==
  ASSUME NEW s \in Seq(Part), s # <<>>, NEW b \in Nat, NEW r, NEW B, Turn(s, b, r, B)
  PROVE  /\ Head(s) = b \/ Jumps(Head(s), b, r, B)
         /\ Head(s) = Error => b = 0
         /\ Head(s) \in Last => Tail(s) = <<>>
         /\ Head(s) \notin Last =>
               /\ Head(s) = b
               /\ Turn(Tail(s), b + 1, r, B)
               /\ After(Tail(s), b + 1) = After(s, b)
               /\ Over(Tail(s)) <=> Over(s)
<1> DEFINE t == Tail(s)
<1>1. /\ Len(s) \in Nat \ {0} /\ Len(t) = Len(s) - 1 /\ t \in Seq(Part) /\ Head(s) = s[1]
      /\ \A i \in 1..Len(t) : t[i] = s[i + 1]
  OBVIOUS
<1>2. 1 \in 1..Len(s) /\ b + 1 - 1 = b BY <1>1
<1>3. /\ s[1] = b \/ Jumps(s[1], b, r, B)
      /\ s[1] = Error => b = 0
      /\ s[1] \in Last => 1 = Len(s)
  BY <1>2 DEF Turn
<1> HIDE DEF t
<1>4. s[1] \in Last => t = <<>>
  <2> SUFFICES ASSUME s[1] \in Last PROVE t = <<>> OBVIOUS
  <2>1. Len(s) = 1 BY <1>3
  <2>2. Len(t) = 0 BY <1>1, <2>1
  <2>3. t \in Seq(Part) BY <1>1
  <2> QED BY <2>2, <2>3
<1>5. ASSUME s[1] \notin Last
      PROVE  s[1] = b /\ Turn(t, b + 1, r, B) /\ After(t, b + 1) = After(s, b) /\ (Over(t) <=> Over(s))
  <2>1. s[1] = b BY <1>3, <1>5 DEF Jumps, Last
  <2>2. Turn(t, b + 1, r, B)
    <3> SUFFICES ASSUME NEW i \in 1..Len(t)
                 PROVE  /\ t[i] = (b + 1) + i - 1 \/ Jumps(t[i], (b + 1) + i - 1, r, B)
                        /\ t[i] = Error => (b + 1) + i - 1 = 0
                        /\ t[i] \in Last => i = Len(t)
      BY DEF Turn
    <3>1. i + 1 \in 1..Len(s) /\ b + (i + 1) - 1 = (b + 1) + i - 1 BY <1>1
    <3>2. /\ s[i + 1] = b + (i + 1) - 1 \/ Jumps(s[i + 1], b + (i + 1) - 1, r, B)
          /\ s[i + 1] = Error => b + (i + 1) - 1 = 0
          /\ s[i + 1] \in Last => i + 1 = Len(s)
      BY <3>1 DEF Turn
    <3>3. t[i] = s[i + 1] /\ (i + 1 = Len(s) => i = Len(t)) BY <1>1
    <3> QED BY <3>1, <3>2, <3>3
  <2>3. Over(t) <=> Over(s)
    <3>1. ASSUME Over(t) PROVE Over(s)
      <4>1. PICK i \in 1..Len(t) : t[i] \in Last BY <3>1 DEF Over
      <4>2. i + 1 \in 1..Len(s) /\ s[i + 1] \in Last BY <1>1, <4>1, SMTT(30)
      <4> QED BY <4>2 DEF Over
    <3>2. ASSUME Over(s) PROVE Over(t)
      <4>1. PICK i \in 1..Len(s) : s[i] \in Last BY <3>2 DEF Over
      <4>2. i # 1 BY <1>5, <4>1
      <4>3. i - 1 \in 1..Len(t) /\ (i - 1) + 1 = i BY <1>1, <4>2
      <4>4. t[i - 1] \in Last BY <1>1, <4>1, <4>3
      <4> QED BY <4>3, <4>4 DEF Over
    <3> QED BY <3>1, <3>2
  <2>4. (b + 1) + Len(t) = b + Len(s) BY <1>1
  <2> QED BY <2>1, <2>2, <2>3, <2>4 DEF After
<1> QED BY <1>1, <1>3, <1>4, <1>5 DEF t

LEMMA TurnWeaken ==
  ASSUME NEW s, NEW b, NEW r, NEW B, NEW C, Turn(s, b, r, B), r \in B => r \in C
  PROVE  Turn(s, b, r, C)
BY DEF Turn, Jumps

-----------------------------------------------------------------------------
(* Types. *)

LEMMA Queued ==
  ASSUME NEW S, NEW s \in Seq(S)
  PROVE  /\ Len(s) \in Nat
         /\ s # <<>> => Head(s) \in S /\ Tail(s) \in Seq(S) /\ Len(Tail(s)) <= Len(s) /\ Head(s) = s[1]
         /\ \A x \in S : Append(s, x) \in Seq(S) /\ Len(Append(s, x)) = Len(s) + 1
OBVIOUS

\* the fields a hub step of r may write
LEMMA HubTypes ==
  ASSUME RelayInv, NEW r \in Requests,
         \/ Request(r) \/ HubStep(r) \/ HeadUnusable(r)
         \/ UpgradeFails(r) \/ BrowserCloses(r) \/ BrowserLeaves(r)
  PROVE  Types'
<1> USE DEF session, hub, browser, agent, container
<1>0. Types /\ Stages(r) BY DEF RelayInv
<1> USE <1>0 DEF Types, Kinds
<1>1. CASE Request(r) \/ GetOutbound(r)
  <2>1. PICK h \in {"insert", "head", "done"} : Handle(r, h) BY <1>1 DEF Request, GetOutbound
  <2>2. entry' \subseteq Requests /\ (UNCHANGED fed \/ fed' = [fed EXCEPT ![r] = 0])
    BY <1>1 DEF Request, GetOutbound, PlaceTypes
  <2>3. /\ UNCHANGED <<up, down, body, received, inbox, taken, task, made, inflight>>
        /\ UNCHANGED <<switched, bclosed, cclosed, cdone, bdone>>
    BY <1>1 DEF Request, GetOutbound
  <2>4. fed' \in [Requests -> 0..End \cup {Stopped}] BY <2>2 DEF PlaceTypes
  <2> QED BY <2>1, <2>2, <2>3, <2>4 DEF Handle, ChannelTypes, PlaceTypes
<1>2. ASSUME NEW part \in Part, NEW next \in 1..End \cup {Stopped}, Feed(r, part, next) PROVE Types'
  <2>1. <<r, part>> \in Message BY DEF Message
  <2>2. up' \in Seq(Message) /\ Len(up') <= SessionCap BY <1>2, <2>1, Queued DEF Feed, ChannelTypes
  <2>3. UNCHANGED <<down, inbox, body, received, taken, handler, task, made, entry, inflight>> BY <1>2 DEF Feed
  <2>4. UNCHANGED <<switched, bclosed, cclosed, cdone, bdone>> BY <1>2 DEF Feed
  <2>5. fed' \in [Requests -> 0..End \cup {Stopped}] BY <1>2 DEF Feed, PlaceTypes
  <2> QED BY <2>2, <2>3, <2>4, <2>5 DEF ChannelTypes, PlaceTypes
<1>3. CASE FeedHead(r) \/ FeedChunk(r) \/ FeedEnd(r)
  <2>1. CASE FeedHead(r)
    <3>1. Feed(r, 0, 1) /\ 1 \in 1..End /\ 0 \in Part BY <2>1 DEF FeedHead
    <3> QED BY <1>2, <3>1
  <2>2. CASE FeedChunk(r)
    <3>1. fed[r] \in 1..Chunks /\ Feed(r, fed[r], fed[r] + 1) BY <2>2 DEF FeedChunk, CanFeed
    <3>2. fed[r] \in Part /\ fed[r] + 1 \in 1..End BY <3>1
    <3> QED BY <1>2, <3>1, <3>2
  <2>3. CASE FeedEnd(r)
    <3>1. Feed(r, End, Stopped) /\ End \in Part BY <2>3 DEF FeedEnd
    <3> QED BY <1>2, <3>1
  <2> QED BY <1>3, <2>1, <2>2, <2>3
<1>4. CASE FeedStops(r)
  <2>1. fed' = [fed EXCEPT ![r] = Stopped] /\ entry' \subseteq entry BY <1>4 DEF FeedStops
  <2>2. /\ UNCHANGED <<up, down, body, received, inbox, handler, taken, task, made, inflight>>
        /\ UNCHANGED <<switched, bclosed, cclosed, cdone, bdone>>
    BY <1>4 DEF FeedStops
  <2> QED BY <2>1, <2>2 DEF ChannelTypes, PlaceTypes
<1>5. ASSUME inbox[r] # <<>>, inbox' = [inbox EXCEPT ![r] = Tail(@)]
      PROVE  inbox' \in [Requests -> Seq(Part)] /\ \A x \in Requests : Len(inbox'[x]) <= Cap
  <2>1. inbox \in [Requests -> Seq(Part)] /\ Len(inbox[r]) <= Cap BY DEF ChannelTypes
  <2>2. Tail(inbox[r]) \in Seq(Part) /\ Len(Tail(inbox[r])) <= Cap BY <1>5, <2>1, Queued
  <2> QED BY <1>5, <2>1, <2>2 DEF ChannelTypes
<1>6. ASSUME inbox[r] # <<>>, received' = [received EXCEPT ![r] = Append(@, Head(inbox[r]))]
      PROVE  received' \in [Requests -> Seq(Part)]
  <2>1. inbox[r] \in Seq(Part) /\ received[r] \in Seq(Part) /\ received \in [Requests -> Seq(Part)]
    BY DEF ChannelTypes
  <2>2. Append(received[r], Head(inbox[r])) \in Seq(Part) BY <1>6, <2>1, Queued
  <2> QED BY <1>6, <2>1, <2>2
<1>7. CASE TakeHead(r) \/ HeadUnusable(r)
  <2>1. /\ inbox' \in [Requests -> Seq(Part)] /\ (\A x \in Requests : Len(inbox'[x]) <= Cap)
        /\ UNCHANGED <<up, down, body, received, taken, task, made, fed, entry, inflight>>
        /\ UNCHANGED <<switched, bclosed, cclosed, cdone, bdone>>
    BY <1>5, <1>7 DEF TakeHead, HeadUnusable
  <2>2. PICK h \in {"ending", "pump", "body", "abandoned"} : Handle(r, h) /\ (h = "pump" => r \in switched)
    BY <1>7 DEF TakeHead, HeadUnusable
  <2> QED BY <2>1, <2>2 DEF Handle, ChannelTypes, PlaceTypes
<1>8. CASE HeadClosed(r) \/ BodyClosed(r) \/ EndStream(r) \/ PumpEnds(r) \/ UpgradeFails(r)
  <2>1. PICK h \in {"done", "ending"} : Handle(r, h)
    BY <1>8 DEF HeadClosed, BodyClosed, EndStream, PumpEnds, UpgradeFails
  <2>2. /\ UNCHANGED <<up, down, body, received, inbox, taken, task, made, fed, inflight>>
        /\ UNCHANGED <<switched, bclosed, cclosed, cdone, bdone>> /\ entry' \subseteq entry
    BY <1>8 DEF HeadClosed, BodyClosed, EndStream, PumpEnds, UpgradeFails
  <2> QED BY <2>1, <2>2 DEF Handle, ChannelTypes, PlaceTypes
<1>9. CASE BodyChunk(r)
  <2>1. /\ inbox' \in [Requests -> Seq(Part)] /\ (\A x \in Requests : Len(inbox'[x]) <= Cap)
        /\ UNCHANGED <<up, down, body, taken, task, made, fed, entry, inflight>>
        /\ UNCHANGED <<switched, bclosed, cclosed, cdone, bdone>>
    BY <1>5, <1>9 DEF BodyChunk
  <2>2. received' \in [Requests -> Seq(Part)] BY <1>6, <1>9 DEF BodyChunk, ChannelTypes
  <2>3. UNCHANGED handler \/ Handle(r, "ending") BY <1>9 DEF BodyChunk
  <2> QED BY <2>1, <2>2, <2>3 DEF Handle, ChannelTypes, PlaceTypes
<1>10. CASE WriteBrowser(r)
  <2>1. /\ UNCHANGED <<up, down, body, taken, task, made, fed, entry, inflight, handler>>
        /\ UNCHANGED <<switched, bclosed, cclosed, cdone>>
    BY <1>10 DEF WriteBrowser
  <2>2. inbox' \in [Requests -> Seq(Part)] /\ (\A x \in Requests : Len(inbox'[x]) <= Cap)
    BY <1>5, <1>10 DEF WriteBrowser, ChannelTypes
  <2>3. received' \in [Requests -> Seq(Part)] BY <1>6, <1>10 DEF WriteBrowser, ChannelTypes
  <2>4. bdone' \subseteq Upgrades BY <1>10 DEF WriteBrowser
  <2> QED BY <2>1, <2>2, <2>3, <2>4 DEF ChannelTypes, PlaceTypes
<1>11. CASE BrowserCloses(r) BY <1>11, SMTT(30) DEF BrowserCloses, ChannelTypes, PlaceTypes
<1>12. CASE BrowserLeaves(r)
  <2>1. PICK h \in {"abandoned", "ending", "pump"} : Handle(r, h) /\ (h = "pump" => r \in Upgrades)
    BY <1>12 DEF BrowserLeaves
  <2>2. /\ UNCHANGED <<up, down, body, received, inbox, taken, task, made, fed, inflight, entry>>
        /\ UNCHANGED <<switched, bclosed, cclosed, cdone, bdone>>
    BY <1>12 DEF BrowserLeaves
  <2> QED BY <2>1, <2>2 DEF Handle, ChannelTypes, PlaceTypes
<1> QED BY <1>1, <1>3, <1>4, <1>7, <1>8, <1>9, <1>10, <1>11, <1>12 DEF HubStep

\* a message of r sent, or lost with the session
LEMMA ReplyTypes ==
  ASSUME Types, NEW r \in Requests, NEW part \in Part, Reply(r, part)
  PROVE  /\ down' \in Seq(Message) /\ Len(down') <= SessionCap
         /\ made' \in [Requests -> 0..Stopped]
         /\ UNCHANGED <<up, handler, fed, entry, inbox, bdone, received, bclosed, cdone, taken, cclosed>>
<1> USE DEF session, hub, browser, agent, container
<1>1. <<r, part>> \in Message BY DEF Message
<1>2. down' = down \/ (Len(down) < SessionCap /\ down' = Append(down, <<r, part>>)) BY DEF Reply
<1>3. down \in Seq(Message) /\ Len(down) <= SessionCap BY DEF Types, ChannelTypes
<1>4. down' \in Seq(Message) /\ Len(down') <= SessionCap
  <2>1. Append(down, <<r, part>>) \in Seq(Message) /\ Len(Append(down, <<r, part>>)) = Len(down) + 1
    BY <1>1, <1>3, Queued
  <2>2. Len(down) \in Nat BY <1>3
  <2> QED BY <1>2, <1>3, <2>1, <2>2, SMTT(30)
<1>5. made' \in [Requests -> 0..Stopped] BY DEF Reply, Types, PlaceTypes
<1> QED BY <1>4, <1>5 DEF Reply

LEMMA AgentTypes ==
  ASSUME RelayInv, NEW r \in Requests,
         \/ AgentStep(r) \/ ProxyFails(r) \/ Respond(r) \/ ResponseChunk(r) \/ ResponseEnd(r)
         \/ SwitchFails(r) \/ TakeBody(r) \/ ContainerCloses(r)
  PROVE  Types'
<1> USE DEF session, hub, browser, agent, container
<1>0. Types /\ Stages(r) BY DEF RelayInv
<1>1. ASSUME NEW part \in Part, Reply(r, part),
             \/ UNCHANGED <<inflight, body, task>> \/ Ended(r) \/ Become(r, "stream")
             \/ r \in Upgrades /\ Become(r, "pump"),
             switched' \subseteq Upgrades
      PROVE  Types'
  <2>1. /\ down' \in Seq(Message) /\ Len(down') <= SessionCap /\ made' \in [Requests -> 0..Stopped]
        /\ UNCHANGED <<up, handler, fed, entry, inbox, bdone, received, bclosed, cdone, taken, cclosed>>
    BY <1>0, <1>1, ReplyTypes
  <2>2. /\ task' \in [Requests -> Receiving \cup {"none", "gone"}] /\ inflight' \subseteq Requests
        /\ \A x \in Requests : task'[x] = "pump" => x \in Upgrades
    BY <1>0, <1>1 DEF Ended, Become, Types, PlaceTypes, Kinds, Receiving
  <2>3. body' \in [Requests -> Seq(Part)] /\ \A x \in Requests : Len(body'[x]) <= Cap
    <3>1. body' = body \/ body' = [body EXCEPT ![r] = <<>>] BY <1>1 DEF Ended, Become
    <3>2. <<>> \in Seq(Part) /\ Len(<<>>) <= Cap OBVIOUS
    <3> QED BY <1>0, <3>1, <3>2 DEF Types, ChannelTypes
  <2> QED BY <1>0, <1>1, <2>1, <2>2, <2>3 DEF Types, ChannelTypes, PlaceTypes, Kinds
<1>2. switched \subseteq Upgrades BY <1>0 DEF Types, Kinds
<1>3. CASE ProxyFails(r)
  <2>1. Error \in Part OBVIOUS
  <2> QED BY <1>1, <1>2, <1>3, <2>1 DEF ProxyFails
<1>4. CASE Respond(r)
  <2>1. Headers \in Part /\ Reply(r, Headers) BY <1>4 DEF Respond
  <2>2. switched' \subseteq Upgrades BY <1>2, <1>4 DEF Respond
  <2>3. Become(r, "stream") \/ (r \in Upgrades /\ Become(r, "pump")) BY <1>4 DEF Respond
  <2> QED BY <1>1, <2>1, <2>2, <2>3
<1>5. CASE ResponseChunk(r)
  <2>1. made[r] \in Part BY <1>5 DEF ResponseChunk
  <2> QED BY <1>1, <1>2, <1>5, <2>1 DEF ResponseChunk
<1>6. CASE ResponseEnd(r) \/ SwitchFails(r)
  <2>1. End \in Part OBVIOUS
  <2> QED BY <1>1, <1>2, <1>6, <2>1 DEF ResponseEnd, SwitchFails
<1>7. CASE PumpReadEnd(r)
  <2>1. End \in Part OBVIOUS
  <2> QED BY <1>1, <1>2, <1>7, <2>1 DEF PumpReadEnd
<1>8. CASE PumpDone(r)
  <2>1. <<>> \in Seq(Part) /\ Len(<<>>) <= Cap OBVIOUS
  <2> QED BY <1>0, <1>8, <2>1 DEF PumpDone, Ended, Types, ChannelTypes, PlaceTypes, Kinds
<1>9. CASE TakeBody(r)
  <2>1. body \in [Requests -> Seq(Part)] /\ taken \in [Requests -> Seq(Part)] /\ Len(body[r]) <= Cap /\ body[r] # <<>>
    BY <1>0, <1>9 DEF Types, ChannelTypes, TakeBody
  <2>2. /\ Tail(body[r]) \in Seq(Part) /\ Len(Tail(body[r])) <= Cap
        /\ Append(taken[r], Head(body[r])) \in Seq(Part)
    BY <2>1, Queued
  <2>3. body' \in [Requests -> Seq(Part)] /\ \A x \in Requests : Len(body'[x]) <= Cap
    BY <1>0, <1>9, <2>1, <2>2 DEF TakeBody, Types, ChannelTypes
  <2>4. taken' \in [Requests -> Seq(Part)] BY <1>9, <2>1, <2>2 DEF TakeBody
  <2>5. cdone' \subseteq Upgrades BY <1>0, <1>9 DEF TakeBody, Types, Kinds
  <2>6. /\ UNCHANGED <<up, down, handler, fed, entry, inbox, bdone, received, bclosed, cclosed>>
        /\ UNCHANGED <<inflight, task, made, switched>>
    BY <1>9 DEF TakeBody
  <2> QED BY <1>0, <2>3, <2>4, <2>5, <2>6 DEF Types, ChannelTypes, PlaceTypes, Kinds
<1>10. CASE ContainerCloses(r) BY <1>0, <1>10, SMTT(30) DEF ContainerCloses, Types, ChannelTypes, PlaceTypes, Kinds
<1> QED BY <1>3, <1>4, <1>5, <1>6, <1>7, <1>8, <1>9, <1>10 DEF AgentStep

LEMMA SessionTypes ==
  ASSUME RelayInv, Route \/ Resolve \/ SessionLost \/ FailStreams \/ FailOutbound
  PROVE  Types'
<1> USE DEF session, hub, browser, agent, container
<1>0. Types BY DEF RelayInv
<1>1. CASE Route
  <2>1. up # <<>> /\ up \in Seq(Message) /\ up' = Tail(up) BY <1>0, <1>1 DEF Route, Types, ChannelTypes
  <2>2. up' \in Seq(Message) /\ Len(up') <= SessionCap /\ Head(up) \in Message
    BY <1>0, <2>1, Queued DEF Types, ChannelTypes
  <2>3. PICK r \in Requests, part \in Part : Head(up)[1] = r /\ Head(up)[2] = part
    BY <2>2 DEF Message
  <2>4. body' \in [Requests -> Seq(Part)] /\ \A x \in Requests : Len(body'[x]) <= Cap
    <3>1. UNCHANGED body \/ (Len(body[r]) < Cap /\ body' = [body EXCEPT ![r] = Append(@, part)])
      BY <1>1, <2>3 DEF Route
    <3>2. body \in [Requests -> Seq(Part)] /\ \A x \in Requests : Len(body[x]) <= Cap
      BY <1>0 DEF Types, ChannelTypes
    <3>3. Append(body[r], part) \in Seq(Part) /\ (Len(body[r]) < Cap => Len(Append(body[r], part)) <= Cap)
      BY <3>2, Queued
    <3> QED BY <3>1, <3>2, <3>3
  <2>5. /\ UNCHANGED <<inflight, task>> \/ (inflight' = inflight \cup {r} /\ task' = [task EXCEPT ![r] = "proxy"])
        /\ UNCHANGED <<down, handler, fed, entry, inbox, bdone, received, bclosed, cclosed>>
        /\ UNCHANGED <<made, switched, cdone, taken>>
    BY <1>1, <2>3 DEF Route
  <2> QED BY <1>0, <2>2, <2>4, <2>5 DEF Types, ChannelTypes, PlaceTypes, Kinds, Receiving
<1>2. CASE Resolve
  <2>1. down # <<>> /\ down \in Seq(Message) /\ down' = Tail(down) BY <1>0, <1>2 DEF Resolve, Types, ChannelTypes
  <2>2. down' \in Seq(Message) /\ Len(down') <= SessionCap /\ Head(down) \in Message
    BY <1>0, <2>1, Queued DEF Types, ChannelTypes
  <2>3. PICK r \in Requests, part \in Part : Head(down)[1] = r /\ Head(down)[2] = part
    BY <2>2 DEF Message
  <2>4. inbox' \in [Requests -> Seq(Part)] /\ \A x \in Requests : Len(inbox'[x]) <= Cap
    <3>1. UNCHANGED inbox \/ (Len(inbox[r]) < Cap /\ inbox' = [inbox EXCEPT ![r] = Append(@, part)])
      BY <1>2, <2>3 DEF Resolve
    <3>2. inbox \in [Requests -> Seq(Part)] /\ \A x \in Requests : Len(inbox[x]) <= Cap
      BY <1>0 DEF Types, ChannelTypes
    <3>3. Append(inbox[r], part) \in Seq(Part) /\ (Len(inbox[r]) < Cap => Len(Append(inbox[r], part)) <= Cap)
      BY <3>2, Queued
    <3> QED BY <3>1, <3>2, <3>3
  <2>5. /\ UNCHANGED <<up, handler, fed, entry, body, bdone, received, bclosed, cclosed>>
        /\ UNCHANGED <<made, switched, cdone, taken, task, inflight>>
    BY <1>2 DEF Resolve
  <2> QED BY <1>0, <2>2, <2>4, <2>5 DEF Types, ChannelTypes, PlaceTypes, Kinds
<1>3. CASE SessionLost
  <2>1. PICK n \in 0..Len(down) : down' = SubSeq(down, 1, n) BY <1>3 DEF SessionLost
  <2>2. down \in Seq(Message) /\ Len(down) <= SessionCap BY <1>0 DEF Types, ChannelTypes
  <2>3. down' \in Seq(Message) /\ Len(down') <= SessionCap BY <2>1, <2>2
  <2>4. up' = <<>> /\ <<>> \in Seq(Message) /\ Len(<<>>) <= SessionCap BY <1>3 DEF SessionLost
  <2>5. /\ UNCHANGED <<handler, fed, entry, inbox, body, bdone, received, bclosed, cclosed>>
        /\ UNCHANGED <<made, switched, cdone, taken, task, inflight>>
    BY <1>3 DEF SessionLost
  <2> QED BY <1>0, <2>3, <2>4, <2>5 DEF Types, ChannelTypes, PlaceTypes, Kinds
<1>4. CASE FailStreams \/ FailOutbound
  <2>1. /\ UNCHANGED <<up, down, handler, fed, inbox, body, bdone, received, bclosed, cclosed>>
        /\ UNCHANGED <<made, switched, cdone, taken, task, inflight>>
        /\ entry' \subseteq entry
    BY <1>4 DEF FailStreams, FailOutbound
  <2> QED BY <1>0, <2>1 DEF Types, ChannelTypes, PlaceTypes, Kinds
<1> QED BY <1>1, <1>2, <1>3, <1>4

-----------------------------------------------------------------------------
(* What a step leaves as it is. *)

LEMMA Sizes ==
  ASSUME Types, NEW r \in Requests
  PROVE  /\ Fed(r) \in Nat /\ Fed(r) <= Stopped /\ Routed(r) \in Nat
         /\ Base(r) \in Nat /\ Resolved(r) \in Nat /\ made[r] \in Nat /\ made[r] <= Stopped
         /\ Len(taken[r]) \in Nat /\ Len(body[r]) \in Nat /\ Len(inbox[r]) \in Nat /\ Len(received[r]) \in Nat
         /\ fed[r] \in 0..End \cup {Stopped}
         /\ taken[r] \in Seq(Part) /\ body[r] \in Seq(Part) /\ inbox[r] \in Seq(Part) /\ received[r] \in Seq(Part)
<1>1. fed[r] \in 0..End \cup {Stopped} /\ made[r] \in 0..Stopped BY DEF Types, PlaceTypes
<1>2. taken[r] \in Seq(Part) /\ body[r] \in Seq(Part) /\ inbox[r] \in Seq(Part) /\ received[r] \in Seq(Part)
  BY DEF Types, ChannelTypes
<1>3. Len(taken[r]) \in Nat /\ Len(body[r]) \in Nat /\ Len(inbox[r]) \in Nat /\ Len(received[r]) \in Nat
  BY <1>2
<1>4. Stopped \in Nat OBVIOUS
<1>5. ASSUME NEW s, Len(s) \in Nat, NEW b \in Nat PROVE After(s, b) \in Nat
  BY <1>4, <1>5 DEF After
<1>6. Routed(r) \in Nat
  <2>1. Len(taken[r]) + 1 \in Nat BY <1>3
  <2> QED BY <1>3, <1>4, <1>5, <2>1 DEF Routed
<1>7. Base(r) \in Nat BY <1>3 DEF Base
<1>8. Resolved(r) \in Nat BY <1>3, <1>5, <1>7 DEF Resolved
<1>9. Fed(r) \in Nat /\ Fed(r) <= Stopped BY <1>1 DEF Fed
<1> QED BY <1>1, <1>2, <1>3, <1>6, <1>7, <1>8, <1>9

LEMMA UpKept ==
  ASSUME Types, Types', NEW r \in Requests, UpChain(r),
         taken'[r] = taken[r], r \in left => r \in left', sessionUp' => sessionUp,
         Takes(r)' => /\ Takes(r) /\ body'[r] = body[r] /\ fed'[r] = fed[r]
                      /\ task'[r] = "none" <=> task[r] = "none"
                      /\ Moved(up', up, r) \/ (Absent(up', r) /\ ~sessionUp')
  PROVE  UpChain(r)'
<1>0. r \in UpBroken => r \in UpBroken' BY DEF UpBroken
<1>1. Turn(taken'[r], 1, r, UpBroken') BY <1>0, TurnWeaken DEF UpChain
<1>2. ASSUME Takes(r)'
      PROVE  /\ Turn(body'[r], Len(taken'[r]) + 1, r, UpBroken')
             /\ Over(taken'[r]) => body'[r] = <<>>
             /\ IF Routed(r)' = Stopped THEN fed'[r] = Stopped ELSE Routed(r)' <= Fed(r)'
             /\ InOrder(up', r, Routed(r)', Fed(r)', UpBroken')
             /\ sessionUp' /\ fed'[r] # Stopped => AllOf(up', r, Routed(r)', fed'[r])
  <2>1. /\ Turn(body[r], Len(taken[r]) + 1, r, UpBroken)
        /\ Over(taken[r]) => body[r] = <<>>
        /\ IF Routed(r) = Stopped THEN fed[r] = Stopped ELSE Routed(r) <= Fed(r)
        /\ InOrder(up, r, Routed(r), Fed(r), UpBroken)
        /\ sessionUp /\ fed[r] # Stopped => AllOf(up, r, Routed(r), fed[r])
    BY <1>2, Zenon DEF UpChain
  <2>2. body'[r] = body[r] /\ fed'[r] = fed[r] /\ (task'[r] = "none" <=> task[r] = "none")
    BY <1>2
  <2>3. Routed(r)' = Routed(r) /\ Fed(r)' = Fed(r) BY <2>2 DEF Routed, Fed
  <2>4. Routed(r) \in Nat /\ Fed(r) \in Nat /\ Fed(r) <= Fed(r) BY Sizes
  <2>5. up \in Seq(Message) /\ up' \in Seq(Message) BY DEF Types, ChannelTypes
  <2>6. InOrder(up', r, Routed(r), Fed(r), UpBroken)
    <3>1. CASE Moved(up', up, r) BY <2>1, <2>4, <2>5, <3>1, OthersMove
    <3>2. CASE Absent(up', r) BY <3>2, AbsentFacts
    <3> QED BY <1>2, <3>1, <3>2
  <2>7. InOrder(up', r, Routed(r), Fed(r), UpBroken') BY <1>0, <2>4, <2>5, <2>6, Weaken
  <2>8. ASSUME sessionUp', fed[r] # Stopped PROVE AllOf(up', r, Routed(r), fed[r])
    <3>1. Moved(up', up, r) BY <1>2, <2>8, Zenon
    <3>2. AllOf(up, r, Routed(r), fed[r]) BY <2>1, <2>8, Zenon
    <3>3. fed[r] \in Nat BY <2>4, <2>8 DEF Fed
    <3> QED BY <2>4, <2>5, <3>1, <3>2, <3>3, OthersMove
  <2>9. Turn(body'[r], Len(taken'[r]) + 1, r, UpBroken') BY <1>0, <2>1, <2>2, TurnWeaken
  <2>10. Over(taken'[r]) => body'[r] = <<>> BY <2>1, <2>2
  <2> QED BY <2>1, <2>2, <2>3, <2>7, <2>8, <2>9, <2>10, Zenon
<1> QED BY <1>1, <1>2, Zenon DEF UpChain

LEMMA DownKept ==
  ASSUME Types, Types', NEW r \in Requests, DownChain(r),
         received'[r] = received[r], r \in failed => r \in failed', sessionUp' => sessionUp,
         r \in eof' => r \in eof,
         Reads(r)' => /\ Reads(r) /\ inbox'[r] = inbox[r] /\ made'[r] = made[r]
                      /\ handler'[r] = handler[r]
                      /\ r \in entry' =>
                            /\ r \in entry
                            /\ \/ Moved(down', down, r)
                               \/ ~sessionUp' /\ \E k \in 0..Len(down) : down' = SubSeq(down, 1, k)
  PROVE  DownChain(r)'
<1>0. r \in DownBroken => r \in DownBroken' BY DEF DownBroken
<1>1. \A i \in 1..Len(received'[r]) : received'[r][i] = i BY DEF DownChain
<1>2. r \in Ordinary /\ r \in eof' => Complete(received'[r]) \/ r \in failed' \/ ~sessionUp'
  BY Zenon DEF DownChain
<1>3. ASSUME Reads(r)'
      PROVE  /\ handler'[r] = "head" => received'[r] = <<>>
             /\ Turn(inbox'[r], Base(r)', r, DownBroken')
             /\ Base(r)' = Base(r) /\ Resolved(r)' = Resolved(r) /\ made'[r] = made[r]
  <2>1. /\ handler[r] = "head" => received[r] = <<>>
        /\ Turn(inbox[r], Base(r), r, DownBroken)
    BY <1>3, Zenon DEF DownChain
  <2>2. inbox'[r] = inbox[r] /\ made'[r] = made[r] /\ handler'[r] = handler[r] BY <1>3
  <2>3. Base(r)' = Base(r) /\ Resolved(r)' = Resolved(r) BY <2>2 DEF Base, Resolved
  <2>4. Turn(inbox'[r], Base(r)', r, DownBroken') BY <1>0, <2>1, <2>2, <2>3, TurnWeaken
  <2> QED BY <2>1, <2>2, <2>3, <2>4
<1>4. ASSUME Reads(r)', r \in entry'
      PROVE  /\ IF Resolved(r) = Stopped THEN made[r] > End ELSE Resolved(r) <= made[r]
             /\ InOrder(down', r, Resolved(r), made[r], DownBroken')
             /\ sessionUp' /\ made[r] <= End => AllOf(down', r, Resolved(r), made[r])
  <2>1. /\ IF Resolved(r) = Stopped THEN made[r] > End ELSE Resolved(r) <= made[r]
        /\ InOrder(down, r, Resolved(r), made[r], DownBroken)
        /\ sessionUp /\ made[r] <= End => AllOf(down, r, Resolved(r), made[r])
    BY <1>4, Zenon DEF DownChain
  <2>2. \/ Moved(down', down, r)
        \/ ~sessionUp' /\ \E k \in 0..Len(down) : down' = SubSeq(down, 1, k)
    BY <1>4, Zenon
  <2>3. Resolved(r) \in Nat /\ made[r] \in Nat /\ made[r] <= made[r] BY Sizes
  <2>4. down \in Seq(Message) /\ down' \in Seq(Message) BY DEF Types, ChannelTypes
  <2>5. InOrder(down', r, Resolved(r), made[r], DownBroken)
    <3>1. CASE Moved(down', down, r) BY <2>1, <2>3, <2>4, <3>1, OthersMove
    <3>2. CASE \E k \in 0..Len(down) : down' = SubSeq(down, 1, k)
      <4>1. PICK k \in 0..Len(down) : down' = SubSeq(down, 1, k) BY <3>2
      <4>2. InOrder(SubSeq(down, 1, k), r, Resolved(r), made[r], DownBroken)
        BY <2>1, <2>3, <2>4, Truncated
      <4> QED BY <4>1, <4>2
    <3> QED BY <2>2, <3>1, <3>2
  <2>6. InOrder(down', r, Resolved(r), made[r], DownBroken') BY <1>0, <2>3, <2>4, <2>5, Weaken
  <2>7. ASSUME sessionUp', made[r] <= End PROVE AllOf(down', r, Resolved(r), made[r])
    <3>1. Moved(down', down, r) BY <2>2, <2>7, Zenon
    <3>2. AllOf(down, r, Resolved(r), made[r]) BY <2>1, <2>7, Zenon
    <3> QED BY <2>3, <2>4, <3>1, <3>2, OthersMove
  <2> QED BY <2>1, <2>6, <2>7, Zenon
<1> HIDE DEF Stopped, End
<1> QED BY <1>1, <1>2, <1>3, <1>4, Zenon DEF DownChain

\* A step elsewhere: nothing of r's own state changes.
Elsewhere(r) ==
    /\ handler'[r] = handler[r] /\ fed'[r] = fed[r] /\ inbox'[r] = inbox[r]
    /\ received'[r] = received[r] /\ body'[r] = body[r] /\ task'[r] = task[r]
    /\ made'[r] = made[r] /\ taken'[r] = taken[r]
    /\ r \in entry' <=> r \in entry
    /\ r \in inflight' <=> r \in inflight
    /\ r \in bdone' <=> r \in bdone
    /\ r \in cdone' <=> r \in cdone
    /\ r \in eof' <=> r \in eof
    /\ r \in left' <=> r \in left
    /\ r \in failed' <=> r \in failed

LEMMA StagesKept ==
  ASSUME Types, NEW r \in Requests, Stages(r),
         handler'[r] \in Before => handler[r] \in Before /\ inbox'[r] = inbox[r] /\ received'[r] = received[r],
         r \in entry' => (r \in entry /\ handler'[r] = handler[r]) \/ handler'[r] \notin {"idle", "done"},
         fed'[r] = fed[r], body'[r] = body[r], task'[r] = task[r],
         made'[r] = made[r], taken'[r] = taken[r],
         r \in bdone' /\ handler'[r] \in Before \cup {"head", "body"} => r \in bdone /\ handler'[r] = handler[r],
         r \in inflight => r \in inflight', r \in cdone' => r \in cdone,
         Within(up', up, r), Within(down', down, r)
  PROVE  Stages(r)'
<1>1. /\ Absent(up, r) => Absent(up', r)
      /\ (\A i \in 1..Len(up) : ~IsPart(up, i, r, Headers)) => \A i \in 1..Len(up') : ~IsPart(up', i, r, Headers)
  BY WithinFacts
<1>2. Absent(down, r) => Absent(down', r) BY WithinFacts
<1> HIDE DEF Headers, End, Error, Stopped
<1> QED BY <1>1, <1>2 DEF Stages

LEMMA ElsewhereKept ==
  ASSUME RelayInv, Types', NEW r \in Requests, Elsewhere(r), UNCHANGED sessionUp,
         Moved(up', up, r), Moved(down', down, r)
  PROVE  Stages(r)' /\ UpChain(r)' /\ DownChain(r)'
<1>0. /\ Types /\ Stages(r) /\ UpChain(r) /\ DownChain(r)
      /\ up \in Seq(Message) /\ down \in Seq(Message)
  BY DEF RelayInv, Types, ChannelTypes
<1>1. Within(up', up, r) /\ Within(down', down, r) BY <1>0, WireWithin
<1>2. Stages(r)' BY <1>0, <1>1, StagesKept DEF Elsewhere, Stages
<1>3. UpChain(r)' BY <1>0, UpKept DEF Elsewhere, Takes
<1>4. DownChain(r)'
  <2>1. sessionUp' => sessionUp BY Zenon
  <2>2. Reads(r)' => Reads(r) BY DEF Elsewhere, Reads
  <2>3. r \in entry' => r \in entry BY DEF Elsewhere
  <2>4. r \in eof' => r \in eof BY DEF Elsewhere
  <2>5. r \in failed => r \in failed' BY DEF Elsewhere
  <2> QED BY <1>0, <2>1, <2>2, <2>3, <2>4, <2>5, DownKept DEF Elsewhere
<1> QED BY <1>2, <1>3, <1>4

-----------------------------------------------------------------------------
(* The other requests, at a step of r. *)

LEMMA HubOthers ==
  ASSUME RelayInv, Types', NEW r \in Requests,
         \/ Request(r) \/ HubStep(r) \/ HeadUnusable(r)
         \/ UpgradeFails(r) \/ BrowserCloses(r) \/ BrowserLeaves(r),
         NEW x \in Requests, x # r
  PROVE  Stages(x)' /\ UpChain(x)' /\ DownChain(x)'
<1> USE DEF session, hub, browser, agent, container, Types, PlaceTypes, ChannelTypes
<1>0. Types BY DEF RelayInv
<1>1. ASSUME NEW part, NEW next, Feed(r, part, next), part \in Part
      PROVE  Elsewhere(x) /\ UNCHANGED <<sessionUp, down>> /\ Moved(up', up, x)
  <2>1. <<r, part>> \in Message /\ <<r, part>>[1] = r BY <1>1 DEF Message
  <2>2. Moved(up', up, x) BY <1>1, <2>1 DEF Feed, Moved
  <2>3. Elsewhere(x) BY <1>0, <1>1 DEF Feed, Elsewhere
  <2>4. UNCHANGED <<sessionUp, down>> BY <1>1, Zenon DEF Feed
  <2> QED BY <2>2, <2>3, <2>4
<1>2. CASE FeedHead(r) \/ FeedChunk(r) \/ FeedEnd(r)
  <2>1. PICK part \in Part, next \in Nat : Feed(r, part, next)
    <3>1. Headers \in Part /\ End \in Part /\ 1 \in Nat /\ Stopped \in Nat OBVIOUS
    <3>2. FeedHead(r) => Feed(r, Headers, 1) BY DEF FeedHead
    <3>3. FeedEnd(r) => Feed(r, End, Stopped) BY DEF FeedEnd
    <3>4. FeedChunk(r) => fed[r] \in Part /\ fed[r] + 1 \in Nat /\ Feed(r, fed[r], fed[r] + 1)
      <4> HIDE DEF Types
      <4>1. ASSUME FeedChunk(r) PROVE fed[r] \in 1..Chunks /\ Feed(r, fed[r], fed[r] + 1)
        BY <4>1 DEF FeedChunk, CanFeed
      <4>2. \A n \in 1..Chunks : n \in Part /\ n + 1 \in Nat OBVIOUS
      <4> QED BY <4>1, <4>2, Zenon
    <3> QED BY <1>2, <3>1, <3>2, <3>3, <3>4, Zenon
  <2>2. Elsewhere(x) /\ UNCHANGED <<sessionUp, down>> /\ Moved(up', up, x) BY <1>1, <2>1
  <2>3. Moved(down', down, x) BY <2>2 DEF Moved
  <2> QED BY <2>2, <2>3, ElsewhereKept
<1>3. CASE ~(FeedHead(r) \/ FeedChunk(r) \/ FeedEnd(r))
  <2>1. UNCHANGED <<sessionUp, up, down>>
    BY <1>3, Zenon DEF HubStep, Request, GetOutbound, FeedStops, TakeHead, HeadUnusable, HeadClosed,
       BodyChunk, BodyClosed, EndStream, WriteBrowser, PumpEnds, UpgradeFails, BrowserCloses, BrowserLeaves
  <2>2. Elsewhere(x)
    <3>1. CASE FeedStops(r)
      <4>1. r \in Requests /\ (x \in entry' <=> x \in entry) BY <3>1 DEF FeedStops
      <4> QED BY <1>0, <3>1, <4>1 DEF FeedStops, Elsewhere
    <3>6. CASE Request(r) \/ GetOutbound(r)
      BY <1>0, <3>6, ZenonT(40) DEF Request, GetOutbound, Handle, Elsewhere
    <3>7. CASE TakeHead(r) \/ HeadClosed(r) \/ HeadUnusable(r)
      BY <1>0, <3>7, ZenonT(40) DEF TakeHead, HeadClosed, HeadUnusable, Handle, Elsewhere
    <3>2. CASE BodyChunk(r) \/ BodyClosed(r)
      BY <1>0, <3>2 DEF BodyChunk, BodyClosed, Handle, Elsewhere
    <3>3. CASE EndStream(r) \/ PumpEnds(r) \/ UpgradeFails(r)
      BY <1>0, <3>3 DEF EndStream, PumpEnds, UpgradeFails, Handle, Elsewhere
    <3>4. CASE WriteBrowser(r) BY <1>0, <3>4 DEF WriteBrowser, Elsewhere
    <3>5. CASE BrowserCloses(r) \/ BrowserLeaves(r)
      BY <1>0, <3>5 DEF BrowserCloses, BrowserLeaves, Handle, Elsewhere
    <3> QED BY <1>3, <3>1, <3>2, <3>3, <3>4, <3>5, <3>6, <3>7 DEF HubStep
  <2>3. Moved(up', up, x) /\ Moved(down', down, x) BY <2>1 DEF Moved
  <2> QED BY <2>1, <2>2, <2>3, ElsewhereKept
<1> QED BY <1>2, <1>3

LEMMA AgentOthers ==
  ASSUME RelayInv, Types', NEW r \in Requests,
         \/ AgentStep(r) \/ ProxyFails(r) \/ Respond(r) \/ ResponseChunk(r) \/ ResponseEnd(r)
         \/ SwitchFails(r) \/ TakeBody(r) \/ ContainerCloses(r),
         NEW x \in Requests, x # r
  PROVE  Stages(x)' /\ UpChain(x)' /\ DownChain(x)'
<1> USE DEF session, hub, browser, agent, container, Types, PlaceTypes, ChannelTypes
<1>0. Types BY DEF RelayInv
<1>1. ASSUME NEW part \in Part, Reply(r, part)
      PROVE  UNCHANGED <<sessionUp, up>> /\ Moved(down', down, x)
  <2>1. <<r, part>> \in Message /\ <<r, part>>[1] = r BY DEF Message
  <2>2. down' = down \/ down' = Append(down, <<r, part>>) BY <1>1 DEF Reply
  <2>3. Moved(down', down, x) BY <2>1, <2>2 DEF Moved
  <2>4. UNCHANGED <<sessionUp, up>> BY <1>1, Zenon DEF Reply
  <2> QED BY <2>3, <2>4, Zenon
<1>2. CASE PumpReadEnd(r) \/ ProxyFails(r) \/ Respond(r) \/ ResponseChunk(r) \/ ResponseEnd(r) \/ SwitchFails(r)
  <2>1. PICK part \in Part : Reply(r, part)
    <3>1. Headers \in Part /\ End \in Part /\ Error \in Part OBVIOUS
    <3>2. PumpReadEnd(r) \/ ResponseEnd(r) \/ SwitchFails(r) => Reply(r, End)
      BY DEF PumpReadEnd, ResponseEnd, SwitchFails
    <3>3. ProxyFails(r) => Reply(r, Error) BY DEF ProxyFails
    <3>4. Respond(r) => Reply(r, Headers) BY DEF Respond
    <3>5. ResponseChunk(r) => made[r] \in Part /\ Reply(r, made[r])
      <4> HIDE DEF Types
      <4>1. ASSUME ResponseChunk(r) PROVE made[r] \in 1..Chunks /\ Reply(r, made[r])
        BY <4>1 DEF ResponseChunk
      <4>2. \A n \in 1..Chunks : n \in Part OBVIOUS
      <4> QED BY <4>1, <4>2, Zenon
    <3> QED BY <1>2, <3>1, <3>2, <3>3, <3>4, <3>5, Zenon
  <2>2. Moved(up', up, x) BY <1>1, <2>1 DEF Moved
  <2>3. Elsewhere(x)
    <3>1. CASE PumpReadEnd(r) \/ ResponseChunk(r)
      BY <1>0, <3>1 DEF PumpReadEnd, ResponseChunk, Reply, Elsewhere
    <3>2. CASE ProxyFails(r) \/ ResponseEnd(r)
      BY <1>0, <3>2, ZenonT(40) DEF ProxyFails, ResponseEnd, Ended, Reply, Elsewhere
    <3>4. CASE SwitchFails(r)
      BY <1>0, <3>4, ZenonT(40) DEF SwitchFails, Ended, Reply, Elsewhere
    <3>3. CASE Respond(r) BY <1>0, <3>3 DEF Respond, Become, Reply, Elsewhere
    <3> QED BY <1>2, <3>1, <3>2, <3>3, <3>4
  <2> QED BY <1>1, <2>1, <2>2, <2>3, ElsewhereKept
<1>3. CASE PumpDone(r) \/ TakeBody(r) \/ ContainerCloses(r)
  <2>1. UNCHANGED <<sessionUp, up, down>> BY <1>3, Zenon DEF PumpDone, TakeBody, ContainerCloses
  <2>2. Elsewhere(x)
    <3>1. CASE PumpDone(r) BY <1>0, <3>1 DEF PumpDone, Ended, Elsewhere
    <3>2. CASE TakeBody(r) BY <1>0, <3>2 DEF TakeBody, Elsewhere
    <3>3. CASE ContainerCloses(r) BY <1>0, <3>3 DEF ContainerCloses, Elsewhere
    <3> QED BY <1>3, <3>1, <3>2, <3>3
  <2>3. Moved(up', up, x) /\ Moved(down', down, x) BY <2>1 DEF Moved
  <2> QED BY <2>1, <2>2, <2>3, ElsewhereKept
<1> QED BY <1>2, <1>3 DEF AgentStep

\* r is the request of the message that is routed, or resolved
LEMMA WireOthers ==
  ASSUME RelayInv, Types', NEW r \in Requests,
         \/ Route /\ Head(up)[1] = r
         \/ Resolve /\ Head(down)[1] = r,
         NEW x \in Requests, x # r
  PROVE  Stages(x)' /\ UpChain(x)' /\ DownChain(x)'
<1> USE DEF session, hub, browser, agent, container, Types, PlaceTypes, ChannelTypes
<1>0. Types BY DEF RelayInv
<1>1. UNCHANGED sessionUp BY Zenon DEF Route, Resolve
<1>2. CASE Route /\ Head(up)[1] = r
  <2>1. up # <<>> /\ up' = Tail(up) /\ down' = down BY <1>2 DEF Route
  <2>2. up[1][1] # x BY <1>0, <1>2, <2>1, Queued
  <2>3. Moved(up', up, x) /\ Moved(down', down, x) BY <2>1, <2>2 DEF Moved
  <2>4. Elsewhere(x) BY <1>0, <1>2 DEF Route, Elsewhere
  <2> QED BY <1>1, <2>1, <2>3, <2>4, ElsewhereKept
<1>3. CASE Resolve /\ Head(down)[1] = r
  <2>1. down # <<>> /\ down' = Tail(down) /\ up' = up BY <1>3 DEF Resolve
  <2>2. down[1][1] # x BY <1>0, <1>3, <2>1, Queued
  <2>3. Moved(up', up, x) /\ Moved(down', down, x) BY <2>1, <2>2 DEF Moved
  <2>4. Elsewhere(x) BY <1>0, <1>3 DEF Resolve, Elsewhere
  <2> QED BY <1>1, <2>1, <2>3, <2>4, ElsewhereKept
<1> QED BY <1>2, <1>3

-----------------------------------------------------------------------------
(* A step's own request: the hub and the browser. *)

LEMMA RequestOwn ==
  ASSUME RelayInv, Types', NEW r \in Requests, Request(r) \/ GetOutbound(r)
  PROVE  Stages(r)' /\ UpChain(r)' /\ DownChain(r)'
<1> USE DEF session, hub, browser, agent, container
<1>0. Types /\ Stages(r) /\ UpChain(r) /\ DownChain(r) BY DEF RelayInv
<1>1. /\ handler[r] \in Before /\ task[r] = "none" /\ fed[r] = Stopped /\ Absent(up, r) /\ Absent(down, r)
      /\ inbox[r] = <<>> /\ received[r] = <<>> /\ body[r] = <<>> /\ taken[r] = <<>>
      /\ made[r] = 0 /\ r \notin cdone /\ r \notin bdone
  <2>1. handler[r] \in Before BY DEF Request, GetOutbound, Before
  <2> HIDE DEF End, Error, Stopped
  <2> QED BY <1>0, <2>1 DEF Stages
<1>2. /\ UNCHANGED <<up, down, inbox, bdone, received, eof, left, bclosed, inflight, body, task, made, cdone>>
      /\ UNCHANGED <<taken, failed>>
  BY DEF Request, GetOutbound
<1>3. UNCHANGED sessionUp BY Zenon DEF Request, GetOutbound
<1>4. ASSUME handler'[r] = "head", fed'[r] = 0
      PROVE  Stages(r)' /\ UpChain(r)' /\ DownChain(r)'
  <2>1. Stages(r)'
    <3>1. "head" \notin Before \cup {"done"} BY DEF Before
    <3> HIDE DEF End, Error, Stopped
    <3> QED BY <1>1, <1>2, <1>4, <3>1 DEF Stages, Receiving, Before
  <2>2. Routed(r)' = 0 /\ Fed(r)' = 0 BY <1>1, <1>2, <1>4 DEF Routed, Fed
  <2>3. UpChain(r)'
    <3>1. Turn(<<>>, 1, r, UpBroken') /\ Turn(<<>>, Len(<<>>) + 1, r, UpBroken') BY TurnEmpty
    <3>2. InOrder(up, r, 0, 0, UpBroken') BY <1>1, AbsentFacts
    <3>3. AllOf(up, r, 0, 0) BY DEF AllOf
    <3>4. taken'[r] = <<>> /\ body'[r] = <<>> /\ up' = up BY <1>1, <1>2
    <3>5. IF Routed(r)' = Stopped THEN fed'[r] = Stopped ELSE Routed(r)' <= Fed(r)' BY <2>2
    <3> QED BY <1>4, <2>2, <3>1, <3>2, <3>3, <3>4, <3>5, Zenon DEF UpChain
  <2>4. Base(r)' = 0 /\ Resolved(r)' = 0 BY <1>1, <1>2, <1>4, TurnEmpty DEF Base, Resolved
  <2>5. DownChain(r)'
    <3>1. Turn(<<>>, 0, r, DownBroken') BY TurnEmpty
    <3>2. InOrder(down, r, 0, 0, DownBroken') BY <1>1, AbsentFacts
    <3>3. AllOf(down, r, 0, 0) BY DEF AllOf
    <3>4. received'[r] = <<>> /\ inbox'[r] = <<>> /\ down' = down /\ made'[r] = 0 BY <1>1, <1>2
    <3>5. IF Resolved(r)' = Stopped THEN made'[r] > End ELSE Resolved(r)' <= made'[r] BY <2>4, <3>4
    <3>6. \A i \in 1..Len(received'[r]) : received'[r][i] = i BY <3>4
    <3>7. r \in Ordinary /\ r \in eof' => Complete(received'[r]) \/ r \in failed' \/ ~sessionUp'
      BY <1>0, <1>2, <1>3, Zenon DEF DownChain
    <3> QED BY <2>4, <3>1, <3>2, <3>3, <3>4, <3>5, <3>6, <3>7, Zenon DEF DownChain
  <2> QED BY <2>1, <2>3, <2>5
<1>5. ASSUME handler'[r] \in {"insert", "done"}, fed' = fed,
             r \in entry' => handler'[r] = "insert"
      PROVE  Stages(r)' /\ UpChain(r)' /\ DownChain(r)'
  <2>1. Stages(r)'
    <3> HIDE DEF Headers, End, Error, Stopped
    <3> QED BY <1>0, <1>1, <1>2, <1>5 DEF Stages, Before
  <2>2. Moved(up', up, r) BY <1>2 DEF Moved
  <2>3. UpChain(r)' BY <1>0, <1>2, <1>3, <1>5, <2>2, UpKept DEF Takes
  <2>4. ~Reads(r)' BY <1>5 DEF Reads, Listening
  <2>5. DownChain(r)' BY <1>0, <1>2, <1>3, <2>4, DownKept
  <2> QED BY <2>1, <2>3, <2>5
<1>6. CASE Request(r)
  <2>1. Handle(r, "insert") /\ fed' = fed BY <1>6 DEF Request
  <2>2. handler'[r] = "insert" BY <1>0, <2>1 DEF Handle, Types, PlaceTypes
  <2> QED BY <1>5, <2>1, <2>2
<1>7. CASE GetOutbound(r)
  <2>1. CASE Handle(r, "head") /\ fed' = [fed EXCEPT ![r] = Headers]
    <3>1. handler'[r] = "head" /\ fed'[r] = 0 BY <1>0, <2>1 DEF Handle, Types, PlaceTypes
    <3> QED BY <1>4, <3>1
  <2>2. CASE Handle(r, "done") /\ entry' = entry \ {r} /\ fed' = fed
    <3>1. handler'[r] = "done" /\ r \notin entry' BY <1>0, <2>2 DEF Handle, Types, PlaceTypes
    <3> QED BY <1>5, <2>2, <3>1
  <2> QED BY <1>7, <2>1, <2>2 DEF GetOutbound
<1> QED BY <1>6, <1>7

\* a part of the request is sent
LEMMA FeedOwn ==
  ASSUME RelayInv, Types', NEW r \in Requests, FeedHead(r) \/ FeedChunk(r) \/ FeedEnd(r)
  PROVE  Stages(r)' /\ UpChain(r)' /\ DownChain(r)'
<1> USE DEF session, hub, browser, agent, container
<1>0. Types /\ Stages(r) /\ UpChain(r) /\ DownChain(r) BY DEF RelayInv
<1>1. PICK part \in Part, next \in 0..Stopped :
        /\ Feed(r, part, next)
        /\ fed[r] \in 0..End /\ fed[r] <= part /\ part <= End
        /\ part = fed[r] \/ (part = End /\ r \in UpBroken /\ fed[r] # 0)
        /\ IF next = Stopped THEN part = End ELSE next = part + 1 /\ part = fed[r]
        /\ next # 0
  <2>1. CASE FeedHead(r)
    <3>1. Headers \in Part /\ 1 \in 0..Stopped /\ fed[r] = Headers /\ Feed(r, Headers, 1) BY <2>1 DEF FeedHead
    <3> QED BY <3>1
  <2>2. CASE FeedChunk(r)
    <3>1. fed[r] \in 1..Chunks /\ Feed(r, fed[r], fed[r] + 1) BY <2>2 DEF FeedChunk, CanFeed
    <3>2. fed[r] \in Part /\ fed[r] + 1 \in 0..Stopped /\ fed[r] + 1 # Stopped BY <3>1
    <3> QED BY <3>1, <3>2
  <2>3. CASE FeedEnd(r)
    <3>1. Feed(r, End, Stopped) /\ fed[r] \in 1..End BY <2>3 DEF FeedEnd, CanFeed
    <3>2. r \in UpBroken \/ fed[r] = End BY <1>0, <2>3 DEF FeedEnd, UpBroken, Types, Kinds
    <3>3. End \in Part /\ Stopped \in 0..Stopped /\ End <= End OBVIOUS
    <3> QED BY <3>1, <3>2, <3>3
  <2> QED BY <2>1, <2>2, <2>3
<1>2. /\ up' = Append(up, <<r, part>>) /\ fed'[r] = next
      /\ UNCHANGED <<down, handler, entry, inbox, bdone, received, eof, left, bclosed>>
      /\ UNCHANGED <<inflight, body, task, made, cdone, taken, failed>>
  BY <1>0, <1>1 DEF Feed, Types, PlaceTypes
<1>3. sessionUp /\ sessionUp' BY <1>1, Zenon DEF Feed
<1>4. fed[r] # Stopped /\ fed[r] \in Nat /\ Fed(r) = fed[r] /\ Fed(r)' = part + 1
  BY <1>1, <1>2 DEF Fed
<1>5. up \in Seq(Message) /\ Routed(r) \in Nat /\ Len(up) \in Nat
  <2>1. up \in Seq(Message) BY <1>0 DEF Types, ChannelTypes
  <2> QED BY <2>1, <1>0, Sizes
<1>6. \A i \in 1..Len(up') : up'[i] = <<r, part>> \/ (i \in 1..Len(up) /\ up'[i] = up[i])
  <2>1. <<r, part>> \in Message BY DEF Message
  <2> QED BY <1>2, <1>5, <2>1
<1>7. Stages(r)'
  <2>1. handler[r] \notin Before BY <1>0, <1>4 DEF Stages
  <2>2. task[r] # "none" => \A i \in 1..Len(up') : ~IsPart(up', i, r, Headers)
    <3>1. task[r] # "none" => part # 0 BY <1>0, <1>1 DEF Stages
    <3>2. task[r] # "none" => \A i \in 1..Len(up) : ~IsPart(up, i, r, Headers) BY <1>0 DEF Stages
    <3>3. <<r, part>>[2] = part OBVIOUS
    <3> QED BY <1>6, <3>1, <3>2, <3>3 DEF IsPart
  <2>3. next # 0 BY <1>1
  <2> HIDE DEF Headers, End, Error, Stopped
  <2> QED BY <1>0, <1>2, <2>1, <2>2, <2>3 DEF Stages, Headers
<1>8. UpChain(r)'
  <2>1. UNCHANGED UpBroken /\ (Takes(r)' <=> Takes(r)) /\ Routed(r)' = Routed(r)
    BY <1>2 DEF UpBroken, Takes, Routed
  <2>2. ASSUME Takes(r)
        PROVE  /\ IF Routed(r) = Stopped THEN next = Stopped ELSE Routed(r) <= part + 1
               /\ InOrder(up', r, Routed(r), part + 1, UpBroken)
               /\ next # Stopped => AllOf(up', r, Routed(r), next)
    <3>1. /\ IF Routed(r) = Stopped THEN fed[r] = Stopped ELSE Routed(r) <= fed[r]
          /\ InOrder(up, r, Routed(r), fed[r], UpBroken)
          /\ AllOf(up, r, Routed(r), fed[r])
      BY <1>0, <1>3, <1>4, <2>2, Zenon DEF UpChain
    <3>2. Routed(r) # Stopped /\ Routed(r) <= fed[r] BY <1>4, <3>1
    <3>3. part # Error BY <1>1
    <3>4. /\ InOrder(Append(up, <<r, part>>), r, Routed(r), part + 1, UpBroken)
          /\ part = fed[r] => AllOf(Append(up, <<r, part>>), r, Routed(r), part + 1)
      BY <1>1, <1>4, <1>5, <3>1, <3>2, <3>3, AppendOwn
    <3>5. Routed(r) <= part + 1 BY <1>1, <1>4, <1>5, <3>2
    <3> QED BY <1>1, <1>2, <3>2, <3>4, <3>5
  <2> HIDE DEF Stopped
  <2> QED BY <1>0, <1>2, <1>4, <2>1, <2>2, Zenon DEF UpChain
<1>9. DownChain(r)'
  <2>1. Moved(down', down, r) BY <1>2 DEF Moved
  <2>2. Reads(r)' => Reads(r) BY <1>2 DEF Reads
  <2> QED BY <1>0, <1>2, <1>3, <2>1, <2>2, DownKept
<1> QED BY <1>7, <1>8, <1>9

\* the session is gone: the feeder stops
LEMMA FeedStopsOwn ==
  ASSUME RelayInv, Types', NEW r \in Requests, FeedStops(r)
  PROVE  Stages(r)' /\ UpChain(r)' /\ DownChain(r)'
<1> USE DEF session, hub, browser, agent, container
<1>0. Types /\ Stages(r) /\ UpChain(r) /\ DownChain(r) BY DEF RelayInv
<1>1. /\ fed'[r] = Stopped /\ fed[r] # Stopped
      /\ UNCHANGED <<up, down, handler, inbox, bdone, received, eof, left, bclosed>>
      /\ UNCHANGED <<inflight, body, task, made, cdone, taken, failed>>
      /\ r \in entry' => r \in entry
  <2>1. fed' = [fed EXCEPT ![r] = Stopped] /\ fed[r] \in {Headers} \cup 1..End
    BY DEF FeedStops, CanFeed
  <2>2. fed'[r] = Stopped /\ fed[r] # Stopped BY <1>0, <2>1 DEF Types, PlaceTypes
  <2> QED BY <2>2 DEF FeedStops
<1>2. ~sessionUp /\ ~sessionUp' BY Zenon DEF FeedStops
<1>3. Stages(r)'
  <2>1. Stopped # Headers OBVIOUS
  <2> HIDE DEF Headers, End, Error, Stopped
  <2> QED BY <1>0, <1>1, <2>1 DEF Stages
<1>4. UpChain(r)'
  <2>1. UNCHANGED UpBroken /\ (Takes(r)' <=> Takes(r)) /\ Routed(r)' = Routed(r)
    BY <1>1 DEF UpBroken, Takes, Routed
  <2>2. Fed(r)' = End + 1 /\ Fed(r) = fed[r] /\ fed[r] \in 0..End
    BY <1>0, <1>1 DEF Fed, Types, PlaceTypes
  <2>3. ASSUME Takes(r)
        PROVE  /\ IF Routed(r) = Stopped THEN TRUE ELSE Routed(r) <= End + 1
               /\ InOrder(up, r, Routed(r), End + 1, UpBroken)
    <3>1. /\ IF Routed(r) = Stopped THEN fed[r] = Stopped ELSE Routed(r) <= fed[r]
          /\ InOrder(up, r, Routed(r), fed[r], UpBroken)
      BY <1>0, <2>2, <2>3, Zenon DEF UpChain
    <3>2. Routed(r) \in Nat /\ up \in Seq(Message) BY <1>0, Sizes DEF Types, ChannelTypes
    <3>3. fed[r] \in Nat /\ End + 1 \in Nat /\ fed[r] <= End + 1 BY <2>2
    <3>4. InOrder(up, r, Routed(r), End + 1, UpBroken) 
      <4>1. PICK m \in Nat : m = End + 1 BY <3>3
      <4>2. fed[r] <= m /\ InOrder(up, r, Routed(r), fed[r], UpBroken) BY <3>1, <3>3, <4>1
      <4>3. InOrder(up, r, Routed(r), m, UpBroken) BY <3>2, <3>3, <4>2, Weaken
      <4> QED BY <4>1, <4>3
    <3> QED BY <2>2, <3>1, <3>2, <3>4
  <2> HIDE DEF Stopped
  <2> QED BY <1>0, <1>1, <1>2, <2>1, <2>2, <2>3, Zenon DEF UpChain
<1>5. DownChain(r)'
  <2>1. Moved(down', down, r) BY <1>1 DEF Moved
  <2>2. Reads(r)' => Reads(r) BY <1>1 DEF Reads
  <2> QED BY <1>0, <1>1, <1>2, <2>1, <2>2, DownKept
<1> QED BY <1>3, <1>4, <1>5

(* The chunks so far are the first ones: the body is complete with the last. *)
LEMMA CompleteFacts ==
  ASSUME NEW s \in Seq(Part), \A i \in 1..Len(s) : s[i] = i
  PROVE  /\ Len(s) >= Chunks => Complete(s)
         /\ \A x \in Part : Complete(s) => Complete(Append(s, x))
<1>1. Len(s) \in Nat OBVIOUS
<1>2. ASSUME Len(s) >= Chunks PROVE Complete(s)
  <2>1. \A c \in 1..Chunks : c \in 1..Len(s) /\ s[c] = c BY <1>1, <1>2
  <2> QED BY <2>1 DEF Complete
<1>3. ASSUME NEW x \in Part, Complete(s) PROVE Complete(Append(s, x))
  <2> DEFINE t == Append(s, x)
  <2>1. Len(t) = Len(s) + 1 /\ \A i \in 1..Len(s) : t[i] = s[i] /\ i \in 1..Len(t) BY <1>1
  <2> HIDE DEF t
  <2>2. Complete(t) BY <1>3, <2>1 DEF Complete
  <2> QED BY <2>2 DEF t
<1> QED BY <1>2, <1>3

\* the hub takes a part that is not the last out of the channel
LEMMA ReadOne ==
  ASSUME Types, Types', NEW r \in Requests, DownChain(r), Reads(r),
         inbox[r] # <<>>, Head(inbox[r]) \notin Last, inbox'[r] = Tail(inbox[r]),
         UNCHANGED <<down, made, failed, entry>>, sessionUp' = sessionUp,
         r \in eof' => r \in eof,
         handler'[r] # "head", Base(r)' = Base(r) + 1,
         \A i \in 1..Len(received'[r]) : received'[r][i] = i,
         Complete(received[r]) => Complete(received'[r])
  PROVE  DownChain(r)'
<1>1. Turn(inbox[r], Base(r), r, DownBroken) BY Zenon DEF DownChain
<1>2. inbox[r] \in Seq(Part) /\ Base(r) \in Nat BY Sizes
<1>3. Turn(Tail(inbox[r]), Base(r) + 1, r, DownBroken) /\ After(Tail(inbox[r]), Base(r) + 1) = Resolved(r)
  BY <1>1, <1>2, TurnTail DEF Resolved
<1>4. Resolved(r)' = Resolved(r) /\ Turn(inbox'[r], Base(r)', r, DownBroken)
  BY <1>3 DEF Resolved
<1>5. DownBroken' = DownBroken BY DEF DownBroken
<1>6. r \in Ordinary /\ r \in eof' => Complete(received'[r]) \/ r \in failed' \/ ~sessionUp'
  BY Zenon DEF DownChain
<1>7. r \in entry' =>
        /\ IF Resolved(r) = Stopped THEN made[r] > End ELSE Resolved(r) <= made[r]
        /\ InOrder(down, r, Resolved(r), made[r], DownBroken)
        /\ sessionUp /\ made[r] <= End => AllOf(down, r, Resolved(r), made[r])
  BY Zenon DEF DownChain
<1> HIDE DEF Stopped, End
<1> QED BY <1>4, <1>5, <1>6, <1>7, Zenon DEF DownChain

\* the hub's steps that do not send
LEMMA HubOwn ==
  ASSUME RelayInv, Types', NEW r \in Requests,
         \/ TakeHead(r) \/ HeadUnusable(r) \/ HeadClosed(r)
         \/ BodyChunk(r) \/ BodyClosed(r) \/ EndStream(r) \/ WriteBrowser(r) \/ PumpEnds(r) \/ UpgradeFails(r) \/ BrowserCloses(r) \/ BrowserLeaves(r)
  PROVE  Stages(r)' /\ UpChain(r)' /\ DownChain(r)'
<1> USE DEF session, hub, browser, agent, container
<1>0. Types /\ Stages(r) /\ UpChain(r) /\ DownChain(r) BY DEF RelayInv
<1>1. /\ UNCHANGED <<up, down, fed, inflight, body, task, made, cdone, taken, failed>>
      /\ left \subseteq left'
  BY DEF TakeHead, HeadUnusable, HeadClosed, BodyChunk, BodyClosed, EndStream, WriteBrowser, PumpEnds,
     UpgradeFails, BrowserCloses, BrowserLeaves
<1>2. UNCHANGED sessionUp
  BY Zenon DEF TakeHead, HeadUnusable, HeadClosed, BodyChunk, BodyClosed, EndStream, WriteBrowser, PumpEnds,
     UpgradeFails, BrowserCloses, BrowserLeaves
<1>3. (handler'[r] \notin Before /\ r \notin entry') \/ handler'[r] \notin Before \cup {"done"}
  <2> USE DEF Before
  <2>1. CASE TakeHead(r) \/ HeadUnusable(r) \/ HeadClosed(r)
    BY <1>0, <2>1 DEF TakeHead, HeadUnusable, HeadClosed, Closed, Handle, Types, PlaceTypes
  <2>2. CASE BodyChunk(r) \/ BodyClosed(r) BY <1>0, <2>2 DEF BodyChunk, BodyClosed, Handle, Types, PlaceTypes
  <2>3. CASE EndStream(r) \/ WriteBrowser(r) \/ PumpEnds(r) \/ UpgradeFails(r)
    BY <1>0, <2>3 DEF EndStream, WriteBrowser, PumpEnds, UpgradeFails, Handle, Types, PlaceTypes
  <2>4. CASE BrowserCloses(r) \/ BrowserLeaves(r)
    BY <1>0, <2>4 DEF BrowserCloses, BrowserLeaves, Handle, Types, PlaceTypes
  <2> QED BY <2>1, <2>2, <2>3, <2>4
<1>4. r \in bdone' /\ handler'[r] \in Before \cup {"head", "body"} => r \in bdone /\ handler'[r] = handler[r]
  <2> USE DEF Before
  <2>1. CASE TakeHead(r) \/ HeadUnusable(r) \/ HeadClosed(r)
    BY <1>0, <2>1 DEF TakeHead, HeadUnusable, HeadClosed, Handle, Types, PlaceTypes, Stages
  <2>2. CASE BodyChunk(r) \/ BodyClosed(r) BY <1>0, <2>2 DEF BodyChunk, BodyClosed, Handle, Types, PlaceTypes
  <2>3. CASE EndStream(r) \/ WriteBrowser(r) \/ PumpEnds(r) \/ UpgradeFails(r)
    BY <1>0, <2>3 DEF EndStream, WriteBrowser, PumpEnds, UpgradeFails, Handle, Types, PlaceTypes
  <2>4. CASE BrowserCloses(r) \/ BrowserLeaves(r)
    BY <1>0, <2>4 DEF BrowserCloses, BrowserLeaves, Handle, Types, PlaceTypes
  <2> QED BY <2>1, <2>2, <2>3, <2>4
<1>5. Moved(up', up, r) /\ Moved(down', down, r) BY <1>1 DEF Moved
<1>6. Stages(r)'
  <2>1. Within(up', up, r) /\ Within(down', down, r) BY <1>0, <1>5, WireWithin DEF Types, ChannelTypes
  <2>2. "idle" \in Before BY DEF Before
  <2> QED BY <1>0, <1>1, <1>3, <1>4, <2>1, <2>2, StagesKept
<1>7. UpChain(r)' BY <1>0, <1>1, <1>2, <1>5, UpKept DEF Takes
<1>8. /\ inbox[r] \in Seq(Part) /\ received[r] \in Seq(Part) /\ Len(received[r]) \in Nat
      /\ \A i \in 1..Len(received[r]) : received[r][i] = i
  BY <1>0, Sizes DEF DownChain
<1>9. ASSUME Reads(r), handler[r] # "head", inbox[r] # <<>>
      PROVE  /\ Head(inbox[r]) # End => Head(inbox[r]) \notin Last /\ Head(inbox[r]) = Len(received[r]) + 1
             /\ Head(inbox[r]) = End => Complete(received[r]) \/ r \in DownBroken
  <2>1. PICK b \in Nat : b = Len(received[r]) + 1 BY <1>8
  <2>2. Turn(inbox[r], b, r, DownBroken) BY <1>0, <1>9, <2>1 DEF DownChain, Base
  <2>3. /\ Head(inbox[r]) = b \/ Jumps(Head(inbox[r]), b, r, DownBroken)
        /\ Head(inbox[r]) = Error => b = 0
        /\ Head(inbox[r]) \notin Last => Head(inbox[r]) = b
    BY <1>8, <1>9, <2>2, TurnTail
  <2>4. b # 0 BY <1>8, <2>1
  <2>5. b = End => Complete(received[r])
    <3>1. b = End => Len(received[r]) >= Chunks BY <1>8, <2>1
    <3> QED BY <1>8, <3>1, CompleteFacts
  <2>6. End # Error OBVIOUS
  <2> HIDE DEF End, Error
  <2> QED BY <2>1, <2>3, <2>4, <2>5, <2>6 DEF Jumps, Last
<1>10. DownChain(r)'
  <2>1. ASSUME ~Reads(r)', received'[r] = received[r],
               r \in Ordinary /\ r \in eof' => Complete(received[r]) \/ r \in failed \/ ~sessionUp
        PROVE  DownChain(r)'
    BY <1>1, <1>2, <1>8, <2>1, Zenon DEF DownChain
  <2>2. r \in Ordinary /\ r \in eof => Complete(received[r]) \/ r \in failed \/ ~sessionUp
    BY <1>0, Zenon DEF DownChain
  <2>3. CASE HeadClosed(r) \/ EndStream(r) \/ PumpEnds(r) \/ UpgradeFails(r)
    <3>1. handler'[r] \in {"done", "ending"} /\ received' = received /\ eof' = eof
      BY <1>0, <2>3 DEF HeadClosed, EndStream, PumpEnds, UpgradeFails, Handle, Types, PlaceTypes
    <3>2. ~Reads(r)' BY <3>1 DEF Reads, Listening
    <3> QED BY <2>1, <2>2, <3>1, <3>2, Zenon
  <2>4. CASE BrowserCloses(r) \/ BrowserLeaves(r)
    <3>1. UNCHANGED <<entry, inbox, bdone, received, eof>> BY <2>4 DEF BrowserCloses, BrowserLeaves
    <3>2. handler'[r] = handler[r] \/ handler'[r] \in {"abandoned", "ending"}
      BY <1>0, <2>4 DEF BrowserCloses, BrowserLeaves, Handle, Types, PlaceTypes
    <3>3. CASE handler'[r] = handler[r]
      <4>1. Reads(r)' => Reads(r) BY <3>1, <3>3 DEF Reads
      <4>2. r \in entry' => r \in entry BY <3>1
      <4>3. (sessionUp' => sessionUp) /\ (r \in failed => r \in failed') /\ (r \in eof' => r \in eof)
        BY <1>1, <1>2, <3>1, Zenon
      <4> QED BY <1>0, <1>1, <1>5, <3>1, <3>3, <4>1, <4>2, <4>3, DownKept
    <3>4. CASE handler'[r] \in {"abandoned", "ending"}
      <4>1. ~Reads(r)' BY <3>4 DEF Reads, Listening
      <4> QED BY <2>1, <2>2, <3>1, <4>1, Zenon
    <3> QED BY <3>2, <3>3, <3>4
  <2>11. CASE HeadUnusable(r)
    <3>1. handler'[r] \in {"abandoned", "ending"} /\ received' = received /\ eof' = eof
      BY <1>0, <2>11 DEF HeadUnusable, Handle, Types, PlaceTypes
    <3>2. ~Reads(r)' BY <3>1 DEF Reads, Listening
    <3> QED BY <2>1, <2>2, <3>1, <3>2, Zenon
  <2>5. CASE TakeHead(r)
    <3>1. /\ handler[r] = "head" /\ inbox[r] # <<>> /\ inbox'[r] = Tail(inbox[r])
          /\ UNCHANGED <<entry, bdone, received, eof>>
      BY <1>0, <2>5 DEF TakeHead, Types, ChannelTypes
    <3>2. handler'[r] \in {"ending", "pump", "body"} /\ (handler'[r] # "ending" => Head(inbox[r]) = Headers)
      <4>1. PICK h \in {"ending", "pump", "body"} : Handle(r, h) /\ (h # "ending" => Head(inbox[r]) = Headers)
        <5>1. CASE Head(inbox[r]) # Headers
          <6>1. Handle(r, "ending") BY <2>5, <5>1 DEF TakeHead
          <6> QED BY <6>1
        <5>2. CASE Head(inbox[r]) = Headers
          <6>1. Handle(r, "pump") \/ Handle(r, "body") BY <2>5, <5>2 DEF TakeHead
          <6> QED BY <5>2, <6>1
        <5> QED BY <5>1, <5>2
      <4>2. handler'[r] = h BY <1>0, <4>1 DEF Handle, Types, PlaceTypes
      <4> QED BY <4>1, <4>2
    <3>3. CASE handler'[r] = "ending"
      <4>1. ~Reads(r)' BY <3>3 DEF Reads, Listening
      <4> QED BY <2>1, <2>2, <3>1, <4>1, Zenon
    <3>4. CASE handler'[r] # "ending"
      <4>1. Reads(r)
        <5>1. r \notin bdone BY <1>0, <3>1 DEF Stages
        <5> QED BY <3>1, <5>1 DEF Reads, Listening
      <4>2. received[r] = <<>> BY <1>0, <3>1, <4>1 DEF DownChain
      <4>3. Base(r) = 0 /\ Base(r)' = 1 BY <3>1, <3>2, <4>2 DEF Base
      <4>4. Head(inbox[r]) \notin Last BY <3>2, <3>4 DEF Last
      <4>5. Base(r)' = Base(r) + 1 BY <4>3
      <4>6. received'[r] = received[r] BY <3>1
      <4>7. \A i \in 1..Len(received'[r]) : received'[r][i] = i BY <1>8, <4>6
      <4>8. handler'[r] # "head" BY <3>2
      <4> QED BY <1>0, <1>1, <1>2, <3>1, <4>1, <4>4, <4>5, <4>6, <4>7, <4>8, ReadOne
    <3> QED BY <3>3, <3>4
  <2>6. ASSUME NEW x \in Part, received'[r] = Append(received[r], x), x = Len(received[r]) + 1,
               handler[r] # "head"
        PROVE  /\ Len(received'[r]) = Len(received[r]) + 1
               /\ \A i \in 1..Len(received'[r]) : received'[r][i] = i
               /\ Complete(received[r]) => Complete(received'[r])
    <3>1. /\ Len(received'[r]) = Len(received[r]) + 1 /\ received'[r][Len(received[r]) + 1] = x
          /\ \A i \in 1..Len(received[r]) : received'[r][i] = received[r][i]
      BY <1>8, <2>6
    <3>2. \A i \in 1..Len(received'[r]) : i \in 1..Len(received[r]) \/ i = Len(received[r]) + 1
      BY <1>8, <3>1
    <3>3. Complete(received[r]) => Complete(received'[r]) BY <1>8, <2>6, CompleteFacts
    <3> QED BY <1>8, <2>6, <3>1, <3>2, <3>3
  <2>7. ASSUME Reads(r), handler[r] \in {"body", "pump"}, inbox[r] # <<>>, Head(inbox[r]) # End,
               inbox'[r] = Tail(inbox[r]), received'[r] = Append(received[r], Head(inbox[r])),
               UNCHANGED <<eof, entry>>, handler'[r] = handler[r]
        PROVE  DownChain(r)'
    <3>1. Head(inbox[r]) \notin Last /\ Head(inbox[r]) = Len(received[r]) + 1 /\ Head(inbox[r]) \in Part
      BY <1>8, <1>9, <2>7, Queued
    <3>2. /\ Len(received'[r]) = Len(received[r]) + 1
          /\ \A i \in 1..Len(received'[r]) : received'[r][i] = i
          /\ Complete(received[r]) => Complete(received'[r])
      BY <2>6, <2>7, <3>1
    <3>3. Base(r)' = Base(r) + 1 BY <1>8, <2>7, <3>2 DEF Base
    <3>4. handler'[r] # "head" BY <2>7
    <3> QED BY <1>0, <1>1, <1>2, <2>7, <3>1, <3>2, <3>3, <3>4, ReadOne
  <2>8. CASE BodyChunk(r)
    <3>1. /\ handler[r] = "body" /\ inbox[r] # <<>> /\ inbox'[r] = Tail(inbox[r]) /\ UNCHANGED entry
          /\ r \notin bdone
      BY <1>0, <2>8 DEF BodyChunk, Types, ChannelTypes, Stages
    <3>2. Reads(r) BY <3>1 DEF Reads, Listening
    <3>3. CASE Head(inbox[r]) = End
      <4>1. handler'[r] = "ending" /\ received' = received /\ eof' = eof \cup {r}
        BY <1>0, <2>8, <3>3 DEF BodyChunk, Handle, Types, PlaceTypes
      <4>2. ~Reads(r)' BY <4>1 DEF Reads, Listening
      <4>3. Complete(received[r]) \/ r \in DownBroken BY <1>9, <3>1, <3>2, <3>3
      <4>4. r \in Ordinary => Complete(received[r]) \/ r \in failed BY <4>3 DEF DownBroken
      <4> QED BY <2>1, <4>1, <4>2, <4>4, Zenon
    <3>4. CASE Head(inbox[r]) # End
      <4>1. /\ received'[r] = Append(received[r], Head(inbox[r])) /\ UNCHANGED <<handler, eof>>
        BY <1>0, <2>8, <3>4 DEF BodyChunk, Types, ChannelTypes
      <4> QED BY <2>7, <3>1, <3>2, <3>4, <4>1
    <3> QED BY <3>3, <3>4
  <2>9. CASE BodyClosed(r)
    <3>1. /\ handler[r] = "body" /\ r \notin entry /\ r \notin bdone /\ received' = received
          /\ handler'[r] = "ending"
      BY <1>0, <2>9 DEF BodyClosed, Closed, Handle, Types, PlaceTypes, Stages
    <3>2. handler[r] \in Waits BY <2>9 DEF BodyClosed, Listening, Waits
    <3>3. ~sessionUp BY <3>1, <3>2, Zenon DEF RelayInv, Served
    <3>4. ~Reads(r)' BY <3>1 DEF Reads, Listening
    <3> QED BY <2>1, <3>1, <3>3, <3>4, Zenon
  <2>10. CASE WriteBrowser(r)
    <3>1. handler[r] = "pump" /\ r \notin bdone /\ UNCHANGED <<handler, entry>> BY <2>10 DEF WriteBrowser
    <3>2. Reads(r) BY <3>1 DEF Reads, Listening
    <3>3. r \notin Ordinary BY <1>0, <3>1 DEF Types, Kinds
    <3>4. \/ /\ inbox[r] # <<>> /\ Head(inbox[r]) # End /\ inbox'[r] = Tail(inbox[r])
             /\ received'[r] = Append(received[r], Head(inbox[r])) /\ UNCHANGED eof
          \/ r \in bdone' /\ received' = received
      BY <1>0, <2>10 DEF WriteBrowser, Types, ChannelTypes
    <3>5. CASE r \in bdone' /\ received' = received
      <4>1. ~Reads(r)' BY <3>5 DEF Reads
      <4> QED BY <2>1, <3>3, <3>5, <4>1, Zenon
    <3> QED BY <2>7, <3>1, <3>2, <3>4, <3>5
  <2> QED BY <2>3, <2>4, <2>5, <2>8, <2>9, <2>10, <2>11
<1> QED BY <1>6, <1>7, <1>10

-----------------------------------------------------------------------------
(* A step's own request: the agent and the container. *)

LEMMA RouteOwn ==
  ASSUME RelayInv, Types', NEW r \in Requests, Route, Head(up)[1] = r
  PROVE  Stages(r)' /\ UpChain(r)' /\ DownChain(r)'
<1> USE DEF session, hub, browser, agent, container
<1>0. /\ Types /\ Stages(r) /\ UpChain(r) /\ DownChain(r)
      /\ up \in Seq(Message) /\ up # <<>> /\ up' = Tail(up)
  BY DEF RelayInv, Types, ChannelTypes, Route
<1>1. /\ UNCHANGED <<down, handler, fed, entry, inbox, bdone, received, eof, left, made, cdone, taken, failed>>
  BY DEF Route
<1>2. UNCHANGED sessionUp BY Zenon DEF Route
<1>3. PICK part \in Part : Head(up)[2] = part /\ up[1][2] = part /\ up[1][1] = r /\ 1 \in 1..Len(up)
  BY <1>0, IsMessage, Queued
<1>4. \/ /\ part = Headers /\ r \in inflight' /\ task'[r] = "proxy" /\ body' = body
      \/ /\ part # Headers /\ r \in inflight /\ task[r] \in Receiving
         /\ body'[r] = Append(body[r], part) /\ UNCHANGED <<inflight, task>>
      \/ /\ part # Headers /\ (r \notin inflight \/ task[r] \notin Receiving)
         /\ UNCHANGED <<inflight, body, task>>
  <2>1. \/ part = Headers /\ inflight' = inflight \cup {r} /\ task' = [task EXCEPT ![r] = "proxy"] /\ body' = body
        \/ /\ part # Headers /\ r \in inflight /\ task[r] \in Receiving
           /\ body' = [body EXCEPT ![r] = Append(@, part)] /\ UNCHANGED <<inflight, task>>
        \/ /\ part # Headers /\ (r \notin inflight \/ task[r] \notin Receiving)
           /\ UNCHANGED <<inflight, body, task>>
    BY <1>3 DEF Route
  <2>2. /\ task' = [task EXCEPT ![r] = "proxy"] => task'[r] = "proxy"
        /\ body' = [body EXCEPT ![r] = Append(@, part)] => body'[r] = Append(body[r], part)
    BY <1>0 DEF Types, PlaceTypes, ChannelTypes
  <2> QED BY <2>1, <2>2
<1>5. handler[r] \notin Before /\ fed[r] # Headers BY <1>0, <1>3 DEF Stages, Absent
<1>6. part = Headers => task[r] = "none" BY <1>0, <1>3 DEF Stages, IsPart
<1>7. task[r] = "none" => Takes(r) /\ Routed(r) = 0 /\ body[r] = <<>> /\ taken[r] = <<>> /\ made[r] = Headers
  BY <1>0 DEF Stages, Takes, Routed
<1>8. Routed(r) \in Nat /\ Fed(r) \in Nat /\ Fed(r) <= End + 1 /\ (fed[r] # Stopped => Fed(r) = fed[r])
  <2>1. Routed(r) \in Nat /\ Fed(r) \in Nat /\ fed[r] \in 0..End \cup {Stopped} BY <1>0, Sizes
  <2>2. fed[r] # Stopped => Fed(r) = fed[r] /\ fed[r] <= End BY <2>1 DEF Fed
  <2>3. fed[r] = Stopped => Fed(r) = End + 1 BY DEF Fed
  <2> QED BY <2>1, <2>2, <2>3
<1>9. ASSUME Takes(r)
      PROVE  /\ Routed(r) <= part /\ part < Fed(r) /\ part # Error
             /\ part = Routed(r) \/ Jumps(part, Routed(r), r, UpBroken)
             /\ part # End =>
                   /\ InOrder(Tail(up), r, Routed(r) + 1, Fed(r), UpBroken)
                   /\ AllOf(up, r, Routed(r), Fed(r)) => AllOf(Tail(up), r, Routed(r) + 1, Fed(r))
             /\ part = End => Absent(Tail(up), r)
  <2>1. InOrder(up, r, Routed(r), Fed(r), UpBroken) BY <1>0, <1>9, Zenon DEF UpChain
  <2>2. Fed(r) <= Stopped BY <1>8
  <2>3. /\ Routed(r) <= part /\ part < Fed(r)
        /\ part = Routed(r) \/ Jumps(part, Routed(r), r, UpBroken)
        /\ part \notin Last =>
              /\ InOrder(Tail(up), r, Routed(r) + 1, Fed(r), UpBroken)
              /\ AllOf(up, r, Routed(r), Fed(r)) => AllOf(Tail(up), r, Routed(r) + 1, Fed(r))
        /\ part \in Last => Absent(Tail(up), r)
    BY <1>0, <1>3, <1>8, <2>1, <2>2, TailOwn
  <2>4. part # Error BY <1>3, <1>8, <2>3
  <2> QED BY <2>3, <2>4 DEF Last
<1>10. DownChain(r)'
  <2>1. Moved(down', down, r) BY <1>1 DEF Moved
  <2>2. Reads(r)' => Reads(r) BY <1>1 DEF Reads
  <2> QED BY <1>0, <1>1, <1>2, <2>1, <2>2, DownKept
<1>11. CASE part = Headers
  <2>1. task[r] = "none" /\ Takes(r) /\ Routed(r) = 0 /\ body[r] = <<>> /\ taken[r] = <<>> /\ made[r] = Headers
    BY <1>6, <1>7, <1>11
  <2>2. r \in inflight' /\ task'[r] = "proxy" /\ body' = body BY <1>4, <1>11
  <2>3. part # End /\ 0 + 1 = 1 BY <1>11
  <2>4. /\ InOrder(up', r, 1, Fed(r), UpBroken) /\ 0 < Fed(r)
        /\ AllOf(up, r, 0, Fed(r)) => AllOf(up', r, 1, Fed(r))
    BY <1>0, <1>9, <1>11, <2>1, <2>3
  <2>5. Stages(r)'
    <3>1. \A i \in 1..Len(up') : ~IsPart(up', i, r, Headers) BY <2>4 DEF InOrder, IsPart
    <3> HIDE DEF Headers, End, Error, Stopped
    <3> QED BY <1>0, <1>1, <1>5, <2>1, <2>2, <3>1 DEF Stages, Receiving
  <2>6. UpChain(r)'
    <3>1. UNCHANGED UpBroken /\ Fed(r)' = Fed(r) BY <1>1 DEF UpBroken, Fed
    <3>2. taken'[r] = <<>> /\ body'[r] = <<>> BY <1>1, <2>1, <2>2
    <3>3. Len(<<>>) + 1 = 1 /\ Turn(<<>>, 1, r, UpBroken) /\ ~Over(<<>>) /\ After(<<>>, 1) = 1
      <4>1. Len(<<>>) + 1 = 1 /\ 1 \in Nat OBVIOUS
      <4> QED BY <4>1, TurnEmpty
    <3>4. Routed(r)' = 1 BY <2>2, <3>2, <3>3 DEF Routed
    <3>5. Routed(r)' # Stopped /\ Routed(r)' <= Fed(r)' BY <1>8, <2>4, <3>1, <3>4
    <3>6. ASSUME sessionUp, fed[r] # Stopped PROVE AllOf(up', r, 1, fed[r])
      <4>1. AllOf(up, r, 0, fed[r]) BY <1>0, <2>1, <3>6, Zenon DEF UpChain
      <4> QED BY <1>8, <2>4, <3>6, <4>1
    <3>7. fed' = fed BY <1>1
    <3> HIDE DEF Stopped
    <3> QED BY <1>2, <2>4, <3>1, <3>2, <3>3, <3>4, <3>5, <3>6, <3>7, Zenon DEF UpChain
  <2> QED BY <1>10, <2>5, <2>6
<1>12. CASE part # Headers
  <2>1. UNCHANGED <<inflight, task>> /\ (body'[r] = body[r] \/ task[r] \in Receiving) BY <1>4, <1>12
  <2>2. Stages(r)'
    <3>1. Within(up', up, r) BY <1>0, WireWithin
    <3>2. Within(down', down, r) BY <1>1 DEF Within
    <3>3. \/ body'[r] = body[r]
          \/ task'[r] # "none"
      BY <2>1 DEF Receiving
    <3>4. (\A i \in 1..Len(up) : ~IsPart(up, i, r, Headers)) => \A i \in 1..Len(up') : ~IsPart(up', i, r, Headers)
      BY <3>1, WithinFacts
    <3> HIDE DEF Headers, End, Error, Stopped
    <3> QED BY <1>0, <1>1, <1>5, <2>1, <3>3, <3>4 DEF Stages
  <2>3. CASE ~Takes(r)
    <3>1. ~Takes(r)' BY <1>1, <2>1, <2>3 DEF Takes
    <3>2. UpChain(r)' BY <1>0, <1>1, <1>2, <3>1, UpKept
    <3> QED BY <1>10, <2>2, <3>2
  <2>4. CASE Takes(r)
    <3>1. task[r] # "none" BY <1>7, <1>9, <1>12, <2>4 DEF Jumps
    <3>2. task[r] \in Receiving /\ r \in inflight
      BY <1>0, <2>4, <3>1 DEF Types, PlaceTypes, Takes, Stages
    <3>3. body'[r] = Append(body[r], part) BY <1>4, <1>12, <3>2
    <3>4. /\ Turn(body[r], Len(taken[r]) + 1, r, UpBroken) /\ Turn(taken[r], 1, r, UpBroken)
          /\ body[r] \in Seq(Part) /\ Len(body[r]) \in Nat /\ Len(taken[r]) \in Nat
      BY <1>0, <2>4, Sizes DEF UpChain
    <3>5. Routed(r) # Stopped BY <1>8, <1>9, <2>4
    <3>6. ~Over(taken[r]) /\ ~Over(body[r]) /\ Routed(r) = Len(taken[r]) + 1 + Len(body[r])
      BY <3>1, <3>5 DEF Routed, After
    <3>7. PICK b \in Nat : b = Len(taken[r]) + 1 BY <3>4
    <3>8. b + Len(body[r]) = Routed(r) /\ part # Error BY <1>9, <2>4, <3>6, <3>7
    <3>9. /\ Turn(Append(body[r], part), b, r, UpBroken)
          /\ After(Append(body[r], part), b) = IF part \in Last THEN Stopped ELSE b + Len(body[r]) + 1
      <4>1. part = b + Len(body[r]) \/ Jumps(part, b + Len(body[r]), r, UpBroken) BY <1>9, <2>4, <3>8
      <4>2. Turn(body[r], b, r, UpBroken) /\ body[r] \in Seq(Part) BY <3>4, <3>7
      <4>3. part = Error => b + Len(body[r]) = 0 BY <3>8
      <4> QED BY <3>6, <4>1, <4>2, <4>3, TurnAppend
    <3>10. UNCHANGED UpBroken /\ Fed(r)' = Fed(r) /\ fed' = fed /\ taken' = taken BY <1>1 DEF UpBroken, Fed
    <3>11. Routed(r)' = IF part = End THEN Stopped ELSE Routed(r) + 1
      <4>1. Routed(r)' = After(body'[r], b) BY <2>1, <3>1, <3>6, <3>7, <3>10 DEF Routed
      <4> QED BY <3>3, <3>8, <3>9, <4>1 DEF Last
    <3>12. Turn(body'[r], Len(taken'[r]) + 1, r, UpBroken') BY <3>3, <3>7, <3>9, <3>10
    <3>13. CASE part = End
      <4>1. fed[r] = Stopped
        <5>1. End < Fed(r) BY <1>9, <2>4, <3>13
        <5> QED BY <1>0, <1>8, <5>1, Sizes
      <4>2. InOrder(up', r, Stopped, Fed(r), UpBroken) BY <1>0, <1>9, <2>4, <3>13, AbsentFacts
      <4>3. Routed(r)' = Stopped BY <3>11, <3>13
      <4> HIDE DEF Stopped
      <4>4. UpChain(r)' BY <3>4, <3>6, <3>10, <3>12, <4>1, <4>2, <4>3, Zenon DEF UpChain
      <4> QED BY <1>10, <2>2, <4>4
    <3>14. CASE part # End
      <4>1. part = Routed(r) BY <1>9, <2>4, <3>8, <3>14 DEF Jumps
      <4>2. Routed(r)' = Routed(r) + 1 BY <3>11, <3>14
      <4>3. Routed(r)' # Stopped /\ Routed(r)' <= Fed(r)' BY <1>8, <1>9, <2>4, <3>8, <3>10, <3>14, <4>1, <4>2
      <4>4. InOrder(up', r, Routed(r)', Fed(r), UpBroken) BY <1>0, <1>9, <2>4, <3>14, <4>2
      <4>5. ASSUME sessionUp, fed[r] # Stopped PROVE AllOf(up', r, Routed(r)', fed[r])
        <5>1. AllOf(up, r, Routed(r), fed[r]) BY <1>0, <2>4, <4>5, Zenon DEF UpChain
        <5>2. fed[r] = Fed(r) BY <1>8, <4>5
        <5> QED BY <1>0, <1>9, <2>4, <3>14, <4>2, <5>1, <5>2
      <4> HIDE DEF Stopped
      <4>6. UpChain(r)' BY <1>2, <3>4, <3>6, <3>10, <3>12, <4>3, <4>4, <4>5, Zenon DEF UpChain
      <4> QED BY <1>10, <2>2, <4>6
    <3> QED BY <3>13, <3>14
  <2> QED BY <2>3, <2>4
<1> QED BY <1>11, <1>12

\* a part of the response is sent, or lost with the session
LEMMA ReplyDown ==
  ASSUME Types, Types', NEW r \in Requests, DownChain(r), NEW part \in Part, Reply(r, part),
         made[r] <= End, made[r] <= part,
         part = made[r] \/ (part = End /\ r \in DownBroken' /\ made[r] # 0) \/ part = Error,
         part = Error => made[r] = 0, r \in failed => r \in failed'
  PROVE  DownChain(r)'
<1> USE DEF hub, browser
<1>1. /\ UNCHANGED <<handler, entry, inbox, bdone, received, eof>> /\ made'[r] = part + 1
  BY DEF Reply, Types, PlaceTypes
<1>2. UNCHANGED sessionUp /\ (~sessionUp => down' = down) BY Zenon DEF Reply
<1>3. sessionUp => down' = Append(down, <<r, part>>) BY Zenon DEF Reply
<1>4. (Reads(r)' <=> Reads(r)) /\ Base(r)' = Base(r) /\ Resolved(r)' = Resolved(r)
  BY <1>1 DEF Reads, Base, Resolved
<1>5. r \in DownBroken => r \in DownBroken' BY DEF DownBroken
<1>6. Resolved(r) \in Nat /\ made[r] \in Nat /\ down \in Seq(Message) BY Sizes DEF Types, ChannelTypes
<1>7. ASSUME Reads(r), r \in entry
      PROVE  /\ Resolved(r) # Stopped /\ Resolved(r) <= part + 1
             /\ InOrder(down', r, Resolved(r), part + 1, DownBroken')
             /\ sessionUp' /\ part + 1 <= End => AllOf(down', r, Resolved(r), part + 1)
  <2>1. /\ IF Resolved(r) = Stopped THEN made[r] > End ELSE Resolved(r) <= made[r]
        /\ InOrder(down, r, Resolved(r), made[r], DownBroken)
        /\ sessionUp /\ made[r] <= End => AllOf(down, r, Resolved(r), made[r])
    BY <1>7, Zenon DEF DownChain
  <2>2. Resolved(r) # Stopped /\ Resolved(r) <= made[r] BY <1>6, <2>1
  <2>3. Resolved(r) <= part + 1 BY <1>6, <2>2
  <2>4. InOrder(down, r, Resolved(r), made[r], DownBroken')
    <3>1. InOrder(down, r, Resolved(r), made[r], DownBroken) /\ made[r] <= made[r] BY <1>6, <2>1
    <3> QED BY <1>5, <1>6, <3>1, Weaken
  <2>5. CASE sessionUp
    <3>1. AllOf(down, r, Resolved(r), made[r]) BY <2>1, <2>5, Zenon
    <3>2. /\ InOrder(Append(down, <<r, part>>), r, Resolved(r), part + 1, DownBroken')
          /\ part = made[r] => AllOf(Append(down, <<r, part>>), r, Resolved(r), part + 1)
      BY <1>6, <2>2, <2>4, <3>1, AppendOwn
    <3>3. part + 1 <= End => part = made[r] OBVIOUS
    <3>4. down' = Append(down, <<r, part>>) BY <1>3, <2>5, Zenon
    <3> QED BY <2>2, <2>3, <3>2, <3>3, <3>4
  <2>6. CASE ~sessionUp
    <3>1. part + 1 \in Nat /\ made[r] <= part + 1 BY <1>6
    <3>2. InOrder(down, r, Resolved(r), part + 1, DownBroken')
      <4>1. PICK m \in Nat : m = part + 1 BY <3>1
      <4>2. made[r] <= m BY <3>1, <4>1
      <4>3. InOrder(down, r, Resolved(r), m, DownBroken') BY <1>6, <2>4, <4>2, Weaken
      <4> QED BY <4>1, <4>3
    <3>3. ~sessionUp' /\ down' = down BY <1>2, <2>6, Zenon
    <3> QED BY <2>2, <2>3, <3>2, <3>3, Zenon
  <2> QED BY <2>5, <2>6
<1>11. Reads(r) => Turn(inbox[r], Base(r), r, DownBroken')
  <2>1. Reads(r) => Turn(inbox[r], Base(r), r, DownBroken) BY Zenon DEF DownChain
  <2> QED BY <1>5, <2>1, TurnWeaken
<1>8. \A i \in 1..Len(received'[r]) : received'[r][i] = i BY <1>1 DEF DownChain
<1>9. r \in Ordinary /\ r \in eof' => Complete(received'[r]) \/ r \in failed' \/ ~sessionUp'
  <2>1. r \in Ordinary /\ r \in eof => Complete(received[r]) \/ r \in failed \/ ~sessionUp BY Zenon DEF DownChain
  <2> QED BY <1>1, <1>2, <2>1, Zenon
<1>10. Reads(r) => (handler[r] = "head" => received[r] = <<>>) BY Zenon DEF DownChain
<1> HIDE DEF Stopped, End
<1> QED BY <1>1, <1>4, <1>7, <1>8, <1>9, <1>10, <1>11, Zenon DEF DownChain

LEMMA ReplyOwn ==
  ASSUME RelayInv, Types', NEW r \in Requests,
         \/ PumpReadEnd(r) \/ ProxyFails(r) \/ Respond(r) \/ ResponseChunk(r)
         \/ ResponseEnd(r) \/ SwitchFails(r)
  PROVE  Stages(r)' /\ UpChain(r)' /\ DownChain(r)'
<1> USE DEF session, hub, browser, agent, container
<1>0. Types /\ Stages(r) /\ UpChain(r) /\ DownChain(r) BY DEF RelayInv
<1>1. PICK part \in Part :
        /\ Reply(r, part) /\ made[r] <= End /\ made[r] <= part
        /\ part = made[r] \/ (part = End /\ r \in DownBroken' /\ made[r] # 0) \/ part = Error
        /\ part = Error => made[r] = 0
        /\ r \in failed => r \in failed'
        /\ task[r] \in Receiving
        /\ \/ task'[r] = "gone"
           \/ task'[r] = "stream" /\ part + 1 \in 1..End /\ body' = body /\ inflight' = inflight
           \/ task'[r] = "pump" /\ part + 1 \in 1..End + 1 /\ body' = body /\ inflight' = inflight
  <2>0. /\ task[r] \in {"none", "proxy"} => made[r] = Headers
        /\ task[r] = "stream" => made[r] \in 1..End
        /\ task[r] = "pump" => made[r] \in 1..End + 1 /\ r \in Upgrades
    BY <1>0 DEF Stages, Types, Kinds
  <2>1. CASE PumpReadEnd(r)
    <3>1. Reply(r, End) /\ End \in Part BY <2>1 DEF PumpReadEnd
    <3>2. made[r] \in 1..End /\ r \in DownBroken' BY <2>0, <2>1 DEF PumpReadEnd, DownBroken
    <3>3. UNCHANGED <<task, body, inflight, failed>> /\ task[r] = "pump" BY <2>1 DEF PumpReadEnd
    <3> QED BY <3>1, <3>2, <3>3 DEF Receiving
  <2>2. CASE ProxyFails(r)
    <3>1. Reply(r, Error) /\ Error \in Part /\ task[r] = "proxy" /\ UNCHANGED failed BY <2>2 DEF ProxyFails
    <3>2. task'[r] = "gone" BY <1>0, <2>2 DEF ProxyFails, Ended, Types, PlaceTypes
    <3>3. made[r] = 0 BY <2>0, <3>1
    <3> QED BY <3>1, <3>2, <3>3 DEF Receiving
  <2>3. CASE Respond(r)
    <3>1. Reply(r, Headers) /\ Headers \in Part /\ task[r] = "proxy" /\ UNCHANGED failed BY <2>3 DEF Respond
    <3>2. task'[r] \in {"stream", "pump"} /\ body' = body /\ inflight' = inflight
      BY <1>0, <2>3 DEF Respond, Become, Types, PlaceTypes
    <3>3. made[r] = 0 /\ 0 + 1 \in 1..End /\ 0 + 1 \in 1..End + 1 BY <2>0, <3>1
    <3> QED BY <3>1, <3>2, <3>3 DEF Receiving
  <2>4. CASE ResponseChunk(r)
    <3>1. Reply(r, made[r]) /\ made[r] \in 1..Chunks BY <2>4 DEF ResponseChunk
    <3>2. UNCHANGED <<task, body, inflight, failed>> /\ task[r] \in {"stream", "pump"} BY <2>4 DEF ResponseChunk
    <3>3. made[r] \in Part /\ made[r] <= End /\ made[r] + 1 \in 1..End /\ made[r] + 1 \in 1..End + 1 /\ made[r] # Error
      BY <3>1
    <3> QED BY <3>1, <3>2, <3>3 DEF Receiving
  <2>5. CASE ResponseEnd(r)
    <3>1. Reply(r, End) /\ End \in Part /\ task[r] = "stream" BY <2>5 DEF ResponseEnd
    <3>2. task'[r] = "gone" BY <1>0, <2>5 DEF ResponseEnd, Ended, Types, PlaceTypes
    <3>3. made[r] \in 1..End BY <2>0, <3>1
    <3>4. (made[r] = End \/ r \in DownBroken') /\ (r \in failed => r \in failed')
      BY <2>5 DEF ResponseEnd, DownBroken
    <3> QED BY <3>1, <3>2, <3>3, <3>4 DEF Receiving
  <2>6. CASE SwitchFails(r)
    <3>1. Reply(r, End) /\ End \in Part /\ task[r] = "pump" /\ made[r] = 1 /\ UNCHANGED failed
      BY <2>6 DEF SwitchFails
    <3>2. task'[r] = "gone" BY <1>0, <2>6 DEF SwitchFails, Ended, Types, PlaceTypes
    <3>3. r \in DownBroken' BY <2>0, <3>1 DEF DownBroken
    <3>4. 1 <= End /\ 1 # 0 OBVIOUS
    <3> QED BY <3>1, <3>2, <3>3, <3>4 DEF Receiving
  <2> QED BY <2>1, <2>2, <2>3, <2>4, <2>5, <2>6
<1>2. /\ UNCHANGED <<up, handler, fed, entry, inbox, bdone, received, eof, left, cdone, taken>>
      /\ made'[r] = part + 1
  BY <1>0, <1>1 DEF Reply, Types, PlaceTypes
<1>3. sessionUp' => sessionUp BY <1>1, Zenon DEF Reply
<1>4. DownChain(r)' BY <1>0, <1>1, ReplyDown
<1>5. UpChain(r)'
  <2>1. Moved(up', up, r) BY <1>2 DEF Moved
  <2>2. task'[r] # "none" /\ task[r] # "none" /\ task[r] # "gone" BY <1>1 DEF Receiving
  <2>3. Takes(r)' => Takes(r) /\ body'[r] = body[r] BY <1>1, <1>2, <2>2 DEF Takes
  <2> QED BY <1>0, <1>2, <1>3, <2>1, <2>2, <2>3, UpKept
<1>6. Stages(r)'
  <2>1. task[r] # "none" /\ task'[r] \in {"gone", "stream", "pump"} BY <1>1 DEF Receiving
  <2>2. /\ task'[r] = "stream" => made'[r] \in 1..End
        /\ task'[r] = "pump" => made'[r] \in 1..End + 1
        /\ task'[r] \in Receiving => r \in inflight'
    <3>1. r \in inflight BY <1>0, <1>1 DEF Stages
    <3> QED BY <1>1, <1>2, <3>1 DEF Receiving
  <2> HIDE DEF Headers, End, Error, Stopped
  <2> QED BY <1>0, <1>2, <2>1, <2>2 DEF Stages
<1> QED BY <1>4, <1>5, <1>6

\* the agent's steps that do not send
LEMMA AgentOwn ==
  ASSUME RelayInv, Types', NEW r \in Requests, PumpDone(r) \/ TakeBody(r) \/ ContainerCloses(r)
  PROVE  Stages(r)' /\ UpChain(r)' /\ DownChain(r)'
<1> USE DEF session, hub, browser, agent, container
<1>0. Types /\ Stages(r) /\ UpChain(r) /\ DownChain(r) BY DEF RelayInv
<1>1. /\ UNCHANGED <<up, down, handler, fed, entry, inbox, bdone, received, eof, left, made, failed>>
      /\ task[r] \in Receiving /\ (task'[r] = "gone" \/ (task' = task /\ inflight' = inflight))
  BY <1>0 DEF PumpDone, Ended, TakeBody, ContainerCloses, Receiving, Types, PlaceTypes
<1>2. UNCHANGED sessionUp BY Zenon DEF PumpDone, TakeBody, ContainerCloses
<1>3. DownChain(r)'
  <2>1. Moved(down', down, r) BY <1>1 DEF Moved
  <2>2. Reads(r)' => Reads(r) BY <1>1 DEF Reads
  <2> QED BY <1>0, <1>1, <1>2, <2>1, <2>2, DownKept
<1>4. Stages(r)'
  <2>1. task[r] # "none" /\ task'[r] # "none" BY <1>1 DEF Receiving
  <2> HIDE DEF Headers, End, Error, Stopped
  <2> QED BY <1>0, <1>1, <2>1 DEF Stages, Receiving
<1>5. Moved(up', up, r) BY <1>1 DEF Moved
<1>6. CASE PumpDone(r)
  <2>1. task'[r] = "gone" /\ taken' = taken BY <1>0, <1>6 DEF PumpDone, Ended, Types, PlaceTypes
  <2>2. ~Takes(r)' BY <2>1 DEF Takes
  <2> QED BY <1>0, <1>1, <1>2, <1>3, <1>4, <2>1, <2>2, UpKept
<1>7. CASE ContainerCloses(r)
  <2>1. UNCHANGED <<body, taken, task, cdone>> BY <1>7 DEF ContainerCloses
  <2>2. Takes(r)' => Takes(r) BY <2>1 DEF Takes
  <2> QED BY <1>0, <1>1, <1>2, <1>3, <1>4, <1>5, <2>1, <2>2, UpKept
<1>8. CASE TakeBody(r)
  <2>1. /\ body[r] # <<>> /\ body'[r] = Tail(body[r]) /\ task' = task /\ r \notin cdone
    BY <1>0, <1>8 DEF TakeBody, Types, Kinds, ChannelTypes
  <2>2. \/ taken'[r] = Append(taken[r], Head(body[r]))
        \/ taken' = taken /\ r \in cdone'
    BY <1>0, <1>8 DEF TakeBody, Types, ChannelTypes
  <2>3. CASE taken' = taken /\ r \in cdone'
    <3>1. ~Takes(r)' BY <2>3 DEF Takes
    <3> QED BY <1>0, <1>1, <1>2, <1>3, <1>4, <2>3, <3>1, UpKept
  <2>4. CASE taken'[r] = Append(taken[r], Head(body[r]))
    <3>1. Takes(r) /\ task[r] # "none" /\ task'[r] # "none" BY <1>1, <2>1 DEF Takes, Receiving
    <3>2. /\ Turn(taken[r], 1, r, UpBroken) /\ Turn(body[r], Len(taken[r]) + 1, r, UpBroken)
          /\ Over(taken[r]) => body[r] = <<>>
          /\ IF Routed(r) = Stopped THEN fed[r] = Stopped ELSE Routed(r) <= Fed(r)
          /\ InOrder(up, r, Routed(r), Fed(r), UpBroken)
          /\ sessionUp /\ fed[r] # Stopped => AllOf(up, r, Routed(r), fed[r])
      BY <1>0, <3>1, Zenon DEF UpChain
    <3>3. /\ taken[r] \in Seq(Part) /\ body[r] \in Seq(Part) /\ Len(taken[r]) \in Nat
          /\ Head(body[r]) \in Part
      BY <1>0, <2>1, Sizes, Queued
    <3>4. PICK b \in Nat : b = Len(taken[r]) + 1 /\ b = 1 + Len(taken[r]) BY <3>3
    <3>5. PICK x \in Part : x = Head(body[r]) BY <3>3
    <3>6. /\ x = b \/ Jumps(x, b, r, UpBroken)
          /\ x = Error => b = 0
          /\ x \in Last => Tail(body[r]) = <<>>
          /\ x \notin Last =>
                /\ Turn(Tail(body[r]), b + 1, r, UpBroken)
                /\ After(Tail(body[r]), b + 1) = After(body[r], b)
      BY <2>1, <3>2, <3>3, <3>4, <3>5, TurnTail
    <3>7. ~Over(taken[r]) BY <2>1, <3>2
    <3>8. Turn(taken'[r], 1, r, UpBroken) /\ (Over(taken'[r]) <=> x \in Last)
      <4>1. 1 \in Nat /\ (x = Error => 1 + Len(taken[r]) = 0) BY <3>4, <3>6
      <4>2. x = 1 + Len(taken[r]) \/ Jumps(x, 1 + Len(taken[r]), r, UpBroken) BY <3>4, <3>6
      <4>3. Turn(taken[r], 1, r, UpBroken) BY <3>2
      <4>4. Turn(Append(taken[r], x), 1, r, UpBroken) /\ (Over(Append(taken[r], x)) <=> x \in Last)
        BY <3>3, <3>7, <4>1, <4>2, <4>3, TurnAppend
      <4> QED BY <2>4, <3>5, <4>4
    <3>9. Len(taken'[r]) + 1 = b + 1 BY <2>4, <3>3, <3>4
    <3>10. Routed(r) = After(body[r], b) BY <3>1, <3>4, <3>7 DEF Routed
    <3>11. /\ Routed(r)' = Routed(r) /\ Turn(body'[r], Len(taken'[r]) + 1, r, UpBroken)
           /\ Over(taken'[r]) => body'[r] = <<>>
      <4>1. CASE x \in Last
        <5>1. Over(body[r])
          <6>1. Head(body[r]) = body[r][1] /\ 1 \in 1..Len(body[r]) BY <2>1, <3>3
          <6> QED BY <3>5, <4>1, <6>1 DEF Over
        <5>2. Routed(r) = Stopped BY <3>10, <5>1 DEF After
        <5>3. Routed(r)' = Stopped BY <3>1, <3>8, <4>1 DEF Routed
        <5>4. body'[r] = <<>> BY <2>1, <3>6, <4>1
        <5>5. Turn(body'[r], Len(taken'[r]) + 1, r, UpBroken) BY <5>4, TurnEmpty
        <5> QED BY <5>2, <5>3, <5>4, <5>5
      <4>2. CASE x \notin Last
        <5>1. Routed(r)' = After(body'[r], b + 1) BY <3>1, <3>8, <3>9, <4>2 DEF Routed
        <5> QED BY <2>1, <3>6, <3>8, <3>9, <3>10, <4>2, <5>1
      <4> QED BY <4>1, <4>2
    <3>12. UNCHANGED UpBroken /\ Fed(r)' = Fed(r) BY <1>1 DEF UpBroken, Fed
    <3>13. fed' = fed /\ up' = up BY <1>1
    <3> HIDE DEF Stopped
    <3>14. UpChain(r)' BY <1>2, <3>2, <3>8, <3>11, <3>12, <3>13, Zenon DEF UpChain
    <3> QED BY <1>3, <1>4, <3>14
  <2> QED BY <2>2, <2>3, <2>4
<1> QED BY <1>6, <1>7, <1>8

-----------------------------------------------------------------------------
(* The hub's reader, and the session's end. *)

LEMMA ResolveOwn ==
  ASSUME RelayInv, Types', NEW r \in Requests, Resolve, Head(down)[1] = r
  PROVE  Stages(r)' /\ UpChain(r)' /\ DownChain(r)'
<1> USE DEF session, hub, browser, agent, container
<1>0. /\ Types /\ Stages(r) /\ UpChain(r) /\ DownChain(r)
      /\ down \in Seq(Message) /\ down # <<>> /\ down' = Tail(down)
  BY DEF RelayInv, Types, ChannelTypes, Resolve
<1>1. /\ UNCHANGED <<up, handler, fed, entry, bdone, received, eof, left>>
      /\ UNCHANGED <<inflight, body, task, made, cdone, taken, failed>>
  BY DEF Resolve
<1>2. UNCHANGED sessionUp BY Zenon DEF Resolve
<1>3. PICK part \in Part : Head(down)[2] = part /\ down[1][2] = part /\ down[1][1] = r /\ 1 \in 1..Len(down)
  BY <1>0, IsMessage, Queued
<1>4. r \in entry /\ handler[r] \in Listening => inbox'[r] = Append(inbox[r], part)
  <2>1. r \in entry /\ handler[r] \in Listening => inbox' = [inbox EXCEPT ![r] = Append(@, part)]
    BY <1>3 DEF Resolve
  <2> QED BY <1>0, <2>1 DEF Types, ChannelTypes
<1>5. Stages(r)'
  <2>1. handler[r] \notin Before BY <1>0, <1>3 DEF Stages, Absent
  <2>2. Within(up', up, r) BY <1>1 DEF Within
  <2>3. Within(down', down, r) BY <1>0, WireWithin
  <2> QED BY <1>0, <1>1, <2>1, <2>2, <2>3, StagesKept
<1>6. UpChain(r)'
  <2>1. Moved(up', up, r) BY <1>1 DEF Moved
  <2> QED BY <1>0, <1>1, <1>2, <2>1, UpKept DEF Takes
<1>7. (Reads(r)' <=> Reads(r)) /\ Base(r)' = Base(r) /\ DownBroken' = DownBroken
  BY <1>1 DEF Reads, Base, DownBroken
<1>10. CASE r \notin entry
  <2>1. inbox' = inbox BY <1>10 DEF Resolve
  <2>2. DownChain(r)' BY <1>0, <1>1, <1>2, <1>7, <1>10, <2>1, DownKept
  <2> QED BY <1>5, <1>6, <2>2
<1>8. CASE ~Reads(r)
  <2>1. DownChain(r)' BY <1>0, <1>1, <1>2, <1>7, <1>8, DownKept
  <2> QED BY <1>5, <1>6, <2>1
<1>9. CASE Reads(r) /\ r \in entry
  <2>1. /\ handler[r] = "head" => received[r] = <<>>
        /\ Turn(inbox[r], Base(r), r, DownBroken)
        /\ InOrder(down, r, Resolved(r), made[r], DownBroken)
        /\ sessionUp /\ made[r] <= End => AllOf(down, r, Resolved(r), made[r])
    BY <1>0, <1>9, Zenon DEF DownChain
  <2>2. inbox'[r] = Append(inbox[r], part) BY <1>4, <1>9 DEF Reads
  <2>3. /\ Resolved(r) \in Nat /\ made[r] \in Nat /\ made[r] <= Stopped /\ Base(r) \in Nat
        /\ inbox[r] \in Seq(Part) /\ Len(inbox[r]) \in Nat
    BY <1>0, Sizes
  <2>4. InOrder(down, r, Resolved(r), made[r], DownBroken) BY <2>1
  <2>5. /\ Resolved(r) <= part /\ part < made[r]
        /\ part = Resolved(r) \/ Jumps(part, Resolved(r), r, DownBroken)
        /\ part = Error => Resolved(r) = 0
        /\ part \notin Last =>
              /\ InOrder(Tail(down), r, Resolved(r) + 1, made[r], DownBroken)
              /\ AllOf(down, r, Resolved(r), made[r]) => AllOf(Tail(down), r, Resolved(r) + 1, made[r])
        /\ part \in Last => Absent(Tail(down), r)
    BY <1>0, <1>3, <2>3, <2>4, TailOwn
  <2>6. Resolved(r) # Stopped BY <2>3, <2>5
  <2>7. ~Over(inbox[r]) /\ Resolved(r) = Base(r) + Len(inbox[r]) BY <2>6 DEF Resolved, After
  <2>8. /\ Turn(Append(inbox[r], part), Base(r), r, DownBroken)
        /\ After(Append(inbox[r], part), Base(r)) = IF part \in Last THEN Stopped ELSE Base(r) + Len(inbox[r]) + 1
    <3>1. /\ part = Base(r) + Len(inbox[r]) \/ Jumps(part, Base(r) + Len(inbox[r]), r, DownBroken)
          /\ part = Error => Base(r) + Len(inbox[r]) = 0
      BY <2>5, <2>7
    <3>2. Turn(inbox[r], Base(r), r, DownBroken) BY <2>1
    <3> QED BY <2>3, <2>7, <3>1, <3>2, TurnAppend
  <2>9. Resolved(r)' = IF part \in Last THEN Stopped ELSE Resolved(r) + 1
    BY <1>7, <2>2, <2>7, <2>8 DEF Resolved
  <2>10. Turn(inbox'[r], Base(r)', r, DownBroken') BY <1>7, <2>2, <2>8
  <2>11. \A i \in 1..Len(received'[r]) : received'[r][i] = i BY <1>0, <1>1 DEF DownChain
  <2>12. r \in Ordinary /\ r \in eof' => Complete(received'[r]) \/ r \in failed' \/ ~sessionUp'
    <3>1. r \in Ordinary /\ r \in eof => Complete(received[r]) \/ r \in failed \/ ~sessionUp
      BY <1>0, Zenon DEF DownChain
    <3> QED BY <1>1, <1>2, <3>1, Zenon
  <2>13. ASSUME part \in Last PROVE DownChain(r)'
    <3>1. made'[r] > End /\ ~(made'[r] <= End) BY <1>1, <2>3, <2>5, <2>13 DEF Last
    <3>2. InOrder(down', r, Stopped, made[r], DownBroken) BY <1>0, <2>5, <2>13, AbsentFacts
    <3>3. Resolved(r)' = Stopped BY <2>9, <2>13
    <3> HIDE DEF Stopped, End
    <3> QED BY <1>1, <1>7, <2>1, <2>10, <2>11, <2>12, <3>1, <3>2, <3>3, Zenon DEF DownChain
  <2>14. ASSUME part \notin Last PROVE DownChain(r)'
    <3>1. part = Resolved(r) BY <2>5, <2>14 DEF Jumps, Last
    <3>2. Resolved(r)' = Resolved(r) + 1 BY <2>9, <2>14
    <3>3. Resolved(r)' # Stopped /\ Resolved(r)' <= made'[r] BY <1>1, <2>3, <2>5, <2>14, <3>1, <3>2 DEF Last
    <3>4. InOrder(down', r, Resolved(r)', made'[r], DownBroken') BY <1>0, <1>1, <1>7, <2>5, <2>14, <3>2
    <3>5. ASSUME sessionUp', made'[r] <= End PROVE AllOf(down', r, Resolved(r)', made'[r])
      <4>1. made[r] <= End /\ made' = made BY <1>1, <3>5
      <4>2. AllOf(down, r, Resolved(r), made[r]) BY <1>2, <2>1, <3>5, <4>1, Zenon
      <4> QED BY <1>0, <2>5, <2>14, <3>2, <4>1, <4>2
    <3> HIDE DEF Stopped, End
    <3> QED BY <1>1, <2>1, <2>10, <2>11, <2>12, <3>3, <3>4, <3>5, Zenon DEF DownChain
  <2> QED BY <1>5, <1>6, <2>13, <2>14
<1> QED BY <1>8, <1>9, <1>10

LEMMA SessionEnds ==
  ASSUME RelayInv, Types', NEW r \in Requests, SessionLost \/ FailStreams \/ FailOutbound
  PROVE  Stages(r)' /\ UpChain(r)' /\ DownChain(r)'
<1> USE DEF session, hub, browser, agent, container
<1>0. Types /\ Stages(r) /\ UpChain(r) /\ DownChain(r) /\ up \in Seq(Message) /\ down \in Seq(Message)
  BY DEF RelayInv, Types, ChannelTypes
<1>1. /\ UNCHANGED <<handler, fed, inbox, bdone, received, eof, left>>
      /\ UNCHANGED <<inflight, body, task, made, cdone, taken, failed>>
  BY DEF SessionLost, FailStreams, FailOutbound
<1>2. sessionUp' => sessionUp BY Zenon DEF SessionLost, FailStreams, FailOutbound
<1>3. entry' \subseteq entry BY DEF SessionLost, FailStreams, FailOutbound
<1>4. Takes(r)' => Takes(r) BY <1>1 DEF Takes
<1>5. Reads(r)' => Reads(r) BY <1>1 DEF Reads
<1>6. CASE SessionLost
  <2>0. ~sessionUp' BY <1>6, Zenon DEF SessionLost
  <2>1. up' = <<>> /\ entry' = entry BY <1>6 DEF SessionLost
  <2>2. \E k \in 0..Len(down) : down' = SubSeq(down, 1, k) BY <1>6 DEF SessionLost
  <2>3. Absent(up', r) /\ Within(up', up, r) BY <2>1 DEF Absent, Within
  <2>4. Within(down', down, r) BY <1>0, <2>2, WireWithin
  <2>5. Stages(r)' BY <1>0, <1>1, <2>1, <2>3, <2>4, StagesKept DEF Stages
  <2>6. UpChain(r)' BY <1>0, <1>1, <1>2, <1>4, <2>0, <2>3, UpKept
  <2>7. DownChain(r)' BY <1>0, <1>1, <1>2, <1>5, <2>0, <2>1, <2>2, DownKept
  <2> QED BY <2>5, <2>6, <2>7
<1>7. CASE FailStreams \/ FailOutbound
  <2>1. UNCHANGED <<up, down>> BY <1>7 DEF FailStreams, FailOutbound
  <2>2. Moved(up', up, r) /\ Moved(down', down, r) BY <2>1 DEF Moved
  <2>3. Within(up', up, r) /\ Within(down', down, r) BY <1>0, <2>2, WireWithin
  <2>4. Stages(r)' BY <1>0, <1>1, <1>3, <2>3, StagesKept DEF Stages
  <2>5. UpChain(r)' BY <1>0, <1>1, <1>2, <1>4, <2>2, UpKept
  <2>6. DownChain(r)' BY <1>0, <1>1, <1>2, <1>3, <1>5, <2>2, DownKept
  <2> QED BY <2>4, <2>5, <2>6
<1> QED BY <1>6, <1>7

(* A sender is taken out of the map by the one that waits, or when the     *)
(* session is lost.                                                        *)
LEMMA ServedNext ==
  ASSUME RelayInv, [Next]_vars, NEW r \in Requests
  PROVE  Served(r)'
<1> USE DEF session, hub, browser, agent, container
<1>0. Types /\ (handler[r] \in Waits => r \in entry \/ ~sessionUp) BY Zenon DEF RelayInv, Served
<1>1. ASSUME UNCHANGED sessionUp,
             handler'[r] \in Waits => r \in entry' \/ (handler[r] \in Waits /\ (r \in entry => r \in entry'))
      PROVE  Served(r)'
  BY <1>0, <1>1, Zenon DEF Served
<1>2. ASSUME ~sessionUp' PROVE Served(r)' BY <1>2, Zenon DEF Served
<1>3. ASSUME NEW x \in Requests, Request(x) \/ GetOutbound(x) PROVE Served(r)'
  <2>1. UNCHANGED sessionUp BY <1>3, Zenon DEF Request, GetOutbound
  <2>2. handler'[r] \in Waits => r \in entry' \/ (handler[r] \in Waits /\ (r \in entry => r \in entry'))
    BY <1>0, <1>3 DEF Request, GetOutbound, Handle, Waits, Listening, Types, PlaceTypes
  <2> QED BY <1>1, <2>1, <2>2
<1>4. ASSUME NEW x \in Requests,
             \/ FeedHead(x) \/ FeedChunk(x) \/ FeedEnd(x) \/ WriteBrowser(x) \/ BrowserCloses(x)
             \/ AgentStep(x) \/ ProxyFails(x) \/ Respond(x) \/ ResponseChunk(x) \/ ResponseEnd(x)
             \/ SwitchFails(x) \/ TakeBody(x) \/ ContainerCloses(x)
      PROVE  Served(r)'
  <2> USE DEF FeedHead, FeedChunk, FeedEnd, Feed, WriteBrowser, BrowserCloses, AgentStep, PumpReadEnd,
              PumpDone, ProxyFails, Respond, ResponseChunk, ResponseEnd, SwitchFails, TakeBody,
              ContainerCloses, Reply
  <2>1. UNCHANGED <<sessionUp, handler, entry>> BY <1>4, Zenon
  <2> QED BY <1>1, <2>1, Zenon
<1>5. ASSUME NEW x \in Requests, FeedStops(x) PROVE Served(r)'
  <2>1. ~sessionUp' BY <1>5, Zenon DEF FeedStops
  <2> QED BY <1>2, <2>1
<1>6. ASSUME NEW x \in Requests,
             \/ TakeHead(x) \/ HeadUnusable(x) \/ HeadClosed(x) \/ BodyChunk(x) \/ BodyClosed(x)
             \/ PumpEnds(x) \/ UpgradeFails(x) \/ BrowserLeaves(x)
      PROVE  Served(r)'
  <2>1. UNCHANGED <<sessionUp, entry>>
    BY <1>6, Zenon DEF TakeHead, HeadUnusable, HeadClosed, BodyChunk, BodyClosed, PumpEnds, UpgradeFails,
       BrowserLeaves
  <2>2. handler[x] \in Waits
    BY <1>6 DEF TakeHead, HeadUnusable, HeadClosed, BodyChunk, BodyClosed, PumpEnds, UpgradeFails,
       BrowserLeaves, Waits, Listening
  <2>3. handler'[r] = handler[r] \/ r = x
    <3>1. UNCHANGED handler \/ \E h : handler' = [handler EXCEPT ![x] = h]
      BY <1>6 DEF TakeHead, HeadUnusable, HeadClosed, BodyChunk, BodyClosed, PumpEnds, UpgradeFails,
         BrowserLeaves, Handle
    <3> QED BY <1>0, <3>1 DEF Types, PlaceTypes
  <2> QED BY <1>1, <2>1, <2>2, <2>3, Zenon
<1>7. ASSUME NEW x \in Requests, EndStream(x) PROVE Served(r)'
  <2>1. UNCHANGED sessionUp BY <1>7, Zenon DEF EndStream
  <2>2. handler'[r] \in Waits => handler[r] \in Waits /\ (r \in entry => r \in entry')
    BY <1>0, <1>7 DEF EndStream, Handle, Waits, Listening, Types, PlaceTypes
  <2> QED BY <1>1, <2>1, <2>2
<1>8. CASE Route \/ Resolve \/ FailOutbound \/ UNCHANGED vars
  <2>1. UNCHANGED <<sessionUp, handler, entry>> BY <1>8, Zenon DEF Route, Resolve, FailOutbound, vars
  <2> QED BY <1>1, <2>1, Zenon
<1>9. CASE SessionLost \/ FailStreams
  <2>1. ~sessionUp' BY <1>9, Zenon DEF SessionLost, FailStreams
  <2> QED BY <1>2, <2>1
<1>10. CASE UNCHANGED vars BY <1>8, <1>10
<1>11. CASE Next
  <2>1. ASSUME NEW x \in Requests, HubStep(x) PROVE Served(r)'
    BY <1>3, <1>4, <1>5, <1>6, <1>7, <2>1, Zenon DEF HubStep
  <2> QED BY <1>3, <1>4, <1>6, <1>8, <1>9, <1>11, <2>1, Zenon DEF Next
<1> QED BY <1>10, <1>11

-----------------------------------------------------------------------------
LEMMA RelayInit == Init => RelayInv
<1> SUFFICES ASSUME Init PROVE RelayInv OBVIOUS
<1>1. <<>> \in Seq(Message) /\ <<>> \in Seq(Part) /\ Len(<<>>) = 0 OBVIOUS
<1>2. ChannelTypes
  <2>1. /\ up = <<>> /\ down = <<>>
        /\ inbox = [r \in Requests |-> <<>>] /\ body = [r \in Requests |-> <<>>]
        /\ received = [r \in Requests |-> <<>>] /\ taken = [r \in Requests |-> <<>>]
    BY DEF Init
  <2> QED BY <1>1, <2>1 DEF ChannelTypes
<1>3. PlaceTypes /\ Kinds BY DEF Init, PlaceTypes, Kinds, Receiving
<1>4. ASSUME NEW r \in Requests PROVE Served(r) /\ Stages(r) /\ UpChain(r) /\ DownChain(r)
  <2>1. /\ handler[r] = "idle" /\ task[r] = "none" /\ fed[r] = Stopped /\ made[r] = Headers
        /\ inbox[r] = <<>> /\ received[r] = <<>> /\ body[r] = <<>> /\ taken[r] = <<>>
        /\ up = <<>> /\ down = <<>> /\ entry = {} /\ bdone = {} /\ cdone = {} /\ eof = {}
    BY DEF Init
  <2>2. Absent(<<>>, r) BY DEF Absent
  <2>3. Stages(r)
    <3>1. Stopped # Headers OBVIOUS
    <3> HIDE DEF Headers, End, Error, Stopped
    <3> QED BY <2>1, <2>2, <3>1 DEF Stages, Receiving
  <2>4. UpChain(r)
    <3>1. Routed(r) = 0 /\ Fed(r) = End + 1 BY <2>1 DEF Routed, Fed
    <3>2. Turn(<<>>, 1, r, UpBroken) /\ Turn(<<>>, Len(<<>>) + 1, r, UpBroken) BY TurnEmpty
    <3>3. InOrder(<<>>, r, Routed(r), Fed(r), UpBroken) BY <2>2, AbsentFacts
    <3>4. Routed(r) # Stopped /\ Routed(r) <= Fed(r) BY <3>1
    <3> HIDE DEF Stopped
    <3> QED BY <2>1, <3>2, <3>3, <3>4, Zenon DEF UpChain
  <2>5. DownChain(r)
    <3>1. ~Reads(r) BY <2>1 DEF Reads, Listening
    <3>2. \A i \in 1..Len(received[r]) : received[r][i] = i BY <2>1
    <3> QED BY <2>1, <3>1, <3>2, Zenon DEF DownChain
  <2>6. Served(r) BY <2>1 DEF Served, Waits, Listening
  <2> QED BY <2>3, <2>4, <2>5, <2>6
<1> QED BY <1>2, <1>3, <1>4 DEF RelayInv, Types

LEMMA RelayNext == RelayInv /\ [Next]_vars => RelayInv'
<1> SUFFICES ASSUME RelayInv, [Next]_vars PROVE RelayInv' OBVIOUS
<1>0. \A r \in Requests : Served(r)' BY ServedNext
<1>1. ASSUME NEW r \in Requests,
             \/ Request(r) \/ HubStep(r) \/ HeadUnusable(r)
             \/ UpgradeFails(r) \/ BrowserCloses(r) \/ BrowserLeaves(r)
      PROVE  RelayInv'
  <2>1. Types' BY <1>1, HubTypes
  <2>2. \A x \in Requests : x # r => Stages(x)' /\ UpChain(x)' /\ DownChain(x)' BY <1>1, <2>1, HubOthers
  <2>3. Stages(r)' /\ UpChain(r)' /\ DownChain(r)'
    BY <1>1, <2>1, RequestOwn, FeedOwn, FeedStopsOwn, HubOwn DEF HubStep
  <2> QED BY <1>0, <2>1, <2>2, <2>3, Zenon DEF RelayInv
<1>2. ASSUME NEW r \in Requests,
             \/ AgentStep(r) \/ ProxyFails(r) \/ Respond(r) \/ ResponseChunk(r) \/ ResponseEnd(r)
             \/ SwitchFails(r) \/ TakeBody(r) \/ ContainerCloses(r)
      PROVE  RelayInv'
  <2>1. Types' BY <1>2, AgentTypes
  <2>2. \A x \in Requests : x # r => Stages(x)' /\ UpChain(x)' /\ DownChain(x)' BY <1>2, <2>1, AgentOthers
  <2>3. Stages(r)' /\ UpChain(r)' /\ DownChain(r)' BY <1>2, <2>1, ReplyOwn, AgentOwn DEF AgentStep
  <2> QED BY <1>0, <2>1, <2>2, <2>3, Zenon DEF RelayInv
<1>3. CASE Route \/ Resolve
  <2>1. Types' BY <1>3, SessionTypes
  <2>2. PICK r \in Requests : (Route /\ Head(up)[1] = r) \/ (Resolve /\ Head(down)[1] = r)
    <3>1. up \in Seq(Message) /\ down \in Seq(Message) BY DEF RelayInv, Types, ChannelTypes
    <3>2. Route => up # <<>> /\ Head(up) \in Message BY <3>1, Queued DEF Route
    <3>3. Resolve => down # <<>> /\ Head(down) \in Message BY <3>1, Queued DEF Resolve
    <3> QED BY <1>3, <3>2, <3>3 DEF Message
  <2>3. \A x \in Requests : x # r => Stages(x)' /\ UpChain(x)' /\ DownChain(x)' BY <2>1, <2>2, WireOthers
  <2>4. Stages(r)' /\ UpChain(r)' /\ DownChain(r)' BY <2>1, <2>2, RouteOwn, ResolveOwn
  <2> QED BY <1>0, <2>1, <2>3, <2>4, Zenon DEF RelayInv
<1>4. CASE SessionLost \/ FailStreams \/ FailOutbound
  <2>1. Types' BY <1>4, SessionTypes
  <2> QED BY <1>0, <1>4, <2>1, SessionEnds, Zenon DEF RelayInv
<1>5. CASE UNCHANGED vars
  <2> USE DEF vars, session, hub, browser, agent, container
  <2>1. /\ UNCHANGED <<up, down, handler, fed, entry, inbox, bdone, received, eof, left, bclosed>>
        /\ UNCHANGED <<inflight, body, task, made, cdone, taken, switched, cclosed, failed>>
    BY <1>5
  <2>2. UNCHANGED sessionUp BY <1>5, Zenon
  <2>3. Types' BY <2>1 DEF RelayInv, Types, ChannelTypes, PlaceTypes, Kinds
  <2>4. ASSUME NEW r \in Requests PROVE Stages(r)' /\ UpChain(r)' /\ DownChain(r)'
    <3>1. Moved(up', up, r) /\ Moved(down', down, r) BY <2>1 DEF Moved
    <3>2. Elsewhere(r) BY <2>1 DEF Elsewhere
    <3> QED BY <2>2, <2>3, <3>1, <3>2, ElsewhereKept
  <2> QED BY <1>0, <2>3, <2>4, Zenon DEF RelayInv
<1> QED BY <1>1, <1>2, <1>3, <1>4, <1>5, Zenon DEF Next

(* Along every run the parts of each body stand in order behind one        *)
(* another, from what the receiving end has to what its sender has sent.   *)
THEOREM RelayInvariant == Spec => []RelayInv
BY RelayInit, RelayNext, PTL DEF Spec

(* Channels never hold more than their capacities, and a request's state at *)
(* the hub and at the agent is one the code knows.                          *)
THEOREM TypeCorrect == Spec => []TypeOK
<1> DEFINE Link == sessionUp \in BOOLEAN /\ link \in {"open", "cleared", "dead"}
<1>1. Init => Link BY DEF Init
<1>2. Link /\ [Next]_vars => Link'
  <2> SUFFICES ASSUME Link, [Next]_vars PROVE Link' OBVIOUS
  <2>1. /\ UNCHANGED sessionUp \/ sessionUp' = FALSE
        /\ UNCHANGED link \/ link' = "cleared" \/ link' = "dead"
    <3> USE DEF session, vars
    <3>1. ASSUME NEW r \in Requests, Request(r) \/ HubStep(r) \/ HeadUnusable(r)
          PROVE  UNCHANGED <<sessionUp, link>>
      BY <3>1, Zenon DEF Request, HubStep, GetOutbound, FeedHead, FeedChunk, FeedEnd, Feed, FeedStops,
         TakeHead, HeadUnusable, HeadClosed, BodyChunk, BodyClosed, EndStream, WriteBrowser, PumpEnds
    <3>2. ASSUME NEW r \in Requests,
                 \/ UpgradeFails(r) \/ BrowserCloses(r) \/ BrowserLeaves(r) \/ AgentStep(r)
                 \/ ProxyFails(r) \/ Respond(r) \/ ResponseChunk(r) \/ ResponseEnd(r)
                 \/ SwitchFails(r) \/ TakeBody(r) \/ ContainerCloses(r)
          PROVE  UNCHANGED <<sessionUp, link>>
      BY <3>2, Zenon DEF UpgradeFails, BrowserCloses, BrowserLeaves, AgentStep, PumpReadEnd, PumpDone,
         ProxyFails, Respond, ResponseChunk, ResponseEnd, SwitchFails, TakeBody, ContainerCloses, Reply
    <3>3. CASE Route \/ Resolve \/ SessionLost \/ FailStreams \/ FailOutbound
      BY <3>3, Zenon DEF Route, Resolve, SessionLost, FailStreams, FailOutbound
    <3> QED BY <3>1, <3>2, <3>3, Zenon DEF Next
  <2> QED BY <2>1, Zenon
<1> HIDE DEF Link
<1>3. RelayInv /\ Link => TypeOK
  <2> SUFFICES ASSUME RelayInv, Link PROVE TypeOK OBVIOUS
  <2>1. ChannelTypes /\ PlaceTypes BY DEF RelayInv, Types
  <2>2. ASSUME NEW q \in {up, down}
        PROVE  Len(q) <= SessionCap /\ \A i \in 1..Len(q) : q[i] \in Requests \X (0..Error)
    <3>1. q \in Seq(Message) /\ Len(q) <= SessionCap BY <2>1 DEF ChannelTypes
    <3>2. \A i \in 1..Len(q) : q[i] \in Message BY <3>1
    <3> QED BY <3>1, <3>2 DEF Message
  <2>3. ASSUME NEW r \in Requests
        PROVE  /\ handler[r] \in {"idle", "insert", "head", "body", "pump", "ending", "done", "abandoned"}
               /\ task[r] \in Receiving \cup {"none", "gone"}
               /\ fed[r] \in 0..Stopped /\ made[r] \in 0..Stopped
               /\ Len(inbox[r]) <= Cap /\ Len(body[r]) <= Cap
    BY <2>1 DEF ChannelTypes, PlaceTypes
  <2>4. entry \subseteq Requests /\ inflight \subseteq Requests BY <2>1 DEF PlaceTypes
  <2> HIDE DEF Stopped, Error
  <2> QED BY <2>2, <2>3, <2>4, Zenon DEF TypeOK, Link
<1> QED BY <1>1, <1>2, <1>3, RelayInvariant, PTL DEF Spec

(* A request that is over leaves no sender in the link's streams map.       *)
THEOREM EntriesStayAccounted == Spec => []EntriesAccounted
<1>1. RelayInv => EntriesAccounted
  <2> SUFFICES ASSUME RelayInv, NEW r \in entry
               PROVE  handler[r] \in Listening \cup {"insert", "ending", "abandoned"}
    BY DEF EntriesAccounted
  <2>1. Types /\ r \in Requests BY DEF RelayInv, Types, PlaceTypes
  <2>2. Stages(r) BY <2>1 DEF RelayInv
  <2>3. handler[r] \notin {"idle", "done"} BY <2>2, Zenon DEF Stages
  <2> QED BY <2>1, <2>3 DEF Types, PlaceTypes, Listening
<1> QED BY <1>1, RelayInvariant, PTL

(* What the browser and the container get is a prefix of what the other one *)
(* sent, and an end they see is the end of the whole body unless the        *)
(* container, the session or the browser failed.                            *)
THEOREM BodiesAreFaithful == Spec => []BodiesFaithful
<1>1. ASSUME RelayInv, NEW r \in Requests
      PROVE  /\ InTurn(received[r]) /\ InTurn(taken[r])
             /\ r \in Ordinary /\ (\E i \in 1..Len(taken[r]) : taken[r][i] = End) =>
                   Complete(taken[r]) \/ r \in left
  <2>1. Types /\ UpChain(r) /\ DownChain(r) BY <1>1 DEF RelayInv
  <2>2. InTurn(received[r]) BY <2>1 DEF DownChain, InTurn
  <2>3. taken[r] \in Seq(Part) /\ Len(taken[r]) \in Nat BY <2>1, Sizes
  <2>4. PICK s \in Seq(Part) : s = taken[r] /\ Len(s) \in Nat BY <2>3
  <2>5. \A i \in 1..Len(s) :
           /\ s[i] = i \/ (s[i] = End /\ r \in UpBroken)
           /\ s[i] = End => i = Len(s)
    <3>1. Turn(s, 1, r, UpBroken) BY <2>1, <2>4 DEF UpChain
    <3> SUFFICES ASSUME NEW i \in 1..Len(s)
                 PROVE  (s[i] = i \/ (s[i] = End /\ r \in UpBroken)) /\ (s[i] = End => i = Len(s))
      OBVIOUS
    <3>2. 1 + i - 1 = i /\ i # 0 BY <2>4
    <3>3. /\ s[i] = 1 + i - 1 \/ Jumps(s[i], 1 + i - 1, r, UpBroken)
          /\ s[i] = Error => 1 + i - 1 = 0
          /\ s[i] \in Last => i = Len(s)
      BY <3>1 DEF Turn
    <3> QED BY <3>2, <3>3 DEF Jumps, Last
  <2>6. InTurn(s) BY <2>5 DEF InTurn
  <2>7. ASSUME r \in Ordinary, NEW i \in 1..Len(s), s[i] = End, r \notin left PROVE Complete(s)
    <3>1. r \notin UpBroken BY <2>7 DEF UpBroken
    <3>2. i = Chunks + 1 /\ i = Len(s) BY <2>5, <2>7, <3>1
    <3>3. \A c \in 1..Chunks : c \in 1..Len(s) /\ s[c] = c BY <2>4, <2>5, <3>1, <3>2
    <3> QED BY <3>3 DEF Complete
  <2> QED BY <2>2, <2>4, <2>6, <2>7
<1>2. ASSUME RelayInv, NEW r \in Ordinary, r \in eof
      PROVE  Complete(received[r]) \/ r \in failed \/ ~sessionUp
  <2>1. DownChain(r) BY <1>2 DEF RelayInv, Requests
  <2> QED BY <1>2, <2>1, Zenon DEF DownChain
<1>3. RelayInv => BodiesFaithful
  <2> SUFFICES ASSUME RelayInv PROVE BodiesFaithful OBVIOUS
  <2>1. ChunksInTurn BY <1>1 DEF ChunksInTurn
  <2>2. \A r \in Ordinary : r \in Requests BY DEF Requests
  <2> HIDE DEF End
  <2>3. EndsAreHonest BY <1>1, <1>2, <2>2, Zenon DEF EndsAreHonest
  <2> QED BY <2>1, <2>3 DEF BodiesFaithful
<1> QED BY <1>3, RelayInvariant, PTL
=============================================================================
