------------------------ MODULE DeploymentLogsProofs ------------------------
(***************************************************************************)
(* Proofs about DeploymentLogs: run.log outgrows the limit it is rotated   *)
(* by by less than a chunk and what errors left uncounted, and a reader    *)
(* that joins the files to what is still being pumped misses nothing, for  *)
(* any number of pumps and readers.                                        *)
(***************************************************************************)
EXTENDS DeploymentLogs, TLAPS

ReaderState ==
    [pc : {"idle", "old", "current", "live", "done"}, kind : {"install", "run"},
     open : BOOLEAN, live : BOOLEAN, queue : Seq(Nat),
     seen : SUBSET Nat, due : SUBSET Nat, excused : BOOLEAN]

DataTypes ==
    /\ lines \in Nat /\ first \in Nat /\ next \in [Tasks -> Nat]
    /\ wire \in [Tasks -> Seq(Nat)] /\ chunk \in [Tasks -> Nat]
    /\ stage \in [Tasks -> {"start", "run"}] /\ registry \in Tasks \cup {None}
    /\ written \in [Tasks -> Nat] /\ fileOpen \in [Tasks -> BOOLEAN]
    /\ install \in Seq(Nat) /\ run \in Seq(Nat) /\ old \in Seq(Nat)
    /\ size \in Nat /\ oldSize \in Nat /\ uncounted \in Nat

LogTypes == DataTypes /\ reader \in [Readers -> ReaderState]

(* bytes_written of the registered pump, by which run.log is rotated, is    *)
(* never more than its length and short of it by no more than errors left   *)
(* uncounted: the pumps write the file one after the other, and each takes  *)
(* its length over when it opens it.                                        *)
FileInv ==
    /\ RunLogBounded
    /\ \A t \in Tasks : registry = t /\ stage[t] = "run" /\ fileOpen[t] =>
          written[t] <= size /\ size <= written[t] + uncounted

(* What is still to come to a reader x, from its receiver and from disk.    *)
Pending(x) == Range(x.queue) \ {Final}
Unread(x) == CASE x.pc = "old" -> Range(old) \cup Range(run)
               [] x.pc = "current" /\ x.kind = "run" -> Range(run)
               [] x.pc = "current" /\ x.kind # "run" -> Range(install)
               [] OTHER -> {}

Caught(x) == ~x.excused => x.due \subseteq x.seen \cup Pending(x) \cup Unread(x)

(* A receiver is there only while the reader reads, and only a reader that  *)
(* subscribed has one.                                                      *)
Shape(x) ==
    /\ x.pc = "old" => x.kind = "run"
    /\ x.open => x.live /\ x.pc \notin {"idle", "done"}
    /\ ~x.live \/ x.pc \in {"idle", "done"} => x.queue = <<>>
    /\ Len(x.queue) <= Lag

ReaderInv == \A r \in Readers : Shape(reader[r]) /\ Caught(reader[r])

LogInv == LogTypes /\ FileInv /\ ReaderInv

USE LogAssumption

\* The bounds are numbers
LEMMA Bounds ==
  /\ InstallLines \in Nat /\ MaxLines \in Nat /\ TailLines \in Nat /\ MaxFaults \in Nat
  /\ RotateAt \in Nat \ {0} /\ MaxChunk \in Nat \ {0} /\ Lag \in Nat \ {0}
  /\ None \notin Tasks
<1>1. \A n \in {InstallLines, MaxLines, TailLines, MaxFaults} : n \in Nat BY LogAssumption
<1>2. \A n \in {RotateAt, MaxChunk, Lag, Room} : n \in Nat \ {0} BY LogAssumption
<1> QED BY <1>1, <1>2
-----------------------------------------------------------------------------
(* Chunks in sequences *)

\* What an append adds
LEMMA RangeAppend ==
  ASSUME NEW s \in Seq(Nat), NEW c \in Nat
  PROVE  /\ Append(s, c) \in Seq(Nat) /\ Len(Append(s, c)) = Len(s) + 1
         /\ Range(Append(s, c)) = Range(s) \cup {c}
<1>1. Append(s, c) \in Seq(Nat) /\ Len(Append(s, c)) = Len(s) + 1 /\ Len(s) \in Nat OBVIOUS
<1>2. \A i \in 1..Len(s) : Append(s, c)[i] = s[i] /\ i \in 1..Len(s) + 1 BY <1>1
<1>3. Append(s, c)[Len(s) + 1] = c /\ Len(s) + 1 \in 1..Len(s) + 1 BY <1>1
<1>4. \A i \in 1..Len(s) + 1 : i \in 1..Len(s) \/ i = Len(s) + 1 BY <1>1
<1>5. DOMAIN s = 1..Len(s) /\ DOMAIN Append(s, c) = 1..Len(s) + 1 BY <1>1
<1>6. ASSUME NEW x \in Range(Append(s, c)) PROVE x \in Range(s) \cup {c}
  <2>1. PICK i \in 1..Len(s) + 1 : Append(s, c)[i] = x BY <1>5 DEF Range
  <2> QED BY <1>2, <1>3, <1>4, <1>5, <2>1, Zenon DEF Range
<1>7. ASSUME NEW x \in Range(s) PROVE x \in Range(Append(s, c))
  <2>1. PICK i \in 1..Len(s) : s[i] = x BY <1>5 DEF Range
  <2> QED BY <1>2, <1>5, <2>1, Zenon DEF Range
<1>8. c \in Range(Append(s, c)) BY <1>3, <1>5, Zenon DEF Range
<1> QED BY <1>1, <1>6, <1>7, <1>8

\* What a concatenation holds
LEMMA RangeConcat ==
  ASSUME NEW s \in Seq(Nat), NEW t \in Seq(Nat)
  PROVE  /\ s \o t \in Seq(Nat) /\ Len(s \o t) = Len(s) + Len(t)
         /\ Range(s \o t) = Range(s) \cup Range(t)
<1>1. s \o t \in Seq(Nat) /\ Len(s \o t) = Len(s) + Len(t) OBVIOUS
<1>2. \A i \in 1..Len(s) : (s \o t)[i] = s[i] /\ i \in 1..Len(s \o t) BY <1>1
<1>3. \A i \in 1..Len(t) : (s \o t)[Len(s) + i] = t[i] /\ Len(s) + i \in 1..Len(s \o t) BY <1>1
<1>4. \A i \in 1..Len(s \o t) : i \in 1..Len(s) \/ \E j \in 1..Len(t) : i = Len(s) + j
  <2> TAKE i \in 1..Len(s \o t)
  <2>1. CASE i <= Len(s) BY <2>1
  <2>2. CASE i > Len(s)
    <3>1. i - Len(s) \in 1..Len(t) /\ i = Len(s) + (i - Len(s)) BY <1>1, <2>2
    <3> QED BY <3>1
  <2> QED BY <1>1, <2>1, <2>2
<1>5. /\ DOMAIN s = 1..Len(s) /\ DOMAIN t = 1..Len(t) /\ DOMAIN (s \o t) = 1..Len(s \o t)
  BY <1>1
<1>6. ASSUME NEW x \in Range(s \o t) PROVE x \in Range(s) \cup Range(t)
  <2>1. PICK i \in 1..Len(s \o t) : (s \o t)[i] = x BY <1>5, Zenon DEF Range
  <2>2. CASE i \in 1..Len(s) BY <1>2, <1>5, <2>1, <2>2, Zenon DEF Range
  <2>3. CASE \E j \in 1..Len(t) : i = Len(s) + j BY <1>3, <1>5, <2>1, <2>3, Zenon DEF Range
  <2> QED BY <1>4, <2>2, <2>3
<1>7. ASSUME NEW x \in Range(s) PROVE x \in Range(s \o t)
  <2>1. PICK i \in 1..Len(s) : s[i] = x BY <1>5, Zenon DEF Range
  <2> QED BY <1>2, <1>5, <2>1, Zenon DEF Range
<1>8. ASSUME NEW x \in Range(t) PROVE x \in Range(s \o t)
  <2>1. PICK i \in 1..Len(t) : t[i] = x BY <1>5, Zenon DEF Range
  <2> QED BY <1>3, <1>5, <2>1, Zenon DEF Range
<1> QED BY <1>1, <1>6, <1>7, <1>8

\* What the first of a queue leaves behind
LEMMA RangeTail ==
  ASSUME NEW s \in Seq(Nat), s # <<>>
  PROVE  /\ Head(s) \in Nat /\ Tail(s) \in Seq(Nat) /\ Len(Tail(s)) = Len(s) - 1
         /\ Range(s) = {Head(s)} \cup Range(Tail(s))
<1>1. /\ Head(s) \in Nat /\ Tail(s) \in Seq(Nat) /\ Len(Tail(s)) = Len(s) - 1
      /\ Head(s) = s[1] /\ Len(s) \in Nat \ {0}
  OBVIOUS
<1>2. \A i \in 1..Len(Tail(s)) : Tail(s)[i] = s[i + 1] /\ i + 1 \in 1..Len(s) BY <1>1
<1>3. \A i \in 1..Len(s) : i = 1 \/ \E j \in 1..Len(Tail(s)) : i = j + 1
  <2> TAKE i \in 1..Len(s)
  <2>1. CASE i = 1 BY <2>1
  <2>2. CASE i # 1
    <3>1. i - 1 \in 1..Len(Tail(s)) /\ i = (i - 1) + 1 BY <1>1, <2>2
    <3> QED BY <3>1
  <2> QED BY <2>1, <2>2
<1>4. DOMAIN s = 1..Len(s) /\ DOMAIN Tail(s) = 1..Len(Tail(s)) BY <1>1
<1>5. ASSUME NEW x \in Range(s) PROVE x = Head(s) \/ x \in Range(Tail(s))
  <2>1. PICK i \in 1..Len(s) : s[i] = x BY <1>4, Zenon DEF Range
  <2>2. CASE i = 1 BY <1>1, <2>1, <2>2
  <2>3. CASE \E j \in 1..Len(Tail(s)) : i = j + 1 BY <1>2, <1>4, <2>1, <2>3, Zenon DEF Range
  <2> QED BY <1>3, <2>2, <2>3
<1>6. ASSUME NEW x \in Range(Tail(s)) PROVE x \in Range(s)
  <2>1. PICK i \in 1..Len(Tail(s)) : Tail(s)[i] = x BY <1>4, Zenon DEF Range
  <2> QED BY <1>2, <1>4, <2>1, Zenon DEF Range
<1>7. Head(s) \in Range(s)
  <2>1. 1 \in 1..Len(s) BY <1>1
  <2> QED BY <1>1, <1>4, <2>1, Zenon DEF Range
<1> QED BY <1>1, <1>5, <1>6, <1>7

\* Chunks are numbers
LEMMA RangeNat == ASSUME NEW s \in Seq(Nat) PROVE Range(s) \subseteq Nat
<1>1. DOMAIN s = 1..Len(s) /\ \A i \in 1..Len(s) : s[i] \in Nat OBVIOUS
<1> QED BY <1>1, Zenon DEF Range

\* The empty sequence
LEMMA RangeEmpty == <<>> \in Seq(Nat) /\ Len(<<>>) = 0 /\ Range(<<>>) = {}
  BY DEF Range

\* What a push puts into the files and promises to readers
LEMMA PayloadFacts ==
  ASSUME NEW c \in Nat
  PROVE  Payload(c) \in Seq(Nat) /\ Range(Payload(c)) = {c} \ {Final}
  BY RangeEmpty DEF Payload, Range

\* The size of a chunk is bounded
LEMMA SizeFacts ==
  ASSUME NEW c, NEW n \in Sizes(c)
  PROVE  n \in Nat /\ n <= MaxChunk
  BY Bounds DEF Sizes

-----------------------------------------------------------------------------
(* Files *)

\* What a reader has still to read only grows when the files do
LEMMA UnreadGrows ==
  ASSUME NEW x, Range(run) \subseteq Range(run'), Range(old) \subseteq Range(old'),
         Range(install) \subseteq Range(install')
  PROVE  Unread(x) \subseteq Unread(x)'
  BY DEF Unread

\* The invariant of the readers holds when it holds of each one's next state
LEMMA EachReader ==
  ASSUME DOMAIN reader' = Readers,
         \A r \in Readers : \E y \in ReaderState : reader'[r] = y /\ Shape(y) /\ Caught(y)',
         reader' = [r \in Readers |-> reader'[r]]
  PROVE  reader' \in [Readers -> ReaderState] /\ ReaderInv'
<1>1. ASSUME NEW r \in Readers
      PROVE  reader'[r] \in ReaderState /\ Shape(reader'[r]) /\ Caught(reader[r])'
  <2>1. PICK y \in ReaderState : reader'[r] = y /\ Shape(y) /\ Caught(y)' OBVIOUS
  <2> QED BY <2>1 DEF Caught, Pending, Unread
<1> QED BY <1>1 DEF ReaderInv

\* An excused reader
LEMMA ExcusedOne ==
  ASSUME NEW x \in ReaderState, Shape(x)
  PROVE  LET y == [x EXCEPT !.excused = TRUE] IN y \in ReaderState /\ Shape(y) /\ Caught(y)'
<1> DEFINE y == [x EXCEPT !.excused = TRUE]
<1>1. /\ y.pc = x.pc /\ y.kind = x.kind /\ y.open = x.open /\ y.live = x.live
      /\ y.queue = x.queue /\ y.excused = TRUE
  BY DEF ReaderState
<1>2. y \in ReaderState BY DEF ReaderState
<1> HIDE DEF y
<1>3. Shape(y) BY <1>1 DEF Shape
<1>4. Caught(y)' BY <1>1 DEF Caught
<1> QED BY <1>2, <1>3, <1>4 DEF y

\* A reader that is excused when the files of a kind are rotated or truncated
\* while it reads them stays sound
LEMMA ReadersExcused ==
  ASSUME LogTypes, ReaderInv, NEW kind \in {"install", "run"}, reader' = Excuse(Reading(kind)),
         kind = "install" => run' = run /\ old' = old,
         kind = "run" => install' = install
  PROVE  reader' \in [Readers -> ReaderState] /\ ReaderInv'
<1>1. ASSUME NEW r \in Readers
      PROVE  \E y \in ReaderState : reader'[r] = y /\ Shape(y) /\ Caught(y)'
  <2>0. PICK x \in ReaderState : x = reader[r] BY DEF LogTypes
  <2>1. Shape(x) /\ Caught(x) BY <2>0 DEF ReaderInv
  <2>2. CASE r \in Reading(kind)
    <3>1. reader'[r] = [x EXCEPT !.excused = TRUE] BY <2>0, <2>2 DEF Excuse
    <3> QED BY <2>1, <3>1, ExcusedOne
  <2>3. CASE r \notin Reading(kind)
    <3>1. reader'[r] = x BY <2>0, <2>3 DEF Excuse
    <3>2. ~(x.pc \in {"old", "current"} /\ x.kind = kind) BY <2>0, <2>3 DEF Reading
    <3>3. x.pc = "old" => x.kind = "run" BY <2>1 DEF Shape
    <3>4. x.kind \in {"install", "run"} BY DEF ReaderState
    <3>5. Unread(x)' = Unread(x) BY <3>2, <3>3, <3>4 DEF Unread
    <3>6. Caught(x)' BY <2>1, <3>5 DEF Caught, Pending
    <3> QED BY <2>1, <3>1, <3>6
  <2> QED BY <2>2, <2>3
<1> QED BY <1>1, EachReader DEF Excuse

\* Readers that no step excuses stay sound while the files grow
LEMMA ReadersKept ==
  ASSUME LogTypes, ReaderInv, UNCHANGED reader,
         Range(run) \subseteq Range(run'), Range(old) \subseteq Range(old'),
         Range(install) \subseteq Range(install')
  PROVE  reader' \in [Readers -> ReaderState] /\ ReaderInv'
<1>1. ASSUME NEW r \in Readers
      PROVE  \E y \in ReaderState : reader'[r] = y /\ Shape(y) /\ Caught(y)'
  <2>0. PICK x \in ReaderState : x = reader[r] BY DEF LogTypes
  <2>1. Shape(x) /\ Caught(x) BY <2>0 DEF ReaderInv
  <2>2. Unread(x) \subseteq Unread(x)' BY UnreadGrows
  <2>3. Caught(x)' BY <2>1, <2>2 DEF Caught, Pending
  <2> QED BY <2>0, <2>1, <2>3
<1> QED BY <1>1, EachReader DEF LogTypes

-----------------------------------------------------------------------------
(* Readers *)

\* A broadcast reaches the queue of a receiver, or the reader has lagged
LEMMA DeliveredOne ==
  ASSUME NEW x \in ReaderState, Shape(x), Caught(x), x.open, NEW c \in Nat, UNCHANGED disk
  PROVE  LET y == [x EXCEPT !.queue = Deliver(@, c), !.due = @ \cup Range(Payload(c)),
                            !.excused = @ \/ Len(x.queue) = Lag]
         IN  y \in ReaderState /\ Shape(y) /\ Caught(y)'
<1> DEFINE y == [x EXCEPT !.queue = Deliver(@, c), !.due = @ \cup Range(Payload(c)),
                          !.excused = @ \/ Len(x.queue) = Lag]
<1>0. /\ x.queue \in Seq(Nat) /\ x.due \in SUBSET Nat /\ x.seen \in SUBSET Nat
      /\ x.pc \in {"idle", "old", "current", "live", "done"} /\ Len(x.queue) <= Lag
  BY DEF ReaderState, Shape
<1>1. /\ y.pc = x.pc /\ y.kind = x.kind /\ y.open = x.open /\ y.live = x.live
      /\ y.queue = Deliver(x.queue, c) /\ y.due = x.due \cup Range(Payload(c)) /\ y.seen = x.seen
  BY DEF ReaderState
<1>2. y.excused <=> (x.excused \/ Len(x.queue) = Lag) BY DEF ReaderState
<1>3. Range(Payload(c)) = {c} \ {Final} BY PayloadFacts
<1>4. Deliver(x.queue, c) \in Seq(Nat) /\ Len(Deliver(x.queue, c)) <= Lag
  <2>1. CASE Len(x.queue) < Lag BY <1>0, <2>1, RangeAppend DEF Deliver
  <2>2. CASE ~(Len(x.queue) < Lag)
    <3>1. x.queue # <<>> /\ Len(x.queue) = Lag BY <1>0, <2>2
    <3>2. Tail(x.queue) \in Seq(Nat) /\ Len(Tail(x.queue)) = Lag - 1 BY <1>0, <3>1, RangeTail
    <3> QED BY <2>2, <3>2, RangeAppend DEF Deliver
  <2> QED BY <2>1, <2>2
<1>5. y \in ReaderState
  <2>1. x.due \cup Range(Payload(c)) \in SUBSET Nat BY <1>0, <1>3
  <2>2. (x.excused \/ Len(x.queue) = Lag) \in BOOLEAN OBVIOUS
  <2> QED BY <1>4, <2>1, <2>2 DEF ReaderState
<1> HIDE DEF y
<1>6. Shape(y) BY <1>1, <1>4 DEF Shape
<1>7. Caught(y)'
  <2> SUFFICES ASSUME ~y.excused PROVE y.due \subseteq y.seen \cup Pending(y) \cup Unread(y)'
    BY DEF Caught, Pending
  <2>1. ~x.excused /\ Len(x.queue) < Lag BY <1>0, <1>2
  <2>2. Range(y.queue) = Range(x.queue) \cup {c} BY <1>0, <1>1, <2>1, RangeAppend DEF Deliver
  <2>3. x.due \subseteq x.seen \cup Pending(x) \cup Unread(x) BY <2>1 DEF Caught
  <2>4. Unread(y)' = Unread(x) BY <1>1 DEF Unread, disk
  <2> QED BY <1>1, <1>3, <2>2, <2>3, <2>4 DEF Pending
<1> QED BY <1>5, <1>6, <1>7 DEF y

\* Closing a channel leaves its receivers what is in their queues
LEMMA ClosedOne ==
  ASSUME NEW x \in ReaderState, Shape(x), Caught(x)'
  PROVE  LET y == [x EXCEPT !.open = FALSE] IN y \in ReaderState /\ Shape(y) /\ Caught(y)'
<1> DEFINE y == [x EXCEPT !.open = FALSE]
<1>1. /\ y.pc = x.pc /\ y.kind = x.kind /\ y.open = FALSE /\ y.live = x.live
      /\ y.queue = x.queue /\ y.due = x.due /\ y.seen = x.seen /\ y.excused = x.excused
  BY DEF ReaderState
<1>2. y \in ReaderState BY DEF ReaderState
<1> HIDE DEF y
<1>3. Shape(y) BY <1>1 DEF Shape
<1>4. Caught(y)' BY <1>1 DEF Caught, Pending, Unread
<1> QED BY <1>2, <1>3, <1>4 DEF y

\* What a broadcast makes of each reader
LEMMA BroadcastEach ==
  ASSUME LogTypes, ReaderInv, NEW c \in Nat, UNCHANGED disk, NEW r \in Readers
  PROVE  \E y \in ReaderState : Broadcast(c)[r] = y /\ Shape(y) /\ Caught(y)'
<1>0. PICK x \in ReaderState : x = reader[r] BY DEF LogTypes
<1>1. Shape(x) /\ Caught(x) BY <1>0 DEF ReaderInv
<1>2. CASE ~x.open
  <2>1. Broadcast(c)[r] = x BY <1>0, <1>2 DEF Broadcast
  <2>2. Caught(x)' BY <1>1 DEF Caught, Pending, Unread, disk
  <2> QED BY <1>1, <2>1, <2>2
<1>3. CASE x.open
  <2>1. Broadcast(c)[r] = [x EXCEPT !.queue = Deliver(@, c), !.due = @ \cup Range(Payload(c)),
                                    !.excused = @ \/ Len(x.queue) = Lag]
    BY <1>0, <1>3, Zenon DEF Broadcast
  <2> QED BY <1>1, <1>3, <2>1, DeliveredOne
<1> QED BY <1>2, <1>3

\* A broadcast, and the pump's end after its last chunk, keep the readers sound
LEMMA SendChunkReaders ==
  ASSUME LogTypes, ReaderInv, NEW t \in Tasks, SendChunk(t)
  PROVE  reader' \in [Readers -> ReaderState] /\ ReaderInv'
<1>1. chunk[t] \in Nat /\ UNCHANGED disk BY DEF SendChunk, LogTypes, DataTypes
<1>2. CASE reader' = Broadcast(chunk[t])
  BY <1>1, <1>2, BroadcastEach, EachReader DEF Broadcast
<1>3. CASE reader' = [r \in Readers |-> [Broadcast(chunk[t])[r] EXCEPT !.open = FALSE]]
  <2>1. ASSUME NEW r \in Readers
        PROVE  \E y \in ReaderState : reader'[r] = y /\ Shape(y) /\ Caught(y)'
    <3>1. PICK x \in ReaderState : Broadcast(chunk[t])[r] = x /\ Shape(x) /\ Caught(x)'
      BY <1>1, BroadcastEach
    <3>2. reader'[r] = [x EXCEPT !.open = FALSE] BY <1>3, <3>1
    <3> QED BY <3>1, <3>2, ClosedOne
  <2> QED BY <1>3, <2>1, EachReader
<1> QED BY <1>2, <1>3, Zenon DEF SendChunk, DropPump

\* The end of a stream keeps the readers sound
LEMMA StreamOverReaders ==
  ASSUME LogTypes, ReaderInv, NEW t \in Tasks, StreamOver(t)
  PROVE  reader' \in [Readers -> ReaderState] /\ ReaderInv'
<1>1. UNCHANGED disk BY DEF StreamOver
<1>2. CASE UNCHANGED reader BY <1>1, <1>2, ReadersKept DEF disk
<1>3. CASE reader' = [r \in Readers |-> [reader[r] EXCEPT !.open = FALSE]]
  <2>1. ASSUME NEW r \in Readers
        PROVE  \E y \in ReaderState : reader'[r] = y /\ Shape(y) /\ Caught(y)'
    <3>0. PICK x \in ReaderState : x = reader[r] BY DEF LogTypes
    <3>1. Shape(x) /\ Caught(x) BY <3>0 DEF ReaderInv
    <3>2. Caught(x)' BY <1>1, <3>1 DEF Caught, Pending, Unread, disk
    <3>3. reader'[r] = [x EXCEPT !.open = FALSE] BY <1>3, <3>0
    <3> QED BY <3>1, <3>2, <3>3, ClosedOne
  <2> QED BY <1>3, <2>1, EachReader
<1> QED BY <1>2, <1>3, Zenon DEF StreamOver, DropPump

\* A step of one reader keeps all sound when it keeps that one sound
LEMMA OneReader ==
  ASSUME LogTypes, ReaderInv, UNCHANGED disk, NEW r \in Readers, NEW y \in ReaderState,
         reader' = [reader EXCEPT ![r] = y], Shape(y), Caught(y)
  PROVE  reader' \in [Readers -> ReaderState] /\ ReaderInv'
<1>1. ASSUME NEW q \in Readers
      PROVE  \E x \in ReaderState : reader'[q] = x /\ Shape(x) /\ Caught(x)'
  <2>1. PICK x \in ReaderState : x = reader'[q] BY DEF LogTypes
  <2>2. Shape(x) /\ Caught(x)
    <3>1. CASE q = r BY <2>1, <3>1 DEF LogTypes
    <3>2. CASE q # r
      <4>1. x = reader[q] BY <2>1, <3>2 DEF LogTypes
      <4> QED BY <4>1 DEF ReaderInv
    <3> QED BY <3>1, <3>2
  <2>3. Caught(x)' BY <2>2 DEF Caught, Pending, Unread, disk
  <2> QED BY <2>1, <2>2, <2>3
<1> QED BY <1>1, EachReader DEF LogTypes

\* LogRegistry::active: what is on disk is due
LEMMA AttachReaders ==
  ASSUME LogTypes, ReaderInv, NEW r \in Readers, NEW kind \in {"install", "run"},
         NEW follow \in BOOLEAN, Attach(r, kind, follow)
  PROVE  reader' \in [Readers -> ReaderState] /\ ReaderInv'
<1>0. PICK x \in ReaderState : x = reader[r] BY DEF LogTypes
<1> DEFINE tail == follow /\ registry # None /\ Kind(registry) = kind
           y == [x EXCEPT !.pc = IF kind = "run" THEN "old" ELSE "current", !.kind = kind,
                          !.open = tail, !.live = tail, !.due = OnDisk(kind)]
<1>1. x.pc = "idle" /\ UNCHANGED disk BY <1>0 DEF Attach, disk
<1>2. x.queue = <<>> BY <1>0, <1>1 DEF ReaderInv, Shape
<1>3. reader' = [reader EXCEPT ![r] = y] BY <1>0, Zenon DEF Attach
<1>4. OnDisk(kind) \in SUBSET Nat
      /\ OnDisk(kind) = IF kind = "run" THEN Range(old) \cup Range(run) ELSE Range(install)
  <2>1. Range(old \o run) = Range(old) \cup Range(run) BY RangeConcat DEF LogTypes, DataTypes
  <2>2. Range(old) \subseteq Nat /\ Range(run) \subseteq Nat /\ Range(install) \subseteq Nat
    BY RangeNat DEF LogTypes, DataTypes
  <2> QED BY <2>1, <2>2 DEF OnDisk
<1>5. tail \in BOOLEAN OBVIOUS
<1> HIDE DEF tail
<1>6. y \in ReaderState BY <1>4, <1>5 DEF ReaderState
<1>7. /\ y.pc = (IF kind = "run" THEN "old" ELSE "current") /\ y.kind = kind
      /\ y.open = tail /\ y.live = tail /\ y.due = OnDisk(kind) /\ y.queue = <<>>
  BY <1>2 DEF ReaderState
<1> HIDE DEF y
<1>8. Shape(y) BY <1>5, <1>7, RangeEmpty DEF Shape
<1>9. Caught(y) BY <1>4, <1>7 DEF Caught, Unread
<1> QED BY <1>1, <1>3, <1>6, <1>8, <1>9, OneReader

\* read_backlog: what was read from a file is no longer to come from it
LEMMA ReadFileReaders ==
  ASSUME LogTypes, ReaderInv, NEW r \in Readers, ReadOld(r) \/ ReadCurrent(r)
  PROVE  reader' \in [Readers -> ReaderState] /\ ReaderInv'
<1>0. PICK x \in ReaderState : x = reader[r] BY DEF LogTypes
<1>1. Shape(x) /\ Caught(x) BY <1>0 DEF ReaderInv
<1>2. Range(old) \subseteq Nat /\ Range(run) \subseteq Nat /\ Range(install) \subseteq Nat
  BY RangeNat DEF LogTypes, DataTypes
<1>3. UNCHANGED disk BY DEF ReadOld, ReadCurrent
<1>4. CASE ReadOld(r)
  <2> DEFINE y == [x EXCEPT !.pc = "current", !.seen = x.seen \cup Range(old)]
  <2>0. reader' = [reader EXCEPT ![r] = y] BY <1>0, <1>4, Zenon DEF ReadOld
  <2>1. x.pc = "old" BY <1>0, <1>4 DEF ReadOld
  <2>2. y \in ReaderState BY <1>2 DEF ReaderState
  <2>3. /\ y.pc = "current" /\ y.kind = x.kind /\ y.open = x.open /\ y.live = x.live
        /\ y.queue = x.queue /\ y.due = x.due /\ y.seen = x.seen \cup Range(old)
        /\ y.excused = x.excused
    BY DEF ReaderState
  <2> HIDE DEF y
  <2>4. Shape(y) BY <1>1, <2>1, <2>3 DEF Shape
  <2>5. Caught(y) BY <1>1, <2>1, <2>3 DEF Caught, Pending, Unread, Shape
  <2> QED BY <1>3, <2>0, <2>2, <2>4, <2>5, OneReader
<1>5. CASE ReadCurrent(r)
  <2> DEFINE file == IF x.kind = "run" THEN run ELSE install
             y == [x EXCEPT !.pc = IF x.live THEN "live" ELSE "done",
                            !.seen = x.seen \cup Range(file)]
  <2>0. reader' = [reader EXCEPT ![r] = y] BY <1>0, <1>5, Zenon DEF ReadCurrent
  <2>1. x.pc = "current" BY <1>0, <1>5 DEF ReadCurrent
  <2>2. Range(file) \subseteq Nat BY <1>2
  <2>3. y \in ReaderState BY <2>2 DEF ReaderState
  <2>4. /\ y.pc = (IF x.live THEN "live" ELSE "done") /\ y.kind = x.kind /\ y.open = x.open
        /\ y.live = x.live /\ y.queue = x.queue /\ y.due = x.due
        /\ y.seen = x.seen \cup Range(file) /\ y.excused = x.excused
    BY DEF ReaderState
  <2> HIDE DEF y
  <2>5. Shape(y) BY <1>1, <2>1, <2>4 DEF Shape
  <2>6. Caught(y) BY <1>1, <2>1, <2>4 DEF Caught, Pending, Unread
  <2> QED BY <1>3, <2>0, <2>3, <2>5, <2>6, OneReader
<1> QED BY <1>4, <1>5

\* live_tail: what leaves the queue is seen
LEMMA TailReaders ==
  ASSUME LogTypes, ReaderInv, NEW r \in Readers, TailNext(r)
  PROVE  reader' \in [Readers -> ReaderState] /\ ReaderInv'
<1>0. PICK x \in ReaderState : x = reader[r] BY DEF LogTypes
<1>1. Shape(x) /\ Caught(x) BY <1>0 DEF ReaderInv
<1>2. UNCHANGED disk /\ x.pc = "live" BY <1>0 DEF TailNext
<1>3. x.queue \in Seq(Nat) BY DEF ReaderState
<1>4. CASE x.queue # <<>>
  <2> DEFINE c == Head(x.queue)
             y == [x EXCEPT !.queue = Tail(x.queue),
                            !.seen = x.seen \cup Range(Payload(Head(x.queue)))]
  <2>1. reader' = [reader EXCEPT ![r] = y] BY <1>0, <1>4, Zenon DEF TailNext
  <2>2. /\ c \in Nat /\ Tail(x.queue) \in Seq(Nat) /\ Len(Tail(x.queue)) = Len(x.queue) - 1
        /\ Range(x.queue) = {c} \cup Range(Tail(x.queue)) /\ Range(Payload(c)) = {c} \ {Final}
    BY <1>3, <1>4, RangeTail, PayloadFacts
  <2>3. y \in ReaderState BY <2>2 DEF ReaderState
  <2>4. /\ y.pc = x.pc /\ y.kind = x.kind /\ y.open = x.open /\ y.live = x.live
        /\ y.queue = Tail(x.queue) /\ y.due = x.due
        /\ y.seen = x.seen \cup Range(Payload(c)) /\ y.excused = x.excused
    BY DEF ReaderState
  <2> HIDE DEF y
  <2>5. Shape(y)
    <3>1. x.live /\ Len(y.queue) <= Lag BY <1>1, <1>3, <1>4, <2>2, <2>4 DEF Shape
    <3> QED BY <1>1, <1>2, <2>4, <3>1 DEF Shape
  <2>6. Caught(y)
    <3>1. Pending(x) = Range(Payload(c)) \cup Pending(y) BY <2>2, <2>4 DEF Pending
    <3>2. Unread(x) = Unread(y) BY <1>2, <2>4 DEF Unread
    <3> QED BY <1>1, <2>4, <3>1, <3>2 DEF Caught
  <2> QED BY <1>2, <2>1, <2>3, <2>5, <2>6, OneReader
<1>5. CASE x.queue = <<>>
  <2> DEFINE y == [x EXCEPT !.pc = "done"]
  <2>1. reader' = [reader EXCEPT ![r] = y] /\ ~x.open BY <1>0, <1>5 DEF TailNext
  <2>2. y \in ReaderState BY DEF ReaderState
  <2>3. /\ y.pc = "done" /\ y.kind = x.kind /\ y.open = x.open /\ y.live = x.live
        /\ y.queue = x.queue /\ y.due = x.due /\ y.seen = x.seen /\ y.excused = x.excused
    BY DEF ReaderState
  <2> HIDE DEF y
  <2>4. Shape(y) BY <1>1, <1>5, <2>1, <2>3 DEF Shape
  <2>5. Caught(y) BY <1>1, <1>2, <2>3 DEF Caught, Pending, Unread
  <2> QED BY <1>2, <2>1, <2>2, <2>4, <2>5, OneReader
<1> QED BY <1>4, <1>5

-----------------------------------------------------------------------------
(* Steps that leave files, pumps and readers alone *)

\* What the agent sends is a chunk or a result
LEMMA SendTypes ==
  ASSUME wire \in [Tasks -> Seq(Nat)], NEW t \in Tasks, NEW c \in Nat, Send(t, c)
  PROVE  wire' \in [Tasks -> Seq(Nat)]
<1>1. Append(wire[t], c) \in Seq(Nat) BY RangeAppend
<1> QED BY <1>1 DEF Send

\* A session and its container, an agent's handlers and the start of a request
Quiet == BoxPrints \/ BoxRemoved \/ BoxRestarts \/ SessionLost \/ LinkClosed
         \/ (\E t \in Tasks : AgentStep(t) \/ LogFails(t) \/ Begin(t) \/ Reconcile(t) \/ Call(t))
         \/ (\E t \in Reconciles : Reconnect(t))

LEMMA QuietUnchanged ==
  ASSUME Quiet
  PROVE  UNCHANGED <<disk, reader, registry, fileOpen, written, stage, chunk>>
  BY DEF Quiet, BoxPrints, BoxRemoved, BoxRestarts, SessionLost, LinkClosed, AgentStep,
         InstallChunk, StartEnds, LogChunk, LogEnds, LogFails, Begin, Reconcile, Call, Reconnect,
         task, disk

LEMMA QuietTypes ==
  ASSUME DataTypes, Quiet
  PROVE  /\ lines' \in Nat /\ first' \in Nat /\ next' \in [Tasks -> Nat]
         /\ wire' \in [Tasks -> Seq(Nat)]
<1> USE DEF DataTypes
<1>0. Ok \in Nat /\ Failed \in Nat /\ Final \in Nat BY Bounds DEF Ok, Failed, Final
<1>1. CASE BoxPrints
  <2>1. lines' = lines + 1 /\ UNCHANGED <<first, next, wire>> BY <1>1 DEF BoxPrints, agent, link
  <2>2. lines \in Nat OBVIOUS
  <2> HIDE DEF DataTypes
  <2>3. lines' \in Nat BY <2>1, <2>2
  <2> USE DEF DataTypes
  <2> QED BY <2>1, <2>3, Zenon
<1>2. CASE BoxRemoved \/ BoxRestarts \/ (\E t \in Tasks : LogFails(t))
  BY <1>2 DEF BoxRemoved, BoxRestarts, LogFails, podman, link
<1>3. CASE SessionLost \/ LinkClosed BY <1>3 DEF SessionLost, LinkClosed, podman, agent
<1>4. ASSUME NEW t \in Tasks, AgentStep(t)
      PROVE  /\ lines' \in Nat /\ first' \in Nat /\ next' \in [Tasks -> Nat]
             /\ wire' \in [Tasks -> Seq(Nat)]
  <2>0. next \in [Tasks -> Nat] OBVIOUS
  <2> HIDE DEF DataTypes
  <2>1. next[t] \in Nat /\ next[t] + 1 \in Nat BY <2>0
  <2> USE DEF DataTypes
  <2>2. CASE InstallChunk(t) \/ LogChunk(t)
    <3>1. next' = [next EXCEPT ![t] = next[t] + 1] /\ Send(t, next[t] + 1) /\ UNCHANGED podman
      BY <2>2, Zenon DEF InstallChunk, LogChunk
    <3>2. wire' \in [Tasks -> Seq(Nat)] BY <2>1, <3>1, SendTypes
    <3> QED BY <2>1, <3>1, <3>2 DEF podman
  <2>3. CASE StartEnds(t, Ok) \/ StartEnds(t, Failed)
    <3>1. wire' \in [Tasks -> Seq(Nat)] BY <1>0, <2>3, SendTypes DEF StartEnds
    <3>2. UNCHANGED <<lines, next>> /\ first' \in {lines, first} BY <2>3 DEF StartEnds
    <3> QED BY <3>1, <3>2
  <2>4. CASE LogEnds(t)
    <3>1. wire' \in [Tasks -> Seq(Nat)] BY <1>0, <2>4, SendTypes DEF LogEnds
    <3> QED BY <2>4, <3>1 DEF LogEnds, podman
  <2> QED BY <1>4, <2>2, <2>3, <2>4 DEF AgentStep
<1>5. ASSUME NEW t \in Tasks, Begin(t) \/ Reconcile(t)
      PROVE  UNCHANGED <<lines, first, next, wire>>
  BY <1>5 DEF Begin, Reconcile, podman, agent, link
<1>6. ASSUME NEW t \in Tasks, Call(t)
      PROVE  /\ UNCHANGED <<lines, first, wire>>
             /\ next' \in [Tasks -> Nat]
  <2>1. UNCHANGED <<lines, first, wire>> BY <1>6 DEF Call, podman
  <2>2. lines - first > TailLines => lines - TailLines \in Nat BY Bounds
  <2>3. PICK n \in Nat : next' = next \/ next' = [next EXCEPT ![t] = n]
    BY <1>6, <2>2 DEF Call, Requested, agent
  <2>4. next \in [Tasks -> Nat] OBVIOUS
  <2> HIDE DEF DataTypes
  <2>5. next' \in [Tasks -> Nat] BY <2>3, <2>4
  <2> QED BY <2>1, <2>5
<1>7. ASSUME NEW t \in Reconciles, Reconnect(t) PROVE UNCHANGED <<lines, first, next, wire>>
  BY <1>7 DEF Reconnect, podman, agent
<1> QED BY <1>1, <1>2, <1>3, <1>4, <1>5, <1>6, <1>7 DEF Quiet

LEMMA QuietKeeps == LogInv /\ Quiet => LogInv'
<1> SUFFICES ASSUME LogInv, Quiet PROVE LogInv' OBVIOUS
<1>1. UNCHANGED <<install, run, old, size, oldSize, uncounted, reader, registry, fileOpen,
                  written, stage, chunk>>
  BY QuietUnchanged DEF disk
<1>2. DataTypes' BY <1>1, QuietTypes DEF LogInv, LogTypes, DataTypes
<1>3. FileInv' BY <1>1 DEF LogInv, FileInv, RunLogBounded
<1>4. reader' \in [Readers -> ReaderState] /\ ReaderInv' BY <1>1, ReadersKept DEF LogInv
<1> QED BY <1>2, <1>3, <1>4 DEF LogInv, LogTypes

-----------------------------------------------------------------------------
(* Steps of the readers *)

LEMMA ReadKeeps ==
  ASSUME LogInv, NEW r \in Readers,
         ReadStep(r) \/ \E kind \in {"install", "run"}, follow \in BOOLEAN : Attach(r, kind, follow)
  PROVE  LogInv'
<1>1. UNCHANGED <<lines, first, next, wire, chunk, stage, registry, written, fileOpen,
                  install, run, old, size, oldSize, uncounted>>
  BY DEF ReadStep, Attach, ReadOld, ReadCurrent, TailNext, podman, agent, link, task, disk
<1>2. DataTypes' BY <1>1 DEF LogInv, LogTypes, DataTypes
<1>3. FileInv' BY <1>1 DEF LogInv, FileInv, RunLogBounded
<1>4. reader' \in [Readers -> ReaderState] /\ ReaderInv'
  BY AttachReaders, ReadFileReaders, TailReaders DEF LogInv, ReadStep
<1> QED BY <1>2, <1>3, <1>4 DEF LogInv, LogTypes

-----------------------------------------------------------------------------
(* Steps of the pumps *)

\* Register: a pump that opens run.log counts on from its length
LEMMA RegisterKeeps ==
  ASSUME LogInv, NEW t \in Tasks, Register(t)
  PROVE  LogInv'
<1>1. DataTypes /\ FileInv /\ LogTypes /\ ReaderInv BY DEF LogInv, LogTypes
<1>2. UNCHANGED <<lines, first, next, chunk, stage, run, old, size, oldSize>>
  BY DEF Register, podman, agent
<1>3. CASE TryNew(t) /\ UNCHANGED link
  <2>1. registry' = t BY <1>3 DEF TryNew
  <2>2. install' \in {install, <<>>} BY <1>3 DEF TryNew
  <2>3. /\ fileOpen' \in [Tasks -> BOOLEAN] /\ written' \in [Tasks -> Nat]
        /\ uncounted' \in Nat /\ size < RotateAt + MaxChunk + uncounted'
        /\ stage[t] = "run" /\ fileOpen'[t] =>
              written'[t] <= size /\ size <= written'[t] + uncounted'
    <3>0. /\ fileOpen \in [Tasks -> BOOLEAN] /\ written \in [Tasks -> Nat]
          /\ size \in Nat /\ uncounted \in Nat /\ size < RotateAt + MaxChunk + uncounted
          /\ RotateAt \in Nat \ {0} /\ MaxChunk \in Nat \ {0}
      BY <1>1, Bounds DEF DataTypes, FileInv, RunLogBounded
    <3>1. CASE fileOpen' = [fileOpen EXCEPT ![t] = TRUE] /\ OpenSize(t)
      <4>1. CASE /\ written' = [written EXCEPT ![t] = IF stage[t] = "run" THEN size ELSE 0]
                 /\ UNCHANGED uncounted
        BY <3>0, <3>1, <4>1
      <4>2. CASE written' = [written EXCEPT ![t] = 0] /\ uncounted' = size
        BY <3>0, <3>1, <4>2
      <4> QED BY <3>1, <4>1, <4>2 DEF OpenSize
    <3>2. CASE /\ fileOpen' = [fileOpen EXCEPT ![t] = FALSE]
               /\ written' = [written EXCEPT ![t] = 0] /\ UNCHANGED uncounted
      BY <3>0, <3>2
    <3> QED BY <1>3, <3>1, <3>2 DEF TryNew
  <2>4. DataTypes'
    BY <1>1, <1>2, <1>3, <2>1, <2>2, <2>3, RangeEmpty DEF DataTypes, link
  <2>5. FileInv' BY <1>1, <1>2, <2>1, <2>3 DEF FileInv, RunLogBounded
  <2>6. reader' \in [Readers -> ReaderState] /\ ReaderInv'
    <3>1. CASE reader' = Excuse(Reading("install")) BY <1>1, <1>2, <3>1, ReadersExcused
    <3>2. CASE UNCHANGED <<install, reader>> BY <1>1, <1>2, <3>2, ReadersKept
    <3> QED BY <1>3, <3>1, <3>2 DEF TryNew
  <2> QED BY <2>4, <2>5, <2>6 DEF LogInv, LogTypes
<1>4. CASE /\ UNCHANGED <<registry, fileOpen, written, install, uncounted, reader>>
           /\ wire' \in {wire, [wire EXCEPT ![t] = <<>>]}
  <2>1. wire' \in [Tasks -> Seq(Nat)] BY <1>1, <1>4, RangeEmpty DEF DataTypes
  <2>2. DataTypes' BY <1>1, <1>2, <1>4, <2>1 DEF DataTypes
  <2>3. FileInv' BY <1>1, <1>2, <1>4 DEF FileInv, RunLogBounded
  <2>4. reader' \in [Readers -> ReaderState] /\ ReaderInv' BY <1>1, <1>2, <1>4, ReadersKept
  <2> QED BY <2>2, <2>3, <2>4 DEF LogInv, LogTypes
<1> QED BY <1>3, <1>4 DEF Register, EndStream, link

\* What a push leaves of the files: written to, rotated or not persisted
LEMMA PushFiles ==
  ASSUME LogInv, NEW t \in Tasks, Pumping(t), NEW c \in Nat,
         Rotate(t, c) \/ Write(t, c) \/ Skip(t), UNCHANGED <<stage, registry>>
  PROVE  /\ fileOpen' \in [Tasks -> BOOLEAN] /\ written' \in [Tasks -> Nat]
         /\ run' \in Seq(Nat) /\ old' \in Seq(Nat) /\ install' \in Seq(Nat)
         /\ size' \in Nat /\ oldSize' \in Nat /\ uncounted' \in Nat
         /\ FileInv' /\ reader' \in [Readers -> ReaderState] /\ ReaderInv'
<1>0. DataTypes /\ FileInv /\ LogTypes /\ ReaderInv BY DEF LogInv, LogTypes
<1>1. /\ written \in [Tasks -> Nat] /\ fileOpen \in [Tasks -> BOOLEAN] /\ run \in Seq(Nat)
      /\ old \in Seq(Nat) /\ install \in Seq(Nat) /\ stage \in [Tasks -> {"start", "run"}]
      /\ size \in Nat /\ oldSize \in Nat /\ uncounted \in Nat /\ written[t] \in Nat
  BY <1>0 DEF DataTypes
<1>2. /\ registry = t /\ RotateAt \in Nat \ {0} /\ MaxChunk \in Nat \ {0}
      /\ size < RotateAt + MaxChunk + uncounted /\ (oldSize = 0 \/ oldSize >= RotateAt)
      /\ (stage[t] = "run" /\ fileOpen[t] => written[t] <= size /\ size <= written[t] + uncounted)
  BY <1>0, Bounds DEF FileInv, RunLogBounded, Pumping
<1>8. /\ RotateAt \in Nat /\ RotateAt >= 1 /\ MaxChunk \in Nat /\ MaxChunk >= 1
      /\ size \in Nat /\ oldSize \in Nat /\ uncounted \in Nat /\ written[t] \in Nat
  BY <1>1, <1>2
<1> DEFINE p == Payload(c)
<1>3. p \in Seq(Nat) BY PayloadFacts
<1> HIDE DEF p
\* only the registered pump's own counter matters
<1>4. ASSUME size' < RotateAt + MaxChunk + uncounted', oldSize' = 0 \/ oldSize' >= RotateAt,
             stage[t] = "run" /\ fileOpen'[t] =>
                written'[t] <= size' /\ size' <= written'[t] + uncounted'
      PROVE  FileInv'
  BY <1>2, <1>4 DEF FileInv, RunLogBounded
<1>5. CASE Rotate(t, c)
  <2>1. stage[t] = "run" /\ fileOpen[t] /\ size >= RotateAt /\ UNCHANGED install
    <3>1. stage[t] = "run" /\ fileOpen[t] /\ written[t] >= RotateAt /\ UNCHANGED install
      BY <1>5 DEF Rotate, Rotates
    <3>2. written[t] <= size BY <1>2, <3>1
    <3> QED BY <1>8, <3>1, <3>2
  <2>2. ASSUME old' = run, run' = p, oldSize' = size, size' \in Sizes(c),
               written' = [written EXCEPT ![t] = size'], uncounted' = 0,
               reader' = Excuse(Reading("run")), UNCHANGED fileOpen
        PROVE  /\ size' \in Nat /\ written' \in [Tasks -> Nat]
               /\ FileInv' /\ reader' \in [Readers -> ReaderState] /\ ReaderInv'
    <3>1. size' \in Nat /\ size' <= MaxChunk BY <2>2, SizeFacts
    <3>2. written' \in [Tasks -> Nat] /\ written'[t] = size' BY <1>1, <2>2, <3>1
    <3>3. FileInv'
      <4>1. size' < RotateAt + MaxChunk + 0 BY <1>2, <3>1
      <4>2. oldSize' >= RotateAt /\ written'[t] <= size' /\ size' <= written'[t] + 0
        BY <2>1, <2>2, <3>1, <3>2
      <4> QED BY <1>4, <2>2, <4>1, <4>2, Zenon
    <3>4. reader' \in [Readers -> ReaderState] /\ ReaderInv' BY <1>0, <2>1, <2>2, ReadersExcused
    <3> QED BY <3>1, <3>2, <3>3, <3>4
  <2>3. ASSUME old' = run, run' = <<>>, oldSize' = size, uncounted' = size',
               size' \in 0..MaxChunk - 1, written' = [written EXCEPT ![t] = 0],
               reader' = Excuse(Reading("run")),
               fileOpen' \in {fileOpen, [fileOpen EXCEPT ![t] = FALSE]}
        PROVE  /\ size' \in Nat /\ written' \in [Tasks -> Nat]
               /\ fileOpen' \in [Tasks -> BOOLEAN]
               /\ FileInv' /\ reader' \in [Readers -> ReaderState] /\ ReaderInv'
    <3>1. size' \in Nat BY <1>2, <2>3
    <3>2. written' \in [Tasks -> Nat] /\ written'[t] = 0 BY <1>1, <2>3
    <3>3. FileInv'
      <4>1. size' < RotateAt + MaxChunk + size' /\ 0 <= size' /\ size' <= 0 + size' BY <1>8, <3>1
      <4>2. oldSize' >= RotateAt BY <2>1, <2>3
      <4>3. written'[t] <= size' /\ size' <= written'[t] + size' BY <3>2, <4>1
      <4> QED BY <1>4, <2>3, <4>1, <4>2, <4>3, Zenon
    <3>4. reader' \in [Readers -> ReaderState] /\ ReaderInv' BY <1>0, <2>1, <2>3, ReadersExcused
    <3>5. fileOpen' \in [Tasks -> BOOLEAN] BY <1>1, <2>3
    <3> QED BY <3>1, <3>2, <3>3, <3>4, <3>5
  <2>4. ASSUME fileOpen' = [fileOpen EXCEPT ![t] = FALSE], written' = [written EXCEPT ![t] = 0],
               UNCHANGED <<run, old, size, oldSize, uncounted, reader>>
        PROVE  /\ written' \in [Tasks -> Nat] /\ fileOpen' \in [Tasks -> BOOLEAN]
               /\ FileInv' /\ reader' \in [Readers -> ReaderState] /\ ReaderInv'
    <3>1. /\ written' \in [Tasks -> Nat] /\ fileOpen' \in [Tasks -> BOOLEAN]
          /\ ~fileOpen'[t]
      BY <1>1, <2>4
    <3>2. FileInv' BY <1>2, <1>4, <2>4, <3>1
    <3>3. reader' \in [Readers -> ReaderState] /\ ReaderInv' BY <1>0, <2>1, <2>4, ReadersKept
    <3> QED BY <3>1, <3>2, <3>3
  <2>5. \/ /\ old' = run /\ run' = p /\ oldSize' = size /\ size' \in Sizes(c)
           /\ written' = [written EXCEPT ![t] = size'] /\ uncounted' = 0
           /\ reader' = Excuse(Reading("run")) /\ UNCHANGED fileOpen
        \/ /\ old' = run /\ run' = <<>> /\ oldSize' = size /\ uncounted' = size'
           /\ size' \in 0..MaxChunk - 1 /\ written' = [written EXCEPT ![t] = 0]
           /\ reader' = Excuse(Reading("run"))
           /\ fileOpen' \in {fileOpen, [fileOpen EXCEPT ![t] = FALSE]}
        \/ /\ fileOpen' = [fileOpen EXCEPT ![t] = FALSE]
           /\ written' = [written EXCEPT ![t] = 0]
           /\ UNCHANGED <<run, old, size, oldSize, uncounted, reader>>
    <3>1. 0 \in 0..MaxChunk - 1 BY <1>2
    <3> QED BY <1>5, <3>1 DEF Rotate, p
  <2>6. uncounted' \in Nat /\ oldSize' \in Nat
    <3>1. oldSize' \in {size, oldSize} BY <2>5
    <3>2. uncounted' \in {0, uncounted} \/ uncounted' \in 0..MaxChunk - 1 BY <2>5
    <3> QED BY <1>8, <3>1, <3>2
  <2> QED BY <1>1, <1>3, <2>1, <2>2, <2>3, <2>4, <2>5, <2>6, RangeEmpty
<1>6. CASE Write(t, c)
  <2>1. fileOpen[t] /\ ~Rotates(t) /\ UNCHANGED <<fileOpen, old, oldSize, uncounted, reader>>
    BY <1>6 DEF Write
  <2>2. /\ run \o p \in Seq(Nat) /\ Range(run) \subseteq Range(run \o p)
        /\ install \o p \in Seq(Nat) /\ Range(install) \subseteq Range(install \o p)
    BY <1>1, <1>3, RangeConcat
  <2>3. CASE stage[t] = "run"
    <3>1. run' = run \o p /\ UNCHANGED install BY <1>6, <2>3 DEF Write, p
    <3>2. PICK n \in Sizes(c) : size' = size + n /\ written' = [written EXCEPT ![t] = @ + n]
      BY <1>6, <2>3 DEF Write
    <3>3. n \in Nat /\ n <= MaxChunk BY SizeFacts
    <3>4. written[t] < RotateAt BY <1>1, <1>2, <2>1, <2>3 DEF Rotates
    <3>5. written' \in [Tasks -> Nat] /\ written'[t] = written[t] + n
      <4>1. written[t] + n \in Nat BY <1>8, <3>3
      <4> QED BY <1>1, <3>2, <4>1
    <3>6. written[t] <= size /\ size <= written[t] + uncounted BY <1>2, <2>1, <2>3
    <3>7. size + n \in Nat /\ size + n < RotateAt + MaxChunk + uncounted
      BY <1>8, <3>3, <3>4, <3>6
    <3>8. written[t] + n <= size + n /\ size + n <= written[t] + n + uncounted
      BY <1>8, <3>3, <3>6
    <3>9. FileInv'
      <4>1. /\ size' < RotateAt + MaxChunk + uncounted'
            /\ written'[t] <= size' /\ size' <= written'[t] + uncounted'
        BY <2>1, <3>2, <3>5, <3>7, <3>8
      <4>2. oldSize' = 0 \/ oldSize' >= RotateAt BY <1>2, <2>1
      <4> QED BY <1>4, <4>1, <4>2, Zenon
    <3>10. reader' \in [Readers -> ReaderState] /\ ReaderInv'
      BY <1>0, <2>1, <2>2, <3>1, ReadersKept
    <3> QED BY <1>1, <2>1, <2>2, <3>1, <3>2, <3>5, <3>7, <3>9, <3>10
  <2>4. CASE stage[t] # "run"
    <3>1. install' = install \o p /\ UNCHANGED <<run, size, written>>
      BY <1>6, <2>4 DEF Write, p
    <3>2. FileInv' BY <1>2, <1>4, <2>1, <2>4, <3>1
    <3>3. reader' \in [Readers -> ReaderState] /\ ReaderInv'
      BY <1>0, <2>1, <2>2, <3>1, ReadersKept
    <3> QED BY <1>1, <2>1, <2>2, <3>1, <3>2, <3>3
  <2> QED BY <2>3, <2>4
<1>7. CASE Skip(t)
  <2>1. UNCHANGED <<fileOpen, written, install, run, old, oldSize, reader>> BY <1>7 DEF Skip
  <2>2. PICK n \in Nat : size' = size + n /\ uncounted' = uncounted + n
    <3>1. CASE ~fileOpen[t]
      <4>1. size' = size + 0 /\ uncounted' = uncounted + 0 BY <1>1, <1>7, <3>1 DEF Skip
      <4> QED BY <4>1
    <3>2. CASE fileOpen[t]
      <4>1. PICK n \in IF stage[t] = "run" THEN 0..MaxChunk - 1 ELSE {0} :
               size' = size + n /\ uncounted' = uncounted + n
        BY <1>7, <3>2 DEF Skip
      <4>2. n \in Nat BY <1>2
      <4> QED BY <4>1, <4>2
    <3> QED BY <3>1, <3>2
  <2>3. FileInv'
    <3>1. size' < RotateAt + MaxChunk + uncounted' BY <1>2, <1>8, <2>2
    <3>2. stage[t] = "run" /\ fileOpen'[t] =>
             written'[t] <= size' /\ size' <= written'[t] + uncounted'
      BY <1>2, <1>8, <2>1, <2>2
    <3>3. oldSize' = 0 \/ oldSize' >= RotateAt BY <1>2, <2>1
    <3> QED BY <1>4, <3>1, <3>2, <3>3, Zenon
  <2>4. reader' \in [Readers -> ReaderState] /\ ReaderInv' BY <1>0, <2>1, ReadersKept
  <2> QED BY <1>1, <2>1, <2>2, <2>3, <2>4
<1> QED BY <1>5, <1>6, <1>7

\* Receive: one chunk goes into the file
LEMMA ReceiveKeeps ==
  ASSUME LogInv, NEW t \in Tasks, Receive(t)
  PROVE  LogInv'
<1>1. DataTypes /\ FileInv /\ LogTypes /\ ReaderInv BY DEF LogInv, LogTypes
<1> DEFINE c == Head(wire[t])
<1>2. wire[t] \in Seq(Nat) /\ wire[t] # <<>> BY <1>1 DEF DataTypes, Receive
<1>3. c \in Nat /\ Tail(wire[t]) \in Seq(Nat) BY <1>2, RangeTail
<1>4. wire' \in [Tasks -> Seq(Nat)]
  <2>1. wire' = [wire EXCEPT ![t] = Tail(wire[t])] BY Zenon DEF Receive
  <2> QED BY <1>1, <1>3, <2>1 DEF DataTypes
<1>5. UNCHANGED <<lines, first, next, stage, registry>> BY DEF Receive, podman, agent
<1> HIDE DEF c
<1>6. CASE ~Pumping(t)
  <2>1. UNCHANGED <<chunk, fileOpen, written, install, run, old, size, oldSize, uncounted, reader>>
    BY <1>6 DEF Receive, disk
  <2>2. DataTypes' BY <1>1, <1>4, <1>5, <2>1 DEF DataTypes
  <2>3. FileInv' BY <1>1, <1>5, <2>1 DEF FileInv, RunLogBounded
  <2>4. reader' \in [Readers -> ReaderState] /\ ReaderInv' BY <1>1, <2>1, ReadersKept
  <2> QED BY <2>2, <2>3, <2>4 DEF LogInv, LogTypes
<1>7. CASE Pumping(t)
  <2>1. /\ Rotate(t, c) \/ Write(t, c) \/ Skip(t)
        /\ chunk' = [chunk EXCEPT ![t] = c]
    BY <1>7, Zenon DEF Receive, Push, c
  <2>2. chunk' \in [Tasks -> Nat] BY <1>1, <1>3, <2>1 DEF DataTypes
  <2>3. /\ fileOpen' \in [Tasks -> BOOLEAN] /\ written' \in [Tasks -> Nat]
        /\ run' \in Seq(Nat) /\ old' \in Seq(Nat) /\ install' \in Seq(Nat)
        /\ size' \in Nat /\ oldSize' \in Nat /\ uncounted' \in Nat
        /\ FileInv' /\ reader' \in [Readers -> ReaderState] /\ ReaderInv'
    BY <1>3, <1>5, <1>7, <2>1, PushFiles
  <2>4. DataTypes' BY <1>1, <1>4, <1>5, <2>2, <2>3 DEF DataTypes
  <2> QED BY <2>3, <2>4 DEF LogInv, LogTypes
<1> QED BY <1>6, <1>7

\* The last chunk of a log, or the end of a stream: the pump is dropped before
\* its task goes on
LEMMA EndsKeep ==
  ASSUME LogInv, NEW t \in Tasks, SendChunk(t) \/ StreamOver(t)
  PROVE  LogInv'
<1>1. DataTypes /\ FileInv /\ LogTypes /\ ReaderInv BY DEF LogInv, LogTypes
<1>2. UNCHANGED <<lines, first, next, chunk, written, fileOpen, install, run, old, size, oldSize,
                  uncounted>>
  BY DEF SendChunk, StreamOver, podman, agent, disk
<1>3. wire' \in [Tasks -> Seq(Nat)]
  <2>1. wire' \in {wire, [wire EXCEPT ![t] = <<>>]} BY DEF SendChunk, StreamOver, EndStream
  <2> QED BY <1>1, <2>1, RangeEmpty DEF DataTypes
<1>4. registry' \in {registry, None} BY DEF SendChunk, StreamOver, DropPump
<1>5. /\ stage' \in [Tasks -> {"start", "run"}]
      /\ stage' # stage => registry' # t /\ \A u \in Tasks \ {t} : stage'[u] = stage[u]
  <2>1. CASE SendChunk(t) BY <1>1, <2>1 DEF SendChunk, DataTypes
  <2>2. CASE StreamOver(t)
    <3>1. stage' \in {stage, [stage EXCEPT ![t] = "run"]} BY <2>2 DEF StreamOver
    <3>2. registry' # t BY <2>2, Bounds DEF StreamOver, DropPump, Pumping
    <3> QED BY <1>1, <3>1, <3>2 DEF DataTypes
  <2> QED BY <2>1, <2>2
<1>6. DataTypes' BY <1>1, <1>2, <1>3, <1>4, <1>5 DEF DataTypes
<1>7. FileInv'
  <2>1. ASSUME NEW u \in Tasks, registry' = u, stage'[u] = "run", fileOpen'[u]
        PROVE  written'[u] <= size' /\ size' <= written'[u] + uncounted'
    <3>1. registry = u BY <1>4, <2>1, Bounds
    <3>2. stage[u] = "run" BY <1>5, <2>1
    <3> QED BY <1>1, <1>2, <2>1, <3>1, <3>2 DEF FileInv
  <2> QED BY <1>1, <1>2, <2>1 DEF FileInv, RunLogBounded
<1>8. reader' \in [Readers -> ReaderState] /\ ReaderInv'
  BY <1>1, SendChunkReaders, StreamOverReaders
<1> QED BY <1>6, <1>7, <1>8 DEF LogInv, LogTypes

-----------------------------------------------------------------------------
(* The invariant *)

LEMMA LogInit == Init => LogInv
<1> SUFFICES ASSUME Init PROVE LogInv OBVIOUS
<1>1. DataTypes BY RangeEmpty DEF Init, DataTypes, Blank
<1> DEFINE x == [pc |-> "idle", kind |-> "run", open |-> FALSE, live |-> FALSE, queue |-> <<>>,
                 seen |-> {}, due |-> {}, excused |-> FALSE]
<1>2. x \in ReaderState /\ Shape(x) /\ Caught(x)
  BY RangeEmpty, Bounds DEF ReaderState, Shape, Caught
<1>3. reader = [r \in Readers |-> x] BY DEF Init
<1> HIDE DEF x
<1>4. reader \in [Readers -> ReaderState] /\ ReaderInv BY <1>2, <1>3 DEF ReaderInv
<1>5. FileInv BY RangeEmpty, Bounds DEF Init, FileInv, RunLogBounded
<1> QED BY <1>1, <1>4, <1>5 DEF LogInv, LogTypes

LEMMA LogStep == LogInv /\ [Next]_vars => LogInv'
<1> SUFFICES ASSUME LogInv, [Next]_vars PROVE LogInv' OBVIOUS
<1>1. CASE Quiet BY <1>1, QuietKeeps
<1>2. ASSUME NEW t \in Tasks, Register(t) PROVE LogInv' BY <1>2, RegisterKeeps
<1>3. ASSUME NEW t \in Tasks, Receive(t) PROVE LogInv' BY <1>3, ReceiveKeeps
<1>4. ASSUME NEW t \in Tasks, SendChunk(t) \/ StreamOver(t) PROVE LogInv' BY <1>4, EndsKeep
<1>5. ASSUME NEW r \in Readers,
             \/ ReadStep(r)
             \/ \E kind \in {"install", "run"}, follow \in BOOLEAN : Attach(r, kind, follow)
      PROVE  LogInv'
  BY <1>5, ReadKeeps
<1>6. CASE UNCHANGED vars
  <2>1. UNCHANGED <<lines, first, next, wire, chunk, stage, registry, written, fileOpen,
                    install, run, old, size, oldSize, uncounted, reader>>
    BY <1>6 DEF vars, podman, agent, link, task, disk
  <2>2. DataTypes' BY <2>1 DEF LogInv, LogTypes, DataTypes
  <2>3. FileInv' BY <2>1 DEF LogInv, FileInv, RunLogBounded
  <2>4. reader' \in [Readers -> ReaderState] /\ ReaderInv' BY <2>1, ReadersKept DEF LogInv
  <2> QED BY <2>2, <2>3, <2>4 DEF LogInv, LogTypes
<1> QED BY <1>1, <1>2, <1>3, <1>4, <1>5, <1>6, Zenon DEF Next, HubStep, Quiet

(* Files, pumps and readers fit together: bytes_written of the registered   *)
(* pump misses the length of run.log by no more than errors of the disk     *)
(* left uncounted, and what is due to a reader is seen, in its receiver or  *)
(* still on disk in a file it has not read, through every interleaving of   *)
(* pumps, rotations, redeployments and lost sessions.                       *)
THEOREM LogInvariant == Spec => []LogInv
<1> QED BY LogInit, LogStep, PTL DEF Spec

(* LogPump::push tests bytes_written before it writes a chunk of any size:  *)
(* whichever pumps wrote it, run.log outgrows RUN_LOG_ROTATE_BYTES by less  *)
(* than a chunk and what a failed metadata() or write left uncounted, and   *)
(* run.log.1, once there, has at least that many bytes.                     *)
THEOREM RunLogStaysBounded == Spec => []RunLogBounded
<1>1. LogInv => RunLogBounded BY DEF LogInv, FileInv
<1> QED BY <1>1, LogInvariant, PTL

(* LogRegistry::active subscribes before the backlog is read and live_tail  *)
(* empties its receiver before it ends: a response that has ended missed    *)
(* nothing that was due to it.                                              *)
THEOREM ReadersMissNone == Spec => []ReadersMissNothing
<1>1. ASSUME LogInv PROVE ReadersMissNothing
  <2> SUFFICES ASSUME NEW r \in Readers, reader[r].pc = "done" /\ ~reader[r].excused
               PROVE  reader[r].due \subseteq reader[r].seen
    BY DEF ReadersMissNothing
  <2>1. Shape(reader[r]) /\ Caught(reader[r]) BY <1>1 DEF LogInv, ReaderInv
  <2>2. reader[r].queue = <<>> BY <2>1 DEF Shape
  <2>3. Pending(reader[r]) = {} BY <2>2, RangeEmpty DEF Pending
  <2>4. Unread(reader[r]) = {} BY DEF Unread
  <2> QED BY <2>1, <2>3, <2>4 DEF Caught
<1> QED BY <1>1, LogInvariant, PTL

=============================================================================
