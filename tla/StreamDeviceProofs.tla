------------------------- MODULE StreamDeviceProofs -------------------------
(***************************************************************************)
(* Proofs about StreamDevice, for any packets, levels and number of runs.    *)
(***************************************************************************)
EXTENDS StreamDevice, SequenceTheorems, TLAPS

USE DEF buffers, writing, history, device

(* What is left of the buffer to be written.                                 *)
Rest == SubSeq(buffer, pos + 1, Len(buffer))

(* Outside of a write nothing is half written, a write is of something, and  *)
(* the backlog is only used behind a buffer that is not empty.               *)
PosInv ==
    /\ writer # "writing" => pos = 0
    /\ writer = "writing" => buffer # <<>>
    /\ buffer = <<>> => backlog = <<>>

(* What counts as written has been written, also after a run that failed.    *)
WrittenInv == ToSet(SubSeq(buffer, 1, pos)) \subseteq ToSet(wire)

(* A loop that is about to look for the token finds it if there is work.     *)
TokenInv ==
    ~broken /\ writer \in {"off", "waiting", "body"} /\ buffer # <<>> => token

DeviceInv == DeviceTypeOK /\ PosInv /\ InOrder /\ WrittenInv /\ NothingLost /\ TokenInv
-----------------------------------------------------------------------------
(* Facts about sequences.                                                    *)
LEMMA ToSetConcat ==
  ASSUME NEW S, NEW s \in Seq(S), NEW t \in Seq(S)
  PROVE  ToSet(s \o t) = ToSet(s) \cup ToSet(t)
<1>1. ToSet(s) = Range(s) /\ ToSet(t) = Range(t) /\ ToSet(s \o t) = Range(s \o t)
  BY DEF ToSet, Range
<1> QED
  BY <1>1, RangeConcatenation

(* The empty sequence has no elements.                                      *)
LEMMA ToSetEmpty == ToSet(<<>>) = {}
BY DEF ToSet

(* A sequence is what comes up to some place followed by the rest.           *)
LEMMA SplitAt ==
  ASSUME NEW S, NEW s \in Seq(S), NEW m \in 0 .. Len(s), NEW n \in 0 .. Len(s) - m
  PROVE  /\ SubSeq(s, m + 1, m + n) \in Seq(S)
         /\ SubSeq(s, m + n + 1, Len(s)) \in Seq(S)
         /\ SubSeq(s, m + 1, Len(s)) \in Seq(S)
         /\ SubSeq(s, m + 1, m + n) \o SubSeq(s, m + n + 1, Len(s)) = SubSeq(s, m + 1, Len(s))
<1>1. Len(s) \in Nat /\ \A i \in 1 .. Len(s) : s[i] \in S
  BY LenProperties, ElementOfSeq
<1>2. ASSUME NEW i \in 1 .. Len(s) + 1, NEW j \in 0 .. Len(s) PROVE SubSeq(s, i, j) \in Seq(S)
  BY <1>1, SubSeqProperties
<1>3. /\ m + 1 \in 1 .. Len(s) + 1 /\ m + n + 1 \in 1 .. Len(s) + 1
      /\ m + n \in (m + 1) - 1 .. Len(s) /\ m + n \in 0 .. Len(s) /\ Len(s) \in m + n .. Len(s)
      /\ Len(s) \in 0 .. Len(s)
  BY <1>1
<1>4. SubSeq(s, m + 1, m + n) \o SubSeq(s, m + n + 1, Len(s)) = SubSeq(s, m + 1, Len(s))
  BY <1>3, ConcatAdjacentSubSeq
<1> QED
  BY <1>2, <1>3, <1>4

(* The same from the start, and what a part of a sequence is made of.        *)
LEMMA SplitSet ==
  ASSUME NEW S, NEW s \in Seq(S), NEW m \in 0 .. Len(s)
  PROVE  /\ SubSeq(s, 1, m) \in Seq(S) /\ SubSeq(s, m + 1, Len(s)) \in Seq(S)
         /\ SubSeq(s, 1, m) \o SubSeq(s, m + 1, Len(s)) = s
         /\ ToSet(s) = ToSet(SubSeq(s, 1, m)) \cup ToSet(SubSeq(s, m + 1, Len(s)))
<1>1. Len(s) \in Nat
  BY LenProperties
<1>2. 0 \in 0 .. Len(s) /\ m \in 0 .. Len(s) - 0 /\ 0 + 1 = 1 /\ 0 + m = m /\ 0 + m + 1 = m + 1
  BY <1>1
<1>3. /\ SubSeq(s, 0 + 1, 0 + m) \in Seq(S) /\ SubSeq(s, 0 + m + 1, Len(s)) \in Seq(S)
      /\ SubSeq(s, 0 + 1, 0 + m) \o SubSeq(s, 0 + m + 1, Len(s)) = SubSeq(s, 0 + 1, Len(s))
  BY <1>2, SplitAt
<1>4. SubSeq(s, 1, Len(s)) = s
  BY SubSeqFull
<1>5. /\ SubSeq(s, 1, m) \in Seq(S) /\ SubSeq(s, m + 1, Len(s)) \in Seq(S)
      /\ SubSeq(s, 1, m) \o SubSeq(s, m + 1, Len(s)) = s
  BY <1>2, <1>3, <1>4
<1> HIDE <1>2, <1>3, <1>4
<1> QED
  BY <1>5, ToSetConcat

(* Joining sequences of packets.                                            *)
LEMMA Joined ==
  ASSUME NEW w \in Seq(Packets), NEW p \in Seq(Packets), NEW q \in Seq(Packets)
  PROVE  /\ w \o p \in Seq(Packets)
         /\ (w \o p) \o q = w \o (p \o q)
         /\ ToSet(w \o p) = ToSet(w) \cup ToSet(p)
BY ConcatProperties, ConcatAssociative, ToSetConcat

-----------------------------------------------------------------------------
(* The invariant is established.                                            *)
LEMMA DeviceInitInv == Init => DeviceInv
<1> SUFFICES ASSUME Init PROVE DeviceInv
  OBVIOUS
<1>1. SubSeq(<<>>, 1, 0) = <<>> /\ Len(<<>>) = 0 /\ <<>> \o <<>> \o <<>> = <<>>
  BY SubSeqEmpty
<1>2. DeviceTypeOK
  <2>1. <<>> \in Seq(Packets) /\ cl_none \in Level
    BY EmptySeq DEF Level, cl_none, cl_kill
  <2>2. runs \in 0 .. MaxRuns /\ pos \in Nat /\ pos <= Len(buffer)
    BY <1>1, RunsAssumption DEF Init
  <2>3. token \in BOOLEAN /\ reader \in BOOLEAN /\ broken \in BOOLEAN
    BY Zenon DEF Init
  <2> QED
    BY <2>1, <2>2, <2>3 DEF Init, DeviceTypeOK, WriterPC
<1>3. PosInv /\ WrittenInv /\ NothingLost /\ TokenInv
  BY <1>1, ToSetEmpty DEF Init, PosInv, WrittenInv, NothingLost, TokenInv
<1>4. InOrder
  BY <1>1 DEF Init, InOrder
<1> QED
  BY <1>2, <1>3, <1>4 DEF DeviceInv

(* The stream takes n packets of the buffer: they are accounted for.         *)
LEMMA TakesSome ==
  ASSUME DeviceInv, NEW n \in 0 .. Len(buffer) - pos,
         wire' = wire \o SubSeq(buffer, pos + 1, pos + n)
  PROVE  /\ wire' \in Seq(Packets)
         /\ ToSet(wire) \subseteq ToSet(wire')
         /\ ToSet(wire') \subseteq ToSet(wire) \cup ToSet(buffer)
         /\ pos + n \in 0 .. Len(buffer)
         /\ ToSet(SubSeq(buffer, 1, pos + n)) \subseteq ToSet(wire')
         /\ wire' \o SubSeq(buffer, pos + n + 1, Len(buffer)) = wire \o Rest
         /\ SubSeq(buffer, pos + n + 1, Len(buffer)) \in Seq(Packets)
<1> DEFINE part == SubSeq(buffer, pos + 1, pos + n)
           left == SubSeq(buffer, pos + n + 1, Len(buffer))
<1>0. wire' = wire \o part
  OBVIOUS
<1>1. /\ buffer \in Seq(Packets) /\ wire \in Seq(Packets)
      /\ pos \in 0 .. Len(buffer) /\ pos + n \in 0 .. Len(buffer)
  <2>1. buffer \in Seq(Packets) /\ wire \in Seq(Packets) /\ pos \in Nat /\ pos <= Len(buffer)
    BY DEF DeviceInv, DeviceTypeOK
  <2>2. Len(buffer) \in Nat
    BY <2>1, LenProperties
  <2> QED
    BY <2>1, <2>2
<1>2. part \in Seq(Packets) /\ left \in Seq(Packets) /\ Rest \in Seq(Packets) /\ part \o left = Rest
  BY <1>1, SplitAt DEF Rest
<1>3. /\ wire' \in Seq(Packets) /\ ToSet(wire') = ToSet(wire) \cup ToSet(part)
      /\ wire' \o left = wire \o Rest
  <2>1. wire \in Seq(Packets) /\ part \in Seq(Packets) /\ left \in Seq(Packets) /\ part \o left = Rest
    BY <1>1, <1>2
  <2> HIDE DEF part, left
  <2>2. /\ wire \o part \in Seq(Packets)
        /\ (wire \o part) \o left = wire \o (part \o left)
        /\ ToSet(wire \o part) = ToSet(wire) \cup ToSet(part)
    BY <2>1, Joined, Zenon
  <2> QED
    BY <1>0, <2>1, <2>2, Zenon
<1>5. ToSet(Rest) = ToSet(part) \cup ToSet(left)
  BY <1>2, ToSetConcat
<1>6. ToSet(buffer) = ToSet(SubSeq(buffer, 1, pos)) \cup ToSet(Rest)
  BY <1>1, SplitSet DEF Rest
<1>7. SubSeq(buffer, 1, pos) \o part = SubSeq(buffer, 1, pos + n)
  <2>1. Len(buffer) \in Nat
    BY <1>1, LenProperties
  <2>2. /\ 1 \in 1 .. Len(buffer) + 1 /\ pos \in 1 - 1 .. Len(buffer)
        /\ pos + n \in pos .. Len(buffer)
    BY <1>1, <2>1
  <2> QED
    BY <1>1, <2>2, ConcatAdjacentSubSeq
<1>8. ToSet(SubSeq(buffer, 1, pos + n)) = ToSet(SubSeq(buffer, 1, pos)) \cup ToSet(part)
  <2>1. SubSeq(buffer, 1, pos) \in Seq(Packets)
    BY <1>1, SplitSet
  <2>2. part \in Seq(Packets)
    BY <1>2
  <2> HIDE DEF part
  <2> QED
    BY <1>7, <2>1, <2>2, ToSetConcat, Zenon
<1>9. ToSet(SubSeq(buffer, 1, pos)) \subseteq ToSet(wire)
  BY DEF DeviceInv, WrittenInv
<1> QED
  BY <1>1, <1>2, <1>3, <1>5, <1>6, <1>8, <1>9

(* What the histories and the buffers say depends on nothing else.           *)
LEMMA BuffersKept ==
  ASSUME DeviceInv, UNCHANGED <<buffer, backlog, pos, given, wire, broken>>
  PROVE  (InOrder /\ WrittenInv /\ NothingLost)'
BY DEF DeviceInv, InOrder, WrittenInv, NothingLost

(* The maximum of two levels is one.                                        *)
LEMMA MaxLevelType ==
  ASSUME NEW a \in Level, NEW b \in Level
  PROVE  MaxLevel(a, b) \in Level
BY DEF MaxLevel

(* The steps of the loop and of the run that write nothing.                  *)
LEMMA QuietStep ==
  ASSUME DeviceInv, Run \/ CancelRun \/ ReadEnds \/ Loop
  PROVE  DeviceInv'
<1>1. /\ UNCHANGED <<buffer, backlog, pos, given, wire, broken>>
      /\ writer' \in WriterPC
      /\ writer' = "writing" => buffer # <<>>
      /\ writer = "writing" => writer' = "writing"
  BY DEF Run, CancelRun, ReadEnds, Loop, Stop, Sleep, Proceed, Wake, Woken, StartWrite,
         DeviceInv, PosInv, WriterPC, Running, DeviceTypeOK
<1>2. (InOrder /\ WrittenInv /\ NothingLost)'
  BY <1>1, BuffersKept
<1>3. PosInv'
  BY <1>1 DEF DeviceInv, PosInv
<1>4. DeviceTypeOK'
  <2>1. token' \in BOOLEAN /\ reader' \in BOOLEAN
    BY DEF Run, CancelRun, ReadEnds, Loop, Stop, Sleep, Proceed, Wake, Woken, StartWrite,
           DeviceInv, DeviceTypeOK
  <2>2. runs' \in 0 .. MaxRuns
    BY RunsAssumption
    DEF Run, CancelRun, ReadEnds, Loop, Stop, Sleep, Proceed, Wake, Woken, StartWrite,
        DeviceInv, DeviceTypeOK
  <2>3. level' \in Level /\ inner' \in Level
    <3>1. cl_none \in Level /\ CancelLevels \subseteq Level
      BY DeviceLevelAssumption DEF Level, cl_none, cl_kill
    <3> QED
      BY <3>1, MaxLevelType
      DEF Run, CancelRun, ReadEnds, Loop, Stop, Sleep, Proceed, Wake, Woken, StartWrite,
          DeviceInv, DeviceTypeOK
  <2> QED
    BY <1>1, <2>1, <2>2, <2>3 DEF DeviceInv, DeviceTypeOK
<1>5. TokenInv'
  BY <1>1
  DEF Run, CancelRun, ReadEnds, Loop, Stop, Sleep, Proceed, Wake, Woken, StartWrite,
      DeviceInv, TokenInv
<1> QED
  BY <1>2, <1>3, <1>4, <1>5 DEF DeviceInv

(* write_packet keeps the invariant.                                        *)
LEMMA WritePacketStep ==
  ASSUME DeviceInv, NEW p \in Packets, WritePacket(p)
  PROVE  DeviceInv'
<1>1. /\ buffer \in Seq(Packets) /\ backlog \in Seq(Packets) /\ given \in Seq(Packets)
      /\ wire \in Seq(Packets) /\ pos \in Nat /\ pos <= Len(buffer)
      /\ Len(buffer) \in Nat
  BY LenProperties DEF DeviceInv, DeviceTypeOK
<1>2. /\ given' = given \o <<p>> /\ <<p>> \in Seq(Packets) /\ ToSet(<<p>>) = {p}
      /\ given' \in Seq(Packets) /\ ToSet(given') = ToSet(given) \cup {p}
  <2>1. <<p>> \in Seq(Packets) /\ ToSet(<<p>>) = {p}
    BY DEF ToSet
  <2>2. given' = given \o <<p>>
    BY <1>1, AppendIsConcat DEF WritePacket
  <2>3. given \o <<p>> \in Seq(Packets) /\ ToSet(given \o <<p>>) = ToSet(given) \cup ToSet(<<p>>)
    BY <1>1, <2>1, Joined
  <2> QED
    BY <2>1, <2>2, <2>3
<1>3. UNCHANGED <<writer, level, pos, inner, reader, runs, wire, broken>>
  BY DEF WritePacket
<1>4. CASE buffer = <<>>
  <2>1. buffer' = <<p>> /\ token' = TRUE /\ backlog' = <<>> /\ backlog = <<>> /\ pos = 0 /\ Len(<<p>>) = 1
    BY <1>4 DEF WritePacket, DeviceInv, PosInv
  <2>2. DeviceTypeOK'
    BY <1>1, <1>2, <1>3, <2>1 DEF DeviceInv, DeviceTypeOK
  <2>3. PosInv'
    BY <1>3, <1>4, <2>1 DEF DeviceInv, PosInv
  <2>4. SubSeq(<<p>>, 1, 1) = <<p>> /\ SubSeq(<<>>, 1, 0) = <<>> /\ SubSeq(<<p>>, 1, 0) = <<>>
    <3>1. SubSeq(<<p>>, 1, Len(<<p>>)) = <<p>>
      BY <1>2, SubSeqFull
    <3>2. \A s : SubSeq(s, 1, 0) = <<>>
      BY SubSeqEmpty
    <3> QED
      BY <2>1, <3>1, <3>2
  <2>5. InOrder'
    <3>1. CASE ~broken
      <4>1. given = wire \o <<>> \o <<>>
        <5>1. SubSeq(buffer, pos + 1, Len(buffer)) = <<>> /\ backlog = <<>>
          BY <1>4, <2>1, <2>4, EmptySeq
        <5> QED
          BY <3>1, <5>1, Zenon DEF DeviceInv, InOrder
      <4>2. wire \o <<>> = wire /\ wire \o <<p>> \in Seq(Packets)
        BY <1>1, <1>2, ConcatEmptySeq, ConcatProperties
      <4>3. (wire \o <<p>>) \o <<>> = wire \o <<p>>
        BY <4>2, ConcatEmptySeq
      <4>4. given' = wire' \o SubSeq(buffer', pos' + 1, Len(buffer')) \o backlog'
        BY <1>2, <1>3, <2>1, <2>4, <4>1, <4>2, <4>3
      <4> QED
        BY <4>4 DEF InOrder
    <3> QED
      BY <1>3, <3>1 DEF InOrder
  <2>6. WrittenInv'
    BY <1>3, <2>1, <2>4, ToSetEmpty DEF WrittenInv
  <2>7. NothingLost'
    BY <1>2, <1>3, <1>4, <2>1, ToSetEmpty DEF DeviceInv, NothingLost
  <2>8. TokenInv'
    BY <2>1 DEF TokenInv
  <2> QED
    BY <2>2, <2>3, <2>5, <2>6, <2>7, <2>8 DEF DeviceInv
<1>5. CASE buffer # <<>>
  <2>1. backlog' = backlog \o <<p>> /\ UNCHANGED <<buffer, token>>
    BY <1>1, <1>5, AppendIsConcat DEF WritePacket
  <2>2. backlog' \in Seq(Packets) /\ ToSet(backlog') = ToSet(backlog) \cup {p}
    <3>1. backlog \o <<p>> \in Seq(Packets) /\ ToSet(backlog \o <<p>>) = ToSet(backlog) \cup ToSet(<<p>>)
      BY <1>1, <1>2, Joined, Zenon
    <3> QED
      BY <1>2, <2>1, <3>1, Zenon
  <2>3. DeviceTypeOK' /\ PosInv' /\ TokenInv'
    BY <1>2, <1>3, <1>5, <2>1, <2>2 DEF DeviceInv, DeviceTypeOK, PosInv, TokenInv
  <2>4. WrittenInv' /\ NothingLost'
    BY <1>2, <1>3, <2>1, <2>2 DEF DeviceInv, WrittenInv, NothingLost
  <2>5. InOrder'
    <3>1. CASE ~broken
      <4>1. given = wire \o Rest \o backlog /\ Rest \in Seq(Packets)
        BY <1>1, <3>1, SplitSet DEF DeviceInv, InOrder, Rest
      <4>2. wire \o Rest \in Seq(Packets)
        BY <1>1, <4>1, Joined
      <4>3. (wire \o Rest \o backlog) \o <<p>> = (wire \o Rest) \o (backlog \o <<p>>)
        <5> DEFINE x == wire \o Rest
        <5>1. x \in Seq(Packets) /\ backlog \in Seq(Packets) /\ <<p>> \in Seq(Packets)
          BY <1>1, <1>2, <4>2
        <5> HIDE DEF x
        <5>2. (x \o backlog) \o <<p>> = x \o (backlog \o <<p>>)
          BY <5>1, Joined, Zenon
        <5> QED
          BY <5>2 DEF x
      <4>4. Rest' = Rest
        BY <1>3, <2>1 DEF Rest
      <4>5. given' = wire' \o Rest' \o backlog'
        BY <1>2, <1>3, <2>1, <4>1, <4>3, <4>4
      <4> QED
        BY <4>5 DEF InOrder, Rest
    <3> QED
      BY <1>3, <3>1 DEF InOrder
  <2> QED
    BY <2>3, <2>4, <2>5 DEF DeviceInv
<1> QED
  BY <1>4, <1>5

(* So does a write that takes a part.                                       *)
LEMMA WriteSomeStep ==
  ASSUME DeviceInv, NEW n \in 1 .. Len(buffer), WriteSome(n)
  PROVE  DeviceInv'
<1>1. /\ n \in 0 .. Len(buffer) - pos
      /\ wire' = wire \o SubSeq(buffer, pos + 1, pos + n) /\ pos' = pos + n
      /\ UNCHANGED <<buffer, backlog, token, writer, level, inner, reader, runs, given, broken>>
      /\ writer = "writing"
  BY LenProperties DEF WriteSome, DeviceInv, DeviceTypeOK
<1>2. /\ wire' \in Seq(Packets)
      /\ ToSet(wire) \subseteq ToSet(wire')
      /\ ToSet(wire') \subseteq ToSet(wire) \cup ToSet(buffer)
      /\ pos' \in 0 .. Len(buffer')
      /\ WrittenInv'
      /\ wire' \o Rest' = wire \o Rest
  BY <1>1, TakesSome DEF Rest, WrittenInv
<1>3. DeviceTypeOK' /\ PosInv' /\ TokenInv'
  BY <1>1, <1>2 DEF DeviceInv, DeviceTypeOK, PosInv, TokenInv
<1>4. InOrder'
  <2>1. ~broken => given = wire \o Rest \o backlog
    BY DEF DeviceInv, InOrder, Rest
  <2>2. ~broken' => given' = wire' \o Rest' \o backlog'
    BY <1>1, <1>2, <2>1
  <2> QED
    BY <2>2 DEF InOrder, Rest
<1>5. NothingLost'
  BY <1>1, <1>2 DEF DeviceInv, NothingLost
<1> QED
  BY <1>2, <1>3, <1>4, <1>5 DEF DeviceInv

(* The rest of the buffer is all that the wire does not have of it.          *)
LEMMA WriteRestStep ==
  ASSUME DeviceInv, WriteRest
  PROVE  DeviceInv'
<1>1. /\ buffer \in Seq(Packets) /\ backlog \in Seq(Packets) /\ given \in Seq(Packets)
      /\ wire \in Seq(Packets) /\ pos \in 0 .. Len(buffer) /\ Len(backlog) \in Nat
  BY LenProperties DEF DeviceInv, DeviceTypeOK
<1>2. /\ wire' = wire \o Rest /\ buffer' = backlog /\ backlog' = <<>> /\ pos' = 0
      /\ writer' = "body" /\ UNCHANGED <<level, inner, reader, runs, given, broken>>
  BY DEF WriteRest, Rest
<1>3. token' = (token \/ backlog # <<>>)
  BY DEF WriteRest
<1>4. /\ Rest \in Seq(Packets)
      /\ ToSet(buffer) = ToSet(SubSeq(buffer, 1, pos)) \cup ToSet(Rest)
  BY <1>1, SplitSet DEF Rest
<1>5. wire' \in Seq(Packets) /\ ToSet(wire') = ToSet(wire) \cup ToSet(Rest)
  BY <1>1, <1>2, <1>4, Joined
<1>6. DeviceTypeOK'
  <2>1. token' \in BOOLEAN
    BY <1>3, Zenon
  <2>2. pos' \in Nat /\ pos' <= Len(buffer')
    BY <1>1, <1>2
  <2>3. <<>> \in Seq(Packets)
    OBVIOUS
  <2> QED
    BY <1>1, <1>2, <1>5, <2>1, <2>2, <2>3 DEF DeviceInv, DeviceTypeOK, WriterPC, Running
<1>7. PosInv'
  BY <1>2 DEF PosInv
<1>8. InOrder'
  <2>1. SubSeq(backlog, 1, Len(backlog)) = backlog /\ wire' \o backlog \in Seq(Packets)
    BY <1>1, <1>5, SubSeqFull, Joined
  <2>2. (wire' \o backlog) \o <<>> = wire' \o backlog
    BY <2>1, ConcatEmptySeq
  <2>3. ~broken => given = wire \o Rest \o backlog
    BY DEF DeviceInv, InOrder, Rest
  <2>4. SubSeq(buffer', pos' + 1, Len(buffer')) = backlog
    BY <1>2, <2>1
  <2>5. ~broken' => given' = wire' \o SubSeq(buffer', pos' + 1, Len(buffer')) \o backlog'
    BY <1>2, <2>2, <2>3, <2>4, Zenon
  <2> QED
    BY <2>5 DEF InOrder
<1>9. WrittenInv'
  <2>1. SubSeq(backlog, 1, 0) = <<>>
    BY SubSeqEmpty
  <2> QED
    BY <1>2, <2>1, ToSetEmpty DEF WrittenInv
<1>10. NothingLost'
  <2>1. ToSet(SubSeq(buffer, 1, pos)) \subseteq ToSet(wire)
    BY DEF DeviceInv, WrittenInv
  <2>2. ToSet(given) = ToSet(wire) \cup ToSet(buffer) \cup ToSet(backlog)
    BY DEF DeviceInv, NothingLost
  <2> QED
    BY <1>2, <1>4, <1>5, <2>1, <2>2, ToSetEmpty DEF NothingLost
<1>11. TokenInv'
  <2>1. buffer' # <<>> => token'
    BY <1>2, <1>3, Zenon
  <2> QED
    BY <2>1 DEF TokenInv
<1> QED
  BY <1>6, <1>7, <1>8, <1>9, <1>10, <1>11 DEF DeviceInv

(* A run that ends at some point of its write: whatever the stream has taken *)
(* is counted as written again by the next run.                              *)
LEMMA RunEnds ==
  ASSUME DeviceInv, NEW n \in 0 .. Len(buffer) - pos,
         wire' = wire \o SubSeq(buffer, pos + 1, pos + n),
         writer' = "off", pos' = 0, reader' \in BOOLEAN, broken' \in BOOLEAN,
         broken \/ buffer # <<>> => broken',
         UNCHANGED <<buffers, level, inner, runs, given>>
  PROVE  DeviceInv'
<1>1. /\ wire' \in Seq(Packets)
      /\ ToSet(wire) \subseteq ToSet(wire')
      /\ ToSet(wire') \subseteq ToSet(wire) \cup ToSet(buffer)
  BY TakesSome
<1>2. buffer \in Seq(Packets) /\ Len(buffer) \in Nat /\ wire \in Seq(Packets)
  BY LenProperties DEF DeviceInv, DeviceTypeOK
<1>3. DeviceTypeOK' /\ PosInv'
  BY <1>1, <1>2 DEF DeviceInv, DeviceTypeOK, WriterPC, PosInv
<1>4. InOrder'
  <2>1. CASE broken'
    BY <2>1 DEF InOrder
  <2>2. CASE ~broken'
    <3>1. ~broken /\ buffer = <<>> /\ pos = 0 /\ n = 0
      BY <2>2 DEF DeviceInv, PosInv
    <3>2. SubSeq(buffer, pos + 1, pos + n) = <<>>
      BY <3>1, SubSeqEmpty
    <3>3. wire' = wire
      BY <1>2, <3>2, ConcatEmptySeq
    <3> QED
      BY <3>1, <3>3 DEF DeviceInv, InOrder
  <2> QED
    BY <2>1, <2>2
<1>5. WrittenInv'
  <2>1. SubSeq(buffer, 1, 0) = <<>>
    BY SubSeqEmpty
  <2> QED
    BY <2>1, ToSetEmpty DEF WrittenInv
<1>6. NothingLost'
  BY <1>1 DEF DeviceInv, NothingLost
<1>7. TokenInv'
  BY DEF DeviceInv, TokenInv
<1> QED
  BY <1>3, <1>4, <1>5, <1>6, <1>7 DEF DeviceInv

(* So does one that fails.                                                  *)
LEMMA WriteFailsStep ==
  ASSUME DeviceInv, WriteFails
  PROVE  DeviceInv'
<1>1. pos \in Nat /\ pos <= Len(buffer) /\ Len(buffer) \in Nat /\ reader \in BOOLEAN
  BY LenProperties DEF DeviceInv, DeviceTypeOK
<1>2. PICK n \in 0 .. Len(buffer) - pos : wire' = wire \o SubSeq(buffer, pos + 1, pos + n)
  BY <1>1 DEF WriteFails
<1>3. /\ writer' = "off" /\ pos' = 0 /\ reader' = reader
      /\ UNCHANGED <<buffers, level, inner, runs, given>>
  BY DEF WriteFails
<1>4. broken' \in BOOLEAN /\ broken'
  BY Zenon DEF WriteFails
<1> QED
  BY <1>1, <1>2, <1>3, <1>4, RunEnds

(* So does a run that is destroyed.                                         *)
LEMMA DropRunStep ==
  ASSUME DeviceInv, DropRun
  PROVE  DeviceInv'
<1>1. pos \in Nat /\ pos <= Len(buffer) /\ Len(buffer) \in Nat
  BY LenProperties DEF DeviceInv, DeviceTypeOK
<1>2. PICK n \in 0 .. Len(buffer) - pos : wire' = wire \o SubSeq(buffer, pos + 1, pos + n)
  BY <1>1 DEF DropRun
<1>3. writer' = "off" /\ pos' = 0 /\ UNCHANGED <<buffers, level, inner, runs, given>>
  BY DEF DropRun
<1>4. /\ reader' \in BOOLEAN /\ broken' \in BOOLEAN
      /\ broken \/ buffer # <<>> => broken'
  BY Zenon DEF DropRun
<1> QED
  BY <1>2, <1>3, <1>4, RunEnds

(* Every step keeps the invariant.                                          *)
LEMMA DeviceStep == DeviceInv /\ [Next]_device => DeviceInv'
<1> SUFFICES ASSUME DeviceInv, [Next]_device PROVE DeviceInv'
  OBVIOUS
<1>1. CASE UNCHANGED device
  BY <1>1
  DEF DeviceInv, DeviceTypeOK, PosInv, InOrder, WrittenInv, NothingLost, TokenInv
<1> QED
  BY <1>1, QuietStep, WritePacketStep, WriteSomeStep, WriteRestStep, WriteFailsStep, DropRunStep
  DEF Next, Write

(* The invariant always holds.                                              *)
LEMMA DeviceInvariance == Spec => []DeviceInv
BY DeviceInitInv, DeviceStep, PTL DEF Spec
-----------------------------------------------------------------------------
(* The variables keep their types, and no more counts as written than there  *)
(* is in the buffer.                                                         *)
THEOREM DeviceTyped == Spec => []DeviceTypeOK
<1>1. DeviceInv => DeviceTypeOK
  BY DEF DeviceInv
<1> QED
  BY <1>1, DeviceInvariance, PTL

(* Packets leave in the order in which write_packet took them, each once,    *)
(* over any number of runs, as long as none ended with something to write.   *)
THEOREM PacketsInOrder == Spec => []InOrder
<1>1. DeviceInv => InOrder
  BY DEF DeviceInv
<1> QED
  BY <1>1, DeviceInvariance, PTL

(* A packet that was taken has been written or is in one of the buffers,     *)
(* also when runs fail, are cancelled or dropped in the middle of a write.   *)
THEOREM PacketsKept == Spec => []NothingLost
<1>1. DeviceInv => NothingLost
  BY DEF DeviceInv
<1> QED
  BY <1>1, DeviceInvariance, PTL

(* The loop never sleeps, and no run ends, over packets without a token to   *)
(* wake it for them, unless a run has ended before its buffers were written. *)
THEOREM TokenForWork == Spec => []WorkIsStarted
<1>1. DeviceInv => WorkIsStarted
  BY DEF DeviceInv, TokenInv, WorkIsStarted
<1> QED
  BY <1>1, DeviceInvariance, PTL
=============================================================================
