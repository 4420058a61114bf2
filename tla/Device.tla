------------------------------- MODULE Device -------------------------------
(***************************************************************************)
(* A device at the end of a stream, and its clients at the other: tunnels are *)
(* opened and read, and descriptors are read, by several tasks at once, which *)
(* share one stream and tell their answers apart by what is in them and by    *)
(* the order they come in.                                                   *)
(*                                                                         *)
(* The device answers the requests in the order they were written, sends data *)
(* when it likes, and what it sends arrives in order, after some noise and    *)
(* cut into buffers anywhere.  A pipe that is closed is given to the next     *)
(* tunnel.                                                                   *)
(***************************************************************************)
EXTENDS Tunnel, FiniteSets

CONSTANTS
    Descriptors, \* of devices, as trees
    Noise,       \* the bytes that may come before the first packet
    MaxData,     \* bound on the data packets
    MaxCalls,    \* bound on the requests about tunnels
    MaxMixed,    \* bound on the requests when there is one for a descriptor
    MaxCuts      \* bound on the buffers that do not hold all there is

ASSUME NoiseAssumption == StartByte \notin Noise
ASSUME BoundAssumption == {MaxData, MaxCalls, MaxMixed, MaxCuts} \subseteq Nat

VARIABLES
    tree,     \* the device's descriptor
    requests, \* what is on its way to the device
    wire,     \* the bytes on their way back
    parser,   \* m_parser
    c,        \* the clients
    pipe,     \* the pipe the device gave each open
    closed,   \* the opens whose pipe it has taken back
    data,     \* for whom each data packet of a pipe was
    sent,     \* the packets the device has sent (history)
    asked,    \* the reads of each pipe, in order, and the open they rest on (history)
    gone,     \* the tunnels that were closed (history)
    behind,   \* the pipes that were closed with reads waiting (history)
    failed,   \* opens whose request was not written (history)
    clean,    \* the readers that were alone, from their registration on (history)
    left,     \* the readers whose task was cancelled (history)
    calls,    \* how many requests of each kind there were
    cuts      \* how often a buffer did not hold all there is

line    == <<requests, wire, parser>>
device  == <<tree, pipe, closed, data, sent>>
history == <<asked, gone, behind, failed, clean, left>>
bounds  == <<calls, cuts>>
vars    == <<line, device, c, history, bounds>>

(* What the device's descriptor looks like on the wire, and what a client      *)
(* should make of it.                                                        *)
RECURSIVE Encode(_)
Encode(t) ==
    IF t.k = "config" THEN <<0, 1>> \o t.guid \o <<t.cmd, 1, Len(t.data)>> \o t.data
    ELSE <<(IF t.k = "or" THEN 128 ELSE 0) + Len(t.of)>> \o
         FoldLeft(LAMBDA acc, u : acc \o Encode(u), <<>>, t.of)

RECURSIVE Configs(_, _)
Configs(t, seq) ==
    IF t.k = "config"
    THEN {[flags |-> 1, guid |-> t.guid, cmd |-> t.cmd, count |-> 1, actseq |-> seq, data |-> t.data]}
    ELSE UNION {Configs(t.of[i], Append(seq, i - 1)) : i \in DOMAIN t.of}

Bytes == <<1>> \o [i \in 1..GuidSize |-> 7] \o Encode(tree)

RECURSIVE Packets(_)
Packets(bytes) ==
    IF Len(bytes) < MaxSize - 1 THEN << <<0>> \o bytes >>
    ELSE << <<0>> \o SubSeq(bytes, 1, MaxSize - 1) >> \o Packets(SubSeq(bytes, MaxSize, Len(bytes)))

Init ==
    /\ tree \in Descriptors
    /\ requests = <<>> /\ parser = Parser
    /\ wire \in {<<>>} \cup {<<b>> : b \in Noise}
    /\ c = Client
    /\ pipe = [o \in Opens |-> 0] /\ closed = {} /\ data = [p \in Pipes |-> <<>>]
    /\ sent = <<>> /\ asked = [p \in Pipes |-> <<>>]
    /\ gone = {} /\ behind = {} /\ failed = {} /\ clean = {} /\ left = {}
    /\ calls = [tunnel |-> 0, descriptor |-> 0] /\ cuts = 0
-----------------------------------------------------------------------------
(* The device.                                                               *)
Send(ps) ==
    /\ sent' = sent \o ps
    /\ wire' = wire \o FlattenSeq([i \in DOMAIN ps |-> Frame(ps[i])])

Holders(p) == {o \in Opens \ closed : pipe[o] = p}

AnswerOpen(o) ==
    /\ requests # <<>> /\ Head(requests) = <<"open", o>>
    /\ LET free == {p \in Pipes : Holders(p) = {}}
       IN  /\ free # {}
           /\ pipe' = [pipe EXCEPT ![o] = CHOOSE p \in free : \A q \in free : p <= q]
    /\ Send(<< <<Cmd, 0, 1, pipe'[o]>> >>)
    /\ requests' = Tail(requests)
    /\ UNCHANGED <<parser, tree, closed, data, c, history, bounds>>

TakeBack(p) ==
    /\ requests # <<>> /\ Head(requests) = <<"close", p>>
    /\ closed' = closed \cup Holders(p)
    /\ requests' = Tail(requests)
    /\ UNCHANGED <<wire, parser, tree, pipe, data, sent, c, history, bounds>>

AnswerDescriptor ==
    /\ requests # <<>> /\ Head(requests) = <<"descriptor">>
    /\ Send(Packets(Bytes))
    /\ requests' = Tail(requests)
    /\ UNCHANGED <<parser, tree, pipe, closed, data, c, history, bounds>>

SendData(p) ==
    /\ FoldFunction(LAMBDA ds, n : n + Len(ds), 0, data) < MaxData
    /\ \E o \in Holders(p) : data' = [data EXCEPT ![p] = Append(@, o)]
    /\ Send(<< <<Cmd, p, Len(data'[p])>> >>)
    /\ UNCHANGED <<requests, parser, tree, pipe, closed, c, history, bounds>>
-----------------------------------------------------------------------------
(* The clients.  A task that waits for an open or a read can be cancelled at   *)
(* any time; its request stays where it is, and the answer is for nobody, so   *)
(* that nothing changes here.                                                *)
Request(kind) ==
    /\ calls' = [calls EXCEPT ![kind] = @ + 1]
    /\ calls'.tunnel + calls'.descriptor <= IF calls'.descriptor = 0 THEN MaxCalls ELSE MaxMixed

Open(o) ==
    /\ Request("tunnel")
    /\ o \notin ToSet(c.opens) /\ c.opened[o] = 0
    /\ c' = OpenTunnel(c, o)
    /\ \/ requests' = Append(requests, <<"open", o>>) /\ UNCHANGED failed
       \/ failed' = failed \cup {o} /\ UNCHANGED requests
    /\ UNCHANGED <<wire, parser, device, asked, gone, behind, clean, left, cuts>>

Usable == {o \in Opens \ gone : c.opened[o] # 0}

Read(r, o) ==
    /\ o \in Usable
    /\ \A q \in Pipes : \A i \in DOMAIN asked[q] : asked[q][i][1] # r
    /\ c' = ReadTunnel(c, c.opened[o], r)
    /\ asked' = [asked EXCEPT ![c.opened[o]] = Append(@, <<r, o>>)]
    /\ UNCHANGED <<line, device, gone, behind, failed, clean, left, bounds>>

(* The handler is not told: the reads that wait stay where they are.         *)
FastClose(o) ==
    /\ Request("tunnel")
    /\ o \in Usable
    /\ requests' = Append(requests, <<"close", c.opened[o]>>)
    /\ gone' = gone \cup {o}
    /\ behind' = IF c.reads[c.opened[o]] = <<>> THEN behind ELSE behind \cup {c.opened[o]}
    /\ UNCHANGED <<wire, parser, device, c, asked, failed, clean, left, cuts>>

Registered == {r \in Readers : r \in ToSet(c.receivers)}

(* No descriptor is on its way.                                              *)
Silent ==
    /\ \A i \in DOMAIN requests : requests[i] # <<"descriptor">>
    /\ \A i \in (Len(c.handled) + 1)..Len(sent) : Head(sent[i]) # 0

(* The handler is registered before the request is written.                  *)
ReadDescriptor(r) ==
    /\ Request("descriptor")
    /\ r \notin Registered /\ r \notin left /\ c.parsed[r] = <<>>
    /\ c' = RegisterReceiver(c, r)
    /\ requests' = Append(requests, <<"descriptor">>)
    /\ clean' = IF Registered = {} /\ Silent THEN clean \cup {r} ELSE clean
    /\ UNCHANGED <<wire, parser, device, asked, gone, behind, failed, left, cuts>>

(* The task is destroyed and the handler with it.                            *)
CancelReader(r) ==
    /\ r \in Registered
    /\ c' = UnregisterReceiver(c, r)
    /\ left' = left \cup {r}
    /\ UNCHANGED <<line, device, asked, gone, behind, failed, clean, bounds>>

(* The read loop's body, with as much as the stream gave it.                 *)
ReadStream(n) ==
    /\ wire # <<>>
    /\ IF n = Len(wire) THEN UNCHANGED cuts ELSE cuts < MaxCuts /\ cuts' = cuts + 1
    /\ LET s == Parse(parser, SubSeq(wire, 1, n))
       IN  /\ parser' = [pos |-> s.pos, partial |-> s.partial]
           /\ c' = FoldLeft(HandlePacket, c, s.packets)
    /\ wire' = SubSeq(wire, n + 1, Len(wire))
    /\ UNCHANGED <<requests, device, history, calls>>

Next ==
    \/ \E o \in Opens : AnswerOpen(o) \/ Open(o) \/ FastClose(o)
    \/ AnswerDescriptor \/ \E p \in Pipes : SendData(p) \/ TakeBack(p)
    \/ \E r \in Reads, o \in Opens : Read(r, o)
    \/ \E r \in Readers : ReadDescriptor(r) \/ CancelReader(r)
    \/ \E n \in 1..Len(wire) : ReadStream(n)

Spec == Init /\ [][Next]_vars
-----------------------------------------------------------------------------
(* However the stream is cut, the packets that are handed out are those the   *)
(* device has sent, in order, and none is kept back once its last byte is    *)
(* there (stream_parser.cpp:11-63).                                          *)
PacketsArriveAsSent ==
    /\ IsPrefix(c.handled, sent)
    /\ wire = <<>> => c.handled = sent /\ parser = Parser

(* The reads of a pipe are served in the order they were called, each with     *)
(* later data than the one before, also when some of the calls were cancelled:*)
(* the answer to those is not for anybody else.  And while every open was       *)
(* written, each gets the pipe the device gave to it and not to another, and    *)
(* what a read gets was sent through the tunnel it was called on.  Not so when  *)
(* a pipe was closed with reads waiting: those take what the next tunnel of     *)
(* that number is sent                                                       *)
(* (tunnel.cpp:58-81, 102-123).                                              *)
AnswersMatch ==
    /\ \A p \in Pipes : \A i, j \in DOMAIN asked[p] :
          i < j /\ c.got[asked[p][j][1]] # 0 =>
              c.got[asked[p][i][1]] \in 1..c.got[asked[p][j][1]] - 1
    /\ failed = {} =>
          /\ \A o \in Opens : c.opened[o] \in {0, pipe[o]}
          /\ \A p \in Pipes \ behind : \A i \in DOMAIN asked[p] :
                LET n == c.got[asked[p][i][1]]
                IN  n # 0 => data[p][n] = asked[p][i][2]

(* A reader that was alone gets the device's descriptor, as soon as it is      *)
(* there, each configuration with the way to it, whatever the size of the      *)
(* descriptor and whoever came to read it meanwhile.  One that registers in    *)
(* the middle of an answer takes the tail for a descriptor: it fails or, when  *)
(* the tail begins like one, is given configurations the device does not have *)
(* (descriptor_reader.cpp:24-47, descriptor.cpp:21-108).                     *)
DescriptorIntact ==
    \A r \in clean :
        /\ requests = <<>> /\ wire = <<>> => c.parsed[r] # <<>> \/ r \in left
        /\ c.parsed[r] # <<>> =>
              /\ c.parsed[r][1].ok
              /\ Range(c.parsed[r][1].configs) = Configs(tree, <<>>)
=============================================================================
