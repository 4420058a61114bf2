------------------------------- MODULE Tunnel -------------------------------
(***************************************************************************)
(* What the clients of a device keep: the tunnel handler its requests, the    *)
(* descriptor readers their buffers, and the device the list of receivers     *)
(* each packet is handed to.  The state is one record, c, and an operator     *)
(* gives the record after a call.                                            *)
(*                                                                         *)
(* Promises hold 0 until they are set.  The sizes of reads are left out: a    *)
(* packet with data fits in any of them.                                     *)
(***************************************************************************)
EXTENDS StreamParser, Descriptor

CONSTANTS
    Opens,   \* the calls of tunnel_handler::open
    Reads,   \* the calls of tunnel_handler::read
    Readers, \* the calls of read_device_descriptor
    Pipes    \* the pipes of the device

ASSUME PipesAssumption == Pipes \subseteq 1..255

Cmd == 1  \* the tunnel's command, as its configuration has it

Client == [
    receivers |-> <<"tunnel">>,                 \* m_receivers
    opens     |-> <<>>,                         \* m_active_opens
    opened    |-> [o \in Opens |-> 0],          \* the promise of each open
    reads     |-> [p \in Pipes |-> <<>>],       \* m_read_irps
    got       |-> [r \in Reads |-> 0],          \* the promise of each read
    buffer    |-> [r \in Readers |-> <<>>],     \* handler::m_buffer
    parsed    |-> [r \in Readers |-> <<>>],     \* what went to handler::m_out
    handled   |-> <<>>]                         \* the packets so far (history)
-----------------------------------------------------------------------------
(* list::push_front.                                                         *)
RegisterReceiver(c, h) == [c EXCEPT !.receivers = <<h>> \o @]

UnregisterReceiver(c, h) == [c EXCEPT !.receivers = SelectSeq(@, LAMBDA g : g # h)]

OpenTunnel(c, o) == [c EXCEPT !.opens = Append(@, o)]

ReadTunnel(c, pipe, r) == [c EXCEPT !.reads[pipe] = Append(@, r)]

OpenAnswer(c, p) ==
    IF c.opens = <<>> THEN c
    ELSE [c EXCEPT !.opens = Tail(@), !.opened[Head(c.opens)] = p[4]]

(* Mutant: the newest request is answered.                                   *)
PipeDataNewest(c, p) ==
    IF p[2] \notin Pipes \/ c.reads[p[2]] = <<>> THEN c
    ELSE [c EXCEPT !.reads[p[2]] = Front(@), !.got[Last(c.reads[p[2]])] = p[3]]

(* Data nobody has asked for is dropped.                                     *)
PipeData(c, p) ==
    IF p[2] \notin Pipes \/ c.reads[p[2]] = <<>> THEN c
    ELSE [c EXCEPT !.reads[p[2]] = Tail(@), !.got[Head(c.reads[p[2]])] = p[3]]

HandleTunnel(c, p) ==
    CASE p[1] # Cmd -> c
      [] Len(p) >= 3 /\ p[2] = 0 /\ p[3] = 0 -> c  \* a tunnel list
      [] Len(p) = 4 /\ p[2] = 0 /\ p[3] = 1 -> OpenAnswer(c, p)
      [] Len(p) > 2 -> PipeData(c, p)
      [] OTHER -> c

(* Mutant: an empty packet does not end the descriptor.                      *)
HandleReaderEager(c, r, p) ==
    IF Head(p) # 0 THEN c
    ELSE LET buffer == c.buffer[r] \o Tail(p)
         IN  IF Len(p) = MaxSize \/ Len(p) = 1 THEN [c EXCEPT !.buffer[r] = buffer]
             ELSE [UnregisterReceiver(c, r) EXCEPT
                      !.buffer[r] = buffer, !.parsed[r] = <<ParseDescriptor(buffer)>>]

(* A packet that is not full is the last one; the reader takes itself out of  *)
(* the list, whether the descriptor can be parsed or not.                    *)
HandleReader(c, r, p) ==
    IF Head(p) # 0 THEN c
    ELSE LET buffer == c.buffer[r] \o Tail(p)
         IN  IF Len(p) = MaxSize THEN [c EXCEPT !.buffer[r] = buffer]
             ELSE [UnregisterReceiver(c, r) EXCEPT
                      !.buffer[r] = buffer, !.parsed[r] = <<ParseDescriptor(buffer)>>]

(* The next receiver is remembered before one is called, and none but the one *)
(* that is called leaves the list meanwhile.                                 *)
HandlePacket(c, p) ==
    FoldLeft(LAMBDA acc, h : IF h = "tunnel" THEN HandleTunnel(acc, p)
                                             ELSE HandleReader(acc, h, p),
             [c EXCEPT !.handled = Append(@, p)],
             c.receivers)
=============================================================================
