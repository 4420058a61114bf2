---------------------------- MODULE StreamDevice ----------------------------
(***************************************************************************)
(* stream_device: packets are collected in a buffer, or behind the one that  *)
(* is being written in a backlog, and written by a loop that run() starts    *)
(* and a token in the channel m_start_write wakes.  A run is stopped by a    *)
(* cancel level and the device may be run again.                             *)
(*                                                                         *)
(* A packet is written as a whole here and its framing is left out; a write  *)
(* to the stream takes any number of packets of the buffer.  The read loop   *)
(* is only what a run has to wait for.  write_packet is called between the   *)
(* steps of the loop: by the continuation of some other task.                *)
(***************************************************************************)
EXTENDS CancelLevel, Sequences, SequencesExt

CONSTANTS
    Packets,     \* the packets that may be written
    CancelLevels, \* the levels a run is cancelled with
    MaxRuns      \* bound on the calls of run()

ASSUME DeviceLevelAssumption == CancelLevels \subseteq Level \ {cl_none}
ASSUME RunsAssumption == MaxRuns \in Nat

VARIABLES
    buffer,  \* m_write_buffer
    backlog, \* m_write_backlog
    token,   \* m_start_write holds a value
    writer,  \* where the write loop is
    reader,  \* the read loop is running
    runs,    \* how often run() was called
    level,   \* m_cancel_level of the write loop
    pos,     \* how much of the buffer write_all has written
    inner,   \* m_cancel_level of write_all's loop
    given,   \* the packets write_packet has taken, in order (history)
    wire,    \* the packets the stream has taken, in order (history)
    broken   \* a run has ended before its buffers were written (history)

buffers == <<buffer, backlog, token>>
writing == <<writer, level, pos, inner>>
history == <<given, wire, broken>>
device  == <<buffers, writing, reader, runs, history>>

(* body: about to enter the body of the loop.  waiting: for the token.       *)
(* woken: prepare_wait has taken the token.  cut: the wait was cancelled.    *)
Running   == {"body", "waiting", "woken", "cut", "writing"}
WriterPC  == {"off"} \cup Running

Init ==
    /\ buffer = <<>> /\ backlog = <<>> /\ token = FALSE
    /\ writer = "off" /\ reader = FALSE /\ runs = 0
    /\ level = cl_none /\ pos = 0 /\ inner = cl_none
    /\ given = <<>> /\ wire = <<>> /\ broken = FALSE

Fresh == Packets \ ToSet(given)
-----------------------------------------------------------------------------
(* Without assertions a fire() that does not complete leaves the one token   *)
(* the channel has room for.                                                 *)
WritePacket(p) ==
    /\ writer # "body" /\ p \in Fresh
    /\ given' = Append(given, p)
    /\ IF buffer = <<>>
       THEN /\ buffer' = <<p>>
            /\ token' = TRUE
            /\ UNCHANGED backlog
       ELSE /\ backlog' = Append(backlog, p)
            /\ UNCHANGED <<buffer, token>>
    /\ UNCHANGED <<writing, reader, runs, wire, broken>>

Run ==
    /\ writer = "off" /\ ~reader /\ runs < MaxRuns
    /\ runs' = runs + 1
    /\ writer' = "body" /\ reader' = TRUE
    /\ level' = cl_none
    /\ UNCHANGED <<buffers, pos, inner, history>>

(* Mutant: a level below cl_abort does not cut the wait.                     *)
CancelRunAbort ==
    /\ writer # "body" /\ (writer # "off" \/ reader)
    /\ \E cl \in CancelLevels :
        /\ level' = IF writer = "off" THEN level ELSE MaxLevel(level, cl)
        /\ inner' = IF writer = "writing" THEN MaxLevel(inner, cl) ELSE inner
        /\ writer' = IF writer = "waiting" /\ cl >= cl_abort THEN "cut" ELSE writer
    /\ UNCHANGED <<buffers, pos, reader, runs, history>>

(* Both branches of the run, each from its outermost task inwards.  The wait *)
(* for the token is cut by any level; write_all remembers the level for the  *)
(* end of the write that is under way.                                       *)
CancelRun ==
    /\ writer # "body" /\ (writer # "off" \/ reader)
    /\ \E cl \in CancelLevels :
        /\ level' = IF writer = "off" THEN level ELSE MaxLevel(level, cl)
        /\ inner' = IF writer = "writing" THEN MaxLevel(inner, cl) ELSE inner
        /\ writer' = IF writer = "waiting" THEN "cut" ELSE writer
    /\ UNCHANGED <<buffers, pos, reader, runs, history>>

(* A read fails, the parser's receiver throws, or the loop was cancelled.    *)
ReadEnds ==
    /\ reader /\ writer # "body"
    /\ reader' = FALSE
    /\ UNCHANGED <<buffers, writing, runs, history>>
-----------------------------------------------------------------------------
(* Mutant: a cancelled loop ends whatever is left to write.                  *)
StopAtOnce ==
    /\ writer = "body"
    /\ level >= cl_quit
    /\ writer' = "off"
    /\ UNCHANGED <<buffers, level, pos, inner, reader, runs, history>>

(* The body of the loop: end it, go to sleep, or write at once.              *)
Stop ==
    /\ writer = "body"
    /\ level >= cl_quit /\ buffer = <<>> /\ backlog = <<>>
    /\ writer' = "off"
    /\ UNCHANGED <<buffers, level, pos, inner, reader, runs, history>>

Sleep ==
    /\ writer = "body" /\ ~token
    /\ ~(level >= cl_quit /\ buffer = <<>> /\ backlog = <<>>)
    /\ writer' = "waiting"
    /\ UNCHANGED <<buffers, level, pos, inner, reader, runs, history>>

(* write_all of an empty buffer completes at once, and so does the swap.     *)
StartWrite ==
    /\ pos' = 0 /\ inner' = cl_none
    /\ writer' = IF buffer = <<>> THEN "body" ELSE "writing"
    /\ UNCHANGED <<buffer, backlog, level, reader, runs, history>>

Proceed ==
    /\ writer = "body" /\ token
    /\ ~(level >= cl_quit /\ buffer = <<>> /\ backlog = <<>>)
    /\ token' = FALSE
    /\ StartWrite

Wake ==
    /\ writer = "waiting" /\ token
    /\ token' = FALSE
    /\ writer' = "woken"
    /\ UNCHANGED <<buffer, backlog, level, pos, inner, reader, runs, history>>

(* finish_on: a wait that was cancelled counts as one that was woken.        *)
Woken ==
    /\ writer \in {"woken", "cut"}
    /\ StartWrite
    /\ UNCHANGED token

(* The stream takes a part of what is left.                                  *)
WriteSome(n) ==
    /\ writer = "writing" /\ inner < cl_abort
    /\ n \in 1 .. Len(buffer) - pos - 1
    /\ wire' = wire \o SubSeq(buffer, pos + 1, pos + n)
    /\ pos' = pos + n
    /\ UNCHANGED <<buffers, writer, level, inner, reader, runs, given, broken>>

(* Mutant: the swapped-out buffer is not cleared. *)
WriteRestKeeps ==
    /\ writer = "writing" /\ inner < cl_abort
    /\ wire' = wire \o SubSeq(buffer, pos + 1, Len(buffer))
    /\ buffer' = backlog /\ backlog' = buffer
    /\ token' = (token \/ backlog # <<>>)
    /\ pos' = 0
    /\ writer' = "body"
    /\ UNCHANGED <<level, inner, reader, runs, given, broken>>

(* Mutant: the backlog is cleared before it is swapped in. *)
WriteRestClears ==
    /\ writer = "writing" /\ inner < cl_abort
    /\ wire' = wire \o SubSeq(buffer, pos + 1, Len(buffer))
    /\ buffer' = <<>> /\ backlog' = <<>>
    /\ token' = token
    /\ pos' = 0
    /\ writer' = "body"
    /\ UNCHANGED <<level, inner, reader, runs, given, broken>>

(* Mutant: no token for what was in the backlog. *)
WriteRestQuietly ==
    /\ writer = "writing" /\ inner < cl_abort
    /\ wire' = wire \o SubSeq(buffer, pos + 1, Len(buffer))
    /\ buffer' = backlog /\ backlog' = <<>>
    /\ token' = token
    /\ pos' = 0
    /\ writer' = "body"
    /\ UNCHANGED <<level, inner, reader, runs, given, broken>>

(* Mutant: the count of what is written is kept. *)
WriteRestCounts ==
    /\ writer = "writing" /\ inner < cl_abort
    /\ wire' = wire \o SubSeq(buffer, pos + 1, Len(buffer))
    /\ buffer' = backlog /\ backlog' = <<>>
    /\ token' = (token \/ backlog # <<>>)
    /\ pos' = Len(buffer)
    /\ writer' = "body"
    /\ UNCHANGED <<level, inner, reader, runs, given, broken>>

(* The stream takes the rest: the backlog becomes the buffer, and the loop   *)
(* leaves itself a token if that is not empty.                               *)
WriteRest ==
    /\ writer = "writing" /\ inner < cl_abort
    /\ wire' = wire \o SubSeq(buffer, pos + 1, Len(buffer))
    /\ buffer' = backlog /\ backlog' = <<>>
    /\ token' = (token \/ backlog # <<>>)
    /\ pos' = 0
    /\ writer' = "body"
    /\ UNCHANGED <<level, inner, reader, runs, given, broken>>

(* The write fails, or completes or gives up after a cancel at cl_abort: the *)
(* loop ends with an exception and the buffers stay as they are.             *)
WriteFails ==
    /\ writer = "writing"
    /\ \E n \in 0 .. IF inner < cl_abort THEN 0 ELSE Len(buffer) - pos :
          wire' = wire \o SubSeq(buffer, pos + 1, pos + n)
    /\ writer' = "off" /\ pos' = 0
    /\ broken' = TRUE
    /\ UNCHANGED <<buffers, level, inner, reader, runs, given>>

(* The run is destroyed: cancel_and_wait of both loops.                      *)
DropRun ==
    /\ writer # "body" /\ (writer # "off" \/ reader)
    /\ \E n \in 0 .. IF writer = "writing" THEN Len(buffer) - pos ELSE 0 :
          wire' = wire \o SubSeq(buffer, pos + 1, pos + n)
    /\ writer' = "off" /\ reader' = FALSE /\ pos' = 0
    /\ broken' = (broken \/ buffer # <<>>)
    /\ UNCHANGED <<buffers, level, inner, runs, given>>
-----------------------------------------------------------------------------
Loop == Stop \/ Sleep \/ Proceed \/ Wake \/ Woken
Write == WriteRest \/ \E n \in 1 .. Len(buffer) : WriteSome(n)
Next ==
    \/ \E p \in Packets : WritePacket(p)
    \/ Run \/ CancelRun \/ ReadEnds \/ DropRun
    \/ Loop \/ Write \/ WriteFails

Spec == Init /\ [][Next]_device

(* The runner goes through its rounds, and a stream that is being written to *)
(* takes something or fails.  A read ends once it is cancelled or not at all. *)
Fairness == WF_device(Loop) /\ WF_device(Write \/ WriteFails)
FairSpec == Spec /\ Fairness
-----------------------------------------------------------------------------
DeviceTypeOK ==
    /\ buffer \in Seq(Packets) /\ backlog \in Seq(Packets) /\ token \in BOOLEAN
    /\ writer \in WriterPC /\ reader \in BOOLEAN /\ runs \in 0 .. MaxRuns
    /\ level \in Level /\ inner \in Level
    /\ pos \in Nat /\ pos <= Len(buffer)
    /\ given \in Seq(Packets) /\ wire \in Seq(Packets) /\ broken \in BOOLEAN

(* What write_packet has taken leaves in the order it was taken, once, over  *)
(* any number of runs, as long as every run was left to write its buffers.   *)
InOrder ==
    ~broken => given = wire \o SubSeq(buffer, pos + 1, Len(buffer)) \o backlog

(* Nothing that was taken is ever lost, not even by a run that fails.        *)
NothingLost == ToSet(given) = ToSet(wire) \cup ToSet(buffer) \cup ToSet(backlog)

(* A loop that sleeps, or will sleep when it is next run, over a buffer that *)
(* is not empty has a token to wake it.                                      *)
WorkIsStarted ==
    ~broken /\ writer \in {"off", "waiting"} /\ buffer # <<>> => token

(* What write_packet relies on: its assertion says that fire() completes.    *)
FireCompletes ==
    writer # "body" /\ buffer = <<>> /\ Fresh # {} => ~token

(* A packet taken while the device runs is written, also when the run is     *)
(* told to quit at the same time.                                            *)
GivenIsWritten ==
    \A p \in Packets :
        p \in ToSet(given) /\ writer \in Running ~> p \in ToSet(wire) \/ broken

(* A run that is told to quit ends its write loop.                           *)
QuitEnds == level >= cl_quit /\ writer \in Running ~> writer = "off"
=============================================================================
