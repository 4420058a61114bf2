------------------------------ MODULE Streams ------------------------------
(***************************************************************************)
(* stream::read_all and write_all, copy and discard: loops over the reads    *)
(* and writes of a stream, run by the sync_runner.  One transfer of a stream *)
(* is the wait for its descriptor and moves a fixed number of bytes; of the  *)
(* bytes only their number is kept.                                          *)
(***************************************************************************)
EXTENDS SyncRunner

(* read_all and write_all: what is moved is counted in the loop's state.     *)
TransferAll(fd, size) ==
    Loop(Result(Value(0)), [op |-> "transfer_all", fd |-> fd, size |-> size], 0)

TransferBody(b, r, at, level) ==
    [st |-> at + r.v,
     t  |-> IF level >= cl_abort THEN Result(Cancelled)
            ELSE IF at + r.v = b.size THEN Empty
            ELSE Fd(b.fd)]

IgnoreResult(t) == Seq2(t, OnValue([op |-> "ignore"]))

(* Mutant: the whole iteration is aborted, and not only the read.            *)
AbortIteration(sink, source) ==
    AbortOn(Seq2(Fd(source), OnValue([op |-> "write", fd |-> sink])), cl_quit)

CopyIter(sink, source) ==
    Seq2(AbortOn(Fd(source), cl_quit), OnValue([op |-> "write", fd |-> sink]))

Copy(sink, source) ==
    Loop(Result(Done), [op |-> "copy", sink |-> sink, source |-> source], 0)
CopyBody(b, level) ==
    [st |-> 0, t |-> IF level >= cl_quit THEN Empty ELSE CopyIter(b.sink, b.source)]

Discard(source) == Loop(Result(Done), [op |-> "discard", source |-> source], 0)
DiscardBody(b, level) ==
    [st |-> 0, t |-> IF level >= cl_quit THEN Empty
                     ELSE IgnoreResult(AbortOn(Fd(b.source), cl_quit))]

(* The closures of these functions.                                          *)
StreamThen(f, r) ==
    CASE f.op = "write" -> TransferAll(f.fd, r.v)
      [] f.op = "ignore" -> Result(Done)

StreamBody(b, r, st, level) ==
    CASE b.op = "transfer_all" -> TransferBody(b, r, st, level)
      [] b.op = "copy" -> CopyBody(b, level)
      [] b.op = "discard" -> DiscardBody(b, level)
-----------------------------------------------------------------------------
Transfers(t) == {n \in Nodes(t) : n.k = "loop" /\ n.body.op = "transfer_all"}
Given(n) == n.st + Moves[n.body.fd]

(* This step finishes a transfer that the poll found possible.               *)
Transferred(n) == n.t.on /\ \E i \in todo \ todo' : polled[i] = n.body.fd

(* What a copy has read goes to its sink: a write_all that is under way waits, *)
(* or goes on by what its sink has taken, and is over only when the sink has   *)
(* taken the last of it, whenever the copy is told to quit, unless the client  *)
(* aborts it or the future or the runner is destroyed (stream.cpp:17-51).      *)
ReadIsWritten ==
    [][\A p \in Promises : \A n \in Transfers(view[p]) :
          LET then(st) == \E m \in Transfers(view'[p]) : m.body = n.body /\ m.st = st
          IN  \/ then(n.st)
              \/ Transferred(n) /\ (Given(n) = n.body.size \/ then(Given(n)))
              \/ p \in asked \/ held'[p] # held[p] \/ tree' = Empty
      ]_runner
=============================================================================
