---------------------------- MODULE MCSyncRunner ----------------------------
(* Small instances of SyncRunner for TLC: a copy whose sink takes what is    *)
(* read in two writes; and the stubborn task, a discard that follows a       *)
(* composition of three waits, one that ends on quit and one under a token.  *)
EXTENDS Streams

MCFds == {"b", "e", "f", "g", "source", "sink"}
MCGiveUp == [f \in MCFds |-> cl_abort]
MCMoves == [f \in MCFds |-> IF f = "source" THEN 2 ELSE 1]

MCThen(f, r) ==
    CASE f.op = "after_par" -> Discard("g")
      [] OTHER -> StreamThen(f, r)

MCBody(b, r, st, level) == StreamBody(b, r, st, level)

Waits3 == Par(Par(Fd("e"), FinishOn(Fd("f"), cl_quit)), Token("t", Fd("b"), TRUE))

MCStart(p) ==
    CASE p = "p" -> Copy("sink", "source")
      [] p = "s" -> Seq2(Waits3, Always([op |-> "after_par"]))
=============================================================================
