------------------------------- MODULE Flip2 -------------------------------
(***************************************************************************)
(* flip2: access to the memories of a chip in its boot loader.  The chip       *)
(* keeps which memory and which page of it is selected; flip2 remembers both   *)
(* and sends a selection only when it asks for another.                      *)
(*                                                                         *)
(* One operation at a time, as the tests have it.  It is a chain of control    *)
(* transfers; each succeeds or fails, and one that fails, as when the          *)
(* operation is cancelled meanwhile, may have reached the chip nevertheless.  *)
(***************************************************************************)
EXTENDS Integers, Sequences

CONSTANTS
    Memories,
    PageSize, \* 64 KiB in the code
    Chunk     \* 1024 in the code; at most a page

ASSUME MemoriesAssumption == Memories # {}
ASSUME SizeAssumption == PageSize \in Nat \ {0} /\ Chunk \in 1..PageSize

VARIABLES
    fl,   \* the members of flip2
    op,   \* the operation that runs, or the result of the last one
    chip, \* what is selected, the bytes that are not blank, and the erasure
    last, \* the last access since the chip was opened: what was asked for and done (history)
    late  \* a selection that failed has reached the chip (history)

flip_vars == <<fl, op, chip, last, late>>

Page(a) == a \div PageSize
NoAccess == [asked |-> {}, done |-> {}, within |-> TRUE]
Result(r) == [pc |-> r]
Running == op.pc \notin {"ok", "failed"}

(* The members that say what is selected are not initialised, and not read     *)
(* until something is.                                                       *)
FlipInit ==
    /\ fl = [open |-> FALSE, selected |-> FALSE, mem |-> CHOOSE m \in Memories : TRUE, page |-> 0]
    /\ chip \in [mem : Memories, page : {0, 1}, cells : {<<>>}, state : {"idle"}]
    /\ op = Result("ok") /\ last = NoAccess /\ late = FALSE
-----------------------------------------------------------------------------
(* The continuations of an operation, o, given the members, f: what the       *)
(* lambdas between the transfers do.  Each gives both.                       *)
Both(f, o) == [f |-> f, o |-> o]

(* Mutant: each chunk is the first.                                          *)
NextChunkFirst(f, o) ==
    LET left  == o.size - o.st
        count == IF left < Chunk THEN left ELSE Chunk
        st    == IF o.kind = "write" THEN o.st + count ELSE o.st
    IN  CASE left = 0 -> Both(f, Result("ok"))
          [] left > 0 /\ o.cancelled -> Both(f, Result("failed"))
          [] OTHER -> Both(f, [o EXCEPT !.pc = "range", !.from = 0, !.count = count, !.st = st])

(* What is written is counted when it is sent, what is read when it is there.  *)
NextChunk(f, o) ==
    LET left  == o.size - o.st
        count == IF left < Chunk THEN left ELSE Chunk
        st    == IF o.kind = "write" THEN o.st + count ELSE o.st
    IN  CASE left = 0 -> Both(f, Result("ok"))
          [] left > 0 /\ o.cancelled -> Both(f, Result("failed"))
          [] OTHER -> Both(f, [o EXCEPT !.pc = "range", !.from = o.st, !.count = count, !.st = st])

(* A range is checked in one piece.                                          *)
AccessSelected(f, o) ==
    LET g == [f EXCEPT !.page = Page(o.at), !.selected = TRUE]
    IN  IF o.kind = "blank" THEN Both(g, [o EXCEPT !.pc = "range", !.count = o.size])
        ELSE NextChunk(g, o)

(* Mutant: the page is selected once.                                        *)
SpaceSelectedOnce(f, o) ==
    LET g == [f EXCEPT !.mem = o.mem]
    IN  IF ~f.selected THEN Both(g, [o EXCEPT !.pc = "page"]) ELSE AccessSelected(g, o)

SpaceSelected(f, o) ==
    LET g == [f EXCEPT !.mem = o.mem]
    IN  IF ~f.selected \/ f.page # Page(o.at)
        THEN Both(g, [o EXCEPT !.pc = "page"]) ELSE AccessSelected(g, o)

Started(f, o) ==
    IF ~f.selected \/ f.mem # o.mem
    THEN Both(f, [o EXCEPT !.pc = "space"]) ELSE SpaceSelected(f, o)

Continue(b) == fl' = b.f /\ op' = b.o
-----------------------------------------------------------------------------
Open ==
    /\ ~Running
    /\ fl' = [fl EXCEPT !.open = TRUE, !.selected = FALSE]
    /\ op' = Result("ok") /\ late' = FALSE /\ last' = NoAccess
    /\ UNCHANGED chip

Access(kind, mem, at, bytes) ==
    /\ fl.open /\ ~Running
    /\ Continue(Started(fl, [kind |-> kind, mem |-> mem, at |-> at, bytes |-> bytes,
                             size |-> Len(bytes), st |-> 0, from |-> 0, count |-> 0,
                             cancelled |-> FALSE, pc |-> "start"]))
    /\ UNCHANGED <<chip, last, late>>

Command(kind) ==
    /\ fl.open /\ ~Running
    /\ op' = [kind |-> kind, cancelled |-> FALSE, pc |-> kind]
    /\ UNCHANGED <<fl, chip, last, late>>

ChipErase == Command("erase")
StartApplication == Command("start")

(* Only a loop remembers that it was cancelled; otherwise the transfer is, and *)
(* when it succeeds all the same the operation goes on.                      *)
InLoop == op.pc \in {"upload", "status"} \/ (op.pc = "range" /\ op.kind # "blank")

Cancel ==
    /\ Running /\ InLoop /\ ~op.cancelled
    /\ op' = [op EXCEPT !.cancelled = TRUE]
    /\ UNCHANGED <<fl, chip, last, late>>
-----------------------------------------------------------------------------
(* The chip.  A range is within a page, the one that is selected; the chip     *)
(* refuses one that is not, and everything while it erases.                  *)
First == (op.at + op.from) % PageSize
Final == (op.at + op.from + op.count - 1) % PageSize

Refused == chip.state # "idle" \/ (op.pc = "range" /\ First > Final)

Touched == {<<chip.mem, chip.page * PageSize + k>> : k \in First..Final}

Asked == {<<op.mem, op.at + op.from + k>> : k \in 0..op.count - 1}

Execute ==
    CASE op.pc = "space" -> chip' = [chip EXCEPT !.mem = op.mem]
      [] op.pc = "page" -> chip' = [chip EXCEPT !.page = Page(op.at)]
      [] op.pc = "range" /\ op.kind = "write" ->
            LET new(x) == op.bytes[op.from + (x[2] % PageSize) - First + 1]
            IN  chip' = [chip EXCEPT !.cells = [x \in Touched \cup DOMAIN @ |->
                                                   IF x \in Touched THEN new(x) ELSE @[x]]]
      [] op.pc = "erase" -> chip' = [chip EXCEPT !.state = "erasing"]
      [] op.pc = "start" -> chip' = [chip EXCEPT !.state = "running"]
      [] OTHER -> UNCHANGED chip

Logged ==
    IF op.pc # "range" THEN UNCHANGED last
    ELSE last' = [asked |-> Asked, done |-> Touched, within |-> Page(op.at) = Page(op.at + op.size - 1)]

TransferDone ==
    /\ Running /\ ~Refused /\ op.pc \in {"space", "page", "range", "erase", "start"}
    /\ Execute /\ Logged
    /\ \/ op.pc = "space" /\ Continue(SpaceSelected(fl, op))
       \/ op.pc = "page" /\ Continue(AccessSelected(fl, op))
       \/ op.pc = "range" /\ op.kind = "write" /\ Continue(NextChunk(fl, op))
       \/ op.pc = "range" /\ op.kind = "read" /\ Continue(Both(fl, [op EXCEPT !.pc = "upload"]))
       \/ op.pc = "range" /\ op.kind = "blank" /\ Continue(Both(fl, [op EXCEPT !.pc = "verdict"]))
       \/ op.pc = "erase" /\ Continue(Both(fl, [op EXCEPT !.pc = "status"]))
       \/ op.pc = "start" /\ Continue(Both(fl, [op EXCEPT !.pc = "zero"]))
    /\ UNCHANGED late

(* The chip may return fewer bytes than the range has.                       *)
Upload(n) ==
    /\ Running /\ op.pc = "upload" /\ n \in 0..op.count
    /\ Continue(NextChunk(fl, [op EXCEPT !.st = @ + n]))
    /\ UNCHANGED <<chip, last, late>>

(* get_status, and what is made of it; a range that is not blank is a failure  *)
(* to the client.                                                            *)
Verdict ==
    /\ op.pc = "verdict"
    /\ op' = Result(IF Touched \cap DOMAIN chip.cells = {} THEN "ok" ELSE "failed")
    /\ UNCHANGED <<fl, chip, last, late>>

EraseStatus ==
    /\ Running /\ op.pc = "status"
    /\ \/ chip.state = "idle" /\ op' = Result("ok")
       \/ chip.state = "erasing" /\ op.cancelled /\ op' = Result("failed")
    /\ UNCHANGED <<fl, chip, last, late>>

Erased ==
    /\ chip.state = "erasing"
    /\ chip' = [chip EXCEPT !.state = "idle", !.cells = <<>>]
    /\ UNCHANGED <<fl, op, last, late>>

Leave ==
    /\ Running /\ op.pc = "zero"
    /\ op' = Result("ok")
    /\ UNCHANGED <<fl, chip, last, late>>

TransferFails ==
    /\ Running
    /\ op' = Result("failed")
    /\ \/ UNCHANGED <<chip, last, late>>
       \/ /\ ~Refused /\ op.pc \in {"space", "page", "range", "erase", "start"}
          /\ Execute /\ Logged
          /\ late' = (late \/ op.pc \in {"space", "page"})
    /\ UNCHANGED fl

FlipStep ==
    \/ Cancel \/ TransferDone \/ Verdict \/ EraseStatus \/ Erased \/ Leave \/ TransferFails
    \/ \E n \in 0..Chunk : Upload(n)
-----------------------------------------------------------------------------
(* What the chip reads, writes or checks are the bytes of the memory and at    *)
(* the addresses that were asked for, whatever was accessed before, and       *)
(* whichever operations failed or were cancelled on the way.  Not so when a    *)
(* range goes over the end of a page, or when a selection took place though    *)
(* its transfer was reported to have failed and the chip was not opened anew  *)
(* (flip2.cpp:162-201, 224-251).                                             *)
AccessIsAsked == last.within /\ ~late => last.asked = last.done
=============================================================================
