------------------------- MODULE ProgrammingProofs -------------------------
(***************************************************************************)
(* What is proved about the programming of a chip: for files of any length, any*)
(* width of bytes and addresses, any size of a chunk, and any number of failures.*)
(*                                                                           *)
(* The invariant joins HexInv, FlipInv and one about the client, ClientInv: the*)
(* operation that runs is the step's and has its arguments (StepOK); no erasure*)
(* is to come when the chip has been found erased (ErasureOK); and the chip has*)
(* the regions below the one that is written, as much of that as was sent, and*)
(* nothing else (CellsOK).  The last says that writing a region again, after a*)
(* part of it was, does no harm.                                             *)
(*                                                                           *)
(* The first part is about flip2 alone, whoever its client is: any operation on*)
(* any memory, one at a time and in any order.  Its invariant, FlipInv, relates*)
(* three views of the selection: the chip's own, that of the members of flip2, *)
(* and that of the operation that runs.  A selection that took place although  *)
(* its transfer failed breaks the agreement with the chip until flip2 is opened*)
(* anew, but never the one between the members and the operation.            *)
(***************************************************************************)
EXTENDS Programming, IhexProofs

USE SizeAssumption

Kinds == {"read", "write", "blank"}

(* Any client: one operation at a time, on any memory, at any address.        *)
FlipNext ==
    \/ FlipStep \/ Open \/ ChipErase \/ StartApplication
    \/ \E kind \in Kinds, mem \in Memories, at \in Nat, bytes \in Seq(Nat) :
           Access(kind, mem, at, bytes)

FlipSpec == FlipInit /\ [][FlipNext]_flip_vars
-----------------------------------------------------------------------------
(* What op holds: a result, a command or an access.                          *)
Results  == {Result("ok"), Result("failed")}
Commands == [kind : {"erase", "start"}, cancelled : BOOLEAN,
             pc : {"erase", "start", "status", "zero"}]
Transfers == {"space", "page", "range", "upload", "verdict"}
Requests == [kind : Kinds, mem : Memories, at : Nat, bytes : Seq(Nat), size : Nat, st : Nat,
             from : Nat, count : Nat, cancelled : BOOLEAN, pc : Transfers \cup {"start"}]
Accesses == {o \in Requests : o.pc # "start"}

(* An access and its range: what a chunk is of the whole.                    *)
InSize(o) ==
    /\ o.pc \in {"space", "page"} => o.st = 0 /\ o.from = 0
    /\ o.pc = "range" =>
           /\ o.from + o.count <= o.size
           /\ o.kind = "blank" => o.from = 0 /\ o.count = o.size
           /\ o.kind = "read" => o.st = o.from /\ o.count > 0
           /\ o.kind = "write" => o.st = o.from + o.count /\ o.count > 0
    /\ o.pc = "upload" => o.kind = "read" /\ o.st + o.count <= o.size
    /\ o.pc = "verdict" => o.kind = "blank"

OpOK(o) == o \in Results \/ o \in Commands \/ (o \in Accesses /\ InSize(o))

FlOK(f) == f \in [open : BOOLEAN, selected : BOOLEAN, mem : Memories, page : Nat]

(* The members are those of the operation, from the page on.                 *)
Selected(f, o) ==
    /\ o.pc = "page" => f.mem = o.mem
    /\ o.pc \in {"range", "upload", "verdict"} =>
           f.selected /\ f.mem = o.mem /\ f.page = Page(o.at)

(* What flip2 takes to be selected is.                                       *)
Agrees(f, o, c) ==
    /\ f.selected => c.mem = f.mem /\ c.page = f.page
    /\ o.pc = "page" => c.mem = o.mem

ChipOK(c) ==
    /\ c = [mem |-> c.mem, page |-> c.page, cells |-> c.cells, state |-> c.state]
    /\ c.mem \in Memories /\ c.page \in Nat

FlipInv ==
    /\ FlOK(fl) /\ OpOK(op) /\ ChipOK(chip)
    /\ Selected(fl, op)
    /\ ~late => Agrees(fl, op, chip)
    /\ AccessIsAsked
-----------------------------------------------------------------------------
(* Addresses between two of a page are of that page.                         *)
LEMMA PageIsConvex ==
    ASSUME NEW a \in Int, NEW b \in Int, NEW c \in Int,
           a <= c, c <= b, Page(a) = Page(b)
    PROVE  Page(c) = Page(a)
BY DEF Page

(* An address is its page and an offset.                                     *)
LEMMA PageAndOffset ==
    ASSUME NEW a \in Int
    PROVE  /\ Page(a) \in Int /\ a % PageSize \in Int
           /\ a = Page(a) * PageSize + (a % PageSize)
BY DEF Page

(* No page is negative when the address is not.                              *)
LEMMA PageIsNat ==
    ASSUME NEW a \in Nat
    PROVE  Page(a) \in Nat
BY DEF Page

(* Bytes of a memory, by page and offsets, and by address.                   *)
BytesOf(m, page, f, g) == {<<m, page * PageSize + k>> : k \in f..g}
BytesAt(m, a, n) == {<<m, a + k>> : k \in 0..n - 1}

(* A range, from and count, of a whole, at and size, that does not go over the *)
(* end of a page, and that the chip does not refuse.                         *)
InOnePage(at, from, count, size) ==
    /\ from + count <= size
    /\ count > 0 \/ (from = 0 /\ size = 0)
    /\ Page(at) = Page(at + size - 1)
    /\ (at + from) % PageSize <= (at + from + count - 1) % PageSize

RangeIs(m, at, from, count) ==
    BytesOf(m, Page(at), (at + from) % PageSize, (at + from + count - 1) % PageSize)
    = BytesAt(m, at + from, count)

(* The bytes of such a range are those of the page of the whole.             *)
LEMMA SamePage ==
    ASSUME NEW m, NEW at \in Nat, NEW from \in Nat, NEW count \in Nat,
           NEW size \in Nat, InOnePage(at, from, count, size)
    PROVE  RangeIs(m, at, from, count)
<1> DEFINE a == at + from
           b == at + from + count - 1
<1>0. /\ from + count <= size
      /\ count > 0 \/ (from = 0 /\ size = 0)
      /\ Page(at) = Page(at + size - 1)
      /\ a % PageSize <= b % PageSize
  BY DEF InOnePage
<1>1. a \in Int /\ b \in Int
  OBVIOUS
<1>2. count > 0
  <2>1. SUFFICES ASSUME count = 0 PROVE FALSE
    BY <2>1
  <2>2. from = 0 /\ size = 0
    BY <1>0, <2>1
  <2>3. a = at /\ b = at - 1 /\ Page(a) = Page(at) /\ Page(b) = Page(at)
    BY <1>0, <2>1, <2>2
  <2>4. PICK q \in Int : q = Page(at) * PageSize
    BY PageAndOffset
  <2>5. /\ a = q + (a % PageSize) /\ b = q + (b % PageSize)
        /\ a % PageSize \in Int /\ b % PageSize \in Int
    BY <1>1, <2>3, <2>4, PageAndOffset
  <2>6. a % PageSize <= b % PageSize
    BY <1>0
  <2> HIDE DEF a, b
  <2> QED
    BY <2>3, <2>5, <2>6, <1>1
<1>3. Page(a) = Page(at) /\ Page(b) = Page(at)
  <2>1. at <= a /\ a <= at + size - 1 /\ at <= b /\ b <= at + size - 1 /\ at + size - 1 \in Int
    BY <1>0, <1>2
  <2> HIDE DEF a, b
  <2> QED
    BY <1>0, <2>1, <1>1, PageIsConvex
<1>4. PICK q \in Int : q = Page(at) * PageSize
  BY PageAndOffset
<1>5. /\ a = q + (a % PageSize) /\ b = q + (b % PageSize)
      /\ a % PageSize \in Int /\ b % PageSize \in Int
  <2> HIDE DEF a, b
  <2> QED
    BY <1>1, <1>3, <1>4, PageAndOffset
<1>6. PICK f \in Int : f = a % PageSize
  BY <1>5
<1>7. PICK g \in Int : g = b % PageSize
  BY <1>5
<1>8. at + from = q + f /\ at + from + count - 1 = q + g
  BY <1>5, <1>6, <1>7
<1>9. {<<m, q + k>> : k \in f..g} = {<<m, at + from + k>> : k \in 0..count - 1}
  <2>1. ASSUME NEW k \in f..g PROVE \E j \in 0..count - 1 : <<m, q + k>> = <<m, at + from + j>>
    <3>1. k - f \in 0..count - 1 /\ q + k = at + from + (k - f)
      BY <1>8
    <3> QED
      BY <3>1
  <2>2. ASSUME NEW j \in 0..count - 1 PROVE \E k \in f..g : <<m, at + from + j>> = <<m, q + k>>
    <3>1. j + f \in f..g /\ at + from + j = q + (j + f)
      BY <1>8
    <3> QED
      BY <3>1
  <2> DEFINE L == {<<m, q + k>> : k \in f..g}
             R == {<<m, at + from + k>> : k \in 0..count - 1}
  <2>3. L \subseteq R
    BY <2>1
  <2>4. R \subseteq L
    BY <2>2
  <2> HIDE DEF L, R
  <2>5. L = R
    BY <2>3, <2>4
  <2> QED
    BY <2>5 DEF L, R
<1> QED
  BY <1>4, <1>6, <1>7, <1>9 DEF RangeIs, BytesOf, BytesAt
-----------------------------------------------------------------------------
(* What the continuations make of an access that is about to do its next chunk. *)
LEMMA ChunkFits ==
    ASSUME NEW f, NEW o \in Requests, o.st <= o.size, o.kind # "blank"
    PROVE  /\ NextChunk(f, o).f = f
           /\ OpOK(NextChunk(f, o).o)
           /\ NextChunk(f, o).o \in Results \/
                  (/\ NextChunk(f, o).o.pc = "range"
                   /\ NextChunk(f, o).o.mem = o.mem /\ NextChunk(f, o).o.at = o.at)
<1> DEFINE left  == o.size - o.st
           count == IF left < Chunk THEN left ELSE Chunk
           st    == IF o.kind = "write" THEN o.st + count ELSE o.st
           w     == [o EXCEPT !.pc = "range", !.from = o.st, !.count = count, !.st = st]
<1>1. /\ o.size \in Nat /\ o.st \in Nat /\ o.kind \in Kinds
      /\ left \in Nat
  BY DEF Accesses, Requests
<1>2. CASE left = 0
  <2>1. NextChunk(f, o) = Both(f, Result("ok"))
    BY <1>2 DEF NextChunk
  <2> QED
    BY <2>1 DEF Both, OpOK, Results
<1>3. CASE left > 0 /\ o.cancelled
  <2>1. NextChunk(f, o) = Both(f, Result("failed"))
    BY <1>1, <1>3 DEF NextChunk
  <2> QED
    BY <2>1 DEF Both, OpOK, Results
<1>4. CASE left > 0 /\ ~o.cancelled
  <2>1. NextChunk(f, o) = Both(f, w)
    BY <1>1, <1>4 DEF NextChunk
  <2>2. count \in Nat /\ count > 0 /\ o.st + count <= o.size
    BY <1>1, <1>4
  <2>3. st \in Nat
    BY <1>1, <2>2
  <2>4. w \in Accesses
    <3> HIDE DEF count, st
    <3> QED
      BY <1>1, <2>2, <2>3 DEF Accesses, Requests, Transfers
  <2>5. /\ w.pc = "range" /\ w.mem = o.mem /\ w.at = o.at /\ w.kind = o.kind
        /\ w.from = o.st /\ w.count = count /\ w.st = st /\ w.size = o.size
    <3> HIDE DEF count, st
    <3> QED
      BY DEF Accesses, Requests
  <2>6. (o.kind = "read" => st = o.st) /\ (o.kind = "write" => st = o.st + count)
    OBVIOUS
  <2> HIDE DEF count, st, w
  <2>7. InSize(w)
    BY <2>2, <2>5, <2>6 DEF InSize
  <2> QED
    BY <2>1, <2>4, <2>5, <2>7 DEF Both, OpOK
<1> HIDE DEF left
<1> QED
  BY <1>1, <1>2, <1>3, <1>4

(* What a continuation gives is again an operation of flip2, and its members   *)
(* say what the chip, c, has selected if they did.                           *)
Gives(b) == FlOK(b.f) /\ OpOK(b.o) /\ Selected(b.f, b.o)

(* The next chunk of what is selected.                                       *)
LEMMA ChunkGives ==
    ASSUME NEW f, FlOK(f), NEW o \in Requests, o.st <= o.size,
           o.kind # "blank", f.selected, f.mem = o.mem, f.page = Page(o.at), NEW c
    PROVE  /\ Gives(NextChunk(f, o))
           /\ c.mem = o.mem /\ c.page = Page(o.at) =>
                  Agrees(NextChunk(f, o).f, NextChunk(f, o).o, c)
<1> DEFINE n == NextChunk(f, o)
<1>1. /\ n.f = f /\ OpOK(n.o)
      /\ n.o \in Results \/ (n.o.pc = "range" /\ n.o.mem = o.mem /\ n.o.at = o.at)
  BY ChunkFits
<1> HIDE DEF n
<1>2. n.o.pc # "page" /\ Selected(f, n.o)
  BY <1>1 DEF Results, Result, Selected
<1>3. Gives(n) /\ (c.mem = o.mem /\ c.page = Page(o.at) => Agrees(n.f, n.o, c))
  BY <1>1, <1>2 DEF Gives, Agrees
<1> QED
  BY <1>3 DEF n

(* The page is selected, and with it the memory.                             *)
LEMMA PageGives ==
    ASSUME NEW f, FlOK(f), NEW o \in Requests, o.st = 0, o.from = 0, f.mem = o.mem, NEW c
    PROVE  /\ Gives(AccessSelected(f, o))
           /\ c.mem = o.mem /\ c.page = Page(o.at) =>
                  Agrees(AccessSelected(f, o).f, AccessSelected(f, o).o, c)
<1> DEFINE g == [f EXCEPT !.page = Page(o.at), !.selected = TRUE]
<1>1. Page(o.at) \in Nat
  BY PageIsNat DEF Accesses, Requests
<1>2. FlOK(g)
  BY <1>1 DEF FlOK
<1>3. g.selected /\ g.mem = o.mem /\ g.page = Page(o.at)
  BY <1>1 DEF FlOK
<1> HIDE DEF g
<1>4. CASE o.kind = "blank"
  <2> DEFINE w == [o EXCEPT !.pc = "range", !.count = o.size]
  <2>1. AccessSelected(f, o) = Both(g, w)
    BY <1>4 DEF AccessSelected, g
  <2>2. /\ w \in Accesses
        /\ w.pc = "range" /\ w.mem = o.mem /\ w.at = o.at /\ w.kind = "blank"
        /\ w.from = 0 /\ w.count = w.size /\ w.size \in Nat
    BY <1>4 DEF Accesses, Requests, Transfers
  <2> HIDE DEF w
  <2>3. OpOK(w) /\ Selected(g, w)
    BY <1>3, <2>2 DEF OpOK, InSize, Selected
  <2> QED
    BY <1>2, <1>3, <2>1, <2>2, <2>3 DEF Gives, Both, Agrees
<1>5. CASE o.kind # "blank"
  <2>1. AccessSelected(f, o) = NextChunk(g, o)
    BY <1>5 DEF AccessSelected, g
  <2>2. o.st <= o.size
    BY DEF Accesses, Requests
  <2> QED
    BY <1>2, <1>3, <1>5, <2>1, <2>2, ChunkGives
<1> QED
  BY <1>4, <1>5

(* The memory is selected.                                                   *)
LEMMA SpaceGives ==
    ASSUME NEW f, FlOK(f), NEW o \in Requests, o.st = 0, o.from = 0, NEW c
    PROVE  /\ Gives(SpaceSelected(f, o))
           /\ c.mem = o.mem /\ (f.selected => c.page = f.page) =>
                  Agrees(SpaceSelected(f, o).f, SpaceSelected(f, o).o, c)
<1> DEFINE g == [f EXCEPT !.mem = o.mem]
<1>1. /\ FlOK(g) /\ g.mem = o.mem
      /\ g.selected = f.selected /\ g.page = f.page
  BY DEF FlOK, Accesses, Requests
<1>2. CASE ~f.selected \/ f.page # Page(o.at)
  <2> DEFINE w == [o EXCEPT !.pc = "page"]
  <2>1. SpaceSelected(f, o) = Both(g, w)
    BY <1>2 DEF SpaceSelected
  <2>2. w \in Accesses /\ w.pc = "page" /\ w.mem = o.mem /\ w.st = 0 /\ w.from = 0
    BY DEF Accesses, Requests, Transfers
  <2> HIDE DEF w, g
  <2>3. OpOK(w) /\ Selected(g, w)
    BY <1>1, <2>2 DEF OpOK, InSize, Selected
  <2> QED
    BY <1>1, <2>1, <2>2, <2>3 DEF Gives, Both, Agrees
<1>3. CASE f.selected /\ f.page = Page(o.at)
  <2>1. SpaceSelected(f, o) = AccessSelected(g, o)
    BY <1>3 DEF SpaceSelected
  <2> HIDE DEF g
  <2> QED
    BY <1>1, <1>3, <2>1, PageGives
<1> QED
  BY <1>2, <1>3

(* An access begins.                                                         *)
LEMMA StartGives ==
    ASSUME NEW f, FlOK(f), NEW o \in Requests, o.st = 0, o.from = 0, NEW c
    PROVE  /\ Gives(Started(f, o))
           /\ (f.selected => c.mem = f.mem /\ c.page = f.page) =>
                  Agrees(Started(f, o).f, Started(f, o).o, c)
<1>1. CASE ~f.selected \/ f.mem # o.mem
  <2> DEFINE w == [o EXCEPT !.pc = "space"]
  <2>1. Started(f, o) = Both(f, w)
    BY <1>1 DEF Started
  <2>2. w \in Accesses /\ w.pc = "space" /\ w.st = 0 /\ w.from = 0
    BY DEF Accesses, Requests, Transfers
  <2> HIDE DEF w
  <2>3. OpOK(w) /\ Selected(f, w)
    BY <2>2 DEF OpOK, InSize, Selected
  <2> QED
    BY <2>1, <2>2, <2>3 DEF Gives, Both, Agrees
<1>2. CASE f.selected /\ f.mem = o.mem
  <2>1. Started(f, o) = SpaceSelected(f, o)
    BY <1>2 DEF Started
  <2> QED
    BY <1>2, <2>1, SpaceGives
<1> QED
  BY <1>1, <1>2
-----------------------------------------------------------------------------
(* A range that the chip does not refuse: what it does is what was asked for.  *)
LEMMA RangeIsAsked ==
    ASSUME op \in Accesses, InSize(op), op.pc = "range", ~Refused,
           Selected(fl, op), Agrees(fl, op, chip), Page(op.at) = Page(op.at + op.size - 1)
    PROVE  Asked = Touched
<1>1. chip.mem = op.mem /\ chip.page = Page(op.at)
  BY DEF Selected, Agrees
<1>2. /\ op.at \in Nat /\ op.from \in Nat /\ op.count \in Nat /\ op.size \in Nat
      /\ op.kind \in Kinds
  BY DEF Accesses, Requests
<1>3. op.from + op.count <= op.size
  BY DEF InSize
<1>4. op.count > 0 \/ (op.from = 0 /\ op.size = 0)
  BY <1>2 DEF InSize, Kinds
<1>5. First <= Final
  <2>1. First \in Int /\ Final \in Int
    BY <1>2 DEF First, Final
  <2>2. ~(First > Final)
    BY DEF Refused
  <2> QED
    BY <2>1, <2>2
<1>6. InOnePage(op.at, op.from, op.count, op.size)
  BY <1>3, <1>4, <1>5 DEF First, Final, InOnePage
<1>7. RangeIs(op.mem, op.at, op.from, op.count)
  BY <1>2, <1>6, SamePage
<1> QED
  BY <1>1, <1>7 DEF Touched, Asked, First, Final, RangeIs, BytesOf, BytesAt

(* What a transfer does to the selection.                                    *)
LEMMA Executed ==
    ASSUME OpOK(op), ChipOK(chip), Execute
    PROVE  /\ ChipOK(chip)'
           /\ chip'.mem = IF op.pc = "space" THEN op.mem ELSE chip.mem
           /\ chip'.page = IF op.pc = "page" THEN Page(op.at) ELSE chip.page
<1>1. CASE op.pc = "space"
  <2>1. op.mem \in Memories
    BY <1>1 DEF OpOK, Results, Result, Commands, Accesses, Requests
  <2>2. chip' = [chip EXCEPT !.mem = op.mem]
    BY <1>1 DEF Execute
  <2> QED
    BY <1>1, <2>1, <2>2 DEF ChipOK
<1>2. CASE op.pc = "page"
  <2>1. Page(op.at) \in Nat
    <3>1. op \in Accesses
      BY <1>2 DEF OpOK, Results, Result, Commands
    <3>2. op.at \in Nat
      BY <3>1 DEF Accesses, Requests
    <3> QED
      BY <3>2, PageIsNat
  <2>2. chip' = [chip EXCEPT !.page = Page(op.at)]
    BY <1>2 DEF Execute
  <2> QED
    BY <1>2, <2>1, <2>2 DEF ChipOK
<1>3. CASE op.pc \notin {"space", "page"}
  <2>1. \/ chip' = chip
        \/ \E x : chip' = [chip EXCEPT !.cells = x]
        \/ \E x : chip' = [chip EXCEPT !.state = x]
    BY <1>3 DEF Execute
  <2> QED
    BY <1>3, <2>1 DEF ChipOK
<1> QED
  BY <1>1, <1>2, <1>3

(* What is logged of a transfer that took place.                             *)
LEMMA LoggedAsAsked ==
    ASSUME OpOK(op), Selected(fl, op), Agrees(fl, op, chip), ~Refused,
           Logged, AccessIsAsked, ~late
    PROVE  last'.within => last'.asked = last'.done
<1>1. CASE op.pc # "range"
  BY <1>1 DEF Logged, AccessIsAsked
<1>2. CASE op.pc = "range"
  <2>1. op \in Accesses /\ InSize(op)
    BY <1>2 DEF OpOK, Results, Result, Commands
  <2>2. last' = [asked |-> Asked, done |-> Touched,
                 within |-> Page(op.at) = Page(op.at + op.size - 1)]
    BY <1>2 DEF Logged
  <2>3. Page(op.at) = Page(op.at + op.size - 1) => Asked = Touched
    BY <1>2, <2>1, RangeIsAsked
  <2>4. last'.asked = Asked /\ last'.done = Touched
    BY <2>2
  <2>5. last'.within = (Page(op.at) = Page(op.at + op.size - 1))
    BY <2>2
  <2> QED
    BY <2>3, <2>4, <2>5
<1> QED
  BY <1>1, <1>2
-----------------------------------------------------------------------------
(* The invariant is established.                                             *)
LEMMA FlipInitInv ==
    ASSUME FlipInit
    PROVE  FlipInv
<1>1. (CHOOSE m \in Memories : TRUE) \in Memories
  BY MemoriesAssumption
<1>2. FlOK(fl) /\ ~fl.selected
  BY <1>1 DEF FlipInit, FlOK
<1>3. ChipOK(chip)
  BY DEF FlipInit, ChipOK
<1>4. op = Result("ok") /\ op.pc = "ok"
  BY DEF FlipInit, Result
<1>5. OpOK(op) /\ Selected(fl, op) /\ Agrees(fl, op, chip)
  BY <1>2, <1>4 DEF OpOK, Results, Selected, Agrees
<1>6. AccessIsAsked
  BY DEF FlipInit, NoAccess, AccessIsAsked
<1> QED
  BY <1>2, <1>3, <1>5, <1>6 DEF FlipInv

(* A step that ends with b.                                                  *)
LEMMA FlipContinues ==
    ASSUME ChipOK(chip)', AccessIsAsked', NEW b, Continue(b), Gives(b),
           ~late' => Agrees(b.f, b.o, chip')
    PROVE  FlipInv'
<1>1. fl' = b.f /\ op' = b.o
  BY DEF Continue
<1>2. FlOK(fl)' /\ OpOK(op)' /\ Selected(fl, op)'
  BY <1>1 DEF Gives, FlOK, OpOK, Selected, InSize, Page
<1>3. (~late => Agrees(fl, op, chip))'
  BY <1>1 DEF Agrees
<1> QED
  BY <1>2, <1>3 DEF FlipInv

(* A step of the operation that changes nothing else.                        *)
LEMMA FlipQuiet ==
    ASSUME FlipInv, UNCHANGED <<fl, chip, last, late>>, OpOK(op'), Selected(fl, op'),
           op'.pc # "page"
    PROVE  FlipInv'
<1>1. FlOK(fl)' /\ OpOK(op)' /\ Selected(fl, op)'
  BY DEF FlipInv, FlOK, OpOK, Selected, InSize, Page
<1>2. ChipOK(chip)' /\ AccessIsAsked'
  BY DEF FlipInv, ChipOK, AccessIsAsked
<1>3. (~late => Agrees(fl, op, chip))'
  BY DEF FlipInv, Agrees
<1> QED
  BY <1>1, <1>2, <1>3 DEF FlipInv

(* The operation ends.                                                       *)
LEMMA FlipEnds ==
    ASSUME FlipInv, UNCHANGED <<fl, chip, last, late>>, op' \in Results
    PROVE  FlipInv'
<1>1. OpOK(op') /\ Selected(fl, op') /\ op'.pc # "page"
  BY DEF OpOK, Results, Result, Selected
<1> QED
  BY <1>1, FlipQuiet

(* What the client does.                                                     *)
LEMMA FlipClient ==
    ASSUME FlipInv,
           \/ Open \/ ChipErase \/ StartApplication
           \/ \E kind \in Kinds, mem \in Memories, at \in Nat, bytes \in Seq(Nat) :
                  Access(kind, mem, at, bytes)
    PROVE  FlipInv'
<1>1. CASE Open
  <2> DEFINE o == Result("ok")
  <2>1. op' = o /\ chip' = chip /\ last' = NoAccess
    BY <1>1 DEF Open
  <2>2. FlOK(fl') /\ ~fl'.selected
    BY <1>1 DEF Open, FlipInv, FlOK
  <2>3. o.pc = "ok" /\ OpOK(o)
    BY DEF OpOK, Results, Result
  <2> HIDE DEF o
  <2>4. Gives(Both(fl', o))
    BY <2>2, <2>3 DEF Gives, Both, Selected
  <2>5. Agrees(fl', o, chip')
    BY <2>2, <2>3 DEF Agrees
  <2>6. ChipOK(chip)' /\ AccessIsAsked'
    BY <2>1 DEF FlipInv, ChipOK, AccessIsAsked, NoAccess
  <2>7. Continue(Both(fl', o))
    BY <2>1 DEF Continue, Both
  <2> QED
    BY <2>4, <2>5, <2>6, <2>7, FlipContinues DEF Both
<1>2. CASE \E kind \in {"erase", "start"} : Command(kind)
  <2>1. PICK kind \in {"erase", "start"} : Command(kind)
    BY <1>2
  <2>2. op' \in Commands /\ op'.pc = kind
    BY <2>1 DEF Command, Commands
  <2>3. OpOK(op') /\ Selected(fl, op') /\ op'.pc # "page"
    BY <2>2 DEF OpOK, Selected
  <2> QED
    BY <2>1, <2>3, FlipQuiet DEF Command
<1>3. ASSUME NEW kind \in Kinds, NEW mem \in Memories, NEW at \in Nat, NEW bytes \in Seq(Nat),
             Access(kind, mem, at, bytes)
      PROVE  FlipInv'
  <2> DEFINE o == [kind |-> kind, mem |-> mem, at |-> at, bytes |-> bytes,
                   size |-> Len(bytes), st |-> 0, from |-> 0, count |-> 0,
                   cancelled |-> FALSE, pc |-> "start"]
  <2>1. Continue(Started(fl, o)) /\ UNCHANGED <<chip, last, late>>
    BY <1>3 DEF Access
  <2>2. o \in Requests /\ o.st = 0 /\ o.from = 0
    BY DEF Requests
  <2> HIDE DEF o
  <2>3. /\ Gives(Started(fl, o))
        /\ (fl.selected => chip.mem = fl.mem /\ chip.page = fl.page) =>
               Agrees(Started(fl, o).f, Started(fl, o).o, chip)
    BY <2>2, StartGives DEF FlipInv
  <2>4. ~late' => Agrees(Started(fl, o).f, Started(fl, o).o, chip')
    BY <2>1, <2>3 DEF FlipInv, Agrees
  <2>5. ChipOK(chip)' /\ AccessIsAsked'
    BY <2>1 DEF FlipInv, ChipOK, AccessIsAsked
  <2> QED
    BY <2>1, <2>3, <2>4, <2>5, FlipContinues
<1> QED
  BY <1>1, <1>2, <1>3 DEF ChipErase, StartApplication

(* A transfer that took place and is known to have.                          *)
LEMMA FlipTransfer ==
    ASSUME FlipInv, TransferDone
    PROVE  FlipInv'
<1>1. /\ FlOK(fl) /\ OpOK(op) /\ ChipOK(chip) /\ Selected(fl, op)
      /\ ~late => Agrees(fl, op, chip)
      /\ AccessIsAsked
  BY DEF FlipInv
<1>2. Execute /\ Logged /\ ~Refused /\ late' = late
  BY DEF TransferDone
<1>3. /\ ChipOK(chip)'
      /\ chip'.mem = IF op.pc = "space" THEN op.mem ELSE chip.mem
      /\ chip'.page = IF op.pc = "page" THEN Page(op.at) ELSE chip.page
  BY <1>1, <1>2, Executed
<1>4. AccessIsAsked'
  <2>1. ~late => (last'.within => last'.asked = last'.done)
    BY <1>1, <1>2, LoggedAsAsked
  <2> QED
    BY <1>2, <2>1 DEF AccessIsAsked
<1>5. ASSUME NEW b, Continue(b), Gives(b), ~late => Agrees(b.f, b.o, chip') PROVE FlipInv'
  BY <1>2, <1>3, <1>4, <1>5, FlipContinues
<1>6. CASE op.pc = "space" /\ Continue(SpaceSelected(fl, op))
  <2>1. op \in Requests /\ op.st = 0 /\ op.from = 0
    BY <1>1, <1>6 DEF OpOK, Results, Result, Commands, Accesses, InSize
  <2>2. /\ Gives(SpaceSelected(fl, op))
        /\ chip'.mem = op.mem /\ (fl.selected => chip'.page = fl.page) =>
               Agrees(SpaceSelected(fl, op).f, SpaceSelected(fl, op).o, chip')
    BY <1>1, <2>1, SpaceGives
  <2>3. ~late => (chip'.mem = op.mem /\ (fl.selected => chip'.page = fl.page))
    BY <1>1, <1>3, <1>6 DEF Agrees
  <2> QED
    BY <1>5, <1>6, <2>2, <2>3
<1>7. CASE op.pc = "page" /\ Continue(AccessSelected(fl, op))
  <2>1. op \in Requests /\ op.st = 0 /\ op.from = 0
    BY <1>1, <1>7 DEF OpOK, Results, Result, Commands, Accesses, InSize
  <2>2. fl.mem = op.mem
    BY <1>1, <1>7 DEF Selected
  <2>3. /\ Gives(AccessSelected(fl, op))
        /\ chip'.mem = op.mem /\ chip'.page = Page(op.at) =>
               Agrees(AccessSelected(fl, op).f, AccessSelected(fl, op).o, chip')
    BY <1>1, <2>1, <2>2, PageGives
  <2>4. ~late => (chip'.mem = op.mem /\ chip'.page = Page(op.at))
    BY <1>1, <1>3, <1>7 DEF Agrees
  <2> QED
    BY <1>5, <1>7, <2>3, <2>4
<1>8. ASSUME op.pc = "range"
      PROVE  /\ op \in Requests /\ op \in Accesses /\ InSize(op)
             /\ fl.selected /\ fl.mem = op.mem /\ fl.page = Page(op.at)
             /\ ~late => (chip'.mem = op.mem /\ chip'.page = Page(op.at))
  BY <1>1, <1>3, <1>8 DEF OpOK, Results, Result, Commands, Accesses, Selected, Agrees
<1>9. CASE op.pc = "range" /\ op.kind = "write" /\ Continue(NextChunk(fl, op))
  <2>1. op.st <= op.size
    BY <1>8, <1>9 DEF InSize
  <2>2. /\ Gives(NextChunk(fl, op))
        /\ chip'.mem = op.mem /\ chip'.page = Page(op.at) =>
               Agrees(NextChunk(fl, op).f, NextChunk(fl, op).o, chip')
    BY <1>1, <1>8, <1>9, <2>1, ChunkGives
  <2> QED
    BY <1>5, <1>8, <1>9, <2>2
<1>10. ASSUME NEW pc \in {"upload", "verdict"}, op.pc = "range",
              pc = "upload" => op.kind = "read", pc = "verdict" => op.kind = "blank",
              Continue(Both(fl, [op EXCEPT !.pc = pc]))
       PROVE  FlipInv'
  <2> DEFINE w == [op EXCEPT !.pc = pc]
  <2>1. /\ w \in Accesses /\ w.pc = pc
        /\ w.kind = op.kind /\ w.mem = op.mem /\ w.at = op.at /\ w.st = op.st
        /\ w.from = op.from /\ w.count = op.count /\ w.size = op.size
    BY <1>8, <1>10 DEF Accesses, Requests, Transfers
  <2> HIDE DEF w
  <2>2. InSize(w)
    BY <1>8, <1>10, <2>1 DEF InSize
  <2>3. OpOK(w) /\ Selected(fl, w) /\ (~late => Agrees(fl, w, chip'))
    BY <1>8, <1>10, <2>1, <2>2 DEF OpOK, Selected, Agrees
  <2>4. Gives(Both(fl, w)) /\ (~late => Agrees(Both(fl, w).f, Both(fl, w).o, chip'))
    BY <1>1, <2>3 DEF Gives, Both
  <2> QED
    BY <1>5, <1>10, <2>4 DEF w
<1>11. ASSUME NEW pc \in {"status", "zero"}, op.pc \in {"erase", "start"},
              Continue(Both(fl, [op EXCEPT !.pc = pc]))
       PROVE  FlipInv'
  <2> DEFINE w == [op EXCEPT !.pc = pc]
  <2>1. op \in Commands
    BY <1>1, <1>11 DEF OpOK, Results, Result, Accesses, Requests, Transfers
  <2>2. w \in Commands /\ w.pc = pc
    BY <2>1 DEF Commands
  <2> HIDE DEF w
  <2>3. OpOK(w) /\ Selected(fl, w) /\ (~late => Agrees(fl, w, chip'))
    BY <1>1, <1>3, <1>11, <2>2 DEF OpOK, Selected, Agrees
  <2>4. Gives(Both(fl, w)) /\ (~late => Agrees(Both(fl, w).f, Both(fl, w).o, chip'))
    BY <1>1, <2>3 DEF Gives, Both
  <2> QED
    BY <1>5, <1>11, <2>4 DEF w
<1> QED
  BY <1>6, <1>7, <1>9, <1>10, <1>11 DEF TransferDone

(* A chunk has been read.                                                    *)
LEMMA FlipUpload ==
    ASSUME FlipInv, NEW n \in Nat, Upload(n)
    PROVE  FlipInv'
<1> DEFINE o == [op EXCEPT !.st = @ + n]
<1>1. op \in Accesses /\ InSize(op) /\ op.pc = "upload" /\ n <= op.count
  BY DEF FlipInv, OpOK, Results, Result, Commands, Upload
<1>2. op.kind = "read" /\ op.st + op.count <= op.size
  BY <1>1 DEF InSize
<1>3. /\ op.st \in Nat /\ op.count \in Nat /\ op.size \in Nat
      /\ o \in Requests /\ o.st = op.st + n /\ o.size = op.size
      /\ o.kind = op.kind /\ o.mem = op.mem /\ o.at = op.at
  <2>1. op \in Requests /\ op.st \in Nat /\ op.count \in Nat /\ op.size \in Nat
    BY <1>1 DEF Accesses, Requests
  <2>2. PICK k \in Nat : k = op.st + n
    BY <2>1
  <2>3. o = [op EXCEPT !.st = k]
    BY <2>2
  <2> HIDE DEF o
  <2>4. /\ o \in Requests /\ o.st = k /\ o.size = op.size
        /\ o.kind = op.kind /\ o.mem = op.mem /\ o.at = op.at
    BY <2>1, <2>3 DEF Requests
  <2> QED
    BY <2>1, <2>2, <2>4
<1>4. o.st <= o.size
  BY <1>1, <1>2, <1>3
<1>5. /\ fl.selected /\ fl.mem = o.mem /\ fl.page = Page(o.at)
      /\ ~late => (chip.mem = o.mem /\ chip.page = Page(o.at))
  BY <1>1, <1>3 DEF FlipInv, Selected, Agrees
<1>6. Continue(NextChunk(fl, o)) /\ UNCHANGED <<chip, last, late>>
  BY DEF Upload
<1> HIDE DEF o
<1>7. /\ Gives(NextChunk(fl, o))
      /\ chip.mem = o.mem /\ chip.page = Page(o.at) =>
             Agrees(NextChunk(fl, o).f, NextChunk(fl, o).o, chip)
  BY <1>2, <1>3, <1>4, <1>5, ChunkGives DEF FlipInv
<1>8. ~late' => Agrees(NextChunk(fl, o).f, NextChunk(fl, o).o, chip')
  BY <1>5, <1>6, <1>7
<1>9. ChipOK(chip)' /\ AccessIsAsked'
  BY <1>6 DEF FlipInv, ChipOK, AccessIsAsked
<1> QED
  BY <1>6, <1>7, <1>8, <1>9, FlipContinues

(* A transfer that failed, whether or not it took place.                     *)
LEMMA FlipFails ==
    ASSUME FlipInv, TransferFails
    PROVE  FlipInv'
<1>1. op' = Result("failed") /\ fl' = fl /\ op' \in Results /\ op'.pc = "failed"
  BY DEF TransferFails, Results, Result
<1>2. CASE UNCHANGED <<chip, last, late>>
  BY <1>1, <1>2, FlipEnds
<1>3. CASE /\ ~Refused /\ Execute /\ Logged
           /\ late' = (late \/ op.pc \in {"space", "page"})
  <2>1. /\ ChipOK(chip)'
        /\ chip'.mem = IF op.pc = "space" THEN op.mem ELSE chip.mem
        /\ chip'.page = IF op.pc = "page" THEN Page(op.at) ELSE chip.page
    BY <1>3, Executed DEF FlipInv
  <2>2. ~late' => ~late /\ op.pc \notin {"space", "page"}
    BY <1>3
  <2>3. AccessIsAsked'
    <3>1. ~late => (last'.within => last'.asked = last'.done)
      BY <1>3, LoggedAsAsked DEF FlipInv
    <3> QED
      BY <2>2, <3>1 DEF AccessIsAsked
  <2>4. ~late' => Agrees(fl, op', chip')
    BY <1>1, <2>1, <2>2 DEF FlipInv, Agrees
  <2>5. Gives(Both(fl, op')) /\ (~late' => Agrees(Both(fl, op').f, Both(fl, op').o, chip'))
    BY <1>1, <2>4 DEF FlipInv, Gives, Both, OpOK, Selected
  <2>6. Continue(Both(fl, op'))
    BY <1>1 DEF Continue, Both
  <2> QED
    BY <2>1, <2>3, <2>5, <2>6, FlipContinues
<1> QED
  BY <1>2, <1>3 DEF TransferFails

(* Every step keeps the invariant.                                           *)
LEMMA FlipStepInv ==
    ASSUME FlipInv, [FlipNext]_flip_vars
    PROVE  FlipInv'
<1>1. CASE UNCHANGED flip_vars
  <2>1. fl' = fl /\ op' = op /\ chip' = chip /\ last' = last /\ late' = late
    BY <1>1 DEF flip_vars
  <2> QED
    BY <2>1 DEF FlipInv, FlOK, OpOK, ChipOK, Selected, Agrees, AccessIsAsked, InSize, Page
<1>2. CASE Cancel
  <2>1. /\ op' = [op EXCEPT !.cancelled = TRUE] /\ UNCHANGED <<fl, chip, last, late>>
        /\ op.pc \in {"upload", "status", "range"}
    BY <1>2 DEF Cancel, InLoop
  <2>2. CASE op \in Commands
    <3>1. op' \in Commands /\ op'.pc = op.pc
      BY <2>1, <2>2 DEF Commands
    <3>2. op'.pc = "status"
      BY <2>1, <2>2, <3>1 DEF Commands
    <3> QED
      BY <2>1, <3>1, <3>2, FlipQuiet DEF OpOK, Selected
  <2>3. CASE op \in Accesses /\ InSize(op)
    <3>1. /\ op' \in Accesses /\ op'.pc = op.pc
          /\ op'.kind = op.kind /\ op'.mem = op.mem /\ op'.at = op.at /\ op'.st = op.st
          /\ op'.from = op.from /\ op'.count = op.count /\ op'.size = op.size
      BY <2>1, <2>3 DEF Accesses, Requests
    <3>2. InSize(op')
      BY <2>3, <3>1 DEF InSize
    <3>3. OpOK(op') /\ Selected(fl, op') /\ op'.pc # "page"
      BY <2>1, <3>1, <3>2 DEF OpOK, Selected, FlipInv
    <3> QED
      BY <2>1, <3>3, FlipQuiet
  <2> QED
    BY <2>1, <2>2, <2>3 DEF FlipInv, OpOK, Results, Result
<1>3. CASE Verdict \/ EraseStatus \/ Leave
  <2>1. op' \in Results /\ UNCHANGED <<fl, chip, last, late>>
    BY <1>3 DEF Verdict, EraseStatus, Leave, Results
  <2> QED
    BY <2>1, FlipEnds
<1>4. CASE Erased
  <2>1. chip' = [chip EXCEPT !.state = "idle", !.cells = <<>>] /\ UNCHANGED <<fl, op, last, late>>
    BY <1>4 DEF Erased
  <2>2. ChipOK(chip)' /\ chip'.mem = chip.mem /\ chip'.page = chip.page
    BY <2>1 DEF FlipInv, ChipOK
  <2> QED
    BY <2>1, <2>2 DEF FlipInv, FlOK, OpOK, Selected, Agrees, AccessIsAsked, InSize, Page
<1>5. ASSUME NEW n \in 0..Chunk, Upload(n) PROVE FlipInv'
  BY <1>5, FlipUpload
<1>6. CASE TransferDone
  BY <1>6, FlipTransfer
<1>7. CASE TransferFails
  BY <1>7, FlipFails
<1> QED
  BY <1>1, <1>2, <1>3, <1>4, <1>5, <1>6, <1>7, FlipClient DEF FlipNext, FlipStep

(* Whatever is asked for, and whatever fails on the way, what the chip reads,  *)
(* writes or checks are the bytes that were asked for, as long as no selection *)
(* that was reported to have failed took place and the range is within a page *)
(* (flip2.cpp:162-201, 224-251).                                             *)
THEOREM AccessesAsked == FlipSpec => []AccessIsAsked
<1>1. FlipInit => FlipInv
  BY FlipInitInv
<1>2. FlipInv /\ [FlipNext]_flip_vars => FlipInv'
  BY FlipStepInv
<1>3. FlipInv => AccessIsAsked
  BY DEF FlipInv
<1> QED
  BY <1>1, <1>2, <1>3, PTL DEF FlipSpec
-----------------------------------------------------------------------------
HIDE SizeAssumption

(* The steps of the client, and an operation that is one's.                  *)
Words == {<<"file">>, <<"open">>, <<"signature">>, <<"erase">>, <<"blank">>, <<"start">>}
Steps == Words \cup {<<"write", a>> : a \in DOMAIN hex.regions}

Doing(o, s) ==
    \/ o \in Results
    \/ s[1] = "signature" /\ o.kind = "read"
    \/ s[1] = "erase" /\ o.kind = "erase" /\ o.pc \in {"erase", "status"}
    \/ s[1] = "blank" /\ o.kind = "blank"
    \/ /\ s[1] = "write" /\ o.kind = "write" /\ o.mem = Flash /\ o.at = s[2] % U32
       /\ o.bytes = hex.regions[s[2]] /\ o.size = Len(hex.regions[s[2]])
    \/ s[1] = "start" /\ o.kind = "start" /\ o.pc \in {"start", "zero"}

StepOK ==
    /\ step \in Steps
    /\ step # <<"file">> => hex.status = "done"
    /\ Doing(op, step)

(* No erasure is left to take place when the chip has been found erased.       *)
ErasureOK ==
    /\ chip.state = "erasing" => step[1] \in {"open", "signature", "erase"}
    /\ op.pc = "status" => chip.state # "running"
    /\ op.pc = "status" /\ chip.state = "idle" => chip.cells = <<>>
    /\ step[1] = "erase" /\ op.pc = "ok" => chip.state # "erasing" /\ chip.cells = <<>>
    /\ step[1] = "blank" => chip.cells = <<>>

(* The cells of a chip; the first n bytes of a region as such, and regions.    *)
Graph(f) == {<<x, f[x]>> : x \in DOMAIN f}
Part(a, n) == {<<<<Flash, (a + i - 1) % U32>>, hex.regions[a][i]>> : i \in 1..n}
Whole(S) == UNION {Part(a, Len(hex.regions[a])) : a \in S}
Below(a) == {x \in DOMAIN hex.regions : x < a}

(* What is known to have been written of the region.                         *)
Sent(o, a) ==
    IF o.pc = "ok" THEN Len(hex.regions[a]) ELSE IF o.pc = "range" THEN o.from ELSE 0

Progress(c, a, n) ==
    /\ Graph(c) \subseteq Whole(Below(a) \cup {a})
    /\ Whole(Below(a)) \subseteq Graph(c)
    /\ Part(a, n) \subseteq Graph(c)

CellsOK ==
    /\ step[1] = "write" => Progress(chip.cells, step[2], Sent(op, step[2]))
    /\ step[1] = "start" => Graph(chip.cells) = Whole(DOMAIN hex.regions)

ClientInv == StepOK /\ ErasureOK /\ (~late /\ Within => CellsOK)

(* Nothing has failed before the client begins.                              *)
Fresh == step = <<"file">> => op.pc = "ok"

ProgInv == HexInv /\ FlipInv /\ ClientInv /\ Fresh
-----------------------------------------------------------------------------
(* A number is its quotient and its remainder, in one way.                   *)
LEMMA Remainder ==
    ASSUME NEW q \in Nat, NEW r \in Nat, NEW m \in Nat, r < m
    PROVE  (q * m + r) % m = r /\ (q * m + r) \div m = q
<1>1. PICK x \in Nat : x = q * m + r
  <2>1. q * m \in Nat
    BY ProductIsNat
  <2> QED
    BY <2>1
<1>2. m > 0
  OBVIOUS
<1>3. x \div m \in Nat /\ x % m \in Nat /\ x % m < m /\ x = (x \div m) * m + (x % m)
  BY <1>2
<1>4. PICK p \in Nat : p = x \div m
  BY <1>3
<1>5. PICK s \in Nat : s = x % m
  BY <1>3
<1>6. x = p * m + s /\ s < m
  BY <1>3, <1>4, <1>5
<1>7. p * m \in Nat /\ q * m \in Nat
  BY ProductIsNat
<1>8. ~(p < q)
  <2>1. SUFFICES ASSUME p < q PROVE FALSE
    OBVIOUS
  <2>2. p * m + m <= q * m
    BY <2>1, OneMore
  <2> QED
    BY <1>1, <1>6, <1>7, <2>2
<1>9. ~(q < p)
  <2>1. SUFFICES ASSUME q < p PROVE FALSE
    OBVIOUS
  <2>2. q * m + m <= p * m
    BY <2>1, OneMore
  <2> QED
    BY <1>1, <1>6, <1>7, <2>2
<1>10. p = q
  BY <1>8, <1>9
<1>11. s = r
  BY <1>1, <1>6, <1>7, <1>10
<1> QED
  BY <1>1, <1>4, <1>5, <1>10, <1>11

(* The quotient and the remainder of a number.                               *)
LEMMA Divided ==
    ASSUME NEW x \in Nat, NEW m \in Nat, m > 0
    PROVE  \E q \in Nat, r \in Nat : r < m /\ x = q * m + r /\ x \div m = q /\ x % m = r
<1>1. x \div m \in Nat /\ x % m \in Nat /\ x % m < m /\ x = (x \div m) * m + (x % m)
  OBVIOUS
<1> QED
  BY <1>1

(* What a 64-bit address is less than 32 bits wide.                           *)
LEMMA Beyond32 ==
    \E c \in Nat : /\ U64 - U32 = c * U16 /\ U64 - U32 = (U32 - 1) * U32
                   /\ c * U16 \in Nat /\ U32 - 1 \in Nat
<1>1. U16 \in Nat /\ U32 \in Nat /\ U32 > 0 /\ U64 \in Nat
  BY Widths
<1>2. PICK k \in Nat : U32 = k + 1
  <2>1. U32 - 1 \in Nat /\ U32 = (U32 - 1) + 1
    BY <1>1
  <2> QED
    BY <2>1
<1>3. U64 - U32 = k * U32 /\ U32 - 1 = k
  <2>1. U32 * U32 = k * U32 + U32
    <3>1. (k + 1) * U32 = k * U32 + U32
      BY <1>1
    <3> QED
      BY <1>2, <3>1
  <2>2. k * U32 \in Nat
    BY <1>1, ProductIsNat
  <2> QED
    BY <1>1, <1>2, <2>1, <2>2 DEF U64
<1>4. k * U32 = (k * U16) * U16 /\ k * U16 \in Nat
  BY <1>1 DEF U32
<1>5. (k * U16) * U16 \in Nat
  BY <1>1, <1>4, ProductIsNat
<1> QED
  BY <1>2, <1>3, <1>4, <1>5

(* The lower half of an address.                                             *)
Low(x) == IF x < Half THEN x ELSE x - (U64 - U32)

(* It is the remainder, and an address of the upper half is in its upper half.*)
LEMMA LowerHalf ==
    ASSUME NEW x, Reaches(x, 1)
    PROVE  x % U32 = Low(x) /\ Low(x) \in Nat /\ (x >= Half => x >= U64 - U32 + Half)
<1>1. /\ U32 \in Nat /\ U64 \in Nat /\ Half \in Nat /\ U32 = 2 * Half /\ U64 >= 2 * U32
      /\ Half > 0
  BY Widths
<1>2. x \in Nat /\ (x + 1 <= Half \/ (U64 - Half <= x /\ x + 1 <= U64))
  BY DEF Reaches
<1>3. CASE x + 1 <= Half
  <2>1. x < U32 /\ x < Half
    BY <1>1, <1>2, <1>3
  <2>2. x % U32 = x
    BY <1>1, <1>2, <2>1
  <2> QED
    BY <1>1, <1>2, <2>1, <2>2 DEF Low
<1>4. CASE U64 - Half <= x /\ x + 1 <= U64
  <2>1. PICK k \in Nat : k = U32 - 1 /\ U64 - U32 = k * U32
    BY Beyond32
  <2>2. PICK p \in Nat : p = k * U32
    BY <1>1, ProductIsNat
  <2>3. PICK r \in Nat : r = x - p /\ r < U32 /\ r >= Half
    <3>1. x - p \in Nat /\ x - p < U32 /\ x - p >= Half
      BY <1>1, <1>2, <1>4, <2>1, <2>2
    <3> QED
      BY <3>1
  <2>4. x = k * U32 + r
    BY <1>2, <2>2, <2>3
  <2>5. x % U32 = r
    <3>1. k \in Nat /\ r \in Nat /\ U32 \in Nat /\ r < U32
      BY <1>1, <2>3
    <3>2. (k * U32 + r) % U32 = r
      BY <3>1, Remainder, Zenon
    <3> QED
      BY <2>4, <3>2
  <2>6. ~(x < Half) /\ x - (U64 - U32) = r /\ x >= U64 - U32 + Half
    BY <1>1, <1>2, <1>4, <2>1, <2>2, <2>3
  <2> QED
    BY <2>5, <2>6 DEF Low
<1> QED
  BY <1>2, <1>3, <1>4

(* Addresses of a page of a region's, x, on that side of the middle.           *)
LEMMA PageReaches ==
    ASSUME NEW x, Reaches(x, 1), NEW y \in Nat, x <= y, x \div U16 = y \div U16
    PROVE  /\ Reaches(y, 1) /\ Low(y) = Low(x) + (y - x)
           /\ Low(x) \div U16 = Low(y) \div U16
<1>1. /\ U16 \in Nat /\ U32 \in Nat /\ U64 \in Nat /\ Half \in Nat /\ U32 = 2 * Half
      /\ U64 >= 2 * U32 /\ Half > 0 /\ U16 > 0
  BY Widths
<1>2. x \in Nat /\ (x + 1 <= Half \/ (U64 - Half <= x /\ x + 1 <= U64))
  BY DEF Reaches
<1>3. PICK q \in Nat, r \in Nat : r < U16 /\ x = q * U16 + r /\ x \div U16 = q
  BY <1>1, <1>2, Divided
<1>4. PICK s \in Nat : s < U16 /\ y = q * U16 + s
  <2>1. PICK p \in Nat, s \in Nat : s < U16 /\ y = p * U16 + s /\ y \div U16 = p
    BY <1>1, Divided
  <2> QED
    BY <1>3, <2>1
<1>5. PICK z \in Nat : z = q * U16
  BY <1>1, ProductIsNat
<1>6. x = z + r /\ y = z + s
  BY <1>3, <1>4, <1>5
<1>7. CASE x < Half
  <2>1. PICK h \in Nat : Half = h * U16
    BY MiddleIsPage
  <2>2. q < h
    <3>1. q * U16 < h * U16
      BY <1>1, <1>2, <1>5, <1>6, <1>7, <2>1
    <3> QED
      BY <1>1, <3>1, OneLess
  <2>3. q * U16 + U16 <= h * U16
    BY <1>1, <2>2, OneMore
  <2>4. y < Half
    BY <1>1, <1>4, <1>5, <1>6, <2>1, <2>3
  <2>5. Low(x) = x /\ Low(y) = y
    BY <1>7, <2>4 DEF Low
  <2> QED
    BY <1>1, <1>2, <2>4, <2>5 DEF Reaches
<1>8. CASE ~(x < Half)
  <2>1. U64 - Half <= x /\ x < U64
    BY <1>1, <1>2, <1>8
  <2>2. PICK m \in Nat : U64 = m * U16
    <3>1. U64 = (U32 * U16) * U16 /\ U32 * U16 \in Nat
      BY <1>1 DEF U64, U32
    <3> QED
      BY <3>1
  <2>3. q < m
    <3>1. q * U16 < m * U16
      BY <1>1, <1>2, <1>5, <1>6, <2>1, <2>2
    <3> QED
      BY <1>1, <3>1, OneLess
  <2>4. q * U16 + U16 <= m * U16
    BY <1>1, <2>3, OneMore
  <2>5. y < U64 /\ U64 - Half <= y
    BY <1>1, <1>2, <1>4, <1>5, <1>6, <2>1, <2>2, <2>4
  <2>6. Low(x) = x - (U64 - U32) /\ Low(y) = y - (U64 - U32)
    BY <1>1, <1>2, <1>8, <2>5 DEF Low
  <2>7. PICK c \in Nat : U64 - U32 = c * U16 /\ c * U16 \in Nat
    BY Beyond32
  <2>8. PICK d \in Nat : q = c + d
    <3>1. ~(q < c)
      <4>1. SUFFICES ASSUME q < c PROVE FALSE
        OBVIOUS
      <4>2. q * U16 + U16 <= c * U16
        BY <1>1, <4>1, OneMore
      <4> QED
        BY <1>1, <1>2, <1>3, <1>5, <1>6, <2>1, <2>7, <4>2
    <3>2. q - c \in Nat /\ q = c + (q - c)
      BY <3>1
    <3> QED
      BY <3>2
  <2>9. z = c * U16 + d * U16 /\ d * U16 \in Nat
    <3>1. (c + d) * U16 = c * U16 + d * U16 /\ d * U16 \in Nat
      BY <1>1
    <3> QED
      BY <1>5, <2>8, <3>1
  <2>10. Low(x) = d * U16 + r /\ Low(y) = d * U16 + s
    <3>1. PICK e \in Nat : e = c * U16
      BY <2>7
    <3>2. PICK f \in Nat : f = d * U16
      BY <2>9
    <3> QED
      BY <1>6, <2>6, <2>7, <2>9, <3>1, <3>2
  <2>11. Low(x) \div U16 = d /\ Low(y) \div U16 = d
    <3>1. (d * U16 + r) \div U16 = d /\ (d * U16 + s) \div U16 = d
      BY <1>1, <1>3, <1>4, Remainder
    <3> QED
      BY <2>10, <3>1
  <2>12. Low(y) = Low(x) + (y - x)
    BY <1>1, <1>2, <2>6
  <2> QED
    BY <1>1, <2>5, <2>11, <2>12 DEF Reaches
<1> QED
  BY <1>7, <1>8

(* Two addresses are not one because their lower halves are.                  *)
LEMMA LowIsOneToOne ==
    ASSUME NEW x, Reaches(x, 1), NEW y, Reaches(y, 1), x % U32 = y % U32
    PROVE  x = y
<1>1. /\ U32 \in Nat /\ U64 \in Nat /\ Half \in Nat /\ U32 = 2 * Half /\ U64 >= 2 * U32
  BY Widths
<1>2. x \in Nat /\ y \in Nat
  BY DEF Reaches
<1>3. /\ x % U32 = Low(x) /\ (x >= Half => x >= U64 - U32 + Half)
      /\ y % U32 = Low(y) /\ (y >= Half => y >= U64 - U32 + Half)
  BY LowerHalf
<1>4. Low(x) = Low(y)
  BY <1>3
<1> QED
  BY <1>1, <1>2, <1>3, <1>4 DEF Low
-----------------------------------------------------------------------------
(* A region of a buffer, in the pages that the chip has.                      *)
LEMMA RegionIs ==
    ASSUME HexInv, NEW a \in DOMAIN hex.regions
    PROVE  /\ a \in Nat /\ Reaches(a, 1) /\ hex.regions[a] \in Seq(Nat)
           /\ Len(hex.regions[a]) \in Nat /\ DOMAIN hex.regions[a] = 1..Len(hex.regions[a])
           /\ a % U32 \in Nat
<1>1. Regions(hex.regions) /\ Reaches(a, 1)
  BY DEF HexInv, HexOK
<1>2. a % U32 \in Nat
  BY <1>1, LowerHalf
<1> QED
  BY <1>1, <1>2 DEF Regions, Reaches

(* The bytes of a region are in one page, whose offsets are halves of theirs.  *)
LEMMA CellAddress ==
    ASSUME HexInv, Within, NEW a \in DOMAIN hex.regions, NEW i \in 1..Len(hex.regions[a])
    PROVE  /\ Reaches(a + i - 1, 1) /\ (a + i - 1) % U32 = (a % U32) + (i - 1)
           /\ (a % U32) \div U16 = ((a + i - 1) % U32) \div U16
<1>1. /\ a \in Nat /\ Reaches(a, 1) /\ hex.regions[a] \in Seq(Nat)
      /\ Len(hex.regions[a]) \in Nat
  BY RegionIs
<1>2. PICK n \in Nat : n = Len(hex.regions[a]) /\ i \in 1..n /\ n > 0
  BY <1>1
<1>3. hex.regions[a] # <<>>
  BY <1>1, <1>2
<1>4. a \div U16 = (a + n - 1) \div U16
  BY <1>1, <1>2, <1>3 DEF Within
<1>5. PICK y \in Nat : y = a + i - 1
  <2>1. a + i - 1 \in Nat
    BY <1>1, <1>2
  <2> QED
    BY <2>1
<1>6. PICK e \in Nat : e = a + n - 1
  <2>1. a + n - 1 \in Nat
    BY <1>1, <1>2
  <2> QED
    BY <2>1
<1>7. a <= y /\ y <= e
  BY <1>1, <1>2, <1>5, <1>6
<1>8. a \div U16 = y \div U16
  <2>1. PageSize = U16
    BY PageAssumption
  <2>2. Page(a) = Page(e)
    BY <1>4, <1>6, <2>1 DEF Page
  <2>3. Page(y) = Page(a)
    BY <1>1, <1>7, <2>2, PageIsConvex, SizeAssumption
  <2> QED
    BY <2>1, <2>3 DEF Page
<1>9. Reaches(y, 1) /\ Low(y) = Low(a) + (y - a) /\ Low(a) \div U16 = Low(y) \div U16
  BY <1>1, <1>7, <1>8, PageReaches
<1>10. a % U32 = Low(a) /\ Low(a) \in Nat /\ y % U32 = Low(y)
  BY <1>1, <1>9, LowerHalf
<1>11. y - a = i - 1
  BY <1>1, <1>2, <1>5
<1> QED
  BY <1>5, <1>9, <1>10, <1>11

(* So the operation that writes it is within a page.                          *)
LEMMA RegionInPage ==
    ASSUME HexInv, Within, NEW a \in DOMAIN hex.regions, Len(hex.regions[a]) > 0
    PROVE  Page(a % U32) = Page((a % U32) + Len(hex.regions[a]) - 1)
<1>1. PICK n \in Nat : n = Len(hex.regions[a]) /\ n > 0
  BY RegionIs
<1>2. n \in 1..Len(hex.regions[a])
  BY <1>1
<1>3. /\ (a + n - 1) % U32 = (a % U32) + (n - 1)
      /\ (a % U32) \div U16 = ((a + n - 1) % U32) \div U16
  BY <1>2, CellAddress
<1>4. (a % U32) + (n - 1) = (a % U32) + n - 1
  BY <1>1, RegionIs
<1> QED
  BY <1>1, <1>3, <1>4, PageAssumption DEF Page

(* No two bytes are at one address of the chip.                               *)
LEMMA CellsAreOne ==
    ASSUME HexInv, Within, NEW x \in DOMAIN hex.regions, NEW i \in 1..Len(hex.regions[x]),
           NEW y \in DOMAIN hex.regions, NEW j \in 1..Len(hex.regions[y]),
           (x + i - 1) % U32 = (y + j - 1) % U32
    PROVE  x = y /\ i = j
<1>1. Reaches(x + i - 1, 1) /\ Reaches(y + j - 1, 1)
  BY CellAddress
<1>2. x + i - 1 = y + j - 1
  BY <1>1, LowIsOneToOne
<1>3. /\ x \in Nat /\ y \in Nat
      /\ End(hex.regions, x) = x + Len(hex.regions[x]) /\ Len(hex.regions[x]) \in Nat
      /\ End(hex.regions, y) = y + Len(hex.regions[y]) /\ Len(hex.regions[y]) \in Nat
      /\ Apart(hex.regions)
  <2>1. Fits
    BY DEF HexInv, Within
  <2> QED
    BY <2>1, EndIsNat DEF Fits
<1>4. PICK n \in Nat, m \in Nat : /\ n = Len(hex.regions[x]) /\ i \in 1..n
                                  /\ m = Len(hex.regions[y]) /\ j \in 1..m
  BY <1>3
<1>5. (x < y => x + n <= y) /\ (y < x => y + m <= x)
  <2>1. (x < y => End(hex.regions, x) <= y) /\ (y < x => End(hex.regions, y) <= x)
    BY <1>3 DEF Apart
  <2>2. End(hex.regions, x) = x + n /\ End(hex.regions, y) = y + m
    BY <1>3, <1>4
  <2> QED
    BY <2>1, <2>2
<1>6. x = y
  BY <1>2, <1>3, <1>4, <1>5, SMTT(20)
<1> QED
  BY <1>2, <1>3, <1>4, <1>6
-----------------------------------------------------------------------------
(* A byte in the chip.                                                       *)
Cell(a, i) == <<<<Flash, (a + i - 1) % U32>>, hex.regions[a][i]>>

(* The bytes of a part, by their indices.                                    *)
LEMMA InPart ==
    ASSUME NEW a, NEW n, NEW e
    PROVE  e \in Part(a, n) <=> \E i \in 1..n : e = Cell(a, i)
BY DEF Part, Cell

(* The bytes of regions, by region and index.                                *)
LEMMA InWhole ==
    ASSUME NEW S, NEW e
    PROVE  e \in Whole(S) <=> \E a \in S : \E i \in 1..Len(hex.regions[a]) : e = Cell(a, i)
<1>1. e \in Whole(S) <=> \E a \in S : e \in Part(a, Len(hex.regions[a]))
  BY DEF Whole
<1> QED
  BY <1>1, InPart

(* Whatever regions are written, no address has two bytes.                    *)
LEMMA OneValue ==
    ASSUME HexInv, Within, NEW c, NEW v, NEW w,
           <<c, v>> \in Whole(DOMAIN hex.regions), <<c, w>> \in Whole(DOMAIN hex.regions)
    PROVE  v = w
<1>1. PICK x \in DOMAIN hex.regions : \E i \in 1..Len(hex.regions[x]) : <<c, v>> = Cell(x, i)
  BY InWhole
<1>2. PICK i \in 1..Len(hex.regions[x]) : <<c, v>> = Cell(x, i)
  BY <1>1
<1>3. PICK y \in DOMAIN hex.regions : \E j \in 1..Len(hex.regions[y]) : <<c, w>> = Cell(y, j)
  BY InWhole
<1>4. PICK j \in 1..Len(hex.regions[y]) : <<c, w>> = Cell(y, j)
  BY <1>3
<1>5. c = <<Flash, (x + i - 1) % U32>> /\ c = <<Flash, (y + j - 1) % U32>>
      /\ v = hex.regions[x][i] /\ w = hex.regions[y][j]
  BY <1>2, <1>4 DEF Cell
<1>6. (x + i - 1) % U32 = (y + j - 1) % U32
  BY <1>5
<1>7. x = y /\ i = j
  BY <1>6, CellsAreOne
<1> QED
  BY <1>5, <1>7

(* All regions are the image.                                                *)
LEMMA WholeIsImage ==
    ASSUME HexInv
    PROVE  Whole(DOMAIN hex.regions)
           = {<<<<Flash, cell[1] % U32>>, cell[2]>> : cell \in Image(hex.regions)}
<1> DEFINE all == {<<<<Flash, cell[1] % U32>>, cell[2]>> : cell \in Image(hex.regions)}
<1>1. \A a \in DOMAIN hex.regions : DOMAIN hex.regions[a] = 1..Len(hex.regions[a])
  BY RegionIs
<1>2. ASSUME NEW e \in Whole(DOMAIN hex.regions) PROVE e \in all
  <2>1. PICK a \in DOMAIN hex.regions : \E i \in 1..Len(hex.regions[a]) : e = Cell(a, i)
    BY InWhole
  <2>2. PICK i \in DOMAIN hex.regions[a] : e = Cell(a, i)
    BY <1>1, <2>1
  <2>3. PICK cell : cell = <<a + i - 1, hex.regions[a][i]>>
    OBVIOUS
  <2>4. cell \in Image(hex.regions) /\ cell[1] = a + i - 1 /\ cell[2] = hex.regions[a][i]
    BY <2>3, InImage
  <2>5. e = <<<<Flash, cell[1] % U32>>, cell[2]>>
    BY <2>2, <2>4 DEF Cell
  <2> QED
    BY <2>4, <2>5
<1>3. ASSUME NEW cell \in Image(hex.regions)
      PROVE  <<<<Flash, cell[1] % U32>>, cell[2]>> \in Whole(DOMAIN hex.regions)
  <2>1. PICK a \in DOMAIN hex.regions :
            \E i \in DOMAIN hex.regions[a] : cell = <<a + i - 1, hex.regions[a][i]>>
    BY InImage
  <2>2. PICK i \in DOMAIN hex.regions[a] : cell = <<a + i - 1, hex.regions[a][i]>>
    BY <2>1
  <2>3. <<<<Flash, cell[1] % U32>>, cell[2]>> = Cell(a, i)
    BY <2>2 DEF Cell
  <2>4. i \in 1..Len(hex.regions[a])
    BY <1>1
  <2> QED
    BY <2>3, <2>4, InWhole
<1>4. \A e \in all : e \in Whole(DOMAIN hex.regions)
  BY <1>3
<1> HIDE DEF all
<1>5. Whole(DOMAIN hex.regions) = all
  BY <1>2, <1>4
<1> QED
  BY <1>5 DEF all
-----------------------------------------------------------------------------
(* What becomes of an access between two transfers.                          *)
Continued(o, w) ==
    /\ \/ w \in Results
       \/ /\ w.kind = o.kind /\ w.mem = o.mem /\ w.at = o.at /\ w.bytes = o.bytes
          /\ w.size = o.size /\ w.pc \in {"space", "page", "range"}
    /\ o.kind = "write" => /\ w.pc = "ok" => o.st = o.size
                           /\ w.pc = "range" => w.from = o.st

(* The next chunk begins where the last one has ended.                        *)
LEMMA ChunkContinues ==
    ASSUME NEW f, NEW o \in Requests, o.st <= o.size
    PROVE  Continued(o, NextChunk(f, o).o)
<1> DEFINE left  == o.size - o.st
           count == IF left < Chunk THEN left ELSE Chunk
           st    == IF o.kind = "write" THEN o.st + count ELSE o.st
           w     == [o EXCEPT !.pc = "range", !.from = o.st, !.count = count, !.st = st]
<1>1. o.size \in Nat /\ o.st \in Nat /\ left \in Nat
  BY DEF Requests
<1>2. CASE left = 0
  <2>1. NextChunk(f, o).o = Result("ok")
    BY <1>2 DEF NextChunk, Both
  <2>2. o.st = o.size
    BY <1>1, <1>2
  <2> QED
    BY <2>1, <2>2 DEF Continued, Results, Result
<1>3. CASE left > 0 /\ o.cancelled
  <2>1. NextChunk(f, o).o = Result("failed")
    BY <1>1, <1>3 DEF NextChunk, Both
  <2> QED
    BY <2>1 DEF Continued, Results, Result
<1>4. CASE left > 0 /\ ~o.cancelled
  <2>1. NextChunk(f, o).o = w
    BY <1>1, <1>4 DEF NextChunk, Both
  <2>2. /\ w.kind = o.kind /\ w.mem = o.mem /\ w.at = o.at /\ w.bytes = o.bytes
        /\ w.size = o.size /\ w.pc = "range" /\ w.from = o.st
    <3> HIDE DEF count, st
    <3> QED
      BY DEF Requests
  <2> HIDE DEF w
  <2> QED
    BY <2>1, <2>2 DEF Continued
<1> HIDE DEF left
<1> QED
  BY <1>1, <1>2, <1>3, <1>4

(* The first chunk, once a page is selected, and the transfers before it.     *)
LEMMA PageContinues ==
    ASSUME NEW f, NEW o \in Requests, o.st = 0
    PROVE  Continued(o, AccessSelected(f, o).o)
<1>1. CASE o.kind = "blank"
  <2> DEFINE w == [o EXCEPT !.pc = "range", !.count = o.size]
  <2>1. AccessSelected(f, o).o = w
    BY <1>1 DEF AccessSelected, Both
  <2>2. /\ w.kind = o.kind /\ w.mem = o.mem /\ w.at = o.at /\ w.bytes = o.bytes
        /\ w.size = o.size /\ w.pc = "range"
    BY DEF Requests
  <2> HIDE DEF w
  <2> QED
    BY <1>1, <2>1, <2>2 DEF Continued
<1>2. CASE o.kind # "blank"
  <2> DEFINE g == [f EXCEPT !.page = Page(o.at), !.selected = TRUE]
  <2>1. AccessSelected(f, o) = NextChunk(g, o)
    BY <1>2 DEF AccessSelected
  <2>2. o.st <= o.size
    BY DEF Requests
  <2> HIDE DEF g
  <2> QED
    BY <2>1, <2>2, ChunkContinues
<1> QED
  BY <1>1, <1>2

(* The memory is selected: the page is, or what follows a page's selection.  *)
LEMMA SpaceContinues ==
    ASSUME NEW f, NEW o \in Requests, o.st = 0
    PROVE  Continued(o, SpaceSelected(f, o).o)
<1> DEFINE g == [f EXCEPT !.mem = o.mem]
<1>1. CASE ~f.selected \/ f.page # Page(o.at)
  <2> DEFINE w == [o EXCEPT !.pc = "page"]
  <2>1. SpaceSelected(f, o).o = w
    BY <1>1 DEF SpaceSelected, Both
  <2>2. /\ w.kind = o.kind /\ w.mem = o.mem /\ w.at = o.at /\ w.bytes = o.bytes
        /\ w.size = o.size /\ w.pc = "page"
    BY DEF Requests
  <2> HIDE DEF w
  <2> QED
    BY <2>1, <2>2 DEF Continued
<1>2. CASE f.selected /\ f.page = Page(o.at)
  <2>1. SpaceSelected(f, o) = AccessSelected(g, o)
    BY <1>2 DEF SpaceSelected
  <2> HIDE DEF g
  <2> QED
    BY <2>1, PageContinues
<1> QED
  BY <1>1, <1>2

(* An access begins with the first selection it needs, or with the range.    *)
LEMMA StartContinues ==
    ASSUME NEW f, NEW o \in Requests, o.st = 0
    PROVE  Continued(o, Started(f, o).o)
<1>1. CASE ~f.selected \/ f.mem # o.mem
  <2> DEFINE w == [o EXCEPT !.pc = "space"]
  <2>1. Started(f, o).o = w
    BY <1>1 DEF Started, Both
  <2>2. /\ w.kind = o.kind /\ w.mem = o.mem /\ w.at = o.at /\ w.bytes = o.bytes
        /\ w.size = o.size /\ w.pc = "space"
    BY DEF Requests
  <2> HIDE DEF w
  <2> QED
    BY <2>1, <2>2 DEF Continued
<1>2. CASE f.selected /\ f.mem = o.mem
  BY <1>2, SpaceContinues DEF Started
<1> QED
  BY <1>1, <1>2

(* An access that begins.                                                    *)
LEMMA AccessContinues ==
    ASSUME NEW kind \in Kinds, NEW mem \in Memories, NEW at \in Nat, NEW bytes \in Seq(Nat),
           Access(kind, mem, at, bytes)
    PROVE  /\ \/ op' \in Results
              \/ /\ op'.kind = kind /\ op'.mem = mem /\ op'.at = at /\ op'.bytes = bytes
                 /\ op'.size = Len(bytes) /\ op'.pc \in {"space", "page", "range"}
           /\ kind = "write" => /\ op'.pc = "ok" => Len(bytes) = 0
                                /\ op'.pc = "range" => op'.from = 0
           /\ UNCHANGED <<chip, last, late>>
<1> DEFINE o == [kind |-> kind, mem |-> mem, at |-> at, bytes |-> bytes,
                 size |-> Len(bytes), st |-> 0, from |-> 0, count |-> 0,
                 cancelled |-> FALSE, pc |-> "start"]
<1>1. op' = Started(fl, o).o /\ UNCHANGED <<chip, last, late>>
  BY DEF Access, Continue
<1>2. /\ o \in Requests /\ o.st = 0 /\ o.kind = kind /\ o.mem = mem /\ o.at = at
      /\ o.bytes = bytes /\ o.size = Len(bytes)
  BY DEF Requests
<1> HIDE DEF o
<1>3. Continued(o, op')
  BY <1>1, <1>2, StartContinues
<1> QED
  BY <1>1, <1>2, <1>3 DEF Continued
-----------------------------------------------------------------------------
(* The offsets of a range in its page.                                       *)
LEMMA OffsetInPage ==
    ASSUME NEW at \in Nat, NEW from \in Nat, NEW count \in Nat, NEW size \in Nat,
           InOnePage(at, from, count, size), NEW k \in 0..count - 1
    PROVE  ((at + from + k) % PageSize) - ((at + from) % PageSize) = k
<1>1. from + count <= size /\ Page(at) = Page(at + size - 1) /\ k \in Nat /\ k < count
  BY DEF InOnePage
<1>2. PICK x \in Nat : x = at + from
  OBVIOUS
<1>3. PICK y \in Nat : y = at + from + k
  BY <1>1
<1>4. PICK e \in Nat : e = at + size - 1
  <2>1. at + size - 1 \in Nat
    BY <1>1
  <2> QED
    BY <2>1
<1>5. at <= x /\ x <= e /\ at <= y /\ y <= e /\ y = x + k
  BY <1>1, <1>2, <1>3, <1>4
<1>6. Page(at) = Page(e)
  BY <1>1, <1>4
<1>7. Page(x) = Page(at) /\ Page(y) = Page(at)
  BY <1>5, <1>6, PageIsConvex, SizeAssumption
<1>8. /\ x % PageSize \in Int /\ x = Page(x) * PageSize + (x % PageSize)
      /\ y % PageSize \in Int /\ y = Page(y) * PageSize + (y % PageSize)
      /\ Page(at) \in Int
  <2>1. x \in Int /\ y \in Int /\ at \in Int
    OBVIOUS
  <2>2. x % PageSize \in Int /\ x = Page(x) * PageSize + (x % PageSize)
    BY <2>1, PageAndOffset
  <2>3. y % PageSize \in Int /\ y = Page(y) * PageSize + (y % PageSize)
    BY <2>1, PageAndOffset
  <2>4. Page(at) \in Int
    BY <2>1, PageAndOffset
  <2> QED
    BY <2>2, <2>3, <2>4
<1>9. PICK q \in Int : q = Page(at) * PageSize
  BY <1>8, SizeAssumption
<1>10. PICK r \in Int : r = x % PageSize
  BY <1>8
<1>11. PICK s \in Int : s = y % PageSize
  BY <1>8
<1>12. x = q + r /\ y = q + s
  BY <1>7, <1>8, <1>9, <1>10, <1>11
<1>13. s - r = k
  BY <1>5, <1>12
<1> QED
  BY <1>2, <1>3, <1>10, <1>11, <1>13

(* The operation that writes the region at a is at a range.                   *)
Writing(a) ==
    /\ op.pc = "range" /\ op.kind = "write" /\ op.mem = Flash /\ op.at = a % U32
    /\ op.bytes = hex.regions[a] /\ op.size = Len(hex.regions[a])

(* The range is within the region, and in a page.                            *)
LEMMA RangeOf ==
    ASSUME HexInv, FlipInv, Within, NEW a \in DOMAIN hex.regions, Writing(a), ~Refused
    PROVE  /\ op \in Accesses /\ InSize(op) /\ op.from \in Nat /\ op.count \in Nat /\ op.at \in Nat
           /\ op.count > 0 /\ op.from + op.count <= Len(hex.regions[a])
           /\ Page(op.at) = Page(op.at + op.size - 1)
           /\ InOnePage(op.at, op.from, op.count, op.size)
<1>1. op \in Accesses /\ InSize(op)
  BY DEF FlipInv, OpOK, Writing, Results, Result, Commands
<1>2. /\ op.from \in Nat /\ op.count \in Nat /\ op.at \in Nat
  BY <1>1 DEF Accesses, Requests
<1>3. op.count > 0 /\ op.from + op.count <= op.size /\ op.size = Len(hex.regions[a])
  BY <1>1 DEF InSize, Writing
<1>4. Page(op.at) = Page(op.at + op.size - 1)
  <2>1. Len(hex.regions[a]) > 0
    <3>1. PICK n \in Nat : n = Len(hex.regions[a])
      BY RegionIs
    <3> QED
      BY <1>2, <1>3, <3>1
  <2> QED
    BY <2>1, RegionInPage DEF Writing
<1>5. (op.at + op.from) % PageSize <= (op.at + op.from + op.count - 1) % PageSize
  <2>1. ~(First > Final)
    BY DEF Refused, Writing
  <2>2. First \in Int /\ Final \in Int
    BY <1>2, SizeAssumption DEF First, Final
  <2>3. First <= Final
    BY <2>1, <2>2
  <2> QED
    BY <2>3 DEF First, Final
<1> QED
  BY <1>1, <1>2, <1>3, <1>4, <1>5 DEF InOnePage

(* What is touched is the range, each address with its byte.                  *)
LEMMA RangeBytes ==
    ASSUME HexInv, FlipInv, Within, ~late, NEW a \in DOMAIN hex.regions, Writing(a), ~Refused,
           Execute
    PROVE  /\ \A x \in Touched :
                  \E i \in op.from + 1..op.from + op.count : <<x, chip'.cells[x]>> = Cell(a, i)
           /\ \A i \in op.from + 1..op.from + op.count : Cell(a, i) \in Graph(chip'.cells)
           /\ DOMAIN chip'.cells = Touched \cup DOMAIN chip.cells
           /\ \A x \in DOMAIN chip.cells \ Touched : chip'.cells[x] = chip.cells[x]
<1> DEFINE new(x) == op.bytes[op.from + (x[2] % PageSize) - First + 1]
           cells  == [x \in Touched \cup DOMAIN chip.cells |->
                          IF x \in Touched THEN new(x) ELSE chip.cells[x]]
<1>1. /\ op \in Accesses /\ InSize(op) /\ op.from \in Nat /\ op.count \in Nat /\ op.at \in Nat
      /\ op.count > 0 /\ op.from + op.count <= Len(hex.regions[a])
      /\ Page(op.at) = Page(op.at + op.size - 1)
      /\ InOnePage(op.at, op.from, op.count, op.size) /\ op.size \in Nat
  BY RangeOf DEF Accesses, Requests
<1>2. chip'.cells = cells
  <2>1. chip' = [chip EXCEPT !.cells = cells]
    BY DEF Execute, Writing
  <2> HIDE DEF cells
  <2> QED
    BY <2>1 DEF FlipInv, ChipOK
<1>3. Touched = {<<Flash, op.at + op.from + k>> : k \in 0..op.count - 1}
  <2>1. Asked = Touched
    BY <1>1, RangeIsAsked, SizeAssumption DEF FlipInv, Writing
  <2> QED
    BY <2>1 DEF Asked, Writing
<1>4. ASSUME NEW k \in 0..op.count - 1
      PROVE  LET x == <<Flash, op.at + op.from + k>>
             IN  /\ x \in Touched /\ op.from + k + 1 \in 1..Len(hex.regions[a])
                 /\ new(x) = hex.regions[a][op.from + k + 1]
                 /\ <<x, new(x)>> = Cell(a, op.from + k + 1)
  <2> DEFINE x == <<Flash, op.at + op.from + k>>
  <2>1. ((op.at + op.from + k) % PageSize) - First = k
    BY <1>1, OffsetInPage DEF First
  <2>2. PICK f \in Int : f = First
    BY <1>1, SizeAssumption DEF First
  <2>3. PICK g \in Int : g = (op.at + op.from + k) % PageSize
    BY <1>1, SizeAssumption
  <2>4. op.from + (x[2] % PageSize) - First + 1 = op.from + k + 1
    <3>1. x[2] = op.at + op.from + k
      OBVIOUS
    <3>2. op.from + g - f + 1 = op.from + k + 1
      BY <1>1, <2>1, <2>2, <2>3
    <3> QED
      BY <2>2, <2>3, <3>1, <3>2
  <2>5. new(x) = hex.regions[a][op.from + k + 1]
    BY <2>4 DEF Writing
  <2>6. op.from + k + 1 \in 1..Len(hex.regions[a])
    <3>1. PICK n \in Nat : n = Len(hex.regions[a])
      BY RegionIs
    <3>2. PICK q \in Nat, c \in Nat : q = op.from /\ c = op.count /\ q + c <= n /\ k \in 0..c - 1
      BY <1>1, <3>1
    <3>3. q + k + 1 \in 1..n
      BY <3>2
    <3> QED
      BY <3>1, <3>2, <3>3
  <2>7. (a + (op.from + k + 1) - 1) % U32 = op.at + op.from + k
    <3>1. (a + (op.from + k + 1) - 1) % U32 = (a % U32) + ((op.from + k + 1) - 1)
      BY <2>6, CellAddress
    <3>2. op.at + ((op.from + k + 1) - 1) = op.at + op.from + k
      <4>1. PICK q \in Nat, p \in Nat : q = op.from /\ p = op.at /\ k \in Int
        BY <1>1
      <4>2. p + ((q + k + 1) - 1) = p + q + k
        BY <4>1
      <4> QED
        BY <4>1, <4>2
    <3> QED
      BY <3>1, <3>2 DEF Writing
  <2>8. x \in Touched
    BY <1>3
  <2>9. <<x, new(x)>> = Cell(a, op.from + k + 1)
    BY <2>5, <2>7 DEF Cell
  <2> QED
    BY <2>5, <2>6, <2>8, <2>9
<1>5. ASSUME NEW x \in Touched
      PROVE  \E i \in op.from + 1..op.from + op.count : <<x, chip'.cells[x]>> = Cell(a, i)
  <2>1. PICK k \in 0..op.count - 1 : x = <<Flash, op.at + op.from + k>>
    BY <1>3
  <2>2. chip'.cells[x] = new(x)
    BY <1>2
  <2>3. <<x, new(x)>> = Cell(a, op.from + k + 1)
    BY <1>4, <2>1
  <2>4. op.from + k + 1 \in op.from + 1..op.from + op.count
    <3>1. PICK q \in Nat, c \in Nat : q = op.from /\ c = op.count /\ k \in 0..c - 1
      BY <1>1
    <3>2. q + k + 1 \in q + 1..q + c
      BY <3>1
    <3> QED
      BY <3>1, <3>2
  <2> HIDE DEF new
  <2> QED
    BY <2>2, <2>3, <2>4
<1>6. ASSUME NEW i \in op.from + 1..op.from + op.count PROVE Cell(a, i) \in Graph(chip'.cells)
  <2>1. PICK k \in 0..op.count - 1 : i = op.from + k + 1
    <3>1. PICK f \in Nat, c \in Nat : f = op.from /\ c = op.count /\ i \in f + 1..f + c
      BY <1>1
    <3>2. i - f - 1 \in 0..c - 1 /\ i = f + (i - f - 1) + 1
      BY <3>1
    <3> QED
      BY <3>1, <3>2
  <2>2. PICK x : x = <<Flash, op.at + op.from + k>>
    OBVIOUS
  <2>3. x \in Touched /\ <<x, new(x)>> = Cell(a, i)
    BY <1>4, <2>1, <2>2
  <2>4. x \in DOMAIN chip'.cells /\ chip'.cells[x] = new(x)
    BY <1>2, <2>3
  <2> HIDE DEF new
  <2> QED
    BY <2>3, <2>4 DEF Graph
<1>7. DOMAIN chip'.cells = Touched \cup DOMAIN chip.cells
  BY <1>2
<1>8. \A x \in DOMAIN chip.cells \ Touched : chip'.cells[x] = chip.cells[x]
  BY <1>2
<1> QED
  BY <1>5, <1>6, <1>7, <1>8

(* A range that is written brings the region on, and spoils nothing.          *)
LEMMA WriteProgress ==
    ASSUME HexInv, FlipInv, Within, ~late, NEW a \in DOMAIN hex.regions, Writing(a), ~Refused,
           Execute, Progress(chip.cells, a, op.from)
    PROVE  Progress(chip'.cells, a, op.from + op.count)
<1> DEFINE c == chip.cells
           d == chip'.cells
           n == Len(hex.regions[a])
<1>1. op.from \in Nat /\ op.count \in Nat /\ op.from + op.count <= n /\ n \in Nat
  BY RangeOf, RegionIs
<1>2. /\ \A x \in Touched : \E i \in op.from + 1..op.from + op.count : <<x, d[x]>> = Cell(a, i)
      /\ \A i \in op.from + 1..op.from + op.count : Cell(a, i) \in Graph(d)
      /\ DOMAIN d = Touched \cup DOMAIN c
      /\ \A x \in DOMAIN c \ Touched : d[x] = c[x]
  BY RangeBytes
<1>3. /\ Graph(c) \subseteq Whole(Below(a) \cup {a})
      /\ Whole(Below(a)) \subseteq Graph(c)
      /\ Part(a, op.from) \subseteq Graph(c)
  BY DEF Progress
<1> HIDE DEF c, d
<1>4. \A i \in op.from + 1..op.from + op.count : i \in 1..n
  BY <1>1
<1> HIDE DEF n
<1>5. ASSUME NEW S, a \in S, NEW x \in Touched PROVE <<x, d[x]>> \in Whole(S)
  <2>1. PICK i \in op.from + 1..op.from + op.count : <<x, d[x]>> = Cell(a, i)
    BY <1>2
  <2>2. i \in 1..Len(hex.regions[a])
    BY <1>4 DEF n
  <2> QED
    BY <1>5, <2>1, <2>2, InWhole
<1>6. Graph(d) \subseteq Whole(Below(a) \cup {a})
  <2>1. ASSUME NEW x \in DOMAIN d PROVE <<x, d[x]>> \in Whole(Below(a) \cup {a})
    <3>1. CASE x \in Touched
      BY <1>5, <3>1
    <3>2. CASE x \notin Touched
      <4>1. x \in DOMAIN c /\ d[x] = c[x]
        BY <1>2, <3>2
      <4>2. <<x, c[x]>> \in Graph(c)
        BY <4>1 DEF Graph
      <4> QED
        BY <1>3, <4>1, <4>2
    <3> QED
      BY <3>1, <3>2
  <2> QED
    BY <2>1 DEF Graph
<1>7. ASSUME NEW e \in Graph(c), e \in Whole(DOMAIN hex.regions) PROVE e \in Graph(d)
  <2>1. PICK x \in DOMAIN c : e = <<x, c[x]>>
    BY DEF Graph
  <2>2. x \in DOMAIN d
    BY <1>2
  <2>3. d[x] = c[x]
    <3>1. CASE x \in Touched
      <4>1. <<x, d[x]>> \in Whole(DOMAIN hex.regions) /\ <<x, c[x]>> \in Whole(DOMAIN hex.regions)
        BY <1>5, <1>7, <2>1, <3>1
      <4> QED
        BY <4>1, OneValue
    <3>2. CASE x \notin Touched
      BY <1>2, <3>2
    <3> QED
      BY <3>1, <3>2
  <2> QED
    BY <2>1, <2>2, <2>3 DEF Graph
<1>8. Whole(Below(a)) \subseteq Graph(d)
  <2>1. ASSUME NEW e \in Whole(Below(a)) PROVE e \in Whole(DOMAIN hex.regions)
    BY InWhole DEF Below
  <2> QED
    BY <1>3, <1>7, <2>1
<1>9. Part(a, op.from + op.count) \subseteq Graph(d)
  <2>1. SUFFICES ASSUME NEW e \in Part(a, op.from + op.count) PROVE e \in Graph(d)
    OBVIOUS
  <2>2. PICK i \in 1..op.from + op.count : e = Cell(a, i)
    BY InPart
  <2>3. CASE i <= op.from
    <3>1. i \in 1..op.from
      BY <1>1, <2>3
    <3>2. e \in Graph(c)
      BY <1>3, <2>2, <3>1, InPart
    <3>3. i \in 1..Len(hex.regions[a])
      BY <1>1, <2>3 DEF n
    <3>4. e \in Whole(DOMAIN hex.regions)
      BY <2>2, <3>3, InWhole
    <3> QED
      BY <1>7, <3>2, <3>4
  <2>4. CASE ~(i <= op.from)
    <3>1. i \in op.from + 1..op.from + op.count
      BY <1>1, <2>4
    <3> QED
      BY <1>2, <2>2, <3>1
  <2> QED
    BY <2>3, <2>4
<1> QED
  BY <1>6, <1>8, <1>9 DEF Progress, d
-----------------------------------------------------------------------------
(* Less of a region is written when more is; nothing of it, from the start.    *)
LEMMA LessProgress ==
    ASSUME NEW c, NEW a, NEW n \in Nat, NEW m \in Nat, m <= n, Progress(c, a, n)
    PROVE  Progress(c, a, m)
<1>1. ASSUME NEW e \in Part(a, m) PROVE e \in Part(a, n)
  <2>1. PICK i \in 1..m : e = Cell(a, i)
    BY InPart
  <2>2. i \in 1..n
    OBVIOUS
  <2> QED
    BY <2>1, <2>2, InPart
<1> QED
  BY <1>1 DEF Progress

(* What the step is about is what the operation does.                         *)
LEMMA WriteIs ==
    ASSUME StepOK, step[1] = "write"
    PROVE  step[2] \in DOMAIN hex.regions /\ hex.status = "done"
<1>1. step \in {<<"write", a>> : a \in DOMAIN hex.regions}
  BY DEF StepOK, Steps, Words
<1> QED
  BY <1>1 DEF StepOK

(* While nothing is sent to the chip and the file and the step stay.          *)
LEMMA Unmoved ==
    ASSUME hex' = hex, lines' = lines, step' = step
    PROVE  /\ Steps' = Steps
           /\ \A o, s : Doing(o, s)' <=> Doing(o, s)
           /\ \A c, a, n : Progress(c, a, n)' <=> Progress(c, a, n)
           /\ \A S : Whole(S)' = Whole(S)
           /\ Within' <=> Within
<1>1. Steps' = Steps
  BY DEF Steps
<1>2. \A o, s : Doing(o, s)' <=> Doing(o, s)
  BY DEF Doing
<1>3. \A a, n : Part(a, n)' = Part(a, n)
  BY DEF Part
<1>4. \A S : Whole(S)' = Whole(S)
  BY <1>3 DEF Whole
<1>5. \A a : Below(a)' = Below(a)
  BY DEF Below
<1>6. \A c, a, n : Progress(c, a, n)' <=> Progress(c, a, n)
  BY <1>3, <1>4, <1>5 DEF Progress
<1>7. Within' <=> Within
  BY DEF Within, Wraps, Record, Base
<1> QED
  BY <1>1, <1>2, <1>4, <1>6, <1>7

(* Which step an operation is of.                                            *)
WriteOf(o, s) ==
    /\ s[1] = "write" /\ o.kind = "write" /\ o.mem = Flash /\ o.at = s[2] % U32
    /\ o.bytes = hex.regions[s[2]] /\ o.size = Len(hex.regions[s[2]])

(* An access is of the step that reads, checks or writes.                    *)
LEMMA AccessStep ==
    ASSUME NEW o \in Accesses, NEW s, Doing(o, s)
    PROVE  \/ s[1] = "signature" /\ o.kind = "read"
           \/ s[1] = "blank" /\ o.kind = "blank"
           \/ WriteOf(o, s)
BY DEF Accesses, Requests, Kinds, Transfers, Doing, Results, Result, WriteOf

(* A command is of the step that erases or starts the application.           *)
LEMMA CommandStep ==
    ASSUME NEW o \in Commands, NEW s, Doing(o, s)
    PROVE  \/ s[1] = "erase" /\ o.pc \in {"erase", "status"}
           \/ s[1] = "start" /\ o.pc \in {"start", "zero"}
BY DEF Commands, Doing, Results, Result

(* An operation that goes on is of the same step.                             *)
LEMMA DoingGoesOn ==
    ASSUME NEW o \in Accesses, NEW s, Doing(o, s), NEW w,
           \/ w \in Results
           \/ /\ w.kind = o.kind /\ w.mem = o.mem /\ w.at = o.at /\ w.bytes = o.bytes
              /\ w.size = o.size
    PROVE  Doing(w, s)
<1>1. CASE w \in Results
  BY <1>1 DEF Doing
<1>2. CASE /\ w.kind = o.kind /\ w.mem = o.mem /\ w.at = o.at /\ w.bytes = o.bytes
           /\ w.size = o.size
  BY <1>2, AccessStep DEF Doing, WriteOf
<1> QED
  BY <1>1, <1>2

(* What a transfer does to the chip besides a selection.                      *)
LEMMA ExecutedRest ==
    ASSUME FlipInv, Execute
    PROVE  /\ ~(op.pc = "range" /\ op.kind = "write") => chip'.cells = chip.cells
           /\ chip'.state = IF op.pc = "erase" THEN "erasing"
                            ELSE IF op.pc = "start" THEN "running" ELSE chip.state
<1>1. chip = [mem |-> chip.mem, page |-> chip.page, cells |-> chip.cells, state |-> chip.state]
  BY DEF FlipInv, ChipOK
<1>2. CASE op.pc = "range" /\ op.kind = "write"
  <2>1. \E c : chip' = [chip EXCEPT !.cells = c]
    BY <1>2 DEF Execute
  <2> QED
    BY <1>1, <1>2, <2>1
<1>3. CASE op.pc \in {"space", "page", "erase", "start"}
  BY <1>1, <1>3 DEF Execute
<1>4. CASE ~(op.pc = "range" /\ op.kind = "write") /\ op.pc \notin {"space", "page", "erase", "start"}
  <2>1. chip' = chip
    BY <1>4 DEF Execute
  <2> QED
    BY <1>4, <2>1
<1> QED
  BY <1>2, <1>3, <1>4

(* A step of the chip or of the operation.                                   *)
LEMMA Moved ==
    ASSUME StepOK, ~late /\ Within => CellsOK, hex' = hex, lines' = lines, step' = step, Doing(op', step),
           ~late' => ~late, step[1] = "start" => chip'.cells = chip.cells,
           step[1] = "write" /\ ~late' /\ Within =>
               Progress(chip'.cells, step[2], Sent(op', step[2]))
    PROVE  StepOK' /\ (~late' /\ Within' => CellsOK')
<1>1. /\ Steps' = Steps
      /\ \A o, s : Doing(o, s)' <=> Doing(o, s)
      /\ \A c, a, n : Progress(c, a, n)' <=> Progress(c, a, n)
      /\ \A S : Whole(S)' = Whole(S)
      /\ Within' <=> Within
  BY Unmoved
<1>2. StepOK'
  BY <1>1 DEF StepOK
<1>3. ASSUME ~late', Within' PROVE CellsOK'
  <2>1. ~late /\ Within /\ CellsOK
    BY <1>1, <1>3
  <2>2. (step[1] = "start" => Graph(chip.cells) = Whole(DOMAIN hex.regions))'
    BY <1>1, <2>1 DEF CellsOK
  <2>3. \A o, a : Sent(o, a)' = Sent(o, a)
    BY DEF Sent
  <2>4. (step[1] = "write" => Progress(chip.cells, step[2], Sent(op, step[2])))'
    BY <1>1, <1>3, <2>1, <2>3
  <2> QED
    BY <2>2, <2>4 DEF CellsOK
<1> QED
  BY <1>2, <1>3

(* What moves neither the chip's state nor an erasure's result.              *)
LEMMA ErasureMoved ==
    ASSUME ErasureOK, step' = step, chip'.cells = chip.cells \/ step[1] = "write",
           chip'.state = chip.state,
           op'.pc # "status", step[1] = "erase" => op'.pc # "ok"
    PROVE  ErasureOK'
BY DEF ErasureOK

(* Nothing is known to have been sent of a region.                            *)
LEMMA NothingSent ==
    ASSUME HexInv, NEW a \in DOMAIN hex.regions, NEW o, NEW c, NEW n \in Nat, Progress(c, a, n),
           o.pc = "ok" => Len(hex.regions[a]) = 0, o.pc = "range" => o.from = 0
    PROVE  Progress(c, a, Sent(o, a))
<1>1. Sent(o, a) = 0
  BY DEF Sent
<1>2. Progress(c, a, 0)
  BY LessProgress
<1> QED
  BY <1>1, <1>2

(* How far a write has come is a number.                                     *)
LEMMA SentIsNat ==
    ASSUME HexInv, NEW a \in DOMAIN hex.regions, NEW o, o.pc = "range" => o.from \in Nat
    PROVE  Sent(o, a) \in Nat
BY RegionIs DEF Sent
-----------------------------------------------------------------------------
(* An operation that runs is an access or a command.                         *)
LEMMA RunningIs ==
    ASSUME FlipInv, op.pc \notin {"ok", "failed"}
    PROVE  (op \in Accesses /\ InSize(op)) \/ op \in Commands
BY DEF FlipInv, OpOK, Results, Result

(* The progress of a write that is before its next range, or at one.           *)
LEMMA ProgressNow ==
    ASSUME ProgInv, ~late, Within, step[1] = "write"
    PROVE  /\ step[2] \in DOMAIN hex.regions
           /\ Progress(chip.cells, step[2], Sent(op, step[2])) /\ Sent(op, step[2]) \in Nat
<1>1. step[2] \in DOMAIN hex.regions
  BY WriteIs DEF ProgInv, ClientInv
<1>2. Progress(chip.cells, step[2], Sent(op, step[2]))
  BY DEF ProgInv, ClientInv, CellsOK
<1>3. op.pc = "range" => op.from \in Nat
  <2>1. SUFFICES ASSUME op.pc = "range" PROVE op.from \in Nat
    OBVIOUS
  <2>2. op \in Accesses
    BY <2>1, RunningIs DEF ProgInv, Commands
  <2> QED
    BY <2>2 DEF Accesses, Requests
<1> QED
  BY <1>1, <1>2, <1>3, SentIsNat DEF ProgInv

(* A cancellation.                                                           *)
LEMMA CancelKeeps ==
    ASSUME ProgInv, Cancel, hex' = hex, lines' = lines, step' = step
    PROVE  ClientInv'
<1>1. /\ op' = [op EXCEPT !.cancelled = TRUE] /\ UNCHANGED <<fl, chip, last, late>>
      /\ op.pc \in {"upload", "status", "range"}
  BY DEF Cancel, InLoop
<1>2. (op \in Accesses /\ InSize(op)) \/ op \in Commands
  BY <1>1, RunningIs DEF ProgInv
<1>3. Doing(op, step)
  BY DEF ProgInv, ClientInv, StepOK
<1>4. op'.pc = op.pc
  BY <1>1, <1>2 DEF Accesses, Requests, Commands
<1>5. Doing(op', step)
  <2>1. CASE op \in Accesses
    <3>1. /\ op'.kind = op.kind /\ op'.mem = op.mem /\ op'.at = op.at /\ op'.bytes = op.bytes
          /\ op'.size = op.size
      BY <1>1, <2>1 DEF Accesses, Requests
    <3> QED
      BY <1>3, <2>1, <3>1, DoingGoesOn
  <2>2. CASE op \in Commands
    <3>1. op'.kind = op.kind
      BY <1>1, <2>2 DEF Commands
    <3>2. op \notin Results
      BY <2>2 DEF Results, Result, Commands
    <3>3. op.kind \in {"erase", "start"}
      BY <2>2 DEF Commands
    <3> QED
      BY <1>3, <1>4, <3>1, <3>2, <3>3 DEF Doing
  <2> QED
    BY <1>2, <2>1, <2>2
<1>6. ErasureOK'
  BY <1>1, <1>4 DEF ProgInv, ClientInv, ErasureOK
<1>7. ASSUME step[1] = "write", ~late', Within
      PROVE  Progress(chip'.cells, step[2], Sent(op', step[2]))
  <2>1. Progress(chip.cells, step[2], Sent(op, step[2]))
    BY <1>1, <1>7, ProgressNow
  <2>2. op \in Accesses
    BY <1>2, <1>3, <1>7, CommandStep
  <2>3. op'.from = op.from
    BY <1>1, <2>2 DEF Accesses, Requests
  <2>4. Sent(op', step[2]) = Sent(op, step[2])
    BY <1>4, <2>3 DEF Sent
  <2> QED
    BY <1>1, <2>1, <2>4
<1> QED
  BY <1>1, <1>5, <1>6, <1>7, Moved DEF ProgInv, ClientInv

(* A selection that has taken place.                                         *)
LEMMA SelectionKeeps ==
    ASSUME ProgInv, hex' = hex, lines' = lines, step' = step, late' = late, op.pc \in {"space", "page"}, Execute,
           Continued(op, op')
    PROVE  ClientInv'
<1>1. op \in Accesses /\ InSize(op)
  BY RunningIs DEF ProgInv, Commands
<1>2. op.st = 0 /\ op.from = 0
  BY <1>1 DEF InSize
<1>3. Doing(op, step) /\ op \in Requests
  BY <1>1 DEF ProgInv, ClientInv, StepOK, Accesses
<1>4. Doing(op', step)
  BY <1>1, <1>3, DoingGoesOn DEF Continued
<1>5. chip'.cells = chip.cells /\ chip'.state = chip.state
  BY ExecutedRest DEF ProgInv
<1>6. step[1] # "erase" /\ op'.pc # "status"
  BY <1>1, <1>3, AccessStep DEF Continued, Results, Result, WriteOf
<1>7. ErasureOK'
  BY <1>5, <1>6, ErasureMoved DEF ProgInv, ClientInv
<1>8. ASSUME step[1] = "write", ~late', Within
      PROVE  Progress(chip'.cells, step[2], Sent(op', step[2]))
  <2>1. /\ step[2] \in DOMAIN hex.regions
        /\ Progress(chip.cells, step[2], Sent(op, step[2])) /\ Sent(op, step[2]) \in Nat
    BY <1>8, ProgressNow
  <2>2. op.kind = "write" /\ op.size = Len(hex.regions[step[2]])
    BY <1>1, <1>3, <1>8, AccessStep DEF WriteOf
  <2>3. /\ op'.pc = "ok" => Len(hex.regions[step[2]]) = 0
        /\ op'.pc = "range" => op'.from = 0
    BY <1>2, <2>2 DEF Continued
  <2> QED
    BY <1>5, <2>1, <2>3, NothingSent DEF ProgInv
<1> QED
  BY <1>4, <1>5, <1>7, <1>8, Moved DEF ProgInv, ClientInv

(* The region of the step, when a range of it is at hand.                     *)
LEMMA RangeStep ==
    ASSUME ProgInv, op.pc = "range", op.kind = "write"
    PROVE  /\ op \in Accesses /\ InSize(op) /\ op \in Requests
           /\ step[1] = "write" /\ step[2] \in DOMAIN hex.regions /\ Writing(step[2])
<1>1. op \in Accesses /\ InSize(op) /\ op \in Requests
  BY RunningIs DEF ProgInv, Commands, Accesses
<1>2. Doing(op, step)
  BY DEF ProgInv, ClientInv, StepOK
<1>3. WriteOf(op, step)
  BY <1>1, <1>2, AccessStep
<1>4. step[2] \in DOMAIN hex.regions
  BY <1>3, WriteIs DEF ProgInv, ClientInv, WriteOf
<1> QED
  BY <1>1, <1>3, <1>4 DEF WriteOf, Writing

(* A range that has been written, whatever comes after it.                    *)
LEMMA RangeKeeps ==
    ASSUME ProgInv, hex' = hex, lines' = lines, step' = step, ~late' => ~late, op.pc = "range",
           op.kind = "write", ~Refused, Execute, Doing(op', step), op'.pc # "status",
           op'.pc = "ok" => op.st = op.size, op'.pc = "range" => op'.from = op.st
    PROVE  ClientInv'
<1>1. /\ op \in Accesses /\ InSize(op) /\ op \in Requests
      /\ step[1] = "write" /\ step[2] \in DOMAIN hex.regions /\ Writing(step[2])
  BY RangeStep
<1>2. op.from \in Nat /\ op.count \in Nat /\ op.st = op.from + op.count /\ op.size \in Nat
  BY <1>1 DEF Requests, InSize
<1>3. chip'.state = chip.state
  BY ExecutedRest DEF ProgInv
<1>4. ErasureOK'
  BY <1>1, <1>3, ErasureMoved DEF ProgInv, ClientInv
<1>5. ASSUME ~late', Within
      PROVE  Progress(chip'.cells, step[2], Sent(op', step[2]))
  <2>1. Progress(chip.cells, step[2], op.from)
    <3>1. Progress(chip.cells, step[2], Sent(op, step[2]))
      BY <1>1, <1>5, ProgressNow
    <3> QED
      BY <3>1 DEF Sent
  <2>2. Progress(chip'.cells, step[2], op.from + op.count)
    BY <1>1, <1>5, <2>1, WriteProgress DEF ProgInv
  <2>3. op.size = Len(hex.regions[step[2]])
    BY <1>1 DEF Writing
  <2>4. CASE op'.pc \in {"ok", "range"}
    <3>1. Sent(op', step[2]) = op.from + op.count
      BY <1>2, <2>3, <2>4 DEF Sent
    <3> QED
      BY <2>2, <3>1
  <2>5. CASE op'.pc \notin {"ok", "range"}
    <3>1. Sent(op', step[2]) = 0
      BY <2>5 DEF Sent
    <3>2. op.from + op.count \in Nat /\ 0 <= op.from + op.count
      BY <1>2
    <3>3. Progress(chip'.cells, step[2], 0)
      BY <2>2, <3>2, LessProgress
    <3> QED
      BY <3>1, <3>3
  <2> QED
    BY <2>4, <2>5
<1> QED
  BY <1>1, <1>4, <1>5, Moved DEF ProgInv, ClientInv

(* A transfer that was done.                                                 *)
LEMMA TransferKeeps ==
    ASSUME ProgInv, TransferDone, hex' = hex, lines' = lines, step' = step
    PROVE  ClientInv'
<1>1. Execute /\ ~Refused /\ late' = late /\ op.pc \notin {"ok", "failed"}
  BY DEF TransferDone, Running
<1>2. (op \in Accesses /\ InSize(op)) \/ op \in Commands
  BY <1>1, RunningIs DEF ProgInv
<1>3. Doing(op, step) /\ StepOK /\ ErasureOK /\ (~late /\ Within => CellsOK)
  BY DEF ProgInv, ClientInv, StepOK
<1>4. ASSUME op.pc \in {"space", "page", "range"}
      PROVE  op \in Accesses /\ InSize(op) /\ op \in Requests /\ op \notin Commands
  BY <1>2, <1>4 DEF Commands, Accesses
<1>5. CASE op.pc = "space" /\ Continue(SpaceSelected(fl, op))
  <2>1. op \in Requests /\ op.st = 0
    BY <1>4, <1>5 DEF InSize
  <2>2. Continued(op, op')
    BY <1>5, <2>1, SpaceContinues DEF Continue
  <2> QED
    BY <1>1, <1>5, <2>2, SelectionKeeps
<1>6. CASE op.pc = "page" /\ Continue(AccessSelected(fl, op))
  <2>1. op \in Requests /\ op.st = 0
    BY <1>4, <1>6 DEF InSize
  <2>2. Continued(op, op')
    BY <1>6, <2>1, PageContinues DEF Continue
  <2> QED
    BY <1>1, <1>6, <2>2, SelectionKeeps
<1>7. CASE op.pc = "range" /\ op.kind = "write" /\ Continue(NextChunk(fl, op))
  <2>1. op \in Requests /\ op \in Accesses /\ op.st <= op.size
    BY <1>4, <1>7 DEF InSize
  <2>2. Continued(op, op')
    BY <1>7, <2>1, ChunkContinues DEF Continue
  <2>3. Doing(op', step)
    BY <1>3, <2>1, <2>2, DoingGoesOn DEF Continued
  <2>4. op'.pc # "status"
    BY <2>2 DEF Continued, Results, Result
  <2>5. (op'.pc = "ok" => op.st = op.size) /\ (op'.pc = "range" => op'.from = op.st)
    BY <1>7, <2>2 DEF Continued
  <2> QED
    BY <1>1, <1>7, <2>3, <2>4, <2>5, RangeKeeps
<1>8. ASSUME NEW pc \in {"upload", "verdict"}, op.pc = "range", op.kind # "write",
             Continue(Both(fl, [op EXCEPT !.pc = pc]))
      PROVE  ClientInv'
  <2>1. op \in Requests /\ op \in Accesses /\ op' = [op EXCEPT !.pc = pc]
    BY <1>4, <1>8 DEF Continue, Both
  <2>2. /\ op'.kind = op.kind /\ op'.mem = op.mem /\ op'.at = op.at /\ op'.bytes = op.bytes
        /\ op'.size = op.size /\ op'.pc = pc
    BY <2>1 DEF Requests
  <2>3. Doing(op', step)
    BY <1>3, <2>1, <2>2, DoingGoesOn
  <2>4. step[1] \notin {"write", "start", "erase"}
    BY <1>3, <1>8, <2>1, AccessStep DEF WriteOf
  <2>5. chip'.cells = chip.cells /\ chip'.state = chip.state
    BY <1>1, <1>8, ExecutedRest DEF ProgInv
  <2>6. ErasureOK'
    BY <1>3, <2>2, <2>4, <2>5, ErasureMoved
  <2> QED
    BY <1>1, <1>3, <2>3, <2>4, <2>6, Moved DEF ClientInv
<1>9. ASSUME NEW pc \in {"status", "zero"}, op.pc \in {"erase", "start"},
             pc = "status" <=> op.pc = "erase", Continue(Both(fl, [op EXCEPT !.pc = pc]))
      PROVE  ClientInv'
  <2>1. op \in Commands /\ op' = [op EXCEPT !.pc = pc]
    BY <1>2, <1>9 DEF Continue, Both, Accesses, Requests, Transfers
  <2>2. op'.kind = op.kind /\ op'.pc = pc
    BY <2>1 DEF Commands
  <2>3. chip'.cells = chip.cells
        /\ chip'.state = IF op.pc = "erase" THEN "erasing" ELSE "running"
    BY <1>1, <1>9, ExecutedRest DEF ProgInv
  <2>4. op.kind \in {"erase", "start"} /\ op \notin Results
    BY <2>1 DEF Commands, Results, Result
  <2>5. \/ step[1] = "erase" /\ op.kind = "erase" /\ op.pc = "erase"
        \/ step[1] = "start" /\ op.kind = "start" /\ op.pc = "start"
    BY <1>3, <1>9, <2>4 DEF Doing
  <2>6. Doing(op', step)
    BY <1>9, <2>2, <2>5 DEF Doing
  <2>7. ErasureOK'
    BY <1>9, <2>2, <2>3, <2>5 DEF ErasureOK
  <2> QED
    BY <1>1, <1>3, <2>3, <2>5, <2>6, <2>7, Moved DEF ClientInv
<1> QED
  BY <1>5, <1>6, <1>7, <1>8, <1>9 DEF TransferDone

(* A transfer that failed, whether or not it took place.                     *)
LEMMA FailureKeeps ==
    ASSUME ProgInv, TransferFails, hex' = hex, lines' = lines, step' = step
    PROVE  ClientInv'
<1>1. op' = Result("failed") /\ op'.pc = "failed" /\ op' \in Results
      /\ op.pc \notin {"ok", "failed"}
  BY DEF TransferFails, Running, Results, Result
<1>2. (op \in Accesses /\ InSize(op)) \/ op \in Commands
  BY <1>1, RunningIs DEF ProgInv
<1>3. Doing(op, step) /\ StepOK /\ ErasureOK /\ (~late /\ Within => CellsOK) /\ HexInv /\ FlipInv
  BY DEF ProgInv, ClientInv, StepOK
<1>4. Doing(op', step)
  BY <1>1 DEF Doing
<1>5. ~late' => ~late
  BY DEF TransferFails
<1>6. CASE Execute /\ ~Refused /\ op.pc = "range" /\ op.kind = "write"
  BY <1>1, <1>4, <1>5, <1>6, RangeKeeps
<1>7. ASSUME chip'.cells = chip.cells,
             \/ chip'.state = chip.state
             \/ chip'.state = "erasing" /\ step[1] = "erase"
             \/ chip'.state = "running" /\ step[1] = "start"
      PROVE  ClientInv'
  <2>1. ErasureOK'
    BY <1>1, <1>3, <1>7 DEF ErasureOK
  <2>2. ASSUME step[1] = "write", ~late', Within
        PROVE  Progress(chip'.cells, step[2], Sent(op', step[2]))
    <3>1. /\ step[2] \in DOMAIN hex.regions
          /\ Progress(chip.cells, step[2], Sent(op, step[2])) /\ Sent(op, step[2]) \in Nat
      BY <1>5, <2>2, ProgressNow
    <3> QED
      BY <1>1, <1>3, <1>7, <3>1, NothingSent
  <2> QED
    BY <1>3, <1>4, <1>5, <1>7, <2>1, <2>2, Moved DEF ClientInv
<1>8. CASE Execute /\ ~(op.pc = "range" /\ op.kind = "write")
  <2>1. /\ chip'.cells = chip.cells
        /\ chip'.state = IF op.pc = "erase" THEN "erasing"
                         ELSE IF op.pc = "start" THEN "running" ELSE chip.state
    BY <1>3, <1>8, ExecutedRest
  <2>2. op.pc \in {"erase", "start"} => op \in Commands
    BY <1>2 DEF Accesses, Requests, Transfers
  <2>3. (op.pc = "erase" => step[1] = "erase") /\ (op.pc = "start" => step[1] = "start")
    BY <1>3, <2>2, CommandStep
  <2> QED
    BY <1>7, <2>1, <2>3
<1>9. CASE chip' = chip
  BY <1>7, <1>9
<1> QED
  BY <1>6, <1>8, <1>9 DEF TransferFails

(* The steps that do not go to the chip, and the chip's own.                  *)
LEMMA RestKeeps ==
    ASSUME ProgInv, hex' = hex, lines' = lines, step' = step,
           Verdict \/ EraseStatus \/ Leave \/ Erased \/ \E n \in 0..Chunk : Upload(n)
    PROVE  ClientInv'
<1>1. Doing(op, step) /\ StepOK /\ ErasureOK /\ (~late /\ Within => CellsOK) /\ HexInv /\ FlipInv
  BY DEF ProgInv, ClientInv, StepOK
<1>2. ASSUME op.pc \in {"verdict", "upload"} PROVE op \in Accesses /\ InSize(op) /\ op \in Requests
  BY <1>1, <1>2, RunningIs DEF Commands, Accesses
<1>3. ASSUME op.pc \in {"status", "zero"} PROVE op \in Commands
  BY <1>1, <1>3, RunningIs DEF Accesses, Requests, Transfers
<1>4. CASE Verdict
  <2>1. op.pc = "verdict" /\ op' \in Results /\ chip' = chip /\ late' = late
    BY <1>4 DEF Verdict, Results
  <2>2. step[1] = "blank"
    BY <1>1, <1>2, <2>1, AccessStep DEF InSize, WriteOf
  <2>3. Doing(op', step) /\ op'.pc # "status"
    BY <2>1 DEF Doing, Results, Result
  <2>4. ErasureOK'
    BY <1>1, <2>1, <2>2, <2>3, ErasureMoved
  <2> QED
    BY <1>1, <2>1, <2>2, <2>3, <2>4, Moved DEF ClientInv
<1>5. CASE EraseStatus
  <2>1. /\ op.pc = "status" /\ op' \in Results /\ chip' = chip /\ late' = late
        /\ op'.pc = "ok" => chip.state = "idle"
    BY <1>5 DEF EraseStatus, Results, Result
  <2>2. step[1] = "erase"
    BY <1>1, <1>3, <2>1, CommandStep
  <2>3. Doing(op', step) /\ op'.pc # "status"
    BY <2>1 DEF Doing, Results, Result
  <2>4. ErasureOK'
    BY <1>1, <2>1, <2>2, <2>3 DEF ErasureOK
  <2> QED
    BY <1>1, <2>1, <2>2, <2>3, <2>4, Moved DEF ClientInv
<1>6. CASE Leave
  <2>1. op.pc = "zero" /\ op' \in Results /\ chip' = chip /\ late' = late
    BY <1>6 DEF Leave, Results
  <2>2. step[1] = "start"
    BY <1>1, <1>3, <2>1, CommandStep
  <2>3. Doing(op', step) /\ op'.pc # "status"
    BY <2>1 DEF Doing, Results, Result
  <2>4. ErasureOK'
    BY <1>1, <2>1, <2>2, <2>3, ErasureMoved
  <2> QED
    BY <1>1, <2>1, <2>2, <2>3, <2>4, Moved DEF ClientInv
<1>7. CASE Erased
  <2>1. /\ chip.state = "erasing" /\ op' = op /\ late' = late
        /\ chip'.state = "idle" /\ chip'.cells = <<>>
    BY <1>1, <1>7 DEF Erased, FlipInv, ChipOK
  <2>2. step[1] \in {"open", "signature", "erase"}
    BY <1>1, <2>1 DEF ErasureOK
  <2>3. ErasureOK'
    BY <2>1, <2>2 DEF ErasureOK
  <2> QED
    BY <1>1, <2>1, <2>2, <2>3, Moved DEF ClientInv
<1>8. ASSUME NEW n \in 0..Chunk, Upload(n) PROVE ClientInv'
  <2> DEFINE o == [op EXCEPT !.st = @ + n]
  <2>1. /\ op.pc = "upload" /\ n \in 0..op.count /\ op' = NextChunk(fl, o).o
        /\ chip' = chip /\ late' = late
    BY <1>8 DEF Upload, Continue
  <2>2. op \in Accesses /\ InSize(op) /\ op \in Requests
    BY <1>2, <2>1
  <2>3. op.kind = "read" /\ op.st + op.count <= op.size
    BY <2>1, <2>2 DEF InSize
  <2>4. step[1] = "signature"
    BY <1>1, <2>2, <2>3, AccessStep DEF WriteOf
  <2>5. /\ o \in Requests /\ o.st <= o.size /\ o.kind = "read"
    <3>1. op.st \in Nat /\ op.count \in Nat /\ op.size \in Nat /\ n \in Nat
      BY <2>1, <2>2 DEF Requests
    <3>2. PICK k \in Nat : k = op.st + n
      BY <3>1
    <3>3. o = [op EXCEPT !.st = k]
      BY <3>2
    <3> HIDE DEF o
    <3>4. o \in Requests /\ o.st = k /\ o.size = op.size /\ o.kind = op.kind
      BY <2>2, <3>3 DEF Requests
    <3> QED
      BY <2>1, <2>3, <3>1, <3>2, <3>4
  <2> HIDE DEF o
  <2>6. Continued(o, op')
    BY <2>1, <2>5, ChunkContinues
  <2>7. Doing(op', step) /\ op'.pc # "status"
    BY <2>4, <2>5, <2>6 DEF Continued, Doing, Results, Result
  <2>8. ErasureOK'
    BY <1>1, <2>1, <2>4, <2>7, ErasureMoved
  <2> QED
    BY <1>1, <2>1, <2>4, <2>7, <2>8, Moved DEF ClientInv
<1> QED
  BY <1>4, <1>5, <1>6, <1>7, <1>8
-----------------------------------------------------------------------------
(* What a step may take for granted when it begins.                          *)
Entry(s) ==
    /\ s \in Steps
    /\ s[1] \in {"blank", "write", "start"} => chip.state # "erasing"
    /\ s[1] = "blank" => chip.cells = <<>>
    /\ s[1] = "write" /\ ~late /\ Within => Progress(chip.cells, s[2], 0)
    /\ s[1] = "start" /\ ~late /\ Within => Graph(chip.cells) = Whole(DOMAIN hex.regions)

(* The words of steps.                                                       *)
LEMMA StepIs ==
    ASSUME NEW s \in Steps
    PROVE  \/ s \in Words /\ s[1] # "write" /\ s = <<s[1]>>
           \/ s[1] = "write" /\ s[2] \in DOMAIN hex.regions /\ s = <<"write", s[2]>>
<1>1. CASE s \in Words
  BY <1>1 DEF Words
<1>2. CASE s \in {<<"write", a>> : a \in DOMAIN hex.regions}
  <2>1. PICK a \in DOMAIN hex.regions : s = <<"write", a>>
    BY <1>2
  <2> QED
    BY <2>1
<1> QED
  BY <1>1, <1>2 DEF Steps

(* What a step asks of the chip is something that can be asked.               *)
LEMMA DoIsFlip ==
    ASSUME HexInv, NEW s \in Steps, Do(s)
    PROVE  /\ \/ s[1] = "open" /\ Open
              \/ s[1] = "signature" /\ Access("read", Signature, U16 - 1, <<0>>)
              \/ s[1] = "erase" /\ ChipErase
              \/ s[1] = "blank" /\ Access("blank", Flash, 0, [i \in 1..U16 |-> 0])
              \/ s[1] = "write" /\ Access("write", Flash, s[2] % U32, hex.regions[s[2]])
              \/ s[1] = "start" /\ StartApplication
           /\ U16 - 1 \in Nat /\ <<0>> \in Seq(Nat) /\ [i \in 1..U16 |-> 0] \in Seq(Nat)
           /\ s[1] = "write" => /\ s[2] \in DOMAIN hex.regions /\ s[2] % U32 \in Nat
                                /\ hex.regions[s[2]] \in Seq(Nat)
           /\ Flash \in Memories /\ Signature \in Memories
           /\ FlipNext
<1>1. \/ s[1] = "open" /\ Open
      \/ s[1] = "signature" /\ Access("read", Signature, U16 - 1, <<0>>)
      \/ s[1] = "erase" /\ ChipErase
      \/ s[1] = "blank" /\ Access("blank", Flash, 0, [i \in 1..U16 |-> 0])
      \/ s[1] = "write" /\ Access("write", Flash, s[2] % U32, hex.regions[s[2]])
      \/ s[1] = "start" /\ StartApplication
  BY DEF Do
<1>2. U16 \in Nat /\ U16 - 1 \in Nat
  BY Widths
<1>3. <<0>> \in Seq(Nat) /\ [i \in 1..U16 |-> 0] \in Seq(Nat)
  <2>1. PICK n \in Nat : n = U16
    BY <1>2
  <2>2. [i \in 1..n |-> 0] \in Seq(Nat)
    OBVIOUS
  <2> QED
    BY <2>1, <2>2
<1>4. s[1] = "write" => /\ s[2] \in DOMAIN hex.regions /\ s[2] % U32 \in Nat
                        /\ hex.regions[s[2]] \in Seq(Nat)
  BY StepIs, RegionIs
<1>5. Flash \in Memories /\ Signature \in Memories
  BY PageAssumption
<1>6. ASSUME NEW kind \in Kinds, NEW mem \in Memories, NEW at \in Nat, NEW bytes \in Seq(Nat),
             Access(kind, mem, at, bytes)
      PROVE  FlipNext
  BY <1>6 DEF FlipNext
<1>7. FlipNext
  <2>1. CASE s[1] = "signature" /\ Access("read", Signature, U16 - 1, <<0>>)
    BY <1>2, <1>3, <1>5, <1>6, <2>1 DEF Kinds
  <2>2. CASE s[1] = "blank" /\ Access("blank", Flash, 0, [i \in 1..U16 |-> 0])
    BY <1>3, <1>5, <1>6, <2>2 DEF Kinds
  <2>3. CASE s[1] = "write" /\ Access("write", Flash, s[2] % U32, hex.regions[s[2]])
    BY <1>4, <1>5, <1>6, <2>3 DEF Kinds
  <2>4. CASE Open \/ ChipErase \/ StartApplication
    BY <2>4 DEF FlipNext
  <2> QED
    BY <1>1, <2>1, <2>2, <2>3, <2>4
<1> QED
  BY <1>1, <1>2, <1>3, <1>4, <1>5, <1>7

(* A step begins.                                                            *)
LEMMA DoKeeps ==
    ASSUME HexInv, hex.status = "done", NEW s, Entry(s), Do(s), hex' = hex, lines' = lines
    PROVE  ClientInv'
<1>1. s \in Steps /\ step' = s
  BY DEF Entry, Do
<1>2. /\ Steps' = Steps
      /\ \A o, t : Doing(o, t)' <=> Doing(o, t)
      /\ \A c, a, n : Progress(c, a, n)' <=> Progress(c, a, n)
      /\ \A S : Whole(S)' = Whole(S)
      /\ Within' <=> Within
  <2>1. Steps' = Steps
    BY DEF Steps
  <2>2. \A o, t : Doing(o, t)' <=> Doing(o, t)
    BY DEF Doing
  <2>3. \A a, n : Part(a, n)' = Part(a, n)
    BY DEF Part
  <2>4. \A S : Whole(S)' = Whole(S)
    BY <2>3 DEF Whole
  <2>5. \A a : Below(a)' = Below(a)
    BY DEF Below
  <2>6. \A c, a, n : Progress(c, a, n)' <=> Progress(c, a, n)
    BY <2>3, <2>4, <2>5 DEF Progress
  <2>7. Within' <=> Within
    BY DEF Within, Wraps, Record, Base
  <2> QED
    BY <2>1, <2>2, <2>4, <2>6, <2>7
<1>3. ASSUME Doing(op', s), chip' = chip, op'.pc # "status", s[1] = "erase" => op'.pc # "ok",
             s[1] \in {"write", "start"} => late' = late,
             s[1] = "write" /\ ~late /\ Within => Progress(chip.cells, s[2], Sent(op', s[2]))
      PROVE  ClientInv'
  <2>1. StepOK'
    BY <1>1, <1>2, <1>3 DEF StepOK
  <2>2. \A w : s[1] = w => s[1] \in {"file", "open", "signature", "erase", "blank", "start", "write"}
    BY <1>1, StepIs DEF Words
  <2>3. s[1] \in {"open", "signature", "erase", "blank", "start", "write"}
    BY DEF Do
  <2>4. ErasureOK'
    BY <1>1, <1>3, <2>3 DEF ErasureOK, Entry
  <2>5. ASSUME ~late', Within' PROVE CellsOK'
    <3>1. \A o, a : Sent(o, a)' = Sent(o, a)
      BY DEF Sent
    <3>2. (step[1] = "write" => Progress(chip.cells, step[2], Sent(op, step[2])))'
      BY <1>1, <1>2, <1>3, <2>5, <3>1
    <3>3. (step[1] = "start" => Graph(chip.cells) = Whole(DOMAIN hex.regions))'
      BY <1>1, <1>2, <1>3, <2>5 DEF Entry
    <3> QED
      BY <3>2, <3>3 DEF CellsOK
  <2> QED
    BY <2>1, <2>4, <2>5 DEF ClientInv
<1>4. /\ \/ s[1] = "open" /\ Open
         \/ s[1] = "signature" /\ Access("read", Signature, U16 - 1, <<0>>)
         \/ s[1] = "erase" /\ ChipErase
         \/ s[1] = "blank" /\ Access("blank", Flash, 0, [i \in 1..U16 |-> 0])
         \/ s[1] = "write" /\ Access("write", Flash, s[2] % U32, hex.regions[s[2]])
         \/ s[1] = "start" /\ StartApplication
      /\ U16 - 1 \in Nat /\ <<0>> \in Seq(Nat) /\ [i \in 1..U16 |-> 0] \in Seq(Nat)
      /\ s[1] = "write" => /\ s[2] \in DOMAIN hex.regions /\ s[2] % U32 \in Nat
                           /\ hex.regions[s[2]] \in Seq(Nat)
      /\ Flash \in Memories /\ Signature \in Memories
  BY <1>1, DoIsFlip
<1>5. CASE s[1] = "open" /\ Open
  <2>1. op' = Result("ok") /\ chip' = chip /\ op'.pc = "ok"
    BY <1>5 DEF Open, Result
  <2>2. Doing(op', s)
    BY <2>1 DEF Doing, Results
  <2> QED
    BY <1>3, <1>5, <2>1, <2>2
<1>6. CASE s[1] \in {"erase", "start"} /\ Command(s[1])
  <2>1. op'.kind = s[1] /\ op'.pc = s[1] /\ chip' = chip /\ late' = late
    BY <1>6 DEF Command
  <2>2. Doing(op', s)
    BY <1>6, <2>1 DEF Doing
  <2> QED
    BY <1>3, <1>6, <2>1, <2>2
<1>7. CASE s[1] = "signature" /\ Access("read", Signature, U16 - 1, <<0>>)
  <2>1. /\ op' \in Results \/ (op'.kind = "read" /\ op'.pc \in {"space", "page", "range"})
        /\ chip' = chip /\ late' = late
    BY <1>4, <1>7, AccessContinues DEF Kinds
  <2>2. Doing(op', s) /\ op'.pc # "status"
    BY <1>7, <2>1 DEF Doing, Results, Result
  <2> QED
    BY <1>3, <1>7, <2>1, <2>2
<1>8. CASE s[1] = "blank" /\ Access("blank", Flash, 0, [i \in 1..U16 |-> 0])
  <2>1. /\ op' \in Results \/ (op'.kind = "blank" /\ op'.pc \in {"space", "page", "range"})
        /\ chip' = chip /\ late' = late
    <3>1. PICK b \in Seq(Nat) : b = [i \in 1..U16 |-> 0]
      BY <1>4
    <3>2. Access("blank", Flash, 0, b)
      BY <1>8, <3>1
    <3> QED
      BY <1>4, <3>2, AccessContinues DEF Kinds
  <2>2. Doing(op', s) /\ op'.pc # "status"
    BY <1>8, <2>1 DEF Doing, Results, Result
  <2> QED
    BY <1>3, <1>8, <2>1, <2>2
<1>9. CASE s[1] = "write" /\ Access("write", Flash, s[2] % U32, hex.regions[s[2]])
  <2>1. PICK at \in Nat : at = s[2] % U32
    BY <1>4, <1>9
  <2>2. PICK b \in Seq(Nat) : b = hex.regions[s[2]]
    BY <1>4, <1>9
  <2>3. Access("write", Flash, at, b)
    BY <1>9, <2>1, <2>2
  <2>4. /\ \/ op' \in Results
           \/ /\ op'.kind = "write" /\ op'.mem = Flash /\ op'.at = at /\ op'.bytes = b
              /\ op'.size = Len(b) /\ op'.pc \in {"space", "page", "range"}
        /\ op'.pc = "ok" => Len(b) = 0
        /\ op'.pc = "range" => op'.from = 0
        /\ chip' = chip /\ late' = late
    BY <1>4, <2>3, AccessContinues DEF Kinds
  <2>5. Doing(op', s) /\ op'.pc # "status"
    BY <1>9, <2>1, <2>2, <2>4 DEF Doing, Results, Result
  <2>6. ASSUME ~late, Within PROVE Progress(chip.cells, s[2], Sent(op', s[2]))
    <3>1. Progress(chip.cells, s[2], 0)
      BY <1>9, <2>6 DEF Entry
    <3> QED
      BY <1>4, <1>9, <2>2, <2>4, <3>1, NothingSent
  <2> QED
    BY <1>3, <1>9, <2>4, <2>5, <2>6
<1> QED
  BY <1>4, <1>5, <1>6, <1>7, <1>8, <1>9 DEF ChipErase, StartApplication

(* The step that failed can be done again, and so can those before it.         *)
LEMMA RetryEnters ==
    ASSUME ProgInv, NEW s \in {<<"open">>, <<"erase">>, step}
    PROVE  Entry(s)
<1>1. StepOK /\ ErasureOK /\ (~late /\ Within => CellsOK)
  BY DEF ProgInv, ClientInv
<1>2. CASE s \in {<<"open">>, <<"erase">>}
  <2>1. s \in Steps /\ s[1] \in {"open", "erase"}
    BY <1>2 DEF Steps, Words
  <2> QED
    BY <2>1 DEF Entry
<1>3. CASE s = step
  <2>1. ASSUME step[1] = "write", ~late, Within PROVE Progress(chip.cells, step[2], 0)
    <3>1. /\ Progress(chip.cells, step[2], Sent(op, step[2])) /\ Sent(op, step[2]) \in Nat
      BY <2>1, ProgressNow
    <3>2. PICK n \in Nat : n = Sent(op, step[2])
      BY <3>1
    <3> QED
      BY <3>1, <3>2, LessProgress
  <2> QED
    BY <1>1, <1>3, <2>1 DEF Entry, StepOK, ErasureOK, CellsOK
<1> QED
  BY <1>2, <1>3

(* No byte is in the first region's place, or in a region of none.             *)
LEMMA NoPart ==
    ASSUME NEW a
    PROVE  Part(a, 0) = {} /\ Whole({}) = {}
<1>1. ASSUME NEW e PROVE e \notin Part(a, 0)
  BY InPart
<1>2. ASSUME NEW e PROVE e \notin Whole({})
  BY InWhole
<1> QED
  BY <1>1, <1>2

(* The first region is written, or the application started, when the chip is    *)
(* blank.                                                                    *)
LEMMA BlankFollows ==
    ASSUME HexInv, chip.state # "erasing", chip.cells = <<>>
    PROVE  Entry(Write(DOMAIN hex.regions))
<1> DEFINE D == DOMAIN hex.regions
           m == Min(D)
<1>1. Graph(chip.cells) = {}
  BY DEF Graph
<1>2. CASE D = {}
  <2>1. Write(D) = <<"start">> /\ <<"start">> \in Steps
    BY <1>2 DEF Write, Steps, Words
  <2>2. Whole(D) = {}
    BY <1>2, NoPart
  <2>3. Entry(<<"start">>)
    BY <1>1, <2>1, <2>2 DEF Entry
  <2> QED
    BY <2>1, <2>3
<1>3. CASE D # {}
  <2>1. D \in SUBSET Nat
    BY RegionIs
  <2> HIDE DEF D
  <2>2. m \in D /\ \A y \in D : m <= y
    BY <1>3, <2>1, MinIsLeast
  <2>3. Write(D) = <<"write", m>>
    BY <1>3 DEF Write
  <2> HIDE DEF m
  <2>4. Below(m) = {}
    BY <2>1, <2>2 DEF Below, D
  <2>5. Progress(chip.cells, m, 0)
    BY <1>1, <2>4, NoPart DEF Progress
  <2>6. <<"write", m>> \in Steps
    BY <2>2 DEF Steps, D
  <2>7. Entry(<<"write", m>>)
    BY <2>5, <2>6 DEF Entry
  <2> QED
    BY <2>3, <2>7 DEF D
<1> QED
  BY <1>2, <1>3

(* A region has been written, and with it all those up to it.                  *)
LEMMA RegionWritten ==
    ASSUME HexInv, NEW c, NEW a \in DOMAIN hex.regions,
           Progress(c, a, Len(hex.regions[a]))
    PROVE  Graph(c) = Whole(Below(a) \cup {a})
<1>1. ASSUME NEW e \in Whole(Below(a) \cup {a}) PROVE e \in Graph(c)
  <2>1. PICK x \in Below(a) \cup {a} : \E i \in 1..Len(hex.regions[x]) : e = Cell(x, i)
    BY <1>1, InWhole
  <2>2. CASE x \in Below(a)
    <3>1. e \in Whole(Below(a))
      BY <2>1, <2>2, InWhole
    <3> QED
      BY <3>1 DEF Progress
  <2>3. CASE x = a
    <3>1. e \in Part(a, Len(hex.regions[a]))
      BY <2>1, <2>3, InPart
    <3> QED
      BY <3>1 DEF Progress
  <2> QED
    BY <2>2, <2>3
<1>2. Graph(c) \subseteq Whole(Below(a) \cup {a})
  BY DEF Progress
<1> QED
  BY <1>1, <1>2

(* The next region is written, or the application started, when one has been.  *)
LEMMA WriteFollows ==
    ASSUME HexInv, chip.state # "erasing", NEW a \in DOMAIN hex.regions,
           ~late /\ Within => Progress(chip.cells, a, Len(hex.regions[a]))
    PROVE  Entry(Write(Beyond(hex.regions, a)))
<1> DEFINE S == Beyond(hex.regions, a)
           m == Min(S)
<1>1. DOMAIN hex.regions \in SUBSET Nat /\ Regions(hex.regions)
  BY RegionIs DEF HexInv, HexOK
<1>2. ~late /\ Within => Graph(chip.cells) = Whole(Below(a) \cup {a})
  BY RegionWritten
<1>3. CASE S = {}
  <2>1. Write(S) = <<"start">> /\ <<"start">> \in Steps
    BY <1>3 DEF Write, Steps, Words
  <2>2. DOMAIN hex.regions = Below(a) \cup {a}
    BY <1>1, <1>3 DEF Below, Beyond
  <2> QED
    BY <1>2, <2>1, <2>2 DEF Entry
<1>4. CASE S # {}
  <2>1. m \in DOMAIN hex.regions /\ m > a /\ \A x \in DOMAIN hex.regions : x > a => m <= x
    BY <1>1, <1>4, FirstBeyond
  <2>2. Write(S) = <<"write", m>>
    BY <1>4 DEF Write
  <2> HIDE DEF m
  <2> HIDE DEF S
  <2>3. Below(m) = Below(a) \cup {a}
    BY <1>1, <2>1 DEF Below
  <2>4. ASSUME ~late, Within PROVE Progress(chip.cells, m, 0)
    <3>1. Graph(chip.cells) = Whole(Below(m))
      BY <1>2, <2>3, <2>4
    <3>2. ASSUME NEW e \in Whole(Below(m)) PROVE e \in Whole(Below(m) \cup {m})
      BY <3>2, InWhole
    <3> QED
      BY <3>1, <3>2, NoPart DEF Progress
  <2>5. <<"write", m>> \in Steps
    BY <2>1 DEF Steps
  <2> QED
    BY <2>2, <2>4, <2>5, <2>1 DEF Entry, S
<1> QED
  BY <1>3, <1>4

(* Each step leaves what the next takes for granted.                          *)
LEMMA AdvanceEnters ==
    ASSUME ProgInv, op.pc = "ok", Do(Following(step))
    PROVE  Entry(Following(step))
<1>1. HexInv /\ StepOK /\ ErasureOK
  BY DEF ProgInv, ClientInv
<1>2. step \in Steps
  BY <1>1 DEF StepOK
<1>3. CASE step[1] \in {"file", "open", "signature"}
  <2>1. Following(step) \in {<<"open">>, <<"signature">>, <<"erase">>}
    BY <1>3 DEF Following
  <2>2. Following(step) \in Steps /\ Following(step)[1] \in {"open", "signature", "erase"}
    BY <2>1 DEF Steps, Words
  <2> QED
    BY <2>2 DEF Entry
<1>4. CASE step[1] = "erase"
  <2>1. Following(step) = <<"blank">> /\ <<"blank">> \in Steps
    BY <1>4 DEF Following, Steps, Words
  <2> QED
    BY <1>1, <1>4, <2>1 DEF Entry, ErasureOK
<1>5. CASE step[1] = "blank"
  <2>1. chip.state # "erasing" /\ chip.cells = <<>>
    BY <1>1, <1>5 DEF ErasureOK
  <2>2. Following(step) = Write(DOMAIN hex.regions)
    BY <1>5 DEF Following
  <2> QED
    BY <1>1, <2>1, <2>2, BlankFollows
<1>6. CASE step[1] = "write"
  <2>1. step[2] \in DOMAIN hex.regions
    BY <1>1, <1>6, WriteIs
  <2>2. ~late /\ Within => Progress(chip.cells, step[2], Len(hex.regions[step[2]]))
    BY <1>6, ProgressNow DEF Sent
  <2>3. chip.state # "erasing"
    BY <1>1, <1>6 DEF ErasureOK
  <2>4. Following(step) = Write(Beyond(hex.regions, step[2]))
    BY <1>6 DEF Following
  <2> QED
    BY <1>1, <2>1, <2>2, <2>3, <2>4, WriteFollows
<1>7. CASE step[1] = "start"
  <2>1. Following(step)[1] = "end"
    BY <1>7 DEF Following
  <2> QED
    BY <2>1 DEF Do
<1> QED
  BY <1>2, <1>3, <1>4, <1>5, <1>6, <1>7, StepIs DEF Words
-----------------------------------------------------------------------------
(* The client has not begun.                                                 *)
LEMMA ProgInitInv == Init => ProgInv
<1>1. SUFFICES ASSUME Init PROVE ProgInv
  OBVIOUS
<1>2. IhexInit /\ FlipInit /\ step = <<"file">>
  BY <1>1 DEF Init
<1>3. op = Result("ok") /\ chip.state = "idle"
  BY <1>2 DEF FlipInit
<1>4. op \in Results /\ op.pc = "ok"
  BY <1>3 DEF Results, Result
<1>5. step \in Steps /\ step[1] = "file"
  BY <1>2 DEF Steps, Words
<1>6. StepOK
  BY <1>2, <1>4, <1>5 DEF StepOK, Doing
<1>7. ErasureOK
  BY <1>3, <1>4, <1>5 DEF ErasureOK
<1>8. CellsOK
  BY <1>5 DEF CellsOK
<1> QED
  BY <1>2, <1>4, <1>6, <1>7, <1>8, HexInitInv, FlipInitInv DEF ProgInv, ClientInv, Fresh

(* The client waits for the file.                                            *)
LEMMA FileKeeps ==
    ASSUME ProgInv, ReadFile
    PROVE  ProgInv'
<1>1. HexInv /\ FlipInv /\ StepOK /\ ErasureOK
  BY DEF ProgInv, ClientInv
<1>2. HexInv'
  BY <1>1, LineKeeps, EndKeeps DEF ReadFile
<1>3. FlipInv'
  <2>1. UNCHANGED flip_vars
    BY DEF ReadFile
  <2> QED
    BY <1>1, <2>1, FlipStepInv
<1>4. hex.status = "reading"
  BY DEF ReadFile, ReadLine, EndOfFile
<1>5. step = <<"file">> /\ UNCHANGED <<step, op, chip, late>>
  BY <1>1, <1>4 DEF StepOK, ReadFile, flip_vars, client
<1>6. step[1] = "file" /\ step \in Words
  BY <1>5 DEF Words
<1>7. op \in Results
  BY <1>1, <1>6 DEF StepOK, Doing
<1>8. StepOK'
  BY <1>5, <1>6, <1>7 DEF StepOK, Doing, Steps
<1>9. ErasureOK'
  BY <1>1, <1>5 DEF ErasureOK
<1>10. CellsOK'
  BY <1>5, <1>6 DEF CellsOK
<1> QED
  BY <1>2, <1>3, <1>5, <1>8, <1>9, <1>10 DEF ProgInv, ClientInv, Fresh

(* A step that the client begins.                                            *)
LEMMA BeginKeeps ==
    ASSUME ProgInv, hex.status = "done", NEW s, Entry(s), Do(s), UNCHANGED ihex_vars
    PROVE  ProgInv'
<1>1. HexInv /\ FlipInv /\ hex' = hex /\ lines' = lines /\ s \in Steps
  BY DEF ProgInv, ihex_vars, Entry
<1>2. FlipNext
  BY <1>1, DoIsFlip
<1>3. step' # <<"file">>
  <2>1. step' = s /\ s[1] # "file"
    BY DEF Do
  <2> QED
    BY <2>1
<1> QED
  BY <1>1, <1>2, <1>3, DoKeeps, EndKeeps, FlipStepInv DEF ProgInv, Fresh

(* A step of the chip's, or of an operation.                                  *)
LEMMA ChipKeeps ==
    ASSUME ProgInv, ChipStep
    PROVE  ProgInv'
<1>1. FlipStep /\ UNCHANGED ihex_vars /\ hex' = hex /\ lines' = lines /\ step' = step
  BY DEF ChipStep, ihex_vars, client
<1>2. HexInv /\ FlipInv
  BY DEF ProgInv
<1>3. FlipNext
  BY <1>1 DEF FlipNext
<1>4. ClientInv'
  BY <1>1, CancelKeeps, TransferKeeps, FailureKeeps, RestKeeps DEF FlipStep
<1>5. Fresh'
  <2>1. ASSUME step = <<"file">>, op.pc = "ok" PROVE op' = op
    BY <1>1, <2>1 DEF FlipStep, Cancel, TransferDone, Verdict, EraseStatus, Erased, Leave,
                      TransferFails, Upload, Running
  <2> QED
    BY <1>1, <2>1 DEF ProgInv, Fresh
<1> QED
  BY <1>1, <1>2, <1>3, <1>4, <1>5, EndKeeps, FlipStepInv DEF ProgInv

(* Nothing happens.                                                          *)
LEMMA NothingKeeps ==
    ASSUME ProgInv, UNCHANGED vars
    PROVE  ProgInv'
<1>1. /\ UNCHANGED ihex_vars /\ UNCHANGED flip_vars
      /\ UNCHANGED <<hex, lines, step, op, chip, late>>
  BY DEF vars, client, ihex_vars, flip_vars
<1>2. HexInv' /\ FlipInv'
  BY <1>1, EndKeeps, FlipStepInv DEF ProgInv
<1>3. Steps' = Steps /\ (Within' <=> Within) /\ (Doing(op, step))' = Doing(op, step)
  BY <1>1 DEF Steps, Within, Wraps, Record, Base, Doing
<1>4. CellsOK' = CellsOK
  BY <1>1 DEF CellsOK, Progress, Sent, Whole, Part, Below, Graph
<1> QED
  BY <1>1, <1>2, <1>3, <1>4 DEF ProgInv, ClientInv, StepOK, ErasureOK, Fresh

(* Every step keeps the invariant.                                           *)
LEMMA ProgStepInv ==
    ASSUME ProgInv, [Next]_vars
    PROVE  ProgInv'
<1>1. CASE ReadFile
  BY <1>1, FileKeeps
<1>2. CASE Advance
  <2>1. /\ op.pc = "ok" /\ hex.status = "done" /\ Do(Following(step))
        /\ UNCHANGED ihex_vars
    BY <1>2 DEF Advance
  <2>2. Entry(Following(step))
    BY <2>1, AdvanceEnters
  <2> QED
    BY <2>1, <2>2, BeginKeeps
<1>3. CASE Retry
  <2>1. PICK s \in {<<"open">>, <<"erase">>, step} : Do(s)
    BY <1>3 DEF Retry
  <2>2. Entry(s) /\ UNCHANGED ihex_vars
    BY <1>3, RetryEnters DEF Retry
  <2>3. hex.status = "done"
    <3>1. StepOK /\ op.pc = "failed" /\ Fresh
      BY <1>3 DEF Retry, ProgInv, ClientInv
    <3> QED
      BY <3>1 DEF StepOK, Fresh
  <2> QED
    BY <2>1, <2>2, <2>3, BeginKeeps
<1>4. CASE ChipStep
  BY <1>4, ChipKeeps
<1>5. CASE UNCHANGED vars
  BY <1>5, NothingKeeps
<1> QED
  BY <1>1, <1>2, <1>3, <1>4, <1>5 DEF Next
-----------------------------------------------------------------------------
(* Always, while a chip is programmed as when a file is only read: the buffer   *)
(* holds what the lines of the file say, each byte at its address and nothing  *)
(* else, and a file is refused for overlapping records only when it has some   *)
(* (ihex_file.cpp:63-129, sparse_buffer.cpp:20-98).                            *)
THEOREM FileIsImage == Spec => []HexImage
<1>1. ProgInv => HexImage
  BY HexInvIsImage DEF ProgInv
<1> QED
  BY <1>1, ProgInitInv, ProgStepInv, PTL DEF Spec

(* Whatever the client asks for, does again or begins anew, the chip reads,    *)
(* writes and checks the addresses that were meant (flip2.cpp:162-251).        *)
THEOREM ProgrammingAsksRight == Spec => []AccessIsAsked
<1>1. ProgInv => AccessIsAsked
  BY DEF ProgInv, FlipInv
<1> QED
  BY <1>1, ProgInitInv, ProgStepInv, PTL DEF Spec

(* An application that has been started finds in the chip the bytes of its      *)
(* file and no others, after however many failures and for a file of any       *)
(* length, whose regions stay in their pages and whose data ends before the     *)
(* address space does (flip2.cpp:203-251, sparse_buffer.cpp:20-98,             *)
(* ihex_file.cpp:63-129).                                                      *)
THEOREM ChipHoldsFile == Spec => []FlashedIsFile
<1>1. ProgInv => FlashedIsFile
  <2>1. SUFFICES ASSUME ProgInv, step = <<"start">>, Within, ~late
                 PROVE  Graph(chip.cells)
                        = {<<<<Flash, cell[1] % U32>>, cell[2]>> : cell \in Image(hex.regions)}
    BY DEF FlashedIsFile, Graph
  <2>2. HexInv /\ CellsOK
    BY <2>1 DEF ProgInv, ClientInv
  <2>3. step[1] = "start"
    BY <2>1
  <2> QED
    BY <2>2, <2>3, WholeIsImage DEF CellsOK
<1> QED
  BY <1>1, ProgInitInv, ProgStepInv, PTL DEF Spec
=============================================================================
