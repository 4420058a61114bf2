------------------------------ MODULE IhexFile ------------------------------
(***************************************************************************)
(* parse_ihex: the lines of an Intel HEX file, one after the other, into a    *)
(* sparse_buffer.  The sum at the end of a record is not verified.           *)
(* A line has a form and, when that is "record", the fields of a record.     *)
(***************************************************************************)
EXTENDS SparseBuffer

CONSTANTS
    Lines,   \* the lines of files
    MaxLines \* bound on the lines of a file

ASSUME MaxLinesAssumption == MaxLines \in Nat

(* The fields of a record have their widths; the bytes of data need only be     *)
(* told apart.                                                               *)
ASSUME LinesAssumption ==
    \A l \in Lines : l.form = "record" =>
        /\ l.length \in 0..Byte - 1 /\ l.address \in 0..U16 - 1 /\ l.data \in Seq(Nat)
        /\ l.type \in {2, 4} => \A i \in DOMAIN l.data : l.data[i] < Byte

VARIABLES
    hex,  \* base, the regions, and how far the call is
    lines \* the lines read (history)

ihex_vars == <<hex, lines>>

IhexInit ==
    /\ hex = [base |-> 0, regions |-> Empty, status |-> "reading"]
    /\ lines = <<>>

ParseError(kind) == hex' = [hex EXCEPT !.status = kind]

(* An int is shifted into its sign, and becomes a size_t.                    *)
Upper(l) == l.data[1] * Byte + l.data[2]
Extend(int) == IF int < U32 \div 2 THEN int ELSE int + U64 - U32

DataRecord(l) ==
    LET a == (hex.base + l.address) % U64
    IN  IF Intersects(hex.regions, a, Len(l.data)) THEN ParseError("overlapping_regions")
        ELSE hex' = [hex EXCEPT !.regions = WriteRegion(@, a, l.data)]

BaseRecord(l) ==
    IF Len(l.data) # 2 THEN ParseError("mismatched_record_length")
    ELSE hex' = [hex EXCEPT !.base = IF l.type = 4 THEN Extend(Upper(l) * U16)
                                                   ELSE Upper(l) * Nibble]

ReadRecord(l) ==
    \/ l.length # Len(l.data) /\ ParseError("mismatched_record_length")
    \/ /\ l.length = Len(l.data)
       /\ \/ l.type \in {2, 4} /\ BaseRecord(l)
          \/ l.type = 3 /\ UNCHANGED hex
          \/ l.type = 1 /\ hex' = [hex EXCEPT !.status = "done"]
          \/ l.type = 0 /\ DataRecord(l)
          \/ l.type \notin 0..4 /\ ParseError("unknown_record_type")

(* A record that is too short is read beyond its end before its length is      *)
(* compared; when nothing has been allocated for one yet, that is no address.*)
ReadLine(l) ==
    /\ hex.status = "reading" /\ Len(lines) < MaxLines
    /\ lines' = Append(lines, l)
    /\ \/ l.form = "blank" /\ UNCHANGED hex
       \/ l.form = "no colon" /\ ParseError("missing_leading_colon")
       \/ l.form = "bad digit" /\ ParseError("unexpected_character")
       \/ l.form = "short" /\ \E kind \in {"mismatched_record_length", "crash"} : ParseError(kind)
       \/ l.form = "record" /\ ReadRecord(l)

EndOfFile ==
    /\ hex.status = "reading"
    /\ hex' = [hex EXCEPT !.status = "done"]
    /\ UNCHANGED lines
-----------------------------------------------------------------------------
Record(i, types) ==
    lines[i].form = "record" /\ lines[i].type \in types /\ lines[i].length = Len(lines[i].data)

(* What the format says of the lines so far.                                 *)
Base(i) ==
    LET bases == {j \in 1..i : Record(j, {2, 4})}
        l     == lines[Max(bases)]
    IN  IF bases = {} THEN 0 ELSE Upper(l) * (IF l.type = 4 THEN U16 ELSE Nibble)

Cells(i) == {<<Base(i) + lines[i].address + k - 1, lines[i].data[k]>> : k \in DOMAIN lines[i].data}
At(cells) == {cell[1] : cell \in cells}
Place(i) == At(Cells(i)) \cup {Base(i) + lines[i].address}

Data   == {i \in DOMAIN lines : Record(i, {0})}
Taken  == IF hex.status \in {"reading", "done"} THEN Data ELSE Data \ {Len(lines)}
Signed == \E i \in DOMAIN lines : Record(i, {4}) /\ Len(lines[i].data) = 2 /\ Upper(lines[i]) * U16 >= U32 \div 2

(* The data of a record ends at the end of the addresses that a file can have. *)
(* With its sign extended that is the end of a size_t.                       *)
Wraps ==
    \E i \in DOMAIN lines :
        Record(i, {0}) /\ Base(i) + lines[i].address + Len(lines[i].data) >= U32

(* The buffer holds the bytes of the records, each at the address the file     *)
(* gives it, and nothing else, in whatever order and however far apart they    *)
(* came; and a file is refused for records that overlap when two do, and only  *)
(* then, but for records without data, which take up their address.  Not so    *)
(* when an address is beyond the positive half of an int                      *)
(* (ihex_file.cpp:63-129, sparse_buffer.cpp:20-98).                          *)
HexImage ==
    ~Signed =>
        /\ Image(hex.regions) = UNION {Cells(i) : i \in Taken}
        /\ \A i, j \in Taken : i # j => At(Cells(i)) \cap At(Cells(j)) = {}
        /\ LET all == ReadRegion(hex.regions, 0, TopAddress(hex.regions), -1)
           IN  Image(hex.regions) = {<<i - 1, all[i]>> : i \in {k \in DOMAIN all : all[k] # -1}}
        /\ hex.status = "overlapping_regions" =>
              \E i \in Taken : Place(i) \cap Place(Len(lines)) # {}
=============================================================================
