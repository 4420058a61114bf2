------------------------------ MODULE SvfFile ------------------------------
(***************************************************************************)
(* svf_parse and svf_lower: an SVF file is parsed into statements, and these   *)
(* are lowered, one by one, to ways of the TAP controller and shifts with the  *)
(* header and the trailer joined to them.                                    *)
(*                                                                         *)
(* A command is the sequence of its tokens, words (of letters only, in upper   *)
(* case where the parser compares them so), numbers, vectors and semicolons,   *)
(* and the number of the comments in it.  One that lacks its semicolon ends     *)
(* with the file.                                                            *)
(***************************************************************************)
EXTENDS SvfTap, SvfVector, FiniteSetsExt

CONSTANTS
    Commands,   \* the commands of files
    MaxCommands \* bound on the commands of a file

Tokens ==
    [k : {"word"}, word : STRING] \cup [k : {"number"}, number : Nat] \cup
    [k : {"vector"}, digits : Seq(Nat)] \cup [k : {"semi"}]

ASSUME CommandsAssumption == Commands \subseteq [tokens : Seq(Tokens), comments : Nat]
ASSUME MaxCommandsAssumption == MaxCommands \in Nat

VARIABLES
    doc,    \* the statements
    status, \* how far the calls are
    at,     \* how many statements are lowered
    low,    \* the locals of svf_lower_impl
    out,    \* the statements that come out
    chip,   \* the states the controller may be in (history)
    count   \* how many commands there were

vars == <<doc, status, at, low, out, chip, count>>

Shifts    == {"sdr", "sir"}
Registers == Shifts \cup {"hdr", "hir", "tdr", "tir"}

Init ==
    /\ doc = <<>> /\ status = "parsing" /\ at = 0 /\ out = <<>> /\ count = 0
    /\ low = [tap |-> "unknown", enddr |-> "idle", endir |-> "idle",
              run |-> "idle", end |-> "idle", xxr |-> [r \in Registers |-> NoXxr]]
    /\ chip = Controllers
-----------------------------------------------------------------------------
(* The parser.  A name with a digit in it is not one word: only the names      *)
(* without one can be met, though the table has them all.                    *)
StateNames ==
    [RESET |-> "reset", IDLE |-> "idle", DRSELECT |-> "drselect", DRCAPTURE |-> "drcapture",
     DRSHIFT |-> "drshift", DRPAUSE |-> "drpause", DRUPDATE |-> "drupdate",
     IRSELECT |-> "irselect", IRCAPTURE |-> "ircapture", IRSHIFT |-> "irshift",
     IREXIT |-> "irexit1", IRPAUSE |-> "irpause", IRUPDATE |-> "irupdate"]

TapState(w) == IF w.word \in DOMAIN StateNames THEN StateNames[w.word] ELSE "unknown"

Is(w, i, k) == i \in DOMAIN w /\ w[i].k = k
IsWord(w, i, names) == Is(w, i, "word") /\ w[i].word \in names

(* parse_uint32 and parse_real.  What a number is decides nothing but the      *)
(* length of a vector; one that is malformed is no number.                   *)
Uint(w, i) == Is(w, i, "number")
Real(w, i) == Is(w, i, "number")

Ends(w, n) == Len(w) = n /\ Is(w, n, "semi")

Refused == [k |-> "refused"]
Hung    == [k |-> "hung"]
When(condition, stmt) == IF condition THEN stmt ELSE Refused

ParseEndxr(w) ==
    When(Ends(w, 3) /\ Is(w, 2, "word") /\ TapState(w[2]) \in Stable,
         [k |-> w[1].word, state |-> TapState(w[2])])

ParseFrequency(w) ==
    When(Ends(w, 2) \/ (Ends(w, 4) /\ Real(w, 2) /\ IsWord(w, 3, {"HZ"})), [k |-> "other"])

ParseTrst(w) ==
    When(Ends(w, 3) /\ IsWord(w, 2, {"ON", "OFF", "Z", "ABSENT"}), [k |-> "other"])

(* At the end of the file there is always one more state that is unknown.    *)
ParseState(w) ==
    LET path == [i \in 1..Len(w) - 2 |-> TapState(w[i + 1])]
    IN  IF \A i \in DOMAIN w : w[i].k = "word" THEN Hung
        ELSE When(/\ Ends(w, Len(w)) /\ \A i \in 1..Len(w) - 1 : w[i].k = "word"
                  /\ path # <<>> /\ Last(path) \in Stable,
                  [k |-> "state", path |-> path])

ParseXxr(w, reg) ==
    LET names == {2 * i + 1 : i \in 1..(Len(w) - 3) \div 2}
        given(n) == {i \in names : w[i].word = n}
        value(n) == IF given(n) = {} THEN <<>>
                    ELSE ParseVector(w[Max(given(n)) + 1].digits, w[2].number)
    IN  When(/\ Uint(w, 2) /\ Ends(w, Len(w)) /\ Len(w) % 2 = 1
             /\ \A i \in names : IsWord(w, i, {"TDI", "TDO", "MASK", "SMASK"}) /\ Is(w, i + 1, "vector"),
             [k |-> "xxr", reg |-> reg, length |-> w[2].number, tdi |-> value("TDI"),
              tdo |-> value("TDO"), mask |-> value("MASK"), smask |-> value("SMASK")])

(* The tokens of the option that begins at i, none if there is none.  A word   *)
(* that names no option is passed over.                                      *)
OptionLength(w, i) ==
    CASE IsWord(w, i, {"MAXIMUM"}) -> IF Real(w, i + 1) /\ IsWord(w, i + 2, {"SEC"}) THEN 3 ELSE 0
      [] IsWord(w, i, {"ENDSTATE"}) ->
            IF Is(w, i + 1, "word") /\ TapState(w[i + 1]) \in Stable THEN 2 ELSE 0
      [] Is(w, i, "word") /\ w[i].word \notin {"MAXIMUM", "ENDSTATE"} -> 1
      [] OTHER -> 0

(* The options follow one another up to the semicolon.  At the end of the file *)
(* there is always one more word that is passed over.                        *)
ParseOptions(w, first, run) ==
    LET begins[i \in first..Len(w) + 1] ==
            i = first \/ \E j \in first..i - 1 : begins[j] /\ i - j = OptionLength(w, j)
        stop == Max({i \in first..Len(w) + 1 : begins[i]})
        ends == {i \in first..stop - 1 : begins[i] /\ OptionLength(w, i) = 2}
        end  == IF ends = {} THEN "unknown" ELSE TapState(w[Max(ends) + 1])
    IN  IF stop > Len(w) THEN Hung
        ELSE When(Is(w, stop, "semi"), [k |-> "runtest", run |-> run, end |-> end])

(* The least time comes before the options, if there is a count of clocks.   *)
ParseRuntest(w) ==
    LET named == Is(w, 2, "word")
        run   == IF named THEN TapState(w[2]) ELSE "unknown"
        i     == IF named THEN 3 ELSE 2
        timed == IsWord(w, i + 1, {"TCK", "SCK"}) /\ Real(w, i + 2)
    IN  IF /\ run \in Stable \cup {"unknown"} /\ Real(w, i) /\ IsWord(w, i + 1, {"TCK", "SCK", "SEC"})
           /\ timed => IsWord(w, i + 3, {"SEC"})
        THEN ParseOptions(w, IF timed THEN i + 4 ELSE i + 2, run)
        ELSE Refused

XxrNames == [HDR |-> "hdr", HIR |-> "hir", SDR |-> "sdr", SIR |-> "sir", TDR |-> "tdr", TIR |-> "tir"]

ParseCommand(w) ==
    CASE IsWord(w, 1, {"ENDDR", "ENDIR"}) -> ParseEndxr(w)
      [] IsWord(w, 1, {"FREQUENCY"}) -> ParseFrequency(w)
      [] IsWord(w, 1, DOMAIN XxrNames) -> ParseXxr(w, XxrNames[w[1].word])
      [] IsWord(w, 1, {"RUNTEST"}) -> ParseRuntest(w)
      [] IsWord(w, 1, {"STATE"}) -> ParseState(w)
      [] IsWord(w, 1, {"TRST"}) -> ParseTrst(w)
      [] OTHER -> Refused

(* The comments in a command come before it.                                 *)
Parse(c) ==
    LET stmt == ParseCommand(c.tokens)
    IN  /\ status = "parsing" /\ count < MaxCommands
        /\ count' = count + 1
        /\ IF stmt.k \in {"refused", "hung"} THEN status' = stmt.k /\ UNCHANGED doc
           ELSE /\ doc' = Append(doc \o [i \in 1..c.comments |-> [k |-> "other"]], stmt)
                /\ UNCHANGED status
        /\ UNCHANGED <<at, low, out, chip>>

EndOfFile ==
    /\ status = "parsing"
    /\ status' = "lowering"
    /\ UNCHANGED <<doc, at, low, out, chip, count>>
-----------------------------------------------------------------------------
(* The lowering.  s is the locals, what comes out and the controller.        *)
Mutable == [low |-> low, out |-> out, chip |-> chip]

Emit(s, stmt) == [s EXCEPT !.out = Append(@, [stmt |-> stmt, at |-> s.chip])]

EmitPath(s, path, final) ==
    LET t == Emit(s, [k |-> "path", path |-> path, final |-> final])
    IN  [t EXCEPT !.low.tap = final, !.chip = Follow(s.chip, path)]

(* The way depends on the state it begins in.  Before the first one the       *)
(* controller is reset.                                                      *)
MakeTmsPathAtOnce(s, way, final) ==
    EmitPath(s, way[IF s.low.tap = "unknown" THEN "reset" ELSE s.low.tap], final)

MakeTmsPath(s, way, final) ==
    IF s.low.tap = "unknown" THEN EmitPath(s, <<1, 1, 1, 1, 1>> \o way["reset"], final)
    ELSE EmitPath(s, way[s.low.tap], final)

DefaultWay(target)  == [initial \in Stable |-> DefaultPath[initial][target]]
ExplicitWay(states) == [initial \in DOMAIN Edges |-> ExplicitPath(initial, states)]

GoTo(s, target) ==
    IF s.low.tap = target THEN s
    ELSE MakeTmsPath(s, DefaultWay(target), target)

Take(k) ==
    /\ status = "lowering" /\ at < Len(doc) /\ doc[at + 1].k = k
    /\ UNCHANGED <<doc, count>>

Becomes(s) ==
    /\ low' = s.low /\ out' = s.out /\ chip' = s.chip
    /\ at' = at + 1 /\ UNCHANGED status

Throws == status' = "refused" /\ UNCHANGED <<at, low, out, chip>>

current == doc[at + 1]

LowerOther == Take("other") /\ Becomes(Emit(Mutable, current))

LowerEnd ==
    \/ Take("ENDDR") /\ Becomes([Mutable EXCEPT !.low.enddr = current.state])
    \/ Take("ENDIR") /\ Becomes([Mutable EXCEPT !.low.endir = current.state])

Merged == [Mutable EXCEPT !.low.xxr[current.reg] = MergeXxr(@, current)]

ShiftThrough(s, head, body, tail, pause, end) ==
    LET xxr   == s.low.xxr
        shift == [k |-> "shift", reg |-> body, bits |-> PrepareShift(xxr[head], xxr[body], xxr[tail])]
    IN  GoTo(Emit(GoTo(s, pause), shift), end)

LowerXxr ==
    /\ Take("xxr")
    /\ \/ ~CanMerge(low.xxr[current.reg], current) /\ Throws
       \/ /\ CanMerge(low.xxr[current.reg], current)
          /\ \/ current.reg \notin Shifts /\ Becomes(Merged)
             \/ current.reg = "sdr" /\ Becomes(ShiftThrough(Merged, "hdr", "sdr", "tdr", "drpause", low.enddr))
             \/ current.reg = "sir" /\ Becomes(ShiftThrough(Merged, "hir", "sir", "tir", "irpause", low.endir))

(* A list of one state is a target, a longer one a way.                      *)
LowerState ==
    LET from == IF low.tap = "unknown" THEN "reset" ELSE low.tap
    IN  /\ Take("state")
        /\ IF Len(current.path) = 1
           THEN Becomes(MakeTmsPath(Mutable, DefaultWay(current.path[1]), current.path[1]))
           ELSE IF IsPath(from, current.path)
           THEN Becomes(MakeTmsPath(Mutable, ExplicitWay(current.path), Last(current.path)))
           ELSE Throws

Known(state, default) == IF state = "unknown" THEN default ELSE state

(* Mutant: the state is not kept for the next RUNTEST.                       *)
LowerRuntestForgets ==
    LET end == Known(current.end, low.end)
        s   == [Mutable EXCEPT !.low.end = end]
    IN  /\ Take("runtest")
        /\ Becomes(GoTo(Emit(GoTo(s, Known(current.run, low.run)), current), end))

LowerRuntest ==
    LET run == Known(current.run, low.run)
        end == Known(current.end, low.end)
        s   == [Mutable EXCEPT !.low.run = run, !.low.end = end]
    IN  Take("runtest") /\ Becomes(GoTo(Emit(GoTo(s, run), current), end))

Next ==
    \/ \E c \in Commands : Parse(c)
    \/ EndOfFile
    \/ LowerOther \/ LowerEnd \/ LowerXxr \/ LowerState \/ LowerRuntest

Spec == Init /\ [][Next]_vars
-----------------------------------------------------------------------------
(* The controller, from whichever state it was in, is where the lowering       *)
(* takes it to be, after each way and between the statements; a shift meets it  *)
(* in the pause of its register, and each RUNTEST in the state that it or the  *)
(* last one before it that names a state asks for                            *)
(* (svf_file.cpp:581-688, 737-790).                                          *)
RunState(i) ==
    LET runs == {j \in 1..i : doc[j].k = "runtest" /\ doc[j].run # "unknown"}
    IN  IF runs = {} THEN "idle" ELSE doc[Max(runs)].run

TapAgrees ==
    /\ low.tap = "unknown" \/ chip = {Place[low.tap]}
    /\ \A i \in DOMAIN out :
          LET stmt == out[i].stmt
          IN  /\ stmt.k = "path" => Follow(out[i].at, stmt.path) = {Place[stmt.final]}
              /\ stmt.k = "shift" =>
                    out[i].at = {Place[IF stmt.reg = "sdr" THEN "drpause" ELSE "irpause"]}
    /\ at > 0 /\ doc[at].k = "runtest" =>
          \E i \in DOMAIN out :
              /\ out[i].stmt.k = "runtest" /\ out[i].at = {Place[RunState(at)]}
              /\ \A j \in i + 1..Len(out) : out[j].stmt.k # "runtest"

(* The statements of a register, among those that are lowered, since its       *)
(* length is what it is, and the last of them that has a value.              *)
Series(reg) ==
    LET all == {i \in 1..at : doc[i].k = "xxr" /\ doc[i].reg = reg}
    IN  {i \in all : \A j \in all : j >= i => doc[j].length = doc[Max(all)].length}

Having(reg, f) == {i \in Series(reg) : doc[i][f] # <<>>}

Length(reg) == IF Series(reg) = {} THEN 0 ELSE doc[Max(Series(reg))].length

Meant(reg, f) ==
    IF Having(reg, f) = {} THEN Fill(Length(reg), TRUE)
    ELSE SubSeq(doc[Max(Having(reg, f))][f], 1, Length(reg))

(* What is compared: a bit, or nothing.                                      *)
Compared(length, tdo, mask) ==
    [i \in 1..length |-> IF Bit(mask, i) THEN <<tdo[i]>> ELSE <<>>]

MeantToCompare(reg) ==
    IF Having(reg, "tdo") = {} THEN Fill(Length(reg), <<>>)
    ELSE Compared(Length(reg), Meant(reg, "tdo"), Meant(reg, "mask"))

(* A vector with bits beyond its length, in a statement that does not change   *)
(* the length.                                                               *)
Overlong(reg) ==
    \E i \in Series(reg), f \in {"tdi", "tdo", "mask", "smask"} :
        /\ \E j \in Series(reg) : j < i
        /\ \E b \in doc[i].length + 1..Len(doc[i][f]) : doc[i][f][b]

(* Some of the statements compare and others do not.                         *)
Mixed(reg) ==
    /\ Having(reg, "tdo") # Series(reg)
    /\ Having(reg, "tdo") \cup Having(reg, "mask") # {}

Joined(three, part) == part[three[1]] \o part[three[2]] \o part[three[3]]

(* What is shifted and compared is the header, the body and the trailer, one   *)
(* right after the other wherever the bytes end, each with the last values     *)
(* that were given since its length changed.  Not so after a statement of the  *)
(* same length with bits beyond it, nor for what is compared when only some of *)
(* the statements have a TDO: a mask outlives the TDO it came with           *)
(* (svf_file.cpp:485-579).                                                   *)
ShiftsAreMeant ==
    at > 0 /\ doc[at].k = "xxr" /\ doc[at].reg \in Shifts =>
        LET three == IF doc[at].reg = "sdr" THEN <<"hdr", "sdr", "tdr">> ELSE <<"hir", "sir", "tir">>
            bits  == out[Max({i \in DOMAIN out : out[i].stmt.k = "shift"})].stmt.bits
            used(v) == SubSeq(v, 1, bits.length)
            meant(f) == Joined(three, [r \in Registers |-> Meant(r, f)])
        IN  (\A i \in 1..3 : ~Overlong(three[i])) =>
                /\ bits.length = Length(three[1]) + Length(three[2]) + Length(three[3])
                /\ used(bits.tdi) = meant("tdi") /\ used(bits.smask) = meant("smask")
                /\ (\A i \in 1..3 : ~Mixed(three[i])) =>
                      Compared(bits.length, bits.tdo, bits.mask) =
                          Joined(three, [r \in Registers |-> MeantToCompare(r)])
=============================================================================
