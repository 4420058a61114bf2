------------------------------- MODULE MCSvf -------------------------------
(* A small instance of SvfFile for TLC: bytes of four bits, digits of two.   *)
EXTENDS SvfFile

Word(v)   == [k |-> "word", word |-> v]
Number(v) == [k |-> "number", number |-> v]
Vector(v) == [k |-> "vector", digits |-> v]
Semi      == [k |-> "semi"]

Command(comments, tokens) == [tokens |-> tokens, comments |-> comments]

Words(ws) == [i \in DOMAIN ws |-> Word(ws[i])]

MCGood == {
    << Word("HDR"), Number(3), Word("TDI"), Vector(<<2, 3>>), Word("SMASK"), Vector(<<1, 1>>), Semi >>,
    << Word("TDR"), Number(2), Word("TDI"), Vector(<<1>>), Word("TDO"), Vector(<<2>>), Semi >>,
    << Word("SDR"), Number(5), Word("TDI"), Vector(<<1, 2, 1>>), Word("TDO"), Vector(<<1, 0, 2>>),
       Word("MASK"), Vector(<<3, 2, 3>>), Semi >>,
    << Word("SDR"), Number(5), Word("TDI"), Vector(<<3, 1>>), Semi >>,
    << Word("SDR"), Number(5), Word("TDO"), Vector(<<1, 0, 1>>), Semi >>,
    << Word("SIR"), Number(3), Word("TDI"), Vector(<<3, 3>>), Word("TDO"), Vector(<<1, 1>>), Semi >>,
    << Word("HIR"), Number(4), Word("TDI"), Vector(<<1, 0, 2>>), Semi >>,
    Append(Words(<<"ENDDR", "DRPAUSE">>), Semi),
    Append(Words(<<"ENDIR", "DRPAUSE">>), Semi),
    Append(Words(<<"STATE", "RESET">>), Semi),
    Append(Words(<<"STATE", "DRSELECT", "IRSELECT", "IRCAPTURE", "IREXIT", "IRPAUSE">>), Semi),
    Append(Words(<<"STATE", "IDLE", "DRSELECT", "DRCAPTURE", "DRSHIFT", "DRPAUSE">>), Semi),
    << Word("RUNTEST"), Word("DRPAUSE"), Number(5), Word("TCK"), Number(1), Word("SEC"),
       Word("MAXIMUM"), Number(2), Word("SEC"), Word("ENDSTATE"), Word("RESET"), Semi >>,
    << Word("RUNTEST"), Number(1), Word("SEC"), Word("FOREVER"), Semi >>,
    << Word("FREQUENCY"), Number(1), Word("HZ"), Semi >> }

MCBad == {
    Append(Words(<<"ENDDR", "DRSHIFT">>), Semi), << Word("TRST"), Word("MAYBE"), Semi >>,
    << Word("STATE"), Word("DREXIT"), Number(1), Word("DRPAUSE"), Semi >>,
    Words(<<"STATE", "RESET">>), << Word("RUNTEST"), Number(1), Word("TCK") >>,
    << Word("RUNTEST"), Word("DRSHIFT"), Number(1), Word("TCK"), Semi >>,
    << Word("SDR"), Number(3), Word("TDI") >>, << Word("FREQUENCY"), Number(1), Semi >>,
    << Word("PIO") >> }

(* The odd ones have a comment.                                              *)
MCCommands == {Command(Len(w) % 2, w) : w \in MCGood \cup MCBad}
=============================================================================
