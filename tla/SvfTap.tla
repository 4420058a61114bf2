------------------------------- MODULE SvfTap -------------------------------
(***************************************************************************)
(* The states of a TAP controller and the ways between them, as the lowering  *)
(* of an SVF file has them, and the controller itself, as the standard has it.*)
(* A way is the sequence of the bits on TMS.                                 *)
(***************************************************************************)
EXTENDS Integers, Sequences, SequencesExt

Stable == {"reset", "idle", "drpause", "irpause"}

(* default_paths.                                                            *)
DefaultPath ==
    [reset   |-> [reset   |-> <<1>>,             idle    |-> <<0>>,
                  drpause |-> <<0, 1, 0, 1, 0>>, irpause |-> <<0, 1, 1, 0, 1, 0>>],
     idle    |-> [reset   |-> <<1, 1, 1>>,       idle    |-> <<0>>,
                  drpause |-> <<1, 0, 1, 0>>,    irpause |-> <<1, 1, 0, 1, 0>>],
     drpause |-> [reset   |-> <<1, 1, 1, 1, 1>>, idle    |-> <<1, 1, 0>>,
                  drpause |-> <<1, 1, 1, 0, 1, 0>>, irpause |-> <<1, 1, 1, 1, 0, 1, 0>>],
     irpause |-> [reset   |-> <<1, 1, 1, 1, 1>>, idle    |-> <<1, 1, 0>>,
                  drpause |-> <<1, 1, 1, 0, 1, 0>>, irpause |-> <<1, 1, 1, 1, 0, 1, 0>>]]

(* edges: the states that follow with TMS low and high.                      *)
Edges ==
    [reset     |-> <<"idle", "reset">>,        idle      |-> <<"idle", "drselect">>,
     drpause   |-> <<"drpause", "drexit2">>,   irpause   |-> <<"irpause", "irexit2">>,
     drselect  |-> <<"drcapture", "irselect">>, drcapture |-> <<"drshift", "drexit1">>,
     drshift   |-> <<"drshift", "drexit1">>,   drexit1   |-> <<"drpause", "drupdate">>,
     drexit2   |-> <<"drshift", "drupdate">>,  drupdate  |-> <<"idle", "drselect">>,
     irselect  |-> <<"ircapture", "reset">>,   ircapture |-> <<"irshift", "irexit1">>,
     irshift   |-> <<"irshift", "irexit1">>,   irexit1   |-> <<"irpause", "irupdate">>,
     irexit2   |-> <<"irshift", "irupdate">>,  irupdate  |-> <<"idle", "drselect">>]

(* Whether a list of states is a way, and the way.                           *)
IsPath(initial, states) ==
    \A i \in DOMAIN states :
        states[i] \in ToSet(Edges[IF i = 1 THEN initial ELSE states[i - 1]])

ExplicitPath(initial, states) ==
    [i \in DOMAIN states |->
        IF states[i] = Edges[IF i = 1 THEN initial ELSE states[i - 1]][2] THEN 1 ELSE 0]
-----------------------------------------------------------------------------
(* The controller: a state is a column, of the data or of the instruction      *)
(* register or of neither, and a place in it.                                *)
Controllers == {<<"", "reset">>, <<"", "idle">>} \cup
    ({"dr", "ir"} \X {"select", "capture", "shift", "exit1", "pause", "exit2", "update"})

(* Within a column, with TMS low and high.                                   *)
Column ==
    [capture |-> <<"shift", "exit1">>, shift |-> <<"shift", "exit1">>,
     exit1   |-> <<"pause", "update">>, pause |-> <<"pause", "exit2">>,
     exit2   |-> <<"shift", "update">>]

NextState(t, tms) ==
    IF t[2] \in DOMAIN Column THEN <<t[1], Column[t[2]][tms + 1]>>
    ELSE IF t[2] = "select"
    THEN IF tms = 0 THEN <<t[1], "capture">>
         ELSE IF t[1] = "dr" THEN <<"ir", "select">> ELSE <<"", "reset">>
    ELSE IF tms = 0 THEN <<"", "idle">>
         ELSE IF t[2] = "reset" THEN t ELSE <<"dr", "select">>

(* The names that the lowering has for them.                                 *)
Place ==
    [reset     |-> <<"", "reset">>,     idle      |-> <<"", "idle">>,
     drpause   |-> <<"dr", "pause">>,   irpause   |-> <<"ir", "pause">>,
     drselect  |-> <<"dr", "select">>,  irselect  |-> <<"ir", "select">>,
     drcapture |-> <<"dr", "capture">>, ircapture |-> <<"ir", "capture">>,
     drshift   |-> <<"dr", "shift">>,   irshift   |-> <<"ir", "shift">>,
     drexit1   |-> <<"dr", "exit1">>,   irexit1   |-> <<"ir", "exit1">>,
     drexit2   |-> <<"dr", "exit2">>,   irexit2   |-> <<"ir", "exit2">>,
     drupdate  |-> <<"dr", "update">>,  irupdate  |-> <<"ir", "update">>]

(* Where it is after a way, and where it may be if it was in one of ts.      *)
Visited(t, path) ==
    LET after[i \in 0..Len(path)] == IF i = 0 THEN t ELSE NextState(after[i - 1], path[i])
    IN  after

Follow(ts, path) == {Visited(t, path)[Len(path)] : t \in ts}
=============================================================================
