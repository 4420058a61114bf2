---------------------------- MODULE CancelLevel ----------------------------
(***************************************************************************)
(* The four cancel levels of libyb/async/cancel_level.hpp and their order. *)
(* A request made at one level is also a request made at every level below *)
(* it; cl_none means "nothing was requested".                              *)
(***************************************************************************)
EXTENDS Integers

cl_none  == 0
cl_quit  == 1
cl_abort == 2
cl_kill  == 3

Level == cl_none .. cl_kill

(* (std::max)(a, b) on cancel levels. *)
MaxLevel(a, b) == IF a < b THEN b ELSE a
=============================================================================
