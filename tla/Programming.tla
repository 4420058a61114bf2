---------------------------- MODULE Programming ----------------------------
(***************************************************************************)
(* A chip is programmed as in test/shupito_flash.cpp: the file is parsed, the *)
(* chip's signature is read, its memory is erased and checked to be blank,     *)
(* the regions of the file are written one by one and the application is      *)
(* started.  When a step fails the client does it again, begins anew, or opens *)
(* the chip once more and begins anew.                                       *)
(***************************************************************************)
EXTENDS IhexFile, Flip2

CONSTANTS
    Flash,      \* the memory that is programmed
    Signature,  \* the one that is read before
    MaxRetries  \* bound on the failures

ASSUME PageAssumption == PageSize = U16 /\ {Flash, Signature} \subseteq Memories
ASSUME RetriesAssumption == MaxRetries \in Nat

VARIABLES
    step,    \* what the client does
    retries

client == <<step, retries>>
vars   == <<ihex_vars, flip_vars, client>>

(* A step is a word and, when it writes, the address of the region; the        *)
(* regions are written in the order of the map.                              *)
Write(regions) == IF regions = {} THEN <<"start">> ELSE <<"write", Min(regions)>>

Following(s) ==
    CASE s[1] = "file" -> <<"open">>
      [] s[1] = "open" -> <<"signature">>
      [] s[1] = "signature" -> <<"erase">>
      [] s[1] = "erase" -> <<"blank">>
      [] s[1] = "blank" -> Write(DOMAIN hex.regions)
      [] s[1] = "write" -> Write(Beyond(hex.regions, s[2]))
      [] s[1] = "start" -> <<"end">>

Init ==
    /\ IhexInit /\ FlipInit
    /\ step = <<"file">> /\ retries = 0

ReadFile ==
    /\ \/ \E l \in Lines : ReadLine(l)
       \/ EndOfFile
    /\ UNCHANGED <<flip_vars, client>>

(* An address becomes an offset of half its width.                           *)
Do(s) ==
    /\ step' = s
    /\ \/ s[1] = "open" /\ Open
       \/ s[1] = "signature" /\ Access("read", Signature, U16 - 1, <<0>>)
       \/ s[1] = "erase" /\ ChipErase
       \/ s[1] = "blank" /\ Access("blank", Flash, 0, [i \in 1..U16 |-> 0])
       \/ s[1] = "write" /\ Access("write", Flash, s[2] % U32, hex.regions[s[2]])
       \/ s[1] = "start" /\ StartApplication

Advance ==
    /\ hex.status = "done" /\ op.pc = "ok"
    /\ Do(Following(step))
    /\ UNCHANGED <<ihex_vars, retries>>

Retry ==
    /\ op.pc = "failed" /\ retries < MaxRetries
    /\ retries' = retries + 1
    /\ \E s \in {<<"open">>, <<"erase">>, step} : Do(s)
    /\ UNCHANGED ihex_vars

ChipStep ==
    /\ FlipStep
    /\ UNCHANGED <<ihex_vars, client>>

Next == ReadFile \/ Advance \/ Retry \/ ChipStep

Spec == Init /\ [][Next]_vars
-----------------------------------------------------------------------------
(* Each region is in a page, and ends before the addresses do.               *)
Within ==
    /\ ~Wraps
    /\ \A a \in DOMAIN hex.regions : hex.regions[a] # <<>> =>
           a \div U16 = (a + Len(hex.regions[a]) - 1) \div U16

(* When all the steps have succeeded, whichever were done twice, the chip      *)
(* holds the file: its bytes and no others, each at the address it has in the  *)
(* buffer, or at the one its lower half is.  Not so for files with a region    *)
(* that goes over the end of a page, for files with data up to the end of the  *)
(* address space, where two records over the same bytes are both accepted,     *)
(* and after a selection that took place though it was reported to have failed *)
(* (flip2.cpp:203-251, ihex_file.cpp:63-129, sparse_buffer.cpp:20-98).       *)
FlashedIsFile ==
    step = <<"start">> /\ op.pc = "ok" /\ Within /\ ~late =>
        {<<x, chip.cells[x]>> : x \in DOMAIN chip.cells} =
        {<<<<Flash, cell[1] % U32>>, cell[2]>> : cell \in Image(hex.regions)}
=============================================================================
