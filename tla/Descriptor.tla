----------------------------- MODULE Descriptor -----------------------------
(***************************************************************************)
(* device_descriptor::parse: a version, the device's GUID and a group.  A     *)
(* group is a configuration, or holds groups of which one (or) or all (and)   *)
(* can be active; a configuration is filed under its GUID with the indices   *)
(* on the way to it.                                                         *)
(*                                                                         *)
(* A GUID has GuidSize bytes (16 in the code).  A parse is a record: where it *)
(* has come to, whether it has failed, and the configurations so far.        *)
(***************************************************************************)
EXTENDS Integers, Sequences, SequencesExt, Functions

CONSTANT GuidSize

ASSUME GuidSizeAssumption == GuidSize \in Nat \ {0}

Failed == [at |-> 0, ok |-> FALSE, configs |-> <<>>]

Guid(d, i) == SubSeq(d, i, i + GuidSize - 1)
Left(d, i) == Len(d) - i + 1

(* The length is checked for one byte less than is read: the byte after the   *)
(* end is read for the size of the data, which then is not there.            *)
ParseConfig(d, s, seq) ==
    IF Left(d, s.at) < GuidSize + 4 THEN Failed
    ELSE LET i    == s.at
             size == d[i + GuidSize + 3]
             next == i + GuidSize + 4
             cfg  == [flags |-> d[i], guid |-> Guid(d, i + 1), cmd |-> d[i + GuidSize + 1],
                      count |-> d[i + GuidSize + 2], actseq |-> seq,
                      data |-> SubSeq(d, next, next + size - 1)]
         IN  IF Left(d, next) < size THEN Failed
             ELSE [at |-> next + size, ok |-> TRUE,
                   configs |-> (cfg.guid :> cfg) @@ s.configs]

RECURSIVE ParseGroup(_, _, _)
ParseGroup(d, s, seq) ==
    CASE ~s.ok \/ s.at > Len(d) -> Failed
      [] d[s.at] = 0 -> ParseConfig(d, [s EXCEPT !.at = @ + 1], seq)
      [] OTHER -> FoldLeft(LAMBDA acc, i : ParseGroup(d, acc, Append(seq, i - 1)),
                           [s EXCEPT !.at = @ + 1],
                           [i \in 1..(d[s.at] % 128) |-> i])

ParseDescriptor(d) ==
    IF Len(d) < GuidSize + 1 \/ d[1] # 1 THEN Failed
    ELSE ParseGroup(d, [at |-> GuidSize + 2, ok |-> TRUE, configs |-> <<>>], <<>>)

GetConfig(parse, guid) == IF guid \in DOMAIN parse.configs THEN parse.configs[guid] ELSE <<>>
=============================================================================
