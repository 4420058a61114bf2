------------------------------ MODULE MCDevice ------------------------------
(* A small instance of Device for TLC.                                       *)
EXTENDS Device

CONSTANTS o1, o2, r1, r2, d1, d2

Config(g, cmd, d) == [k |-> "config", guid |-> <<g>>, cmd |-> cmd, data |-> d]

MCDescriptors == {
    Config(5, 1, <<9, 9, 9, 9, 9, 9>>),
    [k |-> "and", of |-> << [k |-> "or", of |-> << Config(6, 2, <<128>>), Config(0, 2, <<>>) >>] >>] }

Symmetry == Permutations(Opens) \cup Permutations(Reads) \cup Permutations(Readers)
=============================================================================
