--------------------------- MODULE MCProgramming ---------------------------
(* A small instance of Programming for TLC: nibbles of one bit.              *)
EXTENDS Programming

Rec(type, address, data) ==
    [form |-> "record", type |-> type, length |-> Len(data), address |-> address, data |-> data]
Bad(form) == [form |-> form]

MCLines == {
    Rec(0, 12, <<1, 2, 3>>), Rec(0, 13, <<4, 5, 6>>), Rec(0, 0, <<7>>), Rec(0, 15, <<8, 9>>),
    Rec(0, 14, <<10>>), Rec(0, 14, <<>>),
    Rec(4, 0, <<0, 1>>), Rec(4, 0, <<3, 3>>), Rec(2, 0, <<0, 1>>), Rec(4, 0, <<1>>),
    Rec(3, 0, <<0, 0>>), Rec(1, 0, <<>>), Rec(5, 0, <<>>),
    [Rec(0, 1, <<1>>) EXCEPT !.length = 2],
    Bad("blank"), Bad("no colon"), Bad("bad digit"), Bad("short") }
=============================================================================
