---------------------------- MODULE MCAdviceTape ----------------------------
(* Every size up to two words and a byte, to every address modulo eight;    *)
(* tuples; a Vec of up to eleven bytes; a Vec between others; an advice     *)
(* function whose body calls another.                                       *)
EXTENDS AdviceTape

Field(size, at) == [size |-> size, at |-> at, contents |-> FALSE]
Call(fields) == [fields |-> fields, body |-> <<>>]
Array(size, at) == Call(<<Field(size, at)>>)
Tuple == Call(<<Field(8, 0), Field(1, 3), Field(2, 6), Field(4, 4)>>)
Vec(size, at) == Call(<<Field(8, 0), Field(8, 0), [size |-> size, at |-> at, contents |-> TRUE]>>)

Guests ==
    {<<Array(n, at)>> : n \in 0 .. 17, at \in 0 .. 7}
    \cup {<<Vec(n, at), Array(3, 1)>> : n \in 0 .. 11, at \in {0, 3, 6}}
    \cup {<<Tuple, Vec(5, 2), Vec(3, 5)>>, <<Array(1, 7), Tuple>>}
    \cup {<<[Array(2, 0) EXCEPT !.body = <<2>>], Array(2, 0)>>}
=============================================================================
