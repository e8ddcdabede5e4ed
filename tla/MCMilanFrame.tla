----------------------------- MODULE MCMilanFrame -----------------------------
(***************************************************************************)
(* MilanFrame for TLC: payloads around the places where a length spills    *)
(* into its high byte, and every value a byte may be flipped to.           *)
(***************************************************************************)
EXTENDS MilanFrame

Zeros(n) == [k \in 1..n |-> 0]

\* Short payloads, one holding the omitted-checksum marker, and zeros such that
\* first the body's length and then the length field reach 256.
SomePayloads == {<<>>, <<0>>, <<136>>, <<255, 1>>, Zeros(252), Zeros(255)}

SomeCmd0 == {2, 10}
SomeCmd1 == {0, 4}

SomeFlips == {0, 1, 136, 170, 255}

=============================================================================
