--------------------------- MODULE MCDeclarations ---------------------------
(* Values of the constants of Declarations for the model checker.          *)
EXTENDS Declarations

\* A 32-bit literal, another one, and a 64-bit literal that starts like both.
MCLiterals == {<<0>>, <<1>>, <<0, 1>>}
\* The words of a short string and of one that needs a word for its zero.
MCNames == {<<7>>, <<7, 0>>}
AllMethods == DOMAIN Opcode
=============================================================================
