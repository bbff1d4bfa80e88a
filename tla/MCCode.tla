------------------------------- MODULE MCCode -------------------------------
(* Values of the constants of Code for the model checker.                  *)
EXTENDS Code

AllMethods == {shape.method : shape \in AllShapes}
\* A method whose instruction is one word; it leaves nothing over, and with it
\* there are too many ways to fill the stream.
Bare == {shape.method : shape \in {sh \in AllShapes : sh.reserved = 1}}
\* Every other method but those that write more words than they reserve: they
\* leave 0, 1 or 2 words over.
FittingMethods == AllMethods \ (ShortMethods \cup Bare)
\* Methods that leave 0, 1 and 2 words of their reservation over.
SlackApi == {"OpBranch", "OpBranchConditional", "OpStore", "OpLoad"}
OneWord == {1}
AnyWidth == {1, 2}
MCLengths == {0, 1}
=============================================================================
