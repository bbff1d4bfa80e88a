------------------------------- MODULE Reader -------------------------------
(***************************************************************************)
(* How a consumer reads a SPIR-V stream back: instruction by instruction,  *)
(* trusting the word counts, as ParseInstructions of src/tests/main.cpp    *)
(* does after the header.                                                  *)
(***************************************************************************)
EXTENDS Stream, SequencesExt

\* The two halves of the first word of an instruction.
OpcodeOf(word) == word % Half
CountOf(word) == word \div Half

\* The instructions of ws, each as the sequence of its words.  Reading stops at
\* a count that is zero or runs past the end.
ParseInstructions(ws) ==
  LET from[i \in 1 .. Len(ws) + 1] ==
        IF i > Len(ws) THEN <<>>
        ELSE LET next == i + CountOf(ws[i])
             IN  IF next = i \/ next > Len(ws) + 1 THEN <<>>
                 ELSE <<SubSeq(ws, i, next - 1)>> \o from[next]
  IN  from[1]

\* Reading reaches the end of the stream.
ReadsToEnd(ws) == FlattenSeq(ParseInstructions(ws)) = ws
=============================================================================
