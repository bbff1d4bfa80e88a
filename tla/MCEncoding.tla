----------------------------- MODULE MCEncoding -----------------------------
(* Values of the constants of Encoding for the model checker: a byte has 8 *)
(* values, of which 4 to 7 are negative as signed chars.                   *)
EXTENDS Encoding, SequencesExt

MCAscii == BoundedSeq({1, 2}, 9)
MCUtf8 == BoundedSeq({1, 5}, 5)

\* The least and the greatest values of each type, and some around zero.
MCLiterals ==
  LET word == 8 * 8 * 8 * 8
      wide == word * word
  IN  [type : {"u32", "float"}, value : {0, 1, 511, 512, word \div 2, word - 1}]
      \cup [type : {"s32"}, value : {0, 1, -1, word \div 2 - 1, -(word \div 2)}]
      \cup [type : {"u64", "double"},
            value : {0, 1, word - 1, word, wide \div 2, wide - 1}]
      \cup [type : {"s64"},
            value : {0, 1, -1, -word, wide \div 2 - 1, -(wide \div 2)}]
NoLiterals == {}
=============================================================================
