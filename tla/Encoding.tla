------------------------------ MODULE Encoding ------------------------------
(***************************************************************************)
(* How strings and literals become words: WordsInString, InsertStringView  *)
(* and operator<<(Literal) of src/src/stream.h.  A word is the sequence of *)
(* its four bytes, the least significant first.                            *)
(*                                                                         *)
(* A caller reserves WordsInString(string) words and then InsertStringView *)
(* writes without checking, one word for each round of its loop.           *)
(***************************************************************************)
EXTENDS Integers, Sequences

CONSTANTS
  Bytes,       \* 256 in the code: the number of values of a byte
  SignedChar,  \* whether char is signed, which C++ leaves to the platform
  Strings,     \* the strings written, as sequences of bytes
  Literals     \* the literals written, records of a type and a value

Byte == 0 .. (Bytes - 1)
Word == [1 .. 4 -> Byte]

\* The least value of a byte that is negative as a signed char.
Negative == Bytes \div 2

\* The number of values of a word.
WordSize == Bytes * Bytes * Bytes * Bytes

Is64Bit(type) == type \in {"u64", "s64", "double"}
IsSigned(type) == type \in {"s32", "s64"}

\* The number of values of each alternative of Literal, and the values
\* themselves; of a float or a double, its bits.
Size(type) == IF Is64Bit(type) THEN WordSize * WordSize ELSE WordSize

ValuesOf(type) ==
  IF IsSigned(type) THEN -(Size(type) \div 2) .. (Size(type) \div 2 - 1)
                    ELSE 0 .. (Size(type) - 1)

LiteralTypes == {"u32", "u64", "s32", "s64", "float", "double"}

ASSUME EncodingAssumption ==
  /\ Bytes \in Nat /\ Bytes > 1
  /\ SignedChar \in BOOLEAN
  /\ Strings \subseteq Seq(Byte)
  /\ \A literal \in Literals :
       /\ literal.type \in LiteralTypes
       /\ literal.value \in ValuesOf(literal.type)

VARIABLES
  argument,  \* what is being written: a string or a literal
  words,     \* the words written so far
  i,         \* the loop counter of InsertStringView
  done       \* the operator has returned

vars == <<argument, words, i, done>>

StringArgument(string) == [type |-> "string", value |-> string]

Arguments == {StringArgument(string) : string \in Strings} \cup Literals

Init == /\ argument \in Arguments
        /\ words = <<>>
        /\ i = 0
        /\ done = FALSE

-----------------------------------------------------------------------------
(* Strings.                                                                *)

\* A mutant that forgets the terminating zero of a string that fills its words.
WordsInString_RoundsUp(string) == (Len(string) + 3) \div 4

\* WordsInString
WordsInString(string) == Len(string) \div 4 + 1

\* The lambda `read': a byte of the string, or 0 behind its end.
Read(string, offset) == IF offset < Len(string) THEN string[offset + 1] ELSE 0

\* static_cast<u32>(char) of a negative char sets all the higher bytes.
Extends(string, offset) == SignedChar /\ Read(string, offset) >= Negative

\* A mutant that puts the first byte into the highest.
WordAt_BigEndian(string, offset) ==
  [j \in 1 .. 4 |-> IF \E k \in 0 .. j - 2 : Extends(string, offset + k)
                    THEN Bytes - 1 ELSE Read(string, offset + 4 - j)]

\* read(i) | read(i + 1) << 8 | read(i + 2) << 16 | read(i + 3) << 24: byte j
\* has the bits of its own char and those that an earlier one extends into it,
\* which are all ones or all zeros.
WordAt(string, offset) ==
  [j \in 1 .. 4 |-> IF \E k \in 0 .. j - 2 : Extends(string, offset + k)
                    THEN Bytes - 1 ELSE Read(string, offset + j - 1)]

ZeroWord == [j \in 1 .. 4 |-> 0]

\* One round of the loop.
InsertWord ==
  /\ ~done /\ argument.type = "string"
  /\ i < Len(argument.value)
  /\ words' = Append(words, WordAt(argument.value, i))
  /\ i' = i + 4
  /\ UNCHANGED <<argument, done>>

\* A mutant that waits for the counter to meet the length.
InsertEnd_Meets ==
  /\ ~done /\ argument.type = "string"
  /\ i = Len(argument.value)
  /\ words' = IF Len(argument.value) % 4 = 0 THEN Append(words, ZeroWord) ELSE words
  /\ done' = TRUE
  /\ UNCHANGED <<argument, i>>

\* Behind the loop: a string that fills its words gets a word of zeros.
InsertEnd ==
  /\ ~done /\ argument.type = "string"
  /\ i >= Len(argument.value)
  /\ words' = IF Len(argument.value) % 4 = 0 THEN Append(words, ZeroWord) ELSE words
  /\ done' = TRUE
  /\ UNCHANGED <<argument, i>>

-----------------------------------------------------------------------------
(* Literals.                                                               *)

\* A mutant that does not cut the lowest byte off.
WordOf_NoCast(value) ==
  <<value, (value \div Bytes) % Bytes,
    (value \div (Bytes * Bytes)) % Bytes,
    (value \div (Bytes * Bytes * Bytes)) % Bytes>>

\* static_cast<u32>: the value modulo the size of a word.
WordOf(value) ==
  <<value % Bytes, (value \div Bytes) % Bytes,
    (value \div (Bytes * Bytes)) % Bytes,
    (value \div (Bytes * Bytes * Bytes)) % Bytes>>

\* A mutant that writes the high word first.
LiteralWords_HighFirst(literal) ==
  IF Is64Bit(literal.type)
  THEN <<WordOf(literal.value \div WordSize), WordOf(literal.value)>>
  ELSE <<WordOf(literal.value)>>

\* The alternatives of operator<<: a 64-bit value is two words, the low one
\* first; the value of a float or a double is its bits.
LiteralWords(literal) ==
  IF Is64Bit(literal.type)
  THEN <<WordOf(literal.value), WordOf(literal.value \div WordSize)>>
  ELSE <<WordOf(literal.value)>>

PutLiteral ==
  /\ ~done /\ argument.type # "string"
  /\ words' = LiteralWords(argument)
  /\ done' = TRUE
  /\ UNCHANGED <<argument, i>>

Next == InsertWord \/ InsertEnd \/ PutLiteral

\* The loop is a part of one call.
Spec == Init /\ [][Next]_vars /\ WF_vars(Next)

-----------------------------------------------------------------------------
(* Properties.                                                             *)

TypeOK ==
  /\ argument \in Arguments
  /\ words \in Seq(Word)
  /\ i \in Nat
  /\ done \in BOOLEAN

\* The unchecked writes of InsertStringView are exactly those its callers have
\* reserved with WordsInString, for every length, multiples of four included.
StringFits ==
  argument.type = "string" =>
    /\ Len(words) =< WordsInString(argument.value)
    /\ done => Len(words) = WordsInString(argument.value)

\* Byte n of the words, from 1.
ByteAt(n) == words[((n - 1) \div 4) + 1][((n - 1) % 4) + 1]

\* A consumer reads back the string that was passed, up to a zero byte that is
\* there, and then only zeros ("Assign a name string to a reference",
\* sirit.h:324).
StringReadsBack ==
  done /\ argument.type = "string" =>
    /\ 4 * Len(words) > Len(argument.value)
    /\ \A n \in 1 .. 4 * Len(words) : ByteAt(n) = Read(argument.value, n - 1)

Unsigned(word) ==
  word[1] + Bytes * (word[2] + Bytes * (word[3] + Bytes * word[4]))

\* A number of `size' values as a signed one.
Signed(value, size) == IF value >= size \div 2 THEN value - size ELSE value

\* The words of a literal, read as its type says (low-order word first), are
\* the value that was passed, negative ones included.
LiteralReadsBack ==
  done /\ argument.type # "string" =>
    LET low  == Unsigned(words[1])
        bits == IF Is64Bit(argument.type) THEN low + WordSize * Unsigned(words[2])
                                          ELSE low
    IN  argument.value = IF IsSigned(argument.type)
                         THEN Signed(bits, Size(argument.type)) ELSE bits

\* The operator returns.
Returns == <>done
=============================================================================
