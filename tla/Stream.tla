------------------------------- MODULE Stream -------------------------------
(***************************************************************************)
(* The growable word buffer every section of a SPIR-V module is written    *)
(* to: class Stream of src/src/stream.h.  This module has no variables: a  *)
(* stream is a record, and each operator maps a stream to the stream after *)
(* the call.  Components hold such records in their own variables.         *)
(*                                                                         *)
(* A std::vector is a block of memory of which the first `size' cells      *)
(* belong to the vector.  The code writes with an unchecked words[i], so a *)
(* write at or beyond `size' lands in memory the vector does not own; it   *)
(* is kept here in the same function `words', whose domain reaches beyond  *)
(* `size', until the vector grows over it and value-initialises the cell.  *)
(***************************************************************************)
EXTENDS Naturals, Sequences

CONSTANTS
  Half,  \* 2^16 in the code: the first word of an instruction has its
         \* opcode in the low half and its word count in the high half
  Cap    \* bound of the model: the number of cells of a stream's memory

ASSUME StreamAssumption == /\ Half \in Nat /\ Half > 1
                           /\ Cap \in Nat

Word == 0 .. (Half * Half - 1)
Cells == 0 .. (Cap - 1)

StreamState ==
  [words : [Cells -> Word], size : Nat, insert_index : Nat, op_index : Nat]

EmptyStream ==
  [words |-> [i \in Cells |-> 0], size |-> 0, insert_index |-> 0, op_index |-> 0]

\* Whether the model's memory has room for a reservation and for the words
\* that are then written.
HasRoom(s, reserved, written) ==
  /\ s.insert_index + reserved =< Cap
  /\ s.insert_index + written =< Cap

\* What Words() shows of the stream: the words before insert_index.
Words(s) == [j \in 1 .. s.insert_index |-> s.words[j - 1]]

-----------------------------------------------------------------------------
\* std::vector::resize to a greater size sets the cells it adds to zero,
\* whatever was in that memory.
Resize(s, size) ==
  [s EXCEPT !.words = [i \in Cells |-> IF i \in s.size .. (size - 1)
                                      THEN 0 ELSE s.words[i]],
            !.size = size]

(* Mutants of Reserve, for the model checker: the room is compared with    *)
(* the request alone, or the vector is refilled instead of extended.       *)
Reserve_IgnoresInsertIndex(s, num_words) ==
  IF num_words =< s.size THEN s ELSE Resize(s, s.insert_index + num_words)

Reserve_Refills(s, num_words) ==
  IF s.insert_index + num_words =< s.size THEN s
  ELSE [Resize(s, s.insert_index + num_words) EXCEPT !.words = [i \in Cells |-> 0]]

\* Reserve: the vector only ever grows.
Reserve(s, num_words) ==
  IF s.insert_index + num_words =< s.size THEN s
  ELSE Resize(s, s.insert_index + num_words)

\* The memory with the words ws stored from insert_index on, owned or not.
Stored(s, ws) ==
  [i \in Cells |-> IF i \in s.insert_index .. (s.insert_index + Len(ws) - 1)
                  THEN ws[i - s.insert_index + 1] ELSE s.words[i]]

\* A chain of operator<< calls that appends the words ws.
Put(s, ws) == [s EXCEPT !.words = Stored(s, ws),
                        !.insert_index = s.insert_index + Len(ws)]

\* operator<<(spv::Op) and operator<<(OpId): start an instruction whose first
\* words are ws.
BeginOp(s, ws) == [Put(s, ws) EXCEPT !.op_index = s.insert_index]

\* The opcode word with the word count in its high half; the shift of a 32-bit
\* word drops the count's upper bits.
WithCount(word, num_words) == word + Half * (num_words % Half)

\* operator<<(EndOp) of a Stream.
EndOp(s) ==
  [s EXCEPT !.words[s.op_index] =
              WithCount(s.words[s.op_index], s.insert_index - s.op_index)]

\* LocalAddress, Value and SetValue.  LocalAddress is the vector's size, which
\* is the place of the next word only when nothing is left over from earlier
\* reservations.
LocalAddress(s) == s.size
Value(s, index) == s.words[index]
SetValue(s, index, value) == [s EXCEPT !.words[index] = value]

\* The words of the instruction under construction, as Declarations copies them.
Pending(s) ==
  [j \in 1 .. (s.insert_index - s.op_index) |-> s.words[s.op_index + j - 1]]
=============================================================================
