---------------------------- MODULE Declarations ----------------------------
(***************************************************************************)
(* Declaring types and constants: class Declarations of src/src/stream.h   *)
(* and the methods of Module that use it (src/src/instructions/type.cpp    *)
(* and constant.cpp).  A declaration is first written to the stream with a *)
(* fresh id, then its words, with that id zeroed, are looked up among the  *)
(* earlier ones; when they are found, the write and the id are taken back. *)
(*                                                                         *)
(* The id counter `bound' belongs to the Module and is shared with all its *)
(* other streams; AllocateElsewhere stands for them.                       *)
(***************************************************************************)
EXTENDS Reader

CONSTANTS
  Api,       \* the methods the modelled caller uses, a set of names
  Scalars,   \* the words it passes for widths, counts and enumerants
  Literals,  \* the word sequences of the numeric literals it passes
  Names,     \* the word sequences of the strings it passes
  MaxSpan,   \* bound of the model: the length of the spans it passes
  MaxId      \* bound of the model: the greatest id

\* The methods and the opcodes they emit, numbered as in the SPIR-V headers.
Opcode ==
  [TypeVoid |-> 19, TypeBool |-> 20, TypeInt |-> 21, TypeFloat |-> 22,
   TypeVector |-> 23, TypeMatrix |-> 24, TypeImage |-> 25, TypeSampler |-> 26,
   TypeSampledImage |-> 27, TypeArray |-> 28, TypeRuntimeArray |-> 29,
   TypeStruct |-> 30, TypeOpaque |-> 31, TypePointer |-> 32,
   TypeFunction |-> 33, TypeEvent |-> 34, TypeDeviceEvent |-> 35,
   TypeReserveId |-> 36, TypeQueue |-> 37, TypePipe |-> 38,
   ConstantTrue |-> 41, ConstantFalse |-> 42, Constant |-> 43,
   ConstantComposite |-> 44, ConstantSampler |-> 45, ConstantNull |-> 46]

ASSUME DeclarationsAssumption ==
  /\ Half > 46  \* OpConstantNull, the largest opcode used here
  /\ Api \subseteq DOMAIN Opcode
  /\ Scalars \subseteq Word
  /\ Literals \subseteq [1 .. 1 -> Word] \cup [1 .. 2 -> Word]
  /\ Names \subseteq Seq(Word)
  /\ MaxSpan \in Nat
  /\ MaxId \in Word

VARIABLES
  stream,                 \* Declarations::stream
  existing_declarations,  \* Declarations::existing_declarations
  id_index,               \* Declarations::id_index
  bound,                  \* Module::bound
  call,                   \* what the last declaring call asked for
  result                  \* the Id the last call returned, 0 before the first

vars == <<stream, existing_declarations, id_index, bound, call, result>>

\* A request: the opcode, the result type or 0, and the operand words.
Request(opcode, result_type, operands) ==
  [opcode |-> opcode, result_type |-> result_type, operands |-> operands]

NoCall == Request(0, 0, <<>>)

Init == /\ stream = EmptyStream
        /\ existing_declarations = [k \in {} |-> 0]
        /\ id_index = 0
        /\ bound = 0
        /\ call = NoCall
        /\ result = 0

-----------------------------------------------------------------------------
(* Class Declarations.                                                     *)

\* A mutant that forgets where the instruction started.
OpId_KeepsOpIndex(s, opcode, result_type, id) ==
  Put(s, IF result_type # 0 THEN <<opcode, result_type, id>>
                            ELSE <<opcode, id>>)

\* operator<<(OpId) of a Stream: opcode, result type if there is one, and the
\* fresh id.  A result type of 0 stands for an OpId without one.
OpId(s, opcode, result_type, id) ==
  BeginOp(s, IF result_type # 0 THEN <<opcode, result_type, id>>
                                ELSE <<opcode, id>>)

IdIndex_ForgetsType(result_type) == 1

\* operator<<(OpId) of Declarations remembers which word is the id.
IdIndex(result_type) == IF result_type # 0 THEN 2 ELSE 1

WithoutId(words, index) == [words EXCEPT ![index + 1] = 0]

\* The lookup key: the words of the declaration with the id zeroed.
Key(opened, index) == WithoutId(Pending(opened), index)

\* operator<<(EndOp), when the declaration is new: the word taken out of the
\* key is what the table keeps.
Insert(opened, index) ==
  LET key == Key(opened, index)
  IN  /\ key \notin DOMAIN existing_declarations
      /\ existing_declarations' =
           [k \in DOMAIN existing_declarations \cup {key} |->
              IF k = key THEN Pending(opened)[index + 1]
                         ELSE existing_declarations[k]]
      /\ stream' = EndOp(opened)
      /\ bound' = bound + 1
      /\ result' = bound + 1

\* Mutants of Undo: the counter is not turned back, it is turned back twice, the
\* stream is not rewound.
Undo_KeepsId(opened, index) ==
  LET key == Key(opened, index)
  IN  /\ key \in DOMAIN existing_declarations
      /\ stream' = [opened EXCEPT !.insert_index = opened.op_index]
      /\ bound' = bound + 1
      /\ result' = existing_declarations[key]
      /\ UNCHANGED existing_declarations

Undo_ReturnsTwoIds(opened, index) ==
  LET key == Key(opened, index)
  IN  /\ key \in DOMAIN existing_declarations
      /\ stream' = [opened EXCEPT !.insert_index = opened.op_index]
      /\ bound' = (bound + 1) - 2
      /\ result' = existing_declarations[key]
      /\ UNCHANGED existing_declarations

Undo_KeepsWords(opened, index) ==
  LET key == Key(opened, index)
  IN  /\ key \in DOMAIN existing_declarations
      /\ stream' = opened
      /\ bound' = (bound + 1) - 1
      /\ result' = existing_declarations[key]
      /\ UNCHANGED existing_declarations

\* operator<<(EndOp), when it is not: rewind the stream and give the id back.
\* The counter went up with the OpId, so what is left is the old value.
Undo(opened, index) ==
  LET key == Key(opened, index)
  IN  /\ key \in DOMAIN existing_declarations
      /\ stream' = [opened EXCEPT !.insert_index = opened.op_index]
      /\ bound' = (bound + 1) - 1
      /\ result' = existing_declarations[key]
      /\ UNCHANGED existing_declarations

\* Reserve, OpId and the operands: the stream when EndOp is reached.
Opened(method, reserved, result_type, operands) ==
  Put(OpId(Reserve(stream, reserved), Opcode[method], result_type, bound + 1),
      operands)

\* One call, with all its operator<<.
Declare(method, reserved, result_type, operands) ==
  /\ method \in Api
  /\ HasRoom(stream, reserved, IdIndex(result_type) + 1 + Len(operands))
  /\ bound < MaxId
  /\ id_index' = IdIndex(result_type)
  /\ call' = Request(Opcode[method], result_type, operands)
  /\ LET opened == Opened(method, reserved, result_type, operands)
     IN  Insert(opened, id_index') \/ Undo(opened, id_index')

-----------------------------------------------------------------------------
(* What a caller passes.  Every id up to bound has been handed out.        *)
Ids == 1 .. bound
Spans == BoundedSeq(Ids, MaxSpan)
Bits == {0, 1}
Optional(S) == BoundedSeq(S, 1)

(* src/src/instructions/type.cpp *)
TypeVoid == Declare("TypeVoid", 2, 0, <<>>)

TypeBool == Declare("TypeBool", 2, 0, <<>>)

\* Also TypeSInt and TypeUInt, which fix is_signed.
TypeInt == \E width \in Scalars, is_signed \in Bits :
  Declare("TypeInt", 4, 0, <<width, is_signed>>)

TypeFloat == \E width \in Scalars : Declare("TypeFloat", 3, 0, <<width>>)

TypeVector == \E component_type \in Ids, component_count \in Scalars :
  /\ component_count >= 2
  /\ Declare("TypeVector", 4, 0, <<component_type, component_count>>)

TypeMatrix == \E column_type \in Ids, column_count \in Scalars :
  /\ column_count >= 2
  /\ Declare("TypeMatrix", 4, 0, <<column_type, column_count>>)

TypeImage ==
  \E sampled_type \in Ids, dim, depth, sampled, format \in Scalars,
     arrayed, ms \in Bits, access_qualifier \in Optional(Scalars) :
    Declare("TypeImage", 10, 0,
            <<sampled_type, dim, depth, arrayed, ms, sampled, format>>
              \o access_qualifier)

TypeSampler == Declare("TypeSampler", 2, 0, <<>>)

TypeSampledImage == \E image_type \in Ids :
  Declare("TypeSampledImage", 3, 0, <<image_type>>)

TypeArray == \E element_type, length \in Ids :
  Declare("TypeArray", 4, 0, <<element_type, length>>)

TypeRuntimeArray == \E element_type \in Ids :
  Declare("TypeRuntimeArray", 3, 0, <<element_type>>)

TypeStruct == \E members \in Spans :
  Declare("TypeStruct", 2 + Len(members), 0, members)

TypeOpaque == \E name \in Names :
  Declare("TypeOpaque", 3 + Len(name), 0, name)

TypePointer == \E storage_class \in Scalars, type \in Ids :
  Declare("TypePointer", 4, 0, <<storage_class, type>>)

TypeFunction == \E return_type \in Ids, arguments \in Spans :
  Declare("TypeFunction", 3 + Len(arguments), 0, <<return_type>> \o arguments)

TypeEvent == Declare("TypeEvent", 2, 0, <<>>)

TypeDeviceEvent == Declare("TypeDeviceEvent", 2, 0, <<>>)

TypeReserveId == Declare("TypeReserveId", 2, 0, <<>>)

TypeQueue == Declare("TypeQueue", 2, 0, <<>>)

\* Three words are written where two are reserved.
TypePipe == \E access_qualifier \in Scalars :
  Declare("TypePipe", 2, 0, <<access_qualifier>>)

(* src/src/instructions/constant.cpp *)
ConstantTrue == \E result_type \in Ids :
  Declare("ConstantTrue", 3, result_type, <<>>)

ConstantFalse == \E result_type \in Ids :
  Declare("ConstantFalse", 3, result_type, <<>>)

Constant == \E result_type \in Ids, literal \in Literals :
  Declare("Constant", 3 + 2, result_type, literal)

ConstantComposite == \E result_type \in Ids, constituents \in Spans :
  Declare("ConstantComposite", 3 + Len(constituents), result_type, constituents)

ConstantSampler ==
  \E result_type \in Ids, addressing_mode, filter_mode \in Scalars,
     normalized \in Bits :
    Declare("ConstantSampler", 6, result_type,
            <<addressing_mode, normalized, filter_mode>>)

ConstantNull == \E result_type \in Ids :
  Declare("ConstantNull", 3, result_type, <<>>)

-----------------------------------------------------------------------------
\* Any other stream of the module, or OpLabel, takes an id.
AllocateElsewhere ==
  /\ bound < MaxId
  /\ bound' = bound + 1
  /\ result' = bound + 1
  /\ UNCHANGED <<stream, existing_declarations, id_index, call>>

\* Memory the vector does not own: between two calls its owner may write there.
\* Only cells whose contents Words() shows matter.
Clobber ==
  /\ \E i \in stream.size .. (stream.insert_index - 1), value \in Scalars :
       stream' = [stream EXCEPT !.words[i] = value]
  /\ UNCHANGED <<existing_declarations, id_index, bound, call, result>>

\* A declaring method of Module.
Method ==
  \/ TypeVoid \/ TypeBool \/ TypeInt \/ TypeFloat \/ TypeVector \/ TypeMatrix
  \/ TypeImage \/ TypeSampler \/ TypeSampledImage \/ TypeArray
  \/ TypeRuntimeArray \/ TypeStruct \/ TypeOpaque \/ TypePointer
  \/ TypeFunction \/ TypeEvent \/ TypeDeviceEvent \/ TypeReserveId
  \/ TypeQueue \/ TypePipe
  \/ ConstantTrue \/ ConstantFalse \/ Constant \/ ConstantComposite
  \/ ConstantSampler \/ ConstantNull

Next == Method \/ AllocateElsewhere \/ Clobber

Spec == Init /\ [][Next]_vars

-----------------------------------------------------------------------------
(* Properties.                                                             *)

TypeOK ==
  /\ stream \in StreamState
  /\ stream.size =< Cap /\ stream.insert_index =< Cap
  /\ existing_declarations = [k \in DOMAIN existing_declarations |->
                                existing_declarations[k]]
  /\ \A k \in DOMAIN existing_declarations :
       k \in Seq(Word) /\ existing_declarations[k] \in 1 .. bound
  /\ id_index \in 0 .. 2
  /\ bound \in 0 .. MaxId
  /\ call \in [opcode : Nat, result_type : Nat, operands : Seq(Word)]
  /\ result \in 0 .. MaxId

\* Every write of a declaration method lands in memory its Reserve made sure
\* the vector owns, whatever room earlier calls left over or took back: Reserve
\* and the operator<< chain agree in each method of type.cpp and constant.cpp
\* but TypePipe, whose chain is a word longer than what it reserves.
InBounds == stream.insert_index =< stream.size

\* The instruction that a table entry stands for: the key with the count in its
\* first word and the id back in its place, which is the word that is 0.
InstructionOf(key, id) ==
  [j \in 1 .. Len(key) |->
     IF j = 1 THEN WithCount(key[1], Len(key))
     ELSE IF j = (IF key[2] = 0 THEN 2 ELSE 3) THEN id
     ELSE key[j]]

EmittedAt(key, id, at) ==
  /\ at + Len(key) =< stream.insert_index
  /\ \A j \in 1 .. Len(key) :
       stream.words[at + j - 1] = InstructionOf(key, id)[j]

\* The id a method returned, for a first or a repeated request, is defined in
\* the stream by the instruction that was asked for: a later call that is taken
\* back or that grows the vector does not lose or alter it ("Returns type ...",
\* sirit.h).
EntriesEmitted ==
  \A key \in DOMAIN existing_declarations :
    \E at \in 0 .. stream.insert_index :
      EmittedAt(key, existing_declarations[key], at)

\* A reader of the section finds each declaration exactly once and nothing
\* else: an undone declaration leaves no trace below insert_index ("Handle
\* types and constant duplicates", README.md).
EmittedOnce ==
  LET read == ParseInstructions(Words(stream))
  IN  /\ ReadsToEnd(Words(stream))
      /\ IsInjective(read)
      /\ ToSet(read) = {InstructionOf(key, existing_declarations[key]) :
                          key \in DOMAIN existing_declarations}

\* Words that Words() has shown never change and never go away, so whatever
\* EndOp takes back was the call's own.
EmittedStable ==
  [][\A i \in 0 .. stream.insert_index - 1 :
       i < stream'.insert_index /\ stream'.words[i] = stream.words[i]]_vars

\* The key determines the request it was made of: the second word is 0 exactly
\* when there is no result type.
RequestOf(key) ==
  IF key[2] = 0 THEN Request(key[1], 0, SubSeq(key, 3, Len(key)))
                ELSE Request(key[1], key[2], SubSeq(key, 4, Len(key)))

KeyOf(r) ==
  (IF r.result_type = 0 THEN <<r.opcode, 0>> ELSE <<r.opcode, r.result_type, 0>>)
    \o r.operands

table ==
  [r \in {RequestOf(key) : key \in DOMAIN existing_declarations} |->
     existing_declarations[KeyOf(r)]]

Caller == INSTANCE Interning
            WITH Requests <- [opcode : Nat, result_type : Nat, operands : Seq(Nat)]

\* The word-level lookup with its undo does what a caller of the declaration
\* methods relies on: equal requests share an id, different requests never do,
\* and no id is skipped or reused.
Interns == Caller!Spec
=============================================================================
