------------------------- MODULE DeclarationsProofs -------------------------
(***************************************************************************)
(* Theorems about Declarations, for every set of methods, all operands and *)
(* every bound of the model.                                               *)
(***************************************************************************)
EXTENDS DeclarationsLemmas

\* The keys of the table are keys of requests, and can be read back.
KeysReadBack ==
  \A key \in DOMAIN existing_declarations :
    KeyOf(RequestOf(key)) = key

\* The inductive invariant: a key that could not be read back could answer a
\* request it was not made of.
IInv == TypeOK /\ KeysReadBack

\* The empty table has nothing to read back.
LEMMA InitIInv == Init => IInv
<1> SUFFICES ASSUME Init PROVE IInv
  OBVIOUS
<1>1. 0 \in Word /\ Cap \in Nat /\ MaxId \in Nat
  BY WordFacts, StreamAssumption, DeclarationsAssumption
<1>2. stream \in StreamState /\ stream.size = 0 /\ stream.insert_index = 0
  BY EmptyStreamType DEF Init, EmptyStream
<1>3. call \in [opcode : Nat, result_type : Nat, operands : Seq(Word)]
  BY DEF Init, NoCall, Request
<1>4. existing_declarations = [k \in {} |-> 0] /\ DOMAIN existing_declarations = {}
  BY DEF Init
<1>5. id_index = 0 /\ bound = 0 /\ result = 0
  BY DEF Init
<1>6. TypeOK
  BY <1>1, <1>2, <1>3, <1>4, <1>5 DEF TypeOK
<1> QED
  BY <1>4, <1>6 DEF IInv, KeysReadBack

\* A method call preserves the invariant: a new entry has a key that was made
\* of a request and the id that was just taken.
LEMMA DeclareIInv ==
  ASSUME IInv, SomeMethod
  PROVE  IInv'
<1>1. PICK method \in Api, reserved \in Nat, result_type \in Word,
           operands \in Seq(Word) :
        Declare(method, reserved, result_type, operands)
  BY DEF SomeMethod
<1> DEFINE words == Instruction(Opcode[method], result_type, operands, bound + 1)
           start == stream.insert_index
           key == KeyOf(call')
<1>2. /\ call' = Request(Opcode[method], result_type, operands)
      /\ id_index' = IdIndex(result_type)
      /\ stream' \in StreamState
      /\ stream'.size =< Cap /\ stream'.insert_index =< Cap
      /\ Declared(key, start, words) \/ Found(key, start)
  BY <1>1, DeclareFacts DEF IInv, TypeOK
<1>3. /\ bound \in 0 .. MaxId /\ bound < MaxId /\ MaxId \in Nat
      /\ \A k \in DOMAIN existing_declarations :
           k \in Seq(Word) /\ existing_declarations[k] \in 1 .. bound
      /\ existing_declarations = [k \in DOMAIN existing_declarations |->
                                    existing_declarations[k]]
      /\ \A k \in DOMAIN existing_declarations : KeyOf(RequestOf(k)) = k
  BY <1>1, DeclarationsAssumption, WordFacts
     DEF IInv, TypeOK, KeysReadBack, Declare
<1>4. Opcode[method] \in Word /\ 0 \in Word /\ Word \subseteq Nat
  BY OpcodeWord, WordFacts
<1>5. key \in Seq(Word) /\ KeyOf(RequestOf(key)) = key
  <2>1. key \in Seq(Word)
    BY <1>2, <1>4, KeyOfFacts
  <2>2. RequestOf(key) = call'
    BY <1>2, <1>4, RequestOfKeyOf
  <2> QED
    BY <2>1, <2>2
<1>6. call' \in [opcode : Nat, result_type : Nat, operands : Seq(Word)]
  BY <1>2, <1>4 DEF Request
<1>7. id_index' \in 0 .. 2
  BY <1>2, IdIndexFacts
<1> HIDE DEF key, words, start
<1>8. CASE Declared(key, start, words)
  <2>1. /\ existing_declarations' =
             [k \in DOMAIN existing_declarations \cup {key} |->
                IF k = key THEN bound + 1 ELSE existing_declarations[k]]
        /\ bound' = bound + 1 /\ result' = bound + 1
    BY <1>8 DEF Declared
  <2>2. /\ bound' \in 0 .. MaxId /\ result' \in 0 .. MaxId
        /\ bound + 1 \in 1 .. bound'
        /\ \A id \in 1 .. bound : id \in 1 .. bound'
    BY <2>1, <1>3
  <2>3. DOMAIN existing_declarations' = DOMAIN existing_declarations \cup {key}
    BY <2>1
  <2>4. existing_declarations' = [k \in DOMAIN existing_declarations' |->
                                    existing_declarations'[k]]
    BY <2>1
  <2>5. ASSUME NEW k \in DOMAIN existing_declarations'
        PROVE  /\ k \in Seq(Word) /\ existing_declarations'[k] \in 1 .. bound'
               /\ KeyOf(RequestOf(k)) = k
    <3>1. CASE k = key
      BY <3>1, <2>1, <2>2, <2>3, <1>5
    <3>2. CASE k # key
      <4>1. /\ k \in DOMAIN existing_declarations
            /\ existing_declarations'[k] = existing_declarations[k]
        BY <3>2, <2>1, <2>3
      <4> QED
        BY <4>1, <2>2, <1>3
    <3> QED
      BY <3>1, <3>2
  <2> QED
    BY <1>2, <1>6, <1>7, <2>2, <2>4, <2>5 DEF IInv, TypeOK, KeysReadBack
<1>9. CASE Found(key, start)
  <2>1. /\ existing_declarations' = existing_declarations
        /\ bound' = bound /\ result' = existing_declarations[key]
        /\ key \in DOMAIN existing_declarations
    BY <1>9 DEF Found
  <2>2. result' \in 0 .. MaxId
    <3>1. existing_declarations[key] \in 1 .. bound
      BY <2>1, <1>3
    <3> QED
      BY <2>1, <3>1, <1>3
  <2> QED
    BY <1>2, <1>3, <1>6, <1>7, <2>1, <2>2 DEF IInv, TypeOK, KeysReadBack
<1> QED
  BY <1>2, <1>8, <1>9

\* Ids taken elsewhere do not disturb it: the table's ids stay below bound.
LEMMA AllocateIInv ==
  ASSUME IInv, AllocateElsewhere
  PROVE  IInv'
<1>1. /\ bound \in 0 .. MaxId /\ bound < MaxId /\ MaxId \in Nat
      /\ bound' = bound + 1 /\ result' = bound + 1
      /\ UNCHANGED <<stream, existing_declarations, id_index, call>>
  BY DeclarationsAssumption, WordFacts DEF AllocateElsewhere, IInv, TypeOK
<1>2. /\ bound' \in 0 .. MaxId /\ result' \in 0 .. MaxId
      /\ \A id \in 1 .. bound : id \in 1 .. bound'
  BY <1>1
<1>3. \A k \in DOMAIN existing_declarations :
        k \in Seq(Word) /\ existing_declarations[k] \in 1 .. bound'
  BY <1>2 DEF IInv, TypeOK
<1> QED
  BY <1>1, <1>2, <1>3 DEF IInv, TypeOK, KeysReadBack

\* Nor does a write to memory the vector does not own.
LEMMA ClobberIInv ==
  ASSUME IInv, Clobber
  PROVE  IInv'
<1>1. PICK i \in stream.size .. (stream.insert_index - 1), value \in Scalars :
        stream' = [stream EXCEPT !.words[i] = value]
  BY DEF Clobber
<1>2. UNCHANGED <<existing_declarations, id_index, bound, call, result>>
  BY DEF Clobber
<1>3. value \in Word
  BY DeclarationsAssumption
<1>4. /\ stream' \in StreamState /\ stream'.size = stream.size
      /\ stream'.insert_index = stream.insert_index
  BY <1>1, <1>3 DEF IInv, TypeOK, StreamState
<1> QED
  BY <1>2, <1>4 DEF IInv, TypeOK, KeysReadBack

\* The invariant is inductive, whatever the methods reserve.
LEMMA NextIInv == IInv /\ [Next]_vars => IInv'
<1> SUFFICES ASSUME IInv, [Next]_vars PROVE IInv'
  OBVIOUS
<1>1. CASE Next
  <2>1. SomeMethod \/ AllocateElsewhere \/ Clobber
    BY <1>1, NextCases DEF IInv, TypeOK
  <2> QED
    BY <2>1, DeclareIInv, AllocateIInv, ClobberIInv
<1>2. CASE UNCHANGED vars
  BY <1>2 DEF vars, IInv, TypeOK, KeysReadBack
<1> QED
  BY <1>1, <1>2

\* In every reachable state the declarations stream, its table, the id counter
\* and what the last call asked for and returned are well formed: no recorded
\* id is beyond the counter, though every repeated request turns it back.
THEOREM TypeCorrect == Spec => []TypeOK
<1>1. IInv => TypeOK
  BY DEF IInv
<1> QED
  BY <1>1, InitIInv, NextIInv, PTL DEF Spec

-----------------------------------------------------------------------------
(* Declarations implements Interning.                                      *)

\* The requests in the table are those its keys were made of.
LEMMA TableFacts ==
  ASSUME IInv
  PROVE  /\ DOMAIN table = {RequestOf(k) : k \in DOMAIN existing_declarations}
         /\ \A r \in DOMAIN table :
              /\ KeyOf(r) \in DOMAIN existing_declarations
              /\ RequestOf(KeyOf(r)) = r
              /\ table[r] = existing_declarations[KeyOf(r)]
  BY DEF table, IInv, KeysReadBack

\* An empty table is what the caller starts with.
LEMMA InitRefines == Init => Caller!Init
<1> SUFFICES ASSUME Init PROVE Caller!Init
  OBVIOUS
<1>1. existing_declarations = [k \in {} |-> 0] /\ bound = 0 /\ result = 0
  BY DEF Init
<1>2. {RequestOf(k) : k \in DOMAIN existing_declarations} = {}
  BY <1>1
<1>3. table = [r \in {} |-> 0]
  BY <1>2 DEF table
<1> QED
  BY <1>1, <1>3 DEF Caller!Init

\* A method call creates an entry for a request nobody made before, or answers
\* from the entry of an equal one.
LEMMA DeclareRefines ==
  ASSUME IInv, SomeMethod
  PROVE  Caller!Next
<1>1. PICK method \in Api, reserved \in Nat, result_type \in Word,
           operands \in Seq(Word) :
        Declare(method, reserved, result_type, operands)
  BY DEF SomeMethod
<1> DEFINE words == Instruction(Opcode[method], result_type, operands, bound + 1)
           start == stream.insert_index
           key == KeyOf(call')
<1>2. /\ call' = Request(Opcode[method], result_type, operands)
      /\ Declared(key, start, words) \/ Found(key, start)
  BY <1>1, DeclareFacts DEF IInv, TypeOK
<1>3. Opcode[method] \in Word /\ 0 \in Word /\ Word \subseteq Nat
  BY OpcodeWord, WordFacts
<1>4. RequestOf(key) = call'
  BY <1>2, <1>3, RequestOfKeyOf
<1>5. call' \in [opcode : Nat, result_type : Nat, operands : Seq(Nat)]
  <2>1. operands \in Seq(Nat)
    BY <1>3, SeqMonotonic
  <2> QED
    BY <2>1, <1>2, <1>3 DEF Request
<1>6. IInv'
  BY DeclareIInv
<1>7. /\ DOMAIN table = {RequestOf(k) : k \in DOMAIN existing_declarations}
      /\ \A r \in DOMAIN table :
           /\ KeyOf(r) \in DOMAIN existing_declarations
           /\ RequestOf(KeyOf(r)) = r
           /\ table[r] = existing_declarations[KeyOf(r)]
  BY TableFacts DEF IInv
<1> HIDE DEF words, start
<1>8. CASE Declared(key, start, words)
  <2>1. /\ key \notin DOMAIN existing_declarations
        /\ existing_declarations' =
             [k \in DOMAIN existing_declarations \cup {key} |->
                IF k = key THEN bound + 1 ELSE existing_declarations[k]]
        /\ bound' = bound + 1 /\ result' = bound + 1
    BY <1>8 DEF Declared
  <2>2. call' \notin DOMAIN table
    BY <2>1, <1>7
  <2>3. DOMAIN existing_declarations' = DOMAIN existing_declarations \cup {key}
    BY <2>1
  <2>4. {RequestOf(k) : k \in DOMAIN existing_declarations'}
          = DOMAIN table \cup {call'}
    BY <2>3, <1>4, <1>7
  <2>5. \A r \in DOMAIN table \cup {call'} :
          existing_declarations'[KeyOf(r)] =
            IF r = call' THEN bound + 1 ELSE table[r]
    <3> TAKE r \in DOMAIN table \cup {call'}
    <3>1. CASE r = call'
      BY <3>1, <2>1
    <3>2. CASE r # call'
      <4>1. /\ KeyOf(r) \in DOMAIN existing_declarations
            /\ table[r] = existing_declarations[KeyOf(r)]
        BY <3>2, <1>7
      <4> QED
        BY <4>1, <3>2, <2>1
    <3> QED
      BY <3>1, <3>2
  <2>6. table' = [r \in DOMAIN table \cup {call'} |->
                    existing_declarations'[KeyOf(r)]]
    BY <2>4 DEF table
  <2>7. table' = [r \in DOMAIN table \cup {call'} |->
                    IF r = call' THEN bound + 1 ELSE table[r]]
    BY <2>5, <2>6
  <2>8. Caller!Create
    BY <2>1, <2>2, <2>7, <1>5 DEF Caller!Create
  <2> QED
    BY <2>8 DEF Caller!Next
<1>9. CASE Found(key, start)
  <2>1. /\ existing_declarations' = existing_declarations
        /\ bound' = bound /\ result' = existing_declarations[key]
        /\ key \in DOMAIN existing_declarations
    BY <1>9 DEF Found
  <2>2. call' \in DOMAIN table
    BY <2>1, <1>4, <1>7
  <2>3. result' = table[call']
    BY <2>1, <2>2, <1>7
  <2>4. table' = table
    BY <2>1 DEF table
  <2>5. Caller!Find
    BY <2>1, <2>2, <2>3, <2>4 DEF Caller!Find
  <2> QED
    BY <2>5 DEF Caller!Next
<1> QED
  BY <1>2, <1>8, <1>9

\* Every step is a step of the caller's view, or leaves it unchanged.
LEMMA NextRefines ==
  IInv /\ [Next]_vars => [Caller!Next]_(Caller!vars)
<1> SUFFICES ASSUME IInv, [Next]_vars
             PROVE  Caller!Next \/ UNCHANGED Caller!vars
  OBVIOUS
<1>1. CASE SomeMethod
  BY <1>1, DeclareRefines
<1>2. CASE AllocateElsewhere
  <2>1. table' = table
    BY <1>2 DEF AllocateElsewhere, table
  <2> QED
    BY <1>2, <2>1 DEF AllocateElsewhere, Caller!Next, Caller!Allocate
<1>3. CASE Clobber \/ UNCHANGED vars
  <2>1. UNCHANGED <<existing_declarations, bound, call, result>>
    BY <1>3 DEF Clobber, vars
  <2>2. table' = table
    BY <2>1 DEF table
  <2> QED
    BY <2>1, <2>2 DEF Caller!vars
<1>4. Next => SomeMethod \/ AllocateElsewhere \/ Clobber
  BY NextCases DEF IInv, TypeOK
<1> QED
  BY <1>1, <1>2, <1>3, <1>4

\* For the callers of the declaration methods the words, the zeroed id and the
\* undo do not exist: equal requests get the same id, different requests get
\* different ids, and the counter that goes up and down in between never skips
\* an id nor gives one out twice.
THEOREM ImplementsInterning == Spec => Interns
<1>1. Spec => []IInv
  BY InitIInv, NextIInv, PTL DEF Spec
<1> QED
  BY <1>1, InitRefines, NextRefines, PTL DEF Spec, Interns, Caller!Spec

-----------------------------------------------------------------------------
(* What the emitted words are, for callers that do not use TypePipe.       *)

\* With InBounds a growth of the vector or a clobber leaves every shown word.
BInv == IInv /\ InBounds

\* The call found its key, or made an entry and added its instruction.
NoEntry(start) ==
  /\ existing_declarations' = existing_declarations
  /\ stream'.insert_index = start
  /\ bound' = bound

NewEntry(start, key) ==
  /\ DOMAIN existing_declarations' = DOMAIN existing_declarations \cup {key}
  /\ key \notin DOMAIN existing_declarations
  /\ \A k \in DOMAIN existing_declarations :
       existing_declarations'[k] = existing_declarations[k]
  /\ existing_declarations'[key] = bound + 1
  /\ bound' = bound + 1
  /\ stream'.insert_index = start + Len(key)
  /\ \A j \in 1 .. Len(key) :
       stream'.words[start + j - 1] = InstructionOf(key, bound + 1)[j]
  /\ key \in Seq(Word)
  /\ ShortOperands => WellFormed(key)

\* What such a call does to a stream that owns all its words: every word stays,
\* and the words of a new declaration come after them.
LEMMA BoundedCall ==
  ASSUME BInv, SomeMethod, "TypePipe" \notin Api
  PROVE  LET start == stream.insert_index
             key == KeyOf(call')
         IN  /\ InBounds'
             /\ stream'.insert_index >= start
             /\ \A i \in 0 .. start - 1 : stream'.words[i] = stream.words[i]
             /\ NoEntry(start) \/ NewEntry(start, key)
<1>1. PICK method \in Api, reserved \in Nat, result_type \in Word,
           operands \in Seq(Word) :
        /\ Declare(method, reserved, result_type, operands)
        /\ method # "TypePipe" =>
             IdIndex(result_type) + 1 + Len(operands) =< reserved
        /\ result_type # 0 <=> method \in ConstantMethods
        /\ ShortOperands => IdIndex(result_type) + 1 + Len(operands) < Half
  BY DEF SomeMethod
<1> DEFINE opcode == Opcode[method]
           id == bound + 1
           index == IdIndex(result_type)
           words == Instruction(opcode, result_type, operands, id)
           start == stream.insert_index
           key == KeyOf(call')
<1>2. index + 1 + Len(operands) =< reserved
  BY <1>1
<1>3. /\ call' = Request(opcode, result_type, operands)
      /\ stream' \in StreamState
      /\ stream'.insert_index =< Cap
      /\ start + reserved =< stream'.size /\ stream.size =< stream'.size
      /\ \A i \in Cells : i < start /\ i < stream.size =>
                           stream'.words[i] = stream.words[i]
      /\ Declared(key, start, words) \/ Found(key, start)
  BY <1>1, DeclareFacts DEF BInv, IInv, TypeOK
<1>4. /\ start \in Nat /\ stream.size \in Nat /\ Cap \in Nat
      /\ stream'.size \in Nat /\ start =< stream.size /\ stream.size =< Cap
  BY <1>3, StreamAssumption DEF BInv, IInv, TypeOK, StreamState, InBounds
<1>5. \A i \in 0 .. start - 1 : stream'.words[i] = stream.words[i]
  <2> TAKE i \in 0 .. start - 1
  <2>1. i \in Cells /\ i < start /\ i < stream.size
    BY <1>4 DEF Cells
  <2> QED
    BY <2>1, <1>3
<1>6. opcode \in Word /\ id \in Word /\ 0 \in Word
  <2>1. bound \in 0 .. MaxId /\ bound < MaxId
    BY <1>1 DEF Declare, BInv, IInv, TypeOK
  <2> QED
    BY <2>1, OpcodeWord, WordFacts, DeclarationsAssumption, StreamAssumption
       DEF Word
<1> HIDE DEF opcode, id
<1>7. /\ words \in Seq(Word)
      /\ Len(words) = index + 1 + Len(operands)
      /\ words[1] = opcode
      /\ words[index + 1] = id
      /\ WithoutId(words, index) = KeyOf(Request(opcode, result_type, operands))
  BY <1>6, InstructionFacts
<1>8. /\ KeyOf(Request(opcode, result_type, operands)) \in Seq(Word)
      /\ Len(KeyOf(Request(opcode, result_type, operands)))
           = index + 1 + Len(operands)
      /\ KeyOf(Request(opcode, result_type, operands))[1] = opcode
      /\ index = 2 => KeyOf(Request(opcode, result_type, operands))[2] = result_type
      /\ KeyOf(Request(opcode, result_type, operands))[index + 1] = 0
  BY <1>6, KeyOfFacts
<1>9. index \in 1 .. 2 /\ (index = 1 <=> result_type = 0) /\ Len(operands) \in Nat
  BY IdIndexFacts, LenProperties
<1>10. key = KeyOf(Request(opcode, result_type, operands))
  BY <1>3
<1>f. ShortOperands => WellFormed(key)
  BY <1>1, <1>10, RequestWellFormed DEF opcode
<1> HIDE DEF words, index, key, start
<1>11. CASE Declared(key, start, words)
  <2>1. /\ key \notin DOMAIN existing_declarations
        /\ existing_declarations' =
             [k \in DOMAIN existing_declarations \cup {key} |->
                IF k = key THEN id ELSE existing_declarations[k]]
        /\ bound' = id
        /\ stream'.insert_index = start + Len(words)
        /\ \A j \in 1 .. Len(words) :
             stream'.words[start + j - 1] =
               IF j = 1 THEN WithCount(words[1], Len(words)) ELSE words[j]
    BY <1>11 DEF Declared, id
  <2>2. Len(key) = Len(words) /\ Len(words) \in Nat /\ Len(words) =< reserved
    BY <1>2, <1>7, <1>8, <1>9, <1>10
  <2>3. /\ InBounds' /\ stream'.insert_index >= start
        /\ start + Len(key) =< stream'.insert_index
    BY <2>1, <2>2, <1>3, <1>4 DEF InBounds
  <2>4. key[2] = 0 <=> index = 1
    BY <1>8, <1>9, <1>10
  <2>5. \A j \in 1 .. Len(key) : j # index + 1 => key[j] = words[j]
    BY <1>7, <1>10, <2>2, LenProperties DEF WithoutId
  <2>6. \A j \in 1 .. Len(key) :
          stream'.words[start + j - 1] = InstructionOf(key, id)[j]
    <3> TAKE j \in 1 .. Len(key)
    <3>1. InstructionOf(key, id)[j] =
            IF j = 1 THEN WithCount(key[1], Len(key))
            ELSE IF j = (IF key[2] = 0 THEN 2 ELSE 3) THEN id ELSE key[j]
      BY DEF InstructionOf
    <3>2. (IF key[2] = 0 THEN 2 ELSE 3) = index + 1
      BY <2>4, <1>9
    <3>3. key[1] = words[1]
      BY <1>7, <1>8, <1>10
    <3>4. CASE j = 1
      BY <3>1, <3>3, <3>4, <2>1, <2>2
    <3>5. CASE j # 1 /\ j = index + 1
      BY <3>1, <3>2, <3>5, <2>1, <2>2, <1>7
    <3>6. CASE j # 1 /\ j # index + 1
      BY <3>1, <3>2, <3>6, <2>1, <2>2, <2>5
    <3> QED
      BY <3>4, <3>5, <3>6
  <2>7. NewEntry(start, key)
    BY <2>1, <2>2, <2>6, <1>8, <1>10, <1>f DEF NewEntry, id
  <2> QED
    BY <2>3, <2>7, <1>5 DEF key, start
<1>12. CASE Found(key, start)
  <2>1. NoEntry(start)
    BY <1>12 DEF Found, NoEntry
  <2>2. InBounds' /\ stream'.insert_index >= start
    BY <2>1, <1>3, <1>4 DEF InBounds, NoEntry
  <2> QED
    BY <2>1, <2>2, <1>5 DEF key, start
<1> QED
  BY <1>3, <1>11, <1>12

\* With no word outside the vector there is nothing for others to write to.
LEMMA NothingToClobber == BInv => ~Clobber
<1> SUFFICES ASSUME BInv, Clobber PROVE FALSE
  OBVIOUS
<1>1. PICK i \in stream.size .. (stream.insert_index - 1) : TRUE
  BY DEF Clobber
<1>2. stream.size \in Nat /\ stream.insert_index \in Nat
      /\ stream.insert_index =< stream.size
  BY DEF BInv, IInv, TypeOK, StreamState, InBounds
<1> QED
  BY <1>1, <1>2

\* The invariant with its bound is inductive when every method reserves enough.
LEMMA BInvStep ==
  ASSUME "TypePipe" \notin Api, BInv, [Next]_vars
  PROVE  BInv'
<1>1. IInv'
  BY NextIInv DEF BInv
<1>2. SomeMethod \/ AllocateElsewhere \/ UNCHANGED vars
  BY NextCases, NothingToClobber DEF BInv, IInv, TypeOK
<1>3. CASE SomeMethod
  BY <1>1, <1>3, BoundedCall DEF BInv
<1>4. CASE AllocateElsewhere \/ UNCHANGED vars
  BY <1>1, <1>4 DEF BInv, InBounds, AllocateElsewhere, vars
<1> QED
  BY <1>2, <1>3, <1>4

\* An empty stream is within its bounds.
LEMMA BInvInit == Init => BInv
<1> SUFFICES ASSUME Init PROVE BInv
  OBVIOUS
<1>1. InBounds
  BY DEF Init, EmptyStream, InBounds
<1> QED
  BY <1>1, InitIInv DEF BInv

\* TypePipe is the only declaration method whose reservation is too small: a
\* caller that never uses it keeps every write inside the vector, whatever
\* the order of its calls and however much room undone ones left behind.
THEOREM OnlyPipeIsShort ==
  ASSUME "TypePipe" \notin Api
  PROVE  Spec => []InBounds
<1>1. BInv => InBounds
  BY DEF BInv
<1>2. BInv /\ [Next]_vars => BInv'
  BY BInvStep
<1> QED
  BY <1>1, <1>2, BInvInit, PTL DEF Spec

\* Such a caller's words never change once a call has returned, and are never
\* cut off by the undo of a later one.
THEOREM WordsStay ==
  ASSUME "TypePipe" \notin Api
  PROVE  Spec => EmittedStable
<1> DEFINE Kept == \A i \in 0 .. stream.insert_index - 1 :
                     i < stream'.insert_index /\ stream'.words[i] = stream.words[i]
<1>1. BInv /\ [Next]_vars => [Kept]_vars
  <2> SUFFICES ASSUME BInv, [Next]_vars PROVE Kept \/ UNCHANGED vars
    OBVIOUS
  <2>1. SomeMethod \/ AllocateElsewhere \/ UNCHANGED vars
    BY NextCases, NothingToClobber DEF BInv, IInv, TypeOK
  <2>2. stream.insert_index \in Nat
    BY DEF BInv, IInv, TypeOK, StreamState
  <2>3. CASE SomeMethod
    <3>1. /\ stream'.insert_index >= stream.insert_index
          /\ \A i \in 0 .. stream.insert_index - 1 :
               stream'.words[i] = stream.words[i]
      BY <2>3, BoundedCall
    <3>2. stream'.insert_index \in Nat
      BY BInvStep DEF BInv, IInv, TypeOK, StreamState
    <3>3. \A i \in 0 .. stream.insert_index - 1 : i < stream'.insert_index
      BY <3>1, <3>2, <2>2
    <3> QED
      BY <3>1, <3>3
  <2>4. CASE AllocateElsewhere
    <3>1. stream' = stream
      BY <2>4 DEF AllocateElsewhere
    <3>2. \A i \in 0 .. stream.insert_index - 1 : i < stream.insert_index
      BY <2>2
    <3> QED
      BY <3>1, <3>2
  <2> QED
    BY <2>1, <2>3, <2>4
<1>2. BInv /\ [Next]_vars => BInv'
  BY BInvStep
<1> QED
  BY <1>1, <1>2, BInvInit, PTL DEF Spec, EmittedStable

\* And every id it was given is the result of the instruction it asked for,
\* still in the stream with its count and its operands.
THEOREM DeclarationsEmitted ==
  ASSUME "TypePipe" \notin Api
  PROVE  Spec => []EntriesEmitted
<1>1. Init => EntriesEmitted
  BY DEF Init, EntriesEmitted
<1>2. BInv /\ EntriesEmitted /\ [Next]_vars => EntriesEmitted'
  <2> SUFFICES ASSUME BInv, EntriesEmitted, [Next]_vars
               PROVE  EntriesEmitted'
    OBVIOUS
  <2>1. SomeMethod \/ AllocateElsewhere \/ UNCHANGED vars
    BY NextCases, NothingToClobber DEF BInv, IInv, TypeOK
  <2>2. CASE AllocateElsewhere \/ UNCHANGED vars
    <3>1. stream' = stream /\ existing_declarations' = existing_declarations
      BY <2>2 DEF AllocateElsewhere, vars
    <3> QED
      BY <3>1 DEF EntriesEmitted, EmittedAt
  <2>3. CASE SomeMethod
    <3>0. PICK start, key : start = stream.insert_index /\ key = KeyOf(call')
      OBVIOUS
    <3>1. /\ stream'.insert_index >= start
          /\ \A i \in 0 .. start - 1 : stream'.words[i] = stream.words[i]
          /\ NoEntry(start) \/ NewEntry(start, key)
      BY <2>3, <3>0, BoundedCall
    <3>2. /\ start \in Nat /\ stream'.insert_index \in Nat
          /\ \A k \in DOMAIN existing_declarations : Len(k) \in Nat
      BY <3>0, BInvStep, LenProperties DEF BInv, IInv, TypeOK, StreamState
    <3>3. ASSUME NEW k \in DOMAIN existing_declarations
          PROVE  \E at \in 0 .. stream'.insert_index :
                   EmittedAt(k, existing_declarations[k], at)'
      <4>1. PICK at \in 0 .. start : EmittedAt(k, existing_declarations[k], at)
        BY <3>0 DEF EntriesEmitted
      <4>2. at + Len(k) =< stream'.insert_index /\ at \in 0 .. stream'.insert_index
        <5>1. at + Len(k) =< start
          BY <4>1, <3>0 DEF EmittedAt
        <5> QED
          BY <5>1, <3>1, <3>2
      <4>3. existing_declarations'[k] = existing_declarations[k]
        BY <3>1 DEF NoEntry, NewEntry
      <4>4. ASSUME NEW j \in 1 .. Len(k)
            PROVE  stream'.words[at + j - 1] =
                     InstructionOf(k, existing_declarations[k])[j]
        <5>1. at + j - 1 \in 0 .. start - 1
          BY <4>1, <3>0, <3>2 DEF EmittedAt
        <5>2. stream'.words[at + j - 1] = stream.words[at + j - 1]
          BY <5>1, <3>1
        <5> QED
          BY <5>2, <4>1 DEF EmittedAt
      <4> QED
        BY <4>2, <4>3, <4>4 DEF EmittedAt
    <3>4. CASE NoEntry(start)
      BY <3>3, <3>4 DEF EntriesEmitted, NoEntry
    <3>5. CASE NewEntry(start, key)
      <4>1. /\ DOMAIN existing_declarations'
                 = DOMAIN existing_declarations \cup {key}
            /\ \A k \in DOMAIN existing_declarations :
                 existing_declarations'[k] = existing_declarations[k]
        BY <3>5 DEF NewEntry
      <4>2. EmittedAt(key, existing_declarations[key], start)'
        <5>1. start + Len(key) =< stream'.insert_index
          BY <3>2, <3>5 DEF NewEntry
        <5> QED
          BY <3>5, <5>1 DEF EmittedAt, NewEntry
      <4>3. start \in 0 .. stream'.insert_index
        BY <3>1, <3>2
      <4> QED
        BY <4>1, <4>2, <4>3, <3>3 DEF EntriesEmitted
    <3> QED
      BY <3>1, <3>4, <3>5
  <2> QED
    BY <2>1, <2>2, <2>3
<1>3. BInv /\ [Next]_vars => BInv'
  BY BInvStep
<1> QED
  BY <1>1, <1>2, <1>3, BInvInit, PTL DEF Spec

-----------------------------------------------------------------------------
(* What a reader of the section finds.                                     *)

EntryOf(key) == InstructionOf(key, existing_declarations[key])

\* The section can be read, by its counts, as the instructions of the table;
\* the keys keep their instructions apart, the ids being different.
OnceInv ==
  /\ BInv
  /\ \A key \in DOMAIN existing_declarations : WellFormed(key)
  /\ Readable(Words(stream))
  /\ IsInjective(ParseInstructions(Words(stream)))
  /\ ToSet(ParseInstructions(Words(stream)))
       = {EntryOf(key) : key \in DOMAIN existing_declarations}

\* Nothing is read in the empty stream, and the table is empty.
LEMMA OnceInit == Init => OnceInv
<1> SUFFICES ASSUME Init PROVE OnceInv
  OBVIOUS
<1>1. DOMAIN existing_declarations = {} /\ stream.insert_index = 0
  BY DEF Init, EmptyStream
<1>2. Words(stream) = <<>>
  BY <1>1 DEF Words
<1>3. Readable(Words(stream)) /\ ParseInstructions(Words(stream)) = <<>>
  BY <1>2, ReadableEmpty
<1>4. DOMAIN <<>> = {}
  OBVIOUS
<1>5. IsInjective(<<>>) /\ ToSet(<<>>) = {}
  BY <1>4 DEF IsInjective, ToSet
<1> QED
  BY <1>1, <1>3, <1>5, BInvInit DEF OnceInv

\* A sequence gets another element.
LEMMA AppendFacts ==
  ASSUME NEW S, NEW s \in Seq(S), NEW e \in S
  PROVE  /\ ToSet(Append(s, e)) = ToSet(s) \cup {e}
         /\ IsInjective(s) /\ e \notin ToSet(s) => IsInjective(Append(s, e))
<1>1. PICK n \in Nat : n = Len(s)
  OBVIOUS
<1>2. PICK t : t = Append(s, e)
  OBVIOUS
<1>3. /\ DOMAIN s = 1 .. n /\ DOMAIN t = 1 .. n + 1
      /\ t[n + 1] = e /\ \A i \in 1 .. n : t[i] = s[i]
  BY <1>1, <1>2, AppendProperties
<1>4. \A i \in 1 .. n + 1 : i \in 1 .. n \/ i = n + 1
  OBVIOUS
<1>5. \A i \in 1 .. n : i \in 1 .. n + 1 /\ i # n + 1
  OBVIOUS
<1>6. ToSet(t) = ToSet(s) \cup {e}
  <2>0. n + 1 \in 1 .. n + 1
    OBVIOUS
  <2>1. \A x \in ToSet(t) : x \in ToSet(s) \cup {e}
    BY <1>3, <1>4 DEF ToSet
  <2>2. \A x \in ToSet(s) : x \in ToSet(t)
    BY <1>3, <1>5 DEF ToSet
  <2>3. e \in ToSet(t)
    BY <1>3, <2>0 DEF ToSet
  <2> QED
    BY <2>1, <2>2, <2>3
<1>7. ASSUME IsInjective(s), e \notin ToSet(s)
      PROVE  IsInjective(t)
  <2>1. \A i \in 1 .. n : t[i] # e
    BY <1>3, <1>7 DEF ToSet
  <2>2. \A i, j \in 1 .. n : t[i] = t[j] => i = j
    BY <1>3, <1>7 DEF IsInjective
  <2>3. ASSUME NEW i \in 1 .. n + 1, NEW j \in 1 .. n + 1, t[i] = t[j]
        PROVE  i = j
    BY <1>3, <1>4, <2>1, <2>2, <2>3
  <2> QED
    BY <1>3, <2>3 DEF IsInjective
<1> QED
  BY <1>2, <1>6, <1>7

\* What a call adds to the section: nothing, or the instruction of its entry,
\* which can be read and has the id the call took.
NewWords(key, ins) ==
  /\ NewEntry(stream.insert_index, key)
  /\ WellFormed(key) /\ bound + 1 \in Word
  /\ ins = InstructionOf(key, bound + 1)
  /\ ins \in Counted /\ ins[IdPlace(ins)] = bound + 1 /\ OpcodeOf(ins[1]) = key[1]
  /\ Words(stream') = Words(stream) \o ins

\* What a call does to the words that the stream shows: nothing when the
\* declaration was found, one instruction at the end when it was not.
LEMMA CallWords ==
  ASSUME OnceInv, SomeMethod, "TypePipe" \notin Api, ShortOperands, BInv'
  PROVE  \/ NoEntry(stream.insert_index) /\ Words(stream') = Words(stream)
         \/ \E key, ins : NewWords(key, ins)
<1>0. PICK start, key : start = stream.insert_index /\ key = KeyOf(call')
  OBVIOUS
<1>1. /\ stream'.insert_index >= start
      /\ \A i \in 0 .. start - 1 : stream'.words[i] = stream.words[i]
      /\ NoEntry(start) \/ NewEntry(start, key)
  BY <1>0, BoundedCall DEF OnceInv
<1>2. /\ stream \in StreamState /\ stream.insert_index =< Cap
      /\ stream' \in StreamState /\ stream'.insert_index =< Cap
  BY DEF OnceInv, BInv, IInv, TypeOK
<1>3. CASE NoEntry(start)
  <2>1. Words(stream') = Words(stream)
    BY <1>0, <1>1, <1>2, <1>3, WordsKept DEF NoEntry
  <2> QED
    BY <1>0, <1>3, <2>1
<1>4. CASE NewEntry(start, key)
  <2>1. PICK id : id = bound + 1
    OBVIOUS
  <2>2. PICK ins : ins = InstructionOf(key, id)
    OBVIOUS
  <2>3. id \in Word
    <3>1. bound \in Nat /\ bound' \in 0 .. MaxId /\ bound' = id /\ MaxId \in Word
      BY <1>4, <2>1, DeclarationsAssumption DEF NewEntry, OnceInv, BInv, IInv, TypeOK
    <3> QED
      BY <3>1, StreamAssumption DEF Word
  <2>4. WellFormed(key)
    BY <1>4 DEF NewEntry
  <2>5. /\ ins \in Counted /\ Len(ins) = Len(key) /\ ins[IdPlace(ins)] = id
        /\ OpcodeOf(ins[1]) = key[1]
    BY <2>2, <2>3, <2>4, InstructionOfFacts
  <2>6. Words(stream') = Words(stream) \o ins
    <3>1. ins \in Seq(Nat)
      BY <2>5, CountedWords
    <3>2. /\ stream'.insert_index = start + Len(ins)
          /\ \A j \in 1 .. Len(ins) : stream'.words[start + j - 1] = ins[j]
      BY <1>4, <2>1, <2>2, <2>5 DEF NewEntry
    <3> QED
      BY <1>0, <1>1, <1>2, <3>1, <3>2, WordsGrow
  <2> QED
    BY <1>0, <1>4, <2>1, <2>2, <2>3, <2>4, <2>5, <2>6 DEF NewWords
<1> QED
  BY <1>1, <1>3, <1>4

\* So the section stays the instructions of the table.
LEMMA OnceCall ==
  ASSUME OnceInv, SomeMethod, "TypePipe" \notin Api, ShortOperands, BInv'
  PROVE  OnceInv'
<1>0. PICK start : start = stream.insert_index
  OBVIOUS
<1>3. CASE NoEntry(start) /\ Words(stream') = Words(stream)
  BY <1>3 DEF OnceInv, EntryOf, NoEntry
<1>4. CASE \E key, ins : NewWords(key, ins)
  <2>0. PICK key, ins : NewWords(key, ins)
    BY <1>4
  <2>1. PICK id : id = bound + 1
    OBVIOUS
  <2>2. NewEntry(start, key) /\ WellFormed(key) /\ ins = InstructionOf(key, id)
    BY <1>0, <2>0, <2>1 DEF NewWords
  <2>3. id \in Word /\ \A k \in DOMAIN existing_declarations :
                         /\ existing_declarations[k] \in Word
                         /\ existing_declarations[k] # id
    <3>1. /\ bound \in 0 .. MaxId /\ MaxId \in Word /\ id \in Word
          /\ \A k \in DOMAIN existing_declarations :
               existing_declarations[k] \in 1 .. bound
      BY <2>0, <2>1, DeclarationsAssumption
         DEF NewWords, OnceInv, BInv, IInv, TypeOK
    <3>2. \A i \in 1 .. bound : i \in Word /\ i # id
      BY <2>1, <3>1, StreamAssumption DEF Word
    <3> QED
      BY <3>1, <3>2
  <2>5. ins \in Counted /\ ins[IdPlace(ins)] = id
    BY <2>0, <2>1 DEF NewWords
  <2>6. Words(stream') = Words(stream) \o ins
    BY <2>0 DEF NewWords
  <2>7. PICK read : read = ParseInstructions(Words(stream))
    OBVIOUS
  <2>8. /\ Readable(Words(stream)) /\ read \in Seq(Counted)
        /\ IsInjective(read)
        /\ ToSet(read) = {EntryOf(k) : k \in DOMAIN existing_declarations}
    BY <2>7, ReadableReads DEF OnceInv
  <2>9. /\ Readable(Words(stream'))
        /\ ParseInstructions(Words(stream')) = Append(read, ins)
    BY <2>5, <2>6, <2>7, <2>8, ReadableAppend
  <2>10. ins \notin ToSet(read)
    <3>1. ASSUME NEW k \in DOMAIN existing_declarations, ins = EntryOf(k)
          PROVE  FALSE
      <4>1. WellFormed(k)
        BY DEF OnceInv
      <4>2. InstructionOf(k, existing_declarations[k])[IdPlace(
              InstructionOf(k, existing_declarations[k]))] = existing_declarations[k]
        BY <2>3, <4>1, InstructionOfFacts
      <4>3. ins[IdPlace(ins)] = existing_declarations[k]
        BY <3>1, <4>2 DEF EntryOf
      <4> QED
        BY <2>3, <2>5, <4>3
    <3> QED
      BY <2>8, <3>1
  <2>11. /\ IsInjective(ParseInstructions(Words(stream')))
         /\ ToSet(ParseInstructions(Words(stream'))) = ToSet(read) \cup {ins}
    BY <2>5, <2>8, <2>9, <2>10, AppendFacts
  <2>12. {EntryOf(k) : k \in DOMAIN existing_declarations} \cup {ins}
           = {InstructionOf(k, existing_declarations'[k]) :
                k \in DOMAIN existing_declarations'}
    BY <2>1, <2>2 DEF NewEntry, EntryOf
  <2>13. \A k \in DOMAIN existing_declarations' : WellFormed(k)
    BY <2>2 DEF NewEntry, OnceInv
  <2> QED
    BY <2>8, <2>9, <2>11, <2>12, <2>13 DEF OnceInv, EntryOf
<1> QED
  BY <1>0, <1>3, <1>4, CallWords

\* And an id taken elsewhere leaves the section alone.
LEMMA OnceStep ==
  ASSUME "TypePipe" \notin Api, ShortOperands, OnceInv, [Next]_vars
  PROVE  OnceInv'
<1>1. BInv'
  BY BInvStep DEF OnceInv
<1>2. SomeMethod \/ AllocateElsewhere \/ UNCHANGED vars
  BY NextCases, NothingToClobber DEF OnceInv, BInv, IInv, TypeOK
<1>3. CASE SomeMethod
  BY <1>1, <1>3, OnceCall
<1>4. CASE AllocateElsewhere \/ UNCHANGED vars
  <2>1. stream' = stream /\ existing_declarations' = existing_declarations
    BY <1>4 DEF AllocateElsewhere, vars
  <2> QED
    BY <1>1, <2>1 DEF OnceInv, EntryOf
<1> QED
  BY <1>2, <1>3, <1>4

\* For such a caller, whose spans and names fit an instruction, the section is
\* read to its end and has each declaration once and nothing else: what was
\* undone is nowhere in it, and no two entries share an instruction.
THEOREM DeclarationsOnce ==
  ASSUME "TypePipe" \notin Api, ShortOperands
  PROVE  Spec => []EmittedOnce
<1>1. OnceInv /\ [Next]_vars => OnceInv'
  BY OnceStep
<1>2. OnceInv => EmittedOnce
  <2> SUFFICES ASSUME OnceInv PROVE EmittedOnce
    OBVIOUS
  <2>1. ReadsToEnd(Words(stream))
    BY ReadableReads DEF OnceInv
  <2> QED
    BY <2>1 DEF OnceInv, EmittedOnce, EntryOf
<1> QED
  BY <1>1, <1>2, OnceInit, PTL DEF Spec
=============================================================================
