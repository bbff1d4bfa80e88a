------------------------- MODULE DeclarationsLemmas -------------------------
(***************************************************************************)
(* What one call of a declaration method does: the lemmas the theorems     *)
(* of DeclarationsProofs rest on.  SomeMethod and NextCases reduce the 26  *)
(* methods to one, DeclareFacts says what that one does.                   *)
(***************************************************************************)
EXTENDS Declarations, StreamProofs, SequenceTheorems

-----------------------------------------------------------------------------
(* Words, requests and keys.                                               *)

\* Every opcode fits the low half of a word and none is zero.
LEMMA OpcodeWord ==
  ASSUME NEW method \in Api
  PROVE  Opcode[method] \in Word /\ Opcode[method] < Half /\ Opcode[method] # 0
<1>1. \A m \in DOMAIN Opcode : Opcode[m] \in 1 .. 46
  BY DEF Opcode
<1>2. Half \in Nat /\ Half > 46
  BY StreamAssumption, DeclarationsAssumption
<1>3. Opcode[method] \in 1 .. 46
  BY <1>1, DeclarationsAssumption
<1> QED
  BY <1>2, <1>3, WordFacts

\* The id is the second word, or the third after a result type.
LEMMA IdIndexFacts ==
  ASSUME NEW result_type
  PROVE  /\ IdIndex(result_type) \in 1 .. 2
         /\ result_type = 0 => IdIndex(result_type) = 1
         /\ result_type # 0 => IdIndex(result_type) = 2
  BY DEF IdIndex

\* The words of the key of a request.
LEMMA KeyOfFacts ==
  ASSUME NEW S, 0 \in S, NEW opcode \in S, NEW result_type \in S,
         NEW operands \in Seq(S)
  PROVE  LET key == KeyOf(Request(opcode, result_type, operands))
             index == IdIndex(result_type)
         IN  /\ key \in Seq(S)
             /\ Len(key) = index + 1 + Len(operands)
             /\ key[1] = opcode
             /\ index = 2 => key[2] = result_type
             /\ key[index + 1] = 0
             /\ \A j \in 1 .. Len(operands) : key[index + 1 + j] = operands[j]
<1> DEFINE head == IF result_type = 0 THEN <<opcode, 0>>
                                      ELSE <<opcode, result_type, 0>>
           key == KeyOf(Request(opcode, result_type, operands))
           index == IdIndex(result_type)
<1>1. key = head \o operands
  BY DEF KeyOf, Request
<1>2. /\ head \in Seq(S) /\ Len(head) = index + 1 /\ index \in 1 .. 2
      /\ head[1] = opcode /\ head[index + 1] = 0
      /\ index = 2 => head[2] = result_type
  BY DEF IdIndex
<1> HIDE DEF head, index
<1>3. Len(operands) \in Nat
  BY LenProperties
<1>4. /\ key \in Seq(S) /\ Len(key) = Len(head) + Len(operands)
      /\ \A j \in 1 .. Len(head) + Len(operands) :
           key[j] = IF j <= Len(head) THEN head[j] ELSE operands[j - Len(head)]
  BY <1>1, <1>2, ConcatProperties
<1> HIDE DEF key
<1>5. \A j \in 1 .. Len(operands) : key[index + 1 + j] = operands[j]
  BY <1>2, <1>3, <1>4
<1>6. key[1] = opcode /\ key[index + 1] = 0 /\ (index = 2 => key[2] = result_type)
  BY <1>2, <1>3, <1>4
<1> QED
  BY <1>2, <1>4, <1>5, <1>6 DEF key, index

\* A key can be read back.
LEMMA RequestOfKeyOf ==
  ASSUME NEW S, 0 \in S, NEW opcode \in S, NEW result_type \in S,
         NEW operands \in Seq(S)
  PROVE  LET r == Request(opcode, result_type, operands)
         IN  RequestOf(KeyOf(r)) = r
<1> DEFINE r == Request(opcode, result_type, operands)
           key == KeyOf(r)
           index == IdIndex(result_type)
<1>1. /\ key \in Seq(S)
      /\ Len(key) = index + 1 + Len(operands)
      /\ key[1] = opcode
      /\ index = 2 => key[2] = result_type
      /\ key[index + 1] = 0
      /\ \A j \in 1 .. Len(operands) : key[index + 1 + j] = operands[j]
  BY KeyOfFacts
<1>2. Len(operands) \in Nat /\ index \in 1 .. 2
  BY LenProperties, IdIndexFacts
<1> HIDE DEF key
<1>3. SubSeq(key, index + 2, Len(key)) = operands
  <2> DEFINE m == index + 2
             n == Len(key)
             sub == SubSeq(key, m, n)
  <2>1. m \in 1 .. 4 /\ n \in Nat /\ n - m + 1 = Len(operands)
    BY <1>1, <1>2
  <2>2. \A i \in m .. n : key[i] \in S
    <3>1. \A i \in m .. n : i \in 1 .. Len(key)
      BY <2>1
    <3> QED
      BY <3>1, <1>1, ElementOfSeq
  <2> HIDE DEF m, n
  <2>3. /\ sub \in Seq(S)
        /\ Len(sub) = IF m <= n THEN n - m + 1 ELSE 0
        /\ \A i \in 1 .. n - m + 1 : sub[i] = key[m + i - 1]
    BY <2>1, <2>2, SubSeqProperties
  <2> HIDE DEF sub
  <2>4. Len(sub) = Len(operands)
    BY <2>1, <2>3, <1>2
  <2>5. \A i \in 1 .. Len(operands) : sub[i] = operands[i]
    <3> TAKE i \in 1 .. Len(operands)
    <3>1. sub[i] = key[m + i - 1]
      BY <2>1, <2>3
    <3>2. m + i - 1 = index + 1 + i
      BY <1>2 DEF m
    <3> QED
      BY <3>1, <3>2, <1>1
  <2>6. sub = operands
    BY <2>3, <2>4, <2>5, SeqEqual
  <2> QED
    BY <2>6 DEF sub, m, n
<1>4. CASE result_type = 0
  <2>1. index = 1 /\ key[2] = 0
    BY <1>1, <1>4, IdIndexFacts
  <2>2. RequestOf(key) = Request(key[1], 0, SubSeq(key, 3, Len(key)))
    BY <2>1 DEF RequestOf
  <2>3. index + 2 = 3
    BY <2>1
  <2> QED
    BY <2>2, <2>3, <1>1, <1>3, <1>4 DEF key, r
<1>5. CASE result_type # 0
  <2>1. index = 2 /\ key[2] # 0 /\ key[2] = result_type
    BY <1>1, <1>5, IdIndexFacts
  <2>2. RequestOf(key) = Request(key[1], key[2], SubSeq(key, 4, Len(key)))
    BY <2>1 DEF RequestOf
  <2>3. index + 2 = 4
    BY <2>1
  <2> QED
    BY <2>1, <2>2, <2>3, <1>1, <1>3 DEF key, r
<1> QED
  BY <1>4, <1>5

-----------------------------------------------------------------------------
(* What a call does before its EndOp.                                      *)

\* The words of a declaration when its EndOp is reached.
Instruction(opcode, result_type, operands, id) ==
  (IF result_type # 0 THEN <<opcode, result_type, id>> ELSE <<opcode, id>>)
    \o operands

\* They differ from the key of the request in the id alone.
LEMMA InstructionFacts ==
  ASSUME NEW opcode \in Word, NEW result_type \in Word,
         NEW operands \in Seq(Word), NEW id \in Word
  PROVE  LET words == Instruction(opcode, result_type, operands, id)
             index == IdIndex(result_type)
         IN  /\ words \in Seq(Word)
             /\ Len(words) = index + 1 + Len(operands)
             /\ words[1] = opcode
             /\ words[index + 1] = id
             /\ WithoutId(words, index)
                  = KeyOf(Request(opcode, result_type, operands))
<1> DEFINE head == IF result_type # 0 THEN <<opcode, result_type, id>>
                                      ELSE <<opcode, id>>
           words == Instruction(opcode, result_type, operands, id)
           index == IdIndex(result_type)
           key == KeyOf(Request(opcode, result_type, operands))
           zeroed == WithoutId(words, index)
<1>1. words = head \o operands
  BY DEF Instruction
<1>2. /\ head \in Seq(Word) /\ Len(head) = index + 1 /\ index \in 1 .. 2
      /\ head[1] = opcode /\ head[index + 1] = id
      /\ index = 2 => head[2] = result_type
  BY DEF IdIndex
<1> HIDE DEF head, index
<1>3. Len(operands) \in Nat
  BY LenProperties
<1>4. /\ words \in Seq(Word) /\ Len(words) = Len(head) + Len(operands)
      /\ \A j \in 1 .. Len(head) + Len(operands) :
           words[j] = IF j <= Len(head) THEN head[j] ELSE operands[j - Len(head)]
  BY <1>1, <1>2, ConcatProperties
<1>5. /\ key \in Seq(Word)
      /\ Len(key) = index + 1 + Len(operands)
      /\ key[1] = opcode
      /\ index = 2 => key[2] = result_type
      /\ key[index + 1] = 0
      /\ \A j \in 1 .. Len(operands) : key[index + 1 + j] = operands[j]
  BY KeyOfFacts, WordFacts DEF index
<1> HIDE DEF words, key
<1>6. words[1] = opcode /\ words[index + 1] = id
  BY <1>2, <1>3, <1>4
<1>7. index + 1 \in 1 .. Len(words) /\ 0 \in Word
  BY <1>2, <1>3, <1>4, WordFacts
<1>8. /\ zeroed \in Seq(Word) /\ Len(zeroed) = Len(words)
      /\ \A j \in 1 .. Len(words) :
           zeroed[j] = IF j = index + 1 THEN 0 ELSE words[j]
  BY <1>4, <1>7, ExceptSeq DEF WithoutId
<1> HIDE DEF zeroed
<1>9. \A j \in 1 .. Len(zeroed) : zeroed[j] = key[j]
  <2> TAKE j \in 1 .. Len(zeroed)
  <2>1. zeroed[j] = IF j = index + 1 THEN 0 ELSE words[j]
    BY <1>8
  <2>2. CASE j > index + 1
    <3>1. /\ j - (index + 1) \in 1 .. Len(operands)
          /\ index + 1 + (j - (index + 1)) = j
      BY <2>2, <1>2, <1>3, <1>4, <1>8
    <3>2. key[j] = operands[j - (index + 1)]
      BY <3>1, <1>5
    <3>3. words[j] = operands[j - (index + 1)]
      BY <2>2, <1>2, <1>3, <1>4, <1>8
    <3> QED
      BY <2>1, <2>2, <3>2, <3>3, <1>2
  <2>3. CASE j = index + 1
    BY <2>1, <2>3, <1>5
  <2>4. CASE j < index + 1
    <3>1. j = 1 \/ (j = 2 /\ index = 2)
      BY <2>4, <1>2, <1>3, <1>4, <1>8
    <3>2. words[j] = key[j]
      BY <3>1, <1>2, <1>3, <1>4, <1>5
    <3> QED
      BY <2>1, <2>4, <3>2, <1>2
  <2> QED
    BY <2>2, <2>3, <2>4, <1>2, <1>3, <1>4, <1>8
<1>10. Len(zeroed) = Len(key)
  BY <1>2, <1>4, <1>5, <1>8
<1>11. zeroed = key
  BY <1>5, <1>8, <1>9, <1>10, SeqEqual
<1> QED
  BY <1>2, <1>4, <1>6, <1>11 DEF words, index, zeroed, key

\* Reserve, OpId and the operands add the instruction's words after what the
\* stream had, and keep every word that both it and the vector owned.
LEMMA OpenedFacts ==
  ASSUME stream \in StreamState, stream.size =< Cap,
         bound \in 0 .. MaxId, bound < MaxId,
         NEW method \in Api, NEW reserved \in Nat, NEW result_type \in Word,
         NEW operands \in Seq(Word),
         HasRoom(stream, reserved, IdIndex(result_type) + 1 + Len(operands))
  PROVE  LET opened == Opened(method, reserved, result_type, operands)
             words == Instruction(Opcode[method], result_type, operands, bound + 1)
             start == stream.insert_index
         IN  /\ opened \in StreamState
             /\ opened.op_index = start
             /\ opened.insert_index = start + Len(words)
             /\ opened.insert_index =< Cap /\ opened.size =< Cap
             /\ start + reserved =< opened.size /\ stream.size =< opened.size
             /\ \A i \in Cells : i < start /\ i < stream.size =>
                                  opened.words[i] = stream.words[i]
             /\ \A j \in 1 .. Len(words) :
                  start + j - 1 \in Cells /\ opened.words[start + j - 1] = words[j]
             /\ Pending(opened) = words
<1> DEFINE opcode == Opcode[method]
           id == bound + 1
           head == IF result_type # 0 THEN <<opcode, result_type, id>>
                                      ELSE <<opcode, id>>
           words == Instruction(opcode, result_type, operands, id)
           start == stream.insert_index
           r == Reserve(stream, reserved)
           b == BeginOp(r, head)
           opened == Opened(method, reserved, result_type, operands)
<1>1. opcode \in Word /\ id \in Word
  BY OpcodeWord, DeclarationsAssumption, StreamAssumption DEF Word
<1>2. /\ head \in Seq(Word) /\ Len(head) = IdIndex(result_type) + 1
      /\ IdIndex(result_type) \in 1 .. 2
  BY <1>1 DEF IdIndex
<1>3. words = head \o operands
  BY DEF Instruction
<1>4. opened = Put(b, operands)
  BY DEF Opened, OpId
<1> HIDE DEF head, words, opened
<1>5. Len(operands) \in Nat
  BY LenProperties
<1>6. /\ words \in Seq(Word) /\ Len(words) = Len(head) + Len(operands)
      /\ \A j \in 1 .. Len(head) + Len(operands) :
           words[j] = IF j <= Len(head) THEN head[j] ELSE operands[j - Len(head)]
  BY <1>2, <1>3, ConcatProperties
<1>7. /\ start \in Nat /\ start + reserved =< Cap /\ Cap \in Nat
      /\ stream.size \in Nat
      /\ start + Len(words) =< Cap
  BY <1>2, <1>5, <1>6, StreamAssumption DEF HasRoom, StreamState
<1>8. /\ r \in StreamState /\ r.insert_index = start
      /\ r.size \in Nat /\ r.size >= stream.size /\ r.size =< Cap
      /\ start + reserved =< r.size
      /\ \A i \in Cells : i < stream.size => r.words[i] = stream.words[i]
  BY <1>7, ReserveFacts DEF StreamState
<1> HIDE DEF r
<1>9. /\ b \in StreamState /\ b.insert_index = start + Len(head)
      /\ b.op_index = start /\ b.size = r.size
      /\ \A i \in Cells : i < start => b.words[i] = r.words[i]
      /\ \A j \in 1 .. Len(head) :
           start + j - 1 \in Cells => b.words[start + j - 1] = head[j]
  <2>1. /\ b \in StreamState /\ b.insert_index = r.insert_index + Len(head)
        /\ b.op_index = r.insert_index /\ b.size = r.size
        /\ \A i \in Cells : i < r.insert_index => b.words[i] = r.words[i]
        /\ \A j \in 1 .. Len(head) :
             r.insert_index + j - 1 \in Cells =>
               b.words[r.insert_index + j - 1] = head[j]
    BY <1>2, <1>8, BeginOpFacts
  <2> HIDE DEF b, start
  <2> QED
    BY <2>1, <1>8
<1> HIDE DEF b, start
<1>10. /\ opened \in StreamState
       /\ opened.insert_index = b.insert_index + Len(operands)
       /\ opened.op_index = start /\ opened.size = r.size
       /\ \A i \in Cells : i < b.insert_index => opened.words[i] = b.words[i]
       /\ \A j \in 1 .. Len(operands) :
            b.insert_index + j - 1 \in Cells =>
              opened.words[b.insert_index + j - 1] = operands[j]
  BY <1>4, <1>9, PutFacts
<1>11. opened.insert_index = start + Len(words)
  BY <1>2, <1>5, <1>6, <1>7, <1>9, <1>10
<1>12. \A i \in Cells : i < start /\ i < stream.size =>
                          opened.words[i] = stream.words[i]
  <2> SUFFICES ASSUME NEW i \in Cells, i < start, i < stream.size
               PROVE  opened.words[i] = stream.words[i]
    OBVIOUS
  <2>1. i < b.insert_index
    BY <1>2, <1>7, <1>9 DEF Cells
  <2> QED
    BY <2>1, <1>8, <1>9, <1>10
<1>13. \A j \in 1 .. Len(words) : start + j - 1 \in Cells
  <2>1. Len(words) \in Nat
    BY <1>6, LenProperties
  <2> TAKE j \in 1 .. Len(words)
  <2>2. j \in Nat /\ 1 =< j /\ j =< Len(words)
    BY <2>1
  <2>3. start \in Nat /\ Cap \in Nat /\ start + Len(words) =< Cap
    BY <1>7
  <2> QED
    BY <2>1, <2>2, <2>3 DEF Cells
<1>14. \A j \in 1 .. Len(words) : opened.words[start + j - 1] = words[j]
  <2> TAKE j \in 1 .. Len(words)
  <2>1. /\ start + j - 1 \in Cells /\ j \in Nat
        /\ words[j] = IF j <= Len(head) THEN head[j] ELSE operands[j - Len(head)]
    BY <1>2, <1>5, <1>6, <1>13
  <2>2. CASE j <= Len(head)
    <3>1. start + j - 1 < b.insert_index /\ j \in 1 .. Len(head)
      BY <2>1, <2>2, <1>2, <1>7, <1>9
    <3> QED
      BY <3>1, <2>1, <2>2, <1>9, <1>10
  <2>3. CASE j > Len(head)
    <3> DEFINE k == j - Len(head)
    <3>0. /\ Len(head) \in Nat /\ start \in Nat /\ Len(operands) \in Nat
          /\ j \in 1 .. Len(head) + Len(operands)
          /\ b.insert_index = start + Len(head)
      BY <1>2, <1>5, <1>6, <1>7, <1>9
    <3>1. k \in 1 .. Len(operands) /\ b.insert_index + k - 1 = start + j - 1
      BY <3>0, <2>3
    <3>2. ~(j <= Len(head))
      BY <2>1, <2>3, <1>2
    <3> HIDE DEF k
    <3>3. opened.words[start + j - 1] = operands[k]
      BY <3>1, <2>1, <1>10
    <3> QED
      BY <3>2, <3>3, <2>1 DEF k
  <2> QED
    BY <2>1, <2>2, <2>3, <1>2
<1>15. Pending(opened) = words
  <2>1. Len(words) \in Nat /\ opened.insert_index - opened.op_index = Len(words)
    BY <1>2, <1>5, <1>6, <1>7, <1>10, <1>11
  <2>2. Pending(opened) = [j \in 1 .. Len(words) |-> opened.words[start + j - 1]]
    BY <2>1, <1>10 DEF Pending
  <2>3. words \in [1 .. Len(words) -> Word]
    BY <1>6, LenProperties
  <2> QED
    BY <2>2, <2>3, <1>14
<1> QED
  BY <1>7, <1>8, <1>10, <1>11, <1>12, <1>13, <1>14, <1>15 DEF words, start, opened

-----------------------------------------------------------------------------
(* What a call does as a whole.                                            *)

Declared(key, start, words) ==
  /\ key \notin DOMAIN existing_declarations
  /\ existing_declarations' =
       [k \in DOMAIN existing_declarations \cup {key} |->
          IF k = key THEN bound + 1 ELSE existing_declarations[k]]
  /\ stream'.insert_index = start + Len(words)
  /\ \A j \in 1 .. Len(words) :
       /\ start + j - 1 \in Cells
       /\ stream'.words[start + j - 1] =
            IF j = 1 THEN WithCount(words[1], Len(words)) ELSE words[j]
  /\ bound' = bound + 1
  /\ result' = bound + 1

Found(key, start) ==
  /\ key \in DOMAIN existing_declarations
  /\ stream'.insert_index = start
  /\ bound' = bound
  /\ result' = existing_declarations[key]
  /\ UNCHANGED existing_declarations

\* A call either adds its words and one table entry, or only room.
LEMMA DeclareFacts ==
  ASSUME stream \in StreamState, stream.size =< Cap,
         bound \in 0 .. MaxId,
         NEW method \in Api, NEW reserved \in Nat, NEW result_type \in Word,
         NEW operands \in Seq(Word),
         Declare(method, reserved, result_type, operands)
  PROVE  LET words == Instruction(Opcode[method], result_type, operands, bound + 1)
             start == stream.insert_index
             key == KeyOf(call')
         IN  /\ call' = Request(Opcode[method], result_type, operands)
             /\ id_index' = IdIndex(result_type)
             /\ stream' \in StreamState
             /\ stream'.size =< Cap /\ stream'.insert_index =< Cap
             /\ start + reserved =< stream'.size /\ stream.size =< stream'.size
             /\ \A i \in Cells : i < start /\ i < stream.size =>
                                  stream'.words[i] = stream.words[i]
             /\ Declared(key, start, words) \/ Found(key, start)
<1> DEFINE opened == Opened(method, reserved, result_type, operands)
           words == Instruction(Opcode[method], result_type, operands, bound + 1)
           start == stream.insert_index
           index == IdIndex(result_type)
           key == KeyOf(call')
<1>1. /\ HasRoom(stream, reserved, IdIndex(result_type) + 1 + Len(operands))
      /\ bound < MaxId
      /\ id_index' = index
      /\ call' = Request(Opcode[method], result_type, operands)
      /\ Insert(opened, index) \/ Undo(opened, index)
  BY DEF Declare
<1>2. /\ opened \in StreamState
      /\ opened.op_index = start
      /\ opened.insert_index = start + Len(words)
      /\ opened.insert_index =< Cap /\ opened.size =< Cap
      /\ start + reserved =< opened.size /\ stream.size =< opened.size
      /\ \A i \in Cells : i < start /\ i < stream.size =>
                           opened.words[i] = stream.words[i]
      /\ \A j \in 1 .. Len(words) :
           start + j - 1 \in Cells /\ opened.words[start + j - 1] = words[j]
      /\ Pending(opened) = words
  BY <1>1, OpenedFacts
<1>3. bound + 1 \in Word /\ Opcode[method] \in Word /\ Opcode[method] < Half
  BY <1>1, OpcodeWord, DeclarationsAssumption, StreamAssumption DEF Word
<1>4. /\ words \in Seq(Word) /\ Len(words) = index + 1 + Len(operands)
      /\ words[1] = Opcode[method]
      /\ words[index + 1] = bound + 1
      /\ WithoutId(words, index) = key
  <2> DEFINE opcode == Opcode[method]
             id == bound + 1
  <2>1. words = Instruction(opcode, result_type, operands, id)
    OBVIOUS
  <2>2. opcode \in Word /\ id \in Word
    BY <1>3
  <2>3. key = KeyOf(Request(opcode, result_type, operands))
    BY <1>1
  <2> HIDE DEF words, key, opcode, id
  <2> DEFINE w == Instruction(opcode, result_type, operands, id)
  <2>4. /\ w \in Seq(Word) /\ Len(w) = index + 1 + Len(operands)
        /\ w[1] = opcode
        /\ w[index + 1] = id
        /\ WithoutId(w, index) = KeyOf(Request(opcode, result_type, operands))
    BY <2>2, InstructionFacts
  <2> HIDE DEF w, index
  <2>5. w = words
    BY <2>1 DEF w
  <2> QED
    BY <2>3, <2>4, <2>5 DEF opcode, id
<1>5. start \in Nat /\ Len(words) \in Nat /\ Len(words) >= 2 /\ bound \in Nat
  BY <1>4, IdIndexFacts, LenProperties DEF StreamState
<1>6. Key(opened, index) = key
  BY <1>2, <1>4 DEF Key
<1> HIDE DEF opened, words, start, index, key
<1>7. CASE Insert(opened, index)
  <2>1. /\ key \notin DOMAIN existing_declarations
        /\ existing_declarations' =
             [k \in DOMAIN existing_declarations \cup {key} |->
                IF k = key THEN bound + 1 ELSE existing_declarations[k]]
        /\ stream' = EndOp(opened)
        /\ bound' = bound + 1
        /\ result' = bound + 1
    BY <1>2, <1>4, <1>6, <1>7 DEF Insert
  <2>2. start \in Cells /\ opened.words[start] = words[1]
    <3>1. 1 \in 1 .. Len(words) /\ start + 1 - 1 = start
      BY <1>5
    <3> QED
      BY <3>1, <1>2
  <2>3. /\ stream' \in StreamState
        /\ stream'.insert_index = opened.insert_index
        /\ stream'.size = opened.size
        /\ stream'.words[start] =
             WithCount(words[1], opened.insert_index - start)
        /\ \A i \in Cells : i # start => stream'.words[i] = opened.words[i]
    <3>1. start =< opened.insert_index
      BY <1>2, <1>5
    <3> QED
      BY <2>1, <2>2, <3>1, <1>2, <1>3, <1>4, EndOpFacts
  <2>4. opened.insert_index - start = Len(words)
    BY <1>2, <1>5
  <2>5. \A j \in 1 .. Len(words) :
          /\ start + j - 1 \in Cells
          /\ stream'.words[start + j - 1] =
               IF j = 1 THEN WithCount(words[1], Len(words)) ELSE words[j]
    <3> TAKE j \in 1 .. Len(words)
    <3>1. start + j - 1 \in Cells /\ opened.words[start + j - 1] = words[j]
      BY <1>2
    <3>2. j \in Nat /\ (start + j - 1 = start <=> j = 1)
      BY <1>5
    <3> QED
      BY <2>3, <2>4, <3>1, <3>2
  <2>6. Declared(key, start, words)
    BY <2>1, <2>3, <2>5, <1>2 DEF Declared
  <2>7. \A i \in Cells : i < start /\ i < stream.size =>
                         stream'.words[i] = stream.words[i]
    BY <2>3, <1>2, <1>5 DEF Cells
  <2> QED
    BY <2>3, <2>6, <2>7, <1>1, <1>2 DEF words, start, index, key
<1>8. CASE Undo(opened, index)
  <2>1. /\ key \in DOMAIN existing_declarations
        /\ stream' = [opened EXCEPT !.insert_index = start]
        /\ bound' = bound
        /\ result' = existing_declarations[key]
        /\ UNCHANGED existing_declarations
    BY <1>2, <1>5, <1>6, <1>8 DEF Undo
  <2>2. /\ stream' \in StreamState /\ stream'.insert_index = start
        /\ stream'.size = opened.size /\ stream'.words = opened.words
    BY <2>1, <1>2, <1>5 DEF StreamState
  <2>3. Found(key, start)
    BY <2>1, <2>2 DEF Found
  <2>4. start =< Cap
    BY <1>2, <1>5, StreamAssumption
  <2> QED
    BY <2>2, <2>3, <2>4, <1>1, <1>2 DEF words, start, index, key
<1> QED
  BY <1>1, <1>7, <1>8

-----------------------------------------------------------------------------
(* What the methods pass to Declare.                                       *)

\* The methods that pass a result type to OpId.
ConstantMethods ==
  {"ConstantTrue", "ConstantFalse", "Constant", "ConstantComposite",
   "ConstantSampler", "ConstantNull"}

\* The caller's spans and names are short enough for the word count of an
\* instruction, which has the upper half of a word.
ShortOperands ==
  /\ MaxSpan + 3 < Half
  /\ \A name \in Names : Len(name) + 2 < Half

\* Some method was called with the words it may be given: a constant's has a
\* result type, a type's has none, and it reserved room for what it writes
\* unless it is TypePipe.
SomeMethod ==
  \E method \in Api, reserved \in Nat, result_type \in Word, operands \in Seq(Word) :
    /\ Declare(method, reserved, result_type, operands)
    /\ method # "TypePipe" =>
         IdIndex(result_type) + 1 + Len(operands) =< reserved
    /\ result_type # 0 <=> method \in ConstantMethods
    /\ ShortOperands => IdIndex(result_type) + 1 + Len(operands) < Half

\* TypePipe may be given a reservation of any size.
LEMMA OneMethod ==
  ASSUME NEW method, NEW reserved \in Nat, NEW result_type \in Word,
         NEW operands \in Seq(Word),
         Declare(method, reserved, result_type, operands),
         \/ method = "TypePipe"
         \/ IdIndex(result_type) + 1 + Len(operands) =< reserved,
         result_type # 0 <=> method \in ConstantMethods,
         ShortOperands => IdIndex(result_type) + 1 + Len(operands) < Half
  PROVE  SomeMethod
<1>1. method \in Api
  BY DEF Declare
<1> QED
  BY <1>1 DEF SomeMethod

\* Half is at least 47, which the fixed instructions stay below.
LEMMA HalfFact == Half \in Nat /\ Half > 46
  BY StreamAssumption, DeclarationsAssumption

\* A span of at most n elements is a sequence of that length over a larger set.
LEMMA BoundedSeqFacts ==
  ASSUME NEW S, NEW T, S \subseteq T, NEW n \in Nat, NEW s \in BoundedSeq(S, n)
  PROVE  s \in Seq(T) /\ Len(s) \in Nat /\ Len(s) =< n
<1>1. PICK m \in 0 .. n : s \in [1 .. m -> S]
  BY DEF BoundedSeq, SeqOf
<1>2. s \in [1 .. m -> T]
  BY <1>1
<1> QED
  BY <1>1, <1>2

\* A type with no operand fits its reservation of two words.
LEMMA BareType ==
  ASSUME NEW method, method \notin ConstantMethods, Declare(method, 2, 0, <<>>)
  PROVE  SomeMethod
<1>1. <<>> \in Seq(Word) /\ 2 \in Nat
  OBVIOUS
<1>2. /\ IdIndex(0) + 1 + Len(<<>>) =< 2
      /\ IdIndex(0) + 1 + Len(<<>>) < Half
  BY HalfFact DEF IdIndex
<1> QED
  BY <1>1, <1>2, WordFacts, OneMethod

\* So does a constant with a result type and no operand, with three.
LEMMA BareConstant ==
  ASSUME NEW method, method \in ConstantMethods, NEW result_type \in Word \ {0},
         Declare(method, 3, result_type, <<>>)
  PROVE  SomeMethod
<1>1. <<>> \in Seq(Word) /\ 3 \in Nat
  OBVIOUS
<1>2. /\ IdIndex(result_type) + 1 + Len(<<>>) =< 3
      /\ IdIndex(result_type) + 1 + Len(<<>>) < Half
  BY HalfFact DEF IdIndex
<1> QED
  BY <1>1, <1>2, OneMethod

\* A type with one operand that reserves three words.
LEMMA UnaryType ==
  ASSUME NEW method, method \notin ConstantMethods, NEW a \in Word,
         Declare(method, 3, 0, <<a>>)
  PROVE  SomeMethod
<1>1. <<a>> \in Seq(Word) /\ 3 \in Nat
  OBVIOUS
<1>2. /\ IdIndex(0) + 1 + Len(<<a>>) =< 3
      /\ IdIndex(0) + 1 + Len(<<a>>) < Half
  BY HalfFact DEF IdIndex
<1> QED
  BY <1>1, <1>2, WordFacts, OneMethod

\* A type with two operands that reserves four words.
LEMMA BinaryType ==
  ASSUME NEW method, method \notin ConstantMethods, NEW a \in Word, NEW b \in Word,
         Declare(method, 4, 0, <<a, b>>)
  PROVE  SomeMethod
<1>1. <<a, b>> \in Seq(Word) /\ 4 \in Nat
  OBVIOUS
<1>2. /\ IdIndex(0) + 1 + Len(<<a, b>>) =< 4
      /\ IdIndex(0) + 1 + Len(<<a, b>>) < Half
  BY HalfFact DEF IdIndex
<1> QED
  BY <1>1, <1>2, WordFacts, OneMethod

\* What every method passes.
LEMMA MethodCases ==
  ASSUME bound \in 0 .. MaxId, Method
  PROVE  SomeMethod
<1>1. /\ Word \subseteq Nat /\ 0 \in Word /\ Bits \subseteq Word
      /\ Ids \subseteq Word \ {0}
      /\ Scalars \subseteq Word /\ MaxSpan \in Nat
  <2>1. Half \in Nat /\ Half > 46 /\ MaxId \in Word
    BY StreamAssumption, DeclarationsAssumption
  <2>2. Half =< Half * Half
    BY <2>1
  <2> QED
    BY <2>1, <2>2, DeclarationsAssumption DEF Word, Bits, Ids
<1>2. IdIndex(0) = 1 /\ \A id \in Ids : IdIndex(id) = 2
  BY <1>1 DEF IdIndex
<1>3. Ids \subseteq Word
  BY <1>1
<1>4. ASSUME NEW s \in Spans
      PROVE  s \in Seq(Word) /\ Len(s) \in Nat /\ Len(s) =< MaxSpan
  <2>1. s \in BoundedSeq(Ids, MaxSpan)
    BY DEF Spans
  <2> QED
    BY <2>1, <1>1, <1>3, BoundedSeqFacts
<1>10. CASE TypeVoid
  BY <1>10, BareType DEF TypeVoid, ConstantMethods
<1>11. CASE TypeBool
  BY <1>11, BareType DEF TypeBool, ConstantMethods
<1>12. CASE TypeInt
  BY <1>1, <1>12, BinaryType DEF TypeInt, ConstantMethods
<1>13. CASE TypeFloat
  BY <1>1, <1>13, UnaryType DEF TypeFloat, ConstantMethods
<1>14. CASE TypeVector
  BY <1>1, <1>14, BinaryType DEF TypeVector, ConstantMethods
<1>15. CASE TypeMatrix
  BY <1>1, <1>15, BinaryType DEF TypeMatrix, ConstantMethods
<1>16. CASE TypeImage
  <2>1. PICK sampled_type \in Ids, dim \in Scalars, depth \in Scalars,
             sampled \in Scalars, format \in Scalars, arrayed \in Bits,
             ms \in Bits, access_qualifier \in Optional(Scalars) :
          Declare("TypeImage", 10, 0,
                  <<sampled_type, dim, depth, arrayed, ms, sampled, format>>
                    \o access_qualifier)
    BY <1>16 DEF TypeImage
  <2> DEFINE head == <<sampled_type, dim, depth, arrayed, ms, sampled, format>>
             operands == head \o access_qualifier
  <2>2. head \in Seq(Word) /\ Len(head) = 7
    BY <1>1
  <2>3. /\ access_qualifier \in Seq(Word)
        /\ Len(access_qualifier) \in Nat /\ Len(access_qualifier) =< 1
    BY <1>1, BoundedSeqFacts DEF Optional
  <2> HIDE DEF head
  <2>4. /\ operands \in Seq(Word)
        /\ Len(operands) = Len(head) + Len(access_qualifier)
    BY <2>2, <2>3, ConcatProperties
  <2> HIDE DEF operands
  <2>5. IdIndex(0) + 1 + Len(operands) =< 10 /\ IdIndex(0) + 1 + Len(operands) < Half
    BY <2>2, <2>3, <2>4, <1>2, HalfFact
  <2>6. Declare("TypeImage", 10, 0, operands) /\ 10 \in Nat
    BY <2>1 DEF head, operands
  <2> QED
    BY <2>4, <2>5, <2>6, <1>1, OneMethod DEF ConstantMethods
<1>17. CASE TypeSampler
  BY <1>17, BareType DEF TypeSampler, ConstantMethods
<1>18. CASE TypeSampledImage
  BY <1>1, <1>18, UnaryType DEF TypeSampledImage, ConstantMethods
<1>19. CASE TypeArray
  BY <1>1, <1>19, BinaryType DEF TypeArray, ConstantMethods
<1>20. CASE TypeRuntimeArray
  BY <1>1, <1>20, UnaryType DEF TypeRuntimeArray, ConstantMethods
<1>21. CASE TypeStruct
  <2>1. PICK members \in Spans :
          Declare("TypeStruct", 2 + Len(members), 0, members)
    BY <1>21 DEF TypeStruct
  <2>2. /\ 2 + Len(members) \in Nat
        /\ IdIndex(0) + 1 + Len(members) =< 2 + Len(members)
        /\ ShortOperands => IdIndex(0) + 1 + Len(members) < Half
    BY <1>1, <1>2, <1>4, HalfFact DEF ShortOperands
  <2> QED
    BY <2>1, <2>2, <1>1, <1>4, OneMethod DEF ConstantMethods
<1>22. CASE TypeOpaque
  <2>1. PICK name \in Names : Declare("TypeOpaque", 3 + Len(name), 0, name)
    BY <1>22 DEF TypeOpaque
  <2>2. name \in Seq(Word) /\ Len(name) \in Nat
    BY DeclarationsAssumption, LenProperties
  <2>3. /\ 3 + Len(name) \in Nat
        /\ IdIndex(0) + 1 + Len(name) =< 3 + Len(name)
        /\ ShortOperands => IdIndex(0) + 1 + Len(name) < Half
    BY <1>2, <2>2, HalfFact DEF ShortOperands
  <2> QED
    BY <2>1, <2>2, <2>3, <1>1, OneMethod DEF ConstantMethods
<1>23. CASE TypePointer
  BY <1>1, <1>23, BinaryType DEF TypePointer, ConstantMethods
<1>24. CASE TypeFunction
  <2>1. PICK return_type \in Ids, arguments \in Spans :
          Declare("TypeFunction", 3 + Len(arguments), 0,
                  <<return_type>> \o arguments)
    BY <1>24 DEF TypeFunction
  <2> DEFINE operands == <<return_type>> \o arguments
  <2>2. <<return_type>> \in Seq(Word) /\ Len(<<return_type>>) = 1
    BY <1>3
  <2>3. /\ operands \in Seq(Word)
        /\ Len(operands) = 1 + Len(arguments)
        /\ Len(arguments) \in Nat
    BY <1>4, <2>2, ConcatProperties
  <2> HIDE DEF operands
  <2>4. /\ 3 + Len(arguments) \in Nat
        /\ IdIndex(0) + 1 + Len(operands) =< 3 + Len(arguments)
        /\ ShortOperands => IdIndex(0) + 1 + Len(operands) < Half
    BY <1>1, <1>2, <1>4, <2>3, HalfFact DEF ShortOperands
  <2>5. Declare("TypeFunction", 3 + Len(arguments), 0, operands)
    BY <2>1 DEF operands
  <2> QED
    BY <2>3, <2>4, <2>5, <1>1, OneMethod DEF ConstantMethods
<1>25. CASE TypeEvent
  BY <1>25, BareType DEF TypeEvent, ConstantMethods
<1>26. CASE TypeDeviceEvent
  BY <1>26, BareType DEF TypeDeviceEvent, ConstantMethods
<1>27. CASE TypeReserveId
  BY <1>27, BareType DEF TypeReserveId, ConstantMethods
<1>28. CASE TypeQueue
  BY <1>28, BareType DEF TypeQueue, ConstantMethods
<1>29. CASE TypePipe
  <2>1. PICK access_qualifier \in Scalars :
          Declare("TypePipe", 2, 0, <<access_qualifier>>)
    BY <1>29 DEF TypePipe
  <2>2. <<access_qualifier>> \in Seq(Word) /\ 2 \in Nat
    BY <1>1
  <2>3. IdIndex(0) + 1 + Len(<<access_qualifier>>) < Half
    BY <1>2, HalfFact
  <2> QED
    BY <2>1, <2>2, <2>3, <1>1, OneMethod DEF ConstantMethods
<1>30. CASE ConstantTrue
  BY <1>1, <1>30, BareConstant DEF ConstantTrue, ConstantMethods
<1>31. CASE ConstantFalse
  BY <1>1, <1>31, BareConstant DEF ConstantFalse, ConstantMethods
<1>32. CASE Constant
  <2>1. PICK result_type \in Ids, literal \in Literals :
          Declare("Constant", 3 + 2, result_type, literal)
    BY <1>32 DEF Constant
  <2>2. PICK m \in 1 .. 2 : literal \in [1 .. m -> Word]
    BY DeclarationsAssumption
  <2>3. literal \in Seq(Word) /\ Len(literal) = m
    BY <2>2
  <2>4. IdIndex(result_type) + 1 + m =< 3 + 2 /\ IdIndex(result_type) + 1 + m < Half
    BY <1>2, HalfFact
  <2> QED
    BY <2>1, <2>3, <2>4, <1>1, OneMethod DEF ConstantMethods
<1>33. CASE ConstantComposite
  <2>1. PICK result_type \in Ids, constituents \in Spans :
          Declare("ConstantComposite", 3 + Len(constituents), result_type,
                  constituents)
    BY <1>33 DEF ConstantComposite
  <2>2. /\ 3 + Len(constituents) \in Nat
        /\ IdIndex(result_type) + 1 + Len(constituents) =< 3 + Len(constituents)
        /\ ShortOperands => IdIndex(result_type) + 1 + Len(constituents) < Half
    BY <1>1, <1>2, <1>4, HalfFact DEF ShortOperands
  <2> QED
    BY <2>1, <2>2, <1>1, <1>4, OneMethod DEF ConstantMethods
<1>34. CASE ConstantSampler
  <2>1. PICK result_type \in Ids, addressing_mode \in Scalars,
             filter_mode \in Scalars, normalized \in Bits :
          Declare("ConstantSampler", 6, result_type,
                  <<addressing_mode, normalized, filter_mode>>)
    BY <1>34 DEF ConstantSampler
  <2> DEFINE operands == <<addressing_mode, normalized, filter_mode>>
  <2>2. operands \in Seq(Word) /\ Len(operands) = 3
    BY <1>1
  <2>3. /\ 6 \in Nat /\ IdIndex(result_type) + 1 + Len(operands) =< 6
        /\ IdIndex(result_type) + 1 + Len(operands) < Half
    BY <1>2, <2>2, HalfFact
  <2> QED
    BY <2>1, <2>2, <2>3, <1>1, OneMethod DEF ConstantMethods
<1>35. CASE ConstantNull
  BY <1>1, <1>35, BareConstant DEF ConstantNull, ConstantMethods
<1> QED
  BY <1>10, <1>11, <1>12, <1>13, <1>14, <1>15, <1>16, <1>17, <1>18, <1>19,
     <1>20, <1>21, <1>22, <1>23, <1>24, <1>25, <1>26, <1>27, <1>28, <1>29,
     <1>30, <1>31, <1>32, <1>33, <1>34, <1>35 DEF Method

\* Every step is one call of a method, another stream's id, or a clobber of
\* memory that is not the vector's.
LEMMA NextCases ==
  ASSUME bound \in 0 .. MaxId, Next
  PROVE  SomeMethod \/ AllocateElsewhere \/ Clobber
BY MethodCases DEF Next

-----------------------------------------------------------------------------
(* The instructions that the keys of the table stand for.                  *)

\* A key a reader can tell the id's place of, and that is not too long for the
\* count of an instruction.
WellFormed(key) ==
  /\ key \in Seq(Word) /\ Len(key) \in 2 .. Half - 1
  /\ key[1] \in {Opcode[method] : method \in DOMAIN Opcode}
  /\ key[2] = 0 <=> key[1] < 40
  /\ key[2] # 0 => Len(key) >= 3

\* The place of the id in an instruction of the section.
IdPlace(instruction) == IF OpcodeOf(instruction[1]) < 40 THEN 2 ELSE 3

\* The opcodes of the constants come after those of the types.
LEMMA OpcodeTyped ==
  ASSUME NEW method \in DOMAIN Opcode
  PROVE  /\ Opcode[method] \in 1 .. 46
         /\ method \in ConstantMethods <=> ~(Opcode[method] < 40)
<1>1. \A m \in DOMAIN Opcode :
        Opcode[m] \in 1 .. 46 /\ (m \in ConstantMethods <=> ~(Opcode[m] < 40))
  BY DEF Opcode, ConstantMethods
<1> QED
  BY <1>1

\* The key of a request whose method, type and operands go together.
LEMMA RequestWellFormed ==
  ASSUME NEW method \in Api, NEW result_type \in Word, NEW operands \in Seq(Word),
         result_type # 0 <=> method \in ConstantMethods,
         IdIndex(result_type) + 1 + Len(operands) < Half
  PROVE  WellFormed(KeyOf(Request(Opcode[method], result_type, operands)))
<1> DEFINE opcode == Opcode[method]
           index == IdIndex(result_type)
<1>0. PICK key : key = KeyOf(Request(opcode, result_type, operands))
  OBVIOUS
<1>1. opcode \in Word /\ 0 \in Word
  BY OpcodeWord, WordFacts
<1>2. /\ opcode \in {Opcode[m] : m \in DOMAIN Opcode}
      /\ opcode \in 1 .. 46 /\ (result_type # 0 <=> ~(opcode < 40))
  BY DeclarationsAssumption, OpcodeTyped
<1> HIDE DEF opcode
<1>3. /\ key \in Seq(Word)
      /\ Len(key) = index + 1 + Len(operands)
      /\ key[1] = opcode
      /\ index = 2 => key[2] = result_type
      /\ key[index + 1] = 0
  <2>1. LET k == KeyOf(Request(opcode, result_type, operands))
        IN  /\ k \in Seq(Word)
            /\ Len(k) = index + 1 + Len(operands)
            /\ k[1] = opcode
            /\ index = 2 => k[2] = result_type
            /\ k[index + 1] = 0
    BY <1>1, KeyOfFacts
  <2> QED
    BY <1>0, <2>1
<1>4. /\ index \in 1 .. 2 /\ (index = 1 <=> result_type = 0) /\ Len(operands) \in Nat
      /\ index + 1 + Len(operands) < Half /\ Half \in Nat
  BY IdIndexFacts, LenProperties, HalfFact
<1> HIDE DEF index
<1>5. Len(key) \in 2 .. Half - 1 /\ (index = 2 => Len(key) >= 3)
  BY <1>3, <1>4
<1>6. key[2] = 0 <=> result_type = 0
  BY <1>3, <1>4
<1>7. WellFormed(key)
  BY <1>2, <1>3, <1>4, <1>5, <1>6 DEF WellFormed
<1> QED
  BY <1>0, <1>7 DEF opcode

\* Such a key's instruction can be read back, and shows its id.
LEMMA InstructionOfFacts ==
  ASSUME NEW key, WellFormed(key), NEW id \in Word
  PROVE  LET ins == InstructionOf(key, id)
         IN  /\ ins \in Counted /\ Len(ins) = Len(key)
             /\ OpcodeOf(ins[1]) = key[1]
             /\ ins[IdPlace(ins)] = id
<1>0. PICK ins : ins = InstructionOf(key, id)
  OBVIOUS
<1>1. PICK n : n = Len(key)
  OBVIOUS
<1>2. /\ n \in 2 .. Half - 1 /\ key[1] \in 1 .. 46 /\ Half \in Nat /\ Half > 46
      /\ Word \subseteq Nat
  BY <1>1, HalfFact, WordFacts, OpcodeTyped DEF WellFormed
<1>3. \A j \in 1 .. n : key[j] \in Nat
  <2>1. key \in Seq(Word)
    BY DEF WellFormed
  <2>2. \A j \in 1 .. n : key[j] \in Word
    BY <1>1, <2>1, ElementOfSeq
  <2> QED
    BY <1>2, <2>2
<1>4. key[1] \in Nat /\ n \in Nat /\ key[1] < Half /\ n < Half
  BY <1>2
<1>5. PICK first : first = WithCount(key[1], n)
  OBVIOUS
<1>6. first \in Nat /\ OpcodeOf(first) = key[1] /\ CountOf(first) = n
  BY <1>4, <1>5, HalvesOf
<1>7. ins = [j \in 1 .. n |->
               IF j = 1 THEN first
               ELSE IF j = (IF key[2] = 0 THEN 2 ELSE 3) THEN id ELSE key[j]]
  BY <1>0, <1>1, <1>5 DEF InstructionOf
<1>8. id \in Nat
  BY <1>2
<1>9. ins \in Seq(Nat) /\ Len(ins) = n
  BY <1>3, <1>4, <1>6, <1>7, <1>8
<1>10. ins[1] = first
  BY <1>2, <1>7
<1>11. ins \in Counted
  BY <1>2, <1>6, <1>9, <1>10 DEF Counted
<1>12. ins[IdPlace(ins)] = id
  <2>1. IdPlace(ins) = IF key[2] = 0 THEN 2 ELSE 3
    BY <1>6, <1>10 DEF IdPlace, WellFormed
  <2>2. (IF key[2] = 0 THEN 2 ELSE 3) \in 2 .. n
    BY <1>1, <1>2 DEF WellFormed
  <2> QED
    BY <1>2, <1>7, <2>1, <2>2
<1> QED
  BY <1>0, <1>1, <1>6, <1>9, <1>10, <1>11, <1>12
=============================================================================
