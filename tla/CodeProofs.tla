----------------------------- MODULE CodeProofs -----------------------------
(***************************************************************************)
(* Theorems about Code: what a client that defers phis only after labels   *)
(* and other phis, and that uses none of the methods that are short, can   *)
(* rely on, for spans, phis and streams of any length.                     *)
(***************************************************************************)
EXTENDS Code, StreamProofs, InstructionsProofs, SequenceTheorems

FittingClient == /\ Structured
                 /\ Widths \subseteq {1}
                 /\ Api \cap ShortMethods = {}

\* No instruction of the client has more words than its count can say: the count
\* has half of the bits of a word (src/src/stream.h:110), so that an instruction
\* of 65536 words or more cannot be read back.
ShortInstructions ==
  \A shape \in AllShapes : shape.method \in Api => Written(shape) < Half

-----------------------------------------------------------------------------
(* The inductive invariant.                                                *)

\* Where the words of a phi end, and its first word.
PhiEnd(phi) == phi.at + 3 + 2 * phi.args
PhiWord(args) == WithCount(OpPhi, 3 + 2 * args)

\* Where a phi may be deferred, the vector has nothing left over.
NothingLeft == last \in {"label", "phi"} => code.size = code.insert_index

\* Each deferred phi is in the stream with its opcode and its count, and no
\* word belongs to two of them.
PhisPlaced ==
  \A k \in DOMAIN phis : /\ PhiEnd(phis[k]) =< code.insert_index
                         /\ code.words[phis[k].at] = PhiWord(phis[k].args)

PhisApart ==
  \A k, m \in DOMAIN phis : k < m => PhiEnd(phis[k]) =< phis[m].at

\* The loops of a patch are at a value of a deferred phi, or at its end.
OnPhi(frame) ==
  /\ frame.num_args = phis[frame.node].args
  /\ frame.arg =< frame.num_args
  /\ frame.cursor = ValueAt(phis[frame.node], frame.arg)

PatchOnPhi == patch.node > 0 => OnPhi(patch)

\* So are those of the suspended calls.
OuterFits(frames) ==
  /\ frames \in Seq(Frame)
  /\ \A d \in DOMAIN frames : frames[d].node > 0 /\ OnPhi(frames[d])

OuterOnPhi == OuterFits(outer) /\ (patch.node = 0 => outer = <<>>)

\* NothingLeft makes the next address right, PhisPlaced and PhisApart keep the
\* addressed words phis when values are patched, and PatchOnPhi and OuterOnPhi
\* keep the patches on the values.
CInv == /\ TypeOK /\ InBounds /\ NothingLeft
        /\ PhisAddressed /\ PhisPlaced /\ PhisApart /\ PatchOnPhi /\ OuterOnPhi
        /\ AssertHolds

\* For reading back: the words fall into instructions, and a deferred phi starts
\* where one of them does.
Cuts == \E B : Divides(B, Words(code)) /\ \A k \in DOMAIN phis : phis[k].at + 1 \in B

-----------------------------------------------------------------------------
(* Words of phis.                                                          *)

\* The constants' facts that the proofs use.
LEMMA Constants ==
  /\ Half \in Nat /\ Half > 248 /\ Cap \in Nat
  /\ MaxBlocks \in Nat /\ 3 + 2 * MaxBlocks < Half
  /\ MaxId \in Nat /\ \A i \in 0 .. MaxId : i \in Word
  /\ \A i \in 0 .. Half - 1 : i \in Word
<1>1. /\ Half \in Nat /\ Half > 248 /\ Cap \in Nat /\ MaxId \in Word
      /\ MaxBlocks \in Nat /\ 3 + 2 * MaxBlocks < Half
  BY StreamAssumption, CodeAssumption DEF OpLabelCode
<1>2. Half * Half \in Nat
  BY <1>1
<1>3. MaxId \in Nat /\ \A i \in 0 .. MaxId : i \in Word
  BY <1>1, <1>2 DEF Word
<1> QED
  BY <1>1, <1>3, WordFacts

\* A reader, and the patch, find the opcode and the number of values in the
\* first word of a phi.
LEMMA PhiWordReads ==
  ASSUME NEW n \in 0 .. MaxBlocks
  PROVE  /\ PhiWord(n) \in Word
         /\ OpcodeOf(PhiWord(n)) = OpPhi
         /\ CountOf(PhiWord(n)) = 3 + 2 * n
         /\ NumArgs(PhiWord(n)) = n
<1>1. 3 + 2 * n \in 0 .. Half - 1 /\ OpPhi \in 0 .. Half - 1 /\ Half \in Nat /\ Half > 0
  BY Constants DEF OpPhi
<1>2. (3 + 2 * n) % Half = 3 + 2 * n
  BY <1>1
<1>3. PhiWord(n) = OpPhi + Half * (3 + 2 * n)
  BY <1>2 DEF PhiWord, WithCount
<1>4. OpcodeOf(PhiWord(n)) = OpPhi /\ CountOf(PhiWord(n)) = 3 + 2 * n
  BY <1>1, <1>3, DivMod DEF OpcodeOf, CountOf
<1>5. NumArgs(PhiWord(n)) = n
  <2> DEFINE w == Half * Half
  <2>1. w \in Nat /\ w >= Half
    BY <1>1
  <2> HIDE DEF w
  <2>2. 2 * n \in 0 .. w - 1 /\ w > 0 /\ 1 \in Nat
    BY <1>1, <2>1
  <2>3. (2 * n + w * 1) % w = 2 * n
    BY <2>1, <2>2, DivMod
  <2>4. 3 + 2 * n + w - 3 = 2 * n + w * 1
    BY <2>1
  <2>5. (2 * n) \div 2 = n
    OBVIOUS
  <2> QED
    BY <1>4, <2>3, <2>4, <2>5 DEF NumArgs, w
<1> QED
  BY <1>1, <1>4, <1>5, WithCountWord DEF PhiWord

-----------------------------------------------------------------------------
(* Steps that add to the end of the stream.                                *)

\* The code stream of the next state has n words more.
Extends(n) ==
  /\ code' \in StreamState
  /\ code'.insert_index = code.insert_index + n
  /\ code'.insert_index =< code'.size
  /\ code'.size - code'.insert_index =< 2
  /\ code'.size =< Cap
  /\ \A i \in Cells : i < code.insert_index => code'.words[i] = code.words[i]

\* The numbers of a state that satisfies the invariant.
LEMMA StateFacts ==
  ASSUME CInv
  PROVE  /\ code \in StreamState
         /\ code.insert_index \in Nat /\ code.size \in Nat
         /\ code.insert_index =< code.size /\ code.size =< Cap
         /\ code.size - code.insert_index =< 2
         /\ bound \in Nat /\ bound =< MaxId /\ MaxId \in Nat
         /\ phis \in Seq([at : Nat, args : 0 .. MaxBlocks])
         /\ Len(phis) \in Nat /\ DOMAIN phis = 1 .. Len(phis)
         /\ \A k \in DOMAIN phis : /\ phis[k].at \in Nat
                                   /\ phis[k].args \in 0 .. MaxBlocks
                                   /\ phis[k].args \in Nat
<1>1. /\ code \in StreamState /\ code.size =< Cap
      /\ code.insert_index =< code.size /\ code.size - code.insert_index =< 2
      /\ bound \in 0 .. MaxId
      /\ phis \in Seq([at : Nat, args : 0 .. MaxBlocks])
  BY DEF CInv, TypeOK, InBounds
<1>2. code.insert_index \in Nat /\ code.size \in Nat
  BY <1>1 DEF StreamState
<1>3. Len(phis) \in Nat /\ DOMAIN phis = 1 .. Len(phis)
  BY <1>1, LenProperties
<1>4. \A k \in DOMAIN phis : phis[k] \in [at : Nat, args : 0 .. MaxBlocks]
  BY <1>1, <1>3, ElementOfSeq
<1>5. \A k \in DOMAIN phis : /\ phis[k].at \in Nat
                            /\ phis[k].args \in 0 .. MaxBlocks
                            /\ phis[k].args \in Nat
  BY <1>4, Constants
<1>6. bound \in Nat /\ bound =< MaxId /\ MaxId \in Nat
  BY <1>1, Constants
<1> QED
  BY <1>1, <1>2, <1>3, <1>5, <1>6

\* The values of a phi lie before its end.
LEMMA ValuesBeforeEnd ==
  ASSUME NEW phi, phi.at \in Nat, phi.args \in Nat
  PROVE  /\ PhiEnd(phi) \in Nat /\ phi.at < PhiEnd(phi)
         /\ \A arg \in Nat : arg < phi.args =>
              ValueAt(phi, arg) \in Nat /\ ValueAt(phi, arg) < PhiEnd(phi)
<1>1. \A at, args \in Nat :
        /\ at + 3 + 2 * args \in Nat /\ at < at + 3 + 2 * args
        /\ \A arg \in Nat : arg < args =>
             at + 3 + 2 * arg \in Nat /\ at + 3 + 2 * arg < at + 3 + 2 * args
  OBVIOUS
<1> QED
  BY <1>1 DEF PhiEnd, ValueAt

\* A deferred phi and its values are words of the stream.
LEMMA PhiCells ==
  ASSUME CInv, NEW k \in 1 .. Len(phis)
  PROVE  /\ phis[k].at \in Cells /\ phis[k].at < code.insert_index
         /\ \A arg \in 0 .. phis[k].args - 1 :
              /\ ValueAt(phis[k], arg) \in Cells
              /\ ValueAt(phis[k], arg) < code.insert_index
         /\ PhiEnd(phis[k]) \in Nat /\ PhiEnd(phis[k]) =< code.insert_index
<1> DEFINE at == phis[k].at
           args == phis[k].args
           end == PhiEnd(phis[k])
<1>1. /\ code.insert_index \in Nat /\ code.size \in Nat /\ Cap \in Nat
      /\ code.insert_index =< code.size /\ code.size =< Cap
  BY StateFacts, StreamAssumption
<1>2. at \in Nat /\ args \in Nat /\ end =< code.insert_index
  BY StateFacts DEF CInv, PhisPlaced
<1>3. end = at + 3 + 2 * args
  BY DEF PhiEnd
<1>4. \A arg : ValueAt(phis[k], arg) = at + 3 + 2 * arg
  BY DEF ValueAt
<1> HIDE DEF at, args, end
<1>5. at \in Cells /\ at < code.insert_index
  BY <1>1, <1>2, <1>3 DEF Cells
<1>6. ASSUME NEW arg \in 0 .. args - 1
      PROVE  /\ at + 3 + 2 * arg \in Cells
             /\ at + 3 + 2 * arg < code.insert_index
  BY <1>1, <1>2, <1>3 DEF Cells
<1>7. end \in Nat
  BY <1>2, <1>3
<1> QED
  BY <1>2, <1>4, <1>5, <1>6, <1>7 DEF at, args, end

\* A method that fits its reservation.
LEMMA InstructionExtends ==
  ASSUME CInv,
         NEW op \in 0 .. Half - 1, NEW shape,
         shape.id \in BOOLEAN, shape.typed \in BOOLEAN,
         shape.reserved \in Nat, shape.operands \in Nat, Fits(shape),
         NEW operands \in Seq(Word), Len(operands) = shape.operands,
         Instruction(op, shape, operands)
  PROVE  /\ Extends(Written(shape)) /\ Written(shape) \in Nat \ {0}
         /\ bound' \in 0 .. MaxId /\ bound =< bound'
         /\ code'.words[code.insert_index] = WithCount(op, Written(shape))
         /\ shape.reserved = Written(shape) /\ Written(shape) >= 2 =>
              code'.size = code'.insert_index
<1> DEFINE head == FirstWords(op, shape)
           n == Len(head) + Len(operands)
           reserved == shape.reserved
<1>1. /\ op \in Word /\ Operand \in Word
      /\ shape.id => bound + 1 \in Word /\ bound + 1 \in 0 .. MaxId
  <2>1. op \in Word /\ 1 \in 0 .. Half - 1 /\ \A i \in 0 .. MaxId : i \in Word
    BY Constants
  <2>2. Operand \in Word
    BY <2>1, Constants DEF Operand
  <2>3. shape.id => bound + 1 \in 0 .. MaxId
    <3>1. bound \in Nat /\ MaxId \in Nat /\ (shape.id => bound < MaxId)
      BY StateFacts DEF Instruction
    <3> QED
      BY <3>1
  <2> QED
    BY <2>1, <2>2, <2>3
<1>2. /\ head \in Seq(Word) /\ head[1] = op
      /\ Len(head) = 1 + (IF shape.typed THEN 1 ELSE 0) + (IF shape.id THEN 1 ELSE 0)
  BY <1>1 DEF FirstWords
<1>3. /\ n = Written(shape) /\ n \in Nat /\ n > 0 /\ Len(head) > 0
      /\ n =< reserved /\ reserved =< n + 2 /\ reserved \in Nat
  BY <1>2 DEF Fits, Written
<1>4. HasRoom(code, reserved, n)
  BY DEF Instruction
<1>5. code' = EndOp(Put(BeginOp(Reserve(code, reserved), head), operands))
  BY DEF Instruction
<1>6. head[1] < Half
  BY <1>2, Constants
<1> HIDE DEF head
<1>7. Appended(code, reserved, head[1], n, code')
  <2>1. /\ code \in StreamState /\ code.insert_index =< code.size
        /\ code.size =< Cap
    BY StateFacts
  <2>2. Appended(code, reserved, head[1], n,
                 EndOp(Put(BeginOp(Reserve(code, reserved), head), operands)))
    BY <2>1, <1>2, <1>3, <1>4, <1>6, EmitFacts
  <2> QED
    BY <2>2, <1>5
<1>8. /\ code' \in StreamState
      /\ code'.insert_index = code.insert_index + n
      /\ code'.size = (IF code.insert_index + reserved =< code.size THEN code.size
                       ELSE code.insert_index + reserved)
      /\ code'.insert_index =< code'.size /\ code'.size =< Cap
      /\ \A i \in Cells : i < code.insert_index => code'.words[i] = code.words[i]
      /\ code'.words[code.insert_index] = WithCount(op, n)
  BY <1>2, <1>7 DEF Appended
<1> HIDE DEF n, reserved
<1>9. code'.size - code'.insert_index =< 2
  <2>1. /\ code.insert_index \in Nat /\ code.size \in Nat
        /\ code.size - code.insert_index =< 2
    BY StateFacts
  <2> QED
    BY <2>1, <1>3, <1>8
<1>10. reserved = n /\ n >= 2 => code'.size = code'.insert_index
  <2>1. /\ code.insert_index \in Nat /\ code.size \in Nat
        /\ code.size - code.insert_index =< 2
    BY StateFacts
  <2> QED
    BY <2>1, <1>3, <1>8
<1>11. bound' \in 0 .. MaxId /\ bound =< bound'
  BY <1>1, StateFacts DEF Instruction
<1> QED
  BY <1>3, <1>8, <1>9, <1>10, <1>11 DEF Extends, reserved

\* AddLabel writes as many words as an instruction with an operand.
LEMMA AddLabelExtends ==
  ASSUME CInv, AddLabel
  PROVE  /\ Extends(2) /\ code'.size = code'.insert_index
         /\ code'.words[code.insert_index] = WithCount(OpLabelCode, 2)
<1>1. PICK label \in 1 .. bound :
        code' = Put(Reserve(code, 2), <<WithCount(OpLabelCode, 2), label>>)
  BY DEF AddLabel
<1> DEFINE r == Reserve(code, 2)
           ws == <<WithCount(OpLabelCode, 2), label>>
<1>2. WithCount(OpLabelCode, 2) \in Word /\ label \in Word
  BY WithCountWord, Constants, StateFacts DEF OpLabelCode
<1>3. ws \in Seq(Word) /\ Len(ws) = 2 /\ ws[1] = WithCount(OpLabelCode, 2)
  BY <1>2
<1>4. code.insert_index + 2 =< Cap
  BY DEF AddLabel, HasRoom
<1>5. /\ r \in StreamState /\ r.insert_index = code.insert_index
      /\ r.size =< Cap /\ r.insert_index + 2 =< r.size
      /\ \A i \in Cells : i < code.size => r.words[i] = code.words[i]
  BY <1>4, StateFacts, ReserveFacts
<1>6. r.size = IF code.insert_index + 2 =< code.size THEN code.size
               ELSE code.insert_index + 2
  BY StateFacts, ReserveSize
<1> HIDE DEF r, ws
<1>7. /\ code' \in StreamState
      /\ code'.insert_index = r.insert_index + Len(ws)
      /\ code'.size = r.size
      /\ \A i \in Cells : i < r.insert_index => code'.words[i] = r.words[i]
      /\ \A j \in 1 .. Len(ws) : r.insert_index + j - 1 \in Cells =>
           code'.words[r.insert_index + j - 1] = ws[j]
  BY <1>1, <1>3, <1>5, PutFacts DEF r, ws
<1>8. code'.insert_index = code.insert_index + 2 /\ code'.size = code'.insert_index
  <2>1. /\ code.insert_index \in Nat /\ code.size \in Nat
        /\ code.size =< code.insert_index + 2
    BY StateFacts
  <2>2. r.size = code.insert_index + 2
    BY <2>1, <1>6
  <2> QED
    BY <2>2, <1>3, <1>5, <1>7
<1>9. \A i \in Cells : i < code.insert_index => code'.words[i] = code.words[i]
  <2> SUFFICES ASSUME NEW i \in Cells, i < code.insert_index
               PROVE  code'.words[i] = code.words[i]
    OBVIOUS
  <2>1. i \in Nat /\ i < code.size
    BY StateFacts, Constants DEF Cells
  <2> QED
    BY <2>1, <1>5, <1>7
<1>10. code'.words[code.insert_index] = WithCount(OpLabelCode, 2)
  <2>1. code.insert_index + 1 - 1 = code.insert_index /\ code.insert_index \in Cells
    BY <1>4, StateFacts, Constants DEF Cells
  <2>2. 1 \in 1 .. Len(ws)
    BY <1>3
  <2> QED
    BY <2>1, <2>2, <1>3, <1>5, <1>7
<1> QED
  BY <1>5, <1>7, <1>8, <1>9, <1>10, StateFacts DEF Extends

\* A step that adds words and no phi keeps the invariant.
LEMMA ExtendsKeeps ==
  ASSUME CInv, NEW n \in Nat, Extends(n), bound' \in 0 .. MaxId,
         UNCHANGED <<deferred_phi_nodes, patch, outer, aborted, phis>>,
         last' \in {"label", "phi", "other"}, NothingLeft'
  PROVE  CInv'
<1>1. TypeOK'
  <2>1. code'.size =< Cap /\ code'.insert_index =< Cap
    <3>1. code'.insert_index \in Nat /\ code'.size \in Nat /\ Cap \in Nat
      BY Constants DEF Extends, StreamState
    <3>2. code'.insert_index =< code'.size /\ code'.size =< Cap
      BY DEF Extends
    <3> QED
      BY <3>1, <3>2
  <2> QED
    BY <2>1 DEF CInv, TypeOK, Frame, Extends
<1>2. InBounds'
  BY DEF Extends, InBounds
<1>3. PhisAddressed' /\ PhisApart' /\ PatchOnPhi' /\ OuterOnPhi' /\ AssertHolds'
  BY DEF CInv, PhisAddressed, PhisApart, PatchOnPhi, OuterOnPhi, OuterFits,
         OnPhi, Frame, AssertHolds
<1>4. PhisPlaced'
  <2> SUFFICES ASSUME NEW k \in DOMAIN phis
               PROVE  /\ PhiEnd(phis[k]) =< code'.insert_index
                      /\ code'.words[phis[k].at] = PhiWord(phis[k].args)
    BY DEF PhisPlaced
  <2>1. /\ PhiEnd(phis[k]) =< code.insert_index
        /\ code.words[phis[k].at] = PhiWord(phis[k].args)
    BY DEF CInv, PhisPlaced
  <2>2. phis[k].at \in Cells /\ phis[k].at < code.insert_index
    BY StateFacts, PhiCells
  <2>3. PhiEnd(phis[k]) \in Nat /\ code.insert_index \in Nat
    BY StateFacts, PhiCells
  <2>4. code'.insert_index = code.insert_index + n
    BY DEF Extends
  <2>5. PhiEnd(phis[k]) =< code'.insert_index
    BY <2>1, <2>3, <2>4
  <2>6. code'.words[phis[k].at] = code.words[phis[k].at]
    BY <2>2 DEF Extends
  <2> QED
    BY <2>1, <2>5, <2>6
<1> QED
  BY <1>1, <1>2, <1>3, <1>4 DEF CInv

\* Emit adds one instruction; only an OpPhi, which takes all it reserves, lets
\* a phi be deferred after it.
LEMMA EmitExtends ==
  ASSUME CInv, FittingClient, Emit
  PROVE  /\ \E n \in Nat :
              /\ Extends(n)
              /\ ShortInstructions =>
                   n > 0 /\ CountOf(code'.words[code.insert_index]) = n
         /\ bound' \in 0 .. MaxId /\ bound =< bound' /\ NothingLeft'
<1>1. PICK shape \in AllShapes :
        /\ shape.method \in Api
        /\ Instruction(IF shape.method = "OpPhi" THEN OpPhi ELSE OtherOp, shape,
                       Repeat(Operand, shape.operands))
        /\ last' = IF shape.method = "OpPhi" THEN "phi" ELSE "other"
  BY DEF Emit
<1> DEFINE op == IF shape.method = "OpPhi" THEN OpPhi ELSE OtherOp
           operands == Repeat(Operand, shape.operands)
<1>2. Sound(shape) /\ shape.method \notin ShortMethods
  BY <1>1, AllSound DEF FittingClient
<1>3. /\ shape.id \in BOOLEAN /\ shape.typed \in BOOLEAN
      /\ shape.reserved \in Nat /\ shape.operands \in Nat /\ Fits(shape)
      /\ shape.method = "OpPhi" => /\ shape.id /\ shape.typed
                                   /\ shape.reserved = Written(shape)
  BY <1>2 DEF Sound
<1>4. op \in 0 .. Half - 1
  BY Constants DEF OpPhi, OtherOp
<1>5. operands \in Seq(Word) /\ Len(operands) = shape.operands
  <2>1. Operand \in Word
    BY Constants DEF Operand
  <2> QED
    BY <2>1, <1>3 DEF Repeat
<1>6. Instruction(op, shape, operands)
  BY <1>1
<1> HIDE DEF op, operands
<1>7. /\ Extends(Written(shape)) /\ Written(shape) \in Nat \ {0}
      /\ bound' \in 0 .. MaxId /\ bound =< bound'
      /\ shape.reserved = Written(shape) /\ Written(shape) >= 2 =>
           code'.size = code'.insert_index
      /\ code'.words[code.insert_index] = WithCount(op, Written(shape))
  BY <1>3, <1>4, <1>5, <1>6, InstructionExtends
<1>8. shape.method = "OpPhi" => Written(shape) >= 2
  BY <1>3 DEF Written
<1>9. NothingLeft'
  BY <1>1, <1>3, <1>7, <1>8 DEF NothingLeft
<1>10. ShortInstructions => CountOf(code'.words[code.insert_index]) = Written(shape)
  <2>1. ShortInstructions => Written(shape) < Half
    BY <1>1 DEF ShortInstructions
  <2> QED
    BY <2>1, <1>4, <1>7, Constants, HalvesOf
<1> QED
  BY <1>7, <1>9, <1>10

\* DeferredOpPhi adds a phi, at the address it records.
LEMMA DeferExtends ==
  ASSUME CInv, FittingClient, DeferredOpPhi
  PROVE  \E n \in 0 .. MaxBlocks :
           /\ Extends(3 + 2 * n)
           /\ code'.words[code.insert_index] = PhiWord(n)
           /\ code'.size = code'.insert_index
           /\ phis' = Append(phis, [at |-> code.insert_index, args |-> n])
           /\ deferred_phi_nodes' = Append(deferred_phi_nodes, code.insert_index)
           /\ bound' \in 0 .. MaxId
<1> DEFINE shape(n) == Typed("DeferredOpPhi", 3 + n * 2, n * 2)
           operands(n) == [i \in 1 .. n * 2 |-> IF i % 2 = 1 THEN 0 ELSE Operand]
<1>1. PICK n \in 0 .. MaxBlocks :
        /\ Instruction(OpPhi, shape(n), operands(n))
        /\ phis' = Append(phis, [at |-> code.insert_index, args |-> n])
  BY DEF DeferredOpPhi
<1>2. n \in Nat /\ n * 2 \in Nat /\ 3 + n * 2 \in Nat /\ 3 + n * 2 = 3 + 2 * n
  BY Constants
<1>3. /\ shape(n).id \in BOOLEAN /\ shape(n).typed \in BOOLEAN
      /\ shape(n).reserved \in Nat /\ shape(n).operands \in Nat
      /\ shape(n).operands = n * 2 /\ shape(n).reserved = 3 + 2 * n
      /\ Written(shape(n)) = 3 + 2 * n /\ Fits(shape(n))
  BY <1>2 DEF Typed, Shape, Written, Fits
<1>4. OpPhi \in 0 .. Half - 1
  BY Constants DEF OpPhi
<1>5. operands(n) \in Seq(Word) /\ Len(operands(n)) = shape(n).operands
  <2>1. Operand \in Word /\ 0 \in Word
    BY Constants DEF Operand
  <2> QED
    BY <2>1, <1>2, <1>3
<1> DEFINE sh == shape(n)
           ops == operands(n)
<1>6. /\ sh.id \in BOOLEAN /\ sh.typed \in BOOLEAN
      /\ sh.reserved \in Nat /\ sh.operands \in Nat
      /\ sh.reserved = 3 + 2 * n /\ Written(sh) = 3 + 2 * n /\ Fits(sh)
      /\ ops \in Seq(Word) /\ Len(ops) = sh.operands
      /\ Instruction(OpPhi, sh, ops)
  BY <1>1, <1>3, <1>5
<1> HIDE DEF sh, ops
<1>7. /\ Extends(Written(sh))
      /\ bound' \in 0 .. MaxId
      /\ code'.words[code.insert_index] = WithCount(OpPhi, Written(sh))
      /\ sh.reserved = Written(sh) /\ Written(sh) >= 2 =>
           code'.size = code'.insert_index
  BY <1>4, <1>6, InstructionExtends
<1>8. LocalAddress(code) = code.insert_index
  BY DEF DeferredOpPhi, FittingClient, CInv, NothingLeft, LocalAddress
<1>9. deferred_phi_nodes' = Append(deferred_phi_nodes, code.insert_index)
  BY <1>8 DEF DeferredOpPhi
<1> QED
  BY <1>1, <1>2, <1>6, <1>7, <1>9 DEF PhiWord

-----------------------------------------------------------------------------
(* Every action keeps the invariant.                                       *)

\* The instructions of the catalogue.
LEMMA EmitKeeps ==
  ASSUME CInv, FittingClient, Emit
  PROVE  CInv'
<1>1. last' \in {"label", "phi", "other"}
  BY DEF Emit
<1>2. UNCHANGED <<deferred_phi_nodes, patch, outer, aborted, phis>>
  BY DEF Emit
<1> QED
  BY <1>1, <1>2, EmitExtends, ExtendsKeeps

\* Labels.
LEMMA AddLabelKeeps ==
  ASSUME CInv, AddLabel
  PROVE  CInv'
<1>1. /\ last' \in {"label", "phi", "other"} /\ bound' \in 0 .. MaxId
      /\ UNCHANGED <<deferred_phi_nodes, patch, outer, aborted, phis>>
  BY DEF AddLabel, CInv, TypeOK
<1>2. Extends(2) /\ NothingLeft'
  BY AddLabelExtends DEF NothingLeft
<1> QED
  BY <1>1, <1>2, ExtendsKeeps

\* Ids of other streams.
LEMMA OpLabelKeeps ==
  ASSUME CInv, OpLabel
  PROVE  CInv'
<1>1. bound' \in 0 .. MaxId
  BY StateFacts DEF OpLabel
<1> QED
  BY <1>1 DEF OpLabel, CInv, TypeOK, Frame, InBounds, NothingLeft, PhisAddressed,
              PhisPlaced, PhisApart, PatchOnPhi, OuterOnPhi, OuterFits, OnPhi,
              AssertHolds

\* A new deferred phi is placed after the others, at its recorded address.
LEMMA DeferKeeps ==
  ASSUME CInv, FittingClient, DeferredOpPhi
  PROVE  CInv'
<1>1. PICK n \in 0 .. MaxBlocks :
        /\ Extends(3 + 2 * n)
        /\ code'.words[code.insert_index] = PhiWord(n)
        /\ code'.size = code'.insert_index
        /\ phis' = Append(phis, [at |-> code.insert_index, args |-> n])
        /\ deferred_phi_nodes' = Append(deferred_phi_nodes, code.insert_index)
        /\ bound' \in 0 .. MaxId
  BY DeferExtends
<1> DEFINE phi == [at |-> code.insert_index, args |-> n]
           last_phi == Len(phis) + 1
<1>2. /\ code.insert_index \in Nat /\ code.size \in Nat /\ Cap \in Nat
      /\ code.insert_index =< code.size /\ code.size =< Cap
      /\ n \in Nat /\ 3 + 2 * n \in Nat
  BY StateFacts, Constants
<1>3. phi \in [at : Nat, args : 0 .. MaxBlocks]
  BY <1>2
<1>4. /\ phis \in Seq([at : Nat, args : 0 .. MaxBlocks])
      /\ deferred_phi_nodes \in Seq(Nat)
      /\ Len(deferred_phi_nodes) = Len(phis) /\ Len(phis) \in Nat
      /\ DOMAIN phis = 1 .. Len(phis)
      /\ \A k \in DOMAIN phis : deferred_phi_nodes[k] = phis[k].at
  BY StateFacts DEF CInv, TypeOK, PhisAddressed
<1>5. /\ phis' \in Seq([at : Nat, args : 0 .. MaxBlocks])
      /\ Len(phis') = last_phi /\ DOMAIN phis' = 1 .. last_phi
      /\ \A k \in 1 .. Len(phis) : phis'[k] = phis[k]
      /\ phis'[last_phi] = phi
  BY <1>1, <1>3, <1>4, AppendProperties
<1>6. /\ deferred_phi_nodes' \in Seq(Nat)
      /\ Len(deferred_phi_nodes') = last_phi
      /\ \A k \in 1 .. Len(phis) : deferred_phi_nodes'[k] = deferred_phi_nodes[k]
      /\ deferred_phi_nodes'[last_phi] = code.insert_index
  BY <1>1, <1>2, <1>4, AppendProperties
<1>7. /\ code' \in StreamState /\ code'.size =< Cap
      /\ code'.insert_index = code.insert_index + (3 + 2 * n)
      /\ code'.insert_index =< code'.size /\ code'.size - code'.insert_index =< 2
      /\ \A i \in Cells : i < code.insert_index => code'.words[i] = code.words[i]
  BY <1>1 DEF Extends
<1>8. /\ patch' = patch /\ patch.node = 0 /\ UNCHANGED aborted /\ last' = "phi"
      /\ outer' = <<>>
  BY DEF DeferredOpPhi, CInv, OuterOnPhi
<1> HIDE DEF phi
<1>9. phi.at = code.insert_index /\ phi.args = n
  BY DEF phi
<1>10. TypeOK'
  <2>1. patch' \in Frame'
    BY <1>4, <1>6, <1>8 DEF CInv, TypeOK, Frame
  <2>2. code'.insert_index =< Cap
    BY <1>2, <1>7 DEF StreamState
  <2> QED
    BY <2>1, <2>2, <1>1, <1>5, <1>6, <1>7, <1>8 DEF CInv, TypeOK
<1>11. InBounds' /\ NothingLeft' /\ PatchOnPhi' /\ OuterOnPhi' /\ AssertHolds'
  BY <1>1, <1>7, <1>8
     DEF CInv, InBounds, NothingLeft, PatchOnPhi, OuterOnPhi, OuterFits, AssertHolds
<1>12. PhisAddressed'
  <2> SUFFICES ASSUME NEW k \in 1 .. last_phi
               PROVE  deferred_phi_nodes'[k] = phis'[k].at
    BY <1>5, <1>6 DEF PhisAddressed
  <2>1. CASE k = last_phi
    BY <2>1, <1>5, <1>6, <1>9
  <2>2. CASE k \in 1 .. Len(phis)
    BY <2>2, <1>4, <1>5, <1>6
  <2> QED
    BY <2>1, <2>2, <1>4
<1>13. \A k \in 1 .. Len(phis) :
         /\ PhiEnd(phis[k]) \in Nat /\ phis[k].at \in Nat
         /\ phis[k].at < PhiEnd(phis[k])
         /\ PhiEnd(phis[k]) =< code.insert_index
         /\ code.words[phis[k].at] = PhiWord(phis[k].args)
  <2> SUFFICES ASSUME NEW k \in 1 .. Len(phis)
               PROVE  /\ PhiEnd(phis[k]) \in Nat /\ phis[k].at \in Nat
                      /\ phis[k].at < PhiEnd(phis[k])
                      /\ PhiEnd(phis[k]) =< code.insert_index
                      /\ code.words[phis[k].at] = PhiWord(phis[k].args)
    OBVIOUS
  <2>1. phis[k].at \in Nat /\ phis[k].args \in Nat
    BY StateFacts
  <2>2. phis[k].at < PhiEnd(phis[k]) /\ PhiEnd(phis[k]) \in Nat
    BY <2>1, ValuesBeforeEnd
  <2> QED
    BY <2>1, <2>2, <1>4 DEF CInv, PhisPlaced
<1>14. PhiEnd(phi) = code'.insert_index
  BY <1>2, <1>7, <1>9 DEF PhiEnd
<1>15. PhisPlaced'
  <2> SUFFICES ASSUME NEW k \in 1 .. last_phi
               PROVE  /\ PhiEnd(phis'[k]) =< code'.insert_index
                      /\ code'.words[phis'[k].at] = PhiWord(phis'[k].args)
    BY <1>5 DEF PhisPlaced
  <2>1. CASE k = last_phi
    BY <2>1, <1>1, <1>2, <1>5, <1>7, <1>9, <1>14 DEF StreamState
  <2>2. CASE k \in 1 .. Len(phis)
    <3>1. phis[k].at \in Cells /\ phis[k].at < code.insert_index
      BY <2>2, <1>2, <1>13 DEF Cells
    <3>2. code'.words[phis[k].at] = PhiWord(phis[k].args)
      BY <3>1, <2>2, <1>7, <1>13
    <3>3. PhiEnd(phis[k]) =< code'.insert_index
      BY <2>2, <1>2, <1>7, <1>13
    <3> QED
      BY <3>2, <3>3, <2>2, <1>5
  <2> QED
    BY <2>1, <2>2, <1>4
<1>16. PhisApart'
  <2> SUFFICES ASSUME NEW k \in 1 .. last_phi, NEW m \in 1 .. last_phi, k < m
               PROVE  PhiEnd(phis'[k]) =< phis'[m].at
    BY <1>5 DEF PhisApart
  <2>1. k \in 1 .. Len(phis) /\ phis'[k] = phis[k]
    <3>1. Len(phis) \in Nat
      BY <1>4
    <3>2. k \in 1 .. Len(phis)
      BY <3>1
    <3> QED
      BY <3>2, <1>5
  <2>2. CASE m = last_phi
    BY <2>1, <2>2, <1>5, <1>9, <1>13
  <2>3. CASE m \in 1 .. Len(phis)
    BY <2>1, <2>3, <1>4, <1>5 DEF CInv, PhisApart
  <2> QED
    BY <2>2, <2>3, <1>4
<1> QED
  BY <1>10, <1>11, <1>12, <1>15, <1>16 DEF CInv

\* A call that is suspended comes in front of those that are already.
LEMMA PushFrame ==
  ASSUME NEW S, NEW frames \in Seq(S), NEW frame \in S
  PROVE  LET longer == <<frame>> \o frames IN
         /\ longer \in Seq(S) /\ Len(longer) = Len(frames) + 1
         /\ \A d \in DOMAIN longer :
              longer[d] = frame \/ \E e \in DOMAIN frames : longer[d] = frames[e]
<1> DEFINE longer == <<frame>> \o frames
<1>1. <<frame>> \in Seq(S) /\ Len(<<frame>>) = 1 /\ <<frame>>[1] = frame
  OBVIOUS
<1>2. Len(frames) \in Nat /\ DOMAIN frames = 1 .. Len(frames)
  BY LenProperties
<1>3. /\ longer \in Seq(S) /\ Len(longer) = Len(frames) + 1
      /\ \A d \in 1 .. Len(frames) + 1 :
           longer[d] = IF d =< 1 THEN <<frame>>[d] ELSE frames[d - 1]
  BY <1>1, <1>2, ConcatProperties
<1> HIDE DEF longer
<1>4. DOMAIN longer = 1 .. Len(frames) + 1
  BY <1>3, LenProperties
<1>5. ASSUME NEW d \in DOMAIN longer
      PROVE  longer[d] = frame \/ \E e \in DOMAIN frames : longer[d] = frames[e]
  <2>1. CASE d = 1
    BY <2>1, <1>1, <1>3, <1>4
  <2>2. CASE d # 1
    <3>1. d - 1 \in 1 .. Len(frames) /\ ~(d =< 1) /\ d \in 1 .. Len(frames) + 1
      BY <2>2, <1>2, <1>4
    <3> QED
      BY <3>1, <1>2, <1>3
  <2> QED
    BY <2>1, <2>2
<1> QED
  BY <1>3, <1>5 DEF longer

\* The call that is resumed is the one in front.
LEMMA PopFrame ==
  ASSUME NEW S, NEW frames \in Seq(S), frames # <<>>
  PROVE  /\ Head(frames) = frames[1] /\ 1 \in DOMAIN frames /\ frames[1] \in S
         /\ Tail(frames) \in Seq(S)
         /\ \A d \in DOMAIN Tail(frames) :
              \E e \in DOMAIN frames : Tail(frames)[d] = frames[e]
<1>1. /\ Len(frames) \in Nat /\ DOMAIN frames = 1 .. Len(frames)
      /\ Len(frames) # 0
  BY LenProperties, EmptySeq
<1>2. /\ Head(frames) = frames[1] /\ Tail(frames) \in Seq(S)
      /\ Len(Tail(frames)) = Len(frames) - 1
      /\ \A d \in 1 .. Len(Tail(frames)) : Tail(frames)[d] = frames[d + 1]
  BY HeadTailProperties
<1>3. 1 \in DOMAIN frames /\ frames[1] \in S
  BY <1>1, ElementOfSeq
<1>4. DOMAIN Tail(frames) = 1 .. Len(Tail(frames))
  BY <1>2, LenProperties
<1>5. \A d \in 1 .. Len(frames) - 1 : d + 1 \in 1 .. Len(frames)
  BY <1>1
<1> QED
  BY <1>1, <1>2, <1>3, <1>4, <1>5

\* What suspending the running call, and resuming a suspended one, leave.
LEMMA FramesFit ==
  ASSUME CInv
  PROVE  /\ patch.node > 0 => OuterFits(<<patch>> \o outer)
         /\ outer # <<>> => /\ Head(outer) \in Frame /\ Head(outer).node > 0
                            /\ OnPhi(Head(outer))
                            /\ OuterFits(Tail(outer))
<1>1. /\ outer \in Seq(Frame) /\ patch \in Frame
      /\ \A d \in DOMAIN outer : outer[d].node > 0 /\ OnPhi(outer[d])
      /\ patch.node > 0 => OnPhi(patch)
  BY DEF CInv, TypeOK, OuterOnPhi, OuterFits, PatchOnPhi
<1>2. ASSUME patch.node > 0 PROVE OuterFits(<<patch>> \o outer)
  <2> DEFINE longer == <<patch>> \o outer
  <2>1. /\ longer \in Seq(Frame)
        /\ \A d \in DOMAIN longer :
             longer[d] = patch \/ \E e \in DOMAIN outer : longer[d] = outer[e]
    BY <1>1, PushFrame
  <2> HIDE DEF longer
  <2>2. OuterFits(longer)
    BY <2>1, <1>1, <1>2 DEF OuterFits
  <2> QED
    BY <2>2 DEF longer
<1>3. ASSUME outer # <<>>
      PROVE  /\ Head(outer) \in Frame /\ Head(outer).node > 0
             /\ OnPhi(Head(outer)) /\ OuterFits(Tail(outer))
  BY <1>1, <1>3, PopFrame DEF OuterFits
<1> QED
  BY <1>2, <1>3

\* Going on to a node finds a phi at its address, so the assertion holds, and
\* starts with its first value.
LEMMA VisitKeeps ==
  ASSUME CInv, NEW node \in 1 .. Len(deferred_phi_nodes), VisitNode(node),
         UNCHANGED <<code, bound, deferred_phi_nodes, last, phis>>,
         OuterFits(outer')
  PROVE  /\ CInv'
         /\ patch' = [node |-> node, arg |-> 0, cursor |-> phis[node].at + 3,
                      num_args |-> phis[node].args]
<1>1. /\ node \in DOMAIN phis /\ deferred_phi_nodes[node] = phis[node].at
      /\ node \in 0 .. Len(deferred_phi_nodes)
  <2>1. /\ Len(deferred_phi_nodes) = Len(phis)
        /\ \A k \in DOMAIN phis : deferred_phi_nodes[k] = phis[k].at
    BY DEF CInv, PhisAddressed
  <2>2. Len(phis) \in Nat /\ DOMAIN phis = 1 .. Len(phis)
    BY StateFacts
  <2> QED
    BY <2>1, <2>2
<1>2. phis[node].at \in Nat /\ phis[node].args \in 0 .. MaxBlocks
  BY <1>1, StateFacts
<1>3. Value(code, deferred_phi_nodes[node]) = PhiWord(phis[node].args)
  BY <1>1 DEF CInv, PhisPlaced, Value
<1>4. /\ OpcodeOf(PhiWord(phis[node].args)) = OpPhi
      /\ NumArgs(PhiWord(phis[node].args)) = phis[node].args
  BY <1>2, PhiWordReads
<1>5. /\ patch' = [node |-> node, arg |-> 0, cursor |-> phis[node].at + 3,
                   num_args |-> phis[node].args]
      /\ UNCHANGED aborted
  BY <1>1, <1>3, <1>4 DEF VisitNode
<1>6. TypeOK'
  <2>1. 0 \in 0 .. MaxBlocks /\ phis[node].at + 3 \in Nat
    BY <1>2, Constants
  <2> QED
    BY <2>1, <1>1, <1>2, <1>5 DEF CInv, TypeOK, Frame, OuterFits
<1>7. PatchOnPhi'
  BY <1>2, <1>5 DEF PatchOnPhi, OnPhi, ValueAt
<1>8. OuterOnPhi'
  <2>1. patch'.node # 0
    BY <1>5
  <2> QED
    BY <2>1 DEF OuterOnPhi, OuterFits, OnPhi, Frame
<1> QED
  BY <1>5, <1>6, <1>7, <1>8
     DEF CInv, InBounds, NothingLeft, PhisAddressed, PhisPlaced, PhisApart,
         AssertHolds

\* Starting a patch, and going on to the next node or returning.
LEMMA PatchNextKeeps ==
  ASSUME CInv, PatchStart \/ PatchNext
  PROVE  CInv'
<1>1. Len(deferred_phi_nodes) \in Nat /\ patch.node \in 0 .. Len(deferred_phi_nodes)
  BY DEF CInv, TypeOK, Frame
<1>2. CASE PatchStart
  <2>1. 1 \in 1 .. Len(deferred_phi_nodes)
    BY <1>1, <1>2 DEF PatchStart, CInv, TypeOK
  <2>2. OuterFits(outer')
    BY <1>1, <1>2, FramesFit DEF PatchStart, CInv, OuterOnPhi
  <2> QED
    BY <2>1, <2>2, <1>2, VisitKeeps DEF PatchStart
<1>3. CASE PatchNext /\ patch.node < Len(deferred_phi_nodes)
  <2>1. patch.node + 1 \in 1 .. Len(deferred_phi_nodes)
    BY <1>1, <1>3
  <2>2. OuterFits(outer')
    BY <1>3 DEF PatchNext, CInv, OuterOnPhi
  <2> QED
    BY <2>1, <2>2, <1>3, VisitKeeps DEF PatchNext
<1>4. CASE PatchNext /\ ~(patch.node < Len(deferred_phi_nodes))
  <2>1. UNCHANGED <<code, bound, deferred_phi_nodes, aborted, last, phis>>
    BY <1>4 DEF PatchNext, PatchEnd
  <2>2. /\ patch' \in Frame /\ (patch'.node > 0 => OnPhi(patch'))
        /\ OuterFits(outer') /\ (patch'.node = 0 => outer' = <<>>)
    <3>1. CASE outer = <<>>
      <4>1. patch' = Idle /\ outer' = <<>>
        BY <3>1, <1>4 DEF PatchNext, PatchEnd
      <4>2. Idle \in Frame /\ ~(Idle.node > 0)
        BY <1>1, Constants DEF Idle, Frame
      <4> QED
        BY <3>1, <4>1, <4>2 DEF CInv, OuterOnPhi
    <3>2. CASE outer # <<>>
      <4>1. patch' = Head(outer) /\ outer' = Tail(outer)
        BY <3>2, <1>4 DEF PatchNext, PatchEnd
      <4>2. /\ Head(outer) \in Frame /\ Head(outer).node > 0
            /\ OnPhi(Head(outer)) /\ OuterFits(Tail(outer))
        BY <3>2, FramesFit
      <4>3. ~(Head(outer).node = 0)
        BY <4>2
      <4> QED
        BY <4>1, <4>2, <4>3
    <3> QED
      BY <3>1, <3>2
  <2>3. Frame' = Frame
    BY <2>1 DEF Frame
  <2>4. TypeOK'
    BY <2>1, <2>2, <2>3 DEF CInv, TypeOK, OuterFits
  <2>5. PatchOnPhi' /\ OuterOnPhi'
    BY <2>1, <2>2, <2>3 DEF PatchOnPhi, OuterOnPhi, OuterFits, OnPhi
  <2> QED
    BY <2>1, <2>4, <2>5 DEF CInv, InBounds, NothingLeft, PhisAddressed,
                            PhisPlaced, PhisApart, AssertHolds
<1> QED
  BY <1>2, <1>3, <1>4

\* Where the patch of a value writes.
LEMMA PatchArgFacts ==
  ASSUME CInv, PatchArg
  PROVE  /\ patch.node \in 1 .. Len(phis) /\ patch.node > 0
         /\ patch.arg \in 0 .. phis[patch.node].args - 1
         /\ patch.cursor = ValueAt(phis[patch.node], patch.arg)
         /\ patch.cursor \in Cells
         /\ code' \in StreamState
         /\ code'.insert_index = code.insert_index /\ code'.size = code.size
         /\ code'.words[patch.cursor] \in 1 .. bound
         /\ \A i \in Cells : i # patch.cursor => code'.words[i] = code.words[i]
<1>1. PICK id \in 1 .. bound : code' = SetValue(code, patch.cursor, id)
  BY DEF PatchArg
<1>2. /\ patch.node \in 0 .. Len(phis) /\ patch.node > 0
      /\ patch.arg \in Nat /\ patch.arg < patch.num_args
      /\ Len(phis) \in Nat
  BY StateFacts, Constants DEF CInv, TypeOK, Frame, PhisAddressed, PatchArg
<1>3. patch.node \in 1 .. Len(phis)
  BY <1>2
<1> DEFINE phi == phis[patch.node]
<1>4. /\ patch.num_args = phi.args /\ patch.cursor = ValueAt(phi, patch.arg)
  BY <1>2 DEF CInv, PatchOnPhi, OnPhi
<1>5. phi.at \in Nat /\ phi.args \in Nat /\ PhiEnd(phi) =< code.insert_index
  BY <1>3, StateFacts DEF CInv, PhisPlaced
<1> HIDE DEF phi
<1>6. patch.cursor \in Nat /\ patch.cursor < PhiEnd(phi)
  BY <1>2, <1>4, <1>5, ValuesBeforeEnd
<1>7. /\ code \in StreamState /\ code.insert_index \in Nat /\ code.size \in Nat
      /\ code.insert_index =< code.size /\ code.size =< Cap /\ Cap \in Nat
      /\ PhiEnd(phi) \in Nat
  <2>1. PhiEnd(phi) \in Nat
    BY <1>5, ValuesBeforeEnd
  <2> QED
    BY <2>1, StateFacts, StreamAssumption
<1>8. patch.cursor \in Cells
  BY <1>5, <1>6, <1>7 DEF Cells
<1>9. id \in Word
  BY StateFacts, Constants
<1>10. /\ code' \in StreamState
       /\ code'.insert_index = code.insert_index /\ code'.size = code.size
       /\ code'.words[patch.cursor] = id
       /\ \A i \in Cells : i # patch.cursor => code'.words[i] = code.words[i]
  BY <1>1, <1>7, <1>8, <1>9, SetValueFacts
<1>11. patch.arg \in 0 .. phi.args - 1
  BY <1>2, <1>4, <1>5
<1> QED
  BY <1>2, <1>3, <1>4, <1>8, <1>10, <1>11 DEF phi

\* A value of a phi is none of the words another phi starts with.
LEMMA ValuesApart ==
  ASSUME CInv, NEW k \in 1 .. Len(phis), NEW arg \in 0 .. phis[k].args - 1,
         NEW m \in 1 .. Len(phis)
  PROVE  /\ ValueAt(phis[k], arg) # phis[m].at
         /\ \A other \in 0 .. phis[m].args - 1 :
              ValueAt(phis[k], arg) = ValueAt(phis[m], other) => k = m /\ arg = other
<1>1. PICK a \in Nat, n \in Nat, b \in Nat, o \in Nat :
        /\ phis[k].at = a /\ phis[k].args = n
        /\ phis[m].at = b /\ phis[m].args = o
  BY StateFacts
<1>2. k < m => a + 3 + 2 * n =< b
  BY <1>1, StateFacts DEF CInv, PhisApart, PhiEnd
<1>3. m < k => b + 3 + 2 * o =< a
  BY <1>1, StateFacts DEF CInv, PhisApart, PhiEnd
<1>4. k = m => a = b
  BY <1>1
<1>5. k < m \/ m < k \/ k = m
  BY StateFacts
<1>6. arg \in 0 .. n - 1
  BY <1>1
<1>7. a + 3 + 2 * arg # b
  BY <1>2, <1>3, <1>4, <1>5, <1>6
<1>8. \A other \in 0 .. o - 1 :
        a + 3 + 2 * arg = b + 3 + 2 * other => k = m /\ arg = other
  BY <1>2, <1>3, <1>4, <1>5, <1>6
<1> QED
  BY <1>1, <1>7, <1>8 DEF ValueAt

\* Patching a value.
LEMMA PatchArgKeeps ==
  ASSUME CInv, PatchArg
  PROVE  CInv'
<1>1. /\ patch' = [patch EXCEPT !.arg = patch.arg + 1, !.cursor = patch.cursor + 2]
      /\ UNCHANGED <<bound, deferred_phi_nodes, outer, aborted, last, phis>>
  BY DEF PatchArg
<1>2. /\ patch.node \in 1 .. Len(phis) /\ patch.node > 0
      /\ patch.arg \in 0 .. phis[patch.node].args - 1
      /\ patch.cursor = ValueAt(phis[patch.node], patch.arg)
      /\ code' \in StreamState
      /\ code'.insert_index = code.insert_index /\ code'.size = code.size
      /\ \A i \in Cells : i # patch.cursor => code'.words[i] = code.words[i]
  BY PatchArgFacts
<1>3. phis[patch.node].at \in Nat /\ phis[patch.node].args \in 0 .. MaxBlocks
  BY <1>2, StateFacts
<1>4. patch \in [node : 0 .. Len(deferred_phi_nodes), arg : 0 .. MaxBlocks,
                 num_args : 0 .. MaxBlocks, cursor : Nat]
  BY DEF CInv, TypeOK, Frame
<1>5. /\ patch'.node = patch.node /\ patch'.num_args = patch.num_args
      /\ patch'.arg = patch.arg + 1 /\ patch'.cursor = patch.cursor + 2
  BY <1>1, <1>4
<1>6. patch.arg + 1 \in 0 .. MaxBlocks /\ patch.arg + 1 =< phis[patch.node].args
  <2>1. \A n \in 0 .. MaxBlocks : \A arg \in 0 .. n - 1 :
          arg + 1 \in 0 .. MaxBlocks /\ arg + 1 =< n
    <3>1. MaxBlocks \in Nat
      BY Constants
    <3> QED
      BY <3>1
  <2> QED
    BY <2>1, <1>2, <1>3
<1>7. TypeOK'
  <2>1. patch.cursor + 2 \in Nat
    BY <1>4
  <2> QED
    BY <2>1, <1>1, <1>2, <1>4, <1>6 DEF CInv, TypeOK, Frame
<1>8. PatchOnPhi'
  <2>1. patch.arg \in Nat
    BY <1>4
  <2>2. \A at, arg \in Nat : at + 3 + 2 * arg + 2 = at + 3 + 2 * (arg + 1)
    OBVIOUS
  <2>3. patch.cursor + 2 = ValueAt(phis[patch.node], patch.arg + 1)
    BY <2>1, <2>2, <1>2, <1>3 DEF ValueAt
  <2>4. patch.num_args = phis[patch.node].args
    BY <1>2 DEF CInv, PatchOnPhi, OnPhi
  <2> QED
    BY <2>3, <2>4, <1>1, <1>5, <1>6 DEF PatchOnPhi, OnPhi
<1>9. PhisPlaced'
  <2> SUFFICES ASSUME NEW k \in 1 .. Len(phis)
               PROVE  /\ PhiEnd(phis[k]) =< code'.insert_index
                      /\ code'.words[phis[k].at] = PhiWord(phis[k].args)
    BY <1>1, StateFacts DEF PhisPlaced
  <2>1. /\ PhiEnd(phis[k]) =< code.insert_index
        /\ code.words[phis[k].at] = PhiWord(phis[k].args)
    BY StateFacts DEF CInv, PhisPlaced
  <2>4. phis[k].at \in Cells
    BY PhiCells
  <2>5. phis[k].at # patch.cursor
    BY <1>2, ValuesApart
  <2> QED
    BY <2>1, <2>4, <2>5, <1>2
<1>10. OuterOnPhi'
  BY <1>1, <1>2, <1>5 DEF CInv, OuterOnPhi, OuterFits, OnPhi, Frame
<1> QED
  BY <1>1, <1>2, <1>7, <1>8, <1>9, <1>10
     DEF CInv, InBounds, NothingLeft, PhisAddressed, PhisApart, AssertHolds

\* The first state.
LEMMA InitCInv == Init => CInv
<1> SUFFICES ASSUME Init PROVE CInv
  OBVIOUS
<1>1. TypeOK
  <2>1. 0 \in 0 .. MaxId /\ 0 \in 0 .. MaxBlocks /\ 0 =< Cap
    BY Constants
  <2>2. code \in StreamState /\ code.size = 0 /\ code.insert_index = 0
    BY EmptyStreamType DEF Init, EmptyStream
  <2>3. patch \in Frame /\ outer \in Seq(Frame)
    BY <2>1 DEF Init, Idle, Frame
  <2>4. phis \in Seq([at : Nat, args : 0 .. MaxBlocks])
    BY DEF Init
  <2>5. deferred_phi_nodes \in Seq(Nat)
    BY DEF Init
  <2>6. /\ bound \in 0 .. MaxId /\ aborted \in BOOLEAN
        /\ last \in {"label", "phi", "other"}
    BY <2>1 DEF Init
  <2> QED
    BY <2>1, <2>2, <2>3, <2>4, <2>5, <2>6 DEF TypeOK
<1>2. /\ InBounds /\ NothingLeft /\ PhisAddressed /\ PhisPlaced /\ PhisApart
      /\ PatchOnPhi /\ OuterOnPhi /\ AssertHolds
  BY DEF Init, EmptyStream, Idle, InBounds, NothingLeft, PhisAddressed,
         PhisPlaced, PhisApart, PatchOnPhi, OuterOnPhi, OuterFits, AssertHolds
<1> QED
  BY <1>1, <1>2 DEF CInv

\* The invariant is inductive for a structured client.
LEMMA NextCInv ==
  ASSUME FittingClient, CInv, [Next]_vars
  PROVE  CInv'
<1>1. CASE UNCHANGED vars
  BY <1>1 DEF vars, CInv, TypeOK, Frame, InBounds, NothingLeft, PhisAddressed,
              PhisPlaced, PhisApart, PatchOnPhi, OuterOnPhi, OuterFits, OnPhi,
              AssertHolds
<1> QED
  BY <1>1, EmitKeeps, OpLabelKeeps, AddLabelKeeps, DeferKeeps, PatchNextKeeps,
     PatchArgKeeps DEF Next

\* What every state of the program satisfies.
LEMMA Invariance ==
  ASSUME FittingClient
  PROVE  Spec => []CInv
<1>1. CInv /\ [Next]_vars => CInv'
  BY NextCInv
<1> QED
  BY <1>1, InitCInv, PTL DEF Spec

-----------------------------------------------------------------------------
(* The words fall into instructions.                                       *)

\* What the words of the stream are when the invariant holds.
LEMMA CodeWords ==
  ASSUME CInv
  PROVE  /\ Words(code) \in Seq(Nat) /\ Len(Words(code)) = code.insert_index
         /\ \A i \in 1 .. code.insert_index : Words(code)[i] = code.words[i - 1]
<1>1. code \in StreamState /\ code.insert_index =< Cap
  BY DEF CInv, TypeOK
<1> QED
  BY <1>1, WordsFacts

\* A step that adds an instruction with its count adds a place.
LEMMA ExtendsCuts ==
  ASSUME CInv, CInv', Cuts, NEW n \in Nat, n > 0, Extends(n),
         CountOf(code'.words[code.insert_index]) = n
  PROVE  \E B : /\ Divides(B, Words(code)')
                /\ code.insert_index + 1 \in B
                /\ \A k \in DOMAIN phis : phis[k].at + 1 \in B
<1> DEFINE ws == Words(code)
           vs == Words(code')
           start == code.insert_index
<1>1. PICK B : Divides(B, ws) /\ \A k \in DOMAIN phis : phis[k].at + 1 \in B
  BY DEF Cuts
<1>2. /\ ws \in Seq(Nat) /\ Len(ws) = start
      /\ \A i \in 1 .. start : ws[i] = code.words[i - 1]
  BY CodeWords
<1>3. code' \in StreamState /\ code'.insert_index =< Cap
  BY DEF CInv, TypeOK
<1>4. /\ vs \in Seq(Nat) /\ Len(vs) = code'.insert_index
      /\ \A i \in 1 .. code'.insert_index : vs[i] = code'.words[i - 1]
  BY <1>3, WordsFacts
<1>5. /\ code'.insert_index = start + n /\ start \in Nat /\ Cap \in Nat
      /\ \A i \in Cells : i < start => code'.words[i] = code.words[i]
  BY StateFacts, Constants DEF Extends
<1> HIDE DEF ws, vs, start
<1>6. \A i \in 1 .. start : vs[i] = ws[i]
  <2> TAKE i \in 1 .. start
  <2>1. i \in 1 .. start + n /\ i - 1 \in Cells /\ i - 1 < start
    BY <1>3, <1>5 DEF Cells
  <2> QED
    BY <2>1, <1>2, <1>4, <1>5
<1>7. CountOf(vs[start + 1]) = n
  <2>1. start + 1 \in 1 .. start + n /\ (start + 1) - 1 = start
    BY <1>5
  <2> QED
    BY <2>1, <1>4, <1>5 DEF start
<1>8. Divides(B \cup {Len(vs) + 1}, vs)
  <2>1. Len(vs) = Len(ws) + n /\ CountOf(vs[Len(ws) + 1]) = n
    BY <1>2, <1>4, <1>5, <1>7
  <2>2. \A i \in 1 .. Len(ws) : vs[i] = ws[i]
    BY <1>2, <1>6
  <2> QED
    BY <2>1, <2>2, <1>1, <1>2, <1>4, DividesMore
<1>9. start + 1 \in B
  BY <1>1, <1>2 DEF Divides
<1> QED
  BY <1>1, <1>8, <1>9 DEF vs, start

\* Every action keeps the places, but for a patched value, which is inside of
\* its phi.
LEMMA NextCuts ==
  ASSUME FittingClient, ShortInstructions, CInv, CInv', Cuts, [Next]_vars
  PROVE  Cuts'
<1>1. ASSUME NEW n \in Nat, n > 0, Extends(n),
             CountOf(code'.words[code.insert_index]) = n, UNCHANGED phis
      PROVE  Cuts'
  BY <1>1, ExtendsCuts DEF Cuts
<1>2. CASE Emit
  <2>1. PICK n \in Nat : Extends(n) /\ n > 0 /\ CountOf(code'.words[code.insert_index]) = n
    BY <1>2, EmitExtends
  <2> QED
    BY <2>1, <1>1, <1>2 DEF Emit
<1>3. CASE AddLabel
  <2>1. CountOf(WithCount(OpLabelCode, 2)) = 2
    BY Constants, HalvesOf DEF OpLabelCode
  <2> QED
    BY <2>1, <1>1, <1>3, AddLabelExtends DEF AddLabel
<1>4. CASE DeferredOpPhi
  <2>1. PICK n \in 0 .. MaxBlocks :
          /\ Extends(3 + 2 * n)
          /\ code'.words[code.insert_index] = PhiWord(n)
          /\ phis' = Append(phis, [at |-> code.insert_index, args |-> n])
    BY <1>4, DeferExtends
  <2>2. 3 + 2 * n \in Nat /\ 3 + 2 * n > 0
    BY Constants
  <2>3. CountOf(code'.words[code.insert_index]) = 3 + 2 * n
    BY <2>1, PhiWordReads
  <2>4. PICK B : /\ Divides(B, Words(code)')
                 /\ code.insert_index + 1 \in B
                 /\ \A k \in DOMAIN phis : phis[k].at + 1 \in B
    BY <2>1, <2>2, <2>3, ExtendsCuts
  <2>5. \A k \in DOMAIN phis' : phis'[k].at + 1 \in B
    <3>1. PICK phi : phi = [at |-> code.insert_index, args |-> n]
      OBVIOUS
    <3>2. phis \in Seq([at : Nat, args : 0 .. MaxBlocks]) /\ code.insert_index \in Nat
      BY StateFacts
    <3>3. phi \in [at : Nat, args : 0 .. MaxBlocks] /\ phi.at = code.insert_index
      BY <3>1, <3>2
    <3>4. /\ DOMAIN phis = 1 .. Len(phis) /\ Len(phis) \in Nat
          /\ DOMAIN phis' = 1 .. Len(phis) + 1
          /\ \A k \in 1 .. Len(phis) : phis'[k] = phis[k]
          /\ phis'[Len(phis) + 1] = phi
      BY <2>1, <3>1, <3>2, <3>3, AppendProperties, LenProperties
    <3> TAKE k \in DOMAIN phis'
    <3>5. k \in 1 .. Len(phis) \/ k = Len(phis) + 1
      BY <3>4
    <3> QED
      BY <2>4, <3>3, <3>4, <3>5
  <2> QED
    BY <2>4, <2>5 DEF Cuts
<1>5. CASE PatchArg
  <2>1. PICK B : Divides(B, Words(code)) /\ \A k \in DOMAIN phis : phis[k].at + 1 \in B
    BY DEF Cuts
  <2>2. /\ patch.node \in 1 .. Len(phis)
        /\ patch.arg \in 0 .. phis[patch.node].args - 1
        /\ patch.cursor = ValueAt(phis[patch.node], patch.arg)
        /\ patch.cursor \in Cells /\ patch.cursor < code.insert_index
        /\ code' \in StreamState /\ code'.insert_index = code.insert_index
        /\ \A i \in Cells : i # patch.cursor => code'.words[i] = code.words[i]
    BY <1>5, PatchArgFacts, PhiCells
  <2> DEFINE phi == phis[patch.node]
  <2>3. PICK at \in Nat, args \in 0 .. MaxBlocks : phi.at = at /\ phi.args = args
    BY <2>2, StateFacts
  <2>4. at + 1 \in B /\ at \in Cells /\ at < code.insert_index
    BY <2>1, <2>2, <2>3, PhiCells, StateFacts
  <2>5. code.words[at] = PhiWord(args)
    BY <2>2, <2>3, StateFacts DEF CInv, PhisPlaced
  <2> HIDE DEF phi
  <2>6. patch.cursor = at + 3 + 2 * patch.arg /\ patch.arg \in 0 .. args - 1
    BY <2>2, <2>3 DEF ValueAt, phi
  <2>7. PICK ws, vs : ws = Words(code) /\ vs = Words(code')
    OBVIOUS
  <2>8. /\ ws \in Seq(Nat) /\ Len(ws) = code.insert_index
        /\ \A i \in 1 .. code.insert_index : ws[i] = code.words[i - 1]
    BY <2>7, CodeWords
  <2>9. /\ vs \in Seq(Nat) /\ Len(vs) = code.insert_index
        /\ \A i \in 1 .. code.insert_index : vs[i] = code'.words[i - 1]
    <3>1. code' \in StreamState /\ code'.insert_index =< Cap
      BY DEF CInv, TypeOK
    <3> QED
      BY <2>2, <2>7, <3>1, WordsFacts
  <2>10. /\ at \in Nat /\ args \in Nat /\ code.insert_index \in Nat /\ patch.cursor \in Nat
         /\ Cap \in Nat /\ code.insert_index =< Cap
    <3>1. patch.cursor \in Nat /\ code.insert_index =< Cap
      BY DEF CInv, TypeOK, Frame
    <3>2. code.insert_index \in Nat /\ MaxBlocks \in Nat /\ Cap \in Nat
      BY StateFacts, Constants
    <3> QED
      BY <3>1, <3>2
  <2>11. patch.cursor + 1 \in 1 .. Len(ws)
    BY <2>2, <2>8, <2>10
  <2>12. \A i \in 1 .. Len(ws) : i # patch.cursor + 1 => vs[i] = ws[i]
    <3> SUFFICES ASSUME NEW i \in 1 .. Len(ws), i # patch.cursor + 1 PROVE vs[i] = ws[i]
      OBVIOUS
    <3>1. i \in 1 .. code.insert_index /\ i - 1 \in Cells /\ i - 1 # patch.cursor
      BY <2>8, <2>10 DEF Cells
    <3> QED
      BY <3>1, <2>2, <2>8, <2>9
  <2>13. CountOf(ws[at + 1]) = 3 + 2 * args
    <3>1. at + 1 \in 1 .. code.insert_index /\ (at + 1) - 1 = at
      BY <2>4, <2>10
    <3>2. ws[at + 1] = PhiWord(args)
      BY <3>1, <2>5, <2>8
    <3> QED
      BY <3>2, PhiWordReads
  <2>14. at + 1 < patch.cursor + 1 /\ patch.cursor + 1 < at + 1 + CountOf(ws[at + 1])
    BY <2>6, <2>10, <2>13
  <2>15. Divides(B, vs)
    <3>1. PICK c : c = patch.cursor + 1
      OBVIOUS
    <3>2. PICK start : start = at + 1
      OBVIOUS
    <3>3. /\ Len(vs) = Len(ws) /\ c \in 1 .. Len(ws) /\ start \in B
          /\ start < c /\ c < start + CountOf(ws[start])
          /\ \A i \in 1 .. Len(ws) : i # c => vs[i] = ws[i]
          /\ Divides(B, ws)
      BY <3>1, <3>2, <2>1, <2>4, <2>7, <2>8, <2>9, <2>11, <2>12, <2>14
    <3> QED
      BY <3>3, <2>8, <2>9, DividesAfterChange
  <2> QED
    BY <2>1, <2>7, <2>15, <1>5 DEF Cuts, PatchArg
<1>6. CASE UNCHANGED <<code, phis>>
  BY <1>6 DEF Cuts, Words
<1>7. CASE OpLabel \/ PatchStart \/ PatchNext \/ UNCHANGED vars
  BY <1>6, <1>7 DEF OpLabel, PatchStart, PatchNext, vars
<1> QED
  BY <1>2, <1>3, <1>4, <1>5, <1>7 DEF Next

\* What every state satisfies when the counts fit.
LEMMA CutsInvariance ==
  ASSUME FittingClient, ShortInstructions
  PROVE  Spec => [](CInv /\ Cuts)
<1>1. Init => Cuts
  <2> SUFFICES ASSUME Init PROVE Cuts
    OBVIOUS
  <2>1. /\ code.insert_index = 0 /\ phis = <<>>
    BY DEF Init, EmptyStream
  <2>2. Words(code) = <<>>
    BY <2>1 DEF Words
  <2>3. Divides({1}, <<>>)
    BY DEF Divides
  <2> QED
    BY <2>1, <2>2, <2>3 DEF Cuts
<1>2. CInv /\ Cuts /\ [Next]_vars => (CInv /\ Cuts)'
  BY NextCInv, NextCuts
<1> QED
  BY <1>1, <1>2, InitCInv, PTL DEF Spec

-----------------------------------------------------------------------------
(* The theorems.                                                           *)

\* The code stream, the recorded addresses and the loops of a patch are well
\* formed: a patch never reads a number of values that no phi has, which is
\* what the unsigned subtraction of PatchDeferredPhi would give at a word that
\* is not a phi.
THEOREM CodeTypeCorrect ==
  ASSUME FittingClient
  PROVE  Spec => []TypeOK
<1>1. CInv => TypeOK
  BY DEF CInv
<1> QED
  BY <1>1, Invariance, PTL

\* No write of any method leaves the vector, and none leaves more than two words
\* of its reservation over.
THEOREM MethodsStayInBounds ==
  ASSUME FittingClient
  PROVE  Spec => []InBounds
<1>1. CInv => InBounds
  BY DEF CInv
<1> QED
  BY <1>1, Invariance, PTL

\* LocalAddress is the size of the vector, and yet DeferredOpPhi records where
\* each phi is, however many instructions with room left over come before.
THEOREM AddressesRight ==
  ASSUME FittingClient
  PROVE  Spec => []PhisAddressed
<1>1. CInv => PhisAddressed
  BY DEF CInv
<1> QED
  BY <1>1, Invariance, PTL

\* The assertion of PatchDeferredPhi never fails, however often it is called and
\* whatever the client's function emits.
THEOREM AssertionHolds ==
  ASSUME FittingClient
  PROVE  Spec => []AssertHolds
<1>1. CInv => AssertHolds
  BY DEF CInv
<1> QED
  BY <1>1, Invariance, PTL

\* By its word counts a reader gets through the stream to its end, with every
\* phi and label in it, at every step of a patch, as long as no instruction has
\* more words than its count can say.
THEOREM StreamReads ==
  ASSUME FittingClient, ShortInstructions
  PROVE  Spec => []CodeReads
<1>1. CInv /\ Cuts => CodeReads
  BY CodeWords, DividedReads DEF Cuts, CodeReads
<1> QED
  BY <1>1, CutsInvariance, PTL

\* An emitted word is for ever what it was, but for the values of deferred phis,
\* which only a patch changes, one at a time and to an id that exists.
THEOREM OnlyValuesPatched ==
  ASSUME FittingClient
  PROVE  Spec => OnlyValuesChange
<1> DEFINE Kept ==
      \A i \in 0 .. code.insert_index - 1 :
        /\ i < code'.insert_index
        /\ code'.words[i] # code.words[i] =>
             /\ patch.node > 0
             /\ i = ValueAt(phis[patch.node], patch.arg)
             /\ code'.words[i] \in 1 .. bound
<1>1. CInv /\ [Next]_vars => [Kept]_vars
  <2> SUFFICES ASSUME CInv, [Next]_vars PROVE Kept \/ UNCHANGED vars
    OBVIOUS
  <2>1. /\ code.insert_index \in Nat /\ code.size \in Nat /\ Cap \in Nat
        /\ code.insert_index =< code.size /\ code.size =< Cap
    BY StateFacts, StreamAssumption
  <2>2. \A i \in 0 .. code.insert_index - 1 :
          i \in Nat /\ i \in Cells /\ i < code.insert_index
    BY <2>1 DEF Cells
  <2>3. CASE \E n \in Nat : Extends(n)
    <3>1. PICK n \in Nat : Extends(n)
      BY <2>3
    <3>2. code'.insert_index = code.insert_index + n
      BY <3>1 DEF Extends
    <3>3. \A i \in 0 .. code.insert_index - 1 :
            i < code'.insert_index /\ code'.words[i] = code.words[i]
      <4> SUFFICES ASSUME NEW i \in 0 .. code.insert_index - 1
                   PROVE  i < code'.insert_index /\ code'.words[i] = code.words[i]
        OBVIOUS
      <4>1. i < code'.insert_index
        BY <2>1, <2>2, <3>2
      <4>2. code'.words[i] = code.words[i]
        BY <2>2, <3>1 DEF Extends
      <4> QED
        BY <4>1, <4>2
    <3> QED
      BY <3>3
  <2>4. CASE code' = code
    BY <2>2, <2>4
  <2>5. CASE PatchArg
    BY <2>2, <2>5, PatchArgFacts
  <2>6. Emit => \E n \in Nat : Extends(n)
    BY EmitExtends
  <2>7. AddLabel => \E n \in Nat : Extends(n)
    BY AddLabelExtends
  <2>8. DeferredOpPhi => \E n \in Nat : Extends(n)
    <3> SUFFICES ASSUME DeferredOpPhi PROVE \E n \in Nat : Extends(n)
      OBVIOUS
    <3>1. PICK n \in 0 .. MaxBlocks : Extends(3 + 2 * n)
      BY DeferExtends
    <3>2. 3 + 2 * n \in Nat
      BY Constants
    <3> QED
      BY <3>1, <3>2
  <2>9. OpLabel \/ PatchStart \/ PatchNext => code' = code
    BY DEF OpLabel, PatchStart, PatchNext
  <2> QED
    BY <2>3, <2>4, <2>5, <2>6, <2>7, <2>8, <2>9 DEF Next
<1> QED
  BY <1>1, Invariance, PTL DEF Spec, OnlyValuesChange

-----------------------------------------------------------------------------
(* What a patch leaves behind.                                             *)

\* While a patch runs, the values it has passed are ids, and so are those that
\* the suspended calls have passed.
Passed(frame) ==
  \A k \in 1 .. frame.node : \A arg \in 0 .. phis[k].args - 1 :
    k < frame.node \/ arg < frame.arg =>
      code.words[ValueAt(phis[k], arg)] \in 1 .. bound

Patched == /\ patch.node > 0 => Passed(patch)
           /\ \A d \in DOMAIN outer : Passed(outer[d])

\* A value that is an id stays one, when a step leaves the words of the stream
\* alone or writes ids.
LEMMA ValuesStay ==
  ASSUME CInv, UNCHANGED phis, bound' \in Nat, bound =< bound',
         \A i \in Cells : i < code.insert_index =>
           code'.words[i] = code.words[i] \/ code'.words[i] \in 1 .. bound',
         NEW k \in 1 .. Len(phis), NEW arg \in 0 .. phis[k].args - 1,
         code.words[ValueAt(phis[k], arg)] \in 1 .. bound
  PROVE  code'.words[ValueAt(phis'[k], arg)] \in 1 .. bound'
<1>1. /\ ValueAt(phis[k], arg) \in Cells
      /\ ValueAt(phis[k], arg) < code.insert_index
  BY PhiCells
<1>2. \/ code'.words[ValueAt(phis[k], arg)] = code.words[ValueAt(phis[k], arg)]
      \/ code'.words[ValueAt(phis[k], arg)] \in 1 .. bound'
  BY <1>1
<1> QED
  BY <1>2, StateFacts

\* So do the values a call has passed.
LEMMA PassedStays ==
  ASSUME CInv, UNCHANGED phis, bound' \in Nat, bound =< bound',
         \A i \in Cells : i < code.insert_index =>
           code'.words[i] = code.words[i] \/ code'.words[i] \in 1 .. bound'
  PROVE  \A frame \in Frame : Passed(frame) =>
           \A k \in 1 .. frame.node : \A arg \in 0 .. phis'[k].args - 1 :
             k < frame.node \/ arg < frame.arg =>
               code'.words[ValueAt(phis'[k], arg)] \in 1 .. bound'
<1> SUFFICES ASSUME NEW frame \in Frame, Passed(frame),
                    NEW k \in 1 .. frame.node, NEW arg \in 0 .. phis[k].args - 1,
                    k < frame.node \/ arg < frame.arg
             PROVE  code'.words[ValueAt(phis'[k], arg)] \in 1 .. bound'
  OBVIOUS
<1>1. code.words[ValueAt(phis[k], arg)] \in 1 .. bound
  BY DEF Passed
<1>2. k \in 1 .. Len(phis)
  <2>1. frame.node \in 0 .. Len(phis) /\ Len(phis) \in Nat
    BY StateFacts DEF CInv, PhisAddressed, Frame
  <2> QED
    BY <2>1
<1> QED
  BY <1>1, <1>2, ValuesStay

\* A step that leaves the words of the stream and the loops alone.
LEMMA ClientPatched ==
  ASSUME CInv, Patched, UNCHANGED <<patch, outer, phis>>,
         bound' \in Nat, bound =< bound',
         \A i \in Cells : i < code.insert_index => code'.words[i] = code.words[i]
  PROVE  Patched'
<1>1. patch \in Frame /\ \A d \in DOMAIN outer : outer[d] \in Frame
  <2>1. outer \in Seq(Frame) /\ patch \in Frame
    BY DEF CInv, TypeOK
  <2> QED
    BY <2>1, ElementOfSeq, LenProperties
<1>2. \A frame \in Frame : Passed(frame) =>
        \A k \in 1 .. frame.node : \A arg \in 0 .. phis'[k].args - 1 :
          k < frame.node \/ arg < frame.arg =>
            code'.words[ValueAt(phis'[k], arg)] \in 1 .. bound'
  BY PassedStays
<1>3. (patch.node > 0 => Passed(patch)) /\ \A d \in DOMAIN outer : Passed(outer[d])
  BY DEF Patched
<1>4. patch'.node > 0 => Passed(patch)'
  BY <1>1, <1>2, <1>3 DEF Passed
<1>5. \A d \in DOMAIN outer' : Passed(outer[d])'
  BY <1>1, <1>2, <1>3 DEF Passed
<1> QED
  BY <1>4, <1>5 DEF Patched

\* PatchDeferredPhi goes on with the next node, is called or returns.
LEMMA LoopPatched ==
  ASSUME CInv, Patched, PatchStart \/ PatchNext
  PROVE  Patched'
<1>1. /\ patch.node \in 0 .. Len(phis) /\ Len(phis) \in Nat
      /\ Len(deferred_phi_nodes) = Len(phis)
      /\ outer \in Seq(Frame) /\ patch \in Frame
  BY StateFacts DEF CInv, TypeOK, Frame, PhisAddressed
<1>2. UNCHANGED <<code, bound, phis, deferred_phi_nodes>>
  BY DEF PatchStart, PatchNext
<1>3. \A frame : Passed(frame) =>
        \A k \in 1 .. frame.node : \A arg \in 0 .. phis'[k].args - 1 :
          k < frame.node \/ arg < frame.arg =>
            code'.words[ValueAt(phis'[k], arg)] \in 1 .. bound'
  BY <1>2 DEF Passed
<1>4. (patch.node > 0 => Passed(patch)) /\ \A d \in DOMAIN outer : Passed(outer[d])
  BY DEF Patched
<1>5. ASSUME patch'.node > 0 => Passed(patch'),
             \A d \in DOMAIN outer' : Passed(outer'[d])
      PROVE  Patched'
  BY <1>2, <1>5 DEF Patched, Passed
<1>6. CASE PatchStart
  <2>1. 1 \in 1 .. Len(deferred_phi_nodes)
    BY <1>1, <1>6 DEF PatchStart, CInv, TypeOK
  <2>2. OuterFits(outer')
    BY <1>1, <1>6, FramesFit DEF PatchStart, CInv, OuterOnPhi
  <2>3. patch'.node = 1 /\ patch'.arg = 0
    BY <2>1, <2>2, <1>6, VisitKeeps DEF PatchStart
  <2>4. Passed(patch')
    <3>1. \A k \in 1 .. 1 : \A arg \in 0 .. phis[k].args - 1 : ~(k < 1 \/ arg < 0)
      <4>1. \A m \in 1 .. Len(phis) : phis[m].args \in Nat
        BY StateFacts
      <4>2. 1 \in 1 .. Len(phis)
        BY <2>1, <1>1
      <4> QED
        BY <4>1, <4>2
    <3> QED
      BY <2>3, <3>1 DEF Passed
  <2>5. \A d \in DOMAIN outer' : Passed(outer'[d])
    <3>1. CASE patch.node = 0
      <4>1. outer' = outer
        BY <1>6, <3>1 DEF PatchStart
      <4> QED
        BY <4>1, <1>4
    <3>2. CASE patch.node # 0
      <4>1. outer' = <<patch>> \o outer /\ Passed(patch)
        BY <1>1, <1>4, <1>6, <3>2 DEF PatchStart
      <4>2. \A d \in DOMAIN outer' :
              outer'[d] = patch \/ \E e \in DOMAIN outer : outer'[d] = outer[e]
        BY <4>1, <1>1, PushFrame
      <4> QED
        BY <4>1, <4>2, <1>4
    <3> QED
      BY <3>1, <3>2
  <2> QED
    BY <2>4, <2>5, <1>5
<1>7. CASE PatchNext /\ patch.node < Len(deferred_phi_nodes)
  <2>1. patch.node + 1 \in 1 .. Len(deferred_phi_nodes) /\ outer' = outer
    BY <1>1, <1>7 DEF PatchNext
  <2>2. patch'.node = patch.node + 1 /\ patch'.arg = 0
    BY <2>1, <1>7, VisitKeeps DEF PatchNext, CInv, OuterOnPhi
  <2>3. patch.node > 0 /\ patch.arg >= phis[patch.node].args
    BY <1>7 DEF PatchNext, CInv, PatchOnPhi, OnPhi
  <2>4. Passed(patch')
    <3> SUFFICES ASSUME NEW k \in 1 .. patch.node + 1,
                        NEW arg \in 0 .. phis[k].args - 1,
                        k < patch.node + 1 \/ arg < 0
                 PROVE  code.words[ValueAt(phis[k], arg)] \in 1 .. bound
      BY <2>2 DEF Passed
    <3>1. \A m \in 1 .. Len(phis) : phis[m].args \in Nat
      BY StateFacts
    <3>2. k \in 1 .. patch.node
      BY <1>1, <1>7, <2>1, <3>1
    <3>3. k < patch.node \/ arg < patch.arg
      <4>1. patch.node \in 1 .. Len(phis) /\ phis[patch.node].args \in Nat
        BY <1>1, <2>3, <3>1
      <4>2. patch.arg \in Nat
        BY <1>1, Constants DEF Frame
      <4>3. CASE k = patch.node
        BY <4>1, <4>2, <4>3, <2>3
      <4>4. CASE k # patch.node
        BY <4>1, <4>4, <3>2
      <4> QED
        BY <4>3, <4>4
    <3> QED
      BY <2>3, <3>2, <3>3, <1>4 DEF Passed
  <2> QED
    BY <2>1, <2>4, <1>4, <1>5
<1>8. CASE PatchNext /\ ~(patch.node < Len(deferred_phi_nodes))
  <2>1. CASE outer = <<>>
    <3>1. patch' = Idle /\ outer' = outer /\ ~(Idle.node > 0)
      BY <2>1, <1>8 DEF PatchNext, PatchEnd, Idle
    <3> QED
      BY <3>1, <1>4, <1>5
  <2>2. CASE outer # <<>>
    <3>1. patch' = Head(outer) /\ outer' = Tail(outer)
      BY <2>2, <1>8 DEF PatchNext, PatchEnd
    <3>2. /\ Head(outer) = outer[1] /\ 1 \in DOMAIN outer
          /\ \A d \in DOMAIN Tail(outer) :
               \E e \in DOMAIN outer : Tail(outer)[d] = outer[e]
      BY <2>2, <1>1, PopFrame
    <3> QED
      BY <3>1, <3>2, <1>4, <1>5
  <2> QED
    BY <2>1, <2>2
<1> QED
  BY <1>6, <1>7, <1>8

\* The function of a call returns an id for a value.
LEMMA ArgPatched ==
  ASSUME CInv, Patched, PatchArg
  PROVE  Patched'
<1>1. /\ patch.node \in 1 .. Len(phis) /\ patch.node > 0
      /\ patch.arg \in 0 .. phis[patch.node].args - 1
      /\ patch.cursor = ValueAt(phis[patch.node], patch.arg)
      /\ code'.words[patch.cursor] \in 1 .. bound
      /\ \A i \in Cells : i # patch.cursor => code'.words[i] = code.words[i]
  BY PatchArgFacts
<1>2. patch \in [node : 0 .. Len(deferred_phi_nodes), arg : 0 .. MaxBlocks,
                 num_args : 0 .. MaxBlocks, cursor : Nat]
  BY DEF CInv, TypeOK, Frame
<1>3. /\ patch'.node = patch.node /\ patch'.arg = patch.arg + 1
      /\ phis' = phis /\ bound' = bound /\ outer' = outer
      /\ Len(phis) \in Nat /\ bound \in Nat /\ bound =< bound'
  BY <1>2, StateFacts DEF PatchArg
<1>4. \A i \in Cells : i < code.insert_index =>
        code'.words[i] = code.words[i] \/ code'.words[i] \in 1 .. bound'
  BY <1>1, <1>3
<1>5. \A d \in DOMAIN outer' : Passed(outer[d])'
  <2>1. \A d \in DOMAIN outer : outer[d] \in Frame
    <3>1. outer \in Seq(Frame)
      BY DEF CInv, TypeOK
    <3> QED
      BY <3>1, ElementOfSeq, LenProperties
  <2>2. \A frame \in Frame : Passed(frame) =>
          \A k \in 1 .. frame.node : \A arg \in 0 .. phis'[k].args - 1 :
            k < frame.node \/ arg < frame.arg =>
              code'.words[ValueAt(phis'[k], arg)] \in 1 .. bound'
    BY <1>3, <1>4, PassedStays
  <2>3. \A d \in DOMAIN outer : Passed(outer[d])
    BY DEF Patched
  <2> QED
    BY <2>1, <2>2, <2>3, <1>3 DEF Passed
<1>6. Passed(patch)'
  <2> SUFFICES ASSUME NEW k \in 1 .. patch.node,
                      NEW arg \in 0 .. phis[k].args - 1,
                      k < patch.node \/ arg < patch.arg + 1
               PROVE  code'.words[ValueAt(phis[k], arg)] \in 1 .. bound
    BY <1>3 DEF Passed
  <2>1. k \in 1 .. Len(phis)
    BY <1>1, <1>3
  <2>2. CASE k = patch.node /\ arg = patch.arg
    BY <1>1, <2>2
  <2>3. CASE k < patch.node \/ arg < patch.arg
    <3>1. code.words[ValueAt(phis[k], arg)] \in 1 .. bound
      BY <1>1, <2>3 DEF Patched, Passed
    <3> QED
      BY <3>1, <2>1, <1>3, <1>4, ValuesStay
  <2>4. k < patch.node \/ (k = patch.node /\ arg = patch.arg) \/ arg < patch.arg
    <3>1. \A m \in 1 .. Len(phis) : phis[m].args \in Nat
      BY StateFacts
    <3> QED
      BY <1>1, <1>3, <2>1, <3>1
  <2> QED
    BY <2>2, <2>3, <2>4
<1> QED
  BY <1>5, <1>6 DEF Patched

\* The client's calls do not touch a value, and a patch passes one at a time.
LEMMA NextPatched ==
  ASSUME FittingClient, CInv, Patched, [Next]_vars
  PROVE  Patched'
<1>1. bound \in Nat
  BY StateFacts
<1>2. CASE UNCHANGED vars
  BY <1>1, <1>2, ClientPatched DEF vars
<1>3. CASE Emit
  <2>1. PICK n \in Nat : Extends(n)
    BY <1>3, EmitExtends
  <2>2. bound' \in Nat /\ bound =< bound'
    BY <1>3, EmitExtends, Constants
  <2> QED
    BY <2>1, <2>2, <1>3, ClientPatched DEF Emit, Extends
<1>4. CASE AddLabel
  BY <1>1, <1>4, AddLabelExtends, ClientPatched DEF AddLabel, Extends
<1>5. CASE OpLabel
  BY <1>1, <1>5, ClientPatched DEF OpLabel
<1>6. CASE DeferredOpPhi
  BY <1>6 DEF DeferredOpPhi, CInv, OuterOnPhi, Patched
<1> QED
  BY <1>2, <1>3, <1>4, <1>5, <1>6, LoopPatched, ArgPatched DEF Next

\* When a call of PatchDeferredPhi returns, every value of every deferred phi is
\* an id: those of the nodes before, those of the last one, and also the values
\* that an earlier patch, or the call it was made from, has written already.
THEOREM PatchComplete ==
  ASSUME FittingClient
  PROVE  Spec => PatchFillsAll
<1> DEFINE Returns == patch.node > 0 /\ (patch'.node = 0 \/ Len(outer') < Len(outer))
           Filled == Returns =>
             \A k \in DOMAIN phis : \A arg \in 0 .. phis[k].args - 1 :
               code'.words[ValueAt(phis[k], arg)] \in 1 .. bound
<1>1. CInv /\ Patched /\ [Next]_vars => [Filled]_vars
  <2> SUFFICES ASSUME CInv, Patched, [Next]_vars, Returns,
                      NEW k \in DOMAIN phis, NEW arg \in 0 .. phis[k].args - 1
               PROVE  code'.words[ValueAt(phis[k], arg)] \in 1 .. bound
    OBVIOUS
  <2>1. /\ patch.node \in 0 .. Len(phis) /\ Len(phis) \in Nat
        /\ Len(deferred_phi_nodes) = Len(phis) /\ patch.arg \in Nat
        /\ k \in 1 .. Len(phis) /\ phis[k].args \in Nat
        /\ Len(outer) \in Nat /\ outer \in Seq(Frame) /\ patch \in Frame
    <3>1. /\ Len(phis) \in Nat /\ k \in 1 .. Len(phis)
          /\ phis[k].args \in Nat /\ MaxBlocks \in Nat
      BY StateFacts, Constants
    <3>2. Len(deferred_phi_nodes) = Len(phis)
      BY DEF CInv, PhisAddressed
    <3>3. patch \in Frame /\ outer \in Seq(Frame)
      BY DEF CInv, TypeOK
    <3>4. patch.node \in 0 .. Len(deferred_phi_nodes) /\ patch.arg \in 0 .. MaxBlocks
      BY <3>3 DEF Frame
    <3>5. Len(outer) \in Nat
      BY <3>3, LenProperties
    <3> QED
      BY <3>1, <3>2, <3>3, <3>4, <3>5
  <2>2. /\ patch.node > 0
        /\ patch'.node = 0 \/ Len(outer') < Len(outer)
    OBVIOUS
  <2> HIDE DEF Returns
  <2>3. ~UNCHANGED <<patch, outer>>
    BY <2>1, <2>2
  <2>4. ~UNCHANGED vars /\ ~Emit /\ ~OpLabel /\ ~AddLabel /\ ~DeferredOpPhi
    BY <2>3 DEF vars, Emit, OpLabel, AddLabel, DeferredOpPhi
  <2>5. ~PatchStart
    <3> SUFFICES ASSUME PatchStart PROVE FALSE
      OBVIOUS
    <3>1. 1 \in 1 .. Len(deferred_phi_nodes)
      BY <2>1
    <3>2. OuterFits(outer')
      BY <2>2, FramesFit DEF PatchStart
    <3>3. patch'.node = 1
      BY <3>1, <3>2, VisitKeeps DEF PatchStart
    <3>4. Len(outer') = Len(outer) + 1
      BY <2>1, <2>2, PushFrame DEF PatchStart
    <3> QED
      BY <3>3, <3>4, <2>1, <2>2
  <2>6. ~PatchArg
    <3> SUFFICES ASSUME PatchArg PROVE FALSE
      OBVIOUS
    <3>1. patch'.node = patch.node /\ outer' = outer
      BY <2>1 DEF PatchArg, Frame
    <3> QED
      BY <3>1, <2>1, <2>2
  <2>7. PatchNext
    BY <2>4, <2>5, <2>6 DEF Next
  <2>8. ~(patch.node < Len(deferred_phi_nodes))
    <3> SUFFICES ASSUME patch.node < Len(deferred_phi_nodes) PROVE FALSE
      OBVIOUS
    <3>1. patch.node + 1 \in 1 .. Len(deferred_phi_nodes) /\ outer' = outer
      BY <2>1, <2>7 DEF PatchNext
    <3>2. patch'.node = patch.node + 1
      BY <3>1, <2>7, VisitKeeps DEF PatchNext, CInv, OuterOnPhi
    <3> QED
      BY <3>1, <3>2, <2>1, <2>2
  <2>9. code' = code /\ patch.arg >= phis[patch.node].args
    BY <2>2, <2>7 DEF PatchNext, CInv, PatchOnPhi, OnPhi
  <2>10. k \in 1 .. patch.node /\ (k < patch.node \/ arg < patch.arg)
    BY <2>1, <2>8, <2>9
  <2> QED
    BY <2>2, <2>9, <2>10 DEF Patched, Passed
<1>2. CInv /\ Patched /\ [Next]_vars => Patched'
  BY NextPatched
<1>3. Init => Patched
  BY DEF Init, Idle, Patched
<1> QED
  BY <1>1, <1>2, <1>3, Invariance, PTL DEF Spec, PatchFillsAll
=============================================================================
