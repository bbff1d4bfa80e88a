----------------------------- MODULE SiritProofs -----------------------------
(***************************************************************************)
(* Theorems about a whole Module: what its other calls are to the          *)
(* declarations, for any client; and for the clients that keep away from   *)
(* what writes outside a vector (FittingCode and FittingModule below) and, *)
(* from what is read on, whose instructions have no more words than a      *)
(* count can say, that what is in a section stays there, what every step   *)
(* is to a reader of the streams, that a module implements Assembler, and  *)
(* that Assemble gives sections in order with every id defined once.       *)
(***************************************************************************)
EXTENDS Sirit, DeclarationsProofs, InstructionsProofs, FiniteSetTheorems

Imports == "ext_inst_imports"

\* What the proofs need of a shape; Fits of Instructions says more.
Described(shape) ==
  /\ shape.id \in BOOLEAN /\ shape.typed \in BOOLEAN
  /\ shape.reserved \in Nat /\ shape.operands \in Nat

Sufficient(shape) == Written(shape) =< shape.reserved

\* The operands are those of the shape, which reserves enough for them.
Exact(shape, operands) ==
  /\ Described(shape) /\ Sufficient(shape)
  /\ operands \in Seq(Word) /\ Len(operands) = shape.operands

\* The clients that do not call what writes behind a vector.  Public methods
\* do: those that take literals, given one of 64 bits, OpAtomicStore and the
\* sparse gathers (ShortMethods), and TypePipe among the declarations.
FittingCode == Widths \subseteq {1} /\ CodeMethods \cap ShortMethods = {}
FittingModule == FittingCode /\ "TypePipe" \notin Api

\* Such a client, and a set that is one when extension.cpp uses it.
OneWord == /\ FittingCode
           /\ extending => glsl_std_450 \in Word

\* Names and spans that fit an instruction, whose count has 16 bits.
ShortClient ==
  /\ ShortOperands
  /\ \A shape \in AllShapes : shape.method \in CodeMethods => Written(shape) < Half
  /\ \A name \in Names \cup {<<>>}, n \in Lengths \cup {0} : Len(name) + n + 5 < Half
  /\ \A extension \in Extensions : Len(extension) + 1 < Half

\* The places of the streams in Layout.
Section == [ext_inst_imports |-> 3, entry_points |-> 5, execution_modes |-> 6,
            debug |-> 7, annotations |-> 8, declarations |-> 9,
            global_variables |-> 10, code |-> 11]

\* The opcode is one of the stream's, and says where the id is.
Apt(name, opcode, shape) ==
  /\ opcode \in Layout[Section[name]]
  /\ opcode \in IdSecond <=> shape.id /\ ~shape.typed
  /\ opcode \in IdThird <=> shape.id /\ shape.typed
  /\ shape.typed => shape.id
  /\ ShortClient => Written(shape) < Half

\* What a consumer reads in the operands: the storage class of a variable, and
\* the set of an extended instruction.
Says(name, opcode, operands) ==
  /\ opcode = Op.OpVariable => /\ Len(operands) >= 1
                               /\ operands[1] = Function <=> name = "code"
  /\ opcode = Op.OpExtInst => /\ Len(operands) >= 2
                              /\ operands[2] = GlslSet =>
                                   extending /\ operands[1] = glsl_std_450

\* A call that puts one instruction into a stream, but for the import.
EmitsThis(name, opcode, shape, operands) ==
  /\ name \in StreamNames \ {Imports}
  /\ opcode \in 1 .. Half - 1
  /\ Emit(name, opcode, shape, operands)
  /\ OneWord => /\ Exact(shape, operands)
                /\ Apt(name, opcode, shape)
                /\ Says(name, opcode, operands)

Emits == /\ \E name, opcode, shape, operands :
              EmitsThis(name, opcode, shape, operands)
         /\ UNCHANGED <<glsl_std_450, labels>>

ImportShape == Shape("GetGLSLstd450", TRUE, FALSE, 3 + 4, 4)

\* The call that imports the instruction set.
Import ==
  /\ glsl_std_450 = 0
  /\ Emit(Imports, Op.OpExtInstImport, ImportShape, Repeat(Operand, 4))
  /\ glsl_std_450' = bound + 1
  /\ UNCHANGED labels

\* A call that touches neither streams nor ids.
Elsewhere == UNCHANGED <<vars, streams, glsl_std_450, labels>>

-----------------------------------------------------------------------------
(* Constants.                                                              *)

\* The opcodes fit the lower half of a word.
LEMMA Opcodes ==
  /\ Op.OpUndef \in 1 .. Half - 1 /\ Op.OpName \in 1 .. Half - 1
  /\ Op.OpMemberName \in 1 .. Half - 1 /\ Op.OpString \in 1 .. Half - 1
  /\ Op.OpLine \in 1 .. Half - 1 /\ Op.OpExtInstImport \in 1 .. Half - 1
  /\ Op.OpExtInst \in 1 .. Half - 1 /\ Op.OpEntryPoint \in 1 .. Half - 1
  /\ Op.OpExecutionMode \in 1 .. Half - 1 /\ Op.OpVariable \in 1 .. Half - 1
  /\ Op.OpDecorate \in 1 .. Half - 1 /\ Op.OpMemberDecorate \in 1 .. Half - 1
  /\ Op.OpLabel \in 1 .. Half - 1 /\ Op.OpReturn \in 1 .. Half - 1
<1>1. Half \in Nat /\ Half > 253
  BY StreamAssumption, SiritAssumption
<1> QED
  BY <1>1 DEF Op

\* The opcodes as numbers.
LEMMA OpNumbers ==
  /\ Op.OpUndef = 1 /\ Op.OpName = 5 /\ Op.OpMemberName = 6 /\ Op.OpString = 7
  /\ Op.OpLine = 8 /\ Op.OpExtension = 10 /\ Op.OpExtInstImport = 11
  /\ Op.OpExtInst = 12 /\ Op.OpMemoryModel = 14 /\ Op.OpEntryPoint = 15
  /\ Op.OpExecutionMode = 16 /\ Op.OpCapability = 17 /\ Op.OpVariable = 59
  /\ Op.OpDecorate = 71 /\ Op.OpMemberDecorate = 72 /\ Op.OpLabel = 248
  /\ Op.OpReturn = 253
  BY DEF Op

\* The opcodes of the declarations: first the types', then the constants'.
LEMMA DeclarationNumbers ==
  /\ DeclarationOps \subseteq 19 .. 46
  /\ \A x \in DeclarationOps : x \in TypeOps <=> x < 40
  /\ TypeOps \subseteq DeclarationOps
<1>1. \A m \in DOMAIN Opcode : Opcode[m] \in 19 .. 46
  BY DEF Opcode
<1> QED BY <1>1 DEF DeclarationOps, TypeOps

\* Where the id of an instruction is, by its opcode.
LEMMA IdPlaces ==
  ASSUME NEW x \in Nat
  PROVE  /\ x \in IdSecond <=> x \in {7, 11, 248} \/ x \in TypeOps
         /\ x \in IdThird <=> x \in {1, 12, 59} \/ x \in DeclarationOps \ TypeOps
         /\ x \notin 19 .. 46 => x \notin DeclarationOps /\ x \notin TypeOps
  BY OpNumbers, DeclarationNumbers DEF IdSecond, IdThird

\* The opcodes of the eleven sections.
LEMMA LayoutFacts ==
  /\ Len(Layout) = 11 /\ DOMAIN Layout = 1 .. 11
  /\ Layout[1] = {17} /\ Layout[2] = {10} /\ Layout[3] = {11} /\ Layout[4] = {14}
  /\ Layout[5] = {15} /\ Layout[6] = {16} /\ Layout[7] = {5, 6, 7, 8}
  /\ Layout[8] = {71, 72} /\ Layout[9] = DeclarationOps /\ Layout[10] = {59}
  /\ Layout[11] = {1, 12, 59, 248, 253}
  BY OpNumbers DEF Layout, CodeOps

\* The places of the sections.
LEMMA SectionFacts ==
  /\ Section["ext_inst_imports"] = 3 /\ Section["entry_points"] = 5
  /\ Section["execution_modes"] = 6 /\ Section["debug"] = 7
  /\ Section["annotations"] = 8 /\ Section["declarations"] = 9
  /\ Section["global_variables"] = 10 /\ Section["code"] = 11
  BY DEF Section

\* The opcodes of the streams that are not the declarations', and their ids.
LEMMA AptOpcodes ==
  /\ Op.OpEntryPoint \in Layout[Section["entry_points"]]
  /\ Op.OpExecutionMode \in Layout[Section["execution_modes"]]
  /\ \A x \in {Op.OpName, Op.OpMemberName, Op.OpString, Op.OpLine} :
       x \in Layout[Section["debug"]]
  /\ \A x \in {Op.OpDecorate, Op.OpMemberDecorate} :
       x \in Layout[Section["annotations"]]
  /\ Op.OpVariable \in Layout[Section["global_variables"]]
  /\ \A x \in {Op.OpVariable, Op.OpExtInst, Op.OpUndef, Op.OpReturn} :
       x \in Layout[Section["code"]]
  /\ \A x \in {Op.OpEntryPoint, Op.OpExecutionMode, Op.OpName, Op.OpMemberName,
               Op.OpLine, Op.OpDecorate, Op.OpMemberDecorate, Op.OpReturn} :
       x \notin IdSecond /\ x \notin IdThird /\ x # Op.OpVariable /\ x # Op.OpExtInst
  /\ \A x \in {Op.OpUndef, Op.OpVariable, Op.OpExtInst} :
       x \notin IdSecond /\ x \in IdThird
  /\ Op.OpString \in IdSecond /\ Op.OpString \notin IdThird
  /\ Op.OpString # Op.OpVariable /\ Op.OpString # Op.OpExtInst
  /\ Op.OpUndef # Op.OpVariable /\ Op.OpUndef # Op.OpExtInst
  /\ Op.OpVariable # Op.OpExtInst
  BY OpNumbers, IdPlaces, LayoutFacts, SectionFacts

\* The facts about constants that the proofs use.
LEMMA Constants ==
  /\ Half \in Nat /\ Half > 253 /\ Cap \in Nat
  /\ MaxId \in Nat /\ \A i \in 0 .. MaxId : i \in Word
  /\ \A i \in 0 .. Half - 1 : i \in Word
  /\ Operand \in Word /\ ClientSet \in Word /\ GlslSet \in Word /\ Function \in Word
<1>1. Half \in Nat /\ Half > 253 /\ Cap \in Nat /\ MaxId \in Word
  BY StreamAssumption, SiritAssumption, DeclarationsAssumption
<1>2. MaxId \in Nat /\ \A i \in 0 .. MaxId : i \in Word
  BY <1>1, WordFacts DEF Word
<1>3. \A i \in 0 .. Half - 1 : i \in Word
  BY WordFacts
<1>4. 1 \in 0 .. Half - 1 /\ 2 \in 0 .. Half - 1 /\ 7 \in 0 .. Half - 1
  BY <1>1
<1> QED
  BY <1>1, <1>2, <1>3, <1>4 DEF Operand, ClientSet, GlslSet, Function

\* Operands that do not matter.
LEMMA Repeated ==
  ASSUME NEW word \in Word, NEW n \in Nat
  PROVE  Repeat(word, n) \in Seq(Word) /\ Len(Repeat(word, n)) = n
  BY DEF Repeat

-----------------------------------------------------------------------------
(* The calls that put one instruction into a stream.                       *)

\* A call whose operands do not matter puts in an instruction of its section.
LEMMA AnyEmits ==
  ASSUME NEW name \in StreamNames \ {Imports}, NEW opcode \in 1 .. Half - 1,
         NEW shape, EmitAny(name, opcode, shape), opcode # Op.OpExtInst,
         opcode = Op.OpVariable => name # "code" /\ shape.operands >= 1,
         OneWord => /\ Described(shape) /\ Sufficient(shape)
                    /\ Apt(name, opcode, shape)
  PROVE  Emits
<1> DEFINE operands == Repeat(Operand, shape.operands)
<1>1. OneWord => operands \in Seq(Word) /\ Len(operands) = shape.operands
  BY Constants, Repeated DEF Described
<1>2. Emit(name, opcode, shape, operands) /\ UNCHANGED <<glsl_std_450, labels>>
  BY DEF EmitAny
<1>3. ASSUME OneWord PROVE Says(name, opcode, operands)
  <2>1. Len(operands) = shape.operands
    BY <1>1, <1>3
  <2>2. ASSUME opcode = Op.OpVariable
        PROVE  Len(operands) >= 1 /\ operands[1] # Function /\ name # "code"
    <3>1. shape.operands \in Nat /\ shape.operands >= 1
      BY <1>3, <2>2 DEF Described
    <3>2. 1 \in 1 .. shape.operands
      BY <3>1
    <3>3. operands[1] = Operand
      BY <3>2 DEF Repeat
    <3> QED BY <2>1, <2>2, <3>1, <3>3 DEF Operand, Function
  <2> HIDE DEF operands
  <2> QED BY <2>2 DEF Says
<1> HIDE DEF operands
<1>4. EmitsThis(name, opcode, shape, operands)
  BY <1>1, <1>2, <1>3 DEF EmitsThis, Exact
<1> QED
  BY <1>2, <1>4 DEF Emits

\* A method with no id, of which nothing but the numbers matters.
LEMMA PlainEmits ==
  ASSUME NEW name \in StreamNames \ {Imports}, NEW opcode \in 1 .. Half - 1,
         opcode \in Layout[Section[name]], opcode \notin IdSecond,
         opcode \notin IdThird, opcode # Op.OpVariable, opcode # Op.OpExtInst,
         NEW m, NEW r \in Nat, NEW o \in Nat,
         EmitAny(name, opcode, Plain(m, r, o)), Widths \subseteq {1} => 1 + o =< r,
         Widths \subseteq {1} /\ ShortClient => 1 + o < Half
  PROVE  Emits
<1> DEFINE shape == Plain(m, r, o)
<1>1. /\ shape.id = FALSE /\ shape.typed = FALSE /\ Described(shape)
      /\ shape.reserved = r /\ Written(shape) = 1 + o
  BY DEF Plain, Shape, Described, Written
<1>2. EmitAny(name, opcode, shape)
  OBVIOUS
<1> HIDE DEF shape
<1>3. OneWord => Sufficient(shape) /\ Apt(name, opcode, shape)
  BY <1>1 DEF OneWord, FittingCode, Sufficient, Apt
<1> QED
  BY <1>1, <1>2, <1>3, AnyEmits

\* Either kind of operand alone.
LEMMA ShortFacts ==
  ASSUME ShortClient
  PROVE  /\ \A n \in Lengths : n + 5 < Half
         /\ \A name \in Names : Len(name) + 5 < Half
<1>0. Lengths \subseteq Nat /\ \A name \in Names : Len(name) \in Nat
  BY InstructionsAssumption, DeclarationsAssumption, LenProperties
<1>1. \A name \in Names \cup {<<>>}, n \in Lengths \cup {0} : Len(name) + n + 5 < Half
  BY DEF ShortClient
<1>2. \A n \in Lengths : Len(<<>>) + n + 5 < Half
  BY <1>1
<1>3. \A name \in Names : Len(name) + 0 + 5 < Half
  BY <1>1
<1> QED BY <1>0, <1>2, <1>3

\* The methods of sirit.cpp.
LEMMA SiritEmits ==
  ASSUME AddEntryPoint \/ AddExecutionMode \/ AddLocalVariable \/ AddGlobalVariable
  PROVE  Emits
<1>0. /\ Lengths \subseteq Nat /\ Widths \subseteq {1, 2} /\ Maybe = {0, 1}
      /\ \A name \in Names : Len(name) \in Nat
  BY InstructionsAssumption, SiritAssumption DEF Maybe
<1>l. /\ Half \in Nat
      /\ ShortClient => /\ \A n \in Lengths : n + 5 < Half
                        /\ \A name \in Names : Len(name) + 5 < Half
  BY ShortFacts, Constants
<1>1. CASE AddEntryPoint
  <2>1. PICK name \in Names, n \in Lengths :
          EmitAny("entry_points", Op.OpEntryPoint,
                  Plain("AddEntryPoint", 4 + Len(name) + n, 2 + Len(name) + n))
    BY <1>1 DEF AddEntryPoint
  <2>2. /\ 4 + Len(name) + n \in Nat /\ 2 + Len(name) + n \in Nat
        /\ 1 + (2 + Len(name) + n) =< 4 + Len(name) + n
    BY <1>0
  <2>3. "entry_points" \in StreamNames \ {Imports}
    BY DEF StreamNames, Imports
  <2>4. ShortClient => 1 + (2 + Len(name) + n) < Half
    BY <1>0, Constants DEF ShortClient
  <2> QED BY <2>1, <2>2, <2>3, <2>4, Opcodes, AptOpcodes, PlainEmits
<1>2. CASE AddExecutionMode
  <2>1. PICK n \in Lengths, w \in Widths :
          EmitAny("execution_modes", Op.OpExecutionMode,
                  Plain("AddExecutionMode", 3 + n, 2 + n * w))
    BY <1>2 DEF AddExecutionMode
  <2>2. /\ 3 + n \in Nat /\ 2 + n * w \in Nat
        /\ Widths \subseteq {1} => 1 + (2 + n * w) =< 3 + n
    BY <1>0
  <2>3. "execution_modes" \in StreamNames \ {Imports}
    BY DEF StreamNames, Imports
  <2>4. Widths \subseteq {1} /\ ShortClient => 1 + (2 + n * w) < Half
    BY <1>0, <1>l
  <2> QED BY <2>1, <2>2, <2>3, <2>4, Opcodes, AptOpcodes, PlainEmits
<1>3. CASE AddLocalVariable
  <2>1. PICK initializer \in Maybe :
          /\ Emit("code", Op.OpVariable, Typed("AddLocalVariable", 5, 1 + initializer),
                  <<Function>> \o Repeat(Operand, initializer))
          /\ UNCHANGED <<header, glsl_std_450, extending, labels>>
    BY <1>3 DEF AddLocalVariable
  <2> DEFINE shape == Typed("AddLocalVariable", 5, 1 + initializer)
             operands == <<Function>> \o Repeat(Operand, initializer)
  <2>2. /\ Described(shape) /\ shape.operands = 1 + initializer /\ Sufficient(shape)
        /\ shape.id = TRUE /\ shape.typed = TRUE /\ Written(shape) < Half
    BY <1>0, Constants DEF Typed, Shape, Described, Sufficient, Written
  <2>3. /\ operands \in Seq(Word) /\ Len(operands) = 1 + initializer
        /\ operands[1] = Function
    <3>1. /\ Repeat(Operand, initializer) \in Seq(Word)
          /\ Len(Repeat(Operand, initializer)) = initializer
      BY <1>0, Constants, Repeated
    <3>2. <<Function>> \in Seq(Word) /\ Len(<<Function>>) = 1
      BY Constants
    <3> HIDE DEF Repeat
    <3>3. operands \in Seq(Word) /\ Len(operands) = 1 + initializer
      BY <1>0, <3>1, <3>2
    <3>4. operands[1] = Function
      BY <1>0, <3>1
    <3> QED BY <3>3, <3>4
  <2>4. "code" \in StreamNames \ {Imports}
    BY DEF StreamNames, Imports
  <2> HIDE DEF shape, operands
  <2>5. Apt("code", Op.OpVariable, shape)
    BY <2>2, AptOpcodes DEF Apt
  <2>6. Says("code", Op.OpVariable, operands)
    BY <1>0, <2>3, AptOpcodes DEF Says
  <2>7. Emit("code", Op.OpVariable, shape, operands)
    BY <2>1 DEF shape, operands
  <2>8. EmitsThis("code", Op.OpVariable, shape, operands)
    BY <2>2, <2>3, <2>4, <2>5, <2>6, <2>7, Opcodes DEF EmitsThis, Exact
  <2> QED BY <2>1, <2>8 DEF Emits
<1>4. CASE AddGlobalVariable
  <2>1. PICK initializer \in Maybe :
          EmitAny("global_variables", Op.OpVariable,
                  Typed("AddGlobalVariable", 5, 1 + initializer))
    BY <1>4 DEF AddGlobalVariable
  <2> DEFINE shape == Typed("AddGlobalVariable", 5, 1 + initializer)
  <2>2. /\ Described(shape) /\ shape.operands = 1 + initializer /\ Sufficient(shape)
        /\ shape.id = TRUE /\ shape.typed = TRUE /\ Written(shape) < Half
        /\ shape.operands >= 1
    BY <1>0, Constants DEF Typed, Shape, Described, Sufficient, Written
  <2>3. "global_variables" \in StreamNames \ {Imports} /\ "global_variables" # "code"
    BY DEF StreamNames, Imports
  <2> HIDE DEF shape
  <2>4. Apt("global_variables", Op.OpVariable, shape)
    BY <2>2, AptOpcodes DEF Apt
  <2>5. EmitAny("global_variables", Op.OpVariable, shape)
    BY <2>1 DEF shape
  <2> QED BY <2>2, <2>3, <2>4, <2>5, Opcodes, AptOpcodes, AnyEmits
<1> QED BY <1>1, <1>2, <1>3, <1>4

\* The methods of debug.cpp and annotation.cpp.
LEMMA TextEmits ==
  ASSUME \/ Name \/ MemberName \/ String \/ OpLine \/ Decorate \/ MemberDecorate
  PROVE  Emits
<1>0. /\ Lengths \subseteq Nat /\ Widths \subseteq {1, 2}
      /\ \A name \in Names : Len(name) \in Nat
  BY InstructionsAssumption, SiritAssumption
<1>s. "debug" \in StreamNames \ {Imports} /\ "annotations" \in StreamNames \ {Imports}
  BY DEF StreamNames, Imports
<1>l. /\ Half \in Nat
      /\ ShortClient => /\ \A n \in Lengths : n + 5 < Half
                        /\ \A name \in Names : Len(name) + 5 < Half
  BY ShortFacts, Constants
<1>1. CASE Name
  <2>1. PICK name \in Names :
          EmitAny("debug", Op.OpName, Plain("Name", 3 + Len(name), 1 + Len(name)))
    BY <1>1 DEF Name
  <2>2. /\ 3 + Len(name) \in Nat /\ 1 + Len(name) \in Nat
        /\ 1 + (1 + Len(name)) =< 3 + Len(name)
    BY <1>0
  <2>3. ShortClient => 1 + (1 + Len(name)) < Half
    <3>1. Len(name) \in Nat /\ Half \in Nat /\ (ShortClient => Len(name) + 5 < Half)
      BY <1>0, <1>l
    <3> QED BY <3>1
  <2> QED BY <1>s, <2>1, <2>2, <2>3, Opcodes, AptOpcodes, PlainEmits
<1>2. CASE MemberName
  <2>1. PICK name \in Names :
          EmitAny("debug", Op.OpMemberName,
                  Plain("MemberName", 4 + Len(name), 2 + Len(name)))
    BY <1>2 DEF MemberName
  <2>2. /\ 4 + Len(name) \in Nat /\ 2 + Len(name) \in Nat
        /\ 1 + (2 + Len(name)) =< 4 + Len(name)
    BY <1>0
  <2>3. ShortClient => 1 + (2 + Len(name)) < Half
    <3>1. Len(name) \in Nat /\ Half \in Nat /\ (ShortClient => Len(name) + 5 < Half)
      BY <1>0, <1>l
    <3> QED BY <3>1
  <2> QED BY <1>s, <2>1, <2>2, <2>3, Opcodes, AptOpcodes, PlainEmits
<1>3. CASE String
  <2>1. PICK string \in Names :
          EmitAny("debug", Op.OpString,
                  Shape("String", TRUE, FALSE, 3 + Len(string), Len(string)))
    BY <1>3 DEF String
  <2> DEFINE shape == Shape("String", TRUE, FALSE, 3 + Len(string), Len(string))
  <2>2. /\ Described(shape) /\ Sufficient(shape)
        /\ shape.id = TRUE /\ shape.typed = FALSE
        /\ Written(shape) = 2 + Len(string)
    BY <1>0 DEF Shape, Described, Sufficient, Written
  <2>5. ShortClient => Written(shape) < Half
    <3>1. Len(string) \in Nat /\ Half \in Nat /\ (ShortClient => Len(string) + 5 < Half)
      BY <1>0, <1>l
    <3> HIDE DEF shape
    <3> QED BY <2>2, <3>1
  <2> HIDE DEF shape
  <2>3. EmitAny("debug", Op.OpString, shape)
    BY <2>1 DEF shape
  <2>4. Apt("debug", Op.OpString, shape)
    BY <2>2, <2>5, AptOpcodes DEF Apt
  <2> QED BY <1>s, <2>2, <2>3, <2>4, Opcodes, AptOpcodes, AnyEmits
<1>4. CASE OpLine
  <2>1. PICK line \in Widths, column \in Widths :
          EmitAny("debug", Op.OpLine, Plain("OpLine", 4, 1 + line + column))
    BY <1>4 DEF OpLine
  <2>2. /\ 1 + line + column \in Nat
        /\ Widths \subseteq {1} => 1 + (1 + line + column) =< 4
    BY <1>0
  <2>3. Widths \subseteq {1} /\ ShortClient => 1 + (1 + line + column) < Half
    BY <1>0, <1>l, Constants
  <2> QED BY <1>s, <2>1, <2>2, <2>3, Opcodes, AptOpcodes, PlainEmits
<1>5. CASE Decorate
  <2>1. PICK n \in Lengths, w \in Widths :
          EmitAny("annotations", Op.OpDecorate, Plain("Decorate", 3 + n, 2 + n * w))
    BY <1>5 DEF Decorate
  <2>2. /\ 3 + n \in Nat /\ 2 + n * w \in Nat
        /\ Widths \subseteq {1} => 1 + (2 + n * w) =< 3 + n
    BY <1>0
  <2>3. Widths \subseteq {1} /\ ShortClient => 1 + (2 + n * w) < Half
    BY <1>0, <1>l
  <2> QED BY <1>s, <2>1, <2>2, <2>3, Opcodes, AptOpcodes, PlainEmits
<1>6. CASE MemberDecorate
  <2>1. PICK n \in Lengths, member \in Widths, w \in Widths :
          EmitAny("annotations", Op.OpMemberDecorate,
                  Plain("MemberDecorate", 4 + n, 2 + member + n * w))
    BY <1>6 DEF MemberDecorate
  <2>2. /\ 4 + n \in Nat /\ 2 + member + n * w \in Nat
        /\ Widths \subseteq {1} => 1 + (2 + member + n * w) =< 4 + n
    BY <1>0
  <2>3. Widths \subseteq {1} /\ ShortClient => 1 + (2 + member + n * w) < Half
    BY <1>0, <1>l
  <2> QED BY <1>s, <2>1, <2>2, <2>3, Opcodes, AptOpcodes, PlainEmits
<1> QED BY <1>1, <1>2, <1>3, <1>4, <1>5, <1>6

\* OpExtInst, of a client or of a method of extension.cpp.
LEMMA ExtInstEmits ==
  ASSUME NEW set, NEW instruction \in Word, NEW n \in Lengths,
         OneWord => set \in Word, EmitExtInst(set, instruction, n),
         instruction = GlslSet => extending /\ set = glsl_std_450
  PROVE  Emits
<1> DEFINE shape == Typed("OpExtInst", 5 + n, 2 + n)
           operands == <<set, instruction>> \o Repeat(Operand, n)
<1>0. n \in Nat
  BY InstructionsAssumption
<1>1. /\ Emit("code", Op.OpExtInst, shape, operands)
      /\ UNCHANGED <<glsl_std_450, labels>>
  BY DEF EmitExtInst
<1>2. /\ Described(shape) /\ Sufficient(shape) /\ shape.operands = 2 + n
      /\ shape.id = TRUE /\ shape.typed = TRUE /\ Written(shape) = 5 + n
  BY <1>0 DEF Typed, Shape, Described, Sufficient, Written
<1>3. OneWord => /\ operands \in Seq(Word) /\ Len(operands) = 2 + n
                 /\ operands[1] = set /\ operands[2] = instruction
  <2>1. Repeat(Operand, n) \in Seq(Word) /\ Len(Repeat(Operand, n)) = n
    BY <1>0, Constants, Repeated
  <2>2. set \in Word => /\ <<set, instruction>> \in Seq(Word)
                        /\ Len(<<set, instruction>>) = 2
    OBVIOUS
  <2> HIDE DEF Repeat
  <2>3. set \in Word => operands \in Seq(Word) /\ Len(operands) = 2 + n
    BY <1>0, <2>1, <2>2
  <2>4. set \in Word => operands[1] = set /\ operands[2] = instruction
    BY <1>0, <2>1
  <2> QED BY <2>3, <2>4
<1>4. "code" \in StreamNames \ {Imports}
  BY DEF StreamNames, Imports
<1> HIDE DEF shape, operands
<1>5. ShortClient => Written(shape) < Half
  BY <1>0, <1>2, ShortFacts, Constants
<1>6. Apt("code", Op.OpExtInst, shape)
  BY <1>2, <1>5, AptOpcodes DEF Apt
<1>7. OneWord => Says("code", Op.OpExtInst, operands)
  BY <1>0, <1>3, AptOpcodes DEF Says
<1>8. EmitsThis("code", Op.OpExtInst, shape, operands)
  BY <1>1, <1>2, <1>3, <1>4, <1>6, <1>7, Opcodes DEF EmitsThis, Exact
<1> QED BY <1>1, <1>8 DEF Emits

\* The other methods that write to the code stream.
LEMMA CodeMethodEmits ==
  ASSUME CodeMethod
  PROVE  Emits
<1>1. PICK shape \in AllShapes :
        /\ shape.method \in CodeMethods
        /\ EmitAny("code", IF shape.id THEN Op.OpUndef ELSE Op.OpReturn, shape)
  BY DEF CodeMethod
<1>2. OneWord => shape.method \notin ShortMethods
  BY <1>1 DEF OneWord, FittingCode
<1>3. OneWord => /\ Described(shape) /\ Sufficient(shape)
                 /\ shape.id \in BOOLEAN /\ shape.typed = shape.id
  BY <1>2, AllSound DEF OneWord, FittingCode, Sound, Fits, Described, Sufficient
<1>4. "code" \in StreamNames \ {Imports}
  BY DEF StreamNames, Imports
<1>5. PICK opcode : opcode = IF shape.id THEN Op.OpUndef ELSE Op.OpReturn
  OBVIOUS
<1>6. /\ opcode \in 1 .. Half - 1 /\ opcode \in Layout[Section["code"]]
      /\ opcode # Op.OpExtInst /\ opcode # Op.OpVariable /\ opcode \notin IdSecond
  BY <1>5, Opcodes, AptOpcodes
<1>7. ShortClient => Written(shape) < Half
  BY <1>1 DEF ShortClient
<1>8. OneWord => Apt("code", opcode, shape)
  <2>1. shape.id => opcode \in IdThird
    BY <1>5, AptOpcodes
  <2>2. ~shape.id => opcode \notin IdThird
    BY <1>5, AptOpcodes
  <2> QED BY <1>3, <1>6, <1>7, <2>1, <2>2 DEF Apt
<1> QED BY <1>1, <1>3, <1>4, <1>5, <1>6, <1>8, AnyEmits

-----------------------------------------------------------------------------
(* All the steps.                                                          *)

\* Every call of a client is one of these.
LEMMA ModuleCases ==
  ASSUME ModuleNext
  PROVE  DeclaringCall \/ OpLabel \/ AddLabel \/ Emits \/ Import \/ Elsewhere
<1>1. CASE extending /\ EndExtension
  <2>1. PICK n \in Lengths \cap (1 .. 3) : EmitExtInst(glsl_std_450, GlslSet, n)
    BY <1>1 DEF EndExtension
  <2>2. GlslSet \in Word /\ n \in Lengths
    BY Constants
  <2> QED BY <1>1, <2>1, <2>2, ExtInstEmits DEF OneWord
<1>2. CASE OpExtInst
  <2>1. PICK n \in Lengths : EmitExtInst(Operand, ClientSet, n)
    BY <1>2 DEF OpExtInst
  <2>2. Operand \in Word /\ ClientSet \in Word /\ ClientSet # GlslSet
    BY Constants DEF ClientSet, GlslSet
  <2> QED BY <2>1, <2>2, ExtInstEmits
<1>3. CASE BeginExtension
  BY <1>3 DEF BeginExtension, GetGLSLstd450, Import, Imports, ImportShape, Elsewhere
<1>4. CASE AddCapability \/ AddExtension \/ SetMemoryModel
  BY <1>4 DEF AddCapability, AddExtension, SetMemoryModel, Elsewhere
<1>5. CASE AddEntryPoint \/ AddExecutionMode \/ AddLocalVariable \/ AddGlobalVariable
  BY <1>5, SiritEmits
<1>6. CASE Name \/ MemberName \/ String \/ OpLine \/ Decorate \/ MemberDecorate
  BY <1>6, TextEmits
<1>7. CASE CodeMethod
  BY <1>7, CodeMethodEmits
<1> QED BY <1>1, <1>2, <1>3, <1>4, <1>5, <1>6, <1>7 DEF ModuleNext, Call

-----------------------------------------------------------------------------
(* What the calls are to the declarations.                                 *)

\* An instruction in another stream takes an id or leaves the declarations
\* alone.
LEMMA EmitDeclares ==
  ASSUME NEW name, NEW opcode, NEW shape, NEW operands,
         Emit(name, opcode, shape, operands)
  PROVE  AllocateElsewhere \/ UNCHANGED vars
<1>1. CASE shape.id
  BY <1>1 DEF Emit, AllocateElsewhere
<1>2. CASE ~shape.id
  BY <1>2 DEF Emit, vars
<1> QED BY <1>1, <1>2

\* And so is every step of a module.
LEMMA NextDeclares ==
  ASSUME [ModuleNext]_module_vars
  PROVE  Next \/ UNCHANGED vars
<1>1. CASE DeclaringCall
  BY <1>1 DEF DeclaringCall, Next
<1>2. CASE OpLabel
  BY <1>2 DEF OpLabel, AllocateElsewhere, Next
<1>3. CASE AddLabel \/ Elsewhere
  BY <1>3 DEF AddLabel, Elsewhere
<1>4. CASE Emits \/ Import
  BY <1>4, EmitDeclares DEF Emits, EmitsThis, Import, Next
<1>5. CASE UNCHANGED module_vars
  BY <1>5 DEF module_vars
<1> QED BY <1>1, <1>2, <1>3, <1>4, <1>5, ModuleCases

\* Whatever a client calls, the declarations see a caller that sometimes takes
\* an id elsewhere, so what is proved of every such caller holds in a module:
\* equal requests share an id and no id is handed out twice.
THEOREM DeclaresAsAlone == ModuleSpec => Declares
<1>1. ModuleInit => Init
  BY DEF ModuleInit
<1>2. [ModuleNext]_module_vars => [Next]_vars
  BY NextDeclares
<1> QED
  BY <1>1, <1>2, PTL DEF ModuleSpec, Declares, Spec

-----------------------------------------------------------------------------
(* The counter, which the declarations may turn back once.                 *)

\* Every method of type.cpp and constant.cpp is a call of Declare.
LEMMA MethodDeclares ==
  ASSUME Method
  PROVE  \E method, reserved, result_type, operands :
           Declare(method, reserved, result_type, operands)
<1>1. CASE \/ TypeVoid \/ TypeBool \/ TypeInt \/ TypeFloat \/ TypeVector
           \/ TypeMatrix \/ TypeImage \/ TypeSampler \/ TypeSampledImage
  BY <1>1 DEF TypeVoid, TypeBool, TypeInt, TypeFloat, TypeVector,
              TypeMatrix, TypeImage, TypeSampler, TypeSampledImage
<1>2. CASE \/ TypeArray \/ TypeRuntimeArray \/ TypeStruct \/ TypeOpaque
           \/ TypePointer \/ TypeFunction \/ TypeEvent \/ TypeDeviceEvent
           \/ TypeReserveId \/ TypeQueue \/ TypePipe
  BY <1>2 DEF TypeArray, TypeRuntimeArray, TypeStruct, TypeOpaque,
              TypePointer, TypeFunction, TypeEvent, TypeDeviceEvent,
              TypeReserveId, TypeQueue, TypePipe
<1>3. CASE \/ ConstantTrue \/ ConstantFalse \/ Constant \/ ConstantComposite
           \/ ConstantSampler \/ ConstantNull
  BY <1>3 DEF ConstantTrue, ConstantFalse, Constant, ConstantComposite,
              ConstantSampler, ConstantNull
<1> QED BY <1>1, <1>2, <1>3 DEF Method

\* A declaration takes one id or, undone, none.
LEMMA DeclareBound ==
  ASSUME DeclaringCall, bound \in 0 .. MaxId
  PROVE  bound' \in bound .. bound + 1 /\ bound' =< MaxId /\ UNCHANGED others
<1>1. PICK method, reserved, result_type, operands :
        Declare(method, reserved, result_type, operands)
  BY MethodDeclares DEF DeclaringCall
<1>2. bound < MaxId /\ MaxId \in Nat
  BY <1>1, Constants DEF Declare
<1>3. bound' = bound + 1 \/ bound' = (bound + 1) - 1
  BY <1>1 DEF Declare, Insert, Undo
<1> QED BY <1>2, <1>3 DEF DeclaringCall

-----------------------------------------------------------------------------
(* The words of an instruction.                                            *)

\* The first words of an instruction: where the opcode and the id are.
LEMMA FirstWordsFacts ==
  ASSUME bound \in 0 .. MaxId, NEW opcode \in 1 .. Half - 1, NEW shape,
         Described(shape), shape.id => bound < MaxId
  PROVE  LET head == FirstWords(opcode, shape)
         IN  /\ head \in Seq(Word)
             /\ Len(head) = Written(shape) - shape.operands
             /\ head[1] = opcode
             /\ Len(head) \in 1 .. 3
             /\ shape.id /\ ~shape.typed => Len(head) = 2 /\ head[2] = bound + 1
             /\ shape.id /\ shape.typed => Len(head) = 3 /\ head[3] = bound + 1
<1>1. opcode \in Word /\ Operand \in Word /\ (shape.id => bound + 1 \in Word)
  BY Constants
<1>2. CASE shape.typed /\ shape.id
  <2>1. FirstWords(opcode, shape) = <<opcode>> \o <<Operand>> \o <<bound + 1>>
    BY <1>2 DEF FirstWords
  <2>2. Written(shape) = 3 + shape.operands
    BY <1>2 DEF Written, Described
  <2> QED BY <1>1, <1>2, <2>1, <2>2 DEF Described
<1>3. CASE shape.typed /\ ~shape.id
  <2>1. FirstWords(opcode, shape) = <<opcode>> \o <<Operand>> \o <<>>
    BY <1>3 DEF FirstWords
  <2>2. Written(shape) = 2 + shape.operands
    BY <1>3 DEF Written, Described
  <2> QED BY <1>1, <1>3, <2>1, <2>2 DEF Described
<1>4. CASE ~shape.typed /\ shape.id
  <2>1. FirstWords(opcode, shape) = <<opcode>> \o <<>> \o <<bound + 1>>
    BY <1>4 DEF FirstWords
  <2>2. Written(shape) = 2 + shape.operands
    BY <1>4 DEF Written, Described
  <2> QED BY <1>1, <1>4, <2>1, <2>2 DEF Described
<1>5. CASE ~shape.typed /\ ~shape.id
  <2>1. FirstWords(opcode, shape) = <<opcode>> \o <<>> \o <<>>
    BY <1>5 DEF FirstWords
  <2>2. Written(shape) = 1 + shape.operands
    BY <1>5 DEF Written, Described
  <2> QED BY <1>1, <1>5, <2>1, <2>2 DEF Described
<1> QED BY <1>2, <1>3, <1>4, <1>5

\* What the stream held of words shown before, it still holds.
Grown(s, t) ==
  /\ s.insert_index =< t.insert_index
  /\ \A i \in Cells : i < s.insert_index => t.words[i] = s.words[i]

\* A whole instruction, written where the vector has or gets room for it.
LEMMA WriteFacts ==
  ASSUME bound \in 0 .. MaxId, NEW opcode \in 1 .. Half - 1, NEW shape, NEW operands,
         Exact(shape, operands), shape.id => bound < MaxId,
         NEW s \in StreamState, s.insert_index =< s.size, s.size =< Cap,
         HasRoom(s, shape.reserved, Written(shape))
  PROVE  LET e == Write(s, opcode, shape, operands)
         IN  /\ e \in StreamState
             /\ e.insert_index = s.insert_index + Written(shape)
             /\ e.insert_index =< e.size /\ e.size =< Cap
             /\ Grown(s, e)
<1> DEFINE head == FirstWords(opcode, shape)
<1>1. /\ head \in Seq(Word) /\ Len(head) = Written(shape) - shape.operands
      /\ head[1] = opcode
  BY FirstWordsFacts DEF Exact
<1>2. /\ shape.reserved \in Nat /\ shape.operands \in Nat
      /\ Written(shape) \in 1 + shape.operands .. shape.reserved
      /\ operands \in Seq(Word) /\ Len(operands) = shape.operands
  BY DEF Exact, Described, Sufficient, Written
<1>3. Len(head) + Len(operands) = Written(shape) /\ Len(head) > 0
  BY <1>1, <1>2
<1>4. head[1] < Half
  BY <1>1, Constants
<1> HIDE DEF head
<1>5. /\ HasRoom(s, shape.reserved, Len(head) + Len(operands))
      /\ Len(head) + Len(operands) =< shape.reserved
  BY <1>2, <1>3
<1>6. Appended(s, shape.reserved, head[1], Len(head) + Len(operands),
               EndOp(Put(BeginOp(Reserve(s, shape.reserved), head), operands)))
  BY <1>1, <1>2, <1>3, <1>4, <1>5, EmitFacts
<1>7. s.insert_index \in Nat /\ Written(shape) \in Nat
  BY <1>2 DEF StreamState
<1> QED BY <1>3, <1>6, <1>7 DEF Appended, Write, Grown, head

\* Where the id of an instruction is read.
LEMMA IdOfFacts ==
  ASSUME NEW w, NEW x \in Nat, OpcodeOf(w[1]) = x
  PROVE  /\ x \in IdSecond => IdOf(w) = w[2]
         /\ x \in IdThird => IdOf(w) = w[3]
         /\ x \notin IdSecond /\ x \notin IdThird => IdOf(w) = 0
<1>1. x \in IdSecond => x \notin IdThird
  BY IdPlaces, DeclarationNumbers
<1> QED BY <1>1 DEF IdOf

\* The instruction that follows the words of the stream, and what it says.
ReadsAs(s, opcode, shape, operands, w) ==
  /\ Words(Write(s, opcode, shape, operands)) = Words(s) \o w
  /\ OpcodeOf(w[1]) = opcode
  /\ IdOf(w) = IF shape.id THEN bound + 1 ELSE 0
  /\ shape.typed => \A j \in 1 .. Len(operands) : w[3 + j] = operands[j]

\* What Assemble shows of such an instruction, and what is read in it.
LEMMA WriteReads ==
  ASSUME bound \in 0 .. MaxId, NEW name, NEW opcode \in 1 .. Half - 1, NEW shape,
         NEW operands, Exact(shape, operands), shape.id => bound < MaxId,
         Apt(name, opcode, shape), ShortClient,
         NEW s \in StreamState, s.insert_index =< s.size, s.size =< Cap,
         HasRoom(s, shape.reserved, Written(shape))
  PROVE  \E w \in Counted : ReadsAs(s, opcode, shape, operands, w)
<1>1. PICK head : head = FirstWords(opcode, shape)
  OBVIOUS
<1>2. /\ head \in Seq(Word) /\ Len(head) = Written(shape) - shape.operands
      /\ head[1] = opcode /\ Len(head) \in 1 .. 3
      /\ shape.id /\ ~shape.typed => Len(head) = 2 /\ head[2] = bound + 1
      /\ shape.id /\ shape.typed => Len(head) = 3 /\ head[3] = bound + 1
  BY <1>1, FirstWordsFacts DEF Exact
<1>3. /\ Written(shape) \in Nat /\ Written(shape) =< shape.reserved
      /\ Written(shape) < Half /\ shape.reserved \in Nat /\ shape.operands \in Nat
      /\ operands \in Seq(Word) /\ Len(operands) = shape.operands
  BY Constants DEF Exact, Described, Sufficient, Written, Apt
<1>4. /\ opcode < Half /\ Half \in Nat
      /\ shape.typed => shape.id
      /\ opcode \in IdSecond <=> shape.id /\ ~shape.typed
      /\ opcode \in IdThird <=> shape.id /\ shape.typed
  BY Constants DEF Apt
<1>5. PICK h \in 1 .. 3, m \in Nat : h = Len(head) /\ m = Len(operands)
  BY <1>2, <1>3
<1>6. Written(shape) = h + m /\ h + m \in 1 .. Half - 1 /\ h + m =< shape.reserved
  <2>1. PICK n \in Nat : n = Written(shape)
    BY <1>3
  <2>2. h = n - m /\ n < Half /\ n =< shape.reserved
    BY <1>2, <1>3, <1>5, <2>1
  <2>3. n = h + m /\ h + m \in 1 .. Half - 1
    BY <1>4, <2>1, <2>2
  <2> QED BY <2>1, <2>2, <2>3
<1>7. PICK ws : ws = head \o operands
  OBVIOUS
<1>8. /\ ws \in Seq(Word) /\ Len(ws) = h + m
      /\ \A i \in 1 .. h : ws[i] = head[i]
      /\ \A j \in 1 .. m : ws[h + j] = operands[j]
  <2>1. /\ ws \in Seq(Word) /\ Len(ws) = h + m
        /\ \A j \in 1 .. m : ws[h + j] = operands[j]
    <3>1. /\ head \o operands \in Seq(Word)
          /\ Len(head \o operands) = Len(head) + Len(operands)
          /\ \A j \in 1 .. Len(operands) :
               (head \o operands)[Len(head) + j] = operands[j]
      <4>1. head \in Seq(Word) /\ operands \in Seq(Word)
        BY <1>2, <1>3
      <4> QED BY <4>1, RightOf, Zenon
    <3> QED BY <1>5, <1>7, <3>1
  <2>2. \A i \in 1 .. h + m : ws[i] = IF i <= h THEN head[i] ELSE operands[i - h]
    BY <1>2, <1>3, <1>5, <1>7, ConcatProperties
  <2>3. \A i \in 1 .. h : i \in 1 .. h + m /\ i <= h
    OBVIOUS
  <2>4. \A i \in 1 .. h : ws[i] = head[i]
    BY <2>2, <2>3
  <2> QED BY <2>1, <2>4
<1>9. ws[1] = opcode
  <2>1. 1 \in 1 .. h
    OBVIOUS
  <2> QED BY <1>2, <1>8, <2>1
<1>10. PICK w : w = Counting(ws)
  OBVIOUS
<1>11. /\ w \in Counted /\ OpcodeOf(w[1]) = opcode
       /\ \A j \in 2 .. h + m : w[j] = ws[j]
  <2>1. Len(ws) \in 1 .. Half - 1 /\ ws[1] < Half
    BY <1>4, <1>6, <1>8, <1>9
  <2> QED BY <1>8, <1>9, <1>10, <2>1, CountingFacts
<1>12. Words(Write(s, opcode, shape, operands)) = Words(s) \o w
  <2>1. /\ HasRoom(s, shape.reserved, Len(head) + Len(operands))
        /\ Len(head) + Len(operands) =< shape.reserved
        /\ head[1] < Half /\ Len(head) > 0
    BY <1>2, <1>4, <1>5, <1>6
  <2>2. Words(EndOp(Put(BeginOp(Reserve(s, shape.reserved), head), operands)))
          = Words(s) \o Counting(head \o operands)
    BY <1>2, <1>3, <2>1, EmitWords
  <2> QED BY <1>1, <1>7, <1>10, <2>2 DEF Write
<1>13. IdOf(w) = IF shape.id THEN bound + 1 ELSE 0
  <2>1. /\ opcode \in IdSecond => IdOf(w) = w[2]
        /\ opcode \in IdThird => IdOf(w) = w[3]
        /\ opcode \notin IdSecond /\ opcode \notin IdThird => IdOf(w) = 0
    BY <1>11, IdOfFacts
  <2>2. CASE shape.id /\ ~shape.typed
    <3>1. h = 2 /\ head[2] = bound + 1
      BY <1>2, <1>5, <2>2
    <3>2. 2 \in 2 .. h + m /\ 2 \in 1 .. h
      BY <3>1
    <3> QED BY <1>4, <1>8, <1>11, <2>1, <2>2, <3>1, <3>2
  <2>3. CASE shape.id /\ shape.typed
    <3>1. h = 3 /\ head[3] = bound + 1
      BY <1>2, <1>5, <2>3
    <3>2. 3 \in 2 .. h + m /\ 3 \in 1 .. h
      BY <3>1
    <3> QED BY <1>4, <1>8, <1>11, <2>1, <2>3, <3>1, <3>2
  <2>4. CASE ~shape.id
    BY <1>4, <2>1, <2>4
  <2> QED BY <2>2, <2>3, <2>4
<1>14. ASSUME shape.typed, NEW j \in 1 .. m
       PROVE  w[3 + j] = operands[j]
  <2>1. h = 3
    BY <1>2, <1>4, <1>5, <1>14
  <2>2. 3 + j \in 2 .. h + m
    BY <2>1
  <2> QED BY <1>8, <1>11, <2>1, <2>2
<1> QED BY <1>5, <1>11, <1>12, <1>13, <1>14 DEF ReadsAs

\* What the import leaves in a stream that had nothing.
LEMMA ImportFacts ==
  ASSUME bound \in 0 .. MaxId, bound < MaxId, NEW s \in StreamState,
         s.insert_index = 0, s.size =< Cap, HasRoom(s, 7, 6)
  PROVE  LET e == Write(s, Op.OpExtInstImport, ImportShape, Repeat(Operand, 4))
         IN  e.insert_index = 6 /\ e.words[1] = bound + 1
<1> DEFINE head == FirstWords(Op.OpExtInstImport, ImportShape)
           r == Reserve(s, 7)
           b == BeginOp(r, head)
           p == Put(b, Repeat(Operand, 4))
<1>1. /\ ImportShape.id = TRUE /\ ImportShape.typed = FALSE
      /\ ImportShape.reserved = 7 /\ ImportShape.operands = 4
      /\ Described(ImportShape) /\ Written(ImportShape) = 6
  BY DEF ImportShape, Shape, Described, Written
<1>2. head \in Seq(Word) /\ Len(head) = 2 /\ head[2] = bound + 1
  <2>1. Op.OpExtInstImport \in 1 .. Half - 1 /\ ImportShape.id /\ ~ImportShape.typed
    BY <1>1, Opcodes
  <2>2. /\ head \in Seq(Word) /\ head[2] = bound + 1
        /\ Len(head) = Written(ImportShape) - ImportShape.operands
    BY <1>1, <2>1, FirstWordsFacts
  <2> HIDE DEF head
  <2> QED BY <1>1, <2>2
<1>3. Repeat(Operand, 4) \in Seq(Word) /\ Len(Repeat(Operand, 4)) = 4
  BY Constants, Repeated
<1>4. Cap \in Nat /\ 7 =< Cap
  BY Constants DEF HasRoom
<1>5. r \in StreamState /\ r.insert_index = 0
  BY <1>4, ReserveFacts
<1> HIDE DEF head, r
<1>6. /\ b \in StreamState /\ b.insert_index = 2 /\ b.op_index = 0
      /\ b.words[1] = bound + 1
  <2>1. 2 \in 1 .. Len(head) /\ r.insert_index + 2 - 1 = 1 /\ 1 \in Cells
    BY <1>2, <1>4, <1>5 DEF Cells
  <2>2. /\ b \in StreamState /\ b.insert_index = r.insert_index + Len(head)
        /\ b.op_index = r.insert_index
        /\ \A j \in 1 .. Len(head) :
             r.insert_index + j - 1 \in Cells => b.words[r.insert_index + j - 1] = head[j]
    BY <1>2, <1>5, BeginOpFacts
  <2> HIDE DEF b
  <2>3. b.words[1] = head[2]
    BY <2>1, <2>2
  <2> QED BY <1>2, <1>5, <2>2, <2>3
<1> HIDE DEF b, Repeat
<1>7. /\ p \in StreamState /\ p.insert_index = 6 /\ p.op_index = 0
      /\ p.words[1] = bound + 1
  <2> DEFINE ws == Repeat(Operand, 4)
  <2>1. ws \in Seq(Word) /\ Len(ws) = 4
    BY <1>3
  <2> HIDE DEF ws
  <2>2. LET q == Put(b, ws)
        IN  /\ q \in StreamState /\ q.insert_index = b.insert_index + Len(ws)
            /\ q.op_index = b.op_index
            /\ \A i \in Cells : i < b.insert_index => q.words[i] = b.words[i]
    BY <1>6, <2>1, PutFacts
  <2>3. 1 \in Cells
    BY <1>4 DEF Cells
  <2>4. p = Put(b, ws)
    BY DEF ws
  <2> HIDE DEF p
  <2> QED BY <1>6, <2>1, <2>2, <2>3, <2>4
<1> HIDE DEF p
<1>8. EndOp(p).insert_index = 6 /\ EndOp(p).words[1] = bound + 1
  BY <1>7 DEF EndOp, StreamState
<1>9. Write(s, Op.OpExtInstImport, ImportShape, Repeat(Operand, 4)) = EndOp(p)
  BY <1>1 DEF Write, p, b, r, head
<1> QED BY <1>8, <1>9

-----------------------------------------------------------------------------
(* The streams.                                                            *)

\* What GetGLSLstd450 keeps: nothing is imported, or one instruction with the
\* id that glsl_std_450 has; and there is one before extension.cpp uses it.
OneImport ==
  /\ glsl_std_450 = 0 => streams[Imports].insert_index = 0
  /\ glsl_std_450 # 0 => /\ streams[Imports].insert_index = 6
                         /\ streams[Imports].words[1] = glsl_std_450
  /\ extending => glsl_std_450 # 0

SInv == /\ streams \in [StreamNames -> StreamState]
        /\ \A name \in StreamNames : streams[name].size =< Cap
        /\ SectionsInBounds
        /\ bound \in 0 .. MaxId
        /\ labels \subseteq 1 .. bound
        /\ glsl_std_450 \in 0 .. bound
        /\ OneImport

\* A step that changes one stream, into one that is in bounds, keeps them all.
LEMMA OneStream ==
  ASSUME SInv, NEW name \in StreamNames, NEW e \in StreamState,
         streams' = [streams EXCEPT ![name] = e],
         e.insert_index =< e.size, e.size =< Cap, Grown(streams[name], e)
  PROVE  /\ streams' \in [StreamNames -> StreamState]
         /\ (\A n \in StreamNames : streams[n].size =< Cap)'
         /\ SectionsInBounds'
         /\ \A n \in StreamNames : Grown(streams[n], streams'[n])
         /\ streams'[name] = e
         /\ \A n \in StreamNames : n # name => streams'[n] = streams[n]
<1>1. /\ streams' \in [StreamNames -> StreamState]
      /\ (\A n \in StreamNames : streams[n].size =< Cap)'
      /\ SectionsInBounds'
      /\ streams'[name] = e
      /\ \A n \in StreamNames : n # name => streams'[n] = streams[n]
  BY DEF SInv, SectionsInBounds
<1>2. \A n \in StreamNames : Grown(streams[n], streams[n])
  BY DEF Grown, SInv, StreamState
<1> QED BY <1>1, <1>2

\* The call that writes it keeps every stream in its vector.
LEMMA EmitStreams ==
  ASSUME SInv, NEW name \in StreamNames, NEW opcode \in 1 .. Half - 1, NEW shape,
         NEW operands, Exact(shape, operands), Emit(name, opcode, shape, operands)
  PROVE  /\ streams' \in [StreamNames -> StreamState]
         /\ (\A n \in StreamNames : streams[n].size =< Cap)'
         /\ SectionsInBounds'
         /\ \A n \in StreamNames : Grown(streams[n], streams'[n])
         /\ \A n \in StreamNames : n # name => streams'[n] = streams[n]
         /\ streams'[name] = Write(streams[name], opcode, shape, operands)
         /\ bound' = IF shape.id THEN bound + 1 ELSE bound
         /\ bound' \in 0 .. MaxId
<1> DEFINE s == streams[name]
           e == Write(s, opcode, shape, operands)
<1>1. /\ HasRoom(s, shape.reserved, Written(shape))
      /\ shape.id => bound < MaxId
      /\ streams' = [streams EXCEPT ![name] = e]
      /\ bound' = IF shape.id THEN bound + 1 ELSE bound
  BY DEF Emit, SInv
<1>2. /\ s \in StreamState /\ s.insert_index =< s.size /\ s.size =< Cap
      /\ bound \in 0 .. MaxId /\ MaxId \in Nat
  BY Constants DEF SInv, SectionsInBounds
<1>3. /\ e \in StreamState /\ e.insert_index =< e.size /\ e.size =< Cap
      /\ Grown(s, e)
  BY <1>1, <1>2, WriteFacts
<1>4. bound' \in 0 .. MaxId
  BY <1>1, <1>2
<1> HIDE DEF e
<1>5. /\ streams' \in [StreamNames -> StreamState]
      /\ (\A n \in StreamNames : streams[n].size =< Cap)'
      /\ SectionsInBounds'
      /\ \A n \in StreamNames : Grown(streams[n], streams'[n])
      /\ streams'[name] = e
      /\ \A n \in StreamNames : n # name => streams'[n] = streams[n]
  BY <1>1, <1>3, OneStream
<1> QED BY <1>1, <1>4, <1>5 DEF e

\* The import reserves a word more than it writes.
LEMMA ImportExact == Exact(ImportShape, Repeat(Operand, 4))
<1>1. /\ ImportShape.operands = 4 /\ Described(ImportShape)
      /\ Written(ImportShape) = 6 /\ ImportShape.reserved = 7
  BY DEF ImportShape, Shape, Described, Written
<1>2. Repeat(Operand, 4) \in Seq(Word) /\ Len(Repeat(Operand, 4)) = 4
  BY Constants, Repeated
<1>3. Sufficient(ImportShape)
  BY <1>1 DEF Sufficient
<1> HIDE DEF Repeat
<1> QED BY <1>1, <1>2, <1>3 DEF Exact

\* A method of extension.cpp is half done only with a set at hand.
LEMMA ExtendingFacts ==
  ASSUME ModuleNext, bound \in Nat
  PROVE  extending' => glsl_std_450' # 0
<1>1. CASE extending /\ EndExtension
  BY <1>1 DEF EndExtension
<1>2. CASE BeginExtension
  <2>1. IF glsl_std_450 = 0 THEN glsl_std_450' = bound + 1
                            ELSE glsl_std_450' = glsl_std_450
    BY <1>2 DEF BeginExtension, GetGLSLstd450
  <2> QED BY <2>1
<1>3. CASE ~extending /\ UNCHANGED extending
  BY <1>3
<1>4. DeclaringCall \/ AddCapability \/ AddExtension \/ SetMemoryModel \/ OpLabel
        \/ AddLabel \/ OpExtInst => UNCHANGED extending
  BY DEF DeclaringCall, others, AddCapability, AddExtension, SetMemoryModel, OpLabel,
         AddLabel, OpExtInst
<1>5. AddEntryPoint \/ AddExecutionMode \/ AddLocalVariable \/ AddGlobalVariable
        \/ Name \/ MemberName \/ String \/ OpLine \/ Decorate \/ MemberDecorate
        \/ CodeMethod => UNCHANGED extending
  BY DEF EmitAny, AddEntryPoint, AddExecutionMode, AddLocalVariable,
         AddGlobalVariable, Name, MemberName, String, OpLine, Decorate,
         MemberDecorate, CodeMethod
<1> QED BY <1>1, <1>2, <1>3, <1>4, <1>5 DEF ModuleNext, Call

\* A label put into the code.
LEMMA AddLabelStreams ==
  ASSUME SInv, AddLabel
  PROVE  /\ streams' \in [StreamNames -> StreamState]
         /\ (\A n \in StreamNames : streams[n].size =< Cap)'
         /\ SectionsInBounds'
         /\ \A n \in StreamNames : Grown(streams[n], streams'[n])
         /\ streams'[Imports] = streams[Imports]
<1>1. PICK label \in labels :
        /\ HasRoom(streams["code"], 2, 2)
        /\ streams' = [streams EXCEPT !["code"] =
                         Put(Reserve(@, 2), <<WithCount(Op.OpLabel, 2), label>>)]
  BY DEF AddLabel
<1> DEFINE s == streams["code"]
           r == Reserve(s, 2)
           ws == <<WithCount(Op.OpLabel, 2), label>>
           e == Put(r, ws)
<1>2. "code" \in StreamNames /\ Imports \in StreamNames /\ Imports # "code"
  BY DEF StreamNames, Imports
<1>3. /\ s \in StreamState /\ s.size =< Cap /\ s.insert_index + 2 =< Cap
      /\ s.insert_index \in Nat /\ s.size \in Nat /\ s.insert_index =< s.size
  BY <1>1, <1>2 DEF SInv, SectionsInBounds, HasRoom, StreamState
<1>4. ws \in Seq(Word) /\ Len(ws) = 2
  <2>1. label \in Word
    BY Constants DEF SInv
  <2>2. WithCount(Op.OpLabel, 2) \in Word
    <3>1. Op.OpLabel \in 0 .. Half - 1
      BY Opcodes, Constants
    <3> QED BY <3>1, WithCountWord
  <2> QED BY <2>1, <2>2
<1> HIDE DEF ws
<1>5. /\ r \in StreamState /\ r.insert_index = s.insert_index
      /\ r.size =< Cap /\ r.insert_index + 2 =< r.size
      /\ \A i \in Cells : i < s.size => r.words[i] = s.words[i]
  BY <1>3, ReserveFacts
<1> HIDE DEF r
<1>6. /\ e \in StreamState /\ e.insert_index = r.insert_index + 2 /\ e.size = r.size
      /\ \A i \in Cells : i < r.insert_index => e.words[i] = r.words[i]
  <2>1. /\ e \in StreamState /\ e.insert_index = r.insert_index + Len(ws)
        /\ e.size = r.size
        /\ \A i \in Cells : i < r.insert_index => e.words[i] = r.words[i]
    BY <1>4, <1>5, PutFacts
  <2> HIDE DEF e
  <2> QED BY <1>4, <2>1
<1>7. e.insert_index =< e.size /\ e.size =< Cap /\ Grown(s, e)
  BY <1>3, <1>5, <1>6 DEF Grown, Cells
<1>8. streams' = [streams EXCEPT !["code"] = e]
  BY <1>1 DEF r, ws
<1> HIDE DEF e
<1> QED BY <1>2, <1>6, <1>7, <1>8, OneStream

\* The streams are empty at first.
LEMMA SInvInit == ModuleInit => SInv
<1> SUFFICES ASSUME ModuleInit PROVE SInv
  OBVIOUS
<1>1. EmptyStream \in StreamState /\ EmptyStream.size = 0 /\ EmptyStream.insert_index = 0
  BY EmptyStreamType DEF EmptyStream
<1>2. \A name \in StreamNames : streams[name] = EmptyStream
  BY DEF ModuleInit
<1>3. streams \in [StreamNames -> StreamState]
  BY <1>1 DEF ModuleInit
<1>4. bound = 0 /\ labels = {} /\ glsl_std_450 = 0 /\ extending = FALSE
  BY DEF ModuleInit, Init
<1>5. SectionsInBounds /\ \A name \in StreamNames : streams[name].size =< Cap
  BY <1>1, <1>2, Constants DEF SectionsInBounds
<1>6. OneImport
  BY <1>1, <1>2, <1>4 DEF OneImport, Imports, StreamNames
<1> QED BY <1>3, <1>4, <1>5, <1>6, Constants DEF SInv

\* Every step keeps the streams in their vectors and the import known.
LEMMA SInvNext ==
  ASSUME FittingCode, SInv, [ModuleNext]_module_vars
  PROVE  SInv'
<1>0. /\ bound \in 0 .. MaxId /\ MaxId \in Nat /\ bound \in Nat
      /\ labels \subseteq 1 .. bound /\ glsl_std_450 \in 0 .. bound
      /\ Imports \in StreamNames
  BY Constants DEF SInv, StreamNames, Imports
<1>s. CASE UNCHANGED module_vars
  <2>1. /\ streams' = streams /\ bound' = bound /\ labels' = labels
        /\ glsl_std_450' = glsl_std_450 /\ extending' = extending
    BY <1>s DEF module_vars, vars, others
  <2> QED BY <2>1 DEF SInv, SectionsInBounds, OneImport
<1> SUFFICES ASSUME ModuleNext PROVE SInv'
  BY <1>s
<1>e. extending' => glsl_std_450' # 0
  BY <1>0, ExtendingFacts
<1>w. OneWord
  BY <1>0, Constants DEF OneWord

\* The streams stay, and the counter goes up by at most one.
<1>1. ASSUME UNCHANGED <<streams, glsl_std_450, labels>>,
             bound' \in bound .. bound + 1, bound' =< MaxId
      PROVE  SInv'
  BY <1>0, <1>1, <1>e DEF SInv, SectionsInBounds, OneImport
<1>2. CASE DeclaringCall
  BY <1>0, <1>1, <1>2, DeclareBound DEF others
<1>3. CASE Elsewhere
  BY <1>0, <1>1, <1>3 DEF Elsewhere, vars
<1>4. CASE OpLabel
  <2>1. /\ UNCHANGED <<streams, glsl_std_450>>
        /\ bound < MaxId /\ bound' = bound + 1
        /\ labels' = labels \cup {bound + 1}
    BY <1>4 DEF OpLabel
  <2>2. /\ bound' \in 0 .. MaxId /\ labels' \subseteq 1 .. bound'
        /\ glsl_std_450' \in 0 .. bound'
    BY <1>0, <2>1
  <2> QED BY <2>1, <2>2, <1>e DEF SInv, SectionsInBounds, OneImport
<1>5. CASE AddLabel
  <2>1. UNCHANGED <<bound, glsl_std_450>> /\ labels' \subseteq labels
    BY <1>5 DEF AddLabel, vars
  <2> QED BY <1>0, <1>5, <2>1, <1>e, AddLabelStreams DEF SInv, OneImport
<1>6. CASE Emits
  <2>1. PICK name, opcode, shape, operands :
          EmitsThis(name, opcode, shape, operands)
    BY <1>6 DEF Emits
  <2>2. UNCHANGED <<glsl_std_450, labels>>
    BY <1>6 DEF Emits
  <2>3. /\ name \in StreamNames /\ name # Imports /\ opcode \in 1 .. Half - 1
        /\ Emit(name, opcode, shape, operands) /\ Exact(shape, operands)
    BY <2>1, <1>w DEF EmitsThis
  <2>4. /\ streams' \in [StreamNames -> StreamState]
        /\ (\A n \in StreamNames : streams[n].size =< Cap)'
        /\ SectionsInBounds'
        /\ streams'[Imports] = streams[Imports]
        /\ bound' = (IF shape.id THEN bound + 1 ELSE bound)
        /\ bound' \in 0 .. MaxId
    BY <1>0, <2>3, EmitStreams
  <2>5. labels' \subseteq 1 .. bound' /\ glsl_std_450' \in 0 .. bound'
    BY <1>0, <2>2, <2>4
  <2> QED BY <2>2, <2>4, <2>5, <1>e DEF SInv, OneImport
<1>7. CASE Import
  <2> DEFINE operands == Repeat(Operand, 4)
             s == streams[Imports]
             e == Write(s, Op.OpExtInstImport, ImportShape, operands)
  <2>1. /\ glsl_std_450 = 0 /\ glsl_std_450' = bound + 1 /\ labels' = labels
        /\ Emit(Imports, Op.OpExtInstImport, ImportShape, operands)
    BY <1>7 DEF Import
  <2>2. /\ ImportShape.id /\ ImportShape.reserved = 7 /\ ImportShape.operands = 4
        /\ Written(ImportShape) = 6
    BY DEF ImportShape, Shape, Written
  <2>3. Exact(ImportShape, operands) /\ Op.OpExtInstImport \in 1 .. Half - 1
    BY ImportExact, Opcodes
  <2> HIDE DEF operands
  <2>4. /\ streams' \in [StreamNames -> StreamState]
        /\ (\A n \in StreamNames : streams[n].size =< Cap)'
        /\ SectionsInBounds'
        /\ streams'[Imports] = e
        /\ bound' = (IF ImportShape.id THEN bound + 1 ELSE bound)
        /\ bound' \in 0 .. MaxId
    BY <1>0, <2>1, <2>3, EmitStreams
  <2>5. bound' = bound + 1 /\ bound < MaxId
    BY <1>0, <2>2, <2>4
  <2>6. /\ s \in StreamState /\ s.insert_index = 0 /\ s.size =< Cap
        /\ HasRoom(s, 7, 6)
    BY <1>0, <2>1, <2>2 DEF SInv, OneImport, Emit
  <2>7. e.insert_index = 6 /\ e.words[1] = bound + 1
    BY <1>0, <2>5, <2>6, ImportFacts DEF operands
  <2>8. /\ labels' \subseteq 1 .. bound' /\ glsl_std_450' \in 0 .. bound'
        /\ glsl_std_450' # 0
    BY <1>0, <2>1, <2>5
  <2> HIDE DEF e
  <2>9. OneImport'
    BY <2>1, <2>4, <2>7, <2>8 DEF OneImport
  <2> QED BY <2>4, <2>8, <2>9 DEF SInv
<1> QED BY <1>2, <1>3, <1>4, <1>5, <1>6, <1>7, ModuleCases

\* Every step leaves what the streams hold.
LEMMA SInvGrows ==
  ASSUME FittingCode, SInv, ModuleNext
  PROVE  \A n \in StreamNames : Grown(streams[n], streams'[n])
<1>0. bound \in 0 .. MaxId /\ OneWord /\ Imports \in StreamNames
  BY Constants DEF SInv, OneImport, OneWord, StreamNames, Imports
<1>1. CASE UNCHANGED streams
  BY <1>1 DEF Grown, SInv, StreamState
<1>2. CASE DeclaringCall \/ Elsewhere \/ OpLabel
  BY <1>0, <1>1, <1>2, DeclareBound DEF others, Elsewhere, OpLabel
<1>3. CASE AddLabel
  BY <1>3, AddLabelStreams
<1>4. CASE Emits
  <2>1. PICK name, opcode, shape, operands :
          EmitsThis(name, opcode, shape, operands)
    BY <1>4 DEF Emits
  <2>2. /\ name \in StreamNames /\ opcode \in 1 .. Half - 1
        /\ Emit(name, opcode, shape, operands) /\ Exact(shape, operands)
    BY <2>1, <1>0 DEF EmitsThis
  <2> QED BY <2>2, EmitStreams
<1>5. CASE Import
  <2>1. Emit(Imports, Op.OpExtInstImport, ImportShape, Repeat(Operand, 4))
    BY <1>5 DEF Import
  <2>2. Op.OpExtInstImport \in 1 .. Half - 1
    BY Opcodes
  <2> QED BY <1>0, <2>1, <2>2, ImportExact, EmitStreams
<1> QED BY <1>2, <1>3, <1>4, <1>5, ModuleCases

\* A client with one-word literals that calls neither OpAtomicStore nor a sparse
\* gather has every call write inside its stream's vector, for strings and spans
\* of any length and in any order of the calls.
THEOREM FittingInBounds ==
  ASSUME FittingCode
  PROVE  ModuleSpec => []SectionsInBounds
<1>1. SInv /\ [ModuleNext]_module_vars => SInv'
  BY SInvNext
<1>2. SInv => SectionsInBounds
  BY DEF SInv
<1> QED
  BY <1>1, <1>2, SInvInit, PTL DEF ModuleSpec

\* So no call of such a client overwrites, takes away or loses a word that an
\* earlier call has put into a section.
THEOREM SectionsStay ==
  ASSUME FittingCode
  PROVE  ModuleSpec => SectionsStable
<1> DEFINE Stay == \A name \in StreamNames : \A i \in 0 .. streams[name].insert_index - 1 :
                     /\ i < streams'[name].insert_index
                     /\ streams'[name].words[i] = streams[name].words[i]
<1>1. SInv /\ [ModuleNext]_module_vars => SInv'
  BY SInvNext
<1>2. ASSUME SInv, ModuleNext, SInv'
      PROVE  Stay
  <2> SUFFICES ASSUME NEW name \in StreamNames,
                      NEW i \in 0 .. streams[name].insert_index - 1
               PROVE  /\ i < streams'[name].insert_index
                      /\ streams'[name].words[i] = streams[name].words[i]
    OBVIOUS
  <2>1. Grown(streams[name], streams'[name])
    BY <1>2, SInvGrows
  <2>2. /\ streams[name].insert_index \in Nat /\ streams'[name].insert_index \in Nat
        /\ streams[name].insert_index =< Cap /\ Cap \in Nat
    <3>1. /\ streams[name] \in StreamState /\ streams'[name] \in StreamState
          /\ streams[name].insert_index =< streams[name].size
          /\ streams[name].size =< Cap
      BY <1>2 DEF SInv, SectionsInBounds
    <3> QED BY <3>1, Constants DEF StreamState
  <2> QED BY <2>1, <2>2 DEF Grown, Cells
<1>3. SInv /\ SInv' /\ [ModuleNext]_module_vars => [Stay]_module_vars
  BY <1>2
<1> QED
  BY <1>1, <1>3, SInvInit, PTL DEF ModuleSpec, SectionsStable

\* For such a client GLSL.std.450 is imported at most once, and its id is known
\* whenever a method of extension.cpp is about to refer to it, whatever other
\* sections have taken in between.
THEOREM ImportsOnce ==
  ASSUME FittingCode
  PROVE  ModuleSpec => []OneImport
<1>1. SInv /\ [ModuleNext]_module_vars => SInv'
  BY SInvNext
<1>2. SInv => OneImport
  BY DEF SInv
<1> QED
  BY <1>1, <1>2, SInvInit, PTL DEF ModuleSpec

-----------------------------------------------------------------------------
(* What is read in the streams.                                            *)

AllStreams == StreamNames \cup {"declarations"}
StreamOf(name) == IF name = "declarations" THEN stream ELSE streams[name]
ReadOf(name) == ParseInstructions(Words(StreamOf(name)))

\* An instruction of that stream's section.
Proper(name, w) ==
  /\ w \in Counted /\ IdOf(w) \in Nat
  /\ InSection(w, Section[name])

\* What a method of extension.cpp emits refers to the import.
RefersToImport(w) ==
  OpcodeOf(w[1]) = Op.OpExtInst /\ w[5] = GlslSet =>
    glsl_std_450 # 0 /\ w[4] = glsl_std_450

\* The streams can be read.
RInv == /\ SInv /\ OnceInv
        /\ \A name \in StreamNames : Readable(Words(streams[name]))

Keeps == \A name \in AllStreams : Words(StreamOf(name))' = Words(StreamOf(name))

\* The stream gets an instruction at its end, and the others stay.
Gains(name, w) ==
  /\ Proper(name, w)
  /\ Readable(Words(StreamOf(name)))'
  /\ ReadOf(name)' = Append(ReadOf(name), w)
  /\ \A other \in AllStreams \ {name} :
       Words(StreamOf(other))' = Words(StreamOf(other))

\* And it has to do with the import what it should.
Adding(name, w) ==
  /\ Gains(name, w)
  /\ IF name = Imports THEN glsl_std_450 = 0 /\ glsl_std_450' = IdOf(w)
                       ELSE glsl_std_450' = glsl_std_450
  /\ name = "code" => RefersToImport(w)

Quiet == Keeps /\ UNCHANGED <<bound, labels, glsl_std_450>>

Defining(name, w) ==
  /\ Adding(name, w) /\ IdOf(w) = bound + 1
  /\ bound' = bound + 1 /\ labels' = labels

Stating(name, w) ==
  /\ Adding(name, w) /\ IdOf(w) = 0 /\ name # Imports
  /\ bound' = bound /\ labels' = labels

Labelling ==
  /\ Keeps /\ glsl_std_450' = glsl_std_450
  /\ bound' = bound + 1 /\ labels' = labels \cup {bound + 1}

Placing(label, w) ==
  /\ Adding("code", w) /\ IdOf(w) = label
  /\ bound' = bound /\ labels' = labels \ {label}

\* Every step, as a reader of the module sees it.
ReadStep ==
  \/ Quiet
  \/ \E name \in AllStreams, w \in Counted : Defining(name, w) \/ Stating(name, w)
  \/ Labelling
  \/ \E label \in labels, w \in Counted : Placing(label, w)

\* Such a stream has an instruction more when its words are followed by those
\* of the instruction.
LEMMA GainsOne ==
  ASSUME NEW name \in AllStreams, NEW w, Proper(name, w),
         Readable(Words(StreamOf(name))),
         Words(StreamOf(name))' = Words(StreamOf(name)) \o w,
         \A other \in AllStreams \ {name} :
           Words(StreamOf(other))' = Words(StreamOf(other))
  PROVE  Gains(name, w)
<1>1. PICK ws : ws = Words(StreamOf(name))
  OBVIOUS
<1>2. w \in Counted /\ Readable(ws)
  BY <1>1 DEF Proper
<1>3. Readable(ws \o w) /\ ParseInstructions(ws \o w) = Append(ParseInstructions(ws), w)
  BY <1>2, ReadableAppend
<1>4. Words(StreamOf(name))' = ws \o w
  BY <1>1
<1>5. Readable(Words(StreamOf(name)))'
  BY <1>3, <1>4
<1>6. ReadOf(name)' = Append(ReadOf(name), w)
  BY <1>1, <1>3, <1>4 DEF ReadOf
<1> QED BY <1>5, <1>6 DEF Gains

\* One of a module's other streams changes.
LEMMA OthersStay ==
  ASSUME NEW name \in StreamNames, stream' = stream,
         \A n \in StreamNames : n # name => streams'[n] = streams[n]
  PROVE  /\ \A other \in AllStreams \ {name} :
              Words(StreamOf(other))' = Words(StreamOf(other))
         /\ StreamOf(name) = streams[name] /\ StreamOf(name)' = streams'[name]
         /\ name \in AllStreams
<1>1. name # "declarations"
  BY DEF StreamNames
<1>2. ASSUME NEW other \in AllStreams \ {name}
      PROVE  Words(StreamOf(other))' = Words(StreamOf(other))
  <2>1. StreamOf(other)' = StreamOf(other)
    BY DEF StreamOf, AllStreams
  <2> QED BY <2>1
<1> QED BY <1>1, <1>2 DEF StreamOf, AllStreams

\* No stream changes but perhaps in the room it has.
LEMMA AllStay == UNCHANGED <<stream, streams>> => Keeps
<1> SUFFICES ASSUME UNCHANGED <<stream, streams>>, NEW name \in AllStreams
             PROVE  Words(StreamOf(name))' = Words(StreamOf(name))
  BY DEF Keeps
<1>1. StreamOf(name)' = StreamOf(name)
  BY DEF StreamOf
<1> QED BY <1>1

\* An instruction written into a stream is read in it.
LEMMA EmitReads ==
  ASSUME RInv, ShortClient, NEW name \in StreamNames, NEW opcode \in 1 .. Half - 1,
         NEW shape, NEW operands, Exact(shape, operands), Apt(name, opcode, shape),
         Says(name, opcode, operands), Emit(name, opcode, shape, operands),
         extending => glsl_std_450 # 0
  PROVE  \E w \in Counted :
           /\ Gains(name, w)
           /\ name = "code" => RefersToImport(w)
           /\ IdOf(w) = IF shape.id THEN bound + 1 ELSE 0
           /\ bound' = IF shape.id THEN bound + 1 ELSE bound
<1>1. PICK s : s = streams[name]
  OBVIOUS
<1>2. /\ HasRoom(s, shape.reserved, Written(shape))
      /\ shape.id => bound < MaxId
      /\ stream' = stream
  BY <1>1 DEF Emit
<1>3. /\ s \in StreamState /\ s.insert_index =< s.size /\ s.size =< Cap
      /\ bound \in 0 .. MaxId /\ Readable(Words(s))
  BY <1>1 DEF RInv, SInv, SectionsInBounds
<1>w. PICK w \in Counted : ReadsAs(s, opcode, shape, operands, w)
  <2>1. /\ bound \in 0 .. MaxId /\ opcode \in 1 .. Half - 1
        /\ Exact(shape, operands) /\ Apt(name, opcode, shape) /\ ShortClient
        /\ (shape.id => bound < MaxId)
        /\ s \in StreamState /\ s.insert_index =< s.size /\ s.size =< Cap
        /\ HasRoom(s, shape.reserved, Written(shape))
    BY <1>2, <1>3
  <2> QED BY <2>1, WriteReads, Zenon
<1>4. /\ Words(Write(s, opcode, shape, operands)) = Words(s) \o w
      /\ OpcodeOf(w[1]) = opcode
      /\ IdOf(w) = IF shape.id THEN bound + 1 ELSE 0
      /\ shape.typed => \A j \in 1 .. Len(operands) : w[3 + j] = operands[j]
  BY <1>w DEF ReadsAs
<1>5. /\ \A n \in StreamNames : n # name => streams'[n] = streams[n]
      /\ streams'[name] = Write(s, opcode, shape, operands)
      /\ bound' = IF shape.id THEN bound + 1 ELSE bound
  BY <1>1, EmitStreams DEF RInv
<1>6. /\ \A other \in AllStreams \ {name} :
           Words(StreamOf(other))' = Words(StreamOf(other))
      /\ StreamOf(name) = s /\ StreamOf(name)' = streams'[name]
      /\ name \in AllStreams
  BY <1>1, <1>2, <1>5, OthersStay
<1>7. Words(StreamOf(name))' = Words(StreamOf(name)) \o w
  BY <1>4, <1>5, <1>6
<1>8. /\ opcode \in Layout[Section[name]]
      /\ opcode \in IdThird => shape.typed
      /\ opcode = Op.OpVariable => /\ Len(operands) >= 1
                                   /\ operands[1] = Function <=> name = "code"
      /\ opcode = Op.OpExtInst => /\ Len(operands) >= 2
                                  /\ operands[2] = GlslSet =>
                                       extending /\ operands[1] = glsl_std_450
      /\ Len(operands) \in Nat
  BY DEF Apt, Says, Exact, Described
<1>9. InSection(w, Section[name])
  <2>1. Section[name] = 11 <=> name = "code"
    BY SectionFacts DEF StreamNames
  <2>2. ASSUME opcode = Op.OpVariable PROVE Section[name] = Len(Layout) <=> w[4] = Function
    <3>1. shape.typed /\ Len(operands) >= 1
      BY <1>8, <2>2, AptOpcodes
    <3>2. 1 \in 1 .. Len(operands)
      BY <1>8, <3>1
    <3>3. w[3 + 1] = operands[1]
      BY <1>4, <3>1, <3>2
    <3>4. w[4] = operands[1]
      BY <3>3
    <3> QED BY <1>8, <2>1, <2>2, <3>4, LayoutFacts
  <2> QED BY <1>4, <1>8, <2>2 DEF InSection
<1>10. ASSUME opcode = Op.OpExtInst, w[5] = GlslSet
       PROVE  glsl_std_450 # 0 /\ w[4] = glsl_std_450
  <2>1. shape.typed /\ Len(operands) >= 2
    BY <1>8, <1>10, AptOpcodes
  <2>2. 1 \in 1 .. Len(operands) /\ 2 \in 1 .. Len(operands)
    BY <1>8, <2>1
  <2>3. w[3 + 1] = operands[1] /\ w[3 + 2] = operands[2]
    BY <1>4, <2>1, <2>2
  <2>4. w[4] = operands[1] /\ w[5] = operands[2]
    BY <2>3
  <2> QED BY <1>8, <1>10, <2>4
<1>11. RefersToImport(w)
  BY <1>4, <1>10 DEF RefersToImport
<1>12. Proper(name, w)
  BY <1>3, <1>4, <1>9, Constants DEF Proper
<1>13. Gains(name, w)
  BY <1>3, <1>6, <1>7, <1>12, GainsOne
<1> QED BY <1>4, <1>5, <1>11, <1>13

\* The import, too.
LEMMA ImportReads ==
  ASSUME RInv, ShortClient, Import, extending => glsl_std_450 # 0
  PROVE  \E w \in Counted : Defining(Imports, w)
<1>1. PICK operands : operands = Repeat(Operand, 4)
  OBVIOUS
<1>2. /\ glsl_std_450 = 0 /\ glsl_std_450' = bound + 1 /\ labels' = labels
      /\ Emit(Imports, Op.OpExtInstImport, ImportShape, operands)
  BY <1>1 DEF Import
<1>3. /\ ImportShape.id = TRUE /\ ImportShape.typed = FALSE
      /\ ImportShape.reserved = 7 /\ ImportShape.operands = 4
      /\ Described(ImportShape) /\ Written(ImportShape) = 6
  BY DEF ImportShape, Shape, Described, Written
<1>4. operands \in Seq(Word) /\ Len(operands) = 4
  BY <1>1, Constants, Repeated
<1>5. Exact(ImportShape, operands)
  BY <1>3, <1>4 DEF Exact, Sufficient
<1>6. Apt(Imports, Op.OpExtInstImport, ImportShape)
  <2>1. /\ Op.OpExtInstImport \in Layout[Section[Imports]]
        /\ Op.OpExtInstImport \in IdSecond /\ Op.OpExtInstImport \notin IdThird
    BY OpNumbers, IdPlaces, LayoutFacts, SectionFacts DEF Imports
  <2> QED BY <1>3, <2>1, Constants DEF Apt
<1>7. Says(Imports, Op.OpExtInstImport, operands)
  BY OpNumbers DEF Says
<1>8. Imports \in StreamNames /\ Imports # "code"
  BY DEF StreamNames, Imports
<1>9. PICK w \in Counted :
        /\ Gains(Imports, w)
        /\ IdOf(w) = IF ImportShape.id THEN bound + 1 ELSE 0
        /\ bound' = IF ImportShape.id THEN bound + 1 ELSE bound
  BY <1>2, <1>5, <1>6, <1>7, <1>8, Opcodes, EmitReads
<1>10. IdOf(w) = bound + 1 /\ bound' = bound + 1
  BY <1>3, <1>9
<1> QED BY <1>2, <1>8, <1>9, <1>10 DEF Defining, Adding

\* A label put into the code.
LEMMA AddLabelReads ==
  ASSUME RInv, AddLabel
  PROVE  \E label \in labels, w \in Counted : Placing(label, w)
<1>1. PICK label \in labels :
        /\ HasRoom(streams["code"], 2, 2)
        /\ streams' = [streams EXCEPT !["code"] =
                         Put(Reserve(@, 2), <<WithCount(Op.OpLabel, 2), label>>)]
        /\ labels' = labels \ {label}
        /\ UNCHANGED <<vars, header, glsl_std_450, extending>>
  BY DEF AddLabel
<1>2. PICK s, w : s = streams["code"] /\ w = <<WithCount(Op.OpLabel, 2), label>>
  OBVIOUS
<1>3. "code" \in StreamNames /\ Imports # "code" /\ "code" \in AllStreams
  BY DEF StreamNames, Imports, AllStreams
<1>4. /\ s \in StreamState /\ s.size =< Cap /\ s.insert_index + 2 =< Cap
      /\ s.insert_index \in Nat /\ s.insert_index =< s.size
      /\ Readable(Words(s)) /\ labels \subseteq 1 .. bound /\ bound \in 0 .. MaxId
  BY <1>1, <1>2, <1>3 DEF RInv, SInv, SectionsInBounds, HasRoom, StreamState
<1>5. /\ w \in Seq(Word) /\ Len(w) = 2 /\ w[2] = label /\ w[1] = WithCount(Op.OpLabel, 2)
  <2>1. label \in Word
    BY <1>4, Constants
  <2>2. WithCount(Op.OpLabel, 2) \in Word
    <3>1. Op.OpLabel \in 0 .. Half - 1
      BY Opcodes, Constants
    <3> QED BY <3>1, WithCountWord
  <2> QED BY <1>2, <2>1, <2>2
<1>6. w \in Counted /\ OpcodeOf(w[1]) = 248
  <2>1. /\ OpcodeOf(WithCount(Op.OpLabel, 2)) = Op.OpLabel
        /\ CountOf(WithCount(Op.OpLabel, 2)) = 2
    <3>1. Op.OpLabel \in Nat /\ Op.OpLabel < Half /\ 2 \in Nat /\ 2 < Half
      BY Opcodes, Constants
    <3> QED BY <3>1, HalvesOf
  <2>2. w \in Seq(Nat)
    BY <1>5, WordFacts, SeqMonotonic, Zenon
  <2>3. OpcodeOf(w[1]) = 248 /\ CountOf(w[1]) = Len(w)
    BY <1>5, <2>1, OpNumbers
  <2>4. Len(w) > 0
    BY <1>5
  <2>5. w \in Counted
    BY <2>2, <2>3, <2>4, Zenon DEF Counted
  <2> QED BY <2>3, <2>5
<1>7. PICK r : r = Reserve(s, 2)
  OBVIOUS
<1>8. /\ r \in StreamState /\ r.insert_index = s.insert_index
      /\ r.size =< Cap /\ r.insert_index + 2 =< r.size
      /\ \A i \in Cells : i < s.size => r.words[i] = s.words[i]
  BY <1>4, <1>7, ReserveFacts
<1>9. PICK e : e = Put(r, w)
  OBVIOUS
<1>10. /\ e \in StreamState /\ e.insert_index = r.insert_index + 2
       /\ \A i \in Cells : i < r.insert_index => e.words[i] = r.words[i]
       /\ \A j \in 1 .. 2 :
            r.insert_index + j - 1 \in Cells => e.words[r.insert_index + j - 1] = w[j]
  <2>1. /\ e \in StreamState /\ e.insert_index = r.insert_index + Len(w)
        /\ \A i \in Cells : i < r.insert_index => e.words[i] = r.words[i]
        /\ \A j \in 1 .. Len(w) :
             r.insert_index + j - 1 \in Cells => e.words[r.insert_index + j - 1] = w[j]
    BY <1>5, <1>8, <1>9, PutFacts
  <2> QED BY <1>5, <2>1
<1>11. Words(e) = Words(s) \o w
  <2>1. s.insert_index \in Nat /\ s.size \in Nat /\ Cap \in Nat
    BY <1>4, Constants DEF StreamState
  <2>2. \A i \in 0 .. s.insert_index - 1 : e.words[i] = s.words[i]
    <3> TAKE i \in 0 .. s.insert_index - 1
    <3>1. i \in Cells /\ i < r.insert_index /\ i < s.size
      BY <1>4, <1>8, <2>1 DEF Cells
    <3> QED BY <1>8, <1>10, <3>1
  <2>a. PICK start \in Nat : start = s.insert_index
    BY <2>1
  <2>b. start + 2 =< Cap /\ r.insert_index = start
    BY <1>4, <1>8, <2>a
  <2>3. \A j \in 1 .. 2 : e.words[s.insert_index + j - 1] = w[j]
    <3> TAKE j \in 1 .. 2
    <3>1. start + j - 1 \in Cells
      BY <2>1, <2>a, <2>b DEF Cells
    <3>2. e.words[r.insert_index + j - 1] = w[j]
      BY <1>10, <2>b, <3>1
    <3> QED BY <2>a, <2>b, <3>2
  <2>4. w \in Seq(Nat)
    BY <1>6, CountedWords
  <2>5. s.insert_index =< Cap /\ e.insert_index =< Cap /\ Len(w) = 2
    BY <1>4, <1>5, <1>8, <1>10, <2>1
  <2>6. /\ e.insert_index = s.insert_index + Len(w)
        /\ \A j \in 1 .. Len(w) : e.words[s.insert_index + j - 1] = w[j]
    BY <1>8, <1>10, <2>3, <2>5
  <2> QED BY <1>4, <1>10, <2>2, <2>4, <2>5, <2>6, WordsGrow
<1>12. streams'["code"] = e /\ \A n \in StreamNames : n # "code" => streams'[n] = streams[n]
  BY <1>1, <1>2, <1>3, <1>7, <1>9 DEF RInv, SInv
<1>13. stream' = stream /\ bound' = bound /\ glsl_std_450' = glsl_std_450
  BY <1>1 DEF vars
<1>14. /\ \A other \in AllStreams \ {"code"} :
            Words(StreamOf(other))' = Words(StreamOf(other))
       /\ StreamOf("code") = s /\ StreamOf("code")' = e
  BY <1>2, <1>3, <1>12, <1>13, OthersStay
<1>15. Words(StreamOf("code"))' = Words(StreamOf("code")) \o w
  BY <1>11, <1>14
<1>16. IdOf(w) = label /\ label \in Nat
  <2>1. 248 \in IdSecond
    BY IdPlaces
  <2> QED BY <1>4, <1>5, <1>6, <2>1, IdOfFacts
<1>17. Proper("code", w)
  <2>1. InSection(w, Section["code"])
    BY <1>6, LayoutFacts, SectionFacts, OpNumbers DEF InSection
  <2> QED BY <1>6, <1>16, <2>1 DEF Proper
<1>18. Gains("code", w)
  BY <1>3, <1>4, <1>14, <1>15, <1>17, GainsOne
<1>19. RefersToImport(w)
  BY <1>6, OpNumbers DEF RefersToImport
<1>20. Placing(label, w)
  BY <1>1, <1>3, <1>13, <1>16, <1>18, <1>19 DEF Placing, Adding
<1> QED BY <1>6, <1>20

\* A declaration that is new is read at the end of its section, with the id it
\* took; one that was found leaves no trace.
LEMMA DeclaringReads ==
  ASSUME RInv, "TypePipe" \notin Api, ShortClient, DeclaringCall
  PROVE  Quiet \/ \E w \in Counted : Defining("declarations", w)
<1>1. OnceInv /\ BInv /\ bound \in 0 .. MaxId /\ Method /\ UNCHANGED others
  BY DEF RInv, SInv, OnceInv, DeclaringCall
<1>2. SomeMethod
  BY <1>1, MethodCases
<1>3. BInv' /\ ShortOperands
  BY <1>1, BInvStep DEF Next, ShortClient
<1>4. streams' = streams /\ labels' = labels /\ glsl_std_450' = glsl_std_450
  BY <1>1 DEF others
<1>5. /\ StreamOf("declarations") = stream /\ StreamOf("declarations")' = stream'
      /\ \A name \in AllStreams \ {"declarations"} :
           Words(StreamOf(name))' = Words(StreamOf(name))
      /\ "declarations" \in AllStreams
  <2>1. ASSUME NEW name \in AllStreams \ {"declarations"}
        PROVE  Words(StreamOf(name))' = Words(StreamOf(name))
    <3>1. StreamOf(name)' = StreamOf(name)
      BY <1>4 DEF StreamOf
    <3> QED BY <3>1
  <2> QED BY <2>1 DEF StreamOf, AllStreams
<1>6. CASE NoEntry(stream.insert_index) /\ Words(stream') = Words(stream)
  <2>1. Words(StreamOf("declarations"))' = Words(StreamOf("declarations"))
    BY <1>5, <1>6
  <2>2. Keeps
    BY <1>5, <2>1 DEF Keeps
  <2> QED BY <1>4, <1>6, <2>2 DEF Quiet, NoEntry
<1>7. CASE \E key, ins : NewWords(key, ins)
  <2>1. PICK key, w : NewWords(key, w)
    BY <1>7
  <2>2. PICK x : x = key[1]
    OBVIOUS
  <2>3. /\ bound' = bound + 1 /\ WellFormed(key) /\ w \in Counted
        /\ w[IdPlace(w)] = bound + 1 /\ OpcodeOf(w[1]) = x
        /\ Words(stream') = Words(stream) \o w
    BY <2>1, <2>2 DEF NewWords, NewEntry
  <2>4. x \in DeclarationOps /\ x \in 19 .. 46
    BY <2>2, <2>3, DeclarationNumbers DEF WellFormed, DeclarationOps
  <2>5. IdOf(w) = bound + 1
    <3>1. /\ x \in IdSecond => IdOf(w) = w[2]
          /\ x \in IdThird => IdOf(w) = w[3]
      BY <2>3, <2>4, IdOfFacts
    <3>2. /\ x < 40 => x \in IdSecond
          /\ ~(x < 40) => x \in IdThird
      BY <2>4, IdPlaces, DeclarationNumbers
    <3>3. IdPlace(w) = IF x < 40 THEN 2 ELSE 3
      BY <2>3 DEF IdPlace
    <3> QED BY <2>3, <3>1, <3>2, <3>3
  <2>6. InSection(w, Section["declarations"])
    <3>1. x \in Layout[Section["declarations"]]
      BY <2>4, LayoutFacts, SectionFacts
    <3>2. x # Op.OpVariable
      BY <2>4, OpNumbers
    <3> QED BY <2>3, <3>1, <3>2 DEF InSection
  <2>7. Proper("declarations", w)
    BY <1>1, <2>3, <2>5, <2>6, Constants DEF Proper
  <2>8. Readable(Words(StreamOf("declarations")))
    BY <1>1, <1>5 DEF OnceInv
  <2>9. Words(StreamOf("declarations"))' = Words(StreamOf("declarations")) \o w
    BY <1>5, <2>3
  <2>10. Gains("declarations", w)
    BY <1>5, <2>7, <2>8, <2>9, GainsOne
  <2>11. "declarations" # Imports /\ "declarations" # "code"
    BY DEF Imports
  <2> QED BY <1>4, <2>3, <2>5, <2>10, <2>11 DEF Defining, Adding
<1> QED BY <1>1, <1>2, <1>3, <1>6, <1>7, CallWords

\* Whatever such a client calls, a reader sees at most one instruction more after
\* each step.
LEMMA StepReads ==
  ASSUME RInv, FittingModule, ShortClient, ModuleNext
  PROVE  ReadStep
<1>1. /\ bound \in 0 .. MaxId /\ bound \in Nat /\ glsl_std_450 \in 0 .. bound
      /\ extending => glsl_std_450 # 0
  BY Constants DEF RInv, SInv, OneImport
<1>2. OneWord
  BY <1>1, Constants DEF OneWord, FittingModule
<1>3. CASE DeclaringCall
  <2>1. "declarations" \in AllStreams
    BY DEF AllStreams
  <2> QED BY <1>3, <2>1, DeclaringReads DEF ReadStep, FittingModule
<1>4. CASE Elsewhere
  <2>1. UNCHANGED <<stream, streams, bound, labels, glsl_std_450>>
    BY <1>4 DEF Elsewhere, vars
  <2> QED BY <2>1, AllStay DEF ReadStep, Quiet
<1>5. CASE OpLabel
  <2>1. /\ UNCHANGED <<stream, streams>> /\ glsl_std_450' = glsl_std_450
        /\ bound' = bound + 1 /\ labels' = labels \cup {bound + 1}
    BY <1>5 DEF OpLabel
  <2> QED BY <2>1, AllStay DEF ReadStep, Labelling
<1>6. CASE AddLabel
  BY <1>6, AddLabelReads DEF ReadStep
<1>7. CASE Emits
  <2>1. PICK name, opcode, shape, operands :
          EmitsThis(name, opcode, shape, operands)
    BY <1>7 DEF Emits
  <2>2. /\ name \in StreamNames /\ name # Imports /\ opcode \in 1 .. Half - 1
        /\ Emit(name, opcode, shape, operands) /\ Exact(shape, operands)
        /\ Apt(name, opcode, shape) /\ Says(name, opcode, operands)
        /\ shape.id \in BOOLEAN
    BY <1>2, <2>1 DEF EmitsThis, Exact, Described
  <2>3. glsl_std_450' = glsl_std_450 /\ labels' = labels
    BY <1>7 DEF Emits
  <2>4. PICK w \in Counted :
          /\ Gains(name, w)
          /\ name = "code" => RefersToImport(w)
          /\ IdOf(w) = IF shape.id THEN bound + 1 ELSE 0
          /\ bound' = IF shape.id THEN bound + 1 ELSE bound
    BY <1>1, <2>2, EmitReads
  <2>5. Adding(name, w) /\ name \in AllStreams
    BY <2>2, <2>3, <2>4 DEF Adding, AllStreams
  <2>6. Defining(name, w) \/ Stating(name, w)
    BY <2>2, <2>3, <2>4, <2>5 DEF Defining, Stating
  <2> QED BY <2>5, <2>6 DEF ReadStep
<1>8. CASE Import
  <2>1. Imports \in AllStreams
    BY DEF AllStreams, StreamNames, Imports
  <2> QED BY <1>1, <1>8, <2>1, ImportReads DEF ReadStep
<1> QED BY <1>3, <1>4, <1>5, <1>6, <1>7, <1>8, ModuleCases

\* The declarations are among the streams that can be read.
LEMMA AllReadable ==
  ASSUME RInv, NEW name \in AllStreams
  PROVE  Readable(Words(StreamOf(name))) /\ ReadOf(name) \in Seq(Counted)
<1>1. PICK ws : ws = Words(StreamOf(name))
  OBVIOUS
<1>2. Readable(ws)
  BY <1>1 DEF RInv, OnceInv, StreamOf, AllStreams
<1>3. ParseInstructions(ws) \in Seq(Counted)
  BY <1>2, ReadableReads
<1> QED BY <1>1, <1>2, <1>3 DEF ReadOf

\* A step that the model does not take changes nothing a reader sees.
LEMMA NextReads ==
  ASSUME RInv, FittingModule, ShortClient, [ModuleNext]_module_vars
  PROVE  ReadStep
<1>1. CASE ModuleNext
  BY <1>1, StepReads
<1>2. CASE UNCHANGED module_vars
  <2>1. UNCHANGED <<stream, streams, bound, labels, glsl_std_450>>
    BY <1>2 DEF module_vars, vars, others
  <2> QED BY <2>1, AllStay DEF ReadStep, Quiet
<1> QED BY <1>1, <1>2

\* Either all words stay or one stream gains an instruction.
LEMMA ReadStepWords ==
  ASSUME ReadStep
  PROVE  Keeps \/ \E name \in AllStreams, w \in Counted : Gains(name, w)
<1>1. "code" \in AllStreams
  BY DEF AllStreams, StreamNames
<1>2. ASSUME NEW label \in labels, NEW w \in Counted, Placing(label, w)
      PROVE  Gains("code", w)
  BY <1>2 DEF Placing, Adding
<1>3. ASSUME NEW name, NEW w, Defining(name, w) \/ Stating(name, w)
      PROVE  Gains(name, w)
  BY <1>3 DEF Defining, Stating, Adding
<1> QED BY <1>1, <1>2, <1>3 DEF ReadStep, Quiet, Labelling

\* Empty streams can be read.
LEMMA RInvInit == ModuleInit => RInv
<1> SUFFICES ASSUME ModuleInit PROVE RInv
  OBVIOUS
<1>1. SInv /\ OnceInv
  BY SInvInit, OnceInit DEF ModuleInit
<1>2. Words(EmptyStream) = <<>>
  BY DEF Words, EmptyStream
<1>3. \A name \in StreamNames : Words(streams[name]) = <<>>
  BY <1>2 DEF ModuleInit
<1> QED BY <1>1, <1>3, ReadableEmpty DEF RInv

\* Every step leaves streams that can be read.
LEMMA RInvNext ==
  ASSUME RInv, FittingModule, ShortClient, [ModuleNext]_module_vars
  PROVE  RInv'
<1>1. SInv'
  BY SInvNext DEF RInv, FittingModule
<1>2. OnceInv'
  BY OnceStep, NextDeclares DEF RInv, FittingModule, ShortClient
<1>3. ASSUME NEW n \in StreamNames PROVE Readable(Words(streams[n]))'
  <2>1. /\ n \in AllStreams /\ StreamOf(n) = streams[n]
        /\ StreamOf(n)' = streams'[n] /\ Readable(Words(StreamOf(n)))
    BY DEF RInv, AllStreams, StreamOf, StreamNames
  <2>2. CASE Words(StreamOf(n))' = Words(StreamOf(n))
    BY <2>1, <2>2
  <2>3. CASE Readable(Words(StreamOf(n)))'
    BY <2>1, <2>3
  <2>4. Keeps \/ \E name \in AllStreams, w \in Counted : Gains(name, w)
    BY NextReads, ReadStepWords
  <2> QED BY <2>1, <2>2, <2>3, <2>4 DEF Keeps, Gains
<1> QED BY <1>1, <1>2, <1>3 DEF RInv

-----------------------------------------------------------------------------
(* The instructions of a module and the ids they define.                   *)

AllRead == [name \in AllStreams |-> ReadOf(name)]

\* One section of s has w at a place where r has nothing.
GrowsBy(r, s, name, w) ==
  /\ \A n \in AllStreams \ {name} : s[n] = r[n]
  /\ \E k : /\ k \notin DOMAIN r[name]
            /\ DOMAIN s[name] = DOMAIN r[name] \cup {k}
            /\ s[name][k] = w
            /\ \A j \in DOMAIN r[name] : s[name][j] = r[name][j]

OfSections(r) ==
  \A name \in AllStreams : \A k \in DOMAIN r[name] : Proper(name, r[name][k])

\* The ids that have been taken for instructions.
Taken == (1 .. bound) \ labels

\* Each of these ids is defined at one place, and no other id is.
Defines(r, ids) ==
  /\ \A n \in AllStreams : \A k \in DOMAIN r[n] : IdOf(r[n][k]) \in ids \cup {0}
  /\ \A id \in ids : \E n \in AllStreams : \E k \in DOMAIN r[n] : IdOf(r[n][k]) = id
  /\ \A m, n \in AllStreams : \A j \in DOMAIN r[m], k \in DOMAIN r[n] :
       IdOf(r[m][j]) = IdOf(r[n][k]) => IdOf(r[m][j]) = 0 \/ (m = n /\ j = k)

\* A stream that gains an instruction has one more to read, at a new place.
LEMMA ReadGrows ==
  ASSUME RInv, NEW name \in AllStreams, NEW w, Gains(name, w)
  PROVE  GrowsBy(AllRead, AllRead', name, w) /\ Proper(name, w)
<1>1. PICK r, s : r = AllRead /\ s = AllRead'
  OBVIOUS
<1>2. \A n \in AllStreams : r[n] = ReadOf(n) /\ s[n] = ReadOf(n)'
  BY <1>1 DEF AllRead
<1>3. ASSUME NEW n \in AllStreams \ {name} PROVE s[n] = r[n]
  <2>1. Words(StreamOf(n))' = Words(StreamOf(n))
    BY DEF Gains
  <2>2. ReadOf(n)' = ReadOf(n)
    BY <2>1 DEF ReadOf
  <2> QED BY <1>2, <2>2
<1>4. r[name] \in Seq(Counted) /\ w \in Counted /\ s[name] = Append(r[name], w)
  BY <1>2, AllReadable DEF Gains, Proper
<1>5. PICK a, k : a = r[name] /\ k = Len(a) + 1
  OBVIOUS
<1>6. /\ k \notin DOMAIN a /\ DOMAIN Append(a, w) = DOMAIN a \cup {k}
      /\ Append(a, w)[k] = w /\ \A j \in DOMAIN a : Append(a, w)[j] = a[j]
  BY <1>4, <1>5
<1> QED BY <1>1, <1>3, <1>4, <1>5, <1>6 DEF GrowsBy, Gains

\* Words that stay are read as before.
LEMMA ReadStays ==
  ASSUME Keeps PROVE AllRead' = AllRead
<1>1. \A n \in AllStreams : ReadOf(n)' = ReadOf(n)
  BY DEF Keeps, ReadOf
<1> QED BY <1>1 DEF AllRead

\* An instruction of its section more keeps the sections apart.
LEMMA SectionsMore ==
  ASSUME NEW r, NEW s, NEW name \in AllStreams, NEW w, GrowsBy(r, s, name, w),
         OfSections(r), Proper(name, w)
  PROVE  OfSections(s)
<1> SUFFICES ASSUME NEW n \in AllStreams, NEW k \in DOMAIN s[n]
             PROVE  Proper(n, s[n][k])
  BY DEF OfSections
<1>1. CASE n # name
  BY <1>1 DEF GrowsBy, OfSections
<1>2. CASE n = name
  BY <1>2 DEF GrowsBy, OfSections
<1> QED BY <1>1, <1>2

\* An instruction with a new id, or with none, defines that id and no other.
LEMMA DefinesMore ==
  ASSUME NEW r, NEW s, NEW name \in AllStreams, NEW w, GrowsBy(r, s, name, w),
         NEW ids, Defines(r, ids), IdOf(w) \notin ids
  PROVE  Defines(s, ids \cup ({IdOf(w)} \ {0}))
<1>1. PICK p : /\ p \notin DOMAIN r[name]
               /\ DOMAIN s[name] = DOMAIN r[name] \cup {p}
               /\ s[name][p] = w
               /\ \A j \in DOMAIN r[name] : s[name][j] = r[name][j]
  BY DEF GrowsBy
<1>2. ASSUME NEW n \in AllStreams, NEW k \in DOMAIN r[n]
      PROVE  k \in DOMAIN s[n] /\ s[n][k] = r[n][k] /\ IdOf(r[n][k]) \in ids \cup {0}
  BY <1>1 DEF GrowsBy, Defines
<1>3. ASSUME NEW n \in AllStreams, NEW k \in DOMAIN s[n]
      PROVE  \/ k \in DOMAIN r[n] /\ s[n][k] = r[n][k]
             \/ n = name /\ k = p /\ s[n][k] = w
  BY <1>1 DEF GrowsBy
<1>4. ASSUME NEW n \in AllStreams, NEW k \in DOMAIN s[n]
      PROVE  IdOf(s[n][k]) \in (ids \cup ({IdOf(w)} \ {0})) \cup {0}
  <2>1. CASE k \in DOMAIN r[n] /\ s[n][k] = r[n][k]
    <3>1. IdOf(r[n][k]) \in ids \cup {0}
      BY <1>2, <2>1
    <3> QED BY <2>1, <3>1
  <2>2. CASE s[n][k] = w
    BY <2>2
  <2> QED BY <1>3, <2>1, <2>2
<1>5. ASSUME NEW id \in ids \cup ({IdOf(w)} \ {0})
      PROVE  \E n \in AllStreams : \E k \in DOMAIN s[n] : IdOf(s[n][k]) = id
  <2>1. CASE id \in ids
    <3>1. PICK n \in AllStreams : \E k \in DOMAIN r[n] : IdOf(r[n][k]) = id
      BY <2>1 DEF Defines
    <3>2. PICK k \in DOMAIN r[n] : IdOf(r[n][k]) = id
      BY <3>1
    <3> QED BY <1>2, <3>2
  <2>2. CASE id = IdOf(w)
    BY <1>1, <2>2
  <2> QED BY <2>1, <2>2
<1>6. ASSUME NEW m \in AllStreams, NEW n \in AllStreams,
             NEW j \in DOMAIN s[m], NEW k \in DOMAIN s[n],
             IdOf(s[m][j]) = IdOf(s[n][k]), IdOf(s[m][j]) # 0
      PROVE  m = n /\ j = k
  <2>1. CASE /\ j \in DOMAIN r[m] /\ s[m][j] = r[m][j]
             /\ k \in DOMAIN r[n] /\ s[n][k] = r[n][k]
    BY <1>6, <2>1 DEF Defines
  <2>2. CASE /\ j \in DOMAIN r[m] /\ s[m][j] = r[m][j]
             /\ s[n][k] = w
    <3>1. IdOf(r[m][j]) \in ids
      BY <1>2, <1>6, <2>2
    <3> QED BY <1>6, <2>2, <3>1
  <2>3. CASE /\ k \in DOMAIN r[n] /\ s[n][k] = r[n][k]
             /\ s[m][j] = w
    <3>1. IdOf(r[n][k]) \in ids
      BY <1>2, <1>6, <2>3
    <3> QED BY <1>6, <2>3, <3>1
  <2>4. CASE n = name /\ k = p /\ m = name /\ j = p
    BY <2>4
  <2> QED BY <1>3, <2>1, <2>2, <2>3, <2>4
<1> QED BY <1>4, <1>5, <1>6 DEF Defines

\* A step takes an id for the instruction it adds, and no other.
LEMMA ReadStepCases ==
  ASSUME RInv, ReadStep
  PROVE  \/ Keeps /\ Taken' = Taken /\ glsl_std_450' = glsl_std_450
         \/ \E name \in AllStreams, w \in Counted :
              /\ Adding(name, w) /\ IdOf(w) \notin Taken
              /\ Taken' = Taken \cup ({IdOf(w)} \ {0})
              /\ name = Imports => IdOf(w) # 0
<1>0. bound \in Nat /\ labels \subseteq 1 .. bound /\ "code" \in AllStreams
      /\ Imports # "code"
  BY Constants DEF RInv, SInv, AllStreams, StreamNames, Imports
<1>1. CASE Quiet
  BY <1>1 DEF Quiet, Taken
<1>2. CASE Labelling
  <2>1. (1 .. bound + 1) \ (labels \cup {bound + 1}) = (1 .. bound) \ labels
    BY <1>0
  <2> QED BY <1>2, <2>1 DEF Labelling, Taken
<1>3. ASSUME NEW name \in AllStreams, NEW w \in Counted, Defining(name, w)
      PROVE  /\ Adding(name, w) /\ IdOf(w) \notin Taken
             /\ Taken' = Taken \cup ({IdOf(w)} \ {0})
             /\ name = Imports => IdOf(w) # 0
  <2>1. /\ Adding(name, w) /\ IdOf(w) = bound + 1 /\ bound' = bound + 1
        /\ labels' = labels
    BY <1>3 DEF Defining
  <2>2. bound + 1 # 0 /\ bound + 1 \notin 1 .. bound
    BY <1>0
  <2>3. (1 .. bound + 1) \ labels = ((1 .. bound) \ labels) \cup {bound + 1}
    BY <1>0
  <2> QED BY <2>1, <2>2, <2>3 DEF Taken
<1>4. ASSUME NEW name \in AllStreams, NEW w \in Counted, Stating(name, w)
      PROVE  /\ Adding(name, w) /\ IdOf(w) \notin Taken
             /\ Taken' = Taken \cup ({IdOf(w)} \ {0})
             /\ name = Imports => IdOf(w) # 0
  <2>1. 0 \notin 1 .. bound
    BY <1>0
  <2> QED BY <1>4, <2>1 DEF Stating, Taken
<1>5. ASSUME NEW label \in labels, NEW w \in Counted, Placing(label, w)
      PROVE  /\ Adding("code", w) /\ IdOf(w) \notin Taken
             /\ Taken' = Taken \cup ({IdOf(w)} \ {0})
  <2>1. /\ Adding("code", w) /\ IdOf(w) = label /\ bound' = bound
        /\ labels' = labels \ {label}
    BY <1>5 DEF Placing
  <2>2. label \in 1 .. bound /\ label # 0
    BY <1>0
  <2> QED BY <2>1, <2>2 DEF Taken
<1> QED BY <1>0, <1>1, <1>2, <1>3, <1>4, <1>5 DEF ReadStep

\* The sections are sorted and the ids are defined once.
Sorted == OfSections(AllRead) /\ Defines(AllRead, Taken)

\* What is imported, and what refers to it, as they are read.
GlslInv ==
  /\ glsl_std_450 = 0 => ReadOf(Imports) = <<>>
  /\ glsl_std_450 # 0 => /\ Len(ReadOf(Imports)) = 1
                         /\ IdOf(ReadOf(Imports)[1]) = glsl_std_450
  /\ \A k \in DOMAIN ReadOf("code") : RefersToImport(ReadOf("code")[k])

MInv == RInv /\ Sorted /\ GlslInv

\* Nothing is read in a new module.
LEMMA NothingRead ==
  ASSUME ModuleInit, NEW name \in AllStreams
  PROVE  ReadOf(name) = <<>>
<1>1. Words(EmptyStream) = <<>>
  BY DEF Words, EmptyStream
<1>2. StreamOf(name) = EmptyStream
  BY DEF ModuleInit, Init, StreamOf, AllStreams
<1> QED BY <1>1, <1>2, ReadableEmpty DEF ReadOf

\* A new module defines no id and imports nothing.
LEMMA MInvInit == ModuleInit => MInv
<1> SUFFICES ASSUME ModuleInit PROVE MInv
  OBVIOUS
<1>1. RInv
  BY RInvInit
<1>2. DOMAIN <<>> = {}
  OBVIOUS
<1>3. \A name \in AllStreams : AllRead[name] = <<>>
  BY NothingRead DEF AllRead
<1>4. Taken = {}
  BY DEF Taken, ModuleInit, Init
<1>5. Sorted
  BY <1>2, <1>3, <1>4 DEF Sorted, OfSections, Defines
<1>6. Imports \in AllStreams /\ "code" \in AllStreams
  BY DEF AllStreams, StreamNames, Imports
<1>7. ReadOf(Imports) = <<>> /\ ReadOf("code") = <<>> /\ glsl_std_450 = 0
  BY <1>6, NothingRead DEF ModuleInit
<1>8. GlslInv
  BY <1>2, <1>7 DEF GlslInv
<1> QED BY <1>1, <1>5, <1>8 DEF MInv

\* Every step keeps the sections apart and the ids defined once.
LEMMA SortedNext ==
  ASSUME RInv, Sorted, ReadStep
  PROVE  Sorted'
<1>1. CASE Keeps /\ Taken' = Taken
  BY <1>1, ReadStays DEF Sorted, OfSections, Defines
<1>2. ASSUME NEW name \in AllStreams, NEW w, Adding(name, w), IdOf(w) \notin Taken,
             Taken' = Taken \cup ({IdOf(w)} \ {0})
      PROVE  Sorted'
  <2>1. PICK r, s : r = AllRead /\ s = AllRead'
    OBVIOUS
  <2>2. GrowsBy(r, s, name, w) /\ Proper(name, w)
    BY <1>2, <2>1, ReadGrows DEF Adding
  <2>3. OfSections(r) /\ Defines(r, Taken)
    BY <2>1 DEF Sorted
  <2>4. OfSections(s)
    BY <2>2, <2>3, SectionsMore
  <2>5. Defines(s, Taken')
    BY <1>2, <2>2, <2>3, DefinesMore
  <2>6. OfSections(AllRead)'
    BY <2>1, <2>4 DEF OfSections, Proper
  <2>7. Defines(AllRead, Taken)'
    BY <2>1, <2>5 DEF Defines
  <2> QED BY <2>6, <2>7 DEF Sorted
<1> QED BY <1>1, <1>2, ReadStepCases

\* Every step keeps the import one, and what refers to it right.
LEMMA GlslNext ==
  ASSUME RInv, GlslInv, ReadStep
  PROVE  GlslInv'
<1>0. Imports \in AllStreams /\ "code" \in AllStreams /\ Imports # "code"
  BY DEF AllStreams, StreamNames, Imports
<1>1. CASE Keeps /\ glsl_std_450' = glsl_std_450
  <2>1. ReadOf(Imports)' = ReadOf(Imports) /\ ReadOf("code")' = ReadOf("code")
    BY <1>0, <1>1 DEF Keeps, ReadOf
  <2> QED BY <1>1, <2>1 DEF GlslInv, RefersToImport
<1>2. ASSUME NEW name \in AllStreams, NEW w \in Counted, Adding(name, w),
             name = Imports => IdOf(w) # 0
      PROVE  GlslInv'
  <2>1. /\ ReadOf(name)' = Append(ReadOf(name), w)
        /\ \A n \in AllStreams \ {name} : ReadOf(n)' = ReadOf(n)
    BY <1>2 DEF Adding, Gains, ReadOf
  <2>2. CASE name = Imports
    <3>1. /\ glsl_std_450 = 0 /\ glsl_std_450' = IdOf(w) /\ IdOf(w) # 0
          /\ ReadOf(Imports) = <<>> /\ ReadOf("code")' = ReadOf("code")
      BY <1>0, <1>2, <2>1, <2>2 DEF Adding, GlslInv
    <3>2. Append(<<>>, w) = <<w>> /\ Len(<<w>>) = 1 /\ <<w>>[1] = w
      OBVIOUS
    <3>3. ReadOf(Imports)' = <<w>>
      BY <2>1, <2>2, <3>1, <3>2
    <3>4. \A k \in DOMAIN ReadOf("code") : RefersToImport(ReadOf("code")[k])'
      BY <3>1 DEF GlslInv, RefersToImport
    <3> QED BY <3>1, <3>2, <3>3, <3>4 DEF GlslInv
  <2>3. CASE name # Imports
    <3>1. glsl_std_450' = glsl_std_450 /\ ReadOf(Imports)' = ReadOf(Imports)
      BY <1>0, <1>2, <2>1, <2>3 DEF Adding
    <3>2. PICK c : c = ReadOf("code")
      OBVIOUS
    <3>3. c \in Seq(Counted)
      BY <1>0, <3>2, AllReadable
    <3>4. /\ \A x : RefersToImport(x)' <=> RefersToImport(x)
          /\ \A k \in DOMAIN c : RefersToImport(c[k])
      BY <3>1, <3>2 DEF GlslInv, RefersToImport
    <3>5. ASSUME NEW k \in DOMAIN ReadOf("code")'
          PROVE  RefersToImport(ReadOf("code")'[k])
      <4>1. CASE name = "code"
        <5>1. ReadOf("code")' = Append(c, w) /\ RefersToImport(w)
          BY <1>2, <2>1, <3>2, <4>1 DEF Adding
        <5>2. \/ k \in DOMAIN c /\ Append(c, w)[k] = c[k]
              \/ Append(c, w)[k] = w
          BY <3>3, <3>5, <5>1
        <5> QED BY <3>4, <5>1, <5>2
      <4>2. CASE name # "code"
        <5>1. ReadOf("code")' = c
          BY <1>0, <2>1, <3>2, <4>2
        <5> QED BY <3>4, <3>5, <5>1
      <4> QED BY <4>1, <4>2
    <3>6. \A k \in DOMAIN ReadOf("code")' : RefersToImport(ReadOf("code")[k])'
      BY <3>4, <3>5
    <3> QED BY <3>1, <3>6 DEF GlslInv
  <2> QED BY <2>2, <2>3
<1> QED BY <1>1, <1>2, ReadStepCases

\* Every step keeps all of it.
LEMMA MInvNext ==
  ASSUME MInv, FittingModule, ShortClient, [ModuleNext]_module_vars
  PROVE  MInv'
<1>1. RInv /\ ReadStep
  BY NextReads DEF MInv
<1> QED BY <1>1, RInvNext, SortedNext, GlslNext DEF MInv

\* For a client that calls nothing that writes behind a vector, TypePipe neither,
\* and whose names and spans fit an instruction, GLSL.std.450 is imported by one instruction, read in its own
\* section, and everything that the methods of extension.cpp put into the code
\* refers to the id that this instruction defines.
THEOREM ImportedOnce ==
  ASSUME FittingModule, ShortClient
  PROVE  ModuleSpec => []GlslImportedOnce
<1>1. MInv /\ [ModuleNext]_module_vars => MInv'
  BY MInvNext
<1>2. MInv => GlslImportedOnce
  <2> SUFFICES ASSUME MInv PROVE GlslImportedOnce
    OBVIOUS
  <2>1. /\ ReadOf(Imports) = ParseInstructions(Words(streams["ext_inst_imports"]))
        /\ ReadOf("code") = ParseInstructions(Words(streams["code"]))
    BY DEF ReadOf, StreamOf, Imports
  <2> QED BY <2>1 DEF MInv, GlslInv, RefersToImport, GlslImportedOnce, ToSet
<1> QED
  BY <1>1, <1>2, MInvInit, PTL DEF ModuleSpec

-----------------------------------------------------------------------------
(* A module implements Assembler.                                          *)

\* How Assembler shows an instruction, and the instructions of a section.
Shown(w) == [id |-> IdOf(w), words |-> w]
ShownAll(r) == [k \in DOMAIN r |-> Shown(r[k])]

\* An instruction more is one more that is shown.
LEMMA ShownAppend ==
  ASSUME NEW r \in Seq(Counted), NEW w \in Counted
  PROVE  /\ ShownAll(Append(r, w)) = Append(ShownAll(r), Shown(w))
         /\ Len(ShownAll(r)) = Len(r)
<1> DEFINE S == {Shown(x) : x \in Counted}
<1>1. PICK n \in Nat : n = Len(r)
  BY LenProperties
<1>2. DOMAIN r = 1 .. n /\ \A k \in 1 .. n : r[k] \in Counted
  BY <1>1
<1>3. PICK u : u = ShownAll(r)
  OBVIOUS
<1>4. u \in [1 .. n -> S] /\ \A k \in 1 .. n : u[k] = Shown(r[k])
  BY <1>2, <1>3 DEF ShownAll
<1>6. PICK x \in S : x = Shown(w)
  OBVIOUS
<1> HIDE DEF S
<1>5. u \in Seq(S) /\ Len(u) = n
  BY <1>4, SeqDef, LenProperties
<1>7. PICK v : v = Append(r, w)
  OBVIOUS
<1>8. /\ DOMAIN v = 1 .. n + 1 /\ v[n + 1] = w
      /\ \A k \in 1 .. n : v[k] = r[k]
  BY <1>1, <1>7
<1>9. PICK t : t = Append(u, x)
  OBVIOUS
<1>10. /\ DOMAIN t = 1 .. n + 1 /\ t[n + 1] = x
       /\ \A k \in 1 .. n : t[k] = u[k]
       /\ t = [k \in 1 .. n + 1 |-> t[k]]
  <2>1. /\ t \in Seq(S) /\ Len(t) = n + 1 /\ t[n + 1] = x
        /\ \A k \in 1 .. n : t[k] = u[k]
    BY <1>5, <1>9, AppendProperties
  <2>2. t \in [1 .. n + 1 -> S]
    BY <2>1, LenProperties
  <2> QED BY <2>1, <2>2
<1>11. ASSUME NEW k \in 1 .. n + 1 PROVE Shown(v[k]) = t[k]
  <2>1. CASE k = n + 1
    BY <1>6, <1>8, <1>10, <2>1
  <2>2. CASE k \in 1 .. n
    BY <1>4, <1>8, <1>10, <2>2
  <2> QED BY <1>1, <2>1, <2>2
<1>12. ShownAll(v) = t
  BY <1>8, <1>10, <1>11 DEF ShownAll
<1> QED BY <1>1, <1>3, <1>5, <1>6, <1>7, <1>9, <1>12

\* The contents are what is read in the streams.
LEMMA ContentsRead ==
  /\ contents = [name \in AllStreams |-> ShownAll(ReadOf(name))]
  /\ contents' = [name \in AllStreams |-> ShownAll(ReadOf(name))']
  BY DEF contents, Read, ShownAll, Shown, ReadOf, StreamOf, AllStreams

\* The instruction that a stream gains is what Assembler adds to its section.
LEMMA GainsAdds ==
  ASSUME RInv, NEW name \in AllStreams, NEW w, Gains(name, w)
  PROVE  Client!Adds(name, IdOf(w))
<1>1. PICK c, d : c = contents /\ d = contents'
  OBVIOUS
<1>2. PICK r : r = ReadOf(name)
  OBVIOUS
<1>3. r \in Seq(Counted) /\ w \in Counted /\ IdOf(w) \in Nat /\ w \in Seq(Nat)
  BY <1>2, AllReadable, CountedWords DEF Gains, Proper
<1>4. /\ DOMAIN c = AllStreams /\ c = [n \in AllStreams |-> c[n]]
      /\ DOMAIN d = AllStreams /\ d = [n \in AllStreams |-> d[n]]
      /\ c[name] = ShownAll(r)
  BY <1>1, <1>2, ContentsRead
<1>5. PICK u, x : u = ShownAll(r) /\ x = Shown(w)
  OBVIOUS
<1>6. d[name] = Append(u, x)
  <2>1. ReadOf(name)' = Append(r, w)
    BY <1>2 DEF Gains
  <2>2. d[name] = ShownAll(ReadOf(name))'
    BY <1>1, ContentsRead
  <2>3. ShownAll(ReadOf(name))' = ShownAll(Append(r, w))
    BY <2>1 DEF ShownAll, Shown
  <2> QED BY <1>3, <1>5, <2>2, <2>3, ShownAppend
<1>7. ASSUME NEW n \in AllStreams \ {name} PROVE d[n] = c[n]
  <2>1. ReadOf(n)' = ReadOf(n)
    BY DEF Gains, ReadOf
  <2>2. ShownAll(ReadOf(n))' = ShownAll(ReadOf(n))
    BY <2>1 DEF ShownAll, Shown
  <2> QED BY <1>1, <2>2, ContentsRead
<1>8. d = [c EXCEPT ![name] = Append(u, x)]
  BY <1>4, <1>6, <1>7
<1>9. Len(Append(u, x)) = Len(u) + 1 /\ Client!Last(Append(u, x)) = x
  <2>1. PICK n \in Nat : n = Len(r) /\ n = Len(u)
    BY <1>3, <1>5, ShownAppend
  <2>2. Append(u, x) = ShownAll(Append(r, w)) /\ Append(r, w) \in Seq(Counted)
    BY <1>3, <1>5, ShownAppend
  <2>3. Len(Append(u, x)) = n + 1
    <3>1. Len(ShownAll(Append(r, w))) = Len(Append(r, w))
      BY <1>3, <2>2, ShownAppend
    <3> QED BY <1>3, <2>1, <2>2, <3>1
  <2>4. ShownAll(Append(r, w))[n + 1] = x
    BY <1>3, <1>5, <2>1 DEF ShownAll
  <2> QED BY <2>1, <2>2, <2>3, <2>4 DEF Client!Last
<1>10. x \in Client!Instruction /\ x.id = IdOf(w)
  BY <1>3, <1>5 DEF Client!Instruction, Shown
<1>11. c[name] = u
  BY <1>4, <1>5
<1> QED BY <1>1, <1>6, <1>8, <1>9, <1>10, <1>11 DEF Client!Adds

\* Every step of a module is one of Assembler's, or changes nothing there.
LEMMA StepAssembles ==
  ASSUME RInv, ReadStep
  PROVE  Client!Next \/ UNCHANGED Client!vars
<1>1. Keeps => contents' = contents
  <2> SUFFICES ASSUME Keeps PROVE contents' = contents
    OBVIOUS
  <2>1. ASSUME NEW n \in AllStreams PROVE ShownAll(ReadOf(n))' = ShownAll(ReadOf(n))
    <3>1. ReadOf(n)' = ReadOf(n)
      BY DEF Keeps, ReadOf
    <3> QED BY <3>1 DEF ShownAll, Shown
  <2> QED BY <2>1, ContentsRead
<1>2. CASE Quiet
  BY <1>1, <1>2 DEF Quiet, Client!vars
<1>3. CASE Labelling
  BY <1>1, <1>3 DEF Labelling, Client!NewLabel, Client!Next
<1>4. ASSUME NEW name \in AllStreams, NEW w \in Counted, Defining(name, w)
      PROVE  Client!Next
  <2>1. Client!Adds(name, bound + 1) /\ bound' = bound + 1 /\ labels' = labels
    BY <1>4, GainsAdds DEF Defining, Adding
  <2> QED BY <2>1 DEF Client!Define, Client!Next, AllStreams
<1>5. ASSUME NEW name \in AllStreams, NEW w \in Counted, Stating(name, w)
      PROVE  Client!Next
  <2>1. Client!Adds(name, 0) /\ bound' = bound /\ labels' = labels
    BY <1>5, GainsAdds DEF Stating, Adding
  <2> QED BY <2>1 DEF Client!State, Client!Next, AllStreams
<1>6. ASSUME NEW label \in labels, NEW w \in Counted, Placing(label, w)
      PROVE  Client!Next
  <2>1. "code" \in AllStreams
    BY DEF AllStreams, StreamNames
  <2>2. Client!Adds("code", label) /\ bound' = bound /\ labels' = labels \ {label}
    BY <1>6, <2>1, GainsAdds DEF Placing, Adding
  <2> QED BY <2>2 DEF Client!PlaceLabel, Client!Next
<1> QED BY <1>2, <1>3, <1>4, <1>5, <1>6 DEF ReadStep

\* A new module is an empty one of Assembler.
LEMMA InitAssembles == ModuleInit => Client!Init
<1> SUFFICES ASSUME ModuleInit PROVE Client!Init
  OBVIOUS
<1>1. ShownAll(<<>>) = <<>>
  BY DEF ShownAll
<1>2. \A name \in AllStreams : ShownAll(ReadOf(name)) = <<>>
  BY <1>1, NothingRead
<1>3. contents = [name \in AllStreams |-> <<>>]
  BY <1>2, ContentsRead
<1> QED BY <1>3 DEF Client!Init, AllStreams, ModuleInit, Init

\* The module of such a client implements Assembler: streams that share the
\* counter, that reserve and leave room over, and declarations that are taken
\* back, do not show.  Each step adds at most one instruction; the first call of
\* a method that the macros of extension.cpp define is two steps.
THEOREM ImplementsAssembler ==
  ASSUME FittingModule, ShortClient
  PROVE  ModuleSpec => Assembles
<1>1. RInv /\ [ModuleNext]_module_vars => RInv'
  BY RInvNext
<1>2. RInv /\ [ModuleNext]_module_vars => [Client!Next]_Client!vars
  BY NextReads, StepAssembles
<1> QED
  BY <1>1, <1>2, RInvInit, InitAssembles, PTL DEF ModuleSpec, Assembles, Client!Spec

-----------------------------------------------------------------------------
(* What a module has besides its streams.                                  *)

\* The header has what the client asked for, and no other component changes it.
HInv ==
  /\ capabilities \subseteq Capabilities /\ IsFiniteSet(capabilities)
  /\ extensions \subseteq Extensions /\ IsFiniteSet(extensions)
  /\ <<addressing_model, memory_model>> \in Models \cup {<<0, 1>>}
  /\ extending \in BOOLEAN

\* Only three methods change it, and no other but those of extension.cpp is in
\* two parts.
LEMMA HeaderCases ==
  ASSUME ModuleNext, extending \in BOOLEAN
  PROVE  /\ UNCHANGED header \/ AddCapability \/ AddExtension \/ SetMemoryModel
         /\ extending' \in BOOLEAN
<1>1. CASE extending /\ EndExtension
  BY <1>1 DEF EndExtension, EmitExtInst
<1>2. CASE BeginExtension
  BY <1>2 DEF BeginExtension
<1>3. DeclaringCall \/ OpLabel \/ AddLabel \/ OpExtInst
        => UNCHANGED header /\ UNCHANGED extending
  BY DEF DeclaringCall, others, OpLabel, AddLabel, OpExtInst, EmitExtInst
<1>4. AddCapability \/ AddExtension \/ SetMemoryModel => UNCHANGED extending
  BY DEF AddCapability, AddExtension, SetMemoryModel
<1>5. AddEntryPoint \/ AddExecutionMode \/ AddLocalVariable \/ AddGlobalVariable
        \/ Name \/ MemberName \/ String \/ OpLine \/ Decorate \/ MemberDecorate
        \/ CodeMethod => UNCHANGED header /\ UNCHANGED extending
  BY DEF EmitAny, AddEntryPoint, AddExecutionMode, AddLocalVariable,
         AddGlobalVariable, Name, MemberName, String, OpLine, Decorate,
         MemberDecorate, CodeMethod
<1> QED BY <1>1, <1>2, <1>3, <1>4, <1>5 DEF ModuleNext, Call

\* A new module has no capabilities and the memory model of its members.
LEMMA HInvInit == ModuleInit => HInv
  BY FS_EmptySet DEF ModuleInit, HInv

\* Every step keeps the header one that the client asked for.
LEMMA HInvNext ==
  ASSUME HInv, [ModuleNext]_module_vars
  PROVE  HInv'
<1>1. CASE UNCHANGED header /\ extending' \in BOOLEAN
  BY <1>1 DEF HInv, header
<1>2. CASE AddCapability /\ extending' \in BOOLEAN
  <2>1. PICK capability \in Capabilities :
          /\ capabilities' = capabilities \cup {capability}
          /\ UNCHANGED <<extensions, addressing_model, memory_model>>
    BY <1>2 DEF AddCapability
  <2>2. IsFiniteSet(capabilities \cup {capability})
    BY FS_AddElement DEF HInv
  <2> QED BY <1>2, <2>1, <2>2 DEF HInv
<1>3. CASE AddExtension /\ extending' \in BOOLEAN
  <2>1. PICK name \in Extensions :
          /\ extensions' = extensions \cup {name}
          /\ UNCHANGED <<capabilities, addressing_model, memory_model>>
    BY <1>3 DEF AddExtension
  <2>2. IsFiniteSet(extensions \cup {name})
    BY FS_AddElement DEF HInv
  <2> QED BY <1>3, <2>1, <2>2 DEF HInv
<1>4. CASE SetMemoryModel /\ extending' \in BOOLEAN
  <2>1. PICK model \in Models :
          /\ addressing_model' = model[1] /\ memory_model' = model[2]
          /\ UNCHANGED <<capabilities, extensions>>
    BY <1>4 DEF SetMemoryModel
  <2>2. model = <<model[1], model[2]>>
    BY SiritAssumption
  <2>3. <<addressing_model', memory_model'>> \in Models
    BY <2>1, <2>2
  <2> QED BY <1>4, <2>1, <2>3 DEF HInv
<1>5. CASE UNCHANGED module_vars
  BY <1>5 DEF HInv, module_vars, others, header
<1>6. CASE ModuleNext
  BY <1>1, <1>2, <1>3, <1>4, <1>6, HeaderCases DEF HInv
<1> QED BY <1>5, <1>6

-----------------------------------------------------------------------------
(* What Assemble returns.                                                  *)

\* A set in some order: each element is at one place.
LEMMA InSomeOrder ==
  ASSUME NEW S, IsFiniteSet(S), NEW f \in SetToSeqs(S)
  PROVE  /\ f \in Seq(S)
         /\ \A i, j \in DOMAIN f : f[i] = f[j] => i = j
         /\ \A x \in S : \E i \in DOMAIN f : f[i] = x
<1>1. PICK n \in Nat : n = Cardinality(S)
  BY FS_CardinalityType
<1>2. f \in [1 .. n -> S] /\ \A i, j \in 1 .. n : i # j => f[i] # f[j]
  BY <1>1 DEF SetToSeqs
<1>3. f \in Injection(1 .. n, S)
  BY <1>2 DEF Injection, IsInjective
<1>4. Cardinality(1 .. n) = n
  BY FS_Interval
<1>5. f \in Surjection(1 .. n, S)
  BY <1>1, <1>3, <1>4, FS_Injection
<1> QED BY <1>2, <1>5, SeqDef DEF Surjection

Capability(c) == <<WithCount(Op.OpCapability, 2), c>>
Extension(x) == <<WithCount(Op.OpExtension, Len(x) + 1)>> \o x
MemoryModel == <<WithCount(Op.OpMemoryModel, 3), addressing_model, memory_model>>

AllCapabilities(cs) == [k \in DOMAIN cs |-> Capability(cs[k])]
AllExtensions(es) == [k \in DOMAIN es |-> Extension(es[k])]

\* The instructions of the eleven sections.
Rows(cs, es) ==
  <<AllCapabilities(cs), AllExtensions(es), ReadOf("ext_inst_imports"),
    <<MemoryModel>>, ReadOf("entry_points"), ReadOf("execution_modes"),
    ReadOf("debug"), ReadOf("annotations"), ReadOf("declarations"),
    ReadOf("global_variables"), ReadOf("code")>>

\* A tuple of eleven.
LEMMA Eleven ==
  ASSUME NEW T, NEW a1 \in T, NEW a2 \in T, NEW a3 \in T, NEW a4 \in T,
         NEW a5 \in T, NEW a6 \in T, NEW a7 \in T, NEW a8 \in T, NEW a9 \in T,
         NEW a10 \in T, NEW a11 \in T
  PROVE  LET p == <<a1, a2, a3, a4, a5, a6, a7, a8, a9, a10, a11>>
         IN  /\ p \in Seq(T) /\ Len(p) = 11
             /\ p[1] = a1 /\ p[2] = a2 /\ p[3] = a3 /\ p[4] = a4 /\ p[5] = a5
             /\ p[6] = a6 /\ p[7] = a7 /\ p[8] = a8 /\ p[9] = a9 /\ p[10] = a10
             /\ p[11] = a11
  OBVIOUS

\* The instructions that are not in a stream.
LEMMA CapabilityFacts ==
  ASSUME NEW c \in Word
  PROVE  /\ Capability(c) \in Counted /\ Capability(c)[2] = c
         /\ OpcodeOf(Capability(c)[1]) = 17
<1>1. PICK w : w = WithCount(Op.OpCapability, 2)
  OBVIOUS
<1>2. w \in Nat /\ OpcodeOf(w) = 17 /\ CountOf(w) = 2
  <2>1. Op.OpCapability = 17 /\ 17 \in Nat /\ 17 < Half /\ 2 \in Nat /\ 2 < Half
    BY OpNumbers, Constants
  <2> QED BY <1>1, <2>1, HalvesOf
<1>3. PICK i : i = <<w, c>>
  OBVIOUS
<1>4. c \in Nat
  BY WordFacts
<1>5. i \in Seq(Nat) /\ Len(i) = 2 /\ i[1] = w /\ i[2] = c
  BY <1>2, <1>3, <1>4
<1>6. Len(i) > 0 /\ CountOf(i[1]) = Len(i)
  BY <1>2, <1>5
<1>7. i \in Counted
  BY <1>5, <1>6, Zenon DEF Counted
<1> QED BY <1>1, <1>2, <1>3, <1>5, <1>7 DEF Capability

\* An extension is an opcode and a count, and the words of its name.
LEMMA ExtensionFacts ==
  ASSUME NEW x \in Seq(Word), Len(x) + 1 < Half
  PROVE  /\ Extension(x) \in Counted /\ Tail(Extension(x)) = x
         /\ OpcodeOf(Extension(x)[1]) = 10
<1>1. PICK n \in Nat : n = Len(x)
  BY LenProperties
<1>2. PICK w : w = WithCount(Op.OpExtension, n + 1)
  OBVIOUS
<1>3. w \in Nat /\ OpcodeOf(w) = 10 /\ CountOf(w) = n + 1
  <2>1. /\ Op.OpExtension = 10 /\ 10 \in Nat /\ 10 < Half
        /\ n + 1 \in Nat /\ n + 1 < Half
    BY <1>1, OpNumbers, Constants
  <2> QED BY <1>2, <2>1, HalvesOf
<1>4. PICK h : h = <<w>>
  OBVIOUS
<1>5. h \in Seq(Nat) /\ Len(h) = 1 /\ h[1] = w
  BY <1>3, <1>4
<1>6. x \in Seq(Nat)
  BY WordFacts, SeqMonotonic, Zenon
<1>7. PICK i : i = h \o x
  OBVIOUS
<1>8. /\ i \in Seq(Nat) /\ Len(i) = 1 + n /\ i[1] = w
      /\ \A j \in 1 .. n : i[1 + j] = x[j]
  <2>1. /\ i \in Seq(Nat) /\ Len(i) = Len(h) + Len(x)
        /\ \A j \in 1 .. Len(x) : i[Len(h) + j] = x[j]
    BY <1>5, <1>6, <1>7, RightOf
  <2>2. i[1] = h[1]
    <3>1. 1 \in 1 .. (Len(h) + Len(x)) /\ 1 =< Len(h)
      BY <1>1, <1>5
    <3> QED BY <1>5, <1>6, <1>7, <3>1, ConcatProperties
  <2> QED BY <1>1, <1>5, <2>1, <2>2
<1>9. i \in Counted
  <2>1. Len(i) > 0 /\ CountOf(i[1]) = Len(i)
    BY <1>3, <1>8
  <2> QED BY <1>8, <2>1, Zenon DEF Counted
<1>10. Tail(i) = x
  <2>1. PICK s : s = Tail(i)
    OBVIOUS
  <2>2. i # <<>>
    BY <1>8
  <2>3. s \in Seq(Nat) /\ Len(s) = Len(i) - 1 /\ \A j \in 1 .. Len(s) : s[j] = i[j + 1]
    BY <1>8, <2>1, <2>2, HeadTailProperties
  <2>4. Len(s) = n /\ \A j \in 1 .. n : s[j] = x[j]
    BY <1>8, <2>3
  <2>5. Len(s) = Len(x) /\ \A j \in 1 .. Len(s) : s[j] = x[j]
    BY <1>1, <2>4
  <2>6. s = x
    BY <1>6, <2>3, <2>5, SeqEqual
  <2> QED BY <2>1, <2>6
<1> QED BY <1>1, <1>2, <1>3, <1>4, <1>7, <1>8, <1>9, <1>10 DEF Extension

\* The memory model is an instruction of three words.
LEMMA MemoryModelFacts ==
  ASSUME HInv
  PROVE  MemoryModel \in Counted /\ OpcodeOf(MemoryModel[1]) = 14
<1>1. PICK a, m : a = addressing_model /\ m = memory_model
  OBVIOUS
<1>2. a \in Nat /\ m \in Nat
  <2>1. CASE <<a, m>> \in Models
    <3>1. <<a, m>> \in Word \X Word
      BY <2>1, SiritAssumption
    <3>2. a \in Word /\ m \in Word
      BY <3>1
    <3> QED BY <3>2, WordFacts
  <2>2. CASE <<a, m>> = <<0, 1>>
    BY <2>2
  <2> QED BY <1>1, <2>1, <2>2 DEF HInv
<1>3. PICK w : w = WithCount(Op.OpMemoryModel, 3)
  OBVIOUS
<1>4. w \in Nat /\ OpcodeOf(w) = 14 /\ CountOf(w) = 3
  <2>1. Op.OpMemoryModel = 14 /\ 14 \in Nat /\ 14 < Half /\ 3 \in Nat /\ 3 < Half
    BY OpNumbers, Constants
  <2> QED BY <1>3, <2>1, HalvesOf
<1>5. PICK i : i = <<w, a, m>>
  OBVIOUS
<1>6. i \in Seq(Nat) /\ Len(i) = 3 /\ i[1] = w
  BY <1>2, <1>4, <1>5
<1>7. Len(i) > 0 /\ CountOf(i[1]) = Len(i)
  BY <1>4, <1>6
<1>8. i \in Counted
  BY <1>6, <1>7, Zenon DEF Counted
<1> QED BY <1>1, <1>3, <1>4, <1>5, <1>6, <1>8 DEF MemoryModel

\* A function on the places of a sequence.
LEMMA Mapped ==
  ASSUME NEW S, NEW T, NEW s \in Seq(S), NEW u,
         u = [k \in DOMAIN s |-> u[k]], \A k \in DOMAIN s : u[k] \in T
  PROVE  u \in Seq(T) /\ Len(u) = Len(s) /\ DOMAIN u = DOMAIN s
<1>1. PICK n \in Nat : n = Len(s)
  BY LenProperties
<1>2. DOMAIN s = 1 .. n
  BY <1>1, LenProperties
<1>3. u \in [1 .. n -> T]
  BY <1>2
<1>4. u \in Seq(T) /\ Len(u) = n
  BY <1>3, SeqDef, LenProperties
<1> QED BY <1>1, <1>2, <1>3, <1>4

\* The two sets, as instructions.
LEMMA ListFacts ==
  ASSUME HInv, ShortClient,
         NEW cs \in SetToSeqs(capabilities), NEW es \in SetToSeqs(extensions)
  PROVE  LET a == AllCapabilities(cs)
             b == AllExtensions(es)
         IN  /\ a \in Seq(Counted) /\ DOMAIN a = DOMAIN cs
             /\ b \in Seq(Counted) /\ DOMAIN b = DOMAIN es
             /\ \A k \in DOMAIN a : OpcodeOf(a[k][1]) = 17 /\ a[k][2] = cs[k]
             /\ \A k \in DOMAIN b : OpcodeOf(b[k][1]) = 10 /\ Tail(b[k]) = es[k]
<1>0. PICK a, b : a = AllCapabilities(cs) /\ b = AllExtensions(es)
  OBVIOUS
<1>1. cs \in Seq(capabilities) /\ es \in Seq(extensions)
  BY InSomeOrder DEF HInv
<1>2. \A k \in DOMAIN cs : cs[k] \in Word
  BY <1>1, SiritAssumption DEF HInv
<1>3. \A k \in DOMAIN es : es[k] \in Seq(Word) /\ Len(es[k]) + 1 < Half
  <2>1. \A x \in extensions : x \in Seq(Word) /\ Len(x) + 1 < Half
    BY SiritAssumption DEF HInv, ShortClient
  <2> QED BY <1>1, <2>1
<1>4. \A k \in DOMAIN cs :
        a[k] \in Counted /\ OpcodeOf(a[k][1]) = 17 /\ a[k][2] = cs[k]
  BY <1>0, <1>2, CapabilityFacts DEF AllCapabilities
<1>5. \A k \in DOMAIN es :
        b[k] \in Counted /\ OpcodeOf(b[k][1]) = 10 /\ Tail(b[k]) = es[k]
  BY <1>0, <1>3, ExtensionFacts DEF AllExtensions
<1>6. a = [k \in DOMAIN cs |-> a[k]] /\ b = [k \in DOMAIN es |-> b[k]]
  BY <1>0 DEF AllCapabilities, AllExtensions
<1>7. a \in Seq(Counted) /\ DOMAIN a = DOMAIN cs
  BY <1>1, <1>4, <1>6, Mapped
<1>8. b \in Seq(Counted) /\ DOMAIN b = DOMAIN es
  BY <1>1, <1>5, <1>6, Mapped
<1>9. /\ a \in Seq(Counted) /\ DOMAIN a = DOMAIN cs
      /\ b \in Seq(Counted) /\ DOMAIN b = DOMAIN es
      /\ \A k \in DOMAIN a : OpcodeOf(a[k][1]) = 17 /\ a[k][2] = cs[k]
      /\ \A k \in DOMAIN b : OpcodeOf(b[k][1]) = 10 /\ Tail(b[k]) = es[k]
  BY <1>4, <1>5, <1>7, <1>8
<1> QED BY <1>0, <1>9, Zenon

\* Eleven parts that can be read, behind a header, are read part by part.
LEMMA ElevenRead ==
  ASSUME NEW h \in Seq(Nat), NEW p \in Seq({ws \in Seq(Nat) : Readable(ws)}),
         Len(p) = 11, NEW rows \in Seq(Seq(Counted)), Len(rows) = 11,
         \A k \in 1 .. 11 : rows[k] = ParseInstructions(p[k])
  PROVE  LET module == h \o p[1] \o p[2] \o p[3] \o p[4] \o p[5] \o p[6] \o p[7]
                         \o p[8] \o p[9] \o p[10] \o p[11]
             body == SubSeq(module, Len(h) + 1, Len(module))
         IN  /\ Readable(body)
             /\ ParseInstructions(body) = FlattenSeq(rows)
             /\ \A k \in 1 .. Len(h) : module[k] = h[k]
<1> DEFINE T == {ws \in Seq(Nat) : Readable(ws)}
           Q == Seq(Counted)
<1>1. PICK ins : ins = [k \in DOMAIN p |-> ParseInstructions(p[k])]
  OBVIOUS
<1>2. ins \in Seq(Q) /\ Readable(FlattenSeq(p))
      /\ ParseInstructions(FlattenSeq(p)) = FlattenSeq(ins)
  BY <1>1, ReadableAll
<1>3. p \in Seq(T) /\ rows \in Seq(Q)
  OBVIOUS
<1>4. T \subseteq Seq(Nat)
  OBVIOUS
<1> HIDE DEF T, Q
<1>5. ins = rows
  <2>1. DOMAIN p = 1 .. 11
    BY <1>3, LenProperties
  <2>2. DOMAIN ins = 1 .. 11 /\ \A k \in 1 .. 11 : ins[k] = rows[k]
    BY <1>1, <2>1
  <2>3. Len(ins) = 11
    BY <1>2, <2>2, LenProperties
  <2>4. Len(ins) = Len(rows) /\ \A k \in 1 .. Len(ins) : ins[k] = rows[k]
    BY <2>2, <2>3
  <2> QED BY <1>2, <1>3, <2>4, SeqEqual
<1>6. p \in Seq(Seq(Nat))
  BY <1>3, <1>4, SeqMonotonic, Zenon
<1>7. PICK f : f = FlattenSeq(p)
  OBVIOUS
<1>8. f \in Seq(Nat) /\ Readable(f) /\ ParseInstructions(f) = FlattenSeq(rows)
  BY <1>2, <1>5, <1>7, ReadableReads
<1>9. PICK module : module = h \o p[1] \o p[2] \o p[3] \o p[4] \o p[5] \o p[6]
                               \o p[7] \o p[8] \o p[9] \o p[10] \o p[11]
  OBVIOUS
<1>10. module = h \o f
  BY <1>6, <1>7, <1>9, ElevenBehind
<1>11. SubSeq(module, Len(h) + 1, Len(module)) = f
  BY <1>8, <1>10, Behind
<1>12. \A k \in 1 .. Len(h) : module[k] = h[k]
  <2>1. \A k \in 1 .. Len(h) : k \in 1 .. Len(h) + Len(f) /\ k <= Len(h)
    BY <1>8, LenProperties
  <2> QED BY <1>8, <1>10, <2>1, ConcatProperties
<1> QED BY <1>8, <1>9, <1>11, <1>12

\* What Assemble returns is read section by section.
LEMMA AssembledReads ==
  ASSUME MInv, HInv, ShortClient,
         NEW cs \in SetToSeqs(capabilities), NEW es \in SetToSeqs(extensions)
  PROVE  LET module == Assemble(cs, es)
         IN  /\ Rows(cs, es) \in Seq(Seq(Counted)) /\ Len(Rows(cs, es)) = 11
             /\ Readable(Body(module))
             /\ InstructionsOf(module) = FlattenSeq(Rows(cs, es))
             /\ module[4] = bound + 1
<1>1. PICK a, b : a = AllCapabilities(cs) /\ b = AllExtensions(es)
  OBVIOUS
<1>2. a \in Seq(Counted) /\ b \in Seq(Counted)
  BY <1>1, ListFacts
<1>3. PICK h : h = <<MagicNumber, Version, 0, bound + 1, 0>>
  OBVIOUS
<1>4. h \in Seq(Nat) /\ Len(h) = 5 /\ h[4] = bound + 1
  <2>1. bound \in Nat
    BY Constants DEF MInv, RInv, SInv
  <2> QED BY <1>3, <2>1 DEF MagicNumber, Version
<1>5. MemoryModel \in Counted
  BY MemoryModelFacts
<1>6. PICK c1, c2, c4 : c1 = FlattenSeq(a) /\ c2 = FlattenSeq(b) /\ c4 = MemoryModel
  OBVIOUS
<1>7. /\ Readable(c1) /\ ParseInstructions(c1) = a
      /\ Readable(c2) /\ ParseInstructions(c2) = b
      /\ Readable(c4) /\ ParseInstructions(c4) = <<MemoryModel>>
  BY <1>2, <1>5, <1>6, ReadableFlatten, ReadableOne
<1>8. /\ \A name \in AllStreams : Readable(Words(StreamOf(name)))
      /\ \A name \in AllStreams : ReadOf(name) \in Seq(Counted)
  BY AllReadable DEF MInv
<1>9. PICK c3, c5, c6, c7, c8, c9, c10, c11 :
        /\ c3 = Words(streams["ext_inst_imports"]) /\ c5 = Words(streams["entry_points"])
        /\ c6 = Words(streams["execution_modes"]) /\ c7 = Words(streams["debug"])
        /\ c8 = Words(streams["annotations"]) /\ c9 = Words(stream)
        /\ c10 = Words(streams["global_variables"]) /\ c11 = Words(streams["code"])
  OBVIOUS
<1>10. /\ Readable(c3) /\ Readable(c5) /\ Readable(c6) /\ Readable(c7) /\ Readable(c8)
       /\ Readable(c9) /\ Readable(c10) /\ Readable(c11)
       /\ ParseInstructions(c3) = ReadOf("ext_inst_imports")
       /\ ParseInstructions(c5) = ReadOf("entry_points")
       /\ ParseInstructions(c6) = ReadOf("execution_modes")
       /\ ParseInstructions(c7) = ReadOf("debug")
       /\ ParseInstructions(c8) = ReadOf("annotations")
       /\ ParseInstructions(c9) = ReadOf("declarations")
       /\ ParseInstructions(c10) = ReadOf("global_variables")
       /\ ParseInstructions(c11) = ReadOf("code")
  BY <1>8, <1>9 DEF ReadOf, StreamOf, AllStreams, StreamNames
<1>11. PICK module : module = Assemble(cs, es)
  OBVIOUS
<1>12. module = h \o c1 \o c2 \o c3 \o c4 \o c5 \o c6 \o c7 \o c8 \o c9 \o c10 \o c11
  BY <1>1, <1>3, <1>6, <1>9, <1>11, Zenon DEF Assemble, AllCapabilities, AllExtensions, Capability,
     Extension, MemoryModel
<1>13. PICK rows : rows = <<a, b, ReadOf("ext_inst_imports"), <<MemoryModel>>,
                            ReadOf("entry_points"), ReadOf("execution_modes"),
                            ReadOf("debug"), ReadOf("annotations"),
                            ReadOf("declarations"), ReadOf("global_variables"),
                            ReadOf("code")>>
  OBVIOUS
<1>14. rows = Rows(cs, es)
  BY <1>1, <1>13, Zenon DEF Rows
<1>15. PICK body : body = SubSeq(module, Len(h) + 1, Len(module))
  OBVIOUS
<1>16. rows \in Seq(Seq(Counted)) /\ Len(rows) = 11
  <2> DEFINE Q == Seq(Counted)
  <2>1. a \in Q /\ b \in Q /\ <<MemoryModel>> \in Q
    BY <1>2, <1>5
  <2>2. /\ ReadOf("ext_inst_imports") \in Q /\ ReadOf("entry_points") \in Q
        /\ ReadOf("execution_modes") \in Q /\ ReadOf("debug") \in Q
        /\ ReadOf("annotations") \in Q /\ ReadOf("declarations") \in Q
        /\ ReadOf("global_variables") \in Q /\ ReadOf("code") \in Q
    BY <1>8 DEF AllStreams, StreamNames
  <2> HIDE DEF Q
  <2>3. rows \in Seq(Q) /\ Len(rows) = 11
    BY <1>13, <2>1, <2>2, Eleven
  <2> QED BY <2>3 DEF Q
<1>17. /\ Readable(body) /\ ParseInstructions(body) = FlattenSeq(rows)
       /\ \A k \in 1 .. Len(h) : module[k] = h[k]
  <2> DEFINE T == {ws \in Seq(Nat) : Readable(ws)}
  <2>1. PICK p : p = <<c1, c2, c3, c4, c5, c6, c7, c8, c9, c10, c11>>
    OBVIOUS
  <2>2. /\ c1 \in T /\ c2 \in T /\ c3 \in T /\ c4 \in T /\ c5 \in T /\ c6 \in T
        /\ c7 \in T /\ c8 \in T /\ c9 \in T /\ c10 \in T /\ c11 \in T
    BY <1>7, <1>10, ReadableReads
  <2> HIDE DEF T
  <2>3. p \in Seq(T) /\ Len(p) = 11
    BY <2>1, <2>2, Eleven
  <2>4. /\ p[1] = c1 /\ p[2] = c2 /\ p[3] = c3 /\ p[4] = c4 /\ p[5] = c5 /\ p[6] = c6
        /\ p[7] = c7 /\ p[8] = c8 /\ p[9] = c9 /\ p[10] = c10 /\ p[11] = c11
    BY <2>1, Zenon
  <2>5. /\ rows[1] = a /\ rows[2] = b /\ rows[3] = ReadOf("ext_inst_imports")
        /\ rows[4] = <<MemoryModel>> /\ rows[5] = ReadOf("entry_points")
        /\ rows[6] = ReadOf("execution_modes") /\ rows[7] = ReadOf("debug")
        /\ rows[8] = ReadOf("annotations") /\ rows[9] = ReadOf("declarations")
        /\ rows[10] = ReadOf("global_variables") /\ rows[11] = ReadOf("code")
    BY <1>13, Zenon
  <2>6. \A k \in 1 .. 11 : rows[k] = ParseInstructions(p[k])
    <3>1. \A k \in 1 .. 11 : k \in {1, 2, 3, 4, 5, 6, 7, 8, 9, 10, 11}
      OBVIOUS
    <3>2. /\ rows[1] = ParseInstructions(p[1])
          /\ rows[2] = ParseInstructions(p[2])
          /\ rows[3] = ParseInstructions(p[3])
          /\ rows[4] = ParseInstructions(p[4])
          /\ rows[5] = ParseInstructions(p[5])
          /\ rows[6] = ParseInstructions(p[6])
          /\ rows[7] = ParseInstructions(p[7])
          /\ rows[8] = ParseInstructions(p[8])
          /\ rows[9] = ParseInstructions(p[9])
          /\ rows[10] = ParseInstructions(p[10])
          /\ rows[11] = ParseInstructions(p[11])
      BY <1>7, <1>10, <2>4, <2>5
    <3> QED BY <3>1, <3>2
  <2>7. module = h \o p[1] \o p[2] \o p[3] \o p[4] \o p[5] \o p[6] \o p[7] \o p[8]
                   \o p[9] \o p[10] \o p[11]
    BY <1>12, <2>4, Zenon
  <2> USE DEF T
  <2> QED BY <1>4, <1>15, <1>16, <2>3, <2>6, <2>7, ElevenRead
<1>18. body = Body(module)
  BY <1>4, <1>15 DEF Body
<1>19. module[4] = bound + 1
  BY <1>4, <1>17
<1> QED BY <1>11, <1>14, <1>17, <1>18, <1>19, <1>16 DEF InstructionsOf

-----------------------------------------------------------------------------
(* The order of the sections.                                              *)

\* The sections by the opcodes: only 59, that of variables, is in two.
LEMMA LayoutApart ==
  ASSUME NEW i \in 1 .. 11, NEW x \in Layout[i]
  PROVE  \/ i = 1 /\ x = 17
         \/ i = 2 /\ x = 10
         \/ i = 3 /\ x = 11
         \/ i = 4 /\ x = 14
         \/ i = 5 /\ x = 15
         \/ i = 6 /\ x = 16
         \/ i = 7 /\ x \in 5 .. 8
         \/ i = 8 /\ x \in 71 .. 72
         \/ i = 9 /\ x \in 19 .. 46
         \/ i = 10 /\ x = 59
         \/ i = 11 /\ x \in {1, 12, 59, 248, 253}
<1>1. i \in {1, 2, 3, 4, 5, 6, 7, 8, 9, 10, 11}
  OBVIOUS
<1>2. 5 \in 5 .. 8 /\ 6 \in 5 .. 8 /\ 7 \in 5 .. 8 /\ 8 \in 5 .. 8
      /\ 71 \in 71 .. 72 /\ 72 \in 71 .. 72
  OBVIOUS
<1>3. \A y \in DeclarationOps : y \in 19 .. 46
  BY DeclarationNumbers
<1>4. /\ i = 1 => x = 17
      /\ i = 2 => x = 10
      /\ i = 3 => x = 11
      /\ i = 4 => x = 14
      /\ i = 5 => x = 15
      /\ i = 6 => x = 16
      /\ i = 7 => x \in 5 .. 8
      /\ i = 8 => x \in 71 .. 72
      /\ i = 9 => x \in 19 .. 46
      /\ i = 10 => x = 59
      /\ i = 11 => x \in {1, 12, 59, 248, 253}
  BY <1>2, <1>3, LayoutFacts
<1> QED BY <1>1, <1>4

\* An instruction is in one section at most.
LEMMA OneSection ==
  ASSUME NEW w, NEW i \in 1 .. 11, NEW k \in 1 .. 11, InSection(w, i), InSection(w, k)
  PROVE  i = k
<1>1. PICK x : x = OpcodeOf(w[1])
  OBVIOUS
<1>2. x \in Layout[i] /\ x \in Layout[k]
  BY <1>1 DEF InSection
<1>3. x = 59 => (i = 11 <=> k = 11)
  BY <1>1, LayoutFacts, OpNumbers DEF InSection
<1>4. \/ i = 1 /\ x = 17
      \/ i = 2 /\ x = 10
      \/ i = 3 /\ x = 11
      \/ i = 4 /\ x = 14
      \/ i = 5 /\ x = 15
      \/ i = 6 /\ x = 16
      \/ i = 7 /\ x \in 5 .. 8
      \/ i = 8 /\ x \in 71 .. 72
      \/ i = 9 /\ x \in 19 .. 46
      \/ i = 10 /\ x = 59
      \/ i = 11 /\ x \in {1, 12, 59, 248, 253}
  BY <1>2, LayoutApart
<1>5. \/ k = 1 /\ x = 17
      \/ k = 2 /\ x = 10
      \/ k = 3 /\ x = 11
      \/ k = 4 /\ x = 14
      \/ k = 5 /\ x = 15
      \/ k = 6 /\ x = 16
      \/ k = 7 /\ x \in 5 .. 8
      \/ k = 8 /\ x \in 71 .. 72
      \/ k = 9 /\ x \in 19 .. 46
      \/ k = 10 /\ x = 59
      \/ k = 11 /\ x \in {1, 12, 59, 248, 253}
  BY <1>2, LayoutApart
<1> QED BY <1>3, <1>4, <1>5

\* The rows of a module, by their places.
LEMMA RowNames ==
  ASSUME NEW cs, NEW es
  PROVE  LET rows == Rows(cs, es)
         IN  /\ rows[1] = AllCapabilities(cs) /\ rows[2] = AllExtensions(es)
             /\ rows[4] = <<MemoryModel>>
             /\ \A name \in AllStreams : rows[Section[name]] = ReadOf(name)
             /\ \A k \in 1 .. 11 : \/ k \in {1, 2, 4}
                                   \/ \E name \in AllStreams : Section[name] = k
<1>1. PICK a, b, c : /\ a = AllCapabilities(cs) /\ b = AllExtensions(es)
                     /\ c = <<MemoryModel>>
  OBVIOUS
<1>2. PICK rows : rows = Rows(cs, es)
  OBVIOUS
<1>3. /\ rows[1] = a /\ rows[2] = b /\ rows[3] = ReadOf("ext_inst_imports")
      /\ rows[4] = c /\ rows[5] = ReadOf("entry_points")
      /\ rows[6] = ReadOf("execution_modes") /\ rows[7] = ReadOf("debug")
      /\ rows[8] = ReadOf("annotations") /\ rows[9] = ReadOf("declarations")
      /\ rows[10] = ReadOf("global_variables") /\ rows[11] = ReadOf("code")
  BY <1>1, <1>2, Zenon DEF Rows
<1>4. \A name \in AllStreams : rows[Section[name]] = ReadOf(name)
  BY <1>3, SectionFacts DEF AllStreams, StreamNames
<1>5. \A k \in 1 .. 11 : k \in {1, 2, 3, 4, 5, 6, 7, 8, 9, 10, 11}
  OBVIOUS
<1>6. \A k \in {3, 5, 6, 7, 8, 9, 10, 11} : \E name \in AllStreams : Section[name] = k
  <2>1. /\ "ext_inst_imports" \in AllStreams /\ "entry_points" \in AllStreams
        /\ "execution_modes" \in AllStreams /\ "debug" \in AllStreams
        /\ "annotations" \in AllStreams /\ "declarations" \in AllStreams
        /\ "global_variables" \in AllStreams /\ "code" \in AllStreams
    BY DEF AllStreams, StreamNames
  <2> QED BY <2>1, SectionFacts, Zenon
<1>7. \A k \in 1 .. 11 : \/ k \in {1, 2, 4}
                         \/ \E name \in AllStreams : Section[name] = k
  BY <1>5, <1>6
<1> QED BY <1>1, <1>2, <1>3, <1>4, <1>7, Zenon

\* What is in a row belongs to its section.
LEMMA RowSections ==
  ASSUME MInv, HInv, ShortClient,
         NEW cs \in SetToSeqs(capabilities), NEW es \in SetToSeqs(extensions),
         NEW k \in 1 .. 11, NEW j \in DOMAIN Rows(cs, es)[k]
  PROVE  InSection(Rows(cs, es)[k][j], k)
<1>1. PICK rows : rows = Rows(cs, es)
  OBVIOUS
<1>2. CASE k = 1
  <2>1. PICK a : a = AllCapabilities(cs)
    OBVIOUS
  <2>2. rows[1] = a
    BY <1>1, <2>1, RowNames
  <2>3. \A i \in DOMAIN a : OpcodeOf(a[i][1]) = 17
    BY <2>1, ListFacts
  <2>4. OpcodeOf(rows[1][j][1]) = 17
    BY <1>1, <1>2, <2>2, <2>3
  <2> QED BY <1>1, <1>2, <2>4, LayoutFacts, OpNumbers DEF InSection
<1>3. CASE k = 2
  <2>1. PICK b : b = AllExtensions(es)
    OBVIOUS
  <2>2. rows[2] = b
    BY <1>1, <2>1, RowNames
  <2>3. \A i \in DOMAIN b : OpcodeOf(b[i][1]) = 10
    BY <2>1, ListFacts
  <2>4. OpcodeOf(rows[2][j][1]) = 10
    BY <1>1, <1>3, <2>2, <2>3
  <2> QED BY <1>1, <1>3, <2>4, LayoutFacts, OpNumbers DEF InSection
<1>4. CASE k = 4
  <2>1. PICK m : m = MemoryModel
    OBVIOUS
  <2>2. rows[4] = <<m>> /\ OpcodeOf(m[1]) = 14
    BY <1>1, <2>1, RowNames, MemoryModelFacts
  <2>3. j = 1
    BY <1>1, <1>4, <2>2
  <2>4. OpcodeOf(rows[4][j][1]) = 14
    BY <2>2, <2>3
  <2> QED BY <1>1, <1>4, <2>4, LayoutFacts, OpNumbers DEF InSection
<1>5. ASSUME NEW name \in AllStreams, Section[name] = k
      PROVE  InSection(rows[k][j], k)
  <2>1. rows[k] = ReadOf(name)
    BY <1>1, <1>5, RowNames
  <2>2. Proper(name, ReadOf(name)[j])
    BY <1>1, <2>1 DEF MInv, Sorted, OfSections, AllRead
  <2> QED BY <1>5, <2>1, <2>2 DEF Proper
<1> QED BY <1>1, <1>2, <1>3, <1>4, <1>5, RowNames

\* Where each instruction of a module comes from: a row, and a place in it.
Sources(row, col, rows, ins) ==
  /\ \A n \in DOMAIN ins : /\ row[n] \in 1 .. 11 /\ col[n] \in DOMAIN rows[row[n]]
                           /\ ins[n] = rows[row[n]][col[n]]
  /\ \A k \in 1 .. 11 : \A j \in DOMAIN rows[k] :
       \E n \in DOMAIN ins : row[n] = k /\ col[n] = j
  /\ \A m, n \in DOMAIN ins : row[m] = row[n] /\ col[m] = col[n] => m = n
  /\ \A m, n \in DOMAIN ins : row[m] < row[n] => m < n
  /\ \A k \in 1 .. 11 : PlacesOf(ins, k) = {n \in DOMAIN ins : row[n] = k}

\* The instructions of a module are those of the rows, in their order, and a
\* consumer can tell the rows by the opcodes.
LEMMA AssembledRows ==
  ASSUME MInv, HInv, ShortClient,
         NEW cs \in SetToSeqs(capabilities), NEW es \in SetToSeqs(extensions),
         NEW ins, ins = InstructionsOf(Assemble(cs, es))
  PROVE  \E row, col : Sources(row, col, Rows(cs, es), ins)
<1> DEFINE Q == Seq(Counted)
<1>1. PICK rows : rows = Rows(cs, es)
  OBVIOUS
<1>2. rows \in Seq(Q) /\ Len(rows) = 11 /\ ins = FlattenSeq(rows)
  BY <1>1, AssembledReads
<1>3. ins \in Seq(Counted)
  BY <1>2, FlattenType
<1>4. PICK row, col : Orders(row, col, rows, ins)
  BY <1>2, FlattenOrders
<1>5. \A q \in Q : \A j \in DOMAIN q : j \in Nat
  BY LenProperties
<1> HIDE DEF Q
<1>6. DOMAIN rows = 1 .. 11
  BY <1>2, LenProperties
<1>7. \A n \in DOMAIN ins : /\ row[n] \in 1 .. 11 /\ col[n] \in DOMAIN rows[row[n]]
                            /\ ins[n] = rows[row[n]][col[n]]
  BY <1>4, <1>6 DEF Orders
<1>8. ASSUME NEW n \in DOMAIN ins
      PROVE  n \in Nat /\ row[n] \in Nat /\ col[n] \in Nat
  <2>1. row[n] \in 1 .. 11 /\ col[n] \in DOMAIN rows[row[n]]
    BY <1>7, <1>8
  <2>2. rows[row[n]] \in Q
    BY <1>2, <2>1, ElementOfSeq
  <2>3. n \in Nat
    BY <1>3, <1>8, LenProperties
  <2> QED BY <1>5, <2>1, <2>2, <2>3
<1>9. \A m, n \in DOMAIN ins :
        m < n => row[m] < row[n] \/ (row[m] = row[n] /\ col[m] < col[n])
  BY <1>4 DEF Orders
<1>10. /\ \A m, n \in DOMAIN ins : row[m] = row[n] /\ col[m] = col[n] => m = n
       /\ \A m, n \in DOMAIN ins : row[m] < row[n] => m < n
  BY <1>8, <1>9
<1>11. \A k \in 1 .. 11 : \A j \in DOMAIN rows[k] :
         \E n \in DOMAIN ins : row[n] = k /\ col[n] = j
  BY <1>4, <1>6 DEF Orders
<1>12. \A n \in DOMAIN ins : InSection(ins[n], row[n])
  BY <1>1, <1>7, RowSections
<1>13. ASSUME NEW k \in 1 .. 11
       PROVE  PlacesOf(ins, k) = {n \in DOMAIN ins : row[n] = k}
  <2>1. ASSUME NEW n \in DOMAIN ins PROVE InSection(ins[n], k) <=> row[n] = k
    BY <1>7, <1>12, <1>13, <2>1, OneSection
  <2> QED BY <2>1 DEF PlacesOf
<1>14. Sources(row, col, rows, ins)
  BY <1>7, <1>10, <1>11, <1>13 DEF Sources
<1> QED BY <1>1, <1>14

\* The sections are in their order, each capability and extension is there once
\* and the memory model too.
Ordered(ins) ==
  /\ \A n \in DOMAIN ins : \E k \in DOMAIN Layout : n \in PlacesOf(ins, k)
  /\ \A j, k \in DOMAIN Layout :
       j < k => \A m \in PlacesOf(ins, j), n \in PlacesOf(ins, k) : m < n
  /\ {ins[n][2] : n \in PlacesOf(ins, 1)} = capabilities
  /\ \A m, n \in PlacesOf(ins, 1) : ins[m][2] = ins[n][2] => m = n
  /\ {Tail(ins[n]) : n \in PlacesOf(ins, 2)} = extensions
  /\ \A m, n \in PlacesOf(ins, 2) : Tail(ins[m]) = Tail(ins[n]) => m = n
  /\ \E n \in DOMAIN ins : PlacesOf(ins, 4) = {n}

\* Every module is ordered.
LEMMA InOrder ==
  ASSUME MInv, HInv, ShortClient,
         NEW cs \in SetToSeqs(capabilities), NEW es \in SetToSeqs(extensions),
         NEW ins, ins = InstructionsOf(Assemble(cs, es))
  PROVE  Ordered(ins)
<1>1. PICK rows : rows = Rows(cs, es)
  OBVIOUS
<1>2. PICK row, col : Sources(row, col, rows, ins)
  BY <1>1, AssembledRows
<1>3. \A k \in 1 .. 11 : PlacesOf(ins, k) = {n \in DOMAIN ins : row[n] = k}
  BY <1>2 DEF Sources
<1>4. /\ \A n \in DOMAIN ins : \E k \in 1 .. 11 : n \in PlacesOf(ins, k)
      /\ \A j, k \in 1 .. 11 :
           j < k => \A m \in PlacesOf(ins, j), n \in PlacesOf(ins, k) : m < n
  BY <1>2, <1>3 DEF Sources
<1>5. ASSUME NEW k \in 1 .. 11, NEW r, r = rows[k], NEW P, P = PlacesOf(ins, k)
      PROVE  /\ \A n \in P : col[n] \in DOMAIN r /\ ins[n] = r[col[n]]
             /\ \A j \in DOMAIN r : \E n \in P : col[n] = j
             /\ \A m, n \in P : col[m] = col[n] => m = n
  <2>1. P = {n \in DOMAIN ins : row[n] = k}
    BY <1>3, <1>5
  <2> QED BY <1>2, <1>5, <2>1 DEF Sources
<1>6. PICK a, b, c : a = AllCapabilities(cs) /\ b = AllExtensions(es) /\ c = rows[4]
  OBVIOUS
<1>7. rows[1] = a /\ rows[2] = b /\ c = <<MemoryModel>>
  BY <1>1, <1>6, RowNames
<1>8. /\ DOMAIN a = DOMAIN cs /\ DOMAIN b = DOMAIN es
      /\ \A k \in DOMAIN a : a[k][2] = cs[k]
      /\ \A k \in DOMAIN b : Tail(b[k]) = es[k]
  BY <1>6, ListFacts
<1>9. PICK A, B, M :
        A = PlacesOf(ins, 1) /\ B = PlacesOf(ins, 2) /\ M = PlacesOf(ins, 4)
  OBVIOUS
<1>10. /\ \A n \in A : col[n] \in DOMAIN a /\ ins[n] = a[col[n]]
       /\ \A j \in DOMAIN a : \E n \in A : col[n] = j
       /\ \A m, n \in A : col[m] = col[n] => m = n
  <2>1. 1 \in 1 .. 11
    OBVIOUS
  <2> QED BY <1>5, <1>7, <1>9, <2>1
<1>11. /\ \A n \in B : col[n] \in DOMAIN b /\ ins[n] = b[col[n]]
       /\ \A j \in DOMAIN b : \E n \in B : col[n] = j
       /\ \A m, n \in B : col[m] = col[n] => m = n
  <2>1. 2 \in 1 .. 11
    OBVIOUS
  <2> QED BY <1>5, <1>7, <1>9, <2>1
<1>12. /\ \A n \in M : col[n] \in DOMAIN c
       /\ \A j \in DOMAIN c : \E n \in M : col[n] = j
       /\ \A m, n \in M : col[m] = col[n] => m = n
  <2>1. 4 \in 1 .. 11
    OBVIOUS
  <2> QED BY <1>5, <1>6, <1>9, <2>1
<1>13. /\ \A k \in DOMAIN cs : cs[k] \in capabilities
       /\ \A i, j \in DOMAIN cs : cs[i] = cs[j] => i = j
       /\ \A x \in capabilities : \E i \in DOMAIN cs : cs[i] = x
  BY InSomeOrder DEF HInv
<1>14. /\ \A k \in DOMAIN es : es[k] \in extensions
       /\ \A i, j \in DOMAIN es : es[i] = es[j] => i = j
       /\ \A x \in extensions : \E i \in DOMAIN es : es[i] = x
  BY InSomeOrder DEF HInv
<1>15. PICK f, g : /\ f = [n \in A |-> ins[n][2]]
                   /\ g = [n \in B |-> Tail(ins[n])]
  OBVIOUS
<1>16. \A n \in A : f[n] = ins[n][2] /\ col[n] \in DOMAIN cs /\ f[n] = cs[col[n]]
  BY <1>8, <1>10, <1>15
<1>17. \A n \in B : g[n] = Tail(ins[n]) /\ col[n] \in DOMAIN es /\ g[n] = es[col[n]]
  BY <1>8, <1>11, <1>15, Zenon
<1>18. {f[n] : n \in A} = capabilities /\ \A m, n \in A : f[m] = f[n] => m = n
  BY <1>8, <1>10, <1>13, <1>16
<1>19. {g[n] : n \in B} = extensions /\ \A m, n \in B : g[m] = g[n] => m = n
  BY <1>8, <1>11, <1>14, <1>17
<1>20. \E n \in DOMAIN ins : M = {n}
  <2>1. DOMAIN c = {1}
    <3>1. PICK m : m = MemoryModel
      OBVIOUS
    <3> QED BY <1>7, <3>1
  <2>2. M \subseteq DOMAIN ins
    BY <1>9 DEF PlacesOf
  <2> QED BY <1>12, <2>1, <2>2
<1>21. (\A n \in A : f[n] = ins[n][2]) /\ (\A n \in B : g[n] = Tail(ins[n]))
  BY <1>16, <1>17, Zenon
<1>22. /\ {ins[n][2] : n \in A} = {f[n] : n \in A}
       /\ {Tail(ins[n]) : n \in B} = {g[n] : n \in B}
  <2>1. {ins[n][2] : n \in A} = {f[n] : n \in A}
    BY <1>21
  <2>2. ASSUME NEW x \in {Tail(ins[n]) : n \in B} PROVE x \in {g[n] : n \in B}
    <3>1. PICK n \in B : x = Tail(ins[n])
      BY <2>2, Zenon
    <3>2. x = g[n]
      BY <1>21, <3>1, Zenon
    <3> QED BY <3>2, Zenon
  <2>3. ASSUME NEW x \in {g[n] : n \in B} PROVE x \in {Tail(ins[n]) : n \in B}
    <3>1. PICK n \in B : x = g[n]
      BY <2>3, Zenon
    <3>2. x = Tail(ins[n])
      BY <1>21, <3>1, Zenon
    <3> QED BY <3>2, Zenon
  <2>4. {Tail(ins[n]) : n \in B} = {g[n] : n \in B}
    BY <2>2, <2>3, Zenon
  <2> QED BY <2>1, <2>4
<1>23. /\ \A m, n \in A : ins[m][2] = ins[n][2] => m = n
       /\ \A m, n \in B : Tail(ins[m]) = Tail(ins[n]) => m = n
  BY <1>18, <1>19, <1>21
<1>24. DOMAIN Layout = 1 .. 11
  BY LayoutFacts
<1> QED BY <1>4, <1>9, <1>18, <1>19, <1>20, <1>22, <1>23, <1>24, Zenon DEF Ordered

\* What always holds, for such a client.
LEMMA ModuleInvariance ==
  ASSUME FittingModule, ShortClient
  PROVE  ModuleSpec => [](MInv /\ HInv)
<1>1. MInv /\ HInv /\ [ModuleNext]_module_vars => (MInv /\ HInv)'
  BY MInvNext, HInvNext
<1>2. ModuleInit => MInv /\ HInv
  BY MInvInit, HInvInit
<1> QED BY <1>1, <1>2, PTL DEF ModuleSpec

\* For such a client, whatever the order of its calls and that in which the sets
\* are iterated, an assembled module is read to its end by its word counts, its instructions are
\* in the order of the sections, every capability and extension is stated once
\* and the memory model is there once.
THEOREM SectionsInOrder ==
  ASSUME FittingModule, ShortClient
  PROVE  ModuleSpec => []AssembledInOrder
<1>1. ASSUME MInv, HInv, NEW module \in Assembled
      PROVE  ReadsToEnd(Body(module)) /\ Ordered(InstructionsOf(module))
  <2>1. PICK cs \in SetToSeqs(capabilities), es \in SetToSeqs(extensions) :
          module = Assemble(cs, es)
    BY <1>1 DEF Assembled
  <2>2. ReadsToEnd(Body(module))
    <3>1. Readable(Body(module))
      BY <1>1, <2>1, AssembledReads
    <3> QED BY <3>1, ReadableReads
  <2>3. PICK ins : ins = InstructionsOf(module)
    OBVIOUS
  <2>4. Ordered(ins)
    BY <1>1, <2>1, <2>3, InOrder
  <2> QED BY <2>2, <2>3, <2>4
<1>2. MInv /\ HInv => AssembledInOrder
  BY <1>1, Zenon DEF AssembledInOrder, Ordered
<1> QED BY <1>2, ModuleInvariance, PTL

\* The instructions of the capabilities, the extensions and the memory model
\* define no id.
LEMMA NoId ==
  ASSUME NEW w, NEW k \in {1, 2, 4}, InSection(w, k)
  PROVE  IdOf(w) = 0
<1>1. PICK x : x = OpcodeOf(w[1])
  OBVIOUS
<1>2. x \in {17, 10, 14}
  BY <1>1, LayoutFacts DEF InSection
<1>3. x \notin IdSecond /\ x \notin IdThird
  BY <1>2, IdPlaces
<1> QED BY <1>1, <1>3 DEF IdOf

\* The ids of a module are those of its streams.
LEMMA IdsOfModule ==
  ASSUME MInv, HInv, ShortClient,
         NEW cs \in SetToSeqs(capabilities), NEW es \in SetToSeqs(extensions),
         NEW ins, ins = InstructionsOf(Assemble(cs, es))
  PROVE  /\ \A m, n \in DOMAIN ins :
              IdOf(ins[m]) = IdOf(ins[n]) => m = n \/ IdOf(ins[m]) = 0
         /\ {IdOf(ins[n]) : n \in DOMAIN ins} \ {0} = Taken
<1>1. PICK rows : rows = Rows(cs, es)
  OBVIOUS
<1>2. PICK row, col : Sources(row, col, rows, ins)
  BY <1>1, AssembledRows
<1>3. PICK r : r = AllRead
  OBVIOUS
<1>4. /\ Defines(r, Taken) /\ 0 \notin Taken
      /\ \A name \in AllStreams : r[name] = ReadOf(name)
  <2>1. Taken \subseteq 1 .. bound
    BY DEF Taken
  <2> QED BY <1>3, <2>1 DEF MInv, Sorted, AllRead
<1>5. \A name \in AllStreams : Section[name] \in 1 .. 11 /\ rows[Section[name]] = r[name]
  <2>1. \A name \in AllStreams : Section[name] \in 1 .. 11
    BY SectionFacts DEF AllStreams, StreamNames
  <2>2. \A name \in AllStreams : rows[Section[name]] = ReadOf(name)
    BY <1>1, RowNames
  <2> QED BY <1>4, <2>1, <2>2
<1>6. ASSUME NEW n \in DOMAIN ins, IdOf(ins[n]) # 0
      PROVE  \E name \in AllStreams : /\ Section[name] = row[n] /\ col[n] \in DOMAIN r[name]
                                      /\ ins[n] = r[name][col[n]]
  <2>1. /\ row[n] \in 1 .. 11 /\ col[n] \in DOMAIN rows[row[n]]
        /\ ins[n] = rows[row[n]][col[n]]
    BY <1>2, <1>6 DEF Sources
  <2>2. InSection(ins[n], row[n])
    BY <1>1, <2>1, RowSections
  <2>3. row[n] \notin {1, 2, 4}
    BY <1>6, <2>2, NoId
  <2>4. PICK name \in AllStreams : Section[name] = row[n]
    BY <2>1, <2>3, RowNames
  <2> QED BY <1>5, <2>1, <2>4
<1>7. ASSUME NEW m \in DOMAIN ins, NEW n \in DOMAIN ins,
             IdOf(ins[m]) = IdOf(ins[n]), IdOf(ins[m]) # 0
      PROVE  m = n
  <2>1. PICK a \in AllStreams : /\ Section[a] = row[m] /\ col[m] \in DOMAIN r[a]
                                /\ ins[m] = r[a][col[m]]
    BY <1>6, <1>7
  <2>2. PICK b \in AllStreams : /\ Section[b] = row[n] /\ col[n] \in DOMAIN r[b]
                                /\ ins[n] = r[b][col[n]]
    BY <1>6, <1>7
  <2>3. a = b /\ col[m] = col[n]
    BY <1>4, <1>7, <2>1, <2>2 DEF Defines
  <2> QED BY <1>2, <2>1, <2>2, <2>3 DEF Sources
<1>8. ASSUME NEW n \in DOMAIN ins PROVE IdOf(ins[n]) \in Taken \cup {0}
  <2>1. CASE IdOf(ins[n]) = 0
    BY <2>1
  <2>2. CASE IdOf(ins[n]) # 0
    BY <1>4, <1>6, <1>8, <2>2 DEF Defines
  <2> QED BY <2>1, <2>2
<1>9. ASSUME NEW id \in Taken PROVE \E n \in DOMAIN ins : IdOf(ins[n]) = id
  <2>1. PICK name \in AllStreams : \E k \in DOMAIN r[name] : IdOf(r[name][k]) = id
    BY <1>4, <1>9 DEF Defines
  <2>2. PICK k \in DOMAIN r[name] : IdOf(r[name][k]) = id
    BY <2>1
  <2>3. Section[name] \in 1 .. 11 /\ rows[Section[name]] = r[name]
    BY <1>5
  <2>4. PICK n \in DOMAIN ins : row[n] = Section[name] /\ col[n] = k
    BY <1>2, <2>3 DEF Sources
  <2>5. ins[n] = r[name][k]
    BY <1>2, <2>3, <2>4 DEF Sources
  <2> QED BY <2>2, <2>5
<1>10. \A m, n \in DOMAIN ins :
         IdOf(ins[m]) = IdOf(ins[n]) => m = n \/ IdOf(ins[m]) = 0
  BY <1>7
<1>11. {IdOf(ins[n]) : n \in DOMAIN ins} \ {0} = Taken
  BY <1>4, <1>8, <1>9
<1> QED BY <1>10, <1>11

\* For such a client every id below the bound of an assembled module's header is
\* defined by one instruction, over all sections, but for the labels not yet placed.
THEOREM EveryIdDefinedOnce ==
  ASSUME FittingModule, ShortClient
  PROVE  ModuleSpec => []IdsDefinedOnce
<1>1. ASSUME MInv, HInv, NEW module \in Assembled
      PROVE  LET ins == InstructionsOf(module)
             IN  /\ \A m, n \in DOMAIN ins :
                      IdOf(ins[m]) = IdOf(ins[n]) => m = n \/ IdOf(ins[m]) = 0
                 /\ {IdOf(ins[n]) : n \in DOMAIN ins} \ {0}
                      = (1 .. (module[4] - 1)) \ labels
  <2>1. PICK cs \in SetToSeqs(capabilities), es \in SetToSeqs(extensions) :
          module = Assemble(cs, es)
    BY <1>1 DEF Assembled
  <2>2. PICK ins : ins = InstructionsOf(module)
    OBVIOUS
  <2>3. /\ \A m, n \in DOMAIN ins :
             IdOf(ins[m]) = IdOf(ins[n]) => m = n \/ IdOf(ins[m]) = 0
        /\ {IdOf(ins[n]) : n \in DOMAIN ins} \ {0} = Taken
    BY <1>1, <2>1, <2>2, IdsOfModule
  <2>4. module[4] - 1 = bound
    <3>1. module[4] = bound + 1
      BY <1>1, <2>1, AssembledReads
    <3>2. bound \in Nat
      BY <1>1, Constants DEF MInv, RInv, SInv
    <3> QED BY <3>1, <3>2
  <2> QED BY <2>2, <2>3, <2>4, Zenon DEF Taken
<1>2. MInv /\ HInv => IdsDefinedOnce
  BY <1>1, Zenon DEF IdsDefinedOnce
<1> QED BY <1>2, ModuleInvariance, PTL

-----------------------------------------------------------------------------
(* Types, and the declarations of a module.                                *)

\* The state of a module of a client with one-word literals, without OpAtomicStore
\* and the sparse gathers, is what it should be: streams in their vectors, an
\* import and labels with ids below the bound, and a header that says what the
\* client asked for.
THEOREM ModuleTypeCorrect ==
  ASSUME FittingCode
  PROVE  ModuleSpec => []ModuleTypeOK
<1>1. ModuleSpec => []TypeOK
  BY DeclaresAsAlone, TypeCorrect, PTL DEF Declares
<1>2. SInv /\ HInv /\ [ModuleNext]_module_vars => (SInv /\ HInv)'
  BY SInvNext, HInvNext
<1>3. ASSUME SInv, HInv, TypeOK PROVE ModuleTypeOK
  <2>1. ASSUME NEW name \in StreamNames
        PROVE  streams[name].size =< Cap /\ streams[name].insert_index =< Cap
    <3>1. PICK s \in StreamState : s = streams[name]
      BY <1>3, <2>1 DEF SInv
    <3>2. s.insert_index =< s.size /\ s.size =< Cap
      BY <1>3, <2>1, <3>1 DEF SInv, SectionsInBounds
    <3>3. s.insert_index \in Nat /\ s.size \in Nat /\ Cap \in Nat
      BY Constants DEF StreamState
    <3> QED BY <3>1, <3>2, <3>3
  <2> QED BY <1>3, <2>1 DEF SInv, HInv, ModuleTypeOK
<1>4. SInv /\ HInv /\ TypeOK => ModuleTypeOK
  BY <1>3
<1> QED BY <1>1, <1>2, <1>4, SInvInit, HInvInit, PTL DEF ModuleSpec

\* What is proved of the declarations alone holds in a module, whatever is called
\* in between: equal requests share an id and different ones never do, whichever
\* methods the client calls.
THEOREM InternsInModule == ModuleSpec => Interns
  BY ImplementsInterning, DeclaresAsAlone, PTL DEF Declares

\* For a client without TypePipe every entry of the table also stands for an
\* instruction of the stream, and words that the stream has shown stay.
THEOREM DeclarationsOfModule ==
  ASSUME "TypePipe" \notin Api
  PROVE  ModuleSpec => []EntriesEmitted /\ EmittedStable /\ []InBounds
<1>1. Spec => []EntriesEmitted /\ EmittedStable /\ []InBounds
  BY DeclarationsEmitted, WordsStay, OnlyPipeIsShort, PTL
<1> QED BY <1>1, DeclaresAsAlone, PTL DEF Declares

\* And, as long as their counts fit, the section holds each of them once and
\* nothing else.
THEOREM DeclaredOnceInModule ==
  ASSUME "TypePipe" \notin Api, ShortOperands
  PROVE  ModuleSpec => []EmittedOnce
<1>1. Spec => []EmittedOnce
  BY DeclarationsOnce
<1> QED BY <1>1, DeclaresAsAlone, PTL DEF Declares
==============================================================================
