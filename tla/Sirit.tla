-------------------------------- MODULE Sirit --------------------------------
(***************************************************************************)
(* A whole Module: the streams of its sections, the declarations and the   *)
(* state it keeps elsewhere, and Assemble, which puts the sections one     *)
(* after the other (src/src/sirit.cpp, src/src/instructions/debug.cpp,     *)
(* annotation.cpp and extension.cpp).                                      *)
(*                                                                         *)
(* Declarations is a component of it: this module adds the other streams   *)
(* and what else a Module keeps, and shares the id counter.  Of the code   *)
(* stream there are here the instructions in `CodeMethods'; phis and their *)
(* patches are modelled in Code.  As there, the memory behind a vector is  *)
(* nobody's: a word written there is read until the vector grows over it.  *)
(***************************************************************************)
EXTENDS Declarations, Instructions

CONSTANTS
  CodeMethods,   \* the methods of Instructions the modelled client uses
  Capabilities,  \* the capabilities it adds
  Extensions,    \* the word sequences of the names of extensions it adds
  Models,        \* the addressing and memory models it sets, pairs of words
  MaxInstructions  \* bound of the model: the instructions of the module

ASSUME SiritAssumption ==
  /\ Half > 253  \* OpReturn, the largest opcode used here
  /\ Capabilities \subseteq Word
  /\ Extensions \subseteq Seq(Word)
  /\ Models \subseteq Word \X Word
  /\ CodeMethods \cap {"AddLocalVariable", "OpExtInst"} = {}  \* actions of their own
  /\ MaxInstructions \in Nat

VARIABLES
  streams,                \* the streams of a Module, by their names, but for
                          \* the one of its declarations
  capabilities,           \* Module::capabilities
  extensions,             \* Module::extensions
  addressing_model,       \* Module::addressing_model
  memory_model,           \* Module::memory_model
  glsl_std_450,           \* Module::glsl_std_450, 0 for none
  extending,              \* a method of extension.cpp is between its call of
                          \* GetGLSLstd450 and that of OpExtInst
  labels                  \* history: the labels the client has yet to place

\* What a Module has besides its declarations, whose variables are `vars'.
header == <<capabilities, extensions, addressing_model, memory_model>>
others == <<streams, header, glsl_std_450, extending, labels>>

module_vars == <<vars, others>>

StreamNames == {"ext_inst_imports", "entry_points", "execution_modes", "debug",
                "annotations", "global_variables", "code"}

ModuleInit ==
        /\ Init
        /\ streams = [name \in StreamNames |-> EmptyStream]
        /\ capabilities = {}
        /\ extensions = {}
        /\ addressing_model = 0  \* Logical
        /\ memory_model = 1      \* GLSL450
        /\ glsl_std_450 = 0
        /\ extending = FALSE
        /\ labels = {}

-----------------------------------------------------------------------------
(* The calls.                                                              *)

\* The opcodes of what is assembled, besides those of the declarations.  The
\* methods of CodeMethods stand for each other: OpUndef is the opcode of those
\* with a result, OpReturn that of those without.
Op == [OpUndef |-> 1, OpName |-> 5, OpMemberName |-> 6, OpString |-> 7,
       OpLine |-> 8, OpExtension |-> 10, OpExtInstImport |-> 11, OpExtInst |-> 12,
       OpMemoryModel |-> 14, OpEntryPoint |-> 15, OpExecutionMode |-> 16,
       OpCapability |-> 17, OpVariable |-> 59, OpDecorate |-> 71,
       OpMemberDecorate |-> 72, OpLabel |-> 248, OpReturn |-> 253]

Operand == 1   \* an operand whose value does not matter
Function == 7  \* the storage class of a local variable
Repeat(word, n) == [k \in 1 .. n |-> word]

\* The bound of the model: how many instructions the module has, each stream
\* being read by its word counts.
Length(s) == Len(ParseInstructions(Words(s)))
Room ==
  Length(stream) + MapThenSumSet(LAMBDA name : Length(streams[name]), StreamNames)
    + Cardinality(capabilities) + Cardinality(extensions) < MaxInstructions

\* The first words of an instruction, through operator<<(OpId) or, without an
\* id, operator<<(spv::Op).
FirstWords(opcode, shape) ==
  <<opcode>> \o (IF shape.typed THEN <<Operand>> ELSE <<>>)
             \o (IF shape.id THEN <<bound + 1>> ELSE <<>>)

\* Reserve, the first words, the operands and EndOp of an instruction.
Write(s, opcode, shape, operands) ==
  EndOp(Put(BeginOp(Reserve(s, shape.reserved), FirstWords(opcode, shape)), operands))

\* A call that puts one instruction into a stream of the module.
Emit(name, opcode, shape, operands) ==
  /\ Room /\ HasRoom(streams[name], shape.reserved, Written(shape))
  /\ shape.id => bound < MaxId
  /\ streams' = [streams EXCEPT ![name] = Write(@, opcode, shape, operands)]
  /\ bound' = IF shape.id THEN bound + 1 ELSE bound
  /\ result' = IF shape.id THEN bound + 1 ELSE result
  /\ UNCHANGED <<stream, existing_declarations, id_index, call>>

\* Such a call, with operands that do not matter.
EmitAny(name, opcode, shape) ==
  /\ Emit(name, opcode, shape, Repeat(Operand, shape.operands))
  /\ UNCHANGED <<header, glsl_std_450, extending, labels>>

\* A method of type.cpp or constant.cpp.
DeclaringCall == Room /\ Method /\ UNCHANGED others

(* src/src/sirit.cpp *)
AddCapability == \E capability \in Capabilities :
  /\ Room
  /\ capabilities' = capabilities \cup {capability}
  /\ UNCHANGED <<vars, streams, extensions, addressing_model, memory_model,
                 glsl_std_450, extending, labels>>

AddExtension == \E extension_name \in Extensions :
  /\ Room
  /\ extensions' = extensions \cup {extension_name}
  /\ UNCHANGED <<vars, streams, capabilities, addressing_model, memory_model,
                 glsl_std_450, extending, labels>>

SetMemoryModel == \E model \in Models :
  /\ addressing_model' = model[1]
  /\ memory_model' = model[2]
  /\ UNCHANGED <<vars, streams, capabilities, extensions, glsl_std_450,
                 extending, labels>>

AddEntryPoint == \E name \in Names, n \in Lengths :
  EmitAny("entry_points", Op.OpEntryPoint,
          Plain("AddEntryPoint", 4 + Len(name) + n, 2 + Len(name) + n))

AddExecutionMode == \E n \in Lengths, w \in Widths :
  EmitAny("execution_modes", Op.OpExecutionMode,
          Plain("AddExecutionMode", 3 + n, 2 + n * w))

AddLocalVariable == \E initializer \in Maybe :
  /\ Emit("code", Op.OpVariable, Typed("AddLocalVariable", 5, 1 + initializer),
          <<Function>> \o Repeat(Operand, initializer))
  /\ UNCHANGED <<header, glsl_std_450, extending, labels>>

AddGlobalVariable == \E initializer \in Maybe :
  EmitAny("global_variables", Op.OpVariable,
          Typed("AddGlobalVariable", 5, 1 + initializer))

\* A mutant that takes another id, for the block's merge label.
OpLabel_TakesTwo ==
  /\ bound + 1 < MaxId
  /\ bound' = bound + 2 /\ result' = bound + 1
  /\ labels' = labels \cup {bound + 1, bound + 2}
  /\ UNCHANGED <<stream, existing_declarations, id_index, call, streams,
                 header, glsl_std_450, extending>>

\* OpLabel, of flow.cpp.
OpLabel ==
  /\ bound < MaxId
  /\ bound' = bound + 1 /\ result' = bound + 1
  /\ labels' = labels \cup {bound + 1}
  /\ UNCHANGED <<stream, existing_declarations, id_index, call, streams,
                 header, glsl_std_450, extending>>

\* A mutant that puts in the id of the last call in place of the label's.
AddLabel_Latest == \E label \in labels :
  /\ Room /\ HasRoom(streams["code"], 2, 2)
  /\ streams' = [streams EXCEPT !["code"] =
                   Put(Reserve(@, 2), <<WithCount(Op.OpLabel, 2), bound>>)]
  /\ labels' = labels \ {label}
  /\ UNCHANGED <<vars, header, glsl_std_450, extending>>

\* The client puts a label into the code once ("What Sirit won't do for you:
\* Avoid ID duplicates (e.g. emitting the same label twice)", README.md).
AddLabel == \E label \in labels :
  /\ Room /\ HasRoom(streams["code"], 2, 2)
  /\ streams' = [streams EXCEPT !["code"] =
                   Put(Reserve(@, 2), <<WithCount(Op.OpLabel, 2), label>>)]
  /\ labels' = labels \ {label}
  /\ UNCHANGED <<vars, header, glsl_std_450, extending>>

(* src/src/instructions/debug.cpp *)
Name == \E name \in Names :
  EmitAny("debug", Op.OpName, Plain("Name", 3 + Len(name), 1 + Len(name)))

MemberName == \E name \in Names :
  EmitAny("debug", Op.OpMemberName, Plain("MemberName", 4 + Len(name), 2 + Len(name)))

String == \E string \in Names :
  EmitAny("debug", Op.OpString,
          Shape("String", TRUE, FALSE, 3 + Len(string), Len(string)))

OpLine == \E line, column \in Widths :
  EmitAny("debug", Op.OpLine, Plain("OpLine", 4, 1 + line + column))

(* src/src/instructions/annotation.cpp *)
Decorate == \E n \in Lengths, w \in Widths :
  EmitAny("annotations", Op.OpDecorate, Plain("Decorate", 3 + n, 2 + n * w))

MemberDecorate == \E n \in Lengths, member, w \in Widths :
  EmitAny("annotations", Op.OpMemberDecorate,
          Plain("MemberDecorate", 4 + n, 2 + member + n * w))

(* src/src/instructions/extension.cpp *)
ClientSet == 1  \* an instruction of a set of the client's own
GlslSet == 2    \* one of the GLSL.std.450 instructions

\* A mutant that notes an id it has not taken.
GetGLSLstd450_NoId ==
  /\ Emit("ext_inst_imports", Op.OpExtInstImport,
          Plain("GetGLSLstd450", 3 + 4, 4), Repeat(Operand, 4))
  /\ glsl_std_450' = bound + 1

\* A mutant that does not look whether the set has been imported.
GetGLSLstd450_Always ==
  /\ Emit("ext_inst_imports", Op.OpExtInstImport,
          Shape("GetGLSLstd450", TRUE, FALSE, 3 + 4, 4), Repeat(Operand, 4))
  /\ glsl_std_450' = bound + 1

\* "GLSL.std.450" takes four words.
GetGLSLstd450 ==
  IF glsl_std_450 = 0
  THEN /\ Emit("ext_inst_imports", Op.OpExtInstImport,
               Shape("GetGLSLstd450", TRUE, FALSE, 3 + 4, 4), Repeat(Operand, 4))
       /\ glsl_std_450' = bound + 1
  ELSE UNCHANGED <<vars, streams, glsl_std_450>>

\* The methods that the macros define evaluate the call of GetGLSLstd450 first.
BeginExtension ==
  /\ GetGLSLstd450
  /\ extending' = TRUE
  /\ UNCHANGED <<header, labels>>

\* A mutant that does not reserve the word of the instruction's number.
EmitExtInst_Short(set, instruction, n) ==
  /\ Emit("code", Op.OpExtInst, Typed("OpExtInst", 4 + n, 2 + n),
          <<set, instruction>> \o Repeat(Operand, n))
  /\ UNCHANGED <<header, glsl_std_450, labels>>

EmitExtInst(set, instruction, n) ==
  /\ Emit("code", Op.OpExtInst, Typed("OpExtInst", 5 + n, 2 + n),
          <<set, instruction>> \o Repeat(Operand, n))
  /\ UNCHANGED <<header, glsl_std_450, labels>>

EndExtension == \E n \in Lengths \cap (1 .. 3) :
  /\ EmitExtInst(glsl_std_450, GlslSet, n)
  /\ extending' = FALSE

\* A client may call OpExtInst with a set of its own.
OpExtInst == \E n \in Lengths :
  /\ EmitExtInst(Operand, ClientSet, n)
  /\ UNCHANGED extending

(* The other files of src/src/instructions *)
CodeMethod == \E shape \in AllShapes :
  /\ shape.method \in CodeMethods
  /\ EmitAny("code", IF shape.id THEN Op.OpUndef ELSE Op.OpReturn, shape)

Call == \/ DeclaringCall \/ AddCapability \/ AddExtension \/ SetMemoryModel
        \/ AddEntryPoint \/ AddExecutionMode \/ AddLocalVariable
        \/ AddGlobalVariable \/ OpLabel \/ AddLabel
        \/ Name \/ MemberName \/ String \/ OpLine
        \/ Decorate \/ MemberDecorate
        \/ BeginExtension \/ OpExtInst \/ CodeMethod

ModuleNext == \/ extending /\ EndExtension
              \/ ~extending /\ Call

ModuleSpec == ModuleInit /\ [][ModuleNext]_module_vars

-----------------------------------------------------------------------------
(* Assemble, which changes nothing.                                        *)

MagicNumber == 119734787
Version == 66304  \* what the client gives, 1.3 in src/tests/main.cpp

\* A mutant that puts the annotations behind what they decorate.
Assemble_AnnotatesLast(cs, es) ==
  <<MagicNumber, Version, 0, bound + 1, 0>>
    \o FlattenSeq([k \in DOMAIN cs |-> <<WithCount(Op.OpCapability, 2), cs[k]>>])
    \o FlattenSeq([k \in DOMAIN es |->
                     <<WithCount(Op.OpExtension, Len(es[k]) + 1)>> \o es[k]])
    \o Words(streams["ext_inst_imports"])
    \o <<WithCount(Op.OpMemoryModel, 3), addressing_model, memory_model>>
    \o Words(streams["entry_points"])
    \o Words(streams["execution_modes"])
    \o Words(streams["debug"])
    \o Words(stream)
    \o Words(streams["annotations"])
    \o Words(streams["global_variables"])
    \o Words(streams["code"])

\* The two sets are iterated in some order: cs and es are the capabilities and
\* the extensions in that order.
Assemble(cs, es) ==
  <<MagicNumber, Version, 0, bound + 1, 0>>
    \o FlattenSeq([k \in DOMAIN cs |-> <<WithCount(Op.OpCapability, 2), cs[k]>>])
    \o FlattenSeq([k \in DOMAIN es |->
                     <<WithCount(Op.OpExtension, Len(es[k]) + 1)>> \o es[k]])
    \o Words(streams["ext_inst_imports"])
    \o <<WithCount(Op.OpMemoryModel, 3), addressing_model, memory_model>>
    \o Words(streams["entry_points"])
    \o Words(streams["execution_modes"])
    \o Words(streams["debug"])
    \o Words(streams["annotations"])
    \o Words(stream)
    \o Words(streams["global_variables"])
    \o Words(streams["code"])

\* Everything that Assemble may return.
Assembled ==
  {Assemble(cs, es) : cs \in SetToSeqs(capabilities), es \in SetToSeqs(extensions)}

\* What a consumer reads behind the five words of the header.
Body(module) == SubSeq(module, 6, Len(module))
InstructionsOf(module) == ParseInstructions(Body(module))

-----------------------------------------------------------------------------
(* Properties.                                                             *)

ModuleTypeOK ==
  /\ TypeOK
  /\ streams \in [StreamNames -> StreamState]
  /\ \A name \in StreamNames :
       streams[name].size =< Cap /\ streams[name].insert_index =< Cap
  /\ capabilities \subseteq Capabilities
  /\ extensions \subseteq Extensions
  /\ <<addressing_model, memory_model>> \in Models \cup {<<0, 1>>}
  /\ glsl_std_450 \in 0 .. bound
  /\ extending \in BOOLEAN
  /\ labels \subseteq 1 .. bound

\* No call writes behind the vector of its stream.  It holds of clients with
\* one-word literals that call neither OpAtomicStore nor a sparse gather.
SectionsInBounds ==
  \A name \in StreamNames : streams[name].insert_index =< streams[name].size

\* What a call has put into a section is there for good: no later call, of any
\* file, overwrites a word of it, takes it away or loses it when the vector
\* grows, whatever room the calls before have left over.
SectionsStable ==
  [][\A name \in StreamNames : \A i \in 0 .. streams[name].insert_index - 1 :
       /\ i < streams'[name].insert_index
       /\ streams'[name].words[i] = streams[name].words[i]]_module_vars

\* The sections in the order that SPIR-V asks for: the opcodes of each.
DeclarationOps == {Opcode[method] : method \in DOMAIN Opcode}
CodeOps == {Op.OpExtInst, Op.OpVariable, Op.OpLabel, Op.OpUndef, Op.OpReturn}
Layout ==
  <<{Op.OpCapability}, {Op.OpExtension}, {Op.OpExtInstImport}, {Op.OpMemoryModel},
    {Op.OpEntryPoint}, {Op.OpExecutionMode},
    {Op.OpString, Op.OpName, Op.OpMemberName, Op.OpLine},
    {Op.OpDecorate, Op.OpMemberDecorate}, DeclarationOps, {Op.OpVariable}, CodeOps>>

\* A local variable belongs to the code, a global one to the section before it.
InSection(instruction, k) ==
  /\ OpcodeOf(instruction[1]) \in Layout[k]
  /\ OpcodeOf(instruction[1]) = Op.OpVariable =>
       (k = Len(Layout) <=> instruction[4] = Function)

\* The places of the instructions of a section.
PlacesOf(instructions, k) ==
  {n \in DOMAIN instructions : InSection(instructions[n], k)}

\* Whatever the order of the calls and that in which the sets are iterated,
\* Assemble gives a module that is read to its end by the word counts and whose
\* instructions are in the order of the sections ("Sort declaration opcodes",
\* README.md), with each capability and extension once and one memory model.
AssembledInOrder ==
  \A module \in Assembled :
    LET instructions == InstructionsOf(module)
        In(k) == PlacesOf(instructions, k)
    IN  /\ ReadsToEnd(Body(module))
        /\ \A n \in DOMAIN instructions : \E k \in DOMAIN Layout : n \in In(k)
        /\ \A j, k \in DOMAIN Layout :
             j < k => \A m \in In(j), n \in In(k) : m < n
        /\ {instructions[n][2] : n \in In(1)} = capabilities
        /\ \A m, n \in In(1) : instructions[m][2] = instructions[n][2] => m = n
        /\ {Tail(instructions[n]) : n \in In(2)} = extensions
        /\ \A m, n \in In(2) : Tail(instructions[m]) = Tail(instructions[n]) => m = n
        /\ \E n \in DOMAIN instructions : In(4) = {n}

\* The opcodes with an id behind the opcode, and behind a result type.
TypeOps == {Opcode[method] : method \in {m \in DOMAIN Opcode : Opcode[m] < 40}}
IdSecond == {Op.OpString, Op.OpExtInstImport, Op.OpLabel} \cup TypeOps
IdThird == {Op.OpExtInst, Op.OpVariable, Op.OpUndef} \cup (DeclarationOps \ TypeOps)

\* The id an instruction defines, or 0.
IdOf(instruction) ==
  LET opcode == OpcodeOf(instruction[1])
  IN  CASE opcode \in IdSecond -> instruction[2]
        [] opcode \in IdThird  -> instruction[3]
        [] OTHER               -> 0

\* In the assembled module every id below the bound of the header is defined
\* by exactly one instruction, over all the sections, but for the labels that
\* the client has not placed: an id given back by a declaration that was found
\* is taken by the next call, not skipped and not used twice.
IdsDefinedOnce ==
  \A module \in Assembled :
    LET read == InstructionsOf(module)
    IN  /\ \A m, n \in DOMAIN read :
             IdOf(read[m]) = IdOf(read[n]) => m = n \/ IdOf(read[m]) = 0
        /\ {IdOf(read[n]) : n \in DOMAIN read} \ {0} = (1 .. (module[4] - 1)) \ labels

\* The instruction set GLSL.std.450 is imported when it is first used and never
\* again, and what the methods of extension.cpp emit refers to that import.
GlslImportedOnce ==
  LET imports == ParseInstructions(Words(streams["ext_inst_imports"]))
      code == ToSet(ParseInstructions(Words(streams["code"])))
  IN  /\ glsl_std_450 = 0 => imports = <<>>
      /\ glsl_std_450 # 0 => Len(imports) = 1 /\ IdOf(imports[1]) = glsl_std_450
      /\ \A ins \in code :
           OpcodeOf(ins[1]) = Op.OpExtInst /\ ins[5] = GlslSet =>
             glsl_std_450 # 0 /\ ins[4] = glsl_std_450

\* The sections as a client thinks of them.
Read(s) ==
  LET read == ParseInstructions(Words(s))
  IN  [k \in DOMAIN read |-> [id |-> IdOf(read[k]), words |-> read[k]]]

contents == [section \in StreamNames \cup {"declarations"} |->
               IF section = "declarations" THEN Read(stream)
                                           ELSE Read(streams[section])]

Client == INSTANCE Assembler WITH Sections <- StreamNames \cup {"declarations"},
                                  LabelsIn <- "code"

\* The streams, the shared counter and the undo do what a client relies on: a
\* step adds at most one instruction, at the end of its own section, and the id
\* it takes is the one the instruction defines.  A call is one step, but for a
\* method that the macros of extension.cpp define: importing the set and
\* emitting its own instruction are two, with an id each.
Assembles == Client!Spec

\* The rest of the module is to the declarations what AllocateElsewhere of
\* Declarations says: each step in between takes at most one id, and leaves the
\* declarations alone.
Declares == Spec
=============================================================================
