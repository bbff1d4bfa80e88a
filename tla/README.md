# A TLA+ model of Sirit

Sirit is a runtime assembler for SPIR-V. A client creates a `Sirit::Module`,
calls one method for each type, constant and instruction it wants, and then
calls `Assemble`, which concatenates the sections into one vector of 32-bit
words. This directory holds a TLA+ model of it, the TLC configurations
that check it on small instances, and proofs, checked with TLAPS, of the
properties that matter most for every value of the constants.

Run `tlc -config X.cfg M` for a model and `tlapm M.tla` for a proof module; the
table of runs below says which module goes with which configuration.

## 1. The system

The whole library runs on the caller's thread. There are no locks, files,
sockets or timeouts; all state is in memory and belongs to one `Module`. What
makes it hard is what a sequence of legal calls does to state that several
methods share: one id counter (`Module::bound`), streams whose room is reserved
by one statement and used by others, words that are addressed by position and
patched afterwards, and one callback (the function given to `PatchDeferredPhi`)
that may call the module again in the middle of a loop over its own stream,
even the same method.

| Component | State | Operations | Hard behaviour | What makes it correct |
|---|---|---|---|---|
| Stream (`stream.h`) | `words`, `insert_index`, `op_index`, a reference to the id counter | `Reserve`, `operator<<` for opcodes, ids, operands, `EndOp`; `LocalAddress`, `Value`, `SetValue`, `Words` | `Reserve` is the only place that grows the vector, `operator<<` writes without a check; leftover room is reused by the next call | every write is inside the vector; the words shown stay as they were; the counts lead a reader from one instruction to the next |
| Declarations (`stream.h`) | a stream, `existing_declarations`, `id_index` | `Reserve`, `operator<<(OpId)`, operands, `operator<<(EndOp)` with lookup, insertion or undo | the declaration is written and the id taken first, and both are taken back when it is a duplicate | it is an interning table; each declaration is in the section exactly once |
| Types, constants (`instructions/type.cpp`, `constant.cpp`) | none of their own | 26 methods, each a reservation and a chain of `<<` | the reservation must agree with the chain, with optional operands, spans and literals | as above, for any order of calls |
| Code instructions (the other `instructions/*.cpp`) | the stream `code` | about 200 methods, most of them defined by macros | the same agreement of reservation and chain | as for Stream |
| Labels and deferred phis (`flow.cpp`, `sirit.cpp`) | `code`, `deferred_phi_nodes` | `OpLabel`, `AddLabel`, `DeferredOpPhi`, `PatchDeferredPhi` | an address recorded as the vector's size; a loop over the stream that calls the client, who may grow it | only phi values are patched, all of them, each time; the assertion on the opcode holds; the call returns |
| Strings and literals (`stream.h`) | none | `WordsInString`, `InsertStringView`, `operator<<(Literal)` | sign extension of bytes; lengths that are multiples of four; 64-bit alternatives | the words written are those reserved and spell the string |
| Header, capabilities, extensions, memory model (`sirit.cpp`) | two unordered sets and two enumerants | `AddCapability`, `AddExtension`, `SetMemoryModel` | the order of iteration is arbitrary | each is written once, in every order |
| Entry points, execution modes, global variables (`sirit.cpp`) | one stream each | `AddEntryPoint`, `AddExecutionMode`, `AddGlobalVariable` | literals of two words; the shared id counter | as for Stream |
| Annotations and debug information (`annotation.cpp`, `debug.cpp`) | one stream each | `Decorate`, `MemberDecorate`, `Name`, `MemberName`, `String`, `OpLine` | as above | as for Stream |
| GLSL.std.450 import (`sirit.cpp`) | the import's id and a stream | `GetGLSLstd450`, called by the macros of `extension.cpp` | it is made while the arguments of another instruction are evaluated | there is one import |
| Module assembly (`sirit.cpp`) | none of its own | `Assemble` | the order of the sections; the bound in the header | the result can be read back, section after section; each id below the bound is defined once |
| Reader (`tests/main.cpp`) | none | `ParseInstructions` | it trusts the counts | |

How they interact: every stream holds a reference to `Module::bound`, and each
`OpId` increments it; `Declarations::operator<<(EndOp)` also decrements it.
Instructions refer to each other only by ids, which the client passes from one
call to the next. `PatchDeferredPhi` reads and writes `code` by position, and
between two writes it calls the client.

The list of hazards, each with its line and the properties that watch it, is in
`PROJECT.json`.

## 2. Modules

| Module | What it is |
|---|---|
| `Stream` | class `Stream`: a record and one operator per member function |
| `Reader` | reading a stream back by its word counts |
| `Interning` | abstract specification: a table that gives equal requests the same id |
| `Declarations` | class `Declarations` and the methods of `type.cpp` and `constant.cpp`; implements `Interning` |
| `MCDeclarations` | literals, strings and method sets for TLC |
| `Instructions` | the catalogue: what each method of the other `instructions/*.cpp` reserves and how much it writes |
| `Code` | the stream `code` with labels, deferred phis and the whole catalogue |
| `MCCode` | lengths, widths and method sets for TLC |
| `StreamProofs` | lemmas about the operators of `Stream` and about what `Reader` reads back |
| `DeclarationsLemmas`, `DeclarationsProofs` | lemmas about keys and undo; the theorems about `Declarations` |
| `InstructionsProofs` | which methods can write more than they reserve |
| `CodeProofs` | the theorems about `Code` |
| `Encoding` | strings and literals as words of bytes |
| `MCEncoding` | strings and literals for TLC |
| `EncodingProofs` | the theorems about `Encoding` |
| `Sirit` | a whole `Module`: all sections, the header's state, the GLSL import, `Assemble`; extends `Declarations` and shares its id counter; implements `Assembler` |
| `MCSirit` | literals, strings, extensions and memory models for TLC |
| `Assembler` | abstract specification: a module grows by one instruction at a time, each id defined by the step that takes it |
| `AssemblerProofs` | what `Assembler` implies for the ids of a module |
| `SiritProofs` | the theorems about `Sirit` |

### How the state and the actions correspond to the code

**Stream.** The record has `words`, `insert_index` and `op_index` as in the
class, and `size`, the size of the `std::vector`. `words` is a function on all
of the model's memory, not only on the cells below `size`: the code stores with
an unchecked `words[insert_index++]`, so a write at or beyond `size` lands in
memory that is not the vector's. Such a cell keeps the written value until the
vector grows over it (`resize` sets it to 0), or until somebody else writes it
(`Clobber` in `Declarations`; only values the client's scalars can stand for are
used, any other value would show the same). `Half` is 2^16 in the code: the
word count goes into the high half of an instruction's first word, truncated as
the shift truncates it (`WithCount`).

**Declarations.** Each public method is an action, with its reservation, result
type and operands as in the source. The call is atomic, because nothing else
runs while it does; what is inside it is kept in order: `Reserve`, `OpId`
(increment of the counter), the operands, then `Insert` or `Undo`. `Undo`
rewinds `insert_index` to `op_index`, leaves the words where they are and the
vector as large as it has become, and decrements the counter. The unordered map
is a function from keys to ids; its hash decides nothing, because equality of
keys does. `call` and `result` are what the caller sees: its request and the id
it got. `AllocateElsewhere` stands for every other user of the id counter.

**Code.** `Emit` is any method of the catalogue with an arbitrary shape: the
operands of a code instruction are never read again by the library, so they are
all the same word. `Instruction` is reserve, begin, operands, end. `AddLabel`
writes its two words itself, without `EndOp`, so `op_index` stays at an older
instruction, as in the code. `DeferredOpPhi` records `LocalAddress()`, which is
the size of the vector and not `insert_index`. `PatchDeferredPhi` is
`PatchStart`, then `PatchArg` for each value and `PatchNext` for each node; the
client's own calls are enabled wherever the code calls the client's function.
One of them may be `PatchDeferredPhi` itself: `PatchStart` then puts the loops
of the suspended call on the stack `outer`, and `PatchEnd`, when the inner call
has visited its last node, takes them back.
`NumArgs` keeps the unsigned subtraction. When the assertion of
`PatchDeferredPhi` fails, the model stops (`aborted`); a build without
assertions would go on and patch whatever the address points at, and the
property that the assertion holds says that the two builds do the same. `phis` is a history variable: what
the deferred phis are, whatever was recorded about them.

**Encoding.** A word is the sequence of its four bytes, least significant first;
`Bytes`, 256 in the code, is a parameter. One behaviour is one string or one
literal being written. `InsertWord` is a round of the loop of
`InsertStringView`, `InsertEnd` what follows it. `WordAt` is the OR of the four
chars, each shifted: a char that is negative, where char is signed
(`SignedChar`), has ones in all higher bytes, so every byte behind it is
`Bytes - 1`. `LiteralWords` is the overload of `operator<<` that `std::visit`
selects: the value modulo the size of a word, for the 64-bit alternatives a
second word with the rest. Floats and doubles are numbers that stand for their
bits, as `std::bit_cast` makes them.

**Sirit.** The variables are the members of `Module`. The module extends
`Declarations`, whose variables (`vars`) are the section of declarations, its
table and the counter that all streams share; what a `Module` has besides is in
`others`, where the other streams are a function from their names to stream
records. `DeclaringCall` is any method of `type.cpp` or `constant.cpp`. `Emit` is
reserve, first words, operands, `EndOp` on one of them, and each method gives it
its stream, opcode, reservation and operand count. `CodeMethods` stands for the
code instructions modelled in `Code`: here two of them, one with an id and one
without, are enough. The macros of `extension.cpp` evaluate `GetGLSLstd450()`
while they build the arguments of `OpExtInst`, so such a method is two steps,
`BeginExtension` and `EndExtension`, and `extending` says that it is between
them. The first call of such a method adds two instructions with an id each, one
per step; every other call adds at most one. As in `Code`, nobody else writes to
the memory behind these vectors; a word a call puts there is read until the
vector grows over it. `Assemble` changes nothing; it is an operator, with the two unordered sets
in every order. `labels` is a history variable: the labels the client has
created and not placed, which it places once, as `src/README.md` asks of it.
`Assembler` sees of each stream the instructions a reader finds in it, each with
the id it defines.

Two ways to use the module are not modelled because they are undefined
behaviour of the C++ library and not something the code handles: calling
`DeferredOpPhi` from inside the function given to `PatchDeferredPhi` (it appends
to the vector a range-for is iterating), at any depth of nested calls, and
passing ids that no call returned.

## 3. Runs

All runs say `CHECK_DEADLOCK FALSE`: a client may stop calling, and in the
models it has to once ids or memory run out.

| Configuration | Expected | What is asked |
|---|---|---|
| `DeclarationsShared` | pass | `TypeVoid`, `TypeInt`, `TypeStruct`, `Constant` in every order with repeats: type correctness, `InBounds`, `EntriesEmitted`, `EmittedOnce`, `EmittedStable`, and `Interns`, the refinement of `Interning` |
| `DeclarationsAll` | pass | all 26 methods, `TypePipe` included: interning (`Interns`) holds whatever happens to words outside the vector |
| `DeclarationsPipe` | violation of `EntriesEmitted` | `TypePipe` reserves two words and writes three |
| `CodePhis` | pass | deferred phis among instructions of every method of the catalogue but the three short ones and those of a single word, patched at any time and repeatedly while the client's function emits more code and itself patches: `TypeOK`, `PhisAddressed`, `AssertHolds`, `InBounds`, `CodeReads`, `OnlyValuesChange`, `PatchFillsAll`, `PatchReturns` |
| `CodeAny` | violation of `AssertHolds` | a phi deferred after an instruction that leaves room over is recorded at a wrong address |
| `CodeAtomicStore` | violation of `OnlyValuesChange` | `OpAtomicStore` takes an id it should not have and writes six words where five are reserved |
| `CodeGather` | violation of `OnlyValuesChange` | the sparse gathers do not reserve the word of the image operands mask |
| `CodeSwitch` | violation of `OnlyValuesChange` | `OpSwitch` reserves one word for a literal that may take two |
| `EncodingAscii` | pass | strings of up to nine bytes that are not negative, and literals of every type: `StringFits`, `StringReadsBack`, `LiteralReadsBack`, and that the loop ends (`Returns`) |
| `EncodingUtf8` | violation of `StringReadsBack` | a negative byte overwrites the bytes behind it in its word |
| `Sirit` | pass | calls of every file in any order, with one-word literals: type correctness (`ModuleTypeOK`), that what is in a section stays there (`SectionsStable`), `AssembledInOrder`, `IdsDefinedOnce`, `GlslImportedOnce`, the refinement of `Assembler` (`Assembles`) and that the rest of the module is a legal caller of the declarations (`Declares`) |
| `SiritLiterals` | violation of `SectionsStable` | `AddExecutionMode`, `Decorate`, `MemberDecorate` and `OpLine` reserve one word for a literal that may take two |

### Bounds

- `Half` is 64 in the declarations' runs and 256 in the others, the least powers
  of two above the opcodes used. No instruction of a run has `Half` words, so
  truncation of the count is not reached (section 6).
- `Cap`, the cells of a stream's memory, is the bound on how much can be emitted:
  12 to 20 words are three to six instructions. What can go wrong depends on
  how much room the calls before left over (0, 1 or 2 words), on one growth of
  the vector, and on one repetition; a few instructions reach every combination.
- `MaxId` bounds the counter. `DeclarationsShared` has 4: a type, a
  type or constant that refers to it, a third declaration, and an id taken
  elsewhere between them, each of which can be asked for again.
- `MaxSpan` is 2 where structs are the subject (an empty one, a pair of equal
  and of different members), 1 elsewhere. `Lengths` is {0, 1}: the shapes are
  linear in the number of elements, and `InstructionsProofs` covers any length.
- `CodePhis` leaves out the methods whose instruction is one word (`OpReturn` and
  the like): they reserve it and write it, and fill the stream in too many ways.
  14 cells hold a label with a phi of two values and one of one value, or two phis
  of one value and what a client's function adds. The proofs are about the whole
  catalogue.
- `MaxNesting` is 1 in `CodePhis` and 0 in the runs that are not about patches: one
  call suspended in the client's function, with the inner one at any node and
  value, a node before, at or behind the outer one's. A second level repeats the
  relation of a call to the one it suspends; the proofs are for any depth.
- `MaxBlocks` is 2: a phi with no value, one, and two, so the stride of the
  patch matters.
- `Literals` has two one-word literals and a two-word one that has one of them as
  a prefix; `Names` has a string with and without an extra word; `Scalars` one
  value (it stands for every width, count and enumerant).
- `Widths` is {1} except in `CodeSwitch` and `SiritLiterals`, which are about a
  literal of two.
- `Sirit` has at most three instructions (`MaxInstructions`, counted over all
  sections and both sets), ids up to 3 and 14 cells in each stream. Three are
  enough for an id to be taken in one section, given back by a repeated
  declaration or kept by a label, and taken again in another; for an import
  between two extended instructions; and for instructions in three sections out
  of the order of their calls. 14 cells hold the seven words reserved for the
  import and those of two more instructions in one stream. Two capabilities and
  two extensions give each set two orders.
- `Encoding` has `Bytes` = 8, the least number of values for which the extremes of
  signed and unsigned words, of one and of two, are different numbers that TLC's
  integers hold (8^8 = 2^24). Strings of up to nine bytes reach both remainders
  of interest, 0 and others, with one, two and three words; `EncodingUtf8` needs
  two bytes and has five.

### Fairness

In `Code` there is one liveness property, `PatchReturns`. `PatchDeferredPhi` is a
loop on the caller's thread: it takes its next step whenever the client's
function returns. The condition is that each time it does in the end, for each
depth of nesting: `SF_vars(Len(outer) = depth /\ (PatchArg \/ PatchNext))`. It is
strong because while an inner call runs the step of the suspended one is not
enabled; weak fairness would allow a function that starts an inner patch
again and again for one value, which is a function that never returns. Nothing is
assumed of the client's other calls. `Encoding` has `WF_vars(Next)` for `Returns`:
its steps are the rounds of a loop inside one call, on a thread that runs. In
`Declarations` and `Sirit` every call is made by the client, who may stop at any
time: no fairness, and nothing that must happen.

## 4. Proofs

Every theorem holds for all values of the constants that satisfy the modules'
named assumptions, so for 2^16, streams of any length and any number of ids.

**Declarations** (`DeclarationsProofs`). Two invariants carry the theorems.

- `TypeCorrect` and `ImplementsInterning` need no assumption on the methods.
  `TypeOK` is not inductive: nothing in it says that the ids of the table, or
  the keys, make sense. `IInv` adds `KeysReadBack`: each key is that of a request and
  gives that request back, with 0 as the second word exactly when there is no
  result type. That makes the map from keys to requests injective, and with it
  an insertion is `Create`, an undo is `Find` (the counter goes up and down), a
  foreign id is `Allocate`. `Clobber` is a stutter: keys are copied from words that the same
  call has just written.
- `OnlyPipeIsShort`, `WordsStay` and `DeclarationsEmitted` assume that
  `"TypePipe"` is not in `Api`. `BInv` is `IInv` with `InBounds`: a call writes
  only from `insert_index` on and a growth sets only cells from `size` on, so as
  long as the first is at most the second the words shown stay, and with them
  the instruction of each entry.
- `DeclarationsOnce` assumes besides that spans and names fit an instruction
  (`ShortOperands`). `OnceInv` is `BInv` with three facts about what a reader
  finds: the section is one instruction after the other (`Readable`), no two of
  them are equal, and they are those of the table's entries. An insertion
  appends an instruction whose key was not in the table, and so is none of those
  there; an undo leaves the words shown as they were.

**Reading back** (`StreamProofs`). `ParseInstructions` and `FlattenSeq` are
recursive functions, chosen by their equations, and the library's induction
theorems take an operator as a parameter. `SetInduction` is induction over the
members of a set instead, proved from well-foundedness: a statement about all n
is put as the set of the n it holds for. `SeqInduction` and `ConsInduction` are
the same for sequences, from either end. With them the functions are shown to exist
and to be what their definitions say, and then

- `ReadBack`: instructions whose first words have their counts (`Counted`), put one after
  the other, are read back as they were. `Readable` is the property of words
  to be such; appending an instruction to readable words appends it to what is
  read (`ReadableAppend`), and readable words are read to their end (`ReadableReads`);
- `DividedReads`: the same conclusion from the places alone at which instructions begin
  (`Divides`). It does not say what is read, and so stays true when words
  inside an instruction are overwritten;
- `FlattenOrders`: each element of what is put together comes from one place of
  one of the parts, and the parts stay in order.

**The catalogue** (`InstructionsProofs`). `OnlyThreeAreShort`: for spans of any
length and one-word literals, every method other than `OpAtomicStore`,
`OpImageSparseGather` and `OpImageSparseDrefGather` writes no more than it
reserves and at most two words less.

**Code** (`CodeProofs`). The theorems assume `FittingClient`: it defers phis
only after a label or another phi (`Structured`), uses one-word literals
(`Widths` ⊆ {1}) and none of the three short methods. The four violations of `Code` above
show why each part of this is needed. `CInv` is the conjunction of `TypeOK`, `InBounds`,
`PhisAddressed`, `AssertHolds` and

- `NothingLeft`: after a label or a phi no reserved word is left over. This is
  what makes `size` the place of the next word when a phi is deferred. It
  holds because no method leaves more than two words over (the second part of
  `InBounds`) and `AddLabel` uses two: it either uses up what was left or makes
  the vector exactly as long as it needs. A phi reserves what it writes;
- `PhisPlaced`: at the address of each phi there is a first word with its opcode
  and count, and all its words are below `insert_index`;
- `PhisApart`: two deferred phis do not overlap, so that writing a value of one
  leaves the first word of the others alone;
- `PatchOnPhi`: while a patch runs, its cursor and count are those of the phi it
  is at;
- `OuterOnPhi`: the same of every call suspended in `outer`, to any depth, and
  nothing is suspended while no patch runs. When an inner call returns, the
  cursor of the one it goes back to is right by it.

For `PatchComplete` the invariant adds that the phis before the current one, and
the arguments before the current one, are ids already, of the running call and of
every suspended one. A value that is an id stays one, since nothing but a patch
writes there and a patch writes ids, so this holds of the suspended calls whatever
the inner ones do.

`StreamReads` assumes besides `ShortInstructions`: no instruction has more words
than a count can say. Its invariant `Cuts` is that the words shown are divided
into instructions (`Divides`) and that every deferred phi begins one of them.
It needs `CInv`: a patch changes only values, never a first word, so the places stay;
a phi is at the end of the words when it is recorded, so it gets a place of its own;
and `AddLabel`, which leaves `op_index` behind, still puts its own first word.

**Encoding** (`EncodingProofs`). `IInv` says which words have been written at
round `i`: word k is `WordAt` of the bytes from 4(k - 1), there are `i` / 4 of
them before the end, and at the end also the word of zeros when the length is
a multiple of four. `Fits` needs no more. `ReadsBack` assumes that no string has
a byte that is negative as a char, or that char is unsigned (`Plain`), which is
what `EncodingUtf8` shows to be needed. `LiteralsReadBack` is arithmetic: the
bytes of a number, put together again, are the number modulo the size of a
word, and two words give all of a 64-bit value back, negative ones included.

**The whole module** (`SiritProofs`). `DeclaresAsAlone` is the refinement of
`Declarations` by the module: every call is a declaring method, takes one id
elsewhere, or leaves the declarations' state alone; it speaks of steps, of which
the first call of a macro method of `extension.cpp` is two. It has no assumption
but the named ones, and with it the theorems about `Declarations` hold in a module:
`InternsInModule` for every client, `DeclarationsOfModule` and
`DeclaredOnceInModule` for those without `TypePipe`.

The other theorems are for clients that keep away from the public methods that do
write behind a vector, which section 5 lists. `FittingCode` is a client with
one-word literals (`Widths` ⊆ {1}) that calls neither `OpAtomicStore` nor a sparse
gather; `FittingModule` one that does not call `TypePipe` either. These are
hypotheses of the theorems and not assumptions of the module `Sirit`, whose
actions include the calls they exclude.

`SectionsStay` (the property `SectionsStable`), `FittingInBounds`, `ImportsOnce`
and `ModuleTypeCorrect` assume `FittingCode`. Their invariant `SInv` has the types of
the streams, that each ends inside its vector, that labels and the import's id
are at most the bound, and `OneImport`: nothing is in the import stream while
`glsl_std_450` is empty, and exactly one instruction with that id afterwards.
The types are needed because what `Emit` appends is only an instruction if its
words are words, and the bound because ids are among them. `SectionsStay` follows
step by step: a call writes from `insert_index` on, and a growth sets only cells
from `size` on, which the invariant keeps apart from what is shown (`Grown`).

The rest is about what a reader finds. It assumes `FittingModule` and
`ShortClient`: no name, span or instruction is so long that its word count
exceeds 16 bits, beyond which the count does not lead to the next instruction.

- `RInv` is `SInv` and `OnceInv` with every stream `Readable`. Under it `NextReads`
  shows that each step is, for a reader, one of five (`ReadStep`): it changes nothing
  that is read (a duplicate, a capability, a memory model), appends to one
  stream an instruction that defines the id just taken or one that defines none, takes
  an id for a label, or appends a label that was waiting.
- `ImplementsAssembler` (the property `Assembles`) maps these five to the actions of
  `Assembler` and stutters. An undo is a stutter although it takes an id, writes words
  and gives both back.
- `MInv` adds to `RInv` that each instruction is one of those of its stream, with the
  id of each defined once (`Sorted`), and what `ImportedOnce` says (`GlslInv`):
  every extended instruction read in the code has the import's id.
- `HInv` is about the rest: both sets are finite and of what was asked for, so they
  can be written in some order.
- `SectionsInOrder` and `EveryIdDefinedOnce` are about `Assemble`. `AssembledReads` shows
  that its words are eleven sequences of instructions one after the other and that a
  reader finds just these; `AssembledRows` gives each instruction read its section and its
  place there (`FlattenOrders`). No instruction belongs to two sections
  (`OneSection`; local and global variables differ in their storage class only), so the
  order of sections is that of their instructions, and an id defined twice would be
  defined twice in the streams.

**What is promised to a client** (`AssemblerProofs`). `IdsOnce`: in `Assembler` each
id up to the bound is at exactly one place of exactly one section, or belongs to
a label not yet placed, and no other id is anywhere. The invariant is the
property itself with `TypeOK`; a step adds one place. Through `ImplementsAssembler`
it is the rule for the modules `Sirit` makes.

**Only model-checked.** `PatchReturns` and `Returns`: they are liveness under fairness,
which needs ENABLED. Every other property of a run that passes is
stated by a theorem, for the clients described above: the runs are what shows
that clients outside these hypotheses exist whose modules are wrong
(section 5), but for the count of 16 bits, which no run reaches.

## 5. Disagreements between the code and its documentation

Seven runs end in a counterexample; the findings in `PROJECT.json` quote the
lines. Three are reservations that are too small whatever the literals (`TypePipe`;
`OpAtomicStore`, which also emits a result id SPIR-V does not give it; the sparse
gathers, given image operands). Two are reservations that are too small for 64-bit literals: in the code
stream that of `OpSwitch`, and the same arithmetic in `OpCompositeInsert` and
`OpCompositeExtract`; in other streams those of `AddExecutionMode`, `Decorate`,
`MemberDecorate` and `OpLine`. (`OpLoopMerge` is not one of them: its further
operands are `Id`s, of a word each.) One is the
address of a deferred phi, which is right only because SPIR-V wants phis at the
start of a block, and one is the sign extension of a byte above 0x7f in a
string, which spoils the rest of its word.

## 6. Plan

All of this is in place; the order was that of importance.

1. `Stream`, `Interning`, `Declarations`: interning, bounds, emission; proofs.
2. `Instructions`: the catalogue; proof of the reservations.
3. `Code`: labels, deferred phis, the patch; proofs.
4. `Encoding`: strings and literals; proofs.
5. `Sirit` with `Assembler` and `Declarations`: the whole module; proofs.
6. The counterexamples of section 5.

What could still be added: the deferred phis of `Code` inside `Sirit` (both write to
the stream `code`, and `Code` already has every kind of call between them); strings
of `Declarations` made by `Encoding` instead of being arbitrary words; an instruction
of more words than the count can hold, of which the code's documents say nothing
(the theorems exclude it by hypothesis).

## 7. Not modelled

- The operands of instructions other than ids, and of the code instructions all
  operands: the library never reads them again.
- Phis, patches and the whole catalogue inside `Sirit`: they are in `Code`. Two of the
  catalogue's methods stand for it in the run of `Sirit`; the proofs about `Sirit`
  have all of it, the three short methods excluded by hypothesis.
- Somebody else's writes to the memory behind the vectors other than that of the
  declarations. They would change what the violations of section 5 show, not that
  they are violations. The clients of `FittingInBounds` have no word there.
- In `Encoding`, the room in the vector: what is shown is that the number of words
  is the one reserved, and what room does is in the modules about streams.
- The hash function of the table: it affects speed only.
- Memory allocation failure, which the code does not handle.
- The variadic templates of `sirit.h`, which forward to the overloads modelled.
- Build files, and the vendored SPIR-V headers.
