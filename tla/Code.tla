-------------------------------- MODULE Code --------------------------------
(***************************************************************************)
(* The code stream of a Module, its labels and its deferred phis:          *)
(* src/src/instructions/flow.cpp, AddLabel and PatchDeferredPhi of         *)
(* src/src/sirit.cpp, and every other method that writes to `code', by the *)
(* shapes of Instructions.                                                 *)
(*                                                                         *)
(* A deferred phi is written with 0 for each value.  PatchDeferredPhi      *)
(* later goes through the recorded addresses and calls the client's        *)
(* function for each value; that function may use the Module, so the patch *)
(* is a sequence of steps here with the client's calls between them.  One  *)
(* of these calls may be PatchDeferredPhi itself, which suspends the call  *)
(* that runs until it returns.                                             *)
(***************************************************************************)
EXTENDS Reader, Instructions

CONSTANTS
  Api,         \* the methods the modelled client uses
  Structured,  \* whether it defers phis only where SPIR-V allows a phi:
               \* after the label of a block or after another phi
  MaxBlocks,   \* bound of the model: the incoming edges of a deferred phi
  MaxNesting,  \* bound of the model: the suspended calls of PatchDeferredPhi
  MaxId        \* bound of the model: the greatest id

OpPhi == 245
OpLabelCode == 248
OtherOp == 1   \* the opcode of every instruction that is not a phi or a label
Operand == 1   \* an operand whose value does not matter

ASSUME CodeAssumption ==
  /\ Half > OpLabelCode
  /\ Structured \in BOOLEAN
  /\ MaxBlocks \in Nat /\ 3 + 2 * MaxBlocks < Half
  /\ MaxNesting \in Nat
  /\ MaxId \in Word

VARIABLES
  code,                \* Module::code
  bound,               \* Module::bound
  deferred_phi_nodes,  \* Module::deferred_phi_nodes
  patch,               \* the loops of PatchDeferredPhi; node = 0 when it is
                       \* not running
  outer,               \* the loops of the calls of PatchDeferredPhi that are
                       \* suspended in the client's function, innermost first
  aborted,             \* the assertion of PatchDeferredPhi has failed
  last,                \* what the client last put into the code stream
  phis                 \* history: where each deferred phi starts and how many
                       \* values it has

vars == <<code, bound, deferred_phi_nodes, patch, outer, aborted, last, phis>>

Idle == [node |-> 0, arg |-> 0, num_args |-> 0, cursor |-> 0]

Init == /\ code = EmptyStream
        /\ bound = 0
        /\ deferred_phi_nodes = <<>>
        /\ patch = Idle
        /\ outer = <<>>
        /\ aborted = FALSE
        /\ last = "other"
        /\ phis = <<>>

-----------------------------------------------------------------------------
(* The client's calls.  It runs when no patch does, or inside the function *)
(* that PatchDeferredPhi calls for the next value.                         *)

ClientRuns == ~aborted /\ (patch.node = 0 \/ patch.arg < patch.num_args)

Repeat(word, n) == [i \in 1 .. n |-> word]

\* The first words of an instruction, through operator<<(OpId) or, without an
\* id, operator<<(spv::Op).
FirstWords(op, shape) ==
  <<op>> \o (IF shape.typed THEN <<Operand>> ELSE <<>>)
         \o (IF shape.id THEN <<bound + 1>> ELSE <<>>)

\* A method that reserves, starts an instruction, adds operands and ends it.
Instruction(op, shape, operands) ==
  /\ HasRoom(code, shape.reserved, Len(FirstWords(op, shape)) + Len(operands))
  /\ shape.id => bound < MaxId
  /\ code' = EndOp(Put(BeginOp(Reserve(code, shape.reserved), FirstWords(op, shape)),
                       operands))
  /\ bound' = IF shape.id THEN bound + 1 ELSE bound

\* Every method of the catalogue.
Emit ==
  /\ ClientRuns
  /\ \E shape \in AllShapes :
       /\ shape.method \in Api
       /\ Instruction(IF shape.method = "OpPhi" THEN OpPhi ELSE OtherOp, shape,
                      Repeat(Operand, shape.operands))
       /\ last' = IF shape.method = "OpPhi" THEN "phi" ELSE "other"
  /\ UNCHANGED <<deferred_phi_nodes, patch, outer, aborted, phis>>

\* OpLabel, and any other stream of the module, takes an id.
OpLabel ==
  /\ ClientRuns
  /\ bound < MaxId
  /\ bound' = bound + 1
  /\ UNCHANGED <<code, deferred_phi_nodes, patch, outer, aborted, last, phis>>

\* Mutants of AddLabel: one word too many is reserved, or it ends an
\* instruction that it has not begun.
AddLabel_ReservesMore ==
  /\ ClientRuns
  /\ HasRoom(code, 3, 2)
  /\ \E label \in 1 .. bound :
       code' = Put(Reserve(code, 3), <<WithCount(OpLabelCode, 2), label>>)
  /\ last' = "label"
  /\ UNCHANGED <<bound, deferred_phi_nodes, patch, outer, aborted, phis>>

AddLabel_EndsOp ==
  /\ ClientRuns
  /\ HasRoom(code, 2, 2)
  /\ \E label \in 1 .. bound :
       code' = EndOp(Put(Reserve(code, 2), <<OpLabelCode, label>>))
  /\ last' = "label"
  /\ UNCHANGED <<bound, deferred_phi_nodes, patch, outer, aborted, phis>>

\* AddLabel writes its two words itself: there is no EndOp and op_index stays.
AddLabel ==
  /\ ClientRuns
  /\ HasRoom(code, 2, 2)
  /\ \E label \in 1 .. bound :
       code' = Put(Reserve(code, 2), <<WithCount(OpLabelCode, 2), label>>)
  /\ last' = "label"
  /\ UNCHANGED <<bound, deferred_phi_nodes, patch, outer, aborted, phis>>

\* A mutant that takes the address after the reservation.
DeferredOpPhi_ReservesFirst ==
  /\ ~aborted /\ patch.node = 0
  /\ Structured => last \in {"label", "phi"}
  /\ \E n \in 0 .. MaxBlocks :
       /\ Instruction(OpPhi, Typed("DeferredOpPhi", 3 + n * 2, n * 2),
                      [i \in 1 .. n * 2 |-> IF i % 2 = 1 THEN 0 ELSE Operand])
       /\ phis' = Append(phis, [at |-> code.insert_index, args |-> n])
  /\ deferred_phi_nodes' = Append(deferred_phi_nodes, LocalAddress(code'))
  /\ last' = "phi"
  /\ UNCHANGED <<patch, outer, aborted>>

\* DeferredOpPhi: the address is taken before the reservation.  The client does
\* not call it from the function PatchDeferredPhi calls, which would change the
\* vector that is being iterated.
DeferredOpPhi ==
  /\ ~aborted /\ patch.node = 0
  /\ Structured => last \in {"label", "phi"}
  /\ \E n \in 0 .. MaxBlocks :
       /\ Instruction(OpPhi, Typed("DeferredOpPhi", 3 + n * 2, n * 2),
                      [i \in 1 .. n * 2 |-> IF i % 2 = 1 THEN 0 ELSE Operand])
       /\ phis' = Append(phis, [at |-> code.insert_index, args |-> n])
  /\ deferred_phi_nodes' = Append(deferred_phi_nodes, LocalAddress(code))
  /\ last' = "phi"
  /\ UNCHANGED <<patch, outer, aborted>>

-----------------------------------------------------------------------------
(* PatchDeferredPhi, which may be called any number of times.              *)

\* The number of values: the subtraction wraps around in the width of a word.
NumArgs(first_word) ==
  ((CountOf(first_word) + Half * Half - 3) % (Half * Half)) \div 2

\* A mutant that takes the result for an argument.
VisitNode_CountsResult(node) ==
  LET phi_index == deferred_phi_nodes[node]
      first_word == Value(code, phi_index)
  IN  IF OpcodeOf(first_word) = OpPhi
      THEN /\ patch' = [node |-> node, arg |-> 0, cursor |-> phi_index + 3,
                        num_args |-> NumArgs(first_word) + 1]
           /\ UNCHANGED aborted
      ELSE aborted' = TRUE /\ UNCHANGED patch

\* One round of the outer loop up to the inner loop.
VisitNode(node) ==
  LET phi_index == deferred_phi_nodes[node]
      first_word == Value(code, phi_index)
  IN  IF OpcodeOf(first_word) = OpPhi
      THEN /\ patch' = [node |-> node, arg |-> 0, cursor |-> phi_index + 3,
                        num_args |-> NumArgs(first_word)]
           /\ UNCHANGED aborted
      ELSE aborted' = TRUE /\ UNCHANGED patch

\* The client calls PatchDeferredPhi, which may be from the function that
\* another call of it has called.
PatchStart ==
  /\ ClientRuns
  /\ patch.node > 0 => Len(outer) < MaxNesting
  /\ deferred_phi_nodes # <<>>
  /\ outer' = IF patch.node = 0 THEN outer ELSE <<patch>> \o outer
  /\ VisitNode(1)
  /\ UNCHANGED <<code, bound, deferred_phi_nodes, last, phis>>

\* PatchDeferredPhi returns: to the function it was called from, if any.
PatchEnd ==
  /\ IF outer = <<>> THEN patch' = Idle /\ UNCHANGED outer
     ELSE patch' = Head(outer) /\ outer' = Tail(outer)
  /\ UNCHANGED aborted

\* Mutants of PatchArg: the cursor does not skip the block, the counter stays.
PatchArg_WrongStride ==
  /\ ~aborted /\ patch.node > 0
  /\ patch.arg < patch.num_args
  /\ \E id \in 1 .. bound : code' = SetValue(code, patch.cursor, id)
  /\ patch' = [patch EXCEPT !.arg = patch.arg + 1, !.cursor = patch.cursor + 1]
  /\ UNCHANGED <<bound, deferred_phi_nodes, outer, aborted, last, phis>>

PatchArg_NeverAdvances ==
  /\ ~aborted /\ patch.node > 0
  /\ patch.arg < patch.num_args
  /\ \E id \in 1 .. bound : code' = SetValue(code, patch.cursor, id)
  /\ UNCHANGED <<bound, deferred_phi_nodes, patch, outer, aborted, last, phis>>

\* The function returns an id and the inner loop goes round.
PatchArg ==
  /\ ~aborted /\ patch.node > 0
  /\ patch.arg < patch.num_args
  /\ \E id \in 1 .. bound : code' = SetValue(code, patch.cursor, id)
  /\ patch' = [patch EXCEPT !.arg = patch.arg + 1, !.cursor = patch.cursor + 2]
  /\ UNCHANGED <<bound, deferred_phi_nodes, outer, aborted, last, phis>>

\* A mutant that leaves out the last node.
PatchNext_SkipsLast ==
  /\ ~aborted /\ patch.node > 0
  /\ patch.arg >= patch.num_args
  /\ IF patch.node + 1 < Len(deferred_phi_nodes) THEN VisitNode(patch.node + 1) /\ UNCHANGED outer
     ELSE PatchEnd
  /\ UNCHANGED <<code, bound, deferred_phi_nodes, last, phis>>

\* The outer loop goes round, or PatchDeferredPhi returns.
PatchNext ==
  /\ ~aborted /\ patch.node > 0
  /\ patch.arg >= patch.num_args
  /\ IF patch.node < Len(deferred_phi_nodes) THEN VisitNode(patch.node + 1) /\ UNCHANGED outer
     ELSE PatchEnd
  /\ UNCHANGED <<code, bound, deferred_phi_nodes, last, phis>>

Next == \/ Emit \/ OpLabel \/ AddLabel \/ DeferredOpPhi
        \/ PatchStart \/ PatchArg \/ PatchNext

\* The client's function returns from each call, whatever it called meanwhile:
\* no call of PatchDeferredPhi is suspended for ever, nor again and again for
\* the same value.
Fairness == \A depth \in 0 .. MaxNesting :
              SF_vars(Len(outer) = depth /\ (PatchArg \/ PatchNext))

Spec == Init /\ [][Next]_vars /\ Fairness

-----------------------------------------------------------------------------
(* Properties.                                                             *)

Frame == [node : 0 .. Len(deferred_phi_nodes), arg : 0 .. MaxBlocks,
          num_args : 0 .. MaxBlocks, cursor : Nat]

TypeOK ==
  /\ code \in StreamState
  /\ code.size =< Cap /\ code.insert_index =< Cap
  /\ bound \in 0 .. MaxId
  /\ deferred_phi_nodes \in Seq(Nat)
  /\ patch \in Frame
  /\ outer \in Seq(Frame)
  /\ aborted \in BOOLEAN
  /\ last \in {"label", "phi", "other"}
  /\ phis \in Seq([at : Nat, args : 0 .. MaxBlocks])

\* Where the value of argument `arg' (from 0) of a phi is.
ValueAt(phi, arg) == phi.at + 3 + 2 * arg

\* DeferredOpPhi records the size of the vector, not the place of the next
\* word.  They agree for a structured client because AddLabel's reservation
\* uses up whatever room other instructions have left over.
PhisAddressed ==
  /\ Len(deferred_phi_nodes) = Len(phis)
  /\ \A k \in DOMAIN phis : deferred_phi_nodes[k] = phis[k].at

\* "assert(op == spv::Op::OpPhi)" (sirit.cpp:75): each recorded address is that
\* of a phi when the patch reads it, whatever was emitted since, also by the
\* client's function.
AssertHolds == ~aborted

\* Writes stay in the vector, and no method leaves more room over than AddLabel
\* and the next phi use up.
InBounds == code.insert_index =< code.size /\ code.size - code.insert_index =< 2

\* The stream can be read to its end by its word counts, with the phis and the
\* labels (which are written without EndOp) in it, also while a patch runs.
CodeReads == ReadsToEnd(Words(code))

\* Once emitted a word only changes if it is a phi value being patched, and it
\* never goes back to 0.
OnlyValuesChange ==
  [][\A i \in 0 .. code.insert_index - 1 :
       /\ i < code'.insert_index
       /\ code'.words[i] # code.words[i] =>
            /\ patch.node > 0
            /\ i = ValueAt(phis[patch.node], patch.arg)
            /\ code'.words[i] \in 1 .. bound]_vars

\* "Patches deferred phi nodes calling the passed function on each phi
\* argument" (sirit.h:56): when a call returns every value of every deferred
\* phi is an id, however many nodes there are, whatever was patched before, and
\* also when the call was made from the function of another one.
PatchFillsAll ==
  [][patch.node > 0 /\ (patch'.node = 0 \/ Len(outer') < Len(outer)) =>
       \A k \in DOMAIN phis : \A arg \in 0 .. phis[k].args - 1 :
         code'.words[ValueAt(phis[k], arg)] \in 1 .. bound]_vars

\* Every call of PatchDeferredPhi returns, though the client's function adds
\* instructions to the stream it walks through and patches it itself.
PatchReturns == (patch.node > 0) ~> (patch.node = 0)
=============================================================================
