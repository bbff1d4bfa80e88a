------------------------------ MODULE Assembler ------------------------------
(***************************************************************************)
(* What a client may rely on when it builds a module: every step adds at   *)
(* most one instruction, at the end of one section; an id is defined by    *)
(* the step that takes it, or it is a label's, taken first and put into    *)
(* the code later.  A call is a step, or two: one that imports an          *)
(* instruction set, and one that uses it.  Nothing is said here of words,  *)
(* buffers or what is taken back.                                          *)
(***************************************************************************)
EXTENDS Naturals, SequencesExt

CONSTANTS
  Sections,  \* where instructions are added
  LabelsIn   \* the section that labels are put into

VARIABLES
  contents,  \* the instructions of each section, records of an id and words;
             \* the id is 0 for an instruction that defines none
  bound,     \* the greatest id in use
  labels     \* the ids of labels not yet put into the code

vars == <<contents, bound, labels>>

Init == /\ contents = [section \in Sections |-> <<>>]
        /\ bound = 0
        /\ labels = {}

Instruction == [id : Nat, words : Seq(Nat)]

\* The section gets one instruction more, with this id and whatever else it
\* says, and nothing else changes.
Adds(section, id) ==
  /\ Len(contents'[section]) = Len(contents[section]) + 1
  /\ LET added == Last(contents'[section])
     IN  /\ added \in Instruction
         /\ added.id = id
         /\ contents' = [contents EXCEPT ![section] = Append(@, added)]

\* An instruction that defines the next id.
Define(section) ==
  /\ bound' = bound + 1
  /\ Adds(section, bound + 1)
  /\ UNCHANGED labels

\* An instruction that defines none.
State(section) ==
  /\ UNCHANGED <<bound, labels>>
  /\ Adds(section, 0)

\* A label gets the next id.
NewLabel ==
  /\ bound' = bound + 1
  /\ labels' = labels \cup {bound + 1}
  /\ UNCHANGED contents

\* A label is put into the code.
PlaceLabel(label) ==
  /\ labels' = labels \ {label}
  /\ UNCHANGED bound
  /\ Adds(LabelsIn, label)

Next == \/ \E section \in Sections : Define(section) \/ State(section)
        \/ NewLabel
        \/ \E label \in labels : PlaceLabel(label)

Spec == Init /\ [][Next]_vars

-----------------------------------------------------------------------------
(* What follows.                                                           *)

TypeOK == /\ contents \in [Sections -> Seq(Instruction)]
          /\ bound \in Nat
          /\ labels \subseteq 1 .. bound

\* The places of the instructions, and those that define an id.
Places == {place \in Sections \X Nat : place[2] \in DOMAIN contents[place[1]]}
DefinedAt(id, place) == contents[place[1]][place[2]].id = id

\* Every id up to the bound is defined by exactly one instruction of the
\* module, or belongs to a label the client has yet to place; no instruction
\* defines another.
EachIdOnce ==
  /\ \A place \in Places : \E id \in {0} \cup ((1 .. bound) \ labels) :
       DefinedAt(id, place)
  /\ \A id \in (1 .. bound) \ labels : \E place \in Places :
       /\ DefinedAt(id, place)
       /\ \A other \in Places : DefinedAt(id, other) => other = place
==============================================================================
