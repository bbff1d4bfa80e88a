--------------------------- MODULE AssemblerProofs ---------------------------
(***************************************************************************)
(* Proofs about Assembler: what the promise made to a client implies for   *)
(* the ids of a module, however many sections and instructions it has.     *)
(***************************************************************************)
EXTENDS Assembler, TLAPS

IInv == TypeOK /\ EachIdOnce

\* An empty module defines no id, and none is taken.
LEMMA IInvInit == Init => IInv
<1> SUFFICES ASSUME Init PROVE IInv
  OBVIOUS
<1> USE DEF Init
<1>1. \A section \in Sections : contents[section] = <<>>
  OBVIOUS
<1>2. contents \in [Sections -> Seq(Instruction)]
  BY <1>1
<1>3. Places = {}
  BY <1>1 DEF Places
<1>4. (1 .. bound) \ labels = {}
  OBVIOUS
<1> QED BY <1>2, <1>3, <1>4 DEF IInv, TypeOK, EachIdOnce

\* Adding an instruction makes one new place, and the ones before it define
\* what they did.
LEMMA AddsFacts ==
  ASSUME TypeOK, NEW section \in Sections, NEW id \in Nat, Adds(section, id)
  PROVE  /\ contents' \in [Sections -> Seq(Instruction)]
         /\ \E new : /\ new \notin Places
                     /\ Places' = Places \cup {new}
                     /\ DefinedAt(id, new)'
         /\ \A place \in Places : \A i : DefinedAt(i, place)' <=> DefinedAt(i, place)
<1> DEFINE added == Last(contents'[section])
<1>1. /\ added \in Instruction /\ added.id = id
      /\ contents' = [contents EXCEPT ![section] = Append(@, added)]
  BY DEF Adds
<1>2. /\ contents \in [Sections -> Seq(Instruction)]
      /\ DOMAIN contents[section] = 1 .. Len(contents[section])
      /\ Len(contents[section]) \in Nat
  BY DEF TypeOK
<1>n. PICK n \in Nat : n = Len(contents[section])
  BY <1>2
<1> HIDE DEF added
<1>3. /\ contents' \in [Sections -> Seq(Instruction)]
      /\ contents'[section] = Append(contents[section], added)
      /\ \A other \in Sections : other # section => contents'[other] = contents[other]
  BY <1>1, <1>2
<1>4. /\ DOMAIN contents'[section] = 1 .. (n + 1)
      /\ contents'[section][n + 1] = added
      /\ \A k \in 1 .. n : contents'[section][k] = contents[section][k]
  BY <1>n, <1>1, <1>2, <1>3
<1>5. <<section, n + 1>> \notin Places
  BY <1>2, <1>n DEF Places
<1>6. Places' = Places \cup {<<section, n + 1>>}
  <2>1. ASSUME NEW s \in Sections, NEW k \in Nat
        PROVE  k \in DOMAIN contents'[s] <=>
                 k \in DOMAIN contents[s] \/ (s = section /\ k = n + 1)
    <3>1. CASE s = section
      BY <1>n, <1>2, <1>4, <3>1
    <3>2. CASE s # section
      BY <1>3, <3>2
    <3> QED BY <3>1, <3>2
  <2>2. n + 1 \in Nat
    BY <1>2
  <2> QED BY <2>1, <2>2 DEF Places
<1>7. DefinedAt(id, <<section, n + 1>>)'
  BY <1>1, <1>4 DEF DefinedAt
<1>8. ASSUME NEW place \in Places, NEW i
      PROVE  DefinedAt(i, place)' <=> DefinedAt(i, place)
  <2>1. PICK s \in Sections, k \in Nat : place = <<s, k>> /\ k \in DOMAIN contents[s]
    BY DEF Places
  <2>2. contents'[s][k] = contents[s][k]
    <3>1. CASE s = section
      BY <1>n, <1>2, <1>4, <2>1, <3>1
    <3>2. CASE s # section
      BY <1>3, <3>2
    <3> QED BY <3>1, <3>2
  <2> QED BY <2>1, <2>2 DEF DefinedAt
<1> QED BY <1>3, <1>5, <1>6, <1>7, <1>8

\* An instruction with an id that nothing defined, or with none.
LEMMA AddsIInv ==
  ASSUME IInv, NEW section \in Sections, NEW id \in Nat, Adds(section, id),
         bound' \in Nat, bound' >= bound, labels' \subseteq 1 .. bound',
         id = 0 \/ id \notin (1 .. bound) \ labels,
         (1 .. bound') \ labels' = ((1 .. bound) \ labels) \cup ({id} \ {0})
  PROVE  IInv'
<1> DEFINE ids == (1 .. bound) \ labels
<1>1. contents' \in [Sections -> Seq(Instruction)]
  BY AddsFacts DEF IInv
<1>2. TypeOK'
  BY <1>1 DEF TypeOK
<1>3. PICK new : /\ new \notin Places
                 /\ Places' = Places \cup {new}
                 /\ DefinedAt(id, new)'
  BY AddsFacts DEF IInv
<1>4. \A place \in Places : \A i : DefinedAt(i, place)' <=> DefinedAt(i, place)
  BY AddsFacts DEF IInv
<1>5. \A i : DefinedAt(i, new)' => i = id
  BY <1>3 DEF DefinedAt
<1>6. \A place \in Places : \E i \in {0} \cup ids : DefinedAt(i, place)
  BY DEF IInv, EachIdOnce
<1>7. \A i \in ids : \E place \in Places :
        /\ DefinedAt(i, place)
        /\ \A other \in Places : DefinedAt(i, other) => other = place
  BY DEF IInv, EachIdOnce
<1>8. ((1 .. bound) \ labels)' = ids \cup ({id} \ {0}) /\ (id = 0 \/ id \notin ids)
  OBVIOUS
<1>9. 0 \notin ids
  BY DEF IInv, TypeOK
<1>10. \A place \in Places : ~(id # 0 /\ DefinedAt(id, place))
  BY <1>6, <1>8 DEF DefinedAt
<1> HIDE DEF ids
<1>11. \A place \in Places' : \E i \in {0} \cup ids \cup ({id} \ {0}) :
         DefinedAt(i, place)'
  BY <1>3, <1>4, <1>6
<1>12. ASSUME NEW i \in ids \cup ({id} \ {0})
       PROVE  \E place \in Places' :
                /\ DefinedAt(i, place)'
                /\ \A other \in Places' : DefinedAt(i, other)' => other = place
  <2>1. CASE i \in ids
    <3>1. PICK place \in Places :
            /\ DefinedAt(i, place)
            /\ \A other \in Places : DefinedAt(i, other) => other = place
      BY <1>7, <2>1
    <3>2. i # id
      BY <1>8, <1>9, <2>1
    <3>3. ~DefinedAt(i, new)'
      BY <1>5, <3>2
    <3> QED BY <1>3, <1>4, <3>1, <3>3
  <2>2. CASE i = id /\ id # 0
    BY <1>3, <1>4, <1>10, <2>2
  <2> QED BY <2>1, <2>2
<1>13. EachIdOnce'
  BY <1>8, <1>11, <1>12 DEF EachIdOnce
<1> QED BY <1>2, <1>13 DEF IInv

\* Every step takes a new id, defines one that was kept for a label, or adds
\* an instruction that defines none.
LEMMA IInvNext ==
  ASSUME LabelsIn \in Sections, IInv, [Next]_vars
  PROVE  IInv'
<1>0. bound \in Nat /\ labels \subseteq 1 .. bound
  BY DEF IInv, TypeOK
<1>1. ASSUME NEW section \in Sections, Define(section)
      PROVE  IInv'
  <2>1. Adds(section, bound + 1) /\ bound' = bound + 1 /\ labels' = labels
    BY <1>1 DEF Define
  <2>2. bound + 1 \in Nat /\ bound + 1 \notin (1 .. bound) \ labels
    BY <1>0
  <2>3. (1 .. bound') \ labels' = ((1 .. bound) \ labels) \cup ({bound + 1} \ {0})
    BY <1>0, <2>1
  <2>4. labels' \subseteq 1 .. bound'
    BY <1>0, <2>1
  <2> QED BY <1>0, <2>1, <2>2, <2>3, <2>4, AddsIInv
<1>2. ASSUME NEW section \in Sections, State(section)
      PROVE  IInv'
  <2>1. Adds(section, 0) /\ bound' = bound /\ labels' = labels
    BY <1>2 DEF State
  <2> QED BY <1>0, <2>1, AddsIInv
<1>3. CASE NewLabel
  <2>1. bound' = bound + 1 /\ labels' = labels \cup {bound + 1} /\ contents' = contents
    BY <1>3 DEF NewLabel
  <2>2. (1 .. bound') \ labels' = (1 .. bound) \ labels
    BY <1>0, <2>1
  <2>3. labels' \subseteq 1 .. bound' /\ bound' \in Nat
    BY <1>0, <2>1
  <2>4. TypeOK'
    BY <2>1, <2>3 DEF IInv, TypeOK
  <2>5. EachIdOnce'
    BY <2>1, <2>2 DEF IInv, EachIdOnce, Places, DefinedAt
  <2> QED BY <2>4, <2>5 DEF IInv
<1>4. ASSUME NEW label \in labels, PlaceLabel(label)
      PROVE  IInv'
  <2>1. Adds(LabelsIn, label) /\ bound' = bound /\ labels' = labels \ {label}
    BY <1>4 DEF PlaceLabel
  <2>2. label \in 1 .. bound /\ label \notin (1 .. bound) \ labels
    BY <1>0
  <2>3. (1 .. bound') \ labels' = ((1 .. bound) \ labels) \cup ({label} \ {0})
    BY <1>0, <2>1, <2>2
  <2>4. labels' \subseteq 1 .. bound' /\ label \in Nat
    BY <1>0, <2>1, <2>2
  <2> QED BY <1>0, <2>1, <2>2, <2>3, <2>4, AddsIInv
<1>5. CASE UNCHANGED vars
  BY <1>5 DEF vars, IInv, TypeOK, EachIdOnce, Places, DefinedAt
<1> QED BY <1>1, <1>2, <1>3, <1>4, <1>5 DEF Next

\* A client that is only promised Assembler, whatever its sections, has every
\* id below the bound of its header defined exactly once or still in its hands:
\* the rule of SPIR-V that one wrong step of the counter breaks.
THEOREM IdsOnce ==
  ASSUME LabelsIn \in Sections
  PROVE  Spec => []EachIdOnce
<1>1. Init => IInv
  BY IInvInit
<1>2. IInv /\ [Next]_vars => IInv'
  BY IInvNext
<1>3. IInv => EachIdOnce
  BY DEF IInv
<1> QED BY <1>1, <1>2, <1>3, PTL DEF Spec
==============================================================================
