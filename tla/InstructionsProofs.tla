------------------------- MODULE InstructionsProofs -------------------------
(***************************************************************************)
(* The reservations of all the methods that write to the code stream, for  *)
(* spans of any length.                                                    *)
(***************************************************************************)
EXTENDS Instructions, TLAPS

\* What the proofs need of a shape: but for the short methods it keeps what it
\* reserves and has a result type when it has an id.  An OpPhi takes all it
\* reserves.
Sound(shape) ==
  /\ shape = Shape(shape.method, shape.id, shape.typed, shape.reserved,
                   shape.operands)
  /\ shape.id \in BOOLEAN /\ shape.typed \in BOOLEAN
  /\ shape.reserved \in Nat /\ shape.operands \in Nat
  /\ shape.method \notin ShortMethods => Fits(shape) /\ shape.typed = shape.id
  /\ shape.method = "OpPhi" => /\ shape.id /\ shape.typed
                               /\ shape.reserved = Written(shape)

\* A method with a result type and an id.
LEMMA TypedSound ==
  ASSUME NEW m, m # "OpPhi", NEW r \in Nat, NEW o \in Nat, 3 + o =< r, r =< 5 + o
  PROVE  Sound(Typed(m, r, o))
  BY DEF Sound, Typed, Shape, Fits, Written

\* A method with neither.
LEMMA PlainSound ==
  ASSUME NEW m, m # "OpPhi", NEW r \in Nat, NEW o \in Nat, 1 + o =< r, r =< 3 + o
  PROVE  Sound(Plain(m, r, o))
  BY DEF Sound, Plain, Shape, Fits, Written

\* A method of which nothing is claimed but that it is one.
LEMMA ShortSound ==
  ASSUME NEW m \in ShortMethods, NEW i \in BOOLEAN, NEW t \in BOOLEAN,
         NEW r \in Nat, NEW o \in Nat
  PROVE  Sound(Shape(m, i, t, r, o))
  BY DEF Sound, Shape, ShortMethods

\* The methods of flow.cpp, whose literals take one word each.
LEMMA FlowSound ==
  ASSUME Widths \subseteq {1}, NEW shape \in FlowShapes
  PROVE  Sound(shape)
<1>1. Lengths \subseteq Nat
  BY InstructionsAssumption
<1>2. CASE \E n \in Lengths : shape = Typed("OpPhi", 3 + 2 * n, 2 * n)
  BY <1>1, <1>2 DEF Sound, Typed, Shape, Fits, Written
<1>3. CASE \E n \in Lengths : shape = Plain("OpLoopMerge", 4 + n, 3 + n)
  BY <1>1, <1>3, PlainSound
<1>4. CASE \E n \in Lengths : shape = Plain("OpSwitch", 3 + n * 2, 2 + n * 2)
  BY <1>1, <1>4, PlainSound
<1>5. CASE \E m : \/ m # "OpPhi" /\ shape = Plain(m, 1, 0)
                  \/ m # "OpPhi" /\ shape = Plain(m, 2, 1)
                  \/ m # "OpPhi" /\ shape = Plain(m, 3, 2)
                  \/ m # "OpPhi" /\ shape = Plain(m, 6, 3)
                  \/ m # "OpPhi" /\ shape = Plain(m, 6, 5)
  BY <1>5, PlainSound
<1> QED
  BY <1>1, <1>2, <1>3, <1>4, <1>5 DEF FlowShapes

\* The methods of memory.cpp and AddLocalVariable.
LEMMA MemorySound ==
  ASSUME Widths \subseteq {1}, NEW shape \in MemoryShapes \cup VariableShapes
  PROVE  Sound(shape)
<1>1. Lengths \subseteq Nat
  BY InstructionsAssumption
<1>2. CASE shape \in VariableShapes
  BY <1>2, TypedSound DEF VariableShapes, Maybe
<1>3. CASE shape \in {Plain("OpStore", 4, 2 + access) : access \in Maybe}
  BY <1>3, PlainSound DEF Maybe
<1>4. CASE shape \in {Typed("OpLoad", 5, 1 + access) : access \in Maybe}
  BY <1>4, TypedSound DEF Maybe
<1>5. CASE \E n \in Nat : \/ shape = Typed("OpAccessChain", 4 + n, 1 + n)
                          \/ shape = Typed("OpCompositeInsert", 5 + n, 2 + n)
                          \/ shape = Typed("OpCompositeExtract", 4 + n, 1 + n)
                          \/ shape = Typed("OpCompositeConstruct", 3 + n, n)
  BY <1>5, TypedSound
<1>6. CASE \E m : m # "OpPhi" /\ (\/ shape = Typed(m, 5, 2)
                                  \/ shape = Typed(m, 6, 3))
  BY <1>6, TypedSound
<1> QED
  BY <1>1, <1>2, <1>3, <1>4, <1>5, <1>6 DEF MemoryShapes

\* The methods of function.cpp, extension.cpp, misc.cpp and barrier.cpp.
LEMMA CallSound ==
  ASSUME NEW shape \in FunctionShapes \cup ExtensionShapes \cup MiscShapes
                         \cup BarrierShapes
  PROVE  Sound(shape)
<1>1. Lengths \subseteq Nat
  BY InstructionsAssumption
<1>2. CASE \E n \in Nat : \/ shape = Typed("OpFunctionCall", 4 + n, 1 + n)
                          \/ shape = Typed("OpExtInst", 5 + n, 2 + n)
  BY <1>2, TypedSound
<1>3. CASE \E m : m # "OpPhi" /\ (\/ shape = Typed(m, 5, 2)
                                  \/ shape = Typed(m, 3, 0))
  BY <1>3, TypedSound
<1>4. CASE \E m : m # "OpPhi" /\ (\/ shape = Plain(m, 1, 0)
                                  \/ shape = Plain(m, 2, 1)
                                  \/ shape = Plain(m, 3, 2)
                                  \/ shape = Plain(m, 4, 3))
  BY <1>4, PlainSound
<1> QED
  BY <1>1, <1>2, <1>3, <1>4
     DEF FunctionShapes, ExtensionShapes, MiscShapes, BarrierShapes

\* The methods of image.cpp, of which the two gathers are short.
LEMMA ImageSound ==
  ASSUME NEW shape \in ImageShapes
  PROVE  Sound(shape)
<1>1. Lengths \subseteq Nat /\ Maybe = {0, 1}
  BY InstructionsAssumption DEF Maybe
<1>2. CASE \E n \in Nat, mask \in {0, 1} :
             \/ shape = Typed("DEFINE_IMAGE_OP", 6 + n, 2 + mask + n)
             \/ shape = Typed("DEFINE_IMAGE_EXTRA_OP", 7 + n, 3 + mask + n)
  BY <1>2, TypedSound
<1>3. CASE \E n \in Nat :
             \/ shape = Typed("DEFINE_IMAGE_EXP_OP", 6 + n, 3 + n)
             \/ shape = Typed("DEFINE_IMAGE_EXTRA_EXP_OP", 8 + n, 4 + n)
             \/ shape = Typed("OpImageSparseSampleExplicitLod", 6 + n, 3 + n)
             \/ shape = Typed("OpImageSparseSampleDrefExplicitLod", 7 + n, 4 + n)
  BY <1>3, TypedSound
<1>4. CASE \E m : m # "OpPhi" /\ (\/ shape = Typed(m, 5, 1)
                                  \/ shape = Typed(m, 5, 2)
                                  \/ shape = Typed(m, 4, 1))
  BY <1>4, TypedSound
<1>5. CASE \E n \in Nat : \/ shape = Plain("OpImageWrite", 5 + n, 4 + n)
                          \/ shape = Plain("OpImageWrite", 5, 3)
  BY <1>5, PlainSound
<1>6. CASE \E m \in {"OpImageSparseSampleImplicitLod", "OpImageSparseFetch",
                   "OpImageSparseRead"}, n \in Nat, mask \in {0, 1} :
             shape = Typed(m, 5 + mask + n, 2 + mask + n)
  BY <1>6, TypedSound
<1>7. CASE \E n \in Nat, mask \in {0, 1} :
             shape = Typed("OpImageSparseSampleDrefImplicitLod",
                           6 + mask + n, 3 + mask + n)
  BY <1>7, TypedSound
<1>8. CASE \E m \in {"OpImageSparseGather", "OpImageSparseDrefGather"},
             n \in Nat, mask \in {0, 1} : shape = Typed(m, 6 + n, 3 + mask + n)
  <2>1. PICK m \in ShortMethods, n \in Nat, mask \in {0, 1} :
          shape = Shape(m, TRUE, TRUE, 6 + n, 3 + mask + n)
    BY <1>8 DEF ShortMethods, Typed
  <2>2. 6 + n \in Nat /\ 3 + mask + n \in Nat
    OBVIOUS
  <2> QED
    BY <2>1, <2>2, ShortSound
<1> QED
  BY <1>1, <1>2, <1>3, <1>4, <1>5, <1>6, <1>7, <1>8 DEF ImageShapes

\* The methods of atomic.cpp, of which the store is short.
LEMMA AtomicSound ==
  ASSUME NEW shape \in AtomicShapes
  PROVE  Sound(shape)
<1>1. CASE shape = Shape("OpAtomicStore", TRUE, FALSE, 5, 4)
  BY <1>1, ShortSound DEF ShortMethods
<1>2. CASE \E m : m # "OpPhi" /\ (\/ shape = Typed(m, 6, 3)
                                  \/ shape = Typed(m, 7, 4)
                                  \/ shape = Typed(m, 9, 6))
  BY <1>2, TypedSound
<1> QED
  BY <1>1, <1>2 DEF AtomicShapes

\* The methods of group.cpp and bit.cpp and the macros of four other files.
LEMMA OperatorSound ==
  ASSUME NEW shape \in GroupShapes \cup BitShapes \cup LogicalShapes
                         \cup ArithmeticShapes \cup ConversionShapes
                         \cup DerivativeShapes
  PROVE  Sound(shape)
<1>1. CASE \E m : m # "OpPhi" /\ (\/ shape = Typed(m, 4, 1)
                                  \/ shape = Typed(m, 5, 2)
                                  \/ shape = Typed(m, 6, 3)
                                  \/ shape = Typed(m, 7, 4))
  BY <1>1, TypedSound
<1> QED
  BY <1>1 DEF GroupShapes, BitShapes, LogicalShapes, ArithmeticShapes,
              ConversionShapes, DerivativeShapes

\* Every method.
LEMMA AllSound ==
  ASSUME Widths \subseteq {1}, NEW shape \in AllShapes
  PROVE  Sound(shape)
  BY FlowSound, MemorySound, CallSound, ImageSound, AtomicSound, OperatorSound
     DEF AllShapes

\* With literals of one word, only three of the methods that write to the code
\* stream can write more words than they reserve: OpAtomicStore, whose OpId
\* takes a word for an id that a store does not have, and the two sparse
\* gathers, which do not count the mask of their image operands.  No call
\* leaves more than two words of its reservation over, which is what makes the
\* address of a phi after a label right.
THEOREM OnlyThreeAreShort ==
  ASSUME Widths \subseteq {1}
  PROVE  \A shape \in AllShapes : shape.method \notin ShortMethods => Fits(shape)
  BY AllSound DEF Sound
=============================================================================
