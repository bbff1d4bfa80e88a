---------------------------- MODULE Instructions ----------------------------
(***************************************************************************)
(* The instructions the methods of Module put into the code stream:        *)
(* src/src/instructions/*.cpp except type.cpp and constant.cpp, whose      *)
(* stream is that of Declarations.  What an operand is does not matter     *)
(* here, how many words it takes does: a shape is what one call of a       *)
(* method passes to Reserve and how many operand words it then writes.     *)
(***************************************************************************)
EXTENDS Naturals

CONSTANTS
  Lengths,  \* the numbers of elements in the spans a caller passes
  Widths    \* the numbers of words in the literals it passes: 1, and 2 for
            \* the 64-bit alternatives of Literal

ASSUME InstructionsAssumption ==
  /\ Lengths \subseteq Nat
  /\ Widths \subseteq {1, 2}

\* `typed' says whether OpId is given a result type, `id' whether there is an
\* OpId at all; the words these take are not counted in `operands'.
Shape(method, id, typed, reserved, operands) ==
  [method |-> method, id |-> id, typed |-> typed,
   reserved |-> reserved, operands |-> operands]

Typed(method, reserved, operands) == Shape(method, TRUE, TRUE, reserved, operands)
Plain(method, reserved, operands) == Shape(method, FALSE, FALSE, reserved, operands)

\* The words a call writes: the opcode, the result type, the id, the operands.
Written(shape) ==
  1 + (IF shape.typed THEN 1 ELSE 0) + (IF shape.id THEN 1 ELSE 0) + shape.operands

\* A call keeps inside what it reserved and leaves at most two words over.
Fits(shape) == /\ Written(shape) =< shape.reserved
               /\ shape.reserved =< Written(shape) + 2

\* An std::optional operand is one word or none.
Maybe == {0, 1}

(* flow.cpp; labels and deferred phis are modelled in Code *)
FlowShapes ==
  {Typed("OpPhi", 3 + 2 * n, 2 * n) : n \in Lengths}
  \cup {Plain("OpLoopMerge", 4 + n, 3 + n) : n \in Lengths}
  \cup {Plain("OpSelectionMerge", 3, 2), Plain("OpBranch", 2, 1),
        Plain("OpReturnValue", 2, 1)}
  \cup {Plain("OpBranchConditional", 6, 3 + weights) : weights \in {0, 2}}
  \cup {Plain("OpSwitch", 3 + n * 2, 2 + n * (w + 1)) : n \in Lengths, w \in Widths}
  \cup {Plain(m, 1, 0) : m \in {"OpReturn", "OpUnreachable", "OpKill",
                                "OpDemoteToHelperInvocation",
                                "OpTerminateInvocation"}}

(* memory.cpp and Module::AddLocalVariable of sirit.cpp *)
MemoryShapes ==
  {Typed("OpImageTexelPointer", 6, 3), Typed("OpVectorExtractDynamic", 5, 2),
   Typed("OpVectorInsertDynamic", 6, 3)}
  \cup {Typed("OpLoad", 5, 1 + access) : access \in Maybe}
  \cup {Plain("OpStore", 4, 2 + access) : access \in Maybe}
  \cup {Typed("OpAccessChain", 4 + n, 1 + n) : n \in Lengths \ {0}}
  \cup {Typed("OpCompositeInsert", 5 + n, 2 + n * w) : n \in Lengths, w \in Widths}
  \cup {Typed("OpCompositeExtract", 4 + n, 1 + n * w) : n \in Lengths, w \in Widths}
  \cup {Typed("OpCompositeConstruct", 3 + n, n) : n \in Lengths \ {0}}

VariableShapes ==
  {Typed("AddLocalVariable", 5, 1 + initializer) : initializer \in Maybe}

(* function.cpp, extension.cpp, misc.cpp, barrier.cpp *)
FunctionShapes ==
  {Typed("OpFunction", 5, 2), Plain("OpFunctionEnd", 1, 0),
   Typed("OpFunctionParameter", 3, 0)}
  \cup {Typed("OpFunctionCall", 4 + n, 1 + n) : n \in Lengths}

\* The methods the macros of extension.cpp define are OpExtInst with one to
\* three operands, on the set that GetGLSLstd450 returns.
ExtensionShapes == {Typed("OpExtInst", 5 + n, 2 + n) : n \in Lengths}

MiscShapes ==
  {Typed("OpUndef", 3, 0)}
  \cup {Plain(m, 1, 0) : m \in {"OpEmitVertex", "OpEndPrimitive"}}
  \cup {Plain(m, 2, 1) : m \in {"OpEmitStreamVertex", "OpEndStreamPrimitive"}}

BarrierShapes_Short == {Plain("OpControlBarrier", 3, 3), Plain("OpMemoryBarrier", 3, 2)}

BarrierShapes == {Plain("OpControlBarrier", 4, 3), Plain("OpMemoryBarrier", 3, 2)}

(* image.cpp: the first six are the macros that define most of its methods *)
ImageShapes ==
  {Typed("DEFINE_IMAGE_OP", 6 + n, 2 + mask + n) : n \in Lengths, mask \in Maybe}
  \cup {Typed("DEFINE_IMAGE_EXP_OP", 6 + n, 3 + n) : n \in Lengths}
  \cup {Typed("DEFINE_IMAGE_EXTRA_OP", 7 + n, 3 + mask + n) :
          n \in Lengths, mask \in Maybe}
  \cup {Typed("DEFINE_IMAGE_EXTRA_EXP_OP", 8 + n, 4 + n) : n \in Lengths}
  \cup {Typed("DEFINE_IMAGE_QUERY_OP", 5, 1), Typed("DEFINE_IMAGE_QUERY_BIN_OP", 5, 2),
        Typed("OpSampledImage", 5, 2), Typed("OpImage", 4, 1),
        Typed("OpImageSparseTexelsResident", 4, 1)}
  \cup {Plain("OpImageWrite", 5 + n, 4 + n) : n \in Lengths \ {0}}
  \cup {Plain("OpImageWrite", 5, 3)}  \* image operands and their mask go together
  \cup {Typed(m, 5 + mask + n, 2 + mask + n) :
          m \in {"OpImageSparseSampleImplicitLod", "OpImageSparseFetch",
                 "OpImageSparseRead"}, n \in Lengths, mask \in Maybe}
  \cup {Typed("OpImageSparseSampleExplicitLod", 6 + n, 3 + n) : n \in Lengths}
  \cup {Typed("OpImageSparseSampleDrefImplicitLod", 6 + mask + n, 3 + mask + n) :
          n \in Lengths, mask \in Maybe}
  \cup {Typed("OpImageSparseSampleDrefExplicitLod", 7 + n, 4 + n) : n \in Lengths}
  \cup {Typed(m, 6 + n, 3 + mask + n) :
          m \in {"OpImageSparseGather", "OpImageSparseDrefGather"},
          n \in Lengths, mask \in Maybe}

(* atomic.cpp; OpAtomicStore has an OpId, without a type *)
AtomicShapes ==
  {Typed(m, 6, 3) : m \in {"OpAtomicLoad", "OpAtomicIIncrement",
                           "OpAtomicIDecrement"}}
  \cup {Shape("OpAtomicStore", TRUE, FALSE, 5, 4)}
  \cup {Typed("OpAtomicCompareExchange", 9, 6)}
  \cup {Typed(m, 7, 4) : m \in {"OpAtomicExchange", "OpAtomicIAdd", "OpAtomicISub",
                                "OpAtomicSMin", "OpAtomicUMin", "OpAtomicSMax",
                                "OpAtomicUMax", "OpAtomicAnd", "OpAtomicOr",
                                "OpAtomicXor"}}

(* group.cpp and bit.cpp *)
GroupShapes ==
  {Typed(m, 4, 1) : m \in {"OpSubgroupBallotKHR", "OpSubgroupAllKHR",
                           "OpSubgroupAnyKHR", "OpSubgroupAllEqualKHR"}}
  \cup {Typed(m, 5, 2) : m \in {"OpSubgroupReadInvocationKHR",
                                "OpGroupNonUniformAll", "OpGroupNonUniformAny",
                                "OpGroupNonUniformAllEqual",
                                "OpGroupNonUniformBallot"}}
  \cup {Typed(m, 6, 3) : m \in {"OpGroupNonUniformBroadcast",
                                "OpGroupNonUniformShuffle",
                                "OpGroupNonUniformShuffleXor"}}

BitShapes ==
  {Typed(m, 4, 1) : m \in {"OpNot", "OpBitReverse", "OpBitCount"}}
  \cup {Typed(m, 5, 2) : m \in {"OpShiftRightLogical", "OpShiftRightArithmetic",
                                "OpShiftLeftLogical", "OpBitwiseOr",
                                "OpBitwiseXor", "OpBitwiseAnd"}}
  \cup {Typed(m, 6, 3) : m \in {"OpBitFieldSExtract", "OpBitFieldUExtract"}}
  \cup {Typed("OpBitFieldInsert", 7, 4)}

(* The macros of logical.cpp, arithmetic.cpp, conversion.cpp, derivatives.cpp *)
LogicalShapes == {Typed("DEFINE_UNARY", 4, 1), Typed("DEFINE_BINARY", 5, 2),
                  Typed("DEFINE_TRINARY", 6, 3)}
ArithmeticShapes == {Typed("DEFINE_UNARY", 4, 1), Typed("DEFINE_BINARY", 5, 2)}
ConversionShapes == {Typed("DEFINE_UNARY", 4, 1)}
DerivativeShapes == {Typed("DEFINE_UNARY", 4, 1)}

AllShapes ==
  FlowShapes \cup MemoryShapes \cup VariableShapes \cup FunctionShapes
    \cup ExtensionShapes \cup MiscShapes \cup BarrierShapes \cup ImageShapes
    \cup AtomicShapes \cup GroupShapes \cup BitShapes \cup LogicalShapes
    \cup ArithmeticShapes \cup ConversionShapes \cup DerivativeShapes

\* The methods that may write more words than they reserve, whatever literals
\* they are given.
ShortMethods == {"OpAtomicStore", "OpImageSparseGather", "OpImageSparseDrefGather"}
=============================================================================
