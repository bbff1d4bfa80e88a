--------------------------- MODULE EncodingProofs ---------------------------
(***************************************************************************)
(* Proofs about Encoding: strings of every length, all the values of a     *)
(* literal, bytes of any width.                                            *)
(***************************************************************************)
EXTENDS Encoding, TLAPS

String == argument.value

\* Every word written is the one at its place in the string, also the word of
\* zeros behind it, and the loop counter says how many there are.
Written ==
  argument.type = "string" =>
    /\ \A k \in 1 .. Len(words) : words[k] = WordAt(String, 4 * (k - 1))
    /\ ~done => i = 4 * Len(words) /\ i =< Len(String) + 3
    /\ done => Len(words) = WordsInString(String)

IInv == TypeOK /\ Written

-----------------------------------------------------------------------------
\* The smallest and the largest byte, and the smallest negative one.
LEMMA ByteType == 0 \in Byte /\ Bytes - 1 \in Byte /\ Negative \in Nat /\ Negative >= 1
BY EncodingAssumption DEF Byte, Negative

\* A read of a string gives a byte, also behind its end.
LEMMA ReadType ==
  ASSUME NEW string \in Seq(Byte), NEW offset \in Nat
  PROVE  Read(string, offset) \in Byte
BY ByteType DEF Read

\* Four bytes are a word.
LEMMA WordAtType ==
  ASSUME NEW string \in Seq(Byte), NEW offset \in Nat
  PROVE  WordAt(string, offset) \in Word
<1>1. ASSUME NEW j \in 1 .. 4
      PROVE  Read(string, offset + j - 1) \in Byte
  <2>1. offset + j - 1 \in Nat
    OBVIOUS
  <2> QED BY <2>1, ReadType
<1> QED BY <1>1, ByteType DEF WordAt, Word

\* Behind the end of a string there are only zeros.
LEMMA WordBehind ==
  ASSUME NEW string \in Seq(Byte)
  PROVE  WordAt(string, Len(string)) = ZeroWord
<1>1. \A k \in Nat : Read(string, Len(string) + k) = 0
  BY DEF Read
<1>2. \A k \in Nat : ~Extends(string, Len(string) + k)
  BY <1>1, ByteType DEF Extends
<1>3. \A j \in 1 .. 4 : \A k \in 0 .. j - 2 : k \in Nat
  OBVIOUS
<1>4. \A j \in 1 .. 4 : Read(string, Len(string) + j - 1) = 0
  BY DEF Read
<1> QED BY <1>2, <1>3, <1>4 DEF WordAt, ZeroWord

\* The word of zeros is a word.
LEMMA ZeroWordType == ZeroWord \in Word
BY ByteType DEF ZeroWord, Word

\* Quotients and remainders of numbers.
LEMMA DivMod ==
  ASSUME NEW value \in Int, NEW b \in Nat, b > 0
  PROVE  value \div b \in Int /\ value % b \in 0 .. b - 1
OBVIOUS

\* The lowest bytes of a number are a word.
LEMMA WordOfType ==
  ASSUME NEW value \in Int
  PROVE  WordOf(value) \in Word
<1>1. Bytes \in Nat /\ Bytes > 0
  BY EncodingAssumption
<1>2. Bytes * Bytes \in Nat /\ Bytes * Bytes > 0
  BY <1>1
<1>3. Bytes * Bytes * Bytes \in Nat /\ Bytes * Bytes * Bytes > 0
  BY <1>1, <1>2
<1>4. value \div Bytes \in Int
  BY <1>1, DivMod
<1>5. value \div (Bytes * Bytes) \in Int
  BY <1>2, DivMod
<1>6. value \div (Bytes * Bytes * Bytes) \in Int
  BY <1>3, DivMod
<1>7. \A v \in Int : v % Bytes \in Byte
  BY <1>1, DivMod DEF Byte
<1>8. value % Bytes \in Byte
  BY <1>7
<1>9. (value \div Bytes) % Bytes \in Byte
  BY <1>4, <1>7
<1>10. (value \div (Bytes * Bytes)) % Bytes \in Byte
  BY <1>5, <1>7
<1>11. (value \div (Bytes * Bytes * Bytes)) % Bytes \in Byte
  BY <1>6, <1>7
<1> HIDE DEF Byte
<1>12. ASSUME NEW a \in Byte, NEW b \in Byte, NEW c \in Byte, NEW d \in Byte
       PROVE  <<a, b, c, d>> \in Word
  BY DEF Word
<1> QED BY <1>8, <1>9, <1>10, <1>11, <1>12 DEF WordOf

\* There are words.
LEMMA WordSizeType == WordSize \in Nat /\ WordSize > 0
<1>1. Bytes \in Nat /\ Bytes > 0
  BY EncodingAssumption
<1>2. Bytes * Bytes \in Nat /\ Bytes * Bytes > 0
  BY <1>1
<1>3. Bytes * Bytes * Bytes \in Nat /\ Bytes * Bytes * Bytes > 0
  BY <1>1, <1>2
<1> QED BY <1>1, <1>3 DEF WordSize

\* A literal has one of the types, and a number for its value.
LEMMA LiteralType ==
  ASSUME NEW literal \in Literals
  PROVE  literal.type \in LiteralTypes /\ literal.value \in Int
<1>1. literal.type \in LiteralTypes /\ literal.value \in ValuesOf(literal.type)
  BY EncodingAssumption
<1>2. WordSize * WordSize \in Int
  BY WordSizeType
<1>3. Size(literal.type) \in Int
  BY <1>2, WordSizeType DEF Size
<1>4. ValuesOf(literal.type) \subseteq Int
  BY <1>3 DEF ValuesOf
<1> QED BY <1>1, <1>4

\* A literal is written as words.
LEMMA LiteralWordsType ==
  ASSUME NEW literal \in Literals
  PROVE  LiteralWords(literal) \in Seq(Word)
<1>1. literal.value \in Int
  BY LiteralType
<1>2. literal.value \div WordSize \in Int
  BY <1>1, WordSizeType, DivMod
<1>3. WordOf(literal.value) \in Word /\ WordOf(literal.value \div WordSize) \in Word
  BY <1>1, <1>2, WordOfType
<1> HIDE DEF Word
<1> QED BY <1>3 DEF LiteralWords

\* An argument is a string of bytes or a literal.
LEMMA ArgumentType ==
  ASSUME TypeOK
  PROVE  /\ argument.type = "string" => String \in Seq(Byte)
         /\ argument.type # "string" => argument \in Literals
<1>1. CASE argument \in Literals
  BY <1>1, LiteralType DEF LiteralTypes
<1>2. CASE argument \in {StringArgument(string) : string \in Strings}
  <2>1. PICK string \in Strings : argument = StringArgument(string)
    BY <1>2
  <2> QED BY <2>1, EncodingAssumption DEF StringArgument, String
<1> QED BY <1>1, <1>2 DEF TypeOK, Arguments

-----------------------------------------------------------------------------
(* The inductive invariant.                                                *)

\* Nothing is written at first.
LEMMA IInvInit == Init => IInv
<1> SUFFICES ASSUME Init PROVE IInv
  OBVIOUS
<1> USE DEF Init
<1>1. TypeOK
  <2>1. words \in Seq(Word) /\ i \in Nat
    OBVIOUS
  <2>2. argument \in Arguments /\ done \in BOOLEAN
    BY Zenon
  <2> QED BY <2>1, <2>2, Zenon DEF TypeOK
<1>2. argument.type = "string" => Len(String) \in Nat
  BY <1>1, ArgumentType
<1>3. Written
  BY <1>2 DEF Written
<1> QED BY <1>1, <1>3 DEF IInv

\* A word of the string is written where the ones before it end.
LEMMA InsertWordStep ==
  ASSUME IInv, InsertWord
  PROVE  IInv'
<1>0. /\ ~done /\ i < Len(String) /\ words' = Append(words, WordAt(String, i))
      /\ i' = i + 4 /\ argument' = argument /\ done' = done
      /\ argument.type = "string"
  BY DEF InsertWord, String
<1>1. /\ String \in Seq(Byte) /\ Len(String) \in Nat
      /\ words \in Seq(Word) /\ Len(words) \in Nat /\ i \in Nat
  BY <1>0, ArgumentType DEF IInv, TypeOK
<1>2. WordAt(String, i) \in Word
  BY <1>1, <1>0, WordAtType
<1>3. TypeOK'
  <2>1. words' \in Seq(Word) /\ i' \in Nat
    BY <1>0, <1>1, <1>2
  <2>2. argument' \in Arguments /\ done' \in BOOLEAN
    BY <1>0, Zenon DEF IInv, TypeOK
  <2> QED BY <2>1, <2>2, Zenon DEF TypeOK
<1>4. i = 4 * Len(words) /\ i < Len(String)
  BY <1>0 DEF IInv, Written
<1>5. Len(words') = Len(words) + 1 /\ String' = String
  BY <1>0, <1>1, <1>2 DEF String
<1>6. i' = 4 * Len(words') /\ i' =< Len(String) + 3
  BY <1>0, <1>1, <1>4, <1>5
<1>7. ASSUME NEW k \in 1 .. Len(words')
      PROVE  words'[k] = WordAt(String, 4 * (k - 1))
  <2>1. CASE k = Len(words')
    <3>1. words'[k] = WordAt(String, i)
      BY <1>0, <1>1, <1>2, <1>5, <2>1
    <3>2. 4 * (k - 1) = i
      BY <1>1, <1>4, <1>5, <2>1
    <3> QED BY <3>1, <3>2
  <2>2. CASE k # Len(words')
    <3>1. k \in 1 .. Len(words)
      BY <1>1, <1>5, <2>2
    <3>2. words'[k] = words[k]
      BY <1>0, <1>1, <1>2, <3>1
    <3> QED BY <1>0, <3>1, <3>2 DEF IInv, Written
  <2> QED BY <2>1, <2>2
<1>8. Written'
  BY <1>0, <1>5, <1>6, <1>7 DEF Written
<1> QED BY <1>3, <1>8 DEF IInv

\* The last word ends the string, with a word of zeros behind a string that
\* fills its words.
LEMMA InsertEndStep ==
  ASSUME IInv, InsertEnd
  PROVE  IInv'
<1>0. /\ ~done /\ i >= Len(String) /\ done' = TRUE
      /\ i' = i /\ argument' = argument /\ argument.type = "string"
  BY DEF InsertEnd, String
<1>1. /\ String \in Seq(Byte) /\ Len(String) \in Nat
      /\ words \in Seq(Word) /\ Len(words) \in Nat /\ i \in Nat
  BY <1>0, ArgumentType DEF IInv, TypeOK
<1>2. /\ i = 4 * Len(words) /\ i =< Len(String) + 3 /\ i >= Len(String)
      /\ String' = String
  BY <1>0 DEF IInv, Written, String
<1>3. \A k \in 1 .. Len(words) : words[k] = WordAt(String, 4 * (k - 1))
  BY <1>0 DEF IInv, Written
<1>4. CASE Len(String) % 4 = 0
  <2>1. words' = Append(words, ZeroWord)
    BY <1>4 DEF InsertEnd, String
  <2>2. Len(words') = Len(words) + 1 /\ words' \in Seq(Word)
    BY <1>1, <2>1, ZeroWordType
  <2>3. Len(String) = 4 * Len(words)
    BY <1>1, <1>2, <1>4
  <2>4. Len(words') = WordsInString(String)
    BY <1>1, <2>2, <2>3 DEF WordsInString
  <2>5. ASSUME NEW k \in 1 .. Len(words')
        PROVE  words'[k] = WordAt(String, 4 * (k - 1))
    <3>1. CASE k = Len(words')
      <4>1. words'[k] = ZeroWord
        BY <1>1, <2>1, <2>2, <3>1, ZeroWordType
      <4>2. 4 * (k - 1) = Len(String)
        BY <1>1, <2>2, <2>3, <3>1
      <4> QED BY <1>1, <4>1, <4>2, WordBehind
    <3>2. CASE k # Len(words')
      <4>1. k \in 1 .. Len(words)
        BY <1>1, <2>2, <3>2
      <4>2. words'[k] = words[k]
        BY <1>1, <2>1, <4>1, ZeroWordType
      <4> QED BY <1>3, <4>1, <4>2
    <3> QED BY <3>1, <3>2
  <2>6. TypeOK'
    <3>1. argument' \in Arguments /\ done' \in BOOLEAN /\ i' \in Nat
      BY <1>0, Zenon DEF IInv, TypeOK
    <3> QED BY <2>2, <3>1, Zenon DEF TypeOK
  <2> QED BY <1>0, <1>2, <2>4, <2>5, <2>6 DEF IInv, Written
<1>5. CASE Len(String) % 4 # 0
  <2>1. words' = words
    BY <1>5 DEF InsertEnd, String
  <2>2. Len(words) = WordsInString(String)
    BY <1>1, <1>2, <1>5 DEF WordsInString
  <2>3. TypeOK'
    <3>1. argument' \in Arguments /\ done' \in BOOLEAN /\ i' \in Nat
      BY <1>0, Zenon DEF IInv, TypeOK
    <3> QED BY <1>1, <2>1, <3>1, Zenon DEF TypeOK
  <2> QED BY <1>0, <1>2, <1>3, <2>1, <2>2, <2>3 DEF IInv, Written
<1> QED BY <1>4, <1>5

\* A literal is written at once.
LEMMA PutLiteralStep ==
  ASSUME IInv, PutLiteral
  PROVE  IInv'
<1>0. /\ argument.type # "string" /\ words' = LiteralWords(argument)
      /\ done' = TRUE /\ argument' = argument /\ i' = i
  BY DEF PutLiteral
<1>1. argument \in Literals
  BY <1>0, ArgumentType DEF IInv
<1>2. LiteralWords(argument) \in Seq(Word)
  BY <1>1, LiteralWordsType
<1>3. TypeOK'
  BY <1>0, <1>2, Zenon DEF IInv, TypeOK
<1> QED BY <1>0, <1>3 DEF IInv, Written

\* Every step keeps the invariant.
LEMMA IInvNext == IInv /\ [Next]_vars => IInv'
<1> SUFFICES ASSUME IInv, [Next]_vars PROVE IInv'
  OBVIOUS
<1>1. CASE InsertWord
  BY <1>1, InsertWordStep
<1>2. CASE InsertEnd
  BY <1>2, InsertEndStep
<1>3. CASE PutLiteral
  BY <1>3, PutLiteralStep
<1>4. CASE UNCHANGED vars
  BY <1>4 DEF vars, IInv, TypeOK, Written, String
<1> QED BY <1>1, <1>2, <1>3, <1>4 DEF Next

\* At every step the words written so far are those of the bytes before the
\* place where InsertString is.
THEOREM Invariance == Spec => []IInv
<1>1. Init => IInv
  BY IInvInit
<1>2. IInv /\ [Next]_vars => IInv'
  BY IInvNext
<1> QED BY <1>1, <1>2, PTL DEF Spec

\* Every word written has four bytes, whatever the string or the literal.
THEOREM Typed == Spec => []TypeOK
<1>1. IInv => TypeOK
  BY DEF IInv
<1> QED BY <1>1, Invariance, PTL

-----------------------------------------------------------------------------
(* Strings.                                                                *)

\* By the invariant a string never takes more words than were reserved.
LEMMA FitsStep == IInv => StringFits
<1> SUFFICES ASSUME IInv, argument.type = "string"
             PROVE  /\ Len(words) =< WordsInString(String)
                    /\ done => Len(words) = WordsInString(String)
  BY DEF StringFits, String
<1>1. String \in Seq(Byte) /\ Len(String) \in Nat /\ Len(words) \in Nat
      /\ done \in BOOLEAN
  BY ArgumentType DEF IInv, TypeOK
<1>2. ~done => 4 * Len(words) =< Len(String) + 3
  BY DEF IInv, Written
<1>3. ~done => Len(words) =< WordsInString(String)
  BY <1>1, <1>2 DEF WordsInString
<1>4. done => Len(words) = WordsInString(String)
  BY DEF IInv, Written
<1>5. WordsInString(String) \in Nat
  BY <1>1 DEF WordsInString
<1> QED BY <1>1, <1>3, <1>4, <1>5

\* A string of any length takes the words that were reserved for it.
THEOREM Fits == Spec => []StringFits
BY FitsStep, Invariance, PTL

\* char is unsigned, or no byte of a string is negative: ASCII.
Plain == \A string \in Strings : \A n \in DOMAIN string :
           ~(SignedChar /\ string[n] >= Negative)

\* By the invariant the words hold the bytes of the string and a zero behind
\* them.
LEMMA ReadsBackStep ==
  ASSUME Plain, IInv
  PROVE  StringReadsBack
<1> SUFFICES ASSUME done, argument.type = "string"
             PROVE  /\ 4 * Len(words) > Len(String)
                    /\ \A n \in 1 .. 4 * Len(words) : ByteAt(n) = Read(String, n - 1)
  BY DEF StringReadsBack, String
<1>1. String \in Seq(Byte) /\ Len(String) \in Nat /\ Len(words) \in Nat
  BY ArgumentType DEF IInv, TypeOK
<1>2. Len(words) = WordsInString(String)
  BY DEF IInv, Written
<1>3. 4 * Len(words) > Len(String)
  BY <1>1, <1>2 DEF WordsInString
<1>4. \A n \in DOMAIN String : ~(SignedChar /\ String[n] >= Negative)
  <2>1. CASE argument \in {StringArgument(string) : string \in Strings}
    <3>1. PICK string \in Strings : argument = StringArgument(string)
      BY <2>1
    <3> QED BY <3>1, Plain DEF Plain, StringArgument, String
  <2>2. CASE argument \in Literals
    BY <2>2, LiteralType DEF LiteralTypes
  <2> QED BY <2>1, <2>2 DEF IInv, TypeOK, Arguments
<1>5. \A offset \in Nat : ~Extends(String, offset)
  <2> SUFFICES ASSUME NEW offset \in Nat, SignedChar, Read(String, offset) >= Negative
               PROVE  FALSE
    BY DEF Extends
  <2>1. CASE offset < Len(String)
    BY <1>1, <1>4, <2>1 DEF Read
  <2>2. CASE ~(offset < Len(String))
    BY <2>2, ByteType DEF Read
  <2> QED BY <2>1, <2>2
<1>6. ASSUME NEW n \in 1 .. 4 * Len(words)
      PROVE  ByteAt(n) = Read(String, n - 1)
  <2>1. PICK k \in 1 .. Len(words), j \in 1 .. 4 :
          k = ((n - 1) \div 4) + 1 /\ j = ((n - 1) % 4) + 1
    BY <1>1
  <2>2. ByteAt(n) = words[k][j]
    BY <2>1 DEF ByteAt
  <2>3. words[k] = WordAt(String, 4 * (k - 1))
    BY DEF IInv, Written
  <2>4. \A m \in 0 .. j - 2 : ~Extends(String, 4 * (k - 1) + m)
    BY <1>5
  <2>5. WordAt(String, 4 * (k - 1))[j] = Read(String, 4 * (k - 1) + j - 1)
    BY <2>4 DEF WordAt
  <2>6. 4 * (k - 1) + j - 1 = n - 1
    BY <2>1
  <2> QED BY <2>2, <2>3, <2>5, <2>6
<1> QED BY <1>3, <1>6

\* A string of any length whose bytes are ASCII, or any string where char is
\* unsigned, is read back as it was passed.
THEOREM ReadsBack ==
  ASSUME Plain
  PROVE  Spec => []StringReadsBack
<1>1. IInv => StringReadsBack
  BY Plain, ReadsBackStep
<1> QED BY <1>1, Invariance, PTL

-----------------------------------------------------------------------------
(* Literals.                                                               *)

\* Division with remainder determines both.
LEMMA DivUnique ==
  ASSUME NEW d \in Nat, d > 0, NEW q \in Int, NEW r \in Int, 0 =< r, r < d,
         NEW value \in Int, value = d * q + r
  PROVE  value \div d = q /\ value % d = r
<1>1. PICK p \in Int, s \in Int :
        /\ p = value \div d /\ s = value % d
        /\ value = d * p + s /\ 0 =< s /\ s < d
  OBVIOUS
<1>2. PICK e \in Int : e = q - p
  OBVIOUS
<1>3. d * e = s - r
  BY <1>1, <1>2
<1>4. ~(e >= 1)
  <2> SUFFICES ASSUME e >= 1 PROVE FALSE
    OBVIOUS
  <2>1. d * e >= d
    OBVIOUS
  <2> QED BY <1>1, <1>3, <2>1
<1>5. ~(e =< -1)
  <2> SUFFICES ASSUME e =< -1 PROVE FALSE
    OBVIOUS
  <2>1. d * e =< -d
    OBVIOUS
  <2> QED BY <1>1, <1>3, <2>1
<1>6. e = 0
  BY <1>4, <1>5
<1> QED BY <1>1, <1>2, <1>3, <1>6

\* Dividing twice is dividing by the product.
LEMMA DivTwice ==
  ASSUME NEW d \in Nat, d > 0, NEW e \in Nat, e > 0, NEW value \in Int
  PROVE  /\ value \div (d * e) = (value \div d) \div e
         /\ value % (d * e) = (value % d) + d * ((value \div d) % e)
<1>1. PICK q \in Int, l \in Int :
        /\ q = value \div d /\ l = value % d
        /\ value = d * q + l /\ 0 =< l /\ l =< d - 1
  OBVIOUS
<1>2. PICK w \in Int, h \in Int :
        /\ w = q \div e /\ h = q % e
        /\ q = e * w + h /\ 0 =< h /\ h =< e - 1
  OBVIOUS
<1>3. PICK r \in Int : r = l + d * h
  OBVIOUS
<1>4. d * e \in Nat /\ d * e > 0
  OBVIOUS
<1>5. value = (d * e) * w + r
  <2>1. d * q = d * (e * w) + d * h
    BY <1>2
  <2>2. d * (e * w) = (d * e) * w
    OBVIOUS
  <2> QED BY <1>1, <1>3, <2>1, <2>2
<1>6. 0 =< r /\ r < d * e
  <2>1. 0 =< d * h
    BY <1>2
  <2>2. d * h =< d * (e - 1)
    BY <1>2
  <2>3. d * (e - 1) = d * e - d
    OBVIOUS
  <2> QED BY <1>1, <1>3, <1>4, <2>1, <2>2, <2>3
<1>7. value \div (d * e) = w /\ value % (d * e) = r
  BY <1>4, <1>5, <1>6, DivUnique
<1> QED BY <1>1, <1>2, <1>3, <1>7

\* Taking a number apart into bytes and putting it together again.
LEMMA WordBack ==
  ASSUME NEW value \in Int
  PROVE  Unsigned(WordOf(value)) = value % WordSize
<1>1. Bytes \in Nat /\ Bytes > 0
  BY EncodingAssumption
<1>2. Bytes * Bytes \in Nat /\ Bytes * Bytes > 0
  BY <1>1
<1>3. Bytes * Bytes * Bytes \in Nat /\ Bytes * Bytes * Bytes > 0
  BY <1>1, <1>2
<1>4. PICK a \in Int, b \in Int, c \in Int :
        /\ a = value \div Bytes
        /\ b = value \div (Bytes * Bytes)
        /\ c = value \div (Bytes * Bytes * Bytes)
  BY <1>1, <1>2, <1>3, DivMod
<1>5. value % (Bytes * Bytes) = (value % Bytes) + Bytes * (a % Bytes)
  BY <1>1, <1>4, DivTwice
<1>6. value % (Bytes * Bytes * Bytes)
        = (value % (Bytes * Bytes)) + (Bytes * Bytes) * (b % Bytes)
  BY <1>1, <1>2, <1>4, DivTwice
<1>7. value % WordSize
        = (value % (Bytes * Bytes * Bytes)) + (Bytes * Bytes * Bytes) * (c % Bytes)
  BY <1>1, <1>3, <1>4, DivTwice DEF WordSize
<1>8. Unsigned(WordOf(value)) =
        (value % Bytes) + Bytes * ((a % Bytes) + Bytes * ((b % Bytes)
          + Bytes * (c % Bytes)))
  BY <1>4 DEF WordOf, Unsigned
<1>9. PICK v0 \in Int, v1 \in Int, v2 \in Int, v3 \in Int :
        v0 = value % Bytes /\ v1 = a % Bytes /\ v2 = b % Bytes /\ v3 = c % Bytes
  BY <1>1, DivMod
<1>10. v0 + Bytes * (v1 + Bytes * (v2 + Bytes * v3))
         = v0 + Bytes * v1 + (Bytes * Bytes) * v2 + (Bytes * Bytes * Bytes) * v3
  BY <1>1
<1> QED BY <1>5, <1>6, <1>7, <1>8, <1>9, <1>10

\* A signed number comes back from its value modulo the size of its type.
LEMMA SignedBack ==
  ASSUME NEW size \in Nat, size > 0,
         NEW value \in -(size \div 2) .. (size \div 2 - 1)
  PROVE  value = Signed(value % size, size)
<1>1. size \div 2 \in Nat /\ 2 * (size \div 2) =< size
  OBVIOUS
<1>2. CASE value >= 0
  <2>1. value % size = value
    BY <1>1, <1>2, DivUnique
  <2> QED BY <1>1, <1>2, <2>1 DEF Signed
<1>3. CASE value < 0
  <2>1. value = size * (-1) + (value + size) /\ 0 =< value + size /\ value + size < size
    BY <1>1, <1>3
  <2>2. value % size = value + size
    BY <2>1, DivUnique
  <2> QED BY <1>1, <1>3, <2>2 DEF Signed
<1> QED BY <1>2, <1>3

\* What is written for a literal, once it is.
LiteralWritten ==
  done /\ argument.type # "string" => words = LiteralWords(argument)

\* No literal is written at first.
LEMMA LiteralWrittenInit == Init => LiteralWritten
BY DEF Init, LiteralWritten

\* What is written of a literal stays.
LEMMA LiteralWrittenNext == LiteralWritten /\ [Next]_vars => LiteralWritten'
BY DEF LiteralWritten, Next, vars, InsertWord, InsertEnd, PutLiteral

\* The words of a literal give back its value.
LEMMA LiteralStep ==
  ASSUME TypeOK, LiteralWritten
  PROVE  LiteralReadsBack
<1> SUFFICES ASSUME done, argument.type # "string" PROVE LiteralReadsBack
  BY DEF LiteralReadsBack
<1> DEFINE value == argument.value
           size == Size(argument.type)
           low == Unsigned(words[1])
           bits == IF Is64Bit(argument.type) THEN low + WordSize * Unsigned(words[2])
                                             ELSE low
<1>1. argument \in Literals
  BY ArgumentType
<1>2. value \in Int /\ value \in ValuesOf(argument.type)
  BY <1>1, LiteralType, EncodingAssumption
<1>3. size \in Nat /\ size > 0
  <2>1. WordSize * WordSize \in Nat /\ WordSize * WordSize > 0
    BY WordSizeType
  <2> QED BY <2>1, WordSizeType DEF Size
<1>4. low = value % WordSize
  BY <1>2, WordBack DEF LiteralWritten, LiteralWords
<1>5. bits = value % size
  <2>1. CASE Is64Bit(argument.type)
    <3>1. words[2] = WordOf(value \div WordSize)
      BY <2>1 DEF LiteralWritten, LiteralWords
    <3>2. value \div WordSize \in Int
      BY <1>2, WordSizeType, DivMod
    <3>3. Unsigned(words[2]) = (value \div WordSize) % WordSize
      BY <3>1, <3>2, WordBack
    <3>4. value % (WordSize * WordSize)
            = (value % WordSize) + WordSize * ((value \div WordSize) % WordSize)
      BY <1>2, WordSizeType, DivTwice
    <3> QED BY <1>4, <2>1, <3>3, <3>4 DEF Size
  <2>2. CASE ~Is64Bit(argument.type)
    BY <1>4, <2>2 DEF Size
  <2> QED BY <2>1, <2>2
<1>6. value = IF IsSigned(argument.type) THEN Signed(bits, size) ELSE bits
  <2>1. CASE IsSigned(argument.type)
    <3>1. value \in -(size \div 2) .. (size \div 2 - 1)
      BY <1>2, <2>1 DEF ValuesOf
    <3> QED BY <1>3, <1>5, <2>1, <3>1, SignedBack
  <2>2. CASE ~IsSigned(argument.type)
    <3>1. value \in 0 .. (size - 1)
      BY <1>2, <2>2 DEF ValuesOf
    <3> HIDE DEF value, size, bits
    <3>2. value = size * 0 + value
      BY <1>2, <1>3
    <3>3. value = value % size
      BY <1>2, <1>3, <3>1, <3>2, DivUnique
    <3> QED BY <1>5, <2>2, <3>3
  <2> QED BY <2>1, <2>2
<1> QED BY <1>6 DEF LiteralReadsBack

\* Every value of every alternative of Literal is read back from its words.
THEOREM LiteralsReadBack == Spec => []LiteralReadsBack
<1>1. TypeOK /\ LiteralWritten => LiteralReadsBack
  BY LiteralStep
<1> QED BY <1>1, Typed, LiteralWrittenInit, LiteralWrittenNext, PTL DEF Spec
=============================================================================
