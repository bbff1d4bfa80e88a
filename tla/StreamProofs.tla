---------------------------- MODULE StreamProofs ----------------------------
(***************************************************************************)
(* What the operators of Stream do to a stream, and what Reader reads back *)
(* of it: lemmas cited by the proofs about the components.                 *)
(***************************************************************************)
EXTENDS Reader, TLAPS, SequenceTheorems, WellFoundedInduction

\* Words are naturals, and opcodes and 0 are words.
LEMMA WordFacts == Word \subseteq Nat /\ 0 .. Half - 1 \subseteq Word /\ 0 \in Word
<1>1. Half \in Nat /\ Half > 1
  BY StreamAssumption
<1>2. Half =< Half * Half
  BY <1>1
<1> QED
  BY <1>1, <1>2 DEF Word

\* An opcode and a count, however large, make a word: the count is reduced to
\* the sixteen bits that are left for it.
LEMMA WithCountWord ==
  ASSUME NEW w \in 0 .. Half - 1, NEW n \in Nat
  PROVE  WithCount(w, n) \in Word
<1>1. Half \in Nat /\ Half > 1
  BY StreamAssumption
<1>2. n % Half \in 0 .. Half - 1
  BY <1>1
<1>3. \A m \in 0 .. Half - 1 : Half * m \in Nat /\ Half * m =< Half * (Half - 1)
  BY <1>1
<1>4. Half * (Half - 1) = Half * Half - Half
  BY <1>1
<1>5. /\ Half * (n % Half) \in Nat
      /\ Half * (n % Half) =< Half * Half - Half
  BY <1>2, <1>3, <1>4
<1> QED
  BY <1>1, <1>5 DEF WithCount, Word

\* Division undoes a multiplication with a smaller remainder.
LEMMA DivMod ==
  ASSUME NEW h \in Nat, h > 0, NEW a \in 0 .. h - 1, NEW c \in Nat
  PROVE  (a + h * c) % h = a /\ (a + h * c) \div h = c
<1> DEFINE x == a + h * c
           q == x \div h
           r == x % h
<1>1. h * c \in Nat /\ x \in Nat
  OBVIOUS
<1>2. q \in Nat /\ r \in 0 .. h - 1 /\ x = h * q + r
  BY <1>1
<1>3. h * c + a = h * q + r
  BY <1>1, <1>2
<1> HIDE DEF q, r, x
<1>4. \A m, n \in Nat : m < n => h * m + h =< h * n
  <2> SUFFICES ASSUME NEW m \in Nat, NEW n \in Nat, m < n PROVE h * m + h =< h * n
    OBVIOUS
  <2>1. PICK d \in Nat : n = m + 1 + d
    <3>1. n - m - 1 \in Nat /\ n = m + 1 + (n - m - 1)
      OBVIOUS
    <3> QED
      BY <3>1
  <2>2. h * n = h * m + h + h * d /\ h * d \in Nat /\ h * m \in Nat
    BY <2>1
  <2> QED
    BY <2>2
<1>5. h * q \in Nat
  BY <1>2
<1>6. ~ c < q
  BY <1>2, <1>3, <1>4, <1>5, <1>1
<1>7. ~ q < c
  BY <1>2, <1>3, <1>4, <1>5, <1>1
<1>8. q = c
  BY <1>2, <1>6, <1>7
<1>9. r = a
  BY <1>8, <1>3, <1>1, <1>2
<1> QED
  BY <1>8, <1>9 DEF q, r, x

\* A new stream is a stream.
LEMMA EmptyStreamType == EmptyStream \in StreamState
  BY StreamAssumption DEF EmptyStream, StreamState, Word

\* Growing the vector keeps the words it owned.
LEMMA ResizeFacts ==
  ASSUME NEW s \in StreamState, NEW m \in Nat, s.size < m
  PROVE  LET r == Resize(s, m)
         IN  /\ r \in StreamState
             /\ r.size = m
             /\ r.insert_index = s.insert_index
             /\ r.op_index = s.op_index
             /\ \A i \in Cells : i < s.size => r.words[i] = s.words[i]
<1> DEFINE grown == [i \in Cells |-> IF i \in s.size .. (m - 1)
                                    THEN 0 ELSE s.words[i]]
<1>1. 0 \in Word
  BY StreamAssumption DEF Word
<1>2. /\ s.words \in [Cells -> Word] /\ s.size \in Nat
      /\ s.insert_index \in Nat /\ s.op_index \in Nat
  BY DEF StreamState
<1>3. grown \in [Cells -> Word]
  BY <1>1, <1>2
<1>4. \A i \in Cells : i < s.size => grown[i] = s.words[i]
  BY <1>2 DEF Cells
<1>5. Resize(s, m) = [s EXCEPT !.words = grown, !.size = m]
  BY DEF Resize
<1> HIDE DEF grown
<1>6. /\ Resize(s, m) \in StreamState
      /\ Resize(s, m).words = grown /\ Resize(s, m).size = m
      /\ Resize(s, m).insert_index = s.insert_index
      /\ Resize(s, m).op_index = s.op_index
  BY <1>2, <1>3, <1>5 DEF StreamState
<1> QED
  BY <1>4, <1>6

\* Reserve leaves every owned word alone and makes sure of the room asked for.
LEMMA ReserveFacts ==
  ASSUME NEW s \in StreamState, NEW n \in Nat,
         s.size =< Cap, s.insert_index + n =< Cap
  PROVE  LET r == Reserve(s, n)
         IN  /\ r \in StreamState
             /\ r.insert_index = s.insert_index
             /\ r.op_index = s.op_index
             /\ r.size >= s.size /\ r.size =< Cap
             /\ r.insert_index + n =< r.size
             /\ \A i \in Cells : i < s.size => r.words[i] = s.words[i]
<1>1. s.size \in Nat /\ s.insert_index + n \in Nat
  BY DEF StreamState
<1>2. CASE s.insert_index + n =< s.size
  BY <1>1, <1>2 DEF Reserve
<1>3. CASE s.size < s.insert_index + n
  <2>1. Reserve(s, n) = Resize(s, s.insert_index + n)
    BY <1>1, <1>3 DEF Reserve
  <2> QED
    BY <2>1, <1>1, <1>3, ResizeFacts
<1> QED
  BY <1>1, <1>2, <1>3

\* Put writes its words from insert_index on and nothing else.
LEMMA PutFacts ==
  ASSUME NEW s \in StreamState, NEW ws \in Seq(Word)
  PROVE  LET p == Put(s, ws)
         IN  /\ p \in StreamState
             /\ p.insert_index = s.insert_index + Len(ws)
             /\ p.op_index = s.op_index
             /\ p.size = s.size
             /\ \A i \in Cells : i < s.insert_index => p.words[i] = s.words[i]
             /\ \A j \in 1 .. Len(ws) :
                  s.insert_index + j - 1 \in Cells =>
                    p.words[s.insert_index + j - 1] = ws[j]
<1> DEFINE next == s.insert_index + Len(ws)
           p == Put(s, ws)
<1>1. Len(ws) \in Nat /\ \A j \in 1 .. Len(ws) : ws[j] \in Word
  OBVIOUS
<1>2. s.words \in [Cells -> Word] /\ s.insert_index \in Nat /\ next \in Nat
  BY <1>1 DEF StreamState
<1>3. \A i \in Cells : i \in s.insert_index .. (next - 1) =>
                         i - s.insert_index + 1 \in 1 .. Len(ws)
  BY <1>1, <1>2 DEF Cells
<1>4. Stored(s, ws) \in [Cells -> Word]
  BY <1>1, <1>2, <1>3 DEF Stored
<1>5. \A i \in Cells : i < s.insert_index => Stored(s, ws)[i] = s.words[i]
  BY <1>1, <1>2 DEF Stored, Cells
<1>6. \A j \in 1 .. Len(ws) :
        s.insert_index + j - 1 \in Cells =>
          Stored(s, ws)[s.insert_index + j - 1] = ws[j]
  <2>1. ASSUME NEW i \in Cells, NEW j \in 1 .. Len(ws), i = s.insert_index + j - 1
        PROVE  Stored(s, ws)[i] = ws[j]
    <3>1. /\ i \in s.insert_index .. (s.insert_index + Len(ws) - 1)
          /\ i - s.insert_index + 1 = j
      BY <2>1, <1>1, <1>2
    <3> QED
      BY <3>1 DEF Stored
  <2> QED
    BY <2>1, Zenon
<1>7. p = [s EXCEPT !.words = Stored(s, ws), !.insert_index = next]
  BY DEF Put
<1> HIDE DEF p, next
<1>8. /\ p \in StreamState /\ p.words = Stored(s, ws) /\ p.size = s.size
      /\ p.insert_index = next /\ p.op_index = s.op_index
  BY <1>2, <1>4, <1>7 DEF StreamState
<1> QED
  BY <1>5, <1>6, <1>8 DEF p, next

\* BeginOp is a Put that remembers where it started.
LEMMA BeginOpFacts ==
  ASSUME NEW s \in StreamState, NEW ws \in Seq(Word)
  PROVE  LET b == BeginOp(s, ws)
         IN  /\ b \in StreamState
             /\ b.insert_index = s.insert_index + Len(ws)
             /\ b.op_index = s.insert_index
             /\ b.size = s.size
             /\ \A i \in Cells : i < s.insert_index => b.words[i] = s.words[i]
             /\ \A j \in 1 .. Len(ws) :
                  s.insert_index + j - 1 \in Cells =>
                    b.words[s.insert_index + j - 1] = ws[j]
<1> DEFINE p == Put(s, ws)
           b == BeginOp(s, ws)
<1>1. b = [p EXCEPT !.op_index = s.insert_index]
  BY DEF BeginOp
<1>2. p \in StreamState /\ s.insert_index \in Nat
  BY PutFacts DEF StreamState
<1>3. /\ b \in StreamState /\ b.op_index = s.insert_index
      /\ b.words = p.words /\ b.size = p.size /\ b.insert_index = p.insert_index
  BY <1>1, <1>2 DEF StreamState
<1> HIDE DEF p, b
<1> QED
  BY <1>3, PutFacts DEF p, b

\* EndOp changes the first word of the instruction only.
LEMMA EndOpFacts ==
  ASSUME NEW s \in StreamState, s.op_index \in Cells,
         s.op_index =< s.insert_index, s.words[s.op_index] < Half
  PROVE  LET e == EndOp(s)
         IN  /\ e \in StreamState
             /\ e.insert_index = s.insert_index
             /\ e.op_index = s.op_index
             /\ e.size = s.size
             /\ e.words[s.op_index] =
                  WithCount(s.words[s.op_index], s.insert_index - s.op_index)
             /\ \A i \in Cells : i # s.op_index => e.words[i] = s.words[i]
<1>1. s.insert_index - s.op_index \in Nat
  BY DEF StreamState
<1>2. s.words[s.op_index] \in 0 .. Half - 1
  BY StreamAssumption DEF StreamState, Word
<1>3. WithCount(s.words[s.op_index], s.insert_index - s.op_index) \in Word
  BY <1>1, <1>2, WithCountWord
<1> QED
  BY <1>3 DEF EndOp, StreamState

\* The size Reserve leaves.
LEMMA ReserveSize ==
  ASSUME NEW s \in StreamState, NEW n \in Nat
  PROVE  Reserve(s, n).size = IF s.insert_index + n =< s.size THEN s.size
                              ELSE s.insert_index + n
  BY DEF Reserve, Resize, StreamState

\* The stream e is s with an instruction of n words after those it had, the
\* first of which has the count.
Appended(s, reserved, word, n, e) ==
  /\ e \in StreamState
  /\ e.insert_index = s.insert_index + n
  /\ e.size = (IF s.insert_index + reserved =< s.size THEN s.size
              ELSE s.insert_index + reserved)
  /\ e.insert_index =< e.size /\ e.size =< Cap
  /\ \A i \in Cells : i < s.insert_index => e.words[i] = s.words[i]
  /\ e.words[s.insert_index] = WithCount(word, n)

\* A whole instruction that fits what it reserves.
LEMMA EmitFacts ==
  ASSUME NEW s \in StreamState, s.insert_index =< s.size, s.size =< Cap,
         NEW reserved \in Nat, NEW head \in Seq(Word), NEW operands \in Seq(Word),
         Len(head) > 0, head[1] < Half,
         HasRoom(s, reserved, Len(head) + Len(operands)),
         Len(head) + Len(operands) =< reserved
  PROVE  Appended(s, reserved, head[1], Len(head) + Len(operands),
                  EndOp(Put(BeginOp(Reserve(s, reserved), head), operands)))
<1> DEFINE r == Reserve(s, reserved)
           b == BeginOp(r, head)
           p == Put(b, operands)
           e == EndOp(p)
           start == s.insert_index
           n == Len(head) + Len(operands)
<1>1. /\ start \in Nat /\ s.size \in Nat /\ Cap \in Nat
      /\ Len(head) \in Nat /\ Len(operands) \in Nat /\ n \in Nat /\ n > 0
      /\ start + reserved =< Cap /\ start + n =< Cap
  BY StreamAssumption DEF StreamState, HasRoom
<1>2. /\ r \in StreamState /\ r.insert_index = start
      /\ r.size >= s.size /\ r.size =< Cap /\ start + reserved =< r.size
      /\ \A i \in Cells : i < s.size => r.words[i] = s.words[i]
  BY <1>1, ReserveFacts
<1>3. /\ r.size = (IF start + reserved =< s.size THEN s.size ELSE start + reserved)
      /\ r.size \in Nat
  <2>1. r.size = (IF start + reserved =< s.size THEN s.size ELSE start + reserved)
    BY ReserveSize
  <2> HIDE DEF r, start
  <2> QED
    BY <2>1, <1>1
<1> HIDE DEF r
<1>4. /\ b \in StreamState /\ b.insert_index = start + Len(head)
      /\ b.op_index = start /\ b.size = r.size
      /\ \A i \in Cells : i < start => b.words[i] = r.words[i]
      /\ start \in Cells => b.words[start] = head[1]
  <2>1. /\ b \in StreamState
        /\ b.insert_index = r.insert_index + Len(head)
        /\ b.op_index = r.insert_index /\ b.size = r.size
        /\ \A i \in Cells : i < r.insert_index => b.words[i] = r.words[i]
        /\ \A j \in 1 .. Len(head) :
             r.insert_index + j - 1 \in Cells =>
               b.words[r.insert_index + j - 1] = head[j]
    BY <1>2, BeginOpFacts
  <2>2. 1 \in 1 .. Len(head) /\ start + 1 - 1 = start
    BY <1>1
  <2> QED
    BY <2>1, <2>2, <1>2
<1> HIDE DEF b
<1>5. /\ p \in StreamState /\ p.insert_index = start + n
      /\ p.op_index = start /\ p.size = r.size
      /\ \A i \in Cells : i < start + Len(head) => p.words[i] = b.words[i]
  <2>1. /\ p \in StreamState
        /\ p.insert_index = b.insert_index + Len(operands)
        /\ p.op_index = b.op_index /\ p.size = b.size
        /\ \A i \in Cells : i < b.insert_index => p.words[i] = b.words[i]
    BY <1>4, PutFacts
  <2> QED
    BY <2>1, <1>1, <1>4
<1> HIDE DEF p
<1>6. start \in Cells /\ p.words[start] = head[1]
  <2>1. start \in Cells
    BY <1>1 DEF Cells
  <2>2. start < start + Len(head)
    BY <1>1
  <2> QED
    BY <2>1, <2>2, <1>4, <1>5
<1>7. /\ e \in StreamState /\ e.insert_index = p.insert_index /\ e.size = p.size
      /\ e.words[start] = WithCount(head[1], p.insert_index - start)
      /\ \A i \in Cells : i # start => e.words[i] = p.words[i]
  <2>1. /\ p.op_index \in Cells /\ p.op_index =< p.insert_index
        /\ p.words[p.op_index] < Half
    BY <1>1, <1>5, <1>6
  <2> QED
    BY <2>1, <1>5, <1>6, EndOpFacts
<1> HIDE DEF e
<1>8. p.insert_index - start = n
  BY <1>1, <1>5
<1>9. \A i \in Cells : i < start => e.words[i] = s.words[i]
  <2> SUFFICES ASSUME NEW i \in Cells, i < start PROVE e.words[i] = s.words[i]
    OBVIOUS
  <2>1. i \in Nat /\ i < s.size /\ i < start + Len(head) /\ i # start
    BY <1>1 DEF Cells
  <2>2. e.words[i] = p.words[i] /\ p.words[i] = b.words[i]
    BY <2>1, <1>5, <1>7
  <2>3. b.words[i] = r.words[i] /\ r.words[i] = s.words[i]
    BY <2>1, <1>2, <1>4
  <2> QED
    BY <2>2, <2>3
<1>10. e.insert_index =< e.size /\ e.size =< Cap
  <2>1. start + n =< start + reserved
    BY <1>1
  <2> QED
    BY <2>1, <1>1, <1>2, <1>3, <1>5, <1>7
<1> QED
  <2>1. Appended(s, reserved, head[1], n, e)
    BY <1>1, <1>3, <1>5, <1>7, <1>8, <1>9, <1>10 DEF Appended
  <2> QED
    BY <2>1 DEF e, p, b, r

\* SetValue replaces one word.
LEMMA SetValueFacts ==
  ASSUME NEW s \in StreamState, NEW index \in Cells, NEW value \in Word
  PROVE  LET v == SetValue(s, index, value)
         IN  /\ v \in StreamState
             /\ v.insert_index = s.insert_index
             /\ v.size = s.size
             /\ v.words[index] = value
             /\ \A i \in Cells : i # index => v.words[i] = s.words[i]
  BY DEF SetValue, StreamState

-----------------------------------------------------------------------------
(* Reading back.  ParseInstructions and FlattenSeq are recursive functions,  *)
(* chosen by their equations: they are shown to exist, and what they compute *)
(* by induction, which is here that over the members of a set.               *)

\* Induction, for the members of a set.
LEMMA SetInduction ==
  ASSUME NEW S, 0 \in S, \A n \in Nat : n \in S => n + 1 \in S
  PROVE  \A n \in Nat : n \in S
<1> DEFINE T == Nat \ S
           R == {ss \in Nat \X Nat : ss[1] < ss[2]}
<1> SUFFICES ASSUME T # {} PROVE FALSE
  OBVIOUS
<1>1. IsWellFoundedOn(R, Nat)
  BY NatLessThanWellFounded, Zenon DEF OpToRel
<1> HIDE DEF R
<1>2. PICK x \in T : \A y \in T : ~ (<<y, x>> \in R)
  BY <1>1, WFMin, Zenon
<1>3. x # 0 /\ x - 1 \in Nat /\ (x - 1) + 1 = x
  OBVIOUS
<1>4. x - 1 \notin S
  BY <1>3
<1>5. <<x - 1, x>> \in R
  BY <1>3 DEF R
<1> QED BY <1>2, <1>3, <1>4, <1>5

\* FlattenSeq: the function it is defined by.
FlatFrom(s, f, i) == IF i = 1 THEN s[i] ELSE f[i - 1] \o s[i]
IsFlat(f, s, n) == f = [i \in 1 .. n |-> FlatFrom(s, f, i)]

\* Such a function exists for every sequence of sequences.
LEMMA FlatExists ==
  ASSUME NEW s
  PROVE  \A n \in Nat : \E f : IsFlat(f, s, n)
<1> DEFINE K == {n \in Nat : \E f : IsFlat(f, s, n)}
<1>1. 0 \in K
  <2> DEFINE f == [i \in 1 .. 0 |-> 0]
  <2>1. f = [i \in 1 .. 0 |-> FlatFrom(s, f, i)]
    OBVIOUS
  <2> HIDE DEF f
  <2> QED BY <2>1 DEF IsFlat
<1>2. ASSUME NEW n \in Nat, n \in K PROVE n + 1 \in K
  <2>1. PICK f : IsFlat(f, s, n)
    BY <1>2
  <2> DEFINE g == [i \in 1 .. n + 1 |-> FlatFrom(s, f, i)]
  <2>2. \A i \in 1 .. n : g[i] = f[i]
    BY <2>1 DEF IsFlat
  <2>3. \A i \in 1 .. n + 1 : FlatFrom(s, f, i) = FlatFrom(s, g, i)
    <3> TAKE i \in 1 .. n + 1
    <3>1. i = 1 \/ i - 1 \in 1 .. n
      OBVIOUS
    <3> HIDE DEF g
    <3> QED BY <2>2, <3>1 DEF FlatFrom
  <2>4. g = [i \in 1 .. n + 1 |-> FlatFrom(s, g, i)]
    BY <2>3
  <2> HIDE DEF g
  <2>5. IsFlat(g, s, n + 1)
    BY <2>4 DEF IsFlat
  <2> QED BY <2>5
<1> HIDE DEF K
<1>3. \A n \in Nat : n \in K
  BY <1>1, <1>2, SetInduction
<1> QED BY <1>3 DEF K

\* Two of them agree as long as the sequences do.
LEMMA FlatUnique ==
  ASSUME NEW s, NEW t, NEW m \in Nat, NEW f, NEW g,
         \A i \in 1 .. m : s[i] = t[i], IsFlat(f, s, m), IsFlat(g, t, m + 1)
  PROVE  \A i \in 1 .. m : f[i] = g[i]
<1> DEFINE K == {k \in Nat : k \in 1 .. m => f[k] = g[k]}
<1>1. 0 \in K
  OBVIOUS
<1>2. ASSUME NEW k \in Nat, k \in K PROVE k + 1 \in K
  <2> SUFFICES ASSUME k + 1 \in 1 .. m PROVE f[k + 1] = g[k + 1]
    OBVIOUS
  <2>1. k + 1 \in 1 .. m + 1
    OBVIOUS
  <2>2. f[k + 1] = FlatFrom(s, f, k + 1) /\ g[k + 1] = FlatFrom(t, g, k + 1)
    BY <2>1 DEF IsFlat
  <2>3. k + 1 = 1 \/ (k \in 1 .. m /\ (k + 1) - 1 = k)
    OBVIOUS
  <2>4. s[k + 1] = t[k + 1]
    OBVIOUS
  <2>5. k \in 1 .. m => f[k] = g[k]
    BY <1>2
  <2> QED BY <2>2, <2>3, <2>4, <2>5 DEF FlatFrom
<1> HIDE DEF K
<1>3. \A k \in Nat : k \in K
  BY <1>1, <1>2, SetInduction
<1> QED BY <1>3 DEF K

\* The last value of such a function is the concatenation.
LEMMA FlattenIs ==
  ASSUME NEW s, Len(s) \in Nat, Len(s) # 0
  PROVE  \E f : IsFlat(f, s, Len(s)) /\ FlattenSeq(s) = f[Len(s)]
<1> DEFINE f == CHOOSE f : f = [i \in 1 .. Len(s) |-> IF i = 1 THEN s[i] ELSE f[i - 1] \o s[i]]
<1>1. FlattenSeq(s) = f[Len(s)]
  BY DEF FlattenSeq
<1>2. \E g : g = [i \in 1 .. Len(s) |-> IF i = 1 THEN s[i] ELSE g[i - 1] \o s[i]]
  BY FlatExists DEF IsFlat, FlatFrom
<1>3. f = [i \in 1 .. Len(s) |-> IF i = 1 THEN s[i] ELSE f[i - 1] \o s[i]]
  BY <1>2
<1> HIDE DEF f
<1>4. IsFlat(f, s, Len(s))
  BY <1>3 DEF IsFlat, FlatFrom
<1> QED BY <1>1, <1>4

\* No sequences concatenated are the empty sequence.
LEMMA FlattenEmpty == FlattenSeq(<<>>) = <<>>
  BY DEF FlattenSeq

\* One sequence concatenated is that sequence.
LEMMA FlattenOne ==
  ASSUME NEW t, Len(t) = 1
  PROVE  FlattenSeq(t) = t[1]
<1>0. Len(t) \in Nat /\ Len(t) # 0
  OBVIOUS
<1>1. PICK g : IsFlat(g, t, Len(t)) /\ FlattenSeq(t) = g[Len(t)]
  BY <1>0, FlattenIs
<1>2. 1 \in 1 .. 1
  OBVIOUS
<1>3. g[1] = FlatFrom(t, g, 1)
  BY <1>1, <1>2 DEF IsFlat
<1> QED BY <1>1, <1>3 DEF FlatFrom

\* A sequence more at the end comes behind the concatenation of the others.
LEMMA FlattenStep ==
  ASSUME NEW s, NEW t, NEW n \in Nat, n # 0, Len(s) = n, Len(t) = n + 1,
         \A i \in 1 .. n : s[i] = t[i]
  PROVE  FlattenSeq(t) = FlattenSeq(s) \o t[n + 1]
<1>0. Len(s) \in Nat /\ Len(s) # 0 /\ Len(t) \in Nat /\ Len(t) # 0
  OBVIOUS
<1>1. PICK g : IsFlat(g, t, Len(t)) /\ FlattenSeq(t) = g[Len(t)]
  BY <1>0, FlattenIs
<1>2. PICK f : IsFlat(f, s, Len(s)) /\ FlattenSeq(s) = f[Len(s)]
  BY <1>0, FlattenIs
<1>3. IsFlat(f, s, n) /\ IsFlat(g, t, n + 1)
  BY <1>1, <1>2
<1>7. \A i \in 1 .. n : f[i] = g[i]
  BY <1>3, FlatUnique
<1>4. n + 1 \in 1 .. n + 1 /\ n \in 1 .. n /\ (n + 1) - 1 = n /\ n + 1 # 1
  OBVIOUS
<1>5. g[n + 1] = FlatFrom(t, g, n + 1)
  BY <1>1, <1>4 DEF IsFlat
<1>6. g[n + 1] = g[n] \o t[n + 1]
  BY <1>4, <1>5 DEF FlatFrom
<1> QED BY <1>1, <1>2, <1>7, <1>4, <1>6

\* Induction over sequences that grow at the end, for the members of a set.
LEMMA SeqInduction ==
  ASSUME NEW S, NEW T, <<>> \in T,
         \A s \in Seq(S), e \in S : s \in T => Append(s, e) \in T
  PROVE  \A s \in Seq(S) : s \in T
<1> DEFINE K == {n \in Nat : \A s \in Seq(S) : Len(s) = n => s \in T}
<1>1. 0 \in K
  <2>1. \A s \in Seq(S) : Len(s) = 0 => s = <<>>
    OBVIOUS
  <2> QED BY <2>1
<1>2. ASSUME NEW n \in Nat, n \in K PROVE n + 1 \in K
  <2> SUFFICES ASSUME NEW s \in Seq(S), Len(s) = n + 1 PROVE s \in T
    OBVIOUS
  <2>1. s # <<>>
    OBVIOUS
  <2>2. PICK b \in Seq(S), x \in S : s = Append(b, x)
    BY <2>1, SequenceEmptyOrAppend, Zenon
  <2>3. Len(b) = n
    BY <2>2, AppendProperties
  <2>4. b \in T
    BY <1>2, <2>3
  <2> QED BY <2>2, <2>4
<1> HIDE DEF K
<1>3. \A n \in Nat : n \in K
  BY <1>1, <1>2, SetInduction
<1> QED BY <1>3, LenProperties DEF K

\* Induction over sequences that grow at the front.
LEMMA ConsInduction ==
  ASSUME NEW S, NEW T, <<>> \in T,
         \A s \in Seq(S), e \in S : s \in T => <<e>> \o s \in T
  PROVE  \A s \in Seq(S) : s \in T
<1> DEFINE K == {n \in Nat : \A s \in Seq(S) : Len(s) = n => s \in T}
<1>1. 0 \in K
  <2>1. \A s \in Seq(S) : Len(s) = 0 => s = <<>>
    OBVIOUS
  <2> QED BY <2>1
<1>2. ASSUME NEW n \in Nat, n \in K PROVE n + 1 \in K
  <2> SUFFICES ASSUME NEW s \in Seq(S), Len(s) = n + 1 PROVE s \in T
    OBVIOUS
  <2>1. s # <<>> /\ 1 \in 1 .. Len(s) /\ Len(s) \in 1 .. Len(s)
    OBVIOUS
  <2>2. s = <<s[1]>> \o Tail(s)
    <3>1. SubSeq(s, 1, Len(s)) = <<s[1]>> \o SubSeq(s, 1 + 1, Len(s))
      BY <2>1, SubSeqRecursiveFirst
    <3>2. SubSeq(s, 1, Len(s)) = s
      BY SubSeqFull
    <3>3. Tail(s) = SubSeq(s, 2, Len(s))
      BY <2>1, TailIsSubSeq
    <3> QED BY <3>1, <3>2, <3>3
  <2>3. Tail(s) \in Seq(S) /\ Len(Tail(s)) = n /\ s[1] \in S
    BY <2>1, HeadTailProperties, ElementOfSeq
  <2>4. Tail(s) \in T
    BY <1>2, <2>3
  <2> QED BY <2>2, <2>3, <2>4
<1> HIDE DEF K
<1>3. \A n \in Nat : n \in K
  BY <1>1, <1>2, SetInduction
<1> QED BY <1>3, LenProperties DEF K

\* The same for Append.
LEMMA FlattenAppend ==
  ASSUME NEW S, NEW s \in Seq(Seq(S)), NEW x \in Seq(S)
  PROVE  FlattenSeq(Append(s, x)) = FlattenSeq(s) \o x
<1> DEFINE t == Append(s, x)
           n == Len(s)
<1>1. /\ n \in Nat /\ Len(t) = n + 1 /\ t[n + 1] = x
      /\ \A i \in 1 .. n : s[i] = t[i]
  OBVIOUS
<1>2. CASE n = 0
  <2>1. s = <<>>
    BY <1>2
  <2>2. FlattenSeq(s) \o x = x
    BY <2>1, FlattenEmpty
  <2>3. FlattenSeq(t) = x
    BY <1>1, <1>2, FlattenOne
  <2> QED BY <2>2, <2>3
<1>3. CASE n # 0
  BY <1>1, <1>3, FlattenStep
<1> QED BY <1>2, <1>3

\* The concatenation of sequences over a set is one.
LEMMA FlattenType ==
  ASSUME NEW S, NEW s \in Seq(Seq(S))
  PROVE  FlattenSeq(s) \in Seq(S)
<1> DEFINE T == {t \in Seq(Seq(S)) : FlattenSeq(t) \in Seq(S)}
<1>1. <<>> \in T
  <2>1. <<>> \in Seq(Seq(S)) /\ <<>> \in Seq(S)
    BY EmptySeq
  <2> QED BY <2>1, FlattenEmpty
<1>2. ASSUME NEW t \in Seq(Seq(S)), NEW x \in Seq(S), t \in T
      PROVE  Append(t, x) \in T
  <2>1. FlattenSeq(t) \in Seq(S)
    BY <1>2
  <2>2. FlattenSeq(t) \o x \in Seq(S)
    BY <2>1, ConcatProperties
  <2>3. FlattenSeq(Append(t, x)) = FlattenSeq(t) \o x
    BY FlattenAppend
  <2>4. Append(t, x) \in Seq(Seq(S))
    BY AppendProperties
  <2> QED BY <2>2, <2>3, <2>4
<1> HIDE DEF T
<1>3. \A t \in Seq(Seq(S)) : t \in T
  BY <1>1, <1>2, SeqInduction, Zenon
<1> QED BY <1>3 DEF T

\* Concatenation can be done in two parts.
LEMMA FlattenConcat ==
  ASSUME NEW S, NEW a \in Seq(Seq(S)), NEW b \in Seq(Seq(S))
  PROVE  FlattenSeq(a \o b) = FlattenSeq(a) \o FlattenSeq(b)
<1> DEFINE T == {t \in Seq(Seq(S)) : FlattenSeq(a \o t) = FlattenSeq(a) \o FlattenSeq(t)}
<1>0. FlattenSeq(a) \in Seq(S)
  BY FlattenType
<1>1. <<>> \in T
  <2>1. a \o <<>> = a /\ FlattenSeq(a) \o <<>> = FlattenSeq(a)
    BY <1>0, ConcatEmptySeq, Zenon
  <2>2. <<>> \in Seq(Seq(S))
    BY EmptySeq
  <2> QED BY <2>1, <2>2, FlattenEmpty
<1>2. ASSUME NEW t \in Seq(Seq(S)), NEW x \in Seq(S), t \in T
      PROVE  Append(t, x) \in T
  <2>1. FlattenSeq(a \o t) = FlattenSeq(a) \o FlattenSeq(t)
    BY <1>2
  <2> HIDE DEF T
  <2>2. a \o Append(t, x) = Append(a \o t, x) /\ a \o t \in Seq(Seq(S))
    <3>1. a \o Append(t, x) = Append(a \o t, x)
      OBVIOUS
    <3> QED BY <3>1, ConcatProperties
  <2>3. FlattenSeq(Append(a \o t, x)) = FlattenSeq(a \o t) \o x
    BY <2>2, FlattenAppend
  <2>4. FlattenSeq(Append(t, x)) = FlattenSeq(t) \o x /\ FlattenSeq(t) \in Seq(S)
    BY FlattenAppend, FlattenType
  <2>5. (FlattenSeq(a) \o FlattenSeq(t)) \o x = FlattenSeq(a) \o (FlattenSeq(t) \o x)
    <3>1. FlattenSeq(t) \in Seq(S)
      BY <2>4
    <3>2. PICK u, v : u = FlattenSeq(a) /\ v = FlattenSeq(t)
      OBVIOUS
    <3>3. u \in Seq(S) /\ v \in Seq(S)
      BY <1>0, <3>1, <3>2
    <3>4. (u \o v) \o x = u \o (v \o x)
      BY <3>3, ConcatAssociative, SMTT(60)
    <3> QED BY <3>2, <3>4
  <2>6. FlattenSeq(a \o Append(t, x)) = FlattenSeq(a) \o FlattenSeq(Append(t, x))
    BY <2>1, <2>2, <2>3, <2>4, <2>5, Zenon
  <2>7. Append(t, x) \in Seq(Seq(S))
    BY AppendProperties
  <2> QED BY <2>6, <2>7 DEF T
<1> HIDE DEF T
<1>3. \A t \in Seq(Seq(S)) : t \in T
  BY <1>1, <1>2, SeqInduction, Zenon
<1> QED BY <1>3 DEF T

\* The first sequence comes in front of the concatenation of the others.
LEMMA FlattenCons ==
  ASSUME NEW S, NEW x \in Seq(S), NEW s \in Seq(Seq(S))
  PROVE  FlattenSeq(<<x>> \o s) = x \o FlattenSeq(s)
<1>1. <<x>> \in Seq(Seq(S)) /\ Len(<<x>>) = 1 /\ <<x>>[1] = x
  OBVIOUS
<1>2. FlattenSeq(<<x>>) = x
  BY <1>1, FlattenOne
<1> QED BY <1>1, <1>2, FlattenConcat

\* The count of a word is a number.
LEMMA CountType == ASSUME NEW w \in Nat PROVE CountOf(w) \in Nat
  BY StreamAssumption DEF CountOf

\* ParseInstructions: the function it is defined by, from place k on.
FromAt(ws, f, i) ==
  IF i > Len(ws) THEN <<>>
  ELSE LET next == i + CountOf(ws[i])
       IN  IF next = i \/ next > Len(ws) + 1 THEN <<>>
           ELSE <<SubSeq(ws, i, next - 1)>> \o f[next]
IsFrom(f, ws, k) == f = [i \in k .. Len(ws) + 1 |-> FromAt(ws, f, i)]

\* Such a function exists, built from the end of the words.
LEMMA FromExists ==
  ASSUME NEW ws \in Seq(Nat)
  PROVE  \E f : IsFrom(f, ws, 1)
<1> DEFINE N == Len(ws) + 1
           K == {n \in Nat : n =< N => \E f : IsFrom(f, ws, N - n + 1)}
<1>0. Len(ws) \in Nat /\ N \in Nat /\ \A i \in 1 .. Len(ws) : ws[i] \in Nat
  OBVIOUS
<1>1. 0 \in K
  <2> DEFINE f == [i \in N + 1 .. N |-> 0]
  <2>1. f = [i \in N + 1 .. N |-> FromAt(ws, f, i)]
    <3>1. \A i \in N + 1 .. N : FALSE
      BY <1>0
    <3> HIDE DEF N
    <3> QED BY <3>1
  <2> HIDE DEF f
  <2>2. IsFrom(f, ws, N - 0 + 1)
    <3>1. N - 0 + 1 = N + 1
      BY <1>0
    <3> QED BY <2>1, <3>1 DEF IsFrom
  <2> QED BY <2>2
<1>2. ASSUME NEW n \in Nat, n \in K PROVE n + 1 \in K
  <2> SUFFICES ASSUME n + 1 =< N PROVE \E f : IsFrom(f, ws, N - (n + 1) + 1)
    OBVIOUS
  <2>0. n =< N
    BY <1>0
  <2>1. PICK f : IsFrom(f, ws, N - n + 1)
    BY <1>2, <2>0
  <2> DEFINE k == N - n
             g == [i \in k .. N |-> FromAt(ws, f, i)]
  <2>2. k \in 1 .. N /\ N - n + 1 = k + 1 /\ N - (n + 1) + 1 = k
    BY <1>0
  <2> HIDE DEF k
  <2>3. f = [i \in k + 1 .. N |-> FromAt(ws, f, i)]
    BY <2>1, <2>2 DEF IsFrom
  <2>4. \A j \in k + 1 .. N : j \in k .. N /\ g[j] = f[j]
    <3>1. \A j \in k + 1 .. N : j \in k .. N
      BY <2>2, <1>0
    <3>2. \A j \in k + 1 .. N : f[j] = FromAt(ws, f, j)
      BY <2>3
    <3>3. \A j \in k .. N : g[j] = FromAt(ws, f, j)
      OBVIOUS
    <3> QED BY <3>1, <3>2, <3>3
  <2> HIDE DEF g
  <2>5. \A i \in k .. N : FromAt(ws, f, i) = FromAt(ws, g, i)
    <3> SUFFICES ASSUME NEW i \in k .. N, i =< Len(ws),
                        i + CountOf(ws[i]) # i, ~ (i + CountOf(ws[i]) > Len(ws) + 1)
                 PROVE  f[i + CountOf(ws[i])] = g[i + CountOf(ws[i])]
      BY <1>0, <2>2 DEF FromAt
    <3>1. i \in 1 .. Len(ws) /\ CountOf(ws[i]) \in Nat
      <4>1. i \in 1 .. Len(ws)
        BY <1>0, <2>2
      <4>2. ws[i] \in Nat
        BY <1>0, <4>1
      <4> QED BY <4>1, <4>2, CountType
    <3>2. i + CountOf(ws[i]) \in k + 1 .. N
      BY <1>0, <2>2, <3>1
    <3> QED BY <3>2, <2>4
  <2>6. g = [i \in k .. N |-> FromAt(ws, g, i)]
    BY <2>5 DEF g
  <2>7. IsFrom(g, ws, k)
    BY <2>6 DEF IsFrom
  <2> QED BY <2>2, <2>7
<1> HIDE DEF K
<1>3. \A n \in Nat : n \in K
  BY <1>1, <1>2, SetInduction
<1>4. \E f : IsFrom(f, ws, N - N + 1)
  BY <1>3, <1>0 DEF K
<1> QED BY <1>0, <1>4

\* A function that reads ws from any place on.
Reading(f, ws) == \A i \in 1 .. Len(ws) + 1 : f[i] = FromAt(ws, f, i)

\* ParseInstructions is the value of such a function at the first place.
LEMMA ParseIs ==
  ASSUME NEW ws \in Seq(Nat)
  PROVE  \E f : ParseInstructions(ws) = f[1] /\ Reading(f, ws)
<1> DEFINE Body(f) == [i \in 1 .. Len(ws) + 1 |->
             IF i > Len(ws) THEN <<>>
             ELSE LET next == i + CountOf(ws[i])
                  IN  IF next = i \/ next > Len(ws) + 1 THEN <<>>
                      ELSE <<SubSeq(ws, i, next - 1)>> \o f[next]]
           from == CHOOSE f : f = Body(f)
<1>1. ParseInstructions(ws) = from[1]
  BY DEF ParseInstructions
<1>2. \E f : f = Body(f)
  BY FromExists DEF IsFrom, FromAt
<1>3. from = Body(from)
  BY <1>2
<1> HIDE DEF from
<1>4. Reading(from, ws)
  BY <1>3 DEF FromAt, Reading
<1> QED BY <1>1, <1>4

\* An instruction with its own length in its first word.
Counted == {w \in Seq(Nat) : Len(w) > 0 /\ CountOf(w[1]) = Len(w)}

\* The words of the second of two sequences.
LEMMA RightOf ==
  ASSUME NEW S, NEW a \in Seq(S), NEW b \in Seq(S)
  PROVE  /\ a \o b \in Seq(S) /\ Len(a \o b) = Len(a) + Len(b)
         /\ \A j \in 1 .. Len(b) : (a \o b)[Len(a) + j] = b[j]
<1>1. /\ a \o b \in Seq(S) /\ Len(a \o b) = Len(a) + Len(b)
      /\ \A i \in 1 .. Len(a) + Len(b) :
           (a \o b)[i] = (IF i <= Len(a) THEN a[i] ELSE b[i - Len(a)])
  BY ConcatProperties
<1>2. \A j \in 1 .. Len(b) : /\ Len(a) + j \in 1 .. Len(a) + Len(b)
                             /\ ~ (Len(a) + j <= Len(a)) /\ (Len(a) + j) - Len(a) = j
  OBVIOUS
<1> QED BY <1>1, <1>2

\* The words in the middle of three sequences.
LEMMA Middle ==
  ASSUME NEW S, NEW p \in Seq(S), NEW x \in Seq(S), NEW q \in Seq(S)
  PROVE  /\ p \o (x \o q) \in Seq(S)
         /\ Len(p \o (x \o q)) = Len(p) + Len(x) + Len(q)
         /\ \A j \in 1 .. Len(x) : (p \o (x \o q))[Len(p) + j] = x[j]
         /\ Len(x) > 0 => SubSeq(p \o (x \o q), Len(p) + 1, Len(p) + Len(x)) = x
<1>0. Len(p) \in Nat /\ Len(x) \in Nat /\ Len(q) \in Nat
  OBVIOUS
<1>1. PICK r : r = x \o q
  OBVIOUS
<1>2. r \in Seq(S) /\ Len(r) = Len(x) + Len(q) /\ \A j \in 1 .. Len(x) : r[j] = x[j]
  BY <1>1
<1>3. PICK w : w = p \o r
  OBVIOUS
<1>4. w \in Seq(S) /\ Len(w) = Len(p) + Len(r)
      /\ \A j \in 1 .. Len(r) : w[Len(p) + j] = r[j]
  <2>1. /\ p \o r \in Seq(S) /\ Len(p \o r) = Len(p) + Len(r)
        /\ \A j \in 1 .. Len(r) : (p \o r)[Len(p) + j] = r[j]
    <3>1. r \in Seq(S)
      BY <1>2
    <3> QED BY <3>1, RightOf
  <2> QED BY <2>1, <1>3, Zenon
<1>5. \A j \in 1 .. Len(x) : w[Len(p) + j] = x[j]
  BY <1>0, <1>2, <1>4
<1>6. ASSUME Len(x) > 0 PROVE SubSeq(w, Len(p) + 1, Len(p) + Len(x)) = x
  <2>1. \A i \in Len(p) + 1 .. Len(p) + Len(x) : w[i] \in S
    <3> TAKE i \in Len(p) + 1 .. Len(p) + Len(x)
    <3>1. i \in 1 .. Len(w)
      BY <1>0, <1>2, <1>4
    <3> QED BY <3>1, <1>4
  <2>2. PICK u : u = SubSeq(w, Len(p) + 1, Len(p) + Len(x))
    OBVIOUS
  <2>3. /\ u \in Seq(S)
        /\ Len(u) = Len(x)
        /\ \A i \in 1 .. Len(x) : u[i] = w[Len(p) + i]
    <3>1. Len(p) + 1 \in Int /\ Len(p) + Len(x) \in Int
      BY <1>0
    <3>2. /\ u \in Seq(S)
          /\ Len(u) = (IF Len(p) + 1 <= Len(p) + Len(x)
                       THEN Len(p) + Len(x) - (Len(p) + 1) + 1 ELSE 0)
          /\ \A i \in 1 .. Len(p) + Len(x) - (Len(p) + 1) + 1 :
               u[i] = w[(Len(p) + 1) + i - 1]
      BY <2>1, <2>2, <3>1, SubSeqProperties
    <3> QED BY <3>2, <1>0, <1>6
  <2>4. u = x
    BY <2>3, <1>5, SeqEqual
  <2> QED BY <2>2, <2>4
<1> QED BY <1>0, <1>1, <1>2, <1>3, <1>4, <1>5, <1>6

\* One step of reading.
LEMMA OneRead ==
  ASSUME NEW p \in Seq(Nat), NEW x \in Counted, NEW q \in Seq(Nat), NEW ws, NEW f,
         ws = p \o (x \o q), Reading(f, ws)
  PROVE  f[Len(p) + 1] = <<x>> \o f[Len(p) + Len(x) + 1]
<1>1. /\ x \in Seq(Nat) /\ Len(x) \in Nat /\ Len(x) > 0 /\ CountOf(x[1]) = Len(x)
      /\ Len(p) \in Nat /\ Len(q) \in Nat
  BY DEF Counted
<1>2. /\ Len(ws) = Len(p) + Len(x) + Len(q)
      /\ \A j \in 1 .. Len(x) : ws[Len(p) + j] = x[j]
      /\ SubSeq(ws, Len(p) + 1, Len(p) + Len(x)) = x
  BY <1>1, Middle
<1>3. ws[Len(p) + 1] = x[1]
  BY <1>1, <1>2
<1> DEFINE i == Len(p) + 1
           next == i + CountOf(ws[i])
<1>4. next = Len(p) + Len(x) + 1
  <2>1. CountOf(ws[i]) = Len(x)
    BY <1>1, <1>3
  <2> QED BY <2>1, <1>1
<1> HIDE DEF next
<1>5. i \in 1 .. Len(ws) + 1 /\ ~ (i > Len(ws)) /\ next # i /\ ~ (next > Len(ws) + 1)
        /\ next - 1 = Len(p) + Len(x)
  BY <1>1, <1>2, <1>4
<1>6. f[i] = <<SubSeq(ws, i, next - 1)>> \o f[next]
  BY <1>5 DEF FromAt, next, Reading
<1> QED BY <1>2, <1>4, <1>5, <1>6

\* The first of the instructions behind p can be counted to p.
LEMMA Regroup ==
  ASSUME NEW p \in Seq(Nat), NEW x \in Counted, NEW b \in Seq(Counted)
  PROVE  /\ FlattenSeq(b) \in Seq(Nat)
         /\ p \o x \in Seq(Nat) /\ Len(p \o x) = Len(p) + Len(x)
         /\ p \o FlattenSeq(<<x>> \o b) = p \o (x \o FlattenSeq(b))
         /\ p \o FlattenSeq(<<x>> \o b) = (p \o x) \o FlattenSeq(b)
<1>1. Counted \subseteq Seq(Nat) /\ x \in Seq(Nat)
  BY DEF Counted
<1>2. b \in Seq(Seq(Nat))
  BY <1>1, SeqMonotonic, Zenon
<1>3. PICK q : q = FlattenSeq(b)
  OBVIOUS
<1>4. q \in Seq(Nat) /\ FlattenSeq(<<x>> \o b) = x \o q
  BY <1>1, <1>2, <1>3, FlattenType, FlattenCons
<1>5. p \o x \in Seq(Nat) /\ Len(p \o x) = Len(p) + Len(x)
  BY <1>1, ConcatProperties
<1>6. (p \o x) \o q = p \o (x \o q)
  <2>1. \A u, v, w \in Seq(Nat) : (u \o v) \o w = u \o (v \o w)
    BY ConcatAssociative, SMTT(60)
  <2>2. q \in Seq(Nat)
    BY <1>4
  <2> QED BY <1>1, <2>1, <2>2, Zenon
<1> QED BY <1>3, <1>4, <1>5, <1>6

\* Instructions with their counts are read back as they are.
LEMMA ReadBack ==
  ASSUME NEW ins \in Seq(Counted)
  PROVE  ParseInstructions(FlattenSeq(ins)) = ins
<1> DEFINE ws == FlattenSeq(ins)
<1>0. Counted \subseteq Seq(Nat) /\ ins \in Seq(Seq(Nat)) /\ ws \in Seq(Nat)
  <2>1. Counted \subseteq Seq(Nat)
    BY DEF Counted
  <2>2. ins \in Seq(Seq(Nat))
    BY <2>1, SeqMonotonic, Zenon
  <2> QED BY <2>1, <2>2, FlattenType
<1> HIDE DEF ws
<1>1. PICK f : ParseInstructions(ws) = f[1] /\ Reading(f, ws)
  BY <1>0, ParseIs
<1> DEFINE T == {b \in Seq(Counted) : \A p \in Seq(Nat) :
                   ws = p \o FlattenSeq(b) => f[Len(p) + 1] = b}
<1>2. <<>> \in T
  <2> SUFFICES ASSUME NEW p \in Seq(Nat), ws = p \o FlattenSeq(<<>>) PROVE f[Len(p) + 1] = <<>>
    BY EmptySeq
  <2>1. ws = p
    BY FlattenEmpty, ConcatEmptySeq
  <2>2. Len(p) + 1 \in 1 .. Len(ws) + 1 /\ Len(p) + 1 > Len(ws)
    BY <2>1
  <2> QED BY <1>1, <2>2 DEF FromAt, Reading
<1>3. ASSUME NEW b \in Seq(Counted), NEW x \in Counted, b \in T PROVE <<x>> \o b \in T
  <2>0. <<x>> \o b \in Seq(Counted)
    OBVIOUS
  <2> SUFFICES ASSUME NEW p \in Seq(Nat), ws = p \o FlattenSeq(<<x>> \o b)
               PROVE  f[Len(p) + 1] = <<x>> \o b
    BY <2>0
  <2>1. PICK q : q = FlattenSeq(b)
    OBVIOUS
  <2>2. /\ q \in Seq(Nat) /\ p \o x \in Seq(Nat) /\ Len(p \o x) = Len(p) + Len(x)
        /\ ws = p \o (x \o q) /\ ws = (p \o x) \o q
    BY <2>1, Regroup
  <2>3. f[Len(p \o x) + 1] = b
    BY <2>1, <2>2, <1>3
  <2> HIDE DEF T
  <2>4. f[Len(p) + 1] = <<x>> \o f[Len(p) + Len(x) + 1]
    <3>1. q \in Seq(Nat) /\ ws = p \o (x \o q)
      BY <2>2
    <3> QED BY <1>1, <3>1, OneRead, Zenon
  <2> QED BY <2>2, <2>3, <2>4
<1> HIDE DEF T
<1>4. \A b \in Seq(Counted) : b \in T
  BY <1>2, <1>3, ConsInduction, Zenon
<1>5. ws = <<>> \o FlattenSeq(ins) /\ <<>> \in Seq(Nat) /\ Len(<<>>) + 1 = 1
  BY <1>0, ConcatEmptySeq DEF ws
<1>6. f[1] = ins
  BY <1>4, <1>5 DEF T
<1> QED BY <1>1, <1>6 DEF ws

\* Words that are instructions with their counts, one after the other.
Readable(ws) == \E ins \in Seq(Counted) : ws = FlattenSeq(ins)

\* Instructions with their counts are sequences of words, and so is what they
\* make one after the other.
LEMMA CountedWords ==
  /\ Counted \subseteq Seq(Nat)
  /\ \A ins \in Seq(Counted) : ins \in Seq(Seq(Nat)) /\ FlattenSeq(ins) \in Seq(Nat)
<1>1. Counted \subseteq Seq(Nat)
  BY DEF Counted
<1>2. \A ins \in Seq(Counted) : ins \in Seq(Seq(Nat))
  BY <1>1, SeqMonotonic, Zenon
<1> QED BY <1>1, <1>2, FlattenType

\* Such words are read to their end.
LEMMA ReadableReads ==
  ASSUME NEW ws, Readable(ws)
  PROVE  /\ ws \in Seq(Nat)
         /\ ParseInstructions(ws) \in Seq(Counted)
         /\ FlattenSeq(ParseInstructions(ws)) = ws
         /\ ReadsToEnd(ws)
<1>1. PICK ins \in Seq(Counted) : ws = FlattenSeq(ins)
  BY DEF Readable
<1>2. ParseInstructions(ws) = ins
  BY <1>1, ReadBack
<1> QED BY <1>1, <1>2, CountedWords DEF ReadsToEnd

\* What instructions with their counts make is readable, and what is read is
\* those instructions.
LEMMA ReadableFlatten ==
  ASSUME NEW ins \in Seq(Counted)
  PROVE  Readable(FlattenSeq(ins)) /\ ParseInstructions(FlattenSeq(ins)) = ins
  BY ReadBack DEF Readable

\* A stream without words is readable.
LEMMA ReadableEmpty == Readable(<<>>) /\ ParseInstructions(<<>>) = <<>>
<1>1. <<>> \in Seq(Counted)
  BY EmptySeq
<1> QED BY <1>1, ReadableFlatten, FlattenEmpty

\* Reading goes on where it stopped.
LEMMA ReadableConcat ==
  ASSUME NEW ws, NEW vs, Readable(ws), Readable(vs)
  PROVE  /\ Readable(ws \o vs)
         /\ ParseInstructions(ws \o vs) = ParseInstructions(ws) \o ParseInstructions(vs)
<1>1. PICK a : a = ParseInstructions(ws)
  OBVIOUS
<1>2. PICK b : b = ParseInstructions(vs)
  OBVIOUS
<1>3. a \in Seq(Counted) /\ b \in Seq(Counted) /\ ws = FlattenSeq(a) /\ vs = FlattenSeq(b)
  BY <1>1, <1>2, ReadableReads
<1>4. a \o b \in Seq(Counted)
  BY <1>3, ConcatProperties
<1>5. a \in Seq(Seq(Nat)) /\ b \in Seq(Seq(Nat))
  BY <1>3, CountedWords
<1>6. FlattenSeq(a \o b) = ws \o vs
  BY <1>3, <1>5, FlattenConcat
<1> QED BY <1>1, <1>2, <1>4, <1>6, ReadableFlatten

\* An instruction more in the stream is one more that is read.
LEMMA ReadableAppend ==
  ASSUME NEW ws, NEW w \in Counted, Readable(ws)
  PROVE  /\ Readable(ws \o w)
         /\ ParseInstructions(ws \o w) = Append(ParseInstructions(ws), w)
<1>1. PICK a : a = ParseInstructions(ws)
  OBVIOUS
<1>2. a \in Seq(Counted) /\ ws = FlattenSeq(a)
  BY <1>1, ReadableReads
<1>3. Append(a, w) \in Seq(Counted)
  BY <1>2, AppendProperties
<1>4. a \in Seq(Seq(Nat)) /\ w \in Seq(Nat)
  BY <1>2, CountedWords
<1>5. FlattenSeq(Append(a, w)) = ws \o w
  BY <1>2, <1>4, FlattenAppend
<1> QED BY <1>1, <1>3, <1>5, ReadableFlatten

\* One instruction.
LEMMA ReadableOne ==
  ASSUME NEW w \in Counted
  PROVE  Readable(w) /\ ParseInstructions(w) = <<w>>
<1>1. w \in Seq(Nat)
  BY CountedWords
<1>2. <<>> \o w = w
  BY <1>1, ConcatEmptySeq
<1>3. Append(<<>>, w) = <<w>>
  OBVIOUS
<1> QED BY <1>2, <1>3, ReadableEmpty, ReadableAppend

\* The two halves of a first word, as long as the count fits its half.
LEMMA HalvesOf ==
  ASSUME NEW opcode \in Nat, NEW n \in Nat, opcode < Half, n < Half
  PROVE  /\ WithCount(opcode, n) \in Nat
         /\ OpcodeOf(WithCount(opcode, n)) = opcode
         /\ CountOf(WithCount(opcode, n)) = n
<1>1. Half \in Nat /\ Half > 0 /\ opcode \in 0 .. Half - 1
  BY StreamAssumption
<1>2. n % Half = n
  BY <1>1
<1>3. WithCount(opcode, n) = opcode + Half * n
  BY <1>2 DEF WithCount
<1>4. opcode + Half * n \in Nat
  BY <1>1
<1>5. (opcode + Half * n) % Half = opcode /\ (opcode + Half * n) \div Half = n
  BY <1>1, DivMod
<1> QED BY <1>3, <1>4, <1>5 DEF OpcodeOf, CountOf

\* Places at which ws falls into instructions: the first word, the place behind
\* the last one, and none inside of an instruction.
Divides(B, ws) ==
  /\ B \subseteq 1 .. Len(ws) + 1
  /\ 1 \in B /\ Len(ws) + 1 \in B
  /\ \A i \in B : i =< Len(ws) =>
       /\ CountOf(ws[i]) > 0
       /\ i + CountOf(ws[i]) \in B
       /\ \A j \in B : j =< i \/ i + CountOf(ws[i]) =< j

\* Words with such places are read to their end.
LEMMA DividedReads ==
  ASSUME NEW ws \in Seq(Nat), NEW B, Divides(B, ws)
  PROVE  ReadsToEnd(ws)
<1>1. PICK f : ParseInstructions(ws) = f[1] /\ Reading(f, ws)
  BY ParseIs
<1>2. PICK N : N = Len(ws)
  OBVIOUS
<1>3. /\ N \in Nat /\ B \subseteq 1 .. N + 1 /\ 1 \in B
      /\ \A i \in B : i =< N => /\ CountOf(ws[i]) > 0
                                /\ i + CountOf(ws[i]) \in B
  BY <1>2 DEF Divides
<1> DEFINE Right(i) == f[i] \in Seq(Seq(Nat)) /\ FlattenSeq(f[i]) = SubSeq(ws, i, N)
           K == {n \in Nat : \A i \in B : N + 1 - i =< n => Right(i)}
<1>4. \A i \in B : f[i] = FromAt(ws, f, i)
  BY <1>1, <1>2, <1>3 DEF Reading
<1>5. 0 \in K
  <2> SUFFICES ASSUME NEW i \in B, N + 1 - i =< 0 PROVE Right(i)
    OBVIOUS
  <2>1. i = N + 1
    BY <1>3
  <2>2. f[i] = <<>>
    <3>1. f[i] = FromAt(ws, f, i)
      BY <1>4
    <3>2. i > Len(ws)
      BY <2>1, <1>2, <1>3
    <3> QED BY <3>1, <3>2 DEF FromAt
  <2>3. SubSeq(ws, i, N) = <<>>
    BY <2>1, <1>3, SubSeqEmpty
  <2> QED BY <2>2, <2>3, FlattenEmpty, EmptySeq
<1>6. ASSUME NEW n \in Nat, n \in K PROVE n + 1 \in K
  <2> SUFFICES ASSUME NEW i \in B, N + 1 - i =< n + 1 PROVE Right(i)
    OBVIOUS
  <2>0. \A j \in B : N + 1 - j =< n => Right(j)
    BY <1>6
  <2>1. i \in 1 .. N + 1
    BY <1>3
  <2> HIDE DEF K, Right
  <2>2. CASE i = N + 1
    <3>1. N + 1 - i =< n
      BY <2>2, <1>3
    <3> QED BY <3>1, <2>0
  <2>3. CASE i =< N
    <3>1. ws[i] \in Nat /\ i \in 1 .. N
      BY <2>1, <2>3, <1>2
    <3>2. PICK next : next = i + CountOf(ws[i])
      OBVIOUS
    <3>3. next \in B /\ next > i
      <4>1. CountOf(ws[i]) \in Nat /\ CountOf(ws[i]) > 0 /\ i + CountOf(ws[i]) \in B
        BY <3>1, <1>3, <2>3, CountType
      <4> QED BY <4>1, <3>1, <3>2
    <3>4. next \in i + 1 .. N + 1
      BY <3>3, <1>3
    <3>5. f[i] = <<SubSeq(ws, i, next - 1)>> \o f[next]
      <4>1. f[i] = FromAt(ws, f, i)
        BY <1>4
      <4>2. ~ (i > Len(ws)) /\ next # i /\ ~ (next > Len(ws) + 1)
        BY <1>2, <1>3, <2>1, <2>3, <3>4
      <4> QED BY <3>2, <4>1, <4>2 DEF FromAt
    <3>6. Right(next)
      <4>1. N + 1 - next =< n
        BY <1>3, <2>1, <3>4
      <4> QED BY <2>0, <3>3, <4>1
    <3>7. SubSeq(ws, i, next - 1) \in Seq(Nat)
      <4>1. \A k \in i .. next - 1 : ws[k] \in Nat
        <5> TAKE k \in i .. next - 1
        <5>1. k \in 1 .. Len(ws)
          BY <1>2, <2>1, <3>4, <1>3
        <5> QED BY <5>1
      <4>2. i \in Int /\ next - 1 \in Int
        BY <2>1, <3>4
      <4> QED BY <4>1, <4>2, SubSeqProperties
    <3>8. f[i] \in Seq(Seq(Nat))
      BY <3>5, <3>6, <3>7 DEF Right
    <3>9. FlattenSeq(f[i]) = SubSeq(ws, i, next - 1) \o SubSeq(ws, next, N)
      BY <3>5, <3>6, <3>7, FlattenCons DEF Right
    <3>10. SubSeq(ws, i, next - 1) \o SubSeq(ws, next, N) = SubSeq(ws, i, N)
      <4>1. PICK k : k = next - 1
        OBVIOUS
      <4>2. /\ i \in 1 .. Len(ws) + 1 /\ k \in i - 1 .. Len(ws) /\ N \in k .. Len(ws)
            /\ k + 1 = next
        BY <4>1, <1>2, <1>3, <2>1, <3>4
      <4>3. SubSeq(ws, i, k) \o SubSeq(ws, k + 1, N) = SubSeq(ws, i, N)
        BY <4>2, ConcatAdjacentSubSeq
      <4> QED BY <4>1, <4>2, <4>3
    <3> QED BY <3>8, <3>9, <3>10 DEF Right
  <2> QED BY <2>1, <2>2, <2>3, <1>3
<1> HIDE DEF K
<1>7. \A n \in Nat : n \in K
  BY <1>5, <1>6, SetInduction
<1>8. N + 1 - 1 =< N
  BY <1>3
<1>9. Right(1)
  BY <1>3, <1>7, <1>8 DEF K
<1>10. SubSeq(ws, 1, N) = ws
  BY <1>2, SubSeqFull
<1> QED BY <1>1, <1>9, <1>10 DEF ReadsToEnd

\* The words a stream shows.
LEMMA WordsFacts ==
  ASSUME NEW s \in StreamState, s.insert_index =< Cap
  PROVE  /\ Words(s) \in Seq(Nat) /\ Len(Words(s)) = s.insert_index
         /\ \A i \in 1 .. s.insert_index :
              Words(s)[i] = s.words[i - 1] /\ Words(s)[i] \in Word
<1>1. s.insert_index \in Nat /\ s.words \in [Cells -> Word] /\ Cap \in Nat
  BY StreamAssumption DEF StreamState
<1>2. \A i \in 1 .. s.insert_index : i - 1 \in Cells
  BY <1>1 DEF Cells
<1>3. \A i \in 1 .. s.insert_index : s.words[i - 1] \in Word /\ s.words[i - 1] \in Nat
  BY <1>1, <1>2, WordFacts
<1> QED
  BY <1>1, <1>3 DEF Words

\* What Words shows when an instruction is added.
LEMMA WordsGrow ==
  ASSUME NEW s \in StreamState, s.insert_index =< Cap,
         NEW e \in StreamState, e.insert_index =< Cap,
         NEW w \in Seq(Nat), e.insert_index = s.insert_index + Len(w),
         \A i \in 0 .. s.insert_index - 1 : e.words[i] = s.words[i],
         \A j \in 1 .. Len(w) : e.words[s.insert_index + j - 1] = w[j]
  PROVE  Words(e) = Words(s) \o w
<1>1. PICK ws : ws = Words(s)
  OBVIOUS
<1>2. PICK start : start = s.insert_index
  OBVIOUS
<1>3. /\ ws \in Seq(Nat) /\ Len(ws) = start
      /\ \A i \in 1 .. start : ws[i] = s.words[i - 1]
      /\ Words(e) \in Seq(Nat) /\ Len(Words(e)) = start + Len(w)
      /\ \A i \in 1 .. start + Len(w) : Words(e)[i] = e.words[i - 1]
      /\ start \in Nat /\ Len(w) \in Nat
  <2>1. Words(s) \in Seq(Nat) /\ Len(Words(s)) = start
        /\ \A i \in 1 .. start : Words(s)[i] = s.words[i - 1]
    BY <1>2, WordsFacts
  <2>2. Words(e) \in Seq(Nat) /\ Len(Words(e)) = start + Len(w)
        /\ \A i \in 1 .. start + Len(w) : Words(e)[i] = e.words[i - 1]
    BY <1>2, WordsFacts
  <2> QED BY <1>1, <1>2, <2>1, <2>2, LenProperties DEF StreamState
<1>4. /\ ws \o w \in Seq(Nat) /\ Len(ws \o w) = start + Len(w)
      /\ \A i \in 1 .. start + Len(w) :
           (ws \o w)[i] = IF i <= start THEN ws[i] ELSE w[i - start]
  BY <1>3, ConcatProperties
<1>5. \A i \in 1 .. start + Len(w) : Words(e)[i] = (ws \o w)[i]
  <2> TAKE i \in 1 .. start + Len(w)
  <2>1. Words(e)[i] = e.words[i - 1]
    BY <1>3
  <2>2. CASE i <= start
    <3>1. i \in 1 .. start /\ i - 1 \in 0 .. start - 1
      BY <1>3, <2>2
    <3>2. e.words[i - 1] = s.words[i - 1]
      BY <1>2, <3>1
    <3> QED BY <1>3, <1>4, <2>1, <2>2, <3>1, <3>2
  <2>3. CASE ~(i <= start)
    <3>1. PICK j : j = i - start
      OBVIOUS
    <3>2. j \in 1 .. Len(w) /\ start + j - 1 = i - 1
      BY <1>3, <2>3, <3>1
    <3>3. e.words[start + j - 1] = w[j]
      BY <1>2, <3>2
    <3> QED BY <1>4, <2>1, <2>3, <3>1, <3>2, <3>3
  <2> QED BY <2>2, <2>3
<1> HIDE DEF Words
<1>6. Words(e) = ws \o w
  BY <1>3, <1>4, <1>5, SeqEqual
<1> QED BY <1>1, <1>6

\* An undone one leaves what Words showed.
LEMMA WordsKept ==
  ASSUME NEW s \in StreamState, NEW e, e.insert_index = s.insert_index,
         \A i \in 0 .. s.insert_index - 1 : e.words[i] = s.words[i]
  PROVE  Words(e) = Words(s)
<1>1. \A j \in 1 .. s.insert_index : j - 1 \in 0 .. s.insert_index - 1
  BY DEF StreamState
<1> QED BY <1>1 DEF Words

\* An instruction more at the end makes a place more.
LEMMA DividesMore ==
  ASSUME NEW ws \in Seq(Nat), NEW vs \in Seq(Nat), NEW n \in Nat, n > 0,
         Len(vs) = Len(ws) + n, \A i \in 1 .. Len(ws) : vs[i] = ws[i],
         CountOf(vs[Len(ws) + 1]) = n, NEW B, Divides(B, ws)
  PROVE  Divides(B \cup {Len(vs) + 1}, vs)
<1>1. PICK l \in Nat : l = Len(ws)
  OBVIOUS
<1>2. /\ B \subseteq 1 .. l + 1 /\ 1 \in B /\ l + 1 \in B
      /\ \A i \in B : i =< l =>
           /\ CountOf(ws[i]) > 0 /\ i + CountOf(ws[i]) \in B
           /\ \A j \in B : j =< i \/ i + CountOf(ws[i]) =< j
  BY <1>1 DEF Divides
<1>3. Len(vs) = l + n /\ (\A i \in 1 .. l : vs[i] = ws[i]) /\ CountOf(vs[l + 1]) = n
  BY <1>1
<1> DEFINE C == B \cup {l + n + 1}
<1>4. C \subseteq 1 .. l + n + 1 /\ 1 \in C /\ l + n + 1 \in C
  BY <1>2
<1>5. ASSUME NEW i \in C, i =< l + n
      PROVE  /\ CountOf(vs[i]) > 0 /\ i + CountOf(vs[i]) \in C
             /\ \A j \in C : j =< i \/ i + CountOf(vs[i]) =< j
  <2>1. i \in B /\ i \in 1 .. l + 1
    BY <1>2, <1>5
  <2>2. CASE i = l + 1
    BY <2>2, <1>2, <1>3
  <2>3. CASE i =< l
    <3>1. vs[i] = ws[i]
      <4>1. i \in 1 .. l
        BY <2>1, <2>3
      <4> QED
        BY <4>1, <1>3
    <3>2. /\ CountOf(vs[i]) > 0 /\ i + CountOf(vs[i]) \in B
          /\ \A j \in B : j =< i \/ i + CountOf(vs[i]) =< j
      BY <3>1, <2>1, <2>3, <1>2
    <3>3. i + CountOf(vs[i]) \in 1 .. l + 1
      BY <3>2, <1>2, Zenon
    <3>4. i + CountOf(vs[i]) =< l + n + 1
      BY <3>3
    <3> QED
      BY <3>2, <3>4
  <2> QED
    BY <2>1, <2>2, <2>3
<1> QED
  BY <1>3, <1>4, <1>5 DEF Divides

\* Another word in the middle of an instruction leaves the places as they are.
LEMMA DividesAfterChange ==
  ASSUME NEW ws \in Seq(Nat), NEW vs \in Seq(Nat), Len(vs) = Len(ws),
         NEW c \in 1 .. Len(ws), \A i \in 1 .. Len(ws) : i # c => vs[i] = ws[i],
         NEW B, Divides(B, ws), NEW start \in B, start < c, c < start + CountOf(ws[start])
  PROVE  Divides(B, vs)
<1>1. PICK l \in Nat : l = Len(ws)
  OBVIOUS
<1>2. /\ B \subseteq 1 .. l + 1 /\ 1 \in B /\ l + 1 \in B
      /\ \A i \in B : i =< l =>
           /\ CountOf(ws[i]) > 0 /\ i + CountOf(ws[i]) \in B
           /\ \A j \in B : j =< i \/ i + CountOf(ws[i]) =< j
  BY <1>1 DEF Divides
<1>3. c \notin B
  <2>1. start =< l
    BY <1>1, <1>2
  <2>2. start + CountOf(ws[start]) \in B /\ \A j \in B : j =< start \/ start + CountOf(ws[start]) =< j
    BY <2>1, <1>2
  <2>3. start + CountOf(ws[start]) \in 1 .. l + 1 /\ start \in 1 .. l + 1
    BY <2>2, <1>2, Zenon
  <2> QED
    BY <2>2, <2>3, <1>1
<1>4. \A i \in B : i =< l => vs[i] = ws[i]
  <2> SUFFICES ASSUME NEW i \in B, i =< l PROVE vs[i] = ws[i]
    OBVIOUS
  <2>1. i \in 1 .. Len(ws) /\ i # c
    BY <1>1, <1>2, <1>3
  <2> QED
    BY <2>1
<1> QED
  BY <1>1, <1>2, <1>4 DEF Divides

-----------------------------------------------------------------------------
(* A whole instruction written to a stream, and read back.                 *)

\* The words of an instruction with the count that EndOp puts in.
Counting(ws) == [ws EXCEPT ![1] = WithCount(ws[1], Len(ws))]

\* With a count that fits its half, such words are one instruction to a reader.
LEMMA CountingFacts ==
  ASSUME NEW ws \in Seq(Word), Len(ws) \in 1 .. Half - 1, ws[1] < Half
  PROVE  /\ Counting(ws) \in Counted /\ Len(Counting(ws)) = Len(ws)
         /\ OpcodeOf(Counting(ws)[1]) = ws[1]
         /\ \A j \in 2 .. Len(ws) : Counting(ws)[j] = ws[j]
<1>1. PICK n : n = Len(ws)
  OBVIOUS
<1>2. /\ n \in Nat /\ n > 0 /\ n < Half /\ ws[1] \in Nat
      /\ \A j \in 1 .. n : ws[j] \in Nat
      /\ ws \in Seq(Nat)
  <2>0. n \in Nat /\ n > 0 /\ n < Half
    BY <1>1, StreamAssumption
  <2>1. \A j \in 1 .. n : ws[j] \in Word
    BY <1>1, ElementOfSeq
  <2>2. ws \in Seq(Nat)
    BY WordFacts, SeqMonotonic, Zenon
  <2>3. \A j \in 1 .. n : ws[j] \in Nat
    BY <2>1, WordFacts
  <2>4. ws[1] \in Nat
    BY <2>0, <2>3
  <2> QED BY <2>0, <2>2, <2>3, <2>4
<1>3. PICK first : first = WithCount(ws[1], n)
  OBVIOUS
<1>4. first \in Nat /\ OpcodeOf(first) = ws[1] /\ CountOf(first) = n
  BY <1>2, <1>3, HalvesOf
<1>5. Counting(ws) = [ws EXCEPT ![1] = first]
  BY <1>1, <1>3 DEF Counting
<1>6. PICK c : c = Counting(ws)
  OBVIOUS
<1>7. c \in Seq(Nat) /\ Len(c) = n /\ c[1] = first /\ \A j \in 2 .. n : c[j] = ws[j]
  <2>1. 1 \in 1 .. Len(ws)
    BY <1>1, <1>2
  <2>2. /\ c \in Seq(Nat) /\ Len(c) = Len(ws)
        /\ \A j \in 1 .. Len(ws) : c[j] = IF j = 1 THEN first ELSE ws[j]
    BY <1>2, <1>4, <1>5, <1>6, <2>1, ExceptSeq
  <2> QED BY <1>1, <1>2, <2>2
<1>8. c \in Counted
  BY <1>2, <1>4, <1>7 DEF Counted
<1> QED BY <1>1, <1>4, <1>6, <1>7, <1>8

\* What Words shows when an instruction has been written where the vector had
\* or got room for it.
LEMMA EmitWords ==
  ASSUME NEW s \in StreamState, s.insert_index =< s.size, s.size =< Cap,
         NEW reserved \in Nat, NEW head \in Seq(Word), NEW operands \in Seq(Word),
         Len(head) > 0, head[1] < Half,
         HasRoom(s, reserved, Len(head) + Len(operands)),
         Len(head) + Len(operands) =< reserved
  PROVE  Words(EndOp(Put(BeginOp(Reserve(s, reserved), head), operands)))
           = Words(s) \o Counting(head \o operands)
<1> DEFINE r == Reserve(s, reserved)
           b == BeginOp(r, head)
           p == Put(b, operands)
           e == EndOp(p)
<1>0. PICK start : start = s.insert_index
  OBVIOUS
<1>n. PICK n : n = Len(head) + Len(operands)
  OBVIOUS
<1>w. PICK ws : ws = head \o operands
  OBVIOUS
<1>1. /\ start \in Nat /\ s.size \in Nat /\ Cap \in Nat
      /\ Len(head) \in Nat /\ Len(operands) \in Nat /\ n \in Nat /\ n > 0
      /\ start + reserved =< Cap /\ start + n =< Cap /\ start =< s.size
  <2>1. start \in Nat /\ s.size \in Nat /\ start =< s.size
    BY <1>0 DEF StreamState
  <2>2. Len(head) \in Nat /\ Len(operands) \in Nat
    BY LenProperties
  <2>3. start + reserved =< Cap /\ start + n =< Cap
    BY <1>0, <1>n DEF HasRoom
  <2>4. n \in Nat /\ n > 0
    BY <1>n, <2>2
  <2> QED BY <2>1, <2>2, <2>3, <2>4, StreamAssumption
<1>2. /\ ws \in Seq(Word) /\ Len(ws) = n
      /\ \A j \in 1 .. n :
           ws[j] = IF j <= Len(head) THEN head[j] ELSE operands[j - Len(head)]
  BY <1>n, <1>w, ConcatProperties
<1>3. Appended(s, reserved, head[1], n, e)
  BY <1>n, EmitFacts
<1>4. r \in StreamState /\ r.insert_index = start
  BY <1>0, <1>1, ReserveFacts
<1> HIDE DEF r
<1>5. /\ b \in StreamState /\ b.insert_index = start + Len(head) /\ b.op_index = start
      /\ \A j \in 1 .. Len(head) :
           start + j - 1 \in Cells => b.words[start + j - 1] = head[j]
  <2>1. /\ b \in StreamState /\ b.insert_index = r.insert_index + Len(head)
        /\ b.op_index = r.insert_index
        /\ \A j \in 1 .. Len(head) :
             r.insert_index + j - 1 \in Cells =>
               b.words[r.insert_index + j - 1] = head[j]
    BY <1>4, BeginOpFacts
  <2> HIDE DEF b
  <2> QED BY <2>1, <1>4
<1> HIDE DEF b
<1>6. /\ p \in StreamState /\ p.op_index = start
      /\ \A i \in Cells : i < start + Len(head) => p.words[i] = b.words[i]
      /\ \A j \in 1 .. Len(operands) :
           start + Len(head) + j - 1 \in Cells =>
             p.words[start + Len(head) + j - 1] = operands[j]
  <2>1. /\ p \in StreamState /\ p.op_index = b.op_index
        /\ \A i \in Cells : i < b.insert_index => p.words[i] = b.words[i]
        /\ \A j \in 1 .. Len(operands) :
             b.insert_index + j - 1 \in Cells =>
               p.words[b.insert_index + j - 1] = operands[j]
    BY <1>5, PutFacts
  <2> HIDE DEF p
  <2> QED BY <2>1, <1>5
<1> HIDE DEF p
<1>7. \A j \in 1 .. n : start + j - 1 \in Cells
  <2> TAKE j \in 1 .. n
  <2>1. start + j - 1 \in Nat /\ start + j - 1 =< Cap - 1
    BY <1>1
  <2> QED BY <1>1, <2>1 DEF Cells
<1>8. \A j \in 1 .. n : p.words[start + j - 1] = ws[j]
  <2> TAKE j \in 1 .. n
  <2>1. CASE j <= Len(head)
    <3>1. j \in 1 .. Len(head) /\ start + j - 1 < start + Len(head)
      BY <1>1, <2>1
    <3> QED BY <1>2, <1>5, <1>6, <1>7, <2>1, <3>1
  <2>2. CASE ~(j <= Len(head))
    <3>1. PICK k : k = j - Len(head)
      OBVIOUS
    <3>2. k \in 1 .. Len(operands) /\ start + Len(head) + k - 1 = start + j - 1
      BY <1>1, <1>n, <2>2, <3>1
    <3>3. p.words[start + Len(head) + k - 1] = operands[k]
      BY <1>6, <1>7, <3>2
    <3> QED BY <1>2, <2>2, <3>1, <3>2, <3>3
  <2> QED BY <2>1, <2>2
<1>9. e = [p EXCEPT !.words[start] = e.words[start]]
  BY <1>6 DEF EndOp, StreamState
<1>10. \A i \in Cells : i # start => e.words[i] = p.words[i]
  BY <1>6 DEF EndOp, StreamState
<1> HIDE DEF e
<1>11. /\ e \in StreamState /\ e.insert_index = start + n /\ e.insert_index =< Cap
       /\ \A i \in 0 .. start - 1 : e.words[i] = s.words[i]
       /\ e.words[start] = WithCount(head[1], n)
  <2>1. \A i \in 0 .. start - 1 : i \in Cells /\ i < start
    BY <1>1 DEF Cells
  <2> QED BY <1>0, <1>1, <1>3, <2>1 DEF Appended
<1>12. PICK c : c = Counting(ws)
  OBVIOUS
<1>13. c \in Seq(Nat) /\ Len(c) = n
       /\ \A j \in 1 .. n : c[j] = IF j = 1 THEN WithCount(head[1], n) ELSE ws[j]
  <2>1. ws[1] = head[1] /\ 1 \in 1 .. Len(ws)
    BY <1>1, <1>2
  <2>2. c = [ws EXCEPT ![1] = WithCount(head[1], n)]
    BY <1>2, <1>12, <2>1 DEF Counting
  <2>3. WithCount(head[1], n) \in Word
    <3>1. 1 \in 1 .. Len(head)
      BY <1>1
    <3>2. head[1] \in Word
      BY <3>1, ElementOfSeq
    <3>3. head[1] \in Nat
      BY <3>2, WordFacts
    <3>4. head[1] \in 0 .. Half - 1
      BY <3>3, StreamAssumption
    <3> QED BY <1>1, <3>4, WithCountWord
  <2>4. /\ c \in Seq(Word) /\ Len(c) = Len(ws)
        /\ \A j \in 1 .. Len(ws) : c[j] = IF j = 1 THEN WithCount(head[1], n) ELSE ws[j]
    BY <1>2, <2>1, <2>2, <2>3, ExceptSeq
  <2>5. c \in Seq(Nat)
    BY <2>4, WordFacts, SeqMonotonic, Zenon
  <2> QED BY <1>2, <2>4, <2>5
<1>14. \A j \in 1 .. Len(c) : e.words[start + j - 1] = c[j]
  <2> TAKE j \in 1 .. Len(c)
  <2>1. j \in 1 .. n /\ (start + j - 1 = start <=> j = 1)
    BY <1>1, <1>13
  <2>2. CASE j = 1
    BY <1>11, <1>13, <2>1, <2>2
  <2>3. CASE j # 1
    <3>1. e.words[start + j - 1] = p.words[start + j - 1]
      BY <1>7, <1>10, <2>1, <2>3
    <3> QED BY <1>8, <1>13, <2>1, <2>3, <3>1
  <2> QED BY <2>2, <2>3
<1>15. s.insert_index =< Cap
  BY <1>0, <1>1
<1>16. Words(e) = Words(s) \o c
  BY <1>0, <1>11, <1>13, <1>14, <1>15, WordsGrow
<1> QED BY <1>12, <1>16, <1>w DEF e, p, b, r

-----------------------------------------------------------------------------
(* Several streams one after the other.                                    *)

\* The elements of t are those of the sequences of s, each of them once and in
\* their order: the n-th is the one at col[n] of the sequence at row[n].
Orders(row, col, s, t) ==
  /\ \A n \in DOMAIN t : /\ row[n] \in DOMAIN s
                         /\ col[n] \in DOMAIN s[row[n]]
                         /\ t[n] = s[row[n]][col[n]]
  /\ \A m, n \in DOMAIN t :
       m < n => row[m] < row[n] \/ (row[m] = row[n] /\ col[m] < col[n])
  /\ \A i \in DOMAIN s : \A j \in DOMAIN s[i] :
       \E n \in DOMAIN t : row[n] = i /\ col[n] = j

\* One sequence more.
LEMMA OrdersAppend ==
  ASSUME NEW S, NEW s \in Seq(Seq(S)), NEW x \in Seq(S), NEW t \in Seq(S),
         NEW row, NEW col, Orders(row, col, s, t)
  PROVE  \E r, c : Orders(r, c, Append(s, x), t \o x)
<1>1. PICK N \in Nat, k \in Nat, l \in Nat : N = Len(t) /\ k = Len(s) /\ l = Len(x)
  BY LenProperties
<1>2. PICK u : u = t \o x
  OBVIOUS
<1>3. PICK v : v = Append(s, x)
  OBVIOUS
<1>a. /\ \A i \in 1 .. N : i \in 1 .. N + l /\ i <= N
      /\ \A i \in 1 .. l : N + i \in 1 .. N + l /\ ~(N + i <= N) /\ (N + i) - N = i
      /\ \A n \in 1 .. N + l : (n \in 1 .. N \/ n - N \in 1 .. l) /\ n = N + (n - N)
      /\ \A i \in 1 .. k + 1 : i \in 1 .. k \/ i = k + 1
      /\ \A i \in 1 .. k : i \in 1 .. k + 1 /\ i < k + 1 /\ i # k + 1
      /\ k + 1 \in 1 .. k + 1
  OBVIOUS
<1>4. /\ DOMAIN t = 1 .. N /\ DOMAIN u = 1 .. N + l /\ DOMAIN x = 1 .. l
      /\ \A i \in 1 .. N : u[i] = t[i]
      /\ \A i \in 1 .. l : u[N + i] = x[i]
  <2>1. Len(u) = N + l /\ u \in Seq(S)
    BY <1>1, <1>2, ConcatProperties
  <2>2. \A i \in 1 .. N + l : u[i] = IF i <= N THEN t[i] ELSE x[i - N]
    BY <1>1, <1>2, ConcatProperties
  <2>5. \A i \in 1 .. N : u[i] = t[i]
    BY <1>a, <2>2
  <2>6. \A i \in 1 .. l : u[N + i] = x[i]
    BY <1>a, <2>2
  <2>7. DOMAIN u = 1 .. N + l
    BY <2>1, LenProperties
  <2> QED BY <1>1, <2>5, <2>6, <2>7, LenProperties
<1>5. /\ DOMAIN s = 1 .. k /\ DOMAIN v = 1 .. k + 1 /\ v[k + 1] = x
      /\ \A i \in 1 .. k : v[i] = s[i]
  BY <1>1, <1>3, AppendProperties, LenProperties
<1>6. PICK r : r = [n \in 1 .. N + l |-> IF n <= N THEN row[n] ELSE k + 1]
  OBVIOUS
<1>7. PICK c : c = [n \in 1 .. N + l |-> IF n <= N THEN col[n] ELSE n - N]
  OBVIOUS
<1>8. /\ \A n \in 1 .. N : r[n] = row[n] /\ c[n] = col[n]
      /\ \A i \in 1 .. l : r[N + i] = k + 1 /\ c[N + i] = i
  BY <1>a, <1>6, <1>7
<1>9. /\ \A n \in 1 .. N : /\ row[n] \in 1 .. k /\ col[n] \in DOMAIN s[row[n]]
                           /\ t[n] = s[row[n]][col[n]]
      /\ \A m, n \in 1 .. N :
           m < n => row[m] < row[n] \/ (row[m] = row[n] /\ col[m] < col[n])
      /\ \A i \in 1 .. k : \A j \in DOMAIN s[i] :
           \E n \in 1 .. N : row[n] = i /\ col[n] = j
  <2>0. DOMAIN t = 1 .. N /\ DOMAIN s = 1 .. k
    BY <1>4, <1>5
  <2>1. \A n \in 1 .. N : /\ row[n] \in 1 .. k /\ col[n] \in DOMAIN s[row[n]]
                          /\ t[n] = s[row[n]][col[n]]
    BY <2>0 DEF Orders
  <2>2. \A m, n \in 1 .. N :
          m < n => row[m] < row[n] \/ (row[m] = row[n] /\ col[m] < col[n])
    BY <2>0 DEF Orders
  <2>3. ASSUME NEW i \in 1 .. k, NEW j \in DOMAIN s[i]
        PROVE  \E n \in 1 .. N : row[n] = i /\ col[n] = j
    <3>1. i \in DOMAIN s
      BY <2>0
    <3>2. PICK n \in DOMAIN t : row[n] = i /\ col[n] = j
      BY <3>1 DEF Orders
    <3> QED BY <2>0, <3>2
  <2> QED BY <2>1, <2>2, <2>3
<1>10. ASSUME NEW n \in 1 .. N + l
       PROVE  r[n] \in 1 .. k + 1 /\ c[n] \in DOMAIN v[r[n]] /\ u[n] = v[r[n]][c[n]]
  <2>1. CASE n \in 1 .. N
    <3>1. /\ row[n] \in 1 .. k /\ col[n] \in DOMAIN s[row[n]]
          /\ t[n] = s[row[n]][col[n]]
      BY <1>9, <2>1
    <3>2. v[row[n]] = s[row[n]] /\ row[n] \in 1 .. k + 1
      BY <1>a, <1>5, <3>1
    <3>3. r[n] = row[n] /\ c[n] = col[n] /\ u[n] = t[n]
      BY <1>4, <1>8, <2>1
    <3> QED BY <3>1, <3>2, <3>3
  <2>2. CASE n \notin 1 .. N
    <3>1. PICK i \in 1 .. l : n = N + i
      BY <1>a, <2>2
    <3>2. r[n] = k + 1 /\ c[n] = i /\ u[n] = x[i]
      BY <1>4, <1>8, <3>1
    <3> QED BY <1>a, <1>4, <1>5, <3>2
  <2> QED BY <2>1, <2>2
<1>11. ASSUME NEW m \in 1 .. N + l, NEW n \in 1 .. N + l, m < n
       PROVE  r[m] < r[n] \/ (r[m] = r[n] /\ c[m] < c[n])
  <2>1. CASE n \in 1 .. N
    <3>1. m \in 1 .. N
      BY <1>11, <2>1
    <3> QED BY <1>8, <1>9, <1>11, <2>1, <3>1
  <2>2. CASE n \notin 1 .. N
    <3>1. PICK i \in 1 .. l : n = N + i
      BY <1>a, <2>2
    <3>2. r[n] = k + 1 /\ c[n] = i
      BY <1>8, <3>1
    <3>3. CASE m \in 1 .. N
      <4>1. r[m] \in 1 .. k
        BY <1>8, <1>9, <3>3
      <4> QED BY <1>a, <3>2, <4>1
    <3>4. CASE m \notin 1 .. N
      <4>1. PICK j \in 1 .. l : m = N + j
        BY <1>a, <3>4
      <4>2. r[m] = k + 1 /\ c[m] = j
        BY <1>8, <4>1
      <4>3. j < i
        BY <1>11, <3>1, <4>1
      <4> QED BY <3>2, <4>2, <4>3
    <3> QED BY <3>3, <3>4
  <2> QED BY <2>1, <2>2
<1>12. ASSUME NEW i \in 1 .. k + 1, NEW j \in DOMAIN v[i]
       PROVE  \E n \in 1 .. N + l : r[n] = i /\ c[n] = j
  <2>1. CASE i \in 1 .. k
    <3>1. j \in DOMAIN s[i]
      BY <1>5, <2>1
    <3>2. PICK n \in 1 .. N : row[n] = i /\ col[n] = j
      BY <1>9, <2>1, <3>1
    <3> QED BY <1>a, <1>8, <3>2
  <2>2. CASE i = k + 1
    <3>1. j \in 1 .. l
      BY <1>4, <1>5, <2>2
    <3> QED BY <1>a, <1>8, <2>2, <3>1
  <2> QED BY <1>a, <2>1, <2>2
<1>13. Orders(r, c, v, u)
  <2>0. DOMAIN u = 1 .. N + l /\ DOMAIN v = 1 .. k + 1
    BY <1>4, <1>5
  <2>1. \A n \in DOMAIN u : /\ r[n] \in DOMAIN v
                            /\ c[n] \in DOMAIN v[r[n]]
                            /\ u[n] = v[r[n]][c[n]]
    BY <1>10, <2>0
  <2>2. \A m, n \in DOMAIN u : m < n => r[m] < r[n] \/ (r[m] = r[n] /\ c[m] < c[n])
    BY <1>11, <2>0
  <2>3. ASSUME NEW i \in DOMAIN v, NEW j \in DOMAIN v[i]
        PROVE  \E n \in DOMAIN u : r[n] = i /\ c[n] = j
    <3>1. i \in 1 .. k + 1
      BY <2>0
    <3>2. PICK n \in 1 .. N + l : r[n] = i /\ c[n] = j
      BY <1>12, <3>1
    <3> QED BY <2>0, <3>2
  <2> QED BY <2>1, <2>2, <2>3 DEF Orders
<1> QED BY <1>2, <1>3, <1>13

\* The elements of a concatenation.
LEMMA FlattenOrders ==
  ASSUME NEW S, NEW s \in Seq(Seq(S))
  PROVE  \E row, col : Orders(row, col, s, FlattenSeq(s))
<1> DEFINE T == {t \in Seq(Seq(S)) : \E row, col : Orders(row, col, t, FlattenSeq(t))}
<1>1. <<>> \in T
  <2>1. <<>> \in Seq(Seq(S))
    BY EmptySeq
  <2>2. PICK e : e = <<>> /\ DOMAIN e = {}
    OBVIOUS
  <2>3. Orders(e, e, e, e)
    BY <2>2 DEF Orders
  <2> QED BY <2>1, <2>2, <2>3, FlattenEmpty
<1>2. ASSUME NEW t \in Seq(Seq(S)), NEW x \in Seq(S), t \in T
      PROVE  Append(t, x) \in T
  <2>1. PICK row, col : Orders(row, col, t, FlattenSeq(t))
    BY <1>2
  <2>2. FlattenSeq(t) \in Seq(S)
    BY FlattenType
  <2>3. \E r, c : Orders(r, c, Append(t, x), FlattenSeq(t) \o x)
    BY <2>1, <2>2, OrdersAppend
  <2>4. FlattenSeq(Append(t, x)) = FlattenSeq(t) \o x /\ Append(t, x) \in Seq(Seq(S))
    BY FlattenAppend, AppendProperties
  <2> QED BY <2>3, <2>4
<1> HIDE DEF T
<1>3. \A t \in Seq(Seq(S)) : t \in T
  BY <1>1, <1>2, SeqInduction, Zenon
<1> QED BY <1>3 DEF T

\* Streams that can be read can be read one after the other: what is read is
\* what each of them gives.
LEMMA ReadableAll ==
  ASSUME NEW s \in Seq({ws \in Seq(Nat) : Readable(ws)})
  PROVE  LET ins == [k \in DOMAIN s |-> ParseInstructions(s[k])]
         IN  /\ ins \in Seq(Seq(Counted))
             /\ Readable(FlattenSeq(s))
             /\ ParseInstructions(FlattenSeq(s)) = FlattenSeq(ins)
<1> DEFINE S == {ws \in Seq(Nat) : Readable(ws)}
           Parsed(t) == [k \in DOMAIN t |-> ParseInstructions(t[k])]
           T == {t \in Seq(S) : /\ Parsed(t) \in Seq(Seq(Counted))
                                /\ Readable(FlattenSeq(t))
                                /\ ParseInstructions(FlattenSeq(t)) = FlattenSeq(Parsed(t))}
<1>1. <<>> \in T
  <2>1. <<>> \in Seq(S) /\ <<>> \in Seq(Seq(Counted))
    BY EmptySeq
  <2>2. Parsed(<<>>) = <<>>
    OBVIOUS
  <2> QED BY <2>1, <2>2, FlattenEmpty, ReadableEmpty
<1>2. ASSUME NEW t \in Seq(S), NEW x \in S, t \in T
      PROVE  Append(t, x) \in T
  <2>1. PICK p : p = Parsed(t)
    OBVIOUS
  <2>2. PICK i : i = ParseInstructions(x)
    OBVIOUS
  <2>3. /\ p \in Seq(Seq(Counted)) /\ Readable(FlattenSeq(t))
        /\ ParseInstructions(FlattenSeq(t)) = FlattenSeq(p)
    BY <1>2, <2>1
  <2>4. Readable(x) /\ i \in Seq(Counted)
    BY <2>2, ReadableReads
  <2>5. Parsed(Append(t, x)) = Append(p, i)
    <3>1. PICK u : u = Append(t, x)
      OBVIOUS
    <3>2. PICK n \in Nat : n = Len(t)
      BY LenProperties
    <3>3. /\ u \in Seq(S) /\ DOMAIN u = 1 .. n + 1 /\ DOMAIN t = 1 .. n
          /\ u[n + 1] = x /\ \A k \in 1 .. n : u[k] = t[k]
      BY <3>1, <3>2, AppendProperties, LenProperties
    <3>4. p = [k \in 1 .. n |-> ParseInstructions(t[k])]
      BY <2>1, <3>3
    <3>5. Len(p) = n
      BY <3>4
    <3>6. /\ Append(p, i) \in Seq(Seq(Counted)) /\ DOMAIN Append(p, i) = 1 .. n + 1
          /\ Append(p, i)[n + 1] = i /\ \A k \in 1 .. n : Append(p, i)[k] = p[k]
      BY <2>3, <2>4, <3>5, AppendProperties, LenProperties
    <3>7. Parsed(u) = [k \in 1 .. n + 1 |-> ParseInstructions(u[k])]
      BY <3>3
    <3>8. ASSUME NEW k \in 1 .. n + 1
          PROVE  ParseInstructions(u[k]) = Append(p, i)[k]
      <4>0. k \in 1 .. n \/ k = n + 1
        OBVIOUS
      <4>1. CASE k = n + 1
        BY <2>2, <3>3, <3>6, <4>1
      <4>2. CASE k \in 1 .. n
        BY <3>3, <3>4, <3>6, <4>2
      <4> QED BY <4>0, <4>1, <4>2
    <3>9. PICK q : q = Append(p, i)
      OBVIOUS
    <3>10. q \in Seq(Seq(Counted)) /\ DOMAIN q = 1 .. n + 1
           /\ \A k \in 1 .. n + 1 : ParseInstructions(u[k]) = q[k]
      BY <3>6, <3>8, <3>9
    <3>11. q = [k \in 1 .. n + 1 |-> q[k]]
      BY <3>10
    <3> HIDE DEF Parsed
    <3> QED BY <3>1, <3>7, <3>9, <3>10, <3>11
  <2>6. Append(p, i) \in Seq(Seq(Counted)) /\ FlattenSeq(Append(p, i)) = FlattenSeq(p) \o i
    BY <2>3, <2>4, FlattenAppend, AppendProperties
  <2>7. FlattenSeq(Append(t, x)) = FlattenSeq(t) \o x /\ Append(t, x) \in Seq(S)
    <3>1. S \subseteq Seq(Nat)
      OBVIOUS
    <3> HIDE DEF S
    <3>2. t \in Seq(Seq(Nat)) /\ x \in Seq(Nat)
      BY <3>1, SeqMonotonic, Zenon
    <3> QED BY <3>2, FlattenAppend, AppendProperties
  <2>8. /\ Readable(FlattenSeq(t) \o x)
        /\ ParseInstructions(FlattenSeq(t) \o x) = FlattenSeq(p) \o i
    BY <2>2, <2>3, <2>4, ReadableConcat
  <2> HIDE DEF Parsed, S
  <2> QED BY <2>5, <2>6, <2>7, <2>8
<1> HIDE DEF T, S
<1>3. \A t \in Seq(S) : t \in T
  BY <1>1, <1>2, SeqInduction, Zenon
<1> QED BY <1>3 DEF T, S

\* A prefix grows by one element.
LEMMA PrefixGrows ==
  ASSUME NEW Q, NEW p \in Seq(Q), NEW k \in Nat, k < Len(p)
  PROVE  /\ SubSeq(p, 1, k + 1) = Append(SubSeq(p, 1, k), p[k + 1])
         /\ SubSeq(p, 1, k) \in Seq(Q) /\ p[k + 1] \in Q
<1>1. PICK a : a = SubSeq(p, 1, k)
  OBVIOUS
<1>2. PICK b : b = SubSeq(p, 1, k + 1)
  OBVIOUS
<1>3. k + 1 \in 1 .. Len(p) /\ p[k + 1] \in Q
  OBVIOUS
<1>4. a \in Seq(Q) /\ Len(a) = k /\ \A i \in 1 .. k : a[i] = p[i]
  BY <1>1
<1>5. b \in Seq(Q) /\ Len(b) = k + 1 /\ \A i \in 1 .. k + 1 : b[i] = p[i]
  BY <1>2
<1>6. PICK c : c = Append(a, p[k + 1])
  OBVIOUS
<1>7. /\ c \in Seq(Q) /\ Len(c) = k + 1 /\ c[k + 1] = p[k + 1]
      /\ \A i \in 1 .. k : c[i] = p[i]
  BY <1>3, <1>4, <1>6, AppendProperties
<1>8. \A i \in 1 .. Len(b) : b[i] = c[i]
  <2> SUFFICES ASSUME NEW i \in 1 .. k + 1 PROVE b[i] = c[i]
    BY <1>5
  <2>1. i \in 1 .. k \/ i = k + 1
    OBVIOUS
  <2> QED BY <1>5, <1>7, <2>1
<1>9. b = c
  BY <1>5, <1>7, <1>8, SeqEqual
<1> QED BY <1>1, <1>2, <1>3, <1>4, <1>6, <1>9

\* Eleven streams behind the words h, as Assemble puts them.
LEMMA ElevenBehind ==
  ASSUME NEW S, NEW h \in Seq(S), NEW p \in Seq(Seq(S)), Len(p) = 11
  PROVE  h \o p[1] \o p[2] \o p[3] \o p[4] \o p[5] \o p[6] \o p[7] \o p[8]
           \o p[9] \o p[10] \o p[11]
           = h \o FlattenSeq(p)
<1> DEFINE F == [k \in 0 .. 11 |-> h \o FlattenSeq(SubSeq(p, 1, k))]
<1>1. ASSUME NEW k \in Nat, k < 11
      PROVE  F[k + 1] = F[k] \o p[k + 1]
  <2>1. PICK a : a = SubSeq(p, 1, k)
    OBVIOUS
  <2>2. PICK x : x = p[k + 1]
    OBVIOUS
  <2>3. SubSeq(p, 1, k + 1) = Append(a, x) /\ a \in Seq(Seq(S)) /\ x \in Seq(S)
    BY <1>1, <2>1, <2>2, PrefixGrows
  <2>4. FlattenSeq(Append(a, x)) = FlattenSeq(a) \o x /\ FlattenSeq(a) \in Seq(S)
    BY <2>3, FlattenAppend, FlattenType
  <2>5. (h \o FlattenSeq(a)) \o x = h \o (FlattenSeq(a) \o x)
    BY <2>3, <2>4, ConcatAssociative
  <2>6. k \in 0 .. 11 /\ k + 1 \in 0 .. 11
    BY <1>1
  <2>7. F[k + 1] = h \o FlattenSeq(Append(a, x)) /\ F[k] = h \o FlattenSeq(a)
    BY <2>1, <2>3, <2>6
  <2> QED BY <2>2, <2>4, <2>5, <2>7
<1>2. F[0] = h /\ F[11] = h \o FlattenSeq(p)
  <2>1. SubSeq(p, 1, 0) = <<>>
    OBVIOUS
  <2>2. SubSeq(p, 1, 11) = p
    <3>1. SubSeq(p, 1, Len(p)) = p
      BY SubSeqFull
    <3> QED BY <3>1
  <2>3. h \o FlattenSeq(<<>>) = h
    BY FlattenEmpty, ConcatEmptySeq
  <2>4. \A k \in 0 .. 11 : F[k] = h \o FlattenSeq(SubSeq(p, 1, k))
    OBVIOUS
  <2>5. 0 \in 0 .. 11 /\ 11 \in 0 .. 11
    OBVIOUS
  <2> HIDE DEF F
  <2>6. F[0] = h \o FlattenSeq(SubSeq(p, 1, 0))
    BY <2>4, <2>5
  <2>7. F[11] = h \o FlattenSeq(SubSeq(p, 1, 11))
    BY <2>4, <2>5
  <2> QED BY <2>1, <2>2, <2>3, <2>6, <2>7
<1> HIDE DEF F
<1>3. /\ F[1] = F[0] \o p[1] /\ F[2] = F[1] \o p[2] /\ F[3] = F[2] \o p[3]
      /\ F[4] = F[3] \o p[4] /\ F[5] = F[4] \o p[5] /\ F[6] = F[5] \o p[6]
      /\ F[7] = F[6] \o p[7] /\ F[8] = F[7] \o p[8] /\ F[9] = F[8] \o p[9]
      /\ F[10] = F[9] \o p[10] /\ F[11] = F[10] \o p[11]
  <2>1. \A k \in Nat : k < 11 => F[k + 1] = F[k] \o p[k + 1]
    BY <1>1
  <2>2. \A k, n \in Nat : n < 11 /\ k = n + 1 => F[k] = F[n] \o p[k]
    BY <2>1
  <2>3. /\ 0 < 11 /\ 1 < 11 /\ 2 < 11 /\ 3 < 11 /\ 4 < 11 /\ 5 < 11 /\ 6 < 11
        /\ 7 < 11 /\ 8 < 11 /\ 9 < 11 /\ 10 < 11 /\ 1 = 0 + 1 /\ 2 = 1 + 1
        /\ 3 = 2 + 1 /\ 4 = 3 + 1 /\ 5 = 4 + 1 /\ 6 = 5 + 1 /\ 7 = 6 + 1
        /\ 8 = 7 + 1 /\ 9 = 8 + 1 /\ 10 = 9 + 1 /\ 11 = 10 + 1
        /\ {0, 1, 2, 3, 4, 5, 6, 7, 8, 9, 10, 11} \subseteq Nat
    OBVIOUS
  <2>a1. F[1] = F[0] \o p[1]
    BY <2>2, <2>3, Zenon
  <2>a2. F[2] = F[1] \o p[2]
    BY <2>2, <2>3, Zenon
  <2>a3. F[3] = F[2] \o p[3]
    BY <2>2, <2>3, Zenon
  <2>a4. F[4] = F[3] \o p[4]
    BY <2>2, <2>3, Zenon
  <2>a5. F[5] = F[4] \o p[5]
    BY <2>2, <2>3, Zenon
  <2>a6. F[6] = F[5] \o p[6]
    BY <2>2, <2>3, Zenon
  <2>a7. F[7] = F[6] \o p[7]
    BY <2>2, <2>3, Zenon
  <2>a8. F[8] = F[7] \o p[8]
    BY <2>2, <2>3, Zenon
  <2>a9. F[9] = F[8] \o p[9]
    BY <2>2, <2>3, Zenon
  <2>a10. F[10] = F[9] \o p[10]
    BY <2>2, <2>3, Zenon
  <2>a11. F[11] = F[10] \o p[11]
    BY <2>2, <2>3, Zenon
  <2> QED BY <2>a1, <2>a2, <2>a3, <2>a4, <2>a5, <2>a6, <2>a7, <2>a8, <2>a9, <2>a10, <2>a11, Zenon
<1> QED BY <1>2, <1>3, Zenon

\* What is behind the first words of a module.
LEMMA Behind ==
  ASSUME NEW S, NEW h \in Seq(S), NEW x \in Seq(S)
  PROVE  SubSeq(h \o x, Len(h) + 1, Len(h \o x)) = x
<1>1. PICK a \in Nat, b \in Nat : a = Len(h) /\ b = Len(x)
  BY LenProperties
<1>2. PICK y : y = h \o x
  OBVIOUS
<1>3. y \in Seq(S) /\ Len(y) = a + b /\ \A j \in 1 .. b : y[a + j] = x[j]
  BY <1>1, <1>2, RightOf
<1>4. PICK z : z = SubSeq(y, a + 1, a + b)
  OBVIOUS
<1>5. z \in Seq(S) /\ Len(z) = b /\ \A j \in 1 .. b : z[j] = y[a + j]
  BY <1>1, <1>3, <1>4
<1>6. z = x
  <2>1. \A j \in 1 .. Len(z) : z[j] = x[j]
    BY <1>1, <1>3, <1>5
  <2>2. Len(z) = Len(x)
    BY <1>1, <1>5
  <2> QED BY <1>5, <2>1, <2>2, SeqEqual
<1> QED BY <1>1, <1>2, <1>3, <1>4, <1>6
=============================================================================
