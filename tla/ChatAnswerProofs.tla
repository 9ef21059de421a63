-------------------------- MODULE ChatAnswerProofs --------------------------
(***************************************************************************)
(* Proofs about what ChatStream says: a stream that is completed says what *)
(* the turn says.  What a stream says is a concatenation over its frames,  *)
(* so that the proof needs induction over sequences.  The induction        *)
(* theorems of the library take an operator; here an induction is one over *)
(* a set, and the set is that of the numbers, or the sequences, for which  *)
(* the fact holds.                                                         *)
(***************************************************************************)
EXTENDS ChatStreamProofs, WellFoundedInduction

-----------------------------------------------------------------------------
(* Induction over sets.                                                    *)

(* A number that is missing from S would have a smallest interval 0..n:    *)
(* the finite sets of numbers are well-founded by inclusion.               *)
LEMMA NatSetInduction ==
    ASSUME NEW S, 0 \in S, \A n \in Nat : n \in S => n + 1 \in S
    PROVE  Nat \subseteq S
<1> DEFINE T == Nat \ S
           intervals == {0..n : n \in T}
           R == StrictSubsetOrdering(Nat)
           F == FiniteSubsetsOf(Nat)
<1>1. SUFFICES ASSUME T # {} PROVE FALSE
  OBVIOUS
<1>2. intervals \subseteq F
  <2> SUFFICES ASSUME NEW n \in T PROVE 0..n \in F
    OBVIOUS
  <2>1. IsFiniteSet(0..n)
    BY FS_Interval
  <2> QED
    BY <2>1 DEF FiniteSubsetsOf
<1>3. IsWellFoundedOn(R, F)
  BY FS_StrictSubsetOrderingWellFounded
<1>4. intervals # {}
  BY <1>1
<1> HIDE DEF R, F, intervals
<1>5. PICK x \in intervals : \A y \in intervals : ~(<<y, x>> \in R)
  BY <1>2, <1>3, <1>4, WFMin
<1> USE DEF intervals
<1>6. PICK n \in T : x = 0..n
  BY <1>5
<1>7. n # 0 /\ n \in Nat /\ n \notin S
  BY <1>6
<1>8. n - 1 \in Nat /\ n = (n - 1) + 1
  BY <1>7
<1>9. CASE n - 1 \in S
  BY <1>7, <1>8, <1>9
<1>10. CASE n - 1 \notin S
  <2>1. 0..(n - 1) \in intervals
    BY <1>8, <1>10
  <2>2. 0..(n - 1) \subseteq 0..n /\ 0..(n - 1) # 0..n
    BY <1>7, <1>8
  <2>3. 0..(n - 1) \in SUBSET Nat /\ 0..n \in SUBSET Nat
    BY <1>7
  <2>4. <<0..(n - 1), x>> \in R
    BY <2>2, <2>3, <1>6 DEF R, StrictSubsetOrdering
  <2> QED
    BY <2>1, <2>4, <1>5
<1> QED
  BY <1>9, <1>10

LEMMA SeqSetInduction ==
    ASSUME NEW T, NEW S, << >> \in S,
           \A s \in Seq(T), e \in T : s \in S => Append(s, e) \in S
    PROVE  Seq(T) \subseteq S
<1> DEFINE N == {n \in Nat : \A s \in Seq(T) : Len(s) = n => s \in S}
<1>1. 0 \in N
  <2> SUFFICES ASSUME NEW s \in Seq(T), Len(s) = 0 PROVE s \in S
    OBVIOUS
  <2>1. s = << >>
    BY EmptySeq
  <2> QED
    BY <2>1
<1>2. ASSUME NEW n \in Nat, n \in N PROVE n + 1 \in N
  <2> SUFFICES ASSUME NEW s \in Seq(T), Len(s) = n + 1 PROVE s \in S
    OBVIOUS
  <2>1. s # << >>
    OBVIOUS
  <2>2. PICK r \in Seq(T), e \in T : s = Append(r, e)
    BY <2>1, SequenceEmptyOrAppend
  <2>3. Len(r) = n
    BY <2>2
  <2> QED
    BY <1>2, <2>2, <2>3
<1> HIDE DEF N
<1>3. Nat \subseteq N
  BY <1>1, <1>2, NatSetInduction
<1> QED
  BY <1>3 DEF N

-----------------------------------------------------------------------------
(* FlattenSeq is a recursive function: g is its table for the first m      *)
(* sequences of q.                                                         *)
Table(q, m, g) == g = [i \in 1..m |-> IF i = 1 THEN q[i] ELSE g[i - 1] \o q[i]]

LEMMA TableExists ==
    ASSUME NEW q
    PROVE  \A m \in Nat : \E g : Table(q, m, g)
<1> DEFINE S == {m \in Nat : \E g : Table(q, m, g)}
<1>1. 0 \in S
  <2>1. Table(q, 0, [i \in 1..0 |-> << >>])
    BY DEF Table
  <2> QED
    BY <2>1
<1>2. ASSUME NEW m \in Nat, m \in S PROVE m + 1 \in S
  <2>1. PICK g : Table(q, m, g)
    BY <1>2
  <2> DEFINE last == IF m = 0 THEN q[m + 1] ELSE g[m] \o q[m + 1]
             h == [i \in 1..(m + 1) |-> IF i = m + 1 THEN last ELSE g[i]]
  <2>2. ASSUME NEW i \in 1..(m + 1)
        PROVE  h[i] = IF i = 1 THEN q[i] ELSE h[i - 1] \o q[i]
    <3> HIDE DEF h, last
    <3>1. \A k \in 1..m : h[k] = g[k]
      BY DEF h
    <3>2. CASE i = m + 1
      <4>1. h[i] = last /\ (m = 0 <=> i = 1)
        BY <3>2 DEF h
      <4>2. i # 1 => m \in 1..m /\ i - 1 = m
        BY <3>2
      <4>3. i # 1 => h[i - 1] = g[m]
        BY <3>1, <4>2
      <4> QED
        BY <3>2, <4>1, <4>3 DEF last
    <3>3. CASE i # m + 1
      <4>1. i \in 1..m
        BY <3>3
      <4>2. g[i] = IF i = 1 THEN q[i] ELSE g[i - 1] \o q[i]
        BY <2>1, <4>1 DEF Table
      <4>3. i # 1 => i - 1 \in 1..m
        BY <4>1
      <4> QED
        BY <3>1, <4>1, <4>2, <4>3
    <3> QED
      BY <3>2, <3>3
  <2>3. h = [i \in 1..(m + 1) |-> h[i]]
    OBVIOUS
  <2> HIDE DEF h
  <2>4. Table(q, m + 1, h)
    BY <2>2, <2>3 DEF Table
  <2> QED
    BY <2>4
<1> HIDE DEF S
<1>3. Nat \subseteq S
  BY <1>1, <1>2, NatSetInduction
<1> QED
  BY <1>3 DEF S

LEMMA FlattenTable ==
    ASSUME NEW q, Len(q) \in Nat, Len(q) # 0
    PROVE  \E g : Table(q, Len(q), g) /\ FlattenSeq(q) = g[Len(q)]
<1> DEFINE c == CHOOSE g : g = [i \in 1..Len(q) |-> IF i = 1 THEN q[i] ELSE g[i - 1] \o q[i]]
<1>1. \E g : Table(q, Len(q), g)
  BY TableExists
<1>2. Table(q, Len(q), c)
  BY <1>1 DEF Table
<1>3. FlattenSeq(q) = c[Len(q)]
  BY DEF FlattenSeq
<1> QED
  BY <1>2, <1>3

(* Two tables agree as far as their sequences do. *)
Agree(q, r, m) == \A i \in 1..m : q[i] = r[i]

LEMMA TablesAgree ==
    ASSUME NEW q, NEW r, NEW m \in Nat, NEW k \in Nat, NEW g, NEW h,
           Table(q, m, g), Table(r, k, h), m <= k, Agree(q, r, m)
    PROVE  Agree(g, h, m)
<1> DEFINE S == {i \in Nat : i \in 1..m => g[i] = h[i]}
<1>1. 0 \in S
  OBVIOUS
<1>2. ASSUME NEW i \in Nat, i \in S PROVE i + 1 \in S
  <2> SUFFICES ASSUME i + 1 \in 1..m PROVE g[i + 1] = h[i + 1]
    OBVIOUS
  <2>1. i + 1 \in 1..k /\ q[i + 1] = r[i + 1] /\ (i + 1) - 1 = i
    BY DEF Agree
  <2>2. g[i + 1] = IF i + 1 = 1 THEN q[i + 1] ELSE g[i] \o q[i + 1]
    BY <2>1 DEF Table
  <2>3. h[i + 1] = IF i + 1 = 1 THEN r[i + 1] ELSE h[i] \o r[i + 1]
    BY <2>1 DEF Table
  <2>4. i + 1 # 1 => g[i] = h[i]
    BY <1>2
  <2> QED
    BY <2>1, <2>2, <2>3, <2>4
<1> HIDE DEF S
<1>3. Nat \subseteq S
  BY <1>1, <1>2, NatSetInduction
<1> QED
  BY <1>3 DEF S, Agree

LEMMA FlattenEmpty == FlattenSeq(<< >>) = << >>
BY DEF FlattenSeq

(* What one more sequence adds. *)
LEMMA FlattenAppend ==
    ASSUME NEW T, NEW q \in Seq(Seq(T)), NEW x \in Seq(T)
    PROVE  FlattenSeq(Append(q, x)) = FlattenSeq(q) \o x
<1> DEFINE r == Append(q, x)
<1>1. /\ r \in Seq(Seq(T)) /\ Len(r) = Len(q) + 1 /\ r[Len(q) + 1] = x
      /\ \A i \in 1..Len(q) : r[i] = q[i]
  <2>1. q \in Seq(Seq(T)) /\ x \in Seq(T)
    OBVIOUS
  <2> QED
    BY <2>1, AppendProperties
<1> HIDE DEF r
<1>2. Len(q) \in Nat
  OBVIOUS
<1>3. PICK g : Table(r, Len(r), g) /\ FlattenSeq(r) = g[Len(r)]
  <2>1. Len(r) \in Nat /\ Len(r) # 0
    BY <1>1, <1>2
  <2> QED
    BY <2>1, FlattenTable
<1>4. g[Len(r)] = IF Len(r) = 1 THEN x ELSE g[Len(q)] \o x
  <2>1. Len(r) \in 1..Len(r) /\ Len(r) - 1 = Len(q) /\ r[Len(r)] = x
    BY <1>1, <1>2
  <2>2. g[Len(r)] = IF Len(r) = 1 THEN r[Len(r)] ELSE g[Len(r) - 1] \o r[Len(r)]
    BY <1>3, <2>1 DEF Table
  <2> QED
    BY <2>1, <2>2
<1>5. CASE Len(q) = 0
  <2>1. q = << >>
    BY <1>5, EmptySeq
  <2>2. FlattenSeq(q) \o x = x
    BY <2>1, FlattenEmpty, ConcatEmptySeq
  <2> QED
    BY <1>1, <1>3, <1>4, <1>5, <2>2 DEF r
<1>6. CASE Len(q) # 0
  <2>1. PICK h : Table(q, Len(q), h) /\ FlattenSeq(q) = h[Len(q)]
    BY <1>2, <1>6, FlattenTable
  <2>2. Agree(h, g, Len(q))
    <3>1. Len(q) <= Len(r) /\ Len(r) \in Nat
      BY <1>1, <1>2
    <3>2. Agree(q, r, Len(q))
      <4>1. \A i \in 1..Len(q) : q[i] = r[i]
        BY <1>1
      <4> QED
        BY <4>1, Zenon DEF Agree
    <3> QED
      BY <1>2, <1>3, <2>1, <3>1, <3>2, TablesAgree
  <2>3. h[Len(q)] = g[Len(q)]
    BY <1>2, <1>6, <2>2 DEF Agree
  <2> QED
    BY <1>1, <1>2, <1>3, <1>4, <1>6, <2>1, <2>3 DEF r
<1> QED
  BY <1>5, <1>6

-----------------------------------------------------------------------------
(* What frames say of a kind.                                              *)

Kinds == {"text", "thinking", "tool"}
Unit(kind) == IF kind = "tool" THEN AnswerFrames ELSE Nat

LEMMA PartTypes ==
    ASSUME NEW kind \in Kinds, NEW f \in AnswerFrames
    PROVE  Part(kind, f) \in Seq(Unit(kind))
<1>1. CASE f.kind # kind
  BY <1>1 DEF Part
<1>2. CASE f.kind = kind /\ kind = "tool"
  BY <1>2 DEF Part, Unit
<1>3. CASE f.kind = kind /\ kind # "tool"
  <2>1. kind \in {"text", "thinking"}
    BY <1>3 DEF Kinds
  <2>2. f.of \in Seq(Nat)
    BY <1>3, <2>1 DEF AnswerFrames, Payload, Role, Done, Error
  <2> QED
    BY <1>3, <2>2 DEF Part, Unit
<1> QED
  BY <1>1, <1>2, <1>3

LEMMA PartsEmpty == \A kind : Parts(kind, << >>) = << >>
<1> TAKE kind
<1>1. [k \in 1..Len(<< >>) |-> Part(kind, << >>[k])] = << >>
  OBVIOUS
<1> QED
  BY <1>1, FlattenEmpty DEF Parts

LEMMA PartsAppend ==
    ASSUME NEW kind \in Kinds, NEW s \in Seq(AnswerFrames), NEW f \in AnswerFrames
    PROVE  Parts(kind, Append(s, f)) = Parts(kind, s) \o Part(kind, f)
<1> DEFINE p == [k \in 1..Len(s) |-> Part(kind, s[k])]
           t == Append(s, f)
           q == [k \in 1..Len(t) |-> Part(kind, t[k])]
<1>1. /\ Len(s) \in Nat /\ Len(t) = Len(s) + 1 /\ t[Len(s) + 1] = f
      /\ \A k \in 1..Len(s) : t[k] = s[k] /\ s[k] \in AnswerFrames
  BY AppendProperties
<1>2. p \in Seq(Seq(Unit(kind))) /\ Len(p) = Len(s)
  <2>1. \A k \in 1..Len(s) : Part(kind, s[k]) \in Seq(Unit(kind))
    BY <1>1, PartTypes
  <2> QED
    BY <1>1, <2>1
<1>3. q = Append(p, Part(kind, f))
  <2> DEFINE x == Part(kind, f)
  <2>1. x \in Seq(Unit(kind))
    BY PartTypes
  <2>2. q \in Seq(Seq(Unit(kind))) /\ Len(q) = Len(p) + 1
    <3> HIDE DEF t, p
    <3>1. \A k \in 1..Len(t) : t[k] \in AnswerFrames
      BY <1>1
    <3>2. \A k \in 1..Len(t) : Part(kind, t[k]) \in Seq(Unit(kind))
      BY <3>1, PartTypes
    <3> QED
      BY <1>1, <1>2, <3>2
  <2>3. \A k \in 1..Len(p) : q[k] = p[k]
    BY <1>1, <1>2
  <2>4. q[Len(p) + 1] = x
    BY <1>1, <1>2
  <2> HIDE DEF p, q, x, t
  <2>5. /\ Append(p, x) \in Seq(Seq(Unit(kind))) /\ Len(Append(p, x)) = Len(p) + 1
        /\ \A k \in 1..Len(p) : Append(p, x)[k] = p[k]
        /\ Append(p, x)[Len(p) + 1] = x
    BY <1>2, <2>1, AppendProperties
  <2>6. \A k \in 1..Len(q) : q[k] = Append(p, x)[k]
    BY <1>2, <2>2, <2>3, <2>4, <2>5
  <2>7. q = Append(p, x)
    BY <2>2, <2>5, <2>6, SeqEqual
  <2> QED
    BY <2>7 DEF x
<1>4. Part(kind, f) \in Seq(Unit(kind))
  BY PartTypes
<1> HIDE DEF p, q, t
<1>5. FlattenSeq(q) = FlattenSeq(p) \o Part(kind, f)
  BY <1>2, <1>3, <1>4, FlattenAppend
<1> QED
  BY <1>5 DEF Parts, p, q, t

LEMMA PartsTypes ==
    ASSUME NEW kind \in Kinds
    PROVE  \A s \in Seq(AnswerFrames) : Parts(kind, s) \in Seq(Unit(kind))
<1> DEFINE S == {s \in Seq(AnswerFrames) : Parts(kind, s) \in Seq(Unit(kind))}
<1>1. << >> \in S
  <2>1. \A T : << >> \in Seq(T)
    OBVIOUS
  <2>2. Parts(kind, << >>) \in Seq(Unit(kind))
    BY <2>1, PartsEmpty
  <2> QED
    BY <2>1, <2>2
<1>2. ASSUME NEW s \in Seq(AnswerFrames), NEW f \in AnswerFrames, s \in S
      PROVE  Append(s, f) \in S
  <2>1. Parts(kind, s) \o Part(kind, f) \in Seq(Unit(kind))
    BY <1>2, PartTypes, ConcatProperties
  <2>2. Parts(kind, Append(s, f)) \in Seq(Unit(kind))
    BY <2>1, PartsAppend
  <2>3. Append(s, f) \in Seq(AnswerFrames)
    BY AppendProperties
  <2> QED
    BY <2>2, <2>3
<1> HIDE DEF S
<1>3. Seq(AnswerFrames) \subseteq S
  BY <1>1, <1>2, SeqSetInduction
<1> QED
  BY <1>3 DEF S

LEMMA PartsConcat ==
    ASSUME NEW kind \in Kinds, NEW s \in Seq(AnswerFrames)
    PROVE  \A t \in Seq(AnswerFrames) : Parts(kind, s \o t) = Parts(kind, s) \o Parts(kind, t)
<1> DEFINE S == {t \in Seq(AnswerFrames) :
                     Parts(kind, s \o t) = Parts(kind, s) \o Parts(kind, t)}
<1>1. << >> \in S
  BY PartsEmpty, PartsTypes, ConcatEmptySeq
<1>2. ASSUME NEW t \in Seq(AnswerFrames), NEW f \in AnswerFrames, t \in S
      PROVE  Append(t, f) \in S
  <2>1. s \o Append(t, f) = Append(s \o t, f) /\ s \o t \in Seq(AnswerFrames)
    BY ConcatProperties
  <2>2. Parts(kind, Append(s \o t, f)) = Parts(kind, s \o t) \o Part(kind, f)
    BY <2>1, PartsAppend
  <2>3. Parts(kind, Append(t, f)) = Parts(kind, t) \o Part(kind, f)
    BY PartsAppend
  <2>4. (Parts(kind, s) \o Parts(kind, t)) \o Part(kind, f)
          = Parts(kind, s) \o (Parts(kind, t) \o Part(kind, f))
    <3>1. /\ Parts(kind, s) \in Seq(Unit(kind)) /\ Parts(kind, t) \in Seq(Unit(kind))
          /\ Part(kind, f) \in Seq(Unit(kind))
      BY PartsTypes, PartTypes
    <3> DEFINE U == Unit(kind)
               a == Parts(kind, s)
               b == Parts(kind, t)
               c == Part(kind, f)
    <3> HIDE DEF U, a, b, c
    <3>2. a \in Seq(U) /\ b \in Seq(U) /\ c \in Seq(U)
      BY <3>1 DEF U, a, b, c
    <3>3. (a \o b) \o c = a \o (b \o c)
      BY <3>2, ConcatAssociative
    <3> QED
      BY <3>3 DEF a, b, c
  <2>5. Parts(kind, s \o t) = Parts(kind, s) \o Parts(kind, t)
    BY <1>2
  <2>6. Parts(kind, s \o Append(t, f)) = Parts(kind, s) \o Parts(kind, Append(t, f))
    BY <2>1, <2>2, <2>3, <2>4, <2>5
  <2>7. Append(t, f) \in Seq(AnswerFrames)
    BY AppendProperties
  <2> QED
    BY <2>6, <2>7
<1> HIDE DEF S
<1>3. Seq(AnswerFrames) \subseteq S
  BY <1>1, <1>2, SeqSetInduction
<1> QED
  BY <1>3 DEF S

(* Nothing is said that no frame says. *)
LEMMA PartsElements ==
    ASSUME NEW kind \in Kinds
    PROVE  \A s \in Seq(AnswerFrames) : \A j \in 1..Len(Parts(kind, s)) :
               \E k \in 1..Len(s) : \E i \in 1..Len(Part(kind, s[k])) :
                   Parts(kind, s)[j] = Part(kind, s[k])[i]
<1> DEFINE From(s, x) == \E k \in 1..Len(s) : \E i \in 1..Len(Part(kind, s[k])) :
                             x = Part(kind, s[k])[i]
           S == {s \in Seq(AnswerFrames) :
                    \A j \in 1..Len(Parts(kind, s)) : From(s, Parts(kind, s)[j])}
<1>1. << >> \in S
  BY PartsEmpty
<1>2. ASSUME NEW s \in Seq(AnswerFrames), NEW f \in AnswerFrames, s \in S
      PROVE  Append(s, f) \in S
  <2> DEFINE t == Append(s, f)
  <2>1. /\ t \in Seq(AnswerFrames) /\ Len(s) \in Nat /\ Len(t) = Len(s) + 1
        /\ t[Len(s) + 1] = f /\ \A k \in 1..Len(s) : t[k] = s[k]
    BY AppendProperties
  <2>2. /\ Parts(kind, t) = Parts(kind, s) \o Part(kind, f)
        /\ Parts(kind, s) \in Seq(Unit(kind)) /\ Part(kind, f) \in Seq(Unit(kind))
    BY PartsAppend, PartsTypes, PartTypes
  <2> HIDE DEF t
  <2> SUFFICES ASSUME NEW j \in 1..Len(Parts(kind, t)) PROVE From(t, Parts(kind, t)[j])
    BY <2>1 DEF t
  <2>3. CASE j <= Len(Parts(kind, s))
    <3>1. Parts(kind, t)[j] = Parts(kind, s)[j] /\ j \in 1..Len(Parts(kind, s))
      BY <2>2, <2>3, ConcatProperties
    <3>2. From(s, Parts(kind, s)[j])
      BY <1>2, <3>1
    <3>3. PICK k \in 1..Len(s) : \E i \in 1..Len(Part(kind, s[k])) :
             Parts(kind, s)[j] = Part(kind, s[k])[i]
      BY <3>2
    <3>4. k \in 1..Len(t) /\ t[k] = s[k]
      BY <2>1
    <3> QED
      BY <3>1, <3>3, <3>4
  <2>4. CASE j > Len(Parts(kind, s))
    <3> DEFINE i == j - Len(Parts(kind, s))
    <3>1. i \in 1..Len(Part(kind, f)) /\ Parts(kind, t)[j] = Part(kind, f)[i]
      BY <2>2, <2>4, ConcatProperties
    <3>2. Len(s) + 1 \in 1..Len(t)
      BY <2>1
    <3> HIDE DEF i
    <3> QED
      BY <2>1, <3>1, <3>2
  <2> QED
    BY <2>2, <2>3, <2>4
<1>3. Seq(AnswerFrames) \subseteq S
  <2> HIDE DEF S
  <2> QED
    BY <1>1, <1>2, SeqSetInduction
<1> QED
  BY <1>3

LEMMA PartsNone ==
    ASSUME NEW kind \in Kinds, NEW s \in Seq(AnswerFrames),
           \A k \in 1..Len(s) : s[k].kind # kind
    PROVE  Parts(kind, s) = << >>
<1>1. \A k \in 1..Len(s) : Len(Part(kind, s[k])) = 0
  BY DEF Part
<1>2. Parts(kind, s) \in Seq(Unit(kind))
  BY PartsTypes
<1>3. ASSUME Len(Parts(kind, s)) # 0 PROVE FALSE
  <2>1. 1 \in 1..Len(Parts(kind, s))
    BY <1>2, <1>3
  <2>2. PICK k \in 1..Len(s) : \E i \in 1..Len(Part(kind, s[k])) : TRUE
    BY <2>1, PartsElements
  <2> QED
    BY <1>1, <2>2
<1> QED
  BY <1>2, <1>3, EmptySeq

LEMMA PartsTools ==
    \A s \in Seq(AnswerFrames) :
        (\A k \in 1..Len(s) : s[k].kind = "tool") => Parts("tool", s) = s
<1> DEFINE S == {s \in Seq(AnswerFrames) :
                    (\A k \in 1..Len(s) : s[k].kind = "tool") => Parts("tool", s) = s}
<1>1. << >> \in S
  BY PartsEmpty
<1>2. ASSUME NEW s \in Seq(AnswerFrames), NEW f \in AnswerFrames, s \in S
      PROVE  Append(s, f) \in S
  <2> DEFINE t == Append(s, f)
  <2>1. /\ t \in Seq(AnswerFrames) /\ Len(s) \in Nat /\ Len(t) = Len(s) + 1
        /\ t[Len(s) + 1] = f /\ \A k \in 1..Len(s) : t[k] = s[k]
    BY AppendProperties
  <2>2. Parts("tool", t) = Parts("tool", s) \o Part("tool", f)
    BY PartsAppend DEF Kinds
  <2>3. ASSUME \A k \in 1..Len(t) : t[k].kind = "tool" PROVE Parts("tool", t) = t
    <3> HIDE DEF t
    <3>1. f.kind = "tool" /\ \A k \in 1..Len(s) : s[k].kind = "tool"
      BY <2>1, <2>3
    <3>2. Parts("tool", s) = s
      BY <1>2, <3>1
    <3>3. Part("tool", f) = <<f>>
      BY <3>1 DEF Part
    <3>4. t = s \o <<f>>
      BY AppendIsConcat DEF t
    <3> QED
      BY <2>2, <3>2, <3>3, <3>4
  <2> QED
    BY <2>1, <2>3
<1>3. Seq(AnswerFrames) \subseteq S
  <2> HIDE DEF S
  <2> QED
    BY <1>1, <1>2, SeqSetInduction
<1> QED
  BY <1>3

-----------------------------------------------------------------------------
(* The attempt: what waits comes from the last frame, what is held from    *)
(* this attempt.                                                           *)

Content == {"text_delta", "thinking_delta", "tool_use"}

LEMMA FramesOfEvents ==
    ASSUME NEW f \in Frame, NEW n \in Nat
    PROVE  \A k \in 1..Len(Events(f, n)) :
               Events(f, n)[k].type \in Content => Events(f, n)[k].frame = n
<1> DEFINE Of(s) == \A k \in 1..Len(s) : s[k].type \in Content => s[k].frame = n
<1>1. ASSUME NEW T, NEW s \in Seq(T), NEW t \in Seq(T), Of(s), Of(t) PROVE Of(s \o t)
  <2> SUFFICES ASSUME NEW k \in 1..Len(s \o t), (s \o t)[k].type \in Content
               PROVE  (s \o t)[k].frame = n
    OBVIOUS
  <2>1. Len(s) \in Nat /\ Len(t) \in Nat /\ Len(s \o t) = Len(s) + Len(t)
    BY ConcatProperties
  <2>2. CASE k <= Len(s)
    BY <1>1, <2>1, <2>2
  <2>3. CASE k > Len(s)
    <3>1. (s \o t)[k] = t[k - Len(s)] /\ k - Len(s) \in 1..Len(t)
      BY <2>1, <2>3
    <3> QED
      BY <1>1, <3>1
  <2> QED
    BY <2>1, <2>2, <2>3
<1>2. ASSUME NEW given \in BOOLEAN, NEW t \in {"usage", "text_delta", "thinking_delta"}
      PROVE  Of(When(given, Delta(t, n))) /\ When(given, Delta(t, n)) \in Seq(Event)
  <2>1. When(given, Delta(t, n)) \in Seq(Event)
    BY DeltaTypes
  <2>2. Of(<<Delta(t, n)>>) /\ Of(<< >>)
    BY DEF Delta
  <2> QED
    BY <2>1, <2>2 DEF When
<1>3. CASE f \in Chunk
  <2> DEFINE u == When(f.usage = "given", Delta("usage", n))
             a == When(f.text = "given", Delta("text_delta", n))
             b == When(f.thinking = "given", Delta("thinking_delta", n))
             c == [k \in 1..Len(f.calls) |-> Fragment(f.form, f.calls[k], n)]
  <2>1. u \in Seq(Event) /\ a \in Seq(Event) /\ b \in Seq(Event) /\ Of(u) /\ Of(a) /\ Of(b)
    BY <1>2
  <2>2. c \in Seq(Event)
    <3>1. \A k \in 1..Len(f.calls) : f.calls[k] \in Call
      BY <1>3, ElementOfSeq DEF Chunk
    <3>2. f.form \in {"chunk", "loose"} /\ Len(f.calls) \in Nat
      BY <1>3 DEF Chunk
    <3>3. \A k \in 1..Len(f.calls) : Fragment(f.form, f.calls[k], n) \in Event
      BY <3>1, <3>2, FragmentTypes
    <3> QED
      BY <3>2, <3>3
  <2>3. Of(c)
    <3>1. Len(f.calls) \in Nat
      BY <1>3 DEF Chunk
    <3>2. \A k \in 1..Len(c) : c[k].type = "tool_call_delta"
      BY <3>1 DEF Fragment
    <3> QED
      BY <3>2 DEF Content
  <2>4. Events(f, n) = ((u \o a) \o b) \o c
    BY <1>3 DEF Events, ChunkEvents, Chunk
  <2> HIDE DEF u, a, b, c, Of
  <2>5. u \o a \in Seq(Event) /\ Of(u \o a)
    BY <1>1, <2>1, ConcatProperties
  <2>6. (u \o a) \o b \in Seq(Event) /\ Of((u \o a) \o b)
    BY <1>1, <2>1, <2>5, ConcatProperties
  <2>7. Of(((u \o a) \o b) \o c)
    BY <1>1, <2>2, <2>3, <2>6
  <2> QED
    BY <2>4, <2>7 DEF Of
<1>4. CASE f \in Update
  <2>1. Events(f, n) = UpdateEvents(f, n)
    BY <1>4 DEF Events, Update
  <2>2. f.kind \in {"text", "thinking", "tool_use", "tool_call_delta", "error",
                    "canceled", "ended"}
    BY <1>4 DEF Update
  <2>3. CASE f.kind = "text" \/ f.kind = "thinking"
    BY <2>1, <2>3 DEF UpdateEvents, Delta
  <2>4. CASE f.kind = "tool_use"
    BY <2>1, <2>4 DEF UpdateEvents
  <2>5. CASE f.kind = "tool_call_delta"
    BY <2>1, <2>5 DEF UpdateEvents, Content
  <2>6. CASE f.kind = "error" \/ f.kind = "canceled"
    BY <2>1, <2>6 DEF UpdateEvents, Content
  <2>7. CASE f.kind = "ended"
    BY <2>1, <2>7 DEF UpdateEvents
  <2> QED
    BY <2>2, <2>3, <2>4, <2>5, <2>6, <2>7
<1>5. CASE f \in [form : {"junk"}]
  BY <1>5 DEF Events
<1> QED
  BY <1>3, <1>4, <1>5 DEF Frame

(* What a push adds to what a turn says. *)
ToolOf(e) == [id |-> e.id, name |-> e.name, args |-> <<e.frame>>]

LEMMA PushSays ==
    ASSUME NEW a \in Accumulator, NEW e \in Event
    PROVE  /\ Push(a, e).text
                = IF e.type = "text_delta" THEN Append(a.text, e.frame) ELSE a.text
           /\ Push(a, e).thinking
                = IF e.type = "thinking_delta" THEN Append(a.thinking, e.frame) ELSE a.thinking
           /\ Push(a, e).tools
                = IF e.type = "tool_use" THEN Append(a.tools, ToolOf(e)) ELSE a.tools
<1>1. CASE e.type = "text_delta"
  BY <1>1 DEF Push, Accumulator
<1>2. CASE e.type = "thinking_delta"
  BY <1>2 DEF Push, Accumulator
<1>3. CASE e.type = "usage"
  BY <1>3 DEF Push, Accumulator
<1>4. CASE e.type = "upstream_error"
  BY <1>4 DEF Push, Accumulator
<1>5. CASE e.type = "tool_use"
  BY <1>5 DEF Push, Accumulator, ToolOf
<1>6. CASE e.type = "tool_call_delta"
  <2> DEFINE p == [a.pieces EXCEPT ![e.index] =
                       Merged(IF @ = None THEN NewPiece ELSE @, e)]
  <2>1. Push(a, e) = [a EXCEPT !.pieces = p]
    BY <1>6, Zenon DEF Push
  <2> HIDE DEF p
  <2> QED
    BY <1>6, <2>1 DEF Accumulator
<1> QED
  BY <1>1, <1>2, <1>3, <1>4, <1>5, <1>6 DEF Event

(* The parts of AttemptInv.                                                *)
IdleInv == pc = "idle" => acc = EmptyAccumulator /\ streamed.tools = 0

EventsInv ==
    /\ events # << >> => begun < read /\ pc \in {"reading", "panicked", "returned"}
    /\ \A k \in 1..Len(events) : events[k].type \in Content => events[k].frame = read

HeldInv ==
    /\ \A j \in 1..Len(acc.text) : acc.text[j] \in begun + 1 .. read
    /\ \A j \in 1..Len(acc.thinking) : acc.thinking[j] \in begun + 1 .. read
    /\ \A j \in 1..Len(acc.tools) : \E n \in begun + 1 .. read : acc.tools[j].args = <<n>>

TurnInv ==
    /\ turn # None => pc \in {"won", "answer", "closing", "returned"}
    /\ pc \in {"won", "answer"} => \E o \in Orders(Started(acc)) : turn = Snapshot(acc, o)

LEMMA AttemptParts == AttemptInv <=> IdleInv /\ EventsInv /\ HeldInv /\ TurnInv
BY DEF AttemptInv, IdleInv, EventsInv, HeldInv, TurnInv, Content

LEMMA IdleStep == EmptyInv /\ IdleInv /\ Next => IdleInv'
<1> SUFFICES ASSUME EmptyInv, IdleInv, Next, pc' = "idle"
             PROVE  acc' = EmptyAccumulator /\ streamed'.tools = 0
  BY DEF IdleInv
<1>1. pc = "idle" /\ UNCHANGED <<acc, streamed>>
  BY DEF Next, Handle, BadBody, BeginRequest, Open, Attempt, NoAttempt, Canceled,
         PushSilent, PushDelta, PushToolUse, PushHead, Again, GiveUp, Finish, Answer,
         Tell, Close, Recover, Accepted, Rejected, BreakOff, EndOfBody, ReadFrame,
         Panic, Tick, StopKeepAlive, Leave, upstream, answer, others
<1> QED
  BY <1>1 DEF IdleInv

LEMMA EventsStep == TypeOK /\ EventsInv /\ Next => EventsInv'
<1> SUFFICES ASSUME TypeOK, EventsInv, Next PROVE EventsInv'
  OBVIOUS
<1>1. UpstreamTypes
  BY TypeParts
<1>2. CASE BadBody \/ (\E s \in BOOLEAN : BeginRequest(s)) \/ Open \/ Accepted \/ Again
           \/ GiveUp \/ Finish \/ Answer \/ Tell \/ Close \/ Panic \/ Recover \/ Tick
           \/ StopKeepAlive \/ Leave
  <2>1. UNCHANGED <<events, begun, read>>
    BY <1>2 DEF BadBody, BeginRequest, Open, Accepted, Again, GiveUp, Finish, Answer,
         Tell, Close, Panic, Recover, Tick, StopKeepAlive, Leave, upstream
  <2>2. pc \in {"reading", "panicked", "returned"} =>
           pc' \in {"reading", "panicked", "returned"}
    <3>1. CASE BadBody \/ (\E s \in BOOLEAN : BeginRequest(s)) \/ Open \/ Accepted
               \/ Again \/ GiveUp
      BY <3>1 DEF BadBody, BeginRequest, Open, Accepted, Again, GiveUp, others
    <3>2. CASE Finish \/ Answer \/ Tell \/ Close \/ Panic
      BY <3>2 DEF Finish, Answer, Tell, Close, Panic, others
    <3>3. CASE Recover \/ Tick \/ StopKeepAlive \/ Leave
      BY <3>3 DEF Recover, Tick, StopKeepAlive, Leave, others
    <3> QED
      BY <1>2, <3>1, <3>2, <3>3
  <2> QED
    BY <2>1, <2>2 DEF EventsInv
<1>3. CASE NoAttempt \/ Canceled \/ Rejected \/ BreakOff \/ EndOfBody
  <2>1. UNCHANGED <<events, begun, read>> /\ events = << >>
    BY <1>3 DEF NoAttempt, Canceled, Rejected, BreakOff, EndOfBody, EventsInv
  <2> QED
    BY <2>1 DEF EventsInv
<1>4. CASE Attempt
  BY <1>4 DEF Attempt, EventsInv
<1>5. CASE PushSilent \/ PushDelta \/ PushToolUse
  <2>1. /\ events # << >> /\ events' = Tail(events) /\ pc' = pc /\ pc = "reading"
        /\ begun' = begun /\ read' = read
    BY <1>5 DEF PushSilent, PushDelta, PushToolUse, PushHead
  <2>2. /\ Len(events) \in Nat /\ Len(Tail(events)) = Len(events) - 1
        /\ \A k \in 1..Len(Tail(events)) : Tail(events)[k] = events[k + 1]
    BY <1>1, <2>1, HeadTailProperties DEF UpstreamTypes
  <2>3. ASSUME NEW k \in 1..Len(events'), events'[k].type \in Content
        PROVE  events'[k].frame = read'
    <3>1. k + 1 \in 1..Len(events) /\ events'[k] = events[k + 1]
      BY <2>1, <2>2
    <3> QED
      BY <2>1, <2>3, <3>1 DEF EventsInv
  <2> QED
    BY <2>1, <2>3 DEF EventsInv
<1>6. ASSUME NEW f \in Frames, ReadFrame(f) PROVE EventsInv'
  <2>1. /\ events' = Events(f, read + 1) /\ read' = read + 1 /\ begun' = begun
        /\ pc' = pc /\ pc = "reading"
    BY <1>6 DEF ReadFrame
  <2>2. f \in Frame /\ read \in Nat /\ begun \in Nat /\ begun <= read
    BY <1>1, StreamAssumption DEF UpstreamTypes
  <2>3. \A k \in 1..Len(events') : events'[k].type \in Content => events'[k].frame = read'
    BY <2>1, <2>2, FramesOfEvents
  <2> QED
    BY <2>1, <2>2, <2>3 DEF EventsInv
<1> QED
  BY <1>2, <1>3, <1>4, <1>5, <1>6 DEF Next, Handle

LEMMA HeldStep == TypeOK /\ EventsInv /\ HeldInv /\ Next => HeldInv'
<1> SUFFICES ASSUME TypeOK, EventsInv, HeldInv, Next PROVE HeldInv'
  OBVIOUS
<1>1. UpstreamTypes /\ read \in Nat /\ begun \in Nat
  BY TypeParts, StreamAssumption DEF UpstreamTypes
<1>2. CASE UNCHANGED <<acc, begun, read>>
  BY <1>2 DEF HeldInv
<1>3. CASE Attempt
  BY <1>3 DEF Attempt, HeldInv, EmptyAccumulator
<1>4. CASE PushHead
  <2> DEFINE e == Head(events)
  <2>1. events # << >> /\ acc' = Push(acc, e) /\ begun' = begun /\ read' = read
    BY <1>4 DEF PushHead
  <2>2. /\ e \in Event /\ e = events[1] /\ 1 \in 1..Len(events)
        /\ acc \in Accumulator
    BY <1>1, <2>1, HeadTailProperties DEF UpstreamTypes
  <2>3. e.type \in Content => e.frame = read /\ read \in begun + 1 .. read
    BY <1>1, <2>1, <2>2 DEF EventsInv
  <2>4. acc.text \in Seq(Nat) /\ acc.thinking \in Seq(Nat) /\ acc.tools \in Seq(Tool)
    BY <2>2 DEF Accumulator
  <2> HIDE DEF e
  <2>5. \A j \in 1..Len(acc'.text) : acc'.text[j] \in begun + 1 .. read
    <3>1. CASE e.type = "text_delta"
      <4>1. acc'.text = Append(acc.text, read)
        BY <2>1, <2>2, <2>3, <3>1, PushSays DEF Content
      <4> QED
        BY <1>1, <2>3, <2>4, <3>1, <4>1, AppendProperties DEF HeldInv, Content
    <3>2. CASE e.type # "text_delta"
      BY <2>1, <2>2, <3>2, PushSays DEF HeldInv
    <3> QED
      BY <3>1, <3>2
  <2>6. \A j \in 1..Len(acc'.thinking) : acc'.thinking[j] \in begun + 1 .. read
    <3>1. CASE e.type = "thinking_delta"
      <4>1. acc'.thinking = Append(acc.thinking, read)
        BY <2>1, <2>2, <2>3, <3>1, PushSays DEF Content
      <4> QED
        BY <1>1, <2>3, <2>4, <3>1, <4>1, AppendProperties DEF HeldInv, Content
    <3>2. CASE e.type # "thinking_delta"
      BY <2>1, <2>2, <3>2, PushSays DEF HeldInv
    <3> QED
      BY <3>1, <3>2
  <2>7. \A j \in 1..Len(acc'.tools) : \E n \in begun + 1 .. read : acc'.tools[j].args = <<n>>
    <3>1. CASE e.type = "tool_use"
      <4> DEFINE t == ToolOf(e)
      <4>1. acc'.tools = Append(acc.tools, t)
        BY <2>1, <2>2, <3>1, PushSays
      <4>2. t.args = <<read>>
        BY <2>3, <3>1 DEF ToolOf, Content
      <4>3. t \in Tool
        BY <2>2, <3>1 DEF ToolOf, Event, Tool
      <4> HIDE DEF t
      <4>4. /\ Len(acc'.tools) = Len(acc.tools) + 1 /\ acc'.tools[Len(acc.tools) + 1] = t
            /\ \A j \in 1..Len(acc.tools) : acc'.tools[j] = acc.tools[j]
            /\ Len(acc.tools) \in Nat
        BY <2>4, <4>1, <4>3, AppendProperties
      <4> SUFFICES ASSUME NEW j \in 1..Len(acc'.tools)
                   PROVE  \E n \in begun + 1 .. read : acc'.tools[j].args = <<n>>
        OBVIOUS
      <4>5. CASE j = Len(acc.tools) + 1
        BY <2>3, <3>1, <4>2, <4>4, <4>5 DEF Content
      <4>6. CASE j \in 1..Len(acc.tools)
        BY <4>4, <4>6 DEF HeldInv
      <4> QED
        BY <4>4, <4>5, <4>6
    <3>2. CASE e.type # "tool_use"
      BY <2>1, <2>2, <3>2, PushSays DEF HeldInv
    <3> QED
      BY <3>1, <3>2
  <2> QED
    BY <2>1, <2>5, <2>6, <2>7 DEF HeldInv
<1>5. ASSUME NEW f \in Frames, ReadFrame(f) PROVE HeldInv'
  <2>1. acc' = acc /\ begun' = begun /\ read' = read + 1
    BY <1>5 DEF ReadFrame
  <2>2. begun + 1 .. read \subseteq begun' + 1 .. read'
    BY <1>1, <2>1
  <2> QED
    BY <2>1, <2>2 DEF HeldInv
<1> QED
  BY <1>2, <1>3, <1>4, <1>5
     DEF Next, Handle, BadBody, BeginRequest, Open, NoAttempt, Canceled, PushSilent,
         PushDelta, PushToolUse, Again, GiveUp, Finish, Answer, Tell, Close, Recover,
         Accepted, Rejected, BreakOff, EndOfBody, Panic, Tick, StopKeepAlive, Leave, upstream

LEMMA TurnStep == TypeOK /\ ControlInv /\ TurnInv /\ Next => TurnInv'
<1> SUFFICES ASSUME TypeOK, ControlInv, TurnInv, Next PROVE TurnInv'
  OBVIOUS
<1>1. CASE EndOfBody
  <2>1. turn = None /\ acc' = acc
    BY <1>1 DEF EndOfBody, TurnInv
  <2> QED
    BY <1>1, <2>1 DEF EndOfBody, TurnInv
<1>2. CASE UNCHANGED <<turn, acc>> /\ pc' = pc
  BY <1>2 DEF TurnInv
<1>3. CASE Finish \/ Answer \/ Close \/ Panic \/ Recover \/ Tell
  <2>1. UNCHANGED <<turn, acc>>
    BY <1>3 DEF Finish, Answer, Close, Panic, Recover, Tell, upstream
  <2>2. /\ pc' \in {"won", "answer"} => pc = "won"
        /\ turn # None => pc' \in {"won", "answer", "closing", "returned"}
    BY <1>3 DEF Finish, Answer, Close, Panic, Recover, Tell, TurnInv
  <2> QED
    BY <2>1, <2>2 DEF TurnInv
<1>4. CASE BadBody \/ (\E s \in BOOLEAN : BeginRequest(s)) \/ Open \/ Attempt \/ NoAttempt
           \/ Canceled \/ Again \/ GiveUp \/ Accepted \/ Rejected \/ BreakOff
  <2>1. /\ turn' = turn /\ pc' \notin {"won", "answer"}
        /\ pc \notin {"won", "answer", "closing", "returned"}
    BY <1>4 DEF BadBody, BeginRequest, Open, Attempt, NoAttempt, Canceled, Again, GiveUp,
         Accepted, Rejected, BreakOff, upstream
  <2> QED
    BY <2>1 DEF TurnInv
<1>5. CASE PushSilent \/ PushDelta \/ PushToolUse \/ \E f \in Frames : ReadFrame(f)
  <2>1. turn' = turn /\ pc' = "reading" /\ pc = "reading"
    BY <1>5 DEF PushSilent, PushDelta, PushToolUse, PushHead, ReadFrame
  <2> QED
    BY <2>1 DEF TurnInv
<1>6. CASE Tick \/ StopKeepAlive \/ Leave
  BY <1>2, <1>6 DEF Tick, StopKeepAlive, Leave, upstream, others
<1> QED
  BY <1>1, <1>3, <1>4, <1>5, <1>6 DEF Next, Handle

-----------------------------------------------------------------------------
(* What was said goes on with what is held.                                *)

LEMMA ContinuesAppend ==
    ASSUME NEW w \in Seq(Nat), NEW a \in Seq(Nat), NEW b \in Nat, NEW n \in Nat,
           Continues(w, a, b)
    PROVE  Continues(w \o <<n>>, Append(a, n), b)
<1> DEFINE v == w \o <<n>>
           c == Append(a, n)
<1>1. /\ Len(w) \in Nat /\ Len(v) = Len(w) + 1 /\ v[Len(w) + 1] = n
      /\ \A j \in 1..Len(w) : v[j] = w[j]
  BY AppendIsConcat, AppendProperties
<1>2. /\ Len(a) \in Nat /\ Len(c) = Len(a) + 1 /\ c[Len(a) + 1] = n
      /\ \A j \in 1..Len(a) : c[j] = a[j]
  BY AppendProperties
<1>3. PICK early \in 0..Len(w) :
         /\ Len(w) = early + Len(a) /\ \A j \in 1..early : w[j] <= b
         /\ \A j \in 1..Len(a) : w[early + j] = a[j]
  BY DEF Continues
<1> HIDE DEF v, c
<1>4. Len(v) = early + Len(c) /\ early \in 0..Len(v)
  BY <1>1, <1>2, <1>3
<1>5. \A j \in 1..early : v[j] <= b
  BY <1>1, <1>3
<1>6. ASSUME NEW j \in 1..Len(c) PROVE v[early + j] = c[j]
  <2>1. CASE j = Len(a) + 1
    <3>1. early + j = Len(w) + 1
      BY <1>1, <1>2, <1>3, <2>1
    <3> QED
      BY <1>1, <1>2, <2>1, <3>1
  <2>2. CASE j \in 1..Len(a)
    <3>1. early + j \in 1..Len(w)
      BY <1>1, <1>2, <1>3, <2>2
    <3> QED
      BY <1>1, <1>2, <1>3, <2>2, <3>1
  <2> QED
    BY <1>2, <2>1, <2>2
<1>7. Continues(v, c, b)
  BY <1>4, <1>5, <1>6 DEF Continues
<1> QED
  BY <1>7 DEF v, c

(* Of a new attempt, everything is early. *)
LEMMA ContinuesAnew ==
    ASSUME NEW w \in Seq(Nat), NEW a \in Seq(Nat), NEW b \in Nat, NEW r \in Nat, b <= r,
           Continues(w, a, b), \A j \in 1..Len(a) : a[j] \in b + 1 .. r
    PROVE  Continues(w, << >>, r)
<1>1. Len(w) \in Nat /\ Len(a) \in Nat /\ \A j \in 1..Len(w) : w[j] \in Nat
  OBVIOUS
<1>2. PICK early \in 0..Len(w) :
         /\ Len(w) = early + Len(a) /\ \A j \in 1..early : w[j] <= b
         /\ \A j \in 1..Len(a) : w[early + j] = a[j]
  BY DEF Continues
<1>3. ASSUME NEW j \in 1..Len(w) PROVE w[j] <= r
  <2>1. CASE j <= early
    BY <1>1, <1>2, <2>1
  <2>2. CASE ~(j <= early)
    <3>1. PICK i \in 1..Len(a) : early + i = j
      <4>1. j - early \in 1..Len(a) /\ early + (j - early) = j
        BY <1>1, <1>2, <2>2
      <4> QED
        BY <4>1
    <3>2. w[j] = a[i] /\ a[i] \in b + 1 .. r
      BY <1>2, <3>1
    <3> QED
      BY <3>2
  <2> QED
    BY <2>1, <2>2
<1>4. Len(w) \in 0..Len(w) /\ Len(w) = Len(w) + Len(<< >>) /\ 1..Len(<< >>) = {}
  BY <1>1
<1>5. \A j \in 1..Len(<< >>) : w[Len(w) + j] = << >>[j]
  BY <1>4
<1> QED
  BY <1>3, <1>4, <1>5 DEF Continues

(* When nothing is early, everything was said of what is held. *)
LEMMA ContinuesWhole ==
    ASSUME NEW w \in Seq(Nat), NEW a \in Seq(Nat), NEW b \in Nat,
           Continues(w, a, b), \A j \in 1..Len(w) : w[j] > b
    PROVE  w = a
<1>1. Len(w) \in Nat /\ Len(a) \in Nat /\ \A j \in 1..Len(w) : w[j] \in Nat
  OBVIOUS
<1>2. PICK early \in 0..Len(w) :
         /\ Len(w) = early + Len(a) /\ \A j \in 1..early : w[j] <= b
         /\ \A j \in 1..Len(a) : w[early + j] = a[j]
  BY DEF Continues
<1>3. early = 0
  <2> SUFFICES ASSUME early # 0 PROVE FALSE
    OBVIOUS
  <2>1. 1 \in 1..Len(w) /\ 1 \in 1..early
    BY <1>1, <1>2
  <2>2. w[1] <= b /\ w[1] > b /\ w[1] \in Nat
    BY <1>1, <1>2, <2>1
  <2> QED
    BY <2>2
<1>4. Len(w) = Len(a) /\ \A j \in 1..Len(w) : w[j] = a[j]
  BY <1>1, <1>2, <1>3
<1> QED
  BY <1>4, SeqEqual

LEMMA CallsAppend ==
    ASSUME NEW w \in Seq(AnswerFrames), NEW a \in Seq(Tool), NEW b \in Nat, NEW t \in Tool,
           CallsContinue(w, a, b)
    PROVE  CallsContinue(w \o <<Called(Len(w), t)>>, Append(a, t), b)
<1> DEFINE f == Called(Len(w), t)
           v == w \o <<f>>
           c == Append(a, t)
<1>1. Len(w) \in Nat
  OBVIOUS
<1>2. f \in AnswerFrames
  BY <1>1, CalledTypes, FrameTypes
<1>3. /\ Len(v) = Len(w) + 1 /\ v[Len(w) + 1] = f
      /\ \A j \in 1..Len(w) : v[j] = w[j]
  <2> HIDE DEF f
  <2> QED
    BY <1>2, AppendIsConcat, AppendProperties
<1>4. /\ Len(a) \in Nat /\ Len(c) = Len(a) + 1 /\ c[Len(a) + 1] = t
      /\ \A j \in 1..Len(a) : c[j] = a[j]
  BY AppendProperties
<1> HIDE DEF v, c, f
<1>5. PICK early \in 0..Len(w) :
         /\ Len(w) = early + Len(a)
         /\ \A j \in 1..early : \E n \in 0..b : w[j].tool.args = <<n>>
         /\ \A j \in 1..Len(a) : w[early + j] = Called(early + j - 1, a[j])
  BY DEF CallsContinue
<1>6. Len(v) = early + Len(c) /\ early \in 0..Len(v)
  BY <1>1, <1>3, <1>4, <1>5
<1>7. \A j \in 1..early : v[j] = w[j]
  BY <1>1, <1>3, <1>5
<1>8. \A j \in 1..early : \E n \in 0..b : v[j].tool.args = <<n>>
  BY <1>5, <1>7
<1>9. ASSUME NEW j \in 1..Len(c) PROVE v[early + j] = Called(early + j - 1, c[j])
  <2>1. CASE j = Len(a) + 1
    <3>1. early + j = Len(w) + 1 /\ early + j - 1 = Len(w)
      BY <1>1, <1>4, <1>5, <2>1
    <3> QED
      BY <1>3, <1>4, <2>1, <3>1 DEF f
  <2>2. CASE j \in 1..Len(a)
    <3>1. early + j \in 1..Len(w)
      BY <1>1, <1>4, <1>5, <2>2
    <3> QED
      BY <1>3, <1>4, <1>5, <2>2, <3>1
  <2> QED
    BY <1>4, <2>1, <2>2
<1>10. CallsContinue(v, c, b)
  BY <1>6, <1>8, <1>9 DEF CallsContinue
<1> QED
  BY <1>10 DEF v, c, f

LEMMA CalledArgs == \A i, t : t \in Tool => Called(i, t).tool.args = t.args
BY DEF Called, Tool

LEMMA CallsAnew ==
    ASSUME NEW w \in Seq(AnswerFrames), NEW a \in Seq(Tool), NEW b \in Nat, NEW r \in Nat,
           b <= r, CallsContinue(w, a, b),
           \A j \in 1..Len(a) : \E n \in b + 1 .. r : a[j].args = <<n>>
    PROVE  CallsContinue(w, << >>, r)
<1>1. Len(w) \in Nat /\ Len(a) \in Nat
  OBVIOUS
<1>2. PICK early \in 0..Len(w) :
         /\ Len(w) = early + Len(a)
         /\ \A j \in 1..early : \E n \in 0..b : w[j].tool.args = <<n>>
         /\ \A j \in 1..Len(a) : w[early + j] = Called(early + j - 1, a[j])
  BY DEF CallsContinue
<1>3. ASSUME NEW j \in 1..Len(w) PROVE \E n \in 0..r : w[j].tool.args = <<n>>
  <2>1. CASE j <= early
    <3>1. j \in 1..early
      BY <1>1, <1>2, <2>1
    <3>2. PICK n \in 0..b : w[j].tool.args = <<n>>
      BY <1>2, <3>1
    <3>3. n \in 0..r
      OBVIOUS
    <3> QED
      BY <3>2, <3>3
  <2>2. CASE ~(j <= early)
    <3>1. PICK i \in 1..Len(a) : early + i = j
      <4>1. j - early \in 1..Len(a) /\ early + (j - early) = j
        BY <1>1, <1>2, <2>2
      <4> QED
        BY <4>1
    <3>2. a[i] \in Tool
      BY ElementOfSeq
    <3>3. w[j].tool.args = a[i].args
      BY <1>2, <3>1, <3>2, CalledArgs
    <3>4. PICK n \in b + 1 .. r : a[i].args = <<n>>
      OBVIOUS
    <3>5. n \in 0..r
      OBVIOUS
    <3> QED
      BY <3>3, <3>4, <3>5
  <2> QED
    BY <2>1, <2>2
<1>4. Len(w) \in 0..Len(w) /\ Len(w) = Len(w) + Len(<< >>) /\ 1..Len(<< >>) = {}
  BY <1>1
<1>5. \A j \in 1..Len(<< >>) : w[Len(w) + j] = Called(Len(w) + j - 1, << >>[j])
  BY <1>4
<1> QED
  BY <1>3, <1>4, <1>5 DEF CallsContinue

LEMMA CallsWhole ==
    ASSUME NEW w \in Seq(AnswerFrames), NEW a \in Seq(Tool), NEW b \in Nat,
           CallsContinue(w, a, b),
           \A j \in 1..Len(w) : \A i \in 1..Len(w[j].tool.args) : w[j].tool.args[i] > b
    PROVE  w = [k \in 1..Len(a) |-> Called(k - 1, a[k])]
<1> DEFINE c == [k \in 1..Len(a) |-> Called(k - 1, a[k])]
<1>1. Len(w) \in Nat /\ Len(a) \in Nat
  OBVIOUS
<1>2. PICK early \in 0..Len(w) :
         /\ Len(w) = early + Len(a)
         /\ \A j \in 1..early : \E n \in 0..b : w[j].tool.args = <<n>>
         /\ \A j \in 1..Len(a) : w[early + j] = Called(early + j - 1, a[j])
  BY DEF CallsContinue
<1>3. early = 0
  <2> SUFFICES ASSUME early # 0 PROVE FALSE
    OBVIOUS
  <2>1. 1 \in 1..Len(w) /\ 1 \in 1..early
    BY <1>1, <1>2
  <2>2. PICK n \in 0..b : w[1].tool.args = <<n>>
    BY <1>2, <2>1
  <2>3. \A i \in 1..Len(<<n>>) : <<n>>[i] > b
    BY <2>1, <2>2
  <2>4. Len(<<n>>) = 1 /\ <<n>>[1] = n
    OBVIOUS
  <2>5. n > b
    BY <2>3, <2>4
  <2> QED
    BY <2>2, <2>5
<1>4. Len(w) = Len(a)
  BY <1>1, <1>2, <1>3
<1>5. \A k \in 1..Len(a) : a[k] \in Tool
  BY ElementOfSeq
<1>6. \A k \in 1..Len(a) : Called(k - 1, a[k]) \in AnswerFrames
  BY <1>1, <1>5, CalledTypes, FrameTypes
<1>7. c \in Seq(AnswerFrames) /\ Len(c) = Len(a)
  BY <1>1, <1>6
<1>8. ASSUME NEW j \in 1..Len(w) PROVE w[j] = c[j]
  <2>1. j \in 1..Len(a) /\ early + j = j /\ early + j - 1 = j - 1
    BY <1>1, <1>3, <1>4
  <2>2. w[early + j] = Called(early + j - 1, a[j])
    BY <1>2, <2>1
  <2>3. w[j] = Called(j - 1, a[j])
    BY <2>1, <2>2
  <2> QED
    BY <2>1, <2>3
<1> HIDE DEF c
<1>9. w = c
  BY <1>4, <1>7, <1>8, SeqEqual
<1> QED
  BY <1>9 DEF c

-----------------------------------------------------------------------------
(* What was written, while the answer is not over.                         *)

(* The parts of WrittenInv, each a kind of its own. *)
Spoken(kind, held, count) ==
    /\ Continues(Parts(kind, Written), held, begun)
    /\ count = 0 => Parts(kind, Written) = << >>

SpokenCalls ==
    /\ CallsContinue(Parts("tool", Written), acc.tools, begun)
    /\ streamed.tools = Len(Parts("tool", Written))

LEMMA WrittenParts ==
    WrittenInv <=> /\ Spoken("text", acc.text, streamed.text)
                   /\ Spoken("thinking", acc.thinking, streamed.thinking)
                   /\ SpokenCalls
BY DEF WrittenInv, Spoken, SpokenCalls

LEMMA WrittenTypes ==
    ASSUME AnswerTypes
    PROVE  /\ Written \in Seq(AnswerFrames)
           /\ Parts("text", Written) \in Seq(Nat)
           /\ Parts("thinking", Written) \in Seq(Nat)
           /\ Parts("tool", Written) \in Seq(AnswerFrames)
<1>1. Written \in Seq(AnswerFrames)
  BY ConcatProperties, EmptySeq DEF AnswerTypes, Written
<1>2. \A kind \in Kinds : Parts(kind, Written) \in Seq(Unit(kind))
  BY <1>1, PartsTypes
<1> QED
  BY <1>1, <1>2 DEF Kinds, Unit

(* One more frame. *)
LEMMA PartsOfOne ==
    ASSUME NEW kind \in Kinds, NEW s \in Seq(AnswerFrames), NEW f \in AnswerFrames
    PROVE  Parts(kind, s \o <<f>>) = Parts(kind, s) \o Part(kind, f)
BY PartsAppend, AppendIsConcat

(* Where nothing is written and nothing is pushed. *)
LEMMA WrittenSame ==
    ASSUME WrittenInv, UNCHANGED <<Written, begun, streamed>>,
           acc'.text = acc.text, acc'.thinking = acc.thinking, acc'.tools = acc.tools
    PROVE  WrittenInv'
BY WrittenParts DEF WrittenInv, Spoken, SpokenCalls

(* A request begins with nothing said. *)
LEMMA WrittenBegins ==
    TypeOK /\ EmptyInv /\ IdleInv /\ (\E s \in BOOLEAN : BeginRequest(s)) => WrittenInv'
<1> SUFFICES ASSUME TypeOK, EmptyInv, IdleInv, NEW s \in BOOLEAN, BeginRequest(s)
             PROVE  WrittenInv'
  OBVIOUS
<1>1. /\ pc = "idle" /\ sent = << >> /\ buf = << >> /\ acc = EmptyAccumulator
      /\ streamed.tools = 0 /\ UNCHANGED <<sent, buf, acc, begun, streamed>>
  BY DEF BeginRequest, upstream, answer, EmptyInv, IdleInv, Over
<1>2. Written' = << >>
  BY <1>1, ConcatEmptySeq DEF Written
<1>3. \A kind : Parts(kind, Written)' = << >>
  BY <1>2, PartsEmpty
<1>4. \A b : Continues(<< >>, << >>, b) /\ CallsContinue(<< >>, << >>, b)
  BY DEF Continues, CallsContinue
<1> QED
  BY <1>1, <1>2, <1>4, PartsEmpty DEF WrittenInv, EmptyAccumulator

(* The role is no content. *)
LEMMA WrittenOpens ==
    TypeOK /\ EmptyInv /\ WrittenInv /\ Open => WrittenInv'
<1> SUFFICES ASSUME TypeOK, EmptyInv, WrittenInv, Open PROVE WrittenInv'
  OBVIOUS
<1>1. AnswerTypes /\ Role \in AnswerFrames
  BY TypeParts, FrameTypes
<1>2. stream = TRUE /\ stream' = TRUE /\ Flush(<<Role>>)
      /\ UNCHANGED <<acc, begun, streamed>>
  BY DEF Open, EmptyInv, TypeOK, upstream
<1>3. Written' = Written \o <<Role>> /\ Written \in Seq(AnswerFrames)
  BY <1>1, <1>2, OneFrame, WrittenFlush
<1>4. ASSUME NEW kind \in Kinds PROVE Parts(kind, Written') = Parts(kind, Written)
  <2>1. Part(kind, Role) = << >>
    BY DEF Part, Role, Kinds
  <2>2. Parts(kind, Written') = Parts(kind, Written) \o << >>
    BY <1>1, <1>3, <2>1, PartsOfOne
  <2> QED
    BY <1>3, <2>2, PartsTypes, ConcatEmptySeq
<1> QED
  BY <1>2, <1>4 DEF WrittenInv, Kinds

(* A new attempt starts with an empty accumulator: all that was said is    *)
(* early now.                                                              *)
LEMMA WrittenRetries ==
    TypeOK /\ HeldInv /\ WrittenInv /\ Attempt /\ stream' = stream => WrittenInv'
<1> SUFFICES ASSUME TypeOK, HeldInv, WrittenInv, Attempt, stream' = stream PROVE WrittenInv'
  OBVIOUS
<1>1. UpstreamTypes /\ AnswerTypes
  BY TypeParts
<1>2. acc' = EmptyAccumulator /\ begun' = read /\ UNCHANGED <<sent, buf, streamed>>
  BY DEF Attempt, answer
<1>3. Written' = Written
  BY <1>2 DEF Written
<1>4. /\ begun \in Nat /\ read \in Nat /\ begun <= read
      /\ acc.text \in Seq(Nat) /\ acc.thinking \in Seq(Nat) /\ acc.tools \in Seq(Tool)
  BY <1>1, StreamAssumption DEF UpstreamTypes, Accumulator
<1>5. Continues(Parts("text", Written), << >>, read)
  BY <1>1, <1>4, WrittenTypes, WrittenParts, ContinuesAnew DEF Spoken, HeldInv
<1>6. Continues(Parts("thinking", Written), << >>, read)
  BY <1>1, <1>4, WrittenTypes, WrittenParts, ContinuesAnew DEF Spoken, HeldInv
<1>7. CallsContinue(Parts("tool", Written), << >>, read)
  BY <1>1, <1>4, WrittenTypes, WrittenParts, CallsAnew DEF SpokenCalls, HeldInv
<1> QED
  BY <1>2, <1>3, <1>5, <1>6, <1>7 DEF WrittenInv, EmptyAccumulator

(* A delta is said and held. *)
LEMMA WrittenDelta ==
    TypeOK /\ EventsInv /\ WrittenInv /\ PushDelta => WrittenInv'
<1> SUFFICES ASSUME TypeOK, EventsInv, WrittenInv, PushDelta PROVE WrittenInv'
  OBVIOUS
<1>1. UpstreamTypes /\ AnswerTypes
  BY TypeParts
<1> DEFINE e == Head(events)
           f == Said(Kind(e), <<e.frame>>)
<1>2. /\ e \in Event /\ e.type \in {"text_delta", "thinking_delta"}
      /\ f \in AnswerFrames /\ acc \in Accumulator
  BY <1>1, HeadOfDelta DEF PushDelta, PushHead, UpstreamTypes
<1>3. /\ stream = TRUE /\ stream' = TRUE /\ begun' = begun /\ acc' = Push(acc, e)
      /\ streamed' = [streamed EXCEPT ![Kind(e)] = @ + 1] /\ Write(<<f>>)
  BY DEF PushDelta, PushHead, TypeOK
<1>4. e.frame \in Nat /\ begun \in Nat
  BY <1>1, <1>2, StreamAssumption DEF Event, UpstreamTypes
<1>5. /\ acc.text \in Seq(Nat) /\ acc.thinking \in Seq(Nat)
      /\ streamed \in [text : Nat, thinking : Nat, tools : Nat]
  BY <1>1, <1>2 DEF Accumulator, AnswerTypes
<1>6. f.kind = Kind(e) /\ f.of = <<e.frame>> /\ Kind(e) \in {"text", "thinking"}
  BY DEF Said, Kind
<1>7. Written' = Written \o <<f>> /\ Written \in Seq(AnswerFrames)
  <2>1. <<f>> \in Seq(AnswerFrames)
    BY <1>2, OneFrame
  <2> HIDE DEF e, f
  <2> QED
    BY <1>1, <1>3, <2>1, WrittenFlush DEF Write
<1> HIDE DEF e, f
<1>8. \A kind \in Kinds : Parts(kind, Written') = Parts(kind, Written) \o Part(kind, f)
  BY <1>2, <1>7, PartsOfOne
<1>9. \A kind \in Kinds : kind # f.kind => Parts(kind, Written') = Parts(kind, Written)
  <2>1. \A kind \in Kinds : kind # f.kind => Part(kind, f) = << >>
    BY DEF Part
  <2> QED
    BY <1>7, <1>8, <2>1, PartsTypes, ConcatEmptySeq
<1>10. Parts(f.kind, Written') = Parts(f.kind, Written) \o <<e.frame>>
  BY <1>6, <1>8 DEF Part, Kinds
<1>11. acc'.tools = acc.tools /\ streamed'.tools = streamed.tools
  BY <1>2, <1>3, <1>5, <1>6, PushSays
<1>12. SpokenCalls'
  <2>1. Parts("tool", Written') = Parts("tool", Written)
    BY <1>6, <1>9 DEF Kinds
  <2> QED
    BY <1>3, <1>11, <2>1, WrittenParts DEF SpokenCalls
<1>13. CASE e.type = "text_delta"
  <2>1. f.kind = "text" /\ Kind(e) = "text"
    BY <1>6, <1>13 DEF Kind
  <2>2. acc'.text = Append(acc.text, e.frame) /\ acc'.thinking = acc.thinking
    BY <1>2, <1>3, <1>13, PushSays
  <2>3. streamed'.text # 0 /\ streamed'.thinking = streamed.thinking
    BY <1>3, <1>5, <2>1
  <2>4. Spoken("thinking", acc.thinking, streamed.thinking)'
    <3>1. Parts("thinking", Written') = Parts("thinking", Written)
      BY <1>9, <2>1 DEF Kinds
    <3> QED
      BY <1>3, <2>2, <2>3, <3>1, WrittenParts DEF Spoken
  <2>5. Spoken("text", acc.text, streamed.text)'
    <3>1. Continues(Parts("text", Written) \o <<e.frame>>, Append(acc.text, e.frame), begun)
      BY <1>1, <1>4, <1>5, WrittenTypes, WrittenParts, ContinuesAppend DEF Spoken
    <3> QED
      BY <1>3, <1>10, <2>1, <2>2, <2>3, <3>1 DEF Spoken
  <2> QED
    BY <1>12, <2>4, <2>5 DEF WrittenInv, Spoken, SpokenCalls
<1>14. CASE e.type = "thinking_delta"
  <2>1. f.kind = "thinking" /\ Kind(e) = "thinking"
    BY <1>6, <1>14 DEF Kind
  <2>2. acc'.thinking = Append(acc.thinking, e.frame) /\ acc'.text = acc.text
    BY <1>2, <1>3, <1>14, PushSays
  <2>3. streamed'.thinking # 0 /\ streamed'.text = streamed.text
    BY <1>3, <1>5, <2>1
  <2>4. Spoken("text", acc.text, streamed.text)'
    <3>1. Parts("text", Written') = Parts("text", Written)
      BY <1>9, <2>1 DEF Kinds
    <3> QED
      BY <1>3, <2>2, <2>3, <3>1, WrittenParts DEF Spoken
  <2>5. Spoken("thinking", acc.thinking, streamed.thinking)'
    <3>1. Continues(Parts("thinking", Written) \o <<e.frame>>,
                    Append(acc.thinking, e.frame), begun)
      BY <1>1, <1>4, <1>5, WrittenTypes, WrittenParts, ContinuesAppend DEF Spoken
    <3> QED
      BY <1>3, <1>10, <2>1, <2>2, <2>3, <3>1 DEF Spoken
  <2> QED
    BY <1>12, <2>4, <2>5 DEF WrittenInv, Spoken, SpokenCalls
<1> QED
  BY <1>2, <1>13, <1>14

(* A tool call is said under the next index and held. *)
LEMMA WrittenToolUse ==
    TypeOK /\ EventsInv /\ WrittenInv /\ PushToolUse => WrittenInv'
<1> SUFFICES ASSUME TypeOK, EventsInv, WrittenInv, PushToolUse PROVE WrittenInv'
  OBVIOUS
<1>1. UpstreamTypes /\ AnswerTypes
  BY TypeParts
<1> DEFINE e == Head(events)
           t == ToolOf(e)
           f == Called(streamed.tools, t)
<1>2. e \in Event /\ e.type = "tool_use" /\ acc \in Accumulator
  BY <1>1, HeadOfDelta DEF PushToolUse, PushHead, UpstreamTypes
<1>3. t \in Tool
  BY <1>2 DEF ToolOf, Event, Tool
<1>4. /\ begun \in Nat /\ acc.tools \in Seq(Tool)
      /\ streamed \in [text : Nat, thinking : Nat, tools : Nat]
  BY <1>1, <1>2, StreamAssumption DEF UpstreamTypes, Accumulator, AnswerTypes
<1>5. f \in AnswerFrames /\ f.kind = "tool"
  <2> HIDE DEF t
  <2> QED
    BY <1>3, <1>4, CalledTypes, FrameTypes DEF Called
<1>6. /\ stream = TRUE /\ stream' = TRUE /\ begun' = begun /\ acc' = Push(acc, e)
      /\ streamed' = [streamed EXCEPT !.tools = @ + 1] /\ Write(<<f>>)
  BY DEF PushToolUse, PushHead, TypeOK, ToolOf
<1> HIDE DEF e, t, f
<1>7. Written' = Written \o <<f>> /\ Written \in Seq(AnswerFrames)
  <2>1. <<f>> \in Seq(AnswerFrames)
    BY <1>5, OneFrame
  <2> QED
    BY <1>1, <1>6, <2>1, WrittenFlush DEF Write
<1>8. \A kind \in Kinds : Parts(kind, Written') = Parts(kind, Written) \o Part(kind, f)
  BY <1>5, <1>7, PartsOfOne
<1>9. ASSUME NEW kind \in {"text", "thinking"}
      PROVE  Parts(kind, Written') = Parts(kind, Written)
  <2>1. Part(kind, f) = << >> /\ kind \in Kinds
    BY <1>5 DEF Part, Kinds
  <2>2. Parts(kind, Written') = Parts(kind, Written) \o << >>
    BY <1>8, <2>1
  <2> QED
    BY <1>7, <2>1, <2>2, PartsTypes, ConcatEmptySeq
<1>10. Parts("tool", Written') = Parts("tool", Written) \o <<f>>
  BY <1>5, <1>8 DEF Part, Kinds
<1>11. /\ acc'.text = acc.text /\ acc'.thinking = acc.thinking
       /\ acc'.tools = Append(acc.tools, t)
  BY <1>2, <1>6, PushSays DEF t
<1>12. /\ streamed'.text = streamed.text /\ streamed'.thinking = streamed.thinking
       /\ streamed'.tools = streamed.tools + 1
  BY <1>4, <1>6
<1>13. Spoken("text", acc.text, streamed.text)'
       /\ Spoken("thinking", acc.thinking, streamed.thinking)'
  BY <1>6, <1>9, <1>11, <1>12, WrittenParts DEF Spoken
<1>14. SpokenCalls'
  <2>1. Parts("tool", Written) \in Seq(AnswerFrames)
    BY <1>1, WrittenTypes
  <2>2. streamed.tools = Len(Parts("tool", Written))
        /\ CallsContinue(Parts("tool", Written), acc.tools, begun)
    BY WrittenParts DEF SpokenCalls
  <2>3. CallsContinue(Parts("tool", Written) \o <<f>>, Append(acc.tools, t), begun)
    BY <1>3, <1>4, <2>1, <2>2, CallsAppend DEF f
  <2>4. Len(Parts("tool", Written) \o <<f>>) = Len(Parts("tool", Written)) + 1
    BY <1>5, <2>1, AppendIsConcat, AppendProperties
  <2> QED
    BY <1>6, <1>10, <1>11, <1>12, <2>2, <2>3, <2>4 DEF SpokenCalls
<1> QED
  BY <1>13, <1>14 DEF WrittenInv, Spoken, SpokenCalls

(* A comment flushes what was written, and adds nothing. *)
LEMMA WrittenTick == TypeOK /\ EmptyInv /\ Tick => Written' = Written
<1> SUFFICES ASSUME TypeOK, EmptyInv, Tick PROVE Written' = Written
  OBVIOUS
<1>1. AnswerTypes /\ stream = TRUE /\ stream' = TRUE
  BY TypeParts DEF Tick, EmptyInv, TypeOK
<1>2. CASE done
  BY <1>1, <1>2 DEF Tick, Written
<1>3. CASE ~done
  <2>1. Flush(<< >>)
    BY <1>3 DEF Tick
  <2>2. Written' = Written \o << >> /\ Written \in Seq(AnswerFrames)
    BY <1>1, <2>1, EmptySeq, WrittenFlush
  <2> QED
    BY <2>2, ConcatEmptySeq
<1> QED
  BY <1>2, <1>3

LEMMA WrittenStep ==
    ASSUME TypeOK, EmptyInv, AttemptInv, stream /\ ~Over => WrittenInv, Next,
           stream', ~Over'
    PROVE  WrittenInv'
<1>1. IdleInv /\ EventsInv /\ HeldInv
  BY AttemptParts
<1>2. UpstreamTypes /\ AnswerTypes
  BY TypeParts
<1>3. CASE \E s \in BOOLEAN : BeginRequest(s)
  BY <1>1, <1>3, WrittenBegins
<1>4. CASE BadBody \/ Answer \/ Tell \/ Close \/ Recover
  <2>1. pc' \in {"closing", "returned"}
    BY <1>4 DEF BadBody, Answer, Tell, Close, Recover
  <2> QED
    BY <2>1 DEF Over
<1>5. CASE Open
  <2>1. stream /\ ~Over
    BY <1>5 DEF Open, EmptyInv, Over
  <2> QED
    BY <1>5, <2>1, WrittenOpens
<1>6. CASE Attempt
  <2>1. stream' = stream /\ ~Over
    BY <1>6 DEF Attempt, Over, others
  <2> QED
    BY <1>1, <1>6, <2>1, WrittenRetries
<1>7. CASE PushDelta
  <2>1. stream /\ ~Over
    BY <1>7 DEF PushDelta, PushHead, Over
  <2> QED
    BY <1>1, <1>7, <2>1, WrittenDelta
<1>8. CASE PushToolUse
  <2>1. stream /\ ~Over
    BY <1>8 DEF PushToolUse, PushHead, Over
  <2> QED
    BY <1>1, <1>8, <2>1, WrittenToolUse
<1>9. CASE PushSilent
  <2>1. /\ pc = "reading" /\ ~Over /\ stream' = stream /\ events # << >>
        /\ UNCHANGED <<sent, buf, streamed, begun>> /\ acc' = Push(acc, Head(events))
    BY <1>9 DEF PushSilent, PushHead, Over
  <2>2. stream /\ ~done
    BY <2>1 DEF EmptyInv
  <2>3. Head(events).type \in {"usage", "upstream_error", "tool_call_delta"}
    BY <1>9, <2>2 DEF PushSilent
  <2>4. Head(events) \in Event /\ acc \in Accumulator
    BY <1>2, <2>1, HeadTailProperties DEF UpstreamTypes
  <2>5. acc'.text = acc.text /\ acc'.thinking = acc.thinking /\ acc'.tools = acc.tools
    BY <2>1, <2>3, <2>4, PushSays
  <2>6. Written' = Written
    BY <2>1 DEF Written
  <2> QED
    BY <2>1, <2>2, <2>5, <2>6, WrittenSame
<1>10. CASE Tick
  <2>1. Written' = Written /\ UNCHANGED <<begun, streamed, acc, stream, pc>>
    BY <1>10, WrittenTick DEF Tick, upstream
  <2> QED
    BY <2>1, WrittenSame DEF Over
<1>11. CASE NoAttempt \/ Canceled \/ Again \/ GiveUp \/ Finish \/ Accepted \/ Rejected
            \/ BreakOff \/ EndOfBody \/ (\E f \in Frames : ReadFrame(f)) \/ Panic
            \/ StopKeepAlive \/ Leave
  <2>1. UNCHANGED <<sent, buf, begun, streamed, acc, stream>>
    BY <1>11 DEF NoAttempt, Canceled, Again, GiveUp, Finish, Accepted, Rejected, BreakOff,
         EndOfBody, ReadFrame, Panic, StopKeepAlive, Leave, upstream, answer
  <2>2. ~Over
    BY <1>11 DEF NoAttempt, Canceled, Again, GiveUp, Finish, Accepted, Rejected, BreakOff,
         EndOfBody, ReadFrame, Panic, StopKeepAlive, Leave, Over
  <2>3. Written' = Written
    BY <2>1 DEF Written
  <2> QED
    BY <2>1, <2>2, <2>3, WrittenSame
<1> QED
  BY <1>3, <1>4, <1>5, <1>6, <1>7, <1>8, <1>9, <1>10, <1>11 DEF Next, Handle

-----------------------------------------------------------------------------
(* The end of the answer: what was not streamed is said.                   *)

LEMMA PartsOne ==
    ASSUME NEW kind \in Kinds, NEW f \in AnswerFrames
    PROVE  Parts(kind, <<f>>) = Part(kind, f)
<1>1. << >> \in Seq(AnswerFrames) /\ Append(<< >>, f) = <<f>>
  OBVIOUS
<1>2. Part(kind, f) \in Seq(Unit(kind))
  BY PartTypes
<1>3. Parts(kind, <<f>>) = << >> \o Part(kind, f)
  BY <1>1, PartsAppend, PartsEmpty
<1> QED
  BY <1>2, <1>3, ConcatEmptySeq

(* A text that was not streamed is said whole, or not at all. *)
LEMMA PartsOfText ==
    ASSUME NEW kind \in Kinds, NEW of \in {"text", "thinking"}, NEW x \in Seq(Nat),
           NEW asked \in BOOLEAN
    PROVE  LET s == IF asked /\ x # << >> THEN <<Said(of, x)>> ELSE << >> IN
           /\ s \in Seq(AnswerFrames)
           /\ Parts(kind, s) = IF kind = of /\ asked THEN x ELSE << >>
<1> DEFINE f == Said(of, x)
<1>1. f \in AnswerFrames /\ f.kind = of /\ f.of = x
  BY SaidTypes, FrameTypes DEF Said
<1>2. Part(kind, f) = IF kind = of THEN x ELSE << >>
  BY <1>1 DEF Part
<1> HIDE DEF f
<1>3. <<f>> \in Seq(AnswerFrames) /\ Parts(kind, <<f>>) = Part(kind, f)
  BY <1>1, OneFrame, PartsOne
<1>4. << >> \in Seq(AnswerFrames) /\ Parts(kind, << >>) = << >>
  BY PartsEmpty
<1>5. CASE asked /\ x # << >>
  BY <1>2, <1>3, <1>5 DEF f
<1>6. CASE ~(asked /\ x # << >>)
  BY <1>4, <1>6
<1> QED
  BY <1>5, <1>6

(* The tool calls of a turn, under their indices. *)
Calls(tools) == [k \in 1..Len(tools) |-> Called(k - 1, tools[k])]

LEMMA PartsOfCalls ==
    ASSUME NEW kind \in Kinds, NEW tools \in Seq(Tool), NEW asked \in BOOLEAN
    PROVE  LET s == IF asked THEN Calls(tools) ELSE << >> IN
           /\ s \in Seq(AnswerFrames)
           /\ Parts(kind, s) = IF kind = "tool" /\ asked THEN Calls(tools) ELSE << >>
<1> DEFINE c == Calls(tools)
<1>1. Len(tools) \in Nat /\ \A k \in 1..Len(tools) : tools[k] \in Tool
  BY ElementOfSeq
<1>2. \A k \in 1..Len(tools) : Called(k - 1, tools[k]) \in AnswerFrames
  BY <1>1, CalledTypes, FrameTypes
<1>3. c \in Seq(AnswerFrames) /\ Len(c) = Len(tools)
  BY <1>1, <1>2 DEF Calls
<1>4. \A k \in 1..Len(c) : c[k].kind = "tool"
  BY <1>3 DEF Calls, Called
<1> HIDE DEF c
<1>5. kind = "tool" => Parts(kind, c) = c
  BY <1>3, <1>4, PartsTools
<1>6. kind # "tool" => Parts(kind, c) = << >>
  BY <1>3, <1>4, PartsNone
<1>7. << >> \in Seq(AnswerFrames) /\ Parts(kind, << >>) = << >>
  BY PartsEmpty
<1> QED
  BY <1>3, <1>5, <1>6, <1>7 DEF c

(* What the end of an answer says of each kind. *)
LEMMA EndSays ==
    ASSUME AnswerTypes, NEW t \in Turn, turn = t
    PROVE  /\ Unstreamed \o Closing \in Seq(AnswerFrames)
           /\ Parts("text", Unstreamed \o Closing)
                = IF streamed.text = 0 THEN t.text ELSE << >>
           /\ Parts("thinking", Unstreamed \o Closing)
                = IF streamed.thinking = 0 THEN t.thinking ELSE << >>
           /\ Parts("tool", Unstreamed \o Closing)
                = IF streamed.tools = 0 THEN Calls(t.tools) ELSE << >>
<1> DEFINE texts == IF streamed.text = 0 /\ t.text # << >>
                       THEN <<Said("text", t.text)>> ELSE << >>
           thoughts == IF streamed.thinking = 0 /\ t.thinking # << >>
                          THEN <<Said("thinking", t.thinking)>> ELSE << >>
           tools == IF streamed.tools = 0 THEN Calls(t.tools) ELSE << >>
<1>1. t.text \in Seq(Nat) /\ t.thinking \in Seq(Nat) /\ t.tools \in Seq(Tool)
  BY DEF Turn
<1>2. /\ Unstreamed = (texts \o thoughts) \o tools
      /\ Unstreamed \in Seq(AnswerFrames) /\ Closing \in Seq(AnswerFrames)
  <2>1. Unstreamed \in Seq(AnswerFrames) /\ Closing \in Seq(AnswerFrames)
    BY UnstreamedTypes, ClosingTypes, FrameTypes, SeqMonotonic
  <2> QED
    BY <2>1 DEF Unstreamed, Calls
<1>3. \A kind \in Kinds : Parts(kind, Closing) = << >>
  <2>1. \A k \in 1..Len(Closing) : Closing[k].kind \in {"finish", "usage", "done"}
    BY DEF Closing, Done
  <2> QED
    BY <1>2, <2>1, PartsNone DEF Kinds
<1>4. ASSUME NEW kind \in Kinds
      PROVE  /\ texts \in Seq(AnswerFrames)
             /\ Parts(kind, texts)
                  = IF kind = "text" /\ streamed.text = 0 THEN t.text ELSE << >>
  <2>1. (streamed.text = 0) \in BOOLEAN
    OBVIOUS
  <2> QED
    BY <1>1, <2>1, PartsOfText
<1>5. ASSUME NEW kind \in Kinds
      PROVE  /\ thoughts \in Seq(AnswerFrames)
             /\ Parts(kind, thoughts)
                  = IF kind = "thinking" /\ streamed.thinking = 0 THEN t.thinking ELSE << >>
  <2>1. (streamed.thinking = 0) \in BOOLEAN
    OBVIOUS
  <2> QED
    BY <1>1, <2>1, PartsOfText
<1>6. ASSUME NEW kind \in Kinds
      PROVE  /\ tools \in Seq(AnswerFrames)
             /\ Parts(kind, tools)
                  = IF kind = "tool" /\ streamed.tools = 0 THEN Calls(t.tools) ELSE << >>
  <2>1. (streamed.tools = 0) \in BOOLEAN
    OBVIOUS
  <2> QED
    BY <1>1, <2>1, PartsOfCalls
<1> HIDE DEF texts, thoughts, tools
<1>7. ASSUME NEW kind \in Kinds
      PROVE  Parts(kind, Unstreamed \o Closing)
               = ((Parts(kind, texts) \o Parts(kind, thoughts)) \o Parts(kind, tools)) \o << >>
  <2>1. texts \o thoughts \in Seq(AnswerFrames)
    BY <1>4, <1>5, ConcatProperties
  <2>2. Parts(kind, texts \o thoughts) = Parts(kind, texts) \o Parts(kind, thoughts)
    BY <1>4, <1>5, PartsConcat
  <2>3. Parts(kind, Unstreamed) = Parts(kind, texts \o thoughts) \o Parts(kind, tools)
    BY <1>2, <1>6, <2>1, PartsConcat
  <2>4. Parts(kind, Unstreamed \o Closing) = Parts(kind, Unstreamed) \o Parts(kind, Closing)
    BY <1>2, PartsConcat
  <2> QED
    BY <1>3, <2>2, <2>3, <2>4
<1>8. \A T : \A x \in Seq(T) : /\ ((x \o << >>) \o << >>) \o << >> = x
                               /\ ((<< >> \o x) \o << >>) \o << >> = x
                               /\ ((<< >> \o << >>) \o x) \o << >> = x
  BY ConcatEmptySeq, EmptySeq
<1>9. \A x : x \in Seq(Nat) => << >> \in Seq(Nat)
  OBVIOUS
<1>10. Unstreamed \o Closing \in Seq(AnswerFrames)
  BY <1>2, ConcatProperties
<1>11. Parts("text", Unstreamed \o Closing) = IF streamed.text = 0 THEN t.text ELSE << >>
  <2> DEFINE x == IF streamed.text = 0 THEN t.text ELSE << >>
  <2>1. x \in Seq(Nat)
    BY <1>1, <1>9
  <2>2. Parts("text", Unstreamed \o Closing) = ((x \o << >>) \o << >>) \o << >>
    BY <1>4, <1>5, <1>6, <1>7 DEF Kinds
  <2> HIDE DEF x
  <2>3. Parts("text", Unstreamed \o Closing) = x
    BY <1>8, <2>1, <2>2
  <2> QED
    BY <2>3 DEF x
<1>12. Parts("thinking", Unstreamed \o Closing)
         = IF streamed.thinking = 0 THEN t.thinking ELSE << >>
  <2> DEFINE x == IF streamed.thinking = 0 THEN t.thinking ELSE << >>
  <2>1. x \in Seq(Nat)
    BY <1>1, <1>9
  <2>2. Parts("thinking", Unstreamed \o Closing) = ((<< >> \o x) \o << >>) \o << >>
    BY <1>4, <1>5, <1>6, <1>7 DEF Kinds
  <2> HIDE DEF x
  <2>3. Parts("thinking", Unstreamed \o Closing) = x
    BY <1>8, <2>1, <2>2
  <2> QED
    BY <2>3 DEF x
<1>13. Parts("tool", Unstreamed \o Closing)
         = IF streamed.tools = 0 THEN Calls(t.tools) ELSE << >>
  <2>1. "tool" \in Kinds
    BY DEF Kinds
  <2>2. Parts("tool", tools) = tools /\ tools \in Seq(AnswerFrames)
    BY <1>6, <2>1 DEF tools
  <2>3. Parts("tool", Unstreamed \o Closing) = ((<< >> \o << >>) \o tools) \o << >>
    BY <1>4, <1>5, <1>7, <2>1, <2>2
  <2>4. Parts("tool", Unstreamed \o Closing) = tools
    BY <1>8, <2>2, <2>3
  <2> QED
    BY <2>4 DEF tools
<1> QED
  BY <1>10, <1>11, <1>12, <1>13

(* The reason to finish is the tool calls when the turn has some. *)
FinishOfCalls == [kind |-> "finish", reason |-> "tool_calls"]

LEMMA ClosingFinish == FinishOfCalls \in ToSet(Closing) <=> turn.tools # << >>
<1> DEFINE f == [kind |-> "finish",
                 reason |-> IF turn.tools # << >> THEN "tool_calls" ELSE "stop"]
           u == [kind |-> "usage", usage |-> turn.usage]
<1>1. (f = FinishOfCalls <=> turn.tools # << >>) /\ u.kind = "usage" /\ Done.kind = "done"
  BY DEF FinishOfCalls, Done
<1>2. Closing = <<f, u, Done>>
  BY DEF Closing
<1> HIDE DEF f, u
<1>3. ToSet(Closing) = {f, u, Done}
  BY <1>2 DEF ToSet
<1>4. FinishOfCalls.kind = "finish"
  BY DEF FinishOfCalls
<1> QED
  BY <1>1, <1>3, <1>4

LEMMA PlainFinish ==
    ASSUME NEW s \in Seq(AnswerFrames), Plain(s)
    PROVE  FinishOfCalls \notin ToSet(s)
<1>1. DOMAIN s = 1..Len(s)
  BY LenProperties
<1>2. \A f \in ToSet(s) : f.kind \in {"role", "text", "thinking", "tool"}
  BY <1>1 DEF ToSet, Plain
<1> QED
  BY <1>2 DEF FinishOfCalls

(* Where no frame is older, nothing that is said is. *)
LEMMA LastText ==
    ASSUME NEW kind \in {"text", "thinking"}, NEW s \in Seq(AnswerFrames), NEW b \in Nat,
           \A k \in 1..Len(s) : s[k].kind = kind => \A j \in 1..Len(s[k].of) : s[k].of[j] > b
    PROVE  \A j \in 1..Len(Parts(kind, s)) : Parts(kind, s)[j] > b
<1> SUFFICES ASSUME NEW j \in 1..Len(Parts(kind, s)) PROVE Parts(kind, s)[j] > b
  OBVIOUS
<1>1. kind \in Kinds
  BY DEF Kinds
<1>2. PICK k \in 1..Len(s) : \E i \in 1..Len(Part(kind, s[k])) :
         Parts(kind, s)[j] = Part(kind, s[k])[i]
  BY <1>1, PartsElements
<1>3. CASE s[k].kind = kind
  <2>1. Part(kind, s[k]) = s[k].of
    BY <1>3 DEF Part
  <2> QED
    BY <1>2, <1>3, <2>1
<1>4. CASE s[k].kind # kind
  <2>1. Len(Part(kind, s[k])) = 0
    BY <1>4 DEF Part
  <2> QED
    BY <1>2, <2>1
<1> QED
  BY <1>3, <1>4

LEMMA LastCalls ==
    ASSUME NEW s \in Seq(AnswerFrames), NEW b \in Nat,
           \A k \in 1..Len(s) : s[k].kind = "tool" =>
               \A i \in 1..Len(s[k].tool.args) : s[k].tool.args[i] > b
    PROVE  \A j \in 1..Len(Parts("tool", s)) :
               \A i \in 1..Len(Parts("tool", s)[j].tool.args) :
                   Parts("tool", s)[j].tool.args[i] > b
<1> SUFFICES ASSUME NEW j \in 1..Len(Parts("tool", s))
             PROVE  \A i \in 1..Len(Parts("tool", s)[j].tool.args) :
                        Parts("tool", s)[j].tool.args[i] > b
  OBVIOUS
<1>1. "tool" \in Kinds
  BY DEF Kinds
<1>2. PICK k \in 1..Len(s) : \E i \in 1..Len(Part("tool", s[k])) :
         Parts("tool", s)[j] = Part("tool", s[k])[i]
  BY <1>1, PartsElements
<1>3. CASE s[k].kind = "tool"
  <2>1. Part("tool", s[k]) = <<s[k]>>
    BY <1>3 DEF Part
  <2>2. Parts("tool", s)[j] = s[k]
    BY <1>2, <2>1
  <2> QED
    BY <1>3, <2>2
<1>4. CASE s[k].kind # "tool"
  <2>1. Len(Part("tool", s[k])) = 0
    BY <1>4 DEF Part
  <2> QED
    BY <1>2, <2>1
<1> QED
  BY <1>3, <1>4

(* When a stream is ended, it says what the turn says. *)
LEMMA AnswerSays ==
    EndInv /\ TurnInv /\ WrittenInv /\ stream /\ Answer => AnswerIsTurn'
<1> SUFFICES ASSUME EndInv, TurnInv, WrittenInv, stream, Answer PROVE AnswerIsTurn'
  OBVIOUS
<1>1. AnswerTypes /\ UpstreamTypes /\ ControlInv /\ PlainInv
  BY InvParts, TypeParts
<1>2. pc = "answer" /\ stream' = stream /\ UNCHANGED <<acc, begun, turn, streamed>>
  BY DEF Answer, upstream
<1>3. turn \in Turn /\ acc \in Accumulator /\ begun \in Nat
  BY <1>1, <1>2, StreamAssumption DEF UpstreamTypes, ControlInv
<1>4. PICK o \in Orders(Started(acc)) : turn = Snapshot(acc, o)
  BY <1>2 DEF TurnInv
<1>5. turn.text = acc.text /\ turn.thinking = acc.thinking
  BY <1>4 DEF Snapshot
<1> DEFINE end == Unstreamed \o Closing
<1>6. Flush(end)
  BY DEF Answer, End
<1>7. /\ end \in Seq(AnswerFrames)
      /\ Parts("text", end) = IF streamed.text = 0 THEN turn.text ELSE << >>
      /\ Parts("thinking", end) = IF streamed.thinking = 0 THEN turn.thinking ELSE << >>
      /\ Parts("tool", end) = IF streamed.tools = 0 THEN Calls(turn.tools) ELSE << >>
  BY <1>1, <1>3, EndSays
<1> HIDE DEF end
<1>8. sent' = Written \o end /\ Written \in Seq(AnswerFrames) /\ sent' \in Seq(AnswerFrames)
  BY <1>1, <1>6, <1>7, WrittenTypes, ConcatProperties DEF Flush, Written
<1>9. \A kind \in Kinds : Parts(kind, sent') = Parts(kind, Written) \o Parts(kind, end)
  BY <1>7, <1>8, PartsConcat
<1>10. /\ acc.text \in Seq(Nat) /\ acc.thinking \in Seq(Nat) /\ acc.tools \in Seq(Tool)
       /\ turn.tools \in Seq(Tool)
  BY <1>3 DEF Accumulator, Turn
<1>11. ASSUME OfLastAttempt("text")' PROVE Contents("text")' = turn'["text"]
  <2>1. Parts("text", sent') = Parts("text", Written) \o Parts("text", end)
        /\ Parts("text", Written) \in Seq(Nat)
    BY <1>1, <1>9, WrittenTypes DEF Kinds
  <2>2. /\ Continues(Parts("text", Written), acc.text, begun)
        /\ streamed.text = 0 => Parts("text", Written) = << >>
    BY WrittenParts DEF Spoken
  <2>3. CASE streamed.text = 0
    <3>1. Parts("text", sent') = << >> \o acc.text
      BY <1>5, <1>7, <2>1, <2>2, <2>3
    <3> QED
      BY <1>2, <1>5, <1>10, <3>1, ConcatEmptySeq DEF Contents
  <2>4. CASE streamed.text # 0
    <3>1. Parts("text", sent') = Parts("text", Written)
      BY <1>7, <2>1, <2>4, ConcatEmptySeq
    <3>2. \A k \in 1..Len(sent') : sent'[k].kind = "text" =>
             \A j \in 1..Len(sent'[k].of) : sent'[k].of[j] > begun
      BY <1>2, <1>11 DEF OfLastAttempt
    <3>3. \A j \in 1..Len(Parts("text", Written)) : Parts("text", Written)[j] > begun
      BY <1>3, <1>8, <3>1, <3>2, LastText
    <3>4. Parts("text", Written) = acc.text
      BY <1>3, <1>10, <2>1, <2>2, <3>3, ContinuesWhole
    <3> QED
      BY <1>2, <1>5, <3>1, <3>4 DEF Contents
  <2> QED
    BY <2>3, <2>4
<1>12. ASSUME OfLastAttempt("thinking")' PROVE Contents("thinking")' = turn'["thinking"]
  <2>1. Parts("thinking", sent') = Parts("thinking", Written) \o Parts("thinking", end)
        /\ Parts("thinking", Written) \in Seq(Nat)
    BY <1>1, <1>9, WrittenTypes DEF Kinds
  <2>2. /\ Continues(Parts("thinking", Written), acc.thinking, begun)
        /\ streamed.thinking = 0 => Parts("thinking", Written) = << >>
    BY WrittenParts DEF Spoken
  <2>3. CASE streamed.thinking = 0
    <3>1. Parts("thinking", sent') = << >> \o acc.thinking
      BY <1>5, <1>7, <2>1, <2>2, <2>3
    <3> QED
      BY <1>2, <1>5, <1>10, <3>1, ConcatEmptySeq DEF Contents
  <2>4. CASE streamed.thinking # 0
    <3>1. Parts("thinking", sent') = Parts("thinking", Written)
      BY <1>7, <2>1, <2>4, ConcatEmptySeq
    <3>2. \A k \in 1..Len(sent') : sent'[k].kind = "thinking" =>
             \A j \in 1..Len(sent'[k].of) : sent'[k].of[j] > begun
      BY <1>2, <1>12 DEF OfLastAttempt
    <3>3. \A j \in 1..Len(Parts("thinking", Written)) : Parts("thinking", Written)[j] > begun
      BY <1>3, <1>8, <3>1, <3>2, LastText
    <3>4. Parts("thinking", Written) = acc.thinking
      BY <1>3, <1>10, <2>1, <2>2, <3>3, ContinuesWhole
    <3> QED
      BY <1>2, <1>5, <3>1, <3>4 DEF Contents
  <2> QED
    BY <2>3, <2>4
<1>13. /\ Parts("tool", sent') = Parts("tool", Written) \o Parts("tool", end)
       /\ Parts("tool", Written) \in Seq(AnswerFrames)
       /\ CallsContinue(Parts("tool", Written), acc.tools, begun)
       /\ streamed.tools = Len(Parts("tool", Written))
  BY <1>1, <1>9, WrittenTypes, WrittenParts DEF Kinds, SpokenCalls
(* Nothing was streamed: the calls of the turn are sent now.               *)
<1>14. ASSUME streamed.tools = 0 PROVE Parts("tool", sent') = Calls(turn.tools)
  <2>1. Parts("tool", Written) = << >>
    BY <1>13, <1>14, EmptySeq
  <2>2. Calls(turn.tools) \in Seq(AnswerFrames)
    <3>1. TRUE \in BOOLEAN /\ "tool" \in Kinds
      BY DEF Kinds
    <3> QED
      BY <1>10, <3>1, PartsOfCalls
  <2> QED
    BY <1>7, <1>13, <1>14, <2>1, <2>2, ConcatEmptySeq
(* Something was: it is what the accumulator holds.                        *)
<1>15. ASSUME streamed.tools # 0, OfLastAttempt("tool")'
       PROVE  /\ Parts("tool", sent') = Calls(acc.tools)
              /\ Parts("tool", sent') # << >> /\ acc.tools # << >>
  <2>1. Parts("tool", sent') = Parts("tool", Written)
    BY <1>7, <1>13, <1>15, ConcatEmptySeq
  <2>2. \A k \in 1..Len(sent') : sent'[k].kind = "tool" =>
           \A i \in 1..Len(sent'[k].tool.args) : sent'[k].tool.args[i] > begun
    BY <1>2, <1>15 DEF OfLastAttempt
  <2> DEFINE w == Parts("tool", Written)
  <2>3. \A j \in 1..Len(w) : \A i \in 1..Len(w[j].tool.args) : w[j].tool.args[i] > begun
    BY <1>3, <1>8, <2>1, <2>2, LastCalls
  <2> HIDE DEF w
  <2>4. w = [k \in 1..Len(acc.tools) |-> Called(k - 1, acc.tools[k])]
    BY <1>3, <1>10, <1>13, <2>3, CallsWhole DEF w
  <2>5. Len(w) # 0 /\ Len(w) = Len(acc.tools)
    <3>1. Len(w) = Len(acc.tools)
      BY <1>10, <2>4
    <3> QED
      BY <1>13, <1>15, <3>1 DEF w
  <2> QED
    BY <1>10, <2>1, <2>4, <2>5, EmptySeq DEF w, Calls
<1>16. ASSUME NotMixed, acc.tools # << >> PROVE turn.tools = acc.tools
  <2>1. Started(acc) = {}
    BY <1>16 DEF NotMixed
  <2>2. DOMAIN o = 1..0
    BY <2>1, <1>3, OrderTypes, FS_EmptySet
  <2>3. [k \in DOMAIN o |-> Assembled(acc.pieces[o[k]])] = << >>
    BY <2>2
  <2> QED
    BY <1>4, <1>10, <2>3, ConcatEmptySeq DEF Snapshot
<1>17. ASSUME acc.tools # << >> PROVE turn.tools # << >>
  <2> DEFINE p == [k \in DOMAIN o |-> Assembled(acc.pieces[o[k]])]
  <2>1. DOMAIN o = 1..Cardinality(Started(acc)) /\ Cardinality(Started(acc)) \in Nat
    BY <1>3, OrderTypes
  <2>2. \E T : p \in Seq(T)
    <3>1. p \in Seq({p[k] : k \in DOMAIN o})
      BY <2>1
    <3> QED
      BY <3>1
  <2>3. turn.tools = acc.tools \o p
    BY <1>4 DEF Snapshot
  <2> HIDE DEF p
  <2>4. Len(turn.tools) = Len(acc.tools) + Len(p) /\ Len(p) \in Nat /\ Len(acc.tools) \in Nat
    BY <1>10, <2>2, <2>3
  <2>5. Len(acc.tools) # 0
    BY <1>10, <1>17, EmptySeq
  <2> QED
    BY <2>4, <2>5
<1>18. FinishOfCalls \in ToSet(sent') <=> turn.tools # << >>
  <2>1. ~Over
    BY <1>2 DEF Over
  <2>2. FinishOfCalls \notin ToSet(sent) /\ FinishOfCalls \notin ToSet(buf)
    BY <1>1, <2>1, PlainFinish DEF PlainInv, AnswerTypes
  <2>3. Unstreamed \in Seq(AnswerFrames) /\ Closing \in Seq(AnswerFrames) /\ Plain(Unstreamed)
    <3>1. Unstreamed \in Seq(Payload)
      BY <1>3, UnstreamedTypes
    <3>2. \A f \in Payload : f.kind \in {"text", "thinking", "tool"}
      BY DEF Payload
    <3> QED
      BY <1>3, <3>1, <3>2, ClosingTypes, FrameTypes, SeqMonotonic, ElementOfSeq DEF Plain
  <2>4. ToSet(end) = ToSet(Unstreamed) \cup ToSet(Closing)
    BY <2>3, ToSetConcat DEF end
  <2>5. ToSet(sent') = ToSet(sent) \cup ToSet(buf) \cup ToSet(end)
    BY <1>1, <1>6, <1>7, FlushElements
  <2> QED
    BY <2>2, <2>3, <2>4, <2>5, PlainFinish, ClosingFinish
<1>19. ASSUME OfLastAttempt("tool")', NotMixed'
       PROVE  Contents("tool")' = Calls(turn.tools)
  <2>1. NotMixed
    BY <1>2, <1>19 DEF NotMixed
  <2> QED
    BY <1>14, <1>15, <1>16, <1>19, <2>1 DEF Contents
<1>20. ASSUME OfLastAttempt("tool")'
       PROVE  Contents("tool")' # << >> <=> FinishOfCalls \in ToSet(sent')
  <2>1. CASE streamed.tools = 0
    <3>1. Len(Calls(turn.tools)) = Len(turn.tools)
      BY <1>10 DEF Calls
    <3>2. Calls(turn.tools) \in Seq(AnswerFrames)
      <4>1. TRUE \in BOOLEAN /\ "tool" \in Kinds
        BY DEF Kinds
      <4> QED
        BY <1>10, <4>1, PartsOfCalls
    <3>3. Calls(turn.tools) # << >> <=> turn.tools # << >>
      BY <1>10, <3>1, <3>2, EmptySeq
    <3> QED
      BY <1>14, <1>18, <2>1, <3>3 DEF Contents
  <2>2. CASE streamed.tools # 0
    BY <1>15, <1>17, <1>18, <1>20, <2>2 DEF Contents
  <2> QED
    BY <2>1, <2>2
<1> QED
  BY <1>2, <1>11, <1>12, <1>19, <1>20 DEF AnswerIsTurn, Calls, FinishOfCalls

(* Afterwards nothing is said, and the turn stays. *)
LEMMA AnswerStep ==
    ASSUME EndInv, EndInv', AttemptInv, stream /\ ~Over => WrittenInv, AnswerIsTurn, Next
    PROVE  AnswerIsTurn'
<1> SUFFICES ASSUME Completed' PROVE AnswerIsTurn'
  BY DEF AnswerIsTurn
<1>1. /\ pc' \in {"closing", "returned"} /\ stream' /\ turn' # None /\ panics' = 0
      /\ TurnInv /\ ControlInv /\ EmptyInv
  BY AttemptParts, InvParts DEF Completed, Over
<1>2. CASE Answer
  <2>1. stream /\ ~Over
    BY <1>1, <1>2 DEF Answer, Over
  <2> QED
    BY <1>1, <1>2, <2>1, AnswerSays
<1>3. CASE /\ UNCHANGED <<sent, turn, acc, begun, stream, panics>>
           /\ pc \in {"closing", "returned"}
  <2>1. Completed
    BY <1>1, <1>3 DEF Completed, Over
  <2> QED
    BY <1>3, <2>1 DEF AnswerIsTurn, Contents, OfLastAttempt, NotMixed
(* The answer is done, and the keep-alive goroutine writes nothing. *)
<1>4. CASE Tick
  <2>1. /\ pc' = pc /\ panics' = panics /\ stream' = stream
        /\ UNCHANGED <<turn, acc, begun>>
    BY <1>4 DEF Tick, others, upstream
  <2>2. done
    BY <1>1, <2>1 DEF EmptyInv, Over
  <2>3. sent' = sent
    BY <1>4, <2>2 DEF Tick
  <2> QED
    BY <1>1, <1>3, <2>1, <2>3
<1>5. CASE StopKeepAlive \/ Leave
  BY <1>1, <1>3, <1>5 DEF StopKeepAlive, Leave, upstream, answer
<1>6. CASE Close
  BY <1>3, <1>6 DEF Close, upstream, answer, others
<1>7. CASE BadBody \/ Tell
  <2>1. turn' = turn /\ pc \in {"idle", "giveUp"}
    BY <1>7 DEF BadBody, Tell, upstream
  <2> QED
    BY <1>1, <2>1 DEF TurnInv
<1>8. CASE Recover
  <2>1. panics' = panics /\ pc = "panicked"
    BY <1>8 DEF Recover, others
  <2> QED
    BY <1>1, <2>1 DEF ControlInv
<1>9. pc' \notin {"closing", "returned"}
         \/ Answer \/ Close \/ BadBody \/ Tell \/ Recover \/ Tick \/ StopKeepAlive \/ Leave
  BY DEF Next, Handle, BeginRequest, Open, Attempt, NoAttempt, Canceled, PushSilent,
         PushDelta, PushToolUse, PushHead, Again, GiveUp, Finish, Accepted, Rejected,
         BreakOff, EndOfBody, ReadFrame, Panic
<1> QED
  BY <1>1, <1>2, <1>4, <1>5, <1>6, <1>7, <1>8, <1>9

LEMMA SaidInit == Init => SaidInv
<1> SUFFICES ASSUME Init PROVE SaidInv
  OBVIOUS
<1>1. AttemptInv
  BY DEF Init, AttemptInv, EmptyAccumulator
<1> QED
  BY <1>1 DEF Init, SaidInv, AnswerIsTurn, Completed

LEMMA SaidStep == StreamInv /\ EndInv' /\ [Next]_vars => SaidInv'
<1> SUFFICES ASSUME StreamInv, EndInv', [Next]_vars PROVE SaidInv'
  OBVIOUS
<1>1. /\ EndInv /\ AttemptInv /\ (stream /\ ~Over => WrittenInv) /\ AnswerIsTurn
      /\ TypeOK /\ ControlInv /\ EmptyInv /\ IdleInv /\ EventsInv /\ HeldInv /\ TurnInv
  BY AttemptParts, InvParts DEF StreamInv, SaidInv
<1>2. CASE Next
  <2>1. IdleInv' /\ EventsInv' /\ HeldInv' /\ TurnInv'
    BY <1>1, <1>2, IdleStep, EventsStep, HeldStep, TurnStep
  <2>2. AttemptInv'
    BY <2>1 DEF AttemptInv, IdleInv, EventsInv, HeldInv, TurnInv, Content
  <2>3. (stream /\ ~Over => WrittenInv)'
    BY <1>1, <1>2, WrittenStep
  <2>4. AnswerIsTurn'
    BY <1>1, <1>2, AnswerStep
  <2> QED
    BY <2>2, <2>3, <2>4 DEF SaidInv
<1>3. CASE UNCHANGED vars
  BY <1>1, <1>3 DEF vars, SaidInv, AttemptInv, WrittenInv, Written, Over, AnswerIsTurn,
     Completed, Contents, OfLastAttempt, NotMixed
<1> QED
  BY <1>2, <1>3

(* The inductive invariant, whatever the upstream sends: what the handler  *)
(* has counted, written and given up fits where it is, what it has said    *)
(* goes on with what the accumulator holds, and what it holds is of this   *)
(* attempt.                                                                *)
THEOREM StreamInvariant == Spec => []StreamInv
<1>1. Init => StreamInv
  BY InvInit, SaidInit DEF StreamInv
<1>2. StreamInv /\ [Next]_vars => StreamInv'
  <2>1. StreamInv /\ [Next]_vars => EndInv'
    BY InvStep DEF StreamInv
  <2> QED
    BY <2>1, SaidStep DEF StreamInv
<1> QED
  BY <1>1, <1>2, PTL DEF Spec

(* A stream that is completed said what the turn says: each text once and  *)
(* in order, each tool call once and under its own index, streamed or sent *)
(* at the end, for every upstream, every way in which the writer flushes   *)
(* and wherever the client leaves.                                         *)
THEOREM AnswersAreTurns == Spec => []AnswerIsTurn
<1>1. StreamInv => AnswerIsTurn
  BY DEF StreamInv, SaidInv
<1> QED
  BY <1>1, StreamInvariant, PTL
=============================================================================
