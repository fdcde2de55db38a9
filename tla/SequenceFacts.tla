---------------------------- MODULE SequenceFacts ----------------------------
(***************************************************************************)
(* What the queues of the models rest on: which values a sequence has, and *)
(* when it has none of them twice, after an append, a concatenation or a   *)
(* split; and what a sequence keeps when it only grows.                    *)
(***************************************************************************)
EXTENDS Integers, Sequences, Functions, SequenceTheorems, FiniteSetTheorems, TLAPS

\* The values of a sequence are those at its positions.
LEMMA RangeDef ==
    ASSUME NEW s, NEW x
    PROVE  x \in Range(s) <=> \E i \in DOMAIN s : s[i] = x
BY DEF Range

\* The empty sequence has no value.
LEMMA EmptyFacts == Range(<<>>) = {} /\ IsInjective(<<>>)
BY DEF Range, IsInjective

\* A sequence that has no value is empty.
LEMMA EmptyRange ==
    ASSUME NEW S, NEW s \in Seq(S)
    PROVE  Range(s) = {} <=> s = <<>>
BY DEF Range

\* The values of a sequence over S are in S.
LEMMA RangeOfSeqOver ==
    ASSUME NEW S, NEW s \in Seq(S)
    PROVE  Range(s) \subseteq S
BY DEF Range

\* Append adds one value, and keeps a sequence without repetition so when it is new.
LEMMA AppendFacts ==
    ASSUME NEW S, NEW s \in Seq(S), NEW x \in S
    PROVE  /\ Append(s, x) \in Seq(S)
           /\ Range(Append(s, x)) = Range(s) \cup {x}
           /\ IsInjective(s) /\ x \notin Range(s) => IsInjective(Append(s, x))
<1> DEFINE a == Append(s, x)
<1>1. /\ a \in Seq(S)
      /\ Len(a) = Len(s) + 1
      /\ DOMAIN a = 1 .. Len(s) + 1
      /\ DOMAIN s = 1 .. Len(s)
      /\ \A i \in 1 .. Len(s) : a[i] = s[i]
      /\ a[Len(s) + 1] = x
      /\ Len(s) \in Nat
  BY AppendProperties, LenProperties
<1> HIDE DEF a
<1>2. Range(a) = Range(s) \cup {x}
  <2>1. ASSUME NEW y \in Range(a) PROVE y \in Range(s) \cup {x}
    BY <1>1, RangeDef
  <2>2. ASSUME NEW y \in Range(s) PROVE y \in Range(a)
    BY <1>1, RangeDef
  <2>3. x \in Range(a)
    BY <1>1, RangeDef
  <2> QED BY <2>1, <2>2, <2>3
<1>3. ASSUME IsInjective(s), x \notin Range(s) PROVE IsInjective(a)
  BY <1>1, <1>3, RangeDef DEF IsInjective
<1> QED BY <1>1, <1>2, <1>3 DEF a

\* Concatenation unites the values, and repeats none when the two are disjoint.
LEMMA ConcatFacts ==
    ASSUME NEW S, NEW s \in Seq(S), NEW u \in Seq(S)
    PROVE  /\ s \o u \in Seq(S)
           /\ Range(s \o u) = Range(s) \cup Range(u)
           /\ IsInjective(s) /\ IsInjective(u) /\ Range(s) \cap Range(u) = {}
                => IsInjective(s \o u)
<1> DEFINE c == s \o u
<1>1. /\ c \in Seq(S)
      /\ DOMAIN c = 1 .. Len(s) + Len(u)
      /\ DOMAIN s = 1 .. Len(s)
      /\ DOMAIN u = 1 .. Len(u)
      /\ \A i \in 1 .. Len(s) : c[i] = s[i]
      /\ \A i \in 1 .. Len(u) : c[Len(s) + i] = u[i]
      /\ Len(s) \in Nat /\ Len(u) \in Nat
  BY ConcatProperties, LenProperties
<1>2. \A i \in Len(s) + 1 .. Len(s) + Len(u) : i - Len(s) \in 1 .. Len(u) /\ c[i] = u[i - Len(s)]
  <2> TAKE i \in Len(s) + 1 .. Len(s) + Len(u)
  <2>1. i - Len(s) \in 1 .. Len(u) /\ Len(s) + (i - Len(s)) = i
    BY <1>1
  <2> HIDE DEF c
  <2> QED BY <1>1, <2>1
<1> HIDE DEF c
<1>3. Range(c) = Range(s) \cup Range(u)
  <2>1. ASSUME NEW y \in Range(c) PROVE y \in Range(s) \cup Range(u)
    <3>1. PICK i \in 1 .. Len(s) + Len(u) : c[i] = y
      BY <1>1, RangeDef
    <3>2. CASE i \in 1 .. Len(s)
      BY <1>1, <3>1, <3>2, RangeDef
    <3>3. CASE i \in Len(s) + 1 .. Len(s) + Len(u)
      BY <1>1, <1>2, <3>1, <3>3, RangeDef
    <3>4. i \in 1 .. Len(s) \/ i \in Len(s) + 1 .. Len(s) + Len(u)
      <4> DEFINE m == Len(s)
                 k == Len(u)
      <4>1. m \in Nat /\ k \in Nat /\ i \in 1 .. m + k
        BY <1>1, <3>1, Zenon
      <4> HIDE DEF m, k
      <4>2. i \in 1 .. m \/ i \in m + 1 .. m + k
        BY ONLY <4>1
      <4> QED BY <4>2 DEF m, k
    <3> QED BY ONLY <3>2, <3>3, <3>4
  <2>2. ASSUME NEW y \in Range(s) PROVE y \in Range(c)
    <3>1. PICK i \in DOMAIN s : s[i] = y
      BY RangeDef
    <3>2. i \in DOMAIN c /\ c[i] = y
      BY <1>1, <3>1
    <3> QED BY <3>2, RangeDef
  <2>3. ASSUME NEW y \in Range(u) PROVE y \in Range(c)
    <3>1. PICK i \in 1 .. Len(u) : u[i] = y
      BY <1>1, RangeDef
    <3>2. Len(s) + i \in DOMAIN c /\ c[Len(s) + i] = y
      BY <1>1, <3>1
    <3> QED BY <3>2, RangeDef
  <2> QED BY <2>1, <2>2, <2>3
<1>4. ASSUME IsInjective(s), IsInjective(u), Range(s) \cap Range(u) = {}
      PROVE  IsInjective(c)
  <2> SUFFICES ASSUME NEW i \in DOMAIN c, NEW j \in DOMAIN c, c[i] = c[j]
               PROVE  i = j
    BY DEF IsInjective
  <2>1. CASE i \in 1 .. Len(s) /\ j \in 1 .. Len(s)
    BY <1>1, <1>4, <2>1 DEF IsInjective
  <2>2. CASE i \notin 1 .. Len(s) /\ j \notin 1 .. Len(s)
    <3>1. /\ i \in Len(s) + 1 .. Len(s) + Len(u)
          /\ j \in Len(s) + 1 .. Len(s) + Len(u)
      BY <1>1, <2>2
    <3>2. /\ i - Len(s) \in DOMAIN u /\ u[i - Len(s)] = c[i]
          /\ j - Len(s) \in DOMAIN u /\ u[j - Len(s)] = c[j]
      BY <1>1, <1>2, <3>1
    <3>3. i - Len(s) = j - Len(s)
      BY <1>4, <3>2 DEF IsInjective
    <3> QED BY <1>1, <3>1, <3>3
  <2>3. CASE i \in 1 .. Len(s) /\ j \notin 1 .. Len(s)
    <3>1. s[i] = c[i] /\ i \in DOMAIN s
      BY <1>1, <2>3
    <3>2. j \in Len(s) + 1 .. Len(s) + Len(u)
      BY <1>1, <2>3
    <3>3. j - Len(s) \in DOMAIN u /\ u[j - Len(s)] = c[j]
      BY <1>1, <1>2, <3>2
    <3>4. c[i] \in Range(s) /\ c[i] \in Range(u)
      BY <3>1, <3>3, RangeDef
    <3> QED BY <1>4, <3>4
  <2>4. CASE i \notin 1 .. Len(s) /\ j \in 1 .. Len(s)
    <3>1. s[j] = c[j] /\ j \in DOMAIN s
      BY <1>1, <2>4
    <3>2. i \in Len(s) + 1 .. Len(s) + Len(u)
      BY <1>1, <2>4
    <3>3. i - Len(s) \in DOMAIN u /\ u[i - Len(s)] = c[i]
      BY <1>1, <1>2, <3>2
    <3>4. c[i] \in Range(s) /\ c[i] \in Range(u)
      BY <3>1, <3>3, RangeDef
    <3> QED BY <1>4, <3>4
  <2> QED BY <2>1, <2>2, <2>3, <2>4
<1> QED BY <1>1, <1>3, <1>4 DEF c

\* Splitting a sequence after position n: the two parts have all its values, and
\* share none when the sequence repeats none.
LEMMA SplitFacts ==
    ASSUME NEW S, NEW s \in Seq(S), NEW n \in 0 .. Len(s)
    PROVE  /\ SubSeq(s, 1, n) \in Seq(S)
           /\ SubSeq(s, n + 1, Len(s)) \in Seq(S)
           /\ Len(SubSeq(s, 1, n)) = n
           /\ Range(s) = Range(SubSeq(s, 1, n)) \cup Range(SubSeq(s, n + 1, Len(s)))
           /\ IsInjective(s) =>
                /\ IsInjective(SubSeq(s, 1, n))
                /\ IsInjective(SubSeq(s, n + 1, Len(s)))
                /\ Range(SubSeq(s, 1, n)) \cap Range(SubSeq(s, n + 1, Len(s))) = {}
<1> DEFINE a == SubSeq(s, 1, n)
           b == SubSeq(s, n + 1, Len(s))
<1>1. /\ Len(s) \in Nat /\ n \in Nat /\ n <= Len(s)
      /\ DOMAIN s = 1 .. Len(s)
      /\ \A i \in 1 .. Len(s) : s[i] \in S
  BY LenProperties, ElementOfSeq
<1>2. /\ a \in Seq(S) /\ Len(a) = n
      /\ DOMAIN a = 1 .. n
      /\ \A i \in 1 .. n : a[i] = s[i]
  BY <1>1
<1>3. /\ b \in Seq(S)
      /\ DOMAIN b = 1 .. Len(s) - n
      /\ \A i \in 1 .. Len(s) - n : b[i] = s[n + i]
  BY <1>1
<1> HIDE DEF a, b
<1>4. Range(s) = Range(a) \cup Range(b)
  <2>1. ASSUME NEW y \in Range(s) PROVE y \in Range(a) \cup Range(b)
    <3>1. PICK i \in 1 .. Len(s) : s[i] = y
      BY <1>1, RangeDef
    <3>2. CASE i <= n
      BY <1>1, <1>2, <3>1, <3>2, RangeDef
    <3>3. CASE i > n
      <4>1. i - n \in 1 .. Len(s) - n /\ n + (i - n) = i
        BY <1>1, <3>3
      <4> QED BY <1>3, <3>1, <4>1, RangeDef
    <3> QED BY <1>1, <3>2, <3>3
  <2>2. ASSUME NEW y \in Range(a) PROVE y \in Range(s)
    BY <1>1, <1>2, RangeDef
  <2>3. ASSUME NEW y \in Range(b) PROVE y \in Range(s)
    <3>1. PICK i \in 1 .. Len(s) - n : b[i] = y
      BY <1>3, RangeDef
    <3>2. n + i \in DOMAIN s /\ s[n + i] = y
      BY <1>1, <1>3, <3>1
    <3> QED BY <3>2, RangeDef
  <2> QED BY <2>1, <2>2, <2>3
<1>5. ASSUME IsInjective(s)
      PROVE  IsInjective(a) /\ IsInjective(b) /\ Range(a) \cap Range(b) = {}
  <2>1. IsInjective(a)
    BY <1>1, <1>2, <1>5 DEF IsInjective
  <2>2. IsInjective(b)
    <3> SUFFICES ASSUME NEW i \in 1 .. Len(s) - n, NEW j \in 1 .. Len(s) - n, b[i] = b[j]
                 PROVE  i = j
      BY <1>3 DEF IsInjective
    <3>1. n + i \in DOMAIN s /\ n + j \in DOMAIN s /\ s[n + i] = s[n + j]
      BY <1>1, <1>3
    <3>2. n + i = n + j
      BY <1>5, <3>1 DEF IsInjective
    <3> QED BY <1>1, <3>2
  <2>3. Range(a) \cap Range(b) = {}
    <3> SUFFICES ASSUME NEW y, y \in Range(a), y \in Range(b) PROVE FALSE
      OBVIOUS
    <3>1. PICK i \in 1 .. n : s[i] = y
      BY <1>2, RangeDef
    <3>2. PICK j \in 1 .. Len(s) - n : s[n + j] = y
      BY <1>3, RangeDef
    <3>3. i \in DOMAIN s /\ n + j \in DOMAIN s /\ i # n + j
      BY <1>1
    <3> QED BY <1>5, <3>1, <3>2, <3>3 DEF IsInjective
  <2> QED BY <2>1, <2>2, <2>3
<1> QED BY <1>2, <1>3, <1>4, <1>5 DEF a, b

\* Two parts of a sequence: appending to the second appends to the whole, and
\* moving the head of the second to the end of the first changes nothing.
LEMMA PartsFacts ==
    ASSUME NEW S, NEW s \in Seq(S), NEW u \in Seq(S)
    PROVE  /\ s \o u \in Seq(S)
           /\ Len(s \o u) = Len(s) + Len(u)
           /\ \A i \in 1 .. Len(s) : (s \o u)[i] = s[i]
           /\ s \o <<>> = s
           /\ \A x \in S : /\ s \o <<x>> = Append(s, x)
                           /\ s \o Append(u, x) = Append(s \o u, x)
           /\ u # <<>> => /\ Append(s, Head(u)) \o Tail(u) = s \o u
                          /\ (s \o u)[Len(s) + 1] = Head(u)
                          /\ Len(Tail(u)) = Len(u) - 1
<1>1. /\ s \o u \in Seq(S)
      /\ Len(s \o u) = Len(s) + Len(u)
      /\ \A i \in 1 .. Len(s) + Len(u) : (s \o u)[i] = IF i <= Len(s) THEN s[i] ELSE u[i - Len(s)]
      /\ s \o <<>> = s
      /\ Len(s) \in Nat /\ Len(u) \in Nat
  BY ConcatProperties, ConcatEmptySeq, LenProperties
<1>2. \A i \in 1 .. Len(s) : (s \o u)[i] = s[i]
  BY <1>1
<1>3. ASSUME NEW x \in S
      PROVE  /\ s \o <<x>> = Append(s, x)
             /\ s \o Append(u, x) = Append(s \o u, x)
  <2>1. <<x>> \in Seq(S)
    OBVIOUS
  <2>2. /\ s \o <<x>> = Append(s, x)
        /\ Append(u, x) = u \o <<x>>
        /\ Append(s \o u, x) = (s \o u) \o <<x>>
    BY <1>1, AppendIsConcat
  <2>3. (s \o u) \o <<x>> = s \o (u \o <<x>>)
    BY <2>1, ConcatAssociative
  <2> QED BY <2>2, <2>3
<1>4. ASSUME u # <<>>
      PROVE  /\ Append(s, Head(u)) \o Tail(u) = s \o u
             /\ (s \o u)[Len(s) + 1] = Head(u)
             /\ Len(Tail(u)) = Len(u) - 1
  <2>1. /\ Head(u) \in S /\ Tail(u) \in Seq(S)
        /\ Len(Tail(u)) = Len(u) - 1
        /\ Head(u) = u[1]
        /\ \A i \in 1 .. Len(u) - 1 : Tail(u)[i] = u[i + 1]
        /\ Len(u) > 0
    BY <1>1, <1>4, HeadTailProperties, EmptySeq
  <2> DEFINE a == Append(s, Head(u))
             c == a \o Tail(u)
  <2>2. /\ a \in Seq(S) /\ Len(a) = Len(s) + 1
        /\ \A i \in 1 .. Len(s) : a[i] = s[i]
        /\ a[Len(s) + 1] = u[1]
    BY <2>1, AppendProperties
  <2>3. /\ c \in Seq(S)
        /\ Len(c) = Len(s) + Len(u)
        /\ \A i \in 1 .. Len(a) + Len(Tail(u)) :
              c[i] = IF i <= Len(a) THEN a[i] ELSE Tail(u)[i - Len(a)]
    <3> HIDE DEF a
    <3>1. /\ c \in Seq(S)
          /\ Len(c) = Len(a) + Len(Tail(u))
          /\ \A i \in 1 .. Len(a) + Len(Tail(u)) :
                c[i] = IF i <= Len(a) THEN a[i] ELSE Tail(u)[i - Len(a)]
      BY <2>1, <2>2, ConcatProperties
    <3> QED BY <1>1, <2>1, <2>2, <3>1
  <2> DEFINE w == s \o u
  <2>4. ASSUME NEW i \in 1 .. Len(c) PROVE c[i] = w[i]
    <3> DEFINE t == Tail(u)
    <3>0. /\ i \in Int /\ 1 <= i /\ i <= Len(s) + Len(u)
          /\ Len(s) \in Nat /\ Len(u) \in Nat
      BY <1>1, <2>3
    <3>1. w[i] = IF i <= Len(s) THEN s[i] ELSE u[i - Len(s)]
      BY <1>1, <3>0
    <3>2. c[i] = IF i <= Len(a) THEN a[i] ELSE t[i - Len(a)]
      BY <2>1, <2>2, <2>3
    <3>3. \A j \in 1 .. Len(u) - 1 : t[j] = u[j + 1]
      BY <2>1
    <3> HIDE DEF a, c, w, t
    <3>4. CASE i <= Len(s)
      BY <2>2, <3>0, <3>1, <3>2, <3>4
    <3>5. CASE i = Len(s) + 1
      BY <2>2, <3>0, <3>1, <3>2, <3>5
    <3>6. CASE i > Len(s) + 1
      <4>1. i - Len(a) \in 1 .. Len(u) - 1 /\ i - Len(s) = (i - Len(a)) + 1
        BY <2>2, <3>0, <3>6
      <4> QED BY <2>2, <3>0, <3>1, <3>2, <3>3, <3>6, <4>1
    <3> QED BY <3>0, <3>4, <3>5, <3>6
  <2> HIDE DEF a, c
  <2>5. c = s \o u
    BY <1>1, <2>3, <2>4, SeqEqual DEF w
  <2>6. (s \o u)[Len(s) + 1] = Head(u)
    BY <1>1, <2>1
  <2> QED BY <2>1, <2>5, <2>6 DEF a, c
<1> QED BY <1>1, <1>2, <1>3, <1>4

\* A sequence whose second part ends it at once.
LEMMA LastPart ==
    ASSUME NEW S, NEW s \in Seq(S), NEW u \in Seq(S), u # <<>>,
           NEW v \in Seq(S), NEW x \in S, s \o u = Append(v, x), Len(s) = Len(v)
    PROVE  s = v /\ Tail(u) = <<>> /\ Head(u) = x
<1>1. /\ Len(s \o u) = Len(s) + Len(u)
      /\ \A i \in 1 .. Len(s) : (s \o u)[i] = s[i]
      /\ (s \o u)[Len(s) + 1] = Head(u)
      /\ Len(Tail(u)) = Len(u) - 1
      /\ Len(s) \in Nat /\ Len(u) \in Nat
  BY PartsFacts, LenProperties
<1>2. /\ Len(Append(v, x)) = Len(v) + 1
      /\ \A i \in 1 .. Len(v) : Append(v, x)[i] = v[i]
      /\ Append(v, x)[Len(v) + 1] = x
  BY AppendProperties
<1>3. s = v
  BY <1>1, <1>2, SeqEqual
<1>4. Len(Tail(u)) = 0 /\ Tail(u) \in Seq(S)
  BY <1>1, <1>2, HeadTailProperties
<1>5. Tail(u) = <<>>
  BY <1>4, EmptySeq
<1> QED BY <1>1, <1>2, <1>3, <1>5

-----------------------------------------------------------------------------
(* Growing sequences. *)

\* u begins with s.
Extends(s, u) == DOMAIN s \subseteq DOMAIN u /\ \A i \in DOMAIN s : u[i] = s[i]

\* What extends a sequence extends what it extended.
LEMMA ExtendsOrder ==
    /\ \A s : Extends(s, s)
    /\ \A s, u, v : Extends(s, u) /\ Extends(u, v) => Extends(s, v)
BY DEF Extends

\* Append and concatenation only add at the end.
LEMMA ExtendsFacts ==
    ASSUME NEW S, NEW s \in Seq(S)
    PROVE  /\ \A x \in S : Append(s, x) \in Seq(S) /\ Extends(s, Append(s, x))
           /\ \A u \in Seq(S) : s \o u \in Seq(S) /\ Extends(s, s \o u)
<1>1. ASSUME NEW x \in S PROVE Append(s, x) \in Seq(S) /\ Extends(s, Append(s, x))
  <2> DEFINE a == Append(s, x)
  <2>1. /\ a \in Seq(S) /\ Len(a) = Len(s) + 1 /\ Len(s) \in Nat
        /\ DOMAIN a = 1 .. Len(a) /\ DOMAIN s = 1 .. Len(s)
        /\ \A i \in 1 .. Len(s) : a[i] = s[i]
    BY AppendProperties, LenProperties
  <2> HIDE DEF a
  <2>2. Extends(s, a)
    BY <2>1 DEF Extends
  <2> QED BY <2>1, <2>2 DEF a
<1>2. ASSUME NEW u \in Seq(S) PROVE s \o u \in Seq(S) /\ Extends(s, s \o u)
  <2> DEFINE c == s \o u
  <2>1. /\ c \in Seq(S) /\ Len(c) = Len(s) + Len(u)
        /\ \A i \in 1 .. Len(s) + Len(u) : c[i] = IF i <= Len(s) THEN s[i] ELSE u[i - Len(s)]
    BY ConcatProperties, Zenon
  <2> HIDE DEF c
  <2>2. /\ Len(s) \in Nat /\ Len(u) \in Nat
        /\ DOMAIN c = 1 .. Len(c) /\ DOMAIN s = 1 .. Len(s)
    BY <2>1, LenProperties
  <2>3. \A i \in 1 .. Len(s) : i \in 1 .. Len(s) + Len(u) /\ i <= Len(s)
    BY <2>2
  <2>4. Extends(s, c)
    BY <2>1, <2>2, <2>3 DEF Extends
  <2> QED BY <2>1, <2>4 DEF c
<1> QED BY <1>1, <1>2

\* A sequence that grows by nothing is the same.
LEMMA ExtendsSame ==
    ASSUME NEW S, NEW s \in Seq(S), NEW u \in Seq(S), Extends(s, u), Len(u) <= Len(s)
    PROVE  u = s
<1>1. Len(u) = Len(s)
  BY LenProperties DEF Extends
<1>2. \A i \in 1 .. Len(u) : u[i] = s[i]
  BY <1>1, LenProperties DEF Extends
<1> QED BY <1>1, <1>2, SeqEqual

\* There are finitely many positions of any kind, no fewer of them when there are more
\* positions to choose from.
LEMMA PositionsGrow ==
    ASSUME NEW S, NEW u \in Seq(S), NEW B \in SUBSET (DOMAIN u), NEW A \in SUBSET B
    PROVE  /\ Cardinality(A) \in Nat /\ Cardinality(B) \in Nat
           /\ Cardinality(A) <= Cardinality(B)
           /\ Cardinality(A) = 0 <=> A = {}
<1>1. IsFiniteSet(DOMAIN u)
  BY LenProperties, FS_Interval
<1>2. IsFiniteSet(B)
  BY <1>1, FS_Subset
<1>3. IsFiniteSet(A)
  BY <1>2, FS_Subset
<1> QED BY <1>2, <1>3, FS_Subset, FS_CardinalityType, FS_EmptySet

=============================================================================
