----------------------------- MODULE DataLemmas -----------------------------
(***************************************************************************)
(* Facts about numbers, sequences and relations that the proofs of several *)
(* components rest on.  Induction is stated for a set of numbers: a        *)
(* predicate P is proved for every number by putting {n \in Nat : P(n)}    *)
(* for the set.                                                            *)
(***************************************************************************)
EXTENDS Integers, SequencesExt, FiniteSetTheorems, SequenceTheorems, TLAPS

\* A set of natural numbers has a least element: the sets 1..n are ordered by
\* inclusion as their n are, and that order is well-founded on finite sets.
LEMMA LeastNatural ==
    ASSUME NEW S \in SUBSET Nat, S # {}
    PROVE  \E n \in S : \A m \in S : n <= m
  <1> DEFINE T == {1..n : n \in S}
             R == StrictSubsetOrdering(Nat)
  <1>1. T \subseteq FiniteSubsetsOf(Nat) /\ T # {}
    <2>1. ASSUME NEW n \in S PROVE 1..n \in SUBSET Nat /\ IsFiniteSet(1..n)
      BY FS_Interval
    <2> QED
      BY <2>1 DEF FiniteSubsetsOf
  <1>2. PICK x \in T : \A y \in T : <<y, x>> \notin R
    <2> HIDE DEF T, R
    <2>1. IsWellFoundedOn(R, FiniteSubsetsOf(Nat))
      BY FS_StrictSubsetOrderingWellFounded DEF R
    <2> QED
      BY <1>1, <2>1, WFMin
  <1>3. PICK n \in S : x = 1..n
    OBVIOUS
  <1>4. ASSUME NEW m \in S, m < n PROVE FALSE
    <2>1. 1..m \subseteq 1..n /\ n \in 1..n /\ n \notin 1..m
      BY <1>4
    <2>2. 1..m \in T /\ 1..m \in SUBSET Nat /\ 1..n \in SUBSET Nat
      OBVIOUS
    <2> QED
      BY <1>2, <1>3, <2>1, <2>2 DEF StrictSubsetOrdering
  <1> QED
    BY <1>4

\* A set that has zero and with each number the next one has every number.
LEMMA SetInduction ==
    ASSUME NEW S, 0 \in S, \A n \in Nat : n \in S => n + 1 \in S
    PROVE  \A n \in Nat : n \in S
  <1> SUFFICES ASSUME Nat \ S # {} PROVE FALSE
    OBVIOUS
  <1>1. PICK n \in Nat \ S : \A m \in Nat \ S : n <= m
    BY LeastNatural
  <1>2. n - 1 \in Nat /\ n - 1 \in S
    BY <1>1
  <1> QED
    BY <1>1, <1>2

\* Rounds that each start from what the round before made exist.
LEMMA RoundsExist ==
    ASSUME NEW T, NEW start \in T, NEW step \in [T -> T], NEW K \in Nat
    PROVE  \E g \in [0..K -> T] : g[0] = start /\ \A k \in 1..K : g[k] = step[g[k - 1]]
  <1> DEFINE Rounds(g, n) == g[0] = start /\ \A k \in 1..n : g[k] = step[g[k - 1]]
             S == {n \in Nat : \E g \in [0..n -> T] : Rounds(g, n)}
  <1>1. 0 \in S
    <2>1. [k \in 0..0 |-> start] \in [0..0 -> T] /\ Rounds([k \in 0..0 |-> start], 0)
      OBVIOUS
    <2> QED
      BY <2>1
  <1>2. ASSUME NEW n \in Nat, n \in S PROVE n + 1 \in S
    <2>1. PICK g \in [0..n -> T] : Rounds(g, n)
      BY <1>2
    <2> DEFINE h == [k \in 0..(n + 1) |-> IF k = n + 1 THEN step[g[n]] ELSE g[k]]
    <2>2. \A k \in 0..n : k \in 0..(n + 1) /\ k # n + 1
      OBVIOUS
    <2>3. /\ \A k \in 0..n : h[k] = g[k]
          /\ h[n + 1] = step[g[n]]
      BY <2>2
    <2>4. n \in 0..n /\ 0 \in 0..n
      OBVIOUS
    <2>5. h \in [0..(n + 1) -> T]
      <3>1. ASSUME NEW k \in 0..(n + 1), k # n + 1 PROVE k \in 0..n
        BY <3>1
      <3>2. step[g[n]] \in T
        BY <2>4
      <3> QED
        BY <3>1, <3>2
    <2>6. ASSUME NEW k \in 1..(n + 1) PROVE h[k] = step[h[k - 1]]
      <3>1. CASE k = n + 1
        <4>1. k - 1 = n
          BY <3>1
        <4> HIDE DEF h
        <4> QED
          BY <2>3, <2>4, <3>1, <4>1
      <3>2. CASE k # n + 1
        <4>1. k \in 1..n /\ k \in 0..n /\ k - 1 \in 0..n
          BY <3>2
        <4> HIDE DEF h
        <4> QED
          BY <2>1, <2>3, <4>1
      <3> QED
        BY <3>1, <3>2
    <2>7. h[0] = start
      <3> HIDE DEF h
      <3> QED
        BY <2>1, <2>3, <2>4
    <2> HIDE DEF h
    <2> QED
      BY <2>5, <2>6, <2>7
  <1> HIDE DEF S
  <1>3. K \in S
    BY <1>1, <1>2, SetInduction
  <1> QED
    BY <1>3 DEF S

-----------------------------------------------------------------------------
(* Finite sets.                                                            *)

\* What a function makes of a finite set is finite, and no larger.
LEMMA ImageIsSmaller ==
    ASSUME NEW S, IsFiniteSet(S), NEW T, NEW f \in [S -> T], \A y \in T : \E x \in S : f[x] = y
    PROVE  IsFiniteSet(T) /\ Cardinality(T) <= Cardinality(S)
  <1>1. f \in Surjection(S, T)
    BY DEF Surjection
  <1> QED
    BY <1>1, FS_Surjection

-----------------------------------------------------------------------------
(* What a queue holds.                                                     *)

Elems(q) == {q[i] : i \in 1..Len(q)}

\* What is put at the end of a queue is all it holds beside what it held.
LEMMA ElemsOfAppend ==
    ASSUME NEW M, NEW q \in Seq(M), NEW m \in M
    PROVE  Append(q, m) \in Seq(M) /\ Elems(Append(q, m)) = Elems(q) \cup {m}
  <1> DEFINE q2 == Append(q, m)
  <1>1. /\ q2 \in Seq(M)
        /\ Len(q2) = Len(q) + 1
        /\ Len(q) \in Nat
        /\ \A i \in 1..Len(q) : q2[i] = q[i]
        /\ q2[Len(q) + 1] = m
    OBVIOUS
  <1> HIDE DEF q2
  <1>2. ASSUME NEW x PROVE x \in Elems(q2) <=> x \in Elems(q) \cup {m}
    <2>1. ASSUME NEW i \in 1..Len(q2) PROVE q2[i] = m \/ (i \in 1..Len(q) /\ q2[i] = q[i])
      BY <1>1
    <2>2. \A i \in 1..Len(q) : i \in 1..Len(q2) /\ q2[i] = q[i]
      BY <1>1
    <2>3. Len(q) + 1 \in 1..Len(q2)
      BY <1>1
    <2> QED
      BY <1>1, <2>1, <2>2, <2>3 DEF Elems
  <1> QED
    BY <1>1, <1>2 DEF q2

\* Two queues in a row hold what both hold.
LEMMA ElemsOfConcat ==
    ASSUME NEW M, NEW q \in Seq(M), NEW r \in Seq(M)
    PROVE  q \o r \in Seq(M) /\ Elems(q \o r) = Elems(q) \cup Elems(r)
  <1> DEFINE s == q \o r
  <1>1. /\ s \in Seq(M)
        /\ Len(s) = Len(q) + Len(r)
        /\ Len(q) \in Nat /\ Len(r) \in Nat
        /\ \A i \in 1..Len(q) : s[i] = q[i]
        /\ \A i \in 1..Len(r) : s[Len(q) + i] = r[i]
    OBVIOUS
  <1> HIDE DEF s
  <1>2. ASSUME NEW i \in 1..Len(s) PROVE s[i] \in Elems(q) \cup Elems(r)
    <2>1. CASE i <= Len(q)
      BY <1>1, <2>1 DEF Elems
    <2>2. CASE ~(i <= Len(q))
      <3>1. i - Len(q) \in 1..Len(r) /\ i = Len(q) + (i - Len(q))
        BY <1>1, <2>2
      <3>2. s[i] = r[i - Len(q)]
        BY <1>1, <3>1
      <3> QED
        BY <3>1, <3>2 DEF Elems
    <2> QED
      BY <2>1, <2>2
  <1>3. ASSUME NEW i \in 1..Len(q) PROVE q[i] \in Elems(s)
    BY <1>1 DEF Elems
  <1>4. ASSUME NEW i \in 1..Len(r) PROVE r[i] \in Elems(s)
    <2>1. Len(q) + i \in 1..Len(s) /\ s[Len(q) + i] = r[i]
      BY <1>1
    <2> QED
      BY <2>1 DEF Elems
  <1>5. Elems(s) \subseteq Elems(q) \cup Elems(r)
    BY <1>2 DEF Elems
  <1>6. Elems(q) \cup Elems(r) \subseteq Elems(s)
    BY <1>3, <1>4 DEF Elems
  <1> QED
    BY <1>1, <1>5, <1>6 DEF s

\* A queue holds its head and what its tail holds.
LEMMA ElemsOfTail ==
    ASSUME NEW M, NEW q \in Seq(M), q # <<>>
    PROVE  /\ Head(q) \in M /\ Tail(q) \in Seq(M)
           /\ Elems(q) = Elems(Tail(q)) \cup {Head(q)}
  <1> DEFINE t == Tail(q)
  <1>1. /\ t \in Seq(M) /\ Head(q) \in M /\ Head(q) = q[1]
        /\ Len(q) \in Nat \ {0}
        /\ Len(t) = Len(q) - 1
        /\ \A i \in 1..Len(t) : t[i] = q[i + 1]
    BY HeadTailProperties
  <1> HIDE DEF t
  <1>2. ASSUME NEW i \in 1..Len(q), i # 1 PROVE q[i] \in Elems(t)
    <2>1. i - 1 \in 1..Len(t) /\ i = (i - 1) + 1
      BY <1>1, <1>2
    <2>2. q[i] = t[i - 1]
      BY <1>1, <2>1
    <2> QED
      BY <2>1, <2>2 DEF Elems
  <1>3. ASSUME NEW i \in 1..Len(t) PROVE t[i] \in Elems(q)
    <2>1. i + 1 \in 1..Len(q) /\ t[i] = q[i + 1]
      BY <1>1
    <2> QED
      BY <2>1 DEF Elems
  <1>4. 1 \in 1..Len(q) /\ Head(q) \in Elems(q)
    BY <1>1 DEF Elems
  <1>5. Elems(q) \subseteq Elems(t) \cup {Head(q)}
    BY <1>1, <1>2 DEF Elems
  <1>6. Elems(t) \subseteq Elems(q)
    BY <1>3 DEF Elems
  <1> QED
    BY <1>1, <1>4, <1>5, <1>6 DEF t

\* The empty queue holds nothing; what a queue of messages holds is a message.
LEMMA ElemsTyped ==
    /\ Elems(<<>>) = {} /\ DOMAIN <<>> = {} /\ \A M : <<>> \in Seq(M)
    /\ \A M : \A q \in Seq(M) : Elems(q) \subseteq M /\ Len(q) \in Nat /\ DOMAIN q = 1..Len(q)
  BY DEF Elems

\* A function on the first numbers is a sequence.
LEMMA ListByNumbers ==
    ASSUME NEW n \in Nat, NEW M, NEW f \in [1..n -> M]
    PROVE  f \in Seq(M) /\ Len(f) = n
  <1>1. DOMAIN f = 1..n
    OBVIOUS
  <1>2. f \in Seq(M)
    BY IsASeq
  <1>3. Len(f) \in Nat /\ DOMAIN f = 1..Len(f)
    BY <1>2, LenProperties
  <1>4. \A m \in Nat : 1..n = 1..m => m = n
    OBVIOUS
  <1> QED
    BY <1>1, <1>2, <1>3, <1>4

-----------------------------------------------------------------------------
(* Sequences put together, and induction over sequences.                   *)

\* A set that has the empty sequence and with each sequence those that are one
\* longer has every sequence.
LEMMA SequenceInduction ==
    ASSUME NEW M, NEW P, <<>> \in P,
           \A q \in Seq(M), m \in M : q \in P => Append(q, m) \in P
    PROVE  Seq(M) \subseteq P
  <1> DEFINE S == {n \in Nat : \A q \in Seq(M) : Len(q) = n => q \in P}
  <1>1. 0 \in S
    BY EmptySeq
  <1>2. ASSUME NEW n \in Nat, n \in S PROVE n + 1 \in S
    <2> SUFFICES ASSUME NEW q \in Seq(M), Len(q) = n + 1 PROVE q \in P
      OBVIOUS
    <2> DEFINE f == SubSeq(q, 1, n)
    <2>1. \A i \in 1..n : q[i] \in M
      OBVIOUS
    <2>2. f \in Seq(M) /\ Len(f) = n /\ \A i \in 1..n : f[i] = q[i]
      <3>1. Len(f) = IF 1 <= n THEN n - 1 + 1 ELSE 0
        BY <2>1, SubSeqProperties
      <3>2. f \in Seq(M) /\ \A i \in 1..(n - 1 + 1) : f[i] = q[1 + i - 1]
        BY <2>1, SubSeqProperties
      <3> QED
        BY <3>1, <3>2
    <2> HIDE DEF f
    <2>3. q[n + 1] \in M
      OBVIOUS
    <2>4. Append(f, q[n + 1]) = q
      <3>1. /\ Append(f, q[n + 1]) \in Seq(M)
            /\ Len(Append(f, q[n + 1])) = n + 1
            /\ \A i \in 1..(n + 1) : Append(f, q[n + 1])[i] = IF i = n + 1 THEN q[n + 1] ELSE f[i]
        BY <2>2, <2>3, AppendProperties
      <3> QED
        BY <2>2, <3>1, SeqEqual
    <2>5. f \in P
      BY <1>2, <2>2
    <2> QED
      BY <2>2, <2>3, <2>4, <2>5
  <1> HIDE DEF S
  <1>3. \A n \in Nat : n \in S
    BY <1>1, <1>2, SetInduction
  <1> QED
    BY <1>3, LenProperties DEF S

\* What the function in FlattenSeq satisfies.
IsFlattening(f, qs) ==
    f = [i \in 1..Len(qs) |-> IF i = 1 THEN qs[i] ELSE f[i - 1] \o qs[i]]

LEMMA FlatteningExists ==
    ASSUME NEW M, NEW qs \in Seq(Seq(M))
    PROVE  \E f \in [1..Len(qs) -> Seq(M)] : IsFlattening(f, qs)
  <1> DEFINE N == Len(qs)
             Upto(f, n) == \A i \in 1..n : f[i] = IF i = 1 THEN qs[i] ELSE f[i - 1] \o qs[i]
             Exists(n) == \E f \in [1..n -> Seq(M)] : Upto(f, n)
             S == {n \in Nat : n <= N => Exists(n)}
  <1>1. N \in Nat
    OBVIOUS
  <1>2. 0 \in S
    <2>1. <<>> \in [1..0 -> Seq(M)] /\ Upto(<<>>, 0)
      OBVIOUS
    <2> QED
      BY <2>1
  <1>3. ASSUME NEW n \in Nat, n \in S PROVE n + 1 \in S
    <2> SUFFICES ASSUME n + 1 <= N PROVE Exists(n + 1)
      <3> HIDE DEF Exists
      <3> QED
        OBVIOUS
    <2>1. PICK f \in [1..n -> Seq(M)] : Upto(f, n)
      <3>1. Exists(n)
        <4>1. n <= N
          BY <1>1
        <4> HIDE DEF Exists
        <4> QED
          BY <1>3, <4>1
      <3> QED
        BY <3>1
    <2>2. qs[n + 1] \in Seq(M)
      BY <1>1
    <2> DEFINE last == IF n = 0 THEN qs[n + 1] ELSE f[n] \o qs[n + 1]
               g == [i \in 1..(n + 1) |-> IF i = n + 1 THEN last ELSE f[i]]
    <2>3. last \in Seq(M)
      <3>1. n # 0 => f[n] \in Seq(M)
        OBVIOUS
      <3> QED
        BY <2>2, <3>1, ConcatProperties
    <2>4. g \in [1..(n + 1) -> Seq(M)]
      <3> HIDE DEF last
      <3> QED
        BY <2>3
    <2>5. ASSUME NEW i \in 1..(n + 1) PROVE g[i] = IF i = 1 THEN qs[i] ELSE g[i - 1] \o qs[i]
      <3>1. CASE i = n + 1
        <4>1. n # 0 => g[n] = f[n]
          OBVIOUS
        <4>2. g[i] = last
          BY <3>1
        <4> QED
          BY <3>1, <4>1, <4>2
      <3>2. CASE i # n + 1
        <4>1. i \in 1..n /\ (i # 1 => i - 1 \in 1..n)
          BY <3>2
        <4>2. \A j \in 1..n : g[j] = f[j]
          <5> HIDE DEF last
          <5> QED
            OBVIOUS
        <4> HIDE DEF g, last
        <4> QED
          BY <2>1, <4>1, <4>2
      <3> QED
        BY <3>1, <3>2
    <2> QED
      BY <2>4, <2>5
  <1>4. N \in S
    <2> HIDE DEF S
    <2> QED
      BY <1>1, <1>2, <1>3, SetInduction
  <1>5. PICK f \in [1..N -> Seq(M)] : Upto(f, N)
    BY <1>1, <1>4
  <1>6. f = [i \in 1..N |-> IF i = 1 THEN qs[i] ELSE f[i - 1] \o qs[i]]
    BY <1>5
  <1> QED
    BY <1>5, <1>6 DEF IsFlattening

\* The flattenings of two lists agree as far as the lists do.
LEMMA FlatteningsAgree ==
    ASSUME NEW M, NEW qs \in Seq(M), NEW rs \in Seq(M),
           NEW n \in Nat, n <= Len(qs), n <= Len(rs), \A i \in 1..n : qs[i] = rs[i],
           NEW f, NEW g, IsFlattening(f, qs), IsFlattening(g, rs)
    PROVE  \A i \in 1..n : f[i] = g[i]
  <1> DEFINE S == {k \in Nat : k \in 1..n => f[k] = g[k]}
  <1>1. 0 \in S
    OBVIOUS
  <1>2. ASSUME NEW k \in Nat, k \in S PROVE k + 1 \in S
    <2> SUFFICES ASSUME k + 1 \in 1..n PROVE f[k + 1] = g[k + 1]
      OBVIOUS
    <2>1. /\ k + 1 \in 1..Len(qs) /\ k + 1 \in 1..Len(rs) /\ (k + 1) - 1 = k
          /\ k + 1 # 1 => k \in 1..n
      OBVIOUS
    <2>2. f[k + 1] = IF k + 1 = 1 THEN qs[k + 1] ELSE f[(k + 1) - 1] \o qs[k + 1]
      BY <2>1 DEF IsFlattening
    <2>3. g[k + 1] = IF k + 1 = 1 THEN rs[k + 1] ELSE g[(k + 1) - 1] \o rs[k + 1]
      BY <2>1 DEF IsFlattening
    <2>4. k + 1 # 1 => f[k] = g[k]
      BY <1>2, <2>1
    <2> QED
      BY <2>1, <2>2, <2>3, <2>4
  <1> HIDE DEF S
  <1>3. \A k \in Nat : k \in S
    BY <1>1, <1>2, SetInduction
  <1> QED
    BY <1>3 DEF S

\* FlattenSeq of no sequences, and of one more sequence.
LEMMA FlattenNone == FlattenSeq(<<>>) = <<>>
  BY DEF FlattenSeq

LEMMA FlattenIsFlattening ==
    ASSUME NEW M, NEW qs \in Seq(Seq(M)), qs # <<>>
    PROVE  \E f \in [1..Len(qs) -> Seq(M)] : IsFlattening(f, qs) /\ FlattenSeq(qs) = f[Len(qs)]
  <1> DEFINE F == CHOOSE f : IsFlattening(f, qs)
  <1>1. Len(qs) \in Nat \ {0}
    BY EmptySeq
  <1>2. PICK g \in [1..Len(qs) -> Seq(M)] : IsFlattening(g, qs)
    BY FlatteningExists
  <1>3. IsFlattening(F, qs)
    BY <1>2
  <1>4. FlattenSeq(qs) = F[Len(qs)]
    BY <1>1 DEF FlattenSeq, IsFlattening
  <1> HIDE DEF F
  <1>5. \A i \in 1..Len(qs) : F[i] = g[i]
    BY <1>1, <1>2, <1>3, FlatteningsAgree
  <1> QED
    <2>1. Len(qs) \in 1..Len(qs)
      BY <1>1
    <2>2. FlattenSeq(qs) = g[Len(qs)]
      BY <1>4, <1>5, <2>1
    <2> QED
      BY <1>2, <2>2

LEMMA FlattenAppend ==
    ASSUME NEW M, NEW qs \in Seq(Seq(M)), NEW r \in Seq(M)
    PROVE  /\ FlattenSeq(qs) \in Seq(M)
           /\ FlattenSeq(Append(qs, r)) = FlattenSeq(qs) \o r
  <1> SUFFICES ASSUME NEW rs, rs = Append(qs, r), NEW n, n = Len(qs)
               PROVE  FlattenSeq(qs) \in Seq(M) /\ FlattenSeq(rs) = FlattenSeq(qs) \o r
    OBVIOUS
  <1>1. /\ rs \in Seq(Seq(M)) /\ Len(rs) = n + 1 /\ n \in Nat
        /\ \A i \in 1..n : rs[i] = qs[i]
        /\ rs[n + 1] = r
    BY AppendProperties
  <1>2. rs # <<>>
    <2>1. Len(rs) # 0
      BY <1>1
    <2>2. Len(<<>>) = 0
      BY EmptySeq
    <2> QED
      BY <2>1, <2>2
  <1>3. PICK g \in [1..Len(rs) -> Seq(M)] : IsFlattening(g, rs) /\ FlattenSeq(rs) = g[Len(rs)]
    BY <1>1, <1>2, FlattenIsFlattening
  <1>4. g[n + 1] = IF n + 1 = 1 THEN rs[n + 1] ELSE g[(n + 1) - 1] \o rs[n + 1]
    <2>1. n + 1 \in 1..Len(rs)
      BY <1>1
    <2> QED
      BY <1>3, <2>1 DEF IsFlattening
  <1>5. CASE qs = <<>>
    <2>1. n = 0 /\ FlattenSeq(qs) = <<>> /\ <<>> \in Seq(M)
      BY <1>5, FlattenNone
    <2>2. <<>> \o r = r
      OBVIOUS
    <2> QED
      BY <1>1, <1>3, <1>4, <2>1, <2>2
  <1>6. CASE qs # <<>>
    <2>1. PICK f \in [1..n -> Seq(M)] : IsFlattening(f, qs) /\ FlattenSeq(qs) = f[n]
      BY <1>6, FlattenIsFlattening
    <2>2. n \in Nat \ {0}
      BY <1>6, EmptySeq
    <2> DEFINE h == [i \in 1..n |-> g[i]]
    <2>5. IsFlattening(h, qs)
      <3>1. ASSUME NEW i \in 1..n PROVE h[i] = IF i = 1 THEN qs[i] ELSE h[i - 1] \o qs[i]
        <4>1. i \in 1..Len(rs) /\ rs[i] = qs[i] /\ (i # 1 => i - 1 \in 1..n)
          BY <1>1
        <4>2. g[i] = IF i = 1 THEN rs[i] ELSE g[i - 1] \o rs[i]
          BY <1>3, <4>1 DEF IsFlattening
        <4> QED
          BY <4>1, <4>2
      <3>2. h = [i \in 1..n |-> IF i = 1 THEN qs[i] ELSE h[i - 1] \o qs[i]]
        BY <3>1
      <3> QED
        BY <3>2 DEF IsFlattening
    <2> HIDE DEF h
    <2>6. \A i \in 1..n : f[i] = h[i]
      BY <1>1, <2>1, <2>5, FlatteningsAgree
    <2>3. \A i \in 1..n : f[i] = g[i]
      BY <2>6 DEF h
    <2>4. f[n] = g[n] /\ f[n] \in Seq(M) /\ (n + 1) - 1 = n
      <3>1. n \in 1..n /\ (n + 1) - 1 = n
        BY <2>2
      <3> QED
        BY <2>3, <3>1
    <2> QED
      BY <1>1, <1>3, <1>4, <2>1, <2>2, <2>4
  <1> QED
    BY <1>5, <1>6

-----------------------------------------------------------------------------
(* What a sequence has in a set.                                           *)

\* The element, or nothing.
Kept(q, S) == [i \in DOMAIN q |-> IF q[i] \in S THEN <<q[i]>> ELSE <<>>]

LEMMA KeptTyped ==
    ASSUME NEW M, NEW q \in Seq(M), NEW S
    PROVE  Kept(q, S) \in Seq(Seq(M)) /\ Len(Kept(q, S)) = Len(q)
  <1>1. \A i \in 1..Len(q) : (IF q[i] \in S THEN <<q[i]>> ELSE <<>>) \in Seq(M)
    <2>1. \A n \in M : <<n>> \in Seq(M)
      OBVIOUS
    <2> QED
      BY <2>1
  <1>2. Kept(q, S) \in [1..Len(q) -> Seq(M)]
    BY <1>1 DEF Kept
  <1>3. Len(q) \in Nat
    OBVIOUS
  <1> QED
    BY ONLY <1>2, <1>3, IsASeq, LenProperties

LEMMA KeptAppend ==
    ASSUME NEW M, NEW q, q \in Seq(M), NEW m, m \in M, NEW S
    PROVE  Kept(Append(q, m), S) = Append(Kept(q, S), IF m \in S THEN <<m>> ELSE <<>>)
  <1> SUFFICES ASSUME NEW n, n = Len(q), NEW r, r = Append(q, m),
                      NEW one, one = IF m \in S THEN <<m>> ELSE <<>>,
                      NEW k, k = Kept(q, S), NEW l, l = Append(k, one), NEW j, j = Kept(r, S)
               PROVE  j = l
    OBVIOUS
  <1>1. one \in Seq(M)
    OBVIOUS
  <1>2. n \in Nat /\ DOMAIN q = 1..n /\ r \in Seq(M) /\ Len(r) = n + 1 /\ DOMAIN r = 1..(n + 1)
        /\ (\A i \in 1..n : r[i] = q[i]) /\ r[n + 1] = m
    OBVIOUS
  <1>3. k \in Seq(Seq(M)) /\ Len(k) = n /\ j \in Seq(Seq(M)) /\ Len(j) = n + 1
    BY <1>2, KeptTyped
  <1>4. /\ l \in Seq(Seq(M)) /\ Len(l) = n + 1
        /\ \A i \in 1..n : l[i] = k[i]
        /\ l[n + 1] = one
    BY <1>1, <1>3, AppendProperties
  <1>5. ASSUME NEW i \in 1..(n + 1) PROVE j[i] = l[i]
    <2>1. j[i] = IF r[i] \in S THEN <<r[i]>> ELSE <<>>
      BY <1>2 DEF Kept
    <2>2. CASE i = n + 1
      BY <1>2, <1>4, <2>1, <2>2
    <2>3. CASE i # n + 1
      <3>1. i \in 1..n
        BY <1>2, <2>3
      <3>2. k[i] = IF q[i] \in S THEN <<q[i]>> ELSE <<>>
        BY <1>2, <3>1 DEF Kept
      <3> QED
        BY <1>2, <1>4, <2>1, <3>1, <3>2
    <2> QED
      BY <2>2, <2>3
  <1> QED
    BY ONLY <1>3, <1>4, <1>5, SeqEqual

Sifted(q, S) == FlattenSeq(Kept(q, S))

LEMMA SiftedAppend ==
    ASSUME NEW M, NEW q, q \in Seq(M), NEW m, m \in M, NEW S
    PROVE  /\ Sifted(q, S) \in Seq(M)
           /\ Sifted(Append(q, m), S) = IF m \in S THEN Append(Sifted(q, S), m) ELSE Sifted(q, S)
  <1> SUFFICES ASSUME NEW one, one = IF m \in S THEN <<m>> ELSE <<>>, NEW k, k = Kept(q, S)
               PROVE  /\ Sifted(q, S) \in Seq(M)
                      /\ Sifted(Append(q, m), S)
                           = IF m \in S THEN Append(Sifted(q, S), m) ELSE Sifted(q, S)
    OBVIOUS
  <1>1. one \in Seq(M) /\ k \in Seq(Seq(M))
    BY KeptTyped
  <1>2. Sifted(q, S) = FlattenSeq(k)
    BY DEF Sifted
  <1>3. Sifted(Append(q, m), S) = FlattenSeq(Append(k, one))
    <2>1. Kept(Append(q, m), S) = Append(k, one)
      BY KeptAppend
    <2> QED
      BY <2>1 DEF Sifted
  <1>4. Sifted(q, S) \in Seq(M) /\ Sifted(Append(q, m), S) = Sifted(q, S) \o one
    BY ONLY <1>1, <1>2, <1>3, FlattenAppend
  <1>5. \A f \in Seq(M) : f \o <<m>> = Append(f, m) /\ f \o <<>> = f
    OBVIOUS
  <1> QED
    BY <1>4, <1>5

LEMMA SiftedNone == ASSUME NEW S PROVE Sifted(<<>>, S) = <<>>
  <1>1. [i \in DOMAIN <<>> |-> IF <<>>[i] \in S THEN <<<<>>[i]>> ELSE <<>>] = <<>>
    OBVIOUS
  <1> QED
    BY <1>1, FlattenNone DEF Sifted, Kept

\* What is kept are the elements that are in the set.
LEMMA ElemsOfSifted ==
    ASSUME NEW M, NEW q \in Seq(M), NEW S
    PROVE  Sifted(q, S) \in Seq(M) /\ Elems(Sifted(q, S)) = Elems(q) \cap S
  <1> DEFINE P == {f \in Seq(M) : Sifted(f, S) \in Seq(M) /\ Elems(Sifted(f, S)) = Elems(f) \cap S}
  <1>1. <<>> \in P
    <2>1. <<>> \in Seq(M) /\ Elems(<<>>) = {}
      BY DEF Elems
    <2>2. Sifted(<<>>, S) = <<>>
      BY ONLY SiftedNone
    <2> QED
      BY <2>1, <2>2
  <1>2. ASSUME NEW f \in Seq(M), NEW m \in M, f \in P PROVE Append(f, m) \in P
    <2>1. Sifted(f, S) \in Seq(M) /\ Elems(Sifted(f, S)) = Elems(f) \cap S
      BY <1>2
    <2>2. Append(f, m) \in Seq(M) /\ Elems(Append(f, m)) = Elems(f) \cup {m}
      BY ElemsOfAppend
    <2>3. /\ Append(Sifted(f, S), m) \in Seq(M)
          /\ Elems(Append(Sifted(f, S), m)) = Elems(Sifted(f, S)) \cup {m}
      BY <2>1, ElemsOfAppend
    <2>4. Sifted(Append(f, m), S) = IF m \in S THEN Append(Sifted(f, S), m) ELSE Sifted(f, S)
      BY SiftedAppend
    <2>5. Elems(Sifted(Append(f, m), S)) = Elems(Append(f, m)) \cap S
      <3>1. CASE m \in S
        BY <2>1, <2>2, <2>3, <2>4, <3>1
      <3>2. CASE m \notin S
        BY <2>1, <2>2, <2>4, <3>2
      <3> QED
        BY <3>1, <3>2
    <2>6. Sifted(Append(f, m), S) \in Seq(M)
      BY <2>1, <2>3, <2>4
    <2> QED
      BY <2>2, <2>5, <2>6
  <1>3. Seq(M) \subseteq P
    <2> HIDE DEF P
    <2> QED
      BY <1>1, <1>2, SequenceInduction
  <1> QED
    BY <1>3

\* What is kept of the kept.
LEMMA SiftedTwice ==
    ASSUME NEW M, NEW q \in Seq(M), NEW S, NEW T
    PROVE  Sifted(Sifted(q, S), T) = Sifted(q, S \cap T)
  <1> SUFFICES ASSUME NEW U, \A r : r \in U <=> r \in S /\ r \in T
               PROVE  Sifted(Sifted(q, S), T) = Sifted(q, U)
    OBVIOUS
  <1> DEFINE P == {f \in Seq(M) : Sifted(Sifted(f, S), T) = Sifted(f, U)}
  <1>1. <<>> \in P
    BY SiftedNone
  <1>2. ASSUME NEW f \in Seq(M), NEW m \in M, f \in P PROVE Append(f, m) \in P
    <2>1. Sifted(f, S) \in Seq(M)
      BY SiftedAppend
    <2>2. Sifted(Append(f, m), S) = IF m \in S THEN Append(Sifted(f, S), m) ELSE Sifted(f, S)
      BY SiftedAppend
    <2>3. Sifted(Append(f, m), U) = IF m \in U THEN Append(Sifted(f, U), m) ELSE Sifted(f, U)
      BY SiftedAppend
    <2>4. Sifted(Append(Sifted(f, S), m), T)
            = IF m \in T THEN Append(Sifted(Sifted(f, S), T), m) ELSE Sifted(Sifted(f, S), T)
      BY <2>1, SiftedAppend
    <2>5. Sifted(Sifted(f, S), T) = Sifted(f, U)
      BY <1>2
    <2>6. Append(f, m) \in Seq(M)
      BY ElemsOfAppend
    <2>7. Sifted(Sifted(Append(f, m), S), T) = Sifted(Append(f, m), U)
      <3>1. CASE m \in S
        BY <2>2, <2>3, <2>4, <2>5, <3>1
      <3>2. CASE m \notin S
        BY <2>2, <2>3, <2>5, <3>2
      <3> QED
        BY <3>1, <3>2
    <2> QED
      BY <2>6, <2>7
  <1>3. Seq(M) \subseteq P
    <2> HIDE DEF P
    <2> QED
      BY <1>1, <1>2, SequenceInduction
  <1> QED
    BY <1>3

\* Two sets that have the same elements keep the same.
LEMMA SiftedAlike ==
    ASSUME NEW M, NEW q \in Seq(M), NEW S, NEW T, \A r \in Elems(q) : r \in S <=> r \in T
    PROVE  Sifted(q, S) = Sifted(q, T)
  <1>1. \A i \in DOMAIN q : q[i] \in Elems(q)
    BY DEF Elems
  <1> QED
    BY <1>1 DEF Sifted, Kept

\* What sequences hold, put together, is what one of them holds.
LEMMA ElemsOfFlatten ==
    ASSUME NEW M, NEW qs \in Seq(Seq(M))
    PROVE  /\ FlattenSeq(qs) \in Seq(M)
           /\ \A m : m \in Elems(FlattenSeq(qs)) <=> \E i \in 1..Len(qs) : m \in Elems(qs[i])
  <1> DEFINE Holds(rs) == /\ FlattenSeq(rs) \in Seq(M)
                          /\ \A m : m \in Elems(FlattenSeq(rs)) <=> \E i \in 1..Len(rs) : m \in Elems(rs[i])
             P == {rs \in Seq(Seq(M)) : Holds(rs)}
  <1>1. <<>> \in P
    <2>1. <<>> \in Seq(Seq(M)) /\ <<>> \in Seq(M) /\ Len(<<>>) = 0 /\ 1..0 = {}
      BY EmptySeq
    <2> QED
      BY <2>1, FlattenNone, ElemsTyped
  <1>2. ASSUME NEW rs \in Seq(Seq(M)), NEW r \in Seq(M), rs \in P PROVE Append(rs, r) \in P
    <2> SUFFICES ASSUME NEW ss, ss = Append(rs, r), NEW n, n = Len(rs) PROVE Holds(ss)
      BY AppendProperties
    <2>1. /\ ss \in Seq(Seq(M)) /\ Len(ss) = n + 1 /\ n \in Nat
          /\ \A i \in 1..n : ss[i] = rs[i]
          /\ ss[n + 1] = r
      BY AppendProperties
    <2>2. FlattenSeq(rs) \in Seq(M) /\ FlattenSeq(ss) = FlattenSeq(rs) \o r
      BY FlattenAppend
    <2>3. FlattenSeq(ss) \in Seq(M) /\ Elems(FlattenSeq(ss)) = Elems(FlattenSeq(rs)) \cup Elems(r)
      BY <2>2, ElemsOfConcat
    <2>4. Holds(rs)
      BY <1>2
    <2>5. ASSUME NEW m PROVE m \in Elems(FlattenSeq(ss)) <=> \E i \in 1..Len(ss) : m \in Elems(ss[i])
      <3>1. m \in Elems(FlattenSeq(ss)) <=> (\E i \in 1..n : m \in Elems(rs[i])) \/ m \in Elems(r)
        BY <2>3, <2>4
      <3>2. ASSUME NEW i \in 1..n, m \in Elems(rs[i]) PROVE \E j \in 1..(n + 1) : m \in Elems(ss[j])
        <4>1. i \in 1..(n + 1) /\ m \in Elems(ss[i])
          BY <2>1, <3>2
        <4> QED
          BY <4>1
      <3>3. m \in Elems(r) => \E j \in 1..(n + 1) : m \in Elems(ss[j])
        <4>1. n + 1 \in 1..(n + 1)
          BY <2>1
        <4> QED
          BY <2>1, <4>1
      <3>4. ASSUME NEW j \in 1..(n + 1), m \in Elems(ss[j])
            PROVE  (\E i \in 1..n : m \in Elems(rs[i])) \/ m \in Elems(r)
        <4>1. CASE j = n + 1
          BY <2>1, <3>4, <4>1
        <4>2. CASE j # n + 1
          <5>1. j \in 1..n
            BY <2>1, <4>2
          <5> QED
            BY <2>1, <3>4, <5>1
        <4> QED
          BY <4>1, <4>2
      <3> QED
        BY <2>1, <3>1, <3>2, <3>3, <3>4
    <2> QED
      BY <2>3, <2>5
  <1>3. Seq(Seq(M)) \subseteq P
    <2> HIDE DEF P
    <2> QED
      BY <1>1, <1>2, SequenceInduction
  <1> QED
    BY <1>3

\* What a sequence holds is its range as a function.
LEMMA RangeIsElems ==
    ASSUME NEW M, NEW q \in Seq(M)
    PROVE  Range(q) = Elems(q) /\ Range(q) \in SUBSET M
  <1>1. DOMAIN q = 1..Len(q)
    OBVIOUS
  <1> QED
    BY <1>1, ElemsTyped DEF Range, Elems

-----------------------------------------------------------------------------
(* Recursion: a definition by cases over arguments that have a rank, where   *)
(* what is asked for an argument is asked for lower ranks only, has a        *)
(* solution.                                                                 *)

LooksLower(A, F, rank, step) ==
    /\ F # {} /\ \A f \in F : f = [a \in A |-> f[a]]
    /\ rank \in [A -> Nat] /\ \E K \in Nat : \A a \in A : rank[a] < K
    /\ step \in [F -> F]
    /\ \A f, g \in F : \A a \in A :
           (\A b \in A : rank[b] < rank[a] => f[b] = g[b]) => step[f][a] = step[g][a]

LEMMA RecursionExists ==
    ASSUME NEW A, NEW F, NEW rank, NEW step, LooksLower(A, F, rank, step)
    PROVE  \E f \in F : step[f] = f
  <1> USE DEF LooksLower
  <1> PICK K \in Nat : \A a \in A : rank[a] < K
    OBVIOUS
  <1> PICK start \in F : TRUE
    OBVIOUS
  <1> DEFINE Solves(f, k) == \A a \in A : rank[a] < k => step[f][a] = f[a]
             S == {k \in Nat : \E f \in F : Solves(f, k)}
  <1>1. 0 \in S
    <2>1. Solves(start, 0)
      OBVIOUS
    <2> QED
      BY <2>1
  <1>2. ASSUME NEW k \in Nat, k \in S PROVE k + 1 \in S
    <2>1. PICK f \in F : Solves(f, k)
      BY <1>2
    <2>2. PICK g \in F : g = step[f]
      OBVIOUS
    <2>3. ASSUME NEW a \in A, rank[a] < k + 1 PROVE step[g][a] = g[a]
      <3>1. ASSUME NEW b \in A, rank[b] < rank[a] PROVE g[b] = f[b]
        <4>1. rank[b] < k
          BY <2>3, <3>1
        <4> QED
          BY <2>1, <2>2, <4>1
      <3> QED
        BY <2>2, <3>1
    <2> QED
      BY <2>3
  <1> HIDE DEF S
  <1>3. K \in S
    BY <1>1, <1>2, SetInduction
  <1>4. PICK f \in F : Solves(f, K)
    BY <1>3 DEF S
  <1>5. step[f] \in F /\ \A a \in A : step[f][a] = f[a]
    BY <1>4
  <1>6. step[f] = [a \in A |-> step[f][a]] /\ f = [a \in A |-> f[a]]
    BY <1>5
  <1> QED
    BY <1>5, <1>6

\* The largest number of a set of the first numbers.
LEMMA LargestNumber ==
    ASSUME NEW n \in Nat
    PROVE  /\ \A s \in SUBSET (1..n) : s # {} => Max(s) \in s /\ \A i \in s : i <= Max(s)
           /\ n # 0 => Max(1..n) = n /\ (1..n) \ {Max(1..n)} = 1..(n - 1)
  <1>1. ASSUME NEW s \in SUBSET (1..n), s # {} PROVE Max(s) \in s /\ \A i \in s : i <= Max(s)
    <2> DEFINE U == {m \in Nat : \A i \in s : i <= m}
    <2>1. n \in U
      OBVIOUS
    <2>2. PICK m \in U : \A k \in U : m <= k
      BY <2>1, LeastNatural
    <2>3. m \in s
      <3> SUFFICES ASSUME m \notin s PROVE FALSE
        OBVIOUS
      <3>1. \A i \in s : i <= m - 1
        BY <2>2
      <3>2. m # 0
        <4>1. PICK i \in s : i \in 1..n
          BY <1>1
        <4> QED
          BY <2>2, <4>1
      <3>3. m - 1 \in U
        BY <2>2, <3>1, <3>2
      <3> QED
        BY <2>2, <3>3
    <2>4. m \in s /\ \A i \in s : m >= i
      BY <2>2, <2>3
    <2>5. Max(s) \in s /\ \A i \in s : Max(s) >= i
      BY <2>4 DEF Max
    <2> QED
      BY <2>5
  <1>2. ASSUME n # 0 PROVE Max(1..n) = n /\ (1..n) \ {Max(1..n)} = 1..(n - 1)
    <2>1. Max(1..n) \in 1..n /\ \A i \in 1..n : i <= Max(1..n)
      BY <1>1, <1>2
    <2>2. Max(1..n) = n
      BY <1>2, <2>1
    <2> QED
      BY <2>2
  <1> QED
    BY <1>1, <1>2

\* The function in FoldLeft exists for an operation that stays in a set.
IsIteration(f, base, seq, op) ==
    \A s \in SUBSET DOMAIN seq : f[s] = IF s = {} THEN base ELSE op[<<f[s \ {Max(s)}], seq[Max(s)]>>]

LEMMA FoldExists ==
    ASSUME NEW T, NEW B, NEW base \in B, NEW seq \in Seq(T), NEW op \in [B \X T -> B]
    PROVE  \E f \in [SUBSET DOMAIN seq -> B] : IsIteration(f, base, seq, op)
  <1> DEFINE A == SUBSET DOMAIN seq
             rank == [s \in A |-> IF s = {} THEN 0 ELSE Max(s)]
             Body(f, s) == IF s = {} THEN base ELSE op[<<f[s \ {Max(s)}], seq[Max(s)]>>]
             step == [f \in [A -> B] |-> [s \in A |-> Body(f, s)]]
  <1>1. DOMAIN seq = 1..Len(seq) /\ Len(seq) \in Nat /\ \A i \in 1..Len(seq) : seq[i] \in T
    OBVIOUS
  <1>2. ASSUME NEW s \in A, s # {}
        PROVE  /\ Max(s) \in 1..Len(seq) /\ Max(s) \in Nat /\ s \ {Max(s)} \in A
               /\ rank[s \ {Max(s)}] < rank[s]
    <2>1. Max(s) \in s /\ \A i \in s : i <= Max(s)
      BY <1>1, <1>2, LargestNumber
    <2>2. Max(s) \in 1..Len(seq) /\ s \ {Max(s)} \in A /\ rank[s] = Max(s)
      BY <1>1, <1>2, <2>1
    <2>3. CASE s \ {Max(s)} = {}
      BY <2>2, <2>3
    <2>4. CASE s \ {Max(s)} # {}
      <3>1. PICK t \in A : t = s \ {Max(s)}
        BY <2>2
      <3>2. Max(t) \in t
        BY <1>1, <2>4, <3>1, LargestNumber
      <3>3. Max(t) <= Max(s) /\ Max(t) # Max(s) /\ rank[t] = Max(t) /\ Max(t) \in 1..Len(seq)
        BY <1>1, <2>1, <2>4, <3>1, <3>2
      <3> QED
        BY <2>2, <3>1, <3>3
    <2> QED
      BY <2>2, <2>3, <2>4
  <1>3. rank \in [A -> Nat] /\ \A s \in A : rank[s] < Len(seq) + 1
    <2>1. ASSUME NEW s \in A PROVE rank[s] \in Nat /\ rank[s] < Len(seq) + 1
      <3>1. CASE s = {}
        BY <1>1, <3>1
      <3>2. CASE s # {}
        <4>1. rank[s] = Max(s) /\ Max(s) \in 1..Len(seq)
          BY <1>2, <3>2
        <4> QED
          BY <1>1, <4>1
      <3> QED
        BY <3>1, <3>2
    <2> QED
      BY <2>1
  <1>4. step \in [[A -> B] -> [A -> B]]
    <2>1. ASSUME NEW f \in [A -> B], NEW s \in A PROVE Body(f, s) \in B
      BY <1>1, <1>2
    <2> HIDE DEF Body, A
    <2> QED
      BY <2>1
  <1>5. ASSUME NEW f \in [A -> B], NEW g \in [A -> B], NEW s \in A,
               \A t \in A : rank[t] < rank[s] => f[t] = g[t]
        PROVE  step[f][s] = step[g][s]
    <2>1. Body(f, s) = Body(g, s)
      <3> HIDE DEF rank
      <3> QED
        BY <1>2, <1>5
    <2> HIDE DEF Body, A, rank
    <2> QED
      BY <2>1
  <1>6. [s \in A |-> base] \in [A -> B]
    OBVIOUS
  <1>7. \E f \in [A -> B] : step[f] = f
    <2> HIDE DEF step, rank, A
    <2>1. \E K \in Nat : \A s \in A : rank[s] < K
      BY <1>1, <1>3
    <2>2. [A -> B] # {} /\ \A f \in [A -> B] : f = [s \in A |-> f[s]]
      BY <1>6
    <2>3. LooksLower(A, [A -> B], rank, step)
      BY <1>3, <1>4, <1>5, <2>1, <2>2 DEF LooksLower
    <2> QED
      BY <2>3, RecursionExists
  <1>8. PICK f \in [A -> B] : step[f] = f
    BY <1>7
  <1>9. \A s \in A : f[s] = Body(f, s)
    <2> HIDE DEF Body, A
    <2> QED
      BY <1>8
  <1> QED
    BY <1>9 DEF IsIteration

\* What holds of an argument whenever it holds of those of lower rank holds of all.
LEMMA RankInduction ==
    ASSUME NEW A, NEW rank \in [A -> Nat], NEW P,
           \A a \in A : (\A b \in A : rank[b] < rank[a] => b \in P) => a \in P
    PROVE  A \subseteq P
  <1> DEFINE S == {k \in Nat : \A a \in A : rank[a] < k => a \in P}
  <1>1. 0 \in S
    <2>1. ASSUME NEW a \in A, rank[a] < 0 PROVE FALSE
      <3>1. PICK r \in Nat : r = rank[a]
        OBVIOUS
      <3> QED
        BY <2>1, <3>1
    <2> QED
      BY <2>1
  <1>2. ASSUME NEW k \in Nat, k \in S PROVE k + 1 \in S
    <2>1. ASSUME NEW a \in A, rank[a] < k + 1 PROVE a \in P
      <3>1. ASSUME NEW b \in A, rank[b] < rank[a] PROVE b \in P
        <4>1. PICK r \in Nat, s \in Nat : r = rank[a] /\ s = rank[b]
          OBVIOUS
        <4>2. s < k
          BY <2>1, <3>1, <4>1
        <4> QED
          BY <1>2, <4>1, <4>2
      <3> QED
        BY <3>1
    <2> QED
      BY <2>1
  <1> HIDE DEF S
  <1>3. \A k \in Nat : k \in S
    BY <1>1, <1>2, SetInduction
  <1>4. ASSUME NEW a \in A PROVE a \in P
    <2>1. PICK k \in Nat : k = rank[a]
      OBVIOUS
    <2>2. k + 1 \in S /\ rank[a] < k + 1
      BY <1>3, <2>1
    <2> QED
      BY <2>2 DEF S
  <1> QED
    BY <1>4

-----------------------------------------------------------------------------
(* Closures of a relation and walks over one.  A recursive function of a   *)
(* component is one of these for a relation of its own.                    *)

IsClosed(next, C) == \A y \in C : next[y] \subseteq C

\* The least closed set above S.
Closure(next, S) ==
    {y \in DOMAIN next : \A C \in SUBSET DOMAIN next : S \subseteq C /\ IsClosed(next, C) => y \in C}

LEMMA ClosureIsLeast ==
    ASSUME NEW D, NEW next \in [D -> SUBSET D], NEW S \in SUBSET D
    PROVE  /\ Closure(next, S) \in SUBSET D /\ S \subseteq Closure(next, S)
           /\ IsClosed(next, Closure(next, S))
           /\ \A C \in SUBSET D : S \subseteq C /\ IsClosed(next, C) => Closure(next, S) \subseteq C
  <1>1. DOMAIN next = D
    OBVIOUS
  <1>2. ASSUME NEW y \in Closure(next, S), NEW z \in next[y] PROVE z \in Closure(next, S)
    <2>1. y \in D /\ z \in D
      BY <1>1 DEF Closure
    <2> SUFFICES ASSUME NEW C \in SUBSET D, S \subseteq C, IsClosed(next, C) PROVE z \in C
      BY <1>1, <2>1 DEF Closure
    <2>2. y \in C
      BY <1>1 DEF Closure
    <2> QED
      BY <2>2 DEF IsClosed
  <1>3. IsClosed(next, Closure(next, S))
    BY <1>2 DEF IsClosed
  <1> QED
    BY <1>1, <1>3 DEF Closure

\* The function in Reached.
Onward(next, S) == S \cup UNION {next[y] : y \in S}

IsGrowth(grow, next) ==
    grow = [S \in SUBSET DOMAIN next |->
               IF Onward(next, S) = S THEN S ELSE grow[Onward(next, S)]]

LEMMA ClosureIsGrowth ==
    ASSUME NEW D, NEW next \in [D -> SUBSET D]
    PROVE  IsGrowth([S \in SUBSET D |-> Closure(next, S)], next)
  <1> DEFINE G == [S \in SUBSET D |-> Closure(next, S)]
  <1>1. DOMAIN next = D
    OBVIOUS
  <1>2. ASSUME NEW S \in SUBSET D
        PROVE  G[S] = IF Onward(next, S) = S THEN S ELSE G[Onward(next, S)]
    <2>1. Onward(next, S) \in SUBSET D /\ S \subseteq Onward(next, S)
      BY DEF Onward
    <2>2. CASE Onward(next, S) = S
      <3>1. IsClosed(next, S)
        BY <2>2 DEF Onward, IsClosed
      <3>2. Closure(next, S) = S
        BY <3>1, ClosureIsLeast
      <3> QED
        BY <2>2, <3>2
    <2>3. CASE Onward(next, S) # S
      <3>1. ASSUME NEW C \in SUBSET D, S \subseteq C, IsClosed(next, C)
            PROVE  Onward(next, S) \subseteq C
        BY <3>1 DEF Onward, IsClosed
      <3>2. Closure(next, S) = Closure(next, Onward(next, S))
        BY <1>1, <2>1, <3>1 DEF Closure
      <3> QED
        BY <2>1, <2>3, <3>2
    <2> QED
      BY <2>2, <2>3
  <1> HIDE DEF G
  <1>3. G = [S \in SUBSET DOMAIN next |-> IF Onward(next, S) = S THEN S ELSE G[Onward(next, S)]]
    <2>1. G = [S \in SUBSET D |-> G[S]]
      BY DEF G
    <2> QED
      BY <1>1, <1>2, <2>1
  <1> QED
    BY <1>3 DEF IsGrowth, G

\* What is left of a finite set outside a set that grows.
LEMMA LessIsLeft ==
    ASSUME NEW D, IsFiniteSet(D), NEW S, NEW P, S \subseteq P, NEW x \in D, x \notin S, x \in P
    PROVE  /\ Cardinality(D \ S) \in Nat /\ Cardinality(D \ P) \in Nat
           /\ Cardinality(D \ P) < Cardinality(D \ S)
           /\ Cardinality(D) \in Nat /\ Cardinality(D \ S) <= Cardinality(D)
  <1>1. IsFiniteSet(D \ S) /\ IsFiniteSet(D \ P) /\ IsFiniteSet((D \ S) \ {x})
    BY FS_Difference
  <1>2. Cardinality((D \ S) \ {x}) = Cardinality(D \ S) - 1
    BY <1>1, FS_RemoveElement
  <1>3. D \ P \in SUBSET ((D \ S) \ {x})
    OBVIOUS
  <1>4. Cardinality(D \ P) <= Cardinality((D \ S) \ {x})
    BY <1>1, <1>3, FS_Subset
  <1>5. /\ Cardinality(D \ S) \in Nat /\ Cardinality(D \ P) \in Nat /\ Cardinality(D) \in Nat
    BY <1>1, FS_CardinalityType
  <1>6. D \ S \in SUBSET D
    OBVIOUS
  <1>7. Cardinality(D \ S) <= Cardinality(D)
    BY <1>6, FS_Subset
  <1> QED
    BY <1>2, <1>4, <1>5, <1>7

LEMMA GrowthIsClosure ==
    ASSUME NEW D, IsFiniteSet(D), NEW next \in [D -> SUBSET D], NEW grow, IsGrowth(grow, next)
    PROVE  \A S \in SUBSET D : grow[S] = Closure(next, S)
  <1> DEFINE G == [S \in SUBSET D |-> Closure(next, S)]
             P == {S \in SUBSET D : grow[S] = G[S]}
             rank == [S \in SUBSET D |-> Cardinality(D \ S)]
  <1>1. ASSUME NEW S \in SUBSET D
        PROVE  /\ grow[S] = IF Onward(next, S) = S THEN S ELSE grow[Onward(next, S)]
               /\ G[S] = IF Onward(next, S) = S THEN S ELSE G[Onward(next, S)]
               /\ Onward(next, S) \in SUBSET D /\ S \subseteq Onward(next, S)
    <2>1. IsGrowth(G, next) /\ DOMAIN next = D
      BY ClosureIsGrowth
    <2>2. Onward(next, S) \in SUBSET D /\ S \subseteq Onward(next, S)
      BY DEF Onward
    <2> HIDE DEF G
    <2> QED
      BY <2>1, <2>2 DEF IsGrowth
  <1>2. \A S \in SUBSET D : Cardinality(D \ S) \in Nat
    BY FS_Difference, FS_CardinalityType
  <1>3. ASSUME NEW S \in SUBSET D, Onward(next, S) # S
        PROVE  Cardinality(D \ Onward(next, S)) < Cardinality(D \ S)
    <2>1. PICK x \in Onward(next, S) : x \notin S
      BY <1>1, <1>3
    <2>2. x \in D /\ S \subseteq Onward(next, S)
      BY <1>1
    <2> QED
      BY <2>1, <2>2, LessIsLeft
  <1>4. rank \in [SUBSET D -> Nat]
    BY <1>2
  <1>5. ASSUME NEW S \in SUBSET D, \A U \in SUBSET D : rank[U] < rank[S] => U \in P
        PROVE  S \in P
    <2> HIDE DEF G
    <2>1. CASE Onward(next, S) = S
      BY <1>1, <2>1
    <2>2. CASE Onward(next, S) # S
      <3>1. Onward(next, S) \in P
        BY <1>1, <1>3, <1>5, <2>2
      <3> QED
        BY <1>1, <2>2, <3>1
    <2> QED
      BY <2>1, <2>2
  <1> HIDE DEF P, rank
  <1>6. SUBSET D \subseteq P
    BY <1>4, <1>5, RankInduction
  <1> QED
    BY <1>6 DEF P

Beyond(next, L, P) == (UNION {next[m] : m \in L}) \ P

Arguments(D) == (SUBSET D) \X (SUBSET D)

\* The function in Levels, for any relation.
IsWalk(f, D, next) ==
    f = [w \in Arguments(D) |->
            IF w[1] = {} THEN <<>>
            ELSE <<w[1]>> \o f[<<Beyond(next, w[1], w[2] \cup w[1]), w[2] \cup w[1]>>]]

\* A walk on which no level meets the visited ends when all are visited.
Remaining(D, w) ==
    IF w[1] = {} THEN 0
    ELSE IF w[1] \cap w[2] = {} THEN 1 + Cardinality(D \ w[2]) ELSE 2 + Cardinality(D)

Following(next, w) == <<Beyond(next, w[1], w[2] \cup w[1]), w[2] \cup w[1]>>

LEMMA FollowingIsLower ==
    ASSUME NEW D, IsFiniteSet(D), NEW next \in [D -> SUBSET D], NEW w \in Arguments(D)
    PROVE  /\ Remaining(D, w) \in Nat /\ Remaining(D, w) < 3 + Cardinality(D)
           /\ Following(next, w) \in Arguments(D)
           /\ w[1] # {} => Remaining(D, Following(next, w)) < Remaining(D, w)
  <1>0. PICK L \in SUBSET D, V \in SUBSET D : w = <<L, V>>
    BY DEF Arguments
  <1> DEFINE P == V \cup L
             M == Beyond(next, L, P)
  <1>1. M \in SUBSET D /\ P \in SUBSET D /\ M \cap P = {} /\ Following(next, w) = <<M, P>>
    BY <1>0 DEF Beyond, Following
  <1> HIDE DEF M
  <1>2. \A S \in SUBSET D : /\ Cardinality(D \ S) \in Nat /\ Cardinality(D) \in Nat
                            /\ Cardinality(D \ S) <= Cardinality(D)
    <2>1. ASSUME NEW S \in SUBSET D PROVE D \ S \in SUBSET D
      OBVIOUS
    <2> QED
      BY <2>1, FS_CardinalityType, FS_Subset
  <1>3. PICK c \in Nat, p \in Nat, v \in Nat :
            /\ c = Cardinality(D) /\ p = Cardinality(D \ P) /\ v = Cardinality(D \ V)
            /\ p <= c /\ v <= c
    BY <1>1, <1>2
  <1>4. Remaining(D, w) = IF L = {} THEN 0 ELSE IF L \cap V = {} THEN 1 + v ELSE 2 + c
    BY <1>0, <1>3 DEF Remaining
  <1>5. Remaining(D, <<M, P>>) = IF M = {} THEN 0 ELSE 1 + p
    BY <1>1, <1>3 DEF Remaining
  <1>6. ASSUME L # {}, L \cap V = {} PROVE p < v
    <2>1. PICK x \in L : x \in D /\ x \notin V /\ x \in P /\ V \subseteq P
      BY <1>6
    <2> QED
      BY <1>3, <2>1, LessIsLeft
  <1> QED
    <2>1. <<M, P>> \in Arguments(D)
      BY <1>1 DEF Arguments
    <2>2. Remaining(D, w) \in Nat /\ Remaining(D, w) < 3 + c
      BY <1>3, <1>4
    <2>3. L # {} => Remaining(D, <<M, P>>) < Remaining(D, w)
      BY <1>3, <1>4, <1>5, <1>6
    <2> QED
      BY <1>0, <1>1, <1>3, <2>1, <2>2, <2>3

LEMMA WalkExists ==
    ASSUME NEW D, IsFiniteSet(D), NEW next \in [D -> SUBSET D]
    PROVE  \E f \in [Arguments(D) -> Seq(SUBSET D)] : IsWalk(f, D, next)
  <1> DEFINE A == Arguments(D)
             B == Seq(SUBSET D)
             rank == [w \in A |-> Remaining(D, w)]
             step == [f \in [A -> B] |-> [w \in A |-> IF w[1] = {} THEN <<>> ELSE <<w[1]>> \o f[Following(next, w)]]]
  <1>1. B # {} /\ <<>> \in B
    BY EmptySeq
  <1>2. rank \in [A -> Nat] /\ \E K \in Nat : \A w \in A : rank[w] < K
    <2>1. 3 + Cardinality(D) \in Nat
      BY FS_CardinalityType
    <2>2. rank \in [A -> Nat] /\ \A w \in A : rank[w] < 3 + Cardinality(D)
      BY FollowingIsLower
    <2> QED
      BY <2>1, <2>2
  <1>3. step \in [[A -> B] -> [A -> B]]
    <2>1. ASSUME NEW f \in [A -> B], NEW w \in A
          PROVE  (IF w[1] = {} THEN <<>> ELSE <<w[1]>> \o f[Following(next, w)]) \in B
      <3>1. Following(next, w) \in A /\ <<w[1]>> \in B
        <4>1. w[1] \in SUBSET D
          BY DEF Arguments
        <4>2. <<w[1]>> \in Seq(SUBSET D)
          BY <4>1
        <4> QED
          BY <4>2, FollowingIsLower
      <3>2. f[Following(next, w)] \in B
        BY <3>1
      <3> QED
        BY <1>1, <3>1, <3>2, ConcatProperties
    <2> HIDE DEF A, B
    <2> QED
      BY <2>1
  <1>4. ASSUME NEW f \in [A -> B], NEW g \in [A -> B], NEW w \in A,
               \A v \in A : rank[v] < rank[w] => f[v] = g[v]
        PROVE  step[f][w] = step[g][w]
    <2>1. w[1] # {} => f[Following(next, w)] = g[Following(next, w)]
      BY <1>4, FollowingIsLower
    <2> HIDE DEF A, B
    <2> QED
      BY <2>1
  <1>5. LooksLower(A, [A -> B], rank, step)
    <2> HIDE DEF A, B, rank, step
    <2>1. [w \in A |-> <<>>] \in [A -> B] /\ \A f \in [A -> B] : f = [w \in A |-> f[w]]
      BY <1>1
    <2> QED
      BY <1>2, <1>3, <1>4, <2>1 DEF LooksLower
  <1>6. PICK f \in [A -> B] : step[f] = f
    <2> HIDE DEF A, B, rank, step
    <2> QED
      BY <1>5, RecursionExists
  <1>7. f = [w \in A |-> IF w[1] = {} THEN <<>> ELSE <<w[1]>> \o f[Following(next, w)]]
    <2> HIDE DEF A, B
    <2> QED
      BY <1>6
  <1> QED
    BY <1>7 DEF IsWalk, Following

\* What a walk makes of a first level L and the visited V: levels that are
\* disjoint, each the neighbours of the one before and of no earlier one, closed
\* up to the visited, and within every closed set that has the first level.
Levelled(D, next, L, V, E) ==
    /\ E \in Seq(SUBSET D)
    /\ E = <<>> <=> L = {}
    /\ L # {} => E[1] = L
    /\ \A i \in 2..Len(E) : E[i] \cap (V \cup L) = {}
    /\ \A i, j \in 1..Len(E) : i # j => E[i] \cap E[j] = {}
    /\ \A i \in 2..Len(E), j \in 1..Len(E) : \A m \in E[i] :
          j < i => (j = i - 1 <=> \E k \in E[j] : m \in next[k])
    /\ \A i \in 1..Len(E) : \A k \in E[i] : \A m \in next[k] :
          m \in V \/ \E j \in 1..Len(E) : m \in E[j]
    /\ \A C \in SUBSET D : L \subseteq C /\ IsClosed(next, C) => \A i \in 1..Len(E) : E[i] \subseteq C

LEMMA NothingLevelled ==
    ASSUME NEW D, NEW next \in [D -> SUBSET D], NEW V \in SUBSET D
    PROVE  Levelled(D, next, {}, V, <<>>)
  <1>1. <<>> \in Seq(SUBSET D) /\ Len(<<>>) = 0
    BY EmptySeq
  <1>2. 2..0 = {} /\ 1..0 = {}
    OBVIOUS
  <1> QED
    BY <1>1, <1>2 DEF Levelled

LEMMA OneMoreLevel ==
    ASSUME NEW D, NEW next \in [D -> SUBSET D], NEW L \in SUBSET D, L # {}, NEW V \in SUBSET D,
           NEW P, P = V \cup L, NEW M, M = Beyond(next, L, P), NEW F, Levelled(D, next, M, P, F)
    PROVE  Levelled(D, next, L, V, <<L>> \o F)
  <1> SUFFICES ASSUME NEW E, E = <<L>> \o F, NEW n, n = Len(F)
               PROVE  Levelled(D, next, L, V, E)
    OBVIOUS
  <1>1. /\ F \in Seq(SUBSET D) /\ n \in Nat /\ Len(<<L>>) = 1 /\ <<L>>[1] = L /\ <<L>> \in Seq(SUBSET D)
    BY DEF Levelled
  <1>0. n \in Nat
    BY <1>1
  <1>2. /\ E \in Seq(SUBSET D) /\ Len(E) = n + 1 /\ E[1] = L /\ E # <<>>
        /\ \A i \in 2..(n + 1) : E[i] = F[i - 1]
    <2>1. /\ E \in Seq(SUBSET D) /\ Len(E) = 1 + n
          /\ \A i \in 1..(1 + n) : E[i] = IF i <= 1 THEN <<L>>[i] ELSE F[i - 1]
      BY <1>1, ConcatProperties
    <2>2. E[1] = L /\ \A i \in 2..(n + 1) : E[i] = F[i - 1]
      BY <1>1, <2>1
    <2> QED
      BY <1>1, <2>1, <2>2, EmptySeq
  <1>3. \A i \in 2..(n + 1) : i - 1 \in 1..n
    BY <1>1
  <1>4. n # 0 => F[1] = M
    BY <1>1, EmptySeq DEF Levelled
  <1>5. M \cap P = {}
    BY DEF Beyond
  <1>6. ASSUME NEW i \in 2..(n + 1) PROVE E[i] \cap (V \cup L) = {}
    <2>1. CASE i = 2
      <3>1. n # 0 /\ E[i] = F[1]
        BY <1>0, <1>2, <2>1
      <3> QED
        BY <1>4, <1>5, <3>1
    <2>2. CASE i # 2
      <3>1. i - 1 \in 2..n
        BY <1>1, <2>2
      <3>2. F[i - 1] \cap (P \cup M) = {}
        BY <3>1 DEF Levelled
      <3> QED
        BY <1>2, <3>2
    <2> QED
      BY <2>1, <2>2
  <1>7. ASSUME NEW i \in 1..(n + 1), NEW j \in 1..(n + 1), i # j PROVE E[i] \cap E[j] = {}
    <2>1. CASE i = 1 \/ j = 1
      <3>1. i # 1 => i \in 2..(n + 1)
        BY <1>1
      <3>2. j # 1 => j \in 2..(n + 1)
        BY <1>1
      <3> QED
        BY <1>2, <1>6, <1>7, <2>1, <3>1, <3>2
    <2>2. CASE i # 1 /\ j # 1
      <3>1. /\ i \in 2..(n + 1) /\ j \in 2..(n + 1) /\ i - 1 \in 1..n /\ j - 1 \in 1..n
            /\ i - 1 # j - 1
        BY <1>1, <1>7, <2>2
      <3>2. F[i - 1] \cap F[j - 1] = {}
        BY <3>1 DEF Levelled
      <3> QED
        BY <1>2, <3>1, <3>2
    <2> QED
      BY <2>1, <2>2
  <1>8. ASSUME NEW i \in 2..(n + 1), NEW j \in 1..(n + 1), NEW m \in E[i], j < i
        PROVE  j = i - 1 <=> \E k \in E[j] : m \in next[k]
    <2>1. i - 1 \in 1..n /\ m \in F[i - 1]
      BY <1>2, <1>3
    <2>2. CASE j = 1
      <3>1. CASE i = 2
        BY <1>2, <1>4, <2>1, <2>2, <3>1 DEF Beyond
      <3>2. CASE i # 2
        <4>1. i - 1 \in 2..n
          BY <1>1, <3>2
        <4>2. m \notin P /\ m \notin M
          BY <2>1, <4>1 DEF Levelled
        <4>3. ~\E k \in L : m \in next[k]
          BY <4>2 DEF Beyond
        <4> QED
          BY <1>2, <2>2, <3>2, <4>3
      <3> QED
        BY <3>1, <3>2
    <2>3. CASE j # 1
      <3>1. j \in 2..(n + 1) /\ j - 1 \in 1..n /\ i - 1 \in 2..n /\ j - 1 < i - 1
        BY <1>1, <1>8, <2>3
      <3>2. j - 1 = (i - 1) - 1 <=> \E k \in F[j - 1] : m \in next[k]
        <4>1. PICK a \in 2..n, b \in 1..n : a = i - 1 /\ b = j - 1
          BY <3>1
        <4>2. m \in F[a] /\ b < a
          BY <2>1, <3>1, <4>1
        <4>3. b = a - 1 <=> \E k \in F[b] : m \in next[k]
          BY <4>2 DEF Levelled
        <4> QED
          BY <4>1, <4>3
      <3>3. j - 1 = (i - 1) - 1 <=> j = i - 1
        BY <1>0
      <3> QED
        BY <1>2, <3>1, <3>2, <3>3
    <2> QED
      BY <2>2, <2>3
  <1>9. ASSUME NEW i \in 1..(n + 1), NEW k \in E[i], NEW m \in next[k], m \notin V
        PROVE  \E j \in 1..(n + 1) : m \in E[j]
    <2>1. 1 \in 1..(n + 1) /\ \A h \in 1..n : h + 1 \in 1..(n + 1) /\ E[h + 1] = F[h]
      <3>1. ASSUME NEW h \in 1..n PROVE h + 1 \in 2..(n + 1) /\ (h + 1) - 1 = h /\ h + 1 \in 1..(n + 1)
        BY <1>0
      <3> QED
        BY <1>1, <1>2, <3>1
    <2>2. CASE m \in L
      BY <1>2, <2>1, <2>2
    <2>3. CASE m \notin L
      <3>1. CASE i = 1
        <4>1. m \in M
          BY <1>2, <1>9, <2>3, <3>1 DEF Beyond
        <4>2. n # 0
          BY <1>1, <4>1, EmptySeq DEF Levelled
        <4>3. 1 \in 1..n /\ m \in F[1]
          BY <1>1, <1>4, <4>1, <4>2
        <4> QED
          BY <2>1, <4>3
      <3>2. CASE i # 1
        <4>1. i \in 2..(n + 1) /\ i - 1 \in 1..n /\ k \in F[i - 1]
          BY <1>1, <1>2, <3>2
        <4>2. m \in P \/ \E j \in 1..n : m \in F[j]
          BY <4>1 DEF Levelled
        <4>3. PICK j \in 1..n : m \in F[j]
          BY <1>9, <2>3, <4>2
        <4> QED
          BY <2>1, <4>3
      <3> QED
        BY <3>1, <3>2
    <2> QED
      BY <2>2, <2>3
  <1>10. ASSUME NEW C \in SUBSET D, L \subseteq C, IsClosed(next, C), NEW i \in 1..(n + 1)
         PROVE  E[i] \subseteq C
    <2>1. CASE i = 1
      BY <1>2, <1>10, <2>1
    <2>2. CASE i # 1
      <3>1. i \in 2..(n + 1) /\ i - 1 \in 1..n
        BY <1>1, <2>2
      <3>2. M \subseteq C
        BY <1>10 DEF Beyond, IsClosed
      <3>3. F[i - 1] \subseteq C
        BY <1>10, <3>1, <3>2 DEF Levelled
      <3> QED
        BY <1>2, <3>1, <3>3
    <2> QED
      BY <2>1, <2>2
  <1>11. \A i \in 2..Len(E) : E[i] \cap (V \cup L) = {}
    BY <1>2, <1>6
  <1>12. \A i, j \in 1..Len(E) : i # j => E[i] \cap E[j] = {}
    BY <1>2, <1>7
  <1>13. \A i \in 2..Len(E), j \in 1..Len(E) : \A m \in E[i] :
             j < i => (j = i - 1 <=> \E k \in E[j] : m \in next[k])
    BY <1>2, <1>8, ZenonT(40)
  <1>14. \A i \in 1..Len(E) : \A k \in E[i] : \A m \in next[k] :
             m \in V \/ \E j \in 1..Len(E) : m \in E[j]
    BY <1>2, <1>9
  <1>15. \A C \in SUBSET D : L \subseteq C /\ IsClosed(next, C) => \A i \in 1..Len(E) : E[i] \subseteq C
    BY <1>2, <1>10
  <1>16. /\ E \in Seq(SUBSET D) /\ (E = <<>> <=> L = {}) /\ (L # {} => E[1] = L)
    BY <1>2
  <1> QED
    BY ONLY <1>11, <1>12, <1>13, <1>14, <1>15, <1>16 DEF Levelled

LEMMA WalkIsLevelled ==
    ASSUME NEW D, IsFiniteSet(D), NEW next \in [D -> SUBSET D], NEW f, IsWalk(f, D, next),
           NEW L \in SUBSET D, NEW V \in SUBSET D
    PROVE  Levelled(D, next, L, V, f[<<L, V>>])
  <1> DEFINE A == Arguments(D)
             rank == [w \in A |-> Remaining(D, w)]
             P == {w \in A : Levelled(D, next, w[1], w[2], f[w])}
  <1>1. rank \in [A -> Nat]
    BY FollowingIsLower
  <1>2. ASSUME NEW w \in A, \A v \in A : rank[v] < rank[w] => v \in P PROVE w \in P
    <2>1. PICK K \in SUBSET D, U \in SUBSET D : w = <<K, U>> /\ w[1] = K /\ w[2] = U
      BY DEF Arguments
    <2>2. f[w] = IF K = {} THEN <<>> ELSE <<K>> \o f[Following(next, w)]
      BY <2>1 DEF IsWalk, Following
    <2>3. CASE K = {}
      <3>1. Levelled(D, next, K, U, f[w])
        BY <2>2, <2>3, NothingLevelled
      <3> QED
        BY <2>1, <3>1
    <2>4. CASE K # {}
      <3>1. Following(next, w) \in P
        BY <1>2, <2>1, <2>4, FollowingIsLower
      <3>2. Levelled(D, next, Beyond(next, K, U \cup K), U \cup K, f[Following(next, w)])
        BY <2>1, <3>1 DEF Following
      <3>3. Levelled(D, next, K, U, <<K>> \o f[Following(next, w)])
        BY <2>4, <3>2, OneMoreLevel
      <3> QED
        BY <2>1, <2>2, <2>4, <3>3
    <2> QED
      BY <2>3, <2>4
  <1>3. A \subseteq P
    <2> HIDE DEF A, rank, P
    <2> QED
      BY <1>1, <1>2, RankInduction
  <1>4. <<L, V>> \in A
    BY DEF Arguments
  <1>5. <<L, V>> \in P
    BY <1>3, <1>4
  <1> QED
    BY <1>5

\* A sequence of sets is its first and the rest; their union is what is in one.
LEMMA FirstAndRest ==
    ASSUME NEW D, NEW E \in Seq(SUBSET D), E # <<>>
    PROVE  /\ Tail(E) \in Seq(SUBSET D) /\ <<E[1]>> \o Tail(E) = E
           /\ Len(E) \in Nat \ {0} /\ Len(Tail(E)) = Len(E) - 1
           /\ \A i \in 1..(Len(E) - 1) : Tail(E)[i] = E[i + 1]
  <1>1. /\ Len(E) \in Nat \ {0} /\ Tail(E) \in Seq(SUBSET D) /\ Len(Tail(E)) = Len(E) - 1
        /\ \A i \in 1..(Len(E) - 1) : Tail(E)[i] = E[i + 1]
    BY HeadTailProperties, EmptySeq
  <1>2. E[1] \in SUBSET D
    BY <1>1
  <1> SUFFICES ASSUME NEW t \in Seq(SUBSET D), t = Tail(E), NEW n \in Nat \ {0}, n = Len(E),
                      NEW h \in Seq(SUBSET D), h = <<E[1]>>, Len(h) = 1, h[1] = E[1]
               PROVE  h \o t = E
    <2>1. <<E[1]>> \in Seq(SUBSET D) /\ Len(<<E[1]>>) = 1 /\ <<E[1]>>[1] = E[1]
      BY <1>2
    <2> QED
      BY <1>1, <2>1
  <1>3. PICK c \in Seq(SUBSET D) : c = h \o t
    BY ConcatProperties
  <1>4. /\ Len(c) = 1 + (n - 1)
        /\ \A i \in 1..(1 + (n - 1)) : c[i] = IF i <= 1 THEN h[i] ELSE t[i - 1]
    BY <1>1, <1>3, ConcatProperties
  <1>5. ASSUME NEW i \in 1..n PROVE c[i] = E[i]
    <2>1. CASE i = 1
      BY <1>4, <2>1
    <2>2. CASE i # 1
      <3>1. i - 1 \in 1..(n - 1) /\ (i - 1) + 1 = i /\ i \in 1..(1 + (n - 1)) /\ ~(i <= 1)
        BY <2>2
      <3>2. c[i] = t[i - 1]
        BY <1>4, <3>1
      <3>3. t[i - 1] = E[(i - 1) + 1]
        BY <1>1, <3>1
      <3> QED
        BY <3>1, <3>2, <3>3
    <2> QED
      BY <2>1, <2>2
  <1>6. Len(c) = Len(E)
    BY <1>4
  <1>7. c = E
    BY <1>5, <1>6, SeqEqual
  <1> QED
    BY <1>1, <1>3, <1>7

LEMMA UnionOfLevels ==
    ASSUME NEW D, NEW E \in Seq(SUBSET D)
    PROVE  /\ UNION Range(E) \in SUBSET D
           /\ \A m : m \in UNION Range(E) <=> \E i \in 1..Len(E) : m \in E[i]
  <1>1. DOMAIN E = 1..Len(E) /\ \A i \in 1..Len(E) : E[i] \in SUBSET D
    OBVIOUS
  <1>2. Range(E) = {E[i] : i \in 1..Len(E)}
    BY <1>1 DEF Range
  <1> QED
    BY <1>1, <1>2

\* What is proved of the levels above n and of those below it: the conjuncts of
\* LevelsAreNearestFirst, for any two relations.
OnceIn(list) == \A i, j \in DOMAIN list : i # j => list[i] \cap list[j] = {}

BothWays(D, above, below, n, E, V, F) ==
    /\ above \in [D -> SUBSET D] /\ below \in [D -> SUBSET D] /\ n \in D
    /\ Levelled(D, above, {n}, {}, E) /\ V = UNION Range(Tail(E)) /\ Levelled(D, below, {n}, V, F)

WhatBothWaysMake(above, below, n, E, F) ==
    /\ <<{n}>> \o Tail(E) = E /\ <<{n}>> \o Tail(F) = F
    /\ UNION Range(E) = Closure(above, {n})
    /\ UNION Range(F) \subseteq Closure(below, {n})
    /\ Closure(above, {n}) \cap Closure(below, {n}) = {n} => UNION Range(F) = Closure(below, {n})
    /\ OnceIn(E \o Tail(F))

\* What is reached and what it is reached from.
LEMMA ClosureOfOne ==
    ASSUME NEW D, NEW next \in [D -> SUBSET D], NEW n \in D
    PROVE  {n} \cup Closure(next, next[n]) = Closure(next, {n})
  <1> DEFINE C == Closure(next, next[n])
             B == Closure(next, {n})
  <1>1. /\ C \in SUBSET D /\ next[n] \subseteq C /\ IsClosed(next, C)
        /\ \A X \in SUBSET D : next[n] \subseteq X /\ IsClosed(next, X) => C \subseteq X
    <2>1. next[n] \in SUBSET D
      OBVIOUS
    <2> QED
      BY <2>1, ClosureIsLeast
  <1>2. /\ B \in SUBSET D /\ n \in B /\ IsClosed(next, B)
        /\ \A X \in SUBSET D : n \in X /\ IsClosed(next, X) => B \subseteq X
    <2>1. {n} \in SUBSET D
      OBVIOUS
    <2> QED
      BY <2>1, ClosureIsLeast
  <1> HIDE DEF C, B
  <1>3. IsClosed(next, {n} \cup C)
    BY <1>1 DEF IsClosed
  <1>4. B \subseteq {n} \cup C
    BY <1>1, <1>2, <1>3
  <1>5. C \subseteq B
    BY <1>1, <1>2 DEF IsClosed
  <1> QED
    BY <1>2, <1>4, <1>5 DEF C, B

\* What has been met before each element of a list, when those met already are
\* passed over.
Stations(acc, meet, base, q) ==
    /\ acc[0] = base
    /\ \A i \in 1..Len(q) : acc[i] = IF q[i] \in acc[i - 1] THEN acc[i - 1] ELSE meet[<<q[i], acc[i - 1]>>]

MeetAll(meet, base, q) == FoldLeft(LAMBDA acc, t : IF t \in acc THEN acc ELSE meet[<<t, acc>>], base, q)

\* The function in that fold.
IsPassing(iter, meet, base, q) ==
    iter = [s \in SUBSET DOMAIN q |->
               IF s = {} THEN base
               ELSE LET x == Max(s)
                    IN  IF q[x] \in iter[s \ {x}] THEN iter[s \ {x}] ELSE meet[<<q[x], iter[s \ {x}]>>]]

\* Meeting an entity that has not been met adds to what has been.
Above(D, base) == {T \in SUBSET D : base \subseteq T}

Adds(D, meet, base) ==
    \A t \in D : \A T \in Above(D, base) :
       t \notin T => meet[<<t, T>>] \in SUBSET D /\ T \subseteq meet[<<t, T>>]

LEMMA PassingExists ==
    ASSUME NEW D, NEW meet, NEW base \in SUBSET D, Adds(D, meet, base), NEW q \in Seq(D)
    PROVE  \E f \in [SUBSET DOMAIN q -> Above(D, base)] : IsPassing(f, meet, base, q)
  <1> DEFINE B == Above(D, base)
             op == [p \in B \X D |-> IF p[2] \in p[1] THEN p[1] ELSE meet[<<p[2], p[1]>>]]
  <1>0. base \in B /\ \A T \in B : T \in SUBSET D
    BY DEF Above
  <1>1. op \in [B \X D -> B]
    <2>1. ASSUME NEW T \in B, NEW t \in D PROVE (IF t \in T THEN T ELSE meet[<<t, T>>]) \in B
      BY DEF Adds, Above
    <2> HIDE DEF B
    <2> QED
      BY <2>1
  <1>2. PICK f \in [SUBSET DOMAIN q -> B] : IsIteration(f, base, q, op)
    <2> HIDE DEF op, B
    <2> QED
      BY <1>0, <1>1, FoldExists
  <1> HIDE DEF B
  <1>3. ASSUME NEW s \in SUBSET DOMAIN q
        PROVE  f[s] = IF s = {} THEN base
                      ELSE LET x == Max(s)
                           IN  IF q[x] \in f[s \ {x}] THEN f[s \ {x}] ELSE meet[<<q[x], f[s \ {x}]>>]
    <2>1. CASE s = {}
      BY <1>2, <2>1 DEF IsIteration
    <2>2. CASE s # {}
      <3>1. PICK x : x = Max(s)
        OBVIOUS
      <3>2. x \in s
        <4>1. DOMAIN q = 1..Len(q) /\ Len(q) \in Nat
          OBVIOUS
        <4> QED
          BY <2>2, <3>1, <4>1, LargestNumber
      <3>3. q[x] \in D /\ s \ {x} \in SUBSET DOMAIN q
        BY <3>2
      <3>4. f[s \ {x}] \in B /\ <<f[s \ {x}], q[x]>> \in B \X D
        BY <3>3
      <3>5. f[s] = op[<<f[s \ {x}], q[x]>>]
        BY <1>2, <2>2, <3>1 DEF IsIteration
      <3>6. op[<<f[s \ {x}], q[x]>>] = IF q[x] \in f[s \ {x}] THEN f[s \ {x}] ELSE meet[<<q[x], f[s \ {x}]>>]
        BY <3>4
      <3> HIDE DEF op
      <3> QED
        BY <2>2, <3>1, <3>5, <3>6
    <2> QED
      BY <2>1, <2>2
  <1>4. IsPassing(f, meet, base, q)
    BY <1>3 DEF IsPassing
  <1> QED
    BY <1>4 DEF B

-----------------------------------------------------------------------------
(* Lists: folds that add to a set, and the least set they fill.            *)

\* What holds of 0 and of each number after the one before it.
LEMMA NumberByNumber ==
    ASSUME NEW k \in Nat, NEW P, 0 \in P, \A i \in 1..k : i - 1 \in P => i \in P
    PROVE  0..k \subseteq P
  <1> DEFINE S == {i \in Nat : i <= k => i \in P}
  <1>1. 0 \in S
    OBVIOUS
  <1>2. ASSUME NEW i \in Nat, i \in S PROVE i + 1 \in S
    <2> SUFFICES ASSUME i + 1 <= k PROVE i + 1 \in P
      OBVIOUS
    <2>1. i + 1 \in 1..k /\ (i + 1) - 1 = i /\ i \in P
      BY <1>2
    <2> QED
      BY <2>1
  <1> HIDE DEF S
  <1>3. \A i \in Nat : i \in S
    BY <1>1, <1>2, SetInduction
  <1> QED
    BY <1>3 DEF S

LEMMA FoldPassesStations ==
    ASSUME NEW D, NEW meet, NEW base \in SUBSET D, Adds(D, meet, base), NEW q \in Seq(D)
    PROVE  \E acc \in [0..Len(q) -> Above(D, base)] :
              Stations(acc, meet, base, q) /\ MeetAll(meet, base, q) = acc[Len(q)]
  <1> DEFINE F == CHOOSE iter : IsPassing(iter, meet, base, q)
             acc == [i \in 0..Len(q) |-> F[1..i]]
  <1>1. IsPassing(F, meet, base, q)
    BY PassingExists
  <1>2. MeetAll(meet, base, q) = F[DOMAIN q]
    BY DEF MeetAll, FoldLeft, MapThenFoldSet, IsPassing
  <1> HIDE DEF F
  <1>3. DOMAIN q = 1..Len(q) /\ Len(q) \in Nat /\ 1..0 = {}
    OBVIOUS
  <1>4. acc[0] = base
    <2>1. F[{}] = base
      BY <1>1 DEF IsPassing
    <2>2. acc[0] = F[1..0]
      BY <1>3
    <2> QED
      BY <1>3, <2>1, <2>2
  <1>5. ASSUME NEW i \in 1..Len(q)
        PROVE  acc[i] = IF q[i] \in acc[i - 1] THEN acc[i - 1] ELSE meet[<<q[i], acc[i - 1]>>]
    <2>1. i \in Nat /\ i # 0 /\ i - 1 \in 0..Len(q) /\ i \in 0..Len(q)
      BY <1>3
    <2>2. Max(1..i) = i /\ (1..i) \ {Max(1..i)} = 1..(i - 1)
      BY <2>1, LargestNumber
    <2>3. 1..i \in SUBSET DOMAIN q /\ 1..i # {}
      <3>1. i \in 1..i /\ \A j \in 1..i : j \in 1..Len(q)
        BY <1>3, <2>1
      <3> QED
        BY <1>3, <3>1
    <2>4. F[1..i] = IF q[i] \in F[1..(i - 1)] THEN F[1..(i - 1)] ELSE meet[<<q[i], F[1..(i - 1)]>>]
      BY <1>1, <2>2, <2>3 DEF IsPassing
    <2>5. acc[i] = F[1..i] /\ acc[i - 1] = F[1..(i - 1)]
      BY <2>1
    <2> HIDE DEF acc
    <2> QED
      BY <2>4, <2>5
  <1>6. acc[Len(q)] = F[DOMAIN q]
    <2>1. Len(q) \in 0..Len(q)
      BY <1>3
    <2> QED
      BY <1>3, <2>1
  <1>7. acc = [i \in 0..Len(q) |-> acc[i]]
    OBVIOUS
  <1> HIDE DEF acc
  <1>8. \A i \in 0..Len(q) : acc[i] \in Above(D, base)
    <2> DEFINE P == {i \in 0..Len(q) : acc[i] \in Above(D, base)}
    <2>1. 0 \in P
      BY <1>3, <1>4 DEF Above
    <2>2. ASSUME NEW i \in 1..Len(q), i - 1 \in P PROVE i \in P
      <3>1. q[i] \in D /\ acc[i - 1] \in Above(D, base) /\ i \in 0..Len(q)
        BY <1>3, <2>2
      <3>2. acc[i] = IF q[i] \in acc[i - 1] THEN acc[i - 1] ELSE meet[<<q[i], acc[i - 1]>>]
        BY <1>5
      <3>3. acc[i] \in Above(D, base)
        <4>1. PICK T, n : T = acc[i - 1] /\ n = q[i]
          OBVIOUS
        <4>2. T \in Above(D, base) /\ n \in D /\ acc[i] = IF n \in T THEN T ELSE meet[<<n, T>>]
          BY <3>1, <3>2, <4>1
        <4>3. n \notin T => meet[<<n, T>>] \in SUBSET D /\ T \subseteq meet[<<n, T>>]
          BY <4>2 DEF Adds
        <4> QED
          BY ONLY <4>2, <4>3 DEF Above
      <3> QED
        BY <3>1, <3>3
    <2> HIDE DEF P
    <2>3. 0..Len(q) \subseteq P
      BY <1>3, <2>1, <2>2, NumberByNumber
    <2> QED
      BY <2>3 DEF P
  <1>9. acc \in [0..Len(q) -> Above(D, base)]
    BY <1>7, <1>8
  <1> QED
    BY <1>2, <1>4, <1>5, <1>6, <1>9 DEF Stations

\* All that is met through a list, and through the lists of what is met, but not
\* through S: the least set above S and n that has the lists of its new members.
Fills(D, list, n, S, X) ==
    /\ X \in SUBSET D /\ S \cup {n} \subseteq X
    /\ \A y \in X \ S : Elems(list[y]) \subseteq X
    /\ \A C \in SUBSET D :
          S \cup {n} \subseteq C /\ (\A y \in C \ S : Elems(list[y]) \subseteq C) => X \subseteq C

\* The same of what has been met when the first i of n's list have been passed.
FillsUpTo(D, list, n, S, i, X) ==
    /\ \A y \in X \ S : y # n => Elems(list[y]) \subseteq X
    /\ \A C \in SUBSET D :
          S \cup {n} \subseteq C /\ (\A y \in C \ S : Elems(list[y]) \subseteq C) => X \subseteq C
    /\ \A j \in 1..i : list[n][j] \in X

LEMMA OneMoreStation ==
    ASSUME NEW D, NEW list \in [D -> Seq(D)], NEW n \in D, NEW S \in SUBSET D, n \notin S,
           NEW i \in 1..Len(list[n]), NEW T \in Above(D, S \cup {n}), NEW X,
           FillsUpTo(D, list, n, S, i - 1, T),
           IF list[n][i] \in T THEN X = T ELSE Fills(D, list, list[n][i], T, X)
    PROVE  FillsUpTo(D, list, n, S, i, X)
  <1> DEFINE t == list[n][i]
             Leads(C) == S \cup {n} \subseteq C /\ \A y \in C \ S : Elems(list[y]) \subseteq C
  <1>1. /\ \A y \in T \ S : y # n => Elems(list[y]) \subseteq T
        /\ \A C \in SUBSET D : Leads(C) => T \subseteq C
        /\ \A j \in 1..(i - 1) : list[n][j] \in T
    BY DEF FillsUpTo
  <1>2. i \in Nat /\ \A j \in 1..i : j = i \/ j \in 1..(i - 1)
    OBVIOUS
  <1>3. S \cup {n} \subseteq T
    BY DEF Above
  <1>4. CASE t \in T
    <2>1. X = T
      BY <1>4
    <2>2. \A j \in 1..i : list[n][j] \in X
      BY <1>1, <1>2, <1>4, <2>1
    <2> QED
      BY <1>1, <2>1, <2>2 DEF FillsUpTo
  <1>5. CASE t \notin T
    <2>1. Fills(D, list, t, T, X)
      BY <1>5
    <2> HIDE DEF t
    <2>2. /\ T \subseteq X /\ t \in X
          /\ \A y \in X \ T : Elems(list[y]) \subseteq X
          /\ \A C \in SUBSET D :
                T \cup {t} \subseteq C /\ (\A y \in C \ T : Elems(list[y]) \subseteq C) => X \subseteq C
      BY <2>1 DEF Fills
    <2>3. ASSUME NEW y \in X \ S, y # n PROVE Elems(list[y]) \subseteq X
      <3>1. CASE y \in T
        BY <1>1, <2>2, <2>3, <3>1
      <3>2. CASE y \notin T
        BY <2>2, <2>3, <3>2
      <3> QED
        BY <3>1, <3>2
    <2>4. ASSUME NEW C \in SUBSET D, Leads(C) PROVE X \subseteq C
      <3>1. T \subseteq C
        BY <1>1, <2>4
      <3>2. t \in C
        <4>1. n \in C \ S
          BY <2>4
        <4>2. Elems(list[n]) \subseteq C
          BY <2>4, <4>1
        <4>3. t \in Elems(list[n])
          BY <1>2 DEF Elems, t
        <4> QED
          BY <4>2, <4>3
      <3>3. \A y \in C \ T : Elems(list[y]) \subseteq C
        BY <1>3, <2>4
      <3> HIDE DEF Leads
      <3> QED
        BY <2>2, <3>1, <3>2, <3>3, SMTT(30)
    <2>5. ASSUME NEW j \in 1..i PROVE list[n][j] \in X
      <3>1. CASE j = i
        BY <2>2, <3>1 DEF t
      <3>2. CASE j \in 1..(i - 1)
        BY <1>1, <2>2, <3>2
      <3> QED
        BY <1>2, <3>1, <3>2
    <2> QED
      BY <2>3, <2>4, <2>5 DEF FillsUpTo
  <1> QED
    BY <1>4, <1>5

LEMMA MeetAllFills ==
    ASSUME NEW D, NEW list \in [D -> Seq(D)], NEW meet, NEW n \in D, NEW S \in SUBSET D, n \notin S,
           \A t \in D : \A T \in Above(D, S \cup {n}) : t \notin T => Fills(D, list, t, T, meet[<<t, T>>])
    PROVE  Fills(D, list, n, S, MeetAll(meet, S \cup {n}, list[n]))
  <1>1. PICK base \in SUBSET D, q \in Seq(D) : base = S \cup {n} /\ q = list[n]
    OBVIOUS
  <1>2. Adds(D, meet, base)
    BY <1>1 DEF Adds, Fills
  <1>3. PICK acc \in [0..Len(q) -> Above(D, base)] :
            Stations(acc, meet, base, q) /\ MeetAll(meet, base, q) = acc[Len(q)]
    <2>1. base \in SUBSET D /\ q \in Seq(D)
      OBVIOUS
    <2> QED
      BY ONLY <1>2, <2>1, FoldPassesStations
  <1>4. Len(q) \in Nat /\ 0 \in 0..Len(q) /\ Len(q) \in 0..Len(q)
    OBVIOUS
  <1> DEFINE P == {i \in 0..Len(q) : FillsUpTo(D, list, n, S, i, acc[i])}
  <1>5. 0 \in P
    <2>1. acc[0] = S \cup {n}
      BY <1>1, <1>3 DEF Stations
    <2>2. FillsUpTo(D, list, n, S, 0, S \cup {n})
      BY DEF FillsUpTo
    <2> QED
      BY <1>4, <2>1, <2>2
  <1>6. ASSUME NEW i \in 1..Len(q), i - 1 \in P PROVE i \in P
    <2>1. i \in 0..Len(q) /\ i - 1 \in 0..Len(q) /\ q[i] \in D
      BY <1>4
    <2>2. PICK T \in Above(D, base), X \in Above(D, base) : T = acc[i - 1] /\ X = acc[i]
      BY <1>3, <2>1
    <2>3. X = IF q[i] \in T THEN T ELSE meet[<<q[i], T>>]
      BY <1>3, <2>2 DEF Stations
    <2>4. IF q[i] \in T THEN X = T ELSE Fills(D, list, q[i], T, X)
      BY <1>1, <2>1, <2>3
    <2>5. FillsUpTo(D, list, n, S, i - 1, T)
      BY <1>6, <2>2
    <2>6. FillsUpTo(D, list, n, S, i, X)
      BY <1>1, <2>4, <2>5, OneMoreStation
    <2> QED
      BY <2>1, <2>2, <2>6
  <1> HIDE DEF P
  <1>7. 0..Len(q) \subseteq P
    BY <1>4, <1>5, <1>6, NumberByNumber
  <1>8. Len(q) \in P
    BY <1>4, <1>7
  <1>9. PICK X \in Above(D, base) : X = acc[Len(q)]
    BY <1>3, <1>4
  <1>10. FillsUpTo(D, list, n, S, Len(q), X)
    BY <1>8, <1>9 DEF P
  <1>11. Elems(list[n]) \subseteq X
    <2>1. ASSUME NEW j \in 1..Len(q) PROVE q[j] \in X
      BY <1>1, <1>10 DEF FillsUpTo
    <2> QED
      BY <1>1, <2>1 DEF Elems
  <1>12. X \in SUBSET D /\ S \cup {n} \subseteq X
    BY <1>1 DEF Above
  <1>13. Fills(D, list, n, S, X)
    BY <1>10, <1>11, <1>12 DEF Fills, FillsUpTo
  <1> QED
    BY <1>1, <1>3, <1>9, <1>13

\* The function in Met.
IsMeeting(meet, D, list) ==
    meet = [w \in D \X (SUBSET D) |-> MeetAll(meet, w[2] \cup {w[1]}, list[w[1]])]

LEMMA MeetingFills ==
    ASSUME NEW D, IsFiniteSet(D), NEW list \in [D -> Seq(D)], NEW meet, IsMeeting(meet, D, list)
    PROVE  \A n \in D : \A S \in SUBSET D : n \notin S => Fills(D, list, n, S, meet[<<n, S>>])
  <1> DEFINE A == {w \in D \X (SUBSET D) : w[1] \notin w[2]}
             rank == [w \in A |-> Cardinality(D \ w[2])]
             P == {w \in A : Fills(D, list, w[1], w[2], meet[w])}
  <1>1. rank \in [A -> Nat]
    <2>1. ASSUME NEW w \in A PROVE Cardinality(D \ w[2]) \in Nat
      BY FS_Difference, FS_CardinalityType
    <2> HIDE DEF A
    <2> QED
      BY <2>1
  <1>2. ASSUME NEW w \in A, \A v \in A : rank[v] < rank[w] => v \in P PROVE w \in P
    <2>1. PICK n \in D, S \in SUBSET D : w = <<n, S>> /\ n \notin S
      OBVIOUS
    <2>2. ASSUME NEW t \in D, NEW T \in Above(D, S \cup {n}), t \notin T
          PROVE  Fills(D, list, t, T, meet[<<t, T>>])
      <3>1. <<t, T>> \in A
        BY <2>2 DEF Above
      <3>2. Cardinality(D \ T) < Cardinality(D \ S)
        <4>1. S \subseteq T /\ n \in T
          BY DEF Above
        <4> QED
          BY <2>1, <4>1, LessIsLeft
      <3>3. rank[<<t, T>>] = Cardinality(D \ T) /\ rank[w] = Cardinality(D \ S)
        BY <2>1, <3>1
      <3>4. <<t, T>> \in P
        <4> HIDE DEF A, P, rank
        <4> QED
          BY <1>2, <3>1, <3>2, <3>3
      <3> QED
        BY <3>4
    <2>3. Fills(D, list, n, S, MeetAll(meet, S \cup {n}, list[n]))
      BY <2>1, <2>2, MeetAllFills
    <2>4. meet[<<n, S>>] = MeetAll(meet, S \cup {n}, list[n])
      <3>1. <<n, S>> \in D \X (SUBSET D) /\ <<n, S>>[1] = n /\ <<n, S>>[2] = S
        OBVIOUS
      <3> QED
        BY <3>1 DEF IsMeeting
    <2> QED
      BY <2>1, <2>3, <2>4
  <1>3. A \subseteq P
    <2> HIDE DEF A, P, rank
    <2> QED
      BY <1>1, <1>2, RankInduction
  <1>4. ASSUME NEW n \in D, NEW S \in SUBSET D, n \notin S PROVE Fills(D, list, n, S, meet[<<n, S>>])
    <2>1. <<n, S>> \in P
      BY <1>3, <1>4
    <2> QED
      BY <2>1
  <1> QED
    BY <1>4

\* Two functions that meet alike from a set of entities on.
MeetAlike(D, f, g, base) ==
    /\ Adds(D, f, base) /\ Adds(D, g, base)
    /\ \A t \in D : \A T \in Above(D, base) : t \notin T => f[<<t, T>>] = g[<<t, T>>]

LEMMA MeetAllAgrees ==
    ASSUME NEW D, NEW base \in SUBSET D, NEW q \in Seq(D), NEW f, NEW g, MeetAlike(D, f, g, base)
    PROVE  /\ MeetAll(f, base, q) = MeetAll(g, base, q)
           /\ MeetAll(f, base, q) \in Above(D, base)
  <1>0. base \in SUBSET D /\ q \in Seq(D) /\ Adds(D, f, base) /\ Adds(D, g, base)
    BY DEF MeetAlike
  <1>1. PICK acc \in [0..Len(q) -> Above(D, base)] :
            Stations(acc, f, base, q) /\ MeetAll(f, base, q) = acc[Len(q)]
    BY ONLY <1>0, FoldPassesStations
  <1>2. PICK bcc \in [0..Len(q) -> Above(D, base)] :
            Stations(bcc, g, base, q) /\ MeetAll(g, base, q) = bcc[Len(q)]
    BY ONLY <1>0, FoldPassesStations
  <1>3. Len(q) \in Nat /\ 0 \in 0..Len(q) /\ Len(q) \in 0..Len(q)
    OBVIOUS
  <1> DEFINE P == {i \in 0..Len(q) : acc[i] = bcc[i]}
  <1>4. 0 \in P
    BY <1>1, <1>2, <1>3 DEF Stations
  <1>5. ASSUME NEW i \in 1..Len(q), i - 1 \in P PROVE i \in P
    <2>1. i \in 0..Len(q) /\ i - 1 \in 0..Len(q) /\ q[i] \in D
      BY <1>3
    <2>2. PICK T \in Above(D, base) : T = acc[i - 1] /\ T = bcc[i - 1]
      BY <1>1, <1>5, <2>1
    <2>3. acc[i] = IF q[i] \in T THEN T ELSE f[<<q[i], T>>]
      BY <1>1, <2>2 DEF Stations
    <2>4. bcc[i] = IF q[i] \in T THEN T ELSE g[<<q[i], T>>]
      BY <1>2, <2>2 DEF Stations
    <2>5. acc[i] = bcc[i]
      BY <2>1, <2>3, <2>4 DEF MeetAlike
    <2> QED
      BY <2>1, <2>5
  <1> HIDE DEF P
  <1>6. Len(q) \in P
    BY <1>3, <1>4, <1>5, NumberByNumber
  <1>7. acc[Len(q)] = bcc[Len(q)]
    BY <1>6 DEF P
  <1> QED
    BY <1>1, <1>2, <1>3, <1>7

LEMMA MeetingExists ==
    ASSUME NEW D, IsFiniteSet(D), NEW list \in [D -> Seq(D)]
    PROVE  \E meet : IsMeeting(meet, D, list)
  <1> DEFINE A == D \X (SUBSET D)
             F == {f \in [A -> SUBSET D] : \A w \in A : w[2] \subseteq f[w]}
             rank == [w \in A |-> IF w[1] \in w[2] THEN Cardinality(D) + 1 ELSE Cardinality(D \ w[2])]
             Body(f, w) == MeetAll(f, w[2] \cup {w[1]}, list[w[1]])
             step == [f \in F |-> [w \in A |-> Body(f, w)]]
  <1>1. ASSUME NEW S \in SUBSET D
        PROVE  Cardinality(D \ S) \in Nat /\ Cardinality(D) \in Nat /\ Cardinality(D \ S) <= Cardinality(D)
    <2>1. D \ S \in SUBSET D
      OBVIOUS
    <2> QED
      BY <2>1, FS_CardinalityType, FS_Subset
  <1>2. ASSUME NEW w \in A PROVE rank[w] \in Nat /\ rank[w] < Cardinality(D) + 2
    <2>1. PICK c \in Nat, d \in Nat : c = Cardinality(D) /\ d = Cardinality(D \ w[2]) /\ d <= c
      BY <1>1
    <2>2. rank[w] = IF w[1] \in w[2] THEN c + 1 ELSE d
      BY <2>1
    <2> HIDE DEF rank
    <2> QED
      BY <2>1, <2>2
  <1>3. ASSUME NEW n \in D, NEW S \in SUBSET D, NEW t \in D, NEW T \in Above(D, S \cup {n})
        PROVE  <<t, T>> \in A /\ (t \notin T => rank[<<t, T>>] < rank[<<n, S>>])
    <2>1. T \in SUBSET D /\ S \subseteq T /\ n \in T
      BY DEF Above
    <2>2. <<t, T>> \in A /\ <<n, S>> \in A
      BY <2>1
    <2>3. PICK c \in Nat, d \in Nat, e \in Nat :
              c = Cardinality(D) /\ d = Cardinality(D \ S) /\ e = Cardinality(D \ T) /\ d <= c /\ e <= c
      BY <1>1, <2>1
    <2>4. n \notin S => e < d
      BY <2>1, <2>3, LessIsLeft
    <2>5. rank[<<n, S>>] = IF n \in S THEN c + 1 ELSE d
      BY <2>2, <2>3
    <2>6. rank[<<t, T>>] = IF t \in T THEN c + 1 ELSE e
      BY <2>2, <2>3
    <2> HIDE DEF rank, A
    <2> QED
      BY <2>2, <2>3, <2>4, <2>5, <2>6
  <1>4. ASSUME NEW f \in F, NEW n \in D, NEW S \in SUBSET D PROVE Adds(D, f, S \cup {n})
    <2>1. ASSUME NEW t \in D, NEW T \in Above(D, S \cup {n})
          PROVE  f[<<t, T>>] \in SUBSET D /\ T \subseteq f[<<t, T>>]
      <3>1. <<t, T>> \in A /\ <<t, T>>[2] = T
        BY DEF Above
      <3> QED
        BY <3>1
    <2> QED
      BY <2>1 DEF Adds
  <1>5. ASSUME NEW f \in F, NEW g \in F, NEW n \in D, NEW S \in SUBSET D,
               \A v \in A : rank[v] < rank[<<n, S>>] => f[v] = g[v]
        PROVE  /\ Body(f, <<n, S>>) = Body(g, <<n, S>>)
               /\ Body(f, <<n, S>>) \in SUBSET D /\ S \subseteq Body(f, <<n, S>>)
    <2>1. PICK base \in SUBSET D, q \in Seq(D) : base = S \cup {n} /\ q = list[n]
      OBVIOUS
    <2>2. Adds(D, f, base) /\ Adds(D, g, base)
      BY <1>4, <2>1
    <2>3. \A t \in D : \A T \in Above(D, base) : t \notin T => f[<<t, T>>] = g[<<t, T>>]
      <3> HIDE DEF A, rank, F
      <3> QED
        BY <1>3, <1>5, <2>1
    <2>4. base \in SUBSET D /\ q \in Seq(D) /\ MeetAlike(D, f, g, base)
      BY <2>2, <2>3 DEF MeetAlike
    <2>5. MeetAll(f, base, q) = MeetAll(g, base, q) /\ MeetAll(f, base, q) \in Above(D, base)
      BY ONLY <2>4, MeetAllAgrees
    <2>6. Body(f, <<n, S>>) = MeetAll(f, base, q) /\ Body(g, <<n, S>>) = MeetAll(g, base, q)
      BY <2>1
    <2> HIDE DEF Body
    <2> QED
      BY <2>1, <2>5, <2>6 DEF Above
  <1>6. \A w \in A : w = <<w[1], w[2]>> /\ w[1] \in D /\ w[2] \in SUBSET D
    OBVIOUS
  <1> HIDE DEF rank, Body
  <1>7. ASSUME NEW f \in F PROVE step[f] \in F
    <2>1. ASSUME NEW w \in A PROVE Body(f, w) \in SUBSET D /\ w[2] \subseteq Body(f, w)
      <3>1. PICK n \in D, S \in SUBSET D : w = <<n, S>> /\ w[2] = S
        BY <1>6
      <3> QED
        BY <1>5, <3>1
    <2>2. [w \in A |-> Body(f, w)] \in F
      <3> HIDE DEF A
      <3> QED
        BY <2>1
    <2> QED
      BY <2>2
  <1>8. F # {} /\ \A f \in F : f = [w \in A |-> f[w]]
    <2>1. [w \in A |-> w[2]] \in F
      OBVIOUS
    <2> QED
      BY <2>1
  <1>9. LooksLower(A, F, rank, step)
    <2>1. rank \in [A -> Nat] /\ \E K \in Nat : \A w \in A : rank[w] < K
      <3>1. Cardinality(D) + 2 \in Nat
        BY FS_CardinalityType
      <3>2. rank = [w \in A |-> rank[w]]
        BY DEF rank
      <3> HIDE DEF A
      <3> QED
        BY <1>2, <3>1, <3>2
    <2>2. step \in [F -> F]
      <3>1. step = [f \in F |-> step[f]]
        OBVIOUS
      <3> HIDE DEF step, F
      <3> QED
        BY <1>7, <3>1
    <2>3. ASSUME NEW f \in F, NEW g \in F, NEW w \in A, \A v \in A : rank[v] < rank[w] => f[v] = g[v]
          PROVE  step[f][w] = step[g][w]
      <3>1. Body(f, w) = Body(g, w)
        <4>1. PICK n \in D, S \in SUBSET D : w = <<n, S>>
          BY <1>6
        <4> HIDE DEF A, F
        <4>2. \A v \in A : rank[v] < rank[<<n, S>>] => f[v] = g[v]
          BY <2>3, <4>1
        <4>3. Body(f, <<n, S>>) = Body(g, <<n, S>>)
          BY <1>5, <4>2, ZenonT(40)
        <4> QED
          BY <4>1, <4>3
      <3> HIDE DEF A, F
      <3> QED
        BY <3>1
    <2> HIDE DEF A, F, step
    <2> QED
      BY <1>8, <2>1, <2>2, <2>3 DEF LooksLower
  <1>10. PICK f \in F : step[f] = f
    <2> HIDE DEF A, F, step
    <2> QED
      BY <1>9, RecursionExists
  <1>11. f = [w \in A |-> Body(f, w)]
    <2> HIDE DEF A, F
    <2> QED
      BY <1>10
  <1> QED
    BY <1>11 DEF IsMeeting, Body

\* Of a relation that goes both ways every member of a closure has the same one.
LEMMA ClosureOfMember ==
    ASSUME NEW D, NEW next \in [D -> SUBSET D], \A x, y \in D : y \in next[x] => x \in next[y],
           NEW n \in D, NEW m \in Closure(next, {n})
    PROVE  Closure(next, {m}) = Closure(next, {n})
  <1>1. ASSUME NEW x \in D
        PROVE  /\ Closure(next, {x}) \in SUBSET D /\ x \in Closure(next, {x})
               /\ IsClosed(next, Closure(next, {x}))
               /\ \A C \in SUBSET D : x \in C /\ IsClosed(next, C) => Closure(next, {x}) \subseteq C
    <2>1. {x} \in SUBSET D
      OBVIOUS
    <2> QED
      BY <2>1, ClosureIsLeast
  <1>2. m \in D
    BY <1>1
  <1>3. Closure(next, {m}) \subseteq Closure(next, {n})
    BY <1>1, <1>2
  <1> DEFINE X == {y \in D : n \in Closure(next, {y})}
  <1>4. n \in X
    BY <1>1
  <1>5. ASSUME NEW y \in X, NEW z \in next[y] PROVE z \in X
    <2>1. z \in D /\ y \in next[z]
      OBVIOUS
    <2>2. y \in Closure(next, {z})
      BY <1>1, <2>1 DEF IsClosed
    <2>3. Closure(next, {y}) \subseteq Closure(next, {z})
      BY <1>1, <2>1, <2>2
    <2> QED
      BY <2>1, <2>3
  <1>6. IsClosed(next, X)
    BY <1>5 DEF IsClosed
  <1>7. X \in SUBSET D
    OBVIOUS
  <1>8. m \in X
    <2> HIDE DEF X
    <2> QED
      BY <1>1, <1>4, <1>6, <1>7
  <1>9. n \in Closure(next, {m})
    BY <1>8
  <1> QED
    BY <1>1, <1>2, <1>3, <1>9

-----------------------------------------------------------------------------
(* Folds of any operation, and lists put together.                         *)

\* A function in FoldLeft goes along the sequence, whatever the operation is
\* outside a set that it stays in.
GoesAlong(F, B, base, seq, op) ==
    /\ F[{}] = base
    /\ \A s \in SUBSET DOMAIN seq : s # {} /\ F[s \ {Max(s)}] \in B
          => F[s] = op[<<F[s \ {Max(s)}], seq[Max(s)]>>]

Foldable(T, B, base, seq, op) == base \in B /\ seq \in Seq(T) /\ op \in [B \X T -> B]

LEMMA FoldAlong ==
    ASSUME NEW T, NEW B, NEW base, NEW seq, NEW op, Foldable(T, B, base, seq, op),
           NEW F, GoesAlong(F, B, base, seq, op)
    PROVE  \E acc \in [0..Len(seq) -> B] :
              /\ acc[0] = base /\ F[DOMAIN seq] = acc[Len(seq)]
              /\ \A i \in 1..Len(seq) : acc[i] = op[<<acc[i - 1], seq[i]>>]
  <1> USE DEF Foldable
  <1> DEFINE acc == [i \in 0..Len(seq) |-> F[1..i]]
             P == {i \in 0..Len(seq) : acc[i] \in B}
  <1>1. DOMAIN seq = 1..Len(seq) /\ Len(seq) \in Nat /\ 1..0 = {} /\ \A i \in 1..Len(seq) : seq[i] \in T
    OBVIOUS
  <1>2. \A i \in 0..Len(seq) : acc[i] = F[1..i]
    OBVIOUS
  <1>3. acc = [i \in 0..Len(seq) |-> acc[i]]
    OBVIOUS
  <1> HIDE DEF acc
  <1>4. acc[0] = base
    BY <1>1, <1>2 DEF GoesAlong
  <1>5. ASSUME NEW i \in 1..Len(seq), acc[i - 1] \in B
        PROVE  acc[i] = op[<<acc[i - 1], seq[i]>>] /\ acc[i] \in B /\ i \in 0..Len(seq)
    <2>1. i \in Nat /\ i # 0 /\ i - 1 \in 0..Len(seq) /\ i \in 0..Len(seq)
      BY <1>1
    <2>2. Max(1..i) = i /\ (1..i) \ {Max(1..i)} = 1..(i - 1)
      BY <2>1, LargestNumber
    <2>3. 1..i \in SUBSET DOMAIN seq /\ 1..i # {}
      <3>1. i \in 1..i /\ \A j \in 1..i : j \in 1..Len(seq)
        BY <1>1, <2>1
      <3> QED
        BY <1>1, <3>1
    <2>4. acc[i] = F[1..i] /\ acc[i - 1] = F[1..(i - 1)]
      BY <1>2, <2>1
    <2>5. acc[i] = op[<<acc[i - 1], seq[i]>>]
      BY <1>5, <2>2, <2>3, <2>4 DEF GoesAlong
    <2>6. <<acc[i - 1], seq[i]>> \in B \X T
      BY <1>1, <1>5
    <2> QED
      BY <2>1, <2>5, <2>6
  <1>6. 0 \in P
    BY <1>1, <1>4
  <1>7. \A i \in 1..Len(seq) : i - 1 \in P => i \in P
    BY <1>5
  <1> HIDE DEF P
  <1>8. 0..Len(seq) \subseteq P
    BY <1>1, <1>6, <1>7, NumberByNumber
  <1>9. acc \in [0..Len(seq) -> B]
    BY <1>3, <1>8 DEF P
  <1>10. \A i \in 1..Len(seq) : acc[i] = op[<<acc[i - 1], seq[i]>>]
    <2>1. \A i \in 1..Len(seq) : i - 1 \in 0..Len(seq)
      BY <1>1
    <2> QED
      BY <1>5, <1>9, <2>1
  <1>11. F[DOMAIN seq] = acc[Len(seq)]
    BY <1>1, <1>2
  <1> QED
    BY <1>4, <1>9, <1>10, <1>11

\* A function that iterates an operation applies it to its own values.
Iterates(f, T, B, base, seq, op) ==
    seq \in Seq(T) /\ f \in [SUBSET DOMAIN seq -> B] /\ IsIteration(f, base, seq, op)

\* What one application takes and gives.
AppliesAt(f, T, B, seq, op, s) ==
    /\ f[s] = op[<<f[s \ {Max(s)}], seq[Max(s)]>>]
    /\ f[s \ {Max(s)}] \in B /\ seq[Max(s)] \in T
    /\ <<f[s \ {Max(s)}], seq[Max(s)]>> \in B \X T

LEMMA IterationApplies ==
    ASSUME NEW T, NEW B, NEW base, NEW seq, NEW op, NEW f, Iterates(f, T, B, base, seq, op),
           NEW s \in SUBSET DOMAIN seq
    PROVE  /\ s = {} => f[s] = base
           /\ s # {} => AppliesAt(f, T, B, seq, op, s)
  <1> USE DEF Iterates
  <1>1. s = {} => f[s] = base
    BY DEF IsIteration
  <1>2. ASSUME s # {} PROVE Max(s) \in s
    <2>1. DOMAIN seq = 1..Len(seq) /\ Len(seq) \in Nat
      OBVIOUS
    <2> QED
      BY <1>2, <2>1, LargestNumber
  <1>3. ASSUME s # {} PROVE f[s \ {Max(s)}] \in B /\ seq[Max(s)] \in T
    <2>1. s \ {Max(s)} \in SUBSET DOMAIN seq
      OBVIOUS
    <2>2. seq[Max(s)] \in T
      BY <1>2, <1>3
    <2> QED
      BY <2>1, <2>2
  <1>4. s # {} => f[s] = op[<<f[s \ {Max(s)}], seq[Max(s)]>>]
    BY DEF IsIteration
  <1>5. s # {} => AppliesAt(f, T, B, seq, op, s)
    BY <1>3, <1>4 DEF AppliesAt
  <1> QED
    BY <1>1, <1>5

LEMMA FirstThat ==
    ASSUME NEW M, NEW l \in Seq(M), NEW I \in SUBSET (1..Len(l))
    PROVE  I # {} => Min(I) \in I
  <1> SUFFICES ASSUME I # {} PROVE Min(I) \in I
    OBVIOUS
  <1>1. I \in SUBSET Nat
    OBVIOUS
  <1>2. PICK x \in I : \A y \in I : x <= y
    BY <1>1, LeastNatural
  <1> QED
    BY <1>2 DEF Min

\* The items of a list, one by one.
LEMMA MappedTyped ==
    ASSUME NEW M, NEW N, NEW q \in Seq(M), NEW f, \A m \in M : f[m] \in N
    PROVE  /\ [i \in DOMAIN q |-> f[q[i]]] \in Seq(N)
           /\ Elems([i \in DOMAIN q |-> f[q[i]]]) = {f[m] : m \in Elems(q)}
  <1> DEFINE r == [i \in DOMAIN q |-> f[q[i]]]
  <1>1. DOMAIN q = 1..Len(q) /\ Len(q) \in Nat /\ \A i \in 1..Len(q) : q[i] \in M
    OBVIOUS
  <1>2. r \in [1..Len(q) -> N] /\ \A i \in 1..Len(q) : r[i] = f[q[i]]
    BY <1>1
  <1> HIDE DEF r
  <1>3. r \in Seq(N) /\ Len(r) = Len(q)
    BY <1>1, <1>2, IsASeq, LenProperties
  <1>4. Elems(r) = {f[m] : m \in Elems(q)}
    BY <1>2, <1>3 DEF Elems
  <1> QED
    BY <1>3, <1>4 DEF r

LEMMA NothingIn == ASSUME NEW M, NEW q \in Seq(M) PROVE q # <<>> <=> Elems(q) # {}
  <1>1. CASE q = <<>>
    BY <1>1 DEF Elems
  <1>2. CASE q # <<>>
    <2>1. Len(q) \in Nat \ {0}
      BY <1>2, EmptySeq
    <2>2. q[1] \in Elems(q)
      BY <2>1 DEF Elems
    <2> QED
      BY <1>2, <2>2
  <1> QED
    BY <1>1, <1>2

\* Relations that agree on a closed set have the same closures in it.
AgreeOn(D, f, g, O) ==
    /\ f \in [D -> SUBSET D] /\ g \in [D -> SUBSET D] /\ O \in SUBSET D
    /\ \A m \in O : f[m] = g[m] /\ g[m] \subseteq O

LEMMA ClosuresAgree ==
    ASSUME NEW D, NEW f, NEW g, NEW O, AgreeOn(D, f, g, O), NEW n \in O
    PROVE  Closure(f, {n}) = Closure(g, {n}) /\ Closure(g, {n}) \subseteq O
  <1> USE DEF AgreeOn
  <1>1. {n} \in SUBSET D
    OBVIOUS
  <1> PICK F : F = Closure(f, {n})
    OBVIOUS
  <1> PICK G : G = Closure(g, {n})
    OBVIOUS
  <1>2. /\ F \in SUBSET D /\ n \in F /\ IsClosed(f, F)
        /\ \A C \in SUBSET D : {n} \subseteq C /\ IsClosed(f, C) => F \subseteq C
    BY <1>1, ClosureIsLeast
  <1>3. /\ G \in SUBSET D /\ n \in G /\ IsClosed(g, G)
        /\ \A C \in SUBSET D : {n} \subseteq C /\ IsClosed(g, C) => G \subseteq C
    BY <1>1, ClosureIsLeast
  <1>4. F \subseteq O /\ G \subseteq O
    <2>1. IsClosed(f, O) /\ IsClosed(g, O)
      BY DEF IsClosed
    <2> QED
      BY <1>2, <1>3, <2>1
  <1>5. IsClosed(f, G) /\ IsClosed(g, F)
    BY <1>2, <1>3, <1>4 DEF IsClosed
  <1> QED
    BY <1>2, <1>3, <1>4, <1>5

IsList(q) == q \in Seq(Range(q))

LEMMA ListFacts ==
    ASSUME NEW q, IsList(q)
    PROVE  Len(q) \in Nat /\ DOMAIN q = 1..Len(q) /\ Range(q) = Elems(q) /\ \A i \in 1..Len(q) : q[i] \in Range(q)
  BY RangeIsElems DEF IsList

LEMMA SequencesAreLists == ASSUME NEW M, NEW q \in Seq(M) PROVE IsList(q) /\ Range(q) = Elems(q) /\ Range(q) \subseteq M
  <1>1. DOMAIN q = 1..Len(q) /\ Len(q) \in Nat
    OBVIOUS
  <1>2. q \in [1..Len(q) -> Range(q)]
    BY <1>1 DEF Range
  <1>3. q \in Seq(Range(q))
    BY <1>1, <1>2, IsASeq
  <1> QED
    BY <1>3, RangeIsElems DEF IsList

LEMMA FunctionsAreLists ==
    ASSUME NEW n \in Nat, NEW q, q = [i \in 1..n |-> q[i]]
    PROVE  IsList(q) /\ Len(q) = n
  <1>1. q \in [1..n -> Range(q)]
    BY DEF Range
  <1>2. q \in Seq(Range(q))
    BY <1>1, IsASeq
  <1> QED
    BY <1>1, <1>2, LenProperties DEF IsList

LEMMA ListsConcat ==
    ASSUME NEW p, NEW q, IsList(p), IsList(q)
    PROVE  IsList(p \o q) /\ Range(p \o q) = Range(p) \cup Range(q)
  <1> PICK M : M = Range(p) \cup Range(q)
    OBVIOUS
  <1>1. p \in Seq(M) /\ q \in Seq(M)
    <2>1. /\ DOMAIN p = 1..Len(p) /\ Len(p) \in Nat /\ DOMAIN q = 1..Len(q) /\ Len(q) \in Nat
          /\ p \in [1..Len(p) -> M] /\ q \in [1..Len(q) -> M]
      BY DEF IsList
    <2> QED
      BY <2>1, IsASeq
  <1>2. p \o q \in Seq(M) /\ Elems(p \o q) = Elems(p) \cup Elems(q)
    BY <1>1, ElemsOfConcat
  <1> QED
    BY <1>1, <1>2, SequencesAreLists

LEMMA ListsFlatten ==
    ASSUME NEW n \in Nat, NEW qs, DOMAIN qs = 1..n, qs = [i \in 1..n |-> qs[i]], \A i \in 1..n : IsList(qs[i])
    PROVE  /\ IsList(FlattenSeq(qs)) /\ Range(FlattenSeq(qs)) = UNION {Range(qs[i]) : i \in 1..n}
           /\ \E M : qs \in Seq(Seq(M)) /\ FlattenSeq(qs) \in Seq(M)
  <1> PICK M : M = UNION {Range(qs[i]) : i \in 1..n}
    OBVIOUS
  <1>1. ASSUME NEW i \in 1..n PROVE qs[i] \in Seq(M) /\ Elems(qs[i]) = Range(qs[i])
    <2> PICK p : p = qs[i]
      OBVIOUS
    <2>1. DOMAIN p = 1..Len(p) /\ Len(p) \in Nat /\ p \in [1..Len(p) -> Range(p)] /\ Range(p) \subseteq M
      BY DEF IsList
    <2>2. p \in [1..Len(p) -> M]
      BY <2>1
    <2>3. p \in Seq(M)
      BY <2>1, <2>2, IsASeq
    <2> QED
      BY <2>3, RangeIsElems
  <1>2. qs \in Seq(Seq(M)) /\ Len(qs) = n
    <2>1. qs \in [1..n -> Seq(M)]
      BY <1>1
    <2> QED
      BY <2>1, IsASeq, LenProperties
  <1>3. /\ FlattenSeq(qs) \in Seq(M)
        /\ \A m : m \in Elems(FlattenSeq(qs)) <=> \E i \in 1..Len(qs) : m \in Elems(qs[i])
    BY <1>2, ElemsOfFlatten
  <1>4. IsList(FlattenSeq(qs)) /\ Range(FlattenSeq(qs)) = Elems(FlattenSeq(qs))
    BY <1>3, SequencesAreLists
  <1>5. \A m : m \in Range(FlattenSeq(qs)) <=> \E i \in 1..n : m \in Range(qs[i])
    BY <1>1, <1>2, <1>3, <1>4
  <1> QED
    BY <1>2, <1>3, <1>4, <1>5

Ordered(q, tag) == \A i, j \in 1..Len(q) : i < j => tag[q[i]] <= tag[q[j]]

LEMMA FlattenOrdered ==
    ASSUME NEW M, NEW tag \in [M -> Int], NEW qs \in Seq(Seq(M)),
           \A c \in 1..Len(qs) : \A m \in Elems(qs[c]) : tag[m] = c
    PROVE  Ordered(FlattenSeq(qs), tag)
  <1> DEFINE Tagged(rs) == \A c \in 1..Len(rs) : \A m \in Elems(rs[c]) : tag[m] = c
             Right(rs) == Tagged(rs) => Ordered(FlattenSeq(rs), tag)
             P == {rs \in Seq(Seq(M)) : Right(rs)}
  <1>1. <<>> \in P
    <2>1. <<>> \in Seq(Seq(M)) /\ FlattenSeq(<<>>) = <<>> /\ Len(<<>>) = 0 /\ 1..0 = {}
      BY FlattenNone, EmptySeq
    <2> QED
      BY <2>1 DEF Ordered
  <1>2. ASSUME NEW rs \in Seq(Seq(M)), NEW r \in Seq(M), rs \in P PROVE Append(rs, r) \in P
    <2>1. PICK ss : ss = Append(rs, r)
      OBVIOUS
    <2>2. /\ ss \in Seq(Seq(M)) /\ Len(ss) = Len(rs) + 1 /\ Len(rs) \in Nat
          /\ \A c \in 1..Len(rs) : ss[c] = rs[c] /\ c \in 1..Len(ss)
          /\ Len(rs) + 1 \in 1..Len(ss)
      BY <2>1
    <2>3. ss[Len(rs) + 1] = r
      BY <2>1
    <2>4. ASSUME Tagged(ss) PROVE Ordered(FlattenSeq(ss), tag)
      <3>1. Tagged(rs) /\ \A m \in Elems(r) : tag[m] = Len(rs) + 1
        <4>1. \A c \in 1..Len(ss) : \A m \in Elems(ss[c]) : tag[m] = c
          BY <2>4
        <4> QED
          BY <2>2, <2>3, <4>1
      <3>2. PICK a \in Seq(M) : a = FlattenSeq(rs) /\ FlattenSeq(ss) = a \o r
        BY <2>1, FlattenAppend
      <3>3. Ordered(a, tag)
        BY <1>2, <3>1, <3>2
      <3>4. \A m \in Elems(a) : tag[m] <= Len(rs)
        <4>1. \A m : m \in Elems(a) <=> \E c \in 1..Len(rs) : m \in Elems(rs[c])
          BY <3>2, ElemsOfFlatten
        <4> QED
          BY <2>2, <3>1, <4>1
      <3>5. PICK b \in Seq(M) : b = a \o r
        <4>1. a \o r \in Seq(M)
          OBVIOUS
        <4> QED
          BY <4>1
      <3>6. /\ Len(a) \in Nat /\ Len(r) \in Nat /\ Len(b) = Len(a) + Len(r)
            /\ \A i \in 1..Len(b) : b[i] \in M /\ b[i] = IF i <= Len(a) THEN a[i] ELSE r[i - Len(a)]
        BY <3>5
      <3>7. ASSUME NEW i \in 1..Len(b)
            PROVE  /\ i <= Len(a) => i \in 1..Len(a) /\ b[i] = a[i] /\ tag[b[i]] <= Len(rs)
                   /\ i > Len(a) => tag[b[i]] = Len(rs) + 1
        <4>1. CASE i <= Len(a)
          <5>1. i \in 1..Len(a) /\ b[i] = a[i] /\ a[i] \in Elems(a)
            BY <3>6, <4>1 DEF Elems
          <5> QED
            BY <3>4, <3>6, <4>1, <5>1
        <4>2. CASE i > Len(a)
          <5>1. i - Len(a) \in 1..Len(r) /\ b[i] = r[i - Len(a)]
            BY <3>6, <4>2
          <5>2. b[i] \in Elems(r)
            BY <5>1 DEF Elems
          <5> QED
            BY <3>1, <3>6, <4>2, <5>2
        <4> QED
          BY <3>6, <4>1, <4>2
      <3>8. Ordered(b, tag)
        <4>1. ASSUME NEW i \in 1..Len(b), NEW j \in 1..Len(b), i < j PROVE tag[b[i]] <= tag[b[j]]
          <5>0. tag[b[i]] \in Int /\ tag[b[j]] \in Int
            BY <3>6
          <5>1. CASE j <= Len(a)
            <6>1. i \in 1..Len(a) /\ j \in 1..Len(a) /\ b[i] = a[i] /\ b[j] = a[j]
              BY <3>6, <3>7, <4>1, <5>1
            <6> QED
              BY <3>3, <4>1, <6>1 DEF Ordered
          <5>2. CASE j > Len(a)
            <6>1. tag[b[j]] = Len(rs) + 1
              BY <3>7, <5>2
            <6>2. tag[b[i]] <= Len(rs) \/ tag[b[i]] = Len(rs) + 1
              BY <3>6, <3>7
            <6> QED
              BY <2>2, <5>0, <6>1, <6>2, SMTT(30)
          <5> QED
            BY <3>6, <5>1, <5>2
        <4> QED
          BY <4>1 DEF Ordered
      <3> QED
        BY <3>2, <3>5, <3>8
    <2> QED
      BY <2>1, <2>2, <2>4
  <1>3. Seq(Seq(M)) \subseteq P
    <2> HIDE DEF P
    <2> QED
      BY ONLY <1>1, <1>2, SequenceInduction
  <1> QED
    BY <1>3

LEMMA BeforeLast ==
    ASSUME NEW n, NEW i, NEW j, i \in Nat /\ j \in Nat /\ 1 <= i /\ 1 <= j /\ i < j /\ j <= n + 1 /\ n \in Nat
    PROVE  i \in 1..n /\ (j \in 1..n \/ j = n + 1)
  OBVIOUS

\* A list made from another one element by element.
LEMMA ListsMade ==
    ASSUME NEW M, NEW from \in Seq(M), NEW q, q = [i \in DOMAIN from |-> q[i]]
    PROVE  IsList(q) /\ Len(q) = Len(from) /\ DOMAIN q = DOMAIN from /\ DOMAIN from = 1..Len(from)
  <1>1. Len(from) \in Nat /\ DOMAIN from = 1..Len(from)
    OBVIOUS
  <1> QED
    BY <1>1, FunctionsAreLists

LEMMA OneListed == ASSUME NEW m PROVE IsList(<<m>>) /\ Range(<<m>>) = {m} /\ DOMAIN <<m>> = 1..1
  <1> PICK q \in Seq({m}) : q = <<m>>
    <2>1. <<m>> \in Seq({m})
      OBVIOUS
    <2> QED
      BY <2>1
  <1>1. Len(q) = 1 /\ q[1] = m /\ 1..1 = {1}
    OBVIOUS
  <1>2. IsList(q) /\ Range(q) = Elems(q)
    BY SequencesAreLists
  <1>3. Elems(q) = {m} /\ DOMAIN q = 1..1
    BY <1>1 DEF Elems
  <1> QED
    BY <1>2, <1>3

-----------------------------------------------------------------------------
(* Relations that may lead back to where they came from.                   *)

Within(deep, n) == {n} \cup Closure(deep, deep[n])

Circular(deep, n, S) == \E k \in Within(deep, n) : k \in S \/ k \in Closure(deep, deep[k])

LEMMA WithinSteps ==
    ASSUME NEW D, NEW deep \in [D -> SUBSET D], NEW n \in D
    PROVE  /\ Closure(deep, deep[n]) = UNION {Within(deep, m) : m \in deep[n]}
           /\ Closure(deep, deep[n]) \in SUBSET D
  <1> DEFINE C == Closure(deep, deep[n])
             U == UNION {Within(deep, m) : m \in deep[n]}
  <1>1. \A m \in D : /\ Closure(deep, deep[m]) \in SUBSET D /\ deep[m] \subseteq Closure(deep, deep[m])
                     /\ IsClosed(deep, Closure(deep, deep[m]))
                     /\ \A X \in SUBSET D : deep[m] \subseteq X /\ IsClosed(deep, X) =>
                           Closure(deep, deep[m]) \subseteq X
    BY ClosureIsLeast
  <1>2. ASSUME NEW m \in deep[n] PROVE Within(deep, m) \subseteq C
    <2>1. m \in D /\ m \in C
      BY <1>1
    <2>2. deep[m] \subseteq C
      BY <1>1, <2>1 DEF IsClosed
    <2>3. Closure(deep, deep[m]) \subseteq C
      BY <1>1, <2>1, <2>2
    <2> QED
      BY <2>1, <2>3 DEF Within
  <1>3. U \in SUBSET D /\ deep[n] \subseteq U
    BY <1>1 DEF Within
  <1>4. ASSUME NEW y \in U PROVE deep[y] \subseteq U
    <2>1. PICK m \in deep[n] : y \in Within(deep, m)
      OBVIOUS
    <2>2. m \in D
      OBVIOUS
    <2>3. deep[y] \subseteq Closure(deep, deep[m])
      BY <1>1, <2>1, <2>2 DEF Within, IsClosed
    <2> QED
      BY <2>3 DEF Within
  <1>5. IsClosed(deep, U)
    BY <1>4 DEF IsClosed
  <1>6. C \subseteq U
    BY <1>1, <1>3, <1>5
  <1> QED
    BY <1>1, <1>2, <1>6

LEMMA CircularSteps ==
    ASSUME NEW D, NEW deep \in [D -> SUBSET D], NEW n \in D, NEW S \in SUBSET D
    PROVE  Circular(deep, n, S) <=> n \in S \/ \E m \in deep[n] : Circular(deep, m, S \cup {n})
  <1>1. Closure(deep, deep[n]) = UNION {Within(deep, m) : m \in deep[n]}
    BY WithinSteps
  <1>2. ASSUME Circular(deep, n, S) PROVE n \in S \/ \E m \in deep[n] : Circular(deep, m, S \cup {n})
    <2>1. PICK k \in Within(deep, n) : k \in S \/ k \in Closure(deep, deep[k])
      BY <1>2 DEF Circular
    <2>2. CASE k = n /\ n \in S
      BY <2>2
    <2>3. CASE k \in Closure(deep, deep[n])
      <3>1. PICK m \in deep[n] : k \in Within(deep, m)
        BY <1>1, <2>3
      <3> QED
        BY <2>1, <3>1 DEF Circular
    <2> QED
      BY <2>1, <2>2, <2>3 DEF Within
  <1>3. ASSUME NEW m \in deep[n], Circular(deep, m, S \cup {n}) PROVE Circular(deep, n, S)
    <2>1. PICK k \in Within(deep, m) : k \in S \cup {n} \/ k \in Closure(deep, deep[k])
      BY <1>3 DEF Circular
    <2>2. k \in Closure(deep, deep[n])
      BY <1>1
    <2>3. k \in Within(deep, n)
      BY <2>2 DEF Within
    <2> QED
      BY <2>1, <2>2, <2>3 DEF Circular
  <1>4. ASSUME n \in S PROVE Circular(deep, n, S)
    BY <1>4 DEF Circular, Within
  <1> QED
    BY <1>2, <1>3, <1>4

\* A relation of which only the part within `inner` leads on.
Inward(D, next, deep, inner) ==
    /\ next \in [D -> SUBSET D] /\ deep \in [D -> SUBSET D] /\ inner \in SUBSET D
    /\ \A n \in inner : deep[n] = next[n] \cap inner /\ \A y \in next[n] \ inner : next[y] = {}

LEMMA InwardReaches ==
    ASSUME NEW D, NEW next, NEW deep, NEW inner, Inward(D, next, deep, inner), NEW n \in inner
    PROVE  /\ Within(deep, n) \subseteq inner
           /\ Closure(next, next[n]) = UNION {next[k] : k \in Within(deep, n)}
  <1> DEFINE U == UNION {next[k] : k \in Within(deep, n)}
  <1>1. /\ next \in [D -> SUBSET D] /\ deep \in [D -> SUBSET D] /\ inner \in SUBSET D /\ n \in D
        /\ \A k \in inner : deep[k] = next[k] \cap inner /\ \A y \in next[k] \ inner : next[y] = {}
    BY DEF Inward
  <1>2. /\ Closure(deep, deep[n]) \in SUBSET D /\ deep[n] \subseteq Closure(deep, deep[n])
        /\ IsClosed(deep, Closure(deep, deep[n]))
        /\ \A X \in SUBSET D : deep[n] \subseteq X /\ IsClosed(deep, X) => Closure(deep, deep[n]) \subseteq X
    BY <1>1, ClosureIsLeast
  <1>3. /\ Closure(next, next[n]) \in SUBSET D /\ next[n] \subseteq Closure(next, next[n])
        /\ IsClosed(next, Closure(next, next[n]))
        /\ \A X \in SUBSET D : next[n] \subseteq X /\ IsClosed(next, X) => Closure(next, next[n]) \subseteq X
    BY <1>1, ClosureIsLeast
  <1>4. Within(deep, n) \subseteq inner
    <2>1. IsClosed(deep, inner) /\ deep[n] \subseteq inner
      BY <1>1 DEF IsClosed
    <2> QED
      BY <1>1, <1>2, <2>1 DEF Within
  <1>5. Closure(deep, deep[n]) \subseteq Closure(next, next[n])
    <2> DEFINE X == inner \cap Closure(next, next[n])
    <2>1. X \in SUBSET D /\ deep[n] \subseteq X
      BY <1>1, <1>3
    <2>2. IsClosed(deep, X)
      BY <1>1, <1>3 DEF IsClosed
    <2> HIDE DEF X
    <2>3. Closure(deep, deep[n]) \subseteq X
      BY <1>2, <2>1, <2>2
    <2> QED
      BY <2>3 DEF X
  <1>6. U \subseteq Closure(next, next[n])
    <2> SUFFICES ASSUME NEW k \in Within(deep, n) PROVE next[k] \subseteq Closure(next, next[n])
      OBVIOUS
    <2>1. CASE k = n
      BY <1>3, <2>1
    <2>2. CASE k # n
      BY <1>3, <1>5, <2>2 DEF Within, IsClosed
    <2> QED
      BY <2>1, <2>2
  <1>7. U \in SUBSET D /\ next[n] \subseteq U
    BY <1>1, <1>4 DEF Within
  <1>8. ASSUME NEW y \in U PROVE next[y] \subseteq U
    <2>1. PICK k \in Within(deep, n) : y \in next[k]
      OBVIOUS
    <2>2. CASE y \notin inner
      BY <1>1, <1>4, <2>1, <2>2
    <2>3. CASE y \in inner
      <3>1. y \in deep[k]
        BY <1>1, <1>4, <2>1, <2>3
      <3>2. y \in Within(deep, n)
        BY <1>2, <3>1 DEF Within, IsClosed
      <3> QED
        BY <3>2
    <2> QED
      BY <2>2, <2>3
  <1>9. Closure(next, next[n]) \subseteq U
    <2>1. IsClosed(next, U)
      BY <1>8 DEF IsClosed
    <2> HIDE DEF U
    <2> QED
      BY <1>3, <1>7, <2>1
  <1> QED
    BY <1>4, <1>6, <1>9

\* It leads back to itself where that part does.
LEMMA InwardCircles ==
    ASSUME NEW D, NEW next, NEW deep, NEW inner, Inward(D, next, deep, inner), NEW n \in inner
    PROVE  (\E k \in {n} \cup Closure(next, next[n]) : k \in Closure(next, next[k])) <=> Circular(deep, n, {})
  <1>1. /\ next \in [D -> SUBSET D] /\ deep \in [D -> SUBSET D] /\ inner \in SUBSET D /\ n \in D
        /\ \A k \in inner : deep[k] = next[k] \cap inner /\ \A y \in next[k] \ inner : next[y] = {}
    BY DEF Inward
  <1>2. \A k \in inner : /\ Within(deep, k) \subseteq inner
                         /\ Closure(next, next[k]) = UNION {next[j] : j \in Within(deep, k)}
    BY InwardReaches
  <1>3. \A k \in inner : Closure(deep, deep[k]) = UNION {deep[j] : j \in Within(deep, k)}
    <2> SUFFICES ASSUME NEW k \in inner PROVE Closure(deep, deep[k]) = UNION {deep[j] : j \in Within(deep, k)}
      OBVIOUS
    <2>1. Inward(D, deep, deep, inner)
      <3>1. \A m \in inner : deep[m] \subseteq inner
        BY <1>1
      <3> QED
        BY <1>1, <3>1 DEF Inward
    <2> QED
      BY <2>1, InwardReaches
  <1>4. ASSUME NEW k \in inner PROVE k \in Closure(next, next[k]) <=> k \in Closure(deep, deep[k])
    <2>1. \A j \in Within(deep, k) : k \in next[j] <=> k \in deep[j]
      BY <1>1, <1>2
    <2> QED
      BY <1>2, <1>3, <2>1
  <1>5. ASSUME NEW k \in {n} \cup Closure(next, next[n]), k \in Closure(next, next[k])
        PROVE  k \in Within(deep, n)
    <2>1. CASE k = n
      BY <2>1 DEF Within
    <2>2. CASE k # n
      <3>1. PICK j \in Within(deep, n) : k \in next[j]
        BY <1>2, <2>2
      <3>2. k \in D
        BY <1>1, <1>2, <3>1
      <3>3. next[k] # {}
        <4>1. IsClosed(next, {}) /\ {} \in SUBSET D
          BY DEF IsClosed
        <4>2. next[k] = {} => Closure(next, next[k]) \subseteq {}
          BY <1>1, <3>2, <4>1, ClosureIsLeast
        <4> QED
          BY <1>5, <4>2
      <3>4. k \in inner
        BY <1>1, <1>2, <3>1, <3>3
      <3>5. k \in Closure(deep, deep[n])
        BY <1>1, <1>2, <1>3, <3>1, <3>4
      <3> QED
        BY <3>5 DEF Within
    <2> QED
      BY <2>1, <2>2
  <1>6. ASSUME Circular(deep, n, {})
        PROVE  \E k \in {n} \cup Closure(next, next[n]) : k \in Closure(next, next[k])
    <2>1. PICK k \in Within(deep, n) : k \in Closure(deep, deep[k])
      BY <1>6 DEF Circular
    <2>2. k \in inner
      BY <1>2
    <2>3. k \in Closure(next, next[k])
      BY <1>4, <2>1, <2>2
    <2>4. k \in {n} \cup Closure(next, next[n])
      <3>1. CASE k # n
        <4>1. k \in Closure(deep, deep[n])
          BY <3>1 DEF Within
        <4>2. PICK j \in Within(deep, n) : k \in deep[j]
          BY <1>3, <4>1
        <4>3. k \in next[j]
          BY <1>1, <1>2, <4>2
        <4> QED
          BY <1>2, <4>3
      <3> QED
        BY <3>1
    <2> QED
      BY <2>3, <2>4
  <1>7. ASSUME NEW k \in {n} \cup Closure(next, next[n]), k \in Closure(next, next[k])
        PROVE  Circular(deep, n, {})
    <2>1. k \in Within(deep, n) /\ k \in inner
      BY <1>2, <1>5, <1>7
    <2>2. k \in Closure(deep, deep[k])
      BY <1>4, <1>7, <2>1
    <2> QED
      BY <2>1, <2>2 DEF Circular
  <1> QED
    BY <1>6, <1>7

=============================================================================
