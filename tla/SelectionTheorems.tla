--------------------------- MODULE SelectionTheorems ---------------------------
(***************************************************************************)
(* What Kept returns, for every sequence and every set.  The induction is  *)
(* over sets of numbers, which the well-foundedness of < on Nat gives: the *)
(* least number outside of a set that is closed under successor.           *)
(***************************************************************************)
EXTENDS Selection, NaturalsInduction, SequenceTheorems, WellFoundedInduction, TLAPS

Less == {pair \in Nat \X Nat : pair[1] < pair[2]}

(***************************************************************************)
(* Every set of natural numbers that is not empty has a least member.      *)
(***************************************************************************)
LEMMA LeastMember ==
  ASSUME NEW T \in SUBSET Nat, T # {}
  PROVE  \E n \in T : \A m \in T : n <= m
<1>1. OpToRel(<, Nat) = Less
  BY Zenon DEF OpToRel, Less
<1>2. PICK n \in T : \A m \in T : <<m, n>> \notin Less
  BY <1>1, NatLessThanWellFounded, WFMin, Zenon
<1>3. ASSUME NEW m \in T PROVE n <= m
  <2>1. n \in Nat /\ m \in Nat
    OBVIOUS
  <2>2. ~(m < n)
    BY <1>2, <2>1 DEF Less
  <2> QED
    BY <2>1, <2>2
<1> QED
  BY <1>3

(***************************************************************************)
(* Induction: a set of natural numbers that has 0 and the successor of     *)
(* each of its members has them all.                                       *)
(***************************************************************************)
THEOREM SetInduction ==
  ASSUME NEW P \in SUBSET Nat, 0 \in P, \A n \in P : n + 1 \in P
  PROVE  P = Nat
<1> SUFFICES ASSUME Nat \ P # {}
             PROVE  FALSE
  OBVIOUS
<1>1. PICK n \in Nat \ P : \A m \in Nat \ P : n <= m
  BY LeastMember
<1>2. n - 1 \in Nat /\ n - 1 \notin Nat \ P
  BY <1>1
<1> QED
  BY <1>1, <1>2

-----------------------------------------------------------------------------
\* f is the function by which Kept counts up to N, and its values one after the other.
Counting(f, s, S, N) ==
  f = [n \in 0..N |-> IF n = 0 THEN <<>>
                      ELSE IF s[n] \in S THEN Append(f[n - 1], s[n]) ELSE f[n - 1]]
Counts(f, s, S, N) ==
  /\ f[0] = <<>>
  /\ \A n \in 1..N : f[n] = IF s[n] \in S THEN Append(f[n - 1], s[n]) ELSE f[n - 1]

(***************************************************************************)
(* The function has these values.                                          *)
(***************************************************************************)
LEMMA CountingCounts ==
  ASSUME NEW s, NEW S, NEW N \in Nat, NEW f, Counting(f, s, S, N)
  PROVE  Counts(f, s, S, N)
<1>1. \A n \in 0..N : f[n] = IF n = 0 THEN <<>>
                             ELSE IF s[n] \in S THEN Append(f[n - 1], s[n]) ELSE f[n - 1]
  BY DEF Counting
<1> QED
  BY <1>1 DEF Counts

(***************************************************************************)
(* There is such a function, however long the sequence.                    *)
(***************************************************************************)
LEMMA CountingExists ==
  ASSUME NEW s, NEW S
  PROVE  \A N \in Nat : \E f : Counting(f, s, S, N)
<1> DEFINE P == {N \in Nat : \E f : Counting(f, s, S, N)}
<1>1. 0 \in P
  <2>1. Counting([n \in 0..0 |-> <<>>], s, S, 0)
    BY DEF Counting
  <2> QED
    BY <2>1
<1>2. ASSUME NEW N \in P PROVE N + 1 \in P
  <2>1. PICK f : Counting(f, s, S, N)
    OBVIOUS
  <2> DEFINE g == [n \in 0..(N + 1) |->
                     IF n <= N THEN f[n]
                     ELSE IF s[n] \in S THEN Append(f[n - 1], s[n]) ELSE f[n - 1]]
  <2>2. Counting(g, s, S, N + 1)
    <3>1. Counts(f, s, S, N)
      BY <2>1, CountingCounts
    <3>2. \A n \in 0..(N + 1) :
            g[n] = IF n = 0 THEN <<>>
                   ELSE IF s[n] \in S THEN Append(g[n - 1], s[n]) ELSE g[n - 1]
      BY <3>1 DEF Counts
    <3>3. g = [n \in 0..(N + 1) |-> g[n]]
      OBVIOUS
    <3> HIDE DEF g
    <3> QED
      BY <3>2, <3>3 DEF Counting
  <2> QED
    BY <2>2
<1>3. P = Nat
  <2>1. P \subseteq Nat
    OBVIOUS
  <2> HIDE DEF P
  <2> QED
    BY <1>1, <1>2, <2>1, SetInduction
<1> QED
  BY <1>3

(***************************************************************************)
(* Kept is the last value of such a function.                              *)
(***************************************************************************)
LEMMA KeptCounts ==
  ASSUME NEW X, NEW s \in Seq(X), NEW S
  PROVE  \E f : Counts(f, s, S, Len(s)) /\ Kept(s, S) = f[Len(s)]
<1> DEFINE u == CHOOSE f : Counting(f, s, S, Len(s))
<1>1. Counting(u, s, S, Len(s))
  BY CountingExists, SMTT(30)
<1>2. Kept(s, S) = u[Len(s)]
  BY Zenon DEF Kept, Counting
<1>3. Len(s) \in Nat
  OBVIOUS
<1> HIDE DEF u
<1> QED
  BY <1>1, <1>2, <1>3, CountingCounts

(***************************************************************************)
(* Two of them agree as far as their sequences do.                         *)
(***************************************************************************)
LEMMA CountsAgree ==
  ASSUME NEW s, NEW t, NEW S, NEW N \in Nat, NEW M \in Nat, NEW f, NEW g, N <= M,
         Counts(f, s, S, N), Counts(g, t, S, M), \A n \in 1..N : s[n] = t[n]
  PROVE  f[N] = g[N]
<1> DEFINE P == {n \in Nat : n <= N => f[n] = g[n]}
<1>1. 0 \in P
  BY DEF Counts
<1>2. ASSUME NEW n \in P PROVE n + 1 \in P
  <2> SUFFICES ASSUME n + 1 <= N
               PROVE  f[n + 1] = g[n + 1]
    OBVIOUS
  <2>1. f[n] = g[n] /\ s[n + 1] = t[n + 1] /\ n + 1 \in 1..N /\ n + 1 \in 1..M
    OBVIOUS
  <2>2. f[n + 1] = IF s[n + 1] \in S THEN Append(f[n], s[n + 1]) ELSE f[n]
    BY <2>1 DEF Counts
  <2>3. g[n + 1] = IF t[n + 1] \in S THEN Append(g[n], t[n + 1]) ELSE g[n]
    BY <2>1 DEF Counts
  <2> QED
    BY <2>1, <2>2, <2>3
<1>3. P = Nat
  <2>1. P \subseteq Nat
    OBVIOUS
  <2> HIDE DEF P
  <2> QED
    BY <1>1, <1>2, <2>1, SetInduction
<1> QED
  BY <1>3

(***************************************************************************)
(* Of an empty sequence nothing is kept.                                   *)
(***************************************************************************)
THEOREM KeptEmpty == ASSUME NEW S PROVE Kept(<<>>, S) = <<>>
<1>1. <<>> \in Seq({}) /\ Len(<<>>) = 0
  OBVIOUS
<1>2. PICK f : Counts(f, <<>>, S, Len(<<>>)) /\ Kept(<<>>, S) = f[Len(<<>>)]
  BY <1>1, KeptCounts, Zenon
<1> QED
  BY <1>1, <1>2 DEF Counts

(***************************************************************************)
(* One element more: it is kept if it is in the set.                       *)
(***************************************************************************)
THEOREM KeptAppend ==
  ASSUME NEW X, NEW s \in Seq(X), NEW x \in X, NEW S
  PROVE  Kept(Append(s, x), S) = IF x \in S THEN Append(Kept(s, S), x) ELSE Kept(s, S)
<1> DEFINE t == Append(s, x)
           N == Len(s)
<1>1. /\ t \in Seq(X) /\ Len(t) = N + 1 /\ N \in Nat /\ t[N + 1] = x
      /\ \A n \in 1..N : s[n] = t[n]
  OBVIOUS
<1> HIDE DEF t, N
<1>2. PICK f : Counts(f, s, S, N) /\ Kept(s, S) = f[N]
  BY KeptCounts DEF N
<1>3. PICK g : Counts(g, t, S, N + 1) /\ Kept(t, S) = g[N + 1]
  BY <1>1, KeptCounts
<1>4. f[N] = g[N]
  BY <1>1, <1>2, <1>3, CountsAgree
<1>5. g[N + 1] = IF x \in S THEN Append(g[N], x) ELSE g[N]
  BY <1>1, <1>3 DEF Counts
<1> QED
  BY <1>2, <1>3, <1>4, <1>5 DEF t

-----------------------------------------------------------------------------
(***************************************************************************)
(* Induction over sequences: a set that has the empty one and, with each,  *)
(* those with one element more has all of them.                            *)
(***************************************************************************)
THEOREM SequenceInduction ==
  ASSUME NEW X, NEW P \in SUBSET Seq(X), <<>> \in P,
         \A s \in P, x \in X : Append(s, x) \in P
  PROVE  P = Seq(X)
<1> DEFINE Q == {n \in Nat : \A s \in Seq(X) : Len(s) = n => s \in P}
<1>1. 0 \in Q
  OBVIOUS
<1>2. ASSUME NEW n \in Q PROVE n + 1 \in Q
  <2> SUFFICES ASSUME NEW s \in Seq(X), Len(s) = n + 1
               PROVE  s \in P
    OBVIOUS
  <2>. s # <<>>
    OBVIOUS
  <2>1. PICK t \in Seq(X), x \in X : s = Append(t, x)
    BY SequenceEmptyOrAppend, Zenon
  <2>2. Len(t) = n
    BY <2>1
  <2> QED
    BY <2>1, <2>2
<1>3. Q = Nat
  <2>1. Q \subseteq Nat
    OBVIOUS
  <2> HIDE DEF Q
  <2> QED
    BY <1>1, <1>2, <2>1, SetInduction
<1>4. \A s \in Seq(X) : s \in P
  BY <1>3, LenProperties
<1> QED
  BY <1>4

(***************************************************************************)
(* What is kept are elements of the sequence that are in the set.          *)
(***************************************************************************)
THEOREM KeptType ==
  ASSUME NEW X, NEW s \in Seq(X), NEW S
  PROVE  Kept(s, S) \in Seq(X \cap S) /\ Kept(s, S) \in Seq(X)
<1> DEFINE P == {t \in Seq(X) : Kept(t, S) \in Seq(X \cap S)}
<1>1. <<>> \in P
  BY KeptEmpty, EmptySeq
<1>2. ASSUME NEW t \in P, NEW x \in X PROVE Append(t, x) \in P
  <2>1. Append(t, x) \in Seq(X)
    BY AppendProperties
  <2>2. Kept(Append(t, x), S) = IF x \in S THEN Append(Kept(t, S), x) ELSE Kept(t, S)
    BY KeptAppend
  <2>3. x \in S => Append(Kept(t, S), x) \in Seq(X \cap S)
    BY AppendProperties
  <2> QED
    BY <2>1, <2>2, <2>3
<1>3. P = Seq(X)
  <2>1. P \subseteq Seq(X)
    OBVIOUS
  <2> HIDE DEF P
  <2> QED
    BY <1>1, <1>2, <2>1, SequenceInduction
<1>4. Kept(s, S) \in Seq(X \cap S)
  BY <1>3
<1>5. X \cap S \subseteq X
  OBVIOUS
<1> QED
  BY <1>4, <1>5, SeqMonotonic, Zenon

(***************************************************************************)
(* Every element of the sequence that is in the set is kept.               *)
(***************************************************************************)
THEOREM KeptMembers ==
  ASSUME NEW X, NEW s \in Seq(X), NEW S
  PROVE  \A i \in 1..Len(s) :
           s[i] \in S => \E j \in 1..Len(Kept(s, S)) : Kept(s, S)[j] = s[i]
<1> DEFINE Found(t) == \A n \in 1..Len(t) :
                         t[n] \in S => \E j \in 1..Len(Kept(t, S)) : Kept(t, S)[j] = t[n]
           P == {t \in Seq(X) : Found(t)}
<1>1. <<>> \in P
  OBVIOUS
<1>2. ASSUME NEW t \in P, NEW x \in X PROVE Append(t, x) \in P
  <2> DEFINE k == Kept(t, S)
  <2>1. k \in Seq(X) /\ t \in Seq(X)
    BY KeptType
  <2>2. Kept(Append(t, x), S) = IF x \in S THEN Append(k, x) ELSE k
    BY KeptAppend
  <2>3. ASSUME NEW n \in 1..Len(Append(t, x)), Append(t, x)[n] \in S
        PROVE  \E j \in 1..Len(Kept(Append(t, x), S)) :
                 Kept(Append(t, x), S)[j] = Append(t, x)[n]
    <3>1. CASE n = Len(t) + 1
      <4>1. Append(t, x)[n] = x
        BY <3>1, <2>1
      <4>2. Kept(Append(t, x), S) = Append(k, x)
        BY <2>2, <2>3, <4>1
      <4> HIDE DEF k
      <4>3. Len(k) + 1 \in 1..Len(Append(k, x)) /\ Append(k, x)[Len(k) + 1] = x
        BY <2>1
      <4> QED
        BY <4>1, <4>2, <4>3
    <3>2. CASE n \in 1..Len(t)
      <4>1. Append(t, x)[n] = t[n]
        BY <2>1, <3>2
      <4>2. PICK j \in 1..Len(k) : k[j] = t[n]
        BY <2>3, <3>2, <4>1
      <4> HIDE DEF k
      <4>3. /\ j \in 1..Len(Append(k, x)) /\ Append(k, x)[j] = k[j]
        BY <2>1
      <4> QED
        BY <2>2, <4>1, <4>2, <4>3
    <3> QED
      BY <2>1, <3>1, <3>2
  <2>4. Append(t, x) \in Seq(X)
    BY <2>1, AppendProperties
  <2> QED
    BY <2>3, <2>4
<1>3. P = Seq(X)
  <2>1. P \subseteq Seq(X)
    OBVIOUS
  <2> HIDE DEF P
  <2> QED
    BY <1>1, <1>2, <2>1, SequenceInduction
<1> QED
  BY <1>3

(***************************************************************************)
(* An element can be put behind two sequences or behind the second one.    *)
(***************************************************************************)
PutBehind(v, w, x) == Append(v \o w, x) = v \o Append(w, x)

LEMMA AppendToConcat ==
  ASSUME NEW X
  PROVE  \A v, w \in Seq(X), x \in X : PutBehind(v, w, x)
<1> TAKE v, w \in Seq(X), x \in X
<1> DEFINE e == <<x>>
<1>1. v \o w \in Seq(X) /\ e \in Seq(X)
  BY ConcatProperties
<1>2. Append(v \o w, x) = (v \o w) \o e /\ Append(w, x) = w \o e
  BY <1>1, AppendIsConcat
<1>3. (v \o w) \o e = v \o (w \o e)
  <2> HIDE DEF e
  <2> QED
    BY <1>1, ConcatAssociative
<1> QED
  BY <1>2, <1>3, Zenon DEF PutBehind

(***************************************************************************)
(* Selecting from two sequences in a row is selecting from each.           *)
(***************************************************************************)
THEOREM KeptConcat ==
  ASSUME NEW X, NEW s \in Seq(X), NEW t \in Seq(X), NEW S
  PROVE  Kept(s \o t, S) = Kept(s, S) \o Kept(t, S)
<1> DEFINE P == {u \in Seq(X) : Kept(s \o u, S) = Kept(s, S) \o Kept(u, S)}
<1>1. <<>> \in P
  <2>1. s \o <<>> = s
    BY ConcatEmptySeq
  <2>2. Kept(s, S) \o <<>> = Kept(s, S)
    BY KeptType, ConcatEmptySeq
  <2>3. Kept(<<>>, S) = <<>> /\ <<>> \in Seq(X)
    BY KeptEmpty, EmptySeq
  <2> QED
    BY <2>1, <2>2, <2>3, Zenon
<1>2. ASSUME NEW u \in P, NEW x \in X PROVE Append(u, x) \in P
  <2>1. u \in Seq(X) /\ s \o u \in Seq(X) /\ Append(u, x) \in Seq(X)
    BY ConcatProperties, AppendProperties
  <2>2. Kept(s, S) \in Seq(X) /\ Kept(u, S) \in Seq(X)
    BY <2>1, KeptType
  <2>3. Kept(Append(u, x), S) = IF x \in S THEN Append(Kept(u, S), x) ELSE Kept(u, S)
    BY <2>1, KeptAppend
  <2>4. Kept(Append(s \o u, x), S)
          = IF x \in S THEN Append(Kept(s \o u, S), x) ELSE Kept(s \o u, S)
    <3>1. \A v \in Seq(X) : Kept(Append(v, x), S)
                              = IF x \in S THEN Append(Kept(v, S), x) ELSE Kept(v, S)
      BY KeptAppend
    <3> QED
      BY <2>1, <3>1, Zenon
  <2>5. Kept(s \o u, S) = Kept(s, S) \o Kept(u, S)
    OBVIOUS
  <2>6. PutBehind(s, u, x) /\ PutBehind(Kept(s, S), Kept(u, S), x)
    BY <2>1, <2>2, AppendToConcat, Zenon
  <2>7. Kept(s \o Append(u, x), S) = Kept(s, S) \o Kept(Append(u, x), S)
    BY <2>3, <2>4, <2>5, <2>6, Zenon DEF PutBehind
  <2> QED
    BY <2>1, <2>7
<1>3. P = Seq(X)
  <2>1. P \subseteq Seq(X)
    OBVIOUS
  <2> HIDE DEF P
  <2> QED
    BY <1>1, <1>2, <2>1, SequenceInduction
<1> QED
  BY <1>3

-----------------------------------------------------------------------------
(***************************************************************************)
(* A selection depends on which elements of the sequence are in the set.   *)
(***************************************************************************)
THEOREM KeptAgree ==
  ASSUME NEW X, NEW s \in Seq(X), NEW S, NEW T, \A x \in X : x \in S <=> x \in T
  PROVE  Kept(s, S) = Kept(s, T)
<1> DEFINE P == {t \in Seq(X) : Kept(t, S) = Kept(t, T)}
<1>1. <<>> \in P
  BY KeptEmpty, EmptySeq
<1>2. ASSUME NEW t \in P, NEW x \in X PROVE Append(t, x) \in P
  <2>1. Append(t, x) \in Seq(X)
    BY AppendProperties
  <2>2. /\ Kept(Append(t, x), S) = IF x \in S THEN Append(Kept(t, S), x) ELSE Kept(t, S)
        /\ Kept(Append(t, x), T) = IF x \in T THEN Append(Kept(t, T), x) ELSE Kept(t, T)
    BY KeptAppend
  <2>3. Kept(t, S) = Kept(t, T) /\ (x \in S <=> x \in T)
    OBVIOUS
  <2>4. Kept(Append(t, x), S) = Kept(Append(t, x), T)
    BY <2>2, <2>3, Zenon
  <2> QED
    BY <2>1, <2>4
<1>3. P = Seq(X)
  <2>1. P \subseteq Seq(X)
    OBVIOUS
  <2> HIDE DEF P
  <2> QED
    BY <1>1, <1>2, <2>1, SequenceInduction
<1> QED
  BY <1>3

(***************************************************************************)
(* A sequence is over the set of its elements, which may be a smaller one. *)
(***************************************************************************)
LEMMA OverItsElements ==
  ASSUME NEW X, NEW s \in Seq(X), NEW Y, \A i \in 1..Len(s) : s[i] \in Y
  PROVE  s \in Seq(Y)
BY SeqDef

(***************************************************************************)
(* A set that has every element of a sequence keeps it, and one that has   *)
(* none keeps nothing.                                                     *)
(***************************************************************************)
THEOREM KeptAll ==
  ASSUME NEW X, NEW s \in Seq(X), NEW S, X \subseteq S
  PROVE  Kept(s, S) = s
<1> DEFINE P == {t \in Seq(X) : Kept(t, S) = t}
<1>1. <<>> \in P
  BY KeptEmpty, EmptySeq
<1>2. ASSUME NEW t \in P, NEW x \in X PROVE Append(t, x) \in P
  <2>1. Append(t, x) \in Seq(X)
    BY AppendProperties
  <2>2. Kept(Append(t, x), S) = Append(Kept(t, S), x)
    BY KeptAppend
  <2> QED
    BY <2>1, <2>2
<1>3. P = Seq(X)
  <2>1. P \subseteq Seq(X)
    OBVIOUS
  <2> HIDE DEF P
  <2> QED
    BY <1>1, <1>2, <2>1, SequenceInduction
<1> QED
  BY <1>3

THEOREM KeptNone ==
  ASSUME NEW X, NEW s \in Seq(X), NEW S, X \cap S = {}
  PROVE  Kept(s, S) = <<>>
<1>1. Kept(s, S) \in Seq({})
  BY KeptType
<1>2. Len(Kept(s, S)) \in Nat /\ \A i \in 1..Len(Kept(s, S)) : Kept(s, S)[i] \in {}
  BY <1>1, LenProperties, ElementOfSeq
<1>3. Len(Kept(s, S)) = 0
  BY <1>2
<1> QED
  BY <1>1, <1>3, EmptySeq

(***************************************************************************)
(* Two selections, one after the other, are the selection by both sets.    *)
(***************************************************************************)
THEOREM KeptTwice ==
  ASSUME NEW X, NEW s \in Seq(X), NEW S, NEW T
  PROVE  Kept(Kept(s, S), T) = Kept(s, S \cap T)
<1> DEFINE P == {t \in Seq(X) : Kept(Kept(t, S), T) = Kept(t, S \cap T)}
<1>1. <<>> \in P
  BY KeptEmpty, EmptySeq
<1>2. ASSUME NEW t \in P, NEW x \in X PROVE Append(t, x) \in P
  <2>1. Append(t, x) \in Seq(X) /\ Kept(t, S) \in Seq(X)
    BY AppendProperties, KeptType
  <2>2. /\ Kept(Append(t, x), S) = IF x \in S THEN Append(Kept(t, S), x) ELSE Kept(t, S)
        /\ Kept(Append(t, x), S \cap T)
             = IF x \in S \cap T THEN Append(Kept(t, S \cap T), x) ELSE Kept(t, S \cap T)
    BY KeptAppend
  <2>3. Kept(Append(Kept(t, S), x), T)
          = IF x \in T THEN Append(Kept(Kept(t, S), T), x) ELSE Kept(Kept(t, S), T)
    <3>1. \A v \in Seq(X) : Kept(Append(v, x), T)
                              = IF x \in T THEN Append(Kept(v, T), x) ELSE Kept(v, T)
      BY KeptAppend
    <3> QED
      BY <2>1, <3>1, Zenon
  <2>4. Kept(Kept(t, S), T) = Kept(t, S \cap T)
    OBVIOUS
  <2>5. CASE x \in S
    <3>1. x \in S \cap T <=> x \in T
      BY <2>5
    <3>2. Kept(Kept(Append(t, x), S), T) = Kept(Append(t, x), S \cap T)
      BY <2>2, <2>3, <2>4, <2>5, <3>1, Zenon
    <3> QED
      BY <2>1, <3>2
  <2>6. CASE x \notin S
    <3>1. Kept(Kept(Append(t, x), S), T) = Kept(Append(t, x), S \cap T)
      BY <2>2, <2>4, <2>6, Zenon
    <3> QED
      BY <2>1, <3>1
  <2> QED
    BY <2>5, <2>6
<1>3. P = Seq(X)
  <2>1. P \subseteq Seq(X)
    OBVIOUS
  <2> HIDE DEF P
  <2> QED
    BY <1>1, <1>2, <2>1, SequenceInduction
<1> QED
  BY <1>3

-----------------------------------------------------------------------------
\* In s every element of P stands right behind one that R relates to it.
Behind(s, P, R) ==
  \A i \in 1..Len(s) : s[i] \in P => i > 1 /\ <<s[i - 1], s[i]>> \in R

\* s is empty or x stands last.
EndsWith(s, x) == Len(s) > 0 /\ s[Len(s)] = x

(***************************************************************************)
(* An element more stands behind the last one.                             *)
(***************************************************************************)
LEMMA BehindAppend ==
  ASSUME NEW X, NEW s \in Seq(X), NEW x \in X, NEW P, NEW R
  PROVE  Behind(Append(s, x), P, R) <=>
           /\ Behind(s, P, R)
           /\ x \in P => Len(s) > 0 /\ <<s[Len(s)], x>> \in R
<1> DEFINE t == Append(s, x)
           n == Len(s)
<1>1. /\ n \in Nat /\ Len(t) = n + 1 /\ t[n + 1] = x
      /\ \A i \in 1..n : t[i] = s[i]
  OBVIOUS
<1> HIDE DEF t
<1>2. ASSUME Behind(t, P, R) PROVE Behind(s, P, R) /\ (x \in P => n > 0 /\ <<s[n], x>> \in R)
  <2>1. ASSUME NEW i \in 1..n, s[i] \in P PROVE i > 1 /\ <<s[i - 1], s[i]>> \in R
    <3>1. i \in 1..Len(t) /\ t[i] \in P
      BY <1>1, <2>1
    <3>2. i > 1 /\ <<t[i - 1], t[i]>> \in R
      BY <1>2, <3>1 DEF Behind
    <3>3. i - 1 \in 1..n
      BY <1>1, <3>2
    <3> QED
      BY <1>1, <3>2, <3>3
  <2>2. ASSUME x \in P PROVE n > 0 /\ <<s[n], x>> \in R
    <3>1. n + 1 > 1 /\ <<t[n], t[n + 1]>> \in R
      <4>1. n + 1 \in 1..Len(t) /\ (n + 1) - 1 = n
        BY <1>1
      <4> QED
        BY <1>1, <1>2, <2>2, <4>1 DEF Behind
    <3>2. n \in 1..n
      BY <1>1, <3>1
    <3> QED
      BY <1>1, <3>1, <3>2
  <2> QED
    BY <2>1, <2>2 DEF Behind
<1>3. ASSUME Behind(s, P, R), x \in P => n > 0 /\ <<s[n], x>> \in R PROVE Behind(t, P, R)
  <2> SUFFICES ASSUME NEW i \in 1..Len(t), t[i] \in P PROVE i > 1 /\ <<t[i - 1], t[i]>> \in R
    BY DEF Behind
  <2>1. CASE i = n + 1
    <3>1. n > 0 /\ <<s[n], x>> \in R
      BY <1>1, <1>3, <2>1
    <3>2. n \in 1..n /\ i - 1 = n
      BY <1>1, <2>1, <3>1
    <3> QED
      BY <1>1, <2>1, <3>1, <3>2
  <2>2. CASE i \in 1..n
    <3>1. i > 1 /\ <<s[i - 1], s[i]>> \in R
      BY <1>1, <1>3, <2>2 DEF Behind
    <3>2. i - 1 \in 1..n
      BY <1>1, <2>2, <3>1
    <3> QED
      BY <1>1, <2>2, <3>1, <3>2
  <2> QED
    BY <1>1, <2>1, <2>2
<1> QED
  BY <1>2, <1>3 DEF t

(***************************************************************************)
(* Two such sequences in a row are one.                                    *)
(***************************************************************************)
LEMMA BehindConcat ==
  ASSUME NEW X, NEW s \in Seq(X), NEW t \in Seq(X), NEW P, NEW R,
         Behind(s, P, R), Behind(t, P, R)
  PROVE  Behind(s \o t, P, R)
<1> DEFINE v == s \o t
           m == Len(s)
<1>1. /\ m \in Nat /\ Len(t) \in Nat /\ Len(v) = m + Len(t)
      /\ \A i \in 1..m : v[i] = s[i]
      /\ \A i \in 1..Len(t) : v[m + i] = t[i]
  OBVIOUS
<1> HIDE DEF v, m
<1> SUFFICES ASSUME NEW i \in 1..Len(v), v[i] \in P PROVE i > 1 /\ <<v[i - 1], v[i]>> \in R
  BY DEF Behind, v
<1>2. CASE i \in 1..m
  <2>1. i > 1 /\ <<s[i - 1], s[i]>> \in R
    BY <1>1, <1>2 DEF Behind, m
  <2>2. i - 1 \in 1..m
    BY <1>1, <1>2, <2>1
  <2> QED
    BY <1>1, <1>2, <2>1, <2>2
<1>3. CASE i \in m + 1..Len(v)
  <2> DEFINE j == i - m
  <2>1. j \in 1..Len(t) /\ i = m + j
    BY <1>1, <1>3
  <2> HIDE DEF j
  <2>2. j > 1 /\ <<t[j - 1], t[j]>> \in R
    <3>1. t[j] \in P
      BY <1>1, <2>1
    <3> QED
      BY <2>1, <3>1 DEF Behind
  <2>3. j - 1 \in 1..Len(t) /\ i - 1 = m + (j - 1)
    BY <1>1, <2>1, <2>2
  <2>4. v[i] = t[j] /\ v[i - 1] = t[j - 1]
    BY <1>1, <2>1, <2>3
  <2> QED
    BY <1>1, <2>1, <2>2, <2>4
<1> QED
  BY <1>1, <1>2, <1>3

(***************************************************************************)
(* A part that does not begin with an element of P is one as well.         *)
(***************************************************************************)
LEMMA BehindPart ==
  ASSUME NEW X, NEW s \in Seq(X), NEW P, NEW R, Behind(s, P, R),
         NEW m \in Nat \ {0}, NEW n \in 0..Len(s), m <= Len(s) => s[m] \notin P
  PROVE  Behind(SubSeq(s, m, n), P, R) /\ SubSeq(s, m, n) \in Seq(X)
<1> DEFINE t == SubSeq(s, m, n)
<1>1. Len(s) \in Nat /\ n \in Nat
  OBVIOUS
<1>2. t \in Seq(X)
  BY <1>1, SubSeqProperties
<1>3. \A i \in 1..Len(t) : m + i - 1 \in 1..Len(s) /\ t[i] = s[m + i - 1]
  BY <1>1, SubSeqProperties
<1> HIDE DEF t
<1>4. ASSUME NEW i \in 1..Len(t), t[i] \in P PROVE i > 1 /\ <<t[i - 1], t[i]>> \in R
  <2>1. m + i - 1 \in 1..Len(s) /\ t[i] = s[m + i - 1] /\ Len(t) \in Nat
    BY <1>2, <1>3
  <2>2. <<s[m + i - 2], s[m + i - 1]>> \in R
    <3>1. (m + i - 1) - 1 = m + i - 2
      BY <1>1, <2>1
    <3> QED
      BY <1>4, <2>1, <3>1 DEF Behind
  <2>3. i # 1
    BY <1>1, <1>4, <2>1
  <2>4. i - 1 \in 1..Len(t) /\ m + (i - 1) - 1 = m + i - 2
    BY <1>1, <2>1, <2>3
  <2>5. t[i - 1] = s[m + i - 2]
    BY <1>3, <2>4
  <2> QED
    BY <2>1, <2>2, <2>3, <2>5
<1> QED
  BY <1>2, <1>4 DEF Behind, t

(***************************************************************************)
(* A selection that keeps whatever an element of P stands behind leaves it *)
(* there.                                                                  *)
(***************************************************************************)
THEOREM KeptBehind ==
  ASSUME NEW X, NEW s \in Seq(X), NEW S, NEW P, NEW R, Behind(s, P, R),
         \A x, y \in X : x \in P /\ <<y, x>> \in R => y \in S
  PROVE  Behind(Kept(s, S), P, R)
<1> DEFINE Good(t) == /\ Behind(t, P, R) => Behind(Kept(t, S), P, R)
                      /\ \A x \in S : EndsWith(t, x) => EndsWith(Kept(t, S), x)
           Q == {t \in Seq(X) : Good(t)}
<1>1. <<>> \in Q
  BY KeptEmpty, EmptySeq DEF EndsWith
<1>2. ASSUME NEW t \in Q, NEW x \in X PROVE Append(t, x) \in Q
  <2>1. t \in Seq(X) /\ Kept(t, S) \in Seq(X) /\ Append(t, x) \in Seq(X)
    BY AppendProperties, KeptType
  <2>2. Kept(Append(t, x), S) = IF x \in S THEN Append(Kept(t, S), x) ELSE Kept(t, S)
    BY KeptAppend
  <2>3. Good(t)
    OBVIOUS
  <2>4. ASSUME Behind(Append(t, x), P, R) PROVE Behind(Kept(Append(t, x), S), P, R)
    <3>1. /\ Behind(t, P, R)
          /\ x \in P => Len(t) > 0 /\ <<t[Len(t)], x>> \in R
      BY <2>1, <2>4, BehindAppend
    <3>2. Behind(Kept(t, S), P, R)
      BY <2>3, <3>1
    <3>3. CASE x \in S
      <4>1. x \in P => Len(Kept(t, S)) > 0 /\ <<Kept(t, S)[Len(Kept(t, S))], x>> \in R
        <5> SUFFICES ASSUME x \in P
                     PROVE  Len(Kept(t, S)) > 0 /\ <<Kept(t, S)[Len(Kept(t, S))], x>> \in R
          OBVIOUS
        <5> DEFINE y == t[Len(t)]
        <5>1. Len(t) > 0 /\ <<y, x>> \in R
          BY <3>1
        <5>2. y \in X
          BY <2>1, <5>1
        <5>3. y \in S /\ EndsWith(t, y)
          BY <5>1, <5>2 DEF EndsWith
        <5>4. EndsWith(Kept(t, S), y)
          BY <2>3, <5>3
        <5> QED
          BY <5>1, <5>4, Zenon DEF EndsWith
      <4>2. Behind(Append(Kept(t, S), x), P, R)
        <5>1. \A v \in Seq(X) : Behind(v, P, R) /\ (x \in P => Len(v) > 0 /\ <<v[Len(v)], x>> \in R)
                                  => Behind(Append(v, x), P, R)
          BY BehindAppend
        <5> QED
          BY <2>1, <3>2, <4>1, <5>1, Zenon
      <4> QED
        BY <2>2, <3>3, <4>2, Zenon
    <3>4. CASE x \notin S
      BY <2>2, <3>2, <3>4, Zenon
    <3> QED
      BY <3>3, <3>4
  <2>5. ASSUME NEW y \in S, EndsWith(Append(t, x), y) PROVE EndsWith(Kept(Append(t, x), S), y)
    <3>1. x = y
      BY <2>1, <2>5 DEF EndsWith
    <3>2. Kept(Append(t, x), S) = Append(Kept(t, S), x)
      BY <2>2, <3>1, Zenon
    <3>3. \A v \in Seq(X) : EndsWith(Append(v, x), x)
      BY DEF EndsWith
    <3> QED
      BY <2>1, <3>1, <3>2, <3>3, Zenon
  <2> QED
    BY <2>1, <2>4, <2>5
<1>3. Q = Seq(X)
  <2>1. Q \subseteq Seq(X)
    OBVIOUS
  <2> HIDE DEF Q
  <2> QED
    BY <1>1, <1>2, <2>1, SequenceInduction
<1> QED
  BY <1>3

(***************************************************************************)
(* Every set of natural numbers that is not empty and has a bound has a    *)
(* greatest member.                                                        *)
(***************************************************************************)
THEOREM GreatestMember ==
  ASSUME NEW T \in SUBSET Nat, T # {}, NEW b \in Nat, \A n \in T : n <= b
  PROVE  \E n \in T : \A m \in T : n >= m
<1> DEFINE U == {u \in Nat : \A n \in T : n <= u}
<1>1. U \in SUBSET Nat /\ U # {}
  OBVIOUS
<1>2. PICK u \in U : \A v \in U : u <= v
  <2> HIDE DEF U
  <2> QED
    BY <1>1, LeastMember
<1>3. CASE u \in T
  BY <1>3
<1>4. CASE u \notin T
  <2>1. \A n \in T : n <= u - 1
    BY <1>4
  <2>2. u - 1 \in U
    <3>1. PICK n \in T : TRUE
      OBVIOUS
    <3>2. u - 1 \in Nat
      BY <2>1, <3>1
    <3> QED
      BY <2>1, <3>2
  <2> QED
    BY <1>2, <2>2
<1> QED
  BY <1>3, <1>4
=============================================================================
