-------------------------- MODULE ReplySplicesProofs --------------------------
(***************************************************************************)
(* UsernameSplice, over the walker: while a list of usernames is built,    *)
(* spliced, tried and taken back, the reply keeps its types, Telegram is   *)
(* handed the genuine words or a whole list in them, and the own account   *)
(* is shown the configured one.  For every reply, every list of names and  *)
(* every schedule of the watcher.  At the end, what a refused edit of a    *)
(* page of gifts leaves.                                                   *)
(***************************************************************************)
EXTENDS ReplySplices, TLWalkerProofs, FiniteSetTheorems

----------------------------------------------------------------------------
(* What FlattenSeq gives: sequences, one behind the other.                 *)

\* Its recursive function, up to the k-th of the sequences.
FlatLike(s, k, f) == f = [i \in 1 .. k |-> IF i = 1 THEN s[i] ELSE f[i - 1] \o s[i]]

FlatOn(s) == CHOOSE f : FlatLike(s, Len(s), f)

\* What is not empty is what its recursive function says of the last.
LEMMA FlatIs ==
  ASSUME NEW s, Len(s) # 0
  PROVE  FlattenSeq(s) = FlatOn(s)[Len(s)]
BY DEF FlattenSeq, FlatOn, FlatLike

\* There is such a function.
LEMMA FlatExists ==
  ASSUME NEW s
  PROVE  \A k \in Nat : \E f : FlatLike(s, k, f)
<1> DEFINE T == {k \in Nat : \E f : FlatLike(s, k, f)}
<1>1. 0 \in T
  <2> DEFINE f == [i \in 1 .. 0 |-> 0]
  <2>1. FlatLike(s, 0, f)
    BY DEF FlatLike
  <2> QED
    BY <2>1
<1>2. ASSUME NEW k \in Nat, k \in T
      PROVE  k + 1 \in T
  <2>1. PICK f : FlatLike(s, k, f)
    BY <1>2
  <2> DEFINE g == [i \in 1 .. k + 1 |-> IF i = 1 THEN s[i] ELSE f[i - 1] \o s[i]]
  <2>2. \A i \in 1 .. k : f[i] = IF i = 1 THEN s[i] ELSE f[i - 1] \o s[i]
    BY <2>1 DEF FlatLike
  <2>6. \A i \in 1 .. k : i \in 1 .. k + 1
    OBVIOUS
  <2>7. \A i \in 1 .. k : g[i] = f[i]
    BY <2>2, <2>6
  <2>8. \A i \in 1 .. k + 1 : i # 1 => i - 1 \in 1 .. k
    OBVIOUS
  <2>3. \A i \in 1 .. k + 1 : i # 1 => i - 1 \in 1 .. k /\ g[i - 1] = f[i - 1]
    <3> HIDE DEF g
    <3> QED
      BY <2>7, <2>8
  <2>4. g = [i \in 1 .. k + 1 |-> IF i = 1 THEN s[i] ELSE g[i - 1] \o s[i]]
    BY <2>3
  <2>5. FlatLike(s, k + 1, g)
    BY <2>4 DEF FlatLike
  <2> QED
    BY <2>5
<1> HIDE DEF T
<1>3. Nat \subseteq T
  BY <1>1, <1>2, Inductive
<1> QED
  BY <1>3 DEF T

\* Its equation.
LEMMA FlatOnIs ==
  ASSUME NEW S, NEW s \in Seq(S)
  PROVE  \A i \in 1 .. Len(s) :
           FlatOn(s)[i] = IF i = 1 THEN s[i] ELSE FlatOn(s)[i - 1] \o s[i]
<1>1. Len(s) \in Nat
  BY LenProperties
<1>2. \E f : FlatLike(s, Len(s), f)
  BY <1>1, FlatExists
<1>3. FlatLike(s, Len(s), FlatOn(s))
  BY <1>2 DEF FlatOn
<1> DEFINE f == FlatOn(s)
<1> HIDE DEF f
<1>4. f = [i \in 1 .. Len(s) |-> IF i = 1 THEN s[i] ELSE f[i - 1] \o s[i]]
  BY <1>3 DEF FlatLike, f
<1>5. \A i \in 1 .. Len(s) : f[i] = IF i = 1 THEN s[i] ELSE f[i - 1] \o s[i]
  BY <1>4
<1> QED
  BY <1>5 DEF f

\* Its type.
LEMMA FlatOnTyped ==
  ASSUME NEW X, NEW s \in Seq(Seq(X))
  PROVE  \A k \in Nat : k \in 1 .. Len(s) => FlatOn(s)[k] \in Seq(X)
<1> DEFINE T == {k \in Nat : k \in 1 .. Len(s) => FlatOn(s)[k] \in Seq(X)}
<1>1. 0 \in T
  OBVIOUS
<1>2. ASSUME NEW k \in Nat, k \in T
      PROVE  k + 1 \in T
  <2> SUFFICES ASSUME k + 1 \in 1 .. Len(s)
               PROVE  FlatOn(s)[k + 1] \in Seq(X)
    OBVIOUS
  <2>1. Len(s) \in Nat /\ s[k + 1] \in Seq(X)
    BY LenProperties, ElementOfSeq
  <2>2. FlatOn(s)[k + 1] = IF k + 1 = 1 THEN s[k + 1] ELSE FlatOn(s)[k + 1 - 1] \o s[k + 1]
    BY FlatOnIs
  <2>3. CASE k = 0
    BY <2>1, <2>2, <2>3
  <2>4. CASE k # 0
    <3>1. k \in 1 .. Len(s) /\ k + 1 - 1 = k
      BY <2>1, <2>4
    <3>2. FlatOn(s)[k] \in Seq(X)
      BY <1>2, <3>1
    <3> QED
      BY <2>1, <2>2, <2>4, <3>1, <3>2, ConcatProperties
  <2> QED
    BY <2>3, <2>4
<1> HIDE DEF T
<1>3. Nat \subseteq T
  BY <1>1, <1>2, Inductive
<1> QED
  BY <1>3 DEF T

\* No sequences give none.
LEMMA FlatOfNone == FlattenSeq(<<>>) = <<>>
BY DEF FlattenSeq

\* Sequences give a sequence.
LEMMA FlatTyped ==
  ASSUME NEW X, NEW s \in Seq(Seq(X))
  PROVE  FlattenSeq(s) \in Seq(X)
<1>1. Len(s) \in Nat
  BY LenProperties
<1>2. CASE Len(s) = 0
  BY <1>2 DEF FlattenSeq
<1>3. CASE Len(s) # 0
  BY <1>1, <1>3, FlatIs, FlatOnTyped
<1> QED
  BY <1>2, <1>3

\* One sequence more changes nothing of those before it.
LEMMA FlatAgrees ==
  ASSUME NEW S, NEW s \in Seq(S), NEW x \in S
  PROVE  \A k \in Nat : k \in 1 .. Len(s) => FlatOn(Append(s, x))[k] = FlatOn(s)[k]
<1> DEFINE t == Append(s, x)
           T == {k \in Nat : k \in 1 .. Len(s) => FlatOn(t)[k] = FlatOn(s)[k]}
<1>1. Len(s) \in Nat /\ t \in Seq(S) /\ Len(t) = Len(s) + 1 /\ \A i \in 1 .. Len(s) : t[i] = s[i]
  BY LenProperties, AppendProperties
<1>2. 0 \in T
  OBVIOUS
<1> HIDE DEF t
<1>3. ASSUME NEW k \in Nat, k \in T
      PROVE  k + 1 \in T
  <2> SUFFICES ASSUME k + 1 \in 1 .. Len(s)
               PROVE  FlatOn(t)[k + 1] = FlatOn(s)[k + 1]
    OBVIOUS
  <2>1. k + 1 \in 1 .. Len(t) /\ t[k + 1] = s[k + 1]
    BY <1>1
  <2>2. FlatOn(s)[k + 1] = IF k + 1 = 1 THEN s[k + 1] ELSE FlatOn(s)[k + 1 - 1] \o s[k + 1]
    BY FlatOnIs
  <2>3. FlatOn(t)[k + 1] = IF k + 1 = 1 THEN t[k + 1] ELSE FlatOn(t)[k + 1 - 1] \o t[k + 1]
    BY <1>1, <2>1, FlatOnIs
  <2>4. k # 0 => FlatOn(t)[k] = FlatOn(s)[k]
    BY <1>1, <1>3
  <2>5. k + 1 - 1 = k /\ (k = 0 <=> k + 1 = 1)
    OBVIOUS
  <2> QED
    BY <2>1, <2>2, <2>3, <2>4, <2>5
<1> HIDE DEF T
<1>4. Nat \subseteq T
  BY <1>2, <1>3, Inductive
<1> QED
  BY <1>4 DEF T, t

\* It stands behind them.
LEMMA FlatAppend ==
  ASSUME NEW X, NEW s \in Seq(Seq(X)), NEW x \in Seq(X)
  PROVE  FlattenSeq(Append(s, x)) = FlattenSeq(s) \o x
<1> DEFINE t == Append(s, x)
           m == Len(s)
<1>1. m \in Nat /\ t \in Seq(Seq(X)) /\ Len(t) = m + 1 /\ t[m + 1] = x
  BY LenProperties, AppendProperties
<1>2. FlattenSeq(t) = FlatOn(t)[m + 1]
  <2> HIDE DEF t, m
  <2> QED
    BY <1>1, FlatIs
<1>3. FlatOn(t)[m + 1] = IF m + 1 = 1 THEN x ELSE FlatOn(t)[m + 1 - 1] \o x
  <2> HIDE DEF t, m
  <2>1. m + 1 \in 1 .. Len(t)
    BY <1>1
  <2> QED
    BY <1>1, <2>1, FlatOnIs
<1>4. CASE m = 0
  <2>1. s = <<>>
    BY <1>4, EmptySeq
  <2>2. FlattenSeq(s) \o x = x
    BY <2>1, FlatOfNone, ConcatEmptySeq
  <2> QED
    BY <1>2, <1>3, <1>4, <2>2
<1>5. CASE m # 0
  <2>1. FlatOn(t)[m] = FlatOn(s)[m]
    BY <1>1, <1>5, FlatAgrees
  <2>2. FlattenSeq(s) = FlatOn(s)[m]
    BY <1>5, FlatIs
  <2>3. m + 1 # 1 /\ m + 1 - 1 = m
    BY <1>1, <1>5
  <2> HIDE DEF t, m
  <2> QED
    BY <1>2, <1>3, <2>1, <2>2, <2>3 DEF t
<1> QED
  BY <1>4, <1>5

\* Those of two sequences stand one behind the other.
LEMMA FlatJoin ==
  ASSUME NEW X, NEW s \in Seq(Seq(X))
  PROVE  \A t \in Seq(Seq(X)) : FlattenSeq(s \o t) = FlattenSeq(s) \o FlattenSeq(t)
<1> DEFINE T == {k \in Nat : \A t \in Seq(Seq(X)) :
                   Len(t) = k => FlattenSeq(s \o t) = FlattenSeq(s) \o FlattenSeq(t)}
<1>1. 0 \in T
  <2> SUFFICES ASSUME NEW t \in Seq(Seq(X)), Len(t) = 0
               PROVE  FlattenSeq(s \o t) = FlattenSeq(s) \o FlattenSeq(t)
    OBVIOUS
  <2>1. t = <<>>
    BY EmptySeq
  <2>2. s \o <<>> = s
    BY ConcatEmptySeq
  <2>3. FlattenSeq(s) \o <<>> = FlattenSeq(s)
    BY FlatTyped, ConcatEmptySeq
  <2> QED
    BY <2>1, <2>2, <2>3, FlatOfNone
<1>2. ASSUME NEW k \in Nat, k \in T
      PROVE  k + 1 \in T
  <2> SUFFICES ASSUME NEW t \in Seq(Seq(X)), Len(t) = k + 1
               PROVE  FlattenSeq(s \o t) = FlattenSeq(s) \o FlattenSeq(t)
    OBVIOUS
  <2>1. t # <<>>
    BY EmptySeq
  <2>2. PICK u \in Seq(Seq(X)), x \in Seq(X) : t = Append(u, x)
    BY <2>1, SequenceEmptyOrAppend
  <2>3. Len(u) = k
    <3>1. Len(u) \in Nat /\ Len(t) = Len(u) + 1
      BY <2>2, LenProperties, AppendProperties
    <3> QED
      BY <3>1
  <2>4. FlattenSeq(s \o u) = FlattenSeq(s) \o FlattenSeq(u)
    BY <1>2, <2>3
  <2> DEFINE one == <<x>>
  <2>5. one \in Seq(Seq(X))
    OBVIOUS
  <2>6. t = u \o one /\ Append(s \o u, x) = (s \o u) \o one
    BY <2>2, ConcatProperties, AppendIsConcat
  <2> HIDE DEF one
  <2>7. s \o t = Append(s \o u, x)
    BY <2>5, <2>6, ConcatAssociative
  <2>8. FlattenSeq(s \o t) = FlattenSeq(s \o u) \o x
    BY <2>7, ConcatProperties, FlatAppend
  <2>9. FlattenSeq(t) = FlattenSeq(u) \o x
    BY <2>2, FlatAppend
  <2> DEFINE a == FlattenSeq(s)
             b == FlattenSeq(u)
  <2>10. a \in Seq(X) /\ b \in Seq(X)
    BY FlatTyped
  <2> HIDE DEF a, b
  <2>11. (a \o b) \o x = a \o (b \o x)
    BY <2>10, ConcatAssociative
  <2> QED
    BY <2>4, <2>8, <2>9, <2>11 DEF a, b
<1> HIDE DEF T
<1>3. Nat \subseteq T
  BY <1>1, <1>2, Inductive
<1>4. \A t \in Seq(Seq(X)) : Len(t) \in T
  BY <1>3, LenProperties
<1> QED
  BY <1>4 DEF T

\* One sequence gives itself.
LEMMA FlatOfOne ==
  ASSUME NEW X, NEW x \in Seq(X)
  PROVE  FlattenSeq(<<x>>) = x
<1> DEFINE none == <<>>
<1>1. none \in Seq(Seq(X)) /\ Append(none, x) = <<x>>
  OBVIOUS
<1>2. FlattenSeq(none) \o x = x
  BY FlatOfNone, ConcatEmptySeq
<1> HIDE DEF none
<1>3. FlattenSeq(Append(none, x)) = FlattenSeq(none) \o x
  BY <1>1, FlatAppend
<1> QED
  BY <1>1, <1>2, <1>3

\* One of the sequences, between those before it and those behind it.
LEMMA FlatSplit ==
  ASSUME NEW X, NEW s \in Seq(Seq(X)), NEW i \in 1 .. Len(s)
  PROVE  /\ SubSeq(s, 1, i - 1) \in Seq(Seq(X)) /\ SubSeq(s, i + 1, Len(s)) \in Seq(Seq(X))
         /\ FlattenSeq(s) = FlattenSeq(SubSeq(s, 1, i - 1))
                            \o (s[i] \o FlattenSeq(SubSeq(s, i + 1, Len(s))))
<1> DEFINE Y == Seq(X)
           a == SubSeq(s, 1, i - 1)
           b == SubSeq(s, i + 1, Len(s))
           one == <<s[i]>>
<1>1. Len(s) \in Nat /\ \A j \in 1 .. Len(s) : s[j] \in Y
  BY LenProperties, ElementOfSeq
<1>2. a \in Seq(Y) /\ Len(a) = i - 1 /\ \A j \in 1 .. i - 1 : a[j] = s[j]
  <2>1. \A j \in 1 .. i - 1 : s[j] \in Y /\ 1 + j - 1 = j
    BY <1>1
  <2> HIDE DEF Y
  <2> QED
    BY <1>1, <2>1, SubSeqProperties
<1>3. b \in Seq(Y) /\ Len(b) = Len(s) - i /\ \A j \in 1 .. Len(s) - i : b[j] = s[i + j]
  <2> DEFINE m == i + 1
             l == Len(s)
  <2>1. /\ \A j \in m .. l : s[j] \in Y
        /\ m \in Int /\ l \in Int
        /\ (IF m <= l THEN l - m + 1 ELSE 0) = Len(s) - i
        /\ l - m + 1 = Len(s) - i
        /\ \A j \in 1 .. Len(s) - i : m + j - 1 = i + j
    BY <1>1
  <2>2. b = SubSeq(s, m, l)
    OBVIOUS
  <2> HIDE DEF Y, m, l, b
  <2>3. /\ SubSeq(s, m, l) \in Seq(Y)
        /\ Len(SubSeq(s, m, l)) = IF m <= l THEN l - m + 1 ELSE 0
        /\ \A j \in 1 .. l - m + 1 : SubSeq(s, m, l)[j] = s[m + j - 1]
    BY <2>1, SubSeqProperties
  <2> QED
    BY <2>1, <2>2, <2>3
<1>4. one \in Seq(Y) /\ Len(one) = 1 /\ one[1] = s[i]
  BY <1>1
<1> HIDE DEF a, b, one
<1>5. s = a \o (one \o b)
  <2> HIDE DEF Y
  <2> DEFINE c == one \o b
  <2>1. /\ c \in Seq(Y) /\ Len(c) = 1 + Len(b)
        /\ \A j \in 1 .. 1 + Len(b) : c[j] = IF j <= 1 THEN one[j] ELSE b[j - 1]
    <3>1. /\ c \in Seq(Y) /\ Len(c) = Len(one) + Len(b)
          /\ \A j \in 1 .. Len(one) + Len(b) :
               c[j] = IF j <= Len(one) THEN one[j] ELSE b[j - Len(one)]
      BY <1>3, <1>4, ConcatProperties
    <3> QED
      BY <1>4, <3>1
  <2> HIDE DEF c
  <2>2. /\ a \o c \in Seq(Y) /\ Len(a \o c) = Len(a) + Len(c)
        /\ \A j \in 1 .. Len(a) + Len(c) : (a \o c)[j] = IF j <= Len(a) THEN a[j] ELSE c[j - Len(a)]
    BY <1>2, <2>1, ConcatProperties
  <2>3. s \in Seq(Y)
    BY DEF Y
  <2>4. Len(a) + Len(c) = Len(s)
    BY <1>1, <1>2, <1>3, <2>1
  <2>5. ASSUME NEW j \in 1 .. Len(s)
        PROVE  (a \o c)[j] = s[j]
    <3>1. CASE j <= i - 1
      BY <1>1, <1>2, <2>2, <2>4, <3>1
    <3>2. CASE j = i
      <4>1. (a \o c)[j] = c[1]
        BY <1>1, <1>2, <2>2, <2>4, <3>2
      <4>2. c[1] = one[1]
        BY <1>1, <1>3, <2>1
      <4> QED
        BY <1>4, <4>1, <4>2, <3>2
    <3>3. CASE i < j
      <4>1. (a \o c)[j] = c[j - (i - 1)]
        <5>1. Len(a) = i - 1 /\ j \in 1 .. Len(a) + Len(c) /\ ~(j <= Len(a))
          BY <1>1, <1>2, <2>4, <3>3
        <5>2. (a \o c)[j] = c[j - Len(a)]
          BY <2>2, <5>1
        <5> QED
          BY <5>1, <5>2
      <4>2. c[j - (i - 1)] = b[j - i]
        <5>1. j - (i - 1) \in 1 .. 1 + Len(b) /\ ~(j - (i - 1) <= 1) /\ j - (i - 1) - 1 = j - i
          BY <1>1, <1>3, <3>3
        <5> QED
          BY <2>1, <5>1
      <4>3. b[j - i] = s[j]
        <5>1. j - i \in 1 .. Len(s) - i /\ i + (j - i) = j
          BY <1>1, <3>3
        <5> QED
          BY <1>3, <5>1
      <4> QED
        BY <4>1, <4>2, <4>3
    <3>4. j \in Int /\ i \in Int
      OBVIOUS
    <3>5. j <= i - 1 \/ j = i \/ i < j
      BY <3>4
    <3> QED
      BY <3>1, <3>2, <3>3, <3>5
  <2>6. a \o c = s
    BY <2>2, <2>3, <2>4, <2>5, SeqEqual
  <2> QED
    BY <2>6 DEF c
<1>6. FlattenSeq(a \o (one \o b)) = FlattenSeq(a) \o FlattenSeq(one \o b)
  BY <1>2, <1>3, <1>4, ConcatProperties, FlatJoin
<1>7. FlattenSeq(one \o b) = FlattenSeq(one) \o FlattenSeq(b)
  BY <1>3, <1>4, FlatJoin
<1>8. FlattenSeq(one) = s[i]
  BY <1>1, FlatOfOne DEF one
<1>9. FlattenSeq(s) = FlattenSeq(a) \o (s[i] \o FlattenSeq(b))
  BY <1>5, <1>6, <1>7, <1>8
<1> QED
  BY <1>2, <1>3, <1>9 DEF a, b

----------------------------------------------------------------------------
(* Words that are somewhere in others.                                     *)

Occurs(ws, p, xs) ==
  p + Len(xs) <= Len(ws) + 1 /\ \A k \in 0 .. Len(xs) - 1 : ws[p + k] = xs[k + 1]

Cat(xs, ys) == xs \o ys

\* Where two sequences are that stand together, the second is behind the first.
LEMMA OccursJoined ==
  ASSUME NEW ws \in Seq(Word), NEW p \in Nat \ {0}, NEW xs \in Seq(Word), NEW ys \in Seq(Word),
         Occurs(ws, p, Cat(xs, ys))
  PROVE  /\ Occurs(ws, p, xs) /\ Occurs(ws, p + Len(xs), ys)
         /\ p + Len(xs) \in Nat \ {0} /\ Len(Cat(xs, ys)) = Len(xs) + Len(ys)
<1> DEFINE a == Len(xs)
           b == Len(ys)
           zs == Cat(xs, ys)
<1>1. /\ a \in Nat /\ b \in Nat /\ Len(ws) \in Nat /\ Len(zs) = a + b
      /\ \A i \in 1 .. a + b : zs[i] = IF i <= a THEN xs[i] ELSE ys[i - a]
  BY LenProperties, ConcatProperties DEF Cat
<1>8. Occurs(ws, p, zs)
  OBVIOUS
<1> HIDE DEF a, b, zs
<1>7. p + Len(zs) <= Len(ws) + 1 /\ \A k \in 0 .. Len(zs) - 1 : ws[p + k] = zs[k + 1]
  BY <1>8 DEF Occurs
<1>2. p + (a + b) <= Len(ws) + 1 /\ \A k \in 0 .. a + b - 1 : ws[p + k] = zs[k + 1]
  BY <1>1, <1>7
<1>3. ASSUME NEW k \in 0 .. a - 1
      PROVE  ws[p + k] = xs[k + 1]
  <2>1. k \in 0 .. a + b - 1 /\ k + 1 \in 1 .. a + b /\ k + 1 <= a
    BY <1>1
  <2> QED
    BY <1>1, <1>2, <2>1
<1>4. ASSUME NEW k \in 0 .. b - 1
      PROVE  ws[p + a + k] = ys[k + 1]
  <2>1. /\ a + k \in 0 .. a + b - 1 /\ a + k + 1 \in 1 .. a + b /\ ~(a + k + 1 <= a)
        /\ a + k + 1 - a = k + 1 /\ p + (a + k) = p + a + k
    BY <1>1
  <2>2. ws[p + (a + k)] = zs[a + k + 1]
    BY <1>2, <2>1
  <2>3. zs[a + k + 1] = ys[a + k + 1 - a]
    BY <1>1, <2>1
  <2> QED
    BY <2>1, <2>2, <2>3
<1>5. p + a <= Len(ws) + 1 /\ p + a + b <= Len(ws) + 1 /\ p + a \in Nat \ {0}
  BY <1>1, <1>2
<1> QED
  BY <1>1, <1>3, <1>4, <1>5 DEF Occurs, a, b, zs

\* Words occur in themselves.
LEMMA OccursWhole ==
  ASSUME NEW ws \in Seq(Word)
  PROVE  Occurs(ws, 1, ws)
<1>1. Len(ws) \in Nat
  BY LenProperties
<1>2. \A k \in 0 .. Len(ws) - 1 : ws[1 + k] = ws[k + 1]
  <2>1. \A k \in 0 .. Len(ws) - 1 : 1 + k = k + 1
    OBVIOUS
  <2> QED
    BY <2>1
<1>3. 1 + Len(ws) <= Len(ws) + 1
  BY <1>1
<1> QED
  BY <1>2, <1>3 DEF Occurs

\* Some words, one by one.
LEMMA OccursOne ==
  ASSUME NEW ws, NEW p \in Nat, NEW x, Occurs(ws, p, <<x>>)
  PROVE  ws[p] = x /\ p + 1 <= Len(ws) + 1
<1>1. 0 \in 0 .. 1 - 1 /\ p + 0 = p /\ <<x>>[0 + 1] = x /\ Len(<<x>>) = 1
  OBVIOUS
<1> QED
  BY <1>1 DEF Occurs

LEMMA OccursTwo ==
  ASSUME NEW ws, NEW p \in Nat, NEW x, NEW y, Occurs(ws, p, <<x, y>>)
  PROVE  ws[p] = x /\ ws[p + 1] = y /\ p + 2 <= Len(ws) + 1
<1>1. /\ 0 \in 0 .. 2 - 1 /\ p + 0 = p /\ <<x, y>>[0 + 1] = x /\ Len(<<x, y>>) = 2
      /\ 1 \in 0 .. 2 - 1 /\ <<x, y>>[1 + 1] = y
  OBVIOUS
<1> QED
  BY <1>1 DEF Occurs

LEMMA OccursThree ==
  ASSUME NEW ws, NEW p \in Nat, NEW x, NEW y, NEW z, Occurs(ws, p, <<x, y, z>>)
  PROVE  ws[p] = x /\ ws[p + 1] = y /\ ws[p + 2] = z /\ p + 3 <= Len(ws) + 1
<1> DEFINE t == <<x, y, z>>
<1>1. /\ 0 \in 0 .. 3 - 1 /\ p + 0 = p /\ t[0 + 1] = x /\ Len(t) = 3
      /\ 1 \in 0 .. 3 - 1 /\ t[1 + 1] = y /\ 2 \in 0 .. 3 - 1 /\ t[2 + 1] = z
  OBVIOUS
<1> QED
  BY <1>1 DEF Occurs

LEMMA OccursFour ==
  ASSUME NEW ws, NEW p \in Nat, NEW x, NEW y, NEW z, NEW v, Occurs(ws, p, <<x, y, z, v>>)
  PROVE  ws[p] = x /\ ws[p + 1] = y /\ ws[p + 2] = z /\ ws[p + 3] = v /\ p + 4 <= Len(ws) + 1
<1> DEFINE t == <<x, y, z, v>>
<1>1. /\ 0 \in 0 .. 4 - 1 /\ p + 0 = p /\ t[0 + 1] = x /\ Len(t) = 4
      /\ 1 \in 0 .. 4 - 1 /\ t[1 + 1] = y /\ 2 \in 0 .. 4 - 1 /\ t[2 + 1] = z
      /\ 3 \in 0 .. 4 - 1 /\ t[3 + 1] = v
  OBVIOUS
<1> QED
  BY <1>1 DEF Occurs

----------------------------------------------------------------------------
(* The words of a user.                                                    *)

\* What is said is a word.
LEMMA WordsTyped ==
  /\ \A c \in Text : Ctor(c) \in Word /\ Data(c) \in Word
  /\ VectorId \in Word
  /\ \A k \in Nat : Number(k) \in Word
  /\ \A set \in SUBSET Text : FlagsWord(set) \in Word
<1>1. "" \in Text
  BY TextAssumption
<1> QED
  BY <1>1 DEF Ctor, Data, VectorId, Number, FlagsWord, Plain, Word

\* What the words of a user may say.
LEMMA Said ==
  /\ UserField \subseteq Text /\ Names \cup {Blank} \subseteq Text
  /\ {"own", "id", "about", "alien", "editable", "active", "until"} \subseteq Text
  /\ {"user", "username", "restrictionReason", "emojiStatus", "emojiStatusEmpty", "userFull"}
       \subseteq Text
<1>1. {"user", "username", "restrictionReason", "emojiStatus", "emojiStatusEmpty", "userFull"}
        \subseteq DOMAIN Schema
  BY DEF Schema
<1>2. DOMAIN Schema \subseteq Text
  BY TextAssumption
<1> QED
  BY <1>1, <1>2, UserTextAssumption

Cell == Names \cup {Blank}

\* The parts of a user in front of its list and behind it.
First(bits) == <<Ctor("user"), FlagsWord(bits), Data("id")>>
FirstName(bits) == IF "first_name" \in bits THEN <<Data("own")>> ELSE <<>>
Reasons(bits) ==
  IF "restriction_reason" \in bits
    THEN <<VectorId, Number(1), Ctor("restrictionReason"), Data("own")>> ELSE <<>>
Status(bits, status) == IF "emoji_status" \in bits THEN StatusWords(status) ELSE <<>>
Color(bits) == IF "color" \in bits THEN <<Data("own")>> ELSE <<>>

Stem(bits, status) == ((First(bits) \o FirstName(bits)) \o Reasons(bits)) \o Status(bits, status)

\* A list that says it has m usernames, and has these.
Listing(m, names) ==
  <<VectorId, Number(m)>> \o FlattenSeq([k \in DOMAIN names |-> NameWords(names[k], k = 1)])

Kinds == {"emojiStatus", "emojiStatusEmpty", "until", "alien"}

\* They are words, so many of each.
LEMMA PartsTyped ==
  ASSUME NEW bits \in SUBSET UserField, NEW status \in Kinds
  PROVE  /\ First(bits) \in Seq(Word) /\ Len(First(bits)) = 3
         /\ FirstName(bits) \in Seq(Word)
         /\ Len(FirstName(bits)) = IF "first_name" \in bits THEN 1 ELSE 0
         /\ Reasons(bits) \in Seq(Word)
         /\ Len(Reasons(bits)) = IF "restriction_reason" \in bits THEN 4 ELSE 0
         /\ Status(bits, status) \in Seq(Word)
         /\ Color(bits) \in Seq(Word)
         /\ Len(Color(bits)) = IF "color" \in bits THEN 1 ELSE 0
<1>1. /\ Ctor("user") \in Word /\ FlagsWord(bits) \in Word /\ Data("id") \in Word
      /\ Data("own") \in Word /\ VectorId \in Word /\ Number(1) \in Word
      /\ Ctor("restrictionReason") \in Word
  BY WordsTyped, Said
<1>2. First(bits) \in Seq(Word) /\ Len(First(bits)) = 3
  BY <1>1 DEF First
<1>3. /\ FirstName(bits) \in Seq(Word)
      /\ Len(FirstName(bits)) = IF "first_name" \in bits THEN 1 ELSE 0
  BY <1>1 DEF FirstName
<1>4. /\ Reasons(bits) \in Seq(Word)
      /\ Len(Reasons(bits)) = IF "restriction_reason" \in bits THEN 4 ELSE 0
  BY <1>1 DEF Reasons
<1>5. Status(bits, status) \in Seq(Word)
  <2>1. /\ Ctor("alien") \in Word /\ Ctor("emojiStatus") \in Word /\ Ctor("emojiStatusEmpty") \in Word
        /\ FlagsWord({"until"}) \in Word /\ FlagsWord({}) \in Word
    BY WordsTyped, Said
  <2> QED
    BY <1>1, <2>1 DEF Status, StatusWords, Kinds
<1>6. /\ Color(bits) \in Seq(Word)
      /\ Len(Color(bits)) = IF "color" \in bits THEN 1 ELSE 0
  BY <1>1 DEF Color
<1> QED
  BY <1>2, <1>3, <1>4, <1>5, <1>6

\* The words of sequences of three, one behind the other.
LEMMA FlatOfThrees ==
  ASSUME NEW s \in Seq(Seq(Word)), \A i \in 1 .. Len(s) : Len(s[i]) = 3
  PROVE  Len(FlattenSeq(s)) = 3 * Len(s)
<1> DEFINE T == {k \in Nat : \A t \in Seq(Seq(Word)) :
                   Len(t) = k /\ (\A i \in 1 .. Len(t) : Len(t[i]) = 3) =>
                     Len(FlattenSeq(t)) = 3 * k}
<1>1. 0 \in T
  <2> SUFFICES ASSUME NEW t \in Seq(Seq(Word)), Len(t) = 0
               PROVE  Len(FlattenSeq(t)) = 3 * 0
    OBVIOUS
  <2>1. t = <<>>
    BY EmptySeq
  <2> QED
    BY <2>1, FlatOfNone, EmptySeq
<1>2. ASSUME NEW k \in Nat, k \in T
      PROVE  k + 1 \in T
  <2> SUFFICES ASSUME NEW t \in Seq(Seq(Word)), Len(t) = k + 1,
                      \A i \in 1 .. Len(t) : Len(t[i]) = 3
               PROVE  Len(FlattenSeq(t)) = 3 * (k + 1)
    OBVIOUS
  <2>1. t # <<>>
    BY EmptySeq
  <2>2. PICK u \in Seq(Seq(Word)), x \in Seq(Word) : t = Append(u, x)
    BY <2>1, SequenceEmptyOrAppend
  <2>3. /\ Len(u) \in Nat /\ Len(t) = Len(u) + 1 /\ t[Len(u) + 1] = x
        /\ \A i \in 1 .. Len(u) : t[i] = u[i]
    BY <2>2, LenProperties, AppendProperties
  <2>4. Len(u) = k /\ Len(x) = 3 /\ \A i \in 1 .. Len(u) : Len(u[i]) = 3
    <3>1. Len(u) = k
      BY <2>3
    <3>2. k + 1 \in 1 .. Len(t) /\ \A i \in 1 .. Len(u) : i \in 1 .. Len(t)
      BY <2>3
    <3> QED
      BY <2>3, <3>1, <3>2
  <2>5. Len(FlattenSeq(u)) = 3 * k
    BY <1>2, <2>4
  <2>6. FlattenSeq(t) = FlattenSeq(u) \o x
    BY <2>2, FlatAppend
  <2>7. Len(FlattenSeq(u) \o x) = Len(FlattenSeq(u)) + Len(x)
    BY FlatTyped, ConcatProperties
  <2> QED
    BY <2>4, <2>5, <2>6, <2>7
<1> HIDE DEF T
<1>3. Nat \subseteq T
  BY <1>1, <1>2, Inductive
<1>4. Len(s) \in T
  BY <1>3, LenProperties
<1> QED
  BY <1>4 DEF T

\* The i-th word of the k-th of them.
LEMMA FlatThird ==
  ASSUME NEW s \in Seq(Seq(Word)), \A i \in 1 .. Len(s) : Len(s[i]) = 3,
         NEW k \in 1 .. Len(s), NEW i \in 1 .. 3
  PROVE  FlattenSeq(s)[3 * (k - 1) + i] = s[k][i]
<1> DEFINE a == SubSeq(s, 1, k - 1)
           b == FlattenSeq(SubSeq(s, k + 1, Len(s)))
           x == s[k]
           xb == x \o b
           f == FlattenSeq(a)
<1>1. /\ a \in Seq(Seq(Word)) /\ b \in Seq(Word) /\ x \in Seq(Word) /\ Len(x) = 3
      /\ FlattenSeq(s) = f \o xb /\ f \in Seq(Word)
  BY FlatSplit, FlatTyped, ElementOfSeq
<1>2. Len(a) = k - 1 /\ \A j \in 1 .. Len(a) : Len(a[j]) = 3
  <2>1. Len(s) \in Nat /\ \A j \in 1 .. k - 1 : s[j] \in Seq(Word) /\ Len(s[j]) = 3 /\ 1 + j - 1 = j
    BY LenProperties, ElementOfSeq
  <2> DEFINE Y == Seq(Word)
             m == 1
             l == k - 1
  <2>2. m \in Int /\ l \in Int /\ (\A j \in m .. l : s[j] \in Y)
    BY <2>1
  <2>3. (IF m <= l THEN l - m + 1 ELSE 0) = k - 1 /\ l - m + 1 = k - 1
    BY <2>1
  <2>4. a = SubSeq(s, m, l)
    OBVIOUS
  <2>5. \A j \in 1 .. k - 1 : m + j - 1 = j
    OBVIOUS
  <2> HIDE DEF Y, m, l, a
  <2>6. /\ Len(SubSeq(s, m, l)) = IF m <= l THEN l - m + 1 ELSE 0
        /\ \A j \in 1 .. l - m + 1 : SubSeq(s, m, l)[j] = s[m + j - 1]
    BY <2>2, SubSeqProperties
  <2>7. Len(a) = k - 1 /\ \A j \in 1 .. k - 1 : a[j] = s[j]
    BY <2>3, <2>4, <2>5, <2>6
  <2> QED
    BY <2>1, <2>7
<1> HIDE DEF a, b, x
<1>3. Len(f) = 3 * (k - 1)
  BY <1>1, <1>2, FlatOfThrees
<1>4. /\ xb \in Seq(Word) /\ Len(xb) = 3 + Len(b) /\ Len(b) \in Nat
      /\ \A j \in 1 .. 3 + Len(b) : xb[j] = IF j <= 3 THEN x[j] ELSE b[j - 3]
  <2>1. /\ xb \in Seq(Word) /\ Len(xb) = Len(x) + Len(b) /\ Len(b) \in Nat
        /\ \A j \in 1 .. Len(x) + Len(b) : xb[j] = IF j <= Len(x) THEN x[j] ELSE b[j - Len(x)]
    BY <1>1, ConcatProperties, LenProperties
  <2> QED
    BY <1>1, <2>1
<1> HIDE DEF f, xb
<1>5. \A j \in 1 .. Len(f) + Len(xb) : (f \o xb)[j] = IF j <= Len(f) THEN f[j] ELSE xb[j - Len(f)]
  BY <1>1, <1>4, ConcatProperties
<1> DEFINE q == 3 * (k - 1) + i
<1>6. /\ q \in 1 .. Len(f) + Len(xb) /\ ~(q <= Len(f)) /\ q - Len(f) = i
      /\ i \in 1 .. 3 + Len(b) /\ i <= 3
  BY <1>3, <1>4
<1> HIDE DEF q
<1>7. (f \o xb)[q] = x[i]
  BY <1>4, <1>5, <1>6
<1> QED
  BY <1>1, <1>7 DEF q, x

Sayable == Names \cup {Blank, "own"}

\* The words of a username.
LEMMA NameTyped ==
  ASSUME NEW name \in Sayable, NEW first \in BOOLEAN
  PROVE  /\ NameWords(name, first) \in Seq(Word) /\ Len(NameWords(name, first)) = 3
         /\ NameWords(name, first)[1] = Ctor("username")
         /\ NameWords(name, first)[2].is = "flags"
         /\ NameWords(name, first)[3] = Data(name)
<1>1. /\ Ctor("username") \in Word /\ Data(name) \in Word
      /\ FlagsWord({"editable", "active"}) \in Word /\ FlagsWord({"active"}) \in Word
  BY WordsTyped, Said DEF Sayable
<1> DEFINE f == FlagsWord(IF first THEN {"editable", "active"} ELSE {"active"})
<1>2. f \in Word /\ f.is = "flags"
  BY <1>1, WordsAre
<1>3. NameWords(name, first) = <<Ctor("username"), f, Data(name)>>
  BY DEF NameWords
<1> HIDE DEF f
<1> QED
  BY <1>1, <1>2, <1>3

NamesOf(names) == [k \in DOMAIN names |-> NameWords(names[k], k = 1)]

\* The usernames of a list, three words each.
LEMMA NamesOfTyped ==
  ASSUME NEW names \in Seq(Sayable)
  PROVE  /\ NamesOf(names) \in Seq(Seq(Word)) /\ Len(NamesOf(names)) = Len(names)
         /\ \A k \in 1 .. Len(names) : /\ NamesOf(names)[k] = NameWords(names[k], k = 1)
                                       /\ Len(NamesOf(names)[k]) = 3
<1> DEFINE l == Len(names)
           f == NamesOf(names)
<1>1. l \in Nat /\ DOMAIN names = 1 .. l /\ \A k \in 1 .. l : names[k] \in Sayable
  BY LenProperties, ElementOfSeq
<1> HIDE DEF l
<1>2. f = [k \in 1 .. l |-> NameWords(names[k], k = 1)]
  BY <1>1 DEF NamesOf
<1>3. \A k \in 1 .. l : NameWords(names[k], k = 1) \in Seq(Word) /\ Len(NameWords(names[k], k = 1)) = 3
  BY <1>1, NameTyped
<1> HIDE DEF f
<1>4. f \in Seq(Seq(Word)) /\ Len(f) = l
  <2> DEFINE Y == Seq(Word)
  <2>1. f \in [1 .. l -> Y]
    BY <1>2, <1>3
  <2> HIDE DEF Y
  <2>2. f \in Seq(Y) /\ Len(f) = l
    BY <1>1, <2>1
  <2> QED
    BY <2>2 DEF Y
<1> QED
  BY <1>2, <1>3, <1>4 DEF l, f

\* A list: how long it is, and what stands where.
LEMMA ListingIs ==
  ASSUME NEW m \in Nat, NEW names \in Seq(Sayable)
  PROVE  /\ Listing(m, names) \in Seq(Word) /\ Len(Listing(m, names)) = 2 + 3 * Len(names)
         /\ Listing(m, names)[1] = VectorId /\ Listing(m, names)[2] = Number(m)
         /\ \A k \in 1 .. Len(names) :
              /\ Listing(m, names)[3 * k] = Ctor("username")
              /\ Listing(m, names)[3 * k + 1].is = "flags"
              /\ Listing(m, names)[3 * k + 2] = Data(names[k])
<1> DEFINE l == Len(names)
           s == NamesOf(names)
           f == FlattenSeq(s)
           h == <<VectorId, Number(m)>>
           w == Listing(m, names)
<1>1. /\ l \in Nat /\ s \in Seq(Seq(Word)) /\ Len(s) = l
      /\ \A k \in 1 .. l : /\ names[k] \in Sayable /\ s[k] = NameWords(names[k], k = 1)
                           /\ Len(s[k]) = 3
  BY NamesOfTyped, LenProperties, ElementOfSeq
<1>2. w = h \o f
  BY DEF Listing, NamesOf
<1>3. h \in Seq(Word) /\ Len(h) = 2 /\ h[1] = VectorId /\ h[2] = Number(m)
  BY WordsTyped
<1> HIDE DEF l, s, h, w
<1>4. f \in Seq(Word) /\ Len(f) = 3 * l
  <2>1. \A i \in 1 .. Len(s) : Len(s[i]) = 3
    BY <1>1
  <2> QED
    BY <1>1, <2>1, FlatTyped, FlatOfThrees
<1>5. /\ w \in Seq(Word) /\ Len(w) = Len(h) + Len(f)
      /\ \A j \in 1 .. Len(h) + Len(f) : w[j] = IF j <= Len(h) THEN h[j] ELSE f[j - Len(h)]
  BY <1>2, <1>3, <1>4, ConcatProperties
<1>6. Len(w) = 2 + 3 * l /\ w[1] = VectorId /\ w[2] = Number(m)
  BY <1>1, <1>3, <1>4, <1>5
<1>7. ASSUME NEW k \in 1 .. l
      PROVE  w[3 * k] = Ctor("username") /\ w[3 * k + 1].is = "flags" /\ w[3 * k + 2] = Data(names[k])
  <2>1. \A i \in 1 .. 3 : f[3 * (k - 1) + i] = s[k][i]
    <3>1. \A i \in 1 .. Len(s) : Len(s[i]) = 3
      BY <1>1
    <3> QED
      BY <1>1, <3>1, FlatThird
  <2>2. s[k][1] = Ctor("username") /\ s[k][2].is = "flags" /\ s[k][3] = Data(names[k])
    <3>1. (k = 1) \in BOOLEAN
      OBVIOUS
    <3>2. s[k] = NameWords(names[k], k = 1) /\ names[k] \in Sayable
      BY <1>1
    <3> QED
      BY <3>1, <3>2, NameTyped
  <2>3. \A i \in 1 .. 3 : w[3 * k - 1 + i] = f[3 * (k - 1) + i]
    <3> SUFFICES ASSUME NEW i \in 1 .. 3
                 PROVE  w[3 * k - 1 + i] = f[3 * (k - 1) + i]
      OBVIOUS
    <3> DEFINE j == 3 * k - 1 + i
    <3>1. j \in 1 .. Len(h) + Len(f) /\ ~(j <= Len(h)) /\ j - Len(h) = 3 * (k - 1) + i
      BY <1>1, <1>3, <1>4
    <3> HIDE DEF j
    <3>2. w[j] = f[j - Len(h)]
      BY <1>5, <3>1
    <3> QED
      BY <3>1, <3>2 DEF j
  <2>4. /\ 3 * k - 1 + 1 = 3 * k /\ 3 * k - 1 + 2 = 3 * k + 1 /\ 3 * k - 1 + 3 = 3 * k + 2
        /\ 1 \in 1 .. 3 /\ 2 \in 1 .. 3 /\ 3 \in 1 .. 3
    BY <1>1
  <2>5. w[3 * k] = s[k][1] /\ w[3 * k + 1] = s[k][2] /\ w[3 * k + 2] = s[k][3]
    BY <2>1, <2>3, <2>4
  <2> QED
    BY <2>2, <2>5
<1> QED
  BY <1>5, <1>6, <1>7 DEF w, l

\* A list from q to e that says it has m usernames, and has l, which begin at x.
ListAt(ws, q, m, l, x, e) ==
  /\ ListBegins(ws, q, m) /\ l \in Nat /\ x = q + 2 /\ e = x + 3 * l
  /\ \A j \in 0 .. l - 1 :
       /\ x + 3 * j + 2 <= Len(ws) /\ ws[x + 3 * j] = Ctor("username")
       /\ ws[x + 3 * j + 1].is = "flags"

\* Where a list occurs its usernames do.
LEMMA ListingPlace ==
  ASSUME NEW ws \in Seq(Word), NEW q \in Nat \ {0}, NEW m \in Nat, NEW names \in Seq(Sayable),
         Occurs(ws, q, Listing(m, names)), m <= MaxElements
  PROVE  ListAt(ws, q, m, Len(names), q + 2, q + Len(Listing(m, names)))
<1> DEFINE w == Listing(m, names)
           x == q + 2
           l == Len(names)
<1>1. /\ Len(w) = 2 + 3 * l /\ w[1] = VectorId /\ w[2] = Number(m) /\ l \in Nat /\ Len(ws) \in Nat
      /\ \A k \in 1 .. l : w[3 * k] = Ctor("username") /\ w[3 * k + 1].is = "flags"
  BY ListingIs, LenProperties
<1>2. Occurs(ws, q, w) /\ x = q + 2
  OBVIOUS
<1> HIDE DEF w, x, l
<1>8. q + Len(w) <= Len(ws) + 1 /\ \A k \in 0 .. Len(w) - 1 : ws[q + k] = w[k + 1]
  BY <1>2 DEF Occurs
<1>3. q + (2 + 3 * l) <= Len(ws) + 1 /\ \A k \in 0 .. 2 + 3 * l - 1 : ws[q + k] = w[k + 1]
  BY <1>1, <1>8
<1>4. ListBegins(ws, q, m)
  <2>1. 0 \in 0 .. 2 + 3 * l - 1 /\ 1 \in 0 .. 2 + 3 * l - 1 /\ q + 0 = q /\ 0 + 1 = 1 /\ 1 + 1 = 2
    BY <1>1
  <2>2. ws[q] = VectorId /\ ws[q + 1] = Number(m)
    BY <1>1, <1>3, <2>1
  <2>3. q + 1 <= Len(ws)
    BY <1>1, <1>3
  <2> QED
    BY <2>2, <2>3 DEF ListBegins
<1>5. ASSUME NEW j \in 0 .. l - 1
      PROVE  /\ x + 3 * j + 2 <= Len(ws) /\ ws[x + 3 * j] = Ctor("username")
             /\ ws[x + 3 * j + 1].is = "flags"
  <2> DEFINE a == 2 + 3 * j
             b == 3 + 3 * j
             k == j + 1
  <2>1. /\ a \in 0 .. 2 + 3 * l - 1 /\ b \in 0 .. 2 + 3 * l - 1 /\ q + a = x + 3 * j
        /\ q + b = x + 3 * j + 1 /\ a + 1 = 3 * k /\ b + 1 = 3 * k + 1 /\ k \in 1 .. l
        /\ x + 3 * j + 2 <= Len(ws)
    BY <1>1, <1>2, <1>3
  <2> HIDE DEF a, b, k
  <2>2. ws[q + a] = w[a + 1] /\ ws[q + b] = w[b + 1]
    BY <1>3, <2>1
  <2>3. w[3 * k] = Ctor("username") /\ w[3 * k + 1].is = "flags"
    BY <1>1, <2>1
  <2> QED
    BY <2>1, <2>2, <2>3
<1>6. x + 3 * l = q + Len(w)
  BY <1>1, <1>2
<1>7. ListAt(ws, q, m, l, x, q + Len(w))
  BY <1>1, <1>2, <1>4, <1>5, <1>6 DEF ListAt
<1> QED
  BY <1>7 DEF w, x, l

\* Where the emoji status of a user occurs.
LEMMA StatusPlace ==
  ASSUME NEW ws, NEW p \in Nat \ {0}, NEW status \in Kinds, Occurs(ws, p, StatusWords(status)),
         NEW q, q = p + Len(StatusWords(status))
  PROVE  /\ status = "alien" => ws[p] = Ctor("alien") /\ q = p + 2
         /\ status # "alien" => StatusIs(ws, p, q)
         /\ q <= Len(ws) + 1
<1>1. CASE status = "alien"
  <2>1. StatusWords(status) = <<Ctor("alien"), Data("own")>>
    BY <1>1 DEF StatusWords
  <2>2. Len(StatusWords(status)) = 2
    BY <2>1
  <2> QED
    <3>1. ws[p] = Ctor("alien") /\ p + 2 <= Len(ws) + 1
      BY <2>1, OccursTwo
    <3> QED
      BY <1>1, <2>2, <3>1
<1>2. CASE status = "emojiStatusEmpty"
  <2>1. StatusWords(status) = <<Ctor("emojiStatusEmpty")>>
    BY <1>2 DEF StatusWords
  <2>2. Len(StatusWords(status)) = 1
    BY <2>1
  <2>3. ws[p] = Ctor("emojiStatusEmpty") /\ p + 1 <= Len(ws) + 1
    BY <2>1, OccursOne
  <2> QED
    BY <1>2, <2>2, <2>3 DEF StatusIs
<1>3. CASE status = "until"
  <2> DEFINE f == FlagsWord({"until"})
  <2>1. StatusWords(status) = <<Ctor("emojiStatus"), f, Data("own"), Data("own")>>
    BY <1>3 DEF StatusWords
  <2>2. Len(StatusWords(status)) = 4 /\ "until" \in f.bits
    BY <2>1, WordsAre
  <2> HIDE DEF f
  <2>3. ws[p] = Ctor("emojiStatus") /\ ws[p + 1] = f /\ p + 4 <= Len(ws) + 1
    BY <2>1, OccursFour
  <2> QED
    BY <1>3, <2>2, <2>3 DEF StatusIs
<1>4. CASE status = "emojiStatus"
  <2> DEFINE f == FlagsWord({})
  <2>1. StatusWords(status) = <<Ctor("emojiStatus"), f, Data("own")>>
    BY <1>4 DEF StatusWords
  <2>2. Len(StatusWords(status)) = 3 /\ "until" \notin f.bits
    BY <2>1, WordsAre
  <2> HIDE DEF f
  <2>3. ws[p] = Ctor("emojiStatus") /\ ws[p + 1] = f /\ p + 3 <= Len(ws) + 1
    BY <2>1, OccursThree
  <2> QED
    BY <1>4, <2>2, <2>3 DEF StatusIs
<1> QED
  BY <1>1, <1>2, <1>3, <1>4 DEF Kinds

\* Where what a user has in front of its list occurs.
LEMMA OccursFourJoined ==
  ASSUME NEW ws \in Seq(Word), NEW p \in Nat \ {0}, NEW f \in Seq(Word), NEW g \in Seq(Word),
         NEW h \in Seq(Word), NEW s \in Seq(Word), Occurs(ws, p, Cat(Cat(Cat(f, g), h), s))
  PROVE  /\ Occurs(ws, p, f) /\ Occurs(ws, p + Len(f), g)
         /\ Occurs(ws, p + (Len(f) + Len(g)), h)
         /\ Occurs(ws, p + (Len(f) + Len(g) + Len(h)), s)
         /\ Len(Cat(Cat(Cat(f, g), h), s)) = Len(f) + Len(g) + Len(h) + Len(s)
<1> DEFINE fg == Cat(f, g)
           fgh == Cat(fg, h)
           all == Cat(fgh, s)
<1>1. fg \in Seq(Word)
  BY ConcatProperties DEF Cat
<1>2. fgh \in Seq(Word)
  BY <1>1, ConcatProperties DEF Cat
<1>3. Occurs(ws, p, all) /\ all = Cat(fgh, s) /\ fgh = Cat(fg, h) /\ fg = Cat(f, g)
  OBVIOUS
<1> HIDE DEF fg, fgh, all
<1>4. Occurs(ws, p, fgh) /\ Occurs(ws, p + Len(fgh), s) /\ Len(all) = Len(fgh) + Len(s)
  BY <1>2, <1>3, OccursJoined
<1>5. Occurs(ws, p, fg) /\ Occurs(ws, p + Len(fg), h) /\ Len(fgh) = Len(fg) + Len(h)
  <2>1. Occurs(ws, p, Cat(fg, h)) /\ fgh = Cat(fg, h)
    BY <1>3, <1>4
  <2>2. Occurs(ws, p, fg) /\ Occurs(ws, p + Len(fg), h) /\ Len(Cat(fg, h)) = Len(fg) + Len(h)
    BY <1>1, <2>1, OccursJoined
  <2> QED
    BY <2>1, <2>2
<1>6. Occurs(ws, p, f) /\ Occurs(ws, p + Len(f), g) /\ Len(fg) = Len(f) + Len(g)
  BY <1>3, <1>5, OccursJoined
<1> QED
  BY <1>4, <1>5, <1>6 DEF all, fgh, fg

StemAt(ws, p, bits, status, a, b, q) ==
  /\ ws[p] = Ctor("user") /\ ws[p + 1] = FlagsWord(bits) /\ ws[p + 2] = Data("id")
  /\ "first_name" \in bits => ws[p + 3] = Data("own")
  /\ "restriction_reason" \in bits =>
       /\ ws[a] = VectorId /\ ws[a + 1] = Number(1) /\ ws[a + 2] = Ctor("restrictionReason")
       /\ ws[a + 3] = Data("own")
  /\ a \in Nat \ {0} /\ b \in Nat \ {0} /\ q \in Nat \ {0}
  /\ p + 3 <= a /\ a <= b /\ b <= q /\ q <= Len(ws) + 1
  /\ q = b + Len(Status(bits, status)) /\ Occurs(ws, b, Status(bits, status))

\* What a user has in front of its list stands one part behind the other.
LEMMA StemParts ==
  ASSUME NEW ws \in Seq(Word), NEW p \in Nat \ {0}, NEW bits \in SUBSET UserField,
         NEW status \in Kinds, Occurs(ws, p, Stem(bits, status)),
         NEW a \in Nat, a = IF "first_name" \in bits THEN p + 4 ELSE p + 3,
         NEW b \in Nat, b = IF "restriction_reason" \in bits THEN a + 4 ELSE a,
         NEW q \in Nat, q = p + Len(Stem(bits, status))
  PROVE  StemAt(ws, p, bits, status, a, b, q)
<1> DEFINE f == First(bits)
           g == FirstName(bits)
           h == Reasons(bits)
           s == Status(bits, status)
<1>1. /\ f \in Seq(Word) /\ Len(f) = 3 /\ g \in Seq(Word) /\ h \in Seq(Word) /\ s \in Seq(Word)
      /\ Len(g) = (IF "first_name" \in bits THEN 1 ELSE 0)
      /\ Len(h) = (IF "restriction_reason" \in bits THEN 4 ELSE 0)
      /\ Len(s) \in Nat /\ Len(ws) \in Nat
  BY PartsTyped, LenProperties
<1>2. Occurs(ws, p, Cat(Cat(Cat(f, g), h), s))
  BY DEF Stem, Cat
<1>3. Stem(bits, status) = Cat(Cat(Cat(f, g), h), s)
  BY DEF Stem, Cat
<1> HIDE DEF f, g, h, s
<1>4. /\ Occurs(ws, p, f) /\ Occurs(ws, p + Len(f), g)
      /\ Occurs(ws, p + (Len(f) + Len(g)), h)
      /\ Occurs(ws, p + (Len(f) + Len(g) + Len(h)), s)
      /\ Len(Stem(bits, status)) = Len(f) + Len(g) + Len(h) + Len(s)
  <2>1. f \in Seq(Word) /\ g \in Seq(Word) /\ h \in Seq(Word) /\ s \in Seq(Word)
    BY <1>1
  <2>2. /\ Occurs(ws, p, f) /\ Occurs(ws, p + Len(f), g)
        /\ Occurs(ws, p + (Len(f) + Len(g)), h)
        /\ Occurs(ws, p + (Len(f) + Len(g) + Len(h)), s)
        /\ Len(Cat(Cat(Cat(f, g), h), s)) = Len(f) + Len(g) + Len(h) + Len(s)
    BY <1>2, <2>1, OccursFourJoined
  <2> QED
    BY <1>3, <2>2
<1>5. p + Len(f) = p + 3 /\ p + (Len(f) + Len(g)) = a
  BY <1>1
<1>6. p + (Len(f) + Len(g) + Len(h)) = b
  <2>1. p + (Len(f) + Len(g) + Len(h)) = a + Len(h)
    BY <1>1, <1>5
  <2> QED
    BY <1>1, <2>1
<1>8. q = b + Len(s)
  <2>1. Len(f) \in Nat /\ Len(g) \in Nat /\ Len(h) \in Nat /\ Len(s) \in Nat
    BY <1>1
  <2>2. q = p + (Len(f) + Len(g) + Len(h) + Len(s))
    BY <1>4
  <2>3. p + (Len(f) + Len(g) + Len(h) + Len(s)) = p + (Len(f) + Len(g) + Len(h)) + Len(s)
    BY <2>1
  <2> QED
    BY <1>6, <2>2, <2>3
<1>7. Occurs(ws, p, f) /\ Occurs(ws, p + 3, g) /\ Occurs(ws, a, h) /\ Occurs(ws, b, s)
  BY <1>4, <1>5, <1>6
<1>9. ws[p] = Ctor("user") /\ ws[p + 1] = FlagsWord(bits) /\ ws[p + 2] = Data("id")
  BY <1>7, OccursThree DEF f, First
<1>10. "first_name" \in bits => ws[p + 3] = Data("own")
  <2> DEFINE r == p + 3
  <2>1. r \in Nat /\ Occurs(ws, r, g)
    BY <1>7
  <2> HIDE DEF r
  <2>2. "first_name" \in bits => ws[r] = Data("own")
    BY <2>1, OccursOne DEF g, FirstName
  <2> QED
    BY <2>2 DEF r
<1>11. "restriction_reason" \in bits =>
         /\ ws[a] = VectorId /\ ws[a + 1] = Number(1) /\ ws[a + 2] = Ctor("restrictionReason")
         /\ ws[a + 3] = Data("own")
  BY <1>7, OccursFour DEF h, Reasons
<1>12. a \in Nat \ {0} /\ b \in Nat \ {0} /\ q \in Nat \ {0} /\ p + 3 <= a /\ a <= b /\ b <= q
  BY <1>1, <1>8
<1>13. q <= Len(ws) + 1 /\ Occurs(ws, b, s)
  <2>1. Occurs(ws, b, s)
    BY <1>7
  <2>2. b + Len(s) <= Len(ws) + 1
    BY <2>1 DEF Occurs
  <2> QED
    BY <1>8, <2>1, <2>2
<1> QED
  BY <1>8, <1>9, <1>10, <1>11, <1>12, <1>13 DEF s, StemAt

\* The walker takes that for the front of a user.
LEMMA StemPlace ==
  ASSUME NEW ws \in Seq(Word), NEW p \in Nat \ {0}, NEW bits \in SUBSET UserField,
         NEW status \in Kinds, Occurs(ws, p, Stem(bits, status)),
         NEW q, q = p + Len(Stem(bits, status)),
         NEW sure, sure = 0 \/ "emoji_status" \notin bits \/ status # "alien"
  PROVE  /\ PlaceIs(ws, p, bits, q, sure) /\ q \in Nat \ {0} /\ p < q /\ q <= Len(ws) + 1
         /\ bits \in SUBSET Text
<1> DEFINE a == IF "first_name" \in bits THEN p + 4 ELSE p + 3
           b == IF "restriction_reason" \in bits THEN a + 4 ELSE a
<1>6. a = IF "first_name" \in bits THEN p + 4 ELSE p + 3
  OBVIOUS
<1>7. b = IF "restriction_reason" \in bits THEN a + 4 ELSE a
  OBVIOUS
<1> HIDE DEF a, b
<1>1. /\ ws[p] = Ctor("user") /\ ws[p + 1] = FlagsWord(bits)
      /\ "restriction_reason" \in bits =>
           ws[a] = VectorId /\ ws[a + 1] = Number(1) /\ ws[a + 2] = Ctor("restrictionReason")
      /\ a \in Nat \ {0} /\ b \in Nat \ {0} /\ q \in Nat \ {0}
      /\ p + 3 <= a /\ a <= b /\ b <= q /\ q <= Len(ws) + 1
      /\ q = b + Len(Status(bits, status)) /\ Occurs(ws, b, Status(bits, status))
  <2>1. StemAt(ws, p, bits, status, a, b, q)
    BY <1>6, <1>7, StemParts
  <2> QED
    BY <2>1 DEF StemAt
<1>2. Len(ws) \in Nat /\ FlagsWord(bits).bits = bits /\ bits \in SUBSET Text
  BY LenProperties, WordsAre, Said
<1>3. HeadIs(ws, p, bits, b)
  <2>1. p + 2 <= Len(ws) /\ b <= Len(ws) + 1
    BY <1>1, <1>2
  <2>2. ws[p] = Ctor("user") /\ ws[p + 1].bits = bits
    BY <1>1, <1>2
  <2>3. "restriction_reason" \in bits =>
          ws[a] = VectorId /\ ws[a + 1] = Number(1) /\ ws[a + 2] = Ctor("restrictionReason")
    BY <1>1
  <2> QED
    BY <1>6, <1>7, <2>1, <2>2, <2>3 DEF HeadIs
<1>4. CASE "emoji_status" \notin bits
  <2>1. Status(bits, status) = <<>> /\ Len(<<>>) = 0
    BY <1>4 DEF Status
  <2>2. q = b
    BY <1>1, <2>1
  <2>3. b \in Nat
    BY <1>1
  <2>4. PlaceIs(ws, p, bits, q, sure)
    BY <1>3, <1>4, <2>2, <2>3 DEF PlaceIs
  <2> QED
    BY <1>1, <1>2, <2>4
<1>5. CASE "emoji_status" \in bits
  <2>1. Status(bits, status) = StatusWords(status)
    BY <1>5 DEF Status
  <2>2. q = b + Len(StatusWords(status)) /\ Occurs(ws, b, StatusWords(status))
    BY <1>1, <2>1
  <2>3. /\ status = "alien" => ws[b] = Ctor("alien")
        /\ status # "alien" => StatusIs(ws, b, q)
    BY <1>1, <2>2, StatusPlace
  <2>4. PlaceIs(ws, p, bits, q, sure)
    BY <1>1, <1>3, <1>5, <2>3 DEF PlaceIs
  <2> QED
    BY <1>1, <1>2, <2>4
<1> QED
  BY <1>4, <1>5

----------------------------------------------------------------------------
(* A whole user.                                                           *)

Bits(u, names) == u.has \cup (IF names = Genuine THEN {} ELSE {"usernames"})
Given(names) == IF names = Genuine THEN <<"own">> ELSE names
Shown(bits, names) ==
  IF "usernames" \in bits THEN Listing(Len(Given(names)), Given(names)) ELSE <<>>

\* A user is its stem, its list and its colour.
LEMMA UserIs ==
  ASSUME NEW u \in User, NEW names
  PROVE  UserWords(u, names) =
           Cat(Cat(Stem(Bits(u, names), u.status), Shown(Bits(u, names), names)), Color(Bits(u, names)))
<1> DEFINE bits == Bits(u, names)
<1>1. UserWords(u, names) =
        First(bits) \o FirstName(bits) \o Reasons(bits) \o Status(bits, u.status)
        \o Shown(bits, names) \o Color(bits)
  BY DEF UserWords, First, FirstName, Reasons, Status, Shown, Color, Bits, Given, Listing, NamesWords
<1> HIDE DEF bits
<1>2. First(bits) \o FirstName(bits) \o Reasons(bits) \o Status(bits, u.status)
        \o Shown(bits, names) \o Color(bits)
      = Cat(Cat(Stem(bits, u.status), Shown(bits, names)), Color(bits))
  BY DEF Stem, Cat
<1> QED
  BY <1>1, <1>2 DEF bits

\* The parts of a user are words.
LEMMA UserFacts ==
  ASSUME NEW u \in User, NEW names, Given(names) \in Seq(Sayable)
  PROVE  /\ u.status \in Kinds /\ u.has \in SUBSET UserField
         /\ Bits(u, names) \in SUBSET UserField /\ Bits(u, names) \in SUBSET Text
         /\ \A f \in UserField \ {"usernames"} : f \in Bits(u, names) <=> f \in u.has
         /\ Stem(Bits(u, names), u.status) \in Seq(Word)
         /\ Shown(Bits(u, names), names) \in Seq(Word)
         /\ Color(Bits(u, names)) \in Seq(Word)
         /\ UserWords(u, names) \in Seq(Word)
<1> DEFINE bits == Bits(u, names)
           status == u.status
<1>1. status \in Kinds /\ u.has \in SUBSET UserField
  BY DEF User, Kinds
<1>2. bits \in SUBSET UserField /\ \A f \in UserField \ {"usernames"} : f \in bits <=> f \in u.has
  BY <1>1 DEF Bits, UserField
<1>3. bits \in SUBSET Text
  BY <1>2, Said
<1> HIDE DEF bits, status
<1>4. Stem(bits, status) \in Seq(Word)
  <2> DEFINE f == First(bits)
             g == FirstName(bits)
             h == Reasons(bits)
             s == Status(bits, status)
             fg == f \o g
             fgh == fg \o h
  <2>1. f \in Seq(Word) /\ g \in Seq(Word) /\ h \in Seq(Word) /\ s \in Seq(Word)
    BY <1>1, <1>2, PartsTyped DEF status
  <2>2. Stem(bits, status) = fgh \o s
    BY DEF Stem
  <2> HIDE DEF f, g, h, s
  <2>3. fg \in Seq(Word)
    BY <2>1, ConcatProperties
  <2> HIDE DEF fg
  <2>4. fgh \in Seq(Word)
    BY <2>1, <2>3, ConcatProperties
  <2> HIDE DEF fgh
  <2> QED
    BY <2>1, <2>2, <2>4, ConcatProperties
<1>5. Shown(bits, names) \in Seq(Word)
  <2>1. Len(Given(names)) \in Nat
    BY LenProperties
  <2>2. <<>> \in Seq(Word)
    OBVIOUS
  <2> QED
    BY <2>1, <2>2, ListingIs DEF Shown
<1>6. Color(bits) \in Seq(Word)
  BY <1>1, <1>2, PartsTyped DEF status
<1>7. UserWords(u, names) \in Seq(Word)
  <2> DEFINE a == Stem(bits, status)
             b == Shown(bits, names)
             c == Color(bits)
             ab == Cat(a, b)
  <2>1. a \in Seq(Word) /\ b \in Seq(Word) /\ c \in Seq(Word)
    BY <1>4, <1>5, <1>6
  <2>2. UserWords(u, names) = Cat(ab, c)
    BY UserIs DEF bits, status
  <2> HIDE DEF a, b, c
  <2>3. ab \in Seq(Word)
    BY <2>1, ConcatProperties DEF Cat
  <2> HIDE DEF ab
  <2> QED
    BY <2>1, <2>2, <2>3, ConcatProperties DEF Cat
<1> QED
  BY <1>1, <1>2, <1>3, <1>4, <1>5, <1>6, <1>7 DEF bits, status

\* Where a user occurs: its stem up to q, its list up to e, its colour up to z.
UserAt(ws, p, u, names, q, e, z) ==
  /\ q = p + Len(Stem(Bits(u, names), u.status)) /\ q \in Nat
  /\ e = q + Len(Shown(Bits(u, names), names)) /\ e \in Nat
  /\ z = e + Len(Color(Bits(u, names))) /\ z \in Nat
  /\ Occurs(ws, p, Stem(Bits(u, names), u.status))
  /\ Occurs(ws, q, Shown(Bits(u, names), names))
  /\ Occurs(ws, e, Color(Bits(u, names)))

\* Where a user occurs, they do.
LEMMA UserParts ==
  ASSUME NEW ws \in Seq(Word), NEW p \in Nat \ {0}, NEW u \in User, NEW names,
         Given(names) \in Seq(Sayable), Occurs(ws, p, UserWords(u, names))
  PROVE  \E q, e, z \in Nat :
           UserAt(ws, p, u, names, q, e, z) /\ z = p + Len(UserWords(u, names)) /\ z <= Len(ws) + 1
<1> DEFINE a == Stem(Bits(u, names), u.status)
           b == Shown(Bits(u, names), names)
           c == Color(Bits(u, names))
           ab == Cat(a, b)
           abc == Cat(ab, c)
           q == p + Len(a)
           e == q + Len(b)
           z == e + Len(c)
<1>1. a \in Seq(Word) /\ b \in Seq(Word) /\ c \in Seq(Word)
  BY UserFacts
<1>2. abc = UserWords(u, names) /\ Occurs(ws, p, abc)
  BY UserIs
<1> HIDE DEF a, b, c
<1>3. ab \in Seq(Word) /\ Len(a) \in Nat /\ Len(b) \in Nat /\ Len(c) \in Nat
  BY <1>1, ConcatProperties, LenProperties DEF Cat
<1>4. Occurs(ws, p, Cat(ab, c)) /\ abc = Cat(ab, c)
  BY <1>2
<1> HIDE DEF ab, abc
<1>5. Occurs(ws, p, ab) /\ Occurs(ws, p + Len(ab), c) /\ Len(Cat(ab, c)) = Len(ab) + Len(c)
  BY <1>1, <1>3, <1>4, OccursJoined
<1>6. Occurs(ws, p, Cat(a, b)) /\ ab = Cat(a, b)
  BY <1>5 DEF ab
<1>7. Occurs(ws, p, a) /\ Occurs(ws, p + Len(a), b) /\ Len(Cat(a, b)) = Len(a) + Len(b)
  BY <1>1, <1>6, OccursJoined
<1>8. q \in Nat /\ e \in Nat /\ z \in Nat /\ p + Len(ab) = e /\ p + Len(abc) = z
  BY <1>3, <1>4, <1>5, <1>6, <1>7
<1>9. Occurs(ws, q, b) /\ Occurs(ws, e, c)
  BY <1>5, <1>7, <1>8
<1>10. z <= Len(ws) + 1
  <2>1. p + Len(abc) <= Len(ws) + 1
    BY <1>2 DEF Occurs
  <2> QED
    BY <1>8, <2>1
<1> HIDE DEF q, e, z
<1>11. q = p + Len(a) /\ e = q + Len(b) /\ z = e + Len(c)
  BY DEF q, e, z
<1>12. UserAt(ws, p, u, names, q, e, z)
  BY <1>7, <1>8, <1>9, <1>11 DEF UserAt, a, b, c
<1> QED
  BY <1>2, <1>8, <1>10, <1>12

\* A user is an element of a vector, whatever list it has been given.
LEMMA UserPlaced ==
  ASSUME NEW ws \in Seq(Word), NEW p \in Nat \ {0}, NEW u \in User, NEW names,
         Given(names) \in Seq(Sayable), Len(Given(names)) <= MaxElements,
         Occurs(ws, p, UserWords(u, names)),
         NEW sure, sure = 0 \/ "emoji_status" \notin u.has \/ u.status # "alien"
  PROVE  Item(ws, p, p + Len(UserWords(u, names)), 4, sure)
<1>1. PICK q, e, z \in Nat :
        UserAt(ws, p, u, names, q, e, z) /\ z = p + Len(UserWords(u, names)) /\ z <= Len(ws) + 1
  BY UserParts
<1> DEFINE bits == Bits(u, names)
           status == u.status
           l == Len(Given(names))
<1>2. /\ bits \in SUBSET UserField /\ status \in Kinds /\ bits \in SUBSET Text /\ l \in Nat
      /\ sure = 0 \/ "emoji_status" \notin bits \/ status # "alien"
      /\ l <= MaxElements
  <2>1. "emoji_status" \in UserField \ {"usernames"}
    BY DEF UserField
  <2> QED
    BY <2>1, UserFacts, LenProperties
<1>3. /\ q = p + Len(Stem(bits, status)) /\ Occurs(ws, p, Stem(bits, status))
      /\ e = q + Len(Shown(bits, names)) /\ Occurs(ws, q, Shown(bits, names))
      /\ z = e + Len(Color(bits))
  BY <1>1 DEF UserAt
<1> HIDE DEF bits, status, l
<1>4. PlaceIs(ws, p, bits, q, sure) /\ q \in Nat \ {0} /\ p < q /\ q <= Len(ws) + 1
  BY <1>2, <1>3, StemPlace
<1>5. IF "usernames" \in bits THEN ListBegins(ws, q, l) /\ Row(ws, q + 2, l, e, 20, 1) ELSE e = q
  <2>1. CASE "usernames" \in bits
    <3>1. Shown(bits, names) = Listing(l, Given(names))
      BY <2>1 DEF Shown, l
    <3> DEFINE ns == Given(names)
               x == q + 2
    <3>2. ns \in Seq(Sayable) /\ l = Len(ns) /\ Occurs(ws, q, Listing(l, ns)) /\ x \in Nat \ {0}
      BY <1>3, <1>4, <3>1 DEF l
    <3> HIDE DEF ns
    <3>3. ListAt(ws, q, l, l, x, q + Len(Listing(l, ns)))
      BY <1>2, <1>4, <3>2, ListingPlace
    <3> HIDE DEF x
    <3>4. /\ ListBegins(ws, q, l) /\ x = q + 2 /\ x + 3 * l = q + Len(Listing(l, ns))
          /\ \A j \in 0 .. l - 1 : x + 3 * j + 2 <= Len(ws) /\ ws[x + 3 * j] = Ctor("username")
      BY <3>3 DEF ListAt
    <3>5. Row(ws, x, l, x + 3 * l, 20, 1)
      BY <1>2, <3>2, <3>4, UsernameRow
    <3>6. x + 3 * l = e
      BY <1>3, <3>1, <3>4 DEF ns
    <3> QED
      BY <2>1, <3>4, <3>5, <3>6
  <2>2. CASE "usernames" \notin bits
    <3>1. Shown(bits, names) = <<>> /\ Len(<<>>) = 0
      BY <2>2 DEF Shown
    <3> QED
      BY <1>3, <2>2, <3>1
  <2> QED
    BY <2>1, <2>2
<1>6. z = (IF "color" \in bits THEN e + 1 ELSE e) /\ ("color" \in bits => e <= Len(ws))
  <2>1. Len(Color(bits)) = IF "color" \in bits THEN 1 ELSE 0
    BY <1>2, PartsTyped
  <2>2. Len(ws) \in Nat
    BY LenProperties
  <2> QED
    BY <1>1, <1>3, <2>1, <2>2
<1>7. Item(ws, p, z, 4, sure)
  BY <1>2, <1>4, <1>5, <1>6, UserItem
<1> QED
  BY <1>1, <1>7

----------------------------------------------------------------------------
(* The users of a reply.                                                   *)

\* The words of users; sure is 0 if the validator may fail in one.
Placeable(sure) ==
  {xs \in Seq(Word) : \E u \in User : \E names :
     /\ Given(names) \in Seq(Sayable) /\ Len(Given(names)) <= MaxElements
     /\ xs = UserWords(u, names)
     /\ sure = 0 \/ "emoji_status" \notin u.has \/ u.status # "alien"}

\* Users, one behind the other, are a row of elements.
LEMMA UsersRow ==
  ASSUME NEW ws \in Seq(Word), NEW p \in Nat \ {0}, NEW sure
  PROVE  \A s \in Seq(Placeable(sure)) :
           Occurs(ws, p, FlattenSeq(s)) => Row(ws, p, Len(s), p + Len(FlattenSeq(s)), 4, sure)
<1> DEFINE Y == Placeable(sure)
           T == {k \in Nat : \A s \in Seq(Y) :
                   Len(s) = k /\ Occurs(ws, p, FlattenSeq(s)) =>
                     Row(ws, p, k, p + Len(FlattenSeq(s)), 4, sure)}
<1>1. 0 \in T
  <2> SUFFICES ASSUME NEW s \in Seq(Y), Len(s) = 0
               PROVE  Row(ws, p, 0, p + Len(FlattenSeq(s)), 4, sure)
    OBVIOUS
  <2>1. s = <<>>
    BY EmptySeq
  <2>2. p + Len(FlattenSeq(s)) = p
    BY <2>1, FlatOfNone, EmptySeq
  <2> QED
    BY <2>2, RowOfNone
<1>2. ASSUME NEW k \in Nat, k \in T
      PROVE  k + 1 \in T
  <2> SUFFICES ASSUME NEW s \in Seq(Y), Len(s) = k + 1, Occurs(ws, p, FlattenSeq(s))
               PROVE  Row(ws, p, k + 1, p + Len(FlattenSeq(s)), 4, sure)
    OBVIOUS
  <2> HIDE DEF Y
  <2>1. s # <<>>
    BY EmptySeq
  <2>2. PICK t \in Seq(Y), x \in Y : s = Append(t, x)
    BY <2>1, SequenceEmptyOrAppend
  <2>3. Len(t) = k
    <3>1. Len(t) \in Nat /\ Len(s) = Len(t) + 1
      BY <2>2, LenProperties, AppendProperties
    <3> QED
      BY <3>1
  <2>4. x \in Seq(Word) /\ t \in Seq(Seq(Word))
    <3>1. Y \subseteq Seq(Word)
      BY DEF Y, Placeable
    <3> QED
      BY <2>2, <3>1, SeqMonotonic
  <2> DEFINE a == FlattenSeq(t)
             b == Cat(a, x)
  <2>5. FlattenSeq(s) = b
    BY <2>2, <2>4, FlatAppend DEF Cat
  <2>6. a \in Seq(Word)
    BY <2>4, FlatTyped
  <2>7. b = Cat(a, x) /\ Occurs(ws, p, Cat(a, x))
    BY <2>5
  <2>8. Occurs(ws, p, a) => Row(ws, p, k, p + Len(a), 4, sure)
    BY <1>2, <2>3
  <2> HIDE DEF a, b
  <2>9. /\ Occurs(ws, p, a) /\ Occurs(ws, p + Len(a), x)
        /\ p + Len(a) \in Nat \ {0} /\ Len(Cat(a, x)) = Len(a) + Len(x)
    BY <2>4, <2>6, <2>7, OccursJoined
  <2> DEFINE q == p + Len(a)
             e == q + Len(x)
  <2>10. q \in Nat \ {0} /\ Occurs(ws, q, x) /\ p + Len(b) = e
    <3>1. Len(a) \in Nat /\ Len(x) \in Nat /\ Len(b) = Len(a) + Len(x)
      BY <2>4, <2>6, <2>7, <2>9, LenProperties
    <3> QED
      BY <2>9, <3>1
  <2>11. Item(ws, q, e, 4, sure)
    <3>3. PICK u \in User :
            \E names : /\ Given(names) \in Seq(Sayable) /\ Len(Given(names)) <= MaxElements
                       /\ x = UserWords(u, names)
                       /\ sure = 0 \/ "emoji_status" \notin u.has \/ u.status # "alien"
      BY <2>2 DEF Y, Placeable
    <3>1. PICK names :
            /\ Given(names) \in Seq(Sayable) /\ Len(Given(names)) <= MaxElements
            /\ x = UserWords(u, names)
            /\ sure = 0 \/ "emoji_status" \notin u.has \/ u.status # "alien"
      BY <3>3
    <3> HIDE DEF q
    <3>2. Item(ws, q, q + Len(UserWords(u, names)), 4, sure)
      BY <2>10, <3>1, UserPlaced
    <3> QED
      BY <3>1, <3>2
  <2> DEFINE one == 1
             d == 4
  <2>12. Row(ws, p, k, q, d, sure)
    BY <2>8, <2>9
  <2>13. Row(ws, q, one, e, d, sure)
    <3> HIDE DEF q, e, d
    <3>1. Row(ws, q, 1, e, d, sure)
      BY <2>11, RowOfOne DEF d
    <3> QED
      BY <3>1
  <2>14. one \in Nat /\ one = 1
    OBVIOUS
  <2> HIDE DEF q, e, d, one
  <2>15. Row(ws, p, k + one, e, d, sure)
    BY <2>12, <2>13, <2>14, RowsJoin
  <2> QED
    BY <2>5, <2>10, <2>14, <2>15 DEF d
<1> HIDE DEF T
<1>3. Nat \subseteq T
  BY <1>1, <1>2, Inductive
<1>4. \A s \in Seq(Y) : Len(s) \in T
  <2> HIDE DEF Y
  <2> QED
    BY <1>3, LenProperties
<1> QED
  BY <1>4 DEF T

\* Sequences that agree on a stretch have it in common.
LEMMA SubSeqSame ==
  ASSUME NEW Y, NEW s, NEW t, NEW m \in Int, NEW l \in Int,
         \A j \in m .. l : s[j] \in Y /\ t[j] = s[j]
  PROVE  SubSeq(s, m, l) \in Seq(Y) /\ SubSeq(s, m, l) = SubSeq(t, m, l)
<1> DEFINE a == SubSeq(s, m, l)
           b == SubSeq(t, m, l)
<1>1. \A j \in m .. l : s[j] \in Y
  OBVIOUS
<1>2. \A j \in m .. l : t[j] \in Y
  OBVIOUS
<1>3. a \in Seq(Y) /\ Len(a) = (IF m <= l THEN l - m + 1 ELSE 0)
      /\ \A j \in 1 .. l - m + 1 : a[j] = s[m + j - 1]
  BY <1>1, SubSeqProperties
<1>4. b \in Seq(Y) /\ Len(b) = (IF m <= l THEN l - m + 1 ELSE 0)
      /\ \A j \in 1 .. l - m + 1 : b[j] = t[m + j - 1]
  BY <1>2, SubSeqProperties
<1>5. Len(a) = Len(b)
  BY <1>3, <1>4
<1>6. ASSUME NEW j \in 1 .. Len(a)
      PROVE  a[j] = b[j]
  <2>1. j \in 1 .. l - m + 1 /\ m + j - 1 \in m .. l
    BY <1>3
  <2> QED
    BY <1>3, <1>4, <2>1
<1> HIDE DEF a, b
<1>7. a = b
  BY <1>3, <1>4, <1>5, <1>6, SeqEqual
<1> QED
  BY <1>3, <1>7 DEF a, b

\* A reply: what stands in front of its users, and its users.
Opening(r) ==
  (IF r.boxed THEN <<Ctor("userFull"), Data("about")>> ELSE <<>>)
  \o <<VectorId, Number(Len(r.users))>>
Members(r, names) ==
  [i \in DOMAIN r.users |->
     UserWords(r.users[i], IF "self" \in r.users[i].has THEN names ELSE Genuine)]

Recognised(r) ==
  \A i \in DOMAIN r.users : "emoji_status" \notin r.users[i].has \/ r.users[i].status # "alien"

\* What is assumed of a reply.
LEMMA ReplyFacts ==
  ASSUME NEW r \in UserReplies
  PROVE  /\ r.users \in Seq(User) /\ Len(r.users) \in Nat /\ DOMAIN r.users = 1 .. Len(r.users)
         /\ \A i \in 1 .. Len(r.users) : r.users[i] \in User
         /\ r.boxed \in BOOLEAN /\ r.slack \in Nat /\ r.ref \in {1, 2}
         /\ Len(r.users) <= MaxElements
<1>1. r.users \in Seq(User) /\ r.boxed \in BOOLEAN /\ r.slack \in Nat /\ r.ref \in {1, 2}
      /\ Len(r.users) <= MaxElements
  BY UserRepliesAssumption
<1> QED
  BY <1>1, LenProperties, ElementOfSeq

\* The list a user came with is a list.
LEMMA GivenGenuine == Given(Genuine) \in Seq(Sayable) /\ Len(Given(Genuine)) <= MaxElements
BY DEF Given, Sayable, MaxElements

\* The users of a reply are words, however long a list is given.
LEMMA MembersWords ==
  ASSUME NEW r \in UserReplies, NEW names, Given(names) \in Seq(Sayable)
  PROVE  /\ Members(r, names) \in Seq(Seq(Word)) /\ Len(Members(r, names)) = Len(r.users)
         /\ \A i \in 1 .. Len(r.users) :
              /\ Members(r, names)[i] \in Seq(Word)
              /\ Members(r, names)[i] =
                   UserWords(r.users[i], IF "self" \in r.users[i].has THEN names ELSE Genuine)
<1> DEFINE l == Len(r.users)
           f == Members(r, names)
           Y == Seq(Word)
<1>1. f = [i \in 1 .. l |-> UserWords(r.users[i], IF "self" \in r.users[i].has THEN names ELSE Genuine)]
  BY ReplyFacts DEF Members
<1>2. ASSUME NEW i \in 1 .. l
      PROVE  UserWords(r.users[i], IF "self" \in r.users[i].has THEN names ELSE Genuine) \in Y
  <2> DEFINE u == r.users[i]
             ns == IF "self" \in r.users[i].has THEN names ELSE Genuine
  <2>1. u \in User /\ Given(ns) \in Seq(Sayable)
    BY ReplyFacts, GivenGenuine
  <2> HIDE DEF u, ns
  <2>2. UserWords(u, ns) \in Y
    BY <2>1, UserFacts
  <2> QED
    BY <2>2 DEF u, ns
<1>3. l \in Nat
  BY ReplyFacts
<1> HIDE DEF l, f, Y
<1>4. f \in [1 .. l -> Y]
  BY <1>1, <1>2
<1>5. f \in Seq(Y) /\ Len(f) = l
  BY <1>3, <1>4
<1>6. \A i \in 1 .. l : f[i] \in Y
                        /\ f[i] = UserWords(r.users[i], IF "self" \in r.users[i].has
                                                             THEN names ELSE Genuine)
  BY <1>1, <1>2
<1> QED
  BY <1>5, <1>6 DEF l, f, Y

\* The users of a reply, in words.
LEMMA MembersTyped ==
  ASSUME NEW r \in UserReplies, NEW names, Given(names) \in Seq(Sayable),
         Len(Given(names)) <= MaxElements, NEW sure, sure = 0 \/ Recognised(r)
  PROVE  /\ Members(r, names) \in Seq(Placeable(sure)) /\ Len(Members(r, names)) = Len(r.users)
         /\ \A i \in 1 .. Len(r.users) : Members(r, names)[i] \in Placeable(sure)
<1> DEFINE l == Len(r.users)
           f == Members(r, names)
           Y == Placeable(sure)
<1>1. f \in Seq(Seq(Word)) /\ Len(f) = l /\ l \in Nat
  BY MembersWords, ReplyFacts
<1>2. ASSUME NEW i \in 1 .. l
      PROVE  f[i] \in Y
  <2> DEFINE u == r.users[i]
             ns == IF "self" \in r.users[i].has THEN names ELSE Genuine
  <2>1. u \in User /\ Given(ns) \in Seq(Sayable) /\ Len(Given(ns)) <= MaxElements
    BY ReplyFacts, GivenGenuine
  <2>2. sure = 0 \/ "emoji_status" \notin u.has \/ u.status # "alien"
    BY ReplyFacts DEF Recognised
  <2>3. f[i] = UserWords(u, ns) /\ f[i] \in Seq(Word)
    BY MembersWords
  <2> HIDE DEF u, ns, f
  <2> QED
    BY <2>1, <2>2, <2>3 DEF Placeable
<1> HIDE DEF l, f, Y
<1>3. f \in Seq(Y)
  BY <1>1, <1>2
<1> QED
  BY <1>1, <1>2, <1>3 DEF l, f, Y

\* What stands in front of them.
LEMMA FrontTyped ==
  ASSUME NEW r \in UserReplies
  PROVE  /\ Opening(r) \in Seq(Word) /\ Len(Opening(r)) = (IF r.boxed THEN 4 ELSE 2)
         /\ IF r.boxed
              THEN /\ Opening(r)[1] = Ctor("userFull") /\ Opening(r)[2] = Data("about")
                   /\ Opening(r)[3] = VectorId /\ Opening(r)[4] = Number(Len(r.users))
              ELSE Opening(r)[1] = VectorId /\ Opening(r)[2] = Number(Len(r.users))
<1> DEFINE l == Len(r.users)
           v == VectorId
           m == Number(l)
           c == Ctor("userFull")
           d == Data("about")
<1>1. v \in Word /\ m \in Word /\ c \in Word /\ d \in Word
  BY ReplyFacts, WordsTyped, Said
<1>2. Opening(r) = (IF r.boxed THEN <<c, d>> ELSE <<>>) \o <<v, m>>
  BY DEF Opening
<1> HIDE DEF v, m, c, d
<1>3. Opening(r) = IF r.boxed THEN <<c, d, v, m>> ELSE <<v, m>>
  <2>1. <<c, d>> \o <<v, m>> = <<c, d, v, m>>
    <3> DEFINE cd == <<c, d>>
               vm == <<v, m>>
               t == <<c, d, v, m>>
    <3>1. /\ cd \in Seq(Word) /\ Len(cd) = 2 /\ cd[1] = c /\ cd[2] = d
          /\ vm \in Seq(Word) /\ Len(vm) = 2 /\ vm[1] = v /\ vm[2] = m
          /\ t \in Seq(Word) /\ Len(t) = 4 /\ t[1] = c /\ t[2] = d /\ t[3] = v /\ t[4] = m
      BY <1>1
    <3> HIDE DEF cd, vm, t
    <3>2. /\ cd \o vm \in Seq(Word) /\ Len(cd \o vm) = Len(cd) + Len(vm)
          /\ \A i \in 1 .. Len(cd) + Len(vm) :
               (cd \o vm)[i] = IF i <= Len(cd) THEN cd[i] ELSE vm[i - Len(cd)]
      BY <3>1, ConcatProperties
    <3>3. \A i \in 1 .. 4 : (cd \o vm)[i] = t[i]
      BY <3>1, <3>2
    <3>4. cd \o vm = t
      BY <3>1, <3>2, <3>3, SeqEqual
    <3> QED
      BY <3>4 DEF cd, vm, t
  <2>2. <<>> \o <<v, m>> = <<v, m>>
    <3>1. <<v, m>> \in Seq(Word)
      BY <1>1
    <3> QED
      BY <3>1, ConcatEmptySeq
  <2> QED
    BY <1>2, <2>1, <2>2
<1>4. CASE r.boxed
  <2> DEFINE t == <<c, d, v, m>>
  <2>1. t \in Seq(Word) /\ Len(t) = 4 /\ t[1] = c /\ t[2] = d /\ t[3] = v /\ t[4] = m
    BY <1>1
  <2>2. Opening(r) = t
    BY <1>3, <1>4
  <2> HIDE DEF t
  <2> QED
    BY <1>4, <2>1, <2>2 DEF c, d, v, m
<1>5. CASE ~r.boxed
  <2> DEFINE t == <<v, m>>
  <2>1. t \in Seq(Word) /\ Len(t) = 2 /\ t[1] = v /\ t[2] = m
    BY <1>1
  <2>2. Opening(r) = t
    BY <1>3, <1>5
  <2> HIDE DEF t
  <2> QED
    BY <1>5, <2>1, <2>2 DEF v, m
<1> QED
  BY <1>4, <1>5

\* Both are the reply.
LEMMA ReplyIs ==
  ASSUME NEW r, NEW names
  PROVE  ReplyWords(r, names) = Cat(Opening(r), FlattenSeq(Members(r, names)))
BY DEF ReplyWords, Cat, Opening, Members

\* Users give words.
LEMMA PlaceableWords ==
  ASSUME NEW sure, NEW s \in Seq(Placeable(sure))
  PROVE  s \in Seq(Seq(Word)) /\ FlattenSeq(s) \in Seq(Word)
<1>1. Placeable(sure) \subseteq Seq(Word)
  BY DEF Placeable
<1>2. s \in Seq(Seq(Word))
  BY <1>1, SeqMonotonic
<1> QED
  BY <1>2, FlatTyped

\* A reply is words.
LEMMA ReplyTyped ==
  ASSUME NEW r \in UserReplies, NEW names, Given(names) \in Seq(Sayable)
  PROVE  ReplyWords(r, names) \in Seq(Word)
<1>3. FlattenSeq(Members(r, names)) \in Seq(Word)
  BY MembersWords, FlatTyped
<1> DEFINE a == Opening(r)
           b == FlattenSeq(Members(r, names))
<1>4. a \in Seq(Word)
  BY FrontTyped
<1>5. ReplyWords(r, names) = a \o b
  BY ReplyIs DEF Cat
<1> HIDE DEF a
<1> QED
  BY <1>3, <1>4, <1>5, ConcatProperties

\* Three sequences, one behind the other.
LEMMA CatTyped ==
  ASSUME NEW a \in Seq(Word), NEW b \in Seq(Word)
  PROVE  /\ Cat(a, b) \in Seq(Word) /\ Len(Cat(a, b)) = Len(a) + Len(b)
         /\ Len(a) \in Nat /\ Len(b) \in Nat
         /\ \A i \in 1 .. Len(a) + Len(b) : Cat(a, b)[i] = IF i <= Len(a) THEN a[i] ELSE b[i - Len(a)]
BY ConcatProperties, LenProperties DEF Cat

\* How they are grouped does not matter.
LEMMA CatAssociative ==
  ASSUME NEW a \in Seq(Word), NEW b \in Seq(Word), NEW c \in Seq(Word)
  PROVE  Cat(Cat(a, b), c) = Cat(a, Cat(b, c))
BY ConcatAssociative DEF Cat

\* The users in front of one, and those behind it.
Before(r, i) == SubSeq(Members(r, Genuine), 1, i - 1)
After(r, i) == SubSeq(Members(r, Genuine), i + 1, Len(r.users))

\* The users before one and behind it are users as they came.
LEMMA AroundTyped ==
  ASSUME NEW r \in UserReplies, NEW i \in 1 .. Len(r.users),
         NEW sure, sure = 0 \/ Recognised(r)
  PROVE  /\ Before(r, i) \in Seq(Placeable(sure)) /\ Len(Before(r, i)) = i - 1
         /\ \A j \in 1 .. i - 1 : Before(r, i)[j] = UserWords(r.users[j], Genuine)
         /\ After(r, i) \in Seq(Placeable(sure)) /\ Len(After(r, i)) = Len(r.users) - i
         /\ \A j \in 1 .. Len(r.users) - i : After(r, i)[j] = UserWords(r.users[i + j], Genuine)
<1> DEFINE l == Len(r.users)
           f == Members(r, Genuine)
           Y == Placeable(sure)
           a == SubSeq(f, 1, i - 1)
           b == SubSeq(f, i + 1, l)
<1>1. /\ f \in Seq(Y) /\ Len(f) = l /\ l \in Nat
      /\ \A j \in 1 .. l : f[j] \in Y /\ f[j] = UserWords(r.users[j], Genuine)
  <2>1. \A u : (IF "self" \in r.users[u].has THEN Genuine ELSE Genuine) = Genuine
    OBVIOUS
  <2> QED
    BY <2>1, MembersTyped, MembersWords, GivenGenuine, ReplyFacts
<1> HIDE DEF l, f, Y
<1>2. a \in Seq(Y) /\ Len(a) = i - 1 /\ \A j \in 1 .. i - 1 : a[j] = f[j]
  <2> DEFINE m == 1
             k == i - 1
  <2>1. /\ m \in Int /\ k \in Int /\ \A j \in m .. k : f[j] \in Y
        /\ (IF m <= k THEN k - m + 1 ELSE 0) = i - 1 /\ k - m + 1 = i - 1
        /\ \A j \in 1 .. i - 1 : m + j - 1 = j
    BY <1>1 DEF l
  <2>2. a = SubSeq(f, m, k)
    OBVIOUS
  <2> HIDE DEF m, k, a
  <2>3. /\ SubSeq(f, m, k) \in Seq(Y)
        /\ Len(SubSeq(f, m, k)) = IF m <= k THEN k - m + 1 ELSE 0
        /\ \A j \in 1 .. k - m + 1 : SubSeq(f, m, k)[j] = f[m + j - 1]
    BY <2>1, SubSeqProperties
  <2>4. a \in Seq(Y) /\ Len(a) = i - 1 /\ \A j \in 1 .. i - 1 : a[j] = f[j]
    BY <2>1, <2>2, <2>3
  <2> QED
    BY <2>4 DEF a
<1>3. b \in Seq(Y) /\ Len(b) = l - i /\ \A j \in 1 .. l - i : b[j] = f[i + j]
  <2> DEFINE m == i + 1
  <2>1. /\ m \in Int /\ l \in Int /\ \A j \in m .. l : f[j] \in Y
        /\ (IF m <= l THEN l - m + 1 ELSE 0) = l - i /\ l - m + 1 = l - i
        /\ \A j \in 1 .. l - i : m + j - 1 = i + j
    BY <1>1 DEF l
  <2>2. b = SubSeq(f, m, l)
    OBVIOUS
  <2> HIDE DEF m, b
  <2>3. /\ SubSeq(f, m, l) \in Seq(Y)
        /\ Len(SubSeq(f, m, l)) = IF m <= l THEN l - m + 1 ELSE 0
        /\ \A j \in 1 .. l - m + 1 : SubSeq(f, m, l)[j] = f[m + j - 1]
    BY <2>1, SubSeqProperties
  <2>4. b \in Seq(Y) /\ Len(b) = l - i /\ \A j \in 1 .. l - i : b[j] = f[i + j]
    BY <2>1, <2>2, <2>3
  <2> QED
    BY <2>4 DEF b
<1>4. a = Before(r, i) /\ b = After(r, i)
  BY DEF Before, After, f, l
<1> HIDE DEF a, b
<1>5. \A j \in 1 .. i - 1 : a[j] = UserWords(r.users[j], Genuine)
  <2>1. \A j \in 1 .. i - 1 : j \in 1 .. l
    BY <1>1 DEF l
  <2> QED
    BY <1>1, <1>2, <2>1
<1>6. \A j \in 1 .. l - i : b[j] = UserWords(r.users[i + j], Genuine)
  <2>1. \A j \in 1 .. l - i : i + j \in 1 .. l
    BY <1>1 DEF l
  <2> QED
    BY <1>1, <1>3, <2>1
<1> QED
  BY <1>2, <1>3, <1>4, <1>5, <1>6 DEF l, Y

\* The words in front of a user, and those behind it.
Ahead(r, i) == Cat(Opening(r), FlattenSeq(Before(r, i)))
Behind(r, i) == FlattenSeq(After(r, i))

IsOwn(r, i) == i \in 1 .. Len(r.users) /\ "self" \in r.users[i].has

\* What is ahead of a user and behind it is words.
LEMMA AheadTyped ==
  ASSUME NEW r \in UserReplies, NEW i \in 1 .. Len(r.users)
  PROVE  /\ Ahead(r, i) \in Seq(Word) /\ Behind(r, i) \in Seq(Word)
         /\ FlattenSeq(Before(r, i)) \in Seq(Word)
<1>1. 0 = 0 \/ Recognised(r)
  OBVIOUS
<1>2. Before(r, i) \in Seq(Placeable(0)) /\ After(r, i) \in Seq(Placeable(0))
  BY <1>1, AroundTyped
<1>3. FlattenSeq(Before(r, i)) \in Seq(Word) /\ FlattenSeq(After(r, i)) \in Seq(Word)
  BY <1>2, PlaceableWords
<1>4. Opening(r) \in Seq(Word)
  BY FrontTyped
<1> QED
  BY <1>3, <1>4, CatTyped DEF Ahead, Behind

\* The own account, between what is ahead of it and what is behind it.
LEMMA ReplySplit ==
  ASSUME NEW r \in UserReplies, NEW i, IsOwn(r, i), NEW names, Given(names) \in Seq(Sayable)
  PROVE  ReplyWords(r, names) = Cat(Ahead(r, i), Cat(UserWords(r.users[i], names), Behind(r, i)))
<1> DEFINE l == Len(r.users)
           f == Members(r, names)
           g == Members(r, Genuine)
           Y == Seq(Word)
           a == SubSeq(f, 1, i - 1)
           b == SubSeq(f, i + 1, l)
           x == UserWords(r.users[i], names)
<1>0. i \in 1 .. l /\ "self" \in r.users[i].has /\ l \in Nat
  BY ReplyFacts DEF IsOwn
<1>2. f \in Seq(Y) /\ Len(f) = l /\ f[i] = x
  BY <1>0, MembersWords
<1>3. f \in Seq(Seq(Word))
  BY <1>2
<1>4. ASSUME NEW j \in 1 .. l, j # i
      PROVE  f[j] \in Seq(Word) /\ g[j] = f[j]
  <2>1. "self" \notin r.users[j].has
    <3>1. i \in DOMAIN r.users /\ j \in DOMAIN r.users
      BY <1>0, ReplyFacts
    <3> QED
      BY <1>0, <1>4, <3>1, UserRepliesAssumption
  <2>2. /\ f[j] = UserWords(r.users[j], IF "self" \in r.users[j].has THEN names ELSE Genuine)
        /\ g[j] = UserWords(r.users[j], IF "self" \in r.users[j].has THEN Genuine ELSE Genuine)
    BY MembersWords, GivenGenuine
  <2>3. f[j] \in Seq(Word)
    BY <1>2, <1>3, ElementOfSeq
  <2> QED
    BY <2>1, <2>2, <2>3
<1> HIDE DEF f, g, x
<1>5. a = Before(r, i)
  <2> DEFINE m == 1
             k == i - 1
             Z == Seq(Word)
  <2>1. m \in Int /\ k \in Int /\ \A j \in m .. k : f[j] \in Z /\ g[j] = f[j]
    BY <1>0, <1>4
  <2> HIDE DEF m, k, Z
  <2>2. SubSeq(f, m, k) = SubSeq(g, m, k)
    BY <2>1, SubSeqSame
  <2>3. SubSeq(f, 1, i - 1) = SubSeq(g, 1, i - 1)
    BY <2>2 DEF m, k
  <2>4. Before(r, i) = SubSeq(g, 1, i - 1)
    BY Zenon DEF Before, g
  <2>5. a = SubSeq(f, 1, i - 1)
    OBVIOUS
  <2> HIDE DEF a
  <2> QED
    BY <2>3, <2>4, <2>5, Zenon
<1>6. b = After(r, i)
  <2> DEFINE m == i + 1
             Z == Seq(Word)
  <2>1. m \in Int /\ l \in Int /\ \A j \in m .. l : f[j] \in Z /\ g[j] = f[j]
    BY <1>0, <1>4
  <2> HIDE DEF m, l, Z
  <2>2. SubSeq(f, m, l) = SubSeq(g, m, l)
    BY <2>1, SubSeqSame
  <2>3. SubSeq(f, i + 1, l) = SubSeq(g, i + 1, l)
    BY <2>2 DEF m
  <2>4. After(r, i) = SubSeq(g, i + 1, l)
    BY Zenon DEF After, g, l
  <2>5. b = SubSeq(f, i + 1, l)
    OBVIOUS
  <2> HIDE DEF b
  <2> QED
    BY <2>3, <2>4, <2>5, Zenon
<1>7. FlattenSeq(f) = FlattenSeq(a) \o (x \o FlattenSeq(b))
  <2>1. i \in 1 .. Len(f) /\ f[i] = x /\ Len(f) = l
    BY <1>0, <1>2
  <2> HIDE DEF l
  <2>2. FlattenSeq(f) = FlattenSeq(SubSeq(f, 1, i - 1)) \o (f[i] \o FlattenSeq(SubSeq(f, i + 1, Len(f))))
    BY <1>3, <2>1, FlatSplit
  <2> QED
    BY <2>1, <2>2
<1> HIDE DEF a, b
<1>8. ReplyWords(r, names) = Cat(Opening(r), FlattenSeq(f))
  BY ReplyIs DEF f
<1> DEFINE h == Opening(r)
           y == FlattenSeq(Before(r, i))
           z == Behind(r, i)
<1>9. FlattenSeq(f) = Cat(y, Cat(x, z))
  BY <1>5, <1>6, <1>7 DEF Cat, Behind
<1>10. h \in Seq(Word) /\ y \in Seq(Word) /\ z \in Seq(Word) /\ x \in Seq(Word)
  <2>1. x \in Seq(Word)
    BY <1>0, ReplyFacts, UserFacts DEF x
  <2> QED
    BY <1>0, <2>1, FrontTyped, AheadTyped
<1>11. ReplyWords(r, names) = Cat(h, Cat(y, Cat(x, z))) /\ Ahead(r, i) = Cat(h, y)
  BY <1>8, <1>9 DEF Ahead
<1> HIDE DEF h, y, z
<1> DEFINE xz == Cat(x, z)
<1>12. xz \in Seq(Word)
  BY <1>10, CatTyped
<1> HIDE DEF xz
<1>13. Cat(Cat(h, y), xz) = Cat(h, Cat(y, xz))
  BY <1>10, <1>12, CatAssociative
<1> QED
  BY <1>11, <1>13 DEF xz, x, z

----------------------------------------------------------------------------
(* A list cut out of a reply, and another put into its place.              *)

CutIs(w, a, b, c) ==
  /\ w \in Seq(Word) /\ SubSeq(w, 1, Len(a)) = a
  /\ SubSeq(w, Len(a) + 1, Len(w)) = Cat(b, c)
  /\ SubSeq(w, Len(a) + Len(b) + 1, Len(w)) = c

\* What stands in front, between and behind can be cut out again.
LEMMA CutAt ==
  ASSUME NEW a \in Seq(Word), NEW b \in Seq(Word), NEW c \in Seq(Word), NEW w,
         w = Cat(a, Cat(b, c))
  PROVE  CutIs(w, a, b, c)
<1> DEFINE p == Len(a)
           q == Len(a) + Len(b)
<1> DEFINE bc == Cat(b, c)
           l == Len(w)
<1>1. /\ bc \in Seq(Word) /\ Len(bc) = Len(b) + Len(c) /\ Len(a) \in Nat /\ Len(b) \in Nat /\ Len(c) \in Nat
      /\ \A i \in 1 .. Len(b) + Len(c) : bc[i] = IF i <= Len(b) THEN b[i] ELSE c[i - Len(b)]
  BY CatTyped
<1>2. w = Cat(a, bc)
  OBVIOUS
<1> HIDE DEF bc, l
<1>3. /\ w \in Seq(Word) /\ Len(w) = Len(a) + Len(bc)
      /\ \A i \in 1 .. Len(a) + Len(bc) : w[i] = IF i <= Len(a) THEN a[i] ELSE bc[i - Len(a)]
  <2>1. /\ Cat(a, bc) \in Seq(Word) /\ Len(Cat(a, bc)) = Len(a) + Len(bc)
        /\ \A i \in 1 .. Len(a) + Len(bc) :
             Cat(a, bc)[i] = IF i <= Len(a) THEN a[i] ELSE bc[i - Len(a)]
    BY <1>1, CatTyped
  <2> QED
    BY <1>2, <2>1
<1>4. l = Len(a) + Len(b) + Len(c) /\ l = Len(w) /\ l \in Nat
  BY <1>1, <1>3 DEF l
<1>5. \A i \in 1 .. l : w[i] \in Word
  BY <1>3, <1>4, ElementOfSeq
<1>6. SubSeq(w, 1, p) = a
  <2> DEFINE s == SubSeq(w, 1, p)
  <2>1. s \in Seq(Word) /\ Len(s) = p /\ \A i \in 1 .. p : s[i] = w[i]
    <3> DEFINE one == 1
    <3>1. /\ one \in Int /\ p \in Int /\ \A i \in one .. p : w[i] \in Word
          /\ (IF one <= p THEN p - one + 1 ELSE 0) = p /\ p - one + 1 = p
          /\ \A i \in 1 .. p : one + i - 1 = i
      BY <1>1, <1>4, <1>5
    <3>2. s = SubSeq(w, one, p)
      OBVIOUS
    <3> HIDE DEF s, one
    <3>3. /\ SubSeq(w, one, p) \in Seq(Word)
          /\ Len(SubSeq(w, one, p)) = IF one <= p THEN p - one + 1 ELSE 0
          /\ \A i \in 1 .. p - one + 1 : SubSeq(w, one, p)[i] = w[one + i - 1]
      BY <3>1, SubSeqProperties
    <3> QED
      BY <3>1, <3>2, <3>3
  <2> HIDE DEF s
  <2>2. \A i \in 1 .. p : w[i] = a[i]
    BY <1>1, <1>3
  <2>3. s = a
    BY <2>1, <2>2, SeqEqual
  <2> QED
    BY <2>3 DEF s
<1>7. SubSeq(w, p + 1, l) = bc
  <2> DEFINE m == p + 1
             s == SubSeq(w, m, l)
  <2>1. /\ m \in Int /\ l \in Int /\ \A i \in m .. l : w[i] \in Word
        /\ (IF m <= l THEN l - m + 1 ELSE 0) = Len(bc) /\ l - m + 1 = Len(bc)
        /\ \A i \in 1 .. Len(bc) : m + i - 1 = Len(a) + i
    BY <1>1, <1>4, <1>5
  <2> HIDE DEF m
  <2>2. /\ s \in Seq(Word) /\ Len(s) = (IF m <= l THEN l - m + 1 ELSE 0)
        /\ \A i \in 1 .. l - m + 1 : s[i] = w[m + i - 1]
    BY <2>1, SubSeqProperties
  <2>3. s \in Seq(Word) /\ Len(s) = Len(bc) /\ \A i \in 1 .. Len(bc) : s[i] = w[Len(a) + i]
    BY <2>1, <2>2
  <2> HIDE DEF s
  <2>4. \A i \in 1 .. Len(bc) : w[Len(a) + i] = bc[i]
    <3>1. \A i \in 1 .. Len(bc) : /\ Len(a) + i \in 1 .. Len(a) + Len(bc) /\ ~(Len(a) + i <= Len(a))
                                  /\ Len(a) + i - Len(a) = i
      BY <1>1
    <3> QED
      BY <1>3, <3>1
  <2>5. s = bc
    BY <1>1, <2>3, <2>4, SeqEqual
  <2> QED
    BY <2>5 DEF s, m
<1>8. SubSeq(w, q + 1, l) = c
  <2> DEFINE m == q + 1
             s == SubSeq(w, m, l)
  <2>1. /\ m \in Int /\ l \in Int /\ \A i \in m .. l : w[i] \in Word
        /\ (IF m <= l THEN l - m + 1 ELSE 0) = Len(c) /\ l - m + 1 = Len(c)
        /\ \A i \in 1 .. Len(c) : m + i - 1 = Len(a) + (Len(b) + i)
    BY <1>1, <1>4, <1>5
  <2> HIDE DEF m
  <2>2. /\ s \in Seq(Word) /\ Len(s) = (IF m <= l THEN l - m + 1 ELSE 0)
        /\ \A i \in 1 .. l - m + 1 : s[i] = w[m + i - 1]
    BY <2>1, SubSeqProperties
  <2>3. s \in Seq(Word) /\ Len(s) = Len(c) /\ \A i \in 1 .. Len(c) : s[i] = w[Len(a) + (Len(b) + i)]
    BY <2>1, <2>2
  <2> HIDE DEF s
  <2>4. ASSUME NEW i \in 1 .. Len(c)
        PROVE  w[Len(a) + (Len(b) + i)] = c[i]
    <3> DEFINE j == Len(a) + (Len(b) + i)
               k == Len(b) + i
    <3>1. /\ j \in 1 .. Len(a) + Len(bc) /\ ~(j <= Len(a)) /\ j - Len(a) = k
          /\ k \in 1 .. Len(b) + Len(c) /\ ~(k <= Len(b)) /\ k - Len(b) = i
      BY <1>1
    <3> HIDE DEF j, k
    <3>2. w[j] = c[i]
      BY <1>1, <1>3, <3>1
    <3> QED
      BY <3>2 DEF j
  <2>5. s = c
    BY <2>3, <2>4, SeqEqual
  <2> QED
    BY <2>5 DEF s, m
<1> QED
  BY <1>3, <1>4, <1>6, <1>7, <1>8 DEF l, bc, CutIs

\* Five sequences, grouped anew.
LEMMA Regroup ==
  ASSUME NEW a \in Seq(Word), NEW s \in Seq(Word), NEW o \in Seq(Word), NEW c \in Seq(Word),
         NEW b \in Seq(Word)
  PROVE  Cat(a, Cat(Cat(Cat(s, o), c), b)) = Cat(Cat(a, s), Cat(o, Cat(c, b)))
<1> DEFINE cb == Cat(c, b)
           so == Cat(s, o)
           ocb == Cat(o, cb)
<1>1. cb \in Seq(Word) /\ so \in Seq(Word)
  BY CatTyped
<1>2. Cat(Cat(so, c), b) = Cat(so, cb)
  <2> HIDE DEF so
  <2> QED
    BY <1>1, CatAssociative
<1> HIDE DEF cb
<1>3. Cat(so, cb) = Cat(s, ocb) /\ ocb \in Seq(Word)
  BY <1>1, CatAssociative, CatTyped
<1> HIDE DEF ocb, so
<1>4. Cat(a, Cat(s, ocb)) = Cat(Cat(a, s), ocb)
  BY <1>3, CatAssociative
<1> QED
  BY <1>2, <1>3, <1>4 DEF ocb, cb, so

\* What stands in front of the own account's list, the list, and what is behind it.
Pre(r, i, bits) == Cat(Ahead(r, i), Stem(bits, r.users[i].status))
Own(r, i) == Shown(r.users[i].has, Genuine)
Post(r, i) == Cat(Color(r.users[i].has), Behind(r, i))

Marked(r, i) == r.users[i].has \cup {"usernames"}

\* What the own account consists of is words.
LEMMA OwnFacts ==
  ASSUME NEW r \in UserReplies, NEW i, IsOwn(r, i)
  PROVE  /\ i \in 1 .. Len(r.users) /\ r.users[i] \in User
         /\ r.users[i].has \in SUBSET UserField /\ Marked(r, i) \in SUBSET UserField
         /\ r.users[i].status \in Kinds /\ "self" \in r.users[i].has
         /\ Ahead(r, i) \in Seq(Word) /\ Behind(r, i) \in Seq(Word) /\ Post(r, i) \in Seq(Word)
         /\ Own(r, i) \in Seq(Word)
         /\ \A bits \in SUBSET UserField :
              Stem(bits, r.users[i].status) \in Seq(Word) /\ Pre(r, i, bits) \in Seq(Word)
<1> DEFINE u == r.users[i]
<1>1. i \in 1 .. Len(r.users) /\ u \in User /\ "self" \in u.has
  BY ReplyFacts DEF IsOwn
<1>2. Ahead(r, i) \in Seq(Word) /\ Behind(r, i) \in Seq(Word)
  BY <1>1, AheadTyped
<1> HIDE DEF u
<1>3. /\ u.has \in SUBSET UserField /\ u.status \in Kinds
      /\ Shown(Bits(u, Genuine), Genuine) \in Seq(Word)
  BY <1>1, GivenGenuine, UserFacts
<1>4. Bits(u, Genuine) = u.has
  BY DEF Bits
<1>5. \A bits \in SUBSET UserField : Stem(bits, u.status) \in Seq(Word)
  <2> SUFFICES ASSUME NEW bits \in SUBSET UserField
               PROVE  Stem(bits, u.status) \in Seq(Word)
    OBVIOUS
  <2>1. /\ First(bits) \in Seq(Word) /\ FirstName(bits) \in Seq(Word)
        /\ Reasons(bits) \in Seq(Word) /\ Status(bits, u.status) \in Seq(Word)
    BY <1>3, PartsTyped
  <2> DEFINE a == First(bits) \o FirstName(bits)
             b == a \o Reasons(bits)
  <2>2. a \in Seq(Word)
    BY <2>1, ConcatProperties
  <2> HIDE DEF a
  <2>3. b \in Seq(Word)
    BY <2>1, <2>2, ConcatProperties
  <2> HIDE DEF b
  <2>4. b \o Status(bits, u.status) \in Seq(Word)
    BY <2>1, <2>3, ConcatProperties
  <2> QED
    BY <2>4 DEF Stem, b, a
<1>6. Color(u.has) \in Seq(Word)
  BY <1>3, PartsTyped
<1>7. Marked(r, i) \in SUBSET UserField
  BY <1>3 DEF Marked, u, UserField
<1>8. Post(r, i) \in Seq(Word)
  BY <1>2, <1>6, CatTyped DEF Post, u
<1>9. \A bits \in SUBSET UserField : Pre(r, i, bits) \in Seq(Word)
  BY <1>2, <1>5, CatTyped DEF Pre, u
<1> QED
  BY <1>1, <1>2, <1>3, <1>4, <1>5, <1>7, <1>8, <1>9 DEF u, Own

\* The reply as it came, cut at the own account's list ...
LEMMA GenuineSplit ==
  ASSUME NEW r \in UserReplies, NEW i, IsOwn(r, i)
  PROVE  ReplyWords(r, Genuine) = Cat(Pre(r, i, r.users[i].has), Cat(Own(r, i), Post(r, i)))
<1> DEFINE u == r.users[i]
           a == Ahead(r, i)
           s == Stem(u.has, u.status)
           o == Own(r, i)
           c == Color(u.has)
           b == Behind(r, i)
<1>1. ReplyWords(r, Genuine) = Cat(a, Cat(UserWords(u, Genuine), b))
  BY GivenGenuine, ReplySplit
<1>2. /\ a \in Seq(Word) /\ b \in Seq(Word) /\ s \in Seq(Word) /\ o \in Seq(Word)
      /\ u \in User /\ u.has \in SUBSET UserField
      /\ u.status \in Kinds
  BY OwnFacts
<1>3. c \in Seq(Word)
  BY <1>2, PartsTyped
<1>4. UserWords(u, Genuine) = Cat(Cat(s, o), c)
  <2>1. Bits(u, Genuine) = u.has
    BY DEF Bits
  <2> HIDE DEF u
  <2>2. UserWords(u, Genuine) =
          Cat(Cat(Stem(Bits(u, Genuine), u.status), Shown(Bits(u, Genuine), Genuine)), Color(Bits(u, Genuine)))
    BY <1>2, UserIs
  <2> QED
    BY <2>1, <2>2 DEF u, Own
<1>5. Pre(r, i, u.has) = Cat(a, s) /\ Post(r, i) = Cat(c, b)
  BY DEF Pre, Post
<1> HIDE DEF a, s, o, c, b
<1>6. Cat(a, Cat(Cat(Cat(s, o), c), b)) = Cat(Cat(a, s), Cat(o, Cat(c, b)))
  BY <1>2, <1>3, Regroup
<1> QED
  BY <1>1, <1>4, <1>5, <1>6 DEF o

\* A list of the configuration is not mistaken for the one a user came with.
LEMMA NotGenuine ==
  ASSUME NEW names \in Seq(Cell)
  PROVE  names # Genuine /\ names \in Seq(Sayable) /\ Given(names) = names
<1>1. names # Genuine
  <2> SUFFICES ASSUME names = Genuine
               PROVE  FALSE
    OBVIOUS
  <2>1. 1 \in 1 .. Len(names) /\ names[1] = "genuine"
    BY DEF Genuine
  <2>2. names[1] \in Cell
    BY <2>1, ElementOfSeq
  <2> QED
    BY <2>1, <2>2, NamesAssumption DEF Cell
<1>2. Cell \subseteq Sayable
  BY DEF Cell, Sayable
<1> QED
  BY <1>1, <1>2, SeqMonotonic DEF Given

\* ... and as it is meant to become.
LEMMA RewrittenSplit ==
  ASSUME NEW r \in UserReplies, NEW i, IsOwn(r, i), NEW names \in Seq(Cell)
  PROVE  ReplyWords(r, names) =
           Cat(Pre(r, i, Marked(r, i)), Cat(Listing(Len(names), names), Post(r, i)))
<1> DEFINE u == r.users[i]
           m == Marked(r, i)
           a == Ahead(r, i)
           s == Stem(m, u.status)
           o == Listing(Len(names), names)
           c == Color(u.has)
           b == Behind(r, i)
<1>0. names # Genuine /\ names \in Seq(Sayable) /\ Given(names) = names /\ Len(names) \in Nat
  BY NotGenuine, LenProperties
<1>1. ReplyWords(r, names) = Cat(a, Cat(UserWords(u, names), b))
  BY <1>0, ReplySplit
<1>2. a \in Seq(Word) /\ b \in Seq(Word) /\ s \in Seq(Word) /\ u \in User /\ u.has \in SUBSET UserField
      /\ u.status \in Kinds
  BY OwnFacts
<1>3. c \in Seq(Word) /\ o \in Seq(Word)
  BY <1>0, <1>2, PartsTyped, ListingIs
<1>4. UserWords(u, names) = Cat(Cat(s, o), c)
  <2>1. Bits(u, names) = m
    BY <1>0 DEF Bits, Marked
  <2>2. "usernames" \in m /\ Color(m) = c
    BY DEF Marked, Color
  <2>3. Shown(m, names) = o
    BY <1>0, <2>2 DEF Shown
  <2> HIDE DEF u, m, s, o, c
  <2>4. UserWords(u, names) =
          Cat(Cat(Stem(Bits(u, names), u.status), Shown(Bits(u, names), names)), Color(Bits(u, names)))
    BY <1>2, UserIs
  <2> QED
    BY <2>1, <2>2, <2>3, <2>4 DEF s
<1>5. Pre(r, i, m) = Cat(a, s) /\ Post(r, i) = Cat(c, b)
  BY DEF Pre, Post
<1> HIDE DEF a, s, o, c, b, m
<1>6. Cat(a, Cat(Cat(Cat(s, o), c), b)) = Cat(Cat(a, s), Cat(o, Cat(c, b)))
  BY <1>2, <1>3, Regroup
<1> QED
  BY <1>1, <1>4, <1>5, <1>6 DEF o, m

----------------------------------------------------------------------------
(* One word put in the place of another.                                   *)

Replaced(ws, k, v) == [ws EXCEPT ![k] = v]

\* The words but for one.
Becomes(f, ws, k, v) ==
  /\ f \in Seq(Word) /\ Len(f) = Len(ws)
  /\ \A j \in 1 .. Len(ws) : f[j] = IF j = k THEN v ELSE ws[j]

LEMMA ReplacedIs ==
  ASSUME NEW ws \in Seq(Word), NEW k \in 1 .. Len(ws), NEW v \in Word
  PROVE  Becomes(Replaced(ws, k, v), ws, k, v)
<1> DEFINE l == Len(ws)
           W == Word
<1>1. l \in Nat /\ ws \in [1 .. l -> W] /\ k \in 1 .. l /\ v \in W
  BY LenProperties
<1> DEFINE f == [ws EXCEPT ![k] = v]
<1> HIDE DEF l, W
<1>2. f \in [1 .. l -> W] /\ \A j \in 1 .. l : f[j] = IF j = k THEN v ELSE ws[j]
  BY <1>1
<1> HIDE DEF f
<1>3. f \in Seq(W) /\ Len(f) = l
  BY <1>1, <1>2
<1> QED
  BY <1>2, <1>3 DEF Becomes, Replaced, f, l, W

\* A word put where it stands.
LEMMA ReplacedSame ==
  ASSUME NEW ws \in Seq(Word), NEW k \in 1 .. Len(ws), NEW v, v = ws[k]
  PROVE  Replaced(ws, k, v) = ws
<1>1. v \in Word
  BY ElementOfSeq
<1> DEFINE f == Replaced(ws, k, v)
<1>2. /\ f \in Seq(Word) /\ Len(f) = Len(ws)
      /\ \A j \in 1 .. Len(ws) : f[j] = IF j = k THEN v ELSE ws[j]
  <2>1. Becomes(f, ws, k, v)
    BY <1>1, ReplacedIs
  <2> QED
    BY <2>1 DEF Becomes
<1> HIDE DEF f
<1>3. f = ws
  BY <1>2, SeqEqual
<1> QED
  BY <1>3 DEF f

\* The second of two words put in one place stays.
LEMMA ReplacedTwice ==
  ASSUME NEW ws \in Seq(Word), NEW k \in 1 .. Len(ws), NEW v \in Word, NEW w \in Word
  PROVE  Replaced(Replaced(ws, k, v), k, w) = Replaced(ws, k, w)
<1> DEFINE f == Replaced(ws, k, v)
           g == Replaced(f, k, w)
           h == Replaced(ws, k, w)
<1>1. /\ f \in Seq(Word) /\ Len(f) = Len(ws)
      /\ \A j \in 1 .. Len(ws) : f[j] = IF j = k THEN v ELSE ws[j]
  <2>1. Becomes(f, ws, k, v)
    BY ReplacedIs
  <2> QED
    BY <2>1 DEF Becomes
<1>2. /\ h \in Seq(Word) /\ Len(h) = Len(ws)
      /\ \A j \in 1 .. Len(ws) : h[j] = IF j = k THEN w ELSE ws[j]
  <2>1. Becomes(h, ws, k, w)
    BY ReplacedIs
  <2> QED
    BY <2>1 DEF Becomes
<1> HIDE DEF f, h
<1>3. /\ g \in Seq(Word) /\ Len(g) = Len(f)
      /\ \A j \in 1 .. Len(f) : g[j] = IF j = k THEN w ELSE f[j]
  <2>1. Becomes(g, f, k, w)
    BY <1>1, ReplacedIs
  <2> QED
    BY <2>1 DEF Becomes
<1> HIDE DEF g
<1>4. g = h
  <2>1. Len(g) = Len(h) /\ \A j \in 1 .. Len(g) : g[j] = h[j]
    BY <1>1, <1>2, <1>3
  <2> QED
    BY <1>2, <1>3, <2>1, SeqEqual
<1> QED
  BY <1>4 DEF g, f, h

\* A word put into the first of two ...
LEMMA ReplacedCat ==
  ASSUME NEW a \in Seq(Word), NEW b \in Seq(Word), NEW k \in 1 .. Len(a), NEW v \in Word
  PROVE  Replaced(Cat(a, b), k, v) = Cat(Replaced(a, k, v), b)
<1> DEFINE f == Cat(a, b)
           g == Replaced(a, k, v)
           x == Replaced(f, k, v)
           y == Cat(g, b)
<1>1. /\ f \in Seq(Word) /\ Len(f) = Len(a) + Len(b) /\ Len(a) \in Nat /\ Len(b) \in Nat
      /\ \A i \in 1 .. Len(a) + Len(b) : f[i] = IF i <= Len(a) THEN a[i] ELSE b[i - Len(a)]
  BY CatTyped
<1>2. /\ g \in Seq(Word) /\ Len(g) = Len(a)
      /\ \A j \in 1 .. Len(a) : g[j] = IF j = k THEN v ELSE a[j]
  <2>1. Becomes(g, a, k, v)
    BY ReplacedIs
  <2> QED
    BY <2>1 DEF Becomes
<1> HIDE DEF f, g
<1>3. k \in 1 .. Len(f)
  BY <1>1
<1>4. /\ x \in Seq(Word) /\ Len(x) = Len(f)
      /\ \A j \in 1 .. Len(f) : x[j] = IF j = k THEN v ELSE f[j]
  <2>1. f \in Seq(Word) /\ k \in 1 .. Len(f)
    BY <1>1, <1>3
  <2> QED
    <3>1. Becomes(x, f, k, v)
      BY <2>1, ReplacedIs
    <3> QED
      BY <3>1 DEF Becomes
<1>5. /\ y \in Seq(Word) /\ Len(y) = Len(g) + Len(b)
      /\ \A i \in 1 .. Len(g) + Len(b) : y[i] = IF i <= Len(g) THEN g[i] ELSE b[i - Len(g)]
  BY <1>2, CatTyped
<1> HIDE DEF x, y
<1>6. Len(x) = Len(y)
  BY <1>1, <1>2, <1>4, <1>5
<1>7. ASSUME NEW j \in 1 .. Len(x)
      PROVE  x[j] = y[j]
  <2>1. j \in 1 .. Len(a) + Len(b) /\ j \in 1 .. Len(f) /\ j \in 1 .. Len(g) + Len(b)
    BY <1>1, <1>2, <1>4
  <2>2. y[j] = IF j <= Len(a) THEN g[j] ELSE b[j - Len(a)]
    BY <1>2, <1>5, <2>1
  <2>3. CASE j <= Len(a)
    <3>1. j \in 1 .. Len(a)
      BY <1>1, <2>1, <2>3
    <3> QED
      BY <1>1, <1>2, <1>4, <2>1, <2>2, <2>3, <3>1
  <2>4. CASE ~(j <= Len(a))
    <3>1. j # k
      BY <2>4
    <3> QED
      BY <1>1, <1>4, <2>1, <2>2, <2>4, <3>1
  <2> QED
    BY <2>3, <2>4
<1>8. x = y
  BY <1>4, <1>5, <1>6, <1>7, SeqEqual
<1> QED
  BY <1>8 DEF x, y, f, g

\* ... or into the second.
LEMMA ReplacedBehind ==
  ASSUME NEW a \in Seq(Word), NEW b \in Seq(Word), NEW i \in 1 .. Len(b), NEW k, k = Len(a) + i,
         NEW v \in Word
  PROVE  /\ Replaced(Cat(a, b), k, v) = Cat(a, Replaced(b, i, v)) /\ k \in 1 .. Len(Cat(a, b))
         /\ Cat(a, b)[k] = b[i]
<1> DEFINE f == Cat(a, b)
           g == Replaced(b, i, v)
           x == Replaced(f, k, v)
           y == Cat(a, g)
<1>1. /\ f \in Seq(Word) /\ Len(f) = Len(a) + Len(b) /\ Len(a) \in Nat /\ Len(b) \in Nat
      /\ \A j \in 1 .. Len(a) + Len(b) : f[j] = IF j <= Len(a) THEN a[j] ELSE b[j - Len(a)]
  BY CatTyped
<1>2. /\ g \in Seq(Word) /\ Len(g) = Len(b)
      /\ \A j \in 1 .. Len(b) : g[j] = IF j = i THEN v ELSE b[j]
  <2>1. Becomes(g, b, i, v)
    BY ReplacedIs
  <2> QED
    BY <2>1 DEF Becomes
<1> HIDE DEF f, g
<1>3. k \in 1 .. Len(f) /\ ~(k <= Len(a)) /\ k - Len(a) = i
  BY <1>1
<1>4. /\ x \in Seq(Word) /\ Len(x) = Len(f)
      /\ \A j \in 1 .. Len(f) : x[j] = IF j = k THEN v ELSE f[j]
  <2>1. f \in Seq(Word) /\ k \in 1 .. Len(f)
    BY <1>1, <1>3
  <2> QED
    <3>1. Becomes(x, f, k, v)
      BY <2>1, ReplacedIs
    <3> QED
      BY <3>1 DEF Becomes
<1>5. /\ y \in Seq(Word) /\ Len(y) = Len(a) + Len(g)
      /\ \A j \in 1 .. Len(a) + Len(g) : y[j] = IF j <= Len(a) THEN a[j] ELSE g[j - Len(a)]
  BY <1>2, CatTyped
<1> HIDE DEF x, y
<1>6. Len(x) = Len(y)
  BY <1>1, <1>2, <1>4, <1>5
<1>7. ASSUME NEW j \in 1 .. Len(x)
      PROVE  x[j] = y[j]
  <2>1. j \in 1 .. Len(a) + Len(b) /\ j \in 1 .. Len(f) /\ j \in 1 .. Len(a) + Len(g)
    BY <1>1, <1>2, <1>4
  <2>2. y[j] = IF j <= Len(a) THEN a[j] ELSE g[j - Len(a)]
    BY <1>5, <2>1
  <2>3. CASE j <= Len(a)
    <3>1. j # k
      BY <1>3, <2>3
    <3> QED
      BY <1>1, <1>4, <2>1, <2>2, <2>3, <3>1
  <2>4. CASE ~(j <= Len(a))
    <3>1. j - Len(a) \in 1 .. Len(b) /\ (j = k <=> j - Len(a) = i)
      BY <1>1, <2>1, <2>4
    <3> QED
      BY <1>1, <1>2, <1>4, <2>1, <2>2, <2>4, <3>1
  <2> QED
    BY <2>3, <2>4
<1>8. x = y
  BY <1>4, <1>5, <1>6, <1>7, SeqEqual
<1>9. f[k] = b[i]
  <2>1. k \in 1 .. Len(a) + Len(b)
    BY <1>1, <1>3
  <2> QED
    BY <1>1, <1>3, <2>1
<1> QED
  BY <1>3, <1>8, <1>9 DEF x, y, f, g

\* The bit of the list is in the second word of a user.
LEMMA StemMarked ==
  ASSUME NEW bits \in SUBSET UserField, NEW more \in SUBSET UserField, more = bits \cup {"usernames"},
         NEW status \in Kinds
  PROVE  /\ Replaced(Stem(bits, status), 2, FlagsWord(more)) = Stem(more, status)
         /\ Stem(bits, status)[2] = FlagsWord(bits) /\ Len(Stem(bits, status)) >= 3
         /\ Len(Stem(bits, status)) = Len(Stem(more, status))
<1> DEFINE f == First(bits)
           e == First(more)
           g == FirstName(bits)
           h == Reasons(bits)
           s == Status(bits, status)
           v == FlagsWord(more)
           fg == Cat(f, g)
           fgh == Cat(fg, h)
           eg == Cat(e, g)
           egh == Cat(eg, h)
<1>1. /\ f \in Seq(Word) /\ Len(f) = 3 /\ g \in Seq(Word) /\ h \in Seq(Word) /\ s \in Seq(Word)
      /\ e \in Seq(Word) /\ Len(e) = 3
  BY PartsTyped
<1>2. v \in Word
  BY WordsTyped, Said
<1>3. f[2] = FlagsWord(bits) /\ Replaced(f, 2, v) = e
  <2> DEFINE x == Replaced(f, 2, v)
  <2>1. 2 \in 1 .. Len(f)
    BY <1>1
  <2>2. f[1] = Ctor("user") /\ f[2] = FlagsWord(bits) /\ f[3] = Data("id")
    BY DEF First
  <2>3. e[1] = Ctor("user") /\ e[2] = v /\ e[3] = Data("id")
    BY DEF First
  <2> HIDE DEF v, f, e
  <2>4. x \in Seq(Word) /\ Len(x) = Len(f) /\ \A j \in 1 .. Len(f) : x[j] = IF j = 2 THEN v ELSE f[j]
    <3> DEFINE two == 2
    <3>1. two \in 1 .. Len(f) /\ f \in Seq(Word) /\ x = Replaced(f, two, v)
      BY <1>1, <2>1
    <3> HIDE DEF two, x
    <3>2. Becomes(Replaced(f, two, v), f, two, v)
      BY <1>2, <3>1, ReplacedIs
    <3> QED
      BY <3>1, <3>2 DEF two, Becomes
  <2> HIDE DEF x
  <2>5. x[1] = f[1] /\ x[2] = v /\ x[3] = f[3]
    BY <1>1, <2>4
  <2>6. \A j \in 1 .. 3 : x[j] = e[j]
    BY <2>2, <2>3, <2>5
  <2>7. x = e
    <3>1. x \in Seq(Word) /\ e \in Seq(Word) /\ Len(x) = Len(e) /\ \A j \in 1 .. Len(x) : x[j] = e[j]
      BY <1>1, <2>4, <2>6
    <3> QED
      BY <3>1, SeqEqual
  <2> QED
    BY <2>2, <2>7 DEF x
<1>4. /\ Stem(bits, status) = Cat(fgh, s) /\ Stem(more, status) = Cat(egh, s)
  <2>1. FirstName(more) = g /\ Reasons(more) = h /\ Status(more, status) = s
    BY DEF FirstName, Reasons, Status
  <2> QED
    BY <2>1 DEF Stem, Cat
<1> HIDE DEF f, e, g, h, s, v
<1> DEFINE two == 2
<1>5. two \in 1 .. Len(f) /\ f[two] = FlagsWord(bits) /\ Replaced(f, two, v) = e
  BY <1>1, <1>3
<1> HIDE DEF two
<1>6. /\ fg \in Seq(Word) /\ Len(fg) = 3 + Len(g) /\ Len(g) \in Nat /\ Replaced(fg, two, v) = eg
      /\ two \in 1 .. Len(fg) /\ fg[two] = FlagsWord(bits) /\ Len(eg) = Len(fg) /\ eg \in Seq(Word)
  <2>1. Replaced(fg, two, v) = eg
    BY <1>1, <1>2, <1>5, ReplacedCat
  <2>2. /\ fg \in Seq(Word) /\ Len(fg) = Len(f) + Len(g) /\ Len(g) \in Nat
        /\ Len(eg) = Len(e) + Len(g) /\ eg \in Seq(Word)
        /\ \A i \in 1 .. Len(f) + Len(g) : fg[i] = IF i <= Len(f) THEN f[i] ELSE g[i - Len(f)]
    BY <1>1, CatTyped
  <2> QED
    BY <1>1, <1>5, <2>1, <2>2
<1> HIDE DEF fg, eg
<1>7. /\ fgh \in Seq(Word) /\ Len(fgh) = 3 + Len(g) + Len(h) /\ Len(h) \in Nat
      /\ Replaced(fgh, two, v) = egh
      /\ two \in 1 .. Len(fgh) /\ fgh[two] = FlagsWord(bits) /\ Len(egh) = Len(fgh) /\ egh \in Seq(Word)
  <2>1. Replaced(fgh, two, v) = egh
    BY <1>1, <1>2, <1>6, ReplacedCat
  <2>2. /\ fgh \in Seq(Word) /\ Len(fgh) = Len(fg) + Len(h) /\ Len(h) \in Nat
        /\ Len(egh) = Len(eg) + Len(h) /\ egh \in Seq(Word)
        /\ \A i \in 1 .. Len(fg) + Len(h) : fgh[i] = IF i <= Len(fg) THEN fg[i] ELSE h[i - Len(fg)]
    BY <1>1, <1>6, CatTyped
  <2> QED
    BY <1>6, <2>1, <2>2
<1> HIDE DEF fgh, egh
<1> DEFINE x == Cat(fgh, s)
           y == Cat(egh, s)
<1>8. /\ x \in Seq(Word) /\ Len(x) >= 3 /\ Replaced(x, two, v) = y
      /\ x[two] = FlagsWord(bits) /\ Len(x) = Len(y)
  <2>1. Replaced(x, two, v) = y
    BY <1>1, <1>2, <1>7, ReplacedCat
  <2>2. /\ x \in Seq(Word) /\ Len(x) = Len(fgh) + Len(s) /\ Len(s) \in Nat
        /\ Len(y) = Len(egh) + Len(s)
        /\ \A i \in 1 .. Len(fgh) + Len(s) : x[i] = IF i <= Len(fgh) THEN fgh[i] ELSE s[i - Len(fgh)]
    BY <1>1, <1>7, CatTyped
  <2> QED
    BY <1>6, <1>7, <2>1, <2>2
<1> QED
  BY <1>4, <1>8 DEF v, two

\* The position of the flags of the own account.
FlagsAt(r, i) == Len(Ahead(r, i)) + 2

\* The bit of the own account's list, in the reply.
LEMMA PreMarked ==
  ASSUME NEW r \in UserReplies, NEW i, IsOwn(r, i), NEW p, p = Pre(r, i, r.users[i].has),
         NEW k, k = FlagsAt(r, i)
  PROVE  /\ Replaced(p, k, FlagsWord(Marked(r, i))) = Pre(r, i, Marked(r, i))
         /\ p[k] = FlagsWord(r.users[i].has) /\ k \in 1 .. Len(p)
         /\ Len(Pre(r, i, Marked(r, i))) = Len(p)
<1> DEFINE a == Ahead(r, i)
           bits == r.users[i].has
           more == Marked(r, i)
           status == r.users[i].status
           s == Stem(bits, status)
           t == Stem(more, status)
           v == FlagsWord(more)
<1>1. a \in Seq(Word) /\ bits \in SUBSET UserField /\ more \in SUBSET UserField /\ status \in Kinds
      /\ s \in Seq(Word) /\ t \in Seq(Word) /\ more = bits \cup {"usernames"}
  BY OwnFacts DEF Marked
<1>2. p = Cat(a, s) /\ Pre(r, i, more) = Cat(a, t) /\ k = Len(a) + 2
  BY DEF Pre, FlagsAt
<1>3. v \in Word
  BY <1>1, WordsTyped, Said
<1> HIDE DEF bits, more, status
<1>4. Replaced(s, 2, v) = t /\ s[2] = FlagsWord(bits) /\ Len(s) >= 3 /\ Len(s) = Len(t) /\ Len(s) \in Nat
  BY <1>1, StemMarked, LenProperties
<1> HIDE DEF a, s, t, v
<1> DEFINE two == 2
<1>5. two \in 1 .. Len(s) /\ s[two] = FlagsWord(bits) /\ Replaced(s, two, v) = t /\ k = Len(a) + two
  BY <1>2, <1>4
<1> HIDE DEF two
<1>6. Replaced(Cat(a, s), k, v) = Cat(a, t) /\ k \in 1 .. Len(Cat(a, s)) /\ Cat(a, s)[k] = FlagsWord(bits)
  <2>1. s \in Seq(Word) /\ a \in Seq(Word)
    BY <1>1
  <2> QED
    BY <2>1, <1>3, <1>5, ReplacedBehind, SMTT(40)
<1>7. Len(Cat(a, s)) = Len(a) + Len(s) /\ Len(Cat(a, t)) = Len(a) + Len(t)
  BY <1>1, CatTyped
<1> QED
  BY <1>2, <1>4, <1>6, <1>7 DEF bits, more, v

----------------------------------------------------------------------------
(* The splice, and the revert.                                             *)

\* The place of the own account's list.
PlaceOf(r, i) ==
  [from |-> Len(Pre(r, i, r.users[i].has)) + 1,
   to |-> Len(Pre(r, i, r.users[i].has)) + Len(Own(r, i)) + 1, flags |-> FlagsAt(r, i)]

\* The rewriter has found the place, and the reply is still as it came.
Found(i) ==
  /\ got \in UserReplies /\ IsOwn(got, i) /\ target = PlaceOf(got, i)
  /\ body = ReplyWords(got, Genuine)

\* The reply, cut at the place that was found.
LEMMA FoundParts ==
  ASSUME NEW i, Found(i)
  PROVE  /\ SubSeq(body, 1, target.from - 1) = Pre(got, i, got.users[i].has)
         /\ SubSeq(body, target.from, Len(body)) = Cat(Own(got, i), Post(got, i))
         /\ SubSeq(body, target.to, Len(body)) = Post(got, i)
         /\ target.flags = FlagsAt(got, i) /\ body \in Seq(Word)
         /\ target.from - 1 = Len(Pre(got, i, got.users[i].has))
         /\ Len(Own(got, i)) = 0 <=> target.from = target.to
<1> DEFINE bits == got.users[i].has
           a == Pre(got, i, bits)
           b == Own(got, i)
           c == Post(got, i)
           p == Len(a)
           q == Len(a) + Len(b)
<1>1. got \in UserReplies /\ IsOwn(got, i)
  BY DEF Found
<1>2. a \in Seq(Word) /\ b \in Seq(Word) /\ c \in Seq(Word)
  BY <1>1, OwnFacts
<1>3. body = Cat(a, Cat(b, c))
  BY <1>1, GenuineSplit DEF Found
<1>4. target.from = Len(a) + 1 /\ target.to = Len(a) + Len(b) + 1 /\ target.flags = FlagsAt(got, i)
  BY DEF Found, PlaceOf
<1>5. p = Len(a) /\ q = Len(a) + Len(b)
  OBVIOUS
<1> HIDE DEF a, b, c, p, q
<1>6. /\ body \in Seq(Word)
      /\ SubSeq(body, 1, p) = a /\ SubSeq(body, p + 1, Len(body)) = Cat(b, c)
      /\ SubSeq(body, q + 1, Len(body)) = c
  <2>1. CutIs(body, a, b, c)
    BY <1>2, <1>3, CutAt
  <2> QED
    BY <1>5, <2>1 DEF CutIs
<1>7. Len(a) \in Nat /\ Len(b) \in Nat
  BY <1>2, LenProperties
<1>8. /\ target.from = p + 1 /\ target.to = q + 1 /\ target.from - 1 = p
      /\ Len(b) = 0 <=> target.from = target.to
  BY <1>4, <1>5, <1>7
<1> QED
  BY <1>4, <1>5, <1>6, <1>8 DEF a, b, c

\* The splice puts the list there, behind the bit, and leaves the rest.
LEMMA TriedIs ==
  ASSUME NEW i, Found(i), built \in Seq(Word)
  PROVE  Tried = Cat(Pre(got, i, Marked(got, i)), Cat(built, Post(got, i)))
<1> DEFINE bits == got.users[i].has
           a == Pre(got, i, bits)
           z == Pre(got, i, Marked(got, i))
           c == Post(got, i)
           bc == Cat(built, c)
           all == Cat(a, bc)
           k == target.flags
           v == FlagsWord(Marked(got, i))
<1>1. got \in UserReplies /\ IsOwn(got, i)
  BY DEF Found
<1>2. a \in Seq(Word) /\ c \in Seq(Word) /\ Marked(got, i) \in SUBSET UserField
  BY <1>1, OwnFacts
<1>3. SubSeq(body, 1, target.from - 1) = a /\ SubSeq(body, target.to, Len(body)) = c
      /\ k = FlagsAt(got, i)
  BY FoundParts
<1>4. Replaced(a, k, v) = z /\ a[k] = FlagsWord(bits) /\ k \in 1 .. Len(a)
  BY <1>1, <1>3, PreMarked
<1>5. v \in Word
  BY <1>2, WordsTyped, Said
<1>6. (a \o built) \o c = all
  <2> HIDE DEF a, c
  <2>1. Cat(Cat(a, built), c) = Cat(a, Cat(built, c))
    BY <1>2, CatAssociative
  <2> QED
    BY <2>1 DEF Cat
<1>7. bc \in Seq(Word)
  BY <1>2, CatTyped
<1>8. all[k] = FlagsWord(bits)
  <2> HIDE DEF a, bc, k
  <2>1. /\ Len(a) \in Nat /\ Len(bc) \in Nat
        /\ \A j \in 1 .. Len(a) + Len(bc) : all[j] = IF j <= Len(a) THEN a[j] ELSE bc[j - Len(a)]
    BY <1>2, <1>7, CatTyped
  <2>2. k \in 1 .. Len(a) + Len(bc) /\ k <= Len(a)
    BY <1>4, <2>1
  <2> QED
    BY <1>4, <2>1, <2>2
<1>9. Tried = Replaced(all, k, v)
  <2>1. Tried = WithBit(all)
    BY <1>3, <1>6 DEF Tried
  <2>2. FlagsWord(all[k].bits \cup {"usernames"}) = v
    BY <1>8, WordsAre DEF Marked
  <2> HIDE DEF all, v
  <2> QED
    BY <2>1, <2>2 DEF WithBit, Replaced
<1> HIDE DEF a, bc, k, v
<1>10. Replaced(all, k, v) = Cat(Replaced(a, k, v), bc)
  BY <1>2, <1>4, <1>5, <1>7, ReplacedCat
<1> QED
  BY <1>4, <1>9, <1>10 DEF bc

\* Whether the user came with a list or not.
LEMMA OwnList ==
  ASSUME NEW r \in UserReplies, NEW i, IsOwn(r, i)
  PROVE  /\ "usernames" \in r.users[i].has => Len(Own(r, i)) = 5 /\ Own(r, i) = Listing(1, <<"own">>)
         /\ "usernames" \notin r.users[i].has => Len(Own(r, i)) = 0 /\ Own(r, i) = <<>>
<1>1. CASE "usernames" \in r.users[i].has
  <2> DEFINE one == <<"own">>
  <2>1. one \in Seq(Sayable) /\ Len(one) = 1
    BY DEF Sayable
  <2>2. Own(r, i) = Listing(1, one)
    BY <1>1, <2>1 DEF Own, Shown, Given
  <2> HIDE DEF one
  <2>3. Len(Listing(1, one)) = 2 + 3 * Len(one)
    BY <2>1, ListingIs
  <2> QED
    BY <1>1, <2>1, <2>2, <2>3 DEF one
<1>2. CASE "usernames" \notin r.users[i].has
  BY <1>2 DEF Own, Shown
<1> QED
  BY <1>1, <1>2

\* The revert: whatever was spliced, the reply is word for word what it was.
LEMMA RevertedIs ==
  ASSUME NEW i, Found(i), built \in Seq(Word)
  PROVE  Reverted = body
<1> DEFINE bits == got.users[i].has
           a == Pre(got, i, bits)
           z == Pre(got, i, Marked(got, i))
           bc == Cat(built, Post(got, i))
           oc == Cat(Own(got, i), Post(got, i))
           k == target.flags
           v == FlagsWord(Marked(got, i))
           w == FlagsWord(bits)
           whole == Cat(z, oc)
<1>1. got \in UserReplies /\ IsOwn(got, i)
  BY DEF Found
<1>2. /\ a \in Seq(Word) /\ z \in Seq(Word) /\ Post(got, i) \in Seq(Word) /\ Own(got, i) \in Seq(Word)
      /\ Marked(got, i) \in SUBSET UserField /\ bits \in SUBSET UserField
  BY <1>1, OwnFacts
<1>3. bc \in Seq(Word) /\ oc \in Seq(Word) /\ v \in Word /\ w \in Word
  BY <1>2, CatTyped, WordsTyped, Said
<1>4. Replaced(a, k, v) = z /\ a[k] = w /\ k \in 1 .. Len(a) /\ Len(z) = Len(a)
  BY <1>1, FoundParts, PreMarked
<1>5. Tried = Cat(z, bc)
  BY TriedIs
<1>6. SubSeq(Tried, 1, target.from - 1) = z
  <2> DEFINE none == <<>>
  <2>1. target.from - 1 = Len(a)
    BY FoundParts
  <2>2. none \in Seq(Word)
    OBVIOUS
  <2>3. Cat(bc, none) = bc
    <3> HIDE DEF bc
    <3> QED
      BY <1>3, ConcatEmptySeq DEF Cat
  <2> HIDE DEF z, bc, none
  <2>4. Tried = Cat(z, Cat(bc, none))
    BY <1>5, <2>3
  <2>5. SubSeq(Tried, 1, Len(z)) = z
    <3>1. CutIs(Tried, z, bc, none)
      BY <1>2, <1>3, <2>2, <2>4, CutAt
    <3> QED
      BY <3>1 DEF CutIs
  <2> QED
    BY <1>4, <2>1, <2>5
<1>7. body = Cat(a, oc)
  BY <1>1, GenuineSplit DEF Found
<1>8. SubSeq(Tried, 1, target.from - 1) \o SubSeq(body, target.from, Len(body)) = whole
  BY <1>6, FoundParts DEF Cat
<1>9. z[k] = v
  <2> HIDE DEF a, z, k, v
  <2>1. Becomes(Replaced(a, k, v), a, k, v)
    BY <1>2, <1>3, <1>4, ReplacedIs
  <2> QED
    BY <1>4, <2>1 DEF Becomes
<1>10. CASE target.from = target.to
  <2>1. "usernames" \notin bits
    <3>1. Len(Own(got, i)) = 0
      BY <1>10, FoundParts
    <3>2. "usernames" \in bits => Len(Own(got, i)) = 5
      BY <1>1, OwnList
    <3> QED
      BY <3>1, <3>2
  <2>2. whole[k] = v
    <3> HIDE DEF z, oc, k, v
    <3>1. /\ Len(z) \in Nat /\ Len(oc) \in Nat
          /\ \A j \in 1 .. Len(z) + Len(oc) : whole[j] = IF j <= Len(z) THEN z[j] ELSE oc[j - Len(z)]
      BY <1>2, <1>3, CatTyped
    <3>2. k \in 1 .. Len(z) + Len(oc) /\ k <= Len(z)
      BY <1>4, <3>1
    <3> QED
      BY <1>9, <3>1, <3>2
  <2>3. FlagsWord(whole[k].bits \ {"usernames"}) = w
    <3>1. whole[k].bits = Marked(got, i)
      BY <2>2, WordsAre
    <3>2. Marked(got, i) \ {"usernames"} = bits
      BY <2>1 DEF Marked
    <3> QED
      BY <3>1, <3>2
  <2>4. Reverted = Replaced(whole, k, w)
    <3> HIDE DEF whole, w
    <3> QED
      BY <1>8, <1>10, <2>3 DEF Reverted, Replaced
  <2> HIDE DEF a, z, oc, k, v, w
  <2>5. Replaced(whole, k, w) = Cat(Replaced(z, k, w), oc)
    BY <1>2, <1>3, <1>4, ReplacedCat
  <2>6. Replaced(z, k, w) = a
    <3>1. Replaced(Replaced(a, k, v), k, w) = Replaced(a, k, w)
      BY <1>2, <1>3, <1>4, ReplacedTwice
    <3>2. Replaced(a, k, w) = a
      BY <1>2, <1>4, ReplacedSame
    <3> QED
      BY <1>4, <3>1, <3>2
  <2> QED
    BY <1>7, <2>4, <2>5, <2>6
<1>11. CASE target.from # target.to
  <2>1. "usernames" \in bits
    <3>1. Len(Own(got, i)) # 0
      BY <1>11, FoundParts
    <3> QED
      BY <1>1, <3>1, OwnList
  <2>2. Marked(got, i) = bits
    BY <2>1 DEF Marked
  <2>3. z = a
    BY <2>2
  <2> QED
    BY <1>7, <1>8, <1>11, <2>3 DEF Reverted
<1> QED
  BY <1>10, <1>11

----------------------------------------------------------------------------
(* Where users begin.                                                      *)

\* No user begins in some words.
Plainly(xs) == \A k \in 1 .. Len(xs) : xs[k] # Ctor("user")

\* Those that do are not the own account.
Clean(xs) ==
  \A k \in 1 .. Len(xs) : xs[k] = Ctor("user") => k + 1 \in 1 .. Len(xs) /\ "self" \notin xs[k + 1].bits

\* A user with these fields is first, and no other begins.
Led(xs, bits) ==
  /\ Len(xs) >= 2 /\ xs[1] = Ctor("user") /\ xs[2] = FlagsWord(bits)
  /\ \A k \in 2 .. Len(xs) : xs[k] # Ctor("user")

\* Words in which no user begins can be put behind others.
LEMMA PlainCat ==
  ASSUME NEW a \in Seq(Word), NEW b \in Seq(Word), Plainly(b)
  PROVE  /\ Plainly(a) => Plainly(Cat(a, b))
         /\ \A bits : Led(a, bits) => Led(Cat(a, b), bits)
<1> DEFINE f == Cat(a, b)
<1>1. /\ f \in Seq(Word) /\ Len(f) = Len(a) + Len(b) /\ Len(a) \in Nat /\ Len(b) \in Nat
      /\ \A j \in 1 .. Len(a) + Len(b) : f[j] = IF j <= Len(a) THEN a[j] ELSE b[j - Len(a)]
  BY CatTyped
<1> HIDE DEF f
<1>2. ASSUME NEW k \in 1 .. Len(f), ~(k <= Len(a))
      PROVE  f[k] # Ctor("user")
  <2>1. k \in 1 .. Len(a) + Len(b) /\ k - Len(a) \in 1 .. Len(b)
    BY <1>1, <1>2
  <2>2. f[k] = b[k - Len(a)]
    BY <1>1, <1>2, <2>1
  <2> QED
    BY <2>1, <2>2 DEF Plainly
<1>3. ASSUME NEW k \in 1 .. Len(f), k <= Len(a)
      PROVE  f[k] = a[k] /\ k \in 1 .. Len(a)
  BY <1>1, <1>3
<1>4. Plainly(a) => Plainly(f)
  BY <1>2, <1>3 DEF Plainly
<1>5. ASSUME NEW bits, Led(a, bits)
      PROVE  Led(f, bits)
  <2>1. Len(f) >= 2 /\ 1 \in 1 .. Len(f) /\ 2 \in 1 .. Len(f) /\ 1 <= Len(a) /\ 2 <= Len(a)
    BY <1>1, <1>5 DEF Led
  <2>2. f[1] = a[1] /\ f[2] = a[2]
    BY <1>3, <2>1
  <2>3. \A k \in 2 .. Len(f) : f[k] # Ctor("user")
    <3> SUFFICES ASSUME NEW k \in 2 .. Len(f)
                 PROVE  f[k] # Ctor("user")
      OBVIOUS
    <3>1. k \in 1 .. Len(f) /\ k \in Int /\ Len(a) \in Int
      BY <1>1
    <3>2. CASE k <= Len(a)
      <4>1. f[k] = a[k] /\ k \in 2 .. Len(a)
        BY <1>3, <3>1, <3>2
      <4> QED
        BY <1>5, <4>1 DEF Led
    <3>3. CASE ~(k <= Len(a))
      BY <1>2, <3>1, <3>3
    <3> QED
      BY <3>2, <3>3
  <2> QED
    BY <1>5, <2>1, <2>2, <2>3 DEF Led
<1> QED
  BY <1>4, <1>5 DEF f

\* Clean words behind clean ones are clean.
LEMMA CleanCat ==
  ASSUME NEW a \in Seq(Word), NEW b \in Seq(Word), Clean(a), Clean(b)
  PROVE  Clean(Cat(a, b))
<1> DEFINE f == Cat(a, b)
<1>1. /\ f \in Seq(Word) /\ Len(f) = Len(a) + Len(b) /\ Len(a) \in Nat /\ Len(b) \in Nat
      /\ \A j \in 1 .. Len(a) + Len(b) : f[j] = IF j <= Len(a) THEN a[j] ELSE b[j - Len(a)]
  BY CatTyped
<1> HIDE DEF f
<1>2. ASSUME NEW k \in 1 .. Len(f), f[k] = Ctor("user")
      PROVE  k + 1 \in 1 .. Len(f) /\ "self" \notin f[k + 1].bits
  <2>1. CASE k <= Len(a)
    <3>1. k \in 1 .. Len(a) /\ k \in 1 .. Len(a) + Len(b)
      BY <1>1, <2>1
    <3>2. f[k] = a[k]
      BY <1>1, <2>1, <3>1
    <3>3. k + 1 \in 1 .. Len(a) /\ "self" \notin a[k + 1].bits
      BY <1>2, <3>1, <3>2 DEF Clean
    <3>4. k + 1 \in 1 .. Len(a) + Len(b) /\ k + 1 <= Len(a)
      BY <1>1, <3>3
    <3>5. f[k + 1] = a[k + 1]
      BY <1>1, <3>4
    <3> QED
      BY <1>1, <3>3, <3>4, <3>5
  <2>2. CASE ~(k <= Len(a))
    <3> DEFINE j == k - Len(a)
    <3>1. j \in 1 .. Len(b) /\ k \in 1 .. Len(a) + Len(b)
      BY <1>1, <2>2
    <3>2. f[k] = b[j]
      BY <1>1, <2>2, <3>1
    <3>3. j + 1 \in 1 .. Len(b) /\ "self" \notin b[j + 1].bits
      <4> HIDE DEF j
      <4> QED
        BY <1>2, <3>1, <3>2 DEF Clean
    <3>4. k + 1 \in 1 .. Len(a) + Len(b) /\ ~(k + 1 <= Len(a)) /\ k + 1 - Len(a) = j + 1
      BY <1>1, <2>2, <3>3
    <3>5. f[k + 1] = b[j + 1]
      BY <1>1, <3>4
    <3> QED
      BY <1>1, <3>3, <3>4, <3>5
  <2> QED
    BY <2>1, <2>2
<1> QED
  BY <1>2 DEF Clean, f

\* A user who is not the own account is clean.
LEMMA LedClean ==
  ASSUME NEW xs \in Seq(Word), NEW bits, Led(xs, bits), "self" \notin bits
  PROVE  Clean(xs)
<1>1. Len(xs) \in Nat /\ FlagsWord(bits).bits = bits
  BY LenProperties, WordsAre
<1>2. ASSUME NEW k \in 1 .. Len(xs), xs[k] = Ctor("user")
      PROVE  k + 1 \in 1 .. Len(xs) /\ "self" \notin xs[k + 1].bits
  <2>1. k = 1
    BY <1>1, <1>2 DEF Led
  <2>2. 1 + 1 = 2 /\ 2 \in 1 .. Len(xs)
    BY <1>1 DEF Led
  <2> QED
    BY <1>1, <2>1, <2>2 DEF Led
<1> QED
  BY <1>2 DEF Clean

\* What no user begins with.
LEMMA DifferentWords ==
  /\ \A c : Ctor(c) = Ctor("user") => c = "user"
  /\ \A v : Data(v) # Ctor("user") /\ Data(v) # VectorId
  /\ \A k : Number(k) # Ctor("user") /\ Number(k) # VectorId
  /\ \A b : FlagsWord(b) # Ctor("user") /\ FlagsWord(b) # VectorId
  /\ VectorId # Ctor("user") /\ \A c : Ctor(c) # VectorId
BY WordsAre

\* No user begins in the parts of another.
LEMMA PartsPlain ==
  ASSUME NEW bits \in SUBSET UserField, NEW status \in Kinds
  PROVE  /\ Led(First(bits), bits) /\ Plainly(FirstName(bits)) /\ Plainly(Reasons(bits))
         /\ Plainly(Status(bits, status)) /\ Plainly(Color(bits))
<1>1. Led(First(bits), bits)
  <2> DEFINE f == First(bits)
  <2>1. f[1] = Ctor("user") /\ f[2] = FlagsWord(bits) /\ f[3] = Data("id") /\ Len(f) = 3
    BY DEF First
  <2> HIDE DEF f
  <2>2. \A k \in 2 .. 3 : k = 2 \/ k = 3
    OBVIOUS
  <2>3. \A k \in 2 .. 3 : f[k] # Ctor("user")
    BY <2>1, <2>2, DifferentWords
  <2> QED
    BY <2>1, <2>3 DEF Led, f
<1>2. Plainly(FirstName(bits))
  BY DifferentWords DEF FirstName, Plainly
<1>3. Plainly(Reasons(bits))
  <2>1. Ctor("restrictionReason") # Ctor("user")
    BY DifferentWords
  <2> QED
    BY <2>1, DifferentWords DEF Reasons, Plainly
<1>4. Plainly(Status(bits, status))
  <2>1. /\ Ctor("alien") # Ctor("user") /\ Ctor("emojiStatus") # Ctor("user")
        /\ Ctor("emojiStatusEmpty") # Ctor("user")
    BY DifferentWords
  <2> QED
    BY <2>1, DifferentWords DEF Status, StatusWords, Plainly, Kinds
<1>5. Plainly(Color(bits))
  BY DifferentWords DEF Color, Plainly
<1> QED
  BY <1>1, <1>2, <1>3, <1>4, <1>5

\* None in a list.
LEMMA ListingPlain ==
  ASSUME NEW m \in Nat, NEW names \in Seq(Sayable)
  PROVE  Plainly(Listing(m, names))
<1> DEFINE f == Listing(m, names)
           l == Len(names)
<1>1. /\ Len(f) = 2 + 3 * l /\ f[1] = VectorId /\ f[2] = Number(m) /\ l \in Nat
      /\ \A k \in 1 .. l : /\ f[3 * k] = Ctor("username") /\ f[3 * k + 1].is = "flags"
                           /\ f[3 * k + 2] = Data(names[k])
  BY ListingIs, LenProperties
<1> HIDE DEF f, l
<1>2. ASSUME NEW k \in 1 .. 2 + 3 * l
      PROVE  f[k] # Ctor("user")
  <2>1. CASE k \in {1, 2}
    BY <1>1, <2>1, DifferentWords
  <2>2. CASE k \notin {1, 2}
    <3>1. PICK j \in 1 .. l : k = 3 * j \/ k = 3 * j + 1 \/ k = 3 * j + 2
      <4>1. /\ k \div 3 \in 1 .. l
            /\ k = 3 * (k \div 3) \/ k = 3 * (k \div 3) + 1 \/ k = 3 * (k \div 3) + 2
        BY <1>1, <2>2
      <4> QED
        BY <4>1
    <3>2. f[3 * j] # Ctor("user") /\ f[3 * j + 1] # Ctor("user") /\ f[3 * j + 2] # Ctor("user")
      <4>1. Ctor("username") # Ctor("user") /\ Ctor("user").is = "ctor"
        BY DifferentWords, WordsAre
      <4> QED
        BY <1>1, <4>1, DifferentWords
    <3> QED
      BY <3>1, <3>2
  <2> QED
    BY <2>1, <2>2
<1> QED
  BY <1>1, <1>2 DEF Plainly, f

\* A user begins with its stem ...
LEMMA StemLed ==
  ASSUME NEW bits \in SUBSET UserField, NEW status \in Kinds
  PROVE  Led(Stem(bits, status), bits) /\ Stem(bits, status) \in Seq(Word)
<1> DEFINE f == First(bits)
           g == FirstName(bits)
           h == Reasons(bits)
           s == Status(bits, status)
           fg == Cat(f, g)
           fgh == Cat(fg, h)
<1>1. f \in Seq(Word) /\ g \in Seq(Word) /\ h \in Seq(Word) /\ s \in Seq(Word)
  BY PartsTyped
<1>2. Led(f, bits) /\ Plainly(g) /\ Plainly(h) /\ Plainly(s)
  BY PartsPlain
<1>3. Stem(bits, status) = Cat(fgh, s)
  BY DEF Stem, Cat
<1> HIDE DEF f, g, h, s
<1>4. fg \in Seq(Word) /\ Led(fg, bits)
  BY <1>1, <1>2, CatTyped, PlainCat
<1> HIDE DEF fg
<1>5. fgh \in Seq(Word) /\ Led(fgh, bits)
  BY <1>1, <1>2, <1>4, CatTyped, PlainCat
<1> HIDE DEF fgh
<1>6. Cat(fgh, s) \in Seq(Word) /\ Led(Cat(fgh, s), bits)
  BY <1>1, <1>2, <1>5, CatTyped, PlainCat
<1> QED
  BY <1>3, <1>6

\* ... and in the whole of it no other begins.
LEMMA UserLed ==
  ASSUME NEW u \in User
  PROVE  UserWords(u, Genuine) \in Seq(Word) /\ Led(UserWords(u, Genuine), u.has)
<1> DEFINE bits == Bits(u, Genuine)
           s == Stem(bits, u.status)
           o == Shown(bits, Genuine)
           c == Color(bits)
           so == Cat(s, o)
<1>1. /\ s \in Seq(Word) /\ o \in Seq(Word) /\ c \in Seq(Word) /\ bits \in SUBSET UserField
      /\ u.status \in Kinds /\ UserWords(u, Genuine) \in Seq(Word) /\ bits = u.has
  BY GivenGenuine, UserFacts DEF Bits
<1>2. UserWords(u, Genuine) = Cat(so, c)
  BY UserIs
<1>3. Plainly(o)
  <2>1. CASE "usernames" \in bits
    <3> DEFINE one == Given(Genuine)
    <3>1. one \in Seq(Sayable) /\ Len(one) \in Nat
      BY GivenGenuine, LenProperties
    <3>2. o = Listing(Len(one), one)
      BY <2>1 DEF Shown
    <3> HIDE DEF one
    <3> QED
      BY <3>1, <3>2, ListingPlain
  <2>2. CASE "usernames" \notin bits
    <3>1. o = <<>>
      BY <2>2 DEF Shown
    <3> QED
      BY <3>1 DEF Plainly
  <2> QED
    BY <2>1, <2>2
<1> HIDE DEF bits
<1>4. Led(s, bits) /\ Plainly(c)
  BY <1>1, StemLed, PartsPlain
<1> HIDE DEF s, o, c
<1>5. so \in Seq(Word) /\ Led(so, bits)
  BY <1>1, <1>3, <1>4, CatTyped, PlainCat
<1> HIDE DEF so
<1>6. Led(Cat(so, c), bits)
  BY <1>1, <1>4, <1>5, PlainCat
<1> QED
  BY <1>1, <1>2, <1>6

\* Clean sequences give clean words.
LEMMA FlatClean ==
  ASSUME NEW s \in Seq(Seq(Word)), \A i \in 1 .. Len(s) : Clean(s[i])
  PROVE  Clean(FlattenSeq(s))
<1> DEFINE T == {k \in Nat : \A t \in Seq(Seq(Word)) :
                   Len(t) = k /\ (\A i \in 1 .. Len(t) : Clean(t[i])) => Clean(FlattenSeq(t))}
<1>1. 0 \in T
  <2> SUFFICES ASSUME NEW t \in Seq(Seq(Word)), Len(t) = 0
               PROVE  Clean(FlattenSeq(t))
    OBVIOUS
  <2>1. t = <<>>
    BY EmptySeq
  <2> DEFINE f == FlattenSeq(t)
  <2>2. f = <<>>
    BY <2>1, FlatOfNone
  <2> HIDE DEF f
  <2>3. Len(f) = 0
    BY <2>2
  <2> QED
    BY <2>3 DEF Clean, f
<1>2. ASSUME NEW k \in Nat, k \in T
      PROVE  k + 1 \in T
  <2> SUFFICES ASSUME NEW t \in Seq(Seq(Word)), Len(t) = k + 1,
                      \A i \in 1 .. Len(t) : Clean(t[i])
               PROVE  Clean(FlattenSeq(t))
    OBVIOUS
  <2>1. t # <<>>
    BY EmptySeq
  <2>2. PICK u \in Seq(Seq(Word)), x \in Seq(Word) : t = Append(u, x)
    BY <2>1, SequenceEmptyOrAppend
  <2>3. /\ Len(u) \in Nat /\ Len(t) = Len(u) + 1 /\ t[Len(u) + 1] = x
        /\ \A i \in 1 .. Len(u) : t[i] = u[i]
    BY <2>2, LenProperties, AppendProperties
  <2>4. Len(u) = k /\ Clean(x) /\ \A i \in 1 .. Len(u) : Clean(u[i])
    <3>1. Len(u) = k
      BY <2>3
    <3>2. k + 1 \in 1 .. Len(t) /\ \A i \in 1 .. Len(u) : i \in 1 .. Len(t)
      BY <2>3
    <3> QED
      BY <2>3, <3>1, <3>2
  <2>5. Clean(FlattenSeq(u)) /\ FlattenSeq(u) \in Seq(Word)
    BY <1>2, <2>4, FlatTyped
  <2>6. FlattenSeq(t) = FlattenSeq(u) \o x
    BY <2>2, FlatAppend
  <2> DEFINE a == FlattenSeq(u)
  <2> HIDE DEF a
  <2>7. a \in Seq(Word) /\ Clean(a)
    BY <2>5 DEF a
  <2>8. Clean(Cat(a, x))
    BY <2>4, <2>7, CleanCat
  <2> QED
    BY <2>6, <2>8 DEF a, Cat
<1> HIDE DEF T
<1>3. Nat \subseteq T
  BY <1>1, <1>2, Inductive
<1>4. Len(s) \in T
  BY <1>3, LenProperties
<1> QED
  BY <1>4 DEF T

\* So does what is in front of the users ...
LEMMA FrontClean ==
  ASSUME NEW r \in UserReplies
  PROVE  Clean(Opening(r))
<1> DEFINE f == Opening(r)
<1>1. /\ Len(f) = (IF r.boxed THEN 4 ELSE 2)
      /\ IF r.boxed
           THEN /\ f[1] = Ctor("userFull") /\ f[2] = Data("about")
                /\ f[3] = VectorId /\ f[4] = Number(Len(r.users))
           ELSE f[1] = VectorId /\ f[2] = Number(Len(r.users))
  BY FrontTyped
<1> HIDE DEF f
<1>2. Ctor("userFull") # Ctor("user")
  BY DifferentWords
<1>3. \A k \in 1 .. Len(f) : f[k] # Ctor("user")
  <2>1. CASE r.boxed
    <3>1. \A k \in 1 .. 4 : k = 1 \/ k = 2 \/ k = 3 \/ k = 4
      OBVIOUS
    <3>2. f[1] # Ctor("user") /\ f[2] # Ctor("user") /\ f[3] # Ctor("user") /\ f[4] # Ctor("user")
      BY <1>1, <1>2, <2>1, DifferentWords
    <3>3. Len(f) = 4
      BY <1>1, <2>1
    <3> QED
      BY <3>1, <3>2, <3>3
  <2>2. CASE ~r.boxed
    <3>1. \A k \in 1 .. 2 : k = 1 \/ k = 2
      OBVIOUS
    <3>2. f[1] # Ctor("user") /\ f[2] # Ctor("user")
      BY <1>1, <2>2, DifferentWords
    <3>3. Len(f) = 2
      BY <1>1, <2>2
    <3> QED
      BY <3>1, <3>2, <3>3
  <2> QED
    BY <2>1, <2>2
<1> QED
  BY <1>3 DEF Clean, f

\* ... and everybody around the own account ...
LEMMA OthersClean ==
  ASSUME NEW r \in UserReplies, NEW i, IsOwn(r, i)
  PROVE  Clean(Ahead(r, i)) /\ Clean(Behind(r, i))
<1> DEFINE a == Before(r, i)
           b == After(r, i)
           l == Len(r.users)
<1>1. /\ i \in 1 .. l /\ l \in Nat /\ "self" \in r.users[i].has /\ DOMAIN r.users = 1 .. l
      /\ \A j \in 1 .. l : r.users[j] \in User
  BY ReplyFacts DEF IsOwn
<1>2. ASSUME NEW j \in 1 .. l, j # i
      PROVE  Clean(UserWords(r.users[j], Genuine))
  <2>1. "self" \notin r.users[j].has
    BY <1>1, <1>2, UserRepliesAssumption
  <2>2. r.users[j] \in User
    BY <1>1
  <2> QED
    BY <2>1, <2>2, UserLed, LedClean
<1>3. 0 = 0 \/ Recognised(r)
  OBVIOUS
<1>4. /\ a \in Seq(Placeable(0)) /\ Len(a) = i - 1
      /\ \A j \in 1 .. i - 1 : a[j] = UserWords(r.users[j], Genuine)
      /\ b \in Seq(Placeable(0)) /\ Len(b) = l - i
      /\ \A j \in 1 .. l - i : b[j] = UserWords(r.users[i + j], Genuine)
  BY <1>1, <1>3, AroundTyped
<1> HIDE DEF a, b, l
<1>5. a \in Seq(Seq(Word)) /\ FlattenSeq(a) \in Seq(Word)
  BY <1>4, PlaceableWords
<1>6. b \in Seq(Seq(Word)) /\ FlattenSeq(b) \in Seq(Word)
  BY <1>4, PlaceableWords
<1>7. \A j \in 1 .. Len(a) : Clean(a[j])
  <2>1. \A j \in 1 .. i - 1 : j \in 1 .. l /\ j # i
    BY <1>1
  <2> QED
    BY <1>2, <1>4, <2>1
<1>8. \A j \in 1 .. Len(b) : Clean(b[j])
  <2>1. \A j \in 1 .. l - i : i + j \in 1 .. l /\ i + j # i
    BY <1>1
  <2> QED
    BY <1>2, <1>4, <2>1
<1>9. Clean(FlattenSeq(a)) /\ Clean(FlattenSeq(b))
  BY <1>5, <1>6, <1>7, <1>8, FlatClean
<1> DEFINE h == Opening(r)
           f == FlattenSeq(a)
<1>10. h \in Seq(Word) /\ Clean(h) /\ Ahead(r, i) = Cat(h, f)
  BY FrontTyped, FrontClean DEF Ahead, a
<1>11. f \in Seq(Word) /\ Clean(f)
  BY <1>5, <1>9
<1> HIDE DEF h, f
<1>12. Clean(Cat(h, f))
  BY <1>10, <1>11, CleanCat
<1> QED
  BY <1>9, <1>10, <1>12 DEF Behind, b

\* ... and a reply without it.
LEMMA NobodyClean ==
  ASSUME NEW r \in UserReplies, \A i : ~IsOwn(r, i)
  PROVE  Clean(ReplyWords(r, Genuine)) /\ ReplyWords(r, Genuine) \in Seq(Word)
<1> DEFINE a == Members(r, Genuine)
           l == Len(r.users)
<1>1. l \in Nat /\ \A j \in 1 .. l : r.users[j] \in User /\ "self" \notin r.users[j].has
  BY ReplyFacts DEF IsOwn
<1>2. 0 = 0 \/ Recognised(r)
  OBVIOUS
<1>3. /\ a \in Seq(Placeable(0)) /\ Len(a) = l
      /\ \A j \in 1 .. l : a[j] = UserWords(r.users[j], Genuine)
  <2>1. \A u : (IF "self" \in r.users[u].has THEN Genuine ELSE Genuine) = Genuine
    OBVIOUS
  <2> QED
    BY <1>2, <2>1, MembersTyped, MembersWords, GivenGenuine
<1> HIDE DEF a, l
<1>4. a \in Seq(Seq(Word)) /\ FlattenSeq(a) \in Seq(Word)
  BY <1>3, PlaceableWords
<1>5. \A j \in 1 .. Len(a) : Clean(a[j])
  <2> SUFFICES ASSUME NEW j \in 1 .. Len(a)
               PROVE  Clean(a[j])
    OBVIOUS
  <2>1. r.users[j] \in User /\ "self" \notin r.users[j].has /\ a[j] = UserWords(r.users[j], Genuine)
    BY <1>1, <1>3
  <2>2. Clean(UserWords(r.users[j], Genuine))
    BY <2>1, UserLed, LedClean
  <2> QED
    BY <2>1, <2>2
<1> DEFINE h == Opening(r)
           f == FlattenSeq(a)
<1>6. h \in Seq(Word) /\ Clean(h) /\ ReplyWords(r, Genuine) = Cat(h, f)
  BY FrontTyped, FrontClean, ReplyIs DEF a
<1>7. f \in Seq(Word) /\ Clean(f)
  BY <1>4, <1>5, FlatClean
<1> HIDE DEF h, f
<1>8. Clean(Cat(h, f)) /\ Cat(h, f) \in Seq(Word)
  BY <1>6, <1>7, CleanCat, CatTyped
<1> QED
  BY <1>6, <1>8

\* What stands between two others occurs there.
BetweenAt(w, a, b, c) ==
  /\ Occurs(w, Len(a) + 1, b) /\ w \in Seq(Word) /\ Len(w) = Len(a) + Len(b) + Len(c)
  /\ \A k \in 1 .. Len(a) : w[k] = a[k]
  /\ \A k \in 1 .. Len(b) : w[Len(a) + k] = b[k]
  /\ \A k \in 1 .. Len(c) : w[Len(a) + Len(b) + k] = c[k]

LEMMA OccursBetween ==
  ASSUME NEW a \in Seq(Word), NEW b \in Seq(Word), NEW c \in Seq(Word), NEW w,
         w = Cat(a, Cat(b, c))
  PROVE  BetweenAt(w, a, b, c)
<1> DEFINE p == Len(a) + 1
<1> DEFINE bc == Cat(b, c)
<1>1. /\ bc \in Seq(Word) /\ Len(bc) = Len(b) + Len(c) /\ Len(a) \in Nat /\ Len(b) \in Nat /\ Len(c) \in Nat
      /\ \A i \in 1 .. Len(b) + Len(c) : bc[i] = IF i <= Len(b) THEN b[i] ELSE c[i - Len(b)]
  BY CatTyped
<1>2. w = Cat(a, bc)
  OBVIOUS
<1> HIDE DEF bc
<1>3. /\ w \in Seq(Word) /\ Len(w) = Len(a) + Len(bc)
      /\ \A i \in 1 .. Len(a) + Len(bc) : w[i] = IF i <= Len(a) THEN a[i] ELSE bc[i - Len(a)]
  <2>1. /\ Cat(a, bc) \in Seq(Word) /\ Len(Cat(a, bc)) = Len(a) + Len(bc)
        /\ \A i \in 1 .. Len(a) + Len(bc) : Cat(a, bc)[i] = IF i <= Len(a) THEN a[i] ELSE bc[i - Len(a)]
    BY <1>1, CatTyped
  <2> QED
    BY <1>2, <2>1
<1>4. \A k \in 1 .. Len(a) : w[k] = a[k]
  BY <1>1, <1>3
<1>5. ASSUME NEW k \in 1 .. Len(bc)
      PROVE  w[Len(a) + k] = bc[k]
  <2>1. Len(a) + k \in 1 .. Len(a) + Len(bc) /\ ~(Len(a) + k <= Len(a)) /\ Len(a) + k - Len(a) = k
    BY <1>1
  <2> QED
    BY <1>3, <2>1
<1>6. \A k \in 1 .. Len(b) : w[Len(a) + k] = b[k]
  <2> SUFFICES ASSUME NEW k \in 1 .. Len(b)
               PROVE  w[Len(a) + k] = b[k]
    OBVIOUS
  <2>1. k \in 1 .. Len(bc) /\ k \in 1 .. Len(b) + Len(c) /\ k <= Len(b)
    BY <1>1
  <2>2. bc[k] = b[k]
    BY <1>1, <2>1
  <2> QED
    BY <1>5, <2>1, <2>2
<1>7. ASSUME NEW k \in 1 .. Len(c)
      PROVE  w[Len(a) + Len(b) + k] = c[k]
  <2> DEFINE j == Len(b) + k
  <2>1. j \in 1 .. Len(bc) /\ j \in 1 .. Len(b) + Len(c) /\ ~(j <= Len(b)) /\ j - Len(b) = k
        /\ Len(a) + Len(b) + k = Len(a) + j
    BY <1>1
  <2> HIDE DEF j
  <2>2. bc[j] = c[k]
    BY <1>1, <2>1
  <2>3. w[Len(a) + j] = bc[j]
    BY <1>5, <2>1
  <2> QED
    BY <2>1, <2>2, <2>3
<1>8. Occurs(w, p, b)
  <2>1. p + Len(b) <= Len(w) + 1
    BY <1>1, <1>3
  <2>2. ASSUME NEW k \in 0 .. Len(b) - 1
        PROVE  w[p + k] = b[k + 1]
    <3>1. k + 1 \in 1 .. Len(b) /\ p + k = Len(a) + (k + 1)
      BY <1>1
    <3> QED
      BY <1>6, <3>1
  <2> QED
    BY <2>1, <2>2 DEF Occurs
<1>9. Len(w) = Len(a) + Len(b) + Len(c)
  BY <1>1, <1>3
<1> QED
  BY <1>3, <1>4, <1>6, <1>7, <1>8, <1>9 DEF BetweenAt

\* The own account is where the words in front of it end, and nowhere else.
OwnAt(ws, k, e, r, i) ==
  /\ ws \in Seq(Word) /\ k \in Nat \ {0} /\ e \in Nat /\ k + e <= Len(ws) + 1
  /\ ws[k] = Ctor("user") /\ ws[k + 1] = FlagsWord(r.users[i].has)
  /\ Occurs(ws, k, UserWords(r.users[i], Genuine)) /\ e = Len(UserWords(r.users[i], Genuine))
  /\ \A j \in k + 1 .. k + e - 1 : ws[j] # Ctor("user")
  /\ \A j \in 1 .. Len(ws) : ws[j] = Ctor("user") /\ "self" \in ws[j + 1].bits => j = k

\* In the whole reply.
LEMMA OwnIsOnly ==
  ASSUME NEW r \in UserReplies, NEW i, IsOwn(r, i)
  PROVE  OwnAt(ReplyWords(r, Genuine), Len(Ahead(r, i)) + 1, Len(UserWords(r.users[i], Genuine)), r, i)
<1> DEFINE w == ReplyWords(r, Genuine)
           a == Ahead(r, i)
           u == UserWords(r.users[i], Genuine)
           b == Behind(r, i)
           bits == r.users[i].has
           p == Len(a) + 1
<1>1. w = Cat(a, Cat(u, b))
  BY GivenGenuine, ReplySplit
<1>2. a \in Seq(Word) /\ b \in Seq(Word) /\ r.users[i] \in User /\ Clean(a) /\ Clean(b)
  BY OwnFacts, OthersClean
<1>3. u \in Seq(Word) /\ Led(u, bits)
  BY <1>2, UserLed
<1>4. p = Len(a) + 1
  OBVIOUS
<1>40. FlagsWord(bits).bits = bits
  BY WordsAre
<1> HIDE DEF w, a, u, b, p, bits
<1>5. /\ Occurs(w, p, u) /\ w \in Seq(Word) /\ Len(w) = Len(a) + Len(u) + Len(b)
      /\ \A k \in 1 .. Len(a) : w[k] = a[k]
      /\ \A k \in 1 .. Len(u) : w[Len(a) + k] = u[k]
      /\ \A k \in 1 .. Len(b) : w[Len(a) + Len(u) + k] = b[k]
  <2>1. BetweenAt(w, a, u, b)
    BY <1>1, <1>2, <1>3, OccursBetween
  <2> QED
    BY <1>4, <2>1 DEF BetweenAt
<1>6. Len(a) \in Nat /\ Len(u) \in Nat /\ Len(b) \in Nat
  BY <1>2, <1>3, LenProperties
<1>7. Len(u) >= 2 /\ u[1] = Ctor("user") /\ u[2] = FlagsWord(bits)
      /\ \A k \in 2 .. Len(u) : u[k] # Ctor("user")
  BY <1>3 DEF Led
<1>8. w[p] = Ctor("user") /\ w[p + 1] = FlagsWord(bits)
  <2>1. p = Len(a) + 1 /\ p + 1 = Len(a) + 2 /\ 1 \in 1 .. Len(u) /\ 2 \in 1 .. Len(u)
    BY <1>4, <1>6, <1>7
  <2> QED
    BY <1>5, <1>7, <2>1
<1>9. ASSUME NEW j \in p + 1 .. p + Len(u) - 1
      PROVE  w[j] # Ctor("user")
  <2> DEFINE k == j - Len(a)
  <2>1. k \in 2 .. Len(u) /\ k \in 1 .. Len(u) /\ j = Len(a) + k
    BY <1>4, <1>6
  <2> HIDE DEF k
  <2> QED
    BY <1>5, <1>7, <2>1
<1>10. ASSUME NEW j \in 1 .. Len(w), w[j] = Ctor("user"), "self" \in w[j + 1].bits
       PROVE  j = p
  <2>1. CASE j < p
    <3>1. j \in 1 .. Len(a) /\ j + 1 \in Int
      BY <1>4, <1>6, <2>1
    <3>2. j + 1 \in 1 .. Len(a) /\ "self" \notin a[j + 1].bits
      BY <1>2, <1>5, <1>10, <3>1 DEF Clean
    <3> QED
      BY <1>5, <1>10, <3>2
  <2>2. CASE j > p /\ j <= p + Len(u) - 1
    <3>1. j \in p + 1 .. p + Len(u) - 1
      BY <1>4, <1>6, <2>2
    <3> QED
      BY <1>9, <1>10, <3>1
  <2>3. CASE j > p + Len(u) - 1
    <3> DEFINE k == j - (Len(a) + Len(u))
    <3>1. k \in 1 .. Len(b) /\ j = Len(a) + Len(u) + k
      BY <1>4, <1>5, <1>6, <2>3
    <3> HIDE DEF k
    <3>2. b[k] = Ctor("user")
      BY <1>5, <1>10, <3>1
    <3>3. k + 1 \in 1 .. Len(b) /\ "self" \notin b[k + 1].bits
      BY <1>2, <3>1, <3>2 DEF Clean
    <3>4. j + 1 = Len(a) + Len(u) + (k + 1)
      BY <1>6, <3>1
    <3> QED
      BY <1>5, <1>10, <3>3, <3>4
  <2>4. j \in Int /\ p \in Int /\ Len(u) \in Int
    BY <1>4, <1>6
  <2> QED
    BY <2>1, <2>2, <2>3, <2>4
<1>11. p \in Nat \ {0} /\ p + Len(u) <= Len(w) + 1
  BY <1>4, <1>5, <1>6
<1> QED
  BY <1>5, <1>6, <1>8, <1>9, <1>10, <1>11 DEF OwnAt, w, p, a, u, bits

----------------------------------------------------------------------------
(* pg_cu_find_self_username_target finds the place, and nothing else.      *)

\* Earliest gives the least number of a set.
LEMMA EarliestIs ==
  ASSUME NEW T, T \subseteq Nat, T # {}
  PROVE  Earliest(T) \in T /\ \A y \in T : Earliest(T) <= y
<1>1. \E x \in T : \A y \in T : x <= y
  BY LeastMember
<1> QED
  BY <1>1 DEF Earliest

\* An emoji status has no vector.
LEMMA StatusNoList ==
  ASSUME NEW ws, NEW p \in Nat \ {0}, NEW bits, NEW status \in Kinds,
         Occurs(ws, p, Status(bits, status)), NEW j \in p .. p + Len(Status(bits, status)) - 1
  PROVE  ws[j] # VectorId
<1> DEFINE s == Status(bits, status)
           l == Len(s)
<1>1. l \in Nat /\ \A k \in 1 .. l : s[k] # VectorId
  BY DifferentWords DEF Status, StatusWords, Kinds
<1>2. \A k \in 0 .. l - 1 : ws[p + k] = s[k + 1]
  BY DEF Occurs
<1>3. j \in p .. p + l - 1
  OBVIOUS
<1> HIDE DEF s, l
<1>4. j - p \in 0 .. l - 1 /\ p + (j - p) = j /\ j - p + 1 \in 1 .. l
  BY <1>1, <1>3
<1> QED
  BY <1>1, <1>2, <1>4

\* Where the name of a user ends, and where the reasons of its restriction do.
NameEnds(p, bits) == IF "first_name" \in bits THEN p + 4 ELSE p + 3
ReasonsEnd(a, bits) == IF "restriction_reason" \in bits THEN a + 4 ELSE a
HeadEnds(p, bits, a, b) == a \in Nat /\ b \in Nat /\ a = NameEnds(p, bits) /\ b = ReasonsEnd(a, bits)

\* The vectors in front of the list are the reasons of a restriction.
LEMMA StemNoList ==
  ASSUME NEW ws, NEW p \in Nat \ {0}, NEW bits, NEW status \in Kinds,
         NEW a, NEW b, HeadEnds(p, bits, a, b),
         NEW q \in Nat, StemAt(ws, p, bits, status, a, b, q),
         NEW j \in p + 2 .. q - 1, ws[j] = VectorId
  PROVE  j = a /\ "restriction_reason" \in bits
<1>0. /\ a \in Nat /\ b \in Nat /\ a = (IF "first_name" \in bits THEN p + 4 ELSE p + 3)
      /\ b = IF "restriction_reason" \in bits THEN a + 4 ELSE a
  BY DEF HeadEnds, NameEnds, ReasonsEnd
<1>1. j >= p + 2 /\ j <= q - 1 /\ j \in Int
  OBVIOUS
<1>2. j # p + 2
  BY DifferentWords DEF StemAt
<1>3. "first_name" \in bits => j # p + 3
  BY DifferentWords DEF StemAt
<1>4. a <= j
  BY <1>0, <1>1, <1>2, <1>3
<1>5. ~(j >= b)
  <2> SUFFICES ASSUME j >= b
               PROVE  FALSE
    OBVIOUS
  <2> DEFINE s == Status(bits, status)
  <2>1. q = b + Len(s) /\ Occurs(ws, b, s) /\ b \in Nat \ {0}
    BY DEF StemAt
  <2>2. j \in b .. b + Len(s) - 1
    <3> HIDE DEF s
    <3> QED
      BY <1>1, <2>1
  <2> QED
    BY <2>1, <2>2, StatusNoList
<1>6. "restriction_reason" \in bits
  BY <1>0, <1>4, <1>5
<1>7. b = a + 4
  BY <1>0, <1>6
<1>8. j = a \/ j = a + 1 \/ j = a + 2 \/ j = a + 3
  BY <1>0, <1>1, <1>4, <1>5, <1>7
<1>9. ws[a + 1] # VectorId /\ ws[a + 2] # VectorId /\ ws[a + 3] # VectorId
  BY <1>6, DifferentWords DEF StemAt
<1> QED
  BY <1>6, <1>8, <1>9

\* The first list behind the user is its own, and it is replaced.
LEMMA ReplaceIs ==
  ASSUME NEW ws \in Seq(Word), NEW p \in Nat \ {0}, NEW bits, NEW status \in Kinds,
         NEW a, NEW b, HeadEnds(p, bits, a, b),
         NEW q \in Nat, StemAt(ws, p, bits, status, a, b, q),
         ListBegins(ws, q, 1), ws[q + 2] = Ctor("username"), q + 5 <= Len(ws) + 1,
         \A j \in p + 1 .. q + 4 : ws[j] # Ctor("user")
  PROVE  Replace(ws, p) = [from |-> q, to |-> q + 5, flags |-> p + 1]
<1> DEFINE l == Len(ws)
           T == {k \in p + 1 .. l : ws[k] = Ctor("user")} \cup {l + 1}
           L == ListsOf(ws, p)
<1>1. l \in Nat /\ q >= p + 3 /\ a <= b /\ b <= q /\ p + 3 <= a /\ l + 1 >= q + 5 /\ a \in Nat /\ b \in Nat
  <2>1. l \in Nat /\ a <= b /\ b <= q /\ p + 3 <= a /\ a \in Nat /\ b \in Nat
    BY LenProperties DEF StemAt
  <2>2. l + 1 >= q + 5
    BY <2>1
  <2> QED
    BY <2>1, <2>2
<1>2. NextUser(ws, p) = Earliest(T)
  BY DEF NextUser
<1>3. T \subseteq Nat /\ T # {} /\ \A y \in T : y >= q + 5
  <2>1. \A y \in T : y \in Nat /\ (y = l + 1 \/ (y \in p + 1 .. l /\ ws[y] = Ctor("user")))
    BY <1>1
  <2>2. l + 1 \in T
    OBVIOUS
  <2>3. ASSUME NEW y \in p + 1 .. l, ws[y] = Ctor("user")
        PROVE  y >= q + 5
    <3>1. y \notin p + 1 .. q + 4
      BY <2>3
    <3> QED
      BY <1>1, <3>1
  <2> QED
    BY <1>1, <2>1, <2>2, <2>3
<1> HIDE DEF T, l
<1>4. NextUser(ws, p) \in Nat /\ NextUser(ws, p) >= q + 5
  <2>1. Earliest(T) \in T
    BY <1>3, EarliestIs
  <2> QED
    BY <1>2, <1>3, <2>1
<1>5. ws[q] = VectorId /\ ws[q + 1].n = 1
  BY WordsAre DEF ListBegins
<1>6. NamesEnd(ws, q + 2, 1) = q + 5
  <2>1. q + 2 + 3 * 1 <= l + 1 /\ q + 2 + 3 * 1 = q + 5 /\ q + 2 + 3 * 0 = q + 2
    BY DEF l
  <2>2. \A k \in 0 .. 1 - 1 : k = 0
    OBVIOUS
  <2> QED
    BY <2>1, <2>2 DEF NamesEnd, l
<1>7. q \in L
  <2>1. q \in p + 2 .. NextUser(ws, p) - 2
    BY <1>1, <1>4
  <2>2. q + 5 # 0 /\ 1 > 0
    OBVIOUS
  <2> QED
    BY <1>5, <1>6, <2>1, <2>2 DEF ListsOf
<1>8. ASSUME NEW j \in L
      PROVE  j \in Nat /\ q <= j
  <2>1. /\ j \in p + 2 .. NextUser(ws, p) - 2 /\ ws[j] = VectorId
        /\ NamesEnd(ws, j + 2, ws[j + 1].n) # 0
    BY DEF ListsOf
  <2>2. j \in Nat
    BY <1>4, <2>1
  <2> SUFFICES ASSUME j < q
               PROVE  FALSE
    BY <2>2
  <2>3. j \in p + 2 .. q - 1
    BY <2>1, <2>2
  <2>4. j = a /\ "restriction_reason" \in bits
    BY <2>1, <2>3, StemNoList
  <2>5. ws[a + 1].n = 1 /\ ws[a + 2] = Ctor("restrictionReason")
    BY <2>4, WordsAre DEF StemAt
  <2>6. ws[a + 2] # Ctor("username")
    <3>1. Ctor("restrictionReason").name = "restrictionReason" /\ Ctor("username").name = "username"
      BY WordsAre
    <3> QED
      BY <2>5, <3>1
  <2>7. NamesEnd(ws, a + 2, 1) = 0
    <3>1. 0 \in 0 .. 1 - 1 /\ a + 2 + 3 * 0 = a + 2
      BY <1>1
    <3> QED
      BY <2>6, <3>1 DEF NamesEnd
  <2> QED
    BY <2>1, <2>4, <2>5, <2>7
<1> HIDE DEF L
<1>9. Earliest(L) = q
  <2>1. L \subseteq Nat /\ L # {}
    BY <1>7, <1>8
  <2>2. Earliest(L) \in L /\ \A y \in L : Earliest(L) <= y
    BY <2>1, EarliestIs
  <2>3. q <= Earliest(L) /\ Earliest(L) \in Nat /\ Earliest(L) <= q
    BY <1>7, <1>8, <2>1, <2>2
  <2> QED
    BY <2>3
<1>10. q # 0
  BY <1>1
<1>11. NamesEnd(ws, q + 2, ws[q + 1].n) = q + 5
  BY <1>5, <1>6
<1> QED
  BY <1>9, <1>10, <1>11 DEF Replace, L

\* A user without a list has its place behind the emoji status.
LEMMA InsertIs ==
  ASSUME NEW ws \in Seq(Word), NEW p \in Nat \ {0}, NEW bits, NEW status \in Kinds,
         NEW a, NEW b, HeadEnds(p, bits, a, b),
         NEW q \in Nat, StemAt(ws, p, bits, status, a, b, q)
  PROVE  Insert(ws, p) = IF "emoji_status" \in bits /\ status = "alien" THEN NoTarget
                         ELSE [from |-> q, to |-> q, flags |-> p + 1]
<1>0. /\ a \in Nat /\ b \in Nat /\ a = (IF "first_name" \in bits THEN p + 4 ELSE p + 3)
      /\ b = IF "restriction_reason" \in bits THEN a + 4 ELSE a
  BY DEF HeadEnds, NameEnds, ReasonsEnd
<1> DEFINE l == Len(ws)
           s == SkipStatus(ws, b, bits)
<1>1. l \in Nat /\ a \in Nat \ {0} /\ b \in Nat \ {0} /\ q \in Nat \ {0} /\ p + 3 <= a /\ a <= b /\ b <= q
      /\ q <= l + 1 /\ q = b + Len(Status(bits, status)) /\ Occurs(ws, b, Status(bits, status))
  BY LenProperties DEF StemAt
<1>2. ws[p + 1].bits = bits
  BY WordsAre DEF StemAt
<1>3. SkipName(ws, p + 3, bits) = a
  BY <1>0 DEF SkipName
<1>4. SkipReasons(ws, a, bits) = b
  <2>1. CASE "restriction_reason" \in bits
    <3>1. /\ ws[a] = VectorId /\ ws[a + 1].n = 1 /\ ws[a + 2] = Ctor("restrictionReason")
          /\ b = a + 4
      BY <1>0, <2>1, WordsAre DEF StemAt
    <3>2. a \in DOMAIN ws /\ a + 2 \in DOMAIN ws
      BY <1>1, <3>1
    <3>3. AreReasons(ws, a)
      <4>1. \A k \in 0 .. 1 - 1 : k = 0
        OBVIOUS
      <4>2. a + 2 + 2 * 0 = a + 2
        BY <1>1
      <4> QED
        BY <3>1, <3>2, <4>1, <4>2 DEF AreReasons, IsWord
    <3>4. a + 2 + 2 * 1 = b
      BY <1>1, <3>1
    <3> QED
      BY <2>1, <3>1, <3>3, <3>4 DEF SkipReasons
  <2>2. CASE "restriction_reason" \notin bits
    BY <1>0, <2>2 DEF SkipReasons
  <2> QED
    BY <2>1, <2>2
<1>5. s = IF "emoji_status" \in bits /\ status = "alien" THEN 0 ELSE q
  <2>1. CASE "emoji_status" \notin bits
    <3>1. q = b
      <4>1. Status(bits, status) = <<>> /\ Len(<<>>) = 0
        BY <2>1 DEF Status
      <4> QED
        BY <1>1, <4>1
    <3> QED
      BY <2>1, <3>1 DEF SkipStatus
  <2>2. CASE "emoji_status" \in bits
    <3>1. Occurs(ws, b, StatusWords(status)) /\ q = b + Len(StatusWords(status))
      BY <1>1, <2>2 DEF Status
    <3>2. /\ status = "alien" => ws[b] = Ctor("alien") /\ q = b + 2
          /\ status # "alien" => StatusIs(ws, b, q)
          /\ q <= Len(ws) + 1
      BY <1>1, <3>1, StatusPlace
    <3>3. /\ Ctor("alien") # Ctor("emojiStatusEmpty") /\ Ctor("alien") # Ctor("emojiStatus")
          /\ Ctor("emojiStatus") # Ctor("emojiStatusEmpty")
      <4>1. \A c, d : Ctor(c) = Ctor(d) => c = d
        BY WordsAre
      <4> QED
        BY <4>1
    <3>4. b # 0
      BY <1>1
    <3>5. CASE status = "alien"
      BY <2>2, <3>2, <3>3, <3>4, <3>5 DEF SkipStatus, IsWord
    <3>6. CASE status # "alien"
      <4>1. b \in DOMAIN ws
        <5>1. b + 1 <= q
          BY <1>1, <3>2, <3>6 DEF StatusIs
        <5> QED
          BY <1>1, <5>1
      <4>2. CASE ws[b] = Ctor("emojiStatusEmpty")
        BY <2>2, <3>2, <3>3, <3>4, <3>6, <4>1, <4>2 DEF SkipStatus, IsWord, StatusIs
      <4>3. CASE ws[b] # Ctor("emojiStatusEmpty")
        <5>1. ws[b] = Ctor("emojiStatus")
          BY <3>2, <3>6, <4>3 DEF StatusIs
        <5> DEFINE c == Cardinality({"until"} \cap ws[b + 1].bits)
        <5>2. s = b + 3 + c
          BY <2>2, <3>3, <3>4, <4>1, <4>3, <5>1 DEF SkipStatus, IsWord
        <5>3. CASE "until" \in ws[b + 1].bits
          <6>1. {"until"} \cap ws[b + 1].bits = {"until"}
            BY <5>3
          <6>2. c = 1
            BY <6>1, FS_Singleton
          <6>3. q = b + 4
            BY <3>2, <3>3, <3>6, <5>1, <5>3 DEF StatusIs
          <6> QED
            BY <1>1, <3>6, <5>2, <6>2, <6>3
        <5>4. CASE "until" \notin ws[b + 1].bits
          <6>1. {"until"} \cap ws[b + 1].bits = {}
            BY <5>4
          <6>2. c = 0
            BY <6>1, FS_EmptySet
          <6>3. q = b + 3
            BY <3>2, <3>3, <3>6, <5>1, <5>4 DEF StatusIs
          <6> QED
            BY <3>6, <5>2, <6>2, <6>3
        <5> QED
          BY <5>3, <5>4
      <4> QED
        BY <4>2, <4>3
    <3> QED
      BY <3>5, <3>6
  <2> QED
    BY <2>1, <2>2
<1>6. Insert(ws, p) = IF s = 0 THEN NoTarget ELSE [from |-> s, to |-> s, flags |-> p + 1]
  BY <1>2, <1>3, <1>4 DEF Insert
<1>7. q # 0
  BY <1>1
<1> HIDE DEF s
<1> QED
  BY <1>5, <1>6, <1>7

\* The list has no place behind an emoji status nobody knows, unless it is there.
Placeless(u) == "usernames" \notin u.has /\ "emoji_status" \in u.has /\ u.status = "alien"

\* The place of the own account, at the word it begins with.
LEMMA TargetThere ==
  ASSUME NEW r \in UserReplies, NEW i, IsOwn(r, i), NEW w, w = ReplyWords(r, Genuine),
         NEW k, k = Len(Ahead(r, i)) + 1
  PROVE  /\ TargetOf(w, k) = IF Placeless(r.users[i]) THEN NoTarget ELSE PlaceOf(r, i)
         /\ k \in 1 .. Len(w) - 2 /\ w[k] = Ctor("user") /\ "self" \in w[k + 1].bits
<1> DEFINE u == r.users[i]
           bits == u.has
           status == u.status
           a == NameEnds(k, bits)
           b == ReasonsEnd(a, bits)
           e == Len(UserWords(u, Genuine))
<1>1. u \in User /\ bits \in SUBSET UserField /\ status \in Kinds /\ "self" \in bits
      /\ Ahead(r, i) \in Seq(Word) /\ Stem(bits, status) \in Seq(Word)
  BY OwnFacts
<1>2. OwnAt(w, k, e, r, i)
  BY OwnIsOnly
<1>3. /\ w \in Seq(Word) /\ k \in Nat \ {0} /\ k + e <= Len(w) + 1 /\ w[k] = Ctor("user")
      /\ w[k + 1] = FlagsWord(bits) /\ Occurs(w, k, UserWords(u, Genuine)) /\ e \in Nat
      /\ \A j \in k + 1 .. k + e - 1 : w[j] # Ctor("user")
  BY <1>2 DEF OwnAt
<1>4. w[k + 1].bits = bits
  BY <1>3, WordsAre
<1>5. Bits(u, Genuine) = bits
  BY DEF Bits
<1>6. PICK q \in Nat, f \in Nat, z \in Nat :
        UserAt(w, k, u, Genuine, q, f, z) /\ z = k + Len(UserWords(u, Genuine)) /\ z <= Len(w) + 1
  <2> HIDE DEF u
  <2> QED
    BY <1>1, <1>3, GivenGenuine, UserParts
<1>7. /\ q = k + Len(Stem(bits, status)) /\ Occurs(w, k, Stem(bits, status))
      /\ f = q + Len(Own(r, i)) /\ Occurs(w, q, Own(r, i))
      /\ z = f + Len(Color(bits)) /\ z = k + e
  BY <1>5, <1>6 DEF UserAt, Own
<1>8. /\ a \in Nat /\ a = (IF "first_name" \in bits THEN k + 4 ELSE k + 3)
      /\ b \in Nat /\ b = (IF "restriction_reason" \in bits THEN a + 4 ELSE a)
      /\ HeadEnds(k, bits, a, b)
  <2>1. a \in Nat /\ a = (IF "first_name" \in bits THEN k + 4 ELSE k + 3)
    BY <1>3 DEF NameEnds
  <2> HIDE DEF a
  <2>2. b \in Nat /\ b = (IF "restriction_reason" \in bits THEN a + 4 ELSE a)
    BY <2>1 DEF ReasonsEnd
  <2> QED
    BY <2>1, <2>2 DEF HeadEnds, a
<1> HIDE DEF a, b, bits, status
<1>9. StemAt(w, k, bits, status, a, b, q)
  BY <1>1, <1>3, <1>7, <1>8, StemParts
<1>10. k + 3 <= q /\ q <= Len(w) + 1 /\ Len(w) \in Nat
  <2>1. k + 3 <= a /\ a <= b /\ b <= q /\ q <= Len(w) + 1
    BY <1>9 DEF StemAt
  <2>2. Len(w) \in Nat
    BY <1>3, LenProperties
  <2> QED
    BY <1>3, <1>8, <2>1, <2>2
<1>11. k \in 1 .. Len(w) - 2
  BY <1>3, <1>10
<1>12. q = Len(Pre(r, i, bits)) + 1 /\ k + 1 = FlagsAt(r, i)
  <2> DEFINE x == Ahead(r, i)
             y == Stem(bits, status)
  <2>1. x \in Seq(Word) /\ y \in Seq(Word)
    BY <1>1
  <2>2. Pre(r, i, bits) = Cat(x, y) /\ k = Len(x) + 1 /\ q = k + Len(y) /\ FlagsAt(r, i) = Len(x) + 2
    BY <1>7 DEF Pre, FlagsAt, status, u
  <2> HIDE DEF x, y
  <2>3. Len(Cat(x, y)) = Len(x) + Len(y) /\ Len(x) \in Nat /\ Len(y) \in Nat
    BY <2>1, CatTyped
  <2> QED
    BY <2>2, <2>3
<1>13. CASE "usernames" \in bits
  <2>1. Len(Own(r, i)) = 5 /\ Own(r, i) = Listing(1, <<"own">>)
    BY <1>13, OwnList DEF bits, u
  <2> DEFINE one == <<"own">>
  <2>2. one \in Seq(Sayable) /\ Len(one) = 1 /\ 1 <= MaxElements
    BY DEF Sayable, MaxElements
  <2>3. Occurs(w, q, Listing(1, one)) /\ q \in Nat \ {0}
    BY <1>3, <1>7, <1>10, <2>1
  <2> HIDE DEF one
  <2>4. ListAt(w, q, 1, Len(one), q + 2, q + Len(Listing(1, one)))
    BY <1>3, <2>2, <2>3, ListingPlace
  <2>5. ListBegins(w, q, 1) /\ w[q + 2 + 3 * 0] = Ctor("username")
    <3>1. 0 \in 0 .. Len(one) - 1
      BY <2>2
    <3> QED
      BY <2>4, <3>1 DEF ListAt
  <2>6. w[q + 2] = Ctor("username")
    <3>1. q + 2 + 3 * 0 = q + 2
      OBVIOUS
    <3> QED
      BY <2>5, <3>1
  <2>7. f = q + 5 /\ f <= z /\ z <= Len(w) + 1
    <3>1. Len(Color(bits)) \in Nat
      BY <1>1, PartsTyped, LenProperties
    <3> QED
      BY <1>6, <1>7, <2>1, <3>1
  <2>8. q + 5 <= Len(w) + 1
    BY <1>10, <2>7
  <2>9. \A j \in k + 1 .. q + 4 : w[j] # Ctor("user")
    <3>1. \A j \in k + 1 .. q + 4 : j \in k + 1 .. k + e - 1
      BY <1>3, <1>7, <2>7
    <3> QED
      BY <1>3, <3>1
  <2>10. Replace(w, k) = [from |-> q, to |-> q + 5, flags |-> k + 1]
    <3>1. w \in Seq(Word) /\ k \in Nat \ {0} /\ status \in Kinds /\ HeadEnds(k, bits, a, b)
      BY <1>1, <1>3, <1>8
    <3>2. ListBegins(w, q, 1)
      BY <2>5
    <3> QED
      BY <1>9, <2>6, <2>8, <2>9, <3>1, <3>2, ReplaceIs
  <2>11. TargetOf(w, k) = Replace(w, k)
    BY <1>4, <1>13 DEF TargetOf
  <2>12. PlaceOf(r, i) = [from |-> q, to |-> q + 5, flags |-> k + 1]
    <3> DEFINE m == Len(Pre(r, i, bits))
    <3>1. PlaceOf(r, i) = [from |-> m + 1, to |-> m + 5 + 1, flags |-> k + 1]
      BY <1>12, <2>1 DEF PlaceOf, bits, u
    <3>2. Pre(r, i, bits) \in Seq(Word)
      BY <1>1, OwnFacts
    <3>3. m \in Nat
      BY <3>2, LenProperties
    <3>4. q = m + 1
      BY <1>12
    <3> HIDE DEF m
    <3>5. m + 5 + 1 = q + 5
      BY <3>3, <3>4
    <3> QED
      BY <3>1, <3>4, <3>5
  <2>13. ~Placeless(u)
    BY <1>13 DEF Placeless, bits
  <2> QED
    BY <1>1, <1>3, <1>4, <1>11, <2>10, <2>11, <2>12, <2>13
<1>14. CASE "usernames" \notin bits
  <2>1. Len(Own(r, i)) = 0
    BY <1>14, OwnList DEF bits, u
  <2>2. Insert(w, k) = IF "emoji_status" \in bits /\ status = "alien" THEN NoTarget
                       ELSE [from |-> q, to |-> q, flags |-> k + 1]
    <3>1. w \in Seq(Word) /\ k \in Nat \ {0} /\ status \in Kinds /\ HeadEnds(k, bits, a, b)
      BY <1>1, <1>3, <1>8
    <3> QED
      BY <1>9, <3>1, InsertIs
  <2>3. TargetOf(w, k) = Insert(w, k)
    BY <1>4, <1>14 DEF TargetOf
  <2>4. PlaceOf(r, i) = [from |-> q, to |-> q, flags |-> k + 1]
    <3> DEFINE m == Len(Pre(r, i, bits))
    <3>1. PlaceOf(r, i) = [from |-> m + 1, to |-> m + 0 + 1, flags |-> k + 1]
      BY <1>12, <2>1 DEF PlaceOf, bits, u
    <3>2. Pre(r, i, bits) \in Seq(Word)
      BY <1>1, OwnFacts
    <3>3. m \in Nat
      BY <3>2, LenProperties
    <3>4. q = m + 1
      BY <1>12
    <3> HIDE DEF m
    <3>5. m + 0 + 1 = q
      BY <3>3, <3>4
    <3> QED
      BY <3>1, <3>4, <3>5
  <2>5. Placeless(u) <=> "emoji_status" \in bits /\ status = "alien"
    BY <1>14 DEF Placeless, bits, status
  <2> QED
    BY <1>1, <1>3, <1>4, <1>11, <2>2, <2>3, <2>4, <2>5
<1> QED
  BY <1>13, <1>14

\* The finder gives up or gives the place of the own account's list: never another
\* user's, and never the reasons of a restriction.
THEOREM FindTargetIs ==
  ASSUME NEW r \in UserReplies
  PROVE  \/ FindTarget(ReplyWords(r, Genuine)) = NoTarget
         \/ \E i : IsOwn(r, i) /\ FindTarget(ReplyWords(r, Genuine)) = PlaceOf(r, i)
<1> DEFINE w == ReplyWords(r, Genuine)
           S == {k \in 1 .. Len(w) - 2 : /\ w[k] = Ctor("user") /\ "self" \in w[k + 1].bits
                                         /\ TargetOf(w, k) # NoTarget}
<1>1. FindTarget(w) = IF Earliest(S) = 0 THEN NoTarget ELSE TargetOf(w, Earliest(S))
  BY DEF FindTarget
<1>2. CASE \A i : ~IsOwn(r, i)
  <2>1. Clean(w) /\ w \in Seq(Word)
    BY <1>2, NobodyClean
  <2>2. Len(w) \in Nat
    BY <2>1, LenProperties
  <2> HIDE DEF w
  <2>3. S = {}
    <3> SUFFICES ASSUME NEW k \in 1 .. Len(w) - 2, w[k] = Ctor("user"), "self" \in w[k + 1].bits
                 PROVE  FALSE
      OBVIOUS
    <3>1. k \in 1 .. Len(w)
      BY <2>2
    <3> QED
      BY <2>1, <3>1 DEF Clean
  <2>4. Earliest(S) = 0
    BY <2>3 DEF Earliest
  <2> QED
    BY <1>1, <2>4 DEF w
<1>3. ASSUME NEW i, IsOwn(r, i)
      PROVE  FindTarget(w) = NoTarget \/ FindTarget(w) = PlaceOf(r, i)
  <2> DEFINE p == Len(Ahead(r, i)) + 1
  <2>1. OwnAt(w, p, Len(UserWords(r.users[i], Genuine)), r, i)
    BY <1>3, OwnIsOnly
  <2>2. w \in Seq(Word) /\ \A j \in 1 .. Len(w) : w[j] = Ctor("user") /\ "self" \in w[j + 1].bits => j = p
    BY <2>1 DEF OwnAt
  <2>3. Len(w) \in Nat
    BY <2>2, LenProperties
  <2>4. w = ReplyWords(r, Genuine) /\ p = Len(Ahead(r, i)) + 1
    OBVIOUS
  <2> HIDE DEF w, p
  <2>5. TargetOf(w, p) = IF Placeless(r.users[i]) THEN NoTarget ELSE PlaceOf(r, i)
    BY <1>3, <2>4, TargetThere
  <2>6. S \subseteq {p}
    <3> SUFFICES ASSUME NEW k \in 1 .. Len(w) - 2, w[k] = Ctor("user"), "self" \in w[k + 1].bits
                 PROVE  k = p
      OBVIOUS
    <3>1. k \in 1 .. Len(w)
      BY <2>3
    <3> QED
      BY <2>2, <3>1
  <2>7. Earliest(S) = 0 \/ Earliest(S) = p
    <3>1. S \subseteq Nat
      BY <2>3
    <3> HIDE DEF S
    <3>2. CASE S = {}
      BY <3>2 DEF Earliest
    <3>3. CASE S # {}
      <4>1. Earliest(S) \in S
        BY <3>1, <3>3, EarliestIs
      <4> QED
        BY <2>6, <4>1
    <3> QED
      BY <3>2, <3>3
  <2> HIDE DEF S
  <2> QED
    BY <1>1, <2>5, <2>7
<1> QED
  BY <1>2, <1>3 DEF w

\* A reply a list can be put into has a place for it.
THEOREM FindsPlace ==
  ASSUME NEW r \in UserReplies, Rewritable(r)
  PROVE  FindTarget(ReplyWords(r, Genuine)) # NoTarget
<1> DEFINE w == ReplyWords(r, Genuine)
           S == {k \in 1 .. Len(w) - 2 : /\ w[k] = Ctor("user") /\ "self" \in w[k + 1].bits
                                         /\ TargetOf(w, k) # NoTarget}
<1>1. FindTarget(w) = IF Earliest(S) = 0 THEN NoTarget ELSE TargetOf(w, Earliest(S))
  BY DEF FindTarget
<1>2. PICK i : IsOwn(r, i)
  BY ReplyFacts DEF Rewritable, IsOwn
<1> DEFINE p == Len(Ahead(r, i)) + 1
<1>3. w = ReplyWords(r, Genuine) /\ p = Len(Ahead(r, i)) + 1
  OBVIOUS
<1> HIDE DEF w, p
<1>4. /\ TargetOf(w, p) = IF Placeless(r.users[i]) THEN NoTarget ELSE PlaceOf(r, i)
      /\ p \in 1 .. Len(w) - 2 /\ w[p] = Ctor("user") /\ "self" \in w[p + 1].bits
  BY <1>2, <1>3, TargetThere
<1>5. ~Placeless(r.users[i])
  BY <1>2, ReplyFacts DEF IsOwn, Rewritable, Placeless
<1>6. Ahead(r, i) \in Seq(Word)
  BY <1>2, OwnFacts
<1>7. PlaceOf(r, i) # NoTarget
  <2>1. FlagsAt(r, i) # 0
    BY <1>6, LenProperties DEF FlagsAt
  <2> QED
    BY <2>1 DEF PlaceOf, NoTarget
<1>8. p \in S
  BY <1>4, <1>5, <1>7
<1>9. S \subseteq Nat
  BY <1>4
<1>10. Earliest(S) \in S
  <2> HIDE DEF S
  <2> QED
    BY <1>8, <1>9, EarliestIs
<1>11. \A k \in S : k # 0 /\ TargetOf(w, k) # NoTarget
  BY <1>4
<1> HIDE DEF S
<1> QED
  BY <1>1, <1>10, <1>11 DEF w

----------------------------------------------------------------------------
(* The validator: it passes a list whose count is right, and no other.     *)

\* A reply with a list that says it has m usernames and has these.
Counted(r, i, m, names) ==
  Cat(Pre(r, i, Marked(r, i)), Cat(Listing(m, names), Post(r, i)))

\* Where its parts are: the own account at p, its list at q, and what is behind it at e.
LaidAt(w, r, i, m, names, p, q, e, z) ==
  /\ w \in Seq(Word) /\ p \in Nat \ {0} /\ q \in Nat \ {0} /\ e \in Nat \ {0} /\ z \in Nat \ {0}
  /\ Occurs(w, 1, Opening(r)) /\ Occurs(w, 1 + Len(Opening(r)), FlattenSeq(Before(r, i)))
  /\ p = 1 + Len(Opening(r)) + Len(FlattenSeq(Before(r, i)))
  /\ Occurs(w, p, Stem(Marked(r, i), r.users[i].status))
  /\ q = p + Len(Stem(Marked(r, i), r.users[i].status))
  /\ Occurs(w, q, Listing(m, names)) /\ e = q + Len(Listing(m, names))
  /\ Occurs(w, e, Color(r.users[i].has)) /\ z = e + Len(Color(r.users[i].has))
  /\ Occurs(w, z, Behind(r, i)) /\ z + Len(Behind(r, i)) = Len(w) + 1

\* Seven places in words that are six parts, one behind the other.
SevenAt(w, h, f, s, o, c, b) ==
  \E n1, p, q, e, z \in Nat \ {0} :
    /\ w \in Seq(Word) /\ Occurs(w, 1, h) /\ n1 = 1 + Len(h) /\ Occurs(w, n1, f)
    /\ p = n1 + Len(f) /\ Occurs(w, p, s) /\ q = p + Len(s) /\ Occurs(w, q, o)
    /\ e = q + Len(o) /\ Occurs(w, e, c) /\ z = e + Len(c) /\ Occurs(w, z, b)
    /\ z + Len(b) = Len(w) + 1

LEMMA SevenJoined ==
  ASSUME NEW h \in Seq(Word), NEW f \in Seq(Word), NEW s \in Seq(Word), NEW o \in Seq(Word),
         NEW c \in Seq(Word), NEW b \in Seq(Word), NEW w,
         w = Cat(Cat(Cat(h, f), s), Cat(o, Cat(c, b)))
  PROVE  SevenAt(w, h, f, s, o, c, b)
<1> DEFINE hf == Cat(h, f)
           hfs == Cat(hf, s)
           cb == Cat(c, b)
           ocb == Cat(o, cb)
           one == 1
           n1 == one + Len(h)
           p == n1 + Len(f)
           q == one + Len(hfs)
           e == q + Len(o)
           z == e + Len(c)
<1>1. hf \in Seq(Word) /\ cb \in Seq(Word) /\ Len(hf) = Len(h) + Len(f) /\ Len(cb) = Len(c) + Len(b)
  BY CatTyped
<1>2. w = Cat(hfs, ocb) /\ hfs = Cat(hf, s) /\ hf = Cat(h, f) /\ ocb = Cat(o, cb) /\ cb = Cat(c, b)
  OBVIOUS
<1>3. n1 = one + Len(h) /\ p = n1 + Len(f) /\ q = one + Len(hfs) /\ e = q + Len(o) /\ z = e + Len(c)
  OBVIOUS
<1>4. one \in Nat \ {0} /\ one = 1
  OBVIOUS
<1> HIDE DEF n1, p, q, e, z, one, hf, cb
<1>5. hfs \in Seq(Word) /\ ocb \in Seq(Word) /\ Len(hfs) = Len(hf) + Len(s) /\ Len(ocb) = Len(o) + Len(cb)
  BY <1>1, CatTyped
<1> HIDE DEF hfs, ocb
<1>6. w \in Seq(Word) /\ Len(w) = Len(hfs) + Len(ocb)
  <2>1. Cat(hfs, ocb) \in Seq(Word) /\ Len(Cat(hfs, ocb)) = Len(hfs) + Len(ocb)
    BY <1>5, CatTyped
  <2> QED
    BY <1>2, <2>1
<1>7. Occurs(w, one, Cat(hfs, ocb))
  BY <1>2, <1>4, <1>6, OccursWhole
<1>8. Occurs(w, one, hfs) /\ Occurs(w, one + Len(hfs), ocb) /\ one + Len(hfs) \in Nat \ {0}
  BY <1>4, <1>5, <1>6, <1>7, OccursJoined
<1>9. Occurs(w, one, Cat(hf, s)) /\ Occurs(w, q, Cat(o, cb)) /\ q \in Nat \ {0}
  BY <1>2, <1>3, <1>8
<1>10. Occurs(w, one, hf) /\ Occurs(w, one + Len(hf), s) /\ one + Len(hf) \in Nat \ {0}
  BY <1>1, <1>4, <1>6, <1>9, OccursJoined
<1>11. Occurs(w, one, Cat(h, f))
  BY <1>2, <1>10
<1>12. Occurs(w, one, h) /\ Occurs(w, one + Len(h), f) /\ one + Len(h) \in Nat \ {0}
  BY <1>4, <1>6, <1>11, OccursJoined
<1>13. Occurs(w, q, o) /\ Occurs(w, q + Len(o), cb) /\ q + Len(o) \in Nat \ {0}
  BY <1>1, <1>6, <1>9, OccursJoined
<1>14. Occurs(w, e, Cat(c, b)) /\ e \in Nat \ {0}
  BY <1>2, <1>3, <1>13
<1>15. Occurs(w, e, c) /\ Occurs(w, e + Len(c), b) /\ e + Len(c) \in Nat \ {0}
  BY <1>6, <1>14, OccursJoined
<1>16. /\ Len(h) \in Nat /\ Len(f) \in Nat /\ Len(s) \in Nat /\ Len(o) \in Nat /\ Len(c) \in Nat
       /\ Len(b) \in Nat
  BY LenProperties
<1>17. p = one + Len(hf) /\ p \in Nat \ {0} /\ n1 \in Nat \ {0}
  <2>1. n1 = one + Len(h) /\ p = n1 + Len(f) /\ Len(hf) = Len(h) + Len(f)
    BY <1>1, <1>3
  <2>2. Len(h) \in Nat /\ Len(f) \in Nat
    BY <1>16
  <2>3. n1 \in Nat \ {0}
    BY <1>4, <2>1, <2>2
  <2> QED
    BY <1>4, <2>1, <2>2, <2>3
<1>18. q = p + Len(s)
  <2>1. q = one + (Len(hf) + Len(s))
    BY <1>3, <1>5
  <2>2. Len(hf) \in Nat
    BY <1>1, LenProperties
  <2> QED
    BY <1>4, <1>16, <1>17, <2>1, <2>2
<1>19. z + Len(b) = Len(w) + 1
  <2>1. Len(hfs) \in Nat
    BY <1>5, LenProperties
  <2>2. Len(w) = Len(hfs) + (Len(o) + (Len(c) + Len(b)))
    BY <1>1, <1>5, <1>6
  <2> QED
    BY <1>3, <1>4, <1>16, <2>1, <2>2
<1>20. Occurs(w, 1, h)
  BY <1>4, <1>12
<1>21. n1 = 1 + Len(h)
  BY <1>3, <1>4
<1>22. Occurs(w, n1, f) /\ Occurs(w, p, s) /\ Occurs(w, z, b) /\ z \in Nat \ {0}
  BY <1>3, <1>10, <1>12, <1>15, <1>17
<1> QED
  BY <1>3, <1>6, <1>9, <1>13, <1>14, <1>15, <1>17, <1>18, <1>19, <1>20, <1>21, <1>22
  DEF SevenAt

\* It is laid out like that.
LEMMA CountedAt ==
  ASSUME NEW r \in UserReplies, NEW i, IsOwn(r, i), NEW m \in Nat, NEW names \in Seq(Sayable)
  PROVE  \E p, q, e, z : LaidAt(Counted(r, i, m, names), r, i, m, names, p, q, e, z)
<1> DEFINE h == Opening(r)
           f == FlattenSeq(Before(r, i))
           s == Stem(Marked(r, i), r.users[i].status)
           o == Listing(m, names)
           c == Color(r.users[i].has)
           b == Behind(r, i)
           w == Counted(r, i, m, names)
<1>1. h \in Seq(Word) /\ f \in Seq(Word) /\ s \in Seq(Word) /\ o \in Seq(Word) /\ b \in Seq(Word)
  <2>1. i \in 1 .. Len(r.users)
    BY DEF IsOwn
  <2> QED
    BY <2>1, OwnFacts, FrontTyped, AheadTyped, ListingIs
<1>2. c \in Seq(Word)
  BY OwnFacts, PartsTyped
<1>3. w = Cat(Cat(Cat(h, f), s), Cat(o, Cat(c, b)))
  BY DEF Counted, Pre, Post, Ahead
<1> HIDE DEF h, f, s, o, c, b, w
<1>4. SevenAt(w, h, f, s, o, c, b)
  BY <1>1, <1>2, <1>3, SevenJoined
<1>5. PICK n1 \in Nat \ {0}, p \in Nat \ {0}, q \in Nat \ {0}, e \in Nat \ {0}, z \in Nat \ {0} :
           /\ w \in Seq(Word) /\ Occurs(w, 1, h) /\ n1 = 1 + Len(h) /\ Occurs(w, n1, f)
           /\ p = n1 + Len(f) /\ Occurs(w, p, s) /\ q = p + Len(s) /\ Occurs(w, q, o)
           /\ e = q + Len(o) /\ Occurs(w, e, c) /\ z = e + Len(c) /\ Occurs(w, z, b)
           /\ z + Len(b) = Len(w) + 1
  BY <1>4 DEF SevenAt
<1>6. LaidAt(w, r, i, m, names, p, q, e, z)
  <2>1. Occurs(w, 1 + Len(h), f) /\ p = 1 + Len(h) + Len(f)
    BY <1>5
  <2> QED
    BY <1>5, <2>1 DEF LaidAt, h, f, s, o, c, b
<1> QED
  BY <1>6 DEF w

\* The reply is a users.userFull that the users begin behind.
LEMMA FrontRead ==
  ASSUME NEW r \in UserReplies, NEW w \in Seq(Word), Occurs(w, 1, Opening(r)),
         NEW n1, n1 = 1 + Len(Opening(r))
  PROVE  /\ r.boxed => FullIs(w, Len(r.users)) /\ n1 = 5
         /\ ~r.boxed => w[1] = VectorId
<1>1. /\ Len(Opening(r)) = (IF r.boxed THEN 4 ELSE 2)
      /\ 1 + Len(Opening(r)) <= Len(w) + 1
      /\ \A j \in 0 .. Len(Opening(r)) - 1 : w[1 + j] = Opening(r)[j + 1]
  BY FrontTyped DEF Occurs
<1>2. CASE r.boxed
  <2>1. Len(Opening(r)) = 4
    BY <1>1, <1>2
  <2>2. Len(w) \in Nat
    BY LenProperties
  <2>3. /\ n1 = 5 /\ Len(w) >= 4
        /\ w[1] = Opening(r)[1] /\ w[3] = Opening(r)[3] /\ w[4] = Opening(r)[4]
    <3>1. \A j \in 0 .. 3 : w[1 + j] = Opening(r)[j + 1]
      BY <1>1, <2>1
    <3>2. 5 <= Len(w) + 1
      BY <1>1, <2>1
    <3>3. w[1 + 0] = Opening(r)[0 + 1] /\ w[1 + 2] = Opening(r)[2 + 1] /\ w[1 + 3] = Opening(r)[3 + 1]
      BY <3>1
    <3> QED
      BY <2>1, <2>2, <3>2, <3>3
  <2> QED
    BY <1>2, <2>3, FrontTyped, ReplyFacts DEF FullIs
<1>3. CASE ~r.boxed
  <2>1. Len(Opening(r)) = 2 /\ Opening(r)[1] = VectorId
    BY <1>1, <1>3, FrontTyped
  <2>2. w[1 + 0] = Opening(r)[0 + 1]
    BY <1>1, <2>1
  <2> QED
    BY <1>3, <2>1, <2>2
<1> QED
  BY <1>2, <1>3

\* The validator stops at the bare vector of users.getUsers.
LEMMA BareFails ==
  ASSUME NEW r \in UserReplies, ~r.boxed, NEW w \in Seq(Word), Occurs(w, 1, Opening(r))
  PROVE  ~Validate(w)
<1>1. w[1] = VectorId
  BY FrontRead
<1>2. Unreadable(w, 1)
  BY <1>1, WordsAre DEF Unreadable
<1> QED
  BY <1>2, WalkCannotBegin DEF Validate

\* A list that says it has more usernames than it has, or fewer, does not pass.
THEOREM MiscountedFails ==
  ASSUME NEW r \in UserReplies, NEW i, IsOwn(r, i), NEW m \in Nat, NEW names \in Seq(Sayable),
         NEW w, w = Counted(r, i, m, names), Validate(w), m <= MaxElements
  PROVE  r.boxed /\ m = Len(names)
<1> DEFINE l == Len(names)
           bits == Marked(r, i)
           status == r.users[i].status
           a == i - 1
           b == Len(r.users) - i
<1>1. PICK p \in Nat \ {0}, q \in Nat \ {0}, e \in Nat \ {0}, z \in Nat \ {0} :
        LaidAt(w, r, i, m, names, p, q, e, z)
  <2>1. PICK p, q, e, z : LaidAt(w, r, i, m, names, p, q, e, z)
    BY CountedAt
  <2>2. p \in Nat \ {0} /\ q \in Nat \ {0} /\ e \in Nat \ {0} /\ z \in Nat \ {0}
    BY <2>1 DEF LaidAt
  <2> QED
    BY <2>1, <2>2
<1>2. w \in Seq(Word) /\ Occurs(w, 1, Opening(r))
  BY <1>1 DEF LaidAt
<1>3. r.boxed
  BY <1>2, BareFails, ReplyFacts
<1>4. FullIs(w, Len(r.users)) /\ 1 + Len(Opening(r)) = 5
  BY <1>2, <1>3, FrontRead
<1>5. /\ a \in Nat /\ b \in Nat /\ l \in Nat /\ a + 1 + b = Len(r.users)
      /\ i \in 1 .. Len(r.users) /\ bits \in SUBSET UserField /\ status \in Kinds
      /\ "usernames" \in bits /\ ("color" \in bits <=> "color" \in r.users[i].has)
  <2>1. i \in 1 .. Len(r.users) /\ bits \in SUBSET UserField /\ status \in Kinds
    BY OwnFacts
  <2>2. Len(r.users) \in Nat
    BY ReplyFacts
  <2>3. a \in Nat /\ b \in Nat /\ a + 1 + b = Len(r.users)
    BY <2>1, <2>2
  <2>4. l \in Nat
    BY LenProperties
  <2>5. "usernames" \in bits /\ ("color" \in bits <=> "color" \in r.users[i].has)
    BY DEF Marked
  <2> QED
    BY <2>1, <2>3, <2>4, <2>5
<1> HIDE DEF bits, status, l, a, b
<1>6. Row(w, 5, a, p, 4, 0)
  <2>1. Before(r, i) \in Seq(Placeable(0)) /\ Len(Before(r, i)) = a
    BY <1>5, AroundTyped DEF a
  <2>2. Occurs(w, 5, FlattenSeq(Before(r, i))) /\ p = 5 + Len(FlattenSeq(Before(r, i)))
    BY <1>1, <1>4 DEF LaidAt
  <2> QED
    BY <1>2, <2>1, <2>2, UsersRow
<1>7. PlaceIs(w, p, bits, q, 0) /\ q \in Nat \ {0} /\ bits \in SUBSET Text
  <2>1. /\ p \in Nat \ {0} /\ Occurs(w, p, Stem(bits, status)) /\ q = p + Len(Stem(bits, status))
    BY <1>1 DEF LaidAt, bits, status
  <2>2. PICK sure : sure = 0
    OBVIOUS
  <2>3. w \in Seq(Word) /\ bits \in SUBSET UserField /\ status \in Kinds
    BY <1>2, <1>5
  <2>4. sure = 0 \/ "emoji_status" \notin bits \/ status # "alien"
    BY <2>2
  <2>5. bits \in SUBSET Text
    BY <2>3, Said
  <2>6. PlaceIs(w, p, bits, q, sure)
    BY <2>1, <2>3, <2>4, StemPlace
  <2> QED
    BY <2>2, <2>5, <2>6
<1>8. ListAt(w, q, m, l, q + 2, e)
  <2>1. Occurs(w, q, Listing(m, names)) /\ e = q + Len(Listing(m, names))
    BY <1>1 DEF LaidAt
  <2> QED
    BY <1>2, <1>7, <2>1, ListingPlace DEF l
<1>9. PICK x \in Nat \ {0} : x = q + 2
  OBVIOUS
<1> SUFFICES ASSUME l # m  PROVE FALSE
  BY <1>3 DEF l
<1> HIDE DEF l
<1>10. /\ ListBegins(w, q, m) /\ e = x + 3 * l
       /\ \A j \in 0 .. l - 1 : /\ x + 3 * j + 2 <= Len(w) /\ w[x + 3 * j] = Ctor("username")
                                /\ w[x + 3 * j + 1].is = "flags"
  BY <1>8, <1>9 DEF ListAt
<1>11. FullIs(w, a + 1 + b)
  BY <1>4, <1>5
<1>12. IF "color" \in bits THEN w[x + 3 * l].is # "ctor"
                          ELSE Row(w, x + 3 * l, b, Len(w) + 1, 4, 0)
  <2>1. CASE "color" \in bits
    <3>1. Occurs(w, e, <<Data("own")>>) /\ e \in Nat
      BY <1>1, <1>5, <2>1 DEF LaidAt, Color
    <3>2. w[e].is # "ctor"
      BY <3>1, OccursOne, WordsAre
    <3> QED
      BY <1>10, <2>1, <3>2
  <2>2. CASE "color" \notin bits
    <3>1. z = e /\ e \in Nat \ {0} /\ Occurs(w, e, Behind(r, i)) /\ e + Len(Behind(r, i)) = Len(w) + 1
      <4>1. Len(Color(r.users[i].has)) = 0
        BY <1>5, <2>2 DEF Color
      <4> QED
        BY <1>1, <4>1 DEF LaidAt
    <3>2. After(r, i) \in Seq(Placeable(0)) /\ Len(After(r, i)) = b
      BY <1>5, AroundTyped DEF b
    <3>3. Row(w, e, b, Len(w) + 1, 4, 0)
      BY <1>2, <3>1, <3>2, UsersRow DEF Behind
    <3> QED
      BY <1>10, <2>2, <3>3
  <2> QED
    BY <2>1, <2>2
<1>13. Miscounted(w, a, p, bits, q, m, l, x, b)
  BY <1>5, <1>6, <1>7, <1>9, <1>10, <1>11, <1>12 DEF Miscounted
<1>14. ~(Walk(w).err = 0 /\ Walk(w).pos = Len(w) + 1)
  BY <1>2, <1>5, <1>7, <1>13, FullMiscounted
<1> QED
  BY <1>14 DEF Validate

\* A list whose count is right passes, if no user has an emoji status nobody knows.
THEOREM WellCounted ==
  ASSUME NEW r \in UserReplies, Rewritable(r), NEW names \in Seq(Cell), Len(names) <= MaxElements
  PROVE  Validate(ReplyWords(r, names))
<1> DEFINE h == Opening(r)
           s == Members(r, names)
           f == FlattenSeq(s)
           w == ReplyWords(r, names)
           sure == 1
<1>1. names \in Seq(Sayable) /\ Given(names) = names
  BY NotGenuine
<1>2. Recognised(r) /\ r.boxed
  BY ReplyFacts DEF Rewritable, Recognised
<1>3. s \in Seq(Placeable(sure)) /\ Len(s) = Len(r.users)
  BY <1>1, <1>2, MembersTyped
<1>4. w = Cat(h, f)
  BY ReplyIs
<1>5. h \in Seq(Word) /\ Len(h) = 4
  BY <1>2, FrontTyped
<1> HIDE DEF h, s, w, sure
<1>6. f \in Seq(Word)
  BY <1>3, PlaceableWords
<1> HIDE DEF f
<1>7. w \in Seq(Word) /\ Len(w) = Len(h) + Len(f)
  BY <1>4, <1>5, <1>6, CatTyped
<1>8. Occurs(w, 1, Cat(h, f))
  BY <1>4, <1>7, OccursWhole
<1>9. Occurs(w, 1, h) /\ Occurs(w, 1 + Len(h), f)
  <2>1. PICK one \in Nat \ {0} : one = 1
    OBVIOUS
  <2>2. Occurs(w, one, h) /\ Occurs(w, one + Len(h), f)
    BY <1>5, <1>6, <1>7, <1>8, <2>1, OccursJoined
  <2> QED
    BY <2>1, <2>2
<1>10. FullIs(w, Len(r.users)) /\ 1 + Len(h) = 5
  BY <1>2, <1>7, <1>9, FrontRead DEF h
<1>11. Occurs(w, 5, f)
  BY <1>9, <1>10
<1>12. Row(w, 5, Len(s), 5 + Len(f), 4, sure)
  BY <1>3, <1>7, <1>11, UsersRow DEF f
<1>13. 5 + Len(f) = Len(w) + 1
  BY <1>5, <1>6, <1>7, LenProperties
<1>14. Row(w, 5, Len(r.users), Len(w) + 1, 4, 1) /\ Len(r.users) \in Nat
  BY <1>3, <1>12, <1>13, ReplyFacts DEF sure
<1>15. Walk(w).err = 0 /\ Walk(w).pos = Len(w) + 1
  BY <1>7, <1>10, <1>14, FullWhole
<1> QED
  BY <1>15 DEF Validate, w

----------------------------------------------------------------------------
(* The list that is built, word by word.                                   *)

\* The usernames can be read off it again.
LEMMA NamesInListing ==
  ASSUME NEW m \in Nat, NEW names \in Seq(Sayable)
  PROVE  NamesIn(Listing(m, names)) = names
<1> DEFINE w == Listing(m, names)
           l == Len(names)
           half == (Len(w) - 2) \div 3
<1>1. l \in Nat /\ Len(w) = 2 + 3 * l /\ \A k \in 1 .. l : w[3 * k + 2] = Data(names[k])
  BY ListingIs, LenProperties
<1>2. names \in [1 .. l -> Sayable]
  BY LenProperties
<1> HIDE DEF w, l
<1>3. half = l
  BY <1>1
<1> HIDE DEF half
<1>4. \A k \in 1 .. l : w[3 * k + 2].name = names[k]
  BY <1>1, WordsAre
<1>5. NamesIn(w) = [k \in 1 .. half |-> w[3 * k + 2].name]
  BY DEF NamesIn, half
<1>6. NamesIn(w) = [k \in 1 .. l |-> names[k]]
  BY <1>3, <1>4, <1>5
<1> QED
  BY <1>2, <1>6 DEF w

\* The usernames with one more.
LEMMA NamesOfAppend ==
  ASSUME NEW names \in Seq(Sayable), NEW x \in Sayable
  PROVE  NamesOf(Append(names, x)) = Append(NamesOf(names), NameWords(x, Len(names) = 0))
<1> DEFINE l == Len(names)
           a == NamesOf(Append(names, x))
           v == NameWords(x, l = 0)
           b == Append(NamesOf(names), v)
<1>1. /\ Append(names, x) \in Seq(Sayable) /\ Len(Append(names, x)) = l + 1 /\ l \in Nat
      /\ Append(names, x)[l + 1] = x /\ \A k \in 1 .. l : Append(names, x)[k] = names[k]
  BY AppendProperties, LenProperties
<1>2. /\ a \in Seq(Seq(Word)) /\ Len(a) = l + 1
      /\ \A k \in 1 .. l + 1 : a[k] = NameWords(Append(names, x)[k], k = 1)
  BY <1>1, NamesOfTyped
<1>3. /\ NamesOf(names) \in Seq(Seq(Word)) /\ Len(NamesOf(names)) = l
      /\ \A k \in 1 .. l : NamesOf(names)[k] = NameWords(names[k], k = 1)
  BY NamesOfTyped
<1>4. v \in Seq(Word)
  BY NameTyped
<1> HIDE DEF a, l
<1>5. (l + 1 = 1) = (l = 0)
  BY <1>1
<1>6. a[l + 1] = v
  BY <1>1, <1>2, <1>5
<1> HIDE DEF v
<1>7. /\ b \in Seq(Seq(Word)) /\ Len(b) = l + 1 /\ b[l + 1] = v
      /\ \A k \in 1 .. l : b[k] = NamesOf(names)[k]
  BY <1>3, <1>4, AppendProperties
<1> HIDE DEF b
<1>8. \A k \in 1 .. l + 1 : a[k] = b[k]
  <2> TAKE k \in 1 .. l + 1
  <2>1. CASE k = l + 1
    BY <1>6, <1>7, <2>1
  <2>2. CASE k \in 1 .. l
    BY <1>1, <1>2, <1>3, <1>7, <2>2
  <2> QED
    BY <1>1, <2>1, <2>2
<1>9. a = b
  BY <1>2, <1>7, <1>8, SeqEqual
<1> QED
  BY <1>9 DEF a, b, v, l

\* One username more.
LEMMA ListingAppend ==
  ASSUME NEW m \in Nat, NEW names \in Seq(Sayable), NEW x \in Sayable
  PROVE  Listing(m, Append(names, x)) = Listing(m, names) \o NameWords(x, Len(names) = 0)
<1> DEFINE h == <<VectorId, Number(m)>>
           v == NameWords(x, Len(names) = 0)
           f == FlattenSeq(NamesOf(names))
<1>1. h \in Seq(Word) /\ v \in Seq(Word)
  <2>1. (Len(names) = 0) \in BOOLEAN
    OBVIOUS
  <2>2. VectorId \in Word /\ Number(m) \in Word
    BY WordsTyped
  <2>3. h \in Seq(Word)
    BY <2>2
  <2>4. v \in Seq(Word)
    BY <2>1, NameTyped, Zenon
  <2> QED
    BY <2>3, <2>4
<1>2. NamesOf(names) \in Seq(Seq(Word)) /\ f \in Seq(Word)
  BY NamesOfTyped, FlatTyped
<1>3. /\ Listing(m, names) = h \o f
      /\ Listing(m, Append(names, x)) = h \o FlattenSeq(NamesOf(Append(names, x)))
  BY DEF Listing, NamesOf
<1> HIDE DEF h, v
<1>4. FlattenSeq(NamesOf(Append(names, x))) = f \o v
  <2>1. NamesOf(Append(names, x)) = Append(NamesOf(names), v)
    BY NamesOfAppend DEF v
  <2>2. FlattenSeq(Append(NamesOf(names), v)) = f \o v
    BY <1>1, <1>2, FlatAppend
  <2> QED
    BY <2>1, <2>2
<1> HIDE DEF f
<1>5. h \o (f \o v) = (h \o f) \o v
  BY <1>1, <1>2, ConcatAssociative
<1> QED
  BY <1>3, <1>4, <1>5 DEF v

\* The head of a list is a list of none.
LEMMA ListingOfNone ==
  ASSUME NEW m \in Nat
  PROVE  Listing(m, <<>>) = <<VectorId, Number(m)>> /\ <<>> \in Seq(Cell)
<1> DEFINE none == <<>>
           f == [k \in DOMAIN none |-> NameWords(none[k], k = 1)]
           h == <<VectorId, Number(m)>>
<1>1. DOMAIN none = {} /\ none \in Seq(Cell)
  OBVIOUS
<1>2. f = <<>>
  <2>1. DOMAIN f = 1 .. 0
    BY <1>1
  <2> QED
    BY <2>1
<1>3. Listing(m, none) = h \o FlattenSeq(f)
  BY DEF Listing
<1>4. h \in Seq(Word)
  BY WordsTyped
<1> HIDE DEF f, h
<1>5. h \o <<>> = h
  BY <1>4, ConcatEmptySeq
<1> QED
  BY <1>1, <1>2, <1>3, <1>5, FlatOfNone DEF h

\* What a list says about itself.
LEMMA ListingSays ==
  ASSUME NEW m \in Nat, NEW names \in Seq(Cell), NEW w, w = Listing(m, names)
  PROVE  /\ w \in Seq(Word) /\ w[2].n = m /\ NamesIn(w) = names
         /\ (Len(w) - 2) \div 3 = Len(names)
<1>1. names \in Seq(Sayable) /\ Len(names) \in Nat
  BY NotGenuine, LenProperties
<1>2. w \in Seq(Word) /\ Len(w) = 2 + 3 * Len(names) /\ w[2] = Number(m)
  BY <1>1, ListingIs
<1>3. w[2].n = m
  BY <1>2, WordsAre
<1>4. NamesIn(w) = names
  BY <1>1, NamesInListing
<1>5. (Len(w) - 2) \div 3 = Len(names)
  BY <1>1, <1>2
<1> QED
  BY <1>2, <1>3, <1>4, <1>5

\* There is room for some usernames, and for no more than a vector may have.
LEMMA SlotsAre == Slots \in Nat \ {0} /\ Slots <= MaxElements /\ MaxElements \in Nat
<1>1. MaxElements \in Nat
  BY DEF MaxElements
<1> QED
  BY <1>1, SlotsAssumption

\* The list of the configuration, and what the array has room for of it.
LEMMA FittingIs ==
  ASSUME NEW names \in NameLists \cup {<<>>}
  PROVE  /\ Fitting(names) \in Seq(Cell) /\ Len(Fitting(names)) \in 0 .. Slots
         /\ \A k \in 1 .. Len(Fitting(names)) : Fitting(names)[k] = names[k]
         /\ Entries(Fitting(names)) \in [1 .. Slots -> Cell]
         /\ \A k \in 1 .. Len(Fitting(names)) : Entries(Fitting(names))[k] = names[k]
         /\ names # <<>> => Len(Fitting(names)) > 0
<1> DEFINE l == IF Len(names) < Slots THEN Len(names) ELSE Slots
           f == Fitting(names)
<1>1. names \in Seq(Names) /\ Len(names) \in Nat /\ Slots \in Nat \ {0}
  <2>1. NameLists \subseteq Seq(Names)
    BY NamesAssumption
  <2>2. <<>> \in Seq(Names)
    OBVIOUS
  <2>3. names \in Seq(Names)
    BY <2>1, <2>2
  <2> QED
    BY <2>3, LenProperties, SlotsAre
<1>2. l \in 0 .. Slots /\ l \in 0 .. Len(names) /\ (Len(names) > 0 => l > 0)
  BY <1>1
<1>3. f = SubSeq(names, 1, l)
  BY DEF Fitting
<1> HIDE DEF l, f
<1>4. f \in Seq(Names) /\ Len(f) = l /\ \A k \in 1 .. l : f[k] = names[k]
  <2>1. \A k \in 1 .. l : names[k] \in Names
    BY <1>1, <1>2, ElementOfSeq
  <2> QED
    BY <1>1, <1>2, <1>3, <2>1
<1>5. f \in Seq(Cell)
  BY <1>4, SeqMonotonic DEF Cell
<1>6. Len(names) = 0 => names = <<>>
  BY <1>1
<1>7. DOMAIN f = 1 .. l /\ \A k \in 1 .. l : f[k] \in Cell
  BY <1>4, <1>5, ElementOfSeq
<1>8. Entries(f) = [k \in 1 .. Slots |-> IF k \in 1 .. l THEN f[k] ELSE Blank]
  BY <1>7 DEF Entries
<1>9. \A k \in 1 .. Slots : (IF k \in 1 .. l THEN f[k] ELSE Blank) \in Cell
  BY <1>7 DEF Cell
<1>10. Entries(f) \in [1 .. Slots -> Cell]
  BY <1>8, <1>9
<1>11. \A k \in 1 .. l : Entries(f)[k] = names[k]
  BY <1>1, <1>2, <1>4, <1>8
<1> QED
  BY <1>1, <1>2, <1>4, <1>5, <1>6, <1>10, <1>11 DEF f

\* A sequence that agrees with the list as far as it fits is what fits of it.
LEMMA FittingOnly ==
  ASSUME NEW names \in NameLists \cup {<<>>}, NEW s \in Seq(Cell),
         Len(s) = Len(Fitting(names)), \A k \in 1 .. Len(s) : s[k] = names[k]
  PROVE  s = Fitting(names)
BY FittingIs, SeqEqual

\* The cleared array.
LEMMA NoEntries == Entries(<<>>) \in [1 .. Slots -> Cell]
<1> DEFINE none == <<>>
<1>1. DOMAIN none = {}
  OBVIOUS
<1>2. Entries(none) = [k \in 1 .. Slots |-> Blank]
  BY <1>1 DEF Entries
<1> QED
  BY <1>2 DEF Cell

----------------------------------------------------------------------------
(* The inductive invariant.                                                *)

Busily == at \in {"head", "names", "splice"}
Holding == at \in {"names", "splice"}

IdleInv == at = "idle" => loader = "asleep" /\ shown = Genuine
GotInv == at # "idle" => got \in UserReplies
ShownInv == shown = Genuine \/ shown \in Seq(Cell)

\* A note is spent before anything is spliced, and nobody has taken the reply over.
NotedInv == noted => shown = Genuine /\ holders = got.ref

\* The place that is kept is still the one the reply has.
PlaceInv ==
  Busily => /\ shown = Genuine /\ ~noted
            /\ target = FindTarget(ReplyWords(got, Genuine)) /\ target # NoTarget

\* Of a reply no reload met: the list is the one that was loaded.
SteadyInv ==
  steady /\ at # "idle" =>
    loader = "asleep" /\ entries = Entries(Fitting(list)) /\ count = Len(Fitting(list))

\* The words built so far are a list of these names that says it has m.
HalfBuilt(m, names) ==
  /\ m \in 0 .. Slots /\ names \in Seq(Cell) /\ built = Listing(m, names)
  /\ steady => /\ m = count /\ Len(names) <= count
               /\ \A k \in 1 .. Len(names) : names[k] = list[k]
  /\ steady /\ at = "splice" => Len(names) = count

BuiltInv == Holding => HalfBuilt(built[2].n, NamesIn(built))

\* A list can be put into the reply, and nothing has come between.
Undisturbed == steady /\ ~refused /\ list # <<>> /\ Rewritable(got)

GivenInv ==
  Undisturbed => /\ at = "enter" => noted \/ shown = Fitting(list)
                 /\ at = "done" => shown = Fitting(list)

UInv ==
  /\ UsersTypeOK /\ UsersRenderedWhole /\ IdleInv /\ GotInv /\ ShownInv /\ NotedInv
  /\ PlaceInv /\ SteadyInv /\ BuiltInv /\ GivenInv

\* It holds at first ...
LEMMA UsersStart == UsersInit => UInv
<1> SUFFICES ASSUME UsersInit  PROVE UInv
  OBVIOUS
<1> USE DEF UsersInit
<1>1. UsersTypeOK
  <2>1. <<>> \in Seq(Word) /\ Len(<<>>) = 0 /\ Slots \in Nat
    BY SlotsAre
  <2>2. entries \in [1 .. Slots -> Names \cup {Blank}] /\ count \in 0 .. Slots
    BY <2>1, NoEntries DEF Cell
  <2>3. body \in Seq(Word) /\ built \in Seq(Word) /\ space \in Nat /\ Len(body) <= space
    BY <2>1
  <2>4. holders \in {1, 2, Static} /\ got \in UserReplies \cup {NoReply}
    OBVIOUS
  <2> QED
    BY <2>2, <2>3, <2>4 DEF UsersTypeOK
<1> QED
  BY <1>1 DEF UInv, UsersRenderedWhole, IdleInv, GotInv, ShownInv, NotedInv, PlaceInv, SteadyInv,
              BuiltInv, GivenInv, Busily, Holding

\* ... and while a page of gifts is edited ...
LEMMA UsersStutter == UInv /\ UNCHANGED userVars => UInv'
<1> SUFFICES ASSUME UInv, UNCHANGED userVars  PROVE UInv'
  OBVIOUS
<1> USE DEF userVars, watcherVars, userReply
<1>1. UsersTypeOK' /\ UsersRenderedWhole' /\ IdleInv' /\ GotInv' /\ ShownInv' /\ NotedInv'
  BY DEF UInv, UsersTypeOK, UsersRenderedWhole, IdleInv, GotInv, ShownInv, NotedInv
<1>2. PlaceInv' /\ SteadyInv'
  BY DEF UInv, PlaceInv, SteadyInv, Busily
<1>3. BuiltInv'
  BY DEF UInv, BuiltInv, HalfBuilt, Holding
<1>4. GivenInv'
  BY DEF UInv, GivenInv, Undisturbed
<1> QED
  BY <1>1, <1>2, <1>3, <1>4 DEF UInv

\* The watcher: it never disturbs a reply, it only unsettles the list.
LEMMA WatcherKeeps ==
  ASSUME UInv, Unread, at # "idle", ~steady', steady' \in BOOLEAN, noted' \in BOOLEAN, noted' => noted,
         entries' \in [1 .. Slots -> Cell], count' \in 0 .. Slots,
         list' \in NameLists \cup {<<>>}, loader' \in {"asleep", "clear", "reset", "fill"}
  PROVE  UInv'
<1> USE DEF Unread
<1>1. UsersTypeOK'
  BY DEF UInv, UsersTypeOK, Cell
<1>2. UsersRenderedWhole' /\ IdleInv' /\ GotInv' /\ ShownInv' /\ NotedInv' /\ PlaceInv'
  BY DEF UInv, UsersRenderedWhole, IdleInv, GotInv, ShownInv, NotedInv, PlaceInv, Busily
<1>3. SteadyInv' /\ GivenInv'
  BY DEF SteadyInv, GivenInv, Undisturbed
<1>4. BuiltInv'
  BY DEF UInv, BuiltInv, HalfBuilt, Holding
<1> QED
  BY <1>1, <1>2, <1>3, <1>4 DEF UInv

\* So do its five actions.
LEMMA LoaderKeeps ==
  ASSUME UInv,
         \/ \E names \in NameLists : LoadNames(names)
         \/ ClearNames \/ ResetCount \/ FillName \/ EndLoad
  PROVE  UInv'
<1>1. /\ entries \in [1 .. Slots -> Cell] /\ count \in 0 .. Slots /\ noted \in BOOLEAN
      /\ list \in NameLists \cup {<<>>} /\ steady \in BOOLEAN /\ Slots \in Nat \ {0}
  BY SlotsAre DEF UInv, UsersTypeOK, Cell
<1>2. loader # "asleep" => at # "idle" /\ ~steady
  BY DEF UInv, IdleInv, SteadyInv
<1>3. CASE \E names \in NameLists : LoadNames(names)
  <2>1. /\ Unread /\ at # "idle" /\ ~steady' /\ steady' \in BOOLEAN /\ noted' = noted
        /\ entries' = entries /\ count' = count /\ list' \in NameLists /\ loader' = "clear"
    BY <1>3 DEF LoadNames
  <2> QED
    BY <1>1, <2>1, WatcherKeeps
<1>4. CASE ClearNames
  <2>1. /\ Unread /\ at # "idle" /\ ~steady' /\ steady' \in BOOLEAN /\ noted' = noted
        /\ entries' = Entries(<<>>) /\ count' = count /\ list' = list /\ loader' = "reset"
    BY <1>1, <1>2, <1>4 DEF ClearNames
  <2> QED
    BY <1>1, <2>1, NoEntries, WatcherKeeps
<1>5. CASE ResetCount
  <2>1. /\ Unread /\ at # "idle" /\ ~steady' /\ steady' \in BOOLEAN /\ noted' = noted
        /\ entries' = entries /\ count' = 0 /\ list' = list /\ loader' = "fill"
    BY <1>1, <1>2, <1>5 DEF ResetCount
  <2> QED
    BY <1>1, <2>1, WatcherKeeps
<1>6. CASE FillName
  <2>1. /\ Unread /\ at # "idle" /\ ~steady' /\ steady' \in BOOLEAN /\ noted' = noted
        /\ count < Len(list) /\ count < Slots /\ loader' = loader /\ loader = "fill"
        /\ entries' = [entries EXCEPT ![count + 1] = list[count + 1]] /\ count' = count + 1
        /\ list' = list
    BY <1>1, <1>2, <1>6 DEF FillName
  <2>2. list[count + 1] \in Cell
    <3>1. list \in Seq(Names)
      BY <1>1, NamesAssumption, EmptySeq
    <3>2. count + 1 \in 1 .. Len(list)
      BY <1>1, <2>1, <3>1, LenProperties
    <3> QED
      BY <3>1, <3>2, ElementOfSeq DEF Cell
  <2>3. entries' \in [1 .. Slots -> Cell] /\ count' \in 0 .. Slots
    BY <1>1, <2>1, <2>2
  <2> QED
    BY <1>1, <2>1, <2>3, WatcherKeeps
<1>7. CASE EndLoad
  <2>1. /\ Unread /\ at # "idle" /\ ~steady' /\ steady' \in BOOLEAN
        /\ noted' = (noted /\ count > 0)
        /\ entries' = entries /\ count' = count /\ list' = list /\ loader' = "asleep"
    BY <1>1, <1>2, <1>7 DEF EndLoad
  <2>2. noted' \in BOOLEAN /\ (noted' => noted)
    BY <2>1
  <2> QED
    BY <1>1, <2>1, <2>2, WatcherKeeps
<1> QED
  BY <1>3, <1>4, <1>5, <1>6, <1>7

\* A reply comes.
LEMMA ReceiveKeeps ==
  ASSUME UInv, NEW r \in UserReplies, NEW names \in NameLists, ReceiveUsers(r, names)
  PROVE  UInv'
<1>1. /\ at = "idle" /\ loader = "asleep" /\ shown = Genuine
      /\ got' = r /\ body' = ReplyWords(r, Genuine) /\ space' = Len(body') + r.slack
      /\ holders' = r.ref /\ noted' = TRUE /\ list' = names
      /\ entries' = Entries(Fitting(names)) /\ count' = Len(Fitting(names))
      /\ at' = "enter" /\ steady' = TRUE
      /\ UNCHANGED <<loader, target, built, shown, refused>>
  BY DEF UInv, IdleInv, ReceiveUsers
<1>2. r.slack \in Nat /\ r.ref \in {1, 2}
  BY ReplyFacts
<1>3. ReplyWords(r, Genuine) \in Seq(Word)
  BY GivenGenuine, ReplyTyped
<1>4. entries' \in [1 .. Slots -> Cell] /\ count' \in 0 .. Slots
  BY <1>1, FittingIs
<1>5. body' \in Seq(Word) /\ space' \in Nat /\ Len(body') <= space'
  BY <1>1, <1>2, <1>3, LenProperties
<1>6. built \in Seq(Word) /\ refused \in BOOLEAN
  BY DEF UInv, UsersTypeOK
<1>7. UsersTypeOK'
  BY <1>1, <1>2, <1>4, <1>5, <1>6 DEF UsersTypeOK, Cell
<1>8. UsersRenderedWhole' /\ IdleInv' /\ GotInv' /\ ShownInv' /\ NotedInv'
  BY <1>1 DEF UsersRenderedWhole, IdleInv, GotInv, ShownInv, NotedInv
<1>9. PlaceInv' /\ SteadyInv' /\ BuiltInv' /\ GivenInv'
  BY <1>1 DEF PlaceInv, SteadyInv, BuiltInv, GivenInv, Busily, Holding
<1> QED
  BY <1>7, <1>8, <1>9 DEF UInv

\* pg_custom_usernames decides.
LEMMA EnterKeeps ==
  ASSUME UInv, EnterUsernames
  PROVE  UInv'
<1>1. /\ at = "enter" /\ noted' = (noted /\ count = 0) /\ (at' = "done" \/ at' = "head")
      /\ target' = IF count > 0 /\ noted /\ holders = 1 THEN FindTarget(body) ELSE NoTarget
      /\ at' = "head" <=> target' # NoTarget
      /\ UNCHANGED <<watcherVars, got, body, space, holders, built, shown, steady, refused>>
  BY DEF EnterUsernames
<1>2. /\ got \in UserReplies /\ body = ReplyWords(got, shown) /\ count \in 0 .. Slots
      /\ Slots \in Nat /\ (noted => shown = Genuine /\ holders = got.ref) /\ noted \in BOOLEAN
  BY <1>1, SlotsAre DEF UInv, GotInv, UsersRenderedWhole, UsersTypeOK, NotedInv
<1> USE DEF watcherVars
<1>3. UsersTypeOK'
  BY <1>1, <1>2 DEF UInv, UsersTypeOK
<1>4. UsersRenderedWhole' /\ IdleInv' /\ GotInv' /\ ShownInv'
  BY <1>1 DEF UInv, UsersRenderedWhole, IdleInv, GotInv, ShownInv
<1>5. NotedInv'
  BY <1>1, <1>2 DEF NotedInv
<1>6. PlaceInv'
  <2>1. CASE at' = "done"
    BY <2>1 DEF PlaceInv, Busily
  <2>2. CASE at' = "head"
    <3>1. count > 0 /\ noted /\ target' = FindTarget(body) /\ target' # NoTarget
      BY <1>1, <2>2
    <3>2. count # 0
      BY <1>2, <3>1
    <3>3. ~noted'
      BY <1>1, <3>2
    <3>4. shown' = Genuine /\ got' = got /\ body = ReplyWords(got, Genuine)
      BY <1>1, <1>2, <3>1
    <3> QED
      BY <3>1, <3>3, <3>4 DEF PlaceInv
  <2> QED
    BY <1>1, <2>1, <2>2
<1>7. SteadyInv' /\ BuiltInv'
  BY <1>1 DEF UInv, SteadyInv, BuiltInv, Holding
<1>8. GivenInv'
  <2> SUFFICES ASSUME Undisturbed', at' = "done"  PROVE shown' = Fitting(list')
    BY <1>1 DEF GivenInv
  <2>1. Undisturbed
    BY <1>1 DEF Undisturbed
  <2>2. noted \/ shown = Fitting(list)
    BY <1>1, <2>1 DEF UInv, GivenInv
  <2>3. ~noted
    <3>1. SUFFICES ASSUME noted  PROVE FALSE
      OBVIOUS
    <3>2. Rewritable(got) /\ list # <<>> /\ count = Len(Fitting(list)) /\ list \in NameLists \cup {<<>>}
      BY <1>1, <2>1 DEF UInv, SteadyInv, Undisturbed, UsersTypeOK
    <3>3. count > 0
      BY <3>2, FittingIs
    <3>4. holders = 1 /\ body = ReplyWords(got, Genuine)
      BY <1>2, <3>1, <3>2 DEF Rewritable
    <3>5. FindTarget(body) # NoTarget
      BY <1>2, <3>2, <3>4, FindsPlace
    <3> QED
      BY <1>1, <3>1, <3>3, <3>4, <3>5
  <2> QED
    BY <1>1, <2>2, <2>3
<1> QED
  BY <1>3, <1>4, <1>5, <1>6, <1>7, <1>8 DEF UInv

\* The list is begun.
LEMMA HeadKeeps ==
  ASSUME UInv, PutHead
  PROVE  UInv'
<1>1. /\ at = "head" /\ built' = <<VectorId, Number(count)>> /\ at' = "names"
      /\ UNCHANGED <<watcherVars, userReply, target, shown, steady, refused>>
  BY DEF PutHead
<1>2. count \in 0 .. Slots /\ count \in Nat
  BY SlotsAre DEF UInv, UsersTypeOK
<1> DEFINE none == <<>>
<1>3. none \in Seq(Cell) /\ built' = Listing(count, none) /\ Len(none) = 0
  BY <1>1, <1>2, ListingOfNone
<1> HIDE DEF none
<1>4. built' \in Seq(Word) /\ (built')[2].n = count /\ NamesIn(built') = none
  BY <1>2, <1>3, ListingSays
<1> USE DEF watcherVars, userReply
<1>5. UsersTypeOK'
  BY <1>1, <1>4 DEF UInv, UsersTypeOK
<1>6. UsersRenderedWhole' /\ IdleInv' /\ GotInv' /\ ShownInv' /\ NotedInv'
  BY <1>1 DEF UInv, UsersRenderedWhole, IdleInv, GotInv, ShownInv, NotedInv
<1>7. PlaceInv' /\ SteadyInv'
  BY <1>1 DEF UInv, PlaceInv, SteadyInv, Busily
<1>8. BuiltInv'
  <2>1. HalfBuilt(count, none)'
    BY <1>1, <1>2, <1>3 DEF HalfBuilt
  <2> QED
    BY <1>4, <2>1, <1>1 DEF BuiltInv, HalfBuilt
<1>9. GivenInv'
  BY <1>1 DEF GivenInv
<1> QED
  BY <1>5, <1>6, <1>7, <1>8, <1>9 DEF UInv

\* A username more, or the list is done.
LEMMA NameKeeps ==
  ASSUME UInv, PutName
  PROVE  UInv'
<1> DEFINE v == NameWords(entries[BuiltNames + 1], BuiltNames = 0)
<1>1. /\ at = "names"
      /\ \/ BuiltNames < count /\ built' = built \o v /\ at' = "names"
         \/ ~(BuiltNames < count) /\ built' = built /\ at' = "splice"
      /\ UNCHANGED <<watcherVars, userReply, target, shown, steady, refused>>
  BY DEF PutName
<1>2. /\ count \in Nat /\ count <= Slots /\ entries \in [1 .. Slots -> Cell]
      /\ list \in NameLists \cup {<<>>} /\ Slots \in Nat
  BY SlotsAre DEF UInv, UsersTypeOK, Cell
<1>3. PICK m, ns : HalfBuilt(m, ns)
  BY <1>1 DEF UInv, BuiltInv, Holding
<1>4. /\ m \in Nat /\ m \in 0 .. Slots /\ ns \in Seq(Cell) /\ built = Listing(m, ns) /\ Len(ns) \in Nat
      /\ BuiltNames = Len(ns)
  <2>1. m \in Nat /\ m \in 0 .. Slots /\ ns \in Seq(Cell) /\ built = Listing(m, ns)
    BY <1>2, <1>3 DEF HalfBuilt
  <2> QED
    BY <2>1, ListingSays, LenProperties DEF BuiltNames
<1> HIDE DEF v
<1>5. PICK now : /\ now \in Seq(Cell) /\ built' = Listing(m, now)
                 /\ \/ at' = "names" /\ Len(ns) < count /\ now = Append(ns, entries[Len(ns) + 1])
                    \/ at' = "splice" /\ ~(Len(ns) < count) /\ now = ns
  <2>1. CASE BuiltNames < count
    <3> DEFINE x == entries[Len(ns) + 1]
    <3>1. x \in Cell /\ v = NameWords(x, Len(ns) = 0) /\ built' = built \o v /\ at' = "names"
      BY <1>1, <1>2, <1>4, <2>1 DEF v
    <3> HIDE DEF x
    <3>2. x \in Sayable /\ ns \in Seq(Sayable) /\ Append(ns, x) \in Seq(Cell)
      BY <1>4, <3>1, NotGenuine, AppendProperties DEF Cell, Sayable
    <3>3. built' = Listing(m, Append(ns, x))
      BY <1>4, <3>1, <3>2, ListingAppend
    <3> QED
      BY <1>4, <2>1, <3>1, <3>2, <3>3 DEF x
  <2>2. CASE ~(BuiltNames < count)
    BY <1>1, <1>4, <2>2
  <2> QED
    BY <2>1, <2>2
<1>6. built' \in Seq(Word) /\ (built')[2].n = m /\ NamesIn(built') = now
  BY <1>4, <1>5, ListingSays
<1> USE DEF watcherVars, userReply
<1>7. at' \in {"names", "splice"}
  BY <1>5
<1>8. UsersTypeOK'
  BY <1>1, <1>6, <1>7 DEF UInv, UsersTypeOK
<1>9. UsersRenderedWhole' /\ IdleInv' /\ GotInv' /\ ShownInv' /\ NotedInv'
  BY <1>1, <1>7 DEF UInv, UsersRenderedWhole, IdleInv, GotInv, ShownInv, NotedInv
<1>10. PlaceInv' /\ SteadyInv'
  BY <1>1, <1>7 DEF UInv, PlaceInv, SteadyInv, Busily
<1>11. BuiltInv'
  <2>1. ASSUME steady
        PROVE  /\ m = count /\ Len(now) <= count /\ (at' = "splice" => Len(now) = count)
               /\ \A k \in 1 .. Len(now) : now[k] = list[k]
    <3>1. m = count /\ Len(ns) <= count /\ \A k \in 1 .. Len(ns) : ns[k] = list[k]
      BY <1>3, <2>1 DEF HalfBuilt
    <3>2. CASE at' = "names"
      <4>1. Len(ns) < count /\ now = Append(ns, entries[Len(ns) + 1])
        BY <1>5, <3>2
      <4>2. /\ Len(now) = Len(ns) + 1 /\ now[Len(ns) + 1] = entries[Len(ns) + 1]
            /\ \A k \in 1 .. Len(ns) : now[k] = ns[k]
        BY <1>2, <1>4, <4>1, AppendProperties
      <4>3. entries[Len(ns) + 1] = list[Len(ns) + 1]
        <5>1. entries = Entries(Fitting(list)) /\ count = Len(Fitting(list))
          BY <1>1, <2>1 DEF UInv, SteadyInv
        <5>2. Len(ns) + 1 \in 1 .. Len(Fitting(list))
          BY <1>2, <1>4, <4>1, <5>1
        <5> QED
          BY <1>2, <5>1, <5>2, FittingIs
      <4> QED
        BY <1>2, <1>4, <3>1, <3>2, <4>1, <4>2, <4>3
    <3>3. CASE at' = "splice"
      BY <1>2, <1>4, <1>5, <3>1, <3>3
    <3> QED
      BY <1>7, <3>2, <3>3
  <2>2. HalfBuilt(m, now)'
    BY <1>1, <1>4, <1>5, <2>1 DEF HalfBuilt
  <2> QED
    BY <1>6, <2>2 DEF BuiltInv, HalfBuilt
<1>12. GivenInv'
  BY <1>7 DEF GivenInv
<1> QED
  BY <1>8, <1>9, <1>10, <1>11, <1>12 DEF UInv

\* What the splice makes of the reply: a whole list of one count, or what it was.
LEMMA SettleIs ==
  ASSUME UInv, at = "splice", NEW m, NEW names, HalfBuilt(m, names)
  PROVE  /\ got \in UserReplies /\ Tried \in Seq(Word) /\ Reverted = body
         /\ Validate(Tried) => Tried = ReplyWords(got, names)
         /\ m = Len(names) /\ Rewritable(got) => Validate(Tried)
<1>1. /\ got \in UserReplies /\ body = ReplyWords(got, Genuine)
      /\ target = FindTarget(ReplyWords(got, Genuine)) /\ target # NoTarget
  BY DEF UInv, GotInv, PlaceInv, UsersRenderedWhole, Busily
<1>2. PICK i : IsOwn(got, i) /\ target = PlaceOf(got, i)
  BY <1>1, FindTargetIs
<1>3. Found(i)
  BY <1>1, <1>2 DEF Found
<1>4. /\ m \in Nat /\ names \in Seq(Cell) /\ built = Listing(m, names) /\ built \in Seq(Word)
      /\ names \in Seq(Sayable) /\ m <= MaxElements
  BY SlotsAre, ListingSays, NotGenuine DEF HalfBuilt
<1>5. Tried = Counted(got, i, m, names)
  <2>1. Tried = Cat(Pre(got, i, Marked(got, i)), Cat(built, Post(got, i)))
    BY <1>3, <1>4, TriedIs
  <2> QED
    BY <1>4, <2>1 DEF Counted
<1>6. Reverted = body
  BY <1>3, <1>4, RevertedIs
<1>7. Tried \in Seq(Word)
  <2>1. PICK p, q, e, z : LaidAt(Counted(got, i, m, names), got, i, m, names, p, q, e, z)
    BY <1>1, <1>2, <1>4, CountedAt
  <2> QED
    BY <1>5, <2>1 DEF LaidAt
<1>8. m = Len(names) => Tried = ReplyWords(got, names)
  <2>1. ReplyWords(got, names) =
          Cat(Pre(got, i, Marked(got, i)), Cat(Listing(Len(names), names), Post(got, i)))
    BY <1>1, <1>2, <1>4, RewrittenSplit
  <2> QED
    BY <1>5, <2>1 DEF Counted
<1>9. Validate(Tried) => m = Len(names)
  BY <1>1, <1>2, <1>4, <1>5, MiscountedFails
<1>10. m = Len(names) /\ Rewritable(got) => Validate(ReplyWords(got, names))
  BY <1>1, <1>4, WellCounted
<1> QED
  BY <1>1, <1>6, <1>7, <1>8, <1>9, <1>10

\* The list goes in, or the reply stays.
LEMMA SpliceKeeps ==
  ASSUME UInv, SpliceNames
  PROVE  UInv'
<1>1. /\ at = "splice" /\ at' = "done" /\ built' = <<>> /\ target' = NoTarget
      /\ UNCHANGED <<watcherVars, got, noted, steady>>
      /\ \/ Len(Tried) <= space /\ SettleNames /\ UNCHANGED <<space, holders>>
         \/ Len(Tried) > space /\ SettleNames /\ space' = Len(Tried) /\ holders' = Static
         \/ Len(Tried) > space /\ refused' = TRUE /\ UNCHANGED <<body, shown, space, holders>>
  BY DEF SpliceNames
<1>2. PICK m, names : HalfBuilt(m, names)
  BY <1>1 DEF UInv, BuiltInv, Holding
<1>3. /\ got \in UserReplies /\ Tried \in Seq(Word) /\ Reverted = body
      /\ Validate(Tried) => Tried = ReplyWords(got, names)
      /\ m = Len(names) /\ Rewritable(got) => Validate(Tried)
  BY <1>1, <1>2, SettleIs
<1>4. /\ m \in Nat /\ names \in Seq(Cell) /\ NamesIn(built) = names
      /\ steady => /\ m = count /\ Len(names) = count
                   /\ \A k \in 1 .. Len(names) : names[k] = list[k]
  <2>1. m \in Nat /\ names \in Seq(Cell) /\ built = Listing(m, names)
    BY <1>2, SlotsAre DEF HalfBuilt
  <2> QED
    BY <1>1, <1>2, <2>1, ListingSays DEF HalfBuilt
<1>5. /\ body \in Seq(Word) /\ space \in Nat /\ Len(body) <= space /\ holders \in {1, 2, Static}
      /\ refused \in BOOLEAN
  BY DEF UInv, UsersTypeOK
<1>6. shown = Genuine /\ ~noted /\ body = ReplyWords(got, shown)
  BY <1>1 DEF UInv, PlaceInv, UsersRenderedWhole, Busily
<1>7. \/ body' = Tried /\ shown' = names /\ Tried = ReplyWords(got, names)
      \/ body' = body /\ shown' = shown
  BY <1>1, <1>3, <1>4 DEF SettleNames
<1>8. refused' \in BOOLEAN
  BY <1>1 DEF SettleNames
<1>9. /\ space' \in Nat /\ holders' \in {1, 2, Static}
      /\ \/ space' = space /\ (body' = body \/ Len(Tried) <= space)
         \/ space' = Len(Tried) /\ Len(Tried) > space
  <2>1. Len(Tried) \in Nat
    BY <1>3, LenProperties
  <2> QED
    BY <1>1, <1>5, <2>1
<1>10. body' \in Seq(Word) /\ Len(body') <= space'
  <2>1. Len(Tried) \in Nat /\ Len(body) \in Nat
    BY <1>3, <1>5, LenProperties
  <2>2. CASE body' = Tried
    BY <1>3, <1>5, <1>9, <2>1, <2>2
  <2>3. CASE body' = body
    BY <1>5, <1>9, <2>1, <2>3
  <2> QED
    BY <1>7, <2>2, <2>3
<1> USE DEF watcherVars
<1>11. UsersTypeOK'
  <2>1. built' \in Seq(Word)
    BY <1>1
  <2> QED
    BY <1>1, <1>8, <1>9, <1>10, <2>1 DEF UInv, UsersTypeOK
<1>12. UsersRenderedWhole' /\ ShownInv'
  BY <1>1, <1>4, <1>6, <1>7 DEF UsersRenderedWhole, ShownInv
<1>13. IdleInv' /\ GotInv' /\ NotedInv' /\ PlaceInv' /\ BuiltInv'
  BY <1>1, <1>3, <1>6 DEF IdleInv, GotInv, NotedInv, PlaceInv, BuiltInv, Busily, Holding
<1>14. SteadyInv'
  BY <1>1 DEF UInv, SteadyInv
<1>15. GivenInv'
  <2> SUFFICES ASSUME Undisturbed'  PROVE shown' = Fitting(list')
    BY <1>1 DEF GivenInv
  <2>1. steady /\ ~refused' /\ Rewritable(got) /\ list' = list /\ list \in NameLists \cup {<<>>}
    BY <1>1 DEF Undisturbed, UInv, UsersTypeOK
  <2>2. m = Len(names) /\ Validate(Tried)
    BY <1>3, <1>4, <2>1
  <2>3. shown' = names
    BY <1>1, <1>4, <2>1, <2>2 DEF SettleNames
  <2>4. count = Len(Fitting(list))
    BY <1>1, <2>1 DEF UInv, SteadyInv
  <2>5. names = Fitting(list)
    BY <1>4, <2>1, <2>4, FittingOnly
  <2> QED
    BY <2>1, <2>3, <2>5
<1> QED
  BY <1>11, <1>12, <1>13, <1>14, <1>15 DEF UInv

\* The reply is handed out again ...
LEMMA AgainKeeps ==
  ASSUME UInv, WalkUsersAgain
  PROVE  UInv'
<1>1. /\ at = "done" /\ at' = "enter"
      /\ UNCHANGED <<watcherVars, userReply, target, built, shown, steady, refused>>
  BY DEF WalkUsersAgain
<1> USE DEF watcherVars, userReply
<1>2. UsersTypeOK' /\ UsersRenderedWhole' /\ IdleInv' /\ GotInv' /\ ShownInv' /\ NotedInv'
  BY <1>1 DEF UInv, UsersTypeOK, UsersRenderedWhole, IdleInv, GotInv, ShownInv, NotedInv
<1>3. PlaceInv' /\ SteadyInv' /\ BuiltInv'
  BY <1>1 DEF UInv, PlaceInv, SteadyInv, BuiltInv, Busily, Holding
<1>4. GivenInv'
  BY <1>1 DEF UInv, GivenInv, Undisturbed
<1> QED
  BY <1>2, <1>3, <1>4 DEF UInv

\* ... or done with.
LEMMA DispatchKeeps ==
  ASSUME UInv, DispatchUsers
  PROVE  UInv'
<1> USE DEF DispatchUsers
<1>1. UsersTypeOK'
  <2>1. <<>> \in Seq(Word) /\ Len(<<>>) = 0 /\ Slots \in Nat
    BY SlotsAre
  <2>2. entries' \in [1 .. Slots -> Names \cup {Blank}] /\ count' \in 0 .. Slots
    BY <2>1, NoEntries DEF Cell
  <2>3. body' \in Seq(Word) /\ built' \in Seq(Word) /\ space' \in Nat /\ Len(body') <= space'
    BY <2>1 DEF UInv, UsersTypeOK
  <2>4. holders' \in {1, 2, Static} /\ got' \in UserReplies \cup {NoReply}
    OBVIOUS
  <2> QED
    BY <2>2, <2>3, <2>4 DEF UsersTypeOK
<1>2. UsersRenderedWhole' /\ IdleInv' /\ GotInv' /\ ShownInv' /\ NotedInv' /\ PlaceInv' /\ BuiltInv'
  BY DEF UsersRenderedWhole, IdleInv, GotInv, ShownInv, NotedInv, PlaceInv, BuiltInv, Busily, Holding
<1>3. SteadyInv' /\ GivenInv'
  BY DEF SteadyInv, GivenInv, Undisturbed
<1> QED
  BY <1>1, <1>2, <1>3 DEF UInv

\* ... and every step of the username splice keeps it.
LEMMA UsersStep == UInv /\ UsersNext => UInv'
<1> SUFFICES ASSUME UInv, UsersNext  PROVE UInv'
  OBVIOUS
<1> QED
  BY ReceiveKeeps, EnterKeeps, HeadKeeps, NameKeeps, SpliceKeeps, AgainKeeps, DispatchKeeps,
     LoaderKeeps DEF UsersNext

----------------------------------------------------------------------------
(* The theorems.                                                           *)

\* The invariant, for all replies, lists, array sizes and schedules of the watcher.
THEOREM UsersInvariant == SplicesSpec => []UInv
<1>1. SplicesInit => UInv
  BY UsersStart DEF SplicesInit
<1>2. UInv /\ [SplicesNext]_<<vars, userVars>> => UInv'
  BY UsersStep, UsersStutter DEF SplicesNext
<1> QED
  BY <1>1, <1>2, PTL DEF SplicesSpec

\* The types, and that a reply never publishes more words than its vector has room for.
THEOREM UsersTyped == SplicesSpec => []UsersTypeOK
<1>1. UInv => UsersTypeOK
  BY DEF UInv
<1> QED
  BY <1>1, UsersInvariant, PTL

\* Between any two steps the reply is the genuine one, or the genuine one with the own
\* account's list replaced as a whole, its bit set and its count right.  Every other user
\* is as it came, and a list whose count and names were read on two sides of a reload
\* never stays.
THEOREM UsersWhole == SplicesSpec => []UsersRenderedWhole
<1>1. UInv => UsersRenderedWhole
  BY DEF UInv
<1> QED
  BY <1>1, UsersInvariant, PTL

\* Where no reload came between and there was memory and room, a reply that can be
\* rewritten shows the whole list of the configuration in its order.
THEOREM UsersGivenList == SplicesSpec => []ListIsShown
<1>1. UInv => ListIsShown
  BY DEF UInv, GivenInv, Undisturbed, ListIsShown
<1> QED
  BY <1>1, UsersInvariant, PTL

----------------------------------------------------------------------------
(* What a refused edit of a page leaves.                                   *)

\* A sequence is what it has up to a place, and what it has from there.
LEMMA SplitAt ==
  ASSUME NEW w \in Seq(Word), NEW m \in 1 .. Len(w) + 1
  PROVE  /\ SubSeq(w, 1, m - 1) \in Seq(Word) /\ SubSeq(w, m, Len(w)) \in Seq(Word)
         /\ Len(SubSeq(w, 1, m - 1)) = m - 1
         /\ w = Cat(SubSeq(w, 1, m - 1), SubSeq(w, m, Len(w)))
<1> DEFINE a == SubSeq(w, 1, m - 1)
           b == SubSeq(w, m, Len(w))
           x == Cat(a, b)
<1>1. Len(w) \in Nat
  BY LenProperties
<1>2. /\ a \in Seq(Word) /\ Len(a) = m - 1
      /\ \A i \in 1 .. m - 1 : a[i] = w[i]
  <2>1. \A i \in 1 .. m - 1 : w[i] \in Word
    BY <1>1, ElementOfSeq
  <2> QED
    BY <1>1, <2>1, SubSeqProperties
<1>3. /\ b \in Seq(Word) /\ Len(b) = Len(w) + 1 - m
      /\ \A i \in 1 .. Len(w) + 1 - m : b[i] = w[m + i - 1]
  <2>1. \A i \in m .. Len(w) : w[i] \in Word
    BY <1>1, ElementOfSeq
  <2> QED
    BY <1>1, <2>1, SubSeqProperties
<1> HIDE DEF a, b
<1>4. /\ x \in Seq(Word) /\ Len(x) = Len(a) + Len(b)
      /\ \A i \in 1 .. Len(a) + Len(b) : x[i] = IF i <= Len(a) THEN a[i] ELSE b[i - Len(a)]
  BY <1>2, <1>3, CatTyped
<1> HIDE DEF x
<1>5. Len(x) = Len(w)
  BY <1>1, <1>2, <1>3, <1>4
<1>6. ASSUME NEW i \in 1 .. Len(w)
      PROVE  x[i] = w[i]
  <2>1. i \in 1 .. Len(a) + Len(b) /\ Len(a) = m - 1
    BY <1>1, <1>2, <1>3
  <2>2. CASE i <= Len(a)
    <3>1. i \in 1 .. m - 1
      BY <1>1, <2>1, <2>2
    <3> QED
      BY <1>2, <1>4, <2>1, <2>2, <3>1
  <2>3. CASE ~(i <= Len(a))
    <3>1. i - Len(a) \in 1 .. Len(w) + 1 - m /\ m + (i - Len(a)) - 1 = i
      BY <1>1, <2>1, <2>3
    <3> QED
      BY <1>3, <1>4, <2>1, <2>3, <3>1
  <2> QED
    BY <2>2, <2>3
<1>7. x = w
  BY <1>4, <1>5, <1>6, SeqEqual
<1> QED
  BY <1>2, <1>3, <1>7 DEF a, b, x

\* The words of a field that is inserted.
LEMMA PutTyped ==
  ASSUME NEW f \in InOrder
  PROVE  Put(f) \in Seq(Word) /\ f \in Text
<1>1. f \in {"gift_num", "transfer_stars", "message", "auction", "title", "limited"}
  BY DEF InOrder, Order
<1>2. "ours" \in Text /\ f \in Text
  BY GiftTextAssumption DEF Field
<1>3. "textWithEntities" \in Text
  BY TextAssumption DEF Schema
<1> DEFINE t == Ctor("textWithEntities")
           d == Data("ours")
           z == Number(0)
           v == VectorId
<1>4. t \in Word /\ d \in Word /\ z \in Word /\ v \in Word
  BY <1>2, <1>3, WordsTyped
<1>5. Put(f) \in {<<t, d, v, z>>, <<d, d, d>>, <<d, d>>, <<d>>}
  BY <1>1 DEF Put, FieldWords, PeerFields
<1> HIDE DEF t, d, z, v
<1>6. /\ <<t, d, v, z>> \in Seq(Word) /\ <<d, d, d>> \in Seq(Word)
      /\ <<d, d>> \in Seq(Word) /\ <<d>> \in Seq(Word)
  BY <1>4
<1> QED
  BY <1>2, <1>5, <1>6

\* Where a field goes and its flags word, in a page they were found in.
Spotted(f) == Spot(f) \in 1 .. Len(words) + 1 /\ FlagsSpot(f) \in 1 .. Spot(f) - 1

\* pg_gift_insert_field, when the validator refuses: what the tail was moved over, and
\* the flags word, are as they were before, whatever the field and wherever it went.
THEOREM RefusedInsertLeavesPage ==
  ASSUME words \in Seq(Word), NEW f \in InOrder, Spotted(f)
  PROVE  Closed(Opened(f), f) = words
<1> DEFINE s == Spot(f)
           k == FlagsSpot(f)
           a == SubSeq(words, 1, s - 1)
           b == SubSeq(words, s, Len(words))
           p == Put(f)
           c == Cat(a, Cat(p, b))
           v == FlagsWord(c[k].bits \cup {f})
<1>1. /\ a \in Seq(Word) /\ b \in Seq(Word) /\ Len(a) = s - 1 /\ words = Cat(a, b)
      /\ k \in 1 .. Len(a)
  BY SplitAt DEF Spotted
<1>2. p \in Seq(Word) /\ f \in Text
  BY PutTyped
<1>3. Opened(f) = Replaced(c, k, v)
  <2>1. Cat(Cat(a, p), b) = c
    <3> HIDE DEF a, b, p
    <3> QED
      BY <1>1, <1>2, CatAssociative
  <2> QED
    BY <2>1 DEF Opened, Replaced, Cat
<1> DEFINE u == words[k]
           e == SubSeq(Opened(f), 1, s - 1)
<1>4. Closed(Opened(f), f) = Replaced(Cat(e, b), k, u)
  BY DEF Closed, Replaced, Cat
<1> HIDE DEF s, k, a, b, p
<1> DEFINE pb == Cat(p, b)
<1>5. pb \in Seq(Word)
  BY <1>1, <1>2, CatTyped
<1>6. c \in Seq(Word) /\ k \in 1 .. Len(c)
  <2> HIDE DEF pb
  <2>1. c = Cat(a, pb)
    BY DEF pb
  <2>2. /\ Cat(a, pb) \in Seq(Word) /\ Len(Cat(a, pb)) = Len(a) + Len(pb)
        /\ Len(a) \in Nat /\ Len(pb) \in Nat
    BY <1>1, <1>5, CatTyped
  <2> HIDE DEF c
  <2> QED
    BY <1>1, <2>1, <2>2
<1>7. v \in Word
  <2> HIDE DEF c
  <2>1. c[k] \in Word
    BY <1>6, ElementOfSeq
  <2>2. c[k].bits \cup {f} \in SUBSET Text
    BY <1>2, <2>1 DEF Word
  <2> QED
    BY <2>2, WordsTyped
<1>8. u = a[k] /\ u \in Word
  <2>1. /\ \A i \in 1 .. Len(a) + Len(b) :
             Cat(a, b)[i] = IF i <= Len(a) THEN a[i] ELSE b[i - Len(a)]
        /\ Len(a) \in Nat /\ Len(b) \in Nat
    BY <1>1, CatTyped
  <2>2. k \in 1 .. Len(a) + Len(b) /\ k <= Len(a)
    BY <1>1, <2>1
  <2>3. a[k] \in Word
    BY <1>1, ElementOfSeq
  <2> QED
    BY <1>1, <2>1, <2>2, <2>3
<1> HIDE DEF v, u
<1>9. Replaced(c, k, v) = Cat(Replaced(a, k, v), pb)
  <2> HIDE DEF pb
  <2>1. c = Cat(a, pb)
    BY DEF pb
  <2> HIDE DEF c
  <2> QED
    BY <1>1, <1>5, <1>7, <2>1, ReplacedCat
<1> DEFINE g == Replaced(a, k, v)
<1>10. g \in Seq(Word) /\ Len(g) = s - 1
  <2>1. Becomes(g, a, k, v)
    BY <1>1, <1>7, ReplacedIs
  <2> QED
    BY <1>1, <2>1 DEF Becomes
<1>11. e = g
  <2>1. Opened(f) = Cat(g, Cat(p, b))
    BY <1>3, <1>9
  <2> HIDE DEF g, e
  <2>2. CutIs(Opened(f), g, p, b)
    BY <1>1, <1>2, <1>10, <2>1, CutAt
  <2> QED
    BY <1>10, <2>2 DEF CutIs, e
<1>12. Replaced(Cat(g, b), k, u) = Cat(Replaced(g, k, u), b)
  <2> HIDE DEF g
  <2>1. k \in 1 .. Len(g)
    BY <1>1, <1>10
  <2> QED
    BY <1>1, <1>8, <1>10, <2>1, ReplacedCat
<1>13. Replaced(g, k, u) = a
  BY <1>1, <1>7, <1>8, ReplacedTwice, ReplacedSame
<1> QED
  BY <1>1, <1>4, <1>11, <1>12, <1>13

\* pg_gift_unique_rebuild, when the validator refuses: the gift that was staged is back
\* over the gap and the tail behind it, whatever was put in its place.
THEOREM RefusedSpliceLeavesPage ==
  ASSUME words \in Seq(Word), NEW new \in Seq(Word), spots.gift \in 1 .. Len(words) + 1,
         spots.after \in spots.gift .. Len(words) + 1
  PROVE  Unspliced(Spliced(new), new) = words
<1> DEFINE p == spots.gift
           q == spots.after
           a == SubSeq(words, 1, p - 1)
           r == SubSeq(words, p, Len(words))
           c == SubSeq(words, q, Len(words))
           o == SubSeq(words, p, q - 1)
           t == Spliced(new)
<1>1. a \in Seq(Word) /\ r \in Seq(Word) /\ Len(a) = p - 1 /\ words = Cat(a, r)
  BY SplitAt
<1>2. Len(words) \in Nat /\ p \in 1 .. Len(words) + 1 /\ q \in 1 .. Len(words) + 1 /\ p <= q
  BY LenProperties
<1>3. c \in Seq(Word)
  BY <1>2, SplitAt
<1>4. o \in Seq(Word)
  <2>1. \A i \in p .. q - 1 : words[i] \in Word
    BY <1>2, ElementOfSeq
  <2> QED
    BY <1>2, <2>1, SubSeqProperties
<1>5. t = Cat(a, Cat(new, c))
  <2>1. t = Cat(Cat(a, new), c)
    BY DEF Spliced, Cat
  <2> HIDE DEF a, c, t
  <2> QED
    BY <1>1, <1>3, <2>1, CatAssociative
<1>6. CutIs(t, a, new, c)
  <2> HIDE DEF a, c, t
  <2> QED
    BY <1>1, <1>3, <1>5, CutAt
<1>7. Unspliced(t, new) = Cat(Cat(a, o), c)
  <2>1. SubSeq(t, 1, p - 1) = a
    BY <1>1, <1>6 DEF CutIs
  <2>2. SubSeq(t, p + Len(new), Len(t)) = c
    <3>1. Len(new) \in Nat
      BY LenProperties
    <3>2. Len(a) + Len(new) + 1 = p + Len(new)
      <4> HIDE DEF p, a
      <4> QED
        BY <1>1, <1>2, <3>1
    <3> QED
      BY <1>6, <3>2 DEF CutIs
  <2> QED
    BY <2>1, <2>2 DEF Unspliced, Cat
<1>8. Cat(o, c) = r
  <2> HIDE DEF a
  <2>1. Len(r) = Len(words) + 1 - p /\ \A i \in 1 .. Len(r) : r[i] = words[p + i - 1]
    <3>1. \A i \in p .. Len(words) : words[i] \in Word
      BY <1>2, ElementOfSeq
    <3> QED
      BY <1>2, <3>1, SubSeqProperties
  <2>2. Len(o) = q - p /\ \A i \in 1 .. Len(o) : o[i] = words[p + i - 1]
    <3>1. \A i \in p .. q - 1 : words[i] \in Word
      BY <1>2, ElementOfSeq
    <3> DEFINE m == q - 1
    <3>2. m \in Int /\ p \in Int
      BY <1>2
    <3>3. /\ Len(o) = IF p <= m THEN m - p + 1 ELSE 0
          /\ \A i \in 1 .. m - p + 1 : o[i] = words[p + i - 1]
      <4>1. \A i \in p .. m : words[i] \in Word
        BY <3>1
      <4>2. o = SubSeq(words, p, m)
        OBVIOUS
      <4> HIDE DEF m, o, p, q
      <4> QED
        BY <3>2, <4>1, <4>2, SubSeqProperties
    <3> HIDE DEF o
    <3> QED
      BY <1>2, <3>3
  <2>3. Len(c) = Len(words) + 1 - q /\ \A i \in 1 .. Len(c) : c[i] = words[q + i - 1]
    <3>1. \A i \in q .. Len(words) : words[i] \in Word
      BY <1>2, ElementOfSeq
    <3> QED
      BY <1>2, <3>1, SubSeqProperties
  <2> DEFINE x == Cat(o, c)
  <2> HIDE DEF o, c, r, p, q
  <2>4. /\ x \in Seq(Word) /\ Len(x) = Len(o) + Len(c)
        /\ \A i \in 1 .. Len(o) + Len(c) : x[i] = IF i <= Len(o) THEN o[i] ELSE c[i - Len(o)]
    BY <1>3, <1>4, CatTyped
  <2> HIDE DEF x
  <2>5. Len(x) = Len(r)
    BY <1>2, <2>1, <2>2, <2>3, <2>4
  <2>6. ASSUME NEW i \in 1 .. Len(r)
        PROVE  x[i] = r[i]
    <3>1. i \in 1 .. Len(o) + Len(c) /\ r[i] = words[p + i - 1]
      BY <1>2, <2>1, <2>4, <2>5
    <3>2. CASE i <= Len(o)
      <4>1. i \in 1 .. Len(o)
        BY <1>2, <2>2, <3>1, <3>2
      <4> QED
        BY <2>2, <2>4, <3>1, <3>2, <4>1
    <3>3. CASE ~(i <= Len(o))
      <4>1. i - Len(o) \in 1 .. Len(c) /\ q + (i - Len(o)) - 1 = p + i - 1
        BY <1>2, <2>1, <2>2, <2>3, <3>1, <3>3
      <4> QED
        BY <2>3, <2>4, <3>1, <3>3, <4>1
    <3> QED
      BY <3>2, <3>3
  <2>7. x = r
    BY <1>1, <2>4, <2>5, <2>6, SeqEqual
  <2> QED
    BY <2>7 DEF x
<1>9. Cat(Cat(a, o), c) = Cat(a, Cat(o, c))
  BY <1>1, <1>3, <1>4, CatAssociative
<1> QED
  BY <1>1, <1>7, <1>8, <1>9
===============================================================================
