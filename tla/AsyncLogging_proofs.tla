------------------------- MODULE AsyncLogging_proofs -------------------------
(***************************************************************************)
(* For any lines, lengths, capacity and backlog limit (of two or more),    *)
(* however the appends fall between the backend's steps:                   *)
(*   - the backend has enough written buffers to make its two spares of,   *)
(*     so that append() always finds a buffer to write to;                 *)
(*   - the output, from the file to the current buffer, has every writable *)
(*     line that was logged and not dropped, once and in order.            *)
(***************************************************************************)
EXTENDS AsyncLogging, Integers, SequenceTheorems, WellFoundedInduction, TLAPS

-----------------------------------------------------------------------------
(* Induction over the natural numbers, as facts about sets of numbers.     *)

\* A set of natural numbers has a least element, unless it is empty.
LEMMA SmallestOf ==
  ASSUME NEW T \in SUBSET Nat, T # {}
  PROVE  \E m \in T : \A k \in T : m <= k
<1> DEFINE R == {ss \in Nat \X Nat : ss[1] < ss[2]}
<1>1. IsWellFoundedOn(R, Nat)
  BY NatLessThanWellFounded DEF OpToRel
<1>2. \E x \in T : \A y \in T : ~ (<<y, x>> \in R)
  <2> HIDE DEF R
  <2> QED BY <1>1, WFMin
<1>3. PICK x \in T : \A y \in T : <<y, x>> \notin R
  BY <1>2
<1>4. ASSUME NEW y \in T PROVE x <= y
  <2>1. x \in Nat /\ y \in Nat
    OBVIOUS
  <2>2. ~(<<y, x>>[1] < <<y, x>>[2])
    BY <1>3, <2>1
  <2>3. QED
    BY <2>1, <2>2
<1>5. QED
  BY <1>3, <1>4

\* A set with 0 and every successor of its elements is Nat.
LEMMA NatSetInduction ==
  ASSUME NEW S \in SUBSET Nat, 0 \in S, \A n \in S : n + 1 \in S
  PROVE  S = Nat
<1> SUFFICES ASSUME S # Nat PROVE FALSE
  OBVIOUS
<1>1. PICK m \in Nat \ S : \A k \in Nat \ S : m <= k
  BY SmallestOf
<1>2. m # 0 /\ m - 1 \in Nat /\ m - 1 \in S
  BY <1>1
<1>3. m - 1 + 1 \in S
  BY <1>2
<1>4. QED BY <1>1, <1>3

\* f is computed from base by the steps 1, 2, ..., N.
Recursion(f, S, base, N, step) ==
    f \in [0..N -> S] /\ f[0] = base /\ \A i \in 1..N : f[i] = step[i][f[i - 1]]

CanRecur(S, base, N, step) ==
    base \in S /\ N \in Nat /\ step \in [1..N -> [S -> S]]

\* A recursive definition defines something.
LEMMA RecursionExists ==
  ASSUME NEW S, NEW base, NEW N, NEW step, CanRecur(S, base, N, step)
  PROVE  \E f : Recursion(f, S, base, N, step)
<1>0. base \in S /\ N \in Nat /\ step \in [1..N -> [S -> S]]
  BY DEF CanRecur
<1> DEFINE Computes(f, n) == f[0] = base /\ \A i \in 1..n : f[i] = step[i][f[i - 1]]
           T == {n \in Nat : n <= N => \E f \in [0..n -> S] : Computes(f, n)}
<1>1. 0 \in T
  <2> DEFINE f == [i \in 0..0 |-> base]
  <2>1. f \in [0..0 -> S] /\ f[0] = base /\ 1..0 = {}
    BY <1>0
  <2> HIDE DEF f
  <2>2. Computes(f, 0)
    BY <2>1
  <2>3. QED
    BY <1>0, <2>1, <2>2
<1>2. ASSUME NEW n \in T PROVE n + 1 \in T
  <2>1. SUFFICES ASSUME n + 1 <= N PROVE \E f \in [0..(n + 1) -> S] : Computes(f, n + 1)
    <3> HIDE DEF Computes
    <3>1. QED
      BY <1>0
  <2>2. PICK f \in [0..n -> S] : Computes(f, n)
    <3>1. n \in Nat /\ (n <= N => \E f \in [0..n -> S] : Computes(f, n))
      BY <1>2
    <3>2. n <= N
      BY <1>0, <2>1, <3>1
    <3> HIDE DEF Computes
    <3>3. QED
      BY <3>1, <3>2
  <2> DEFINE g == [i \in 0..(n + 1) |-> IF i = n + 1 THEN step[n + 1][f[n]] ELSE f[i]]
  <2>n. n \in Nat
    BY <1>2
  <2>3. step[n + 1][f[n]] \in S
    BY <1>0, <1>2, <2>1, <2>2
  <2>4. /\ g \in [0..(n + 1) -> S] /\ g[n + 1] = step[n + 1][f[n]]
        /\ \A i \in 0..n : g[i] = f[i]
    BY <1>0, <2>n, <2>2, <2>3
  <2> HIDE DEF g
  <2>5. ASSUME NEW i \in 1..(n + 1) PROVE g[i] = step[i][g[i - 1]]
    <3>1. CASE i = n + 1
      BY <2>n, <2>2, <2>4, <3>1
    <3>2. CASE i # n + 1
      <4>1. i \in 1..n /\ i - 1 \in 0..n /\ i \in 0..n
        BY <2>n, <2>2, <3>2
      <4>2. QED
        BY <2>2, <2>4, <4>1
    <3>3. QED
      BY <3>1, <3>2
  <2>6. g[0] = base
    BY <2>n, <2>2, <2>4
  <2>7. QED
    BY <2>4, <2>5, <2>6
<1> HIDE DEF Computes
<1>3. T = Nat
  <2>1. T \in SUBSET Nat
    OBVIOUS
  <2> HIDE DEF T
  <2>2. QED
    BY <1>1, <1>2, <2>1, NatSetInduction
<1>4. \E f \in [0..N -> S] : Computes(f, N)
  BY <1>0, <1>3
<1>5. QED
  BY <1>4 DEF Computes, Recursion

-----------------------------------------------------------------------------
(* FlattenSeq.                                                             *)

\* g[i] is the concatenation of the first i elements of s.
Flattens(s, g) == g = [i \in 1..Len(s) |-> IF i = 1 THEN s[i] ELSE g[i - 1] \o s[i]]

\* The definition, with its recursive function named.
LEMMA FlattenDef ==
  ASSUME NEW s, Len(s) # 0
  PROVE FlattenSeq(s) = (CHOOSE g : Flattens(s, g))[Len(s)]
BY DEF FlattenSeq, Flattens

\* FlattenSeq(s) is computed by a recursion, which exists for any s.
LEMMA FlattenSeqIs ==
  ASSUME NEW T, NEW s \in Seq(Seq(T)), s # <<>>
  PROVE  \E g \in [1..Len(s) -> Seq(T)] : Flattens(s, g) /\ FlattenSeq(s) = g[Len(s)]
<1> DEFINE N == Len(s)
           step == [i \in 1..N |-> [x \in Seq(T) |-> IF i = 1 THEN s[i] ELSE x \o s[i]]]
<1>1. N \in Nat \ {0} /\ \A i \in 1..N : s[i] \in Seq(T)
  BY LenProperties, ElementOfSeq, EmptySeq
<1>2. step \in [1..N -> [Seq(T) -> Seq(T)]]
  BY <1>1, ConcatProperties
<1>3. \A i \in 1..N : \A x \in Seq(T) : step[i][x] = IF i = 1 THEN s[i] ELSE x \o s[i]
  OBVIOUS
<1> HIDE DEF step
<1>4. PICK f \in [0..N -> Seq(T)] :
         f[0] = <<>> /\ \A i \in 1..N : f[i] = step[i][f[i - 1]]
  <2>1. CanRecur(Seq(T), <<>>, N, step)
    BY <1>1, <1>2, EmptySeq DEF CanRecur
  <2>2. PICK f : Recursion(f, Seq(T), <<>>, N, step)
    BY <2>1, RecursionExists
  <2>3. QED
    BY <2>2 DEF Recursion
<1>5. \A i \in 1..N : i - 1 \in 0..N /\ f[i] = IF i = 1 THEN s[i] ELSE f[i - 1] \o s[i]
  <2>1. TAKE i \in 1..N
  <2>2. i - 1 \in 0..N
    BY <1>1
  <2>3. f[i - 1] \in Seq(T)
    BY <2>2
  <2>4. step[i][f[i - 1]] = IF i = 1 THEN s[i] ELSE f[i - 1] \o s[i]
    BY <1>3, <2>3
  <2>5. QED
    BY <1>4, <2>2, <2>4
<1> DEFINE h == [i \in 1..N |-> f[i]]
<1>6. \A i \in 1..N : i # 1 => i - 1 \in 1..N
  BY <1>1
<1>7. Flattens(s, h)
  <2>1. \A i \in 1..N : f[i] = IF i = 1 THEN s[i] ELSE h[i - 1] \o s[i]
    BY <1>5, <1>6
  <2> DEFINE e == [i \in 1..N |-> IF i = 1 THEN s[i] ELSE h[i - 1] \o s[i]]
  <2>2. h = e
    BY <2>1
  <2>3. QED
    BY <2>2 DEF Flattens
<1> HIDE DEF h
<1> DEFINE g == CHOOSE g : Flattens(s, g)
<1>8. Flattens(s, g)
  BY <1>7
<1> HIDE DEF g
<1>9. \A i \in 1..N : g[i] = IF i = 1 THEN s[i] ELSE g[i - 1] \o s[i]
  BY <1>8 DEF Flattens
<1>10. \A i \in 1..N : g[i] = f[i]
  <2> DEFINE I == {i \in Nat : i + 1 \in 1..N => g[i + 1] = f[i + 1]}
  <2>1. 0 \in I
    BY <1>1, <1>5, <1>9
  <2>2. ASSUME NEW i \in I PROVE i + 1 \in I
    <3>1. SUFFICES ASSUME (i + 1) + 1 \in 1..N PROVE g[(i + 1) + 1] = f[(i + 1) + 1]
      OBVIOUS
    <3>2. i \in Nat /\ i + 1 \in 1..N /\ ((i + 1) + 1) - 1 = i + 1 /\ (i + 1) + 1 # 1
      BY <1>1, <3>1
    <3>3. g[i + 1] = f[i + 1]
      BY <3>2
    <3>4. QED
      BY <1>5, <1>9, <3>1, <3>2, <3>3
  <2>3. I = Nat
    <3>1. I \in SUBSET Nat
      OBVIOUS
    <3> HIDE DEF I
    <3>2. QED
      BY <2>1, <2>2, <3>1, NatSetInduction
  <2>4. TAKE i \in 1..N
  <2>5. i - 1 \in I /\ (i - 1) + 1 = i
    <3>1. i - 1 \in Nat /\ (i - 1) + 1 = i
      BY <1>1
    <3> HIDE DEF I
    <3>2. QED
      BY <2>3, <3>1
  <2>6. QED
    BY <2>5
<1>11. g \in [1..N -> Seq(T)]
  <2>1. g = [i \in 1..N |-> g[i]]
    BY <1>8 DEF Flattens
  <2>2. QED
    BY <1>1, <1>10, <2>1
<1>12. FlattenSeq(s) = g[N]
  BY <1>1, FlattenDef DEF g
<1>13. QED
  BY <1>8, <1>11, <1>12

\* Any such recursion computes it.
LEMMA FlattenIs ==
  ASSUME NEW T, NEW s \in Seq(Seq(T)), s # <<>>, NEW g, Flattens(s, g)
  PROVE  FlattenSeq(s) = g[Len(s)]
<1> DEFINE N == Len(s)
<1>1. N \in Nat \ {0}
  BY LenProperties, EmptySeq
<1>2. PICK f : Flattens(s, f) /\ FlattenSeq(s) = f[N]
  BY FlattenSeqIs
<1>3. \A i \in 1..N : /\ g[i] = IF i = 1 THEN s[i] ELSE g[i - 1] \o s[i]
                      /\ f[i] = IF i = 1 THEN s[i] ELSE f[i - 1] \o s[i]
  BY <1>2 DEF Flattens
<1>10. \A i \in 1..N : g[i] = f[i]
  <2> DEFINE I == {i \in Nat : i + 1 \in 1..N => g[i + 1] = f[i + 1]}
  <2>1. 0 \in I
    BY <1>1, <1>3
  <2>2. ASSUME NEW i \in I PROVE i + 1 \in I
    <3>1. SUFFICES ASSUME (i + 1) + 1 \in 1..N PROVE g[(i + 1) + 1] = f[(i + 1) + 1]
      OBVIOUS
    <3>2. i \in Nat /\ i + 1 \in 1..N /\ ((i + 1) + 1) - 1 = i + 1 /\ (i + 1) + 1 # 1
      BY <1>1, <3>1
    <3>3. g[i + 1] = f[i + 1]
      BY <3>2
    <3>4. QED
      BY <1>3, <3>1, <3>2, <3>3
  <2>3. I = Nat
    <3>1. I \in SUBSET Nat
      OBVIOUS
    <3> HIDE DEF I
    <3>2. QED
      BY <2>1, <2>2, <3>1, NatSetInduction
  <2>4. TAKE i \in 1..N
  <2>5. i - 1 \in I /\ (i - 1) + 1 = i
    <3>1. i - 1 \in Nat /\ (i - 1) + 1 = i
      BY <1>1
    <3> HIDE DEF I
    <3>2. QED
      BY <2>3, <3>1
  <2>6. QED
    BY <2>5
<1>11. QED
  BY <1>1, <1>2, <1>10

\* Nothing flattens to nothing.
LEMMA FlattenEmpty == FlattenSeq(<<>>) = <<>>
BY DEF FlattenSeq

\* Sequences flatten to a sequence.
LEMMA FlattenType ==
  ASSUME NEW T, NEW s \in Seq(Seq(T))
  PROVE  FlattenSeq(s) \in Seq(T)
<1>1. CASE s = <<>>
  BY <1>1, FlattenEmpty, EmptySeq
<1>2. CASE s # <<>>
  <2>1. Len(s) \in 1..Len(s)
    BY <1>2, LenProperties, EmptySeq
  <2>2. PICK g \in [1..Len(s) -> Seq(T)] : FlattenSeq(s) = g[Len(s)]
    BY <1>2, FlattenSeqIs
  <2>3. QED
    BY <2>1, <2>2
<1>3. QED
  BY <1>1, <1>2

\* A last element comes last.
LEMMA FlattenAppend ==
  ASSUME NEW T, NEW s \in Seq(Seq(T)), NEW b \in Seq(T)
  PROVE  FlattenSeq(Append(s, b)) = FlattenSeq(s) \o b
<1> DEFINE N == Len(s)
           t == Append(s, b)
<1>1. /\ N \in Nat /\ t \in Seq(Seq(T)) /\ Len(t) = N + 1 /\ t # <<>>
      /\ \A i \in 1..N : t[i] = s[i]
      /\ t[N + 1] = b
  BY AppendProperties, LenProperties
<1> HIDE DEF t
<1>2. CASE s = <<>>
  <2>1. N = 0 /\ 1..Len(t) = {1} /\ t[1] = b
    BY <1>1, <1>2
  <2> DEFINE g == [i \in {1} |-> b]
  <2>2. g = [i \in 1..Len(t) |-> IF i = 1 THEN t[i] ELSE g[i - 1] \o t[i]]
    <3>1. g = [i \in {1} |-> IF i = 1 THEN t[i] ELSE g[i - 1] \o t[i]]
      BY <2>1
    <3> HIDE DEF g
    <3>2. QED
      BY <2>1, <3>1
  <2>3. FlattenSeq(t) = b
    <3>1. g[Len(t)] = b
      BY <1>1, <2>1
    <3> HIDE DEF g
    <3>2. QED
      BY <1>1, <2>2, <3>1, FlattenIs DEF Flattens
  <2>4. FlattenSeq(s) \o b = b
    BY <1>2, FlattenEmpty, ConcatEmptySeq
  <2>5. QED
    BY <2>3, <2>4 DEF t
<1>3. CASE s # <<>>
  <2>1. N # 0
    BY <1>3, EmptySeq
  <2>2. PICK g \in [1..N -> Seq(T)] : Flattens(s, g) /\ FlattenSeq(s) = g[N]
    BY <1>3, FlattenSeqIs
  <2>3. \A i \in 1..N : g[i] = IF i = 1 THEN s[i] ELSE g[i - 1] \o s[i]
    BY <2>2 DEF Flattens
  <2> DEFINE h == [i \in 1..(N + 1) |-> IF i = N + 1 THEN g[N] \o b ELSE g[i]]
  <2>4. h[N + 1] = g[N] \o b /\ \A i \in 1..N : h[i] = g[i]
    BY <1>1
  <2>5. \A i \in 1..(N + 1) : h[i] = IF i = 1 THEN t[i] ELSE h[i - 1] \o t[i]
    <3>1. TAKE i \in 1..(N + 1)
    <3>2. CASE i = N + 1
      <4>1. i - 1 = N /\ i # 1 /\ N \in 1..N
        BY <1>1, <2>1, <3>2
      <4>2. h[i - 1] = g[N] /\ t[i] = b
        BY <1>1, <2>4, <3>2, <4>1
      <4>3. QED
        BY <2>4, <3>2, <4>1, <4>2
    <3>3. CASE i # N + 1
      <4>1. i \in 1..N /\ (i # 1 => i - 1 \in 1..N)
        BY <1>1, <3>3
      <4> HIDE DEF h
      <4>2. QED
        BY <1>1, <2>3, <2>4, <4>1
    <3>4. QED
      BY <3>2, <3>3
  <2>6. Flattens(t, h)
    <3> DEFINE e == [i \in 1..(N + 1) |-> IF i = 1 THEN t[i] ELSE h[i - 1] \o t[i]]
    <3>1. h = e
      BY <2>5
    <3>2. QED
      BY <1>1, <3>1 DEF Flattens
  <2> HIDE DEF h
  <2>7. FlattenSeq(t) = h[Len(t)]
    BY <1>1, <2>6, FlattenIs
  <2>8. QED
    BY <1>1, <2>2, <2>4, <2>7 DEF t
<1>4. QED
  BY <1>2, <1>3

\* A subsequence is one that ends earlier, and its last element.
LEMMA SubSeqAppend ==
  ASSUME NEW T, NEW s \in Seq(T), NEW i \in 1..Len(s), NEW m \in i..Len(s)
  PROVE  SubSeq(s, i, m) = Append(SubSeq(s, i, m - 1), s[m])
<1> DEFINE e == s[m]
           b == SubSeq(s, i, m - 1)
<1>1. Len(s) \in Nat /\ i \in Nat /\ m \in Nat /\ m \in 1..Len(s)
  BY LenProperties
<1>2. e \in T
  BY <1>1, ElementOfSeq
<1>3. b \in Seq(T)
  <2>1. \A k \in i..(m - 1) : s[k] \in T
    BY <1>1, ElementOfSeq
  <2>2. QED
    BY <1>1, <2>1, SubSeqProperties
<1>4. SubSeq(s, i, m) = b \o <<e>>
  BY <1>1, SubSeqRecursiveSecond
<1> HIDE DEF b, e
<1>5. Append(b, e) = b \o <<e>>
  BY <1>2, <1>3, AppendIsConcat
<1>6. QED
  BY <1>4, <1>5 DEF b, e

\* A name for the type of a sequence, for the provers.
SeqOver(x, T) == x \in Seq(T)

\* Concatenation is associative.
LEMMA Associative ==
  ASSUME NEW T, NEW x, NEW y, NEW z, SeqOver(x, T), SeqOver(y, T), SeqOver(z, T)
  PROVE  (x \o y) \o z = x \o (y \o z)
BY ConcatAssociative DEF SeqOver

\* A first element comes first.
LEMMA FlattenFirst ==
  ASSUME NEW T, NEW s \in Seq(Seq(T)), NEW i \in 1..Len(s)
  PROVE  FlattenSeq(SubSeq(s, i, Len(s))) = s[i] \o FlattenSeq(SubSeq(s, i + 1, Len(s)))
<1> DEFINE N == Len(s)
           P(m) == FlattenSeq(SubSeq(s, i, m)) = s[i] \o FlattenSeq(SubSeq(s, i + 1, m))
           I == {k \in Nat : i + k <= N => P(i + k)}
<1>1. N \in Nat /\ i \in Nat /\ i >= 1 /\ i <= N
  BY LenProperties
<1>2. \A m \in 1..N : s[m] \in Seq(T)
  BY ElementOfSeq
<1>3. \A j \in 1..(N + 1), m \in 0..N : SubSeq(s, j, m) \in Seq(Seq(T))
  <2>1. TAKE j \in 1..(N + 1), m \in 0..N
  <2>2. \A k \in j..m : s[k] \in Seq(T)
    BY <1>1, <1>2
  <2>3. j \in Int /\ m \in Int
    BY <1>1
  <2>4. QED
    BY <2>2, <2>3, SubSeqProperties
<1>4. \A j \in 1..N, m \in 1..N :
         j <= m => FlattenSeq(SubSeq(s, j, m)) = FlattenSeq(SubSeq(s, j, m - 1)) \o s[m]
  <2>1. TAKE j \in 1..N, m \in 1..N
  <2>2. HAVE j <= m
  <2>3. SubSeq(s, j, m) = Append(SubSeq(s, j, m - 1), s[m])
    BY <1>1, <2>2, SubSeqAppend
  <2>4. SubSeq(s, j, m - 1) \in Seq(Seq(T)) /\ s[m] \in Seq(T)
    BY <1>1, <1>2, <1>3
  <2>5. QED
    BY <2>3, <2>4, FlattenAppend
<1>5. 0 \in I
  <2>1. SubSeq(s, i, i - 1) = <<>> /\ SubSeq(s, i + 1, i) = <<>>
    BY <1>1, SubSeqEmpty
  <2>2. FlattenSeq(SubSeq(s, i, i)) = <<>> \o s[i]
    <3>1. i \in 1..N /\ i <= i
      BY <1>1
    <3>2. FlattenSeq(SubSeq(s, i, i)) = FlattenSeq(SubSeq(s, i, i - 1)) \o s[i]
      BY <1>4, <3>1
    <3>3. QED
      BY <2>1, <3>2, FlattenEmpty
  <2>3. P(i)
    BY <1>2, <2>1, <2>2, FlattenEmpty, ConcatEmptySeq
  <2> HIDE DEF P
  <2>4. QED
    BY <1>1, <2>3
<1>6. ASSUME NEW k \in I PROVE k + 1 \in I
  <2> DEFINE m == i + k
             n == m + 1
             rest == FlattenSeq(SubSeq(s, i + 1, m))
  <2>0. k \in Nat
    OBVIOUS
  <2>1. SUFFICES ASSUME i + (k + 1) <= N PROVE P(n)
    <3>1. i + (k + 1) = n
      BY <1>1, <2>0
    <3> HIDE DEF n, P
    <3>2. QED
      BY <2>0, <3>1
  <2>2. /\ i \in 1..N /\ n \in 1..N /\ i <= n /\ n - 1 = m /\ m \in 0..N /\ m <= N
        /\ i + 1 \in 1..N /\ i + 1 <= n /\ i + 1 \in 1..(N + 1)
    BY <1>1, <2>0, <2>1
  <2>3. P(m)
    <3> HIDE DEF P
    <3>1. QED
      BY <2>2
  <2> HIDE DEF n
  <2> HIDE DEF m
  <2>4. FlattenSeq(SubSeq(s, i, n)) = FlattenSeq(SubSeq(s, i, m)) \o s[n]
    <3>1. FlattenSeq(SubSeq(s, i, n)) = FlattenSeq(SubSeq(s, i, n - 1)) \o s[n]
      BY <1>4, <2>2
    <3>2. QED
      BY <2>2, <3>1
  <2>5. FlattenSeq(SubSeq(s, i + 1, n)) = rest \o s[n]
    <3> DEFINE j == i + 1
    <3>0. j \in 1..N /\ j <= n
      BY <2>2
    <3> HIDE DEF j
    <3>1. FlattenSeq(SubSeq(s, j, n)) = FlattenSeq(SubSeq(s, j, n - 1)) \o s[n]
      BY <1>4, <2>2, <3>0
    <3>2. QED
      BY <2>2, <3>1 DEF j
  <2>6. rest \in Seq(T)
    <3>1. SubSeq(s, i + 1, m) \in Seq(Seq(T))
      BY <1>3, <2>2
    <3>2. QED
      BY <3>1, FlattenType
  <2>7. P(m) => FlattenSeq(SubSeq(s, i, m)) = s[i] \o rest
    OBVIOUS
  <2> HIDE DEF rest
  <2>8. (s[i] \o rest) \o s[n] = s[i] \o (rest \o s[n])
    <3> DEFINE a == s[i]
               z == s[n]
    <3>1. a \in Seq(T) /\ z \in Seq(T)
      BY <1>2, <2>2
    <3> HIDE DEF a, z
    <3>2. (a \o rest) \o z = a \o (rest \o z)
      <4>1. SeqOver(a, T) /\ SeqOver(rest, T) /\ SeqOver(z, T)
        BY <2>6, <3>1 DEF SeqOver
      <4>2. QED
        BY <4>1, Associative
    <3>3. QED
      BY <3>2 DEF a, z
  <2>9. QED
    BY <2>3, <2>4, <2>5, <2>7, <2>8
<1> HIDE DEF P
<1>7. I = Nat
  <2>1. I \in SUBSET Nat
    OBVIOUS
  <2> HIDE DEF I
  <2>2. QED
    BY <1>5, <1>6, <2>1, NatSetInduction
<1>8. P(N)
  <2>1. N - i \in Nat /\ i + (N - i) = N /\ N <= N
    BY <1>1
  <2>2. N - i \in I
    BY <1>7, <2>1
  <2>3. QED
    BY <2>1, <2>2
<1>9. QED
  BY <1>8 DEF P

-----------------------------------------------------------------------------
(* Used and LinesFrom.                                                     *)

\* The bytes in a buffer are a number, and none in an empty one.
LEMMA UsedType ==
    ASSUME NEW buffer \in Seq(Lines)
    PROVE  Used(buffer) \in Nat /\ (buffer = <<>> => Used(buffer) = 0)
<1> DEFINE N == Len(buffer)
           step == [i \in 1..N |-> [x \in Nat |-> x + Length[buffer[i]]]]
           Sums(g) == g = [i \in 0..N |->
                             IF i = 0 THEN 0 ELSE g[i - 1] + Length[buffer[i]]]
           used == CHOOSE g : Sums(g)
<1>1. N \in Nat /\ \A i \in 1..N : Length[buffer[i]] \in Nat
  BY LengthType, LenProperties, ElementOfSeq
<1>2. step \in [1..N -> [Nat -> Nat]]
  BY <1>1
<1>3. \A i \in 1..N : \A x \in Nat : step[i][x] = x + Length[buffer[i]]
  OBVIOUS
<1> HIDE DEF step
<1>4. PICK f : Recursion(f, Nat, 0, N, step)
  <2>1. CanRecur(Nat, 0, N, step)
    BY <1>1, <1>2 DEF CanRecur
  <2>2. QED
    BY <2>1, RecursionExists
<1>5. Sums(f)
  <2>1. f \in [0..N -> Nat] /\ f[0] = 0 /\ \A i \in 1..N : f[i] = step[i][f[i - 1]]
    BY <1>4 DEF Recursion
  <2>2. \A i \in 1..N : f[i] = f[i - 1] + Length[buffer[i]]
    <3>1. TAKE i \in 1..N
    <3>2. i - 1 \in 0..N
      BY <1>1
    <3>3. f[i - 1] \in Nat
      BY <2>1, <3>2
    <3>4. QED
      BY <1>3, <2>1, <3>3
  <2>3. \A i \in 0..N : f[i] = IF i = 0 THEN 0 ELSE f[i - 1] + Length[buffer[i]]
    <3>1. TAKE i \in 0..N
    <3>2. i = 0 \/ i \in 1..N
      BY <1>1
    <3>3. QED
      BY <2>1, <2>2, <3>2
  <2>4. QED
    BY <2>1, <2>3
<1>6. Sums(used)
  <2> HIDE DEF Sums
  <2>1. QED
    BY <1>5
<1>7. Used(buffer) = used[N]
  BY DEF Used
<1> HIDE DEF used
<1>8. \A i \in 0..N : used[i] = IF i = 0 THEN 0 ELSE used[i - 1] + Length[buffer[i]]
  BY <1>6
<1> HIDE DEF Sums
<1> DEFINE I == {i \in Nat : i <= N => used[i] \in Nat}
<1>9. 0 \in I
  BY <1>1, <1>8
<1>10. ASSUME NEW i \in I PROVE i + 1 \in I
  <2>1. SUFFICES ASSUME i + 1 <= N PROVE used[i + 1] \in Nat
    OBVIOUS
  <2>2. /\ i + 1 \in 0..N /\ i + 1 \in 1..N /\ i + 1 # 0 /\ (i + 1) - 1 = i
        /\ used[i] \in Nat
    BY <1>1, <2>1
  <2>3. used[i + 1] = used[i] + Length[buffer[i + 1]]
    BY <1>8, <2>2
  <2>4. QED
    BY <1>1, <2>2, <2>3
<1>11. I = Nat
  <2>1. I \in SUBSET Nat
    OBVIOUS
  <2> HIDE DEF I
  <2>2. QED
    BY <1>9, <1>10, <2>1, NatSetInduction
<1>12. used[N] \in Nat
  BY <1>1, <1>11
<1>13. buffer = <<>> => used[N] = 0
  <2>1. SUFFICES ASSUME buffer = <<>> PROVE used[N] = 0
    OBVIOUS
  <2>2. N = 0 /\ 0 \in 0..N
    BY <1>1, <2>1, EmptySeq
  <2>3. QED
    BY <1>8, <2>2
<1>14. QED
  BY <1>7, <1>12, <1>13

\* Only a writable line fits, and it fits in an empty buffer.
LEMMA FitsWritable ==
    ASSUME NEW buffer \in Seq(Lines), NEW line \in Lines
    PROVE  /\ Fits(buffer, line) => Writable(line)
           /\ Writable(line) <=> Fits(<<>>, line)
<1>1. Used(buffer) \in Nat
  BY UsedType
<1>2. Used(<<>>) = 0
  BY UsedType, EmptySeq
<1>3. Length[line] \in Nat /\ Capacity \in Nat
  BY LengthType, CapacityType
<1>4. QED
  BY <1>1, <1>2, <1>3 DEF Fits, Avail, Writable

\* The members of a concatenation.
LEMMA ConcatMembers ==
  ASSUME NEW T, NEW s \in Seq(T), NEW t \in Seq(T)
  PROVE  ToSet(s \o t) = ToSet(s) \union ToSet(t)
<1> DEFINE u == s \o t
           N == Len(s)
           M == Len(t)
<1>1. /\ N \in Nat /\ M \in Nat /\ DOMAIN s = 1..N /\ DOMAIN t = 1..M
      /\ u \in Seq(T) /\ Len(u) = N + M
      /\ \A i \in 1..(N + M) : u[i] = IF i <= N THEN s[i] ELSE t[i - N]
  BY ConcatProperties, LenProperties
<1>2. DOMAIN u = 1..(N + M)
  BY <1>1, LenProperties
<1> HIDE DEF u, N, M
<1>3. ASSUME NEW x \in ToSet(u) PROVE x \in ToSet(s) \union ToSet(t)
  <2>1. PICK i \in 1..(N + M) : x = u[i]
    BY <1>2 DEF ToSet
  <2>2. CASE i <= N
    <3>1. i \in 1..N /\ x = s[i]
      BY <1>1, <2>1, <2>2
    <3>2. QED
      BY <1>1, <3>1 DEF ToSet
  <2>3. CASE ~(i <= N)
    <3>1. i - N \in 1..M /\ x = t[i - N]
      BY <1>1, <2>1, <2>3
    <3>2. QED
      BY <1>1, <3>1 DEF ToSet
  <2>4. QED
    BY <2>2, <2>3
<1>4. ASSUME NEW x \in ToSet(s) PROVE x \in ToSet(u)
  <2>1. PICK i \in 1..N : x = s[i]
    BY <1>1 DEF ToSet
  <2>2. i \in 1..(N + M) /\ u[i] = s[i]
    BY <1>1
  <2>3. QED
    BY <1>2, <2>1, <2>2 DEF ToSet
<1>5. ASSUME NEW x \in ToSet(t) PROVE x \in ToSet(u)
  <2>1. PICK i \in 1..M : x = t[i]
    BY <1>1 DEF ToSet
  <2>2. i + N \in 1..(N + M) /\ ~(i + N <= N) /\ (i + N) - N = i
    BY <1>1
  <2>3. u[i + N] = t[i]
    BY <1>1, <2>2
  <2>4. QED
    BY <1>2, <2>1, <2>2, <2>3 DEF ToSet
<1>6. QED
  BY <1>3, <1>4, <1>5 DEF u

\* The members of a sequence made longer.
LEMMA AppendMembers ==
  ASSUME NEW T, NEW s \in Seq(T), NEW e \in T
  PROVE  ToSet(Append(s, e)) = ToSet(s) \union {e}
<1>1. Append(s, e) = s \o <<e>> /\ <<e>> \in Seq(T)
  BY AppendIsConcat
<1>2. ToSet(<<e>>) = {e}
  BY DEF ToSet
<1>3. ToSet(s \o <<e>>) = ToSet(s) \union ToSet(<<e>>)
  <2> DEFINE w == <<e>>
  <2>1. w \in Seq(T)
    BY <1>1
  <2> HIDE DEF w
  <2>2. ToSet(s \o w) = ToSet(s) \union ToSet(w)
    BY <2>1, ConcatMembers
  <2>3. QED
    BY <2>2 DEF w
<1>4. QED
  BY <1>1, <1>2, <1>3

\* An element appended to the second part is appended to both.
LEMMA AppendAfterConcat ==
  ASSUME NEW T, NEW s \in Seq(T), NEW t \in Seq(T), NEW e \in T
  PROVE  s \o Append(t, e) = Append(s \o t, e)
<1> DEFINE w == <<e>>
           st == s \o t
<1>1. w \in Seq(T) /\ st \in Seq(T)
  BY ConcatProperties
<1>2. Append(t, e) = t \o w
  BY AppendIsConcat
<1>3. Append(st, e) = st \o w
  <2> HIDE DEF st
  <2>1. QED
    BY <1>1, AppendIsConcat
<1> HIDE DEF w
<1>4. (s \o t) \o w = s \o (t \o w)
  BY <1>1, ConcatAssociative
<1>5. QED
  BY <1>2, <1>3, <1>4

\* The lines from buffer i on: those of i, then those from the next on.
LEMMA LinesFirst ==
  ASSUME NEW s \in Seq(Seq(Lines)), NEW i \in 1..Len(s), NEW j, j = i + 1
  PROVE  LinesFrom(s, i) = s[i] \o LinesFrom(s, j)
BY FlattenFirst DEF LinesFrom

\* The lines of some of the last buffers are the lines of each of them.
LEMMA FlattenMembers ==
  ASSUME NEW T, NEW s \in Seq(Seq(T)), NEW i \in 1..(Len(s) + 1)
  PROVE  ToSet(LinesFrom(s, i)) = UNION {ToSet(s[k]) : k \in i..Len(s)}
<1> DEFINE N == Len(s)
           R(j) == ToSet(LinesFrom(s, j)) = UNION {ToSet(s[k]) : k \in j..N}
           I == {d \in Nat : d <= N => R((N + 1) - d)}
<1>1. N \in Nat /\ \A k \in 1..N : s[k] \in Seq(T)
  BY LenProperties, ElementOfSeq
<1>2. 0 \in I
  <2>1. SubSeq(s, N + 1, N) = <<>>
    BY <1>1, SubSeqEmpty
  <2>2. LinesFrom(s, N + 1) = <<>>
    BY <2>1, FlattenEmpty DEF LinesFrom
  <2>3. ToSet(<<>>) = {}
    BY DEF ToSet
  <2>4. (N + 1)..N = {}
    BY <1>1
  <2>5. R(N + 1)
    BY <2>2, <2>3, <2>4
  <2>6. (N + 1) - 0 = N + 1
    BY <1>1
  <2> HIDE DEF R
  <2>7. QED
    BY <2>5, <2>6
<1>3. ASSUME NEW d \in I PROVE d + 1 \in I
  <2> DEFINE j == (N + 1) - (d + 1)
             m == (N + 1) - d
  <2>1. SUFFICES ASSUME d + 1 <= N PROVE R(j)
    <3> HIDE DEF R
    <3>1. QED
      OBVIOUS
  <2>2. d \in Nat /\ m = j + 1 /\ j \in 1..N /\ j..N = {j} \union (m..N) /\ d <= N
    BY <1>1, <2>1
  <2>3. R(m)
    <3> HIDE DEF R, m
    <3>1. d \in I => (d <= N => R(m))
      BY DEF m
    <3> HIDE DEF I
    <3>2. QED
      BY <2>2, <3>1
  <2> HIDE DEF j, m
  <2>4. LinesFrom(s, j) = s[j] \o LinesFrom(s, m)
    BY <2>2, FlattenFirst DEF LinesFrom
  <2>5. LinesFrom(s, m) \in Seq(T)
    <3>1. \A k \in m..N : s[k] \in Seq(T)
      BY <1>1, <2>2
    <3>2. SubSeq(s, m, N) \in Seq(Seq(T))
      BY <1>1, <2>2, <3>1, SubSeqProperties
    <3>3. QED
      BY <3>2, FlattenType DEF LinesFrom
  <2>6. ToSet(LinesFrom(s, j)) = ToSet(s[j]) \union ToSet(LinesFrom(s, m))
    <3> DEFINE a == s[j]
               b == LinesFrom(s, m)
    <3>1. a \in Seq(T) /\ b \in Seq(T)
      BY <1>1, <2>2, <2>5
    <3> HIDE DEF a, b
    <3>2. ToSet(a \o b) = ToSet(a) \union ToSet(b)
      BY <3>1, ConcatMembers
    <3>3. QED
      BY <2>4, <3>2 DEF a, b
  <2>7. UNION {ToSet(s[k]) : k \in j..N}
          = ToSet(s[j]) \union UNION {ToSet(s[k]) : k \in m..N}
    BY <2>2
  <2>8. QED
    BY <2>3, <2>6, <2>7
<1> HIDE DEF R
<1>4. I = Nat
  <2>1. I \in SUBSET Nat
    OBVIOUS
  <2> HIDE DEF I
  <2>2. QED
    BY <1>2, <1>3, <2>1, NatSetInduction
<1>5. R(i)
  <2>1. /\ i \in Nat /\ (N + 1) - i \in Nat /\ (N + 1) - i <= N
        /\ (N + 1) - ((N + 1) - i) = i
    BY <1>1
  <2>2. (N + 1) - i \in I
    <3> HIDE DEF I
    <3>1. QED
      BY <1>4, <2>1
  <2>3. QED
    BY <2>1, <2>2
<1>6. QED
  BY <1>5 DEF R

-----------------------------------------------------------------------------
(* LinesInOrder for any output and log: a line at the end, a cut within.   *)

\* x comes before y in s.
Precedes(s, x, y) == \E k, l \in DOMAIN s : k < l /\ s[k] = x /\ s[l] = y

\* out has the writable lines of log that are not gone, in log's order.
InOrder(out, log, gone) ==
    /\ ToSet(out) = {line \in ToSet(log) : Writable(line)} \ gone
    /\ \A i, j \in DOMAIN out : i < j => Precedes(log, out[i], out[j])

NoneTwice(log) == \A k, l \in DOMAIN log : k # l => log[k] # log[l]

\* A new line does not make log have one twice.
LEMMA AppendNoneTwice ==
  ASSUME NEW log \in Seq(Lines), NoneTwice(log),
         NEW line \in Lines, line \notin ToSet(log)
  PROVE  NoneTwice(Append(log, line))
<1> DEFINE n == Len(log)
           log2 == Append(log, line)
<1>1. /\ n \in Nat /\ DOMAIN log = 1..n
      /\ log2 \in Seq(Lines) /\ Len(log2) = n + 1 /\ log2[n + 1] = line
      /\ \A k \in 1..n : log2[k] = log[k]
  BY AppendProperties, LenProperties
<1>2. DOMAIN log2 = 1..(n + 1)
  BY <1>1, LenProperties
<1> HIDE DEF n, log2
<1>3. \A k \in 1..n : log[k] # line
  BY <1>1 DEF ToSet
<1>4. ASSUME NEW k \in 1..(n + 1), NEW l \in 1..(n + 1), k # l PROVE log2[k] # log2[l]
  <2>1. CASE k \in 1..n /\ l \in 1..n
    BY <1>1, <1>4, <2>1 DEF NoneTwice
  <2>2. CASE k = n + 1 \/ l = n + 1
    <3>1. (k = n + 1 /\ l \in 1..n) \/ (l = n + 1 /\ k \in 1..n)
      BY <1>1, <1>4, <2>2
    <3>2. QED
      BY <1>1, <1>3, <3>1
  <2>3. QED
    BY <1>1, <2>1, <2>2
<1>5. QED
  BY <1>2, <1>4 DEF NoneTwice, log2

\* A line logged and put at the end of the output, unless none can hold it.
LEMMA AppendInOrder ==
  ASSUME NEW out \in Seq(Lines), NEW log \in Seq(Lines), NEW gone,
         InOrder(out, log, gone), gone \subseteq ToSet(log),
         NEW line \in Lines, line \notin ToSet(log),
         NEW out2, out2 = IF Writable(line) THEN Append(out, line) ELSE out
  PROVE  InOrder(out2, Append(log, line), gone)
<1> DEFINE n == Len(log)
           m == Len(out)
           log2 == Append(log, line)
<1>1. /\ n \in Nat /\ DOMAIN log = 1..n
      /\ log2 \in Seq(Lines) /\ Len(log2) = n + 1 /\ log2[n + 1] = line
      /\ \A k \in 1..n : log2[k] = log[k]
  BY AppendProperties, LenProperties
<1>2. DOMAIN log2 = 1..(n + 1) /\ ToSet(log2) = ToSet(log) \union {line}
  BY <1>1, LenProperties, AppendMembers
<1>3. /\ m \in Nat /\ DOMAIN out = 1..m
  BY LenProperties
<1> HIDE DEF n, m, log2
<1>4. \A x, y : Precedes(log, x, y) => Precedes(log2, x, y)
  <2>1. TAKE x, y
  <2>2. HAVE Precedes(log, x, y)
  <2>3. PICK k \in 1..n, l \in 1..n : k < l /\ log[k] = x /\ log[l] = y
    BY <1>1, <2>2 DEF Precedes
  <2>4. k \in 1..(n + 1) /\ l \in 1..(n + 1) /\ log2[k] = x /\ log2[l] = y
    BY <1>1, <2>3
  <2>5. QED
    BY <1>2, <2>3, <2>4 DEF Precedes
<1>5. CASE Writable(line)
  <2>1. /\ out2 = Append(out, line) /\ out2[m + 1] = line
        /\ out2 \in Seq(Lines) /\ Len(out2) = m + 1
        /\ \A i \in 1..m : out2[i] = out[i]
    BY <1>5, AppendProperties DEF m
  <2>2. DOMAIN out2 = 1..(m + 1) /\ ToSet(out2) = ToSet(out) \union {line}
    BY <2>1, LenProperties, AppendMembers
  <2>3. ToSet(out2) = {x \in ToSet(log2) : Writable(x)} \ gone
    BY <1>2, <1>5, <2>2 DEF InOrder
  <2>4. ASSUME NEW i \in 1..(m + 1), NEW j \in 1..(m + 1), i < j
        PROVE  Precedes(log2, out2[i], out2[j])
    <3>1. CASE j \in 1..m
      <4>1. i \in 1..m
        BY <1>3, <2>4, <3>1
      <4>2. Precedes(log, out[i], out[j])
        BY <1>3, <2>4, <3>1, <4>1 DEF InOrder
      <4>3. QED
        BY <1>4, <2>1, <3>1, <4>1, <4>2
    <3>2. CASE j = m + 1
      <4>1. i \in 1..m
        BY <1>3, <2>4, <3>2
      <4>2. out[i] \in ToSet(log)
        <5>1. out[i] \in ToSet(out)
          BY <1>3, <4>1 DEF ToSet
        <5>2. QED
          BY <5>1 DEF InOrder
      <4>3. PICK k \in 1..n : log[k] = out[i]
        BY <1>1, <4>2 DEF ToSet
      <4>4. /\ k \in 1..(n + 1) /\ n + 1 \in 1..(n + 1) /\ k < n + 1
            /\ log2[k] = out2[i] /\ log2[n + 1] = out2[j]
        BY <1>1, <2>1, <3>2, <4>1, <4>3
      <4>5. QED
        BY <1>2, <4>4 DEF Precedes
    <3>3. QED
      BY <1>3, <3>1, <3>2
  <2>5. QED
    BY <2>2, <2>3, <2>4 DEF InOrder, log2
<1>6. CASE ~Writable(line)
  <2>1. ToSet(out) = {x \in ToSet(log2) : Writable(x)} \ gone
    BY <1>2, <1>6 DEF InOrder
  <2>2. \A i, j \in DOMAIN out : i < j => Precedes(log2, out[i], out[j])
    BY <1>4 DEF InOrder
  <2>3. QED
    BY <1>6, <2>1, <2>2 DEF InOrder, log2
<1>7. QED
  BY <1>5, <1>6

\* Lines dropped from the middle of the output.
LEMMA CutInOrder ==
  ASSUME NEW a \in Seq(Lines), NEW m \in Seq(Lines), NEW b \in Seq(Lines),
         NEW log \in Seq(Lines), NoneTwice(log), NEW gone,
         InOrder(a \o (m \o b), log, gone)
  PROVE  InOrder(a \o b, log, gone \union ToSet(m))
<1> DEFINE mb == m \o b
           out == a \o mb
           out2 == a \o b
           A == Len(a)
           M == Len(m)
           B == Len(b)
<1>1. /\ A \in Nat /\ M \in Nat /\ B \in Nat
      /\ DOMAIN a = 1..A /\ DOMAIN m = 1..M /\ DOMAIN b = 1..B
  BY LenProperties
<1>2. /\ mb \in Seq(Lines) /\ Len(mb) = M + B
      /\ \A i \in 1..(M + B) : mb[i] = IF i <= M THEN m[i] ELSE b[i - M]
  BY ConcatProperties
<1> HIDE DEF mb
<1>3. /\ out \in Seq(Lines) /\ Len(out) = A + (M + B)
      /\ \A i \in 1..(A + (M + B)) : out[i] = IF i <= A THEN a[i] ELSE mb[i - A]
  <2>0. mb \in Seq(Lines)
    BY <1>2
  <2>1. /\ out \in Seq(Lines) /\ Len(out) = A + Len(mb)
        /\ \A i \in 1..(A + Len(mb)) : out[i] = IF i <= A THEN a[i] ELSE mb[i - A]
    BY <2>0, ConcatProperties
  <2> HIDE DEF out, A, M, B
  <2>2. QED
    BY <1>2, <2>1
<1>4. /\ out2 \in Seq(Lines) /\ Len(out2) = A + B
      /\ \A i \in 1..(A + B) : out2[i] = IF i <= A THEN a[i] ELSE b[i - A]
  BY ConcatProperties
<1>5. /\ DOMAIN out = 1..(A + (M + B)) /\ DOMAIN out2 = 1..(A + B)
      /\ ToSet(out) = ToSet(a) \union (ToSet(m) \union ToSet(b))
      /\ ToSet(out2) = ToSet(a) \union ToSet(b)
  <2>1. ToSet(out) = ToSet(a) \union ToSet(mb)
    BY <1>2, ConcatMembers
  <2>2. ToSet(mb) = ToSet(m) \union ToSet(b)
    BY ConcatMembers DEF mb
  <2>3. ToSet(out2) = ToSet(a) \union ToSet(b)
    BY ConcatMembers
  <2> HIDE DEF out, out2
  <2>4. DOMAIN out = 1..(A + (M + B)) /\ DOMAIN out2 = 1..(A + B)
    BY <1>3, <1>4, LenProperties
  <2>5. QED
    BY <2>1, <2>2, <2>3, <2>4
<1>6. InOrder(out, log, gone)
  BY DEF mb
<1> HIDE DEF A, M, B, out, out2
\* Where what is left of the output comes from.
<1> DEFINE from(i) == IF i <= A THEN i ELSE i + M
<1>7. \A i \in 1..(A + B) : from(i) \in 1..(A + (M + B)) /\ out2[i] = out[from(i)]
  <2>1. TAKE i \in 1..(A + B)
  <2>2. CASE i <= A
    BY <1>1, <1>3, <1>4, <2>2
  <2>3. CASE ~(i <= A)
    <3>1. /\ i + M \in 1..(A + (M + B)) /\ ~(i + M <= A)
          /\ (i + M) - A \in 1..(M + B) /\ ~((i + M) - A <= M)
          /\ ((i + M) - A) - M = i - A
      BY <1>1, <2>3
    <3>2. out[i + M] = mb[(i + M) - A]
      BY <1>3, <3>1
    <3>3. mb[(i + M) - A] = b[i - A]
      BY <1>2, <3>1
    <3>4. out2[i] = b[i - A]
      BY <1>4, <2>3
    <3>5. QED
      BY <2>3, <3>1, <3>2, <3>3, <3>4
  <2>4. QED
    BY <2>2, <2>3
<1>8. \A i, j \in 1..(A + B) : i < j => from(i) < from(j)
  BY <1>1
<1>9. \A i \in 1..M : A + i \in 1..(A + (M + B)) /\ out[A + i] = m[i]
  <2>1. TAKE i \in 1..M
  <2>2. /\ A + i \in 1..(A + (M + B)) /\ ~(A + i <= A) /\ (A + i) - A = i
        /\ i \in 1..(M + B) /\ i <= M
    BY <1>1
  <2>3. QED
    BY <1>2, <1>3, <2>2
\* No line is twice in the output, as none is twice in log.
<1>10. ASSUME NEW i \in 1..(A + (M + B)), NEW j \in 1..(A + (M + B)), i < j
       PROVE  out[i] # out[j]
  <2>1. Precedes(log, out[i], out[j])
    BY <1>5, <1>6, <1>10 DEF InOrder
  <2>2. PICK k \in DOMAIN log, l \in DOMAIN log :
           k < l /\ log[k] = out[i] /\ log[l] = out[j]
    BY <2>1 DEF Precedes
  <2>3. k \in Nat /\ l \in Nat
    BY <2>2, LenProperties
  <2>4. k # l
    BY <2>2, <2>3
  <2>5. QED
    BY <2>2, <2>4 DEF NoneTwice
<1>11. ASSUME NEW i \in 1..M, NEW j \in 1..(A + B) PROVE m[i] # out2[j]
  <2>1. A + i \in 1..(A + (M + B)) /\ from(j) \in 1..(A + (M + B))
    BY <1>7, <1>9
  <2>2. A + i < from(j) \/ from(j) < A + i
    BY <1>1
  <2>3. out[A + i] # out[from(j)]
    <3> HIDE DEF from
    <3>1. QED
      BY <1>10, <2>1, <2>2
  <2>4. QED
    BY <1>7, <1>9, <2>3
<1>12. ToSet(out2) = ToSet(out) \ ToSet(m)
  <2>1. \A x \in ToSet(out2) : x \notin ToSet(m)
    BY <1>1, <1>5, <1>11 DEF ToSet
  <2>2. QED
    BY <1>5, <2>1
<1>13. ToSet(out2) = {x \in ToSet(log) : Writable(x)} \ (gone \union ToSet(m))
  BY <1>6, <1>12 DEF InOrder
<1>14. ASSUME NEW i \in 1..(A + B), NEW j \in 1..(A + B), i < j
       PROVE  Precedes(log, out2[i], out2[j])
  <2>1. from(i) < from(j)
    BY <1>8, <1>14
  <2> HIDE DEF from
  <2>2. Precedes(log, out[from(i)], out[from(j)])
    BY <1>5, <1>6, <1>7, <2>1 DEF InOrder
  <2>3. QED
    BY <1>7, <2>2
<1>15. QED
  BY <1>5, <1>13, <1>14 DEF InOrder, out2

-----------------------------------------------------------------------------
(* The inductive invariant.                                                *)

\* The front's spare is missing only when append() queued a buffer for it.
FrontInv == nextBuffer = NoBuffer => buffers # <<>>

\* The backend has both spares when it looks for buffers, and enough to make
\* them of as long as it has not.
BackInv == IF backend \in {"taken", "writing", "refill"}
           THEN EnoughBuffers
           ELSE newBuffer1 # NoBuffer /\ newBuffer2 # NoBuffer

\* There is no backend before start().
ThreadInv == owner = "new" => backend = "unborn"

IInv == TypeOK /\ ThreadInv /\ FrontInv /\ BackInv

-----------------------------------------------------------------------------
\* Two spares and no buffer to be written, at first.
LEMMA InitHolds == Init => IInv
<1> SUFFICES ASSUME Init PROVE IInv
  OBVIOUS
<1>1. <<>> \in BufferType /\ <<>> \in Seq(BufferType) /\ <<>> \in Seq(Lines)
  BY EmptySeq DEF BufferType
<1>2. <<>> # NoBuffer
  BY <1>1, NoBufferApart DEF BufferType
<1>3. TypeOK
  <2>1. next \in Nat \ {0} /\ dropped \subseteq Lines
    BY DEF Init
  <2>2. QED
    BY <1>1, <2>1 DEF Init, TypeOK, SpareType, OwnerAt, BackendAt
<1>4. ThreadInv /\ FrontInv /\ BackInv
  BY <1>2 DEF Init, ThreadInv, FrontInv, BackInv
<1>5. QED
  BY <1>3, <1>4 DEF IInv

\* append() takes the spare only when it queues the full buffer.
LEMMA AppendKeeps ==
    ASSUME IInv, NEW line \in Lines, AppendLine(line)
    PROVE  IInv'
<1> USE DEF IInv, TypeOK, ThreadInv, FrontInv, BackInv, EnoughBuffers
<1>1. /\ logged' = Append(logged, line) /\ logged' \in Seq(Lines)
      /\ UNCHANGED <<running, owner, backVars, file, dropped>>
  BY AppendProperties DEF AppendLine
<1>2. CASE Fits(currentBuffer, line)
  <2>1. /\ currentBuffer' = Append(currentBuffer, line)
        /\ UNCHANGED <<nextBuffer, buffers, backend>>
    BY <1>2 DEF AppendLine
  <2>2. currentBuffer' \in BufferType
    BY <2>1, AppendProperties DEF BufferType
  <2>3. QED
    BY <1>1, <2>1, <2>2 DEF backVars
<1>3. CASE ~Fits(currentBuffer, line)
  <2>1. /\ buffers' = Append(buffers, currentBuffer)
        /\ currentBuffer' = Filled(SpareOrNew, line)
        /\ nextBuffer' = NoBuffer
        /\ backend' = Notified
    BY <1>3 DEF AppendLine, Queued
  <2>2. buffers' \in Seq(BufferType) /\ buffers' # <<>>
    <3>1. buffers' \in Seq(BufferType) /\ Len(buffers') = Len(buffers) + 1
      BY <2>1, AppendProperties
    <3>2. Len(buffers) \in Nat
      BY LenProperties
    <3>3. QED
      BY <3>1, <3>2
  <2>3. SpareOrNew \in BufferType
    BY EmptySeq DEF SpareOrNew, SpareType, BufferType
  <2>4. currentBuffer' \in BufferType
    BY <2>1, <2>3, AppendProperties DEF Filled, BufferType
  <2>5. /\ backend' \in BackendAt
        /\ backend = "unborn" => backend' = "unborn"
        /\ backend' \in {"taken", "writing", "refill"}
              <=> backend \in {"taken", "writing", "refill"}
    BY <2>1 DEF Notified, BackendAt
  <2>6. nextBuffer' \in SpareType
    BY <2>1 DEF SpareType
  <2>7. TypeOK'
    BY <1>1, <2>2, <2>4, <2>5, <2>6 DEF backVars
  <2>8. ThreadInv' /\ FrontInv' /\ BackInv'
    BY <1>1, <2>2, <2>5 DEF backVars
  <2>9. QED
    BY <2>7, <2>8
<1>4. QED
  BY <1>2, <1>3

\* start() and stop() move only their caller, running_ and a waiting backend.
LEMMA OwnerKeeps == IInv /\ OwnerNext => IInv'
<1> SUFFICES ASSUME IInv, OwnerNext PROVE IInv'
  OBVIOUS
<1>1. UNCHANGED <<frontVars, backVars, file, historyVars>>
  BY DEF OwnerNext, Start, StartReturns, Stop, StopNotifies, StopReturns
<1>2. running' \in BOOLEAN /\ owner' \in OwnerAt
  BY DEF OwnerNext, Start, StartReturns, Stop, StopNotifies, StopReturns, Stopped,
         IInv, TypeOK, OwnerAt
<1>3. /\ backend' \in BackendAt
      /\ backend' \in {"taken", "writing", "refill"}
            <=> backend \in {"taken", "writing", "refill"}
  <2>1. CASE Start
    BY <2>1 DEF Start, BackendAt, IInv, ThreadInv
  <2>2. CASE StopNotifies
    BY <2>2 DEF StopNotifies, Notified, IInv, TypeOK, BackendAt
  <2>3. CASE StartReturns \/ Stop \/ StopReturns
    BY <2>3 DEF StartReturns, Stop, StopReturns, IInv, TypeOK
  <2>4. QED
    BY <2>1, <2>2, <2>3 DEF OwnerNext
<1>4. owner' # "new"
  BY DEF OwnerNext, Start, StartReturns, Stop, StopNotifies, StopReturns
<1>5. QED
  BY <1>1, <1>2, <1>3, <1>4 DEF frontVars, backVars, historyVars, IInv, TypeOK, ThreadInv,
                               FrontInv, BackInv, EnoughBuffers

-----------------------------------------------------------------------------
(* The backend's steps.                                                    *)

\* The swap takes at least the current buffer, and one more if the front had no
\* spare.
LEMMA TakeKeeps == IInv /\ TakeBuffers => IInv'
<1> SUFFICES ASSUME IInv, TakeBuffers PROVE IInv'
  OBVIOUS
<1> USE DEF IInv, TypeOK
<1>1. backend \notin {"taken", "writing", "refill"} /\ backend # "unborn"
  BY DEF TakeBuffers, MayTake
<1>2. /\ newBuffer1 # NoBuffer /\ newBuffer2 # NoBuffer
      /\ newBuffer1 \in BufferType /\ newBuffer2 \in BufferType
  BY <1>1 DEF BackInv, SpareType
<1>3. /\ buffersToWrite' = Append(buffers, currentBuffer)
      /\ backend' = "taken" /\ newBuffer1' = NoBuffer
      /\ buffers' = <<>> /\ currentBuffer' = newBuffer1
      /\ UNCHANGED <<running, owner, next, file, historyVars>>
  BY DEF TakeBuffers, Queued
<1>4. /\ buffersToWrite' \in Seq(BufferType)
      /\ Len(buffersToWrite') = Len(buffers) + 1 /\ Len(buffers) \in Nat
  BY <1>3, AppendProperties, LenProperties
<1>5. nextBuffer' \in BufferType /\ nextBuffer' # NoBuffer
  BY <1>2 DEF TakeBuffers, SpareType
<1>6. newBuffer2' \in SpareType /\ EnoughBuffers'
  <2>1. CASE nextBuffer = NoBuffer
    <3>1. Len(buffers) # 0
      BY <2>1, EmptySeq DEF FrontInv
    <3>2. newBuffer2' = NoBuffer
      BY <2>1 DEF TakeBuffers
    <3>3. QED
      BY <1>3, <1>4, <3>1, <3>2 DEF EnoughBuffers, SpareType
  <2>2. CASE nextBuffer # NoBuffer
    <3>1. newBuffer2' = newBuffer2
      BY <2>2 DEF TakeBuffers
    <3>2. QED
      BY <1>2, <1>3, <1>4, <3>1 DEF EnoughBuffers, SpareType
  <2>3. QED
    BY <2>1, <2>2
<1>7. TypeOK'
  BY <1>2, <1>3, <1>4, <1>5, <1>6, EmptySeq DEF historyVars, SpareType, BackendAt
<1>8. ThreadInv' /\ FrontInv' /\ BackInv'
  BY <1>1, <1>3, <1>5, <1>6 DEF ThreadInv, FrontInv, BackInv
<1>9. QED
  BY <1>7, <1>8

\* A backlog keeps two buffers, which is enough.
LEMMA DropKeeps == IInv /\ DropBacklog => IInv'
<1> SUFFICES ASSUME IInv, DropBacklog PROVE IInv'
  OBVIOUS
<1> USE DEF IInv, TypeOK
<1>1. /\ backend = "taken" /\ backend' = "writing"
      /\ UNCHANGED <<running, owner, frontVars, newBuffer1, newBuffer2, next, file,
                     logged>>
  BY DEF DropBacklog
<1>2. CASE Len(buffersToWrite) > MaxToWrite
  <2>1. /\ buffersToWrite' = SubSeq(buffersToWrite, 1, 2)
        /\ dropped' = dropped \union
             UNION {ToSet(buffersToWrite[i]) : i \in 3..Len(buffersToWrite)}
    BY <1>2 DEF DropBacklog, Kept
  <2>2. Len(buffersToWrite) \in Nat /\ 2 <= Len(buffersToWrite)
    BY <1>2, MaxToWriteType, LenProperties
  <2>3. buffersToWrite' \in Seq(BufferType) /\ Len(buffersToWrite') = 2
    BY <2>1, <2>2, SubSeqProperties
  <2>4. \A i \in 3..Len(buffersToWrite) : ToSet(buffersToWrite[i]) \subseteq Lines
    <3>1. TAKE i \in 3..Len(buffersToWrite)
    <3>2. buffersToWrite[i] \in Seq(Lines)
      BY <2>2, ElementOfSeq DEF BufferType
    <3>3. QED
      BY <3>2, ElementOfSeq DEF ToSet
  <2>5. dropped' \subseteq Lines
    BY <2>1, <2>4
  <2>6. EnoughBuffers'
    BY <2>3 DEF EnoughBuffers
  <2>7. QED
    BY <1>1, <2>3, <2>5, <2>6 DEF frontVars, BackendAt, ThreadInv, FrontInv, BackInv
<1>3. CASE ~(Len(buffersToWrite) > MaxToWrite)
  <2>1. UNCHANGED <<buffersToWrite, dropped>>
    BY <1>3 DEF DropBacklog
  <2>2. QED
    BY <1>1, <2>1 DEF frontVars, BackendAt, ThreadInv, FrontInv, BackInv,
                      EnoughBuffers
<1>4. QED
  BY <1>2, <1>3

\* Writing changes only the file.
LEMMA WriteKeeps == IInv /\ WriteBuffer => IInv'
<1> SUFFICES ASSUME IInv, WriteBuffer PROVE IInv'
  OBVIOUS
<1> USE DEF IInv, TypeOK
<1>1. /\ backend = "writing"
      /\ UNCHANGED <<running, owner, frontVars, newBuffer1, newBuffer2,
                     buffersToWrite, historyVars>>
  BY DEF WriteBuffer
<1>2. backend' \in {"writing", "refill"}
  BY <1>1 DEF WriteBuffer
<1>3. file' \in Seq(Lines) /\ next' \in Nat \ {0}
  <2>1. CASE next <= Len(buffersToWrite)
    <3>1. file' = file \o buffersToWrite[next] /\ next' = next + 1
      BY <2>1 DEF WriteBuffer
    <3>2. buffersToWrite[next] \in Seq(Lines)
      BY <2>1, ElementOfSeq, LenProperties DEF BufferType
    <3>3. QED
      BY <3>1, <3>2, ConcatProperties
  <2>2. CASE ~(next <= Len(buffersToWrite))
    BY <2>2 DEF WriteBuffer
  <2>3. QED
    BY <2>1, <2>2
<1>4. QED
  BY <1>1, <1>2, <1>3 DEF frontVars, historyVars, BackendAt, ThreadInv, FrontInv,
                          BackInv, EnoughBuffers

\* Both spares are there again when the backend looks for buffers.
LEMMA RefillKeeps == IInv /\ Refill => IInv'
<1> SUFFICES ASSUME IInv, Refill PROVE IInv'
  OBVIOUS
<1> USE DEF IInv, TypeOK
<1> DEFINE rest == AfterSpare(newBuffer1, Resized)
<1>1. /\ backend = "refill" /\ backend' = "while"
      /\ newBuffer1' = Replaced(newBuffer1, Resized)
      /\ newBuffer2' = Replaced(newBuffer2, rest)
      /\ buffersToWrite' = <<>> /\ next' = 1
      /\ UNCHANGED <<running, owner, frontVars, file, historyVars>>
  BY DEF Refill
<1>2. <<>> # NoBuffer /\ <<>> \in BufferType
  BY NoBufferApart, EmptySeq DEF BufferType
<1>3. newBuffer1' \in BufferType /\ newBuffer1' # NoBuffer
  BY <1>1, <1>2 DEF Replaced, Reset, SpareType
<1>4. newBuffer2' \in BufferType /\ newBuffer2' # NoBuffer
  BY <1>1, <1>2 DEF Replaced, Reset, SpareType
<1>5. TypeOK'
  BY <1>1, <1>3, <1>4, EmptySeq DEF frontVars, historyVars, SpareType, BackendAt
<1>6. ThreadInv' /\ FrontInv' /\ BackInv'
  BY <1>1, <1>3, <1>4 DEF frontVars, ThreadInv, FrontInv, BackInv
<1>7. QED
  BY <1>5, <1>6

\* What the backend does to no buffer.
LEMMA WaitingKeeps ==
    IInv /\ (CountDown \/ CheckRunning \/ Wait \/ Timeout) => IInv'
<1> SUFFICES ASSUME IInv, CountDown \/ CheckRunning \/ Wait \/ Timeout PROVE IInv'
  OBVIOUS
<1>1. UNCHANGED <<running, owner, frontVars, backVars, file, historyVars>>
  BY DEF CountDown, CheckRunning, Wait, Timeout
<1>2. backend # "unborn" /\ backend \notin {"taken", "writing", "refill"}
  BY DEF CountDown, CheckRunning, Wait, Timeout
<1>3. backend' \in {"while", "locking", "exited", "waiting", "woken"}
  BY DEF CountDown, CheckRunning, Wait, Timeout
<1>4. QED
  BY <1>1, <1>2, <1>3 DEF frontVars, backVars, historyVars, IInv, TypeOK, BackendAt,
                          ThreadInv, FrontInv, BackInv

-----------------------------------------------------------------------------
\* Every step keeps the invariant.
LEMMA StepKeeps == IInv /\ [Next]_vars => IInv'
<1> SUFFICES ASSUME IInv, [Next]_vars PROVE IInv'
  OBVIOUS
<1>1. ASSUME NEW line \in Lines, AppendLine(line) PROVE IInv'
  BY <1>1, AppendKeeps
<1>2. CASE OwnerNext
  BY <1>2, OwnerKeeps
<1>3. CASE BackendNext
  BY <1>3, TakeKeeps, DropKeeps, WriteKeeps, RefillKeeps, WaitingKeeps
     DEF BackendNext
<1>4. CASE UNCHANGED vars
  BY <1>4 DEF vars, frontVars, backVars, historyVars, IInv, TypeOK, ThreadInv,
              FrontInv, BackInv, EnoughBuffers
<1>5. QED
  BY <1>1, <1>2, <1>3, <1>4 DEF Next

LEMMA Invariant == SafetySpec => []IInv
BY InitHolds, StepKeeps, PTL DEF SafetySpec

\* TypeOK in every state: the unique_ptr currentBuffer_ that append() and
\* threadFunc() use is never null, for all its moves.
THEOREM TypeCorrect == SafetySpec => []TypeOK
<1>1. IInv => TypeOK
  BY DEF IInv
<1>2. QED
  BY <1>1, Invariant, PTL

\* SparesSuffice in every state: neither assert of threadFunc() can fail, and no
\* back() is taken of an empty vector where asserts are compiled out.
THEOREM SparesAlwaysSuffice == SafetySpec => []SparesSuffice
<1>1. IInv => SparesSuffice
  BY DEF IInv, BackInv, SparesSuffice
<1>2. QED
  BY <1>1, Invariant, PTL
-----------------------------------------------------------------------------
(* The lines, from append() to the file.                                   *)

\* What LinesInOrder rests on: a line is logged once; a spare is empty, so that
\* it brings no old lines when it becomes the current buffer; the loop over the
\* buffers starts at the first; what is dropped was logged.
SparesEmpty == {newBuffer1, newBuffer2, nextBuffer} \subseteq {<<>>, NoBuffer}
NothingWritten == backend \notin {"writing", "refill"} => next = 1

LineInv == /\ NoneTwice(logged)
           /\ SparesEmpty
           /\ NothingWritten
           /\ dropped \subseteq ToSet(logged)
           /\ InOrder(Output, logged, dropped)

\* The parts of the output are sequences of lines.
LEMMA OutputParts ==
    ASSUME IInv
    PROVE  /\ file \in Seq(Lines) /\ currentBuffer \in Seq(Lines)
           /\ logged \in Seq(Lines)
           /\ buffers \in Seq(Seq(Lines)) /\ buffersToWrite \in Seq(Seq(Lines))
           /\ FlattenSeq(buffers) \in Seq(Lines)
           /\ Len(buffersToWrite) \in Nat
           /\ \A i \in 1..Len(buffersToWrite) : buffersToWrite[i] \in Seq(Lines)
           /\ \A i \in Nat \ {0} : LinesFrom(buffersToWrite, i) \in Seq(Lines)
           /\ \A i \in Nat \ {0} :
                 i > Len(buffersToWrite) => LinesFrom(buffersToWrite, i) = <<>>
           /\ FirstToWrite \in Nat \ {0}
<1>1. /\ file \in Seq(Lines) /\ currentBuffer \in Seq(Lines)
      /\ logged \in Seq(Lines) /\ next \in Nat \ {0}
      /\ buffers \in Seq(Seq(Lines)) /\ buffersToWrite \in Seq(Seq(Lines))
  BY DEF IInv, TypeOK, BufferType
<1>2. FlattenSeq(buffers) \in Seq(Lines)
  BY <1>1, FlattenType
<1>3. /\ Len(buffersToWrite) \in Nat
      /\ \A i \in 1..Len(buffersToWrite) : buffersToWrite[i] \in Seq(Lines)
  BY <1>1, LenProperties, ElementOfSeq
<1>4. ASSUME NEW i \in Nat \ {0} PROVE LinesFrom(buffersToWrite, i) \in Seq(Lines)
  <2>1. \A k \in i..Len(buffersToWrite) : buffersToWrite[k] \in Seq(Lines)
    BY <1>3
  <2>2. SubSeq(buffersToWrite, i, Len(buffersToWrite)) \in Seq(Seq(Lines))
    BY <1>3, <2>1, SubSeqProperties
  <2>3. QED
    BY <2>2, FlattenType DEF LinesFrom
<1>5. ASSUME NEW i \in Nat \ {0}, i > Len(buffersToWrite)
      PROVE  LinesFrom(buffersToWrite, i) = <<>>
  <2>1. SubSeq(buffersToWrite, i, Len(buffersToWrite)) = <<>>
    BY <1>3, <1>5, SubSeqEmpty
  <2>2. QED
    BY <2>1, FlattenEmpty DEF LinesFrom
<1>6. FirstToWrite \in Nat \ {0}
  BY <1>1, <1>3 DEF FirstToWrite
<1>7. QED
  BY <1>1, <1>2, <1>3, <1>4, <1>5, <1>6

\* The output is a sequence of lines.
LEMMA OutputType == IInv => Output \in Seq(Lines)
<1> SUFFICES ASSUME IInv PROVE Output \in Seq(Lines)
  OBVIOUS
<1> DEFINE w == LinesFrom(buffersToWrite, FirstToWrite)
           q == FlattenSeq(buffers)
<1>1. /\ file \in Seq(Lines) /\ w \in Seq(Lines)
      /\ q \in Seq(Lines) /\ currentBuffer \in Seq(Lines)
  BY OutputParts
<1>2. Output = (file \o w) \o (q \o currentBuffer)
  BY DEF Output
<1> HIDE DEF w, q
<1>3. file \o w \in Seq(Lines) /\ q \o currentBuffer \in Seq(Lines)
  BY <1>1, ConcatProperties
<1>4. QED
  BY <1>2, <1>3, ConcatProperties

\* No lines, at first.
LEMMA InitLines == Init => LineInv
<1> SUFFICES ASSUME Init PROVE LineInv
  OBVIOUS
<1>1. <<>> \in Seq(Lines) /\ DOMAIN <<>> = {} /\ ToSet(<<>>) = {}
  <2>1. DOMAIN <<>> = {}
    BY EmptySeq, LenProperties
  <2>2. QED
    BY <2>1, EmptySeq DEF ToSet
<1>2. Output = <<>>
  <2>1. LinesFrom(buffersToWrite, FirstToWrite) = <<>>
    <3>1. FirstToWrite = 1 /\ Len(buffersToWrite) = 0
      BY EmptySeq DEF Init, FirstToWrite
    <3>2. SubSeq(buffersToWrite, 1, 0) = <<>>
      BY SubSeqEmpty
    <3>3. QED
      BY <3>1, <3>2, FlattenEmpty DEF LinesFrom
  <2>2. FlattenSeq(buffers) = <<>> /\ file = <<>> /\ currentBuffer = <<>>
    BY FlattenEmpty DEF Init
  <2>3. <<>> \o <<>> = <<>>
    BY <1>1, ConcatEmptySeq
  <2>4. QED
    BY <2>1, <2>2, <2>3 DEF Output
<1>3. InOrder(Output, logged, dropped)
  BY <1>1, <1>2 DEF Init, InOrder
<1>4. NoneTwice(logged) /\ SparesEmpty /\ NothingWritten
  BY <1>1 DEF Init, NoneTwice, SparesEmpty, NothingWritten
<1>5. dropped \subseteq ToSet(logged)
  BY DEF Init
<1>6. QED
  BY <1>3, <1>4, <1>5 DEF LineInv

\* A step that logs nothing, drops nothing and keeps the output.
LEMMA SameOutput ==
    ASSUME LineInv, Output' = Output, UNCHANGED historyVars,
           SparesEmpty', NothingWritten'
    PROVE  LineInv'
BY DEF LineInv, historyVars

\* append() puts a writable line at the end of the output.
LEMMA AppendLines ==
    ASSUME IInv, IInv', LineInv, NEW line \in Lines, AppendLine(line)
    PROVE  LineInv'
<1> DEFINE e == line
           A == file \o LinesFrom(buffersToWrite, FirstToWrite)
           q == FlattenSeq(buffers)
           c == currentBuffer
<1>1. /\ logged' = Append(logged, line) /\ line \notin ToSet(logged)
      /\ UNCHANGED <<backVars, file, dropped>>
  BY DEF AppendLine, Contains, ToSet
<1>2. /\ A \in Seq(Lines) /\ q \in Seq(Lines) /\ c \in Seq(Lines)
      /\ logged \in Seq(Lines)
  <2>1. file \in Seq(Lines) /\ LinesFrom(buffersToWrite, FirstToWrite) \in Seq(Lines)
    BY OutputParts
  <2>2. A \in Seq(Lines)
    BY <2>1, ConcatProperties
  <2>3. QED
    BY <2>2, OutputParts
<1>3. FirstToWrite' = FirstToWrite /\ NothingWritten'
  <2>1. UNCHANGED <<next, buffersToWrite>>
    BY <1>1 DEF backVars
  <2>2. \/ backend' = backend
        \/ backend = "waiting" /\ backend' = "woken"
    BY DEF AppendLine, Notified
  <2>3. NothingWritten
    BY DEF LineInv
  <2>4. QED
    BY <2>1, <2>2, <2>3 DEF FirstToWrite, NothingWritten
<1>4. SparesEmpty'
  BY <1>1 DEF AppendLine, LineInv, SparesEmpty, backVars
<1>5. A' = A
  BY <1>1, <1>3 DEF backVars
<1>6. Output = A \o (q \o c) /\ Output' = A \o (FlattenSeq(buffers') \o currentBuffer')
  BY <1>5 DEF Output
<1> HIDE DEF A
<1>7. Output' = IF Writable(line) THEN Append(Output, line) ELSE Output
  <2>0. q \o c \in Seq(Lines)
    BY <1>2, ConcatProperties
  <2>1. CASE Fits(currentBuffer, line)
    <3>1. currentBuffer' = Append(c, line) /\ buffers' = buffers
      BY <2>1 DEF AppendLine
    <3>2. Writable(line)
      BY <1>2, <2>1, FitsWritable
    <3> HIDE DEF q, c
    <3>3. q \o Append(c, line) = Append(q \o c, line)
      BY <1>2, AppendAfterConcat
    <3>4. A \o Append(q \o c, line) = Append(A \o (q \o c), line)
      <4> DEFINE qc == q \o c
      <4> HIDE DEF qc
      <4>1. qc \in Seq(Lines) => A \o Append(qc, line) = Append(A \o qc, line)
        BY <1>2, AppendAfterConcat
      <4>2. QED
        BY <2>0, <4>1 DEF qc
    <3>5. QED
      BY <1>6, <3>1, <3>2, <3>3, <3>4 DEF q, c
  <2>2. CASE ~Fits(currentBuffer, line)
    <3>1. /\ buffers' = Append(buffers, currentBuffer)
          /\ currentBuffer' = Filled(SpareOrNew, line)
      BY <2>2 DEF AppendLine, Queued
    <3>2. SpareOrNew = <<>>
      BY DEF SpareOrNew, LineInv, SparesEmpty
    <3>3. currentBuffer' = IF Writable(line) THEN Append(<<>>, line) ELSE <<>>
      BY <1>2, <3>1, <3>2, FitsWritable DEF Filled
    <3>4. FlattenSeq(buffers') = q \o c
      BY <3>1, OutputParts, FlattenAppend
    <3> DEFINE qc == q \o c
               Aqc == A \o qc
    <3>5. Output' = A \o (qc \o currentBuffer') /\ Output = Aqc
      BY <1>6, <3>4
    <3>6. qc \in Seq(Lines) /\ <<>> \in Seq(Lines)
      BY <2>0, EmptySeq
    <3> HIDE DEF qc
    <3>7. CASE Writable(line)
      <4>1. qc \o Append(<<>>, line) = Append(qc \o <<>>, line) /\ qc \o <<>> = qc
        BY <3>6, AppendAfterConcat, ConcatEmptySeq
      <4>2. A \o Append(qc, line) = Append(Aqc, line)
        BY <1>2, <3>6, AppendAfterConcat
      <4> HIDE DEF Aqc
      <4>3. QED
        BY <3>3, <3>5, <3>7, <4>1, <4>2
    <3>8. CASE ~Writable(line)
      <4>1. qc \o <<>> = qc
        BY <3>6, ConcatEmptySeq
      <4>2. QED
        BY <3>3, <3>5, <3>8, <4>1
    <3>9. QED
      BY <3>7, <3>8
  <2>3. QED
    BY <2>1, <2>2
<1>8. /\ Output \in Seq(Lines) /\ InOrder(Output, logged, dropped)
      /\ dropped \subseteq ToSet(logged) /\ NoneTwice(logged)
  BY OutputType DEF LineInv
<1>9. InOrder(Output', logged', dropped')
  BY <1>1, <1>2, <1>7, <1>8, AppendInOrder
<1>10. NoneTwice(logged')
  BY <1>1, <1>2, <1>8, AppendNoneTwice
<1>11. dropped' \subseteq ToSet(logged')
  BY <1>1, <1>2, <1>8, AppendMembers
<1>12. QED
  BY <1>3, <1>4, <1>9, <1>10, <1>11 DEF LineInv

\* The swap moves the front's lines to the backend, in their order.
LEMMA TakeLines == IInv /\ LineInv /\ TakeBuffers => LineInv'
<1> SUFFICES ASSUME IInv, LineInv, TakeBuffers PROVE LineInv'
  OBVIOUS
<1> DEFINE q == FlattenSeq(buffers)
           c == currentBuffer
<1>1. /\ buffersToWrite' = Append(buffers, currentBuffer)
      /\ backend \in {"woken", "locking"} /\ backend' = "taken"
      /\ buffers' = <<>> /\ currentBuffer' = newBuffer1 /\ newBuffer1' = NoBuffer
      /\ UNCHANGED <<next, file, historyVars>>
  BY DEF TakeBuffers, Queued, MayTake
<1>2. newBuffer1 = <<>>
  <2>1. newBuffer1 # NoBuffer
    BY <1>1 DEF IInv, BackInv
  <2>2. QED
    BY <2>1 DEF LineInv, SparesEmpty
<1>3. /\ file \in Seq(Lines) /\ q \in Seq(Lines) /\ c \in Seq(Lines)
      /\ <<>> \in Seq(Lines) /\ q \o c \in Seq(Lines)
  <2>1. q \in Seq(Lines) /\ c \in Seq(Lines) /\ file \in Seq(Lines)
    BY OutputParts
  <2>2. QED
    BY <2>1, EmptySeq, ConcatProperties
<1>4. LinesFrom(buffersToWrite, FirstToWrite) = <<>>
  <2>1. FirstToWrite = Len(buffersToWrite) + 1
    BY <1>1 DEF FirstToWrite
  <2>2. QED
    BY <2>1, OutputParts
<1>5. LinesFrom(buffersToWrite', FirstToWrite') = q \o c
  <2> DEFINE t == Append(buffers, currentBuffer)
  <2>1. FirstToWrite' = 1
    BY <1>1 DEF FirstToWrite
  <2>2. t \in Seq(Seq(Lines))
    BY OutputParts, AppendProperties
  <2>3. FlattenSeq(t) = q \o c
    BY OutputParts, FlattenAppend
  <2> HIDE DEF t
  <2>4. SubSeq(t, 1, Len(t)) = t
    BY <2>2, SubSeqFull
  <2>5. buffersToWrite' = t
    BY <1>1 DEF t
  <2>6. QED
    BY <2>1, <2>3, <2>4, <2>5 DEF LinesFrom
<1>6. FlattenSeq(buffers') \o currentBuffer' = <<>>
  <2>1. <<>> \o <<>> = <<>>
    BY <1>3, ConcatEmptySeq
  <2>2. QED
    BY <1>1, <1>2, <2>1, FlattenEmpty
<1> DEFINE qc == q \o c
<1>7. Output = (file \o <<>>) \o qc
  BY <1>4 DEF Output
<1>8. Output' = (file \o qc) \o <<>>
  BY <1>1, <1>5, <1>6 DEF Output
<1>9. Output' = Output
  <2>1. qc \in Seq(Lines)
    BY <1>3
  <2> HIDE DEF qc
  <2>2. file \o <<>> = file /\ file \o qc \in Seq(Lines)
    BY <1>3, <2>1, ConcatEmptySeq, ConcatProperties
  <2>3. (file \o qc) \o <<>> = file \o qc
    BY <2>2, ConcatEmptySeq
  <2>4. QED
    BY <1>7, <1>8, <2>2, <2>3
<1>10. SparesEmpty'
  BY <1>1 DEF TakeBuffers, LineInv, SparesEmpty
<1>11. NothingWritten'
  BY <1>1 DEF LineInv, NothingWritten
<1>12. QED
  BY <1>1, <1>9, <1>10, <1>11, SameOutput

\* A backlog's lines are cut out of the middle of the output.
LEMMA DropLines == IInv /\ LineInv /\ DropBacklog => LineInv'
<1> SUFFICES ASSUME IInv, LineInv, DropBacklog PROVE LineInv'
  OBVIOUS
<1>1. /\ backend = "taken" /\ backend' = "writing" /\ next = 1
      /\ UNCHANGED <<frontVars, newBuffer1, newBuffer2, next, file, logged>>
  BY DEF DropBacklog, LineInv, NothingWritten
<1>2. SparesEmpty' /\ NothingWritten' /\ FirstToWrite = 1 /\ FirstToWrite' = 1
  BY <1>1 DEF LineInv, SparesEmpty, NothingWritten, FirstToWrite, frontVars
<1>3. CASE ~(Len(buffersToWrite) > MaxToWrite)
  <2>1. UNCHANGED <<buffersToWrite, dropped>>
    BY <1>3 DEF DropBacklog
  <2>2. Output' = Output
    BY <1>1, <1>2, <2>1 DEF Output, frontVars
  <2>3. QED
    BY <1>1, <1>2, <2>1, <2>2, SameOutput DEF historyVars
<1>4. CASE Len(buffersToWrite) > MaxToWrite
  <2> DEFINE s == buffersToWrite
             t == SubSeq(s, 1, 2)
             s1 == s[1]
             s2 == s[2]
             m == LinesFrom(s, 3)
             r == FlattenSeq(buffers) \o currentBuffer
  <2>1. /\ buffersToWrite' = t
        /\ dropped' = dropped \union UNION {ToSet(s[i]) : i \in 3..Len(s)}
    BY <1>4 DEF DropBacklog, Kept
  <2>b. s \in Seq(Seq(Lines)) /\ Len(s) \in Nat /\ Len(s) >= 3
    BY <1>4, MaxToWriteType, OutputParts
  <2>2. /\ s1 \in Seq(Lines) /\ s2 \in Seq(Lines) /\ m \in Seq(Lines)
        /\ file \in Seq(Lines) /\ logged \in Seq(Lines)
    <3>1. 1 \in 1..Len(s) /\ 2 \in 1..Len(s) /\ 3 \in Nat \ {0}
      BY <2>b
    <3>2. QED
      BY <3>1, OutputParts
  <2>3. r \in Seq(Lines)
    BY OutputParts, ConcatProperties
  <2>4. /\ t \in Seq(Seq(Lines)) /\ Len(t) = 2 /\ t[1] = s1 /\ t[2] = s2
    <3>1. \A i \in 1..2 : s[i] \in Seq(Lines)
      BY <2>b, OutputParts
    <3>2. /\ t \in Seq(Seq(Lines)) /\ Len(t) = 2
          /\ \A i \in 1..((2 - 1) + 1) : t[i] = s[(1 + i) - 1]
      BY <3>1, SubSeqProperties
    <3> HIDE DEF t
    <3>3. QED
      BY <3>2
  <2>5. LinesFrom(s, 1) = s1 \o (s2 \o m)
    <3>1. 1 \in 1..Len(s) /\ 2 \in 1..Len(s) /\ 1 + 1 = 2 /\ 2 + 1 = 3
      BY <2>b
    <3>2. LinesFrom(s, 1) = s1 \o LinesFrom(s, 2) /\ LinesFrom(s, 2) = s2 \o m
      BY <2>b, <3>1, LinesFirst
    <3>3. QED
      BY <3>1, <3>2
  <2>6. LinesFrom(t, 1) = s1 \o s2
    <3> HIDE DEF t
    <3>1. 1 \in 1..Len(t) /\ 2 \in 1..Len(t) /\ 1 + 1 = 2 /\ 2 + 1 = 3
      BY <2>4
    <3>2. /\ LinesFrom(t, 1) = t[1] \o LinesFrom(t, 2)
          /\ LinesFrom(t, 2) = t[2] \o LinesFrom(t, 3)
      BY <2>4, <3>1, LinesFirst
    <3>3. LinesFrom(t, 3) = <<>>
      <4>1. SubSeq(t, 3, 2) = <<>>
        BY SubSeqEmpty
      <4>2. QED
        BY <2>4, <4>1, FlattenEmpty DEF LinesFrom
    <3> HIDE DEF s1, s2
    <3>4. s2 \o <<>> = s2
      BY <2>2, ConcatEmptySeq
    <3>5. QED
      BY <2>4, <3>1, <3>2, <3>3, <3>4
  <2>7. ToSet(m) = UNION {ToSet(s[i]) : i \in 3..Len(s)}
    <3>1. 3 \in 1..(Len(s) + 1)
      BY <2>b
    <3>2. QED
      BY <2>b, <3>1, FlattenMembers
  <2>8. Output = (file \o (s1 \o (s2 \o m))) \o r
    BY <1>2, <2>5 DEF Output
  <2>9. Output' = (file \o (s1 \o s2)) \o r
    BY <1>1, <1>2, <2>1, <2>6 DEF Output, frontVars
  <2> HIDE DEF s1, s2, m, r, t
  <2> DEFINE a == file \o (s1 \o s2)
  <2>10. s1 \o s2 \in Seq(Lines) /\ s2 \o m \in Seq(Lines) /\ a \in Seq(Lines)
    <3>1. s1 \o s2 \in Seq(Lines) /\ s2 \o m \in Seq(Lines)
      BY <2>2, ConcatProperties
    <3> DEFINE s12 == s1 \o s2
    <3>2. s12 \in Seq(Lines)
      BY <3>1
    <3> HIDE DEF s12
    <3>3. file \o s12 \in Seq(Lines)
      BY <2>2, <3>2, ConcatProperties
    <3>4. QED
      BY <3>1, <3>3 DEF s12
  <2>11. Output = a \o (m \o r)
    <3> DEFINE s12 == s1 \o s2
    <3>1. (s1 \o s2) \o m = s1 \o (s2 \o m)
      <4>1. s1 \in Seq(Lines) /\ s2 \in Seq(Lines) /\ m \in Seq(Lines)
        BY <2>2
      <4>2. QED
        BY <4>1, ConcatAssociative
    <3>2. s12 \in Seq(Lines)
      BY <2>10
    <3> HIDE DEF s12
    <3>3. (file \o s12) \o m = file \o (s12 \o m)
      <4>1. file \in Seq(Lines) /\ s12 \in Seq(Lines) /\ m \in Seq(Lines)
        BY <2>2, <3>2
      <4>2. QED
        BY <4>1, ConcatAssociative
    <3>4. file \o s12 = a
      BY DEF s12
    <3> HIDE DEF a
    <3>5. (a \o m) \o r = a \o (m \o r)
      <4>1. a \in Seq(Lines) /\ m \in Seq(Lines) /\ r \in Seq(Lines)
        BY <2>2, <2>3, <2>10
      <4>2. QED
        BY <4>1, ConcatAssociative
    <3>6. QED
      BY <2>8, <3>1, <3>3, <3>4, <3>5 DEF s12
  <2>12. Output' = a \o r
    BY <2>9
  <2> HIDE DEF a
  <2>13. InOrder(a \o (m \o r), logged, dropped) /\ NoneTwice(logged)
    BY <2>11 DEF LineInv
  <2>14. InOrder(a \o r, logged, dropped \union ToSet(m))
    BY <2>2, <2>3, <2>10, <2>13, CutInOrder
  <2>15. dropped' = dropped \union ToSet(m) /\ logged' = logged
    BY <1>1, <2>1, <2>7
  <2>16. dropped' \subseteq ToSet(logged')
    <3>1. ToSet(Output) \subseteq ToSet(logged)
      BY DEF LineInv, InOrder
    <3>2. ToSet(m) \subseteq ToSet(Output)
      <4> DEFINE mr == m \o r
      <4>1. ToSet(mr) = ToSet(m) \union ToSet(r) /\ mr \in Seq(Lines)
        BY <2>2, <2>3, ConcatMembers, ConcatProperties
      <4>2. Output = a \o mr
        BY <2>11
      <4> HIDE DEF mr
      <4>3. ToSet(a \o mr) = ToSet(a) \union ToSet(mr)
        BY <2>10, <4>1, ConcatMembers
      <4>4. QED
        BY <4>1, <4>2, <4>3
    <3>3. dropped \subseteq ToSet(logged)
      BY DEF LineInv
    <3>4. QED
      BY <2>15, <3>1, <3>2, <3>3
  <2>17. InOrder(Output', logged', dropped') /\ NoneTwice(logged')
    BY <2>12, <2>13, <2>14, <2>15
  <2>18. QED
    BY <1>2, <2>16, <2>17 DEF LineInv
<1>5. QED
  BY <1>3, <1>4

\* A buffer written moves from the head of what is to be written to the file.
LEMMA WriteLines == IInv /\ LineInv /\ WriteBuffer => LineInv'
<1> SUFFICES ASSUME IInv, LineInv, WriteBuffer PROVE LineInv'
  OBVIOUS
<1> DEFINE s == buffersToWrite
           r == FlattenSeq(buffers) \o currentBuffer
<1>1. /\ backend = "writing"
      /\ UNCHANGED <<frontVars, newBuffer1, newBuffer2, buffersToWrite, historyVars>>
  BY DEF WriteBuffer
<1>2. SparesEmpty'
  BY <1>1 DEF LineInv, SparesEmpty, frontVars
<1>3. r' = r /\ next \in Nat \ {0} /\ Len(s) \in Nat
  BY <1>1, OutputParts DEF frontVars, IInv, TypeOK
<1>4. Output = (file \o LinesFrom(s, next)) \o r
  BY <1>1 DEF Output, FirstToWrite
<1>5. CASE next <= Len(s)
  <2> DEFINE b == s[next]
             l == LinesFrom(s, next + 1)
  <2>1. file' = file \o b /\ next' = next + 1 /\ backend' = backend
    BY <1>5 DEF WriteBuffer
  <2>2. Output' = ((file \o b) \o l) \o r
    BY <1>1, <1>3, <2>1 DEF Output, FirstToWrite
  <2>3. LinesFrom(s, next) = b \o l
    <3>1. next \in 1..Len(s) /\ s \in Seq(Seq(Lines))
      BY <1>3, <1>5, OutputParts
    <3>2. QED
      BY <3>1, LinesFirst
  <2>4. file \in Seq(Lines) /\ b \in Seq(Lines) /\ l \in Seq(Lines)
    BY <1>3, <1>5, OutputParts
  <2> HIDE DEF b, l
  <2>5. (file \o b) \o l = file \o (b \o l)
    BY <2>4, ConcatAssociative
  <2>6. Output' = Output
    BY <1>4, <2>2, <2>3, <2>5
  <2>7. NothingWritten'
    BY <1>1, <2>1 DEF NothingWritten
  <2>8. QED
    BY <1>1, <1>2, <2>6, <2>7, SameOutput
<1>6. CASE ~(next <= Len(s))
  <2>1. file' = file /\ next' = next /\ backend' = "refill"
    BY <1>6 DEF WriteBuffer
  <2>2. LinesFrom(s, next) = <<>> /\ LinesFrom(s, Len(s) + 1) = <<>>
    BY <1>3, <1>6, OutputParts
  <2>3. FirstToWrite' = Len(s) + 1 /\ s' = s
    BY <1>1, <2>1 DEF FirstToWrite
  <2>4. Output' = (file \o <<>>) \o r
    BY <1>3, <2>1, <2>2, <2>3 DEF Output
  <2>5. Output' = Output
    BY <1>4, <2>2, <2>4
  <2>6. NothingWritten'
    BY <2>1 DEF NothingWritten
  <2>7. QED
    BY <1>1, <1>2, <2>5, <2>6, SameOutput
<1>7. QED
  BY <1>5, <1>6

\* The buffers that are recycled have been written and are emptied.
LEMMA RefillLines == IInv /\ IInv' /\ LineInv /\ Refill => LineInv'
<1> SUFFICES ASSUME IInv, IInv', LineInv, Refill PROVE LineInv'
  OBVIOUS
<1>1. /\ backend = "refill" /\ backend' = "while" /\ next' = 1
      /\ newBuffer1' \in {<<>>, newBuffer1} /\ newBuffer2' \in {<<>>, newBuffer2}
      /\ UNCHANGED <<frontVars, file, historyVars>>
  BY DEF Refill, Replaced, Reset
<1>2. SparesEmpty'
  BY <1>1 DEF LineInv, SparesEmpty, frontVars
<1>3. NothingWritten'
  BY <1>1 DEF NothingWritten
<1>4. LinesFrom(buffersToWrite, FirstToWrite) = <<>>
  <2>1. FirstToWrite = Len(buffersToWrite) + 1
    BY <1>1 DEF FirstToWrite
  <2>2. QED
    BY <2>1, OutputParts
<1>5. LinesFrom(buffersToWrite', FirstToWrite') = <<>>
  <2>1. FirstToWrite' = Len(buffersToWrite') + 1 /\ buffersToWrite' = <<>>
    BY <1>1 DEF FirstToWrite, Refill
  <2>2. FirstToWrite' = 1 /\ Len(buffersToWrite') = 0
    BY <2>1, EmptySeq
  <2>3. SubSeq(<<>>, 1, 0) = <<>>
    BY SubSeqEmpty
  <2>4. QED
    BY <2>1, <2>2, <2>3, FlattenEmpty DEF LinesFrom
<1>6. Output' = Output
  BY <1>1, <1>4, <1>5 DEF Output, frontVars
<1>7. QED
  BY <1>1, <1>2, <1>3, <1>6, SameOutput

\* What touches no buffer.
LEMMA OtherLines ==
    IInv /\ LineInv
      /\ (OwnerNext \/ CountDown \/ CheckRunning \/ Wait \/ Timeout) => LineInv'
<1> SUFFICES ASSUME IInv, LineInv,
                    OwnerNext \/ CountDown \/ CheckRunning \/ Wait \/ Timeout
             PROVE  LineInv'
  OBVIOUS
<1>1. UNCHANGED <<frontVars, backVars, file, historyVars>>
  BY DEF OwnerNext, Start, StartReturns, Stop, StopNotifies, StopReturns, CountDown,
         CheckRunning, Wait, Timeout
<1>2. \/ backend' = backend
      \/ /\ backend' \notin {"taken", "writing", "refill"}
         /\ backend \notin {"taken", "writing", "refill"}
  <2>1. CASE Start
    BY <2>1 DEF Start, IInv, ThreadInv
  <2>2. CASE StopNotifies
    BY <2>2 DEF StopNotifies, Notified
  <2>3. CASE StartReturns \/ Stop \/ StopReturns
    BY <2>3 DEF StartReturns, Stop, StopReturns
  <2>4. CASE CountDown \/ CheckRunning \/ Wait \/ Timeout
    BY <2>4 DEF CountDown, CheckRunning, Wait, Timeout
  <2>5. QED
    BY <2>1, <2>2, <2>3, <2>4 DEF OwnerNext
<1>3. NothingWritten' /\ FirstToWrite' = FirstToWrite
  BY <1>1, <1>2 DEF backVars, LineInv, NothingWritten, FirstToWrite
<1>4. SparesEmpty'
  BY <1>1 DEF frontVars, backVars, LineInv, SparesEmpty
<1>5. Output' = Output
  BY <1>1, <1>3 DEF Output, frontVars, backVars
<1>6. QED
  BY <1>1, <1>3, <1>4, <1>5, SameOutput

\* Every step keeps the lines in order.
LEMMA StepLines == IInv /\ IInv' /\ LineInv /\ [Next]_vars => LineInv'
<1> SUFFICES ASSUME IInv, IInv', LineInv, [Next]_vars PROVE LineInv'
  OBVIOUS
<1>1. ASSUME NEW line \in Lines, AppendLine(line) PROVE LineInv'
  BY <1>1, AppendLines
<1>2. CASE OwnerNext
  BY <1>2, OtherLines
<1>3. CASE BackendNext
  BY <1>3, TakeLines, DropLines, WriteLines, RefillLines, OtherLines DEF BackendNext
<1>4. CASE UNCHANGED vars
  <2>1. FirstToWrite' = FirstToWrite /\ Output' = Output
    BY <1>4 DEF vars, frontVars, backVars, FirstToWrite, Output
  <2>2. SparesEmpty' /\ NothingWritten'
    BY <1>4 DEF vars, frontVars, backVars, LineInv, SparesEmpty, NothingWritten
  <2>3. UNCHANGED historyVars
    BY <1>4 DEF vars
  <2>4. QED
    BY <2>1, <2>2, <2>3, SameOutput
<1>5. QED
  BY <1>1, <1>2, <1>3, <1>4 DEF Next

\* LinesInOrder in every state: however the threads' append()s fall between the
\* swap, the cut of a backlog, the writes and the recycling of threadFunc(), no
\* line is lost, doubled or overtaken that was not in a dropped backlog.
THEOREM LinesAlwaysInOrder == SafetySpec => []LinesInOrder
<1>1. Init => LineInv
  BY InitLines
<1>2. IInv /\ IInv' /\ LineInv /\ [Next]_vars => LineInv'
  BY StepLines
<1>3. LineInv => LinesInOrder
  BY DEF LineInv, InOrder, Precedes, LinesInOrder, LoggedBefore
<1>4. QED
  BY <1>1, <1>2, <1>3, Invariant, PTL DEF SafetySpec
=============================================================================
