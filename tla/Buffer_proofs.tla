---------------------------- MODULE Buffer_proofs ----------------------------
(***************************************************************************)
(* For any bytes, any sizes of the reserve, the vector and extrabuf: the   *)
(* indices of a buffer stay in order and in bounds, and its readable bytes *)
(* are a queue.                                                            *)
(***************************************************************************)
EXTENDS Buffer, SequenceTheorems, TLAPS

\* The invariant, of any buffer: TypeOK, and the reserve is in the vector.
Good(b) == /\ b \in [size : Nat, bytes : [0..(b.size - 1) -> Byte],
                     readerIndex : Nat, writerIndex : Nat]
           /\ b.readerIndex <= b.writerIndex
           /\ b.writerIndex <= b.size
           /\ kCheapPrepend <= b.size

IInv == Good(buf)

-----------------------------------------------------------------------------
(* The readable bytes.                                                     *)

LEMMA ReadableIsSeq ==
  ASSUME NEW b, Good(b)
  PROVE  /\ ReadableBytes(b) \in Nat
         /\ Readable(b) \in Seq(Byte)
         /\ Len(Readable(b)) = ReadableBytes(b)
         /\ \A i \in 1..ReadableBytes(b) : Readable(b)[i] = b.bytes[b.readerIndex + i - 1]
<1>1. ReadableBytes(b) \in Nat
  BY DEF Good, ReadableBytes
<1>2. Readable(b) \in [1..ReadableBytes(b) -> Byte]
  <2>1. \A i \in 1..ReadableBytes(b) : b.readerIndex + i - 1 \in 0..(b.size - 1)
    BY DEF Good, ReadableBytes
  <2>2. QED
    BY <2>1 DEF Good, Readable
<1>3. Readable(b) \in Seq(Byte)
  BY <1>1, <1>2, SeqDef
<1>4. DOMAIN Readable(b) = 1..ReadableBytes(b)
  BY DEF Readable
<1>5. Len(Readable(b)) = ReadableBytes(b)
  BY <1>1, <1>3, <1>4, LenProperties
<1>6. QED
  BY <1>1, <1>3, <1>5 DEF Readable

\* What the readable bytes are, told byte by byte.
LEMMA ReadableIs ==
  ASSUME NEW b, Good(b), NEW q \in Seq(Byte), Len(q) = ReadableBytes(b),
         \A i \in 1..Len(q) : b.bytes[b.readerIndex + i - 1] = q[i]
  PROVE  Readable(b) = q
<1>1. \A i \in 1..Len(q) : Readable(b)[i] = q[i]
  BY ReadableIsSeq
<1>2. QED
  BY <1>1, ReadableIsSeq, SeqEqual

\* std::copy into the vector's bounds.
LEMMA CopiedToFacts ==
  ASSUME NEW b, Good(b), NEW d \in Seq(Byte), NEW at \in Nat, at + Len(d) <= b.size
  PROVE  /\ Good(CopiedTo(b, at, d))
         /\ CopiedTo(b, at, d).size = b.size
         /\ CopiedTo(b, at, d).readerIndex = b.readerIndex
         /\ CopiedTo(b, at, d).writerIndex = b.writerIndex
         /\ \A i \in 0..(b.size - 1) : CopiedTo(b, at, d).bytes[i] =
               IF at <= i /\ i < at + Len(d) THEN d[i - at + 1] ELSE b.bytes[i]
<1> DEFINE new == [i \in 0..(b.size - 1) |->
                     IF at <= i /\ i < at + Len(d) THEN d[i - at + 1] ELSE b.bytes[i]]
<1>1. Len(d) \in Nat
  BY LenProperties
<1>2. new \in [0..(b.size - 1) -> Byte]
  <2>1. \A i \in 0..(b.size - 1) : at <= i /\ i < at + Len(d) => i - at + 1 \in 1..Len(d)
    BY <1>1 DEF Good
  <2>2. \A j \in 1..Len(d) : d[j] \in Byte
    BY ElementOfSeq
  <2>3. QED
    BY <2>1, <2>2 DEF Good
<1>3. CopiedTo(b, at, d) = [size |-> b.size, bytes |-> new,
                            readerIndex |-> b.readerIndex, writerIndex |-> b.writerIndex]
  <2>1. CopiedTo(b, at, d) = [b EXCEPT !.bytes = new]
    BY DEF CopiedTo
  <2> HIDE DEF new
  <2>2. QED
    BY <2>1 DEF Good
<1> HIDE DEF new
<1>4. Good(CopiedTo(b, at, d))
  BY <1>2, <1>3 DEF Good
<1>5. QED
  BY <1>3, <1>4 DEF new

-----------------------------------------------------------------------------
(* Writing.                                                                *)

\* The elements of a concatenation, by the lengths of its parts.
LEMMA ConcatOf ==
  ASSUME NEW s \in Seq(Byte), NEW t \in Seq(Byte), NEW m, NEW n,
         Len(s) = m, Len(t) = n
  PROVE  /\ s \o t \in Seq(Byte) /\ Len(s \o t) = m + n
         /\ \A i \in 1..(m + n) : (s \o t)[i] = IF i <= m THEN s[i] ELSE t[i - m]
<1>1. /\ s \o t \in Seq(Byte) /\ Len(s \o t) = Len(s) + Len(t)
      /\ \A i \in 1..(Len(s) + Len(t)) :
            (s \o t)[i] = IF i <= Len(s) THEN s[i] ELSE t[i - Len(s)]
  BY ConcatProperties, Zenon
<1>2. QED
  BY <1>1, Zenon

\* Behind the readable bytes.
LEMMA WrittenFacts ==
  ASSUME NEW b, Good(b), NEW d \in Seq(Byte), Len(d) <= WritableBytes(b)
  PROVE  /\ Good(Written(b, d))
         /\ Readable(Written(b, d)) = Readable(b) \o d
         /\ WritableBytes(Written(b, d)) = WritableBytes(b) - Len(d)
<1> DEFINE c == CopiedTo(b, b.writerIndex, d)
           w == Written(b, d)
<1>1. Len(d) \in Nat
  BY LenProperties
<1>2. b.writerIndex \in Nat /\ b.writerIndex + Len(d) <= b.size
  BY <1>1 DEF Good, WritableBytes
<1>3. /\ Good(c) /\ c.size = b.size /\ c.readerIndex = b.readerIndex
      /\ c.writerIndex = b.writerIndex
      /\ \A i \in 0..(b.size - 1) : c.bytes[i] =
            IF b.writerIndex <= i /\ i < b.writerIndex + Len(d)
            THEN d[i - b.writerIndex + 1] ELSE b.bytes[i]
  BY <1>2, CopiedToFacts
<1> HIDE DEF c
<1>4. w = [size |-> b.size, bytes |-> c.bytes, readerIndex |-> b.readerIndex,
           writerIndex |-> b.writerIndex + Len(d)]
  BY <1>3 DEF Written, Good, c
<1> HIDE DEF w
<1>5. Good(w)
  BY <1>1, <1>2, <1>3, <1>4 DEF Good
<1>6. ReadableBytes(w) = ReadableBytes(b) + Len(d)
  BY <1>1, <1>4 DEF Good, ReadableBytes
<1>7. Readable(w) = Readable(b) \o d
  <2>1. /\ Readable(b) \o d \in Seq(Byte)
        /\ Len(Readable(b) \o d) = ReadableBytes(b) + Len(d)
        /\ \A i \in 1..(ReadableBytes(b) + Len(d)) : (Readable(b) \o d)[i] =
              IF i <= ReadableBytes(b) THEN Readable(b)[i] ELSE d[i - ReadableBytes(b)]
    <3>1. Readable(b) \in Seq(Byte) /\ Len(Readable(b)) = ReadableBytes(b)
      BY ReadableIsSeq
    <3>2. QED
      BY <3>1, ConcatOf
  <2>2. SUFFICES ASSUME NEW i \in 1..(ReadableBytes(b) + Len(d))
                 PROVE  w.bytes[w.readerIndex + i - 1] = (Readable(b) \o d)[i]
    BY <1>5, <1>6, <2>1, ReadableIs
  <2> DEFINE j == b.readerIndex + i - 1
  <2>3. /\ j \in 0..(b.size - 1)
        /\ i <= ReadableBytes(b) => ~(b.writerIndex <= j)
        /\ i > ReadableBytes(b) => b.writerIndex <= j
        /\ j < b.writerIndex + Len(d)
        /\ j - b.writerIndex + 1 = i - ReadableBytes(b)
    BY <1>1, <1>2 DEF Good, ReadableBytes
  <2>4. w.bytes[w.readerIndex + i - 1] = c.bytes[j]
    BY <1>4
  <2>5. i <= ReadableBytes(b) => Readable(b)[i] = b.bytes[j]
    BY ReadableIsSeq
  <2>6. i > ReadableBytes(b) \/ i <= ReadableBytes(b)
    BY ReadableIsSeq
  <2> HIDE DEF j
  <2>7. c.bytes[j] = IF i <= ReadableBytes(b) THEN b.bytes[j] ELSE d[i - ReadableBytes(b)]
    BY <1>3, <2>3, <2>6
  <2>8. QED
    BY <2>1, <2>4, <2>5, <2>7
<1>8. WritableBytes(w) = WritableBytes(b) - Len(d)
  BY <1>1, <1>4 DEF WritableBytes, Good
<1>9. QED
  BY <1>5, <1>7, <1>8 DEF w

\* resize().
LEMMA ResizedFacts ==
  ASSUME NEW b, Good(b), NEW n \in Nat, b.size <= n
  PROVE  /\ Good(Resized(b, n))
         /\ Readable(Resized(b, n)) = Readable(b)
         /\ WritableBytes(Resized(b, n)) = n - b.writerIndex
<1> DEFINE new == [i \in 0..(n - 1) |-> IF i < b.size THEN b.bytes[i] ELSE Zero]
           r == Resized(b, n)
<1>1. new \in [0..(n - 1) -> Byte]
  BY BytesType DEF Good
<1>2. r = [size |-> n, bytes |-> new, readerIndex |-> b.readerIndex,
           writerIndex |-> b.writerIndex]
  <2>1. r = [b EXCEPT !.size = n, !.bytes = new]
    BY DEF Resized
  <2> HIDE DEF new, r
  <2>2. QED
    BY <2>1 DEF Good
<1>3. \A i \in 0..(b.size - 1) : new[i] = b.bytes[i]
  BY DEF Good
<1> HIDE DEF new, r
<1>4. Good(r)
  BY <1>1, <1>2, SizesType DEF Good
<1>5. Readable(r) = Readable(b)
  <2>1. ReadableBytes(r) = ReadableBytes(b)
    BY <1>2 DEF ReadableBytes
  <2>2. \A i \in 1..ReadableBytes(b) : b.readerIndex + i - 1 \in 0..(b.size - 1)
    BY DEF Good, ReadableBytes
  <2>3. \A i \in 1..ReadableBytes(b) :
           r.bytes[r.readerIndex + i - 1] = Readable(b)[i]
    BY <1>2, <1>3, <2>2, ReadableIsSeq
  <2>4. QED
    BY <1>4, <2>1, <2>3, ReadableIsSeq, ReadableIs
<1>6. WritableBytes(r) = n - b.writerIndex
  BY <1>2 DEF WritableBytes
<1>7. QED
  BY <1>4, <1>5, <1>6 DEF r

\* Moving what is readable to the front, where there is room for it.
LEMMA MovedFacts ==
  ASSUME NEW b, Good(b), kCheapPrepend + ReadableBytes(b) <= b.size
  PROVE  /\ Good(Moved(b))
         /\ Readable(Moved(b)) = Readable(b)
         /\ WritableBytes(Moved(b)) = b.size - kCheapPrepend - ReadableBytes(b)
<1> DEFINE c == CopiedTo(b, kCheapPrepend, Readable(b))
           m == Moved(b)
           n == ReadableBytes(b)
<1>1. n \in Nat /\ kCheapPrepend \in Nat /\ Len(Readable(b)) = n /\ Readable(b) \in Seq(Byte)
  BY ReadableIsSeq, SizesType
<1>2. /\ Good(c) /\ c.size = b.size
      /\ \A i \in 0..(b.size - 1) : c.bytes[i] =
            IF kCheapPrepend <= i /\ i < kCheapPrepend + n
            THEN Readable(b)[i - kCheapPrepend + 1] ELSE b.bytes[i]
  BY <1>1, CopiedToFacts
<1> HIDE DEF c
<1>3. m = [size |-> b.size, bytes |-> c.bytes, readerIndex |-> kCheapPrepend,
           writerIndex |-> kCheapPrepend + n]
  <2>1. m = [c EXCEPT !.readerIndex = kCheapPrepend, !.writerIndex = kCheapPrepend + n]
    BY DEF Moved, c
  <2> HIDE DEF m, n
  <2>2. QED
    BY <1>2, <2>1 DEF Good
<1> HIDE DEF m
<1>4. Good(m)
  BY <1>1, <1>2, <1>3 DEF Good
<1>5. ReadableBytes(m) = n
  BY <1>1, <1>3 DEF ReadableBytes
<1>6. Readable(m) = Readable(b)
  <2>1. SUFFICES ASSUME NEW i \in 1..n
                 PROVE  m.bytes[m.readerIndex + i - 1] = Readable(b)[i]
    BY <1>1, <1>4, <1>5, ReadableIs
  <2> DEFINE j == kCheapPrepend + i - 1
  <2>2. /\ j \in 0..(b.size - 1) /\ kCheapPrepend <= j /\ j < kCheapPrepend + n
        /\ j - kCheapPrepend + 1 = i
    BY <1>1 DEF Good
  <2>3. m.bytes[m.readerIndex + i - 1] = c.bytes[j]
    BY <1>3
  <2> HIDE DEF j
  <2>4. QED
    BY <1>2, <2>2, <2>3
<1>7. WritableBytes(m) = b.size - kCheapPrepend - n
  BY <1>1, <1>3 DEF WritableBytes, Good
<1>8. QED
  BY <1>4, <1>6, <1>7 DEF m

\* makeSpace() moves only towards the front, so that std::copy may be given ranges
\* that overlap, and finds room for len bytes.
LEMMA MovesForward ==
  ASSUME NEW b, Good(b), NEW len \in Nat, WritableBytes(b) < len, ~MustGrow(b, len)
  PROVE  /\ kCheapPrepend < b.readerIndex
         /\ kCheapPrepend + ReadableBytes(b) <= b.size
         /\ b.size - kCheapPrepend - ReadableBytes(b) >= len
BY SizesType DEF Good, MustGrow, WritableBytes, PrependableBytes, ReadableBytes

LEMMA EnsureFacts ==
  ASSUME NEW b, Good(b), NEW len \in Nat
  PROVE  LET e == EnsureWritableBytes(b, len)
         IN  Good(e) /\ Readable(e) = Readable(b) /\ WritableBytes(e) >= len
<1>1. WritableBytes(b) \in Nat
  BY DEF Good, WritableBytes
<1>2. CASE ~(WritableBytes(b) < len)
  BY <1>1, <1>2 DEF EnsureWritableBytes
<1>3. CASE WritableBytes(b) < len /\ MustGrow(b, len)
  <2> DEFINE n == b.writerIndex + len
  <2>1. n \in Nat /\ b.size <= n /\ n - b.writerIndex >= len
    BY <1>3 DEF Good, WritableBytes
  <2>2. EnsureWritableBytes(b, len) = Resized(b, n)
    BY <1>3 DEF EnsureWritableBytes, MakeSpace
  <2> HIDE DEF n
  <2>3. QED
    BY <2>1, <2>2, ResizedFacts
<1>4. CASE WritableBytes(b) < len /\ ~MustGrow(b, len)
  BY <1>4, MovesForward, MovedFacts DEF EnsureWritableBytes, MakeSpace
<1>5. QED
  BY <1>2, <1>3, <1>4

LEMMA AppendedFacts ==
  ASSUME NEW b, Good(b), NEW d \in Seq(Byte)
  PROVE  Good(Appended(b, d)) /\ Readable(Appended(b, d)) = Readable(b) \o d
<1> DEFINE e == EnsureWritableBytes(b, Len(d))
<1>1. Len(d) \in Nat
  BY LenProperties
<1>2. Good(e) /\ Readable(e) = Readable(b) /\ WritableBytes(e) >= Len(d)
  BY <1>1, EnsureFacts
<1>3. WritableBytes(e) \in Nat
  BY <1>2 DEF Good, WritableBytes
<1> HIDE DEF e
<1>4. Len(d) <= WritableBytes(e)
  BY <1>1, <1>2, <1>3
<1>5. Good(Written(e, d)) /\ Readable(Written(e, d)) = Readable(e) \o d
  BY <1>2, <1>4, WrittenFacts
<1>6. QED
  BY <1>2, <1>5 DEF Appended, e

\* The bytes in front and the readable ones, counted from the first or indexed.
LEMMA FrontIndex ==
  ASSUME NEW at \in Nat, NEW n \in Nat, NEW k \in Nat, NEW size \in Nat,
         at + n + k <= size, NEW i \in 1..(n + k)
  PROVE  /\ at + i - 1 \in 0..(size - 1) /\ at <= at + i - 1
         /\ i <= n => at + i - 1 < at + n
         /\ i > n => ~(at + i - 1 < at + n) /\ i - n \in 1..k
         /\ at + i - 1 - at + 1 = i
         /\ at + i - 1 = at + n + (i - n) - 1
OBVIOUS

\* In front of the readable bytes.
LEMMA PrependedFacts ==
  ASSUME NEW b, Good(b), NEW d \in Seq(Byte), Len(d) <= PrependableBytes(b)
  PROVE  Good(Prepended(b, d)) /\ Readable(Prepended(b, d)) = d \o Readable(b)
<1> DEFINE at == b.readerIndex - Len(d)
           c == CopiedTo(b, at, d)
           p == Prepended(b, d)
<1>1. Len(d) \in Nat
  BY LenProperties
<1>2. at \in Nat /\ at + Len(d) <= b.size /\ at + Len(d) = b.readerIndex
  BY <1>1 DEF Good, PrependableBytes
<1> HIDE DEF at
<1>3. /\ Good(c) /\ c.size = b.size /\ c.readerIndex = b.readerIndex
      /\ c.writerIndex = b.writerIndex
      /\ \A i \in 0..(b.size - 1) : c.bytes[i] =
            IF at <= i /\ i < b.readerIndex THEN d[i - at + 1] ELSE b.bytes[i]
  BY <1>2, CopiedToFacts
<1>4. p = [size |-> b.size, bytes |-> c.bytes, readerIndex |-> at,
           writerIndex |-> b.writerIndex]
  <2>1. p = [c EXCEPT !.readerIndex = @ - Len(d)]
    BY DEF Prepended, at
  <2> HIDE DEF c, p
  <2>2. p = [size |-> c.size, bytes |-> c.bytes, readerIndex |-> c.readerIndex - Len(d),
             writerIndex |-> c.writerIndex]
    BY <1>3, <2>1 DEF Good
  <2>3. QED
    BY <1>3, <2>2 DEF at
<1> HIDE DEF c, p
<1>5. Good(p)
  BY <1>1, <1>2, <1>3, <1>4 DEF Good
<1>6. ReadableBytes(p) = Len(d) + ReadableBytes(b)
  BY <1>1, <1>2, <1>4 DEF Good, ReadableBytes
<1>7. Readable(p) = d \o Readable(b)
  <2>1. /\ d \o Readable(b) \in Seq(Byte)
        /\ Len(d \o Readable(b)) = Len(d) + ReadableBytes(b)
        /\ \A i \in 1..(Len(d) + ReadableBytes(b)) : (d \o Readable(b))[i] =
              IF i <= Len(d) THEN d[i] ELSE Readable(b)[i - Len(d)]
    <3>1. Readable(b) \in Seq(Byte) /\ Len(Readable(b)) = ReadableBytes(b)
      BY ReadableIsSeq
    <3>2. QED
      BY <3>1, ConcatOf
  <2>2. SUFFICES ASSUME NEW i \in 1..(Len(d) + ReadableBytes(b))
                 PROVE  p.bytes[p.readerIndex + i - 1] = (d \o Readable(b))[i]
    BY <1>5, <1>6, <2>1, ReadableIs
  <2> DEFINE j == at + i - 1
  <2>3. /\ j \in 0..(b.size - 1) /\ at <= j
        /\ i <= Len(d) => j < b.readerIndex
        /\ i > Len(d) => ~(j < b.readerIndex) /\ i - Len(d) \in 1..ReadableBytes(b)
        /\ j - at + 1 = i
        /\ j = b.readerIndex + (i - Len(d)) - 1
    <3>1. /\ b.readerIndex \in Nat /\ b.writerIndex \in Nat /\ b.size \in Nat
          /\ b.readerIndex + ReadableBytes(b) <= b.size /\ ReadableBytes(b) \in Nat
      BY DEF Good, ReadableBytes
    <3>2. at + Len(d) + ReadableBytes(b) <= b.size
      BY <1>2, <3>1
    <3>3. QED
      BY <1>1, <1>2, <3>1, <3>2, FrontIndex
  <2>4. p.bytes[p.readerIndex + i - 1] = c.bytes[j]
    BY <1>4
  <2> HIDE DEF j
  <2>5. i > Len(d) => Readable(b)[i - Len(d)] = b.bytes[j]
    BY <2>3, ReadableIsSeq
  <2>6. i > Len(d) \/ i <= Len(d)
    BY <1>1
  <2>7. c.bytes[j] = IF i <= Len(d) THEN d[i] ELSE b.bytes[j]
    BY <1>1, <1>3, <2>3, <2>6
  <2>8. QED
    BY <1>1, <2>1, <2>4, <2>5, <2>6, <2>7
<1>8. QED
  BY <1>5, <1>7 DEF p

-----------------------------------------------------------------------------
(* Taking.                                                                 *)

\* The readable bytes from one index to another.
LEMMA PartFacts ==
  ASSUME NEW b, Good(b), NEW r \in Nat, NEW w \in Nat,
         b.readerIndex <= r, r <= w, w <= b.writerIndex,
         NEW p, p = [b EXCEPT !.readerIndex = r, !.writerIndex = w]
  PROVE  /\ Good(p)
         /\ Readable(p) = SubSeq(Readable(b), r - b.readerIndex + 1, w - b.readerIndex)
<1> DEFINE m == r - b.readerIndex + 1
           n == w - b.readerIndex
           q == SubSeq(Readable(b), m, n)
<1>1. p = [size |-> b.size, bytes |-> b.bytes, readerIndex |-> r, writerIndex |-> w]
  BY DEF Good
<1>2. Good(p)
  BY <1>1 DEF Good
<1>3. m \in Int /\ n \in Int /\ n - m + 1 = w - r /\ m - 1 <= n
      /\ \A i \in m..n : i \in 1..ReadableBytes(b)
  BY DEF Good, ReadableBytes
<1>4. \A i \in m..n : Readable(b)[i] \in Byte
  BY <1>3, ReadableIsSeq, ElementOfSeq
<1> HIDE DEF m, n
<1>5. /\ q \in Seq(Byte)
      /\ Len(q) = IF m <= n THEN n - m + 1 ELSE 0
      /\ \A i \in 1..(n - m + 1) : q[i] = Readable(b)[m + i - 1]
  BY <1>3, <1>4, SubSeqProperties
<1>6. Len(q) = w - r
  BY <1>3, <1>5
<1>7. ReadableBytes(p) = w - r
  BY <1>1 DEF ReadableBytes
<1>8. SUFFICES ASSUME NEW i \in 1..(w - r)
               PROVE  p.bytes[p.readerIndex + i - 1] = q[i]
  BY <1>2, <1>5, <1>6, <1>7, ReadableIs DEF m, n
<1>9. m + i - 1 \in 1..ReadableBytes(b) /\ b.readerIndex + (m + i - 1) - 1 = r + i - 1
  BY DEF m, Good, ReadableBytes
<1>10. Readable(b)[m + i - 1] = b.bytes[r + i - 1]
  BY <1>9, ReadableIsSeq
<1>11. QED
  BY <1>1, <1>3, <1>5, <1>10

LEMMA RetrievedFacts ==
  ASSUME NEW b, Good(b), NEW len \in Nat
  PROVE  /\ Good(Retrieved(b, len))
         /\ \E n \in 0..Len(Readable(b)) :
               Readable(Retrieved(b, len)) = SubSeq(Readable(b), n + 1, Len(Readable(b)))
<1>1. Len(Readable(b)) = ReadableBytes(b) /\ ReadableBytes(b) \in Nat
  BY ReadableIsSeq
<1>2. CASE len < ReadableBytes(b)
  <2> DEFINE r == b.readerIndex + len
             p == Retrieved(b, len)
  <2>1. p = [b EXCEPT !.readerIndex = r]
    BY <1>2 DEF Retrieved
  <2>2. r \in Nat /\ b.readerIndex <= r /\ r <= b.writerIndex
        /\ r - b.readerIndex + 1 = len + 1
    BY <1>2 DEF Good, ReadableBytes
  <2> HIDE DEF r, p
  <2>3. p = [b EXCEPT !.readerIndex = r, !.writerIndex = b.writerIndex]
    BY <2>1 DEF Good
  <2>4. b.writerIndex \in Nat /\ b.writerIndex <= b.writerIndex
        /\ b.writerIndex - b.readerIndex = ReadableBytes(b)
    BY DEF Good, ReadableBytes
  <2>5. /\ Good(p)
        /\ Readable(p) = SubSeq(Readable(b), r - b.readerIndex + 1,
                                b.writerIndex - b.readerIndex)
    BY <2>2, <2>3, <2>4, PartFacts
  <2>6. len \in 0..ReadableBytes(b)
    BY <1>1, <1>2
  <2>7. Readable(p) = SubSeq(Readable(b), len + 1, Len(Readable(b)))
    BY <1>1, <2>2, <2>4, <2>5
  <2>8. QED
    BY <1>1, <2>5, <2>6, <2>7 DEF p
<1>3. CASE ~(len < ReadableBytes(b))
  <2> DEFINE n == ReadableBytes(b)
             p == Retrieved(b, len)
  <2>1. p = [b EXCEPT !.readerIndex = kCheapPrepend, !.writerIndex = kCheapPrepend]
    BY <1>3 DEF Retrieved
  <2> HIDE DEF p
  <2>2. p = [size |-> b.size, bytes |-> b.bytes, readerIndex |-> kCheapPrepend,
             writerIndex |-> kCheapPrepend]
    BY <2>1 DEF Good
  <2>3. Good(p)
    BY <2>2, SizesType DEF Good
  <2>4. ReadableBytes(p) = 0
    BY <2>2, SizesType DEF ReadableBytes
  <2>5. Readable(p) = <<>>
    BY <2>3, <2>4, ReadableIsSeq, EmptySeq
  <2>6. SubSeq(Readable(b), n + 1, n) = <<>>
    BY <1>1, SubSeqEmpty
  <2>7. QED
    BY <1>1, <2>3, <2>5, <2>6 DEF p
<1>4. QED
  BY <1>2, <1>3

\* unwrite().
LEMMA UnWrittenFacts ==
  ASSUME NEW b, Good(b), NEW len \in Nat, len <= ReadableBytes(b),
         NEW p, p = [b EXCEPT !.writerIndex = @ - len]
  PROVE  /\ Good(p)
         /\ Readable(p) = SubSeq(Readable(b), 1, ReadableBytes(b) - len)
<1> DEFINE w == b.writerIndex - len
<1>1. /\ w \in Nat /\ b.readerIndex <= w /\ w <= b.writerIndex
      /\ w - b.readerIndex = ReadableBytes(b) - len
      /\ b.readerIndex - b.readerIndex + 1 = 1
      /\ b.readerIndex \in Nat /\ b.readerIndex <= b.readerIndex
  BY DEF Good, ReadableBytes
<1> HIDE DEF w
<1>2. p = [b EXCEPT !.readerIndex = b.readerIndex, !.writerIndex = w]
  BY DEF Good, w
<1>3. /\ Good(p)
      /\ Readable(p) = SubSeq(Readable(b), b.readerIndex - b.readerIndex + 1,
                              w - b.readerIndex)
  BY <1>1, <1>2, PartFacts
<1>4. QED
  BY <1>1, <1>3

-----------------------------------------------------------------------------
(* readFd().                                                               *)

LEMMA Split ==
  ASSUME NEW d \in Seq(Byte), NEW n \in 0..Len(d)
  PROVE  /\ SubSeq(d, 1, n) \in Seq(Byte) /\ Len(SubSeq(d, 1, n)) = n
         /\ SubSeq(d, n + 1, Len(d)) \in Seq(Byte)
         /\ SubSeq(d, 1, n) \o SubSeq(d, n + 1, Len(d)) = d
<1> DEFINE s == SubSeq(d, 1, n)
           t == SubSeq(d, n + 1, Len(d))
<1>1. Len(d) \in Nat /\ n \in Nat /\ n <= Len(d) /\ \A i \in 1..Len(d) : d[i] \in Byte
  BY LenProperties, ElementOfSeq
<1>2. s \in Seq(Byte) /\ Len(s) = n /\ \A i \in 1..n : s[i] = d[i]
  <2>1. \A i \in 1..n : d[i] \in Byte
    BY <1>1
  <2>2. /\ s \in Seq(Byte) /\ Len(s) = IF 1 <= n THEN n - 1 + 1 ELSE 0
        /\ \A i \in 1..(n - 1 + 1) : s[i] = d[1 + i - 1]
    BY <1>1, <2>1, SubSeqProperties
  <2> HIDE DEF s
  <2>3. \A i \in 1..n : i \in 1..(n - 1 + 1) /\ 1 + i - 1 = i
    BY <1>1
  <2>4. QED
    BY <1>1, <2>2, <2>3
<1>3. t \in Seq(Byte) /\ Len(t) = Len(d) - n /\ \A i \in 1..(Len(d) - n) : t[i] = d[n + i]
  <2>1. \A i \in (n + 1)..Len(d) : d[i] \in Byte
    BY <1>1
  <2>2. /\ t \in Seq(Byte) /\ Len(t) = IF n + 1 <= Len(d) THEN Len(d) - (n + 1) + 1 ELSE 0
        /\ \A i \in 1..(Len(d) - (n + 1) + 1) : t[i] = d[n + 1 + i - 1]
    BY <1>1, <2>1, SubSeqProperties
  <2> HIDE DEF t
  <2>3. \A i \in 1..(Len(d) - n) : i \in 1..(Len(d) - (n + 1) + 1) /\ n + 1 + i - 1 = n + i
    BY <1>1
  <2>4. QED
    BY <1>1, <2>2, <2>3
<1> HIDE DEF s, t
<1>4. /\ s \o t \in Seq(Byte) /\ Len(s \o t) = n + (Len(d) - n)
      /\ \A i \in 1..(n + (Len(d) - n)) : (s \o t)[i] = IF i <= n THEN s[i] ELSE t[i - n]
  <2>1. s \in Seq(Byte) /\ t \in Seq(Byte) /\ Len(s) = n /\ Len(t) = Len(d) - n
    BY <1>2, <1>3
  <2>2. QED
    BY <2>1, ConcatOf
<1>5. Len(s \o t) = Len(d)
  BY <1>1, <1>4
<1>6. ASSUME NEW i \in 1..Len(d) PROVE (s \o t)[i] = d[i]
  <2>1. i \in 1..(n + (Len(d) - n))
    BY <1>1
  <2>2. CASE i <= n
    BY <1>1, <1>2, <1>4, <2>1, <2>2
  <2>3. CASE ~(i <= n)
    <3>1. i - n \in 1..(Len(d) - n) /\ n + (i - n) = i
      BY <1>1, <2>3
    <3>2. QED
      BY <1>3, <1>4, <2>1, <2>3, <3>1
  <2>4. QED
    BY <2>2, <2>3
<1>7. s \o t = d
  BY <1>4, <1>5, <1>6, SeqEqual
<1>8. QED
  BY <1>2, <1>3, <1>7 DEF s, t

LEMMA ReceivedFacts ==
  ASSUME NEW b, Good(b), NEW d \in Seq(Byte)
  PROVE  Good(Received(b, d)) /\ Readable(Received(b, d)) = Readable(b) \o d
<1> DEFINE w == WritableBytes(b)
<1>1. w \in Nat /\ Len(d) \in Nat
  BY LenProperties DEF Good, WritableBytes
<1> HIDE DEF w
<1>2. CASE Len(d) <= w
  BY <1>2, WrittenFacts DEF Received, w
<1>3. CASE ~(Len(d) <= w)
  <2> DEFINE s == SubSeq(d, 1, w)
             t == SubSeq(d, w + 1, Len(d))
             v == Written(b, s)
  <2>1. w \in 0..Len(d)
    BY <1>1, <1>3
  <2>2. s \in Seq(Byte) /\ Len(s) = w /\ t \in Seq(Byte) /\ s \o t = d
    BY <2>1, Split
  <2>3. Received(b, d) = Appended(v, t)
    BY <1>3 DEF Received, w
  <2> HIDE DEF s, t, v
  <2>4. Good(v) /\ Readable(v) = Readable(b) \o s
    BY <1>1, <2>2, WrittenFacts DEF v, w
  <2>5. Good(Appended(v, t)) /\ Readable(Appended(v, t)) = Readable(v) \o t
    BY <2>2, <2>4, AppendedFacts
  <2>6. Readable(b) \in Seq(Byte)
    BY ReadableIsSeq
  <2>7. (Readable(b) \o s) \o t = Readable(b) \o (s \o t)
    <3>1. s \in Seq(Byte) /\ t \in Seq(Byte)
      BY <2>2
    <3>2. QED
      BY <2>6, <3>1, ConcatAssociative
  <2>8. QED
    BY <2>2, <2>3, <2>4, <2>5, <2>7
<1>4. QED
  BY <1>2, <1>3

-----------------------------------------------------------------------------
(* The invariant and the refinement.                                       *)

\* A new buffer.
LEMMA OfSizeFacts ==
  ASSUME NEW n \in Nat, kCheapPrepend <= n
  PROVE  Good(OfSize(n)) /\ Readable(OfSize(n)) = <<>>
<1> DEFINE x == [i \in 0..(n - 1) |-> Zero]
           b == OfSize(n)
<1>1. x \in [0..(n - 1) -> Byte]
  BY BytesType
<1>2. b = [size |-> n, bytes |-> x, readerIndex |-> kCheapPrepend,
           writerIndex |-> kCheapPrepend]
  BY DEF OfSize
<1> HIDE DEF x, b
<1>3. Good(b)
  BY <1>1, <1>2, SizesType DEF Good
<1>4. ReadableBytes(b) = 0
  BY <1>2, SizesType DEF ReadableBytes
<1>5. Readable(b) = <<>>
  BY <1>3, <1>4, ReadableIsSeq, EmptySeq
<1>6. QED
  BY <1>3, <1>5 DEF b

LEMMA InitFacts == Init => IInv /\ Queue!Init
<1>1. /\ kCheapPrepend + kInitialSize \in Nat
      /\ kCheapPrepend <= kCheapPrepend + kInitialSize
  BY SizesType
<1>2. Good(NewBuffer) /\ Readable(NewBuffer) = <<>>
  BY <1>1, OfSizeFacts DEF NewBuffer
<1>3. QED
  BY <1>2 DEF Init, IInv, Queue!Init

\* Every call keeps the indices, and is a step of the queue.
LEMMA StepFacts ==
  ASSUME IInv, [Next]_buf
  PROVE  IInv' /\ [Queue!Next]_(Readable(buf))
<1> USE DEF IInv
<1>1. ASSUME NEW d \in Data, Append_(d) \/ ReadFd(d) \/ HasWritten(d)
      PROVE  Good(buf') /\ Readable(buf') = Readable(buf) \o d
  BY <1>1, DataType, AppendedFacts, ReceivedFacts, WrittenFacts
  DEF Append_, ReadFd, HasWritten
<1>2. ASSUME NEW d \in Data, Prepend(d)
      PROVE  Good(buf') /\ Readable(buf') = d \o Readable(buf)
  BY <1>2, DataType, PrependedFacts DEF Prepend
<1>3. ASSUME NEW len \in 0..(MaxReadable + 1), Retrieve(len)
      PROVE  Good(buf') /\ \E n \in 0..Len(Readable(buf)) :
                Readable(buf') = SubSeq(Readable(buf), n + 1, Len(Readable(buf)))
  <2>1. len \in Nat /\ buf' = Retrieved(buf, len)
    BY <1>3, SizesType DEF Retrieve
  <2>2. QED
    BY <2>1, RetrievedFacts
<1>4. ASSUME NEW len \in 0..(MaxReadable + 1), EnsureWritable(len)
      PROVE  Good(buf') /\ Readable(buf') = Readable(buf)
  BY <1>4, SizesType, EnsureFacts DEF EnsureWritable
<1>5. ASSUME NEW len \in 0..(MaxReadable + 1), UnWritten(len)
      PROVE  Good(buf') /\ \E n \in 0..Len(Readable(buf)) :
                Readable(buf') = SubSeq(Readable(buf), 1, Len(Readable(buf)) - n)
  <2>1. len \in Nat /\ len <= ReadableBytes(buf)
    BY <1>5, SizesType DEF UnWritten
  <2>2. /\ Good(buf')
        /\ Readable(buf') = SubSeq(Readable(buf), 1, ReadableBytes(buf) - len)
    BY <1>5, <2>1, UnWrittenFacts DEF UnWritten
  <2>3. Len(Readable(buf)) = ReadableBytes(buf) /\ ReadableBytes(buf) \in Nat
    BY ReadableIsSeq
  <2>4. QED
    BY <2>1, <2>2, <2>3
<1>6. CASE UNCHANGED buf
  BY <1>6
<1>7. CASE Next
  BY <1>1, <1>2, <1>3, <1>4, <1>5, <1>7
  DEF Next, Queue!Next, Queue!Put, Queue!PutFront, Queue!Take, Queue!TakeBack
<1>8. QED
  BY <1>6, <1>7

LEMMA AlwaysIInv == Spec => []IInv
<1>1. IInv /\ [Next]_buf => IInv'
  BY StepFacts
<1>2. QED
  BY <1>1, InitFacts, PTL DEF Spec

\* The indices of a Buffer stay in order and in the vector, whatever is called.
THEOREM TypeCorrect == Spec => []TypeOK
<1>1. IInv => TypeOK
  BY DEF IInv, Good, TypeOK
<1>2. QED
  BY <1>1, AlwaysIInv, PTL

\* append(), prepend(), retrieve(), readFd() and the others are operations of a
\* queue of bytes: makeSpace() and the detour over extrabuf change nothing of it.
THEOREM Refinement == Spec => ImplementsByteQueue
<1>1. IInv /\ [Next]_buf => [Queue!Next]_(Readable(buf))
  BY StepFacts
<1>2. Spec => Queue!Init /\ [][Queue!Next]_(Readable(buf))
  BY <1>1, InitFacts, AlwaysIInv, PTL DEF Spec
<1>3. QED
  BY <1>2 DEF ImplementsByteQueue, Queue!Spec
=============================================================================
