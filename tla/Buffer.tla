------------------------------- MODULE Buffer -------------------------------
(***************************************************************************)
(* A Buffer (net/include/Buffer.h, net/src/Buffer.cc): an array with a     *)
(* reader and a writer index, that moves its contents or grows when data   *)
(* does not fit behind them.                                               *)
(*                                                                         *)
(* A buffer is a record: size is buffer_.size(), bytes its contents by     *)
(* index, stale and unused bytes included.  The member functions are       *)
(* operators on such records; an action replaces the one buffer there is.  *)
(* It has one owner at a time, the thread of its connection's loop.        *)
(***************************************************************************)
EXTENDS Naturals, Sequences

CONSTANTS Byte,          \* values of bytes
          Zero,          \* what the vector fills new elements with
          Data,          \* strings that callers append, prepend or receive
          kCheapPrepend,
          kInitialSize,
          ExtraSize,     \* sizeof extrabuf, in readFd()
          MaxReadable    \* bound on the readable bytes, for TLC

ASSUME BytesType == Zero \in Byte
ASSUME DataType == Data \subseteq Seq(Byte)
ASSUME SizesType == /\ kCheapPrepend \in Nat /\ kInitialSize \in Nat
                    /\ ExtraSize \in Nat /\ MaxReadable \in Nat

VARIABLE buf

\* A vector of n elements; nothing in it is readable.
OfSize(n) == [size        |-> n,
              bytes       |-> [i \in 0..(n - 1) |-> Zero],
              readerIndex |-> kCheapPrepend,
              writerIndex |-> kCheapPrepend]

NewBuffer == OfSize(kCheapPrepend + kInitialSize)

ReadableBytes(b)    == b.writerIndex - b.readerIndex
WritableBytes(b)    == b.size - b.writerIndex
PrependableBytes(b) == b.readerIndex

\* The string that peek() and readableBytes() give.
Readable(b) == [i \in 1..ReadableBytes(b) |-> b.bytes[b.readerIndex + i - 1]]

-----------------------------------------------------------------------------
(* Member functions.                                                       *)

\* std::copy of the string d to the index at.
CopiedTo(b, at, d) ==
    [b EXCEPT !.bytes = [i \in 0..(b.size - 1) |->
        IF at <= i /\ i < at + Len(d) THEN d[i - at + 1] ELSE b.bytes[i]]]

\* buffer_.resize(n), n not less than its size.
Resized(b, n) ==
    [b EXCEPT !.size = n,
              !.bytes = [i \in 0..(n - 1) |->
                            IF i < b.size THEN b.bytes[i] ELSE Zero]]

\* The readable bytes are moved to their initial place.
Moved(b) ==
    [CopiedTo(b, kCheapPrepend, Readable(b)) EXCEPT
        !.readerIndex = kCheapPrepend,
        !.writerIndex = kCheapPrepend + ReadableBytes(b)]

\* Mutant: the reserve in front is forgotten.
MustGrow_NoReserve(b, len) == WritableBytes(b) + PrependableBytes(b) < len

\* makeSpace()'s test: the bytes free on both sides, less the reserve.
MustGrow(b, len) ==
    WritableBytes(b) + PrependableBytes(b) < len + kCheapPrepend

MakeSpace(b, len) ==
    IF MustGrow(b, len) THEN Resized(b, b.writerIndex + len) ELSE Moved(b)

EnsureWritableBytes(b, len) ==
    IF WritableBytes(b) < len THEN MakeSpace(b, len) ELSE b

\* d is written behind the readable bytes, where there is room for it.
Written(b, d) ==
    [CopiedTo(b, b.writerIndex, d) EXCEPT !.writerIndex = @ + Len(d)]

Appended(b, d) == Written(EnsureWritableBytes(b, Len(d)), d)

Prepended(b, d) ==
    [CopiedTo(b, b.readerIndex - Len(d), d) EXCEPT !.readerIndex = @ - Len(d)]

\* retrieve(): with the data, the room in front comes back; asking for more
\* than there is takes all.
Retrieved(b, len) ==
    IF len < ReadableBytes(b)
    THEN [b EXCEPT !.readerIndex = @ + len]
    ELSE [b EXCEPT !.readerIndex = kCheapPrepend, !.writerIndex = kCheapPrepend]

\* What readv() may be given room for: the writable bytes and, unless these are
\* as many, extrabuf on the stack.
ReadCapacity(b) == WritableBytes(b) + (IF WritableBytes(b) < ExtraSize
                                       THEN ExtraSize ELSE 0)

\* Mutant: what overflowed is appended before writerIndex_ is set.
Received_Unset(b, d) ==
    IF Len(d) <= WritableBytes(b) THEN Written(b, d)
    ELSE Appended(b, SubSeq(d, WritableBytes(b) + 1, Len(d)))

\* readFd() of the bytes d: the vector is filled up, then extrabuf is appended.
Received(b, d) ==
    LET w == WritableBytes(b)
    IN  IF Len(d) <= w THEN Written(b, d)
        ELSE Appended(Written(b, SubSeq(d, 1, w)), SubSeq(d, w + 1, Len(d)))

-----------------------------------------------------------------------------
(* Calls.  Their preconditions are the callers' duty; the code has no      *)
(* checks of them.                                                         *)

Init == buf = NewBuffer

RoomFor(d) == ReadableBytes(buf) + Len(d) <= MaxReadable

Append_(d) == RoomFor(d) /\ buf' = Appended(buf, d)

\* At most as much as there is room in front.
Prepend(d) == /\ RoomFor(d)
              /\ Len(d) <= PrependableBytes(buf)
              /\ buf' = Prepended(buf, d)

\* retrieve(), retrieveAll() and, with len from a pointer into the readable
\* bytes or the bytes copied out, retrieveUntil() and retrieveAsString().
Retrieve(len) == buf' = Retrieved(buf, len)

EnsureWritable(len) == buf' = EnsureWritableBytes(buf, len)

\* The caller writes at beginWrite() into what is writable; hasWritten().
HasWritten(d) == /\ RoomFor(d)
                 /\ Len(d) <= WritableBytes(buf)
                 /\ buf' = Written(buf, d)

UnWritten(len) == /\ len <= ReadableBytes(buf)
                  /\ buf' = [buf EXCEPT !.writerIndex = @ - len]

\* End of file is the empty string; an error changes nothing.
ReadFd(d) == /\ RoomFor(d)
             /\ Len(d) <= ReadCapacity(buf)
             /\ buf' = Received(buf, d)

Next == \/ \E d \in Data : Append_(d) \/ Prepend(d) \/ HasWritten(d) \/ ReadFd(d)
        \/ \E len \in 0..(MaxReadable + 1) :
              Retrieve(len) \/ EnsureWritable(len) \/ UnWritten(len)

Spec == Init /\ [][Next]_buf

-----------------------------------------------------------------------------
(* Properties.                                                             *)

\* The type of the buffer, and the order of its indices: every byte between them
\* exists.
TypeOK == /\ buf.size \in Nat
          /\ buf.bytes \in [0..(buf.size - 1) -> Byte]
          /\ buf.readerIndex \in Nat /\ buf.writerIndex \in Nat
          /\ buf.readerIndex <= buf.writerIndex
          /\ buf.writerIndex <= buf.size

\* The readable bytes are a queue of bytes: no move, growth, overflow into
\* extrabuf or header in front loses, repeats or reorders a byte.
Queue == INSTANCE ByteQueue WITH queue <- Readable(buf)
ImplementsByteQueue == Queue!Spec
=============================================================================
