----------------------------- MODULE PipeProofs -----------------------------
(***************************************************************************)
(* Proofs about Pipe, for a ring of any size: its type invariant, and that *)
(* the ring implements ByteFifo.                                           *)
(*                                                                         *)
(* The offsets are computed modulo Size.  The first lemmas replace each %  *)
(* by a case distinction, after which the facts about the copies are       *)
(* linear arithmetic.                                                      *)
(***************************************************************************)
EXTENDS Pipe, SequenceTheorems, TLAPS

(* Adding at most one turn of the ring to an offset wraps at most once. *)
LEMMA WrapsOnce ==
  \A a \in 0..(2 * Size - 1) :
    a % Size = IF a < Size THEN a ELSE a - Size
BY PipeAssumption

(* len() and avail() without the modulo. *)
LEMMA LenCases ==
  ASSUME w \in Offsets, r \in Offsets
  PROVE  /\ len = IF w >= r THEN w - r ELSE Size - r + w
         /\ avail = Size - 1 - len
         /\ len \in 0..Size-1
         /\ avail \in 0..Size-1
<1>1. Size - r + w \in 0..(2 * Size - 1) /\ Size - 1 - w + r \in 0..(2 * Size - 1)
  BY PipeAssumption DEF Offsets
<1>2. len = IF Size - r + w < Size THEN Size - r + w ELSE Size - r + w - Size
  BY <1>1, WrapsOnce, PipeAssumption DEF len, Offsets
<1>3. avail = IF Size - 1 - w + r < Size THEN Size - 1 - w + r
              ELSE Size - 1 - w + r - Size
  BY <1>1, WrapsOnce, PipeAssumption DEF avail, Offsets
<1>4. QED BY <1>2, <1>3, PipeAssumption DEF Offsets

(* An offset stays in the storage when it is advanced, and it wraps at     *)
(* most once when it is advanced by at most the size of the ring.          *)
LEMMA AdvanceInOffsets ==
  \A a, n \in Int : Advance(a, n) \in Offsets
BY PipeAssumption DEF Offsets, Advance

LEMMA AdvanceCases ==
  ASSUME NEW a \in Offsets, NEW n \in 0..Size
  PROVE  Advance(a, n) = IF a + n < Size THEN a + n ELSE a + n - Size
<1> DEFINE b == a + n
<1>1. b \in 0..(2 * Size - 1) BY PipeAssumption DEF Offsets
<1>2. Advance(a, n) = b % Size BY DEF Advance
<1>3. b = a + n OBVIOUS
<1> HIDE DEF b
<1>4. b % Size = IF b < Size THEN b ELSE b - Size BY <1>1, WrapsOnce
<1>5. QED BY <1>2, <1>3, <1>4, PipeAssumption DEF Offsets

(* A copy into the ring of no more bytes than it can hold writes bytes     *)
(* inside the storage and nowhere else.                                    *)
LEMMA CopyInType ==
  ASSUME TypeOK, NEW data \in Seq(Byte), Len(data) =< avail
  PROVE  CopyIn(data) \in [Offsets -> Byte]
<1> DEFINE chunkend == Smaller(Len(data), Size - w)
<1>1. Len(data) \in Nat /\ Len(data) < Size
  BY LenCases, PipeAssumption DEF TypeOK
<1>2. w \in Offsets /\ storage \in [Offsets -> Byte] BY DEF TypeOK
<1>3. chunkend \in 0..Len(data) BY <1>1, <1>2, PipeAssumption DEF Smaller, Offsets
<1>4. ASSUME NEW i \in Offsets
      PROVE  (IF i >= w /\ i < w + chunkend THEN data[i - w + 1]
              ELSE IF i < Len(data) - chunkend THEN data[chunkend + i + 1]
              ELSE storage[i]) \in Byte
  <2>1. CASE i >= w /\ i < w + chunkend
    <3>1. i - w + 1 \in 1..Len(data) BY <2>1, <1>1, <1>2, <1>3, PipeAssumption DEF Offsets
    <3>2. QED BY <2>1, <3>1
  <2>2. CASE ~(i >= w /\ i < w + chunkend) /\ i < Len(data) - chunkend
    <3>1. chunkend + i + 1 \in 1..Len(data) BY <2>2, <1>1, <1>3, PipeAssumption DEF Offsets
    <3>2. QED BY <2>2, <3>1
  <2>3. CASE ~(i >= w /\ i < w + chunkend) /\ ~(i < Len(data) - chunkend)
    BY <2>3, <1>2
  <2>4. QED BY <2>1, <2>2, <2>3
<1>5. QED BY <1>4 DEF CopyIn

(* A copy out of the ring is a sequence of the bytes asked for. *)
LEMMA CopyOutType ==
  ASSUME TypeOK, NEW n \in 0..len
  PROVE  /\ CopyOut(n) \in Seq(Byte)
         /\ Len(CopyOut(n)) = n
         /\ \A k \in 1..n : CopyOut(n)[k] = storage[Advance(r, k - 1)]
<1> DEFINE chunkend == Smaller(n, Size - r)
<1>1. /\ n \in 0..Size-1
      /\ r \in Offsets
      /\ storage \in [Offsets -> Byte]
  BY LenCases, PipeAssumption DEF TypeOK
<1>2. chunkend = IF n =< Size - r THEN n ELSE Size - r
  BY DEF Smaller
<1>3. ASSUME NEW k \in 1..n
      PROVE  /\ Advance(r, k - 1) \in Offsets
             /\ (IF k =< chunkend THEN storage[r + k - 1] ELSE storage[k - chunkend - 1])
                  = storage[Advance(r, k - 1)]
  <2>1. k - 1 \in 0..Size /\ r \in Int /\ k \in Int
    BY <1>1, PipeAssumption DEF Offsets
  <2>2. Advance(r, k - 1) = IF r + (k - 1) < Size THEN r + (k - 1) ELSE r + (k - 1) - Size
    BY <1>1, <2>1, AdvanceCases
  <2>3. k =< chunkend <=> r + k - 1 < Size
    BY <1>1, <1>2, PipeAssumption DEF Offsets
  <2>4. k > chunkend => k - chunkend - 1 = r + k - 1 - Size
    BY <1>1, <1>2, PipeAssumption DEF Offsets
  <2>5. Advance(r, k - 1) \in Offsets
    BY <2>1, AdvanceInOffsets
  <2>6. chunkend \in Int BY <1>1, <1>2, PipeAssumption DEF Offsets
  <2>7. CASE k =< chunkend BY <2>7, <2>2, <2>3, <2>5
  <2>8. CASE k > chunkend BY <2>8, <2>2, <2>3, <2>4, <2>5, <2>6
  <2>9. QED BY <2>6, <2>7, <2>8
<1>4. CopyOut(n) = [k \in 1..n |-> storage[Advance(r, k - 1)]]
  BY <1>3 DEF CopyOut
<1>5. \A k \in 1..n : storage[Advance(r, k - 1)] \in Byte
  BY <1>1, <1>3
<1>6. QED BY <1>4, <1>5, <1>1

(* A prefix of a sequence of bytes is one, of the length asked for. *)
LEMMA PrefixType ==
  ASSUME NEW s \in Seq(Byte), NEW n \in 0..Len(s)
  PROVE  SubSeq(s, 1, n) \in Seq(Byte) /\ Len(SubSeq(s, 1, n)) = n
OBVIOUS

(* What an operation reports to its caller has the type of last. *)
LEMMA ResultType ==
  \A op \in Ops, ret \in Int, data \in Seq(Byte) :
    [op |-> op, ret |-> ret, data |-> data]
      \in [op : Ops, ret : Int, data : Seq(Byte)]
OBVIOUS

LEMMA NoRefType == NoRef \in [at : Offsets, bytes : Seq(Byte)]
BY PipeAssumption DEF NoRef, Offsets

(* Every operation keeps the offsets inside the storage. *)
LEMMA TypeOKStep == TypeOK /\ [Next]_vars => TypeOK'
<1> SUFFICES ASSUME TypeOK, [Next]_vars PROVE TypeOK'
  OBVIOUS
<1> USE DEF Returned
<1>1. /\ storage \in [Offsets -> Byte]
      /\ w \in Offsets /\ w \in Int
      /\ r \in Offsets /\ r \in Int
      /\ len \in 0..Size-1
      /\ avail \in 0..Size-1
      /\ Size \in Nat \ {0}
  BY LenCases, PipeAssumption DEF TypeOK, Offsets
<1>2. ASSUME NEW n \in Requests, NEW data \in [1..n -> Byte], write(data)
      PROVE  TypeOK'
  <2> DEFINE nbyte == Smaller(Len(data), avail)
             moved == SubSeq(data, 1, nbyte)
  <2>1. n \in Nat /\ data \in Seq(Byte) /\ Len(data) = n
    BY PipeAssumption
  <2>2. nbyte \in 0..Len(data) /\ nbyte =< avail /\ nbyte \in Int
    BY <2>1, <1>1 DEF Smaller
  <2>3. moved \in Seq(Byte) /\ Len(moved) = nbyte BY <2>1, <2>2, PrefixType
  <2>4. CopyIn(moved) \in [Offsets -> Byte] BY <2>2, <2>3, CopyInType
  <2>5. Advance(w, nbyte) \in Offsets BY <2>2, <1>1, AdvanceInOffsets
  <2>6. /\ storage' = CopyIn(moved)
        /\ w' = Advance(w, nbyte)
        /\ r' = r
        /\ ref' = NoRef
        /\ last' = [op |-> "write", ret |-> nbyte, data |-> moved]
    BY <1>2 DEF write
  <2> HIDE DEF nbyte, moved
  <2>7. last' \in [op : Ops, ret : Int, data : Seq(Byte)]
    BY <2>2, <2>3, <2>6, ResultType DEF Ops
  <2>8. QED BY <2>4, <2>5, <2>6, <2>7, <1>1, NoRefType DEF TypeOK
<1>3. ASSUME NEW c \in Byte, writec(c) PROVE TypeOK'
  <2>1. Advance(w, 1) \in Offsets BY <1>1, AdvanceInOffsets
  <2>2. <<c>> \in Seq(Byte) /\ << >> \in Seq(Byte) OBVIOUS
  <2>3. last' \in [op : Ops, ret : Int, data : Seq(Byte)]
    <3>1. CASE last' = [op |-> "writec", ret |-> 0, data |-> << >>]
      BY <3>1, <2>2, ResultType DEF Ops
    <3>2. CASE last' = [op |-> "writec", ret |-> 1, data |-> <<c>>]
      BY <3>2, <2>2, ResultType DEF Ops
    <3>3. QED BY <1>3, <3>1, <3>2 DEF writec
  <2>4. storage' \in [Offsets -> Byte] BY <1>3, <1>1 DEF writec
  <2>5. QED BY <1>3, <2>1, <2>3, <2>4, <1>1 DEF writec, TypeOK
<1>4. ASSUME NEW n \in Requests, readFromFD(n) PROVE TypeOK'
  <2> DEFINE nbyte == Smaller(n, avail)
  <2>1. n \in Nat /\ nbyte \in Nat /\ nbyte =< avail
    BY PipeAssumption, <1>1 DEF Smaller
  <2>2. PICK got \in 0..nbyte : \E data \in [1..got -> Byte] :
          /\ storage' = CopyIn(data)
          /\ \/ /\ w' = Advance(w, got)
                /\ last' = [op |-> "readFromFD", ret |-> got, data |-> data]
             \/ /\ w' = w
                /\ last' = [op |-> "readFromFD", ret |-> -1, data |-> data]
          /\ UNCHANGED <<r, ref>>
    BY <1>4 DEF readFromFD
  <2>3. PICK data \in [1..got -> Byte] :
          /\ storage' = CopyIn(data)
          /\ \/ /\ w' = Advance(w, got)
                /\ last' = [op |-> "readFromFD", ret |-> got, data |-> data]
             \/ /\ w' = w
                /\ last' = [op |-> "readFromFD", ret |-> -1, data |-> data]
          /\ UNCHANGED <<r, ref>>
    BY <2>2
  <2>4. data \in Seq(Byte) /\ Len(data) = got BY <2>1
  <2>5. Len(data) =< avail BY <2>1, <2>4, <1>1
  <2>6. CopyIn(data) \in [Offsets -> Byte] BY <2>4, <2>5, CopyInType
  <2>7. got \in Int BY <2>1
  <2> HIDE DEF nbyte
  <2>8. Advance(w, got) \in Offsets BY <2>7, <1>1, AdvanceInOffsets
  <2>9. last' \in [op : Ops, ret : Int, data : Seq(Byte)]
    BY <2>3, <2>4, <2>7, ResultType DEF Ops
  <2>10. QED BY <2>3, <2>6, <2>8, <2>9, <1>1 DEF TypeOK
<1>5. ASSUME NEW n \in Requests, read(n) \/ discard(n) PROVE TypeOK'
  <2> DEFINE nbyte == Smaller(n, len)
  <2>1. nbyte \in 0..len /\ nbyte \in Int BY PipeAssumption, <1>1 DEF Smaller
  <2>2. /\ r' = Advance(r, nbyte)
        /\ \/ last' = [op |-> "read", ret |-> nbyte, data |-> CopyOut(nbyte)]
           \/ last' = [op |-> "discard", ret |-> nbyte, data |-> << >>]
        /\ UNCHANGED <<storage, w, ref>>
    BY <1>5 DEF read, discard
  <2> HIDE DEF nbyte
  <2>3. Advance(r, nbyte) \in Offsets BY <2>1, <1>1, AdvanceInOffsets
  <2>4. CopyOut(nbyte) \in Seq(Byte) /\ << >> \in Seq(Byte) BY <2>1, CopyOutType
  <2>5. last' \in [op : Ops, ret : Int, data : Seq(Byte)]
    <3>1. CASE last' = [op |-> "read", ret |-> nbyte, data |-> CopyOut(nbyte)]
      BY <3>1, <2>1, <2>4, ResultType DEF Ops
    <3>2. CASE last' = [op |-> "discard", ret |-> nbyte, data |-> << >>]
      BY <3>2, <2>1, <2>4, ResultType DEF Ops
    <3>3. QED BY <2>2, <3>1, <3>2
  <2>6. QED BY <2>2, <2>3, <2>5, <1>1 DEF TypeOK
<1>6. ASSUME NEW n \in Requests, writeToFD(n) PROVE TypeOK'
  <2> DEFINE nbyte == Smaller(n, len)
  <2>1. nbyte \in 0..len /\ nbyte \in Int BY PipeAssumption, <1>1 DEF Smaller
  <2>2. PICK put \in 0..nbyte :
          /\ r' = Advance(r, nbyte) \/ r' = r
          /\ \/ last' = [op |-> "writeToFD", ret |-> put, data |-> CopyOut(put)]
             \/ last' = [op |-> "writeToFD", ret |-> -1, data |-> CopyOut(put)]
          /\ UNCHANGED <<storage, w, ref>>
    BY <1>6 DEF writeToFD
  <2> HIDE DEF nbyte
  <2>3. put \in 0..len /\ put \in Int BY <2>1, <2>2, <1>1
  <2>4. CopyOut(put) \in Seq(Byte) BY <2>3, CopyOutType
  <2>5. Advance(r, nbyte) \in Offsets BY <2>1, <1>1, AdvanceInOffsets
  <2>6. last' \in [op : Ops, ret : Int, data : Seq(Byte)]
    BY <2>2, <2>3, <2>4, ResultType DEF Ops
  <2>7. QED BY <2>2, <2>5, <2>6, <1>1 DEF TypeOK
<1>7. ASSUME NEW n \in Requests, takeRef(n) PROVE TypeOK'
  <2> DEFINE nbyte == Smaller(n, len)
  <2>1. nbyte \in 0..len /\ nbyte \in Int BY PipeAssumption, <1>1 DEF Smaller
  <2>2. /\ \/ /\ ref' = [at |-> r, bytes |-> CopyOut(nbyte)]
              /\ r' = Advance(r, nbyte)
              /\ last' = [op |-> "takeRef", ret |-> nbyte, data |-> CopyOut(nbyte)]
           \/ /\ UNCHANGED <<r, ref>>
              /\ last' = [op |-> "takeRef", ret |-> -1, data |-> << >>]
        /\ UNCHANGED <<storage, w>>
    BY <1>7 DEF takeRef
  <2> HIDE DEF nbyte
  <2>3. Advance(r, nbyte) \in Offsets BY <2>1, <1>1, AdvanceInOffsets
  <2>4. CopyOut(nbyte) \in Seq(Byte) /\ << >> \in Seq(Byte) BY <2>1, CopyOutType
  <2>5. last' \in [op : Ops, ret : Int, data : Seq(Byte)]
    <3>1. CASE last' = [op |-> "takeRef", ret |-> nbyte, data |-> CopyOut(nbyte)]
      BY <3>1, <2>1, <2>4, ResultType DEF Ops
    <3>2. CASE last' = [op |-> "takeRef", ret |-> -1, data |-> << >>]
      BY <3>2, <2>4, ResultType DEF Ops
    <3>3. QED BY <2>2, <3>1, <3>2
  <2>6. ref' \in [at : Offsets, bytes : Seq(Byte)]
    BY <2>2, <2>4, <1>1 DEF TypeOK
  <2>7. QED BY <2>2, <2>3, <2>5, <2>6, <1>1 DEF TypeOK
<1>8. CASE clear
  <2>1. 0 \in Offsets BY <1>1 DEF Offsets
  <2>2. [op |-> "clear", ret |-> 0, data |-> << >>]
          \in [op : Ops, ret : Int, data : Seq(Byte)]
    BY ResultType DEF Ops
  <2>3. QED BY <1>8, <2>1, <2>2, <1>1, NoRefType DEF clear, TypeOK
<1>9. CASE UNCHANGED vars BY <1>9 DEF vars, TypeOK
<1>10. QED BY <1>2, <1>3, <1>4, <1>5, <1>6, <1>7, <1>8, <1>9 DEF Next

LEMMA TypeOKInit == Init => TypeOK
<1>1. 0 \in Offsets BY PipeAssumption DEF Offsets
<1>2. [op |-> "init", ret |-> 0, data |-> << >>]
        \in [op : Ops, ret : Int, data : Seq(Byte)]
  BY ResultType DEF Ops
<1>3. QED BY <1>1, <1>2, NoRefType DEF Init, TypeOK

(* The type invariant, for a ring of any size: no sequence of operations   *)
(* moves an offset out of the storage.                                     *)
THEOREM TypeCorrect == Spec => []TypeOK
BY TypeOKInit, TypeOKStep, PTL DEF Spec
-----------------------------------------------------------------------------
(* The bytes that wait, as a sequence. *)
LEMMA ContentType ==
  ASSUME TypeOK
  PROVE  /\ content \in Seq(Byte)
         /\ Len(content) = len
         /\ \A k \in 1..len : content[k] = storage[Advance(r, k - 1)]
<1>1. len \in 0..Size-1 /\ len \in 0..len BY LenCases, PipeAssumption DEF TypeOK
<1>2. content = CopyOut(len)
  <2>1. /\ CopyOut(len) \in Seq(Byte)
        /\ Len(CopyOut(len)) = len
        /\ \A k \in 1..len : CopyOut(len)[k] = storage[Advance(r, k - 1)]
    BY <1>1, CopyOutType
  <2>2. CopyOut(len) = [k \in 1..len |-> CopyOut(len)[k]] BY <2>1, <1>1
  <2>3. QED BY <2>1, <2>2 DEF content
<1>3. QED BY <1>1, <1>2, CopyOutType

(* What is copied out is the oldest bytes. *)
LEMMA CopyOutIsFirst ==
  ASSUME TypeOK, NEW n \in 0..len
  PROVE  CopyOut(n) = SubSeq(content, 1, n)
<1>1. len \in 0..Size-1 BY LenCases, PipeAssumption DEF TypeOK
<1>2. /\ CopyOut(n) \in Seq(Byte) /\ Len(CopyOut(n)) = n
      /\ \A k \in 1..n : CopyOut(n)[k] = storage[Advance(r, k - 1)]
  BY CopyOutType
<1>3. /\ content \in Seq(Byte) /\ Len(content) = len
      /\ \A k \in 1..len : content[k] = storage[Advance(r, k - 1)]
  BY ContentType
<1>4. SubSeq(content, 1, n) \in Seq(Byte) /\ Len(SubSeq(content, 1, n)) = n
  BY <1>1, <1>3
<1>5. \A k \in 1..n : SubSeq(content, 1, n)[k] = content[k]
  BY <1>1, <1>3
<1>6. \A k \in 1..n : k \in 1..len BY <1>1
<1>7. QED BY <1>2, <1>3, <1>4, <1>5, <1>6, SeqEqual

(* Bytes copied in go behind those that wait, which stay as they are: the  *)
(* copy touches none of them, on either side of the wrap.                  *)
LEMMA CopyInAppends ==
  ASSUME TypeOK, NEW data \in Seq(Byte), Len(data) =< avail
  PROVE  \A k \in 1..(len + Len(data)) :
           /\ Advance(r, k - 1) \in Offsets
           /\ CopyIn(data)[Advance(r, k - 1)] =
                IF k =< len THEN storage[Advance(r, k - 1)] ELSE data[k - len]
<1> DEFINE n == Len(data)
           c == Smaller(n, Size - w)
<1>1. /\ w \in 0..Size-1 /\ r \in 0..Size-1
      /\ n \in Nat /\ len \in Nat
      /\ len = IF w >= r THEN w - r ELSE Size - r + w
      /\ len + n =< Size - 1
  BY LenCases, PipeAssumption DEF TypeOK, Offsets
<1>2. c = (IF n =< Size - w THEN n ELSE Size - w) /\ c \in Int
  BY <1>1, PipeAssumption DEF Smaller
<1> SUFFICES ASSUME NEW k \in 1..(len + n)
             PROVE  /\ Advance(r, k - 1) \in Offsets
                    /\ CopyIn(data)[Advance(r, k - 1)] =
                         IF k =< len THEN storage[Advance(r, k - 1)] ELSE data[k - len]
  OBVIOUS
<1> DEFINE i == Advance(r, k - 1)
<1>3. k \in Int /\ k - 1 \in 0..Size BY <1>1, PipeAssumption
<1>4. i = (IF r + (k - 1) < Size THEN r + (k - 1) ELSE r + (k - 1) - Size)
  BY <1>1, <1>3, AdvanceCases DEF Offsets
<1>5. i \in Offsets BY <1>1, <1>3, AdvanceInOffsets
<1>6. i \in Int BY <1>5, PipeAssumption DEF Offsets
<1>7. CopyIn(data)[i] = IF i >= w /\ i < w + c THEN data[i - w + 1]
                        ELSE IF i < n - c THEN data[c + i + 1]
                        ELSE storage[i]
  BY <1>5 DEF CopyIn
<1> HIDE DEF n, c, i
<1>8. LET first == i >= w /\ i < w + c
          second == i < n - c
      IN /\ k =< len => ~first /\ ~second
         /\ k > len => \/ first /\ i - w + 1 = k - len
                       \/ ~first /\ second /\ c + i + 1 = k - len
  BY <1>1, <1>2, <1>3, <1>4, <1>6, PipeAssumption
<1>9. CASE k =< len BY <1>5, <1>7, <1>8, <1>9 DEF i
<1>10. CASE k > len
  <2>1. ~(k =< len) BY <1>1, <1>3, <1>10
  <2>2. CopyIn(data)[i] = data[k - len] BY <1>7, <1>8, <1>10
  <2>3. QED BY <1>5, <2>1, <2>2 DEF i
<1>11. QED BY <1>1, <1>3, <1>9, <1>10

(* LenCases for the state after a step. *)
LEMMA NextLenCases ==
  ASSUME TypeOK'
  PROVE  len' = IF w' >= r' THEN w' - r' ELSE Size - r' + w'
<1>1. \A a, b \in Offsets : (Size - a + b) % Size = IF b >= a THEN b - a ELSE Size - a + b
  <2>1. SUFFICES ASSUME NEW a \in Offsets, NEW b \in Offsets
                 PROVE  (Size - a + b) % Size = IF b >= a THEN b - a ELSE Size - a + b
    OBVIOUS
  <2> DEFINE c == Size - a + b
  <2>2. c \in 0..(2 * Size - 1) /\ (c < Size <=> b < a) /\ c - Size = b - a
    BY PipeAssumption DEF Offsets
  <2>3. (IF c < Size THEN c ELSE c - Size) = IF b >= a THEN b - a ELSE Size - a + b
    BY PipeAssumption DEF Offsets
  <2> HIDE DEF c
  <2>4. c % Size = IF c < Size THEN c ELSE c - Size BY <2>2, WrapsOnce
  <2>5. c % Size = IF b >= a THEN b - a ELSE Size - a + b BY <2>3, <2>4, Zenon
  <2>6. QED BY <2>5, Zenon DEF c
<1>2. w' \in Offsets /\ r' \in Offsets BY DEF TypeOK
<1>3. QED BY <1>1, <1>2 DEF len

(* When the write offset is moved over bytes copied in behind those that   *)
(* wait, these bytes wait too.                                             *)
LEMMA ContentAfterWrite ==
  ASSUME TypeOK, TypeOK', NEW data \in Seq(Byte), Len(data) =< avail,
         storage' = CopyIn(data), w' = Advance(w, Len(data)), r' = r
  PROVE  content' = content \o data
<1> DEFINE n == Len(data)
<1>1. /\ w \in 0..Size-1 /\ r \in 0..Size-1 /\ w \in Offsets
      /\ n \in Nat /\ len \in Nat
      /\ len = IF w >= r THEN w - r ELSE Size - r + w
      /\ len + n =< Size - 1
  BY LenCases, PipeAssumption DEF TypeOK, Offsets
<1>2. len' = len + n
  <2>1. w' = IF w + n < Size THEN w + n ELSE w + n - Size
    BY <1>1, AdvanceCases, PipeAssumption
  <2>2. QED BY <1>1, <2>1, NextLenCases, PipeAssumption
<1>3. /\ content \in Seq(Byte) /\ Len(content) = len
      /\ \A k \in 1..len : content[k] = storage[Advance(r, k - 1)]
  BY ContentType
<1>4. /\ CopyIn(data) \in [Offsets -> Byte]
      /\ \A k \in 1..(len + n) :
           /\ Advance(r, k - 1) \in Offsets
           /\ CopyIn(data)[Advance(r, k - 1)] =
                IF k =< len THEN storage[Advance(r, k - 1)] ELSE data[k - len]
  BY CopyInAppends, CopyInType
<1>5. content' = [k \in 1..(len + n) |-> CopyIn(data)[Advance(r, k - 1)]]
  BY <1>2 DEF content
<1>6. content \o data \in Seq(Byte) /\ Len(content \o data) = len + n
      /\ \A k \in 1..(len + n) :
           (content \o data)[k] = IF k =< len THEN content[k] ELSE data[k - len]
  BY <1>3, ConcatProperties
<1> HIDE DEF n
<1>7. content' \in Seq(Byte) /\ Len(content') = len + n
  <2>1. len + n \in Nat BY <1>1
  <2>2. \A k \in 1..(len + n) : CopyIn(data)[Advance(r, k - 1)] \in Byte
    BY <1>4
  <2> HIDE DEF content
  <2>3. QED BY <1>5, <2>1, <2>2
<1>8. \A k \in 1..(len + n) : content'[k] = (content \o data)[k]
  <2>1. ASSUME NEW k \in 1..(len + n) PROVE content'[k] = (content \o data)[k]
    <3>1. k =< len => k \in 1..len BY <1>1
    <3>2. content'[k] = IF k =< len THEN storage[Advance(r, k - 1)] ELSE data[k - len]
      BY <1>4, <1>5
    <3>3. QED BY <1>3, <1>6, <3>1, <3>2
  <2>2. QED BY <2>1
<1>9. QED BY <1>6, <1>7, <1>8, SeqEqual

(* When the read offset is moved over n of the bytes that wait, the others *)
(* remain.                                                                 *)
LEMMA ContentAfterRead ==
  ASSUME TypeOK, TypeOK', NEW n \in 0..len,
         storage' = storage, w' = w, r' = Advance(r, n)
  PROVE  content' = SubSeq(content, n + 1, Len(content))
<1>1. /\ w \in 0..Size-1 /\ r \in 0..Size-1 /\ r \in Offsets
      /\ n \in Nat /\ len \in Nat /\ n =< len /\ len =< Size - 1
      /\ len = IF w >= r THEN w - r ELSE Size - r + w
  BY LenCases, PipeAssumption DEF TypeOK, Offsets
<1>2. r' = IF r + n < Size THEN r + n ELSE r + n - Size
  BY <1>1, AdvanceCases, PipeAssumption
<1>3. len' = len - n BY <1>1, <1>2, NextLenCases, PipeAssumption
<1>4. /\ content \in Seq(Byte) /\ Len(content) = len
      /\ \A k \in 1..len : content[k] = storage[Advance(r, k - 1)]
  BY ContentType
<1>5. content' = [k \in 1..(len - n) |-> storage[Advance(r', k - 1)]]
  BY <1>3 DEF content
<1>6. ASSUME NEW k \in 1..(len - n)
      PROVE  storage[Advance(r', k - 1)] = content[n + k]
  <2>1. /\ k - 1 \in 0..Size /\ n + k - 1 \in 0..Size /\ n + k \in 1..len
        /\ k \in Int
    BY <1>1, PipeAssumption
  <2>2. r' \in Offsets BY DEF TypeOK
  <2>3. Advance(r', k - 1) = IF r' + (k - 1) < Size THEN r' + (k - 1)
                             ELSE r' + (k - 1) - Size
    BY <2>1, <2>2, AdvanceCases
  <2>4. Advance(r, n + k - 1) = IF r + (n + k - 1) < Size THEN r + (n + k - 1)
                                ELSE r + (n + k - 1) - Size
    BY <1>1, <2>1, AdvanceCases
  <2>5. Advance(r', k - 1) = Advance(r, n + k - 1)
    BY <1>1, <1>2, <2>1, <2>3, <2>4, PipeAssumption
  <2>6. QED BY <1>4, <2>1, <2>5
<1>7. SubSeq(content, n + 1, len) = [k \in 1..(len - n) |-> content[n + k]]
  BY <1>1, <1>4
<1>8. QED BY <1>4, <1>5, <1>6, <1>7

(* Nothing is seen to change as long as the bytes that wait, and their     *)
(* places, stay as they are.                                               *)
LEMMA ContentUnchanged ==
  ASSUME UNCHANGED <<storage, w, r>>
  PROVE  content' = content
BY DEF content, len

(* A file read that fails half way has copied bytes in where none wait.    *)
LEMMA ContentAfterFailedRead ==
  ASSUME TypeOK, NEW data \in Seq(Byte), Len(data) =< avail,
         storage' = CopyIn(data), w' = w, r' = r
  PROVE  content' = content
<1>1. len' = len BY DEF len
<1>2. len \in Nat BY LenCases, PipeAssumption DEF TypeOK
<1>3. \A k \in 1..len : storage'[Advance(r, k - 1)] = storage[Advance(r, k - 1)]
  <2>1. \A k \in 1..len : k \in 1..(len + Len(data)) /\ k =< len BY <1>2
  <2>2. QED BY <2>1, CopyInAppends
<1>4. QED BY <1>1, <1>3 DEF content

(* A single byte is a copy of one. *)
LEMMA CopyInOne ==
  ASSUME TypeOK, NEW c \in Byte
  PROVE  [storage EXCEPT ![w] = c] = CopyIn(<<c>>)
<1>1. w \in 0..Size-1 /\ storage \in [Offsets -> Byte] BY DEF TypeOK, Offsets
<1>2. Smaller(Len(<<c>>), Size - w) = 1 BY <1>1, PipeAssumption DEF Smaller
<1>3. \A i \in Offsets :
        (IF i >= w /\ i < w + 1 THEN <<c>>[i - w + 1]
         ELSE IF i < Len(<<c>>) - 1 THEN <<c>>[1 + i + 1] ELSE storage[i])
        = (IF i = w THEN c ELSE storage[i])
  <2>1. ASSUME NEW i \in Offsets
        PROVE  (IF i >= w /\ i < w + 1 THEN <<c>>[i - w + 1]
                ELSE IF i < Len(<<c>>) - 1 THEN <<c>>[1 + i + 1] ELSE storage[i])
               = (IF i = w THEN c ELSE storage[i])
    <3>1. i \in Int /\ i >= 0 BY PipeAssumption DEF Offsets
    <3>2. (i >= w /\ i < w + 1) <=> i = w BY <1>1, <3>1
    <3>3. ~(i < Len(<<c>>) - 1) BY <3>1
    <3>4. i = w => i - w + 1 = 1 BY <3>1
    <3>5. QED BY <3>2, <3>3, <3>4
  <2>2. QED BY <2>1
<1>4. QED BY <1>1, <1>2, <1>3 DEF CopyIn

(* Every operation of the ring does to the bytes that wait what the FIFO's *)
(* operation of that name does, and returns the same.                      *)
LEMMA FifoStep == TypeOK /\ TypeOK' /\ [Next]_vars => [Fifo!Next]_(Fifo!vars)
<1> SUFFICES ASSUME TypeOK, TypeOK', [Next]_vars PROVE Fifo!Next \/ UNCHANGED Fifo!vars
  OBVIOUS
<1> USE DEF Returned, Fifo!Returned
<1>1. /\ content \in Seq(Byte) /\ Len(content) = len
      /\ len \in 0..Size-1 /\ avail \in 0..Size-1 /\ Size \in Nat \ {0}
      /\ avail = cap - len
      /\ Fifo!Free = avail
  BY ContentType, LenCases, PipeAssumption DEF TypeOK, cap, Fifo!Free
<1>2. \A a, b : Fifo!Smaller(a, b) = Smaller(a, b) BY DEF Smaller, Fifo!Smaller
<1>3. \A n \in Requests : n \in Nat /\ Smaller(n, len) \in 0..len
  BY <1>1, PipeAssumption DEF Smaller
<1>4. \A n \in 0..len : CopyOut(n) = Fifo!First(n)
  BY CopyOutIsFirst DEF Fifo!First
<1>5. ASSUME NEW n \in 0..len, storage' = storage, w' = w, r' = Advance(r, n)
      PROVE  content' = Fifo!Rest(n)
  BY <1>5, ContentAfterRead DEF Fifo!Rest
<1>6. ASSUME NEW n \in Requests, NEW data \in [1..n -> Byte], write(data)
      PROVE  Fifo!Write(data)
  <2> DEFINE nbyte == Smaller(Len(data), avail)
             moved == SubSeq(data, 1, nbyte)
  <2>1. n \in Nat /\ data \in Seq(Byte) /\ Len(data) = n BY PipeAssumption
  <2>2. nbyte \in 0..Len(data) /\ nbyte =< avail BY <2>1, <1>1 DEF Smaller
  <2>3. moved \in Seq(Byte) /\ Len(moved) = nbyte BY <2>1, <2>2, PrefixType
  <2>4. /\ storage' = CopyIn(moved) /\ w' = Advance(w, nbyte) /\ r' = r
        /\ last' = [op |-> "write", ret |-> nbyte, data |-> moved]
    BY <1>6 DEF write
  <2>5. Fifo!Smaller(Len(data), Fifo!Free) = nbyte BY <1>1, <1>2
  <2> HIDE DEF nbyte, moved
  <2>6. content' = content \o moved BY <2>2, <2>3, <2>4, ContentAfterWrite
  <2>7. QED BY <2>4, <2>5, <2>6 DEF Fifo!Write, moved
<1>7. ASSUME NEW c \in Byte, writec(c) PROVE Fifo!Writec(c)
  <2>1. CASE avail = 0
    <3>1. content' = content BY <1>7, <2>1, ContentUnchanged DEF writec
    <3>2. QED BY <1>1, <1>7, <2>1, <3>1 DEF writec, Fifo!Writec
  <2>2. CASE avail # 0
    <3>1. <<c>> \in Seq(Byte) /\ Len(<<c>>) = 1 /\ Len(<<c>>) =< avail
      BY <1>1, <2>2
    <3>2. storage' = CopyIn(<<c>>) /\ w' = Advance(w, Len(<<c>>)) /\ r' = r
      BY <1>7, <2>2, <3>1, CopyInOne DEF writec
    <3>3. content' = content \o <<c>> BY <3>1, <3>2, ContentAfterWrite
    <3>4. content \o <<c>> = Append(content, c) BY <1>1
    <3>5. QED BY <1>1, <1>7, <2>2, <3>3, <3>4 DEF writec, Fifo!Writec
  <2>3. QED BY <2>1, <2>2
<1>8. ASSUME NEW n \in Requests, readFromFD(n) PROVE Fifo!ReadFromFD(n)
  <2> DEFINE nbyte == Smaller(n, avail)
  <2>1. nbyte \in Nat /\ nbyte =< avail BY <1>1, <1>3 DEF Smaller
  <2>2. PICK got \in 0..nbyte : \E data \in [1..got -> Byte] :
          /\ storage' = CopyIn(data)
          /\ \/ /\ w' = Advance(w, got)
                /\ last' = [op |-> "readFromFD", ret |-> got, data |-> data]
             \/ /\ w' = w
                /\ last' = [op |-> "readFromFD", ret |-> -1, data |-> data]
          /\ r' = r
    BY <1>8 DEF readFromFD
  <2>3. PICK data \in [1..got -> Byte] :
          /\ storage' = CopyIn(data)
          /\ \/ /\ w' = Advance(w, got)
                /\ last' = [op |-> "readFromFD", ret |-> got, data |-> data]
             \/ /\ w' = w
                /\ last' = [op |-> "readFromFD", ret |-> -1, data |-> data]
          /\ r' = r
    BY <2>2
  <2>4. data \in Seq(Byte) /\ Len(data) = got /\ Len(data) =< avail
    <3>1. got \in Nat /\ got =< avail BY <1>1, <2>1
    <3>2. QED BY <3>1
  <2>5. Fifo!Smaller(n, Fifo!Free) = nbyte BY <1>1, <1>2
  <2> HIDE DEF nbyte
  <2>6. w' = Advance(w, got) => content' = content \o data
    BY <2>3, <2>4, ContentAfterWrite
  <2>7. w' = w => content' = content
    BY <2>3, <2>4, ContentAfterFailedRead
  <2>8. \/ content' = content \o data /\ last' = [op |-> "readFromFD", ret |-> got, data |-> data]
        \/ content' = content /\ last' = [op |-> "readFromFD", ret |-> -1, data |-> data]
    BY <2>3, <2>6, <2>7
  <2>9. QED BY <2>5, <2>8 DEF Fifo!ReadFromFD
<1>9. ASSUME NEW n \in Requests, read(n) PROVE Fifo!Read(n)
  BY <1>1, <1>2, <1>3, <1>4, <1>5, <1>9 DEF read, Fifo!Read
<1>10. ASSUME NEW n \in Requests, discard(n) PROVE Fifo!Discard(n)
  BY <1>1, <1>2, <1>3, <1>5, <1>10 DEF discard, Fifo!Discard
<1>11. ASSUME NEW n \in Requests, takeRef(n) PROVE Fifo!TakeRef(n)
  <2> DEFINE nbyte == Smaller(n, len)
  <2>1. nbyte \in 0..len /\ Fifo!Smaller(n, Len(content)) = nbyte
    BY <1>1, <1>2, <1>3
  <2>2. \/ /\ r' = Advance(r, nbyte) /\ UNCHANGED <<storage, w>>
           /\ last' = [op |-> "takeRef", ret |-> nbyte, data |-> CopyOut(nbyte)]
        \/ /\ UNCHANGED <<storage, w, r>>
           /\ last' = [op |-> "takeRef", ret |-> -1, data |-> << >>]
    BY <1>11 DEF takeRef
  <2> HIDE DEF nbyte
  <2>3. QED BY <1>4, <1>5, <2>1, <2>2, ContentUnchanged DEF Fifo!TakeRef
<1>12. ASSUME NEW n \in Requests, writeToFD(n) PROVE Fifo!WriteToFD(n)
  <2> DEFINE nbyte == Smaller(n, len)
  <2>1. nbyte \in 0..len /\ Fifo!Smaller(n, Len(content)) = nbyte
    BY <1>1, <1>2, <1>3
  <2>2. PICK put \in 0..nbyte :
          /\ \/ /\ r' = Advance(r, nbyte)
                /\ last' = [op |-> "writeToFD", ret |-> put, data |-> CopyOut(put)]
             \/ /\ r' = r
                /\ last' = [op |-> "writeToFD", ret |-> -1, data |-> CopyOut(put)]
          /\ UNCHANGED <<storage, w>>
    BY <1>12 DEF writeToFD
  <2> HIDE DEF nbyte
  <2>3. put \in 0..len /\ CopyOut(put) = Fifo!First(put) BY <1>1, <1>4, <2>1
  <2>4. \/ /\ content' = Fifo!Rest(nbyte)
           /\ last' = [op |-> "writeToFD", ret |-> put, data |-> Fifo!First(put)]
        \/ /\ content' = content
           /\ last' = [op |-> "writeToFD", ret |-> -1, data |-> Fifo!First(put)]
    BY <1>5, <2>1, <2>2, <2>3, ContentUnchanged
  <2>5. QED BY <2>1, <2>4 DEF Fifo!WriteToFD
<1>13. CASE clear
  <2>1. w' = 0 /\ r' = 0 /\ last' = [op |-> "clear", ret |-> 0, data |-> << >>]
    BY <1>13 DEF clear
  <2>2. len' = 0 BY <2>1, NextLenCases
  <2>3. content' = << >> BY <2>2 DEF content
  <2>4. QED BY <2>1, <2>3 DEF Fifo!Clear, Fifo!Next
<1>14. CASE UNCHANGED vars
  BY <1>14, ContentUnchanged DEF vars, Fifo!vars
<1>15. QED
  BY <1>6, <1>7, <1>8, <1>9, <1>10, <1>11, <1>12, <1>13, <1>14 DEF Next, Fifo!Next

(* The ring of any size implements the FIFO of cap() bytes. *)
THEOREM RingIsFifo == Spec => ImplementsFifo
<1>1. Init => Fifo!Init
  <2> SUFFICES ASSUME Init PROVE Fifo!Init
    OBVIOUS
  <2>1. w \in Offsets /\ r \in Offsets /\ w = 0 /\ r = 0
    BY TypeOKInit DEF TypeOK, Init
  <2>2. len = 0 BY <2>1, LenCases, PipeAssumption
  <2>3. content = << >> BY <2>2 DEF content
  <2>4. QED BY <2>3 DEF Init, Fifo!Init
<1>2. QED BY <1>1, FifoStep, TypeCorrect, PTL DEF Spec, ImplementsFifo, Fifo!Spec
=============================================================================
