-------------------------------- MODULE Pipe --------------------------------
(***************************************************************************)
(* The circular read-write buffer Pipe<Size> of main/pipe.hh, at the level *)
(* of its storage: the byte array _storage, the offsets _w and _r, and the *)
(* two-chunk copies every operation makes when it runs over the end of the *)
(* array.  The two file operations make up to two system calls each; a     *)
(* call may be short, or fail, on either of them.                          *)
(*                                                                         *)
(* ref is the memory the last successful takeRef returned, with the bytes  *)
(* that were in it, until the "next call to write() or clear()"; last is   *)
(* what the caller of the last operation saw (see ByteFifo, which this     *)
(* module implements).                                                     *)
(***************************************************************************)
EXTENDS Integers, Sequences

CONSTANTS Size,      \* template parameter: bytes in _storage
          Byte,      \* the values of a byte
          Requests   \* the byte counts callers ask for (nbyte)

(* Size < SIZE_MAX / 2 by the static_assert of pipe.hh, which keeps every  *)
(* size_t expression below exact; a ring of no bytes divides by zero.      *)
ASSUME PipeAssumption == /\ Size \in Nat \ {0}
                         /\ Requests \subseteq Nat

VARIABLES storage, w, r, ref, last

vars == <<storage, w, r, ref, last>>

Offsets == 0..Size-1
Ops == {"init", "write", "writec", "readFromFD", "read", "discard",
        "writeToFD", "takeRef", "clear"}
NoRef == [at |-> 0, bytes |-> << >>]

Smaller(a, b) == IF a =< b THEN a ELSE b
Returned(op, ret, data) == last' = [op |-> op, ret |-> ret, data |-> data]

cap == Size - 1
len == (Size - r + w) % Size
avail == (Size - 1 - w + r) % Size

AdvanceNoWrap(offset, n) == offset + n  \* mutant: % Size forgotten
Advance(offset, n) == (offset + n) % Size

CopyInNoWrap(data) ==  \* mutant: the second memcpy is missing
  [i \in Offsets |-> IF i >= w /\ i < w + Smaller(Len(data), Size - w)
                     THEN data[i - w + 1] ELSE storage[i]]

(* The storage after data has been copied in at _w: up to the end of the   *)
(* array first, then from its beginning.                                   *)
CopyIn(data) ==
  LET chunkend == Smaller(Len(data), Size - w)
  IN [i \in Offsets |->
        IF i >= w /\ i < w + chunkend THEN data[i - w + 1]
        ELSE IF i < Len(data) - chunkend THEN data[chunkend + i + 1]
        ELSE storage[i]]

(* The n bytes copied out from _r, in the same two chunks. *)
CopyOut(n) ==
  LET chunkend == Smaller(n, Size - r)
  IN [k \in 1..n |-> IF k =< chunkend THEN storage[r + k - 1]
                     ELSE storage[k - chunkend - 1]]

(* _storage is not initialised by the constructor. *)
Init == /\ storage \in [Offsets -> Byte]
        /\ w = 0
        /\ r = 0
        /\ ref = NoRef
        /\ last = [op |-> "init", ret |-> 0, data |-> << >>]

write(data) ==
  LET nbyte == Smaller(Len(data), avail)
      moved == SubSeq(data, 1, nbyte)
  IN /\ storage' = CopyIn(moved)
     /\ w' = Advance(w, nbyte)
     /\ ref' = NoRef
     /\ Returned("write", nbyte, moved)
     /\ UNCHANGED r

writec(c) ==
  \/ /\ avail = 0
     /\ Returned("writec", 0, << >>)
     /\ UNCHANGED <<storage, w, r, ref>>
  \/ /\ avail # 0
     /\ storage' = [storage EXCEPT ![w] = c]
     /\ w' = Advance(w, 1)
     /\ Returned("writec", 1, <<c>>)
     /\ UNCHANGED <<r, ref>>

(* got bytes come out of the file altogether.  If no ::read failed they    *)
(* are accounted for in _w (a short first ::read skips the second).  If    *)
(* the first ::read fails nothing was read; if the second one fails the    *)
(* first chunk has been read into the storage, and -1 is returned all the  *)
(* same, with _w where it was.                                             *)
readFromFD(n) ==
  LET nbyte == Smaller(n, avail)
      chunkend == Smaller(nbyte, Size - w)
  IN \E got \in 0..nbyte : \E data \in [1..got -> Byte] :
       /\ storage' = CopyIn(data)
       /\ \/ /\ w' = Advance(w, got)
             /\ Returned("readFromFD", got, data)
          \/ /\ got \in {0, chunkend} \ {nbyte}
             /\ w' = w
             /\ Returned("readFromFD", -1, data)
       /\ UNCHANGED <<r, ref>>

read(n) ==
  LET nbyte == Smaller(n, len)
  IN /\ r' = Advance(r, nbyte)
     /\ Returned("read", nbyte, CopyOut(nbyte))
     /\ UNCHANGED <<storage, w, ref>>

discard(n) ==
  LET nbyte == Smaller(n, len)
  IN /\ r' = Advance(r, nbyte)
     /\ Returned("discard", nbyte, << >>)
     /\ UNCHANGED <<storage, w, ref>>

(* put bytes reach the file altogether.  Unless a ::write failed, _r moves *)
(* by nbyte, however few bytes were put; after a failure it does not move, *)
(* although the first chunk may have been written.                         *)
writeToFD(n) ==
  LET nbyte == Smaller(n, len)
      chunkend == Smaller(nbyte, Size - r)
  IN \E put \in 0..nbyte :
       /\ \/ /\ r' = Advance(r, nbyte)
             /\ Returned("writeToFD", put, CopyOut(put))
          \/ /\ put \in {0, chunkend} \ {nbyte}
             /\ r' = r
             /\ Returned("writeToFD", -1, CopyOut(put))
       /\ UNCHANGED <<storage, w, ref>>

Contiguous(nbyte) == Smaller(nbyte, Size - r) >= nbyte

(* Only a contiguous run of bytes can be returned by reference. *)
takeRef(n) ==
  LET nbyte == Smaller(n, len)
  IN \/ /\ Contiguous(nbyte)
        /\ ref' = [at |-> r, bytes |-> CopyOut(nbyte)]
        /\ r' = Advance(r, nbyte)
        /\ Returned("takeRef", nbyte, CopyOut(nbyte))
        /\ UNCHANGED <<storage, w>>
     \/ /\ ~Contiguous(nbyte)
        /\ Returned("takeRef", -1, << >>)
        /\ UNCHANGED <<storage, w, r, ref>>

clear == /\ w' = 0
         /\ r' = 0
         /\ ref' = NoRef
         /\ Returned("clear", 0, << >>)
         /\ UNCHANGED storage

Next ==
  \/ \E n \in Requests : \E data \in [1..n -> Byte] : write(data)
  \/ \E c \in Byte : writec(c)
  \/ \E n \in Requests : readFromFD(n)
  \/ \E n \in Requests : read(n)
  \/ \E n \in Requests : discard(n)
  \/ \E n \in Requests : writeToFD(n)
  \/ \E n \in Requests : takeRef(n)
  \/ clear

Spec == Init /\ [][Next]_vars
-----------------------------------------------------------------------------
(* Type invariant: the offsets stay inside the storage, whatever the calls *)
(* of write, read, discard, takeRef, clear and the file operations.        *)
TypeOK == /\ storage \in [Offsets -> Byte]
          /\ w \in Offsets
          /\ r \in Offsets
          /\ ref \in [at : Offsets, bytes : Seq(Byte)]
          /\ last \in [op : Ops, ret : Int, data : Seq(Byte)]

(* The bytes waiting to be read, oldest first. *)
content == [k \in 1..len |-> storage[Advance(r, k - 1)]]

Fifo == INSTANCE ByteFifo WITH q <- content, Cap <- cap

(* The ring implements the FIFO: every operation returns the bytes, and    *)
(* leaves behind the bytes, that a FIFO of cap() bytes would.              *)
ImplementsFifo == Fifo!Spec

(* "The returned memory is only valid until the next call to write() or    *)
(* clear()": up to then the bytes takeRef has returned a pointer to stay   *)
(* as they are.                                                            *)
RefValid ==
  \A k \in 1..Len(ref.bytes) : storage[ref.at + k - 1] = ref.bytes[k]

(* "writeToFD(int fd, size_t nbyte); // write <=nbyte to file" under "take *)
(* data out of the end of the pipe": the bytes it takes out of the pipe    *)
(* are the bytes it wrote to the file.                                     *)
WriteToFDTakesWhatItWrites ==
  [][last'.op = "writeToFD" => content = last'.data \o content']_vars
=============================================================================
