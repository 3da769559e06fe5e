------------------------------ MODULE ByteFifo ------------------------------
(***************************************************************************)
(* What the circular buffer of main/pipe.hh promises its callers: a FIFO   *)
(* of at most Cap bytes.  q holds the bytes waiting to be read, oldest     *)
(* first, and last describes the operation that has just returned: its     *)
(* name, its return value (-1 for an error, or a null reference) and the   *)
(* bytes it moved in or out.                                               *)
(*                                                                         *)
(* The file operations are promised no more than pipe.hh implements:       *)
(* after a call that reports an error the FIFO is as it was, and a         *)
(* successful writeToFD forgets every byte it was asked to write, whether  *)
(* the file accepted it or not (see Pipe!WriteToFDTakesWhatItWrites).      *)
(***************************************************************************)
EXTENDS Integers, Sequences

CONSTANTS Byte,      \* the values of a byte
          Cap,       \* how many bytes fit: Pipe::cap()
          Requests   \* the byte counts callers ask for

VARIABLES q, last

vars == <<q, last>>

Smaller(a, b) == IF a =< b THEN a ELSE b
Free == Cap - Len(q)
First(n) == SubSeq(q, 1, n)
Rest(n) == SubSeq(q, n + 1, Len(q))
Returned(op, ret, data) == last' = [op |-> op, ret |-> ret, data |-> data]

Init == /\ q = << >>
        /\ last = [op |-> "init", ret |-> 0, data |-> << >>]

(* As much of the caller's data as fits is appended. *)
Write(data) ==
  LET n == Smaller(Len(data), Free)
  IN /\ q' = q \o SubSeq(data, 1, n)
     /\ Returned("write", n, SubSeq(data, 1, n))

Writec(c) ==
  \/ /\ Free > 0
     /\ q' = Append(q, c)
     /\ Returned("writec", 1, <<c>>)
  \/ /\ Free = 0
     /\ q' = q
     /\ Returned("writec", 0, << >>)

(* At most n of the file's bytes are appended; on an error, none. *)
ReadFromFD(n) ==
  \E got \in 0..Smaller(n, Free) : \E data \in [1..got -> Byte] :
    \/ /\ q' = q \o data
       /\ Returned("readFromFD", got, data)
    \/ /\ q' = q
       /\ Returned("readFromFD", -1, data)

(* The caller gets the oldest bytes, in order. *)
Read(n) ==
  LET k == Smaller(n, Len(q))
  IN /\ q' = Rest(k)
     /\ Returned("read", k, First(k))

Discard(n) ==
  LET k == Smaller(n, Len(q))
  IN /\ q' = Rest(k)
     /\ Returned("discard", k, << >>)

TakeRef(n) ==
  LET k == Smaller(n, Len(q))
  IN \/ /\ q' = Rest(k)
        /\ Returned("takeRef", k, First(k))
     \/ /\ q' = q
        /\ Returned("takeRef", -1, << >>)

(* The file gets a prefix of the bytes; a success drops all k of them. *)
WriteToFD(n) ==
  LET k == Smaller(n, Len(q))
  IN \E put \in 0..k :
       \/ /\ q' = Rest(k)
          /\ Returned("writeToFD", put, First(put))
       \/ /\ q' = q
          /\ Returned("writeToFD", -1, First(put))

Clear == /\ q' = << >>
         /\ Returned("clear", 0, << >>)

Next ==
  \/ \E n \in Requests : \E data \in [1..n -> Byte] : Write(data)
  \/ \E c \in Byte : Writec(c)
  \/ \E n \in Requests : ReadFromFD(n)
  \/ \E n \in Requests : Read(n)
  \/ \E n \in Requests : Discard(n)
  \/ \E n \in Requests : TakeRef(n)
  \/ \E n \in Requests : WriteToFD(n)
  \/ Clear

Spec == Init /\ [][Next]_vars
=============================================================================
