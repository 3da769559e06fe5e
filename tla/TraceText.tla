------------------------------ MODULE TraceText ------------------------------
(***************************************************************************)
(* debugFmtBytes of main/debug.cc, the text of the traces of Flush and of  *)
(* the pipes: one turn of its loop after another, on data of any content.  *)
(* Both callers give it five bytes of dst for each byte of data.  Flush    *)
(* has a header and more to show; _PipeTrace has what an operation of a    *)
(* pipe has moved, which may be nothing.  (Where it has no data, after a   *)
(* discard, it does not call debugFmtBytes.)                               *)
(*                                                                         *)
(* Of the text only the places it is written to are kept.  A byte that has *)
(* no name of its own is counted as four characters, \xHH, but printed by  *)
(* sprintf with x%X02: the hexadecimal digits of the byte, eight of them   *)
(* for a char that is negative, then 02, then a terminator.  What is over  *)
(* the count is overwritten by the next byte's text, or lies beyond dst.   *)
(***************************************************************************)
EXTENDS Integers, TLAPS

CONSTANTS Lengths,   \* the data's lengths
          SIZE_MAX   \* the largest size_t

ShareShort == 4  \* mutant: as many bytes as are counted for the longest text
Share == 5

(* The size of dst is computed in size_t. *)
ASSUME LengthsAssumption ==
  SIZE_MAX \in Nat /\ Lengths \subseteq {n \in Nat : Share * n =< SIZE_MAX}

VARIABLES caller, datalen, srci, dsti, dstlinestart,
          written,  \* the end, in dst, of what the last turn has written
          ret       \* "running", "error" for -1, or "done" for dsti

vars == <<caller, datalen, srci, dsti, dstlinestart, written, ret>>

HeaderSize == 9  \* DAWNCMD_MSG_HEADER_SIZE

(* Flush has something to send when there is more than the header. *)
Traced(who) == IF who = "Flush" THEN {n \in Lengths : n > HeaderSize} ELSE Lengths

dstsize == Share * datalen
dstend == IF dstsize = 0 THEN SIZE_MAX ELSE dstsize - 1

(* How a byte is shown; "hex" with the digits printed. *)
Digits == {1, 2, 8}
Forms == [form : {"plain"}, digits : {0}] \union [form : {"named"}, digits : {0}]
           \union [form : {"hex"}, digits : Digits]

Init ==
  /\ caller \in {"Flush", "_PipeTrace"} /\ datalen \in Traced(caller)
  /\ srci = 0 /\ dsti = 0 /\ dstlinestart = 0 /\ written = 0
  /\ ret = "running"

Refuse ==
  /\ ret' = "error"
  /\ UNCHANGED <<caller, datalen, srci, dsti, dstlinestart, written>>

(* One byte of data, to be shown from place at on, in the line that begins *)
(* at line.                                                                *)
Put(at, line, count, end) ==
  /\ dsti' = at + count
  /\ dstlinestart' = line
  /\ written' = end
  /\ srci' = srci + 1
  /\ UNCHANGED <<caller, datalen, ret>>

PutByte(at, line) ==
  \E b \in Forms :
    \/ /\ b.form = "plain"
       /\ Put(at, line, 1, at + 1)
    \/ /\ b.form = "named"
       /\ IF at + 2 > dstend THEN Refuse ELSE Put(at, line, 2, at + 2)
    \/ /\ b.form = "hex"
       /\ IF at + 2 > dstend \/ at + 4 > dstend THEN Refuse
          ELSE Put(at, line, 4, at + 5 + b.digits)

Turn ==
  /\ ret = "running" /\ srci < datalen
  /\ \/ /\ dsti = dstend
        /\ Refuse
     \/ /\ dsti # dstend /\ dsti - dstlinestart < 80
        /\ PutByte(dsti, dstlinestart)
     \/ /\ dsti # dstend /\ dsti - dstlinestart >= 80  \* a new line
        /\ IF dsti + 1 = dstend THEN Refuse ELSE PutByte(dsti + 1, dsti + 1)

(* dst[dsti] = 0 *)
Done ==
  /\ ret = "running" /\ srci = datalen
  /\ written' = dsti + 1
  /\ ret' = "done"
  /\ UNCHANGED <<caller, datalen, srci, dsti, dstlinestart>>

Next == Turn \/ Done

Spec == Init /\ [][Next]_vars
-----------------------------------------------------------------------------
(* The trace of a flush stays in dst, although the text of a byte may be   *)
(* longer than what the loop has checked and counted.                      *)
FlushTraceInside == caller = "Flush" => written =< dstsize

(* "or -1 if dst was not large enough": five bytes for one are enough, the *)
(* line breaks included, and no trace is left out.                         *)
NeverRefuses == ret # "error"

(* "Returns the number of bytes added to dst, or -1 if dst was not large   *)
(* enough": no trace is written past dst, of a pipe's bytes either.        *)
WritesInside == written =< dstsize
-----------------------------------------------------------------------------
(* Proofs of the first two, for data of any length and content.            *)
(*                                                                         *)
(* The argument counts line breaks.  Each follows eighty characters, and a *)
(* byte of data makes at most four: so many characters are in dst that are *)
(* not breaks, and one in 81 places of the finished lines is one.  Without *)
(* a count of the lines that is                                            *)
(*     81 * (dsti - 4 * srci) =< dstlinestart =< dsti.                     *)
(* One place for each byte is then left, and with nine bytes or more these *)
(* hold what the longest text exceeds its count by.                        *)

InFlush == caller = "Flush"

IInv ==
  /\ datalen \in Nat /\ (InFlush => datalen >= 9)
  /\ srci \in 0..datalen /\ dsti \in Nat /\ dstlinestart \in 0..dsti
  /\ 81 * (dsti - 4 * srci) =< dstlinestart
  /\ written \in Nat /\ (InFlush => written =< dstsize)
  /\ ret \in {"running", "done"}

(* Between the turns there is room for a line break and for what the next  *)
(* byte is counted as, and in longer data for all that its text may write. *)
LEMMA RoomForATurn ==
  ASSUME NEW n \in Nat, NEW i \in 0..(n - 1), NEW d \in Nat, NEW l \in 0..d,
         81 * (d - 4 * i) =< l
  PROVE  /\ d + 4 =< 5 * n - 1
         /\ d - l >= 80 => d + 5 =< 5 * n - 1
         /\ n >= 9 /\ d - l < 80 => d + 13 =< 5 * n
         /\ n >= 9 /\ d - l >= 80 => d + 14 =< 5 * n
<1>1. d + 4 =< 5 * n - 1
  OBVIOUS
<1>2. d - l >= 80 => d + 5 =< 5 * n - 1
  OBVIOUS
<1>3. n >= 9 /\ d - l < 80 => d + 13 =< 5 * n
  OBVIOUS
<1>4. n >= 9 /\ d - l >= 80 => d + 14 =< 5 * n
  OBVIOUS
<1>5. QED
  BY <1>1, <1>2, <1>3, <1>4

(* What a byte adds, in the line it is in or in a new one, keeps the count.*)
LEMMA PutKeepsInv ==
  ASSUME IInv, srci < datalen, NEW at \in Nat, NEW line \in 0..at,
         81 * (at - 4 * srci) =< line,
         NEW count \in 1..4, NEW end \in Nat, InFlush => end =< dstsize,
         Put(at, line, count, end)
  PROVE  IInv'
<1>1. /\ dsti' = at + count /\ dstlinestart' = line /\ written' = end
      /\ srci' = srci + 1 /\ datalen' = datalen /\ ret' = ret
      /\ InFlush' = InFlush
  BY DEF Put, InFlush
<1>2. dstsize' = dstsize
  BY <1>1 DEF dstsize
<1>3. 81 * (dsti' - 4 * srci') =< dstlinestart'
  BY <1>1 DEF IInv
<1>4. srci' \in 0..datalen' /\ dsti' \in Nat /\ dstlinestart' \in 0..dsti'
  BY <1>1 DEF IInv
<1>5. QED
  BY <1>1, <1>2, <1>3, <1>4 DEF IInv

LEMMA PutByteKeepsInv ==
  ASSUME IInv, srci < datalen, NEW at \in Nat, NEW line \in 0..at,
         81 * (at - 4 * srci) =< line, at + 4 =< dstend, InFlush => at + 13 =< dstsize,
         dstsize \in Nat, dstend \in Int, PutByte(at, line)
  PROVE  IInv'
<1>1. PICK b \in Forms :
        \/ Put(at, line, 1, at + 1)
        \/ Put(at, line, 2, at + 2)
        \/ Put(at, line, 4, at + 5 + b.digits)
  BY DEF PutByte
<1>2. b.digits \in 0..8
  BY DEF Forms, Digits
<1>3. PICK count \in 1..4, end \in Nat : Put(at, line, count, end) /\ end =< at + 13
  BY <1>1, <1>2
<1>4. InFlush => end =< dstsize
  BY <1>3
<1>5. QED
  BY <1>3, <1>4, PutKeepsInv

LEMMA InvHolds == Spec => []IInv
<1>1. Init => IInv
  BY LengthsAssumption DEF Init, IInv, dstsize, Share, Traced, HeaderSize, InFlush
<1>2. IInv /\ [Next]_vars => IInv'
  <2> SUFFICES ASSUME IInv, [Next]_vars PROVE IInv'
    OBVIOUS
  <2>1. CASE Turn
    <3>1. srci < datalen /\ srci \in 0..(datalen - 1)
      BY <2>1 DEF Turn, IInv
    <3>2. dstsize = 5 * datalen /\ dstend = 5 * datalen - 1 /\ dstsize \in Nat
      BY <3>1 DEF IInv, dstend, dstsize, Share
    <3>3. /\ dsti + 4 =< dstend
          /\ dsti - dstlinestart >= 80 => dsti + 5 =< dstend
          /\ InFlush /\ dsti - dstlinestart < 80 => dsti + 13 =< dstsize
          /\ InFlush /\ dsti - dstlinestart >= 80 => dsti + 14 =< dstsize
      BY <3>1, <3>2, RoomForATurn DEF IInv
    <3>4. CASE dsti - dstlinestart < 80 /\ PutByte(dsti, dstlinestart)
      BY <3>1, <3>2, <3>3, <3>4, PutByteKeepsInv DEF IInv
    <3>5. CASE dsti - dstlinestart >= 80 /\ PutByte(dsti + 1, dsti + 1)
      <4>1. PICK at \in Nat : at = dsti + 1
        BY DEF IInv
      <4>2. 81 * (at - 4 * srci) =< at /\ at \in 0..at
        BY <3>5, <4>1 DEF IInv
      <4>3. at + 4 =< dstend /\ (InFlush => at + 13 =< dstsize) /\ dstend \in Int
        BY <3>2, <3>3, <3>5, <4>1 DEF IInv
      <4>4. PutByte(at, at)
        BY <3>5, <4>1
      <4>5. QED
        BY <3>1, <3>2, <4>2, <4>3, <4>4, PutByteKeepsInv
    <3>6. QED
      BY <2>1, <3>2, <3>3, <3>4, <3>5 DEF Turn, IInv
  <2>2. CASE Done
    <3>1. 81 * (dsti - 4 * datalen) =< dsti
      BY <2>2 DEF Done, IInv
    <3>2. InFlush => dsti + 1 =< 5 * datalen
      BY <3>1 DEF IInv
    <3>3. QED
      BY <2>2, <3>2 DEF Done, IInv, InFlush, dstsize, Share
  <2>3. CASE UNCHANGED vars
    BY <2>3 DEF vars, IInv, InFlush, dstsize
  <2>4. QED
    BY <2>1, <2>2, <2>3 DEF Next
<1>3. QED
  BY <1>1, <1>2, PTL DEF Spec

(* Formatting the trace of a flush writes nothing past its buffer, however *)
(* long the command buffer and whatever is in it.                          *)
THEOREM TraceStaysInside == Spec => []FlushTraceInside
<1>1. IInv => FlushTraceInside
  BY DEF IInv, InFlush, FlushTraceInside
<1>2. QED
  BY <1>1, InvHolds, PTL

(* For either caller and data of any length, none included, five bytes for *)
(* one are enough: it never reports that dst is too small.                 *)
THEOREM TraceIsComplete == Spec => []NeverRefuses
<1>1. IInv => NeverRefuses
  BY DEF IInv, NeverRefuses
<1>2. QED
  BY <1>1, InvHolds, PTL
=============================================================================
