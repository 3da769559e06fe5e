----------------------------- MODULE FrameProofs -----------------------------
(***************************************************************************)
(* Proofs about an endpoint of Protocol whose peer numbers its command     *)
(* buffers, as both sides of Session do: the k-th is DawnCmd(Fill(k, n)).  *)
(*                                                                         *)
(* Receiving is the invariant of the reading side.  While no doIO that a   *)
(* Flush has started reads into a command buffer which is being handled,   *)
(* the bodies that were delivered are the first of the script, and _rbuf   *)
(* holds the stream from the next message on, or from inside it.  From     *)
(* this DeliveredInOrder follows (InOrderOfNumbered).                      *)
(*                                                                         *)
(* Stuck is what comes of such a read: dawnCmdRLen is of the old command   *)
(* buffer, the bytes are of the next, a header is handed over as a body,   *)
(* and the next Flush fails its assertion.  Past and PastIn are the same   *)
(* of a side whose peer has no more to say, and which may go on: what it   *)
(* reads is behind its place, and what it still hands over is Junk, a part *)
(* of the last message or one that begins with its header.                 *)
(*                                                                         *)
(* Made and Within are about the sending side: what is flushed is numbered *)
(* again, and there is no more of it than the program has asked for.       *)
(* Prompt is of a sending side that always finds room for a command        *)
(* buffer: the loop that Flush runs then writes all of it in its one turn. *)
(***************************************************************************)
EXTENDS ProtocolProofs, FiniteSetTheorems

(* Where the messages of a script begin and end. *)

LEMMA EndsGrow ==
  ASSUME NEW s \in Seq(Seq(Nat)), NEW m \in 0..Len(s), NEW n \in m..Len(s)
  PROVE  /\ Len(FlattenSeq(SubSeq(s, 1, m))) \in Nat
         /\ Len(FlattenSeq(SubSeq(s, 1, n))) \in Nat
         /\ Len(FlattenSeq(SubSeq(s, 1, m))) =< Len(FlattenSeq(SubSeq(s, 1, n)))
<1>1. n \in 0..Len(s)
  OBVIOUS
<1>2. PICK a \in Seq(Nat) : a = FlattenSeq(SubSeq(s, 1, m))
  BY FlattenPrefixType
<1>3. PICK b \in Seq(Nat) : b = FlattenSeq(SubSeq(s, 1, n))
  BY <1>1, FlattenPrefixType
<1>4. PICK rest \in Seq(Nat) : b = a \o rest
  BY <1>2, <1>3, FlattenBegins
<1>5. Len(b) = Len(a) + Len(rest) /\ Len(a) \in Nat /\ Len(rest) \in Nat
  BY <1>4, ConcatProperties
<1>6. Len(a) =< Len(b) /\ Len(b) \in Nat
  BY <1>5
<1>7. QED
  BY <1>2, <1>3, <1>5, <1>6

LEMMA EndOrder ==
  ASSUME script \in Scripts
  PROVE  /\ \A m \in 0..Len(script) : End(m) \in Nat
         /\ \A m, n \in 0..Len(script) : m =< n => End(m) =< End(n)
         /\ End(0) = 0 /\ End(Len(script)) = Len(Stream)
<1>1. script \in Seq(Seq(Nat))
  BY ScriptType
<1>2. ASSUME NEW m \in 0..Len(script), NEW n \in 0..Len(script), m =< n
      PROVE  End(m) \in Nat /\ End(m) =< End(n)
  <2>1. n \in m..Len(script)
    BY <1>2
  <2>2. QED
    BY <1>1, <2>1, EndsGrow DEF End
<1>3. End(0) = 0
  <2>1. SubSeq(script, 1, 0) = << >>
    BY SubSeqEmpty
  <2>2. End(0) = Len(FlattenSeq(<< >>))
    BY <2>1, Zenon DEF End
  <2>3. FlattenSeq(<< >>) = << >>
    BY FlattenEmpty
  <2>4. End(0) = Len(<< >>)
    BY <2>2, <2>3, Zenon
  <2>5. QED
    BY <2>4
<1>4. End(Len(script)) = Len(Stream)
  BY <1>1, SubSeqFull DEF End, Stream
<1>5. QED
  BY <1>2, <1>3, <1>4
-----------------------------------------------------------------------------
(* The stack, as the steps change it. *)

Goes(st, new, pc, via) ==
  \/ new = [st EXCEPT ![1].pc = pc]
  \/ new = [st EXCEPT ![1].pc = pc, ![1].via = via]

LEMMA GoneOn ==
  ASSUME NEW st \in Seq(Frame), st # << >>, NEW new, NEW pc, NEW via,
         Goes(st, new, pc, via)
  PROVE  /\ new # << >> /\ Len(new) = Len(st) /\ Head(new) = new[1]
         /\ new[1].pc = pc /\ new[1].wr = Head(st).wr
         /\ new[1].via \in {Head(st).via, via}
         /\ \A i \in 2..Len(st) : new[i] = st[i]
<1>1. Len(st) \in Nat /\ 1 \in 1..Len(st) /\ Head(st) = st[1] /\ st[1] \in Frame
  BY EmptySeq
<1>2. DOMAIN new = 1..Len(st)
  BY <1>1 DEF Goes
<1>3. new[1] = [st[1] EXCEPT !.pc = pc] \/ new[1] = [st[1] EXCEPT !.pc = pc, !.via = via]
  BY <1>1 DEF Goes
<1>4. new[1].pc = pc /\ new[1].wr = st[1].wr /\ new[1].via \in {st[1].via, via}
  BY <1>1, <1>3 DEF Frame
<1>5. \A i \in 2..Len(st) : new[i] = st[i]
  BY <1>1 DEF Goes
<1>6. Len(new) = Len(st)
  BY <1>1, <1>2 DEF Goes
<1>7. new # << >> /\ Head(new) = new[1]
  BY <1>1, <1>2 DEF Goes
<1>8. QED
  BY <1>1, <1>4, <1>5, <1>6, <1>7

LEMMA Returned ==
  ASSUME NEW st \in Seq(Frame), st # << >>, Len(st) =< 2
  PROVE  /\ Len(st) \in {1, 2}
         /\ Len(st) = 1 => Tail(st) = << >>
         /\ Len(st) = 2 => /\ Len(Tail(st)) = 1 /\ Tail(st) # << >>
                           /\ Head(Tail(st)) = st[2] /\ Tail(st)[1] = st[2]
<1>1. Len(st) \in Nat /\ Len(st) # 0
  BY EmptySeq
<1>2. Len(st) \in {1, 2}
  <2>1. PICK n \in Nat : n = Len(st)
    BY <1>1
  <2>2. n # 0 /\ n =< 2
    BY <1>1, <2>1
  <2>3. n = 1 \/ n = 2
    BY <2>2
  <2>4. QED
    BY <2>1, <2>3
<1>3. PICK rest \in Seq(Frame) : rest = Tail(st)
  BY HeadTailProperties
<1>4. Len(rest) = Len(st) - 1 /\ \A i \in 1..Len(rest) : rest[i] = st[i + 1]
  BY <1>3, HeadTailProperties
<1>5. ASSUME Len(st) = 1 PROVE rest = << >>
  <2>1. Len(rest) = 0
    BY <1>4, <1>5
  <2>2. QED
    BY <2>1, EmptySeq
<1>6. ASSUME Len(st) = 2
      PROVE  Len(rest) = 1 /\ rest # << >> /\ Head(rest) = st[2] /\ rest[1] = st[2]
  <2>1. Len(rest) = 1 /\ rest[1] = st[2]
    BY <1>4, <1>6
  <2>2. rest # << >>
    <3>1. Len(<< >>) = 0
      OBVIOUS
    <3>2. 1 # 0
      OBVIOUS
    <3>3. QED
      BY <2>1, <3>1, <3>2, Zenon
  <2>3. Head(rest) = rest[1]
    BY <2>1
  <2>4. QED
    BY <2>1, <2>2, <2>3
<1>7. QED
  BY <1>2, <1>3, <1>5, <1>6

LEMMA Called ==
  ASSUME NEW f \in Frame, NEW st \in Seq(Frame), Len(st) = 1
  PROVE  /\ Len(<<f>> \o st) = 2 /\ <<f>> \o st # << >>
         /\ Head(<<f>> \o st) = f /\ (<<f>> \o st)[1] = f /\ (<<f>> \o st)[2] = st[1]
<1>1. <<f>> \in Seq(Frame) /\ Len(<<f>>) = 1 /\ <<f>>[1] = f
  OBVIOUS
<1>2. PICK new \in Seq(Frame) : new = <<f>> \o st
  BY <1>1, ConcatProperties
<1>3. /\ Len(new) = 1 + 1
      /\ \A i \in 1..1 + 1 : new[i] = IF i =< 1 THEN <<f>>[i] ELSE st[i - 1]
  BY <1>1, <1>2, ConcatProperties
<1>4. Len(new) = 2 /\ new[1] = f /\ new[2] = st[1]
  BY <1>1, <1>3
<1>5. new # << >> /\ Head(new) = new[1]
  BY <1>4
<1>6. QED
  BY <1>2, <1>4, <1>5
-----------------------------------------------------------------------------
(* What SInv says of types and sizes. *)

LEMMA Types ==
  ASSUME SInv
  PROVE  /\ script \in Scripts /\ script \in Seq(Seq(Nat)) /\ Len(script) \in Nat
         /\ Stream \in Seq(Nat) /\ Len(Stream) \in Nat
         /\ taken \in Nat /\ arrived \in Nat /\ taken =< arrived /\ arrived =< Len(Stream)
         /\ rbuf \in Seq(Nat) /\ Len(rbuf) \in Nat /\ dawnCmdRLen \in Nat
         /\ delivered \in Seq(Seq(Nat)) /\ Len(delivered) \in Nat
         /\ flushed \in Seq(Seq(Nat)) /\ Len(flushed) \in Nat
         /\ stack \in Seq(Frame) /\ Len(stack) \in Nat /\ Len(stack) =< 2
<1>1. script \in Scripts /\ script \in Seq(Seq(Nat))
  BY ScriptType DEF SInv, RInv, ReceiveTypeOK
<1>2. Stream \in Seq(Nat) /\ taken \in 0..Len(Stream) /\ arrived \in taken..Len(Stream)
  BY StreamType DEF SInv, RInv
<1>3. dawnCmdRLen \in Nat
  BY Sizes DEF SInv, RInv, ReceiveTypeOK
<1>4. /\ rbuf \in Seq(Nat) /\ delivered \in Seq(Seq(Nat)) /\ flushed \in Seq(Seq(Nat))
      /\ stack \in Seq(Frame) /\ Len(stack) =< 2
  BY DEF SInv, RInv, ReceiveTypeOK, SendTypeOK, Sending, Nesting
<1>5. Len(script) \in Nat /\ Len(Stream) \in Nat
  BY <1>1, <1>2
<1>6. Len(rbuf) \in Nat /\ Len(delivered) \in Nat /\ Len(flushed) \in Nat /\ Len(stack) \in Nat
  BY <1>4
<1>7. QED
  BY <1>1, <1>2, <1>3, <1>4, <1>5, <1>6

LEMMA Numbers ==
  ASSUME SInv
  PROVE  /\ Len(script) \in Nat /\ Len(Stream) \in Nat
         /\ taken \in Nat /\ arrived \in Nat /\ taken =< arrived /\ arrived =< Len(Stream)
         /\ Len(rbuf) \in Nat /\ dawnCmdRLen \in Nat
         /\ Len(delivered) \in Nat /\ Len(flushed) \in Nat
         /\ Len(stack) \in Nat /\ Len(stack) =< 2
         /\ HDR \in Nat /\ HDR > 1 /\ MAX \in Nat /\ MAX > 0
BY Types, Sizes

LEMMA OneOrTwo ==
  ASSUME SInv, stack # << >>
  PROVE  Len(stack) \in {1, 2} /\ Top = stack[1] /\ 1 \in 1..Len(stack)
<1>1. stack \in Seq(Frame) /\ Len(stack) =< 2
  BY Types
<1>2. Len(stack) \in {1, 2}
  BY <1>1, Returned
<1>3. QED
  BY <1>1, <1>2 DEF Top

LEMMA ReadSizes ==
  ASSUME SInv
  PROVE  /\ Got \in Nat /\ Free \in Nat /\ Got =< arrived - taken /\ Got =< Free
         /\ arrived - taken =< Free => Got = arrived - taken
         /\ Filled \in Seq(Nat) /\ Len(Filled) = Len(rbuf) + Got
<1>1. Free \in Nat
  <2>1. RSize \in Nat /\ Len(rbuf) < RSize
    BY Sizes DEF SInv, RInv, ReceiveTypeOK
  <2>2. QED
    BY <2>1, Numbers DEF Free
<1>2. /\ Got \in Nat /\ Got =< arrived - taken /\ Got =< Free
      /\ arrived - taken =< Free => Got = arrived - taken
  BY <1>1, Numbers DEF Got, Smaller
<1>3. PICK g \in Nat, t \in Nat, s \in Seq(Nat) : g = Got /\ t = taken /\ s = Stream
  BY <1>2, Types
<1>4. t + g =< Len(s) /\ Len(s) \in Nat
  BY <1>2, <1>3, Numbers
<1>5. PICK new \in Seq(Nat) : new = SubSeq(s, t + 1, t + g) /\ Len(new) = g
  <2>1. SubSeq(s, t + 1, t + g) \in Seq(Nat) /\ Len(SubSeq(s, t + 1, t + g)) = g
    BY <1>4
  <2>2. QED
    BY <2>1
<1>6. PICK old \in Seq(Nat) : old = rbuf
  BY Types
<1>7. Filled = old \o new
  BY <1>3, <1>5, <1>6 DEF Filled
<1>8. old \o new \in Seq(Nat) /\ Len(old \o new) = Len(old) + Len(new)
  BY ConcatProperties
<1>9. QED
  BY <1>1, <1>2, <1>3, <1>5, <1>6, <1>7, <1>8

LEMMA CountUpTo == ASSUME NEW n \in Nat PROVE Cardinality(1..n) = n
<1>1. 1 \in Int /\ n \in Int
  OBVIOUS
<1>2. Cardinality(1..n) = IF 1 > n THEN 0 ELSE n - 1 + 1
  BY <1>1, FS_Interval
<1>3. QED
  BY <1>2
-----------------------------------------------------------------------------
(* Bytes that are a part of others. *)

LEMMA Joined ==
  ASSUME NEW a \in Seq(Nat), NEW b \in Seq(Nat)
  PROVE  /\ a \o b \in Seq(Nat) /\ Len(a \o b) = Len(a) + Len(b)
         /\ \A i \in 1..Len(a) : (a \o b)[i] = a[i]
         /\ \A i \in 1..Len(b) : (a \o b)[Len(a) + i] = b[i]
<1>1. PICK n \in Nat, m \in Nat : n = Len(a) /\ m = Len(b)
  OBVIOUS
<1>2. /\ a \o b \in Seq(Nat) /\ Len(a \o b) = n + m
      /\ \A i \in 1..n + m : (a \o b)[i] = IF i =< n THEN a[i] ELSE b[i - n]
  BY <1>1, ConcatProperties
<1>3. \A i \in 1..n : i \in 1..n + m /\ i =< n
  BY <1>1
<1>4. \A i \in 1..m : n + i \in 1..n + m /\ ~(n + i =< n) /\ (n + i) - n = i
  BY <1>1
<1>5. QED
  BY <1>1, <1>2, <1>3, <1>4

(* Those of buf are found in s behind its first p.                         *)
Part(buf, s, p) ==
  /\ p + Len(buf) =< Len(s)
  /\ \A i \in 1..Len(buf) : buf[i] = s[p + i]

LEMMA DropPart ==
  ASSUME NEW buf \in Seq(Nat), NEW s \in Seq(Nat), NEW p \in Nat, Part(buf, s, p),
         NEW n \in 0..Len(buf)
  PROVE  LET rest == SubSeq(buf, n + 1, Len(buf))
         IN /\ rest \in Seq(Nat) /\ Len(rest) = Len(buf) - n
            /\ Part(rest, s, p + n)
<1>1. PICK l \in Nat : l = Len(buf) /\ n \in 0..l /\ n \in Nat
  OBVIOUS
<1>2. PICK rest \in Seq(Nat) : rest = SubSeq(buf, n + 1, Len(buf)) /\ Len(rest) = l - n
  <2>1. n \in Nat /\ n =< Len(buf)
    BY <1>1
  <2>2. /\ SubSeq(buf, n + 1, Len(buf)) \in Seq(Nat)
        /\ Len(SubSeq(buf, n + 1, Len(buf))) = Len(buf) - n
    BY <2>1, DropPrefix
  <2>3. QED
    BY <1>1, <2>2, Zenon
<1>3. \A i \in 1..l - n : rest[i] = buf[n + i]
  BY <1>1, <1>2
<1>4. p + l =< Len(s) /\ \A i \in 1..l : buf[i] = s[p + i]
  BY <1>1 DEF Part
<1>5. \A i \in 1..l - n : n + i \in 1..l /\ p + (n + i) = (p + n) + i
  BY <1>1
<1>6. \A i \in 1..l - n : rest[i] = s[(p + n) + i]
  BY <1>3, <1>4, <1>5
<1>7. (p + n) + (l - n) =< Len(s)
  BY <1>1, <1>4
<1>8. QED
  BY <1>1, <1>2, <1>6, <1>7 DEF Part

LEMMA TakePart ==
  ASSUME NEW buf \in Seq(Nat), NEW s \in Seq(Nat), NEW p \in Nat, Part(buf, s, p),
         NEW n \in 0..Len(buf)
  PROVE  LET body == SubSeq(buf, 1, n)
         IN /\ body \in Seq(Nat) /\ Len(body) = n
            /\ \A i \in 1..n : body[i] = s[p + i]
<1>1. \A i \in 1..Len(buf) : buf[i] = s[p + i]
  BY DEF Part
<1>2. SubSeq(buf, 1, n) \in Seq(Nat) /\ Len(SubSeq(buf, 1, n)) = n
  OBVIOUS
<1>3. \A i \in 1..n : SubSeq(buf, 1, n)[i] = buf[i] /\ i \in 1..Len(buf)
  OBVIOUS
<1>4. QED
  BY <1>1, <1>2, <1>3

LEMMA FillUpPart ==
  ASSUME NEW buf \in Seq(Nat), NEW s \in Seq(Nat), NEW p \in Nat, Part(buf, s, p),
         NEW t \in Nat, t = p + Len(buf), NEW g \in 0..Len(s) - t
  PROVE  LET all == buf \o SubSeq(s, t + 1, t + g)
         IN /\ all \in Seq(Nat) /\ Len(all) = Len(buf) + g
            /\ Part(all, s, p)
<1>1. PICK l \in Nat : l = Len(buf) /\ t = p + l
  OBVIOUS
<1>2. g \in Nat /\ t + g =< Len(s) /\ Len(s) \in Nat
  BY <1>1
<1>3. PICK more \in Seq(Nat) : more = SubSeq(s, t + 1, t + g)
  <2>1. \A i \in t + 1..t + g : i \in 1..Len(s)
    BY <1>2
  <2>2. \A i \in t + 1..t + g : s[i] \in Nat
    BY <2>1, ElementOfSeq
  <2>3. t + 1 \in Int /\ t + g \in Int
    BY <1>2
  <2>4. SubSeq(s, t + 1, t + g) \in Seq(Nat)
    BY <2>2, <2>3, SubSeqProperties
  <2>5. QED
    BY <2>4
<1>4. Len(more) = g /\ \A i \in 1..g : more[i] = s[t + i]
  <2>1. CASE g = 0
    BY <1>2, <1>3, <2>1, SubSeqEmpty
  <2>2. CASE g > 0
    BY <1>2, <1>3, <2>2
  <2>3. QED
    BY <1>2, <2>1, <2>2
<1>5. PICK all \in Seq(Nat) : all = buf \o more
  BY ConcatProperties
<1>6. /\ Len(all) = l + g
      /\ \A i \in 1..l : all[i] = buf[i]
      /\ \A i \in 1..g : all[l + i] = more[i]
  <2>1. /\ Len(buf \o more) = Len(buf) + Len(more)
        /\ \A i \in 1..Len(buf) : (buf \o more)[i] = buf[i]
        /\ \A i \in 1..Len(more) : (buf \o more)[Len(buf) + i] = more[i]
    <3>1. buf \in Seq(Nat) /\ more \in Seq(Nat)
      BY <1>3
    <3>2. QED
      BY <3>1, Joined, Zenon
  <2>2. QED
    BY <1>1, <1>4, <1>5, <2>1, Zenon
<1>7. \A i \in 1..l : buf[i] = s[p + i]
  BY <1>1 DEF Part
<1>8. \A i \in 1..g : t + i = p + (l + i)
  BY <1>1, <1>2
<1>9. \A i \in 1..g : all[l + i] = s[p + (l + i)]
  BY <1>4, <1>6, <1>8
<1>10. \A i \in 1..l + g : i \in 1..l \/ (i - l \in 1..g /\ l + (i - l) = i)
  BY <1>1, <1>2
<1>11. \A i \in 1..Len(all) : all[i] = s[p + i]
  BY <1>6, <1>7, <1>9, <1>10
<1>12. p + Len(all) =< Len(s)
  BY <1>1, <1>2, <1>6
<1>13. QED
  BY <1>1, <1>3, <1>5, <1>6, <1>11, <1>12 DEF Part
-----------------------------------------------------------------------------
(* Command buffers that are numbered, as those of Session are. *)

Fill(k, n) == [i \in 1..n |-> k]
Numbered(frames) ==
  \A k \in 1..Len(frames) :
    k < MSGT_DAWNCMD /\ \E n \in 1..MAX : frames[k] = DawnCmd(Fill(k, n))

LEMMA FillType ==
  ASSUME NEW k \in Nat, NEW n \in Nat
  PROVE  Fill(k, n) \in Seq(Nat) /\ Len(Fill(k, n)) = n /\ \A i \in 1..n : Fill(k, n)[i] = k
BY DEF Fill

LEMMA AllTheSame ==
  ASSUME NEW body \in Seq(Nat), NEW k \in Nat, \A i \in 1..Len(body) : body[i] = k
  PROVE  body = Fill(k, Len(body))
<1>1. PICK n \in Nat : n = Len(body)
  OBVIOUS
<1>2. Fill(k, n) \in Seq(Nat) /\ Len(Fill(k, n)) = n /\ \A i \in 1..n : Fill(k, n)[i] = k
  BY FillType
<1>3. body = Fill(k, n)
  BY <1>1, <1>2, SeqEqual
<1>4. QED
  BY <1>1, <1>3

LEMMA NumberedBytes ==
  ASSUME NEW k \in Nat, NEW n \in Nat
  PROVE  LET f == DawnCmd(Fill(k, n))
         IN /\ f \in Seq(Nat) /\ Len(f) = HDR + n
            /\ f[1] = MSGT_DAWNCMD /\ f[2] = n
            /\ \A i \in 1..n : f[HDR + i] = k
<1>1. PICK body \in Seq(Nat) : body = Fill(k, n)
  BY FillType
<1>2. Len(body) = n /\ \A i \in 1..n : body[i] = k
  BY <1>1, FillType
<1>3. HDR \in Nat /\ HDR > 1 /\ 1 \in 1..HDR /\ 2 \in 1..HDR
  BY Sizes
<1>4. PICK h \in Seq(Nat) : h = DawnCmdHeader(n)
  BY <1>3, HeaderType
<1>5. Len(h) = HDR /\ h[1] = MSGT_DAWNCMD /\ h[2] = n
  <2>1. Len(h) = HDR
    BY <1>3, <1>4, HeaderType
  <2>2. h[1] = MSGT_DAWNCMD /\ h[2] = n
    BY <1>3, <1>4 DEF DawnCmdHeader
  <2>3. QED
    BY <2>1, <2>2
<1>6. PICK f \in Seq(Nat) : f = h \o body
  BY ConcatProperties
<1>7. /\ Len(f) = HDR + n
      /\ \A i \in 1..HDR : f[i] = h[i]
      /\ \A i \in 1..n : f[HDR + i] = body[i]
  <2>1. /\ Len(h \o body) = Len(h) + Len(body)
        /\ \A i \in 1..Len(h) : (h \o body)[i] = h[i]
        /\ \A i \in 1..Len(body) : (h \o body)[Len(h) + i] = body[i]
    BY <1>1, <1>4, Joined
  <2>2. QED
    BY <1>2, <1>5, <1>6, <2>1, Zenon
<1>9. \A i \in 1..n : f[HDR + i] = k
  BY <1>2, <1>7
<1>10. f = DawnCmd(Fill(k, n))
  BY <1>1, <1>2, <1>4, <1>6 DEF DawnCmd
<1>11. QED
  BY <1>3, <1>5, <1>7, <1>9, <1>10
-----------------------------------------------------------------------------
(* What is in the stream, when the messages of the script are numbered.    *)

BodyLen(k) == Len(script[k]) - HDR
FrameIn(s, b, k, n) ==
  s[b + 1] = MSGT_DAWNCMD /\ s[b + 2] = n /\ \A i \in 1..n : s[b + HDR + i] = k

LEMMA ScriptFrame ==
  ASSUME script \in Scripts, Numbered(script), NEW k \in 1..Len(script)
  PROVE  \E b \in Nat, n \in 1..MAX :
           /\ b = End(k - 1) /\ n = BodyLen(k) /\ End(k) = b + HDR + n
           /\ b + HDR + n =< Len(Stream) /\ FrameIn(Stream, b, k, n)
           /\ k < MSGT_DAWNCMD /\ script[k] = DawnCmd(Fill(k, n))
<1>1. script \in Seq(Seq(Nat)) /\ k \in Nat
  BY ScriptType
<1>2. PICK n \in 1..MAX : k < MSGT_DAWNCMD /\ script[k] = DawnCmd(Fill(k, n))
  BY DEF Numbered
<1>3. n \in Nat /\ HDR \in Nat /\ HDR > 1
  BY Sizes
<1>4. PICK f \in Seq(Nat) : f = DawnCmd(Fill(k, n))
  BY <1>1, <1>3, NumberedBytes
<1>5. /\ Len(f) = HDR + n /\ f[1] = MSGT_DAWNCMD /\ f[2] = n
      /\ \A i \in 1..n : f[HDR + i] = k
  <2>1. LET g == DawnCmd(Fill(k, n))
        IN /\ Len(g) = HDR + n /\ g[1] = MSGT_DAWNCMD /\ g[2] = n
           /\ \A i \in 1..n : g[HDR + i] = k
    BY <1>1, <1>3, NumberedBytes, Zenon
  <2>2. QED
    BY <1>4, <2>1, Zenon
<1>6. PICK s \in Seq(Nat) : s = Stream
  BY <1>1, FlattenType DEF Stream
<1>7. PICK b \in Nat : b = End(k - 1)
  <2>1. k - 1 \in 0..Len(script)
    OBVIOUS
  <2>2. QED
    BY <2>1, EndOrder
<1>8. End(k) = b + (HDR + n) /\ b + (HDR + n) =< Len(s)
      /\ SubSeq(s, b + 1, b + (HDR + n)) = f
  <2>1. /\ End(k) = End(k - 1) + Len(script[k])
        /\ End(k) =< Len(FlattenSeq(script))
        /\ SubSeq(FlattenSeq(script), End(k - 1) + 1, End(k)) = script[k]
    BY <1>1, FlattenPlace DEF End
  <2>2. Len(script[k]) = HDR + n
    BY <1>2, <1>4, <1>5
  <2>3. QED
    BY <1>2, <1>4, <1>6, <1>7, <2>1, <2>2 DEF Stream
<1>9. PICK l \in Nat : l = HDR + n /\ 1 \in 1..l /\ 2 \in 1..l
  BY <1>3
<1>10. \A i \in 1..l : s[b + i] = f[i]
  <2>1. b + l =< Len(s) /\ SubSeq(s, b + 1, b + l) = f
    BY <1>8, <1>9
  <2>2. \A j \in b + 1..b + l : s[j] \in Nat
    <3>1. \A j \in b + 1..b + l : j \in 1..Len(s)
      BY <2>1
    <3>2. QED
      BY <3>1, ElementOfSeq
  <2>3. b + 1 \in Int /\ b + l \in Int
    OBVIOUS
  <2>4. \A i \in 1..(b + l) - (b + 1) + 1 : SubSeq(s, b + 1, b + l)[i] = s[(b + 1) + i - 1]
    BY <2>2, <2>3, SubSeqProperties
  <2>5. ASSUME NEW i \in 1..l PROVE s[b + i] = f[i]
    <3>1. i \in 1..(b + l) - (b + 1) + 1 /\ (b + 1) + i - 1 = b + i
      OBVIOUS
    <3>2. SubSeq(s, b + 1, b + l)[i] = s[b + i]
      BY <2>4, <3>1, Zenon
    <3>3. QED
      BY <2>1, <3>2
  <2>6. QED
    BY <2>5
<1>11. \A i \in 1..n : HDR + i \in 1..l /\ b + HDR + i = b + (HDR + i)
  BY <1>3, <1>9
<1>12. FrameIn(s, b, k, n)
  BY <1>5, <1>9, <1>10, <1>11 DEF FrameIn
<1>13. n = BodyLen(k)
  BY <1>2, <1>3, <1>4, <1>5 DEF BodyLen
<1>14. End(k) = b + HDR + n /\ b + HDR + n =< Len(s)
  BY <1>3, <1>8
<1>15. QED
  BY <1>2, <1>6, <1>7, <1>12, <1>13, <1>14
-----------------------------------------------------------------------------
(* Where the endpoint is in the stream of a peer that numbers its command  *)
(* buffers: nothing is missing between what it has handed to the program   *)
(* and what waits in _rbuf, and dawnCmdRLen says what of a command buffer  *)
(* is still to come, or that one is being handled.                         *)

(* The activation the outermost loop has started is in onDawnBuffer.       *)
Outer(st) == st[Len(st)]
BusyIn(st) == st # << >> /\ Outer(st).pc \in InProgramAt /\ Outer(st).via # "main"
FromMain(st) == st # << >> /\ Outer(st).via = "main"
Shallow(st) == Len(st) =< 1 /\ (st # << >> => Head(st).pc \notin InProgramAt)
(* The one that Flush has started does not parse, and gets no body.        *)
NestsToWrite(st) ==
  Len(st) = 2 => Head(st).pc \in {"read", "write"} /\ Head(st).via # "main"

Held(p) ==
  /\ p \in Nat /\ Part(rbuf, Stream, p)
  /\ p + Len(rbuf) =< taken
  /\ running => p + Len(rbuf) = taken
Bodies(d) == d =< Len(delivered) /\ \A k \in 1..d : delivered[k] = Fill(k, BodyLen(k))

AtFrame(d) == Held(End(d)) /\ (dawnCmdRLen > 0 <=> BusyIn(stack))
InFrame(d) ==
  /\ d < Len(script) /\ Held(End(d) + HDR)
  /\ dawnCmdRLen = BodyLen(d + 1) /\ Len(rbuf) < dawnCmdRLen
  /\ Shallow(stack)

Receiving ==
  /\ Len(delivered) =< Len(script)
  /\ Bodies(Len(delivered))
  /\ AtFrame(Len(delivered)) \/ InFrame(Len(delivered))
  /\ NestsToWrite(stack)
  /\ FromMain(stack) => delivered = << >>

(* The stack, as far as that depends on it.                                *)
Alike(st, new) ==
  /\ BusyIn(new) <=> BusyIn(st)
  /\ FromMain(new) => FromMain(st)
  /\ Shallow(st) => Shallow(new)
  /\ NestsToWrite(new)

LEMMA ReturnAlike ==
  ASSUME NEW st \in Seq(Frame), st # << >>, Len(st) =< 2, Head(st).pc \notin InProgramAt
  PROVE  Alike(st, Tail(st))
<1>1. Len(st) \in {1, 2} /\ Head(st) = st[1]
  BY Returned
<1>2. CASE Len(st) = 1
  <2>1. PICK rest : rest = Tail(st)
    OBVIOUS
  <2>2. rest = << >> /\ ~BusyIn(st) /\ Len(rest) =< 1 /\ Len(rest) # 2
    <3>1. Tail(st) = << >> /\ ~BusyIn(st)
      BY <1>1, <1>2, Returned DEF BusyIn, Outer
    <3>2. rest = << >>
      BY <2>1, <3>1
    <3>3. QED
      BY <3>1, <3>2
  <2>3. Alike(st, rest)
    BY <2>2 DEF Alike, BusyIn, FromMain, Shallow, NestsToWrite
  <2>4. QED
    BY <2>1, <2>3
<1>3. CASE Len(st) = 2
  <2>1. PICK rest : rest = Tail(st)
    OBVIOUS
  <2>2. Len(rest) = 1 /\ rest # << >> /\ rest[1] = st[2]
    BY <1>3, <2>1, Returned
  <2>3. Outer(rest) = Outer(st) /\ ~Shallow(st)
    BY <1>3, <2>2 DEF Outer, Shallow
  <2>4. QED
    BY <2>1, <2>2, <2>3 DEF Alike, BusyIn, FromMain, NestsToWrite
<1>4. QED
  BY <1>1, <1>2, <1>3

LEMMA GoAlike ==
  ASSUME NEW st \in Seq(Frame), st # << >>, Len(st) =< 2, NEW pc, NEW via,
         NEW new, new = [st EXCEPT ![1].pc = pc],
         pc \in InProgramAt <=> Head(st).pc \in InProgramAt,
         NestsToWrite(st), Len(st) = 2 => pc = "write"
  PROVE  Alike(st, new)
<1>1. Len(st) \in {1, 2} /\ Head(st) = st[1] /\ st[1] \in Frame
  BY Returned
<1>2. /\ new # << >> /\ Len(new) = Len(st) /\ Head(new) = new[1]
      /\ new[1].pc = pc /\ \A i \in 2..Len(st) : new[i] = st[i]
  BY GoneOn DEF Goes
<1>3. new[1].via = st[1].via
  BY <1>1 DEF Frame
<1>4. CASE Len(st) = 1
  <2>1. Outer(st) = st[1] /\ Outer(new) = new[1]
    BY <1>2, <1>4 DEF Outer
  <2>2. QED
    BY <1>1, <1>2, <1>3, <1>4, <2>1 DEF Alike, BusyIn, FromMain, Shallow, NestsToWrite
<1>5. CASE Len(st) = 2
  <2>1. Outer(new) = Outer(st) /\ ~Shallow(st)
    <3>1. 2 \in 2..2
      OBVIOUS
    <3>2. new[2] = st[2]
      BY <1>2, <1>5, <3>1
    <3>3. Outer(new) = new[2] /\ Outer(st) = st[2]
      BY <1>2, <1>5, Zenon DEF Outer
    <3>4. QED
      BY <1>5, <3>2, <3>3 DEF Shallow
  <2>2. NestsToWrite(new)
    BY <1>1, <1>2, <1>3, <1>5 DEF NestsToWrite
  <2>3. QED
    BY <1>2, <2>1, <2>2 DEF Alike, BusyIn, FromMain
<1>6. QED
  BY <1>1, <1>4, <1>5

LEMMA CallAlike ==
  ASSUME NEW st \in Seq(Frame), Len(st) = 1, NEW f \in Frame,
         f.pc \in {"read", "write"}, f.via = "loop", Head(st).pc \in InProgramAt
  PROVE  Alike(st, <<f>> \o st)
<1>1. PICK new : new = <<f>> \o st
  OBVIOUS
<1>2. Len(new) = 2 /\ new # << >> /\ Head(new) = f /\ new[2] = st[1]
  BY <1>1, Called
<1>3. st # << >> /\ Head(st) = st[1]
  BY EmptySeq
<1>4. Outer(new) = Outer(st) /\ ~Shallow(st)
  BY <1>2, <1>3 DEF Outer, Shallow
<1>5. NestsToWrite(new)
  BY <1>2 DEF NestsToWrite
<1>6. QED
  BY <1>1, <1>2, <1>3, <1>4, <1>5 DEF Alike, BusyIn, FromMain

LEMMA SameAlike ==
  ASSUME NestsToWrite(stack) PROVE Alike(stack, stack)
BY DEF Alike

LEMMA AlikeOnwards ==
  ASSUME NEW a, NEW b, NEW c, Alike(a, b), Alike(b, c) PROVE Alike(a, c)
BY DEF Alike

(* A step that leaves what is received as it is.                           *)
LEMMA StaysReceiving ==
  ASSUME SInv, Receiving, UNCHANGED <<rbuf, dawnCmdRLen, delivered, script>>,
         taken' \in Nat, taken =< taken', running' => running /\ taken' = taken,
         Alike(stack, stack')
  PROVE  Receiving'
<1>1. \A p : Held(p) => Held(p)'
  <2> SUFFICES ASSUME NEW p, Held(p) PROVE Held(p)'
    OBVIOUS
  <2>1. PICK l \in Nat, t \in Nat : l = Len(rbuf) /\ t = taken
    BY Types
  <2>2. p \in Nat /\ p + l =< t /\ (running => p + l = t)
    BY <2>1 DEF Held
  <2>3. p + l =< taken' /\ (running' => p + l = taken')
    BY <2>1, <2>2
  <2>4. Part(rbuf, Stream, p)'
    BY DEF Held, Part, Stream
  <2>5. QED
    BY <2>1, <2>2, <2>3, <2>4 DEF Held
<1>2. Len(delivered)' = Len(delivered) /\ \A d : Bodies(d) => Bodies(d)'
  BY DEF Bodies, BodyLen, Fill
<1>3. \A d : AtFrame(d) => AtFrame(d)'
  <2>1. \A d : End(d)' = End(d)
    BY DEF End
  <2>2. BusyIn(stack') <=> BusyIn(stack)
    BY DEF Alike
  <2>3. QED
    BY <1>1, <2>1, <2>2 DEF AtFrame
<1>4. \A d : InFrame(d) => InFrame(d)'
  <2>1. \A d : End(d)' = End(d) /\ BodyLen(d)' = BodyLen(d)
    BY DEF End, BodyLen
  <2>2. Shallow(stack) => Shallow(stack')
    BY DEF Alike
  <2>3. QED
    BY <1>1, <2>1, <2>2 DEF InFrame
<1>5. NestsToWrite(stack') /\ (FromMain(stack') => FromMain(stack))
  BY DEF Alike
<1>6. QED
  BY <1>2, <1>3, <1>4, <1>5 DEF Receiving
-----------------------------------------------------------------------------
(* The bytes in front, and what is handed over.                            *)

LEMMA HeaderInFront ==
  ASSUME SInv, Numbered(script), NEW d \in Nat, d =< Len(script), Held(End(d)),
         rbuf # << >>
  PROVE  /\ d < Len(script) /\ rbuf[1] = MSGT_DAWNCMD
         /\ Len(rbuf) >= HDR => rbuf[2] = BodyLen(d + 1)
<1>1. PICK l \in Nat, m \in Nat : l = Len(rbuf) /\ m = Len(script)
  BY Types
<1>2. l > 0
  <2>1. l # 0
    BY <1>1, Types, EmptySeq
  <2>2. QED
    BY <1>1, <2>1
<1>3. script \in Scripts /\ HDR \in Nat /\ HDR > 1
  BY Types, Sizes
<1>4. /\ End(d) + l =< Len(Stream)
      /\ \A i \in 1..l : rbuf[i] = Stream[End(d) + i]
  BY <1>1 DEF Held, Part
<1>5. d # m
  <2> SUFFICES ASSUME d = m PROVE FALSE
    OBVIOUS
  <2>1. End(d) = Len(Stream) /\ Len(Stream) \in Nat
    BY <1>1, <1>3, EndOrder, Types
  <2>2. QED
    BY <1>1, <1>2, <1>4, <2>1
<1>6. d < m /\ d + 1 \in 1..Len(script) /\ (d + 1) - 1 = d
  BY <1>1, <1>5
<1>7. PICK b \in Nat, n \in 1..MAX :
        b = End(d) /\ n = BodyLen(d + 1) /\ FrameIn(Stream, b, d + 1, n)
  BY <1>3, <1>6, ScriptFrame
<1>8. rbuf[1] = MSGT_DAWNCMD
  <2>1. 1 \in 1..l
    BY <1>1, <1>2
  <2>2. rbuf[1] = Stream[b + 1]
    BY <1>4, <1>7, <2>1
  <2>3. QED
    BY <1>7, <2>2 DEF FrameIn
<1>9. ASSUME Len(rbuf) >= HDR PROVE rbuf[2] = BodyLen(d + 1)
  <2>1. 2 \in 1..l
    BY <1>1, <1>3, <1>9
  <2>2. rbuf[2] = Stream[b + 2]
    BY <1>4, <1>7, <2>1
  <2>3. QED
    BY <1>7, <2>2 DEF FrameIn
<1>10. QED
  BY <1>1, <1>6, <1>8, <1>9

(* The length of the body that comes next, and its bytes.                  *)
LEMMA BodyInFront ==
  ASSUME SInv, Numbered(script), NEW d \in Nat, d < Len(script),
         NEW buf \in Seq(Nat), Part(buf, Stream, End(d) + HDR)
  PROVE  \E n \in 1..MAX :
           /\ n = BodyLen(d + 1) /\ End(d) \in Nat /\ End(d + 1) = End(d) + HDR + n
           /\ End(d + 1) =< Len(Stream)
           /\ d + 1 < MSGT_DAWNCMD
           /\ \A i \in 1..n : i =< Len(buf) => buf[i] = d + 1
<1>1. PICK l \in Nat, m \in Nat : l = Len(buf) /\ m = Len(script)
  BY Types
<1>2. d < m /\ d + 1 \in 1..Len(script) /\ (d + 1) - 1 = d
  BY <1>1
<1>3. script \in Scripts
  BY Types
<1>4. PICK b \in Nat, n \in 1..MAX :
        /\ b = End(d) /\ n = BodyLen(d + 1) /\ End(d + 1) = b + HDR + n
        /\ b + HDR + n =< Len(Stream)
        /\ FrameIn(Stream, b, d + 1, n) /\ d + 1 < MSGT_DAWNCMD
  BY <1>2, <1>3, ScriptFrame
<1>5. \A i \in 1..l : buf[i] = Stream[b + HDR + i]
  BY <1>1, <1>4 DEF Part
<1>6. \A i \in 1..n : Stream[b + HDR + i] = d + 1
  BY <1>4 DEF FrameIn
<1>7. \A i \in 1..n : i =< Len(buf) => buf[i] = d + 1
  BY <1>1, <1>5, <1>6
<1>8. QED
  BY <1>4, <1>7

LEMMA DeliverReceiving ==
  ASSUME SInv, Numbered(script), Bodies(Len(delivered)), Len(delivered) < Len(script),
         NEW buf \in Seq(Nat), Part(buf, Stream, End(Len(delivered)) + HDR),
         NEW n \in Nat, n = BodyLen(Len(delivered) + 1), n =< Len(buf),
         NEW via \in {"readMsg", "doIO"}, Deliver(buf, n, via),
         script' = script, Len(stack) = 1,
         End(Len(delivered)) + HDR + Len(buf) =< taken',
         running' => End(Len(delivered)) + HDR + Len(buf) = taken'
  PROVE  Receiving'
<1>1. PICK d \in Nat, l \in Nat, m \in Nat :
        d = Len(delivered) /\ l = Len(buf) /\ m = Len(script) /\ d < m
  BY Types
<1>2. /\ n \in 1..MAX /\ End(d) \in Nat /\ End(d + 1) = End(d) + HDR + n
      /\ End(d + 1) =< Len(Stream)
      /\ \A i \in 1..n : buf[i] = d + 1
  <2>1. \E k \in 1..MAX :
           /\ k = BodyLen(d + 1) /\ End(d) \in Nat /\ End(d + 1) = End(d) + HDR + k
           /\ End(d + 1) =< Len(Stream)
           /\ \A i \in 1..k : i =< Len(buf) => buf[i] = d + 1
    BY <1>1, BodyInFront
  <2>2. \A i \in 1..n : i =< Len(buf)
    OBVIOUS
  <2>3. QED
    BY <1>1, <2>1, <2>2
<1>3. HDR \in Nat /\ n \in 0..Len(buf) /\ n > 0
  BY <1>2, Sizes
<1>4. PICK body \in Seq(Nat) : body = SubSeq(buf, 1, n) /\ body = Fill(d + 1, n)
  <2>1. SubSeq(buf, 1, n) \in Seq(Nat) /\ Len(SubSeq(buf, 1, n)) = n
        /\ \A i \in 1..n : SubSeq(buf, 1, n)[i] = buf[i]
    BY <1>3
  <2>2. PICK body \in Seq(Nat) : body = SubSeq(buf, 1, n)
    BY <2>1
  <2>3. Len(body) = n /\ \A i \in 1..Len(body) : body[i] = d + 1
    BY <1>2, <2>1, <2>2
  <2>4. body = Fill(d + 1, Len(body))
    BY <2>3, AllTheSame
  <2>5. QED
    BY <2>2, <2>3, <2>4
<1>5. PICK del \in Seq(Seq(Nat)), new \in Seq(Seq(Nat)) :
        del = delivered /\ new = delivered' /\ new = Append(del, body)
  <2>1. PICK del \in Seq(Seq(Nat)) : del = delivered
    BY Types
  <2>2. Append(del, body) \in Seq(Seq(Nat))
    BY <1>4, <2>1
  <2>3. delivered' = Append(del, body)
    BY <1>4, <2>1 DEF Deliver
  <2>4. QED
    BY <2>1, <2>2, <2>3
<1>6. /\ Len(new) = d + 1 /\ new[d + 1] = Fill(d + 1, n)
      /\ \A k \in 1..d : new[k] = del[k]
  <2>1. /\ Len(Append(del, body)) = Len(del) + 1
        /\ Append(del, body)[Len(del) + 1] = body
        /\ \A i \in 1..Len(del) : Append(del, body)[i] = del[i]
    BY AppendPlaces
  <2>2. QED
    BY <1>1, <1>4, <1>5, <2>1, Zenon
<1>7. Bodies(d + 1)'
  <2>1. \A k \in 1..d : del[k] = Fill(k, BodyLen(k))
    BY <1>1, <1>5 DEF Bodies
  <2>2. \A k \in 1..d + 1 : k \in 1..d \/ k = d + 1
    OBVIOUS
  <2>3. \A k \in 1..d + 1 : new[k] = Fill(k, BodyLen(k))
    BY <1>1, <1>6, <2>1, <2>2
  <2>4. d + 1 =< Len(new)
    BY <1>6
  <2>5. QED
    BY <1>5, <2>3, <2>4 DEF Bodies, BodyLen
<1>8. /\ stack \in Seq(Frame) /\ stack # << >>
      /\ stack' = [stack EXCEPT ![1].pc = "app", ![1].via = via]
  <2>1. stack \in Seq(Frame)
    BY Types
  <2>2. stack # << >>
    <3>1. Len(<< >>) = 0 /\ 1 # 0
      OBVIOUS
    <3>2. QED
      BY <3>1, Zenon
  <2>3. QED
    BY <2>1, <2>2 DEF Deliver
<1>9. stack' # << >> /\ Len(stack') = 1 /\ stack'[1].pc = "app" /\ stack'[1].via = via
  <2>1. PICK st, nst : st \in Seq(Frame) /\ st = stack /\ nst = stack'
    BY <1>8
  <2>2. nst = [st EXCEPT ![1].pc = "app", ![1].via = via] /\ Len(st) = 1 /\ st # << >>
    BY <1>8, <2>1
  <2>3. Goes(st, nst, "app", via)
    BY <2>2 DEF Goes
  <2>4. nst # << >> /\ Len(nst) = 1 /\ nst[1].pc = "app"
    BY <2>2, <2>3, GoneOn
  <2>5. nst[1].via = via
    <3>1. st[1] \in Frame /\ DOMAIN st = 1..1
      BY <2>1, <2>2
    <3>2. nst[1] = [st[1] EXCEPT !.pc = "app", !.via = via]
      BY <2>2, <3>1
    <3>3. QED
      BY <3>1, <3>2 DEF Frame
  <2>6. QED
    BY <2>1, <2>4, <2>5
<1>10. BusyIn(stack') /\ ~FromMain(stack') /\ NestsToWrite(stack')
  <2>1. Outer(stack').pc = "app" /\ Outer(stack').via = via
    BY <1>9 DEF Outer
  <2>2. "app" \in InProgramAt /\ via # "main"
    BY DEF InProgramAt
  <2>3. Len(stack') # 2
    BY <1>9
  <2>4. QED
    BY <1>9, <2>1, <2>2, <2>3 DEF BusyIn, FromMain, NestsToWrite
<1>11. Held(End(d + 1))'
  <2>1. PICK p \in Nat : p = End(d) + HDR
    BY <1>2, <1>3
  <2>2. PICK rest \in Seq(Nat) : /\ rest = SubSeq(buf, n + 1, Len(buf)) /\ Len(rest) = l - n
                                 /\ Part(rest, Stream, p + n)
    <3>1. Stream \in Seq(Nat) /\ Part(buf, Stream, p)
      BY <1>1, <2>1, Types
    <3>2. QED
      BY <1>1, <1>3, <3>1, DropPart
  <2>3. /\ p + n = End(d + 1) /\ p + n \in Nat
        /\ (p + n) + (l - n) = p + l
    <3>1. p + n = End(d + 1)
      BY <1>2, <2>1, Zenon
    <3>2. \A x, y, z \in Nat : x + y \in Nat /\ (x + y) + (z - y) = x + z
      OBVIOUS
    <3>3. p \in Nat /\ n \in Nat /\ l \in Nat
      BY <1>1, <2>1
    <3>4. p + n \in Nat /\ (p + n) + (l - n) = p + l
      BY <3>2, <3>3, Zenon
    <3>5. QED
      BY <3>1, <3>4, Zenon
  <2>4. p + l =< taken' /\ (running' => p + l = taken')
    BY <1>1, <2>1
  <2>5. rbuf' = rest /\ Stream' = Stream /\ End(d + 1)' = End(d + 1)
    BY <2>2 DEF Deliver, Stream, End
  <2>6. p + n + Len(rest) = p + l
    BY <1>1, <2>1, <2>2, <2>3
  <2>7. QED
    BY <2>2, <2>3, <2>4, <2>5, <2>6 DEF Held
<1>12. dawnCmdRLen' > 0
  BY <1>3 DEF Deliver
<1>13. AtFrame(d + 1)'
  BY <1>10, <1>11, <1>12 DEF AtFrame
<1>14. Len(delivered') = d + 1 /\ d + 1 =< Len(script')
  BY <1>1, <1>5, <1>6
<1>15. QED
  BY <1>7, <1>10, <1>13, <1>14 DEF Receiving
-----------------------------------------------------------------------------
(* The endpoint's steps. *)

LEMMA StillReceiving ==
  ASSUME Receiving, delivered' = delivered, script' = script, Alike(stack, stack'),
         AtFrame(Len(delivered))' \/ InFrame(Len(delivered))'
  PROVE  Receiving'
<1>1. Bodies(Len(delivered)) => Bodies(Len(delivered))'
  BY DEF Bodies, BodyLen, Fill
<1>2. NestsToWrite(stack') /\ (FromMain(stack') => FromMain(stack))
  BY DEF Alike
<1>3. QED
  BY <1>1, <1>2 DEF Receiving

LEMMA AtTop ==
  ASSUME SInv, NEW pc, At(pc)
  PROVE  /\ stack \in Seq(Frame) /\ stack # << >> /\ Len(stack) =< 2
         /\ Len(stack) \in {1, 2} /\ Head(stack) = stack[1] /\ Head(stack).pc = pc
         /\ 1 \in 1..Len(stack) /\ Top = Head(stack)
<1>1. stack # << >> /\ Top.pc = pc /\ stack \in Seq(Frame) /\ Len(stack) =< 2
  BY Types DEF At
<1>2. QED
  BY <1>1, OneOrTwo DEF Top

(* What is read goes behind what waits.                                    *)
LEMMA FilledHeld ==
  ASSUME SInv, running, NEW p, Held(p), taken' = taken + Got
  PROVE  Part(Filled, Stream, p) /\ p + Len(Filled) = taken' /\ taken' \in Nat
<1>1. PICK s \in Seq(Nat), t \in Nat, g \in Nat, l \in Nat, m \in Nat :
        s = Stream /\ t = taken /\ g = Got /\ l = Len(rbuf) /\ m = Len(s)
  BY Types, ReadSizes
<1>2. PICK b \in Seq(Nat) : b = rbuf /\ Len(b) = l
  BY <1>1, Types
<1>3. p \in Nat /\ Part(b, s, p) /\ t = p + l
  BY <1>1, <1>2 DEF Held
<1>4. g \in 0..m - t
  <2>1. g =< arrived - taken /\ arrived \in Nat /\ arrived =< m
    BY <1>1, ReadSizes, Types
  <2>2. QED
    BY <1>1, <2>1
<1>5. PICK all \in Seq(Nat) :
        all = b \o SubSeq(s, t + 1, t + g) /\ Len(all) = l + g /\ Part(all, s, p)
  <2>1. LET new == b \o SubSeq(s, t + 1, t + g)
        IN new \in Seq(Nat) /\ Len(new) = Len(b) + g /\ Part(new, s, p)
    <3>1. g \in 0..Len(s) - t /\ t = p + Len(b)
      BY <1>1, <1>2, <1>3, <1>4, Zenon
    <3>2. b \in Seq(Nat) /\ s \in Seq(Nat) /\ p \in Nat /\ t \in Nat
      BY <1>1, <1>2, <1>3
    <3>3. QED
      BY <1>3, <3>1, <3>2, FillUpPart, Zenon
  <2>2. QED
    BY <1>2, <2>1, Zenon
<1>6. all = Filled
  BY <1>1, <1>2, <1>5 DEF Filled
<1>7. p + (l + g) = t + g /\ t + g \in Nat
  BY <1>3
<1>8. QED
  BY <1>1, <1>5, <1>6, <1>7

LEMMA ReadReceiving ==
  ASSUME SInv, Numbered(script), Receiving, doIORead, Len(stack) = 2 => Got = 0
  PROVE  Receiving'
<1>1. /\ stack \in Seq(Frame) /\ stack # << >> /\ Len(stack) =< 2
      /\ Len(stack) \in {1, 2} /\ Head(stack) = stack[1] /\ Head(stack).pc = "read"
      /\ Top.pc = "read"
  BY AtTop DEF doIORead
<1>2. running /\ script' = script /\ taken' = taken + Got
  BY <1>1 DEF doIORead, SInv, RInv, Reading, peer
<1>3. Got \in Nat /\ taken \in Nat /\ taken' \in Nat /\ taken =< taken'
  <2>1. PICK g \in Nat, t \in Nat : g = Got /\ t = taken
    BY ReadSizes, Types
  <2>2. t + g \in Nat /\ t =< t + g
    OBVIOUS
  <2>3. QED
    BY <1>2, <2>1, <2>2
<1>4. "read" \notin InProgramAt /\ "parse" \notin InProgramAt /\ "write" \notin InProgramAt
  BY DEF InProgramAt
<1>5. CASE stop /\ Return /\ UNCHANGED <<reading, program>>
  <2>1. UNCHANGED <<rbuf, dawnCmdRLen, delivered, script>> /\ ~running'
    BY <1>2, <1>5 DEF reading, program, stop
  <2>2. Alike(stack, stack')
    BY <1>1, <1>4, <1>5, ReturnAlike DEF Return
  <2>3. QED
    BY <1>3, <2>1, <2>2, StaysReceiving
<1>6. CASE Got > 0 /\ ~ReadFails
  <2>1. Len(stack) = 1 /\ ~BusyIn(stack)
    BY <1>1, <1>3, <1>4, <1>6 DEF BusyIn, Outer
  <2>2. PICK d \in Nat : d = Len(delivered) /\ d =< Len(script)
    BY Types DEF Receiving
  <2>3. NestsToWrite(stack)
    BY DEF Receiving
  <2>4. ASSUME NEW pc, Goto(pc), pc \notin InProgramAt PROVE Alike(stack, stack')
    <3>1. stack' = [stack EXCEPT ![1].pc = pc] /\ Len(stack) # 2
      BY <2>1, <2>4 DEF Goto
    <3>2. pc \in InProgramAt <=> Head(stack).pc \in InProgramAt
      BY <1>1, <1>4, <2>4
    <3>3. QED
      BY <1>1, <2>3, <3>1, <3>2, GoAlike
  <2>5. \A p : Held(p) /\ rbuf' = Filled => Held(p)'
    <3> SUFFICES ASSUME NEW p, Held(p), rbuf' = Filled PROVE Held(p)'
      OBVIOUS
    <3>1. Part(Filled, Stream, p) /\ p + Len(Filled) = taken' /\ taken' \in Nat
      BY <1>2, FilledHeld
    <3>2. Part(rbuf, Stream, p)'
      BY <1>2, <3>1 DEF Part, Stream
    <3>3. p \in Nat
      BY DEF Held
    <3>4. QED
      BY <3>1, <3>2, <3>3 DEF Held
  <2>6. CASE AtFrame(d)
    <3>1. dawnCmdRLen = 0
      BY <2>1, <2>6, Types DEF AtFrame
    <3>2. rbuf' = Filled /\ Goto("parse") /\ UNCHANGED <<dawnCmdRLen, delivered>>
      BY <1>5, <1>6, <3>1 DEF doIORead
    <3>3. Alike(stack, stack')
      BY <1>4, <2>4, <3>2
    <3>4. Held(End(d))'
      <4>1. PICK p : p = End(d)
        OBVIOUS
      <4>2. Held(p)' /\ End(d)' = p
        BY <1>2, <2>5, <2>6, <3>2, <4>1 DEF AtFrame, End
      <4>3. QED
        BY <4>2 DEF Held
    <3>5. ~BusyIn(stack')
      BY <2>1, <3>3 DEF Alike
    <3>6. AtFrame(d)'
      BY <3>1, <3>2, <3>4, <3>5 DEF AtFrame
    <3>7. QED
      BY <1>2, <2>2, <3>2, <3>3, <3>6, StillReceiving
  <2>7. CASE InFrame(d)
    <3>1. PICK n \in Nat, l \in Nat : n = dawnCmdRLen /\ l = Len(rbuf) /\ l < n
      BY <2>7, Types DEF InFrame
    <3>2. n > 0 /\ n = BodyLen(d + 1) /\ d < Len(script) /\ Held(End(d) + HDR)
      BY <2>7, <3>1 DEF InFrame
    <3>3. CASE ~Complete(Filled, n)
      <4>1. rbuf' = Filled /\ Goto("write") /\ UNCHANGED <<dawnCmdRLen, delivered>>
        BY <1>5, <1>6, <3>1, <3>2, <3>3 DEF doIORead
      <4>2. Alike(stack, stack')
        BY <1>4, <2>4, <4>1
      <4>3. Held(End(d) + HDR)'
        <5>1. PICK p : p = End(d) + HDR
          OBVIOUS
        <5>2. Held(p)' /\ (End(d) + HDR)' = p
          BY <1>2, <2>5, <3>2, <4>1, <5>1 DEF End
        <5>3. QED
          BY <5>2 DEF Held
      <4>4. Len(rbuf') < n
        BY <3>1, <3>3, <4>1, ReadSizes DEF Complete
      <4>5. Shallow(stack')
        BY <2>7, <4>2 DEF InFrame, Alike
      <4>6. InFrame(d)'
        BY <1>2, <3>1, <3>2, <4>1, <4>3, <4>4, <4>5 DEF InFrame, BodyLen
      <4>7. QED
        BY <1>2, <2>2, <4>1, <4>2, <4>6, StillReceiving
    <3>4. CASE Complete(Filled, n)
      <4>1. Deliver(Filled, n, "doIO")
        BY <1>5, <1>6, <3>1, <3>2, <3>4 DEF doIORead
      <4>2. PICK buf \in Seq(Nat) : buf = Filled
        BY ReadSizes
      <4>3. PICK p : p = End(d) + HDR /\ Held(p)
        BY <3>2
      <4>4. Part(buf, Stream, p) /\ p + Len(buf) = taken'
        BY <1>2, <4>2, <4>3, FilledHeld
      <4>5. Part(buf, Stream, End(d) + HDR) /\ End(d) + HDR + Len(buf) = taken'
        BY <4>3, <4>4
      <4>6. n =< Len(buf) /\ End(d) + HDR + Len(buf) =< taken'
        BY <1>3, <3>1, <3>4, <4>2, <4>5 DEF Complete
      <4>7. Deliver(buf, n, "doIO") /\ Bodies(d)
        BY <2>2, <4>1, <4>2 DEF Receiving
      <4>8. QED
        BY <1>2, <2>1, <2>2, <3>1, <3>2, <4>5, <4>6, <4>7, DeliverReceiving
    <3>5. QED
      BY <3>3, <3>4
  <2>8. QED
    BY <2>2, <2>6, <2>7 DEF Receiving
<1>7. QED
  BY <1>5, <1>6 DEF doIORead

(* A step that only leaves the stack as it depends on it.                  *)
LEMMA QuietReceiving ==
  ASSUME SInv, Receiving,
         UNCHANGED <<rbuf, dawnCmdRLen, delivered, script, taken>>,
         running' => running, Alike(stack, stack')
  PROVE  Receiving'
<1>1. PICK t \in Nat : t = taken
  BY Types
<1>2. taken' \in Nat /\ taken =< taken'
  BY <1>1
<1>3. QED
  BY <1>2, StaysReceiving

(* What is parsed when the peer numbers its command buffers.               *)
LEMMA ParsesAlone ==
  ASSUME SInv, Receiving, At("parse")
  PROVE  /\ Len(stack) = 1 /\ ~BusyIn(stack) /\ Shallow(stack)
         /\ Head(stack).pc \notin InProgramAt
<1>1. Head(stack).pc = "parse" /\ Len(stack) \in {1, 2} /\ Head(stack) = stack[1]
  BY AtTop
<1>2. Len(stack) = 1
  BY <1>1 DEF Receiving, NestsToWrite
<1>3. QED
  BY <1>1, <1>2 DEF BusyIn, Outer, Shallow, InProgramAt

LEMMA ParsesFrame ==
  ASSUME SInv, Numbered(script), Receiving, At("parse"), rbuf # << >>,
         rbuf[1] \in {MSGT_DAWNCMD, MSGT_FRAME_SIGNAL, MSGT_FB_INFO, MSGT_RESERVATION}
  PROVE  /\ AtFrame(Len(delivered)) /\ Len(delivered) < Len(script)
         /\ rbuf[1] = MSGT_DAWNCMD
         /\ Len(rbuf) >= HDR => rbuf[2] = BodyLen(Len(delivered) + 1)
<1>1. PICK d \in Nat : d = Len(delivered) /\ d =< Len(script) /\ (AtFrame(d) \/ InFrame(d))
  BY Types DEF Receiving
<1>2. ASSUME InFrame(d) PROVE FALSE
  <2>1. d < Len(script) /\ Part(rbuf, Stream, End(d) + HDR) /\ rbuf \in Seq(Nat)
    BY <1>2, Types DEF InFrame, Held
  <2>2. PICK n \in 1..MAX :
          d + 1 < MSGT_DAWNCMD /\ \A i \in 1..n : i =< Len(rbuf) => rbuf[i] = d + 1
    BY <2>1, BodyInFront
  <2>3. MAX \in Nat /\ Len(rbuf) \in Nat /\ Len(rbuf) # 0
    BY <2>1, Sizes, EmptySeq
  <2>4. 1 \in 1..n /\ 1 =< Len(rbuf)
    BY <2>3
  <2>5. rbuf[1] = d + 1
    BY <2>2, <2>4
  <2>6. QED
    BY <2>2, <2>5 DEF MSGT_DAWNCMD, MSGT_FRAME_SIGNAL, MSGT_FB_INFO, MSGT_RESERVATION
<1>3. AtFrame(d) /\ Held(End(d))
  BY <1>1, <1>2 DEF AtFrame
<1>4. QED
  BY <1>1, <1>3, HeaderInFront

LEMMA DawnCmdReceiving ==
  ASSUME SInv, Numbered(script), Receiving, readMsgDawnCmd
  PROVE  Receiving'
<1>1. /\ Len(stack) = 1 /\ ~BusyIn(stack) /\ Shallow(stack) /\ Alike(stack, stack)
  BY ParsesAlone, SameAlike DEF readMsgDawnCmd, Parsing, Receiving
<1>2. UNCHANGED <<script, taken, running>>
  BY DEF readMsgDawnCmd, loop, peer, socket
<1>3. CASE UNCHANGED <<reading, program, stack>>
  <2>1. UNCHANGED <<rbuf, dawnCmdRLen, delivered>>
    BY <1>3 DEF reading, program
  <2>2. QED
    BY <1>1, <1>2, <1>3, <2>1, QuietReceiving
<1>4. CASE Len(rbuf) >= HDR
  <2>1. PICK d \in Nat : d = Len(delivered)
    BY Types
  <2>2. /\ rbuf # << >> /\ At("parse") /\ rbuf[1] = MSGT_DAWNCMD
    BY DEF readMsgDawnCmd, Parsing
  <2>3. AtFrame(d) /\ d < Len(script) /\ rbuf[2] = BodyLen(d + 1)
    BY <1>4, <2>1, <2>2, ParsesFrame
  <2>4. PICK p \in Nat, t \in Nat, b \in Seq(Nat) :
          /\ p = End(d) /\ Held(p) /\ t = taken /\ b = rbuf
    BY <2>3, Types DEF AtFrame, Held
  <2>5. Part(b, Stream, p) /\ p + Len(b) =< t /\ (running => p + Len(b) = t)
    BY <2>4 DEF Held
  <2>6. PICK h \in Nat, l \in Nat : h = HDR /\ l = Len(b) /\ h =< l /\ h \in 0..Len(b)
    <3>1. HDR \in Nat /\ HDR =< Len(b)
      BY <1>4, <2>4, Sizes
    <3>2. QED
      BY <3>1
  <2>7. PICK rest \in Seq(Nat) : /\ rest = SubSeq(rbuf, HDR + 1, Len(rbuf))
                                 /\ Len(rest) = l - h /\ Part(rest, Stream, p + h)
    <3>1. Stream \in Seq(Nat)
      BY Types
    <3>2. LET left == SubSeq(b, h + 1, Len(b))
          IN left \in Seq(Nat) /\ Len(left) = Len(b) - h /\ Part(left, Stream, p + h)
      BY <2>5, <2>6, <3>1, DropPart, Zenon
    <3>3. QED
      BY <2>4, <2>6, <3>2, Zenon
  <2>8. p + h \in Nat /\ p + h + Len(rest) =< t /\ (running => p + h + Len(rest) = t)
    <3>1. p + h \in Nat /\ (p + h) + (l - h) = p + l
      OBVIOUS
    <3>2. QED
      BY <2>5, <2>6, <2>7, <3>1
  <2>9. PICK n \in 1..MAX : n = BodyLen(d + 1) /\ n = rbuf[2]
    <3>1. Part(rest, Stream, End(d) + HDR)
      BY <2>4, <2>6, <2>7
    <3>2. QED
      BY <2>3, <3>1, BodyInFront
  <2>10. AssertRLen(n)
    BY <2>9, Sizes DEF AssertRLen
  <2>11. /\ ~(Len(rbuf) < HDR) /\ AssertRLen(rbuf[2])
         /\ SubSeq(rbuf, HDR + 1, Len(rbuf)) = rest /\ rbuf[2] = n
    <3>1. ~(Len(rbuf) < HDR)
      BY <1>4, Numbers
    <3>2. QED
      BY <2>7, <2>9, <2>10, <3>1, Zenon
  <2>12. CASE ~Complete(rest, n)
    <3>1. rbuf' = rest /\ dawnCmdRLen' = n /\ UNCHANGED <<delivered, stack>>
      BY <2>11, <2>12, Zenon DEF readMsgDawnCmd, program
    <3>2. Held(End(d) + HDR)'
      <4>1. Stream' = Stream /\ (End(d) + HDR)' = p + h
        BY <1>2, <2>4, <2>6 DEF Stream, End
      <4>2. Part(rbuf, Stream, p + h)'
        BY <2>7, <3>1, <4>1 DEF Part
      <4>3. QED
        BY <1>2, <2>4, <2>8, <3>1, <4>1, <4>2 DEF Held
    <3>3. Len(rbuf') < dawnCmdRLen'
      BY <2>9, <2>12, <3>1, Sizes DEF Complete
    <3>4. InFrame(d)'
      BY <1>1, <1>2, <2>3, <2>9, <3>1, <3>2, <3>3 DEF InFrame, BodyLen
    <3>5. QED
      BY <1>1, <1>2, <2>1, <3>1, <3>4, StillReceiving
  <2>13. CASE Complete(rest, n)
    <3>1. Deliver(rest, n, "readMsg")
      BY <2>11, <2>13, Zenon DEF readMsgDawnCmd
    <3>2. n \in Nat /\ n =< Len(rest)
      BY <2>13, Sizes DEF Complete
    <3>3. /\ Part(rest, Stream, End(d) + HDR)
          /\ End(d) + HDR + Len(rest) =< taken'
          /\ running' => End(d) + HDR + Len(rest) = taken'
      BY <1>2, <2>4, <2>6, <2>7, <2>8
    <3>4. Bodies(d)
      BY <2>1 DEF Receiving
    <3>5. QED
      BY <1>1, <1>2, <2>1, <2>3, <2>9, <3>1, <3>2, <3>3, <3>4, DeliverReceiving
  <2>14. QED
    BY <2>12, <2>13
<1>5. QED
  BY <1>3, <1>4, Numbers DEF readMsgDawnCmd

LEMMA ParseReceiving ==
  ASSUME SInv, Numbered(script), Receiving,
         \/ readMsgDone \/ readMsgFbInfo \/ readMsgReservation \/ readMsgFrameSignal
         \/ readMsgDawnCmd \/ readMsgUnexpected
  PROVE  Receiving'
<1>1. CASE readMsgDone
  <2>1. /\ stack \in Seq(Frame) /\ stack # << >> /\ Len(stack) =< 2
        /\ Len(stack) = 1 /\ Head(stack).pc \notin InProgramAt
    BY <1>1, AtTop, ParsesAlone DEF readMsgDone
  <2>2. Alike(stack, stack')
    <3>1. stack' = [stack EXCEPT ![1].pc = "write"] /\ Len(stack) # 2 /\ NestsToWrite(stack)
      BY <1>1, <2>1 DEF readMsgDone, Goto, Receiving
    <3>2. "write" \in InProgramAt <=> Head(stack).pc \in InProgramAt
      BY <2>1 DEF InProgramAt
    <3>3. QED
      BY <2>1, <3>1, <3>2, GoAlike
  <2>3. QED
    BY <1>1, <2>2, QuietReceiving DEF readMsgDone, reading, program, peer, socket, loop
<1>2. CASE readMsgUnexpected
  <2>1. /\ stack \in Seq(Frame) /\ stack # << >> /\ Len(stack) =< 2
        /\ Head(stack).pc \notin InProgramAt
    BY <1>2, AtTop, ParsesAlone DEF readMsgUnexpected
  <2>2. Alike(stack, stack')
    BY <1>2, <2>1, ReturnAlike DEF readMsgUnexpected, Return
  <2>3. QED
    BY <1>2, <2>2, QuietReceiving
    DEF readMsgUnexpected, reading, program, peer, socket, stop
<1>3. CASE readMsgFbInfo \/ readMsgReservation \/ readMsgFrameSignal
  <2>1. At("parse") /\ rbuf # << >>
        /\ rbuf[1] \in {MSGT_FRAME_SIGNAL, MSGT_FB_INFO, MSGT_RESERVATION}
    BY <1>3 DEF readMsgFbInfo, readMsgReservation, readMsgFrameSignal, Parsing
  <2>2. rbuf[1] = MSGT_DAWNCMD
    BY <2>1, ParsesFrame
  <2>3. QED
    BY <2>1, <2>2 DEF MSGT_DAWNCMD, MSGT_FRAME_SIGNAL, MSGT_FB_INFO, MSGT_RESERVATION
<1>4. QED
  BY <1>1, <1>2, <1>3, DawnCmdReceiving

LEMMA WriteReceiving ==
  ASSUME SInv, Receiving,
         \/ doIONoWrite \/ doIOWriteClosed \/ doIOFlushMore \/ doIODrain \/ doIODrainError
  PROVE  Receiving'
<1>1. UNCHANGED <<rbuf, dawnCmdRLen, delivered, script, taken>> /\ (running' => running)
  BY DEF doIONoWrite, doIOWriteClosed, doIOFlushMore, doIODrain, doIODrainError, Fail,
         reading, program, peer, socket, loop
<1>2. At("write") /\ (Return \/ stack' = stack)
  BY DEF doIONoWrite, doIOWriteClosed, doIOFlushMore, doIODrain, doIODrainError, Fail
<1>3. Alike(stack, stack')
  <2>1. /\ stack \in Seq(Frame) /\ stack # << >> /\ Len(stack) =< 2
        /\ Head(stack).pc \notin InProgramAt
    BY <1>2, AtTop DEF InProgramAt
  <2>2. CASE Return
    BY <2>1, <2>2, ReturnAlike DEF Return
  <2>3. CASE stack' = stack
    BY <2>3, SameAlike DEF Receiving
  <2>4. QED
    BY <1>2, <2>2, <2>3
<1>4. QED
  BY <1>1, <1>3, QuietReceiving

(* The program flushes from the activation at the bottom only.             *)
LEMMA ProgramAlone ==
  ASSUME SInv, Receiving, NEW pc \in InProgramAt, At(pc)
  PROVE  Len(stack) = 1 /\ Head(stack) = stack[1] /\ Outer(stack) = stack[1]
<1>1. Head(stack).pc = pc /\ Len(stack) \in {1, 2} /\ Head(stack) = stack[1]
  BY AtTop
<1>2. Len(stack) = 1
  BY <1>1 DEF Receiving, NestsToWrite, InProgramAt
<1>3. QED
  BY <1>1, <1>2 DEF Outer

LEMMA ResumedAlike ==
  ASSUME SInv, Receiving, NEW pc \in InProgramAt, At(pc)
  PROVE  /\ Alike(stack, Resumed) /\ Resumed \in Seq(Frame) /\ Len(Resumed) = 1
         /\ Head(Resumed).pc \in InProgramAt
<1>1. /\ stack \in Seq(Frame) /\ stack # << >> /\ Len(stack) =< 2
      /\ Head(stack).pc \in InProgramAt /\ Len(stack) = 1
  BY AtTop, ProgramAlone
<1>2. PICK to : to = (IF Server THEN "return" ELSE "app") /\ to \in InProgramAt
  BY DEF InProgramAt
<1>3. Resumed = [stack EXCEPT ![1].pc = to]
  BY <1>2 DEF Resumed
<1>4. Len(stack) # 2 /\ NestsToWrite(stack)
  BY <1>1 DEF Receiving
<1>5. Alike(stack, Resumed)
  BY <1>1, <1>2, <1>3, <1>4, GoAlike
<1>6. Len(Resumed) = 1
  BY <1>1, <1>3
<1>7. Resumed \in Seq(Frame) /\ Head(Resumed).pc \in InProgramAt
  BY <1>1, ResumedStack DEF SInv, RInv, Frames, InProgramAt
<1>8. QED
  BY <1>5, <1>6, <1>7

LEMMA LoopReceiving ==
  ASSUME SInv, Receiving, Loop
  PROVE  Receiving'
<1>1. /\ UNCHANGED <<rbuf, dawnCmdRLen, delivered, script, taken, running>>
  BY DEF Loop, Poll, NestedPoll, NestedPollStopped, Fail, reading, program, peer, socket, loop
<1>2. /\ Dispatch \in Frame /\ Dispatch.pc \in {"read", "write"} /\ Dispatch.via = "loop"
      /\ Dispatch.pc \notin InProgramAt
  <2>1. Writable \in BOOLEAN
    BY DEF Writable, SInv, SendTypeOK
  <2>2. QED
    BY <2>1 DEF Dispatch, Frame, InProgramAt
<1>3. CASE Poll
  <2>1. PICK f \in Frame : f = Dispatch
    BY <1>2
  <2>2. PICK st : st = stack' /\ st = <<f>>
    BY <1>3, <2>1 DEF Poll
  <2>3. st # << >> /\ Len(st) = 1 /\ st[1] = f /\ Head(st) = f /\ Outer(st) = f
    BY <2>2 DEF Outer
  <2>4. stack = << >> /\ ~BusyIn(stack)
    BY <1>3 DEF Poll, BusyIn
  <2>5. Alike(stack, st)
    BY <1>2, <2>1, <2>3, <2>4 DEF Alike, BusyIn, FromMain, Shallow, NestsToWrite
  <2>6. QED
    BY <1>1, <2>2, <2>5, QuietReceiving
<1>4. CASE NestedPoll
  <2>1. /\ Alike(stack, Resumed) /\ Resumed \in Seq(Frame) /\ Len(Resumed) = 1
        /\ Head(Resumed).pc \in InProgramAt
    BY <1>4, ResumedAlike DEF NestedPoll, InProgramAt
  <2>2. Alike(Resumed, <<Dispatch>> \o Resumed)
    BY <1>2, <2>1, CallAlike
  <2>3. Alike(stack, <<Dispatch>> \o Resumed)
    BY <2>1, <2>2, AlikeOnwards
  <2>4. Alike(stack, stack')
    BY <1>4, <2>1, <2>3 DEF NestedPoll
  <2>5. QED
    BY <1>1, <2>4, QuietReceiving
<1>5. CASE NestedPollStopped
  <2>1. Alike(stack, stack')
    BY <1>5, SameAlike DEF NestedPollStopped, Fail, Receiving
  <2>2. QED
    BY <1>1, <2>1, QuietReceiving
<1>6. QED
  BY <1>3, <1>4, <1>5 DEF Loop

LEMMA ReturnReceiving ==
  ASSUME SInv, Receiving, ReturnFromApp
  PROVE  Receiving'
<1>1. UNCHANGED <<rbuf, delivered, script, taken, running>>
  BY DEF ReturnFromApp, program, peer, socket, loop
<1>2. PICK pc \in InProgramAt : At(pc)
  BY DEF ReturnFromApp, InProgramAt
<1>3. /\ stack \in Seq(Frame) /\ stack # << >> /\ Len(stack) =< 2 /\ Len(stack) = 1
      /\ Head(stack) = stack[1] /\ Outer(stack) = stack[1] /\ Top = stack[1]
      /\ stack[1].pc \in InProgramAt
  BY <1>2, AtTop, ProgramAlone
<1>4. CASE Top.via = "main"
  <2>1. stack' = Tail(stack) /\ dawnCmdRLen' = dawnCmdRLen
    BY <1>4 DEF ReturnFromApp, Return
  <2>2. stack' = << >>
    BY <1>3, <2>1, Returned
  <2>3. ~BusyIn(stack) /\ ~BusyIn(stack') /\ ~Shallow(stack) /\ ~FromMain(stack')
    BY <1>3, <1>4, <2>2 DEF BusyIn, Shallow, FromMain
  <2>4. NestsToWrite(stack')
    BY <2>2 DEF NestsToWrite
  <2>5. Alike(stack, stack')
    BY <2>3, <2>4 DEF Alike
  <2>6. QED
    BY <1>1, <2>1, <2>5, QuietReceiving
<1>5. CASE Top.via # "main"
  <2>1. PICK to : to \in {"parse", "write"} /\ stack' = [stack EXCEPT ![1].pc = to]
    BY <1>5 DEF ReturnFromApp, Goto
  <2>2. dawnCmdRLen' = 0
    BY <1>5 DEF ReturnFromApp, ResetRLen
  <2>3. /\ stack' # << >> /\ Len(stack') = 1 /\ stack'[1].pc = to
        /\ stack'[1].via = stack[1].via
    <3>1. PICK st, new : st \in Seq(Frame) /\ st = stack /\ new = stack'
      BY <1>3
    <3>2. Goes(st, new, to, st[1].via) /\ st # << >> /\ Head(st) = st[1] /\ Len(st) = 1
      BY <1>3, <2>1, <3>1 DEF Goes
    <3>3. /\ new # << >> /\ Len(new) = Len(st) /\ new[1].pc = to
          /\ new[1].via \in {Head(st).via, st[1].via}
      BY <3>1, <3>2, GoneOn
    <3>4. QED
      BY <3>1, <3>2, <3>3
  <2>4. ~BusyIn(stack') /\ ~FromMain(stack') /\ NestsToWrite(stack')
    <3>1. Outer(stack') = stack'[1] /\ Len(stack') # 2
      BY <2>3 DEF Outer
    <3>2. to \notin InProgramAt
      BY <2>1 DEF InProgramAt
    <3>3. QED
      BY <1>3, <1>5, <2>3, <3>1, <3>2 DEF BusyIn, FromMain, NestsToWrite
  <2>5. PICK d : d = Len(delivered) /\ Bodies(d) /\ d =< Len(script) /\ AtFrame(d)
    <3>1. ~InFrame(Len(delivered))
      BY <1>3 DEF InFrame, Shallow
    <3>2. QED
      BY <3>1 DEF Receiving
  <2>6. Held(End(d)) => Held(End(d))'
    BY <1>1 DEF Held, Part, Stream, End
  <2>7. AtFrame(d)'
    BY <2>2, <2>4, <2>5, <2>6 DEF AtFrame
  <2>8. Bodies(d)' /\ Len(delivered') = d /\ d =< Len(script')
    BY <1>1, <2>5 DEF Bodies, BodyLen, Fill
  <2>9. QED
    BY <2>4, <2>7, <2>8 DEF Receiving
<1>6. QED
  BY <1>4, <1>5

LEMMA ProgramReceiving ==
  ASSUME SInv, Receiving, App
  PROVE  Receiving'
<1>1. ASSUME UNCHANGED <<rbuf, dawnCmdRLen, delivered, script, taken, running, stack>>
      PROVE  Receiving'
  <2>1. Alike(stack, stack')
    BY <1>1, SameAlike DEF Receiving
  <2>2. QED
    BY <1>1, <2>1, QuietReceiving
<1>2. CASE (\E size \in CmdSizes : GetCmdSpace(size)) \/ FlushTooEarly
           \/ sendFrameSignal \/ sendFramebufferInfo \/ sendReservation
  BY <1>1, <1>2
  DEF GetCmdSpace, FlushTooEarly, Fail, sendFrameSignal, sendFramebufferInfo,
      sendReservation, send, reading, program, peer, socket, loop
<1>3. CASE Flush
  <2>1. UNCHANGED <<rbuf, dawnCmdRLen, delivered, script, taken, running>>
    BY <1>3 DEF Flush, reading, peer, socket
  <2>2. "app" \in InProgramAt /\ "poll" \in InProgramAt /\ At("app")
    BY <1>3 DEF Flush, InProgramAt
  <2>3. CASE Goto("poll")
    <3>1. /\ stack \in Seq(Frame) /\ stack # << >> /\ Len(stack) =< 2
          /\ Head(stack).pc = "app" /\ Len(stack) # 2 /\ NestsToWrite(stack)
      BY <2>2, AtTop, ProgramAlone DEF Receiving
    <3>2. "poll" \in InProgramAt <=> Head(stack).pc \in InProgramAt
      BY <2>2, <3>1
    <3>3. stack' = [stack EXCEPT ![1].pc = "poll"]
      BY <2>3 DEF Goto
    <3>4. Alike(stack, stack')
      BY <3>1, <3>2, <3>3, GoAlike
    <3>5. QED
      BY <2>1, <3>4, QuietReceiving
  <2>4. CASE stack' = Resumed
    BY <2>1, <2>2, <2>4, ResumedAlike, QuietReceiving
  <2>5. QED
    BY <1>3, <2>3, <2>4 DEF Flush
<1>4. QED
  BY <1>2, <1>3, ReturnReceiving DEF App

(* Nothing gets lost on the way from the socket to the program, as long as *)
(* an activation that Flush has started finds nothing to read.             *)
LEMMA ReceivingStep ==
  ASSUME SInv, Numbered(script), Receiving, doIO \/ Loop \/ App,
         At("read") /\ Len(stack) = 2 => Got = 0
  PROVE  Receiving'
<1>1. CASE doIORead
  BY <1>1, ReadReceiving DEF doIORead
<1>2. QED
  BY <1>1, ParseReceiving, WriteReceiving, LoopReceiving, ProgramReceiving DEF doIO
-----------------------------------------------------------------------------
(* The command buffers this endpoint makes are numbered, also the one that *)
(* the program is still filling.                                           *)
Filling(n) ==
  writebuf = DawnCmdHeader(0) \o Fill(Len(flushed) + 1, n)
Made ==
  /\ Numbered(flushed) /\ Len(flushed) =< MaxFrames
  /\ \E n \in 0..MAX : Filling(n) /\ (n > 0 => Len(flushed) < MaxFrames)

LEMMA FillingBytes ==
  ASSUME NEW k \in Nat, NEW n \in Nat
  PROVE  LET buf == DawnCmdHeader(0) \o Fill(k, n)
         IN /\ buf \in Seq(Nat) /\ Len(buf) = HDR + n
            /\ SubSeq(buf, HDR + 1, Len(buf)) = Fill(k, n)
<1>1. PICK h \in Seq(Nat), l \in Nat : h = DawnCmdHeader(0) /\ l = HDR /\ Len(h) = l
  BY HeaderType, Sizes
<1>2. PICK body \in Seq(Nat) : body = Fill(k, n) /\ Len(body) = n
  BY FillType
<1>3. PICK buf \in Seq(Nat) : buf = h \o body
  BY ConcatProperties
<1>4. Len(buf) = l + n /\ \A i \in 1..n : buf[l + i] = body[i]
  <2>1. /\ Len(h \o body) = Len(h) + Len(body)
        /\ \A i \in 1..Len(body) : (h \o body)[Len(h) + i] = body[i]
    BY Joined
  <2>2. QED
    BY <1>1, <1>2, <1>3, <2>1, Zenon
<1>5. SubSeq(buf, l + 1, l + n) = body
  <2>1. PICK rest \in Seq(Nat) : rest = SubSeq(buf, l + 1, Len(buf)) /\ Len(rest) = n
    <3>1. l =< Len(buf) /\ Len(buf) - l = n
      BY <1>4
    <3>2. /\ SubSeq(buf, l + 1, Len(buf)) \in Seq(Nat)
          /\ Len(SubSeq(buf, l + 1, Len(buf))) = Len(buf) - l
      BY <3>1, DropPrefix
    <3>3. QED
      BY <3>1, <3>2
  <2>2. \A i \in 1..n : rest[i] = buf[l + i]
    BY <1>4, <2>1
  <2>3. rest = body
    BY <1>2, <1>4, <2>1, <2>2, SeqEqual
  <2>4. QED
    BY <1>4, <2>1, <2>3
<1>6. QED
  BY <1>1, <1>2, <1>3, <1>4, <1>5

LEMMA FillMore ==
  ASSUME NEW k \in Nat, NEW n \in Nat, NEW m \in Nat
  PROVE  (DawnCmdHeader(0) \o Fill(k, n)) \o Fill(k, m) = DawnCmdHeader(0) \o Fill(k, n + m)
<1>1. PICK h \in Seq(Nat) : h = DawnCmdHeader(0)
  BY HeaderType
<1>2. PICK a \in Seq(Nat), b \in Seq(Nat) : a = Fill(k, n) /\ b = Fill(k, m)
  BY FillType
<1>3. PICK c \in Seq(Nat) : c = a \o b
  BY ConcatProperties
<1>4. Len(c) = n + m /\ \A i \in 1..Len(c) : c[i] = k
  <2>1. /\ Len(a) = n /\ Len(b) = m
        /\ \A i \in 1..n : a[i] = k /\ \A j \in 1..m : b[j] = k
    BY <1>2, FillType
  <2>2. /\ Len(a \o b) = Len(a) + Len(b)
        /\ \A i \in 1..Len(a) : (a \o b)[i] = a[i]
        /\ \A i \in 1..Len(b) : (a \o b)[Len(a) + i] = b[i]
    BY Joined
  <2>3. /\ Len(c) = n + m
        /\ \A i \in 1..n : c[i] = a[i]
        /\ \A i \in 1..m : c[n + i] = b[i]
    BY <1>3, <2>1, <2>2, Zenon
  <2>4. \A i \in 1..n : c[i] = k
    <3>1. \A i \in 1..n : a[i] = k
      BY <1>2, FillType
    <3>2. QED
      BY <2>3, <3>1
  <2>5. \A i \in 1..m : c[n + i] = k
    <3>1. \A i \in 1..m : b[i] = k
      BY <1>2, FillType
    <3>2. QED
      BY <2>3, <3>1
  <2>6. \A i \in 1..n + m : i \in 1..n \/ (i - n \in 1..m /\ n + (i - n) = i)
    OBVIOUS
  <2>7. \A i \in 1..n + m : c[i] = k
    BY <2>4, <2>5, <2>6
  <2>8. QED
    BY <2>3, <2>7
<1>5. c = Fill(k, n + m)
  BY <1>4, AllTheSame
<1>6. (h \o a) \o b = h \o c
  BY <1>3, BytesAssociative
<1>7. QED
  BY <1>1, <1>2, <1>5, <1>6

LEMMA NothingFilled ==
  ASSUME NEW k \in Nat
  PROVE  DawnCmdHeader(0) = DawnCmdHeader(0) \o Fill(k, 0)
<1>1. PICK h \in Seq(Nat) : h = DawnCmdHeader(0)
  BY HeaderType
<1>2. PICK b \in Seq(Nat) : b = Fill(k, 0) /\ Len(b) = 0
  BY FillType
<1>3. b = << >>
  BY <1>2, EmptySeq
<1>4. h \o << >> = h
  BY ConcatEmptySeq
<1>5. QED
  BY <1>1, <1>2, <1>3, <1>4

LEMMA StaysMade ==
  ASSUME SInv, Made, flushed' = flushed, writebuf' \in {writebuf, DawnCmdHeader(0)}
  PROVE  Made'
<1>1. Numbered(flushed)' /\ Len(flushed') =< MaxFrames
  BY DEF Made, Numbered, Fill, DawnCmd, DawnCmdHeader
<1>2. CASE writebuf' = writebuf
  BY <1>1, <1>2 DEF Made, Filling, Fill, DawnCmdHeader
<1>3. CASE writebuf' = DawnCmdHeader(0)
  <2>1. Len(flushed) + 1 \in Nat
    BY Numbers
  <2>2. writebuf' = DawnCmdHeader(0) \o Fill(Len(flushed) + 1, 0)
    BY <1>3, <2>1, NothingFilled
  <2>3. Filling(0)'
    BY <2>2 DEF Filling, Fill, DawnCmdHeader
  <2>4. 0 \in 0..MAX /\ ~(0 > 0)
    BY Sizes
  <2>5. QED
    BY <1>1, <2>3, <2>4 DEF Made
<1>4. QED
  BY <1>2, <1>3

LEMMA SpaceMade ==
  ASSUME SInv, Made, AppFits, NEW size \in CmdSizes, GetCmdSpace(size)
  PROVE  Made'
<1>1. flushed' = flushed
  BY DEF GetCmdSpace, program
<1>2. CASE writebuf' = writebuf
  BY <1>1, <1>2, StaysMade
<1>3. CASE writebuf' = writebuf \o Fill(Len(flushed) + 1, size)
  <2>1. PICK n \in 0..MAX : Filling(n)
    BY DEF Made
  <2>2. PICK k \in Nat : k = Len(flushed) + 1
    <3>1. PICK l \in Nat : l = Len(flushed)
      BY Numbers
    <3>2. l + 1 \in Nat
      OBVIOUS
    <3>3. QED
      BY <3>1, <3>2
  <2>3. size \in 1..MAX /\ MAX \in Nat /\ n \in Nat /\ size \in Nat
    BY Sizes, ProtocolAssumption
  <2>4. PICK h \in Nat : h = HDR /\ Len(writebuf) = h + n
    <3>1. LET buf == DawnCmdHeader(0) \o Fill(k, n)
          IN Len(buf) = HDR + n
      BY <2>2, <2>3, FillingBytes
    <3>2. QED
      BY <2>1, <2>2, <3>1, Sizes DEF Filling
  <2>5. n + size \in 0..MAX /\ n + size > 0
    <3>1. Len(writebuf) + size =< HDR + MAX
      BY DEF GetCmdSpace, BufSize
    <3>2. (h + n) + size =< h + MAX
      BY <2>4, <3>1
    <3>3. QED
      BY <2>3, <2>4, <3>2
  <2>6. writebuf' = DawnCmdHeader(0) \o Fill(k, n + size)
    <3>1. writebuf' = (DawnCmdHeader(0) \o Fill(k, n)) \o Fill(k, size)
      BY <1>3, <2>1, <2>2 DEF Filling
    <3>2. (DawnCmdHeader(0) \o Fill(k, n)) \o Fill(k, size)
            = DawnCmdHeader(0) \o Fill(k, n + size)
      BY <2>2, <2>3, FillMore, Zenon
    <3>3. QED
      BY <3>1, <3>2
  <2>7. Filling(n + size)'
    BY <1>1, <2>2, <2>6 DEF Filling, Fill, DawnCmdHeader
  <2>8. Numbered(flushed)' /\ Len(flushed') =< MaxFrames
    BY <1>1 DEF Made, Numbered, Fill, DawnCmd, DawnCmdHeader
  <2>9. Len(flushed') < MaxFrames
    BY <1>1 DEF GetCmdSpace
  <2>10. QED
    BY <2>5, <2>7, <2>8, <2>9 DEF Made
<1>4. QED
  BY <1>2, <1>3 DEF GetCmdSpace, Fill

LEMMA FlushMade ==
  ASSUME SInv, Made, MaxFrames < MSGT_DAWNCMD, Flush, Len(writebuf) > HDR
  PROVE  Made'
<1>1. PICK n \in 0..MAX : Filling(n) /\ (n > 0 => Len(flushed) < MaxFrames)
  BY DEF Made
<1>2. PICK frames \in Seq(Seq(Nat)), l \in Nat :
        frames = flushed /\ l = Len(frames) /\ l + 1 \in Nat
  BY Types
<1>3. n \in Nat /\ MAX \in Nat /\ HDR \in Nat
  BY Sizes
<1>4. /\ Len(writebuf) = HDR + n
      /\ SubSeq(writebuf, HDR + 1, Len(writebuf)) = Fill(l + 1, n)
  <2>1. writebuf = DawnCmdHeader(0) \o Fill(l + 1, n)
    BY <1>1, <1>2 DEF Filling
  <2>2. LET buf == DawnCmdHeader(0) \o Fill(l + 1, n)
        IN Len(buf) = HDR + n /\ SubSeq(buf, HDR + 1, Len(buf)) = Fill(l + 1, n)
    BY <1>2, <1>3, FillingBytes, Zenon
  <2>3. QED
    BY <2>1, <2>2, Zenon
<1>5. n > 0 /\ n \in 1..MAX
  BY <1>3, <1>4
<1>6. l < MaxFrames /\ MaxFrames \in Nat
  BY <1>1, <1>2, <1>5, ProtocolAssumption
<1>7. PICK frame \in Seq(Nat) : frame = DawnCmd(Fill(l + 1, n))
  BY <1>2, <1>3, NumberedBytes
<1>8. flushed' = Append(frames, frame) /\ writebuf' = DawnCmdHeader(0)
  <2>1. Len(writebuf) # HDR
    BY <1>3, <1>4, <1>5
  <2>2. frame = DawnCmd(SubSeq(writebuf, HDR + 1, Len(writebuf)))
    BY <1>4, <1>7, Zenon
  <2>3. QED
    BY <1>2, <2>1, <2>2, Zenon DEF Flush
<1>9. PICK new \in Seq(Seq(Nat)) : new = flushed' /\ new = Append(frames, frame)
  <2>1. Append(frames, frame) \in Seq(Seq(Nat))
    OBVIOUS
  <2>2. QED
    BY <1>8, <2>1
<1>10. Len(new) = l + 1 /\ new[l + 1] = frame /\ \A i \in 1..l : new[i] = frames[i]
  <2>1. /\ Len(Append(frames, frame)) = Len(frames) + 1
        /\ Append(frames, frame)[Len(frames) + 1] = frame
        /\ \A i \in 1..Len(frames) : Append(frames, frame)[i] = frames[i]
    BY AppendPlaces
  <2>2. QED
    BY <1>2, <1>9, <2>1, Zenon
<1>11. Numbered(new)
  <2> SUFFICES ASSUME NEW k \in 1..Len(new)
               PROVE  k < MSGT_DAWNCMD /\ \E j \in 1..MAX : new[k] = DawnCmd(Fill(k, j))
    BY DEF Numbered
  <2>1. CASE k \in 1..l
    BY <1>2, <1>10, <2>1 DEF Made, Numbered
  <2>2. CASE k = l + 1
    <3>1. k < MSGT_DAWNCMD
      BY <1>6, <2>2 DEF MSGT_DAWNCMD
    <3>2. new[k] = DawnCmd(Fill(k, n))
      BY <1>7, <1>10, <2>2
    <3>3. QED
      BY <1>5, <3>1, <3>2
  <2>3. QED
    BY <1>2, <1>10, <2>1, <2>2
<1>12. Numbered(flushed)' /\ Len(flushed') =< MaxFrames
  <2>1. Len(new) =< MaxFrames
    BY <1>6, <1>10
  <2>2. QED
    BY <1>9, <1>11, <2>1 DEF Numbered, Fill, DawnCmd, DawnCmdHeader
<1>13. Filling(0)'
  <2>1. Len(new) + 1 \in Nat
    BY <1>2, <1>10
  <2>2. writebuf' = DawnCmdHeader(0) \o Fill(Len(new) + 1, 0)
    BY <1>8, <2>1, NothingFilled
  <2>3. QED
    BY <1>9, <2>2 DEF Filling, Fill, DawnCmdHeader
<1>14. 0 \in 0..MAX /\ ~(0 > 0)
  BY <1>3
<1>15. QED
  BY <1>12, <1>13, <1>14 DEF Made

LEMMA MadeStep ==
  ASSUME SInv, Made, AppFits, MaxFrames < MSGT_DAWNCMD, doIO \/ Loop \/ App
  PROVE  Made'
<1>1. CASE Flush /\ Len(writebuf) > HDR
  BY <1>1, FlushMade
<1>2. CASE \E size \in CmdSizes : GetCmdSpace(size)
  BY <1>2, SpaceMade
<1>3. CASE flushed' = flushed /\ writebuf' \in {writebuf, DawnCmdHeader(0)}
  BY <1>3, StaysMade
<1>4. Flush => (Len(writebuf) > HDR \/ (flushed' = flushed /\ writebuf' = writebuf))
  BY DEF Flush, cmdsOut
<1>5. doIO \/ Loop \/ App =>
        \/ Flush \/ (\E size \in CmdSizes : GetCmdSpace(size))
        \/ flushed' = flushed /\ writebuf' \in {writebuf, DawnCmdHeader(0)}
  BY DEF doIO, App, Loop, doIORead, readMsgDone, readMsgFbInfo, readMsgReservation,
      readMsgFrameSignal, readMsgDawnCmd, readMsgUnexpected, doIONoWrite,
      doIOWriteClosed, doIOFlushMore, doIODrain, doIODrainError, FlushTooEarly,
      sendFrameSignal, sendFramebufferInfo, sendReservation, send, ReturnFromApp,
      Poll, NestedPoll, NestedPollStopped, Fail, stop, program, cmdsOut
<1>6. QED
  BY <1>1, <1>2, <1>3, <1>4, <1>5
-----------------------------------------------------------------------------
(* The other endpoint flushes more.                                        *)
Grown(s, new) == Len(s) =< Len(new) /\ \A k \in 1..Len(s) : new[k] = s[k]

LEMMA OutputGrown ==
  ASSUME SInv, [Next]_vars
  PROVE  Grown(flushed, flushed')
<1>1. Channel!Next \/ UNCHANGED Channel!vars
  BY ChannelStep DEF SInv, Sending
<1>2. PICK f \in Seq(Seq(Nat)) : f = flushed
  BY Types
<1>3. CASE flushed' = flushed
  BY <1>2, <1>3 DEF Grown
<1>4. CASE Channel!Accept
  <2>1. SInv'
    BY SInvStep
  <2>2. PICK x \in Seq(Nat) : x = Unsent'
    BY <2>1, UnsentAfter DEF SInv
  <2>3. flushed' = Append(f, x)
    BY <1>2, <1>4, <2>2 DEF Channel!Accept
  <2>4. Len(Append(f, x)) = Len(f) + 1 /\ \A i \in 1..Len(f) : Append(f, x)[i] = f[i]
    BY AppendPlaces
  <2>5. PICK l \in Nat : l = Len(f) /\ l =< l + 1
    OBVIOUS
  <2>6. QED
    BY <1>2, <2>3, <2>4, <2>5 DEF Grown
<1>5. QED
  BY <1>1, <1>3, <1>4 DEF Channel!Next, Channel!Emit, Channel!GiveUp, Channel!vars

LEMMA SplitFrames ==
  ASSUME NEW s \in Seq(Seq(Nat)), NEW m \in 0..Len(s)
  PROVE  /\ SubSeq(s, 1, m) \in Seq(Seq(Nat)) /\ Len(SubSeq(s, 1, m)) = m
         /\ \A i \in 1..m : SubSeq(s, 1, m)[i] = s[i]
<1>1. m \in Nat /\ 1 \in Int /\ m \in Int /\ \A i \in 1..m : i \in 1..Len(s)
  OBVIOUS
<1>2. \A i \in 1..m : s[i] \in Seq(Nat)
  BY <1>1, ElementOfSeq
<1>3. QED
  BY <1>1, <1>2, SubSeqProperties

LEMMA GrownPrefix ==
  ASSUME NEW s \in Seq(Seq(Nat)), NEW new \in Seq(Seq(Nat)), Grown(s, new),
         NEW m \in 0..Len(s)
  PROVE  SubSeq(new, 1, m) = SubSeq(s, 1, m)
<1>1. PICK l \in Nat, n \in Nat : l = Len(s) /\ n = Len(new) /\ l =< n /\ m \in Nat /\ m =< l
  BY DEF Grown
<1>2. PICK a \in Seq(Seq(Nat)), b \in Seq(Seq(Nat)) :
        a = SubSeq(s, 1, m) /\ b = SubSeq(new, 1, m)
  <2>1. m \in 0..Len(s) /\ m \in 0..Len(new)
    BY <1>1
  <2>2. SubSeq(s, 1, m) \in Seq(Seq(Nat)) /\ SubSeq(new, 1, m) \in Seq(Seq(Nat))
    BY <2>1, SplitFrames
  <2>3. QED
    BY <2>2
<1>3. Len(a) = m /\ Len(b) = m /\ \A i \in 1..m : a[i] = s[i] /\ b[i] = new[i]
  BY <1>1, <1>2
<1>4. \A i \in 1..m : i \in 1..Len(s)
  BY <1>1
<1>5. \A i \in 1..m : a[i] = b[i]
  BY <1>3, <1>4 DEF Grown
<1>6. a = b
  BY <1>3, <1>5, SeqEqual
<1>7. QED
  BY <1>2, <1>6

LEMMA OutsideReceiving ==
  ASSUME SInv, Receiving, Outside, Grown(script, script')
  PROVE  Receiving'
<1>1. UNCHANGED <<rbuf, dawnCmdRLen, delivered, stack, taken, running>>
  BY DEF Outside, Own, reading, loop
<1>2. script \in Seq(Seq(Nat)) /\ script' \in Seq(Seq(Nat))
  BY Types, ProtocolAssumption DEF Outside
<1>3. ASSUME NEW m \in 0..Len(script) PROVE End(m)' = End(m)
  BY <1>2, GrownPrefix DEF End
<1>4. ASSUME NEW k \in 1..Len(script) PROVE BodyLen(k)' = BodyLen(k)
  BY DEF BodyLen, Grown
<1>5. PICK d \in Nat, m \in Nat, n \in Nat :
        d = Len(delivered) /\ m = Len(script) /\ n = Len(script') /\ m =< n
  BY <1>2, Types DEF Grown
<1>6. ASSUME NEW p, Held(p) PROVE Held(p)'
  <2>1. PICK s \in Seq(Nat), new \in Seq(Nat) : s = Stream /\ new = Stream'
    <3>1. Stream' \in Seq(Nat)
      BY <1>2, FlattenType DEF Stream
    <3>2. QED
      BY <3>1, Types
  <2>2. IsPrefix(s, new)
    BY <2>1 DEF Outside
  <2>3. Len(s) =< Len(new) /\ \A i \in 1..Len(s) : s[i] = new[i]
    <3>1. Len(s) =< Len(new) /\ SubSeq(s, 1, Len(s)) = SubSeq(new, 1, Len(s))
      BY <2>2 DEF IsPrefix
    <3>2. \A i \in 1..Len(s) : /\ SubSeq(s, 1, Len(s))[i] = s[i]
                               /\ SubSeq(new, 1, Len(s))[i] = new[i]
      BY <3>1
    <3>3. QED
      BY <3>1, <3>2
  <2>4. PICK l \in Nat, b \in Seq(Nat) : b = rbuf /\ l = Len(b)
    BY Types
  <2>5. p \in Nat /\ p + l =< Len(s) /\ \A i \in 1..l : b[i] = s[p + i]
    BY <1>6, <2>1, <2>4 DEF Held, Part
  <2>6. \A i \in 1..l : p + i \in 1..Len(s)
    BY <2>5
  <2>7. p + l =< Len(new) /\ \A i \in 1..l : b[i] = new[p + i]
    BY <2>3, <2>5, <2>6
  <2>8. Part(rbuf, Stream, p)'
    BY <1>1, <2>1, <2>4, <2>7 DEF Part
  <2>9. QED
    BY <1>1, <1>6, <2>8 DEF Held
<1>7. Bodies(d) => Bodies(d)'
  <2> SUFFICES ASSUME Bodies(d) PROVE Bodies(d)'
    OBVIOUS
  <2>1. \A k \in 1..d : k \in 1..Len(script)
    BY <1>5 DEF Receiving
  <2>2. \A k \in 1..d : delivered[k] = Fill(k, BodyLen(k)) /\ BodyLen(k)' = BodyLen(k)
    BY <1>4, <2>1 DEF Bodies
  <2>3. QED
    BY <1>1, <2>2 DEF Bodies, Fill
<1>8. AtFrame(d) => AtFrame(d)'
  <2> SUFFICES ASSUME AtFrame(d) PROVE AtFrame(d)'
    OBVIOUS
  <2>1. PICK p : p = End(d) /\ Held(p)
    BY DEF AtFrame
  <2>2. End(d)' = p
    BY <1>3, <1>5, <2>1 DEF Receiving
  <2>3. Held(p)'
    BY <1>6, <2>1
  <2>4. Held(End(d))'
    BY <2>2, <2>3 DEF Held
  <2>5. QED
    BY <1>1, <2>4 DEF AtFrame
<1>9. InFrame(d) => InFrame(d)'
  <2> SUFFICES ASSUME InFrame(d) PROVE InFrame(d)'
    OBVIOUS
  <2>1. PICK p : p = End(d) + HDR /\ Held(p)
    BY DEF InFrame
  <2>2. (End(d) + HDR)' = p
    BY <1>3, <1>5, <2>1 DEF Receiving
  <2>3. Held(p)'
    BY <1>6, <2>1
  <2>4. Held(End(d) + HDR)'
    BY <2>2, <2>3 DEF Held
  <2>5. d + 1 \in 1..Len(script) /\ d < n
    BY <1>5 DEF InFrame
  <2>6. BodyLen(d + 1)' = BodyLen(d + 1)
    BY <1>4, <2>5
  <2>7. dawnCmdRLen' = BodyLen(d + 1)' /\ d < Len(script')
    BY <1>1, <1>5, <2>5, <2>6 DEF InFrame
  <2>8. Len(rbuf') < dawnCmdRLen' /\ Shallow(stack')
    BY <1>1 DEF InFrame
  <2>9. QED
    BY <2>4, <2>7, <2>8 DEF InFrame
<1>10. Len(delivered') = d /\ d =< Len(script')
  BY <1>1, <1>5 DEF Receiving
<1>11. NestsToWrite(stack') /\ (FromMain(stack') => delivered' = << >>)
  BY <1>1 DEF Receiving
<1>12. QED
  BY <1>5, <1>7, <1>8, <1>9, <1>10, <1>11 DEF Receiving
-----------------------------------------------------------------------------
(* What has come through. *)

LEMMA EndsIncrease ==
  ASSUME script \in Scripts, Numbered(script), NEW m \in 0..Len(script),
         NEW n \in 0..Len(script), End(n) =< End(m)
  PROVE  n =< m
<1>1. script \in Seq(Seq(Nat)) /\ HDR \in Nat
  BY ScriptType, Sizes
<1>2. PICK l \in Nat : l = Len(script) /\ m \in Nat /\ n \in Nat /\ m =< l /\ n =< l
  BY <1>1
<1>3. SUFFICES ASSUME m < n PROVE FALSE
  BY <1>2
<1>4. m + 1 \in 1..Len(script) /\ (m + 1) - 1 = m /\ m + 1 \in 0..Len(script) /\ m + 1 =< n
  BY <1>2, <1>3
<1>5. PICK b \in Nat, j \in 1..MAX : b = End(m) /\ End(m + 1) = b + HDR + j
  BY <1>4, ScriptFrame
<1>6. End(m + 1) =< End(n) /\ End(n) \in Nat
  BY <1>4, EndOrder
<1>7. QED
  BY <1>1, <1>5, <1>6

LEMMA DeliveredEnds ==
  ASSUME SInv, Receiving
  PROVE  /\ Len(delivered) \in 0..Len(script)
         /\ End(Len(delivered)) \in Nat /\ End(Len(delivered)) =< taken
<1>1. PICK d \in Nat, t \in Nat, l \in Nat :
        d = Len(delivered) /\ t = taken /\ l = Len(rbuf) /\ d \in 0..Len(script)
  BY Types DEF Receiving
<1>2. End(d) \in Nat /\ HDR \in Nat
  BY <1>1, Types, EndOrder, Sizes
<1>3. Held(End(d)) \/ Held(End(d) + HDR)
  BY <1>1 DEF Receiving, AtFrame, InFrame
<1>4. End(d) + l =< t \/ End(d) + HDR + l =< t
  BY <1>1, <1>3 DEF Held
<1>5. End(d) =< t
  BY <1>2, <1>4
<1>6. QED
  BY <1>1, <1>2, <1>5

(* No more command buffers than have arrived.                              *)
LEMMA DeliveredBefore ==
  ASSUME SInv, Numbered(script), Receiving, NEW m \in 0..Len(script), arrived = End(m)
  PROVE  Len(delivered) =< m
<1>1. PICK e \in Nat, t \in Nat, a \in Nat :
        e = End(Len(delivered)) /\ t = taken /\ a = arrived /\ e =< t /\ t =< a
  BY DeliveredEnds, Types
<1>2. End(Len(delivered)) =< End(m)
  BY <1>1
<1>3. QED
  BY <1>2, Types, DeliveredEnds, EndsIncrease

(* When all are delivered, all has been taken: there is nothing to read.   *)
LEMMA AllTaken ==
  ASSUME SInv, Receiving, Len(script) =< Len(delivered)
  PROVE  Len(Stream) =< taken
<1>1. Len(delivered) = Len(script)
  BY DeliveredEnds, Types
<1>2. End(Len(delivered)) = Len(Stream)
  BY <1>1, Types, EndOrder
<1>3. QED
  BY <1>2, DeliveredEnds

LEMMA AllDelivered ==
  ASSUME SInv, Receiving, Len(script) =< Len(delivered)
  PROVE  Got = 0
<1>1. PICK e \in Nat, t \in Nat, a \in Nat :
        e = Len(Stream) /\ t = taken /\ a = arrived /\ e =< t /\ t =< a /\ a =< e
  BY AllTaken, Types
<1>2. a - t = 0
  BY <1>1
<1>3. QED
  BY <1>1, <1>2, ReadSizes

(* With a command buffer flushed, and not begun, the others are written.   *)
LEMMA FreshWire ==
  ASSUME SInv, running, Fresh
  PROVE  /\ Len(flushed) - 1 \in 0..Len(flushed)
         /\ Len(wire) = Len(FlattenSeq(SubSeq(flushed, 1, Len(flushed) - 1)))
<1>1. flushbuf # << >> /\ flushoffs = 0 /\ flushbuf \in Seq(Nat)
  BY DEF Fresh, SInv, SendTypeOK
<1>2. PICK f \in Seq(Seq(Nat)), w \in Seq(Nat) :
        f = flushed /\ w = wire /\ f # << >> /\ flushbuf = f[Len(f)]
  BY <1>1 DEF SInv, Sending, LastFlushed, SendTypeOK
<1>3. PICK l \in Nat : l = Len(f) /\ l \in 1..Len(f) /\ l - 1 \in 0..Len(f)
  BY <1>2, EmptySeq
<1>4. Unsent = flushbuf
  <2>1. SubSeq(flushbuf, 1, Len(flushbuf)) = flushbuf
    BY <1>1, SubSeqFull
  <2>2. QED
    BY <1>1, <2>1 DEF Unsent, flushlen
<1>5. PICK x \in Seq(Nat) : x = f[l] /\ x = Unsent
  BY <1>1, <1>2, <1>3, <1>4
<1>6. w \o x = FlattenSeq(f)
  BY <1>2, <1>5 DEF SInv, FramesInOrder
<1>7. PICK before \in Seq(Nat) : before = FlattenSeq(SubSeq(f, 1, l - 1))
  BY <1>3, FlattenPrefixType
<1>8. FlattenSeq(f) = before \o x
  <2>1. SubSeq(f, 1, l) = f
    BY <1>3, SubSeqFull
  <2>2. FlattenSeq(SubSeq(f, 1, l)) = FlattenSeq(SubSeq(f, 1, l - 1)) \o f[l]
    BY <1>3, FlattenPrefixStep
  <2>3. QED
    BY <1>5, <1>7, <2>1, <2>2, Zenon
<1>9. Len(w) = Len(before)
  <2>1. Len(w \o x) = Len(w) + Len(x) /\ Len(before \o x) = Len(before) + Len(x)
    BY ConcatProperties
  <2>2. PICK i \in Nat, j \in Nat, k \in Nat : i = Len(w) /\ j = Len(before) /\ k = Len(x)
    OBVIOUS
  <2>3. i + k = j + k
    BY <1>6, <1>8, <2>1, <2>2
  <2>4. QED
    BY <2>2, <2>3
<1>10. QED
  BY <1>2, <1>3, <1>7, <1>9, Zenon

(* What is handed over next, when it is, and that the program does not run *)
(* then.                                                                   *)
LEMMA DeliversAtBottom ==
  ASSUME SInv, Receiving, doIO \/ Loop, At("read") /\ Len(stack) = 2 => Got = 0,
         delivered' # delivered
  PROVE  /\ Len(stack) = 1 /\ Head(stack).pc \notin InProgramAt
         /\ Len(delivered') = Len(delivered) + 1
<1>1. doIORead \/ readMsgDawnCmd
  BY DEF doIO, Loop, readMsgDone, readMsgFbInfo, readMsgReservation,
      readMsgFrameSignal, readMsgUnexpected, doIONoWrite,
      doIOWriteClosed, doIOFlushMore, doIODrain, doIODrainError,
      Poll, NestedPoll, NestedPollStopped, Fail, program
<1>2. \E buf, n, via : Deliver(buf, n, via) /\ (doIORead => Got > 0)
  BY <1>1 DEF doIORead, readMsgDawnCmd, program
<1>3. Len(delivered') = Len(delivered) + 1
  <2>1. PICK x : delivered' = Append(delivered, x)
    BY <1>2 DEF Deliver
  <2>2. PICK del, X : del = delivered /\ del \in Seq(X)
    BY Types
  <2>3. PICK Y : del \in Seq(Y) /\ x \in Y
    <3>1. del \in Seq(X \union {x}) /\ x \in X \union {x}
      BY <2>2
    <3>2. QED
      BY <3>1
  <2>4. Len(Append(del, x)) = Len(del) + 1
    BY <2>3, AppendProperties
  <2>5. QED
    BY <2>1, <2>2, <2>4
<1>4. CASE doIORead
  <2>1. /\ Len(stack) \in {1, 2} /\ Head(stack).pc = "read" /\ At("read")
    BY <1>4, AtTop DEF doIORead
  <2>2. Len(stack) = 1
    BY <1>2, <1>4, <2>1
  <2>3. QED
    BY <1>3, <2>1, <2>2 DEF InProgramAt
<1>5. CASE readMsgDawnCmd
  BY <1>3, <1>5, ParsesAlone DEF readMsgDawnCmd, Parsing
<1>6. QED
  BY <1>1, <1>4, <1>5

LEMMA FrameOf ==
  ASSUME script \in Scripts, Numbered(script), NEW k \in 1..Len(script)
  PROVE  LET body == Fill(k, BodyLen(k))
         IN /\ BodyLen(k) \in 1..MAX /\ body \in Seq(Nat) /\ body # << >>
            /\ body[1] = k /\ script[k] = DawnCmd(body)
            /\ script[k][1] = MSGT_DAWNCMD
            /\ SubSeq(script[k], HDR + 1, Len(script[k])) = body
<1>1. PICK n \in 1..MAX : n = BodyLen(k) /\ script[k] = DawnCmd(Fill(k, n))
  BY ScriptFrame
<1>2. k \in Nat /\ n \in Nat /\ 1 \in 1..n /\ n # 0 /\ HDR \in Nat
  BY Sizes
<1>3. PICK body \in Seq(Nat) : body = Fill(k, n)
  BY <1>2, FillType
<1>4. Len(body) = n /\ body[1] = k /\ \A i \in 1..n : body[i] = k
  BY <1>2, <1>3, FillType
<1>5. body # << >>
  BY <1>2, <1>4
<1>6. PICK f \in Seq(Nat) : f = DawnCmd(body)
  BY <1>3, DawnCmdType
<1>7. Len(f) = HDR + n /\ f[1] = MSGT_DAWNCMD /\ \A i \in 1..n : f[HDR + i] = k
  <2>1. LET g == DawnCmd(Fill(k, n))
        IN /\ Len(g) = HDR + n /\ g[1] = MSGT_DAWNCMD /\ g[2] = n
           /\ \A i \in 1..n : g[HDR + i] = k
    <3>1. k \in Nat /\ n \in Nat
      BY <1>2
    <3>2. QED
      BY <3>1, NumberedBytes, Zenon
  <2>2. QED
    BY <1>3, <1>6, <2>1, Zenon
<1>8. SubSeq(f, HDR + 1, Len(f)) = body
  <2>1. PICK h \in Nat : h = HDR /\ Len(f) = h + n /\ h =< Len(f) /\ Len(f) - h = n
    BY <1>2, <1>7
  <2>2. PICK rest \in Seq(Nat) : rest = SubSeq(f, h + 1, Len(f)) /\ Len(rest) = n
    BY <2>1, DropPrefix
  <2>3. \A i \in 1..n : rest[i] = f[h + i]
    BY <2>1, <2>2
  <2>4. \A i \in 1..Len(rest) : rest[i] = body[i]
    BY <1>4, <1>7, <2>1, <2>2, <2>3
  <2>5. rest = body
    BY <1>4, <2>2, <2>4, SeqEqual
  <2>6. QED
    BY <2>1, <2>2, <2>5
<1>9. QED
  BY <1>1, <1>3, <1>4, <1>5, <1>6, <1>7, <1>8

LEMMA Delivers ==
  ASSUME SInv, Numbered(script), Receiving, doIO \/ Loop,
         At("read") /\ Len(stack) = 2 => Got = 0,
         delivered' # delivered, script' = script
  PROVE  LET k == Len(delivered) + 1
         IN /\ k \in 1..Len(script) /\ Len(delivered') = k
            /\ Last(delivered') = Fill(k, BodyLen(k))
            /\ Len(stack) = 1 /\ Head(stack).pc \notin InProgramAt
<1>1. Receiving'
  BY ReceivingStep
<1>2. PICK d \in Nat : d = Len(delivered) /\ Len(delivered') = d + 1
  BY DeliversAtBottom, Types
<1>3. d + 1 =< Len(script) /\ delivered'[d + 1] = Fill(d + 1, BodyLen(d + 1))
  <2>1. d + 1 =< Len(script) /\ Bodies(d + 1)'
    BY <1>1, <1>2 DEF Receiving
  <2>2. d + 1 \in 1..d + 1 /\ BodyLen(d + 1)' = BodyLen(d + 1)
    BY <1>2 DEF BodyLen
  <2>3. QED
    BY <2>1, <2>2 DEF Bodies, Fill
<1>4. d + 1 \in 1..Len(script)
  BY <1>2, <1>3, Types
<1>5. QED
  BY <1>2, <1>3, <1>4, DeliversAtBottom DEF Last

(* A peer that numbers its command buffers sends nothing else.             *)
LEMMA InOrderOfNumbered ==
  ASSUME SInv, Numbered(script), Receiving
  PROVE  DeliveredInOrder
<1>1. script \in Scripts /\ script \in Seq(Seq(Nat)) /\ DOMAIN script = 1..Len(script)
  BY Types
<1>2. DawnCmds = 1..Len(script)
  BY <1>1, FrameOf DEF DawnCmds
<1>3. Len(delivered) \in Nat /\ Len(script) \in Nat
  BY Types
<1>4. Len(delivered) =< Cardinality(DawnCmds)
  BY <1>2, <1>3, CountUpTo DEF Receiving
<1>5. ASSUME NEW m \in DawnCmds
      PROVE  LET k == Cardinality({j \in DawnCmds : j =< m})
             IN k =< Len(delivered)
                  => delivered[k] = SubSeq(script[m], HDR + 1, Len(script[m]))
  <2>1. m \in 1..Len(script) /\ m \in Nat
    BY <1>2
  <2>2. {j \in DawnCmds : j =< m} = 1..m
    BY <1>2, <1>3, <2>1
  <2>3. Cardinality({j \in DawnCmds : j =< m}) = m
    BY <2>1, <2>2, CountUpTo
  <2>4. ASSUME m =< Len(delivered)
        PROVE  delivered[m] = SubSeq(script[m], HDR + 1, Len(script[m]))
    <3>1. m \in 1..Len(delivered)
      BY <1>3, <2>1, <2>4
    <3>2. delivered[m] = Fill(m, BodyLen(m))
      BY <3>1 DEF Receiving, Bodies
    <3>3. SubSeq(script[m], HDR + 1, Len(script[m])) = Fill(m, BodyLen(m))
      BY <1>1, <2>1, FrameOf
    <3>4. QED
      BY <3>2, <3>3
  <2>5. QED
    BY <2>3, <2>4
<1>6. QED
  BY <1>4, <1>5 DEF DeliveredInOrder
---------------------------------------------------------------------------
(* Where an endpoint is that has lost its place: behind the first byte of  *)
(* the last command buffer of the script, so that it finds no other whole  *)
(* one.  With a length in dawnCmdRLen that it has found there, it is       *)
(* behind the header too.                                                  *)
Beyond(p) == Held(p) /\ Begin(Len(script)) < p
Past ==
  /\ Len(script) > 0
  /\ \E p : Beyond(p) /\ (dawnCmdRLen > 0 => Begin(Len(script)) + HDR < p)
PastIn ==
  /\ Len(script) > 0
  /\ \E p : Beyond(p)
  /\ fault = "none" => stack # << >> /\ Top.pc = "app" /\ Top.via # "main"

(* What it takes for a body is a header, or only a part of that one.       *)
Junk(body) ==
  /\ body \in Seq(Nat)
  /\ \/ body[1] = MSGT_DAWNCMD
     \/ body[1] = Len(script) /\ Len(body) < BodyLen(Len(script))

LEMMA LastFrame ==
  ASSUME SInv, Numbered(script), Len(script) > 0
  PROVE  \E b \in Nat, n \in 1..MAX :
           /\ b = Begin(Len(script)) /\ n = BodyLen(Len(script))
           /\ Len(Stream) = b + HDR + n /\ FrameIn(Stream, b, Len(script), n)
<1>1. script \in Scripts /\ Len(script) \in 1..Len(script)
  BY Types
<1>2. PICK b \in Nat, n \in 1..MAX :
        /\ b = End(Len(script) - 1) /\ n = BodyLen(Len(script))
        /\ End(Len(script)) = b + HDR + n /\ FrameIn(Stream, b, Len(script), n)
  BY <1>1, ScriptFrame
<1>3. End(Len(script)) = Len(Stream)
  BY <1>1, EndOrder
<1>4. QED
  BY <1>2, <1>3 DEF Begin

(* The bytes that are left wait in _rbuf. *)
LEMMA HoldsNow ==
  ASSUME script' = script, NEW p \in Nat, NEW buf \in Seq(Nat), Part(buf, Stream, p),
         rbuf' = buf, p + Len(buf) =< taken', running' => p + Len(buf) = taken'
  PROVE  Held(p)'
<1>1. Part(rbuf, Stream, p)'
  BY DEF Part, Stream
<1>2. QED
  BY <1>1 DEF Held

LEMMA HeldStays ==
  ASSUME SInv, NEW p, Held(p), UNCHANGED <<rbuf, script>>,
         taken' \in Nat, taken =< taken', running' => running /\ taken' = taken
  PROVE  Held(p)'
<1>1. PICK l \in Nat, t \in Nat : l = Len(rbuf) /\ t = taken
  BY Types
<1>2. p \in Nat /\ p + l =< t /\ (running => p + l = t)
  BY <1>1 DEF Held
<1>3. p + l =< taken' /\ (running' => p + l = taken')
  BY <1>1, <1>2
<1>4. Part(rbuf, Stream, p) /\ rbuf \in Seq(Nat)
  BY Types DEF Held
<1>5. QED
  BY <1>1, <1>2, <1>3, <1>4, HoldsNow

LEMMA QuietPast ==
  ASSUME SInv, Past, UNCHANGED <<rbuf, script>>, dawnCmdRLen' \in {0, dawnCmdRLen},
         taken' \in Nat, taken =< taken', running' => running /\ taken' = taken
  PROVE  Past'
<1>1. PICK p : Beyond(p) /\ (dawnCmdRLen > 0 => Begin(Len(script)) + HDR < p)
  BY DEF Past
<1>2. Held(p)'
  BY <1>1, HeldStays DEF Beyond
<1>3. Begin(Len(script))' = Begin(Len(script)) /\ Len(script') = Len(script)
  BY DEF Begin, End
<1>4. Beyond(p)'
  BY <1>1, <1>2, <1>3 DEF Beyond
<1>5. (dawnCmdRLen > 0 => Begin(Len(script)) + HDR < p)'
  BY <1>1, <1>3
<1>6. QED
  BY <1>3, <1>4, <1>5 DEF Past

(* Bytes are taken off, as many as there are.                              *)
LEMMA DiscardBeyond ==
  ASSUME SInv, NEW p, Beyond(p), NEW n \in Nat,
         rbuf' = SubSeq(rbuf, n + 1, Len(rbuf)), UNCHANGED <<script, taken>>,
         running' => running
  PROVE  \E q \in Nat : /\ Beyond(q)' /\ p =< q
                        /\ n =< Len(rbuf) => q = p + n
<1>1. PICK b \in Seq(Nat), l \in Nat : b = rbuf /\ l = Len(b)
  BY Types
<1>2. PICK t \in Nat : t = taken
  BY Types
<1>3. p \in Nat /\ Part(b, Stream, p) /\ p + l =< t /\ (running => p + l = t)
  BY <1>1, <1>2 DEF Beyond, Held
<1>4. PICK k \in 0..l : (n =< l => k = n) /\ SubSeq(b, n + 1, l) = SubSeq(b, k + 1, l)
  <2>1. CASE n =< l
    BY <2>1
  <2>2. CASE l < n
    <3>1. SubSeq(b, n + 1, l) = << >> /\ SubSeq(b, l + 1, l) = << >>
      BY <2>2, SubSeqEmpty
    <3>2. l \in 0..l
      OBVIOUS
    <3>3. QED
      BY <2>2, <3>1, <3>2
  <2>3. QED
    BY <2>1, <2>2
<1>5. PICK rest \in Seq(Nat) : /\ rest = SubSeq(b, k + 1, l) /\ Len(rest) = l - k
                               /\ Part(rest, Stream, p + k)
  <2>1. Stream \in Seq(Nat)
    BY Types
  <2>2. LET left == SubSeq(b, k + 1, Len(b))
        IN left \in Seq(Nat) /\ Len(left) = Len(b) - k /\ Part(left, Stream, p + k)
    BY <1>1, <1>3, <1>4, <2>1, DropPart
  <2>3. QED
    BY <1>1, <2>2
<1>6. PICK q \in Nat : q = p + k /\ q + Len(rest) = p + l /\ p =< q
  BY <1>3, <1>4, <1>5
<1>7. rbuf' = rest
  BY <1>1, <1>4, <1>5
<1>8. Part(rest, Stream, q) /\ q + Len(rest) =< taken' /\ (running' => q + Len(rest) = taken')
  BY <1>2, <1>3, <1>5, <1>6
<1>9. Held(q)'
  BY <1>7, <1>8, HoldsNow
<1>10. Begin(Len(script))' = Begin(Len(script)) /\ Begin(Len(script)) \in Nat
  <2>1. Len(script) > 0 => Len(script) - 1 \in 0..Len(script)
    BY Types
  <2>2. Begin(Len(script)) \in Nat
    <3>1. CASE Len(script) > 0
      BY <2>1, <3>1, EndOrder, Types DEF Begin
    <3>2. CASE ~(Len(script) > 0)
      <4>1. Len(script) - 1 < 1 /\ Len(script) - 1 \in Int
        BY <3>2, Types
      <4>2. SubSeq(script, 1, Len(script) - 1) = << >>
        BY <4>1, SubSeqEmpty
      <4>3. FlattenSeq(SubSeq(script, 1, Len(script) - 1)) = << >>
        BY <4>2, FlattenEmpty, Zenon
      <4>4. QED
        BY <4>3 DEF Begin, End
    <3>3. QED
      BY <3>1, <3>2
  <2>3. QED
    BY <2>2 DEF Begin, End
<1>11. Begin(Len(script)) < q
  BY <1>3, <1>6, <1>10 DEF Beyond
<1>12. Beyond(q)'
  BY <1>9, <1>10, <1>11 DEF Beyond
<1>13. n =< Len(rbuf) => q = p + n
  BY <1>1, <1>4, <1>6
<1>14. QED
  BY <1>6, <1>12, <1>13

LEMMA PastBody ==
  ASSUME SInv, Numbered(script), Len(script) > 0, NEW p \in Nat,
         NEW buf \in Seq(Nat), Part(buf, Stream, p), NEW n \in 1..Len(buf),
         Begin(Len(script)) + HDR < p
  PROVE  Junk(SubSeq(buf, 1, n))
<1>1. PICK k \in Nat : k = Len(script)
  BY Types
<1>2. PICK b \in Nat, m \in 1..MAX :
        /\ b = Begin(k) /\ m = BodyLen(k)
        /\ Len(Stream) = b + HDR + m /\ FrameIn(Stream, b, k, m)
  BY <1>1, LastFrame
<1>3. PICK h \in Nat : h = HDR
  BY Sizes
<1>4. PICK l \in Nat : l = Len(buf) /\ n \in 1..l /\ n \in Nat
  OBVIOUS
<1>5. p + l =< b + h + m /\ \A i \in 1..l : buf[i] = Stream[p + i]
  BY <1>2, <1>3, <1>4 DEF Part
<1>6. b + h < p /\ m \in Nat
  BY <1>1, <1>2, <1>3
<1>7. PICK i \in 1..m : p + 1 = b + h + i
  <2>1. (p + 1) - (b + h) \in 1..m
    BY <1>4, <1>5, <1>6
  <2>2. p + 1 = b + h + ((p + 1) - (b + h))
    OBVIOUS
  <2>3. QED
    BY <2>1, <2>2
<1>8. buf[1] = k
  <2>1. buf[1] = Stream[p + 1]
    BY <1>4, <1>5
  <2>2. Stream[b + h + i] = k
    BY <1>2, <1>3 DEF FrameIn
  <2>3. QED
    BY <1>7, <2>1, <2>2
<1>9. /\ SubSeq(buf, 1, n) \in Seq(Nat)
      /\ SubSeq(buf, 1, n)[1] = buf[1] /\ Len(SubSeq(buf, 1, n)) = n
  BY <1>4
<1>10. n < m
  BY <1>4, <1>5, <1>6
<1>11. QED
  BY <1>1, <1>2, <1>8, <1>9, <1>10 DEF Junk

(* Some of it is handed over.                                              *)
LEMMA HandedOver ==
  ASSUME SInv, NEW body, delivered' = Append(delivered, body)
  PROVE  delivered' # delivered /\ Last(delivered') = body
<1>1. PICK del \in Seq(Seq(Nat) \union {body}) : del = delivered /\ Len(del) \in Nat
  <2>1. delivered \in Seq(Seq(Nat) \union {body}) /\ Len(delivered) \in Nat
    BY Types
  <2>2. QED
    BY <2>1
<1>2. body \in Seq(Nat) \union {body}
  OBVIOUS
<1>3. Len(Append(del, body)) = Len(del) + 1 /\ Append(del, body)[Len(del) + 1] = body
  BY <1>2, AppendProperties
<1>4. PICK l \in Nat : l = Len(del) /\ l + 1 # l
  BY <1>1
<1>5. Len(delivered') = l + 1 /\ delivered'[l + 1] = body
  BY <1>1, <1>3, <1>4
<1>6. QED
  BY <1>1, <1>4, <1>5 DEF Last

LEMMA PastDeliver ==
  ASSUME SInv, Len(script) > 0, NEW buf \in Seq(Nat), NEW n \in 0..Len(buf),
         NEW via \in {"readMsg", "doIO"}, Deliver(buf, n, via),
         NEW p \in Nat, Part(buf, Stream, p), script' = script, stack # << >>,
         p + Len(buf) =< taken', running' => p + Len(buf) = taken',
         Begin(Len(script)) < p + n
  PROVE  PastIn' /\ delivered' # delivered /\ Last(delivered') = SubSeq(buf, 1, n)
<1>1. PICK l \in Nat : l = Len(buf) /\ n \in 0..l
  OBVIOUS
<1>2. PICK rest \in Seq(Nat) : /\ rest = SubSeq(buf, n + 1, Len(buf)) /\ Len(rest) = l - n
                               /\ Part(rest, Stream, p + n)
  <2>1. Stream \in Seq(Nat)
    BY Types
  <2>2. LET left == SubSeq(buf, n + 1, Len(buf))
        IN left \in Seq(Nat) /\ Len(left) = Len(buf) - n /\ Part(left, Stream, p + n)
    BY <2>1, DropPart
  <2>3. QED
    BY <1>1, <2>2
<1>3. PICK q \in Nat : q = p + n /\ q + Len(rest) = p + l
  BY <1>1, <1>2
<1>4. Held(q)'
  <2>1. rbuf' = rest
    BY <1>2 DEF Deliver
  <2>2. Part(rest, Stream, q) /\ q + Len(rest) =< taken' /\ (running' => q + Len(rest) = taken')
    BY <1>1, <1>2, <1>3
  <2>3. QED
    BY <2>1, <2>2, HoldsNow
<1>5. Begin(Len(script))' = Begin(Len(script)) /\ Len(script') = Len(script)
  BY DEF Begin, End
<1>6. Beyond(q)'
  BY <1>3, <1>4, <1>5 DEF Beyond
<1>7. stack' # << >> /\ Head(stack').pc = "app" /\ Head(stack').via # "main"
  <2>1. PICK st, nst : st \in Seq(Frame) /\ st = stack /\ nst = stack'
    BY Types
  <2>2. nst = [st EXCEPT ![1].pc = "app", ![1].via = via] /\ st # << >>
    BY <2>1 DEF Deliver
  <2>3. Goes(st, nst, "app", via)
    BY <2>2 DEF Goes
  <2>4. nst # << >> /\ Head(nst) = nst[1] /\ nst[1].pc = "app"
    BY <2>1, <2>2, <2>3, GoneOn
  <2>5. nst[1].via = via
    <3>1. st[1] \in Frame /\ 1 \in DOMAIN st
      BY <2>1, <2>2, EmptySeq
    <3>2. nst[1] = [st[1] EXCEPT !.pc = "app", !.via = via]
      BY <2>2, <3>1
    <3>3. QED
      BY <3>1, <3>2 DEF Frame
  <2>6. QED
    BY <2>1, <2>4, <2>5
<1>8. PastIn'
  BY <1>5, <1>6, <1>7 DEF PastIn, Top
<1>9. delivered' = Append(delivered, SubSeq(buf, 1, n))
  BY DEF Deliver
<1>10. QED
  BY <1>8, <1>9, HandedOver

LEMMA BeginType ==
  ASSUME SInv, Len(script) > 0
  PROVE  Begin(Len(script)) \in Nat /\ HDR \in Nat
<1>1. Len(script) - 1 \in 0..Len(script)
  BY Types
<1>2. QED
  BY <1>1, EndOrder, Types, Sizes DEF Begin

LEMMA PastRead ==
  ASSUME SInv, Numbered(script), Past, doIORead
  PROVE  \/ Past' /\ delivered' = delivered
         \/ PastIn' /\ delivered' # delivered /\ Junk(Last(delivered'))
<1>1. /\ stack # << >> /\ Head(stack).pc = "read" /\ Top.pc = "read"
  BY AtTop DEF doIORead
<1>2. running /\ script' = script /\ taken' = taken + Got
  BY <1>1 DEF doIORead, SInv, RInv, Reading, peer
<1>3. Got \in Nat /\ taken \in Nat /\ taken' \in Nat /\ taken =< taken'
  <2>1. PICK g \in Nat, t \in Nat : g = Got /\ t = taken
    BY ReadSizes, Types
  <2>2. t + g \in Nat /\ t =< t + g
    OBVIOUS
  <2>3. QED
    BY <1>2, <2>1, <2>2
<1>4. CASE stop /\ Return /\ UNCHANGED <<reading, program>>
  <2>1. UNCHANGED <<rbuf, dawnCmdRLen, delivered, script>> /\ ~running'
    BY <1>2, <1>4 DEF reading, program, stop
  <2>2. QED
    BY <1>3, <2>1, QuietPast
<1>5. CASE Got > 0 /\ ~ReadFails
  <2>1. PICK p \in Nat : Beyond(p) /\ (dawnCmdRLen > 0 => Begin(Len(script)) + HDR < p)
    BY DEF Past, Beyond, Held
  <2>2. PICK buf \in Seq(Nat) : buf = Filled /\ Part(buf, Stream, p) /\ p + Len(buf) = taken'
    BY <1>2, <2>1, ReadSizes, FilledHeld DEF Beyond
  <2>3. PICK n \in Nat : n = dawnCmdRLen
    BY Types
  <2>4. p + Len(buf) =< taken'
    BY <1>3, <2>2
  <2>5. Begin(Len(script))' = Begin(Len(script)) /\ Len(script') = Len(script)
    BY <1>2 DEF Begin, End
  <2>6. CASE n = 0 \/ ~Complete(buf, n)
    <3>1. rbuf' = buf /\ UNCHANGED <<dawnCmdRLen, delivered>>
      BY <1>5, <2>2, <2>3, <2>6 DEF doIORead
    <3>2. Held(p)'
      BY <1>2, <2>2, <2>4, <3>1, HoldsNow
    <3>3. Beyond(p)' /\ (dawnCmdRLen > 0 => Begin(Len(script)) + HDR < p)'
      BY <2>1, <2>5, <3>1, <3>2 DEF Beyond
    <3>4. QED
      BY <2>5, <3>1, <3>3 DEF Past
  <2>7. CASE n > 0 /\ Complete(buf, n)
    <3>1. Deliver(buf, n, "doIO")
      BY <1>5, <2>2, <2>3, <2>7 DEF doIORead
    <3>2. n \in 0..Len(buf) /\ n \in 1..Len(buf) /\ Len(script) > 0
      BY <2>7 DEF Complete, Past
    <3>3. Begin(Len(script)) < p + n /\ Begin(Len(script)) + HDR < p
      BY <2>1, <2>3, <2>7, <3>2, BeginType
    <3>4. PastIn' /\ delivered' # delivered /\ Last(delivered') = SubSeq(buf, 1, n)
      BY <1>1, <1>2, <2>2, <2>4, <3>1, <3>2, <3>3, PastDeliver
    <3>5. Junk(SubSeq(buf, 1, n))
      BY <2>2, <3>2, <3>3, PastBody
    <3>6. QED
      BY <3>4, <3>5
  <2>8. QED
    BY <2>6, <2>7
<1>6. QED
  BY <1>4, <1>5 DEF doIORead

LEMMA PastParse ==
  ASSUME SInv, Numbered(script), Past, readMsgDawnCmd
  PROVE  \/ Past' /\ delivered' = delivered
         \/ PastIn' /\ delivered' # delivered /\ Junk(Last(delivered'))
<1>1. UNCHANGED <<script, taken, running>> /\ stack # << >>
  BY AtTop DEF readMsgDawnCmd, Parsing, loop, peer, socket
<1>2. taken' \in Nat /\ taken =< taken'
  BY <1>1, Types
<1>3. CASE UNCHANGED <<reading, program>>
  <2>1. UNCHANGED <<rbuf, dawnCmdRLen, delivered>>
    BY <1>3 DEF reading, program
  <2>2. QED
    BY <1>1, <1>2, <2>1, QuietPast
<1>4. CASE Len(rbuf) >= HDR
  <2>1. PICK p \in Nat : Beyond(p) /\ Len(script) > 0
    BY DEF Past, Beyond, Held
  <2>2. PICK b \in Seq(Nat), l \in Nat : b = rbuf /\ l = Len(b)
    BY Types
  <2>3. PICK t \in Nat : t = taken
    BY Types
  <2>4. Part(b, Stream, p) /\ p + l =< t /\ (running => p + l = t)
    BY <2>1, <2>2, <2>3 DEF Beyond, Held
  <2>5. PICK h \in Nat : h = HDR /\ h =< l /\ h \in 0..Len(b) /\ h > 1
    BY <1>4, <2>2, Sizes
  <2>6. PICK rest \in Seq(Nat) : /\ rest = SubSeq(rbuf, HDR + 1, Len(rbuf))
                                 /\ Len(rest) = l - h /\ Part(rest, Stream, p + h)
    <3>1. Stream \in Seq(Nat)
      BY Types
    <3>2. LET left == SubSeq(b, h + 1, Len(b))
          IN left \in Seq(Nat) /\ Len(left) = Len(b) - h /\ Part(left, Stream, p + h)
      BY <2>4, <2>5, <3>1, DropPart, Zenon
    <3>3. QED
      BY <2>2, <2>5, <3>2, Zenon
  <2>7. PICK q \in Nat : q = p + h /\ q + Len(rest) = p + l
    <3>1. h \in Nat /\ p + h \in Nat /\ (p + h) + (l - h) = p + l
      BY <2>5
    <3>2. QED
      BY <2>6, <3>1
  <2>8. /\ Part(rest, Stream, q)
        /\ q + Len(rest) =< taken' /\ (running' => q + Len(rest) = taken')
    BY <1>1, <2>3, <2>4, <2>6, <2>7
  <2>9. Begin(Len(script)) + HDR < q /\ Begin(Len(script)) < q
    BY <2>1, <2>5, <2>7, BeginType DEF Beyond
  <2>10. Begin(Len(script))' = Begin(Len(script)) /\ Len(script') = Len(script)
    BY <1>1 DEF Begin, End
  <2>11. PICK n \in Nat : n = rbuf[2] /\ ~(Len(rbuf) < HDR)
    <3>1. 2 \in 1..l
      BY <2>5
    <3>2. b[2] \in Nat
      BY <2>2, <3>1, ElementOfSeq
    <3>3. ~(l < h)
      BY <2>5
    <3>4. QED
      BY <2>2, <2>5, <3>2, <3>3
  <2>12. CASE ~AssertRLen(n)
    <3>1. UNCHANGED <<reading, program>>
      BY <2>6, <2>11, <2>12, Zenon DEF readMsgDawnCmd
    <3>2. QED
      BY <1>3, <3>1
  <2>13. CASE AssertRLen(n) /\ ~Complete(rest, n)
    <3>1. rbuf' = rest /\ delivered' = delivered
      BY <2>6, <2>11, <2>13, Zenon DEF readMsgDawnCmd, program
    <3>2. Held(q)'
      BY <1>1, <2>8, <3>1, HoldsNow
    <3>3. Beyond(q)' /\ (dawnCmdRLen > 0 => Begin(Len(script)) + HDR < q)'
      BY <2>9, <2>10, <3>2 DEF Beyond
    <3>4. QED
      BY <2>1, <2>10, <3>1, <3>3 DEF Past
  <2>14. CASE AssertRLen(n) /\ Complete(rest, n)
    <3>1. Deliver(rest, n, "readMsg")
      BY <2>6, <2>11, <2>14, Zenon DEF readMsgDawnCmd
    <3>2. n \in 0..Len(rest) /\ n \in 1..Len(rest)
      BY <2>14 DEF Complete, AssertRLen
    <3>3. Begin(Len(script)) < q + n
      BY <2>1, <2>9, <3>2, BeginType
    <3>4. PastIn' /\ delivered' # delivered /\ Last(delivered') = SubSeq(rest, 1, n)
      BY <1>1, <2>1, <2>8, <3>1, <3>2, <3>3, PastDeliver
    <3>5. Junk(SubSeq(rest, 1, n))
      BY <2>1, <2>8, <2>9, <3>2, PastBody
    <3>6. QED
      BY <3>4, <3>5
  <2>15. QED
    BY <2>12, <2>13, <2>14
<1>5. QED
  BY <1>3, <1>4, Numbers DEF readMsgDawnCmd

LEMMA PastDiscard ==
  ASSUME SInv, Past, readMsgFbInfo \/ readMsgReservation \/ readMsgFrameSignal
  PROVE  Past' /\ delivered' = delivered
<1>1. UNCHANGED <<script, taken, running, dawnCmdRLen, delivered>>
  BY DEF readMsgFbInfo, readMsgReservation, readMsgFrameSignal, loop, peer, socket, program
<1>2. PICK n \in Nat : rbuf' = SubSeq(rbuf, n + 1, Len(rbuf))
  <2>1. FbInfoSize + 1 \in Nat /\ ReservationSize + 1 \in Nat /\ 1 \in Nat
    BY ProtocolAssumption
  <2>2. QED
    BY <2>1 DEF readMsgFbInfo, readMsgReservation, readMsgFrameSignal, Discard
<1>3. PICK p \in Nat : /\ Beyond(p) /\ Len(script) > 0
                       /\ dawnCmdRLen > 0 => Begin(Len(script)) + HDR < p
  BY DEF Past, Beyond, Held
<1>4. PICK q \in Nat : Beyond(q)' /\ p =< q
  BY <1>1, <1>2, <1>3, DiscardBeyond
<1>5. Begin(Len(script))' = Begin(Len(script)) /\ Len(script') = Len(script)
  BY <1>1 DEF Begin, End
<1>6. dawnCmdRLen > 0 => Begin(Len(script)) + HDR < q
  BY <1>3, <1>4, BeginType
<1>7. (dawnCmdRLen > 0 => Begin(Len(script)) + HDR < q)'
  BY <1>1, <1>5, <1>6
<1>8. QED
  BY <1>1, <1>3, <1>4, <1>5, <1>7 DEF Past

(* It never finds its place again.                                         *)
LEMMA PastStep ==
  ASSUME SInv, Numbered(script), Past, doIO \/ Loop \/ App
  PROVE  \/ Past' /\ delivered' = delivered
         \/ PastIn' /\ delivered' # delivered /\ Junk(Last(delivered'))
<1>1. ASSUME UNCHANGED <<rbuf, delivered, script, taken>>, dawnCmdRLen' \in {0, dawnCmdRLen},
             running' => running
      PROVE  Past' /\ delivered' = delivered
  <2>1. taken' \in Nat /\ taken =< taken'
    BY <1>1, Types
  <2>2. QED
    BY <1>1, <2>1, QuietPast
<1>2. CASE readMsgDone \/ readMsgUnexpected \/ doIONoWrite \/ doIOWriteClosed
           \/ doIOFlushMore \/ doIODrain \/ doIODrainError
  <2>1. UNCHANGED <<rbuf, delivered, script, taken, dawnCmdRLen>> /\ (running' => running)
    BY <1>2 DEF readMsgDone, readMsgUnexpected, doIONoWrite, doIOWriteClosed,
       doIOFlushMore, doIODrain, doIODrainError, Fail, stop, reading, program, peer,
       socket, loop
  <2>2. QED
    BY <1>1, <2>1
<1>3. CASE Loop
  <2>1. UNCHANGED <<rbuf, delivered, script, taken, dawnCmdRLen, running>>
    BY <1>3 DEF Loop, Poll, NestedPoll, NestedPollStopped, Fail, reading, program, peer,
       socket, loop
  <2>2. QED
    BY <1>1, <2>1
<1>4. CASE App
  <2>1. UNCHANGED <<rbuf, delivered, script, taken, running>>
        /\ dawnCmdRLen' \in {0, dawnCmdRLen}
    BY <1>4 DEF App, GetCmdSpace, Flush, FlushTooEarly, Fail, sendFrameSignal,
       sendFramebufferInfo, sendReservation, send, ReturnFromApp, ResetRLen, reading,
       program, peer, socket, loop
  <2>2. QED
    BY <1>1, <2>1
<1>5. QED
  BY <1>2, <1>3, <1>4, PastRead, PastParse, PastDiscard DEF doIO

(* The body is handled, and left.                                          *)
LEMMA PastInStep ==
  ASSUME SInv, ~Server, PastIn
  PROVE  /\ ~doIO /\ ~Loop
         /\ ReturnFromApp => Past' /\ delivered' = delivered
<1>1. fault = "none" => stack # << >> /\ Top.pc = "app" /\ Top.via # "main"
  BY DEF PastIn
<1>2. \A pc : At(pc) => fault = "none" /\ pc = "app"
  BY <1>1 DEF At
<1>3. ~doIO
  <2>1. doIO => At("read") \/ At("parse") \/ At("write")
    BY DEF doIO, doIORead, readMsgDone, readMsgFbInfo, readMsgReservation,
           readMsgFrameSignal, readMsgDawnCmd, readMsgUnexpected, Parsing, doIONoWrite,
           doIOWriteClosed, doIOFlushMore, doIODrain, doIODrainError
  <2>2. QED
    BY <1>2, <2>1
<1>4. ~Loop
  BY <1>1, <1>2 DEF Loop, Poll, NestedPoll, NestedPollStopped
<1>5. ASSUME ReturnFromApp PROVE Past' /\ delivered' = delivered
  <2>1. Top.via # "main"
    BY <1>1, <1>5 DEF ReturnFromApp, At
  <2>2. dawnCmdRLen' = 0 /\ UNCHANGED <<rbuf, delivered, script, taken, running>>
    BY <1>5, <2>1 DEF ReturnFromApp, ResetRLen, program, peer, socket, loop
  <2>3. PICK p : Beyond(p) /\ Len(script) > 0
    BY DEF PastIn
  <2>4. Held(p)'
    <3>1. taken' \in Nat /\ taken =< taken'
      BY <2>2, Types
    <3>2. QED
      BY <2>2, <2>3, <3>1, HeldStays DEF Beyond
  <2>5. Begin(Len(script))' = Begin(Len(script)) /\ Len(script') = Len(script)
    BY <2>2 DEF Begin, End
  <2>6. Beyond(p)' /\ ~(dawnCmdRLen' > 0)
    BY <2>2, <2>3, <2>4, <2>5 DEF Beyond
  <2>7. QED
    BY <2>2, <2>3, <2>5, <2>6 DEF Past
<1>6. QED
  BY <1>3, <1>4, <1>5

(* The other side does something, but flushes no more.                     *)
LEMMA OutsidePast ==
  ASSUME SInv, Outside, script' = script, fault' = fault
  PROVE  (Past => Past') /\ (PastIn => PastIn')
<1>1. UNCHANGED <<rbuf, dawnCmdRLen, stack, taken, running>>
  BY DEF Outside, Own, reading, loop
<1>2. taken' \in Nat /\ taken =< taken'
  BY <1>1, Types
<1>3. Past => Past'
  BY <1>1, <1>2, QuietPast
<1>4. ASSUME PastIn PROVE PastIn'
  <2>1. PICK p : Beyond(p) /\ Len(script) > 0
    BY <1>4 DEF PastIn
  <2>2. Held(p)'
    BY <1>1, <1>2, <2>1, HeldStays DEF Beyond
  <2>3. Begin(Len(script))' = Begin(Len(script)) /\ Len(script') = Len(script)
    BY DEF Begin, End
  <2>4. Beyond(p)'
    BY <2>1, <2>2, <2>3 DEF Beyond
  <2>5. fault' = "none" => stack' # << >> /\ Top'.pc = "app" /\ Top'.via # "main"
    BY <1>1, <1>4 DEF PastIn, Top
  <2>6. QED
    BY <2>1, <2>3, <2>4, <2>5 DEF PastIn
<1>5. QED
  BY <1>3, <1>4

(* No message of the peer is such a body.                                  *)
LEMMA NoFrame ==
  ASSUME SInv, Numbered(script), Len(script) > 0, NEW body, Junk(body),
         body[1] \in 1..Len(script)
  PROVE  script[body[1]] # DawnCmd(body)
<1>1. PICK k \in Nat : k = body[1] /\ k \in 1..Len(script) /\ script \in Scripts
  BY Types
<1>2. PICK n \in 1..MAX : n = BodyLen(k) /\ k < MSGT_DAWNCMD /\ script[k] = DawnCmd(Fill(k, n))
  BY <1>1, ScriptFrame
<1>3. k = Len(script) /\ Len(body) < n
  BY <1>1, <1>2 DEF Junk, MSGT_DAWNCMD
<1>4. SUFFICES ASSUME script[k] = DawnCmd(body) PROVE FALSE
  BY <1>1
<1>5. n \in Nat /\ HDR \in Nat /\ HDR > 1 /\ body \in Seq(Nat)
  BY <1>2, Sizes DEF Junk
<1>6. PICK m \in Nat : m = Len(body) /\ m # n
  BY <1>3, <1>5
<1>7. PICK f : f = DawnCmd(body)
  OBVIOUS
<1>8. f[2] = n
  <2>1. LET g == DawnCmd(Fill(k, n)) IN g[2] = n
    BY <1>1, <1>5, NumberedBytes
  <2>2. f = DawnCmd(Fill(k, n))
    BY <1>2, <1>4, <1>7
  <2>3. QED
    BY <2>1, <2>2, Zenon
<1>9. f[2] = m
  <2>1. PICK h \in Seq(Nat) : h = DawnCmdHeader(m)
    BY <1>5, HeaderType
  <2>2. Len(h) = HDR /\ h[2] = m /\ 2 \in 1..Len(h)
    <3>1. Len(h) = HDR
      BY <1>5, <2>1, HeaderType
    <3>2. h[2] = m
      BY <1>5, <2>1 DEF DawnCmdHeader
    <3>3. QED
      BY <1>5, <3>1, <3>2
  <2>3. (h \o body)[2] = h[2]
    BY <1>5, <2>2, Joined
  <2>4. f = h \o body
    BY <1>6, <1>7, <2>1 DEF DawnCmd
  <2>5. QED
    BY <2>2, <2>3, <2>4
<1>10. QED
  BY <1>6, <1>8, <1>9
-----------------------------------------------------------------------------
(* When an activation that Flush has started does find something to read,  *)
(* dawnCmdRLen still counts the command buffer that is being handled, and  *)
(* what is read is taken for the rest of it.  Its first byte is that of a  *)
(* header.  The program gets it, flushes, and finds the command buffer of  *)
(* the first Flush.                                                        *)
Stuck == fault = "none" => Len(stack) = 2 /\ Top.pc = "app" /\ flushbuf # << >>

LEMMA StuckRead ==
  ASSUME SInv, Numbered(script), Receiving, ~FromMain(stack), doIORead, Len(stack) = 2
  PROVE  \/ Receiving' /\ delivered' = delivered
         \/ /\ Stuck' /\ Last(delivered')[1] = MSGT_DAWNCMD
            /\ Len(delivered) < Len(script) /\ delivered' # delivered
            /\ Len(delivered) + 1 = Len(script) => PastIn' /\ Junk(Last(delivered'))
<1>1. /\ stack \in Seq(Frame) /\ stack # << >> /\ Len(stack) =< 2
      /\ Head(stack) = stack[1] /\ Head(stack).pc = "read" /\ Top.pc = "read"
  BY AtTop DEF doIORead
<1>2. running /\ script' = script /\ taken' = taken + Got /\ flushbuf # << >>
  BY <1>1 DEF doIORead, SInv, RInv, Reading, peer, Sending, Nesting, Fresh
<1>3. taken' \in Nat /\ taken =< taken'
  <2>1. PICK g \in Nat, t \in Nat : g = Got /\ t = taken
    BY ReadSizes, Types
  <2>2. t + g \in Nat /\ t =< t + g
    OBVIOUS
  <2>3. QED
    BY <1>2, <2>1, <2>2
<1>4. CASE stop /\ Return /\ UNCHANGED <<reading, program>>
  <2>1. UNCHANGED <<rbuf, dawnCmdRLen, delivered, script>> /\ ~running'
    BY <1>2, <1>4 DEF reading, program, stop
  <2>2. "read" \notin InProgramAt
    BY DEF InProgramAt
  <2>3. Alike(stack, stack')
    BY <1>1, <1>4, <2>2, ReturnAlike DEF Return
  <2>4. QED
    BY <1>3, <2>1, <2>3, StaysReceiving
<1>5. CASE Got > 0 /\ ~ReadFails
  <2>1. PICK d \in Nat : d = Len(delivered) /\ d =< Len(script)
    BY Types DEF Receiving
  <2>2. d < Len(script)
    BY <1>5, <2>1, AllDelivered, Numbers
  <2>3. AtFrame(d) /\ BusyIn(stack)
    <3>1. ~InFrame(d)
      BY DEF InFrame, Shallow
    <3>2. stack[2].pc \in {"app", "return"}
      BY DEF SInv, RInv, Frames
    <3>3. Outer(stack) = stack[2]
      BY DEF Outer
    <3>4. BusyIn(stack)
      BY <1>1, <3>2, <3>3 DEF BusyIn, FromMain, InProgramAt
    <3>5. QED
      BY <2>1, <3>1, <3>4 DEF Receiving
  <2>4. PICK n \in Nat : n = dawnCmdRLen /\ n > 0
    BY <2>3, Types DEF AtFrame
  <2>5. PICK p : /\ p = End(d) /\ Held(p)
                 /\ Part(Filled, Stream, p) /\ p + Len(Filled) = taken'
    <3>1. Held(End(d))
      BY <2>3 DEF AtFrame
    <3>2. Part(Filled, Stream, End(d)) /\ End(d) + Len(Filled) = taken'
      BY <1>2, <3>1, FilledHeld
    <3>3. QED
      BY <3>1, <3>2, Zenon
  <2>6. PICK buf \in Seq(Nat) : buf = Filled
    BY ReadSizes
  <2>7. Part(buf, Stream, p) /\ p + Len(buf) = taken'
    BY <2>5, <2>6, Zenon
  <2>8. CASE ~Complete(buf, n)
    <3>1. rbuf' = buf /\ Goto("write") /\ UNCHANGED <<dawnCmdRLen, delivered>>
      BY <1>5, <2>4, <2>5, <2>6, <2>7, <2>8 DEF doIORead
    <3>2. Alike(stack, stack')
      <4>1. stack' = [stack EXCEPT ![1].pc = "write"] /\ NestsToWrite(stack)
        BY <3>1 DEF Goto, Receiving
      <4>2. "write" \in InProgramAt <=> Head(stack).pc \in InProgramAt
        BY <1>1 DEF InProgramAt
      <4>3. QED
        BY <1>1, <4>1, <4>2, GoAlike
    <3>3. Held(End(d))'
      <4>1. Stream' = Stream /\ End(d)' = p
        BY <1>2, <2>5, <2>6, <2>7 DEF Stream, End
      <4>2. Part(rbuf, Stream, p)'
        BY <2>5, <2>6, <2>7, <3>1, <4>1 DEF Part
      <4>3. p \in Nat
        BY <2>5, <2>6, <2>7 DEF Held
      <4>4. QED
        BY <1>3, <2>5, <2>6, <2>7, <3>1, <4>1, <4>2, <4>3 DEF Held
    <3>4. AtFrame(d)'
      BY <2>3, <3>1, <3>2, <3>3 DEF AtFrame, Alike
    <3>5. QED
      BY <1>2, <2>1, <3>1, <3>2, <3>4, StillReceiving
  <2>9. CASE Complete(buf, n)
    <3>1. Deliver(buf, n, "doIO") /\ UNCHANGED <<fault, flushbuf>>
      BY <1>5, <2>4, <2>5, <2>6, <2>7, <2>9 DEF doIORead, cmdsOut
    <3>2. n \in 1..Len(buf) /\ Len(buf) \in Nat
      BY <2>4, <2>9 DEF Complete
    <3>3. PICK body \in Seq(Nat) : body = SubSeq(buf, 1, n) /\ body[1] = buf[1]
      <4>1. n \in 0..Len(buf) /\ 1 \in 1..n
        BY <3>2
      <4>2. SubSeq(buf, 1, n) \in Seq(Nat)
        BY <4>1
      <4>3. SubSeq(buf, 1, n)[1] = buf[1]
        BY <4>1
      <4>4. QED
        BY <4>2, <4>3
    <3>4. buf[1] = MSGT_DAWNCMD
      <4>1. d + 1 \in 1..Len(script) /\ (d + 1) - 1 = d /\ script \in Scripts
        BY <2>1, <2>2, Types
      <4>2. PICK b \in Nat, j \in 1..MAX : b = End(d) /\ FrameIn(Stream, b, d + 1, j)
        BY <4>1, ScriptFrame
      <4>3. buf[1] = Stream[b + 1]
        BY <2>5, <2>6, <2>7, <3>2, <4>2 DEF Part
      <4>4. QED
        BY <4>2, <4>3 DEF FrameIn
    <3>5. PICK del \in Seq(Seq(Nat)) : del = delivered /\ delivered' = Append(del, body)
      BY <3>1, <3>3, Types DEF Deliver
    <3>6. Len(Append(del, body)) = Len(del) + 1 /\ Append(del, body)[Len(del) + 1] = body
      BY AppendPlaces
    <3>7. PICK l \in Nat :
            l = Len(del) /\ Len(delivered') = l + 1 /\ delivered'[l + 1] = body
      <4>1. Len(del) \in Nat
        OBVIOUS
      <4>2. QED
        BY <3>5, <3>6, <4>1
    <3>8. Last(delivered')[1] = MSGT_DAWNCMD /\ delivered' # delivered
      <4>1. Last(delivered') = body
        BY <3>7 DEF Last
      <4>2. l + 1 # l
        OBVIOUS
      <4>3. QED
        BY <3>3, <3>4, <3>5, <3>7, <4>1, <4>2
    <3>9. Len(stack') = 2 /\ Head(stack').pc = "app"
      <4>1. Frames(stack) /\ "app" \in PCs /\ "doIO" \in Vias
        BY DEF SInv, RInv, PCs, Vias
      <4>2. stack' = [stack EXCEPT ![1].pc = "app", ![1].via = "doIO"]
        BY <3>1 DEF Deliver
      <4>3. Head(stack').pc = "app"
        BY <1>1, <4>1, <4>2, GotoStack
      <4>4. Len(stack') = 2
        BY <1>1, <4>2
      <4>5. QED
        BY <4>3, <4>4
    <3>10. d + 1 = Len(script) => PastIn' /\ Junk(Last(delivered'))
      <4> SUFFICES ASSUME d + 1 = Len(script) PROVE PastIn' /\ Junk(Last(delivered'))
        OBVIOUS
      <4>1. Len(script) > 0 /\ Len(script) - 1 = d
        BY <2>1
      <4>2. Begin(Len(script)) = End(d)
        BY <4>1 DEF Begin
      <4>3. p \in Nat /\ Begin(Len(script)) < p + n /\ n \in 0..Len(buf)
        <5>1. p \in Nat /\ p = Begin(Len(script))
          BY <2>5, <4>2, Zenon DEF Held
        <5>2. p < p + n
          BY <2>4, <5>1
        <5>3. QED
          BY <3>2, <5>1, <5>2
      <4>4. PastIn' /\ Last(delivered') = SubSeq(buf, 1, n)
        BY <1>1, <1>2, <1>3, <2>7, <3>1, <4>1, <4>3, PastDeliver
      <4>5. Junk(body)
        BY <3>3, <3>4 DEF Junk
      <4>6. QED
        BY <3>3, <4>4, <4>5
    <3>11. QED
      BY <1>2, <2>1, <2>2, <3>1, <3>8, <3>9, <3>10 DEF Stuck, Top
  <2>10. QED
    BY <2>8, <2>9
<1>6. QED
  BY <1>4, <1>5 DEF doIORead

(* There it ends: the assertion in Flush fails, unless the process is      *)
(* ended before.                                                           *)
LEMMA StuckStep ==
  ASSUME SInv, Server, Stuck
  PROVE  /\ ~doIO /\ ~Loop /\ ~Flush /\ ~ReturnFromApp
         /\ FlushTooEarly => Stuck'
<1>1. fault = "none" => stack # << >> /\ Top.pc = "app" /\ flushbuf # << >>
  BY DEF Stuck
<1>2. \A pc : At(pc) => fault = "none" /\ pc = "app"
  BY <1>1 DEF At
<1>3. ~doIO
  <2>1. doIO => At("read") \/ At("parse") \/ At("write")
    BY DEF doIO, doIORead, readMsgDone, readMsgFbInfo, readMsgReservation,
           readMsgFrameSignal, readMsgDawnCmd, readMsgUnexpected, Parsing, doIONoWrite,
           doIOWriteClosed, doIOFlushMore, doIODrain, doIODrainError
  <2>2. QED
    BY <1>2, <2>1
<1>4. ~Loop
  BY <1>1, <1>2 DEF Loop, Poll, NestedPoll, NestedPollStopped
<1>5. ~ReturnFromApp
  BY <1>2 DEF ReturnFromApp
<1>6. ~Flush
  <2>1. Flush => flushlen = 0 /\ fault = "none"
    BY DEF Flush, DonePrevious, At
  <2>2. SInv => (flushbuf # << >> => flushlen # 0)
    BY DEF SInv, SendTypeOK, flushlen
  <2>3. QED
    BY <1>1, <2>1, <2>2
<1>7. FlushTooEarly => Stuck'
  BY DEF FlushTooEarly, Fail, Stuck
<1>8. QED
  BY <1>3, <1>4, <1>5, <1>6, <1>7
-----------------------------------------------------------------------------
(* How many command buffers there can be, with one more when something is  *)
(* left to be flushed.                                                     *)
Within(frames, buf, n) ==
  Len(frames) =< n /\ (Len(buf) > HDR => Len(frames) < n)

LEMMA KeepsFrames ==
  doIO \/ Loop \/ FlushTooEarly \/ ReturnFromApp
    => flushed' = flushed /\ writebuf' \in {writebuf, DawnCmdHeader(0)}
<1>1. doIO => flushed' = flushed /\ writebuf' \in {writebuf, DawnCmdHeader(0)}
  BY DEF doIO, doIORead, readMsgDone, readMsgFbInfo, readMsgReservation,
      readMsgFrameSignal, readMsgDawnCmd, readMsgUnexpected, doIONoWrite,
      doIOWriteClosed, doIOFlushMore, doIODrain, doIODrainError, Fail, stop, program,
      cmdsOut
<1>2. Loop \/ FlushTooEarly \/ ReturnFromApp => flushed' = flushed /\ writebuf' = writebuf
  BY DEF Loop, Poll, NestedPoll, NestedPollStopped, FlushTooEarly, Fail,
      ReturnFromApp, program, cmdsOut
<1>3. QED
  BY <1>1, <1>2

LEMMA StaysWithin ==
  ASSUME SInv, NEW n \in Nat, Within(flushed, writebuf, n),
         doIO \/ Loop \/ Flush \/ FlushTooEarly \/ ReturnFromApp
  PROVE  Within(flushed', writebuf', n)
<1>1. HDR \in Nat /\ Len(DawnCmdHeader(0)) = HDR
  BY Sizes, HeaderType
<1>2. PICK frames \in Seq(Seq(Nat)), l \in Nat : frames = flushed /\ l = Len(frames)
  BY Types
<1>3. CASE flushed' = flushed /\ writebuf' \in {writebuf, DawnCmdHeader(0)}
  <2>1. ~(HDR > HDR)
    BY <1>1
  <2>2. QED
    BY <1>1, <1>3, <2>1 DEF Within
<1>4. CASE Flush /\ Len(writebuf) > HDR
  <2>1. Len(writebuf) # HDR
    BY <1>1, <1>4
  <2>2. writebuf' = DawnCmdHeader(0) /\ \E frame : flushed' = Append(flushed, frame)
    BY <1>4, <2>1, Zenon DEF Flush
  <2>3. PICK frame : flushed' = Append(frames, frame)
    BY <1>2, <2>2
  <2>4. frames \in Seq(Seq(Nat) \union {frame}) /\ frame \in Seq(Nat) \union {frame}
    BY <1>2
  <2>5. Len(Append(frames, frame)) = Len(frames) + 1
    BY <2>4, AppendProperties
  <2>6. l < n
    BY <1>2, <1>4 DEF Within
  <2>7. l + 1 =< n /\ ~(HDR > HDR)
    BY <1>1, <2>6
  <2>8. QED
    BY <1>1, <1>2, <2>2, <2>3, <2>5, <2>7 DEF Within
<1>5. Flush => (Len(writebuf) > HDR \/ (flushed' = flushed /\ writebuf' = writebuf))
  BY DEF Flush, cmdsOut
<1>6. QED
  BY <1>3, <1>4, <1>5, KeepsFrames

LEMMA GrowsWithin ==
  ASSUME SInv, NEW n \in Nat, Within(flushed, writebuf, n), NEW size, GetCmdSpace(size)
  PROVE  Within(flushed', writebuf', n + 1)
<1>1. PICK l \in Nat : l = Len(flushed) /\ l =< n
  BY Types DEF Within
<1>2. flushed' = flushed
  BY DEF GetCmdSpace, program
<1>3. QED
  BY <1>1, <1>2 DEF Within

LEMMA AppDelivers == App => delivered' = delivered
BY DEF App, GetCmdSpace, Flush, FlushTooEarly, Fail, sendFrameSignal,
       sendFramebufferInfo, sendReservation, send, ReturnFromApp, program

LEMMA OutsideKeeps ==
  ASSUME Outside
  PROVE  /\ UNCHANGED <<flushed, writebuf, flushbuf, delivered, stack>>
         /\ Made => Made' 
<1>1. UNCHANGED <<flushed, writebuf, flushbuf, delivered, stack>>
  BY DEF Outside, Own, cmdsOut
<1>2. QED
  BY <1>1 DEF Made, Numbered, Filling, Fill, DawnCmd, DawnCmdHeader

(* A process that has ended does nothing.                                  *)
LEMMA Alive == doIO \/ Loop \/ App => fault = "none"
<1>1. doIO \/ NestedPoll \/ NestedPollStopped \/ App => \E pc : At(pc)
  BY Zenon DEF doIO, doIORead, readMsgDone, readMsgFbInfo, readMsgReservation,
     readMsgFrameSignal, readMsgDawnCmd, readMsgUnexpected, Parsing, doIONoWrite,
     doIOWriteClosed, doIOFlushMore, doIODrain, doIODrainError,
     NestedPoll, NestedPollStopped, App, GetCmdSpace, Flush, FlushTooEarly,
     sendFrameSignal, sendFramebufferInfo, sendReservation, send, ReturnFromApp
<1>2. Poll => fault = "none"
  BY DEF Poll
<1>3. QED
  BY <1>1, <1>2 DEF At, Loop

LEMMA ReadsNow == (doIO \/ Loop \/ App) /\ At("read") => doIORead
<1>1. doIO \/ NestedPoll \/ NestedPollStopped \/ App =>
        doIORead \/ \E pc : At(pc) /\ pc # "read"
  <2>1. {"parse", "write", "poll", "app", "return"} \intersect {"read"} = {}
    OBVIOUS
  <2>2. doIO \/ NestedPoll \/ NestedPollStopped \/ App =>
          \/ doIORead \/ At("parse") \/ At("write") \/ At("poll") \/ At("app")
          \/ At(IF Server THEN "return" ELSE "app")
    BY Zenon DEF doIO, doIORead, readMsgDone, readMsgFbInfo, readMsgReservation,
       readMsgFrameSignal, readMsgDawnCmd, readMsgUnexpected, Parsing, doIONoWrite,
       doIOWriteClosed, doIOFlushMore, doIODrain, doIODrainError,
       NestedPoll, NestedPollStopped, App, GetCmdSpace, Flush, FlushTooEarly,
       sendFrameSignal, sendFramebufferInfo, sendReservation, send, ReturnFromApp
  <2>3. QED
    BY <2>1, <2>2
<1>2. Poll => stack = << >>
  BY DEF Poll
<1>3. QED
  BY <1>1, <1>2 DEF At, Loop
-----------------------------------------------------------------------------
(* At the start nothing is received, and nothing made.                     *)
LEMMA StartsNumbered == Init => Made /\ Receiving /\ Within(flushed, writebuf, 0)
<1> SUFFICES ASSUME Init PROVE Made /\ Receiving /\ Within(flushed, writebuf, 0)
  OBVIOUS
<1>1. /\ writebuf = DawnCmdHeader(0) /\ rbuf = << >> /\ dawnCmdRLen = 0 /\ taken = 0
      /\ flushed = << >> /\ delivered = << >>
      /\ stack = IF Server THEN << >>
                 ELSE <<[pc |-> "app", wr |-> FALSE, via |-> "main"]>>
  BY DEF Init
<1>2. Len(<< >>) = 0 /\ (1..0) = {}
  OBVIOUS
<1>3. Numbered(flushed) /\ Len(flushed) = 0
  BY <1>1, <1>2, Zenon DEF Numbered
<1>4. Made
  <2>1. MaxFrames \in Nat /\ MAX \in Nat /\ 0 \in 0..MAX
    BY ProtocolAssumption
  <2>2. Filling(0)
    <3>1. DawnCmdHeader(0) = DawnCmdHeader(0) \o Fill(0 + 1, 0)
      BY NothingFilled
    <3>2. QED
      BY <1>1, <1>3, <3>1, Zenon DEF Filling
  <2>3. QED
    BY <1>3, <2>1, <2>2 DEF Made
<1>5. Receiving
  <2>1. SInv
    BY SInvInit
  <2>2. Len(script) \in Nat /\ Stream \in Seq(Nat) /\ Len(Stream) \in Nat
        /\ script \in Scripts
    BY <2>1, Types
  <2>3. End(0) = 0
    BY <2>2, EndOrder
  <2>4. Held(0)
    BY <1>1, <1>2, <2>2 DEF Held, Part
  <2>5. ~BusyIn(stack) /\ NestsToWrite(stack)
    <3>1. PICK f : f = [pc |-> "app", wr |-> FALSE, via |-> "main"]
      OBVIOUS
    <3>2. <<f>> # << >> /\ Len(<<f>>) = 1 /\ <<f>>[1] = f /\ f.via = "main"
      BY <3>1
    <3>3. CASE Server
      BY <1>1, <1>2, <3>3 DEF BusyIn, NestsToWrite
    <3>4. CASE ~Server
      <4>1. stack = <<f>>
        BY <1>1, <3>1, <3>4
      <4>2. QED
        BY <3>2, <4>1 DEF BusyIn, NestsToWrite, Outer
    <3>5. QED
      BY <3>3, <3>4
  <2>6. Bodies(0)
    BY <1>1, <1>2 DEF Bodies
  <2>7. AtFrame(0)
    BY <1>1, <2>3, <2>4, <2>5 DEF AtFrame
  <2>8. QED
    BY <1>1, <1>2, <2>2, <2>5, <2>6, <2>7 DEF Receiving
<1>6. Within(flushed, writebuf, 0)
  <2>1. Len(DawnCmdHeader(0)) = HDR /\ HDR \in Nat
    BY HeaderType, Sizes
  <2>2. QED
    BY <1>1, <1>3, <2>1 DEF Within
<1>7. QED
  BY <1>4, <1>5, <1>6
-----------------------------------------------------------------------------
(* An endpoint that flushes in time: while the loop that Flush runs has    *)
(* its one turn, or is about to, the send buffer has room for all of the   *)
(* command buffer, and otherwise there is none.                            *)
Prompt ==
  fault = "none" =>
    /\ Len(stack) = 2 => Top.wr /\ Top.via # "main" /\ room >= flushlen
    /\ Polling /\ running => evWrite /\ room >= flushlen
    /\ ~Polling /\ Len(stack) # 2 => flushbuf = << >>

LEMMA PromptGoes ==
  ASSUME SInv, Prompt, NEW from, At(from), from # "poll",
         NEW pc \in PCs \ {"poll"}, NEW via \in Vias \ {"main"},
         Goto(pc) \/ stack' = [stack EXCEPT ![1].pc = pc, ![1].via = via],
         UNCHANGED <<flushbuf, room>>
  PROVE  Prompt'
<1>1. /\ stack \in Seq(Frame) /\ stack # << >> /\ Top.pc = from /\ Top = Head(stack)
      /\ fault = "none" /\ ~Polling
  BY AtTop DEF At, Polling
<1>2. PICK st \in Seq(Frame), new \in {stack'} : st = stack
  BY <1>1
<1>3. /\ new # << >> /\ Len(new) = Len(st) /\ Head(new) = new[1]
      /\ new[1].pc = pc /\ new[1].wr = Head(st).wr
      /\ new[1].via \in {Head(st).via, via}
  <2>1. Goes(st, new, pc, via)
    BY <1>2 DEF Goes, Goto
  <2>2. QED
    BY <1>1, <1>2, <2>1, GoneOn
<1>4. /\ Top'.pc = pc /\ Top'.wr = Top.wr /\ Top'.via \in {Top.via, via}
      /\ Len(stack') = Len(stack) /\ ~Polling'
  BY <1>1, <1>2, <1>3 DEF Top, Polling
<1>5. QED
  BY <1>1, <1>4 DEF Prompt, flushlen

LEMMA PromptReturns ==
  ASSUME SInv, stack # << >>, Return, flushbuf' = << >>
  PROVE  Prompt'
<1>1. Len(stack') # 2
  <2>1. PICK st \in Seq(Frame) : st = stack /\ st # << >> /\ Len(st) =< 2
    BY Types
  <2>2. Len(st) \in {1, 2} /\ (Len(st) = 1 => Tail(st) = << >>) /\ (Len(st) = 2 => Len(Tail(st)) = 1)
    BY <2>1, Returned
  <2>3. Len(<< >>) # 2
    OBVIOUS
  <2>4. QED
    BY <2>1, <2>2, <2>3 DEF Return
<1>2. ~Polling'
  <2>1. stack' = << >> \/ Head(stack').pc \in {"app", "return"}
    BY ReturnStack DEF Return, SInv, RInv
  <2>2. QED
    BY <2>1 DEF Polling, Top
<1>3. QED
  BY <1>1, <1>2 DEF Prompt

LEMMA PromptSame ==
  ASSUME Prompt, UNCHANGED <<stack, flushbuf, running, evWrite>>, room' = room,
         fault' = "none" => fault = "none"
  PROVE  Prompt'
BY DEF Prompt, Polling, Top, flushlen

(* The turn of the loop that Flush runs. *)
LEMMA PromptPoll ==
  ASSUME SInv, Prompt, Loop
  PROVE  Prompt'
<1>1. CASE Poll
  <2>1. Len(stack') = 1 /\ Head(stack') = Dispatch /\ Dispatch.pc # "poll"
    BY <1>1 DEF Poll, Dispatch
  <2>2. ~Polling /\ Len(stack) # 2 /\ fault = "none"
    BY <1>1 DEF Poll, Polling
  <2>3. flushbuf' = << >> /\ ~Polling'
    BY <1>1, <2>1, <2>2 DEF Prompt, Poll, cmdsOut, Polling, Top
  <2>4. QED
    BY <2>1, <2>3 DEF Prompt
<1>2. CASE NestedPoll
  <2>1. Polling /\ running /\ fault = "none" /\ UNCHANGED <<flushbuf, room>>
    BY <1>2 DEF NestedPoll, At, Polling, cmdsOut, socket
  <2>2. evWrite /\ room >= flushlen /\ Fresh /\ Len(stack) # 2
    BY <2>1 DEF Prompt, SInv, Sending, Nesting
  <2>3. stack \in Seq(Frame) /\ stack # << >> /\ Len(stack) = 1
    <3>1. Len(stack) \in {1, 2} /\ stack \in Seq(Frame) /\ stack # << >>
      BY <2>1, OneOrTwo, Types DEF Polling
    <3>2. QED
      BY <2>2, <3>1
  <2>4. Writable
    <3>1. flushbuf \in Seq(Nat) /\ flushbuf # << >> /\ room \in Nat
      BY <2>2 DEF SInv, SendTypeOK, Fresh
    <3>2. flushlen \in Nat /\ flushlen # 0
      BY <3>1, EmptySeq DEF flushlen
    <3>3. QED
      BY <2>2, <3>1, <3>2 DEF Writable
  <2>5. PICK st \in Seq(Frame) : st = Resumed /\ Len(st) = 1
    <3>1. Resumed \in Seq(Frame)
      BY <2>3, ResumedStack DEF SInv, RInv, Frames
    <3>2. Len(Resumed) = 1
      BY <2>3 DEF Resumed
    <3>3. QED
      BY <3>1, <3>2
  <2>6. stack' = <<Dispatch>> \o st
    BY <1>2, <2>4, <2>5 DEF NestedPoll
  <2>7. PICK f \in Frame : f = Dispatch /\ f.wr /\ f.via = "loop" /\ f.pc # "poll"
    <3>1. Writable \in BOOLEAN
      BY <2>4
    <3>2. Dispatch \in Frame
      BY <3>1 DEF Dispatch, Frame
    <3>3. Dispatch.wr /\ Dispatch.via = "loop" /\ Dispatch.pc # "poll"
      BY <2>4 DEF Dispatch
    <3>4. QED
      BY <3>2, <3>3
  <2>8. Len(stack') = 2 /\ Head(stack') = f
    BY <2>5, <2>6, <2>7, Called
  <2>9. ~Polling'
    BY <2>7, <2>8 DEF Polling, Top
  <2>10. QED
    BY <2>1, <2>2, <2>7, <2>8, <2>9 DEF Prompt, Top, flushlen
<1>3. CASE NestedPollStopped
  <2>1. fault' # "none"
    BY <1>3 DEF NestedPollStopped, Fail
  <2>2. QED
    BY <2>1 DEF Prompt
<1>4. QED
  BY <1>1, <1>2, <1>3 DEF Loop

LEMMA PromptIO ==
  ASSUME SInv, Prompt, ~WriteErrors, doIO
  PROVE  Prompt'
<1>1. fault = "none" /\ stack # << >> /\ ~Polling
  BY DEF doIO, doIORead, readMsgDone, readMsgFbInfo, readMsgReservation,
     readMsgFrameSignal, readMsgDawnCmd, readMsgUnexpected, Parsing, doIONoWrite,
     doIOWriteClosed, doIOFlushMore, doIODrain, doIODrainError, At, Polling
<1>2. {"parse", "write", "app"} \subseteq PCs \ {"poll"}
      /\ {"readMsg", "doIO", "loop"} \subseteq Vias \ {"main"}
  BY DEF PCs, Vias
<1>3. CASE doIORead
  <2>1. CASE stop /\ Return
    BY <1>1, <2>1, PromptReturns DEF stop
  <2>2. CASE /\ UNCHANGED <<flushbuf, room>>
             /\ \/ Goto("parse") \/ Goto("write")
                \/ stack' = [stack EXCEPT ![1].pc = "app", ![1].via = "doIO"]
    BY <1>2, <1>3, <2>2, PromptGoes DEF doIORead
  <2>3. QED
    BY <1>3, <2>1, <2>2 DEF doIORead, Deliver, cmdsOut
<1>4. CASE readMsgDone
  <2>1. At("parse") /\ Goto("write") /\ UNCHANGED <<flushbuf, room>>
    BY <1>4 DEF readMsgDone, cmdsOut, socket
  <2>2. QED
    BY <1>2, <2>1, PromptGoes
<1>5. CASE readMsgFbInfo \/ readMsgReservation \/ readMsgFrameSignal
  <2>1. UNCHANGED <<stack, flushbuf, running, evWrite, room>>
    BY <1>5 DEF readMsgFbInfo, readMsgReservation, readMsgFrameSignal, cmdsOut, loop, socket
  <2>2. QED
    BY <1>1, <2>1, PromptSame
<1>6. CASE readMsgDawnCmd
  <2>1. UNCHANGED <<flushbuf, running, evWrite, room>> /\ At("parse")
    BY <1>6 DEF readMsgDawnCmd, Parsing, cmdsOut, loop, socket
  <2>2. CASE stack' = stack
    BY <1>1, <2>1, <2>2, PromptSame
  <2>3. CASE stack' = [stack EXCEPT ![1].pc = "app", ![1].via = "readMsg"]
    BY <1>2, <2>1, <2>3, PromptGoes
  <2>4. QED
    BY <1>6, <2>2, <2>3 DEF readMsgDawnCmd, Deliver
<1>7. CASE readMsgUnexpected
  BY <1>1, <1>7, PromptReturns DEF readMsgUnexpected, stop
<1>8. CASE doIONoWrite
  <2>1. Len(stack) # 2 /\ Return /\ flushbuf' = flushbuf
    BY <1>1, <1>8 DEF doIONoWrite, Prompt, cmdsOut
  <2>2. QED
    BY <1>1, <2>1, PromptReturns DEF Prompt
<1>9. CASE doIOWriteClosed
  BY <1>9 DEF doIOWriteClosed, Fail, Prompt
<1>10. CASE doIOFlushMore
  <2>1. room < Len(Unsent) /\ flushlen # 0
    BY <1>10 DEF doIOFlushMore
  <2>2. flushbuf # << >>
    <3>1. Len(<< >>) = 0
      OBVIOUS
    <3>2. QED
      BY <2>1, <3>1 DEF flushlen
  <2>3. room >= flushlen /\ flushoffs = 0
    BY <1>1, <2>2 DEF Prompt, SInv, Sending, Nesting, Fresh
  <2>4. PICK buf \in Seq(Nat) : buf = flushbuf
    BY DEF SInv, SendTypeOK
  <2>5. Unsent = buf
    <3>1. SubSeq(buf, 0 + 1, Len(buf)) = buf
      OBVIOUS
    <3>2. QED
      BY <2>3, <2>4, <3>1 DEF Unsent, flushlen
  <2>6. room \in Nat /\ Len(buf) \in Nat
    BY DEF SInv, SendTypeOK
  <2>7. QED
    BY <2>1, <2>3, <2>4, <2>5, <2>6 DEF flushlen
<1>11. CASE doIODrain
  BY <1>1, <1>11, PromptReturns DEF doIODrain
<1>12. CASE doIODrainError
  BY <1>12 DEF doIODrainError
<1>13. QED
  BY <1>3, <1>4, <1>5, <1>6, <1>7, <1>8, <1>9, <1>10, <1>11, <1>12 DEF doIO

(* A command buffer is flushed when there is room for it. *)
LEMMA PromptFlush ==
  ASSUME SInv, Prompt, Flush, Len(writebuf) > HDR => room >= Len(writebuf)
  PROVE  Prompt'
<1>1. At("app") /\ stack # << >> /\ ~Polling /\ fault = "none" /\ flushbuf = << >>
  <2>1. flushbuf \in Seq(Nat) /\ flushlen = 0
    BY DEF Flush, DonePrevious, SInv, SendTypeOK
  <2>2. flushbuf = << >>
    BY <2>1, EmptySeq DEF flushlen
  <2>3. QED
    BY <2>2 DEF Flush, At, Polling
<1>2. Len(stack) = 1
  <2>1. Len(stack) # 2
    BY <1>1 DEF SInv, Sending, Nesting, Fresh
  <2>2. QED
    BY <1>1, <2>1, OneOrTwo
<1>3. CASE stack' = Resumed /\ UNCHANGED cmdsOut
  <2>1. Frames(Resumed) /\ Resumed # << >> /\ Head(Resumed).pc \in {"app", "return"}
    BY <1>1, ResumedStack DEF SInv, RInv
  <2>2. Len(Resumed) = 1
    BY <1>2, Types DEF Resumed
  <2>3. ~Polling' /\ Len(stack') # 2 /\ flushbuf' = << >>
    BY <1>1, <1>3, <2>1, <2>2 DEF Polling, Top, cmdsOut
  <2>4. QED
    BY <2>3 DEF Prompt
<1>4. CASE Len(writebuf) > HDR
  <2>1. PICK frame \in Seq(Nat) : flushbuf' = frame /\ Len(frame) = Len(writebuf)
    BY <1>4, FlushTakes DEF SInv
  <2>2. Goto("poll") /\ evWrite' = (evWrite \/ running) /\ UNCHANGED <<room, running>>
    BY <1>4, Sizes DEF Flush, setNeedsWriteFlush, socket
  <2>3. Len(stack') = 1
    BY <1>2, <2>2, Types DEF Goto
  <2>4. Polling'
    <3>1. "poll" \in PCs /\ "doIO" \in Vias
      BY DEF PCs, Vias
    <3>2. QED
      BY <1>1, <2>2, <3>1, GotoStack DEF Polling, Top, SInv, RInv
  <2>5. running' => evWrite' /\ room' >= flushlen'
    BY <1>4, <2>1, <2>2 DEF flushlen
  <2>6. QED
    BY <2>3, <2>4, <2>5 DEF Prompt
<1>5. QED
  BY <1>3, <1>4 DEF Flush

(* The program in between. *)
LEMMA PromptApp ==
  ASSUME SInv, Prompt, ReturnFromApp \/ \E size : GetCmdSpace(size)
  PROVE  Prompt'
<1>1. ASSUME NEW size, GetCmdSpace(size) PROVE Prompt'
  BY <1>1, PromptSame DEF GetCmdSpace, loop, socket, At
<1>2. CASE ReturnFromApp
  <2>1. /\ UNCHANGED <<flushbuf, room>> /\ stack # << >> /\ fault = "none" /\ ~Polling
        /\ \E pc : pc # "poll" /\ At(pc)
    BY <1>2 DEF ReturnFromApp, cmdsOut, socket, At, Polling
  <2>2. CASE Top.via = "main" /\ Return
    <3>1. Len(stack) # 2
      BY <2>1, <2>2 DEF Prompt
    <3>2. QED
      BY <2>1, <2>2, <3>1, PromptReturns DEF Prompt
  <2>3. CASE Goto("parse") \/ Goto("write")
    <3>1. {"parse", "write"} \subseteq PCs \ {"poll"} /\ "doIO" \in Vias \ {"main"}
      BY DEF PCs, Vias
    <3>2. QED
      BY <2>1, <2>3, <3>1, PromptGoes
  <2>4. QED
    BY <1>2, <2>2, <2>3 DEF ReturnFromApp
<1>3. QED
  BY <1>1, <1>2

(* What the other side does only makes room. *)
LEMMA OutsidePrompt ==
  ASSUME SInv, Prompt, Outside, room' >= room
  PROVE  Prompt'
<1>1. UNCHANGED <<stack, flushbuf, running, evWrite>> /\ (fault' = "none" => fault = "none")
  BY DEF Outside, Own, cmdsOut, loop
<1>2. room' \in Nat /\ room \in Nat /\ Len(flushbuf) \in Nat
  <2>1. room' \in Nat /\ room \in Nat /\ flushbuf \in Seq(Nat)
    BY DEF Outside, SInv, SendTypeOK
  <2>2. QED
    BY <2>1
<1>3. room >= flushlen => room' >= flushlen'
  BY <1>1, <1>2 DEF flushlen
<1>4. QED
  BY <1>1, <1>3 DEF Prompt, Polling, Top

LEMMA PromptInit == Init => Prompt
<1> SUFFICES ASSUME Init PROVE Prompt
  OBVIOUS
<1>1. CASE stack = << >>
  BY <1>1 DEF Init, Prompt, Polling
<1>2. CASE stack = <<[pc |-> "app", wr |-> FALSE, via |-> "main"]>>
  BY <1>2 DEF Init, Prompt, Polling, Top
<1>3. QED
  BY <1>1, <1>2 DEF Init

(* In the only activation of the program there is nothing to be flushed.   *)
LEMMA PromptDone ==
  ASSUME SInv, Prompt, At("app"), Depth(stack) = 1
  PROVE  flushbuf = << >>
<1>1. stack # << >> /\ Head(stack).pc = "app" /\ fault = "none" /\ ~Polling
  BY DEF At, Polling, Top
<1>2. Len(stack) = 1
  BY <1>1 DEF Depth, InProgramAt
<1>3. QED
  BY <1>1, <1>2 DEF Prompt

(* Only a Flush fails that assertion. *)
LEMMA OnlyFlushFails ==
  ASSUME doIO \/ Loop \/ Flush \/ ReturnFromApp \/ (\E size : GetCmdSpace(size)),
         fault # "assert_flush"
  PROVE  fault' # "assert_flush"
BY DEF doIO, doIORead, readMsgDone, readMsgFbInfo, readMsgReservation,
   readMsgFrameSignal, readMsgDawnCmd, readMsgUnexpected, Deliver, Callback, doIONoWrite,
   doIOWriteClosed, doIOFlushMore, doIODrain, doIODrainError, Loop, Poll, NestedPoll,
   NestedPollStopped, GetCmdSpace, Flush, ReturnFromApp, Fail

(* How many bytes wait to be flushed, and are flushed. *)
LEMMA SpaceBytes ==
  ASSUME SInv, AppFits, NEW size \in Nat, GetCmdSpace(size)
  PROVE  /\ flushed' = flushed
         /\ Len(writebuf') =< Len(writebuf) + size /\ Len(writebuf') =< BufSize
<1>1. PICK buf \in Seq(Nat), l \in Nat : buf = writebuf /\ l = Len(buf)
  BY DEF SInv, SendTypeOK
<1>2. l + size =< BufSize /\ flushed' = flushed
  BY <1>1 DEF GetCmdSpace, program
<1>3. BufSize \in Nat
  BY Sizes DEF BufSize
<1>4. PICK k \in Nat : k = Len(flushed) + 1
  BY Types
<1>5. PICK fill \in Seq(Nat) : fill = [i \in 1..size |-> k] /\ Len(fill) = size
  <2>1. [i \in 1..size |-> k] \in Seq(Nat) /\ Len([i \in 1..size |-> k]) = size
    OBVIOUS
  <2>2. QED
    BY <2>1
<1>6. Len(buf \o fill) = l + size
  BY <1>1, <1>5
<1>7. writebuf' = buf \/ writebuf' = buf \o fill
  BY <1>1, <1>4, <1>5 DEF GetCmdSpace
<1>8. QED
  BY <1>1, <1>2, <1>3, <1>6, <1>7

LEMMA FlushedBytes ==
  ASSUME SInv, Flush
  PROVE  \/ Len(writebuf) = HDR /\ flushed' = flushed /\ writebuf' = writebuf
         \/ /\ Len(writebuf) > HDR /\ Len(writebuf') = HDR
            /\ Len(FlattenSeq(flushed')) = Len(FlattenSeq(flushed)) + Len(writebuf)
<1>1. CASE Len(writebuf) > HDR
  <2>1. PICK frame \in Seq(Nat) :
          /\ flushed' = Append(flushed, frame) /\ Len(frame) = Len(writebuf)
          /\ writebuf' = DawnCmdHeader(0)
    BY <1>1, FlushTakes DEF SInv
  <2>2. PICK frames \in Seq(Seq(Nat)) : frames = flushed
    BY Types
  <2>3. PICK bytes \in Seq(Nat) : bytes = FlattenSeq(frames)
    BY FlattenType
  <2>4. FlattenSeq(Append(frames, frame)) = bytes \o frame
    BY <2>3, FlattenAppend
  <2>5. Len(bytes \o frame) = Len(bytes) + Len(frame)
    OBVIOUS
  <2>6. Len(writebuf') = HDR
    BY <2>1, HeaderType, Sizes
  <2>7. QED
    BY <1>1, <2>1, <2>2, <2>3, <2>4, <2>5, <2>6
<1>2. CASE Len(writebuf) = HDR /\ UNCHANGED <<flushed, writebuf>>
  BY <1>2
<1>3. QED
  BY <1>1, <1>2 DEF Flush, cmdsOut

(* No byte is written that was not flushed.                                *)
LEMMA WrittenIsFlushed ==
  ASSUME SInv
  PROVE  /\ Len(wire) \in Nat /\ Len(FlattenSeq(flushed)) \in Nat
         /\ Len(wire) =< Len(FlattenSeq(flushed))
<1>1. PICK w \in Seq(Nat), all \in Seq(Nat) :
        w = wire /\ all = FlattenSeq(flushed) /\ IsPrefix(w, all)
  BY WireBegins
<1>2. Len(w) =< Len(all)
  BY <1>1 DEF IsPrefix
<1>3. QED
  BY <1>1, <1>2
=============================================================================
