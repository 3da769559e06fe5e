--------------------------- MODULE DeliveryProofs ---------------------------
(***************************************************************************)
(* Proofs that the server gets the command buffers its peer sends, whole   *)
(* and in order, that it reads nothing while it handles one, and that none *)
(* of its assertions fails, when the two programs are used as they are     *)
(* meant to be (UsedAsIntended); for command buffers, sockets and scripts  *)
(* of any size, whatever the socket accepts at a time.                     *)
(*                                                                         *)
(* What makes it work is that a client waits for its answer: Turn says     *)
(* that bytes of a message have arrived only when all the answers before   *)
(* it were on the wire.  So when something is there to be read, nothing is *)
(* left to be flushed, and while a command buffer is handled, or its       *)
(* answer is being flushed, nothing is there (NothingNew).  That is why    *)
(* the doIO that Flush may call in between does not read into _rbuf, and   *)
(* Place can tell what is in it at every point of doIO.                    *)
(***************************************************************************)
EXTENDS FrameProofs

(* The server, and a client that asks, waits for the answer and closes the *)
(* connection when it likes; bytes may arrive in pieces, but not a piece   *)
(* of a header.  Neither program sends anything but command buffers, and   *)
(* the server's answers fit into one.                                      *)
UsedAsIntended ==
  /\ Server /\ Lockstep /\ ~AnyCut /\ AppFits /\ MaxMeta = 0
  /\ Slack > 0
  /\ \A s \in Scripts : \A m \in 1..Len(s) :
       \E body \in Seq(Nat) : Len(body) \in 1..MAX /\ s[m] = DawnCmd(body)
-----------------------------------------------------------------------------
(* Every message is a command buffer: a header, and a body of 1..MAX bytes *)
(* whose length the header tells.                                          *)
LEMMA Message ==
  ASSUME UsedAsIntended, script \in Scripts, NEW m \in 1..Len(script)
  PROVE  \E n \in 1..MAX :
           /\ script[m] \in Seq(Nat) /\ Len(script[m]) = HDR + n
           /\ script[m][1] = MSGT_DAWNCMD /\ script[m][2] = n
           /\ Begin(m) \in Nat /\ End(m) = Begin(m) + HDR + n
           /\ End(m) =< Len(Stream)
           /\ SubSeq(Stream, Begin(m) + 1, End(m)) = script[m]
<1>1. PICK body \in Seq(Nat) : Len(body) \in 1..MAX /\ script[m] = DawnCmd(body)
  BY DEF UsedAsIntended
<1>2. PICK n \in 1..MAX : n = Len(body)
  BY <1>1
<1>3. n \in Nat /\ HDR \in Nat /\ HDR > 1 /\ 1 \in 1..HDR /\ 2 \in 1..HDR
  BY Sizes
<1>4. PICK h \in Seq(Nat) : h = DawnCmdHeader(n)
  BY <1>3, HeaderType
<1>5. Len(h) = HDR /\ h[1] = MSGT_DAWNCMD /\ h[2] = n
  <2>1. Len(h) = HDR
    BY <1>3, <1>4, HeaderType
  <2>2. h[1] = MSGT_DAWNCMD /\ h[2] = n
    BY <1>3, <1>4 DEF DawnCmdHeader
  <2>3. QED
    BY <2>1, <2>2
<1>6. PICK cmd \in Seq(Nat) : cmd = h \o body
  BY <1>4, ConcatProperties
<1>7. Len(cmd) = HDR + n /\ cmd[1] = MSGT_DAWNCMD /\ cmd[2] = n
  <2>1. Len(cmd) = Len(h) + Len(body)
    BY <1>6, ConcatProperties
  <2>2. \A i \in 1..HDR : cmd[i] = h[i]
    <3>1. Len(body) \in Nat
      OBVIOUS
    <3>2. QED
      BY <1>3, <1>5, <1>6, <3>1, ConcatProperties
  <2>3. QED
    BY <1>2, <1>3, <1>5, <2>1, <2>2
<1>8. script[m] = cmd
  BY <1>1, <1>2, <1>4, <1>6 DEF DawnCmd
<1>9. /\ Begin(m) \in Nat /\ End(m) = Begin(m) + Len(script[m]) /\ End(m) =< Len(Stream)
      /\ SubSeq(Stream, Begin(m) + 1, End(m)) = script[m]
  <2>1. script \in Seq(Seq(Nat))
    BY ScriptType
  <2>2. QED
    BY <2>1, FlattenPlace DEF End, Begin, Stream
<1>10. End(m) = Begin(m) + HDR + n
  BY <1>3, <1>7, <1>8, <1>9
<1>11. QED
  BY <1>7, <1>8, <1>9, <1>10
-----------------------------------------------------------------------------
(* A message is on its way only when the answers before it are sent.       *)

Turn ==
  \A m \in 1..Len(script) : Begin(m) < arrived =>
    /\ m - 1 =< Len(flushed)
    /\ Len(FlattenSeq(SubSeq(flushed, 1, m - 1))) =< Len(wire)

(* What has arrived ends with a message, or is part of one: its header, or *)
(* that and more after it has been read.                                   *)
CutIn(m, a) == /\ Begin(m) + HDR =< a /\ a < End(m)
               /\ a = Begin(m) + HDR \/ taken >= Begin(m) + HDR
Cut == \/ \E m \in 0..Len(script) : arrived = End(m)
       \/ \E m \in 1..Len(script) : CutIn(m, arrived)

(* Nothing goes off the wire, and nothing that was flushed is forgotten.   *)
LEMMA OnlyMoreSent ==
  ASSUME SInv, [Next]_vars
  PROVE  /\ Len(wire) =< Len(wire')
         /\ flushed' = flushed \/ \E x : flushed' = Append(flushed, x)
<1>1. wire \in Seq(Nat) /\ Len(wire) \in Nat /\ Unsent \in Seq(Nat)
  BY UnsentType DEF SInv, SendTypeOK
<1>2. Channel!Next \/ UNCHANGED Channel!vars
  BY ChannelStep DEF SInv, Sending
<1>3. ASSUME NEW n \in 1..Len(Unsent), Channel!Emit(n)
      PROVE  Len(wire) =< Len(wire') /\ flushed' = flushed
  <2>1. wire' = wire \o SubSeq(Unsent, 1, n) /\ flushed' = flushed
    BY <1>3 DEF Channel!Emit
  <2>2. PICK out \in Seq(Nat) : out = SubSeq(Unsent, 1, n)
    <3>1. n \in 0..Len(Unsent)
      OBVIOUS
    <3>2. QED
      BY <1>1, <3>1, SplitAt
  <2>3. Len(wire') = Len(wire) + Len(out) /\ Len(out) \in Nat
    BY <1>1, <2>1, <2>2, ConcatProperties
  <2>4. QED
    BY <1>1, <2>1, <2>3
<1>4. ASSUME wire' = wire, flushed' = flushed \/ flushed' = Append(flushed, Unsent')
      PROVE  /\ Len(wire) =< Len(wire')
             /\ flushed' = flushed \/ \E x : flushed' = Append(flushed, x)
  BY <1>1, <1>4
<1>5. QED
  BY <1>2, <1>3, <1>4 DEF Channel!Next, Channel!Accept, Channel!GiveUp, Channel!vars

LEMMA TurnStep ==
  ASSUME UsedAsIntended, SInv, Turn, Cut, [Next]_vars
  PROVE  Turn' /\ Cut'
<1>1. /\ script \in Scripts /\ taken \in Nat /\ arrived \in Nat
      /\ flushed \in Seq(Seq(Nat)) /\ wire \in Seq(Nat) /\ Len(wire) \in Nat
      /\ room \in 0..OutCap /\ OutCap \in Nat
  BY StreamType, ProtocolAssumption DEF SInv, RInv, ReceiveTypeOK, SendTypeOK
<1>2. CASE UNCHANGED <<script, arrived>> /\ taken =< taken'
  <2>1. ASSUME NEW m \in 1..Len(script), m - 1 =< Len(flushed),
               Len(FlattenSeq(SubSeq(flushed, 1, m - 1))) =< Len(wire)
        PROVE  /\ m - 1 =< Len(flushed')
               /\ Len(FlattenSeq(SubSeq(flushed', 1, m - 1))) =< Len(wire')
    <3>1. Len(wire) =< Len(wire') /\ Len(wire') \in Nat
      <4>1. Len(wire) =< Len(wire')
        BY OnlyMoreSent
      <4>2. SendTypeOK'
        BY SendTypeStep DEF SInv
      <4>3. QED
        BY <4>1, <4>2 DEF SendTypeOK
    <3>2. m - 1 \in 0..Len(flushed) /\ Len(flushed) \in Nat
      BY <1>1, <2>1
    <3>3. PICK b \in Nat : b = Len(FlattenSeq(SubSeq(flushed, 1, m - 1)))
      <4>1. FlattenSeq(SubSeq(flushed, 1, m - 1)) \in Seq(Nat)
        BY <1>1, <3>2, FlattenPrefixType
      <4>2. QED
        BY <4>1
    <3>4. b =< Len(wire')
      BY <1>1, <2>1, <3>1, <3>3
    <3>5. CASE flushed' = flushed
      BY <2>1, <3>3, <3>4, <3>5
    <3>6. ASSUME NEW x, flushed' = Append(flushed, x)
          PROVE  /\ m - 1 =< Len(flushed')
                 /\ SubSeq(flushed', 1, m - 1) = SubSeq(flushed, 1, m - 1)
      <4>1. Len(flushed') = Len(flushed) + 1
        BY <1>1, <3>6
      <4>2. SubSeq(Append(flushed, x), 1, m - 1) = SubSeq(flushed, 1, m - 1)
        BY <1>1, <3>2
      <4>3. QED
        BY <3>2, <3>6, <4>1, <4>2
    <3>7. QED
      BY <3>3, <3>4, <3>5, <3>6, OnlyMoreSent
  <2>2. Turn'
    BY <1>2, <2>1 DEF Turn, Begin, End
  <2>3. \A m \in 0..Len(script) : End(m) \in Nat
    BY <1>1, EndOrder
  <2>4. ASSUME NEW m \in 1..Len(script), CutIn(m, arrived)
        PROVE  CutIn(m, arrived)'
    <3>1. Begin(m) \in Nat /\ HDR \in Nat
      BY <2>3, Sizes DEF Begin
    <3>2. taken' \in Nat
      <4>1. RInv'
        BY ReceiveStep DEF SInv
      <4>2. QED
        BY <4>1 DEF RInv, ReceiveTypeOK
    <3>3. Begin(m)' = Begin(m) /\ End(m)' = End(m)
      BY <1>2 DEF Begin, End
    <3>4. QED
      BY <1>1, <1>2, <2>4, <3>1, <3>2, <3>3 DEF CutIn
  <2>5. Cut'
    <3>1. ASSUME NEW m \in 0..Len(script), arrived = End(m) PROVE Cut'
      BY <1>2, <3>1 DEF Cut, End
    <3>2. ASSUME NEW m \in 1..Len(script), CutIn(m, arrived) PROVE Cut'
      BY <1>2, <2>4, <3>2 DEF Cut
    <3>3. QED
      BY <3>1, <3>2 DEF Cut
  <2>6. QED
    BY <2>2, <2>5
<1>3. ASSUME NEW n \in 1..Len(Stream), Arrive(n) PROVE Turn' /\ Cut'
  <2>1. UNCHANGED <<script, taken, flushed, wire>> /\ arrived' = arrived + n
    BY <1>3 DEF Arrive, socket, program
  <2>2. ASSUME NEW m \in 1..Len(script), Begin(m) < arrived + n
        PROVE  /\ m - 1 =< Len(flushed)
               /\ Len(FlattenSeq(SubSeq(flushed, 1, m - 1))) =< Len(wire)
    <3>1. ItsTurn(m)
      BY <1>3, <2>2 DEF Arrive, UsedAsIntended
    <3>2. /\ m - 1 =< Len(flushed)
          /\ Len(FlattenSeq(SubSeq(flushed, 1, m - 1))) =< Len(wire) - (OutCap - room)
      BY <3>1 DEF ItsTurn, PeerHas, UsedAsIntended
    <3>3. PICK b \in Nat : b = Len(FlattenSeq(SubSeq(flushed, 1, m - 1)))
      <4>1. m - 1 \in 0..Len(flushed)
        BY <1>1, <3>2
      <4>2. FlattenSeq(SubSeq(flushed, 1, m - 1)) \in Seq(Nat)
        BY <1>1, <4>1, FlattenPrefixType
      <4>3. QED
        BY <4>2
    <3>4. b =< Len(wire)
      BY <1>1, <3>2, <3>3
    <3>5. QED
      BY <3>2, <3>3, <3>4
  <2>3. Turn'
    BY <2>1, <2>2 DEF Turn, Begin, End
  <2>4. CutAllowed(arrived')
    BY <1>3, <2>1 DEF Arrive
  <2>5. PICK m \in 1..Len(script) : arrived' = End(m) \/ CutIn(m, arrived')
    BY <2>4 DEF CutAllowed, UsedAsIntended, CutIn
  <2>6. /\ m \in 0..Len(script') /\ m \in 1..Len(script')
        /\ Begin(m)' = Begin(m) /\ End(m)' = End(m)
    BY <2>1 DEF Begin, End
  <2>7. CASE arrived' = End(m)
    <3>1. arrived' = End(m)'
      BY <2>6, <2>7
    <3>2. QED
      BY <2>3, <2>6, <3>1 DEF Cut
  <2>8. CASE CutIn(m, arrived')
    <3>1. CutIn(m, arrived)'
      BY <2>1, <2>6, <2>8 DEF CutIn
    <3>2. QED
      BY <2>3, <2>6, <3>1 DEF Cut
  <2>9. QED
    BY <2>3, <2>5, <2>7, <2>8
<1>4. CASE doIORead
  <2>1. taken =< taken'
    BY <1>1, <1>4, ReadFacts DEF doIORead, SInv
  <2>2. QED
    BY <1>2, <1>4, <2>1 DEF doIORead, peer
<1>5. ASSUME UNCHANGED <<script, arrived, taken>> PROVE Turn' /\ Cut'
  BY <1>1, <1>2, <1>5
<1>6. ASSUME readMsgDone \/ readMsgFbInfo \/ readMsgReservation
             \/ readMsgFrameSignal \/ readMsgDawnCmd \/ readMsgUnexpected
             \/ doIONoWrite \/ doIOWriteClosed \/ doIOFlushMore \/ doIODrain
             \/ doIODrainError
      PROVE  Turn' /\ Cut'
  BY <1>5, <1>6
  DEF readMsgDone, readMsgFbInfo, readMsgReservation, readMsgFrameSignal,
      readMsgDawnCmd, readMsgUnexpected, doIONoWrite, doIOWriteClosed, doIOFlushMore,
      doIODrain, doIODrainError, Fail, peer, socket
<1>7. ASSUME App \/ Loop \/ (\E n \in 1..OutCap : PeerRead(n)) \/ PeerClose
             \/ UNCHANGED vars
      PROVE  Turn' /\ Cut'
  BY <1>5, <1>7
  DEF App, GetCmdSpace, Flush, FlushTooEarly, sendFrameSignal, sendFramebufferInfo,
      sendReservation, send, ReturnFromApp, Loop, Poll, NestedPoll, NestedPollStopped,
      PeerRead, PeerClose, Fail, peer, socket, vars
<1>8. QED
  BY <1>3, <1>4, <1>6, <1>7 DEF Next, doIO, Environment
-----------------------------------------------------------------------------
(* The invariant of the receiving side. *)

(* No command buffer is answered before it is handed to the program, and   *)
(* while the program handles one its answer has not been flushed.          *)
Counts ==
  /\ Len(delivered) =< Len(script)
  /\ Len(flushed) =< Len(delivered)
  /\ stack # << >> /\ Top.pc = "app" => Len(flushed) < Len(delivered)
Done ==
  \A k \in 1..Len(delivered) :
    delivered[k] = SubSeq(script[k], HDR + 1, Len(script[k]))

(* All that was taken from the socket has been delivered.                  *)
Between == rbuf = << >> /\ taken = End(Len(delivered))
(* The header of the next message was taken, or all of it, not yet parsed. *)
AtMessage ==
  /\ Len(delivered) < Len(script) /\ dawnCmdRLen = 0
  /\ taken - Len(rbuf) = End(Len(delivered))
  /\ taken \in {End(Len(delivered)) + HDR, End(Len(delivered) + 1)}
(* Its header was parsed, and a part of its body taken.                    *)
InBody ==
  /\ Len(delivered) < Len(script)
  /\ dawnCmdRLen = End(Len(delivered) + 1) - (End(Len(delivered)) + HDR)
  /\ taken - Len(rbuf) = End(Len(delivered)) + HDR
  /\ taken < End(Len(delivered) + 1)
AtRest == (Between /\ dawnCmdRLen = 0) \/ InBody

Place ==
  /\ Len(stack) = 2 => /\ Top.pc \in {"read", "write"} /\ stack[2].pc = "return"
                       /\ Between
  /\ Len(stack) = 1 /\ Top.pc \in {"app", "poll", "return"} => Between
  /\ Len(stack) = 1 /\ Top.pc = "parse" =>
       \/ Between /\ dawnCmdRLen = 0
       \/ running /\ AtMessage
       \/ InBody /\ rbuf = << >>
  /\ Len(stack) = 1 /\ Top.pc \in {"read", "write"} => AtRest
  /\ stack = << >> /\ running => AtRest

(* EV_WRITE in revents is used up where it is asked for, and it is there   *)
(* only when a command buffer waits.                                       *)
Plain(f) == f.via # "main" /\ (f.wr => f.pc \in {"read", "write"})
Activations ==
  /\ \A i \in 1..Len(stack) : Plain(stack[i])
  /\ stack # << >> /\ Top.wr => running /\ (Top.pc = "read" => flushbuf # << >>)
  /\ stack # << >> /\ Top.pc \in {"app", "poll"} => running
Wanted == running /\ evWrite => flushbuf # << >>

Clean == wlen = 0 /\ Len(writebuf) =< BufSize /\ fault \in {"none", "sigpipe"}

Delivering == Counts /\ Done /\ Place /\ Activations /\ Wanted /\ Clean
DInv == SInv /\ Turn /\ Cut /\ Delivering
-----------------------------------------------------------------------------
(* What may have arrived. *)

(* When bytes of a message are there, no answer before it is unsent.       *)
LEMMA Answered ==
  ASSUME SInv, Turn, NEW m \in 1..Len(script), Begin(m) < arrived, Len(flushed) =< m - 1
  PROVE  Len(flushed) = m - 1 /\ (running => flushbuf = << >>)
<1>1. /\ flushed \in Seq(Seq(Nat)) /\ Len(flushed) \in Nat /\ Len(script) \in Nat
      /\ wire \in Seq(Nat) /\ Unsent \in Seq(Nat)
  BY Types, UnsentType DEF SInv, SendTypeOK
<1>2. m - 1 =< Len(flushed) /\ Len(FlattenSeq(SubSeq(flushed, 1, m - 1))) =< Len(wire)
  BY DEF Turn
<1>3. Len(flushed) = m - 1
  <2>1. PICK f \in Nat : f = Len(flushed)
    BY <1>1
  <2>2. m \in Int /\ f =< m - 1 /\ m - 1 =< f
    BY <1>1, <1>2, <2>1
  <2>3. QED
    BY <2>1, <2>2
<1>4. SubSeq(flushed, 1, m - 1) = flushed
  BY <1>1, <1>3, SubSeqFull
<1>5. ASSUME running PROVE flushbuf = << >>
  <2>1. wire \o Unsent = FlattenSeq(flushed)
    BY <1>5 DEF SInv, FramesInOrder
  <2>2. Len(wire \o Unsent) =< Len(wire)
    BY <1>2, <1>4, <2>1
  <2>3. Len(wire \o Unsent) = Len(wire) + Len(Unsent) /\ Len(wire) \in Nat /\ Len(Unsent) \in Nat
    BY <1>1, ConcatProperties
  <2>4. Len(Unsent) = 0
    BY <2>2, <2>3
  <2>5. QED
    BY <2>4, UnsentType DEF SInv
<1>6. QED
  BY <1>3, <1>5

(* Nothing has arrived while a command buffer is being answered.           *)
LEMMA NothingNew ==
  ASSUME SInv, Turn, Counts,
         Len(flushed) < Len(delivered) \/ (running /\ flushbuf # << >>)
  PROVE  arrived =< End(Len(delivered))
<1> SUFFICES ASSUME arrived > End(Len(delivered)) PROVE FALSE
  <2>1. End(Len(delivered)) \in Nat
    BY Types, EndOrder DEF Counts
  <2>2. QED
    BY <2>1, Types
<1>1. Len(delivered) \in 0..Len(script) /\ End(Len(delivered)) \in Nat
  BY Types, EndOrder DEF Counts
<1>2. Len(delivered) # Len(script)
  BY <1>1, Types, EndOrder
<1>3. PICK m \in 1..Len(script) : m = Len(delivered) + 1
  <2>1. Len(delivered) + 1 \in 1..Len(script)
    BY <1>1, <1>2, Numbers
  <2>2. QED
    BY <2>1
<1>4. m - 1 = Len(delivered)
  BY <1>1, <1>3, Types
<1>5. Begin(m) < arrived
  BY <1>1, <1>4, Types DEF Begin
<1>6. Len(flushed) =< m - 1
  BY <1>4 DEF Counts
<1>7. Len(flushed) = m - 1 /\ (running => flushbuf = << >>)
  BY <1>5, <1>6, Answered
<1>8. ~(Len(flushed) < Len(delivered))
  BY <1>4, <1>7, Numbers
<1>9. QED
  BY <1>7, <1>8

(* At most one message more has arrived than was delivered.                *)
LEMMA OneMessage ==
  ASSUME SInv, Turn, Counts, Len(delivered) < Len(script)
  PROVE  arrived =< End(Len(delivered) + 1)
<1>1. PICK m \in 0..Len(script) : m = Len(delivered) + 1
  BY Types
<1>2. End(m) \in Nat /\ End(Len(script)) = Len(Stream)
  BY Types, EndOrder
<1>3. CASE m = Len(script)
  BY <1>1, <1>2, <1>3, Types
<1>4. CASE m # Len(script)
  <2>1. PICK q \in 1..Len(script) : q = m + 1
    BY <1>4, Types
  <2>2. q - 1 = m /\ ~(q - 1 =< Len(flushed))
    BY <1>1, <2>1, Types DEF Counts
  <2>3. ~(Begin(q) < arrived)
    BY <2>2 DEF Turn
  <2>4. Begin(q) = End(Len(delivered) + 1) /\ Begin(q) \in Nat
    BY <1>1, <1>2, <2>2 DEF Begin
  <2>5. PICK b \in Nat, a \in Nat : b = Begin(q) /\ a = arrived
    BY <2>4, Numbers
  <2>6. a =< b
    BY <2>3, <2>5
  <2>7. QED
    BY <2>4, <2>5, <2>6
<1>5. QED
  BY <1>3, <1>4

(* So a message that was not read before comes as its header, or whole.    *)
LEMMA Pieces ==
  ASSUME UsedAsIntended, SInv, Turn, Cut, Counts, taken = End(Len(delivered)),
         arrived > taken
  PROVE  /\ Len(delivered) < Len(script)
         /\ arrived \in {End(Len(delivered)) + HDR, End(Len(delivered) + 1)}
<1> DEFINE d == Len(delivered)
<1>1. d \in 0..Len(script) /\ HDR \in Nat
  BY Types, Sizes DEF Counts
<1>2. d < Len(script)
  <2>1. d # Len(script)
    BY Types, EndOrder
  <2>2. QED
    BY <1>1, <2>1, Types
<1>3. d + 1 \in 0..Len(script) /\ d + 1 \in 1..Len(script)
  BY <1>1, <1>2
<1>4. arrived =< End(d + 1)
  BY <1>2, OneMessage
<1>5. /\ \A m \in 0..Len(script) : End(m) \in Nat
      /\ \A m, n \in 0..Len(script) : m =< n => End(m) =< End(n)
  BY Types, EndOrder
<1> HIDE DEF d
<1>6. ASSUME NEW m \in 0..Len(script), arrived = End(m) PROVE arrived = End(d + 1)
  <2>1. ~(m =< d)
    BY <1>1, <1>5, <1>6, Types DEF d
  <2>2. d + 1 =< m
    BY <1>1, <2>1
  <2>3. End(d + 1) =< End(m) /\ End(d + 1) \in Nat
    BY <1>3, <1>5, <2>2
  <2>4. QED
    BY <1>4, <1>6, <2>3, Types
<1>7. ASSUME NEW m \in 1..Len(script), CutIn(m, arrived) PROVE arrived = End(d) + HDR
  <2>1. m - 1 \in 0..Len(script) /\ m \in 0..Len(script) /\ Begin(m) = End(m - 1)
    BY Types DEF Begin
  <2>2. End(m) \in Nat /\ End(m - 1) \in Nat /\ End(d) \in Nat /\ End(d + 1) \in Nat
    BY <1>1, <1>3, <1>5, <2>1
  <2>3. m = d + 1
    <3>1. CASE m =< d
      <4>1. End(m) =< End(d)
        BY <1>1, <1>5, <2>1, <3>1
      <4>2. arrived > End(d) /\ arrived < End(m)
        BY <1>7 DEF CutIn, d
      <4>3. PICK b \in Nat, a \in Nat, e \in Nat :
              b = End(d) /\ a = arrived /\ e = End(m)
        BY <2>2, Numbers
      <4>4. e =< b /\ a > b /\ a < e
        BY <4>1, <4>2, <4>3
      <4>5. QED
        BY <4>3, <4>4
    <3>2. CASE m - 1 >= d + 1
      <4>1. End(d + 1) =< End(m - 1)
        BY <1>3, <1>5, <2>1, <3>2
      <4>2. End(m - 1) + HDR =< arrived
        BY <1>7, <2>1 DEF CutIn
      <4>3. End(m - 1) >= arrived
        <5>1. PICK b \in Nat, a \in Nat, e \in Nat :
                b = End(m - 1) /\ a = arrived /\ e = End(d + 1)
          BY <2>2, Numbers
        <5>2. e =< b /\ a =< e
          BY <1>4, <4>1, <5>1
        <5>3. QED
          BY <5>1, <5>2
      <4>4. PICK b \in Nat, a \in Nat, h \in Nat :
              b = End(m - 1) /\ a = arrived /\ h = HDR /\ h > 1
        BY <2>2, Numbers
      <4>5. b + h =< a /\ b >= a
        BY <4>2, <4>3, <4>4
      <4>6. QED
        BY <4>4, <4>5
    <3>3. m \in Int /\ d \in Int
      <4>1. Len(script) \in Nat
        BY Types
      <4>2. QED
        BY <1>1, <4>1
    <3>4. m =< d \/ m - 1 >= d + 1 \/ m = d + 1
      BY <3>3
    <3>5. QED
      BY <3>1, <3>2, <3>4
  <2>4. m - 1 = d
    BY <1>1, <2>3
  <2>5. QED
    BY <1>1, <1>7, <2>1, <2>2, <2>4, Types, Sizes DEF CutIn, d
<1>8. QED
  BY <1>2, <1>6, <1>7 DEF Cut, d
-----------------------------------------------------------------------------
(* What is in _rbuf. *)

LEMMA PartOfPart ==
  ASSUME NEW s \in Seq(Nat), NEW e \in 0..Len(s), NEW b \in 0..e, NEW p \in b..e, NEW t \in p..e
  PROVE  SubSeq(SubSeq(s, b + 1, e), p - b + 1, t - b) = SubSeq(s, p + 1, t)
<1>1. CASE p = t
  <2>1. SubSeq(s, p + 1, t) = << >>
    BY <1>1, SubSeqEmpty
  <2>2. t - b < p - b + 1
    BY <1>1
  <2>3. SubSeq(SubSeq(s, b + 1, e), p - b + 1, t - b) = << >>
    BY <2>2, SubSeqEmpty
  <2>4. QED
    BY <2>1, <2>3
<1>2. CASE p # t
  BY <1>2
<1>3. QED
  BY <1>1, <1>2

LEMMA NextMessage ==
  ASSUME UsedAsIntended, SInv, Len(delivered) < Len(script)
  PROVE  \E n \in 1..MAX, msg \in Seq(Nat) :
           /\ msg = script[Len(delivered) + 1] /\ Len(msg) = HDR + n
           /\ msg[1] = MSGT_DAWNCMD /\ msg[2] = n
           /\ End(Len(delivered)) \in Nat
           /\ End(Len(delivered) + 1) = End(Len(delivered)) + HDR + n
           /\ End(Len(delivered) + 1) =< Len(Stream)
           /\ SubSeq(Stream, End(Len(delivered)) + 1, End(Len(delivered) + 1)) = msg
<1>1. Len(delivered) + 1 \in 1..Len(script) /\ Len(delivered) + 1 - 1 = Len(delivered)
  BY Numbers
<1>2. PICK m \in 1..Len(script) : m = Len(delivered) + 1 /\ m - 1 = Len(delivered)
  BY <1>1
<1>3. Begin(m) = End(Len(delivered))
  BY <1>2 DEF Begin
<1>4. PICK n \in 1..MAX :
           /\ script[m] \in Seq(Nat) /\ Len(script[m]) = HDR + n
           /\ script[m][1] = MSGT_DAWNCMD /\ script[m][2] = n
           /\ Begin(m) \in Nat /\ End(m) = Begin(m) + HDR + n
           /\ End(m) =< Len(Stream)
           /\ SubSeq(Stream, Begin(m) + 1, End(m)) = script[m]
  BY Types, Message
<1>5. PICK msg \in Seq(Nat) : msg = script[m]
  BY <1>4
<1>6. QED
  BY <1>2, <1>3, <1>4, <1>5

(* Its bytes are at their place in the stream. *)
LEMMA BytesOfMessage ==
  ASSUME UsedAsIntended, SInv, Len(delivered) < Len(script)
  PROVE  \A k, t \in Nat :
           End(Len(delivered)) + k =< t /\ t =< End(Len(delivered) + 1) =>
             SubSeq(Stream, End(Len(delivered)) + k + 1, t)
               = SubSeq(script[Len(delivered) + 1], k + 1, t - End(Len(delivered)))
<1>1. PICK n \in 1..MAX, msg \in Seq(Nat) :
           /\ msg = script[Len(delivered) + 1] /\ Len(msg) = HDR + n
           /\ End(Len(delivered)) \in Nat
           /\ End(Len(delivered) + 1) = End(Len(delivered)) + HDR + n
           /\ End(Len(delivered) + 1) =< Len(Stream)
           /\ SubSeq(Stream, End(Len(delivered)) + 1, End(Len(delivered) + 1)) = msg
  BY NextMessage
<1>2. PICK s \in Seq(Nat) : s = Stream
  BY Types
<1>3. PICK b \in Nat : b = End(Len(delivered))
  BY <1>1
<1>4. PICK e \in Nat : e = End(Len(delivered) + 1)
  <2>1. n \in Nat /\ HDR \in Nat
    BY Numbers
  <2>2. b + HDR + n \in Nat
    BY <2>1
  <2>3. QED
    BY <1>1, <1>3, <2>2
<1>5. e =< Len(s) /\ Len(s) \in Nat
  BY <1>1, <1>2, <1>4
<1>6. ASSUME NEW k \in Nat, NEW t \in Nat, b + k =< t, t =< e
      PROVE  SubSeq(SubSeq(s, b + 1, e), k + 1, t - b) = SubSeq(s, b + k + 1, t)
  <2>1. PICK p \in Nat : p = b + k
    OBVIOUS
  <2>2. /\ e \in 0..Len(s) /\ b \in 0..e /\ p \in b..e /\ t \in p..e
        /\ p - b + 1 = k + 1 /\ p + 1 = b + k + 1
    BY <1>5, <1>6, <2>1
  <2>3. QED
    BY <2>2, PartOfPart
<1>7. SubSeq(s, b + 1, e) = script[Len(delivered) + 1]
  BY <1>1, <1>2, <1>3, <1>4, Zenon
<1>8. ASSUME NEW k \in Nat, NEW t \in Nat, b + k =< t, t =< e
      PROVE  SubSeq(script[Len(delivered) + 1], k + 1, t - b) = SubSeq(s, b + k + 1, t)
  BY <1>6, <1>7, <1>8, Zenon
<1>9. QED
  BY <1>2, <1>3, <1>4, <1>8, Zenon

LEMMA FirstTwo ==
  ASSUME NEW s \in Seq(Nat), NEW l \in 2..Len(s)
  PROVE  LET t == SubSeq(s, 1, l) IN t[1] = s[1] /\ t[2] = s[2] /\ t # << >>
<1>1. PICK n \in Nat : n = Len(s)
  OBVIOUS
<1>2. Len(SubSeq(s, 1, l)) = l /\ \A i \in 1..l : SubSeq(s, 1, l)[i] = s[i]
  BY <1>1
<1>3. 1 \in 1..l /\ 2 \in 1..l
  BY <1>1
<1>4. QED
  BY <1>2, <1>3

(* With a message in _rbuf, readMsg finds the header it expects.           *)
LEMMA HeaderIsThere ==
  ASSUME UsedAsIntended, SInv, running, AtMessage
  PROVE  \E n \in 1..MAX :
           /\ rbuf # << >> /\ rbuf[1] = MSGT_DAWNCMD /\ rbuf[2] = n
           /\ End(Len(delivered)) \in Nat
           /\ End(Len(delivered) + 1) = End(Len(delivered)) + HDR + n
           /\ Len(rbuf) \in {HDR, HDR + n}
           /\ Len(rbuf) = HDR + n =>
                /\ taken = End(Len(delivered) + 1)
                /\ SubSeq(rbuf, HDR + 1, Len(rbuf))
                     = SubSeq(script[Len(delivered) + 1], HDR + 1,
                              Len(script[Len(delivered) + 1]))
<1>1. PICK n \in 1..MAX, msg \in Seq(Nat) :
           /\ msg = script[Len(delivered) + 1] /\ Len(msg) = HDR + n
           /\ msg[1] = MSGT_DAWNCMD /\ msg[2] = n
           /\ End(Len(delivered)) \in Nat
           /\ End(Len(delivered) + 1) = End(Len(delivered)) + HDR + n
           /\ End(Len(delivered) + 1) =< Len(Stream)
  BY NextMessage DEF AtMessage
<1>2. /\ n \in Nat /\ HDR \in Nat /\ HDR > 1 /\ Len(rbuf) \in Nat /\ taken \in Nat
      /\ End(Len(delivered)) \in Nat
      /\ End(Len(delivered) + 1) = End(Len(delivered)) + HDR + n
      /\ Len(msg) = HDR + n
  BY <1>1, Numbers
<1>3. /\ Len(rbuf) \in {HDR, HDR + n} /\ taken - Len(rbuf) = End(Len(delivered))
      /\ taken - Len(rbuf) + 1 = End(Len(delivered)) + 0 + 1
      /\ End(Len(delivered)) + 0 =< taken /\ taken =< End(Len(delivered) + 1)
      /\ taken - End(Len(delivered)) = Len(rbuf)
  <2>1. PICK l \in Nat, b \in Nat, e \in Nat : l = Len(rbuf) /\ b = End(Len(delivered)) /\ e = End(Len(delivered) + 1)
    BY <1>2
  <2>2. taken - l = b /\ (taken = b + HDR \/ taken = e)
    BY <2>1 DEF AtMessage
  <2>3. e = b + HDR + n
    BY <1>2, <2>1
  <2>4. n \in Nat /\ HDR \in Nat /\ taken \in Nat
    BY <1>2
  <2>5. /\ l \in {HDR, HDR + n} /\ taken - l + 1 = b + 0 + 1 /\ b + 0 =< taken
        /\ taken =< e /\ taken - b = l
    BY <2>2, <2>3, <2>4
  <2>6. QED
    BY <2>1, <2>2, <2>5
<1>4. rbuf = SubSeq(Stream, taken - Len(rbuf) + 1, taken)
  BY Types, EndsWithoutGap, StreamType DEF SInv, RInv, Window
<1>5. rbuf = SubSeq(script[Len(delivered) + 1], 0 + 1, taken - End(Len(delivered)))
  BY <1>2, <1>3, <1>4, BytesOfMessage DEF AtMessage
<1>6. PICK len \in {HDR, HDR + n} : len = Len(rbuf)
  BY <1>3
<1>7. rbuf = SubSeq(msg, 1, len) /\ len \in 2..Len(msg)
  <2>1. 0 + 1 = 1 /\ Len(msg) \in Nat /\ len \in 2..Len(msg)
    <3>1. HDR + n \in Nat /\ 2 =< HDR /\ HDR =< HDR + n
      BY <1>2
    <3>2. PICK b \in Nat, c \in Nat : b = HDR /\ c = HDR + n /\ 2 =< b /\ b =< c
      BY <1>2, <3>1
    <3>3. len \in {b, c} /\ Len(msg) = c
      BY <1>2, <1>6, <3>2
    <3>4. len \in 2..c
      BY <3>2, <3>3
    <3>5. QED
      BY <3>2, <3>3, <3>4
  <2>2. taken - End(Len(delivered)) = len /\ script[Len(delivered) + 1] = msg
    BY <1>1, <1>3, <1>6
  <2>3. rbuf = SubSeq(msg, 1, len)
    BY <1>5, <2>1, <2>2, Zenon
  <2>4. QED
    BY <2>1, <2>3
<1>8. rbuf[1] = msg[1] /\ rbuf[2] = msg[2] /\ rbuf # << >>
  BY <1>7, FirstTwo
<1>9. ASSUME len = HDR + n
       PROVE  SubSeq(rbuf, HDR + 1, Len(rbuf)) = SubSeq(msg, HDR + 1, Len(msg))
  <2>1. SubSeq(msg, 1, len) = msg
    BY <1>1, <1>9, SubSeqFull
  <2>2. QED
    BY <1>1, <1>6, <1>7, <1>9, <2>1
<1>10. Len(rbuf) = HDR + n => taken = End(Len(delivered) + 1)
  BY <1>2, <1>3
<1>11. QED
  BY <1>1, <1>3, <1>6, <1>8, <1>9, <1>10
-----------------------------------------------------------------------------
(* The kinds of steps. *)

Taken == <<rbuf, taken, dawnCmdRLen, script, delivered>>

(* A step that changes neither the stack nor what was taken or flushed.    *)
LEMMA StillDelivering ==
  ASSUME Delivering, UNCHANGED <<Taken, stack, running, evWrite, flushed, flushbuf>>, Clean'
  PROVE  Delivering'
<1>1. Counts' /\ Done' /\ Wanted'
  BY DEF Delivering, Counts, Done, Wanted, Taken, Top
<1>2. Between' = Between /\ AtMessage' = AtMessage /\ InBody' = InBody
  BY DEF Between, AtMessage, InBody, Taken, End
<1>3. Place'
  BY <1>2 DEF Delivering, Place, AtRest, Taken, Top
<1>4. Activations'
  BY DEF Delivering, Activations, Top
<1>5. QED
  BY <1>1, <1>3, <1>4 DEF Delivering

(* doIO returns, having written or stopped the connection. *)
LEMMA ReturnDelivering ==
  ASSUME SInv, Delivering, stack # << >>, Return, UNCHANGED <<flushed, rbuf, dawnCmdRLen, script, delivered>>,
         running' => running,
         running' \/ Len(stack) = 2 => taken' = taken,
         running' /\ Len(stack) = 1 => Top.pc \in {"read", "write"},
         Wanted', Clean'
  PROVE  Delivering'
<1>1. stack \in Seq(Frame) /\ Len(stack) \in {1, 2}
  <2>1. stack \in Seq(Frame) /\ Len(stack) =< 2
    BY Types
  <2>2. QED
    BY <2>1, Returned
<1>2. Done'
  BY DEF Delivering, Done
<1>3. ASSUME taken' = taken PROVE Between' = Between /\ InBody' = InBody
  BY <1>3 DEF Between, InBody, End
<1>4. CASE Len(stack) = 1
  <2>1. stack' = << >>
    BY <1>1, <1>4, Returned DEF Return
  <2>2. Counts' /\ Activations'
    BY <2>1 DEF Delivering, Counts, Activations
  <2>3. ASSUME running' PROVE AtRest'
    BY <1>3, <1>4, <2>3 DEF Delivering, Place, AtRest
  <2>4. Place'
    BY <2>1, <2>3 DEF Place
  <2>5. QED
    BY <1>2, <2>2, <2>4 DEF Delivering
<1>5. CASE Len(stack) = 2
  <2>1. PICK st : st = Tail(stack)
    OBVIOUS
  <2>2. Len(st) = 1 /\ st # << >> /\ Head(st) = stack[2] /\ st[1] = stack[2]
    BY <1>1, <1>5, <2>1, Returned
  <2>3. stack[2].pc = "return" /\ Between /\ Plain(stack[2])
    BY <1>5 DEF Delivering, Place, Activations
  <2>4. stack' = st /\ Len(stack') = 1 /\ stack' # << >> /\ Top' = stack[2] /\ stack'[1] = stack[2]
    BY <2>1, <2>2 DEF Return, Top
  <2>5. Counts'
    BY <2>3, <2>4 DEF Delivering, Counts
  <2>6. Activations'
    BY <2>3, <2>4 DEF Activations, Plain
  <2>7. Between'
    BY <1>3, <1>5, <2>3
  <2>8. Place'
    BY <2>3, <2>4, <2>7 DEF Place
  <2>9. QED
    BY <1>2, <2>5, <2>6, <2>8 DEF Delivering
<1>6. QED
  BY <1>1, <1>4, <1>5

(* The only activation goes on at pc. *)
LEMMA GoOnDelivering ==
  ASSUME SInv, Delivering, Len(stack) = 1, NEW pc, NEW via, via # "main",
         Goes(stack, stack', pc, via),
         Len(delivered') =< Len(script'), Len(flushed') =< Len(delivered'),
         pc = "app" => Len(flushed') < Len(delivered'),
         pc \in {"app", "poll", "return"} => Between',
         pc = "parse" => \/ Between' /\ dawnCmdRLen' = 0
                         \/ running' /\ AtMessage'
                         \/ InBody' /\ rbuf' = << >>,
         pc = "write" => AtRest',
         pc # "read", pc \in {"app", "poll"} => running',
         Top.wr => running' /\ pc = "write",
         Done', Wanted', Clean'
  PROVE  Delivering'
<1>1. stack \in Seq(Frame) /\ stack # << >>
  <2>1. stack \in Seq(Frame)
    BY Types
  <2>2. stack = << >> => Len(stack) = 0
    OBVIOUS
  <2>3. QED
    BY <2>1, <2>2
<1>2. PICK new : new = stack'
  OBVIOUS
<1>3. /\ new # << >> /\ Len(new) = 1 /\ Head(new) = new[1]
      /\ new[1].pc = pc /\ new[1].wr = Top.wr /\ new[1].via \in {Top.via, via}
  <2>1. PICK st \in Seq(Frame) : st = stack
    BY <1>1
  <2>2. Goes(st, new, pc, via)
    BY <1>2, <2>1
  <2>3. st # << >> /\ Len(st) = 1 /\ Head(st) = Top
    BY <1>1, <2>1 DEF Top
  <2>4. /\ new # << >> /\ Len(new) = Len(st) /\ Head(new) = new[1]
        /\ new[1].pc = pc /\ new[1].wr = Head(st).wr
        /\ new[1].via \in {Head(st).via, via}
    BY <2>2, <2>3, GoneOn
  <2>5. QED
    BY <2>3, <2>4
<1>4. /\ stack' # << >> /\ Len(stack') = 1 /\ Top' = stack'[1]
      /\ Top'.pc = pc /\ Top'.wr = Top.wr /\ Top'.via # "main"
  <2>1. Top = stack[1] /\ 1 \in 1..Len(stack)
    BY <1>1 DEF Top
  <2>2. Top.via # "main"
    BY <2>1 DEF Delivering, Activations, Plain
  <2>3. QED
    BY <1>2, <1>3, <2>2 DEF Top
<1>5. Counts'
  BY <1>4 DEF Counts
<1>6. Place'
  BY <1>4 DEF Place
<1>7. Activations'
  <2>1. Plain(Top')
    BY <1>4 DEF Plain
  <2>2. \A i \in 1..Len(stack') : stack'[i] = Top'
    BY <1>4
  <2>3. \A i \in 1..Len(stack') : Plain(stack'[i])
    BY <2>1, <2>2
  <2>4. QED
    BY <1>4, <2>3 DEF Activations, Plain
<1>8. QED
  BY <1>5, <1>6, <1>7 DEF Delivering

(* The next command buffer, all of it and nothing more, is handed over.    *)
LEMMA DeliverDelivering ==
  ASSUME UsedAsIntended, SInv, Delivering, Len(stack) = 1, running, ~Top.wr,
         Len(delivered) < Len(script), NEW buf \in Seq(Nat), NEW via \in {"readMsg", "doIO"},
         buf = SubSeq(script[Len(delivered) + 1], HDR + 1, Len(script[Len(delivered) + 1])),
         Deliver(buf, Len(buf), via), taken' = End(Len(delivered) + 1),
         UNCHANGED <<script, running, flushed, flushbuf, evWrite>>, Clean'
  PROVE  Delivering'
<1>1. delivered' = Append(delivered, buf) /\ rbuf' = << >>
  <2>1. SubSeq(buf, 1, Len(buf)) = buf
    BY SubSeqFull
  <2>2. Len(buf) < Len(buf) + 1
    OBVIOUS
  <2>3. SubSeq(buf, Len(buf) + 1, Len(buf)) = << >>
    BY <2>2, SubSeqEmpty
  <2>4. QED
    BY <2>1, <2>3 DEF Deliver
<1>2. /\ Len(delivered') = Len(delivered) + 1 /\ delivered'[Len(delivered) + 1] = buf
      /\ \A k \in 1..Len(delivered) : delivered'[k] = delivered[k]
  <2>1. PICK before \in Seq(Seq(Nat)) : before = delivered
    BY Types
  <2>2. /\ Len(Append(before, buf)) = Len(before) + 1
        /\ Append(before, buf)[Len(before) + 1] = buf
        /\ \A k \in 1..Len(before) : Append(before, buf)[k] = before[k]
    BY AppendPlaces
  <2>3. QED
    BY <1>1, <2>1, <2>2, Zenon
<1>3. Done'
  <2> SUFFICES ASSUME NEW k \in 1..Len(delivered')
               PROVE  delivered'[k] = SubSeq(script[k], HDR + 1, Len(script[k]))
    BY DEF Done
  <2>1. CASE k = Len(delivered) + 1
    BY <1>2, <2>1
  <2>2. CASE k # Len(delivered) + 1
    <3>1. k \in 1..Len(delivered)
      <4>1. PICK l \in Nat : l = Len(delivered)
        BY Numbers
      <4>2. k \in 1..l + 1 /\ k # l + 1
        BY <1>2, <2>2, <4>1
      <4>3. QED
        BY <4>1, <4>2
    <3>2. QED
      BY <1>2, <3>1 DEF Delivering, Done
  <2>3. QED
    BY <2>1, <2>2
<1>4. /\ Len(delivered') =< Len(script') /\ Len(flushed') =< Len(delivered')
      /\ Len(flushed') < Len(delivered')
  <2>1. Len(flushed) =< Len(delivered)
    BY DEF Delivering, Counts
  <2>2. PICK d \in Nat, f \in Nat, n \in Nat :
          d = Len(delivered) /\ f = Len(flushed) /\ n = Len(script)
    BY Numbers
  <2>3. f =< d /\ d + 1 =< n
    BY <1>2, <2>1, <2>2
  <2>4. QED
    BY <1>2, <2>2, <2>3
<1>5. Between'
  <2>1. End(Len(delivered))' = End(Len(delivered) + 1)
    BY <1>2 DEF End
  <2>2. QED
    BY <1>1, <2>1 DEF Between
<1>6. Wanted'
  BY DEF Delivering, Wanted
<1>7. Goes(stack, stack', "app", via)
  BY DEF Deliver, Goes
<1>8. via # "main"
  OBVIOUS
<1>9. QED
  BY <1>3, <1>4, <1>5, <1>6, <1>7, <1>8, GoOnDelivering

(* A doIO that was called from Flush finds nothing to read.                *)
LEMMA NothingToRead ==
  ASSUME SInv, Turn, Delivering, Len(stack) = 2
  PROVE  Got = 0
<1>1. running /\ flushbuf # << >> /\ Counts /\ taken = End(Len(delivered))
  BY DEF SInv, Sending, Nesting, Fresh, Delivering, Place, Between
<1>2. arrived =< taken
  BY <1>1, NothingNew
<1>3. arrived = taken
  BY <1>2, Numbers
<1>4. Free \in Nat
  <2>1. RSize \in Nat /\ Len(rbuf) < RSize
    BY Sizes DEF SInv, RInv, ReceiveTypeOK
  <2>2. QED
    BY <2>1, Numbers DEF Free
<1>5. QED
  BY <1>3, <1>4, Numbers DEF Got, Smaller
-----------------------------------------------------------------------------
(* doIO reads. *)

LEMMA StopIsClean ==
  ASSUME Clean, stop, UNCHANGED <<wlen, fault>>
  PROVE  Clean' /\ Wanted'
<1>1. 0 \in Nat /\ HDR \in Nat /\ MAX \in Nat
  BY Sizes
<1>2. Len(DawnCmdHeader(0)) = HDR
  BY <1>1, HeaderType
<1>3. Len(writebuf') =< BufSize
  BY <1>1, <1>2 DEF stop, BufSize
<1>4. QED
  BY <1>3 DEF Clean, Wanted, stop

(* What is read is there because nothing is left to be flushed.            *)
LEMMA ReadsAtRest ==
  ASSUME SInv, Turn, Delivering, At("read"), Got > 0
  PROVE  /\ Len(stack) = 1 /\ stack # << >> /\ AtRest /\ running
         /\ Len(flushed) = Len(delivered) /\ ~Top.wr
         /\ arrived > taken
<1>1. stack # << >> /\ Top.pc = "read" /\ running
  BY DEF At, SInv, RInv, Reading
<1>2. Len(stack) = 1
  <2>1. stack \in Seq(Frame) /\ Len(stack) =< 2
    BY Types
  <2>2. Len(stack) \in {1, 2}
    BY <1>1, <2>1, Returned
  <2>3. QED
    BY <2>2, NothingToRead
<1>3. AtRest
  BY <1>1, <1>2 DEF Delivering, Place
<1>4. arrived > taken
  <2>1. Got \in Nat /\ Got =< arrived - taken
    BY ReadSizes
  <2>2. QED
    BY <2>1, Numbers
<1>5. /\ End(Len(delivered)) \in Nat /\ Counts
      /\ taken >= End(Len(delivered))
  <2>1. Counts /\ End(Len(delivered)) \in Nat
    BY Types, EndOrder DEF Delivering, Counts
  <2>2. CASE Between
    BY <2>1, <2>2, Numbers DEF Between
  <2>3. CASE InBody
    <3>1. taken - Len(rbuf) = End(Len(delivered)) + HDR
      BY <2>3 DEF InBody
    <3>2. taken >= End(Len(delivered))
      BY <2>1, <3>1, Numbers
    <3>3. QED
      BY <2>1, <3>2
  <2>4. QED
    BY <1>3, <2>2, <2>3 DEF AtRest
<1>6. ~(arrived =< End(Len(delivered)))
  BY <1>4, <1>5, Numbers
<1>7. ~(Len(flushed) < Len(delivered)) /\ ~(running /\ flushbuf # << >>)
  BY <1>5, <1>6, NothingNew
<1>8. Len(flushed) = Len(delivered)
  BY <1>5, <1>7, Numbers DEF Counts
<1>9. ~Top.wr
  BY <1>1, <1>7 DEF Delivering, Activations
<1>10. QED
  BY <1>1, <1>2, <1>3, <1>4, <1>8, <1>9

(* Between two messages, the header of the next is read, or all of it.     *)
LEMMA ReadsMessage ==
  ASSUME UsedAsIntended, SInv, Turn, Cut, Delivering, At("read"), Got > 0, dawnCmdRLen = 0
  PROVE  /\ Len(delivered) < Len(script)
         /\ (taken + Got) - Len(Filled) = End(Len(delivered))
         /\ taken + Got \in {End(Len(delivered)) + HDR, End(Len(delivered) + 1)}
<1>1. AtRest /\ arrived > taken
  BY ReadsAtRest
<1>2. Between
  <2>1. ASSUME InBody PROVE FALSE
    <3>1. PICK n \in 1..MAX :
             /\ End(Len(delivered)) \in Nat
             /\ End(Len(delivered) + 1) = End(Len(delivered)) + HDR + n
      BY <2>1, NextMessage DEF InBody
    <3>2. dawnCmdRLen = End(Len(delivered) + 1) - (End(Len(delivered)) + HDR)
      BY <2>1 DEF InBody
    <3>3. QED
      BY <3>1, <3>2, Numbers
  <2>2. QED
    BY <1>1, <2>1 DEF AtRest
<1>3. taken = End(Len(delivered)) /\ Len(rbuf) = 0
  BY <1>2 DEF Between
<1>4. /\ Len(delivered) < Len(script)
      /\ arrived \in {End(Len(delivered)) + HDR, End(Len(delivered) + 1)}
  BY <1>1, <1>3, Pieces DEF Delivering
<1>5. PICK n \in 1..MAX :
           /\ End(Len(delivered)) \in Nat
           /\ End(Len(delivered) + 1) = End(Len(delivered)) + HDR + n
  BY <1>4, NextMessage
<1>6. arrived - taken =< HDR + MAX
  <2>1. n \in Nat /\ n =< MAX
    BY Numbers
  <2>2. PICK b \in Nat, h \in Nat, x \in Nat :
          b = End(Len(delivered)) /\ h = HDR /\ x = MAX
    BY <1>5, Numbers
  <2>3. arrived \in {b + h, b + h + n} /\ taken = b
    BY <1>3, <1>4, <1>5, <2>2
  <2>4. arrived - taken =< h + x
    BY <2>1, <2>2, <2>3
  <2>5. QED
    BY <2>2, <2>4
<1>7. Free >= HDR + MAX
  <2>1. Slack \in Nat /\ Slack > 0
    BY Sizes DEF UsedAsIntended
  <2>2. QED
    BY <1>3, <2>1, Numbers DEF Free, RSize, BufSize
<1>8. Got = arrived - taken
  <2>1. Free \in Nat /\ (arrived - taken =< Free => Got = arrived - taken)
    BY ReadSizes
  <2>2. arrived - taken =< Free
    BY <1>6, <1>7, <2>1, Numbers
  <2>3. QED
    BY <2>1, <2>2
<1>9. taken + Got = arrived /\ (taken + Got) - Len(Filled) = taken
  <2>1. Len(Filled) = 0 + Got /\ Got \in Nat
    BY <1>3, ReadSizes
  <2>2. PICK g \in Nat, t \in Nat, a \in Nat : g = Got /\ t = taken /\ a = arrived
    BY <2>1, Numbers
  <2>3. g = a - t /\ Len(Filled) = g
    BY <1>8, <2>1, <2>2
  <2>4. t + g = a /\ (t + g) - g = t
    BY <2>2, <2>3
  <2>5. QED
    BY <2>2, <2>3, <2>4
<1>10. QED
  BY <1>3, <1>4, <1>9

(* In a body, some of the rest is read, and no byte beyond it.             *)
LEMMA ReadsBody ==
  ASSUME UsedAsIntended, SInv, Turn, Delivering, At("read"), Got > 0, dawnCmdRLen > 0
  PROVE  /\ Len(delivered) < Len(script)
         /\ (taken + Got) - Len(Filled) = End(Len(delivered)) + HDR
         /\ dawnCmdRLen = End(Len(delivered) + 1) - (End(Len(delivered)) + HDR)
         /\ Len(Filled) < dawnCmdRLen => taken + Got < End(Len(delivered) + 1)
         /\ Len(Filled) >= dawnCmdRLen =>
              /\ Len(Filled) = dawnCmdRLen /\ taken + Got = End(Len(delivered) + 1)
              /\ Filled = SubSeq(script[Len(delivered) + 1], HDR + 1,
                                 Len(script[Len(delivered) + 1]))
<1>1. AtRest /\ arrived > taken /\ running
  BY ReadsAtRest
<1>2. InBody
  BY <1>1 DEF AtRest
<1>3. Len(delivered) < Len(script)
  BY <1>2 DEF InBody
<1>4. PICK n \in 1..MAX, msg \in Seq(Nat) :
           /\ msg = script[Len(delivered) + 1] /\ Len(msg) = HDR + n
           /\ End(Len(delivered)) \in Nat
           /\ End(Len(delivered) + 1) = End(Len(delivered)) + HDR + n
           /\ End(Len(delivered) + 1) =< Len(Stream)
  BY <1>3, NextMessage
<1>5. PICK b \in Nat, e \in Nat : b = End(Len(delivered)) /\ e = End(Len(delivered) + 1)
  <2>1. HDR \in Nat /\ n \in Nat
    BY Sizes
  <2>2. End(Len(delivered) + 1) \in Nat
    BY <1>4, <2>1
  <2>3. QED
    BY <1>4, <2>2
<1>6. PICK l \in Nat, t \in Nat : l = Len(Filled) /\ t = taken + Got
  <2>1. Len(rbuf) \in Nat /\ taken \in Nat /\ Got \in Nat /\ Len(Filled) = Len(rbuf) + Got
    BY Numbers, ReadSizes
  <2>2. Len(Filled) \in Nat /\ taken + Got \in Nat
    BY <2>1
  <2>3. QED
    BY <2>2
<1>7. /\ n \in Nat /\ HDR \in Nat /\ e = b + HDR + n /\ Len(msg) = HDR + n
      /\ dawnCmdRLen = e - (b + HDR)
  BY <1>2, <1>4, <1>5, Numbers DEF InBody
<1>8. t - l = b + HDR
  <2>1. taken - Len(rbuf) = b + HDR
    BY <1>2, <1>5 DEF InBody
  <2>2. l = Len(rbuf) + Got /\ t = taken + Got
    BY <1>6, ReadSizes
  <2>3. Len(rbuf) \in Nat /\ Got \in Nat /\ taken \in Nat
    BY Numbers, ReadSizes
  <2>4. QED
    BY <1>7, <2>1, <2>2, <2>3
<1>9. t =< e
  <2>1. arrived =< e
    BY <1>3, <1>5, OneMessage DEF Delivering
  <2>2. t = taken + Got /\ Got =< arrived - taken
    BY <1>6, ReadSizes
  <2>3. Got \in Nat /\ taken \in Nat /\ arrived \in Nat /\ e \in Nat
    BY <1>7, Numbers, ReadSizes
  <2>4. QED
    BY <2>1, <2>2, <2>3
<1>10. l < dawnCmdRLen => t < e
  BY <1>7, <1>8
<1>11. ASSUME l >= dawnCmdRLen
       PROVE  l = dawnCmdRLen /\ t = e /\ Filled = SubSeq(msg, HDR + 1, Len(msg))
  <2>1. l = dawnCmdRLen /\ t = e
    BY <1>7, <1>8, <1>9, <1>11
  <2>2. EndsAt(Filled, Stream, t)
    BY <1>1, <1>6, ReadFacts DEF SInv
  <2>3. t \in 0..Len(Stream)
    BY <1>4, <1>5, <2>1, Numbers
  <2>4. Filled = SubSeq(Stream, t - l + 1, t)
    BY <1>6, <2>2, <2>3, Types, EndsWithoutGap
  <2>5. t - l + 1 = b + HDR + 1 /\ b + HDR =< t /\ t =< e /\ t - b = Len(msg)
    BY <1>7, <1>8, <2>1
  <2>6. SubSeq(Stream, b + HDR + 1, t) = SubSeq(msg, HDR + 1, t - b)
    BY <1>3, <1>4, <1>5, <1>7, <2>5, BytesOfMessage
  <2>7. QED
    BY <2>1, <2>4, <2>5, <2>6
<1>12. /\ (taken + Got) - Len(Filled) = End(Len(delivered)) + HDR
       /\ dawnCmdRLen = End(Len(delivered) + 1) - (End(Len(delivered)) + HDR)
  <2>1. (taken + Got) - Len(Filled) = End(Len(delivered)) + HDR
    BY <1>5, <1>6, <1>8, Zenon
  <2>2. dawnCmdRLen = End(Len(delivered) + 1) - (End(Len(delivered)) + HDR)
    BY <1>5, <1>7, Zenon
  <2>3. QED
    BY <2>1, <2>2
<1>13. Len(Filled) < dawnCmdRLen => taken + Got < End(Len(delivered) + 1)
  BY <1>5, <1>6, <1>10
<1>14. Len(Filled) >= dawnCmdRLen =>
              /\ Len(Filled) = dawnCmdRLen /\ taken + Got = End(Len(delivered) + 1)
              /\ Filled = SubSeq(script[Len(delivered) + 1], HDR + 1,
                                 Len(script[Len(delivered) + 1]))
  BY <1>4, <1>5, <1>6, <1>11
<1>15. QED
  BY <1>3, <1>12, <1>13, <1>14

LEMMA ReadDelivering ==
  ASSUME UsedAsIntended, SInv, Turn, Cut, Delivering, doIORead
  PROVE  Delivering'
<1>1. /\ At("read") /\ stack # << >> /\ taken' = taken + Got
      /\ script' = script
  BY DEF doIORead, At, peer
<1>2. CASE stop /\ Return /\ UNCHANGED <<reading, metaOut, program, fault>>
  <2>1. Wanted' /\ Clean' /\ running' = FALSE
    BY <1>2, StopIsClean DEF Delivering, metaOut, stop
  <2>2. Len(stack) = 2 => taken' = taken
    BY <1>1, NothingToRead, Numbers
  <2>3. UNCHANGED <<flushed, rbuf, dawnCmdRLen, script, delivered>>
    BY <1>1, <1>2 DEF reading, program
  <2>4. QED
    BY <1>1, <1>2, <2>1, <2>2, <2>3, ReturnDelivering
<1>3. CASE /\ Got > 0
           /\ UNCHANGED <<metaOut, cmdsOut, loop, flushed, sentMeta, fault>>
           /\ \/ /\ dawnCmdRLen = 0
                 /\ rbuf' = Filled /\ Goto("parse") /\ UNCHANGED <<dawnCmdRLen, delivered>>
              \/ /\ dawnCmdRLen > 0 /\ ~Complete(Filled, dawnCmdRLen)
                 /\ rbuf' = Filled /\ Goto("write") /\ UNCHANGED <<dawnCmdRLen, delivered>>
              \/ /\ dawnCmdRLen > 0 /\ Complete(Filled, dawnCmdRLen)
                 /\ Deliver(Filled, dawnCmdRLen, "doIO")
  <2>1. /\ Len(stack) = 1 /\ running /\ Len(flushed) = Len(delivered) /\ ~Top.wr
    BY <1>1, <1>3, ReadsAtRest
  <2>2. /\ UNCHANGED <<script, running, flushed, flushbuf, evWrite>>
        /\ Clean' /\ Wanted'
    BY <1>1, <1>3 DEF Delivering, Clean, Wanted, metaOut, cmdsOut, loop
  <2>3. Len(delivered) =< Len(script)
    BY DEF Delivering, Counts
  <2>4. ASSUME UNCHANGED delivered
        PROVE  /\ Done' /\ Len(delivered') =< Len(script') /\ Len(flushed') =< Len(delivered')
               /\ \A m : End(m)' = End(m)
    BY <1>1, <2>1, <2>2, <2>3, <2>4, Numbers DEF Delivering, Done, End
  <2>5. CASE dawnCmdRLen = 0 /\ rbuf' = Filled /\ Goto("parse") /\ UNCHANGED <<dawnCmdRLen, delivered>>
    <3>1. AtMessage'
      <4>1. /\ Len(delivered) < Len(script)
            /\ (taken + Got) - Len(Filled) = End(Len(delivered))
            /\ taken + Got \in {End(Len(delivered)) + HDR, End(Len(delivered) + 1)}
        BY <1>1, <1>3, <2>5, ReadsMessage
      <4>2. Len(delivered') = Len(delivered) /\ Len(script') = Len(script) /\ dawnCmdRLen' = 0
        BY <1>1, <2>5
      <4>3. End(Len(delivered))' = End(Len(delivered)) /\ End(Len(delivered) + 1)' = End(Len(delivered) + 1)
        BY <1>1, <2>5 DEF End
      <4>4. QED
        BY <1>1, <2>5, <4>1, <4>2, <4>3 DEF AtMessage
    <3>2. Goes(stack, stack', "parse", "doIO")
      BY <2>5 DEF Goes, Goto
    <3>3. QED
      BY <2>1, <2>2, <2>4, <2>5, <3>1, <3>2, GoOnDelivering
  <2>6. CASE /\ dawnCmdRLen > 0 /\ ~Complete(Filled, dawnCmdRLen)
             /\ rbuf' = Filled /\ Goto("write") /\ UNCHANGED <<dawnCmdRLen, delivered>>
    <3>1. InBody'
      <4>1. Len(Filled) < dawnCmdRLen
        <5>1. Len(Filled) \in Nat
          BY ReadSizes
        <5>2. QED
          BY <2>6, <5>1, Numbers DEF Complete
      <4>2. /\ Len(delivered) < Len(script)
            /\ (taken + Got) - Len(Filled) = End(Len(delivered)) + HDR
            /\ dawnCmdRLen = End(Len(delivered) + 1) - (End(Len(delivered)) + HDR)
            /\ taken + Got < End(Len(delivered) + 1)
        BY <1>1, <1>3, <2>6, <4>1, ReadsBody
      <4>3. Len(delivered') = Len(delivered) /\ Len(script') = Len(script)
        BY <1>1, <2>6
      <4>4. End(Len(delivered))' = End(Len(delivered)) /\ End(Len(delivered) + 1)' = End(Len(delivered) + 1)
        BY <1>1, <2>6 DEF End
      <4>5. QED
        BY <1>1, <2>6, <4>2, <4>3, <4>4 DEF InBody
    <3>2. Goes(stack, stack', "write", "doIO") /\ AtRest'
      BY <2>6, <3>1 DEF Goes, Goto, AtRest
    <3>3. QED
      BY <2>1, <2>2, <2>4, <2>6, <3>2, GoOnDelivering
  <2>7. CASE /\ dawnCmdRLen > 0 /\ Complete(Filled, dawnCmdRLen)
             /\ Deliver(Filled, dawnCmdRLen, "doIO")
    <3>1. PICK buf \in Seq(Nat) : buf = Filled
      BY ReadSizes
    <3>2. Len(Filled) >= dawnCmdRLen
      BY <2>7 DEF Complete
    <3>3. /\ Len(delivered) < Len(script)
          /\ Len(buf) = dawnCmdRLen /\ taken' = End(Len(delivered) + 1)
          /\ buf = SubSeq(script[Len(delivered) + 1], HDR + 1,
                          Len(script[Len(delivered) + 1]))
      BY <1>1, <1>3, <2>7, <3>1, <3>2, ReadsBody
    <3>4. Deliver(buf, Len(buf), "doIO")
      BY <2>7, <3>1, <3>3
    <3>5. QED
      BY <2>1, <2>2, <3>3, <3>4, DeliverDelivering
  <2>8. QED
    BY <1>3, <2>5, <2>6, <2>7
<1>4. QED
  BY <1>2, <1>3 DEF doIORead
-----------------------------------------------------------------------------
(* readMsg. *)

(* It finds one kind of message, of a length it accepts, and not a part of *)
(* a header.                                                               *)
LEMMA ParsesMessage ==
  ASSUME UsedAsIntended, SInv, Delivering, At("parse"), rbuf # << >>
  PROVE  /\ Len(stack) = 1 /\ stack # << >> /\ ~Top.wr /\ running /\ AtMessage
         /\ rbuf[1] = MSGT_DAWNCMD /\ Len(rbuf) >= HDR /\ AssertRLen(rbuf[2])
<1>1. stack # << >> /\ Top.pc = "parse"
  BY DEF At
<1>2. Len(stack) = 1
  <2>1. stack \in Seq(Frame) /\ Len(stack) =< 2
    BY Types
  <2>2. Len(stack) \in {1, 2}
    BY <1>1, <2>1, Returned
  <2>3. QED
    BY <1>1, <2>2 DEF Delivering, Place
<1>3. running /\ AtMessage
  BY <1>1, <1>2 DEF Delivering, Place, Between
<1>4. ~Top.wr
  <2>1. Top = stack[1] /\ 1 \in 1..Len(stack)
    BY <1>1, <1>2, Types DEF Top
  <2>2. QED
    BY <1>1, <2>1 DEF Delivering, Activations, Plain
<1>5. PICK n \in 1..MAX : /\ rbuf[1] = MSGT_DAWNCMD /\ rbuf[2] = n
                          /\ Len(rbuf) \in {HDR, HDR + n}
  BY <1>3, HeaderIsThere
<1>6. Len(rbuf) >= HDR
  <2>1. PICK h \in Nat : h = HDR
    BY Sizes
  <2>2. Len(rbuf) \in {h, h + n} /\ n \in Nat
    BY <1>5, <2>1, Sizes
  <2>3. QED
    BY <2>1, <2>2
<1>7. AssertRLen(rbuf[2])
  BY <1>5, Numbers DEF AssertRLen
<1>8. QED
  BY <1>1, <1>2, <1>3, <1>4, <1>5, <1>6, <1>7

LEMMA ParseDelivering ==
  ASSUME UsedAsIntended, SInv, Turn, Delivering, readMsgDawnCmd
  PROVE  Delivering'
<1> DEFINE rest == SubSeq(rbuf, HDR + 1, Len(rbuf))
<1>1. /\ At("parse") /\ rbuf # << >>
      /\ UNCHANGED <<metaOut, cmdsOut, loop, peer, socket>>
  BY DEF readMsgDawnCmd, Parsing
<1>2. /\ Len(stack) = 1 /\ stack # << >> /\ ~Top.wr /\ running /\ AtMessage
      /\ Len(rbuf) >= HDR /\ AssertRLen(rbuf[2])
  BY <1>1, ParsesMessage
<1>3. /\ UNCHANGED <<flushed, fault>>
      /\ \/ /\ ~Complete(rest, rbuf[2]) /\ rbuf' = rest /\ dawnCmdRLen' = rbuf[2]
            /\ UNCHANGED <<delivered, stack>>
         \/ Complete(rest, rbuf[2]) /\ Deliver(rest, rbuf[2], "readMsg")
  <2>1. ~(Len(rbuf) < HDR)
    BY <1>2, Numbers
  <2>2. QED
    BY <1>2, <2>1 DEF readMsgDawnCmd, program
<1>4. PICK n \in 1..MAX :
           /\ rbuf[2] = n
           /\ End(Len(delivered)) \in Nat
           /\ End(Len(delivered) + 1) = End(Len(delivered)) + HDR + n
           /\ Len(rbuf) \in {HDR, HDR + n}
           /\ Len(rbuf) = HDR + n =>
                /\ taken = End(Len(delivered) + 1)
                /\ rest = SubSeq(script[Len(delivered) + 1], HDR + 1,
                                 Len(script[Len(delivered) + 1]))
  BY <1>2, HeaderIsThere
<1>5. /\ n \in Nat /\ n > 0 /\ HDR \in Nat
      /\ rest \in Seq(Nat) /\ Len(rest) = Len(rbuf) - HDR
  <2>1. n \in Nat /\ n > 0 /\ HDR \in Nat /\ Len(rbuf) \in Nat
    BY Numbers
  <2>2. HDR =< Len(rbuf)
    BY <1>2, <2>1
  <2>3. QED
    BY <2>1, <2>2, Types, DropPrefix
<1> HIDE DEF rest
<1>6. /\ UNCHANGED <<script, running, flushed, flushbuf, evWrite, taken, fault>>
      /\ Clean' /\ Wanted'
  BY <1>1, <1>3 DEF Delivering, Clean, Wanted, metaOut, cmdsOut, loop, peer, socket
<1>7. CASE Len(rbuf) = HDR
  <2>1. Len(rest) = 0
    BY <1>5, <1>7
  <2>2. ~Complete(rest, n) /\ rest = << >>
    BY <1>5, <2>1, EmptySeq DEF Complete
  <2>3. rbuf' = << >> /\ dawnCmdRLen' = n /\ UNCHANGED <<delivered, stack>>
    BY <1>3, <1>4, <2>2
  <2>4. InBody'
    <3>1. /\ Len(delivered) < Len(script) /\ taken - Len(rbuf) = End(Len(delivered))
      BY <1>2 DEF AtMessage
    <3>2. taken = End(Len(delivered)) + HDR
      BY <1>4, <1>7, <3>1, Numbers
    <3>3. taken < End(Len(delivered) + 1)
      BY <1>4, <1>5, <3>2
    <3>4. End(Len(delivered) + 1) - (End(Len(delivered)) + HDR) = n
      BY <1>4, <1>5
    <3>5. Len(rbuf') = 0 /\ taken - 0 = taken
      BY <2>3, Numbers
    <3>6. Len(delivered') = Len(delivered) /\ Len(script') = Len(script) /\ taken' = taken
      BY <1>6, <2>3
    <3>7. End(Len(delivered))' = End(Len(delivered)) /\ End(Len(delivered) + 1)' = End(Len(delivered) + 1)
      BY <1>6, <2>3 DEF End
    <3>8. QED
      BY <2>3, <3>1, <3>2, <3>3, <3>4, <3>5, <3>6, <3>7 DEF InBody
  <2>5. Top' = Top /\ Len(stack') = 1 /\ Top.pc = "parse"
    BY <1>1, <1>2, <2>3 DEF Top, At
  <2>6. Place'
    BY <1>2, <2>3, <2>4, <2>5 DEF Place
  <2>7. Counts' /\ Done' /\ Activations'
    BY <1>6, <2>3 DEF Delivering, Counts, Done, Activations, Top
  <2>8. QED
    BY <1>6, <2>6, <2>7 DEF Delivering
<1>8. CASE Len(rbuf) = HDR + n
  <2>1. Len(rest) = n
    BY <1>5, <1>8
  <2>2. Complete(rest, n)
    BY <1>5, <2>1 DEF Complete
  <2>3. Deliver(rest, Len(rest), "readMsg")
    BY <1>3, <1>4, <2>1, <2>2
  <2>4. PICK buf \in Seq(Nat) : buf = rest
    BY <1>5
  <2>5. /\ buf = SubSeq(script[Len(delivered) + 1], HDR + 1,
                        Len(script[Len(delivered) + 1]))
        /\ taken' = End(Len(delivered) + 1)
    BY <1>4, <1>6, <1>8, <2>4
  <2>6. Len(delivered) < Len(script)
    BY <1>2 DEF AtMessage
  <2>7. QED
    BY <1>2, <1>6, <2>3, <2>4, <2>5, <2>6, DeliverDelivering
<1>9. QED
  BY <1>4, <1>7, <1>8
-----------------------------------------------------------------------------
(* The program and the loop. *)

(* When a command buffer is handed to the program, the answer before it is *)
(* all on the wire.                                                        *)
LEMMA AppIsFree ==
  ASSUME UsedAsIntended, SInv, Turn, Delivering, At("app")
  PROVE  /\ Len(stack) = 1 /\ stack # << >> /\ running /\ flushbuf = << >> /\ ~Top.wr
         /\ Between /\ Len(flushed) < Len(delivered)
<1>1. /\ stack # << >> /\ Top.pc = "app" /\ running
      /\ Len(flushed) < Len(delivered) /\ Len(delivered) =< Len(script)
  BY DEF At, Delivering, Counts, Activations
<1>2. Len(stack) = 1 /\ Between /\ ~Top.wr
  BY <1>1, OneOrTwo DEF Delivering, Place, Activations, Plain
<1>3. PICK m \in 1..Len(script) : m = Len(delivered)
  <2>1. Len(delivered) \in 1..Len(script)
    BY <1>1, Numbers
  <2>2. QED
    BY <2>1
<1>4. PICK n \in 1..MAX : Begin(m) \in Nat /\ End(m) = Begin(m) + HDR + n
  BY Types, Message
<1>5. Begin(m) < arrived
  <2>1. taken = End(m)
    BY <1>2, <1>3 DEF Between
  <2>2. PICK b \in Nat, h \in Nat, t \in Nat, a \in Nat :
          b = Begin(m) /\ h = HDR /\ t = taken /\ a = arrived /\ t =< a
    BY <1>4, Numbers
  <2>3. t = b + h + n /\ n > 0
    BY <1>4, <2>1, <2>2
  <2>4. b < a
    BY <2>2, <2>3
  <2>5. QED
    BY <2>2, <2>4
<1>6. Len(flushed) =< m - 1
  BY <1>1, <1>3, Numbers
<1>7. QED
  BY <1>1, <1>2, <1>5, <1>6, Answered

LEMMA FlushDelivering ==
  ASSUME UsedAsIntended, SInv, Turn, Delivering, Flush
  PROVE  Delivering'
<1>1. /\ Len(stack) = 1 /\ running /\ flushbuf = << >> /\ ~Top.wr /\ Between
      /\ Len(flushed) < Len(delivered)
  BY AppIsFree DEF Flush
<1>2. /\ UNCHANGED <<rbuf, dawnCmdRLen, taken, script, running, delivered, wlen, fault>>
      /\ Done' /\ Between' /\ Len(delivered') =< Len(script')
  BY <1>1
  DEF Flush, Delivering, Done, Counts, Between, End, reading, metaOut, peer, socket
<1>3. CASE Len(writebuf) > HDR /\ Goto("poll")
  <2>1. \E frame : flushbuf' = frame /\ flushed' = Append(flushed, frame) /\ frame # << >>
    BY <1>3, FlushTakes DEF SInv
  <2>2. Len(flushed') = Len(flushed) + 1 /\ flushbuf' # << >>
    BY <2>1, Types
  <2>3. Len(flushed') =< Len(delivered')
    BY <1>1, <1>2, <2>2, Numbers
  <2>4. Clean' /\ Wanted'
    <3>1. 0 \in Nat /\ HDR \in Nat /\ MAX \in Nat
      BY Sizes
    <3>2. Len(DawnCmdHeader(0)) = HDR
      BY <3>1, HeaderType
    <3>3. Len(writebuf') =< BufSize
      BY <1>3, <3>1, <3>2 DEF Flush, BufSize
    <3>4. QED
      BY <1>2, <2>2, <3>3 DEF Delivering, Clean, Wanted
  <2>5. Goes(stack, stack', "poll", "doIO")
    BY <1>3 DEF Goes, Goto
  <2>6. QED
    BY <1>1, <1>2, <2>3, <2>4, <2>5, GoOnDelivering
<1>4. CASE stack' = Resumed /\ UNCHANGED <<cmdsOut, flushed, evWrite>>
  <2>1. Goes(stack, stack', "return", "doIO")
    BY <1>4 DEF Goes, Resumed, UsedAsIntended
  <2>2. Clean' /\ Wanted'
    BY <1>2, <1>4 DEF Delivering, Clean, Wanted, cmdsOut
  <2>3. Len(flushed') =< Len(delivered')
    <3>1. flushed' = flushed /\ delivered' = delivered
      BY <1>2, <1>4
    <3>2. QED
      BY <1>1, <3>1, Numbers
  <2>4. QED
    BY <1>1, <1>2, <2>1, <2>2, <2>3, GoOnDelivering
<1>5. ASSUME Len(writebuf) > HDR PROVE Goto("poll")
  <2>1. ~(Len(writebuf) = HDR)
    <3>1. PICK l \in Nat : l = Len(writebuf)
      BY DEF SInv, SendTypeOK
    <3>2. HDR \in Nat /\ l > HDR
      BY <1>5, <3>1, Sizes
    <3>3. QED
      BY <3>1, <3>2
  <2>2. QED
    BY <2>1 DEF Flush
<1>6. QED
  BY <1>3, <1>4, <1>5 DEF Flush

LEMMA SpaceDelivering ==
  ASSUME UsedAsIntended, SInv, Delivering, NEW size \in CmdSizes, GetCmdSpace(size)
  PROVE  Delivering'
<1>1. /\ UNCHANGED <<Taken, stack, running, evWrite, flushed, flushbuf, wlen>>
      /\ Len(writebuf) + size =< BufSize
  BY DEF GetCmdSpace, UsedAsIntended, Taken, reading, metaOut, loop, peer, socket, program
<1>2. size \in Nat /\ writebuf \in Seq(Nat) /\ BufSize \in Nat
  <2>1. size \in 1..MAX
    BY ProtocolAssumption
  <2>2. size \in Nat /\ BufSize \in Nat
    BY <2>1, Sizes DEF BufSize
  <2>3. QED
    BY <2>2 DEF SInv, SendTypeOK
<1>3. PICK new : new = [i \in 1..size |-> Len(flushed) + 1]
  OBVIOUS
<1>4. new \in Seq(Nat) /\ Len(new) = size
  BY <1>2, <1>3, Numbers
<1>5. Len(writebuf \o new) = Len(writebuf) + size
  BY <1>2, <1>4, ConcatProperties
<1>6. Len(writebuf') =< BufSize /\ Len(writebuf') \in Nat
  <2>1. CASE writebuf' = writebuf
    BY <1>2, <2>1 DEF Delivering, Clean
  <2>2. CASE writebuf' = writebuf \o new
    BY <1>1, <1>2, <1>5, <2>2
  <2>3. QED
    BY <1>3, <2>1, <2>2 DEF GetCmdSpace
<1>7. fault' = fault
  BY <1>2, <1>6 DEF GetCmdSpace
<1>8. Clean'
  BY <1>1, <1>6, <1>7 DEF Delivering, Clean
<1>9. QED
  BY <1>1, <1>8, StillDelivering

LEMMA BackDelivering ==
  ASSUME UsedAsIntended, SInv, Delivering, ReturnFromApp
  PROVE  Delivering'
<1>1. stack # << >> /\ Top.pc = "return" /\ Top.via # "main"
  <2>1. stack # << >> /\ Top.pc = "return"
    BY DEF ReturnFromApp, At, UsedAsIntended
  <2>2. QED
    BY <2>1, OneOrTwo DEF Delivering, Activations, Plain
<1>2. Len(stack) = 1 /\ Between /\ ~Top.wr
  BY <1>1, OneOrTwo DEF Delivering, Place, Activations, Plain
<1>3. PICK pc \in {"parse", "write"} : Goto(pc) /\ dawnCmdRLen' = 0
  BY <1>1 DEF ReturnFromApp, ResetRLen
<1>4. /\ UNCHANGED <<rbuf, taken, script, running, delivered, flushed>>
      /\ Done' /\ Between' /\ Clean' /\ Wanted'
  BY <1>2
  DEF ReturnFromApp, Delivering, Done, Between, Clean, Wanted, End, metaOut, cmdsOut,
      loop, peer, socket, program
<1>5. Len(delivered') =< Len(script') /\ Len(flushed') =< Len(delivered')
  BY <1>4 DEF Delivering, Counts
<1>6. AtRest'
  BY <1>3, <1>4 DEF AtRest
<1>7. Goes(stack, stack', pc, "doIO")
  BY <1>3 DEF Goes, Goto
<1>8. QED
  BY <1>2, <1>3, <1>4, <1>5, <1>6, <1>7, GoOnDelivering

LEMMA DoneDelivering ==
  ASSUME SInv, Delivering, readMsgDone
  PROVE  Delivering'
<1>1. stack # << >> /\ Top.pc = "parse" /\ rbuf = << >> /\ Goto("write")
  BY DEF readMsgDone, At
<1>2. Len(stack) = 1 /\ ~Top.wr
  BY <1>1, OneOrTwo DEF Delivering, Place, Activations, Plain
<1>3. AtRest
  <2>1. ASSUME AtMessage PROVE Between /\ dawnCmdRLen = 0
    <3>1. /\ taken - Len(rbuf) = End(Len(delivered)) /\ Len(rbuf) = 0
          /\ dawnCmdRLen = 0
      BY <1>1, <2>1 DEF AtMessage
    <3>2. QED
      BY <1>1, <3>1, Numbers DEF Between
  <2>2. QED
    BY <1>1, <1>2, <2>1 DEF Delivering, Place, AtRest
<1>4. /\ UNCHANGED <<Taken, running, flushed>>
      /\ Done' /\ AtRest' /\ Clean' /\ Wanted'
  BY <1>3
  DEF readMsgDone, Taken, Delivering, Done, AtRest, Between, InBody, Clean, Wanted, End,
      reading, metaOut, cmdsOut, loop, peer, socket, program
<1>5. Len(delivered') =< Len(script') /\ Len(flushed') =< Len(delivered')
  BY <1>4 DEF Delivering, Counts, Taken
<1>6. Goes(stack, stack', "write", "doIO")
  BY <1>1 DEF Goes, Goto
<1>7. QED
  BY <1>2, <1>4, <1>5, <1>6, GoOnDelivering

LEMMA WriteDelivering ==
  ASSUME UsedAsIntended, SInv, Delivering,
         doIONoWrite \/ doIOFlushMore \/ doIODrain \/ doIODrainError
  PROVE  Delivering'
<1>1. /\ stack # << >> /\ Top.pc = "write" /\ Return
      /\ UNCHANGED <<flushed, rbuf, dawnCmdRLen, taken, script, delivered>>
  BY DEF doIONoWrite, doIOFlushMore, doIODrain, doIODrainError, At, reading, peer,
         socket, program
<1>2. wlen = 0 /\ Len(writebuf) =< BufSize /\ fault \in {"none", "sigpipe"}
  BY DEF Delivering, Clean
<1>3. ~doIODrainError
  BY <1>2 DEF doIODrainError
<1>4. running' = running /\ Wanted' /\ Clean'
  <2>1. CASE doIONoWrite \/ doIOFlushMore
    BY <1>2, <2>1
    DEF doIONoWrite, doIOFlushMore, Delivering, Wanted, Clean, metaOut, cmdsOut, loop,
        program
  <2>2. CASE doIODrain
    <3>1. running
      BY <2>2 DEF doIODrain, At, Delivering, Activations
    <3>2. /\ wlen' = 0 /\ evWrite' = FALSE /\ UNCHANGED <<fault, running, writebuf>>
      BY <1>2, <2>2, <3>1 DEF doIODrain, metaOut
    <3>3. QED
      BY <1>2, <3>2 DEF Wanted, Clean
  <2>3. QED
    BY <1>3, <2>1, <2>2
<1>5. QED
  BY <1>1, <1>4, ReturnDelivering

LEMMA PollDelivering ==
  ASSUME UsedAsIntended, SInv, Delivering, Poll \/ NestedPoll
  PROVE  Delivering'
<1>1. /\ running
      /\ UNCHANGED <<rbuf, taken, dawnCmdRLen, script, delivered, flushed, running,
                     evWrite, flushbuf, wlen, writebuf, fault>>
  BY DEF Poll, NestedPoll, reading, metaOut, cmdsOut, loop, peer, socket, program
<1>2. Done' /\ Wanted' /\ Clean' /\ Between' = Between /\ AtRest' = AtRest
  BY <1>1 DEF Delivering, Done, Wanted, Clean, Between, InBody, AtRest, End
<1>3. Len(delivered') =< Len(script') /\ Len(flushed') =< Len(delivered')
  BY <1>1 DEF Delivering, Counts
<1>4. PICK f \in Frame : f = Dispatch
  <2>1. Writable \in BOOLEAN
    BY DEF Writable
  <2>2. Dispatch \in Frame
    BY <2>1 DEF Dispatch, Frame
  <2>3. QED
    BY <2>2
<1>5. f.pc \in {"read", "write"} /\ f.via = "loop" /\ (f.wr => evWrite)
  BY <1>4 DEF Dispatch, Writable
<1>6. Plain(f) /\ (f.wr => flushbuf # << >>)
  BY <1>1, <1>5 DEF Plain, Delivering, Wanted
<1>7. CASE Poll
  <2>1. stack' = <<f>> /\ stack = << >>
    BY <1>4, <1>7 DEF Poll
  <2>2. stack' # << >> /\ Len(stack') = 1 /\ Top' = f /\ stack'[1] = f
    BY <2>1 DEF Top
  <2>3. AtRest'
    BY <1>1, <1>2, <2>1 DEF Delivering, Place
  <2>4. Place'
    BY <1>5, <2>2, <2>3 DEF Place
  <2>5. Counts' /\ Activations'
    BY <1>1, <1>3, <1>5, <1>6, <2>2 DEF Counts, Activations
  <2>6. QED
    BY <1>2, <2>4, <2>5 DEF Delivering
<1>8. CASE NestedPoll
  <2>1. stack # << >> /\ Top.pc = "poll"
    BY <1>8 DEF NestedPoll, At
  <2>2. Len(stack) = 1 /\ Between /\ ~Top.wr
    BY <2>1, OneOrTwo DEF Delivering, Place, Activations, Plain
  <2>3. PICK st : st = Resumed
    OBVIOUS
  <2>4. st \in Seq(Frame) /\ Len(st) = 1 /\ Head(st) = st[1] /\ st # << >>
        /\ st[1].pc = "return" /\ st[1].wr = Top.wr /\ st[1].via \in {Top.via, "doIO"}
    <3>1. PICK before \in Seq(Frame) : before = stack
      BY Types
    <3>2. Goes(before, st, "return", "doIO")
      BY <2>3, <3>1 DEF Goes, Resumed, UsedAsIntended
    <3>3. before # << >> /\ Len(before) = 1 /\ Head(before) = Top
      BY <2>1, <2>2, <3>1 DEF Top
    <3>4. /\ st # << >> /\ Len(st) = 1 /\ Head(st) = st[1]
          /\ st[1].pc = "return" /\ st[1].wr = Top.wr /\ st[1].via \in {Top.via, "doIO"}
      BY <3>2, <3>3, GoneOn
    <3>5. st \in Seq(Frame)
      BY <2>1, <2>3, ResumedStack DEF Frames, SInv, RInv
    <3>6. QED
      BY <3>4, <3>5
  <2>5. Plain(st[1])
    <3>1. Top.via # "main"
      BY <2>1, OneOrTwo DEF Delivering, Activations, Plain
    <3>2. QED
      BY <2>2, <2>4, <3>1 DEF Plain
  <2>6. CASE stack' = st
    <3>1. stack' # << >> /\ Len(stack') = 1 /\ Top' = st[1] /\ stack'[1] = st[1]
      BY <2>4, <2>6 DEF Top
    <3>2. Place'
      BY <1>2, <2>2, <2>4, <3>1 DEF Place
    <3>3. Counts' /\ Activations'
      BY <1>3, <2>2, <2>4, <2>5, <3>1 DEF Counts, Activations
    <3>4. QED
      BY <1>2, <3>2, <3>3 DEF Delivering
  <2>7. CASE stack' = <<f>> \o st
    <3>1. PICK new : new = <<f>> \o st
      OBVIOUS
    <3>2. /\ Len(new) = 2 /\ new # << >> /\ Head(new) = f /\ new[1] = f /\ new[2] = st[1]
      BY <2>4, <3>1, Called
    <3>3. /\ stack' # << >> /\ Len(stack') = 2 /\ Top' = f
          /\ stack'[1] = f /\ stack'[2] = st[1]
      BY <2>7, <3>1, <3>2 DEF Top
    <3>4. Place'
      BY <1>2, <1>5, <2>2, <2>4, <3>3 DEF Place
    <3>5. \A i \in 1..Len(stack') : Plain(stack'[i])
      <4>1. \A i \in 1..2 : i = 1 \/ i = 2
        OBVIOUS
      <4>2. QED
        BY <1>6, <2>5, <3>3, <4>1
    <3>6. Activations'
      BY <1>1, <1>5, <1>6, <3>3, <3>5 DEF Activations, Plain
    <3>7. Counts'
      BY <1>3, <1>5, <3>3 DEF Counts
    <3>8. QED
      BY <1>2, <3>4, <3>6, <3>7 DEF Delivering
  <2>8. QED
    BY <1>4, <1>8, <2>3, <2>6, <2>7 DEF NestedPoll
<1>9. QED
  BY <1>7, <1>8
-----------------------------------------------------------------------------
(* Every step keeps it. *)

LEMMA DeliveringStep ==
  ASSUME UsedAsIntended, SInv, Turn, Cut, Delivering, [Next]_vars
  PROVE  Delivering'
<1>1. CASE doIORead BY <1>1, ReadDelivering
<1>2. CASE readMsgDone BY <1>2, DoneDelivering
<1>3. CASE readMsgDawnCmd BY <1>3, ParseDelivering
<1>4. ~(readMsgFbInfo \/ readMsgReservation \/ readMsgFrameSignal \/ readMsgUnexpected)
  <2>1. ASSUME At("parse"), rbuf # << >> PROVE rbuf[1] = 68
    BY <2>1, ParsesMessage DEF MSGT_DAWNCMD
  <2>2. QED
    BY <2>1
    DEF readMsgFbInfo, readMsgReservation, readMsgFrameSignal, readMsgUnexpected,
        Parsing, MSGT_DAWNCMD, MSGT_FRAME_SIGNAL, MSGT_FB_INFO, MSGT_RESERVATION
<1>5. CASE doIONoWrite \/ doIOFlushMore \/ doIODrain \/ doIODrainError
  BY <1>5, WriteDelivering
<1>6. ASSUME NEW size \in CmdSizes, GetCmdSpace(size) PROVE Delivering'
  BY <1>6, SpaceDelivering
<1>7. CASE Flush BY <1>7, FlushDelivering
<1>8. CASE ReturnFromApp BY <1>8, BackDelivering
<1>9. CASE Poll \/ NestedPoll BY <1>9, PollDelivering
<1>10. ~FlushTooEarly
  BY AppIsFree DEF FlushTooEarly, flushlen
<1>11. ~NestedPollStopped
  BY DEF NestedPollStopped, At, Delivering, Activations
<1>12. ~(sendFrameSignal \/ sendFramebufferInfo \/ sendReservation)
  <2>1. ~(sentMeta < MaxMeta)
    BY DEF SInv, SendTypeOK, UsedAsIntended
  <2>2. QED
    BY <2>1 DEF sendFrameSignal, sendFramebufferInfo, sendReservation, send
<1>13. ASSUME UNCHANGED <<Taken, stack, running, evWrite, flushed, flushbuf, wlen, writebuf>>,
              fault' \in {fault, "sigpipe"}
       PROVE  Delivering'
  <2>1. Clean'
    BY <1>13 DEF Delivering, Clean
  <2>2. QED
    BY <1>13, <2>1, StillDelivering
<1>14. CASE doIOWriteClosed
  BY <1>13, <1>14
  DEF doIOWriteClosed, Fail, Taken, reading, metaOut, cmdsOut, loop, peer, socket, program
<1>15. CASE Environment
  <2>1. /\ UNCHANGED <<Taken, stack, running, evWrite, flushed>>
        /\ UNCHANGED <<flushbuf, wlen, writebuf, fault>>
    <3>1. ASSUME NEW n, Arrive(n)
          PROVE  /\ UNCHANGED <<Taken, stack, running, evWrite, flushed>>
                 /\ UNCHANGED <<flushbuf, wlen, writebuf, fault>>
      BY <3>1 DEF Arrive, Taken, reading, metaOut, cmdsOut, loop, socket, program
    <3>2. ASSUME NEW n, PeerRead(n)
          PROVE  /\ UNCHANGED <<Taken, stack, running, evWrite, flushed>>
                 /\ UNCHANGED <<flushbuf, wlen, writebuf, fault>>
      BY <3>2 DEF PeerRead, Taken, reading, metaOut, cmdsOut, loop, peer, program
    <3>3. ASSUME PeerClose
          PROVE  /\ UNCHANGED <<Taken, stack, running, evWrite, flushed>>
                 /\ UNCHANGED <<flushbuf, wlen, writebuf, fault>>
      BY <3>3 DEF PeerClose, Taken, reading, metaOut, cmdsOut, loop, socket, program
    <3>4. QED
      BY <1>15, <3>1, <3>2, <3>3 DEF Environment
  <2>2. QED
    BY <1>13, <2>1
<1>16. CASE UNCHANGED vars
  BY <1>13, <1>16 DEF vars, Taken
<1>17. QED
  BY <1>1, <1>2, <1>3, <1>4, <1>5, <1>6, <1>7, <1>8, <1>9, <1>10, <1>11, <1>12, <1>14,
     <1>15, <1>16
  DEF Next, doIO, App, Loop
-----------------------------------------------------------------------------
(* The invariant holds: a server starts with nothing on its stack, and no  *)
(* message has begun to arrive.                                            *)

LEMMA DeliveryInit ==
  ASSUME UsedAsIntended, Init, SInv
  PROVE  Turn /\ Cut /\ Delivering
<1>1. script \in Scripts /\ Len(script) \in Nat
  BY Types
<1>2. \A m \in 0..Len(script) : End(m) \in Nat
  BY <1>1, EndOrder
<1>3. End(0) = 0
  BY <1>1, EndOrder
<1>4. Turn
  <2> SUFFICES ASSUME NEW m \in 1..Len(script), Begin(m) < arrived PROVE FALSE
    BY DEF Turn
  <2>1. m - 1 \in 0..Len(script)
    BY <1>1
  <2>2. Begin(m) \in Nat
    BY <1>2, <2>1 DEF Begin
  <2>3. arrived = 0
    BY DEF Init
  <2>4. QED
    BY <2>2, <2>3
<1>5. Cut
  BY <1>1, <1>3 DEF Cut, Init
<1>6. stack = << >> /\ delivered = << >> /\ Len(delivered) = 0 /\ Len(flushed) = 0
  BY DEF Init, UsedAsIntended
<1>7. Len(stack) = 0
  BY <1>6
<1>8. Between /\ dawnCmdRLen = 0
  BY <1>3, <1>6 DEF Init, Between
<1>9. Place
  BY <1>6, <1>7, <1>8 DEF Place, AtRest
<1>10. Counts /\ Done /\ Activations /\ Wanted
  BY <1>1, <1>6, <1>7 DEF Counts, Done, Activations, Wanted, Init
<1>11. Clean
  <2>1. Len(writebuf) = HDR
    BY Sizes DEF Init, DawnCmdHeader
  <2>2. HDR =< BufSize
    BY ProtocolAssumption DEF BufSize
  <2>3. QED
    BY <2>1, <2>2 DEF Init, Clean
<1>12. QED
  BY <1>4, <1>5, <1>9, <1>10, <1>11 DEF Delivering

LEMMA DeliveryInv ==
  ASSUME UsedAsIntended
  PROVE  Spec => []DInv
<1>1. Init /\ SInv => Turn /\ Cut /\ Delivering
  BY DeliveryInit
<1>2. SInv /\ (Turn /\ Cut /\ Delivering) /\ [Next]_vars => (Turn /\ Cut /\ Delivering)'
  BY TurnStep, DeliveringStep
<1>3. SInv /\ (Turn /\ Cut /\ Delivering) => DInv
  BY DEF DInv
<1>4. QED
  BY <1>1, <1>2, <1>3, SendInv, PTL DEF Spec
-----------------------------------------------------------------------------
(* What a server that is used as intended does. *)

(* The program gets the command buffers the client sent, whole and in      *)
(* order, none left out or handed over twice, whatever pieces their bytes  *)
(* came in, and although the answer to each is flushed, and doIO called    *)
(* again, before onDawnBuffer has returned.                                *)
THEOREM DeliversInOrder ==
  ASSUME UsedAsIntended
  PROVE  Spec => []DeliveredInOrder
<1>1. ASSUME DInv PROVE DeliveredInOrder
  <2>1. /\ script \in Scripts /\ script \in Seq(Seq(Nat))
        /\ Len(script) \in Nat /\ Len(delivered) \in Nat
    BY <1>1, Types DEF DInv
  <2>2. Len(delivered) =< Len(script) /\ Done
    BY <1>1 DEF DInv, Delivering, Counts
  <2>3. DawnCmds = 1..Len(script)
    <3>1. ASSUME NEW m \in 1..Len(script) PROVE script[m][1] = MSGT_DAWNCMD
      <4>1. PICK body \in Seq(Nat) : Len(body) \in 1..MAX /\ script[m] = DawnCmd(body)
        BY <2>1 DEF UsedAsIntended
      <4>2. /\ DawnCmdHeader(Len(body)) \in Seq(Nat)
            /\ Len(DawnCmdHeader(Len(body))) = HDR
        BY <4>1, HeaderType
      <4>3. PICK head \in Seq(Nat) : head = DawnCmdHeader(Len(body))
        BY <4>2
      <4>4. Len(head) = HDR /\ head[1] = MSGT_DAWNCMD
        BY <4>3, Sizes DEF DawnCmdHeader
      <4>5. (head \o body)[1] = head[1]
        BY <4>4, Sizes
      <4>6. QED
        BY <4>1, <4>3, <4>4, <4>5 DEF DawnCmd
    <3>2. DOMAIN script = 1..Len(script)
      BY <2>1
    <3>3. QED
      BY <3>1, <3>2 DEF DawnCmds
  <2>4. Cardinality(DawnCmds) = Len(script)
    <3>1. PICK n \in Nat : n = Len(script)
      BY <2>1
    <3>2. Cardinality(1..n) = n
      BY CountUpTo
    <3>3. QED
      BY <2>3, <3>1, <3>2
  <2>5. ASSUME NEW m \in DawnCmds
        PROVE  m \in Nat /\ Cardinality({j \in DawnCmds : j =< m}) = m
    <3>1. m \in Nat /\ m >= 1 /\ {j \in DawnCmds : j =< m} = 1..m
      BY <2>1, <2>3
    <3>2. Cardinality(1..m) = m
      BY <3>1, CountUpTo
    <3>3. QED
      BY <3>1, <3>2
  <2>6. \A m \in DawnCmds :
          m =< Len(delivered) => delivered[m] = SubSeq(script[m], HDR + 1, Len(script[m]))
    BY <2>1, <2>2, <2>3 DEF Done
  <2>7. QED
    BY <2>2, <2>4, <2>5, <2>6 DEF DeliveredInOrder
<1>2. QED
  BY <1>1, DeliveryInv, PTL

(* While the program works on a command buffer in _rbuf or _dawntmp, or    *)
(* flushes its answer, no doIO reads: the client waits for that answer.    *)
THEOREM ReadsOnlyBetween ==
  ASSUME UsedAsIntended
  PROVE  Spec => []NoReadWhileHandling
<1>1. ASSUME DInv PROVE NoReadWhileHandling
  <2> SUFFICES ASSUME At("read"), Got > 0 PROVE ~Handling
    BY DEF NoReadWhileHandling
  <2>1. Len(stack) = 1 /\ stack[1].pc = "read"
    BY <1>1, ReadsAtRest DEF DInv, At, Top
  <2>2. QED
    BY <2>1 DEF Handling
<1>2. QED
  BY <1>1, DeliveryInv, PTL

(* No assertion fails, no function is called that was not set, no loop is  *)
(* used after stop() and nothing is written beyond a buffer: only writing  *)
(* to a client that has gone ends the process.                             *)
THEOREM NothingElseEndsIt ==
  ASSUME UsedAsIntended
  PROVE  Spec => []OnlyThePeerEndsIt
<1>1. DInv => OnlyThePeerEndsIt
  BY DEF DInv, Delivering, Clean, OnlyThePeerEndsIt
<1>2. QED
  BY <1>1, DeliveryInv, PTL
=============================================================================
