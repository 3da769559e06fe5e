------------------------------ MODULE Protocol ------------------------------
(***************************************************************************)
(* One endpoint of the connection between client and server: the class     *)
(* DawnRemoteProtocol of main/protocol.{hh,cc}, driven by a libev loop and *)
(* by the program that owns it (main/server.cc or main/client.cc), over a  *)
(* non-blocking UNIX stream socket.                                        *)
(*                                                                         *)
(* Everything runs on one thread, but not one handler at a time: Flush     *)
(* calls ev_run(_rl, EVRUN_NOWAIT), which may call doIO again while an     *)
(* earlier doIO, and the callback it is in, are still on the C++ stack.    *)
(* The model therefore keeps that stack: each activation of doIO is a      *)
(* frame, the first of the sequence is the one that runs, and its pc is    *)
(*   "read"    at the start of doIO, with EV_READ in revents               *)
(*   "parse"   at the head of readMsg's loop                               *)
(*   "app"     in onDawnBuffer (or, for via = "main", in client.cc before  *)
(*             its event loop), where the program calls the protocol       *)
(*   "poll"    in Flush, about to call ev_run(_rl, EVRUN_NOWAIT)           *)
(*   "return"  onDawnBuffer of the server after its Flush                  *)
(*   "write"   at doIO's EV_WRITE section.                                 *)
(*                                                                         *)
(* A byte is a number.  The length in a "D" header is one byte here, and   *)
(* the header has HDR bytes.  Whatever ends the process or has no defined  *)
(* behaviour is recorded in fault, after which nothing happens.            *)
(***************************************************************************)
EXTENDS Integers, Sequences, FiniteSets, SequencesExt

CONSTANTS
  Server,     \* TRUE: the owner is Conn of server.cc; FALSE: client.cc
  HDR,        \* DAWNCMD_MSG_HEADER_SIZE
  MAX,        \* DAWNCMD_MAX
  Slack,      \* "extra space for pipe impl" in _rbuf
  WSize,      \* size of _wbuf
  PTR,        \* sizeof(_dawnout.writebuf), a pointer
  SIZE_T,     \* size_t arithmetic is modulo SIZE_T
  FbInfoSize, ReservationSize,
  \* the environment, and the bounds of a run:
  Scripts,    \* the sequences of messages the peer may send
  AnyCut,     \* TRUE: the peer's bytes may arrive in pieces of any size
  Lockstep,   \* TRUE: the peer sends a message only when it is its turn
  OutCap,     \* the bytes the socket's send buffer holds
  WriteErrors,\* TRUE: ::write may fail for reasons other than EAGAIN
  MayClose,   \* TRUE: the peer may close the connection
  CmdSizes,   \* the sizes the program asks GetCmdSpace for
  AppFits,    \* TRUE: it keeps the commands of one batch within the buffer
  MaxFrames,  \* command buffers the program fills
  MaxMeta     \* other messages it sends

ASSUME ProtocolAssumption ==
  /\ {HDR, MAX, Slack, WSize, PTR, SIZE_T, FbInfoSize, ReservationSize,
      OutCap, MaxFrames, MaxMeta} \subseteq Nat
  /\ {Server, AnyCut, Lockstep, WriteErrors, MayClose, AppFits} \subseteq BOOLEAN
  /\ HDR > 1 /\ MAX > 0 /\ WSize > 0 /\ SIZE_T > 0 /\ OutCap > 0
  /\ Scripts \subseteq Seq(Seq(Nat))
  /\ CmdSizes \subseteq 1..MAX

VARIABLES
  running,     \* _rl is set: start() was called, stop() was not
  evWrite,     \* EV_WRITE is in _io.events
  rbuf,        \* the bytes waiting in _rbuf
  rw,          \* _rbuf._w, where the next byte goes
  dawnCmdRLen,
  wlen,        \* how many bytes wait in _wbuf
  wr,          \* _wbuf._r, where the next byte is taken from
  writebuf,    \* _dawnout.writebuf[0..writelen-1]
  flushbuf,    \* _dawnout.flushbuf[0..flushlen-1]
  flushoffs,
  stack, fault,
  script, arrived, taken, peerOpen, \* the peer's bytes, and how far they got
  room,        \* free space in the send buffer
  wire,        \* the bytes of flushbuf that were written, in order
  metaAt,      \* Len(wire) whenever bytes of _wbuf were written
  flushed,     \* the command buffers handed to Flush
  delivered,   \* the command buffers handed to onDawnBuffer
  sentMeta     \* how many messages went into _wbuf

reading == <<rbuf, rw, dawnCmdRLen>>
metaOut == <<wlen, wr>>
cmdsOut == <<writebuf, flushbuf, flushoffs>>
loop    == <<running, evWrite>>
peer    == <<script, arrived, peerOpen>>
socket  == <<wire, taken, room, metaAt>>
program == <<flushed, delivered, sentMeta>>
vars == <<running, evWrite, rbuf, rw, dawnCmdRLen, wlen, wr, writebuf,
          flushbuf, flushoffs, stack, fault, script, arrived, taken, peerOpen,
          room, wire, metaAt, flushed, delivered, sentMeta>>
-----------------------------------------------------------------------------
Smaller(a, b) == IF a =< b THEN a ELSE b

MSGT_DAWNCMD      == 68 \* 'D'
MSGT_FRAME_SIGNAL == 70 \* 'F'
MSGT_FB_INFO      == 73 \* 'I'
MSGT_RESERVATION  == 82 \* 'R'

BufSize == HDR + MAX                    \* DAWNCMD_BUFSIZE
RSizeTight == MAX  \* mutant: _rbuf has the size of a command buffer
RSize   == BufSize + Slack              \* _rbuf is a Pipe<RSize>

DawnCmdHeader(n) ==
  [i \in 1..HDR |-> IF i = 1 THEN MSGT_DAWNCMD ELSE IF i = 2 THEN n ELSE 0]
DawnCmd(body) == DawnCmdHeader(Len(body)) \o body

flushlen == Len(flushbuf)
Unsent == SubSeq(flushbuf, flushoffs + 1, flushlen)
Stream == FlattenSeq(script)

Top == Head(stack)
Goto(pc) == stack' = [stack EXCEPT ![1].pc = pc]
Return == stack' = Tail(stack)
At(pc) == fault = "none" /\ stack # << >> /\ Top.pc = pc
Fail(kind) ==
  /\ fault' = kind
  /\ UNCHANGED <<reading, metaOut, cmdsOut, loop, peer, socket, program, stack>>

stopStaysOn ==  \* mutant: the watcher is not stopped
  /\ writebuf' = DawnCmdHeader(0)
  /\ flushbuf' = << >>
  /\ UNCHANGED <<running, flushoffs, evWrite>>

(* stop() forgets the outgoing command buffers, but not what is waiting in *)
(* _rbuf and _wbuf, and it leaves EV_WRITE in _io.events.                  *)
stop ==
  /\ writebuf' = DawnCmdHeader(0)
  /\ flushbuf' = << >>
  /\ running' = FALSE
  /\ UNCHANGED <<flushoffs, evWrite>>

setNeedsNothing == evWrite' = evWrite  \* mutant: EV_WRITE is not requested

(* Both clauses of setNeedsWriteFlush: nothing to do when EV_WRITE is      *)
(* requested already, and nothing without a loop.                          *)
setNeedsWriteFlush == evWrite' = (evWrite \/ running)
-----------------------------------------------------------------------------
(* start() has been called: the server is in its event loop, the client    *)
(* in initDawnWire, before its own.                                        *)
Init ==
  /\ running = TRUE /\ evWrite = FALSE
  /\ rbuf = << >> /\ rw = 0 /\ dawnCmdRLen = 0
  /\ wlen = 0 /\ wr = 0
  /\ writebuf = DawnCmdHeader(0) /\ flushbuf = << >> /\ flushoffs = 0
  /\ stack = IF Server THEN << >>
             ELSE <<[pc |-> "app", wr |-> FALSE, via |-> "main"]>>
  /\ fault = "none"
  /\ script \in Scripts /\ arrived = 0 /\ taken = 0 /\ peerOpen = TRUE
  /\ room = OutCap /\ wire = << >> /\ metaAt = {}
  /\ flushed = << >> /\ delivered = << >> /\ sentMeta = 0

(* What the loop finds ready: a socket is readable also at its end, and    *)
(* both readable and writable once the peer has closed it.                 *)
Readable == arrived > taken \/ ~peerOpen
Writable == evWrite /\ (room > 0 \/ ~peerOpen)
Dispatch == [pc |-> IF Readable THEN "read" ELSE "write",
             wr |-> Writable, via |-> "loop"]

(* An iteration of the outermost ev_run that finds the watcher ready. *)
Poll ==
  /\ fault = "none" /\ stack = << >>
  /\ running
  /\ Readable \/ Writable
  /\ stack' = <<Dispatch>>
  /\ UNCHANGED <<reading, metaOut, cmdsOut, loop, peer, socket, program, fault>>

ResumedBusy == stack  \* mutant: EVRUN_NOWAIT forgotten, the loop goes on

(* ev_run(_rl, EVRUN_NOWAIT) at the end of Flush: one poll, dispatching    *)
(* whatever is ready before it returns to the caller of Flush.             *)
Resumed == [stack EXCEPT ![1].pc = IF Server THEN "return" ELSE "app"]
NestedPollNone ==  \* mutant: Flush does not run the loop
  /\ At("poll")
  /\ running
  /\ stack' = Resumed
  /\ UNCHANGED <<reading, metaOut, cmdsOut, loop, peer, socket, program, fault>>
NestedPoll ==
  /\ At("poll")
  /\ running
  /\ stack' = IF Readable \/ Writable THEN <<Dispatch>> \o Resumed ELSE Resumed
  /\ UNCHANGED <<reading, metaOut, cmdsOut, loop, peer, socket, program, fault>>

NestedPollStopped ==
  /\ At("poll")
  /\ ~running
  /\ Fail("null_loop")
-----------------------------------------------------------------------------
DeliverToNone(buf, n, via) ==  \* mutant: onDawnBuffer is not called
  /\ rbuf' = SubSeq(buf, n + 1, Len(buf))
  /\ dawnCmdRLen' = 0
  /\ delivered' = Append(delivered, SubSeq(buf, 1, n))
  /\ stack' = [stack EXCEPT ![1].pc = IF via = "doIO" THEN "write" ELSE "parse"]

(* maybeReadIncomingDawnCmd on the bytes in buf, n of them expected.  The  *)
(* body is handed to onDawnBuffer by reference or by copy, whichever; the  *)
(* callback's frame is this one, at "app".                                 *)
Deliver(buf, n, via) ==
  /\ rbuf' = SubSeq(buf, n + 1, Len(buf))
  /\ dawnCmdRLen' = n
  /\ delivered' = Append(delivered, SubSeq(buf, 1, n))
  /\ stack' = [stack EXCEPT ![1].pc = "app", ![1].via = via]

AssertRLenStrict(n) == n > 0 /\ n < MAX  \* mutant
AssertRLen(n) == n > 0 /\ n =< MAX
Complete(buf, n) == Len(buf) >= n

(* readFromFD(fd, cap()): up to two ::reads.  If the first one takes all   *)
(* there is and the ring wraps there, the second finds nothing: the call   *)
(* fails, and the bytes already taken are lost.                            *)
FreeAll == RSize - Len(rbuf)  \* mutant: the ring may fill its last byte
Free == RSize - 1 - Len(rbuf)
Chunk == Smaller(Free, RSize - rw)
Got == Smaller(arrived - taken, Free)
ReadFails == Got = Chunk /\ Free > Chunk /\ peerOpen
Filled == rbuf \o SubSeq(Stream, taken + 1, taken + Got)

doIORead ==
  /\ At("read")
  /\ taken' = taken + Got
  /\ \/ (* end of file, or anything readFromFD returned that is not > 0 *)
        /\ Got = 0 \/ ReadFails
        /\ stop
        /\ Return
        /\ UNCHANGED <<reading, metaOut, program, fault>>
     \/ /\ Got > 0 /\ ~ReadFails
        /\ rw' = (rw + Got) % RSize
        /\ \/ /\ dawnCmdRLen = 0
              /\ rbuf' = Filled
              /\ Goto("parse")
              /\ UNCHANGED <<dawnCmdRLen, delivered, fault>>
           \/ /\ dawnCmdRLen > 0 /\ ~Complete(Filled, dawnCmdRLen)
              /\ rbuf' = Filled
              /\ Goto("write")
              /\ UNCHANGED <<dawnCmdRLen, delivered, fault>>
           \/ /\ dawnCmdRLen > 0 /\ Complete(Filled, dawnCmdRLen)
              /\ Deliver(Filled, dawnCmdRLen, "doIO")
              /\ UNCHANGED fault
        /\ UNCHANGED <<metaOut, cmdsOut, loop, flushed, sentMeta>>
  /\ UNCHANGED <<wire, peer, room, metaAt>>

(* One turn of readMsg's loop. *)
Discard(n) == rbuf' = SubSeq(rbuf, n + 1, Len(rbuf))
Parsing(type) == At("parse") /\ rbuf # << >> /\ rbuf[1] = type

readMsgDone ==
  /\ At("parse")
  /\ rbuf = << >>
  /\ Goto("write")
  /\ UNCHANGED <<reading, metaOut, cmdsOut, loop, peer, socket, program, fault>>

(* A callback that was never set throws std::bad_function_call: the server *)
(* sets neither onFramebufferInfo nor onFrame, the client no               *)
(* onSwapchainReservation.  A message that is not complete is decoded from *)
(* what is there.                                                          *)
Callback(isSet) == fault' = IF isSet THEN fault ELSE "terminate"

readMsgFbInfo ==
  /\ Parsing(MSGT_FB_INFO)
  /\ Discard(FbInfoSize + 1)
  /\ Callback(~Server)
  /\ UNCHANGED <<rw, dawnCmdRLen, metaOut, cmdsOut, loop, peer, socket, program, stack>>

readMsgReservation ==
  /\ Parsing(MSGT_RESERVATION)
  /\ Discard(ReservationSize + 1)
  /\ Callback(Server)
  /\ UNCHANGED <<rw, dawnCmdRLen, metaOut, cmdsOut, loop, peer, socket, program, stack>>

(* onFrame is not called while the last frame is being written. *)
readMsgFrameSignal ==
  /\ Parsing(MSGT_FRAME_SIGNAL)
  /\ Discard(1)
  /\ Callback(flushlen # 0 \/ ~Server)
  /\ UNCHANGED <<rw, dawnCmdRLen, metaOut, cmdsOut, loop, peer, socket, program, stack>>

(* With the header incomplete the loop goes round again, and nothing has   *)
(* changed.                                                                *)
readMsgDawnCmd ==
  /\ Parsing(MSGT_DAWNCMD)
  /\ \/ /\ Len(rbuf) < HDR
        /\ UNCHANGED <<reading, program, stack, fault>>
     \/ /\ Len(rbuf) >= HDR
        /\ LET n == rbuf[2]
               rest == SubSeq(rbuf, HDR + 1, Len(rbuf))
           IN \/ /\ ~AssertRLen(n)
                 /\ fault' = "assert_rlen"
                 /\ UNCHANGED <<reading, program, stack>>
              \/ /\ AssertRLen(n) /\ ~Complete(rest, n)
                 /\ rbuf' = rest
                 /\ dawnCmdRLen' = n
                 /\ UNCHANGED <<rw, program, stack, fault>>
              \/ /\ AssertRLen(n) /\ Complete(rest, n)
                 /\ Deliver(rest, n, "readMsg")
                 /\ UNCHANGED <<rw, flushed, sentMeta, fault>>
  /\ UNCHANGED <<metaOut, cmdsOut, loop, peer, socket>>

(* Anything else is corrupt data: stop() and return false. *)
readMsgUnexpected ==
  /\ At("parse")
  /\ rbuf # << >>
  /\ rbuf[1] \notin {MSGT_DAWNCMD, MSGT_FRAME_SIGNAL, MSGT_FB_INFO, MSGT_RESERVATION}
  /\ stop
  /\ Return
  /\ UNCHANGED <<reading, metaOut, peer, socket, program, fault>>
-----------------------------------------------------------------------------
(* The program, from inside onDawnBuffer (or client.cc before its loop). *)

(* sizeof(writebuf) - size is computed in size_t.  The caller writes its   *)
(* command, here size bytes numbered after the batch, to the space it got. *)
GetCmdSpace(size) ==
  /\ At("app")
  /\ Len(flushed) < MaxFrames
  /\ AppFits => Len(writebuf) + size =< BufSize
  /\ \/ /\ (PTR - size) % SIZE_T < Len(writebuf)
        /\ UNCHANGED writebuf
     \/ /\ (PTR - size) % SIZE_T >= Len(writebuf)
        /\ writebuf' = writebuf \o [i \in 1..size |-> Len(flushed) + 1]
  /\ fault' = IF Len(writebuf') > BufSize THEN "overflow" ELSE fault
  /\ UNCHANGED <<reading, metaOut, flushbuf, flushoffs, loop, peer, socket,
                 program, stack>>

(* Flush asserts that the buffer before is done. *)
DonePreviousUnchecked == TRUE  \* mutant: with NDEBUG there is no assertion
DonePrevious == flushlen = 0

Flush ==
  /\ At("app")
  /\ DonePrevious
  /\ \/ /\ Len(writebuf) > HDR
        /\ LET frame == DawnCmd(SubSeq(writebuf, HDR + 1, Len(writebuf)))
           IN /\ flushbuf' = frame
              /\ flushed' = Append(flushed, frame)
        /\ flushoffs' = 0
        /\ writebuf' = DawnCmdHeader(0)
        /\ setNeedsWriteFlush
        /\ Goto("poll")
     \/ /\ Len(writebuf) = HDR
        /\ stack' = Resumed
        /\ UNCHANGED <<cmdsOut, flushed, evWrite>>
  /\ UNCHANGED <<reading, metaOut, running, peer, socket, delivered, sentMeta, fault>>

(* assert(_dawnout.flushlen == 0) *)
FlushTooEarly ==
  /\ At("app")
  /\ flushlen # 0
  /\ Fail("assert_flush")

(* sendFrameSignal, sendFramebufferInfo and sendReservation: n bytes into  *)
(* _wbuf, all of them or none.                                             *)
send(n) ==
  /\ At("app")
  /\ sentMeta < MaxMeta
  /\ WSize - 1 - wlen >= n
  /\ wlen' = wlen + n
  /\ sentMeta' = sentMeta + 1
  /\ setNeedsWriteFlush
  /\ UNCHANGED <<reading, wr, cmdsOut, running, peer, socket, flushed,
                 delivered, stack, fault>>
sendFrameSignal == send(1)
sendFramebufferInfo == send(FbInfoSize + 1)
sendReservation == send(ReservationSize + 1)

ResetNothing == dawnCmdRLen' = dawnCmdRLen  \* mutant: the reset is forgotten
ResetRLen == dawnCmdRLen' = 0

(* onDawnBuffer returns to maybeReadIncomingDawnCmd, which returns to      *)
(* readMsg or to doIO.  The server's onDawnBuffer has called Flush.        *)
ReturnFromApp ==
  /\ At(IF Server THEN "return" ELSE "app")
  /\ \/ /\ Top.via = "main"
        /\ Return
        /\ UNCHANGED dawnCmdRLen
     \/ /\ Top.via = "readMsg"
        /\ ResetRLen
        /\ Goto("parse")
     \/ /\ Top.via = "doIO"
        /\ ResetRLen
        /\ Goto("write")
  /\ UNCHANGED <<rbuf, rw, metaOut, cmdsOut, loop, peer, socket, program, fault>>
-----------------------------------------------------------------------------
(* doIO's EV_WRITE section. *)

(* Without EV_WRITE in revents doIO is over. *)
doIONoWrite ==
  /\ At("write")
  /\ ~Top.wr
  /\ Return
  /\ UNCHANGED <<reading, metaOut, cmdsOut, loop, peer, socket, program, fault>>

(* Writing to a connection the peer has closed raises SIGPIPE, which no    *)
(* part of the program handles.                                            *)
doIOWriteClosed ==
  /\ At("write") /\ Top.wr
  /\ ~peerOpen
  /\ flushlen # 0 \/ wlen > 0
  /\ Fail("sigpipe")

WriteOutAll(n) ==  \* mutant: a short write is taken for a complete one
  /\ wire' = wire \o SubSeq(Unsent, 1, n)
  /\ flushoffs' = flushoffs + Len(Unsent)

(* n bytes of the command buffer are written. *)
WriteOut(n) ==
  /\ wire' = wire \o SubSeq(Unsent, 1, n)
  /\ flushoffs' = flushoffs + n

(* ::write of the command buffer does not get it all out: a full socket    *)
(* (EAGAIN), a part of the bytes, or an error, which is only logged.       *)
doIOFlushMore ==
  /\ At("write") /\ Top.wr
  /\ peerOpen
  /\ flushlen # 0
  /\ \/ /\ room < Len(Unsent)
        /\ WriteOut(room)
        /\ room' = 0
     \/ /\ WriteErrors
        /\ UNCHANGED <<wire, flushoffs, room>>
  /\ Return
  /\ UNCHANGED <<reading, metaOut, writebuf, flushbuf, loop, peer, taken,
                 metaAt, program, fault>>

(* _wbuf.writeToFD(fd, len()) with space free bytes left in the socket: at *)
(* most two ::writes.  A short one drops every byte that was asked for; if *)
(* the second one fails _wbuf keeps the bytes the first one has written.   *)
WChunk == Smaller(wlen, WSize - wr)
Drain(space) ==
  LET fails == space = 0 \/ (space = WChunk /\ wlen > WChunk)
  IN /\ wlen' = IF fails THEN wlen ELSE 0
     /\ wr' = IF fails THEN wr ELSE (wr + wlen) % WSize
     /\ room' = space - Smaller(space, wlen)

(* The command buffer, if there is one, is written to its end; then _wbuf  *)
(* is drained, and with _wbuf empty the watcher is restarted without       *)
(* EV_WRITE.                                                               *)
doIODrain ==
  /\ At("write") /\ Top.wr
  /\ peerOpen \/ (flushlen = 0 /\ wlen = 0)
  /\ room >= Len(Unsent)
  /\ WriteOut(Len(Unsent))
  /\ flushbuf' = << >>
  /\ \/ /\ wlen > 0
        /\ Drain(room - Len(Unsent))
        /\ metaAt' = IF room' < room - Len(Unsent) THEN metaAt \union {Len(wire')}
                     ELSE metaAt
     \/ /\ wlen = 0
        /\ room' = room - Len(Unsent)
        /\ UNCHANGED <<metaOut, metaAt>>
  /\ \/ /\ wlen' # 0
        /\ UNCHANGED <<evWrite, fault>>
     \/ /\ wlen' = 0 /\ running
        /\ evWrite' = FALSE
        /\ UNCHANGED fault
     \/ (* ev_io_start on a null loop *)
        /\ wlen' = 0 /\ ~running
        /\ evWrite' = FALSE
        /\ fault' = "null_loop"
  /\ Return
  /\ UNCHANGED <<reading, writebuf, running, peer, taken, program>>

(* An error other than EAGAIN while _wbuf is drained stops the connection. *)
(* put bytes are out already when it is the second ::write that fails.     *)
doIODrainError ==
  /\ At("write") /\ Top.wr
  /\ WriteErrors /\ peerOpen
  /\ room >= Len(Unsent) /\ wlen > 0
  /\ WriteOut(Len(Unsent))
  /\ \E put \in {0, WChunk} \ {wlen} :
       /\ put =< room - Len(Unsent)
       /\ room' = room - Len(Unsent) - put
       /\ metaAt' = IF put > 0 THEN metaAt \union {Len(wire')} ELSE metaAt
  /\ flushbuf' = << >>
  /\ writebuf' = DawnCmdHeader(0)
  /\ running' = FALSE
  /\ Return
  /\ UNCHANGED <<reading, metaOut, evWrite, peer, taken, program, fault>>
-----------------------------------------------------------------------------
(* The peer and the socket between the two. *)

End(m) == Len(FlattenSeq(SubSeq(script, 1, m)))
Begin(m) == End(m - 1)

(* The command buffers the peer has read completely. *)
PeerHas(n) == Len(FlattenSeq(SubSeq(flushed, 1, n))) =< Len(wire) - (OutCap - room)

(* In lock step the client asks and the server answers: a message is sent  *)
(* when the answer to the one before it, or the request for it, has come.  *)
ItsTurn(m) ==
  LET needed == IF Server THEN m - 1 ELSE m
  IN needed =< Len(flushed) /\ PeerHas(needed)

(* Where the bytes that have arrived may end.  Without AnyCut that is at   *)
(* the end of a message, or of a "D" header, or, when that header has been *)
(* read, anywhere in its body.                                             *)
CutAllowed(a) ==
  \/ AnyCut
  \/ \E m \in DOMAIN script :
       \/ a = End(m)
       \/ /\ script[m][1] = MSGT_DAWNCMD
          /\ Begin(m) + HDR =< a /\ a < End(m)
          /\ a = Begin(m) + HDR \/ taken >= Begin(m) + HDR

Arrive(n) ==
  /\ fault = "none" /\ peerOpen
  /\ arrived + n =< Len(Stream)
  /\ CutAllowed(arrived + n)
  /\ Lockstep => \A m \in DOMAIN script : Begin(m) < arrived + n => ItsTurn(m)
  /\ arrived' = arrived + n
  /\ UNCHANGED <<script, peerOpen, reading, metaOut, cmdsOut, loop, socket,
                 program, stack, fault>>

PeerRead(n) ==
  /\ fault = "none" /\ peerOpen
  /\ room + n =< OutCap
  /\ room' = room + n
  /\ UNCHANGED <<taken, wire, metaAt, reading, metaOut, cmdsOut, loop, peer,
                 program, stack, fault>>

PeerClose ==
  /\ fault = "none" /\ peerOpen /\ MayClose
  /\ peerOpen' = FALSE
  /\ UNCHANGED <<script, arrived, reading, metaOut, cmdsOut, loop, socket,
                 program, stack, fault>>
-----------------------------------------------------------------------------
doIO == \/ doIORead
        \/ readMsgDone \/ readMsgFbInfo \/ readMsgReservation
        \/ readMsgFrameSignal \/ readMsgDawnCmd \/ readMsgUnexpected
        \/ doIONoWrite \/ doIOWriteClosed \/ doIOFlushMore \/ doIODrain
        \/ doIODrainError
App == \/ \E size \in CmdSizes : GetCmdSpace(size)
       \/ Flush \/ FlushTooEarly
       \/ sendFrameSignal \/ sendFramebufferInfo \/ sendReservation
       \/ ReturnFromApp
Loop == Poll \/ NestedPoll \/ NestedPollStopped
Environment == \/ \E n \in 1..Len(Stream) : Arrive(n)
               \/ \E n \in 1..OutCap : PeerRead(n)
               \/ PeerClose

Next == doIO \/ App \/ Loop \/ Environment

Spec == Init /\ [][Next]_vars

(* One thread runs the loop, the handlers and the program, and never       *)
(* pauses; the peer keeps sending what it has and reading what it gets.    *)
FairSpec == /\ Spec
            /\ WF_vars(doIO \/ App \/ Loop)
            /\ WF_vars(\E n \in 1..Len(Stream) : Arrive(n))
            /\ WF_vars(\E n \in 1..OutCap : PeerRead(n))
-----------------------------------------------------------------------------
Frame == [pc : {"read", "parse", "app", "poll", "return", "write"},
          wr : BOOLEAN, via : {"loop", "main", "readMsg", "doIO"}]

(* The last two come from outside: see Session. *)
Faults == {"none", "assert_flush", "assert_rlen", "terminate", "null_loop",
           "overflow", "sigpipe", "refused", "killed"}

SendTypeOK ==
  /\ running \in BOOLEAN /\ evWrite \in BOOLEAN
  /\ wlen \in 0..WSize-1 /\ wr \in 0..WSize-1
  /\ writebuf \in Seq(Nat) /\ Len(writebuf) >= HDR
  /\ flushbuf \in Seq(Nat) /\ flushoffs \in Nat
  /\ flushbuf # << >> => flushoffs < flushlen
  /\ room \in 0..OutCap /\ wire \in Seq(Nat)
  /\ flushed \in Seq(Seq(Nat)) /\ sentMeta \in 0..MaxMeta

ReceiveTypeOK ==
  /\ rbuf \in Seq(Nat) /\ Len(rbuf) < RSize /\ rw \in 0..RSize-1
  /\ dawnCmdRLen \in 0..MAX
  /\ stack \in Seq(Frame)
  /\ fault \in Faults
  /\ script \in Scripts
  /\ taken \in 0..arrived /\ arrived \in 0..Len(Stream)
  /\ peerOpen \in BOOLEAN /\ delivered \in Seq(Seq(Nat))

(* Type invariant: no operation, in any nesting, leaves the domain of its  *)
(* fields; in particular the offset of _dawnout.flushbuf stays within it.  *)
TypeOK == SendTypeOK /\ ReceiveTypeOK /\ metaAt \subseteq 0..Len(wire)

(* No lost wakeup: as long as the endpoint is connected and bytes wait to  *)
(* be written, in _dawnout.flushbuf or in _wbuf, EV_WRITE is requested,    *)
(* also between the steps of nested handlers, one of which may just have   *)
(* stopped requesting it.                                                  *)
NoLostWakeup == running /\ (flushlen > 0 \/ wlen > 0) => evWrite

(* What is on the wire and what is still to be written are the command     *)
(* buffers handed to Flush, one after the other, whatever the socket       *)
(* accepted at a time and however Flush and doIO were nested.              *)
FramesInOrder ==
  LET all == FlattenSeq(flushed)
  IN IF running THEN wire \o Unsent = all ELSE IsPrefix(wire, all)

(* "if we are flushing Dawn command data, do that before draining _wbuf":  *)
(* the bytes of _wbuf are never written inside a command buffer.           *)
MetaBetweenFrames ==
  \A p \in metaAt : \E k \in 0..Len(flushed) :
    p = Len(FlattenSeq(SubSeq(flushed, 1, k)))

(* Flush calls the loop, the loop doIO, doIO the program, and the program  *)
(* Flush; that does not go on for ever: an activation of doIO that was     *)
(* called from Flush never gets to flush a command buffer itself.          *)
NestsOnce == Len(stack) =< 2

(* doIO takes a read of no bytes for the end of the connection, so there   *)
(* must be space in _rbuf whenever it reads, also in a nested doIO while   *)
(* command buffers wait to be completed.                                   *)
RoomToRead == At("read") => Free > 0

(* No gap: as long as the endpoint stays connected, the bytes waiting in    *)
(* _rbuf are the last ones taken from the socket, none missing between     *)
(* them.  (A readFromFD that fails half way takes bytes and loses them:    *)
(* the connection must not go on after that.)                              *)
NoGapInRbuf == running => rbuf = SubSeq(Stream, taken - Len(rbuf) + 1, taken)

DawnCmds == {m \in DOMAIN script : script[m][1] = MSGT_DAWNCMD}

(* The command buffers the program gets are those the peer sent, whole and *)
(* in order, none left out or handed over twice.                           *)
DeliveredInOrder ==
  /\ Len(delivered) =< Cardinality(DawnCmds)
  /\ \A m \in DawnCmds :
       LET k == Cardinality({j \in DawnCmds : j =< m})
       IN k =< Len(delivered) => delivered[k] = SubSeq(script[m], HDR + 1, Len(script[m]))

(* onDawnBuffer works on memory of _rbuf or on _dawntmp, and dawnCmdRLen   *)
(* is reset only when it returns: until then nothing may be read.          *)
Handling == \E i \in DOMAIN stack : stack[i].pc \in {"app", "poll", "return"}
NoReadWhileHandling == At("read") /\ Got > 0 => ~Handling

(* No assertion fails, no unset callback is called, no loop is used after  *)
(* stop(), nothing is written beyond a buffer: only the peer's leaving can *)
(* end the process.                                                        *)
OnlyThePeerEndsIt == fault \in {"none", "sigpipe"}

(* "return nullptr; // not enough space": the space GetCmdSpace returns is *)
(* inside writebuf.                                                        *)
SpaceIsInBuffer == Len(writebuf) =< BufSize

(* dawnCmdRLen: "reamining nbytes to read as dawn command buffer".  As     *)
(* long as there are any, readMsg does not take them for a message.        *)
RemainingIsCommandData == At("parse") /\ rbuf # << >> => dawnCmdRLen = 0

(* "if (errno == EAGAIN) return;" and trace("EOF"): reading ends a         *)
(* connection only when the peer has closed it.                            *)
EndsAtEOF == running \/ ~peerOpen

(* A command buffer that is being flushed gets out, if the peer keeps      *)
(* reading: "return and wait for more EV_WRITE".                           *)
FlushCompletes == flushlen > 0 ~> flushlen = 0 \/ fault # "none"

(* Every handler returns to the outermost loop: the nesting through Flush  *)
(* ends.                                                                   *)
ReturnsToLoop == stack # << >> ~> stack = << >> \/ fault # "none"

(* A command buffer that has arrived is handed to the program; no other    *)
(* byte has to arrive for it.                                              *)
Arrived == {m \in DawnCmds : End(m) =< arrived}
ArrivedIsDelivered ==
  Len(delivered) < Cardinality(Arrived)
    ~> Len(delivered) >= Cardinality(Arrived) \/ ~running \/ fault # "none"

Channel == INSTANCE FrameChannel WITH accepted <- flushed, pending <- Unsent,
                                      up <- running

(* The sending side implements a channel that accepts a frame when it is   *)
(* done with the one before, and emits every byte once and in order.       *)
ImplementsFrameChannel == Channel!Spec
=============================================================================
