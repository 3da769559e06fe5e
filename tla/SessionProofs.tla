---------------------------- MODULE SessionProofs ----------------------------
(***************************************************************************)
(* Proofs about Session, for buffers and sockets of any size: what one     *)
(* side writes the other reads, in order and with no byte missing; the     *)
(* type invariant of the composition; and delivery in order as long as     *)
(* each side waits for the other.                                          *)
(*                                                                         *)
(* ProtocolProofs has an invariant, SInv, of one endpoint whose peer       *)
(* follows a script.  Here the script is what the other endpoint flushes,  *)
(* and it grows.  Connected says that SInv holds of both all the same.  A  *)
(* step of one endpoint keeps its own SInv because it is a step of         *)
(* Protocol, and is for the other what ProtocolProofs calls Outside: the   *)
(* stream goes on (OutputGrows), more of it arrives, and what is read      *)
(* makes room (TakenGrows).                                                *)
(*                                                                         *)
(* The type invariant also counts the lists of statements of the programs: *)
(* there is one for each activation of doIO in a callback (Stacked).       *)
(*                                                                         *)
(* That each side also delivers in order until the result of the script is *)
(* on its way needs the programs as well: OnTrack says which statement     *)
(* each is at, by the number of command buffers it was given, so that one  *)
(* that flushes finds nothing to read (NothingForServer, NothingForClient) *)
(* as long as the other waits for it.                                      *)
(*                                                                         *)
(* CP and SP are the instances C and S of Session, of FrameProofs in place *)
(* of Protocol.  An instance has definitions of its own: C!doIO and        *)
(* CP!doIO are the same formula, which ClientEndpoint says, and            *)
(* ServerEndpoint of the server's.                                         *)
(***************************************************************************)
EXTENDS Session, SequenceTheorems, FiniteSetTheorems, TLAPS

CP == INSTANCE FrameProofs WITH
  running <- c_running, evWrite <- c_evWrite, rbuf <- c_rbuf, rw <- c_rw,
  dawnCmdRLen <- c_dawnCmdRLen, writebuf <- c_writebuf, flushbuf <- c_flushbuf,
  flushoffs <- c_flushoffs, stack <- c_stack, fault <- c_fault,
  taken <- c_taken, wire <- c_wire, flushed <- c_flushed,
  delivered <- c_delivered,
  script <- s_flushed, arrived <- Len(s_wire), peerOpen <- serverUp,
  room <- OutCap - (Len(c_wire) - s_taken),
  wlen <- 0, wr <- 0, metaAt <- {}, sentMeta <- 0,
  Server <- FALSE, WSize <- 1, FbInfoSize <- 1, ReservationSize <- 1,
  Scripts <- Seq(Seq(Nat)), AnyCut <- FALSE, Lockstep <- FALSE, WriteErrors <- FALSE,
  MayClose <- FALSE, CmdSizes <- {Small, MAX}, AppFits <- TRUE,
  MaxFrames <- Ticks + 4, MaxMeta <- 0

SP == INSTANCE FrameProofs WITH
  running <- s_running, evWrite <- s_evWrite, rbuf <- s_rbuf, rw <- s_rw,
  dawnCmdRLen <- s_dawnCmdRLen, writebuf <- s_writebuf, flushbuf <- s_flushbuf,
  flushoffs <- s_flushoffs, stack <- s_stack, fault <- s_fault,
  taken <- s_taken, wire <- s_wire, flushed <- s_flushed,
  delivered <- s_delivered,
  script <- c_flushed, arrived <- Len(c_wire), peerOpen <- clientUp,
  room <- OutCap - (Len(s_wire) - c_taken),
  wlen <- 0, wr <- 0, metaAt <- {}, sentMeta <- 0,
  Server <- TRUE, WSize <- 1, FbInfoSize <- 1, ReservationSize <- 1,
  Scripts <- Seq(Seq(Nat)), AnyCut <- FALSE, Lockstep <- FALSE, WriteErrors <- FALSE,
  MayClose <- FALSE, CmdSizes <- ReplySizes, AppFits <- TRUE,
  MaxFrames <- 4, MaxMeta <- 0
-----------------------------------------------------------------------------
(* What SessionAssumption says of the sizes is what the endpoints assume.  *)
LEMMA ClientAssumption == CP!ProtocolAssumption
BY SessionAssumption DEF CP!ProtocolAssumption

LEMMA ServerAssumption == SP!ProtocolAssumption
BY SessionAssumption DEF SP!ProtocolAssumption

(* The steps of Session's endpoints are steps the invariants are about.    *)
LEMMA ClientEndpoint ==
  /\ C!doIO => CP!doIO
  /\ C!Loop => CP!Loop
  /\ C!Flush => CP!Flush
  /\ C!FlushTooEarly => CP!FlushTooEarly
  /\ C!ReturnFromApp => CP!ReturnFromApp
  /\ \A size : C!GetCmdSpace(size) => CP!GetCmdSpace(size)
<1> USE DEF
    C!Smaller, C!MSGT_DAWNCMD, C!MSGT_FRAME_SIGNAL, C!MSGT_FB_INFO,
    C!MSGT_RESERVATION, C!BufSize, C!RSize, C!DawnCmdHeader, C!DawnCmd,
    C!flushlen, C!Unsent, C!Stream, C!FlattenSeq, C!Top, C!Goto, C!Return,
    C!At, C!Fail, C!reading, C!metaOut, C!cmdsOut, C!loop, C!peer, C!socket,
    C!program, C!stop, C!setNeedsWriteFlush, C!Readable, C!Writable,
    C!Dispatch, C!Resumed, C!Deliver, C!AssertRLen, C!Complete, C!Free,
    C!Chunk, C!Got, C!ReadFails, C!Filled, C!Discard, C!Parsing, C!Callback,
    C!DonePrevious, C!ResetRLen, C!WriteOut, C!WChunk, C!Drain, CP!Smaller,
    CP!MSGT_DAWNCMD, CP!MSGT_FRAME_SIGNAL, CP!MSGT_FB_INFO,
    CP!MSGT_RESERVATION, CP!BufSize, CP!RSize, CP!DawnCmdHeader, CP!DawnCmd,
    CP!flushlen, CP!Unsent, CP!Stream, CP!FlattenSeq, CP!Top, CP!Goto,
    CP!Return, CP!At, CP!Fail, CP!reading, CP!metaOut, CP!cmdsOut, CP!loop,
    CP!peer, CP!socket, CP!program, CP!stop, CP!setNeedsWriteFlush,
    CP!Readable, CP!Writable, CP!Dispatch, CP!Resumed, CP!Deliver,
    CP!AssertRLen, CP!Complete, CP!Free, CP!Chunk, CP!Got, CP!ReadFails,
    CP!Filled, CP!Discard, CP!Parsing, CP!Callback, CP!DonePrevious,
    CP!ResetRLen, CP!WriteOut, CP!WChunk, CP!Drain
<1>1. C!doIO => CP!doIO
  BY Zenon DEF
    C!doIO, C!doIORead, C!readMsgDone, C!readMsgFbInfo, C!readMsgReservation,
    C!readMsgFrameSignal, C!readMsgDawnCmd, C!readMsgUnexpected,
    C!doIONoWrite, C!doIOWriteClosed, C!doIOFlushMore, C!doIODrain,
    C!doIODrainError, CP!doIO, CP!doIORead, CP!readMsgDone, CP!readMsgFbInfo,
    CP!readMsgReservation, CP!readMsgFrameSignal, CP!readMsgDawnCmd,
    CP!readMsgUnexpected, CP!doIONoWrite, CP!doIOWriteClosed,
    CP!doIOFlushMore, CP!doIODrain, CP!doIODrainError
<1>2. C!Loop => CP!Loop
  BY Zenon DEF
    C!Loop, C!Poll, C!NestedPoll, C!NestedPollStopped, CP!Loop, CP!Poll,
    CP!NestedPoll, CP!NestedPollStopped
<1>3. QED
  BY <1>1, <1>2, Zenon DEF
    C!Flush, C!FlushTooEarly, C!ReturnFromApp, C!GetCmdSpace, CP!Flush,
    CP!FlushTooEarly, CP!ReturnFromApp, CP!GetCmdSpace

LEMMA ServerEndpoint ==
  /\ S!doIO => SP!doIO
  /\ S!Loop => SP!Loop
  /\ S!Flush => SP!Flush
  /\ S!FlushTooEarly => SP!FlushTooEarly
  /\ S!ReturnFromApp => SP!ReturnFromApp
  /\ \A size : S!GetCmdSpace(size) => SP!GetCmdSpace(size)
<1> USE DEF
    S!Smaller, S!MSGT_DAWNCMD, S!MSGT_FRAME_SIGNAL, S!MSGT_FB_INFO,
    S!MSGT_RESERVATION, S!BufSize, S!RSize, S!DawnCmdHeader, S!DawnCmd,
    S!flushlen, S!Unsent, S!Stream, S!FlattenSeq, S!Top, S!Goto, S!Return,
    S!At, S!Fail, S!reading, S!metaOut, S!cmdsOut, S!loop, S!peer, S!socket,
    S!program, S!stop, S!setNeedsWriteFlush, S!Readable, S!Writable,
    S!Dispatch, S!Resumed, S!Deliver, S!AssertRLen, S!Complete, S!Free,
    S!Chunk, S!Got, S!ReadFails, S!Filled, S!Discard, S!Parsing, S!Callback,
    S!DonePrevious, S!ResetRLen, S!WriteOut, S!WChunk, S!Drain, SP!Smaller,
    SP!MSGT_DAWNCMD, SP!MSGT_FRAME_SIGNAL, SP!MSGT_FB_INFO,
    SP!MSGT_RESERVATION, SP!BufSize, SP!RSize, SP!DawnCmdHeader, SP!DawnCmd,
    SP!flushlen, SP!Unsent, SP!Stream, SP!FlattenSeq, SP!Top, SP!Goto,
    SP!Return, SP!At, SP!Fail, SP!reading, SP!metaOut, SP!cmdsOut, SP!loop,
    SP!peer, SP!socket, SP!program, SP!stop, SP!setNeedsWriteFlush,
    SP!Readable, SP!Writable, SP!Dispatch, SP!Resumed, SP!Deliver,
    SP!AssertRLen, SP!Complete, SP!Free, SP!Chunk, SP!Got, SP!ReadFails,
    SP!Filled, SP!Discard, SP!Parsing, SP!Callback, SP!DonePrevious,
    SP!ResetRLen, SP!WriteOut, SP!WChunk, SP!Drain
<1>1. S!doIO => SP!doIO
  BY Zenon DEF
    S!doIO, S!doIORead, S!readMsgDone, S!readMsgFbInfo, S!readMsgReservation,
    S!readMsgFrameSignal, S!readMsgDawnCmd, S!readMsgUnexpected,
    S!doIONoWrite, S!doIOWriteClosed, S!doIOFlushMore, S!doIODrain,
    S!doIODrainError, SP!doIO, SP!doIORead, SP!readMsgDone, SP!readMsgFbInfo,
    SP!readMsgReservation, SP!readMsgFrameSignal, SP!readMsgDawnCmd,
    SP!readMsgUnexpected, SP!doIONoWrite, SP!doIOWriteClosed,
    SP!doIOFlushMore, SP!doIODrain, SP!doIODrainError
<1>2. S!Loop => SP!Loop
  BY Zenon DEF
    S!Loop, S!Poll, S!NestedPoll, S!NestedPollStopped, SP!Loop, SP!Poll,
    SP!NestedPoll, SP!NestedPollStopped
<1>3. QED
  BY <1>1, <1>2, Zenon DEF
    S!Flush, S!FlushTooEarly, S!ReturnFromApp, S!GetCmdSpace, SP!Flush,
    SP!FlushTooEarly, SP!ReturnFromApp, SP!GetCmdSpace
-----------------------------------------------------------------------------
(* Both endpoints keep everything that ProtocolProofs says of one of them. *)
Connected == CP!SInv /\ SP!SInv

(* SequencesExt comes in once with each instance.                          *)
LEMMA SameSequences ==
  /\ \A s : CP!FlattenSeq(s) = FlattenSeq(s) /\ SP!FlattenSeq(s) = FlattenSeq(s)
  /\ \A s, t : CP!IsPrefix(s, t) = IsPrefix(s, t) /\ SP!IsPrefix(s, t) = IsPrefix(s, t)
BY Zenon DEF FlattenSeq, CP!FlattenSeq, SP!FlattenSeq, IsPrefix, CP!IsPrefix, SP!IsPrefix

(* How far either side has come, and what is between them.                 *)
LEMMA Numbers ==
  ASSUME Connected
  PROVE  /\ OutCap \in Nat /\ OutCap > 0
         /\ Len(c_wire) \in Nat /\ s_taken \in Nat /\ s_taken =< Len(c_wire)
         /\ Len(s_wire) \in Nat /\ c_taken \in Nat /\ c_taken =< Len(s_wire)
         /\ OutCap - (Len(c_wire) - s_taken) \in 0..OutCap
         /\ OutCap - (Len(s_wire) - c_taken) \in 0..OutCap
<1>1. c_wire \in Seq(Nat) /\ s_wire \in Seq(Nat)
  BY DEF Connected, CP!SInv, SP!SInv, CP!SendTypeOK, SP!SendTypeOK
<1>2. /\ OutCap - (Len(c_wire) - s_taken) \in 0..OutCap
      /\ OutCap - (Len(s_wire) - c_taken) \in 0..OutCap
  BY DEF Connected, CP!SInv, SP!SInv, CP!SendTypeOK, SP!SendTypeOK
<1>3. s_taken \in 0..Len(c_wire) /\ c_taken \in 0..Len(s_wire)
  BY DEF Connected, CP!SInv, SP!SInv, CP!RInv, SP!RInv, CP!ReceiveTypeOK, SP!ReceiveTypeOK
<1>4. Len(c_wire) \in Nat /\ Len(s_wire) \in Nat
  BY <1>1
<1>5. QED
  BY <1>2, <1>3, <1>4, SessionAssumption

(* A step of the client's endpoint is the peer's doing for the server's.   *)
LEMMA ClientActs ==
  ASSUME Connected, [CP!Next]_(CP!vars), UNCHANGED serverEnd
  PROVE  Connected' /\ SP!Outside /\ SP!Grown(c_flushed, c_flushed')
<1>1. CP!SInv'
  BY CP!SInvStep, ClientAssumption DEF Connected
<1>2. /\ CP!IsPrefix(CP!FlattenSeq(c_flushed), CP!FlattenSeq(c_flushed'))
      /\ Len(c_wire) =< Len(c_wire')
      /\ Len(c_wire') =< Len(CP!FlattenSeq(c_flushed'))
  BY CP!OutputGrows, ClientAssumption DEF Connected
<1>3. c_taken' \in Nat /\ c_taken =< c_taken' /\ c_taken' =< Len(s_wire)
  <2>1. c_taken' \in Nat /\ c_taken =< c_taken' /\ c_taken' =< Len(s_wire')
    BY CP!TakenGrows, ClientAssumption DEF Connected
  <2>2. QED
    BY <2>1 DEF serverEnd
<1>4. /\ c_flushed' \in Seq(Seq(Nat)) /\ Len(c_wire') \in Nat
      /\ Len(CP!FlattenSeq(c_flushed')) \in Nat
  <2>1. (CP!SInv => c_flushed \in Seq(Seq(Nat)) /\ c_wire \in Seq(Nat)
                   /\ CP!FlattenSeq(c_flushed) \in Seq(Nat))'
    BY CP!WireBegins, ClientAssumption, PTL
  <2>2. QED
    BY <1>1, <2>1
<1>5. SP!Outside
  <2>1. SP!FlattenSeq(c_flushed) = CP!FlattenSeq(c_flushed)
        /\ SP!FlattenSeq(c_flushed') = CP!FlattenSeq(c_flushed')
    BY SameSequences
  <2>2. SP!IsPrefix(SP!Stream, SP!Stream')
    BY <1>2, <2>1, SameSequences DEF SP!Stream
  <2>3. Len(c_wire') \in s_taken..Len(SP!Stream')
    <3>1. s_taken \in Nat /\ s_taken =< Len(c_wire) /\ Len(c_wire) \in Nat
      BY Numbers
    <3>2. QED
      BY <1>2, <1>4, <2>1, <3>1 DEF SP!Stream
  <2>4. OutCap - (Len(s_wire) - c_taken') \in 0..OutCap
    <3>1. /\ OutCap \in Nat /\ Len(s_wire) \in Nat /\ c_taken \in Nat
          /\ OutCap - (Len(s_wire) - c_taken) \in 0..OutCap
      BY Numbers
    <3>2. QED
      BY <1>3, <3>1
  <2>5. UNCHANGED SP!Own /\ s_fault' = s_fault /\ s_wire' = s_wire
    BY DEF serverEnd, SP!Own, SP!reading, SP!metaOut, SP!cmdsOut, SP!loop
  <2>6. clientUp' \in BOOLEAN
    BY DEF clientUp
  <2>7. QED
    BY <1>4, <2>2, <2>3, <2>4, <2>5, <2>6 DEF SP!Outside
<1>6. SP!SInv'
  BY <1>5, SP!OutsideStep, ServerAssumption DEF Connected
<1>7. SP!Grown(c_flushed, c_flushed')
  BY CP!OutputGrown, ClientAssumption DEF Connected, CP!Grown, SP!Grown
<1>8. QED
  BY <1>1, <1>5, <1>6, <1>7 DEF Connected

(* And the other way round.                                                *)
LEMMA ServerActs ==
  ASSUME Connected, [SP!Next]_(SP!vars), UNCHANGED clientEnd
  PROVE  Connected' /\ CP!Outside /\ CP!Grown(s_flushed, s_flushed')
<1>1. SP!SInv'
  BY SP!SInvStep, ServerAssumption DEF Connected
<1>2. /\ SP!IsPrefix(SP!FlattenSeq(s_flushed), SP!FlattenSeq(s_flushed'))
      /\ Len(s_wire) =< Len(s_wire')
      /\ Len(s_wire') =< Len(SP!FlattenSeq(s_flushed'))
  BY SP!OutputGrows, ServerAssumption DEF Connected
<1>3. s_taken' \in Nat /\ s_taken =< s_taken' /\ s_taken' =< Len(c_wire)
  <2>1. s_taken' \in Nat /\ s_taken =< s_taken' /\ s_taken' =< Len(c_wire')
    BY SP!TakenGrows, ServerAssumption DEF Connected
  <2>2. QED
    BY <2>1 DEF clientEnd
<1>4. /\ s_flushed' \in Seq(Seq(Nat)) /\ Len(s_wire') \in Nat
      /\ Len(SP!FlattenSeq(s_flushed')) \in Nat
  <2>1. (SP!SInv => s_flushed \in Seq(Seq(Nat)) /\ s_wire \in Seq(Nat)
                   /\ SP!FlattenSeq(s_flushed) \in Seq(Nat))'
    BY SP!WireBegins, ServerAssumption, PTL
  <2>2. QED
    BY <1>1, <2>1
<1>5. CP!Outside
  <2>1. CP!FlattenSeq(s_flushed) = SP!FlattenSeq(s_flushed)
        /\ CP!FlattenSeq(s_flushed') = SP!FlattenSeq(s_flushed')
    BY SameSequences
  <2>2. CP!IsPrefix(CP!Stream, CP!Stream')
    BY <1>2, <2>1, SameSequences DEF CP!Stream
  <2>3. Len(s_wire') \in c_taken..Len(CP!Stream')
    <3>1. c_taken \in Nat /\ c_taken =< Len(s_wire) /\ Len(s_wire) \in Nat
      BY Numbers
    <3>2. QED
      BY <1>2, <1>4, <2>1, <3>1 DEF CP!Stream
  <2>4. OutCap - (Len(c_wire) - s_taken') \in 0..OutCap
    <3>1. /\ OutCap \in Nat /\ Len(c_wire) \in Nat /\ s_taken \in Nat
          /\ OutCap - (Len(c_wire) - s_taken) \in 0..OutCap
      BY Numbers
    <3>2. QED
      BY <1>3, <3>1
  <2>5. UNCHANGED CP!Own /\ c_fault' = c_fault /\ c_wire' = c_wire
    BY DEF clientEnd, CP!Own, CP!reading, CP!metaOut, CP!cmdsOut, CP!loop
  <2>6. serverUp' \in BOOLEAN
    BY DEF serverUp
  <2>7. QED
    BY <1>4, <2>2, <2>3, <2>4, <2>5, <2>6 DEF CP!Outside
<1>6. CP!SInv'
  BY <1>5, CP!OutsideStep, ClientAssumption DEF Connected
<1>7. CP!Grown(s_flushed, s_flushed')
  BY SP!OutputGrown, ServerAssumption DEF Connected, SP!Grown, CP!Grown
<1>8. QED
  BY <1>1, <1>5, <1>6, <1>7 DEF Connected

(* A process is ended, or a program goes on, and no endpoint takes part.   *)
clientKeeps == <<c_running, c_evWrite, c_rbuf, c_rw, c_dawnCmdRLen, c_writebuf,
                 c_flushbuf, c_flushoffs, c_stack, c_taken, c_wire, c_flushed,
                 c_delivered>>
serverKeeps == <<s_running, s_evWrite, s_rbuf, s_rw, s_dawnCmdRLen, s_writebuf,
                 s_flushbuf, s_flushoffs, s_stack, s_taken, s_wire, s_flushed,
                 s_delivered>>

LEMMA NobodyActs ==
  ASSUME Connected, UNCHANGED <<clientKeeps, serverKeeps>>,
         c_fault' \in {c_fault, "refused"}, s_fault' \in {s_fault, "killed"}
  PROVE  /\ Connected' /\ CP!Outside /\ SP!Outside
         /\ CP!Grown(s_flushed, s_flushed') /\ SP!Grown(c_flushed, c_flushed')
<1>1. \A s \in Seq(Nat) : IsPrefix(s, s)
  BY DEF IsPrefix
<1>2. /\ c_flushed \in Seq(Seq(Nat)) /\ FlattenSeq(c_flushed) \in Seq(Nat)
      /\ s_flushed \in Seq(Seq(Nat)) /\ FlattenSeq(s_flushed) \in Seq(Nat)
      /\ Len(c_wire) =< Len(FlattenSeq(c_flushed))
      /\ Len(s_wire) =< Len(FlattenSeq(s_flushed))
  BY CP!WireBegins, SP!WireBegins, ClientAssumption, ServerAssumption, SameSequences
  DEF Connected, IsPrefix
<1>3. SP!Outside
  <2>1. SP!IsPrefix(SP!Stream, SP!Stream')
    BY <1>1, <1>2, SameSequences DEF SP!Stream, clientKeeps
  <2>2. Len(c_wire') \in s_taken..Len(SP!Stream')
    <3>1. Len(FlattenSeq(c_flushed)) \in Nat
      BY <1>2
    <3>2. Len(c_wire) \in s_taken..Len(FlattenSeq(c_flushed))
      BY <1>2, <3>1, Numbers
    <3>3. QED
      BY <3>2, SameSequences DEF SP!Stream, clientKeeps
  <2>3. UNCHANGED SP!Own /\ s_fault' \in {s_fault, "refused", "killed"}
    BY DEF serverKeeps, SP!Own, SP!reading, SP!metaOut, SP!cmdsOut, SP!loop
  <2>4. clientUp' \in BOOLEAN /\ c_flushed' \in Seq(Seq(Nat))
    BY <1>2 DEF clientUp, clientKeeps
  <2>5. OutCap - (Len(s_wire') - c_taken') \in 0..OutCap
    BY Numbers DEF clientKeeps, serverKeeps
  <2>6. QED
    BY <2>1, <2>2, <2>3, <2>4, <2>5 DEF SP!Outside
<1>4. CP!Outside
  <2>1. CP!IsPrefix(CP!Stream, CP!Stream')
    BY <1>1, <1>2, SameSequences DEF CP!Stream, serverKeeps
  <2>2. Len(s_wire') \in c_taken..Len(CP!Stream')
    <3>1. Len(FlattenSeq(s_flushed)) \in Nat
      BY <1>2
    <3>2. Len(s_wire) \in c_taken..Len(FlattenSeq(s_flushed))
      BY <1>2, <3>1, Numbers
    <3>3. QED
      BY <3>2, SameSequences DEF CP!Stream, serverKeeps
  <2>3. UNCHANGED CP!Own /\ c_fault' \in {c_fault, "refused", "killed"}
    BY DEF clientKeeps, CP!Own, CP!reading, CP!metaOut, CP!cmdsOut, CP!loop
  <2>4. serverUp' \in BOOLEAN /\ s_flushed' \in Seq(Seq(Nat))
    BY <1>2 DEF serverUp, serverKeeps
  <2>5. OutCap - (Len(c_wire') - s_taken') \in 0..OutCap
    BY Numbers DEF clientKeeps, serverKeeps
  <2>6. QED
    BY <2>1, <2>2, <2>3, <2>4, <2>5 DEF CP!Outside
<1>5. CP!SInv'
  BY <1>4, CP!OutsideStep, ClientAssumption DEF Connected
<1>6. SP!SInv'
  BY <1>3, SP!OutsideStep, ServerAssumption DEF Connected
<1>7. CP!Grown(s_flushed, s_flushed') /\ SP!Grown(c_flushed, c_flushed')
  <2>1. Len(c_flushed) \in Nat /\ Len(s_flushed) \in Nat
    BY <1>2
  <2>2. QED
    BY <2>1 DEF clientKeeps, serverKeeps, CP!Grown, SP!Grown
<1>8. QED
  BY <1>3, <1>4, <1>5, <1>6, <1>7 DEF Connected
-----------------------------------------------------------------------------
LEMMA EndpointsInit == Init => CP!Init /\ SP!Init
<1> SUFFICES ASSUME Init PROVE CP!Init /\ SP!Init
  OBVIOUS
<1>1. << >> \in Seq(Seq(Nat)) /\ Len(<< >>) = 0 /\ OutCap - (0 - 0) = OutCap
  BY SessionAssumption
<1>2. CP!Init
  BY <1>1, Zenon DEF Init, CP!Init, serverUp, C!DawnCmdHeader, CP!DawnCmdHeader,
     C!MSGT_DAWNCMD, CP!MSGT_DAWNCMD
<1>3. SP!Init
  BY <1>1, Zenon DEF Init, SP!Init, clientUp, S!DawnCmdHeader, SP!DawnCmdHeader,
     S!MSGT_DAWNCMD, SP!MSGT_DAWNCMD
<1>4. QED
  BY <1>2, <1>3

LEMMA ConnectedInit == Init => Connected
BY EndpointsInit, CP!SInvInit, SP!SInvInit, ClientAssumption, ServerAssumption DEF Connected

LEMMA ConnectedStep == Connected /\ [Next]_vars => Connected'
<1> SUFFICES ASSUME Connected, [Next]_vars PROVE Connected'
  OBVIOUS
<1>1. ASSUME CP!doIO \/ CP!Loop \/ CP!App, UNCHANGED serverEnd PROVE Connected'
  <2>1. CP!Next
    BY <1>1 DEF CP!Next
  <2>2. QED
    BY <1>1, <2>1, ClientActs
<1>2. ASSUME SP!doIO \/ SP!Loop \/ SP!App, UNCHANGED clientEnd PROVE Connected'
  <2>1. SP!Next
    BY <1>2 DEF SP!Next
  <2>2. QED
    BY <1>2, <2>1, ServerActs
<1>3. ASSUME UNCHANGED clientEnd, UNCHANGED serverEnd PROVE Connected'
  BY <1>3, NobodyActs DEF clientEnd, serverEnd, clientKeeps, serverKeeps
<1>4. CASE ClientLoop
  BY <1>1, <1>4, ClientEndpoint DEF ClientLoop, serverSide
<1>5. ASSUME NEW command, ClientCommand(command) PROVE Connected'
  <2>1. PICK size \in {Small, MAX} : C!GetCmdSpace(size)
    BY <1>5 DEF ClientCommand
  <2>2. CP!App
    BY <2>1, ClientEndpoint DEF CP!App
  <2>3. QED
    BY <1>1, <1>5, <2>2 DEF ClientCommand, serverSide
<1>6. CASE ClientFlush \/ ClientReturns
  BY <1>1, <1>6, ClientEndpoint DEF ClientFlush, ClientReturns, serverSide, CP!App
<1>7. ASSUME NEW answer, NEW call, NEW body, ClientCallback(answer, call, body)
      PROVE  Connected'
  <2>1. UNCHANGED serverEnd
    BY <1>7 DEF ClientCallback, serverSide
  <2>2. CASE UNCHANGED clientEnd
    BY <1>3, <2>1, <2>2
  <2>3. CASE C!Fail("refused")
    BY <2>1, <2>3, NobodyActs
    DEF C!Fail, C!reading, C!cmdsOut, C!loop, C!socket, C!program, serverEnd,
        clientKeeps, serverKeeps
  <2>4. QED
    BY <1>7, <2>2, <2>3 DEF ClientCallback
<1>8. CASE ClientExits
  BY <1>3, <1>8 DEF ClientExits, serverSide
<1>9. CASE ServerLoop
  BY <1>2, <1>9, ServerEndpoint DEF ServerLoop, clientSide
<1>10. ASSUME NEW call, ServerReply(call) PROVE Connected'
  <2>1. SP!App
    BY <1>10, ServerEndpoint DEF ServerReply, SP!App
  <2>2. QED
    BY <1>2, <1>10, <2>1 DEF ServerReply, clientSide
<1>11. CASE ServerFlush \/ ServerReturns
  BY <1>2, <1>11, ServerEndpoint DEF ServerFlush, ServerReturns, clientSide, SP!App
<1>12. CASE ServerDies
  BY <1>12, NobodyActs DEF ServerDies, clientSide, clientEnd, clientKeeps, serverKeeps
<1>13. CASE UNCHANGED vars
  BY <1>3, <1>13 DEF vars, clientSide, serverSide
<1>14. QED
  BY <1>4, <1>5, <1>6, <1>7, <1>8, <1>9, <1>10, <1>11, <1>12, <1>13
  DEF Next, Client, Server

LEMMA ConnectedInv == Spec => []Connected
BY ConnectedInit, ConnectedStep, PTL DEF Spec
-----------------------------------------------------------------------------
(* Between the two programs no byte is lost, doubled or out of order, for  *)
(* buffers of any size, whatever a program asks for and wherever it stops: *)
(* what one side has waiting in _rbuf is the part of what the other wrote  *)
(* that was read last, what was written is the command buffers that were   *)
(* flushed, and the kernel never holds more than it has room for.          *)
THEOREM BytesThrough == Spec => []BytesGoThrough
<1>1. ASSUME Connected PROVE BytesGoThrough
  <2>1. C!FramesInOrder
    BY <1>1, Zenon
    DEF Connected, CP!SInv, C!FramesInOrder, CP!FramesInOrder, C!Unsent, CP!Unsent,
        C!flushlen, CP!flushlen, C!FlattenSeq, CP!FlattenSeq, C!IsPrefix, CP!IsPrefix
  <2>2. S!FramesInOrder
    BY <1>1, Zenon
    DEF Connected, SP!SInv, S!FramesInOrder, SP!FramesInOrder, S!Unsent, SP!Unsent,
        S!flushlen, SP!flushlen, S!FlattenSeq, SP!FlattenSeq, S!IsPrefix, SP!IsPrefix
  <2>3. ToServer \in 0..OutCap /\ ToClient \in 0..OutCap
    BY <1>1, Numbers DEF ToServer, ToClient
  <2>4. s_running => s_rbuf = SubSeq(c_wire, s_taken - Len(s_rbuf) + 1, s_taken)
    <3> SUFFICES ASSUME s_running
                 PROVE  s_rbuf = SubSeq(c_wire, s_taken - Len(s_rbuf) + 1, s_taken)
      OBVIOUS
    <3>1. c_wire \in Seq(Nat) /\ FlattenSeq(c_flushed) \in Seq(Nat)
          /\ IsPrefix(c_wire, FlattenSeq(c_flushed))
      BY <1>1, CP!WireBegins, ClientAssumption, SameSequences DEF Connected
    <3>2. CP!EndsAt(s_rbuf, FlattenSeq(c_flushed), s_taken)
      BY <1>1, SameSequences
      DEF Connected, SP!SInv, SP!RInv, SP!Window, SP!EndsAt, CP!EndsAt, SP!Stream
    <3>3. s_taken \in 0..Len(c_wire) /\ CP!IsPrefix(c_wire, FlattenSeq(c_flushed))
      BY <1>1, <3>1, Numbers, SameSequences
    <3>4. QED
      BY <3>1, <3>2, <3>3, CP!PartOfWritten, ClientAssumption
  <2>5. c_running => c_rbuf = SubSeq(s_wire, c_taken - Len(c_rbuf) + 1, c_taken)
    <3> SUFFICES ASSUME c_running
                 PROVE  c_rbuf = SubSeq(s_wire, c_taken - Len(c_rbuf) + 1, c_taken)
      OBVIOUS
    <3>1. s_wire \in Seq(Nat) /\ FlattenSeq(s_flushed) \in Seq(Nat)
          /\ IsPrefix(s_wire, FlattenSeq(s_flushed))
      BY <1>1, SP!WireBegins, ServerAssumption, SameSequences DEF Connected
    <3>2. CP!EndsAt(c_rbuf, FlattenSeq(s_flushed), c_taken)
      BY <1>1, SameSequences
      DEF Connected, CP!SInv, CP!RInv, CP!Window, CP!EndsAt, CP!Stream
    <3>3. c_taken \in 0..Len(s_wire) /\ CP!IsPrefix(s_wire, FlattenSeq(s_flushed))
      BY <1>1, <3>1, Numbers, SameSequences
    <3>4. QED
      BY <3>1, <3>2, <3>3, CP!PartOfWritten, ClientAssumption
  <2>6. QED
    BY <2>1, <2>2, <2>3, <2>4, <2>5 DEF BytesGoThrough
<1>2. QED
  BY <1>1, ConnectedInv, PTL
-----------------------------------------------------------------------------
(* The programs. *)

(* The activations that are the program's are counted by Depth.            *)
LEMMA CountInProgram ==
  ASSUME NEW st, CP!Frames(st)
  PROVE  Cardinality(InProgram(st)) = CP!Depth(st)
<1>1. PICK n \in Nat : n = Len(st) /\ DOMAIN st = 1..n /\ (st # << >> => n > 0 /\ Head(st) = st[1])
  BY DEF CP!Frames
<1>2. \A i \in 2..n : st[i].pc \in {"app", "poll", "return"}
  BY <1>1 DEF CP!Frames
<1>3. /\ 1 \in Int /\ 2 \in Int /\ n \in Int
      /\ \A i \in 1..n : i = 1 \/ i \in 2..n
  OBVIOUS
<1>4. /\ Cardinality(1..n) = IF 1 > n THEN 0 ELSE n - 1 + 1
      /\ Cardinality(2..n) = IF 2 > n THEN 0 ELSE n - 2 + 1
  BY <1>3, FS_Interval
<1>5. CASE st # << >> /\ Head(st).pc \notin {"app", "poll", "return"}
  <2>1. n > 0 /\ st[1].pc \notin {"app", "poll", "return"}
    BY <1>1, <1>5
  <2>2. InProgram(st) = 2..n
    BY <1>1, <1>2, <1>3, <2>1 DEF InProgram
  <2>3. CP!Depth(st) = n - 1
    BY <1>1, <1>5 DEF CP!Depth, CP!InProgramAt
  <2>4. Cardinality(2..n) = n - 1
    BY <1>4, <2>1
  <2>5. QED
    BY <2>2, <2>3, <2>4
<1>6. CASE ~(st # << >> /\ Head(st).pc \notin {"app", "poll", "return"})
  <2>1. n > 0 => st[1].pc \in {"app", "poll", "return"}
    <3>1. n > 0 => st # << >>
      BY <1>1
    <3>2. QED
      BY <1>1, <1>6, <3>1
  <2>2. InProgram(st) = 1..n
    BY <1>1, <1>2, <1>3, <2>1 DEF InProgram
  <2>3. CP!Depth(st) = n
    BY <1>1, <1>6 DEF CP!Depth, CP!InProgramAt
  <2>4. Cardinality(1..n) = n
    BY <1>4
  <2>5. QED
    BY <2>2, <2>3, <2>4
<1>7. QED
  BY <1>5, <1>6

(* What is left to execute: a sequence of whatever.                        *)
IsCode(code) == \E X : code \in Seq(X)

LEMMA CodeSteps ==
  ASSUME NEW code, IsCode(code), NEW y
  PROVE  /\ IsCode(<<y>> \o code) /\ Len(<<y>> \o code) = Len(code) + 1
         /\ code # << >> => /\ IsCode(Tail(code)) /\ Len(Tail(code)) = Len(code) - 1
                            /\ IsCode(<<y>> \o Tail(code))
                            /\ Len(<<y>> \o Tail(code)) = Len(code)
<1>1. PICK X : code \in Seq(X) /\ y \in X
  <2>1. PICK Z : code \in Seq(Z)
    BY DEF IsCode
  <2>2. code \in Seq(Z \union {y}) /\ y \in Z \union {y}
    BY <2>1
  <2>3. QED
    BY <2>2
<1>2. <<y>> \in Seq(X) /\ Len(<<y>>) = 1 /\ Len(code) \in Nat
  BY <1>1
<1>3. ASSUME NEW rest \in Seq(X)
      PROVE  <<y>> \o rest \in Seq(X) /\ Len(<<y>> \o rest) = 1 + Len(rest) /\ Len(rest) \in Nat
  BY <1>2, ConcatProperties
<1>4. code # << >> => Tail(code) \in Seq(X) /\ Len(Tail(code)) = Len(code) - 1
  BY <1>1, HeadTailProperties
<1>5. QED
  BY <1>1, <1>2, <1>3, <1>4 DEF IsCode

Stacked ==
  /\ IsCode(c_code) /\ Len(c_code) = CP!Depth(c_stack)
  /\ IsCode(s_code) /\ Len(s_code) = SP!Depth(s_stack)

LEMMA ExecutedCode ==
  ASSUME NEW code, IsCode(code), Statement(code) # "none"
  PROVE  IsCode(Executed(code)) /\ Len(Executed(code)) = Len(code)
<1>1. code # << >>
  BY DEF Statement
<1>2. QED
  BY <1>1, CodeSteps DEF Executed

(* A step of the client's program or endpoint.                             *)
LEMMA ClientStacked ==
  ASSUME Connected, Stacked, Client
  PROVE  IsCode(c_code') /\ Len(c_code') = CP!Depth(c_stack')
<1>1. CASE ClientLoop
  <2>1. IF c_delivered' = c_delivered THEN CP!Depth(c_stack') = CP!Depth(c_stack)
        ELSE CP!Depth(c_stack') = CP!Depth(c_stack) + 1
    BY <1>1, ClientEndpoint, CP!LoopDepth, ClientAssumption DEF ClientLoop, Connected
  <2>2. QED
    BY <1>1, <2>1, CodeSteps DEF ClientLoop, Stacked
<1>2. ASSUME NEW command \in {"adapter", "device", "compute", "Tick", "Unmap"},
             ClientCommand(command)
      PROVE  IsCode(c_code') /\ Len(c_code') = CP!Depth(c_stack')
  <2>1. PICK size : CP!GetCmdSpace(size)
    BY <1>2, ClientEndpoint DEF ClientCommand
  <2>2. CP!Depth(c_stack') = CP!Depth(c_stack)
    BY <2>1, CP!AppDepth, ClientAssumption DEF Connected
  <2>3. QED
    BY <1>2, <2>2, ExecutedCode DEF ClientCommand, Stacked
<1>3. CASE ClientFlush
  <2>1. CP!Depth(c_stack') = CP!Depth(c_stack)
    BY <1>3, ClientEndpoint, CP!AppDepth, ClientAssumption DEF ClientFlush, Connected
  <2>2. QED
    BY <1>3, <2>1, ExecutedCode DEF ClientFlush, Stacked
<1>4. ASSUME NEW answer \in {"onAdapter", "onDevice", "onMap"}, NEW call, NEW body,
             ClientCallback(answer, call, body)
      PROVE  IsCode(c_code') /\ Len(c_code') = CP!Depth(c_stack')
  <2>1. c_code # << >>
    BY <1>4 DEF ClientCallback, Statement
  <2>2. c_stack' = c_stack
    BY <1>4 DEF ClientCallback, clientEnd, C!Fail
  <2>3. PICK y : c_code' = <<y>> \o Tail(c_code)
    BY <1>4 DEF ClientCallback
  <2>4. QED
    BY <2>1, <2>2, <2>3, CodeSteps DEF Stacked
<1>5. CASE ClientReturns
  <2>1. CP!Depth(c_stack') = CP!Depth(c_stack) - 1
    BY <1>5, ClientEndpoint, CP!ReturnsDepth, ClientAssumption DEF ClientReturns, Connected
  <2>2. QED
    BY <1>5, <2>1, CodeSteps DEF ClientReturns, Stacked
<1>6. CASE ClientExits
  BY <1>6 DEF ClientExits, Stacked, clientEnd
<1>7. QED
  BY <1>1, <1>2, <1>3, <1>4, <1>5, <1>6 DEF Client

(* And one of the server's.                                                *)
LEMMA ServerStacked ==
  ASSUME Connected, Stacked, Server
  PROVE  IsCode(s_code') /\ Len(s_code') = SP!Depth(s_stack')
<1>1. CASE ServerLoop
  <2>1. IF s_delivered' = s_delivered THEN SP!Depth(s_stack') = SP!Depth(s_stack)
        ELSE SP!Depth(s_stack') = SP!Depth(s_stack) + 1
    BY <1>1, ServerEndpoint, SP!LoopDepth, ServerAssumption DEF ServerLoop, Connected
  <2>2. CASE s_delivered' = s_delivered /\ UNCHANGED s_code
    BY <2>1, <2>2 DEF Stacked
  <2>3. ASSUME s_delivered' # s_delivered, NEW y, s_code' = <<y>> \o s_code
        PROVE  IsCode(s_code') /\ Len(s_code') = SP!Depth(s_stack')
    BY <2>1, <2>3, CodeSteps DEF Stacked
  <2>4. QED
    BY <1>1, <2>2, <2>3 DEF ServerLoop
<1>2. ASSUME NEW call \in Call, ServerReply(call)
      PROVE  IsCode(s_code') /\ Len(s_code') = SP!Depth(s_stack')
  <2>1. PICK size : SP!GetCmdSpace(size)
    BY <1>2, ServerEndpoint DEF ServerReply
  <2>2. SP!Depth(s_stack') = SP!Depth(s_stack)
    BY <2>1, SP!AppDepth, ServerAssumption DEF Connected
  <2>3. QED
    BY <1>2, <2>2, ExecutedCode DEF ServerReply, Stacked, Call
<1>3. CASE ServerFlush
  <2>1. SP!Depth(s_stack') = SP!Depth(s_stack)
    BY <1>3, ServerEndpoint, SP!AppDepth, ServerAssumption DEF ServerFlush, Connected
  <2>2. QED
    BY <1>3, <2>1, ExecutedCode DEF ServerFlush, Stacked
<1>4. CASE ServerReturns
  <2>1. SP!Depth(s_stack') = SP!Depth(s_stack) - 1
    BY <1>4, ServerEndpoint, SP!ReturnsDepth, ServerAssumption DEF ServerReturns, Connected
  <2>2. QED
    BY <1>4, <2>1, CodeSteps DEF ServerReturns, Stacked
<1>5. QED
  BY <1>1, <1>2, <1>3, <1>4 DEF Server

LEMMA StackedStep == Connected /\ Stacked /\ [Next]_vars => Stacked'
<1> SUFFICES ASSUME Connected, Stacked, [Next]_vars PROVE Stacked'
  OBVIOUS
<1>1. CASE Client
  <2>1. UNCHANGED <<s_code, s_stack>>
    BY <1>1
    DEF Client, ClientLoop, ClientCommand, ClientFlush, ClientCallback, ClientReturns,
        ClientExits, serverSide, serverEnd
  <2>2. QED
    BY <1>1, <2>1, ClientStacked DEF Stacked
<1>2. CASE Server
  <2>1. UNCHANGED <<c_code, c_stack>>
    BY <1>2
    DEF Server, ServerLoop, ServerReply, ServerFlush, ServerReturns, clientSide, clientEnd
  <2>2. QED
    BY <1>2, <2>1, ServerStacked DEF Stacked
<1>3. CASE ServerDies \/ UNCHANGED vars
  <2>1. UNCHANGED <<c_code, c_stack, s_code, s_stack>>
    BY <1>3 DEF ServerDies, vars, clientSide, clientEnd, serverSide, serverEnd
  <2>2. QED
    BY <2>1 DEF Stacked
<1>4. QED
  BY <1>1, <1>2, <1>3 DEF Next

(* The calls are calls.                                                    *)
Recorded ==
  /\ c_exited \in BOOLEAN /\ gpu \in {"idle", "busy", "done"}
  /\ asked \in Seq(Call) /\ performed \in Seq(Call) /\ answered \in Seq(Call)

LEMMA RecordedStep == Recorded /\ [Next]_vars => Recorded'
<1> SUFFICES ASSUME Recorded, [Next]_vars PROVE Recorded'
  OBVIOUS
<1>1. ASSUME NEW calls \in Seq(Call), NEW call \in Call
      PROVE  Append(calls, call) \in Seq(Call)
  OBVIOUS
<1>2. CASE UNCHANGED <<c_exited, gpu, asked, performed, answered>>
  BY <1>2 DEF Recorded
<1>3. ASSUME NEW command, ClientCommand(command) PROVE Recorded'
  <2>1. UNCHANGED <<c_exited, gpu, performed, answered>>
    BY <1>3 DEF ClientCommand, serverSide
  <2>2. asked' \in Seq(Call)
    BY <1>1, <1>3 DEF ClientCommand, Recorded
  <2>3. QED
    BY <2>1, <2>2 DEF Recorded
<1>4. ASSUME NEW answer, NEW call \in Call, NEW body, ClientCallback(answer, call, body)
      PROVE  Recorded'
  <2>1. UNCHANGED <<c_exited, gpu, asked, performed>> /\ answered' = Append(answered, call)
    BY <1>4 DEF ClientCallback, serverSide
  <2>2. QED
    BY <1>1, <2>1 DEF Recorded
<1>5. CASE ClientExits
  BY <1>5 DEF ClientExits, serverSide, Recorded
<1>6. CASE ServerLoop
  <2>1. UNCHANGED <<c_exited, asked, performed, answered>>
    BY <1>6 DEF ServerLoop, clientSide
  <2>2. gpu' \in {gpu, "busy"}
    BY <1>6 DEF ServerLoop
  <2>3. QED
    BY <2>1, <2>2 DEF Recorded
<1>7. ASSUME NEW call \in Call, ServerReply(call) PROVE Recorded'
  <2>1. UNCHANGED <<c_exited, asked, answered>> /\ performed' = Append(performed, call)
    BY <1>7 DEF ServerReply, clientSide
  <2>2. gpu' \in {gpu, "done"}
    BY <1>7 DEF ServerReply
  <2>3. QED
    BY <1>1, <2>1, <2>2 DEF Recorded
<1>8. {"adapter", "device", "map"} \subseteq Call
  BY DEF Call
<1>9. CASE Client
  BY <1>2, <1>3, <1>4, <1>5, <1>8, <1>9
  DEF Client, ClientLoop, ClientFlush, ClientReturns, serverSide
<1>10. CASE Server
  BY <1>2, <1>6, <1>7, <1>10 DEF Server, ServerFlush, ServerReturns, clientSide
<1>11. QED
  BY <1>2, <1>9, <1>10 DEF Next, ServerDies, vars, clientSide, serverSide

LEMMA CodeInit == Init => Stacked /\ Recorded
<1> SUFFICES ASSUME Init PROVE Stacked /\ Recorded
  OBVIOUS
<1>1. c_stack = <<[pc |-> "app", wr |-> FALSE, via |-> "main"]>> /\ s_stack = << >>
  BY DEF Init
<1>2. CP!Depth(c_stack) = 1 /\ SP!Depth(s_stack) = 0
  <2>1. PICK f : f.pc = "app" /\ c_stack = <<f>>
    BY <1>1
  <2>2. <<f>> # << >> /\ Head(<<f>>) = f /\ Len(<<f>>) = 1
    OBVIOUS
  <2>3. CP!Depth(<<f>>) = 1
    BY <2>1, <2>2 DEF CP!Depth, CP!InProgramAt
  <2>4. QED
    BY <1>1, <2>1, <2>3 DEF SP!Depth
<1>3. PICK code : code = requestAdapter /\ c_code = <<code>> /\ s_code = << >>
  BY DEF Init
<1>4. IsCode(c_code) /\ IsCode(s_code) /\ Len(c_code) = 1 /\ Len(s_code) = 0
  <2>1. <<code>> \in Seq({code}) /\ Len(<<code>>) = 1
    OBVIOUS
  <2>2. << >> \in Seq({}) /\ Len(<< >>) = 0
    OBVIOUS
  <2>3. QED
    BY <1>3, <2>1, <2>2 DEF IsCode
<1>5. Recorded
  <2>1. << >> \in Seq(Call)
    BY EmptySeq
  <2>2. /\ c_exited = FALSE /\ gpu = "idle"
        /\ asked = << >> /\ performed = << >> /\ answered = << >>
    BY DEF Init
  <2>3. QED
    BY <2>1, <2>2 DEF Recorded
<1>6. QED
  BY <1>2, <1>4, <1>5 DEF Stacked

LEMMA CodeInv == Spec => [](Stacked /\ Recorded)
BY CodeInit, StackedStep, RecordedStep, ConnectedInv, PTL DEF Spec

(* The statements left to execute belong, one for one, to the activations  *)
(* of the program that are on the C++ stack, in both processes, however    *)
(* callbacks and Flush are nested.                                         *)
THEOREM TypeCorrect == Spec => []TypeOK
<1>1. Connected /\ Stacked /\ Recorded => TypeOK
  <2> SUFFICES ASSUME Connected, Stacked, Recorded PROVE TypeOK
    OBVIOUS
  <2>1. CP!Frames(c_stack) /\ CP!Frames(s_stack)
    BY DEF Connected, CP!SInv, SP!SInv, CP!RInv, SP!RInv, CP!Frames, SP!Frames,
           CP!Frame, SP!Frame
  <2>2. CP!Depth(s_stack) = SP!Depth(s_stack)
    BY DEF CP!Depth, SP!Depth, CP!InProgramAt, SP!InProgramAt
  <2>3. QED
    BY <2>1, <2>2, CountInProgram DEF Stacked, Recorded, TypeOK
<1>2. QED
  BY <1>1, ConnectedInv, CodeInv, PTL
-----------------------------------------------------------------------------
(* How far the two programs have come.                                     *)
(*                                                                         *)
(* The client has been given d command buffers and has made q calls: the   *)
(* next callback is to come, or has begun; or what came before it is gone  *)
(* on with; or it has been given the last answer.                          *)
Answering(d, code) ==
  \/ d = 1 /\ code = <<<<"onAdapter">>>>
  \/ d = 2 /\ code = <<<<"onDevice">>>>
  \/ d = 3 /\ code = <<<<"onMap">>>>
Asking(d, code) ==
  \/ d = 0 /\ code = <<requestAdapter>>
  \/ d = 1 /\ code = <<onAdapterRequestEnded>>
  \/ d = 2 /\ code = <<onDevice>>
Waiting(d, code) ==
  \/ code = << >>
  \/ \E rest \in Seq({"Flush", "Tick"}) :
       code = <<rest>> /\ (d < 2 => rest \in Seq({"Flush"}))
ClientAt(d, q, code, fault) ==
  \/ q = d /\ Answering(d, code)
  \/ q = d /\ Asking(d, code)
  \/ d \in 0..2 /\ q = d + 1 /\ Waiting(d, code)
  \/ d \in 1..2 /\ q = d /\ fault = "refused"
  \/ d = 3 /\ q = 3 /\ code \in {<< >>, <<onMapAsync>>, <<<< >>>>}

(* The server has been given d and has performed p calls: it is about to   *)
(* reply, or has nothing to do but flush.                                  *)
ServerAt(d, p, code, device) ==
  /\ \/ d = 1 /\ p = 0 /\ code = <<<<"adapter", "Flush">>>>
     \/ d = 2 /\ p = 1 /\ code = <<<<"device", "Flush">>>>
     \/ d > 3 /\ p = 2 /\ code = <<<<"map", "Flush">>>>
     \/ /\ code \in {<< >>, <<<<"Flush">>>>, <<<< >>>>}
        /\ \/ d \in 0..2 /\ p = d
           \/ d = 3 /\ p = 2
           \/ d > 3 /\ p \in {2, 3}
  /\ device = IF d < 3 THEN "idle" ELSE IF p = 3 THEN "done" ELSE "busy"

LEMMA ClientCounts ==
  ASSUME NEW d \in Nat, NEW q \in Nat, NEW code, NEW fault, ClientAt(d, q, code, fault)
  PROVE  d =< 3 /\ q =< d + 1
BY DEF ClientAt, Answering, Asking

LEMMA ServerCounts ==
  ASSUME NEW d \in Nat, NEW p \in Nat, NEW code, NEW device, ServerAt(d, p, code, device)
  PROVE  p =< 3 /\ p =< d /\ (device = "done" <=> p = 3)
BY DEF ServerAt

LEMMA Single ==
  ASSUME NEW x
  PROVE  /\ <<x>> # << >> /\ Head(<<x>>) = x /\ Tail(<<x>>) = << >>
         /\ <<x>> \o << >> = <<x>>
<1>1. <<x>> \in Seq({x}) /\ << >> \in Seq({x})
  OBVIOUS
<1>2. <<x>> \o << >> = <<x>>
  BY <1>1
<1>3. QED
  BY <1>1, <1>2

LEMMA Pair ==
  ASSUME NEW x, NEW y
  PROVE  <<x, y>> # << >> /\ Head(<<x, y>>) = x /\ Tail(<<x, y>>) = <<y>>
<1>1. <<x, y>> \in Seq({x, y}) /\ <<y>> \in Seq({x, y}) /\ Len(<<x, y>>) = 2 /\ Len(<<y>>) = 1
  OBVIOUS
<1>2. PICK rest \in Seq({x, y}) : rest = Tail(<<x, y>>)
  BY <1>1, HeadTailProperties
<1>3. Len(rest) = 1 /\ rest[1] = <<x, y>>[2]
  BY <1>1, <1>2, HeadTailProperties
<1>4. rest[1] = y
  BY <1>3
<1>5. rest = <<y>>
  BY <1>1, <1>3, <1>4, SeqEqual
<1>6. QED
  BY <1>1, <1>2, <1>5

(* One statement of the only activation. *)
LEMMA OneActivation ==
  ASSUME NEW code
  PROVE  /\ Statement(<<code>>) = IF code = << >> THEN "none" ELSE Head(code)
         /\ Executed(<<code>>) = <<Tail(code)>>
         /\ \A body : <<body>> \o Tail(<<code>>) = <<body>>
<1>1. /\ <<code>> # << >> /\ Head(<<code>>) = code /\ Tail(<<code>>) = << >>
      /\ \A body : <<body>> \o << >> = <<body>>
  BY Single
<1>2. QED
  BY <1>1, Zenon DEF Statement, Executed

LEMMA PairFirst ==
  ASSUME NEW Z, NEW x, NEW y, NEW rest \in Seq(Z)
  PROVE  /\ <<x, y>> \o rest # << >> /\ Head(<<x, y>> \o rest) = x
         /\ Tail(<<x, y>> \o rest) = <<y>> \o rest
<1>1. PICK X : rest \in Seq(X) /\ x \in X /\ y \in X
  <2>1. rest \in Seq(Z \union {x, y}) /\ x \in Z \union {x, y} /\ y \in Z \union {x, y}
    OBVIOUS
  <2>2. QED
    BY <2>1
<1>2. /\ \E two \in Seq(X) : two = <<x, y>> /\ Len(two) = 2 /\ two[1] = x /\ two[2] = y
      /\ \E one \in Seq(X) : one = <<y>> /\ Len(one) = 1 /\ one[1] = y
  <2>1. /\ <<x, y>> \in Seq(X) /\ <<y>> \in Seq(X)
        /\ Len(<<x, y>>) = 2 /\ <<x, y>>[1] = x /\ <<x, y>>[2] = y
        /\ Len(<<y>>) = 1 /\ <<y>>[1] = y
    BY <1>1
  <2>2. QED
    BY <2>1, Zenon
<1>3. PICK two \in Seq(X) : two = <<x, y>> /\ Len(two) = 2 /\ two[1] = x /\ two[2] = y
  BY <1>2
<1>4. PICK one \in Seq(X) : one = <<y>> /\ Len(one) = 1 /\ one[1] = y
  BY <1>2
<1>5. PICK whole \in Seq(X) : whole = two \o rest
  BY <1>1, <1>3, ConcatProperties
<1>6. PICK part \in Seq(X) : part = one \o rest
  BY <1>1, <1>4, ConcatProperties
<1>7. PICK l \in Nat : l = Len(rest)
  BY <1>1
<1>8. /\ Len(whole) = 2 + l /\ whole[1] = x /\ whole[2] = y
      /\ \A i \in 1..l : whole[2 + i] = rest[i]
  <2>1. /\ Len(two \o rest) = Len(two) + Len(rest)
        /\ \A i \in 1..Len(two) : (two \o rest)[i] = two[i]
        /\ \A i \in 1..Len(rest) : (two \o rest)[Len(two) + i] = rest[i]
    BY <1>1, <1>3
  <2>2. QED
    BY <1>3, <1>5, <1>7, <2>1
<1>9. Len(part) = 1 + l /\ part[1] = y /\ \A i \in 1..l : part[1 + i] = rest[i]
  <2>1. /\ Len(one \o rest) = Len(one) + Len(rest)
        /\ \A i \in 1..Len(one) : (one \o rest)[i] = one[i]
        /\ \A i \in 1..Len(rest) : (one \o rest)[Len(one) + i] = rest[i]
    BY <1>1, <1>4
  <2>2. QED
    BY <1>4, <1>6, <1>7, <2>1
<1>10. whole # << >>
  BY <1>8, <1>7
<1>11. PICK last \in Seq(X) : last = Tail(whole)
  BY <1>5, <1>10, HeadTailProperties
<1>12. Len(last) = 1 + l /\ \A i \in 1..1 + l : last[i] = whole[i + 1]
  BY <1>5, <1>7, <1>8, <1>10, <1>11, HeadTailProperties
<1>13. \A i \in 1..1 + l : last[i] = part[i]
  <2> TAKE i \in 1..1 + l
  <2>1. CASE i = 1
    BY <1>8, <1>9, <1>12, <2>1
  <2>2. CASE i # 1
    <3>1. PICK j \in Nat : i = 1 + j /\ j \in 1..l
      BY <1>7, <2>2
    <3>2. last[i] = whole[2 + j] /\ part[i] = rest[j]
      BY <1>9, <1>12, <3>1
    <3>3. QED
      BY <1>8, <3>1, <3>2
  <2>3. QED
    BY <2>1, <2>2
<1>14. last = part
  BY <1>6, <1>7, <1>9, <1>11, <1>12, <1>13, SeqEqual
<1>15. Head(whole) = x
  BY <1>5, <1>8, <1>10
<1>16. QED
  BY <1>3, <1>4, <1>5, <1>6, <1>10, <1>11, <1>14, <1>15

(* The scripts, by their first statement. *)
LEMMA ScriptParts ==
  /\ requestAdapter # << >> /\ Head(requestAdapter) = "adapter"
  /\ Tail(requestAdapter) \in Seq({"Flush"})
  /\ onAdapterRequestEnded # << >> /\ Head(onAdapterRequestEnded) = "device"
  /\ Tail(onAdapterRequestEnded) \in Seq({"Flush"})
  /\ onDevice # << >> /\ Head(onDevice) = "compute"
  /\ Tail(onDevice) \in Seq({"Flush", "Tick"})
  /\ onMapAsync # << >> /\ Head(onMapAsync) = "Unmap" /\ Tail(onMapAsync) = << >>
<1>1. <<"Flush">> \in Seq({"Flush"}) /\ <<"Flush">> \in Seq({"Flush", "Tick"})
  OBVIOUS
<1>2. /\ requestAdapter # << >> /\ Head(requestAdapter) = "adapter"
      /\ Tail(requestAdapter) \in Seq({"Flush"})
      /\ onAdapterRequestEnded # << >> /\ Head(onAdapterRequestEnded) = "device"
      /\ Tail(onAdapterRequestEnded) \in Seq({"Flush"})
  BY <1>1, Pair DEF requestAdapter, onAdapterRequestEnded
<1>3. PICK ticks : ticks = [i \in 1..Ticks |-> <<"Tick", "Flush">>]
  OBVIOUS
<1>4. ticks \in Seq(Seq({"Flush", "Tick"}))
  <2>1. Ticks \in Nat
    BY SessionAssumption
  <2>2. <<"Tick", "Flush">> \in Seq({"Flush", "Tick"})
    OBVIOUS
  <2>3. QED
    BY <1>3, <2>1, <2>2
<1>5. PICK rest \in Seq({"Flush", "Tick"}) : rest = FlattenSeq(ticks)
  <2>1. CP!FlattenSeq(ticks) \in Seq({"Flush", "Tick"})
    BY <1>4, CP!FlattenType, ClientAssumption
  <2>2. QED
    BY <2>1, SameSequences
<1>6. onDevice = <<"compute", "Flush">> \o rest
  BY <1>3, <1>5, Zenon DEF onDevice
<1>7. /\ onDevice # << >> /\ Head(onDevice) = "compute"
      /\ Tail(onDevice) = <<"Flush">> \o rest
  BY <1>6, PairFirst
<1>8. <<"Flush">> \o rest \in Seq({"Flush", "Tick"})
  BY <1>1
<1>9. onMapAsync # << >> /\ Head(onMapAsync) = "Unmap" /\ Tail(onMapAsync) = << >>
  BY Single DEF onMapAsync
<1>10. QED
  BY <1>2, <1>7, <1>8, <1>9

(* A command, or Flush, is the next statement of the script. *)
LEMMA ClientExecutes ==
  ASSUME NEW d \in Nat, NEW q \in Nat, NEW code, ClientAt(d, q, code, "none"),
         Statement(code) \in {"adapter", "device", "compute", "Tick", "Unmap", "Flush"}
  PROVE  /\ CallIn(Statement(code)) \in Call => ClientAt(d, q + 1, Executed(code), "none")
         /\ CallIn(Statement(code)) \notin Call =>
              \A fault : ClientAt(d, q, Executed(code), fault)
         /\ Statement(code) \in {"Tick", "Unmap"} => q = 3
<1>1. Statement(<< >>) = "none"
  BY DEF Statement
<1>2. "none" # "refused"
  OBVIOUS
<1>3. CASE q = d /\ Answering(d, code)
  <2>1. \A x : Statement(<<<<x>>>>) = x
    BY OneActivation, Single
  <2>2. Statement(code) \in {"onAdapter", "onDevice", "onMap"}
    BY <1>3, <2>1 DEF Answering
  <2>3. QED
    BY <2>2
<1>4. CASE q = d /\ Asking(d, code)
  <2>1. PICK script : code = <<script>> /\ script # << >>
    BY <1>4, ScriptParts DEF Asking
  <2>2. Statement(code) = Head(script) /\ Executed(code) = <<Tail(script)>>
    BY <2>1, OneActivation
  <2>3. Head(script) \in {"adapter", "device", "compute"}
    BY <1>4, <2>1, Single, ScriptParts DEF Asking
  <2>4. CallIn(Statement(code)) \in Call /\ Statement(code) \notin {"Tick", "Unmap"}
    BY <2>2, <2>3 DEF CallIn, Call
  <2>5. Tail(script) \in Seq({"Flush", "Tick"}) /\ (d < 2 => Tail(script) \in Seq({"Flush"}))
    <3>1. Seq({"Flush"}) \subseteq Seq({"Flush", "Tick"})
      OBVIOUS
    <3>2. QED
      BY <1>4, <2>1, <3>1, Single, ScriptParts DEF Asking
  <2>6. Waiting(d, Executed(code)) /\ d \in 0..2
    <3>1. d \in 0..2
      BY <1>4 DEF Asking
    <3>2. PICK rest : rest = Tail(script)
      OBVIOUS
    <3>3. /\ Executed(code) = <<rest>> /\ rest \in Seq({"Flush", "Tick"})
          /\ d < 2 => rest \in Seq({"Flush"})
      BY <2>2, <2>5, <3>2, Zenon
    <3>4. Waiting(d, Executed(code))
      BY <3>3, Zenon DEF Waiting
    <3>5. QED
      BY <3>1, <3>4
  <2>7. QED
    BY <1>4, <2>4, <2>6 DEF ClientAt
<1>5. CASE d \in 0..2 /\ q = d + 1 /\ Waiting(d, code)
  <2>1. PICK rest \in Seq({"Flush", "Tick"}) :
          code = <<rest>> /\ (d < 2 => rest \in Seq({"Flush"}))
    BY <1>1, <1>5 DEF Waiting
  <2>2. Statement(code) = Head(rest) /\ Executed(code) = <<Tail(rest)>> /\ rest # << >>
    <3>1. Statement(code) = IF rest = << >> THEN "none" ELSE Head(rest)
      BY <2>1, OneActivation
    <3>2. rest # << >>
      BY <3>1
    <3>3. QED
      BY <2>1, <3>1, <3>2, OneActivation
  <2>3. Tail(rest) \in Seq({"Flush", "Tick"}) /\ Head(rest) \in {"Flush", "Tick"}
    BY <2>2
  <2>4. d < 2 => Tail(rest) \in Seq({"Flush"}) /\ Head(rest) \in {"Flush"}
    BY <2>1, <2>2
  <2>5. Waiting(d, Executed(code))
    BY <2>2, <2>3, <2>4 DEF Waiting
  <2>6. Statement(code) \in {"Flush", "Tick"} /\ CallIn(Statement(code)) \notin Call
    BY <2>2, <2>3 DEF CallIn, Call
  <2>7. Statement(code) = "Tick" => q = 3
    BY <1>5, <2>2, <2>4
  <2>8. QED
    BY <1>5, <2>5, <2>6, <2>7 DEF ClientAt
<1>6. CASE d = 3 /\ q = 3 /\ code \in {<< >>, <<onMapAsync>>, <<<< >>>>}
  <2>1. Statement(<<<< >>>>) = "none"
    BY OneActivation
  <2>2. code = <<onMapAsync>>
    BY <1>1, <1>6, <2>1
  <2>3. Statement(code) = "Unmap" /\ Executed(code) = <<<< >>>>
    BY <2>2, ScriptParts, OneActivation
  <2>4. CallIn(Statement(code)) \notin Call
    BY <2>3 DEF CallIn, Call
  <2>5. QED
    BY <1>6, <2>3, <2>4 DEF ClientAt
<1>7. QED
  BY <1>2, <1>3, <1>4, <1>5, <1>6 DEF ClientAt

(* Whether the next statement is a callback, and which calls the script    *)
(* makes one after the other.                                              *)
Pending(code) == Statement(code) \in {"onAdapter", "onDevice", "onMap"}
CallAt(i) == IF i = 1 THEN "adapter" ELSE IF i = 2 THEN "device" ELSE "map"

LEMMA NoPending ==
  /\ \A rest \in Seq({"Flush", "Tick"}) : ~Pending(<<rest>>)
  /\ ~Pending(<< >>) /\ ~Pending(<<<< >>>>)
<1>1. ASSUME NEW rest \in Seq({"Flush", "Tick"}) PROVE ~Pending(<<rest>>)
  <2>1. Statement(<<rest>>) = IF rest = << >> THEN "none" ELSE Head(rest)
    BY OneActivation
  <2>2. rest # << >> => Head(rest) \in {"Flush", "Tick"}
    OBVIOUS
  <2>3. QED
    BY <2>1, <2>2 DEF Pending
<1>2. Statement(<< >>) = "none" /\ Statement(<<<< >>>>) = "none"
  BY OneActivation DEF Statement
<1>3. QED
  BY <1>1, <1>2 DEF Pending

LEMMA ClientAsks ==
  ASSUME NEW d \in Nat, NEW q \in Nat, NEW code, ClientAt(d, q, code, "none"),
         Statement(code) \in {"adapter", "device", "compute", "Tick", "Unmap", "Flush"}
  PROVE  /\ ~Pending(Executed(code))
         /\ CallIn(Statement(code)) \in Call =>
              q = d /\ d < 3 /\ CallIn(Statement(code)) = CallAt(d + 1)
<1>1. Statement(<< >>) = "none" /\ Statement(<<<< >>>>) = "none" /\ "none" # "refused"
  BY OneActivation DEF Statement
<1>2. CASE q = d /\ Answering(d, code)
  <2>1. \A x : Statement(<<<<x>>>>) = x
    BY OneActivation, Single
  <2>2. Statement(code) \in {"onAdapter", "onDevice", "onMap"}
    BY <1>2, <2>1 DEF Answering
  <2>3. QED
    BY <2>2
<1>3. CASE q = d /\ Asking(d, code)
  <2>1. PICK script : /\ code = <<script>> /\ script # << >>
                      /\ \/ d = 0 /\ Head(script) = "adapter"
                         \/ d = 1 /\ Head(script) = "device"
                         \/ d = 2 /\ Head(script) = "compute"
                      /\ Tail(script) \in Seq({"Flush", "Tick"})
    <3>1. Seq({"Flush"}) \subseteq Seq({"Flush", "Tick"})
      OBVIOUS
    <3>2. QED
      BY <1>3, <3>1, ScriptParts DEF Asking
  <2>2. Statement(code) = Head(script) /\ Executed(code) = <<Tail(script)>>
    BY <2>1, OneActivation
  <2>3. ~Pending(Executed(code))
    BY <2>1, <2>2, NoPending
  <2>4. q = d /\ d < 3 /\ CallIn(Statement(code)) = CallAt(d + 1)
    BY <1>3, <2>1, <2>2 DEF CallIn, CallAt
  <2>5. QED
    BY <2>3, <2>4
<1>4. CASE d \in 0..2 /\ q = d + 1 /\ Waiting(d, code)
  <2>1. PICK rest \in Seq({"Flush", "Tick"}) : code = <<rest>>
    BY <1>1, <1>4 DEF Waiting
  <2>2. Statement(code) = Head(rest) /\ Executed(code) = <<Tail(rest)>> /\ rest # << >>
    <3>1. Statement(code) = IF rest = << >> THEN "none" ELSE Head(rest)
      BY <2>1, OneActivation
    <3>2. rest # << >>
      BY <3>1
    <3>3. QED
      BY <2>1, <3>1, <3>2, OneActivation
  <2>3. Tail(rest) \in Seq({"Flush", "Tick"}) /\ Head(rest) \in {"Flush", "Tick"}
    BY <2>2
  <2>4. CallIn(Statement(code)) \notin Call
    BY <2>2, <2>3 DEF CallIn, Call
  <2>5. QED
    BY <2>2, <2>3, <2>4, NoPending
<1>5. CASE d = 3 /\ q = 3 /\ code \in {<< >>, <<onMapAsync>>, <<<< >>>>}
  <2>1. code = <<onMapAsync>>
    BY <1>1, <1>5
  <2>2. Statement(code) = "Unmap" /\ Executed(code) = <<<< >>>>
    BY <2>1, ScriptParts, OneActivation
  <2>3. CallIn(Statement(code)) \notin Call
    BY <2>2 DEF CallIn, Call
  <2>4. QED
    BY <2>2, <2>3, NoPending
<1>6. QED
  BY <1>1, <1>2, <1>3, <1>4, <1>5 DEF ClientAt

LEMMA ClientTold ==
  ASSUME NEW d \in Nat, NEW q \in Nat, NEW code, ClientAt(d, q, code, "none"),
         Pending(code)
  PROVE  /\ q = d /\ \A body : <<body>> \o Tail(code) = <<body>>
         /\ \/ d = 1 /\ Statement(code) = "onAdapter"
            \/ d = 2 /\ Statement(code) = "onDevice"
            \/ d = 3 /\ Statement(code) = "onMap"
<1>1. CASE q = d /\ Answering(d, code)
  <2>1. \A x : Statement(<<<<x>>>>) = x
    BY OneActivation, Single
  <2>2. PICK answer : code = <<answer>>
    BY <1>1 DEF Answering
  <2>3. \A body : <<body>> \o Tail(code) = <<body>>
    BY <2>2, OneActivation
  <2>4. QED
    BY <1>1, <2>1, <2>3 DEF Answering
<1>2. CASE q = d /\ Asking(d, code)
  <2>1. Statement(code) \in {"adapter", "device", "compute"}
    BY <1>2, ScriptParts, OneActivation DEF Asking
  <2>2. QED
    BY <2>1 DEF Pending
<1>3. CASE d \in 0..2 /\ q = d + 1 /\ Waiting(d, code)
  BY <1>3, NoPending DEF Waiting
<1>4. CASE d = 3 /\ q = 3 /\ code \in {<< >>, <<onMapAsync>>, <<<< >>>>}
  <2>1. Statement(<<onMapAsync>>) = "Unmap"
    BY ScriptParts, OneActivation
  <2>2. QED
    BY <1>4, <2>1, NoPending DEF Pending
<1>5. QED
  BY <1>1, <1>2, <1>3, <1>4 DEF ClientAt

LEMMA ClientCalledBack ==
  ASSUME NEW d \in Nat, NEW q \in Nat, NEW code, ClientAt(d, q, code, "none")
  PROVE  /\ Statement(code) = "onAdapter" =>
              /\ ClientAt(d, q, <<onAdapterRequestEnded>> \o Tail(code), "none")
              /\ ClientAt(d, q, <<<< >>>> \o Tail(code), "refused")
         /\ Statement(code) = "onDevice" =>
              /\ ClientAt(d, q, <<onDevice>> \o Tail(code), "none")
              /\ ClientAt(d, q, <<<< >>>> \o Tail(code), "refused")
         /\ Statement(code) = "onMap" =>
              /\ ClientAt(d, q, <<onMapAsync>> \o Tail(code), "none")
              /\ ClientAt(d, q, <<<< >>>> \o Tail(code), "none")
<1> SUFFICES ASSUME Statement(code) \in {"onAdapter", "onDevice", "onMap"}
             PROVE  /\ Statement(code) = "onAdapter" =>
                         /\ ClientAt(d, q, <<onAdapterRequestEnded>> \o Tail(code), "none")
                         /\ ClientAt(d, q, <<<< >>>> \o Tail(code), "refused")
                    /\ Statement(code) = "onDevice" =>
                         /\ ClientAt(d, q, <<onDevice>> \o Tail(code), "none")
                         /\ ClientAt(d, q, <<<< >>>> \o Tail(code), "refused")
                    /\ Statement(code) = "onMap" =>
                         /\ ClientAt(d, q, <<onMapAsync>> \o Tail(code), "none")
                         /\ ClientAt(d, q, <<<< >>>> \o Tail(code), "none")
  OBVIOUS
<1>1. CASE q = d /\ Answering(d, code)
  <2>1. \A x : Statement(<<<<x>>>>) = x
    BY OneActivation, Single
  <2>2. PICK answer : code = <<answer>>
    BY <1>1 DEF Answering
  <2>3. \A body : <<body>> \o Tail(code) = <<body>>
    BY <2>2, OneActivation
  <2>4. \/ d = 1 /\ Statement(code) = "onAdapter"
        \/ d = 2 /\ Statement(code) = "onDevice"
        \/ d = 3 /\ Statement(code) = "onMap"
    BY <1>1, <2>1 DEF Answering
  <2>5. QED
    BY <1>1, <2>3, <2>4 DEF ClientAt, Asking
<1>2. CASE q = d /\ Asking(d, code)
  <2>1. Statement(code) \in {"adapter", "device", "compute"}
    BY <1>2, ScriptParts, OneActivation DEF Asking
  <2>2. QED
    BY <2>1
<1>3. Statement(<< >>) = "none" /\ Statement(<<<< >>>>) = "none"
  BY OneActivation DEF Statement
<1>4. CASE d \in 0..2 /\ q = d + 1 /\ Waiting(d, code)
  <2>1. PICK rest \in Seq({"Flush", "Tick"}) : code = <<rest>>
    BY <1>3, <1>4 DEF Waiting
  <2>2. Statement(code) = IF rest = << >> THEN "none" ELSE Head(rest)
    BY <2>1, OneActivation
  <2>3. rest # << >> => Head(rest) \in {"Flush", "Tick"}
    BY <2>1
  <2>4. QED
    BY <2>2, <2>3
<1>5. CASE d = 3 /\ q = 3 /\ code \in {<< >>, <<onMapAsync>>, <<<< >>>>}
  <2>1. Statement(<<onMapAsync>>) = "Unmap"
    BY ScriptParts, OneActivation
  <2>2. QED
    BY <1>3, <1>5, <2>1
<1>6. QED
  BY <1>1, <1>2, <1>4, <1>5 DEF ClientAt

LEMMA ClientFinishes ==
  ASSUME NEW d \in Nat, NEW q \in Nat, NEW code, ClientAt(d, q, code, "none"),
         code # << >>, Head(code) = << >>
  PROVE  ClientAt(d, q, Tail(code), "none") /\ Tail(code) = << >>
<1>1. \A x : Head(<<x>>) = x /\ Tail(<<x>>) = << >>
  BY Single
<1>2. CASE q = d /\ Answering(d, code)
  <2>1. \A x : <<x>> # << >>
    BY Single
  <2>2. QED
    BY <1>1, <1>2, <2>1 DEF Answering
<1>3. CASE q = d /\ Asking(d, code)
  BY <1>1, <1>3, ScriptParts DEF Asking
<1>4. CASE d \in 0..2 /\ q = d + 1 /\ Waiting(d, code)
  <2>1. Tail(code) = << >>
    BY <1>1, <1>4 DEF Waiting
  <2>2. QED
    BY <1>4, <2>1, Zenon DEF ClientAt, Waiting
<1>5. CASE d = 3 /\ q = 3 /\ code \in {<< >>, <<onMapAsync>>, <<<< >>>>}
  <2>1. Tail(code) = << >>
    BY <1>1, <1>5
  <2>2. QED
    BY <1>5, <2>1 DEF ClientAt
<1>6. QED
  BY <1>2, <1>3, <1>4, <1>5 DEF ClientAt

(* The next answer finds it waiting. *)
LEMMA ClientAnswered ==
  ASSUME NEW d \in Nat, NEW q \in Nat, ClientAt(d, q, << >>, "none"), d < 3,
         NEW answer, answer = <<"onAdapter", "onDevice", "onMap">>[d + 1]
  PROVE  /\ \A fault : ClientAt(d + 1, q, <<<<answer>>>>, fault)
         /\ Pending(<<<<answer>>>>)
<1>1. \A x : <<x>> # << >>
  BY Single
<1>2. q = d + 1
  BY <1>1 DEF ClientAt, Answering, Asking
<1>3. \/ d = 0 /\ answer = "onAdapter"
      \/ d = 1 /\ answer = "onDevice"
      \/ d = 2 /\ answer = "onMap"
  OBVIOUS
<1>4. Statement(<<<<answer>>>>) = answer
  BY OneActivation, Single
<1>5. QED
  BY <1>2, <1>3, <1>4 DEF ClientAt, Answering, Pending

LEMMA TwoInOne ==
  ASSUME NEW x, NEW y
  PROVE  <<x>> \o <<y>> = <<x, y>> /\ << >> \o <<y>> = <<y>>
<1>1. /\ <<x>> \in Seq({x, y}) /\ <<y>> \in Seq({x, y}) /\ <<x, y>> \in Seq({x, y})
      /\ Len(<<x>>) = 1 /\ <<x>>[1] = x /\ Len(<<y>>) = 1 /\ <<y>>[1] = y
      /\ Len(<<x, y>>) = 2 /\ <<x, y>>[1] = x /\ <<x, y>>[2] = y
  OBVIOUS
<1>2. PICK both \in Seq({x, y}) : both = <<x>> \o <<y>>
  BY <1>1, ConcatProperties
<1>3. Len(both) = 2 /\ both[1] = x /\ both[2] = y
  BY <1>1, <1>2, ConcatProperties
<1>4. both = <<x, y>>
  <2>1. \A i \in 1..2 : i = 1 \/ i = 2
    OBVIOUS
  <2>2. PICK pair \in Seq({x, y}) :
          pair = <<x, y>> /\ Len(pair) = 2 /\ pair[1] = x /\ pair[2] = y
    BY <1>1
  <2>3. \A i \in 1..Len(both) : both[i] = pair[i]
    BY <1>3, <2>1, <2>2
  <2>4. both = pair
    BY <1>2, <1>3, <2>2, <2>3, SeqEqual
  <2>5. QED
    BY <2>2, <2>4
<1>5. << >> \o <<y>> = <<y>>
  BY <1>1, ConcatEmptySeq
<1>6. QED
  BY <1>2, <1>4, <1>5

(* The server's program. *)
LEMMA ServerReplies ==
  ASSUME NEW d \in Nat, NEW p \in Nat, NEW code, NEW device, ServerAt(d, p, code, device),
         Statement(code) \in Call
  PROVE  /\ ServerAt(d, p + 1, Executed(code), IF Statement(code) = "map" THEN "done" ELSE device)
         /\ p < 3 /\ p + 1 =< d /\ Statement(code) = CallAt(p + 1)
<1>1. Statement(<< >>) = "none" /\ Statement(<<<< >>>>) = "none"
  BY OneActivation DEF Statement
<1>2. \A x : /\ Statement(<<<<x, "Flush">>>>) = x /\ Executed(<<<<x, "Flush">>>>) = <<<<"Flush">>>>
             /\ Statement(<<<<x>>>>) = x
  BY OneActivation, Single, Pair
<1>3. code \notin {<< >>, <<<<"Flush">>>>, <<<< >>>>}
  BY <1>1, <1>2 DEF Call
<1>4. \/ d = 1 /\ p = 0 /\ Statement(code) = "adapter"
      \/ d = 2 /\ p = 1 /\ Statement(code) = "device"
      \/ d > 3 /\ p = 2 /\ Statement(code) = "map"
  BY <1>2, <1>3 DEF ServerAt
<1>5. Executed(code) = <<<<"Flush">>>>
  BY <1>2, <1>3 DEF ServerAt
<1>6. device = IF d < 3 THEN "idle" ELSE IF p = 3 THEN "done" ELSE "busy"
  BY DEF ServerAt
<1>7. QED
  BY <1>4, <1>5, <1>6 DEF ServerAt, CallAt

LEMMA ServerFlushes ==
  ASSUME NEW d \in Nat, NEW p \in Nat, NEW code, NEW device, ServerAt(d, p, code, device),
         Statement(code) = "Flush"
  PROVE  ServerAt(d, p, Executed(code), device)
<1>1. Statement(<< >>) = "none" /\ Statement(<<<< >>>>) = "none"
  BY OneActivation DEF Statement
<1>2. \A x : /\ Statement(<<<<x, "Flush">>>>) = x
             /\ Executed(<<<<x>>>>) = <<<< >>>>
  BY OneActivation, Single, Pair
<1>3. code = <<<<"Flush">>>>
  BY <1>1, <1>2 DEF ServerAt
<1>4. Executed(code) = <<<< >>>>
  BY <1>2, <1>3
<1>5. QED
  BY <1>3, <1>4, <1>2 DEF ServerAt

LEMMA ServerFinishes ==
  ASSUME NEW d \in Nat, NEW p \in Nat, NEW code, NEW device, ServerAt(d, p, code, device),
         code # << >>, Head(code) = << >>
  PROVE  ServerAt(d, p, Tail(code), device)
<1>1. \A x : Head(<<x>>) = x /\ Tail(<<x>>) = << >>
  BY Single
<1>2. \A x, y : <<x>> # << >> /\ <<x, y>> # << >>
  BY Single, Pair
<1>3. code = <<<< >>>>
  BY <1>1, <1>2 DEF ServerAt
<1>4. Tail(code) = << >>
  BY <1>1, <1>3
<1>5. QED
  BY <1>2, <1>3, <1>4 DEF ServerAt

(* What the k-th command buffer of the client asks of the server: the      *)
(* adapter, the device, the work, and from then on to see how far that is. *)
LEMMA ServerAsked ==
  ASSUME NEW d \in Nat, NEW p \in Nat, NEW device, ServerAt(d, p, << >>, device),
         NEW reply,
         \/ d = 0 /\ reply = <<"adapter">>
         \/ d = 1 /\ reply = <<"device">>
         \/ d = 2 /\ reply = << >>
         \/ d > 2 /\ (reply = << >> \/ (device = "busy" /\ reply = <<"map">>))
  PROVE  ServerAt(d + 1, p, <<reply \o <<"Flush">>>>, IF d = 2 THEN "busy" ELSE device)
<1>1. /\ << >> \o <<"Flush">> = <<"Flush">>
      /\ \A x : <<x>> \o <<"Flush">> = <<x, "Flush">>
  BY TwoInOne
<1>2. \A x : <<x>> # << >>
  BY Single
<1>3. /\ \/ d \in 0..2 /\ p = d
         \/ d = 3 /\ p = 2
         \/ d > 3 /\ p \in {2, 3}
      /\ device = IF d < 3 THEN "idle" ELSE IF p = 3 THEN "done" ELSE "busy"
  BY <1>2 DEF ServerAt
<1>4. CASE d = 0 /\ reply = <<"adapter">>
  BY <1>1, <1>3, <1>4 DEF ServerAt
<1>5. CASE d = 1 /\ reply = <<"device">>
  BY <1>1, <1>3, <1>5 DEF ServerAt
<1>6. CASE d = 2 /\ reply = << >>
  BY <1>1, <1>3, <1>6 DEF ServerAt
<1>7. CASE d > 2 /\ reply = << >>
  BY <1>1, <1>3, <1>7 DEF ServerAt
<1>8. CASE d > 2 /\ device = "busy" /\ reply = <<"map">>
  <2>1. p = 2 /\ d + 1 > 3
    BY <1>3, <1>8
  <2>2. QED
    BY <1>1, <1>8, <2>1 DEF ServerAt
<1>9. QED
  BY <1>4, <1>5, <1>6, <1>7, <1>8
-----------------------------------------------------------------------------
(* Where the two sides are, as long as they wait for one another.          *)
(*                                                                         *)
(* No side has flushed, or begun, more command buffers than there were     *)
(* calls, or answers, until the client has made its last call.  The server *)
(* knows where it is in the stream until the result is performed, and may  *)
(* then read in a Flush what the client has flushed without waiting: that  *)
(* is the end of its process.                                              *)
ServerOnTrack ==
  SP!Receiving /\ ServerAt(Len(s_delivered), Len(performed), s_code, gpu)
ServerAstray ==
  /\ SP!Stuck /\ Len(performed) = 3 /\ gpu = "done"
  /\ s_fault = "none" => s_code # << >> /\ Head(s_code) = <<"Flush">>
ClientOnTrack ==
  /\ CP!Receiving /\ ClientAt(Len(c_delivered), Len(asked), c_code, c_fault)
  /\ Len(asked) # 3 => CP!Within(c_flushed, c_writebuf, Len(asked))

OnTrack ==
  /\ CP!Made /\ SP!Made
  /\ SP!Within(s_flushed, s_writebuf, Len(performed))
  /\ ServerOnTrack \/ ServerAstray
  /\ gpu # "done" => ClientOnTrack

(* The frames and the numbers are the same for both sides.                 *)
LEMMA SameFrames ==
  /\ \A frames : CP!Numbered(frames) = SP!Numbered(frames)
  /\ \A body : C!DawnCmd(body) = CP!DawnCmd(body) /\ C!DawnCmd(body) = SP!DawnCmd(body)
<1>1. \A n : /\ C!DawnCmdHeader(n) = CP!DawnCmdHeader(n)
             /\ C!DawnCmdHeader(n) = SP!DawnCmdHeader(n)
  BY Zenon DEF C!DawnCmdHeader, CP!DawnCmdHeader, SP!DawnCmdHeader,
     C!MSGT_DAWNCMD, CP!MSGT_DAWNCMD, SP!MSGT_DAWNCMD
<1>2. \A body : C!DawnCmd(body) = CP!DawnCmd(body) /\ C!DawnCmd(body) = SP!DawnCmd(body)
  BY <1>1, Zenon DEF C!DawnCmd, CP!DawnCmd, SP!DawnCmd
<1>3. \A frames : CP!Numbered(frames) = SP!Numbered(frames)
  <2>1. \A k, n : CP!Fill(k, n) = SP!Fill(k, n)
    BY Zenon DEF CP!Fill, SP!Fill
  <2>2. CP!MSGT_DAWNCMD = SP!MSGT_DAWNCMD
    BY DEF CP!MSGT_DAWNCMD, SP!MSGT_DAWNCMD
  <2>3. \A k, n : CP!DawnCmd(CP!Fill(k, n)) = SP!DawnCmd(SP!Fill(k, n))
    <3>1. TAKE k, n
    <3>2. CP!DawnCmd(CP!Fill(k, n)) = CP!DawnCmd(SP!Fill(k, n))
      BY <2>1, Zenon
    <3>3. CP!DawnCmd(SP!Fill(k, n)) = SP!DawnCmd(SP!Fill(k, n))
      BY <1>2, Zenon
    <3>4. QED
      BY <3>2, <3>3, Zenon
  <2>4. ASSUME NEW frames, NEW k \in 1..Len(frames)
        PROVE  /\ (\E n \in 1..MAX : frames[k] = CP!DawnCmd(CP!Fill(k, n)))
                  <=> (\E n \in 1..MAX : frames[k] = SP!DawnCmd(SP!Fill(k, n)))
               /\ k < CP!MSGT_DAWNCMD <=> k < SP!MSGT_DAWNCMD
    BY <2>2, <2>3, Zenon
  <2>5. ASSUME NEW frames PROVE CP!Numbered(frames) <=> SP!Numbered(frames)
    BY <2>4 DEF CP!Numbered, SP!Numbered
  <2>6. \A frames : CP!Numbered(frames) \in BOOLEAN /\ SP!Numbered(frames) \in BOOLEAN
    BY DEF CP!Numbered, SP!Numbered
  <2>7. QED
    BY <2>5, <2>6
<1>4. QED
  BY <1>2, <1>3

LEMMA Lengths ==
  ASSUME Connected, Recorded
  PROVE  /\ Len(c_flushed) \in Nat /\ Len(s_flushed) \in Nat
         /\ Len(c_delivered) \in Nat /\ Len(s_delivered) \in Nat
         /\ Len(asked) \in Nat /\ Len(performed) \in Nat
<1>1. Len(c_flushed) \in Nat /\ Len(c_delivered) \in Nat
  BY CP!Types, ClientAssumption DEF Connected
<1>2. Len(s_flushed) \in Nat /\ Len(s_delivered) \in Nat
  BY SP!Types, ServerAssumption DEF Connected
<1>3. Len(asked) \in Nat /\ Len(performed) \in Nat
  BY DEF Recorded
<1>4. QED
  BY <1>1, <1>2, <1>3

LEMMA OnTrackCounts ==
  ASSUME Connected, Recorded, OnTrack, gpu # "done"
  PROVE  /\ SP!Receiving /\ CP!Receiving
         /\ CP!Numbered(s_flushed) /\ SP!Numbered(c_flushed)
         /\ Len(asked) =< Len(c_delivered) + 1
         /\ Len(performed) < 3 /\ Len(performed) =< Len(s_delivered)
         /\ Len(s_flushed) =< Len(performed)
         /\ Len(asked) # 3 => Len(c_flushed) =< Len(asked)
<1>1. ServerOnTrack
  BY DEF OnTrack, ServerAstray
<1>2. ClientOnTrack
  BY DEF OnTrack
<1>3. SP!Receiving /\ CP!Receiving
  BY <1>1, <1>2 DEF ServerOnTrack, ClientOnTrack
<1>4. CP!Numbered(s_flushed) /\ SP!Numbered(c_flushed)
  BY SameFrames DEF OnTrack, CP!Made, SP!Made
<1>5. Len(asked) =< Len(c_delivered) + 1
  BY <1>2, Lengths, ClientCounts DEF ClientOnTrack
<1>6. Len(performed) < 3 /\ Len(performed) =< Len(s_delivered)
  <2>1. PICK p \in Nat, d \in Nat : p = Len(performed) /\ d = Len(s_delivered)
    BY Lengths
  <2>2. ServerAt(d, p, s_code, gpu)
    BY <1>1, <2>1 DEF ServerOnTrack
  <2>3. p =< 3 /\ p =< d /\ p # 3
    BY <2>2, ServerCounts
  <2>4. p < 3
    BY <2>3
  <2>5. QED
    BY <2>1, <2>3, <2>4
<1>7. Len(s_flushed) =< Len(performed)
  BY DEF OnTrack, SP!Within
<1>8. Len(asked) # 3 => Len(c_flushed) =< Len(asked)
  BY <1>2 DEF ClientOnTrack, CP!Within
<1>9. QED
  BY <1>3, <1>4, <1>5, <1>6, <1>7, <1>8

(* When a Flush looks whether something has come, while its own command    *)
(* buffer is not begun, nothing has: the other side waits for it.          *)
LEMMA NothingForServer ==
  ASSUME Connected, Recorded, OnTrack, gpu # "done", SP!At("read"), Len(s_stack) = 2
  PROVE  SP!Got = 0
<1>1. s_running /\ SP!Fresh
  BY DEF Connected, SP!SInv, SP!Sending, SP!Nesting
<1>2. /\ Len(s_flushed) - 1 \in 0..Len(s_flushed)
      /\ Len(s_wire) = Len(SP!FlattenSeq(SubSeq(s_flushed, 1, Len(s_flushed) - 1)))
  BY <1>1, SP!FreshWire, ServerAssumption DEF Connected
<1>3. PICK m : m = Len(s_flushed) - 1
  OBVIOUS
<1>4. Len(s_wire) = CP!End(m)
  BY <1>2, <1>3, SameSequences DEF CP!End
<1>5. Len(c_delivered) =< m
  BY <1>2, <1>3, <1>4, OnTrackCounts, CP!DeliveredBefore, ClientAssumption DEF Connected
<1>6. Len(c_flushed) =< Len(s_delivered)
  <2>1. PICK q \in Nat, p \in Nat, f \in Nat :
          q = Len(asked) /\ p = Len(performed) /\ f = Len(s_flushed)
    BY Lengths
  <2>2. PICK d \in Nat, e \in Nat, g \in Nat :
          d = Len(c_delivered) /\ e = Len(s_delivered) /\ g = Len(c_flushed)
    BY Lengths
  <2>3. /\ q =< d + 1 /\ p < 3 /\ p =< e /\ f =< p /\ d =< f - 1
        /\ q # 3 => g =< q
    BY <1>3, <1>5, <2>1, <2>2, OnTrackCounts
  <2>4. g =< e
    BY <2>3
  <2>5. QED
    BY <2>2, <2>4
<1>7. QED
  BY <1>6, OnTrackCounts, SP!AllDelivered, ServerAssumption DEF Connected

LEMMA NothingForClient ==
  ASSUME Connected, Recorded, OnTrack, gpu # "done", CP!At("read"), Len(c_stack) = 2
  PROVE  CP!Got = 0
<1>1. c_running /\ CP!Fresh
  BY DEF Connected, CP!SInv, CP!Sending, CP!Nesting
<1>2. /\ Len(c_flushed) - 1 \in 0..Len(c_flushed)
      /\ Len(c_wire) = Len(CP!FlattenSeq(SubSeq(c_flushed, 1, Len(c_flushed) - 1)))
  BY <1>1, CP!FreshWire, ClientAssumption DEF Connected
<1>3. PICK m : m = Len(c_flushed) - 1
  OBVIOUS
<1>4. Len(c_wire) = SP!End(m)
  BY <1>2, <1>3, SameSequences DEF SP!End
<1>5. Len(s_delivered) =< m
  BY <1>2, <1>3, <1>4, OnTrackCounts, SP!DeliveredBefore, ServerAssumption DEF Connected
<1>6. Len(s_flushed) =< Len(c_delivered)
  <2>1. PICK q \in Nat, p \in Nat, f \in Nat :
          q = Len(asked) /\ p = Len(performed) /\ f = Len(s_flushed)
    BY Lengths
  <2>2. PICK d \in Nat, e \in Nat, g \in Nat :
          d = Len(c_delivered) /\ e = Len(s_delivered) /\ g = Len(c_flushed)
    BY Lengths
  <2>3. /\ q =< d + 1 /\ p < 3 /\ p =< e /\ f =< p /\ e =< g - 1
        /\ q # 3 => g =< q
    BY <1>3, <1>5, <2>1, <2>2, OnTrackCounts
  <2>4. f =< d
    BY <2>3
  <2>5. QED
    BY <2>1, <2>2, <2>4
<1>7. QED
  BY <1>6, OnTrackCounts, CP!AllDelivered, ClientAssumption DEF Connected

(* One side waits while the other does something. *)
LEMMA ServerStays ==
  ASSUME Connected, OnTrack, SP!Outside, SP!Grown(c_flushed, c_flushed'),
         UNCHANGED <<s_code, gpu, performed>>
  PROVE  /\ SP!Made' /\ SP!Within(s_flushed', s_writebuf', Len(performed'))
         /\ ServerOnTrack' \/ ServerAstray'
<1>1. UNCHANGED <<s_flushed, s_writebuf, s_flushbuf, s_delivered, s_stack>> /\ SP!Made'
  BY SP!OutsideKeeps, ServerAssumption DEF OnTrack
<1>2. SP!Within(s_flushed', s_writebuf', Len(performed'))
  BY <1>1 DEF OnTrack
<1>3. ASSUME ServerOnTrack PROVE ServerOnTrack'
  <2>1. SP!Receiving'
    BY <1>3, SP!OutsideReceiving, ServerAssumption DEF Connected, ServerOnTrack
  <2>2. ServerAt(Len(s_delivered'), Len(performed'), s_code', gpu')
    BY <1>1, <1>3 DEF ServerOnTrack
  <2>3. QED
    BY <2>1, <2>2 DEF ServerOnTrack
<1>4. ASSUME ServerAstray PROVE ServerAstray'
  <2>1. s_fault' = "none" => s_fault = "none"
    BY DEF SP!Outside
  <2>2. SP!Stuck'
    BY <1>1, <1>4, <2>1 DEF ServerAstray, SP!Stuck, SP!Top
  <2>3. Len(performed') = 3 /\ gpu' = "done"
    BY <1>4 DEF ServerAstray
  <2>4. s_fault' = "none" => s_code' # << >> /\ Head(s_code') = <<"Flush">>
    BY <1>4, <2>1 DEF ServerAstray
  <2>5. QED
    BY <2>2, <2>3, <2>4, Zenon DEF ServerAstray
<1>5. QED
  BY <1>1, <1>2, <1>3, <1>4 DEF OnTrack

LEMMA ClientStays ==
  ASSUME Connected, OnTrack, CP!Outside, CP!Grown(s_flushed, s_flushed'),
         UNCHANGED <<c_code, c_fault, asked>>
  PROVE  CP!Made' /\ (ClientOnTrack => ClientOnTrack')
<1>1. UNCHANGED <<c_flushed, c_writebuf, c_delivered>> /\ CP!Made'
  BY CP!OutsideKeeps, ClientAssumption DEF OnTrack
<1>2. ASSUME ClientOnTrack PROVE ClientOnTrack'
  <2>1. CP!Receiving'
    BY <1>2, CP!OutsideReceiving, ClientAssumption DEF Connected, ClientOnTrack
  <2>2. QED
    BY <1>1, <1>2, <2>1 DEF ClientOnTrack
<1>3. QED
  BY <1>1, <1>2

(* The numbers of the client's command buffers are no types of messages.   *)
FewTicks == Ticks + 4 < C!MSGT_DAWNCMD

LEMMA FewFrames ==
  ASSUME FewTicks
  PROVE  Ticks + 4 < CP!MSGT_DAWNCMD /\ 4 < SP!MSGT_DAWNCMD
<1>1. Ticks \in Nat /\ CP!MSGT_DAWNCMD = C!MSGT_DAWNCMD
      /\ SP!MSGT_DAWNCMD = C!MSGT_DAWNCMD /\ C!MSGT_DAWNCMD \in Nat
  BY SessionAssumption DEF C!MSGT_DAWNCMD, CP!MSGT_DAWNCMD, SP!MSGT_DAWNCMD
<1>2. QED
  BY <1>1 DEF FewTicks

LEMMA ClientMoves ==
  ASSUME FewTicks, Connected, Recorded, OnTrack, CP!doIO \/ CP!Loop \/ CP!App,
         UNCHANGED serverSide
  PROVE  /\ CP!Made' /\ SP!Made'
         /\ SP!Within(s_flushed', s_writebuf', Len(performed'))
         /\ ServerOnTrack' \/ ServerAstray'
         /\ gpu # "done" => CP!Receiving'
<1>1. SP!Outside /\ SP!Grown(c_flushed, c_flushed')
  <2>1. CP!Next
    BY DEF CP!Next
  <2>2. QED
    BY <2>1, ClientActs DEF serverSide
<1>2. /\ SP!Made' /\ SP!Within(s_flushed', s_writebuf', Len(performed'))
      /\ ServerOnTrack' \/ ServerAstray'
  BY <1>1, ServerStays DEF serverSide
<1>3. CP!Made'
  BY FewFrames, CP!MadeStep, ClientAssumption DEF Connected, OnTrack
<1>4. ASSUME gpu # "done" PROVE CP!Receiving'
  BY <1>4, OnTrackCounts, NothingForClient, CP!ReceivingStep, ClientAssumption
  DEF Connected
<1>5. QED
  BY <1>2, <1>3, <1>4

LEMMA ServerMoves ==
  ASSUME FewTicks, Connected, OnTrack, SP!doIO \/ SP!Loop \/ SP!App, UNCHANGED clientSide
  PROVE  /\ CP!Made' /\ SP!Made'
         /\ ClientOnTrack => ClientOnTrack'
<1>1. CP!Outside /\ CP!Grown(s_flushed, s_flushed')
  <2>1. SP!Next
    BY DEF SP!Next
  <2>2. QED
    BY <2>1, ServerActs DEF clientSide
<1>2. CP!Made' /\ (ClientOnTrack => ClientOnTrack')
  <2>1. UNCHANGED <<c_code, c_fault, asked>>
    BY DEF clientSide, clientEnd
  <2>2. QED
    BY <1>1, <2>1, ClientStays
<1>3. SP!Made'
  BY FewFrames, SP!MadeStep, ServerAssumption DEF Connected, OnTrack
<1>4. QED
  BY <1>2, <1>3
-----------------------------------------------------------------------------
(* Each side is given the command buffers of the other in their order, the *)
(* k-th filled with k, when no callback is running.                        *)
LEMMA SameLast == \A s : CP!Last(s) = Last(s) /\ SP!Last(s) = Last(s)
BY Zenon DEF Last, CP!Last, SP!Last

LEMMA NoCode ==
  ASSUME NEW code, IsCode(code), Len(code) = 0
  PROVE  code = << >>
<1>1. PICK X : code \in Seq(X)
  BY DEF IsCode
<1>2. QED
  BY <1>1, EmptySeq

LEMMA ClientGets ==
  ASSUME Connected, Stacked, Recorded, CP!Receiving, CP!Numbered(s_flushed),
         CP!doIO \/ CP!Loop, CP!At("read") /\ Len(c_stack) = 2 => CP!Got = 0,
         c_delivered' # c_delivered, s_flushed' = s_flushed
  PROVE  LET k == Len(c_delivered) + 1 body == Last(c_delivered')
         IN /\ k \in 1..Len(s_flushed) /\ Len(c_delivered') = k
            /\ Genuine(body, s_flushed) /\ body[1] = k
            /\ c_code = << >>
<1>1. PICK k \in Nat : k = Len(c_delivered) + 1
  BY Lengths
<1>2. /\ k \in 1..Len(s_flushed) /\ Len(c_delivered') = k
      /\ CP!Last(c_delivered') = CP!Fill(k, CP!BodyLen(k))
      /\ Len(c_stack) = 1 /\ Head(c_stack).pc \notin CP!InProgramAt
  BY <1>1, CP!Delivers, ClientAssumption DEF Connected
<1>3. PICK body : body = CP!Fill(k, CP!BodyLen(k))
  OBVIOUS
<1>4. body # << >> /\ body[1] = k /\ s_flushed[k] = CP!DawnCmd(body)
  <2>1. s_flushed \in Seq(Seq(Nat))
    BY CP!Types, ClientAssumption DEF Connected
  <2>2. QED
    BY <1>2, <1>3, <2>1, CP!FrameOf, ClientAssumption
<1>5. DOMAIN s_flushed = 1..Len(s_flushed)
  <2>1. s_flushed \in Seq(Seq(Nat))
    BY CP!Types, ClientAssumption DEF Connected
  <2>2. QED
    BY <2>1
<1>6. Genuine(body, s_flushed)
  BY <1>2, <1>4, <1>5, SameFrames DEF Genuine
<1>7. c_code = << >>
  <2>1. CP!Depth(c_stack) = 0
    <3>1. c_stack # << >>
      <4>1. Len(<< >>) = 0
        OBVIOUS
      <4>2. 0 # 1
        OBVIOUS
      <4>3. QED
        BY <1>2, <4>1, <4>2, Zenon
    <3>2. CP!Depth(c_stack) = 1 - 1
      BY <1>2, <3>1, Zenon DEF CP!Depth
    <3>3. QED
      BY <3>2
  <2>2. QED
    BY <2>1, NoCode DEF Stacked
<1>8. QED
  BY <1>1, <1>2, <1>3, <1>4, <1>6, <1>7, SameLast

LEMMA ServerGets ==
  ASSUME Connected, Stacked, Recorded, OnTrack, SP!Receiving, SP!doIO \/ SP!Loop,
         SP!At("read") /\ Len(s_stack) = 2 => SP!Got = 0,
         s_delivered' # s_delivered, c_flushed' = c_flushed
  PROVE  LET k == Len(s_delivered) + 1 body == Last(s_delivered')
         IN /\ k \in 1..Len(c_flushed) /\ Len(s_delivered') = k
            /\ Genuine(body, c_flushed) /\ body[1] = k
            /\ s_code = << >>
<1>1. PICK k \in Nat : k = Len(s_delivered) + 1
  BY Lengths
<1>2. SP!Numbered(c_flushed)
  BY SameFrames DEF OnTrack, CP!Made
<1>3. /\ k \in 1..Len(c_flushed) /\ Len(s_delivered') = k
      /\ SP!Last(s_delivered') = SP!Fill(k, SP!BodyLen(k))
      /\ Len(s_stack) = 1 /\ Head(s_stack).pc \notin SP!InProgramAt
  BY <1>1, <1>2, SP!Delivers, ServerAssumption DEF Connected
<1>4. PICK body : body = SP!Fill(k, SP!BodyLen(k))
  OBVIOUS
<1>5. c_flushed \in Seq(Seq(Nat)) /\ DOMAIN c_flushed = 1..Len(c_flushed)
  <2>1. c_flushed \in Seq(Seq(Nat))
    BY SP!Types, ServerAssumption DEF Connected
  <2>2. QED
    BY <2>1
<1>6. body # << >> /\ body[1] = k /\ c_flushed[k] = SP!DawnCmd(body)
  BY <1>2, <1>3, <1>4, <1>5, SP!FrameOf, ServerAssumption
<1>7. Genuine(body, c_flushed)
  BY <1>3, <1>5, <1>6, SameFrames DEF Genuine
<1>8. s_code = << >>
  <2>1. SP!Depth(s_stack) = 0
    <3>1. s_stack # << >>
      <4>1. Len(<< >>) = 0
        OBVIOUS
      <4>2. 0 # 1
        OBVIOUS
      <4>3. QED
        BY <1>3, <4>1, <4>2, Zenon
    <3>2. SP!Depth(s_stack) = 1 - 1
      BY <1>3, <3>1, Zenon DEF SP!Depth
    <3>3. QED
      BY <3>2
  <2>2. QED
    BY <2>1, NoCode DEF Stacked
<1>9. QED
  BY <1>1, <1>3, <1>4, <1>6, <1>7, <1>8, SameLast

-----------------------------------------------------------------------------
(* The client's steps. *)

LEMMA AnyFault ==
  ASSUME NEW d, NEW q, NEW code, ClientAt(d, q, code, "none")
  PROVE  \A fault : ClientAt(d, q, code, fault)
BY DEF ClientAt

(* The callback that was given last has recorded its answer, or is about   *)
(* to do so.                                                               *)
Answered ==
  Len(answered) = IF Pending(c_code) THEN Len(c_delivered) - 1 ELSE Len(c_delivered)

LEMMA ClientLoopGoesOn ==
  ASSUME Connected, Stacked, Recorded, ClientLoop, ClientOnTrack, CP!Receiving',
         \/ c_delivered' = c_delivered
         \/ /\ CP!Receiving /\ CP!Numbered(s_flushed) /\ Len(s_flushed) =< 3
            /\ CP!At("read") /\ Len(c_stack) = 2 => CP!Got = 0
  PROVE  ClientOnTrack' /\ (Answered => Answered')
<1>1. CP!doIO \/ CP!Loop
  BY ClientEndpoint DEF ClientLoop
<1>2. asked' = asked /\ answered' = answered /\ s_flushed' = s_flushed
  BY DEF ClientLoop, serverSide, serverEnd
<1>3. PICK q \in Nat, d \in Nat : q = Len(asked) /\ d = Len(c_delivered)
  BY Lengths
<1>4. ClientAt(d, q, c_code, "none")
  <2>1. c_fault = "none"
    BY <1>1, CP!Alive, ClientAssumption
  <2>2. QED
    BY <1>3, <2>1 DEF ClientOnTrack
<1>5. Len(asked') # 3 => CP!Within(c_flushed', c_writebuf', Len(asked'))
  <2>1. q # 3 => CP!Within(c_flushed, c_writebuf, q)
    BY <1>3 DEF ClientOnTrack
  <2>2. q # 3 => CP!Within(c_flushed', c_writebuf', q)
    BY <1>1, <2>1, CP!StaysWithin, ClientAssumption DEF Connected
  <2>3. QED
    BY <1>2, <1>3, <2>2
<1>6. CASE c_delivered' = c_delivered
  <2>1. c_code' = c_code
    BY <1>6 DEF ClientLoop
  <2>2. ClientAt(d, q, c_code, c_fault')
    BY <1>4, AnyFault
  <2>3. ClientOnTrack'
    BY <1>2, <1>3, <1>5, <1>6, <2>1, <2>2 DEF ClientOnTrack
  <2>4. Answered => Answered'
    BY <1>2, <1>6, <2>1 DEF Answered
  <2>5. QED
    BY <2>3, <2>4
<1>7. CASE c_delivered' # c_delivered
  <2>1. PICK body : body = Last(c_delivered')
    OBVIOUS
  <2>2. /\ d + 1 \in 1..Len(s_flushed) /\ Len(c_delivered') = d + 1
        /\ Genuine(body, s_flushed) /\ body[1] = d + 1 /\ c_code = << >>
    BY <1>1, <1>2, <1>3, <1>7, <2>1, ClientGets
  <2>3. d < 3
    <3>1. PICK n \in Nat : n = Len(s_flushed) /\ n =< 3
      BY <1>7, Lengths
    <3>2. QED
      BY <2>2, <3>1
  <2>4. PICK answer : answer = <<"onAdapter", "onDevice", "onMap">>[d + 1]
    OBVIOUS
  <2>5. c_code' = <<<<answer>>>>
    <3>1. c_code' = <<ClientHandles(body)>> \o << >>
      BY <1>7, <2>1, <2>2 DEF ClientLoop
    <3>2. ClientHandles(body) = <<answer>>
      BY <2>2, <2>4, Zenon DEF ClientHandles
    <3>3. QED
      BY <3>1, <3>2, Single
  <2>6. ClientAt(d + 1, q, c_code', c_fault') /\ Pending(c_code')
    BY <1>4, <2>2, <2>3, <2>4, <2>5, ClientAnswered
  <2>7. ClientOnTrack'
    BY <1>2, <1>3, <1>5, <2>2, <2>6 DEF ClientOnTrack
  <2>8. ASSUME Answered PROVE Answered'
    <3>1. Len(answered) = d
      BY <1>3, <2>2, <2>8, NoPending DEF Answered
    <3>2. Len(answered') = (d + 1) - 1
      BY <1>2, <3>1
    <3>3. QED
      BY <2>2, <2>6, <3>2, Zenon DEF Answered
  <2>9. QED
    BY <2>7, <2>8
<1>8. QED
  BY <1>6, <1>7

LEMMA ClientCommandGoesOn ==
  ASSUME Connected, Recorded, ClientOnTrack, CP!Receiving',
         NEW command \in {"adapter", "device", "compute", "Tick", "Unmap"},
         ClientCommand(command)
  PROVE  /\ ClientOnTrack' /\ (Answered => Answered')
         /\ CallIn(command) \in Call /\ Answered =>
              /\ Len(answered) = Len(asked) /\ Len(asked) < 3
              /\ CallIn(command) = CallAt(Len(asked) + 1)
<1>1. PICK size \in {Small, MAX} : CP!GetCmdSpace(size)
  <2>1. PICK size \in {Small, MAX} : C!GetCmdSpace(size)
    BY DEF ClientCommand
  <2>2. QED
    BY <2>1, ClientEndpoint
<1>2. CP!App
  BY <1>1 DEF CP!App
<1>3. PICK q \in Nat, d \in Nat : q = Len(asked) /\ d = Len(c_delivered)
  BY Lengths
<1>4. ClientAt(d, q, c_code, "none")
  <2>1. c_fault = "none"
    BY <1>2, CP!Alive, ClientAssumption
  <2>2. QED
    BY <1>3, <2>1 DEF ClientOnTrack
<1>5. /\ Statement(c_code) = command /\ answered' = answered
      /\ c_code' = Executed(c_code) /\ c_delivered' = c_delivered
  BY <1>2, CP!AppDelivers, ClientAssumption DEF ClientCommand
<1>6. q # 3 => CP!Within(c_flushed, c_writebuf, q)
  BY <1>3 DEF ClientOnTrack
<1>7. ASSUME CallIn(command) \in Call PROVE ClientOnTrack'
  <2>1. Len(asked') = q + 1
    <3>1. asked' = Append(asked, CallIn(command))
      BY <1>7 DEF ClientCommand
    <3>2. asked \in Seq(Call)
      BY DEF Recorded
    <3>3. QED
      BY <1>3, <1>7, <3>1, <3>2, AppendProperties
  <2>2. ClientAt(d, q + 1, c_code', "none")
    BY <1>4, <1>5, <1>7, ClientExecutes
  <2>3. ClientAt(d, q + 1, c_code', c_fault')
    BY <2>2, AnyFault
  <2>4. q + 1 # 3 => CP!Within(c_flushed', c_writebuf', q + 1)
    <3>1. CASE q = 3
      <4>1. q + 1 =< d + 1 /\ d =< 3
        BY <2>2, ClientCounts
      <4>2. QED
        BY <2>2, <3>1, <4>1 DEF ClientAt, Answering, Asking
    <3>2. CASE q # 3
      BY <1>1, <1>6, <3>2, CP!GrowsWithin, ClientAssumption DEF Connected
    <3>3. QED
      BY <3>1, <3>2
  <2>5. ClientAt(Len(c_delivered'), Len(asked'), c_code', c_fault')
    BY <1>3, <1>5, <2>1, <2>3, Zenon
  <2>6. Len(asked') # 3 => CP!Within(c_flushed', c_writebuf', Len(asked'))
    BY <2>1, <2>4, Zenon
  <2>7. QED
    BY <2>5, <2>6 DEF ClientOnTrack
<1>8. ASSUME CallIn(command) \notin Call PROVE ClientOnTrack'
  <2>1. asked' = asked
    BY <1>8 DEF ClientCommand
  <2>2. ClientAt(d, q, c_code', c_fault')
    BY <1>4, <1>5, <1>8, ClientExecutes
  <2>3. q = 3
    <3>1. command \in {"Tick", "Unmap"}
      BY <1>8 DEF CallIn, Call
    <3>2. QED
      BY <1>4, <1>5, <3>1, ClientExecutes
  <2>4. ClientAt(Len(c_delivered'), Len(asked'), c_code', c_fault') /\ Len(asked') = 3
    BY <1>3, <1>5, <2>1, <2>2, <2>3, Zenon
  <2>5. QED
    BY <2>4 DEF ClientOnTrack
<1>9. ClientOnTrack'
  BY <1>7, <1>8
<1>10. /\ ~Pending(c_code) /\ ~Pending(c_code')
       /\ CallIn(command) \in Call => q = d /\ d < 3 /\ CallIn(command) = CallAt(d + 1)
  BY <1>4, <1>5, ClientAsks DEF Pending
<1>11. Answered => Answered'
  BY <1>5, <1>10 DEF Answered
<1>12. ASSUME CallIn(command) \in Call, Answered
       PROVE  /\ Len(answered) = Len(asked) /\ Len(asked) < 3
              /\ CallIn(command) = CallAt(Len(asked) + 1)
  BY <1>3, <1>10, <1>12 DEF Answered
<1>13. QED
  BY <1>9, <1>11, <1>12

LEMMA ClientFlushGoesOn ==
  ASSUME Connected, Recorded, ClientOnTrack, CP!Receiving', ClientFlush \/ ClientReturns
  PROVE  ClientOnTrack' /\ (Answered => Answered')
<1>1. \/ CP!Flush \/ CP!FlushTooEarly
      \/ CP!ReturnFromApp
  BY ClientEndpoint DEF ClientFlush, ClientReturns
<1>2. CP!App
  BY <1>1 DEF CP!App
<1>3. asked' = asked /\ answered' = answered
  BY DEF ClientFlush, ClientReturns
<1>4. PICK q \in Nat, d \in Nat : q = Len(asked) /\ d = Len(c_delivered)
  BY Lengths
<1>5. ClientAt(d, q, c_code, "none")
  <2>1. c_fault = "none"
    BY <1>2, CP!Alive, ClientAssumption
  <2>2. QED
    BY <1>4, <2>1 DEF ClientOnTrack
<1>6. c_delivered' = c_delivered
  BY <1>2, CP!AppDelivers, ClientAssumption
<1>7. ClientAt(d, q, c_code', "none") /\ ~Pending(c_code) /\ ~Pending(c_code')
  <2>1. CASE ClientFlush
    <3>1. Statement(c_code) = "Flush" /\ c_code' = Executed(c_code)
      BY <2>1 DEF ClientFlush
    <3>2. CallIn("Flush") \notin Call
      BY DEF CallIn, Call
    <3>3. QED
      BY <1>5, <3>1, <3>2, ClientExecutes, ClientAsks DEF Pending
  <2>2. CASE ClientReturns
    <3>1. c_code # << >> /\ Head(c_code) = << >> /\ c_code' = Tail(c_code)
      BY <2>2 DEF ClientReturns
    <3>2. Statement(c_code) = "none"
      BY <3>1 DEF Statement
    <3>3. ClientAt(d, q, c_code', "none") /\ c_code' = << >>
      BY <1>5, <3>1, ClientFinishes
    <3>4. QED
      BY <3>2, <3>3, NoPending DEF Pending
  <2>3. QED
    BY <2>1, <2>2
<1>8. q # 3 => CP!Within(c_flushed', c_writebuf', q)
  <2>1. q # 3 => CP!Within(c_flushed, c_writebuf, q)
    BY <1>4 DEF ClientOnTrack
  <2>2. QED
    BY <1>1, <2>1, CP!StaysWithin, ClientAssumption DEF Connected
<1>9. ClientAt(d, q, c_code', c_fault')
  BY <1>7, AnyFault
<1>10. ClientOnTrack'
  BY <1>3, <1>4, <1>6, <1>8, <1>9 DEF ClientOnTrack
<1>11. Answered => Answered'
  BY <1>3, <1>6, <1>7 DEF Answered
<1>12. QED
  BY <1>10, <1>11

(* The callbacks of the script, each with its call. *)
Callback(answer, call, body) ==
  \/ answer = "onAdapter" /\ call = "adapter" /\ body = onAdapterRequestEnded
  \/ answer = "onDevice" /\ call = "device" /\ body = onDevice
  \/ answer = "onMap" /\ call = "map" /\ body = onMapAsync

LEMMA CallbackNobody ==
  ASSUME NEW answer, NEW call, NEW body, ClientCallback(answer, call, body)
  PROVE  /\ UNCHANGED <<clientKeeps, serverKeeps>> /\ c_fault' \in {c_fault, "refused"}
         /\ s_fault' = s_fault /\ UNCHANGED <<s_code, gpu, performed>>
         /\ UNCHANGED serverSide /\ asked' = asked
         /\ Statement(c_code) = answer /\ c_fault = "none"
         /\ \/ c_code' = <<body>> \o Tail(c_code) /\ UNCHANGED clientEnd
            \/ /\ c_code' = <<<< >>>> \o Tail(c_code)
               /\ IF call = "map" THEN UNCHANGED clientEnd ELSE C!Fail("refused")
<1>1. /\ UNCHANGED serverSide /\ asked' = asked
      /\ Statement(c_code) = answer /\ c_fault = "none"
  BY DEF ClientCallback, C!At
<1>2. \/ c_code' = <<body>> \o Tail(c_code) /\ UNCHANGED clientEnd
      \/ /\ c_code' = <<<< >>>> \o Tail(c_code)
         /\ IF call = "map" THEN UNCHANGED clientEnd ELSE C!Fail("refused")
  BY DEF ClientCallback
<1>3. /\ UNCHANGED <<clientKeeps, serverKeeps>> /\ c_fault' \in {c_fault, "refused"}
      /\ s_fault' = s_fault /\ UNCHANGED <<s_code, gpu, performed>>
  BY <1>1, <1>2 DEF clientEnd, clientKeeps, serverKeeps, serverSide, serverEnd, C!Fail,
     C!reading, C!cmdsOut, C!loop, C!socket, C!program
<1>4. QED
  BY <1>1, <1>2, <1>3

LEMMA ClientCallbackGoesOn ==
  ASSUME Connected, Recorded, ClientOnTrack, CP!Receiving',
         NEW answer, NEW call, NEW body, Callback(answer, call, body),
         ClientCallback(answer, call, body)
  PROVE  /\ ClientOnTrack'
         /\ Answered => /\ Answered' /\ Len(asked) = Len(c_delivered)
                        /\ Len(answered) + 1 = Len(asked)
                        /\ call = CallAt(Len(asked))
<1>1. PICK q \in Nat, d \in Nat : q = Len(asked) /\ d = Len(c_delivered)
  BY Lengths
<1>2. /\ asked' = asked /\ Statement(c_code) = answer /\ c_fault = "none"
      /\ UNCHANGED <<c_flushed, c_writebuf, c_delivered>>
  BY CallbackNobody, Zenon DEF clientKeeps
<1>3. ClientAt(d, q, c_code, "none") /\ Pending(c_code)
  BY <1>1, <1>2 DEF ClientOnTrack, Callback, Pending
<1>4. \/ c_code' = <<body>> \o Tail(c_code)
      \/ c_code' = <<<< >>>> \o Tail(c_code) /\ call = "map"
      \/ c_code' = <<<< >>>> \o Tail(c_code) /\ call # "map" /\ c_fault' = "refused"
  BY CallbackNobody DEF C!Fail
<1>5. ClientAt(d, q, c_code', c_fault')
  <2>1. CASE c_code' = <<body>> \o Tail(c_code)
    <3>1. ClientAt(d, q, c_code', "none")
      BY <1>2, <1>3, <2>1, ClientCalledBack DEF Callback
    <3>2. QED
      BY <3>1, AnyFault
  <2>2. CASE c_code' = <<<< >>>> \o Tail(c_code) /\ call = "map"
    <3>1. ClientAt(d, q, c_code', "none")
      BY <1>2, <1>3, <2>2, ClientCalledBack DEF Callback
    <3>2. QED
      BY <3>1, AnyFault
  <2>3. CASE c_code' = <<<< >>>> \o Tail(c_code) /\ call # "map" /\ c_fault' = "refused"
    <3>1. ClientAt(d, q, c_code', "refused")
      BY <1>2, <1>3, <2>3, ClientCalledBack DEF Callback
    <3>2. QED
      BY <2>3, <3>1
  <2>4. QED
    BY <1>4, <2>1, <2>2, <2>3
<1>6. ClientOnTrack'
  <2>1. q # 3 => CP!Within(c_flushed', c_writebuf', q)
    BY <1>1, <1>2 DEF ClientOnTrack
  <2>2. QED
    BY <1>1, <1>2, <1>5, <2>1 DEF ClientOnTrack
<1>7. /\ q = d /\ \A rest : <<rest>> \o Tail(c_code) = <<rest>>
      /\ \/ d = 1 /\ answer = "onAdapter"
         \/ d = 2 /\ answer = "onDevice"
         \/ d = 3 /\ answer = "onMap"
  BY <1>2, <1>3, ClientTold
<1>8. ~Pending(c_code')
  <2>1. ~Pending(<<body>>)
    <3>1. body # << >> /\ Head(body) \in {"device", "compute", "Unmap"}
      BY ScriptParts DEF Callback
    <3>2. Statement(<<body>>) \in {"device", "compute", "Unmap"}
      BY <3>1, OneActivation
    <3>3. QED
      BY <3>2 DEF Pending
  <2>2. QED
    BY <1>4, <1>7, <2>1, NoPending
<1>9. ASSUME Answered
      PROVE  /\ Answered' /\ Len(asked) = Len(c_delivered)
             /\ Len(answered) + 1 = Len(asked) /\ call = CallAt(Len(asked))
  <2>1. Len(answered) = d - 1
    BY <1>1, <1>3, <1>9 DEF Answered
  <2>2. Len(answered') = d
    <3>1. answered' = Append(answered, call) /\ call \in Call
      BY DEF ClientCallback, Callback, Call
    <3>2. Len(answered') = Len(answered) + 1
      BY <3>1, AppendProperties DEF Recorded
    <3>3. QED
      BY <2>1, <3>2
  <2>3. Answered'
    BY <1>1, <1>2, <1>8, <2>2 DEF Answered
  <2>4. call = CallAt(d)
    BY <1>7 DEF Callback, CallAt
  <2>5. QED
    BY <1>1, <1>7, <2>1, <2>3, <2>4
<1>10. QED
  BY <1>6, <1>9

LEMMA ClientLoopOnTrack ==
  ASSUME FewTicks, Connected, Stacked, Recorded, OnTrack, ClientLoop
  PROVE  OnTrack'
<1>1. CP!doIO \/ CP!Loop
  BY ClientEndpoint DEF ClientLoop
<1>2. UNCHANGED serverSide /\ gpu' = gpu
  BY DEF ClientLoop, serverSide
<1>3. /\ CP!Made' /\ SP!Made'
      /\ SP!Within(s_flushed', s_writebuf', Len(performed'))
      /\ ServerOnTrack' \/ ServerAstray'
      /\ gpu # "done" => CP!Receiving'
  BY <1>1, <1>2, ClientMoves
<1>4. ASSUME gpu # "done" PROVE ClientOnTrack'
  <2>1. ClientOnTrack /\ CP!Receiving'
    BY <1>3, <1>4 DEF OnTrack
  <2>2. Len(s_flushed) =< 3
    <3>1. PICK f \in Nat, p \in Nat : f = Len(s_flushed) /\ p = Len(performed)
      BY Lengths
    <3>2. f =< p /\ p < 3
      BY <1>4, <3>1, OnTrackCounts
    <3>3. QED
      BY <3>1, <3>2
  <2>3. CP!At("read") /\ Len(c_stack) = 2 => CP!Got = 0
    BY <1>4, NothingForClient
  <2>4. QED
    BY <1>4, <2>1, <2>2, <2>3, OnTrackCounts, ClientLoopGoesOn
<1>5. QED
  BY <1>2, <1>3, <1>4 DEF OnTrack

LEMMA ClientCommandOnTrack ==
  ASSUME FewTicks, Connected, Recorded, OnTrack,
         NEW command \in {"adapter", "device", "compute", "Tick", "Unmap"},
         ClientCommand(command)
  PROVE  OnTrack'
<1>1. CP!App
  <2>1. PICK size \in {Small, MAX} : C!GetCmdSpace(size)
    BY DEF ClientCommand
  <2>2. QED
    BY <2>1, ClientEndpoint DEF CP!App
<1>2. UNCHANGED serverSide /\ gpu' = gpu
  BY DEF ClientCommand, serverSide
<1>3. /\ CP!Made' /\ SP!Made'
      /\ SP!Within(s_flushed', s_writebuf', Len(performed'))
      /\ ServerOnTrack' \/ ServerAstray'
      /\ gpu # "done" => CP!Receiving'
  BY <1>1, <1>2, ClientMoves
<1>4. gpu # "done" => ClientOnTrack'
  BY <1>3, ClientCommandGoesOn DEF OnTrack
<1>5. QED
  BY <1>2, <1>3, <1>4 DEF OnTrack

LEMMA ClientFlushOnTrack ==
  ASSUME FewTicks, Connected, Recorded, OnTrack, ClientFlush \/ ClientReturns
  PROVE  OnTrack'
<1>1. CP!App
  BY ClientEndpoint DEF ClientFlush, ClientReturns, CP!App
<1>2. UNCHANGED serverSide /\ gpu' = gpu
  BY DEF ClientFlush, ClientReturns, serverSide
<1>3. /\ CP!Made' /\ SP!Made'
      /\ SP!Within(s_flushed', s_writebuf', Len(performed'))
      /\ ServerOnTrack' \/ ServerAstray'
      /\ gpu # "done" => CP!Receiving'
  BY <1>1, <1>2, ClientMoves
<1>4. gpu # "done" => ClientOnTrack'
  BY <1>3, ClientFlushGoesOn DEF OnTrack
<1>5. QED
  BY <1>2, <1>3, <1>4 DEF OnTrack

(* A callback of wire_client, or the end of the process, is no step of the *)
(* endpoint; but the process may end in it.                                *)
LEMMA NobodyOnTrack ==
  ASSUME Connected, OnTrack, UNCHANGED <<clientKeeps, serverKeeps>>,
         c_fault' \in {c_fault, "refused"}, s_fault' \in {s_fault, "killed"},
         UNCHANGED <<s_code, gpu, performed>>
  PROVE  /\ CP!Made' /\ SP!Made'
         /\ SP!Within(s_flushed', s_writebuf', Len(performed'))
         /\ ServerOnTrack' \/ ServerAstray'
         /\ CP!Receiving => CP!Receiving'
<1>1. /\ CP!Outside /\ CP!Grown(s_flushed, s_flushed')
      /\ SP!Outside /\ SP!Grown(c_flushed, c_flushed')
  BY NobodyActs
<1>2. CP!Made'
  BY <1>1, CP!OutsideKeeps, ClientAssumption DEF OnTrack
<1>3. CP!Receiving => CP!Receiving'
  BY <1>1, CP!OutsideReceiving, ClientAssumption DEF Connected
<1>4. QED
  BY <1>1, <1>2, <1>3, ServerStays

LEMMA ClientCallbackOnTrack ==
  ASSUME Connected, Recorded, OnTrack, NEW answer, NEW call, NEW body,
         Callback(answer, call, body), ClientCallback(answer, call, body)
  PROVE  OnTrack'
<1>1. /\ UNCHANGED <<clientKeeps, serverKeeps>> /\ c_fault' \in {c_fault, "refused"}
      /\ s_fault' = s_fault /\ UNCHANGED <<s_code, gpu, performed>>
  BY CallbackNobody
<1>2. /\ CP!Made' /\ SP!Made'
      /\ SP!Within(s_flushed', s_writebuf', Len(performed'))
      /\ ServerOnTrack' \/ ServerAstray'
      /\ CP!Receiving => CP!Receiving'
  BY <1>1, NobodyOnTrack
<1>3. gpu # "done" => ClientOnTrack'
  BY <1>2, ClientCallbackGoesOn DEF OnTrack, ClientOnTrack
<1>4. QED
  BY <1>1, <1>2, <1>3 DEF OnTrack
-----------------------------------------------------------------------------
(* The server's steps. *)

(* It reads in a Flush only when the result has been performed.            *)
LEMMA ServerReads ==
  ASSUME Connected, Recorded, OnTrack, SP!doIO \/ SP!Loop \/ SP!App
  PROVE  \/ SP!At("read") /\ Len(s_stack) = 2 => SP!Got = 0
         \/ SP!doIORead /\ Len(s_stack) = 2 /\ gpu = "done"
<1>1. CASE gpu # "done"
  BY <1>1, NothingForServer
<1>2. CASE gpu = "done"
  BY <1>2, SP!ReadsNow, ServerAssumption
<1>3. QED
  BY <1>1, <1>2

(* A body that begins as a header does is no frame of the client.          *)
LEMMA NotGenuine ==
  ASSUME FewTicks, Connected, CP!Made, NEW body, body[1] = SP!MSGT_DAWNCMD
  PROVE  ~Genuine(body, c_flushed)
<1>1. PICK l \in Nat : l = Len(c_flushed) /\ l =< Ticks + 4 /\ DOMAIN c_flushed = 1..l
  <2>1. c_flushed \in Seq(Seq(Nat))
    BY CP!Types, ClientAssumption DEF Connected
  <2>2. QED
    BY <2>1 DEF CP!Made
<1>2. Ticks + 4 < SP!MSGT_DAWNCMD /\ SP!MSGT_DAWNCMD \in Nat /\ Ticks \in Nat
  BY SessionAssumption DEF FewTicks, C!MSGT_DAWNCMD, SP!MSGT_DAWNCMD
<1>3. SP!MSGT_DAWNCMD \notin 1..l
  BY <1>1, <1>2
<1>4. QED
  BY <1>1, <1>3 DEF Genuine

LEMMA ServerLoopAstray ==
  ASSUME FewTicks, Connected, Stacked, Recorded, OnTrack, ServerLoop,
         SP!Receiving, ServerAt(Len(s_delivered), Len(performed), s_code, gpu),
         SP!doIORead, Len(s_stack) = 2, gpu = "done"
  PROVE  ServerOnTrack' \/ ServerAstray'
<1>1. Len(performed) = 3 /\ Len(s_delivered) # 0
  <2>1. PICK p \in Nat, d \in Nat : p = Len(performed) /\ d = Len(s_delivered)
    BY Lengths
  <2>2. p = 3 /\ p =< d
    BY <2>1, ServerCounts
  <2>3. d # 0
    BY <2>2
  <2>4. QED
    BY <2>1, <2>2, <2>3
<1>2. ~SP!FromMain(s_stack)
  <2>1. s_delivered # << >>
    <3>1. Len(<< >>) = 0
      OBVIOUS
    <3>2. QED
      BY <1>1, <3>1, Zenon
  <2>2. QED
    BY <2>1 DEF SP!Receiving
<1>3. performed' = performed
  BY DEF ServerLoop
<1>4. \/ SP!Receiving' /\ s_delivered' = s_delivered
      \/ /\ SP!Stuck' /\ SP!Last(s_delivered')[1] = SP!MSGT_DAWNCMD
         /\ s_delivered' # s_delivered
  <2>1. SP!Numbered(c_flushed)
    BY SameFrames DEF OnTrack, CP!Made
  <2>2. QED
    BY <1>2, <2>1, SP!StuckRead, ServerAssumption DEF Connected
<1>5. CASE SP!Receiving' /\ s_delivered' = s_delivered
  <2>1. UNCHANGED <<s_code, gpu>>
    BY <1>5 DEF ServerLoop
  <2>2. ServerAt(Len(s_delivered'), Len(performed'), s_code', gpu')
    BY <1>3, <1>5, <2>1
  <2>3. QED
    BY <1>5, <2>2 DEF ServerOnTrack
<1>6. CASE /\ SP!Stuck' /\ SP!Last(s_delivered')[1] = SP!MSGT_DAWNCMD
           /\ s_delivered' # s_delivered
  <2>1. PICK body : body = Last(s_delivered')
    OBVIOUS
  <2>2. ~Genuine(body, c_flushed)
    BY <1>6, <2>1, SameLast, NotGenuine DEF OnTrack
  <2>3. ServerHandles(body) = {<< >>}
    BY <2>2 DEF ServerHandles
  <2>4. s_code' = <<<< >> \o <<"Flush">>>> \o s_code /\ gpu' = gpu
    BY <1>6, <2>1, <2>2, <2>3 DEF ServerLoop
  <2>5. s_code' = <<<<"Flush">>>> \o s_code
    BY <2>4, TwoInOne
  <2>6. s_code' # << >> /\ Head(s_code') = <<"Flush">>
    <3>1. PICK X, code : code = s_code /\ code \in Seq(X) /\ <<"Flush">> \in X
      <4>1. PICK Z : s_code \in Seq(Z)
        BY DEF Stacked, IsCode
      <4>2. s_code \in Seq(Z \union {<<"Flush">>}) /\ <<"Flush">> \in Z \union {<<"Flush">>}
        BY <4>1
      <4>3. QED
        BY <4>2
    <3>2. PICK first : first = <<"Flush">>
      OBVIOUS
    <3>3. <<first>> \o code # << >> /\ Head(<<first>> \o code) = first
      BY <3>1, <3>2
    <3>4. QED
      BY <2>5, <3>1, <3>2, <3>3
  <2>7. QED
    BY <1>1, <1>3, <1>6, <2>4, <2>6 DEF ServerAstray
<1>7. QED
  BY <1>4, <1>5, <1>6

LEMMA ServerLoopReceiving ==
  ASSUME Connected, Stacked, Recorded, OnTrack, ServerLoop, SP!doIO \/ SP!Loop,
         SP!Receiving, ServerAt(Len(s_delivered), Len(performed), s_code, gpu),
         SP!At("read") /\ Len(s_stack) = 2 => SP!Got = 0
  PROVE  ServerOnTrack'
<1>1. SP!Receiving'
  <2>1. SP!Numbered(c_flushed)
    BY SameFrames DEF OnTrack, CP!Made
  <2>2. QED
    BY <2>1, SP!ReceivingStep, ServerAssumption DEF Connected
<1>2. PICK p \in Nat, d \in Nat : p = Len(performed) /\ d = Len(s_delivered)
  BY Lengths
<1>3. performed' = performed /\ c_flushed' = c_flushed
  BY DEF ServerLoop, clientSide, clientEnd
<1>4. CASE s_delivered' = s_delivered
  <2>1. UNCHANGED <<s_code, gpu>>
    BY <1>4 DEF ServerLoop
  <2>2. ServerAt(Len(s_delivered'), Len(performed'), s_code', gpu')
    BY <1>3, <1>4, <2>1
  <2>3. QED
    BY <1>1, <2>2 DEF ServerOnTrack
<1>5. CASE s_delivered' # s_delivered
  <2>1. PICK body : body = Last(s_delivered')
    OBVIOUS
  <2>2. /\ Len(s_delivered') = d + 1 /\ Genuine(body, c_flushed) /\ body[1] = d + 1
        /\ s_code = << >>
    BY <1>2, <1>3, <1>5, <2>1, ServerGets
  <2>3. PICK reply \in ServerHandles(body) : s_code' = <<reply \o <<"Flush">>>> \o s_code
    BY <1>5, <2>1 DEF ServerLoop
  <2>4. gpu' = IF d = 2 THEN "busy" ELSE gpu
    <3>1. gpu' = IF Genuine(body, c_flushed) /\ body[1] = 3 THEN "busy" ELSE gpu
      BY <1>5, <2>1 DEF ServerLoop
    <3>2. d + 1 = 3 <=> d = 2
      OBVIOUS
    <3>3. QED
      BY <2>2, <3>1, <3>2
  <2>5. s_code' = <<reply \o <<"Flush">>>>
    BY <2>2, <2>3, Single
  <2>6. \/ d = 0 /\ reply = <<"adapter">>
        \/ d = 1 /\ reply = <<"device">>
        \/ d = 2 /\ reply = << >>
        \/ d > 2 /\ (reply = << >> \/ (gpu = "busy" /\ reply = <<"map">>))
    <3>1. PICK k \in Nat : k = d + 1
      OBVIOUS
    <3>2. reply \in CASE k = 1 -> {<<"adapter">>}
                      [] k = 2 -> {<<"device">>}
                      [] k > 3 /\ gpu = "busy" -> {<< >>, <<"map">>}
                      [] OTHER -> {<< >>}
      BY <2>2, <2>3, <3>1 DEF ServerHandles
    <3>3. \/ k = 1 /\ reply = <<"adapter">>
          \/ k = 2 /\ reply = <<"device">>
          \/ k > 2 /\ reply = << >>
          \/ k > 3 /\ gpu = "busy" /\ reply = <<"map">>
      BY <3>1, <3>2
    <3>4. /\ k = 1 => d = 0
          /\ k = 2 => d = 1
          /\ k > 2 => d = 2 \/ d > 2
          /\ k > 3 => d > 2
      BY <3>1
    <3>5. CASE k = 1 /\ reply = <<"adapter">>
      BY <3>4, <3>5
    <3>6. CASE k = 2 /\ reply = <<"device">>
      BY <3>4, <3>6
    <3>7. CASE k > 2 /\ reply = << >>
      <4>1. d = 2 \/ d > 2
        BY <3>4, <3>7
      <4>2. QED
        BY <3>7, <4>1, Zenon
    <3>8. CASE k > 3 /\ gpu = "busy" /\ reply = <<"map">>
      BY <3>4, <3>8
    <3>9. QED
      BY <3>3, <3>5, <3>6, <3>7, <3>8
  <2>7. ServerAt(d + 1, p, s_code', gpu')
    BY <1>2, <2>2, <2>4, <2>5, <2>6, ServerAsked
  <2>8. QED
    BY <1>1, <1>2, <1>3, <2>2, <2>7 DEF ServerOnTrack
<1>6. QED
  BY <1>4, <1>5

LEMMA ServerLoopOnTrack ==
  ASSUME FewTicks, Connected, Stacked, Recorded, OnTrack, ServerLoop
  PROVE  OnTrack'
<1>1. SP!doIO \/ SP!Loop
  BY ServerEndpoint DEF ServerLoop
<1>2. UNCHANGED clientSide /\ performed' = performed
  BY DEF ServerLoop
<1>3. CP!Made' /\ SP!Made' /\ (ClientOnTrack => ClientOnTrack')
  BY <1>1, <1>2, ServerMoves
<1>4. PICK p \in Nat : p = Len(performed)
  BY Lengths
<1>5. SP!Within(s_flushed', s_writebuf', Len(performed'))
  BY <1>1, <1>2, <1>4, SP!StaysWithin, ServerAssumption DEF Connected, OnTrack
<1>6. ServerOnTrack
  <2>1. ~ServerAstray
    BY <1>1, SP!StuckStep, ServerAssumption DEF Connected, ServerAstray
  <2>2. QED
    BY <2>1 DEF OnTrack
<1>7. SP!Receiving /\ ServerAt(Len(s_delivered), Len(performed), s_code, gpu)
  BY <1>6 DEF ServerOnTrack
<1>8. ServerOnTrack' \/ ServerAstray'
  BY <1>1, <1>7, ServerReads, ServerLoopAstray, ServerLoopReceiving
<1>9. ASSUME gpu' # "done" PROVE ClientOnTrack'
  <2>1. gpu # "done"
    <3>1. PICK d \in Nat : d = Len(s_delivered)
      BY Lengths
    <3>2. gpu = "done" <=> p = 3
      BY <1>4, <1>7, <3>1, ServerCounts
    <3>3. CASE ServerOnTrack'
      <4>1. PICK e \in Nat : e = Len(s_delivered')
        <5>1. (SP!SInv => Len(s_delivered) \in Nat)'
          BY SP!Types, ServerAssumption, PTL
        <5>2. SP!SInv'
          <6>1. SP!Next
            BY <1>1 DEF SP!Next
          <6>2. QED
            BY <6>1, SP!SInvStep, ServerAssumption DEF Connected
        <5>3. QED
          BY <5>1, <5>2
      <4>2. ServerAt(e, p, s_code', gpu')
        BY <1>2, <1>4, <3>3, <4>1 DEF ServerOnTrack
      <4>3. p # 3
        BY <1>9, <4>2, ServerCounts
      <4>4. QED
        BY <3>2, <4>3
    <3>4. CASE ServerAstray'
      BY <1>9, <3>4 DEF ServerAstray
    <3>5. QED
      BY <1>8, <3>3, <3>4
  <2>2. QED
    BY <1>3, <2>1 DEF OnTrack
<1>10. QED
  BY <1>3, <1>5, <1>8, <1>9 DEF OnTrack

LEMMA ServerReplyOnTrack ==
  ASSUME FewTicks, Connected, Recorded, OnTrack, NEW call \in Call, ServerReply(call)
  PROVE  OnTrack'
<1>1. PICK size \in ReplySizes : SP!GetCmdSpace(size)
  <2>1. PICK size \in ReplySizes : S!GetCmdSpace(size)
    BY DEF ServerReply
  <2>2. QED
    BY <2>1, ServerEndpoint
<1>2. SP!App
  BY <1>1 DEF SP!App
<1>3. /\ UNCHANGED clientSide /\ c_flushed' = c_flushed
      /\ Statement(s_code) = call /\ s_code' = Executed(s_code)
      /\ gpu' = (IF call = "map" THEN "done" ELSE gpu)
  BY DEF ServerReply, clientSide, clientEnd
<1>4. CP!Made' /\ SP!Made' /\ (ClientOnTrack => ClientOnTrack')
  BY <1>2, <1>3, ServerMoves
<1>5. PICK p \in Nat, d \in Nat : p = Len(performed) /\ d = Len(s_delivered)
  BY Lengths
<1>6. Len(performed') = p + 1
  <2>1. performed' = Append(performed, call) /\ performed \in Seq(Call)
    BY DEF ServerReply, Recorded
  <2>2. QED
    BY <1>5, <2>1, AppendProperties
<1>7. SP!Within(s_flushed', s_writebuf', Len(performed'))
  BY <1>1, <1>5, <1>6, SP!GrowsWithin, ServerAssumption DEF Connected, OnTrack
<1>8. ServerOnTrack
  <2>1. s_fault = "none"
    BY <1>2, SP!Alive, ServerAssumption
  <2>2. ASSUME ServerAstray PROVE FALSE
    <3>1. s_code # << >> /\ Head(s_code) = <<"Flush">>
      BY <2>1, <2>2 DEF ServerAstray
    <3>2. Statement(s_code) = "Flush"
      BY <3>1, Single DEF Statement
    <3>3. QED
      BY <1>3, <3>2 DEF Call
  <2>3. QED
    BY <2>2 DEF OnTrack
<1>9. SP!Receiving /\ ServerAt(d, p, s_code, gpu)
  BY <1>5, <1>8 DEF ServerOnTrack
<1>10. p < 3 /\ ServerAt(d, p + 1, s_code', gpu')
  BY <1>3, <1>9, ServerReplies
<1>11. gpu # "done"
  <2>1. p # 3
    BY <1>10
  <2>2. QED
    BY <1>9, <2>1, ServerCounts
<1>12. SP!Receiving'
  <2>1. SP!At("read") /\ Len(s_stack) = 2 => SP!Got = 0
    BY <1>11, NothingForServer
  <2>2. QED
    BY <1>2, <1>9, <1>11, <2>1, OnTrackCounts, SP!ReceivingStep, ServerAssumption
    DEF Connected
<1>13. ServerOnTrack'
  <2>1. s_delivered' = s_delivered
    BY <1>2, SP!AppDelivers, ServerAssumption
  <2>2. QED
    BY <1>5, <1>6, <1>10, <1>12, <2>1 DEF ServerOnTrack
<1>14. gpu' # "done" => ClientOnTrack'
  BY <1>4, <1>11 DEF OnTrack
<1>15. QED
  BY <1>4, <1>7, <1>13, <1>14 DEF OnTrack

(* Flush, or the return from onDawnBuffer. *)
LEMMA ServerFlushOnTrack ==
  ASSUME FewTicks, Connected, Recorded, OnTrack, ServerFlush \/ ServerReturns
  PROVE  OnTrack'
<1>1. \/ /\ SP!Flush \/ SP!FlushTooEarly
         /\ Statement(s_code) = "Flush" /\ s_code' = Executed(s_code)
      \/ /\ SP!ReturnFromApp
         /\ s_code # << >> /\ Head(s_code) = << >> /\ s_code' = Tail(s_code)
  BY ServerEndpoint DEF ServerFlush, ServerReturns
<1>2. SP!App
  BY <1>1 DEF SP!App
<1>3. UNCHANGED clientSide /\ c_flushed' = c_flushed /\ UNCHANGED <<performed, gpu>>
  BY DEF ServerFlush, ServerReturns, clientSide, clientEnd
<1>4. CP!Made' /\ SP!Made' /\ (ClientOnTrack => ClientOnTrack')
  BY <1>2, <1>3, ServerMoves
<1>5. PICK p \in Nat, d \in Nat : p = Len(performed) /\ d = Len(s_delivered)
  BY Lengths
<1>6. SP!Within(s_flushed', s_writebuf', Len(performed'))
  BY <1>1, <1>3, <1>5, SP!StaysWithin, ServerAssumption DEF Connected, OnTrack
<1>7. ASSUME ServerOnTrack PROVE ServerOnTrack'
  <2>1. SP!Receiving /\ ServerAt(d, p, s_code, gpu)
    BY <1>5, <1>7 DEF ServerOnTrack
  <2>2. SP!Numbered(c_flushed)
    BY SameFrames DEF OnTrack, CP!Made
  <2>3. ~SP!At("read")
    <3>1. SP!doIORead => SP!doIO
      BY DEF SP!doIO
    <3>2. ~SP!doIORead
      BY <1>1 DEF SP!doIORead, SP!Flush, SP!FlushTooEarly, SP!ReturnFromApp, SP!At
    <3>3. QED
      BY <1>2, <3>2, SP!ReadsNow, ServerAssumption
  <2>4. SP!Receiving'
    BY <1>2, <1>3, <2>1, <2>2, <2>3, SP!ReceivingStep, ServerAssumption DEF Connected
  <2>5. s_delivered' = s_delivered
    BY <1>2, SP!AppDelivers, ServerAssumption
  <2>6. ServerAt(d, p, s_code', gpu)
    BY <1>1, <2>1, ServerFlushes, ServerFinishes
  <2>7. QED
    BY <1>3, <1>5, <2>4, <2>5, <2>6 DEF ServerOnTrack
<1>8. ASSUME ServerAstray PROVE ServerAstray'
  <2>1. ~SP!Flush /\ ~SP!ReturnFromApp /\ (SP!FlushTooEarly => SP!Stuck')
    BY <1>8, SP!StuckStep, ServerAssumption DEF Connected, ServerAstray
  <2>2. SP!FlushTooEarly /\ SP!Stuck'
    BY <1>1, <2>1
  <2>3. s_fault' # "none"
    BY <2>2 DEF SP!FlushTooEarly, SP!Fail
  <2>4. Len(performed') = 3 /\ gpu' = "done"
    BY <1>3, <1>8 DEF ServerAstray
  <2>5. QED
    BY <2>2, <2>3, <2>4, Zenon DEF ServerAstray
<1>9. QED
  BY <1>3, <1>4, <1>6, <1>7, <1>8 DEF OnTrack
-----------------------------------------------------------------------------
(* Both sides stay on the track. *)

LEMMA OnTrackStep ==
  FewTicks /\ Connected /\ Stacked /\ Recorded /\ OnTrack /\ [Next]_vars => OnTrack'
<1> SUFFICES ASSUME FewTicks, Connected, Stacked, Recorded, OnTrack, [Next]_vars
             PROVE  OnTrack'
  OBVIOUS
<1>1. CASE ClientLoop
  BY <1>1, ClientLoopOnTrack
<1>2. ASSUME NEW command \in {"adapter", "device", "compute", "Tick", "Unmap"},
             ClientCommand(command)
      PROVE  OnTrack'
  BY <1>2, ClientCommandOnTrack
<1>3. CASE ClientFlush
  BY <1>3, ClientFlushOnTrack
<1>4. CASE ClientReturns
  BY <1>4, ClientFlushOnTrack
<1>5. CASE \/ ClientCallback("onAdapter", "adapter", onAdapterRequestEnded)
           \/ ClientCallback("onDevice", "device", onDevice)
           \/ ClientCallback("onMap", "map", onMapAsync)
  BY <1>5, ClientCallbackOnTrack DEF Callback
<1>6. CASE ClientExits \/ ServerDies \/ UNCHANGED vars
  <2>1. /\ UNCHANGED <<clientKeeps, serverKeeps>> /\ c_fault' = c_fault
        /\ s_fault' \in {s_fault, "killed"}
        /\ UNCHANGED <<s_code, gpu, performed, c_code, asked>>
    BY <1>6 DEF ClientExits, ServerDies, vars, clientSide, serverSide, clientEnd,
       serverEnd, clientKeeps, serverKeeps
  <2>2. /\ CP!Made' /\ SP!Made'
        /\ SP!Within(s_flushed', s_writebuf', Len(performed'))
        /\ ServerOnTrack' \/ ServerAstray'
        /\ CP!Receiving => CP!Receiving'
    BY <2>1, NobodyOnTrack
  <2>3. ASSUME gpu # "done" PROVE ClientOnTrack'
    <3>1. UNCHANGED <<c_flushed, c_writebuf, c_delivered, c_code, asked, c_fault>>
      BY <2>1 DEF clientKeeps
    <3>2. ClientOnTrack
      BY <2>3 DEF OnTrack
    <3>3. QED
      BY <2>2, <2>3, <3>1, <3>2 DEF ClientOnTrack
  <2>4. QED
    BY <2>1, <2>2, <2>3 DEF OnTrack
<1>7. CASE ServerLoop
  BY <1>7, ServerLoopOnTrack
<1>8. ASSUME NEW call \in Call, ServerReply(call) PROVE OnTrack'
  BY <1>8, ServerReplyOnTrack
<1>9. CASE ServerFlush \/ ServerReturns
  BY <1>9, ServerFlushOnTrack
<1>10. QED
  BY <1>1, <1>2, <1>3, <1>4, <1>5, <1>6, <1>7, <1>8, <1>9 DEF Next, Client, Server

LEMMA OnTrackInit == Init => OnTrack
<1> SUFFICES ASSUME Init PROVE OnTrack
  OBVIOUS
<1>1. CP!Made /\ CP!Receiving /\ CP!Within(c_flushed, c_writebuf, 0)
  BY EndpointsInit, CP!StartsNumbered, ClientAssumption
<1>2. SP!Made /\ SP!Receiving /\ SP!Within(s_flushed, s_writebuf, 0)
  BY EndpointsInit, SP!StartsNumbered, ServerAssumption
<1>3. /\ s_code = << >> /\ gpu = "idle" /\ performed = << >> /\ s_delivered = << >>
      /\ c_code = <<requestAdapter>> /\ asked = << >> /\ c_delivered = << >>
      /\ Len(<< >>) = 0
  BY DEF Init
<1>4. ServerAt(0, 0, << >>, "idle")
  BY DEF ServerAt
<1>5. \A fault : ClientAt(0, 0, <<requestAdapter>>, fault)
  BY DEF ClientAt, Asking
<1>6. ServerOnTrack /\ SP!Within(s_flushed, s_writebuf, Len(performed))
  BY <1>2, <1>3, <1>4, Zenon DEF ServerOnTrack
<1>7. ClientOnTrack
  BY <1>1, <1>3, <1>5, Zenon DEF ClientOnTrack
<1>8. QED
  BY <1>1, <1>2, <1>6, <1>7 DEF OnTrack

(* FiniteSets, too, comes in once with each instance.                      *)
LEMMA SameCounts ==
  \A set : /\ C!Cardinality(set) = CP!Cardinality(set)
           /\ S!Cardinality(set) = SP!Cardinality(set)
BY Zenon DEF C!Cardinality, CP!Cardinality, S!Cardinality, SP!Cardinality

(* Until the result of the script is on its way, each side hands to its    *)
(* program the command buffers the other has flushed, whole, once and in   *)
(* order, for buffers, sockets and commands of any size, wherever a        *)
(* process stops.  What is left of the danger that is in a Flush, which    *)
(* calls the event loop and with it doIORead, is that the other side has   *)
(* nothing to send as long as it waits for an answer.                      *)
(*                                                                         *)
(* The hypothesis is of the numbers that stand for what is in a command    *)
(* buffer: none of them is the first byte of a header.                     *)
THEOREM InOrderWhileWaiting == FewTicks => (Spec => []InOrderUntilMapped)
<1> SUFFICES ASSUME FewTicks PROVE Spec => []InOrderUntilMapped
  OBVIOUS
<1>1. Connected /\ Recorded /\ OnTrack => InOrderUntilMapped
  <2> SUFFICES ASSUME Connected, Recorded, OnTrack, gpu # "done"
               PROVE  C!DeliveredInOrder /\ S!DeliveredInOrder
    BY DEF InOrderUntilMapped
  <2>1. /\ SP!Receiving /\ CP!Receiving
        /\ CP!Numbered(s_flushed) /\ SP!Numbered(c_flushed)
    BY OnTrackCounts
  <2>2. CP!DeliveredInOrder
    BY <2>1, CP!InOrderOfNumbered, ClientAssumption DEF Connected
  <2>3. SP!DeliveredInOrder
    BY <2>1, SP!InOrderOfNumbered, ServerAssumption DEF Connected
  <2>4. C!DeliveredInOrder
    BY <2>2, SameCounts, Zenon
    DEF C!DeliveredInOrder, CP!DeliveredInOrder, C!DawnCmds, CP!DawnCmds,
        C!MSGT_DAWNCMD, CP!MSGT_DAWNCMD
  <2>5. S!DeliveredInOrder
    BY <2>3, SameCounts, Zenon
    DEF S!DeliveredInOrder, SP!DeliveredInOrder, S!DawnCmds, SP!DawnCmds,
        S!MSGT_DAWNCMD, SP!MSGT_DAWNCMD
  <2>6. QED
    BY <2>4, <2>5
<1>2. Connected /\ Stacked /\ Recorded /\ OnTrack /\ [Next]_vars => OnTrack'
  BY OnTrackStep
<1>3. QED
  BY <1>1, <1>2, OnTrackInit, ConnectedInv, CodeInv, PTL DEF Spec
=============================================================================
