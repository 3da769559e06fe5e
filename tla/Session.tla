------------------------------- MODULE Session -------------------------------
(***************************************************************************)
(* One session of the client of main/client.cc with the server of          *)
(* main/server.cc: two endpoints, each an instance of Protocol, with the   *)
(* bytes one has written as the other's input, and the programs that own   *)
(* them.                                                                   *)
(*                                                                         *)
(* The client's program is the script of requestAdapter, in three pieces:  *)
(* what runs before the event loop, and two callbacks that wire_client     *)
(* invokes from HandleCommands, one for each answer; the answer to the     *)
(* third call, MapAsync, ends it.  A callback runs in the activation of    *)
(* onDawnBuffer its answer was delivered to, flushes from there, and may   *)
(* so be interrupted by the next callback.  code is therefore a stack: for *)
(* each activation of the program, the running one first, the statements   *)
(* it has still to execute.                                                *)
(*                                                                         *)
(* The k-th frame that Flush makes is filled with the number k (see        *)
(* GetCmdSpace), which is how the reader of a frame knows it.              *)
(***************************************************************************)
EXTENDS Integers, Sequences, FiniteSets, SequencesExt

CONSTANTS
  HDR, MAX, Slack, PTR, SIZE_T, OutCap,  \* see Protocol
  Small,       \* the size of any command but the largest, which have MAX
  ReplySizes,  \* the sizes of the server's replies
  Ticks,       \* how often the script says device.Tick() and Flush()
  MayRefuse,   \* TRUE: the server may answer a call with a failure
  MayDie       \* TRUE: the server may be killed

ASSUME SessionAssumption ==
  /\ {HDR, MAX, Slack, PTR, SIZE_T, OutCap, Small, Ticks} \subseteq Nat
  /\ HDR > 1 /\ SIZE_T > 0 /\ OutCap > 0
  /\ Small \in 1..MAX /\ ReplySizes \subseteq 1..MAX
  /\ MayRefuse \in BOOLEAN /\ MayDie \in BOOLEAN

VARIABLES
  \* the client's endpoint, as in Protocol
  c_running, c_evWrite, c_rbuf, c_rw, c_dawnCmdRLen, c_writebuf, c_flushbuf,
  c_flushoffs, c_stack, c_fault, c_taken, c_wire, c_flushed, c_delivered,
  \* the server's
  s_running, s_evWrite, s_rbuf, s_rw, s_dawnCmdRLen, s_writebuf, s_flushbuf,
  s_flushoffs, s_stack, s_fault, s_taken, s_wire, s_flushed, s_delivered,
  \* the programs
  c_code, s_code,
  c_exited,  \* the client's main has returned
  gpu,       \* the server's device: "idle", "busy" with the script's work, "done"
  asked, performed, answered  \* the calls, see Calls

clientEnd == <<c_running, c_evWrite, c_rbuf, c_rw, c_dawnCmdRLen, c_writebuf,
               c_flushbuf, c_flushoffs, c_stack, c_fault, c_taken, c_wire,
               c_flushed, c_delivered>>
serverEnd == <<s_running, s_evWrite, s_rbuf, s_rw, s_dawnCmdRLen, s_writebuf,
               s_flushbuf, s_flushoffs, s_stack, s_fault, s_taken, s_wire,
               s_flushed, s_delivered>>
clientSide == <<clientEnd, c_code, c_exited, asked, answered>>
serverSide == <<serverEnd, s_code, gpu, performed>>
vars == <<clientSide, serverSide>>

clientUp == c_fault = "none" /\ ~c_exited
serverUp == s_fault = "none"

(* The endpoints.  What one has written has arrived at the other; what the *)
(* other has not read takes room in the send buffer.  Neither program uses *)
(* the messages that go through _wbuf.                                     *)
C == INSTANCE Protocol WITH
  running <- c_running, evWrite <- c_evWrite, rbuf <- c_rbuf, rw <- c_rw,
  dawnCmdRLen <- c_dawnCmdRLen, writebuf <- c_writebuf, flushbuf <- c_flushbuf,
  flushoffs <- c_flushoffs, stack <- c_stack, fault <- c_fault,
  taken <- c_taken, wire <- c_wire, flushed <- c_flushed,
  delivered <- c_delivered,
  script <- s_flushed, arrived <- Len(s_wire), peerOpen <- serverUp,
  room <- OutCap - (Len(c_wire) - s_taken),
  wlen <- 0, wr <- 0, metaAt <- {}, sentMeta <- 0,
  Server <- FALSE, WSize <- 1, FbInfoSize <- 1, ReservationSize <- 1,
  Scripts <- Seq(Seq(Nat)), AnyCut <- FALSE, Lockstep <- FALSE, WriteErrors <- FALSE,
  MayClose <- FALSE, CmdSizes <- {Small, MAX}, AppFits <- TRUE,
  MaxFrames <- Ticks + 4, MaxMeta <- 0

S == INSTANCE Protocol WITH
  running <- s_running, evWrite <- s_evWrite, rbuf <- s_rbuf, rw <- s_rw,
  dawnCmdRLen <- s_dawnCmdRLen, writebuf <- s_writebuf, flushbuf <- s_flushbuf,
  flushoffs <- s_flushoffs, stack <- s_stack, fault <- s_fault,
  taken <- s_taken, wire <- s_wire, flushed <- s_flushed,
  delivered <- s_delivered,
  script <- c_flushed, arrived <- Len(c_wire), peerOpen <- clientUp,
  room <- OutCap - (Len(s_wire) - c_taken),
  wlen <- 0, wr <- 0, metaAt <- {}, sentMeta <- 0,
  Server <- TRUE, WSize <- 1, FbInfoSize <- 1, ReservationSize <- 1,
  Scripts <- Seq(Seq(Nat)), AnyCut <- FALSE, Lockstep <- FALSE, WriteErrors <- FALSE,
  MayClose <- FALSE, CmdSizes <- ReplySizes, AppFits <- TRUE,
  MaxFrames <- 4, MaxMeta <- 0
-----------------------------------------------------------------------------
(* The client's script: the calls and commands it serializes, and Flush.   *)
(* "compute" is everything from the bind group layout to Submit and        *)
(* MapAsync, which is the call in it.                                      *)
requestAdapter == <<"adapter", "Flush">>
onAdapterNotAwaited ==  \* mutant: the device is used before it is there
  <<"device", "Flush", "compute", "Flush">>
onAdapterRequestEnded == <<"device", "Flush">>
onDevice == <<"compute", "Flush">>
              \o FlattenSeq([i \in 1..Ticks |-> <<"Tick", "Flush">>])
onMapAsync == <<"Unmap">>

Call == {"adapter", "device", "map"}
CallIn(command) == IF command = "compute" THEN "map" ELSE command

(* A body is a frame the other side has sent, or was put together wrongly. *)
Genuine(body, frames) ==
  body # << >> /\ body[1] \in DOMAIN frames /\ frames[body[1]] = C!DawnCmd(body)

(* What HandleCommands of wire_client finds in a body: the answer to the   *)
(* k-th call, whose callback it invokes, or nothing it understands.        *)
ClientHandles(body) ==
  IF Genuine(body, s_flushed)
  THEN <<<<"onAdapter", "onDevice", "onMap">>[body[1]]>> ELSE << >>

(* HandleCommands of the server: native Dawn answers the first two calls   *)
(* at once, and MapAsync at a Tick, when the GPU is done.                  *)
ServerHandles(body) ==
  LET k == IF Genuine(body, c_flushed) THEN body[1] ELSE 0
  IN CASE k = 1 -> {<<"adapter">>}
       [] k = 2 -> {<<"device">>}
       [] k > 3 /\ gpu = "busy" -> {<< >>, <<"map">>}
       [] OTHER -> {<< >>}

Statement(code) == IF code = << >> \/ Head(code) = << >> THEN "none" ELSE Head(Head(code))
Executed(code) == <<Tail(Head(code))>> \o Tail(code)
-----------------------------------------------------------------------------
Init ==
  /\ c_running = TRUE /\ c_evWrite = FALSE /\ c_rbuf = << >> /\ c_rw = 0
  /\ c_dawnCmdRLen = 0 /\ c_writebuf = C!DawnCmdHeader(0) /\ c_flushbuf = << >>
  /\ c_flushoffs = 0 /\ c_fault = "none" /\ c_taken = 0 /\ c_wire = << >>
  /\ c_stack = <<[pc |-> "app", wr |-> FALSE, via |-> "main"]>>
  /\ c_flushed = << >> /\ c_delivered = << >>
  /\ s_running = TRUE /\ s_evWrite = FALSE /\ s_rbuf = << >> /\ s_rw = 0
  /\ s_dawnCmdRLen = 0 /\ s_writebuf = S!DawnCmdHeader(0) /\ s_flushbuf = << >>
  /\ s_flushoffs = 0 /\ s_fault = "none" /\ s_taken = 0 /\ s_wire = << >>
  /\ s_stack = << >> /\ s_flushed = << >> /\ s_delivered = << >>
  /\ c_code = <<requestAdapter>> /\ s_code = << >>
  /\ c_exited = FALSE /\ gpu = "idle"
  /\ asked = << >> /\ performed = << >> /\ answered = << >>
-----------------------------------------------------------------------------
(* The client. *)

ClientLoop ==
  /\ UNCHANGED <<serverSide, c_exited, asked, answered>>
  /\ C!doIO \/ C!Loop
  /\ c_code' = IF c_delivered' = c_delivered THEN c_code
               ELSE <<ClientHandles(Last(c_delivered'))>> \o c_code

ClientCommand(command) ==
  /\ Statement(c_code) = command
  /\ UNCHANGED <<serverSide, c_exited, answered>>
  /\ C!GetCmdSpace(IF command = "compute" THEN MAX ELSE Small)
  /\ c_code' = Executed(c_code)
  /\ asked' = IF CallIn(command) \in Call THEN Append(asked, CallIn(command)) ELSE asked

ClientFlush ==
  /\ Statement(c_code) = "Flush"
  /\ UNCHANGED <<serverSide, c_exited, asked, answered>>
  /\ C!Flush \/ C!FlushTooEarly
  /\ c_code' = Executed(c_code)

(* A callback starts with the answer, which may be a failure: the adapter  *)
(* is used all the same, and null; the device's status is asserted.        *)
ClientCallback(answer, call, body) ==
  /\ Statement(c_code) = answer
  /\ C!At("app")
  /\ UNCHANGED <<serverSide, c_exited, asked>>
  /\ \/ /\ c_code' = <<body>> \o Tail(c_code)
        /\ answered' = Append(answered, call)
        /\ UNCHANGED clientEnd
     \/ /\ MayRefuse
        /\ IF call = "map" THEN UNCHANGED clientEnd ELSE C!Fail("refused")
        /\ c_code' = <<<< >>>> \o Tail(c_code)
        /\ answered' = Append(answered, call)

ClientReturns ==
  /\ c_code # << >> /\ Head(c_code) = << >>
  /\ UNCHANGED <<serverSide, c_exited, asked, answered>>
  /\ C!ReturnFromApp
  /\ c_code' = Tail(c_code)

(* With its only watcher stopped ev_run returns, and main after it. *)
ClientExits ==
  /\ clientUp /\ ~c_running /\ c_stack = << >>
  /\ c_exited' = TRUE
  /\ UNCHANGED <<serverSide, clientEnd, c_code, asked, answered>>
-----------------------------------------------------------------------------
(* The server. *)

ServerLoop ==
  /\ UNCHANGED <<clientSide, performed>>
  /\ S!doIO \/ S!Loop
  /\ \/ /\ s_delivered' = s_delivered
        /\ UNCHANGED <<s_code, gpu>>
     \/ /\ s_delivered' # s_delivered
        /\ \E reply \in ServerHandles(Last(s_delivered')) :
             s_code' = <<reply \o <<"Flush">>>> \o s_code
        /\ gpu' = IF Genuine(Last(s_delivered'), c_flushed) /\ Last(s_delivered')[1] = 3
                  THEN "busy" ELSE gpu

ServerReply(call) ==
  /\ Statement(s_code) = call
  /\ UNCHANGED clientSide
  /\ \E size \in ReplySizes : S!GetCmdSpace(size)
  /\ s_code' = Executed(s_code)
  /\ performed' = Append(performed, call)
  /\ gpu' = IF call = "map" THEN "done" ELSE gpu

ServerFlush ==
  /\ Statement(s_code) = "Flush"
  /\ UNCHANGED <<clientSide, performed, gpu>>
  /\ S!Flush \/ S!FlushTooEarly
  /\ s_code' = Executed(s_code)

ServerReturns ==
  /\ s_code # << >> /\ Head(s_code) = << >>
  /\ UNCHANGED <<clientSide, performed, gpu>>
  /\ S!ReturnFromApp
  /\ s_code' = Tail(s_code)

ServerDies ==
  /\ MayDie /\ serverUp
  /\ s_fault' = "killed"
  /\ UNCHANGED <<clientSide, s_running, s_evWrite, s_rbuf, s_rw, s_dawnCmdRLen,
                 s_writebuf, s_flushbuf, s_flushoffs, s_stack, s_taken, s_wire,
                 s_flushed, s_delivered, s_code, gpu, performed>>
-----------------------------------------------------------------------------
Client == \/ ClientLoop \/ ClientFlush \/ ClientReturns \/ ClientExits
          \/ \E command \in {"adapter", "device", "compute", "Tick", "Unmap"} :
               ClientCommand(command)
          \/ ClientCallback("onAdapter", "adapter", onAdapterRequestEnded)
          \/ ClientCallback("onDevice", "device", onDevice)
          \/ ClientCallback("onMap", "map", onMapAsync)
Server == \/ ServerLoop \/ ServerFlush \/ ServerReturns
          \/ \E call \in Call : ServerReply(call)

Next == Client \/ Server \/ ServerDies

Spec == Init /\ [][Next]_vars

(* Two processes of one thread each, which never pause. *)
FairSpec == Spec /\ WF_vars(Client) /\ WF_vars(Server)
-----------------------------------------------------------------------------
InProgram(stack) == {i \in DOMAIN stack : stack[i].pc \in {"app", "poll", "return"}}

(* Type invariant: the statements left to execute belong, one for one, to  *)
(* the activations of the program that are on the C++ stack.               *)
TypeOK ==
  /\ c_exited \in BOOLEAN /\ gpu \in {"idle", "busy", "done"}
  /\ Len(c_code) = Cardinality(InProgram(c_stack))
  /\ Len(s_code) = Cardinality(InProgram(s_stack))
  /\ asked \in Seq(Call) /\ performed \in Seq(Call) /\ answered \in Seq(Call)

(* In flight from one side to the other: written, and not yet read. *)
ToServer == Len(c_wire) - s_taken
ToClient == Len(s_wire) - c_taken

(* What a connected side has in _rbuf is what the other has written last   *)
(* of what was read, no byte missing; and what was written is the command  *)
(* buffers that were flushed, whole and in order, until one side stops;    *)
(* the kernel never holds more than it can, and nothing is read that was   *)
(* not written.                                                            *)
BytesGoThrough ==
  /\ C!FramesInOrder /\ S!FramesInOrder
  /\ ToServer \in 0..OutCap /\ ToClient \in 0..OutCap
  /\ s_running => s_rbuf = SubSeq(c_wire, s_taken - Len(s_rbuf) + 1, s_taken)
  /\ c_running => c_rbuf = SubSeq(s_wire, c_taken - Len(c_rbuf) + 1, c_taken)

(* Up to the moment the result of the script is on its way, each side gets *)
(* the command buffers the other has flushed, whole, once and in order.    *)
(* (From then on an answer meets requests that did not wait for it.)       *)
InOrderUntilMapped == gpu # "done" => C!DeliveredInOrder /\ S!DeliveredInOrder

(* Not one of the client's flushes in a row, nor of those of a callback in *)
(* between, finds the buffer before it unwritten.                          *)
ClientMayFlush == c_fault # "assert_flush"

(* "assert(_dawnout.flushlen == 0 /* is done flushing previous buffer */)" *)
(* holds in the server of this client.                                     *)
ServerMayFlush == s_fault # "assert_flush"

(* The session is one of remote calls, one at a time, each asked once,     *)
(* performed once and answered once.                                       *)
Exchange == INSTANCE Calls
ImplementsCalls == Exchange!Spec

(* The client gets its device, unless the server is killed or refuses: no  *)
(* wakeup, flush or answer is lost on the way.                             *)
DeviceObtained ==
  <>(Contains(answered, "device") \/ s_fault = "killed" \/ c_fault = "refused")

(* When one process has ended, at whatever point, the other notices:       *)
(* the client's process ends too, the server stops the connection (or is   *)
(* killed by what it still had to write).                                  *)
EndNoticed == /\ ~serverUp ~> ~clientUp
              /\ ~clientUp ~> ~s_running \/ ~serverUp
=============================================================================
