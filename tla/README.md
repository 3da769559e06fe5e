# A TLA+ model of dawn-bazel-example

The repository holds two programs that talk over a UNIX stream socket: a server
that owns a GPU device (`main/server.cc`) and a client that sends it WebGPU
commands (`main/client.cc`). Both use the same endpoint class,
`DawnRemoteProtocol` (`main/protocol.{hh,cc}`), on a ring buffer (`main/pipe.hh`)
and a libev loop. This directory models that code, checks it with TLC and
proves part of it with TLAPS. Line numbers below are those of `main/`.

1. [The system](#1-the-system)
2. [The modules and the code](#2-the-modules-and-the-code)
3. [The runs](#3-the-runs)
4. [Bounds and fairness](#4-bounds-and-fairness)
5. [The proofs](#5-the-proofs)
6. [Where code and intent disagree](#6-where-code-and-intent-disagree)
7. [What is not modelled](#7-what-is-not-modelled)
8. [Plan](#8-plan)

## 1. The system

| Part | Code | State | Operations |
|---|---|---|---|
| Pipe | `pipe.hh` | `_storage`, `_w`, `_r` | `write`, `writec`, `readFromFD`, `read`, `discard`, `writeToFD`, `takeRef`, `clear` |
| DawnRemoteProtocol | `protocol.{hh,cc}` | `_rbuf`, `_wbuf`, `_dawnCmdRLen`, `_dawnout`, `_rl`, `_io` | `start`, `stop`, `doIO`, `readMsg`, `maybeReadIncomingDawnCmd`, `GetCmdSpace`, `Flush`, `send*`, `setNeedsWriteFlush` |
| Server | `server.cc` | the file `SERVER_SOCK`, `conn0`, the listener's watcher, each `Conn` with its fd | `createUNIXSocketServer`, `onServerIO`, `Conn::start`, `Conn::close`, `onDawnBuffer` |
| Client | `client.cc` | `Connection`, how far its script is | connect with retries, the script `requestAdapter` with its callbacks `onAdapterRequestEnded`, `onDevice`, `onMapAsync`, the run loop |
| debug | `debug.cc`, `pipe.cc` | none beyond a call | `debugFmtBytes`, called by the traces of `Flush` and of the pipes |
| common | `common.cc` | none | names, socket helpers |
| hello-world | `hello-world.cc` | one process with a window | a separate example |

**How they interact.** libev calls `doIO` when the socket is ready. `doIO` reads
into `_rbuf` and parses it; a complete command buffer is handed to the callback
`onDawnBuffer`, by reference into the ring where it is contiguous. The program
then produces commands of its own, into `_dawnout.writebuf` by `GetCmdSpace`, and
`Flush` swaps that buffer with `flushbuf`, requests `EV_WRITE`, and calls
`ev_run(_rl, EVRUN_NOWAIT)`. That call is what makes the program hard: there is one
thread, but `doIO`, `onDawnBuffer` and the server's `onServerIO` are entered again
while earlier activations of them are on the stack. `Pipe` is used only through
`DawnRemoteProtocol`; `Server` owns at most one `Conn` and replaces it when the next
client connects.

**What is hard, and what correct means.**

* *Pipe.* Modular offsets, full against empty, copies split at the wrap, system
  calls that are short or fail half way. Correct: it is a FIFO of `cap()` bytes.
* *DawnRemoteProtocol, sending.* Buffers leave in pieces while others are being
  filled, meta messages share the stream, `EV_WRITE` is switched on and off by
  nested handlers. Correct: the wire carries the flushed command buffers, whole, in
  order and once; meta messages come between them; waiting bytes have `EV_WRITE`
  requested; a flush completes.
* *DawnRemoteProtocol, receiving.* A stream is cut anywhere; handlers nest.
  Correct: no byte is lost; the program gets the command buffers that were sent, in
  order; what has arrived is delivered; nothing is read under a running handler.
* *Server.* Accepting while handlers are suspended, deleting a connection the loop
  knows, clients that come and go. Correct: the last client wins, no descriptor is
  left behind, no event reaches a deleted `Conn`, no client waits for ever; a
  server that has died can be started again over the file it left.
* *Client.* Its script runs in callbacks that flush, and so run the loop, before they
  return; and it flushes many times without a return to the loop. Correct: each flush
  finds the previous buffer gone, and the script ends or the process does.
* *Both together.* Remote calls with the answers nested in one another, over buffers
  on both sides that are written when the loops get to it. Correct: a call is
  performed once and answered once, and before it is answered no other is made; the
  device is obtained; when one process dies the other notices.
* *Traces.* Text of varying length in a buffer of five bytes for one, of data that may
  be one byte or none. Correct: nothing is written beyond it.

`PROJECT.json` lists every hazard with its line and the properties aimed at it.

## 2. The modules and the code

| Module | What it is |
|---|---|
| `ByteFifo` | abstract: a FIFO of at most `Cap` bytes, with the results of every operation |
| `Pipe` | `pipe.hh` on its storage array; implements `ByteFifo` |
| `PipeProofs` | theorems about `Pipe` |
| `FrameChannel` | abstract: a channel that takes one frame at a time and emits its bytes once and in order |
| `Protocol` | one endpoint, its loop, its program and its socket; the sending side implements `FrameChannel` |
| `ProtocolProofs` | proofs about `Protocol`: what `FlattenSeq` is for sequences of any length, its type invariant, wakeups, room and no gap in `_rbuf`; its sending side: order on the wire, nesting, `FrameChannel` |
| `FrameProofs` | an endpoint whose peer numbers its command buffers, as both do in `Session`: what it delivers, how much it flushes, and when its buffers leave at once (`Prompt`) |
| `DeliveryProofs` | both sides of the server, used as it is meant to be: delivery |
| `Server` | start-up and death, the listener, the connections and the loop's pending events |
| `ServerProofs` | theorems about `Server` |
| `Calls` | abstract: remote calls, one after the other |
| `Session` | the client's script and the server on two instances of `Protocol`; implements `Calls` |
| `SessionProofs` | proofs about `Session`: the bytes between the two, its type invariant, and delivery in order |
| `CallProofs` | proofs about `Session`: it implements `Calls`, and the client's flushes come in time |
| `TraceText` | `debugFmtBytes`, the places it writes to, with its theorems |
| `MCPipe`, `MCProtocol`, `MCServer`, `MCSession` | the values of constants TLC needs |

### Pipe

`storage`, `w` and `r` are `_storage`, `_w` and `_r`; there is one action per member
function, with the two chunks of each copy as they are in the code. `last` is what
the caller of the last operation saw (operation, result, bytes) and `ref` the memory
of the last `takeRef`; the code has neither, the properties need them. A system call
may move any number of bytes or fail; after a failing second call the first chunk is
in the storage (or in the file), as in the code. `writec` and `readFromFD` leave
`ref` alone while `write` and `clear` end it: that is the comment of line 78, which the
run `PipeTakeRef` refutes.

### Protocol

The constant `Server` says which program owns the endpoint. The C++ stack is the
variable `stack`, the running activation of `doIO` first; its `pc` is one of
`read`, `parse`, `app`, `poll`, `return`, `write` (explained in the module). Actions
are the stretches of code between two points where something else can run or a
decision is taken: `doIORead`, one action per case of `readMsg`, `Flush`, the poll
inside it, and the ways the `EV_WRITE` section can end. `Poll` is an iteration of the
outer loop and `NestedPoll` the one inside `Flush`.

* `rbuf` and `rw` stand for `_rbuf`: its bytes (justified by `Pipe`, whose ring is a
  FIFO) and `_w`, which decides whether `readFromFD` needs a second `::read`.
  Likewise `wlen` and `wr` for `_wbuf`.
* `writebuf` and `flushbuf` are the written parts of the two buffers; the swap of
  pointers is an exchange of contents. The length in a header is one byte, at the
  position after the type; the header bytes nothing reads are 0. `GetCmdSpace`
  computes in `size_t` modulo `SIZE_T`.
* `script`, `arrived`, `taken`, `peerOpen` and `room` are the peer and the socket:
  what it sends, how much has arrived, how much was read, whether it is there, and
  the free space in the send buffer. `Arrive` cuts the stream, `PeerRead` makes room.
* Whatever ends the process or is undefined sets `fault`: a failing assertion, an
  unset `std::function`, a null loop, a write beyond a buffer, SIGPIPE.
* `wire`, `metaAt`, `flushed`, `delivered` record history for the properties.

### Server

`pending` is the set of events of the loop that were found and not invoked; a nested
`ev_run` first invokes what is pending, then polls once and invokes what it found.
`onServerIO` is one action with everything it calls: `accept`, `close()` of the older
connection with `stop`, `::close` and `delete`, the new `Conn` and its `start`.
A connection is named by its client. Of the protocol only whole requests, replies,
EOF and `stop()` are kept. `deleted` remembers what has been freed, so that a return
into it can be told (`FlushReturnsToDeleted`).

`main` is where `main()` is: the three steps of `createUNIXSocketServer`, each of which
may be the last (`SetupFails`, `Kill`), `createDawnDevice`, and the loop. `path` is the
file of the socket. It is all that outlives the process: `Vanish` takes the rest, and
with the sockets the clients that were connected or in the backlog; `Restart` begins
with the file as it was left. `Connect` is the whole of the client's retry loop
(`client.cc:475-490`): attempts that fail change nothing.

### Session and Calls

`Session` has two instances of `Protocol`, `C` and `S`, with their variables prefixed
`c_` and `s_`. What one has written is what has arrived at the other
(`arrived <- Len(s_wire)`), and what the other has not read takes room in the send
buffer (`room`), so that the kernel's buffer is the only thing between them. Each
action of the programs is joined with the action of the endpoint it calls:
`ClientFlush` with `C!Flush`, `ServerLoop` with `S!doIO`, and so on.

The programs are stacks of statements, `c_code` and `s_code`, one list for each
activation of the program on the C++ stack. `requestAdapter`, `onAdapterRequestEnded`,
`onDevice` and `onMapAsync` are the client's functions in `client.cc`, with the commands
between two flushes as one statement; the server's is `HandleCommands`, which may
produce an answer, and then `Flush`. A callback is pushed when a command buffer is
delivered (`ClientHandles`), in the activation of `doIO` that delivered it, possibly one
nested in the flush of another callback.

A frame's bytes are numbers: the k-th frame one side makes is filled with k, which is
how the other side knows what is in it, and knows that it is whole (`Genuine`). A body
that was put together wrongly is not understood and has no effect. `gpu` is the
device's work between `Submit` and the `Tick` that finds it done; native Dawn answers
the first two calls at once. A call may be refused (`MayRefuse`): the client then goes
on with a null adapter or fails the assertion on the device, and both end it.

`Calls` is what the two programs promise together: `Ask`, `Perform` and `Answer`, in
that order, whatever lies between. `asked`, `performed` and `answered` record them.

### TraceText

One action is one turn of the loop of `debugFmtBytes`, called by `Flush` or by
`_PipeTrace` (`caller`), which both allocate five bytes for one. `Flush` traces only
what is more than a header; `_PipeTrace` traces whatever a pipe has moved, so any
length, 0 at each end of file, for which `dstend` wraps to `SIZE_MAX`. Both traces are
compiled in (`protocol.hh:13-16`). Of the text only places are kept: `dsti`, `dstlinestart`, and `written`, the end of what the last byte's text took in
`dst`, which for a byte without a name is more than `dsti` advances by, because
`x%X02` is not the format meant.

Operators marked `mutant` are what a definition would be with a plausible mistake in
it (a test that is missing, an off-by-one); they are used nowhere. Substituted for
the definition before which they stand, each breaks the property `PROJECT.json`
names with it, so no property holds for want of a case that could violate it.

## 3. The runs

`tlc -config X.cfg M`, with the module `M` that `PROJECT.json` names for `X`.

| Run | Question | Shows |
|---|---|---|
| `PipeFifo` | is the ring a FIFO? | `TypeOK`, `ImplementsFifo` |
| `ServerLockstep` | does the server do its job when used as intended? | `DeliveredInOrder`, `NoReadWhileHandling`, `OnlyThePeerEndsIt`, `FlushCompletes`, `ReturnsToLoop` |
| `AnyPeer` | what holds of an endpoint whatever its peer and its program do? | `TypeOK`, `NoLostWakeup`, `FramesInOrder`, `RoomToRead`, `MetaBetweenFrames`, `NoGapInRbuf`, `NestsOnce`, `ImplementsFrameChannel` |
| `ServerConns` | are connections replaced correctly, is every client served, and does a dead server come back? | `TypeOK`, `LastInWins`, `NoEventForDeleted`, `AcceptFindsOne`, `EveryClientAccepted`, `DisconnectNoticed`, `ClientsGetThrough` |
| `ClientSession` | does the real client's script work with the server? | `TypeOK`, `BytesGoThrough`, `InOrderUntilMapped`, `ClientMayFlush`, `ImplementsCalls`, `DeviceObtained`, `EndNoticed` |
| `FlushTrace` | does the trace of a flush stay in its buffer, and is none refused? | `FlushTraceInside`, `NeverRefuses` |

The other ten configurations each find a violation: see section 6. Six of them are in
`PROJECT.json`, as what the two programs can run into; the other four are beside them.

`ServerLockstep` and `AnyPeer` belong together. In lock step the client sends a
request when the answer to the one before has come, and its messages are not cut
inside a header, nor is a part of a body read together with its header (see
`CutAllowed`). The delivery properties hold there, and not without these
conditions: section 6. The properties of the buffers hold without them. `AnyPeer` has
the client's program, which may flush any number of times from anywhere; the
server's, which flushes once at the end of each callback, does nothing that
program may not do.

`ClientSession` is between the two: its peers are the real programs. They are in lock
step up to the result of the script (`gpu = "done"`), and there delivery is in order;
from then on `Tick` and `Flush` go on without waiting, a request may meet an unwritten
answer, and the server aborts (`FlushAssertion`). `ImplementsCalls` and `EndNoticed`
hold through all of it. A socket between two processes on one machine passes on whole
writes, which is why `Session` has no cut of its own: what is cut is what did not fit.

## 4. Bounds and fairness

* *Pipe.* `Size = 3`, two byte values, requests 0..3: every length, every offset,
  both sides of the wrap and requests beyond the capacity. The theorems cover every
  size.
* *Protocol.* `HDR = 2`, `MAX = 3`, `Slack = 2`: `_rbuf` has 7 bytes, so that a
  command buffer of three fits with its header, wraps at many offsets, and two small
  ones may wait together. With `WSize = 3` (in `AnyPeer`) the second meta
  message of two bytes wraps `_wbuf`, and is written in two chunks.
  `OutCap = 3` is smaller than the frames, so that writes are short. `PTR = 1` and
  `SIZE_T = 64` stand for 8 and 2^64: what matters is
  that `PTR` is smaller than most sizes and `SIZE_T` larger than any length.
  `MaxFrames` (2 or 3) and `MaxMeta` bound what the program sends; scripts of
  at most four messages bound the peer. Two frames suffice for one to wait behind
  another, three for a nested handler to find both. `AppFits` keeps the program
  within the command buffer, as the small batches of these programs do;
  `AnyPeer` does without it, with commands of one byte, for which there is no space
  (`PTR`), and of three (`MCEnds`): two of those overflow the buffer.
* *Server.* Three clients, two requests in all, a backlog of one (`Backlog`; the code
  has 5), one failing `accept`, `bind` or `listen` (`Errors`) and one restart
  (`MaxRestarts`): a connection can be replaced twice, handlers nest twice, one
  request can find the answer to another unfinished, a client may have to wait for
  space in the backlog, and the server may die at every step of its start and of
  its loop and start over what it left.
* *Session.* `HDR = 2`, `MAX = 5`, commands of 2 bytes (`Small`) and one of 5, replies of 2
  or 5, so that a frame is from 4 to 7 bytes. `OutCap = 14` holds two of the largest;
  11 is the least with which `ClientMayFlush` holds, and that it holds rests on the
  kernel's buffer taking a whole flush at once, as it takes the few kilobytes of the
  script. Before the server reads, the last `Tick` may find three bytes of room, so that
  a short write happens too. A header always goes whole with it: headers cut in two, and
  the loop they leave (`PartialHeader`), are not in this run. `Slack = 60` makes `_rbuf` larger than
  a session, as it is in the code. `Ticks = 2` for some twenty: one Tick may be too
  early for the GPU, and one may come after the result. The nesting of the three callbacks is complete.
* *TraceText.* `Lengths = {0, 1, 2, 8, 10, 21, 41}`: no data, the short data of a pipe,
  the least that `Flush` traces (a header and one byte), and lengths that cross the first
  line break with bytes of four characters (21) and of two (41). `SIZE_MAX = 65535` is
  larger than any place. The theorems cover every length.

`CHECK_DEADLOCK FALSE` where the system may really stop: a process that has ended
(`fault`), a stopped connection, a session or a text that is finished, or peers that
have said all they have to say. The Pipe runs check deadlock.

*Fairness.* `Protocol!FairSpec` has weak fairness of the union of all steps of the
endpoint: it is one thread that never sleeps except in the poll, and a poll that
finds something ready is enabled until it is taken. It has weak fairness of the
peer's sending and reading: the runs that use it ask what happens when the peer
keeps going. No fairness is assumed of errors, of closing, or of one action over
another inside the program; `GetCmdSpace` and the `send` operations are bounded, so
the callback ends. `Server!FairSpec` has weak fairness of the server's thread, of some
client's connecting while one can (`client.cc` retries for ever, 475-490), and of
`Restart`: somebody starts the server again, as often as `MaxRestarts` says; none of
requests, leaving, killing or failing. That `accept` fails only finitely often
(`Errors`) is part of what `EveryClientAccepted` assumes. `Session!FairSpec` has weak
fairness of each of the two processes as a whole and of nothing else: which of its
steps a process takes, whether the GPU is ever done, whether a call is refused or the
server killed is left open.

## 5. The proofs

`tlapm` checks every step of the eight modules that hold theorems. What they assume
are the `ASSUME`s of the modules they are about, which say what kind of number each
constant is (`Size > 0`, `HDR > 1`, sizes of requests between 1 and `MAX`, a backlog of
at least one, a send buffer of at least one byte, five bytes for each byte of a trace a
`size_t`), and hypotheses that stand in the theorems themselves: for three of them the
conditions of `ServerLockstep` (see *Delivery*), for three of `Session` `FewTicks`, and for
one of these `KernelTakes`.

**Pipe**, for every `Size`, `Byte` and `Requests`:

* `TypeCorrect`: `Spec => []TypeOK`, which is inductive as it stands. The lemmas
  `AdvanceInOffsets`, `CopyInType` and `CopyOutType` bound the arithmetic.
* `RingIsFifo`: `Pipe` implements `ByteFifo` with the bytes from `r` to `w` as the
  queue. The heart is `CopyInAppends` (copying in at `_w` adds at the end, over the
  wrap), `CopyOutIsFirst` (copying out gives the oldest), and `ContentAfterWrite`,
  `ContentAfterRead`, `ContentAfterFailedRead`, which say what each kind of
  operation does to the queue. `FifoStep` has a case for each operation. The
  invariant it needs is `TypeOK`.

**Protocol**, for all constants, so for any peer, any script, any program and any
sizes:

* `NoWakeupIsLost`: `NoLostWakeup` with no strengthening: only `Flush` and `send`
  make bytes wait, and both request `EV_WRITE`; only `doIODrain` stops requesting
  it, when nothing waits.
* `TypeCorrect`, `NeverReadsIntoFull` and `NoGap`: `TypeOK`,
  `RoomToRead` and `NoGapInRbuf`, from one inductive invariant,
  `RInv = ReceiveTypeOK /\ Frames(stack) /\ Reading /\ Room /\ Window`.
  That `doIO` finds room when it reads is not inductive: `_rbuf` may be full while it
  is parsed. `Room` says when it may not: whenever anything but `readMsg` runs. It is
  kept because `readMsg` ends in one of three ways, with `_rbuf` empty, waiting for a
  command buffer with less than one in it (which leaves the `Slack`), or having taken
  one out; and because of `Frames`, that the activations below the running one are all
  in callbacks, so that returning to one never resumes a parse. `Reading` says that
  the connection is up when `doIO` is about to read. `Window` says that `_rbuf` is some
  part of the stream that ends at `taken`; taking bytes from its front
  (`DropFromPart`) and reading at its end (`FillPart`) keep that, whatever messages the
  bytes are taken for.
* `WireInOrder`, `NestsOnlyOnce`, `MetaNeverInside` and `SendsFrames`:
  `FramesInOrder`, `NestsOnce`, `MetaBetweenFrames` and `ImplementsFrameChannel`. The
  first is inductive as long as the connection is up. What needs an argument is
  `stop()`: it forgets a command buffer that may be half written, while other
  activations of the same connection are still on the stack and go on to their
  `EV_WRITE` sections, where bytes of `_wbuf` may follow. The invariant is `SInv`, which
  adds four facts. `LastFlushed`: what is in `flushbuf` is the last command buffer
  flushed. `Nesting`: there are at most two activations, and while there are two, or
  the loop is about to be run inside `Flush`, the command buffer of that `Flush` is
  there and none of its bytes is written; for the inner activation comes to its
  `EV_WRITE` section last, and before that it could only `Flush` again, which the
  assertion of line 360 forbids. `StoppedWhole`: so if the inner one stops the
  connection, the wire ends with a whole command buffer when the outer goes on.
  `Quiet`: a command buffer flushed after `stop()` goes nowhere, because `ev_run`
  is called on a null loop next. `FrameChannel` therefore promises that nothing is
  written after it was given up, and `ChannelStep` maps every step to it.

These speak of `FlattenSeq`, the concatenation of a sequence of sequences, which is
defined by a recursive function. The induction theorems of the library cannot be
used here, as they take an operator for a parameter; `ProtocolProofs` does without them.
A non-empty set of natural numbers has a least element (`LeastOf`, from the theorem on
well-founded relations, which takes sets), and the least number at which a fact fails
is no different from an induction step. `FlattenAppend` is proved in this way, with what
it needs of the fold `FlattenSeq` is made of, and `FlattenPlace`, where the bytes
of the m-th element lie.

*Delivery* (`DeliveryProofs`): `DeliversInOrder`, `ReadsOnlyBetween` and
`NothingElseEndsIt` state `DeliveredInOrder`, `NoReadWhileHandling` and
`OnlyThePeerEndsIt` under the hypothesis `UsedAsIntended`: the endpoint is the server's,
the messages are command buffers of 1 to `MAX` bytes, the client sends one when it has
the answer to the one before it, bytes do not come in cuts inside a header, nor a part of a body together with its
header, the answers of one batch fit into a buffer, and the server sends no meta messages. These are
the conditions of the run `ServerLockstep`, whose constants satisfy them, and section 6
tells what happens without them. For sizes, scripts, contents, cuts in bodies and short
writes there is no bound. In `server.cc` and `client.cc` nothing calls `sendFrameSignal`,
`sendFramebufferInfo` or `sendReservation`, and `Slack` is 8 there (`Slack > 0` is
needed: a ring holds one byte less than its size).

The invariant `DInv` is `SInv` with three parts, and its argument has three steps.
`Turn`: if bytes of the m-th message have arrived, the first m - 1 answers were flushed
and are on the wire (and nothing comes off the wire, `OnlyMoreSent`). Therefore
(`Answered`, `NothingNew`): as long as a command buffer is being handled, or an answer
is not written, nothing is there to be read. And therefore `Place` can say, for
each point of `doIO` at each depth, what `_rbuf` holds and how far the stream was taken:
everything delivered (`Between`), one header or one whole message not yet parsed
(`AtMessage`), or a part of a body whose header was parsed (`InBody`). `Cut` says where
the bytes that have arrived may end; that `AtMessage` has no fourth case, a header with a
part of its body, is what keeps the parser from the fault of line 207. `Counts`,
`Activations`, `Wanted` and `Clean` are the smaller things this needs: answers are not
ahead of requests, when `EV_WRITE` is in `revents`, and that no fault has occurred.

**Server**, for any clients, backlog, failures and restarts: `TypeCorrect`, `LastWins`
(`LastInWins`), `NoStaleEvent` (`NoEventForDeleted`) and `AcceptIsReady`
(`AcceptFindsOne`). The inductive invariant is their conjunction with `Waiting`: the
clients in the backlog are different and have never had a `Conn`. Without it `accept`
might return the connection that `onServerIO` is about to close, and the new
`Conn` would be deleted from the start.

**Session**, for buffers and sockets of any size, any number of Ticks, with calls that
are refused, a GPU that is late and a server that is killed:

* `BytesThrough` (`BytesGoThrough`): what a connected side has in `_rbuf` is what the
  other has written last of what was read; what either writes is its command buffers, in
  order; and the kernel holds no more than it can. The invariant is `Connected`: `SInv` of
  both endpoints at once. `SInv` was proved of an endpoint whose peer follows a script;
  here the script is what the other endpoint flushes, and it grows. So `ProtocolProofs` has
  a second kind of step, `Outside`: the stream goes on, more of it arrives, the peer reads
  or goes away, and this process may be ended from outside. `OutsideStep` says that it
  keeps `SInv`. A step of one endpoint keeps its own `SInv` because it is a step of
  `Protocol` (`ClientEndpoint`, `ServerEndpoint`), and the other's because for the other it
  is `Outside` (`ClientActs`, `ServerActs`): what is written only grows and is a part of
  what was flushed (`OutputGrows`), and what is read was there (`TakenGrows`), which is
  also why there is room in the send buffer.
* `TypeCorrect` (`TypeOK`). Its hard part counts: the program has one list of statements
  for each of its activations on the stack. `Connected` bounds the stack by two
  activations (`Nesting`), of which `Depth` says how many are in the program;
  `GotoDepth`, `ReturnDepth`, `LoopDepth` and `AppDepth` say what each kind of step does to
  it, and `CodeSteps` what it does to the lists. `CountInProgram` ties `Depth` to the
  cardinality in `TypeOK`.
* `InOrderWhileWaiting` (`InOrderUntilMapped`): until the result of the script is on its
  way, each side is given the other's command buffers whole, once and in order. In
  *Delivery* that the peer waits for its answers is a hypothesis; here it is proved of
  the two programs, from their statements. The hypothesis that is left is `FewTicks`
  (`Ticks + 4 < MSGT_DAWNCMD`, 68). It is about the model: the k-th body is filled with
  the number k, and a number that is also the code of a message could be taken for a
  header where the code cannot. The client has 20 Ticks.

  The invariant is `OnTrack`, as long as the GPU is not done. `ServerAt` and `ClientAt`
  say, for each number of command buffers a side was given, which statements it has
  left, what it has asked for, what it has flushed and whether the last of that is written.
  `Receiving` (of `FrameProofs`, for each side) says what `_rbuf` holds and how far the
  stream was taken, at each point of `doIO`. `Made` says that command buffers are
  numbered as they are flushed, and `Within` that there are no more of them than
  statements ask for. The step that needs both programs is a read by a `doIO` that a
  `Flush` has started: it would take the next command buffer for the rest of the one
  being handled. `NothingForServer` and `NothingForClient` say that there is none. What the
  server was given counts the calls the client has made, and what the client was given the
  answers of the server, and each has left to the other to go on.

  After `MapAsync` the client goes on without an answer: its Ticks come while the server
  handles the command buffer before them, and the server may read one from inside
  `Flush`. `ServerAstray` says what becomes of it (`Stuck` in `FrameProofs`): it is handed a
  header for a body, and its next `Flush` fails its assertion (the run `FlushAssertion`), so
  that it delivers nothing more. The hypothesis of the property, that the GPU is not done,
  is kept because a server astray finds no call in what it is given.
* `OneCallAtATime` (`ImplementsCalls`, under `FewTicks` as well): the session is the
  abstract `Calls`, each call asked when the one before has been answered, performed once
  and answered once. The step simulation is `CourseStep`: every step of `Session` is an
  `Ask`, a `Perform` or an `Answer`, or changes none of the three lists. Its invariant
  `Course` adds to `OnTrack` that each list is the first calls of the script
  (`Follows`), so that lists of one length are equal and the proof is one of counting:
  no more was performed than asked, and answered as many as the client was given, but
  for the one whose callback is about to begin (`Answered`). `ReplyCourse` and
  `CallbackCourse` are chains of inequalities from the lengths of `asked` through what
  was flushed and delivered back to it.

  `Calls` also speaks of what comes after the GPU is done, and there the client too may
  read in a `Flush` of its Ticks what it has not waited for: the result, which it takes for
  the rest of the answer before. `ClientAstray` follows it (`Past` and `PastIn` in
  `FrameProofs`, with `PastStep`): there is nothing left to come, so it waits for ever,
  and what it is given, a header or a part of the last body (`Junk`), is no answer to
  anything (`JunkNotHandled`). So even then no call is answered twice or with
  the answer of another. The third is then performed and never answered.

* `ClientFlushesInTime` (`ClientMayFlush`, under `FewTicks` and `KernelTakes`): each flush
  of the client finds the buffer before it gone. The client flushes its work and all its
  Ticks in one callback, without a return to its outer loop, so what it rests on is that
  the one turn of the loop inside `Flush` writes the buffer whole, and for that the
  kernel must have room. `KernelTakes` says how much: `OutCap` is at least
  `HDR + MAX + (Ticks - 1) * (HDR + Small)`, and `HDR + MAX`. With the values of
  `ClientSession` that is 11, and with 10 TLC finds the assertion fail. No more can be
  promised: the server may have read nothing since the client was given the device.

  `Prompt` (in `FrameProofs`) is what a flush in time is: while the loop inside
  `Flush` has its turn the send buffer has room for the whole command buffer, and at any
  other point there is none left. `Ahead(j)` bounds what the client is ahead of the server
  by when the work and j - 1 Ticks are flushed; `Pace` says that it is at one of these
  places, and it begins with `Ahead(0) = 0`, because the server has read all that was
  flushed before it answered (`ServerHasAll`). `AheadGrows` is the arithmetic:
  `Ahead(j)` and what is flushed next fit into `KernelTakes` for every Tick but the last.
  The last one needs no room: after it the script is over (`Over`), and nothing is
  flushed that would miss it. The invariant is `Unhurried`, over `OnTrack` and `Course`.

**TraceText**, for data of any length and content: `TraceIsComplete` (`NeverRefuses`), for
both callers, and `TraceStaysInside` (`FlushTraceInside`). Both follow from one inequality
kept by every turn, `81 * (dsti - 4 * srci) =< dstlinestart =< dsti`: each byte takes four
places at most, and the line breaks are one place for 80 of text. Five places for a byte
then leave one for each byte of data, which is why no trace is refused. The nine bytes
of a header, which `Flush` always has, are what the longest text exceeds its count by.
`_PipeTrace` has no such nine bytes, and `WritesInside`, of both callers, is false (the
run `PipeTrace`).

**Only model-checked.** Everything about liveness (`FlushCompletes`, `ReturnsToLoop`,
`EveryClientAccepted`, `DisconnectNoticed`, `ClientsGetThrough`, `DeviceObtained`,
`EndNoticed`), which is beyond the prover. The properties of the ten violating runs are
refuted there and say nothing to prove.

## 6. Where code and intent disagree

Each is a configuration in which TLC finds the violation. For the first six `PROJECT.json`
quotes the lines; the last four take what neither program does (`_wbuf`, a
batch of commands larger than the buffer) or what the models exclude elsewhere.

| Run | What happens |
|---|---|
| `FlushAssertion` | with the real client: a `Tick` that is handled before the last answer is written trips the assertion (`protocol.cc:360`) |
| `BodyAsMessages` | a body that arrives after its header is parsed as messages (`protocol.cc:207`) |
| `BytesBehindBody` | what is read behind a body completed by `doIO` is not parsed: a whole message waits for further bytes (`protocol.cc:252`) |
| `PartialHeader` | a header in two pieces loops for ever (`protocol.cc:203`) |
| `ServerUseAfterFree` | a second client deletes the `Conn` of a suspended handler (`server.cc:205`) |
| `PipeTrace` | the trace of a pipe is written past its buffer, at each end of file and for single bytes (`pipe.cc:7`) |
| `PipeWriteToFD` | a short write drops the bytes that were not written: `_r` advances by what was asked for (`pipe.hh:184`), where lines 70-73 say "write <=nbyte to file" |
| `CmdSpaceOverflow` | `sizeof` of a pointer: the space check never fails (`protocol.cc:344`), and "return nullptr; // not enough space" (346) is not reached |
| `PipeTakeRef` | "The returned memory is only valid until the next call to write() or clear()" (`pipe.hh:78`): `writec` (110) and `readFromFD` (122) overwrite it as well, and only `NoReadWhileHandling` keeps `onDawnBuffer` safe from that |
| `EagainIsEof` | a read that ends just where the ring wraps is followed by one that finds nothing; its `EAGAIN` is lost in the comparison of `protocol.cc:237`, so that line 240 is not reached, and ends the connection as EOF |

`BytesBehindBody` is the server of `ServerLockstep` with a client that sends two small command
buffers without waiting, which are not cut but between header and body. The first
header is read alone; its body and all of the second message come together.
`ServerLockstep` cannot show it, because in lock step nothing is ever behind a body. `EagainIsEof` is `ServerLockstep` with a client that never leaves. In the programs
`_rbuf` has room for more than 128 KiB, so it takes a session of that length.

More has no configuration of its own. A read that fails at the wrap also loses the first
chunk (`pipe.hh:135`). `ByteFifo` allows for it, and `NoGapInRbuf` is about connections
that stay up. The error path of `createUNIXSocketServer` unlinks the file also when
`bind` failed because another server has just created it (`server.cc:44`). For `discard`
`_PipeTrace` prints the buffer it has just allocated (`pipe.cc:7-13`). And readMsg calls
`onFramebufferInfo`, `onFrame` and `onSwapchainReservation` set or not (`protocol.cc:176`):
in `AnyPeer` a reservation ends the client (`Callback`). Neither program sends any of the
three, and nothing in the repository says what should happen, so no property is about it.

Another is visible with a change of one line. With `Lockstep = FALSE` in
`ServerLockstep.cfg` `DeliveredInOrder` and `NoReadWhileHandling` fail: a `doIO`
nested in `Flush` finds `_dawnCmdRLen` still set for the buffer that is being handled,
because it is reset only after the callback (`protocol.cc:161-162`), and takes what it
reads, header included, for its rest.

In `PipeFifo` the abstract FIFO promises no more of the two file operations than they
do, as its comment says.

## 7. What is not modelled

* **Dawn** (`dawn_wire`, `dawn_native`, `createDawnDevice`): a library outside the
  repository. It appears as the calls of `GetCmdSpace` and `Flush` it makes, and in
  `Session` as what `HandleCommands` answers and invokes; these definitions are marked
  external in `PROJECT.json`.
* **The contents** of commands, framebuffer descriptions and reservations. Meta
  messages count as numbers of bytes; an incomplete one is decoded from what is
  there, as in the code, and its content is not told apart. Neither program sends
  any, so `Session` has none.
* **Two servers at once** on one `SERVER_SOCK`: `Server` has one at a time. **Two clients
  at once** are in `Server`, whole requests only, and not in `Session`.
* **A GPU that is never done**: the client's script sends a fixed number of Ticks and
  promises no result; the models let the result come or not.
* **common.cc and the macros of debug**: names of enumerators, printing, time
  stamps and socket flags. No state and no decision. Of `pipe.cc` the call of
  `debugFmtBytes` is in `TraceText`, and what it prints is not.
* **hello-world.cc** and the build files: a sequence of library calls in one
  process. One line of `main/BUILD` is used: `DEBUG` is defined and `NDEBUG` is not, so
  assertions are live.
* **The exit path** after `ev_run` in the server's `main`: nothing calls `ev_break`, no
  signal is handled and the listener's watcher is never stopped, so it is not reached.
  The client's is `ClientExits`.

## 8. Plan

Order: the most important behaviour first, each module written so that it can be
proved about.

1. *Done.* `Pipe` with `ByteFifo`; `Protocol` with `FrameChannel`; `Server`.
2. *Done.* The composition, `Session`, with the script of the client, and `Calls`, which
   it implements.
3. *Done.* The server's start, death and restart; `TraceText`.
4. *Done.* Proofs: the ring is a FIFO; the sending side is a channel of frames, in
   order on the wire, with two activations at most; the receiving side has room and
   loses nothing; a server that is used as intended gets what was sent; the server's
   invariants; the traces; in `Session`, its types, the bytes between the two,
   delivery in order while each waits for the other, that it implements `Calls`, and that
   the client's flushes come in time.
5. *Left.* Two servers at once on one file, and several clients in `Session`.
