------------------------------- MODULE Server -------------------------------
(***************************************************************************)
(* The connections of main/server.cc: the listening socket and its watcher *)
(* (onServerIO), the one connection the server keeps (conn0), and what     *)
(* becomes of the older one when another client arrives.                   *)
(*                                                                         *)
(* All watchers belong to one libev loop.  A poll makes a set of events    *)
(* pending; they are invoked one after the other, and a doIO that is       *)
(* invoked may, through onDawnBuffer and Flush, call ev_run again: that    *)
(* call first invokes what is still pending, polls once, and invokes what  *)
(* the poll found, among it onServerIO.  stack holds the doIO activations, *)
(* the running one first.                                                  *)
(*                                                                         *)
(* The process may be killed, or end itself, at any step, and be started   *)
(* again.  What it leaves behind is the file of its socket, which is all   *)
(* the clients know it by.                                                 *)
(*                                                                         *)
(* A connection is named by its client, which connects once.  Of the       *)
(* protocol only what touches the life of a connection is kept: whole      *)
(* requests, replies, EOF, and stop() (see Protocol for the rest).         *)
(***************************************************************************)
EXTENDS Naturals, Sequences, FiniteSets

CONSTANTS Clients,
          NoConn,      \* nullptr
          Listener,    \* server_fd_watcher
          Backlog,     \* acceptQueueSize
          MaxRequests, \* how many requests the clients send
          MayStop,     \* TRUE: doIO may find data it does not understand
          Errors,      \* how often accept, bind or listen may fail
          MaxRestarts  \* how often the server is started again

ASSUME ServerAssumption ==
  /\ NoConn \notin Clients /\ Listener \notin Clients /\ NoConn # Listener
  /\ Backlog \in Nat \ {0} /\ MaxRequests \in Nat
  /\ MayStop \in BOOLEAN /\ {Errors, MaxRestarts} \subseteq Nat

VARIABLES
  main,      \* where main() is: at "unlink", "bind" or "listen" of
             \* createUNIXSocketServer, at "device" (listening) or in the "loop"
  path,      \* the file at SERVER_SOCK: "none", "bound" to the server's
             \* socket, "listening", or "stale": bound by a server that ended
  restarts,  \* how often the server was started again
  client,    \* what each client has done
  backlog,   \* the connections that wait for accept
  requests,  \* how many requests the clients have sent
  unread,    \* how many of them wait in each client's socket
  conn0,
  accepted,  \* the clients accepted, in order: connIdGen is its length
  failures,  \* how often accept, bind or listen has failed
  fdOpen,    \* the accepted connections whose fd has not been closed
  active,    \* those whose watcher is started
  deleted,   \* those whose Conn has been deleted
  flushing,  \* those whose _dawnout.flushbuf has bytes to write
  pending,   \* the loop's pending events
  stack, fault

conns == <<conn0, accepted, failures, fdOpen, deleted>>
net   == <<client, backlog, requests>>
boot  == <<main, path, restarts>>
vars  == <<main, path, restarts, client, backlog, requests, unread, conn0, accepted, failures, fdOpen,
           active, deleted, flushing, pending, stack, fault>>
process == <<unread, conn0, accepted, fdOpen, active, deleted, flushing, pending, stack>>

Events == [who : Clients \union {Listener}, rd : BOOLEAN, wr : BOOLEAN]
Frames == [conn : Clients, pc : {"read", "handle", "flush", "write"},
           wr : BOOLEAN, todo : Nat, polled : BOOLEAN]

Top == Head(stack)
Return == stack' = Tail(stack)
Goto(pc) == stack' = [stack EXCEPT ![1].pc = pc]
At(pc) == fault = "none" /\ stack # << >> /\ Top.pc = pc
UnsubscribedNone(cs) == active  \* mutant: stop() without ev_io_stop
Unsubscribed(cs) == active \ cs \* what stop() of cs leaves watched
WithoutNone(c) == pending  \* mutant: the event stays pending
Without(c) == {e \in pending : e.who # c} \* ev_io_stop clears a pending event
Fail(kind) ==
  /\ fault' = kind
  /\ UNCHANGED <<boot, net, unread, conns, active, flushing, pending, stack>>

Init ==
  /\ main = "unlink" /\ path \in {"none", "stale"} /\ restarts = 0
  /\ client = [c \in Clients |-> "idle"] /\ backlog = << >> /\ requests = 0
  /\ failures = 0
  /\ unread = [c \in Clients |-> 0]
  /\ conn0 = NoConn /\ accepted = << >> /\ fdOpen = {} /\ active = {}
  /\ deleted = {} /\ flushing = {} /\ pending = {} /\ stack = << >>
  /\ fault = "none"
-----------------------------------------------------------------------------
(* createUNIXSocketServer, the first half: the file an earlier server has  *)
(* left is removed.                                                        *)
UnlinkedNot == path  \* mutant: no unlink
Unlinked == "none"
Unlink ==
  /\ fault = "none" /\ main = "unlink"
  /\ path' = Unlinked
  /\ main' = "bind"
  /\ UNCHANGED <<restarts, net, failures, process, fault>>

(* bind creates the file; connect is refused until listen. *)
Bind ==
  /\ fault = "none" /\ main = "bind"
  /\ path = "none"
  /\ path' = "bound"
  /\ main' = "listen"
  /\ UNCHANGED <<restarts, net, failures, process, fault>>

(* Clients can connect from here on, and wait while createDawnDevice runs. *)
Listen ==
  /\ fault = "none" /\ main = "listen"
  /\ path' = "listening"
  /\ main' = "device"
  /\ UNCHANGED <<restarts, net, failures, process, fault>>

(* bind fails when the file exists, and bind or listen for other reasons:  *)
(* the file is removed, and main returns 1.                                *)
SetupFails ==
  /\ fault = "none" /\ main \in {"bind", "listen"}
  /\ \/ /\ main = "bind" /\ path # "none"
        /\ fault' = "in_use"
        /\ UNCHANGED failures
     \/ /\ failures < Errors
        /\ fault' = "setup"
        /\ failures' = failures + 1
  /\ path' = "none"
  /\ UNCHANGED <<main, restarts, net, process>>

EnterLoop ==
  /\ fault = "none" /\ main = "device"
  /\ main' = "loop"
  /\ UNCHANGED <<path, restarts, net, failures, process, fault>>

(* A process that ends takes its connections with it, those that nobody    *)
(* has accepted too, and so their clients (see Session); the file stays.   *)
Vanish ==
  /\ path' = IF path = "none" THEN "none" ELSE "stale"
  /\ client' = [c \in Clients |-> IF client[c] = "connected" THEN "gone" ELSE client[c]]
  /\ backlog' = << >> /\ unread' = [c \in Clients |-> 0]
  /\ conn0' = NoConn /\ accepted' = << >> /\ fdOpen' = {} /\ active' = {}
  /\ deleted' = {} /\ flushing' = {} /\ pending' = {} /\ stack' = << >>
  /\ UNCHANGED <<requests, failures>>

Kill ==
  /\ fault = "none"
  /\ fault' = "killed"
  /\ Vanish
  /\ UNCHANGED <<main, restarts>>

(* Whatever has ended the process, somebody starts it again. *)
Restart ==
  /\ fault # "none" /\ restarts < MaxRestarts
  /\ restarts' = restarts + 1
  /\ main' = "unlink"
  /\ fault' = "none"
  /\ Vanish
-----------------------------------------------------------------------------
(* The clients: connectUNIXSocket fails with ENOENT or ECONNREFUSED unless *)
(* there is a server listening, and is retried until it succeeds.          *)
Connect(c) ==
  /\ path = "listening" /\ fault = "none"
  /\ client[c] = "idle" /\ Len(backlog) < Backlog
  /\ client' = [client EXCEPT ![c] = "connected"]
  /\ backlog' = Append(backlog, c)
  /\ UNCHANGED <<boot, requests, unread, conns, active, flushing, pending, stack, fault>>

Request(c) ==
  /\ client[c] = "connected" /\ requests < MaxRequests /\ fault = "none"
  /\ c \notin deleted
  /\ requests' = requests + 1
  /\ unread' = [unread EXCEPT ![c] = @ + 1]
  /\ UNCHANGED <<boot, client, backlog, conns, active, flushing, pending, stack, fault>>

Disconnect(c) ==
  /\ client[c] = "connected" /\ fault = "none"
  /\ client' = [client EXCEPT ![c] = "gone"]
  /\ UNCHANGED <<boot, backlog, requests, unread, conns, active, flushing,
                 pending, stack, fault>>
-----------------------------------------------------------------------------
(* The events a poll finds.  A connection with bytes to write is writable  *)
(* when its socket has room, or its client has gone.                       *)
Readable(c) == unread[c] > 0 \/ client[c] = "gone"

StartedNever == {}  \* mutant: the listener's watcher is not started
Started == {Listener} \* main() starts server_fd_watcher

Found(writable) ==
  LET acceptable == IF backlog # << >> THEN Started ELSE {}
      ready == {c \in active : Readable(c) \/ c \in writable}
  IN {[who |-> l, rd |-> TRUE, wr |-> FALSE] : l \in acceptable}
     \union {[who |-> c, rd |-> Readable(c), wr |-> c \in writable] : c \in ready}
Writables == {W \in SUBSET (flushing \intersect active) :
                \A c \in flushing \intersect active : client[c] = "gone" => c \in W}

Poll ==
  /\ main = "loop" /\ fault = "none"
  /\ stack = << >> /\ pending = {}
  /\ \E W \in Writables : pending' = Found(W)
  /\ pending' # {}
  /\ UNCHANGED <<boot, net, unread, conns, active, flushing, stack, fault>>

NestedPoll ==
  /\ At("flush")
  /\ ~Top.polled /\ pending = {}
  /\ \E W \in Writables : pending' = Found(W)
  /\ stack' = [stack EXCEPT ![1].polled = TRUE]
  /\ UNCHANGED <<boot, net, unread, conns, active, flushing, fault>>

InLoop == (stack = << >> /\ fault = "none") \/ At("flush")

OlderUnchecked == {conn0}  \* mutant: no test for nullptr
OlderNone == {}            \* mutant: the older client is not closed
Older == {conn0} \ {NoConn}

(* onServerIO: accept the connection; close() and delete the older one;    *)
(* the new Conn becomes conn0 and is started.                              *)
onServerIO ==
  /\ InLoop
  /\ \E e \in pending : e.who = Listener
  /\ LET c == Head(backlog)
     IN /\ conn0' = c
        /\ accepted' = Append(accepted, c)
        /\ fdOpen' = (fdOpen \ Older) \union {c}
        /\ active' = Unsubscribed(Older) \union {c}
        /\ deleted' = deleted \union Older
        /\ flushing' = flushing \ Older
        /\ pending' = Without(Listener) \intersect Without(conn0)
  /\ backlog' = Tail(backlog)
  /\ UNCHANGED <<boot, client, requests, unread, failures, stack, fault>>

(* accept fails: the connection, if there is one, goes on waiting. *)
onServerIOFails ==
  /\ InLoop
  /\ failures < Errors
  /\ \E e \in pending : e.who = Listener
  /\ failures' = failures + 1
  /\ pending' = Without(Listener)
  /\ UNCHANGED <<boot, net, unread, conn0, accepted, fdOpen, deleted, active,
                 flushing, stack, fault>>

doIO ==
  /\ InLoop
  /\ \E e \in pending :
       /\ e.who # Listener
       /\ pending' = pending \ {e}
       /\ stack' = <<[conn |-> e.who, pc |-> IF e.rd THEN "read" ELSE "write",
                      wr |-> e.wr, todo |-> 0, polled |-> FALSE]>> \o stack
  /\ UNCHANGED <<boot, net, unread, conns, active, flushing, fault>>
-----------------------------------------------------------------------------
(* The steps of one doIO. *)

(* stop() on EOF, or on data that is not understood; the fd stays open. *)
doIOStop ==
  /\ At("read")
  /\ LET c == Top.conn
     IN /\ unread[c] = 0 \/ MayStop
        /\ active' = Unsubscribed({c})
        /\ flushing' = flushing \ {c}
        /\ pending' = Without(c)
        /\ unread' = [unread EXCEPT ![c] = 0]
  /\ Return
  /\ UNCHANGED <<boot, net, conns, fault>>

doIORead ==
  /\ At("read")
  /\ unread[Top.conn] > 0
  /\ unread' = [unread EXCEPT ![Top.conn] = 0]
  /\ stack' = [stack EXCEPT ![1].pc = "handle", ![1].todo = unread[Top.conn]]
  /\ UNCHANGED <<boot, net, conns, active, flushing, pending, fault>>

(* onDawnBuffer: HandleCommands, then Flush, which does nothing when there *)
(* is no reply.                                                            *)
onDawnBufferReply ==
  /\ At("handle") /\ Top.todo > 0
  /\ Top.conn \notin flushing /\ Top.conn \in active
  /\ flushing' = flushing \union {Top.conn}
  /\ stack' = [stack EXCEPT ![1].pc = "flush", ![1].polled = FALSE, ![1].todo = @ - 1]
  /\ UNCHANGED <<boot, net, unread, conns, active, pending, fault>>

onDawnBufferNoReply ==
  /\ At("handle") /\ Top.todo > 0
  /\ Top.conn \notin flushing
  /\ stack' = [stack EXCEPT ![1].todo = @ - 1]
  /\ UNCHANGED <<boot, net, unread, conns, active, flushing, pending, fault>>

(* Flush asserts that the last buffer is gone, reply or not; with a reply  *)
(* it calls ev_run on the null loop stop() has left.                       *)
onDawnBufferFails ==
  /\ At("handle") /\ Top.todo > 0
  /\ \/ /\ Top.conn \in flushing
        /\ Fail("assert_flush")
     \/ /\ Top.conn \notin flushing \union active
        /\ Fail("null_loop")

(* Flush returns once the nested ev_run is through, to a Conn that may     *)
(* have been deleted by the onServerIO it invoked.                         *)
FlushReturns ==
  /\ At("flush")
  /\ Top.polled /\ pending = {}
  /\ Top.conn \notin deleted
  /\ Goto("handle")
  /\ UNCHANGED <<boot, net, unread, conns, active, flushing, pending, fault>>

FlushReturnsToDeleted ==
  /\ At("flush")
  /\ Top.polled /\ pending = {}
  /\ Top.conn \in deleted
  /\ Fail("use_after_free")

readMsgDone ==
  /\ At("handle") /\ Top.todo = 0
  /\ Goto("write")
  /\ UNCHANGED <<boot, net, unread, conns, active, flushing, pending, fault>>

(* The EV_WRITE section: bytes may be left in flushbuf. *)
doIOWrite ==
  /\ At("write")
  /\ \/ ~Top.wr /\ UNCHANGED flushing
     \/ /\ Top.wr /\ Top.conn \in active
        /\ Top.conn \in flushing => client[Top.conn] # "gone"
        /\ flushing' \in {flushing, flushing \ {Top.conn}}
  /\ Return
  /\ UNCHANGED <<boot, net, unread, conns, active, pending, fault>>

doIOWriteFails ==
  /\ At("write") /\ Top.wr
  /\ \/ /\ Top.conn \in flushing /\ client[Top.conn] = "gone"
        /\ Fail("sigpipe")
     \/ /\ Top.conn \notin active \* ev_io_start on a null loop
        /\ Fail("null_loop")
-----------------------------------------------------------------------------
Program == \/ Unlink \/ Bind \/ Listen \/ SetupFails \/ EnterLoop
           \/ Poll \/ NestedPoll \/ onServerIO \/ onServerIOFails
           \/ doIO \/ doIOStop \/ doIORead \/ onDawnBufferReply \/ onDawnBufferNoReply
           \/ onDawnBufferFails \/ FlushReturns \/ FlushReturnsToDeleted
           \/ readMsgDone \/ doIOWrite \/ doIOWriteFails
ClientStep == \E c \in Clients : Connect(c) \/ Request(c) \/ Disconnect(c)

Next == Program \/ ClientStep \/ Kill \/ Restart

Spec == Init /\ [][Next]_vars

(* The server is one thread that does not pause, a client retries until it *)
(* is connected, and a server that has ended is started again, as long as  *)
(* the bound allows.                                                       *)
FairSpec == /\ Spec
            /\ WF_vars(Program) /\ WF_vars(Restart)
            /\ WF_vars(\E c \in Clients : Connect(c))
-----------------------------------------------------------------------------
(* Type invariant. *)
TypeOK ==
  /\ main \in {"unlink", "bind", "listen", "device", "loop"}
  /\ path \in {"none", "bound", "listening", "stale"}
  /\ restarts \in 0..MaxRestarts
  /\ client \in [Clients -> {"idle", "connected", "gone"}]
  /\ backlog \in Seq(Clients)
  /\ requests \in 0..MaxRequests /\ unread \in [Clients -> Nat]
  /\ conn0 \in Clients \union {NoConn}
  /\ accepted \in Seq(Clients) /\ failures \in 0..Errors
  /\ fdOpen \subseteq Clients /\ active \subseteq Clients
  /\ deleted \subseteq Clients /\ flushing \subseteq Clients
  /\ pending \subseteq Events
  /\ stack \in Seq(Frames)
  /\ fault \in {"none", "assert_flush", "null_loop", "use_after_free", "sigpipe",
                "killed", "in_use", "setup"}

(* The loop watches at most one connection, the last one accepted; no      *)
(* other accepted socket is left open; and no Conn that the loop watches   *)
(* or has an event for was deleted.                                        *)
LastInWins ==
  /\ active \subseteq {conn0}
  /\ fdOpen \subseteq {conn0}
  /\ accepted # << >> => conn0 = accepted[Len(accepted)]
NoEventForDeleted ==
  /\ active \intersect deleted = {}
  /\ \A e \in pending : e.who \in active \union {Listener}

(* onServerIO is invoked once for each readiness it was found with, by the *)
(* outer loop or by a nested one, so that accept finds a connection.       *)
AcceptFindsOne == (\E e \in pending : e.who = Listener) => backlog # << >>

(* "second client connected; closing older client (last in wins)": the     *)
(* older Conn is closed when none of its handlers is running.              *)
ClosingIsSafe == fault # "use_after_free"

(* A client that connects gets its turn, however many events the others    *)
(* cause and although accept may fail now and then, unless the server dies.*)
EveryClientAccepted ==
  \A c \in Clients : client[c] = "connected"
    ~> (\E i \in DOMAIN accepted : accepted[i] = c) \/ fault # "none"

(* A client that leaves is noticed: its connection is not watched forever. *)
DisconnectNoticed ==
  \A c \in Clients : client[c] = "gone" /\ c \in active
    ~> c \notin active \/ fault # "none"

(* Whenever a server dies, and whatever it leaves at SERVER_SOCK, the next *)
(* one can listen there, and a client that keeps trying gets through, as   *)
(* long as the server is started again.                                    *)
ClientsGetThrough ==
  \A c \in Clients : client[c] = "idle"
    ~> client[c] # "idle" \/ (fault \notin {"none", "in_use"} /\ restarts = MaxRestarts)
=============================================================================
