---------------------------- MODULE ServerProofs ----------------------------
(***************************************************************************)
(* Proofs about the connections of the server, for any number of clients,  *)
(* requests, errors and restarts, and handlers nested to any depth: the    *)
(* type invariant, that the last client wins, that no event is left for a  *)
(* deleted Conn, and that accept always finds a connection.                *)
(*                                                                         *)
(* None of these is inductive alone.  That the client onServerIO accepts   *)
(* is not one whose Conn was deleted follows from the clients in the       *)
(* backlog being different ones that no Conn was made for, and that from   *)
(* each client connecting once: this is Waiting.                           *)
(***************************************************************************)
EXTENDS Server, TLAPS

(* The clients in the backlog are different, and none has had a Conn. *)
Waiting ==
  /\ \A i, j \in DOMAIN backlog : backlog[i] = backlog[j] => i = j
  /\ \A i \in DOMAIN backlog : client[backlog[i]] # "idle"
  /\ \A i \in DOMAIN backlog : backlog[i] \notin deleted /\ backlog[i] # conn0
  /\ \A c \in Clients : c \in deleted \/ c = conn0 => client[c] # "idle"

IInv == TypeOK /\ AcceptFindsOne /\ Waiting /\ LastInWins /\ NoEventForDeleted
-----------------------------------------------------------------------------
(* The stack of handlers keeps its type when the running one goes on. *)
LEMMA TopType ==
  ASSUME TypeOK, stack # << >>
  PROVE  Top \in Frames /\ Top = stack[1] /\ Tail(stack) \in Seq(Frames)
BY DEF TypeOK, Top

LEMMA SetTop ==
  ASSUME TypeOK, stack # << >>, NEW f \in Frames
  PROVE  [stack EXCEPT ![1] = f] \in Seq(Frames)
BY DEF TypeOK

(* The events a poll finds are events, of connections that are watched. *)
LEMMA FoundType ==
  ASSUME TypeOK, NEW W
  PROVE  /\ Found(W) \subseteq Events
         /\ \A e \in Found(W) : e.who \in active \union {Listener}
         /\ \A e \in Found(W) : e.who = Listener => backlog # << >>
<1>1. active \subseteq Clients
  BY DEF TypeOK
<1>2. \A c : Readable(c) \in BOOLEAN
  BY DEF Readable
<1>3. \A l : l \in Started => l = Listener
  BY DEF Started
<1>4. \A e \in Found(W) :
        \/ e = [who |-> Listener, rd |-> TRUE, wr |-> FALSE] /\ backlog # << >>
        \/ \E c \in active : e = [who |-> c, rd |-> Readable(c), wr |-> c \in W]
  BY <1>3 DEF Found
<1>5. \A c \in active : [who |-> c, rd |-> Readable(c), wr |-> c \in W] \in Events
  BY <1>1, <1>2 DEF Events
<1>6. [who |-> Listener, rd |-> TRUE, wr |-> FALSE] \in Events
  BY DEF Events
<1>7. ASSUME NEW e \in Found(W) PROVE e \in Events /\ e.who \in active \union {Listener}
  <2>1. CASE e = [who |-> Listener, rd |-> TRUE, wr |-> FALSE]
    BY <1>6, <2>1
  <2>2. CASE \E c \in active : e = [who |-> c, rd |-> Readable(c), wr |-> c \in W]
    <3>1. PICK c \in active : e = [who |-> c, rd |-> Readable(c), wr |-> c \in W]
      BY <2>2
    <3>2. e.who = c
      BY <3>1
    <3>3. QED
      BY <1>5, <3>1, <3>2
  <2>3. QED
    BY <1>4, <2>1, <2>2
<1>8. \A e \in Found(W) : e.who = Listener => backlog # << >>
  BY <1>1, <1>4, ServerAssumption
<1>9. QED
  BY <1>7, <1>8

(* A process that has ended leaves nothing for the next one. *)
LEMMA VanishKeepsInv ==
  ASSUME IInv, Vanish, restarts' \in 0..MaxRestarts,
         main' \in {"unlink", "bind", "listen", "device", "loop"},
         fault' \in {"none", "killed"}
  PROVE  IInv'
<1>1. TypeOK'
  BY DEF IInv, TypeOK, Vanish
<1>2. backlog' = << >> /\ pending' = {} /\ active' = {} /\ fdOpen' = {}
      /\ deleted' = {} /\ accepted' = << >> /\ conn0' = NoConn
  BY DEF Vanish
<1>3. AcceptFindsOne' /\ LastInWins' /\ NoEventForDeleted'
  BY <1>2 DEF AcceptFindsOne, LastInWins, NoEventForDeleted
<1>4. Waiting'
  BY <1>2, ServerAssumption DEF Waiting
<1>5. QED
  BY <1>1, <1>3, <1>4 DEF IInv
-----------------------------------------------------------------------------
(* A step of the program that leaves the connections and the clients alone *)
(* and adds no event.                                                      *)
LEMMA QuietStep ==
  ASSUME IInv, UNCHANGED <<client, backlog, conn0, accepted, fdOpen, deleted>>,
         active' \subseteq active, pending' \subseteq pending,
         \A e \in pending' : e.who \in active' \union {Listener},
         TypeOK'
  PROVE  IInv'
<1>1. AcceptFindsOne' /\ LastInWins'
  BY DEF IInv, AcceptFindsOne, LastInWins
<1>2. NoEventForDeleted'
  BY DEF IInv, NoEventForDeleted
<1>3. Waiting'
  BY DEF IInv, Waiting
<1>4. QED
  BY <1>1, <1>2, <1>3 DEF IInv

LEMMA PollStep ==
  ASSUME IInv, UNCHANGED <<client, backlog, conn0, accepted, fdOpen, deleted, active>>,
         NEW W, pending' = Found(W), TypeOK'
  PROVE  IInv'
<1>1. AcceptFindsOne' /\ LastInWins'
  BY FoundType DEF IInv, AcceptFindsOne, LastInWins
<1>2. NoEventForDeleted'
  BY FoundType DEF IInv, NoEventForDeleted
<1>3. Waiting'
  BY DEF IInv, Waiting
<1>4. QED
  BY <1>1, <1>2, <1>3 DEF IInv

(* main(), up to its loop. *)
LEMMA BootStep ==
  ASSUME IInv, Unlink \/ Bind \/ Listen \/ SetupFails \/ EnterLoop
  PROVE  IInv'
<1>1. UNCHANGED <<client, backlog, conn0, accepted, fdOpen, deleted, active, pending>>
  BY DEF Unlink, Bind, Listen, SetupFails, EnterLoop, net, process
<1>2. UNCHANGED <<requests, unread, flushing, stack, restarts>>
  BY DEF Unlink, Bind, Listen, SetupFails, EnterLoop, net, process
<1>3. /\ main' \in {"unlink", "bind", "listen", "device", "loop"}
      /\ path' \in {"none", "bound", "listening", "stale"}
      /\ failures' \in 0..Errors
      /\ fault' \in {"none", "assert_flush", "null_loop", "use_after_free", "sigpipe",
                    "killed", "in_use", "setup"}
  BY ServerAssumption
  DEF Unlink, Unlinked, Bind, Listen, SetupFails, EnterLoop, IInv, TypeOK
<1>4. TypeOK'
  BY <1>1, <1>2, <1>3 DEF IInv, TypeOK
<1>5. QED
  BY <1>1, <1>4, QuietStep DEF IInv, NoEventForDeleted

(* The clients. *)
LEMMA ConnectStep ==
  ASSUME IInv, NEW c \in Clients, Connect(c)
  PROVE  IInv'
<1>1. /\ client[c] = "idle" /\ client' = [client EXCEPT ![c] = "connected"]
      /\ backlog' = Append(backlog, c)
      /\ UNCHANGED <<main, path, restarts, requests, unread, conn0, accepted, failures,
                     fdOpen, active, deleted, flushing, pending, stack, fault>>
  BY DEF Connect, boot, conns
<1>2. backlog \in Seq(Clients) /\ client \in [Clients -> {"idle", "connected", "gone"}]
  BY DEF IInv, TypeOK
<1>3. TypeOK'
  BY <1>1, <1>2 DEF IInv, TypeOK
<1>4. AcceptFindsOne' /\ LastInWins' /\ NoEventForDeleted'
  BY <1>1, <1>2 DEF IInv, AcceptFindsOne, LastInWins, NoEventForDeleted
<1>5. Waiting'
  <2>1. /\ \A i \in DOMAIN backlog : backlog[i] # c
        /\ c \notin deleted /\ c # conn0
    BY <1>1 DEF IInv, Waiting
  <2>2. /\ DOMAIN backlog' = 1..(Len(backlog) + 1)
        /\ \A i \in DOMAIN backlog : backlog'[i] = backlog[i]
        /\ backlog'[Len(backlog) + 1] = c
    BY <1>1, <1>2
  <2>3. \A i \in DOMAIN backlog' : i \in DOMAIN backlog \/ i = Len(backlog) + 1
    BY <1>2, <2>2
  <2>4. \A d \in Clients : client[d] # "idle" => client'[d] # "idle"
    BY <1>1, <1>2
  <2>5. client'[c] # "idle"
    BY <1>1, <1>2
  <2>6. \A i \in DOMAIN backlog : backlog[i] \in Clients
    BY <1>2
  <2>7. \A i, j \in DOMAIN backlog' : backlog'[i] = backlog'[j] => i = j
    BY <2>1, <2>2, <2>3 DEF IInv, Waiting
  <2>8. \A i \in DOMAIN backlog' : client'[backlog'[i]] # "idle"
    BY <2>2, <2>3, <2>4, <2>5, <2>6 DEF IInv, Waiting
  <2>9. \A i \in DOMAIN backlog' : backlog'[i] \notin deleted' /\ backlog'[i] # conn0'
    BY <1>1, <2>1, <2>2, <2>3 DEF IInv, Waiting
  <2>10. \A d \in Clients : d \in deleted' \/ d = conn0' => client'[d] # "idle"
    BY <1>1, <2>4 DEF IInv, Waiting
  <2>11. QED
    BY <2>7, <2>8, <2>9, <2>10 DEF Waiting
<1>6. QED
  BY <1>3, <1>4, <1>5 DEF IInv

LEMMA RequestStep ==
  ASSUME IInv, NEW c \in Clients, Request(c)
  PROVE  IInv'
<1>1. /\ requests < MaxRequests /\ requests' = requests + 1
      /\ unread' = [unread EXCEPT ![c] = @ + 1]
      /\ UNCHANGED <<main, path, restarts, client, backlog, conn0, accepted, failures,
                     fdOpen, active, deleted, flushing, pending, stack, fault>>
  BY DEF Request, boot, conns
<1>2. requests' \in 0..MaxRequests /\ unread' \in [Clients -> Nat]
  BY <1>1, ServerAssumption DEF IInv, TypeOK
<1>3. TypeOK'
  BY <1>1, <1>2 DEF IInv, TypeOK
<1>4. QED
  BY <1>1, <1>3, QuietStep DEF IInv, NoEventForDeleted

LEMMA DisconnectStep ==
  ASSUME IInv, NEW c \in Clients, Disconnect(c)
  PROVE  IInv'
<1>1. /\ client' = [client EXCEPT ![c] = "gone"]
      /\ UNCHANGED <<main, path, restarts, requests, unread, backlog, conn0, accepted,
                     failures, fdOpen, active, deleted, flushing, pending, stack, fault>>
  BY DEF Disconnect, boot, conns
<1>2. client \in [Clients -> {"idle", "connected", "gone"}] /\ backlog \in Seq(Clients)
  BY DEF IInv, TypeOK
<1>3. TypeOK'
  BY <1>1, <1>2 DEF IInv, TypeOK
<1>4. AcceptFindsOne' /\ LastInWins' /\ NoEventForDeleted'
  BY <1>1 DEF IInv, AcceptFindsOne, LastInWins, NoEventForDeleted
<1>5. Waiting'
  <2>1. \A d \in Clients : client[d] # "idle" => client'[d] # "idle"
    BY <1>1, <1>2
  <2>2. \A i \in DOMAIN backlog : backlog[i] \in Clients
    BY <1>2
  <2>3. QED
    BY <1>1, <2>1, <2>2 DEF IInv, Waiting
<1>6. QED
  BY <1>3, <1>4, <1>5 DEF IInv
-----------------------------------------------------------------------------
-----------------------------------------------------------------------------
(* The event loop. *)
LEMMA PollsStep ==
  ASSUME IInv, Poll \/ NestedPoll
  PROVE  IInv'
<1>1. UNCHANGED <<main, path, restarts, client, backlog, requests, unread, conn0, accepted,
                  failures, fdOpen, active, deleted, flushing, fault>>
  BY DEF Poll, NestedPoll, boot, net, conns
<1>2. PICK W : pending' = Found(W)
  BY DEF Poll, NestedPoll
<1>3. pending' \subseteq Events
  BY <1>2, FoundType DEF IInv
<1>4. stack' \in Seq(Frames)
  <2>1. CASE Poll
    BY <2>1 DEF Poll, IInv, TypeOK
  <2>2. CASE NestedPoll
    <3>1. stack # << >> /\ stack' = [stack EXCEPT ![1].polled = TRUE]
      BY <2>2 DEF NestedPoll, At
    <3>2. [stack[1] EXCEPT !.polled = TRUE] \in Frames
      BY <3>1, TopType DEF IInv, Frames
    <3>3. QED
      BY <3>1, <3>2, SetTop DEF IInv
  <2>3. QED
    BY <2>1, <2>2
<1>5. TypeOK'
  BY <1>1, <1>3, <1>4 DEF IInv, TypeOK
<1>6. QED
  BY <1>1, <1>2, <1>5, PollStep

(* A connection is accepted: Older goes, and the head of the backlog, for  *)
(* which there has been no Conn, comes.                                    *)
LEMMA AcceptStep ==
  ASSUME IInv, onServerIO
  PROVE  IInv'
<1> DEFINE c == Head(backlog)
<1>1. backlog # << >> /\ backlog \in Seq(Clients)
  BY DEF IInv, AcceptFindsOne, TypeOK, onServerIO
<1>2. c \in Clients /\ c = backlog[1] /\ 1 \in DOMAIN backlog
  BY <1>1
<1>3. /\ conn0' = c /\ accepted' = Append(accepted, c)
      /\ fdOpen' = (fdOpen \ Older) \union {c}
      /\ active' = (active \ Older) \union {c}
      /\ deleted' = deleted \union Older
      /\ flushing' = flushing \ Older
      /\ pending' = Without(Listener) \intersect Without(conn0)
      /\ backlog' = Tail(backlog)
      /\ UNCHANGED <<main, path, restarts, client, requests, unread, failures, stack, fault>>
  BY DEF onServerIO, Unsubscribed, boot
<1> HIDE DEF c
<1>4. Older \subseteq Clients /\ (\A d : d \in Older <=> d = conn0 /\ d # NoConn)
  BY DEF Older, IInv, TypeOK
<1>5. c \notin deleted /\ c # conn0 /\ c \notin Older /\ client[c] # "idle"
  BY <1>2, <1>4 DEF IInv, Waiting
<1>6. TypeOK'
  <2>1. backlog' \in Seq(Clients) /\ accepted' \in Seq(Clients) /\ conn0' \in Clients
    BY <1>1, <1>2, <1>3 DEF IInv, TypeOK
  <2>2. /\ fdOpen' \subseteq Clients /\ active' \subseteq Clients
        /\ deleted' \subseteq Clients /\ flushing' \subseteq Clients
        /\ pending' \subseteq Events
    BY <1>2, <1>3, <1>4 DEF IInv, TypeOK, Without
  <2>3. QED
    BY <1>3, <2>1, <2>2 DEF IInv, TypeOK
<1>7. AcceptFindsOne'
  BY <1>3 DEF AcceptFindsOne, Without
<1>8. LastInWins'
  <2>1. active' \subseteq {conn0'} /\ fdOpen' \subseteq {conn0'}
    BY <1>3, <1>4, ServerAssumption DEF IInv, LastInWins, TypeOK
  <2>2. accepted \in Seq(Clients)
    BY DEF IInv, TypeOK
  <2>3. accepted'[Len(accepted')] = c
    BY <1>2, <1>3, <2>2
  <2>4. QED
    BY <1>3, <2>1, <2>3 DEF LastInWins
<1>9. NoEventForDeleted'
  <2>1. active' \intersect deleted' = {}
    BY <1>3, <1>4, <1>5 DEF IInv, NoEventForDeleted
  <2>2. \A e \in pending' : (e.who \in active /\ e.who # conn0) \/ e.who = Listener
    BY <1>3 DEF IInv, NoEventForDeleted, Without
  <2>3. QED
    BY <1>3, <1>4, <2>1, <2>2 DEF NoEventForDeleted
<1>10. Waiting'
  <2>1. /\ DOMAIN backlog' = 1..(Len(backlog) - 1)
        /\ \A i \in DOMAIN backlog' : i + 1 \in DOMAIN backlog /\ backlog'[i] = backlog[i + 1]
        /\ DOMAIN backlog' \subseteq Nat
    BY <1>1, <1>3
  <2>2. \A i \in DOMAIN backlog : backlog[i] = c => i = 1
    BY <1>2 DEF IInv, Waiting
  <2>3. \A i, j \in DOMAIN backlog' : backlog'[i] = backlog'[j] => i = j
    BY <2>1 DEF IInv, Waiting
  <2>4. \A i \in DOMAIN backlog' : client'[backlog'[i]] # "idle"
    BY <1>3, <2>1 DEF IInv, Waiting
  <2>5. \A i \in DOMAIN backlog' : i + 1 # 1
    BY <2>1
  <2>6. \A i \in DOMAIN backlog' : backlog'[i] # c
    BY <2>1, <2>2, <2>5
  <2>7. \A i \in DOMAIN backlog' : backlog'[i] \notin deleted' /\ backlog'[i] # conn0'
    BY <1>3, <1>4, <2>1, <2>6 DEF IInv, Waiting
  <2>8. \A d \in Clients : d \in deleted' \/ d = conn0' => client'[d] # "idle"
    BY <1>3, <1>4, <1>5 DEF IInv, Waiting
  <2>9. QED
    BY <2>3, <2>4, <2>7, <2>8 DEF Waiting
<1>11. QED
  BY <1>6, <1>7, <1>8, <1>9, <1>10 DEF IInv

LEMMA InvokeStep ==
  ASSUME IInv, onServerIOFails \/ doIO
  PROVE  IInv'
<1>1. UNCHANGED <<main, path, restarts, client, backlog, requests, unread, conn0, accepted,
                  fdOpen, deleted, active, flushing, fault>>
  BY DEF onServerIOFails, doIO, boot, net, conns
<1>2. pending' \subseteq pending
  BY DEF onServerIOFails, doIO, Without
<1>3. failures' \in 0..Errors
  BY ServerAssumption DEF onServerIOFails, doIO, conns, IInv, TypeOK
<1>4. stack' \in Seq(Frames)
  <2>1. CASE onServerIOFails
    BY <2>1 DEF onServerIOFails, IInv, TypeOK
  <2>2. CASE doIO
    <3>1. PICK e \in pending :
            /\ e.who # Listener
            /\ stack' = <<[conn |-> e.who, pc |-> IF e.rd THEN "read" ELSE "write",
                           wr |-> e.wr, todo |-> 0, polled |-> FALSE]>> \o stack
      BY <2>2 DEF doIO
    <3>2. e \in Events
      BY DEF IInv, TypeOK
    <3>3. e.who \in Clients /\ e.wr \in BOOLEAN
      BY <3>1, <3>2 DEF Events
    <3>4. [conn |-> e.who, pc |-> IF e.rd THEN "read" ELSE "write",
           wr |-> e.wr, todo |-> 0, polled |-> FALSE] \in Frames
      BY <3>3 DEF Frames
    <3>5. QED
      BY <3>1, <3>4 DEF IInv, TypeOK
  <2>3. QED
    BY <2>1, <2>2
<1>5. TypeOK'
  BY <1>1, <1>2, <1>3, <1>4 DEF IInv, TypeOK
<1>6. QED
  BY <1>1, <1>2, <1>5, QuietStep DEF IInv, NoEventForDeleted
-----------------------------------------------------------------------------
(* The handlers. *)
LEMMA StopStep ==
  ASSUME IInv, doIOStop
  PROVE  IInv'
<1>1. UNCHANGED <<main, path, restarts, client, backlog, requests, conn0, accepted, failures,
                  fdOpen, deleted, fault>>
  BY DEF doIOStop, boot, net, conns
<1>2. /\ active' = active \ {Top.conn} /\ flushing' = flushing \ {Top.conn}
      /\ pending' = Without(Top.conn)
      /\ unread' = [unread EXCEPT ![Top.conn] = 0]
  BY DEF doIOStop, Unsubscribed
<1>3. stack' \in Seq(Frames)
  BY TopType DEF doIOStop, Return, At, IInv
<1>4. TypeOK'
  BY <1>1, <1>2, <1>3 DEF IInv, TypeOK, Without
<1>5. \A e \in pending' : e.who \in active' \union {Listener}
  BY <1>2 DEF IInv, NoEventForDeleted, Without
<1>6. QED
  BY <1>1, <1>2, <1>4, <1>5, QuietStep DEF Without

LEMMA ReadStep ==
  ASSUME IInv, doIORead
  PROVE  IInv'
<1>1. UNCHANGED <<main, path, restarts, client, backlog, requests, conn0, accepted, failures,
                  fdOpen, active, deleted, flushing, pending, fault>>
  BY DEF doIORead, boot, net, conns
<1>2. Top \in Frames /\ Top = stack[1] /\ stack # << >>
  BY TopType DEF doIORead, At, IInv
<1>3. unread \in [Clients -> Nat] /\ Top.conn \in Clients
  BY <1>2 DEF IInv, TypeOK, Frames
<1>4. unread' \in [Clients -> Nat]
  BY <1>3 DEF doIORead
<1>5. [stack[1] EXCEPT !.pc = "handle", !.todo = unread[Top.conn]] \in Frames
  BY <1>2, <1>3 DEF Frames
<1>6. stack' = [stack EXCEPT ![1] = [stack[1] EXCEPT !.pc = "handle", !.todo = unread[Top.conn]]]
  BY <1>2 DEF doIORead, IInv, TypeOK
<1>7. stack' \in Seq(Frames)
  BY <1>2, <1>5, <1>6, SetTop DEF IInv
<1>8. TypeOK'
  BY <1>1, <1>4, <1>7 DEF IInv, TypeOK
<1>9. QED
  BY <1>1, <1>8, QuietStep DEF IInv, NoEventForDeleted

(* onDawnBuffer and the rest of doIO: the connections stay as they are. *)
LEMMA HandlerStep ==
  ASSUME IInv,
         \/ onDawnBufferReply \/ onDawnBufferNoReply \/ onDawnBufferFails
         \/ FlushReturns \/ FlushReturnsToDeleted
         \/ readMsgDone \/ doIOWrite \/ doIOWriteFails
  PROVE  IInv'
<1>1. UNCHANGED <<main, path, restarts, client, backlog, requests, unread, conn0, accepted,
                  failures, fdOpen, active, deleted, pending>>
  BY DEF onDawnBufferReply, onDawnBufferNoReply, onDawnBufferFails, FlushReturns,
         FlushReturnsToDeleted, readMsgDone, doIOWrite, doIOWriteFails, Fail,
         boot, net, conns
<1>2. Top \in Frames /\ Top = stack[1] /\ stack # << >> /\ Tail(stack) \in Seq(Frames)
  BY TopType
  DEF IInv, At, onDawnBufferReply, onDawnBufferNoReply, onDawnBufferFails, FlushReturns,
      FlushReturnsToDeleted, readMsgDone, doIOWrite, doIOWriteFails
<1>3. Top.conn \in Clients /\ Top.todo \in Nat
  BY <1>2 DEF Frames
<1>4. flushing' \subseteq Clients
  BY <1>3
  DEF IInv, TypeOK, onDawnBufferReply, onDawnBufferNoReply, onDawnBufferFails, FlushReturns,
      FlushReturnsToDeleted, readMsgDone, doIOWrite, doIOWriteFails, Fail
<1>5. fault' \in {"none", "assert_flush", "null_loop", "use_after_free", "sigpipe",
                 "killed", "in_use", "setup"}
  BY DEF IInv, TypeOK, onDawnBufferReply, onDawnBufferNoReply, onDawnBufferFails,
         FlushReturns, FlushReturnsToDeleted, readMsgDone, doIOWrite, doIOWriteFails, Fail
<1>6. stack' \in Seq(Frames)
  <2>1. CASE onDawnBufferReply
    <3>1. [stack[1] EXCEPT !.pc = "flush", !.polled = FALSE, !.todo = @ - 1] \in Frames
      BY <1>2, <1>3, <2>1 DEF Frames, onDawnBufferReply
    <3>2. stack' = [stack EXCEPT ![1] =
                      [stack[1] EXCEPT !.pc = "flush", !.polled = FALSE, !.todo = @ - 1]]
      BY <1>2, <2>1 DEF onDawnBufferReply, IInv, TypeOK
    <3>3. QED
      BY <1>2, <3>1, <3>2, SetTop DEF IInv
  <2>2. CASE onDawnBufferNoReply
    <3>1. stack[1].todo - 1 \in Nat
      BY <1>2, <1>3, <2>2 DEF onDawnBufferNoReply
    <3>2. [stack[1] EXCEPT !.todo = @ - 1] \in Frames
      BY <1>2, <3>1 DEF Frames
    <3>3. QED
      BY <1>2, <2>2, <3>2, SetTop DEF onDawnBufferNoReply, IInv
  <2>3. CASE FlushReturns \/ readMsgDone
    <3>1. /\ [stack[1] EXCEPT !.pc = "handle"] \in Frames
          /\ [stack[1] EXCEPT !.pc = "write"] \in Frames
      BY <1>2 DEF Frames
    <3>2. QED
      BY <1>2, <2>3, <3>1, SetTop DEF FlushReturns, readMsgDone, Goto, IInv
  <2>4. CASE doIOWrite
    BY <1>2, <2>4 DEF doIOWrite, Return
  <2>5. CASE onDawnBufferFails \/ FlushReturnsToDeleted \/ doIOWriteFails
    BY <2>5 DEF onDawnBufferFails, FlushReturnsToDeleted, doIOWriteFails, Fail, IInv, TypeOK
  <2>6. QED
    BY <2>1, <2>2, <2>3, <2>4, <2>5
<1>7. TypeOK'
  BY <1>1, <1>4, <1>5, <1>6 DEF IInv, TypeOK
<1>8. QED
  BY <1>1, <1>7, QuietStep DEF IInv, NoEventForDeleted

LEMMA EndStep ==
  ASSUME IInv, Kill \/ Restart
  PROVE  IInv'
<1>1. Vanish
  BY DEF Kill, Restart
<1>2. restarts' \in 0..MaxRestarts
  BY ServerAssumption DEF Kill, Restart, IInv, TypeOK
<1>3. /\ main' \in {"unlink", "bind", "listen", "device", "loop"}
      /\ fault' \in {"none", "killed"}
  BY DEF Kill, Restart, IInv, TypeOK
<1>4. QED
  BY <1>1, <1>2, <1>3, VanishKeepsInv
-----------------------------------------------------------------------------
LEMMA InvHolds == Spec => []IInv
<1>1. Init => IInv
  <2> SUFFICES ASSUME Init PROVE IInv
    OBVIOUS
  <2>1. TypeOK
    BY ServerAssumption DEF Init, TypeOK
  <2>2. AcceptFindsOne /\ LastInWins /\ NoEventForDeleted
    BY DEF Init, AcceptFindsOne, LastInWins, NoEventForDeleted
  <2>3. Waiting
    BY ServerAssumption DEF Init, Waiting
  <2>4. QED
    BY <2>1, <2>2, <2>3 DEF IInv
<1>2. IInv /\ [Next]_vars => IInv'
  <2> SUFFICES ASSUME IInv, [Next]_vars PROVE IInv'
    OBVIOUS
  <2>1. CASE Program
    BY <2>1, BootStep, PollsStep, AcceptStep, InvokeStep, StopStep, ReadStep, HandlerStep
    DEF Program
  <2>2. CASE ClientStep
    BY <2>2, ConnectStep, RequestStep, DisconnectStep DEF ClientStep
  <2>3. CASE Kill \/ Restart
    BY <2>3, EndStep
  <2>4. CASE UNCHANGED vars
    <3>1. TypeOK'
      BY <2>4 DEF vars, IInv, TypeOK
    <3>2. QED
      BY <2>4, <3>1, QuietStep DEF vars, IInv, NoEventForDeleted
  <2>5. QED
    BY <2>1, <2>2, <2>3, <2>4 DEF Next
<1>3. QED
  BY <1>1, <1>2, PTL DEF Spec

(* The state of the server, of the loop and of the handlers keeps its type.*)
THEOREM TypeCorrect == Spec => []TypeOK
<1>1. IInv => TypeOK
  BY DEF IInv
<1>2. QED
  BY <1>1, InvHolds, PTL

(* "last in wins": one connection is watched and open, the last accepted.  *)
THEOREM LastWins == Spec => []LastInWins
<1>1. IInv => LastInWins
  BY DEF IInv
<1>2. QED
  BY <1>1, InvHolds, PTL

(* The loop never holds an event of a Conn that was deleted.               *)
THEOREM NoStaleEvent == Spec => []NoEventForDeleted
<1>1. IInv => NoEventForDeleted
  BY DEF IInv
<1>2. QED
  BY <1>1, InvHolds, PTL

(* onServerIO is never invoked without a connection to accept, whichever   *)
(* of the nested loops invokes it.                                         *)
THEOREM AcceptIsReady == Spec => []AcceptFindsOne
<1>1. IInv => AcceptFindsOne
  BY DEF IInv
<1>2. QED
  BY <1>1, InvHolds, PTL
=============================================================================
