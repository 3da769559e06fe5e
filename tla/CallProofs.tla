----------------------------- MODULE CallProofs -----------------------------
(***************************************************************************)
(* Proofs that Session implements Calls, and that the client may flush.    *)
(*                                                                         *)
(* From the places where the programs are, which SessionProofs follows     *)
(* (OnTrack), it is known whose turn it is to ask, to perform or to answer *)
(* (Course).  A session goes on after the result was performed, and Course *)
(* also follows a client that has lost its place in the stream.            *)
(*                                                                         *)
(* A Flush of the client finds the buffer before it gone as long as the    *)
(* kernel takes each one whole (Prompt, of FrameProofs), which it does if  *)
(* the client is not too far ahead of the server.  Pace says how far it    *)
(* is, at each place of the script that does not wait, and KernelTakes     *)
(* what the kernel has to hold for that.                                   *)
(***************************************************************************)
EXTENDS SessionProofs

(* The calls of the script, in their order. *)
Follows(calls) ==
  /\ calls \in Seq(Call) /\ Len(calls) =< 3
  /\ \A i \in 1..Len(calls) : calls[i] = CallAt(i)

LEMMA FollowsOn ==
  ASSUME NEW calls, Follows(calls), Len(calls) < 3, NEW call, call = CallAt(Len(calls) + 1)
  PROVE  Follows(Append(calls, call)) /\ Len(Append(calls, call)) = Len(calls) + 1
<1>1. PICK l \in Nat : l = Len(calls) /\ l < 3
  BY DEF Follows
<1>2. call \in Call
  BY <1>1 DEF CallAt, Call
<1>3. /\ Append(calls, call) \in Seq(Call) /\ Len(Append(calls, call)) = l + 1
      /\ \A i \in 1..l : Append(calls, call)[i] = calls[i]
      /\ Append(calls, call)[l + 1] = call
  BY <1>1, <1>2, AppendProperties DEF Follows
<1>4. \A i \in 1..l + 1 : i \in 1..l \/ i = l + 1
  BY <1>1
<1>5. \A i \in 1..l + 1 : Append(calls, call)[i] = CallAt(i)
  BY <1>1, <1>3, <1>4 DEF Follows
<1>6. QED
  BY <1>1, <1>3, <1>5 DEF Follows

LEMMA FollowsSame ==
  ASSUME NEW a, Follows(a), NEW b, Follows(b), Len(a) = Len(b)
  PROVE  a = b
<1>1. \A i \in 1..Len(a) : a[i] = b[i]
  BY DEF Follows
<1>2. QED
  BY <1>1, SeqEqual DEF Follows

(* When the result is on its way the client, too, may read in a Flush what *)
(* it has not waited for: the result, which it takes for the rest of the   *)
(* answer before.  It is then behind all there is to read, and waits       *)
(* for ever; what it finds there is no answer to anything.                 *)
ClientAstray ==
  /\ Len(s_flushed) = 3
  /\ \/ CP!Past /\ Waiting(2, c_code)
     \/ /\ CP!PastIn
        /\ \E old : Waiting(2, old) /\ c_code = <<<< >>>> \o old
OnCourse == (ClientOnTrack /\ Answered) \/ ClientAstray

(* No call is performed that was not asked, none answered that was not     *)
(* performed, and all are of the script.                                   *)
Course ==
  /\ Follows(asked) /\ Follows(performed) /\ Follows(answered)
  /\ Len(performed) =< Len(asked)
  /\ OnCourse

LEMMA FewAnswers ==
  ASSUME Connected, Recorded, OnTrack
  PROVE  /\ Len(performed) \in Nat /\ Len(performed) =< 3
         /\ Len(s_flushed) \in Nat /\ Len(s_flushed) =< Len(performed)
         /\ gpu = "done" => Len(performed) = 3
<1>1. PICK p \in Nat, d \in Nat : p = Len(performed) /\ d = Len(s_delivered)
  BY Lengths
<1>2. p =< 3 /\ (gpu = "done" => p = 3)
  <2>1. CASE ServerOnTrack
    <3>1. ServerAt(d, p, s_code, gpu)
      BY <1>1, <2>1 DEF ServerOnTrack
    <3>2. QED
      BY <3>1, ServerCounts
  <2>2. CASE ServerAstray
    BY <1>1, <2>2 DEF ServerAstray
  <2>3. QED
    BY <2>1, <2>2 DEF OnTrack
<1>3. Len(s_flushed) \in Nat /\ Len(s_flushed) =< Len(performed)
  BY Lengths DEF OnTrack, SP!Within
<1>4. QED
  BY <1>1, <1>2, <1>3

LEMMA ServerNumbers ==
  ASSUME OnTrack
  PROVE  CP!Numbered(s_flushed)
BY SameFrames DEF OnTrack, SP!Made

(* After the third answer the server flushes nothing. *)
LEMMA NoFourthAnswer ==
  ASSUME Connected, Connected', Recorded', OnTrack', Len(s_flushed) = 3,
         CP!Grown(s_flushed, s_flushed')
  PROVE  s_flushed' = s_flushed
<1>1. (Connected /\ Recorded /\ OnTrack =>
         /\ Len(performed) \in Nat /\ Len(performed) =< 3
         /\ Len(s_flushed) \in Nat /\ Len(s_flushed) =< Len(performed))'
  BY FewAnswers, PTL
<1>2. PICK p \in Nat, f \in Nat : p = Len(performed') /\ f = Len(s_flushed') /\ f =< p /\ p =< 3
  BY <1>1
<1>3. f = 3 /\ \A k \in 1..3 : s_flushed'[k] = s_flushed[k]
  BY <1>2 DEF CP!Grown
<1>4. s_flushed \in Seq(Seq(Nat)) /\ s_flushed' \in Seq(Seq(Nat))
  <2>1. CP!SInv => s_flushed \in Seq(Seq(Nat))
    BY CP!Types, ClientAssumption
  <2>2. (CP!SInv => s_flushed \in Seq(Seq(Nat)))'
    BY <2>1, CP!Types, ClientAssumption, PTL
  <2>3. QED
    BY <2>1, <2>2 DEF Connected
<1>5. QED
  BY <1>2, <1>3, <1>4, SeqEqual
-----------------------------------------------------------------------------
(* A client that waits for the last answer, and one that has taken a       *)
(* header for it.                                                          *)
LEMMA WaitingAt == \A code : Waiting(2, code) <=> ClientAt(2, 3, code, "none")
BY DEF ClientAt

LEMMA WaitingExecutes ==
  ASSUME NEW code, Waiting(2, code),
         Statement(code) \in {"adapter", "device", "compute", "Tick", "Unmap", "Flush"}
  PROVE  Waiting(2, Executed(code)) /\ CallIn(Statement(code)) \notin Call
<1>1. ClientAt(2, 3, code, "none")
  BY WaitingAt
<1>2. CallIn(Statement(code)) \notin Call
  BY <1>1, ClientAsks
<1>3. ClientAt(2, 3, Executed(code), "none")
  BY <1>1, <1>2, ClientExecutes
<1>4. QED
  BY <1>2, <1>3, WaitingAt

LEMMA WaitingFinishes ==
  ASSUME NEW code, Waiting(2, code), code # << >>, Head(code) = << >>
  PROVE  Waiting(2, Tail(code))
<1>1. ClientAt(2, 3, code, "none")
  BY WaitingAt
<1>2. ClientAt(2, 3, Tail(code), "none")
  BY <1>1, ClientFinishes
<1>3. QED
  BY <1>2, WaitingAt

LEMMA WaitingPushed ==
  ASSUME NEW old, Waiting(2, old)
  PROVE  /\ <<<< >>>> \o old # << >> /\ Head(<<<< >>>> \o old) = << >>
         /\ Tail(<<<< >>>> \o old) = old /\ Statement(<<<< >>>> \o old) = "none"
<1>1. PICK X : old \in Seq(X) /\ << >> \in X
  <2>1. CASE old = << >>
    <3>1. << >> \in Seq({<< >>}) /\ << >> \in {<< >>}
      OBVIOUS
    <3>2. QED
      BY <2>1, <3>1
  <2>2. ASSUME NEW rest, old = <<rest>> PROVE \E X : old \in Seq(X) /\ << >> \in X
    <3>1. <<rest>> \in Seq({rest, << >>}) /\ << >> \in {rest, << >>}
      OBVIOUS
    <3>2. QED
      BY <2>2, <3>1
  <2>3. QED
    BY <2>1, <2>2 DEF Waiting
<1>2. PICK first : first = << >> /\ first \in X
  BY <1>1
<1>3. <<first>> \o old # << >> /\ Head(<<first>> \o old) = first /\ Tail(<<first>> \o old) = old
  BY <1>1, <1>2
<1>4. QED
  BY <1>2, <1>3 DEF Statement

LEMMA AstrayStatement ==
  ASSUME ClientAstray
  PROVE  ~Pending(c_code)
<1>1. ASSUME Waiting(2, c_code) PROVE ~Pending(c_code)
  BY <1>1, NoPending DEF Waiting
<1>2. ASSUME NEW old, Waiting(2, old), c_code = <<<< >>>> \o old PROVE ~Pending(c_code)
  BY <1>2, WaitingPushed DEF Pending
<1>3. QED
  BY <1>1, <1>2 DEF ClientAstray

LEMMA JunkNotHandled ==
  ASSUME Connected, OnTrack, Len(s_flushed) = 3, NEW body, CP!Junk(body)
  PROVE  ClientHandles(body) = << >>
<1>1. DOMAIN s_flushed = 1..Len(s_flushed)
  <2>1. s_flushed \in Seq(Seq(Nat))
    BY CP!Types, ClientAssumption DEF Connected
  <2>2. QED
    BY <2>1
<1>2. ASSUME Genuine(body, s_flushed) PROVE FALSE
  <2>1. body[1] \in 1..Len(s_flushed) /\ s_flushed[body[1]] = CP!DawnCmd(body)
    BY <1>1, <1>2, SameFrames DEF Genuine
  <2>2. CP!Numbered(s_flushed)
    BY ServerNumbers
  <2>3. QED
    BY <2>1, <2>2, CP!NoFrame, ClientAssumption DEF Connected
<1>3. QED
  BY <1>2 DEF ClientHandles
-----------------------------------------------------------------------------
(* Whatever the other side does, the client's place stays what it is. *)
LEMMA OutsideCourse ==
  ASSUME Connected, Connected', Recorded', OnTrack, OnTrack',
         CP!Outside, CP!Grown(s_flushed, s_flushed'),
         UNCHANGED <<c_code, c_fault, asked, answered>>, OnCourse
  PROVE  OnCourse'
<1>1. UNCHANGED <<c_flushed, c_writebuf, c_delivered>>
  BY CP!OutsideKeeps, ClientAssumption DEF OnTrack
<1>2. ASSUME ClientOnTrack, Answered PROVE OnCourse'
  <2>1. ClientOnTrack'
    BY <1>2, ClientStays
  <2>2. Answered'
    BY <1>1, <1>2 DEF Answered
  <2>3. QED
    BY <2>1, <2>2 DEF OnCourse
<1>3. ASSUME ClientAstray PROVE OnCourse'
  <2>1. s_flushed' = s_flushed
    BY <1>3, NoFourthAnswer DEF ClientAstray
  <2>2. (CP!Past => CP!Past') /\ (CP!PastIn => CP!PastIn')
    BY <2>1, CP!OutsidePast, ClientAssumption DEF Connected
  <2>3. Len(s_flushed') = 3 /\ c_code' = c_code
    BY <1>3, <2>1 DEF ClientAstray
  <2>4. CASE CP!Past /\ Waiting(2, c_code)
    <3>1. CP!Past' /\ Waiting(2, c_code')
      BY <2>2, <2>3, <2>4
    <3>2. QED
      BY <2>3, <3>1 DEF OnCourse, ClientAstray
  <2>5. CASE CP!PastIn /\ \E old : Waiting(2, old) /\ c_code = <<<< >>>> \o old
    <3>1. CP!PastIn' /\ \E old : Waiting(2, old) /\ c_code' = <<<< >>>> \o old
      BY <2>2, <2>3, <2>5
    <3>2. QED
      BY <2>3, <3>1, Zenon DEF OnCourse, ClientAstray
  <2>6. QED
    BY <1>3, <2>4, <2>5 DEF ClientAstray
<1>4. QED
  BY <1>2, <1>3 DEF OnCourse

(* Only when the result is on its way a Flush of the client finds it. *)
LEMMA ClientReads ==
  ASSUME Connected, Recorded, OnTrack, CP!doIO \/ CP!Loop \/ CP!App
  PROVE  \/ CP!At("read") /\ Len(c_stack) = 2 => CP!Got = 0
         \/ CP!doIORead /\ Len(c_stack) = 2 /\ gpu = "done"
<1>1. CASE gpu # "done"
  BY <1>1, NothingForClient
<1>2. CASE gpu = "done"
  BY <1>2, CP!ReadsNow, ClientAssumption
<1>3. QED
  BY <1>1, <1>2

LEMMA ClientLoopAstray ==
  ASSUME Connected, Stacked, Recorded, OnTrack, Course, ClientLoop, ClientOnTrack, Answered,
         CP!doIORead, Len(c_stack) = 2, gpu = "done"
  PROVE  OnCourse'
<1>1. PICK q \in Nat, d \in Nat : q = Len(asked) /\ d = Len(c_delivered)
  BY Lengths
<1>2. s_flushed' = s_flushed
  BY DEF ClientLoop, serverSide, serverEnd
<1>3. ClientAt(d, q, c_code, "none")
  <2>1. c_fault = "none"
    BY CP!Alive, ClientAssumption DEF CP!doIO
  <2>2. QED
    BY <1>1, <2>1 DEF ClientOnTrack
<1>4. q = 3
  <2>1. PICK p \in Nat : p = Len(performed) /\ p = 3 /\ p =< q
    BY <1>1, FewAnswers DEF Course
  <2>2. q =< 3
    BY <1>1 DEF Course, Follows
  <2>3. QED
    BY <2>1, <2>2
<1>5. (d = 2 /\ Waiting(2, c_code)) \/ d = 3
  BY <1>3, <1>4 DEF ClientAt, Answering, Asking
<1>6. PICK f \in Nat : f = Len(s_flushed) /\ f =< 3
  BY FewAnswers
<1>7. CP!Receiving /\ CP!Numbered(s_flushed) /\ ~CP!FromMain(c_stack)
  <2>1. c_delivered # << >>
    <3>1. Len(<< >>) = 0 /\ d # 0
      BY <1>5
    <3>2. QED
      BY <1>1, <3>1, Zenon
  <2>2. QED
    BY <2>1, ServerNumbers DEF ClientOnTrack, CP!Receiving
<1>8. \/ CP!Receiving' /\ c_delivered' = c_delivered
      \/ /\ d < f /\ c_delivered' # c_delivered
         /\ d + 1 = f => CP!PastIn' /\ CP!Junk(CP!Last(c_delivered'))
  BY <1>1, <1>6, <1>7, CP!StuckRead, ClientAssumption DEF Connected
<1>9. CASE CP!Receiving' /\ c_delivered' = c_delivered
  BY <1>9, ClientLoopGoesOn DEF OnCourse
<1>10. CASE /\ d < f /\ c_delivered' # c_delivered
            /\ d + 1 = f => CP!PastIn' /\ CP!Junk(CP!Last(c_delivered'))
  <2>1. d = 2 /\ f = 3 /\ d + 1 = f /\ Waiting(2, c_code)
    BY <1>5, <1>6, <1>10
  <2>2. PICK body : body = Last(c_delivered') /\ CP!Junk(body)
    BY <1>10, <2>1, SameLast
  <2>3. ClientHandles(body) = << >>
    BY <1>6, <2>1, <2>2, JunkNotHandled
  <2>4. c_code' = <<<< >>>> \o c_code
    BY <1>10, <2>2, <2>3 DEF ClientLoop
  <2>5. \E old : Waiting(2, old) /\ c_code' = <<<< >>>> \o old
    BY <2>1, <2>4
  <2>6. CP!PastIn' /\ Len(s_flushed') = 3
    BY <1>2, <1>6, <1>10, <2>1
  <2>7. QED
    BY <2>5, <2>6, Zenon DEF OnCourse, ClientAstray
<1>11. QED
  BY <1>8, <1>9, <1>10

LEMMA ClientLoopCourse ==
  ASSUME Connected, Stacked, Recorded, OnTrack, Course, ClientLoop
  PROVE  OnCourse'
<1>1. CP!doIO \/ CP!Loop
  BY ClientEndpoint DEF ClientLoop
<1>2. s_flushed' = s_flushed
  BY DEF ClientLoop, serverSide, serverEnd
<1>3. Len(s_flushed) \in Nat /\ Len(s_flushed) =< 3 /\ CP!Numbered(s_flushed)
  <2>1. PICK p \in Nat, f \in Nat : f = Len(s_flushed) /\ p = Len(performed) /\ f =< p /\ p =< 3
    BY FewAnswers
  <2>2. QED
    BY <2>1, ServerNumbers
<1>4. ASSUME ClientOnTrack, Answered, CP!At("read") /\ Len(c_stack) = 2 => CP!Got = 0
      PROVE  OnCourse'
  <2>1. CP!Receiving
    BY <1>4 DEF ClientOnTrack
  <2>2. CP!Receiving'
    BY <1>1, <1>3, <1>4, <2>1, CP!ReceivingStep, ClientAssumption DEF Connected
  <2>3. QED
    BY <1>3, <1>4, <2>1, <2>2, ClientLoopGoesOn DEF OnCourse
<1>5. ASSUME ClientOnTrack, Answered, CP!doIORead /\ Len(c_stack) = 2 /\ gpu = "done"
      PROVE  OnCourse'
  BY <1>5, ClientLoopAstray
<1>6. ASSUME ClientAstray PROVE OnCourse'
  <2>1. CP!Past /\ Waiting(2, c_code)
    BY <1>1, <1>6, CP!PastInStep, ClientAssumption DEF Connected, ClientAstray
  <2>2. Len(s_flushed) = 3 /\ Len(s_flushed') = 3
    BY <1>2, <1>6 DEF ClientAstray
  <2>3. \/ CP!Past' /\ c_delivered' = c_delivered
        \/ /\ CP!PastIn' /\ c_delivered' # c_delivered
           /\ CP!Junk(CP!Last(c_delivered'))
    BY <1>1, <1>3, <2>1, CP!PastStep, ClientAssumption DEF Connected
  <2>4. CASE CP!Past' /\ c_delivered' = c_delivered
    <3>1. c_code' = c_code
      BY <2>4 DEF ClientLoop
    <3>2. QED
      BY <2>1, <2>2, <2>4, <3>1 DEF OnCourse, ClientAstray
  <2>5. CASE /\ CP!PastIn' /\ c_delivered' # c_delivered
             /\ CP!Junk(CP!Last(c_delivered'))
    <3>1. PICK body : body = Last(c_delivered') /\ CP!Junk(body)
      BY <2>5, SameLast
    <3>2. ClientHandles(body) = << >>
      BY <2>2, <3>1, JunkNotHandled
    <3>3. c_code' = <<<< >>>> \o c_code
      BY <2>5, <3>1, <3>2 DEF ClientLoop
    <3>4. \E old : Waiting(2, old) /\ c_code' = <<<< >>>> \o old
      BY <2>1, <3>3
    <3>5. QED
      BY <2>2, <2>5, <3>4, Zenon DEF OnCourse, ClientAstray
  <2>6. QED
    BY <2>3, <2>4, <2>5
<1>7. QED
  BY <1>1, <1>4, <1>5, <1>6, ClientReads DEF Course, OnCourse

LEMMA AppNotReading == CP!App => ~CP!At("read")
<1>1. CP!App => CP!At("app")
  BY DEF CP!App, CP!GetCmdSpace, CP!Flush, CP!FlushTooEarly, CP!sendFrameSignal,
     CP!sendFramebufferInfo, CP!sendReservation, CP!send, CP!ReturnFromApp
<1>2. CP!At("app") => ~CP!At("read")
  BY DEF CP!At
<1>3. QED
  BY <1>1, <1>2

LEMMA AppReceives ==
  ASSUME Connected, OnTrack, CP!App, CP!Receiving
  PROVE  CP!Receiving'
BY AppNotReading, ServerNumbers, CP!ReceivingStep, ClientAssumption DEF Connected

(* The program of a client that has lost its place. *)
LEMMA AstrayApp ==
  ASSUME Connected, OnTrack, ClientAstray, CP!App, s_flushed' = s_flushed,
         \/ /\ Statement(c_code) \in {"adapter", "device", "compute", "Tick", "Unmap", "Flush"}
            /\ c_code' = Executed(c_code)
         \/ /\ c_code # << >> /\ Head(c_code) = << >> /\ c_code' = Tail(c_code)
            /\ CP!ReturnFromApp
  PROVE  /\ ClientAstray'
         /\ Statement(c_code) # "none" => CallIn(Statement(c_code)) \notin Call
<1>1. c_delivered' = c_delivered
  BY CP!AppDelivers, ClientAssumption
<1>2. Len(s_flushed') = 3
  BY DEF ClientAstray
<1>3. CASE CP!Past /\ Waiting(2, c_code)
  <2>1. CP!Past'
    BY <1>1, <1>2, <1>3, ServerNumbers, CP!PastStep, ClientAssumption DEF Connected
  <2>2. CASE /\ Statement(c_code) \in {"adapter", "device", "compute", "Tick", "Unmap", "Flush"}
             /\ c_code' = Executed(c_code)
    <3>1. Waiting(2, c_code') /\ CallIn(Statement(c_code)) \notin Call
      BY <1>3, <2>2, WaitingExecutes
    <3>2. QED
      BY <1>2, <2>1, <3>1 DEF ClientAstray
  <2>3. CASE c_code # << >> /\ Head(c_code) = << >> /\ c_code' = Tail(c_code)
    <3>1. Waiting(2, c_code')
      BY <1>3, <2>3, WaitingFinishes
    <3>2. Statement(c_code) = "none"
      BY <2>3 DEF Statement
    <3>3. QED
      BY <1>2, <2>1, <3>1, <3>2 DEF ClientAstray
  <2>4. QED
    BY <2>2, <2>3
<1>4. ASSUME CP!PastIn, NEW old, Waiting(2, old), c_code = <<<< >>>> \o old
      PROVE  /\ ClientAstray'
             /\ Statement(c_code) # "none" => CallIn(Statement(c_code)) \notin Call
  <2>1. /\ Tail(c_code) = old /\ Statement(c_code) = "none"
    BY <1>4, WaitingPushed
  <2>2. c_code' = old /\ CP!ReturnFromApp
    BY <2>1
  <2>3. CP!Past'
    BY <1>4, <2>2, CP!PastInStep, ClientAssumption DEF Connected
  <2>4. QED
    BY <1>2, <1>4, <2>1, <2>2, <2>3 DEF ClientAstray
<1>5. QED
  BY <1>3, <1>4 DEF ClientAstray
-----------------------------------------------------------------------------
(* The steps of the calls. *)
NoCall == UNCHANGED <<asked, performed, answered>>

LEMMA QuietCourse ==
  ASSUME Course, NoCall, OnCourse'
  PROVE  Course' /\ [Exchange!Next]_(Exchange!vars)
BY DEF Course, NoCall, Exchange!vars, Follows

LEMMA CommandCourse ==
  ASSUME Connected, Recorded, OnTrack, Course,
         NEW command \in {"adapter", "device", "compute", "Tick", "Unmap"},
         ClientCommand(command)
  PROVE  Course' /\ [Exchange!Next]_(Exchange!vars)
<1>1. CP!App
  <2>1. PICK size \in {Small, MAX} : C!GetCmdSpace(size)
    BY DEF ClientCommand
  <2>2. QED
    BY <2>1, ClientEndpoint DEF CP!App
<1>2. /\ Statement(c_code) = command /\ c_code' = Executed(c_code)
      /\ s_flushed' = s_flushed /\ UNCHANGED <<performed, answered>>
      /\ asked' = IF CallIn(command) \in Call THEN Append(asked, CallIn(command)) ELSE asked
  BY DEF ClientCommand, serverSide, serverEnd
<1>3. CASE ClientAstray
  <2>1. ClientAstray' /\ (Statement(c_code) # "none" => CallIn(Statement(c_code)) \notin Call)
    BY <1>1, <1>2, <1>3, AstrayApp
  <2>2. NoCall
    BY <1>2, <2>1 DEF NoCall
  <2>3. QED
    BY <2>1, <2>2, QuietCourse DEF OnCourse
<1>4. CASE ClientOnTrack /\ Answered
  <2>1. CP!Receiving'
    BY <1>1, <1>4, AppReceives DEF ClientOnTrack
  <2>2. /\ ClientOnTrack' /\ Answered'
        /\ CallIn(command) \in Call =>
             /\ Len(answered) = Len(asked) /\ Len(asked) < 3
             /\ CallIn(command) = CallAt(Len(asked) + 1)
    BY <1>4, <2>1, ClientCommandGoesOn
  <2>3. CASE CallIn(command) \notin Call
    BY <1>2, <2>2, <2>3, QuietCourse DEF NoCall, OnCourse
  <2>4. CASE CallIn(command) \in Call
    <3>1. PICK call \in Call : call = CallIn(command) /\ asked' = Append(asked, call)
      BY <1>2, <2>4
    <3>2. Follows(asked') /\ Len(asked') = Len(asked) + 1
      BY <2>2, <2>4, <3>1, FollowsOn DEF Course
    <3>3. answered = asked
      BY <2>2, <2>4, FollowsSame DEF Course
    <3>4. Exchange!Ask
      BY <1>2, <3>1, <3>3 DEF Exchange!Ask
    <3>5. Len(performed') =< Len(asked')
      <4>1. Len(performed) \in Nat /\ Len(asked) \in Nat /\ Len(performed) =< Len(asked)
        BY Lengths DEF Course
      <4>2. QED
        BY <1>2, <3>2, <4>1
    <3>6. Course'
      <4>1. Follows(performed') /\ Follows(answered')
        BY <1>2 DEF Course
      <4>2. QED
        BY <2>2, <3>2, <3>5, <4>1 DEF Course, OnCourse
    <3>7. QED
      BY <3>4, <3>6 DEF Exchange!Next
  <2>5. QED
    BY <2>3, <2>4
<1>5. QED
  BY <1>3, <1>4 DEF Course, OnCourse

LEMMA FlushCourse ==
  ASSUME Connected, Recorded, OnTrack, Course, ClientFlush \/ ClientReturns
  PROVE  OnCourse'
<1>1. CP!App
  BY ClientEndpoint DEF ClientFlush, ClientReturns, CP!App
<1>2. s_flushed' = s_flushed
  BY DEF ClientFlush, ClientReturns, serverSide, serverEnd
<1>3. CASE ClientAstray
  <2>1. CASE ClientFlush
    BY <1>1, <1>2, <1>3, <2>1, AstrayApp DEF ClientFlush, OnCourse
  <2>2. CASE ClientReturns
    BY <1>1, <1>2, <1>3, <2>2, AstrayApp, ClientEndpoint DEF ClientReturns, OnCourse
  <2>3. QED
    BY <2>1, <2>2
<1>4. CASE ClientOnTrack /\ Answered
  <2>1. CP!Receiving'
    BY <1>1, <1>4, AppReceives DEF ClientOnTrack
  <2>2. QED
    BY <1>4, <2>1, ClientFlushGoesOn DEF OnCourse
<1>5. QED
  BY <1>3, <1>4 DEF Course, OnCourse

LEMMA CallbackCourse ==
  ASSUME Connected, Recorded, OnTrack, Course, NEW answer, NEW call, NEW body,
         Callback(answer, call, body), ClientCallback(answer, call, body)
  PROVE  Course' /\ [Exchange!Next]_(Exchange!vars)
<1>1. /\ UNCHANGED <<clientKeeps, serverKeeps>> /\ c_fault' \in {c_fault, "refused"}
      /\ s_fault' = s_fault /\ UNCHANGED <<s_code, gpu, performed>>
      /\ asked' = asked /\ Statement(c_code) = answer
  BY CallbackNobody
<1>2. CP!Receiving => CP!Receiving'
  BY <1>1, NobodyOnTrack
<1>3. ~ClientAstray
  BY <1>1, AstrayStatement DEF Callback, Pending
<1>4. ClientOnTrack /\ Answered
  BY <1>3 DEF Course, OnCourse
<1>5. /\ ClientOnTrack' /\ Answered' /\ Len(asked) = Len(c_delivered)
      /\ Len(answered) + 1 = Len(asked) /\ call = CallAt(Len(asked))
  BY <1>2, <1>4, ClientCallbackGoesOn DEF ClientOnTrack
<1>6. PICK q \in Nat, p \in Nat, a \in Nat :
        q = Len(asked) /\ p = Len(performed) /\ a = Len(answered)
  BY Lengths DEF Recorded
<1>7. p = q /\ a + 1 = q /\ q =< 3
  <2>1. PICK f \in Nat : f = Len(s_flushed) /\ f =< p
    BY <1>6, FewAnswers
  <2>2. Len(c_delivered) =< f
    BY <1>4, <2>1 DEF ClientOnTrack, CP!Receiving
  <2>3. q =< f /\ p =< q
    BY <1>5, <1>6, <2>2 DEF Course
  <2>4. q =< 3
    BY <1>6 DEF Course, Follows
  <2>5. QED
    BY <1>5, <1>6, <2>1, <2>3, <2>4
<1>8. answered' = Append(answered, call)
  BY DEF ClientCallback
<1>9. Follows(answered') /\ Len(answered') = a + 1
  <2>1. Len(answered) < 3 /\ call = CallAt(Len(answered) + 1) /\ Follows(answered)
    BY <1>5, <1>6, <1>7 DEF Course
  <2>2. QED
    BY <1>6, <1>8, <2>1, FollowsOn
<1>10. answered' = performed /\ answered # performed
  <2>1. Len(answered') = Len(performed) /\ Len(answered) # Len(performed)
    BY <1>6, <1>7, <1>9
  <2>2. QED
    BY <1>9, <2>1, FollowsSame DEF Course
<1>11. Exchange!Answer
  BY <1>1, <1>10 DEF Exchange!Answer
<1>12. Course'
  <2>1. Follows(asked') /\ Follows(performed') /\ Len(performed') =< Len(asked')
    BY <1>1 DEF Course
  <2>2. QED
    BY <1>5, <1>9, <2>1 DEF Course, OnCourse
<1>13. QED
  BY <1>11, <1>12 DEF Exchange!Next

(* The server's loop, its flushes and the return from onDawnBuffer. *)
LEMMA ServerCourse ==
  ASSUME Connected, Connected', Recorded', OnTrack, OnTrack', Course,
         SP!doIO \/ SP!Loop \/ SP!App, UNCHANGED clientSide
  PROVE  OnCourse'
<1>1. CP!Outside /\ CP!Grown(s_flushed, s_flushed')
  <2>1. SP!Next
    BY DEF SP!Next
  <2>2. QED
    BY <2>1, ServerActs DEF clientSide
<1>2. UNCHANGED <<c_code, c_fault, asked, answered>>
  BY DEF clientSide, clientEnd
<1>3. QED
  BY <1>1, <1>2, OutsideCourse DEF Course

(* An answer is of the call that was asked last. *)
LEMMA ReplyCourse ==
  ASSUME FewTicks, Connected, Connected', Recorded, Recorded', OnTrack, OnTrack', Course,
         NEW call \in Call, ServerReply(call)
  PROVE  Course' /\ [Exchange!Next]_(Exchange!vars)
<1>1. SP!App
  <2>1. PICK size \in ReplySizes : S!GetCmdSpace(size)
    BY DEF ServerReply
  <2>2. QED
    BY <2>1, ServerEndpoint DEF SP!App
<1>2. /\ UNCHANGED clientSide /\ UNCHANGED <<asked, answered>>
      /\ Statement(s_code) = call /\ performed' = Append(performed, call)
  BY DEF ServerReply, clientSide
<1>3. OnCourse'
  BY <1>1, <1>2, ServerCourse
<1>4. PICK p \in Nat, d \in Nat : p = Len(performed) /\ d = Len(s_delivered)
  BY Lengths
<1>5. SP!Receiving /\ ServerAt(d, p, s_code, gpu)
  <2>1. s_fault = "none"
    BY <1>1, SP!Alive, ServerAssumption
  <2>2. ASSUME ServerAstray PROVE FALSE
    <3>1. s_code # << >> /\ Head(s_code) = <<"Flush">>
      BY <2>1, <2>2 DEF ServerAstray
    <3>2. Statement(s_code) = "Flush"
      BY <3>1, Single DEF Statement
    <3>3. QED
      BY <1>2, <3>2 DEF Call
  <2>3. QED
    BY <1>4, <2>2 DEF OnTrack, ServerOnTrack
<1>6. call = CallAt(p + 1) /\ p < 3 /\ p + 1 =< d
  BY <1>2, <1>5, ServerReplies
<1>7. gpu # "done"
  <2>1. p # 3
    BY <1>6
  <2>2. QED
    BY <1>5, <2>1, ServerCounts
<1>8. PICK q \in Nat, e \in Nat, f \in Nat, g \in Nat :
        q = Len(asked) /\ e = Len(c_delivered) /\ f = Len(c_flushed) /\ g = Len(s_flushed)
  BY Lengths
<1>9. q =< e + 1 /\ g =< p /\ (q # 3 => f =< q)
  BY <1>4, <1>7, <1>8, OnTrackCounts
<1>10. e =< g /\ d =< f
  BY <1>4, <1>5, <1>7, <1>8, OnTrackCounts DEF CP!Receiving, SP!Receiving
<1>11. q =< 3
  BY <1>8 DEF Course, Follows
<1>12. q = p + 1
  BY <1>6, <1>9, <1>10, <1>11
<1>13. Follows(performed') /\ Len(performed') = p + 1
  <2>1. Follows(performed) /\ Len(performed) < 3 /\ call = CallAt(Len(performed) + 1)
    BY <1>4, <1>6 DEF Course
  <2>2. QED
    BY <1>2, <1>4, <2>1, FollowsOn
<1>14. performed' = asked /\ performed # asked
  <2>1. Len(performed') = Len(asked) /\ Len(performed) # Len(asked)
    BY <1>4, <1>8, <1>12, <1>13
  <2>2. QED
    BY <1>13, <2>1, FollowsSame DEF Course
<1>15. Exchange!Perform
  BY <1>2, <1>14 DEF Exchange!Perform
<1>16. Course'
  <2>1. Len(performed') =< Len(asked') /\ asked' = asked /\ answered' = answered
    BY <1>2, <1>8, <1>12, <1>13
  <2>2. QED
    BY <1>3, <1>13, <2>1 DEF Course
<1>17. QED
  BY <1>15, <1>16 DEF Exchange!Next

(* A process ends. *)
LEMMA NobodyCourse ==
  ASSUME Connected, Connected', Recorded', OnTrack, OnTrack', Course,
         ClientExits \/ ServerDies \/ UNCHANGED vars
  PROVE  OnCourse' /\ NoCall
<1>1. /\ UNCHANGED <<clientKeeps, serverKeeps>> /\ c_fault' = c_fault
      /\ s_fault' \in {s_fault, "killed"}
      /\ UNCHANGED <<performed, c_code, asked, answered>>
  BY DEF ClientExits, ServerDies, vars, clientSide, serverSide, clientEnd,
     serverEnd, clientKeeps, serverKeeps
<1>2. CP!Outside /\ CP!Grown(s_flushed, s_flushed')
  BY <1>1, NobodyActs
<1>3. QED
  BY <1>1, <1>2, OutsideCourse DEF Course, NoCall

LEMMA CourseStep ==
  FewTicks /\ Connected /\ Stacked /\ Recorded /\ OnTrack /\ Course /\ [Next]_vars
    => Course' /\ [Exchange!Next]_(Exchange!vars)
<1> SUFFICES ASSUME FewTicks, Connected, Stacked, Recorded, OnTrack, Course, [Next]_vars
             PROVE  Course' /\ [Exchange!Next]_(Exchange!vars)
  OBVIOUS
<1>1. Connected' /\ Recorded' /\ OnTrack'
  BY ConnectedStep, RecordedStep, OnTrackStep
<1>2. CASE ClientLoop
  BY <1>2, ClientLoopCourse, QuietCourse
  DEF ClientLoop, serverSide, NoCall
<1>3. ASSUME NEW command \in {"adapter", "device", "compute", "Tick", "Unmap"},
             ClientCommand(command)
      PROVE  Course' /\ [Exchange!Next]_(Exchange!vars)
  BY <1>3, CommandCourse
<1>4. CASE ClientFlush \/ ClientReturns
  <2>1. NoCall
    BY <1>4 DEF ClientFlush, ClientReturns, serverSide, NoCall
  <2>2. QED
    BY <1>4, <2>1, FlushCourse, QuietCourse
<1>5. CASE \/ ClientCallback("onAdapter", "adapter", onAdapterRequestEnded)
           \/ ClientCallback("onDevice", "device", onDevice)
           \/ ClientCallback("onMap", "map", onMapAsync)
  BY <1>5, CallbackCourse DEF Callback
<1>6. CASE ClientExits \/ ServerDies \/ UNCHANGED vars
  BY <1>1, <1>6, NobodyCourse, QuietCourse
<1>7. CASE ServerLoop \/ ServerFlush \/ ServerReturns
  <2>1. SP!doIO \/ SP!Loop \/ SP!App
    BY <1>7, ServerEndpoint DEF ServerLoop, ServerFlush, ServerReturns, SP!App
  <2>2. UNCHANGED clientSide /\ NoCall
    BY <1>7 DEF ServerLoop, ServerFlush, ServerReturns, clientSide, NoCall
  <2>3. QED
    BY <1>1, <2>1, <2>2, ServerCourse, QuietCourse
<1>8. ASSUME NEW call \in Call, ServerReply(call)
      PROVE  Course' /\ [Exchange!Next]_(Exchange!vars)
  BY <1>1, <1>8, ReplyCourse
<1>9. QED
  BY <1>2, <1>3, <1>4, <1>5, <1>6, <1>7, <1>8 DEF Next, Client, Server

LEMMA CourseInit == Init => Course /\ Exchange!Init
<1> SUFFICES ASSUME Init PROVE Course /\ Exchange!Init
  OBVIOUS
<1>1. /\ c_code = <<requestAdapter>> /\ asked = << >> /\ performed = << >>
      /\ answered = << >> /\ c_delivered = << >> /\ gpu = "idle"
  BY DEF Init
<1>2. Len(<< >>) = 0 /\ << >> \in Seq(Call)
  OBVIOUS
<1>3. Follows(<< >>)
  BY <1>2 DEF Follows
<1>4. ClientOnTrack
  BY <1>1, OnTrackInit DEF OnTrack
<1>5. ~Pending(<<requestAdapter>>)
  BY OneActivation, Pair DEF Pending, requestAdapter
<1>6. Answered
  <2>1. ~Pending(c_code) /\ Len(answered) = Len(c_delivered)
    BY <1>1, <1>5, Zenon
  <2>2. QED
    BY <2>1 DEF Answered
<1>7. Len(performed) =< Len(asked)
  BY <1>1, <1>2
<1>8. Course
  BY <1>1, <1>3, <1>4, <1>6, <1>7 DEF Course, OnCourse
<1>9. QED
  BY <1>1, <1>8 DEF Exchange!Init

(* The client and the server implement remote calls, one at a time: each   *)
(* is asked when the one before has been answered, is performed once and   *)
(* then answered once, whatever a Flush reads before its time, whichever   *)
(* answer is a refusal and wherever a process stops.                       *)
THEOREM OneCallAtATime == FewTicks => (Spec => ImplementsCalls)
<1> SUFFICES ASSUME FewTicks PROVE Spec => ImplementsCalls
  OBVIOUS
<1>1. Connected /\ Stacked /\ Recorded /\ OnTrack /\ [Next]_vars => OnTrack'
  BY OnTrackStep
<1>2. Connected /\ Stacked /\ Recorded /\ OnTrack /\ Course /\ [Next]_vars
        => Course' /\ [Exchange!Next]_(Exchange!vars)
  BY CourseStep
<1>3. QED
  BY <1>1, <1>2, OnTrackInit, CourseInit, ConnectedInv, CodeInv, PTL
  DEF Spec, ImplementsCalls, Exchange!Spec
-----------------------------------------------------------------------------
(* The client's flushes in a row.                                          *)

(* One more in front.                                                      *)
LEMMA PushedFirst ==
  ASSUME NEW Z, NEW x, NEW rest \in Seq(Z)
  PROVE  /\ <<x>> \o rest # << >> /\ Head(<<x>> \o rest) = x /\ Tail(<<x>> \o rest) = rest
         /\ Len(<<x>> \o rest) = Len(rest) + 1
<1>1. PICK X : rest \in Seq(X) /\ x \in X
  <2>1. rest \in Seq(Z \union {x}) /\ x \in Z \union {x}
    OBVIOUS
  <2>2. QED
    BY <2>1
<1>2. QED
  BY <1>1

(* The end of the script, which does not wait: a Tick, and a Flush.        *)
Ticking(n) == FlattenSeq([i \in 1..n |-> <<"Tick", "Flush">>])
FlushNext(j) == <<"Flush">> \o Ticking(Ticks - j)
TickNext(j) == <<"Tick", "Flush">> \o Ticking(Ticks - j)

(* The end of the script is a list of statements.                          *)
LEMMA TickingType == \A n \in Nat : Ticking(n) \in Seq({"Flush", "Tick"})
<1> TAKE n \in Nat
<1>1. PICK ticks \in Seq(Seq({"Flush", "Tick"})) : ticks = [i \in 1..n |-> <<"Tick", "Flush">>]
  <2>1. <<"Tick", "Flush">> \in Seq({"Flush", "Tick"})
    OBVIOUS
  <2>2. [i \in 1..n |-> <<"Tick", "Flush">>] \in Seq(Seq({"Flush", "Tick"}))
    BY <2>1
  <2>3. QED
    BY <2>2
<1>2. CP!FlattenSeq(ticks) \in Seq({"Flush", "Tick"})
  BY CP!FlattenType, ClientAssumption
<1>3. FlattenSeq(ticks) = CP!FlattenSeq(ticks)
  BY SameSequences
<1>4. QED
  BY <1>1, <1>2, <1>3 DEF Ticking

(* After the last Tick nothing is left.                                    *)
LEMMA TickingNone == Ticking(0) = << >>
<1>1. PICK ticks : ticks = [i \in 1..0 |-> <<"Tick", "Flush">>]
  OBVIOUS
<1>2. ticks = << >>
  BY <1>1
<1>3. CP!FlattenSeq(<< >>) = << >>
  BY CP!FlattenEmpty, ClientAssumption
<1>4. QED
  BY <1>1, <1>2, <1>3, SameSequences DEF Ticking

(* One more at the end, and therefore one more in front. *)
LEMMA TickingOn == \A n \in Nat : Ticking(n + 1) = Ticking(n) \o <<"Tick", "Flush">>
<1> TAKE n \in Nat
<1>1. PICK two \in Seq({"Flush", "Tick"}) : two = <<"Tick", "Flush">>
  <2>1. <<"Tick", "Flush">> \in Seq({"Flush", "Tick"})
    OBVIOUS
  <2>2. QED
    BY <2>1
<1>2. PICK ticks \in Seq(Seq({"Flush", "Tick"})) : ticks = [i \in 1..n |-> two]
  <2>1. [i \in 1..n |-> two] \in Seq(Seq({"Flush", "Tick"}))
    OBVIOUS
  <2>2. QED
    BY <2>1
<1>3. [i \in 1..n + 1 |-> two] = Append(ticks, two)
  BY <1>2
<1>4. CP!FlattenSeq(Append(ticks, two)) = CP!FlattenSeq(ticks) \o two
  BY CP!FlattenAppend, ClientAssumption
<1>5. FlattenSeq(Append(ticks, two)) = FlattenSeq(ticks) \o two
  BY <1>4, SameSequences
<1>6. QED
  BY <1>1, <1>2, <1>3, <1>5 DEF Ticking

(* One more at the end is one more in front.                               *)
LEMMA TickingFirst == \A n \in Nat : Ticking(n + 1) = <<"Tick", "Flush">> \o Ticking(n)
<1> DEFINE Good == {n \in Nat : <<"Tick", "Flush">> \o Ticking(n) = Ticking(n) \o <<"Tick", "Flush">>}
<1>1. PICK two \in Seq({"Flush", "Tick"}) : two = <<"Tick", "Flush">>
  <2>1. <<"Tick", "Flush">> \in Seq({"Flush", "Tick"})
    OBVIOUS
  <2>2. QED
    BY <2>1
<1>2. 0 \in Good
  <2>1. two \o << >> = two /\ << >> \o two = two
    OBVIOUS
  <2>2. QED
    BY <1>1, <2>1, TickingNone
<1>3. ASSUME NEW n \in Nat, n \in Good PROVE n + 1 \in Good
  <2>1. PICK t \in Seq({"Flush", "Tick"}) : t = Ticking(n)
    BY TickingType
  <2>2. two \o t = t \o two
    BY <1>1, <1>3, <2>1
  <2>3. Ticking(n + 1) = t \o two
    BY <1>1, <2>1, TickingOn
  <2>4. two \o (t \o two) = (two \o t) \o two
    BY ConcatAssociative
  <2>5. <<"Tick", "Flush">> \o Ticking(n + 1) = Ticking(n + 1) \o <<"Tick", "Flush">>
    BY <1>1, <2>2, <2>3, <2>4, Zenon
  <2>6. QED
    BY <2>5
<1>4. ASSUME NEW n \in Nat PROVE n \in Good
  <2>1. \A k \in 1..n : k - 1 \in Good => k \in Good
    <3> TAKE k \in 1..n
    <3>1. k - 1 \in Nat /\ (k - 1) + 1 = k
      OBVIOUS
    <3> HIDE DEF Good
    <3>2. QED
      BY <1>3, <3>1
  <2> HIDE DEF Good
  <2>2. QED
    BY <1>2, <2>1, CP!UpTo, ClientAssumption
<1>5. QED
  BY <1>4, TickingOn

(* The statements of the end of the script, one after the other.           *)
LEMMA ScriptPlaces ==
  ASSUME NEW j \in 0..Ticks
  PROVE  /\ FlushNext(j) # << >> /\ Head(FlushNext(j)) = "Flush"
         /\ Tail(FlushNext(j)) = IF j = Ticks THEN << >> ELSE TickNext(j + 1)
         /\ TickNext(j) # << >> /\ Head(TickNext(j)) = "Tick"
         /\ Tail(TickNext(j)) = FlushNext(j)
<1>1. Ticks \in Nat /\ Ticks - j \in Nat
  <2>1. Ticks \in Nat
    BY SessionAssumption
  <2>2. QED
    BY <2>1
<1>2. PICK t \in Seq({"Flush", "Tick"}) : t = Ticking(Ticks - j)
  BY <1>1, TickingType
<1>3. /\ TickNext(j) # << >> /\ Head(TickNext(j)) = "Tick"
      /\ Tail(TickNext(j)) = FlushNext(j)
  BY <1>2, PairFirst DEF TickNext, FlushNext
<1>4. FlushNext(j) # << >> /\ Head(FlushNext(j)) = "Flush" /\ Tail(FlushNext(j)) = t
  BY <1>2, PushedFirst DEF FlushNext
<1>5. t = IF j = Ticks THEN << >> ELSE TickNext(j + 1)
  <2>1. CASE j = Ticks
    BY <1>1, <1>2, <2>1, TickingNone
  <2>2. CASE j # Ticks
    <3>1. PICK n \in Nat : n = Ticks - (j + 1) /\ Ticks - j = n + 1
      BY <1>1, <2>2
    <3>2. QED
      BY <1>2, <2>2, <3>1, TickingFirst DEF TickNext
  <2>3. QED
    BY <2>1, <2>2
<1>6. QED
  BY <1>3, <1>4, <1>5

(* The end of the script begins when its work has been asked for.          *)
LEMMA WorkPlace == Tail(onDevice) = FlushNext(0)
<1>1. Ticks \in Nat /\ Ticks - 0 = Ticks
  BY SessionAssumption
<1>2. PICK t \in Seq({"Flush", "Tick"}) : t = Ticking(Ticks)
  BY <1>1, TickingType
<1>3. onDevice = <<"compute", "Flush">> \o t
  BY <1>2, Zenon DEF onDevice, Ticking
<1>4. QED
  BY <1>1, <1>2, <1>3, PairFirst DEF FlushNext
-----------------------------------------------------------------------------
(* The kernel's send buffer holds the largest command buffer, and the work *)
(* of the script with all the Ticks that follow it but the last.           *)
KernelTakes ==
  OutCap >= HDR + MAX /\ OutCap >= HDR + MAX + (Ticks - 1) * (HDR + Small)

(* How many bytes the client may be ahead of the server when the work and  *)
(* j - 1 Ticks are flushed, and what it flushes next.                      *)
Ahead(j) == IF j = 0 THEN 0 ELSE HDR + MAX + (j - 1) * (HDR + Small)
Batch(j) == IF j = 0 THEN MAX ELSE Small

(* The script is at rest, perhaps with a callback on top that is over.     *)
Doing(rest) == c_code = <<rest>> \/ c_code = <<<< >>>> \o <<rest>>

(* The client is ahead of the server by no more than what the script has   *)
(* flushed since it called MapAsync, which is when the server had read     *)
(* everything before it.                                                   *)
PaceAt(j) ==
  /\ Len(FlattenSeq(c_flushed)) =< s_taken + Ahead(j)
  /\ \/ j > 0 /\ Doing(TickNext(j)) /\ Len(c_writebuf) = HDR
     \/ Doing(FlushNext(j)) /\ Len(c_writebuf) =< HDR + Batch(j)
Pace == \E j \in 0..Ticks : PaceAt(j)

(* The script has come to its end, and no Flush is left in it.             *)
Over == c_code \in {<< >>, <<<< >>>>, <<<< >>>> \o <<<< >>>>, <<<<"onMap">>>>, <<onMapAsync>>}

(* The invariant: the client's script is over, or the kernel has taken its *)
(* last command buffer, and once it waits no more it keeps its pace.       *)
Unhurried ==
  c_fault = "none" =>
    \/ Len(asked) = 3 /\ Over
    \/ CP!Prompt /\ (Len(asked) = 3 => Pace)

(* The sizes KernelTakes is about.                                         *)
LEMMA KernelSizes ==
  /\ HDR \in Nat /\ MAX \in Nat /\ Small \in Nat /\ Ticks \in Nat /\ OutCap \in Nat
  /\ Small =< MAX
BY SessionAssumption

(* How far the client may be ahead is a number of bytes.                   *)
LEMMA AheadType == \A j \in Nat : Ahead(j) \in Nat /\ Batch(j) \in Nat
<1> TAKE j \in Nat
<1>1. PICK step \in Nat, most \in Nat : step = HDR + Small /\ most = HDR + MAX
  BY KernelSizes
<1>2. j # 0 => (j - 1) * step \in Nat
  BY <1>1
<1>3. Ahead(j) = IF j = 0 THEN 0 ELSE most + (j - 1) * step
  BY <1>1 DEF Ahead
<1>4. QED
  BY <1>1, <1>2, <1>3, KernelSizes DEF Batch

(* What is flushed next adds to it, and still fits in the kernel.          *)
LEMMA AheadGrows ==
  ASSUME KernelTakes, NEW j \in 0..Ticks
  PROVE  /\ Ahead(j) \in Nat /\ Batch(j) \in Nat
         /\ Ahead(j + 1) = Ahead(j) + HDR + Batch(j)
         /\ j < Ticks => Ahead(j + 1) =< OutCap
<1>1. PICK t \in Nat, step \in Nat, most \in Nat, i \in Nat :
        t = Ticks /\ step = HDR + Small /\ most = HDR + MAX /\ i = j /\ i =< t
  BY KernelSizes
<1>2. i * step \in Nat /\ (i # 0 => (i - 1) * step \in Nat /\ i * step = (i - 1) * step + step)
  BY <1>1
<1>3. Batch(j) \in Nat /\ (i # 0 => step = HDR + Batch(j)) /\ (i = 0 => most = HDR + Batch(j))
  BY <1>1, KernelSizes DEF Batch
<1>4. Ahead(j + 1) = most + i * step
  BY <1>1 DEF Ahead
<1>5. Ahead(j) = IF i = 0 THEN 0 ELSE most + (i - 1) * step
  BY <1>1 DEF Ahead
<1>6. Ahead(j + 1) = Ahead(j) + HDR + Batch(j)
  <2>1. CASE i = 0
    BY <1>1, <1>3, <1>4, <1>5, <2>1, KernelSizes
  <2>2. CASE i # 0
    <3>1. PICK back \in Nat : back = (i - 1) * step /\ i * step = back + step
      BY <1>2, <2>2
    <3>2. PICK more \in Nat, header \in Nat :
            more = Batch(j) /\ header = HDR /\ step = header + more
      BY <1>1, <1>3, <2>2, KernelSizes
    <3>3. Ahead(j) = most + back /\ Ahead(j + 1) = most + (back + step)
      BY <1>4, <1>5, <2>2, <3>1
    <3>4. most + (back + step) = (most + back) + header + more
      BY <1>1, <3>1, <3>2
    <3>5. QED
      BY <3>2, <3>3, <3>4, Zenon
  <2>3. QED
    BY <2>1, <2>2
<1>7. j < Ticks => Ahead(j + 1) =< OutCap
  <2> SUFFICES ASSUME j < Ticks PROVE most + i * step =< OutCap
    BY <1>4
  <2>1. PICK d \in Nat : t - 1 = i + d
    BY <1>1
  <2>2. (i + d) * step = i * step + d * step /\ d * step \in Nat
    BY <1>1, <2>1
  <2>3. most + (t - 1) * step =< OutCap
    BY <1>1 DEF KernelTakes
  <2>4. (t - 1) * step = i * step + d * step
    BY <2>1, <2>2
  <2>5. QED
    BY <1>1, <1>2, <2>2, <2>3, <2>4, KernelSizes
<1>8. Ahead(j) \in Nat
  BY <1>1, <1>2, <1>5
<1>9. QED
  BY <1>3, <1>6, <1>7, <1>8

(* An activation more is told from none.                                   *)
LEMMA TwoCodes ==
  ASSUME NEW rest
  PROVE  /\ <<<< >>>> \o <<rest>> # << >> /\ Head(<<<< >>>> \o <<rest>>) = << >>
         /\ Tail(<<<< >>>> \o <<rest>>) = <<rest>> /\ Len(<<<< >>>> \o <<rest>>) = 2
<1>1. PICK x : x = << >>
  OBVIOUS
<1>2. <<rest>> \in Seq({rest}) /\ Len(<<rest>>) = 1
  OBVIOUS
<1>3. /\ <<x>> \o <<rest>> # << >> /\ Head(<<x>> \o <<rest>>) = x
      /\ Tail(<<x>> \o <<rest>>) = <<rest>> /\ Len(<<x>> \o <<rest>>) = Len(<<rest>>) + 1
  BY <1>2, PushedFirst
<1>4. QED
  BY <1>1, <1>2, <1>3

(* A client at some statement of its script executes it or returns first.  *)
LEMMA DoingStatement ==
  ASSUME NEW rest, rest # << >>, Doing(rest)
  PROVE  /\ c_code # << >>
         /\ \/ /\ c_code = <<rest>> /\ Head(c_code) = rest
               /\ Statement(c_code) = Head(rest) /\ Executed(c_code) = <<Tail(rest)>>
            \/ /\ c_code = <<<< >>>> \o <<rest>> /\ Statement(c_code) = "none"
               /\ Tail(c_code) = <<rest>>
<1>1. CASE c_code = <<rest>>
  BY <1>1, OneActivation, Single
<1>2. CASE c_code = <<<< >>>> \o <<rest>>
  BY <1>2, TwoCodes DEF Statement
<1>3. QED
  BY <1>1, <1>2 DEF Doing

(* A client at its end executes no Flush.                                  *)
LEMMA OverStatement ==
  ASSUME Over
  PROVE  /\ Statement(c_code) \in {"none", "onMap", "Unmap"}
         /\ Statement(c_code) = "Unmap" => Executed(c_code) = <<<< >>>>
         /\ Statement(c_code) = "onMap" => \A body : <<body>> \o Tail(c_code) = <<body>>
         /\ c_code # << >> /\ Head(c_code) = << >> => Tail(c_code) \in {<< >>, <<<< >>>>}
<1>1. CASE c_code = << >>
  BY <1>1 DEF Statement
<1>2. CASE c_code = <<<< >>>>
  BY <1>2, Single, OneActivation
<1>3. CASE c_code = <<<< >>>> \o <<<< >>>>
  BY <1>3, TwoCodes DEF Statement
<1>4. CASE c_code = <<<<"onMap">>>>
  <2>1. <<"onMap">> # << >> /\ Head(<<"onMap">>) = "onMap"
    BY Single
  <2>2. QED
    BY <1>4, <2>1, Single, OneActivation
<1>5. CASE c_code = <<onMapAsync>>
  BY <1>5, ScriptParts, Single, OneActivation
<1>6. QED
  BY <1>1, <1>2, <1>3, <1>4, <1>5 DEF Over

(* The statements of the end of the script. *)
LEMMA PaceStatement ==
  ASSUME NEW j \in 0..Ticks, PaceAt(j)
  PROVE  /\ c_code # << >> /\ Statement(c_code) \in {"none", "Tick", "Flush"}
         /\ Statement(c_code) = "Tick" =>
              j > 0 /\ Executed(c_code) = <<FlushNext(j)>> /\ Len(c_writebuf) = HDR
         /\ Statement(c_code) = "Flush" =>
              Executed(c_code) = <<Tail(FlushNext(j))>> /\ Len(c_writebuf) =< HDR + Batch(j)
         /\ Head(c_code) = << >> =>
              \/ j > 0 /\ Tail(c_code) = <<TickNext(j)>> /\ Len(c_writebuf) = HDR
              \/ Tail(c_code) = <<FlushNext(j)>> /\ Len(c_writebuf) =< HDR + Batch(j)
<1>1. /\ FlushNext(j) # << >> /\ Head(FlushNext(j)) = "Flush"
      /\ TickNext(j) # << >> /\ Head(TickNext(j)) = "Tick"
      /\ Tail(TickNext(j)) = FlushNext(j)
  BY ScriptPlaces
<1>2. CASE j > 0 /\ Doing(TickNext(j)) /\ Len(c_writebuf) = HDR
  BY <1>1, <1>2, DoingStatement
<1>3. CASE Doing(FlushNext(j)) /\ Len(c_writebuf) =< HDR + Batch(j)
  BY <1>1, <1>3, DoingStatement
<1>4. QED
  BY <1>2, <1>3 DEF PaceAt

(* A list in front of another is not that list alone.                      *)
LEMMA PushedTwo ==
  ASSUME NEW h, NEW rest
  PROVE  /\ \A x : <<h>> \o <<rest>> # <<x>>
         /\ \A old : <<h>> \o <<rest>> = <<<< >>>> \o old => old # << >>
<1>1. PICK both : both = <<h>> \o <<rest>>
  OBVIOUS
<1>2. <<rest>> \in Seq({rest}) /\ Len(<<rest>>) = 1
  OBVIOUS
<1>3. Len(both) = 2
  BY <1>1, <1>2, PushedFirst
<1>4. \A x : both # <<x>>
  BY <1>3
<1>5. <<<< >>>> \o << >> = <<<< >>>>
  BY Single
<1>6. QED
  BY <1>1, <1>4, <1>5, Zenon

(* A client that has asked for everything is given either the last answer, *)
(* or nothing it understands.                                              *)
LEMMA PushedWaiting ==
  ASSUME NEW h, h \in {<< >>, <<"onAdapter">>, <<"onDevice">>, <<"onMap">>},
         NEW d \in Nat, ClientAt(d, 3, <<h>>, "none")
  PROVE  h \in {<< >>, <<"onMap">>}
<1>1. \A x, y : <<x>> = <<y>> => x = y
  BY Single
<1>2. CASE 3 = d /\ Answering(d, <<h>>)
  BY <1>1, <1>2 DEF Answering
<1>3. CASE d \in 0..2 /\ Waiting(d, <<h>>)
  <2>1. <<h>> # << >>
    BY Single
  <2>2. PICK rest \in Seq({"Flush", "Tick"}) : <<h>> = <<rest>>
    BY <1>3, <2>1 DEF Waiting
  <2>3. h \in Seq({"Flush", "Tick"})
    BY <1>1, <2>2
  <2>4. \A x : <<x>> \in Seq({"Flush", "Tick"}) => x \in {"Flush", "Tick"}
    <3>1. \A x : <<x>>[1] = x /\ Len(<<x>>) = 1
      OBVIOUS
    <3>2. QED
      BY <3>1
  <2>5. QED
    BY <2>3, <2>4
<1>4. CASE d = 3 /\ <<h>> \in {<< >>, <<onMapAsync>>, <<<< >>>>}
  <2>1. <<h>> # << >> /\ onMapAsync = <<"Unmap">>
    BY Single DEF onMapAsync
  <2>2. h \in {<<"Unmap">>, << >>}
    BY <1>1, <1>4, <2>1
  <2>3. \A x, y : x # y => <<x>> # <<y>>
    BY <1>1
  <2>4. QED
    BY <2>2, <2>3, Single
<1>5. QED
  BY <1>2, <1>3, <1>4 DEF ClientAt, Asking

(* What is given to a client of this kind leaves it so.                    *)
LEMMA PushedOn ==
  ASSUME OnCourse', c_fault' = "none", Len(asked') = 3, IsCode(c_code),
         NEW h, h \in {<< >>, <<"onAdapter">>, <<"onDevice">>, <<"onMap">>},
         c_code' = <<h>> \o c_code, Len(c_delivered') \in Nat
  PROVE  \/ c_code = << >> /\ c_code' \in {<<<< >>>>, <<<<"onMap">>>>}
         \/ \E rest \in Seq({"Flush", "Tick"}) :
              c_code = <<rest>> /\ c_code' = <<<< >>>> \o <<rest>>
<1>1. PICK new \in {c_code'}, old \in {c_code}, e \in Nat :
        new = c_code' /\ old = c_code /\ e = Len(c_delivered')
  OBVIOUS
<1>2. Len(new) = Len(old) + 1 /\ Len(old) \in Nat
  <2>1. IsCode(old)
    BY <1>1
  <2>2. Len(<<h>> \o old) = Len(old) + 1
    BY <2>1, CodeSteps
  <2>3. QED
    BY <1>1, <2>1, <2>2 DEF IsCode
<1>3. CASE Len(old) = 0
  <2>1. old = << >>
    BY <1>1, <1>3, NoCode
  <2>2. new = <<h>>
    BY <1>1, <2>1, Single
  <2>3. ASSUME ClientOnTrack' PROVE h \in {<< >>, <<"onMap">>}
    <3>1. ClientAt(e, 3, new, "none")
      BY <1>1, <2>3 DEF ClientOnTrack
    <3>2. QED
      BY <2>2, <3>1, PushedWaiting
  <2>4. ASSUME ClientAstray' PROVE h \in {<< >>, <<"onMap">>}
    <3>1. CASE Waiting(2, new)
      <4>1. ClientAt(2, 3, <<h>>, "none")
        BY <2>2, <3>1, WaitingAt
      <4>2. QED
        BY <4>1, PushedWaiting
    <3>2. CASE \E was : new = <<<< >>>> \o was
      BY <2>2, <3>2
    <3>3. QED
      BY <1>1, <2>4, <3>1, <3>2 DEF ClientAstray
  <2>5. QED
    BY <1>1, <2>1, <2>2, <2>3, <2>4 DEF OnCourse
<1>4. CASE Len(old) # 0
  <2>1. Len(new) >= 2
    BY <1>2, <1>4
  <2>2. ASSUME NEW d, ClientAt(d, 3, new, "none") PROVE FALSE
    <3>1. \A x : new # <<x>>
      <4>1. \A x : ~(Len(<<x>>) >= 2)
        OBVIOUS
      <4>2. QED
        BY <2>1, <4>1, Zenon
    <3>2. new # << >>
      BY <2>1
    <3>3. QED
      BY <2>2, <3>1, <3>2 DEF ClientAt, Answering, Asking, Waiting
  <2>3. ClientAstray'
    <3>1. ClientOnTrack' => ClientAt(e, 3, new, "none")
      BY <1>1 DEF ClientOnTrack
    <3>2. QED
      BY <2>2, <3>1 DEF OnCourse
  <2>4. ~Waiting(2, new)
    BY <2>2, WaitingAt
  <2>5. PICK was : Waiting(2, was) /\ new = <<<< >>>> \o was
    BY <1>1, <2>3, <2>4 DEF ClientAstray
  <2>6. Head(<<h>> \o old) = h /\ Tail(<<h>> \o old) = old
    <3>1. PICK Z : old \in Seq(Z)
      BY <1>1 DEF IsCode
    <3>2. QED
      BY <3>1, PushedFirst
  <2>7. Tail(<<<< >>>> \o was) = was
    BY <2>5, WaitingPushed
  <2>8. was = old
    BY <1>1, <2>5, <2>6, <2>7
  <2>9. PICK rest \in Seq({"Flush", "Tick"}) : old = <<rest>>
    <3>1. old # << >>
      <4>1. Len(<< >>) = 0
        OBVIOUS
      <4>2. QED
        BY <1>4, <4>1, Zenon
    <3>2. QED
      BY <2>5, <2>8, <3>1 DEF Waiting
  <2>10. QED
    BY <1>1, <2>5, <2>8, <2>9
<1>5. QED
  BY <1>3, <1>4

(* What HandleCommands finds is at most one answer.                        *)
LEMMA HandledForms ==
  ASSUME Connected, Len(s_flushed) \in Nat, Len(s_flushed) =< 3, NEW body
  PROVE  ClientHandles(body) \in {<< >>, <<"onAdapter">>, <<"onDevice">>, <<"onMap">>}
<1>1. DOMAIN s_flushed = 1..Len(s_flushed)
  <2>1. s_flushed \in Seq(Seq(Nat))
    BY CP!Types, ClientAssumption DEF Connected
  <2>2. QED
    BY <2>1
<1>2. CASE Genuine(body, s_flushed)
  <2>1. PICK k : k = body[1] /\ k \in 1..Len(s_flushed)
    BY <1>1, <1>2 DEF Genuine
  <2>2. k \in {1, 2, 3}
    BY <2>1
  <2>3. <<"onAdapter", "onDevice", "onMap">>[k] \in {"onAdapter", "onDevice", "onMap"}
    BY <2>2
  <2>4. QED
    BY <1>2, <2>1, <2>3 DEF ClientHandles
<1>3. QED
  BY <1>2 DEF ClientHandles

(* Where nothing is flushed, and nothing but statements that have come to  *)
(* nothing is added, the client keeps its place.                           *)
LEMMA PaceKept ==
  ASSUME Connected, Connected', NEW j \in 0..Ticks, PaceAt(j), c_flushed' = c_flushed,
         s_taken =< s_taken',
         c_writebuf' \in {c_writebuf, CP!DawnCmdHeader(0)},
         \A rest : rest # << >> /\ Doing(rest) => Doing(rest)'
  PROVE  PaceAt(j)'
<1>1. PICK taken \in Nat, more \in Nat, ahead \in Nat, batch \in Nat :
        taken = s_taken /\ more = s_taken' /\ ahead = Ahead(j) /\ batch = Batch(j)
        /\ taken =< more
  <2>1. s_taken \in Nat /\ s_taken' \in Nat
    <3>1. Connected => s_taken \in Nat
      BY Numbers
    <3>2. (Connected => s_taken \in Nat)'
      BY Numbers, PTL
    <3>3. QED
      BY <3>1, <3>2
  <2>2. Ahead(j) \in Nat /\ Batch(j) \in Nat
    BY AheadType
  <2>3. QED
    BY <2>1, <2>2
<1>2. PICK all \in Nat : all = Len(FlattenSeq(c_flushed)) /\ all = Len(FlattenSeq(c_flushed'))
  <2>1. Len(CP!FlattenSeq(c_flushed)) \in Nat
    BY CP!WrittenIsFlushed, ClientAssumption DEF Connected
  <2>2. FlattenSeq(c_flushed) = CP!FlattenSeq(c_flushed)
    BY SameSequences
  <2>3. QED
    BY <2>1, <2>2
<1>3. all =< more + ahead
  BY <1>1, <1>2 DEF PaceAt
<1>4. Len(c_writebuf') = Len(c_writebuf) \/ Len(c_writebuf') = HDR
  BY CP!HeaderType, ClientAssumption
<1>5. HDR \in Nat /\ HDR =< HDR + batch
  BY <1>1, KernelSizes
<1>6. FlushNext(j) # << >> /\ TickNext(j) # << >>
  BY ScriptPlaces
<1>7. CASE j > 0 /\ Doing(TickNext(j)) /\ Len(c_writebuf) = HDR
  <2>1. Doing(TickNext(j))' /\ Len(c_writebuf') = HDR
    BY <1>4, <1>6, <1>7
  <2>2. QED
    BY <1>1, <1>2, <1>3, <1>7, <2>1 DEF PaceAt, Ahead, Doing, TickNext, Ticking
<1>8. CASE Doing(FlushNext(j)) /\ Len(c_writebuf) =< HDR + Batch(j)
  <2>1. Doing(FlushNext(j))' /\ Len(c_writebuf') =< HDR + batch
    BY <1>1, <1>4, <1>5, <1>6, <1>8
  <2>2. QED
    BY <1>1, <1>2, <1>3, <1>8, <2>1 DEF PaceAt, Ahead, Batch, Doing, FlushNext, Ticking
<1>9. QED
  BY <1>7, <1>8 DEF PaceAt

(* A client that executes nothing is where it was.                         *)
LEMMA SameDoing ==
  ASSUME c_code' = c_code
  PROVE  (\A rest : Doing(rest) => Doing(rest)') /\ (Over => Over')
<1>1. Over => Over'
  BY DEF Over, onMapAsync
<1>2. \A rest : Doing(rest) => Doing(rest)'
  BY DEF Doing
<1>3. QED
  BY <1>1, <1>2

(* The loop gives the client's program at most the answer it waits for. *)
LEMMA LoopUnhurried ==
  ASSUME Connected, Connected', Stacked, Recorded, Recorded', OnTrack, Course, OnCourse',
         Unhurried, ClientLoop
  PROVE  Unhurried' /\ (c_fault # "assert_flush" => c_fault' # "assert_flush")
<1>1. CP!doIO \/ CP!Loop
  BY ClientEndpoint DEF ClientLoop
<1>2. c_fault = "none"
  BY <1>1, CP!Alive, ClientAssumption
<1>3. c_fault # "assert_flush" => c_fault' # "assert_flush"
  BY <1>1, CP!OnlyFlushFails, ClientAssumption
<1>4. asked' = asked /\ s_flushed' = s_flushed /\ s_taken' = s_taken
  BY DEF ClientLoop, serverSide, serverEnd
<1>5. c_flushed' = c_flushed /\ c_writebuf' \in {c_writebuf, CP!DawnCmdHeader(0)}
  BY <1>1, CP!KeepsFrames, ClientAssumption
<1>6. s_taken =< s_taken'
  <2>1. s_taken \in Nat
    BY Numbers
  <2>2. QED
    BY <1>4, <2>1
<1>7. ASSUME c_fault' = "none", Len(asked) = 3
      PROVE  /\ Over => Over'
             /\ \A rest : rest # << >> /\ Doing(rest) => Doing(rest)'
  <2>1. CASE c_delivered' = c_delivered
    <3>1. c_code' = c_code
      BY <2>1 DEF ClientLoop
    <3>2. QED
      BY <3>1, SameDoing
  <2>2. CASE c_delivered' # c_delivered
    <3>1. PICK h : h = ClientHandles(Last(c_delivered')) /\ c_code' = <<h>> \o c_code
      BY <2>2 DEF ClientLoop
    <3>2. h \in {<< >>, <<"onAdapter">>, <<"onDevice">>, <<"onMap">>}
      <4>1. PICK p \in Nat, f \in Nat : f = Len(s_flushed) /\ p = Len(performed) /\ f =< p /\ p =< 3
        BY FewAnswers
      <4>2. Len(s_flushed) \in Nat /\ Len(s_flushed) =< 3
        BY <4>1
      <4>3. QED
        BY <3>1, <4>2, HandledForms
    <3>3. Len(c_delivered') \in Nat
      <4>1. (Connected /\ Recorded => Len(c_delivered) \in Nat)'
        BY Lengths, PTL
      <4>2. QED
        BY <4>1
    <3>4. \/ c_code = << >> /\ c_code' \in {<<<< >>>>, <<<<"onMap">>>>}
          \/ \E rest \in Seq({"Flush", "Tick"}) :
               c_code = <<rest>> /\ c_code' = <<<< >>>> \o <<rest>>
      BY <1>4, <1>7, <3>1, <3>2, <3>3, PushedOn DEF Stacked
    <3>5. CASE c_code = << >> /\ c_code' \in {<<<< >>>>, <<<<"onMap">>>>}
      <4>1. Over'
        BY <3>5 DEF Over
      <4>2. \A rest : ~Doing(rest)
        <5>1. \A rest : << >> # <<rest>> /\ <<<< >>>> \o <<rest>> # << >>
          BY Single, TwoCodes
        <5>2. QED
          BY <3>5, <5>1, Zenon DEF Doing
      <4>3. QED
        BY <4>1, <4>2
    <3>6. ASSUME NEW rest \in Seq({"Flush", "Tick"}),
                 c_code = <<rest>>, c_code' = <<<< >>>> \o <<rest>>
          PROVE  /\ Over => Over'
                 /\ \A more : more # << >> /\ Doing(more) => Doing(more)'
      <4>1. ASSUME Over PROVE rest = << >>
        <5>1. CASE c_code \in {<< >>, <<<< >>>>, <<<< >>>> \o <<<< >>>>}
          <6>1. \A x, y : <<x>> = <<y>> => x = y
            BY Single
          <6>2. <<rest>> # << >> /\ <<rest>> # <<<< >>>> \o <<<< >>>>
            BY Single, PushedTwo
          <6>3. QED
            BY <3>6, <5>1, <6>1, <6>2
        <5>2. CASE c_code \in {<<<<"onMap">>>>, <<onMapAsync>>}
          <6>1. Statement(c_code) \in {"onMap", "Unmap"}
            BY <5>2, OneActivation, Single, ScriptParts
          <6>2. rest # << >> => Head(rest) \in {"Flush", "Tick"}
            OBVIOUS
          <6>3. QED
            BY <3>6, <6>1, <6>2, OneActivation
        <5>3. QED
          BY <4>1, <5>1, <5>2 DEF Over
      <4>2. Over => Over'
        BY <3>6, <4>1 DEF Over
      <4>3. ASSUME NEW more, Doing(more) PROVE more = rest
        <5>1. <<<< >>>> \o <<more>> # <<rest>>
          BY PushedTwo
        <5>2. <<more>> = <<rest>>
          BY <3>6, <4>3, <5>1 DEF Doing
        <5>3. QED
          BY <5>2, Single
      <4>4. Doing(rest)'
        BY <3>6 DEF Doing
      <4>5. QED
        BY <4>2, <4>3, <4>4
    <3>7. QED
      BY <3>4, <3>5, <3>6
  <2>3. QED
    BY <2>1, <2>2
<1>8. ASSUME c_fault' = "none", CP!Prompt, Len(asked) = 3 => Pace
      PROVE  CP!Prompt' /\ (Len(asked') = 3 => Pace')
  <2>1. CP!Prompt'
    BY <1>1, <1>8, CP!PromptIO, CP!PromptPoll, ClientAssumption DEF Connected
  <2>2. ASSUME Len(asked) = 3 PROVE Pace'
    <3>1. PICK j \in 0..Ticks : PaceAt(j)
      BY <1>8, <2>2 DEF Pace
    <3>2. PaceAt(j)'
      BY <1>5, <1>6, <1>7, <1>8, <2>2, <3>1, PaceKept
    <3>3. QED
      BY <3>2 DEF Pace
  <2>3. QED
    BY <1>4, <2>1, <2>2
<1>9. c_fault' = "none" =>
        \/ Len(asked') = 3 /\ Over'
        \/ CP!Prompt' /\ (Len(asked') = 3 => Pace')
  BY <1>2, <1>4, <1>7, <1>8 DEF Unhurried
<1>10. QED
  BY <1>3, <1>9 DEF Unhurried

(* Before it has asked for everything the client is where it should be,    *)
(* and when all it has flushed was answered, the server has read it all.   *)
LEMMA EarlyClient ==
  ASSUME Connected, Recorded, OnTrack, Course, Len(asked) # 3
  PROVE  gpu # "done" /\ ClientOnTrack /\ Len(asked) < 3
<1>1. PICK q \in Nat, p \in Nat, f \in Nat :
        q = Len(asked) /\ p = Len(performed) /\ f = Len(s_flushed) /\ f =< p
  BY Lengths, FewAnswers
<1>2. p =< q /\ q =< 3
  BY <1>1 DEF Course, Follows
<1>3. q < 3 /\ p # 3 /\ f # 3
  BY <1>1, <1>2
<1>4. gpu # "done"
  BY <1>1, <1>3, FewAnswers
<1>5. ClientOnTrack
  BY <1>1, <1>3 DEF Course, OnCourse, ClientAstray
<1>6. QED
  BY <1>1, <1>3, <1>4, <1>5

(* When the client was answered the server has read what it flushed.       *)
LEMMA ServerHasAll ==
  ASSUME Connected, Recorded, OnTrack, gpu # "done",
         Len(c_flushed) =< Len(c_delivered)
  PROVE  Len(FlattenSeq(c_flushed)) =< s_taken
<1>1. PICK p \in Nat, f \in Nat : p = Len(performed) /\ f = Len(s_flushed)
  BY Lengths
<1>2. PICK d \in Nat, e \in Nat, g \in Nat :
        d = Len(c_delivered) /\ e = Len(s_delivered) /\ g = Len(c_flushed)
  BY Lengths
<1>3. g =< d /\ d =< f /\ f =< p /\ p =< e
  BY <1>1, <1>2, OnTrackCounts DEF CP!Receiving
<1>4. Len(c_flushed) =< Len(s_delivered)
  BY <1>2, <1>3
<1>5. Len(SP!Stream) =< s_taken
  BY <1>4, OnTrackCounts, SP!AllTaken, ServerAssumption DEF Connected
<1>6. SP!Stream = FlattenSeq(c_flushed)
  BY SameSequences DEF SP!Stream
<1>7. QED
  BY <1>5, <1>6

(* The script's work is asked for when the server has read all before it.  *)
LEMMA WorkPaced ==
  ASSUME Connected, Recorded, OnTrack, Course, Len(asked) # 3,
         ClientCommand("compute"), Len(asked') = 3
  PROVE  Pace'
<1>1. PICK q \in Nat, d \in Nat : q = Len(asked) /\ d = Len(c_delivered) /\ q < 3
  BY Lengths, EarlyClient
<1>2. gpu # "done" /\ ClientOnTrack
  BY EarlyClient
<1>3. /\ CP!GetCmdSpace(MAX) /\ Statement(c_code) = "compute" /\ c_code' = Executed(c_code)
      /\ s_taken' = s_taken
  BY ClientEndpoint DEF ClientCommand, serverSide, serverEnd
<1>4. c_fault = "none"
  BY <1>3, CP!Alive, ClientAssumption DEF CP!App
<1>5. ClientAt(d, q, c_code, "none")
  BY <1>1, <1>2, <1>4 DEF ClientOnTrack
<1>6. q = d /\ CallAt(d + 1) = "map"
  <2>1. CallIn("compute") = "map" /\ "map" \in Call
    BY DEF CallIn, Call
  <2>2. QED
    BY <1>3, <1>5, <2>1, ClientAsks
<1>7. d = 2 /\ q = 2
  <2>1. d + 1 # 1 /\ d + 1 # 2
    BY <1>6 DEF CallAt
  <2>2. QED
    BY <1>1, <1>6, <2>1
<1>8. c_code = <<onDevice>>
  <2>1. ASSUME Answering(2, c_code) PROVE FALSE
    <3>1. c_code = <<<<"onDevice">>>>
      BY <2>1 DEF Answering
    <3>2. Statement(c_code) = "onDevice"
      BY <3>1, OneActivation, Single
    <3>3. QED
      BY <1>3, <3>2
  <2>2. Asking(2, c_code)
    BY <1>5, <1>7, <2>1 DEF ClientAt
  <2>3. QED
    BY <2>2 DEF Asking
<1>9. c_code' = <<FlushNext(0)>>
  BY <1>3, <1>8, OneActivation, WorkPlace
<1>10. c_flushed' = c_flushed /\ Len(c_writebuf') =< HDR + MAX
  <2>1. CP!BufSize = HDR + MAX /\ MAX \in Nat
    BY KernelSizes DEF CP!BufSize
  <2>2. QED
    BY <1>3, <2>1, CP!SpaceBytes, ClientAssumption DEF Connected
<1>11. Len(FlattenSeq(c_flushed')) =< s_taken'
  <2>1. Len(c_flushed) =< Len(c_delivered)
    BY <1>1, <1>2, <1>7 DEF ClientOnTrack, CP!Within
  <2>2. QED
    BY <1>2, <1>3, <1>10, <2>1, ServerHasAll
<1>12. PaceAt(0)'
  <2>1. Ahead(0) = 0 /\ Batch(0) = MAX
    BY DEF Ahead, Batch
  <2>2. s_taken \in Nat
    BY Numbers
  <2>3. Len(FlattenSeq(c_flushed')) =< s_taken' + Ahead(0)
    BY <1>3, <1>11, <2>1, <2>2
  <2>4. Len(c_writebuf') =< HDR + Batch(0)
    BY <1>10, <2>1
  <2>5. QED
    BY <1>9, <2>3, <2>4 DEF PaceAt, Doing, FlushNext, Ticking, Ahead, Batch
<1>13. 0 \in 0..Ticks
  BY KernelSizes
<1>14. QED
  BY <1>12, <1>13 DEF Pace

(* A Tick is put into an empty buffer. *)
LEMMA TickPaced ==
  ASSUME Connected, Connected', NEW j \in 0..Ticks, PaceAt(j), ClientCommand("Tick")
  PROVE  PaceAt(j)'
<1>1. /\ CP!GetCmdSpace(Small) /\ Statement(c_code) = "Tick" /\ c_code' = Executed(c_code)
      /\ s_taken' = s_taken
  BY ClientEndpoint DEF ClientCommand, serverSide, serverEnd
<1>2. j > 0 /\ c_code' = <<FlushNext(j)>> /\ Len(c_writebuf) = HDR
  BY <1>1, PaceStatement
<1>3. c_flushed' = c_flushed /\ Len(c_writebuf') =< Len(c_writebuf) + Small
  BY <1>1, KernelSizes, CP!SpaceBytes, ClientAssumption DEF Connected
<1>4. Len(c_writebuf') =< HDR + Batch(j)
  BY <1>2, <1>3 DEF Batch
<1>5. Len(FlattenSeq(c_flushed')) =< s_taken' + Ahead(j)
  BY <1>1, <1>3 DEF PaceAt
<1>6. QED
  BY <1>2, <1>4, <1>5 DEF PaceAt, Doing, FlushNext, Ticking, Ahead, Batch

(* A command of the client keeps Unhurried.                                *)
LEMMA CommandUnhurried ==
  ASSUME Connected, Connected', Recorded, OnTrack, Course, Unhurried,
         NEW command \in {"adapter", "device", "compute", "Tick", "Unmap"},
         ClientCommand(command)
  PROVE  Unhurried' /\ (c_fault # "assert_flush" => c_fault' # "assert_flush")
<1>1. PICK size \in {Small, MAX} : CP!GetCmdSpace(size)
  BY ClientEndpoint DEF ClientCommand
<1>2. c_fault = "none"
  BY <1>1, CP!Alive, ClientAssumption DEF CP!App
<1>3. c_fault # "assert_flush" => c_fault' # "assert_flush"
  BY <1>1, CP!OnlyFlushFails, ClientAssumption
<1>4. /\ Statement(c_code) = command /\ c_code' = Executed(c_code)
      /\ asked' = IF CallIn(command) \in Call THEN Append(asked, CallIn(command)) ELSE asked
  BY DEF ClientCommand
<1>5. CP!Prompt => CP!Prompt'
  BY <1>1, CP!PromptApp, ClientAssumption DEF Connected
<1>6. CASE Len(asked) # 3
  <2>1. CP!Prompt
    BY <1>2, <1>6 DEF Unhurried
  <2>2. ASSUME Len(asked') = 3 PROVE Pace'
    <3>1. PICK q \in Nat, d \in Nat : q = Len(asked) /\ d = Len(c_delivered) /\ q < 3
      BY <1>6, Lengths, EarlyClient
    <3>2. PICK call \in Call : call = CallIn(command) /\ asked' = Append(asked, call)
      BY <1>4, <1>6, <2>2
    <3>3. Len(asked') = q + 1
      <4>1. asked \in Seq(Call)
        BY DEF Recorded
      <4>2. QED
        BY <3>1, <3>2, <4>1, AppendProperties
    <3>4. ClientAt(d, q, c_code, "none")
      BY <1>2, <1>6, <3>1, EarlyClient DEF ClientOnTrack
    <3>5. q = d /\ call = CallAt(d + 1)
      BY <1>4, <3>2, <3>4, ClientAsks
    <3>6. call = "map"
      BY <2>2, <3>3, <3>5 DEF CallAt
    <3>7. command = "compute"
      BY <3>2, <3>6 DEF CallIn
    <3>8. QED
      BY <1>6, <2>2, <3>7, WorkPaced
  <2>3. QED
    BY <1>3, <1>5, <2>1, <2>2 DEF Unhurried
<1>7. CASE Len(asked) = 3 /\ Over
  <2>1. command = "Unmap" /\ c_code' = <<<< >>>>
    BY <1>4, <1>7, OverStatement
  <2>2. asked' = asked
    BY <1>4, <2>1 DEF CallIn, Call
  <2>3. QED
    BY <1>3, <1>7, <2>1, <2>2 DEF Unhurried, Over
<1>8. CASE Len(asked) = 3 /\ CP!Prompt /\ Pace
  <2>1. PICK j \in 0..Ticks : PaceAt(j)
    BY <1>8 DEF Pace
  <2>2. command = "Tick"
    BY <1>4, <2>1, PaceStatement
  <2>3. asked' = asked
    BY <1>4, <2>2 DEF CallIn, Call
  <2>4. PaceAt(j)'
    BY <2>1, <2>2, TickPaced
  <2>5. Pace'
    BY <2>4 DEF Pace
  <2>6. QED
    BY <1>3, <1>5, <1>8, <2>3, <2>5 DEF Unhurried
<1>9. QED
  BY <1>2, <1>6, <1>7, <1>8 DEF Unhurried

(* Flush is a statement of the only activation of the program. *)
LEMMA FlushAlone ==
  ASSUME Connected, Stacked, Recorded, OnTrack, Course, c_fault = "none",
         Len(asked) = 3 => Pace, Statement(c_code) = "Flush"
  PROVE  CP!Depth(c_stack) = 1
<1>1. ASSUME NEW x, c_code = <<x>> PROVE CP!Depth(c_stack) = 1
  <2>1. Len(<<x>>) = 1
    OBVIOUS
  <2>2. QED
    BY <1>1, <2>1, Zenon DEF Stacked
<1>2. CASE Len(asked) # 3
  <2>1. PICK q \in Nat, d \in Nat : q = Len(asked) /\ d = Len(c_delivered) /\ q < 3
    BY <1>2, Lengths, EarlyClient
  <2>2. ClientAt(d, q, c_code, "none")
    BY <1>2, <2>1, EarlyClient DEF ClientOnTrack
  <2>3. c_code # << >>
    BY DEF Statement
  <2>4. \E x : c_code = <<x>>
    BY <2>1, <2>2, <2>3 DEF ClientAt, Answering, Asking, Waiting
  <2>5. QED
    BY <1>1, <2>4
<1>3. CASE Len(asked) = 3
  <2>1. PICK j \in 0..Ticks : PaceAt(j)
    BY <1>3 DEF Pace
  <2>2. FlushNext(j) # << >> /\ TickNext(j) # << >>
    BY ScriptPlaces
  <2>3. \E x : c_code = <<x>>
    BY <2>1, <2>2, DoingStatement DEF PaceAt
  <2>4. QED
    BY <1>1, <2>3
<1>4. QED
  BY <1>2, <1>3

(* The send buffer takes what is flushed. *)
LEMMA WriteBufFits ==
  ASSUME Connected, OnTrack
  PROVE  Len(c_writebuf) \in Nat /\ Len(c_writebuf) =< HDR + MAX
<1>1. PICK n \in 0..MAX : CP!Filling(n)
  BY DEF OnTrack, CP!Made
<1>2. n \in Nat /\ n =< MAX
  BY <1>1, KernelSizes
<1>3. Len(c_flushed) + 1 \in Nat
  BY CP!Types, ClientAssumption DEF Connected
<1>4. Len(c_writebuf) = HDR + n
  BY <1>1, <1>2, <1>3, CP!FillingBytes, ClientAssumption DEF CP!Filling
<1>5. QED
  BY <1>2, <1>4, KernelSizes

(* While the client keeps its pace the next command buffer has room.       *)
LEMMA RoomLeft ==
  ASSUME Connected, NEW n \in Nat, NEW ahead \in Nat,
         Len(FlattenSeq(c_flushed)) =< s_taken + ahead, ahead + n =< OutCap
  PROVE  OutCap - (Len(c_wire) - s_taken) >= n
<1>1. PICK taken \in Nat, wire \in Nat, cap \in Nat :
        taken = s_taken /\ wire = Len(c_wire) /\ cap = OutCap
  BY Numbers
<1>2. PICK all \in Nat : all = Len(FlattenSeq(c_flushed)) /\ wire =< all
  <2>1. Len(CP!FlattenSeq(c_flushed)) \in Nat /\ wire =< Len(CP!FlattenSeq(c_flushed))
    BY <1>1, CP!WrittenIsFlushed, ClientAssumption DEF Connected
  <2>2. FlattenSeq(c_flushed) = CP!FlattenSeq(c_flushed)
    BY SameSequences
  <2>3. QED
    BY <2>1, <2>2
<1>3. wire =< taken + ahead /\ ahead + n =< cap
  BY <1>1, <1>2
<1>4. cap - (wire - taken) >= n
  BY <1>1, <1>3
<1>5. QED
  BY <1>1, <1>4

(* A Flush of the end of the script. *)
LEMMA FlushPaced ==
  ASSUME KernelTakes, Connected, Connected', OnTrack, NEW j \in 0..Ticks, PaceAt(j),
         Statement(c_code) = "Flush", c_code' = Executed(c_code), CP!Flush,
         s_taken' = s_taken
  PROVE  \/ Over'
         \/ /\ OutCap - (Len(c_wire) - s_taken) >= Len(c_writebuf)
            /\ Pace'
<1>1. c_code' = <<Tail(FlushNext(j))>> /\ Len(c_writebuf) =< HDR + Batch(j)
  BY PaceStatement
<1>2. CASE j = Ticks
  <2>1. c_code' = <<<< >>>>
    BY <1>1, <1>2, ScriptPlaces
  <2>2. QED
    BY <2>1 DEF Over
<1>3. CASE j # Ticks
  <2>1. j < Ticks /\ j + 1 \in 0..Ticks /\ j + 1 > 0 /\ c_code' = <<TickNext(j + 1)>>
    <3>1. j < Ticks /\ j + 1 \in 0..Ticks /\ j + 1 > 0
      BY <1>3, KernelSizes
    <3>2. QED
      BY <1>1, <1>3, <3>1, ScriptPlaces
  <2>2. PICK taken \in Nat, now \in Nat, next \in Nat, batch \in Nat, header \in Nat,
             len \in Nat, cap \in Nat :
          /\ taken = s_taken /\ now = Ahead(j) /\ next = Ahead(j + 1) /\ batch = Batch(j)
          /\ header = HDR /\ len = Len(c_writebuf) /\ cap = OutCap
    <3>1. s_taken \in Nat /\ HDR \in Nat /\ OutCap \in Nat
      BY KernelSizes, Numbers
    <3>2. Len(c_writebuf) \in Nat
      BY WriteBufFits
    <3>3. j \in Nat /\ j + 1 \in Nat
      OBVIOUS
    <3>4. Ahead(j) \in Nat /\ Ahead(j + 1) \in Nat /\ Batch(j) \in Nat
      BY <3>3, AheadType
    <3>5. QED
      BY <3>1, <3>2, <3>4, Zenon
  <2>3. next = now + header + batch /\ next =< cap /\ len =< header + batch
    BY <1>1, <2>1, <2>2, AheadGrows
  <2>4. OutCap - (Len(c_wire) - s_taken) >= Len(c_writebuf)
    <3>1. Len(FlattenSeq(c_flushed)) =< s_taken + now
      BY <2>2 DEF PaceAt
    <3>2. now + len =< OutCap
      BY <2>2, <2>3
    <3>3. QED
      BY <2>2, <3>1, <3>2, RoomLeft
  <2>5. PICK old \in Nat, all \in Nat :
          /\ old = Len(FlattenSeq(c_flushed)) /\ all = Len(FlattenSeq(c_flushed'))
          /\ all =< old + len /\ Len(c_writebuf') = HDR
    <3>1. FlattenSeq(c_flushed) = CP!FlattenSeq(c_flushed)
          /\ FlattenSeq(c_flushed') = CP!FlattenSeq(c_flushed')
      BY SameSequences
    <3>2. Len(CP!FlattenSeq(c_flushed)) \in Nat
      BY CP!WrittenIsFlushed, ClientAssumption DEF Connected
    <3>3. \/ Len(c_writebuf) = HDR /\ c_flushed' = c_flushed /\ c_writebuf' = c_writebuf
          \/ /\ Len(c_writebuf') = HDR
             /\ Len(CP!FlattenSeq(c_flushed')) = Len(CP!FlattenSeq(c_flushed)) + Len(c_writebuf)
      BY CP!FlushedBytes, ClientAssumption DEF Connected
    <3>4. CASE Len(c_writebuf) = HDR /\ c_flushed' = c_flushed /\ c_writebuf' = c_writebuf
      BY <2>2, <3>1, <3>2, <3>4
    <3>5. CASE /\ Len(c_writebuf') = HDR
               /\ Len(CP!FlattenSeq(c_flushed')) = Len(CP!FlattenSeq(c_flushed)) + Len(c_writebuf)
      BY <2>2, <3>1, <3>2, <3>5
    <3>6. QED
      BY <3>3, <3>4, <3>5
  <2>6. all =< taken + next
    <3>1. old =< taken + now
      BY <2>2, <2>5 DEF PaceAt
    <3>2. QED
      BY <2>3, <2>5, <3>1
  <2>7. PaceAt(j + 1)'
    <3>1. Len(FlattenSeq(c_flushed')) =< s_taken' + Ahead(j + 1)
      BY <2>2, <2>5, <2>6
    <3>2. QED
      BY <2>1, <2>5, <3>1 DEF PaceAt, Doing, TickNext, FlushNext, Ticking, Ahead, Batch
  <2>8. Pace'
    BY <2>1, <2>7 DEF Pace
  <2>9. QED
    BY <2>4, <2>8
<1>4. QED
  BY <1>2, <1>3

(* A Flush of the client keeps Unhurried.                                  *)
LEMMA FlushUnhurried ==
  ASSUME KernelTakes, Connected, Connected', Stacked, Recorded, OnTrack, Course,
         Unhurried, ClientFlush
  PROVE  Unhurried' /\ (c_fault # "assert_flush" => c_fault' # "assert_flush")
<1>1. /\ Statement(c_code) = "Flush" /\ c_code' = Executed(c_code)
      /\ asked' = asked /\ s_taken' = s_taken
      /\ CP!Flush \/ CP!FlushTooEarly
  BY ClientEndpoint DEF ClientFlush, serverSide, serverEnd
<1>2. CP!At("app")
  BY <1>1 DEF CP!Flush, CP!FlushTooEarly
<1>3. c_fault = "none"
  BY <1>2 DEF CP!At
<1>4. CP!Prompt /\ (Len(asked) = 3 => Pace)
  <2>1. ~Over
    BY <1>1, OverStatement
  <2>2. QED
    BY <1>3, <2>1 DEF Unhurried
<1>5. CP!Flush
  <2>1. c_flushbuf = << >>
    BY <1>1, <1>2, <1>3, <1>4, FlushAlone, CP!PromptDone, ClientAssumption DEF Connected
  <2>2. CP!flushlen = 0
    BY <2>1 DEF CP!flushlen
  <2>3. QED
    BY <1>1, <2>2 DEF CP!FlushTooEarly
<1>6. c_fault # "assert_flush" => c_fault' # "assert_flush"
  BY <1>5, CP!OnlyFlushFails, ClientAssumption
<1>7. CASE Len(asked) # 3
  <2>1. ASSUME Len(c_writebuf) > HDR
        PROVE  OutCap - (Len(c_wire) - s_taken) >= Len(c_writebuf)
    <3>1. gpu # "done" /\ CP!Within(c_flushed, c_writebuf, Len(asked))
      BY <1>7, EarlyClient DEF ClientOnTrack
    <3>2. PICK g \in Nat, q \in Nat, d \in Nat :
            g = Len(c_flushed) /\ q = Len(asked) /\ d = Len(c_delivered)
      BY Lengths
    <3>3. g < q /\ q =< d + 1
      BY <2>1, <3>1, <3>2, OnTrackCounts DEF CP!Within
    <3>4. Len(c_flushed) =< Len(c_delivered)
      BY <3>2, <3>3
    <3>5. Len(FlattenSeq(c_flushed)) =< s_taken + 0
      <4>1. s_taken + 0 = s_taken
        BY Numbers
      <4>2. QED
        BY <3>1, <3>4, <4>1, ServerHasAll
    <3>6. PICK n \in Nat : n = Len(c_writebuf) /\ n =< HDR + MAX
      BY WriteBufFits
    <3>7. 0 + n =< OutCap
      BY <3>6, KernelSizes DEF KernelTakes
    <3>8. QED
      BY <3>5, <3>6, <3>7, RoomLeft
  <2>2. CP!Prompt'
    BY <1>4, <1>5, <2>1, CP!PromptFlush, ClientAssumption DEF Connected
  <2>3. QED
    BY <1>1, <1>6, <1>7, <2>2 DEF Unhurried
<1>8. CASE Len(asked) = 3
  <2>1. PICK j \in 0..Ticks : PaceAt(j)
    BY <1>4, <1>8 DEF Pace
  <2>2. \/ Over'
        \/ OutCap - (Len(c_wire) - s_taken) >= Len(c_writebuf) /\ Pace'
    BY <1>1, <1>5, <2>1, FlushPaced
  <2>3. OutCap - (Len(c_wire) - s_taken) >= Len(c_writebuf) => CP!Prompt'
    BY <1>4, <1>5, CP!PromptFlush, ClientAssumption DEF Connected
  <2>4. QED
    BY <1>1, <1>6, <1>8, <2>2, <2>3 DEF Unhurried
<1>9. QED
  BY <1>7, <1>8

(* The server makes room, and reads what the client is ahead. *)
LEMMA RoomGrows ==
  ASSUME Connected, c_wire' = c_wire, s_taken' \in Nat, s_taken =< s_taken'
  PROVE  OutCap - (Len(c_wire') - s_taken') >= OutCap - (Len(c_wire) - s_taken)
<1>1. PICK taken \in Nat, more \in Nat, wire \in Nat, cap \in Nat :
        /\ taken = s_taken /\ more = s_taken' /\ wire = Len(c_wire) /\ cap = OutCap
        /\ taken =< more
  BY Numbers
<1>2. cap - (wire - more) >= cap - (wire - taken)
  BY <1>1
<1>3. QED
  BY <1>1, <1>2

(* What the server does keeps Unhurried where it makes room only.          *)
LEMMA OutsideUnhurried ==
  ASSUME Connected, Connected', CP!Outside, s_taken' \in Nat, s_taken =< s_taken',
         UNCHANGED <<c_wire, c_flushed, c_writebuf, c_code, asked>>, Unhurried
  PROVE  Unhurried' /\ (c_fault # "assert_flush" => c_fault' # "assert_flush")
<1>1. c_fault' \in {c_fault, "refused", "killed"}
  BY DEF CP!Outside
<1>2. c_fault # "assert_flush" => c_fault' # "assert_flush"
  BY <1>1
<1>3. c_fault' = "none" => c_fault = "none"
  BY <1>1
<1>4. CP!Prompt => CP!Prompt'
  BY RoomGrows, CP!OutsidePrompt, ClientAssumption DEF Connected
<1>5. (\A rest : Doing(rest) => Doing(rest)') /\ (Over => Over')
  BY SameDoing
<1>6. ASSUME Pace PROVE Pace'
  <2>1. PICK j \in 0..Ticks : PaceAt(j)
    BY <1>6 DEF Pace
  <2>2. PaceAt(j)'
    BY <1>5, <2>1, PaceKept
  <2>3. QED
    BY <2>2 DEF Pace
<1>7. QED
  BY <1>2, <1>3, <1>4, <1>5, <1>6 DEF Unhurried

(* A step of the server keeps Unhurried.                                   *)
LEMMA ServerUnhurried ==
  ASSUME Connected, Connected', Unhurried, SP!Next, UNCHANGED clientSide
  PROVE  Unhurried' /\ (c_fault # "assert_flush" => c_fault' # "assert_flush")
<1>1. CP!Outside
  BY ServerActs DEF clientSide
<1>2. s_taken' \in Nat /\ s_taken =< s_taken'
  BY SP!TakenGrows, ServerAssumption DEF Connected
<1>3. UNCHANGED <<c_wire, c_flushed, c_writebuf, c_code, asked>>
  BY DEF clientSide, clientEnd
<1>4. QED
  BY <1>1, <1>2, <1>3, OutsideUnhurried

(* The death of the server and the client's exit keep Unhurried.           *)
LEMMA NobodyUnhurried ==
  ASSUME Connected, Connected', Unhurried, ClientExits \/ ServerDies \/ UNCHANGED vars
  PROVE  Unhurried' /\ (c_fault # "assert_flush" => c_fault' # "assert_flush")
<1>1. /\ UNCHANGED <<clientKeeps, serverKeeps>> /\ c_fault' = c_fault
      /\ s_fault' \in {s_fault, "killed"}
      /\ UNCHANGED <<c_code, asked>>
  BY DEF ClientExits, ServerDies, vars, clientSide, serverSide, clientEnd,
     serverEnd, clientKeeps, serverKeeps
<1>2. CP!Outside
  BY <1>1, NobodyActs
<1>3. s_taken' \in Nat /\ s_taken =< s_taken'
  BY <1>1, Numbers DEF serverKeeps
<1>4. UNCHANGED <<c_wire, c_flushed, c_writebuf>>
  BY <1>1 DEF clientKeeps
<1>5. QED
  BY <1>1, <1>2, <1>3, <1>4, OutsideUnhurried

(* A callback begins; the last one begins the end. *)
LEMMA CallbackUnhurried ==
  ASSUME Connected, Unhurried, NEW answer, NEW call, NEW body,
         Callback(answer, call, body), ClientCallback(answer, call, body)
  PROVE  Unhurried' /\ (c_fault # "assert_flush" => c_fault' # "assert_flush")
<1>1. /\ UNCHANGED <<clientKeeps, serverKeeps>> /\ c_fault' \in {c_fault, "refused"}
      /\ s_fault' = s_fault /\ asked' = asked /\ Statement(c_code) = answer
      /\ c_fault = "none"
      /\ c_code' \in {<<body>> \o Tail(c_code), <<<< >>>> \o Tail(c_code)}
  BY CallbackNobody
<1>2. c_fault # "assert_flush" => c_fault' # "assert_flush"
  BY <1>1
<1>3. CP!Prompt => CP!Prompt'
  <2>1. CP!Outside
    BY <1>1, NobodyActs
  <2>2. c_wire' = c_wire /\ s_taken' \in Nat /\ s_taken =< s_taken'
    BY <1>1, Numbers DEF clientKeeps, serverKeeps
  <2>3. QED
    BY <2>1, <2>2, RoomGrows, CP!OutsidePrompt, ClientAssumption DEF Connected
<1>4. CASE Len(asked) # 3
  BY <1>1, <1>2, <1>3, <1>4 DEF Unhurried
<1>5. CASE Len(asked) = 3
  <2>1. ~Pace
    BY <1>1, PaceStatement DEF Pace, Callback
  <2>2. Over
    BY <1>1, <1>5, <2>1 DEF Unhurried
  <2>3. answer = "onMap" /\ body = onMapAsync
    BY <1>1, <2>2, OverStatement DEF Callback
  <2>4. c_code' \in {<<onMapAsync>>, <<<< >>>>}
    BY <1>1, <2>2, <2>3, OverStatement
  <2>5. Over'
    BY <2>4 DEF Over, onMapAsync
  <2>6. QED
    BY <1>1, <1>2, <1>5, <2>5 DEF Unhurried
<1>6. QED
  BY <1>4, <1>5

(* onDawnBuffer returns, to the Flush that was interrupted or to the loop. *)
LEMMA ReturnsUnhurried ==
  ASSUME Connected, Connected', Unhurried, ClientReturns
  PROVE  Unhurried' /\ (c_fault # "assert_flush" => c_fault' # "assert_flush")
<1>1. /\ CP!ReturnFromApp /\ asked' = asked /\ s_taken' = s_taken
      /\ c_code # << >> /\ Head(c_code) = << >> /\ c_code' = Tail(c_code)
  BY ClientEndpoint DEF ClientReturns, serverSide, serverEnd
<1>2. c_fault # "assert_flush" => c_fault' # "assert_flush"
  BY <1>1, CP!OnlyFlushFails, ClientAssumption
<1>3. c_fault = "none"
  BY <1>1, CP!Alive, ClientAssumption DEF CP!App
<1>4. c_flushed' = c_flushed /\ c_writebuf' \in {c_writebuf, CP!DawnCmdHeader(0)}
  BY <1>1, CP!KeepsFrames, ClientAssumption
<1>5. CP!Prompt => CP!Prompt'
  BY <1>1, CP!PromptApp, ClientAssumption DEF Connected
<1>6. ASSUME Over PROVE Over'
  <2>1. c_code' \in {<< >>, <<<< >>>>}
    BY <1>1, <1>6, OverStatement
  <2>2. QED
    BY <2>1 DEF Over
<1>7. ASSUME Pace PROVE Pace'
  <2>1. PICK j \in 0..Ticks : PaceAt(j)
    BY <1>7 DEF Pace
  <2>2. ASSUME NEW rest, rest # << >>, Doing(rest) PROVE Doing(rest)'
    <3>1. c_code' = <<rest>>
      BY <1>1, <2>2, DoingStatement
    <3>2. QED
      BY <3>1 DEF Doing
  <2>3. s_taken =< s_taken'
    BY <1>1, Numbers
  <2>4. PaceAt(j)'
    BY <1>4, <2>1, <2>2, <2>3, PaceKept
  <2>5. QED
    BY <2>4 DEF Pace
<1>8. QED
  BY <1>1, <1>2, <1>3, <1>5, <1>6, <1>7 DEF Unhurried

(* Every step of the session keeps Unhurried.                              *)
LEMMA UnhurriedStep ==
  FewTicks /\ KernelTakes /\ Connected /\ Stacked /\ Recorded /\ OnTrack /\ Course
    /\ Unhurried /\ ClientMayFlush /\ [Next]_vars => Unhurried' /\ ClientMayFlush'
<1> SUFFICES ASSUME FewTicks, KernelTakes, Connected, Stacked, Recorded, OnTrack, Course,
                    Unhurried, c_fault # "assert_flush", [Next]_vars
             PROVE  Unhurried' /\ (c_fault # "assert_flush" => c_fault' # "assert_flush")
  BY DEF ClientMayFlush
<1>1. Connected' /\ Recorded' /\ OnCourse'
  BY ConnectedStep, RecordedStep, CourseStep DEF Course
<1>2. CASE ClientLoop
  BY <1>1, <1>2, LoopUnhurried
<1>3. ASSUME NEW command \in {"adapter", "device", "compute", "Tick", "Unmap"},
             ClientCommand(command)
      PROVE  Unhurried' /\ (c_fault # "assert_flush" => c_fault' # "assert_flush")
  BY <1>1, <1>3, CommandUnhurried
<1>4. CASE ClientFlush
  BY <1>1, <1>4, FlushUnhurried
<1>5. CASE \/ ClientCallback("onAdapter", "adapter", onAdapterRequestEnded)
           \/ ClientCallback("onDevice", "device", onDevice)
           \/ ClientCallback("onMap", "map", onMapAsync)
  BY <1>5, CallbackUnhurried DEF Callback
<1>6. CASE ClientReturns
  BY <1>1, <1>6, ReturnsUnhurried
<1>7. CASE ClientExits \/ ServerDies \/ UNCHANGED vars
  BY <1>1, <1>7, NobodyUnhurried
<1>8. CASE Server
  <2>1. SP!doIO \/ SP!Loop \/ SP!App
    <3>1. CASE ServerLoop \/ ServerFlush \/ ServerReturns
      BY <3>1, ServerEndpoint DEF ServerLoop, ServerFlush, ServerReturns, SP!App
    <3>2. ASSUME NEW call \in Call, ServerReply(call) PROVE SP!App
      <4>1. PICK size \in ReplySizes : S!GetCmdSpace(size)
        BY <3>2 DEF ServerReply
      <4>2. QED
        BY <4>1, ServerEndpoint DEF SP!App
    <3>3. QED
      BY <1>8, <3>1, <3>2 DEF Server
  <2>2. UNCHANGED clientSide
    BY <1>8 DEF Server, ServerLoop, ServerFlush, ServerReturns, ServerReply
  <2>3. SP!Next
    BY <2>1 DEF SP!Next
  <2>4. QED
    BY <1>1, <2>2, <2>3, ServerUnhurried
<1>9. QED
  BY <1>2, <1>3, <1>4, <1>5, <1>6, <1>7, <1>8 DEF Next, Client

(* Nothing was flushed at the start.                                       *)
LEMMA UnhurriedInit == Init => Unhurried /\ ClientMayFlush
<1> SUFFICES ASSUME Init PROVE Unhurried /\ ClientMayFlush
  OBVIOUS
<1>1. c_fault = "none" /\ asked = << >> /\ Len(<< >>) = 0
  BY DEF Init
<1>2. CP!Prompt
  BY EndpointsInit, CP!PromptInit, ClientAssumption
<1>3. QED
  BY <1>1, <1>2 DEF Unhurried, ClientMayFlush

(* None of the client's flushes finds the buffer before it unwritten, and  *)
(* the assertion of Flush holds in it, if the kernel takes the script's    *)
(* work and every Tick after it but the last: before that the client has   *)
(* waited, and the server has read what it flushed; after it, whatever a   *)
(* Flush reads before its time begins no other Flush.                      *)
THEOREM ClientFlushesInTime ==
  FewTicks /\ KernelTakes => (Spec => []ClientMayFlush)
<1> SUFFICES ASSUME FewTicks, KernelTakes PROVE Spec => []ClientMayFlush
  OBVIOUS
<1>1. Connected /\ Stacked /\ Recorded /\ OnTrack /\ [Next]_vars => OnTrack'
  BY OnTrackStep
<1>2. Connected /\ Stacked /\ Recorded /\ OnTrack /\ Course /\ [Next]_vars => Course'
  BY CourseStep
<1>3. Connected /\ Stacked /\ Recorded /\ OnTrack /\ Course
        /\ Unhurried /\ ClientMayFlush /\ [Next]_vars => Unhurried' /\ ClientMayFlush'
  BY UnhurriedStep
<1>4. QED
  BY <1>1, <1>2, <1>3, OnTrackInit, CourseInit, UnhurriedInit, ConnectedInv, CodeInv, PTL
  DEF Spec
=============================================================================
