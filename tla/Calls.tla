-------------------------------- MODULE Calls --------------------------------
(***************************************************************************)
(* What client and server promise together, whatever lies between them:    *)
(* remote calls, one after the other.  The client asks; the server         *)
(* performs what was asked; the client's callback gets the answer; only    *)
(* then it asks again.  Nothing is performed or answered twice, or that    *)
(* was not asked.  Any of these steps may never come.                      *)
(***************************************************************************)
EXTENDS Sequences

CONSTANT Call  \* the kinds of calls

VARIABLES asked, performed, answered  \* the calls so far, in order

vars == <<asked, performed, answered>>

Init == asked = << >> /\ performed = << >> /\ answered = << >>

Ask == /\ answered = asked
       /\ \E c \in Call : asked' = Append(asked, c)
       /\ UNCHANGED <<performed, answered>>

Perform == /\ performed # asked
           /\ performed' = asked
           /\ UNCHANGED <<asked, answered>>

Answer == /\ answered # performed
          /\ answered' = performed
          /\ UNCHANGED <<asked, performed>>

Next == Ask \/ Perform \/ Answer

Spec == Init /\ [][Next]_vars
=============================================================================
