---------------------------- MODULE FrameChannel ----------------------------
(***************************************************************************)
(* What the sending side of DawnRemoteProtocol promises dawn_wire, whose   *)
(* CommandSerializer it is: a channel that accepts one frame at a time,    *)
(* none before it is done with the last, and puts the bytes of each on the *)
(* wire once and in order.  It may be given up, with the frame it is at;   *)
(* nothing is written after that.                                          *)
(***************************************************************************)
EXTENDS Integers, Sequences

VARIABLES accepted, \* the frames accepted, in order
          pending,  \* the bytes of the last one that are not on the wire
          wire,     \* the bytes on the wire
          up        \* FALSE once the channel has been given up

vars == <<accepted, pending, wire, up>>

Init == /\ accepted = << >>
        /\ pending = << >>
        /\ wire = << >>
        /\ up = TRUE

Accept == /\ pending = << >>
          /\ pending' # << >>
          /\ accepted' = Append(accepted, pending')
          /\ UNCHANGED <<wire, up>>

(* Writing and giving up may be one step: an error after the last byte. *)
Emit(n) == /\ up
           /\ wire' = wire \o SubSeq(pending, 1, n)
           /\ pending' = SubSeq(pending, n + 1, Len(pending))
           /\ up' \in {up, FALSE}
           /\ UNCHANGED accepted

GiveUp == /\ pending' = << >>
          /\ up' = FALSE
          /\ UNCHANGED <<accepted, wire>>

Next == Accept \/ (\E n \in 1..Len(pending) : Emit(n)) \/ GiveUp

Spec == Init /\ [][Next]_vars
=============================================================================
