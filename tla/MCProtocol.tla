----------------------------- MODULE MCProtocol -----------------------------
(* Protocol on small buffers: a header of 2 bytes, command buffers of at   *)
(* most 3, and a send buffer smaller than a frame.                         *)
EXTENDS Protocol

MCSizes == {1, 2, 3}
MCEnds == {1, 3}

Cmds(n, b) == DawnCmd([i \in 1..n |-> b])
FbInfo == <<MSGT_FB_INFO, 7>>
Reservation == <<MSGT_RESERVATION, 7>>
FrameSignal == <<MSGT_FRAME_SIGNAL>>

(* Three command buffers of different sizes. *)
MCBuffers == {<<Cmds(a, 1), Cmds(b, 2), Cmds(c, 3)>> : a, b, c \in {1, 3}}

(* Two command buffers. *)
MCTwo == {<<Cmds(1, 1), Cmds(1, 2)>>}

(* Command buffers among messages of the other kinds, with bodies that     *)
(* look like a frame signal.                                               *)
MCMixed == {<<FbInfo, Cmds(3, 1), FrameSignal, Cmds(2, 2)>>,
            <<Reservation, Cmds(1, 1), Cmds(3, 2)>>,
            <<Cmds(3, MSGT_FRAME_SIGNAL), Cmds(2, 2)>>}
=============================================================================
