------------------------------- MODULE MCPipe -------------------------------
(* Pipe on a ring of 3 bytes: every length, every wrap position and        *)
(* requests beyond the capacity.                                           *)
EXTENDS Pipe

MCByte == {0, 1}
MCRequests == 0..3
=============================================================================
