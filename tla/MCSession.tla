------------------------------ MODULE MCSession ------------------------------
(* A session with frames of a few bytes, buffers that hold all of it, and  *)
(* a script that ticks twice.                                              *)
EXTENDS Session

MCReplySizes == {2, 5}
=============================================================================
