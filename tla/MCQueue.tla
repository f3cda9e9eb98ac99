------------------------------ MODULE MCQueue ------------------------------
(* Seven blocks of two messages, files of two blocks. *)
EXTENDS MsgQueue
=============================================================================
