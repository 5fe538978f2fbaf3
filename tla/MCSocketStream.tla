--------------------------- MODULE MCSocketStream ---------------------------
(***************************************************************************)
(* SocketStream for TLC.  A buffer of two bytes stands for the 1024 of     *)
(* the code: sizes below, at and above BufferSize are all written and read *)
(* and every residue of the offsets occurs.  A socket of two bytes is less *)
(* than the largest write, so that send() blocks in the middle of it.      *)
(***************************************************************************)
EXTENDS SocketStream
=============================================================================
