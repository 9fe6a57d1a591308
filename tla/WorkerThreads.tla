----------------------------- MODULE WorkerThreads -----------------------------
(***************************************************************************)
(* The threads of one process: those its routes run in, its turns and the  *)
(* parallel tool calls of a turn.                                          *)
(***************************************************************************)
CONSTANT Threads
=============================================================================
