--------------------------- MODULE ProcessThreads ---------------------------
(***************************************************************************)
(* What the parts of one serving process share: the worker threads its     *)
(* routes and turns run in, and the authored facts of its corpus.          *)
(***************************************************************************)
EXTENDS WorkerThreads

CONSTANT Facts    \* asset ids: a fact's id is a digest of its question
=============================================================================
