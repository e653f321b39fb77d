---------------------------- MODULE MCWorkerPool ----------------------------
(***************************************************************************)
(* Small instances of module WorkerPool for TLC.                           *)
(***************************************************************************)
EXTENDS WorkerPool

CONSTANTS p1, p2

\* Two of the six fact tables.
MCReadOrder == <<"functions", "prototypes">>
=============================================================================
