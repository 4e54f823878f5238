-------------------------- MODULE MCWorkerSession --------------------------
(* An engine that must stay up, a script that may complete, and a          *)
(* visualizer nobody needs.                                                *)
EXTENDS WorkerSession
=============================================================================
