--------------------------- MODULE MCRuntimeHost ---------------------------
(* Two activation requests; the runs they create are interchangeable.      *)
EXTENDS RuntimeHost, TLC

RunSymmetry == Permutations(Runs)
============================================================================
