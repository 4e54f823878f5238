--------------------------- MODULE MCHyperWorkflow ---------------------------
EXTENDS HyperWorkflow
=============================================================================
