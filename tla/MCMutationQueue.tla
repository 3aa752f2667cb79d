--------------------------- MODULE MCMutationQueue ---------------------------
EXTENDS MutationQueue
=============================================================================
