---------------------------- MODULE MCClaimStream ----------------------------
(* Two claims on one target; c1 is taken with the heartbeat option.        *)
EXTENDS ClaimStream

CONSTANTS c1, c2
=============================================================================
