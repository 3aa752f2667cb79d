---------------------------- MODULE MCConnection ----------------------------
(* One tab with up to three WebSocket objects: the current one and two     *)
(* whose close events are still to come.                                   *)
EXTENDS Connection

CONSTANTS s1, s2, s3
=============================================================================
