-------------------------- MODULE MCSyncFeedClient --------------------------
(* A small instance of SyncFeedClient for TLC.                             *)
EXTENDS SyncFeedClient, TLC

CONSTANTS w1, w2, w3

MCCallers == {w1, w2, w3}
=============================================================================
