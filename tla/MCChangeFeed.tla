----------------------------- MODULE MCChangeFeed -----------------------------
(* Three entities, read two at a time.                                     *)
EXTENDS ChangeFeed
MCIds == 1 .. 3
=============================================================================
