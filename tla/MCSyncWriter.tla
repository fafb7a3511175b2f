---------------------------- MODULE MCSyncWriter ----------------------------
(* A small instance of SyncWriter for TLC.                                 *)
EXTENDS SyncWriter, TLC

CONSTANTS Persoon, Fractie, Zetel

MCWriters == {Persoon, Fractie, Zetel}
MCKeys == 1 .. 4
MCCategory == <<Persoon, Fractie, Zetel, Persoon>>

Put(k, ts) == [key |-> k, deleted |-> FALSE, targets |-> ts]
Del(k) == [key |-> k, deleted |-> TRUE, targets |-> <<>>]

(* Entities of three categories that point at one another in a ring and in *)
(* pairs, in either order, within a category and at what is not there yet; *)
(* deletions, and one entity twice on a page.                              *)
MCPages ==
  Persoon :> { <<Put(1, <<3, 2>>)>>, <<Put(1, <<2, 4>>), Del(1)>> }
  @@ Fractie :> { <<Put(2, <<2, 3, 1>>)>>, <<Del(2)>> }
  @@ Zetel :> { <<Put(3, <<1>>)>> }
=============================================================================
