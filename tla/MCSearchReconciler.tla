------------------------- MODULE MCSearchReconciler -------------------------
(* A small instance of SearchReconciler for TLC.                           *)
EXTENDS SearchReconciler, TLC

TwoKeys == 1 .. 2

(* The histories that ExactIfOrderly is about.                             *)
WhileOrderly == orderly
=============================================================================
