---------------------------- MODULE MCLifecycle -----------------------------
(***************************************************************************)
(* One food order and one status update at a time; one platform rider with *)
(* one of the restaurant's, or two platform riders where the question is   *)
(* what the update of one does to the other.                               *)
(***************************************************************************)
EXTENDS Lifecycle, TLC

CONSTANTS f1, a, b, own, tap

OneDelivery == {f1}
None == {}
OneRider == {a}
OwnAndPlatform == {a, own}
TheOwnRider == {own}
TwoRiders == {a, b}
OneRequest == {tap}
OneNumber == {1}
Numbered == f1 :> 1

\* Kitchen, rider and owner; the owner cancels, and completes nothing.
Cancelling ==
  {<<"preparing", "ready">>, <<"ready", "out_for_delivery">>,
   <<"out_for_delivery", "delivered">>,
   <<"ready", "cancelled">>, <<"out_for_delivery", "cancelled">>}

\* The owner also completes orders, delivered or not.
Completing == Cancelling \cup ({"ready", "out_for_delivery", "delivered"} \X {"completed"})
=============================================================================
