----------------------------- MODULE MCDispatch -----------------------------
(***************************************************************************)
(* One food order, two platform riders and, where a run needs one, a rider *)
(* of the restaurant.                                                      *)
(***************************************************************************)
EXTENDS Dispatch, TLC

CONSTANTS f1, a, b, own, consumer

OneDelivery == {f1}
None == {}
PlatformRiders == {a, b}
TheOwnRider == {own}
OnePlatformRider == {a}
OwnAndPlatform == {a, own}
ThreeRiders == {a, b, own}
OneConsumer == {consumer}
OwnerCancels == {<<"preparing", "cancelled">>}
OneNumber == {1}
Numbered == f1 :> 1
Interchangeable == Permutations({a, b})
=============================================================================
