--------------------------- MODULE MCDeliveryStore ---------------------------
(***************************************************************************)
(* Two instances of the tables: one food delivery with two platform riders *)
(* and one of the restaurant's, for what riders race about; one food and   *)
(* one grocery delivery with a platform rider and the restaurant's, for    *)
(* what a rider carries from one delivery to the next.                     *)
(***************************************************************************)
EXTENDS DeliveryStore, TLC

CONSTANTS f1, g1, a, b, own

OneDelivery == {f1}
TwoDeliveries == {f1, g1}
NoGrocery == {}
OneGrocery == {g1}
ThreeRiders == {a, b, own}
TwoRiders == {a, own}
TheOwnRider == {own}
PlatformRiders == {a, b}
NoOwnRider == {}
TwoNumbers == {1, 2}
OneNumbered == f1 :> 1
TwoNumbered == f1 :> 1 @@ g1 :> 2
Interchangeable == Permutations({a, b})
=============================================================================
