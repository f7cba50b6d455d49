----------------------------- MODULE MCDelivery -----------------------------
(* Two workers and a trigger of any kind. *)
EXTENDS Delivery

CONSTANTS w1, w2

TwoWorkers == {w1, w2}
AllModes == {"poll", "webhook", "stream"}
=============================================================================
