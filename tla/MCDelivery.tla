----------------------------- MODULE MCDelivery -----------------------------
(* Instances of Delivery for TLC.                                          *)
EXTENDS Delivery

\* A change of configuration or variables that keeps the image tag.
SharedImage == [v \in Versions |-> "image"]
=============================================================================
