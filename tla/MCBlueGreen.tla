---------------------------- MODULE MCBlueGreen ----------------------------
(* Instances of BlueGreen for TLC.                                         *)
EXTENDS BlueGreen

CONSTANTS web, api, a, b, x

\* Every fingerprint has images of its own.
DistinctImages == [k \in {a, b, x} |-> k]

\* a and x differ in a variable or a mounted file only.
SharedImages == [k \in {a, b, x} |-> IF k = x THEN a ELSE k]

TwoBindings == <<web, api>>
OneBinding == <<web>>
=============================================================================
