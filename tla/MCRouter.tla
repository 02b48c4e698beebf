------------------------------ MODULE MCRouter ------------------------------
(***************************************************************************)
(* Small instances of Router for TLC: one, two or three initial servers,   *)
(* in a fixed order.                                                       *)
(***************************************************************************)
EXTENDS Router

CONSTANTS s1, s2, s3

OneServer == <<s1>>
TwoServers == <<s1, s2>>
ThreeServers == <<s1, s2, s3>>
=============================================================================
