------------------------------ MODULE MCTrial -------------------------------
(***************************************************************************)
(* A small instance of Trial for TLC: the domain that comes and goes       *)
(* ("new_domain"), its name cut down to a letter.                          *)
(***************************************************************************)
EXTENDS Trial, TLC

CONSTANTS s0, s1

NewDomain == <<110>>
Domains == {NewDomain}
Lookups == NewDomain :> BOOLEAN
=============================================================================
