----------------------------- MODULE MCHostSync -----------------------------
(***************************************************************************)
(* Small instances of HostSync for TLC: three servers that read hosts.txt, *)
(* one that joins, and the two ways in which the generator updates.        *)
(***************************************************************************)
EXTENDS HostSync

CONSTANTS s0, s1, s2, j1, u1, u2, old, new, ip1, ip6

ThreeServers == <<s0, s1, s2>>
Hosts == (old :> ip1) @@ (new :> Absent)

Call(coms, remove, id, fail, after, pause) ==
  [coms |-> coms, own |-> s0, remove |-> remove, domain |-> new, ip |-> ip6,
   id |-> id, fail |-> fail, after |-> after, pause |-> pause]

(* -x: add_hosts_wrapper and, later, remove_hosts_wrapper.                 *)
AddThenRemove == (u1 :> Call(s0, FALSE, 1, 0, {}, FALSE)) @@ (u2 :> Call(s0, TRUE, 2, 0, {}, FALSE))

(* -f: add_hosts_fail_wrapper, for each server that it may pass over.      *)
FailThenRepair(choice) ==
  (u1 :> Call(s0, FALSE, 16, choice, {}, TRUE)) @@ (u2 :> Call(s1, FALSE, 16, 0, {u1}, FALSE))

AddAndRemove == {AddThenRemove}
Repairs == {FailThenRepair(choice) : choice \in -1..2}
=============================================================================
