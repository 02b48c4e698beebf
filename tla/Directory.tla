----------------------------- MODULE Directory ------------------------------
(***************************************************************************)
(* What the router promises the DNS servers and the hosts-file protocol: a *)
(* rotation of distinct servers, of which one client at a time may hold a  *)
(* snapshot.  While the snapshot is held no server leaves the rotation,    *)
(* and only the holder may join it.  Router.tla implements this module;    *)
(* HostSync.tla is built on it.                                            *)
(***************************************************************************)
EXTENDS Naturals, Sequences, SequencesExt

CONSTANTS Server, Client, NoClient

ASSUME DirectoryConstants == NoClient \notin Client

VARIABLES
  rotation,  \* the servers that requests are spread over, in order
  holder,    \* the client in session, or NoClient
  view       \* what the holder has been told the rotation is

dirVars == <<rotation, holder, view>>

DirInit == rotation = <<>> /\ holder = NoClient /\ view = <<>>

Put(s) ==
  /\ s \notin ToSet(rotation)
  /\ rotation' = Append(rotation, s)

(* The program enrols its initial servers before it serves any client.     *)
Enrol(s) == holder = NoClient /\ Put(s) /\ UNCHANGED <<holder, view>>

Open(c) ==
  /\ holder = NoClient /\ holder' = c
  /\ view' = rotation /\ UNCHANGED rotation

Join == holder \in Server /\ Put(holder) /\ UNCHANGED <<holder, view>>

Close ==
  /\ holder # NoClient /\ holder' = NoClient
  /\ view' = <<>> /\ UNCHANGED rotation

(* A server that stopped answering leaves, but never during a session.     *)
Drop(s) ==
  /\ holder = NoClient /\ s \in ToSet(rotation)
  /\ rotation' = RemoveFirst(rotation, s)
  /\ UNCHANGED <<holder, view>>

DirNext ==
  \/ \E s \in Server : Enrol(s) \/ Drop(s)
  \/ \E c \in Client : Open(c)
  \/ Join \/ Close

DirSpec == DirInit /\ [][DirNext]_dirVars
=============================================================================
