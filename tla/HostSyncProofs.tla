--------------------------- MODULE HostSyncProofs ---------------------------
(***************************************************************************)
(* Theorems about HostSync, for any servers, updates that obey PlansOK,    *)
(* faults, queries and removals: the types, that no update thread writes a *)
(* table while its listener is at work, and that an update reaches every   *)
(* server that it was not told to pass over and that did not time out.     *)
(***************************************************************************)
EXTENDS HostSync, RotationLemmas, FiniteSetTheorems

(* A server that comes later is in the rotation, and asked, only when its  *)
(* session is at its end; until it has copied a version it has none.       *)
Outside(j) == j \in Joiners /\ phase[j] # "done" /\ ~(j = holder /\ pos = "finish")
Newcomers ==
  \A j \in Server : Outside(j) =>
    /\ j \notin ToSet(rotation) /\ lookup[j] = <<>>
    /\ version[j] = 0 \/ (j = holder /\ pos = "found")

(* One client is in session, and works through the list it was given.      *)
Session ==
  /\ IsInjective(rotation)
  /\ \A c \in Client : c = holder <=> phase[c] \in {"serving", "failed"}
  /\ \A c \in Updaters : phase[c] # "idle" => c \in DOMAIN plan
  /\ Serving =>
       /\ holder \in Updaters \/ pos # "finish" => view = rotation
       /\ idx <= Len(view) + 1 /\ Len(view) <= Cardinality(Server)
       /\ pos \in {"ack", "applied"} => holder \in Updaters /\ Listed
       /\ pos \in {"list", "found"} => holder \in Joiners /\ Listed

(* Every listener but that of the server in contact is back in accept, or  *)
(* about to be.                                                            *)
Calm(s) ==
  \/ lis[s] = "accept" /\ mail[s] = "none"
  \/ lis[s] = "offer" /\ mail[s] = "eof"
At(s, l, m) == lis[s] = l /\ mail[s] = m
InContact(s) ==
  /\ Serving /\ pos \in {"ack", "applied", "list"} /\ s = Peer
  /\ pos = "ack" =>
       \/ reply = <<>> /\ open /\ At(s, "accept", "update")
       \/ reply = <<version[s]>> /\ At(s, IF open THEN "offer" ELSE "accept", "none")
  /\ pos = "applied" =>
       IF open THEN At(s, "offer", "entry") \/ At(s, "apply", "none")
       ELSE At(s, "accept", "none") /\ (s \in astray \/ version[s] = Me.id)
  /\ pos = "list" => At(s, "accept", "list") \/ At(s, "send", "none")
Orphan(s) ==
  ~Serving /\ holder \in DOMAIN plan /\ s \in ToSet(rotation) /\ At(s, "apply", "none")
Lines ==
  /\ \A s \in Server : Calm(s) \/ InContact(s) \/ Orphan(s)
  /\ Serving /\ pos \in {"ack", "applied", "list"} => InContact(Peer)

(* What a newcomer has copied so far is what its peer has.                 *)
Copied ==
  Joining("list") =>
    IF lis[Peer] = "accept" THEN table[holder] = NoTable
    ELSE \A d \in Domain \ left[Peer] :
           \/ table[holder][d] = table[Peer][d]
           \/ table[holder][d] = Absent /\ table[Peer][d] = Empty

(* A server whose version is an update's has that update's change.         *)
Target(u) == IF u.remove THEN {Absent, Empty} ELSE {u.ip}
Marked(s) ==
  \A c \in DOMAIN plan :
    version[s] = plan[c].id => table[s][plan[c].domain] \in Target(plan[c])
AllMarked == \A s \in Server : s \in astray \cap Joiners \/ Marked(s)

(* The running update has reached the listed servers up to its place.      *)
Reached(i) ==
  view[i] = Me.coms \/ view[i] \in astray \/ version[view[i]] = Me.id
Progress ==
  Serving /\ holder \in Updaters =>
    /\ \A i \in 1..Len(view) : i < idx => Reached(i)
    /\ pos = "finish" => idx > Len(view)
    /\ ~this_stale \/ pos = "finish" => version[Me.coms] = Me.id

Sync == TypeOK /\ Newcomers /\ Session /\ Lines /\ Copied /\ AllMarked /\ Progress

-----------------------------------------------------------------------------
(* Constants, and what they say of the running update.                     *)
LEMMA Constants ==
  /\ IsFiniteSet(Server) /\ Cardinality(Server) \in Nat
  /\ Initial \in Seq(Server) /\ IsInjective(Initial)
  /\ ToSet(Initial) \subseteq Server /\ ToSet(Initial) \cap Joiners = {}
  /\ Absent # Empty /\ Absent \in Address /\ Empty \in Address
  /\ HostsFile \in [Domain -> Address]
  /\ Asked \subseteq Domain /\ NoClient \notin Client
  /\ Joiners \subseteq Client /\ Updaters \subseteq Client /\ Joiners \subseteq Server
  /\ Updaters \cap Server = {} /\ \A c \in Client : c \in Joiners \/ c \in Updaters
<1>1. IsFiniteSet(Server) /\ Cardinality(Server) \in Nat
  BY HostSyncConstants, FS_CardinalityType
<1>2. /\ Initial \in Seq(Server) /\ IsInjective(Initial)
      /\ ToSet(Initial) \cap Joiners = {} /\ Absent # Empty /\ Asked \subseteq Domain
  BY HostSyncConstants
<1>3. ToSet(Initial) \subseteq Server
  BY <1>2 DEF ToSet
<1>4. Absent \in Address /\ Empty \in Address
  BY DEF Address
<1>5. HostsFile \in [Domain -> Address]
  BY HostSyncConstants DEF Address
<1> QED BY <1>1, <1>2, <1>3, <1>4, <1>5, DirectoryConstants DEF Joiners, Updaters

LEMMA RunningUpdate ==
  ASSUME plan \in Plans, NEW c \in DOMAIN plan
  PROVE  /\ c \in Updaters /\ c \in Client
         /\ plan[c].coms \in ToSet(Initial) /\ plan[c].coms \in Server
         /\ plan[c].id \in 0..255 /\ plan[c].id # 0
         /\ plan[c].domain \in Domain /\ plan[c].ip \in Address
         /\ plan[c].ip \notin {Absent, Empty}
         /\ \A b \in DOMAIN plan : plan[b].id = plan[c].id =>
              plan[b].domain = plan[c].domain /\ Target(plan[b]) = Target(plan[c])
<1>1. /\ DOMAIN plan \subseteq Updaters
      /\ plan[c].coms \in ToSet(Initial) /\ plan[c].id \in 1..255
      /\ plan[c].domain \in Domain /\ plan[c].ip \notin {Absent, Empty}
      /\ \A b \in DOMAIN plan : plan[b].id = plan[c].id =>
           plan[b].remove = plan[c].remove /\ plan[b].domain = plan[c].domain /\ plan[b].ip = plan[c].ip
  BY PlansOK
<1>2. plan[c].ip \in UNION {{p[d].ip : d \in DOMAIN p} : p \in Plans}
  OBVIOUS
<1>3. plan[c].ip \in Address
  BY <1>2 DEF Address
<1>4. \A b \in DOMAIN plan : plan[b].id = plan[c].id =>
        plan[b].domain = plan[c].domain /\ Target(plan[b]) = Target(plan[c])
  BY <1>1 DEF Target
<1>5. plan[c].id \in 0..255 /\ plan[c].id # 0
  BY <1>1
<1>6. c \in Updaters /\ c \in Client /\ plan[c].coms \in Server
  BY <1>1, Constants
<1> QED BY <1>1, <1>3, <1>4, <1>5, <1>6

(* A list without repetitions is no longer than there are servers.         *)
LEMMA LengthBound ==
  ASSUME NEW q \in Seq(Server), IsInjective(q)
  PROVE  Len(q) <= Cardinality(Server)
<1>1. Len(q) \in Nat /\ DOMAIN q = 1..Len(q) /\ q \in [1..Len(q) -> Server]
  OBVIOUS
<1>2. IsFiniteSet(1..Len(q)) /\ Cardinality(1..Len(q)) = Len(q)
  BY <1>1, FS_Interval
<1>3. q \in Injection(1..Len(q), Server)
  BY <1>1 DEF Injection, IsInjective
<1> QED BY <1>1, <1>2, <1>3, Constants, FS_Injection DEF ExistsInjection

-----------------------------------------------------------------------------
LEMMA SyncInit == Init => Sync
<1> SUFFICES ASSUME Init PROVE Sync
  OBVIOUS
<1> USE DEF Init
<1>1. plan \in Plans
  OBVIOUS
<1>2. TypeOK
  <2>1. table \in [Server -> [Domain -> Address]]
    BY Constants DEF NoTable
  <2>2. version \in [Server -> 0..255]
    BY Constants
  <2>3. /\ phase \in [Client -> {"idle", "waiting", "serving", "done", "failed"}]
        /\ \A c \in Client : result[c] = <<>>
        /\ \A s \in Server : file[s] = <<>> /\ lookup[s] = <<>>
        /\ DOMAIN file = Server /\ DOMAIN lookup = Server /\ DOMAIN result = Client
        /\ lis \in [Server -> {"accept", "send", "offer", "apply"}]
        /\ mail \in [Server -> {"none", "list", "update", "entry", "eof"}]
        /\ left \in [Server -> SUBSET Domain]
    OBVIOUS
  <2>4. /\ rotation \in Seq(Server) /\ view \in Seq(Server)
        /\ 1 \in 1..(Cardinality(Server) + 1)
    BY Constants
  <2> QED BY <1>1, <2>1, <2>2, <2>3, <2>4 DEF TypeOK
<1>3. Newcomers
  BY Constants DEF Newcomers, Outside
<1>4. Session
  BY Constants DEF Session, Serving
<1>5. Lines /\ Copied /\ Progress
  BY DEF Lines, Calm, Copied, Joining, Progress, Serving
<1>6. AllMarked
  BY <1>1, RunningUpdate DEF AllMarked, Marked
<1> QED BY <1>2, <1>3, <1>4, <1>5, <1>6 DEF Sync

(* In session, who the holder and its peer are.                            *)
LEMMA Situation ==
  ASSUME Sync
  PROVE  /\ Serving /\ holder \in Updaters => holder \in DOMAIN plan
         /\ Serving => holder \in Client /\ idx \in Nat /\ idx > 0 /\ Len(view) \in Nat
         /\ Serving /\ Listed => Peer \in Server
         /\ Serving /\ pos \in {"ack", "applied", "list", "found"} => Listed /\ Peer \in Server
         /\ Serving /\ pos \in {"ack", "applied"} => holder \in DOMAIN plan
<1>1. /\ view \in Seq(Server) /\ idx \in 1..(Cardinality(Server) + 1)
      /\ holder \in Client \cup {NoClient}
  BY DEF Sync, TypeOK
<1>2. idx \in Nat /\ idx > 0 /\ Len(view) \in Nat
  BY <1>1, Constants
<1>3. Serving => holder \in Client
  BY <1>1 DEF Serving
<1>4. Listed => Peer \in Server
  BY <1>1, <1>2 DEF Listed, Peer
<1>5. Serving /\ holder \in Updaters => holder \in DOMAIN plan
  BY DEF Sync, Session, Serving
<1>6. Serving /\ pos \in {"ack", "applied", "list", "found"} => Listed
  BY DEF Sync, Session
<1>7. Serving /\ pos \in {"ack", "applied"} => holder \in Updaters
  BY DEF Sync, Session
<1> QED BY <1>2, <1>3, <1>4, <1>5, <1>6, <1>7

-----------------------------------------------------------------------------
(* An update applied to a server.                                          *)
LEMMA ApplyTypes ==
  ASSUME Sync, holder \in DOMAIN plan, NEW s \in Server, ActuallyUpdate(s)
  PROVE  /\ table' \in [Server -> [Domain -> Address]] /\ version' \in [Server -> 0..255]
         /\ \A r \in Server : file'[r] = <<>> \/ file'[r][1] \in [Domain -> Address]
         /\ astray' \subseteq Server /\ DOMAIN file' = Server
         /\ version'[s] = Me.id /\ table'[s] = Changed(table[s], Me)
         /\ \A r \in Server : r # s => version'[r] = version[r] /\ table'[r] = table[r]
         /\ astray' = astray \ {s}
<1>1. /\ table \in [Server -> [Domain -> Address]] /\ version \in [Server -> 0..255]
      /\ plan \in Plans /\ astray \subseteq Server
      /\ DOMAIN file = Server
      /\ \A r \in Server : file[r] = <<>> \/ file[r][1] \in [Domain -> Address]
  BY DEF Sync, TypeOK
<1>2. Me.domain \in Domain /\ Me.ip \in Address /\ Me.id \in 0..255
  BY <1>1, RunningUpdate DEF Me
<1>3. Changed(table[s], Me) \in [Domain -> Address]
  BY <1>1, <1>2, Constants DEF Changed
<1>4. table' = [table EXCEPT ![s] = Changed(table[s], Me)] /\ version' = [version EXCEPT ![s] = Me.id]
      /\ file' = [file EXCEPT ![s] = <<table'[s]>>] /\ astray' = astray \ {s}
  BY DEF ActuallyUpdate
<1>5. version' \in [Server -> 0..255]
  BY <1>1, <1>2, <1>4
<1>6. /\ table' \in [Server -> [Domain -> Address]] /\ table'[s] = Changed(table[s], Me)
      /\ \A r \in Server : r # s => table'[r] = table[r]
  BY <1>1, <1>3, <1>4
<1>7. ASSUME NEW r \in Server PROVE file'[r] = <<>> \/ file'[r][1] \in [Domain -> Address]
  <2>1. file'[r] = file[r] \/ file'[r] = <<table'[s]>>
    BY <1>1, <1>4
  <2> QED BY <1>1, <1>3, <1>6, <2>1
<1>8. version'[s] = Me.id /\ \A r \in Server : r # s => version'[r] = version[r]
  BY <1>1, <1>4
<1>9. astray' \subseteq Server /\ DOMAIN file' = Server
  BY <1>1, <1>4
<1> QED BY <1>4, <1>5, <1>6, <1>7, <1>8, <1>9

(* A client's step to its next phase, or to the end with a result.         *)
Phases == {"idle", "waiting", "serving", "done", "failed"}
Results == \A c \in Client : result[c] = <<>> \/ result[c][1] \in {0, 1, 3, 6, 8, 9}

LEMMA PhaseTypes ==
  ASSUME TypeOK, NEW c \in Client, NEW f \in Phases, phase' = [phase EXCEPT ![c] = f]
  PROVE  phase' \in [Client -> Phases]
BY DEF TypeOK, Phases

LEMMA ResultTypes ==
  ASSUME TypeOK, NEW c \in Client, NEW r \in {0, 1, 3, 6, 8, 9},
         result' = [result EXCEPT ![c] = <<r>>]
  PROVE  DOMAIN result' = Client /\ Results'
<1>1. DOMAIN result = Client /\ Results
  BY DEF TypeOK, Results
<1>2. DOMAIN result' = Client
  BY <1>1
<1>3. ASSUME NEW b \in Client PROVE result'[b] = <<>> \/ result'[b][1] \in {0, 1, 3, 6, 8, 9}
  <2>1. CASE b = c
    <3>1. result'[b] = <<r>>
      BY <1>1, <2>1
    <3> QED BY <3>1
  <2>2. CASE b # c
    <3>1. result'[b] = result[b]
      BY <1>1, <2>2
    <3> QED BY <1>1, <3>1 DEF Results
  <2> QED BY <2>1, <2>2
<1> QED BY <1>2, <1>3 DEF Results

(* TypeOK by the groups of variables that a step leaves alone together.     *)
DirTyped == /\ rotation \in Seq(Server) /\ holder \in Client \cup {NoClient}
            /\ view \in Seq(Server) /\ plan \in Plans
TableTyped == /\ table \in [Server -> [Domain -> Address]] /\ version \in [Server -> 0..255]
              /\ DOMAIN file = Server
              /\ \A s \in Server : file[s] = <<>> \/ file[s][1] \in [Domain -> Address]
ListenerTyped == /\ lis \in [Server -> {"accept", "send", "offer", "apply"}]
                 /\ mail \in [Server -> {"none", "list", "update", "entry", "eof"}]
                 /\ left \in [Server -> SUBSET Domain]
ClientTyped == phase \in [Client -> Phases] /\ DOMAIN result = Client /\ Results
LocalTyped == /\ pos \in {"next", "ack", "applied", "list", "found", "finish"}
              /\ idx \in 1..(Cardinality(Server) + 1)
              /\ {some_fresh, some_stale, this_stale} \subseteq BOOLEAN
ReplyTyped == reply = <<>> \/ reply[1] \in 0..255
LookupTyped == /\ DOMAIN lookup = Server
               /\ \A s \in Server : lookup[s] = <<>> \/ lookup[s][1] \in Asked

LEMMA TypeParts ==
  TypeOK <=> /\ DirTyped /\ TableTyped /\ ListenerTyped /\ ClientTyped /\ LocalTyped
             /\ ReplyTyped /\ LookupTyped
             /\ open \in BOOLEAN /\ misled \in BOOLEAN /\ astray \subseteq Server
<1>1. ASSUME TypeOK
      PROVE  /\ DirTyped /\ TableTyped /\ ListenerTyped /\ ClientTyped /\ LocalTyped
             /\ ReplyTyped /\ LookupTyped
             /\ open \in BOOLEAN /\ misled \in BOOLEAN /\ astray \subseteq Server
  <2>1. DirTyped
    BY <1>1 DEF TypeOK, DirTyped
  <2>2. TableTyped
    BY <1>1 DEF TypeOK, TableTyped
  <2>3. ListenerTyped
    BY <1>1 DEF TypeOK, ListenerTyped
  <2>4. ClientTyped
    BY <1>1 DEF TypeOK, ClientTyped, Phases, Results
  <2>5. LocalTyped
    BY <1>1 DEF TypeOK, LocalTyped
  <2>6. ReplyTyped
    BY <1>1 DEF TypeOK, ReplyTyped
  <2>7. LookupTyped
    BY <1>1 DEF TypeOK, LookupTyped
  <2>8. open \in BOOLEAN /\ misled \in BOOLEAN /\ astray \subseteq Server
    BY <1>1 DEF TypeOK
  <2> QED BY <2>1, <2>2, <2>3, <2>4, <2>5, <2>6, <2>7, <2>8
<1>2. ASSUME /\ DirTyped /\ TableTyped /\ ListenerTyped /\ ClientTyped /\ LocalTyped
             /\ ReplyTyped /\ LookupTyped
             /\ open \in BOOLEAN /\ misled \in BOOLEAN /\ astray \subseteq Server
      PROVE  TypeOK
  <2>1. {some_fresh, some_stale, this_stale, open, misled} \subseteq BOOLEAN
    BY <1>2 DEF LocalTyped
  <2> QED
    BY <1>2, <2>1
    DEF TypeOK, DirTyped, TableTyped, ListenerTyped, ClientTyped, LocalTyped, ReplyTyped,
        LookupTyped, Phases, Results
<1> QED BY <1>1, <1>2

(* The groups whose variables a step does not change.                      *)
LEMMA PartsKept ==
  ASSUME TypeOK
  PROVE  /\ UNCHANGED <<rotation, holder, view, plan>> => DirTyped'
         /\ UNCHANGED <<table, version, file>> => TableTyped'
         /\ UNCHANGED <<lis, mail, left>> => ListenerTyped'
         /\ UNCHANGED <<phase, result>> => ClientTyped'
         /\ UNCHANGED <<pos, idx, some_fresh, some_stale, this_stale>> => LocalTyped'
         /\ UNCHANGED reply => ReplyTyped'
         /\ UNCHANGED lookup => LookupTyped'
         /\ UNCHANGED open => open' \in BOOLEAN
         /\ UNCHANGED misled => misled' \in BOOLEAN
         /\ UNCHANGED astray => astray' \subseteq Server
<1>1. /\ DirTyped /\ TableTyped /\ ListenerTyped /\ ClientTyped /\ LocalTyped
      /\ ReplyTyped /\ LookupTyped
      /\ open \in BOOLEAN /\ misled \in BOOLEAN /\ astray \subseteq Server
  BY TypeParts
<1>2. UNCHANGED <<rotation, holder, view, plan>> => DirTyped'
  BY <1>1 DEF DirTyped
<1>3. UNCHANGED <<table, version, file>> => TableTyped'
  BY <1>1 DEF TableTyped
<1>4. UNCHANGED <<lis, mail, left>> => ListenerTyped'
  BY <1>1 DEF ListenerTyped
<1>5. UNCHANGED <<phase, result>> => ClientTyped'
  BY <1>1 DEF ClientTyped, Results
<1>6. UNCHANGED <<pos, idx, some_fresh, some_stale, this_stale>> => LocalTyped'
  BY <1>1 DEF LocalTyped
<1>7. UNCHANGED reply => ReplyTyped'
  BY <1>1 DEF ReplyTyped
<1>8. UNCHANGED lookup => LookupTyped'
  BY <1>1 DEF LookupTyped
<1> QED BY <1>1, <1>2, <1>3, <1>4, <1>5, <1>6, <1>7, <1>8

LEMMA TypePartsNext ==
  ASSUME DirTyped', TableTyped', ListenerTyped', ClientTyped', LocalTyped', ReplyTyped',
         LookupTyped', open' \in BOOLEAN, misled' \in BOOLEAN, astray' \subseteq Server
  PROVE  TypeOK'
<1>1. (/\ DirTyped /\ TableTyped /\ ListenerTyped /\ ClientTyped /\ LocalTyped
       /\ ReplyTyped /\ LookupTyped
       /\ open \in BOOLEAN /\ misled \in BOOLEAN /\ astray \subseteq Server)'
  OBVIOUS
<1>2. TypeOK' <=> (/\ DirTyped /\ TableTyped /\ ListenerTyped /\ ClientTyped /\ LocalTyped
                  /\ ReplyTyped /\ LookupTyped
                  /\ open \in BOOLEAN /\ misled \in BOOLEAN /\ astray \subseteq Server)'
  BY TypeParts, PTL
<1> QED BY <1>1, <1>2

(* Each step keeps the types.                                              *)
LEMMA TypesStep ==
  ASSUME Sync, [Next]_vars
  PROVE  TypeOK'
<1> USE DEF coms_t, lisVars, clientVars, locals, conn, queries, dirVars, Connect, NextPort,
            Update, Joining
<1>0. TypeOK /\ Cardinality(Server) \in Nat /\ Joiners \subseteq Client
  BY Constants DEF Sync
<1>i. Serving /\ Listed => idx + 1 \in 1..(Cardinality(Server) + 1)
  BY Constants DEF Sync, Session, TypeOK, Listed
<1>j. 1 \in 1..(Cardinality(Server) + 1)
  BY Constants
<1>k. /\ TableTyped /\ ListenerTyped /\ LocalTyped /\ LookupTyped
      /\ open \in BOOLEAN /\ misled \in BOOLEAN
  BY <1>0, TypeParts
<1>p. /\ Serving /\ Listed => Peer \in Server
      /\ Serving /\ pos \in {"ack", "applied", "list", "found"} => Listed /\ Peer \in Server
  BY Situation
<1>1. ASSUME NEW c \in Client, BeginUpdate(c) PROVE TypeOK'
  <2>1. UNCHANGED <<dirVars, plan, coms_t, lisVars, locals, conn, queries, astray>>
    BY <1>1 DEF BeginUpdate
  <2>2. CASE plan[c].fail = -1
    <3>1. /\ phase' = [phase EXCEPT ![c] = "done"]
          /\ result' = [result EXCEPT ![c] = <<3>>]
      BY <1>1, <2>2 DEF BeginUpdate
    <3>2. phase' \in [Client -> Phases] /\ DOMAIN result' = Client /\ Results'
      BY <1>0, <3>1, PhaseTypes, ResultTypes DEF Phases
    <3> QED BY <1>0, <2>1, <3>2 DEF TypeOK, Phases, Results
  <2>3. CASE plan[c].fail # -1
    <3>1. phase' = [phase EXCEPT ![c] = "waiting"] /\ UNCHANGED result
      BY <1>1, <2>3 DEF BeginUpdate
    <3>2. phase' \in [Client -> Phases]
      BY <1>0, <3>1, PhaseTypes DEF Phases
    <3> QED BY <1>0, <2>1, <3>1, <3>2 DEF TypeOK, Phases
  <2> QED BY <2>2, <2>3
<1>2. ASSUME NEW c \in Client, BeginJoin(c) PROVE TypeOK'
  BY <1>0, <1>2 DEF BeginJoin, TypeOK
<1>3. ASSUME NEW c \in Client, Enter(c) PROVE TypeOK'
  BY <1>0, <1>3, <1>j DEF Enter, Open, TypeOK
<1>4. CASE SkipServer
  <2>1. astray' \subseteq Server
    BY <1>0, <1>4, <1>p DEF SkipServer, TypeOK
  <2>2. LocalTyped'
    BY <1>k, <1>4, <1>i DEF SkipServer, LocalTyped
  <2>3. UNCHANGED <<dirVars, plan, coms_t, lisVars, clientVars, conn, queries>>
    BY <1>4 DEF SkipServer
  <2> QED BY <1>0, <2>1, <2>2, <2>3, PartsKept, TypePartsNext
<1>5. CASE ContactServer
  <2>1. Peer \in Server
    BY <1>5, <1>p DEF ContactServer
  <2>2. ListenerTyped'
    BY <1>k, <1>5, <2>1 DEF ContactServer, ListenerTyped
  <2>3. LocalTyped' /\ open' \in BOOLEAN
    BY <1>k, <1>5 DEF ContactServer, LocalTyped
  <2>4. reply' = <<>> /\ UNCHANGED <<dirVars, plan, coms_t, clientVars, queries, astray>>
    BY <1>5 DEF ContactServer
  <2>5. ReplyTyped'
    BY <2>4 DEF ReplyTyped
  <2> QED BY <1>0, <2>2, <2>3, <2>4, <2>5, PartsKept, TypePartsNext
<1>6. CASE AckFresh
  <2>1. ListenerTyped'
    BY <1>k, <1>6 DEF AckFresh, ListenerTyped
  <2>2. LocalTyped'
    BY <1>k, <1>6, <1>i, <1>p DEF AckFresh, LocalTyped
  <2>3. UNCHANGED <<dirVars, plan, coms_t, clientVars, conn, queries, astray>>
    BY <1>6 DEF AckFresh
  <2> QED BY <1>0, <2>1, <2>2, <2>3, PartsKept, TypePartsNext
<1>7. CASE AckStale
  <2>1. ListenerTyped'
    BY <1>k, <1>7 DEF AckStale, ListenerTyped
  <2>2. LocalTyped'
    BY <1>k, <1>7 DEF AckStale, LocalTyped
  <2>3. astray' \subseteq Server
    BY <1>0, <1>7, <1>p DEF AckStale, TypeOK
  <2>4. UNCHANGED <<dirVars, plan, coms_t, clientVars, conn, queries>>
    BY <1>7 DEF AckStale
  <2> QED BY <1>0, <2>1, <2>2, <2>3, <2>4, PartsKept, TypePartsNext
<1>8. CASE AckApplied
  <2>1. LocalTyped'
    BY <1>k, <1>8, <1>i, <1>p DEF AckApplied, LocalTyped
  <2>2. UNCHANGED <<dirVars, plan, coms_t, lisVars, clientVars, conn, queries, astray>>
    BY <1>8 DEF AckApplied
  <2> QED BY <1>0, <2>1, <2>2, PartsKept, TypePartsNext
<1>9. CASE UpdateFails
  <2>1. Peer \in Server /\ holder \in Client
    BY <1>9, Situation DEF UpdateFails
  <2>2. /\ phase' = [phase EXCEPT ![holder] = "failed"]
        /\ result' = [result EXCEPT ![holder] = <<1>>]
        /\ UNCHANGED <<dirVars, plan, coms_t, left, locals, conn, queries, astray>>
    BY <1>9 DEF UpdateFails
  <2>3. phase' \in [Client -> Phases] /\ DOMAIN result' = Client /\ Results'
    BY <1>0, <2>1, <2>2, PhaseTypes, ResultTypes DEF Phases
  <2>4. ClientTyped'
    BY <2>3 DEF ClientTyped
  <2>5. ListenerTyped'
    <3>1. \/ UNCHANGED <<lis, mail>>
          \/ lis' = [lis EXCEPT ![Peer] = "accept"] /\ mail' = [mail EXCEPT ![Peer] = "none"]
      BY <1>9 DEF UpdateFails
    <3>2. UNCHANGED left
      BY <2>2
    <3> QED BY <1>k, <3>1, <3>2 DEF ListenerTyped
  <2> QED BY <1>0, <2>2, <2>4, <2>5, PartsKept, TypePartsNext
<1>10. CASE UpdateOwn
  <2>1. LocalTyped'
    BY <1>k, <1>10 DEF UpdateOwn, LocalTyped
  <2>2. UNCHANGED <<dirVars, plan, lisVars, clientVars, conn, queries>>
    BY <1>10 DEF UpdateOwn
  <2>3. CASE this_stale
    <3>1. holder \in DOMAIN plan /\ Me.coms \in Server /\ ActuallyUpdate(Me.coms)
      <4>1. holder \in DOMAIN plan
        BY <1>10, Situation DEF UpdateOwn
      <4> QED BY <1>0, <1>10, <2>3, <4>1, RunningUpdate DEF UpdateOwn, TypeOK, Me
    <3>2. /\ table' \in [Server -> [Domain -> Address]] /\ version' \in [Server -> 0..255]
          /\ \A r \in Server : file'[r] = <<>> \/ file'[r][1] \in [Domain -> Address]
          /\ astray' \subseteq Server /\ DOMAIN file' = Server
      BY <3>1, ApplyTypes
    <3>3. TableTyped'
      BY <3>2 DEF TableTyped
    <3> QED BY <1>0, <2>1, <2>2, <3>2, <3>3, PartsKept, TypePartsNext
  <2>4. CASE ~this_stale
    <3>1. UNCHANGED <<coms_t, astray>>
      BY <1>10, <2>4 DEF UpdateOwn
    <3> QED BY <1>0, <2>1, <2>2, <3>1, PartsKept, TypePartsNext
  <2> QED BY <2>3, <2>4
<1>11. CASE FinishUpdate
  <2>1. holder \in Client /\ ReturnCode \in {0, 6, 8, 9}
    BY <1>11, Situation DEF FinishUpdate, ReturnCode
  <2>2. /\ phase' = [phase EXCEPT ![holder] = "done"]
        /\ result' = [result EXCEPT ![holder] = <<ReturnCode>>]
        /\ holder' = NoClient /\ view' = <<>> /\ UNCHANGED rotation
        /\ UNCHANGED <<plan, coms_t, lisVars, locals, conn, queries, astray>>
    BY <1>11 DEF FinishUpdate, Close
  <2>3. phase' \in [Client -> Phases] /\ DOMAIN result' = Client /\ Results'
    BY <1>0, <2>1, <2>2, PhaseTypes, ResultTypes DEF Phases
  <2>4. ClientTyped'
    BY <2>3 DEF ClientTyped
  <2>5. UNCHANGED <<rotation, plan>> /\ holder' \in Client \cup {NoClient} /\ view' \in Seq(Server)
    BY <2>2
  <2>6. DirTyped'
    BY <1>0, <2>5 DEF TypeOK, DirTyped
  <2>7. UNCHANGED <<coms_t, lisVars, locals, conn, queries, astray>>
    BY <2>2
  <2> QED BY <1>0, <2>4, <2>6, <2>7, PartsKept, TypePartsNext
<1>12. CASE RequestHosts
  <2>1. ListenerTyped'
    BY <1>k, <1>12 DEF RequestHosts, ListenerTyped
  <2>2. LocalTyped' /\ open' \in BOOLEAN
    BY <1>k, <1>12 DEF RequestHosts, LocalTyped
  <2>3. TableTyped'
    BY <1>k, <1>12, Constants DEF RequestHosts, TableTyped, NoTable
  <2>4. reply' = <<>> /\ UNCHANGED <<dirVars, plan, clientVars, queries, astray>>
    BY <1>12 DEF RequestHosts
  <2>5. ReplyTyped'
    BY <2>4 DEF ReplyTyped
  <2> QED BY <1>0, <2>1, <2>2, <2>3, <2>4, <2>5, PartsKept, TypePartsNext
<1>13. ASSUME NEW d \in Domain, CopyEntry(d) PROVE TypeOK'
  <2>1. Peer \in Server /\ holder \in Server
    BY <1>13, Situation DEF CopyEntry, Joiners
  <2>2. table[Peer][d] \in Address
    BY <1>0, <2>1 DEF TypeOK
  <2>3. table' \in [Server -> [Domain -> Address]] /\ left' \in [Server -> SUBSET Domain]
    BY <1>0, <1>13, <2>1, <2>2 DEF CopyEntry, TypeOK
  <2>4. UNCHANGED <<dirVars, plan, version, file, lis, mail, clientVars, locals, conn,
                    queries, astray>>
    BY <1>13 DEF CopyEntry
  <2>5. TableTyped'
    BY <1>k, <2>3, <2>4 DEF TableTyped
  <2>6. ListenerTyped'
    BY <1>k, <2>3, <2>4 DEF ListenerTyped
  <2> QED BY <1>0, <2>4, <2>5, <2>6, PartsKept, TypePartsNext
<1>14. CASE CopyVersion
  <2>1. Peer \in Server /\ holder \in Server
    BY <1>14, Situation DEF CopyVersion, Joiners
  <2>2. version[Peer] \in 0..255
    BY <1>0, <2>1 DEF TypeOK
  <2>3. version' = [version EXCEPT ![holder] = version[Peer]]
    BY <1>14 DEF CopyVersion, HandedVersion
  <2>4. version' \in [Server -> 0..255]
    BY <1>0, <2>1, <2>2, <2>3 DEF TypeOK
  <2>5. astray' \subseteq Server /\ open' \in BOOLEAN
    BY <1>0, <1>14, <2>1 DEF CopyVersion, TypeOK
  <2>6. UNCHANGED <<dirVars, plan, table, file, clientVars, reply, queries>>
    BY <1>14 DEF CopyVersion
  <2>7. TableTyped'
    BY <1>k, <2>4, <2>6 DEF TableTyped
  <2>8. ListenerTyped'
    BY <1>k, <1>14 DEF CopyVersion, ListenerTyped
  <2>9. LocalTyped'
    BY <1>k, <1>14 DEF CopyVersion, LocalTyped
  <2> QED BY <1>0, <2>5, <2>6, <2>7, <2>8, <2>9, PartsKept, TypePartsNext
<1>15. CASE VersionLost
  <2>1. Peer \in Server /\ holder \in Server
    BY <1>15, Situation DEF VersionLost, Joiners
  <2>2. PICK v \in 0..255 : version' = [version EXCEPT ![holder] = v]
    BY <1>15, HostSyncConstants DEF VersionLost
  <2>4. version' \in [Server -> 0..255]
    BY <1>0, <2>1, <2>2 DEF TypeOK
  <2>5. astray' \subseteq Server /\ open' \in BOOLEAN
    BY <1>0, <1>15, <2>1 DEF VersionLost, TypeOK
  <2>6. UNCHANGED <<dirVars, plan, table, file, clientVars, reply, queries>>
    BY <1>15 DEF VersionLost
  <2>7. TableTyped'
    BY <1>k, <2>4, <2>6 DEF TableTyped
  <2>8. ListenerTyped'
    BY <1>k, <1>15 DEF VersionLost, ListenerTyped
  <2>9. LocalTyped'
    BY <1>k, <1>15 DEF VersionLost, LocalTyped
  <2> QED BY <1>0, <2>5, <2>6, <2>7, <2>8, <2>9, PartsKept, TypePartsNext
<1>16. CASE ListFails
  <2>1. ListenerTyped'
    BY <1>k, <1>16 DEF ListFails, ListenerTyped
  <2>2. LocalTyped' /\ open' \in BOOLEAN
    BY <1>k, <1>16, <1>i, <1>p DEF ListFails, LocalTyped
  <2>3. UNCHANGED <<dirVars, plan, coms_t, clientVars, reply, queries, astray>>
    BY <1>16 DEF ListFails
  <2> QED BY <1>0, <2>1, <2>2, <2>3, PartsKept, TypePartsNext
<1>17. CASE GoOnline
  <2>1. /\ rotation' = Append(rotation, holder) /\ holder \in Server /\ pos' = "finish"
        /\ UNCHANGED <<holder, view, plan, coms_t, lisVars, clientVars, idx, some_fresh,
                       some_stale, this_stale, conn, queries, astray>>
    BY <1>17 DEF GoOnline, Join, Put
  <2>2. rotation' \in Seq(Server)
    BY <1>0, <2>1 DEF TypeOK
  <2>3. DirTyped'
    BY <1>0, <2>1, <2>2 DEF TypeOK, DirTyped
  <2>4. LocalTyped'
    BY <1>k, <2>1 DEF LocalTyped
  <2> QED BY <1>0, <2>1, <2>3, <2>4, PartsKept, TypePartsNext
<1>18. CASE FinishJoin
  <2>1. /\ holder \in Client /\ phase' = [phase EXCEPT ![holder] = "done"]
        /\ holder' = NoClient /\ view' = <<>> /\ UNCHANGED rotation
        /\ UNCHANGED <<plan, coms_t, lisVars, result, locals, conn, queries, astray>>
    BY <1>18, Situation DEF FinishJoin, Close
  <2>2. phase' \in [Client -> Phases]
    BY <1>0, <2>1, PhaseTypes DEF Phases
  <2>5. view' \in Seq(Server)
    BY <2>1
  <2>3. UNCHANGED <<rotation, plan, coms_t, lisVars, result, locals, conn, queries, astray>>
    BY <2>1
  <2>4. holder' \in Client \cup {NoClient}
    BY <2>1
  <2> QED BY <1>0, <2>2, <2>3, <2>4, <2>5 DEF TypeOK, Phases
<1>19. CASE NoHosts
  BY <1>0, <1>19 DEF NoHosts, TypeOK
<1>20. ASSUME NEW s \in Server, SendCount(s) \/ TakeEntry(s) \/ GiveUpEntry(s) \/ EntryLate(s)
       PROVE  TypeOK'
  <2>1. /\ lis' \in [Server -> {"accept", "send", "offer", "apply"}]
        /\ mail' \in [Server -> {"none", "list", "update", "entry", "eof"}]
        /\ left' \in [Server -> SUBSET Domain] /\ open' \in BOOLEAN
    <3>1. CASE SendCount(s)
      BY <1>0, <3>1 DEF SendCount, TypeOK, Present
    <3>2. CASE TakeEntry(s)
      BY <1>0, <3>2 DEF TakeEntry, TypeOK
    <3>3. CASE GiveUpEntry(s)
      BY <1>0, <3>3 DEF GiveUpEntry, TypeOK
    <3>4. CASE EntryLate(s)
      BY <1>0, <3>4 DEF EntryLate, TypeOK
    <3> QED BY <1>20, <3>1, <3>2, <3>3, <3>4
  <2>2. UNCHANGED <<dirVars, plan, coms_t, clientVars, locals, reply, queries, astray>>
    BY <1>20 DEF SendCount, TakeEntry, GiveUpEntry, EntryLate
  <2>3. ListenerTyped'
    BY <2>1 DEF ListenerTyped
  <2> QED BY <1>0, <2>1, <2>2, <2>3, PartsKept, TypePartsNext
<1>21. ASSUME NEW s \in Server, SendVersion(s) PROVE TypeOK'
  <2>1. ListenerTyped'
    BY <1>k, <1>21 DEF SendVersion, ListenerTyped
  <2>2. ReplyTyped'
    BY <1>k, <1>21 DEF SendVersion, ReplyTyped, TableTyped
  <2>3. UNCHANGED <<dirVars, plan, coms_t, clientVars, locals, open, queries, astray>>
    BY <1>21 DEF SendVersion
  <2> QED BY <1>0, <2>1, <2>2, <2>3, PartsKept, TypePartsNext
<1>22. ASSUME NEW s \in Server, Apply(s) PROVE TypeOK'
  <2>1. holder \in DOMAIN plan
    <3>1. InContact(s) \/ Orphan(s)
      BY <1>22 DEF Apply, Sync, Lines, Calm
    <3>2. CASE InContact(s)
      <4>1. Serving /\ pos \in {"ack", "applied"}
        BY <1>22, <3>2 DEF Apply, InContact, At
      <4> QED BY <4>1, Situation
    <3> QED BY <3>1, <3>2 DEF Orphan
  <2>2. /\ table' \in [Server -> [Domain -> Address]] /\ version' \in [Server -> 0..255]
        /\ \A r \in Server : file'[r] = <<>> \/ file'[r][1] \in [Domain -> Address]
        /\ astray' \subseteq Server /\ DOMAIN file' = Server
    BY <1>22, <2>1, ApplyTypes DEF Apply
  <2>3. /\ lis' \in [Server -> {"accept", "send", "offer", "apply"}] /\ open' \in BOOLEAN
        /\ UNCHANGED <<dirVars, plan, mail, left, clientVars, locals, reply, queries>>
    <3>1. /\ lis' = [lis EXCEPT ![s] = "accept"] /\ open' = FALSE
          /\ UNCHANGED <<dirVars, plan, mail, left, clientVars, locals, reply, queries>>
      BY <1>22 DEF Apply
    <3>2. lis' \in [Server -> {"accept", "send", "offer", "apply"}]
      BY <1>0, <3>1 DEF TypeOK
    <3> QED BY <3>1, <3>2
  <2>4. TableTyped'
    BY <2>2 DEF TableTyped
  <2>5. ListenerTyped'
    BY <1>k, <2>3 DEF ListenerTyped
  <2> QED BY <1>0, <2>2, <2>3, <2>4, <2>5, PartsKept, TypePartsNext
<1>23. ASSUME NEW s \in Server, NEW d \in Asked, Count(s, d) PROVE TypeOK'
  <2>1. /\ DOMAIN lookup' = Server
        /\ \A r \in Server : lookup'[r] = <<>> \/ lookup'[r][1] \in Asked
        /\ UNCHANGED <<dirVars, plan, coms_t, lisVars, clientVars, locals, conn, misled, astray>>
    BY <1>0, <1>23 DEF Count, TypeOK
  <2>2. LookupTyped'
    BY <2>1 DEF LookupTyped
  <2> QED BY <1>0, <2>1, <2>2, PartsKept, TypePartsNext
<1>24. ASSUME NEW s \in Server, Fetch(s) PROVE TypeOK'
  <2>1. /\ DOMAIN lookup' = Server
        /\ \A r \in Server : lookup'[r] = <<>> \/ lookup'[r][1] \in Asked
        /\ UNCHANGED <<dirVars, plan, version, file, lisVars, clientVars, locals, conn, astray>>
    BY <1>0, <1>24 DEF Fetch, TypeOK
  <2>2. lookup[s][1] \in Domain
    BY <1>0, <1>24, Constants DEF Fetch, TypeOK
  <2>3. table' \in [Server -> [Domain -> Address]] /\ misled' \in BOOLEAN
    <3>1. \/ table' = [table EXCEPT ![s][lookup[s][1]] = Empty] /\ misled' = TRUE
          \/ UNCHANGED <<table, misled>>
      BY <1>24 DEF Fetch
    <3>2. /\ table \in [Server -> [Domain -> Address]] /\ misled \in BOOLEAN
          /\ Empty \in Address
      BY <1>0, Constants DEF TypeOK
    <3>3. CASE table' = [table EXCEPT ![s][lookup[s][1]] = Empty] /\ misled' = TRUE
      BY <2>2, <3>2, <3>3
    <3> QED BY <3>1, <3>2, <3>3
  <2>4. TableTyped'
    BY <1>k, <2>1, <2>3 DEF TableTyped
  <2>5. LookupTyped'
    BY <2>1 DEF LookupTyped
  <2> QED BY <1>0, <2>1, <2>3, <2>4, <2>5, PartsKept, TypePartsNext
<1>25. ASSUME NEW s \in Server, DropServer(s) PROVE TypeOK'
  <2>1. rotation \in Seq(Server) /\ IsInjective(rotation) /\ Contains(rotation, s)
    BY <1>0, <1>25 DEF DropServer, Drop, TypeOK, Sync, Session, ToSet, Contains
  <2>2. rotation' \in Seq(Server)
    BY <1>25, <2>1, RemoveFirstProperties DEF DropServer, Drop
  <2>3. UNCHANGED <<holder, view, plan, coms_t, lisVars, clientVars, locals, conn, queries, astray>>
    BY <1>25 DEF DropServer, Drop
  <2>4. DirTyped'
    BY <1>0, <2>2, <2>3 DEF TypeOK, DirTyped
  <2> QED BY <1>0, <2>3, <2>4, PartsKept, TypePartsNext
<1>26. CASE UNCHANGED vars
  BY <1>0, <1>26 DEF vars, TypeOK
<1> QED
  BY <1>1, <1>2, <1>3, <1>4, <1>5, <1>6, <1>7, <1>8, <1>9, <1>10, <1>11, <1>12, <1>13,
     <1>14, <1>15, <1>16, <1>17, <1>18, <1>19, <1>20, <1>21, <1>22, <1>23, <1>24, <1>25,
     <1>26
  DEF Next, ClientStep, ListenerStep

-----------------------------------------------------------------------------
(* The steps that leave a session as it is.                                *)
Place == <<dirVars, plan, phase, pos, idx>>

LEMMA PlaceKept ==
  ASSUME UNCHANGED Place
  PROVE  /\ Serving' = Serving /\ Listed' = Listed /\ (Session <=> Session')
         /\ \A j \in Server : Outside(j)' <=> Outside(j)
<1>1. UNCHANGED <<rotation, holder, view, plan, phase, pos, idx>>
  BY DEF Place, dirVars
<1>2. Serving' = Serving /\ Listed' = Listed
  BY <1>1 DEF Serving, Listed
<1>3. Session <=> Session'
  BY <1>1, <1>2 DEF Session
<1>4. \A j \in Server : Outside(j)' <=> Outside(j)
  BY <1>1 DEF Outside
<1> QED BY <1>2, <1>3, <1>4

(* The phases that a step of one client leaves a session in.               *)
LEMMA OthersPhase ==
  ASSUME Sync, NEW c \in Client, NEW f \in Phases, phase' = [phase EXCEPT ![c] = f]
  PROVE  phase'[c] = f /\ \A b \in Client : b # c => phase'[b] = phase[b]
BY DEF Sync, TypeOK

LEMMA SessionStep ==
  ASSUME Sync, [Next]_vars
  PROVE  Session'
<1> USE DEF coms_t, lisVars, clientVars, locals, conn, queries, dirVars, Connect, NextPort,
            Update, Joining
<1>0. /\ Session /\ holder \in Client \cup {NoClient} /\ idx \in Nat /\ Len(view) \in Nat
      /\ NoClient \notin Client /\ rotation \in Seq(Server)
      /\ Joiners \subseteq Client /\ Updaters \cap Joiners = {}
  <2>1. idx \in Nat
    BY Constants DEF Sync, TypeOK
  <2> QED BY <2>1, Constants DEF Sync, TypeOK, Joiners, Updaters
<1>s. Serving => holder \in Client /\ phase[holder] = "serving" /\ holder # NoClient
  BY <1>0 DEF Serving
<1>p. UNCHANGED Place => Session'
  BY <1>0, PlaceKept
<1>1. ASSUME NEW c \in Client, BeginUpdate(c) PROVE Session'
  <2>1. /\ c \in DOMAIN plan /\ phase[c] = "idle" /\ UNCHANGED <<dirVars, plan, pos, idx>>
        /\ phase' = [phase EXCEPT ![c] = "done"] \/ phase' = [phase EXCEPT ![c] = "waiting"]
    BY <1>1 DEF BeginUpdate
  <2>5. c \in DOMAIN plan' /\ UNCHANGED <<rotation, holder, view, plan, pos, idx>>
    BY <2>1
  <2>2. phase'[c] \in {"done", "waiting"} /\ \A b \in Client : b # c => phase'[b] = phase[b]
    BY <2>1, OthersPhase DEF Phases
  <2>3. c # holder
    BY <1>0, <2>1 DEF Session
  <2>4. Serving' <=> Serving
    BY <1>0, <2>1, <2>2, <2>3 DEF Serving
  <2>6. /\ \A b \in Client : b = holder' <=> phase'[b] \in {"serving", "failed"}
        /\ \A b \in Updaters : phase'[b] # "idle" => b \in DOMAIN plan'
    BY <1>0, <2>5, <2>2, <2>3, Constants DEF Session
  <2> QED BY <1>0, <2>5, <2>4, <2>6 DEF Session, Listed
<1>2. ASSUME NEW c \in Client, BeginJoin(c) PROVE Session'
  <2>1. /\ c \in Joiners /\ phase[c] = "idle" /\ UNCHANGED <<dirVars, plan, pos, idx>>
        /\ phase' = [phase EXCEPT ![c] = "waiting"]
    BY <1>2 DEF BeginJoin
  <2>2. phase'[c] = "waiting" /\ \A b \in Client : b # c => phase'[b] = phase[b]
    BY <2>1, OthersPhase DEF Phases
  <2>3. c # holder
    BY <1>0, <2>1 DEF Session
  <2>4. Serving' <=> Serving
    BY <1>0, <2>1, <2>2, <2>3 DEF Serving
  <2> QED BY <1>0, <2>1, <2>2, <2>3, <2>4 DEF Session, Listed
<1>3. ASSUME NEW c \in Client, Enter(c) PROVE Session'
  <2>1. /\ phase[c] = "waiting" /\ holder = NoClient /\ holder' = c /\ view' = rotation
        /\ UNCHANGED <<rotation, plan>> /\ phase' = [phase EXCEPT ![c] = "serving"]
        /\ pos' = "next" /\ idx' = 1
    BY <1>3 DEF Enter, Open
  <2>2. phase'[c] = "serving" /\ \A b \in Client : b # c => phase'[b] = phase[b]
    BY <2>1, OthersPhase DEF Phases
  <2>3. Len(view') <= Cardinality(Server) /\ Len(view') \in Nat
    BY <1>0, <2>1, LengthBound DEF Session
  <2> QED BY <1>0, <2>1, <2>2, <2>3 DEF Session
<1>4. ASSUME NEW f \in {"done", "failed"}, Serving, phase' = [phase EXCEPT ![holder] = f],
             UNCHANGED <<rotation, plan>>, holder' = IF f = "done" THEN NoClient ELSE holder
      PROVE  Session'
  <2>1. phase'[holder] = f /\ \A b \in Client : b # holder => phase'[b] = phase[b]
    BY <1>4, <1>s, OthersPhase DEF Phases
  <2>2. ~Serving'
    BY <1>4, <2>1 DEF Serving
  <2>3. \A c \in Client : c = holder' <=> phase'[c] \in {"serving", "failed"}
    BY <1>0, <1>s, <1>4, <2>1 DEF Session
  <2> QED BY <1>0, <1>s, <1>4, <2>1, <2>2, <2>3 DEF Session
<1>5. CASE FinishUpdate \/ FinishJoin
  BY <1>4, <1>5 DEF FinishUpdate, FinishJoin, Close
<1>6. CASE UpdateFails \/ NoHosts
  BY <1>4, <1>6 DEF UpdateFails, NoHosts
<1>7. ASSUME Serving, UNCHANGED <<dirVars, plan, phase>>, pos # "finish" \/ holder \in Updaters,
             \/ pos' \in {"ack", "applied"} /\ holder \in Updaters /\ Listed /\ idx' = idx
             \/ pos' \in {"list", "found"} /\ holder \in Joiners /\ Listed /\ idx' = idx
             \/ pos' \in {"next", "finish"} /\ idx' \in IF Listed THEN {idx, idx + 1} ELSE {idx}
      PROVE  Session'
  <2>1. Serving'
    BY <1>7 DEF Serving
  <2>2. view = rotation /\ idx <= Len(view) + 1 /\ Len(view) <= Cardinality(Server)
    BY <1>0, <1>7 DEF Session
  <2>3. idx' <= Len(view) + 1
    BY <1>0, <1>7, <2>2 DEF Listed
  <2> QED BY <1>0, <1>7, <2>1, <2>2, <2>3 DEF Session, Listed
<1>8. CASE SkipServer \/ ContactServer \/ AckFresh \/ AckStale \/ AckApplied \/ UpdateOwn
  <2>1. Serving /\ pos \in {"ack", "applied"} => Listed
    BY <1>0 DEF Session
  <2>2. CASE SkipServer
    BY <1>7, <2>2 DEF SkipServer
  <2>3. CASE ContactServer
    BY <1>7, <2>3 DEF ContactServer
  <2>4. CASE AckFresh
    BY <1>7, <2>1, <2>4 DEF AckFresh
  <2>5. CASE AckStale
    BY <1>7, <2>1, <2>5 DEF AckStale
  <2>6. CASE AckApplied
    BY <1>7, <2>1, <2>6 DEF AckApplied
  <2>7. CASE UpdateOwn
    <3>1. /\ Serving /\ holder \in Updaters /\ pos' = "finish" /\ idx' = idx
          /\ UNCHANGED <<dirVars, plan, phase>>
      BY <2>7 DEF UpdateOwn
    <3>2. /\ pos # "finish" \/ holder \in Updaters
          /\ pos' \in {"next", "finish"} /\ idx' \in IF Listed THEN {idx, idx + 1} ELSE {idx}
      BY <3>1
    <3> QED BY <1>7, <3>1, <3>2
  <2> QED BY <1>8, <2>2, <2>3, <2>4, <2>5, <2>6, <2>7
<1>9. CASE RequestHosts \/ CopyVersion \/ VersionLost \/ ListFails
  <2>1. Serving /\ pos \in {"list", "found"} => Listed
    BY <1>0 DEF Session
  <2> QED BY <1>7, <1>9, <2>1 DEF RequestHosts, CopyVersion, VersionLost, ListFails
<1>10. CASE GoOnline
  <2>1. /\ rotation' = Append(rotation, holder) /\ holder \in Server /\ pos' = "finish"
        /\ holder \notin ToSet(rotation) /\ Serving /\ holder \in Joiners
        /\ UNCHANGED <<holder, view, plan, phase, idx>>
    BY <1>10 DEF GoOnline, Join, Put
  <2>2. IsInjective(rotation')
    <3>1. ~Contains(rotation, holder)
      BY <2>1 DEF Contains, ToSet
    <3> QED BY <1>0, <2>1, <3>1, AppendKeepsInjective DEF Session
  <2>3. Serving'
    BY <2>1 DEF Serving
  <2> QED BY <1>0, <2>1, <2>2, <2>3 DEF Session
<1>11. ASSUME NEW s \in Server, DropServer(s) PROVE Session'
  <2>1. /\ holder = NoClient /\ rotation' = RemoveFirst(rotation, s) /\ Contains(rotation, s)
        /\ UNCHANGED <<holder, plan, phase>>
    BY <1>0, <1>11 DEF DropServer, Drop, ToSet, Contains
  <2>2. IsInjective(rotation')
    BY <1>0, <2>1, RemoveFirstProperties DEF Session
  <2> QED BY <1>0, <2>1, <2>2 DEF Session, Serving
<1>12. ASSUME NEW d \in Domain, CopyEntry(d) PROVE Session'
  BY <1>p, <1>12 DEF CopyEntry, Place
<1>13. ASSUME NEW s \in Server, ListenerStep(s) \/ EntryLate(s) \/ Fetch(s) PROVE Session'
  BY <1>p, <1>13
  DEF ListenerStep, SendCount, SendVersion, TakeEntry, Apply, GiveUpEntry, EntryLate, Fetch, Place
<1>14. ASSUME NEW s \in Server, NEW d \in Asked, Count(s, d) PROVE Session'
  BY <1>p, <1>14 DEF Count, Place
<1>15. CASE UNCHANGED vars
  BY <1>p, <1>15 DEF vars, Place
<1> QED
  BY <1>1, <1>2, <1>3, <1>5, <1>6, <1>8, <1>9, <1>10, <1>11, <1>12, <1>13, <1>14, <1>15
  DEF Next, ClientStep

-----------------------------------------------------------------------------
(* Where the listeners are, and on whose account.                          *)
LEMMA Listeners ==
  ASSUME Sync, NEW s \in Server
  PROVE  /\ Calm(s) \/ InContact(s) \/ Orphan(s)
         /\ holder = NoClient \/ (Serving /\ pos \notin {"ack", "applied", "list"}) => Calm(s)
         /\ At(s, "accept", "list") => Serving /\ pos = "list" /\ s = Peer
         /\ At(s, "accept", "update") =>
              Serving /\ pos = "ack" /\ s = Peer /\ reply = <<>> /\ open
         /\ At(s, "offer", "entry") => Serving /\ pos = "applied" /\ s = Peer /\ open
         /\ At(s, "offer", "none") =>
              Serving /\ pos = "ack" /\ s = Peer /\ reply = <<version[s]>> /\ open
         /\ lis[s] = "send" => Serving /\ pos = "list" /\ s = Peer /\ mail[s] = "none"
         /\ lis[s] = "apply" =>
              /\ mail[s] = "none"
              /\ (Serving /\ pos = "applied" /\ s = Peer /\ open) \/ Orphan(s)
         /\ At(s, "offer", "eof") => ~InContact(s)
<1>1. Calm(s) \/ InContact(s) \/ Orphan(s)
  BY DEF Sync, Lines
<1>2. holder = NoClient => ~InContact(s) /\ ~Orphan(s)
  <2>1. holder = NoClient => holder \notin DOMAIN plan
    BY RunningUpdate, Constants DEF Sync, TypeOK
  <2> QED BY <2>1 DEF InContact, Orphan, Serving
<1>3. Serving /\ pos \notin {"ack", "applied", "list"} => ~InContact(s) /\ ~Orphan(s)
  BY DEF InContact, Orphan
<1>4. InContact(s) => Serving /\ s = Peer /\ pos \in {"ack", "applied", "list"}
  BY DEF InContact
<1>5. InContact(s) /\ pos = "ack" =>
        \/ reply = <<>> /\ open /\ At(s, "accept", "update")
        \/ reply = <<version[s]>> /\ open /\ At(s, "offer", "none")
        \/ reply = <<version[s]>> /\ ~open /\ At(s, "accept", "none")
  BY DEF InContact
<1>6. InContact(s) /\ pos = "applied" =>
        \/ open /\ (At(s, "offer", "entry") \/ At(s, "apply", "none"))
        \/ ~open /\ At(s, "accept", "none")
  BY DEF InContact
<1>7. InContact(s) /\ pos = "list" => At(s, "accept", "list") \/ At(s, "send", "none")
  BY DEF InContact
<1>8. Orphan(s) => At(s, "apply", "none")
  BY DEF Orphan
<1>9. Calm(s) => At(s, "accept", "none") \/ At(s, "offer", "eof")
  BY DEF Calm, At
<1> QED BY <1>1, <1>2, <1>3, <1>4, <1>5, <1>6, <1>7, <1>8, <1>9 DEF At

(* The update that a server applies is the running one's, or that of one   *)
(* that gave up; the server is in the rotation.                            *)
LEMMA Applying ==
  ASSUME Sync, NEW s \in Server, lis[s] = "apply"
  PROVE  holder \in DOMAIN plan /\ s \in ToSet(rotation) /\ mail[s] = "none"
<1>1. mail[s] = "none" /\ ((Serving /\ pos = "applied" /\ s = Peer) \/ Orphan(s))
  BY Listeners
<1>2. CASE Serving /\ pos = "applied" /\ s = Peer
  <2>1. Listed /\ holder \in DOMAIN plan /\ view = rotation /\ idx \in Nat /\ idx > 0
    BY <1>2, Situation DEF Sync, Session
  <2> QED BY <1>1, <1>2, <2>1 DEF Listed, Peer, ToSet, Sync, TypeOK
<1>3. CASE Orphan(s)
  BY <1>1, <1>3 DEF Orphan
<1> QED BY <1>1, <1>2, <1>3

(* A newcomer that is still copying is not in the rotation, its peer is.   *)
LEMMA Arriving ==
  ASSUME Sync, Serving, holder \in Joiners, pos # "finish"
  PROVE  /\ holder \in Server /\ holder \notin ToSet(rotation) /\ lookup[holder] = <<>>
         /\ pos # "found" => version[holder] = 0
         /\ Listed => Peer \in Server /\ Peer \in ToSet(rotation) /\ Peer # holder
<1>1. holder \in Server /\ Outside(holder)
  BY DEF Outside, Serving, Joiners
<1>2. /\ holder \notin ToSet(rotation) /\ lookup[holder] = <<>>
      /\ pos # "found" => version[holder] = 0
  BY <1>1 DEF Sync, Newcomers
<1>3. ASSUME Listed PROVE Peer \in ToSet(rotation) /\ Peer \in Server
  <2>1. view = rotation /\ idx \in Nat /\ idx > 0 /\ Peer \in Server
    BY <1>3, Situation DEF Sync, Session
  <2> QED BY <1>3, <2>1 DEF Listed, Peer, ToSet, Sync, TypeOK
<1> QED BY <1>1, <1>2, <1>3

(* The server that an update thread runs on was there from the start.      *)
LEMMA OwnServer ==
  ASSUME Sync, Serving, holder \in Updaters
  PROVE  holder \in DOMAIN plan /\ Me.coms \in Server /\ Me.coms \notin Joiners
<1>1. holder \in DOMAIN plan
  BY Situation
<1>2. Me.coms \in Server /\ Me.coms \in ToSet(Initial)
  BY <1>1, RunningUpdate DEF Sync, TypeOK, Me
<1> QED BY <1>1, <1>2, Constants

-----------------------------------------------------------------------------
(* Who has come in stays in.                                               *)
LEMMA OutsideStep ==
  ASSUME Sync, [Next]_vars, NEW j \in Server, Outside(j)'
  PROVE  Outside(j)
<1> USE DEF coms_t, lisVars, clientVars, locals, conn, queries, dirVars, Connect, NextPort,
            Update, Joining
<1>0. /\ j \in Joiners /\ j \in Client /\ phase'[j] # "done" /\ Updaters \cap Joiners = {}
      /\ ~(j = holder' /\ pos' = "finish")
  BY Constants DEF Outside, Joiners, Updaters
<1>s. Serving => holder \in Client /\ phase[holder] = "serving" /\ holder # NoClient
  BY Situation DEF Serving
<1>p. UNCHANGED Place => Outside(j)
  BY PlaceKept
<1>1. ASSUME NEW c \in Client, BeginUpdate(c) PROVE Outside(j)
  <2>1. /\ c \in DOMAIN plan /\ phase[c] = "idle" /\ UNCHANGED <<dirVars, plan, pos, idx>>
        /\ phase' = [phase EXCEPT ![c] = "done"] \/ phase' = [phase EXCEPT ![c] = "waiting"]
    BY <1>1 DEF BeginUpdate
  <2>2. \A b \in Client : b # c => phase'[b] = phase[b]
    BY <2>1, OthersPhase DEF Phases
  <2> QED BY <1>0, <2>1, <2>2 DEF Outside
<1>2. ASSUME NEW c \in Client, NEW f \in Phases, phase[c] # "done",
             phase' = [phase EXCEPT ![c] = f],
             (holder = j /\ pos = "finish") => f = "done" /\ c = j
      PROVE  Outside(j)
  <2>1. phase'[c] = f /\ \A b \in Client : b # c => phase'[b] = phase[b]
    BY <1>2, OthersPhase
  <2> QED BY <1>0, <1>2, <2>1 DEF Outside
<1>3. ASSUME NEW c \in Client, BeginJoin(c) PROVE Outside(j)
  <2>1. /\ phase[c] = "idle" /\ UNCHANGED <<holder, pos>>
        /\ phase' = [phase EXCEPT ![c] = "waiting"]
    BY <1>3 DEF BeginJoin
  <2> QED BY <1>0, <1>2, <2>1 DEF Phases
<1>4. ASSUME NEW c \in Client, Enter(c) PROVE Outside(j)
  BY <1>0, <1>2, <1>4, Constants DEF Enter, Open, Phases
<1>5. CASE FinishUpdate \/ FinishJoin
  BY <1>0, <1>s, <1>2, <1>5 DEF FinishUpdate, FinishJoin, Phases
<1>6. CASE UpdateFails \/ NoHosts
  BY <1>0, <1>s, <1>2, <1>6 DEF UpdateFails, NoHosts, Phases
<1>7. ASSUME UNCHANGED phase, ~(j = holder /\ pos = "finish") \/ UNCHANGED <<holder, pos>>
      PROVE  Outside(j)
  BY <1>0, <1>7 DEF Outside
<1>8. CASE SkipServer \/ ContactServer \/ AckFresh \/ AckStale \/ AckApplied
  BY <1>7, <1>8 DEF SkipServer, ContactServer, AckFresh, AckStale, AckApplied
<1>u. CASE UpdateOwn
  <2>1. UNCHANGED phase /\ pos = "next"
    BY <1>u DEF UpdateOwn
  <2> QED BY <1>7, <2>1
<1>9. CASE RequestHosts \/ CopyVersion \/ VersionLost \/ ListFails \/ GoOnline
  BY <1>7, <1>9 DEF RequestHosts, CopyVersion, VersionLost, ListFails, GoOnline
<1>11. ASSUME NEW s \in Server, DropServer(s) PROVE Outside(j)
  BY <1>7, <1>11 DEF DropServer, Drop
<1>12. ASSUME NEW d \in Domain, CopyEntry(d) PROVE Outside(j)
  BY <1>p, <1>12 DEF CopyEntry, Place
<1>13. ASSUME NEW s \in Server, ListenerStep(s) \/ EntryLate(s) \/ Fetch(s) PROVE Outside(j)
  BY <1>p, <1>13
  DEF ListenerStep, SendCount, SendVersion, TakeEntry, Apply, GiveUpEntry, EntryLate, Fetch, Place
<1>14. ASSUME NEW s \in Server, NEW d \in Asked, Count(s, d) PROVE Outside(j)
  BY <1>p, <1>14 DEF Count, Place
<1>15. CASE UNCHANGED vars
  BY <1>p, <1>15 DEF vars, Place
<1> QED
  BY <1>1, <1>3, <1>4, <1>5, <1>6, <1>8, <1>u, <1>9, <1>11, <1>12, <1>13, <1>14, <1>15
  DEF Next, ClientStep

(* Updates change the versions of servers that were let in.                *)
LEMMA NewcomersStep ==
  ASSUME Sync, [Next]_vars
  PROVE  Newcomers'
<1> USE DEF coms_t, lisVars, clientVars, locals, conn, queries, dirVars, Connect, NextPort,
            Update, Joining
<1> SUFFICES ASSUME NEW j \in Server, Outside(j)'
             PROVE  /\ j \notin ToSet(rotation)' /\ lookup'[j] = <<>>
                    /\ version'[j] = 0 \/ (j = holder' /\ pos' = "found")
  BY DEF Newcomers
<1> DEFINE Goal == /\ j \notin ToSet(rotation)' /\ lookup'[j] = <<>>
                   /\ version'[j] = 0 \/ (j = holder' /\ pos' = "found")
<1>0. /\ j \notin ToSet(rotation) /\ lookup[j] = <<>> /\ j \in Joiners /\ j \in Client
      /\ version[j] = 0 \/ (j = holder /\ pos = "found")
      /\ ~(j = holder' /\ pos' = "finish") /\ Updaters \cap Joiners = {}
  BY OutsideStep, Constants DEF Sync, Newcomers, Outside, Joiners, Updaters
<1>t. /\ DOMAIN lookup = Server /\ version \in [Server -> 0..255]
      /\ rotation \in Seq(Server) /\ plan \in Plans
  BY DEF Sync, TypeOK
<1>p. ASSUME UNCHANGED <<rotation, lookup>>, version'[j] = version[j],
             pos # "found" \/ holder # j \/ UNCHANGED <<holder, pos>>
      PROVE  Goal
  BY <1>0, <1>p
<1>1. ASSUME NEW c \in Client, BeginUpdate(c) \/ BeginJoin(c) PROVE Goal
  BY <1>p, <1>1 DEF BeginUpdate, BeginJoin
<1>4. ASSUME NEW c \in Client, Enter(c) PROVE Goal
  BY <1>0, <1>p, <1>4, Constants DEF Enter, Open
<1>5. CASE FinishUpdate \/ FinishJoin
  BY <1>p, <1>5 DEF FinishUpdate, FinishJoin, Close
<1>6. CASE UpdateFails \/ NoHosts
  BY <1>p, <1>6 DEF UpdateFails, NoHosts
<1>7. CASE SkipServer \/ ContactServer \/ AckFresh \/ AckStale \/ AckApplied
  BY <1>p, <1>7 DEF SkipServer, ContactServer, AckFresh, AckStale, AckApplied
<1>8. CASE UpdateOwn
  <2>1. /\ pos = "next" /\ UNCHANGED <<rotation, lookup>> /\ Serving /\ holder \in Updaters
        /\ ActuallyUpdate(Me.coms) \/ UNCHANGED version
    BY <1>8 DEF UpdateOwn
  <2>2. version'[j] = version[j]
    <3>1. holder \in DOMAIN plan /\ Me.coms \in Server /\ Me.coms # j
      BY <1>0, <2>1, OwnServer
    <3> QED BY <2>1, <3>1, ApplyTypes
  <2> QED BY <1>p, <2>1, <2>2
<1>9. CASE RequestHosts \/ ListFails
  BY <1>p, <1>9 DEF RequestHosts, ListFails
<1>10. CASE CopyVersion \/ VersionLost
  <2>1. /\ UNCHANGED <<rotation, lookup, holder>> /\ pos' = "found" /\ Serving
        /\ holder \in Joiners /\ \E v : version' = [version EXCEPT ![holder] = v]
    BY <1>10 DEF CopyVersion, VersionLost
  <2>2. j # holder => version'[j] = version[j]
    BY <1>t, <2>1
  <2> QED BY <1>0, <2>1, <2>2
<1>11. CASE GoOnline
  <2>1. /\ holder' = holder /\ pos' = "finish" /\ UNCHANGED <<lookup, version>>
        /\ rotation' = Append(rotation, holder) /\ holder \in Server
    BY <1>11 DEF GoOnline, Join, Put
  <2>2. holder # j
    BY <1>0, <2>1
  <2>3. \A i \in 1..Len(rotation') : rotation'[i] = holder \/ rotation'[i] \in ToSet(rotation)
    BY <1>t, <2>1 DEF ToSet
  <2>4. j \notin ToSet(rotation')
    BY <1>0, <1>t, <2>1, <2>2, <2>3 DEF ToSet
  <2> QED BY <1>0, <2>1, <2>2, <2>4
<1>12. ASSUME NEW s \in Server, DropServer(s) PROVE Goal
  <2>1. /\ rotation' = RemoveFirst(rotation, s) /\ Contains(rotation, s)
        /\ UNCHANGED <<holder, pos, lookup, version>> /\ IsInjective(rotation)
    BY <1>t, <1>12 DEF DropServer, Drop, ToSet, Contains, Sync, Session
  <2>2. \A i \in 1..Len(rotation') : Contains(rotation, rotation'[i])
    BY <1>t, <2>1, RemoveFirstProperties
  <2>3. rotation' \in Seq(Server)
    BY <1>t, <2>1, RemoveFirstProperties
  <2>4. j \notin ToSet(rotation')
    BY <1>0, <1>t, <2>2, <2>3 DEF ToSet, Contains
  <2> QED BY <1>0, <2>1, <2>4
<1>13. ASSUME NEW d \in Domain, CopyEntry(d) PROVE Goal
  BY <1>p, <1>13 DEF CopyEntry
<1>14. ASSUME NEW s \in Server,
              SendCount(s) \/ SendVersion(s) \/ TakeEntry(s) \/ GiveUpEntry(s) \/ EntryLate(s)
       PROVE  Goal
  BY <1>p, <1>14 DEF SendCount, SendVersion, TakeEntry, GiveUpEntry, EntryLate
<1>15. ASSUME NEW s \in Server, Apply(s) PROVE Goal
  <2>1. /\ lis[s] = "apply" /\ ActuallyUpdate(s)
        /\ UNCHANGED <<rotation, lookup, holder, pos>>
    BY <1>15 DEF Apply
  <2>2. holder \in DOMAIN plan /\ s # j
    BY <1>0, <2>1, Applying
  <2>3. version'[j] = version[j]
    BY <2>1, <2>2, ApplyTypes
  <2> QED BY <1>p, <2>1, <2>3
<1>16. ASSUME NEW s \in Server, Fetch(s) PROVE Goal
  <2>1. /\ lookup' = [lookup EXCEPT ![s] = <<>>] /\ UNCHANGED <<rotation, version, holder, pos>>
    BY <1>16 DEF Fetch
  <2>2. lookup'[j] = <<>>
    BY <1>0, <1>t, <2>1
  <2> QED BY <1>0, <2>1, <2>2
<1>17. ASSUME NEW s \in Server, NEW d \in Asked, Count(s, d) PROVE Goal
  <2>1. /\ s \in ToSet(rotation) /\ lookup' = [lookup EXCEPT ![s] = <<d>>]
        /\ UNCHANGED <<rotation, version, holder, pos>>
    BY <1>17 DEF Count
  <2>2. lookup'[j] = <<>>
    BY <1>0, <1>t, <2>1
  <2> QED BY <1>0, <2>1, <2>2
<1>18. CASE UNCHANGED vars
  BY <1>p, <1>18 DEF vars
<1> QED
  BY <1>1, <1>4, <1>5, <1>6, <1>7, <1>8, <1>9, <1>10, <1>11, <1>12, <1>13, <1>14, <1>15,
     <1>16, <1>17, <1>18
  DEF Next, ClientStep, ListenerStep

-----------------------------------------------------------------------------
(* An update leaves its mark on the server it is applied to, whichever of  *)
(* the updates with its identifier one asks for.                           *)
LEMMA ApplyMarks ==
  ASSUME Sync, holder \in DOMAIN plan, NEW s \in Server, ActuallyUpdate(s), UNCHANGED plan
  PROVE  Marked(s)'
<1>1. /\ version'[s] = Me.id /\ table'[s] = Changed(table[s], Me) /\ plan \in Plans
      /\ table[s] \in [Domain -> Address]
  BY ApplyTypes DEF Sync, TypeOK
<1>2. ASSUME NEW c \in DOMAIN plan, Me.id = plan[c].id
      PROVE  table'[s][plan[c].domain] \in Target(plan[c])
  <2>1. plan[c].domain = Me.domain /\ Target(plan[c]) = Target(Me) /\ Me.domain \in Domain
    BY <1>1, <1>2, RunningUpdate DEF Me
  <2>2. table'[s][Me.domain] = IF Me.remove THEN Absent ELSE Me.ip
    BY <1>1, <2>1 DEF Changed
  <2> QED BY <2>1, <2>2 DEF Target
<1> QED BY <1>1, <1>2 DEF Marked

LEMMA AllMarkedStep ==
  ASSUME Sync, [Next]_vars
  PROVE  AllMarked'
<1> USE DEF coms_t, lisVars, clientVars, locals, conn, queries, dirVars, Connect, NextPort,
            Update, Joining
<1> SUFFICES ASSUME NEW s \in Server
             PROVE  s \in (astray \cap Joiners)' \/ Marked(s)'
  BY DEF AllMarked
<1> DEFINE Goal == s \in (astray \cap Joiners)' \/ Marked(s)'
<1>0. s \in astray \cap Joiners \/ Marked(s)
  BY DEF Sync, AllMarked
<1>t. /\ table \in [Server -> [Domain -> Address]] /\ version \in [Server -> 0..255]
      /\ plan \in Plans /\ astray \subseteq Server
  BY DEF Sync, TypeOK
<1>p. ASSUME UNCHANGED plan, version'[s] = version[s], table'[s] = table[s],
             s \in astray => s \in astray'
      PROVE  Goal
  BY <1>0, <1>p DEF Marked
<1>z. ASSUME UNCHANGED plan, version'[s] = 0 PROVE Goal
  <2>1. \A c \in DOMAIN plan : plan[c].id # 0
    BY <1>t, RunningUpdate
  <2> QED BY <1>z, <2>1 DEF Marked
<1>1. ASSUME NEW c \in Client, BeginUpdate(c) \/ BeginJoin(c) \/ Enter(c) PROVE Goal
  BY <1>p, <1>1 DEF BeginUpdate, BeginJoin, Enter
<1>5. CASE FinishUpdate \/ FinishJoin \/ UpdateFails \/ NoHosts \/ GoOnline
  BY <1>p, <1>5 DEF FinishUpdate, FinishJoin, UpdateFails, NoHosts, GoOnline
<1>7. CASE SkipServer \/ ContactServer \/ AckFresh \/ AckStale \/ AckApplied \/ ListFails
  BY <1>p, <1>7 DEF SkipServer, ContactServer, AckFresh, AckStale, AckApplied, ListFails
<1>a. ASSUME NEW r \in Server, holder \in DOMAIN plan, ActuallyUpdate(r), UNCHANGED plan
      PROVE  Goal
  <2>1. CASE r = s
    BY <1>a, <2>1, ApplyMarks
  <2>2. CASE r # s
    <3>1. version'[s] = version[s] /\ table'[s] = table[s] /\ astray' = astray \ {r}
      BY <1>a, <2>2, ApplyTypes
    <3> QED BY <1>a, <1>p, <2>2, <3>1
  <2> QED BY <2>1, <2>2
<1>8. CASE UpdateOwn
  <2>1. /\ UNCHANGED plan /\ Serving /\ holder \in Updaters
        /\ ActuallyUpdate(Me.coms) \/ UNCHANGED <<coms_t, astray>>
    BY <1>8 DEF UpdateOwn
  <2>2. holder \in DOMAIN plan /\ Me.coms \in Server
    BY <2>1, OwnServer
  <2> QED BY <1>a, <1>p, <2>1, <2>2
<1>9. CASE RequestHosts
  <2>1. /\ table' = [table EXCEPT ![holder] = NoTable] /\ UNCHANGED <<plan, version, astray>>
        /\ version[holder] = 0 /\ holder \in Server
    BY <1>9, Arriving DEF RequestHosts
  <2> QED BY <1>t, <1>p, <1>z, <2>1
<1>10. ASSUME NEW d \in Domain, CopyEntry(d) PROVE Goal
  <2>1. /\ table' = [table EXCEPT ![holder][d] = table[Peer][d]]
        /\ UNCHANGED <<plan, version, astray>> /\ version[holder] = 0 /\ holder \in Server
    BY <1>10, Arriving DEF CopyEntry
  <2> QED BY <1>t, <1>p, <1>z, <2>1
<1>11. CASE CopyVersion
  <2>1. /\ Joining("list") /\ lis[Peer] = "send" /\ left[Peer] = {}
        /\ version' = [version EXCEPT ![holder] = version[Peer]]
        /\ astray' = IF Peer \in astray THEN astray \cup {holder} ELSE astray
        /\ UNCHANGED <<plan, table>>
    BY <1>11 DEF CopyVersion, HandedVersion
  <2>2. holder \in Server /\ Peer \in Server /\ Peer # holder
    BY <2>1, Situation, Arriving
  <2>3. CASE s # holder
    BY <1>t, <1>p, <2>1, <2>2, <2>3
  <2>4. CASE s = holder /\ Peer \in astray
    BY <2>1, <2>4
  <2>5. CASE s = holder /\ Peer \notin astray
    <3>1. Marked(Peer)
      BY <2>2, <2>5 DEF Sync, AllMarked
    <3>2. \A d \in Domain : \/ table[holder][d] = table[Peer][d]
                            \/ table[holder][d] = Absent /\ table[Peer][d] = Empty
      <4>1. Copied
        BY DEF Sync
      <4> QED BY <2>1, <4>1 DEF Copied
    <3>3. version'[s] = version[Peer] /\ table'[s] = table[holder]
      BY <1>t, <2>1, <2>2, <2>5
    <3>4. ASSUME NEW c \in DOMAIN plan, version[Peer] = plan[c].id
          PROVE  table[holder][plan[c].domain] \in Target(plan[c])
      <4>1. table[Peer][plan[c].domain] \in Target(plan[c])
        BY <3>1, <3>4 DEF Marked
      <4>2. plan[c].domain \in Domain /\ plan[c].ip # Empty
        BY <1>t, RunningUpdate
      <4>3. CASE table[holder][plan[c].domain] = table[Peer][plan[c].domain]
        BY <4>1, <4>3
      <4>4. CASE table[holder][plan[c].domain] = Absent /\ table[Peer][plan[c].domain] = Empty
        BY <4>1, <4>2, <4>4 DEF Target
      <4> QED BY <3>2, <4>2, <4>3, <4>4
    <3> QED BY <2>1, <3>3, <3>4 DEF Marked
  <2> QED BY <2>3, <2>4, <2>5
<1>12. CASE VersionLost
  <2>1. /\ UNCHANGED <<plan, table>> /\ Serving /\ holder \in Joiners
        /\ astray' = astray \cup {holder} /\ \E v : version' = [version EXCEPT ![holder] = v]
    BY <1>12 DEF VersionLost
  <2>2. CASE s = holder
    BY <2>1, <2>2
  <2>3. CASE s # holder
    BY <1>t, <1>p, <2>1, <2>3
  <2> QED BY <2>2, <2>3
<1>13. ASSUME NEW r \in Server, DropServer(r) PROVE Goal
  BY <1>p, <1>13 DEF DropServer
<1>14. ASSUME NEW r \in Server,
              SendCount(r) \/ SendVersion(r) \/ TakeEntry(r) \/ GiveUpEntry(r) \/ EntryLate(r)
       PROVE  Goal
  BY <1>p, <1>14 DEF SendCount, SendVersion, TakeEntry, GiveUpEntry, EntryLate
<1>15. ASSUME NEW r \in Server, Apply(r) PROVE Goal
  <2>1. lis[r] = "apply" /\ ActuallyUpdate(r) /\ UNCHANGED plan
    BY <1>15 DEF Apply
  <2> QED BY <1>a, <2>1, Applying
<1>16. ASSUME NEW r \in Server, Fetch(r) PROVE Goal
  <2>1. /\ UNCHANGED <<plan, version, astray>>
        /\ \/ UNCHANGED table
           \/ /\ table[r][lookup[r][1]] \in {Absent, Empty}
              /\ table' = [table EXCEPT ![r][lookup[r][1]] = Empty]
    BY <1>16 DEF Fetch
  <2>2. lookup[r][1] \in Domain
    BY <1>16, Constants DEF Fetch, Sync, TypeOK
  <2>3. CASE UNCHANGED table \/ r # s
    BY <1>t, <1>p, <2>1, <2>3
  <2>4. CASE r = s /\ ~UNCHANGED table /\ Marked(s)
    <3>1. /\ table[s][lookup[r][1]] \in {Absent, Empty} /\ table'[s][lookup[r][1]] = Empty
          /\ \A d \in Domain : d # lookup[r][1] => table'[s][d] = table[s][d]
      BY <1>t, <2>1, <2>2, <2>4
    <3>2. ASSUME NEW c \in DOMAIN plan, version[s] = plan[c].id
          PROVE  table'[s][plan[c].domain] \in Target(plan[c])
      <4>1. table[s][plan[c].domain] \in Target(plan[c])
        BY <2>4, <3>2 DEF Marked
      <4>2. plan[c].domain \in Domain /\ plan[c].ip \notin {Absent, Empty}
        BY <1>t, RunningUpdate
      <4>3. CASE plan[c].domain = lookup[r][1]
        BY <3>1, <4>1, <4>2, <4>3 DEF Target
      <4>4. CASE plan[c].domain # lookup[r][1]
        BY <3>1, <4>1, <4>2, <4>4
      <4> QED BY <4>3, <4>4
    <3> QED BY <2>1, <3>2 DEF Marked
  <2>5. CASE s \in astray \cap Joiners
    BY <2>1, <2>5
  <2> QED BY <1>0, <2>3, <2>4, <2>5
<1>17. ASSUME NEW r \in Server, NEW d \in Asked, Count(r, d) PROVE Goal
  BY <1>p, <1>17 DEF Count
<1>18. CASE UNCHANGED vars
  BY <1>p, <1>18 DEF vars
<1> QED
  BY <1>1, <1>5, <1>7, <1>8, <1>9, <1>10, <1>11, <1>12, <1>13, <1>14, <1>15, <1>16, <1>17, <1>18
  DEF Next, ClientStep, ListenerStep

-----------------------------------------------------------------------------
(* A list is copied before its sender can change it: the sender serves one *)
(* connection at a time, and only a query can touch the table meanwhile.   *)
LEMMA CopiedStep ==
  ASSUME Sync, [Next]_vars
  PROVE  Copied'
<1> USE DEF coms_t, lisVars, clientVars, locals, conn, queries, dirVars, Connect, NextPort, Update
<1> SUFFICES ASSUME Joining("list")' PROVE Copied'
  BY DEF Copied
<1>0. /\ holder' \in Joiners /\ holder' # NoClient /\ phase'[holder'] = "serving" /\ pos' = "list"
      /\ Updaters \cap Joiners = {}
  BY DEF Joining, Serving, Joiners, Updaters
<1>t. /\ table \in [Server -> [Domain -> Address]] /\ left \in [Server -> SUBSET Domain]
      /\ DOMAIN lis = Server /\ DOMAIN lookup = Server /\ phase \in [Client -> Phases]
      /\ holder \in Client \cup {NoClient}
  BY DEF Sync, TypeOK, Phases
<1>j. ASSUME Joining("list")
      PROVE  /\ Serving /\ holder \in Server /\ Peer \in Server /\ Peer # holder
             /\ lookup[holder] = <<>>
             /\ At(Peer, "accept", "list") \/ At(Peer, "send", "none")
  <2>1. Serving /\ holder \in Joiners /\ pos = "list"
    BY <1>j DEF Joining
  <2>2. Peer \in Server /\ Listed /\ InContact(Peer)
    BY <2>1, Situation DEF Sync, Lines
  <2> QED BY <2>1, <2>2, Arriving DEF InContact
<1>p. ASSUME Joining("list"), UNCHANGED <<holder, view, idx>>, lis'[Peer] = lis[Peer],
             left'[Peer] = left[Peer], table'[holder] = table[holder], table'[Peer] = table[Peer]
      PROVE  Copied'
  <2>1. UNCHANGED Peer
    BY <1>p DEF Peer
  <2>2. Copied
    BY DEF Sync
  <2> QED BY <1>p, <2>1, <2>2 DEF Copied, NoTable
<1>1. ASSUME NEW c \in Client, BeginUpdate(c) \/ BeginJoin(c) PROVE Copied'
  <2>1. /\ UNCHANGED <<holder, view, idx, pos, lis, left, table>>
        /\ phase' = [phase EXCEPT ![c] = "done"] \/ phase' = [phase EXCEPT ![c] = "waiting"]
    BY <1>1 DEF BeginUpdate, BeginJoin
  <2>2. phase'[holder] = phase[holder]
    BY <1>0, <1>t, <2>1
  <2> QED BY <1>0, <1>p, <2>1, <2>2 DEF Joining, Serving
<1>4. ASSUME NEW c \in Client, Enter(c) PROVE Copied'
  BY <1>0, <1>4 DEF Enter
<1>5. CASE FinishUpdate \/ FinishJoin
  BY <1>0, <1>5 DEF FinishUpdate, FinishJoin, Close
<1>6. CASE UpdateFails \/ NoHosts
  <2>1. Serving /\ phase' = [phase EXCEPT ![holder] = "failed"] /\ UNCHANGED holder
    BY <1>6 DEF UpdateFails, NoHosts, Joining
  <2> QED BY <1>0, <1>t, <2>1 DEF Serving
<1>7. CASE SkipServer \/ ContactServer \/ AckFresh \/ AckStale \/ AckApplied
  BY <1>0, <1>7 DEF SkipServer, ContactServer, AckFresh, AckStale, AckApplied
<1>8. CASE UpdateOwn
  <2>1. pos' = "finish"
    BY <1>8 DEF UpdateOwn
  <2> QED BY <1>0, <2>1
<1>9. CASE CopyVersion \/ VersionLost \/ ListFails \/ GoOnline
  BY <1>0, <1>9 DEF CopyVersion, VersionLost, ListFails, GoOnline
<1>10. CASE RequestHosts
  <2>1. /\ Joining("next") /\ Listed /\ lis[Peer] = "accept"
        /\ table' = [table EXCEPT ![holder] = NoTable] /\ UNCHANGED <<holder, view, idx, lis>>
    BY <1>10 DEF RequestHosts
  <2>2. UNCHANGED Peer /\ holder \in Server
    BY <2>1, Arriving DEF Peer, Joining
  <2>3. table'[holder] = NoTable
    BY <1>t, <2>1, <2>2
  <2> QED BY <2>1, <2>2, <2>3 DEF Copied, NoTable
<1>11. ASSUME NEW d \in Domain, CopyEntry(d) PROVE Copied'
  <2>1. /\ Joining("list") /\ lis[Peer] = "send" /\ left' = [left EXCEPT ![Peer] = @ \ {d}]
        /\ table' = [table EXCEPT ![holder][d] = table[Peer][d]]
        /\ UNCHANGED <<holder, view, idx, lis>>
    BY <1>11 DEF CopyEntry
  <2>2. UNCHANGED Peer /\ holder \in Server /\ Peer \in Server /\ Peer # holder
    BY <1>j, <2>1 DEF Peer
  <2>3. /\ left'[Peer] = left[Peer] \ {d} /\ table'[Peer] = table[Peer]
        /\ table'[holder][d] = table[Peer][d]
        /\ \A e \in Domain : e # d => table'[holder][e] = table[holder][e]
    BY <1>t, <2>1, <2>2
  <2>4. \A e \in Domain \ left[Peer] :
           \/ table[holder][e] = table[Peer][e]
           \/ table[holder][e] = Absent /\ table[Peer][e] = Empty
    BY <2>1 DEF Sync, Copied
  <2>5. ASSUME NEW e \in Domain \ left'[Peer]
        PROVE  \/ table'[holder][e] = table'[Peer][e]
               \/ table'[holder][e] = Absent /\ table'[Peer][e] = Empty
    <3>1. CASE e = d
      BY <2>3, <3>1
    <3>2. CASE e # d
      BY <2>3, <2>4, <3>2
    <3> QED BY <3>1, <3>2
  <2> QED BY <2>1, <2>2, <2>5 DEF Copied
<1>12. ASSUME NEW s \in Server, SendCount(s) PROVE Copied'
  <2>1. /\ At(s, "accept", "list") /\ lis' = [lis EXCEPT ![s] = "send"]
        /\ left' = [left EXCEPT ![s] = Present(s)]
        /\ UNCHANGED <<holder, view, idx, pos, phase, table>>
    BY <1>12 DEF SendCount, At
  <2>2. Joining("list") /\ s = Peer /\ UNCHANGED Peer
    BY <1>0, <2>1, Listeners DEF Joining, Serving, Peer
  <2>3. lis'[s] = "send" /\ left'[s] = Present(s) /\ table[holder] = NoTable
    BY <1>t, <2>1, <2>2 DEF Sync, Copied, At
  <2>4. \A d \in Domain : d \notin Present(s) =>
          table[s][d] = Absent /\ table[holder][d] = Absent
    BY <2>3 DEF Present, NoTable
  <2> QED BY <2>1, <2>2, <2>3, <2>4 DEF Copied
<1>13. ASSUME NEW s \in Server, SendVersion(s) \/ TakeEntry(s) \/ GiveUpEntry(s) \/ EntryLate(s)
       PROVE  Copied'
  <2>1. /\ \/ At(s, "accept", "update") \/ At(s, "offer", "entry") \/ At(s, "offer", "eof")
           \/ At(s, "offer", "none")
        /\ \E l : lis' = [lis EXCEPT ![s] = l]
        /\ UNCHANGED <<holder, view, idx, pos, phase, table, left>>
    BY <1>13 DEF SendVersion, TakeEntry, GiveUpEntry, EntryLate, At, EndOfStream
  <2>2. Joining("list")
    BY <1>0, <2>1 DEF Joining, Serving
  <2>3. s # Peer
    BY <1>j, <2>1, <2>2 DEF At
  <2>4. lis'[Peer] = lis[Peer]
    BY <1>t, <2>1, <2>3
  <2> QED BY <1>p, <2>1, <2>2, <2>4
<1>14. ASSUME NEW s \in Server, Apply(s) PROVE Copied'
  <2>1. lis[s] = "apply" /\ UNCHANGED <<holder, pos, phase>>
    BY <1>14 DEF Apply
  <2>2. Serving /\ pos = "list"
    BY <1>0, <2>1 DEF Serving
  <2> QED BY <2>1, <2>2, Listeners DEF Orphan
<1>15. ASSUME NEW s \in Server, Fetch(s) PROVE Copied'
  <2>1. /\ lookup[s] # <<>> /\ UNCHANGED <<holder, view, idx, pos, phase, lis, left>>
        /\ \/ UNCHANGED table
           \/ /\ table[s][lookup[s][1]] \in {Absent, Empty}
              /\ table' = [table EXCEPT ![s][lookup[s][1]] = Empty]
    BY <1>15 DEF Fetch
  <2>2. lookup[s][1] \in Domain
    BY <1>15, Constants DEF Fetch, Sync, TypeOK
  <2>3. Joining("list") /\ s # holder /\ UNCHANGED Peer
    <3>1. Joining("list")
      BY <1>0, <2>1 DEF Joining, Serving
    <3> QED BY <1>j, <2>1, <3>1 DEF Peer
  <2>4. CASE UNCHANGED table \/ s # Peer
    BY <1>t, <1>p, <1>j, <2>1, <2>3, <2>4
  <2>5. CASE s = Peer /\ ~UNCHANGED table
    <3>1. /\ table'[holder] = table[holder] /\ table[s][lookup[s][1]] \in {Absent, Empty}
          /\ table'[s][lookup[s][1]] = Empty
          /\ \A d \in Domain : d # lookup[s][1] => table'[s][d] = table[s][d]
      BY <1>t, <1>j, <2>1, <2>2, <2>3, <2>5
    <3>2. CASE lis[Peer] = "accept"
      BY <2>1, <2>3, <3>1, <3>2 DEF Sync, Copied, NoTable
    <3>3. CASE lis[Peer] # "accept"
      <4>1. \A d \in Domain \ left[s] : \/ table[holder][d] = table[s][d]
                                        \/ table[holder][d] = Absent /\ table[s][d] = Empty
        BY <2>3, <2>5, <3>3 DEF Sync, Copied
      <4>2. ASSUME NEW d \in Domain \ left[s]
            PROVE  \/ table'[holder][d] = table'[s][d]
                   \/ table'[holder][d] = Absent /\ table'[s][d] = Empty
        <5>1. CASE d = lookup[s][1]
          BY <3>1, <4>1, <5>1
        <5>2. CASE d # lookup[s][1]
          BY <3>1, <4>1, <5>2
        <5> QED BY <5>1, <5>2
      <4> QED BY <2>1, <2>3, <2>5, <3>3, <4>2 DEF Copied
    <3> QED BY <3>2, <3>3
  <2> QED BY <2>4, <2>5
<1>16. ASSUME NEW s \in Server, NEW d \in Asked, Count(s, d) PROVE Copied'
  BY <1>0, <1>p, <1>16 DEF Count, Joining, Serving
<1>17. ASSUME NEW s \in Server, DropServer(s) PROVE Copied'
  BY <1>0, <1>17 DEF DropServer, Drop
<1>18. CASE UNCHANGED vars
  BY <1>0, <1>p, <1>18 DEF vars, Joining, Serving
<1> QED
  BY <1>1, <1>4, <1>5, <1>6, <1>7, <1>8, <1>9, <1>10, <1>11, <1>12, <1>13, <1>14, <1>15,
     <1>16, <1>17, <1>18
  DEF Next, ClientStep, ListenerStep

-----------------------------------------------------------------------------
(* Both ends of the one connection agree on how far it has come.           *)
LEMMA LinesStep ==
  ASSUME Sync, [Next]_vars
  PROVE  Lines'
<1> USE DEF coms_t, lisVars, clientVars, locals, conn, queries, dirVars, Connect, NextPort,
            Update, Joining
<1>t. /\ lis \in [Server -> {"accept", "send", "offer", "apply"}]
      /\ mail \in [Server -> {"none", "list", "update", "entry", "eof"}]
      /\ version \in [Server -> 0..255] /\ phase \in [Client -> Phases]
      /\ holder \in Client \cup {NoClient} /\ NoClient \notin Client
  BY Constants DEF Sync, TypeOK, Phases
<1>h. Serving => holder \in Client
  BY Situation
<1>l. Serving /\ pos \in {"ack", "applied", "list"} => InContact(Peer) /\ Peer \in Server
  BY Situation DEF Sync, Lines
<1>o. Serving => \A s \in Server : s # Peer => Calm(s)
  <2>1. ASSUME Serving, NEW s \in Server, s # Peer PROVE Calm(s)
    BY <2>1, Listeners DEF InContact, Orphan
  <2> QED BY <2>1
<1>n. (Serving /\ pos \notin {"ack", "applied", "list"}) \/ holder = NoClient =>
        \A s \in Server : Calm(s)
  BY Listeners
<1>q. ASSUME \A s \in Server : Calm(s)', ~Serving' \/ pos' \notin {"ack", "applied", "list"}
      PROVE  Lines'
  BY <1>q DEF Lines
<1>u. ASSUME \A s \in Server : Calm(s), UNCHANGED <<lis, mail>>,
             ~Serving' \/ pos' \notin {"ack", "applied", "list"}
      PROVE  Lines'
  <2>1. \A s \in Server : Calm(s)'
    BY <1>u DEF Calm
  <2> QED BY <1>u, <1>q, <2>1
<1>f. ASSUME Serving' <=> Serving, UNCHANGED <<rotation, holder, view, plan, pos, idx>>,
             UNCHANGED <<reply, open, lis, mail, version, astray>>
      PROVE  Lines'
  <2>1. Lines
    BY DEF Sync
  <2> QED BY <1>f, <2>1 DEF Lines, Calm, InContact, Orphan, At, Peer, Me
<1>c. ASSUME NEW p \in Server, InContact(p)', \A s \in Server : s # p => Calm(s)'
      PROVE  Lines'
  <2>1. p = Peer'
    BY <1>c DEF InContact
  <2> QED BY <1>c, <2>1 DEF Lines
(* the clients, outside the connection *)
<1>1. ASSUME NEW c \in Client, BeginUpdate(c) \/ BeginJoin(c) PROVE Lines'
  <2>1. /\ UNCHANGED <<rotation, holder, view, plan, pos, idx>>
        /\ UNCHANGED <<reply, open, lis, mail, version, astray>> /\ phase[c] = "idle"
        /\ phase' = [phase EXCEPT ![c] = "done"] \/ phase' = [phase EXCEPT ![c] = "waiting"]
    BY <1>1 DEF BeginUpdate, BeginJoin
  <2>2. Serving' <=> Serving
    BY <1>t, <2>1 DEF Serving
  <2> QED BY <1>f, <2>1, <2>2
<1>2. ASSUME NEW c \in Client, Enter(c) PROVE Lines'
  BY <1>u, <1>n, <1>2 DEF Enter, Open
<1>3. CASE SkipServer
  BY <1>u, <1>n, <1>3 DEF SkipServer
<1>4. CASE UpdateOwn
  <2>1. Serving /\ pos = "next" /\ pos' = "finish" /\ UNCHANGED <<lis, mail>>
    BY <1>4 DEF UpdateOwn
  <2> QED BY <1>u, <1>n, <2>1
<1>5. CASE FinishUpdate \/ FinishJoin
  <2>1. Serving /\ pos = "finish" /\ holder' = NoClient /\ UNCHANGED <<lis, mail>>
    BY <1>5 DEF FinishUpdate, FinishJoin, Close
  <2> QED BY <1>u, <1>n, <2>1 DEF Serving
<1>6. CASE NoHosts \/ GoOnline
  <2>1. Serving /\ pos \in {"next", "found"} /\ pos' \in {"next", "finish"}
        /\ UNCHANGED <<lis, mail>>
    BY <1>6 DEF NoHosts, GoOnline
  <2> QED BY <1>u, <1>n, <2>1
(* the clients, in contact with a listener *)
<1>7. CASE ContactServer
  <2>1. /\ Serving' /\ Serving /\ pos = "next" /\ Listed /\ pos' = "ack" /\ UNCHANGED Peer
        /\ lis[Peer] = "accept" /\ UNCHANGED lis /\ reply' = <<>> /\ open' = TRUE
        /\ mail' = [mail EXCEPT ![Peer] = "update"]
    BY <1>7 DEF ContactServer, Serving, Peer
  <2>2. Peer \in Server
    BY <2>1, Situation
  <2>3. InContact(Peer)'
    BY <1>t, <2>1, <2>2 DEF InContact, At
  <2>4. \A s \in Server : s # Peer => Calm(s)'
    BY <1>t, <1>o, <2>1 DEF Calm
  <2> QED BY <1>c, <2>1, <2>2, <2>3, <2>4
<1>8. CASE RequestHosts
  <2>1. /\ Serving' /\ Serving /\ pos = "next" /\ Listed /\ pos' = "list" /\ UNCHANGED Peer
        /\ lis[Peer] = "accept" /\ UNCHANGED lis /\ mail' = [mail EXCEPT ![Peer] = "list"]
    BY <1>8 DEF RequestHosts, Serving, Peer
  <2>2. Peer \in Server
    BY <2>1, Situation
  <2>3. InContact(Peer)'
    BY <1>t, <2>1, <2>2 DEF InContact, At
  <2>4. \A s \in Server : s # Peer => Calm(s)'
    BY <1>t, <1>o, <2>1 DEF Calm
  <2> QED BY <1>c, <2>1, <2>2, <2>3, <2>4
<1>9. CASE AckFresh
  <2>1. /\ Serving /\ pos = "ack" /\ reply # <<>> /\ pos' = "next" /\ UNCHANGED lis
        /\ IF open THEN mail' = [mail EXCEPT ![Peer] = "eof"] ELSE UNCHANGED mail
    BY <1>9 DEF AckFresh
  <2>2. Peer \in Server /\ At(Peer, IF open THEN "offer" ELSE "accept", "none")
    BY <1>l, <2>1 DEF InContact
  <2>3. \A s \in Server : Calm(s)'
    BY <1>t, <1>o, <2>1, <2>2 DEF Calm, At
  <2> QED BY <1>q, <2>1, <2>3
<1>10. CASE AckStale
  <2>1. /\ Serving /\ Serving' /\ pos = "ack" /\ reply # <<>> /\ pos' = "applied"
        /\ UNCHANGED <<lis, open, Peer, Me, version>>
        /\ IF open THEN mail' = [mail EXCEPT ![Peer] = "entry"] ELSE UNCHANGED mail
        /\ astray' = IF open THEN astray ELSE astray \cup {Peer}
    BY <1>10 DEF AckStale, Serving, Peer, Me
  <2>2. Peer \in Server /\ At(Peer, IF open THEN "offer" ELSE "accept", "none")
    BY <1>l, <2>1 DEF InContact
  <2>3. InContact(Peer)'
    BY <1>t, <2>1, <2>2 DEF InContact, At
  <2>4. \A s \in Server : s # Peer => Calm(s)'
    BY <1>t, <1>o, <2>1 DEF Calm
  <2> QED BY <1>c, <2>1, <2>2, <2>3, <2>4
<1>11. CASE AckApplied
  <2>1. Serving /\ pos = "applied" /\ ~open /\ pos' = "next" /\ UNCHANGED <<lis, mail>>
    BY <1>11 DEF AckApplied, PeerClosed
  <2>2. Peer \in Server /\ At(Peer, "accept", "none")
    BY <1>l, <2>1 DEF InContact
  <2>3. \A s \in Server : Calm(s)
    BY <1>o, <2>1, <2>2 DEF Calm, At
  <2> QED BY <1>u, <2>1, <2>3
<1>12. CASE UpdateFails
  <2>1. /\ Serving /\ pos \in {"ack", "applied"}
        /\ phase' = [phase EXCEPT ![holder] = "failed"] /\ UNCHANGED <<rotation, holder, plan>>
        /\ IF lis[Peer] = "apply" \/ ~open THEN UNCHANGED <<lis, mail>>
           ELSE lis' = [lis EXCEPT ![Peer] = "accept"] /\ mail' = [mail EXCEPT ![Peer] = "none"]
    BY <1>12 DEF UpdateFails
  <2>2. ~Serving' /\ Peer \in Server /\ InContact(Peer)
    BY <1>t, <1>h, <1>l, <2>1 DEF Serving
  <2>3. Calm(Peer)' \/ Orphan(Peer)'
    <3>1. CASE lis[Peer] = "apply"
      <4>1. holder \in DOMAIN plan /\ Peer \in ToSet(rotation) /\ mail[Peer] = "none"
        BY <2>2, <3>1, Applying
      <4>2. UNCHANGED Peer
        BY <1>12 DEF UpdateFails, Peer
      <4> QED BY <2>1, <2>2, <3>1, <4>1, <4>2 DEF Orphan, At
    <3>2. CASE lis[Peer] # "apply" /\ ~open
      <4>1. At(Peer, "accept", "none")
        BY <2>1, <2>2, <3>2 DEF InContact
      <4>2. UNCHANGED Peer
        BY <1>12 DEF UpdateFails, Peer
      <4> QED BY <2>1, <3>2, <4>1, <4>2 DEF Calm, At
    <3>3. CASE lis[Peer] # "apply" /\ open
      <4>1. UNCHANGED Peer
        BY <1>12 DEF UpdateFails, Peer
      <4> QED BY <1>t, <2>1, <2>2, <3>3, <4>1 DEF Calm
    <3> QED BY <3>1, <3>2, <3>3
  <2>4. \A s \in Server : s # Peer => Calm(s)'
    BY <1>t, <1>o, <2>1 DEF Calm
  <2>5. UNCHANGED Peer
    BY <1>12 DEF UpdateFails, Peer
  <2> QED BY <2>2, <2>3, <2>4, <2>5 DEF Lines
<1>13. ASSUME NEW d \in Domain, CopyEntry(d) PROVE Lines'
  BY <1>f, <1>13 DEF CopyEntry, Serving
<1>14. CASE CopyVersion \/ VersionLost
  <2>1. /\ Serving /\ pos = "list" /\ lis[Peer] = "send" /\ pos' = "found"
        /\ lis' = [lis EXCEPT ![Peer] = "accept"] /\ UNCHANGED mail
    BY <1>14 DEF CopyVersion, VersionLost
  <2>2. Peer \in Server /\ mail[Peer] = "none"
    BY <1>l, <2>1, Listeners
  <2>3. \A s \in Server : Calm(s)'
    BY <1>t, <1>o, <2>1, <2>2 DEF Calm
  <2> QED BY <1>q, <2>1, <2>3
<1>15. CASE ListFails
  <2>1. /\ Serving /\ pos = "list" /\ pos' = "next"
        /\ lis' = [lis EXCEPT ![Peer] = "accept"] /\ mail' = [mail EXCEPT ![Peer] = "none"]
    BY <1>15 DEF ListFails
  <2>2. \A s \in Server : Calm(s)'
    BY <1>t, <1>o, <2>1 DEF Calm
  <2> QED BY <1>q, <2>1, <2>2
(* the listener of the connection *)
<1>16. ASSUME NEW s \in Server, SendCount(s) PROVE Lines'
  <2>1. /\ At(s, "accept", "list") /\ lis' = [lis EXCEPT ![s] = "send"]
        /\ mail' = [mail EXCEPT ![s] = "none"] /\ UNCHANGED <<Peer, pos, holder, phase>>
    BY <1>16 DEF SendCount, At, Peer
  <2>2. Serving /\ Serving' /\ pos = "list" /\ s = Peer
    BY <2>1, Listeners DEF Serving
  <2>3. InContact(s)'
    BY <1>t, <2>1, <2>2 DEF InContact, At
  <2>4. \A r \in Server : r # s => Calm(r)'
    BY <1>t, <1>o, <2>1, <2>2 DEF Calm
  <2> QED BY <1>c, <2>3, <2>4
<1>17. ASSUME NEW s \in Server, SendVersion(s) PROVE Lines'
  <2>1. /\ At(s, "accept", "update") /\ lis' = [lis EXCEPT ![s] = "offer"]
        /\ mail' = [mail EXCEPT ![s] = "none"] /\ reply' = <<version[s]>>
        /\ UNCHANGED <<Peer, pos, holder, phase, open, version>>
    BY <1>17 DEF SendVersion, At, Peer
  <2>2. Serving /\ Serving' /\ pos = "ack" /\ s = Peer /\ open
    BY <2>1, Listeners DEF Serving
  <2>3. InContact(s)'
    BY <1>t, <2>1, <2>2 DEF InContact, At
  <2>4. \A r \in Server : r # s => Calm(r)'
    BY <1>t, <1>o, <2>1, <2>2 DEF Calm
  <2> QED BY <1>c, <2>3, <2>4
<1>18. ASSUME NEW s \in Server, TakeEntry(s) PROVE Lines'
  <2>1. /\ At(s, "offer", "entry") /\ lis' = [lis EXCEPT ![s] = "apply"]
        /\ mail' = [mail EXCEPT ![s] = "none"]
        /\ UNCHANGED <<Peer, pos, holder, phase, open>>
    BY <1>18 DEF TakeEntry, At, Peer
  <2>2. Serving /\ Serving' /\ pos = "applied" /\ s = Peer /\ open
    BY <2>1, Listeners DEF Serving
  <2>3. InContact(s)'
    BY <1>t, <2>1, <2>2 DEF InContact, At
  <2>4. \A r \in Server : r # s => Calm(r)'
    BY <1>t, <1>o, <2>1, <2>2 DEF Calm
  <2> QED BY <1>c, <2>3, <2>4
<1>19. ASSUME NEW s \in Server, Apply(s) PROVE Lines'
  <2>1. /\ lis[s] = "apply" /\ lis' = [lis EXCEPT ![s] = "accept"] /\ open' = FALSE
        /\ ActuallyUpdate(s) /\ UNCHANGED <<Peer, Me, pos, holder, phase, mail, rotation, plan>>
    BY <1>19 DEF Apply, Peer, Me
  <2>2. mail[s] = "none" /\ holder \in DOMAIN plan
    BY <2>1, Applying
  <2>3. version'[s] = Me.id
    BY <2>1, <2>2, ApplyTypes
  <2>4. CASE Serving
    <3>1. Serving' /\ pos = "applied" /\ s = Peer
      BY <2>1, <2>4, Listeners DEF Serving, Orphan
    <3>2. InContact(s)'
      BY <1>t, <2>1, <2>2, <2>3, <3>1 DEF InContact, At
    <3>3. \A r \in Server : r # s => Calm(r)'
      BY <1>t, <1>o, <2>1, <2>4, <3>1 DEF Calm
    <3> QED BY <1>c, <3>2, <3>3
  <2>5. CASE ~Serving
    <3>1. ~Serving' /\ Calm(s)'
      BY <1>t, <2>1, <2>2, <2>5 DEF Serving, Calm
    <3>2. ASSUME NEW r \in Server, r # s PROVE Calm(r)' \/ Orphan(r)'
      <4>1. Calm(r) \/ Orphan(r)
        BY <2>5, Listeners DEF InContact
      <4> QED BY <1>t, <2>1, <3>1, <3>2, <4>1 DEF Calm, Orphan, At
    <3> QED BY <3>1, <3>2 DEF Lines
  <2> QED BY <2>4, <2>5
<1>20. ASSUME NEW s \in Server, GiveUpEntry(s) PROVE Lines'
  <2>1. /\ At(s, "offer", "eof") /\ lis' = [lis EXCEPT ![s] = "accept"]
        /\ mail' = [mail EXCEPT ![s] = "none"]
        /\ UNCHANGED <<Peer, Me, pos, holder, phase, reply, open, version, astray, rotation, plan>>
    BY <1>20 DEF GiveUpEntry, EndOfStream, At, Peer, Me
  <2>2. Serving' = Serving /\ Calm(s)'
    BY <1>t, <2>1 DEF Serving, Calm
  <2>3. ASSUME NEW r \in Server, r # s
        PROVE  (Calm(r) => Calm(r)') /\ (InContact(r) => InContact(r)') /\ (Orphan(r) => Orphan(r)')
    <3>1. lis'[r] = lis[r] /\ mail'[r] = mail[r]
      BY <1>t, <2>1, <2>3
    <3> QED BY <2>1, <2>2, <3>1 DEF Calm, InContact, Orphan, At
  <2>4. ~InContact(s)
    BY <2>1, Listeners
  <2> QED BY <1>l, <2>1, <2>2, <2>3, <2>4, Listeners DEF Lines
<1>21. ASSUME NEW s \in Server, EntryLate(s) PROVE Lines'
  <2>1. /\ At(s, "offer", "none") /\ lis' = [lis EXCEPT ![s] = "accept"] /\ open' = FALSE
        /\ UNCHANGED <<Peer, pos, holder, phase, mail, reply, version>>
    BY <1>21 DEF EntryLate, At, Peer
  <2>2. Serving /\ Serving' /\ pos = "ack" /\ s = Peer /\ reply = <<version[s]>>
    BY <2>1, Listeners DEF Serving
  <2>3. InContact(s)'
    BY <1>t, <2>1, <2>2 DEF InContact, At
  <2>4. \A r \in Server : r # s => Calm(r)'
    BY <1>t, <1>o, <2>1, <2>2 DEF Calm
  <2> QED BY <1>c, <2>3, <2>4
(* the query thread and the monitor *)
<1>22. ASSUME NEW s \in Server, Fetch(s) PROVE Lines'
  BY <1>f, <1>22 DEF Fetch, Serving
<1>23. ASSUME NEW s \in Server, NEW d \in Asked, Count(s, d) PROVE Lines'
  BY <1>f, <1>23 DEF Count, Serving
<1>24. ASSUME NEW s \in Server, DropServer(s) PROVE Lines'
  <2>1. holder = NoClient /\ holder' = NoClient /\ UNCHANGED <<lis, mail>>
    BY <1>24 DEF DropServer, Drop
  <2> QED BY <1>u, <1>n, <2>1 DEF Serving
<1>25. CASE UNCHANGED vars
  BY <1>f, <1>25 DEF vars, Serving
<1> QED
  BY <1>1, <1>2, <1>3, <1>4, <1>5, <1>6, <1>7, <1>8, <1>9, <1>10, <1>11, <1>12, <1>13,
     <1>14, <1>15, <1>16, <1>17, <1>18, <1>19, <1>20, <1>21, <1>22, <1>23, <1>24, <1>25
  DEF Next, ClientStep, ListenerStep

-----------------------------------------------------------------------------
(* A server that the update has gone past has it, or is accounted for.     *)
LEMMA ProgressStep ==
  ASSUME Sync, [Next]_vars
  PROVE  Progress'
<1> USE DEF coms_t, lisVars, clientVars, locals, conn, queries, dirVars, Connect, NextPort,
            Update, Joining
<1> SUFFICES ASSUME Serving', holder' \in Updaters PROVE Progress'
  BY DEF Progress
<1>0. /\ holder' # NoClient /\ phase'[holder'] = "serving" /\ holder' \in Client
      /\ Updaters \cap Joiners = {}
  BY Constants DEF Serving, Joiners, Updaters
<1>t. /\ version \in [Server -> 0..255] /\ phase \in [Client -> Phases] /\ plan \in Plans
      /\ view \in Seq(Server) /\ idx \in Nat /\ astray \subseteq Server
      /\ holder \in Client \cup {NoClient}
  BY Constants DEF Sync, TypeOK, Phases
<1>g. ASSUME Serving, holder \in Updaters
      PROVE  /\ holder \in DOMAIN plan /\ Me.coms \in Server /\ Len(view) \in Nat
             /\ \A i \in 1..Len(view) : i < idx => Reached(i)
             /\ pos = "finish" => idx > Len(view)
             /\ ~this_stale \/ pos = "finish" => version[Me.coms] = Me.id
  BY <1>g, <1>t, OwnServer DEF Sync, Progress
<1>l. Serving /\ pos \in {"ack", "applied", "list"} => InContact(Peer) /\ Peer \in Server
  BY Situation DEF Sync, Lines
(* An update that goes no further, or past a server that has it.           *)
<1>p. ASSUME Serving, UNCHANGED <<rotation, holder, view, plan, version, this_stale>>,
             pos' # "finish" \/ pos' = pos, idx' = idx \/ (idx' = idx + 1 /\ \A i \in {idx} : Reached(i)'),
             astray \subseteq astray', pos' = "finish" => idx' = idx
      PROVE  Progress'
  <2>1. \A i \in 1..Len(view) : Reached(i) => Reached(i)'
    BY <1>p DEF Reached, Me
  <2>2. UNCHANGED Me /\ holder \in Updaters
    BY <1>p DEF Me
  <2>3. ASSUME NEW i \in 1..Len(view), i < idx' PROVE Reached(i)'
    <3>1. CASE i < idx
      BY <1>p, <1>g, <2>1, <2>2, <3>1
    <3>2. CASE ~(i < idx)
      <4>1. i = idx /\ \A j \in {idx} : Reached(j)'
        BY <1>p, <1>t, <2>3, <3>2
      <4> QED BY <4>1
    <3> QED BY <3>1, <3>2
  <2> QED BY <1>p, <1>g, <2>2, <2>3 DEF Progress
(* An update applied to a server is not undone at another.                 *)
<1>a. ASSUME NEW s \in Server, Serving, holder \in Updaters, ActuallyUpdate(s),
             UNCHANGED <<rotation, holder, view, plan, idx>>
      PROVE  /\ \A i \in 1..Len(view) : i < idx => Reached(i)'
             /\ version'[s] = Me.id /\ \A r \in Server : version[r] = Me.id => version'[r] = Me.id
  <2>1. /\ version'[s] = Me.id /\ \A r \in Server : r # s => version'[r] = version[r]
        /\ astray' = astray \ {s}
    BY <1>a, <1>g, ApplyTypes
  <2>2. \A i \in 1..Len(view) : view[i] \in Server
    BY <1>t
  <2>3. \A i \in 1..Len(view) : Reached(i) => Reached(i)'
    BY <1>a, <2>1, <2>2 DEF Reached, Me
  <2> QED BY <1>a, <1>g, <2>1, <2>3
<1>1. ASSUME NEW c \in Client, BeginUpdate(c) \/ BeginJoin(c) PROVE Progress'
  <2>1. /\ UNCHANGED <<rotation, holder, view, plan, version, this_stale, pos, idx, astray>>
        /\ phase' = [phase EXCEPT ![c] = "done"] \/ phase' = [phase EXCEPT ![c] = "waiting"]
    BY <1>1 DEF BeginUpdate, BeginJoin
  <2>2. Serving
    BY <1>0, <1>t, <2>1 DEF Serving
  <2> QED BY <1>p, <2>1, <2>2
<1>2. ASSUME NEW c \in Client, Enter(c) PROVE Progress'
  <2>1. /\ holder' = c /\ pos' = "next" /\ idx' = 1 /\ UNCHANGED <<plan, version>>
        /\ this_stale' = (c \in Updaters /\ version[plan[c].coms] # plan[c].id)
    BY <1>2 DEF Enter, Open
  <2>2. ~this_stale' => version'[Me'.coms] = Me'.id
    BY <2>1 DEF Me
  <2> QED BY <2>1, <2>2 DEF Progress
<1>3. CASE SkipServer
  <2>1. /\ Serving /\ holder \in Updaters /\ pos = "next" /\ pos' = pos /\ idx' = idx + 1
        /\ Peer = Me.coms \/ version[Peer] = Me.id \/ Peer \in astray'
        /\ astray \subseteq astray'
        /\ UNCHANGED <<rotation, holder, view, plan, version, this_stale>>
    BY <1>3 DEF SkipServer
  <2>2. \A i \in {idx} : Reached(i)'
    BY <2>1 DEF Reached, Me, Peer
  <2> QED BY <1>p, <2>1, <2>2
<1>4. CASE ContactServer
  <2>1. /\ Serving /\ pos' = "ack" /\ idx' = idx
        /\ UNCHANGED <<rotation, holder, view, plan, version, this_stale, astray>>
    BY <1>4 DEF ContactServer
  <2> QED BY <1>p, <2>1
<1>5. CASE AckFresh
  <2>1. /\ Serving /\ pos = "ack" /\ reply = <<Me.id>> /\ pos' = "next" /\ idx' = idx + 1
        /\ UNCHANGED <<rotation, holder, view, plan, version, this_stale, astray>>
    BY <1>5 DEF AckFresh
  <2>2. version[Peer] = Me.id
    BY <1>l, <2>1 DEF InContact
  <2>3. \A i \in {idx} : Reached(i)'
    BY <2>1, <2>2 DEF Reached, Peer, Me
  <2> QED BY <1>p, <2>1, <2>3
<1>6. CASE AckStale
  <2>1. /\ Serving /\ pos' = "applied" /\ idx' = idx /\ astray \subseteq astray'
        /\ UNCHANGED <<rotation, holder, view, plan, version, this_stale>>
    BY <1>6 DEF AckStale
  <2> QED BY <1>p, <2>1
<1>7. CASE AckApplied
  <2>1. /\ Serving /\ pos = "applied" /\ ~open /\ pos' = "next" /\ idx' = idx + 1
        /\ UNCHANGED <<rotation, holder, view, plan, version, this_stale, astray>>
    BY <1>7 DEF AckApplied, PeerClosed
  <2>2. Peer \in astray \/ version[Peer] = Me.id
    BY <1>l, <2>1 DEF InContact
  <2>3. \A i \in {idx} : Reached(i)'
    BY <2>1, <2>2 DEF Reached, Peer, Me
  <2> QED BY <1>p, <2>1, <2>3
<1>8. CASE UpdateOwn
  <2>1. /\ Serving /\ holder \in Updaters /\ ~Listed /\ pos' = "finish"
        /\ UNCHANGED <<rotation, holder, view, plan, idx, this_stale>>
        /\ IF this_stale THEN ActuallyUpdate(Me.coms) ELSE UNCHANGED <<version, astray>>
    BY <1>8 DEF UpdateOwn
  <2>2. idx > Len(view) /\ UNCHANGED Me
    BY <1>g, <1>t, <2>1 DEF Listed, Me
  <2>3. (\A i \in 1..Len(view) : i < idx => Reached(i)') /\ version'[Me.coms] = Me.id
    <3>1. CASE this_stale
      BY <1>a, <1>g, <2>1, <3>1
    <3>2. CASE ~this_stale
      <4>1. \A i \in 1..Len(view) : Reached(i) => Reached(i)'
        BY <2>1, <3>2 DEF Reached, Me
      <4>2. version' = version
        BY <2>1, <3>2
      <4> QED BY <1>g, <2>1, <3>2, <4>1, <4>2
    <3> QED BY <3>1, <3>2
  <2> QED BY <2>1, <2>2, <2>3 DEF Progress
<1>9. CASE FinishUpdate \/ FinishJoin
  BY <1>0, <1>9 DEF FinishUpdate, FinishJoin, Close
<1>10. CASE UpdateFails \/ NoHosts
  <2>1. phase' = [phase EXCEPT ![holder] = "failed"] /\ UNCHANGED holder
    BY <1>10 DEF UpdateFails, NoHosts
  <2> QED BY <1>0, <1>t, <2>1
<1>11. CASE RequestHosts \/ CopyVersion \/ VersionLost \/ ListFails \/ GoOnline
  <2>1. holder' = holder /\ holder \in Joiners
    BY <1>11 DEF RequestHosts, CopyVersion, VersionLost, ListFails, GoOnline, Join
  <2> QED BY <1>0, <2>1
<1>12. ASSUME NEW d \in Domain, CopyEntry(d) PROVE Progress'
  BY <1>0, <1>12 DEF CopyEntry
<1>13. ASSUME NEW s \in Server,
              SendCount(s) \/ SendVersion(s) \/ TakeEntry(s) \/ GiveUpEntry(s) \/ EntryLate(s)
       PROVE  Progress'
  <2>1. UNCHANGED <<rotation, holder, view, plan, version, this_stale, pos, idx, astray, phase>>
    BY <1>13 DEF SendCount, SendVersion, TakeEntry, GiveUpEntry, EntryLate
  <2> QED BY <1>0, <1>p, <2>1 DEF Serving
<1>14. ASSUME NEW s \in Server, Apply(s) PROVE Progress'
  <2>1. /\ ActuallyUpdate(s)
        /\ UNCHANGED <<rotation, holder, view, plan, this_stale, pos, idx, phase>>
    BY <1>14 DEF Apply
  <2>2. Serving /\ holder \in Updaters /\ UNCHANGED Me
    BY <1>0, <2>1 DEF Serving, Me
  <2> QED BY <1>a, <1>g, <2>1, <2>2 DEF Progress
<1>15. ASSUME NEW s \in Server, Fetch(s) PROVE Progress'
  <2>1. UNCHANGED <<rotation, holder, view, plan, version, this_stale, pos, idx, astray, phase>>
    BY <1>15 DEF Fetch
  <2> QED BY <1>0, <1>p, <2>1 DEF Serving
<1>16. ASSUME NEW s \in Server, NEW d \in Asked, Count(s, d) PROVE Progress'
  <2>1. UNCHANGED <<rotation, holder, view, plan, version, this_stale, pos, idx, astray, phase>>
    BY <1>16 DEF Count
  <2> QED BY <1>0, <1>p, <2>1 DEF Serving
<1>17. ASSUME NEW s \in Server, DropServer(s) PROVE Progress'
  BY <1>0, <1>17 DEF DropServer, Drop
<1>18. CASE UNCHANGED vars
  <2>1. UNCHANGED <<rotation, holder, view, plan, version, this_stale, pos, idx, astray, phase>>
    BY <1>18 DEF vars
  <2> QED BY <1>0, <1>p, <2>1 DEF Serving
<1> QED
  BY <1>1, <1>2, <1>3, <1>4, <1>5, <1>6, <1>7, <1>8, <1>9, <1>10, <1>11, <1>12, <1>13,
     <1>14, <1>15, <1>16, <1>17, <1>18
  DEF Next, ClientStep, ListenerStep

-----------------------------------------------------------------------------
THEOREM SyncInvariant == Spec => []Sync
<1>1. Init => Sync
  BY SyncInit
<1>2. Sync /\ [Next]_vars => Sync'
  BY TypesStep, NewcomersStep, SessionStep, LinesStep, CopiedStep, AllMarkedStep, ProgressStep
  DEF Sync
<1> QED BY <1>1, <1>2, PTL DEF Spec

(* The types of the protocol's state, for every plan and every fault.      *)
THEOREM HostTypes == Spec => []TypeOK
<1>1. Sync => TypeOK
  BY DEF Sync
<1> QED BY <1>1, SyncInvariant, PTL

(* coms.cc has no lock on the table: an update thread that writes it finds *)
(* the server's listener neither sending nor changing it.                  *)
THEOREM UpdaterWritesAlone == Spec => []WriterAlone
<1>1. Sync => WriterAlone
  <2> SUFFICES ASSUME Sync, Update("next")
               PROVE  /\ lis[Me.coms] \notin {"send", "apply"}
                      /\ ~(lis[Me.coms] = "offer" /\ mail[Me.coms] = "entry")
    BY DEF WriterAlone
  <2>1. Serving /\ pos = "next" /\ Me.coms \in Server
    BY OwnServer DEF Update
  <2>2. Calm(Me.coms)
    BY <2>1, Listeners
  <2> QED BY <2>2 DEF Calm
<1> QED BY <1>1, SyncInvariant, PTL

(* update_hosts: what the closed connections acknowledge is true.          *)
THEOREM UpdatesReachRotation == Spec => []UpdateReachesRotation
<1>1. Sync => UpdateReachesRotation
  <2> SUFFICES ASSUME Sync, Update("finish") PROVE UpdateReachesRotation
    BY DEF UpdateReachesRotation
  <2>1. /\ Serving /\ pos = "finish" /\ holder \in DOMAIN plan
        /\ Me.coms \in Server /\ Me.coms \notin Joiners /\ holder \in Updaters
    BY OwnServer DEF Update
  <2>2. /\ view = rotation /\ idx > Len(view) /\ idx \in Nat /\ Len(view) \in Nat
        /\ version[Me.coms] = Me.id /\ \A i \in 1..Len(view) : i < idx => Reached(i)
    BY <2>1, Situation DEF Sync, Session, Progress
  <2>3. ASSUME NEW s \in Server, version[s] = Me.id, s \notin astray \cap Joiners PROVE Has(s)
    <3>1. Marked(s)
      BY <2>3 DEF Sync, AllMarked
    <3>2. table[s][Me.domain] \in Target(Me)
      BY <2>1, <2>3, <3>1 DEF Marked, Me
    <3> QED BY <2>3, <3>2 DEF Has, Target
  <2>4. Has(Me.coms)
    BY <2>1, <2>2, <2>3
  <2>5. ASSUME NEW i \in 1..Len(rotation)
        PROVE  \/ rotation[i] = Me.own \/ i - 1 = Me.fail
               \/ rotation[i] \in astray \/ Has(rotation[i])
    <3>1. Reached(i)
      BY <2>2, <2>5
    <3>2. rotation[i] \in Server
      BY <2>5 DEF Sync, TypeOK
    <3> QED BY <2>2, <2>3, <3>1, <3>2 DEF Reached
  <2> QED BY <2>4, <2>5 DEF UpdateReachesRotation
<1> QED BY <1>1, SyncInvariant, PTL
=============================================================================
