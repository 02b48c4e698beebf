------------------------- MODULE HostOutcomeProofs --------------------------
(***************************************************************************)
(* What comes of HostSync's updates.  Between sessions the servers agree,  *)
(* whatever the order of updates, newcomers, failures, queries and         *)
(* removals.  The test that repairs an update (add_hosts_fail_wrapper)     *)
(* tells which server had missed it, for any number of servers.  And two   *)
(* claims of the source hold as long as no server leaves, and no domain.   *)
(***************************************************************************)
EXTENDS HostSyncProofs

(* A server whose table is complete: it was there from the start, or has   *)
(* copied all of another's.                                                *)
Settled(s) == ~Outside(s) \/ (s = holder /\ pos = "found")

(* Such a server has what hosts.txt says but where an update changed it,   *)
(* and everywhere while its version is no update's.                        *)
Ids == {plan[c].id : c \in DOMAIN plan}
Touched(d) == \E c \in DOMAIN plan : plan[c].domain = d
Baseline(s) ==
  /\ \A d \in Domain : Touched(d) \/ SameEntry(table[s][d], HostsFile[d])
  /\ s \notin astray \cap Joiners /\ version[s] \notin Ids => SameTable(table[s], HostsFile)
Baselines == \A s \in Server : Settled(s) => Baseline(s)

(* The file that a server has written says what its table says.            *)
Written ==
  \A s \in Server : file[s] # <<>> => ~Outside(s) /\ SameTable(table[s], file[s][1])

(* Outside of updates the servers have one version, which is a newcomer's. *)
Common ==
  /\ holder = NoClient \/ (Serving /\ holder \in Joiners) =>
       \A s, t \in ToSet(rotation) \ astray : version[s] = version[t]
  /\ Joining("found") /\ holder \notin astray =>
       \A s \in ToSet(rotation) \ astray : version[s] = version[holder]

Accord == Sync /\ Baselines /\ Written /\ Common

-----------------------------------------------------------------------------
(* Entries that count as the same.                                         *)
LEMMA SameTransitive ==
  ASSUME NEW a, NEW b, NEW c, SameEntry(a, b), SameEntry(b, c)
  PROVE  SameEntry(a, c) /\ SameEntry(b, a)
BY DEF SameEntry

LEMMA SameTables ==
  ASSUME NEW f, NEW g, NEW h, SameTable(f, g), SameTable(g, h)
  PROVE  SameTable(f, h) /\ SameTable(g, f)
BY SameTransitive DEF SameTable

LEMMA TargetsAgree ==
  ASSUME NEW u, NEW a \in Target(u), NEW b \in Target(u)
  PROVE  SameEntry(a, b)
BY DEF Target, SameEntry

-----------------------------------------------------------------------------
LEMMA AccordInit == Init => Accord
<1> SUFFICES ASSUME Init PROVE Accord
  OBVIOUS
<1>1. Sync
  BY SyncInit
<1>2. Baselines
  <2> SUFFICES ASSUME NEW s \in Server, Settled(s) PROVE Baseline(s)
    BY DEF Baselines
  <2>1. s \notin Joiners
    BY Constants DEF Settled, Outside, Init
  <2>2. table[s] = HostsFile
    BY <2>1 DEF Init
  <2> QED BY <2>2 DEF Baseline, SameTable, SameEntry
<1>3. Written
  BY DEF Init, Written
<1>4. Common
  <2>1. \A s \in ToSet(rotation) : version[s] = 0
    BY Constants DEF Init
  <2> QED BY <2>1 DEF Init, Common, Joining, Serving
<1> QED BY <1>1, <1>2, <1>3, <1>4 DEF Accord

(* A table is complete from the moment the version is copied.              *)
LEMMA SettledStep ==
  ASSUME Sync, [Next]_vars, NEW s \in Server, Settled(s)'
  PROVE  Settled(s) \/ (s = holder /\ (CopyVersion \/ VersionLost))
<1> USE DEF coms_t, lisVars, clientVars, locals, conn, queries, dirVars, Connect, NextPort,
            Update, Joining
<1> DEFINE Goal == Settled(s) \/ (s = holder /\ (CopyVersion \/ VersionLost))
<1>0. Updaters \cap Joiners = {} /\ Joiners \subseteq Client
  BY Constants DEF Joiners, Updaters
<1>t. phase \in [Client -> Phases]
  BY DEF Sync, TypeOK, Phases
<1>p. ASSUME s \in Joiners => phase'[s] = phase[s] \/ phase'[s] # "done",
             (s = holder' /\ pos' \in {"found", "finish"} /\ s \in Joiners) =>
               s = holder /\ pos \in {"found", "finish"}
      PROVE  Goal
  BY <1>p DEF Settled, Outside
<1>u. ASSUME UNCHANGED <<holder, pos>>, s \in Joiners => phase'[s] = phase[s] \/ phase'[s] # "done"
      PROVE  Goal
  BY <1>u, <1>p
<1>1. ASSUME NEW c \in Client, BeginUpdate(c) PROVE Goal
  <2>1. /\ c \in DOMAIN plan /\ UNCHANGED <<holder, pos>>
        /\ phase' = [phase EXCEPT ![c] = "done"] \/ phase' = [phase EXCEPT ![c] = "waiting"]
    BY <1>1 DEF BeginUpdate
  <2>2. c \in Updaters
    BY <2>1, RunningUpdate DEF Sync, TypeOK
  <2>3. s \in Joiners => phase'[s] = phase[s]
    BY <1>0, <1>t, <2>1, <2>2
  <2> QED BY <1>u, <2>1, <2>3
<1>2. ASSUME NEW c \in Client, BeginJoin(c) PROVE Goal
  BY <1>0, <1>t, <1>u, <1>2 DEF BeginJoin
<1>3. ASSUME NEW c \in Client, Enter(c) PROVE Goal
  <2>1. pos' = "next" /\ phase' = [phase EXCEPT ![c] = "serving"]
    BY <1>3 DEF Enter
  <2>2. s \in Joiners => phase'[s] = phase[s] \/ phase'[s] # "done"
    BY <1>0, <1>t, <2>1
  <2> QED BY <1>p, <2>1, <2>2
<1>4. CASE SkipServer \/ ContactServer \/ AckFresh \/ AckStale \/ AckApplied
  <2>1. UNCHANGED phase /\ pos' \notin {"found", "finish"}
    BY <1>4 DEF SkipServer, ContactServer, AckFresh, AckStale, AckApplied
  <2> QED BY <1>p, <2>1
<1>5. CASE UpdateOwn
  <2>1. UNCHANGED <<phase, holder>> /\ holder \in Updaters
    BY <1>5 DEF UpdateOwn
  <2> QED BY <1>0, <1>p, <2>1
<1>6. CASE FinishUpdate
  <2>1. /\ holder \in Updaters /\ UNCHANGED pos /\ holder' = NoClient
        /\ phase' = [phase EXCEPT ![holder] = "done"]
    BY <1>6 DEF FinishUpdate, Close
  <2>2. s \in Joiners => phase'[s] = phase[s] /\ s # holder'
    BY <1>0, <1>t, <2>1, Constants
  <2> QED BY <1>p, <2>1, <2>2
<1>7. CASE FinishJoin
  <2>1. /\ holder \in Joiners /\ pos = "finish" /\ holder' = NoClient
        /\ phase' = [phase EXCEPT ![holder] = "done"]
    BY <1>7 DEF FinishJoin, Close
  <2>2. CASE s = holder
    BY <2>1, <2>2 DEF Settled, Outside
  <2>3. CASE s # holder
    <3>1. s \in Joiners => phase'[s] = phase[s] /\ s # holder'
      BY <1>0, <1>t, <2>1, <2>3, Constants
    <3> QED BY <1>p, <3>1
  <2> QED BY <2>2, <2>3
<1>8. CASE UpdateFails \/ NoHosts
  <2>1. UNCHANGED <<holder, pos>> /\ phase' = [phase EXCEPT ![holder] = "failed"]
    BY <1>8 DEF UpdateFails, NoHosts
  <2>2. s \in Joiners => phase'[s] = phase[s] \/ phase'[s] # "done"
    BY <1>0, <1>t, <2>1
  <2> QED BY <1>u, <2>1, <2>2
<1>9. CASE RequestHosts \/ ListFails
  <2>1. UNCHANGED phase /\ pos' \notin {"found", "finish"}
    BY <1>9 DEF RequestHosts, ListFails
  <2> QED BY <1>p, <2>1
<1>10. CASE CopyVersion \/ VersionLost
  <2>1. UNCHANGED <<phase, holder>>
    BY <1>10 DEF CopyVersion, VersionLost
  <2>2. CASE s = holder
    BY <1>10, <2>2
  <2>3. CASE s # holder
    BY <1>p, <2>1, <2>3
  <2> QED BY <2>2, <2>3
<1>11. CASE GoOnline
  <2>1. UNCHANGED <<phase, holder>> /\ pos = "found"
    BY <1>11 DEF GoOnline, Join
  <2> QED BY <1>p, <2>1
<1>12. ASSUME NEW d \in Domain, CopyEntry(d) PROVE Goal
  BY <1>u, <1>12 DEF CopyEntry
<1>13. ASSUME NEW r \in Server, ListenerStep(r) \/ EntryLate(r) \/ Fetch(r) \/ DropServer(r) PROVE Goal
  BY <1>u, <1>13
  DEF ListenerStep, SendCount, SendVersion, TakeEntry, Apply, GiveUpEntry, EntryLate, Fetch,
      DropServer, Drop
<1>14. ASSUME NEW r \in Server, NEW d \in Asked, Count(r, d) PROVE Goal
  BY <1>u, <1>14 DEF Count
<1>15. CASE UNCHANGED vars
  BY <1>u, <1>15 DEF vars
<1> QED
  BY <1>1, <1>2, <1>3, <1>4, <1>5, <1>6, <1>7, <1>8, <1>9, <1>10, <1>11, <1>12, <1>13, <1>14, <1>15
  DEF Next, ClientStep

-----------------------------------------------------------------------------
(* The entries of every complete table keep to hosts.txt and the updates.  *)
LEMMA BaselinesStep ==
  ASSUME Accord, [Next]_vars
  PROVE  Baselines'
<1> USE DEF coms_t, lisVars, clientVars, locals, conn, queries, dirVars, Connect, NextPort,
            Update, Joining
<1> SUFFICES ASSUME NEW s \in Server, Settled(s)' PROVE Baseline(s)'
  BY DEF Baselines
<1>0. Sync
  BY DEF Accord
<1>s. Settled(s) => Baseline(s)
  BY DEF Accord, Baselines
<1>w. Settled(s) \/ (s = holder /\ (CopyVersion \/ VersionLost))
  BY <1>0, SettledStep
<1>t. /\ table \in [Server -> [Domain -> Address]] /\ version \in [Server -> 0..255]
      /\ plan \in Plans /\ astray \subseteq Server /\ HostsFile \in [Domain -> Address]
  BY Constants DEF Accord, Sync, TypeOK
<1>p. ASSUME Settled(s), UNCHANGED plan, version'[s] = version[s], table'[s] = table[s],
             s \in astray => s \in astray'
      PROVE  Baseline(s)'
  BY <1>s, <1>p DEF Baseline, Touched, Ids, SameTable
<1>j. ASSUME Joining("next") \/ Joining("list"), s = holder PROVE ~Settled(s)
  BY <1>j DEF Settled, Outside, Serving
<1>a. ASSUME NEW r \in Server, holder \in DOMAIN plan, ActuallyUpdate(r), UNCHANGED plan, Settled(s)
      PROVE  Baseline(s)'
  <2>1. CASE r = s
    <3>1. /\ version'[s] = Me.id /\ table'[s] = Changed(table[s], Me)
      BY <1>0, <1>a, <2>1, ApplyTypes
    <3>2. Me.id \in Ids /\ Touched(Me.domain)
      BY <1>a DEF Ids, Touched, Me
    <3>3. \A d \in Domain : d # Me.domain => table'[s][d] = table[s][d]
      BY <1>t, <3>1 DEF Changed
    <3>4. \A d \in Domain : Touched(d) \/ SameEntry(table'[s][d], HostsFile[d])
      BY <1>a, <1>s, <3>2, <3>3 DEF Baseline
    <3> QED BY <1>a, <3>1, <3>2, <3>4 DEF Baseline, Touched, Ids
  <2>2. CASE r # s
    <3>1. version'[s] = version[s] /\ table'[s] = table[s] /\ astray' = astray \ {r}
      BY <1>0, <1>a, <2>2, ApplyTypes
    <3> QED BY <1>a, <1>p, <2>2, <3>1
  <2> QED BY <2>1, <2>2
<1>1. ASSUME NEW c \in Client, BeginUpdate(c) \/ BeginJoin(c) \/ Enter(c) PROVE Baseline(s)'
  <2>1. UNCHANGED <<plan, version, table, astray>> /\ ~(CopyVersion \/ VersionLost)
    BY <1>1 DEF BeginUpdate, BeginJoin, Enter, CopyVersion, VersionLost
  <2> QED BY <1>p, <1>w, <2>1
<1>2. CASE FinishUpdate \/ FinishJoin \/ UpdateFails \/ NoHosts \/ GoOnline
  <2>1. UNCHANGED <<plan, version, table, astray, lis>> \/ UpdateFails
    BY <1>2 DEF FinishUpdate, FinishJoin, NoHosts, GoOnline
  <2>2. UNCHANGED <<plan, version, table, astray>>
    BY <1>2 DEF FinishUpdate, FinishJoin, UpdateFails, NoHosts, GoOnline
  <2>3. pos = pos' \/ pos' = "finish"
    BY <1>2 DEF FinishUpdate, FinishJoin, UpdateFails, NoHosts, GoOnline
  <2>4. ~(CopyVersion \/ VersionLost)
    BY <2>3 DEF CopyVersion, VersionLost
  <2> QED BY <1>p, <1>w, <2>2, <2>4
<1>3. CASE SkipServer \/ ContactServer \/ AckFresh \/ AckStale \/ AckApplied \/ ListFails
  <2>1. UNCHANGED <<plan, version, table>> /\ astray \subseteq astray' /\ pos' # "found"
    BY <1>3 DEF SkipServer, ContactServer, AckFresh, AckStale, AckApplied, ListFails
  <2>2. ~(CopyVersion \/ VersionLost)
    BY <2>1 DEF CopyVersion, VersionLost
  <2> QED BY <1>p, <1>w, <2>1, <2>2
<1>4. CASE UpdateOwn
  <2>1. /\ UNCHANGED plan /\ Serving /\ holder \in Updaters /\ pos' = "finish"
        /\ ActuallyUpdate(Me.coms) \/ UNCHANGED <<coms_t, astray>>
    BY <1>4 DEF UpdateOwn
  <2>2. holder \in DOMAIN plan /\ Me.coms \in Server
    BY <1>0, <2>1, OwnServer
  <2>3. Settled(s)
    BY <1>w, <2>1 DEF CopyVersion, VersionLost
  <2> QED BY <1>a, <1>p, <2>1, <2>2, <2>3
<1>5. CASE RequestHosts
  <2>1. /\ table' = [table EXCEPT ![holder] = NoTable] /\ UNCHANGED <<plan, version, astray>>
        /\ Joining("next") /\ pos' = "list"
    BY <1>5 DEF RequestHosts
  <2>2. Settled(s)
    BY <1>w, <2>1 DEF CopyVersion, VersionLost
  <2>3. s # holder
    BY <1>j, <2>1, <2>2
  <2> QED BY <1>t, <1>p, <2>1, <2>2, <2>3
<1>6. ASSUME NEW d \in Domain, CopyEntry(d) PROVE Baseline(s)'
  <2>1. /\ table' = [table EXCEPT ![holder][d] = table[Peer][d]]
        /\ UNCHANGED <<plan, version, astray, pos>> /\ Joining("list")
    BY <1>6 DEF CopyEntry
  <2>2. Settled(s)
    BY <1>w, <2>1 DEF CopyVersion, VersionLost
  <2>3. s # holder
    BY <1>j, <2>1, <2>2
  <2> QED BY <1>t, <1>p, <2>1, <2>2, <2>3
<1>7. CASE CopyVersion \/ VersionLost
  <2>1. /\ Joining("list") /\ lis[Peer] = "send" /\ left[Peer] = {} /\ UNCHANGED <<plan, table>>
        /\ \E v : version' = [version EXCEPT ![holder] = v]
        /\ astray \subseteq astray'
    BY <1>7 DEF CopyVersion, VersionLost
  <2>2. holder \in Server /\ Peer \in Server /\ Peer # holder /\ Peer \in ToSet(rotation)
        /\ holder \in Joiners
    BY <1>0, <2>1, Situation, Arriving
  <2>3. CASE s # holder
    <3>1. Settled(s)
      BY <1>w, <2>3
    <3> QED BY <1>t, <1>p, <2>1, <2>3, <3>1
  <2>4. CASE s = holder
    <3>1. SameTable(table[s], table[Peer])
      <4>1. Copied
        BY <1>0 DEF Sync
      <4>2. \A d \in Domain : \/ table[holder][d] = table[Peer][d]
                              \/ table[holder][d] = Absent /\ table[Peer][d] = Empty
        BY <2>1, <4>1 DEF Copied
      <4> QED BY <2>4, <4>2 DEF SameTable, SameEntry
    <3>2. Baseline(Peer)
      <4>1. ~Outside(Peer)
        BY <1>0, <2>2 DEF Sync, Newcomers
      <4> QED BY <2>2, <4>1 DEF Accord, Baselines, Settled
    <3>3. \A d \in Domain : Touched(d) \/ SameEntry(table[s][d], HostsFile[d])
      BY <3>1, <3>2, SameTransitive DEF Baseline, SameTable
    <3>4. ASSUME s \notin (astray \cap Joiners)', version'[s] \notin Ids
          PROVE  SameTable(table[s], HostsFile)
      <4>1. CASE VersionLost
        <5>1. astray' = astray \cup {holder}
          BY <4>1 DEF VersionLost
        <5> QED BY <2>2, <2>4, <3>4, <5>1
      <4>2. CASE CopyVersion
        <5>1. /\ version' = [version EXCEPT ![holder] = version[Peer]]
              /\ astray' = IF Peer \in astray THEN astray \cup {holder} ELSE astray
          BY <4>2 DEF CopyVersion, HandedVersion
        <5>2. Peer \notin astray /\ version'[s] = version[Peer]
          BY <1>t, <2>2, <2>4, <3>4, <5>1
        <5>3. SameTable(table[Peer], HostsFile)
          BY <3>2, <3>4, <5>2 DEF Baseline
        <5> QED BY <3>1, <5>3, SameTables
      <4> QED BY <1>7, <4>1, <4>2
    <3> QED BY <2>1, <3>3, <3>4 DEF Baseline, Touched, Ids, SameTable
  <2> QED BY <2>3, <2>4
<1>8. ASSUME NEW r \in Server, DropServer(r) PROVE Baseline(s)'
  <2>1. UNCHANGED <<plan, version, table, astray, pos>>
    BY <1>8 DEF DropServer
  <2> QED BY <1>p, <1>w, <2>1 DEF CopyVersion, VersionLost
<1>9. ASSUME NEW r \in Server,
             SendCount(r) \/ SendVersion(r) \/ TakeEntry(r) \/ GiveUpEntry(r) \/ EntryLate(r)
      PROVE  Baseline(s)'
  <2>1. UNCHANGED <<plan, version, table, astray, pos>>
    BY <1>9 DEF SendCount, SendVersion, TakeEntry, GiveUpEntry, EntryLate
  <2> QED BY <1>p, <1>w, <2>1 DEF CopyVersion, VersionLost
<1>10. ASSUME NEW r \in Server, Apply(r) PROVE Baseline(s)'
  <2>1. lis[r] = "apply" /\ ActuallyUpdate(r) /\ UNCHANGED <<plan, pos>>
    BY <1>10 DEF Apply
  <2>2. holder \in DOMAIN plan
    BY <1>0, <2>1, Applying
  <2>3. Settled(s)
    BY <1>w, <2>1 DEF CopyVersion, VersionLost
  <2> QED BY <1>a, <2>1, <2>2, <2>3
<1>11. ASSUME NEW r \in Server, Fetch(r) PROVE Baseline(s)'
  <2>1. /\ UNCHANGED <<plan, version, astray, pos>>
        /\ \/ UNCHANGED table
           \/ /\ table[r][lookup[r][1]] \in {Absent, Empty}
              /\ table' = [table EXCEPT ![r][lookup[r][1]] = Empty]
    BY <1>11 DEF Fetch
  <2>2. lookup[r][1] \in Domain
    BY <1>11, Constants DEF Fetch, Accord, Sync, TypeOK
  <2>3. Settled(s)
    BY <1>w, <2>1 DEF CopyVersion, VersionLost
  <2>4. SameTable(table'[s], table[s])
    BY <1>t, <2>1, <2>2 DEF SameTable, SameEntry
  <2>5. \A d \in Domain : Touched(d) \/ SameEntry(table'[s][d], HostsFile[d])
    BY <1>s, <2>3, <2>4, SameTransitive DEF Baseline, SameTable
  <2>6. ASSUME s \notin astray \cap Joiners, version[s] \notin Ids
        PROVE  SameTable(table'[s], HostsFile)
    <3>1. SameTable(table[s], HostsFile)
      BY <1>s, <2>3, <2>6 DEF Baseline
    <3> QED BY <2>4, <3>1, SameTables
  <2> QED BY <2>1, <2>5, <2>6 DEF Baseline, Touched, Ids, SameTable
<1>12. ASSUME NEW r \in Server, NEW d \in Asked, Count(r, d) PROVE Baseline(s)'
  <2>1. UNCHANGED <<plan, version, table, astray, pos>>
    BY <1>12 DEF Count
  <2> QED BY <1>p, <1>w, <2>1 DEF CopyVersion, VersionLost
<1>13. CASE UNCHANGED vars
  <2>1. UNCHANGED <<plan, version, table, astray, pos>>
    BY <1>13 DEF vars
  <2> QED BY <1>p, <1>w, <2>1 DEF CopyVersion, VersionLost
<1> QED
  BY <1>1, <1>2, <1>3, <1>4, <1>5, <1>6, <1>7, <1>8, <1>9, <1>10, <1>11, <1>12, <1>13
  DEF Next, ClientStep, ListenerStep

-----------------------------------------------------------------------------
(* A server's file is written with its table, and only a query changes the *)
(* table afterwards: an entry that was not there becomes an empty one.     *)
LEMMA WrittenStep ==
  ASSUME Accord, [Next]_vars
  PROVE  Written'
<1> USE DEF coms_t, lisVars, clientVars, locals, conn, queries, dirVars, Connect, NextPort,
            Update, Joining
<1> SUFFICES ASSUME NEW s \in Server, file'[s] # <<>>
             PROVE  ~Outside(s)' /\ SameTable(table'[s], file'[s][1])
  BY DEF Written, SameTable
<1> DEFINE Goal == ~Outside(s)' /\ SameTable(table'[s], file'[s][1])
<1>0. Sync
  BY DEF Accord
<1>o. ~Outside(s) => ~Outside(s)'
  BY <1>0, OutsideStep
<1>w. file[s] # <<>> => ~Outside(s) /\ SameTable(table[s], file[s][1])
  BY DEF Accord, Written
<1>t. /\ table \in [Server -> [Domain -> Address]] /\ DOMAIN file = Server
      /\ plan \in Plans
  BY DEF Accord, Sync, TypeOK
<1>p. ASSUME file'[s] = file[s], ~Outside(s) => table'[s] = table[s] PROVE Goal
  BY <1>o, <1>w, <1>p
<1>a. ASSUME NEW r \in Server, holder \in DOMAIN plan, ActuallyUpdate(r), ~Outside(r)
      PROVE  Goal
  <2>1. /\ \A q \in Server : q # r => table'[q] = table[q]
        /\ file' = [file EXCEPT ![r] = <<table'[r]>>]
    BY <1>0, <1>a, ApplyTypes DEF ActuallyUpdate
  <2>2. CASE r = s
    <3>1. file'[s][1] = table'[s]
      BY <1>t, <2>1, <2>2
    <3> QED BY <1>o, <1>a, <2>2, <3>1 DEF SameTable, SameEntry
  <2>3. CASE r # s
    BY <1>t, <1>p, <2>1, <2>3
  <2> QED BY <2>2, <2>3
<1>1. ASSUME NEW c \in Client, BeginUpdate(c) \/ BeginJoin(c) \/ Enter(c) PROVE Goal
  BY <1>p, <1>1 DEF BeginUpdate, BeginJoin, Enter
<1>2. CASE FinishUpdate \/ FinishJoin \/ UpdateFails \/ NoHosts \/ GoOnline \/ ListFails
  BY <1>p, <1>2 DEF FinishUpdate, FinishJoin, UpdateFails, NoHosts, GoOnline, ListFails
<1>3. CASE SkipServer \/ ContactServer \/ AckFresh \/ AckStale \/ AckApplied
  BY <1>p, <1>3 DEF SkipServer, ContactServer, AckFresh, AckStale, AckApplied
<1>4. CASE UpdateOwn
  <2>1. /\ Serving /\ holder \in Updaters
        /\ ActuallyUpdate(Me.coms) \/ UNCHANGED <<table, file>>
    BY <1>4 DEF UpdateOwn
  <2>2. holder \in DOMAIN plan /\ Me.coms \in Server /\ ~Outside(Me.coms)
    BY <1>0, <2>1, OwnServer DEF Outside
  <2> QED BY <1>a, <1>p, <2>1, <2>2
<1>5. ASSUME Joining("next") \/ Joining("list"), UNCHANGED file,
             NEW f, table' = [table EXCEPT ![holder] = f]
      PROVE  Goal
  <2>1. Outside(holder)
    BY <1>0, <1>5, Arriving DEF Outside, Serving
  <2> QED BY <1>t, <1>5, <1>p, <2>1
<1>q. CASE RequestHosts
  BY <1>5, <1>q DEF RequestHosts
<1>e. ASSUME NEW d \in Domain, CopyEntry(d) PROVE Goal
  <2>1. table' = [table EXCEPT ![holder] = [table[holder] EXCEPT ![d] = table[Peer][d]]]
    BY <1>e DEF CopyEntry
  <2> QED BY <1>5, <1>e, <2>1 DEF CopyEntry
<1>6. CASE CopyVersion \/ VersionLost
  BY <1>p, <1>6 DEF CopyVersion, VersionLost
<1>7. ASSUME NEW r \in Server, DropServer(r) PROVE Goal
  BY <1>p, <1>7 DEF DropServer
<1>8. ASSUME NEW r \in Server,
             SendCount(r) \/ SendVersion(r) \/ TakeEntry(r) \/ GiveUpEntry(r) \/ EntryLate(r)
      PROVE  Goal
  BY <1>p, <1>8 DEF SendCount, SendVersion, TakeEntry, GiveUpEntry, EntryLate
<1>9. ASSUME NEW r \in Server, Apply(r) PROVE Goal
  <2>1. lis[r] = "apply" /\ ActuallyUpdate(r)
    BY <1>9 DEF Apply
  <2>2. holder \in DOMAIN plan /\ r \in ToSet(rotation)
    BY <1>0, <2>1, Applying
  <2>3. ~Outside(r)
    BY <1>0, <2>2 DEF Sync, Newcomers
  <2> QED BY <1>a, <2>1, <2>2, <2>3
<1>10. ASSUME NEW r \in Server, Fetch(r) PROVE Goal
  <2>1. /\ UNCHANGED file
        /\ \/ UNCHANGED table
           \/ /\ table[r][lookup[r][1]] \in {Absent, Empty}
              /\ table' = [table EXCEPT ![r][lookup[r][1]] = Empty]
    BY <1>10 DEF Fetch
  <2>2. lookup[r][1] \in Domain
    BY <1>10, Constants DEF Fetch, Accord, Sync, TypeOK
  <2>3. SameTable(table'[s], table[s])
    BY <1>t, <2>1, <2>2 DEF SameTable, SameEntry
  <2>4. ~Outside(s)' /\ SameTable(table[s], file'[s][1])
    BY <1>o, <1>w, <2>1
  <2> QED BY <2>3, <2>4, SameTables
<1>11. ASSUME NEW r \in Server, NEW d \in Asked, Count(r, d) PROVE Goal
  BY <1>p, <1>11 DEF Count
<1>12. CASE UNCHANGED vars
  BY <1>p, <1>12 DEF vars
<1> QED
  BY <1>1, <1>2, <1>3, <1>4, <1>q, <1>e, <1>6, <1>7, <1>8, <1>9, <1>10, <1>11, <1>12
  DEF Next, ClientStep, ListenerStep

-----------------------------------------------------------------------------
(* Updates give one version to all they reach, and newcomers copy it.      *)
LEMMA CommonStep ==
  ASSUME Accord, [Next]_vars
  PROVE  Common'
<1> USE DEF coms_t, lisVars, clientVars, locals, conn, queries, dirVars, Connect, NextPort,
            Update
<1> DEFINE Quiet == holder = NoClient \/ (Serving /\ holder \in Joiners)
           Same == \A s, t \in ToSet(rotation) \ astray : version[s] = version[t]
           Handed == \A s \in ToSet(rotation) \ astray : version[s] = version[holder]
<1>0. Sync
  BY DEF Accord
<1>c. (Quiet => Same) /\ (Joining("found") /\ holder \notin astray => Handed)
  BY DEF Accord, Common
<1>t. /\ version \in [Server -> 0..255] /\ phase \in [Client -> Phases] /\ plan \in Plans
      /\ rotation \in Seq(Server) /\ astray \subseteq Server /\ ToSet(rotation) \subseteq Server
      /\ Updaters \cap Joiners = {} /\ NoClient \notin Client /\ holder \in Client \cup {NoClient}
      /\ Joiners \subseteq Client /\ Updaters \subseteq Client
  <2>1. /\ version \in [Server -> 0..255] /\ phase \in [Client -> Phases] /\ plan \in Plans
        /\ rotation \in Seq(Server) /\ astray \subseteq Server
        /\ holder \in Client \cup {NoClient}
    BY <1>0 DEF Sync, TypeOK, Phases
  <2>2. ToSet(rotation) \subseteq Server
    BY <2>1 DEF ToSet
  <2> QED BY <2>1, <2>2, Constants DEF Joiners, Updaters
<1>h. Serving => holder \in Client /\ phase[holder] = "serving"
  BY <1>0, Situation DEF Serving
(* Steps that leave rotation and versions alone.                           *)
<1>p. ASSUME UNCHANGED <<rotation, version>>, astray \subseteq astray',
             Quiet' => Quiet, Joining("found")' => Joining("found") /\ UNCHANGED holder
      PROVE  Common'
  <2>1. Same => Same'
    BY <1>p
  <2>2. Joining("found")' /\ holder' \notin astray' => Handed'
    BY <1>c, <1>p
  <2> QED BY <1>c, <1>p, <2>1, <2>2 DEF Common
<1>k. ASSUME UNCHANGED <<holder, pos>>, holder # NoClient => phase'[holder] = phase[holder]
      PROVE  (Quiet' <=> Quiet) /\ (Joining("found")' <=> Joining("found"))
  BY <1>k DEF Joining, Serving
<1>u. ASSUME Serving, holder \in Updaters, UNCHANGED <<phase, holder>> PROVE Common'
  <2>1. ~Quiet' /\ ~Joining("found")'
    BY <1>t, <1>h, <1>u DEF Joining, Serving
  <2> QED BY <2>1 DEF Common
<1>f. ASSUME Serving, UNCHANGED holder, phase' = [phase EXCEPT ![holder] = "failed"] PROVE Common'
  <2>1. ~Quiet' /\ ~Joining("found")'
    BY <1>t, <1>h, <1>f DEF Joining, Serving
  <2> QED BY <2>1 DEF Common
<1>1. ASSUME NEW c \in Client, BeginUpdate(c) \/ BeginJoin(c) PROVE Common'
  <2>1. /\ UNCHANGED <<rotation, version, astray, holder, pos>> /\ phase[c] = "idle"
        /\ phase' = [phase EXCEPT ![c] = "done"] \/ phase' = [phase EXCEPT ![c] = "waiting"]
    BY <1>1 DEF BeginUpdate, BeginJoin
  <2>2. holder \in Client => c # holder
    BY <1>0, <2>1 DEF Sync, Session
  <2>3. holder # NoClient => phase'[holder] = phase[holder]
    BY <1>t, <2>1, <2>2
  <2> QED BY <1>p, <1>k, <2>1, <2>3
<1>2. ASSUME NEW c \in Client, Enter(c) PROVE Common'
  <2>1. UNCHANGED <<rotation, version, astray>> /\ holder = NoClient /\ pos' = "next"
    BY <1>2 DEF Enter, Open
  <2> QED BY <1>p, <2>1 DEF Joining
<1>3. CASE SkipServer \/ ContactServer \/ AckFresh \/ AckStale \/ AckApplied
  BY <1>u, <1>3 DEF SkipServer, ContactServer, AckFresh, AckStale, AckApplied
<1>4. CASE UpdateOwn
  <2>1. Serving /\ holder \in Updaters /\ UNCHANGED <<phase, holder>>
    BY <1>4 DEF UpdateOwn
  <2> QED BY <1>u, <2>1
(* The end of an update: all of the rotation was listed and passed.        *)
<1>5. CASE FinishUpdate
  <2>1. /\ Serving /\ holder \in Updaters /\ pos = "finish" /\ holder' = NoClient
        /\ UNCHANGED <<rotation, version, astray>>
    BY <1>5 DEF FinishUpdate, Close
  <2>2. /\ view = rotation /\ idx > Len(view) /\ idx \in Nat /\ Len(view) \in Nat
        /\ version[Me.coms] = Me.id /\ \A i \in 1..Len(view) : i < idx => Reached(i)
    BY <1>0, <2>1, Situation DEF Sync, Session, Progress
  <2>3. ASSUME NEW s \in ToSet(rotation) \ astray PROVE version[s] = Me.id
    <3>1. PICK i \in 1..Len(view) : view[i] = s
      BY <2>2 DEF ToSet
    <3>2. Reached(i)
      BY <2>2, <3>1
    <3> QED BY <2>2, <2>3, <3>1, <3>2 DEF Reached
  <2>4. Same'
    BY <2>1, <2>3
  <2>5. ~Joining("found")'
    BY <2>1 DEF Joining, Serving
  <2> QED BY <2>4, <2>5 DEF Common
<1>6. CASE FinishJoin
  <2>1. Quiet /\ holder' = NoClient /\ UNCHANGED <<rotation, version, astray>>
    BY <1>6 DEF FinishJoin, Close, Joining
  <2> QED BY <1>p, <2>1 DEF Joining, Serving
<1>7. CASE UpdateFails \/ NoHosts
  BY <1>f, <1>7 DEF UpdateFails, NoHosts, Joining
(* A newcomer's session.                                                   *)
<1>8. CASE RequestHosts \/ ListFails
  <2>1. UNCHANGED <<rotation, version, astray, holder, phase>> /\ pos' \in {"list", "next"}
    BY <1>8 DEF RequestHosts, ListFails
  <2> QED BY <1>p, <2>1 DEF Joining, Serving
<1>9. ASSUME NEW d \in Domain, CopyEntry(d) PROVE Common'
  <2>1. UNCHANGED <<rotation, version, astray, holder, phase, pos>>
    BY <1>9 DEF CopyEntry
  <2> QED BY <1>p, <1>k, <2>1
<1>v. ASSUME Joining("list"), UNCHANGED <<rotation, holder, phase>>,
             NEW v, version' = [version EXCEPT ![holder] = v],
             \/ Peer \in astray /\ astray' = astray \cup {holder}
             \/ astray' = astray \cup {holder}
             \/ Peer \notin astray /\ v = version[Peer] /\ astray' = astray
      PROVE  Common'
  <2>1. /\ Quiet /\ holder \in Server /\ holder \notin ToSet(rotation)
        /\ Peer \in ToSet(rotation) /\ Peer \in Server
    BY <1>0, <1>v, Arriving, Situation DEF Joining
  <2>2. /\ version'[holder] = v /\ \A s \in ToSet(rotation) : version'[s] = version[s]
        /\ astray \subseteq astray'
    BY <1>t, <1>v, <2>1
  <2>3. Same'
    BY <1>c, <1>v, <2>1, <2>2
  <2>4. holder' \notin astray' => Handed'
    BY <1>c, <1>v, <2>1, <2>2
  <2> QED BY <2>3, <2>4 DEF Common
<1>10. CASE CopyVersion
  <2>1. /\ Joining("list") /\ UNCHANGED <<rotation, holder, phase>>
        /\ version' = [version EXCEPT ![holder] = version[Peer]]
        /\ astray' = IF Peer \in astray THEN astray \cup {holder} ELSE astray
    BY <1>10 DEF CopyVersion, HandedVersion
  <2> QED BY <1>v, <2>1
<1>11. CASE VersionLost
  <2>1. /\ Joining("list") /\ UNCHANGED <<rotation, holder, phase>>
        /\ \E v : version' = [version EXCEPT ![holder] = v]
        /\ astray' = astray \cup {holder}
    BY <1>11 DEF VersionLost
  <2> QED BY <1>v, <2>1
<1>12. CASE GoOnline
  <2>1. /\ Joining("found") /\ rotation' = Append(rotation, holder) /\ pos' = "finish"
        /\ UNCHANGED <<version, astray, holder, phase>>
    BY <1>12 DEF GoOnline, Join, Put
  <2>2. Quiet
    BY <2>1 DEF Joining
  <2>3. \A s \in ToSet(rotation') : s = holder \/ s \in ToSet(rotation)
    BY <1>t, <2>1 DEF ToSet
  <2>4. Same'
    BY <1>c, <2>1, <2>2, <2>3
  <2>5. ~Joining("found")'
    BY <2>1 DEF Joining
  <2> QED BY <2>4, <2>5 DEF Common
(* The listeners, the queries and the monitor.                             *)
<1>13. ASSUME NEW r \in Server,
              SendCount(r) \/ SendVersion(r) \/ TakeEntry(r) \/ GiveUpEntry(r) \/ EntryLate(r)
       PROVE  Common'
  <2>1. UNCHANGED <<rotation, version, astray, holder, phase, pos>>
    BY <1>13 DEF SendCount, SendVersion, TakeEntry, GiveUpEntry, EntryLate
  <2> QED BY <1>p, <1>k, <2>1
<1>14. ASSUME NEW r \in Server, Apply(r) PROVE Common'
  <2>1. lis[r] = "apply" /\ UNCHANGED <<holder, phase, pos>>
    BY <1>14 DEF Apply
  <2>2. holder \in DOMAIN plan
    BY <1>0, <2>1, Applying
  <2>3. holder \in Updaters
    BY <1>t, <2>2, RunningUpdate
  <2>4. ~Quiet' /\ ~Joining("found")'
    BY <1>t, <2>1, <2>3 DEF Joining
  <2> QED BY <2>4 DEF Common
<1>15. ASSUME NEW r \in Server, Fetch(r) \/ \E d \in Asked : Count(r, d) PROVE Common'
  <2>1. UNCHANGED <<rotation, version, astray, holder, phase, pos>>
    BY <1>15 DEF Fetch, Count
  <2> QED BY <1>p, <1>k, <2>1
<1>16. ASSUME NEW r \in Server, DropServer(r) PROVE Common'
  <2>1. /\ holder = NoClient /\ rotation' = RemoveFirst(rotation, r) /\ Contains(rotation, r)
        /\ UNCHANGED <<version, astray, holder>> /\ IsInjective(rotation)
    BY <1>0, <1>t, <1>16 DEF DropServer, Drop, ToSet, Contains, Sync, Session
  <2>2. \A i \in 1..Len(rotation') : Contains(rotation, rotation'[i])
    BY <1>t, <2>1, RemoveFirstProperties
  <2>3. rotation' \in Seq(Server)
    BY <1>t, <2>1, RemoveFirstProperties
  <2>4. ToSet(rotation') \subseteq ToSet(rotation)
    BY <1>t, <2>2, <2>3 DEF ToSet, Contains
  <2>5. Same'
    BY <1>c, <2>1, <2>4
  <2> QED BY <2>1, <2>5 DEF Common, Joining, Serving
<1>17. CASE UNCHANGED vars
  <2>1. UNCHANGED <<rotation, version, astray, holder, phase, pos>>
    BY <1>17 DEF vars
  <2> QED BY <1>p, <1>k, <2>1
<1> QED
  BY <1>1, <1>2, <1>3, <1>4, <1>5, <1>6, <1>7, <1>8, <1>9, <1>10, <1>11, <1>12, <1>13, <1>14,
     <1>15, <1>16, <1>17
  DEF Next, ClientStep, ListenerStep

-----------------------------------------------------------------------------
LEMMA AccordInvariant == Spec => []Accord
<1>1. Init => Accord
  BY AccordInit
<1>2. Accord /\ [Next]_vars => Accord'
  <2> SUFFICES ASSUME Accord, [Next]_vars PROVE Accord'
    OBVIOUS
  <2>1. Sync'
    BY TypesStep, NewcomersStep, SessionStep, LinesStep, CopiedStep, AllMarkedStep, ProgressStep
    DEF Accord, Sync
  <2> QED BY <2>1, BaselinesStep, WrittenStep, CommonStep DEF Accord
<1> QED BY <1>1, <1>2, PTL DEF Spec

(* "Update the host file and propogate to other servers" (coms.h): while   *)
(* no client is in session, the servers of the rotation that no update has *)
(* passed over or missed have one version, the same hosts, and files that  *)
(* say the same, for any plan of the generator's kind.  With updates of    *)
(* several domains (OneDomain) it would not: a server that missed the      *)
(* first and is sent the second counts as up to date.                      *)
THEOREM ServersAgree == Spec => []Agreement
<1>1. Accord => Agreement
  <2> SUFFICES ASSUME Accord, holder = NoClient, NEW s \in ToSet(rotation) \ astray,
                      NEW t \in ToSet(rotation) \ astray
               PROVE  Agree(s, t)
    BY DEF Agreement
  <2>1. /\ s \in Server /\ t \in Server /\ plan \in Plans /\ Sync
        /\ table \in [Server -> [Domain -> Address]]
    <3>1. Sync /\ TypeOK
      BY DEF Accord, Sync
    <3>2. plan \in Plans /\ table \in [Server -> [Domain -> Address]] /\ rotation \in Seq(Server)
      BY <3>1 DEF TypeOK
    <3>3. ToSet(rotation) \subseteq Server
      BY <3>2 DEF ToSet
    <3> QED BY <3>1, <3>2, <3>3
  <2>2. ~Outside(s) /\ ~Outside(t)
    BY <2>1 DEF Sync, Newcomers
  <2>3. version[s] = version[t]
    BY DEF Accord, Common
  <2>4. Baseline(s) /\ Baseline(t)
    BY <2>1, <2>2 DEF Accord, Baselines, Settled
  <2>5. SameTable(table[s], table[t])
    <3>1. CASE version[s] \notin Ids
      <4>1. SameTable(table[s], HostsFile) /\ SameTable(table[t], HostsFile)
        BY <2>3, <2>4, <3>1 DEF Baseline
      <4> QED BY <4>1 DEF SameTable, SameEntry
    <3>2. CASE version[s] \in Ids
      <4>1. PICK c \in DOMAIN plan : version[s] = plan[c].id
        BY <3>2 DEF Ids
      <4>2. Marked(s) /\ Marked(t)
        BY <2>1 DEF Sync, AllMarked
      <4>3. SameEntry(table[s][plan[c].domain], table[t][plan[c].domain])
        BY <2>3, <4>1, <4>2, TargetsAgree DEF Marked
      <4>4. ASSUME NEW d \in Domain, d # plan[c].domain PROVE SameEntry(table[s][d], table[t][d])
        <5>1. ~Touched(d)
          BY <2>1, <4>4, OneDomain DEF Touched
        <5>2. SameEntry(table[s][d], HostsFile[d]) /\ SameEntry(table[t][d], HostsFile[d])
          BY <2>4, <5>1 DEF Baseline
        <5> QED BY <5>2 DEF SameEntry
      <4> QED BY <4>3, <4>4 DEF SameTable
    <3> QED BY <3>1, <3>2
  <2>6. ASSUME file[t] # <<>> PROVE SameTable(table[s], file[t][1])
    <3>1. SameTable(table[t], file[t][1])
      BY <2>1, <2>6 DEF Accord, Written
    <3> QED BY <2>5, <3>1, SameTables
  <2> QED BY <2>3, <2>5, <2>6 DEF Agree
<1> QED BY <1>1, AccordInvariant, PTL

-----------------------------------------------------------------------------
(* The test -f (add_hosts_fail_wrapper): one update passes over a server   *)
(* of the test's choice, its caller is paused and may be removed, and the  *)
(* same update is sent again by the second server.  Two servers are too    *)
(* few to tell that it was the second that missed it: no other could say   *)
(* that the update had reached it.                                         *)
IsRepair(p, b, c) ==
  /\ DOMAIN p = {b, c} /\ b # c /\ p[c].id = p[b].id /\ Len(Initial) >= 2
  /\ p[b].coms = Initial[1] /\ p[b].own = Initial[1] /\ p[b].after = {} /\ p[b].pause
  /\ p[c].coms = Initial[2] /\ p[c].own = Initial[1] /\ p[c].after = {b} /\ ~p[c].pause
  /\ p[b].fail \in -1..(Len(Initial) - 1) /\ p[c].fail = 0
  /\ p[b].fail = 1 => Len(Initial) >= 3

(* No receive times out between an answer and its update, or before the    *)
(* version of a copied table, and the monitor removes paused servers only. *)
Undisturbed == Unlucky = {} /\ Faults \subseteq {"list", "update"}

(* A server that is asked for its version is one not to be passed over,    *)
(* and has the update when it closes the connection.                       *)
Prompt ==
  Serving /\ pos \in {"ack", "applied"} =>
    ~Skipped /\ (open \/ (pos = "applied" /\ version[Peer] = Me.id))

(* The second update begins when the first has returned.                   *)
Calls(b, c) ==
  /\ phase[c] # "idle" => phase[b] \in {"done", "failed"}
  /\ phase[c] \in {"serving", "done", "failed"} => phase[b] = "done"
  /\ phase[b] \in {"waiting", "serving", "failed"} => plan[b].fail # -1

(* The rotation begins with the first servers, or all but the paused one.  *)
Intact ==
  Len(Initial) <= Len(rotation) /\ \A i \in 1..Len(Initial) : rotation[i] = Initial[i]
Beheaded ==
  /\ Initial[1] \notin ToSet(rotation) /\ Len(Initial) - 1 <= Len(rotation)
  /\ \A i \in 2..Len(Initial) : rotation[i - 1] = Initial[i]
Shape(b) == Intact \/ (phase[b] = "done" /\ Beheaded)

(* Who has the update before the first, in between and during each.        *)
NoneYet(b, c) ==
  (\/ phase[b] \in {"idle", "waiting"}
   \/ phase[b] = "done" /\ plan[b].fail = -1 /\ phase[c] \in {"idle", "waiting"}) =>
    \A s \in Server : version[s] = 0
AllButOne(b, c) ==
  phase[b] = "done" /\ plan[b].fail # -1 /\ phase[c] \in {"idle", "waiting"} =>
    /\ \A i \in 1..Len(Initial) :
         version[Initial[i]] = IF i > 1 /\ i - 1 = plan[b].fail THEN 0 ELSE plan[b].id
    /\ plan[b].fail = 0 =>
         /\ \A s \in ToSet(rotation) : version[s] = plan[b].id
         /\ Joining("found") => version[holder] = plan[b].id
FirstCall(b) ==
  Serving /\ holder = b =>
    /\ \A i \in 1..Len(Initial) : i > 1 /\ i - 1 = plan[b].fail => version[Initial[i]] = 0
    /\ \A i \in 1..Len(view) :
         i < idx => i = 1 \/ i - 1 = plan[b].fail \/ version[view[i]] = plan[b].id

(* What the second has learnt from the versions it was told.               *)
Told(i) == i < idx \/ (i = idx /\ pos = "applied")
SecondCall(b, c) ==
  Serving /\ holder = c =>
    /\ this_stale <=> plan[b].fail \in {-1, 1}
    /\ plan[b].fail = -1 =>
         /\ ~some_fresh
         /\ \A i \in 1..Len(view) : Told(i) \/ version[view[i]] = 0
    /\ plan[b].fail = 0 =>
         /\ ~some_stale
         /\ \A i \in 1..Len(view) : version[view[i]] = plan[b].id
    /\ plan[b].fail = 1 =>
         /\ version[Initial[3]] = plan[b].id
         /\ \A i \in 1..Len(view) : view[i] = Initial[3] /\ Told(i) => some_fresh
    /\ plan[b].fail > 1 =>
         \A i \in 1..Len(view) : view[i] = Initial[plan[b].fail + 1] =>
           IF Told(i) THEN some_stale ELSE version[view[i]] = 0
Verdict(b, c) ==
  phase[c] = "done" => Answer(result[c][1], plan[b].fail) = plan[b].fail

Repair(b, c) ==
  /\ Calls(b, c) /\ Shape(b) /\ NoneYet(b, c) /\ AllButOne(b, c)
  /\ FirstCall(b) /\ SecondCall(b, c) /\ Verdict(b, c)
Repairs == \A b, c \in Client : IsRepair(plan, b, c) => Repair(b, c)

LEMMA RepairPlan ==
  ASSUME Sync, NEW b, NEW c, IsRepair(plan, b, c)
  PROVE  /\ b \in Updaters /\ c \in Updaters /\ b \in Client /\ c \in Client
         /\ b \notin Joiners /\ c \notin Joiners
         /\ plan[b].id # 0 /\ plan[b].fail \in Int /\ Len(Initial) \in Nat /\ Len(Initial) >= 2
         /\ \A i \in 1..Len(Initial) : Initial[i] \in Server /\ Initial[i] \notin Joiners
         /\ \A i, j \in 1..Len(Initial) : Initial[i] = Initial[j] => i = j
         /\ Serving /\ holder \in Updaters => holder \in {b, c}
<1>1. plan \in Plans /\ DOMAIN plan = {b, c} /\ Len(Initial) >= 2
  BY DEF Sync, TypeOK, IsRepair
<1>2. b \in Updaters /\ c \in Updaters /\ plan[b].id # 0
  BY <1>1, RunningUpdate
<1>3. Len(Initial) \in Nat /\ Initial \in Seq(Server)
  BY Constants
<1>4. plan[b].fail \in Int
  BY <1>3 DEF IsRepair
<1>5. \A i \in 1..Len(Initial) : Initial[i] \in Server /\ Initial[i] \notin Joiners
  <2>1. \A i \in 1..Len(Initial) : Initial[i] \in ToSet(Initial)
    BY DEF ToSet
  <2> QED BY <2>1, Constants
<1>6. \A i, j \in 1..Len(Initial) : Initial[i] = Initial[j] => i = j
  BY <1>3, Constants DEF IsInjective
<1>7. Serving /\ holder \in Updaters => holder \in {b, c}
  BY <1>1, Situation
<1> QED BY <1>1, <1>2, <1>3, <1>4, <1>5, <1>6, <1>7, Constants DEF Joiners, Updaters

(* The steps that matter to an update's outcome.                           *)
Still == UNCHANGED <<dirVars, plan, version, clientVars, locals, open>>

LEMMA StepKinds ==
  ASSUME Undisturbed, [Next]_vars
  PROVE  \/ Still
         \/ \E x \in Client : BeginUpdate(x) \/ BeginJoin(x) \/ Enter(x)
         \/ SkipServer \/ ContactServer \/ AckFresh \/ AckStale \/ AckApplied
         \/ UpdateFails \/ UpdateOwn \/ FinishUpdate
         \/ RequestHosts \/ CopyVersion \/ ListFails \/ GoOnline \/ FinishJoin \/ NoHosts
         \/ \E s \in Server : Apply(s) \/ DropServer(s)
<1> USE DEF coms_t, lisVars, clientVars, locals, conn, queries, dirVars
<1>1. ASSUME NEW s \in Server,
             SendCount(s) \/ SendVersion(s) \/ TakeEntry(s) \/ GiveUpEntry(s) \/ Fetch(s)
      PROVE  Still
  BY <1>1 DEF Still, SendCount, SendVersion, TakeEntry, GiveUpEntry, Fetch
<1>2. ASSUME NEW s \in Server, NEW d \in Asked, Count(s, d) PROVE Still
  BY <1>2 DEF Still, Count
<1>3. ASSUME NEW d \in Domain, CopyEntry(d) PROVE Still
  BY <1>3 DEF Still, CopyEntry
<1>4. UNCHANGED vars => Still
  BY DEF Still, vars
<1>5. ~VersionLost /\ \A s \in Server : ~EntryLate(s)
  BY DEF Undisturbed, VersionLost, EntryLate
<1> QED BY <1>1, <1>2, <1>3, <1>4, <1>5 DEF Next, ClientStep, ListenerStep

LEMMA PromptStep ==
  ASSUME Sync, Prompt, Undisturbed, [Next]_vars
  PROVE  Prompt'
<1> USE DEF coms_t, lisVars, clientVars, locals, conn, queries, dirVars, Connect, NextPort,
            Update, Joining
<1>t. /\ phase \in [Client -> Phases] /\ version \in [Server -> 0..255]
      /\ holder \in Client \cup {NoClient}
  BY DEF Sync, TypeOK, Phases
<1>f. ASSUME Serving' => Serving, UNCHANGED <<holder, view, plan, idx, pos, open, version>>
      PROVE  Prompt'
  <2>1. (Skipped' <=> Skipped) /\ UNCHANGED <<Peer, Me>>
    BY <1>f DEF Skipped, Peer, Me
  <2> QED BY <1>f, <2>1 DEF Prompt
<1>q. ASSUME pos' \notin {"ack", "applied"} \/ ~Serving' PROVE Prompt'
  BY <1>q DEF Prompt
<1>1. CASE Still
  BY <1>1, <1>f DEF Still, Serving
<1>2. ASSUME NEW x \in Client, BeginUpdate(x) \/ BeginJoin(x) PROVE Prompt'
  <2>1. /\ UNCHANGED <<holder, view, plan, idx, pos, open, version>>
        /\ phase' = [phase EXCEPT ![x] = "done"] \/ phase' = [phase EXCEPT ![x] = "waiting"]
    BY <1>2 DEF BeginUpdate, BeginJoin
  <2>2. Serving' => Serving
    BY <1>t, <2>1 DEF Serving
  <2> QED BY <1>f, <2>1, <2>2
<1>3. ASSUME NEW x \in Client, Enter(x) PROVE Prompt'
  BY <1>3, <1>q DEF Enter
<1>4. CASE SkipServer \/ AckFresh \/ AckApplied
  BY <1>4, <1>q DEF SkipServer, AckFresh, AckApplied
<1>5. CASE ContactServer
  <2>1. /\ ~Skipped /\ open' = TRUE /\ UNCHANGED <<view, plan, holder, idx>>
    BY <1>5 DEF ContactServer
  <2> QED BY <2>1 DEF Prompt, Skipped, Me
<1>6. CASE AckStale
  <2>1. /\ Serving /\ pos = "ack" /\ UNCHANGED <<view, plan, holder, idx, open>>
    BY <1>6 DEF AckStale
  <2> QED BY <2>1 DEF Prompt, Skipped, Me
<1>7. CASE UpdateFails \/ NoHosts \/ FinishUpdate \/ FinishJoin
  <2>1. /\ Serving
        /\ holder' = NoClient \/ UNCHANGED holder
        /\ phase' = [phase EXCEPT ![holder] = "failed"] \/ phase' = [phase EXCEPT ![holder] = "done"]
    BY <1>7 DEF UpdateFails, NoHosts, FinishUpdate, FinishJoin, Close
  <2>2. ~Serving'
    BY <1>t, <2>1, Situation DEF Serving
  <2> QED BY <1>q, <2>2
<1>8. CASE UpdateOwn
  <2>1. pos' = "finish"
    BY <1>8 DEF UpdateOwn
  <2> QED BY <1>q, <2>1
<1>9. CASE RequestHosts \/ CopyVersion \/ ListFails \/ GoOnline
  BY <1>9, <1>q DEF RequestHosts, CopyVersion, ListFails, GoOnline
<1>10. ASSUME NEW s \in Server, Apply(s) PROVE Prompt'
  <2>1. lis[s] = "apply" /\ ActuallyUpdate(s) /\ UNCHANGED <<holder, phase, view, plan, idx, pos>>
    BY <1>10 DEF Apply
  <2>2. holder \in DOMAIN plan /\ UNCHANGED <<Peer, Me>> /\ (Skipped' <=> Skipped)
    BY <2>1, Applying DEF Peer, Me, Skipped
  <2>3. version'[s] = Me.id
    BY <2>1, <2>2, ApplyTypes
  <2>4. CASE Serving
    <3>1. pos = "applied" /\ s = Peer
      BY <2>1, <2>4, Listeners DEF Orphan
    <3> QED BY <2>1, <2>2, <2>3, <2>4, <3>1 DEF Prompt
  <2>5. CASE ~Serving
    BY <2>1, <2>5, <1>q DEF Serving
  <2> QED BY <2>4, <2>5
<1>11. ASSUME NEW s \in Server, DropServer(s) PROVE Prompt'
  BY <1>11, <1>q DEF DropServer, Drop, Serving
<1> QED
  BY <1>1, <1>2, <1>3, <1>4, <1>5, <1>6, <1>7, <1>8, <1>9, <1>10, <1>11, StepKinds

-----------------------------------------------------------------------------
(* Which step takes a client to its next phase.                            *)
LEMMA PhaseStep ==
  ASSUME Sync, Undisturbed, [Next]_vars, NEW x \in Client
  PROVE  \/ phase'[x] = phase[x]
         \/ BeginUpdate(x) /\ phase[x] = "idle" /\ x \in DOMAIN plan /\ phase'[x] \in {"done", "waiting"}
         \/ BeginJoin(x) /\ x \in Joiners
         \/ Enter(x) /\ phase[x] = "waiting" /\ phase'[x] = "serving"
         \/ /\ x = holder /\ phase[x] = "serving"
            /\ \/ (FinishUpdate \/ FinishJoin) /\ phase'[x] = "done"
               \/ (UpdateFails \/ NoHosts) /\ phase'[x] = "failed"
<1>t. phase \in [Client -> Phases]
  BY DEF Sync, TypeOK, Phases
<1> DEFINE Goal ==
         \/ phase'[x] = phase[x]
         \/ BeginUpdate(x) /\ phase[x] = "idle" /\ x \in DOMAIN plan /\ phase'[x] \in {"done", "waiting"}
         \/ BeginJoin(x) /\ x \in Joiners
         \/ Enter(x) /\ phase[x] = "waiting" /\ phase'[x] = "serving"
         \/ /\ x = holder /\ phase[x] = "serving"
            /\ \/ (FinishUpdate \/ FinishJoin) /\ phase'[x] = "done"
               \/ (UpdateFails \/ NoHosts) /\ phase'[x] = "failed"
<1>1. CASE UNCHANGED phase
  BY <1>1
<1>2. ASSUME NEW y \in Client, BeginUpdate(y) PROVE Goal
  <2>1. /\ y \in DOMAIN plan /\ phase[y] = "idle"
        /\ phase' = [phase EXCEPT ![y] = "done"] \/ phase' = [phase EXCEPT ![y] = "waiting"]
    BY <1>2 DEF BeginUpdate
  <2>2. CASE y = x
    BY <1>t, <1>2, <2>1, <2>2
  <2>3. CASE y # x
    BY <1>t, <2>1, <2>3
  <2> QED BY <2>2, <2>3
<1>3. ASSUME NEW y \in Client, BeginJoin(y) PROVE Goal
  BY <1>t, <1>3 DEF BeginJoin
<1>4. ASSUME NEW y \in Client, Enter(y) PROVE Goal
  <2>1. phase[y] = "waiting" /\ phase' = [phase EXCEPT ![y] = "serving"]
    BY <1>4 DEF Enter
  <2>2. CASE y = x
    BY <1>t, <1>4, <2>1, <2>2
  <2>3. CASE y # x
    BY <1>t, <2>1, <2>3
  <2> QED BY <2>2, <2>3
<1>5. CASE FinishUpdate \/ FinishJoin \/ UpdateFails \/ NoHosts
  <2>1. /\ Serving
        /\ \/ (FinishUpdate \/ FinishJoin) /\ phase' = [phase EXCEPT ![holder] = "done"]
           \/ (UpdateFails \/ NoHosts) /\ phase' = [phase EXCEPT ![holder] = "failed"]
    BY <1>5 DEF FinishUpdate, FinishJoin, UpdateFails, NoHosts, Update, Joining
  <2>2. CASE x = holder
    BY <1>t, <2>1, <2>2 DEF Serving
  <2>3. CASE x # holder
    BY <1>t, <2>1, <2>3
  <2> QED BY <2>2, <2>3
<1>6. CASE Still \/ SkipServer \/ ContactServer \/ AckFresh \/ AckStale \/ AckApplied \/ UpdateOwn
  <2>1. UNCHANGED phase
    <3>1. UpdateOwn => UNCHANGED phase
      BY DEF UpdateOwn, clientVars
    <3> QED BY <1>6, <3>1 DEF Still, SkipServer, ContactServer, AckFresh, AckStale, AckApplied, clientVars
  <2> QED BY <1>1, <2>1
<1>7. CASE RequestHosts \/ CopyVersion \/ ListFails \/ GoOnline
  <2>1. UNCHANGED phase
    BY <1>7 DEF RequestHosts, CopyVersion, ListFails, GoOnline, clientVars
  <2> QED BY <1>1, <2>1
<1>8. ASSUME NEW s \in Server, Apply(s) \/ DropServer(s) PROVE Goal
  <2>1. UNCHANGED phase
    BY <1>8 DEF Apply, DropServer, clientVars
  <2> QED BY <1>1, <2>1
<1> QED
  BY <1>2, <1>3, <1>4, <1>5, <1>6, <1>7, <1>8, StepKinds

LEMMA CallsStep ==
  ASSUME Sync, Undisturbed, [Next]_vars, NEW b \in Client, NEW c \in Client,
         IsRepair(plan, b, c), Calls(b, c)
  PROVE  Calls(b, c)' /\ (phase[b] = "done" => phase'[b] = "done")
<1>1. b \notin Joiners /\ c \notin Joiners /\ b # c /\ plan[c].after = {b} /\ plan[c].fail = 0
  BY RepairPlan DEF IsRepair
<1>2. UNCHANGED plan
  BY StepKinds
  DEF Still, BeginUpdate, BeginJoin, Enter, SkipServer, ContactServer, AckFresh, AckStale,
      AckApplied, UpdateFails, UpdateOwn, FinishUpdate, RequestHosts, CopyVersion, ListFails,
      GoOnline, FinishJoin, NoHosts, Apply, DropServer
<1>3. \A x \in Client : x = holder <=> phase[x] \in {"serving", "failed"}
  BY DEF Sync, Session
<1>h. /\ Enter(b) \/ Enter(c) => holder = NoClient
      /\ NoClient \notin Client
  BY Constants DEF Enter, Open
<1>u. /\ BeginUpdate(c) => phase[b] \in {"done", "failed"}
      /\ BeginUpdate(b) => (phase'[b] = "waiting" => plan[b].fail # -1)
  <2>1. BeginUpdate(c) => phase[b] \in {"done", "failed"}
    BY <1>1 DEF BeginUpdate
  <2>2. ASSUME BeginUpdate(b), plan[b].fail = -1 PROVE phase'[b] = "done"
    BY <2>2 DEF BeginUpdate, Sync, TypeOK
  <2> QED BY <2>1, <2>2
<1>4. /\ phase'[b] \in {"done", "failed"} \/ phase[b] \notin {"done", "failed"}
      /\ phase[b] = "done" => phase'[b] = "done"
  BY <1>1, PhaseStep
<1>5. \/ phase'[c] = phase[c]
      \/ phase[c] = "idle" /\ phase[b] \in {"done", "failed"} /\ phase'[c] \in {"done", "waiting"}
      \/ phase[c] = "waiting" /\ holder = NoClient
      \/ phase[c] = "serving"
  BY <1>1, <1>h, <1>u, PhaseStep
<1>6. ASSUME BeginUpdate(c) PROVE phase'[c] = "waiting"
  BY <1>1, <1>6 DEF BeginUpdate, Sync, TypeOK
<1>7. phase'[c] \in {"serving", "done", "failed"} => phase'[b] = "done"
  <2>1. CASE phase'[c] = phase[c]
    BY <1>4, <2>1 DEF Calls
  <2>2. CASE BeginUpdate(c)
    BY <1>6, <2>2
  <2>3. CASE Enter(c) /\ phase[c] = "waiting"
    BY <1>h, <1>3, <1>4, <2>3 DEF Calls
  <2>4. CASE phase[c] = "serving"
    BY <1>4, <2>4 DEF Calls
  <2> QED BY <1>1, <2>1, <2>2, <2>3, <2>4, PhaseStep
<1>8. phase'[c] # "idle" => phase'[b] \in {"done", "failed"}
  BY <1>4, <1>5 DEF Calls
<1>9. phase'[b] \in {"waiting", "serving", "failed"} => plan[b].fail # -1
  <2>1. CASE phase'[b] = phase[b]
    BY <2>1 DEF Calls
  <2>2. CASE BeginUpdate(b)
    BY <1>u, <2>2, PhaseStep DEF BeginUpdate, Sync, TypeOK
  <2>3. CASE phase[b] \in {"waiting", "serving"}
    BY <2>3 DEF Calls
  <2> QED BY <1>1, <2>1, <2>2, <2>3, PhaseStep
<1> QED BY <1>2, <1>4, <1>7, <1>8, <1>9 DEF Calls

(* Removing the first entry leaves the others, one place further forward.  *)
LEMMA RemoveHead ==
  ASSUME NEW S, NEW q \in Seq(S), q # <<>>
  PROVE  /\ Len(RemoveFirst(q, q[1])) = Len(q) - 1
         /\ \A j \in 1..(Len(q) - 1) : RemoveFirst(q, q[1])[j] = q[j + 1]
<1> DEFINE I == {j \in 1..Len(q) : q[j] = q[1]}
<1>0. Len(q) \in Nat /\ Len(q) >= 1
  OBVIOUS
<1>1. 1 \in I /\ \A j \in I : 1 <= j
  BY <1>0
<1>2. Min(I) = 1
  <2>1. \A y \in I : (\A j \in I : y <= j) => y = 1
    BY <1>0, <1>1
  <2> QED BY <1>1, <2>1 DEF Min
<1>3. RemoveFirst(q, q[1]) = RemoveAt(q, Min(I))
  BY <1>0 DEF RemoveFirst, SelectInSeq
<1>4. RemoveFirst(q, q[1]) = RemoveAt(q, 1)
  BY <1>2, <1>3
<1>5. /\ Len(RemoveAt(q, 1)) = Len(q) - 1
      /\ \A j \in 1..(Len(q) - 1) : RemoveAt(q, 1)[j] = IF j < 1 THEN q[j] ELSE q[j + 1]
  BY <1>0, RemoveAtProperties
<1> QED BY <1>4, <1>5

-----------------------------------------------------------------------------
(* The steps that change the rotation or a version.                        *)
LEMMA OtherSteps ==
  ASSUME Undisturbed, [Next]_vars
  PROVE  /\ UNCHANGED plan
         /\ UNCHANGED rotation \/ GoOnline \/ \E s \in Server : DropServer(s)
         /\ UNCHANGED version \/ CopyVersion \/ UpdateOwn \/ \E s \in Server : Apply(s)
<1> USE DEF coms_t, lisVars, clientVars, locals, conn, queries, dirVars
<1>1. ASSUME NEW x \in Client, BeginUpdate(x) \/ BeginJoin(x) \/ Enter(x)
      PROVE  UNCHANGED <<plan, rotation, version>>
  BY <1>1 DEF BeginUpdate, BeginJoin, Enter, Open
<1>2. CASE SkipServer \/ ContactServer \/ AckFresh \/ AckStale \/ AckApplied \/ Still
  BY <1>2 DEF SkipServer, ContactServer, AckFresh, AckStale, AckApplied, Still
<1>3. CASE UpdateFails \/ FinishUpdate \/ FinishJoin \/ NoHosts \/ RequestHosts \/ ListFails
  BY <1>3 DEF UpdateFails, FinishUpdate, FinishJoin, NoHosts, RequestHosts, ListFails, Close
<1>4. UpdateOwn \/ CopyVersion => UNCHANGED <<plan, rotation>>
  BY DEF UpdateOwn, CopyVersion
<1>5. GoOnline => UNCHANGED <<plan, version>>
  BY DEF GoOnline
<1>6. ASSUME NEW s \in Server
      PROVE  /\ Apply(s) => UNCHANGED <<plan, rotation>>
             /\ DropServer(s) => UNCHANGED <<plan, version>>
  BY DEF Apply, DropServer
<1> QED BY <1>1, <1>2, <1>3, <1>4, <1>5, <1>6, StepKinds

(* Newcomers join at the end, and only the paused server leaves.           *)
LEMMA ShapeStep ==
  ASSUME Sync, Undisturbed, [Next]_vars, NEW b \in Client, NEW c \in Client,
         IsRepair(plan, b, c), Calls(b, c), Shape(b)
  PROVE  Shape(b)'
<1> DEFINE n == Len(Initial)
<1>0. /\ phase[b] = "done" => phase'[b] = "done"
      /\ n \in Nat /\ n >= 2 /\ rotation \in Seq(Server) /\ Len(rotation) \in Nat
      /\ IsInjective(rotation) /\ DOMAIN plan = {b, c}
  <2>1. n \in Nat /\ n >= 2 /\ DOMAIN plan = {b, c}
    BY RepairPlan DEF IsRepair
  <2>2. rotation \in Seq(Server) /\ IsInjective(rotation)
    BY DEF Sync, TypeOK, Session
  <2> QED BY <2>1, <2>2, CallsStep
<1>1. CASE UNCHANGED rotation
  BY <1>0, <1>1 DEF Shape, Intact, Beheaded
<1>2. CASE GoOnline
  <2>1. holder \in Server /\ holder \in Joiners /\ rotation' = Append(rotation, holder)
    BY <1>2 DEF GoOnline, Join, Put, Joining
  <2>2. Initial[1] # holder
    BY <1>0, <2>1, RepairPlan
  <2>3. /\ Len(rotation') = Len(rotation) + 1 /\ rotation' \in Seq(Server)
        /\ \A i \in 1..Len(rotation) : rotation'[i] = rotation[i]
        /\ rotation'[Len(rotation) + 1] = holder
    BY <1>0, <2>1
  <2>4. CASE Intact
    <3>1. Len(Initial) <= Len(rotation) + 1
      BY <1>0, <2>4 DEF Intact
    <3>2. \A i \in 1..Len(Initial) : rotation'[i] = Initial[i]
      BY <1>0, <2>3, <2>4 DEF Intact
    <3>3. Intact'
      BY <2>3, <3>1, <3>2 DEF Intact
    <3> QED BY <3>3 DEF Shape
  <2>5. CASE phase[b] = "done" /\ Beheaded
    <3>1. Initial[1] \notin ToSet(rotation')
      <4>1. \A i \in 1..Len(rotation) : rotation[i] # Initial[1]
        BY <1>0, <2>5 DEF Beheaded, ToSet
      <4>2. \A i \in 1..(Len(rotation) + 1) : rotation'[i] # Initial[1]
        BY <1>0, <2>2, <2>3, <4>1
      <4> QED BY <2>3, <4>2 DEF ToSet
    <3>2. Beheaded'
      BY <1>0, <2>3, <2>5, <3>1 DEF Beheaded
    <3> QED BY <1>0, <2>5, <3>2 DEF Shape
  <2> QED BY <2>4, <2>5 DEF Shape
<1>3. ASSUME NEW s \in Server, DropServer(s) PROVE Shape(b)'
  <2>1. Paused(s) /\ holder = NoClient /\ s \in ToSet(rotation) /\ rotation' = RemoveFirst(rotation, s)
    BY <1>3 DEF DropServer, Drop, Undisturbed
  <2>2. s = Initial[1] /\ phase[b] \in {"done", "failed"}
    BY <1>0, <2>1 DEF Paused, IsRepair
  <2>3. phase[b] = "done"
    BY <2>1, <2>2, Constants DEF Sync, Session
  <2>4. Intact
    BY <2>1, <2>2, <2>3 DEF Shape, Beheaded
  <2>5. rotation # <<>> /\ s = rotation[1] /\ Contains(rotation, s)
    BY <1>0, <2>1, <2>2, <2>4 DEF Intact, Contains, ToSet
  <2>6. /\ Len(rotation') = Len(rotation) - 1
        /\ \A j \in 1..(Len(rotation) - 1) : rotation'[j] = rotation[j + 1]
    BY <1>0, <2>1, <2>5, RemoveHead
  <2>7. Initial[1] \notin ToSet(rotation')
    BY <1>0, <2>1, <2>2, <2>5, RemoveFirstProperties DEF ToSet
  <2>8. \A i \in 2..n : rotation'[i - 1] = Initial[i]
    BY <1>0, <2>4, <2>6 DEF Intact
  <2>9. Beheaded'
    BY <1>0, <2>4, <2>6, <2>7, <2>8 DEF Beheaded, Intact
  <2> QED BY <1>0, <2>3, <2>9 DEF Shape
<1> QED BY <1>1, <1>2, <1>3, OtherSteps

(* Until the first update begins no server has another version than that   *)
(* of hosts.txt.                                                           *)
LEMMA NoneYetStep ==
  ASSUME Sync, Undisturbed, [Next]_vars, NEW b \in Client, NEW c \in Client,
         IsRepair(plan, b, c), Calls(b, c), NoneYet(b, c)
  PROVE  NoneYet(b, c)'
<1> DEFINE Before == \/ phase[b] \in {"idle", "waiting"}
                     \/ phase[b] = "done" /\ plan[b].fail = -1 /\ phase[c] \in {"idle", "waiting"}
<1>0. /\ UNCHANGED plan /\ b \notin Joiners /\ c \notin Joiners
      /\ DOMAIN plan = {b, c} /\ version \in [Server -> 0..255] /\ b \in Updaters
      /\ \A x \in Client : x = holder <=> phase[x] \in {"serving", "failed"}
  BY OtherSteps, RepairPlan DEF IsRepair, Sync, TypeOK, Session
<1> SUFFICES ASSUME Before' PROVE \A s \in Server : version'[s] = 0
  BY DEF NoneYet
<1>1. Before
  <2>1. phase'[b] \in {"idle", "waiting"} => phase[b] \in {"idle", "waiting"}
    BY <1>0, PhaseStep
  <2>2. phase'[c] \in {"idle", "waiting"} => phase[c] \in {"idle", "waiting"}
    BY <1>0, PhaseStep
  <2>3. phase'[b] = "done" /\ plan[b].fail = -1 => phase[b] \in {"idle", "waiting", "done"}
    BY <1>0, PhaseStep DEF Calls
  <2> QED BY <1>0, <2>1, <2>2, <2>3
<1>2. \A s \in Server : version[s] = 0
  BY <1>1 DEF NoneYet
<1>3. holder \notin {b, c}
  BY <1>0, <1>1 DEF Calls
<1>4. ~UpdateOwn /\ \A s \in Server : ~Apply(s)
  <2>1. ~UpdateOwn
    BY <1>3, RepairPlan DEF UpdateOwn, Update
  <2>2. \A s \in Server : ~Apply(s)
    BY <1>0, <1>3, Applying DEF Apply
  <2> QED BY <2>1, <2>2
<1>5. CASE UNCHANGED version
  BY <1>2, <1>5
<1>6. CASE CopyVersion
  <2>1. Peer \in Server /\ version' = [version EXCEPT ![holder] = version[Peer]]
    BY <1>6, Situation DEF CopyVersion, HandedVersion, Joining
  <2> QED BY <1>0, <1>2, <2>1
<1> QED BY <1>4, <1>5, <1>6, OtherSteps

(* A newcomer that is about to join has copied its version.                *)
LEMMA HandingStep ==
  ASSUME Sync, Undisturbed, [Next]_vars, Joining("found")'
  PROVE  CopyVersion \/ (Joining("found") /\ UNCHANGED holder)
<1> USE DEF coms_t, lisVars, clientVars, locals, conn, queries, dirVars, Connect, NextPort,
            Update, Joining
<1>0. Serving' /\ holder' \in Joiners /\ pos' = "found"
  OBVIOUS
<1>1. ASSUME UNCHANGED <<holder, pos>> PROVE Joining("found")
  <2>1. phase'[holder] = "serving" /\ holder \in Client /\ holder # NoClient /\ pos = "found"
    BY <1>0, <1>1, Constants DEF Serving
  <2>2. phase[holder] \in {"serving", "failed"}
    BY <2>1 DEF Sync, Session
  <2>3. phase[holder] = "serving"
    BY <2>1, <2>2, PhaseStep DEF BeginJoin
  <2> QED BY <1>0, <1>1, <2>1, <2>3 DEF Serving
<1>2. ASSUME NEW x \in Client, BeginUpdate(x) \/ BeginJoin(x) \/ Enter(x)
      PROVE  UNCHANGED <<holder, pos>>
  BY <1>0, <1>2 DEF BeginUpdate, BeginJoin, Enter
<1>3. CASE FinishUpdate \/ FinishJoin
  BY <1>0, <1>3, Constants DEF FinishUpdate, FinishJoin, Close, Serving
<1>4. ~UpdateOwn /\ ~GoOnline
  BY <1>0 DEF UpdateOwn, GoOnline
<1>5. ASSUME NEW s \in Server, Apply(s) \/ DropServer(s) PROVE UNCHANGED <<holder, pos>>
  BY <1>5 DEF Apply, DropServer, Drop
<1>6. Still => UNCHANGED <<holder, pos>>
  BY DEF Still
<1>7. SkipServer \/ ContactServer \/ AckFresh \/ AckStale \/ AckApplied => UNCHANGED <<holder, pos>>
  BY <1>0 DEF SkipServer, ContactServer, AckFresh, AckStale, AckApplied
<1>8. UpdateFails \/ NoHosts \/ RequestHosts \/ ListFails => UNCHANGED <<holder, pos>>
  BY <1>0 DEF UpdateFails, NoHosts, RequestHosts, ListFails
<1> QED BY <1>1, <1>2, <1>3, <1>4, <1>5, <1>6, <1>7, <1>8, StepKinds

(* What an update in session does: its own steps, and the listeners'.      *)
LEMMA RunningStep ==
  ASSUME Sync, Undisturbed, [Next]_vars, NEW x \in Updaters, Serving', holder' = x
  PROVE  \/ Enter(x)
         \/ /\ Serving /\ holder = x /\ UNCHANGED <<view, rotation>>
            /\ \/ UNCHANGED <<locals, version>>
               \/ SkipServer \/ ContactServer \/ AckFresh \/ AckStale \/ AckApplied \/ UpdateOwn
               \/ \E s \in Server : Apply(s)
<1> USE DEF coms_t, lisVars, clientVars, locals, conn, queries, dirVars, Update, Joining
<1>0. x \in Client /\ x \notin Joiners /\ x # NoClient /\ phase'[x] = "serving"
  BY Constants DEF Updaters, Joiners, Serving
<1>1. CASE holder # x
  <2>1. phase[x] \notin {"serving", "failed"}
    BY <1>0, <1>1 DEF Sync, Session
  <2>2. Enter(x)
    BY <1>0, <2>1, PhaseStep
  <2> QED BY <2>2
<1>2. CASE holder = x
  <2>1. phase[x] \in {"serving", "failed"}
    BY <1>0, <1>2 DEF Sync, Session
  <2>2. Serving
    BY <1>0, <1>2, <2>1, PhaseStep DEF Enter, Serving
  <2>3. ~(FinishUpdate \/ FinishJoin \/ UpdateFails \/ NoHosts)
    <3>1. FinishUpdate \/ FinishJoin => holder' = NoClient
      BY DEF FinishUpdate, FinishJoin, Close
    <3>2. UpdateFails \/ NoHosts => phase' = [phase EXCEPT ![holder] = "failed"]
      BY DEF UpdateFails, NoHosts
    <3>3. UpdateFails \/ NoHosts => phase'[x] = "failed"
      BY <1>0, <1>2, <3>2 DEF Sync, TypeOK
    <3> QED BY <1>0, <3>1, <3>3
  <2>4. ~(RequestHosts \/ CopyVersion \/ ListFails \/ GoOnline)
    BY <1>0, <1>2 DEF RequestHosts, CopyVersion, ListFails, GoOnline
  <2>5. \A y \in Client : ~Enter(y)
    BY <1>0, <1>2 DEF Enter, Open
  <2>6. \A s \in Server : ~DropServer(s)
    BY <1>0, <1>2 DEF DropServer, Drop
  <2>7. ASSUME NEW y \in Client, BeginUpdate(y) \/ BeginJoin(y)
        PROVE  UNCHANGED <<view, rotation, locals, version>>
    BY <2>7 DEF BeginUpdate, BeginJoin
  <2>8. Still => UNCHANGED <<view, rotation, locals, version>>
    BY DEF Still
  <2>9. /\ SkipServer \/ ContactServer \/ AckFresh \/ AckStale \/ AckApplied => UNCHANGED <<view, rotation>>
        /\ UpdateOwn => UNCHANGED <<view, rotation>>
        /\ \A s \in Server : Apply(s) => UNCHANGED <<view, rotation>>
    BY DEF SkipServer, ContactServer, AckFresh, AckStale, AckApplied, UpdateOwn, Apply
  <2> QED BY <1>2, <2>2, <2>3, <2>4, <2>5, <2>6, <2>7, <2>8, <2>9, StepKinds
<1> QED BY <1>1, <1>2

(* Where an update finds the first servers in its list.                    *)
LEMMA Places ==
  ASSUME Sync, NEW b \in Client, NEW c \in Client, IsRepair(plan, b, c), Shape(b),
         Serving, holder \in {b, c}
  PROVE  /\ view = rotation /\ view \in Seq(Server) /\ Len(view) \in Nat /\ idx \in Nat /\ idx > 0
         /\ \A i \in 1..Len(view) : view[i] \in Server
         /\ \A i, j \in 1..Len(view) : view[i] = view[j] => i = j
         /\ holder = b => Len(Initial) <= Len(view) /\ \A i \in 1..Len(Initial) : view[i] = Initial[i]
         /\ \A k \in 3..Len(Initial) : \E j \in 2..Len(view) : view[j] = Initial[k]
<1>1. view = rotation /\ view \in Seq(Server) /\ IsInjective(rotation)
  BY RepairPlan DEF Sync, TypeOK, Session
<1>2. Len(view) \in Nat /\ idx \in Nat /\ idx > 0
  BY Situation
<1>3. Len(Initial) \in Nat /\ Len(Initial) >= 2
  BY RepairPlan
<1>4. holder = b => Intact
  BY DEF Shape, Serving
<1>5. ASSUME NEW k \in 3..Len(Initial) PROVE \E j \in 2..Len(view) : view[j] = Initial[k]
  <2>1. CASE Intact
    BY <1>1, <1>2, <1>3, <2>1 DEF Intact
  <2>2. CASE Beheaded
    <3>1. k - 1 \in 2..Len(view) /\ view[k - 1] = Initial[k]
      BY <1>1, <1>2, <1>3, <2>2 DEF Beheaded
    <3> QED BY <3>1
  <2> QED BY <2>1, <2>2 DEF Shape
<1>6. \A i, j \in 1..Len(view) : view[i] = view[j] => i = j
  BY <1>1 DEF IsInjective
<1>7. \A i \in 1..Len(view) : view[i] \in Server
  BY <1>1
<1>8. holder = b => Len(Initial) <= Len(view) /\ \A i \in 1..Len(Initial) : view[i] = Initial[i]
  BY <1>1, <1>4 DEF Intact
<1> QED BY <1>1, <1>2, <1>5, <1>6, <1>7, <1>8

(* The first update passes over its own server and the one of the test's   *)
(* choice, and reaches every other.                                        *)
LEMMA FirstCallStep ==
  ASSUME Sync, Prompt, Undisturbed, [Next]_vars, NEW b \in Client, NEW c \in Client,
         IsRepair(plan, b, c), Calls(b, c), Shape(b), NoneYet(b, c), FirstCall(b)
  PROVE  FirstCall(b)'
<1> USE DEF coms_t, lisVars, clientVars, locals, conn, queries, dirVars, Update, NextPort
<1> DEFINE u == plan[b]
           Missed == \A i \in 1..Len(Initial) : i > 1 /\ i - 1 = u.fail => version[Initial[i]] = 0
           Past(i) == i = 1 \/ i - 1 = u.fail \/ version[view[i]] = u.id
<1> SUFFICES ASSUME Serving', holder' = b
             PROVE  Missed' /\ \A i \in 1..Len(view') : i < idx' => Past(i)'
  <2>1. UNCHANGED plan
    BY OtherSteps
  <2> QED BY <2>1 DEF FirstCall
<1>0. /\ UNCHANGED plan /\ version \in [Server -> 0..255] /\ b \in Updaters /\ b \in DOMAIN plan
      /\ u.coms = Initial[1] /\ u.own = Initial[1]
      /\ Len(Initial) \in Nat /\ Len(Initial) >= 2
      /\ \A i \in 1..Len(Initial) : Initial[i] \in Server
      /\ \A i, j \in 1..Len(Initial) : Initial[i] = Initial[j] => i = j
  BY OtherSteps, RepairPlan DEF IsRepair, Sync, TypeOK
<1>1. CASE Enter(b)
  <2>1. phase[b] = "waiting" /\ idx' = 1 /\ UNCHANGED version
    BY <1>1 DEF Enter
  <2>2. \A s \in Server : version[s] = 0
    BY <2>1 DEF NoneYet
  <2>3. view' \in Seq(Server) /\ Len(view') \in Nat
    BY <1>1 DEF Enter, Open, Sync, TypeOK
  <2> QED BY <1>0, <2>1, <2>2, <2>3
<1>2. ASSUME Serving, holder = b, UNCHANGED <<view, rotation>>
      PROVE  /\ Len(view) \in Nat /\ idx \in Nat /\ idx > 0 /\ Me = u
             /\ \A i \in 1..Len(view) : view[i] \in Server
             /\ \A i, j \in 1..Len(view) : view[i] = view[j] => i = j
             /\ Len(Initial) <= Len(view) /\ \A i \in 1..Len(Initial) : view[i] = Initial[i]
             /\ Missed /\ \A i \in 1..Len(view) : i < idx => Past(i)
  <2>1. Missed /\ \A i \in 1..Len(view) : i < idx => Past(i)
    BY <1>2 DEF FirstCall
  <2> QED BY <1>2, <2>1, Places DEF Me
(* Steps that give no server a version.                                    *)
<1>n. ASSUME Serving, holder = b, UNCHANGED <<view, rotation, version>>,
             idx' = idx \/ (idx' = idx + 1 /\ \A i \in {idx} : i \in 1..Len(view) => Past(i))
      PROVE  Missed' /\ \A i \in 1..Len(view') : i < idx' => Past(i)'
  <2>1. /\ Len(view) \in Nat /\ idx \in Nat /\ Missed
        /\ \A i \in 1..Len(view) : i < idx => Past(i)
    BY <1>2, <1>n
  <2>2. \A i \in 1..Len(view) : i < idx' => Past(i)
    BY <1>n, <2>1
  <2> QED BY <1>0, <1>n, <2>1, <2>2
<1> HIDE DEF Missed, Past
<1>3. ASSUME Serving, holder = b, UNCHANGED <<view, rotation>>,
             \/ UNCHANGED <<locals, version>>
             \/ SkipServer \/ ContactServer \/ AckFresh \/ AckStale \/ AckApplied \/ UpdateOwn
             \/ \E s \in Server : Apply(s)
      PROVE  Missed' /\ \A i \in 1..Len(view') : i < idx' => Past(i)'
  <2>1. CASE UNCHANGED <<locals, version>>
    BY <1>3, <1>n, <2>1
  <2>2. CASE SkipServer
    <3>1. /\ Listed /\ idx' = idx + 1 /\ UNCHANGED version
          /\ view[idx] = Me.own \/ idx - 1 = Me.fail
      BY <2>2 DEF SkipServer, Skipped
    <3>2. /\ Len(view) \in Nat /\ idx \in Nat /\ idx > 0 /\ Me = u /\ Len(Initial) <= Len(view)
          /\ \A i, j \in 1..Len(view) : view[i] = view[j] => i = j
          /\ \A i \in 1..Len(Initial) : view[i] = Initial[i]
      BY <1>2, <1>3
    <3>3. idx = 1 \/ idx - 1 = u.fail
      <4>1. idx \in 1..Len(view) /\ 1 \in 1..Len(view) /\ 1 \in 1..Len(Initial)
        BY <1>0, <3>1, <3>2 DEF Listed
      <4> QED BY <1>0, <3>1, <3>2, <4>1
    <3>4. \A i \in {idx} : Past(i)
      BY <3>3 DEF Past
    <3> QED BY <1>3, <1>n, <3>1, <3>4
  <2>3. CASE ContactServer \/ AckStale
    BY <1>3, <1>n, <2>3 DEF ContactServer, AckStale
  <2>4. CASE AckFresh
    <3>1. pos = "ack" /\ reply = <<Me.id>> /\ idx' = idx + 1 /\ UNCHANGED version
      BY <2>4 DEF AckFresh
    <3>2. version[Peer] = Me.id
      BY <1>3, <3>1 DEF Sync, Lines, InContact
    <3>3. \A i \in {idx} : Past(i)
      BY <1>2, <1>3, <3>2 DEF Past, Peer
    <3> QED BY <1>3, <1>n, <3>1, <3>3
  <2>5. CASE AckApplied
    <3>1. pos = "applied" /\ ~open /\ idx' = idx + 1 /\ UNCHANGED version
      BY <2>5 DEF AckApplied, PeerClosed
    <3>2. version[Peer] = Me.id
      BY <1>3, <3>1 DEF Prompt
    <3>3. \A i \in {idx} : Past(i)
      BY <1>2, <1>3, <3>2 DEF Past, Peer
    <3> QED BY <1>3, <1>n, <3>1, <3>3
  <2>6. ASSUME NEW s \in Server, holder \in DOMAIN plan, ActuallyUpdate(s), UNCHANGED idx,
               \A i \in 1..Len(Initial) : i > 1 /\ i - 1 = u.fail => Initial[i] # s
        PROVE  Missed' /\ \A i \in 1..Len(view') : i < idx' => Past(i)'
    <3>1. version'[s] = u.id /\ \A r \in Server : r # s => version'[r] = version[r]
      BY <1>2, <1>3, <2>6, ApplyTypes
    <3>2. Missed'
      BY <1>0, <1>2, <1>3, <2>6, <3>1 DEF Missed
    <3>3. ASSUME NEW i \in 1..Len(view), Past(i) PROVE Past(i)'
      <4>1. view[i] \in Server
        BY <1>2, <1>3
      <4> QED BY <1>0, <1>3, <3>1, <3>3, <4>1 DEF Past
    <3> QED BY <1>2, <1>3, <2>6, <3>2, <3>3
  <2>7. CASE UpdateOwn
    <3>1. idx' = idx /\ IF this_stale THEN ActuallyUpdate(Me.coms) ELSE UNCHANGED version
      BY <2>7 DEF UpdateOwn
    <3>2. CASE this_stale
      <4>1. ActuallyUpdate(Initial[1]) /\ Initial[1] \in Server
        BY <1>0, <1>2, <1>3, <3>1, <3>2
      <4> QED BY <1>0, <1>3, <2>6, <3>1, <4>1
    <3>3. CASE ~this_stale
      BY <1>3, <1>n, <3>1, <3>3
    <3> QED BY <3>2, <3>3
  <2>8. ASSUME NEW s \in Server, Apply(s) PROVE Missed' /\ \A i \in 1..Len(view') : i < idx' => Past(i)'
    <3>1. lis[s] = "apply" /\ ActuallyUpdate(s) /\ UNCHANGED idx
      BY <2>8 DEF Apply
    <3>2. pos = "applied" /\ s = Peer /\ Listed
      BY <1>3, <3>1, Listeners, Situation DEF Orphan
    <3>3. idx \in 1..Len(view) /\ s = view[idx] /\ idx - 1 # u.fail
      BY <1>2, <1>3, <3>2 DEF Prompt, Skipped, Listed, Peer
    <3>4. ASSUME NEW i \in 1..Len(Initial), i - 1 = u.fail PROVE Initial[i] # s
      <4>1. view[i] = Initial[i] /\ i \in 1..Len(view)
        BY <1>0, <1>2, <1>3
      <4> QED BY <1>2, <1>3, <3>3, <3>4, <4>1
    <3> QED BY <1>0, <1>3, <2>6, <3>1, <3>4
  <2> QED BY <1>3, <2>1, <2>2, <2>3, <2>4, <2>5, <2>7, <2>8
<1> QED BY <1>0, <1>1, <1>3, RunningStep

(* When it returns, all but the server of the test's choice have it; those *)
(* that join before the second begins have copied one that has, if none    *)
(* was passed over.                                                        *)
LEMMA AllButOneStep ==
  ASSUME Sync, Undisturbed, [Next]_vars, NEW b \in Client, NEW c \in Client,
         IsRepair(plan, b, c), Calls(b, c), Shape(b), FirstCall(b), AllButOne(b, c)
  PROVE  AllButOne(b, c)'
<1> USE DEF coms_t, lisVars, clientVars, locals, conn, queries, dirVars, Update, Joining
<1> DEFINE u == plan[b]
           n == Len(Initial)
           Between == phase[b] = "done" /\ u.fail # -1 /\ phase[c] \in {"idle", "waiting"}
           Firsts == \A i \in 1..n :
                       version[Initial[i]] = IF i > 1 /\ i - 1 = u.fail THEN 0 ELSE u.id
           All == u.fail = 0 => /\ \A s \in ToSet(rotation) : version[s] = u.id
                                /\ Joining("found") => version[holder] = u.id
<1>0. /\ UNCHANGED plan /\ version \in [Server -> 0..255] /\ b \in Updaters
      /\ rotation \in Seq(Server) /\ ToSet(rotation) \subseteq Server
  <2>1. rotation \in Seq(Server) /\ version \in [Server -> 0..255]
    BY DEF Sync, TypeOK
  <2>2. ToSet(rotation) \subseteq Server
    BY <2>1 DEF ToSet
  <2> QED BY <2>1, <2>2, OtherSteps, RepairPlan
<1>i. /\ n \in Nat /\ n >= 2 /\ u.coms = Initial[1] /\ DOMAIN plan = {b, c}
      /\ \A i \in 1..n : Initial[i] \in Server /\ Initial[i] \notin Joiners
  BY RepairPlan DEF IsRepair
<1>j. b \notin Joiners /\ c \notin Joiners /\ u.fail \in Int
  BY RepairPlan
<1>h. \A x \in Client : x = holder <=> phase[x] \in {"serving", "failed"}
  BY DEF Sync, Session
<1> SUFFICES ASSUME Between' PROVE Firsts' /\ All'
  BY <1>0 DEF AllButOne
<1>1. Between \/ (FinishUpdate /\ holder = b /\ phase[b] = "serving")
  <2>1. phase[c] \in {"idle", "waiting"}
    BY <1>j, PhaseStep
  <2>2. BeginUpdate(b) /\ u.fail # -1 => phase'[b] = "waiting"
    BY DEF BeginUpdate, Sync, TypeOK
  <2>3. phase[b] = "done" \/ ((FinishUpdate \/ FinishJoin) /\ holder = b /\ phase[b] = "serving")
    BY <1>0, <1>j, <2>2, PhaseStep
  <2>4. FinishJoin => holder # b
    BY <1>j DEF FinishJoin
  <2> QED BY <1>0, <2>1, <2>3, <2>4
<1>2. CASE FinishUpdate /\ holder = b /\ phase[b] = "serving"
  <2>1. pos = "finish" /\ Serving /\ holder' = NoClient /\ UNCHANGED <<version, rotation>>
    BY <1>2 DEF FinishUpdate, Close
  <2>2. /\ version[Initial[1]] = u.id /\ idx > Len(view)
        /\ view = rotation /\ Len(view) \in Nat /\ idx \in Nat
        /\ n <= Len(view) /\ \A i \in 1..n : view[i] = Initial[i]
    BY <1>0, <1>2, <1>i, <2>1, Places DEF Sync, Progress, Me
  <2>3. /\ \A i \in 1..n : i > 1 /\ i - 1 = u.fail => version[Initial[i]] = 0
        /\ \A i \in 1..Len(view) : i = 1 \/ i - 1 = u.fail \/ version[view[i]] = u.id
    BY <1>2, <2>1, <2>2 DEF FirstCall
  <2>4. Firsts
    <3> SUFFICES ASSUME NEW i \in 1..n
                 PROVE  version[Initial[i]] = IF i > 1 /\ i - 1 = u.fail THEN 0 ELSE u.id
      OBVIOUS
    <3>1. i \in 1..Len(view) /\ view[i] = Initial[i]
      BY <1>i, <2>2
    <3>2. CASE i = 1
      BY <2>2, <3>2
    <3>3. CASE i # 1
      BY <2>3, <3>1, <3>3
    <3> QED BY <3>2, <3>3
  <2>5. u.fail = 0 => \A s \in ToSet(rotation) : version[s] = u.id
    <3> SUFFICES ASSUME u.fail = 0, NEW i \in 1..Len(view) PROVE version[view[i]] = u.id
      BY <2>2 DEF ToSet
    <3>1. CASE i = 1
      BY <1>i, <2>2, <3>1
    <3>2. CASE i # 1
      BY <2>3, <3>2
    <3> QED BY <3>1, <3>2
  <2>6. ~Joining("found")'
    BY <2>1 DEF Serving
  <2> QED BY <1>0, <2>1, <2>4, <2>5, <2>6
<1>3. CASE Between
  <2>1. Firsts /\ All
    BY <1>3 DEF AllButOne
  <2>2. holder \notin DOMAIN plan
    BY <1>3, <1>h, <1>i
  <2>3. ~UpdateOwn /\ \A s \in Server : ~Apply(s)
    <3>1. ~UpdateOwn
      BY <2>2, OwnServer DEF UpdateOwn
    <3>2. \A s \in Server : ~Apply(s)
      BY <2>2, Applying DEF Apply
    <3> QED BY <3>1, <3>2
  <2>4. CASE CopyVersion
    <3>1. /\ Joining("list") /\ UNCHANGED <<rotation, holder>>
          /\ version' = [version EXCEPT ![holder] = version[Peer]]
      BY <2>4 DEF CopyVersion, HandedVersion
    <3>2. /\ holder \in Server /\ holder \notin ToSet(rotation) /\ holder \in Joiners
          /\ Peer \in ToSet(rotation)
      BY <3>1, Arriving, Situation
    <3>3. Firsts'
      BY <1>0, <1>i, <2>1, <3>1, <3>2
    <3>4. \A s \in ToSet(rotation) : version'[s] = version[s]
      BY <1>0, <3>1, <3>2
    <3>5. version'[holder] = version[Peer]
      BY <1>0, <3>1, <3>2
    <3> QED BY <1>0, <2>1, <3>1, <3>2, <3>3, <3>4, <3>5
  <2>5. CASE UNCHANGED version
    <3>1. Firsts'
      BY <1>0, <2>1, <2>5
    <3>2. ASSUME u.fail = 0, Joining("found")' PROVE version'[holder'] = u.id
      <4>1. CASE CopyVersion
        BY <1>0, <2>1, <2>4, <3>2, <4>1
      <4>2. CASE Joining("found") /\ UNCHANGED holder
        BY <2>1, <2>5, <3>2, <4>2
      <4> QED BY <3>2, <4>1, <4>2, HandingStep
    <3>3. ASSUME u.fail = 0, NEW s \in ToSet(rotation') PROVE version[s] = u.id
      <4>1. CASE UNCHANGED rotation
        BY <2>1, <3>3, <4>1
      <4>2. CASE GoOnline
        <5>1. Joining("found") /\ holder \in Server /\ rotation' = Append(rotation, holder)
          BY <4>2 DEF GoOnline, Join, Put
        <5>2. s = holder \/ s \in ToSet(rotation)
          BY <1>0, <3>3, <5>1 DEF ToSet
        <5> QED BY <2>1, <3>3, <5>1, <5>2
      <4>3. ASSUME NEW r \in Server, DropServer(r) PROVE version[s] = u.id
        <5>1. rotation' = RemoveFirst(rotation, r) /\ Contains(rotation, r) /\ IsInjective(rotation)
          BY <1>0, <4>3 DEF DropServer, Drop, ToSet, Contains, Sync, Session
        <5>2. rotation' \in Seq(Server) /\ \A i \in 1..Len(rotation') : Contains(rotation, rotation'[i])
          BY <1>0, <5>1, RemoveFirstProperties
        <5>3. s \in ToSet(rotation)
          BY <1>0, <3>3, <5>2 DEF ToSet, Contains
        <5> QED BY <2>1, <3>3, <5>3
      <4> QED BY <4>1, <4>2, <4>3, OtherSteps
    <3> QED BY <1>0, <2>5, <3>1, <3>2, <3>3
  <2> QED BY <2>3, <2>4, <2>5, OtherSteps
<1> QED BY <1>1, <1>2, <1>3

(* The steps of the second update: it learns of the next server, or learns *)
(* nothing, and no server has the update before it has said what it has.   *)
LearnsNothing ==
  /\ \A i \in 1..Len(view) : Told(i)' <=> Told(i)
  /\ UNCHANGED <<some_fresh, some_stale>>
Learns ==
  /\ idx \in 1..Len(view) /\ ~Told(idx) /\ UNCHANGED version
  /\ \A i \in 1..Len(view) : Told(i)' <=> Told(i) \/ i = idx

LEMMA SecondSteps ==
  ASSUME Sync, Prompt, Undisturbed, [Next]_vars, NEW b \in Client, NEW c \in Client,
         IsRepair(plan, b, c), Shape(b), Serving', holder' = c, ~Enter(c)
  PROVE  /\ Serving /\ holder = c /\ UNCHANGED <<view, this_stale>>
         /\ \/ LearnsNothing /\ UNCHANGED version
            \/ /\ LearnsNothing
               /\ \E s \in Server :
                    /\ version'[s] = plan[b].id /\ \A r \in Server : r # s => version'[r] = version[r]
                    /\ \A i \in 1..Len(view) : view[i] = s => Told(i)
            \/ /\ Learns /\ (idx = 1 \/ view[idx] = Initial[1])
               /\ UNCHANGED <<some_fresh, some_stale>>
            \/ /\ Learns /\ version[view[idx]] = plan[b].id
               /\ some_fresh' = TRUE /\ UNCHANGED some_stale
            \/ /\ Learns /\ version[view[idx]] # plan[b].id
               /\ some_stale' = TRUE /\ UNCHANGED some_fresh
<1> USE DEF coms_t, lisVars, clientVars, locals, conn, queries, dirVars, Update, NextPort
<1>0. c \in Updaters /\ b \in Updaters
  BY RepairPlan
<1>1. /\ Serving /\ holder = c /\ UNCHANGED <<view, rotation>>
      /\ \/ UNCHANGED <<locals, version>>
         \/ SkipServer \/ ContactServer \/ AckFresh \/ AckStale \/ AckApplied \/ UpdateOwn
         \/ \E s \in Server : Apply(s)
  BY <1>0, RunningStep
<1>2. /\ Len(view) \in Nat /\ idx \in Nat /\ idx > 0
      /\ \A i, j \in 1..Len(view) : view[i] = view[j] => i = j
  BY <1>1, Places
<1>3. /\ c \in DOMAIN plan /\ Me.id = plan[b].id /\ Me.own = Initial[1] /\ Me.fail = 0
      /\ Me = plan[c] /\ holder \in DOMAIN plan
  BY <1>1 DEF IsRepair, Me
<1>n. ASSUME UNCHANGED <<some_fresh, some_stale>>,
             \/ idx' = idx /\ pos # "applied" /\ pos' # "applied"
             \/ idx' = idx /\ UNCHANGED pos
             \/ idx' = idx + 1 /\ pos = "applied" /\ pos' # "applied"
      PROVE  LearnsNothing
  <2>1. \A i \in 1..Len(view) : Told(i)' <=> Told(i)
    BY <1>2, <1>n DEF Told
  <2> QED BY <1>n, <2>1 DEF LearnsNothing
<1>l. ASSUME idx \in 1..Len(view), pos # "applied", UNCHANGED version,
             \/ idx' = idx + 1 /\ pos' # "applied"
             \/ idx' = idx /\ pos' = "applied"
      PROVE  Learns
  BY <1>2, <1>l DEF Learns, Told
<1>4. CASE UNCHANGED <<locals, version>>
  <2>1. LearnsNothing
    BY <1>4, <1>n
  <2> QED BY <1>1, <1>4, <2>1
<1>5. CASE SkipServer
  <2>1. /\ Listed /\ idx' = idx + 1 /\ pos = "next" /\ pos' = pos
        /\ UNCHANGED <<some_fresh, some_stale, this_stale, version>>
        /\ view[idx] = Me.own \/ idx - 1 = Me.fail
    BY <1>5 DEF SkipServer, Skipped
  <2>2. idx \in 1..Len(view) /\ (idx = 1 \/ view[idx] = Initial[1])
    BY <1>2, <1>3, <2>1 DEF Listed
  <2>3. Learns
    BY <1>l, <2>1, <2>2
  <2> QED BY <1>1, <2>1, <2>2, <2>3
<1>6. CASE ContactServer
  <2>1. pos = "next" /\ pos' = "ack" /\ UNCHANGED <<idx, some_fresh, some_stale, this_stale, version>>
    BY <1>6 DEF ContactServer
  <2>2. LearnsNothing
    BY <1>n, <2>1
  <2> QED BY <1>1, <2>1, <2>2
<1>p. ASSUME pos \in {"ack", "applied"} PROVE idx \in 1..Len(view) /\ InContact(Peer) /\ Peer = view[idx]
  <2>1. Listed /\ InContact(Peer)
    BY <1>1, <1>p, Situation DEF Sync, Lines
  <2> QED BY <1>2, <2>1 DEF Listed, Peer
<1>7. CASE AckFresh
  <2>1. /\ pos = "ack" /\ reply = <<Me.id>> /\ pos' = "next" /\ idx' = idx + 1 /\ some_fresh' = TRUE
        /\ UNCHANGED <<some_stale, this_stale, version>>
    BY <1>7 DEF AckFresh
  <2>2. version[view[idx]] = plan[b].id
    BY <1>3, <1>p, <2>1 DEF InContact
  <2>3. Learns
    BY <1>l, <1>p, <2>1
  <2> QED BY <1>1, <2>1, <2>2, <2>3
<1>8. CASE AckStale
  <2>1. /\ pos = "ack" /\ reply # <<>> /\ reply # <<Me.id>> /\ pos' = "applied" /\ idx' = idx
        /\ some_stale' = TRUE /\ UNCHANGED <<some_fresh, this_stale, version>>
    BY <1>8 DEF AckStale
  <2>2. version[view[idx]] # plan[b].id
    BY <1>3, <1>p, <2>1 DEF InContact
  <2>3. Learns
    BY <1>l, <1>p, <2>1
  <2> QED BY <1>1, <2>1, <2>2, <2>3
<1>9. CASE AckApplied
  <2>1. /\ pos = "applied" /\ pos' = "next" /\ idx' = idx + 1
        /\ UNCHANGED <<some_fresh, some_stale, this_stale, version>>
    BY <1>9 DEF AckApplied
  <2>2. LearnsNothing
    BY <1>n, <2>1
  <2> QED BY <1>1, <2>1, <2>2
<1>10. CASE UpdateOwn
  <2>1. /\ pos = "next" /\ pos' = "finish" /\ ~Listed
        /\ UNCHANGED <<idx, some_fresh, some_stale, this_stale>>
        /\ IF this_stale THEN ActuallyUpdate(Me.coms) ELSE UNCHANGED version
    BY <1>10 DEF UpdateOwn
  <2>2. LearnsNothing
    BY <1>n, <2>1
  <2>3. CASE this_stale
    <3>1. ActuallyUpdate(Me.coms) /\ Me.coms \in Server
      BY <1>0, <1>1, <2>1, <2>3, OwnServer
    <3>2. /\ version'[Me.coms] = plan[b].id
          /\ \A r \in Server : r # Me.coms => version'[r] = version[r]
      BY <1>3, <3>1, ApplyTypes
    <3>3. \A i \in 1..Len(view) : Told(i)
      BY <1>2, <2>1 DEF Listed, Told
    <3> QED BY <1>1, <2>1, <2>2, <3>1, <3>2, <3>3
  <2>4. CASE ~this_stale
    BY <1>1, <2>1, <2>2, <2>4
  <2> QED BY <2>3, <2>4
<1>11. ASSUME NEW s \in Server, Apply(s)
       PROVE  /\ UNCHANGED <<locals>> /\ pos = "applied" /\ idx \in 1..Len(view) /\ s = view[idx]
              /\ version'[s] = plan[b].id /\ \A r \in Server : r # s => version'[r] = version[r]
  <2>1. lis[s] = "apply" /\ ActuallyUpdate(s) /\ UNCHANGED locals
    BY <1>11 DEF Apply
  <2>2. pos = "applied" /\ s = Peer
    BY <1>1, <2>1, Listeners DEF Orphan
  <2>3. version'[s] = plan[b].id /\ \A r \in Server : r # s => version'[r] = version[r]
    BY <1>3, <2>1, ApplyTypes
  <2> QED BY <1>p, <2>1, <2>2, <2>3
<1>12. CASE \E s \in Server : Apply(s)
  <2>1. PICK s \in Server : Apply(s)
    BY <1>12
  <2>2. LearnsNothing
    BY <1>n, <1>11, <2>1
  <2>3. \A i \in 1..Len(view) : view[i] = s => Told(i)
    BY <1>2, <1>11, <2>1 DEF Told
  <2> QED BY <1>1, <1>11, <2>1, <2>2, <2>3
<1> QED BY <1>1, <1>4, <1>5, <1>6, <1>7, <1>8, <1>9, <1>10, <1>12

(* What the second update finds when it begins.                            *)
LEMMA SecondBegins ==
  ASSUME Sync, Undisturbed, [Next]_vars, NEW b \in Client, NEW c \in Client,
         IsRepair(plan, b, c), Calls(b, c), NoneYet(b, c), AllButOne(b, c), Enter(c)
  PROVE  SecondCall(b, c)'
<1> DEFINE u == plan[b]
           n == Len(Initial)
<1>0. /\ UNCHANGED plan /\ c \in Updaters /\ u.id # 0 /\ u.fail \in Int
      /\ n \in Nat /\ n >= 2 /\ \A i \in 1..n : Initial[i] \in Server
  BY OtherSteps, RepairPlan
<1>i. /\ u.fail \in -1..(n - 1) /\ (u.fail = 1 => n >= 3)
      /\ plan[c].coms = Initial[2] /\ plan[c].id = u.id
  BY DEF IsRepair
<1>1. /\ phase[c] = "waiting" /\ holder = NoClient /\ view' = rotation /\ rotation \in Seq(Server)
      /\ pos' = "next" /\ idx' = 1 /\ some_fresh' = FALSE /\ some_stale' = FALSE /\ UNCHANGED version
      /\ this_stale' = (version[Initial[2]] # u.id)
  BY <1>0, <1>i DEF Enter, Open, coms_t, Sync, TypeOK
<1>s. this_stale' <=> version[Initial[2]] # u.id
  BY <1>1, Zenon
<1>2. phase[b] = "done"
  <2>1. phase[b] # "failed"
    BY <1>1, Constants DEF Sync, Session
  <2> QED BY <1>1, <2>1 DEF Calls
<1>3. \A i \in 1..Len(view') : ~Told(i)'
  BY <1>1 DEF Told
<1>4. CASE u.fail = -1
  <2>1. \A s \in Server : version[s] = 0
    BY <1>1, <1>2, <1>4 DEF NoneYet
  <2>2. \A i \in 1..Len(view') : version'[view'[i]] = 0
    BY <1>1, <2>1
  <2>3. version[Initial[2]] # u.id
    BY <1>0, <2>1
  <2> QED BY <1>0, <1>1, <1>s, <1>4, <2>2, <2>3 DEF SecondCall
<1>5. CASE u.fail # -1
  <2>1. /\ \A i \in 1..n : version[Initial[i]] = IF i > 1 /\ i - 1 = u.fail THEN 0 ELSE u.id
        /\ u.fail = 0 => \A s \in ToSet(rotation) : version[s] = u.id
    BY <1>1, <1>2, <1>5 DEF AllButOne
  <2>2. this_stale' <=> u.fail \in {-1, 1}
    <3>1. version[Initial[2]] # u.id <=> u.fail \in {-1, 1}
      BY <1>0, <1>5, <2>1
    <3> QED BY <1>s, <3>1
  <2>3. CASE u.fail = 0
    <3>1. \A i \in 1..Len(view') : version'[view'[i]] = u.id
      BY <1>1, <2>1, <2>3 DEF ToSet
    <3> QED BY <1>0, <1>1, <2>2, <2>3, <3>1 DEF SecondCall
  <2>4. CASE u.fail = 1
    <3>1. version'[Initial[3]] = u.id
      BY <1>0, <1>i, <1>1, <2>1, <2>4
    <3> QED BY <1>0, <1>3, <2>2, <2>4, <3>1 DEF SecondCall
  <2>5. CASE u.fail > 1
    <3>1. version'[Initial[u.fail + 1]] = 0
      <4>1. u.fail + 1 \in 1..n /\ u.fail + 1 > 1 /\ (u.fail + 1) - 1 = u.fail
        BY <1>0, <1>i, <2>5
      <4>2. version[Initial[u.fail + 1]] = 0
        BY <2>1, <4>1
      <4> QED BY <1>1, <4>2
    <3> QED BY <1>0, <1>3, <2>2, <2>5, <3>1 DEF SecondCall
  <2> QED BY <1>i, <1>0, <1>5, <2>3, <2>4, <2>5
<1> QED BY <1>4, <1>5

(* And what it learns: of -1 that no server had the update, of 0 that all  *)
(* had, of 1 that its own had not but the third had, of more that its own  *)
(* had and another had not.                                                *)
LEMMA SecondCallStep ==
  ASSUME Sync, Prompt, Undisturbed, [Next]_vars, NEW b \in Client, NEW c \in Client,
         IsRepair(plan, b, c), Calls(b, c), Shape(b), NoneYet(b, c), AllButOne(b, c),
         SecondCall(b, c)
  PROVE  SecondCall(b, c)'
<1> DEFINE u == plan[b]
           n == Len(Initial)
<1>0. UNCHANGED plan
  BY OtherSteps
<1>1. CASE Enter(c)
  BY <1>1, SecondBegins
<1> SUFFICES ASSUME Serving', holder' = c, ~Enter(c) PROVE SecondCall(b, c)'
  BY <1>1 DEF SecondCall
<1>2. Serving /\ holder = c /\ UNCHANGED <<view, this_stale>>
  BY SecondSteps
<1>3. /\ Len(view) \in Nat /\ idx \in Nat /\ idx > 0
      /\ \A i \in 1..Len(view) : view[i] \in Server
      /\ \A i, j \in 1..Len(view) : view[i] = view[j] => i = j
      /\ \A k \in 3..n : \E j \in 2..Len(view) : view[j] = Initial[k]
  BY <1>2, Places
<1>4. /\ n \in Nat /\ u.id # 0 /\ u.fail \in -1..(n - 1) /\ (u.fail = 1 => n >= 3)
      /\ \A i, j \in 1..n : Initial[i] = Initial[j] => i = j
      /\ \A i \in 1..n : Initial[i] \in Server
  BY RepairPlan DEF IsRepair
<1>s. this_stale' <=> u.fail \in {-1, 1}
  BY <1>2 DEF SecondCall
(* Skipped servers are not those that the diagnosis turns on.              *)
<1>5. ASSUME NEW k \in 3..n, idx \in 1..Len(view), idx = 1 \/ view[idx] = Initial[1]
      PROVE  view[idx] # Initial[k]
  <2>1. PICK j \in 2..Len(view) : view[j] = Initial[k]
    BY <1>3
  <2>2. Initial[k] # Initial[1]
    BY <1>4
  <2> QED BY <1>3, <1>5, <2>1, <2>2
<1>6. ASSUME u.fail = -1
      PROVE  ~some_fresh' /\ \A i \in 1..Len(view) : Told(i)' \/ version'[view[i]] = 0
  <2>1. ~some_fresh /\ \A i \in 1..Len(view) : Told(i) \/ version[view[i]] = 0
    BY <1>2, <1>6 DEF SecondCall
  <2>2. ~some_fresh'
    BY <1>4, <2>1, SecondSteps DEF LearnsNothing, Learns
  <2>3. ASSUME NEW i \in 1..Len(view), Told(i) PROVE Told(i)'
    BY <1>3, <2>3, SecondSteps DEF LearnsNothing, Learns
  <2>4. ASSUME NEW i \in 1..Len(view), version[view[i]] = 0, ~Told(i)' PROVE version'[view[i]] = 0
    BY <1>3, <2>4, SecondSteps DEF LearnsNothing, Learns
  <2> QED BY <2>1, <2>2, <2>3, <2>4
<1>7. ASSUME u.fail = 0
      PROVE  ~some_stale' /\ \A i \in 1..Len(view) : version'[view[i]] = u.id
  <2>1. ~some_stale /\ \A i \in 1..Len(view) : version[view[i]] = u.id
    BY <1>2, <1>7 DEF SecondCall
  <2>2. ~some_stale'
    BY <2>1, SecondSteps DEF LearnsNothing, Learns
  <2>3. \A i \in 1..Len(view) : version'[view[i]] = u.id
    BY <1>3, <2>1, SecondSteps DEF Learns
  <2> QED BY <2>2, <2>3
<1>8. ASSUME u.fail = 1
      PROVE  /\ version'[Initial[3]] = u.id
             /\ \A i \in 1..Len(view) : view[i] = Initial[3] /\ Told(i)' => some_fresh'
  <2>1. /\ version[Initial[3]] = u.id
        /\ \A i \in 1..Len(view) : view[i] = Initial[3] /\ Told(i) => some_fresh
    BY <1>2, <1>8 DEF SecondCall
  <2>2. 3 \in 1..n /\ 3 \in 3..n /\ Initial[3] \in Server
    BY <1>4, <1>8
  <2>3. version'[Initial[3]] = u.id
    BY <2>1, <2>2, SecondSteps DEF Learns
  <2>4. ASSUME NEW i \in 1..Len(view), view[i] = Initial[3], Told(i)' PROVE some_fresh'
    <3>1. some_fresh => some_fresh'
      BY SecondSteps DEF LearnsNothing
    <3>2. CASE Told(i)
      BY <2>1, <2>4, <3>1, <3>2
    <3>3. CASE ~Told(i)
      BY <1>3, <1>5, <2>1, <2>2, <2>4, <3>3, SecondSteps DEF LearnsNothing, Learns
    <3> QED BY <3>2, <3>3
  <2> QED BY <2>3, <2>4
<1>9. ASSUME u.fail > 1
      PROVE  \A i \in 1..Len(view) : view[i] = Initial[u.fail + 1] =>
               IF Told(i)' THEN some_stale' ELSE version'[view[i]] = 0
  <2> SUFFICES ASSUME NEW i \in 1..Len(view), view[i] = Initial[u.fail + 1]
               PROVE  IF Told(i)' THEN some_stale' ELSE version'[view[i]] = 0
    OBVIOUS
  <2>1. /\ Told(i) => some_stale
        /\ ~Told(i) => version[view[i]] = 0
    BY <1>2, <1>9 DEF SecondCall
  <2>2. u.fail + 1 \in 3..n
    BY <1>4, <1>9
  <2>3. some_stale => some_stale'
    BY SecondSteps DEF LearnsNothing
  <2>4. CASE Told(i)
    <3>1. Told(i)'
      BY <1>3, <2>4, SecondSteps DEF LearnsNothing, Learns
    <3> QED BY <2>1, <2>3, <2>4, <3>1
  <2>5. CASE ~Told(i)
    <3>1. version[view[i]] = 0 /\ version[view[i]] # u.id
      BY <1>4, <2>1, <2>5
    <3>2. ~this_stale
      BY <1>9, <1>s, <1>2
    <3>3. Told(i)' => some_stale'
      BY <1>3, <1>5, <2>2, <2>5, <3>1, SecondSteps DEF LearnsNothing, Learns
    <3>4. ~Told(i)' => version'[view[i]] = 0
      BY <1>3, <2>5, <3>1, <3>2, SecondSteps DEF LearnsNothing, Learns
    <3> QED BY <3>3, <3>4
  <2> QED BY <2>4, <2>5
<1> QED BY <1>0, <1>2, <1>s, <1>6, <1>7, <1>8, <1>9 DEF SecondCall

(* The code that it returns, and what the test makes of it.                *)
LEMMA VerdictStep ==
  ASSUME Sync, Undisturbed, [Next]_vars, NEW b \in Client, NEW c \in Client,
         IsRepair(plan, b, c), Calls(b, c), Shape(b), SecondCall(b, c), Verdict(b, c)
  PROVE  Verdict(b, c)'
<1> USE DEF coms_t, lisVars, clientVars, locals, conn, queries, dirVars, Update, Joining
<1> DEFINE u == plan[b]
           n == Len(Initial)
<1>0. UNCHANGED plan
  BY OtherSteps
<1>i. /\ n \in Nat /\ u.fail \in -1..(n - 1) /\ (u.fail = 1 => n >= 3)
      /\ plan[c].fail = 0 /\ c \notin Joiners
  BY RepairPlan DEF IsRepair
<1>t. DOMAIN result = Client /\ phase \in [Client -> Phases]
  BY DEF Sync, TypeOK, Phases
<1> SUFFICES ASSUME phase'[c] = "done" PROVE Answer(result'[c][1], u.fail) = u.fail
  BY <1>0 DEF Verdict
<1>1. CASE phase[c] = "done"
  <2>1. holder # c
    BY <1>1 DEF Sync, Session
  <2>2. ASSUME NEW x \in Client, BeginUpdate(x) PROVE result'[c] = result[c]
    <3>1. x # c
      BY <1>1, <2>2 DEF BeginUpdate
    <3>2. UNCHANGED result \/ result' = [result EXCEPT ![x] = <<3>>]
      BY <2>2 DEF BeginUpdate
    <3> QED BY <1>t, <3>1, <3>2
  <2>3. UpdateFails => result'[c] = result[c]
    BY <1>t, <2>1 DEF UpdateFails
  <2>4. FinishUpdate => result'[c] = result[c]
    BY <1>t, <2>1 DEF FinishUpdate
  <2>5. ASSUME NEW x \in Client, BeginJoin(x) \/ Enter(x) PROVE UNCHANGED result
    BY <2>5 DEF BeginJoin, Enter
  <2>6. SkipServer \/ ContactServer \/ AckFresh \/ AckStale \/ AckApplied \/ Still => result'[c] = result[c]
    BY DEF SkipServer, ContactServer, AckFresh, AckStale, AckApplied, Still
  <2>7. UpdateOwn => result'[c] = result[c]
    BY DEF UpdateOwn
  <2>8. RequestHosts \/ CopyVersion \/ ListFails \/ GoOnline \/ FinishJoin \/ NoHosts => result'[c] = result[c]
    BY DEF RequestHosts, CopyVersion, ListFails, GoOnline, FinishJoin, NoHosts
  <2>9. ASSUME NEW s \in Server, Apply(s) \/ DropServer(s) PROVE UNCHANGED result
    BY <2>9 DEF Apply, DropServer
  <2>10. result'[c] = result[c]
    BY <2>2, <2>3, <2>4, <2>5, <2>6, <2>7, <2>8, <2>9, StepKinds
  <2> QED BY <1>1, <2>10 DEF Verdict
<1>2. CASE phase[c] # "done"
  <2>1. BeginUpdate(c) => phase'[c] = "waiting"
    BY <1>i, <1>t DEF BeginUpdate
  <2>2. FinishUpdate /\ holder = c /\ phase[c] = "serving"
    <3>1. FinishJoin => holder # c
      BY <1>i DEF FinishJoin
    <3> QED BY <1>2, <1>i, <2>1, <3>1, PhaseStep
  <2>3. Serving /\ pos = "finish" /\ result' = [result EXCEPT ![c] = <<ReturnCode>>]
    BY <2>2 DEF FinishUpdate
  <2>4. result'[c][1] = ReturnCode
    BY <1>t, <2>3
  <2>5. /\ idx > Len(view) /\ idx \in Nat /\ Len(view) \in Nat
        /\ \A k \in 3..n : \E j \in 2..Len(view) : view[j] = Initial[k]
    <3>1. holder \in Updaters
      BY <2>2, RepairPlan
    <3> QED BY <2>2, <2>3, <3>1, Places DEF Sync, Progress
  <2>6. \A i \in 1..Len(view) : Told(i)
    BY <2>5 DEF Told
  <2>7. this_stale <=> u.fail \in {-1, 1}
    BY <2>2, <2>3 DEF SecondCall
  <2>8. CASE u.fail = -1
    <3>1. ~some_fresh
      BY <2>2, <2>3, <2>8 DEF SecondCall
    <3> QED BY <2>4, <2>7, <2>8, <3>1 DEF ReturnCode, Answer
  <2>9. CASE u.fail = 0
    <3>1. ~some_stale
      BY <2>2, <2>3, <2>9 DEF SecondCall
    <3> QED BY <2>4, <2>7, <2>9, <3>1 DEF ReturnCode, Answer
  <2>10. CASE u.fail = 1
    <3>1. PICK j \in 2..Len(view) : view[j] = Initial[3]
      BY <1>i, <2>5, <2>10
    <3>2. some_fresh
      BY <2>2, <2>3, <2>5, <2>6, <2>10, <3>1 DEF SecondCall
    <3> QED BY <2>4, <2>7, <2>10, <3>2 DEF ReturnCode, Answer
  <2>11. CASE u.fail > 1
    <3>0. u.fail + 1 \in 3..n
      BY <1>i, <2>11
    <3>1. PICK j \in 2..Len(view) : view[j] = Initial[u.fail + 1]
      BY <2>5, <3>0
    <3>2. some_stale
      BY <2>2, <2>3, <2>5, <2>6, <2>11, <3>1 DEF SecondCall
    <3> QED BY <2>4, <2>7, <2>11, <3>2 DEF ReturnCode, Answer
  <2> QED BY <1>i, <2>8, <2>9, <2>10, <2>11
<1> QED BY <1>1, <1>2

-----------------------------------------------------------------------------
LEMMA RepairInvariant ==
  ASSUME Undisturbed
  PROVE  Spec => [](Sync /\ Prompt /\ Repairs)
<1>1. Init => Sync /\ Prompt /\ Repairs
  <2> SUFFICES ASSUME Init PROVE Prompt /\ Repairs
    BY SyncInit
  <2>1. holder = NoClient /\ \A x \in Client : phase[x] = "idle"
    BY DEF Init
  <2>2. ~Serving
    BY <2>1 DEF Serving
  <2>3. Prompt
    BY <2>2 DEF Prompt
  <2>4. ASSUME NEW b \in Client, NEW c \in Client, IsRepair(plan, b, c) PROVE Repair(b, c)
    <3>1. Calls(b, c) /\ AllButOne(b, c) /\ Verdict(b, c)
      BY <2>1 DEF Calls, AllButOne, Verdict
    <3>2. Shape(b)
      BY Constants DEF Init, Shape, Intact
    <3>3. NoneYet(b, c)
      BY DEF Init, NoneYet
    <3>4. FirstCall(b) /\ SecondCall(b, c)
      BY <2>2 DEF FirstCall, SecondCall
    <3> QED BY <3>1, <3>2, <3>3, <3>4 DEF Repair
  <2> QED BY <2>3, <2>4 DEF Repairs
<1>2. Sync /\ Prompt /\ Repairs /\ [Next]_vars => (Sync /\ Prompt /\ Repairs)'
  <2> SUFFICES ASSUME Sync, Prompt, Repairs, [Next]_vars PROVE (Sync /\ Prompt /\ Repairs)'
    OBVIOUS
  <2>1. Sync'
    BY TypesStep, NewcomersStep, SessionStep, LinesStep, CopiedStep, AllMarkedStep, ProgressStep
    DEF Sync
  <2>2. Prompt' /\ UNCHANGED plan
    BY PromptStep, OtherSteps
  <2>3. ASSUME NEW b \in Client, NEW c \in Client, IsRepair(plan, b, c) PROVE Repair(b, c)'
    <3>1. /\ Calls(b, c) /\ Shape(b) /\ NoneYet(b, c) /\ AllButOne(b, c)
          /\ FirstCall(b) /\ SecondCall(b, c) /\ Verdict(b, c)
      BY <2>3 DEF Repairs, Repair
    <3>2. Calls(b, c)' /\ Shape(b)' /\ NoneYet(b, c)'
      BY <2>3, <3>1, CallsStep, ShapeStep, NoneYetStep
    <3>3. FirstCall(b)' /\ AllButOne(b, c)'
      BY <2>3, <3>1, FirstCallStep, AllButOneStep
    <3>4. SecondCall(b, c)' /\ Verdict(b, c)'
      BY <2>3, <3>1, SecondCallStep, VerdictStep
    <3> QED BY <3>2, <3>3, <3>4 DEF Repair
  <2>4. ASSUME NEW b \in Client, NEW c \in Client, IsRepair(plan, b, c)' PROVE Repair(b, c)'
    <3>1. IsRepair(plan, b, c)
      BY <2>2, <2>4 DEF IsRepair
    <3> QED BY <2>3, <3>1
  <2>5. Repairs'
    BY <2>4 DEF Repairs
  <2> QED BY <2>1, <2>2, <2>5
<1> QED BY <1>1, <1>2, PTL DEF Spec

(* add_hosts_fail_wrapper: the second update returns the code from which   *)
(* the test concludes which server had missed the first, whatever queries, *)
(* newcomers, failed receives and the removal of the paused server come in *)
(* between, for any number of servers.  A receive that times out between   *)
(* an answer and its update, or the removal of a server that is up, is     *)
(* ruled out (Undisturbed): after either the conclusion may be wrong.      *)
THEOREM TestFindsMissedServer ==
  ASSUME Undisturbed, \A p \in Plans : \E b, c \in Client : IsRepair(p, b, c)
  PROVE  Spec => []RepairDiagnosis
<1>1. Sync /\ Repairs => RepairDiagnosis
  <2> SUFFICES ASSUME Sync, Repairs PROVE RepairDiagnosis
    OBVIOUS
  <2>1. PICK b \in Client, c \in Client : IsRepair(plan, b, c)
    BY DEF Sync, TypeOK
  <2>2. Verdict(b, c) /\ DOMAIN plan = {b, c} /\ plan[c].after = {b} /\ plan[b].after = {}
    BY <2>1 DEF Repairs, Repair, IsRepair
  <2> SUFFICES ASSUME NEW y \in DOMAIN plan, NEW x \in plan[y].after, phase[y] = "done"
               PROVE  Answer(result[y][1], plan[x].fail) = plan[x].fail
    BY DEF RepairDiagnosis
  <2>3. y = c /\ x = b
    BY <2>2
  <2> QED BY <2>2, <2>3 DEF Verdict
<1> QED BY <1>1, RepairInvariant, PTL

-----------------------------------------------------------------------------
(* The updates of the test -x (add_hosts_wrapper, remove_hosts_wrapper):   *)
(* the first server's own, in which it passes over itself, at its place    *)
(* and by its port, and after which nobody is paused.                      *)
Steady ==
  \A p \in Plans : \A c \in DOMAIN p :
    /\ p[c].coms = Initial[1] /\ p[c].own = Initial[1] /\ p[c].fail = 0 /\ ~p[c].pause

(* Then nobody is left behind, and the first place stays the first         *)
(* server's.                                                               *)
InPlace == Intact /\ astray = {}

LEMMA InPlaceStep ==
  ASSUME Undisturbed, Steady, Sync, Prompt, InPlace, [Next]_vars
  PROVE  InPlace'
<1> USE DEF coms_t, lisVars, clientVars, locals, conn, queries, dirVars
<1>0. /\ rotation \in Seq(Server) /\ Len(Initial) \in Nat /\ plan \in Plans
      /\ Intact /\ astray = {}
  BY Constants DEF Sync, TypeOK, InPlace
<1>1. Intact'
  <2>1. CASE UNCHANGED rotation
    BY <1>0, <2>1 DEF Intact
  <2>2. CASE GoOnline
    <3>1. holder \in Server /\ rotation' = Append(rotation, holder)
      BY <2>2 DEF GoOnline, Join, Put
    <3>2. /\ Len(rotation') = Len(rotation) + 1
          /\ \A i \in 1..Len(rotation) : rotation'[i] = rotation[i]
      BY <1>0, <3>1
    <3> QED BY <1>0, <3>2 DEF Intact
  <2>3. \A s \in Server : ~DropServer(s)
    BY <1>0 DEF DropServer, Undisturbed, Steady, Paused
  <2> QED BY <2>1, <2>2, <2>3, OtherSteps
<1>2. astray' = {}
  <2>1. CASE SkipServer
    <3>1. /\ Serving /\ holder \in Updaters /\ Listed /\ Skipped
          /\ astray' = IF Peer = Me.coms \/ version[Peer] = Me.id THEN astray
                       ELSE astray \cup {Peer}
      BY <2>1 DEF SkipServer, Update
    <3>2. holder \in DOMAIN plan /\ view = rotation /\ idx \in Nat
      BY <3>1, Situation DEF Sync, Session
    <3>3. Me.coms = Initial[1] /\ Me.own = Initial[1] /\ Me.fail = 0 /\ Me.coms \in ToSet(Initial)
      BY <1>0, <3>2, RunningUpdate DEF Steady, Me
    <3>4. view[1] = Initial[1]
      <4>1. 1 \in 1..Len(Initial)
        BY <1>0, <3>3 DEF ToSet
      <4> QED BY <1>0, <3>2, <4>1 DEF Intact
    <3>5. view[idx] = Me.own \/ idx = 1
      BY <3>1, <3>2, <3>3 DEF Skipped
    <3> QED BY <1>0, <3>1, <3>3, <3>4, <3>5 DEF Peer
  <2>2. CASE AckStale
    <3>1. Serving /\ pos = "ack" /\ astray' = IF open THEN astray ELSE astray \cup {Peer}
      BY <2>2 DEF AckStale, Update
    <3> QED BY <1>0, <3>1 DEF Prompt
  <2>3. CASE CopyVersion \/ UpdateOwn
    BY <1>0, <2>3 DEF CopyVersion, UpdateOwn, ActuallyUpdate
  <2>4. ASSUME NEW s \in Server, ListenerStep(s) \/ Fetch(s) \/ DropServer(s)
        PROVE  astray' = {}
    BY <1>0, <2>4
    DEF ListenerStep, SendCount, SendVersion, TakeEntry, Apply, GiveUpEntry, Fetch,
        DropServer, ActuallyUpdate
  <2>5. ASSUME NEW s \in Server PROVE ~EntryLate(s) /\ ~VersionLost
    BY DEF Undisturbed, EntryLate, VersionLost
  <2>6. ASSUME NEW x \in Client, BeginUpdate(x) \/ BeginJoin(x) \/ Enter(x)
        PROVE  astray' = {}
    BY <1>0, <2>6 DEF BeginUpdate, BeginJoin, Enter
  <2>7. ASSUME NEW d \in Domain, CopyEntry(d) PROVE astray' = {}
    BY <1>0, <2>7 DEF CopyEntry
  <2>8. ASSUME NEW s \in Server, NEW d \in Asked, Count(s, d) PROVE astray' = {}
    BY <1>0, <2>8 DEF Count
  <2>9. CASE \/ ContactServer \/ AckFresh \/ AckApplied \/ UpdateFails \/ FinishUpdate
             \/ RequestHosts \/ ListFails \/ GoOnline \/ FinishJoin \/ NoHosts
    BY <1>0, <2>9
    DEF ContactServer, AckFresh, AckApplied, UpdateFails, FinishUpdate, RequestHosts,
        ListFails, GoOnline, FinishJoin, NoHosts
  <2>10. CASE UNCHANGED vars
    BY <1>0, <2>10 DEF vars
  <2>11. ~VersionLost
    BY DEF Undisturbed, VersionLost
  <2> QED
    BY <2>1, <2>2, <2>3, <2>4, <2>5, <2>6, <2>7, <2>8, <2>9, <2>10, <2>11
    DEF Next, ClientStep
<1> QED BY <1>1, <1>2 DEF InPlace

(* update_hosts, "0 if successful": while no server leaves the rotation an *)
(* update that ends, with 0 or another code, is in every server's table.   *)
(* TLC shows what a removal does to it (the run hosts_skip).               *)
THEOREM SteadyUpdatesReachAll ==
  ASSUME Undisturbed, Steady
  PROVE  Spec => []SuccessMeansEverywhere
<1>1. Init => InPlace
  BY Constants DEF Init, InPlace, Intact
<1>2. (Sync /\ Prompt /\ Repairs) /\ InPlace /\ [Next]_vars => InPlace'
  BY InPlaceStep
<1>3. Spec => [](Sync /\ Prompt /\ Repairs)
  BY RepairInvariant
<1>4. Spec => [](Sync /\ InPlace)
  BY <1>1, <1>2, <1>3, PTL DEF Spec
<1>5. Sync /\ InPlace /\ UpdateReachesRotation => SuccessMeansEverywhere
  <2> SUFFICES ASSUME Sync, InPlace, UpdateReachesRotation, Update("finish"),
                      NEW s \in ToSet(rotation)
               PROVE  Has(s)
    BY DEF SuccessMeansEverywhere
  <2>1. PICK i \in 1..Len(rotation) : s = rotation[i]
    BY DEF Sync, TypeOK, ToSet
  <2>2. holder \in DOMAIN plan /\ plan \in Plans
    BY OwnServer DEF Update, Sync, TypeOK
  <2>3. Me.coms = Initial[1] /\ Me.own = Initial[1] /\ Me.fail = 0 /\ Me.coms \in ToSet(Initial)
    BY <2>2, RunningUpdate DEF Steady, Me
  <2>4. rotation[1] = Initial[1]
    <3>1. 1 \in 1..Len(Initial)
      BY <2>3, Constants DEF ToSet
    <3> QED BY <3>1 DEF InPlace, Intact
  <2>5. \/ rotation[i] = Me.own \/ i = 1 \/ Has(rotation[i])
    BY <2>3 DEF UpdateReachesRotation, InPlace
  <2>6. Has(Me.coms)
    BY DEF UpdateReachesRotation
  <2> QED BY <2>1, <2>3, <2>4, <2>5, <2>6
<1> QED BY <1>4, <1>5, UpdatesReachRotation, PTL

-----------------------------------------------------------------------------
(* Only updates that add, and a hosts file with an address in every line.  *)
Additions ==
  /\ \A p \in Plans : \A c \in DOMAIN p : ~p[c].remove
  /\ \A d \in Domain : HostsFile[d] # Empty

(* Then what a query thread has counted stays in the table until it is     *)
(* looked up, whatever the listener and the updates do to the table.       *)
Kept(s) ==
  /\ \A d \in Domain : table[s][d] # Empty
  /\ lookup[s] # <<>> => table[s][lookup[s][1]] # Absent
Answerable == ~misled /\ \A s \in Server : Kept(s)

LEMMA AnswerableStep ==
  ASSUME Additions, Sync, Answerable, [Next]_vars
  PROVE  Answerable'
<1> USE DEF coms_t, lisVars, clientVars, locals, conn, queries, dirVars
<1>0. /\ table \in [Server -> [Domain -> Address]] /\ DOMAIN lookup = Server /\ ~misled
      /\ \A s \in Server :
           Kept(s) /\ (lookup[s] = <<>> \/ (lookup[s][1] \in Asked /\ lookup[s][1] \in Domain))
      /\ plan \in Plans /\ Absent # Empty
  BY Constants DEF Sync, TypeOK, Answerable
<1>1. CASE UNCHANGED <<table, lookup, misled>>
  BY <1>0, <1>1 DEF Answerable, Kept
<1>2. ASSUME NEW s \in Server, holder \in DOMAIN plan, ActuallyUpdate(s), UNCHANGED <<lookup, misled>>
      PROVE  Answerable'
  <2>1. /\ table'[s] = Changed(table[s], Me)
        /\ \A r \in Server : r # s => table'[r] = table[r]
    BY <1>2, ApplyTypes
  <2>2. ~Me.remove /\ Me.ip \notin {Absent, Empty}
    BY <1>0, <1>2, RunningUpdate DEF Additions, Me
  <2>3. \A d \in Domain : table'[s][d] = Me.ip \/ table'[s][d] = table[s][d]
    BY <1>0, <2>1, <2>2 DEF Changed
  <2> QED BY <1>0, <1>2, <2>1, <2>2, <2>3 DEF Answerable, Kept
<1>3. ASSUME Serving, holder \in Joiners, pos # "finish", NEW f,
             table' = [table EXCEPT ![holder] = f], \A d \in Domain : f[d] # Empty,
             UNCHANGED <<lookup, misled>>
      PROVE  Answerable'
  <2>1. holder \in Server /\ Outside(holder)
    BY <1>3 DEF Outside, Serving, Joiners
  <2>2. lookup[holder] = <<>>
    BY <2>1 DEF Sync, Newcomers
  <2> QED BY <1>0, <1>3, <2>1, <2>2 DEF Answerable, Kept
<1>4. CASE UpdateOwn
  <2>1. Serving /\ holder \in Updaters /\ UNCHANGED <<lookup, misled>>
        /\ (ActuallyUpdate(Me.coms) \/ UNCHANGED table)
    BY <1>4 DEF UpdateOwn, Update
  <2> QED BY <2>1, <1>1, <1>2, OwnServer
<1>5. ASSUME NEW s \in Server, Apply(s) PROVE Answerable'
  BY <1>5, <1>2, Applying DEF Apply
<1>6. CASE RequestHosts
  <2>1. /\ Serving /\ holder \in Joiners /\ pos = "next"
        /\ table' = [table EXCEPT ![holder] = NoTable] /\ UNCHANGED <<lookup, misled>>
    BY <1>6 DEF RequestHosts, Joining
  <2>2. \A d \in Domain : NoTable[d] # Empty
    BY <1>0 DEF NoTable
  <2> QED BY <2>1, <2>2, <1>3
<1>7. ASSUME NEW d \in Domain, CopyEntry(d) PROVE Answerable'
  <2>1. /\ Serving /\ holder \in Joiners /\ pos = "list"
        /\ table' = [table EXCEPT ![holder][d] = table[Peer][d]] /\ UNCHANGED <<lookup, misled>>
    BY <1>7 DEF CopyEntry, Joining
  <2>2. Peer \in Server /\ holder \in Server
    BY <2>1, Situation DEF Joiners
  <2> DEFINE f == [table[holder] EXCEPT ![d] = table[Peer][d]]
  <2>3. table' = [table EXCEPT ![holder] = f]
    BY <2>1
  <2>4. \A e \in Domain : f[e] # Empty
    BY <1>0, <2>2 DEF Kept
  <2> HIDE DEF f
  <2> QED BY <2>1, <2>3, <2>4, <1>3
<1>8. ASSUME NEW s \in Server, NEW d \in Asked, Count(s, d) PROVE Answerable'
  <2>1. /\ table[s][d] # Absent /\ lookup' = [lookup EXCEPT ![s] = <<d>>]
        /\ UNCHANGED <<table, misled>>
    BY <1>8 DEF Count, Present
  <2> QED BY <1>0, <2>1 DEF Answerable, Kept
<1>9. ASSUME NEW s \in Server, Fetch(s) PROVE Answerable'
  <2>1. lookup[s] # <<>> /\ table[s][lookup[s][1]] \notin {Absent, Empty}
    BY <1>0, <1>9 DEF Fetch, Kept
  <2>2. UNCHANGED <<table, misled>> /\ lookup' = [lookup EXCEPT ![s] = <<>>]
    BY <1>9, <2>1 DEF Fetch
  <2> QED BY <1>0, <2>2 DEF Answerable, Kept
<1>10. ASSUME NEW x \in Client, BeginUpdate(x) \/ BeginJoin(x) \/ Enter(x)
       PROVE  Answerable'
  BY <1>10, <1>1 DEF BeginUpdate, BeginJoin, Enter
<1>11. ASSUME NEW s \in Server,
              \/ SendCount(s) \/ SendVersion(s) \/ TakeEntry(s) \/ GiveUpEntry(s)
              \/ EntryLate(s) \/ DropServer(s)
       PROVE  Answerable'
  BY <1>11, <1>1 DEF SendCount, SendVersion, TakeEntry, GiveUpEntry, EntryLate, DropServer
<1>12. CASE \/ SkipServer \/ ContactServer \/ AckFresh \/ AckStale \/ AckApplied
            \/ UpdateFails \/ FinishUpdate \/ CopyVersion \/ VersionLost \/ ListFails
            \/ GoOnline \/ FinishJoin \/ NoHosts
  BY <1>12, <1>1
  DEF SkipServer, ContactServer, AckFresh, AckStale, AckApplied, UpdateFails,
      FinishUpdate, CopyVersion, VersionLost, ListFails, GoOnline, FinishJoin, NoHosts
<1>13. CASE UNCHANGED vars
  BY <1>13, <1>1 DEF vars
<1> QED
  BY <1>4, <1>5, <1>6, <1>7, <1>8, <1>9, <1>10, <1>11, <1>12, <1>13
  DEF Next, ClientStep, ListenerStep

(* translate_ip, "NULL if not found": as long as no update removes a       *)
(* domain, no query is answered from an entry that is not there, although  *)
(* it takes two operations and no lock.  TLC shows what a removal between  *)
(* the two does (the run hosts_lookup).                                    *)
THEOREM AdditionsNeverMislead ==
  ASSUME Additions
  PROVE  Spec => []NoEmptyAnswer
<1>1. Init => Answerable
  <2> SUFFICES ASSUME Init PROVE Answerable
    OBVIOUS
  <2>1. \A s \in Server : table[s] = NoTable \/ table[s] = HostsFile
    BY DEF Init
  <2> QED BY <2>1, Constants DEF Init, Answerable, Kept, NoTable, Additions
<1>2. Sync /\ Answerable /\ [Next]_vars => Answerable'
  BY AnswerableStep
<1>3. Answerable => NoEmptyAnswer
  BY DEF Answerable, NoEmptyAnswer
<1> QED BY <1>1, <1>2, <1>3, SyncInvariant, PTL DEF Spec
=============================================================================
