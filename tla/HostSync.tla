------------------------------ MODULE HostSync ------------------------------
(***************************************************************************)
(* The hosts-file protocol (src/src/coms.cc) and the servers that come     *)
(* online with it (update_and_online in src/src/dns_server.c): how an      *)
(* update reaches the table of every server in the rotation, and how a new *)
(* server copies the table of one of them before it joins.                 *)
(*                                                                         *)
(* The router appears as the Directory it implements.  Each server has a   *)
(* thread that serves one TCP connection at a time (check_hosts_requests)  *)
(* and a thread that answers queries (query_handler).  Updates and joining *)
(* servers run in threads of their own, and hold a session with the router *)
(* while they talk to the servers it listed, one after the other: the      *)
(* locals of update_hosts and request_hosts are those of the holder.       *)
(***************************************************************************)
EXTENDS Directory, Integers, FiniteSets

CONSTANTS
  Initial,         \* the servers of the rotation at first, in order
  Domain, Absent, Empty,  \* domain names; no entry, and an empty address
  HostsFile,       \* hosts.txt, a function from Domain
  Plans,           \* ways to call update_hosts: for some updaters, the coms
                   \* it runs on, its parameters, the updates it comes after,
                   \* and if the caller pauses that server next (`pause`)
  Unlucky,         \* servers the monitor may remove though they are up
  Asked,           \* the domains that queries ask for
  Faults,          \* what may fail: "late", "list", "version", "update"
  Garbage          \* what an uninitialised version byte may be

Joiners == Client \cap Server
Updaters == Client \ Server

ASSUME HostSyncConstants ==
  /\ Initial \in Seq(Server) /\ IsInjective(Initial)
  /\ ToSet(Initial) \cap Joiners = {} /\ Absent # Empty
  /\ Asked \subseteq Domain /\ Faults \subseteq {"late", "list", "version", "update"}
  /\ Garbage \subseteq 0..255 /\ IsFiniteSet(Server)
  /\ HostsFile \in [Domain -> {HostsFile[d] : d \in Domain}]

(* The generator's updates: no identifier is that of hosts.txt, and two of *)
(* one identifier are the same update, sent again.                         *)
ASSUME PlansOK ==
  \A p \in Plans :
    /\ DOMAIN p \subseteq Updaters
    /\ \A c \in DOMAIN p :
         /\ p[c].coms \in ToSet(Initial) /\ p[c].id \in 1..255
         /\ p[c].domain \in Domain /\ p[c].ip \notin {Absent, Empty}
    /\ \A b, c \in DOMAIN p :
         p[b].id = p[c].id =>
           p[b].remove = p[c].remove /\ p[b].domain = p[c].domain /\ p[b].ip = p[c].ip

(* All of them are updates of "new_domain".                                *)
ASSUME OneDomain == \A p \in Plans : \A b, c \in DOMAIN p : p[b].domain = p[c].domain

VARIABLES
  plan,     \* for some updaters: the arguments of update_hosts
  table, version, file,  \* coms_t: ip_hash, version_num; hosts<id>.txt
  lis, mail, left, \* each listener: where it is, what it was sent, what it
                   \* has yet to send
  phase, result,   \* each client's phase; what update_hosts returned
  pos, idx, some_fresh, some_stale, this_stale,  \* locals of the holder
  reply, open,     \* its connection: what it was sent; not closed by the peer
  lookup,          \* each query thread: the domain translate_ip counted
  misled,          \* history: a query was answered with an empty address
  astray           \* history: servers an update passed over or did not
                   \* reach, and those handed no version

coms_t == <<table, version, file>>
lisVars == <<lis, mail, left>>
clientVars == <<phase, result>>
locals == <<pos, idx, some_fresh, some_stale, this_stale>>
conn == <<reply, open>>
queries == <<lookup, misled>>
vars == <<dirVars, plan, coms_t, lisVars, clientVars, locals, conn, queries, astray>>

Me == plan[holder]   \* the running update
Peer == view[idx]    \* the server the holder talks to
Serving == holder # NoClient /\ phase[holder] = "serving"
Update(p) == Serving /\ holder \in Updaters /\ pos = p
Joining(p) == Serving /\ holder \in Joiners /\ pos = p
Listed == idx <= Len(view)
NoTable == [d \in Domain |-> Absent]
Present(s) == {d \in Domain : table[s][d] # Absent}

Init ==
  /\ rotation = Initial /\ holder = NoClient /\ view = <<>>
  /\ plan \in Plans
  /\ table = [s \in Server |-> IF s \in Joiners THEN NoTable ELSE HostsFile]
  /\ version = [s \in Server |-> 0] /\ file = [s \in Server |-> <<>>]
  /\ lis = [s \in Server |-> "accept"] /\ mail = [s \in Server |-> "none"]
  /\ left = [s \in Server |-> {}]
  /\ phase = [c \in Client |-> "idle"] /\ result = [c \in Client |-> <<>>]
  /\ pos = "next" /\ idx = 1
  /\ some_fresh = FALSE /\ some_stale = FALSE /\ this_stale = FALSE
  /\ reply = <<>> /\ open = FALSE
  /\ lookup = [s \in Server |-> <<>>] /\ misled = FALSE /\ astray = {}

-----------------------------------------------------------------------------
(* actually_update: the version, the table, and the server's own file.     *)
Changed(t, u) == [t EXCEPT ![u.domain] = IF u.remove THEN Absent ELSE u.ip]

ActuallyUpdate(s) ==
  /\ version' = [version EXCEPT ![s] = Me.id]
  /\ table' = [table EXCEPT ![s] = Changed(@, Me)]
  /\ file' = [file EXCEPT ![s] = <<table'[s]>>]
  /\ astray' = astray \ {s}

-----------------------------------------------------------------------------
(* The clients, up to the list of ports.                                   *)
BeginUpdate(c) ==
  /\ c \in DOMAIN plan /\ phase[c] = "idle"
  /\ \A b \in plan[c].after : phase[b] \in {"done", "failed"}
  /\ IF plan[c].fail = -1
     THEN phase' = [phase EXCEPT ![c] = "done"] /\ result' = [result EXCEPT ![c] = <<3>>]
     ELSE phase' = [phase EXCEPT ![c] = "waiting"] /\ UNCHANGED result
  /\ UNCHANGED <<dirVars, plan, coms_t, lisVars, locals, conn, queries, astray>>

BeginJoin(j) ==
  /\ j \in Joiners /\ phase[j] = "idle" /\ phase' = [phase EXCEPT ![j] = "waiting"]
  /\ UNCHANGED <<dirVars, plan, coms_t, lisVars, result, locals, conn, queries, astray>>

Enter(c) ==
  /\ phase[c] = "waiting" /\ Open(c) /\ phase' = [phase EXCEPT ![c] = "serving"]
  /\ pos' = "next" /\ idx' = 1 /\ some_fresh' = FALSE /\ some_stale' = FALSE
  /\ this_stale' = (c \in Updaters /\ version[plan[c].coms] # plan[c].id)
  /\ UNCHANGED <<plan, coms_t, lisVars, result, conn, queries, astray>>

(* Connecting to the next listed server and sending the request code; the  *)
(* server reads it when its listener is back in accept.                    *)
Connect(code) ==
  /\ lis[Peer] = "accept" /\ mail[Peer] = "none"
  /\ mail' = [mail EXCEPT ![Peer] = code] /\ reply' = <<>> /\ open' = TRUE

PassesOne(n) == idx' = idx + n + 1 /\ pos' = "next"  \* mutant: one too many
NextPort(n) == idx' = idx + n /\ pos' = "next"

-----------------------------------------------------------------------------
(* update_hosts: one server after the other ...                            *)
SkipOneBased == view[idx] = Me.own \/ idx = Me.fail  \* mutant: counts from 1
Skipped == view[idx] = Me.own \/ idx - 1 = Me.fail

SkipServer ==
  /\ Update("next") /\ Listed /\ Skipped /\ idx' = idx + 1
  /\ astray' = IF Peer = Me.coms \/ version[Peer] = Me.id
               THEN astray ELSE astray \cup {Peer}
  /\ UNCHANGED <<dirVars, plan, coms_t, lisVars, clientVars, pos, some_fresh,
                 some_stale, this_stale, conn, queries>>

ContactServer ==
  /\ Update("next") /\ Listed /\ ~Skipped /\ Connect("update") /\ pos' = "ack"
  /\ UNCHANGED <<dirVars, plan, coms_t, lis, left, clientVars, idx, some_fresh,
                 some_stale, this_stale, queries, astray>>

(* ... which is left alone if its version is the update's ...              *)
AckFresh ==
  /\ Update("ack") /\ reply = <<Me.id>> /\ some_fresh' = TRUE
  /\ IF open THEN mail' = [mail EXCEPT ![Peer] = "eof"] ELSE UNCHANGED mail
  /\ NextPort(1)
  /\ UNCHANGED <<dirVars, plan, coms_t, lis, left, clientVars, some_stale,
                 this_stale, conn, queries, astray>>

(* ... and sent the update if not.                                         *)
AckStale ==
  /\ Update("ack") /\ reply # <<>> /\ reply # <<Me.id>> /\ some_stale' = TRUE
  /\ IF open THEN mail' = [mail EXCEPT ![Peer] = "entry"] ELSE UNCHANGED mail
  /\ pos' = "applied" /\ astray' = IF open THEN astray ELSE astray \cup {Peer}
  /\ UNCHANGED <<dirVars, plan, coms_t, lis, left, clientVars, idx, some_fresh,
                 this_stale, conn, queries>>

(* There is no second acknowledgement: the wait ends when the server, done *)
(* with the update, closes the connection.                                 *)
NoWait == TRUE  \* mutant: goes on at once
PeerClosed == ~open

AckApplied ==
  /\ Update("applied") /\ PeerClosed /\ NextPort(1)
  /\ UNCHANGED <<dirVars, plan, coms_t, lisVars, clientVars, some_fresh,
                 some_stale, this_stale, conn, queries, astray>>

(* A receive that fails returns 1; the router's session is never ended.    *)
UpdateFails ==
  /\ "update" \in Faults /\ (Update("ack") \/ Update("applied"))
  /\ phase' = [phase EXCEPT ![holder] = "failed"]
  /\ result' = [result EXCEPT ![holder] = <<1>>]
  /\ IF lis[Peer] = "apply" \/ ~open THEN UNCHANGED <<lis, mail>>
     ELSE lis' = [lis EXCEPT ![Peer] = "accept"] /\ mail' = [mail EXCEPT ![Peer] = "none"]
  /\ UNCHANGED <<dirVars, plan, coms_t, left, locals, conn, queries, astray>>

UpdateOwn ==
  /\ Update("next") /\ ~Listed /\ pos' = "finish"
  /\ IF this_stale THEN ActuallyUpdate(Me.coms) ELSE UNCHANGED <<coms_t, astray>>
  /\ UNCHANGED <<dirVars, plan, lisVars, clientVars, idx, some_fresh, some_stale,
                 this_stale, conn, queries>>

ReturnCode ==
  IF this_stale THEN IF some_fresh THEN 8 ELSE 0
  ELSE IF some_stale THEN 9 ELSE 6

FinishUpdate ==
  /\ Update("finish") /\ Close
  /\ phase' = [phase EXCEPT ![holder] = "done"]
  /\ result' = [result EXCEPT ![holder] = <<ReturnCode>>]
  /\ UNCHANGED <<plan, coms_t, lisVars, locals, conn, queries, astray>>
-----------------------------------------------------------------------------
(* update_and_online: asks one listed server after the other for its hosts *)
(* (request_hosts), until one has sent them, and then joins.               *)
RequestHosts ==
  /\ Joining("next") /\ Listed /\ Connect("list") /\ pos' = "list"
  /\ table' = [table EXCEPT ![holder] = NoTable]
  /\ UNCHANGED <<dirVars, plan, version, file, lis, left, clientVars, idx,
                 some_fresh, some_stale, this_stale, queries, astray>>

(* An acknowledgement, and an entry for it.                                *)
CopyEntry(d) ==
  /\ Joining("list") /\ lis[Peer] = "send" /\ d \in left[Peer]
  /\ left' = [left EXCEPT ![Peer] = @ \ {d}]
  /\ table' = [table EXCEPT ![holder][d] = table[Peer][d]]
  /\ UNCHANGED <<dirVars, plan, version, file, lis, mail, clientVars, locals,
                 conn, queries, astray>>

(* The last acknowledgement, and the version for it.                       *)
NoVersion == 0  \* mutant: the new server keeps create_coms's version
HandedVersion == version[Peer]

CopyVersion ==
  /\ Joining("list") /\ lis[Peer] = "send" /\ left[Peer] = {}
  /\ version' = [version EXCEPT ![holder] = HandedVersion]
  /\ astray' = IF Peer \in astray THEN astray \cup {holder} ELSE astray
  /\ lis' = [lis EXCEPT ![Peer] = "accept"] /\ open' = FALSE /\ pos' = "found"
  /\ UNCHANGED <<dirVars, plan, table, file, mail, left, clientVars, idx,
                 some_fresh, some_stale, this_stale, reply, queries>>

(* That receive fails, and nobody looks: the version is what the variable  *)
(* held, and request_hosts returns 0.                                      *)
VersionLost ==
  /\ "version" \in Faults
  /\ Joining("list") /\ lis[Peer] = "send" /\ left[Peer] = {}
  /\ \E v \in Garbage : version' = [version EXCEPT ![holder] = v]
  /\ astray' = astray \cup {holder}
  /\ lis' = [lis EXCEPT ![Peer] = "accept"] /\ open' = FALSE /\ pos' = "found"
  /\ UNCHANGED <<dirVars, plan, table, file, mail, left, clientVars, idx,
                 some_fresh, some_stale, this_stale, reply, queries>>

(* The connection fails: on to the next server.                            *)
ListFails ==
  /\ "list" \in Faults /\ Joining("list") /\ NextPort(1)
  /\ lis' = [lis EXCEPT ![Peer] = "accept"] /\ mail' = [mail EXCEPT ![Peer] = "none"]
  /\ left' = [left EXCEPT ![Peer] = {}] /\ open' = FALSE
  /\ UNCHANGED <<dirVars, plan, coms_t, clientVars, some_fresh, some_stale,
                 this_stale, reply, queries, astray>>

GoOnline ==
  /\ Joining("found") /\ Join /\ pos' = "finish"
  /\ UNCHANGED <<plan, coms_t, lisVars, clientVars, idx, some_fresh, some_stale,
                 this_stale, conn, queries, astray>>

FinishJoin ==
  /\ Joining("finish") /\ Close /\ phase' = [phase EXCEPT ![holder] = "done"]
  /\ UNCHANGED <<plan, coms_t, lisVars, result, locals, conn, queries, astray>>

(* No server sent its hosts: closed without a word, and the router waits.  *)
NoHosts ==
  /\ Joining("next") /\ ~Listed /\ phase' = [phase EXCEPT ![holder] = "failed"]
  /\ UNCHANGED <<dirVars, plan, coms_t, lisVars, result, locals, conn, queries, astray>>

-----------------------------------------------------------------------------
(* The listener of a server: process_next_request.                         *)
SendCount(s) ==  \* send_entire_file
  /\ lis[s] = "accept" /\ mail[s] = "list"
  /\ lis' = [lis EXCEPT ![s] = "send"] /\ mail' = [mail EXCEPT ![s] = "none"]
  /\ left' = [left EXCEPT ![s] = Present(s)]
  /\ UNCHANGED <<dirVars, plan, coms_t, clientVars, locals, conn, queries, astray>>

SendVersion(s) ==  \* recieve_update
  /\ lis[s] = "accept" /\ mail[s] = "update"
  /\ lis' = [lis EXCEPT ![s] = "offer"] /\ mail' = [mail EXCEPT ![s] = "none"]
  /\ reply' = <<version[s]>>
  /\ UNCHANGED <<dirVars, plan, coms_t, left, clientVars, locals, open, queries, astray>>

TakeEntry(s) ==
  /\ lis[s] = "offer" /\ mail[s] = "entry"
  /\ lis' = [lis EXCEPT ![s] = "apply"] /\ mail' = [mail EXCEPT ![s] = "none"]
  /\ UNCHANGED <<dirVars, plan, coms_t, left, clientVars, locals, conn, queries, astray>>

Apply(s) ==
  /\ lis[s] = "apply" /\ lis' = [lis EXCEPT ![s] = "accept"]
  /\ ActuallyUpdate(s) /\ open' = FALSE
  /\ UNCHANGED <<dirVars, plan, mail, left, clientVars, locals, reply, queries>>

(* The sender had nothing for this server: recv returns 0.                 *)
NoEnd(s) == FALSE  \* mutant: waits for the rest of the update
EndOfStream(s) == mail[s] = "eof"

GiveUpEntry(s) ==
  /\ lis[s] = "offer" /\ EndOfStream(s)
  /\ lis' = [lis EXCEPT ![s] = "accept"] /\ mail' = [mail EXCEPT ![s] = "none"]
  /\ UNCHANGED <<dirVars, plan, coms_t, left, clientVars, locals, conn, queries, astray>>

(* The receive times out after two seconds without the update.             *)
EntryLate(s) ==
  /\ "late" \in Faults /\ lis[s] = "offer" /\ mail[s] = "none"
  /\ lis' = [lis EXCEPT ![s] = "accept"] /\ open' = FALSE
  /\ UNCHANGED <<dirVars, plan, coms_t, mail, left, clientVars, locals, reply,
                 queries, astray>>

-----------------------------------------------------------------------------
(* translate_ip on the query thread: counts the domain, and then looks it  *)
(* up with an operator that inserts it when it is not there.               *)
Count(s, d) ==
  /\ s \in ToSet(rotation) /\ lookup[s] = <<>> /\ d \in Present(s)
  /\ lookup' = [lookup EXCEPT ![s] = <<d>>]
  /\ UNCHANGED <<dirVars, plan, coms_t, lisVars, clientVars, locals, conn,
                 misled, astray>>

Fetch(s) ==
  /\ lookup[s] # <<>> /\ lookup' = [lookup EXCEPT ![s] = <<>>]
  /\ LET d == lookup[s][1]
     IN  IF table[s][d] \in {Absent, Empty}
         THEN table' = [table EXCEPT ![s][d] = Empty] /\ misled' = TRUE
         ELSE UNCHANGED <<table, misled>>
  /\ UNCHANGED <<dirVars, plan, version, file, lisVars, clientVars, locals,
                 conn, astray>>

(* The monitor removes a server that the generator paused after its update *)
(* (add_hosts_fail_wrapper), or whose answer to a probe was lost.          *)
Paused(s) ==
  \E c \in DOMAIN plan :
    plan[c].pause /\ plan[c].coms = s /\ phase[c] \in {"done", "failed"}

DropServer(s) ==
  /\ Paused(s) \/ s \in Unlucky
  /\ Drop(s)
  /\ UNCHANGED <<plan, coms_t, lisVars, clientVars, locals, conn, queries, astray>>

-----------------------------------------------------------------------------
ClientStep ==
  \/ SkipServer \/ ContactServer \/ AckFresh \/ AckStale \/ AckApplied
  \/ UpdateOwn \/ FinishUpdate
  \/ RequestHosts \/ (\E d \in Domain : CopyEntry(d)) \/ CopyVersion \/ GoOnline
  \/ FinishJoin \/ NoHosts
ListenerStep(s) ==
  SendCount(s) \/ SendVersion(s) \/ TakeEntry(s) \/ Apply(s) \/ GiveUpEntry(s)

Next ==
  \/ \E c \in Client : BeginUpdate(c) \/ BeginJoin(c) \/ Enter(c)
  \/ ClientStep \/ UpdateFails \/ ListFails \/ VersionLost
  \/ \E s \in Server : ListenerStep(s) \/ EntryLate(s) \/ Fetch(s) \/ DropServer(s)
  \/ \E s \in Server, d \in Asked : Count(s, d)

Spec == Init /\ [][Next]_vars

(* The threads of the router and of the servers run for ever, and so does  *)
(* a client's once it has begun.                                           *)
FairSpec ==
  /\ Spec /\ WF_vars(\E c \in Client : Enter(c)) /\ WF_vars(ClientStep)
  /\ \A s \in Server : WF_vars(ListenerStep(s))

-----------------------------------------------------------------------------
(* The types of the variables.                                             *)
Address == {HostsFile[d] : d \in Domain} \cup {Absent, Empty}
             \cup UNION {{p[c].ip : c \in DOMAIN p} : p \in Plans}
TypeOK ==
  /\ rotation \in Seq(Server) /\ holder \in Client \cup {NoClient}
  /\ view \in Seq(Server) /\ plan \in Plans
  /\ table \in [Server -> [Domain -> Address]] /\ version \in [Server -> 0..255]
  /\ DOMAIN file = Server /\ DOMAIN lookup = Server /\ DOMAIN result = Client
  /\ \A s \in Server :
       /\ file[s] = <<>> \/ file[s][1] \in [Domain -> Address]
       /\ lookup[s] = <<>> \/ lookup[s][1] \in Asked
  /\ lis \in [Server -> {"accept", "send", "offer", "apply"}]
  /\ mail \in [Server -> {"none", "list", "update", "entry", "eof"}]
  /\ left \in [Server -> SUBSET Domain]
  /\ phase \in [Client -> {"idle", "waiting", "serving", "done", "failed"}]
  /\ \A c \in Client : result[c] = <<>> \/ result[c][1] \in {0, 1, 3, 6, 8, 9}
  /\ pos \in {"next", "ack", "applied", "list", "found", "finish"}
  /\ idx \in 1..(Cardinality(Server) + 1)
  /\ {some_fresh, some_stale, this_stale, open, misled} \subseteq BOOLEAN
  /\ (reply = <<>> \/ reply[1] \in 0..255) /\ astray \subseteq Server

(* A table has the change of the running update.  An entry that a lookup   *)
(* has revived counts as removed.                                          *)
Has(s) ==
  /\ version[s] = Me.id
  /\ table[s][Me.domain] \in IF Me.remove THEN {Absent, Empty} ELSE {Me.ip}

(* When update_hosts is about to tell the router that it is done, every    *)
(* server has the change in its table but those it was told to pass over   *)
(* and those that timed out or have no version: the wait for the           *)
(* connection to close is an acknowledgement, and no one who joined in     *)
(* between is overlooked.                                                  *)
UpdateReachesRotation ==
  Update("finish") =>
    /\ Has(Me.coms)
    /\ \A i \in 1..Len(rotation) :
         \/ rotation[i] = Me.own \/ i - 1 = Me.fail
         \/ rotation[i] \in astray \/ Has(rotation[i])

(* "Update the host file and propogate to other servers ... 0 if           *)
(* successful": an update that returns 0 is in every server's table.       *)
SuccessMeansEverywhere ==
  Update("finish") /\ ReturnCode = 0 => \A s \in ToSet(rotation) : Has(s)

(* Between sessions the servers of the rotation that were not left behind  *)
(* serve the same hosts under the same version, and the files they have    *)
(* written say the same: whatever the order of updates and newcomers.      *)
SameEntry(a, b) == a = b \/ {a, b} \subseteq {Absent, Empty}
SameTable(f, g) == \A d \in Domain : SameEntry(f[d], g[d])
Agree(s, t) ==
  /\ version[s] = version[t] /\ SameTable(table[s], table[t])
  /\ file[t] # <<>> => SameTable(table[s], file[t][1])
Agreement ==
  holder = NoClient =>
    \A s, t \in ToSet(rotation) \ astray : Agree(s, t)

(* A server's table has no lock; an update thread writes that of its own   *)
(* server only when the server's listener is not reading or writing it.    *)
WriterAlone ==
  Update("next") /\ ~Listed /\ this_stale =>
    /\ lis[Me.coms] \notin {"send", "apply"}
    /\ ~(lis[Me.coms] = "offer" /\ mail[Me.coms] = "entry")

(* add_hosts_fail_wrapper: from the code that the second update returns,   *)
(* the test tells which server the first one passed over (-1: no update).  *)
Answer(res, choice) ==
  CASE res = 6 -> 0 [] res = 0 -> -1 [] res = 8 -> 1
    [] res = 9 -> IF choice > 1 THEN choice ELSE -2 [] OTHER -> -2
RepairDiagnosis ==
  \A c \in DOMAIN plan : \A b \in plan[c].after :
    plan[b].pause /\ phase[c] = "done" => Answer(result[c][1], plan[b].fail) = plan[b].fail

(* translate_ip: "NULL if not found", and the lock that coms.h promises:   *)
(* no query is answered from an entry that is not in the table.            *)
NoEmptyAnswer == ~misled

(* Every client that reaches the router is served to the end, unless one   *)
(* of them lost its connection or found no hosts.                          *)
ClientsFinish ==
  \A c \in Client :
    phase[c] = "waiting" ~>
      phase[c] = "done" \/ \E b \in Client : phase[b] = "failed"
=============================================================================
