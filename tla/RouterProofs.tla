---------------------------- MODULE RouterProofs ----------------------------
(***************************************************************************)
(* Theorems about Router, for any servers, clients, modes and bounds.      *)
(*                                                                         *)
(* The inductive invariant comes in two parts.  Membership needs no lock:  *)
(* it counts the rotation's entries, follows every client through its one  *)
(* session, and shows that what the monitor is about to remove is still    *)
(* there.  Exclusion supposes that the mutexes exclude, and shows who      *)
(* holds them and that a session sees the rotation stand still.            *)
(***************************************************************************)
EXTENDS Router, RotationLemmas

(* add_dns_server has counted a server that it has not stored yet.         *)
Counted ==
  server_cnt = IF storing \/ acc_pc = "store" THEN Len(servers) + 1 ELSE Len(servers)

(* No client is served before the initial servers are in.                  *)
Startup ==
  /\ storing => added < Len(Initial)
  /\ added < Len(Initial) =>
       acc_pc = "accept" /\ \A c \in Clients : client[c] = "idle"

(* A client has one session; what it answered is its last word.            *)
Clientele ==
  /\ acc_pc # "accept" => cur \in Clients /\ client[cur] \in {"served", "done", "broken"}
  /\ \A c \in Clients : client[c] = "served" => acc_pc # "accept" /\ c = cur
  /\ acc_pc # "accept" /\ reply # "none" => client[cur] # "served"
  /\ acc_pc # "accept" /\ reply = "reset" => client[cur] = "broken"
  /\ acc_pc \in {"add", "store", "unlock"} => client[cur] # "served"
  /\ acc_pc \in {"lock", "count"} => reply \in {"none", "reset"} /\ client[cur] # "done"
  /\ (acc_pc \in {"ports", "wait"} /\ reply = "self") \/ acc_pc \in {"add", "store"} =>
       cur \in Joiners /\ client[cur] = "done"

(* Every entry of the rotation got there once: as an initial server, or    *)
(* through its own session, which is over.                                 *)
Distinct ==
  /\ IsInjective(servers)
  /\ \A i \in 1..Len(servers) :
       \/ \E k \in 1..added : servers[i] = Initial[k]
       \/ /\ servers[i] \in Joiners /\ client[servers[i]] = "done"
          /\ cur = servers[i] => acc_pc \in {"accept", "unlock"}

(* The monitor's list of silent servers is a part of the rotation.         *)
Silent ==
  /\ mon_pc \in {"drain", "remove", "delete"} =>
       /\ IsInjective(offline)
       /\ \A i \in 1..Len(offline) : Contains(servers, offline[i])
  /\ mon_pc = "delete" => offline # <<>>

Membership == TypeOK /\ Counted /\ Startup /\ Clientele /\ Distinct /\ Silent

(* The router that create_router returns satisfies the invariant.          *)
LEMMA MembershipInit == Init => Membership
<1> SUFFICES ASSUME Init PROVE Membership
  OBVIOUS
<1>1. TypeOK
  <2>1. Len(Initial) \in Nat /\ MaxPending \in Nat
    BY ConstantsOK DEF ConstantsOK
  <2>2. <<>> \in Seq(Server)
    OBVIOUS
  <2>3. /\ probes \in [Server -> 0..MaxPending] /\ pongs \in [Server -> 0..MaxPending]
        /\ alive \in [Server -> {"up", "last", "paused"}] /\ spared \in [Server -> 0..2]
        /\ client \in [Clients -> {"idle", "waiting", "served", "done", "broken"}]
    BY <2>1 DEF Init
  <2>4. /\ servers \in Seq(Server) /\ offline \in Seq(Server)
        /\ listed \in Seq(Server) /\ recent \in Seq(Server)
    BY <2>2 DEF Init
  <2>5. /\ server_cnt = 0 /\ curr_server = 0 /\ mode \in Modes /\ mutex = Nobody
        /\ tcp_mutex = Nobody /\ added = 0 /\ storing \in BOOLEAN /\ mon_pc = "start"
        /\ starting_cnt = 0 /\ cnt = 0 /\ acc_pc = "accept" /\ cur = NoClient
        /\ announced = 0 /\ reply = "none" /\ fault = "none" /\ asked = {} /\ answered = {}
    BY DEF Init
  <2>6. QED
    BY <2>1, <2>3, <2>4, <2>5 DEF TypeOK
<1>2. QED
  BY <1>1 DEF Init, Membership, Counted, Startup, Clientele, Distinct, Silent, IsInjective

(* The history of requests is a sequence of servers, however it is cut.    *)
LEMMA RememberType ==
  ASSUME TypeOK, NEW s \in Server
  PROVE  Remember(s) \in Seq(Server)
<1> DEFINE long == Append(recent, s)
<1>1. long \in Seq(Server) /\ Len(long) \in Nat
  BY DEF TypeOK
<1> HIDE DEF long
<1>2. SubSeq(long, 2, Len(long)) \in Seq(Server)
  BY <1>1
<1>3. Remember(s) = IF Len(long) > Window THEN SubSeq(long, 2, Len(long)) ELSE long
  BY DEF Remember, long
<1>4. QED
  BY <1>1, <1>2, <1>3

(* Every step of every thread, client and server keeps the types.          *)
LEMMA TypeStep ==
  ASSUME Membership, [Next]_vars
  PROVE  TypeOK'
<1> USE DEF Membership, TypeOK, Nobody, Threads, Clients, Main, Monitor, Acceptor, Running, Sound
<1> USE DEF router_t, locks, mainVars, monVars, accVars, netVars, history
<1>0. /\ TypeOK /\ Len(Initial) \in Nat /\ MaxPending \in Nat \ {0}
      /\ \A i \in 1..Len(Initial) : Initial[i] \in Server
  BY ConstantsOK DEF ConstantsOK, Server
<1>p. /\ probes \in [Server -> 0..MaxPending] /\ pongs \in [Server -> 0..MaxPending]
      /\ spared \in [Server -> 0..2] /\ <<>> \in Seq(Server)
  BY SMTT(30)
<1>1. CASE MainAddLock
  BY <1>1, <1>0 DEF MainAddLock, GrowCount, LockedBy
<1>2. CASE MainAddStore
  <2>1. Initial[added + 1] \in Server /\ added + 1 \in 0..Len(Initial)
    BY <1>2, <1>0 DEF MainAddStore, Startup
  <2>2. Append(servers, Initial[added + 1]) \in Seq(Server)
    BY <2>1
  <2>3. /\ servers' \in Seq(Server) /\ recent' \in Seq(Server) /\ mutex' = Nobody
    BY <1>2, <1>p, <2>2 DEF MainAddStore, StoreServer
  <2>6. added' \in 0..Len(Initial) /\ storing' \in BOOLEAN
    BY <1>2, <2>1 DEF MainAddStore
  <2>4. UNCHANGED <<server_cnt, curr_server, mode, tcp_mutex, monVars, accVars, netVars,
                    fault, asked, answered, spared>>
    BY <1>2 DEF MainAddStore
  <2>5. QED
    BY <2>3, <2>4, <2>6, SMTT(30)
<1>3. CASE Forward
  <2> DEFINE chosen == ChosenServer(mode, curr_server, server_cnt)
  <2>1. chosen \in Nat /\ NextServer(mode, curr_server, server_cnt) \in Nat
    BY <1>3, <1>0 DEF Forward, ChosenServer, NextServer
  <2> HIDE DEF chosen
  <2>2. chosen < Len(servers) => servers[chosen + 1] \in Server
    BY <2>1, SMTT(30)
  <2>3. recent' \in Seq(Server) /\ fault' \in {"none", "forward"}
    BY <1>3, <2>2, RememberType DEF Forward, chosen
  <2>4. curr_server' \in Nat
    BY <1>3, <2>1 DEF Forward
  <2>5. QED
    BY <1>3, <2>3, <2>4, SMTT(30) DEF Forward
<1>4. CASE ForwardTraps
  BY <1>4, <1>0 DEF ForwardTraps
<1>5. CASE ForwardNoServers
  BY <1>5, <1>0 DEF ForwardNoServers, LockedBy
<1>6. CASE Round
  BY <1>6, <1>0 DEF Round
<1>7. CASE Probe
  <2>1. ToSet(servers) \subseteq Server
    BY DEF ToSet
  <2>2. probes' \in [Server -> 0..MaxPending]
    <3>1. \A s \in Server : probes[s] \in 0..MaxPending
      BY <1>p
    <3>2. \A s \in Server :
            (IF Contains(servers, s) /\ probes[s] < MaxPending
             THEN probes[s] + 1 ELSE probes[s]) \in 0..MaxPending
      BY <3>1, <1>0
    <3>3. QED
      BY <1>7, <1>p, <3>2 DEF Probe
  <2>3. QED
    BY <1>7, <2>1, <2>2 DEF Probe
<1>8. CASE Alloc
  BY <1>8, <1>0 DEF Alloc
<1>9. CASE Fill
  BY <1>9, <1>0 DEF Fill, AllIds
<1>10. CASE Verdict
  <2>1. \A s \in Server : spared[s] \in 0..2
    BY <1>p
  <2>2. \A s \in Server :
          (IF /\ alive[s] = "paused" /\ Contains(servers, s)
              /\ ~Contains(offline, s) /\ spared[s] < 2
           THEN spared[s] + 1 ELSE spared[s]) \in 0..2
    BY <2>1
  <2>3. spared' \in [Server -> 0..2]
    BY <1>10, <1>p, <2>2 DEF Verdict
  <2>6. offline' \in Seq(Server)
    BY <1>10, <1>p DEF Verdict
  <2>4. mon_pc' \in {"start", "remove"} /\ cnt' = 0 /\ starting_cnt' = 0
    BY <1>10 DEF Verdict
  <2>5. UNCHANGED <<router_t, locks, mainVars, accVars, netVars, fault, recent,
                    asked, answered>>
    BY <1>10 DEF Verdict
  <2>7. QED
    BY <2>3, <2>4, <2>5, <2>6
<1>11. ASSUME NEW s \in Server, DrainPong(s) PROVE TypeOK'
  <2>1. RemoveFirst(offline, s) \in Seq(Server)
    BY <1>11, RemoveFirstProperties, RemoveFirstOfAbsent DEF DrainPong, Silent
  <2>2. pongs' \in [Server -> 0..MaxPending]
    BY <1>11, <1>0 DEF DrainPong
  <2>3. QED
    BY <1>11, <2>1, <2>2 DEF DrainPong
<1>12. CASE RemoveLock
  BY <1>12, <1>0 DEF RemoveLock, LockedBy
<1>13. CASE RemoveDelete
  <2>1. Contains(servers, Head(offline)) =>
          RemoveFirst(servers, Head(offline)) \in Seq(Server) /\ server_cnt - 1 \in Nat
    <3>1. Contains(servers, Head(offline)) => Len(servers) \in Nat \ {0}
      BY DEF Contains
    <3>2. QED
      BY <3>1, RemoveFirstProperties DEF Counted, Distinct
  <2>2. Tail(offline) \in Seq(Server)
    BY <1>13 DEF RemoveDelete, MayDelete, Silent
  <2>3. servers' \in Seq(Server) /\ server_cnt' \in Nat /\ offline' \in Seq(Server)
    BY <1>13, <2>1, <2>2 DEF RemoveDelete
  <2>4. /\ mutex' \in Threads \cup {Nobody} /\ tcp_mutex' \in Threads \cup {Nobody}
        /\ mon_pc' = "remove" /\ fault' \in {"none", "delete"}
    BY <1>13 DEF RemoveDelete, LockedBy
  <2>5. recent' \in Seq(Server)
    BY <1>13, <1>p DEF RemoveDelete
  <2>6. UNCHANGED <<curr_server, mode, mainVars, starting_cnt, cnt, accVars,
                    netVars, asked, answered, spared>>
    BY <1>13 DEF RemoveDelete
  <2>7. QED
    BY <2>3, <2>4, <2>5, <2>6
<1>14. CASE RoundDone
  BY <1>14, <1>0 DEF RoundDone
<1>15. ASSUME NEW s \in Server, Respond(s) PROVE TypeOK'
  <2>1. probes[s] - 1 \in 0..MaxPending /\ (pongs[s] < MaxPending => pongs[s] + 1 \in 0..MaxPending)
    BY <1>15, <1>0, <1>p DEF Respond
  <2>a. probes' = [probes EXCEPT ![s] = probes[s] - 1] /\ (pongs' = pongs \/ (pongs[s] < MaxPending /\ pongs' = [pongs EXCEPT ![s] = pongs[s] + 1]))
    BY <1>15 DEF Respond
  <2>b. probes' \in [Server -> 0..MaxPending] /\ pongs' \in [Server -> 0..MaxPending]
    BY <2>1, <2>a, <1>p
  <2>2. alive' \in [Server -> {"up", "last", "paused"}] /\ answered' \subseteq Server
    BY <1>15 DEF Respond
  <2>3. QED
    BY <1>15, <2>b, <2>2 DEF Respond
<1>16. ASSUME NEW s \in Server, Pause(s) PROVE TypeOK'
  BY <1>16, <1>0 DEF Pause
<1>17. ASSUME NEW c \in Clients, Connect(c) PROVE TypeOK'
  BY <1>17, <1>0, SMTT(30) DEF Connect
<1>18. ASSUME NEW c \in Clients, Accept(c) PROVE TypeOK'
  BY <1>18, <1>0 DEF Accept
<1>19. CASE LockTcp
  BY <1>19, <1>0 DEF LockTcp, LockedBy
<1>20. CASE SendCount
  BY <1>20, <1>0 DEF SendCount
<1>21. CASE SendPort
  <2>1. Len(listed) + 1 \in 1..Len(servers)
    BY <1>21 DEF SendPort, Counted, Startup
  <2>2. Append(listed, servers[Len(listed) + 1]) \in Seq(Server)
    BY <2>1
  <2>3. listed' \in Seq(Server)
    BY <1>21, <2>2 DEF SendPort
  <2>4. UNCHANGED <<router_t, locks, mainVars, monVars, acc_pc, cur, announced,
                    reply, client, netVars, fault, history>>
    BY <1>21 DEF SendPort
  <2>5. QED
    BY <2>3, <2>4, SMTT(30)
<1>22. CASE PortsSent
  BY <1>22, <1>0, SMTT(30) DEF PortsSent
<1>23. CASE SessionFails
  BY <1>23, <1>0 DEF SessionFails
<1>24. CASE ReadReply
  BY <1>24, <1>0 DEF ReadReply
<1>25. CASE JoinLock
  BY <1>25, <1>0 DEF JoinLock, GrowCount, LockedBy
<1>26. CASE JoinStore
  BY <1>26, <1>0 DEF JoinStore, StoreServer, Clientele, Server
<1>27. CASE EndSession
  BY <1>27, <1>0 DEF EndSession, Unlock
<1>28. ASSUME NEW c \in Clients, EndStep(c) \/ Reset(c) PROVE TypeOK'
  <2>1. PICK r \in {"none", "self", "null", "eof", "reset"} : Answer(c, r)
    BY <1>28 DEF EndStep, Register, GiveUp, Finish, Abandon, Reset
  <2>2. client' \in [Clients -> {"idle", "waiting", "served", "done", "broken"}]
    BY <2>1 DEF Answer
  <2>3. QED
    BY <2>1, <2>2 DEF Answer
<1>29. CASE UNCHANGED vars
  BY <1>29, <1>0 DEF vars
<1>30. QED
  BY <1>1, <1>2, <1>3, <1>4, <1>5, <1>6, <1>7, <1>8, <1>9, <1>10, <1>11,
     <1>12, <1>13, <1>14, <1>15, <1>16, <1>17, <1>18, <1>19, <1>20, <1>21,
     <1>22, <1>23, <1>24, <1>25, <1>26, <1>27, <1>28, <1>29
  DEF Next, MainStep, MonitorStep, AcceptorStep

-----------------------------------------------------------------------------
(* The steps that neither change the rotation nor move a session.          *)
Aside ==
  \/ Forward \/ ForwardTraps \/ ForwardNoServers
  \/ Round \/ Probe \/ Alloc \/ Fill \/ Verdict \/ RemoveLock \/ RoundDone
  \/ \E s \in Server : DrainPong(s) \/ Respond(s) \/ Pause(s)
  \/ UNCHANGED vars

(* The steps set aside leave the rotation, main, tcp_mutex and the         *)
(* acceptor alone.                                                         *)
LEMMA AsideKeeps ==
  ASSUME Aside
  PROVE  UNCHANGED <<servers, server_cnt, mainVars, tcp_mutex, accVars>>
BY DEF Aside, Forward, ForwardTraps, ForwardNoServers, Round, Probe, Alloc, Fill,
       Verdict, RemoveLock, RoundDone, DrainPong, Respond, Pause, vars, router_t,
       locks, mainVars, accVars

(* Every step is one of those or one of the steps that do matter to the    *)
(* rotation and its sessions.                                              *)
LEMMA NextCases ==
  ASSUME [Next]_vars
  PROVE  \/ Aside \/ MainAddLock \/ MainAddStore \/ RemoveDelete
         \/ (\E c \in Clients : Connect(c) \/ Accept(c) \/ EndStep(c) \/ Reset(c))
         \/ LockTcp \/ SendCount \/ SendPort \/ PortsSent \/ SessionFails
         \/ ReadReply \/ JoinLock \/ JoinStore \/ EndSession
BY DEF Next, MainStep, MonitorStep, AcceptorStep, Aside

(* Counting, starting up and the clients' sessions need no type but those  *)
(* of the sessions' own variables.                                         *)
LEMMA ControlStep ==
  ASSUME Membership, [Next]_vars
  PROVE  Counted' /\ Startup' /\ Clientele'
<1> USE DEF Membership, Counted, Startup, Clientele
<1> USE DEF Main, Monitor, Acceptor, Running, Sound, mainVars, accVars, monVars
<1>0. /\ server_cnt \in Nat /\ Len(servers) \in Nat /\ added \in 0..Len(Initial)
      /\ Len(Initial) \in Nat
      /\ client \in [Clients -> {"idle", "waiting", "served", "done", "broken"}]
      /\ cur \in Clients \cup {NoClient}
  BY ConstantsOK DEF TypeOK, ConstantsOK
<1>1. CASE Aside
  <2>1. UNCHANGED <<servers, server_cnt, mainVars, tcp_mutex, accVars>>
    BY <1>1, AsideKeeps
  <2>2. QED
    BY <2>1
<1>2. CASE MainAddLock
  BY <1>2, <1>0 DEF MainAddLock, GrowCount
<1>3. CASE MainAddStore
  <2>1. Len(servers') = Len(servers) + 1
    BY <1>3, <1>0 DEF MainAddStore, StoreServer, TypeOK
  <2>2. QED
    BY <1>3, <1>0, <2>1 DEF MainAddStore
<1>4. CASE RemoveDelete
  <2>1. Contains(servers, Head(offline)) => Len(servers') = Len(servers) - 1
    BY <1>4, RemoveFirstProperties DEF RemoveDelete, TypeOK, Distinct
  <2>2. QED
    BY <1>4, <1>0, <2>1 DEF RemoveDelete
<1>5. ASSUME NEW c \in Clients, Connect(c) PROVE Counted' /\ Startup' /\ Clientele'
  BY <1>5, <1>0 DEF Connect, router_t
<1>6. ASSUME NEW c \in Clients, Accept(c) PROVE Counted' /\ Startup' /\ Clientele'
  BY <1>6, <1>0 DEF Accept, router_t
<1>7. ASSUME NEW c \in Clients, EndStep(c) \/ Reset(c)
      PROVE  Counted' /\ Startup' /\ Clientele'
  BY <1>7, <1>0 DEF EndStep, Register, GiveUp, Finish, Abandon, Reset, Answer, HasList, router_t
<1>8. CASE LockTcp
  BY <1>8, <1>0 DEF LockTcp, router_t
<1>9. CASE SendCount
  BY <1>9, <1>0 DEF SendCount, router_t
<1>10. CASE SendPort
  BY <1>10, <1>0 DEF SendPort, router_t
<1>11. CASE PortsSent
  BY <1>11, <1>0 DEF PortsSent, router_t
<1>12. CASE SessionFails
  BY <1>12, <1>0 DEF SessionFails, router_t
<1>13. CASE ReadReply
  BY <1>13, <1>0 DEF ReadReply, BytesArrived, router_t
<1>14. CASE JoinLock
  BY <1>14, <1>0 DEF JoinLock, GrowCount
<1>15. CASE JoinStore
  <2>1. Len(servers') = Len(servers) + 1
    BY <1>15, <1>0 DEF JoinStore, StoreServer, TypeOK, Server
  <2>2. QED
    BY <1>15, <1>0, <2>1 DEF JoinStore
<1>16. CASE EndSession
  BY <1>16, <1>0 DEF EndSession, router_t
<1>17. QED
  BY <1>1, <1>2, <1>3, <1>4, <1>5, <1>6, <1>7, <1>8, <1>9, <1>10, <1>11,
     <1>12, <1>13, <1>14, <1>15, <1>16, NextCases

(* A server is stored when its own turn comes, and so is not there yet.    *)
LEMMA NewcomerIsNew ==
  ASSUME Membership, Sound
  PROVE  /\ storing => Initial[added + 1] \in Server /\ ~Contains(servers, Initial[added + 1])
         /\ acc_pc = "store" => cur \in Server /\ ~Contains(servers, cur)
<1> USE DEF Membership, Startup, Clientele, Distinct, Contains
<1>1. /\ Len(Initial) \in Nat /\ added \in 0..Len(Initial) /\ IsInjective(Initial)
      /\ \A k \in 1..Len(Initial) : Initial[k] \in Server /\ Initial[k] \notin Joiners
      /\ DOMAIN Initial = 1..Len(Initial)
  BY ConstantsOK DEF ConstantsOK, TypeOK, ToSet, Server
<1>2. ASSUME storing PROVE Initial[added + 1] \in Server /\ ~Contains(servers, Initial[added + 1])
  <2>1. added + 1 \in 1..Len(Initial)
    BY <1>1, <1>2
  <2>2. \A k \in 1..added : k \in 1..Len(Initial) /\ k # added + 1
    BY <1>1
  <2>3. \A k \in 1..added : Initial[k] # Initial[added + 1]
    BY <1>1, <2>1, <2>2 DEF IsInjective
  <2>4. QED
    BY <1>1, <2>1, <2>3
<1>3. ASSUME acc_pc = "store" PROVE cur \in Server /\ ~Contains(servers, cur)
  <2>1. cur \in Joiners /\ cur \in Server
    BY <1>3 DEF Server
  <2>2. \A k \in 1..added : Initial[k] # cur
    BY <1>1, <2>1
  <2>3. QED
    BY <1>3, <2>1, <2>2
<1>4. QED
  BY <1>2, <1>3

(* add_dns_server and remove_server keep the rotation free of repetitions  *)
(* and made of servers that have registered.                               *)
LEMMA DistinctStep ==
  ASSUME Membership, [Next]_vars
  PROVE  Distinct'
<1> USE DEF Membership, Distinct
<1> USE DEF Main, Monitor, Acceptor, Running, Sound, mainVars, accVars, monVars
<1>0. /\ servers \in Seq(Server) /\ offline \in Seq(Server)
      /\ added \in 0..Len(Initial) /\ Len(Initial) \in Nat
      /\ client \in [Clients -> {"idle", "waiting", "served", "done", "broken"}]
      /\ Joiners \subseteq Clients
  BY ConstantsOK DEF TypeOK, ConstantsOK, Clients
<1>1. CASE Aside
  <2>1. UNCHANGED <<servers, server_cnt, mainVars, tcp_mutex, accVars>>
    BY <1>1, AsideKeeps
  <2>2. QED
    BY <2>1
<1>2. CASE MainAddLock
  BY <1>2, <1>0 DEF MainAddLock
<1>3. CASE MainAddStore
  <2> DEFINE new == Initial[added + 1]
  <2>1. new \in Server /\ ~Contains(servers, new) /\ servers' = Append(servers, new)
    BY <1>3, NewcomerIsNew DEF MainAddStore, StoreServer
  <2>2. added + 1 \in 1..added' /\ 1..added \subseteq 1..added' /\ UNCHANGED accVars
    BY <1>3, <1>0 DEF MainAddStore
  <2> HIDE DEF new
  <2>3. IsInjective(servers')
    BY <2>1, <1>0, AppendKeepsInjective
  <2>4. \A i \in 1..Len(servers') :
          servers'[i] = new \/ \E k \in 1..Len(servers) : servers'[i] = servers[k]
    BY <2>1, <1>0
  <2>5. QED
    BY <2>2, <2>3, <2>4, SMTT(30) DEF new
<1>4. CASE RemoveDelete
  <2>1. CASE Contains(servers, Head(offline))
    <3>1. servers' = RemoveFirst(servers, Head(offline)) /\ UNCHANGED <<mainVars, accVars>>
      BY <1>4, <2>1 DEF RemoveDelete
    <3>2. /\ IsInjective(servers')
          /\ \A i \in 1..Len(servers') : Contains(servers, servers'[i])
      BY <3>1, <2>1, <1>0, RemoveFirstProperties
    <3>3. \A i \in 1..Len(servers') : \E k \in 1..Len(servers) : servers'[i] = servers[k]
      BY <3>2 DEF Contains
    <3>4. UNCHANGED <<added, cur, client, acc_pc>>
      BY <3>1
    <3>5. QED
      BY <3>2, <3>3, <3>4
  <2>2. CASE ~Contains(servers, Head(offline))
    BY <1>4, <2>2 DEF RemoveDelete
  <2>3. QED
    BY <2>1, <2>2
<1>5. ASSUME NEW c \in Clients, Connect(c) PROVE Distinct'
  BY <1>5, <1>0 DEF Connect, router_t
<1>6. ASSUME NEW c \in Clients, Accept(c) PROVE Distinct'
  BY <1>6, <1>0 DEF Accept, router_t
<1>7. ASSUME NEW c \in Clients, EndStep(c) \/ Reset(c)
      PROVE  Distinct'
  BY <1>7, <1>0 DEF EndStep, Register, GiveUp, Finish, Abandon, Reset, Answer, HasList, router_t
<1>8. CASE LockTcp
  BY <1>8, <1>0 DEF LockTcp, router_t
<1>9. CASE SendCount
  BY <1>9, <1>0 DEF SendCount, router_t
<1>10. CASE SendPort
  BY <1>10, <1>0 DEF SendPort, router_t
<1>11. CASE PortsSent
  BY <1>11, <1>0 DEF PortsSent, router_t
<1>12. CASE SessionFails
  BY <1>12, <1>0 DEF SessionFails, router_t
<1>13. CASE ReadReply
  BY <1>13, <1>0 DEF ReadReply, router_t
<1>14. CASE JoinLock
  BY <1>14, <1>0 DEF JoinLock
<1>15. CASE JoinStore
  <2>1. cur \in Server /\ ~Contains(servers, cur) /\ servers' = Append(servers, cur)
    BY <1>15, NewcomerIsNew DEF JoinStore, StoreServer
  <2>2. /\ cur \in Joiners /\ client[cur] = "done"
        /\ UNCHANGED <<cur, client, mainVars>> /\ acc_pc' = "unlock"
    BY <1>15 DEF JoinStore, Clientele
  <2>3. IsInjective(servers')
    BY <2>1, <1>0, AppendKeepsInjective
  <2>4. \A i \in 1..Len(servers') :
          servers'[i] = cur \/ \E k \in 1..Len(servers) : servers'[i] = servers[k]
    BY <2>1, <1>0
  <2>5. QED
    BY <2>2, <2>3, <2>4
<1>16. CASE EndSession
  BY <1>16, <1>0 DEF EndSession, router_t
<1>17. QED
  BY <1>1, <1>2, <1>3, <1>4, <1>5, <1>6, <1>7, <1>8, <1>9, <1>10, <1>11,
     <1>12, <1>13, <1>14, <1>15, <1>16, NextCases

(* The monitor's list stays a part of the rotation: what it removes was    *)
(* there, and what others do in the meantime only adds.                    *)
LEMMA SilentStep ==
  ASSUME Membership, [Next]_vars
  PROVE  Silent'
<1> USE DEF Membership, Silent
<1> USE DEF Main, Monitor, Acceptor, Running, Sound, mainVars, accVars, monVars, router_t
<1>0. servers \in Seq(Server) /\ offline \in Seq(Server)
  BY DEF TypeOK
<1>1. CASE Fill
  <2>1. mon_pc' = mon_pc \/ (mon_pc' = "drain" /\ offline' = servers)
    BY <1>1 DEF Fill, AllIds
  <2>2. mon_pc = "fill" /\ UNCHANGED servers
    BY <1>1 DEF Fill
  <2>3. \A i \in 1..Len(servers) : Contains(servers, servers[i])
    BY DEF Contains
  <2>4. QED
    BY <2>1, <2>2, <2>3 DEF Distinct
<1>2. ASSUME NEW s \in Server, DrainPong(s) PROVE Silent'
  <2>1. CASE Contains(offline, s)
    <3>1. /\ IsInjective(offline')
          /\ \A i \in 1..Len(offline') : Contains(offline, offline'[i])
      BY <1>2, <2>1, <1>0, RemoveFirstProperties DEF DrainPong
    <3>2. \A i \in 1..Len(offline') : Contains(servers, offline'[i])
      BY <1>2, <3>1 DEF DrainPong, Contains
    <3>3. QED
      BY <1>2, <3>1, <3>2 DEF DrainPong
  <2>2. CASE ~Contains(offline, s)
    BY <1>2, <2>2, RemoveFirstOfAbsent DEF DrainPong
  <2>3. QED
    BY <2>1, <2>2
<1>3. CASE Verdict
  BY <1>3 DEF Verdict
<1>4. CASE RemoveLock
  BY <1>4 DEF RemoveLock
<1>5. CASE RemoveDelete
  <2>1. /\ IsInjective(offline') /\ Contains(offline, Head(offline))
        /\ \A i \in 1..Len(offline') :
             offline'[i] # Head(offline) /\ Contains(offline, offline'[i])
    BY <1>5, <1>0, TailKeepsInjective DEF RemoveDelete, MayDelete
  <2>2. Contains(servers, Head(offline))
        /\ \A i \in 1..Len(offline') : Contains(servers, offline'[i])
    BY <1>5, <2>1, SMTT(30) DEF Contains, RemoveDelete, MayDelete
  <2>3. servers' = RemoveFirst(servers, Head(offline)) /\ mon_pc' = "remove"
    BY <1>5, <2>2 DEF RemoveDelete
  <2>4. \A x : Contains(servers, x) /\ x # Head(offline) => Contains(servers', x)
    BY <2>2, <2>3, <1>0, RemoveFirstProperties DEF Distinct
  <2>5. QED
    BY <2>1, <2>2, <2>3, <2>4
<1>6. CASE RoundDone \/ Round \/ Probe \/ Alloc
  BY <1>6 DEF RoundDone, Round, Probe, Alloc
<1>7. CASE MainAddStore \/ JoinStore
  <2>1. PICK new \in Server : ~Contains(servers, new) /\ servers' = Append(servers, new)
    BY <1>7, NewcomerIsNew DEF MainAddStore, JoinStore, StoreServer
  <2>2. \A x : Contains(servers, x) => Contains(servers', x)
    BY <2>1, <1>0, AppendKeepsInjective DEF Distinct
  <2>3. UNCHANGED monVars
    BY <1>7 DEF MainAddStore, JoinStore
  <2>4. QED
    BY <2>2, <2>3
<1>8. CASE MainAddLock \/ JoinLock
  BY <1>8 DEF MainAddLock, JoinLock
<1>9. CASE Forward \/ ForwardTraps \/ ForwardNoServers
  BY <1>9 DEF Forward, ForwardTraps, ForwardNoServers
<1>10. ASSUME NEW s \in Server, Respond(s) \/ Pause(s) PROVE Silent'
  BY <1>10 DEF Respond, Pause
<1>11. ASSUME NEW c \in Clients, Connect(c) \/ Accept(c) \/ EndStep(c) \/ Reset(c)
       PROVE Silent'
  BY <1>11 DEF Connect, Accept, EndStep, Register, GiveUp, Finish, Abandon, Reset, Answer
<1>12. CASE LockTcp \/ SendCount \/ SendPort \/ PortsSent \/ SessionFails \/ ReadReply \/ EndSession
  BY <1>12 DEF LockTcp, SendCount, SendPort, PortsSent, SessionFails, ReadReply, EndSession
<1>13. CASE UNCHANGED vars
  BY <1>13 DEF vars
<1>14. QED
  BY <1>1, <1>2, <1>3, <1>4, <1>5, <1>6, <1>7, <1>8, <1>9, <1>10, <1>11, <1>12, <1>13
  DEF Next, MainStep, MonitorStep, AcceptorStep

(* What router_t, the threads' locals and the sockets hold is always of    *)
(* its type, and the rotation, the monitor's list and the sessions stay    *)
(* consistent, whether or not the mutexes exclude.                         *)
THEOREM MembershipInvariant == Spec => []Membership
<1>1. Membership /\ [Next]_vars => Membership'
  <2> SUFFICES ASSUME Membership, [Next]_vars PROVE Membership'
    OBVIOUS
  <2>1. QED
    BY TypeStep, ControlStep, DistinctStep, SilentStep DEF Membership
<1>2. QED
  BY MembershipInit, <1>1, PTL DEF Spec

(* In particular every variable is always of its type.                     *)
THEOREM TypeCorrect == Spec => []TypeOK
<1>1. Membership => TypeOK
  BY DEF Membership
<1>2. QED
  BY MembershipInvariant, <1>1, PTL

(* remove_server always finds its server: nothing but the monitor takes a  *)
(* server out, and it asks for each one once.                              *)
THEOREM RemovalsFind == Spec => []RemoveAlwaysFinds
<1>1. Membership => RemoveAlwaysFinds
  <2> SUFFICES ASSUME Membership, mon_pc = "delete"
               PROVE  Contains(servers, Head(offline))
    BY DEF RemoveAlwaysFinds
  <2>1. offline \in Seq(Server) /\ offline # <<>> /\ IsInjective(offline)
    BY DEF Membership, TypeOK, Silent
  <2>2. Contains(offline, Head(offline))
    BY <2>1, TailKeepsInjective
  <2>3. QED
    BY <2>2 DEF Membership, Silent, Contains
<1>2. QED
  BY MembershipInvariant, <1>1, PTL

-----------------------------------------------------------------------------
(* From here on the mutexes exclude, as they do where create_router's      *)
(* allocation comes zeroed and all zeroes is an unlocked mutex.            *)

(* Who holds a lock, by where the threads are.                             *)
Holders ==
  /\ mutex = "monitor" <=> mon_pc = "delete"
  /\ mutex = "acceptor" <=> acc_pc = "store"
  /\ storing => mutex = "main"
  /\ mutex = "main" => storing \/ servers = <<>>
  /\ tcp_mutex # "main" /\ tcp_mutex # "monitor"
  /\ InSession => tcp_mutex = "acceptor"
  /\ tcp_mutex = "acceptor" =>
       InSession \/ \E c \in Clients : client[c] = "broken"

(* What a client has been told is the beginning of the rotation.           *)
Snapshot ==
  /\ acc_pc \in {"lock", "count"} => listed = <<>>
  /\ InSession /\ acc_pc # "count" =>
       /\ announced <= Len(servers) /\ Len(listed) <= announced
       /\ \A i \in 1..Len(listed) : listed[i] = servers[i]
       /\ acc_pc \in {"ports", "wait", "add"} => announced = server_cnt

Exclusion == Membership /\ Holders /\ Snapshot /\ RequestsSeeWholeRotation

(* Working mutexes: each lock stays where the program counters say.        *)
LEMMA HoldersStep ==
  ASSUME MutexesWork = TRUE, Exclusion, [Next]_vars
  PROVE  Holders'
<1> USE MutexesWork = TRUE
<1> USE DEF Exclusion, Holders, InSession, Free, LockedBy, Nobody
<1> USE DEF Main, Monitor, Acceptor, Running, Sound, router_t, mainVars, accVars, monVars
<1>0. /\ client \in [Clients -> {"idle", "waiting", "served", "done", "broken"}]
      /\ servers \in Seq(Server) /\ server_cnt \in Nat
      /\ server_cnt = 0 /\ ~storing /\ acc_pc # "store" => servers = <<>>
  BY DEF Membership, TypeOK, Counted
<1>1. CASE MainAddLock
  BY <1>1 DEF MainAddLock, GrowCount
<1>2. CASE MainAddStore
  BY <1>2 DEF MainAddStore, StoreServer
<1>3. CASE Forward \/ ForwardTraps
  BY <1>3 DEF Forward, ForwardTraps, locks
<1>4. CASE ForwardNoServers
  BY <1>4, <1>0 DEF ForwardNoServers
<1>5. CASE Round \/ Probe \/ Alloc \/ Fill \/ RoundDone
  BY <1>5 DEF Round, Probe, Alloc, Fill, RoundDone, locks
<1>6. CASE Verdict
  BY <1>6 DEF Verdict, locks
<1>7. ASSUME NEW s \in Server, DrainPong(s) \/ Respond(s) \/ Pause(s) PROVE Holders'
  BY <1>7 DEF DrainPong, Respond, Pause, locks
<1>8. CASE RemoveLock
  BY <1>8 DEF RemoveLock
<1>9. CASE RemoveDelete
  <2>1. Contains(servers, Head(offline))
    <3>1. offline \in Seq(Server) /\ offline # <<>> /\ IsInjective(offline)
      BY <1>9 DEF RemoveDelete, MayDelete, Membership, TypeOK, Silent
    <3>2. QED
      BY <3>1, <1>9, TailKeepsInjective DEF RemoveDelete, MayDelete, Membership, Silent, Contains
  <2>2. QED
    BY <1>9, <2>1 DEF RemoveDelete, MayDelete
<1>10. ASSUME NEW c \in Clients, Connect(c) \/ Accept(c) PROVE Holders'
  BY <1>10, <1>0 DEF Connect, Accept, locks
<1>11. ASSUME NEW c \in Clients, EndStep(c) \/ Reset(c) PROVE Holders'
  <2>1. PICK r \in {"none", "self", "null", "eof", "reset"} :
          Answer(c, r) /\ client[c] # "broken"
    BY <1>11 DEF EndStep, Register, GiveUp, Finish, Abandon, Reset, HasList
  <2>2. UNCHANGED <<router_t, locks, mainVars, monVars, acc_pc>>
    BY <2>1 DEF Answer
  <2>3. \A d \in Clients : client[d] = "broken" => client'[d] = "broken"
    BY <2>1, <1>0 DEF Answer
  <2>4. QED
    BY <2>2, <2>3 DEF locks
<1>12. CASE LockTcp
  BY <1>12 DEF LockTcp
<1>13. CASE SendCount \/ SendPort \/ PortsSent \/ ReadReply
  BY <1>13 DEF SendCount, SendPort, PortsSent, ReadReply, locks
<1>14. CASE SessionFails
  <2>1. client[cur] = "broken" /\ cur \in Clients
    BY <1>14 DEF SessionFails, Membership, Clientele
  <2>2. QED
    BY <1>14, <2>1 DEF SessionFails, locks
<1>15. CASE JoinLock
  BY <1>15 DEF JoinLock, GrowCount
<1>16. CASE JoinStore
  BY <1>16 DEF JoinStore, StoreServer
<1>17. CASE EndSession
  BY <1>17 DEF EndSession, Unlock
<1>18. CASE UNCHANGED vars
  BY <1>18 DEF vars, locks
<1>19. QED
  BY <1>1, <1>2, <1>3, <1>4, <1>5, <1>6, <1>7, <1>8, <1>9, <1>10, <1>11, <1>12,
     <1>13, <1>14, <1>15, <1>16, <1>17, <1>18
  DEF Next, MainStep, MonitorStep, AcceptorStep

(* The list a session has sent stays a prefix of the rotation.             *)
LEMMA SnapshotStep ==
  ASSUME MutexesWork = TRUE, Exclusion, [Next]_vars
  PROVE  Snapshot'
<1> USE MutexesWork = TRUE
<1> USE DEF Exclusion, Snapshot, InSession
<1> USE DEF Main, Monitor, Acceptor, Running, Sound, mainVars, accVars, monVars
<1>0. /\ servers \in Seq(Server) /\ listed \in Seq(Server) /\ server_cnt \in Nat
      /\ Len(servers) \in Nat /\ Len(listed) \in Nat /\ announced \in Nat
      /\ acc_pc \notin {"accept", "store"} => server_cnt = Len(servers)
  <2>1. storing => acc_pc = "accept"
    BY DEF Membership, Startup
  <2>2. acc_pc \notin {"accept", "store"} => server_cnt = Len(servers)
    BY <2>1 DEF Membership, Counted
  <2>3. QED
    BY <2>2, SMTT(30) DEF Membership, TypeOK
<1>1. CASE Aside
  <2>1. UNCHANGED <<servers, server_cnt, mainVars, tcp_mutex, accVars>>
    BY <1>1, AsideKeeps
  <2>2. QED
    BY <2>1
<1>2. CASE MainAddLock \/ MainAddStore
  <2>1. acc_pc = "accept" /\ UNCHANGED accVars
    BY <1>2 DEF MainAddLock, MainAddStore, Membership, Startup
  <2>2. QED
    BY <2>1
<1>3. CASE RemoveDelete
  <2>1. tcp_mutex = Nobody /\ UNCHANGED accVars
    BY <1>3 DEF RemoveDelete, MayDelete, Free
  <2>2. ~InSession
    BY <2>1 DEF Holders, Nobody
  <2>3. QED
    BY <2>1, <2>2
<1>4. ASSUME NEW c \in Clients, Connect(c) PROVE Snapshot'
  BY <1>4 DEF Connect, router_t
<1>5. ASSUME NEW c \in Clients, Accept(c) PROVE Snapshot'
  BY <1>5 DEF Accept
<1>6. ASSUME NEW c \in Clients, EndStep(c) \/ Reset(c) PROVE Snapshot'
  BY <1>6 DEF EndStep, Register, GiveUp, Finish, Abandon, Reset, Answer, router_t
<1>7. CASE LockTcp
  BY <1>7 DEF LockTcp
<1>8. CASE SendCount
  BY <1>8, <1>0 DEF SendCount, router_t
<1>9. CASE SendPort
  <2>1. Len(listed) + 1 \in 1..Len(servers)
    BY <1>9, <1>0 DEF SendPort
  <2>2. /\ listed' \in Seq(Server) /\ Len(listed') = Len(listed) + 1
        /\ \A i \in 1..Len(listed) : listed'[i] = listed[i]
        /\ listed'[Len(listed) + 1] = servers[Len(listed) + 1]
    BY <1>9, <1>0, <2>1, AppendProperties DEF SendPort
  <2>3. UNCHANGED <<servers, server_cnt, acc_pc, announced>> /\ acc_pc = "ports"
    BY <1>9 DEF SendPort, router_t
  <2>4. QED
    BY <1>0, <2>1, <2>2, <2>3
<1>10. CASE PortsSent
  BY <1>10 DEF PortsSent, router_t
<1>11. CASE SessionFails
  BY <1>11 DEF SessionFails
<1>12. CASE ReadReply
  BY <1>12 DEF ReadReply, router_t
<1>13. CASE JoinLock
  BY <1>13 DEF JoinLock
<1>14. CASE JoinStore
  <2>1. /\ Len(servers') = Len(servers) + 1
        /\ \A i \in 1..Len(servers) : servers'[i] = servers[i]
    BY <1>14, <1>0, NewcomerIsNew, AppendProperties DEF JoinStore, StoreServer
  <2>2. acc_pc = "store" /\ acc_pc' = "unlock" /\ UNCHANGED <<announced, listed>>
    BY <1>14 DEF JoinStore
  <2>3. QED
    BY <1>0, <2>1, <2>2
<1>15. CASE EndSession
  BY <1>15 DEF EndSession
<1>16. QED
  BY <1>1, <1>2, <1>3, <1>4, <1>5, <1>6, <1>7, <1>8, <1>9, <1>10, <1>11,
     <1>12, <1>13, <1>14, <1>15, NextCases

(* A request is routed with the mutex held, so no addition is half-made.   *)
LEMMA WholeStep ==
  ASSUME MutexesWork = TRUE, Exclusion, [Next]_vars
  PROVE  RequestsSeeWholeRotation'
<1> USE MutexesWork = TRUE
<1> USE DEF Exclusion, RequestsSeeWholeRotation
<1>0. /\ server_cnt \in Nat /\ curr_server \in Nat
      /\ ~storing /\ acc_pc # "store" => Len(servers) = server_cnt
  BY DEF Membership, TypeOK, Counted
<1>1. CASE Forward
  <2>1. Len(servers) = server_cnt /\ server_cnt > 0 /\ fault = "none"
    BY <1>1, <1>0 DEF Forward, Running, Main, Sound, Free, Holders, Nobody
  <2>2. ChosenServer(mode, curr_server, server_cnt) < Len(servers)
    BY <1>0, <2>1 DEF ChosenServer
  <2>3. QED
    BY <1>1, <2>1, <2>2 DEF Forward
<1>2. CASE RemoveDelete
  <2>1. mutex = "monitor" /\ mon_pc = "delete"
    BY <1>2 DEF RemoveDelete, MayDelete, Monitor, Holders
  <2>2. ~storing /\ acc_pc # "store"
    BY <2>1 DEF Holders
  <2>3. Len(servers) = server_cnt
    BY <1>0, <2>2
  <2>4. ~Torn
    BY <1>0, <2>3 DEF Torn
  <2>5. QED
    BY <1>2, <2>4 DEF RemoveDelete
<1>3. CASE ForwardTraps \/ ForwardNoServers \/ Round \/ Probe \/ Alloc \/ Fill \/ Verdict
           \/ RemoveLock \/ RoundDone \/ UNCHANGED vars
  BY <1>3 DEF ForwardTraps, ForwardNoServers, Round, Probe, Alloc, Fill, Verdict,
       RemoveLock, RoundDone, vars
<1>4. ASSUME NEW s \in Server, DrainPong(s) \/ Respond(s) \/ Pause(s)
      PROVE  RequestsSeeWholeRotation'
  BY <1>4 DEF DrainPong, Respond, Pause
<1>5. CASE MainAddLock \/ MainAddStore \/ JoinLock \/ JoinStore
  BY <1>5 DEF MainAddLock, MainAddStore, JoinLock, JoinStore
<1>6. ASSUME NEW c \in Clients, Connect(c) \/ Accept(c) \/ EndStep(c) \/ Reset(c)
      PROVE  RequestsSeeWholeRotation'
  BY <1>6 DEF Connect, Accept, EndStep, Register, GiveUp, Finish, Abandon, Reset, Answer
<1>7. CASE LockTcp \/ SendCount \/ SendPort \/ PortsSent \/ SessionFails \/ ReadReply \/ EndSession
  BY <1>7 DEF LockTcp, SendCount, SendPort, PortsSent, SessionFails, ReadReply, EndSession
<1>8. QED
  BY <1>1, <1>2, <1>3, <1>4, <1>5, <1>6, <1>7
  DEF Next, MainStep, MonitorStep, AcceptorStep

(* With working mutexes: the locks are where the threads are, a session    *)
(* sees the rotation stand still, and requests see it whole.               *)
THEOREM ExclusionInvariant == ASSUME MutexesWork = TRUE PROVE Spec => []Exclusion
<1>1. Init => Exclusion
  <2> SUFFICES ASSUME Init PROVE Exclusion
    OBVIOUS
  <2>1. Holders /\ Snapshot /\ RequestsSeeWholeRotation
    BY DEF Init, Holders, Snapshot, RequestsSeeWholeRotation, InSession, Nobody
  <2>2. QED
    BY <2>1, MembershipInit DEF Exclusion
<1>2. Exclusion /\ [Next]_vars => Exclusion'
  <2> SUFFICES ASSUME Exclusion, [Next]_vars PROVE Exclusion'
    OBVIOUS
  <2>1. Membership'
    BY TypeStep, ControlStep, DistinctStep, SilentStep DEF Exclusion, Membership
  <2>2. QED
    BY <2>1, HoldersStep, SnapshotStep, WholeStep DEF Exclusion
<1>3. QED
  BY <1>1, <1>2, PTL DEF Spec

(* "Can't remove a server at the same time as sending this data over".     *)
THEOREM SessionsAreStable == ASSUME MutexesWork = TRUE PROVE Spec => []SessionViewStable
<1>1. Exclusion => SessionViewStable
  <2> SUFFICES ASSUME Exclusion PROVE SessionViewStable
    OBVIOUS
  <2>1. /\ servers \in Seq(Server) /\ listed \in Seq(Server) /\ announced \in Nat
        /\ Len(servers) \in Nat /\ Len(listed) \in Nat
    BY DEF Exclusion, Membership, TypeOK
  <2>2. QED
    BY <2>1, PrefixIff DEF Exclusion, Snapshot, SessionViewStable
<1>2. QED
  BY ExclusionInvariant, <1>1, PTL

(* No lock outlives its critical section but through the two early         *)
(* returns.                                                                *)
THEOREM LocksAreReturned == ASSUME MutexesWork = TRUE PROVE Spec => []LocksReturned
<1>1. Exclusion => LocksReturned
  BY DEF Exclusion, Holders, LocksReturned
<1>2. QED
  BY ExclusionInvariant, <1>1, PTL

(* forward_request and remove_server never index a half-made array.        *)
THEOREM RequestsAreSafe == ASSUME MutexesWork = TRUE PROVE Spec => []RequestsSeeWholeRotation
<1>1. Exclusion => RequestsSeeWholeRotation
  BY DEF Exclusion
<1>2. QED
  BY ExclusionInvariant, <1>1, PTL

-----------------------------------------------------------------------------
(* The router implements the directory.                                    *)

(* The directory's sequence operators are the router's.                    *)
LEMMA SameOperators ==
  ASSUME NEW q, NEW e
  PROVE  Dir!ToSet(q) = ToSet(q) /\ Dir!RemoveFirst(q, e) = RemoveFirst(q, e)
BY DEF Dir!ToSet, ToSet, Dir!RemoveFirst, RemoveFirst, Dir!SelectInSeq, SelectInSeq,
       Dir!RemoveAt, RemoveAt, Dir!Min, Min

(* In a session the announced count does not exceed the rotation.          *)
LEMMA SessionPrefix ==
  ASSUME MutexesWork = TRUE, Exclusion, InSession, acc_pc # "count"
  PROVE  /\ servers \in Seq(Server) /\ announced \in 0..Len(servers)
         /\ acc_pc \in {"ports", "wait", "add"} => announced = Len(servers)
<1>1. storing => acc_pc = "accept"
  BY DEF Exclusion, Membership, Startup
<1>2. QED
  BY <1>1 DEF Exclusion, Membership, TypeOK, Counted, Snapshot, InSession

(* Every step of the router is one of the directory, or a stutter.         *)
LEMMA DirectoryStep ==
  ASSUME MutexesWork = TRUE, Exclusion, [Next]_vars
  PROVE  [Dir!DirNext]_(Dir!dirVars)
<1> USE MutexesWork = TRUE
<1> USE DEF Main, Monitor, Acceptor, Running, Sound, mainVars, accVars, monVars
<1> DEFINE holder == IF InSession THEN cur ELSE NoClient
           view == IF ~InSession THEN <<>>
                   ELSE IF acc_pc = "count" THEN servers ELSE SubSeq(servers, 1, announced)
<1>0. /\ servers \in Seq(Server) /\ Joiners \subseteq Server /\ NoClient \notin Clients
      /\ acc_pc # "accept" => cur \in Clients
  BY ConstantsOK DEF Exclusion, Membership, TypeOK, Clientele, ConstantsOK, Server, Clients
<1>s. (UNCHANGED <<servers, holder, view>>) => UNCHANGED Dir!dirVars
  BY DEF Dir!dirVars
<1>1. CASE UNCHANGED <<servers, acc_pc, cur, announced>>
  BY <1>1, <1>s DEF InSession
<1>2. CASE MainAddStore
  <2>1. Initial[added + 1] \in Server /\ ~Contains(servers, Initial[added + 1])
    BY <1>2, NewcomerIsNew DEF MainAddStore, Exclusion
  <2>2. acc_pc = "accept" /\ UNCHANGED accVars /\ servers' = Append(servers, Initial[added + 1])
    BY <1>2 DEF MainAddStore, StoreServer, Exclusion, Membership, Startup
  <2>3. Initial[added + 1] \notin ToSet(servers)
    BY <2>1, <1>0 DEF Contains, ToSet
  <2>4. Dir!Enrol(Initial[added + 1])
    BY <2>2, <2>3, SameOperators DEF Dir!Enrol, Dir!Put, InSession
  <2>5. QED
    BY <2>1, <2>4 DEF Dir!DirNext
<1>3. CASE RemoveDelete
  <2>1. CASE UNCHANGED servers
    BY <1>3, <2>1, <1>1 DEF RemoveDelete
  <2>2. CASE Contains(servers, Head(offline))
    <3>1. ~InSession /\ UNCHANGED accVars /\ servers' = RemoveFirst(servers, Head(offline))
      BY <1>3, <2>2 DEF RemoveDelete, MayDelete, Free, Exclusion, Holders, Nobody
    <3>2. Head(offline) \in Server /\ Head(offline) \in ToSet(servers)
      BY <2>2, <1>0 DEF Contains, ToSet
    <3>3. Dir!Drop(Head(offline))
      BY <3>1, <3>2, SameOperators DEF Dir!Drop, InSession
    <3>4. QED
      BY <3>2, <3>3 DEF Dir!DirNext
  <2>3. QED
    BY <1>3, <2>1, <2>2 DEF RemoveDelete
<1>4. ASSUME NEW c \in Clients, Accept(c) PROVE UNCHANGED Dir!dirVars
  BY <1>4, <1>s DEF Accept, InSession, router_t
<1>5. CASE LockTcp
  <2>1. /\ ~InSession /\ InSession' /\ acc_pc' = "count" /\ UNCHANGED <<servers, cur>>
        /\ cur \in Clients
    BY <1>5, <1>0 DEF LockTcp, InSession, router_t
  <2>2. Dir!Open(cur)
    BY <2>1 DEF Dir!Open
  <2>3. QED
    BY <2>1, <2>2 DEF Dir!DirNext
<1>6. CASE SendCount
  <2>1. InSession /\ InSession' /\ UNCHANGED <<servers, cur>> /\ acc_pc = "count"
        /\ acc_pc' = "ports" /\ announced' = server_cnt
    BY <1>6 DEF SendCount, InSession, router_t
  <2>2. ~storing /\ server_cnt = Len(servers)
    BY <2>1 DEF Exclusion, Membership, Counted, Startup
  <2>3. SubSeq(servers, 1, announced') = servers
    BY <1>0, <2>1, <2>2
  <2>4. QED
    BY <2>1, <2>3, <1>s
<1>7. CASE PortsSent \/ ReadReply \/ JoinLock
  <2>1. /\ InSession /\ InSession' /\ UNCHANGED <<servers, cur, announced>>
        /\ acc_pc # "count" /\ acc_pc' # "count"
    BY <1>7 DEF PortsSent, ReadReply, JoinLock, InSession, router_t
  <2>2. QED
    BY <2>1, <1>s
<1>8. CASE SessionFails \/ EndSession
  <2>1. InSession /\ ~InSession' /\ UNCHANGED servers /\ cur \in Clients
    BY <1>8, <1>0 DEF SessionFails, EndSession, InSession, router_t
  <2>2. Dir!Close
    BY <2>1, <1>0 DEF Dir!Close
  <2>3. QED
    BY <2>2 DEF Dir!DirNext
<1>9. CASE JoinStore
  <2>1. /\ cur \in Server /\ ~Contains(servers, cur) /\ servers' = Append(servers, cur)
        /\ InSession /\ InSession' /\ acc_pc = "store" /\ acc_pc' = "unlock"
        /\ UNCHANGED <<cur, announced>>
    BY <1>9, NewcomerIsNew DEF JoinStore, StoreServer, InSession, Exclusion
  <2>2. announced \in 0..Len(servers)
    BY <2>1, SessionPrefix
  <2>3. SubSeq(servers', 1, announced) = SubSeq(servers, 1, announced)
    BY <1>0, <2>1, <2>2
  <2>4. cur \notin ToSet(servers)
    BY <2>1, <1>0 DEF Contains, ToSet
  <2>5. Dir!Join
    BY <2>1, <2>3, <2>4, SameOperators DEF Dir!Join, Dir!Put
  <2>6. QED
    BY <2>5 DEF Dir!DirNext
<1>10. CASE Aside
  <2>1. UNCHANGED <<servers, server_cnt, mainVars, tcp_mutex, accVars>>
    BY <1>10, AsideKeeps
  <2>2. QED
    BY <1>1, <2>1
<1>11. CASE MainAddLock \/ SendPort
  BY <1>11, <1>1 DEF MainAddLock, SendPort, router_t
<1>12. ASSUME NEW c \in Clients, Connect(c) \/ EndStep(c) \/ Reset(c)
       PROVE  [Dir!DirNext]_(Dir!dirVars)
  BY <1>12, <1>1 DEF Connect, EndStep, Register, GiveUp, Finish, Abandon, Reset, Answer, router_t
<1>13. QED
  BY <1>2, <1>3, <1>4, <1>5, <1>6, <1>7, <1>8, <1>9, <1>10, <1>11, <1>12, NextCases

(* Seen by the servers, the router is a directory whose sessions hold a    *)
(* snapshot: nobody leaves while one is open, and only its client joins.   *)
THEOREM RouterImplementsDirectory == ASSUME MutexesWork = TRUE PROVE Spec => ImplementsDirectory
<1>1. Init => Dir!DirInit
  BY DEF Init, Dir!DirInit, InSession
<1>2. Exclusion /\ [Next]_vars => [Dir!DirNext]_(Dir!dirVars)
  BY DirectoryStep
<1>3. QED
  BY <1>1, <1>2, ExclusionInvariant, PTL DEF Spec, ImplementsDirectory, Dir!DirSpec
=============================================================================
