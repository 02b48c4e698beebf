------------------------------- MODULE Router -------------------------------
(***************************************************************************)
(* The software router (src/src/router.c): the rotation of DNS servers,    *)
(* the three threads that touch it and the TCP sessions its clients hold.  *)
(*                                                                         *)
(*   main      the test generator: registers the initial servers and then  *)
(*             forwards requests (forward_request);                        *)
(*   monitor   check_servers: probes every server, waits, and removes the  *)
(*             ones that did not answer (query_response_time);             *)
(*   acceptor  check_ip_list_requests: serves one TCP client at a time     *)
(*             with the list of servers, and may register the client.      *)
(*                                                                         *)
(* A step is the code between two points where another thread's action     *)
(* matters: taking a lock, reading the rotation without one, a message.    *)
(* The monitor reads the rotation without a lock, so add_dns_server is two *)
(* steps: the count first, then the array.                                 *)
(***************************************************************************)
EXTENDS Naturals, FiniteSets, Sequences, SequencesExt

CONSTANTS
  Initial,              \* the servers create_generator adds, in order
  Joiners,              \* servers that call update_and_online later
  Updaters,             \* threads that call update_hosts
  Pausable,             \* servers the generator may pause
  Modes,                \* the routing modes to consider
  ConnectionsMayBreak,  \* may a client's TCP connection be reset?
  MutexesWork,          \* outcome of locking the uninitialised mutexes
  MaxPending,           \* bound: datagrams of one server waiting in a socket
  Window,               \* bound: forwards that the history `recent` keeps
  NoClient

Server == ToSet(Initial) \cup Joiners
Clients == Joiners \cup Updaters
Threads == {"main", "monitor", "acceptor"}
Nobody == "nobody"

ASSUME ConstantsOK ==
  /\ Initial \in Seq(ToSet(Initial)) /\ IsInjective(Initial)
  /\ ToSet(Initial) \cap Joiners = {} /\ Server \cap Updaters = {}
  /\ NoClient \notin Server \cup Updaters /\ Pausable \subseteq ToSet(Initial)
  /\ Modes \subseteq {"ROUND_ROBIN", "OVERLOAD"}
  /\ ConnectionsMayBreak \in BOOLEAN /\ MutexesWork \in BOOLEAN
  /\ MaxPending \in Nat \ {0} /\ Window \in Nat

VARIABLES
  servers, server_cnt, curr_server, mode,  \* router_t
  mutex, tcp_mutex,                        \* who holds each lock
  added, storing,       \* main: servers added, inside add_dns_server?
  mon_pc, starting_cnt, cnt, offline,      \* monitor: query_response_time
  acc_pc, cur, announced, listed, reply,   \* acceptor: check_tcp_connections
  client,               \* each client's phase
  probes, pongs,        \* datagrams waiting at a server, and from it
  alive,                \* "up", "last": one more message, "paused"
  fault,    \* undefined behaviour reached, and where; the process is lost
  recent, asked, answered, spared  \* history, read by properties only:
    \* the latest requests' servers; those probed in this round, and those
    \* that answered in it; rounds a paused server has been spared

router_t == <<servers, server_cnt, curr_server, mode>>
locks == <<mutex, tcp_mutex>>
mainVars == <<added, storing>>
monVars == <<mon_pc, starting_cnt, cnt, offline>>
accVars == <<acc_pc, cur, announced, listed, reply, client>>
netVars == <<probes, pongs, alive>>
history == <<recent, asked, answered, spared>>
vars == <<router_t, locks, mainVars, monVars, accVars, netVars, fault, history>>

(* Undefined behaviour stops the process: no action of it is taken after.  *)
Sound == fault = "none"
Main(busy) == Sound /\ storing = busy
Monitor(at) == Sound /\ mon_pc = at
Acceptor(at) == Sound /\ acc_pc = at
Running == Main(FALSE) /\ added = Len(Initial)  \* create_generator is done

Init ==
  /\ servers = <<>> /\ server_cnt = 0 /\ curr_server = 0 /\ mode \in Modes
  /\ mutex = Nobody /\ tcp_mutex = Nobody
  /\ added = 0 /\ storing = FALSE
  /\ mon_pc = "start" /\ starting_cnt = 0 /\ cnt = 0 /\ offline = <<>>
  /\ acc_pc = "accept" /\ cur = NoClient /\ announced = 0 /\ listed = <<>>
  /\ reply = "none" /\ client = [c \in Clients |-> "idle"]
  /\ probes = [s \in Server |-> 0] /\ pongs = [s \in Server |-> 0]
  /\ alive = [s \in Server |-> "up"] /\ fault = "none"
  /\ recent = <<>> /\ asked = {} /\ answered = {} /\ spared = [s \in Server |-> 0]

-----------------------------------------------------------------------------
(* pthread_mutex_lock and _unlock.  create_router allocates the mutexes    *)
(* and never initialises them.  On zeroed glibc memory they behave as      *)
(* mutexes; where an unknown mutex is refused, as on macOS, whose en0 is   *)
(* the interface get_ip looks for, a lock returns at once with an error    *)
(* nobody reads, and excludes nobody.                                      *)
NoExclusion(lock) == TRUE  \* mutant: the lock call does not wait
Free(lock) == lock = Nobody \/ ~MutexesWork
LockedBy(t) == IF MutexesWork THEN t ELSE Nobody

(* add_dns_server, from taking the lock to the new count ...               *)
CountDown(t) ==  \* mutant: the wrong sign
  /\ Free(mutex) /\ mutex' = LockedBy(t)
  /\ server_cnt' = server_cnt - 1
GrowCount(t) ==
  /\ Free(mutex) /\ mutex' = LockedBy(t)
  /\ server_cnt' = server_cnt + 1

(* ... and from the reallocation to releasing the lock.                    *)
StoreServer(s) ==
  /\ servers' = Append(servers, s)
  /\ mutex' = Nobody
  /\ recent' = <<>>

(* create_generator adds the initial servers, one by one.                  *)
MainAddLock ==
  /\ Main(FALSE) /\ added < Len(Initial)
  /\ GrowCount("main") /\ storing' = TRUE
  /\ UNCHANGED <<servers, curr_server, mode, tcp_mutex, added, monVars,
                 accVars, netVars, fault, history>>

MainAddStore ==
  /\ Main(TRUE)
  /\ StoreServer(Initial[added + 1])
  /\ storing' = FALSE /\ added' = added + 1
  /\ UNCHANGED <<server_cnt, curr_server, mode, tcp_mutex, monVars, accVars,
                 netVars, fault, asked, answered, spared>>

-----------------------------------------------------------------------------
(* forward_request: the index it picks and the one it stores for the next  *)
(* request, from the current one `c` and the count `n`.                    *)
ChosenServer(m, c, n) ==
  IF m = "ROUND_ROBIN" THEN c % n ELSE IF c >= n THEN 0 ELSE c
NextServerOffByOne(m, c, n) ==  \* mutant: the remainder by one too many
  IF m = "ROUND_ROBIN" THEN (1 + c) % (n + 1) ELSE (1 + c) % (n * 2)
NextServer(m, c, n) ==
  IF m = "ROUND_ROBIN" THEN (1 + c) % n
  ELSE IF c >= n THEN (1 + c) % (n * 2) ELSE c + 1

Remember(s) ==
  LET long == Append(recent, s)
  IN  IF Len(long) > Window THEN SubSeq(long, 2, Len(long)) ELSE long

Forward ==
  /\ Running /\ Free(mutex) /\ server_cnt > 0
  /\ LET chosen == ChosenServer(mode, curr_server, server_cnt)
     IN  IF chosen < Len(servers)
         THEN /\ recent' = Remember(servers[chosen + 1])
              /\ UNCHANGED fault
         ELSE fault' = "forward" /\ UNCHANGED recent
  /\ curr_server' = NextServer(mode, curr_server, server_cnt)
  /\ UNCHANGED <<servers, server_cnt, mode, locks, mainVars, monVars, accVars,
                 netVars, asked, answered, spared>>

(* With an empty rotation the remainder is taken modulo zero before the    *)
(* test for it.  Where that traps the process is gone; where it yields a   *)
(* number the test follows, and returns without releasing the lock.        *)
ForwardTraps ==
  /\ Running /\ Free(mutex) /\ server_cnt = 0
  /\ fault' = "div0"
  /\ UNCHANGED <<router_t, locks, mainVars, monVars, accVars, netVars, history>>

ForwardNoServers ==
  /\ Running /\ Free(mutex) /\ server_cnt = 0
  /\ mutex' = LockedBy("main")
  /\ UNCHANGED <<router_t, tcp_mutex, mainVars, monVars, accVars, netVars,
                 fault, history>>

-----------------------------------------------------------------------------
(* The monitor: one round of query_response_time.  None of these reads of  *)
(* the rotation holds a lock.                                              *)
Torn == server_cnt > Len(servers)  \* counted but not stored yet

Round ==
  /\ Monitor("start")
  /\ starting_cnt' = server_cnt /\ mon_pc' = "probe"
  /\ asked' = {} /\ answered' = {}
  /\ UNCHANGED <<router_t, locks, mainVars, cnt, offline, accVars, netVars,
                 fault, recent, spared>>

Probe ==
  /\ Monitor("probe")
  /\ IF Torn
     THEN fault' = "probe" /\ UNCHANGED <<probes, asked, mon_pc>>
     ELSE /\ probes' = [s \in Server |->
                          IF Contains(servers, s) /\ probes[s] < MaxPending
                          THEN probes[s] + 1 ELSE probes[s]]
          /\ asked' = ToSet(servers)
          /\ mon_pc' = "alloc" /\ UNCHANGED fault
  /\ UNCHANGED <<router_t, locks, mainVars, starting_cnt, cnt, offline,
                 accVars, pongs, alive, recent, answered, spared>>

(* After the sleep: the array is sized by one read of the count ...        *)
Alloc ==
  /\ Monitor("alloc")
  /\ cnt' = server_cnt /\ mon_pc' = "fill"
  /\ UNCHANGED <<router_t, locks, mainVars, starting_cnt, offline, accVars,
                 netVars, fault, history>>

(* ... and filled up to another.                                           *)
FirstId == [i \in DOMAIN servers |-> servers[1]]  \* mutant: servers[0]
AllIds == servers

Fill ==
  /\ Monitor("fill")
  /\ IF Torn \/ server_cnt > cnt
     THEN fault' = "fill" /\ UNCHANGED <<offline, mon_pc>>
     ELSE offline' = AllIds /\ mon_pc' = "drain" /\ UNCHANGED fault
  /\ UNCHANGED <<router_t, locks, mainVars, starting_cnt, cnt, accVars,
                 netVars, history>>

(* One answer read from the socket strikes its server off the list.        *)
DrainPong(s) ==
  /\ Monitor("drain") /\ pongs[s] > 0
  /\ pongs' = [pongs EXCEPT ![s] = @ - 1]
  /\ offline' = RemoveFirst(offline, s)
  /\ UNCHANGED <<router_t, locks, mainVars, mon_pc, starting_cnt, cnt, accVars,
                 probes, alive, fault, history>>

(* No answer is left.  A round during which the count changed is void.     *)
OneRead == \E s \in Server : pongs[s] = 0  \* mutant: leaves the loop early
SocketEmpty == \A s \in Server : pongs[s] = 0
NeverVoid == FALSE                        \* mutant: drops the test
AlwaysVoid == starting_cnt >= server_cnt  \* mutant: the wrong comparison
RoundVoid == starting_cnt # server_cnt

Verdict ==
  /\ Monitor("drain") /\ SocketEmpty
  /\ cnt' = 0 /\ starting_cnt' = 0
  /\ IF RoundVoid
     THEN mon_pc' = "start" /\ offline' = <<>> /\ UNCHANGED spared
     ELSE /\ mon_pc' = "remove" /\ UNCHANGED offline
          /\ spared' = [s \in Server |->
               IF /\ alive[s] = "paused" /\ Contains(servers, s)
                  /\ ~Contains(offline, s) /\ spared[s] < 2
               THEN spared[s] + 1 ELSE spared[s]]
  /\ UNCHANGED <<router_t, locks, mainVars, accVars, netVars, fault, recent,
                 asked, answered>>

(* remove_server: takes both locks in turn, shifts the array, and releases *)
(* them, unless the server is not found.                                   *)
RemoveLock ==
  /\ Monitor("remove") /\ offline # <<>>
  /\ Free(mutex) /\ mutex' = LockedBy("monitor")
  /\ mon_pc' = "delete"
  /\ UNCHANGED <<router_t, tcp_mutex, mainVars, starting_cnt, cnt, offline,
                 accVars, netVars, fault, history>>

DeleteAtOnce == Monitor("delete")  \* mutant: does not take tcp_mutex
MayDelete == Monitor("delete") /\ Free(tcp_mutex)

RemoveDelete ==
  /\ MayDelete
  /\ fault' = IF Torn THEN "delete" ELSE "none"
  /\ IF Contains(servers, Head(offline))
     THEN /\ servers' = RemoveFirst(servers, Head(offline))
          /\ server_cnt' = server_cnt - 1
          /\ mutex' = Nobody /\ UNCHANGED tcp_mutex
          /\ recent' = <<>>
     ELSE /\ tcp_mutex' = LockedBy("monitor")
          /\ UNCHANGED <<servers, server_cnt, mutex, recent>>
  /\ offline' = Tail(offline) /\ mon_pc' = "remove"
  /\ UNCHANGED <<curr_server, mode, mainVars, starting_cnt, cnt, accVars,
                 netVars, asked, answered, spared>>

RoundDone ==
  /\ Monitor("remove") /\ offline = <<>> /\ mon_pc' = "start"
  /\ UNCHANGED <<router_t, locks, mainVars, starting_cnt, cnt, offline, accVars,
                 netVars, fault, history>>

-----------------------------------------------------------------------------
(* The servers, as the router sees them.  A probe is answered, or the      *)
(* probe or its answer is lost.  A server paused while it waits for a      *)
(* message still handles that one.                                         *)
Respond(s) ==
  /\ Sound /\ probes[s] > 0 /\ alive[s] # "paused"
  /\ probes' = [probes EXCEPT ![s] = @ - 1]
  /\ alive' = [alive EXCEPT ![s] = IF @ = "last" THEN "paused" ELSE @]
  /\ \/ /\ pongs[s] < MaxPending
        /\ pongs' = [pongs EXCEPT ![s] = @ + 1]
        /\ answered' = IF mon_pc \in {"probe", "alloc", "fill", "drain"}
                       THEN answered \cup {s} ELSE answered
     \/ UNCHANGED <<pongs, answered>>
  /\ UNCHANGED <<router_t, locks, mainVars, monVars, accVars, fault, recent,
                 asked, spared>>

(* The generator pauses a server, for good.                                *)
Pause(s) ==
  /\ Running /\ alive[s] = "up" /\ s \in Pausable
  /\ \E a \in {"last", "paused"} : alive' = [alive EXCEPT ![s] = a]
  /\ UNCHANGED <<router_t, locks, mainVars, monVars, accVars, probes, pongs,
                 fault, history>>

-----------------------------------------------------------------------------
(* The acceptor: check_tcp_connections, one session after another.  The    *)
(* connections that wait for it are taken in any order.                    *)
Connect(c) ==
  /\ Running /\ client[c] = "idle"
  /\ client' = [client EXCEPT ![c] = "waiting"]
  /\ UNCHANGED <<router_t, locks, mainVars, monVars, acc_pc, cur, announced,
                 listed, reply, netVars, fault, history>>

Accept(c) ==
  /\ Acceptor("accept") /\ client[c] = "waiting"
  /\ cur' = c /\ client' = [client EXCEPT ![c] = "served"]
  /\ acc_pc' = "lock" /\ reply' = "none" /\ announced' = 0 /\ listed' = <<>>
  /\ UNCHANGED <<router_t, locks, mainVars, monVars, netVars, fault, history>>

LockTcp ==
  /\ Acceptor("lock") /\ Free(tcp_mutex)
  /\ tcp_mutex' = LockedBy("acceptor") /\ acc_pc' = "count"
  /\ UNCHANGED <<router_t, mutex, mainVars, monVars, cur, announced, listed,
                 reply, client, netVars, fault, history>>

SendCount ==
  /\ Acceptor("count") /\ reply # "reset"
  /\ announced' = server_cnt /\ acc_pc' = "ports"
  /\ UNCHANGED <<router_t, locks, mainVars, monVars, cur, listed, reply,
                 client, netVars, fault, history>>

(* The client acknowledges and gets the next port, as long as there is one *)
SendPort ==
  /\ Acceptor("ports") /\ reply # "reset" /\ Len(listed) < server_cnt
  /\ listed' = Append(listed, servers[Len(listed) + 1])
  /\ UNCHANGED <<router_t, locks, mainVars, monVars, acc_pc, cur, announced,
                 reply, client, netVars, fault, history>>

PortsSent ==
  /\ Acceptor("ports") /\ Len(listed) >= server_cnt
  /\ acc_pc' = "wait"
  /\ UNCHANGED <<router_t, locks, mainVars, monVars, cur, announced, listed,
                 reply, client, netVars, fault, history>>

(* A failed send or receive of the list returns with tcp_mutex held.       *)
SessionFails ==
  /\ reply = "reset"
  /\ Acceptor("count") \/ (acc_pc = "ports" /\ Len(listed) < server_cnt)
  /\ acc_pc' = "accept" /\ cur' = NoClient
  /\ UNCHANGED <<router_t, locks, mainVars, monVars, announced, listed, reply,
                 client, netVars, fault, history>>

(* The eight bytes: a server to add, or zeroes.  A reset ends the loop     *)
(* too; on an orderly close it spins, for recv returns 0 for ever.         *)
PointerArrived == reply \in {"self", "reset"}  \* mutant: reads on after zeroes
BytesArrived == reply \in {"self", "null", "reset"}

ReadReply ==
  /\ Acceptor("wait") /\ BytesArrived
  /\ acc_pc' = IF reply = "self" THEN "add" ELSE "unlock"
  /\ UNCHANGED <<router_t, locks, mainVars, monVars, cur, announced, listed,
                 reply, client, netVars, fault, history>>

JoinLock ==
  /\ Acceptor("add") /\ GrowCount("acceptor") /\ acc_pc' = "store"
  /\ UNCHANGED <<servers, curr_server, mode, tcp_mutex, mainVars, monVars, cur,
                 announced, listed, reply, client, netVars, fault,
                 history>>

JoinStore ==
  /\ Acceptor("store") /\ StoreServer(cur) /\ acc_pc' = "unlock"
  /\ UNCHANGED <<server_cnt, curr_server, mode, tcp_mutex, mainVars, monVars,
                 cur, announced, listed, reply, client, netVars,
                 fault, asked, answered, spared>>

KeepLock == tcp_mutex' = tcp_mutex  \* mutant: returns without unlocking
Unlock == tcp_mutex' = Nobody

EndSession ==
  /\ Acceptor("unlock") /\ Unlock
  /\ acc_pc' = "accept" /\ cur' = NoClient
  /\ UNCHANGED <<router_t, mutex, mainVars, monVars, announced, listed, reply,
                 client, netVars, fault, history>>

-----------------------------------------------------------------------------
(* The clients: how update_and_online and update_hosts end a session.      *)
HasList(c) ==
  /\ Sound /\ c = cur /\ acc_pc \in {"ports", "wait"} /\ client[c] = "served"
  /\ reply = "none" /\ Len(listed) = announced

Answer(c, r) ==
  /\ reply' = r
  /\ client' = [client EXCEPT ![c] = IF r = "reset" THEN "broken" ELSE "done"]
  /\ UNCHANGED <<router_t, locks, mainVars, monVars, acc_pc, cur, announced,
                 listed, netVars, fault, history>>

(* update_and_online: some listed server sent the hosts; register.         *)
Register(c) == c \in Joiners /\ HasList(c) /\ listed # <<>> /\ Answer(c, "self")

(* None did, or none is listed: close without a word.                      *)
GiveUp(c) ==
  /\ c \in Joiners /\ HasList(c) /\ (listed = <<>> \/ ConnectionsMayBreak)
  /\ Answer(c, "eof")

(* update_hosts has told the others and sends zeroes ...                   *)
Finish(c) == c \in Updaters /\ HasList(c) /\ Answer(c, "null")

(* ... or returns on an error without closing its socket.                  *)
Abandon(c) ==
  /\ c \in Updaters /\ HasList(c) /\ ConnectionsMayBreak /\ Answer(c, "none")

Reset(c) ==
  /\ Sound /\ ConnectionsMayBreak /\ c = cur /\ client[c] = "served"
  /\ acc_pc \in {"lock", "count", "ports", "wait"} /\ Answer(c, "reset")

-----------------------------------------------------------------------------
MainStep ==
  MainAddLock \/ MainAddStore \/ Forward \/ ForwardTraps \/ ForwardNoServers
MonitorStep ==
  \/ Round \/ Probe \/ Alloc \/ Fill \/ Verdict
  \/ \E s \in Server : DrainPong(s)
  \/ RemoveLock \/ RemoveDelete \/ RoundDone
AcceptorStep ==
  \/ \E c \in Clients : Accept(c)
  \/ LockTcp \/ SendCount \/ SendPort \/ PortsSent \/ SessionFails
  \/ ReadReply \/ JoinLock \/ JoinStore \/ EndSession
EndStep(c) == Register(c) \/ GiveUp(c) \/ Finish(c) \/ Abandon(c)

Next ==
  \/ MainStep \/ MonitorStep \/ AcceptorStep
  \/ \E s \in Server : Respond(s) \/ Pause(s)
  \/ \E c \in Clients : Connect(c) \/ EndStep(c) \/ Reset(c)

Spec == Init /\ [][Next]_vars

(* The threads run for ever, and the client in session, the only one that  *)
(* has a list, goes on; nothing obliges the generator, the network or a    *)
(* reset.                                                                  *)
FairSpec ==
  /\ Spec /\ WF_vars(MonitorStep) /\ WF_vars(AcceptorStep)
  /\ WF_vars(\E c \in Clients : EndStep(c))

-----------------------------------------------------------------------------
InSession == acc_pc \in {"count", "ports", "wait", "add", "store", "unlock"}

(* The types of the variables: what router_t, the locals of the three      *)
(* threads and the sockets can hold.                                       *)
TypeOK ==
  /\ servers \in Seq(Server) /\ server_cnt \in Nat /\ curr_server \in Nat
  /\ mode \in Modes
  /\ mutex \in Threads \cup {Nobody} /\ tcp_mutex \in Threads \cup {Nobody}
  /\ added \in 0..Len(Initial) /\ storing \in BOOLEAN
  /\ mon_pc \in {"start", "probe", "alloc", "fill", "drain", "remove", "delete"}
  /\ starting_cnt \in Nat /\ cnt \in Nat /\ offline \in Seq(Server)
  /\ acc_pc \in {"accept", "lock", "count", "ports", "wait", "add", "store",
                 "unlock"}
  /\ cur \in Clients \cup {NoClient} /\ announced \in Nat
  /\ listed \in Seq(Server)
  /\ reply \in {"none", "self", "null", "eof", "reset"}
  /\ client \in [Clients -> {"idle", "waiting", "served", "done", "broken"}]
  /\ probes \in [Server -> 0..MaxPending] /\ pongs \in [Server -> 0..MaxPending]
  /\ alive \in [Server -> {"up", "last", "paused"}]
  /\ fault \in {"none", "forward", "probe", "fill", "delete", "div0"}
  /\ recent \in Seq(Server) /\ asked \subseteq Server
  /\ answered \subseteq Server /\ spared \in [Server -> 0..2]

(* "Can't remove a server at the same time as sending this data over": in  *)
(* a session the ports sent are those of the rotation's first servers, and *)
(* the count that was announced stays the rotation's size until the client *)
(* itself joins (check_tcp_connections and remove_server, tcp_mutex).      *)
SessionViewStable ==
  InSession /\ acc_pc # "count" =>
    /\ announced <= Len(servers) /\ IsPrefix(listed, servers)
    /\ Len(listed) <= announced
    /\ acc_pc \in {"ports", "wait", "add"} => announced = server_cnt

(* forward_request never indexes the array while add_dns_server or         *)
(* remove_server is half-way through it.                                   *)
RequestsSeeWholeRotation == fault \notin {"forward", "delete"}

(* remove_server always finds the server it is asked to remove: the path   *)
(* that returns 1 with both locks held is never taken.                     *)
RemoveAlwaysFinds ==
  mon_pc = "delete" => Contains(servers, Head(offline))

(* A lock is held by a thread outside its critical section only after the  *)
(* two early returns that leak it: forward_request on an empty rotation    *)
(* and check_tcp_connections on a broken connection.                       *)
LocksReturned ==
  /\ mutex = "monitor" => mon_pc = "delete"
  /\ mutex = "acceptor" => acc_pc = "store"
  /\ mutex = "main" => storing \/ servers = <<>>
  /\ tcp_mutex # "main" /\ tcp_mutex # "monitor"
  /\ tcp_mutex = "acceptor" =>
       InSession \/ \E c \in Clients : client[c] = "broken"

(* While the rotation does not change, ROUND_ROBIN gives any n consecutive *)
(* requests to n different servers, and OVERLOAD gives more than half of   *)
(* any 2n to the first one (forward_request's use of curr_server).         *)
LastOf(q, n) == SubSeq(q, Len(q) - n + 1, Len(q))
RequestsSpread ==
  LET n == Len(servers)
  IN  /\ mode = "ROUND_ROBIN" /\ n > 0 /\ Len(recent) >= n =>
           ToSet(LastOf(recent, n)) = ToSet(servers)
      /\ mode = "OVERLOAD" /\ n > 0 /\ Len(recent) >= 2 * n =>
           Cardinality({i \in 1..(2 * n) : LastOf(recent, 2 * n)[i] = servers[1]}) > n

(* A server that is removed was probed in the same round and no answer of  *)
(* it had reached the router when the round was judged: a server that      *)
(* joins during a round is never its victim (query_response_time's count   *)
(* check), nor is one whose answer is still in the socket.                 *)
OnlySilentServersRemoved ==
  [][\A s \in ToSet(servers) \ ToSet(servers') : s \in asked \ answered]_vars

(* A paused server survives at most one more verdict, on answers it sent   *)
(* before: the socket is drained in every round.                           *)
StalePongBuysOneRound == \A s \in Server : spared[s] <= 1

(* The router implements the directory: tcp_mutex makes the session a      *)
(* snapshot, as far as the servers and the hosts protocol can tell.        *)
Dir == INSTANCE Directory WITH
  Server <- Server, Client <- Clients,
  rotation <- servers,
  holder <- IF InSession THEN cur ELSE NoClient,
  view <- IF ~InSession THEN <<>>
          ELSE IF acc_pc = "count" THEN servers ELSE SubSeq(servers, 1, announced)
ImplementsDirectory == Dir!DirSpec

(* The ways in which the code stops for good: a client leaves without a    *)
(* word, and the acceptor reads for ever; the two early returns that leak  *)
(* a lock; a join that meets a removal; or the process is lost.            *)
Spins ==
  acc_pc = "wait" /\ (reply = "eof" \/ (reply = "none" /\ client[cur] = "done"))
TcpMutexLost ==
  tcp_mutex = "acceptor" /\ ~InSession /\ \E c \in Clients : client[c] = "broken"
MutexLost == mutex = "main" /\ ~storing
CircularWait ==
  /\ acc_pc = "add" /\ tcp_mutex = "acceptor"
  /\ mon_pc = "delete" /\ mutex = "monitor"
Stopped == Spins \/ TcpMutexLost \/ MutexLost \/ CircularWait \/ fault # "none"

(* A server that stops answering leaves the rotation, whatever clients and *)
(* late answers do, and nothing prevents it but those (check_servers).     *)
PausedServerRemoved ==
  \A s \in Pausable : alive[s] = "paused" ~> ~Contains(servers, s) \/ Stopped

(* Those are the only reasons for which a client that connects is not      *)
(* served and let go: not those before it in the queue, which may register *)
(* or send zeroes, close, fall silent, or be cut off, nor a removal that   *)
(* waits for tcp_mutex, nor an empty rotation (check_ip_list_requests).    *)
Served(c) == client[c] \in {"done", "broken"} /\ cur # c
SessionsEnd == \A c \in Clients : client[c] = "waiting" ~> Served(c) \/ Stopped

(* What the README promises, "adding additional DNS servers without        *)
(* restarting the entire system" and a system "robust to servers going     *)
(* offline and coming back online": the process is never lost to a read    *)
(* past an array or a division by zero, and every client is served.        *)
KeepsServing ==
  /\ [](fault = "none")
  /\ \A c \in Clients : client[c] = "waiting" ~> Served(c)

(* The same promise for servers that come and go at one time: the threads  *)
(* never wait for each other in a circle.                                  *)
NoCircularWait == ~CircularWait

(* "Server has 5 seconds to aquire the new data, other wise ignored and    *)
(* connection closed" (check_tcp_connections).                             *)
SilentClientDropped ==
  []( acc_pc = "wait" => <>(acc_pc # "wait" \/ fault # "none") )
=============================================================================
