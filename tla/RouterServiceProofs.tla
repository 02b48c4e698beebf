------------------------ MODULE RouterServiceProofs -------------------------
(***************************************************************************)
(* What Router does for the servers and the clients of the program, for    *)
(* any servers and bounds: whom the monitor (query_response_time) removes  *)
(* and whom it spares, whether or not the mutexes exclude; and, where they *)
(* do, how requests are spread (forward_request).                          *)
(***************************************************************************)
EXTENDS RouterProofs, FiniteSetTheorems

(* The rotation only grows while a round is on.  A round that ends with    *)
(* the count it began with has probed the whole rotation.                  *)
Begun == mon_pc = "probe" => starting_cnt <= server_cnt
Probed ==
  mon_pc \in {"alloc", "fill", "drain"} =>
    /\ starting_cnt <= Len(servers)
    /\ starting_cnt = server_cnt => asked = ToSet(servers)

(* An answer of this round waits in the socket until it strikes its server *)
(* off the list, and what is then left on the list gave none.              *)
Waiting ==
  \A s \in answered :
    /\ mon_pc \in {"probe", "alloc", "fill"} => pongs[s] > 0
    /\ mon_pc = "drain" /\ Contains(offline, s) => pongs[s] > 0
Condemned ==
  mon_pc \in {"remove", "delete"} =>
    \A i \in 1..Len(offline) : offline[i] \in asked \ answered

(* A paused server that was spared has no answer left to come, and is on   *)
(* the list of every later round that counts.                              *)
Spent ==
  \A s \in Server :
    spared[s] > 0 =>
      /\ spared[s] = 1 /\ alive[s] = "paused" /\ pongs[s] = 0
      /\ mon_pc = "drain" /\ starting_cnt = server_cnt /\ Contains(servers, s) =>
           Contains(offline, s)

Judgement == Begun /\ Probed /\ Waiting /\ Condemned /\ Spent

LEMMA JudgementInit == Init => Judgement
BY DEF Init, Judgement, Begun, Probed, Waiting, Condemned, Spent

(* A server that is counted makes the round void, before it is stored and  *)
(* after.                                                                  *)
LEMMA GrowthKeepsJudgement ==
  ASSUME Membership, Membership', Judgement,
         \/ UNCHANGED <<servers, server_cnt>>
         \/ server_cnt' = server_cnt + 1 /\ UNCHANGED servers
         \/ Len(servers') = Len(servers) + 1 /\ UNCHANGED server_cnt,
         UNCHANGED <<monVars, pongs, alive, asked, answered, spared>>
  PROVE  Judgement'
<1>1. /\ server_cnt \in Nat /\ Len(servers) \in Nat /\ starting_cnt \in Nat
      /\ server_cnt' \in Nat /\ Len(servers') \in Nat
      /\ server_cnt >= Len(servers) /\ server_cnt' >= Len(servers')
  <2>1. /\ servers \in Seq(Server) /\ server_cnt \in Nat /\ starting_cnt \in Nat
        /\ servers' \in Seq(Server) /\ server_cnt' \in Nat
    BY DEF Membership, TypeOK
  <2>2. Len(servers) \in Nat /\ Len(servers') \in Nat
    BY <2>1
  <2> QED BY <2>1, <2>2 DEF Membership, Counted
<1>2. UNCHANGED <<mon_pc, starting_cnt, offline, pongs, alive, asked, answered, spared>>
  BY DEF monVars
<1>3. Begun' /\ Waiting' /\ Condemned'
  BY <1>1, <1>2 DEF Judgement, Begun, Waiting, Condemned
<1>4. mon_pc \in {"alloc", "fill", "drain"} =>
        \/ UNCHANGED <<servers, server_cnt>>
        \/ starting_cnt < server_cnt' /\ starting_cnt <= Len(servers')
  BY <1>1 DEF Judgement, Probed
<1>5. Probed'
  BY <1>1, <1>2, <1>4 DEF Judgement, Probed
<1>6. Spent'
  BY <1>1, <1>2, <1>4 DEF Judgement, Spent
<1> QED BY <1>3, <1>5, <1>6 DEF Judgement

(* Every step keeps the judgement sound.                                   *)
LEMMA JudgementStep ==
  ASSUME Membership, Membership', Judgement, [Next]_vars
  PROVE  Judgement'
<1> USE DEF Main, Monitor, Acceptor, Running, Sound, router_t, locks, mainVars, accVars,
            monVars, netVars, history
<1>0. /\ servers \in Seq(Server) /\ offline \in Seq(Server) /\ server_cnt \in Nat
      /\ starting_cnt \in Nat /\ Len(servers) \in Nat /\ server_cnt >= Len(servers)
      /\ pongs \in [Server -> 0..MaxPending] /\ spared \in [Server -> 0..2]
      /\ alive \in [Server -> {"up", "last", "paused"}]
      /\ asked \subseteq Server /\ answered \subseteq Server
  <2>1. /\ servers \in Seq(Server) /\ offline \in Seq(Server) /\ server_cnt \in Nat
        /\ starting_cnt \in Nat /\ asked \subseteq Server /\ answered \subseteq Server
    BY DEF Membership, TypeOK
  <2>2. /\ pongs \in [Server -> 0..MaxPending] /\ spared \in [Server -> 0..2]
        /\ alive \in [Server -> {"up", "last", "paused"}]
    BY DEF Membership, TypeOK
  <2>3. Len(servers) \in Nat
    BY <2>1
  <2>4. server_cnt >= Len(servers)
    BY <2>1, <2>3 DEF Membership, Counted
  <2> QED BY <2>1, <2>2, <2>3, <2>4
<1>1. CASE MainAddLock \/ JoinLock
  BY <1>1, GrowthKeepsJudgement DEF MainAddLock, JoinLock, GrowCount
<1>2. CASE MainAddStore \/ JoinStore
  <2>1. Len(servers') = Len(servers) + 1
    BY <1>2, <1>0 DEF MainAddStore, JoinStore, StoreServer
  <2> QED BY <1>2, <2>1, GrowthKeepsJudgement DEF MainAddStore, JoinStore
<1>3. CASE Forward \/ ForwardTraps \/ ForwardNoServers
  BY <1>3, GrowthKeepsJudgement DEF Forward, ForwardTraps, ForwardNoServers
<1>4. CASE Round
  BY <1>4, <1>0 DEF Round, Judgement, Begun, Probed, Waiting, Condemned, Spent
<1>5. CASE Probe
  <2>1. CASE Torn
    BY <1>5, <2>1, GrowthKeepsJudgement DEF Probe
  <2>2. CASE ~Torn
    <3>1. server_cnt = Len(servers) /\ starting_cnt <= server_cnt
      BY <1>5, <2>2, <1>0 DEF Torn, Probe, Judgement, Begun
    <3> QED
      BY <1>5, <2>2, <3>1
      DEF Probe, Judgement, Begun, Probed, Waiting, Condemned, Spent
  <2> QED BY <2>1, <2>2
<1>6. CASE Alloc
  BY <1>6 DEF Alloc, Judgement, Begun, Probed, Waiting, Condemned, Spent
<1>7. CASE Fill
  <2>1. \/ UNCHANGED <<offline, mon_pc>>
        \/ offline' = servers /\ mon_pc' = "drain"
    BY <1>7 DEF Fill, AllIds
  <2>2. mon_pc = "fill"
        /\ UNCHANGED <<servers, server_cnt, starting_cnt, pongs, alive, asked, answered, spared>>
    BY <1>7 DEF Fill
  <2> QED BY <2>1, <2>2 DEF Judgement, Begun, Probed, Waiting, Condemned, Spent
<1>8. ASSUME NEW s \in Server, DrainPong(s) PROVE Judgement'
  <2>1. /\ mon_pc = "drain" /\ pongs[s] > 0 /\ pongs' = [pongs EXCEPT ![s] = @ - 1]
        /\ offline' = RemoveFirst(offline, s)
        /\ UNCHANGED <<mon_pc, servers, server_cnt, starting_cnt, alive, asked, answered, spared>>
    BY <1>8 DEF DrainPong
  <2>2. /\ ~Contains(offline', s)
        /\ \A t : t # s => (Contains(offline', t) <=> Contains(offline, t))
    <3>1. CASE Contains(offline, s)
      <4>1. IsInjective(offline)
        BY <2>1 DEF Membership, Silent
      <4>2. /\ \A i \in 1..Len(offline') : offline'[i] # s /\ Contains(offline, offline'[i])
            /\ \A t : Contains(offline, t) /\ t # s => Contains(offline', t)
        BY <3>1, <4>1, <2>1, <1>0, RemoveFirstProperties
      <4>3. \A t : Contains(offline', t) => t # s /\ Contains(offline, t)
        BY <4>2 DEF Contains
      <4> QED BY <4>2, <4>3
    <3>2. CASE ~Contains(offline, s)
      BY <3>2, <2>1, RemoveFirstOfAbsent
    <3> QED BY <3>1, <3>2
  <2>3. \A t \in Server : t # s => pongs'[t] = pongs[t]
    BY <2>1, <1>0
  <2>4. Begun' /\ Probed' /\ Condemned'
    BY <2>1 DEF Judgement, Begun, Probed, Condemned
  <2>5. Waiting'
    BY <2>1, <2>2, <2>3, <1>0 DEF Judgement, Waiting
  <2>6. Spent'
    BY <2>1, <2>2, <2>3, <1>0 DEF Judgement, Spent
  <2> QED BY <2>4, <2>5, <2>6 DEF Judgement
<1>9. CASE Verdict
  <2>1. mon_pc = "drain" /\ \A s \in Server : pongs[s] = 0
    BY <1>9 DEF Verdict, SocketEmpty
  <2>2. CASE RoundVoid
    BY <1>9, <2>2 DEF Verdict, Judgement, Begun, Probed, Waiting, Condemned, Spent
  <2>3. CASE ~RoundVoid
    <3>1. /\ mon_pc' = "remove"
          /\ UNCHANGED <<servers, offline, pongs, alive, asked, answered>>
      BY <1>9, <2>3 DEF Verdict
    <3>2. starting_cnt = server_cnt /\ asked = ToSet(servers)
      BY <2>1, <2>3 DEF RoundVoid, Judgement, Probed
    <3>3. \A i \in 1..Len(offline) :
            /\ Contains(servers, offline[i]) /\ Contains(offline, offline[i])
            /\ offline[i] \in Server
      BY <2>1, <1>0 DEF Membership, Silent, Contains
    <3>4. \A i \in 1..Len(offline) : offline[i] \in asked
      <4>1. \A x : Contains(servers, x) => x \in ToSet(servers)
        BY <1>0 DEF Contains, ToSet
      <4> QED BY <3>2, <3>3, <4>1
    <3>5. \A i \in 1..Len(offline) : offline[i] \notin answered
      <4> SUFFICES ASSUME NEW i \in 1..Len(offline), offline[i] \in answered PROVE FALSE
        OBVIOUS
      <4>1. pongs[offline[i]] > 0
        BY <2>1, <3>3 DEF Judgement, Waiting
      <4>2. pongs[offline[i]] = 0
        BY <2>1, <3>3
      <4> QED BY <4>1, <4>2
    <3>6. Condemned'
      BY <3>1, <3>4, <3>5 DEF Condemned
    <3>7. ASSUME NEW s \in Server, spared'[s] > 0
          PROVE  spared'[s] = 1 /\ alive[s] = "paused"
      <4>1. spared'[s] = IF /\ alive[s] = "paused" /\ Contains(servers, s)
                            /\ ~Contains(offline, s) /\ spared[s] < 2
                         THEN spared[s] + 1 ELSE spared[s]
        BY <1>9, <2>3 DEF Verdict
      <4>2. spared[s] \in 0..2
        BY <1>0
      <4>3. spared[s] > 0 =>
              /\ spared[s] = 1 /\ alive[s] = "paused"
              /\ Contains(servers, s) => Contains(offline, s)
        BY <2>1, <3>2 DEF Judgement, Spent
      <4> QED BY <3>7, <4>1, <4>2, <4>3
    <3>8. Spent'
      BY <2>1, <3>1, <3>7 DEF Spent
    <3> QED BY <3>1, <3>6, <3>8 DEF Judgement, Begun, Probed, Waiting
  <2> QED BY <2>2, <2>3
<1>10. CASE RemoveLock
  BY <1>10 DEF RemoveLock, Judgement, Begun, Probed, Waiting, Condemned, Spent
<1>11. CASE RemoveDelete
  <2>1. /\ mon_pc = "delete" /\ mon_pc' = "remove" /\ offline' = Tail(offline)
        /\ UNCHANGED <<pongs, alive, asked, answered, spared>>
    BY <1>11 DEF RemoveDelete, MayDelete
  <2>2. \A i \in 1..Len(offline') : \E k \in 1..Len(offline) : offline'[i] = offline[k]
    BY <2>1, <1>0 DEF Membership, Silent
  <2> QED
    BY <2>1, <2>2 DEF Judgement, Begun, Probed, Waiting, Condemned, Spent
<1>12. CASE RoundDone
  BY <1>12 DEF RoundDone, Judgement, Begun, Probed, Waiting, Condemned, Spent
<1>13. ASSUME NEW s \in Server, Respond(s) PROVE Judgement'
  <2>1. /\ alive[s] # "paused"
        /\ \/ /\ pongs' = [pongs EXCEPT ![s] = @ + 1]
              /\ answered' \subseteq answered \cup {s}
              /\ mon_pc \in {"remove", "delete"} => answered' = answered
           \/ UNCHANGED <<pongs, answered>>
        /\ \A t \in Server : t # s => alive'[t] = alive[t]
        /\ UNCHANGED <<mon_pc, servers, server_cnt, starting_cnt, offline, asked, spared>>
    BY <1>13, <1>0 DEF Respond
  <2>2. \A t \in Server : pongs'[t] >= pongs[t] /\ (t # s => pongs'[t] = pongs[t])
    BY <2>1, <1>0
  <2>3. s \in answered' => pongs'[s] > 0 \/ UNCHANGED <<pongs, answered>>
    BY <2>1, <1>0
  <2>4. Begun' /\ Probed' /\ Condemned'
    BY <2>1 DEF Judgement, Begun, Probed, Condemned
  <2>5. Waiting'
    BY <2>1, <2>2, <2>3, <1>0 DEF Judgement, Waiting
  <2>6. Spent'
    BY <2>1, <2>2, <1>0 DEF Judgement, Spent
  <2> QED BY <2>4, <2>5, <2>6 DEF Judgement
<1>14. ASSUME NEW s \in Server, Pause(s) PROVE Judgement'
  <2>1. /\ alive[s] # "paused" /\ \A t \in Server : t # s => alive'[t] = alive[t]
        /\ UNCHANGED <<mon_pc, servers, server_cnt, starting_cnt, offline, pongs,
                       asked, answered, spared>>
    BY <1>14, <1>0 DEF Pause
  <2> QED BY <2>1 DEF Judgement, Begun, Probed, Waiting, Condemned, Spent
<1>15. ASSUME NEW c \in Clients, Connect(c) \/ Accept(c) \/ EndStep(c) \/ Reset(c)
       PROVE  Judgement'
  BY <1>15, GrowthKeepsJudgement
  DEF Connect, Accept, EndStep, Register, GiveUp, Finish, Abandon, Reset, Answer
<1>16. CASE LockTcp \/ SendCount \/ SendPort \/ PortsSent \/ SessionFails \/ ReadReply \/ EndSession
  BY <1>16, GrowthKeepsJudgement
  DEF LockTcp, SendCount, SendPort, PortsSent, SessionFails, ReadReply, EndSession
<1>17. CASE UNCHANGED vars
  BY <1>17, GrowthKeepsJudgement DEF vars
<1> QED
  BY <1>1, <1>2, <1>3, <1>4, <1>5, <1>6, <1>7, <1>8, <1>9, <1>10, <1>11, <1>12,
     <1>13, <1>14, <1>15, <1>16, <1>17
  DEF Next, MainStep, MonitorStep, AcceptorStep

LEMMA JudgementInvariant == Spec => [](Membership /\ Judgement)
<1>1. (Membership /\ Membership') /\ Judgement /\ [Next]_vars => Judgement'
  BY JudgementStep
<1> QED BY <1>1, JudgementInit, MembershipInvariant, PTL DEF Spec

-----------------------------------------------------------------------------
(* Only a server that was probed in the round, and none of whose answers   *)
(* had reached the router when the round was judged, is removed            *)
(* (query_response_time, remove_server).                                   *)
THEOREM OnlySilentAreRemoved == Spec => OnlySilentServersRemoved
<1> DEFINE Fair == \A s \in ToSet(servers) \ ToSet(servers') : s \in asked \ answered
<1>1. Membership /\ Judgement /\ [Next]_vars => [Fair]_vars
  <2> SUFFICES ASSUME Membership, Judgement, Next,
                      NEW s \in ToSet(servers), s \notin ToSet(servers')
               PROVE  s \in asked \ answered
    BY DEF vars, router_t
  <2> USE DEF mainVars, accVars, monVars, router_t
  <2>0. servers \in Seq(Server) /\ offline \in Seq(Server) /\ IsInjective(servers)
    BY DEF Membership, TypeOK, Distinct
  <2>1. ToSet(servers) = {x \in Server : Contains(servers, x)}
        /\ \A q \in Seq(Server) : \A x : x \in ToSet(q) <=> Contains(q, x)
    BY <2>0 DEF ToSet, Contains
  <2>2. ASSUME NEW x \in Server, servers' = Append(servers, x) PROVE FALSE
    <3>1. /\ servers' \in Seq(Server) /\ Len(servers') = Len(servers) + 1
          /\ \A i \in 1..Len(servers) : servers'[i] = servers[i]
      BY <2>0, <2>2
    <3> QED BY <2>0, <2>1, <3>1 DEF Contains
  <2>3. CASE RemoveDelete
    <3>1. mon_pc = "delete" /\ offline # <<>>
      BY <2>3 DEF RemoveDelete, MayDelete, Monitor, Membership, Silent
    <3>2. Head(offline) = offline[1] /\ 1 \in 1..Len(offline)
      BY <2>0, <3>1
    <3>3. servers' = RemoveFirst(servers, Head(offline)) /\ Contains(servers, Head(offline))
      BY <2>3 DEF RemoveDelete
    <3>4. servers' \in Seq(Server)
          /\ \A x : Contains(servers, x) /\ x # Head(offline) => Contains(servers', x)
      BY <2>0, <3>3, RemoveFirstProperties
    <3>5. s = Head(offline)
      BY <2>1, <3>4
    <3> QED BY <3>1, <3>2, <3>5 DEF Judgement, Condemned
  <2>4. CASE MainAddStore \/ JoinStore
    <3>1. PICK x \in Server : servers' = Append(servers, x)
      BY <2>4, NewcomerIsNew DEF MainAddStore, JoinStore, StoreServer, Main, Acceptor
    <3> QED BY <2>2, <3>1
  <2>5. CASE UNCHANGED servers
    BY <2>5
  <2>6. \/ RemoveDelete \/ MainAddStore \/ JoinStore \/ UNCHANGED servers
    BY DEF Next, MainStep, MonitorStep, AcceptorStep, MainAddLock, Forward,
       ForwardTraps, ForwardNoServers, Round, Probe, Alloc, Fill, Verdict, DrainPong,
       RemoveLock, RoundDone, Accept, LockTcp, SendCount, SendPort, PortsSent,
       SessionFails, ReadReply, JoinLock, EndSession, Respond, Pause, Connect,
       EndStep, Register, GiveUp, Finish, Abandon, Reset, Answer
  <2> QED BY <2>3, <2>4, <2>5, <2>6
<1>2. Spec => [][Fair]_vars
  BY <1>1, JudgementInvariant, PTL DEF Spec
<1> QED BY <1>2 DEF OnlySilentServersRemoved

(* A paused server outlives one verdict at most, on an answer from before  *)
(* (query_response_time drains the socket in every round).                 *)
THEOREM StalePongsSpareOnce == Spec => []StalePongBuysOneRound
<1>1. Membership /\ Judgement => StalePongBuysOneRound
  <2> SUFFICES ASSUME Membership, Judgement, NEW s \in Server PROVE spared[s] <= 1
    BY DEF StalePongBuysOneRound
  <2>1. spared[s] \in 0..2
    BY DEF Membership, TypeOK
  <2> QED BY <2>1 DEF Judgement, Spent
<1> QED BY <1>1, JudgementInvariant, PTL

-----------------------------------------------------------------------------
(* Remainders: a quotient and a rest determine the number's, and the next  *)
(* number's remainder is one more, or zero.                                *)
LEMMA DivMod ==
  ASSUME NEW c \in Nat, NEW n \in Nat \ {0}
  PROVE  c % n \in 0..(n - 1) /\ c = (n * (c \div n)) + (c % n) /\ c \div n \in Nat
OBVIOUS

LEMMA ModUnique ==
  ASSUME NEW n \in Nat \ {0}, NEW q \in Nat, NEW r \in 0..(n - 1)
  PROVE  ((n * q) + r) % n = r
OBVIOUS

LEMMA ModNext ==
  ASSUME NEW c \in Nat, NEW n \in Nat \ {0}
  PROVE  (1 + c) % n = IF c % n = n - 1 THEN 0 ELSE (c % n) + 1
<1>1. PICK q \in Nat, r \in 0..(n - 1) : c = (n * q) + r /\ r = c % n
  BY DivMod
<1> DEFINE p == n * q
<1>2. p \in Nat /\ \A i \in 0..(n - 1) : (p + i) % n = i
  BY ModUnique
<1>3. (p + n) % n = 0
  <2>1. n * (q + 1) = p + n /\ p + n \in Nat
    OBVIOUS
  <2>2. ((n * (q + 1)) + 0) % n = 0
    <3>1. q + 1 \in Nat /\ 0 \in 0..(n - 1)
      OBVIOUS
    <3> QED BY <3>1, ModUnique
  <2>3. (n * (q + 1)) + 0 = p + n
    BY <2>1
  <2> QED BY <2>2, <2>3
<1>4. c = p + r
  BY <1>1
<1> HIDE DEF p
<1>5. CASE r = n - 1
  <2>1. 1 + c = p + n
    BY <1>2, <1>4, <1>5
  <2> QED BY <2>1, <1>1, <1>3, <1>5
<1>6. CASE r # n - 1
  <2>1. 1 + c = p + (r + 1) /\ r + 1 \in 0..(n - 1)
    BY <1>2, <1>4, <1>6
  <2>2. (1 + c) % n = r + 1
    BY <2>1, <1>2
  <2> QED BY <2>2, <1>1, <1>6
<1> QED BY <1>5, <1>6

(* The history of requests from its end: the new one, and those before.    *)
LEMMA RememberEnd ==
  ASSUME TypeOK, NEW s \in Server
  PROVE  /\ Len(Remember(s)) \in Nat
         /\ Len(Remember(s)) <= Len(recent) + 1
         /\ \A j \in 0..(Len(Remember(s)) - 1) :
              Remember(s)[Len(Remember(s)) - j] =
                IF j = 0 THEN s ELSE recent[Len(recent) + 1 - j]
<1> DEFINE long == Append(recent, s)
<1>1. recent \in Seq(Server) /\ Len(recent) \in Nat
  BY DEF TypeOK
<1>2. /\ long \in Seq(Server) /\ Len(long) = Len(recent) + 1
      /\ \A k \in 1..Len(long) : long[k] = IF k = Len(long) THEN s ELSE recent[k]
  BY <1>1
<1>3. Remember(s) = IF Len(long) > Window THEN SubSeq(long, 2, Len(long)) ELSE long
  BY DEF Remember
<1> HIDE DEF long
<1>4. /\ Len(SubSeq(long, 2, Len(long))) = Len(recent)
      /\ \A k \in 1..Len(recent) : SubSeq(long, 2, Len(long))[k] = long[k + 1]
  BY <1>1, <1>2
<1>5. CASE Remember(s) = long
  BY <1>1, <1>2, <1>5
<1>6. CASE Remember(s) = SubSeq(long, 2, Len(long))
  BY <1>1, <1>2, <1>4, <1>6
<1> QED BY <1>3, <1>5, <1>6

-----------------------------------------------------------------------------
(* While the rotation stands still, the request j places back in the       *)
(* history went to the server j places back in the rotation.               *)
Place(c, n, j) == IF c > j THEN c - j ELSE (c + n) - j
Turns ==
  mode = "ROUND_ROBIN" /\ recent # <<>> =>
    /\ curr_server < Len(servers)
    /\ \A j \in Nat : j < Len(servers) /\ j < Len(recent) =>
         recent[Len(recent) - j] = servers[Place(curr_server, Len(servers), j)]

LEMMA HistoryTypes ==
  ASSUME Exclusion
  PROVE  /\ TypeOK /\ servers \in Seq(Server) /\ recent \in Seq(Server)
         /\ curr_server \in Nat /\ Len(servers) \in Nat /\ Len(recent) \in Nat
<1>1. TypeOK
  BY DEF Exclusion, Membership
<1>2. servers \in Seq(Server) /\ recent \in Seq(Server) /\ curr_server \in Nat
  BY <1>1 DEF TypeOK
<1> QED BY <1>1, <1>2

(* A request takes the next turn.                                          *)
LEMMA ForwardTurns ==
  ASSUME MutexesWork = TRUE, Exclusion, Turns, Forward
  PROVE  Turns'
<1> SUFFICES ASSUME mode = "ROUND_ROBIN" PROVE Turns'
  BY DEF Turns, Forward
<1> DEFINE n == Len(servers)
           c == curr_server
           l == Len(recent)
           k == Len(recent')
<1>1. /\ TypeOK /\ servers \in Seq(Server) /\ recent \in Seq(Server) /\ curr_server \in Nat
      /\ n \in Nat /\ l \in Nat
  BY HistoryTypes
<1>2. server_cnt = n /\ n > 0
  <2>1. mutex = Nobody /\ server_cnt > 0 /\ ~storing
    BY DEF Forward, Free, Running, Main
  <2>2. acc_pc # "store"
    BY <2>1 DEF Exclusion, Holders, Nobody
  <2> QED BY <2>1, <2>2 DEF Exclusion, Membership, Counted
<1>3. c % n \in 0..(n - 1)
  <2>1. c \in Nat /\ n \in Nat \ {0}
    BY <1>1, <1>2
  <2> HIDE DEF c, n
  <2> QED BY <2>1, DivMod
<1>4. /\ recent' = Remember(servers[(c % n) + 1]) /\ curr_server' = (1 + c) % n
      /\ UNCHANGED <<servers, mode>>
  BY <1>2, <1>3 DEF Forward, ChosenServer, NextServer
<1>5. servers[(c % n) + 1] \in Server
  BY <1>1, <1>3
<1>6. curr_server' = IF c % n = n - 1 THEN 0 ELSE (c % n) + 1
  <2>1. c \in Nat /\ n \in Nat \ {0} /\ curr_server' = (1 + c) % n
    BY <1>1, <1>2, <1>4
  <2> HIDE DEF c, n
  <2> QED BY <2>1, ModNext
<1>7. /\ k \in Nat /\ k <= l + 1
      /\ \A j \in 0..(k - 1) :
           recent'[k - j] = IF j = 0 THEN servers[(c % n) + 1] ELSE recent[(l + 1) - j]
  <2> DEFINE s == servers[(c % n) + 1]
  <2>1. recent' = Remember(s) /\ s \in Server /\ TypeOK
    BY <1>1, <1>4, <1>5
  <2> HIDE DEF s
  <2>2. /\ Len(Remember(s)) \in Nat /\ Len(Remember(s)) <= Len(recent) + 1
        /\ \A j \in 0..(Len(Remember(s)) - 1) :
             Remember(s)[Len(Remember(s)) - j] =
               IF j = 0 THEN s ELSE recent[Len(recent) + 1 - j]
    BY <2>1, RememberEnd
  <2>3. /\ k \in Nat /\ k <= l + 1
        /\ \A j \in 0..(k - 1) : recent'[k - j] = IF j = 0 THEN s ELSE recent[(l + 1) - j]
    BY <2>1, <2>2
  <2> QED BY <2>3 DEF s
<1>8. l > 0 => c < n /\ c % n = c
  <2>1. l > 0 => c < n
    BY <1>1 DEF Turns
  <2>2. c < n => c % n = c
    BY <1>1, <1>2
  <2> QED BY <2>1, <2>2
<1>9. ASSUME NEW j \in Nat, j < n, j < k
      PROVE  recent'[k - j] = servers[Place(curr_server', n, j)]
  <2>1. CASE j = 0
    <3>1. Place(curr_server', n, 0) = (c % n) + 1
      BY <1>1, <1>2, <1>3, <1>6 DEF Place
    <3>2. recent'[k - 0] = servers[(c % n) + 1]
      <4>1. 0 \in 0..(k - 1)
        BY <1>7, <1>9, <2>1
      <4> QED BY <1>7, <4>1
    <3> QED BY <2>1, <3>1, <3>2
  <2>2. CASE j > 0
    <3>1. PICK i \in Nat : j = i + 1
      BY <2>2
    <3>2. i < n /\ i < l /\ l > 0
      BY <1>1, <1>7, <1>9, <3>1
    <3>3. recent[l - i] = servers[Place(c, n, i)]
      <4>1. recent # <<>>
        BY <3>2
      <4> QED BY <3>2, <4>1 DEF Turns
    <3>4. recent'[k - j] = recent[(l + 1) - j] /\ (l + 1) - j = l - i
      <4>1. j \in 0..(k - 1)
        BY <1>7, <1>9
      <4>2. recent'[k - j] = recent[(l + 1) - j]
        BY <1>7, <2>2, <4>1
      <4>3. (l + 1) - j = l - i
        BY <1>1, <3>1
      <4> QED BY <4>2, <4>3
    <3>5. Place(curr_server', n, j) = Place(c, n, i)
      BY <1>1, <1>2, <1>6, <1>8, <1>9, <3>1, <3>2 DEF Place
    <3> QED BY <3>3, <3>4, <3>5
  <2> QED BY <2>1, <2>2
<1>10. curr_server' < n
  BY <1>1, <1>2, <1>3, <1>6
<1> QED BY <1>4, <1>9, <1>10 DEF Turns

(* Every other step leaves the history and the rotation alone, or forgets  *)
(* the history.                                                            *)
LEMMA HistoryOrForgotten ==
  ASSUME [Next]_vars
  PROVE  Forward \/ recent' = <<>> \/ UNCHANGED <<servers, curr_server, mode, recent>>
<1> USE DEF router_t, history
<1>1. CASE MainStep
  BY <1>1
  DEF MainStep, MainAddLock, GrowCount, MainAddStore, StoreServer, ForwardTraps,
      ForwardNoServers
<1>2. CASE MonitorStep
  BY <1>2
  DEF MonitorStep, Round, Probe, Alloc, Fill, Verdict, DrainPong, RemoveLock,
      RemoveDelete, RoundDone
<1>3. CASE AcceptorStep
  BY <1>3
  DEF AcceptorStep, Accept, LockTcp, SendCount, SendPort, PortsSent, SessionFails,
      ReadReply, JoinLock, GrowCount, JoinStore, StoreServer, EndSession
<1>4. ASSUME NEW s \in Server, Respond(s) \/ Pause(s)
      PROVE  UNCHANGED <<servers, curr_server, mode, recent>>
  BY <1>4 DEF Respond, Pause
<1>5. ASSUME NEW d \in Clients, Connect(d) \/ EndStep(d) \/ Reset(d)
      PROVE  UNCHANGED <<servers, curr_server, mode, recent>>
  BY <1>5 DEF Connect, EndStep, Register, GiveUp, Finish, Abandon, Reset, Answer
<1>6. CASE UNCHANGED vars
  BY <1>6 DEF vars
<1> QED BY <1>1, <1>2, <1>3, <1>4, <1>5, <1>6 DEF Next

LEMMA OtherTurns ==
  ASSUME Turns, [Next]_vars
  PROVE  Forward \/ Turns'
<1>1. CASE UNCHANGED <<servers, curr_server, mode, recent>>
  BY <1>1 DEF Turns
<1>2. CASE recent' = <<>>
  BY <1>2 DEF Turns
<1> QED BY <1>1, <1>2, HistoryOrForgotten

(* ROUND_ROBIN gives any n consecutive requests to the n servers of the    *)
(* rotation, one each.                                                     *)
LEMMA RoundRobinSpreads ==
  ASSUME MutexesWork = TRUE
  PROVE  Spec => [](mode = "ROUND_ROBIN" => RequestsSpread)
<1>1. Init => Turns
  BY DEF Init, Turns
<1>2. Exclusion /\ Turns /\ [Next]_vars => Turns'
  BY ForwardTurns, OtherTurns
<1>3. Exclusion /\ Turns => (mode = "ROUND_ROBIN" => RequestsSpread)
  <2> SUFFICES ASSUME Exclusion, Turns, mode = "ROUND_ROBIN",
                      Len(servers) > 0, Len(recent) >= Len(servers)
               PROVE  ToSet(LastOf(recent, Len(servers))) = ToSet(servers)
    BY DEF RequestsSpread
  <2> DEFINE n == Len(servers)
             l == Len(recent)
             last == LastOf(recent, n)
  <2>1. /\ servers \in Seq(Server) /\ recent \in Seq(Server) /\ curr_server \in Nat
        /\ n \in Nat /\ l \in Nat
    BY HistoryTypes
  <2>2. recent # <<>>
    BY <2>1
  <2>3. curr_server < n
        /\ \A j \in Nat : j < n => recent[l - j] = servers[Place(curr_server, n, j)]
    BY <2>1, <2>2 DEF Turns
  <2>4. DOMAIN last = 1..n /\ \A i \in 1..n : last[i] = recent[(l - n) + i]
    BY <2>1 DEF LastOf
  <2>5. \A i \in 1..n : n - i \in Nat /\ n - i < n /\ l - (n - i) = (l - n) + i
    BY <2>1
  <2>6. \A i \in 1..n : last[i] = servers[Place(curr_server, n, n - i)]
    BY <2>3, <2>4, <2>5
  <2>7. \A i \in 1..n : Place(curr_server, n, n - i) \in 1..n
    BY <2>1, <2>3 DEF Place
  <2>8. \A m \in 1..n : \E i \in 1..n : Place(curr_server, n, n - i) = m
    <3> SUFFICES ASSUME NEW m \in 1..n
                 PROVE  \E i \in 1..n : Place(curr_server, n, n - i) = m
      OBVIOUS
    <3> DEFINE i == IF m <= curr_server THEN (n + m) - curr_server ELSE m - curr_server
    <3>1. i \in 1..n
      BY <2>1, <2>3
    <3>2. CASE m <= curr_server
      <4>1. n - i = curr_server - m /\ curr_server > curr_server - m
        BY <2>1, <2>3, <3>2
      <4>2. Place(curr_server, n, curr_server - m) = m
        BY <2>1, <4>1 DEF Place
      <4> QED BY <3>1, <4>1, <4>2
    <3>3. CASE m > curr_server
      <4>1. i = m - curr_server
        BY <2>1, <3>3
      <4>2. n - i = (curr_server + n) - m
        <5> HIDE DEF i, n
        <5> QED BY <2>1, <4>1
      <4>3. curr_server <= (curr_server + n) - m
        BY <2>1
      <4>4. Place(curr_server, n, (curr_server + n) - m) = m
        BY <2>1, <4>3 DEF Place
      <4> QED BY <3>1, <4>2, <4>4
    <3> QED BY <2>1, <3>2, <3>3
  <2>9. DOMAIN servers = 1..n
    BY <2>1
  <2>10. ToSet(last) = {last[i] : i \in 1..n} /\ ToSet(servers) = {servers[i] : i \in 1..n}
    BY <2>4, <2>9 DEF ToSet
  <2> HIDE DEF last, n
  <2>11. ToSet(last) = ToSet(servers)
    <3> DEFINE at(i) == Place(curr_server, n, n - i)
    <3>1. \A i \in 1..n : at(i) \in 1..n /\ last[i] = servers[at(i)]
      BY <2>6, <2>7
    <3>2. \A m \in 1..n : \E i \in 1..n : at(i) = m
      BY <2>8
    <3> HIDE DEF at
    <3>3. \A m \in 1..n : \E i \in 1..n : last[i] = servers[m]
      BY <3>1, <3>2
    <3>4. \A i \in 1..n : \E m \in 1..n : last[i] = servers[m]
      BY <3>1
    <3>5. {servers[m] : m \in 1..n} \subseteq {last[i] : i \in 1..n}
      BY <3>3
    <3>6. {last[i] : i \in 1..n} \subseteq {servers[m] : m \in 1..n}
      BY <3>4
    <3> QED BY <2>10, <3>5, <3>6
  <2> QED BY <2>11 DEF last, n
<1> QED BY <1>1, <1>2, <1>3, ExclusionInvariant, PTL DEF Spec

-----------------------------------------------------------------------------
(* OVERLOAD counts up to twice the rotation's length.  Of the 2n places    *)
(* the first and the last n are the first server's, and while the rotation *)
(* stands still the request j places back had the place j back.            *)
Favoured(m) == m = 1 \/ m > Len(servers)
FirstTurns ==
  mode = "OVERLOAD" /\ recent # <<>> =>
    /\ curr_server < 2 * Len(servers)
    /\ \A j \in Nat :
         /\ j < 2 * Len(servers) /\ j < Len(recent)
         /\ Favoured(Place(curr_server, 2 * Len(servers), j))
         => recent[Len(recent) - j] = servers[1]

(* A request moves to the next place.                                      *)
LEMMA ForwardFirstTurns ==
  ASSUME MutexesWork = TRUE, Exclusion, FirstTurns, Forward
  PROVE  FirstTurns'
<1> SUFFICES ASSUME mode = "OVERLOAD" PROVE FirstTurns'
  BY DEF FirstTurns, Forward
<1> DEFINE n == Len(servers)
           c == curr_server
           l == Len(recent)
           k == Len(recent')
           s == servers[(IF c >= n THEN 0 ELSE c) + 1]
<1>1. /\ TypeOK /\ servers \in Seq(Server) /\ recent \in Seq(Server) /\ c \in Nat
      /\ n \in Nat /\ l \in Nat
  BY HistoryTypes
<1>2. server_cnt = n /\ n > 0
  <2>1. mutex = Nobody /\ server_cnt > 0 /\ ~storing
    BY DEF Forward, Free, Running, Main
  <2>2. acc_pc # "store"
    BY <2>1 DEF Exclusion, Holders, Nobody
  <2> QED BY <2>1, <2>2 DEF Exclusion, Membership, Counted
<1>3. /\ recent' = Remember(s) /\ UNCHANGED <<servers, mode>>
      /\ curr_server' = IF c >= n THEN (1 + c) % (n * 2) ELSE c + 1
  BY <1>1, <1>2 DEF Forward, ChosenServer, NextServer
<1>4. s \in Server /\ (c >= n \/ c = 0 => s = servers[1])
  BY <1>1, <1>2
<1>5. /\ curr_server' \in Nat /\ curr_server' < 2 * n
      /\ c < 2 * n => curr_server' = IF c = 2 * n - 1 THEN 0 ELSE c + 1
  <2>1. CASE c < n
    BY <1>1, <1>2, <1>3, <2>1
  <2>2. CASE c >= n
    <3> DEFINE w == n * 2
    <3>1. c \in Nat /\ w \in Nat \ {0} /\ curr_server' = (1 + c) % w /\ w = 2 * n
      BY <1>1, <1>2, <1>3, <2>2
    <3> HIDE DEF c, w, n
    <3>2. curr_server' = IF c % w = w - 1 THEN 0 ELSE (c % w) + 1
      BY <3>1, ModNext
    <3>3. c % w \in 0..(w - 1) /\ (c < w => c % w = c)
      BY <3>1
    <3> QED BY <3>1, <3>2, <3>3
  <2> QED BY <1>1, <2>1, <2>2
<1>6. /\ k \in Nat /\ k <= l + 1
      /\ \A j \in 0..(k - 1) :
           recent'[k - j] = IF j = 0 THEN s ELSE recent[(l + 1) - j]
  <2> HIDE DEF s
  <2>1. /\ Len(Remember(s)) \in Nat /\ Len(Remember(s)) <= Len(recent) + 1
        /\ \A j \in 0..(Len(Remember(s)) - 1) :
             Remember(s)[Len(Remember(s)) - j] =
               IF j = 0 THEN s ELSE recent[Len(recent) + 1 - j]
    BY <1>1, <1>4, RememberEnd
  <2> QED BY <1>3, <2>1
<1>7. ASSUME NEW j \in Nat, j < 2 * n, j < k, Favoured(Place(curr_server', 2 * n, j))
      PROVE  recent'[k - j] = servers[1]
  <2> HIDE DEF s
  <2>1. CASE j = 0
    <3>1. recent'[k - j] = s
      <4>1. j \in 0..(k - 1)
        BY <1>6, <1>7
      <4> QED BY <1>6, <2>1, <4>1
    <3>2. c < n => curr_server' = c + 1
      BY <1>3, <1>1
    <3>3. c >= n \/ c = 0
      BY <1>1, <1>2, <1>5, <1>7, <2>1, <3>2 DEF Place, Favoured
    <3> QED BY <1>4, <3>1, <3>3
  <2>2. CASE j > 0
    <3>1. PICK i \in Nat : j = i + 1
      BY <2>2
    <3>2. i < 2 * n /\ i < l /\ l > 0
      BY <1>1, <1>6, <1>7, <3>1
    <3>3. /\ c < 2 * n
          /\ Favoured(Place(c, 2 * n, i)) => recent[l - i] = servers[1]
      <4>1. recent # <<>>
        BY <3>2
      <4> QED BY <3>2, <4>1 DEF FirstTurns
    <3>4. recent'[k - j] = recent[l - i]
      <4>1. recent'[k - j] = recent[(l + 1) - j]
        BY <1>6, <1>7, <2>2
      <4>2. (l + 1) - j = l - i
        BY <1>1, <3>1
      <4> QED BY <4>1, <4>2
    <3>5. Place(curr_server', 2 * n, j) = Place(c, 2 * n, i)
      <4> DEFINE w == 2 * n
      <4>1. w \in Nat /\ c \in Nat /\ c < w /\ i \in Nat /\ i + 1 < w /\ j = i + 1
        BY <1>1, <1>7, <3>1, <3>3
      <4>2. curr_server' = IF c = w - 1 THEN 0 ELSE c + 1
        BY <1>5, <3>3
      <4> HIDE DEF w, n, c
      <4>3. Place(curr_server', w, j) = Place(c, w, i)
        BY <4>1, <4>2 DEF Place
      <4> QED BY <4>3 DEF w
    <3> QED BY <1>7, <3>3, <3>4, <3>5
  <2> QED BY <2>1, <2>2
<1>8. \A m : Favoured(m)' <=> Favoured(m)
  BY <1>3 DEF Favoured
<1> QED BY <1>3, <1>5, <1>7, <1>8 DEF FirstTurns, Favoured

(* Of any 2n requests to a rotation that stands still, the first server    *)
(* had the places 1 and n + 1 to 2n.                                       *)
LEMMA FirstServerFavoured ==
  ASSUME Exclusion, FirstTurns, mode = "OVERLOAD", Len(servers) > 0,
         Len(recent) >= 2 * Len(servers)
  PROVE  Cardinality({i \in 1..(2 * Len(servers)) :
            LastOf(recent, 2 * Len(servers))[i] = servers[1]}) > Len(servers)
<1> DEFINE n == Len(servers)
           w == 2 * n
           c == curr_server
           l == Len(recent)
           last == LastOf(recent, w)
           Won == {i \in 1..w : last[i] = servers[1]}
           place(x) == IF x = 0 THEN 1 ELSE n + x
           at(x) == IF place(x) <= c THEN (w + place(x)) - c ELSE place(x) - c
<1>1. /\ recent \in Seq(Server) /\ c \in Nat /\ n \in Nat \ {0} /\ l \in Nat
      /\ w \in Nat /\ w = n + n /\ l >= w
  BY HistoryTypes
<1>2. /\ c < w
      /\ \A j \in Nat : j < w /\ Favoured(Place(c, w, j)) => recent[l - j] = servers[1]
  <2>1. recent # <<>>
    BY <1>1
  <2> QED BY <1>1, <2>1 DEF FirstTurns
<1>3. \A i \in 1..w : last[i] = recent[(l - w) + i]
  BY <1>1 DEF LastOf
<1> HIDE DEF last, w
<1>4. ASSUME NEW x \in 0..n
      PROVE  /\ at(x) \in 1..w /\ Place(c, w, w - at(x)) = place(x)
             /\ Favoured(place(x))
  <2>1. place(x) \in 1..w /\ Favoured(place(x))
    BY <1>1 DEF Favoured
  <2> HIDE DEF place, c
  <2>2. c \in Nat /\ c < w /\ w \in Nat /\ place(x) \in 1..w
    BY <1>1, <1>2, <2>1
  <2>3. CASE place(x) <= c
    <3>1. at(x) \in 1..w /\ w - at(x) = c - place(x) /\ c > c - place(x)
      BY <2>2, <2>3
    <3> QED BY <2>1, <2>2, <3>1 DEF Place
  <2>4. CASE place(x) > c
    <3>1. at(x) \in 1..w /\ w - at(x) = (c + w) - place(x) /\ ~(c > (c + w) - place(x))
      BY <2>2, <2>4
    <3> QED BY <2>1, <2>2, <3>1 DEF Place
  <2> QED BY <2>2, <2>3, <2>4
<1>5. ASSUME NEW x \in 0..n PROVE at(x) \in Won
  <2> DEFINE i == at(x)
  <2>1. i \in 1..w /\ Favoured(Place(c, w, w - i))
    BY <1>4
  <2> HIDE DEF i
  <2>2. w - i \in Nat /\ w - i < w /\ l - (w - i) = (l - w) + i
    BY <1>1, <2>1
  <2>3. last[i] = servers[1]
    BY <1>2, <1>3, <2>1, <2>2
  <2> QED BY <2>1, <2>3 DEF i
<1>6. \A x, y \in 0..n : at(x) = at(y) => x = y
  <2> SUFFICES ASSUME NEW x \in 0..n, NEW y \in 0..n, at(x) = at(y) PROVE x = y
    OBVIOUS
  <2>1. place(x) = place(y)
    BY <1>4
  <2> QED BY <1>1, <2>1
<1> HIDE DEF at, Won, n
<1>7. IsFiniteSet(0..n) /\ Cardinality(0..n) = n + 1
  <2>1. 0 \in Int /\ n \in Int /\ ~(0 > n) /\ (n - 0) + 1 = n + 1
    BY <1>1
  <2>2. IsFiniteSet(0..n) /\ Cardinality(0..n) = IF 0 > n THEN 0 ELSE (n - 0) + 1
    BY <2>1, FS_Interval
  <2> QED BY <2>1, <2>2
<1>8. IsFiniteSet(Won) /\ Cardinality(Won) \in Nat
  <2>1. IsFiniteSet(1..w)
    BY <1>1, FS_Interval
  <2>2. Won \subseteq 1..w
    BY DEF Won
  <2> QED BY <2>1, <2>2, FS_Subset, FS_CardinalityType
<1>9. [x \in 0..n |-> at(x)] \in Injection(0..n, Won)
  BY <1>5, <1>6 DEF Injection, IsInjective
<1>10. n + 1 <= Cardinality(Won)
  BY <1>7, <1>8, <1>9, FS_Injection DEF ExistsInjection
<1>11. Cardinality(Won) > n
  BY <1>1, <1>8, <1>10
<1> QED BY <1>11 DEF Won, last, w, n

LEMMA OtherFirstTurns ==
  ASSUME FirstTurns, [Next]_vars
  PROVE  Forward \/ FirstTurns'
<1>1. CASE UNCHANGED <<servers, curr_server, mode, recent>>
  BY <1>1 DEF FirstTurns, Favoured
<1>2. CASE recent' = <<>>
  BY <1>2 DEF FirstTurns
<1> QED BY <1>1, <1>2, HistoryOrForgotten

(* While the rotation does not change, ROUND_ROBIN gives any n consecutive *)
(* requests to n different servers, and OVERLOAD more than half of any 2n  *)
(* to the first one (forward_request), where the mutexes exclude.          *)
THEOREM RequestsAreSpread ==
  ASSUME MutexesWork = TRUE
  PROVE  Spec => []RequestsSpread
<1>1. Init => FirstTurns
  BY DEF Init, FirstTurns
<1>2. Exclusion /\ FirstTurns /\ [Next]_vars => FirstTurns'
  BY ForwardFirstTurns, OtherFirstTurns
<1>3. Spec => [](Exclusion /\ FirstTurns)
  BY <1>1, <1>2, ExclusionInvariant, PTL DEF Spec
<1>4. /\ Exclusion /\ FirstTurns /\ (mode = "ROUND_ROBIN" => RequestsSpread)
      => RequestsSpread
  <2> SUFFICES ASSUME Exclusion, FirstTurns, mode = "ROUND_ROBIN" => RequestsSpread
               PROVE  RequestsSpread
    OBVIOUS
  <2>1. mode = "ROUND_ROBIN" \/ mode = "OVERLOAD"
    BY ConstantsOK DEF ConstantsOK, Exclusion, Membership, TypeOK
  <2> QED BY <2>1, FirstServerFavoured DEF RequestsSpread
<1>5. Spec => [](mode = "ROUND_ROBIN" => RequestsSpread)
  BY RoundRobinSpreads
<1> QED BY <1>3, <1>4, <1>5, PTL
=============================================================================
