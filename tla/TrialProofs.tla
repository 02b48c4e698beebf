---------------------------- MODULE TrialProofs -----------------------------
(***************************************************************************)
(* Theorems about Trial, for any number of servers and requests, any       *)
(* domains, and any number of datagrams taken again: what the results say  *)
(* is true, whatever the network and the scheduler do.                     *)
(***************************************************************************)
EXTENDS Trial, ScoreboardProofs, MessagesProofs, FiniteSetTheorems

(* The servers and their threads: nothing reaches a server that is not     *)
(* complete, and a server that has answered since it was paused has a      *)
(* thread that spins or is dead, or is freed.                              *)
Quiet(s) ==
  /\ late[s] = 1 => pause[s] /\ (pc[s] \in {"check", "dead"} \/ stage[s] = "freed")
  /\ stage[s] = "freed" => pc[s] # "answer"
Incomplete(s) == stage[s] \in {"none", "creating"}
ServersOK ==
  /\ stage \in [Server -> {"none", "creating", "made", "online", "cancelled", "freed"}]
  /\ pause \in [Server -> BOOLEAN]
  /\ pc \in [Server -> {"none", "check", "recieve", "answer", "dead"}]
  /\ late \in [Server -> 0..1] /\ DOMAIN inbox = Server
  /\ \A s \in Server :
       /\ pc[s] = "none" <=> stage[s] = "none"
       /\ Incomplete(s) => inbox[s] = {} /\ pc[s] # "answer" /\ late[s] = 0
       /\ Quiet(s)

LEMMA ServersInit == Init => ServersOK
BY DEF Init, ServersOK, Quiet, Incomplete

(* The steps of the generator and of the router.                           *)
LEMMA GeneratorKeepsServers ==
  ASSUME ServersOK, NEW s \in Server,
         \/ CreateServer(s) \/ ServerCreated(s) \/ GoOnline(s) \/ Pause(s)
         \/ CancelServer(s) \/ FreeServer(s) \/ ProbeServer(s)
         \/ \E d \in Domain : ForwardRequest(s, d)
  PROVE  ServersOK'
<1> USE DEF ServersOK, Quiet, Incomplete, testVars, threadVars, serverVars
<1>1. CASE CreateServer(s)
  BY <1>1 DEF CreateServer
<1>2. CASE ServerCreated(s)
  BY <1>2 DEF ServerCreated
<1>3. CASE GoOnline(s)
  BY <1>3 DEF GoOnline
<1>4. CASE Pause(s)
  BY <1>4 DEF Pause
<1>5. CASE CancelServer(s)
  BY <1>5 DEF CancelServer
<1>6. CASE FreeServer(s)
  BY <1>6 DEF FreeServer, KillWaits
<1>7. CASE ProbeServer(s)
  BY <1>7 DEF ProbeServer, InRotation
<1>8. CASE \E d \in Domain : ForwardRequest(s, d)
  <2>1. /\ stage[s] = "online" /\ DOMAIN inbox' = DOMAIN inbox
        /\ \A t \in Server : t # s => inbox'[t] = inbox[t]
        /\ UNCHANGED <<stage, pause, pc, late>>
    BY <1>8 DEF ForwardRequest
  <2> QED BY <2>1
<1> QED BY <1>1, <1>2, <1>3, <1>4, <1>5, <1>6, <1>7, <1>8

(* The steps of a query thread.                                            *)
LEMMA ThreadKeepsServers ==
  ASSUME ServersOK, NEW s \in Server,
         QueryThread(s) \/ RecieveRequest(s) \/ FreedPause(s)
  PROVE  ServersOK'
<1> USE DEF ServersOK, Quiet, Incomplete, testVars
<1>1. CASE CheckPause(s)
  BY <1>1 DEF CheckPause, MayRecieve
<1>2. CASE RecieveRequest(s)
  <2>1. /\ pc[s] = "recieve" /\ stage[s] # "freed" /\ inbox[s] # {}
        /\ DOMAIN inbox' = DOMAIN inbox
        /\ \A t \in Server : t # s => inbox'[t] = inbox[t]
        /\ \/ pc' = [pc EXCEPT ![s] = "check"]
           \/ pc' = [pc EXCEPT ![s] = "answer"]
        /\ UNCHANGED <<stage, pause, late>>
    BY <1>2 DEF RecieveRequest
  <2> QED BY <2>1
<1>3. CASE SendAnswer(s)
  BY <1>3 DEF SendAnswer
<1>4. CASE ThreadDies(s)
  BY <1>4 DEF ThreadDies
<1>5. CASE FreedPause(s)
  BY <1>5 DEF FreedPause
<1> QED BY <1>1, <1>2, <1>3, <1>4, <1>5 DEF QueryThread

(* The servers' part of the invariant.                                     *)
LEMMA ServersInvariant == Spec => []ServersOK
<1>1. ServersOK /\ [Next]_vars => ServersOK'
  <2> SUFFICES ASSUME ServersOK, [Next]_vars PROVE ServersOK'
    OBVIOUS
  <2>1. CASE RecordRequest \/ DestroyScoreboard \/ DestroyRouter \/ HearAnswer
    <3>1. UNCHANGED <<stage, pause, pc, late, inbox>>
      BY <2>1 DEF RecordRequest, DestroyScoreboard, DestroyRouter, HearAnswer,
                  serverVars, threadVars
    <3> QED BY <3>1 DEF ServersOK, Quiet, Incomplete
  <2>2. CASE UNCHANGED vars
    <3>1. UNCHANGED <<stage, pause, pc, late, inbox>>
      BY <2>2 DEF vars, testVars, serverVars, threadVars
    <3> QED BY <3>1 DEF ServersOK, Quiet, Incomplete
  <2> QED
    BY <2>1, <2>2, GeneratorKeepsServers, ThreadKeepsServers, TrialConstants
    DEF Next, Generator
<1> QED BY <1>1, ServersInit, PTL DEF Spec

(* A paused server falls silent after one more message (query_handler).    *)
THEOREM PausedServersFallSilent == Spec => []PausedAnswersOnce
<1>1. ServersOK => PausedAnswersOnce
  BY DEF ServersOK, PausedAnswersOnce
<1> QED BY <1>1, ServersInvariant, PTL

(* No server looks a domain up before it has its tables, although its      *)
(* thread runs by then (create_dns_server).                                *)
THEOREM ServersAreComplete == Spec => []NoEarlyLookup
<1>1. ServersOK => NoEarlyLookup
  BY DEF ServersOK, NoEarlyLookup, Incomplete
<1> QED BY <1>1, ServersInvariant, PTL

-----------------------------------------------------------------------------
(* The requests' identifiers, and what is read from a message.             *)
LEMMA RequestIds ==
  /\ \A id \in Request : id \in Nat /\ id \in Id /\ id # ProbeId
  /\ \A id \in Request, k \in Nat : k < id => k \in Request
  /\ ProbeId \in Id
<1> DEFINE n == Cardinality(Request)
<1>1. n \in Nat
  BY TrialConstants, FS_CardinalityType
<1>2. n <= 32768 /\ Request = 0..(n - 1)
  BY TrialConstants
<1> HIDE DEF n
<1> QED BY <1>1, <1>2 DEF Id, ProbeId

(* What ParseOfCraft says of each kind of message that is sent.            *)
Parses(m, query, id, domain, found) ==
  /\ m.error = 0 /\ m.domain = domain /\ m.header.id = id
  /\ m.header.qr = ~query /\ (m.header.rcode = NameError) = (~query /\ ~found)

LEMMA MessagesParse ==
  \A query, found \in BOOLEAN, id \in Id, domain \in Label :
    Parses(ParseMessage(CraftMessage(query, id, domain, found)), query, id, domain, found)
BY ParseOfCraft DEF Parses

Probe == CraftMessage(TRUE, ProbeId, <<>>, FALSE)
LEMMA ProbeParses == Parses(ParseMessage(Probe), TRUE, ProbeId, <<>>, FALSE)
<1>1. <<>> \in Label /\ TRUE \in BOOLEAN /\ FALSE \in BOOLEAN
  BY DEF Label
<1> QED BY <1>1, RequestIds, MessagesParse DEF Probe

LEMMA QueryParses ==
  ASSUME NEW id \in Request, NEW domain \in Domain
  PROVE  Parses(ParseMessage(CraftMessage(TRUE, id, domain, FALSE)), TRUE, id, domain, FALSE)
<1>1. domain \in Label /\ TRUE \in BOOLEAN /\ FALSE \in BOOLEAN
  BY TrialConstants
<1> QED BY <1>1, RequestIds, MessagesParse

LEMMA ReplyParses ==
  ASSUME NEW id \in Request, NEW domain \in Domain, NEW found \in BOOLEAN
  PROVE  Parses(ParseMessage(CraftMessage(FALSE, id, domain, found)), FALSE, id, domain, found)
<1>1. domain \in Label /\ FALSE \in BOOLEAN
  BY TrialConstants
<1> QED BY <1>1, RequestIds, MessagesParse

-----------------------------------------------------------------------------
(* The requests and the network.  A request is given to one server for     *)
(* good; every datagram, every job and every answer is about a request     *)
(* that was given to its server; lines are true and written in time.       *)
Given(id, s) ==
  \/ <<id, s>> \in pending
  \/ \E i \in DOMAIN Lines : Lines[i].id = id /\ Lines[i].dns_id = s
Numbered == \A i \in DOMAIN Lines : Lines[i].id = i - 1
Forwarding ==
  \/ pending = {}
  \/ Len(Lines) \in Request /\ \E s \in Server : pending = {<<Len(Lines), s>>}

Query(s, d) ==
  \/ d = Probe
  \/ \E id \in Request, domain \in Domain :
       Given(id, s) /\ d = CraftMessage(TRUE, id, domain, FALSE)
Job(s, j) ==
  /\ j.found \in BOOLEAN
  /\ \/ j.id = ProbeId
     \/ j.id \in Request /\ j.domain \in Domain /\ Given(j.id, s)
AnswerOf(id, s, found) == [id |-> id, dns_id |-> s, found |-> found]
Reply(d) ==
  \E id \in Request, s \in Server, found \in BOOLEAN, domain \in Domain :
    /\ AnswerOf(id, s, found) \in answered
    /\ d = CraftMessage(FALSE, id, domain, found)
GivenAnswer(a) ==
  \E id \in Request, s \in Server, found \in BOOLEAN :
    a = AnswerOf(id, s, found) /\ Given(id, s)

Network ==
  /\ \A s \in Server : \A d \in inbox[s] : Query(s, d)
  /\ \A s \in Server : pc[s] = "answer" => Job(s, job[s])
  /\ \A d \in wire : Reply(d)
  /\ \A a \in answered : GivenAnswer(a)
Timely ==
  /\ \A id \in heard : \E i \in DOMAIN Lines : Lines[i].id = id
  /\ \A i \in DOMAIN Lines :
       (i <= Len(file) /\ handler # "drained") \/ Lines[i].id \in heard =>
         Lines[i].recieved \/ Len(Lines) - i >= Limit
Sound == /\ BoardTypeOK /\ DOMAIN job = Server /\ Numbered /\ Forwarding
         /\ Network /\ RecievedIsTrue /\ Timely

(* The lines are one sequence, of which the file is the first part.        *)
LEMMA LinesType ==
  ASSUME BoardTypeOK
  PROVE  /\ Lines \in Seq(Line) /\ DOMAIN Lines = 1..Len(Lines) /\ Len(Lines) \in Nat
         /\ Len(file) \in Nat /\ Len(file) <= Len(Lines)
         /\ \A i \in DOMAIN Lines : Lines[i] \in Line
<1>1. Lines \in Seq(Line) /\ Len(Lines) = Len(file) + Len(queue)
  BY DEF BoardTypeOK, Lines
<1>2. Len(file) \in Nat /\ Len(queue) \in Nat
  BY DEF BoardTypeOK
<1> QED BY <1>1, <1>2

(* The network stays as described while nothing that was given is taken    *)
(* back and what is new fits the description.                              *)
LEMMA NetworkGrows ==
  ASSUME Network,
         \A id \in Request, s \in Server : Given(id, s) => Given(id, s)',
         \A s \in Server : \A d \in inbox'[s] : d \in inbox[s] \/ Query(s, d)',
         \A s \in Server : pc'[s] = "answer" =>
           (pc[s] = "answer" /\ job'[s] = job[s]) \/ Job(s, job[s])',
         \A d \in wire' : d \in wire \/ Reply(d)',
         answered \subseteq answered',
         \A a \in answered' : a \in answered \/ GivenAnswer(a)'
  PROVE  Network'
<1>1. ASSUME NEW s \in Server, NEW d, Query(s, d) PROVE Query(s, d)'
  BY <1>1 DEF Query
<1>2. ASSUME NEW s \in Server, Job(s, job[s]), job'[s] = job[s] PROVE Job(s, job[s])'
  BY <1>2 DEF Job, ProbeId
<1>3. ASSUME NEW d, Reply(d) PROVE Reply(d)'
  BY <1>3 DEF Reply, AnswerOf
<1>4. ASSUME NEW a, GivenAnswer(a) PROVE GivenAnswer(a)'
  BY <1>4 DEF GivenAnswer, AnswerOf
<1> QED BY <1>1, <1>2, <1>3, <1>4 DEF Network

(* A request's line names the server that the request was given to.        *)
LEMMA OneServer ==
  ASSUME BoardTypeOK, Numbered, Forwarding, NEW id, NEW s, Given(id, s),
         NEW i \in DOMAIN Lines, Lines[i].id = id
  PROVE  Lines[i].dns_id = s
<1>1. i \in 1..Len(Lines) /\ Len(Lines) \in Nat
  BY LinesType
<1>2. id = i - 1
  BY DEF Numbered
<1>3. <<id, s>> \notin pending
  BY <1>1, <1>2 DEF Forwarding
<1>4. PICK j \in DOMAIN Lines : Lines[j].id = id /\ Lines[j].dns_id = s
  BY <1>3 DEF Given
<1>5. j \in 1..Len(Lines) /\ j - 1 = i - 1
  BY <1>2, <1>4, LinesType DEF Numbered
<1> QED BY <1>1, <1>4, <1>5

LEMMA SoundInit == Init => Sound
<1> SUFFICES ASSUME Init PROVE Sound
  OBVIOUS
<1> USE DEF Init, BoardInit
<1>1. Lines = <<>> /\ Len(Lines) = 0 /\ DOMAIN Lines = {}
  BY DEF Lines
<1>2. BoardTypeOK
  BY DEF BoardTypeOK
<1>3. Numbered /\ Forwarding /\ RecievedIsTrue /\ Timely
  BY <1>1 DEF Numbered, Forwarding, RecievedIsTrue, Timely
<1>4. Network
  BY DEF Network
<1> QED BY <1>2, <1>3, <1>4 DEF Sound

(* Steps that leave the board alone keep all that is said of it.           *)
LEMMA BoardAlone ==
  ASSUME Sound, UNCHANGED <<boardVars, heard>>, answered \subseteq answered'
  PROVE  /\ BoardTypeOK' /\ Numbered' /\ RecievedIsTrue' /\ Timely'
         /\ Lines' = Lines
         /\ pending' = pending => Forwarding'
         /\ pending \subseteq pending' =>
              \A id \in Request, s \in Server : Given(id, s) => Given(id, s)'
<1>1. UNCHANGED <<queue, file, stub, handler>>
  BY DEF boardVars
<1>2. Lines' = Lines
  BY <1>1 DEF Lines
<1>3. BoardTypeOK' /\ Numbered' /\ Timely'
  BY <1>1, <1>2 DEF Sound, BoardTypeOK, Numbered, Timely
<1>4. RecievedIsTrue'
  BY <1>2 DEF Sound, RecievedIsTrue
<1>5. pending' = pending => Forwarding'
  BY <1>2 DEF Sound, Forwarding
<1>6. pending \subseteq pending' =>
        \A id \in Request, s \in Server : Given(id, s) => Given(id, s)'
  BY <1>2 DEF Given
<1> QED BY <1>2, <1>3, <1>4, <1>5, <1>6

(* Steps that put nothing on the network.                                  *)
LEMMA SilentSteps ==
  ASSUME Sound, UNCHANGED <<boardVars, heard, wire, pending, answered>>,
         DOMAIN job' = Server,
         \A s \in Server : inbox'[s] \subseteq inbox[s],
         \A s \in Server : pc'[s] = "answer" =>
           (pc[s] = "answer" /\ job'[s] = job[s]) \/ Job(s, job'[s])
  PROVE  Sound'
<1>1. \A id \in Request, s \in Server : Given(id, s) => Given(id, s)'
  BY BoardAlone
<1>2. ASSUME NEW s \in Server, Job(s, job'[s]) PROVE Job(s, job[s])'
  BY <1>1, <1>2 DEF Job
<1>3. Network'
  BY <1>1, <1>2, NetworkGrows DEF Sound
<1> QED BY <1>3, BoardAlone DEF Sound

-----------------------------------------------------------------------------
(* Forwarding gives a new request to a server ...                          *)
LEMMA ForwardSound ==
  ASSUME Sound, ServersOK, NEW s \in Server, NEW domain \in Domain,
         ForwardRequest(s, domain)
  PROVE  Sound'
<1>1. pending = {} /\ Asking = Len(Lines) /\ Len(Lines) \in Request
  <2>1. pending = {}
    BY DEF ForwardRequest, Busy
  <2>2. Asking = Len(Lines) + 0
    BY <2>1, FS_EmptySet DEF Asking
  <2> QED BY <2>1, <2>2, LinesType DEF ForwardRequest, Sound
<1>2. /\ UNCHANGED <<boardVars, heard, answered, wire, pc, job>>
      /\ pending' = {<<Len(Lines), s>>}
      /\ \A t \in Server : inbox'[t] \subseteq
           inbox[t] \cup (IF t = s THEN {CraftMessage(TRUE, Len(Lines), domain, FALSE)} ELSE {})
  BY <1>1 DEF ForwardRequest, serverVars, threadVars, ServersOK
<1>3. /\ BoardTypeOK' /\ Numbered' /\ RecievedIsTrue' /\ Timely' /\ Lines' = Lines
      /\ \A id \in Request, t \in Server : Given(id, t) => Given(id, t)'
  BY <1>1, <1>2, BoardAlone
<1>4. Forwarding' /\ Given(Len(Lines), s)'
  BY <1>1, <1>2, <1>3 DEF Forwarding, Given
<1>5. Query(s, CraftMessage(TRUE, Len(Lines), domain, FALSE))'
  BY <1>1, <1>3, <1>4 DEF Query
<1>6. Network'
  BY <1>2, <1>3, <1>5, NetworkGrows DEF Sound
<1> QED BY <1>2, <1>3, <1>4, <1>6 DEF Sound

(* ... and recording writes down which.                                    *)
LEMMA RecordSound ==
  ASSUME Sound, RecordRequest
  PROVE  Sound' /\ [BoardNext]_boardVars
<1>1. PICK id \in Request, s \in Server : <<id, s>> \in pending /\ Record(id, s)
  BY DEF RecordRequest
<1>2. id = Len(Lines)
  BY <1>1 DEF Sound, Forwarding
<1>3. BoardNext /\ BoardTypeOK'
  BY <1>1, TypesKept DEF BoardNext, Sound
<1>4. Lines' = Append(Lines, Results!Asked(id, s)) /\ file' = file /\ handler' = handler
  BY <1>1, RecordAccepts DEF Sound, Results!Accept, Lines, Record
<1>5. /\ DOMAIN Lines' = 1..(Len(Lines) + 1) /\ Len(Lines') = Len(Lines) + 1
      /\ Lines'[Len(Lines) + 1] = Results!Asked(id, s)
      /\ \A i \in DOMAIN Lines : Lines'[i] = Lines[i]
      /\ DOMAIN Lines = 1..Len(Lines) /\ Len(Lines) \in Nat /\ Len(file) \in Nat
      /\ Len(file) <= Len(Lines)
  BY <1>4, LinesType DEF Sound
<1>6. /\ UNCHANGED <<inbox, wire, heard, answered, pc, job>>
      /\ pending' = {}
  BY DEF RecordRequest, serverVars, threadVars
<1>7. Numbered'
  BY <1>2, <1>5 DEF Sound, Numbered, Results!Asked
<1>8. Forwarding' /\ RecievedIsTrue'
  BY <1>5, <1>6 DEF Sound, Forwarding, RecievedIsTrue, Results!Asked
<1>9. \A r \in Request, t \in Server : Given(r, t) => Given(r, t)'
  BY <1>1, <1>5 DEF Sound, Forwarding, Given, Results!Asked
<1>10. Network'
  BY <1>6, <1>9, NetworkGrows DEF Sound
<1>11. Timely'
  <2>1. \A r \in heard : \E i \in DOMAIN Lines' : Lines'[i].id = r
    BY <1>5 DEF Sound, Timely
  <2>2. id \notin heard
    BY <1>2, <1>5 DEF Sound, Timely, Numbered
  <2>3. ASSUME NEW i \in DOMAIN Lines',
               (i <= Len(file') /\ handler' # "drained") \/ Lines'[i].id \in heard'
        PROVE  Lines'[i].recieved \/ Len(Lines') - i >= Limit
    <3>1. i \in 1..Len(Lines)
      BY <1>4, <1>5, <1>6, <2>2, <2>3 DEF Results!Asked
    <3>2. Lines[i].recieved \/ Len(Lines) - i >= Limit
      BY <1>4, <1>5, <1>6, <2>3, <3>1 DEF Sound, Timely
    <3> QED BY <1>5, <3>1, <3>2, ScoreboardConstants
  <2> QED BY <1>6, <2>1, <2>3 DEF Timely
<1> QED BY <1>3, <1>6, <1>7, <1>8, <1>10, <1>11 DEF Sound

-----------------------------------------------------------------------------
(* A query thread takes a message, and it is about a request of its own.   *)
LEMMA RecieveSound ==
  ASSUME Sound, ServersOK, NEW s \in Server, RecieveRequest(s)
  PROVE  Sound'
<1>1. PICK d \in inbox[s] :
        /\ \E left \in SUBSET inbox[s] : inbox' = [inbox EXCEPT ![s] = left]
        /\ LET m == ParseMessage(d)
           IN  IF m.error # 0 \/ m.header.qr
               THEN pc' = [pc EXCEPT ![s] = "check"] /\ UNCHANGED job
               ELSE /\ pc' = [pc EXCEPT ![s] = "answer"]
                    /\ \E found \in IF m.domain \in Domain THEN Lookup[m.domain] ELSE {FALSE} :
                         job' = [job EXCEPT ![s] =
                           [id |-> m.header.id, domain |-> m.domain, found |-> found]]
  BY DEF RecieveRequest
<1>2. UNCHANGED <<boardVars, heard, wire, pending, answered>>
  BY DEF RecieveRequest
<1>3. DOMAIN job' = Server /\ \A t \in Server : inbox'[t] \subseteq inbox[t]
  BY <1>1 DEF Sound, ServersOK
<1>4. Query(s, d)
  BY DEF Sound, Network
<1>5. /\ ParseMessage(d).error = 0 /\ ~ParseMessage(d).header.qr
      /\ \/ ParseMessage(d).header.id = ProbeId
         \/ /\ ParseMessage(d).header.id \in Request /\ ParseMessage(d).domain \in Domain
            /\ Given(ParseMessage(d).header.id, s)
  <2>1. CASE d = Probe
    BY <2>1, ProbeParses DEF Parses
  <2>2. CASE d # Probe
    <3>1. PICK id \in Request, domain \in Domain :
            Given(id, s) /\ d = CraftMessage(TRUE, id, domain, FALSE)
      BY <1>4, <2>2 DEF Query
    <3>2. Parses(ParseMessage(d), TRUE, id, domain, FALSE)
      BY <3>1, QueryParses
    <3> QED BY <3>1, <3>2 DEF Parses
  <2> QED BY <2>1, <2>2
<1>6. PICK found \in BOOLEAN :
        job' = [job EXCEPT ![s] = [id |-> ParseMessage(d).header.id,
                                   domain |-> ParseMessage(d).domain, found |-> found]]
  <2>1. PICK found \in IF ParseMessage(d).domain \in Domain
                       THEN Lookup[ParseMessage(d).domain] ELSE {FALSE} :
          job' = [job EXCEPT ![s] = [id |-> ParseMessage(d).header.id,
                                     domain |-> ParseMessage(d).domain, found |-> found]]
    BY <1>1, <1>5
  <2>2. found \in BOOLEAN
    <3>1. CASE ParseMessage(d).domain \in Domain
      BY <2>1, <3>1, TrialConstants
    <3>2. CASE ParseMessage(d).domain \notin Domain
      BY <2>1, <3>2
    <3> QED BY <3>1, <3>2
  <2> QED BY <2>1, <2>2
<1>7. pc' = [pc EXCEPT ![s] = "answer"]
  BY <1>1, <1>5
<1>8. Job(s, job'[s])
  BY <1>5, <1>6 DEF Job, Sound
<1>9. ASSUME NEW t \in Server, pc'[t] = "answer"
      PROVE  (pc[t] = "answer" /\ job'[t] = job[t]) \/ Job(t, job'[t])
  <2>1. CASE t = s
    BY <1>8, <2>1
  <2>2. CASE t # s
    BY <1>6, <1>7, <1>9, <2>2 DEF ServersOK, Sound
  <2> QED BY <2>1, <2>2
<1> QED BY <1>2, <1>3, <1>9, SilentSteps

(* What it sends the scoreboard is an answer it has given.                 *)
LEMMA SendSound ==
  ASSUME Sound, ServersOK, NEW s \in Server, SendAnswer(s)
  PROVE  Sound'
<1>1. /\ UNCHANGED <<boardVars, heard, pending, inbox>> /\ DOMAIN job' = Server
      /\ \A t \in Server : pc'[t] = "answer" => pc[t] = "answer" /\ job'[t] = job[t]
  BY DEF SendAnswer, Sound, ServersOK
<1>2. CASE UNCHANGED <<wire, answered>>
  BY <1>1, <1>2, SilentSteps
<1>3. CASE ~ToRouter(job[s].id) /\ ~UNCHANGED <<wire, answered>>
  <2>1. PICK id \in Request, domain \in Domain, found \in BOOLEAN :
          /\ job[s].id = id /\ job[s].domain = domain /\ job[s].found = found
          /\ Given(id, s)
    BY <1>3 DEF SendAnswer, Sound, Network, Job, ToRouter
  <2>2. /\ wire' = wire \cup {CraftMessage(FALSE, id, domain, found)}
        /\ answered' = answered \cup {AnswerOf(id, s, found)}
    BY <1>3, <2>1 DEF SendAnswer, AnswerOf
  <2>3. /\ BoardTypeOK' /\ Numbered' /\ RecievedIsTrue' /\ Timely' /\ Forwarding'
        /\ \A r \in Request, t \in Server : Given(r, t) => Given(r, t)'
    BY <1>1, <2>2, BoardAlone
  <2>4. GivenAnswer(AnswerOf(id, s, found))'
    BY <2>1, <2>3 DEF GivenAnswer, AnswerOf
  <2>5. Reply(CraftMessage(FALSE, id, domain, found))'
    BY <2>1, <2>2 DEF Reply
  <2>6. Network'
    BY <1>1, <2>2, <2>3, <2>4, <2>5, NetworkGrows DEF Sound
  <2> QED BY <1>1, <2>3, <2>6 DEF Sound
<1> QED BY <1>2, <1>3 DEF SendAnswer

-----------------------------------------------------------------------------
(* What scoring does to the lines: those in the file stay, those that the  *)
(* answer is about are marked, and the file grows by lines that are        *)
(* answered or pushed out.                                                 *)
LEMMA ScoreLines ==
  ASSUME BoardTypeOK, NEW id \in Request, NEW found \in BOOLEAN,
         Score(id, found) \/ ScoreCut(id, found)
  PROVE  /\ handler # "drained" /\ handler' # "drained"
         /\ DOMAIN Lines' = DOMAIN Lines /\ Len(Lines') = Len(Lines)
         /\ \A i \in DOMAIN Lines :
              Lines'[i] = IF i > Len(file) THEN MarkedLine(Lines[i], id, found) ELSE Lines[i]
         /\ \A i \in DOMAIN Lines : i > Len(file) /\ i <= Len(file') =>
              Lines'[i].recieved \/ Len(Lines) - i >= Limit
<1>1. Results!Answer(id, found)
  BY ScoreAnswers
<1>2. Lines' = [i \in DOMAIN Lines |->
        IF i > Len(file) /\ Lines[i].id = id
        THEN [Lines[i] EXCEPT !.recieved = TRUE, !.found = found] ELSE Lines[i]]
  BY <1>1 DEF Results!Answer, Lines
<1>3. BoardTypeOK'
  BY TypesKept DEF BoardNext
<1>4. /\ DOMAIN Lines = 1..Len(Lines) /\ Len(Lines) \in Nat
      /\ DOMAIN Lines' = 1..Len(Lines') /\ Len(Lines') \in Nat
      /\ Len(file) \in Nat /\ Len(file') \in Nat
  <2>1. Len(file') \in Nat
    BY <1>3 DEF BoardTypeOK
  <2>2. DOMAIN Lines' = 1..Len(Lines') /\ Len(Lines') \in Nat
    <3>1. Lines' \in Seq(Line)
      BY <1>3 DEF BoardTypeOK, Lines
    <3> QED BY <3>1
  <2> QED BY <2>1, <2>2, LinesType
<1>5. DOMAIN Lines' = DOMAIN Lines
  BY <1>2
<1>6. Len(Lines') = Len(Lines)
  <2>1. 1..Len(Lines') = 1..Len(Lines)
    BY <1>4, <1>5
  <2>2. ASSUME NEW n \in Nat, NEW k \in Nat, 1..n = 1..k PROVE n = k
    <3>1. \A j \in Nat : (1 <= j /\ j <= n) <=> (1 <= j /\ j <= k)
      BY <2>2
    <3> QED BY <3>1
  <2> QED BY <1>4, <2>1, <2>2
<1>7. \A i \in (Len(file) + 1)..Len(file') : ~(~Lines'[i].recieved /\ Len(Lines') - i < Limit)
  BY <1>1 DEF Results!Answer, Results!Waits, Lines
<1>8. ASSUME NEW i \in DOMAIN Lines, i > Len(file), i <= Len(file')
      PROVE  Lines'[i].recieved \/ Len(Lines) - i >= Limit
  <2>1. i \in (Len(file) + 1)..Len(file')
    BY <1>4, <1>8
  <2> QED BY <1>4, <1>6, <1>7, <1>8, <2>1, ScoreboardConstants
<1>9. \A i \in DOMAIN Lines :
        Lines'[i] = IF i > Len(file) THEN MarkedLine(Lines[i], id, found) ELSE Lines[i]
  BY <1>2 DEF MarkedLine
<1>10. handler # "drained" /\ handler' # "drained"
  BY DEF Score, ScoreCut
<1> QED BY <1>5, <1>6, <1>8, <1>9, <1>10

(* The scoreboard hears an answer: what it marks is what was answered, by  *)
(* the server that the request was given to.                               *)
LEMMA HearSound ==
  ASSUME Sound, HearAnswer
  PROVE  Sound' /\ [BoardNext]_boardVars
<1>1. PICK d \in wire :
        /\ \/ Score(ParseMessage(d).header.id, ParseMessage(d).header.rcode # NameError)
           \/ ScoreCut(ParseMessage(d).header.id, ParseMessage(d).header.rcode # NameError)
        /\ \E left \in SUBSET wire : wire' = IF handler' = "dead" THEN {} ELSE left
        /\ heard' = heard \cup
             ({ParseMessage(d).header.id} \cap {Lines[i].id : i \in DOMAIN Lines})
  BY DEF HearAnswer
<1>2. PICK id \in Request, s \in Server, found \in BOOLEAN, domain \in Domain :
        AnswerOf(id, s, found) \in answered /\ d = CraftMessage(FALSE, id, domain, found)
  BY DEF Sound, Network, Reply
<1>3. /\ ParseMessage(d).header.id = id
      /\ (ParseMessage(d).header.rcode # NameError) = found
  <2>1. Parses(ParseMessage(d), FALSE, id, domain, found)
    BY <1>2, ReplyParses
  <2> QED BY <2>1 DEF Parses
<1>4. Score(id, found) \/ ScoreCut(id, found)
  BY <1>1, <1>3
<1>5. Given(id, s)
  BY <1>2 DEF Sound, Network, GivenAnswer, AnswerOf
<1>6. [BoardNext]_boardVars /\ BoardTypeOK'
  BY <1>4, TypesKept DEF BoardNext, Sound
<1>7. /\ handler # "drained" /\ handler' # "drained"
      /\ DOMAIN Lines' = DOMAIN Lines /\ Len(Lines') = Len(Lines)
      /\ \A i \in DOMAIN Lines :
           Lines'[i] = IF i > Len(file) THEN MarkedLine(Lines[i], id, found) ELSE Lines[i]
      /\ \A i \in DOMAIN Lines : i > Len(file) /\ i <= Len(file') =>
           Lines'[i].recieved \/ Len(Lines) - i >= Limit
  BY <1>4, ScoreLines DEF Sound
<1>8. ASSUME NEW i \in DOMAIN Lines
      PROVE  /\ Lines[i] \in Line
             /\ Lines'[i].id = Lines[i].id /\ Lines'[i].dns_id = Lines[i].dns_id
             /\ Lines[i].recieved => Lines'[i].recieved
             /\ \/ Lines'[i] = Lines[i]
                \/ Lines[i].id = id /\ Lines'[i].recieved /\ Lines'[i].found = found
  <2>1. Lines[i] \in Line
    BY LinesType DEF Sound
  <2> QED BY <1>7, <2>1 DEF MarkedLine, Line
<1>9. /\ UNCHANGED <<inbox, pending, answered, pc, job>> /\ wire' \subseteq wire
      /\ heard' = heard \cup ({id} \cap {Lines[i].id : i \in DOMAIN Lines})
  BY <1>1, <1>3 DEF HearAnswer, serverVars, threadVars
<1>10. Numbered' /\ Forwarding'
  BY <1>7, <1>8, <1>9 DEF Sound, Numbered, Forwarding
<1>11. \A r \in Request, t \in Server : Given(r, t) => Given(r, t)'
  BY <1>7, <1>8, <1>9 DEF Given
<1>12. Network'
  BY <1>9, <1>11, NetworkGrows DEF Sound
<1>13. RecievedIsTrue'
  <2> SUFFICES ASSUME NEW i \in DOMAIN Lines, Lines'[i].recieved
               PROVE  AnswerOf(Lines'[i].id, Lines'[i].dns_id, Lines'[i].found) \in answered
    BY <1>7, <1>9 DEF RecievedIsTrue, AnswerOf
  <2>1. CASE Lines'[i] = Lines[i]
    BY <2>1 DEF Sound, RecievedIsTrue, AnswerOf
  <2>2. CASE Lines[i].id = id /\ Lines'[i].found = found
    <3>1. Lines[i].dns_id = s
      BY <1>5, <2>2, OneServer DEF Sound
    <3> QED BY <1>2, <1>8, <2>2, <3>1
  <2> QED BY <1>8, <2>1, <2>2
<1>14. Timely'
  <2>1. \A r \in heard' : \E i \in DOMAIN Lines' : Lines'[i].id = r
    BY <1>7, <1>8, <1>9 DEF Sound, Timely
  <2>2. ASSUME NEW i \in DOMAIN Lines,
               (i <= Len(file') /\ handler' # "drained") \/ Lines'[i].id \in heard'
        PROVE  Lines'[i].recieved \/ Len(Lines) - i >= Limit
    <3>1. CASE i <= Len(file) \/ Lines[i].id \in heard
      BY <1>7, <1>8, <3>1 DEF Sound, Timely
    <3>2. CASE i > Len(file) /\ i <= Len(file')
      BY <1>7, <3>2
    <3>3. CASE i > Len(file) /\ Lines[i].id = id
      BY <1>7, <1>8, <3>3 DEF MarkedLine, Line
    <3>4. i \in Nat /\ Len(file) \in Nat
      BY LinesType DEF Sound
    <3> QED BY <1>8, <1>9, <2>2, <3>1, <3>2, <3>3, <3>4
  <2> QED BY <1>7, <2>1, <2>2 DEF Timely
<1> QED BY <1>6, <1>9, <1>10, <1>12, <1>13, <1>14 DEF Sound

(* Teardown of the scoreboard changes no line.                             *)
LEMMA DestroySound ==
  ASSUME Sound, DestroyScoreboard
  PROVE  Sound' /\ [BoardNext]_boardVars
<1>1. CancelHandler \/ HandlerDies \/ Drain
  BY DEF DestroyScoreboard
<1>2. BoardNext /\ BoardTypeOK'
  BY <1>1, TypesKept DEF BoardNext, Sound
<1>3. Lines' = Lines /\ ((file' = file /\ handler # "drained") \/ handler' = "drained")
  BY <1>1, DrainKeeps DEF Sound, CancelHandler, HandlerDies, Drain, Lines
<1>4. /\ UNCHANGED <<inbox, pending, answered, pc, job, heard>> /\ wire' \subseteq wire
  BY DEF DestroyScoreboard, serverVars, threadVars
<1>5. Numbered' /\ Forwarding' /\ RecievedIsTrue' /\ Timely'
  BY <1>3, <1>4 DEF Sound, Numbered, Forwarding, RecievedIsTrue, Timely
<1>6. \A r \in Request, t \in Server : Given(r, t) => Given(r, t)'
  BY <1>3, <1>4 DEF Given
<1>7. Network'
  BY <1>4, <1>6, NetworkGrows DEF Sound
<1> QED BY <1>2, <1>4, <1>5, <1>7 DEF Sound

(* A probe is a query.                                                     *)
LEMMA ProbeSound ==
  ASSUME Sound, ServersOK, NEW s \in Server, ProbeServer(s)
  PROVE  Sound'
<1>1. /\ UNCHANGED <<boardVars, heard, answered, wire, pc, job, pending>>
      /\ \A t \in Server : inbox'[t] \subseteq inbox[t] \cup {Probe}
  BY DEF ProbeServer, serverVars, threadVars, ServersOK, Probe
<1>2. \A t \in Server : Query(t, Probe)'
  BY DEF Query
<1>3. /\ BoardTypeOK' /\ Numbered' /\ RecievedIsTrue' /\ Timely' /\ Forwarding'
      /\ \A r \in Request, t \in Server : Given(r, t) => Given(r, t)'
  BY <1>1, BoardAlone
<1>4. Network'
  BY <1>1, <1>2, <1>3, NetworkGrows DEF Sound
<1> QED BY <1>1, <1>3, <1>4 DEF Sound

(* The other steps leave board and network alone.                          *)
LEMMA OtherSound ==
  ASSUME Sound, ServersOK, NEW s \in Server,
         \/ CreateServer(s) \/ ServerCreated(s) \/ GoOnline(s) \/ Pause(s)
         \/ CancelServer(s) \/ FreeServer(s)
         \/ CheckPause(s) \/ ThreadDies(s) \/ FreedPause(s)
  PROVE  Sound' /\ UNCHANGED boardVars
<1>1. /\ UNCHANGED <<boardVars, heard, wire, pending, answered>>
      /\ DOMAIN job' = Server /\ \A t \in Server : inbox'[t] \subseteq inbox[t]
      /\ \A t \in Server : pc'[t] = "answer" => pc[t] = "answer" /\ job'[t] = job[t]
  <2> USE DEF testVars, threadVars, ServersOK, Sound
  <2>1. CASE CreateServer(s)
    BY <2>1 DEF CreateServer
  <2>2. CASE ServerCreated(s) \/ GoOnline(s) \/ Pause(s) \/ CancelServer(s)
    BY <2>2 DEF ServerCreated, GoOnline, Pause, CancelServer
  <2>3. CASE FreeServer(s)
    BY <2>3 DEF FreeServer
  <2>4. CASE CheckPause(s) \/ FreedPause(s)
    BY <2>4 DEF CheckPause, FreedPause
  <2>5. CASE ThreadDies(s)
    BY <2>5 DEF ThreadDies
  <2> QED BY <2>1, <2>2, <2>3, <2>4, <2>5
<1> QED BY <1>1, SilentSteps

(* Every step keeps what is said of board and network, and is a step of    *)
(* the scoreboard or none.                                                 *)
LEMMA StepSound ==
  ASSUME Sound, ServersOK, [Next]_vars
  PROVE  Sound' /\ [BoardNext]_boardVars
<1>1. ASSUME NEW s \in Server,
             \/ CreateServer(s) \/ ServerCreated(s) \/ GoOnline(s) \/ Pause(s)
             \/ CancelServer(s) \/ FreeServer(s) \/ QueryThread(s)
             \/ FreedPause(s) \/ ProbeServer(s) \/ RecieveRequest(s)
      PROVE  Sound' /\ UNCHANGED boardVars
  <2>1. CASE ProbeServer(s)
    BY <2>1, ProbeSound DEF ProbeServer
  <2>2. CASE RecieveRequest(s)
    BY <2>2, RecieveSound DEF RecieveRequest
  <2>3. CASE SendAnswer(s)
    BY <2>3, SendSound DEF SendAnswer
  <2> QED BY <1>1, <2>1, <2>2, <2>3, OtherSound DEF QueryThread
<1>2. ASSUME NEW s \in Server, NEW d \in Domain, ForwardRequest(s, d)
      PROVE  Sound' /\ UNCHANGED boardVars
  BY <1>2, ForwardSound DEF ForwardRequest
<1>3. CASE DestroyRouter
  <2>1. /\ UNCHANGED <<boardVars, heard, wire, pending, answered, inbox, pc, job>>
    BY <1>3 DEF DestroyRouter, serverVars, threadVars
  <2> QED BY <2>1, SilentSteps DEF Sound
<1>4. CASE UNCHANGED vars
  <2>1. /\ UNCHANGED <<boardVars, heard, wire, pending, answered, inbox, pc, job>>
    BY <1>4 DEF vars, testVars, serverVars, threadVars
  <2> QED BY <2>1, SilentSteps DEF Sound
<1> QED
  BY <1>1, <1>2, <1>3, <1>4, RecordSound, HearSound, DestroySound, TrialConstants
  DEF Next, Generator

LEMMA SoundInvariant == Spec => [](Sound /\ ServersOK)
<1>1. Sound /\ ServersOK /\ [Next]_vars => Sound'
  BY StepSound
<1> QED BY <1>1, SoundInit, ServersInvariant, PTL DEF Spec

-----------------------------------------------------------------------------
(* A line that says answered names the server that answered, and says      *)
(* found only if it did (forward_request's dns_id, recieve_dns_answer).    *)
THEOREM ResultsAreTrue == Spec => []RecievedIsTrue
<1>1. Sound => RecievedIsTrue
  BY DEF Sound
<1> QED BY <1>1, SoundInvariant, PTL

(* An answer that is heard of a recorded request counts, but for want of   *)
(* room (recieve_dns_answer, destroy_scoreboard).                          *)
THEOREM AnswersAreCounted == Spec => []AnswersCount
<1>1. Sound => AnswersCount
  BY DEF Sound, Timely, AnswersCount
<1> QED BY <1>1, SoundInvariant, PTL

(* Every datagram parses, to what was put in (craft_message and            *)
(* parse_message on both ways).                                            *)
THEOREM MessagesAreReadable == Spec => []WireIsReadable
<1>1. ASSUME Sound PROVE WireIsReadable
  <2>1. ASSUME NEW id \in Request, NEW s \in Server, Given(id, s) PROVE id < Asking
    <3>1. Len(Lines) \in Nat /\ DOMAIN Lines = 1..Len(Lines)
      BY <1>1, LinesType DEF Sound
    <3>2. pending = {} => Asking = Len(Lines) + 0
      BY FS_EmptySet DEF Asking
    <3>3. ASSUME pending # {}
          PROVE  Asking = Len(Lines) + 1 /\ \A p \in pending : p[1] = Len(Lines)
      <4>1. PICK r : pending = {<<Len(Lines), r>>}
        BY <1>1, <3>3 DEF Sound, Forwarding
      <4>2. Cardinality(pending) = 1
        BY <4>1, FS_Singleton
      <4> QED BY <4>1, <4>2 DEF Asking
    <3>4. Len(Lines) <= Asking
      BY <3>1, <3>2, <3>3
    <3>5. CASE <<id, s>> \in pending
      <4>1. id = Len(Lines)
        BY <3>3, <3>5
      <4> QED BY <3>1, <3>3, <3>5, <4>1
    <3>6. CASE \E i \in DOMAIN Lines : Lines[i].id = id
      <4>1. PICK i \in 1..Len(Lines) : id = i - 1
        BY <1>1, <3>1, <3>6 DEF Sound, Numbered
      <4> QED BY <3>1, <3>2, <3>3, <4>1
    <3> QED BY <2>1, <3>5, <3>6 DEF Given
  <2>2. ASSUME NEW s \in Server, NEW d \in inbox[s]
        PROVE  /\ Readable(d, TRUE)
               /\ \/ /\ ParseMessage(d).domain \in Domain
                     /\ ParseMessage(d).header.id < Asking
                  \/ ParseMessage(d).domain = <<>> /\ ParseMessage(d).header.id = ProbeId
    <3>1. CASE d = Probe
      BY <3>1, ProbeParses DEF Readable, Parses
    <3>2. CASE d # Probe
      <4>1. PICK id \in Request, domain \in Domain :
              Given(id, s) /\ d = CraftMessage(TRUE, id, domain, FALSE)
        BY <1>1, <3>2 DEF Sound, Network, Query
      <4>2. Parses(ParseMessage(d), TRUE, id, domain, FALSE)
        BY <4>1, QueryParses
      <4> QED BY <2>1, <4>1, <4>2 DEF Parses, Readable
    <3> QED BY <3>1, <3>2
  <2>3. ASSUME NEW d \in wire
        PROVE  /\ Readable(d, FALSE)
               /\ \E a \in answered :
                    /\ a.id = ParseMessage(d).header.id /\ a.id < Asking
                    /\ a.found = (ParseMessage(d).header.rcode # NameError)
    <3>1. PICK id \in Request, s \in Server, found \in BOOLEAN, domain \in Domain :
            /\ AnswerOf(id, s, found) \in answered
            /\ d = CraftMessage(FALSE, id, domain, found)
      BY <1>1 DEF Sound, Network, Reply
    <3>2. Parses(ParseMessage(d), FALSE, id, domain, found)
      BY <3>1, ReplyParses
    <3>3. Given(id, s)
      BY <1>1, <3>1 DEF Sound, Network, GivenAnswer, AnswerOf
    <3>4. Readable(d, FALSE) /\ ParseMessage(d).header.id = id
          /\ (ParseMessage(d).header.rcode # NameError) = found
      BY <3>2 DEF Parses, Readable
    <3> QED BY <2>1, <3>1, <3>3, <3>4 DEF AnswerOf
  <2> QED BY <2>2, <2>3 DEF WireIsReadable
<1> QED BY <1>1, SoundInvariant, PTL

(* The test's scoreboard implements the results file, with what the        *)
(* network brings it (create_generator to destroy_generator).              *)
THEOREM TrialImplementsResultsFile == Spec => ImplementsResultsFile
<1>1. Init => BoardInit
  BY DEF Init
<1>2. Sound /\ ServersOK /\ [Next]_vars => [BoardNext]_boardVars
  BY StepSound
<1>3. Spec => BoardSpec
  BY <1>1, <1>2, SoundInvariant, PTL DEF Spec, BoardSpec
<1> QED BY <1>3, ScoreboardImplementsResultsFile

(* Every variable is of its type.                                          *)
Bounded == stub \in 0..Len(Lines) /\ routing \in BOOLEAN
LEMMA BoundedInvariant == Spec => []Bounded
<1>1. Init => Bounded
  <2>1. ASSUME Init PROVE Len(Lines) = 0
    BY <2>1 DEF Init, BoardInit, Lines
  <2> QED BY <2>1 DEF Bounded, Init, BoardInit
<1>2. ASSUME Sound, Sound', ServersOK, Bounded, [Next]_vars
      PROVE  Bounded'
  <2>1. [BoardNext]_boardVars
    BY <1>2, StepSound
  <2>2. ASSUME UNCHANGED stub, Len(Lines) <= Len(Lines')
        PROVE  stub' \in 0..Len(Lines')
    <3>1. Len(Lines) \in Nat /\ Len(Lines') \in Nat
      <4>1. Lines' \in Seq(Line)
        BY <1>2 DEF Sound, BoardTypeOK, Lines
      <4> QED BY <1>2, <4>1, LinesType DEF Sound
    <3> QED BY <1>2, <2>2, <3>1 DEF Bounded
  <2>3. stub' \in 0..Len(Lines')
    <3>1. ASSUME NEW id \in Request, NEW s \in Server, Record(id, s)
          PROVE  stub' \in 0..Len(Lines')
      <4>1. Lines' = Append(Lines, Results!Asked(id, s))
        BY <1>2, <3>1, RecordAccepts DEF Sound, Results!Accept, Lines
      <4>2. Len(Lines') = Len(Lines) + 1 /\ Len(Lines) \in Nat
        BY <1>2, <4>1, LinesType DEF Sound
      <4> QED BY <2>2, <3>1, <4>2 DEF Record
    <3>2. ASSUME NEW id \in Request, NEW found \in BOOLEAN,
                 Score(id, found) \/ ScoreCut(id, found)
          PROVE  stub' \in 0..Len(Lines')
      <4>1. Len(Lines') = Len(Lines) /\ Len(Lines) \in Nat
        BY <1>2, <3>2, ScoreLines, LinesType DEF Sound
      <4>2. CASE Score(id, found)
        BY <2>2, <4>1, <4>2 DEF Score
      <4>3. CASE ScoreCut(id, found)
        <5>1. Len(Marked(queue, id, found)) = Len(queue) /\ Len(queue) \in Nat
          BY <1>2, MarkedKeeps DEF Sound, BoardTypeOK
        <5>2. Len(file) \in Nat /\ Len(Lines) = Len(file) + Len(queue)
          BY <1>2 DEF Sound, BoardTypeOK, Lines
        <5>3. PICK n \in 0..(Len(queue) - 1) : stub' \in {0, Len(file) + n + 1}
          BY <4>3, <5>1 DEF ScoreCut
        <5> QED BY <4>1, <5>1, <5>2, <5>3
      <4> QED BY <3>2, <4>2, <4>3
    <3>3. CASE Drain
      <4>1. Lines' = Lines /\ UNCHANGED stub
        BY <1>2, <3>3, DrainKeeps DEF Sound, Lines, Drain
      <4> QED BY <1>2, <4>1 DEF Bounded
    <3>4. CASE CancelHandler \/ HandlerDies \/ UNCHANGED boardVars
      <4>1. Lines' = Lines /\ UNCHANGED stub
        BY <3>4 DEF CancelHandler, HandlerDies, boardVars, Lines
      <4> QED BY <1>2, <4>1 DEF Bounded
    <3> QED BY <2>1, <3>1, <3>2, <3>3, <3>4 DEF BoardNext
  <2>4. routing' = routing \/ routing' = FALSE
    <3>1. CASE UNCHANGED vars
      BY <3>1 DEF vars, testVars
    <3>2. ASSUME NEW s \in Server,
                 \/ CreateServer(s) \/ ServerCreated(s) \/ GoOnline(s) \/ Pause(s)
                 \/ CancelServer(s) \/ FreeServer(s) \/ QueryThread(s)
                 \/ FreedPause(s) \/ ProbeServer(s) \/ RecieveRequest(s)
          PROVE  routing' = routing
      BY <3>2 DEF CreateServer, ServerCreated, GoOnline, Pause, CancelServer,
                  FreeServer, QueryThread, FreedPause, ProbeServer, RecieveRequest,
                  CheckPause, SendAnswer, ThreadDies, testVars
    <3>3. ASSUME NEW s \in Server, NEW d \in Domain, ForwardRequest(s, d)
          PROVE  routing' = routing
      BY <3>3 DEF ForwardRequest
    <3>4. CASE RecordRequest \/ DestroyScoreboard \/ DestroyRouter \/ HearAnswer
      BY <3>4 DEF RecordRequest, DestroyScoreboard, DestroyRouter, HearAnswer
    <3>5. CASE Next
      <4>1. CASE \E s \in Initial : CreateServer(s) \/ GoOnline(s)
        BY <3>2, <4>1, TrialConstants
      <4>2. CASE \E s \in Server : ServerCreated(s) \/ CancelServer(s) \/ FreeServer(s)
        BY <3>2, <4>2
      <4>3. CASE \E s \in Server, d \in Domain : ForwardRequest(s, d)
        BY <3>3, <4>3
      <4>4. CASE \E s \in Server : \/ QueryThread(s) \/ RecieveRequest(s) \/ FreedPause(s)
                                  \/ ProbeServer(s) \/ Pause(s)
        BY <3>2, <4>4
      <4>5. CASE \E s \in Server \ Initial : CreateServer(s) \/ GoOnline(s)
        BY <3>2, <4>5
      <4> QED BY <3>4, <3>5, <4>1, <4>2, <4>3, <4>4, <4>5 DEF Next, Generator
    <3> QED BY <1>2, <3>1, <3>5
  <2> QED BY <1>2, <2>3, <2>4 DEF Bounded
<1> QED BY <1>1, <1>2, SoundInvariant, PTL DEF Spec

(* Every variable is of its type, and one request at most is underway.     *)
THEOREM TrialTypes == Spec => []TypeOK
<1>1. ASSUME Sound, ServersOK, Bounded PROVE TypeOK
  <2>1. \A i \in DOMAIN Lines : Lines[i] \in
          [id : Request, dns_id : Server, recieved : BOOLEAN, found : BOOLEAN]
    BY <1>1, LinesType DEF Sound, Line
  <2>2. handler \in {"running", "cancelled", "dead", "drained"}
    BY <1>1 DEF Sound, BoardTypeOK
  <2>3. pending \subseteq Request \X Server /\ Cardinality(pending) <= 1
    <3>1. CASE pending = {}
      BY <3>1, FS_EmptySet
    <3>2. CASE pending # {}
      <4>1. PICK s \in Server :
              Len(Lines) \in Request /\ pending = {<<Len(Lines), s>>}
        BY <1>1, <3>2 DEF Sound, Forwarding
      <4>2. Cardinality({<<Len(Lines), s>>}) = 1
        BY FS_Singleton
      <4>3. {<<Len(Lines), s>>} \subseteq Request \X Server
        BY <4>1
      <4> QED BY <4>1, <4>2, <4>3
    <3> QED BY <3>1, <3>2
  <2>4. heard \subseteq Request
    BY <1>1, <2>1 DEF Sound, Timely
  <2>5. late \in [Server -> 0..2]
    BY <1>1 DEF ServersOK
  <2>6. \A s \in Server : /\ pc[s] = "none" <=> stage[s] = "none"
                          /\ stage[s] \in {"none", "creating"} => inbox[s] = {}
    BY <1>1 DEF ServersOK, Incomplete
  <2>7. stub \in 0..Len(Lines) /\ routing \in BOOLEAN
    BY <1>1 DEF Bounded
  <2>8. /\ pause \in [Server -> BOOLEAN]
        /\ pc \in [Server -> {"none", "check", "recieve", "answer", "dead"}]
    BY <1>1 DEF ServersOK
  <2> QED BY <2>1, <2>2, <2>3, <2>4, <2>5, <2>6, <2>7, <2>8 DEF TypeOK
<1> QED BY <1>1, SoundInvariant, BoundedInvariant, PTL
=============================================================================
