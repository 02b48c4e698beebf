------------------------------- MODULE Trial --------------------------------
(***************************************************************************)
(* One test from end to end: the generator (src/src/generator.c) creates   *)
(* the servers, sends requests, records them on the scoreboard and tears   *)
(* everything down; each server's query thread (src/src/dns_server.c)      *)
(* answers to the scoreboard, whose thread scores what it hears.  UDP      *)
(* reorders, and loses: a datagram on its way need never be taken.  The    *)
(* router's choice of a server is any server online.                       *)
(***************************************************************************)
EXTENDS Scoreboard, Messages, FiniteSets

CONSTANTS
  Initial,   \* the servers that create_generator makes; the others join
  Pausable,  \* servers that the generator may pause
  Domain, Lookup,   \* the domains asked for, and what a lookup may find
  Probed,    \* bound: the servers whose probes are modelled
  MaxRepeats \* bound: datagrams taken once more

ASSUME TrialConstants ==
  /\ Initial \subseteq Server /\ Initial # {} /\ IsFiniteSet(Server)
  /\ IsFiniteSet(Request) /\ Request = 0..(Cardinality(Request) - 1)
  /\ Cardinality(Request) <= 32768  \* 2550 in the code
  /\ \A d \in Domain : d \in Label /\ Fits(d) /\ Lookup[d] \subseteq BOOLEAN

VARIABLES
  stage,     \* each server: "none", "creating", "made", "online",
             \* "cancelled", "freed"
  pause, pc, \* dns_server_t.pause; query_handler: "none", "check",
             \* "recieve", "answer", "dead"
  job,       \* the request it answers
  repeats,   \* datagrams taken once more so far
  inbox, wire,      \* datagrams on their way to a server, to the scoreboard
  pending,   \* the request that is forwarded and not recorded, if any
  routing,   \* the router's threads run
  answered, late, heard  \* history: the answers given, how many since the
             \* server was paused, and who was heard of once recorded

threadVars == <<pc, job, late>>
serverVars == <<stage, pause, threadVars>>
testVars == <<boardVars, inbox, wire, repeats, pending, routing, answered, heard>>
vars == <<serverVars, testVars>>

Init ==
  /\ BoardInit
  /\ stage = [s \in Server |-> "none"] /\ pause = [s \in Server |-> FALSE]
  /\ pc = [s \in Server |-> "none"] /\ job = [s \in Server |-> <<>>]
  /\ inbox = [s \in Server |-> {}]
  /\ wire = {} /\ repeats = 0 /\ pending = {} /\ routing = TRUE
  /\ answered = {} /\ late = [s \in Server |-> 0] /\ heard = {}

Lines == file \o queue
Asking == Len(Lines) + Cardinality(pending)  \* the next request's number
Testing == handler = "running"
Started == \A s \in Initial : stage[s] \notin {"none", "creating", "made"}
Busy == pending # {} \/ \E s \in Server : stage[s] = "creating"  \* generator

(* A datagram that is received is gone.  It is taken once more if the      *)
(* network duplicated it, or if the next recvfrom fails: recieve_message   *)
(* returns -1 as 255 bytes, and the buffer still holds the last message.   *)
Take(in, left, d) ==
  \/ left = in \ {d} /\ UNCHANGED repeats
  \/ left = in /\ repeats < MaxRepeats /\ repeats' = repeats + 1

-----------------------------------------------------------------------------
(* create_dns_server: the query thread starts before `pause' is set and    *)
(* before there are any tables; then the server is given to the router,    *)
(* by create_generator or, later, by update_and_online.                    *)
CreateServer(s) ==
  /\ Testing /\ ~Busy /\ stage[s] = "none" /\ (s \in Initial \/ Started)
  /\ stage' = [stage EXCEPT ![s] = "creating"]
  /\ pc' = [pc EXCEPT ![s] = "check"]
  /\ \E garbage \in BOOLEAN : pause' = [pause EXCEPT ![s] = garbage]
  /\ UNCHANGED <<job, late, testVars>>

ServerCreated(s) ==
  /\ stage[s] = "creating"
  /\ stage' = [stage EXCEPT ![s] = "made"]
  /\ pause' = [pause EXCEPT ![s] = FALSE]
  /\ UNCHANGED <<threadVars, testVars>>

GoOnline(s) ==
  /\ stage[s] = "made" /\ routing
  /\ stage' = [stage EXCEPT ![s] = "online"]
  /\ UNCHANGED <<pause, threadVars, testVars>>

(* run_test pauses a server, for good.                                     *)
Pause(s) ==
  /\ Testing /\ Started /\ s \in Pausable /\ stage[s] = "online" /\ ~pause[s]
  /\ pause' = [pause EXCEPT ![s] = TRUE]
  /\ UNCHANGED <<stage, threadVars, testVars>>

-----------------------------------------------------------------------------
(* send_single_test and send_to_router: the request is forwarded first ... *)
ForwardRequest(s, domain) ==
  /\ Testing /\ Started /\ ~Busy /\ Asking \in Request /\ stage[s] = "online"
  /\ inbox' = [inbox EXCEPT ![s] = @ \cup {CraftMessage(TRUE, Asking, domain, FALSE)}]
  /\ pending' = {<<Asking, s>>}
  /\ UNCHANGED <<boardVars, serverVars, wire, repeats, heard, routing, answered>>

(* ... and recorded with the server that forward_request chose.            *)
RecordRequest ==
  /\ \E id \in Request, s \in Server :
       <<id, s>> \in pending /\ Record(id, s)
  /\ pending' = {}
  /\ UNCHANGED <<serverVars, inbox, wire, repeats, heard, routing, answered>>

(* The router's monitor probes the servers of the rotation.                *)
ProbeId == 32768
KnownAtOnce(s) == stage[s] # "none"  \* mutant: added before it is complete
InRotation(s) == stage[s] = "online"
ProbeServer(s) ==
  /\ routing /\ s \in Probed /\ InRotation(s)
  /\ inbox' = [inbox EXCEPT ![s] = @ \cup {CraftMessage(TRUE, ProbeId, <<>>, FALSE)}]
  /\ UNCHANGED <<boardVars, serverVars, wire, repeats, heard, pending, routing, answered>>

-----------------------------------------------------------------------------
(* query_handler: the test of `pause' ...                                  *)
NoPauseTest(s) == TRUE  \* mutant
MayRecieve(s) == ~pause[s]
CheckPause(s) ==
  /\ pc[s] = "check" /\ MayRecieve(s)
  /\ pc' = [pc EXCEPT ![s] = "recieve"]
  /\ UNCHANGED <<stage, pause, job, late, testVars>>

(* ... the next message, and the lookup ...                                *)
RecieveRequest(s) ==
  /\ pc[s] = "recieve" /\ stage[s] # "freed"
  /\ \E d \in inbox[s] :
       LET m == ParseMessage(d)
       IN  /\ \E left \in SUBSET inbox[s] :
                Take(inbox[s], left, d) /\ inbox' = [inbox EXCEPT ![s] = left]
           /\ IF m.error # 0 \/ m.header.qr
              THEN pc' = [pc EXCEPT ![s] = "check"] /\ UNCHANGED job
              ELSE /\ pc' = [pc EXCEPT ![s] = "answer"]
                   /\ \E found \in IF m.domain \in Domain THEN Lookup[m.domain] ELSE {FALSE} :
                        job' = [job EXCEPT ![s] =
                          [id |-> m.header.id, domain |-> m.domain, found |-> found]]
  /\ UNCHANGED <<boardVars, stage, pause, late, wire, heard, pending, routing, answered>>

(* ... and, after ten milliseconds, the answer: a probe's to the router,   *)
(* any other to the scoreboard, as long as somebody will read it.          *)
ToRouter(id) == id = ProbeId
SendAnswer(s) ==
  /\ pc[s] = "answer"
  /\ pc' = [pc EXCEPT ![s] = "check"] /\ job' = [job EXCEPT ![s] = <<>>]
  /\ late' = [late EXCEPT ![s] = IF pause[s] /\ @ < 2 THEN @ + 1 ELSE @]
  /\ IF ToRouter(job[s].id) \/ Deaf THEN UNCHANGED <<wire, answered>>
     ELSE /\ wire' = wire \cup
               {CraftMessage(FALSE, job[s].id, job[s].domain, job[s].found)}
          /\ answered' = answered \cup
               {[id |-> job[s].id, dns_id |-> s, found |-> job[s].found]}
  /\ UNCHANGED <<boardVars, stage, pause, inbox, repeats, heard, pending, routing>>

(* A cancelled thread ends where it receives, sleeps or sends; in the loop *)
(* of a paused server it does not.                                         *)
ThreadDies(s) ==
  /\ stage[s] \in {"cancelled", "freed"} /\ pc[s] \in {"recieve", "answer"}
  /\ pc' = [pc EXCEPT ![s] = "dead"] /\ job' = [job EXCEPT ![s] = <<>>]
  /\ UNCHANGED <<stage, pause, late, testVars>>

(* A thread that spins may read anything for `pause' once it is freed.      *)
FreedPause(s) ==
  /\ stage[s] = "freed" /\ pc[s] = "check" /\ pc' = [pc EXCEPT ![s] = "recieve"]
  /\ UNCHANGED <<stage, pause, job, late, testVars>>

QueryThread(s) == CheckPause(s) \/ SendAnswer(s) \/ ThreadDies(s)

-----------------------------------------------------------------------------
(* dns_response_handler: whatever is received is scored, parsed or not.    *)
HearAnswer ==
  /\ \E d \in wire :
       LET header == ParseMessage(d).header
           found == header.rcode # NameError
       IN  /\ Score(header.id, found) \/ ScoreCut(header.id, found)
           /\ \E left \in SUBSET wire :
                Take(wire, left, d) /\ wire' = IF handler' = "dead" THEN {} ELSE left
           /\ heard' = heard \cup ({header.id} \cap {Lines[i].id : i \in DOMAIN Lines})
  /\ UNCHANGED <<serverVars, inbox, pending, routing, answered>>

(* destroy_generator: the scoreboard, the router, then each server, with   *)
(* two seconds for its thread.  We assume that the two seconds suffice for *)
(* a thread that can end at all.                                           *)
DestroyScoreboard ==
  /\ \/ CancelHandler /\ Started /\ ~Busy /\ Asking \notin Request /\ UNCHANGED wire
     \/ HandlerDies /\ wire' = {}
     \/ Drain /\ UNCHANGED wire
  /\ UNCHANGED <<serverVars, inbox, repeats, heard, pending, routing, answered>>

DestroyRouter ==
  /\ handler = "drained" /\ routing /\ routing' = FALSE
  /\ UNCHANGED <<boardVars, serverVars, inbox, wire, repeats, heard, pending, answered>>

CancelServer(s) ==
  /\ ~routing /\ stage[s] \in {"made", "online"}
  /\ \A t \in Server : stage[t] # "cancelled"
  /\ stage' = [stage EXCEPT ![s] = "cancelled"]
  /\ UNCHANGED <<pause, threadVars, testVars>>

Joined(s) == pc[s] = "dead"  \* mutant: pthread_join
KillWaits(s) == pc[s] = "dead" \/ (pc[s] = "check" /\ pause[s])
FreeServer(s) ==
  /\ stage[s] = "cancelled" /\ KillWaits(s)
  /\ stage' = [stage EXCEPT ![s] = "freed"]
  /\ inbox' = [inbox EXCEPT ![s] = {}]  \* close
  /\ UNCHANGED <<boardVars, pause, threadVars, wire, repeats, heard, pending,
                 routing, answered>>

Generator ==
  \/ \E s \in Initial : CreateServer(s) \/ GoOnline(s)
  \/ \E s \in Server : ServerCreated(s) \/ CancelServer(s) \/ FreeServer(s)
  \/ \E s \in Server, d \in Domain : ForwardRequest(s, d)
  \/ RecordRequest \/ DestroyScoreboard \/ DestroyRouter

Next ==
  \/ Generator \/ HearAnswer
  \/ \E s \in Server : \/ QueryThread(s) \/ RecieveRequest(s) \/ FreedPause(s)
                        \/ ProbeServer(s) \/ Pause(s)
  \/ \E s \in Server \ Initial : CreateServer(s) \/ GoOnline(s)

Spec == Init /\ [][Next]_vars

(* The generator goes on, and so do the query threads, to which the        *)
(* network need not deliver anything.                                      *)
FairSpec == Spec /\ WF_vars(Generator) /\ \A s \in Server : WF_vars(QueryThread(s))

-----------------------------------------------------------------------------
(* All variables are of their types; two kinds of datagram reach a server, *)
(* and nothing reaches one that does not exist.                            *)
TypeOK ==
  /\ \A i \in DOMAIN Lines : Lines[i] \in
       [id : Request, dns_id : Server, recieved : BOOLEAN, found : BOOLEAN]
  /\ stub \in 0..Len(Lines)
  /\ handler \in {"running", "cancelled", "dead", "drained"}
  /\ pause \in [Server -> BOOLEAN] /\ routing \in BOOLEAN
  /\ pc \in [Server -> {"none", "check", "recieve", "answer", "dead"}]
  /\ late \in [Server -> 0..2] /\ heard \subseteq Request
  /\ pending \subseteq Request \X Server /\ Cardinality(pending) <= 1
  /\ \A s \in Server :
       /\ pc[s] = "none" <=> stage[s] = "none"
       /\ stage[s] \in {"none", "creating"} => inbox[s] = {}

(* A line of the results that says answered names the server that answered *)
(* that request, and says found only if that server's lookup found it:     *)
(* whatever is lost, late, or taken for a message after a failed receive   *)
(* (forward_request's dns_id, the message's id and rcode, recieve_dns_     *)
(* answer).                                                                *)
RecievedIsTrue ==
  \A i \in DOMAIN Lines : Lines[i].recieved =>
    [id |-> Lines[i].id, dns_id |-> Lines[i].dns_id, found |-> Lines[i].found]
      \in answered

(* Once the scoreboard hears the answer to a request it has recorded, the  *)
(* results say so, however many others wait, and although the thread is    *)
(* cancelled while it writes; but for a request written out for want of    *)
(* room (recieve_dns_answer, destroy_scoreboard).                          *)
AnswersCount ==
  \A i \in DOMAIN Lines : Lines[i].id \in heard =>
    Lines[i].recieved \/ Len(Lines) - i >= Limit

(* Every datagram on its way parses, to what was put in: a query for a     *)
(* domain or the probe at a server; at the scoreboard an answer that was   *)
(* given to a request that was sent, never a probe's (craft_message,       *)
(* parse_message, recieve_request).                                        *)
Readable(d, query) == LET m == ParseMessage(d) IN m.error = 0 /\ m.header.qr = ~query
WireIsReadable ==
  /\ \A s \in Server : \A d \in inbox[s] :
       /\ Readable(d, TRUE)
       /\ LET m == ParseMessage(d)
          IN  \/ m.domain \in Domain /\ m.header.id < Asking
              \/ m.domain = <<>> /\ m.header.id = ProbeId
  /\ \A d \in wire :
       /\ Readable(d, FALSE)
       /\ LET m == ParseMessage(d)
          IN  \E a \in answered : /\ a.id = m.header.id /\ a.id < Asking
                                  /\ a.found = (m.header.rcode # NameError)

(* A paused server answers at most one more message, the one its thread    *)
(* waited for or was at work on; the router relies on its silence          *)
(* (query_handler; Router's "last").                                       *)
PausedAnswersOnce == \A s \in Server : pause[s] => late[s] <= 1

(* No query is looked up in a server that create_dns_server has not        *)
(* completed, although its thread runs by then.                            *)
NoEarlyLookup ==
  \A s \in Server : pc[s] = "answer" => stage[s] \notin {"none", "creating"}

(* The test ends, paused servers or not, with a line for every request     *)
(* (run_test, destroy_generator, kill_response_thread).                    *)
TestEnds ==
  <>( /\ handler = "drained" /\ Len(file) = Cardinality(Request)
      /\ \A s \in Server : stage[s] \in {"none", "freed"})

(* dns_server.h:55: destroy_dns_server closes associated sockets and kills *)
(* threads.                                                                *)
DestroyKillsThread == \A s \in Server : stage[s] = "freed" => pc[s] = "dead"
=============================================================================
