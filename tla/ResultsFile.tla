---------------------------- MODULE ResultsFile -----------------------------
(***************************************************************************)
(* What the scoreboard promises its reader: a file with one line for every *)
(* request, in the order of the requests.  A line is final once written,   *)
(* and is written when its request and all earlier ones are answered, when *)
(* too many wait, or when the test ends.  Scoreboard.tla implements this.  *)
(***************************************************************************)
EXTENDS Naturals, Sequences

CONSTANTS Request, Server, Limit

VARIABLES
  requests,  \* one record for each request so far, with its answer
  written,   \* how many of them are in the file
  over       \* no answer is taken any more

Asked(id, s) == [id |-> id, dns_id |-> s, recieved |-> FALSE, found |-> FALSE]

ResultsInit == requests = <<>> /\ written = 0 /\ over = FALSE

Accept(id, s) ==
  /\ ~over /\ requests' = Append(requests, Asked(id, s))
  /\ UNCHANGED <<written, over>>

(* An answer changes no line of the file, which grows up to the first      *)
(* request that may wait, or not as far if the test is over.               *)
Waits(i) == ~requests'[i].recieved /\ Len(requests') - i < Limit
Answer(id, found) ==
  /\ ~over
  /\ requests' = [i \in DOMAIN requests |->
       IF i > written /\ requests[i].id = id
       THEN [requests[i] EXCEPT !.recieved = TRUE, !.found = found]
       ELSE requests[i]]
  /\ written' \in written..Len(requests')
  /\ \A i \in (written + 1)..written' : ~Waits(i)
  /\ written' = Len(requests') \/ Waits(written' + 1) \/ over'
  /\ over' \in BOOLEAN

Stop == ~over /\ over' = TRUE /\ UNCHANGED <<requests, written>>
Finish == over /\ written' = Len(requests) /\ UNCHANGED <<requests, over>>

ResultsNext ==
  \/ \E id \in Request, s \in Server : Accept(id, s)
  \/ \E id \in Request, found \in BOOLEAN : Answer(id, found)
  \/ Stop \/ Finish

ResultsSpec == ResultsInit /\ [][ResultsNext]_<<requests, written, over>>
=============================================================================
