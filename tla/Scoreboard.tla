----------------------------- MODULE Scoreboard -----------------------------
(***************************************************************************)
(* The scoreboard (src/src/scoreboard.cc): a queue of the requests that    *)
(* were sent, which the generator's thread fills and the response handler  *)
(* marks and writes out, and the results file.  The lock makes each of the *)
(* two one step; destroy_scoreboard takes no lock, and relies on the       *)
(* handler being gone two seconds after it was cancelled.                  *)
(***************************************************************************)
EXTENDS Naturals, Sequences

CONSTANTS
  Request,   \* identifiers of requests
  Server,    \* identifiers of DNS servers
  Limit      \* entries the queue may hold after an answer (0xFFFF)

ASSUME ScoreboardConstants == Limit \in Nat

VARIABLES
  queue, file,   \* scoreboard_t: the deque, and the lines of the file
  stub,          \* the line before which a copy of it stands, or 0
  handler        \* the thread: "running", "cancelled", "dead", "drained"

boardVars == <<queue, file, stub, handler>>

Deaf == handler \in {"dead", "drained"}  \* takes no answer any more

BoardInit == queue = <<>> /\ file = <<>> /\ stub = 0 /\ handler = "running"

(* recieve_generated_req.                                                  *)
NewResult(id, s) == [id |-> id, dns_id |-> s, recieved |-> FALSE, found |-> FALSE]

Record(id, s) ==
  /\ handler = "running" /\ queue' = Append(queue, NewResult(id, s))
  /\ UNCHANGED <<file, stub, handler>>

(* recieve_dns_answer: every entry with the answer's identifier ...        *)
MarkFront(q, id, found) ==  \* mutant: looks at the front only
  IF q # <<>> /\ q[1].id = id
  THEN [q EXCEPT ![1].recieved = TRUE, ![1].found = found] ELSE q
MarkAll(q, id, found) ==  \* mutant: does not compare
  [i \in DOMAIN q |-> [q[i] EXCEPT !.recieved = TRUE, !.found = found]]
Marked(q, id, found) ==
  [i \in DOMAIN q |->
     IF q[i].id = id THEN [q[i] EXCEPT !.recieved = TRUE, !.found = found]
     ELSE q[i]]

(* ... and then the front of the queue is written and popped, n times.     *)
DueIfAny(q, i) == \E j \in DOMAIN q : q[j].recieved  \* mutant: not the front
Due(q, i) == q[i].recieved \/ Len(q) - i >= Limit
Leaves(q, n) ==
  /\ \A i \in 1..n : Due(q, i)
  /\ n < Len(q) => ~Due(q, n + 1)
Pop(q, n) ==
  /\ file' = file \o SubSeq(q, 1, n)
  /\ queue' = SubSeq(q, n + 1, Len(q))

Score(id, found) ==
  /\ handler \in {"running", "cancelled"}
  /\ LET q == Marked(queue, id, found)
     IN  \E n \in 0..Len(q) : Leaves(q, n) /\ Pop(q, n)
  /\ handler' = IF handler = "cancelled" THEN "dead" ELSE handler
  /\ UNCHANGED stub

(* Writing to the file may be a cancellation point: the thread dies there  *)
(* with its entry still in the queue and perhaps already in the file, in   *)
(* whole or in part.  The lock is released by its guard or needed by none. *)
ScoreCut(id, found) ==
  /\ handler = "cancelled"
  /\ LET q == Marked(queue, id, found)
     IN  \E n \in 0..(Len(q) - 1) :
           /\ \A i \in 1..(n + 1) : Due(q, i)
           /\ Pop(q, n)
           /\ stub' \in {0, Len(file) + n + 1}
  /\ handler' = "dead"

(* destroy_scoreboard: pthread_cancel; the thread ends when it next waits  *)
(* for a message; what is left in the queue is written.                    *)
CancelHandler ==
  /\ handler = "running" /\ handler' = "cancelled"
  /\ UNCHANGED <<queue, file, stub>>

HandlerDies ==
  /\ handler = "cancelled" /\ handler' = "dead"
  /\ UNCHANGED <<queue, file, stub>>

DropQueue == file' = file /\ queue' = <<>>  \* mutant: no loop over the rest
WriteRest == Pop(queue, Len(queue))
Drain ==
  /\ handler = "dead" /\ WriteRest /\ handler' = "drained"
  /\ UNCHANGED stub

BoardNext ==
  \/ \E id \in Request, s \in Server : Record(id, s)
  \/ \E id \in Request, found \in BOOLEAN : Score(id, found) \/ ScoreCut(id, found)
  \/ CancelHandler \/ HandlerDies \/ Drain

BoardSpec == BoardInit /\ [][BoardNext]_boardVars

-----------------------------------------------------------------------------
(* The results are in the order of the requests, one line for each; a line *)
(* does not change once written, and waits for earlier ones only while     *)
(* those may still be answered (recieve_dns_answer and destroy_scoreboard  *)
(* implement the results file).                                            *)
Results == INSTANCE ResultsFile WITH
  requests <- file \o queue, written <- Len(file),
  over <- Deaf
ImplementsResultsFile == Results!ResultsSpec
=============================================================================
