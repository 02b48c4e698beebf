-------------------------- MODULE ScoreboardProofs --------------------------
(***************************************************************************)
(* Theorems about Scoreboard: the queue and the file, as the two threads   *)
(* and a cancellation in mid-write leave them, implement the results file. *)
(***************************************************************************)
EXTENDS Scoreboard, SequenceTheorems, TLAPS

Line == [id : Request, dns_id : Server, recieved : BOOLEAN, found : BOOLEAN]

(* Every line queued or written is a well-formed result.                   *)
BoardTypeOK ==
  /\ queue \in Seq(Line) /\ file \in Seq(Line)
  /\ handler \in {"running", "cancelled", "dead", "drained"}

(* Marking answers keeps the queue's length, and changes what matches.     *)
MarkedLine(line, id, found) ==
  IF line.id = id THEN [line EXCEPT !.recieved = TRUE, !.found = found] ELSE line
LEMMA MarkedKeeps ==
  ASSUME NEW q \in Seq(Line), NEW id, NEW found \in BOOLEAN
  PROVE  \E r \in Seq(Line) :
           /\ r = Marked(q, id, found) /\ Len(r) = Len(q)
           /\ \A i \in 1..Len(q) : r[i] = MarkedLine(q[i], id, found)
<1>1. DOMAIN q = 1..Len(q) /\ Len(q) \in Nat
  OBVIOUS
<1>2. Marked(q, id, found) = [i \in 1..Len(q) |-> MarkedLine(q[i], id, found)]
  BY <1>1 DEF Marked, MarkedLine
<1>3. ASSUME NEW i \in 1..Len(q)
      PROVE  MarkedLine(q[i], id, found) \in Line
  <2>1. q[i] \in Line
    OBVIOUS
  <2> QED BY <2>1 DEF Line, MarkedLine
<1>4. PICK r \in [1..Len(q) -> Line] : r = Marked(q, id, found)
  BY <1>2, <1>3
<1>5. r \in Seq(Line) /\ Len(r) = Len(q)
  BY <1>1, <1>4
<1>6. \A i \in 1..Len(q) : r[i] = MarkedLine(q[i], id, found)
  BY <1>2, <1>4
<1> QED BY <1>4, <1>5, <1>6

(* A concatenation, element by element.                                    *)
IsConcat(u, s, t) ==
  /\ u = s \o t /\ Len(u) = Len(s) + Len(t)
  /\ \A i \in 1..Len(s) : u[i] = s[i]
  /\ \A i \in 1..Len(t) : u[Len(s) + i] = t[i]
LEMMA Concat ==
  ASSUME NEW s \in Seq(Line), NEW t \in Seq(Line)
  PROVE  \E u \in Seq(Line) : IsConcat(u, s, t)
<1>1. s \o t \in Seq(Line) /\ IsConcat(s \o t, s, t)
  BY ConcatProperties DEF IsConcat
<1> QED BY <1>1

(* What is popped from the queue goes to the end of the file.              *)
LEMMA PopKeeps ==
  ASSUME NEW f \in Seq(Line), NEW q \in Seq(Line), NEW n \in 0..Len(q)
  PROVE  /\ f \o SubSeq(q, 1, n) \in Seq(Line)
         /\ SubSeq(q, n + 1, Len(q)) \in Seq(Line)
         /\ (f \o SubSeq(q, 1, n)) \o SubSeq(q, n + 1, Len(q)) = f \o q
         /\ Len(f \o SubSeq(q, 1, n)) = Len(f) + n
<1> DEFINE a == SubSeq(q, 1, n)
           b == SubSeq(q, n + 1, Len(q))
<1>1. a \in Seq(Line) /\ Len(a) = n /\ \A i \in 1..n : a[i] = q[i]
  OBVIOUS
<1>2. /\ b \in Seq(Line) /\ Len(b) = Len(q) - n
      /\ \A i \in 1..(Len(q) - n) : b[i] = q[n + i]
  OBVIOUS
<1> HIDE DEF a, b
<1>3. PICK g \in Seq(Line) : IsConcat(g, f, a)
  BY <1>1, Concat
<1>4. PICK h \in Seq(Line) : IsConcat(h, g, b)
  BY <1>2, Concat
<1>5. PICK k \in Seq(Line) : IsConcat(k, f, q)
  BY Concat
<1>6. /\ Len(g) = Len(f) + n /\ Len(h) = Len(f) + Len(q) /\ Len(k) = Len(h)
  BY <1>1, <1>2, <1>3, <1>4, <1>5 DEF IsConcat
<1>7. ASSUME NEW i \in 1..Len(h)
      PROVE  h[i] = k[i]
  <2>1. CASE i <= Len(f)
    BY <1>3, <1>4, <1>5, <1>6, <2>1 DEF IsConcat
  <2>2. CASE i > Len(f) /\ i <= Len(f) + n
    <3>1. PICK j \in 1..n : i = Len(f) + j
      <4>1. i - Len(f) \in 1..n /\ i = Len(f) + (i - Len(f))
        BY <2>2
      <4> QED BY <4>1
    <3> QED BY <1>1, <1>3, <1>4, <1>5, <1>6, <3>1 DEF IsConcat
  <2>3. CASE i > Len(f) + n
    <3>1. PICK j \in 1..(Len(q) - n) : i = Len(f) + n + j
      <4>1. i - Len(f) - n \in 1..(Len(q) - n) /\ i = Len(f) + n + (i - Len(f) - n)
        BY <1>6, <2>3
      <4> QED BY <4>1
    <3>2. n + j \in 1..Len(q) /\ i = Len(g) + j /\ i = Len(f) + (n + j)
      BY <1>6, <3>1
    <3>3. h[i] = b[j] /\ k[i] = q[n + j]
      BY <1>2, <1>4, <1>5, <3>2 DEF IsConcat
    <3> QED BY <1>2, <3>3
  <2> QED BY <1>6, <2>1, <2>2, <2>3
<1>8. h = k
  BY <1>6, <1>7, SeqEqual
<1> QED BY <1>2, <1>3, <1>4, <1>5, <1>6, <1>8 DEF IsConcat, a, b

(* Every step keeps the types.                                             *)
LEMMA TypesKept == BoardTypeOK /\ [BoardNext]_boardVars => BoardTypeOK'
<1> SUFFICES ASSUME BoardTypeOK, [BoardNext]_boardVars PROVE BoardTypeOK'
  OBVIOUS
<1> USE DEF BoardTypeOK
<1>1. ASSUME NEW id \in Request, NEW s \in Server, Record(id, s)
      PROVE  BoardTypeOK'
  <2>1. NewResult(id, s) \in Line
    BY DEF NewResult, Line
  <2> QED BY <1>1, <2>1 DEF Record
<1>2. ASSUME NEW q \in Seq(Line), NEW n \in 0..Len(q), Pop(q, n)
      PROVE  queue' \in Seq(Line) /\ file' \in Seq(Line)
  BY <1>2, PopKeeps DEF Pop
<1>3. ASSUME NEW id \in Request, NEW found \in BOOLEAN,
             Score(id, found) \/ ScoreCut(id, found)
      PROVE  BoardTypeOK'
  <2>1. Marked(queue, id, found) \in Seq(Line)
    BY MarkedKeeps
  <2>2. CASE Score(id, found)
    BY <1>2, <2>1, <2>2 DEF Score
  <2>3. CASE ScoreCut(id, found)
    BY <1>2, <2>1, <2>3 DEF ScoreCut
  <2> QED BY <1>3, <2>2, <2>3
<1>4. CASE Drain
  BY <1>2, <1>4 DEF Drain, WriteRest
<1>5. CASE CancelHandler \/ HandlerDies
  BY <1>5 DEF CancelHandler, HandlerDies
<1>6. CASE UNCHANGED boardVars
  BY <1>6 DEF boardVars
<1> QED BY <1>1, <1>3, <1>4, <1>5, <1>6 DEF BoardNext

LEMMA BoardTypes == BoardSpec => []BoardTypeOK
<1>1. BoardInit => BoardTypeOK
  BY DEF BoardInit, BoardTypeOK
<1> QED BY <1>1, TypesKept, PTL DEF BoardSpec
-----------------------------------------------------------------------------
(* Marking the queue and popping n due entries answers a request: it       *)
(* changes no line of the file, and the file grows up to a line that may   *)
(* wait, unless the thread dies.                                           *)
LEMMA ScoringAnswers ==
  ASSUME BoardTypeOK, NEW id \in Request, NEW found \in BOOLEAN,
         NEW n \in 0..Len(queue), Pop(Marked(queue, id, found), n),
         ~Deaf, Deaf' \in BOOLEAN,
         \A i \in 1..n : Due(Marked(queue, id, found), i),
         \/ n < Len(queue) => ~Due(Marked(queue, id, found), n + 1)
         \/ Deaf'
  PROVE  Results!Answer(id, found)
<1> DEFINE Waiting(u, i) == ~u[i].recieved /\ Len(u) - i < Limit
<1> USE DEF BoardTypeOK
<1>1. PICK r \in Seq(Line) :
        /\ r = Marked(queue, id, found) /\ Len(r) = Len(queue)
        /\ \A i \in 1..Len(queue) : r[i] = MarkedLine(queue[i], id, found)
  BY MarkedKeeps
<1>2. file' \o queue' = file \o r /\ Len(file') = Len(file) + n
  <2>1. file' = file \o SubSeq(r, 1, n) /\ queue' = SubSeq(r, n + 1, Len(r))
    BY <1>1 DEF Pop
  <2>2. n \in 0..Len(r)
    BY <1>1
  <2> QED BY <2>1, <2>2, PopKeeps
<1>3. PICK old \in Seq(Line) : IsConcat(old, file, queue)
  BY Concat
<1>4. PICK new \in Seq(Line) : IsConcat(new, file, r)
  BY <1>1, Concat
<1>5. Len(old) = Len(file) + Len(queue) /\ Len(new) = Len(old)
  BY <1>1, <1>3, <1>4 DEF IsConcat
<1>6. ASSUME NEW i \in 1..Len(old)
      PROVE  new[i] = IF i > Len(file) THEN MarkedLine(old[i], id, found) ELSE old[i]
  <2>1. CASE i <= Len(file)
    BY <1>3, <1>4, <2>1 DEF IsConcat
  <2>2. CASE i > Len(file)
    <3>1. PICK j \in 1..Len(queue) : i = Len(file) + j
      <4>1. i - Len(file) \in 1..Len(queue) /\ i = Len(file) + (i - Len(file))
        BY <1>5, <2>2
      <4> QED BY <4>1
    <3>2. old[i] = queue[j] /\ new[i] = r[j]
      BY <1>1, <1>3, <1>4, <3>1 DEF IsConcat
    <3> QED BY <1>1, <2>2, <3>2
  <2> QED BY <2>1, <2>2
<1>7. new = [i \in DOMAIN old |->
               IF i > Len(file) /\ old[i].id = id
               THEN [old[i] EXCEPT !.recieved = TRUE, !.found = found] ELSE old[i]]
  <2>1. DOMAIN old = 1..Len(old) /\ new = [i \in 1..Len(new) |-> new[i]]
    OBVIOUS
  <2> QED BY <1>5, <1>6, <2>1 DEF MarkedLine
<1>8. ASSUME NEW j \in 1..Len(queue)
      PROVE  Waiting(new, Len(file) + j) <=> ~Due(r, j)
  <2>1. new[Len(file) + j] = r[j]
    BY <1>1, <1>4 DEF IsConcat
  <2>2. Len(new) - (Len(file) + j) = Len(r) - j /\ Len(r) - j \in Nat
    <3>1. Len(new) = Len(file) + Len(r) /\ j \in 1..Len(r)
      BY <1>1, <1>5
    <3>2. Len(file) \in Nat /\ Len(r) \in Nat
      OBVIOUS
    <3> QED BY <3>1, <3>2
  <2>3. r[j] \in Line
    BY <1>1
  <2> QED BY <2>1, <2>2, <2>3, ScoreboardConstants DEF Due, Line
<1>9. ASSUME NEW i \in (Len(file) + 1)..(Len(file) + n)
      PROVE  ~Waiting(new, i)
  <2>1. PICK j \in 1..n : i = Len(file) + j
    <3>1. i - Len(file) \in 1..n /\ i = Len(file) + (i - Len(file))
      OBVIOUS
    <3> QED BY <3>1
  <2>2. j \in 1..Len(queue) /\ Due(r, j)
    BY <1>1, <2>1
  <2> QED BY <1>8, <2>1, <2>2
<1>10. Len(file) + n = Len(new) \/ Waiting(new, Len(file) + n + 1) \/ Deaf'
  <2>1. CASE n < Len(queue) /\ ~Deaf'
    <3>1. ~Due(r, n + 1) /\ n + 1 \in 1..Len(queue)
      BY <1>1, <2>1
    <3>2. Waiting(new, Len(file) + (n + 1))
      BY <1>8, <3>1
    <3> QED BY <3>2
  <2>2. CASE n >= Len(queue)
    <3>1. n = Len(queue)
      BY <2>2
    <3> QED BY <1>5, <3>1
  <2> QED BY <2>1, <2>2
<1>11. Len(file) + n \in Len(file)..Len(new)
  BY <1>5
<1>12. file \o queue = old /\ file' \o queue' = new
  BY <1>2, <1>3, <1>4 DEF IsConcat
<1> HIDE DEF Waiting, BoardTypeOK
<1>13. \A i : Results!Waits(i) <=> Waiting(new, i)
  BY <1>12 DEF Results!Waits, Waiting
<1> QED
  BY <1>2, <1>7, <1>9, <1>10, <1>11, <1>12, <1>13 DEF Results!Answer

(* Recording appends a line; scoring answers a request, whether or not the *)
(* thread dies in the middle.                                              *)
LEMMA RecordAccepts ==
  ASSUME BoardTypeOK, NEW id \in Request, NEW s \in Server, Record(id, s)
  PROVE  Results!Accept(id, s)
<1>1. PICK old \in Seq(Line) : IsConcat(old, file, queue)
  BY Concat DEF BoardTypeOK
<1>2. NewResult(id, s) \in Line /\ NewResult(id, s) = Results!Asked(id, s)
  BY DEF NewResult, Line, Results!Asked
<1>3. file' \o queue' = Append(file \o queue, NewResult(id, s))
  BY <1>2 DEF Record, BoardTypeOK
<1> QED BY <1>2, <1>3 DEF Record, Deaf, Results!Accept

LEMMA ScoreAnswers ==
  ASSUME BoardTypeOK, NEW id \in Request, NEW found \in BOOLEAN,
         Score(id, found) \/ ScoreCut(id, found)
  PROVE  Results!Answer(id, found)
<1>1. Len(Marked(queue, id, found)) = Len(queue) /\ Len(queue) \in Nat
  BY MarkedKeeps DEF BoardTypeOK
<1>2. CASE Score(id, found)
  <2>1. PICK n \in 0..Len(Marked(queue, id, found)) :
          Leaves(Marked(queue, id, found), n) /\ Pop(Marked(queue, id, found), n)
    BY <1>2 DEF Score
  <2>2. ~Deaf /\ Deaf' \in BOOLEAN
    BY <1>2 DEF Score, Deaf
  <2> QED BY <1>1, <2>1, <2>2, ScoringAnswers DEF Leaves
<1>3. CASE ScoreCut(id, found)
  <2>1. PICK n \in 0..(Len(Marked(queue, id, found)) - 1) :
          /\ \A i \in 1..(n + 1) : Due(Marked(queue, id, found), i)
          /\ Pop(Marked(queue, id, found), n)
    BY <1>3 DEF ScoreCut
  <2>2. ~Deaf /\ Deaf' /\ Deaf' \in BOOLEAN
    BY <1>3 DEF ScoreCut, Deaf
  <2>3. n \in 0..Len(queue) /\ \A i \in 1..n : Due(Marked(queue, id, found), i)
    BY <1>1, <2>1
  <2> QED BY <2>1, <2>2, <2>3, ScoringAnswers
<1> QED BY <1>2, <1>3

(* Writing out the rest changes no line.                                   *)
LEMMA DrainKeeps ==
  ASSUME BoardTypeOK, Drain
  PROVE  /\ file' \o queue' = file \o queue
         /\ Len(file') = Len(file \o queue)
<1>1. Len(file \o queue) = Len(file) + Len(queue) /\ Len(queue) \in 0..Len(queue)
  BY DEF BoardTypeOK
<1> QED BY <1>1, PopKeeps DEF Drain, WriteRest, Pop, BoardTypeOK

(* The scoreboard implements the results file: one line for each request,  *)
(* in the order of the requests, final once written and held back only for *)
(* earlier ones that may still be answered, also when the thread is        *)
(* cancelled while it writes (recieve_dns_answer, destroy_scoreboard).     *)
THEOREM ScoreboardImplementsResultsFile == BoardSpec => ImplementsResultsFile
<1>1. BoardInit => Results!ResultsInit
  BY DEF BoardInit, Results!ResultsInit, Deaf
<1>2. ASSUME BoardTypeOK, [BoardNext]_boardVars
      PROVE  [Results!ResultsNext]_<<file \o queue, Len(file), Deaf>>
  <2>1. ASSUME NEW id \in Request, NEW s \in Server, Record(id, s)
        PROVE  Results!Accept(id, s)
    BY <1>2, <2>1, RecordAccepts
  <2>2. ASSUME NEW id \in Request, NEW found \in BOOLEAN,
               Score(id, found) \/ ScoreCut(id, found)
        PROVE  Results!Answer(id, found)
    BY <1>2, <2>2, ScoreAnswers
  <2>3. CASE CancelHandler
    BY <2>3 DEF CancelHandler, Deaf
  <2>4. CASE HandlerDies
    <3>1. Results!Stop
      BY <2>4 DEF HandlerDies, Deaf, Results!Stop
    <3> QED BY <3>1 DEF Results!ResultsNext
  <2>5. CASE Drain
    <3>1. Results!Finish
      BY <1>2, <2>5, DrainKeeps DEF Drain, Deaf, Results!Finish
    <3> QED BY <3>1 DEF Results!ResultsNext
  <2>6. CASE UNCHANGED boardVars
    BY <2>6 DEF boardVars, Deaf
  <2> QED
    BY <1>2, <2>1, <2>2, <2>3, <2>4, <2>5, <2>6 DEF BoardNext, Results!ResultsNext
<1> QED
  BY <1>1, <1>2, BoardTypes, PTL DEF BoardSpec, ImplementsResultsFile, Results!ResultsSpec
=============================================================================
