--------------------------- MODULE MessagesProofs ---------------------------
(***************************************************************************)
(* Theorems about Messages: what craft_message writes, parse_message reads *)
(* back, for every identifier of two bytes and every domain.               *)
(***************************************************************************)
EXTENDS Messages, TLAPS

(* ntohs undoes htons.                                                     *)
LEMMA SwapTwice ==
  ASSUME NEW n \in Id
  PROVE  SwapBytes(n) \in Id /\ SwapBytes(SwapBytes(n)) = n
<1>1. PICK high \in 0..255, low \in 0..255 :
        n = 256 * high + low /\ high = n \div 256 /\ low = n % 256
  <2>1. n \div 256 \in 0..255 /\ n % 256 \in 0..255 /\ n = 256 * (n \div 256) + (n % 256)
    BY DEF Id
  <2> QED BY <2>1
<1>2. SwapBytes(n) = 256 * low + high
  BY <1>1 DEF SwapBytes
<1>3. 256 * low + high \in Nat /\ 256 * low + high < 65536
  OBVIOUS
<1>4. (256 * low + high) % 256 = high /\ (256 * low + high) \div 256 = low
  OBVIOUS
<1>5. SwapBytes(256 * low + high) = 256 * high + low
  BY <1>4 DEF SwapBytes
<1> QED BY <1>1, <1>2, <1>3, <1>5 DEF Id

(* The name ends at the zero that craft_message puts after it.             *)
LEMMA NameOfQuestion ==
  ASSUME NEW domain \in Label
  PROVE  /\ CharCnt(Question(domain)) = Len(domain)
         /\ Len(Question(domain)) = Len(domain) + 5
         /\ SubSeq(Question(domain), 1, Len(domain)) = domain
<1> DEFINE body == Question(domain)
           n == Len(domain)
<1>1. n \in Nat /\ domain \in Seq(Byte \ {0})
  BY DEF Label
<1>2. \A i \in 1..n : domain[i] # 0
  BY <1>1
<1>3. Len(body) = n + 5 /\ body[n + 1] = 0 /\ \A i \in 1..n : body[i] = domain[i]
  BY <1>1 DEF Question
<1>4. NameEnds(body, n)
  BY <1>2, <1>3 DEF NameEnds
<1>5. ASSUME NEW k \in 0..Len(body), NameEnds(body, k)
      PROVE  k = n
  <2>1. CASE k < n
    <3>1. body[k + 1] = 0 /\ k + 1 \in 1..n
      BY <1>1, <1>3, <1>5, <2>1 DEF NameEnds
    <3> QED BY <1>2, <1>3, <3>1
  <2>2. CASE k > n
    <3>1. n + 1 \in 1..k
      BY <1>1, <1>3, <2>2
    <3> QED BY <1>3, <1>5, <3>1 DEF NameEnds
  <2> QED BY <1>1, <1>3, <2>1, <2>2
<1>6. CharCnt(body) = n
  BY <1>1, <1>3, <1>4, <1>5 DEF CharCnt
<1>7. SubSeq(body, 1, n) = domain
  BY <1>1, <1>3 DEF Question
<1> QED BY <1>3, <1>6, <1>7

(* A message that craft_message made parses, to the identifier, the        *)
(* direction, the domain and the verdict it was made from: on the whole    *)
(* path from generator to scoreboard nothing is read that was not written. *)
THEOREM ParseOfCraft ==
  ASSUME NEW query \in BOOLEAN, NEW id \in Id, NEW domain \in Label,
         NEW found \in BOOLEAN
  PROVE  LET m == ParseMessage(CraftMessage(query, id, domain, found))
         IN  /\ m.error = 0 /\ m.domain = domain
             /\ m.header.id = id /\ m.header.qr = ~query
             /\ (m.header.rcode = NameError) = (~query /\ ~found)
<1> DEFINE d == CraftMessage(query, id, domain, found)
<1>1. d.body = Question(domain) /\ d.header.id = SwapBytes(id)
      /\ d.header.qr = ~query
      /\ d.header.rcode = (IF ~query /\ ~found THEN NameError ELSE 0)
  BY DEF CraftMessage
<1>2. CharCnt(d.body) = Len(domain) /\ Len(d.body) = Len(domain) + 5
      /\ SubSeq(d.body, 1, Len(domain)) = domain
  BY <1>1, NameOfQuestion
<1>3. SwapBytes(d.header.id) = id
  BY <1>1, SwapTwice
<1>4. Len(domain) + 4 <= Len(domain) + 5
  BY DEF Label
<1>5. ParseMessage(d) =
        [error |-> 0, header |-> [d.header EXCEPT !.id = SwapBytes(@)],
         domain |-> SubSeq(d.body, 1, CharCnt(d.body)),
         qtype |-> SubSeq(d.body, CharCnt(d.body) + 2, CharCnt(d.body) + 3)]
  BY <1>2, <1>4 DEF ParseMessage, Label
<1>6. ParseMessage(d).header.id = id /\ ParseMessage(d).header.qr = ~query
      /\ ParseMessage(d).header.rcode = d.header.rcode
  BY <1>1, <1>3, <1>5 DEF CraftMessage
<1> QED BY <1>1, <1>2, <1>5, <1>6 DEF NameError
=============================================================================
