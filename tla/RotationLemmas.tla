--------------------------- MODULE RotationLemmas ---------------------------
(***************************************************************************)
(* Facts about sequences without repetitions, such as the router's array   *)
(* of servers and the monitor's list of silent ones.                       *)
(***************************************************************************)
EXTENDS Naturals, Sequences, SequencesExt, SequenceTheorems, TLAPS

(* Sequences without repetition, and removing an element of one.           *)

(* RemoveAt at an index of the sequence: one entry less, the others in     *)
(* their order.                                                            *)
LEMMA RemoveAtProperties ==
  ASSUME NEW S, NEW q \in Seq(S), NEW i \in 1..Len(q)
  PROVE  /\ RemoveAt(q, i) \in Seq(S)
         /\ Len(RemoveAt(q, i)) = Len(q) - 1
         /\ \A j \in 1..(Len(q) - 1) :
              RemoveAt(q, i)[j] = IF j < i THEN q[j] ELSE q[j + 1]
<1> DEFINE a == SubSeq(q, 1, i - 1)
           b == SubSeq(q, i + 1, Len(q))
<1>0. Len(q) \in Nat /\ i \in Nat
  OBVIOUS
<1>1. a \in Seq(S) /\ Len(a) = i - 1 /\ \A j \in 1..(i - 1) : a[j] = q[j]
  BY <1>0
<1>2. b \in Seq(S) /\ Len(b) = Len(q) - i /\ \A j \in 1..(Len(q) - i) : b[j] = q[j + i]
  BY <1>0
<1>3. RemoveAt(q, i) = a \o b
  BY DEF RemoveAt
<1> HIDE DEF a, b
<1>4. /\ a \o b \in Seq(S) /\ Len(a \o b) = Len(a) + Len(b)
      /\ \A j \in 1..(Len(a) + Len(b)) :
           (a \o b)[j] = IF j <= Len(a) THEN a[j] ELSE b[j - Len(a)]
  BY <1>1, <1>2, ConcatProperties
<1>5. Len(a) + Len(b) = Len(q) - 1
  BY <1>0, <1>1, <1>2
<1>6. \A j \in 1..(Len(q) - 1) : (a \o b)[j] = IF j < i THEN q[j] ELSE q[j + 1]
  BY <1>0, <1>1, <1>2, <1>4, <1>5, SMTT(30)
<1>7. QED
  BY <1>3, <1>4, <1>5, <1>6

(* RemoveFirst, on a sequence without repetitions that holds the element:  *)
(* one entry less, none repeated, and only that element gone.              *)
LEMMA RemoveFirstProperties ==
  ASSUME NEW S, NEW q \in Seq(S), IsInjective(q), NEW e, Contains(q, e)
  PROVE  /\ RemoveFirst(q, e) \in Seq(S)
         /\ Len(RemoveFirst(q, e)) = Len(q) - 1
         /\ IsInjective(RemoveFirst(q, e))
         /\ \A i \in 1..Len(RemoveFirst(q, e)) :
              RemoveFirst(q, e)[i] # e /\ Contains(q, RemoveFirst(q, e)[i])
         /\ \A x : Contains(q, x) /\ x # e => Contains(RemoveFirst(q, e), x)
<1>1. PICK i \in 1..Len(q) : q[i] = e
  BY DEF Contains
<1> DEFINE I == {j \in 1..Len(q) : q[j] = e}
           r == RemoveAt(q, i)
<1>2. I = {i}
  BY <1>1 DEF IsInjective
<1>3. Min(I) = i
  BY <1>2 DEF Min
<1>4. RemoveFirst(q, e) = RemoveAt(q, Min(I))
  BY <1>1, <1>2 DEF RemoveFirst, SelectInSeq
<1>5. RemoveFirst(q, e) = r
  BY <1>3, <1>4
<1>6. /\ r \in Seq(S) /\ Len(r) = Len(q) - 1
      /\ \A j \in 1..(Len(q) - 1) : r[j] = IF j < i THEN q[j] ELSE q[j + 1]
  BY RemoveAtProperties
<1> HIDE DEF r, I
<1>7. Len(q) \in Nat /\ DOMAIN q = 1..Len(q) /\ DOMAIN r = 1..(Len(q) - 1)
  BY <1>6
<1>8. IsInjective(r)
  BY <1>6, <1>7, SMTT(30) DEF IsInjective
<1>9. ASSUME NEW j \in 1..Len(r)
      PROVE  r[j] # e /\ Contains(q, r[j])
  <2>1. PICK k \in 1..Len(q) : k # i /\ r[j] = q[k]
    BY <1>6, <1>7
  <2>2. r[j] # e
    BY <1>1, <2>1, <1>7 DEF IsInjective
  <2>3. QED
    BY <2>1, <2>2 DEF Contains
<1>10. ASSUME NEW x, Contains(q, x), x # e
       PROVE  Contains(r, x)
  <2>1. PICK k \in 1..Len(q) : q[k] = x
    BY <1>10 DEF Contains
  <2>2. CASE k < i
    BY <2>1, <2>2, <1>6, <1>7 DEF Contains
  <2>3. CASE k > i
    <3>1. k - 1 \in 1..(Len(q) - 1) /\ r[k - 1] = q[k]
      BY <2>3, <1>6, <1>7
    <3>2. QED
      BY <2>1, <3>1, <1>6 DEF Contains
  <2>4. k # i
    BY <1>1, <1>10, <2>1
  <2>5. QED
    BY <2>2, <2>3, <2>4
<1>11. QED
  BY <1>5, <1>6, <1>8, <1>9, <1>10

(* RemoveFirst leaves a sequence alone that does not hold the element.     *)
LEMMA RemoveFirstOfAbsent ==
  ASSUME NEW q, NEW e, ~Contains(q, e)
  PROVE  RemoveFirst(q, e) = q
BY DEF RemoveFirst, Contains

(* Appending an element that is not there repeats none.                    *)
LEMMA AppendKeepsInjective ==
  ASSUME NEW S, NEW q \in Seq(S), NEW e \in S, IsInjective(q), ~Contains(q, e)
  PROVE  /\ IsInjective(Append(q, e))
         /\ \A x : Contains(Append(q, e), x) <=> Contains(q, x) \/ x = e
<1>1. /\ Len(q) \in Nat /\ DOMAIN q = 1..Len(q)
      /\ Append(q, e) \in Seq(S) /\ Len(Append(q, e)) = Len(q) + 1
      /\ \A i \in 1..Len(q) : Append(q, e)[i] = q[i]
      /\ Append(q, e)[Len(q) + 1] = e
  BY AppendProperties
<1> DEFINE r == Append(q, e)
<1>2. DOMAIN r = 1..(Len(q) + 1)
  BY <1>1
<1> HIDE DEF r
<1>3. IsInjective(r)
  BY <1>1, <1>2 DEF IsInjective, Contains, r
<1>4. ASSUME NEW x PROVE Contains(r, x) <=> Contains(q, x) \/ x = e
  BY <1>1 DEF Contains, r
<1>5. QED
  BY <1>3, <1>4 DEF r

(* Dropping the first element repeats none, and the element is gone.       *)
LEMMA TailKeepsInjective ==
  ASSUME NEW S, NEW q \in Seq(S), q # <<>>, IsInjective(q)
  PROVE  /\ Tail(q) \in Seq(S) /\ IsInjective(Tail(q)) /\ Contains(q, Head(q))
         /\ \A i \in 1..Len(Tail(q)) : Tail(q)[i] # Head(q) /\ Contains(q, Tail(q)[i])
<1>1. /\ Len(q) \in Nat \ {0} /\ DOMAIN q = 1..Len(q) /\ Head(q) = q[1]
      /\ Tail(q) \in Seq(S) /\ Len(Tail(q)) = Len(q) - 1
      /\ \A i \in 1..(Len(q) - 1) : Tail(q)[i] = q[i + 1]
  BY HeadTailProperties
<1>2. DOMAIN Tail(q) = 1..(Len(q) - 1)
  BY <1>1
<1>3. IsInjective(Tail(q))
  BY <1>1, <1>2 DEF IsInjective
<1>4. \A i \in 1..(Len(q) - 1) : i + 1 \in 1..Len(q) /\ i + 1 # 1
  BY <1>1
<1>5. \A i \in 1..Len(Tail(q)) : Tail(q)[i] # Head(q) /\ Contains(q, Tail(q)[i])
  BY <1>1, <1>4 DEF IsInjective, Contains
<1>6. QED
  BY <1>1, <1>3, <1>5 DEF Contains

(* A prefix, element by element.                                           *)
LEMMA PrefixIff ==
  ASSUME NEW S, NEW p \in Seq(S), NEW q \in Seq(S)
  PROVE  IsPrefix(p, q) <=> Len(p) <= Len(q) /\ \A i \in 1..Len(p) : p[i] = q[i]
<1>1. SUFFICES ASSUME Len(p) <= Len(q)
               PROVE  SubSeq(p, 1, Len(p)) = SubSeq(q, 1, Len(p)) <=>
                        \A i \in 1..Len(p) : p[i] = q[i]
  BY DEF IsPrefix
<1>2. SubSeq(p, 1, Len(p)) = p
  OBVIOUS
<1> DEFINE r == SubSeq(q, 1, Len(p))
<1>3. /\ Len(p) \in Nat /\ Len(q) \in Nat
      /\ r \in Seq(S) /\ Len(r) = Len(p) /\ \A i \in 1..Len(p) : r[i] = q[i]
  BY <1>1
<1> HIDE DEF r
<1>4. p = r <=> \A i \in 1..Len(p) : p[i] = r[i]
  BY <1>3, SeqEqual
<1>5. QED
  BY <1>2, <1>3, <1>4 DEF r
=============================================================================
