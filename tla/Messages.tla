------------------------------ MODULE Messages ------------------------------
(***************************************************************************)
(* DNS messages (src/src/dns.c): craft_message and parse_message, on       *)
(* datagrams that are a header and the bytes that follow it.  Of the       *)
(* header the fields that some code reads are kept, as they stand in the   *)
(* datagram: numbers of two bytes in network order.                        *)
(***************************************************************************)
EXTENDS Naturals, Sequences

CONSTANT Junk   \* a byte of the buffer that craft_message does not write

HeaderLen == 12     \* sizeof(header_t)
MaxDnsBytes == 64   \* MAX_DNS_BYTES, the size of every buffer
Byte == 0..255
Id == {n \in Nat : n < 65536}   \* uint16_t
Label == Seq(Byte \ {0})   \* a C string

(* htons and ntohs on a machine that stores the low byte first.            *)
SwapBytes(n) == (n % 256) * 256 + n \div 256

(* craft_message: the header, the domain with the zero that ends it, and   *)
(* type and class, of which only every other byte is written.              *)
Unterminated(domain) == domain \o <<Junk, 1, Junk, 1>>  \* mutant: strlen(domain)
Question(domain) == domain \o <<0, Junk, 1, Junk, 1>>

NameError == 3
CraftMessage(query, id, domain, found) ==
  [header |-> [id |-> SwapBytes(id), qr |-> ~query,
               rcode |-> IF ~query /\ ~found THEN NameError ELSE 0],
   body |-> Question(domain)]

(* The buffer that craft_message fills has MAX_DNS_BYTES, unchecked.       *)
Fits(domain) == HeaderLen + Len(domain) + 5 <= MaxDnsBytes

(* parse_message: the name ends at the first zero, or where the message    *)
(* does; type and class are both read from the two bytes after the zero.   *)
NameEnds(body, n) ==
  /\ n = Len(body) \/ body[n + 1] = 0
  /\ \A i \in 1..n : body[i] # 0
CharCnt(body) == CHOOSE n \in 0..Len(body) : NameEnds(body, n)

ParseMessage(d) ==
  LET n == CharCnt(d.body)
      header == [d.header EXCEPT !.id = SwapBytes(@)]
  IN  IF n + 4 > Len(d.body) THEN [error |-> 3, header |-> header]
      ELSE [error |-> 0, header |-> header,
            domain |-> SubSeq(d.body, 1, n),
            qtype |-> SubSeq(d.body, n + 2, n + 3)]
=============================================================================
