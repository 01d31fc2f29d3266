-------------------------- MODULE UdsNetworkProofs --------------------------
(***************************************************************************)
(* The download over a link that loses messages, for every number of       *)
(* blocks, losses, repetitions, refusals and slow erasures: both ends stay *)
(* in step, and the blocks reach the application as BlockTransfer says.    *)
(***************************************************************************)
EXTENDS UdsNetwork, UdsOutcomes, WrapLemmas

-----------------------------------------------------------------------------
(* Configurations *)

\* The application replaces none of the services of a download, and none of
\* its services has the SID of a response (bit 6).
OwnTransfer ==
  \A e \in UserServices :
    /\ e.sid \notin {REQUEST_DOWNLOAD, TRANSFER_DATA, TRANSFER_EXIT}
    /\ (e.sid \div 64) % 2 = 0

\* A tester that looks at the block counter it gets back, and a counter that
\* can tell a block from the next.
Distinguishes == CHECK_ECHO /\ SEQ_MOD >= 2

-----------------------------------------------------------------------------
(* What is under way *)

Packet == [block: Nat, sdu: Request]

StepSids == {ROUTINE_CONTROL, REQUEST_DOWNLOAD, TRANSFER_DATA, TRANSFER_EXIT}

\* A request of the tester's application, and the step it belongs to.
IsRequest(m) == m.sdu.sid # SERVICE_NOT_SUPP_IN_SESS

Step(m) ==
  IF m.sdu.sid = ROUTINE_CONTROL THEN 0
  ELSE IF m.sdu.sid = REQUEST_DOWNLOAD THEN 1
  ELSE IF m.sdu.sid = TRANSFER_DATA THEN m.block + 1
  ELSE LAST

\* A request under way is none that the tester has yet to make, and none from
\* before the last block that was written; k is the number of blocks written.
Wanted(m, k, at) ==
  /\ Step(m) \in 0 .. LAST /\ Step(m) <= at
  /\ m = RequestAt(Step(m))
  /\ k # 0 => k < Step(m)

\* What the tester answers to a response it does not expect.
Refuses(m) ==
  /\ m.sdu.sid = SERVICE_NOT_SUPP_IN_SESS /\ m.sdu.len = 3
  /\ m.sdu.b1 \in {s + 64 : s \in StepSids} \cup {SERVICE_NOT_SUPP_IN_SESS}

\* The requests under way come in the order of their steps.
Requests(q, k, at) ==
  /\ q \in Seq(Packet)
  /\ \A i \in DOMAIN q : IF IsRequest(q[i]) THEN Wanted(q[i], k, at) ELSE Refuses(q[i])
  /\ \A i, j \in DOMAIN q :
       i < j /\ IsRequest(q[i]) /\ IsRequest(q[j]) => Step(q[i]) <= Step(q[j])

\* Responses: to one of the four services, or to a refusal.
Replies(m) ==
  \/ m.sdu.sid \in {s + 64 : s \in StepSids} /\ m.sdu.len = 2
  \/ /\ m.sdu.sid = SERVICE_NOT_SUPP_IN_SESS /\ m.sdu.len = 3
     /\ m.sdu.b1 \in StepSids \cup {SERVICE_NOT_SUPP_IN_SESS}

\* The acknowledgement of a block, of the last one written, and NRC 0x24.
Acks(m) == m.sdu.sid = TRANSFER_DATA + 64
AcksLast(m, k) == Acks(m) /\ m.sdu.b1 = k % SEQ_MOD
Disordered(m) ==
  m.sdu.sid = SERVICE_NOT_SUPP_IN_SESS /\ m.sdu.b2 = REQUEST_SEQUENCE_ERROR

\* A block is acknowledged once it is written.  The acknowledgement of the
\* block before the last is under way only while the tester waits for the
\* last; the transfer is acknowledged once it is closed.
Acknowledges(m, k, at, done) ==
  /\ Acks(m) => /\ k # 0
                /\ \/ m.sdu.b1 = k % SEQ_MOD
                   \/ m.sdu.b1 = (k - 1) % SEQ_MOD /\ at = k + 1
  /\ m.sdu.sid = TRANSFER_EXIT + 64 => done

\* Where NRC 0x24 can be under way: it was sent when the counter stood at 0,
\* and arrives before the acknowledgement of the block after that.
AfterWrap(q, i, k, at) ==
  /\ q[i].sdu.b1 = TRANSFER_DATA /\ k >= SEQ_MOD
  /\ \/ k % SEQ_MOD = 0
     \/ /\ k % SEQ_MOD = 1 /\ at = k + 1
        /\ \A j \in DOMAIN q : j < i => ~AcksLast(q[j], k)

\* The responses under way: an acknowledgement of the last block is followed
\* by no older one.
Answers(q, k, at, done) ==
  /\ q \in Seq(Packet)
  /\ \A i \in DOMAIN q : Replies(q[i]) /\ Acknowledges(q[i], k, at, done)
  /\ \A i, j \in DOMAIN q :
       i < j /\ AcksLast(q[i], k) /\ Acks(q[j]) => AcksLast(q[j], k)
  /\ REPLAY => \A i \in DOMAIN q : Disordered(q[i]) => AfterWrap(q, i, k, at)

\* A response that the ECU has just sent.
Fresh(m, k, done) ==
  /\ m \in Packet /\ Replies(m)
  /\ Acks(m) => k # 0 /\ AcksLast(m, k)
  /\ m.sdu.sid = TRANSFER_EXIT + 64 => done
  /\ Disordered(m) /\ REPLAY =>
       m.sdu.b1 = TRANSFER_DATA /\ k >= SEQ_MOD /\ k % SEQ_MOD = 0

-----------------------------------------------------------------------------
(* Sequences *)

\* The rest of a queue.
LEMMA Rest ==
  ASSUME NEW S, NEW q \in Seq(S), q # <<>>
  PROVE  /\ Tail(q) \in Seq(S) /\ Head(q) = q[1] /\ 1 \in DOMAIN q
         /\ \A i \in DOMAIN Tail(q) : i \in Nat /\ i + 1 \in DOMAIN q /\ Tail(q)[i] = q[i + 1]
         /\ q[1] \in S
<1>1. Len(q) \in Nat /\ DOMAIN q = 1 .. Len(q) /\ Len(q) # 0
  OBVIOUS
<1>2. Tail(q) \in Seq(S) /\ Len(Tail(q)) = Len(q) - 1
  BY <1>1
<1>3. DOMAIN Tail(q) = 1 .. Len(q) - 1
  BY <1>1, <1>2
<1>4. \A i \in 1 .. Len(q) - 1 : Tail(q)[i] = q[i + 1]
  BY <1>1, <1>2
<1>5. 1 \in DOMAIN q /\ Head(q) = q[1] /\ q[1] \in S
  BY <1>1
<1>6. \A i \in 1 .. Len(q) - 1 : i \in Nat /\ i + 1 \in 1 .. Len(q)
  BY <1>1
<1> QED
  BY <1>1, <1>2, <1>3, <1>4, <1>5, <1>6

\* One more at the end.
LEMMA OneMore ==
  ASSUME NEW S, NEW q \in Seq(S), NEW m \in S
  PROVE  /\ q \o <<m>> \in Seq(S) /\ Append(q, m) = q \o <<m>>
         /\ \A i \in DOMAIN (q \o <<m>>) :
              \/ i \in DOMAIN q /\ (q \o <<m>>)[i] = q[i]
              \/ i = Len(q) + 1 /\ (q \o <<m>>)[i] = m
         /\ \A i \in DOMAIN q : i \in Nat /\ i < Len(q) + 1
         /\ DOMAIN q \subseteq DOMAIN (q \o <<m>>)
         /\ Len(q) \in Nat
<1> DEFINE s == q \o <<m>>
<1>1. Len(q) \in Nat /\ DOMAIN q = 1 .. Len(q)
  OBVIOUS
<1>2. <<m>> \in Seq(S) /\ Len(<<m>>) = 1 /\ <<m>>[1] = m
  OBVIOUS
<1>3. s \in Seq(S) /\ Len(s) = Len(q) + 1
  BY <1>1, <1>2
<1>4. DOMAIN s = 1 .. Len(q) + 1
  BY <1>1, <1>3
<1>5. \A i \in 1 .. Len(q) : s[i] = q[i]
  BY <1>1, <1>2
<1>6. s[Len(q) + 1] = m
  BY <1>1, <1>2
<1>7. Append(q, m) = s
  <2>1. Append(q, m) \in Seq(S) /\ Len(Append(q, m)) = Len(q) + 1
    BY <1>1
  <2>2. \A i \in 1 .. Len(q) + 1 : Append(q, m)[i] = s[i]
    BY <1>1, <1>5, <1>6
  <2>3. DOMAIN Append(q, m) = 1 .. Len(q) + 1
    BY <1>1, <2>1
  <2> QED
    BY <1>3, <1>4, <2>1, <2>2, <2>3
<1> HIDE DEF s
<1>8. \A i \in 1 .. Len(q) + 1 : i \in 1 .. Len(q) \/ i = Len(q) + 1
  BY <1>1
<1>9. \A i \in 1 .. Len(q) : i \in Nat /\ i < Len(q) + 1 /\ i \in 1 .. Len(q) + 1
  BY <1>1
<1>10. \A i \in DOMAIN s : \/ i \in DOMAIN q /\ s[i] = q[i]
                           \/ i = Len(q) + 1 /\ s[i] = m
  BY <1>1, <1>4, <1>5, <1>6, <1>8
<1>11. DOMAIN q \subseteq DOMAIN s
  BY <1>1, <1>4, <1>9
<1> QED
  BY <1>1, <1>3, <1>7, <1>9, <1>10, <1>11 DEF s

\* Nothing more.
LEMMA NoMore ==
  ASSUME NEW S, NEW q \in Seq(S)
  PROVE  q \o <<>> = q
OBVIOUS
-----------------------------------------------------------------------------
(* The requests under way *)

\* Counters are bytes, and the next one is another one.
LEMMA Counters ==
  ASSUME NEW n \in Nat
  PROVE  /\ n % SEQ_MOD \in Byte /\ n % SEQ_MOD \in 0 .. SEQ_MOD - 1
         /\ SEQ_MOD >= 2 => n % SEQ_MOD # (n + 1) % SEQ_MOD
         /\ n % SEQ_MOD = SEQ_MOD - 1 => (n + 1) % SEQ_MOD = 0
         /\ n % SEQ_MOD # SEQ_MOD - 1 => (n + 1) % SEQ_MOD = (n % SEQ_MOD) + 1
         /\ n % SEQ_MOD = 0 /\ n # 0 => n >= SEQ_MOD
<1> DEFINE x == n % SEQ_MOD
<1>1. SEQ_MOD \in Nat \ {0} /\ SEQ_MOD <= 256
  BY TimingAssumption, RangeAssumption
<1>2. x \in 0 .. SEQ_MOD - 1
  BY <1>1
<1>3. PICK d \in Nat : n = SEQ_MOD * d + x
  <2>1. n = SEQ_MOD * (n \div SEQ_MOD) + x /\ n \div SEQ_MOD \in Nat
    BY <1>1
  <2> QED
    BY <2>1
<1>4. n % SEQ_MOD = 0 /\ n # 0 => n >= SEQ_MOD
  BY <1>1
<1> HIDE DEF x
<1>5. ASSUME x = SEQ_MOD - 1
      PROVE  (n + 1) % SEQ_MOD = 0
  <2>1. n + 1 = SEQ_MOD * (d + 1) + 0
    BY <1>1, <1>3, <1>5
  <2>2. d + 1 \in Nat /\ 0 \in 0 .. SEQ_MOD - 1
    BY <1>1
  <2>3. (SEQ_MOD * (d + 1) + 0) % SEQ_MOD = 0
    BY <1>1, <2>2, WrapRemainder
  <2> QED
    BY <2>1, <2>3
<1>6. ASSUME x # SEQ_MOD - 1
      PROVE  (n + 1) % SEQ_MOD = x + 1
  <2>1. SEQ_MOD * d \in Nat /\ n + 1 = SEQ_MOD * d + (x + 1)
    BY <1>1, <1>2, <1>3
  <2>2. x + 1 \in 0 .. SEQ_MOD - 1
    BY <1>1, <1>2, <1>6
  <2>3. (SEQ_MOD * d + (x + 1)) % SEQ_MOD = x + 1
    BY <1>1, <2>2, WrapRemainder
  <2> QED
    BY <2>1, <2>3
<1>7. SEQ_MOD >= 2 => x # (n + 1) % SEQ_MOD
  BY <1>1, <1>2, <1>5, <1>6
<1>8. x \in Byte
  BY <1>1, <1>2 DEF Byte
<1> QED
  BY <1>2, <1>4, <1>5, <1>6, <1>7, <1>8 DEF x

\* The request of a step: its SID, its length and its block.
LEMMA RequestShape ==
  ASSUME NEW j \in 0 .. LAST
  PROVE  /\ RequestAt(j) \in Packet /\ IsRequest(RequestAt(j)) /\ Step(RequestAt(j)) = j
         /\ RequestAt(j).sdu.sid \in StepSids /\ RequestAt(j).sdu.len # 0
         /\ RequestAt(j).sdu.sid = TRANSFER_DATA =>
              /\ Block(j) = j - 1 /\ j \in 2 .. BLOCKS + 1
              /\ RequestAt(j).sdu.b1 = (j - 1) % SEQ_MOD /\ RequestAt(j).block = j - 1
              /\ RequestAt(j).sdu.len = 3
         /\ RequestAt(j).sdu.sid = TRANSFER_EXIT => j = LAST
         /\ RequestAt(j).sdu.sid = ROUTINE_CONTROL => j = 0
         /\ RequestAt(j).sdu.sid = REQUEST_DOWNLOAD => j = 1
<1>1. BLOCKS \in Nat /\ LAST \in Nat /\ LAST = BLOCKS + 2
  BY NetworkAssumption DEF LAST
<1>2. Block(j) \in Nat /\ Counter(j) \in Byte
  <2>1. Block(j) \in Nat
    BY <1>1 DEF Block
  <2> QED
    BY <2>1, Counters DEF Counter
<1>3. \A sid, b1, b2 \in Byte, len \in Nat : Sdu(sid, b1, b2, len) \in Request
  <2>1. <<>> \in Seq(Nat) /\ 0 \in Nat
    OBVIOUS
  <2> QED
    BY <2>1 DEF Sdu, Request
<1>4. /\ {0, 1, 17} \subseteq Byte /\ {1, 3, 4, 5} \subseteq Nat
  BY DEF Byte
<1>5. CASE j = 0
  <2> DEFINE u == Sdu(ROUTINE_CONTROL, 1, 0, 4)
  <2>1. RequestAt(j) = [block |-> 0, sdu |-> u]
    BY <1>1, <1>5 DEF RequestAt, Block
  <2>2. u \in Request /\ u.sid = ROUTINE_CONTROL /\ u.b1 = 1 /\ u.len = 4
    BY <1>2, <1>3, <1>4, Codes DEF Sdu
  <2> HIDE DEF u
  <2>3. RequestAt(j) \in Packet /\ RequestAt(j).block = 0 /\ RequestAt(j).sdu = u
    BY <1>1, <1>5, <2>1, <2>2 DEF Packet
  <2> QED
    BY <1>1, <1>4, <1>5, <2>1, <2>2, <2>3 DEF IsRequest, Step, StepSids, Counter, ROUTINE_CONTROL,
       SERVICE_NOT_SUPP_IN_SESS, TRANSFER_DATA, TRANSFER_EXIT, REQUEST_DOWNLOAD
<1>6. CASE j = 1
  <2> DEFINE u == Sdu(REQUEST_DOWNLOAD, 0, 17, 5)
  <2>1. RequestAt(j) = [block |-> 0, sdu |-> u]
    BY <1>1, <1>6 DEF RequestAt, Block
  <2>2. u \in Request /\ u.sid = REQUEST_DOWNLOAD /\ u.b1 = 0 /\ u.len = 5
    BY <1>2, <1>3, <1>4, Codes DEF Sdu
  <2> HIDE DEF u
  <2>3. RequestAt(j) \in Packet /\ RequestAt(j).block = 0 /\ RequestAt(j).sdu = u
    BY <1>1, <1>6, <2>1, <2>2 DEF Packet
  <2> QED
    BY <1>1, <1>4, <1>6, <2>1, <2>2, <2>3 DEF IsRequest, Step, StepSids, Counter, ROUTINE_CONTROL,
       SERVICE_NOT_SUPP_IN_SESS, TRANSFER_DATA, TRANSFER_EXIT, REQUEST_DOWNLOAD
<1>7. CASE j \in 2 .. BLOCKS + 1
  <2> DEFINE u == Sdu(TRANSFER_DATA, Counter(j), 0, 3)
  <2>1. RequestAt(j) = [block |-> j - 1, sdu |-> u] /\ Block(j) = j - 1
    BY <1>1, <1>7 DEF RequestAt, Block
  <2>2. u \in Request /\ u.sid = TRANSFER_DATA /\ u.b1 = Counter(j) /\ u.len = 3
    BY <1>2, <1>3, <1>4, Codes DEF Sdu
  <2> HIDE DEF u
  <2>3. RequestAt(j) \in Packet /\ RequestAt(j).block = j - 1 /\ RequestAt(j).sdu = u
    BY <1>1, <1>7, <2>1, <2>2 DEF Packet
  <2> QED
    BY <1>1, <1>4, <1>7, <2>1, <2>2, <2>3 DEF IsRequest, Step, StepSids, Counter, ROUTINE_CONTROL,
       SERVICE_NOT_SUPP_IN_SESS, TRANSFER_DATA, TRANSFER_EXIT, REQUEST_DOWNLOAD
<1>8. CASE j = LAST
  <2> DEFINE u == Sdu(TRANSFER_EXIT, 0, 0, 1)
  <2>1. RequestAt(j) = [block |-> 0, sdu |-> u]
    BY <1>1, <1>8 DEF RequestAt, Block
  <2>2. u \in Request /\ u.sid = TRANSFER_EXIT /\ u.b1 = 0 /\ u.len = 1
    BY <1>2, <1>3, <1>4, Codes DEF Sdu
  <2> HIDE DEF u
  <2>3. RequestAt(j) \in Packet /\ RequestAt(j).block = 0 /\ RequestAt(j).sdu = u
    BY <1>1, <1>8, <2>1, <2>2 DEF Packet
  <2> QED
    BY <1>1, <1>4, <1>8, <2>1, <2>2, <2>3 DEF IsRequest, Step, StepSids, Counter, ROUTINE_CONTROL,
       SERVICE_NOT_SUPP_IN_SESS, TRANSFER_DATA, TRANSFER_EXIT, REQUEST_DOWNLOAD
<1> QED
  BY <1>1, <1>5, <1>6, <1>7, <1>8

\* What is left of the requests when the first is gone.
LEMMA RequestsTail ==
  ASSUME NEW q, NEW k, NEW at, Requests(q, k, at), q # <<>>
  PROVE  Requests(Tail(q), k, at)
<1>1. /\ q \in Seq(Packet) /\ Tail(q) \in Seq(Packet)
      /\ \A i \in DOMAIN Tail(q) : i \in Nat /\ i + 1 \in DOMAIN q /\ Tail(q)[i] = q[i + 1]
  BY Rest DEF Requests
<1>2. \A i, j \in Nat : i < j => i + 1 < j + 1
  OBVIOUS
<1> QED
  BY <1>1, <1>2 DEF Requests

\* A refusal may join them anywhere.
LEMMA RequestsRefusal ==
  ASSUME NEW q, NEW k, NEW at, Requests(q, k, at), NEW m \in Packet, Refuses(m)
  PROVE  Requests(q \o <<m>>, k, at)
<1>1. ~IsRequest(m)
  BY DEF IsRequest, Refuses
<1>2. q \in Seq(Packet)
  BY DEF Requests
<1> DEFINE s == q \o <<m>>
<1>3. /\ s \in Seq(Packet)
      /\ \A i \in DOMAIN s : \/ i \in DOMAIN q /\ s[i] = q[i]
                             \/ i = Len(q) + 1 /\ s[i] = m
  BY <1>2, OneMore
<1> HIDE DEF s
<1>4. Requests(s, k, at)
  BY <1>1, <1>3 DEF Requests
<1> QED
  BY <1>4 DEF s

\* A request of the present step may, too.
LEMMA RequestsAsk ==
  ASSUME NEW q, NEW k \in Nat, NEW at \in 0 .. LAST, Requests(q, k, at), k # 0 => k < at
  PROVE  Requests(q \o <<RequestAt(at)>>, k, at)
<1> DEFINE m == RequestAt(at)
           s == q \o <<m>>
<1>1. m \in Packet /\ IsRequest(m) /\ Step(m) = at
  BY RequestShape
<1>2. q \in Seq(Packet)
  BY DEF Requests
<1>3. /\ s \in Seq(Packet) /\ Len(q) \in Nat
      /\ \A i \in DOMAIN s : \/ i \in DOMAIN q /\ s[i] = q[i]
                             \/ i = Len(q) + 1 /\ s[i] = m
      /\ \A i \in DOMAIN q : i \in Nat /\ i < Len(q) + 1
  BY <1>1, <1>2, OneMore
<1>4. LAST \in Nat
  BY NetworkAssumption DEF LAST
<1>5. Wanted(m, k, at)
  BY <1>1, <1>4 DEF Wanted, m
<1> HIDE DEF m, s
<1>6. \A i \in DOMAIN q : IsRequest(q[i]) => Step(q[i]) <= at
  BY DEF Requests, Wanted
<1>7. ASSUME NEW i \in DOMAIN s, NEW j \in DOMAIN s, i < j, IsRequest(s[i]), IsRequest(s[j])
      PROVE  Step(s[i]) <= Step(s[j])
  <2>1. CASE i \in DOMAIN q /\ j \in DOMAIN q /\ s[i] = q[i] /\ s[j] = q[j]
    BY <1>7, <2>1 DEF Requests
  <2>2. CASE i \in DOMAIN q /\ s[i] = q[i] /\ s[j] = m
    BY <1>1, <1>6, <1>7, <2>2
  <2>3. CASE i = Len(q) + 1 /\ j = Len(q) + 1
    BY <1>3, <1>7, <2>3
  <2>4. CASE i = Len(q) + 1 /\ j \in DOMAIN q
    BY <1>3, <1>7, <2>4
  <2> QED
    BY <1>3, <2>1, <2>2, <2>3, <2>4
<1>8. \A i \in DOMAIN s : IF IsRequest(s[i]) THEN Wanted(s[i], k, at) ELSE Refuses(s[i])
  BY <1>1, <1>3, <1>5 DEF Requests
<1>9. Requests(s, k, at)
  BY <1>3, <1>7, <1>8 DEF Requests
<1> QED
  BY <1>9 DEF s, m

\* They stay what they are when the tester goes on.
LEMMA RequestsMove ==
  ASSUME NEW q, NEW k, NEW at \in Nat, Requests(q, k, at)
  PROVE  Requests(q, k, at + 1)
<1>1. LAST \in Nat
  BY NetworkAssumption DEF LAST
<1>2. \A m : Wanted(m, k, at) => Wanted(m, k, at + 1)
  BY <1>1 DEF Wanted
<1> QED
  BY <1>2 DEF Requests

\* And those behind a block are later than it once it is written.
LEMMA RequestsWrite ==
  ASSUME NEW q, NEW k \in Nat, NEW at, Requests(q, k, at), q # <<>>,
         IsRequest(Head(q)), Step(Head(q)) = k + 2
  PROVE  Requests(Tail(q), k + 1, at)
<1> DEFINE s == Tail(q)
<1>1. /\ q \in Seq(Packet) /\ 1 \in DOMAIN q /\ Head(q) = q[1]
      /\ \A i \in DOMAIN s : i \in Nat /\ i + 1 \in DOMAIN q /\ s[i] = q[i + 1]
  BY Rest DEF Requests
<1>2. Requests(s, k, at)
  BY RequestsTail
<1>3. LAST \in Nat
  BY NetworkAssumption DEF LAST
<1> HIDE DEF s
<1>4. ASSUME NEW i \in DOMAIN s, IsRequest(s[i])
      PROVE  Wanted(s[i], k + 1, at)
  <2>1. 1 < i + 1
    <3>1. i + 1 \in DOMAIN q /\ i \in Nat /\ DOMAIN q = 1 .. Len(q)
      BY <1>1
    <3>2. DOMAIN s = 1 .. Len(s)
      BY <1>2 DEF Requests
    <3> QED
      BY <3>1, <3>2
  <2>2. Step(q[1]) <= Step(q[i + 1])
    BY <1>1, <1>4, <2>1 DEF Requests
  <2>3. Wanted(s[i], k, at) /\ Step(s[i]) \in 0 .. LAST
    BY <1>2, <1>4 DEF Requests, Wanted
  <2>4. Step(s[i]) >= k + 2
    BY <1>1, <1>3, <2>2, <2>3
  <2> QED
    BY <1>3, <2>3, <2>4 DEF Wanted
<1>5. Requests(s, k + 1, at)
  BY <1>2, <1>4 DEF Requests
<1> QED
  BY <1>5 DEF s
-----------------------------------------------------------------------------
(* The responses under way *)

\* What is left of the responses when the first is gone.
LEMMA AnswersTail ==
  ASSUME NEW q, NEW k, NEW at, NEW done, Answers(q, k, at, done), q # <<>>
  PROVE  Answers(Tail(q), k, at, done)
<1> DEFINE s == Tail(q)
<1>1. /\ q \in Seq(Packet) /\ s \in Seq(Packet)
      /\ \A i \in DOMAIN s : i \in Nat /\ i + 1 \in DOMAIN q /\ s[i] = q[i + 1]
  BY Rest DEF Answers
<1>2. \A i, j \in Nat : i < j => i + 1 < j + 1
  OBVIOUS
<1> HIDE DEF s
<1>3. ASSUME NEW i \in DOMAIN s, AfterWrap(q, i + 1, k, at)
      PROVE  AfterWrap(s, i, k, at)
  BY <1>1, <1>2, <1>3 DEF AfterWrap
<1>4. Answers(s, k, at, done)
  BY <1>1, <1>2, <1>3 DEF Answers
<1> QED
  BY <1>4 DEF s

\* A fresh response joins them at the end.
LEMMA AnswersJoin ==
  ASSUME NEW q, NEW k, NEW at, NEW done, NEW m,
         Answers(q, k, at, done), Fresh(m, k, done)
  PROVE  Answers(q \o <<m>>, k, at, done)
<1> DEFINE s == q \o <<m>>
<1>1. q \in Seq(Packet) /\ m \in Packet
  BY DEF Answers, Fresh
<1>2. /\ s \in Seq(Packet) /\ Len(q) \in Nat
      /\ \A i \in DOMAIN s : \/ i \in DOMAIN q /\ s[i] = q[i]
                             \/ i = Len(q) + 1 /\ s[i] = m
      /\ \A i \in DOMAIN q : i \in Nat /\ i < Len(q) + 1
  BY <1>1, OneMore
<1> HIDE DEF s
<1>3. \A i \in DOMAIN s : Replies(s[i]) /\ Acknowledges(s[i], k, at, done)
  BY <1>2 DEF Answers, Fresh, Acknowledges, AcksLast
<1>4. ASSUME NEW i \in DOMAIN s, NEW j \in DOMAIN s, i < j, AcksLast(s[i], k), Acks(s[j])
      PROVE  AcksLast(s[j], k)
  <2>1. CASE j \in DOMAIN q /\ s[j] = q[j]
    <3>1. i \in DOMAIN q /\ s[i] = q[i]
      BY <1>2, <1>4, <2>1
    <3> QED
      BY <1>4, <2>1, <3>1 DEF Answers
  <2>2. CASE s[j] = m
    BY <1>4, <2>2 DEF Fresh
  <2> QED
    BY <1>2, <2>1, <2>2
<1>5. ASSUME REPLAY, NEW i \in DOMAIN s, Disordered(s[i])
      PROVE  AfterWrap(s, i, k, at)
  <2>1. CASE s[i] = m
    BY <1>5, <2>1 DEF Fresh, AfterWrap
  <2>2. CASE i \in DOMAIN q /\ s[i] = q[i]
    <3>1. AfterWrap(q, i, k, at)
      BY <1>5, <2>2 DEF Answers
    <3>2. \A j \in DOMAIN s : j < i => j \in DOMAIN q /\ s[j] = q[j]
      BY <1>2, <2>2
    <3> QED
      BY <2>2, <3>1, <3>2 DEF AfterWrap
  <2> QED
    BY <1>2, <2>1, <2>2
<1>6. Answers(s, k, at, done)
  BY <1>2, <1>3, <1>4, <1>5 DEF Answers
<1> QED
  BY <1>6 DEF s

\* They stay what they are when the tester goes on from a step in which no
\* acknowledgement of an older block can come.
LEMMA AnswersMove ==
  ASSUME NEW q, NEW k, NEW at, NEW done, NEW to, Answers(q, k, at, done),
         at # k + 1 \/ k = 0, SEQ_MOD >= 2
  PROVE  Answers(q, k, to, done)
<1>1. \A m : Acknowledges(m, k, at, done) => Acknowledges(m, k, to, done)
  BY DEF Acknowledges
<1>2. SEQ_MOD \in Nat
  BY TimingAssumption
<1>3. \A i : AfterWrap(q, i, k, at) => AfterWrap(q, i, k, to)
  BY <1>2 DEF AfterWrap
<1> QED
  BY <1>1, <1>3 DEF Answers

\* Once the tester has taken the acknowledgement of the last block there is
\* none of an older one left, and NRC 0x24 comes from the wrap.
LEMMA AnswersAdvance ==
  ASSUME NEW q, NEW k, NEW at, NEW done, NEW to, Answers(q, k, at, done),
         q # <<>>, AcksLast(Head(q), k)
  PROVE  Answers(Tail(q), k, to, done)
<1> DEFINE s == Tail(q)
<1>1. /\ q \in Seq(Packet) /\ 1 \in DOMAIN q /\ Head(q) = q[1]
      /\ \A i \in DOMAIN s : i \in Nat /\ i + 1 \in DOMAIN q /\ s[i] = q[i + 1]
  BY Rest DEF Answers
<1>2. Answers(s, k, at, done)
  BY AnswersTail
<1>3. \A i \in DOMAIN s : 1 < i + 1
  <2>1. DOMAIN s = 1 .. Len(s) /\ Len(s) \in Nat
    BY <1>2 DEF Answers
  <2> QED
    BY <2>1
<1> HIDE DEF s
<1>4. \A i \in DOMAIN s : Acks(s[i]) => AcksLast(s[i], k)
  BY <1>1, <1>3 DEF Answers
<1>5. \A i \in DOMAIN s : Acknowledges(s[i], k, to, done)
  BY <1>2, <1>4 DEF Answers, Acknowledges, AcksLast
<1>6. ASSUME REPLAY, NEW i \in DOMAIN s, Disordered(s[i])
      PROVE  AfterWrap(s, i, k, to)
  <2>1. AfterWrap(q, i + 1, k, at)
    BY <1>1, <1>6 DEF Answers
  <2>2. k >= SEQ_MOD /\ k % SEQ_MOD = 0 /\ s[i].sdu.b1 = TRANSFER_DATA
    BY <1>1, <1>3, <2>1 DEF AfterWrap
  <2> QED
    BY <2>2 DEF AfterWrap
<1>7. Answers(s, k, to, done)
  BY <1>2, <1>5, <1>6 DEF Answers
<1> QED
  BY <1>7 DEF s

\* A further block makes the last one the one before.
LEMMA AnswersWrite ==
  ASSUME NEW q, NEW k \in Nat, NEW done, Answers(q, k, k + 2, done), SEQ_MOD >= 2
  PROVE  Answers(q, k + 1, k + 2, done)
<1>1. /\ k % SEQ_MOD # (k + 1) % SEQ_MOD /\ (k + 1) - 1 = k /\ (k + 1) + 1 = k + 2
      /\ k + 1 # 0 /\ k + 2 # k + 1
      /\ SEQ_MOD \in Nat
  BY Counters, TimingAssumption
<1>2. k % SEQ_MOD = 0 => (k + 1) % SEQ_MOD = 1
  BY <1>1, Counters
<1>3. ASSUME NEW i \in DOMAIN q
      PROVE  Acknowledges(q[i], k + 1, k + 2, done) /\ ~AcksLast(q[i], k + 1)
  <2>1. Acknowledges(q[i], k, k + 2, done)
    BY <1>3 DEF Answers
  <2>2. Acks(q[i]) => q[i].sdu.b1 = k % SEQ_MOD
    BY <1>1, <2>1 DEF Acknowledges
  <2> QED
    BY <1>1, <2>1, <2>2 DEF Acknowledges, AcksLast
<1>4. ASSUME REPLAY, NEW i \in DOMAIN q, Disordered(q[i])
      PROVE  AfterWrap(q, i, k + 1, k + 2)
  <2>1. AfterWrap(q, i, k, k + 2)
    BY <1>4 DEF Answers
  <2>2. q[i].sdu.b1 = TRANSFER_DATA /\ k >= SEQ_MOD /\ k % SEQ_MOD = 0
    BY <1>1, <2>1 DEF AfterWrap
  <2>3. k + 1 >= SEQ_MOD /\ (k + 1) % SEQ_MOD = 1
    BY <1>1, <1>2, <2>2
  <2> QED
    BY <1>1, <1>3, <2>2, <2>3 DEF AfterWrap
<1> QED
  BY <1>3, <1>4 DEF Answers

\* Closing the transfer takes nothing back.
LEMMA AnswersClose ==
  ASSUME NEW q, NEW k, NEW at, NEW done, Answers(q, k, at, done)
  PROVE  Answers(q, k, at, TRUE)
<1>1. \A m : Acknowledges(m, k, at, done) => Acknowledges(m, k, at, TRUE)
  BY DEF Acknowledges
<1> QED
  BY <1>1 DEF Answers
-----------------------------------------------------------------------------
(* The ECU *)

\* A call leaves the block counter and the client's request alone, and begins
\* no wait.
Kept(c, d) ==
  /\ d \in Ctx /\ d.flash_sequence = c.flash_sequence
  /\ d.pending_sid = c.pending_sid /\ d.client_cb = c.client_cb
  /\ d.p2_msg_pending => c.p2_msg_pending

\* It answers, if at all, with ev; before that it may have run a callback.
Replied(o, ev) ==
  o \in OutcomeType /\ o.ret = "done" /\ \A i \in DOMAIN o.out : o.out[i] = ev

Performed(o, call, ev) ==
  /\ o \in OutcomeType /\ o.ret = "done"
  /\ \A i \in DOMAIN o.out : o.out[i] \in {call, ev}
  /\ \E i \in DOMAIN o.out : o.out[i] = call

\* Every response code but that of a block out of order.
InOrderNrc == Byte \ {REQUEST_SEQUENCE_ERROR}

\* One who is kept by one who is kept is kept.
LEMMA KeptKept ==
  ASSUME NEW c, NEW d, NEW e, Kept(c, d), Kept(d, e)
  PROVE  Kept(c, e)
BY DEF Kept

\* The two ways of answering.
LEMMA Answering ==
  ASSUME NEW c \in Ctx, NEW sid \in Byte, NEW n \in Byte, NEW len
  PROVE  /\ Replied(uds_send_nrc(c, sid, n), Neg(sid, n))
         /\ Kept(c, uds_send_nrc(c, sid, n).ctx)
         /\ Replied(uds_send_response(c, sid, len), Pos(sid))
         /\ Kept(c, uds_send_response(c, sid, len).ctx)
<1> DEFINE o == uds_send_nrc(c, sid, n)
           p == uds_send_response(c, sid, len)
<1>1. Quiet(c, sid, o) /\ Quiet(c, sid, p)
  BY QuietNrc, QuietResponse
<1>2. o.out \in {<<>>, <<Neg(sid, n)>>} /\ p.out \in {<<>>, <<Pos(sid)>>}
  BY DEF uds_send_nrc, uds_send_response, Outcome
<1>3. /\ \A i \in DOMAIN o.out : o.out[i] = Neg(sid, n)
      /\ \A i \in DOMAIN p.out : p.out[i] = Pos(sid)
  BY <1>2
<1>4. o.ctx.flash_sequence = c.flash_sequence
  BY DEF uds_send_nrc, Outcome, Ctx
<1>5. p.ctx.flash_sequence = c.flash_sequence
  BY DEF uds_send_response, Outcome, Ctx
<1> HIDE DEF o, p
<1>6. o \in OutcomeType /\ p \in OutcomeType /\ o.ctx \in Ctx /\ p.ctx \in Ctx
  BY <1>1 DEF Quiet, Calm, OutcomeType
<1>7. Replied(o, Neg(sid, n)) /\ Replied(p, Pos(sid))
  BY <1>1, <1>3, <1>6 DEF Replied, Quiet, Calm
<1>8. Kept(c, o.ctx) /\ Kept(c, p.ctx)
  BY <1>1, <1>4, <1>5, <1>6 DEF Kept, Quiet, Calm
<1> QED
  BY <1>7, <1>8 DEF o, p

\* Running a callback first.
LEMMA Performing ==
  ASSUME NEW o, NEW ev, Replied(o, ev), NEW sid \in Byte, NEW v \in Byte
  PROVE  /\ Performed(Prepend(Call(sid, v), o), Call(sid, v), ev)
         /\ Prepend(Call(sid, v), o).ctx = o.ctx
<1> DEFINE q == Prepend(Call(sid, v), o)
<1>1. o \in OutcomeType /\ Call(sid, v) \in Event
  BY DEF Replied, Call, Event, EventKinds
<1>2. /\ q \in OutcomeType /\ q.ctx = o.ctx /\ q.ret = o.ret
      /\ q.out[1] = Call(sid, v) /\ q.out # <<>>
      /\ \A i \in DOMAIN q.out : q.out[i] = Call(sid, v)
                                \/ \E j \in DOMAIN o.out : q.out[i] = o.out[j]
  BY <1>1, PrependOutcome
<1> HIDE DEF q
<1>3. 1 \in DOMAIN q.out
  <2>1. q.out \in Seq(Event)
    BY <1>2 DEF OutcomeType
  <2> QED
    BY <1>2, <2>1
<1>4. Performed(q, Call(sid, v), ev)
  BY <1>2, <1>3 DEF Performed, Replied
<1> QED
  BY <1>2, <1>4 DEF q

\* A request is refused by the busy ECU or at the gate, with a code other than
\* 0x24, or reaches its handler.
LEMMA Reaches ==
  ASSUME NEW c \in Ctx, NEW r \in Request, NEW a \in Answer,
         r.len # 0, ~IsResponse(c, r), r.sid # TESTER_PRESENT
  PROVE  LET o == uds_input_sdu(c, NoPeriodic, r, a, 0)
         IN  \/ \E n \in InOrderNrc : Replied(o, Neg(r.sid, n)) /\ Kept(c, o.ctx)
             \/ \E d \in Ctx :
                  /\ Kept(c, d) /\ Known(r.sid)
                  /\ o = execute_handler(find_service(r.sid), d, NoPeriodic, r, a, 0)
<1> DEFINE o == uds_input_sdu(c, NoPeriodic, r, a, 0)
           c1 == [c EXCEPT !.last_msg_time = 0]
           c2 == [c1 EXCEPT !.p2_timer_start = 0, !.p2_msg_pending = FALSE,
                            !.p2_star_active = FALSE, !.rcrrp_count = 0]
           e == find_service(r.sid)
           d == LatchSuppress(c2, e, r)
           nrc == Gate(c2, e, r, a)
<1>1. 0 \in Time /\ 0 \in 0 .. RCRRP_MOD - 1
  BY TimingAssumption DEF Time
<1>2. c1 \in Ctx /\ Kept(c, c1)
  BY <1>1 DEF Ctx, Kept
<1>3. c2 \in Ctx /\ Kept(c, c2)
  BY <1>1 DEF Ctx, Kept
<1>4. o = IF c.p2_msg_pending THEN uds_send_nrc(c1, r.sid, BUSY_REPEAT_REQUEST)
          ELSE handle_request(c2, NoPeriodic, r, a, 0)
  BY DEF uds_input_sdu, IsSilentTesterPresent
<1>5. r.sid \in Byte
  BY DEF Request
<1> HIDE DEF c1, c2
<1>6. nrc \in InOrderNrc
  <2>1. nrc \in Byte
    BY Codes DEF Gate, Byte
  <2>2. nrc # REQUEST_SEQUENCE_ERROR
    BY DEF Gate, SERVICE_NOT_SUPP_IN_SESS, INCORRECT_LENGTH, REQUEST_SEQUENCE_ERROR,
       SUBFUNCTION_NOT_SUPPORTED, SECURITY_ACCESS_DENIED, CONDITIONS_NOT_CORRECT
  <2> QED
    BY <2>1, <2>2 DEF InOrderNrc
<1>7. d \in Ctx /\ Kept(c2, d)
  <2>1. Suppressed(r) \in BOOLEAN /\ Kept(c2, c2)
    BY <1>3 DEF Suppressed, Kept
  <2>2. [c2 EXCEPT !.suppress_pos_resp = Suppressed(r)] \in Ctx
    BY <1>3, <2>1 DEF Ctx
  <2>3. Kept(c2, [c2 EXCEPT !.suppress_pos_resp = Suppressed(r)])
    BY <1>3, <2>1, <2>2 DEF Ctx, Kept
  <2> QED
    BY <1>3, <2>1, <2>2, <2>3 DEF LatchSuppress
<1>8. handle_request(c2, NoPeriodic, r, a, 0) =
        IF ~Known(r.sid) THEN uds_send_nrc(c2, r.sid, SERVICE_NOT_SUPPORTED)
        ELSE IF nrc # 0 THEN uds_send_nrc(d, r.sid, nrc)
        ELSE execute_handler(e, d, NoPeriodic, r, a, 0)
  BY DEF handle_request
<1>9. BUSY_REPEAT_REQUEST \in InOrderNrc /\ SERVICE_NOT_SUPPORTED \in InOrderNrc
  BY Codes DEF InOrderNrc, BUSY_REPEAT_REQUEST, SERVICE_NOT_SUPPORTED, REQUEST_SEQUENCE_ERROR
<1> HIDE DEF d, nrc, e
<1>10. Kept(c, d)
  BY <1>3, <1>7, KeptKept
<1>11. ASSUME NEW b \in Ctx, Kept(c, b), NEW n \in InOrderNrc, o = uds_send_nrc(b, r.sid, n)
       PROVE  Replied(o, Neg(r.sid, n)) /\ Kept(c, o.ctx)
  <2>1. n \in Byte
    BY DEF InOrderNrc
  <2> HIDE DEF o
  <2> QED
    BY <1>5, <1>11, <2>1, Answering, KeptKept
<1> HIDE DEF o
<1> SUFFICES \/ \E n \in InOrderNrc : Replied(o, Neg(r.sid, n)) /\ Kept(c, o.ctx)
             \/ \E b \in Ctx :
                  /\ Kept(c, b) /\ Known(r.sid)
                  /\ o = execute_handler(e, b, NoPeriodic, r, a, 0)
  BY DEF o, e
<1>12. CASE c.p2_msg_pending
  <2>1. o = uds_send_nrc(c1, r.sid, BUSY_REPEAT_REQUEST)
    BY <1>4, <1>12
  <2> QED
    BY <1>2, <1>9, <1>11, <2>1
<1>13. CASE ~c.p2_msg_pending /\ ~Known(r.sid)
  <2>1. o = uds_send_nrc(c2, r.sid, SERVICE_NOT_SUPPORTED)
    BY <1>4, <1>8, <1>13
  <2> QED
    BY <1>3, <1>9, <1>11, <2>1
<1>14. CASE ~c.p2_msg_pending /\ Known(r.sid) /\ nrc # 0
  <2>1. o = uds_send_nrc(d, r.sid, nrc)
    BY <1>4, <1>8, <1>14
  <2> QED
    BY <1>6, <1>7, <1>10, <1>11, <2>1
<1>15. CASE ~c.p2_msg_pending /\ Known(r.sid) /\ nrc = 0
  <2>1. o = execute_handler(e, d, NoPeriodic, r, a, 0)
    BY <1>4, <1>8, <1>15
  <2> QED
    BY <1>7, <1>10, <1>15, <2>1
<1> QED
  BY <1>12, <1>13, <1>14, <1>15
\* A request of the download reaches the handler of the stack.
LEMMA ReachesCore ==
  ASSUME OwnTransfer, NEW c \in Ctx, NEW r \in Request, NEW a \in Answer,
         r.sid \in {REQUEST_DOWNLOAD, TRANSFER_DATA, TRANSFER_EXIT},
         r.len # 0, ~IsResponse(c, r)
  PROVE  LET o == uds_input_sdu(c, NoPeriodic, r, a, 0)
         IN  \/ \E n \in InOrderNrc : Replied(o, Neg(r.sid, n)) /\ Kept(c, o.ctx)
             \/ \E d \in Ctx : Kept(c, d) /\ o = core_handler(d, NoPeriodic, r, a, 0)
<1> DEFINE o == uds_input_sdu(c, NoPeriodic, r, a, 0)
           e == find_service(r.sid)
<1>1. r.sid \notin {TESTER_PRESENT, SESSION_CONTROL, SECURITY_ACCESS}
  BY DEF REQUEST_DOWNLOAD, TRANSFER_DATA, TRANSFER_EXIT, TESTER_PRESENT,
         SESSION_CONTROL, SECURITY_ACCESS
<1>2. \/ \E n \in InOrderNrc : Replied(o, Neg(r.sid, n)) /\ Kept(c, o.ctx)
      \/ \E d \in Ctx : /\ Kept(c, d) /\ Known(r.sid)
                        /\ o = execute_handler(e, d, NoPeriodic, r, a, 0)
  BY <1>1, Reaches
<1> HIDE DEF o
<1>3. CASE \E n \in InOrderNrc : Replied(o, Neg(r.sid, n)) /\ Kept(c, o.ctx)
  BY <1>3 DEF o
<1>4. ASSUME NEW d \in Ctx, Kept(c, d), Known(r.sid),
             o = execute_handler(e, d, NoPeriodic, r, a, 0)
      PROVE  o = core_handler(d, NoPeriodic, r, a, 0)
  <2> DEFINE h == core_handler(d, NoPeriodic, r, a, 0)
  <2>1. Services(r.sid) = {}
    BY DEF OwnTransfer, Services
  <2>2. \E f \in core_services : f.sid = r.sid
    BY <1>4, <2>1 DEF Known, Services
  <2>3. e \in core_services
    BY <2>1, <2>2 DEF find_service
  <2>4. ~e.user
    BY <2>3 DEF core_services, CoreService
  <2>5. 0 \in Time
    BY TimingAssumption DEF Time
  <2>6. Quiet(d, r.sid, h)
    BY <1>1, <2>2, <2>5, CoreCases
  <2> HIDE DEF h, e
  <2>7. h.ret = "done"
    BY <2>6 DEF Quiet, Calm
  <2>8. execute_handler(e, d, NoPeriodic, r, a, 0) = h
    BY <2>4, <2>7 DEF execute_handler, h
  <2> QED
    BY <1>4, <2>8 DEF h
<1> QED
  BY <1>2, <1>3, <1>4 DEF o

\* Which handler that is.
LEMMA DownloadHandlers ==
  ASSUME NEW c, NEW r, NEW a
  PROVE  /\ r.sid = REQUEST_DOWNLOAD =>
              core_handler(c, NoPeriodic, r, a, 0) = handle_request_download(c, r, a, 0)
         /\ r.sid = TRANSFER_DATA =>
              core_handler(c, NoPeriodic, r, a, 0) = handle_transfer_data(c, r, a, 0)
         /\ r.sid = TRANSFER_EXIT =>
              core_handler(c, NoPeriodic, r, a, 0) = handle_request_transfer_exit(c, r, a, 0)
BY DEF core_handler, SESSION_CONTROL, ECU_RESET, CLEAR_DTC, READ_DTC_INFO, READ_DATA_BY_ID,
      READ_MEM_BY_ADDR, SECURITY_ACCESS, COMM_CONTROL, AUTHENTICATION,
      READ_BY_PER_ID, WRITE_DATA_BY_ID, IO_CONTROL_BY_ID, ROUTINE_CONTROL,
      REQUEST_DOWNLOAD, REQUEST_UPLOAD, TRANSFER_DATA, TRANSFER_EXIT,
      WRITE_MEM_BY_ADDR, TESTER_PRESENT, CONTROL_DTC_SETTING

\* What the application of this network may refuse with.
LEMMA Refusal ==
  ASSUME NEW res \in Results
  PROVE  /\ res \in Int
         /\ res < 0 => NrcOf(res) = CONDITIONS_NOT_CORRECT /\ res # 0 /\ res # UDS_PENDING
         /\ ~(res < 0) => res = 0 \/ res = UDS_PENDING
         /\ CONDITIONS_NOT_CORRECT \in InOrderNrc
<1>1. NrcOf(-CONDITIONS_NOT_CORRECT) = CONDITIONS_NOT_CORRECT
  BY DEF NrcOf, CONDITIONS_NOT_CORRECT
<1> QED
  BY <1>1, Codes DEF Results, CONDITIONS_NOT_CORRECT, UDS_PENDING, InOrderNrc,
     REQUEST_SEQUENCE_ERROR, Byte

\* 0x34: the counter is reset or stays.
LEMMA EcuOpens ==
  ASSUME OwnTransfer, NEW c \in Ctx, NEW r \in Request, NEW a \in Answer, a.res \in Results,
         r.sid = REQUEST_DOWNLOAD, r.len # 0, ~IsResponse(c, r)
  PROVE  LET o == uds_input_sdu(c, NoPeriodic, r, a, 0)
         IN  /\ o.ctx \in Ctx /\ o.ctx.flash_sequence \in {0, c.flash_sequence}
             /\ o.ctx.pending_sid = c.pending_sid
             /\ o.ctx.p2_msg_pending => c.p2_msg_pending
             /\ \A i \in DOMAIN o.out :
                  \/ o.out[i] \in {Call(REQUEST_DOWNLOAD, 0), Pos(REQUEST_DOWNLOAD)}
                  \/ \E n \in InOrderNrc : o.out[i] = Neg(REQUEST_DOWNLOAD, n)
<1> DEFINE o == uds_input_sdu(c, NoPeriodic, r, a, 0)
           sid == REQUEST_DOWNLOAD
           fn == "fn_request_download"
<1>1. \/ \E n \in InOrderNrc : Replied(o, Neg(sid, n)) /\ Kept(c, o.ctx)
      \/ \E d \in Ctx : Kept(c, d) /\ o = handle_request_download(d, r, a, 0)
  BY ReachesCore, DownloadHandlers
<1> HIDE DEF o
<1>2. CASE \E n \in InOrderNrc : Replied(o, Neg(sid, n)) /\ Kept(c, o.ctx)
  BY <1>2 DEF Replied, Kept, o
<1>3. ASSUME NEW d \in Ctx, Kept(c, d), NEW n \in InOrderNrc, o = uds_send_nrc(d, sid, n)
      PROVE  Replied(o, Neg(sid, n)) /\ Kept(c, o.ctx)
  BY <1>3, Answering, KeptKept, Codes DEF InOrderNrc
<1>4. ASSUME NEW d \in Ctx, Kept(c, d), o = handle_request_download(d, r, a, 0)
      PROVE  \/ \E n \in InOrderNrc : Replied(o, Neg(sid, n)) /\ Kept(c, o.ctx)
             \/ fn \in Callbacks /\ o = StartTransfer(d, sid, fn, a)
  <2>1. {INCORRECT_LENGTH, REQUEST_OUT_OF_RANGE, CONDITIONS_NOT_CORRECT} \subseteq InOrderNrc
    BY Codes DEF InOrderNrc, INCORRECT_LENGTH, REQUEST_OUT_OF_RANGE, CONDITIONS_NOT_CORRECT,
       REQUEST_SEQUENCE_ERROR
  <2>2. \/ \E n \in InOrderNrc : o = uds_send_nrc(d, sid, n)
        \/ fn \in Callbacks /\ o = StartTransfer(d, sid, fn, a)
    BY <1>4, <2>1 DEF handle_request_download, StartTransfer
  <2> QED
    BY <1>3, <1>4, <2>2
<1>5. ASSUME NEW d \in Ctx, Kept(c, d), fn \in Callbacks, o = StartTransfer(d, sid, fn, a)
      PROVE  /\ o.ctx \in Ctx /\ o.ctx.flash_sequence \in {0, c.flash_sequence}
             /\ o.ctx.pending_sid = c.pending_sid
             /\ o.ctx.p2_msg_pending => c.p2_msg_pending
             /\ \A i \in DOMAIN o.out :
                  \/ o.out[i] \in {Call(sid, 0), Pos(sid)}
                  \/ \E n \in InOrderNrc : o.out[i] = Neg(sid, n)
  <2> DEFINE e == [d EXCEPT !.flash_sequence = 0]
             x == uds_send_nrc(d, sid, CONDITIONS_NOT_CORRECT)
             y == uds_send_response(e, sid, 6)
  <2>1. 0 \in Byte /\ sid \in Byte /\ CONDITIONS_NOT_CORRECT \in InOrderNrc
    BY Codes, Refusal DEF Byte
  <2>2. /\ e \in Ctx /\ e.flash_sequence = 0 /\ e.pending_sid = d.pending_sid
        /\ e.p2_msg_pending = d.p2_msg_pending
    BY <2>1 DEF Ctx
  <2>3. Replied(x, Neg(sid, CONDITIONS_NOT_CORRECT)) /\ Kept(d, x.ctx)
    BY <2>1, Answering DEF InOrderNrc
  <2>4. o = Prepend(Call(sid, 0), IF a.res < 0 THEN x ELSE y)
    BY <1>5, Refusal DEF StartTransfer
  <2> HIDE DEF e
  <2>5. Replied(y, Pos(sid)) /\ Kept(e, y.ctx)
    BY <2>1, <2>2, Answering
  <2> HIDE DEF x, y
  <2>6. CASE a.res < 0
    <3>1. Performed(o, Call(sid, 0), Neg(sid, CONDITIONS_NOT_CORRECT)) /\ o.ctx = x.ctx
      BY <2>1, <2>3, <2>4, <2>6, Performing
    <3> QED
      BY <1>5, <2>1, <2>3, <3>1 DEF Performed, Kept
  <2>7. CASE ~(a.res < 0)
    <3>1. Performed(o, Call(sid, 0), Pos(sid)) /\ o.ctx = y.ctx
      BY <2>1, <2>4, <2>5, <2>7, Performing
    <3> QED
      BY <1>5, <2>2, <2>5, <3>1 DEF Performed, Kept
  <2> QED
    BY <2>6, <2>7
<1> QED
  BY <1>1, <1>2, <1>4, <1>5 DEF Replied, Kept, o
\* 0x36: a block that is refused unseen, refused by the application, taken,
\* recognised as a repetition, or out of order.
LEMMA EcuTransfers ==
  ASSUME OwnTransfer, NEW c \in Ctx, NEW r \in Request, NEW a \in Answer, a.res \in Results,
         r.sid = TRANSFER_DATA, r.len = 3, ~IsResponse(c, r)
  PROVE  LET o == uds_input_sdu(c, NoPeriodic, r, a, 0)
             call == Call(TRANSFER_DATA, r.b1)
         IN  /\ o \in OutcomeType /\ o.ret = "done" /\ o.ctx.pending_sid = c.pending_sid
             /\ o.ctx.p2_msg_pending => c.p2_msg_pending
             /\ \/ /\ \E n \in InOrderNrc : Replied(o, Neg(TRANSFER_DATA, n))
                   /\ o.ctx.flash_sequence = c.flash_sequence
                \/ /\ a.res < 0 /\ o.ctx.flash_sequence = c.flash_sequence
                   /\ \E n \in InOrderNrc : Performed(o, call, Neg(TRANSFER_DATA, n))
                \/ /\ ~(a.res < 0) /\ r.b1 = ExpectedBlock(c) /\ o.ctx.flash_sequence = r.b1
                   /\ Performed(o, call, Pos(TRANSFER_DATA))
                \/ /\ IsReplay(c, r.b1) /\ o.ctx.flash_sequence = c.flash_sequence
                   /\ Replied(o, Pos(TRANSFER_DATA))
                \/ /\ r.b1 # ExpectedBlock(c) /\ ~IsReplay(c, r.b1)
                   /\ o.ctx.flash_sequence = c.flash_sequence
                   /\ Replied(o, Neg(TRANSFER_DATA, REQUEST_SEQUENCE_ERROR))
<1> DEFINE o == uds_input_sdu(c, NoPeriodic, r, a, 0)
           sid == TRANSFER_DATA
           call == Call(sid, r.b1)
<1>1. \/ \E n \in InOrderNrc : Replied(o, Neg(sid, n)) /\ Kept(c, o.ctx)
      \/ \E d \in Ctx : Kept(c, d) /\ o = handle_transfer_data(d, r, a, 0)
  BY ReachesCore, DownloadHandlers
<1> HIDE DEF o
<1> SUFFICES
      /\ o \in OutcomeType /\ o.ret = "done" /\ o.ctx.pending_sid = c.pending_sid
      /\ o.ctx.p2_msg_pending => c.p2_msg_pending
      /\ \/ /\ \E n \in InOrderNrc : Replied(o, Neg(sid, n))
            /\ o.ctx.flash_sequence = c.flash_sequence
         \/ /\ a.res < 0 /\ o.ctx.flash_sequence = c.flash_sequence
            /\ \E n \in InOrderNrc : Performed(o, call, Neg(sid, n))
         \/ /\ ~(a.res < 0) /\ r.b1 = ExpectedBlock(c) /\ o.ctx.flash_sequence = r.b1
            /\ Performed(o, call, Pos(sid))
         \/ /\ IsReplay(c, r.b1) /\ o.ctx.flash_sequence = c.flash_sequence
            /\ Replied(o, Pos(sid))
         \/ /\ r.b1 # ExpectedBlock(c) /\ ~IsReplay(c, r.b1)
            /\ o.ctx.flash_sequence = c.flash_sequence
            /\ Replied(o, Neg(sid, REQUEST_SEQUENCE_ERROR))
  BY DEF o
<1>2. CASE \E n \in InOrderNrc : Replied(o, Neg(sid, n)) /\ Kept(c, o.ctx)
  BY <1>2 DEF Replied, Kept
<1>3. ASSUME NEW d \in Ctx, Kept(c, d), o = handle_transfer_data(d, r, a, 0)
      PROVE  /\ o \in OutcomeType /\ o.ret = "done" /\ o.ctx.pending_sid = c.pending_sid
             /\ o.ctx.p2_msg_pending => c.p2_msg_pending
             /\ \/ /\ \E n \in InOrderNrc : Replied(o, Neg(sid, n))
                   /\ o.ctx.flash_sequence = c.flash_sequence
                \/ /\ a.res < 0 /\ o.ctx.flash_sequence = c.flash_sequence
                   /\ \E n \in InOrderNrc : Performed(o, call, Neg(sid, n))
                \/ /\ ~(a.res < 0) /\ r.b1 = ExpectedBlock(c) /\ o.ctx.flash_sequence = r.b1
                   /\ Performed(o, call, Pos(sid))
                \/ /\ IsReplay(c, r.b1) /\ o.ctx.flash_sequence = c.flash_sequence
                   /\ Replied(o, Pos(sid))
                \/ /\ r.b1 # ExpectedBlock(c) /\ ~IsReplay(c, r.b1)
                   /\ o.ctx.flash_sequence = c.flash_sequence
                   /\ Replied(o, Neg(sid, REQUEST_SEQUENCE_ERROR))
  <2> DEFINE e == [d EXCEPT !.flash_sequence = r.b1]
             x == uds_send_nrc(d, sid, CONDITIONS_NOT_CORRECT)
             y == uds_send_response(e, sid, 2)
             z == uds_send_response(d, sid, 2)
             w == uds_send_nrc(d, sid, REQUEST_SEQUENCE_ERROR)
  <2>1. r.b1 \in Byte /\ sid \in Byte /\ CONDITIONS_NOT_CORRECT \in InOrderNrc
        /\ CONDITIONS_NOT_CORRECT \in Byte /\ REQUEST_SEQUENCE_ERROR \in Byte
    BY Codes, Refusal DEF Request
  <2>2. /\ e \in Ctx /\ e.flash_sequence = r.b1 /\ e.pending_sid = d.pending_sid
        /\ e.p2_msg_pending = d.p2_msg_pending
    BY <2>1 DEF Ctx
  <2>3. /\ Replied(x, Neg(sid, CONDITIONS_NOT_CORRECT)) /\ Kept(d, x.ctx)
        /\ Replied(w, Neg(sid, REQUEST_SEQUENCE_ERROR)) /\ Kept(d, w.ctx)
        /\ Replied(z, Pos(sid)) /\ Kept(d, z.ctx)
    BY <2>1, Answering
  <2>4. ExpectedBlock(d) = ExpectedBlock(c) /\ IsReplay(d, r.b1) = IsReplay(c, r.b1)
    BY <1>3 DEF ExpectedBlock, IsReplay, Kept
  <2>5. o = IF "fn_transfer_data" \notin Callbacks THEN x
            ELSE IF r.b1 = ExpectedBlock(c) THEN Prepend(call, IF a.res < 0 THEN x ELSE y)
            ELSE IF IsReplay(c, r.b1) THEN z ELSE w
    BY <1>3, <2>4, Refusal DEF handle_transfer_data
  <2> HIDE DEF e
  <2>6. Replied(y, Pos(sid)) /\ Kept(e, y.ctx)
    BY <2>1, <2>2, Answering
  <2> HIDE DEF x, y, z, w
  <2>7. CASE "fn_transfer_data" \in Callbacks /\ r.b1 = ExpectedBlock(c) /\ a.res < 0
    <3>1. Performed(o, call, Neg(sid, CONDITIONS_NOT_CORRECT)) /\ o.ctx = x.ctx
      BY <2>1, <2>3, <2>5, <2>7, Performing
    <3> QED
      BY <1>3, <2>1, <2>3, <2>7, <3>1 DEF Performed, Kept
  <2>8. CASE "fn_transfer_data" \in Callbacks /\ r.b1 = ExpectedBlock(c) /\ ~(a.res < 0)
    <3>1. Performed(o, call, Pos(sid)) /\ o.ctx = y.ctx
      BY <2>1, <2>5, <2>6, <2>8, Performing
    <3> QED
      BY <1>3, <2>2, <2>6, <2>8, <3>1 DEF Performed, Kept
  <2>9. CASE "fn_transfer_data" \notin Callbacks
    BY <1>3, <2>1, <2>3, <2>5, <2>9 DEF Replied, Kept
  <2>10. CASE "fn_transfer_data" \in Callbacks /\ r.b1 # ExpectedBlock(c)
    BY <1>3, <2>3, <2>5, <2>10 DEF Replied, Kept
  <2> QED
    BY <2>7, <2>8, <2>9, <2>10
<1> QED
  BY <1>1, <1>2, <1>3

\* 0x37: a positive response means that the application has closed.
LEMMA EcuCloses ==
  ASSUME OwnTransfer, NEW c \in Ctx, NEW r \in Request, NEW a \in Answer, a.res \in Results,
         r.sid = TRANSFER_EXIT, r.len # 0, ~IsResponse(c, r)
  PROVE  LET o == uds_input_sdu(c, NoPeriodic, r, a, 0)
         IN  /\ Kept(c, o.ctx)
             /\ \/ \E n \in InOrderNrc : Replied(o, Neg(TRANSFER_EXIT, n))
                \/ \E n \in InOrderNrc :
                     Performed(o, Call(TRANSFER_EXIT, 0), Neg(TRANSFER_EXIT, n))
                \/ Performed(o, Call(TRANSFER_EXIT, 0), Pos(TRANSFER_EXIT))
<1> DEFINE o == uds_input_sdu(c, NoPeriodic, r, a, 0)
           sid == TRANSFER_EXIT
<1>1. \/ \E n \in InOrderNrc : Replied(o, Neg(sid, n)) /\ Kept(c, o.ctx)
      \/ \E d \in Ctx : Kept(c, d) /\ o = handle_request_transfer_exit(d, r, a, 0)
  BY ReachesCore, DownloadHandlers
<1> HIDE DEF o
<1>2. ASSUME NEW d \in Ctx, Kept(c, d), o = handle_request_transfer_exit(d, r, a, 0)
      PROVE  /\ Kept(c, o.ctx)
             /\ \/ \E n \in InOrderNrc : Replied(o, Neg(sid, n))
                \/ \E n \in InOrderNrc : Performed(o, Call(sid, 0), Neg(sid, n))
                \/ Performed(o, Call(sid, 0), Pos(sid))
  <2> DEFINE x == uds_send_nrc(d, sid, CONDITIONS_NOT_CORRECT)
             y == uds_send_response(d, sid, 1)
  <2>1. 0 \in Byte /\ sid \in Byte /\ CONDITIONS_NOT_CORRECT \in InOrderNrc
        /\ CONDITIONS_NOT_CORRECT \in Byte
    BY Codes, Refusal DEF Byte
  <2>2. /\ Replied(x, Neg(sid, CONDITIONS_NOT_CORRECT)) /\ Kept(c, x.ctx)
        /\ Replied(y, Pos(sid)) /\ Kept(c, y.ctx)
    BY <1>2, <2>1, Answering, KeptKept
  <2>3. \/ o = x \/ o = Prepend(Call(sid, 0), x) \/ o = Prepend(Call(sid, 0), y)
    BY <1>2, Refusal DEF handle_request_transfer_exit
  <2> HIDE DEF x, y
  <2> QED
    BY <2>1, <2>2, <2>3, Performing
<1> QED
  BY <1>1, <1>2 DEF o

\* A message that is none of the services is refused.
LEMMA EcuRefuses ==
  ASSUME OwnTransfer, NEW c \in Ctx, NEW m \in Packet, Refuses(m), NEW a \in Answer,
         c.pending_sid \in {0, ROUTINE_CONTROL}
  PROVE  LET o == uds_input_sdu(c, NoPeriodic, m.sdu, a, 0)
         IN  /\ Kept(c, o.ctx)
             /\ \E n \in InOrderNrc : Replied(o, Neg(SERVICE_NOT_SUPP_IN_SESS, n))
<1> DEFINE r == m.sdu
<1>1. r \in Request
  BY DEF Packet
<1>2. r.sid = SERVICE_NOT_SUPP_IN_SESS /\ r.len # 0 /\ r.b1 # ROUTINE_CONTROL
  BY DEF Refuses, StepSids, SERVICE_NOT_SUPP_IN_SESS, ROUTINE_CONTROL, REQUEST_DOWNLOAD,
     TRANSFER_DATA, TRANSFER_EXIT
<1>3. ~IsResponse(c, r)
  <2>1. PositiveSid(ROUTINE_CONTROL) = 113
    BY DEF PositiveSid, ROUTINE_CONTROL
  <2> QED
    BY <1>2, <2>1 DEF IsResponse, SERVICE_NOT_SUPP_IN_SESS
<1>4. ~Known(r.sid)
  <2>1. (127 \div 64) % 2 = 1
    OBVIOUS
  <2>2. \A e \in UserServices : e.sid # 127
    BY <2>1 DEF OwnTransfer
  <2>3. \A e \in core_services : e.sid # 127
    BY DEF core_services, CoreService, SESSION_CONTROL, ECU_RESET, CLEAR_DTC, READ_DTC_INFO,
      READ_DATA_BY_ID, READ_MEM_BY_ADDR, SECURITY_ACCESS, COMM_CONTROL, AUTHENTICATION,
      READ_BY_PER_ID, WRITE_DATA_BY_ID, IO_CONTROL_BY_ID, ROUTINE_CONTROL,
      REQUEST_DOWNLOAD, REQUEST_UPLOAD, TRANSFER_DATA, TRANSFER_EXIT,
      WRITE_MEM_BY_ADDR, TESTER_PRESENT, CONTROL_DTC_SETTING
  <2> QED
    BY <1>2, <2>2, <2>3 DEF Known, SERVICE_NOT_SUPP_IN_SESS
<1>5. r.sid # TESTER_PRESENT
  BY <1>2 DEF SERVICE_NOT_SUPP_IN_SESS, TESTER_PRESENT
<1> HIDE DEF r
<1>6. \E n \in InOrderNrc : /\ Replied(uds_input_sdu(c, NoPeriodic, r, a, 0), Neg(r.sid, n))
                            /\ Kept(c, uds_input_sdu(c, NoPeriodic, r, a, 0).ctx)
  BY <1>1, <1>2, <1>3, <1>4, <1>5, Reaches
<1> QED
  BY <1>2, <1>6 DEF r

\* 0x31: the application erases, at once or later.
LEMMA EcuErases ==
  ASSUME NEW c \in Ctx, NEW r \in Request, NEW a \in Answer, a.res \in Results,
         r.sid = ROUTINE_CONTROL, r.len # 0, ~IsResponse(c, r)
  PROVE  LET o == uds_input_sdu(c, NoPeriodic, r, a, 0)
         IN  /\ o.ctx \in Ctx /\ o.ctx.flash_sequence = c.flash_sequence
             /\ \/ /\ o.ctx.pending_sid = c.pending_sid
                   /\ o.ctx.p2_msg_pending => c.p2_msg_pending
                \/ o.ctx.pending_sid = ROUTINE_CONTROL
             /\ \A i \in DOMAIN o.out :
                  \/ o.out[i] \in {Call(ROUTINE_CONTROL, 0), Pos(ROUTINE_CONTROL)}
                  \/ \E n \in InOrderNrc : o.out[i] = Neg(ROUTINE_CONTROL, n)
<1> DEFINE o == uds_input_sdu(c, NoPeriodic, r, a, 0)
           sid == ROUTINE_CONTROL
           e == find_service(sid)
<1>1. \/ \E n \in InOrderNrc : Replied(o, Neg(sid, n)) /\ Kept(c, o.ctx)
      \/ \E d \in Ctx : Kept(c, d) /\ o = execute_handler(e, d, NoPeriodic, r, a, 0)
  BY Reaches DEF ROUTINE_CONTROL, TESTER_PRESENT
<1>2. e.user
  <2>1. Services(sid) # {}
    BY NetworkAssumption DEF Services
  <2>2. e \in UserServices
    BY <2>1 DEF find_service, Services
  <2> QED
    BY <2>2, ConfigAssumption
<1> HIDE DEF o, e
<1> SUFFICES
      /\ o.ctx \in Ctx /\ o.ctx.flash_sequence = c.flash_sequence
      /\ \/ /\ o.ctx.pending_sid = c.pending_sid
            /\ o.ctx.p2_msg_pending => c.p2_msg_pending
         \/ o.ctx.pending_sid = sid
      /\ \A i \in DOMAIN o.out : \/ o.out[i] \in {Call(sid, 0), Pos(sid)}
                                 \/ \E n \in InOrderNrc : o.out[i] = Neg(sid, n)
  BY DEF o
<1>3. CASE \E n \in InOrderNrc : Replied(o, Neg(sid, n)) /\ Kept(c, o.ctx)
  BY <1>3 DEF Replied, Kept
<1>4. ASSUME NEW d \in Ctx, Kept(c, d), o = execute_handler(e, d, NoPeriodic, r, a, 0)
      PROVE  /\ o.ctx \in Ctx /\ o.ctx.flash_sequence = c.flash_sequence
             /\ \/ /\ o.ctx.pending_sid = c.pending_sid
                   /\ o.ctx.p2_msg_pending => c.p2_msg_pending
                \/ o.ctx.pending_sid = sid
             /\ \A i \in DOMAIN o.out : \/ o.out[i] \in {Call(sid, 0), Pos(sid)}
                                        \/ \E n \in InOrderNrc : o.out[i] = Neg(sid, n)
  <2> DEFINE x == uds_send_nrc(d, sid, CONDITIONS_NOT_CORRECT)
             y == uds_send_response(d, sid, a.res + 1)
             w == uds_send_nrc(d, sid, RESPONSE_PENDING)
             f == [w.ctx EXCEPT !.p2_msg_pending = TRUE, !.p2_star_active = TRUE,
                                !.p2_timer_start = 0, !.pending_sid = sid]
             h == user_handler(d, r, a, 0)
  <2>1. /\ 0 \in Byte /\ sid \in Byte /\ CONDITIONS_NOT_CORRECT \in InOrderNrc
        /\ CONDITIONS_NOT_CORRECT \in Byte /\ RESPONSE_PENDING \in InOrderNrc
        /\ RESPONSE_PENDING \in Byte
    BY Codes, Refusal DEF Byte, InOrderNrc, RESPONSE_PENDING, REQUEST_SEQUENCE_ERROR
  <2>2. /\ Replied(x, Neg(sid, CONDITIONS_NOT_CORRECT)) /\ Kept(d, x.ctx)
        /\ Replied(y, Pos(sid)) /\ Kept(d, y.ctx)
        /\ Replied(w, Neg(sid, RESPONSE_PENDING)) /\ Kept(d, w.ctx)
    BY <2>1, Answering
  <2>3. o = IF h.ret = "pending" THEN AwaitApplication(h.ctx, r, 0, h.out) ELSE h
    BY <1>2, <1>4 DEF execute_handler
  <2>4. CASE a.res = UDS_PENDING
    <3>1. h = [ctx |-> d, out |-> <<Call(sid, 0)>>, ret |-> "pending"]
      BY <2>4 DEF user_handler
    <3>2. o = AwaitApplication(d, r, 0, <<Call(sid, 0)>>)
      <4>1. h.ret = "pending" /\ h.ctx = d /\ h.out = <<Call(sid, 0)>>
        BY <3>1
      <4> HIDE DEF h
      <4> QED
        BY <2>3, <4>1
    <3>3. 0 \in Time
      BY TimingAssumption DEF Time
    <3>8. o.ctx = f /\ o.out = <<Call(sid, 0)>> \o w.out
      <4>1. AwaitApplication(d, r, 0, <<Call(sid, 0)>>) =
              [ctx |-> f, out |-> <<Call(sid, 0)>> \o w.out, ret |-> "pending"]
        BY DEF AwaitApplication
      <4> HIDE DEF f, w
      <4> QED
        BY <3>2, <4>1
    <3> HIDE DEF w, h
    <3>4. w.ctx \in Ctx /\ w.ctx.flash_sequence = d.flash_sequence
      BY <2>2 DEF Kept
    <3>5. f \in Ctx /\ f.flash_sequence = d.flash_sequence /\ f.pending_sid = sid
      BY <2>1, <3>3, <3>4 DEF Ctx
    <3> DEFINE v == Prepend(Call(sid, 0), w)
    <3>6. Performed(v, Call(sid, 0), Neg(sid, RESPONSE_PENDING))
      BY <2>1, <2>2, Performing
    <3>7. v.out = <<Call(sid, 0)>> \o w.out
      BY <2>2 DEF Prepend, Replied, OutcomeType
    <3> HIDE DEF f, v
    <3> QED
      BY <1>4, <2>1, <3>5, <3>6, <3>7, <3>8, ZenonT(40) DEF Performed, Kept
  <2>5. CASE a.res # UDS_PENDING
    <3>1. h = Prepend(Call(sid, 0), IF a.res < 0 THEN x ELSE y)
      BY <2>5, Refusal DEF user_handler
    <3> HIDE DEF x, y, h
    <3>2. /\ \/ Performed(h, Call(sid, 0), Neg(sid, CONDITIONS_NOT_CORRECT))
             \/ Performed(h, Call(sid, 0), Pos(sid))
          /\ Kept(d, h.ctx)
      BY <2>1, <2>2, <3>1, Performing
    <3>3. o = h
      BY <2>3, <3>2 DEF Performed
    <3> QED
      BY <1>4, <2>1, <3>2, <3>3 DEF Performed, Kept
  <2> QED
    BY <2>4, <2>5
<1> QED
  BY <1>1, <1>3, <1>4
\* The main loop leaves the counter alone and speaks of the pending request.
LEMMA EcuProcesses ==
  ASSUME NEW c \in Ctx
  PROVE  LET o == uds_process(c, 0)
         IN  /\ Kept(c, o.ctx)
             /\ \A i \in DOMAIN o.out : \E n \in InOrderNrc : o.out[i] = Neg(c.pending_sid, n)
<1> DEFINE o == uds_process(c, 0)
           d == revert_session(c, 0)
           x == uds_send_nrc(d, d.pending_sid, CONDITIONS_NOT_CORRECT)
           y == uds_send_nrc(d, d.pending_sid, RESPONSE_PENDING)
           e == [x.ctx EXCEPT !.rcrrp_count = 0]
           f == [y.ctx EXCEPT !.rcrrp_count = (@ + 1) % RCRRP_MOD,
                              !.p2_star_active = TRUE, !.p2_timer_start = 0]
<1>1. 0 \in Time
  BY TimingAssumption DEF Time
<1>2. d \in Ctx /\ d.flash_sequence = c.flash_sequence
  <2>1. DEFAULT \in Sessions /\ 0 \in 0 .. 63
    BY DEF Sessions, DEFAULT
  <2> QED
    BY <2>1 DEF revert_session, Ctx
<1>3. \/ o = Outcome(d, <<>>) \/ o = [x EXCEPT !.ctx = e] \/ o = [y EXCEPT !.ctx = f]
  BY DEF uds_process, abort_pending, repeat_pending
<1> HIDE DEF d
<1>4. d.pending_sid \in Byte /\ CONDITIONS_NOT_CORRECT \in Byte /\ RESPONSE_PENDING \in Byte
  BY <1>2, Codes DEF Ctx
<1>5. /\ x \in OutcomeType /\ x.ctx \in Ctx /\ x.ctx.flash_sequence = c.flash_sequence
      /\ y \in OutcomeType /\ y.ctx \in Ctx /\ y.ctx.flash_sequence = c.flash_sequence
  BY <1>2, <1>4, Answering DEF Replied, Kept
<1> HIDE DEF x, y
<1>6. e.flash_sequence = c.flash_sequence /\ f.flash_sequence = c.flash_sequence
  BY <1>5 DEF Ctx
<1> HIDE DEF e, f
<1>7. o.ctx.flash_sequence = c.flash_sequence
  BY <1>2, <1>3, <1>5, <1>6 DEF Outcome, OutcomeType
<1> HIDE DEF o
<1>8. /\ o.ctx.client_cb = c.client_cb /\ o.ctx.pending_sid = c.pending_sid
      /\ o.ctx.p2_msg_pending => c.p2_msg_pending
      /\ \A i \in DOMAIN o.out : \E n \in {CONDITIONS_NOT_CORRECT, RESPONSE_PENDING} :
                                    o.out[i] = Neg(c.pending_sid, n)
  BY <1>1, ProcessInOrder DEF o
<1>9. o.ctx \in Ctx
  BY <1>1, SafeProcess DEF Safe, OutcomeType, o
<1>10. CONDITIONS_NOT_CORRECT \in InOrderNrc /\ RESPONSE_PENDING \in InOrderNrc
  BY Codes DEF InOrderNrc, CONDITIONS_NOT_CORRECT, RESPONSE_PENDING, REQUEST_SEQUENCE_ERROR
<1> QED
  BY <1>7, <1>8, <1>9, <1>10 DEF Kept, o

-----------------------------------------------------------------------------
(* Messages between the ends *)

\* A call sends nothing, or one of the things it has said.
LEMMA SaidResponses ==
  ASSUME NEW events, NEW r
  PROVE  \/ Responses(events, r) = <<>>
         \/ \E i \in Spoken(events) : Responses(events, r) = <<Response(events[i], r)>>
<1>1. CASE Spoken(events) = {}
  BY <1>1 DEF Responses, Message
<1>2. CASE Spoken(events) # {}
  <2> DEFINE j == CHOOSE i \in Spoken(events) : TRUE
  <2>1. j \in Spoken(events)
    BY <1>2
  <2>2. Message(events) = <<events[j]>>
    BY <1>2 DEF Message
  <2> HIDE DEF j
  <2>3. Message(events) # <<>> /\ Message(events)[1] = events[j]
    BY <2>2
  <2>4. Responses(events, r) = <<Response(events[j], r)>>
    BY <2>3 DEF Responses
  <2> QED
    BY <2>1, <2>4
<1> QED
  BY <1>1, <1>2

\* SDUs made of bytes are requests.
LEMMA SduType ==
  ASSUME NEW sid \in Byte, NEW b1 \in Byte, NEW b2 \in Byte, NEW len \in Nat
  PROVE  /\ Sdu(sid, b1, b2, len) \in Request
         /\ Sdu(sid, b1, b2, len).sid = sid /\ Sdu(sid, b1, b2, len).b1 = b1
         /\ Sdu(sid, b1, b2, len).b2 = b2 /\ Sdu(sid, b1, b2, len).len = len
<1>1. <<>> \in Seq(Nat) /\ 0 \in Nat
  OBVIOUS
<1> QED
  BY <1>1 DEF Sdu, Request

\* The message of a negative response.
LEMMA NegPacket ==
  ASSUME NEW sid \in Byte, NEW n \in Byte, NEW r
  PROVE  LET m == Response(Neg(sid, n), r)
         IN  /\ m \in Packet /\ m.sdu.sid = SERVICE_NOT_SUPP_IN_SESS
             /\ m.sdu.b1 = sid /\ m.sdu.b2 = n /\ m.sdu.len = 3
<1> DEFINE u == Sdu(SERVICE_NOT_SUPP_IN_SESS, sid, n, 3)
<1>1. /\ u \in Request /\ u.sid = SERVICE_NOT_SUPP_IN_SESS
      /\ u.b1 = sid /\ u.b2 = n /\ u.len = 3
  <2>1. SERVICE_NOT_SUPP_IN_SESS \in Byte /\ 3 \in Nat
    BY Codes
  <2> QED
    BY <2>1, SduType
<1>2. Response(Neg(sid, n), r) = [sdu |-> u, block |-> 0]
  BY DEF Response, Neg
<1> HIDE DEF u
<1> QED
  BY <1>1, <1>2 DEF Packet

\* The message of a positive response.
LEMMA PosPacket ==
  ASSUME NEW sid \in StepSids, NEW r \in Request
  PROVE  LET m == Response(Pos(sid), r)
         IN  m \in Packet /\ m.sdu.sid = sid + 64 /\ m.sdu.b1 = r.b1 /\ m.sdu.len = 2
<1> DEFINE u == Sdu(sid + 64, r.b1, 0, 2)
<1>1. sid + 64 \in Byte /\ r.b1 \in Byte /\ 0 \in Byte
  BY DEF StepSids, ROUTINE_CONTROL, REQUEST_DOWNLOAD, TRANSFER_DATA, TRANSFER_EXIT,
     Byte, Request
<1>2. u \in Request /\ u.sid = sid + 64 /\ u.b1 = r.b1 /\ u.len = 2
  BY <1>1, SduType
<1>3. Response(Pos(sid), r) = [sdu |-> u, block |-> 0]
  BY DEF Response, Pos
<1> HIDE DEF u
<1> QED
  BY <1>2, <1>3 DEF Packet

\* Which responses of the ECU fit those under way.
LEMMA FreshNeg ==
  ASSUME NEW sid \in StepSids \cup {SERVICE_NOT_SUPP_IN_SESS}, NEW n \in Byte, NEW r,
         NEW k, NEW done,
         n = REQUEST_SEQUENCE_ERROR /\ REPLAY =>
           sid = TRANSFER_DATA /\ k >= SEQ_MOD /\ k % SEQ_MOD = 0
  PROVE  Fresh(Response(Neg(sid, n), r), k, done)
<1> DEFINE m == Response(Neg(sid, n), r)
<1>1. sid \in Byte
  BY Codes DEF StepSids
<1>2. /\ m \in Packet /\ m.sdu.sid = SERVICE_NOT_SUPP_IN_SESS
      /\ m.sdu.b1 = sid /\ m.sdu.b2 = n /\ m.sdu.len = 3
  BY <1>1, NegPacket
<1> HIDE DEF m
<1>3. Fresh(m, k, done)
  BY <1>2 DEF Fresh, Replies, Acks, Disordered, SERVICE_NOT_SUPP_IN_SESS, TRANSFER_DATA,
     TRANSFER_EXIT
<1> QED
  BY <1>3 DEF m

\* Positive ones: the block acknowledged is the last.
LEMMA FreshPos ==
  ASSUME NEW sid \in StepSids, NEW r \in Request, NEW k, NEW done,
         sid = TRANSFER_DATA => k # 0 /\ r.b1 = k % SEQ_MOD,
         sid = TRANSFER_EXIT => done
  PROVE  Fresh(Response(Pos(sid), r), k, done)
<1> DEFINE m == Response(Pos(sid), r)
<1>1. m \in Packet /\ m.sdu.sid = sid + 64 /\ m.sdu.b1 = r.b1 /\ m.sdu.len = 2
  BY PosPacket
<1> HIDE DEF m
<1>2. Fresh(m, k, done)
  BY <1>1 DEF Fresh, Replies, Acks, AcksLast, Disordered, SERVICE_NOT_SUPP_IN_SESS, StepSids,
     TRANSFER_DATA, TRANSFER_EXIT, ROUTINE_CONTROL, REQUEST_DOWNLOAD
<1> QED
  BY <1>2 DEF m

\* What the ECU says joins the responses under way.
LEMMA AnswersSaid ==
  ASSUME NEW q, NEW k, NEW at, NEW done, Answers(q, k, at, done), NEW events, NEW r,
         \A i \in DOMAIN events :
           events[i].k = "call" \/ Fresh(Response(events[i], r), k, done)
  PROVE  Answers(q \o Responses(events, r), k, at, done)
<1>1. \A i \in Spoken(events) : Fresh(Response(events[i], r), k, done)
  BY DEF Spoken
<1>2. q \o <<>> = q
  BY NoMore DEF Answers
<1> QED
  BY <1>1, <1>2, SaidResponses, AnswersJoin

-----------------------------------------------------------------------------
(* The tester *)

\* A response that is waited for is called back and ends the request; any
\* other is refused, and the request stays.
LEMMA TesterHears ==
  ASSUME OwnTransfer, NEW c \in Ctx, ~c.p2_msg_pending, NEW m \in Packet, Replies(m),
         c.pending_sid \in StepSids \cup {0}
  PROVE  LET o == uds_input_sdu(c, NoPeriodic, m.sdu, TesterAnswer, 0)
         IN  /\ o.ctx \in Ctx /\ ~o.ctx.p2_msg_pending
             /\ o.ctx.pending_sid \in {0, c.pending_sid}
             /\ CallsBack(o.out) =>
                  /\ o.ctx.pending_sid = 0 /\ c.pending_sid # 0
                  /\ \/ m.sdu.sid = c.pending_sid + 64
                     \/ m.sdu.sid = SERVICE_NOT_SUPP_IN_SESS /\ m.sdu.b1 = c.pending_sid
             /\ \A i \in Spoken(o.out) :
                  Response(o.out[i], m.sdu) \in Packet /\ Refuses(Response(o.out[i], m.sdu))
<1> DEFINE a == TesterAnswer
           r == m.sdu
           o == uds_input_sdu(c, NoPeriodic, r, a, 0)
           d == [c EXCEPT !.last_msg_time = 0]
<1>1. r \in Request /\ r.sid \in Byte
  BY DEF Packet, Request
<1>2. a \in Answer /\ a.chain = 0
  BY DEF TesterAnswer, Answer, Byte
<1>3. 0 \in Time
  BY TimingAssumption DEF Time
<1>4. r.sid \in {s + 64 : s \in StepSids} \cup {SERVICE_NOT_SUPP_IN_SESS} /\ r.len # 0
  BY DEF Replies
<1>5. o \in OutcomeType
  BY <1>1, <1>2, <1>3, SafeInput DEF Safe
<1> HIDE DEF a
<1>6. CASE IsResponse(c, r)
  <2>1. CalledBack(d, r, a, o)
    BY <1>1, <1>2, <1>3, <1>4, <1>6, InputCases
  <2> HIDE DEF o, r, d
  <2>2. /\ ~o.ctx.p2_msg_pending /\ o.ctx.pending_sid = 0
        /\ \A i \in DOMAIN o.out : o.out[i] = Cb(r)
    BY <1>2, <2>1 DEF CalledBack
  <2>3. Spoken(o.out) = {}
    BY <2>2 DEF Spoken, Cb
  <2>4. c.pending_sid # 0 /\ (r.sid = PositiveSid(c.pending_sid)
                              \/ (r.sid = SERVICE_NOT_SUPP_IN_SESS /\ r.b1 = c.pending_sid))
    BY <1>6 DEF IsResponse
  <2>5. \A s \in StepSids : PositiveSid(s) = s + 64
    BY DEF StepSids, PositiveSid, ROUTINE_CONTROL, REQUEST_DOWNLOAD, TRANSFER_DATA, TRANSFER_EXIT
  <2> QED
    BY <1>5, <2>2, <2>3, <2>4, <2>5 DEF OutcomeType, o, r, a
<1>7. CASE ~IsResponse(c, r)
  <2>1. (r.sid \div 64) % 2 = 1
    BY <1>4 DEF StepSids, ROUTINE_CONTROL, REQUEST_DOWNLOAD, TRANSFER_DATA, TRANSFER_EXIT,
       SERVICE_NOT_SUPP_IN_SESS
  <2>2. \A e \in UserServices : e.sid # r.sid
    BY <2>1 DEF OwnTransfer
  <2>3. \A e \in core_services : e.sid # r.sid
    BY <1>4 DEF core_services, CoreService, SESSION_CONTROL, ECU_RESET, CLEAR_DTC,
      READ_DTC_INFO, READ_DATA_BY_ID, READ_MEM_BY_ADDR, SECURITY_ACCESS, COMM_CONTROL,
      AUTHENTICATION, READ_BY_PER_ID, WRITE_DATA_BY_ID, IO_CONTROL_BY_ID, ROUTINE_CONTROL,
      REQUEST_DOWNLOAD, REQUEST_UPLOAD, TRANSFER_DATA, TRANSFER_EXIT,
      WRITE_MEM_BY_ADDR, TESTER_PRESENT, CONTROL_DTC_SETTING, StepSids,
      SERVICE_NOT_SUPP_IN_SESS
  <2>4. ~Known(r.sid)
    BY <2>2, <2>3 DEF Known
  <2>5. r.sid # TESTER_PRESENT
    BY <1>4 DEF StepSids, ROUTINE_CONTROL, REQUEST_DOWNLOAD, TRANSFER_DATA, TRANSFER_EXIT,
       SERVICE_NOT_SUPP_IN_SESS, TESTER_PRESENT
  <2> HIDE DEF r
  <2>6. PICK n \in InOrderNrc : Replied(o, Neg(r.sid, n)) /\ Kept(c, o.ctx)
    BY <1>1, <1>2, <1>4, <1>7, <2>4, <2>5, Reaches
  <2> HIDE DEF o
  <2>7. ~CallsBack(o.out)
    BY <2>6 DEF CallsBack, Replied, Neg
  <2>8. /\ Response(Neg(r.sid, n), r) \in Packet
        /\ Refuses(Response(Neg(r.sid, n), r))
    BY <1>1, <1>4, NegPacket DEF Refuses, InOrderNrc
  <2>9. \A i \in Spoken(o.out) : o.out[i] = Neg(r.sid, n)
    BY <2>6 DEF Spoken, Replied
  <2> QED
    BY <1>5, <2>6, <2>7, <2>8, <2>9 DEF Kept, o, r, a
<1> QED
  BY <1>6, <1>7

-----------------------------------------------------------------------------
(* The inductive invariant *)

NetTypes ==
  /\ tester \in Ctx /\ ecu \in Ctx
  /\ app \in [at: 0 .. LAST + 1, does: {"ask", "wait", "done", "abort"}]
  /\ written \in Seq(Nat) /\ closed \in BOOLEAN

\* The tester is at the last block written or at the one after it; the ECU's
\* counter stands at the last block written.
Progress ==
  /\ Len(written) <= BLOCKS
  /\ Len(written) # 0 => Len(written) < app.at
  /\ app.at <= Len(written) + 2 \/ Len(written) = BLOCKS
  /\ app.at > LAST => app.does = "done"
  /\ app.does = "done" => app.at > LAST /\ closed
  /\ closed => Len(written) = BLOCKS
  /\ ecu.flash_sequence = Len(written) % SEQ_MOD

\* Only the tester is a client, and only the erasure is waited for.
Ends ==
  /\ ~tester.p2_msg_pending
  /\ tester.pending_sid # 0 =>
       app.does = "wait" /\ tester.pending_sid = RequestAt(app.at).sdu.sid
  /\ ecu.pending_sid \in {0, ROUTINE_CONTROL}
  /\ ecu.p2_msg_pending => ecu.pending_sid = ROUTINE_CONTROL

NetInv ==
  /\ NetTypes /\ Progress /\ Ends
  /\ Requests(toEcu, Len(written), app.at)
  /\ Answers(toTester, Len(written), app.at, closed)
  /\ REPLAY => RefusedOnlyAtWrap

\* Everything is at its beginning.
LEMMA NetInitInv == NetInit => NetInv
<1> SUFFICES ASSUME NetInit PROVE NetInv
  OBVIOUS
<1>1. BLOCKS \in Nat /\ LAST \in Nat
  BY NetworkAssumption DEF LAST
<1>2. /\ {0} \subseteq Time /\ {0} \subseteq 0 .. RCRRP_MOD - 1
      /\ {0} \subseteq 0 .. ATTEMPTS_MOD - 1 /\ 0 \in Byte /\ 0 \in 0 .. 5 /\ 0 \in 0 .. 63
      /\ DEFAULT \in Sessions
  BY TimingAssumption DEF Time, Byte, DEFAULT, Sessions
<1>3. /\ uds_init(EmptyNvm) \in Ctx /\ uds_init(EmptyNvm).flash_sequence = 0
      /\ uds_init(EmptyNvm).pending_sid = 0 /\ ~uds_init(EmptyNvm).p2_msg_pending
  <2>1. ~EmptyNvm.valid
    BY DEF EmptyNvm
  <2>2. uds_init(EmptyNvm) =
          [active_session |-> DEFAULT, security_level |-> 0,
           last_msg_time |-> 0, p2_timer_start |-> 0,
           p2_msg_pending |-> FALSE, p2_star_active |-> FALSE,
           client_cb |-> FALSE, pending_sid |-> 0, comm_state |-> 0,
           suppress_pos_resp |-> FALSE, flash_sequence |-> 0,
           security_delay_end |-> 0, security_attempts |-> 0, rcrrp_count |-> 0]
    BY <2>1 DEF uds_init
  <2> QED
    BY <1>2, <2>2 DEF Ctx
<1>4. app = [at |-> 0, does |-> "ask"] /\ written = <<>> /\ closed = FALSE
      /\ toEcu = <<>> /\ toTester = <<>>
      /\ tester = uds_init(EmptyNvm) /\ ecu = uds_init(EmptyNvm)
  BY DEF NetInit
<1>5. Len(<<>>) = 0 /\ <<>> \in Seq(Nat) /\ <<>> \in Seq(Packet) /\ DOMAIN <<>> = {}
  OBVIOUS
<1>6. 0 % SEQ_MOD = 0
  BY TimingAssumption
<1>7. NetTypes
  <2>1. 0 \in 0 .. LAST + 1
    BY <1>1
  <2>2. app \in [at: 0 .. LAST + 1, does: {"ask", "wait", "done", "abort"}]
    BY <1>4, <2>1
  <2>3. written \in Seq(Nat)
    BY <1>4, <1>5
  <2> QED
    BY <1>3, <1>4, <2>2, <2>3 DEF NetTypes
<1>8. Progress
  <2>1. app.at = 0 /\ app.does = "ask" /\ Len(written) = 0 /\ ecu.flash_sequence = 0
    BY <1>3, <1>4, <1>5
  <2> QED
    BY <1>1, <1>4, <1>6, <2>1 DEF Progress
<1>9. Ends
  BY <1>3, <1>4 DEF Ends
<1>10. Requests(<<>>, 0, 0) /\ Answers(<<>>, 0, 0, FALSE)
  BY <1>5 DEF Requests, Answers
<1>11. RefusedOnlyAtWrap
  BY <1>4 DEF RefusedOnlyAtWrap
<1>12. Requests(toEcu, Len(written), app.at) /\ Answers(toTester, Len(written), app.at, closed)
  <2>1. app.at = 0 /\ Len(written) = 0
    BY <1>4, <1>5
  <2> QED
    BY <1>4, <1>10, <2>1
<1> QED
  BY <1>7, <1>8, <1>9, <1>11, <1>12 DEF NetInv

\* What the invariant says in numbers.
LEMMA NetNumbers ==
  ASSUME NetInv
  PROVE  /\ BLOCKS \in Nat /\ LAST \in Nat /\ LAST = BLOCKS + 2
         /\ SEQ_MOD \in Nat /\ SEQ_MOD # 0
         /\ Len(written) \in 0 .. BLOCKS /\ app.at \in 0 .. LAST + 1
<1>1. BLOCKS \in Nat /\ LAST \in Nat /\ LAST = BLOCKS + 2
  BY NetworkAssumption DEF LAST
<1>2. Len(written) \in Nat /\ Len(written) <= BLOCKS /\ app.at \in 0 .. LAST + 1
  BY DEF NetInv, NetTypes, Progress
<1> QED
  BY <1>1, <1>2, TimingAssumption

\* Asking, for the first time or again, keeps it.
LEMMA NetAsk ==
  ASSUME NetInv, app.does \in {"ask", "wait"}, Ask
  PROVE  NetInv'
<1> DEFINE at == app.at
           k == Len(written)
           m == RequestAt(at)
           d == [tester EXCEPT !.pending_sid = m.sdu.sid, !.client_cb = TRUE]
<1>1. /\ LAST \in Nat /\ k \in Nat /\ at \in 0 .. LAST
      /\ app \in [at: 0 .. LAST + 1, does: {"ask", "wait", "done", "abort"}]
  BY NetNumbers DEF NetInv, Progress, NetTypes
<1>2. m \in Packet /\ m.sdu \in Request /\ m.sdu.sid \in Byte
  BY <1>1, RequestShape DEF Packet, Request
<1>3. /\ tester' = d /\ toEcu' = Append(toEcu, m)
      /\ app' = [app EXCEPT !.does = "wait"]
      /\ UNCHANGED <<ecu, toTester, written, closed>>
  BY DEF Ask, uds_client_request, Outcome
<1>4. app'.at = at /\ app'.does = "wait" /\ app' \in [at: 0 .. LAST + 1, does: {"ask", "wait", "done", "abort"}]
  BY <1>1, <1>3
<1>5. tester \in Ctx /\ ~tester.p2_msg_pending
  BY DEF NetInv, NetTypes, Ends
<1> HIDE DEF m
<1>6. d \in Ctx /\ ~d.p2_msg_pending /\ d.pending_sid = m.sdu.sid
  BY <1>2, <1>5 DEF Ctx
<1> HIDE DEF d
<1>7. NetTypes'
  BY <1>3, <1>4, <1>6 DEF NetInv, NetTypes
<1>8. Progress'
  BY <1>1, <1>3, <1>4 DEF NetInv, Progress
<1>9. Ends'
  BY <1>3, <1>4, <1>6 DEF NetInv, Ends, m
<1>10. Requests(toEcu, k, at) /\ (k # 0 => k < at)
  BY DEF NetInv, Progress
<1>11. Requests(toEcu \o <<m>>, k, at)
  BY <1>1, <1>10, RequestsAsk DEF m
<1>12. toEcu' = toEcu \o <<m>>
  BY <1>2, <1>3, <1>10, OneMore DEF Requests
<1>13. Requests(toEcu, Len(written), app.at)'
  BY <1>3, <1>4, <1>11, <1>12
<1>14. Answers(toTester, Len(written), app.at, closed)'
  BY <1>3, <1>4 DEF NetInv
<1>15. RefusedOnlyAtWrap'
  BY <1>4 DEF RefusedOnlyAtWrap
<1> QED
  BY <1>7, <1>8, <1>9, <1>13, <1>14, <1>15 DEF NetInv

\* So does the loss of a message, either way.
LEMMA NetLose ==
  ASSUME NetInv, Lose
  PROVE  NetInv'
<1>1. UNCHANGED <<tester, ecu, app, written, closed>>
  BY DEF Lose
<1>2. NetTypes' /\ Progress' /\ Ends' /\ (REPLAY => RefusedOnlyAtWrap)'
  BY <1>1 DEF NetInv, NetTypes, Progress, Ends, RefusedOnlyAtWrap
<1>3. Requests(toEcu', Len(written), app.at)
  BY RequestsTail DEF NetInv, Lose
<1>4. Answers(toTester', Len(written), app.at, closed)
  BY AnswersTail DEF NetInv, Lose
<1> QED
  BY <1>1, <1>2, <1>3, <1>4 DEF NetInv

\* And the ECU's main loop and its late answers.
LEMMA NetLater ==
  ASSUME NetInv, EcuProcess \/ EcuFinish
  PROVE  NetInv'
<1> DEFINE q == RequestAt(0).sdu
           o == IF EcuProcess THEN uds_process(ecu, 0)
                ELSE uds_send_response(ecu, ROUTINE_CONTROL, 4)
<1>1. ecu \in Ctx /\ UNCHANGED <<tester, toEcu, app, written, closed>>
  BY DEF NetInv, NetTypes, EcuProcess, EcuFinish
<1>2. ecu' = o.ctx /\ toTester' = toTester \o Responses(o.out, q)
  BY DEF EcuProcess, EcuFinish
<1>3. q \in Request
  <2>1. 0 \in 0 .. LAST
    BY NetworkAssumption DEF LAST
  <2> QED
    BY <2>1, RequestShape DEF Packet
<1>4. /\ Kept(ecu, o.ctx)
      /\ \A i \in DOMAIN o.out : Fresh(Response(o.out[i], q), Len(written), closed)
  <2>1. ROUTINE_CONTROL \in StepSids /\ ROUTINE_CONTROL \notin {TRANSFER_DATA, TRANSFER_EXIT}
    BY DEF StepSids, ROUTINE_CONTROL, TRANSFER_DATA, TRANSFER_EXIT
  <2>2. CASE EcuProcess
    <3>1. ecu.pending_sid = ROUTINE_CONTROL
      BY <2>2 DEF EcuProcess, NetInv, Ends
    <3>2. o = uds_process(ecu, 0)
      BY <2>2
    <3> HIDE DEF o
    <3>3. /\ Kept(ecu, o.ctx)
          /\ \A i \in DOMAIN o.out : \E n \in InOrderNrc : o.out[i] = Neg(ROUTINE_CONTROL, n)
      BY <1>1, <3>1, <3>2, EcuProcesses
    <3>4. \A n \in InOrderNrc : Fresh(Response(Neg(ROUTINE_CONTROL, n), q), Len(written), closed)
      BY <2>1, FreshNeg DEF InOrderNrc
    <3> QED
      BY <3>3, <3>4
  <2>3. CASE ~EcuProcess
    <3>1. o = uds_send_response(ecu, ROUTINE_CONTROL, 4)
      BY <2>3
    <3> HIDE DEF o
    <3>2. Kept(ecu, o.ctx) /\ Replied(o, Pos(ROUTINE_CONTROL))
      <4>1. ROUTINE_CONTROL \in Byte /\ 0 \in Byte
        BY Codes DEF Byte
      <4> QED
        BY <1>1, <3>1, <4>1, Answering
    <3>3. Fresh(Response(Pos(ROUTINE_CONTROL), q), Len(written), closed)
      BY <1>3, <2>1, FreshPos
    <3> QED
      BY <3>2, <3>3 DEF Replied
  <2> QED
    BY <2>2, <2>3
<1> HIDE DEF o, q
<1>5. Answers(toTester', Len(written), app.at, closed)
  BY <1>2, <1>4, AnswersSaid DEF NetInv
<1>6. NetTypes' /\ Progress' /\ Ends' /\ (REPLAY => RefusedOnlyAtWrap)'
  BY <1>1, <1>2, <1>4 DEF NetInv, NetTypes, Progress, Ends, RefusedOnlyAtWrap, Kept
<1> QED
  BY <1>1, <1>5, <1>6 DEF NetInv
-----------------------------------------------------------------------------
(* The ECU receives *)

\* What the ECU makes of the first message on its way.
Heard(res) ==
  uds_input_sdu(ecu, NoPeriodic, Head(toEcu).sdu, [TesterAnswer EXCEPT !.res = res], 0)

\* Nothing is written: the counter stays, and what is closed is complete.
Stays ==
  /\ written' = written /\ ecu'.flash_sequence = ecu.flash_sequence
  /\ closed' \in BOOLEAN /\ (closed => closed')
  /\ closed' => closed \/ Len(written) = BLOCKS
  /\ Answers(toTester', Len(written), app.at, closed')

\* The block after the last is written, while the tester waits for it.
Writes ==
  /\ ~closed /\ closed' = closed /\ Len(written) < BLOCKS
  /\ written' = Append(written, Len(written) + 1)
  /\ app.at = Len(written) + 2
  /\ ecu'.flash_sequence = (Len(written) + 1) % SEQ_MOD
  /\ Requests(toEcu', Len(written) + 1, app.at)
  /\ Answers(toTester', Len(written) + 1, app.at, closed')

\* The ECU waits for nothing but an erasure.
EcuEnds ==
  /\ ecu' \in Ctx /\ ecu'.pending_sid \in {0, ROUTINE_CONTROL}
  /\ ecu'.p2_msg_pending => ecu'.pending_sid = ROUTINE_CONTROL

\* Which services a call has run the callback of.
LEMMA RanFor ==
  ASSUME NEW o, NEW s
  PROVE  /\ \A ev : ev.k # "call" /\ Replied(o, ev) => ~CalledFor(o.out, s)
         /\ \A ev, t, v : ev.k # "call" /\ Performed(o, Call(t, v), ev)
                            => (CalledFor(o.out, s) <=> s = t)
<1>1. ASSUME NEW ev, ev.k # "call", Replied(o, ev)
      PROVE  ~CalledFor(o.out, s)
  BY <1>1 DEF Replied, CalledFor
<1>2. ASSUME NEW ev, NEW t, NEW v, ev.k # "call", Performed(o, Call(t, v), ev)
      PROVE  CalledFor(o.out, s) <=> s = t
  <2>1. Call(t, v).k = "call" /\ Call(t, v).sid = t
    BY DEF Call
  <2> QED
    BY <1>2, <2>1 DEF Performed, CalledFor
<1> QED
  BY <1>1, <1>2

\* The first message, and what receiving it changes.
LEMMA EcuStep ==
  ASSUME NetInv, NEW res \in Results, EcuReceive(res)
  PROVE  LET o == Heard(res)
             m == Head(toEcu)
             a == [TesterAnswer EXCEPT !.res = res]
         IN  /\ toEcu # <<>> /\ toEcu' = Tail(toEcu)
             /\ a \in Answer /\ a.res = res
             /\ m \in Packet /\ m.sdu \in Request
             /\ ~IsRequest(m) => Refuses(m)
             /\ IsRequest(m) => /\ Wanted(m, Len(written), app.at)
                                /\ m.sdu.sid \in StepSids /\ m.sdu.len # 0
                                /\ ~IsResponse(ecu, m.sdu)
             /\ ecu' = o.ctx /\ toTester' = toTester \o Responses(o.out, m.sdu)
             /\ written' = IF CalledFor(o.out, TRANSFER_DATA) /\ res = 0
                           THEN Append(written, m.block) ELSE written
             /\ closed' = (closed \/ CalledFor(o.out, TRANSFER_EXIT))
             /\ res = UDS_PENDING => o.ret = "pending"
             /\ UNCHANGED <<tester, app>>
<1> DEFINE o == Heard(res)
           m == Head(toEcu)
           a == [TesterAnswer EXCEPT !.res = res]
<1>1. toEcu # <<>> /\ toEcu' = Tail(toEcu) /\ UNCHANGED <<tester, app>>
  BY DEF EcuReceive
<1>2. Requests(toEcu, Len(written), app.at)
  BY DEF NetInv
<1>3. m = toEcu[1] /\ 1 \in DOMAIN toEcu /\ m \in Packet
  BY <1>1, <1>2, Rest DEF Requests
<1>4. m.sdu \in Request
  BY <1>3 DEF Packet
<1>5. IF IsRequest(m) THEN Wanted(m, Len(written), app.at) ELSE Refuses(m)
  BY <1>2, <1>3 DEF Requests
<1>6. a \in Answer /\ a.res = res
  <2>1. res \in Int
    BY Refusal
  <2>2. TesterAnswer \in Answer
    BY DEF TesterAnswer, Answer, Byte
  <2> QED
    BY <2>1, <2>2 DEF Answer
<1>7. /\ ecu' = o.ctx /\ toTester' = toTester \o Responses(o.out, m.sdu)
      /\ written' = IF CalledFor(o.out, TRANSFER_DATA) /\ res = 0
                    THEN Append(written, m.block) ELSE written
      /\ closed' = (closed \/ CalledFor(o.out, TRANSFER_EXIT))
      /\ res = UDS_PENDING => o.ret = "pending"
  BY DEF EcuReceive, Heard
<1> HIDE DEF m, a, o
<1>8. ASSUME IsRequest(m)
      PROVE  m.sdu.sid \in StepSids /\ m.sdu.len # 0 /\ ~IsResponse(ecu, m.sdu)
  <2>1. Step(m) \in 0 .. LAST /\ m = RequestAt(Step(m))
    BY <1>5, <1>8 DEF Wanted
  <2>2. m.sdu.sid \in StepSids /\ m.sdu.len # 0
    BY <2>1, RequestShape
  <2>3. ecu.pending_sid \in {0, ROUTINE_CONTROL}
    BY DEF NetInv, Ends
  <2> QED
    BY <2>2, <2>3 DEF IsResponse, PositiveSid, StepSids, ROUTINE_CONTROL, REQUEST_DOWNLOAD,
       TRANSFER_DATA, TRANSFER_EXIT, SERVICE_NOT_SUPP_IN_SESS
<1> QED
  BY <1>1, <1>3, <1>4, <1>5, <1>6, <1>7, <1>8 DEF m, a, o
\* A call that neither writes nor closes, and says what fits.
LEMMA EcuStays ==
  ASSUME NetInv, NEW res \in Results, EcuReceive(res),
         Heard(res).ctx.flash_sequence = ecu.flash_sequence,
         ~(CalledFor(Heard(res).out, TRANSFER_DATA) /\ res = 0),
         ~CalledFor(Heard(res).out, TRANSFER_EXIT),
         \A i \in DOMAIN Heard(res).out :
           \/ Heard(res).out[i].k = "call"
           \/ Fresh(Response(Heard(res).out[i], Head(toEcu).sdu), Len(written), closed)
  PROVE  Stays
<1> DEFINE o == Heard(res)
           r == Head(toEcu).sdu
<1>1. /\ ecu' = o.ctx /\ written' = written /\ closed' = (closed \/ FALSE)
      /\ toTester' = toTester \o Responses(o.out, r)
  BY EcuStep
<1>2. closed \in BOOLEAN /\ Answers(toTester, Len(written), app.at, closed)
  BY DEF NetInv, NetTypes
<1>3. closed' = closed
  BY <1>1, <1>2
<1> HIDE DEF o, r
<1>4. Answers(toTester', Len(written), app.at, closed)
  BY <1>1, <1>2, AnswersSaid DEF o, r
<1> QED
  BY <1>1, <1>2, <1>3, <1>4 DEF Stays, o

\* The erasure, the opening of the download, and what is refused.
LEMMA EcuGetsOther ==
  ASSUME OwnTransfer, NetInv, NEW res \in Results, EcuReceive(res),
         Head(toEcu).sdu.sid \notin {TRANSFER_DATA, TRANSFER_EXIT}
  PROVE  EcuEnds /\ Stays
<1> DEFINE o == Heard(res)
           m == Head(toEcu)
           r == m.sdu
           a == [TesterAnswer EXCEPT !.res = res]
           k == Len(written)
<1>1. /\ m \in Packet /\ r \in Request /\ a \in Answer /\ a.res = res
      /\ ~IsRequest(m) => Refuses(m)
      /\ IsRequest(m) => /\ Wanted(m, k, app.at) /\ r.sid \in StepSids /\ r.len # 0
                         /\ ~IsResponse(ecu, r)
      /\ ecu' = o.ctx
  BY EcuStep
<1>2. /\ ecu \in Ctx /\ ecu.pending_sid \in {0, ROUTINE_CONTROL}
      /\ ecu.p2_msg_pending => ecu.pending_sid = ROUTINE_CONTROL
  BY DEF NetInv, NetTypes, Ends
<1>3. o = uds_input_sdu(ecu, NoPeriodic, r, a, 0)
  BY DEF Heard
<1>4. \A s, n : Neg(s, n).k # "call" /\ Pos(s).k # "call"
  BY DEF Neg, Pos
<1>5. \A s, v : Call(s, v).k = "call" /\ Call(s, v).sid = s
  BY DEF Call
<1>6. \A s \in StepSids \cup {SERVICE_NOT_SUPP_IN_SESS}, n \in InOrderNrc :
        Fresh(Response(Neg(s, n), r), k, closed)
  BY FreshNeg DEF InOrderNrc
<1>7. \A s \in StepSids \ {TRANSFER_DATA, TRANSFER_EXIT} : Fresh(Response(Pos(s), r), k, closed)
  BY <1>1, FreshPos
<1>8. /\ {ROUTINE_CONTROL, REQUEST_DOWNLOAD} \subseteq StepSids \ {TRANSFER_DATA, TRANSFER_EXIT}
      /\ \A s \in StepSids : s \in {ROUTINE_CONTROL, REQUEST_DOWNLOAD, TRANSFER_DATA, TRANSFER_EXIT}
  BY DEF StepSids, ROUTINE_CONTROL, REQUEST_DOWNLOAD, TRANSFER_DATA, TRANSFER_EXIT
<1> HIDE DEF o, a
<1>9. ASSUME NEW s \in StepSids \ {TRANSFER_DATA, TRANSFER_EXIT},
             o.ctx.flash_sequence = ecu.flash_sequence,
             \A i \in DOMAIN o.out :
               \/ o.out[i] \in {Call(s, 0), Pos(s)}
               \/ \E n \in InOrderNrc : o.out[i] = Neg(s, n)
      PROVE  Stays
  <2>1. ~CalledFor(o.out, TRANSFER_DATA) /\ ~CalledFor(o.out, TRANSFER_EXIT)
    BY <1>4, <1>5, <1>9 DEF CalledFor
  <2>2. \A i \in DOMAIN o.out : o.out[i].k = "call" \/ Fresh(Response(o.out[i], r), k, closed)
    BY <1>5, <1>6, <1>7, <1>9
  <2> QED
    BY <1>9, <2>1, <2>2, EcuStays DEF o
<1>10. CASE ~IsRequest(m)
  <2>1. PICK n \in InOrderNrc : Replied(o, Neg(SERVICE_NOT_SUPP_IN_SESS, n))
    BY <1>1, <1>2, <1>3, <1>10, EcuRefuses
  <2>2. Kept(ecu, o.ctx)
    BY <1>1, <1>2, <1>3, <1>10, EcuRefuses
  <2>3. ~CalledFor(o.out, TRANSFER_DATA) /\ ~CalledFor(o.out, TRANSFER_EXIT)
    BY <1>4, <2>1, RanFor
  <2>4. \A i \in DOMAIN o.out : Fresh(Response(o.out[i], r), k, closed)
    BY <1>6, <2>1 DEF Replied
  <2>5. Stays
    BY <2>2, <2>3, <2>4, EcuStays DEF o, Kept
  <2> QED
    BY <1>1, <1>2, <2>2, <2>5 DEF EcuEnds, Kept
<1>11. CASE IsRequest(m) /\ r.sid = ROUTINE_CONTROL
  <2>1. /\ o.ctx \in Ctx /\ o.ctx.flash_sequence = ecu.flash_sequence
        /\ \/ /\ o.ctx.pending_sid = ecu.pending_sid
              /\ o.ctx.p2_msg_pending => ecu.p2_msg_pending
           \/ o.ctx.pending_sid = ROUTINE_CONTROL
        /\ \A i \in DOMAIN o.out :
             \/ o.out[i] \in {Call(ROUTINE_CONTROL, 0), Pos(ROUTINE_CONTROL)}
             \/ \E n \in InOrderNrc : o.out[i] = Neg(ROUTINE_CONTROL, n)
    BY <1>1, <1>2, <1>3, <1>11, EcuErases
  <2>2. Stays
    BY <1>8, <1>9, <2>1
  <2> QED
    BY <1>1, <1>2, <2>1, <2>2 DEF EcuEnds
<1>12. CASE IsRequest(m) /\ r.sid = REQUEST_DOWNLOAD
  <2>1. /\ o.ctx \in Ctx /\ o.ctx.flash_sequence \in {0, ecu.flash_sequence}
        /\ o.ctx.pending_sid = ecu.pending_sid
        /\ o.ctx.p2_msg_pending => ecu.p2_msg_pending
        /\ \A i \in DOMAIN o.out :
             \/ o.out[i] \in {Call(REQUEST_DOWNLOAD, 0), Pos(REQUEST_DOWNLOAD)}
             \/ \E n \in InOrderNrc : o.out[i] = Neg(REQUEST_DOWNLOAD, n)
    BY <1>1, <1>2, <1>3, <1>12, EcuOpens
  <2>2. ecu.flash_sequence = 0
    <3>1. Step(m) = 1
      BY <1>12 DEF Step, ROUTINE_CONTROL, REQUEST_DOWNLOAD
    <3>2. k \in Nat /\ ecu.flash_sequence = k % SEQ_MOD
      BY DEF NetInv, NetTypes, Progress
    <3>3. k = 0
      BY <1>1, <1>12, <3>1, <3>2 DEF Wanted
    <3> QED
      BY <3>2, <3>3, TimingAssumption
  <2>3. Stays
    BY <1>8, <1>9, <2>1, <2>2
  <2> QED
    BY <1>1, <1>2, <2>1, <2>3 DEF EcuEnds
<1> QED
  BY <1>1, <1>8, <1>10, <1>11, <1>12
\* The end of the transfer: all blocks are written by then.
LEMMA EcuGetsExit ==
  ASSUME OwnTransfer, NetInv, NEW res \in Results, EcuReceive(res),
         Head(toEcu).sdu.sid = TRANSFER_EXIT
  PROVE  EcuEnds /\ Stays
<1> DEFINE o == Heard(res)
           m == Head(toEcu)
           r == m.sdu
           a == [TesterAnswer EXCEPT !.res = res]
           k == Len(written)
<1>1. IsRequest(m)
  BY DEF IsRequest, TRANSFER_EXIT, SERVICE_NOT_SUPP_IN_SESS
<1>2. /\ m \in Packet /\ r \in Request /\ a \in Answer /\ a.res = res
      /\ Wanted(m, k, app.at) /\ r.len # 0 /\ ~IsResponse(ecu, r)
      /\ ecu' = o.ctx /\ toTester' = toTester \o Responses(o.out, r)
      /\ written' = IF CalledFor(o.out, TRANSFER_DATA) /\ res = 0
                    THEN Append(written, m.block) ELSE written
      /\ closed' = (closed \/ CalledFor(o.out, TRANSFER_EXIT))
  BY <1>1, EcuStep
<1>3. /\ ecu \in Ctx /\ ecu.pending_sid \in {0, ROUTINE_CONTROL}
      /\ ecu.p2_msg_pending => ecu.pending_sid = ROUTINE_CONTROL
      /\ closed \in BOOLEAN /\ Answers(toTester, k, app.at, closed)
  BY DEF NetInv, NetTypes, Ends
<1>4. o = uds_input_sdu(ecu, NoPeriodic, r, a, 0)
  BY DEF Heard
<1>5. \A s, n : Neg(s, n).k # "call" /\ Pos(s).k # "call"
  BY DEF Neg, Pos
<1>6. TRANSFER_EXIT \in StepSids /\ TRANSFER_EXIT # TRANSFER_DATA
  BY DEF StepSids, TRANSFER_DATA, TRANSFER_EXIT
<1>7. \A n \in InOrderNrc : \A d \in BOOLEAN : Fresh(Response(Neg(TRANSFER_EXIT, n), r), k, d)
  BY <1>6, FreshNeg DEF InOrderNrc
<1>8. Fresh(Response(Pos(TRANSFER_EXIT), r), k, TRUE)
  BY <1>2, <1>6, FreshPos
<1>9. k = BLOCKS
  <2>1. Step(m) = LAST
    BY DEF Step, ROUTINE_CONTROL, REQUEST_DOWNLOAD, TRANSFER_DATA, TRANSFER_EXIT
  <2>2. LAST <= app.at
    BY <1>2, <2>1 DEF Wanted
  <2>3. k <= BLOCKS /\ (app.at <= k + 2 \/ k = BLOCKS)
    BY DEF NetInv, Progress
  <2> QED
    BY <2>2, <2>3, NetNumbers
<1> HIDE DEF o, a
<1>10. /\ Kept(ecu, o.ctx)
       /\ \/ \E n \in InOrderNrc : Replied(o, Neg(TRANSFER_EXIT, n))
          \/ \E n \in InOrderNrc :
               Performed(o, Call(TRANSFER_EXIT, 0), Neg(TRANSFER_EXIT, n))
          \/ Performed(o, Call(TRANSFER_EXIT, 0), Pos(TRANSFER_EXIT))
  BY <1>2, <1>3, <1>4, EcuCloses
<1>11. EcuEnds
  BY <1>2, <1>3, <1>10 DEF EcuEnds, Kept
<1>12. ASSUME NEW n \in InOrderNrc, Replied(o, Neg(TRANSFER_EXIT, n))
       PROVE  Stays
  <2>1. ~CalledFor(o.out, TRANSFER_DATA) /\ ~CalledFor(o.out, TRANSFER_EXIT)
    BY <1>5, <1>12, RanFor
  <2>2. \A i \in DOMAIN o.out : Fresh(Response(o.out[i], r), k, closed)
    BY <1>3, <1>7, <1>12 DEF Replied
  <2> QED
    BY <1>10, <2>1, <2>2, EcuStays DEF o, Kept
<1>13. ASSUME NEW ev, ev.k # "call", Performed(o, Call(TRANSFER_EXIT, 0), ev),
              Fresh(Response(ev, r), k, TRUE)
       PROVE  Stays
  <2> HIDE DEF r
  <2>1. \A s : CalledFor(o.out, s) <=> s = TRANSFER_EXIT
    BY <1>13, RanFor
  <2>2. written' = written /\ closed' = TRUE
    BY <1>2, <1>6, <2>1
  <2>6. Call(TRANSFER_EXIT, 0).k = "call"
    BY DEF Call
  <2>3. \A i \in DOMAIN o.out : o.out[i].k = "call" \/ Fresh(Response(o.out[i], r), k, TRUE)
    BY <1>13, <2>6 DEF Performed
  <2>4. Answers(toTester, k, app.at, TRUE)
    BY <1>3, AnswersClose
  <2>5. Answers(toTester', k, app.at, TRUE)
    BY <1>2, <2>3, <2>4, AnswersSaid
  <2> QED
    BY <1>2, <1>9, <1>10, <2>2, <2>5 DEF Stays, Kept
<1> QED
  BY <1>5, <1>7, <1>8, <1>10, <1>11, <1>12, <1>13

\* What the ECU expects is the block after the last.
LEMMA Expects ==
  ASSUME NetInv, Distinguishes
  PROVE  ExpectedBlock(ecu) = (Len(written) + 1) % SEQ_MOD
<1> DEFINE k == Len(written)
           x == k % SEQ_MOD
<1>1. k \in Nat /\ ecu.flash_sequence = x /\ SEQ_MOD \in Nat /\ SEQ_MOD >= 2
  BY NetNumbers DEF NetInv, Progress, Distinguishes
<1>2. /\ x = SEQ_MOD - 1 => (k + 1) % SEQ_MOD = 0
      /\ x # SEQ_MOD - 1 => (k + 1) % SEQ_MOD = x + 1
  BY <1>1, Counters
<1> HIDE DEF x
<1>3. x = 0 => x # SEQ_MOD - 1 /\ x + 1 = 1
  BY <1>1
<1> QED
  BY <1>1, <1>2, <1>3 DEF ExpectedBlock

\* A block that arrives is the last one written or the one after it.
LEMMA BlockArrives ==
  ASSUME NetInv, NEW m, Wanted(m, Len(written), app.at), m.sdu.sid = TRANSFER_DATA
  PROVE  /\ m.sdu.len = 3 /\ m.block \in Nat \ {0} /\ m.block <= BLOCKS
         /\ m.sdu.b1 = m.block % SEQ_MOD
         /\ m.block \in {Len(written), Len(written) + 1}
         /\ m.block = Len(written) + 1 => app.at = Len(written) + 2
         /\ Step(m) = m.block + 1
<1> DEFINE k == Len(written)
           j == Step(m)
<1>1. j \in 0 .. LAST /\ j <= app.at /\ m = RequestAt(j) /\ (k # 0 => k < j)
  BY DEF Wanted
<1>2. /\ j \in 2 .. BLOCKS + 1 /\ m.sdu.b1 = (j - 1) % SEQ_MOD
      /\ m.block = j - 1 /\ m.sdu.len = 3
  <2> HIDE DEF j
  <2> QED
    BY <1>1, RequestShape
<1> HIDE DEF j
<1>3. /\ BLOCKS \in Nat /\ k \in Nat /\ k <= BLOCKS /\ app.at \in Nat
      /\ app.at <= k + 2 \/ k = BLOCKS
  BY NetNumbers DEF NetInv, Progress
<1>4. /\ m.block \in Nat \ {0} /\ m.block <= BLOCKS /\ j = m.block + 1
  BY <1>2, <1>3
<1>5. m.block \in {k, k + 1}
  BY <1>1, <1>3, <1>4
<1>6. m.block = k + 1 => app.at = k + 2
  BY <1>1, <1>3, <1>4
<1> QED
  BY <1>2, <1>4, <1>5, <1>6 DEF j
\* A block: written if it is the one after the last; refused, acknowledged
\* again or out of order otherwise.
LEMMA EcuGetsBlock ==
  ASSUME OwnTransfer, Distinguishes, NetInv, NEW res \in Results, EcuReceive(res),
         Head(toEcu).sdu.sid = TRANSFER_DATA
  PROVE  EcuEnds /\ (Stays \/ Writes)
<1> DEFINE o == Heard(res)
           m == Head(toEcu)
           r == m.sdu
           a == [TesterAnswer EXCEPT !.res = res]
           k == Len(written)
           call == Call(TRANSFER_DATA, r.b1)
<1>1. IsRequest(m)
  BY DEF IsRequest, TRANSFER_DATA, SERVICE_NOT_SUPP_IN_SESS
<1>2. /\ m \in Packet /\ r \in Request /\ a \in Answer /\ a.res = res
      /\ Wanted(m, k, app.at) /\ ~IsResponse(ecu, r)
      /\ ecu' = o.ctx /\ toTester' = toTester \o Responses(o.out, r)
      /\ toEcu # <<>> /\ toEcu' = Tail(toEcu)
      /\ written' = IF CalledFor(o.out, TRANSFER_DATA) /\ res = 0
                    THEN Append(written, m.block) ELSE written
      /\ closed' = (closed \/ CalledFor(o.out, TRANSFER_EXIT))
      /\ res = UDS_PENDING => o.ret = "pending"
  BY <1>1, EcuStep
<1>3. /\ ecu \in Ctx /\ ecu.pending_sid \in {0, ROUTINE_CONTROL}
      /\ ecu.p2_msg_pending => ecu.pending_sid = ROUTINE_CONTROL
      /\ closed \in BOOLEAN /\ Answers(toTester, k, app.at, closed)
      /\ Requests(toEcu, k, app.at)
      /\ ecu.flash_sequence = k % SEQ_MOD /\ (closed => k = BLOCKS)
  BY DEF NetInv, NetTypes, Ends, Progress
<1>4. /\ r.len = 3 /\ m.block \in Nat \ {0} /\ m.block <= BLOCKS
      /\ r.b1 = m.block % SEQ_MOD /\ m.block \in {k, k + 1}
      /\ m.block = k + 1 => app.at = k + 2
      /\ Step(m) = m.block + 1
  BY <1>2, BlockArrives
<1>5. o = uds_input_sdu(ecu, NoPeriodic, r, a, 0)
  BY DEF Heard
<1>6. /\ k \in Nat /\ SEQ_MOD >= 2 /\ k % SEQ_MOD # (k + 1) % SEQ_MOD
      /\ k % SEQ_MOD = 0 /\ k # 0 => k >= SEQ_MOD
      /\ BLOCKS \in Nat
  BY NetNumbers, Counters DEF Distinguishes
<1>7. ExpectedBlock(ecu) = (k + 1) % SEQ_MOD
  BY Expects
<1>8. \A s, n : Neg(s, n).k # "call" /\ Pos(s).k # "call"
  BY DEF Neg, Pos
<1>9. TRANSFER_DATA \in StepSids /\ TRANSFER_EXIT # TRANSFER_DATA /\ call.k = "call"
  BY DEF StepSids, TRANSFER_DATA, TRANSFER_EXIT, Call
<1>10. \A n \in InOrderNrc : Fresh(Response(Neg(TRANSFER_DATA, n), r), k, closed)
  BY <1>9, FreshNeg DEF InOrderNrc
<1>20. /\ a.res \in Results /\ r.sid = TRANSFER_DATA /\ r.len = 3
       /\ ecu \in Ctx /\ r \in Request /\ a \in Answer /\ ~IsResponse(ecu, r)
       /\ call = Call(TRANSFER_DATA, r.b1)
  BY <1>2, <1>3, <1>4
<1> HIDE DEF o, a, r, call
<1>21. /\ o \in OutcomeType /\ o.ret = "done" /\ o.ctx.pending_sid = ecu.pending_sid
       /\ o.ctx.p2_msg_pending => ecu.p2_msg_pending
       /\ \/ /\ \E n \in InOrderNrc : Replied(o, Neg(TRANSFER_DATA, n))
             /\ o.ctx.flash_sequence = ecu.flash_sequence
          \/ /\ a.res < 0 /\ o.ctx.flash_sequence = ecu.flash_sequence
             /\ \E n \in InOrderNrc : Performed(o, call, Neg(TRANSFER_DATA, n))
          \/ /\ ~(a.res < 0) /\ r.b1 = ExpectedBlock(ecu) /\ o.ctx.flash_sequence = r.b1
             /\ Performed(o, call, Pos(TRANSFER_DATA))
          \/ /\ IsReplay(ecu, r.b1) /\ o.ctx.flash_sequence = ecu.flash_sequence
             /\ Replied(o, Pos(TRANSFER_DATA))
          \/ /\ r.b1 # ExpectedBlock(ecu) /\ ~IsReplay(ecu, r.b1)
             /\ o.ctx.flash_sequence = ecu.flash_sequence
             /\ Replied(o, Neg(TRANSFER_DATA, REQUEST_SEQUENCE_ERROR))
  BY ONLY OwnTransfer, <1>5, <1>20, EcuTransfers
<1> USE DEF r, call
<1>11. /\ o \in OutcomeType /\ o.ret = "done" /\ o.ctx.pending_sid = ecu.pending_sid
       /\ o.ctx.p2_msg_pending => ecu.p2_msg_pending
       /\ \/ /\ \E n \in InOrderNrc : Replied(o, Neg(TRANSFER_DATA, n))
             /\ o.ctx.flash_sequence = ecu.flash_sequence
          \/ /\ res < 0 /\ o.ctx.flash_sequence = ecu.flash_sequence
             /\ \E n \in InOrderNrc : Performed(o, call, Neg(TRANSFER_DATA, n))
          \/ /\ ~(res < 0) /\ r.b1 = ExpectedBlock(ecu) /\ o.ctx.flash_sequence = r.b1
             /\ Performed(o, call, Pos(TRANSFER_DATA))
          \/ /\ IsReplay(ecu, r.b1) /\ o.ctx.flash_sequence = ecu.flash_sequence
             /\ Replied(o, Pos(TRANSFER_DATA))
          \/ /\ r.b1 # ExpectedBlock(ecu) /\ ~IsReplay(ecu, r.b1)
             /\ o.ctx.flash_sequence = ecu.flash_sequence
             /\ Replied(o, Neg(TRANSFER_DATA, REQUEST_SEQUENCE_ERROR))
  BY <1>2, <1>21
<1>12. EcuEnds
  BY <1>2, <1>3, <1>11 DEF EcuEnds, OutcomeType
<1>18. ASSUME NEW ev, ev.k # "call", Performed(o, call, ev)
       PROVE  \A s : CalledFor(o.out, s) <=> s = TRANSFER_DATA
  <2> DEFINE b == r.b1
  <2>1. Performed(o, Call(TRANSFER_DATA, b), ev)
    BY <1>18
  <2> HIDE DEF b
  <2> QED
    BY <1>18, <2>1, RanFor
<1>13. ASSUME NEW ev, ev.k # "call", Replied(o, ev), Fresh(Response(ev, r), k, closed),
              o.ctx.flash_sequence = ecu.flash_sequence
       PROVE  Stays
  <2>1. ~CalledFor(o.out, TRANSFER_DATA) /\ ~CalledFor(o.out, TRANSFER_EXIT)
    BY <1>13, RanFor
  <2>2. \A i \in DOMAIN o.out : Fresh(Response(o.out[i], r), k, closed)
    BY <1>13 DEF Replied
  <2> QED
    BY <1>13, <2>1, <2>2, EcuStays DEF o
<1>14. ASSUME NEW n \in InOrderNrc, Performed(o, call, Neg(TRANSFER_DATA, n)), res < 0,
              o.ctx.flash_sequence = ecu.flash_sequence
       PROVE  Stays
  <2>1. \A s : CalledFor(o.out, s) <=> s = TRANSFER_DATA
    BY <1>8, <1>14, <1>18
  <2>2. ~(CalledFor(o.out, TRANSFER_DATA) /\ res = 0) /\ ~CalledFor(o.out, TRANSFER_EXIT)
    BY <1>9, <1>14, <2>1, Refusal
  <2>3. \A i \in DOMAIN o.out : o.out[i].k = "call" \/ Fresh(Response(o.out[i], r), k, closed)
    BY <1>9, <1>10, <1>14 DEF Performed
  <2> QED
    BY <1>14, <2>2, <2>3, EcuStays DEF o
<1>15. ASSUME IsReplay(ecu, r.b1)
       PROVE  Fresh(Response(Pos(TRANSFER_DATA), r), k, closed)
  <2>1. r.b1 = k % SEQ_MOD /\ k % SEQ_MOD # 0
    BY <1>3, <1>15 DEF IsReplay
  <2>2. k # 0
    BY <2>1, TimingAssumption
  <2> QED
    BY <1>2, <1>9, <2>1, <2>2, FreshPos
<1>16. ASSUME r.b1 # ExpectedBlock(ecu), ~IsReplay(ecu, r.b1)
       PROVE  Fresh(Response(Neg(TRANSFER_DATA, REQUEST_SEQUENCE_ERROR), r), k, closed)
  <2>1. m.block = k /\ k # 0 /\ r.b1 = k % SEQ_MOD
    BY <1>4, <1>6, <1>7, <1>16
  <2>2. REPLAY => k >= SEQ_MOD /\ k % SEQ_MOD = 0
    BY <1>3, <1>6, <1>16, <2>1 DEF IsReplay
  <2>3. REQUEST_SEQUENCE_ERROR \in Byte
    BY Codes
  <2> QED
    BY <1>9, <2>2, <2>3, FreshNeg
<1>17. ASSUME ~(res < 0), r.b1 = ExpectedBlock(ecu), o.ctx.flash_sequence = r.b1,
              Performed(o, call, Pos(TRANSFER_DATA))
       PROVE  Writes
  <2>1. res = 0
    <3>1. res = 0 \/ res = UDS_PENDING
      BY <1>17, Refusal
    <3> QED
      BY <1>2, <1>11, <3>1
  <2>2. m.block = k + 1 /\ app.at = k + 2 /\ k < BLOCKS /\ ~closed
    BY <1>3, <1>4, <1>6, <1>7, <1>17
  <2>3. \A s : CalledFor(o.out, s) <=> s = TRANSFER_DATA
    BY <1>8, <1>17, <1>18
  <2>4. written' = Append(written, k + 1) /\ closed' = closed
    BY <1>2, <1>3, <1>9, <2>1, <2>2, <2>3
  <2>5. Requests(toEcu', k + 1, app.at)
    BY <1>1, <1>2, <1>3, <1>4, <1>6, <2>2, RequestsWrite
  <2>6. Answers(toTester, k + 1, app.at, closed)
    BY <1>3, <1>6, <2>2, AnswersWrite
  <2>7. r.b1 = (k + 1) % SEQ_MOD /\ k + 1 # 0
    BY <1>6, <1>7, <1>17
  <2>8. Fresh(Response(Pos(TRANSFER_DATA), r), k + 1, closed)
    BY <1>2, <1>9, <2>7, FreshPos
  <2>9. \A i \in DOMAIN o.out : o.out[i].k = "call" \/ Fresh(Response(o.out[i], r), k + 1, closed)
    BY <1>9, <1>17, <2>8 DEF Performed
  <2> HIDE DEF r
  <2>10. Answers(toTester', k + 1, app.at, closed)
    BY <1>2, <2>6, <2>9, AnswersSaid
  <2> QED
    BY <1>2, <1>17, <2>2, <2>4, <2>5, <2>7, <2>10 DEF Writes
<1> QED
  BY <1>8, <1>10, <1>11, <1>12, <1>13, <1>14, <1>15, <1>16, <1>17

\* Whatever the ECU receives, it writes the next block or none.
LEMMA EcuTakes ==
  ASSUME OwnTransfer, Distinguishes, NetInv, NEW res \in Results, EcuReceive(res)
  PROVE  EcuEnds /\ (Stays \/ Writes)
BY EcuGetsOther, EcuGetsExit, EcuGetsBlock

\* The ECU keeps the invariant when it receives.
LEMMA NetEcuReceive ==
  ASSUME OwnTransfer, Distinguishes, NetInv, NEW res \in Results, EcuReceive(res)
  PROVE  NetInv'
<1> DEFINE k == Len(written)
<1>1. EcuEnds /\ (Stays \/ Writes)
  BY EcuTakes
<1>2. toEcu # <<>> /\ toEcu' = Tail(toEcu) /\ UNCHANGED <<tester, app>>
  BY EcuStep
<1>3. /\ NetTypes /\ Progress /\ Ends /\ (REPLAY => RefusedOnlyAtWrap)
      /\ Requests(toEcu, k, app.at)
  BY DEF NetInv
<1>4. k \in Nat /\ BLOCKS \in Nat /\ app.at \in Nat /\ LAST = BLOCKS + 2
  BY NetNumbers
<1>5. Ends' /\ (REPLAY => RefusedOnlyAtWrap)'
  BY <1>1, <1>2, <1>3 DEF Ends, EcuEnds, RefusedOnlyAtWrap
<1>6. CASE Stays
  <2>1. NetTypes'
    BY <1>1, <1>2, <1>3, <1>6 DEF NetTypes, EcuEnds, Stays
  <2>2. Progress'
    BY <1>2, <1>3, <1>6 DEF Progress, Stays
  <2>3. Requests(toEcu', k, app.at)
    BY <1>2, <1>3, RequestsTail
  <2> QED
    BY <1>2, <1>5, <1>6, <2>1, <2>2, <2>3 DEF NetInv, Stays
<1>7. CASE Writes
  <2>1. written' \in Seq(Nat) /\ Len(written') = k + 1
    BY <1>3, <1>4, <1>7 DEF NetTypes, Writes
  <2>2. NetTypes'
    BY <1>1, <1>2, <1>3, <1>7, <2>1 DEF NetTypes, EcuEnds, Writes
  <2>3. Progress'
    <3>1. app' = app /\ closed' = closed /\ ~closed /\ app.at = k + 2 /\ k < BLOCKS
      BY <1>2, <1>7 DEF Writes
    <3>2. ecu'.flash_sequence = Len(written') % SEQ_MOD
      BY <1>7, <2>1 DEF Writes
    <3> QED
      BY <1>3, <1>4, <2>1, <3>1, <3>2 DEF Progress
  <2> QED
    BY <1>2, <1>5, <1>7, <2>1, <2>2, <2>3 DEF NetInv, Writes
<1> QED
  BY <1>1, <1>6, <1>7
-----------------------------------------------------------------------------
(* The tester receives *)

\* What the tester makes of the first message on its way.
HeardBack == uds_input_sdu(tester, NoPeriodic, Head(toTester).sdu, TesterAnswer, 0)

\* The first response, and what receiving it changes.
LEMMA TesterStep ==
  ASSUME OwnTransfer, NetInv, TesterReceive
  PROVE  LET m == Head(toTester)
             o == HeardBack
         IN  /\ toTester # <<>> /\ toTester' = Tail(toTester)
             /\ m \in Packet /\ Acknowledges(m, Len(written), app.at, closed)
             /\ REPLAY /\ Disordered(m) => AfterWrap(toTester, 1, Len(written), app.at)
             /\ tester' \in Ctx /\ ~tester'.p2_msg_pending
             /\ tester'.pending_sid \in {0, tester.pending_sid}
             /\ app' = IF CallsBack(o.out) /\ app.does = "wait" THEN Reaction(m.sdu) ELSE app
             /\ CallsBack(o.out) =>
                  /\ tester'.pending_sid = 0
                  /\ \/ m.sdu.sid = RequestAt(app.at).sdu.sid + 64
                     \/ /\ m.sdu.sid = SERVICE_NOT_SUPP_IN_SESS
                        /\ m.sdu.b1 = RequestAt(app.at).sdu.sid
             /\ Requests(toEcu', Len(written), app.at)
             /\ UNCHANGED <<ecu, written, closed>>
<1> DEFINE m == Head(toTester)
           o == HeardBack
           k == Len(written)
           p == tester.pending_sid
<1>1. /\ toTester # <<>> /\ toTester' = Tail(toTester)
      /\ tester' = o.ctx /\ toEcu' = toEcu \o Responses(o.out, m.sdu)
      /\ app' = IF CallsBack(o.out) /\ app.does = "wait" THEN Reaction(m.sdu) ELSE app
      /\ UNCHANGED <<ecu, written, closed>>
  BY DEF TesterReceive, HeardBack
<1>2. /\ Answers(toTester, k, app.at, closed) /\ Requests(toEcu, k, app.at)
      /\ tester \in Ctx /\ ~tester.p2_msg_pending
      /\ p # 0 => app.does = "wait" /\ p = RequestAt(app.at).sdu.sid
  BY DEF NetInv, NetTypes, Ends
<1>3. m = toTester[1] /\ 1 \in DOMAIN toTester /\ m \in Packet
  BY <1>1, <1>2, Rest DEF Answers
<1>4. /\ Replies(m) /\ Acknowledges(m, k, app.at, closed)
      /\ REPLAY /\ Disordered(m) => AfterWrap(toTester, 1, k, app.at)
  BY <1>2, <1>3 DEF Answers
<1>5. p \in StepSids \cup {0}
  <2>1. app.does = "wait" => app.at \in 0 .. LAST
    BY NetNumbers DEF NetInv, Progress
  <2> QED
    BY <1>2, <2>1, RequestShape
<1>6. o = uds_input_sdu(tester, NoPeriodic, m.sdu, TesterAnswer, 0)
  BY DEF HeardBack
<1> HIDE DEF m, o
<1>7. /\ o.ctx \in Ctx /\ ~o.ctx.p2_msg_pending /\ o.ctx.pending_sid \in {0, p}
      /\ CallsBack(o.out) =>
           /\ o.ctx.pending_sid = 0 /\ p # 0
           /\ \/ m.sdu.sid = p + 64
              \/ m.sdu.sid = SERVICE_NOT_SUPP_IN_SESS /\ m.sdu.b1 = p
      /\ \A i \in Spoken(o.out) :
           Response(o.out[i], m.sdu) \in Packet /\ Refuses(Response(o.out[i], m.sdu))
  BY <1>2, <1>3, <1>4, <1>5, <1>6, TesterHears
<1>8. Requests(toEcu', k, app.at)
  <2>1. toEcu \o <<>> = toEcu
    BY <1>2, NoMore DEF Requests
  <2> QED
    BY <1>1, <1>2, <1>7, <2>1, SaidResponses, RequestsRefusal
<1> QED
  BY <1>1, <1>2, <1>3, <1>4, <1>7, <1>8 DEF m, o

\* A tester at a block is at the last one written or the one after it.
LEMMA AtBlock ==
  ASSUME NetInv, app.at \in 2 .. BLOCKS + 1
  PROVE  /\ Block(app.at) = app.at - 1 /\ Counter(app.at) = (app.at - 1) % SEQ_MOD
         /\ Len(written) = 0 => app.at = 2
         /\ app.at \in {Len(written) + 1, Len(written) + 2}
<1>1. /\ BLOCKS \in Nat /\ Len(written) \in Nat /\ Len(written) <= BLOCKS
      /\ Len(written) # 0 => Len(written) < app.at
      /\ app.at <= Len(written) + 2 \/ Len(written) = BLOCKS
  BY NetNumbers DEF NetInv, Progress
<1> QED
  BY <1>1 DEF Block, Counter

\* The tester goes on to the next step only when the present one is served,
\* and no acknowledgement of an older block is left by then.
LEMMA TesterAdvances ==
  ASSUME OwnTransfer, Distinguishes, NetInv, TesterReceive, app.at \in 0 .. LAST,
         Head(toTester).sdu.sid = RequestAt(app.at).sdu.sid + 64,
         Block(app.at) # 0 => Head(toTester).sdu.b1 = Counter(app.at)
  PROVE  /\ app.at + 1 <= Len(written) + 2 \/ Len(written) = BLOCKS
         /\ app.at = LAST => closed
         /\ Answers(Tail(toTester), Len(written), app.at + 1, closed)
<1> DEFINE m == Head(toTester)
           k == Len(written)
           at == app.at
<1>1. /\ toTester # <<>> /\ Acknowledges(m, k, at, closed)
      /\ Answers(toTester, k, at, closed)
  BY TesterStep DEF NetInv
<1>2. /\ k \in Nat /\ at \in Nat /\ BLOCKS \in Nat /\ LAST = BLOCKS + 2 /\ SEQ_MOD >= 2
      /\ k <= BLOCKS /\ (k # 0 => k < at) /\ (closed => k = BLOCKS)
  BY NetNumbers DEF NetInv, Progress, Distinguishes
<1>3. Answers(Tail(toTester), k, at, closed)
  BY <1>1, AnswersTail
<1> HIDE DEF m
<1>4. CASE at \in {0, 1}
  <2>1. k = 0
    BY <1>2, <1>4
  <2>2. Answers(Tail(toTester), k, at + 1, closed)
    BY <1>2, <1>3, <2>1, AnswersMove
  <2> QED
    BY <1>2, <1>4, <2>1, <2>2
<1>5. CASE at \in 2 .. BLOCKS + 1
  <2>1. RequestAt(at).sdu.sid = TRANSFER_DATA
    BY <1>2, <1>5 DEF RequestAt, Sdu
  <2>2. Acks(m)
    BY <2>1 DEF Acks, m
  <2>3. /\ Block(at) = at - 1 /\ Counter(at) = (at - 1) % SEQ_MOD
        /\ at \in {k + 1, k + 2}
    BY <1>5, AtBlock
  <2>4. m.sdu.b1 = (at - 1) % SEQ_MOD
    BY <1>2, <1>5, <2>3 DEF m
  <2>5. /\ k # 0
        /\ \/ m.sdu.b1 = k % SEQ_MOD
           \/ m.sdu.b1 = (k - 1) % SEQ_MOD /\ at = k + 1
    BY <1>1, <2>2 DEF Acknowledges
  <2>6. at = k + 1
    <3>1. k % SEQ_MOD # (k + 1) % SEQ_MOD
      BY <1>2, Counters
    <3>2. ASSUME at = k + 2 PROVE FALSE
      <4>1. m.sdu.b1 = (k + 1) % SEQ_MOD /\ at # k + 1
        BY <1>2, <2>4, <3>2
      <4> QED
        BY <2>5, <3>1, <4>1
    <3> QED
      BY <2>3, <3>2
  <2>7. AcksLast(m, k)
    <3>1. at - 1 = k
      BY <1>2, <2>6
    <3> QED
      BY <2>2, <2>4, <3>1 DEF AcksLast
  <2>8. Answers(Tail(toTester), k, at + 1, closed)
    BY <1>1, <2>7, AnswersAdvance DEF m
  <2> QED
    BY <1>2, <1>5, <2>6, <2>8
<1>6. CASE at = LAST
  <2>1. RequestAt(at).sdu.sid = TRANSFER_EXIT
    BY <1>2, <1>6 DEF RequestAt, Sdu
  <2>2. closed
    BY <1>1, <2>1 DEF Acknowledges, m
  <2>3. k = BLOCKS /\ at # k + 1
    BY <1>2, <1>6, <2>2
  <2>4. Answers(Tail(toTester), k, at + 1, closed)
    BY <1>2, <1>3, <2>3, AnswersMove
  <2> QED
    BY <2>2, <2>3, <2>4
<1> QED
  BY <1>2, <1>4, <1>5, <1>6

\* A block is refused as out of order only where the counter wraps.
LEMMA TesterGivesUp ==
  ASSUME Distinguishes, NetInv, REPLAY, app.at \in 0 .. LAST,
         AfterWrap(toTester, 1, Len(written), app.at),
         toTester[1].sdu.b1 = RequestAt(app.at).sdu.sid
  PROVE  Block(app.at) >= SEQ_MOD /\ Counter(app.at) \in {0, 1}
<1> DEFINE k == Len(written)
           at == app.at
<1>1. RequestAt(at).sdu.sid = TRANSFER_DATA /\ k >= SEQ_MOD
      /\ (k % SEQ_MOD = 0 \/ (k % SEQ_MOD = 1 /\ at = k + 1))
  BY DEF AfterWrap
<1>2. at \in 2 .. BLOCKS + 1
  BY <1>1, RequestShape
<1>3. Block(at) = at - 1 /\ Counter(at) = (at - 1) % SEQ_MOD /\ at \in {k + 1, k + 2}
  BY <1>2, AtBlock
<1>4. k \in Nat /\ at \in Nat /\ SEQ_MOD \in Nat /\ SEQ_MOD >= 2
  BY NetNumbers DEF Distinguishes
<1>5. k % SEQ_MOD = 0 => (k + 1) % SEQ_MOD = 1
  <2>1. k % SEQ_MOD # SEQ_MOD - 1 => (k + 1) % SEQ_MOD = (k % SEQ_MOD) + 1
    BY <1>4, Counters
  <2> QED
    BY <1>4, <2>1
<1>6. CASE at = k + 1
  <2>1. at - 1 = k
    BY <1>4, <1>6
  <2> QED
    BY <1>1, <1>3, <1>4, <2>1
<1>7. CASE at = k + 2
  <2>1. at - 1 = k + 1 /\ at # k + 1
    BY <1>4, <1>7
  <2> QED
    BY <1>1, <1>3, <1>4, <1>5, <2>1
<1> QED
  BY <1>3, <1>6, <1>7

\* The tester keeps the invariant when it receives.
LEMMA NetTesterReceive ==
  ASSUME OwnTransfer, Distinguishes, NetInv, TesterReceive
  PROVE  NetInv'
<1> DEFINE m == Head(toTester)
           r == m.sdu
           o == HeardBack
           k == Len(written)
           at == app.at
           does == {"ask", "wait", "done", "abort"}
<1>1. /\ toTester # <<>> /\ toTester' = Tail(toTester)
      /\ tester' \in Ctx /\ ~tester'.p2_msg_pending
      /\ tester'.pending_sid \in {0, tester.pending_sid}
      /\ app' = IF CallsBack(o.out) /\ app.does = "wait" THEN Reaction(r) ELSE app
      /\ CallsBack(o.out) =>
           /\ tester'.pending_sid = 0
           /\ \/ r.sid = RequestAt(at).sdu.sid + 64
              \/ r.sid = SERVICE_NOT_SUPP_IN_SESS /\ r.b1 = RequestAt(at).sdu.sid
      /\ REPLAY /\ Disordered(m) => AfterWrap(toTester, 1, k, at)
      /\ Requests(toEcu', k, at)
      /\ UNCHANGED <<ecu, written, closed>>
  BY TesterStep
<1>2. /\ NetTypes /\ Progress /\ Ends /\ (REPLAY => RefusedOnlyAtWrap)
      /\ Answers(toTester, k, at, closed)
  BY DEF NetInv
<1>3. /\ k \in Nat /\ at \in 0 .. LAST + 1 /\ BLOCKS \in Nat /\ LAST \in Nat
      /\ LAST = BLOCKS + 2 /\ app \in [at: 0 .. LAST + 1, does: does]
  BY <1>2, NetNumbers DEF NetTypes
<1>4. Answers(Tail(toTester), k, at, closed)
  BY <1>1, <1>2, AnswersTail
<1>5. m = toTester[1]
  BY <1>1, <1>2, Rest DEF Answers
<1> HIDE DEF o, m
<1>6. CASE app' = app
  <2>1. NetTypes' /\ Progress' /\ (REPLAY => RefusedOnlyAtWrap)'
    BY <1>1, <1>2, <1>6 DEF NetTypes, Progress, RefusedOnlyAtWrap
  <2>2. Ends'
    BY <1>1, <1>2, <1>6 DEF Ends
  <2> QED
    BY <1>1, <1>4, <1>6, <2>1, <2>2 DEF NetInv
<1>7. ASSUME app' # app
      PROVE  /\ CallsBack(o.out) /\ app.does = "wait" /\ app' = Reaction(r)
             /\ at \in 0 .. LAST /\ tester'.pending_sid = 0
  <2>1. CallsBack(o.out) /\ app.does = "wait" /\ app' = Reaction(r)
    BY <1>1, <1>7
  <2> QED
    BY <1>1, <1>2, <1>3, <2>1 DEF Progress
<1>8. ASSUME app' # app PROVE Ends'
  BY <1>1, <1>2, <1>7, <1>8 DEF Ends
<1>9. CASE app' # app /\ r.sid = SERVICE_NOT_SUPP_IN_SESS
  <2>1. /\ app'.at = at /\ app'.does \in {"wait", "abort", "ask"}
        /\ app'.does = "abort" => r.b2 = REQUEST_SEQUENCE_ERROR
        /\ app' \in [at: 0 .. LAST + 1, does: does]
    <3> DEFINE d == CASE r.b2 = RESPONSE_PENDING -> "wait"
                      [] r.b2 = REQUEST_SEQUENCE_ERROR -> "abort"
                      [] OTHER -> "ask"
    <3>1. d \in {"wait", "abort", "ask"} /\ (d = "abort" => r.b2 = REQUEST_SEQUENCE_ERROR)
      BY DEF RESPONSE_PENDING, REQUEST_SEQUENCE_ERROR
    <3>2. app' = [app EXCEPT !.does = d]
      BY <1>7, <1>9 DEF Reaction
    <3> HIDE DEF d
    <3> QED
      BY <1>3, <3>1, <3>2
  <2>2. NetTypes' /\ Progress'
    BY <1>1, <1>2, <1>3, <1>7, <1>9, <2>1 DEF NetTypes, Progress
  <2>3. ASSUME REPLAY, app'.does = "abort"
        PROVE  Block(at) >= SEQ_MOD /\ Counter(at) \in {0, 1}
    <3>1. Disordered(m)
      BY <1>9, <2>1, <2>3 DEF Disordered
    <3>2. r.b1 = RequestAt(at).sdu.sid
      <4>1. RequestAt(at).sdu.sid \in StepSids
        BY <1>7, <1>9, RequestShape
      <4>2. r.sid # RequestAt(at).sdu.sid + 64
        BY <1>9, <4>1 DEF StepSids, ROUTINE_CONTROL, REQUEST_DOWNLOAD, TRANSFER_DATA,
           TRANSFER_EXIT, SERVICE_NOT_SUPP_IN_SESS
      <4> QED
        BY <1>1, <1>7, <1>9, <4>2
    <3> QED
      BY <1>1, <1>5, <1>7, <1>9, <2>3, <3>1, <3>2, TesterGivesUp
  <2>4. (REPLAY => RefusedOnlyAtWrap)'
    BY <2>1, <2>3 DEF RefusedOnlyAtWrap
  <2> QED
    BY <1>1, <1>4, <1>8, <1>9, <2>1, <2>2, <2>4 DEF NetInv
<1>10. CASE app' # app /\ r.sid # SERVICE_NOT_SUPP_IN_SESS
  <2>1. /\ app' = [at |-> at + 1, does |-> IF at = LAST THEN "done" ELSE "ask"]
        /\ Block(at) # 0 => r.b1 = Counter(at)
    BY <1>7, <1>10 DEF Reaction, Distinguishes
  <2>2. r.sid = RequestAt(at).sdu.sid + 64
    BY <1>1, <1>7, <1>10
  <2>3. /\ at + 1 <= k + 2 \/ k = BLOCKS
        /\ at = LAST => closed
        /\ Answers(Tail(toTester), k, at + 1, closed)
    BY <1>7, <1>10, <2>1, <2>2, TesterAdvances DEF m
  <2>4. /\ app'.at = at + 1 /\ (app'.does = "done" <=> at = LAST)
        /\ app'.does \in {"done", "ask"} /\ app' \in [at: 0 .. LAST + 1, does: does]
    BY <1>3, <1>7, <1>10, <2>1
  <2>5. NetTypes'
    BY <1>1, <1>2, <2>4 DEF NetTypes
  <2>6. Progress'
    BY <1>1, <1>2, <1>3, <1>7, <1>10, <2>3, <2>4 DEF Progress
  <2>7. Requests(toEcu', k, at + 1)
    BY <1>1, <1>3, RequestsMove
  <2>8. RefusedOnlyAtWrap'
    BY <2>4 DEF RefusedOnlyAtWrap
  <2> QED
    BY <1>1, <1>8, <1>10, <2>3, <2>4, <2>5, <2>6, <2>7, <2>8 DEF NetInv
<1> QED
  BY <1>6, <1>9, <1>10

\* Every step keeps the invariant, and writes the next block, closes a
\* complete transfer or does neither.
LEMMA NetStep ==
  ASSUME OwnTransfer, Distinguishes, NetInv, [NetNext]_vars
  PROVE  NetInv' /\ [Transfer!Write \/ Transfer!Close]_<<written, closed>>
<1>1. CASE UNCHANGED vars
  <2>1. NetInv'
    BY <1>1 DEF vars, NetInv, NetTypes, Progress, Ends, RefusedOnlyAtWrap
  <2> QED
    BY <1>1, <2>1 DEF vars
<1>2. CASE AskNext \/ Repeat
  <2>1. app.does \in {"ask", "wait"} /\ Ask /\ UNCHANGED <<written, closed>>
    BY <1>2 DEF AskNext, Repeat, Ask
  <2> QED
    BY <2>1, NetAsk
<1>3. CASE TesterReceive
  BY <1>3, NetTesterReceive DEF TesterReceive
<1>4. ASSUME NEW res \in Results, EcuReceive(res)
      PROVE  NetInv' /\ [Transfer!Write \/ Transfer!Close]_<<written, closed>>
  <2>1. NetInv'
    BY <1>4, NetEcuReceive
  <2>2. CASE Stays
    <3>1. closed \in BOOLEAN /\ closed' \in BOOLEAN /\ written' = written
      BY <2>2 DEF NetInv, NetTypes, Stays
    <3>2. CASE closed' = closed
      BY <2>1, <3>1, <3>2
    <3>3. CASE closed' # closed
      <4>1. closed' = TRUE /\ Len(written) = BLOCKS
        BY <2>2, <3>1, <3>3 DEF Stays
      <4> QED
        BY <2>1, <3>1, <4>1 DEF Transfer!Close
    <3> QED
      BY <3>2, <3>3
  <2>3. CASE Writes
    BY <2>1, <2>3 DEF Writes, Transfer!Write
  <2> QED
    BY <1>4, <2>2, <2>3, EcuTakes
<1>5. CASE EcuProcess \/ EcuFinish
  BY <1>5, NetLater DEF EcuProcess, EcuFinish
<1>6. CASE Lose
  BY <1>6, NetLose DEF Lose
<1> QED
  BY <1>1, <1>2, <1>3, <1>4, <1>5, <1>6 DEF NetNext
-----------------------------------------------------------------------------
(* The theorems *)

\* The invariant of the download: the requests under way are those of the
\* steps from the last block written to the tester's, the responses
\* acknowledge nothing that is not written, and the ECU's flash_sequence
\* counts what is.
THEOREM NetInvariance ==
  OwnTransfer /\ Distinguishes => (NetSpec => []NetInv)
<1> SUFFICES ASSUME OwnTransfer, Distinguishes PROVE NetSpec => []NetInv
  OBVIOUS
<1>1. NetInit => NetInv
  BY NetInitInv
<1>2. NetInv /\ [NetNext]_vars => NetInv'
  BY NetStep
<1> QED
  BY <1>1, <1>2, PTL DEF NetSpec

\* However many messages are lost, repeated early or refused, the tester and
\* handle_transfer_data never drift apart by more than the block under way,
\* and a tester that is done has closed a complete transfer.
THEOREM NetInStep ==
  OwnTransfer /\ Distinguishes => (NetSpec => []InStep)
<1> SUFFICES ASSUME OwnTransfer, Distinguishes PROVE NetSpec => []InStep
  OBVIOUS
<1>1. NetInv => InStep
  <2> SUFFICES ASSUME NetInv PROVE InStep
    OBVIOUS
  <2>1. /\ BLOCKS \in Nat /\ LAST = BLOCKS + 2 /\ Len(written) \in Nat /\ app.at \in Nat
        /\ Len(written) <= BLOCKS /\ (app.at <= Len(written) + 2 \/ Len(written) = BLOCKS)
        /\ app.does = "done" => closed
    BY NetNumbers DEF NetInv, Progress
  <2>2. Block(app.at) # 0 => app.at \in 2 .. BLOCKS + 1
    BY DEF Block
  <2>3. Block(app.at) # 0 => Len(written) \in {Block(app.at) - 1, Block(app.at)}
    BY <2>1, <2>2, AtBlock
  <2>4. app.at >= LAST => Len(written) = BLOCKS
    BY <2>1
  <2> QED
    BY <2>1, <2>3, <2>4 DEF InStep
<1> QED
  BY <1>1, NetInvariance, PTL

\* With transfer_accept_last_block_replay, a block that is sent again is
\* refused with 0x24 nowhere but where the block counter has wrapped to 0.
THEOREM NetRefusedOnlyAtWrap ==
  OwnTransfer /\ Distinguishes /\ REPLAY => (NetSpec => []RefusedOnlyAtWrap)
<1> SUFFICES ASSUME OwnTransfer, Distinguishes, REPLAY PROVE NetSpec => []RefusedOnlyAtWrap
  OBVIOUS
<1>1. NetInv => RefusedOnlyAtWrap
  BY DEF NetInv
<1> QED
  BY <1>1, NetInvariance, PTL

\* The download implements BlockTransfer: fn_transfer_data gets every block
\* once and in order, and fn_transfer_exit runs when all have arrived.
THEOREM NetEachBlockOnce ==
  OwnTransfer /\ Distinguishes => (NetSpec => EachBlockOnce)
<1> SUFFICES ASSUME OwnTransfer, Distinguishes PROVE NetSpec => EachBlockOnce
  OBVIOUS
<1>1. NetInit => Transfer!BlockInit
  BY DEF NetInit, Transfer!BlockInit
<1>2. NetInv /\ [NetNext]_vars => [Transfer!Write \/ Transfer!Close]_<<written, closed>>
  BY NetStep
<1> QED
  BY <1>1, <1>2, NetInvariance, PTL DEF NetSpec, EachBlockOnce, Transfer!BlockSpec

=============================================================================
