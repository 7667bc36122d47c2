--------------------------- MODULE ReliableProofs ---------------------------
(***************************************************************************)
(* The safety of the reliable channel for every span, window, reordering   *)
(* tolerance and traffic.  IInv (module Reliable) is inductive; the        *)
(* invariants of the runs are among its conjuncts.  MessagesKept, at the   *)
(* end, strengthens it to show that the channel implements the abstract    *)
(* one of module MessageChannel.                                           *)
(***************************************************************************)
EXTENDS Reliable, FiniteSetTheorems, WellFoundedInduction, TLAPS

\* A non-empty set of naturals has a least element.
LEMMA LeastExists ==
  ASSUME NEW T \in SUBSET Nat, T # {}
  PROVE  \E x \in T : \A y \in T : x <= y
<1>1. IsWellFoundedOn(OpToRel(<, Nat), Nat)
  BY NatLessThanWellFounded
<1>2. \E x \in T : \A y \in T : ~ (<<y, x>> \in OpToRel(<, Nat))
  BY <1>1, WFMin
<1>3. ASSUME NEW x \in Nat, NEW y \in Nat, y < x PROVE <<y, x>> \in OpToRel(<, Nat)
  BY <1>3, Zenon DEF OpToRel
<1>4. PICK x \in T : \A y \in T : ~ (<<y, x>> \in OpToRel(<, Nat))
  BY <1>2
<1>5. \A y \in T : ~ (y < x)
  BY <1>3, <1>4, Zenon
<1> QED
  BY <1>5

\* A non-empty set of naturals with an upper bound has a Max, and it is in
\* the set.
LEMMA MaxExists ==
  ASSUME NEW S \in SUBSET Nat, S # {}, NEW b \in Nat, \A x \in S : x <= b
  PROVE  Max(S) \in S /\ \A y \in S : Max(S) >= y
<1> DEFINE U == {n \in Nat : \A x \in S : x <= n}
<1>1. PICK m \in U : \A n \in U : m <= n
  <2>1. b \in U
    OBVIOUS
  <2> QED
    BY <2>1, LeastExists
<1>2. m \in S
  <2> SUFFICES ASSUME m \notin S PROVE FALSE
    OBVIOUS
  <2>1. \A x \in S : x <= m /\ x # m /\ x \in Nat
    OBVIOUS
  <2>2. m > 0 /\ m \in Nat
    <3>1. PICK x \in S : TRUE
      OBVIOUS
    <3> QED
      BY <2>1, <3>1
  <2>3. m - 1 \in U
    BY <2>1, <2>2
  <2> QED
    BY <1>1, <2>3
<1>3. \A y \in S : m >= y
  OBVIOUS
<1> HIDE DEF U
<1> QED
  BY <1>2, <1>3 DEF Max

\* Where the receiver's drain stops: just before the first number not held.
LEMMA FirstMissingExists ==
  ASSUME NEW c \in Nat, NEW held \in SUBSET ((c + 1)..(c + WIDE_SPAN))
  PROVE  LET n == FirstMissing(held, c) IN
         /\ n \in Nat /\ n > c /\ n <= c + WIDE_SPAN + 1
         /\ n \notin held /\ (c + 1)..(n - 1) \subseteq held
<1> USE ReliableAssumption
<1> DEFINE T == {n \in Nat : n > c /\ n \notin held}
<1>1. c + WIDE_SPAN + 1 \in T
  OBVIOUS
<1>2. PICK m \in T : \A n \in T : m <= n
  BY <1>1, LeastExists
<1>3. m \in (c + 1)..(c + WIDE_SPAN + 1)
  BY <1>1, <1>2
<1>4. (c + 1)..(m - 1) \subseteq held
  BY <1>2
<1> HIDE DEF T
<1>5. m \notin held
  BY <1>2 DEF T
<1> QED
  BY <1>3, <1>4, <1>5 DEF FirstMissing

-----------------------------------------------------------------------------
LEMMA InitIInv == Init => IInv
<1> SUFFICES ASSUME Init PROVE IInv
  OBVIOUS
<1> USE ReliableAssumption DEF Init
<1>1. TypeOK
  <2>1. queue \in [1..(next_seq - 1) -> Chunk]
    OBVIOUS
  <2>2. QueueOK
    BY <2>1 DEF QueueOK
  <2>0. wide \in BOOLEAN /\ urgent \in BOOLEAN
    BY Zenon
  <2>3. SenderOK
    BY <2>0, <2>2 DEF SenderOK
  <2>4. DOMAIN pending = {} /\ pending \in [DOMAIN pending -> BOOLEAN]
    OBVIOUS
  <2>5. ReceiverOK /\ LinkOK
    BY <2>0, <2>4 DEF ReceiverOK, LinkOK
  <2> QED
    BY <2>3, <2>5 DEF TypeOK
<1>2. NoChunkForgotten /\ NeverNonsense /\ AckedTxArrived
  BY DEF NoChunkForgotten, NeverNonsense, AckedTxArrived
<1>3. AcksTruthful /\ PendingShape /\ TxBound /\ OnlySent /\ SentOnce
  BY DEF AcksTruthful, PendingShape, TxBound, OnlySent, SentOnce
<1> QED
  BY <1>1, <1>2, <1>3 DEF IInv

\* Sender::send only adds chunks nobody has seen.
LEMMA SendIInv ==
  ASSUME IInv, NEW k \in 1..MaxChunks, Send(k)
  PROVE  IInv'
<1> USE ReliableAssumption DEF IInv, TypeOK
<1>0. PICK front \in 1..next_seq : queue \in [front..(next_seq - 1) -> Chunk]
  BY DEF SenderOK, QueueOK
<1> DEFINE new == next_seq..(next_seq + k - 1)
<1>1. next_seq \in Nat /\ next_seq >= 1 /\ k \in Nat /\ k >= 1 /\ front \in Nat /\ front >= 1 /\ front <= next_seq
  BY DEF SenderOK
<1>2. next_seq' = next_seq + k /\ DOMAIN queue = front..(next_seq - 1)
  BY <1>0 DEF Send
<1>3. DOMAIN queue \union new = front..(next_seq' - 1)
  BY <1>1, <1>2
<1>4. queue' = [s \in front..(next_seq' - 1) |->
                  IF s \in DOMAIN queue THEN queue[s] ELSE FreshChunk(s = next_seq + k - 1)]
  BY <1>3 DEF Send
<1> HIDE DEF new
<1>5. \A s \in front..(next_seq - 1) : queue'[s] = queue[s]
  BY <1>1, <1>2, <1>4
<1>6. \A s \in new : /\ s \in Nat /\ s >= next_seq /\ s \in DOMAIN queue'
                     /\ queue'[s] \in Chunk /\ ~queue'[s].sent /\ queue'[s].tx = 0
                     /\ ~queue'[s].acked
  BY <1>1, <1>2, <1>4 DEF FreshChunk, Chunk, new
<1>7. DOMAIN queue' = DOMAIN queue \union new
  BY <1>3, <1>4
<1>8. queue' \in [front..(next_seq' - 1) -> Chunk]
  <2>1. \A s \in front..(next_seq' - 1) : queue'[s] \in Chunk
    BY <1>0, <1>1, <1>2, <1>3, <1>5, <1>6
  <2> QED
    BY <1>4, <2>1
<1>9. UNCHANGED <<next_tx, acked_tx, recovery_tx, cwnd, ssthresh, wide>>
  BY DEF Send
<1>10. UNCHANGED <<cum, pending, partial, oversize, unacked, urgent, data, acks, arrived>>
  BY DEF Send, rcvVars
<1>11. TypeOK'
  <2>1. QueueOK'
    BY <1>1, <1>2, <1>8 DEF QueueOK
  <2>2. SenderOK'
    BY <1>1, <1>2, <1>9, <2>1 DEF SenderOK
  <2>3. ReceiverOK' /\ LinkOK'
    BY <1>10 DEF ReceiverOK, LinkOK
  <2> QED
    BY <2>2, <2>3
<1>12. \A s \in new : s \notin DOMAIN pending /\ ~(s <= cum) /\ \A p \in data : p.seq # s
  BY <1>1, <1>6 DEF OnlySent, ReceiverOK, LinkOK
<1>13. NoChunkForgotten'
  BY <1>1, <1>2, <1>5, <1>6, <1>7, <1>10 DEF NoChunkForgotten, Received, new
<1>14. NeverNonsense'
  BY <1>2, <1>5, <1>6, <1>7, <1>10 DEF NeverNonsense
<1>15. AckedTxArrived' /\ AcksTruthful' /\ PendingShape'
  BY <1>9, <1>10 DEF AckedTxArrived, AcksTruthful, PendingShape, Received
<1>16. TxBound'
  BY <1>2, <1>5, <1>6, <1>7, <1>9 DEF TxBound, SenderOK
<1>17. OnlySent'
  <2>1. \A p \in data : p.seq \in Nat
    BY DEF LinkOK
  <2>2. \A p \in data : p.seq < next_seq + k
    BY <1>1, <2>1 DEF OnlySent
  <2>3. cum < next_seq + k /\ \A s \in DOMAIN pending : s < next_seq + k
    BY <1>1 DEF OnlySent, ReceiverOK
  <2> QED
    BY <1>2, <1>10, <2>2, <2>3 DEF OnlySent
<1>18. SentOnce'
  BY <1>2, <1>5, <1>7, <1>10, <1>12 DEF SentOnce, Received
<1> QED
  BY <1>11, <1>13, <1>14, <1>15, <1>16, <1>17, <1>18

\* The receiver is at most one chunk behind the front of the sender's queue.
LEMMA FrontReceived ==
  ASSUME IInv, NEW front \in 1..next_seq, DOMAIN queue = front..(next_seq - 1)
  PROVE  front <= cum + 1
<1> USE ReliableAssumption DEF IInv, TypeOK
<1>1. next_seq \in Nat /\ cum \in Nat
  BY DEF SenderOK, ReceiverOK
<1>2. SUFFICES ASSUME cum + 1 < front PROVE FALSE
  BY <1>1
<1>3. cum + 1 \in 1..(next_seq - 1) /\ cum + 1 \notin DOMAIN queue
  BY <1>1, <1>2
<1>4. Received(cum + 1)
  BY <1>3 DEF NoChunkForgotten
<1> QED
  BY <1>1, <1>4 DEF Received, PendingShape

\* What the window becomes when it is cut is a window again.
LEMMA CutType ==
  ASSUME SenderOK, NEW at
  PROVE  /\ OnCongestion(at)[1] \in Nat /\ OnCongestion(at)[2] \in Nat
         /\ OnCongestion(at)[3] \in Nat
<1> USE ReliableAssumption
<1>1. cwnd \in Nat /\ ssthresh \in Nat /\ next_tx \in Nat /\ recovery_tx \in Nat
  BY DEF SenderOK
<1>2. (cwnd + 1) \div 2 \in Nat
  BY <1>1
<1>3. Larger((cwnd + 1) \div 2, CWND_MIN) \in Nat
  BY <1>2 DEF Larger
<1>4. CASE at >= recovery_tx
  BY <1>1, <1>3, <1>4 DEF OnCongestion
<1>5. CASE ~(at >= recovery_tx)
  BY <1>1, <1>5 DEF OnCongestion
<1> QED
  BY <1>4, <1>5

\* What a transmission does to a chunk.
LEMMA TransmittedChunk ==
  ASSUME NEW c \in Chunk, NEW n \in Nat
  PROVE  /\ Transmitted(c, n) \in Chunk /\ Transmitted(c, n).sent
         /\ Transmitted(c, n).acked = c.acked /\ Transmitted(c, n).tx = n
         /\ Transmitted(c, n).retries = IF c.sent THEN c.retries + 1 ELSE c.retries
<1>1. c.retries \in Nat /\ c.sent \in BOOLEAN
  BY DEF Chunk
<1>2. CASE c.sent
  <2> DEFINE m == c.retries + 1
  <2>1. m \in Nat /\ (IF c.sent THEN c.retries + 1 ELSE c.retries) = m
    BY <1>1, <1>2
  <2>2. Transmitted(c, n) = [c EXCEPT !.sent = TRUE, !.lost = FALSE, !.tx = n, !.retries = m]
    BY <2>1 DEF Transmitted
  <2> HIDE DEF m
  <2> QED
    BY <2>1, <2>2 DEF Chunk
<1>3. CASE ~c.sent
  BY <1>1, <1>3 DEF Transmitted, Chunk
<1> QED
  BY <1>2, <1>3

\* Sender::poll transmits chunks of the window the receiver can take, and a
\* chunk it transmits again no longer counts as sent once.
LEMMA PollIInv ==
  ASSUME IInv, NEW T, NEW b, Poll(T, b)
  PROVE  IInv'
<1> USE ReliableAssumption DEF IInv, TypeOK
<1> DEFINE q1 == MarkLost(queue, T)
           cut == IF T = {} THEN <<cwnd, ssthresh, recovery_tx>>
                  ELSE OnCongestion(Max({queue[s].tx : s \in T}))
           room == Room(cut[1], q1)
           go == {s \in Eligible(q1) : Rank(s, Eligible(q1)) < Smaller(room, b)}
           tx(s) == next_tx + Rank(s, go)
<1>1. PICK front \in 1..next_seq : queue \in [front..(next_seq - 1) -> Chunk]
  BY DEF SenderOK, QueueOK
<1>2. /\ next_seq \in Nat /\ next_seq >= 1 /\ next_tx \in Nat /\ next_tx >= 1
      /\ front \in Nat /\ front >= 1 /\ front <= next_seq
      /\ DOMAIN queue = front..(next_seq - 1)
  BY <1>1 DEF SenderOK
<1>3. /\ queue' = [s \in DOMAIN queue |->
                     IF s \in go THEN Transmitted(q1[s], tx(s)) ELSE q1[s]]
      /\ next_tx' = next_tx + Cardinality(go)
      /\ cwnd' = cut[1] /\ ssthresh' = cut[2] /\ recovery_tx' = cut[3]
      /\ data' = data \union {[seq |-> s, last |-> queue[s].last, tx |-> tx(s)] : s \in go}
  BY DEF Poll
<1>4. /\ UNCHANGED <<next_seq, acked_tx, wide, acks, arrived>>
      /\ UNCHANGED <<cum, pending, partial, oversize, unacked, urgent>>
  BY DEF Poll, rcvVars
<1>5. DOMAIN q1 = DOMAIN queue
      /\ \A s \in DOMAIN queue : /\ q1[s] \in Chunk
                                 /\ q1[s].sent = queue[s].sent /\ q1[s].tx = queue[s].tx
                                 /\ q1[s].retries = queue[s].retries
                                 /\ q1[s].acked = queue[s].acked
  BY <1>1, <1>2 DEF MarkLost, Chunk
<1>6. /\ go \subseteq DOMAIN queue
      /\ \A s \in go : ~queue[s].acked /\ \A r \in DOMAIN queue : s - r < Span(wide)
  BY <1>5 DEF Eligible, Window
<1>7. IsFiniteSet(go) /\ Cardinality(go) \in Nat
  <2>1. IsFiniteSet(front..(next_seq - 1))
    BY <1>2, FS_Interval
  <2> HIDE DEF go
  <2>2. IsFiniteSet(go)
    BY <1>2, <1>6, <2>1, FS_Subset
  <2> QED
    BY <2>2, FS_CardinalityType
<1> HIDE DEF q1, cut, room, go
<1>8. ASSUME NEW s \in go
      PROVE  tx(s) \in Nat /\ tx(s) < next_tx + Cardinality(go)
  <2> DEFINE below == {r \in go : r < s}
  <2>1. s \in Nat
    BY <1>2, <1>6
  <2>2. below \subseteq go /\ below # go
    BY <2>1
  <2>3. Cardinality(below) \in Nat /\ Cardinality(below) <= Cardinality(go)
        /\ Cardinality(below) # Cardinality(go)
    <3> HIDE DEF below
    <3>1. IsFiniteSet(below) /\ Cardinality(below) <= Cardinality(go)
          /\ (Cardinality(go) = Cardinality(below) => go = below)
      BY <1>7, <2>2, FS_Subset
    <3> QED
      BY <2>2, <3>1, FS_CardinalityType
  <2> QED
    BY <1>2, <1>7, <2>3 DEF Rank
<1>9. ASSUME NEW s \in go
      PROVE  /\ s \in DOMAIN queue /\ s \in Nat /\ s < next_seq
             /\ queue'[s] \in Chunk /\ queue'[s].sent /\ ~queue'[s].acked
             /\ queue'[s].tx = tx(s)
             /\ queue'[s].retries = IF queue[s].sent THEN queue[s].retries + 1
                                                     ELSE queue[s].retries
  <2> HIDE DEF tx
  <2>1. queue'[s] = Transmitted(q1[s], tx(s))
    BY <1>3, <1>6 DEF tx
  <2>2. q1[s] \in Chunk /\ tx(s) \in Nat /\ s \in DOMAIN queue
    BY <1>5, <1>6, <1>8 DEF tx
  <2>3. /\ queue'[s] \in Chunk /\ queue'[s].sent
        /\ queue'[s].acked = q1[s].acked /\ queue'[s].tx = tx(s)
        /\ queue'[s].retries = IF q1[s].sent THEN q1[s].retries + 1 ELSE q1[s].retries
    <3>1. ASSUME NEW c \in Chunk, NEW n \in Nat, queue'[s] = Transmitted(c, n)
          PROVE  /\ queue'[s] \in Chunk /\ queue'[s].sent
                 /\ queue'[s].acked = c.acked /\ queue'[s].tx = n
                 /\ queue'[s].retries = IF c.sent THEN c.retries + 1 ELSE c.retries
      BY ONLY <3>1, TransmittedChunk
    <3> QED
      BY ONLY <2>1, <2>2, <3>1
  <2> QED
    BY <1>2, <1>5, <1>6, <2>2, <2>3
<1>10. ASSUME NEW s \in DOMAIN queue, s \notin go
       PROVE  /\ queue'[s] \in Chunk
              /\ queue'[s].sent = queue[s].sent /\ queue'[s].acked = queue[s].acked
              /\ queue'[s].tx = queue[s].tx /\ queue'[s].retries = queue[s].retries
  BY <1>3, <1>5, <1>10
<1>11. DOMAIN queue' = DOMAIN queue
  BY <1>3
<1>12. queue' \in [front..(next_seq - 1) -> Chunk]
  <2>1. \A s \in DOMAIN queue : queue'[s] \in Chunk
    BY <1>9, <1>10
  <2> QED
    BY <1>2, <1>3, <2>1
<1>13. \A p \in data' : p \in data \/ (p.seq \in go /\ p.tx = tx(p.seq)
                                       /\ p.last = queue[p.seq].last
                                       /\ p = [seq |-> p.seq, last |-> p.last, tx |-> p.tx])
  <2> SUFFICES ASSUME NEW p \in data', p \notin data
               PROVE  /\ p.seq \in go /\ p.tx = tx(p.seq) /\ p.last = queue[p.seq].last
                      /\ p = [seq |-> p.seq, last |-> p.last, tx |-> p.tx]
    OBVIOUS
  <2> HIDE DEF tx
  <2>1. PICK s \in go : p = [seq |-> s, last |-> queue[s].last, tx |-> tx(s)]
    BY <1>3 DEF tx
  <2> QED
    BY <2>1
<1> HIDE DEF tx
<1>14. TypeOK'
  <2>1. QueueOK'
    BY <1>2, <1>4, <1>12 DEF QueueOK
  <2>2. cwnd' \in Nat /\ ssthresh' \in Nat /\ recovery_tx' \in Nat
    <3>1. CASE T = {}
      BY <1>3, <3>1 DEF cut, SenderOK
    <3>2. CASE T # {}
      BY <1>3, <3>2, CutType DEF cut
    <3> QED
      BY <3>1, <3>2
  <2>6. wide' \in BOOLEAN
    BY <1>4, Zenon DEF SenderOK
  <2>3. SenderOK'
    BY <1>2, <1>3, <1>4, <1>7, <2>1, <2>2, <2>6 DEF SenderOK
  <2>4. ReceiverOK'
    BY <1>4 DEF ReceiverOK
  <2>5. \A p \in data' : p \in [seq : Nat, last : BOOLEAN, tx : Nat]
    <3>1. \A s \in go : queue[s].last \in BOOLEAN
      BY <1>1, <1>2, <1>6 DEF Chunk
    <3> QED
      BY <1>8, <1>9, <1>13, <3>1 DEF LinkOK
  <2> QED
    BY <1>4, <2>3, <2>4, <2>5 DEF LinkOK
<1>15. NoChunkForgotten'
  BY <1>4, <1>9, <1>10, <1>11 DEF NoChunkForgotten, Received
<1>16. NeverNonsense'
  <2>1. front <= cum + 1
    BY <1>2, FrontReceived
  <2>2. cum \in Nat /\ Span(wide) <= WIDE_SPAN /\ Span(wide) \in Nat
    BY DEF ReceiverOK, Span
  <2>3. \A s \in go : s - cum <= WIDE_SPAN
    <3>1. ASSUME NEW s \in go PROVE s - front < Span(wide) /\ s \in Nat
      <4>1. front \in DOMAIN queue
        BY <1>2, <1>9
      <4> QED
        BY <1>6, <1>9, <4>1
    <3> QED
      BY <1>2, <2>1, <2>2, <3>1
  <2> QED
    BY <1>4, <1>10, <1>11, <2>3 DEF NeverNonsense
<1>17. AckedTxArrived' /\ AcksTruthful' /\ PendingShape'
  BY <1>4 DEF AckedTxArrived, AcksTruthful, PendingShape, Received
<1>18. TxBound'
  <2>1. \A s \in DOMAIN queue : queue[s].tx \in Nat
    BY <1>1, <1>2 DEF Chunk
  <2>2. \A s \in DOMAIN queue : queue'[s].tx < next_tx + Cardinality(go)
    BY <1>2, <1>7, <1>8, <1>9, <1>10, <2>1 DEF TxBound
  <2>3. acked_tx < next_tx + Cardinality(go)
    BY <1>2, <1>7 DEF TxBound, SenderOK
  <2> QED
    BY <1>3, <1>4, <1>11, <2>2, <2>3 DEF TxBound
<1>19. OnlySent'
  BY <1>4, <1>9, <1>13 DEF OnlySent
<1>20. SentOnce'
  <2>1. \A s \in go : queue[s].sent => queue'[s].retries # 0
    BY <1>1, <1>2, <1>9 DEF Chunk
  <2>2. \A p \in data' : p.seq \in DOMAIN queue =>
          queue'[p.seq].sent /\ (queue'[p.seq].retries = 0 => p.tx = queue'[p.seq].tx)
    BY <1>9, <1>10, <1>13, <2>1 DEF SentOnce
  <2>3. \A s \in DOMAIN queue : Received(s) =>
          queue'[s].sent /\ (queue'[s].retries = 0 => queue'[s].tx \in arrived)
    BY <1>9, <1>10, <2>1 DEF SentOnce
  <2> QED
    BY <1>4, <1>11, <2>2, <2>3 DEF SentOnce, Received
<1> QED
  BY <1>14, <1>15, <1>16, <1>17, <1>18, <1>19, <1>20

\* Receiver::on_data never gives up a chunk it holds, and comes to hold only
\* the one that has just arrived.
LEMMA DataIInv ==
  ASSUME IInv, NEW p \in data, NEW again \in BOOLEAN, DeliverData(p, again)
  PROVE  IInv'
<1> USE ReliableAssumption DEF IInv, TypeOK
<1>1. /\ UNCHANGED <<next_seq, queue, next_tx, acked_tx, recovery_tx, cwnd, ssthresh, wide>>
      /\ acks' = acks /\ data' \subseteq data
      /\ arrived' = arrived \union {p.tx}
      /\ unacked' = Smaller(unacked + 1, ACK_EVERY)
  BY DEF DeliverData, OnData, Counted, sndVars
<1>2. p.seq \in Nat /\ p.tx \in Nat /\ p.last \in BOOLEAN /\ p.seq < next_seq
  BY DEF LinkOK, OnlySent
<1>3. cum \in Nat /\ next_seq \in Nat /\ DOMAIN pending \subseteq (cum + 2)..(cum + WIDE_SPAN)
  BY DEF ReceiverOK, SenderOK, PendingShape
<1>4. SenderOK' /\ LinkOK' /\ unacked' \in 0..ACK_EVERY /\ TxBound' /\ AckedTxArrived'
  <2>1. SenderOK'
    BY <1>1 DEF SenderOK, QueueOK
  <2>2. LinkOK'
    BY <1>1, <1>2 DEF LinkOK
  <2>3. unacked' \in 0..ACK_EVERY
    BY <1>1 DEF Smaller, ReceiverOK
  <2> QED
    BY <1>1, <2>1, <2>2, <2>3 DEF TxBound, AckedTxArrived
<1>5. CASE p.seq - cum <= 0 \/ p.seq - cum > WIDE_SPAN
  <2>1. UNCHANGED <<cum, pending>> /\ urgent' = TRUE
    BY <1>5 DEF DeliverData, OnData
  <2>2. ReceiverOK'
    BY <1>4, <2>1 DEF ReceiverOK
  <2>3. NoChunkForgotten' /\ NeverNonsense' /\ AcksTruthful' /\ PendingShape'
    BY <1>1, <2>1 DEF NoChunkForgotten, NeverNonsense, AcksTruthful, PendingShape, Received
  <2>4. OnlySent' /\ SentOnce'
    BY <1>1, <2>1 DEF OnlySent, SentOnce, Received
  <2> QED
    BY <1>4, <2>2, <2>3, <2>4
<1>6. CASE ~(p.seq - cum <= 0 \/ p.seq - cum > WIDE_SPAN)
  <2> DEFINE held == [s \in DOMAIN pending \union {p.seq} |->
                        IF s \in DOMAIN pending THEN pending[s] ELSE p.last]
             n == FirstMissing(DOMAIN held, cum)
             upto == n - 1
  <2>1. /\ cum' = upto
        /\ pending' = Restrict(held, {s \in DOMAIN held : s > upto})
        /\ urgent' \in BOOLEAN
    <3>1. urgent' \in BOOLEAN
      BY <1>6, Zenon DEF DeliverData, OnData
    <3> QED
      BY <1>6, <3>1 DEF DeliverData, OnData
  <2>2. DOMAIN held = DOMAIN pending \union {p.seq}
    OBVIOUS
  <2>3. \A s \in DOMAIN held : held[s] \in BOOLEAN /\ s \in Nat /\ s < next_seq
                               /\ s > cum /\ s <= cum + WIDE_SPAN
    <3>1. ASSUME NEW s \in DOMAIN pending
          PROVE  pending[s] \in BOOLEAN /\ s \in Nat /\ s < next_seq /\ s > cum /\ s <= cum + WIDE_SPAN
      BY <1>3 DEF ReceiverOK, OnlySent
    <3>2. p.seq > cum /\ p.seq <= cum + WIDE_SPAN
      BY <1>2, <1>3, <1>6
    <3> QED
      BY <1>2, <3>1, <3>2
  <2> HIDE DEF held
  <2>4. /\ n \in Nat /\ n > cum /\ n <= cum + WIDE_SPAN + 1
        /\ n \notin DOMAIN held /\ (cum + 1)..(n - 1) \subseteq DOMAIN held
    BY <1>3, <2>3, FirstMissingExists
  <2> HIDE DEF n
  <2>5. upto \in Nat /\ upto >= cum
    BY <1>3, <2>4
  <2>6. /\ DOMAIN pending' = {s \in DOMAIN held : s > upto}
        /\ \A s \in DOMAIN pending' : pending'[s] = held[s]
    BY <2>1 DEF Restrict
  <2>7. \A s \in Nat : Received(s) => (s <= upto \/ s \in DOMAIN pending')
    BY <1>3, <2>2, <2>3, <2>5, <2>6 DEF Received
  <2>8. \A s \in Nat : (s <= upto \/ s \in DOMAIN pending') => Received(s) \/ s = p.seq
    BY <1>3, <2>2, <2>4, <2>5, <2>6 DEF Received
  <2>9. ReceiverOK'
    <3>1. pending' \in [DOMAIN pending' -> BOOLEAN]
      <4>1. pending' = [s \in DOMAIN pending' |-> held[s]]
        BY <2>1, <2>6 DEF Restrict
      <4>2. \A s \in DOMAIN pending' : held[s] \in BOOLEAN
        BY <2>3, <2>6
      <4> HIDE DEF upto
      <4> QED
        BY <4>1, <4>2
    <3>2. DOMAIN pending' \subseteq Nat
      BY <2>3, <2>6
    <3> QED
      BY <1>4, <2>1, <2>5, <3>1, <3>2 DEF ReceiverOK
  <2>10. PendingShape'
    <3>1. ASSUME NEW s \in DOMAIN pending'
          PROVE  s \in (upto + 2)..(upto + WIDE_SPAN)
      <4>1. s \in Nat /\ s > upto /\ s # n /\ s <= cum + WIDE_SPAN
        BY <2>3, <2>4, <2>6
      <4> QED
        BY <1>3, <2>4, <2>5, <4>1
    <3> QED
      BY <2>1, <3>1 DEF PendingShape
  <2>11. NoChunkForgotten'
    <3>1. \A s \in 1..(next_seq - 1) : (s \notin DOMAIN queue \/ queue[s].acked) =>
            (s <= upto \/ s \in DOMAIN pending')
      BY <2>7 DEF NoChunkForgotten
    <3> HIDE DEF upto
    <3> QED
      BY <1>1, <2>1, <3>1 DEF NoChunkForgotten, Received
  <2>12. NeverNonsense'
    <3>1. \A s \in DOMAIN queue : s \in Int
      BY DEF SenderOK, QueueOK
    <3> QED
      BY <1>1, <1>3, <2>1, <2>5, <3>1 DEF NeverNonsense
  <2>13. AcksTruthful'
    <3>1. \A a \in acks : a.cum \in Nat /\ a.bits \subseteq Nat
      BY DEF LinkOK
    <3>2. \A a \in acks : a.cum <= upto
      BY <1>3, <2>5, <3>1 DEF AcksTruthful
    <3>3. \A a \in acks : \A s \in a.bits : s <= upto \/ s \in DOMAIN pending'
      BY <2>7, <3>1 DEF AcksTruthful
    <3> QED
      BY <1>1, <2>1, <3>2, <3>3 DEF AcksTruthful, Received
  <2>14. OnlySent'
    <3>1. upto < next_seq
      <4>1. CASE upto = cum
        BY <4>1 DEF OnlySent
      <4>2. CASE upto # cum
        <5>1. upto \in DOMAIN held
          BY <1>3, <2>4, <2>5, <4>2
        <5> QED
          BY <2>3, <5>1
      <4> QED
        BY <4>1, <4>2
    <3> QED
      BY <1>1, <2>1, <2>3, <2>6, <3>1 DEF OnlySent
  <2>15. SentOnce'
    <3>1. \A s \in DOMAIN queue : s \in Nat
      BY DEF SenderOK, QueueOK
    <3>2. ASSUME NEW s \in DOMAIN queue, s <= upto \/ s \in DOMAIN pending'
          PROVE  queue[s].sent /\ (queue[s].retries = 0 => queue[s].tx \in arrived \union {p.tx})
      <4>1. CASE Received(s)
        BY <4>1 DEF SentOnce
      <4>2. CASE s = p.seq
        BY <4>2 DEF SentOnce
      <4> QED
        BY <2>8, <3>1, <3>2, <4>1, <4>2
    <3>3. \A q \in data' : q.seq \in DOMAIN queue =>
            queue[q.seq].sent /\ (queue[q.seq].retries = 0 => q.tx = queue[q.seq].tx)
      BY <1>1 DEF SentOnce
    <3> HIDE DEF upto
    <3> QED
      BY <1>1, <2>1, <3>2, <3>3 DEF SentOnce, Received
  <2> QED
    BY <1>4, <2>9, <2>10, <2>11, <2>12, <2>13, <2>14, <2>15
<1> QED
  BY <1>5, <1>6

\* Receiver::ack tells what the receiver holds.
LEMMA AckIInv ==
  ASSUME IInv, NEW delayed \in BOOLEAN, Ack(delayed)
  PROVE  IInv'
<1> USE ReliableAssumption DEF IInv, TypeOK
<1>1. /\ UNCHANGED <<next_seq, queue, next_tx, acked_tx, recovery_tx, cwnd, ssthresh, wide>>
      /\ UNCHANGED <<cum, pending, data, arrived>>
      /\ unacked' = 0 /\ urgent' = FALSE
      /\ acks' = acks \union {[cum |-> cum, bits |-> {s \in DOMAIN pending : s - (cum + 1) < WIDE_SPAN}]}
  BY DEF Ack, sndVars
<1>2. SenderOK' /\ ReceiverOK'
  <2>1. urgent' \in BOOLEAN
    BY <1>1, Zenon
  <2>2. ReceiverOK'
    BY <1>1, <2>1 DEF ReceiverOK
  <2> QED
    BY <1>1, <2>2 DEF SenderOK, QueueOK
<1>3. LinkOK'
  BY <1>1 DEF LinkOK, ReceiverOK
<1>4. AcksTruthful'
  <2>1. \A a \in acks' : a.cum <= cum /\ \A s \in a.bits : Received(s)
    BY <1>1 DEF AcksTruthful, Received, ReceiverOK
  <2> QED
    BY <1>1, <2>1 DEF AcksTruthful, Received
<1>5. NoChunkForgotten' /\ NeverNonsense' /\ AckedTxArrived' /\ PendingShape' /\ TxBound'
  BY <1>1 DEF NoChunkForgotten, NeverNonsense, AckedTxArrived, PendingShape, TxBound, Received
<1>6. OnlySent' /\ SentOnce'
  BY <1>1 DEF OnlySent, SentOnce, Received
<1> QED
  BY <1>2, <1>3, <1>4, <1>5, <1>6

\* Losing a datagram changes nothing anybody relies on.
LEMMA LoseIInv ==
  ASSUME IInv, (\E p \in data : LoseData(p)) \/ (\E a \in acks : LoseAck(a))
  PROVE  IInv'
<1> USE ReliableAssumption DEF IInv, TypeOK
<1>1. /\ UNCHANGED <<next_seq, queue, next_tx, acked_tx, recovery_tx, cwnd, ssthresh, wide>>
      /\ UNCHANGED <<cum, pending, unacked, urgent, arrived>>
      /\ data' \subseteq data /\ acks' \subseteq acks
  BY DEF LoseData, LoseAck, sndVars, rcvVars
<1>2. SenderOK' /\ ReceiverOK' /\ LinkOK'
  BY <1>1 DEF SenderOK, QueueOK, ReceiverOK, LinkOK
<1>3. NoChunkForgotten' /\ NeverNonsense' /\ AckedTxArrived' /\ PendingShape' /\ TxBound'
  BY <1>1 DEF NoChunkForgotten, NeverNonsense, AckedTxArrived, PendingShape, TxBound, Received
<1>4. OnlySent' /\ SentOnce' /\ AcksTruthful'
  BY <1>1 DEF OnlySent, SentOnce, AcksTruthful, Received
<1> QED
  BY <1>2, <1>3, <1>4

\* Sender::on_ack lets go only of what the ack says has arrived.
LEMMA OnAckIInv ==
  ASSUME IInv, NEW a \in acks, NEW again \in BOOLEAN, NEW queued \in BOOLEAN,
         NEW growth, DeliverAck(a, again, queued, growth)
  PROVE  IInv'
<1> USE ReliableAssumption DEF IInv, TypeOK
<1> DEFINE popped == {s \in DOMAIN queue : s <= a.cum}
           picked == {s \in DOMAIN queue : Selected(a, s)}
           newly  == {s \in popped \union picked : queue[s].sent /\ ~queue[s].acked}
           sample == {queue[s].tx : s \in {r \in newly : Unambiguous(queue[r])}}
           top    == Max(sample \union {acked_tx})
           q1     == [s \in DOMAIN queue \ popped |->
                        IF s \in picked THEN [queue[s] EXCEPT !.acked = TRUE, !.lost = FALSE]
                                        ELSE queue[s]]
           late   == {s \in Window(q1, TRUE) : InFlight(q1[s]) /\ q1[s].tx + REORDER <= top}
           q2     == MarkLost(q1, late)
           signs  == {q1[s].tx : s \in late} \union (IF queued THEN {Max(sample)} ELSE {})
           cut    == OnCongestion(Max(signs))
           kept   == FromFirstUnacked(q2)
<1>1. PICK front \in 1..next_seq : queue \in [front..(next_seq - 1) -> Chunk]
  BY DEF SenderOK, QueueOK
<1>2. /\ next_seq \in Nat /\ next_seq >= 1 /\ next_tx \in Nat /\ acked_tx \in Nat
      /\ front \in Nat /\ front >= 1 /\ front <= next_seq /\ cum \in Nat
      /\ DOMAIN queue = front..(next_seq - 1)
  <2>1. cum \in Nat
    BY DEF ReceiverOK
  <2> QED
    BY <1>1, <2>1 DEF SenderOK
<1>3. /\ a.cum \in Nat /\ a.bits \subseteq Nat
      /\ a.cum <= cum /\ \A s \in a.bits : Received(s)
  BY DEF LinkOK, AcksTruthful
<1>4. ~(a.cum >= next_seq)
  BY <1>2, <1>3 DEF OnlySent
<1>5. /\ wide' = TRUE /\ acked_tx' = top
      /\ queue' = Restrict(q2, kept)
      /\ growth \in (IF cwnd < ssthresh THEN {Cardinality(newly)} ELSE 0..Cardinality(newly))
      /\ IF signs # {}
         THEN cwnd' = cut[1] /\ ssthresh' = cut[2] /\ recovery_tx' = cut[3]
         ELSE /\ cwnd' = IF newly = {} THEN cwnd ELSE Smaller(cwnd + growth, WIDE_SPAN)
              /\ UNCHANGED <<ssthresh, recovery_tx>>
  BY <1>4 DEF DeliverAck, OnAck
<1>6. /\ UNCHANGED <<next_seq, next_tx, cum, pending, unacked, urgent, data, arrived>>
      /\ acks' \subseteq acks
  BY DEF DeliverAck, OnAck, rcvVars
<1>7. \A s \in popped \union picked : s \in DOMAIN queue /\ Received(s)
  BY <1>2, <1>3 DEF Received, Selected
<1>8. DOMAIN q2 = {s \in DOMAIN queue : s > a.cum} /\ DOMAIN q1 = DOMAIN q2
  <2>1. DOMAIN q1 = DOMAIN queue \ popped
    OBVIOUS
  <2>2. DOMAIN queue \ popped = {s \in DOMAIN queue : s > a.cum}
    BY <1>2, <1>3
  <2> HIDE DEF q1, late
  <2>3. DOMAIN q2 = DOMAIN q1
    BY DEF MarkLost
  <2> QED
    BY <2>1, <2>2, <2>3
<1>9. ASSUME NEW s \in DOMAIN q2
      PROVE  /\ q2[s] \in Chunk /\ q2[s].sent = queue[s].sent /\ q2[s].tx = queue[s].tx
             /\ q2[s].retries = queue[s].retries
             /\ q2[s].acked => (queue[s].acked \/ Received(s))
  <2>1. s \in DOMAIN q1 /\ s \in DOMAIN queue /\ queue[s] \in Chunk
    BY <1>1, <1>2, <1>8
  <2>2. /\ q1[s] \in Chunk /\ q1[s].sent = queue[s].sent /\ q1[s].tx = queue[s].tx
        /\ q1[s].retries = queue[s].retries
        /\ q1[s].acked => (queue[s].acked \/ s \in picked)
    BY <2>1 DEF Chunk
  <2> HIDE DEF q1, late
  <2>3. /\ q2[s] \in Chunk /\ q2[s].sent = q1[s].sent /\ q2[s].tx = q1[s].tx
        /\ q2[s].retries = q1[s].retries /\ q2[s].acked = q1[s].acked
    BY <2>1, <2>2 DEF MarkLost, Chunk
  <2> QED
    BY <1>7, <2>2, <2>3
<1>10. sample \subseteq Nat /\ \A x \in sample : x < next_tx /\ x \in arrived
  <2>1. ASSUME NEW s \in newly, queue[s].retries = 0
        PROVE  queue[s].tx \in Nat /\ queue[s].tx < next_tx /\ queue[s].tx \in arrived
    <3>1. s \in DOMAIN queue /\ Received(s)
      BY <1>7
    <3>2. queue[s].tx \in Nat
      BY <1>1, <1>2, <3>1 DEF Chunk
    <3> QED
      BY <2>1, <3>1, <3>2 DEF TxBound, SentOnce
  <2> HIDE DEF newly
  <2>2. \A x \in sample : \E s \in newly : queue[s].retries = 0 /\ x = queue[s].tx
    BY DEF Unambiguous
  <2> HIDE DEF sample
  <2> QED
    BY <2>1, <2>2
<1>11. newly \subseteq DOMAIN queue
  BY <1>7
<1>12. Cardinality(newly) \in Nat
  <2>1. IsFiniteSet(front..(next_seq - 1))
    BY <1>2, FS_Interval
  <2> HIDE DEF newly
  <2>2. IsFiniteSet(newly)
    BY <1>2, <1>11, <2>1, FS_Subset
  <2> QED
    BY <2>2, FS_CardinalityType
<1>13. top \in Nat /\ top < next_tx /\ top \in arrived \union {0}
  <2> DEFINE S == sample \union {acked_tx}
  <2>1. acked_tx < next_tx /\ acked_tx \in arrived \union {0}
    BY DEF TxBound, AckedTxArrived
  <2>2. S \subseteq Nat /\ S # {} /\ \A x \in S : x <= next_tx
    <3> HIDE DEF sample
    <3> QED
      BY <1>2, <1>10, <2>1
  <2>3. Max(S) \in S
    <3> HIDE DEF S
    <3> QED
      BY <1>2, <2>2, MaxExists
  <2>4. \A x \in S : x \in Nat /\ x < next_tx /\ x \in arrived \union {0}
    <3> HIDE DEF sample
    <3> QED
      BY <1>2, <1>10, <2>1
  <2> HIDE DEF sample
  <2> QED
    BY <2>3, <2>4
<1> HIDE DEF q1, q2, late, top, sample, newly, signs, cut
<1>14. /\ kept \subseteq DOMAIN queue /\ DOMAIN queue' = kept
       /\ \A s \in kept : queue'[s] = q2[s]
  BY <1>5, <1>8 DEF Restrict, FromFirstUnacked
<1> USE DEF FromFirstUnacked
<1>15. \E f \in 1..next_seq : kept = f..(next_seq - 1)
  <2> DEFINE U == {u \in DOMAIN q2 : ~q2[u].acked}
  <2>1. U \subseteq Nat
    BY <1>2, <1>8
  <2>2. CASE U = {}
    <3>1. kept = next_seq..(next_seq - 1)
      BY <1>2, <2>2
    <3> QED
      BY <1>2, <3>1
  <2>3. CASE U # {}
    <3> HIDE DEF U
    <3>1. PICK f \in U : \A u \in U : f <= u
      BY <2>1, <2>3, LeastExists
    <3> USE DEF U
    <3>2. f \in 1..next_seq
      BY <1>2, <1>8, <3>1
    <3>3. kept = f..(next_seq - 1)
      <4>1. ASSUME NEW r \in kept PROVE r \in f..(next_seq - 1)
        BY <1>2, <1>8, <3>1
      <4>2. ASSUME NEW r \in f..(next_seq - 1) PROVE r \in kept
        <5>1. r \in DOMAIN q2
          BY <1>2, <1>3, <1>8, <3>1
        <5> QED
          BY <3>1, <5>1
      <4> QED
        BY <4>1, <4>2
    <3> QED
      BY <3>2, <3>3
  <2> QED
    BY <2>2, <2>3
<1>16. PICK f \in 1..next_seq : kept = f..(next_seq - 1)
  BY <1>15
<1>17. ASSUME NEW s \in DOMAIN queue, s \notin kept PROVE Received(s)
  <2>1. s \in Nat
    BY <1>2
  <2>2. CASE s <= a.cum
    BY <1>2, <1>3, <2>1, <2>2 DEF Received
  <2>3. CASE ~(s <= a.cum)
    <3>1. s \in DOMAIN q2
      BY <1>3, <1>8, <2>1, <2>3
    <3>2. q2[s].acked
      BY <1>17, <2>1, <3>1
    <3>3. queue[s].acked \/ Received(s)
      BY <1>9, <3>1, <3>2
    <3>4. s \in 1..(next_seq - 1)
      BY <1>2
    <3> QED
      BY <3>3, <3>4 DEF NoChunkForgotten
  <2> QED
    BY <2>2, <2>3
<1>18. \A s \in kept : s \in DOMAIN q2 /\ s \in DOMAIN queue
  BY <1>14
<1> HIDE DEF kept
<1>19. TypeOK'
  <2>1. QueueOK'
    <3>1. queue' = [s \in kept |-> q2[s]]
      BY <1>5, <1>14 DEF Restrict
    <3>2. \A s \in kept : q2[s] \in Chunk
      BY <1>9, <1>18
    <3>3. queue' \in [kept -> Chunk]
      BY <3>1, <3>2
    <3> QED
      BY <1>6, <1>16, <3>3 DEF QueueOK
  <2>2. cwnd' \in Nat /\ ssthresh' \in Nat /\ recovery_tx' \in Nat
    <3>1. CASE signs # {}
      BY <1>5, <3>1, CutType DEF cut
    <3>2. CASE signs = {}
      <4>1. cwnd \in Nat /\ ssthresh \in Nat /\ recovery_tx \in Nat
        BY DEF SenderOK
      <4>2. growth \in Nat
        BY <1>5, <1>12
      <4>3. Smaller(cwnd + growth, WIDE_SPAN) \in Nat
        BY <4>1, <4>2 DEF Smaller
      <4> QED
        BY <1>5, <3>2, <4>1, <4>3
    <3> QED
      BY <3>1, <3>2
  <2>3. wide' \in BOOLEAN
    BY <1>5, Zenon
  <2>4. SenderOK'
    BY <1>5, <1>6, <1>13, <2>1, <2>2, <2>3 DEF SenderOK
  <2>5. ReceiverOK' /\ LinkOK'
    BY <1>6 DEF ReceiverOK, LinkOK
  <2> QED
    BY <2>4, <2>5
<1>20. NoChunkForgotten'
  <2>1. \A s \in 1..(next_seq - 1) : (s \notin kept \/ q2[s].acked) => Received(s)
    <3>1. ASSUME NEW s \in 1..(next_seq - 1), s \notin DOMAIN queue PROVE Received(s)
      BY <3>1 DEF NoChunkForgotten
    <3>2. ASSUME NEW s \in 1..(next_seq - 1), s \in kept, q2[s].acked PROVE Received(s)
      BY <1>9, <1>18, <3>2 DEF NoChunkForgotten
    <3> QED
      BY <1>17, <3>1, <3>2
  <2> QED
    BY <1>6, <1>14, <2>1 DEF NoChunkForgotten, Received
<1>21. NeverNonsense'
  BY <1>6, <1>9, <1>14, <1>18 DEF NeverNonsense
<1>22. AckedTxArrived'
  BY <1>5, <1>6, <1>13 DEF AckedTxArrived
<1>23. AcksTruthful' /\ PendingShape' /\ OnlySent'
  BY <1>6 DEF AcksTruthful, PendingShape, OnlySent, Received
<1>24. TxBound'
  BY <1>5, <1>6, <1>9, <1>13, <1>14, <1>18 DEF TxBound
<1>25. SentOnce'
  <2>1. \A p \in data : p.seq \in kept =>
          q2[p.seq].sent /\ (q2[p.seq].retries = 0 => p.tx = q2[p.seq].tx)
    BY <1>9, <1>18 DEF SentOnce
  <2>2. \A s \in kept : Received(s) =>
          q2[s].sent /\ (q2[s].retries = 0 => q2[s].tx \in arrived)
    BY <1>9, <1>18 DEF SentOnce
  <2> QED
    BY <1>6, <1>14, <2>1, <2>2 DEF SentOnce, Received
<1> QED
  BY <1>19, <1>20, <1>21, <1>22, <1>23, <1>24, <1>25

LEMMA NextIInv == IInv /\ [Next]_vars => IInv'
<1> SUFFICES ASSUME IInv, [Next]_vars PROVE IInv'
  OBVIOUS
<1>1. ASSUME NEW k \in 1..MaxChunks, Send(k) PROVE IInv'
  BY <1>1, SendIInv
<1>2. ASSUME NEW T, NEW b, Poll(T, b) PROVE IInv'
  BY <1>2, PollIInv
<1>3. ASSUME NEW p \in data, NEW again \in BOOLEAN, DeliverData(p, again) PROVE IInv'
  BY <1>3, DataIInv
<1>4. ASSUME NEW delayed \in BOOLEAN, Ack(delayed) PROVE IInv'
  BY <1>4, AckIInv
<1>5. ASSUME NEW a \in acks, NEW again \in BOOLEAN, NEW queued \in BOOLEAN, NEW g,
             DeliverAck(a, again, queued, g)
      PROVE  IInv'
  BY <1>5, OnAckIInv
<1>6. ASSUME (\E p \in data : LoseData(p)) \/ (\E a \in acks : LoseAck(a)) PROVE IInv'
  BY <1>6, LoseIInv
<1>7. CASE UNCHANGED vars
  BY <1>7 DEF vars, sndVars, rcvVars, IInv, TypeOK, SenderOK, QueueOK, ReceiverOK, LinkOK,
     NoChunkForgotten, NeverNonsense, AckedTxArrived, AcksTruthful, PendingShape, TxBound,
     OnlySent, SentOnce, Received
<1>8. CASE Next
  BY <1>1, <1>2, <1>3, <1>4, <1>5, <1>6, <1>8 DEF Next
<1> QED
  BY <1>7, <1>8

\* The strengthened invariant holds in every reachable state of the channel.
THEOREM Inductive == Spec => []IInv
BY InitIInv, NextIInv, PTL DEF Spec

\* Types are kept, and the queue stays contiguous (Sender.queue's comment).
THEOREM TypeCorrect == Spec => []TypeOK
<1>1. IInv => TypeOK
  BY DEF IInv
<1> QED
  BY <1>1, Inductive, PTL

\* Sender::on_ack never lets go of a chunk the receiver does not hold, for any
\* spans, windows, losses, repetitions and reorderings.
THEOREM NothingForgotten == Spec => []NoChunkForgotten
<1>1. IInv => NoChunkForgotten
  BY DEF IInv
<1> QED
  BY <1>1, Inductive, PTL

\* Receiver::on_data never refuses a chunk the sender transmitted.
THEOREM NothingRefused == Spec => []NeverNonsense
<1>1. IInv => NeverNonsense
  BY DEF IInv
<1> QED
  BY <1>1, Inductive, PTL

\* Karn's rule keeps acked_tx to transmissions that really arrived.
THEOREM KarnSound == Spec => []AckedTxArrived
<1>1. IInv => AckedTxArrived
  BY DEF IInv
<1> QED
  BY <1>1, Inductive, PTL

-----------------------------------------------------------------------------
(* What is acknowledged is left alone *)

\* A chunk that is acknowledged does not count as lost.
Settled == \A s \in DOMAIN queue : queue[s].acked => ~queue[s].lost

LeftAlone ==
  \A s \in DOMAIN queue \intersect DOMAIN queue' : queue[s].acked => queue'[s] = queue[s]

LEMMA SendSettled ==
  ASSUME Settled, NEW k \in 1..MaxChunks, Send(k)
  PROVE  Settled' /\ LeftAlone
<1>1. queue' = [s \in DOMAIN queue \union next_seq..(next_seq + k - 1) |->
                  IF s \in DOMAIN queue THEN queue[s] ELSE FreshChunk(s = next_seq + k - 1)]
  BY DEF Send
<1>2. \A b : ~FreshChunk(b).acked
  BY DEF FreshChunk
<1>3. \A s \in DOMAIN queue' : IF s \in DOMAIN queue THEN queue'[s] = queue[s] ELSE ~queue'[s].acked
  BY <1>1, <1>2
<1> QED
  BY <1>3 DEF Settled, LeftAlone

\* poll marks what is in flight as lost, and transmits what is not acknowledged.
LEMMA PollSettled ==
  ASSUME IInv, Settled, NEW T, NEW b, Poll(T, b)
  PROVE  Settled' /\ LeftAlone
<1> DEFINE q1 == MarkLost(queue, T)
           cut == IF T = {} THEN <<cwnd, ssthresh, recovery_tx>>
                  ELSE OnCongestion(Max({queue[s].tx : s \in T}))
           room == Room(cut[1], q1)
           go == {s \in Eligible(q1) : Rank(s, Eligible(q1)) < Smaller(room, b)}
           tx(s) == next_tx + Rank(s, go)
<1>1. PICK front \in 1..next_seq : queue \in [front..(next_seq - 1) -> Chunk]
  BY DEF IInv, TypeOK, SenderOK, QueueOK
<1>2. /\ queue' = [s \in DOMAIN queue |->
                     IF s \in go THEN Transmitted(q1[s], tx(s)) ELSE q1[s]]
      /\ \A s \in T : ~queue[s].acked
  BY DEF Poll, InFlight
<1>3. \A s \in DOMAIN queue : q1[s].acked = queue[s].acked
  BY <1>1 DEF MarkLost, Chunk
<1>4. \A s \in DOMAIN queue : queue[s].acked => q1[s] = queue[s]
  BY <1>2 DEF MarkLost
<1>5. \A s \in go : s \in DOMAIN queue /\ ~q1[s].acked
  <2>1. DOMAIN q1 = DOMAIN queue
    BY DEF MarkLost
  <2> HIDE DEF q1
  <2> QED
    BY <2>1 DEF Eligible, Window
<1> HIDE DEF q1, go
<1>6. \A c, n : Transmitted(c, n).acked = c.acked
  BY DEF Transmitted
<1>7. \A s \in DOMAIN queue : queue[s].acked => queue'[s] = queue[s]
  BY <1>2, <1>3, <1>4, <1>5
<1>8. \A s \in DOMAIN queue : queue'[s].acked => queue[s].acked
  <2> HIDE DEF tx
  <2> SUFFICES ASSUME NEW s \in DOMAIN queue, queue'[s].acked PROVE queue[s].acked
    OBVIOUS
  <2>1. CASE s \in go
    BY <1>2, <1>5, <1>6, <2>1
  <2>2. CASE s \notin go
    BY <1>2, <1>3, <2>2
  <2> QED
    BY <2>1, <2>2
<1>9. DOMAIN queue' = DOMAIN queue
  BY <1>2
<1> QED
  BY <1>7, <1>8, <1>9 DEF Settled, LeftAlone

\* on_ack marks as lost only what it does not acknowledge.
LEMMA OnAckSettled ==
  ASSUME IInv, Settled, NEW a, NEW queued \in BOOLEAN, NEW growth, OnAck(a, queued, growth)
  PROVE  Settled' /\ LeftAlone
<1> DEFINE popped == {s \in DOMAIN queue : s <= a.cum}
           picked == {s \in DOMAIN queue : Selected(a, s)}
           newly  == {s \in popped \union picked : queue[s].sent /\ ~queue[s].acked}
           sample == {queue[s].tx : s \in {r \in newly : Unambiguous(queue[r])}}
           top    == Max(sample \union {acked_tx})
           q1     == [s \in DOMAIN queue \ popped |->
                        IF s \in picked THEN [queue[s] EXCEPT !.acked = TRUE, !.lost = FALSE]
                                        ELSE queue[s]]
           late   == {s \in Window(q1, TRUE) : InFlight(q1[s]) /\ q1[s].tx + REORDER <= top}
           q2     == MarkLost(q1, late)
<1>1. PICK front \in 1..next_seq : queue \in [front..(next_seq - 1) -> Chunk]
  BY DEF IInv, TypeOK, SenderOK, QueueOK
<1>2. CASE a.cum >= next_seq
  <2>1. queue' = queue
    BY <1>2 DEF OnAck
  <2> QED
    BY <2>1 DEF Settled, LeftAlone
<1>3. CASE ~(a.cum >= next_seq)
  <2>1. queue' = Restrict(q2, FromFirstUnacked(q2))
    BY <1>3 DEF OnAck
  <2>2. DOMAIN q1 \subseteq DOMAIN queue
    OBVIOUS
  <2>3. ASSUME NEW s \in DOMAIN q1
        PROVE  /\ q1[s].acked => ~q1[s].lost
               /\ queue[s].acked => q1[s] = queue[s]
               /\ q1[s] \in Chunk
    <3>1. s \in DOMAIN queue /\ queue[s] \in Chunk
      BY <1>1
    <3>2. queue[s].acked => [queue[s] EXCEPT !.acked = TRUE, !.lost = FALSE] = queue[s]
      BY <3>1 DEF Settled, Chunk
    <3>3. CASE s \in picked
      BY <3>1, <3>2, <3>3 DEF Chunk
    <3>4. CASE s \notin picked
      BY <3>1, <3>4 DEF Settled
    <3> QED
      BY <3>3, <3>4
  <2>4. \A s \in late : ~q1[s].acked
    BY DEF InFlight
  <2> HIDE DEF q1, late
  <2>5. DOMAIN q2 = DOMAIN q1
    BY DEF MarkLost
  <2>6. ASSUME NEW s \in DOMAIN q2
        PROVE  /\ q2[s].acked => ~q2[s].lost
               /\ queue[s].acked => q2[s] = queue[s]
    <3>1. CASE s \in late
      BY <2>3, <2>4, <2>5, <3>1 DEF MarkLost, Chunk
    <3>2. CASE s \notin late
      BY <2>3, <2>5, <3>2 DEF MarkLost
    <3> QED
      BY <3>1, <3>2
  <2> HIDE DEF q2
  <2>7. /\ DOMAIN queue' \subseteq DOMAIN q2
        /\ \A s \in DOMAIN queue' : queue'[s] = q2[s]
    BY <2>1 DEF Restrict, FromFirstUnacked
  <2> QED
    BY <2>6, <2>7 DEF Settled, LeftAlone
<1> QED
  BY <1>2, <1>3

LEMMA NextSettled == IInv /\ Settled /\ [Next]_vars => Settled' /\ (LeftAlone \/ UNCHANGED vars)
<1> SUFFICES ASSUME IInv, Settled, [Next]_vars PROVE Settled' /\ (LeftAlone \/ UNCHANGED vars)
  OBVIOUS
<1>1. ASSUME queue' = queue PROVE Settled' /\ LeftAlone
  BY <1>1 DEF Settled, LeftAlone
<1>2. ASSUME NEW k \in 1..MaxChunks, Send(k) PROVE Settled' /\ LeftAlone
  BY <1>2, SendSettled
<1>3. ASSUME NEW T, NEW b, Poll(T, b) PROVE Settled' /\ LeftAlone
  BY <1>3, PollSettled
<1>4. ASSUME NEW a \in acks, NEW again \in BOOLEAN, NEW queued \in BOOLEAN, NEW g,
             DeliverAck(a, again, queued, g)
      PROVE  Settled' /\ LeftAlone
  BY <1>4, OnAckSettled DEF DeliverAck
<1>5. ASSUME \/ \E p \in data, again \in BOOLEAN : DeliverData(p, again)
             \/ \E delayed \in BOOLEAN : Ack(delayed)
             \/ \E p \in data : LoseData(p)
             \/ \E a \in acks : LoseAck(a)
             \/ UNCHANGED vars
      PROVE  Settled' /\ LeftAlone
  <2>1. queue' = queue
    BY <1>5 DEF DeliverData, OnData, Ack, LoseData, LoseAck, vars, sndVars
  <2> QED
    BY <1>1, <2>1
<1>6. Settled' /\ LeftAlone
  BY <1>2, <1>3, <1>4, <1>5 DEF Next
<1> QED
  BY <1>6

\* What the sender knows the receiver has is never transmitted, counted as
\* lost or changed again (Sender::poll and on_ack), for every span and window
\* and whatever acks arrive late or twice.
THEOREM AckedLeftAlone == Spec => NoResendOfAcked
<1>1. Init => Settled
  BY DEF Init, Settled
<1>2. IInv /\ Settled /\ [Next]_vars => [LeftAlone]_vars
  BY NextSettled
<1>3. IInv /\ Settled /\ [Next]_vars => Settled'
  BY NextSettled
<1>4. [][LeftAlone]_vars => NoResendOfAcked
  BY PTL DEF NoResendOfAcked, LeftAlone
<1> QED
  BY <1>1, <1>2, <1>3, <1>4, Inductive, PTL DEF Spec

-----------------------------------------------------------------------------
(* What goes in comes out *)

\* The number of the last chunk of the j-th message.
End(j) == IF j = 0 THEN 0 ELSE sent_msgs[j][Len(sent_msgs[j])]
IsEnd(s) == \E j \in 1..Len(sent_msgs) : End(j) = s

\* The messages cut the numbers handed out into intervals.
Cuts ==
  /\ sent_msgs \in Seq(Seq(Nat))
  /\ \A j \in 0..Len(sent_msgs) : End(j) \in Nat
  /\ \A i, j \in 0..Len(sent_msgs) : i < j => End(i) < End(j)
  /\ End(Len(sent_msgs)) = next_seq - 1
  /\ \A j \in 1..Len(sent_msgs) : sent_msgs[j] = [i \in 1..(End(j) - End(j - 1)) |-> End(j - 1) + i]

\* A chunk carries the flag of a last chunk wherever it is.
LastsRight ==
  /\ \A s \in DOMAIN queue : (queue[s].last <=> IsEnd(s))
  /\ \A p \in data : (p.last <=> IsEnd(p.seq))
  /\ \A s \in DOMAIN pending : (pending[s] <=> IsEnd(s))

\* Up to chunk c, t messages are complete.
Complete(t, c) ==
  t \in 0..Len(sent_msgs) /\ End(t) <= c /\ \A j \in (t + 1)..Len(sent_msgs) : c < End(j)

\* What has been assembled up to chunk c of the message after those: all of it
\* so far, unless it is too long already.
Assembled(part, over, t, c) ==
  /\ over \in BOOLEAN /\ (over <=> c - End(t) > MAX_MESSAGE)
  /\ part = IF over THEN <<>> ELSE [i \in 1..(c - End(t)) |-> End(t) + i]

MessagesKept ==
  /\ Cuts /\ LastsRight /\ delivered \in Seq(Seq(Nat)) /\ partial \in Seq(Nat)
  /\ \E t \in 0..Len(sent_msgs) : Complete(t, cum) /\ Assembled(partial, oversize, t, cum)

-----------------------------------------------------------------------------
(* Definitions by recursion over the first n numbers *)

Iterates(f, S, a, n, step) ==
  f \in [0..n -> S] /\ f[0] = a /\ \A i \in 1..n : f[i] = step[i][f[i - 1]]

\* The same of a g not yet known to stay in S.
Follows(g, S, a, n, step) ==
  g[0] = a /\ \A i \in 1..n : g[i - 1] \in S => g[i] = step[i][g[i - 1]]

\* What is true of 0 and goes on from each number to the next holds of all.
\* (The steps that use it name the numbers for which it fails.)
LEMMA NoFirstFailure ==
  ASSUME NEW n \in Nat, NEW T \in SUBSET (0..n), 0 \notin T,
         \A k \in 1..n : k \in T => k - 1 \in T
  PROVE  T = {}
<1> SUFFICES ASSUME T # {} PROVE FALSE
  OBVIOUS
<1>1. T \in SUBSET Nat
  OBVIOUS
<1>2. PICK m \in T : \A y \in T : m <= y
  BY <1>1, LeastExists, Zenon
<1>3. m \in 1..n /\ ~(m <= m - 1)
  OBVIOUS
<1> QED
  BY <1>2, <1>3

\* A function defined by a first value and a step exists.
LEMMA IterationExists ==
  ASSUME NEW S, NEW a \in S, NEW n \in Nat, NEW step \in [1..n -> [S -> S]]
  PROVE  \E f : Iterates(f, S, a, n, step)
<1> DEFINE Upto(k) == \E f : Iterates(f, S, a, k, step)
           T == {k \in 0..n : ~Upto(k)}
<1>1. Upto(0)
  <2>1. PICK f : f = [i \in 0..0 |-> a]
    OBVIOUS
  <2>2. f \in [0..0 -> S] /\ f[0] = a /\ 1..0 = {}
    BY <2>1
  <2> QED
    BY <2>2, Zenon DEF Iterates
<1>2. ASSUME NEW k \in 1..n, Upto(k - 1) PROVE Upto(k)
  <2>1. PICK f : /\ f \in [0..(k - 1) -> S] /\ f[0] = a
                 /\ \A i \in 1..(k - 1) : f[i] = step[i][f[i - 1]]
    BY <1>2, Zenon DEF Iterates
  <2> DEFINE g == [i \in 0..k |-> IF i = k THEN step[k][f[k - 1]] ELSE f[i]]
  <2>2. step[k][f[k - 1]] \in S
    <3>1. f[k - 1] \in S /\ step[k] \in [S -> S]
      BY <2>1
    <3> QED
      BY <3>1
  <2>3. g \in [0..k -> S]
    BY <2>1, <2>2
  <2>4. g[0] = a
    BY <2>1
  <2>5. ASSUME NEW i \in 1..k PROVE g[i] = step[i][g[i - 1]]
    <3>1. g[i - 1] = f[i - 1] /\ i - 1 \in 0..(k - 1)
      OBVIOUS
    <3>2. CASE i = k
      BY <3>1, <3>2
    <3>3. CASE i # k
      <4>1. i \in 1..(k - 1) /\ g[i] = f[i]
        BY <3>3
      <4> QED
        BY <2>1, <3>1, <4>1
    <3> QED
      BY <3>2, <3>3
  <2> HIDE DEF g
  <2> QED
    BY <2>3, <2>4, <2>5, Zenon DEF Iterates
<1> HIDE DEF Upto
<1>3. \A k \in 1..n : k \in T => k - 1 \in T
  <2>1. \A k \in 1..n : k - 1 \in 0..n
    OBVIOUS
  <2> QED
    BY <1>2, <2>1, Zenon
<1>4. T \in SUBSET (0..n) /\ 0 \notin T
  BY <1>1
<1>5. T = {}
  <2> HIDE DEF T
  <2> QED
    BY <1>3, <1>4, NoFirstFailure, Zenon
<1>6. n \in 0..n
  OBVIOUS
<1>7. Upto(n)
  BY <1>5, <1>6, Zenon
<1> QED
  BY <1>7 DEF Upto

\* Two functions with the same first value and the same step are equal.
LEMMA IterationUnique ==
  ASSUME NEW S, NEW a, NEW n \in Nat, NEW step, NEW f, NEW g,
         Iterates(f, S, a, n, step), Follows(g, S, a, n, step), NEW i \in 0..n
  PROVE  g[i] = f[i]
<1> DEFINE T == {j \in 0..n : g[j] # f[j]}
<1>1. f \in [0..n -> S] /\ f[0] = a /\ \A j \in 1..n : f[j] = step[j][f[j - 1]]
  BY Zenon DEF Iterates
<1>2. ASSUME NEW k \in 1..n, k \in T PROVE k - 1 \in T
  <2>1. k - 1 \in 0..n
    OBVIOUS
  <2>2. f[k - 1] \in S
    BY <1>1, <2>1
  <2>3. g[k - 1] = f[k - 1] => g[k] = f[k]
    BY <1>1, <2>2, Zenon DEF Follows
  <2> QED
    BY <1>2, <2>1, <2>3, Zenon
<1>3. T \in SUBSET (0..n) /\ 0 \notin T
  BY <1>1 DEF Follows
<1>4. T = {}
  <2> HIDE DEF T
  <2> QED
    BY <1>2, <1>3, NoFirstFailure, Zenon
<1> QED
  BY <1>4, Zenon

\* f[i] are those of the first i messages of s that are not dropped.
Picks(f, s) ==
  /\ f \in [0..Len(s) -> Seq(Seq(Nat))] /\ f[0] = <<>>
  /\ \A i \in 1..Len(s) : f[i] = IF Fits(s[i]) THEN Append(f[i - 1], s[i]) ELSE f[i - 1]

\* Their last values are equal.
LEMMA SameLast ==
  ASSUME NEW S, NEW a, NEW n \in Nat, NEW step, NEW f, NEW g,
         Iterates(f, S, a, n, step), Follows(g, S, a, n, step)
  PROVE  g[n] = f[n]
<1>1. n \in 0..n
  OBVIOUS
<1> QED
  BY <1>1, IterationUnique, SMT

\* Those of some messages that are not dropped, one message at a time.
LEMMA FittingUnfolds ==
  ASSUME NEW s \in Seq(Seq(Nat))
  PROVE  \E f : Picks(f, s) /\ Channel!Fitting(s) = f[Len(s)]
<1> DEFINE S == Seq(Seq(Nat))
           n == Len(s)
           step == [i \in 1..n |-> [x \in S |-> IF Fits(s[i]) THEN Append(x, s[i]) ELSE x]]
           g == CHOOSE f : f = [i \in 0..n |-> IF i = 0 THEN <<>>
                                  ELSE IF Fits(s[i]) THEN Append(f[i - 1], s[i]) ELSE f[i - 1]]
<1>1. step \in [1..n -> [S -> S]]
  OBVIOUS
<1>2. <<>> \in S /\ n \in Nat
  OBVIOUS
<1>3. Channel!Fitting(s) = g[n]
  BY Zenon DEF Channel!Fitting
<1>4. PICK f : Iterates(f, S, <<>>, n, step)
  <2> HIDE DEF S, n, step, g
  <2> QED
    BY <1>1, <1>2, IterationExists
<1>5. f \in [0..n -> S] /\ f[0] = <<>> /\ \A i \in 1..n : f[i] = step[i][f[i - 1]]
  <2> HIDE DEF S, n, step, g
  <2> QED
    BY <1>4, Zenon DEF Iterates
<1>6. ASSUME NEW i \in 1..n, NEW x \in S
      PROVE  step[i][x] = IF Fits(s[i]) THEN Append(x, s[i]) ELSE x
  <2> HIDE DEF S, n, g
  <2> QED
    BY Zenon
<1>7. \A i \in 1..n : i \in 0..n /\ i - 1 \in 0..n /\ i # 0
  <2> HIDE DEF S, n, step, g
  <2> QED
    BY <1>2
<1> HIDE DEF step, S, n
<1>8. \A i \in 1..n : f[i] = IF Fits(s[i]) THEN Append(f[i - 1], s[i]) ELSE f[i - 1]
  BY <1>5, <1>6, <1>7, Zenon
<1>9. f = [i \in 0..n |-> IF i = 0 THEN <<>>
                          ELSE IF Fits(s[i]) THEN Append(f[i - 1], s[i]) ELSE f[i - 1]]
  <2>1. \A i \in 0..n : i = 0 \/ i \in 1..n
    BY <1>2
  <2>2. f = [i \in 0..n |-> f[i]]
    BY <1>5
  <2> QED
    BY <1>5, <1>8, <2>1, <2>2, Zenon
<1>10. g = [i \in 0..n |-> IF i = 0 THEN <<>>
                           ELSE IF Fits(s[i]) THEN Append(g[i - 1], s[i]) ELSE g[i - 1]]
  BY <1>9, Zenon
<1> HIDE DEF g
<1>11. Follows(g, S, <<>>, n, step)
  <2>1. 0 \in 0..n
    BY <1>2
  <2>2. g[0] = <<>>
    BY <1>10, <2>1, Zenon
  <2>3. \A i \in 1..n : g[i] = IF Fits(s[i]) THEN Append(g[i - 1], s[i]) ELSE g[i - 1]
    BY <1>7, <1>10, Zenon
  <2> QED
    BY <1>6, <2>2, <2>3, Zenon DEF Follows
<1>12. g[n] = f[n]
  <2>1. n \in Nat
    BY <1>2
  <2> QED
    BY <1>4, <1>11, <2>1, SameLast, SMT
<1>13. Channel!Fitting(s) = f[n]
  BY <1>2, <1>3, <1>12
<1> QED
  BY <1>5, <1>8, <1>13, Zenon DEF Picks, S, n

Drained == [seq : Nat, last : BOOLEAN]
Assembly == [partial : Seq(Nat), oversize : BOOLEAN, out : Seq(Seq(Nat))]

\* Assemble keeps the types of what it works on.
LEMMA AssembleType ==
  ASSUME NEW st \in Assembly, NEW c \in Drained
  PROVE  Assemble(st, c) \in Assembly
<1> DEFINE over == st.oversize \/ Len(st.partial) + 1 > MAX_MESSAGE
           part == IF over THEN <<>> ELSE Append(st.partial, c.seq)
<1>1. st.partial \in Seq(Nat) /\ st.out \in Seq(Seq(Nat)) /\ c.seq \in Nat
  BY DEF Assembly, Drained
<1>2. part \in Seq(Nat) /\ over \in BOOLEAN
  BY <1>1
<1>3. Assemble(st, c) = IF c.last
        THEN [partial |-> <<>>, oversize |-> FALSE,
              out |-> IF over THEN st.out ELSE Append(st.out, part)]
        ELSE [partial |-> part, oversize |-> over, out |-> st.out]
  BY Zenon DEF Assemble
<1> HIDE DEF over, part
<1>4. (IF over THEN st.out ELSE Append(st.out, part)) \in Seq(Seq(Nat))
  BY <1>1, <1>2
<1>5. <<>> \in Seq(Nat)
  OBVIOUS
<1> QED
  BY <1>1, <1>2, <1>3, <1>4, <1>5 DEF Assembly

\* f[i] is where the first i chunks of s take the assembly.
Assembles(f, start, s) ==
  /\ f \in [0..Len(s) -> Assembly] /\ f[0] = start
  /\ \A i \in 1..Len(s) : f[i] = Assemble(f[i - 1], s[i])

\* What assembling a run of chunks leaves, one chunk at a time.
LEMMA AssemblyUnfolds ==
  ASSUME NEW start \in Assembly, NEW s \in Seq(Drained)
  PROVE  \E f : Assembles(f, start, s) /\ AssembleAll(start, s) = f[Len(s)]
<1> DEFINE S == Assembly
           n == Len(s)
           step == [i \in 1..n |-> [x \in S |-> Assemble(x, s[i])]]
           g == CHOOSE f : f = [i \in 0..n |-> IF i = 0 THEN start
                                  ELSE Assemble(f[i - 1], s[i])]
<1>1. step \in [1..n -> [S -> S]]
  <2>1. ASSUME NEW i \in 1..n, NEW x \in S PROVE Assemble(x, s[i]) \in S
    <3>1. s[i] \in Drained
      <4>1. s \in Seq(Drained) /\ i \in 1..Len(s)
        OBVIOUS
      <4> HIDE DEF S, step, g, n
      <4> QED
        BY <4>1
    <3> QED
      BY <3>1, AssembleType, Zenon
  <2> QED
    BY <2>1
<1>2. start \in S /\ n \in Nat
  OBVIOUS
<1>3. AssembleAll(start, s) = g[n]
  BY Zenon DEF AssembleAll
<1>4. PICK f : Iterates(f, S, start, n, step)
  <2> HIDE DEF S, n, step, g
  <2> QED
    BY <1>1, <1>2, IterationExists
<1>5. f \in [0..n -> S] /\ f[0] = start /\ \A i \in 1..n : f[i] = step[i][f[i - 1]]
  <2> HIDE DEF S, n, step, g
  <2> QED
    BY <1>4, Zenon DEF Iterates
<1>6. ASSUME NEW i \in 1..n, NEW x \in S
      PROVE  step[i][x] = Assemble(x, s[i])
  <2> HIDE DEF S, n, g
  <2> QED
    BY Zenon
<1>7. \A i \in 1..n : i \in 0..n /\ i - 1 \in 0..n /\ i # 0
  <2> HIDE DEF S, n, step, g
  <2> QED
    BY <1>2
<1> HIDE DEF step, S, n
<1>8. \A i \in 1..n : f[i] = Assemble(f[i - 1], s[i])
  BY <1>5, <1>6, <1>7, Zenon
<1>9. f = [i \in 0..n |-> IF i = 0 THEN start
                          ELSE Assemble(f[i - 1], s[i])]
  <2>1. \A i \in 0..n : i = 0 \/ i \in 1..n
    BY <1>2
  <2>2. f = [i \in 0..n |-> f[i]]
    BY <1>5
  <2> QED
    BY <1>5, <1>8, <2>1, <2>2, Zenon
<1>10. g = [i \in 0..n |-> IF i = 0 THEN start
                           ELSE Assemble(g[i - 1], s[i])]
  BY <1>9, Zenon
<1> HIDE DEF g
<1>11. Follows(g, S, start, n, step)
  <2>1. 0 \in 0..n
    BY <1>2
  <2>2. g[0] = start
    BY <1>10, <2>1, Zenon
  <2>3. \A i \in 1..n : g[i] = Assemble(g[i - 1], s[i])
    BY <1>7, <1>10, Zenon
  <2> QED
    BY <1>6, <2>2, <2>3, Zenon DEF Follows
<1>12. g[n] = f[n]
  <2>1. n \in Nat
    BY <1>2
  <2> QED
    BY <1>4, <1>11, <2>1, SameLast, SMT
<1>13. AssembleAll(start, s) = f[n]
  BY <1>2, <1>3, <1>12
<1> QED
  BY <1>5, <1>8, <1>13, Zenon DEF Assembles, S, n

-----------------------------------------------------------------------------
(* How many messages are complete *)

\* The cuts, with their number named.
LEMMA CutFacts ==
  ASSUME Cuts
  PROVE  \E N \in Nat : /\ N = Len(sent_msgs) /\ DOMAIN sent_msgs = 1..N /\ End(0) = 0
                        /\ \A j \in 0..N : End(j) \in Nat
                        /\ \A i, j \in 0..N : i < j => End(i) < End(j)
                        /\ End(N) = next_seq - 1
                        /\ \A j \in 1..N : sent_msgs[j] = [i \in 1..(End(j) - End(j - 1)) |-> End(j - 1) + i]
<1>1. PICK N \in Nat : N = Len(sent_msgs) /\ DOMAIN sent_msgs = 1..N
  BY DEF Cuts
<1>2. End(0) = 0
  BY DEF End
<1> QED
  BY <1>1, <1>2, Zenon DEF Cuts

\* Some number of messages is complete below every number.
LEMMA CompleteExists ==
  ASSUME Cuts, NEW c \in Nat
  PROVE  \E t \in 0..Len(sent_msgs) : Complete(t, c)
<1>1. PICK N \in Nat : /\ N = Len(sent_msgs) /\ End(0) = 0 /\ \A j \in 0..N : End(j) \in Nat
  BY CutFacts, Zenon
<1> DEFINE U == {t \in 0..N : End(t) <= c}
<1>2. U \in SUBSET Nat /\ 0 \in U /\ \A x \in U : x <= N
  BY <1>1
<1> HIDE DEF U
<1>3. PICK m : m = Max(U)
  OBVIOUS
<1>4. m \in U /\ \A y \in U : m >= y
  <2>1. U # {}
    BY <1>2
  <2> QED
    BY <1>2, <1>3, <2>1, MaxExists
<1>5. m \in 0..N /\ End(m) <= c /\ \A y \in 0..N : End(y) <= c => m >= y
  BY <1>4 DEF U
<1>6. \A j \in (m + 1)..N : c < End(j)
  BY <1>1, <1>5
<1> QED
  BY <1>1, <1>5, <1>6 DEF Complete

\* The more numbers, the more messages are complete.
LEMMA CompleteMonotone ==
  ASSUME Cuts, NEW c \in Nat, NEW d \in Nat, c <= d, NEW t, NEW u, Complete(t, c), Complete(u, d)
  PROVE  t <= u
<1>1. PICK N \in Nat : N = Len(sent_msgs) /\ \A j \in 0..N : End(j) \in Nat
  BY CutFacts, Zenon
<1>2. t \in 0..N /\ u \in 0..N /\ End(t) <= c /\ \A j \in (u + 1)..N : d < End(j)
  BY <1>1, Zenon DEF Complete
<1>3. ASSUME t > u PROVE FALSE
  <2>1. t \in (u + 1)..N
    BY <1>2, <1>3
  <2> QED
    BY <1>1, <1>2, <2>1
<1> QED
  BY <1>2, <1>3

\* Only one number of messages is complete below a number.
LEMMA CompleteUnique ==
  ASSUME Cuts, NEW c \in Nat, NEW t, NEW u, Complete(t, c), Complete(u, c)
  PROVE  t = u
<1>1. c <= c /\ t <= u /\ u <= t
  BY CompleteMonotone
<1>2. PICK N \in Nat : N = Len(sent_msgs)
  BY CutFacts, Zenon
<1>3. t \in 0..N /\ u \in 0..N
  BY <1>2, Zenon DEF Complete
<1> QED
  BY <1>1, <1>3

\* What the refinement mapping counts.
LEMMA CompleteCount ==
  ASSUME Cuts, NEW c \in Nat, NEW t, Complete(t, c)
  PROVE  Cardinality({i \in DOMAIN sent_msgs : sent_msgs[i][Len(sent_msgs[i])] <= c}) = t
<1>1. PICK N \in Nat : /\ N = Len(sent_msgs) /\ DOMAIN sent_msgs = 1..N
                       /\ \A j \in 0..N : End(j) \in Nat
                       /\ \A i, j \in 0..N : i < j => End(i) < End(j)
  BY CutFacts, Zenon
<1>2. t \in 0..N /\ End(t) <= c /\ \A j \in (t + 1)..N : c < End(j)
  BY <1>1, Zenon DEF Complete
<1>3. \A i \in 1..N : End(i) = sent_msgs[i][Len(sent_msgs[i])]
  BY DEF End
<1>4. \A i \in 1..N : End(i) <= c <=> i \in 1..t
  <2> SUFFICES ASSUME NEW i \in 1..N PROVE End(i) <= c <=> i \in 1..t
    OBVIOUS
  <2>1. i \in 0..N /\ End(i) \in Nat /\ End(t) \in Nat
    BY <1>1, <1>2
  <2>2. CASE i < t
    BY <1>1, <1>2, <2>1, <2>2
  <2>3. CASE i = t
    BY <1>2, <2>3
  <2>4. CASE i > t
    <3>1. i \in (t + 1)..N
      BY <1>2, <2>4
    <3>2. c < End(i)
      BY <1>2, <3>1
    <3>3. i \notin 1..t /\ ~(End(i) <= c)
      BY <1>2, <2>1, <2>4, <3>2
    <3> QED
      BY <3>3, Zenon
  <2> QED
    BY <1>2, <2>2, <2>3, <2>4
<1>5. {i \in DOMAIN sent_msgs : sent_msgs[i][Len(sent_msgs[i])] <= c} = {i \in 1..N : End(i) <= c}
  BY <1>1, <1>3
<1>6. {i \in 1..N : End(i) <= c} = 1..t
  BY <1>2, <1>4
<1>7. Cardinality(1..t) = t
  <2>1. Cardinality(1..t) = IF 1 > t THEN 0 ELSE t - 1 + 1
    BY <1>2, FS_Interval
  <2> QED
    BY <1>2, <2>1
<1> QED
  BY <1>5, <1>6, <1>7

-----------------------------------------------------------------------------
(* Assembling *)

\* One more chunk of message t + 1, which it may complete.
LEMMA AssembleNext ==
  ASSUME Cuts, next_seq \in Nat, NEW st \in Assembly, NEW c \in Nat, c + 1 <= next_seq - 1,
         NEW t, Complete(t, c), Assembled(st.partial, st.oversize, t, c),
         NEW ch \in Drained, ch.seq = c + 1, ch.last <=> IsEnd(c + 1),
         NEW a, a = Assemble(st, ch)
  PROVE  \/ /\ Complete(t + 1, c + 1) /\ Assembled(a.partial, a.oversize, t + 1, c + 1)
            /\ a.out = IF Fits(sent_msgs[t + 1]) THEN Append(st.out, sent_msgs[t + 1]) ELSE st.out
         \/ /\ Complete(t, c + 1) /\ Assembled(a.partial, a.oversize, t, c + 1)
            /\ a.out = st.out
<1>1. PICK N \in Nat : /\ N = Len(sent_msgs)
                       /\ \A j \in 0..N : End(j) \in Nat
                       /\ \A i, j \in 0..N : i < j => End(i) < End(j)
                       /\ End(N) = next_seq - 1
                       /\ \A j \in 1..N : sent_msgs[j] = [i \in 1..(End(j) - End(j - 1)) |-> End(j - 1) + i]
  BY CutFacts, Zenon
<1>2. t \in 0..N /\ End(t) <= c /\ \A j \in (t + 1)..N : c < End(j)
  BY <1>1, Zenon DEF Complete
<1>3. PICK low \in Nat : low = End(t) /\ low <= c
  BY <1>1, <1>2
<1>4. t # N
  BY <1>1, <1>2, <1>3
<1>5. t + 1 \in 1..N /\ t + 1 \in 0..N /\ t + 1 \in (t + 1)..N /\ (t + 1) - 1 = t
  BY <1>2, <1>4
<1>6. PICK top \in Nat : top = End(t + 1) /\ c < top
  BY <1>1, <1>2, <1>5
<1>7. sent_msgs[t + 1] = [i \in 1..(top - low) |-> low + i]
  BY <1>1, <1>3, <1>5, <1>6
<1> DEFINE over == st.oversize \/ Len(st.partial) + 1 > MAX_MESSAGE
           part == IF over THEN <<>> ELSE Append(st.partial, ch.seq)
<1>8. a = IF ch.last
        THEN [partial |-> <<>>, oversize |-> FALSE,
              out |-> IF over THEN st.out ELSE Append(st.out, part)]
        ELSE [partial |-> part, oversize |-> over, out |-> st.out]
  BY Zenon DEF Assemble
<1>9. /\ st.oversize \in BOOLEAN /\ (st.oversize <=> c - low > MAX_MESSAGE)
      /\ ~st.oversize => st.partial = [i \in 1..(c - low) |-> low + i]
  BY <1>3, Zenon DEF Assembled
<1>10. ~st.oversize => Len(st.partial) = c - low /\ Append(st.partial, c + 1) = [i \in 1..((c + 1) - low) |-> low + i]
  <2> SUFFICES ASSUME ~st.oversize
               PROVE  Len(st.partial) = c - low /\ Append(st.partial, c + 1) = [i \in 1..((c + 1) - low) |-> low + i]
    OBVIOUS
  <2>1. PICK p : p = [i \in 1..(c - low) |-> low + i]
    OBVIOUS
  <2>2. p \in Seq(Nat) /\ Len(p) = c - low
    BY <1>3, <2>1
  <2>3. Append(p, c + 1) = [i \in 1..((c + 1) - low) |-> low + i]
    BY <1>3, <2>1, <2>2
  <2> QED
    BY <1>9, <2>1, <2>2, <2>3, Zenon
<1>11. over \in BOOLEAN /\ (over <=> (c + 1) - low > MAX_MESSAGE)
  <2>1. CASE st.oversize
    BY <1>3, <1>9, <2>1, ReliableAssumption
  <2>2. CASE ~st.oversize
    BY <1>3, <1>9, <1>10, <2>2, ReliableAssumption
  <2> QED
    BY <2>1, <2>2
<1>12. ~over => part = [i \in 1..((c + 1) - low) |-> low + i]
  BY <1>10, Zenon
<1>13. over => part = <<>>
  BY Zenon
<1> HIDE DEF over, part
<1>14. CASE ch.last
  <2>1. PICK j \in 1..N : End(j) = c + 1
    BY <1>1, <1>14 DEF IsEnd
  <2>2. ~(j < t + 1)
    <3>1. j < t => End(j) < End(t)
      BY <1>1, <1>2
    <3> QED
      BY <1>1, <1>2, <1>3, <2>1, <3>1
  <2>3. ~(t + 1 < j)
    <3>1. t + 1 < j => End(t + 1) < End(j)
      BY <1>1, <1>5
    <3> QED
      BY <1>6, <2>1, <3>1
  <2>4. top = c + 1
    BY <1>2, <1>6, <2>1, <2>2, <2>3
  <2>5. Complete(t + 1, c + 1)
    <3>1. \A i \in ((t + 1) + 1)..N : End(t + 1) < End(i)
      BY <1>1, <1>5
    <3> QED
      BY <1>1, <1>5, <1>6, <2>4, <3>1 DEF Complete
  <2>6. /\ a.partial = <<>> /\ a.oversize = FALSE
        /\ a.out = IF over THEN st.out ELSE Append(st.out, part)
    BY <1>8, <1>14
  <2>7. Assembled(a.partial, a.oversize, t + 1, c + 1)
    <3>1. (c + 1) - top = 0 /\ ~(0 > MAX_MESSAGE)
      BY <2>4, ReliableAssumption
    <3>2. <<>> = [i \in 1..0 |-> top + i]
      OBVIOUS
    <3> QED
      BY <1>6, <2>6, <3>1, <3>2, Zenon DEF Assembled
  <2>8. Len(sent_msgs[t + 1]) = (c + 1) - low
    BY <1>3, <1>7, <2>4
  <2>9. Fits(sent_msgs[t + 1]) <=> ~over
    <3>1. (c + 1) - low <= MAX_MESSAGE <=> ~((c + 1) - low > MAX_MESSAGE)
      BY <1>3, ReliableAssumption
    <3> QED
      BY <1>11, <2>8, <3>1, Zenon DEF Fits
  <2>10. ~over => part = sent_msgs[t + 1]
    BY <1>7, <1>12, <2>4
  <2> QED
    BY <2>5, <2>6, <2>7, <2>9, <2>10
<1>15. CASE ~ch.last
  <2>1. \A j \in (t + 1)..N : End(j) # c + 1 /\ End(j) \in Nat /\ c < End(j)
    <3>1. \A j \in (t + 1)..N : j \in 1..N /\ j \in 0..N
      BY <1>2
    <3>2. \A j \in 1..N : End(j) # c + 1
      BY <1>1, <1>15 DEF IsEnd
    <3> QED
      BY <1>1, <1>2, <3>1, <3>2
  <2>2. \A j \in (t + 1)..N : c + 1 < End(j)
    BY <2>1
  <2>3. Complete(t, c + 1)
    BY <1>1, <1>2, <1>3, <2>2 DEF Complete
  <2>4. a.partial = part /\ a.oversize = over /\ a.out = st.out
    BY <1>8, <1>15
  <2>5. Assembled(a.partial, a.oversize, t, c + 1)
    BY <1>3, <1>11, <1>12, <1>13, <2>4, Zenon DEF Assembled
  <2> QED
    BY <2>3, <2>4, <2>5
<1> QED
  BY <1>14, <1>15

\* The chunks after chunk c up to e, in order, with their flags.
RunsTo(run, c, e) ==
  /\ run \in Seq(Drained) /\ e = c + Len(run) /\ e <= next_seq - 1
  /\ \A i \in 1..Len(run) : run[i].seq = c + i /\ (run[i].last <=> IsEnd(c + i))

\* The assembly after chunk c, with t messages complete and nothing taken out.
StartsAt(start, c, t) ==
  /\ start \in Assembly /\ start.out = <<>>
  /\ Complete(t, c) /\ Assembled(start.partial, start.oversize, t, c)

\* A run of chunks: what comes out is what of the messages it completes fits.
LEMMA RunAssembled ==
  ASSUME Cuts, next_seq \in Nat, NEW c \in Nat, NEW e, NEW run, RunsTo(run, c, e),
         NEW start, NEW t, StartsAt(start, c, t), NEW a, a = AssembleAll(start, run),
         NEW u, Complete(u, e)
  PROVE  /\ a \in Assembly /\ Assembled(a.partial, a.oversize, u, e)
         /\ t <= u /\ a.out = Channel!Fitting(SubSeq(sent_msgs, t + 1, u))
<1>0. /\ run \in Seq(Drained) /\ e = c + Len(run) /\ e <= next_seq - 1
      /\ \A i \in 1..Len(run) : run[i].seq = c + i /\ (run[i].last <=> IsEnd(c + i))
      /\ start \in Assembly /\ start.out = <<>>
      /\ Complete(t, c) /\ Assembled(start.partial, start.oversize, t, c)
  BY Zenon DEF RunsTo, StartsAt
<1>1. PICK n \in Nat : n = Len(run)
  BY <1>0
<1>2. PICK N \in Nat : N = Len(sent_msgs) /\ sent_msgs \in Seq(Seq(Nat))
  BY CutFacts DEF Cuts
<1>3. t \in 0..N /\ u \in 0..N
  BY <1>0, <1>2 DEF Complete
<1>4. c <= c + n /\ c + n \in Nat /\ c + n <= next_seq - 1 /\ e = c + n
  BY <1>0, <1>1
<1>5. t <= u
  BY <1>0, <1>4, CompleteMonotone
<1>6. PICK s : s = SubSeq(sent_msgs, t + 1, u)
  OBVIOUS
<1>7. s \in Seq(Seq(Nat)) /\ Len(s) = u - t /\ \A j \in 1..(u - t) : s[j] = sent_msgs[t + j]
  BY <1>2, <1>3, <1>5, <1>6
<1>8. PICK h : /\ h[0] = <<>> /\ Channel!Fitting(s) = h[u - t]
               /\ \A i \in 1..(u - t) :
                    h[i] = IF Fits(s[i]) THEN Append(h[i - 1], s[i]) ELSE h[i - 1]
  <2>1. PICK h : Picks(h, s) /\ Channel!Fitting(s) = h[Len(s)]
    BY <1>7, FittingUnfolds
  <2> QED
    BY <1>7, <2>1, Zenon DEF Picks
<1>9. PICK f : /\ f \in [0..n -> Assembly] /\ f[0] = start /\ a = f[n]
               /\ \A i \in 1..n : f[i] = Assemble(f[i - 1], run[i])
  <2>1. PICK f : Assembles(f, start, run) /\ AssembleAll(start, run) = f[Len(run)]
    BY <1>0, AssemblyUnfolds
  <2> QED
    BY <1>1, <2>1, Zenon DEF Assembles
<1> DEFINE Good(i) == \E v \in t..u : /\ Complete(v, c + i) /\ f[i].out = h[v - t]
                                      /\ Assembled(f[i].partial, f[i].oversize, v, c + i)
           T == {i \in 0..n : ~Good(i)}
<1>10. Good(0)
  <2>1. t \in t..u /\ t - t = 0 /\ c + 0 = c
    BY <1>3, <1>5
  <2> QED
    BY <1>0, <1>8, <1>9, <2>1, Zenon
<1>11. ASSUME NEW k \in 1..n, Good(k - 1) PROVE Good(k)
  <2>1. PICK d : d = c + (k - 1)
    OBVIOUS
  <2>2. d \in Nat /\ d + 1 = c + k /\ d + 1 <= next_seq - 1 /\ d + 1 <= c + n /\ k - 1 \in 0..n /\ k \in 0..n
    BY <1>4, <2>1
  <2>3. PICK v \in t..u : /\ Complete(v, d) /\ f[k - 1].out = h[v - t]
                          /\ Assembled(f[k - 1].partial, f[k - 1].oversize, v, d)
    BY <1>11, <2>1
  <2>4. v \in Nat /\ t <= v /\ v <= u /\ v - t \in 0..(u - t)
    BY <1>3
  <2>5. /\ f[k - 1] \in Assembly /\ run[k] \in Drained /\ f[k] = Assemble(f[k - 1], run[k])
        /\ run[k].seq = d + 1 /\ (run[k].last <=> IsEnd(d + 1))
    <3>1. f[k - 1] \in Assembly
      BY <1>9, <2>2
    <3>2. run[k] \in Drained
      BY <1>0, <1>1
    <3> QED
      BY <1>0, <1>1, <1>9, <2>2, <3>1, <3>2
  <2>6. \/ /\ Complete(v + 1, d + 1) /\ Assembled(f[k].partial, f[k].oversize, v + 1, d + 1)
           /\ f[k].out = IF Fits(sent_msgs[v + 1]) THEN Append(f[k - 1].out, sent_msgs[v + 1])
                                                   ELSE f[k - 1].out
        \/ /\ Complete(v, d + 1) /\ Assembled(f[k].partial, f[k].oversize, v, d + 1)
           /\ f[k].out = f[k - 1].out
    <3>1. PICK st, ch, b : st = f[k - 1] /\ ch = run[k] /\ b = f[k]
      OBVIOUS
    <3>2. /\ st \in Assembly /\ ch \in Drained /\ b = Assemble(st, ch)
          /\ ch.seq = d + 1 /\ (ch.last <=> IsEnd(d + 1))
          /\ Complete(v, d) /\ Assembled(st.partial, st.oversize, v, d)
      BY <2>3, <2>5, <3>1, Zenon
    <3>3. \/ /\ Complete(v + 1, d + 1) /\ Assembled(b.partial, b.oversize, v + 1, d + 1)
             /\ b.out = IF Fits(sent_msgs[v + 1]) THEN Append(st.out, sent_msgs[v + 1])
                                                     ELSE st.out
          \/ /\ Complete(v, d + 1) /\ Assembled(b.partial, b.oversize, v, d + 1)
             /\ b.out = st.out
      BY <2>2, <3>2, AssembleNext
    <3> QED
      BY <3>1, <3>3, Zenon
  <2>7. CASE /\ Complete(v + 1, d + 1) /\ Assembled(f[k].partial, f[k].oversize, v + 1, d + 1)
             /\ f[k].out = IF Fits(sent_msgs[v + 1]) THEN Append(f[k - 1].out, sent_msgs[v + 1])
                                                     ELSE f[k - 1].out
    <3>1. v + 1 <= u
      <4>1. Complete(v + 1, d + 1) /\ Complete(u, c + n)
        BY <1>4, <2>7
      <4>2. d + 1 \in Nat /\ c + n \in Nat /\ d + 1 <= c + n
        BY <1>4, <2>2
      <4> QED
        BY <4>1, <4>2, CompleteMonotone
    <3>2. PICK j : j = (v + 1) - t
      OBVIOUS
    <3>3. j \in 1..(u - t) /\ j - 1 = v - t /\ t + j = v + 1 /\ v + 1 \in t..u
      BY <1>3, <2>4, <3>1, <3>2
    <3>4. s[j] = sent_msgs[v + 1]
      BY <1>7, <3>3
    <3>5. h[j] = IF Fits(s[j]) THEN Append(h[v - t], s[j]) ELSE h[v - t]
      BY <1>8, <3>3
    <3>6. f[k].out = h[(v + 1) - t]
      BY <2>3, <2>7, <3>2, <3>4, <3>5
    <3> QED
      BY <2>2, <2>7, <3>3, <3>6, Zenon
  <2>8. CASE /\ Complete(v, d + 1) /\ Assembled(f[k].partial, f[k].oversize, v, d + 1)
             /\ f[k].out = f[k - 1].out
    BY <2>2, <2>3, <2>8, Zenon
  <2> QED
    BY <2>6, <2>7, <2>8, Zenon
<1> HIDE DEF Good
<1>12. T = {}
  <2>1. \A k \in 1..n : k \in T => k - 1 \in T
    <3>1. \A k \in 1..n : k - 1 \in 0..n
      OBVIOUS
    <3> QED
      BY <1>11, <3>1, Zenon
  <2>2. T \in SUBSET (0..n) /\ 0 \notin T
    BY <1>10
  <2> HIDE DEF T
  <2> QED
    BY <2>1, <2>2, NoFirstFailure, Zenon
<1>13. n \in 0..n /\ 0..n \subseteq Nat
  OBVIOUS
<1>14. Good(n)
  BY <1>12, <1>13, Zenon
<1>15. PICK v \in t..u : /\ Complete(v, c + n) /\ a.out = h[v - t]
                         /\ Assembled(a.partial, a.oversize, v, c + n)
  BY <1>9, <1>14 DEF Good
<1>16. v = u
  BY <1>4, <1>15, CompleteUnique
<1>17. a \in Assembly
  BY <1>9, <1>13
<1> QED
  BY <1>4, <1>5, <1>6, <1>8, <1>15, <1>16, <1>17

-----------------------------------------------------------------------------
(* Every step keeps the messages and is a step of the message channel *)

\* The initial state: no message, nothing assembled.
LEMMA MessagesInit == Init => MessagesKept /\ Channel!Init
<1> SUFFICES ASSUME Init PROVE MessagesKept /\ Channel!Init
  OBVIOUS
<1>1. /\ sent_msgs = <<>> /\ delivered = <<>> /\ partial = <<>> /\ oversize = FALSE
      /\ cum = 0 /\ next_seq = 1 /\ data = {} /\ DOMAIN queue = {} /\ DOMAIN pending = {}
  BY DEF Init
<1>2. /\ Len(sent_msgs) = 0 /\ End(0) = 0 /\ 0..0 = {0} /\ 1..0 = {}
      /\ sent_msgs \in Seq(Seq(Nat)) /\ delivered \in Seq(Seq(Nat)) /\ partial \in Seq(Nat)
  BY <1>1 DEF End
<1>3. Cuts
  BY <1>1, <1>2 DEF Cuts
<1>4. LastsRight
  BY <1>1 DEF LastsRight
<1>5. Complete(0, cum)
  BY <1>1, <1>2 DEF Complete
<1>6. Assembled(partial, oversize, 0, cum)
  <2>1. cum - End(0) = 0 /\ ~(0 > MAX_MESSAGE)
    BY <1>1, <1>2, ReliableAssumption
  <2>2. <<>> = [i \in 1..0 |-> End(0) + i]
    OBVIOUS
  <2> QED
    BY <1>1, <2>1, <2>2, Zenon DEF Assembled
<1>7. MessagesKept
  BY <1>2, <1>3, <1>4, <1>5, <1>6 DEF MessagesKept
<1>8. Finished = 0
  BY <1>1, <1>3, <1>5, CompleteCount DEF Finished
<1> QED
  BY <1>1, <1>7, <1>8 DEF Channel!Init

\* A step that touches neither messages nor assembly.
LEMMA QuietKeeps ==
  ASSUME MessagesKept, UNCHANGED <<next_seq, sent_msgs, delivered, cum, partial, oversize>>,
         LastsRight'
  PROVE  MessagesKept' /\ UNCHANGED Channel!vars
<1>1. \A j : End(j)' = End(j)
  BY DEF End
<1>2. Cuts'
  BY <1>1 DEF MessagesKept, Cuts
<1>3. PICK t \in 0..Len(sent_msgs) : Complete(t, cum) /\ Assembled(partial, oversize, t, cum)
  BY DEF MessagesKept
<1>4. t \in 0..Len(sent_msgs') /\ Complete(t, cum)' /\ Assembled(partial, oversize, t, cum)'
  BY <1>1, <1>3 DEF Complete, Assembled
<1> QED
  BY <1>2, <1>4 DEF MessagesKept, Channel!vars, Finished

\* Sender::send cuts the next numbers off as one more message.
LEMMA SendKeeps ==
  ASSUME IInv, MessagesKept, NEW k \in 1..MaxChunks, Send(k)
  PROVE  MessagesKept' /\ Channel!Send
<1>1. /\ next_seq \in Nat \ {0} /\ cum \in Nat /\ cum < next_seq /\ k \in Nat \ {0}
      /\ \A p \in data : p.seq \in Nat /\ p.seq < next_seq
      /\ \A s \in DOMAIN pending : s \in Nat /\ s < next_seq
  BY ReliableAssumption DEF IInv, TypeOK, SenderOK, ReceiverOK, LinkOK, OnlySent
<1>2. PICK N \in Nat : /\ N = Len(sent_msgs) /\ DOMAIN sent_msgs = 1..N /\ End(0) = 0
                       /\ \A j \in 0..N : End(j) \in Nat
                       /\ \A i, j \in 0..N : i < j => End(i) < End(j)
                       /\ End(N) = next_seq - 1
                       /\ \A j \in 1..N : sent_msgs[j] = [i \in 1..(End(j) - End(j - 1)) |-> End(j - 1) + i]
  BY CutFacts, Zenon DEF MessagesKept
<1>3. sent_msgs \in Seq(Seq(Nat))
  BY DEF MessagesKept, Cuts
<1>4. PICK m : m = [i \in 1..k |-> next_seq + i - 1]
  OBVIOUS
<1>5. m \in Seq(Nat) /\ Len(m) = k /\ m[k] = next_seq + k - 1
  BY <1>1, <1>4
<1>6. /\ sent_msgs' = Append(sent_msgs, m) /\ next_seq' = next_seq + k
      /\ UNCHANGED <<cum, partial, oversize, pending, data, delivered>>
      /\ next_seq + k - 1 <= MaxSeq
      /\ queue' = [s \in DOMAIN queue \union next_seq..(next_seq + k - 1) |->
                     IF s \in DOMAIN queue THEN queue[s] ELSE FreshChunk(s = next_seq + k - 1)]
  BY <1>4 DEF Send, rcvVars
<1>7. /\ sent_msgs' \in Seq(Seq(Nat)) /\ Len(sent_msgs') = N + 1 /\ DOMAIN sent_msgs' = 1..(N + 1)
      /\ sent_msgs'[N + 1] = m /\ \A j \in 1..N : sent_msgs'[j] = sent_msgs[j]
  BY <1>2, <1>3, <1>5, <1>6
<1>8. End(N + 1)' = next_seq + k - 1 /\ \A j \in 0..N : End(j)' = End(j)
  <2>1. End(N + 1)' = m[k]
    BY <1>5, <1>7 DEF End
  <2>2. ASSUME NEW j \in 0..N PROVE End(j)' = End(j)
    <3>1. CASE j = 0
      BY <3>1 DEF End
    <3>2. CASE j # 0
      <4>1. j \in 1..N
        BY <3>2
      <4>2. sent_msgs'[j] = sent_msgs[j]
        BY <1>7, <4>1
      <4> QED
        BY <4>2 DEF End
    <3> QED
      BY <3>1, <3>2
  <2> QED
    BY <1>5, <2>1, <2>2
<1>9. \A j \in 0..N : End(j) \in Nat /\ End(j) <= next_seq - 1
  <2> SUFFICES ASSUME NEW j \in 0..N PROVE End(j) \in Nat /\ End(j) <= next_seq - 1
    OBVIOUS
  <2>1. j = N \/ j < N
    OBVIOUS
  <2>2. N \in 0..N
    OBVIOUS
  <2> QED
    BY <1>1, <1>2, <2>1, <2>2
<1>10. \A j \in 0..(N + 1) : \/ j \in 0..N /\ End(j)' = End(j)
                             \/ j = N + 1 /\ End(j)' = next_seq + k - 1
  BY <1>8
<1>11. Cuts'
  <2>1. \A j \in 0..(N + 1) : End(j)' \in Nat
    BY <1>1, <1>9, <1>10
  <2>2. ASSUME NEW i \in 0..(N + 1), NEW j \in 0..(N + 1), i < j PROVE End(i)' < End(j)'
    <3>1. i \in 0..N /\ End(i)' = End(i)
      BY <1>8, <2>2
    <3>2. CASE j \in 0..N
      BY <1>2, <1>8, <2>2, <3>1, <3>2
    <3>3. CASE j = N + 1
      BY <1>1, <1>8, <1>9, <3>1, <3>3
    <3> QED
      BY <1>10, <3>2, <3>3
  <2>3. End(N + 1)' = next_seq' - 1
    BY <1>1, <1>6, <1>8
  <2>4. ASSUME NEW j \in 1..(N + 1)
        PROVE  sent_msgs'[j] = [i \in 1..(End(j)' - End(j - 1)') |-> End(j - 1)' + i]
    <3>1. CASE j = N + 1
      <4>1. j - 1 = N /\ N \in 0..N
        BY <3>1
      <4>2. End(j - 1)' = next_seq - 1 /\ End(j)' = next_seq + k - 1
        BY <1>2, <1>8, <3>1, <4>1
      <4>3. (next_seq + k - 1) - (next_seq - 1) = k
        BY <1>1
      <4>4. [i \in 1..k |-> next_seq + i - 1] = [i \in 1..k |-> (next_seq - 1) + i]
        BY <1>1
      <4> QED
        BY <1>4, <1>7, <3>1, <4>2, <4>3, <4>4
    <3>2. CASE j \in 1..N
      <4>1. j - 1 \in 0..N /\ j \in 0..N
        BY <3>2
      <4> QED
        BY <1>2, <1>7, <1>8, <3>2, <4>1
    <3> QED
      BY <3>1, <3>2
  <2> QED
    BY <1>7, <2>1, <2>2, <2>3, <2>4 DEF Cuts
<1>12. \A s \in Nat : s < next_seq => (IsEnd(s)' <=> IsEnd(s))
  <2>1. \A j \in 1..N : End(j)' = End(j)
    BY <1>8
  <2>2. \A j \in 1..(N + 1) : j \in 1..N \/ j = N + 1
    OBVIOUS
  <2>3. \A j \in 1..N : j \in 1..(N + 1)
    OBVIOUS
  <2>4. \A s \in Nat : s < next_seq => End(N + 1)' # s
    BY <1>1, <1>8
  <2> QED
    BY <1>2, <1>7, <2>1, <2>2, <2>3, <2>4 DEF IsEnd
<1>13. \A s \in next_seq..(next_seq + k - 1) : IsEnd(s)' <=> s = next_seq + k - 1
  <2>1. \A j \in 1..(N + 1) : j = N + 1 \/ End(j)' <= next_seq - 1
    BY <1>8, <1>9
  <2>2. N + 1 \in 1..(N + 1)
    OBVIOUS
  <2>3. \A j \in 1..(N + 1) : End(j)' \in Nat
    BY <1>1, <1>9, <1>10
  <2>4. \A s \in next_seq..(next_seq + k - 1) : \A x \in Nat : x <= next_seq - 1 => x # s
    BY <1>1
  <2> QED
    BY <1>7, <1>8, <2>1, <2>2, <2>3, <2>4 DEF IsEnd
<1>14. LastsRight'
  <2>1. ASSUME NEW s \in DOMAIN queue' PROVE queue'[s].last <=> IsEnd(s)'
    <3>1. CASE s \in DOMAIN queue
      <4>1. s \in Nat /\ s < next_seq
        BY <1>1, <3>1 DEF IInv, TypeOK, SenderOK, QueueOK
      <4>2. queue'[s] = queue[s] /\ (queue[s].last <=> IsEnd(s))
        BY <1>6, <3>1 DEF MessagesKept, LastsRight
      <4> QED
        BY <1>12, <4>1, <4>2
    <3>2. CASE s \notin DOMAIN queue
      <4>1. s \in next_seq..(next_seq + k - 1) /\ queue'[s] = FreshChunk(s = next_seq + k - 1)
        BY <1>6, <3>2
      <4>2. queue'[s].last = (s = next_seq + k - 1)
        BY <4>1 DEF FreshChunk
      <4> QED
        BY <1>13, <4>1, <4>2
    <3> QED
      BY <3>1, <3>2
  <2>2. ASSUME NEW p \in data' PROVE p.last <=> IsEnd(p.seq)'
    <3>1. PICK s : s = p.seq
      OBVIOUS
    <3>2. s \in Nat /\ s < next_seq /\ (p.last <=> IsEnd(s))
      BY <1>1, <1>6, <2>2, <3>1 DEF MessagesKept, LastsRight
    <3>3. p.last <=> IsEnd(s)'
      BY <1>12, <3>2
    <3> QED
      BY <3>1, <3>3
  <2>3. ASSUME NEW s \in DOMAIN pending' PROVE pending'[s] <=> IsEnd(s)'
    BY <1>1, <1>6, <1>12, <2>3 DEF MessagesKept, LastsRight
  <2> QED
    BY <2>1, <2>2, <2>3, Zenon DEF LastsRight
<1>15. PICK t \in 0..Len(sent_msgs) : Complete(t, cum) /\ Assembled(partial, oversize, t, cum)
  BY DEF MessagesKept
<1>16. t \in 0..N /\ End(t)' = End(t) /\ End(t) <= cum /\ \A j \in (t + 1)..N : cum < End(j)
  BY <1>2, <1>8, <1>15 DEF Complete
<1>17. t \in 0..Len(sent_msgs') /\ Complete(t, cum)'
  <2>1. ASSUME NEW j \in (t + 1)..(N + 1) PROVE cum < End(j)'
    <3>1. CASE j = N + 1
      BY <1>1, <1>8, <3>1
    <3>2. CASE j # N + 1
      <4>1. j \in (t + 1)..N /\ j \in 0..N
        BY <1>16, <3>2
      <4> QED
        BY <1>8, <1>16, <4>1
    <3> QED
      BY <3>1, <3>2
  <2>2. t \in 0..(N + 1)
    BY <1>16
  <2> QED
    BY <1>6, <1>7, <1>16, <2>1, <2>2 DEF Complete
<1>18. Assembled(partial, oversize, t, cum)'
  BY <1>6, <1>15, <1>16 DEF Assembled
<1>19. MessagesKept'
  BY <1>6, <1>11, <1>14, <1>17, <1>18 DEF MessagesKept
<1>20. Finished' = Finished
  <2>1. sent_msgs'[N + 1][Len(sent_msgs'[N + 1])] = next_seq + k - 1
    BY <1>5, <1>7
  <2>2. ~(next_seq + k - 1 <= cum)
    BY <1>1
  <2>3. \A i \in 1..(N + 1) : i = N + 1 \/ i \in 1..N
    OBVIOUS
  <2>4. \A i \in 1..N : i \in 1..(N + 1) /\ i # N + 1
    OBVIOUS
  <2>5. {i \in DOMAIN sent_msgs' : sent_msgs'[i][Len(sent_msgs'[i])] <= cum'} =
        {i \in DOMAIN sent_msgs : sent_msgs[i][Len(sent_msgs[i])] <= cum}
    BY <1>2, <1>6, <1>7, <2>1, <2>2, <2>3, <2>4
  <2> QED
    BY <2>5, Zenon DEF Finished
<1>21. m \in Messages
  <2>1. next_seq - 1 \in 0..MaxSeq
    BY <1>1, <1>6, ReliableAssumption
  <2>2. m = [i \in 1..k |-> (next_seq - 1) + i]
    BY <1>1, <1>4
  <2> QED
    BY <2>1, <2>2 DEF Messages
<1>22. Channel!Send
  <2>1. delivered' = delivered /\ sent_msgs' = Append(sent_msgs, m)
    BY <1>6
  <2> QED
    BY <1>20, <1>21, <2>1, Zenon DEF Channel!Send
<1> QED
  BY <1>19, <1>22

\* poll sends chunks with the flag they were queued with.
LEMMA PollKeeps ==
  ASSUME IInv, MessagesKept, NEW T, NEW b, Poll(T, b)
  PROVE  MessagesKept' /\ UNCHANGED Channel!vars
<1> DEFINE q1 == MarkLost(queue, T)
           cut == IF T = {} THEN <<cwnd, ssthresh, recovery_tx>>
                  ELSE OnCongestion(Max({queue[s].tx : s \in T}))
           room == Room(cut[1], q1)
           go == {s \in Eligible(q1) : Rank(s, Eligible(q1)) < Smaller(room, b)}
           tx(s) == next_tx + Rank(s, go)
<1>1. PICK front \in 1..next_seq : queue \in [front..(next_seq - 1) -> Chunk]
  BY DEF IInv, TypeOK, SenderOK, QueueOK
<1>2. /\ queue' = [s \in DOMAIN queue |->
                     IF s \in go THEN Transmitted(q1[s], tx(s)) ELSE q1[s]]
      /\ data' = data \union {[seq |-> s, last |-> queue[s].last, tx |-> tx(s)] : s \in go}
      /\ UNCHANGED <<next_seq, sent_msgs, delivered, cum, partial, oversize, pending>>
  BY DEF Poll, rcvVars
<1>3. DOMAIN q1 = DOMAIN queue /\ \A s \in DOMAIN queue : q1[s].last = queue[s].last
  BY <1>1 DEF MarkLost, Chunk
<1>4. go \subseteq DOMAIN queue
  <2> HIDE DEF q1
  <2> QED
    BY <1>3 DEF Eligible, Window
<1> HIDE DEF q1, go, tx
<1>5. \A c, n : Transmitted(c, n).last = c.last
  BY DEF Transmitted
<1>6. DOMAIN queue' = DOMAIN queue /\ \A s \in DOMAIN queue : queue'[s].last = queue[s].last
  <2>1. ASSUME NEW s \in DOMAIN queue PROVE queue'[s].last = queue[s].last
    <3>1. CASE s \in go
      BY <1>2, <1>3, <1>5, <3>1
    <3>2. CASE s \notin go
      BY <1>2, <1>3, <3>2
    <3> QED
      BY <3>1, <3>2
  <2> QED
    BY <1>2, <2>1
<1>7. \A s : IsEnd(s)' <=> IsEnd(s)
  BY <1>2 DEF IsEnd, End
<1>8. \A p \in data' : p \in data \/ \E s \in DOMAIN queue : p.seq = s /\ p.last = queue[s].last
  BY <1>2, <1>4
<1>9. LastsRight'
  <2>1. \A s \in DOMAIN queue' : queue'[s].last <=> IsEnd(s)'
    BY <1>6, <1>7 DEF MessagesKept, LastsRight
  <2>2. ASSUME NEW p \in data' PROVE p.last <=> IsEnd(p.seq)'
    <3>1. p.last <=> IsEnd(p.seq)
      BY <1>8 DEF MessagesKept, LastsRight
    <3> QED
      BY <1>7, <3>1
  <2>3. \A s \in DOMAIN pending' : pending'[s] <=> IsEnd(s)'
    BY <1>2, <1>7 DEF MessagesKept, LastsRight
  <2> QED
    BY <2>1, <2>2, <2>3, Zenon DEF LastsRight
<1>10. UNCHANGED <<next_seq, sent_msgs, delivered, cum, partial, oversize>>
  BY <1>2
<1> QED
  BY <1>9, <1>10, QuietKeeps

\* on_ack keeps the flags of the chunks that stay.
LEMMA OnAckKeeps ==
  ASSUME IInv, MessagesKept, NEW a, NEW queued \in BOOLEAN, NEW growth, OnAck(a, queued, growth)
  PROVE  MessagesKept' /\ UNCHANGED Channel!vars
<1> DEFINE popped == {s \in DOMAIN queue : s <= a.cum}
           picked == {s \in DOMAIN queue : Selected(a, s)}
           newly  == {s \in popped \union picked : queue[s].sent /\ ~queue[s].acked}
           sample == {queue[s].tx : s \in {r \in newly : Unambiguous(queue[r])}}
           top    == Max(sample \union {acked_tx})
           q1     == [s \in DOMAIN queue \ popped |->
                        IF s \in picked THEN [queue[s] EXCEPT !.acked = TRUE, !.lost = FALSE]
                                        ELSE queue[s]]
           late   == {s \in Window(q1, TRUE) : InFlight(q1[s]) /\ q1[s].tx + REORDER <= top}
           q2     == MarkLost(q1, late)
<1>1. PICK front \in 1..next_seq : queue \in [front..(next_seq - 1) -> Chunk]
  BY DEF IInv, TypeOK, SenderOK, QueueOK
<1>2. UNCHANGED <<next_seq, sent_msgs, delivered, cum, partial, oversize, pending, data>>
  BY DEF OnAck, rcvVars
<1>3. \A s \in DOMAIN queue' : s \in DOMAIN queue /\ queue'[s].last = queue[s].last
  <2>1. CASE a.cum >= next_seq
    BY <2>1 DEF OnAck
  <2>2. CASE ~(a.cum >= next_seq)
    <3>1. queue' = Restrict(q2, FromFirstUnacked(q2))
      BY <2>2 DEF OnAck
    <3>2. ASSUME NEW s \in DOMAIN q1
          PROVE  s \in DOMAIN queue /\ q1[s].last = queue[s].last /\ q1[s] \in Chunk
      <4>1. s \in DOMAIN queue /\ queue[s] \in Chunk
        BY <1>1
      <4>2. CASE s \in picked
        BY <4>1, <4>2 DEF Chunk
      <4>3. CASE s \notin picked
        BY <4>1, <4>3
      <4> QED
        BY <4>2, <4>3
    <3> HIDE DEF q1, late
    <3>3. DOMAIN q2 = DOMAIN q1
      BY DEF MarkLost
    <3>4. ASSUME NEW s \in DOMAIN q2 PROVE q2[s].last = q1[s].last
      <4>1. CASE s \in late
        BY <3>2, <3>3, <4>1 DEF MarkLost, Chunk
      <4>2. CASE s \notin late
        BY <3>3, <4>2 DEF MarkLost
      <4> QED
        BY <4>1, <4>2
    <3> HIDE DEF q2
    <3>5. /\ DOMAIN queue' \subseteq DOMAIN q2
          /\ \A s \in DOMAIN queue' : queue'[s] = q2[s]
      BY <3>1 DEF Restrict, FromFirstUnacked
    <3> QED
      BY <3>2, <3>3, <3>4, <3>5
  <2> QED
    BY <2>1, <2>2
<1>4. \A s : IsEnd(s)' <=> IsEnd(s)
  BY <1>2 DEF IsEnd, End
<1>5. LastsRight'
  <2>1. \A s \in DOMAIN queue' : queue'[s].last <=> IsEnd(s)'
    BY <1>3, <1>4 DEF MessagesKept, LastsRight
  <2>2. ASSUME NEW p \in data' PROVE p.last <=> IsEnd(p.seq)'
    <3>1. p.last <=> IsEnd(p.seq)
      BY <1>2 DEF MessagesKept, LastsRight
    <3> QED
      BY <1>4, <3>1
  <2>3. \A s \in DOMAIN pending' : pending'[s] <=> IsEnd(s)'
    BY <1>2, <1>4 DEF MessagesKept, LastsRight
  <2> QED
    BY <2>1, <2>2, <2>3, Zenon DEF LastsRight
<1>6. UNCHANGED <<next_seq, sent_msgs, delivered, cum, partial, oversize>>
  BY <1>2
<1> QED
  BY <1>5, <1>6, QuietKeeps

\* Acks made, datagrams lost.
LEMMA OtherKeeps ==
  ASSUME MessagesKept,
         UNCHANGED <<next_seq, queue, sent_msgs, delivered, cum, partial, oversize, pending>>,
         data' \subseteq data
  PROVE  MessagesKept' /\ UNCHANGED Channel!vars
<1>1. \A s : IsEnd(s)' <=> IsEnd(s)
  BY DEF IsEnd, End
<1>2. LastsRight'
  <2>1. \A s \in DOMAIN queue' : queue'[s].last <=> IsEnd(s)'
    BY <1>1 DEF MessagesKept, LastsRight
  <2>2. ASSUME NEW p \in data' PROVE p.last <=> IsEnd(p.seq)'
    <3>1. p.last <=> IsEnd(p.seq)
      BY DEF MessagesKept, LastsRight
    <3> QED
      BY <1>1, <3>1
  <2>3. \A s \in DOMAIN pending' : pending'[s] <=> IsEnd(s)'
    BY <1>1 DEF MessagesKept, LastsRight
  <2> QED
    BY <2>1, <2>2, <2>3, Zenon DEF LastsRight
<1>3. UNCHANGED <<next_seq, sent_msgs, delivered, cum, partial, oversize>>
  OBVIOUS
<1> QED
  BY <1>2, <1>3, QuietKeeps

\* Receiver::on_data returns the messages its datagram completes.
LEMMA DataKeeps ==
  ASSUME IInv, MessagesKept, NEW p \in data, NEW again \in BOOLEAN, DeliverData(p, again)
  PROVE  MessagesKept' /\ (Channel!Deliver \/ UNCHANGED Channel!vars)
<1>1. UNCHANGED <<next_seq, queue, sent_msgs>> /\ data' \subseteq data
  BY DEF DeliverData, OnData, sndVars
<1>2. /\ next_seq \in Nat /\ cum \in Nat /\ cum < next_seq
      /\ p.seq \in Nat /\ p.last \in BOOLEAN /\ p.seq < next_seq
      /\ \A s \in DOMAIN pending : /\ s \in (cum + 2)..(cum + WIDE_SPAN)
                                   /\ s < next_seq /\ pending[s] \in BOOLEAN
  BY DEF IInv, TypeOK, SenderOK, ReceiverOK, LinkOK, OnlySent, PendingShape
<1>3. CASE p.seq - cum <= 0 \/ p.seq - cum > WIDE_SPAN
  <2>1. UNCHANGED <<cum, pending, partial, oversize, delivered>>
    BY <1>3 DEF DeliverData, OnData
  <2>2. UNCHANGED <<next_seq, queue, sent_msgs, delivered, cum, partial, oversize, pending>>
    BY <1>1, <2>1
  <2> QED
    BY <1>1, <2>2, OtherKeeps
<1>4. CASE ~(p.seq - cum <= 0 \/ p.seq - cum > WIDE_SPAN)
  <2> DEFINE held == [s \in DOMAIN pending \union {p.seq} |->
                        IF s \in DOMAIN pending THEN pending[s] ELSE p.last]
             n == FirstMissing(DOMAIN held, cum)
             upto == n - 1
             run == [i \in 1..(upto - cum) |-> [seq |-> cum + i, last |-> held[cum + i]]]
             start == [partial |-> partial, oversize |-> oversize, out |-> <<>>]
             asm == AssembleAll(start, run)
  <2>1. /\ cum' = upto /\ pending' = Restrict(held, {s \in DOMAIN held : s > upto})
        /\ partial' = asm.partial /\ oversize' = asm.oversize /\ delivered' = delivered \o asm.out
    BY <1>4 DEF DeliverData, OnData
  <2>2. DOMAIN held = DOMAIN pending \union {p.seq}
    OBVIOUS
  <2>3. \A s \in DOMAIN held : /\ held[s] \in BOOLEAN /\ (held[s] <=> IsEnd(s))
                               /\ s \in Nat /\ s < next_seq /\ s > cum /\ s <= cum + WIDE_SPAN
    <3>1. p.seq > cum /\ p.seq <= cum + WIDE_SPAN
      BY <1>2, <1>4, ReliableAssumption
    <3>2. ASSUME NEW s \in DOMAIN pending
          PROVE  s \in Nat /\ s > cum /\ s <= cum + WIDE_SPAN /\ (pending[s] <=> IsEnd(s))
      BY <1>2, ReliableAssumption DEF MessagesKept, LastsRight
    <3>3. p.last <=> IsEnd(p.seq)
      BY DEF MessagesKept, LastsRight
    <3> QED
      BY <1>2, <3>1, <3>2, <3>3
  <2> HIDE DEF held
  <2>4. /\ n \in Nat /\ n > cum /\ n <= cum + WIDE_SPAN + 1
        /\ n \notin DOMAIN held /\ (cum + 1)..(n - 1) \subseteq DOMAIN held
    BY <1>2, <2>3, FirstMissingExists
  <2> HIDE DEF n
  <2>5. upto \in Nat /\ cum <= upto /\ upto <= next_seq - 1
    <3>1. CASE upto = cum
      BY <1>2, <3>1
    <3>2. CASE upto # cum
      <4>1. upto \in (cum + 1)..(n - 1)
        BY <1>2, <2>4, <3>2
      <4>2. upto \in DOMAIN held
        BY <2>4, <4>1
      <4> QED
        BY <1>2, <2>3, <2>4, <4>2
    <3> QED
      BY <3>1, <3>2
  <2>6. \A i \in 1..(upto - cum) : cum + i \in DOMAIN held
    <3>1. \A i \in 1..(upto - cum) : cum + i \in (cum + 1)..(n - 1)
      BY <1>2, <2>4
    <3> QED
      BY <2>4, <3>1
  <2> HIDE DEF upto
  <2>7. /\ run \in Seq(Drained) /\ Len(run) = upto - cum
        /\ \A i \in 1..(upto - cum) : run[i].seq = cum + i /\ (run[i].last <=> IsEnd(cum + i))
    <3>1. \A i \in 1..(upto - cum) : run[i] \in Drained
      BY <1>2, <2>3, <2>5, <2>6 DEF Drained
    <3>2. run \in Seq(Drained) /\ Len(run) = upto - cum
      <4>1. run \in [1..(upto - cum) -> Drained] /\ upto - cum \in Nat
        BY <1>2, <2>5, <3>1
      <4> HIDE DEF run
      <4> QED
        BY <4>1
    <3>3. \A i \in 1..(upto - cum) : run[i].seq = cum + i /\ run[i].last = held[cum + i]
      OBVIOUS
    <3> HIDE DEF run
    <3> QED
      BY <2>3, <2>6, <3>2, <3>3
  <2> HIDE DEF run
  <2>8. PICK t \in 0..Len(sent_msgs) : Complete(t, cum) /\ Assembled(partial, oversize, t, cum)
    BY DEF MessagesKept
  <2>9. start \in Assembly /\ start.partial = partial /\ start.oversize = oversize /\ start.out = <<>>
    BY <2>8 DEF Assembly, MessagesKept, Assembled
  <2>10. Cuts /\ cum + (upto - cum) = upto
    BY <1>2, <2>5 DEF MessagesKept
  <2>11. PICK u \in 0..Len(sent_msgs) : Complete(u, upto)
    BY <2>5, <2>10, CompleteExists
  <2> HIDE DEF start, asm
  <2>12. /\ asm \in Assembly /\ Assembled(asm.partial, asm.oversize, u, upto)
         /\ t <= u /\ asm.out = Channel!Fitting(SubSeq(sent_msgs, t + 1, u))
    <3>1. PICK r, s0, c0, e, a : r = run /\ s0 = start /\ c0 = cum /\ e = upto /\ a = asm
      OBVIOUS
    <3>2. RunsTo(r, c0, e)
      BY <2>5, <2>7, <2>10, <3>1 DEF RunsTo
    <3>3. StartsAt(s0, c0, t) /\ c0 \in Nat /\ Complete(u, e)
      BY <1>2, <2>8, <2>9, <2>11, <3>1 DEF StartsAt
    <3>4. Cuts /\ next_seq \in Nat /\ a = AssembleAll(s0, r)
      BY <1>2, <2>10, <3>1 DEF asm
    <3>5. /\ a \in Assembly /\ Assembled(a.partial, a.oversize, u, e)
          /\ t <= u /\ a.out = Channel!Fitting(SubSeq(sent_msgs, t + 1, u))
      BY <3>2, <3>3, <3>4, RunAssembled
    <3> QED
      BY <3>1, <3>5
  <2>13. MessagesKept'
    <3>1. \A j : End(j)' = End(j)
      BY <1>1 DEF End
    <3>2. \A s : IsEnd(s)' <=> IsEnd(s)
      BY <1>1, <3>1 DEF IsEnd
    <3>3. Cuts'
      BY <1>1, <2>10, <3>1 DEF Cuts
    <3>4. \A s \in DOMAIN pending' : pending'[s] <=> IsEnd(s)
      <4>1. /\ DOMAIN pending' = {s \in DOMAIN held : s > upto}
            /\ \A s \in DOMAIN pending' : pending'[s] = held[s]
        BY <2>1 DEF Restrict
      <4> QED
        BY <2>3, <4>1
    <3>5. LastsRight'
      <4>1. \A s \in DOMAIN queue' : queue'[s].last <=> IsEnd(s)'
        BY <1>1, <3>2 DEF MessagesKept, LastsRight
      <4>2. ASSUME NEW d \in data' PROVE d.last <=> IsEnd(d.seq)'
        <5>1. d.last <=> IsEnd(d.seq)
          BY <1>1 DEF MessagesKept, LastsRight
        <5> QED
          BY <3>2, <5>1
      <4> QED
        BY <3>2, <3>4, <4>1, <4>2, Zenon DEF LastsRight
    <3>6. delivered' \in Seq(Seq(Nat)) /\ partial' \in Seq(Nat)
      <4>1. asm.out \in Seq(Seq(Nat)) /\ asm.partial \in Seq(Nat)
        BY <2>12 DEF Assembly
      <4> QED
        BY <2>1, <4>1 DEF MessagesKept
    <3>8. u \in 0..Len(sent_msgs') /\ Complete(u, cum)'
      BY <1>1, <2>1, <2>11, <3>1 DEF Complete
    <3>9. Assembled(partial, oversize, u, cum)'
      <4>1. Assembled(asm.partial, asm.oversize, u, upto)
        BY <2>12
      <4> QED
        BY <2>1, <3>1, <4>1 DEF Assembled
    <3> QED
      BY <3>3, <3>5, <3>6, <3>8, <3>9 DEF MessagesKept
  <2>14. Finished = t /\ Finished' = u
    <3>1. Finished = t
      BY <1>2, <2>8, <2>10, CompleteCount DEF Finished
    <3>2. Cardinality({i \in DOMAIN sent_msgs : sent_msgs[i][Len(sent_msgs[i])] <= upto}) = u
      BY <2>5, <2>10, <2>11, CompleteCount
    <3> QED
      BY <1>1, <2>1, <3>1, <3>2 DEF Finished
  <2>15. CASE t = u
    <3>1. PICK s : s = SubSeq(sent_msgs, t + 1, u)
      OBVIOUS
    <3>2. s \in Seq(Seq(Nat)) /\ Len(s) = 0
      <4>1. sent_msgs \in Seq(Seq(Nat)) /\ t \in Nat /\ t <= Len(sent_msgs)
        BY <2>8, <2>10 DEF Cuts
      <4> QED
        BY <2>15, <3>1, <4>1
    <3>3. PICK f : Picks(f, s) /\ Channel!Fitting(s) = f[Len(s)]
      BY <3>2, FittingUnfolds
    <3>4. Channel!Fitting(s) = <<>>
      BY <3>2, <3>3 DEF Picks
    <3>5. asm.out = <<>>
      BY <2>12, <3>1, <3>4
    <3>6. delivered' = delivered
      BY <2>1, <3>5 DEF MessagesKept
    <3>7. UNCHANGED Channel!vars
      BY <1>1, <2>14, <2>15, <3>6 DEF Channel!vars
    <3> QED
      BY <2>13, <3>7
  <2>16. CASE t # u
    <3>1. u \in (t + 1)..Len(sent_msgs)
      <4>1. PICK N \in Nat : N = Len(sent_msgs)
        BY <2>10, CutFacts, Zenon
      <4>2. t \in 0..N /\ u \in 0..N /\ t <= u
        BY <2>8, <2>11, <2>12, <4>1
      <4> QED
        BY <2>16, <4>1, <4>2
    <3>2. delivered' = delivered \o Channel!Fitting(SubSeq(sent_msgs, Finished + 1, u))
      BY <2>1, <2>12, <2>14
    <3>3. u \in (Finished + 1)..Len(sent_msgs)
      BY <2>14, <3>1
    <3>4. Channel!Deliver
      BY <1>1, <2>14, <3>2, <3>3, Zenon DEF Channel!Deliver
    <3> QED
      BY <2>13, <3>4
  <2> QED
    BY <2>15, <2>16
<1> QED
  BY <1>3, <1>4

\* The reliable channel (crates/rdp-hyper/src/reliable.rs) implements the
\* message channel: for every span, window, message size and traffic, whatever
\* the link loses, repeats or reorders, Receiver::on_data hands out the messages
\* of Sender::send whole, in order and once, those over MAX_MESSAGE left out.
THEOREM ChannelRefined == Spec => RefinesChannel
<1>1. IInv /\ MessagesKept /\ [Next]_vars => MessagesKept' /\ [Channel!Next]_(Channel!vars)
  <2> SUFFICES ASSUME IInv, MessagesKept, [Next]_vars
               PROVE  MessagesKept' /\ (Channel!Next \/ UNCHANGED Channel!vars)
    OBVIOUS
  <2> DEFINE Goal == MessagesKept' /\ (Channel!Next \/ UNCHANGED Channel!vars)
  <2>1. ASSUME NEW k \in 1..MaxChunks, Send(k) PROVE Goal
    BY <2>1, SendKeeps DEF Channel!Next
  <2>2. ASSUME NEW T, NEW b, Poll(T, b) PROVE Goal
    BY <2>2, PollKeeps
  <2>3. ASSUME NEW p \in data, NEW again \in BOOLEAN, DeliverData(p, again) PROVE Goal
    BY <2>3, DataKeeps DEF Channel!Next
  <2>4. ASSUME NEW a \in acks, NEW again \in BOOLEAN, NEW queued \in BOOLEAN, NEW g,
               DeliverAck(a, again, queued, g)
        PROVE  Goal
    BY <2>4, OnAckKeeps DEF DeliverAck
  <2>5. ASSUME \/ \E delayed \in BOOLEAN : Ack(delayed)
               \/ \E p \in data : LoseData(p)
               \/ \E a \in acks : LoseAck(a)
               \/ UNCHANGED vars
        PROVE  Goal
    <3>1. /\ UNCHANGED <<next_seq, queue, sent_msgs, delivered, cum, partial, oversize, pending>>
          /\ data' \subseteq data
      BY <2>5 DEF Ack, LoseData, LoseAck, vars, sndVars, rcvVars
    <3> QED
      BY <3>1, OtherKeeps
  <2> QED
    BY <2>1, <2>2, <2>3, <2>4, <2>5 DEF Next
<1> QED
  BY <1>1, MessagesInit, Inductive, PTL DEF Spec, RefinesChannel, Channel!Spec

=============================================================================
