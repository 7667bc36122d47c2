------------------------------ MODULE Reliable ------------------------------
(***************************************************************************)
(* The reliable, ordered message channel of crates/rdp-hyper/src/          *)
(* reliable.rs: one Sender, one Receiver and the datagram link between     *)
(* them, which loses, delays and reorders, and may deliver a datagram      *)
(* again.                                                                  *)
(*                                                                         *)
(* A chunk's payload is its sequence number, so a message is the sequence  *)
(* of its chunks' numbers, and every chunk has size 1 (MAX_MESSAGE counts  *)
(* chunks).  Time is abstracted to choices: which chunks in flight have    *)
(* outlived the retransmission timeout, how many chunks the pacing budget  *)
(* allows, whether a round trip shows a queue, whether the ack delay has   *)
(* passed.  The congestion window is kept rounded up, which is all poll's  *)
(* comparison with a count can see of it.                                  *)
(*                                                                         *)
(* An operator just before one it resembles (UnambiguousAlways,            *)
(* WindowUnlimited, ...) is a plausible bug of it that a property catches. *)
(***************************************************************************)
EXTENDS Integers, FiniteSets, Sequences, SequencesExt

CONSTANTS
  SPAN,          \* sequence numbers in flight with a peer not known to be wide
  WIDE_SPAN,     \* ... and with one whose acks cover more
  REORDER,       \* transmissions of reordering tolerated before "lost"
  CWND_MIN, CWND_START,
  ACK_EVERY,     \* chunks per batched ack
  MAX_MESSAGE,   \* chunks of the largest message delivered
  MaxSeq,        \* bound: chunks ever queued
  MaxTx,         \* bound: transmissions ever made
  MaxChunks,     \* bound: chunks of one message
  MaxNet         \* bound: datagrams in flight each way

ASSUME ReliableAssumption ==
  /\ SPAN \in Nat \ {0} /\ WIDE_SPAN \in Nat /\ SPAN <= WIDE_SPAN
  /\ REORDER \in Nat \ {0}
  /\ CWND_MIN \in Nat \ {0} /\ CWND_START \in Nat /\ CWND_MIN <= CWND_START
  /\ ACK_EVERY \in Nat \ {0}
  /\ MAX_MESSAGE \in Nat /\ MaxSeq \in Nat /\ MaxTx \in Nat /\ MaxChunks \in Nat /\ MaxNet \in Nat

VARIABLES
  next_seq, queue, next_tx, acked_tx, recovery_tx, cwnd, ssthresh, wide,
  cum, pending, partial, oversize, unacked, urgent,
  data, acks,                       \* datagrams in flight
  sent_msgs, delivered, arrived     \* history: messages in, messages out,
                                    \* transmissions the receiver has seen

sndVars  == <<next_seq, queue, next_tx, acked_tx, recovery_tx, cwnd, ssthresh, wide>>
rcvVars  == <<cum, pending, partial, oversize, unacked, urgent>>
vars == <<sndVars, rcvVars, data, acks, sent_msgs, delivered, arrived>>

-----------------------------------------------------------------------------
(* The sending half *)

Larger(a, b) == IF a >= b THEN a ELSE b
Smaller(a, b) == IF a <= b THEN a ELSE b

\* A chunk as Sender::send queues it.  sent is "has been transmitted".
FreshChunk(is_last) == [sent |-> FALSE, tx |-> 0, retries |-> 0,
                        acked |-> FALSE, lost |-> FALSE, last |-> is_last]

InFlightAcked(c) == c.sent /\ ~c.lost
InFlight(c) == c.sent /\ ~c.acked /\ ~c.lost

Span(w) == IF w THEN WIDE_SPAN ELSE SPAN

\* The chunks within the span of the front of the queue.
WindowUnlimited(q, w) == DOMAIN q
Window(q, w) == {s \in DOMAIN q : \A r \in DOMAIN q : s - r < Span(w)}

\* Halve the window, once per congestion episode; at is the transmission the
\* evidence is about.  The result is the new <<cwnd, ssthresh, recovery_tx>>.
OnCongestion(at) ==
  LET half == Larger((cwnd + 1) \div 2, CWND_MIN) IN
  IF at >= recovery_tx THEN <<half, half, next_tx>>
                       ELSE <<cwnd, ssthresh, recovery_tx>>

MarkLost(q, L) == [s \in DOMAIN q |-> IF s \in L THEN [q[s] EXCEPT !.lost = TRUE] ELSE q[s]]

\* Sender::send: cut a message of k chunks, the last one flagged.
Send(k) ==
  /\ next_seq + k - 1 <= MaxSeq
  /\ queue' = [s \in DOMAIN queue \union next_seq..(next_seq + k - 1) |->
                 IF s \in DOMAIN queue THEN queue[s]
                                       ELSE FreshChunk(s = next_seq + k - 1)]
  /\ next_seq' = next_seq + k
  /\ sent_msgs' = Append(sent_msgs, [i \in 1..k |-> next_seq + i - 1])
  /\ UNCHANGED <<next_tx, acked_tx, recovery_tx, cwnd, ssthresh, wide, rcvVars,
                 data, acks, delivered, arrived>>

\* A chunk after it goes out as transmission n.
Transmitted(c, n) ==
  [c EXCEPT !.sent = TRUE, !.lost = FALSE, !.tx = n,
            !.retries = IF c.sent THEN c.retries + 1 ELSE c.retries]

\* What poll may transmit: lost and new chunks of the window.
Eligible(q) == {s \in Window(q, wide) : ~q[s].acked /\ (q[s].sent => q[s].lost)}

\* How many more chunks a window of c lets out.
Room(c, q) == c - Cardinality({s \in Window(q, wide) : InFlight(q[s])})

\* Position of s among S, from 0.
Rank(s, S) == Cardinality({r \in S : r < s})

\* Sender::poll: T are the chunks whose timeout has passed, budget the number
\* of chunks the token bucket pays for.  Lost chunks and new ones go out in
\* sequence order while the congestion window has room.
Poll(T, budget) ==
  LET q1   == MarkLost(queue, T)
      cut  == IF T = {} THEN <<cwnd, ssthresh, recovery_tx>>
              ELSE OnCongestion(Max({queue[s].tx : s \in T}))
      room == Room(cut[1], q1)
      go   == {s \in Eligible(q1) : Rank(s, Eligible(q1)) < Smaller(room, budget)}
      tx(s) == next_tx + Rank(s, go)
  IN
  /\ T \subseteq {s \in Window(queue, wide) : InFlight(queue[s])}
  /\ next_tx + Cardinality(go) <= MaxTx + 1 /\ Cardinality(data) + Cardinality(go) <= MaxNet
  /\ queue' = [s \in DOMAIN queue |->
                 IF s \in go THEN Transmitted(q1[s], tx(s)) ELSE q1[s]]
  /\ next_tx' = next_tx + Cardinality(go)
  /\ cwnd' = cut[1] /\ ssthresh' = cut[2] /\ recovery_tx' = cut[3]
  /\ data' = data \union {[seq |-> s, last |-> queue[s].last, tx |-> tx(s)] : s \in go}
  /\ UNCHANGED <<next_seq, acked_tx, wide, rcvVars, acks, sent_msgs, delivered, arrived>>

\* The selective part of ack a covers s: bit i stands for a.cum + 1 + i.
SelectedOffByOne(a, s) == s > a.cum /\ s + 1 \in a.bits
Selected(a, s) == s > a.cum /\ s \in a.bits

\* Karn: only a chunk sent once says which transmission arrived.
UnambiguousAlways(c) == TRUE
Unambiguous(c) == c.retries = 0

\* What is left once acknowledged chunks are popped off the front.
AnyUnacked(q) == {r \in DOMAIN q : ~q[r].acked}
FromFirstUnacked(q) == {r \in DOMAIN q : \E u \in DOMAIN q : u <= r /\ ~q[u].acked}

\* Sender::on_ack for ack a; queued says that the round trip it samples is
\* well above the path's minimum; growth is what congestion avoidance adds.
OnAck(a, queued, growth) ==
  LET popped == {s \in DOMAIN queue : s <= a.cum}
      picked == {s \in DOMAIN queue : Selected(a, s)}
      newly  == {s \in popped \union picked : queue[s].sent /\ ~queue[s].acked}
      sample == {queue[s].tx : s \in {r \in newly : Unambiguous(queue[r])}}
      top    == Max(sample \union {acked_tx})
      q1     == [s \in DOMAIN queue \ popped |->
                   IF s \in picked THEN [queue[s] EXCEPT !.acked = TRUE, !.lost = FALSE]
                                   ELSE queue[s]]
      late   == {s \in Window(q1, TRUE) : InFlight(q1[s]) /\ q1[s].tx + REORDER <= top}
      q2     == MarkLost(q1, late)
      signs  == {q1[s].tx : s \in late} \union (IF queued THEN {Max(sample)} ELSE {})
      cut    == OnCongestion(Max(signs))
  IN
  /\ wide' = TRUE
  /\ IF a.cum >= next_seq
     THEN UNCHANGED <<queue, acked_tx, cwnd, ssthresh, recovery_tx>>
     ELSE /\ queued => (sample # {} /\ acked_tx > 0)
          /\ growth \in (IF cwnd < ssthresh THEN {Cardinality(newly)}
                                            ELSE 0..Cardinality(newly))
          /\ acked_tx' = top
          /\ queue' = Restrict(q2, FromFirstUnacked(q2))
          /\ IF signs # {}
             THEN cwnd' = cut[1] /\ ssthresh' = cut[2] /\ recovery_tx' = cut[3]
             ELSE /\ cwnd' = IF newly = {} THEN cwnd ELSE Smaller(cwnd + growth, WIDE_SPAN)
                  /\ UNCHANGED <<ssthresh, recovery_tx>>
  /\ UNCHANGED <<next_seq, next_tx, rcvVars, data, sent_msgs, delivered, arrived>>

-----------------------------------------------------------------------------
(* The receiving half *)

\* The first sequence number after c that is not held: the drain stops there.
FirstMissing(held, c) ==
  CHOOSE n \in (c + 1)..(c + WIDE_SPAN + 1) :
    n \notin held /\ (c + 1)..(n - 1) \subseteq held

\* One drained chunk joins the message being assembled.
AssembleKeepingOversize(st, c) ==
  LET over == st.oversize \/ Len(st.partial) + 1 > MAX_MESSAGE
      part == IF over THEN <<>> ELSE Append(st.partial, c.seq)
  IN IF c.last
     THEN [partial |-> <<>>, oversize |-> over,
           out |-> IF over THEN st.out ELSE Append(st.out, part)]
     ELSE [partial |-> part, oversize |-> over, out |-> st.out]
Assemble(st, c) ==
  LET over == st.oversize \/ Len(st.partial) + 1 > MAX_MESSAGE
      part == IF over THEN <<>> ELSE Append(st.partial, c.seq)
  IN IF c.last
     THEN [partial |-> <<>>, oversize |-> FALSE,
           out |-> IF over THEN st.out ELSE Append(st.out, part)]
     ELSE [partial |-> part, oversize |-> over, out |-> st.out]

\* The drained chunks, one after the other.
AssembleAll(start, run) ==
  LET asm[i \in 0..Len(run)] == IF i = 0 THEN start ELSE Assemble(asm[i - 1], run[i])
  IN  asm[Len(run)]

\* Every datagram counts towards the next ack, duplicates too (up to the
\* threshold, past which the count makes no difference).
CountedIfNew(ahead) == IF ahead <= 0 THEN unacked ELSE Smaller(unacked + 1, ACK_EVERY)
Counted(ahead) == Smaller(unacked + 1, ACK_EVERY)

\* Receiver::on_data for datagram p.
OnData(p) ==
  LET ahead == p.seq - cum
      held  == [s \in DOMAIN pending \union {p.seq} |->
                  IF s \in DOMAIN pending THEN pending[s] ELSE p.last]
      upto  == FirstMissing(DOMAIN held, cum) - 1
      run   == [i \in 1..(upto - cum) |-> [seq |-> cum + i, last |-> held[cum + i]]]
      asm   == AssembleAll([partial |-> partial, oversize |-> oversize, out |-> <<>>], run)
  IN
  /\ unacked' = Counted(ahead)
  /\ arrived' = arrived \union {p.tx}
  /\ IF ahead <= 0 \/ ahead > WIDE_SPAN
     THEN /\ urgent' = TRUE
          /\ UNCHANGED <<cum, pending, partial, oversize, delivered>>
     ELSE /\ cum' = upto
          /\ pending' = Restrict(held, {s \in DOMAIN held : s > upto})
          /\ partial' = asm.partial /\ oversize' = asm.oversize
          /\ delivered' = delivered \o asm.out
          /\ urgent' = (urgent \/ ahead # 1 \/ \E i \in DOMAIN run : run[i].last)
  /\ UNCHANGED <<sndVars, acks, sent_msgs>>

\* Receiver::ack, when one is due: at once for a hole, a duplicate, a finished
\* message or ACK_EVERY chunks, else when the delay has passed.
Ack(delayed) ==
  /\ unacked > 0 /\ Cardinality(acks) < MaxNet
  /\ urgent \/ unacked >= ACK_EVERY \/ delayed
  /\ unacked' = 0 /\ urgent' = FALSE
  /\ acks' = acks \union {[cum |-> cum, bits |-> {s \in DOMAIN pending : s - (cum + 1) < WIDE_SPAN}]}
  /\ UNCHANGED <<sndVars, cum, pending, partial, oversize, data, sent_msgs, delivered, arrived>>

-----------------------------------------------------------------------------
(* The link: what is in flight arrives, once or again, or is lost. *)

DeliverData(p, again) ==
  /\ p \in data
  /\ OnData(p)
  /\ data' = IF again THEN data ELSE data \ {p}

DeliverAck(a, again, queued, growth) ==
  /\ a \in acks
  /\ OnAck(a, queued, growth)
  /\ acks' = IF again THEN acks ELSE acks \ {a}

LoseData(p) == p \in data /\ data' = data \ {p}
               /\ UNCHANGED <<sndVars, rcvVars, acks, sent_msgs, delivered, arrived>>

LoseAck(a) == a \in acks /\ acks' = acks \ {a}
              /\ UNCHANGED <<sndVars, rcvVars, data, sent_msgs, delivered, arrived>>

Init ==
  /\ next_seq = 1 /\ queue = [s \in {} |-> FreshChunk(FALSE)] /\ next_tx = 1 /\ acked_tx = 0 /\ recovery_tx = 0
  /\ cwnd = CWND_START /\ ssthresh = WIDE_SPAN /\ wide = FALSE
  /\ cum = 0 /\ pending = [s \in {} |-> FALSE] /\ partial = <<>> /\ oversize = FALSE
  /\ unacked = 0 /\ urgent = FALSE
  /\ data = {} /\ acks = {}
  /\ sent_msgs = <<>> /\ delivered = <<>> /\ arrived = {}

Next ==
  \/ \E k \in 1..MaxChunks : Send(k)
  \/ \E T \in SUBSET DOMAIN queue, b \in 0..Cardinality(DOMAIN queue) : Poll(T, b)
  \/ \E p \in data, again \in BOOLEAN : DeliverData(p, again)
  \/ \E delayed \in BOOLEAN : Ack(delayed)
  \/ \E a \in acks, again, queued \in BOOLEAN, g \in 0..Cardinality(DOMAIN queue) :
       DeliverAck(a, again, queued, g)
  \/ \E p \in data : LoseData(p)
  \/ \E a \in acks : LoseAck(a)

Spec == Init /\ [][Next]_vars
-----------------------------------------------------------------------------
(* Properties *)

Chunk == [sent : BOOLEAN, tx : Nat, retries : Nat, acked : BOOLEAN,
          lost : BOOLEAN, last : BOOLEAN]

\* Every variable keeps its type; the queue is contiguous and ends just below
\* next_seq, as the comment on Sender.queue says.
QueueOK == \E front \in 1..next_seq : queue \in [front..(next_seq - 1) -> Chunk]
SenderOK ==
  /\ next_seq \in Nat \ {0} /\ QueueOK
  /\ next_tx \in Nat \ {0} /\ acked_tx \in Nat /\ recovery_tx \in Nat
  /\ cwnd \in Nat /\ ssthresh \in Nat /\ wide \in BOOLEAN
ReceiverOK ==
  /\ cum \in Nat /\ DOMAIN pending \subseteq Nat
  /\ pending \in [DOMAIN pending -> BOOLEAN]
  /\ unacked \in 0..ACK_EVERY /\ urgent \in BOOLEAN
LinkOK ==
  /\ data \subseteq [seq : Nat, last : BOOLEAN, tx : Nat]
  /\ acks \subseteq [cum : Nat, bits : SUBSET Nat]
  /\ arrived \subseteq Nat
TypeOK == SenderOK /\ ReceiverOK /\ LinkOK

Received(s) == s <= cum \/ s \in DOMAIN pending

\* The sender lets go of a chunk (pops it, or marks it acknowledged and so
\* never resends it) only if the receiver holds it: stale, reordered and
\* repeated acks included.
NoChunkForgotten ==
  \A s \in 1..(next_seq - 1) :
    (s \notin DOMAIN queue \/ queue[s].acked) => Received(s)

\* on_data never has to refuse a chunk that was really sent as "nonsense":
\* whatever the sender has transmitted lies within WIDE_SPAN of cum, although
\* the sender measures its span from its own, older front.
NeverNonsense ==
  \A s \in DOMAIN queue : queue[s].sent => s - cum <= WIDE_SPAN

\* Karn's rule in on_ack: the transmission that loss detection compares with
\* is one that really reached the receiver, never a resend whose first copy
\* was the one acknowledged.
AckedTxArrived == acked_tx \in arrived \union {0}

\* Strengthenings the proofs need.  Acks in flight, however old, never say
\* more than the receiver holds now;
AcksTruthful ==
  \A a \in acks : a.cum <= cum /\ \A s \in a.bits : Received(s)
\* held chunks lie in the receiver's window, just past a hole;
PendingShape ==
  DOMAIN pending \subseteq (cum + 2)..(cum + WIDE_SPAN)
\* transmission numbers in use were handed out;
TxBound ==
  /\ acked_tx < next_tx
  /\ \A s \in DOMAIN queue : queue[s].tx < next_tx
\* the receiver has only what was queued; and while a chunk was sent at most
\* once, everything known of it stems from that transmission.
OnlySent ==
  /\ \A p \in data : p.seq < next_seq
  /\ cum < next_seq /\ \A s \in DOMAIN pending : s < next_seq
SentOnce ==
  /\ \A p \in data : p.seq \in DOMAIN queue =>
       queue[p.seq].sent /\ (queue[p.seq].retries = 0 => p.tx = queue[p.seq].tx)
  /\ \A s \in DOMAIN queue : Received(s) =>
       queue[s].sent /\ (queue[s].retries = 0 => queue[s].tx \in arrived)

IInv == TypeOK /\ NoChunkForgotten /\ NeverNonsense /\ AckedTxArrived
        /\ AcksTruthful /\ PendingShape /\ TxBound /\ OnlySent /\ SentOnce

\* A chunk is resent only while it is undecided: what the sender knows the
\* receiver has is never transmitted again.
NoResendOfAcked ==
  [][\A s \in DOMAIN queue \intersect DOMAIN queue' :
       queue[s].acked => queue'[s] = queue[s]]_vars

\* The messages out are the messages in: whole, in order, exactly once.
Fits(m) == Len(m) <= MAX_MESSAGE
Messages == {[i \in 1..k |-> s + i] : s \in 0..MaxSeq, k \in 1..MaxChunks}
Finished == Cardinality({i \in DOMAIN sent_msgs : sent_msgs[i][Len(sent_msgs[i])] <= cum})
Channel == INSTANCE MessageChannel WITH Message <- Messages, sent <- sent_msgs, taken <- Finished
RefinesChannel == Channel!Spec
=============================================================================
