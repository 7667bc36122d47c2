------------------------------- MODULE Input -------------------------------
(***************************************************************************)
(* Client input to the host without retransmission timers                   *)
(* (crates/rdp-hyper/src/input.rs): InputSender numbers and merges events   *)
(* and repeats what is not acknowledged; InputReceiver applies each number  *)
(* once, in order, and stops at a gap.                                      *)
(*                                                                         *)
(* ReceiveOneSkipping and AckedAfter are plausible bugs of the definition    *)
(* after them, which the properties catch.                                  *)
(*                                                                         *)
(* To say that nothing is lost, repeated or bent on the way, both ends keep *)
(* the state the events drive as history: where the pointer is, whether a   *)
(* key is down, where a finger is.                                          *)
(***************************************************************************)
EXTENDS Integers, FiniteSets, Sequences, SequencesExt

CONSTANTS
  MAX_PER_PACKET, CAPPED_TAIL, CAPPED_REPEATS,
  REL_MAX,       \* the largest relative move an event holds (i16::MAX)
  Steps,         \* relative moves a mouse reports at once
  Places,        \* absolute positions
  Fingers,
  MaxInputSeq,        \* bound: events numbered
  MaxPushes,     \* bound: events pushed
  MaxNet         \* bound: datagrams in flight each way

ASSUME InputAssumption ==
  /\ MAX_PER_PACKET \in Nat \ {0} /\ CAPPED_TAIL \in Nat /\ CAPPED_REPEATS \in Nat
  /\ REL_MAX \in Nat /\ Steps \subseteq -REL_MAX..REL_MAX /\ Places \subseteq Nat

VARIABLES pending, next_seq, sent_up_to,      \* InputSender
          applied,                      \* InputReceiver
          input_packets, acks,                \* datagrams in flight
          client, host, pushes          \* history: what the events drive

inputVars == <<pending, next_seq, sent_up_to, applied, input_packets, acks, client, host, pushes>>

-----------------------------------------------------------------------------
(* Events, and what they drive *)

Event == [kind : {"rel"}, by : Steps] \union [kind : {"abs"}, at : Places]
         \union [kind : {"key"}, down : BOOLEAN]
         \union [kind : {"touch"}, finger : Fingers, phase : {"down", "move", "up"}, at : Places]

Lifted == -1
Idle == [pointer |-> 0, key |-> FALSE, touch |-> [f \in Fingers |-> Lifted]]

Apply(st, ev) ==
  CASE ev.kind = "rel" -> [st EXCEPT !.pointer = @ + ev.by]
    [] ev.kind = "abs" -> [st EXCEPT !.pointer = ev.at]
    [] ev.kind = "key" -> [st EXCEPT !.key = ev.down]
    [] ev.kind = "touch" -> [st EXCEPT !.touch[ev.finger] = IF ev.phase = "up" THEN Lifted ELSE ev.at]

-----------------------------------------------------------------------------
(* The client: InputSender *)

\* The last event pending has not been put in any packet yet.
LastUnsent == pending # <<>> /\ Last(pending).seq > sent_up_to

\* The newest event can take ev up: relative moves add, the last absolute
\* position or place of the same finger counts.
MergesWith(old, ev) ==
  /\ old.kind = ev.kind
  /\ \/ ev.kind = "rel" /\ old.by + ev.by \in -REL_MAX..REL_MAX
     \/ ev.kind = "abs"
     \/ ev.kind = "touch" /\ old.phase = "move" /\ ev.phase = "move" /\ old.finger = ev.finger

Merged(old, ev) == IF ev.kind = "rel" THEN [old EXCEPT !.by = @ + ev.by] ELSE ev

\* InputSender::push.
PushInput(ev) ==
  /\ pushes < MaxPushes /\ next_seq <= MaxInputSeq
  /\ IF LastUnsent /\ MergesWith(Last(pending).ev, ev)
     THEN /\ pending' = [pending EXCEPT ![Len(pending)].ev = Merged(@, ev)]
          /\ next_seq' = next_seq
     ELSE /\ pending' = Append(pending, [seq |-> next_seq, ev |-> ev, sends |-> 0])
          /\ next_seq' = next_seq + 1
  /\ client' = Apply(client, ev)
  /\ pushes' = pushes + 1
  /\ UNCHANGED <<sent_up_to, applied, input_packets, acks, host>>

\* InputSender::packets_from: at most max_packets packets of the events from
\* the start-th on (from 0), each counted (counted up to CAPPED_REPEATS).
PacketsFrom(start, max_packets) ==
  LET stop == Min({Len(pending), start + max_packets * MAX_PER_PACKET})
      cut(i) == SubSeq(pending, i, Min({stop, i + MAX_PER_PACKET - 1}))
      heads == {i \in (start + 1)..stop : (i - start - 1) % MAX_PER_PACKET = 0}
  IN
  /\ pending' = [i \in DOMAIN pending |->
                   IF i \in (start + 1)..stop
                   THEN [pending[i] EXCEPT !.sends = Min({@ + 1, CAPPED_REPEATS})]
                   ELSE pending[i]]
  /\ sent_up_to' = IF heads = {} THEN sent_up_to ELSE Max({sent_up_to, pending[stop].seq})
  /\ input_packets' = input_packets \union
       {[first |-> pending[i].seq, events |-> [j \in DOMAIN cut(i) |-> cut(i)[j].ev]] : i \in heads}
  /\ Cardinality(input_packets') <= MaxNet
  /\ UNCHANGED <<next_seq, applied, acks, client, host, pushes>>

\* InputSender::packets: everything unacknowledged, oldest first.
Packets(max_packets) == pending # <<>> /\ PacketsFrom(0, max_packets)

\* InputSender::capped_packets: from the newest CAPPED_TAIL events, or from
\* any event not sent CAPPED_REPEATS times yet.
CappedStart ==
  LET tail == Max({0, Len(pending) - CAPPED_TAIL})
      rare == {i \in DOMAIN pending : pending[i].sends < CAPPED_REPEATS}
  IN IF rare = {} THEN tail ELSE Min({Min(rare) - 1, tail})
CappedPackets(max_packets) == pending # <<>> /\ PacketsFrom(CappedStart, max_packets)

\* InputSender::ack: what is newer stays.  (Numbers ascend, so that is the
\* end of the queue.)
KeptFrom(S) == IF S = {} THEN <<>> ELSE SubSeq(pending, Min(S), Len(pending))
AckedAfter(seq) == KeptFrom({i \in DOMAIN pending : pending[i].seq >= seq})
Acked(seq) == KeptFrom({i \in DOMAIN pending : pending[i].seq > seq})

ReceiveAck(a) ==
  /\ a \in acks /\ acks' = acks \ {a}
  /\ pending' = Acked(a)
  /\ UNCHANGED <<next_seq, sent_up_to, applied, input_packets, client, host, pushes>>

-----------------------------------------------------------------------------
(* The host: InputReceiver *)

\* One event of a packet, numbered seq: the next one is applied, an older one
\* was already, past a gap nothing is.
ReceiveOneSkipping(st, seq, ev) ==
  IF seq > st.applied THEN [applied |-> seq, host |-> Apply(st.host, ev)] ELSE st
ReceiveOne(st, seq, ev) ==
  IF seq = st.applied + 1 THEN [applied |-> seq, host |-> Apply(st.host, ev)] ELSE st

ReceiveAll(st, p) ==
  LET after[i \in 0..Len(p.events)] ==
        IF i = 0 THEN st ELSE ReceiveOne(after[i - 1], p.first + i - 1, p.events[i])
  IN after[Len(p.events)]

\* InputReceiver::receive; the host then reports applied back.
Receive(p, again) ==
  LET st == ReceiveAll([applied |-> applied, host |-> host], p)
  IN
  /\ p \in input_packets
  /\ input_packets' = IF again THEN input_packets ELSE input_packets \ {p}
  /\ applied' = st.applied /\ host' = st.host
  /\ UNCHANGED <<pending, next_seq, sent_up_to, acks, client, pushes>>

ReportApplied ==
  /\ applied > 0 /\ applied \notin acks /\ Cardinality(acks) < MaxNet
  /\ acks' = acks \union {applied}
  /\ UNCHANGED <<pending, next_seq, sent_up_to, applied, input_packets, client, host, pushes>>

LoseInput(p) ==
  /\ p \in input_packets /\ input_packets' = input_packets \ {p}
  /\ UNCHANGED <<pending, next_seq, sent_up_to, applied, acks, client, host, pushes>>
LoseAck(a) == /\ a \in acks /\ acks' = acks \ {a}
              /\ UNCHANGED <<pending, next_seq, sent_up_to, applied, input_packets, client, host, pushes>>

InputInit ==
  /\ pending = <<>> /\ next_seq = 1 /\ sent_up_to = 0 /\ applied = 0
  /\ input_packets = {} /\ acks = {}
  /\ client = Idle /\ host = Idle /\ pushes = 0

InputNext ==
  \/ \E ev \in Event : PushInput(ev)
  \/ \E m \in 1..2 : Packets(m) \/ CappedPackets(m)
  \/ \E a \in acks : ReceiveAck(a)
  \/ \E p \in input_packets, again \in BOOLEAN : Receive(p, again)
  \/ ReportApplied
  \/ \E p \in input_packets : LoseInput(p)
  \/ \E a \in acks : LoseAck(a)

\* The client resends everything on a timer while something is pending
\* (packets, not capped_packets), the path empties, and it does not lose what
\* is sent again and again for ever.  (Strong fairness of the resend, for the
\* bound MaxNet may make it wait for room the real path always has.)
InputFairness ==
  /\ SF_inputVars(\E m \in 1..2 : Packets(m)) /\ WF_inputVars(ReportApplied)
  /\ WF_inputVars(\E p \in input_packets : Receive(p, FALSE))
  /\ WF_inputVars(\E a \in acks : ReceiveAck(a))
  /\ SF_inputVars(\E p \in input_packets : p.first <= applied + 1 /\ Receive(p, FALSE))
  /\ SF_inputVars(\E a \in acks : a = applied /\ ReceiveAck(a))

InputFairSpec == InputInit /\ [][InputNext]_inputVars /\ InputFairness
InputSpec == InputInit /\ [][InputNext]_inputVars

-----------------------------------------------------------------------------
\* Nothing is lost, repeated, reordered or bent: the host's state, with the
\* events it still has to get, is the client's state.  In particular once
\* nothing is pending no key is stuck and the pointer is where it was put.
HostCatchesUp ==
  LET after[i \in 0..Len(pending)] ==
        IF i = 0 THEN host
        ELSE IF pending[i].seq > applied THEN Apply(after[i - 1], pending[i].ev) ELSE after[i - 1]
  IN after[Len(pending)] = client

\* A lost packet's events ride later ones: everything pushed is applied in the
\* end, and the client knows.
AllApplied == (pending # <<>>) ~> (pending = <<>> /\ host = client)
=============================================================================
