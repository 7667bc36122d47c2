----------------------------- MODULE CopyStream -----------------------------
(***************************************************************************)
(* One direction of a copy stream striped over several TCP connections      *)
(* (BulkTcp, its threads and Reorder in crates/rdp-client/src/hyper_tcp.rs, *)
(* the record counters of crates/rdp-hyper/src/bulk_tcp.rs): senders number *)
(* records and queue them round robin, a writer per connection seals and    *)
(* sends them, a reader per connection opens them, and records go on in the *)
(* order of their numbers.  A record is its number; TCP keeps each          *)
(* connection's order until it breaks.                                      *)
(*                                                                         *)
(* DrainAll and DrainOne are plausible bugs of the definition after them,    *)
(* which the properties catch.                                              *)
(***************************************************************************)
EXTENDS Integers, FiniteSets, Sequences, SequencesExt

CONSTANTS Threads,           \* copies being sent (a superseded one may still go)
          LANES,             \* connections
          Widths,            \* how many of them a copy goes over (all, or an A/B switch's)
          QUEUED_PER_LANE,   \* records queued ahead of a connection's writer
          IN_TCP,            \* records a connection's buffers take
          MaxSeq             \* bound: records numbered

ASSUME CopyStreamAssumption ==
  /\ LANES \in Nat \ {0} /\ Widths \subseteq 1..LANES
  /\ QUEUED_PER_LANE \in Nat \ {0} /\ IN_TCP \in Nat \ {0} /\ MaxSeq \in Nat

VARIABLES width,             \* how many connections each copy goes over; 0: no copy
          next_record, taken,   \* the counter, and the number each sender has in hand
          queue, wire,       \* per connection: channel to the writer, bytes in TCP
          sealed, opened,    \* per connection: Sealer and Opener counters
          dead, gone,        \* the sender's and the receiver's stream has ended
          next, held, sunk   \* Reorder; history: what reached the clipboard

sender == <<next_record, taken, queue, sealed, dead>>
receiver == <<opened, gone, next, held, sunk>>
vars == <<width, sender, receiver, wire>>

Lanes == 0..(LANES - 1)
None == -1

Init == /\ width \in [Threads -> {0} \union Widths]
        /\ next_record = 0 /\ taken = [t \in Threads |-> None]
        /\ queue = [l \in Lanes |-> <<>>] /\ wire = [l \in Lanes |-> <<>>]
        /\ sealed = [l \in Lanes |-> 0] /\ opened = [l \in Lanes |-> 0]
        /\ dead = FALSE /\ gone = FALSE
        /\ next = 0 /\ held = {} /\ sunk = <<>>

\* BulkTcp::send: a number first; then room in its connection's queue is
\* waited for, unless that connection's writer has ended.
TakeNumber(t) == /\ width[t] > 0 /\ taken[t] = None /\ ~dead /\ next_record < MaxSeq
                 /\ taken' = [taken EXCEPT ![t] = next_record] /\ next_record' = next_record + 1
                 /\ UNCHANGED <<width, queue, sealed, dead, receiver, wire>>

LaneOf(t) == taken[t] % width[t]

\* The queue is bounded (sync_channel).
Room(l) == Len(queue[l]) < QUEUED_PER_LANE

Enqueue(t) ==
  /\ taken[t] # None /\ taken' = [taken EXCEPT ![t] = None]
  /\ \/ /\ Room(LaneOf(t))
        /\ queue' = [queue EXCEPT ![LaneOf(t)] = Append(@, taken[t])]
     \/ dead /\ UNCHANGED queue
  /\ UNCHANGED <<width, next_record, sealed, dead, receiver, wire>>

\* A connection's writer; each record it seals moves its counter on.
Counter(c) == c + 1
Write(l) == /\ queue[l] # <<>> /\ ~dead /\ Len(wire[l]) < IN_TCP
            /\ queue' = [queue EXCEPT ![l] = Tail(@)]
            /\ wire' = [wire EXCEPT ![l] = Append(@, [seq |-> Head(queue[l]), nonce |-> sealed[l]])]
            /\ sealed' = [sealed EXCEPT ![l] = Counter(@)]
            /\ UNCHANGED <<width, next_record, taken, dead, receiver>>

\* What can go on from what is held: everything from next on without a hole.
DrainAll(n, h) == h
DrainOne(n, h) == h \intersect {n}
Drain(n, h) == {s \in h : \A k \in n..s : k \in h}

\* A set of records in the order of their numbers.
Ascending(S) == [i \in 1..Cardinality(S) |-> CHOOSE s \in S : Cardinality({r \in S : r < s}) = i - 1]

\* A connection's reader: a record that does not open ends the stream.
Read(l) == LET rec == Head(wire[l])
               all == held \union {rec.seq}
               out == Drain(next, all)
  IN
  /\ wire[l] # <<>> /\ ~gone
  /\ wire' = [wire EXCEPT ![l] = Tail(@)]
  /\ IF rec.nonce # opened[l] THEN gone' = TRUE /\ UNCHANGED <<opened, next, held, sunk>>
     ELSE /\ opened' = [opened EXCEPT ![l] = @ + 1]
          /\ held' = all \ out
          /\ next' = next + Cardinality(out)
          /\ sunk' = sunk \o Ascending(out)
          /\ UNCHANGED gone
  /\ UNCHANGED <<width, sender>>

\* A connection breaks: either end sees it and shuts them all down; of what
\* TCP still held, the receiver reads some and loses the rest.
BreakAtSender == /\ ~dead /\ dead' = TRUE
                 /\ UNCHANGED <<width, next_record, taken, queue, sealed, receiver, wire>>
BreakAtReceiver == /\ ~gone /\ gone' = TRUE /\ UNCHANGED <<width, sender, opened, next, held, sunk, wire>>
LoseRest(l) == /\ dead /\ wire[l] # <<>> /\ wire' = [wire EXCEPT ![l] = Front(@)]
               /\ UNCHANGED <<width, sender, receiver>>

Next == \/ \E t \in Threads : TakeNumber(t) \/ Enqueue(t)
        \/ \E l \in Lanes : Write(l) \/ Read(l) \/ LoseRest(l)
        \/ BreakAtSender
        \/ BreakAtReceiver

\* Every thread runs; nothing makes a connection break.
Fairness == /\ \A t \in Threads : WF_vars(Enqueue(t))
            /\ \A l \in Lanes : WF_vars(Write(l)) /\ WF_vars(Read(l))

Spec == Init /\ [][Next]_vars
FairSpec == Spec /\ Fairness

-----------------------------------------------------------------------------
\* What reaches the clipboard is the records in the order they were numbered,
\* without a hole, also when the stream breaks in the middle.
InOrder == sunk = [i \in 1..Len(sunk) |-> i - 1] /\ next = Len(sunk)

\* While nothing breaks, everything numbered arrives: senders, writers and
\* readers never wait for each other in a circle.
AllArrive == [](next_record > Len(sunk) => <>(dead \/ gone \/ Len(sunk) = next_record))
=============================================================================
