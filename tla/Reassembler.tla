---------------------------- MODULE Reassembler ----------------------------
(***************************************************************************)
(* The client's video reassembly (Reassembler of                            *)
(* crates/rdp-hyper/src/video.rs): shards of frames, lost, repeated and     *)
(* reordered by the path, are put together in a ring of MAX_IN_FLIGHT       *)
(* slots; a frame is delivered or declared lost.  Frame ids wrap; any K     *)
(* distinct shards of a block make it whole (the erasure code, fec.rs).     *)
(* What is abstracted: payloads, the buffer pools, the probe timing and     *)
(* counters, and the checks that shards of one frame agree with each other  *)
(* (they are sealed by one host, which cuts them alike).                    *)
(*                                                                         *)
(* The operators before NewBase and Older are plausible bugs of them, which  *)
(* the properties catch.                                                    *)
(***************************************************************************)
EXTENDS Integers, FiniteSets, Sequences

CONSTANTS MAX_IN_FLIGHT,   \* 32
          IDS,             \* how many frame ids there are (2^32)
          Blocks,          \* the blocks of a frame
          Shards, K,       \* the shards of a block, and how many make it whole
          FirstId,         \* the first frame's id
          MaxFrames        \* bound: frames of the stream

ASSUME ReassemblerAssumption ==
  /\ {MAX_IN_FLIGHT, IDS, K, MaxFrames} \subseteq Nat \ {0}
  /\ Blocks # {} /\ IsFiniteSet(Shards)
  /\ IDS % MAX_IN_FLIGHT = 0 /\ MAX_IN_FLIGHT + MaxFrames < IDS \div 2
  /\ FirstId \in 0..(IDS - 1)

VARIABLES base, next_frame,   \* oldest frame in flight, first not delivered or lost
          slots,        \* the frames being assembled
          events,       \* history: what push returned, in order
          arrived       \* history: each frame's shards that came in time

reassemblerVars == <<base, next_frame, slots, events, arrived>>

None == -1
Id(f) == (FirstId + f) % IDS
Minus(x, y) == (x - y) % IDS                      \* wrapping_sub
Frames == 0..(MaxFrames - 1)
Empty == [b \in Blocks |-> [got |-> {}, have |-> 0]]

Free == [id |-> None, blocks |-> Empty]
Taken(a) == a.id # None
Whole(a) == \A b \in Blocks : a.blocks[b].have >= K
OrElse(x, y) == IF x = None THEN y ELSE x

\* Of the state st (base, next, slots, and the events so far), a frame id
\* not in its slot yet: what is a whole window older is given up, then the
\* frame takes its slot.
NewBaseLate(id) == Minus(id, MAX_IN_FLIGHT)
NewBase(id) == Minus(id, MAX_IN_FLIGHT - 1)
GiveUp(st, id) ==
  LET b == OrElse(st.base, id)
      nb == NewBase(id)
  IN IF Minus(id, b) < MAX_IN_FLIGHT THEN [st EXCEPT !.base = b]
     ELSE [base |-> nb, next |-> nb,
           slots |-> [s \in DOMAIN st.slots |->
             IF Taken(st.slots[s]) /\ Minus(st.slots[s].id, nb) >= IDS \div 2 THEN Free ELSE st.slots[s]],
           out |-> Append(st.out, [kind |-> "lost", first |-> OrElse(st.next, b), last |-> Minus(nb, 1)])]

Slot(id) == id % MAX_IN_FLIGHT
Holds(st, id) == st.slots[Slot(id)].id = id
Begin(st, id) ==
  IF Holds(st, id) THEN st
  ELSE [GiveUp(st, id) EXCEPT !.slots[Slot(id)] = [id |-> id, blocks |-> Empty]]

\* The shard kept, unless its block is whole or it came before.
NotTaken(blk, s) == blk.have < K /\ s \notin blk.got
Store(st, id, b, s) ==
  LET blk == st.slots[Slot(id)].blocks[b]
  IN IF ~NotTaken(blk, s) THEN st
     ELSE [st EXCEPT !.slots[Slot(id)].blocks[b] = [got |-> blk.got \union {s}, have |-> blk.have + 1]]

\* Reassembler::complete: the frame goes out, whatever is older is dropped.
Complete(st, id) ==
  LET first == OrElse(st.next, id)
      b == OrElse(st.base, id)
      below == {(b + i) % IDS : i \in 0..MAX_IN_FLIGHT - 1}
               \intersect {(b + i) % IDS : i \in 0..(Minus(id, b) - 1)}
  IN [base |-> Minus(id, -1), next |-> Minus(id, -1),
      slots |-> [s \in DOMAIN st.slots |->
        IF st.slots[s].id \in below \union {id} THEN Free ELSE st.slots[s]],
      out |-> st.out
              \o (IF first = id THEN <<>> ELSE <<[kind |-> "lost", first |-> first, last |-> Minus(id, 1)]>>)
              \o <<[kind |-> "frame", first |-> id, last |-> id]>>]

\* A shard of a frame already delivered or declared lost.
NeverOlder(id) == FALSE
Older(id) == base # None /\ Minus(id, base) >= IDS \div 2

\* Reassembler::push of shard s of block b of frame f.
PushShard(f, b, s) ==
  LET id == Id(f)
      st == Store(Begin([base |-> base, next |-> next_frame, slots |-> slots, out |-> <<>>], id), id, b, s)
      new == IF Holds(st, id) /\ Whole(st.slots[Slot(id)]) THEN Complete(st, id) ELSE st
  IN
  /\ ~Older(id)
  /\ base' = new.base /\ next_frame' = new.next /\ slots' = new.slots
  /\ events' = events \o new.out
  /\ arrived' = [arrived EXCEPT ![f] = @ \union {<<b, s>>}]

ReassemblerInit ==
  /\ base = None /\ next_frame = None
  /\ slots = [s \in 0..(MAX_IN_FLIGHT - 1) |-> Free]
  /\ events = <<>> /\ arrived = [f \in Frames |-> {}]

\* Shards reach the client in any order, any number of times, or never.
ReassemblerNext == \E f \in Frames, b \in Blocks, s \in Shards : PushShard(f, b, s)

ReassemblerSpec == ReassemblerInit /\ [][ReassemblerNext]_reassemblerVars

-----------------------------------------------------------------------------
Covers(e, f) == Minus(Id(f), e.first) <= Minus(e.last, e.first)
Reported(kind) == {f \in Frames : \E i \in DOMAIN events : events[i].kind = kind /\ Covers(events[i], f)}
Enough(f) == \A b \in Blocks : Cardinality({s \in Shards : <<b, s>> \in arrived[f]}) >= K

\* From the first frame reported on, every frame is reported once, delivered
\* or lost, in order and without a hole: the decoder is never fed a frame
\* late, twice or without being told what is missing before it.
InOrderOnce ==
  /\ \A i \in 1..(Len(events) - 1) : events[i + 1].first = Minus(events[i].last, -1)
  /\ \A f \in Frames, i, j \in DOMAIN events : Covers(events[i], f) /\ Covers(events[j], f) => i = j

\* A frame is delivered exactly when it has enough shards of every block:
\* shards that came twice do not count twice, two frames never meet in one
\* slot of the ring, and none that is whole is kept back.
DeliveredExactly == \A f \in Frames : f \in Reported("frame") <=> Enough(f)
=============================================================================
