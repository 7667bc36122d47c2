-------------------------- MODULE ClipboardProofs --------------------------
(***************************************************************************)
(* Nothing that came from the peer is sent back to it but files a SYSTEM     *)
(* agent's helper listed, for any copies, files and interleaving of the     *)
(* threads of both ends.                                                    *)
(***************************************************************************)
EXTENDS Clipboard, TLAPS

LaneNames == {"link", "tcp"}
Messages == [kind : {"text", "list", "data"}, transfer : Nat, copy : Nat]
Copies == [transfer : Nat, copy : Nat, got : Nat]
Threads == [pc : Pcs, seq : Nat, left : Nat, at : {"paths", "read", "same", "number", "note", "announce", "data", "over"},
            copy : Nat, transfer : Nat, sent : Nat]

Types ==
  /\ by \in Seq(Pcs)
  /\ board \in [Pcs -> Nat] /\ number \in [Pcs -> Nat] /\ notes \in [Pcs -> Nat] /\ ours \in [Pcs -> Nat]
  /\ locked \in [Pcs -> [by : {"none", "write", "offer"}, copy : Nat, before : Nat]]
  /\ seen \in [Pcs -> [seq : Nat, copy : Nat, left : Nat, plain : BOOLEAN]]
  /\ workers \subseteq Threads /\ transfer \in [Pcs -> Nat]
  /\ lanes \in [Pcs -> [LaneNames -> Seq(Messages)]]
  /\ incoming \in [Pcs -> Copies] /\ promised \in [Pcs -> Copies] /\ posts \in [Pcs -> Seq(Nat)]

\* A copy that was made at p, or none.
Local(p, c) == c # 0 => c \in 1..Len(by) /\ by[c] = p

\* While nobody holds the lock, a number that is not recorded as ours is a
\* copy's of this PC; while somebody writes, it is so until the write.
Recorded(p) ==
  /\ locked[p].by = "none" => number[p] = ours[p] \/ Local(p, board[p])
  /\ locked[p].by = "write" =>
       /\ locked[p].before <= number[p]
       /\ \/ number[p] = locked[p].before /\ (number[p] = ours[p] \/ Local(p, board[p]))
          \/ number[p] # locked[p].before /\ (board[p] = locked[p].copy \/ Local(p, board[p]))

\* A change that was judged a copy of this PC is one as long as its number stands.
Judged(p, seq, c) ==
  /\ seq <= number[p]
  /\ seq # 0 /\ seq = number[p] => Local(p, board[p]) /\ Local(p, c)

\* What a thread of p may send as files: a copy of this PC, or what a helper
\* listed, which looked before it read.
Listing(p, c) == c # 0 /\ (p \in System \/ Local(p, c))

WindowSound(p) ==
  /\ Judged(p, seen[p].seq, seen[p].copy)
  /\ seen[p].plain \/ seen[p].copy # 0 => seen[p].seq # 0
WorkerSound(w) ==
  CASE w.at = "paths" -> w.seq # 0 /\ Judged(w.pc, w.seq, 0)
    [] w.at = "read" -> w.pc \in System /\ w.seq # 0 /\ Judged(w.pc, w.seq, 0)
    [] OTHER -> Listing(w.pc, w.copy)
Sendable(p, m) == Listing(p, m.copy) /\ (m.kind = "text" => Local(p, m.copy))
LaneSound(p, l) == \A i \in 1..Len(lanes[p][l]) : Sendable(p, lanes[p][l][i])

ClipboardIInv ==
  /\ Types
  /\ \A p \in Pcs : Recorded(p) /\ WindowSound(p)
  /\ \A w \in workers : WorkerSound(w)
  /\ \A p \in Pcs, l \in LaneNames : LaneSound(p, l)

LEMMA PeerIsPc == \A p \in Pcs : Peer(p) \in Pcs
  BY ClipboardAssumption DEF Peer

LEMMA TailInSeq == \A S : \A s \in Seq(S) : s # <<>> => Tail(s) \in Seq(S)
  OBVIOUS

LEMMA InitIInv == ClipboardInit => ClipboardIInv
  BY DEF ClipboardInit, ClipboardIInv, Types, Recorded, WindowSound, Judged, LaneSound, Local,
         Idle, Free, Nothing, LaneNames, Messages, Copies

-----------------------------------------------------------------------------
\* What the changes of the clipboard, of the lanes and of the threads keep.

\* A clipboard that is written has a number no one has judged.
LEMMA PutSound ==
  ASSUME ClipboardIInv, NEW p \in Pcs, NEW c \in Nat, NEW v, Put(p, c, v), UNCHANGED <<by, seen, workers>>
  PROVE  /\ \A q \in Pcs : WindowSound(q)'
         /\ \A w \in workers' : WorkerSound(w)'
         /\ board' \in [Pcs -> Nat] /\ number' \in [Pcs -> Nat] /\ notes' \in [Pcs -> Nat]
<1> Types
  BY DEF ClipboardIInv
<1>1. /\ board' \in [Pcs -> Nat] /\ number' \in [Pcs -> Nat] /\ notes' \in [Pcs -> Nat]
      /\ number'[p] = number[p] + 1
      /\ \A q \in Pcs : q # p => number'[q] = number[q] /\ board'[q] = board[q]
  <2>1. board \in [Pcs -> Nat] /\ number \in [Pcs -> Nat] /\ notes \in [Pcs -> Nat]
    BY DEF Types
  <2> QED
    BY <2>1 DEF Put
<1>2. ASSUME NEW q \in Pcs, NEW s \in Nat, NEW d \in Nat, Judged(q, s, d) PROVE Judged(q, s, d)'
  <2>1. number[q] \in Nat /\ by' = by
    BY DEF Types
  <2>2. CASE q = p
    BY <1>1, <1>2, <2>1, <2>2 DEF Judged
  <2>3. CASE q # p
    BY <1>1, <1>2, <2>1, <2>3 DEF Judged, Local
  <2> QED
    BY <2>2, <2>3
<1>3. \A q \in Pcs : WindowSound(q)'
  BY <1>2 DEF WindowSound, ClipboardIInv, Types
<1>4. ASSUME NEW w \in workers PROVE WorkerSound(w)'
  BY <1>2 DEF WorkerSound, Listing, Local, ClipboardIInv, Types, Threads
<1> QED
  BY <1>1, <1>3, <1>4

LEMMA LanesUnchanged ==
  ASSUME ClipboardIInv, UNCHANGED <<by, lanes>>
  PROVE  \A p \in Pcs, l \in LaneNames : LaneSound(p, l)'
  BY DEF ClipboardIInv, LaneSound, Sendable, Listing, Local

LEMMA GoesSound ==
  ASSUME ClipboardIInv, NEW p \in Pcs, NEW l \in LaneNames, NEW m \in Messages,
         Sendable(p, m), Goes(p, l, m), UNCHANGED by
  PROVE  /\ lanes' \in [Pcs -> [LaneNames -> Seq(Messages)]]
         /\ \A q \in Pcs, k \in LaneNames : LaneSound(q, k)'
<1>1. lanes' \in [Pcs -> [LaneNames -> Seq(Messages)]]
  BY DEF Goes, ClipboardIInv, Types
<1>2. /\ lanes'[p][l] = Append(lanes[p][l], m)
      /\ \A q \in Pcs, k \in LaneNames : ~(q = p /\ k = l) => lanes'[q][k] = lanes[q][k]
  BY DEF Goes, ClipboardIInv, Types
<1>3. ASSUME NEW q \in Pcs, NEW k \in LaneNames PROVE LaneSound(q, k)'
  <2>1. CASE q = p /\ k = l
    <3>1. LaneSound(p, l) /\ lanes[p][l] \in Seq(Messages) /\ by' = by
      BY DEF ClipboardIInv, Types
    <3>2. /\ Len(lanes'[p][l]) = Len(lanes[p][l]) + 1
          /\ \A i \in 1..Len(lanes'[p][l]) : lanes'[p][l][i] = IF i = Len(lanes'[p][l]) THEN m ELSE lanes[p][l][i]
      BY <1>2, <3>1
    <3>3. ASSUME NEW i \in 1..Len(lanes'[q][k]) PROVE Sendable(q, lanes[q][k][i])'
      <4>1. CASE i = Len(lanes'[p][l])
        BY <2>1, <3>1, <3>2, <4>1 DEF Sendable, Listing, Local
      <4>2. CASE i # Len(lanes'[p][l])
        <5>1. i \in 1..Len(lanes[p][l]) /\ lanes'[q][k][i] = lanes[p][l][i]
          BY <2>1, <3>1, <3>2, <4>2
        <5> QED
          BY <2>1, <3>1, <5>1 DEF LaneSound, Sendable, Listing, Local
      <4> QED
        BY <4>1, <4>2
    <3> QED
      BY <3>3 DEF LaneSound
  <2>2. CASE ~(q = p /\ k = l)
    BY <1>2, <2>2 DEF LaneSound, Sendable, Listing, Local, ClipboardIInv
  <2> QED
    BY <2>1, <2>2
<1> QED
  BY <1>1, <1>3

LEMMA TakenSound ==
  ASSUME ClipboardIInv, NEW p \in Pcs, NEW l \in LaneNames, lanes[Peer(p)][l] # <<>>, Taken(p, l), UNCHANGED by
  PROVE  /\ Head_(p, l) \in Messages
         /\ lanes' \in [Pcs -> [LaneNames -> Seq(Messages)]]
         /\ \A q \in Pcs, k \in LaneNames : LaneSound(q, k)'
<1> DEFINE r == Peer(p)
<1>1. r \in Pcs
  BY PeerIsPc
<1>2. lanes[r][l] \in Seq(Messages) /\ lanes[r][l] # <<>>
  BY <1>1 DEF ClipboardIInv, Types
<1> HIDE DEF r
<1>3. Head_(p, l) \in Messages
  BY <1>2 DEF Head_, r
<1>4. lanes' = [lanes EXCEPT ![r][l] = Tail(@)]
  BY DEF Taken, r
<1>5. lanes' \in [Pcs -> [LaneNames -> Seq(Messages)]]
  <2>1. lanes \in [Pcs -> [LaneNames -> Seq(Messages)]] /\ Tail(lanes[r][l]) \in Seq(Messages)
    BY <1>2, TailInSeq DEF ClipboardIInv, Types
  <2> QED
    BY <1>1, <1>4, <2>1
<1>6. /\ lanes'[r][l] = Tail(lanes[r][l])
      /\ \A q \in Pcs, k \in LaneNames : ~(q = r /\ k = l) => lanes'[q][k] = lanes[q][k]
  BY <1>1, <1>4 DEF ClipboardIInv, Types
<1>7. ASSUME NEW q \in Pcs, NEW k \in LaneNames PROVE LaneSound(q, k)'
  <2>1. CASE q = r /\ k = l
    <3>1. LaneSound(r, l) /\ by' = by
      BY <1>1 DEF ClipboardIInv
    <3>2. \A i \in 1..Len(lanes'[r][l]) : i + 1 \in 1..Len(lanes[r][l]) /\ lanes'[r][l][i] = lanes[r][l][i + 1]
      BY <1>2, <1>6
    <3>3. ASSUME NEW i \in 1..Len(lanes'[q][k]) PROVE Sendable(q, lanes[q][k][i])'
      BY <2>1, <3>1, <3>2 DEF LaneSound, Sendable, Listing, Local
    <3> QED
      BY <3>3 DEF LaneSound
  <2>2. CASE ~(q = r /\ k = l)
    BY <1>6, <2>2 DEF LaneSound, Sendable, Listing, Local, ClipboardIInv
  <2> QED
    BY <2>1, <2>2
<1> QED
  BY <1>3, <1>5, <1>7

\* What keeps the clipboard, the lock and the threads keeps what is known of them.
LEMMA CalmSound ==
  ASSUME ClipboardIInv, UNCHANGED <<by, board, number>>
  PROVE  /\ UNCHANGED <<ours, locked>> => \A q \in Pcs : Recorded(q)'
         /\ UNCHANGED seen => \A q \in Pcs : WindowSound(q)'
         /\ \A w \in workers : WorkerSound(w)'
<1>1. \A q \in Pcs : Recorded(q) /\ WindowSound(q)
  BY DEF ClipboardIInv
<1>2. UNCHANGED <<ours, locked>> => \A q \in Pcs : Recorded(q)'
  BY <1>1 DEF Recorded, Local
<1>3. UNCHANGED seen => \A q \in Pcs : WindowSound(q)'
  BY <1>1 DEF WindowSound, Judged, Local
<1>4. \A w \in workers : WorkerSound(w)'
  BY DEF ClipboardIInv, WorkerSound, Listing, Judged, Local
<1> QED
  BY <1>2, <1>3, <1>4

LEMMA WriteSound ==
  ASSUME ClipboardIInv, NEW p \in Pcs, NEW c \in Nat, Write(p, c), UNCHANGED <<by, ours, seen, workers>>
  PROVE  /\ board' \in [Pcs -> Nat] /\ number' \in [Pcs -> Nat] /\ notes' \in [Pcs -> Nat]
         /\ locked' \in [Pcs -> [by : {"none", "write", "offer"}, copy : Nat, before : Nat]]
         /\ \A q \in Pcs : Recorded(q)' /\ WindowSound(q)'
         /\ \A w \in workers' : WorkerSound(w)'
<1>1. /\ board \in [Pcs -> Nat] /\ number \in [Pcs -> Nat] /\ notes \in [Pcs -> Nat]
      /\ locked \in [Pcs -> [by : {"none", "write", "offer"}, copy : Nat, before : Nat]]
  BY DEF ClipboardIInv, Types
<1>2. /\ locked' \in [Pcs -> [by : {"none", "write", "offer"}, copy : Nat, before : Nat]]
      /\ locked'[p] = [by |-> "write", copy |-> c, before |-> number[p]]
      /\ \A q \in Pcs : q # p => locked'[q] = locked[q]
  BY <1>1 DEF Write
<1>3. locked[p].by = "none" /\ (\A q \in Pcs : Recorded(q)) /\ by' = by /\ ours' = ours
  BY DEF ClipboardIInv, Write, Free
<1>4. CASE Put(p, c, FALSE)
  <2>1. /\ number'[p] = number[p] + 1 /\ board'[p] = c
        /\ \A q \in Pcs : q # p => number'[q] = number[q] /\ board'[q] = board[q]
    BY <1>1, <1>4 DEF Put
  <2>2. ASSUME NEW q \in Pcs PROVE Recorded(q)'
    <3>1. CASE q = p
      BY <1>1, <1>2, <2>1, <3>1 DEF Recorded
    <3>2. CASE q # p
      BY <1>2, <1>3, <2>1, <3>2 DEF Recorded, Local
    <3> QED
      BY <3>1, <3>2
  <2> QED
    BY <1>2, <1>4, <2>2, PutSound
<1>5. CASE UNCHANGED windows_
  <2>1. UNCHANGED <<board, number, notes>>
    BY <1>5 DEF windows_
  <2>2. ASSUME NEW q \in Pcs PROVE Recorded(q)'
    <3>1. CASE q = p
      BY <1>1, <1>2, <1>3, <2>1, <3>1 DEF Recorded, Local
    <3>2. CASE q # p
      BY <1>2, <1>3, <2>1, <3>2 DEF Recorded, Local
    <3> QED
      BY <3>1, <3>2
  <2> QED
    BY <1>1, <1>2, <2>1, <2>2, CalmSound
<1> QED
  BY <1>4, <1>5 DEF Write

-----------------------------------------------------------------------------
\* The steps of each actor.

LEMMA PersonIInv ==
  ASSUME ClipboardIInv, NEW p \in Pcs, NEW item, PersonCopies(p, item)
  PROVE  ClipboardIInv'
<1>1. Types /\ by' = Append(by, p) /\ Put(p, Len(by'), FALSE) /\ UNCHANGED <<ours, locked, seen, workers, transfer, lanes, incoming, promised, posts>>
  BY DEF PersonCopies, sender_, receiver_, ClipboardIInv
<1>2. /\ by \in Seq(Pcs) /\ board \in [Pcs -> Nat] /\ number \in [Pcs -> Nat] /\ notes \in [Pcs -> Nat]
  BY <1>1 DEF Types
<1>3. /\ by' \in Seq(Pcs) /\ Len(by') = Len(by) + 1 /\ by'[Len(by')] = p
      /\ \A i \in 1..Len(by) : by'[i] = by[i]
  BY <1>1, <1>2
<1>4. /\ board' \in [Pcs -> Nat] /\ number' \in [Pcs -> Nat] /\ notes' \in [Pcs -> Nat]
      /\ number'[p] = number[p] + 1 /\ board'[p] = Len(by')
      /\ \A q \in Pcs : q # p => number'[q] = number[q] /\ board'[q] = board[q]
  BY <1>1, <1>2, <1>3 DEF Put
<1>5. Types'
  BY <1>1, <1>3, <1>4 DEF Types
<1>6. /\ \A q, c : Local(q, c) => Local(q, c)'
      /\ Local(p, board[p])'
  <2>1. Len(by) \in Nat
    BY <1>2
  <2>2. ASSUME NEW q, NEW c, Local(q, c) PROVE Local(q, c)'
    <3>1. c \in 1..Len(by) => c \in 1..Len(by')
      BY <1>3, <2>1
    <3> QED
      BY <1>3, <2>2, <3>1 DEF Local
  <2>3. Local(p, board[p])'
    BY <1>3, <1>4, <2>1 DEF Local
  <2> QED
    BY <2>2, <2>3
<1>7. ASSUME NEW q \in Pcs PROVE Recorded(q)'
  <2>1. Recorded(q) /\ (q # p /\ Local(q, board[q]) => Local(q, board[q])') /\ locked[q].before \in Nat
    BY <1>1, <1>4, <1>6 DEF ClipboardIInv, Types, Local
  <2>2. CASE q = p
    BY <1>1, <1>2, <1>4, <1>6, <2>1, <2>2 DEF Recorded
  <2>3. CASE q # p
    BY <1>1, <1>4, <2>1, <2>3 DEF Recorded
  <2> QED
    BY <2>2, <2>3
<1>8. ASSUME NEW q \in Pcs, NEW s \in Nat, NEW d \in Nat, Judged(q, s, d) PROVE Judged(q, s, d)'
  <2>1. CASE q = p
    BY <1>2, <1>4, <1>8, <2>1 DEF Judged
  <2>2. CASE q # p
    <3>1. Local(q, d) => Local(q, d)'
      BY <1>6
    <3>2. Local(q, board[q]) => Local(q, board[q])'
      BY <1>4, <1>6, <2>2 DEF Local
    <3> QED
      BY <1>4, <1>8, <2>2, <3>1, <3>2 DEF Judged
  <2> QED
    BY <2>1, <2>2
<1>9. ASSUME NEW q \in Pcs PROVE WindowSound(q)'
  <2>1. seen[q].seq \in Nat /\ seen[q].copy \in Nat /\ WindowSound(q) /\ seen' = seen
    BY <1>1 DEF ClipboardIInv, Types
  <2> QED
    BY <1>8, <2>1 DEF WindowSound
<1>10. ASSUME NEW w \in workers PROVE WorkerSound(w)'
  <2>1. w \in Threads /\ WorkerSound(w)
    BY <1>1 DEF ClipboardIInv, Types
  <2> QED
    BY <1>6, <1>8, <2>1 DEF WorkerSound, Listing, Threads
<1>11. ASSUME NEW q \in Pcs, NEW l \in LaneNames PROVE LaneSound(q, l)'
  <2>1. LaneSound(q, l) /\ lanes' = lanes
    BY <1>1 DEF ClipboardIInv
  <2>2. ASSUME NEW c, Local(q, c) PROVE Local(q, c)'
    BY <1>6, <2>2
  <2> QED
    BY <2>1, <2>2 DEF LaneSound, Sendable, Listing
<1> QED
  BY <1>1, <1>5, <1>7, <1>9, <1>10, <1>11 DEF ClipboardIInv

LEMMA WindowIInv ==
  ASSUME ClipboardIInv, NEW p \in Pcs, Window(p)
  PROVE  ClipboardIInv'
<1> DEFINE Locks == [Pcs -> [by : {"none", "write", "offer"}, copy : Nat, before : Nat]]
           Changes == [seq : Nat, copy : Nat, left : Nat, plain : BOOLEAN]
<1>1. /\ Types /\ board \in [Pcs -> Nat] /\ number \in [Pcs -> Nat] /\ notes \in [Pcs -> Nat] /\ ours \in [Pcs -> Nat]
      /\ locked \in Locks /\ seen \in [Pcs -> Changes] /\ workers \subseteq Threads
      /\ promised \in [Pcs -> Copies] /\ posts \in [Pcs -> Seq(Nat)]
  BY DEF ClipboardIInv, Types
<1>2. /\ \A q \in Pcs : Recorded(q) /\ WindowSound(q)
      /\ \A w \in workers : WorkerSound(w)
  BY DEF ClipboardIInv
<1>3. CASE LocalChange(p)
  <2>1. UNCHANGED <<by, board, number, ours, locked, workers, transfer, lanes, incoming, promised, posts>>
    BY <1>3 DEF LocalChange, people, receiver_
  <2>2. notes' \in [Pcs -> Nat] /\ notes'[p] \in Nat
    BY <1>1, <1>3 DEF LocalChange
  <2>3. seen' \in [Pcs -> Changes]
    BY <1>1, <1>3, <2>2 DEF LocalChange, Idle
  <2>4. ASSUME NEW q \in Pcs PROVE WindowSound(q)'
    <3>1. CASE q # p
      BY <1>1, <1>2, <1>3, <2>1, <3>1 DEF LocalChange, WindowSound, Judged, Local
    <3>2. CASE q = p /\ number[p] = ours[p]
      <4>1. seen'[p] = Idle
        BY <1>1, <1>3, <3>2 DEF LocalChange
      <4> QED
        BY <1>1, <2>1, <3>2, <4>1 DEF WindowSound, Judged, Idle
    <3>3. CASE q = p /\ number[p] # ours[p]
      <4>1. seen'[p].seq = number[p] /\ seen'[p].copy = 0 /\ ~seen'[p].plain
        BY <1>1, <1>3, <3>3 DEF LocalChange, Idle
      <4>2. Local(p, board[p])
        BY <1>2, <1>3, <3>3 DEF LocalChange, Free, Recorded
      <4> QED
        BY <1>1, <2>1, <3>3, <4>1, <4>2 DEF WindowSound, Judged, Local
    <3> QED
      BY <3>1, <3>2, <3>3
  <2>5. Types'
    BY <1>1, <2>1, <2>2, <2>3 DEF Types
  <2> QED
    BY <2>1, <2>4, <2>5, CalmSound, LanesUnchanged DEF ClipboardIInv
<1>4. ASSUME UNCHANGED <<people, windows_, ours, locked, transfer, sending, lanes, receiver_>>, seen[p].seq # 0,
             \/ SendFiles(p)
             \/ UNCHANGED workers
                /\ \/ seen' = [seen EXCEPT ![p] = Idle]
                   \/ seen' = [seen EXCEPT ![p].plain = TRUE]
                   \/ seen' = [seen EXCEPT ![p].copy = board[p]]
      PROVE  ClipboardIInv'
  <2>1. UNCHANGED <<by, board, number, notes, ours, locked, transfer, lanes, incoming, promised, posts>>
    BY <1>4 DEF people, windows_, receiver_
  <2> PICK new : new = Worker(p)
    OBVIOUS
  <2>2. new \in Threads /\ WorkerSound(new)
    BY <1>1, <1>2, <1>4 DEF Worker, Threads, WorkerSound, WindowSound, Judged, Local
  <2>3. workers' \subseteq workers \union {new}
    BY <1>4 DEF SendFiles
  <2>4. \/ seen' = [seen EXCEPT ![p] = Idle]
        \/ seen' = [seen EXCEPT ![p].plain = TRUE]
        \/ seen' = [seen EXCEPT ![p].copy = board[p]]
        \/ seen' = seen
    BY <1>4 DEF SendFiles
  <2>5. /\ seen' \in [Pcs -> Changes]
        /\ \/ seen'[p] = Idle
           \/ seen'[p].seq = seen[p].seq /\ seen'[p].copy \in {seen[p].copy, board[p]}
        /\ \A q \in Pcs : q # p => seen'[q] = seen[q]
    <3>1. Idle \in Changes /\ board[p] \in Nat
      BY <1>1 DEF Idle
    <3>2. CASE seen' = [seen EXCEPT ![p] = Idle]
      BY <1>1, <3>1, <3>2
    <3>3. CASE seen' = [seen EXCEPT ![p].plain = TRUE]
      BY <1>1, <3>3
    <3>4. CASE seen' = [seen EXCEPT ![p].copy = board[p]]
      BY <1>1, <3>1, <3>4
    <3> QED
      BY <1>1, <2>4, <3>2, <3>3, <3>4
  <2>6. ASSUME NEW q \in Pcs PROVE WindowSound(q)'
    <3>1. CASE q # p
      BY <1>2, <2>1, <2>5, <3>1 DEF WindowSound, Judged, Local
    <3>2. CASE q = p /\ seen'[p] = Idle
      BY <1>1, <2>1, <3>2 DEF WindowSound, Judged, Idle
    <3>3. CASE q = p /\ seen'[p].seq = seen[p].seq /\ seen'[p].copy \in {seen[p].copy, board[p]}
      BY <1>1, <1>2, <1>4, <2>1, <3>3 DEF WindowSound, Judged, Local
    <3> QED
      BY <2>5, <3>1, <3>2, <3>3
  <2>7. WorkerSound(new)'
    BY <2>1, <2>2 DEF WorkerSound, Listing, Judged, Local
  <2>8. Types' /\ \A w \in workers' : WorkerSound(w)'
    BY <1>1, <2>1, <2>2, <2>3, <2>5, <2>7, CalmSound DEF Types
  <2> QED
    BY <2>1, <2>6, <2>8, CalmSound, LanesUnchanged DEF ClipboardIInv
<1>8. CASE LookForFiles(p) \/ ReadClipboard(p)
  <2>1. seen[p].seq # 0
    BY <1>2, <1>8 DEF LookForFiles, ReadClipboard, WindowSound
  <2> QED
    BY <1>4, <1>8, <2>1 DEF LookForFiles, ReadClipboard
<1>5. CASE SendText(p)
  <2>1. UNCHANGED <<by, board, number, notes, ours, locked, workers, transfer, incoming, promised, posts>>
    BY <1>5 DEF SendText, people, windows_, receiver_
  <2>2. seen' \in [Pcs -> Changes] /\ seen'[p] = Idle /\ \A q \in Pcs : q # p => seen'[q] = seen[q]
    BY <1>1, <1>5 DEF SendText, Idle
  <2>3. ASSUME NEW q \in Pcs PROVE WindowSound(q)'
    <3>1. CASE q # p
      BY <1>2, <2>1, <2>2, <3>1 DEF WindowSound, Judged, Local
    <3>2. CASE q = p
      BY <1>1, <2>1, <2>2, <3>2 DEF WindowSound, Judged, Idle
    <3> QED
      BY <3>1, <3>2
  <2>4. /\ lanes' \in [Pcs -> [LaneNames -> Seq(Messages)]]
        /\ \A q \in Pcs, k \in LaneNames : LaneSound(q, k)'
    <3> DEFINE m == [kind |-> "text", transfer |-> 0, copy |-> seen[p].copy]
    <3>1. CASE Unmoved(p, seen[p].seq)
      <4>1. m \in Messages /\ m.copy # 0 /\ "link" \in LaneNames
        BY <1>1, <1>5 DEF SendText, Messages, LaneNames
      <4>2. Sendable(p, m)
        BY <1>2, <1>5, <3>1 DEF SendText, Unmoved, WindowSound, Judged, Sendable, Listing
      <4>3. Goes(p, "link", m)
        BY <1>5, <3>1 DEF SendText
      <4> HIDE DEF m
      <4> QED
        BY <2>1, <4>1, <4>2, <4>3, GoesSound
    <3>2. CASE ~Unmoved(p, seen[p].seq)
      BY <1>1, <1>5, <2>1, <3>2, LanesUnchanged DEF SendText, Types
    <3> QED
      BY <3>1, <3>2
  <2>5. Types'
    BY <1>1, <2>1, <2>2, <2>4 DEF Types
  <2> QED
    BY <2>1, <2>3, <2>4, <2>5, CalmSound DEF ClipboardIInv
<1>6. CASE OfferPromised(p)
  <2>1. UNCHANGED <<by, ours, seen, workers, transfer, lanes, incoming>>
    BY <1>6 DEF OfferPromised, people, sender_
  <2>2. posts' \in [Pcs -> Seq(Nat)] /\ promised' \in [Pcs -> Copies]
    <3>1. Tail(posts[p]) \in Seq(Nat)
      BY <1>1, <1>6, TailInSeq DEF OfferPromised
    <3> QED
      BY <1>1, <1>6, <3>1 DEF OfferPromised, Nothing, Copies
  <2>3. CASE UNCHANGED <<windows_, locked>>
    <3>1. UNCHANGED <<board, number, notes, locked>>
      BY <2>3 DEF windows_
    <3>2. Types'
      BY <1>1, <2>1, <2>2, <3>1 DEF Types
    <3> QED
      BY <2>1, <3>1, <3>2, CalmSound, LanesUnchanged DEF ClipboardIInv
  <2>4. CASE /\ Put(p, promised[p].copy, TRUE)
             /\ locked' = [locked EXCEPT ![p] = [by |-> "offer", copy |-> promised[p].copy, before |-> number[p]]]
    <3>1. promised[p].copy \in Nat
      BY <1>1 DEF Copies
    <3>2. /\ \A q \in Pcs : WindowSound(q)'
          /\ \A w \in workers' : WorkerSound(w)'
          /\ board' \in [Pcs -> Nat] /\ number' \in [Pcs -> Nat] /\ notes' \in [Pcs -> Nat]
      BY <2>1, <2>4, <3>1, PutSound
    <3>3. locked' \in Locks
      BY <1>1, <2>4, <3>1
    <3>4. Types'
      BY <1>1, <2>1, <2>2, <3>2, <3>3 DEF Types
    <3>5. /\ locked'[p].by = "offer"
          /\ \A q \in Pcs : q # p => locked'[q] = locked[q] /\ number'[q] = number[q] /\ board'[q] = board[q]
      BY <1>1, <2>4 DEF Put
    <3>6. \A q \in Pcs : Recorded(q)'
      BY <1>2, <2>1, <3>5 DEF Recorded, Local
    <3> QED
      BY <2>1, <3>2, <3>4, <3>6, LanesUnchanged DEF ClipboardIInv
  <2> QED
    BY <1>6, <2>3, <2>4 DEF OfferPromised
<1>7. CASE OfferRecorded(p)
  <2>1. UNCHANGED <<by, board, number, notes, seen, workers, transfer, lanes, incoming, promised, posts>>
    BY <1>7 DEF OfferRecorded, people, windows_, sender_, receiver_
  <2>2. ours' \in [Pcs -> Nat] /\ locked' \in Locks
    BY <1>1, <1>7 DEF OfferRecorded, Free
  <2>3. /\ locked'[p].by = "none" /\ ours'[p] = number[p]
        /\ \A q \in Pcs : q # p => locked'[q] = locked[q] /\ ours'[q] = ours[q]
    BY <1>1, <1>7 DEF OfferRecorded, Free
  <2>4. \A q \in Pcs : Recorded(q)'
    BY <1>2, <2>1, <2>3 DEF Recorded, Local
  <2>5. Types'
    BY <1>1, <2>1, <2>2 DEF Types
  <2> QED
    BY <2>1, <2>4, <2>5, CalmSound, LanesUnchanged DEF ClipboardIInv
<1> QED
  BY <1>3, <1>5, <1>6, <1>7, <1>8 DEF Window

\* A thread's step to next, which touches neither clipboard nor lock.
LEMMA ThreadSteps ==
  ASSUME ClipboardIInv, NEW next \in Threads, WorkerSound(next), workers' \subseteq workers \union {next},
         UNCHANGED <<people, windows_, ours, locked, seen, receiver_>>, transfer' \in [Pcs -> Nat],
         lanes' \in [Pcs -> [LaneNames -> Seq(Messages)]],
         \A p \in Pcs, l \in LaneNames : LaneSound(p, l)'
  PROVE  ClipboardIInv'
<1>1. UNCHANGED <<by, board, number, notes, ours, locked, seen, incoming, promised, posts>>
  BY DEF people, windows_, receiver_
<1>2. Types'
  BY <1>1 DEF ClipboardIInv, Types
<1>3. WorkerSound(next)'
  BY <1>1 DEF WorkerSound, Listing, Judged, Local
<1> QED
  BY <1>1, <1>2, <1>3, CalmSound DEF ClipboardIInv

LEMMA SendingIInv ==
  ASSUME ClipboardIInv, NEW w \in workers, Sending(w)
  PROVE  ClipboardIInv'
<1>1. /\ w \in Threads /\ WorkerSound(w) /\ w.pc \in Pcs
      /\ board \in [Pcs -> Nat] /\ number \in [Pcs -> Nat] /\ transfer \in [Pcs -> Nat]
      /\ lanes \in [Pcs -> [LaneNames -> Seq(Messages)]]
  BY DEF ClipboardIInv, Types, Threads
<1>2. UNCHANGED lanes /\ UNCHANGED people => \A p \in Pcs, l \in LaneNames : LaneSound(p, l)'
  BY LanesUnchanged DEF people
<1>3. ASSUME NEW m \in Messages, m.copy = w.copy, m.kind # "text", w.at \notin {"paths", "read"}, Goes(w.pc, FileLane, m), UNCHANGED people
      PROVE  /\ lanes' \in [Pcs -> [LaneNames -> Seq(Messages)]]
             /\ \A p \in Pcs, l \in LaneNames : LaneSound(p, l)'
  <2>1. FileLane \in LaneNames
    BY DEF FileLane, LaneNames
  <2>2. Sendable(w.pc, m) /\ by' = by
    BY <1>1, <1>3 DEF WorkerSound, Sendable, people
  <2> QED
    BY <1>1, <1>3, <2>1, <2>2, GoesSound
<1>4. ASSUME UNCHANGED <<people, windows_, ours, locked, seen, transfer, lanes, receiver_>>,
             NEW next, next \in Threads /\ WorkerSound(next), Leaves(w) \/ Steps(w, next)
      PROVE  ClipboardIInv'
  <2>1. workers' \subseteq workers \union {next}
    BY <1>4 DEF Leaves, Steps
  <2> QED
    BY <1>1, <1>2, <1>4, <2>1, ThreadSteps
<1>12. CASE CopiedPaths(w)
  <2> DEFINE next == [w EXCEPT !.at = "same", !.copy = board[w.pc]]
  <2>1. CASE Leaves(w)
    BY <1>1, <1>4, <1>12, <2>1 DEF CopiedPaths
  <2>2. CASE Listed(w.pc) /\ Unmoved(w.pc, w.seq) /\ Steps(w, next)
    <3>1. board[w.pc] # 0 /\ Local(w.pc, board[w.pc])
      BY <1>1, <1>12, <2>2 DEF CopiedPaths, Listed, WorkerSound, Judged, Unmoved
    <3>2. next \in Threads /\ next.at = "same" /\ next.copy = board[w.pc] /\ next.pc = w.pc
      BY <1>1 DEF Threads
    <3>3. WorkerSound(next)
      BY <3>1, <3>2 DEF WorkerSound, Listing
    <3> HIDE DEF next
    <3> QED
      BY <1>4, <1>12, <2>2, <3>2, <3>3 DEF CopiedPaths
  <2> QED
    BY <1>12, <2>1, <2>2 DEF CopiedPaths
<1>13. CASE HelperLooks(w)
  <2> DEFINE next == [w EXCEPT !.at = "read"]
  <2>1. next \in Threads /\ next.at = "read" /\ next.seq = w.seq /\ next.pc = w.pc
    BY <1>1 DEF Threads
  <2>2. WorkerSound(next)
    BY <1>1, <1>13, <2>1 DEF HelperLooks, WorkerSound
  <2>3. Leaves(w) \/ Steps(w, next)
    BY <1>13 DEF HelperLooks
  <2> HIDE DEF next
  <2> QED
    BY <1>4, <1>13, <2>1, <2>2, <2>3 DEF HelperLooks
<1>14. CASE HelperReads(w)
  <2> DEFINE listed == [w EXCEPT !.at = "same", !.copy = board[w.pc]]
             again == [w EXCEPT !.at = "paths"]
  <2>1. again \in Threads /\ again.at = "paths" /\ again.seq = w.seq /\ again.pc = w.pc
    BY <1>1 DEF Threads
  <2>2. WorkerSound(again)
    BY <1>1, <1>14, <2>1 DEF HelperReads, WorkerSound
  <2>3. CASE Leaves(w) \/ Steps(w, again)
    <3> HIDE DEF again
    <3> QED
      BY <1>4, <1>14, <2>1, <2>2, <2>3 DEF HelperReads
  <2>4. CASE Listed(w.pc) /\ Steps(w, listed)
    <3>1. listed \in Threads /\ listed.at = "same" /\ listed.copy = board[w.pc] /\ listed.pc = w.pc
      BY <1>1 DEF Threads
    <3>2. WorkerSound(listed)
      BY <1>1, <1>14, <2>4, <3>1 DEF HelperReads, Listed, WorkerSound, Listing
    <3> HIDE DEF listed
    <3> QED
      BY <1>4, <1>14, <2>4, <3>1, <3>2 DEF HelperReads
  <2> QED
    BY <1>14, <2>3, <2>4 DEF HelperReads
<1>5. CASE SameFiles(w)
  <2>1. CASE Leaves(w)
    BY <1>1, <1>2, <1>5, <2>1, ThreadSteps DEF SameFiles, Leaves
  <2>2. CASE Steps(w, [w EXCEPT !.at = "number"])
    <3> DEFINE next == [w EXCEPT !.at = "number"]
    <3>1. next \in Threads /\ next.at = "number" /\ next.copy = w.copy /\ next.pc = w.pc
      BY <1>1 DEF Threads
    <3>2. WorkerSound(next)
      BY <1>1, <1>5, <3>1 DEF SameFiles, WorkerSound
    <3>3. workers' \subseteq workers \union {next}
      BY <2>2 DEF Steps
    <3> HIDE DEF next
    <3> QED
      BY <1>1, <1>2, <1>5, <3>1, <3>2, <3>3, ThreadSteps DEF SameFiles
  <2> QED
    BY <1>5, <2>1, <2>2 DEF SameFiles
<1>6. CASE TakeTransfer(w)
  <2>1. transfer' \in [Pcs -> Nat] /\ transfer'[w.pc] \in Nat
    BY <1>1, <1>6 DEF TakeTransfer
  <2> PICK next : next = [w EXCEPT !.at = "note", !.transfer = transfer'[w.pc]]
    OBVIOUS
  <2>2. next \in Threads /\ next.at = "note" /\ next.copy = w.copy /\ next.pc = w.pc
    BY <1>1, <2>1 DEF Threads
  <2>3. WorkerSound(next)
    BY <1>1, <1>6, <2>2 DEF TakeTransfer, WorkerSound
  <2>4. workers' \subseteq workers \union {next}
    BY <1>6 DEF TakeTransfer, Steps
  <2> QED
    BY <1>1, <1>2, <1>6, <2>1, <2>2, <2>3, <2>4, ThreadSteps DEF TakeTransfer
<1>7. CASE NoteSending(w)
  <2> DEFINE next == [w EXCEPT !.at = "announce"]
  <2>1. next \in Threads /\ next.at = "announce" /\ next.copy = w.copy /\ next.pc = w.pc
    BY <1>1 DEF Threads
  <2>2. WorkerSound(next)
    BY <1>1, <1>7, <2>1 DEF NoteSending, WorkerSound
  <2>3. workers' \subseteq workers \union {next}
    BY <1>7 DEF NoteSending, Steps
  <2> HIDE DEF next
  <2> QED
    BY <1>1, <1>2, <1>7, <2>1, <2>2, <2>3, ThreadSteps DEF NoteSending
<1>8. CASE Announce(w)
  <2> DEFINE next == [w EXCEPT !.at = "data"]
             m == [kind |-> "list", transfer |-> w.transfer, copy |-> w.copy]
  <2>1. next \in Threads /\ next.at = "data" /\ next.copy = w.copy /\ next.pc = w.pc
    BY <1>1 DEF Threads
  <2>2. WorkerSound(next)
    BY <1>1, <1>8, <2>1 DEF Announce, WorkerSound
  <2>3. workers' \subseteq workers \union {next}
    BY <1>8 DEF Announce, Steps
  <2>4. m \in Messages /\ m.copy = w.copy /\ m.kind # "text"
    BY <1>1 DEF Messages, Threads
  <2>5. Goes(w.pc, FileLane, m)
    BY <1>8 DEF Announce
  <2> HIDE DEF next, m
  <2>6. /\ lanes' \in [Pcs -> [LaneNames -> Seq(Messages)]]
        /\ \A p \in Pcs, l \in LaneNames : LaneSound(p, l)'
    BY <1>3, <1>8, <2>4, <2>5 DEF Announce
  <2> QED
    BY <1>1, <1>8, <2>1, <2>2, <2>3, <2>6, ThreadSteps DEF Announce
<1>9. CASE SendChunk(w)
  <2> DEFINE next == [w EXCEPT !.sent = @ + 1]
             m == [kind |-> "data", transfer |-> w.transfer, copy |-> w.copy]
  <2>0. w.sent + 1 \in Nat
    BY <1>1 DEF Threads
  <2>1. next \in Threads /\ next.at = w.at /\ next.copy = w.copy /\ next.pc = w.pc
    BY <1>1, <2>0 DEF Threads
  <2>2. WorkerSound(next)
    BY <1>1, <1>9, <2>1 DEF SendChunk, WorkerSound
  <2>3. workers' \subseteq workers \union {next}
    BY <1>9 DEF SendChunk, Steps
  <2>4. m \in Messages /\ m.copy = w.copy /\ m.kind # "text"
    BY <1>1 DEF Messages, Threads
  <2>5. Goes(w.pc, FileLane, m)
    BY <1>9 DEF SendChunk
  <2> HIDE DEF next, m
  <2>6. /\ lanes' \in [Pcs -> [LaneNames -> Seq(Messages)]]
        /\ \A p \in Pcs, l \in LaneNames : LaneSound(p, l)'
    BY <1>3, <1>9, <2>4, <2>5 DEF SendChunk
  <2> QED
    BY <1>1, <1>9, <2>1, <2>2, <2>3, <2>6, ThreadSteps DEF SendChunk
<1>10. CASE Stops(w)
  <2> DEFINE next == [w EXCEPT !.at = "over"]
  <2>1. next \in Threads /\ next.at = "over" /\ next.copy = w.copy /\ next.pc = w.pc
    BY <1>1 DEF Threads
  <2>2. WorkerSound(next)
    BY <1>1, <1>10, <2>1 DEF Stops, WorkerSound
  <2>3. workers' \subseteq workers \union {next}
    BY <1>10 DEF Stops, Steps
  <2> HIDE DEF next
  <2> QED
    BY <1>1, <1>2, <1>10, <2>1, <2>2, <2>3, ThreadSteps DEF Stops
<1>11. CASE ForgetSending(w)
  BY <1>1, <1>2, <1>11, ThreadSteps DEF ForgetSending, Leaves
<1> QED
  BY <1>5, <1>6, <1>7, <1>8, <1>9, <1>10, <1>11, <1>12, <1>13, <1>14 DEF Sending

\* A message that is taken, and written or not.
LEMMA AppliedSound ==
  ASSUME ClipboardIInv, NEW p \in Pcs, NEW l \in LaneNames, lanes[Peer(p)][l] # <<>>, Taken(p, l),
         UNCHANGED <<people, ours, sender_>>, NEW c \in Nat, Write(p, c) \/ UNCHANGED <<windows_, locked>>,
         incoming' \in [Pcs -> Copies], promised' \in [Pcs -> Copies], posts' \in [Pcs -> Seq(Nat)]
  PROVE  ClipboardIInv'
<1>1. UNCHANGED <<by, ours, seen, workers, transfer>>
  BY DEF people, sender_
<1>2. /\ lanes' \in [Pcs -> [LaneNames -> Seq(Messages)]]
      /\ \A q \in Pcs, k \in LaneNames : LaneSound(q, k)'
  BY <1>1, TakenSound
<1>3. CASE Write(p, c)
  <2>1. /\ board' \in [Pcs -> Nat] /\ number' \in [Pcs -> Nat] /\ notes' \in [Pcs -> Nat]
        /\ locked' \in [Pcs -> [by : {"none", "write", "offer"}, copy : Nat, before : Nat]]
        /\ \A q \in Pcs : Recorded(q)' /\ WindowSound(q)'
        /\ \A w \in workers' : WorkerSound(w)'
    BY <1>1, <1>3, WriteSound
  <2>2. Types'
    BY <1>1, <1>2, <2>1 DEF ClipboardIInv, Types
  <2> QED
    BY <1>2, <2>1, <2>2 DEF ClipboardIInv
<1>4. CASE UNCHANGED <<windows_, locked>>
  <2>1. UNCHANGED <<board, number, notes, locked>>
    BY <1>4 DEF windows_
  <2>2. Types'
    BY <1>1, <1>2, <2>1 DEF ClipboardIInv, Types
  <2> QED
    BY <1>1, <1>2, <2>1, <2>2, CalmSound DEF ClipboardIInv
<1> QED
  BY <1>3, <1>4

LEMMA ApplyIInv ==
  ASSUME ClipboardIInv, NEW p \in Pcs, NEW l \in LaneNames, Apply(p, l)
  PROVE  ClipboardIInv'
<1>1. /\ incoming \in [Pcs -> Copies] /\ promised \in [Pcs -> Copies] /\ posts \in [Pcs -> Seq(Nat)]
      /\ lanes[Peer(p)][l] # <<>>
  BY DEF Apply, ClipboardIInv, Types
<1>2. Nothing \in Copies
  BY DEF Nothing, Copies
<1>3. ASSUME Taken(p, l), UNCHANGED people
      PROVE  Head_(p, l).transfer \in Nat /\ Head_(p, l).copy \in Nat
  BY <1>1, <1>3, TakenSound DEF Messages, people
<1>4. CASE ApplyText(p, l)
  <2>1. Head_(p, l).copy \in Nat
    BY <1>3, <1>4 DEF ApplyText
  <2> QED
    BY <1>1, <1>4, <2>1, AppliedSound DEF ApplyText, receiver_
<1>5. CASE ApplyList(p, l)
  <2>1. Head_(p, l).transfer \in Nat /\ Head_(p, l).copy \in Nat
    BY <1>3, <1>5 DEF ApplyList
  <2> PICK m : m = Head_(p, l)
    OBVIOUS
  <2> DEFINE in == [transfer |-> m.transfer, copy |-> m.copy, got |-> 0]
  <2>2. in \in Copies
    BY <2>1 DEF Copies
  <2>3. /\ incoming' = [incoming EXCEPT ![p] = Nothing] \/ incoming' = [incoming EXCEPT ![p] = in]
        /\ promised' = promised \/ promised' = [promised EXCEPT ![p] = in]
        /\ posts' = posts \/ posts' = [posts EXCEPT ![p] = Append(@, m.transfer)]
        /\ Write(p, m.copy) \/ UNCHANGED <<windows_, locked>>
    BY <1>5 DEF ApplyList
  <2> HIDE DEF in
  <2>4. incoming' \in [Pcs -> Copies] /\ promised' \in [Pcs -> Copies]
    BY <1>1, <1>2, <2>2, <2>3
  <2>5. posts' \in [Pcs -> Seq(Nat)]
    <3>1. Append(posts[p], m.transfer) \in Seq(Nat)
      BY <1>1, <2>1
    <3> QED
      BY <1>1, <2>3, <3>1
  <2> QED
    BY <1>1, <1>5, <2>1, <2>3, <2>4, <2>5, AppliedSound DEF ApplyList
<1>6. CASE ApplyChunk(p, l)
  <2>1. incoming[p].copy \in Nat /\ incoming[p].got \in Nat
    BY <1>1 DEF Copies
  <2>2. /\ \/ incoming' = incoming \/ incoming' = [incoming EXCEPT ![p] = Nothing]
           \/ incoming' = [incoming EXCEPT ![p].got = @ + 1]
        /\ Write(p, incoming[p].copy) \/ UNCHANGED <<windows_, locked>>
    BY <1>6 DEF ApplyChunk
  <2>3. CASE incoming' = [incoming EXCEPT ![p].got = @ + 1]
    <3>1. incoming[p].got + 1 \in Nat
      BY <2>1
    <3>2. incoming' \in [Pcs -> Copies]
      BY <1>1, <2>3, <3>1 DEF Copies
    <3> QED
      BY <1>1, <1>6, <2>1, <2>2, <3>2, AppliedSound DEF ApplyChunk
  <2>4. CASE incoming' = incoming \/ incoming' = [incoming EXCEPT ![p] = Nothing]
    BY <1>1, <1>2, <1>6, <2>1, <2>2, <2>4, AppliedSound DEF ApplyChunk
  <2> QED
    BY <2>2, <2>3, <2>4
<1> QED
  BY <1>4, <1>5, <1>6 DEF Apply

LEMMA RecordedIInv ==
  ASSUME ClipboardIInv, NEW p \in Pcs, WriteRecorded(p)
  PROVE  ClipboardIInv'
<1>1. UNCHANGED <<by, board, number, notes, seen, workers, transfer, lanes, incoming, promised, posts>>
  BY DEF WriteRecorded, people, windows_, sender_, receiver_
<1>2. /\ ours \in [Pcs -> Nat] /\ number \in [Pcs -> Nat]
      /\ locked \in [Pcs -> [by : {"none", "write", "offer"}, copy : Nat, before : Nat]]
      /\ locked[p].by = "write" /\ \A q \in Pcs : Recorded(q)
  BY DEF ClipboardIInv, Types, WriteRecorded
<1>3. /\ ours' \in [Pcs -> Nat]
      /\ locked' \in [Pcs -> [by : {"none", "write", "offer"}, copy : Nat, before : Nat]]
      /\ locked'[p].by = "none" /\ \A q \in Pcs : q # p => locked'[q] = locked[q] /\ ours'[q] = ours[q]
  BY <1>2 DEF WriteRecorded, Free
<1>4. number[p] = ours'[p] \/ Local(p, board[p])
  BY <1>2 DEF WriteRecorded, Recorded
<1>5. ASSUME NEW q \in Pcs PROVE Recorded(q)'
  <2>1. CASE q = p
    BY <1>1, <1>3, <1>4, <2>1 DEF Recorded, Local
  <2>2. CASE q # p
    BY <1>1, <1>2, <1>3, <2>2 DEF Recorded, Local
  <2> QED
    BY <2>1, <2>2
<1>6. Types'
  BY <1>1, <1>3 DEF ClipboardIInv, Types
<1> QED
  BY <1>1, <1>5, <1>6, CalmSound, LanesUnchanged DEF ClipboardIInv

LEMMA StepIInv == ClipboardIInv /\ [ClipboardNext]_clipboardVars => ClipboardIInv'
<1> SUFFICES ASSUME ClipboardIInv, [ClipboardNext]_clipboardVars PROVE ClipboardIInv'
  OBVIOUS
<1>1. ASSUME NEW p \in Pcs, NEW item \in Files \union {"text"}, PersonCopies(p, item) PROVE ClipboardIInv'
  BY <1>1, PersonIInv
<1>2. ASSUME NEW p \in Pcs, Window(p) \/ WriteRecorded(p) PROVE ClipboardIInv'
  BY <1>2, WindowIInv, RecordedIInv
<1>3. ASSUME NEW p \in Pcs, NEW l \in {"link", "tcp"}, Apply(p, l) PROVE ClipboardIInv'
  BY <1>3, ApplyIInv DEF LaneNames
<1>4. ASSUME NEW w \in workers, Sending(w) PROVE ClipboardIInv'
  BY <1>4, SendingIInv
<1>5. CASE UNCHANGED clipboardVars
  <2>1. UNCHANGED <<by, board, number, notes, ours, locked, seen, workers, transfer, lanes, incoming, promised, posts>>
    BY <1>5 DEF clipboardVars, people, windows_, sender_, receiver_
  <2>2. Types'
    BY <2>1 DEF ClipboardIInv, Types
  <2> QED
    BY <2>1, <2>2, CalmSound, LanesUnchanged DEF ClipboardIInv
<1> QED
  BY <1>1, <1>2, <1>3, <1>4, <1>5 DEF ClipboardNext

\* What a PC sends over either lane was copied there, but for files that a
\* SYSTEM agent's helper listed, however many copies are made and however
\* writes, offers, notifications and the threads of send_files fall between
\* (hyper_clipboard.rs: OUR_SEQ, local_change, wndproc, copied_paths).
THEOREM OnlyListedGoesBack == ClipboardSpec => []OnlyListedFilesSentBack
<1>1. ClipboardIInv => OnlyListedFilesSentBack
  <2> SUFFICES ASSUME ClipboardIInv, NEW p \in Pcs, NEW l \in {"link", "tcp"}, NEW i \in DOMAIN lanes[p][l]
               PROVE  \/ by[lanes[p][l][i].copy] = p
                      \/ p \in System /\ lanes[p][l][i].kind # "text"
    BY DEF OnlyListedFilesSentBack
  <2>1. lanes[p][l] \in Seq(Messages) /\ LaneSound(p, l)
    BY DEF ClipboardIInv, Types, LaneNames
  <2> QED
    BY <2>1 DEF LaneSound, Sendable, Listing, Local
<1> QED
  BY InitIInv, StepIInv, <1>1, PTL DEF ClipboardSpec

\* Where nothing runs as SYSTEM, and copied_paths looks after it has read, what
\* the module's documentation promises holds: no paste goes back.
THEOREM NeverSentBack == System = {} => (ClipboardSpec => []NothingSentBack)
<1> SUFFICES ASSUME System = {} PROVE ClipboardSpec => []NothingSentBack
  OBVIOUS
<1>1. OnlyListedFilesSentBack => NothingSentBack
  BY DEF OnlyListedFilesSentBack, NothingSentBack
<1> QED
  BY OnlyListedGoesBack, <1>1, PTL
=============================================================================
