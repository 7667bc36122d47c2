---------------------------- MODULE StreamProofs ----------------------------
(***************************************************************************)
(* However many threads use the link, the pump never sleeps through what    *)
(* must go out; the capture loop of a stream that is paused and seen again   *)
(* always has the pipeline it uses; and what a copy stream hands on is in    *)
(* order, however many connections it goes over.                            *)
(***************************************************************************)
EXTENDS Link, StreamControl, CopyStream, FiniteSetTheorems, WellFoundedInduction, TLAPS

-----------------------------------------------------------------------------
(* The link's pump *)

Counts == queued \in [LinkLanes -> Nat] /\ unsettled \in [LinkLanes -> Nat]

LinkIInv == Counts /\ NotSleptThrough

LEMMA LinkInitIInv == LinkInit => LinkIInv
  BY DEF LinkInit, LinkIInv, Counts, NotSleptThrough

\* Each turn of the pump looks at the lanes after it has decided what to send:
\* what moves from queued to unsettled is still a backlog.
LEMMA PollIInv ==
  ASSUME LinkIInv, NEW passed, NEW n \in [LinkLanes -> 0..LinkWindow], NEW again,
         \A l \in LinkLanes : n[l] <= MaySend(l), Poll(passed, n, again)
  PROVE  LinkIInv'
<1>1. \A l \in LinkLanes : n[l] \in Nat /\ n[l] <= queued[l]
  BY LinkAssumption DEF MaySend, LinkIInv, Counts
<1>2. Counts'
  BY <1>1 DEF Poll, LinkIInv, Counts
<1>3. \A l \in LinkLanes : Backlog(l)' = Backlog(l)
  BY <1>1 DEF Poll, Backlog, LinkIInv, Counts
<1>4. NotSleptThrough'
  <2>1. wait' = Wait(ack_held', {l \in LinkLanes : Backlog(l)})
    BY DEF Poll
  <2> QED
    BY <1>3, <2>1 DEF NotSleptThrough, Wait
<1> QED
  BY <1>2, <1>4 DEF LinkIInv

LEMMA LinkStepIInv == LinkIInv /\ [LinkNext]_linkVars => LinkIInv'
<1> SUFFICES ASSUME LinkIInv, [LinkNext]_linkVars PROVE LinkIInv'
  OBVIOUS
<1>1. ASSUME NEW c \in Callers, NEW l \in LinkLanes, Send(c, l) PROVE LinkIInv'
  BY <1>1 DEF Send, LinkIInv, Counts, NotSleptThrough, pumpVars
<1>2. ASSUME NEW c \in Callers, NEW l \in LinkLanes, OnAck(c, l) PROVE LinkIInv'
  BY <1>2 DEF OnAck, LinkIInv, Counts, NotSleptThrough, pumpVars
<1>3. ASSUME NEW c \in Callers, NEW l \in LinkLanes, NEW batched \in BOOLEAN, OnData(c, l, batched)
      PROVE  LinkIInv'
  BY <1>3 DEF OnData, LinkIInv, Counts, NotSleptThrough, Backlog, pumpVars
<1>4. ASSUME NEW c \in Callers, NotifyOne(c) PROVE LinkIInv'
  BY <1>4 DEF NotifyOne, LinkIInv, Counts, NotSleptThrough, Backlog, laneVars
<1>5. CASE Stop \/ Nudge
  BY <1>5 DEF Stop, Nudge, LinkIInv, Counts, NotSleptThrough, Backlog, laneVars, pumpVars
<1>6. CASE Check \/ Wake \/ Timeout \/ SendOut
  BY <1>6 DEF Check, Wake, Timeout, SendOut, LinkIInv, Counts, NotSleptThrough, laneVars
<1>7. CASE PollSome
  BY <1>7, PollIInv DEF PollSome
<1>8. CASE UNCHANGED linkVars
  BY <1>8 DEF linkVars, laneVars, pumpVars, LinkIInv, Counts, NotSleptThrough, Backlog
<1> QED
  BY <1>1, <1>2, <1>3, <1>4, <1>5, <1>6, <1>7, <1>8 DEF LinkNext

\* Asleep, with no notification on its way to it, the pump (hyper_link.rs,
\* spawn_pump) wakes in time for whatever is queued, unacknowledged or held
\* back, for any number of lanes and threads and any window.
THEOREM NeverSleptThrough == LinkInit /\ [][LinkNext]_linkVars => []NotSleptThrough
<1>1. LinkIInv => NotSleptThrough
  BY DEF LinkIInv
<1> QED
  BY LinkInitIInv, LinkStepIInv, <1>1, PTL

-----------------------------------------------------------------------------
(* The capture loop's pipeline *)

\* What the receive thread, the client and the network do touches neither the
\* pipeline nor where the loop is.
LEMMA OthersKeepPipeline ==
  ASSUME PipelineThere,
         \/ TakeKeyframeRequest \/ EndPause \/ TakeInput \/ KeyWaitTimeout \/ PauseElapses
         \/ \E m \in {"hidden", "shown"}, used \in BOOLEAN : TakePaused(m, used)
         \/ Toggle \/ Tell \/ AskKeyframe \/ LoseDelta
         \/ \E fed \in BOOLEAN : ReceiveKey(fed) \/ LoseKey(fed)
         \/ \E m \in Messages : LoseMessage(m)
  PROVE  PipelineThere'
<1>1. UNCHANGED <<loop, pipe, released>>
  BY DEF TakeKeyframeRequest, EndPause, TakeInput, KeyWaitTimeout, PauseElapses, TakePaused, Toggle,
         Tell, AskKeyframe, LoseDelta, ReceiveKey, LoseKey, Resolve, LoseMessage, capture
<1> QED
  BY <1>1 DEF PipelineThere

\* Nothing is let go past PauseRelease::step, so what a new capture or encoder
\* replaces is whole; what step lets go, it remembers.
LEMMA LoopKeepsPipeline ==
  ASSUME PipelineThere, LoopStep
  PROVE  PipelineThere'
<1>1. CASE LookPaused \/ TakeKeyframe
  BY <1>1 DEF LookPaused, TakeKeyframe, PipelineThere
<1>2. ASSUME NEW on \in BOOLEAN, StepWait(on) \/ StepRebuild(on) \/ StepRun(on)
      PROVE  PipelineThere'
  BY <1>2 DEF StepWait, StepRebuild, StepRun, NothingReleased, PipelineThere
<1>3. ASSUME NEW on \in BOOLEAN, NEW what \in {"Encoder", "Pipeline"}, StepRelease(on, what)
      PROVE  PipelineThere'
  BY <1>3 DEF StepRelease, PipelineThere
<1>4. CASE FollowMode \/ CaptureFails \/ SizeChanged
  BY <1>4 DEF FollowMode, CaptureFails, SizeChanged, NewPipeline, PipelineThere
<1>5. ASSUME NEW new \in BOOLEAN, CapturePaused(new) \/ CaptureNothing(new) \/ CaptureEncode(new)
      PROVE  PipelineThere'
  BY <1>5 DEF CapturePaused, CaptureNothing, CaptureEncode, PipelineThere
<1> QED
  BY <1>1, <1>2, <1>3, <1>4, <1>5 DEF LoopStep

\* Past PauseRelease::step the capture loop (hyper_host.rs, stream()) has a
\* whole pipeline, whatever the receive thread stores meanwhile; and the
\* pipeline is closed exactly while something is remembered as released
\* (pause.rs).
THEOREM PipelineAlwaysThere == ControlSpec => []PipelineThere
<1>1. ControlInit => PipelineThere
  BY DEF ControlInit, PipelineThere
<1>2. PipelineThere /\ [ControlNext]_controlVars => PipelineThere'
  <2>1. PipelineThere /\ UNCHANGED controlVars => PipelineThere'
    BY DEF PipelineThere, controlVars, capture
  <2> QED
    BY <2>1, OthersKeepPipeline, LoopKeepsPipeline DEF ControlNext
<1> QED
  BY <1>1, <1>2, PTL DEF ControlSpec

-----------------------------------------------------------------------------
(* The copy stream: every record is in one place *)

Records == [seq : Nat, nonce : Nat]

CopyTypes ==
  /\ next_record \in Nat /\ next \in Nat /\ held \subseteq Nat /\ sealed \in [Lanes -> Nat]
  /\ taken \in [Threads -> Nat \union {None}]
  /\ queue \in [Lanes -> Seq(Nat)] /\ wire \in [Lanes -> Seq(Records)]

\* What connection l has, in the order it will come out: in TCP, then queued.
OnWay(l) == Len(wire[l]) + Len(queue[l])
Nth(l, i) == IF i <= Len(wire[l]) THEN wire[l][i].seq ELSE queue[l][i - Len(wire[l])]

\* Numbered, and neither held nor handed on.
Outstanding(s) == next <= s /\ s < next_record /\ s \notin held

LanesOutstanding == \A l \in Lanes : \A i \in 1..OnWay(l) : Outstanding(Nth(l, i))
LanesApart ==
  \A l, k \in Lanes : \A i \in 1..OnWay(l), j \in 1..OnWay(k) :
    Nth(l, i) = Nth(k, j) => l = k /\ i = j
TakenOutstanding == \A t \in Threads : taken[t] # None => Outstanding(taken[t])
TakenApart ==
  \A t \in Threads : taken[t] # None =>
    /\ \A u \in Threads : taken[u] = taken[t] => u = t
    /\ \A l \in Lanes : \A i \in 1..OnWay(l) : Nth(l, i) # taken[t]
HeldAhead == \A s \in held : next <= s /\ s < next_record

CopyIInv ==
  /\ CopyTypes /\ LanesOutstanding /\ LanesApart /\ TakenOutstanding /\ TakenApart /\ HeldAhead
  /\ next <= next_record /\ InOrder

-----------------------------------------------------------------------------
\* A non-empty set of naturals has a least element.
LEMMA SmallestExists ==
  ASSUME NEW T \in SUBSET Nat, T # {}
  PROVE  \E x \in T : \A y \in T : x <= y
<1>1. \E x \in T : \A y \in T : ~(<<y, x>> \in OpToRel(<, Nat))
  BY NatLessThanWellFounded, WFMin
<1>2. ASSUME NEW x \in Nat, NEW y \in Nat, y < x PROVE <<y, x>> \in OpToRel(<, Nat)
  BY <1>2, Zenon DEF OpToRel
<1>3. PICK x \in T : \A y \in T : ~(<<y, x>> \in OpToRel(<, Nat))
  BY <1>1
<1>4. \A y \in T : ~(y < x)
  BY <1>2, <1>3, Zenon
<1> QED
  BY <1>4

\* The numbers from n up to m, in order.
LEMMA AscendingInterval ==
  ASSUME NEW n \in Nat, NEW m \in Nat, n <= m
  PROVE  /\ Cardinality(n..(m - 1)) = m - n
         /\ Ascending(n..(m - 1)) = [i \in 1..(m - n) |-> n + i - 1]
<1> DEFINE S == n..(m - 1)
<1>1. \A k \in Nat : n <= k => Cardinality(n..(k - 1)) = k - n
  <2> SUFFICES ASSUME NEW k \in Nat, n <= k PROVE Cardinality(n..(k - 1)) = k - n
    OBVIOUS
  <2>1. Cardinality(n..(k - 1)) = IF n > k - 1 THEN 0 ELSE (k - 1) - n + 1
    BY FS_Interval
  <2> QED
    BY <2>1
<1>2. Cardinality(S) = m - n
  BY <1>1
<1>3. ASSUME NEW i \in 1..(m - n)
      PROVE  (CHOOSE s \in S : Cardinality({r \in S : r < s}) = i - 1) = n + i - 1
  <2>1. ASSUME NEW s \in S PROVE Cardinality({r \in S : r < s}) = s - n
    <3>1. {r \in S : r < s} = n..(s - 1)
      OBVIOUS
    <3>2. s \in Nat /\ n <= s
      OBVIOUS
    <3> QED
      BY <1>1, <3>1, <3>2
  <2>2. n + i - 1 \in S
    OBVIOUS
  <2>3. \A s \in S : s \in Nat
    OBVIOUS
  <2> HIDE DEF S
  <2>4. Cardinality({r \in S : r < n + i - 1}) = i - 1
    BY <2>1, <2>2
  <2>5. \A s \in S : Cardinality({r \in S : r < s}) = i - 1 => s = n + i - 1
    BY <2>1, <2>3
  <2> QED
    BY <2>2, <2>4, <2>5
<1> HIDE DEF S
<1>4. Ascending(S) = [i \in 1..(m - n) |-> n + i - 1]
  BY <1>2, <1>3 DEF Ascending
<1> QED
  BY <1>2, <1>4 DEF S

\* What goes on is everything up to the first number that is not here.
LEMMA DrainIsInterval ==
  ASSUME NEW n \in Nat, NEW h \in SUBSET Nat, NEW top \in Nat, n <= top,
         \A s \in h : n <= s /\ s < top
  PROVE  \E m \in Nat : /\ n <= m /\ m <= top /\ Drain(n, h) = n..(m - 1) /\ m \notin h
<1> DEFINE T == {k \in Nat : n <= k /\ k \notin h}
<1>1. top \in T
  OBVIOUS
<1>2. PICK m \in T : \A k \in T : m <= k
  BY <1>1, SmallestExists
<1>3. m \in Nat /\ n <= m /\ m <= top /\ m \notin h
  BY <1>1, <1>2
<1>4. \A k \in Nat : n <= k /\ k < m => k \in h
  BY <1>2, <1>3
<1> HIDE DEF T
<1>5. Drain(n, h) = n..(m - 1)
  <2>1. ASSUME NEW s \in Drain(n, h) PROVE s \in n..(m - 1)
    <3>1. s \in h /\ s \in Nat /\ n <= s /\ \A k \in n..s : k \in h
      BY <2>1 DEF Drain
    <3>2. ~(m <= s)
      BY <1>3, <3>1
    <3> QED
      BY <1>3, <3>1, <3>2
  <2>2. ASSUME NEW s \in n..(m - 1) PROVE s \in Drain(n, h)
    BY <1>3, <1>4 DEF Drain
  <2> QED
    BY <2>1, <2>2
<1> QED
  BY <1>3, <1>5

\* The numbers below n, then those from n up to m: the numbers below m.
LEMMA RunsOn ==
  ASSUME NEW n \in Nat, NEW m \in Nat, n <= m
  PROVE  LET r == [i \in 1..n |-> i - 1] \o [i \in 1..(m - n) |-> n + i - 1]
         IN  r = [i \in 1..m |-> i - 1] /\ Len(r) = m
<1> DEFINE a == [i \in 1..n |-> i - 1]
           b == [i \in 1..(m - n) |-> n + i - 1]
<1>1. a \in Seq(Nat) /\ Len(a) = n /\ \A i \in 1..n : a[i] = i - 1
  OBVIOUS
<1>2. b \in Seq(Nat) /\ Len(b) = m - n /\ \A i \in 1..(m - n) : b[i] = n + i - 1
  OBVIOUS
<1> HIDE DEF a, b
<1>3. a \o b \in Seq(Nat) /\ Len(a \o b) = m
  BY <1>1, <1>2
<1>4. ASSUME NEW i \in 1..m PROVE (a \o b)[i] = i - 1
  <2>1. CASE i <= n
    <3>1. (a \o b)[i] = a[i] /\ i \in 1..n
      BY <1>1, <1>2, <2>1
    <3> QED
      BY <1>1, <3>1
  <2>2. CASE i > n
    <3>1. i - n \in 1..(m - n)
      BY <2>2
    <3>2. (a \o b)[i] = b[i - n]
      BY <1>1, <1>2, <2>2
    <3>3. b[i - n] = n + (i - n) - 1
      BY <1>2, <3>1
    <3> QED
      BY <3>2, <3>3
  <2>3. i <= n \/ i > n
    OBVIOUS
  <2> QED
    BY <2>1, <2>2, <2>3, Zenon
<1>5. a \o b = [i \in 1..m |-> i - 1]
  <2>1. PICK c : c = a \o b
    OBVIOUS
  <2>2. c \in Seq(Nat) /\ Len(c) = m /\ \A i \in 1..m : c[i] = i - 1
    BY <1>3, <1>4, <2>1, Zenon
  <2>3. c = [i \in 1..m |-> i - 1]
    BY <2>2
  <2> QED
    BY <2>1, <2>3, Zenon
<1> QED
  BY <1>3, <1>5 DEF a, b

-----------------------------------------------------------------------------
LEMMA CopyInitHolds == Init => CopyIInv
<1> SUFFICES ASSUME Init PROVE CopyIInv
  OBVIOUS
<1>1. CopyTypes
  BY DEF Init, CopyTypes
<1>2. \A l \in Lanes : OnWay(l) = 0
  BY DEF Init, OnWay
<1>3. LanesOutstanding /\ LanesApart
  BY <1>2 DEF LanesOutstanding, LanesApart
<1>4. TakenOutstanding /\ TakenApart /\ HeldAhead /\ next <= next_record
  BY DEF Init, TakenOutstanding, TakenApart, HeldAhead
<1>5. InOrder
  BY DEF Init, InOrder
<1> QED
  BY <1>1, <1>3, <1>4, <1>5 DEF CopyIInv

\* A connection no step touches keeps what it has.
LEMMA NthSame ==
  ASSUME NEW l, NEW i, wire'[l] = wire[l], queue'[l] = queue[l]
  PROVE  OnWay(l)' = OnWay(l) /\ Nth(l, i)' = Nth(l, i)
  BY DEF OnWay, Nth

\* The numbers on the way are natural numbers.
LEMMA NthTyped ==
  ASSUME CopyTypes, NEW l \in Lanes
  PROVE  OnWay(l) \in Nat /\ \A i \in 1..OnWay(l) : Nth(l, i) \in Nat
<1>1. wire[l] \in Seq(Records) /\ queue[l] \in Seq(Nat)
  BY DEF CopyTypes
<1>2. \A i \in 1..Len(wire[l]) : wire[l][i] \in Records
  BY <1>1
<1>3. \A i \in 1..Len(wire[l]) : wire[l][i].seq \in Nat
  BY <1>2 DEF Records
<1>4. PICK x \in Nat, y \in Nat : x = Len(wire[l]) /\ y = Len(queue[l])
  BY <1>1
<1>5. OnWay(l) = x + y
  BY <1>4, Zenon DEF OnWay
<1>6. OnWay(l) \in Nat
  BY <1>5
<1>7. ASSUME NEW i \in 1..OnWay(l) PROVE Nth(l, i) \in Nat
  <2>0. i \in 1..(x + y)
    BY <1>5
  <2>1. CASE i <= x
    BY <1>3, <1>4, <2>0, <2>1 DEF Nth
  <2>2. CASE ~(i <= x)
    <3>1. i - x \in 1..y
      BY <2>0, <2>2
    <3>2. Nth(l, i) = queue[l][i - x]
      BY <1>4, <2>2 DEF Nth
    <3> QED
      BY <1>1, <1>4, <3>1, <3>2
  <2> QED
    BY <2>1, <2>2
<1> QED
  BY <1>6, <1>7

\* The number a sender takes is new.
LEMMA TakeNumberKeeps ==
  ASSUME CopyIInv, NEW t \in Threads, TakeNumber(t)
  PROVE  CopyIInv'
<1> USE DEF CopyIInv
<1>1. /\ next_record \in Nat /\ next_record' = next_record + 1 /\ next <= next_record
      /\ taken' = [taken EXCEPT ![t] = next_record] /\ next' = next /\ held' = held
      /\ queue' = queue /\ wire' = wire /\ sealed' = sealed /\ sunk' = sunk
  BY DEF TakeNumber, receiver, CopyTypes
<1>2. CopyTypes'
  BY <1>1 DEF CopyTypes
<1>3. \A l, i : OnWay(l)' = OnWay(l) /\ Nth(l, i)' = Nth(l, i)
  BY <1>1 DEF OnWay, Nth
<1>4. \A s \in Nat : Outstanding(s) => Outstanding(s)' /\ s # next_record
  BY <1>1 DEF Outstanding
<1>5. LanesOutstanding' /\ LanesApart'
  BY <1>3, <1>4, NthTyped DEF LanesOutstanding, LanesApart
<1>0. PICK c : c = next_record
  OBVIOUS
<1>6. Outstanding(c)' /\ HeldAhead'
  <2>1. c \notin held /\ next \in Nat /\ held \subseteq Nat
    BY <1>0, <1>1 DEF HeldAhead, CopyTypes
  <2>2. Outstanding(c)'
    BY <1>0, <1>1, <2>1 DEF Outstanding
  <2>3. HeldAhead'
    BY <1>1, <2>1 DEF HeldAhead
  <2> QED
    BY <2>2, <2>3
<1>7. \A u \in Threads : taken[u] \in Nat \union {None} /\ taken'[u] = IF u = t THEN c ELSE taken[u]
  BY <1>0, <1>1 DEF CopyTypes
<1>8. TakenOutstanding'
  BY <1>4, <1>6, <1>7 DEF TakenOutstanding
<1>9. TakenApart'
  <2>1. \A u \in Threads : taken[u] # None => taken[u] # c
    BY <1>0, <1>4, <1>7 DEF TakenOutstanding
  <2>2. \A l \in Lanes : \A i \in 1..OnWay(l) : Nth(l, i) # c
    BY <1>0, <1>4, NthTyped DEF LanesOutstanding
  <2>3. c # None
    BY <1>0, <1>1 DEF None
  <2> QED
    BY <1>3, <1>7, <2>1, <2>2, <2>3 DEF TakenApart
<1> QED
  BY <1>1, <1>2, <1>5, <1>6, <1>8, <1>9 DEF InOrder, CopyTypes

\* A record goes to the end of its connection's queue, or is dropped with a
\* dead stream.
LEMMA EnqueueKeeps ==
  ASSUME CopyIInv, NEW t \in Threads, Enqueue(t)
  PROVE  CopyIInv'
<1> USE DEF CopyIInv
<1>0. PICK q, n : q = LaneOf(t) /\ n = taken[t]
  OBVIOUS
<1>1. /\ next_record' = next_record /\ next' = next /\ held' = held /\ wire' = wire
      /\ sealed' = sealed /\ sunk' = sunk /\ taken' = [taken EXCEPT ![t] = None]
      /\ n # None
      /\ \/ queue' = [queue EXCEPT ![q] = Append(queue[q], n)]
         \/ queue' = queue
  BY <1>0 DEF Enqueue, receiver
<1>2. /\ n \in Nat /\ next_record \in Nat /\ next \in Nat
      /\ wire \in [Lanes -> Seq(Records)] /\ queue \in [Lanes -> Seq(Nat)]
      /\ taken \in [Threads -> Nat \union {None}]
  BY <1>0, <1>1 DEF CopyTypes
<1>3. \A s : Outstanding(s)' <=> Outstanding(s)
  BY <1>1 DEF Outstanding
<1>4. \A u \in Threads : taken'[u] = IF u = t THEN None ELSE taken[u]
  BY <1>1, <1>2
<1>5. HeldAhead' /\ TakenOutstanding' /\ InOrder' /\ (next <= next_record)'
  BY <1>1, <1>3, <1>4 DEF HeldAhead, TakenOutstanding, InOrder
<1>6. CASE queue' = queue
  <2>1. CopyTypes'
    BY <1>1, <1>2, <1>6 DEF CopyTypes
  <2>2. \A l, i : OnWay(l)' = OnWay(l) /\ Nth(l, i)' = Nth(l, i)
    BY <1>1, <1>6 DEF OnWay, Nth
  <2>3. LanesOutstanding' /\ LanesApart'
    BY <1>3, <2>2 DEF LanesOutstanding, LanesApart
  <2>4. TakenApart'
    BY <1>4, <2>2 DEF TakenApart
  <2> QED
    BY <1>5, <2>1, <2>3, <2>4
<1>7. ASSUME queue' = [queue EXCEPT ![q] = Append(queue[q], n)], q \in Lanes
      PROVE  CopyIInv'
  <2>0. PICK w : w = OnWay(q)
    OBVIOUS
  <2>1. Append(queue[q], n) \in Seq(Nat) /\ queue[q] \in Seq(Nat)
    BY <1>2, <1>7
  <2>2. queue' \in [Lanes -> Seq(Nat)]
    BY <1>2, <1>7, <2>1
  <2>3. CopyTypes'
    BY <1>1, <1>2, <2>2 DEF CopyTypes
  <2>4. ASSUME NEW l \in Lanes, l # q
        PROVE  OnWay(l)' = OnWay(l) /\ \A i : Nth(l, i)' = Nth(l, i)
    BY <1>1, <1>2, <1>7, <2>4 DEF OnWay, Nth
  <2>5. /\ w \in Nat /\ OnWay(q)' = w + 1 /\ Nth(q, w + 1)' = n
        /\ \A i \in 1..w : Nth(q, i)' = Nth(q, i)
    <3>1. queue'[q] = Append(queue[q], n) /\ wire'[q] = wire[q] /\ wire[q] \in Seq(Records)
      BY <1>1, <1>2, <1>7
    <3>2. /\ Len(queue'[q]) = Len(queue[q]) + 1 /\ queue'[q][Len(queue[q]) + 1] = n
          /\ \A i \in 1..Len(queue[q]) : queue'[q][i] = queue[q][i]
          /\ Len(queue[q]) \in Nat /\ Len(wire[q]) \in Nat
      BY <1>2, <2>1, <3>1
    <3>3. w \in Nat /\ OnWay(q)' = w + 1 /\ w = Len(wire[q]) + Len(queue[q])
      BY <1>2, <2>0, <2>1, <2>2, <3>1, <3>2 DEF OnWay
    <3>4. Nth(q, w + 1)' = n
      <4>2. ~(w + 1 <= Len(wire'[q])) /\ (w + 1) - Len(wire'[q]) = Len(queue[q]) + 1
        <5>1. PICK x \in Nat, y \in Nat : x = Len(wire[q]) /\ y = Len(queue[q])
          BY <3>2
        <5>2. x = Len(wire'[q])
          BY <3>1, <5>1, Zenon
        <5>4. w = x + y
          BY <3>3, <5>1, Zenon
        <5>3. ~(w + 1 <= x) /\ (w + 1) - x = y + 1
          BY <5>4
        <5> QED
          BY <5>1, <5>2, <5>3, Zenon
      <4>3. Nth(q, w + 1)' = queue'[q][(w + 1) - Len(wire'[q])]
        BY <4>2 DEF Nth
      <4> QED
        BY <3>2, <4>2, <4>3
    <3>5. ASSUME NEW i \in 1..w PROVE Nth(q, i)' = Nth(q, i)
      <4>1. CASE i <= Len(wire[q])
        BY <3>1, <4>1 DEF Nth
      <4>2. CASE i > Len(wire[q])
        <5>1. i - Len(wire[q]) \in 1..Len(queue[q]) /\ ~(i <= Len(wire[q]))
          <6>1. PICK x \in Nat, y \in Nat : x = Len(wire[q]) /\ y = Len(queue[q])
            BY <3>2
          <6>2. w = x + y
            BY <3>3, <6>1, Zenon
          <6>3. i > x => i - x \in 1..y /\ ~(i <= x)
            BY <6>2
          <6> QED
            BY <4>2, <6>1, <6>3, Zenon
        <5>2. queue'[q][i - Len(wire[q])] = queue[q][i - Len(wire[q])]
          BY <3>2, <5>1
        <5> QED
          BY <3>1, <5>1, <5>2 DEF Nth
      <4> QED
        BY <3>2, <3>3, <4>1, <4>2
    <3> QED
      BY <3>3, <3>4, <3>5
  <2>6. Outstanding(n) /\ \A l \in Lanes : \A i \in 1..OnWay(l) : Nth(l, i) # n
    BY <1>0, <1>1 DEF TakenOutstanding, TakenApart
  <2>7. ASSUME NEW l \in Lanes, NEW i \in 1..OnWay(l)'
        PROVE  \/ i \in 1..OnWay(l) /\ Nth(l, i)' = Nth(l, i)
               \/ l = q /\ i = w + 1 /\ Nth(l, i)' = n
    <3>1. CASE l # q
      BY <2>4, <3>1
    <3>2. CASE l = q
      <4>1. i \in 1..w \/ i = w + 1
        BY <2>5, <3>2
      <4> QED
        BY <2>0, <2>5, <3>2, <4>1
    <3> QED
      BY <3>1, <3>2
  <2>8. LanesOutstanding'
    BY <1>3, <2>6, <2>7 DEF LanesOutstanding
  <2>9. LanesApart'
    BY <2>6, <2>7 DEF LanesApart
  <2>10. TakenApart'
    <3>1. \A u \in Threads : u # t /\ taken[u] # None => taken[u] # n
      BY <1>0, <1>1 DEF TakenApart
    <3> QED
      BY <1>4, <2>7, <3>1 DEF TakenApart
  <2> QED
    BY <1>5, <2>3, <2>8, <2>9, <2>10
<1>8. ASSUME queue' = [queue EXCEPT ![q] = Append(queue[q], n)], q \notin Lanes
      PROVE  queue' = queue
  BY <1>2, <1>8
<1> QED
  BY <1>1, <1>6, <1>7, <1>8

\* What a writer seals keeps its place in its connection.
LEMMA WriteKeeps ==
  ASSUME CopyIInv, NEW k \in Lanes, Write(k)
  PROVE  CopyIInv'
<1> USE DEF CopyIInv
<1> DEFINE rec == [seq |-> Head(queue[k]), nonce |-> sealed[k]]
<1>1. /\ next_record' = next_record /\ next' = next /\ held' = held /\ taken' = taken
      /\ sunk' = sunk /\ queue[k] # <<>> /\ queue' = [queue EXCEPT ![k] = Tail(queue[k])]
      /\ wire' = [wire EXCEPT ![k] = Append(wire[k], rec)]
      /\ sealed' = [sealed EXCEPT ![k] = sealed[k] + 1]
  BY DEF Write, Counter, receiver
<1>2. /\ wire \in [Lanes -> Seq(Records)] /\ queue \in [Lanes -> Seq(Nat)]
      /\ wire[k] \in Seq(Records) /\ queue[k] \in Seq(Nat) /\ sealed \in [Lanes -> Nat]
  BY DEF CopyTypes
<1>3. rec \in Records /\ rec.seq = queue[k][1] /\ Tail(queue[k]) \in Seq(Nat)
  <2>1. Head(queue[k]) = queue[k][1] /\ queue[k][1] \in Nat /\ Tail(queue[k]) \in Seq(Nat)
    BY <1>1, <1>2
  <2> QED
    BY <1>2, <2>1 DEF Records
<1> HIDE DEF rec
<1>4. queue' \in [Lanes -> Seq(Nat)]
  BY <1>1, <1>2, <1>3
<1>5. wire' \in [Lanes -> Seq(Records)]
  <2>1. Append(wire[k], rec) \in Seq(Records)
    BY <1>2, <1>3
  <2> QED
    BY <1>1, <1>2, <2>1
<1>6. sealed' \in [Lanes -> Nat]
  BY <1>1, <1>2
<1>7. CopyTypes'
  BY <1>1, <1>4, <1>5, <1>6 DEF CopyTypes
<1>8. ASSUME NEW l \in Lanes
      PROVE  OnWay(l)' = OnWay(l) /\ \A i \in 1..OnWay(l) : Nth(l, i)' = Nth(l, i)
  <2>1. CASE l # k
    BY <1>1, <1>2, <2>1 DEF OnWay, Nth
  <2>2. CASE l = k
    <3>1. queue'[k] = Tail(queue[k]) /\ wire'[k] = Append(wire[k], rec)
      BY <1>1, <1>2
    <3>2. /\ Len(queue[k]) \in Nat \ {0} /\ Len(queue'[k]) = Len(queue[k]) - 1
          /\ \A i \in 1..(Len(queue[k]) - 1) : queue'[k][i] = queue[k][i + 1]
      BY <1>1, <1>2, <3>1
    <3>3. /\ Len(wire[k]) \in Nat /\ Len(wire'[k]) = Len(wire[k]) + 1
          /\ wire'[k][Len(wire[k]) + 1] = rec
          /\ \A i \in 1..Len(wire[k]) : wire'[k][i] = wire[k][i]
      BY <1>2, <3>1
    <3>4. OnWay(k)' = OnWay(k)
      <4>1. OnWay(k)' = Len(wire'[k]) + Len(queue'[k]) /\ OnWay(k) = Len(wire[k]) + Len(queue[k])
        BY DEF OnWay
      <4> HIDE DEF CopyIInv
      <4> QED
        BY <1>2, <1>4, <1>5, <3>2, <3>3, <4>1
    <3>5. ASSUME NEW i \in 1..OnWay(k) PROVE Nth(k, i)' = Nth(k, i)
      <4>1. i \in 1..(Len(wire[k]) + Len(queue[k]))
        BY DEF OnWay
      <4>2. CASE i <= Len(wire[k])
        BY <3>3, <4>1, <4>2 DEF Nth
      <4>3. CASE i = Len(wire[k]) + 1
        <5>1. Nth(k, i)' = rec.seq
          BY <3>3, <4>3 DEF Nth
        <5>2. Nth(k, i) = queue[k][1]
          BY <3>3, <4>3 DEF Nth
        <5> QED
          BY <1>3, <5>1, <5>2
      <4>4. CASE i > Len(wire[k]) + 1
        <5>1. Nth(k, i)' = queue'[k][i - (Len(wire[k]) + 1)]
          BY <3>3, <4>1, <4>4 DEF Nth
        <5>2. Nth(k, i) = queue[k][i - Len(wire[k])]
          BY <3>3, <4>1, <4>4 DEF Nth
        <5>3. i - (Len(wire[k]) + 1) \in 1..(Len(queue[k]) - 1)
          <6> HIDE DEF CopyIInv
          <6>1. Len(wire[k]) \in Nat /\ Len(queue[k]) \in Nat \ {0}
            BY <3>2, <3>3
          <6> QED
            BY <1>2, <4>1, <4>4, <6>1
        <5>4. (i - (Len(wire[k]) + 1)) + 1 = i - Len(wire[k])
          BY <3>3, <4>1
        <5> QED
          BY <3>2, <5>1, <5>2, <5>3, <5>4
      <4> QED
        BY <3>3, <4>1, <4>2, <4>3, <4>4
    <3> QED
      BY <2>2, <3>4, <3>5
  <2> QED
    BY <2>1, <2>2
<1>9. \A s : Outstanding(s)' <=> Outstanding(s)
  BY <1>1 DEF Outstanding
<1>10. LanesOutstanding' /\ LanesApart'
  BY <1>8, <1>9 DEF LanesOutstanding, LanesApart
<1>11. TakenOutstanding' /\ TakenApart'
  BY <1>1, <1>8, <1>9 DEF TakenOutstanding, TakenApart
<1> QED
  BY <1>1, <1>7, <1>10, <1>11 DEF HeldAhead, InOrder

\* What is read is the first of its connection; the others move up.
LEMMA ReadMovesUp ==
  ASSUME CopyTypes, NEW k \in Lanes, wire[k] # <<>>, queue' = queue,
         wire' = [wire EXCEPT ![k] = Tail(wire[k])]
  PROVE  /\ wire' \in [Lanes -> Seq(Records)]
         /\ 1 \in 1..OnWay(k) /\ Head(wire[k]).seq = Nth(k, 1)
         /\ \A l \in Lanes : \A i \in 1..OnWay(l)' :
              LET j == IF l = k THEN i + 1 ELSE i
              IN  i \in Nat /\ j \in 1..OnWay(l) /\ Nth(l, i)' = Nth(l, j)
<1>1. /\ wire \in [Lanes -> Seq(Records)] /\ queue \in [Lanes -> Seq(Nat)]
      /\ wire[k] \in Seq(Records) /\ queue[k] \in Seq(Nat)
  BY DEF CopyTypes
<1>2. PICK x \in Nat \ {0}, y \in Nat : x = Len(wire[k]) /\ y = Len(queue[k])
  BY <1>1
<1>3. /\ Tail(wire[k]) \in Seq(Records) /\ Len(Tail(wire[k])) = x - 1
      /\ \A i \in 1..(x - 1) : Tail(wire[k])[i] = wire[k][i + 1]
  BY <1>1, <1>2
<1>4. wire' \in [Lanes -> Seq(Records)] /\ wire'[k] = Tail(wire[k]) /\ Len(wire'[k]) = x - 1
  BY <1>1, <1>3
<1>5. OnWay(k) = x + y /\ OnWay(k)' = (x - 1) + y
  BY <1>2, <1>4, Zenon DEF OnWay
<1>6. 1 \in 1..OnWay(k) /\ Head(wire[k]).seq = Nth(k, 1)
  BY <1>1, <1>2, <1>5 DEF Nth
<1>7. ASSUME NEW i \in 1..OnWay(k)'
      PROVE  i \in Nat /\ i + 1 \in 1..OnWay(k) /\ Nth(k, i)' = Nth(k, i + 1)
  <2>1. i \in 1..((x - 1) + y) /\ i \in Nat /\ i + 1 \in 1..OnWay(k)
    BY <1>5
  <2>2. CASE i <= x - 1
    <3>1. i \in 1..(x - 1) /\ i + 1 <= x
      BY <2>1, <2>2
    <3>2. Nth(k, i)' = wire'[k][i].seq
      BY <1>4, <2>2 DEF Nth
    <3>3. Nth(k, i + 1) = wire[k][i + 1].seq
      BY <1>2, <3>1 DEF Nth
    <3> QED
      BY <1>3, <1>4, <2>1, <3>1, <3>2, <3>3, Zenon
  <2>3. CASE ~(i <= x - 1)
    <3>1. ~(i + 1 <= x) /\ i - (x - 1) = (i + 1) - x
      BY <2>1, <2>3
    <3>2. Nth(k, i)' = queue'[k][i - (x - 1)]
      BY <1>4, <2>3, Zenon DEF Nth
    <3>3. Nth(k, i + 1) = queue[k][(i + 1) - x]
      BY <1>2, <3>1, Zenon DEF Nth
    <3> QED
      BY <2>1, <3>1, <3>2, <3>3, Zenon
  <2> QED
    BY <2>2, <2>3
<1>8. ASSUME NEW l \in Lanes, l # k, NEW i \in 1..OnWay(l)'
      PROVE  i \in Nat /\ i \in 1..OnWay(l) /\ Nth(l, i)' = Nth(l, i)
  <2>1. wire'[l] = wire[l] /\ queue'[l] = queue[l]
    BY <1>1, <1>8
  <2>2. OnWay(l)' = OnWay(l) /\ Nth(l, i)' = Nth(l, i)
    BY <2>1, NthSame, Zenon
  <2> QED
    BY <2>2, NthTyped
<1> QED
  BY <1>4, <1>6, <1>7, <1>8

\* Also with the last record of a broken connection gone, the others keep
\* their order.
LEMMA LoseMovesUp ==
  ASSUME CopyTypes, NEW k \in Lanes, wire[k] # <<>>, queue' = queue,
         wire' = [wire EXCEPT ![k] = Front(wire[k])]
  PROVE  /\ wire' \in [Lanes -> Seq(Records)]
         /\ \A l \in Lanes : \A i \in 1..OnWay(l)' :
              LET j == IF l = k /\ i >= Len(wire[k]) THEN i + 1 ELSE i
              IN  i \in Nat /\ j \in 1..OnWay(l) /\ Nth(l, i)' = Nth(l, j)
<1>1. /\ wire \in [Lanes -> Seq(Records)] /\ queue \in [Lanes -> Seq(Nat)]
      /\ wire[k] \in Seq(Records) /\ queue[k] \in Seq(Nat)
  BY DEF CopyTypes
<1>2. PICK x \in Nat \ {0}, y \in Nat : x = Len(wire[k]) /\ y = Len(queue[k])
  BY <1>1
<1>3. /\ Front(wire[k]) \in Seq(Records) /\ Len(Front(wire[k])) = x - 1
      /\ \A i \in 1..(x - 1) : Front(wire[k])[i] = wire[k][i]
  BY <1>1, <1>2 DEF Front
<1>4. wire' \in [Lanes -> Seq(Records)] /\ wire'[k] = Front(wire[k]) /\ Len(wire'[k]) = x - 1
  BY <1>1, <1>3
<1>5. OnWay(k) = x + y /\ OnWay(k)' = (x - 1) + y
  BY <1>2, <1>4, Zenon DEF OnWay
<1>6. ASSUME NEW i \in 1..OnWay(k)', ~(i >= x)
      PROVE  i \in Nat /\ i \in 1..OnWay(k) /\ Nth(k, i)' = Nth(k, i)
  <2>1. i \in Nat /\ i \in 1..OnWay(k) /\ i <= x - 1 /\ i <= x /\ i \in 1..(x - 1)
    BY <1>5, <1>6
  <2>2. Nth(k, i)' = wire'[k][i].seq
    BY <1>4, <2>1, Zenon DEF Nth
  <2>3. Nth(k, i) = wire[k][i].seq
    BY <1>2, <2>1, Zenon DEF Nth
  <2> QED
    BY <1>3, <1>4, <2>1, <2>2, <2>3, Zenon
<1>7. ASSUME NEW i \in 1..OnWay(k)', i >= x
      PROVE  i \in Nat /\ i + 1 \in 1..OnWay(k) /\ Nth(k, i)' = Nth(k, i + 1)
  <2>1. i \in Nat /\ i + 1 \in 1..OnWay(k) /\ ~(i <= x - 1) /\ ~(i + 1 <= x)
    BY <1>5, <1>7
  <2>2. i - (x - 1) = (i + 1) - x
    BY <2>1
  <2>3. Nth(k, i)' = queue'[k][i - (x - 1)]
    BY <1>4, <2>1, Zenon DEF Nth
  <2>4. Nth(k, i + 1) = queue[k][(i + 1) - x]
    BY <1>2, <2>1, Zenon DEF Nth
  <2> QED
    BY <2>1, <2>2, <2>3, <2>4, Zenon
<1>8. ASSUME NEW l \in Lanes, l # k, NEW i \in 1..OnWay(l)'
      PROVE  i \in Nat /\ i \in 1..OnWay(l) /\ Nth(l, i)' = Nth(l, i)
  <2>1. wire'[l] = wire[l] /\ queue'[l] = queue[l]
    BY <1>1, <1>8
  <2>2. OnWay(l)' = OnWay(l) /\ Nth(l, i)' = Nth(l, i)
    BY <2>1, NthSame, Zenon
  <2> QED
    BY <2>2, NthTyped
<1>9. ASSUME NEW l \in Lanes, NEW i \in 1..OnWay(l)'
      PROVE  LET j == IF l = k /\ i >= Len(wire[k]) THEN i + 1 ELSE i
             IN  i \in Nat /\ j \in 1..OnWay(l) /\ Nth(l, i)' = Nth(l, j)
  <2>1. CASE l # k
    BY <1>8, <2>1
  <2>2. CASE l = k /\ i >= x
    BY <1>2, <1>7, <2>2, Zenon
  <2>3. CASE l = k /\ ~(i >= x)
    BY <1>2, <1>6, <2>3, Zenon
  <2> QED
    BY <2>1, <2>2, <2>3
<1> QED
  BY <1>4, <1>9

\* A reader hands on what has no hole before it: the numbers up to the first
\* one missing, and no other.
LEMMA ReadKeeps ==
  ASSUME CopyIInv, NEW k \in Lanes, Read(k)
  PROVE  CopyIInv'
<1> USE DEF CopyIInv
<1>0. PICK g : g = Head(wire[k]).seq
  OBVIOUS
<1>1. /\ next_record' = next_record /\ taken' = taken /\ queue' = queue /\ sealed' = sealed
      /\ wire[k] # <<>> /\ wire' = [wire EXCEPT ![k] = Tail(wire[k])]
  BY DEF Read, sender
<1>2. /\ next_record \in Nat /\ next \in Nat /\ held \subseteq Nat
      /\ taken \in [Threads -> Nat \union {None}]
  BY DEF CopyTypes
<1>3. /\ wire' \in [Lanes -> Seq(Records)]
      /\ 1 \in 1..OnWay(k) /\ g = Nth(k, 1)
      /\ \A l \in Lanes : \A i \in 1..OnWay(l)' :
           LET j == IF l = k THEN i + 1 ELSE i
           IN  i \in Nat /\ j \in 1..OnWay(l) /\ Nth(l, i)' = Nth(l, j)
  BY <1>0, <1>1, ReadMovesUp
<1>4. g \in Nat /\ Outstanding(g)
  BY <1>3, NthTyped DEF LanesOutstanding
<1>5. \A l \in Lanes : \A i \in 1..OnWay(l)' :
        \E j \in 1..OnWay(l) : Nth(l, i)' = Nth(l, j) /\ Nth(l, j) # g
  <2> SUFFICES ASSUME NEW l \in Lanes, NEW i \in 1..OnWay(l)'
               PROVE  \E j \in 1..OnWay(l) : Nth(l, i)' = Nth(l, j) /\ Nth(l, j) # g
    OBVIOUS
  <2>1. CASE l = k
    <3>1. i \in Nat /\ i + 1 \in 1..OnWay(k) /\ Nth(k, i)' = Nth(k, i + 1)
      BY <1>3, <2>1
    <3>2. i # 0
      BY NthTyped, <2>1
    <3>3. i + 1 # 1
      BY <3>1, <3>2
    <3>4. Nth(k, i + 1) # g
      BY <1>3, <3>1, <3>3 DEF LanesApart
    <3> QED
      BY <2>1, <3>1, <3>4
  <2>2. CASE l # k
    <3>1. i \in 1..OnWay(l) /\ Nth(l, i)' = Nth(l, i)
      BY <1>3, <2>2
    <3>2. Nth(l, i) # g
      BY <1>3, <2>2, <3>1 DEF LanesApart
    <3> QED
      BY <3>1, <3>2
  <2> QED
    BY <2>1, <2>2
<1>6. LanesApart'
  <2> SUFFICES ASSUME NEW l \in Lanes, NEW r \in Lanes, NEW i \in 1..OnWay(l)',
                      NEW j \in 1..OnWay(r)', Nth(l, i)' = Nth(r, j)'
               PROVE  l = r /\ i = j
    BY DEF LanesApart
  <2>1. l = r
    BY <1>3 DEF LanesApart
  <2>2. i \in Nat /\ j \in Nat
    BY <1>3
  <2>3. CASE l = k
    <3>1. i + 1 \in 1..OnWay(k) /\ j + 1 \in 1..OnWay(k) /\ Nth(k, i + 1) = Nth(k, j + 1)
      BY <1>3, <2>1, <2>3
    <3>2. i + 1 = j + 1
      BY <3>1 DEF LanesApart
    <3> QED
      BY <2>1, <2>2, <3>2
  <2>4. CASE l # k
    BY <1>3, <2>1, <2>4 DEF LanesApart
  <2> QED
    BY <2>3, <2>4
<1>7. TakenApart'
  BY <1>1, <1>5 DEF TakenApart
<1>8. ASSUME /\ next' \in Nat /\ held' \subseteq Nat /\ HeldAhead' /\ next' <= next_record
             /\ InOrder' /\ \A s \in Nat : Outstanding(s) /\ s # g => Outstanding(s)'
      PROVE  CopyIInv'
  <2>1. CopyTypes'
    BY <1>1, <1>3, <1>8 DEF CopyTypes
  <2>2. LanesOutstanding'
    <3> SUFFICES ASSUME NEW l \in Lanes, NEW i \in 1..OnWay(l)' PROVE Outstanding(Nth(l, i))'
      BY DEF LanesOutstanding
    <3>1. PICK j \in 1..OnWay(l) : Nth(l, i)' = Nth(l, j) /\ Nth(l, j) # g
      BY <1>5
    <3>2. PICK s : s = Nth(l, j)
      OBVIOUS
    <3>3. s \in Nat /\ Outstanding(s) /\ s # g
      BY <3>1, <3>2, NthTyped DEF LanesOutstanding
    <3>4. Outstanding(s)' /\ s = Nth(l, i)'
      BY <1>8, <3>1, <3>2, <3>3
    <3> QED
      BY <3>4 DEF Outstanding
  <2>3. TakenOutstanding'
    <3> SUFFICES ASSUME NEW t \in Threads, taken[t] # None
                 PROVE  next' <= taken[t] /\ taken[t] < next_record' /\ taken[t] \notin held'
      BY <1>1 DEF TakenOutstanding, Outstanding
    <3>1. taken[t] \in Nat /\ Outstanding(taken[t])
      BY <1>2 DEF TakenOutstanding
    <3>2. taken[t] # g
      BY <1>3 DEF TakenApart
    <3> QED
      BY <1>8, <3>1, <3>2 DEF Outstanding
  <2> QED
    BY <1>1, <1>6, <1>7, <1>8, <2>1, <2>2, <2>3
<1>9. CASE Head(wire[k]).nonce # opened[k]
  <2>1. next' = next /\ held' = held /\ sunk' = sunk
    BY <1>9 DEF Read
  <2> QED
    BY <1>1, <1>2, <1>8, <2>1 DEF HeldAhead, InOrder, Outstanding
<1>10. CASE Head(wire[k]).nonce = opened[k]
  <2> DEFINE all == held \union {g}
             due == Drain(next, all)
  <2>1. held' = all \ due /\ next' = next + Cardinality(due) /\ sunk' = sunk \o Ascending(due)
    BY <1>0, <1>10 DEF Read
  <2>2. all \in SUBSET Nat /\ \A s \in all : next <= s /\ s < next_record
    BY <1>2, <1>4 DEF HeldAhead, Outstanding
  <2> HIDE DEF all, due
  <2>3. PICK m \in Nat : next <= m /\ m <= next_record /\ due = next..(m - 1) /\ m \notin all
    BY <1>2, <2>2, DrainIsInterval DEF due
  <2>4. Cardinality(due) = m - next /\ Ascending(due) = [i \in 1..(m - next) |-> next + i - 1]
    BY <1>2, <2>3, AscendingInterval
  <2>5. next' = m
    BY <1>2, <2>1, <2>4
  <2>6. InOrder'
    <3>1. sunk = [i \in 1..next |-> i - 1]
      BY DEF InOrder
    <3>2. sunk' = [i \in 1..next |-> i - 1] \o [i \in 1..(m - next) |-> next + i - 1]
      BY <2>1, <2>4, <3>1
    <3>3. sunk' = [i \in 1..m |-> i - 1] /\ Len(sunk') = m
      BY <1>2, <2>3, <3>2, RunsOn
    <3> QED
      BY <2>5, <3>3 DEF InOrder
  <2>7. \A s \in held' : s \in Nat /\ m <= s /\ s < next_record
    <3>1. \A s \in held' : s \in all /\ s \notin next..(m - 1)
      BY <2>1, <2>3
    <3>2. \A s \in all : s \in Nat
      BY <2>2
    <3>3. ASSUME NEW s \in Nat, next <= s, s \notin next..(m - 1) PROVE m <= s
      BY <1>2, <3>3
    <3> QED
      BY <2>2, <3>1, <3>2, <3>3, Zenon
  <2>8. ASSUME NEW s \in Nat, Outstanding(s), s # g PROVE Outstanding(s)'
    <3>1. next <= s /\ s < next_record /\ s \notin held
      BY <2>8 DEF Outstanding
    <3>2. s \notin all /\ s \notin held'
      BY <2>1, <2>8, <3>1 DEF all
    <3>3. s \notin due
      BY <3>2 DEF due, Drain
    <3>4. m <= s
      BY <1>2, <2>3, <3>1, <3>3
    <3> QED
      BY <1>1, <2>5, <3>1, <3>2, <3>4 DEF Outstanding
  <2>9. HeldAhead' /\ held' \subseteq Nat
    BY <1>1, <2>5, <2>7 DEF HeldAhead
  <2> QED
    BY <1>8, <2>3, <2>5, <2>6, <2>8, <2>9
<1> QED
  BY <1>9, <1>10

LEMMA LoseRestKeeps ==
  ASSUME CopyIInv, NEW k \in Lanes, LoseRest(k)
  PROVE  CopyIInv'
<1> USE DEF CopyIInv
<1>1. /\ next_record' = next_record /\ taken' = taken /\ queue' = queue /\ sealed' = sealed
      /\ next' = next /\ held' = held /\ sunk' = sunk
      /\ wire[k] # <<>> /\ wire' = [wire EXCEPT ![k] = Front(wire[k])]
  BY DEF LoseRest, sender, receiver
<1>2. /\ wire' \in [Lanes -> Seq(Records)]
      /\ \A l \in Lanes : \A i \in 1..OnWay(l)' :
           LET j == IF l = k /\ i >= Len(wire[k]) THEN i + 1 ELSE i
           IN  i \in Nat /\ j \in 1..OnWay(l) /\ Nth(l, i)' = Nth(l, j)
  BY <1>1, LoseMovesUp
<1>3. CopyTypes'
  BY <1>1, <1>2 DEF CopyTypes
<1>4. \A s : Outstanding(s)' <=> Outstanding(s)
  BY <1>1 DEF Outstanding
<1>5. LanesOutstanding'
  BY <1>2, <1>4 DEF LanesOutstanding
<1>6. LanesApart'
  <2> SUFFICES ASSUME NEW l \in Lanes, NEW r \in Lanes, NEW i \in 1..OnWay(l)',
                      NEW j \in 1..OnWay(r)', Nth(l, i)' = Nth(r, j)'
               PROVE  l = r /\ i = j
    BY DEF LanesApart
  <2> DEFINE a == IF l = k /\ i >= Len(wire[k]) THEN i + 1 ELSE i
             b == IF r = k /\ j >= Len(wire[k]) THEN j + 1 ELSE j
  <2>1. /\ i \in Nat /\ j \in Nat /\ a \in 1..OnWay(l) /\ b \in 1..OnWay(r)
        /\ Nth(l, i)' = Nth(l, a) /\ Nth(r, j)' = Nth(r, b)
    BY <1>2
  <2> HIDE DEF a, b
  <2>2. l = r /\ a = b
    BY <2>1 DEF LanesApart
  <2>3. PICK x \in Nat : x = Len(wire[k])
    BY DEF CopyTypes
  <2>4. CASE l = k
    <3>1. a = (IF i >= x THEN i + 1 ELSE i) /\ b = (IF j >= x THEN j + 1 ELSE j)
      BY <2>2, <2>3, <2>4 DEF a, b
    <3>2. i = j
      <4>1. i \in Nat /\ j \in Nat
        BY <2>1
      <4>2. (IF i >= x THEN i + 1 ELSE i) = (IF j >= x THEN j + 1 ELSE j)
        BY <2>2, <3>1
      <4> QED
        BY <4>1, <4>2
    <3> QED
      BY <2>2, <3>2
  <2>5. CASE l # k
    BY <2>2, <2>5 DEF a, b
  <2> QED
    BY <2>4, <2>5
<1>7. TakenOutstanding' /\ TakenApart'
  BY <1>1, <1>2, <1>4 DEF TakenOutstanding, TakenApart
<1> QED
  BY <1>1, <1>3, <1>5, <1>6, <1>7 DEF HeldAhead, InOrder

\* What reaches the clipboard from a copy stream (Reorder in hyper_tcp.rs) is
\* the records in the order they were numbered, without a hole, over any number
\* of connections, with any number of senders, also when the stream breaks.
THEOREM CopyAlwaysInOrder == Spec => []InOrder
<1>1. CopyIInv /\ [Next]_vars => CopyIInv'
  <2> SUFFICES ASSUME CopyIInv, [Next]_vars PROVE CopyIInv'
    OBVIOUS
  <2>1. ASSUME NEW t \in Threads, TakeNumber(t) \/ Enqueue(t) PROVE CopyIInv'
    BY <2>1, TakeNumberKeeps, EnqueueKeeps
  <2>2. ASSUME NEW l \in Lanes, Write(l) \/ Read(l) \/ LoseRest(l) PROVE CopyIInv'
    BY <2>2, WriteKeeps, ReadKeeps, LoseRestKeeps
  <2>3. CASE BreakAtSender \/ BreakAtReceiver \/ UNCHANGED vars
    <3>1. UNCHANGED <<next_record, taken, queue, wire, sealed, next, held, sunk>>
      BY <2>3 DEF BreakAtSender, BreakAtReceiver, vars, sender, receiver
    <3>2. \A l, i : OnWay(l)' = OnWay(l) /\ Nth(l, i)' = Nth(l, i)
      BY <3>1 DEF OnWay, Nth
    <3>3. \A s : Outstanding(s)' <=> Outstanding(s)
      BY <3>1 DEF Outstanding
    <3>4. LanesOutstanding' /\ LanesApart' /\ TakenOutstanding' /\ TakenApart'
      BY <3>1, <3>2, <3>3
         DEF CopyIInv, LanesOutstanding, LanesApart, TakenOutstanding, TakenApart
    <3> QED
      BY <3>1, <3>4 DEF CopyIInv, CopyTypes, HeldAhead, InOrder
  <2> QED
    BY <2>1, <2>2, <2>3 DEF Next
<1>2. CopyIInv => InOrder
  BY DEF CopyIInv
<1> QED
  BY CopyInitHolds, <1>1, <1>2, PTL DEF Spec
=============================================================================
