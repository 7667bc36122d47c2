----------------------------- MODULE HostProofs -----------------------------
(***************************************************************************)
(* Proofs about two parts of the host.  CopySession: however many sessions *)
(* come and go, and however late the threads of old streams end them, a    *)
(* copy stream that works is taken away only by the end of a session.      *)
(* Repair: with an encoder that holds nothing back, whatever is lost, late *)
(* or restarted, no frame is decoded without the pictures it was coded     *)
(* from; RepairIInv is the inductive invariant.                            *)
(***************************************************************************)
EXTENDS CopySession, Repair, WellFoundedInduction, TLAPS

\* A stream about to look at CURRENT in BulkTcp::end was marked dead first.
EndsDeadFirst == leaving \subseteq dead

\* The initial state.
LEMMA InitEndsDeadFirst == Init => EndsDeadFirst
  BY DEF Init, EndsDeadFirst

\* Every step keeps it.
LEMMA NextEndsDeadFirst == EndsDeadFirst /\ [Next]_vars => EndsDeadFirst'
<1> SUFFICES ASSUME EndsDeadFirst, [Next]_vars PROVE EndsDeadFirst'
  OBVIOUS
<1> USE DEF EndsDeadFirst
<1>1. ASSUME NEW s \in Sessions,
             Connect(s) \/ LookAtSession(s) \/ GiveUp(s) \/ Start(s) \/ Register(s)
      PROVE  EndsDeadFirst'
  BY <1>1 DEF Connect, LookAtSession, GiveUp, Start, Register
<1>2. ASSUME NEW s \in Sessions, Break(s) PROVE EndsDeadFirst'
  BY <1>2 DEF Break
<1>3. ASSUME NEW s \in Sessions, Leave(s) PROVE EndsDeadFirst'
  BY <1>3 DEF Leave
<1>4. CASE EndSession
  BY <1>4 DEF EndSession
<1>5. CASE TakeCurrent
  BY <1>5 DEF TakeCurrent
<1>6. CASE UNCHANGED vars
  BY <1>6 DEF vars
<1> QED
  BY <1>1, <1>2, <1>3, <1>4, <1>5, <1>6 DEF Next

\* The step EndsOnlyItself allows, for every action: only TakeCurrent, which
\* needs ending, takes a stream away that is not dead.
LEMMA StepEndsOnlyItself ==
  ASSUME EndsDeadFirst, [Next]_vars, Current # NoStream, CURRENT' = NoStream
  PROVE  ending
<1>1. CURRENT # NoStream /\ CURRENT \notin dead
  BY DEF Current
<1>2. ASSUME NEW s \in Sessions,
             Connect(s) \/ LookAtSession(s) \/ GiveUp(s) \/ Start(s) \/ Break(s)
      PROVE  ending
  BY <1>1, <1>2 DEF Connect, LookAtSession, GiveUp, Start, Break
<1>3. ASSUME NEW s \in Sessions, Register(s) PROVE ending
  BY <1>3, CopySessionAssumption DEF Register, Sessions, NoStream
<1>4. ASSUME NEW s \in Sessions, Leave(s) PROVE ending
  <2>1. s \in dead
    BY <1>4 DEF Leave, EndsDeadFirst
  <2>2. Unregister(s) = NoStream
    BY <1>4 DEF Leave
  <2> QED
    BY <1>1, <2>1, <2>2 DEF Unregister
<1>5. CASE EndSession
  BY <1>1, <1>5 DEF EndSession
<1>6. CASE TakeCurrent
  BY <1>6 DEF TakeCurrent
<1>7. CASE UNCHANGED vars
  BY <1>1, <1>7 DEF vars
<1> QED
  BY <1>2, <1>3, <1>4, <1>5, <1>6, <1>7 DEF Next

\* The late end of an older stream (BulkTcp::end) never takes a working one
\* away, for any number of sessions.
THEOREM OnlyItself == Spec => EndsOnlyItself
<1>1. EndsDeadFirst /\ [Next]_vars => (Current # NoStream /\ CURRENT' = NoStream => ending)
  BY StepEndsOnlyItself
<1> QED
  BY <1>1, InitEndsDeadFirst, NextEndsDeadFirst, PTL DEF Spec, EndsOnlyItself
-----------------------------------------------------------------------------
(* Loss repair, with an encoder that holds nothing back (HELD = 0): every  *)
(* picture is the frame of its number.                                     *)

Picture == [input : Nat, key : BOOLEAN, mark : Slots \union {NoSlot}, from : Slots \union {Prev}, src : Nat]
Frame == [id : Nat, pic : Picture, ltr : BOOLEAN, recovery : BOOLEAN]
LtrType == [slots : [Slots -> [frame : Nat, acked : BOOLEAN]], next_slot : Slots,
            marking : SUBSET (Nat \X Slots), repairing : Nat, repairs : Nat, repaired : Nat]
RefsType == [Slots \union {Prev} -> Nat]

RepairTypeOK ==
  /\ ltr \in LtrType /\ keyframe \in BOOLEAN /\ recover \in BOOLEAN /\ ltr_acked \in Nat
  /\ inputs \in Nat /\ frame_id \in Nat /\ enc \in RefsType
  /\ path \in Seq(Frame) /\ reports \in SUBSET Nat
  /\ expect \in Nat /\ awaiting_key \in BOOLEAN /\ can_repair \in BOOLEAN
  /\ ltr_decoded \in Nat /\ dec \in RefsType /\ sound \in BOOLEAN

OnPath == {path[i] : i \in DOMAIN path}

\* Nothing is held back: the host's two counts go together, and Ltr waits for
\* no picture.
InStep ==
  /\ held = <<>> /\ frame_id = inputs + 1
  /\ ltr.marking = {} /\ ltr.repairing = None
  /\ enc[Prev] \in {None, inputs}

\* Frames are on the path in the order of their numbers, from the one the
\* client expects on.
PathInOrder ==
  /\ expect \in 1..frame_id
  /\ \A f \in OnPath : f.id \in expect..inputs /\ f.pic.input = f.id
  /\ \A i, j \in DOMAIN path : i < j => path[i].id < path[j].id

\* A keyframe, a repair or a frame coded from the one before.
PlainFrom(f) == f.pic.from = Prev /\ f.pic.src = f.id - 1
FramesSorted ==
  \A f \in OnPath :
    /\ f.ltr = (f.pic.mark # NoSlot)
    /\ f.pic.key => ~f.ltr /\ ~f.recovery
    /\ ~f.pic.key => f.recovery \/ PlainFrom(f)

\* Frame f leaves slot s as the client has it.
Spares(f, s) == ~f.pic.key /\ f.pic.mark # s

\* The client decoded picture x and, unless it then lost its decoder, has it
\* in slot s.
ClientHas(s, x) == x < expect /\ (can_repair => dec[s] = x)

\* The client said, or may yet say, that it decoded kept frame x.
Told(x) == x \in reports \union {ltr_acked, ltr_decoded}

\* What Ltr says a slot keeps, the encoder keeps, no frame since it changes,
\* and, once told decoded, the client has.
SlotSound(s, x) ==
  /\ x <= inputs /\ enc[s] = x
  /\ \A f \in OnPath : (f.id > x => Spares(f, s)) /\ (f.id = x => ~f.pic.key /\ f.pic.mark = s)
  /\ ltr.slots[s].acked \/ Told(x) => ClientHas(s, x)
SlotsSound ==
  \A s \in Slots : /\ ltr.slots[s].frame # None => SlotSound(s, ltr.slots[s].frame)
                   /\ ltr.slots[s].acked => ltr.slots[s].frame # None

\* A repair on its way is coded from a picture that the client has in that
\* slot when it gets there.
RepairsSound ==
  \A f \in OnPath : f.recovery =>
    /\ f.pic.from \in Slots /\ f.pic.src # None /\ ClientHas(f.pic.from, f.pic.src)
    /\ \A g \in OnPath : g.id < f.id => Spares(g, f.pic.from)

\* While it waits for no keyframe the client has the frame before.
Following ==
  /\ ~awaiting_key => can_repair /\ dec[Prev] = expect - 1
  /\ \A x \in Nat : Told(x) => x < expect

RepairIInv ==
  /\ RepairTypeOK /\ InStep /\ PathInOrder /\ FramesSorted /\ SlotsSound /\ RepairsSound
  /\ Following /\ PictureSound

\* The initial state.
LEMMA RepairInitIInv == RepairInit => RepairIInv
<1> SUFFICES ASSUME RepairInit PROVE RepairIInv
  OBVIOUS
<1>1. Slots \subseteq Nat /\ 0 \in Slots /\ Prev \in Nat /\ Prev \notin Slots
  BY RepairAssumption DEF Slots, Prev
<1>2. NoRefs \in RefsType /\ NoRefs[Prev] = None
  BY DEF NoRefs, RefsType, None
<1>3. NewLtr \in LtrType
  BY <1>1 DEF NewLtr, LtrType, NoFrame, None
<1>4. RepairTypeOK
  <2>1. <<>> \in Seq(Frame) /\ {} \in SUBSET Nat
    OBVIOUS
  <2> QED
    BY <1>2, <1>3, <2>1 DEF RepairInit, RepairTypeOK, None
<1>5. OnPath = {}
  BY DEF RepairInit, OnPath
<1>6. InStep
  BY <1>2 DEF RepairInit, InStep, NewLtr
<1>7. PathInOrder
  BY <1>5 DEF RepairInit, PathInOrder
<1>8. FramesSorted /\ RepairsSound
  BY <1>5 DEF FramesSorted, RepairsSound
<1>9. SlotsSound
  BY DEF RepairInit, SlotsSound, NewLtr, NoFrame
<1>10. Following /\ PictureSound
  BY DEF RepairInit, Following, Told, PictureSound, None
<1> QED
  BY <1>4, <1>6, <1>7, <1>8, <1>9, <1>10 DEF RepairIInv

\* One access unit is sent as one frame.
LEMMA SendAllOne == ASSUME NEW st, NEW p PROVE SendAll(st, <<p>>) = SendOne(st, p)
<1> DEFINE F(a) == [i \in 0..1 |-> IF i = 0 THEN st ELSE SendOne(a[i - 1], <<p>>[i])]
           g == [i \in 0..1 |-> IF i = 0 THEN st ELSE SendOne(st, p)]
           h == CHOOSE a : a = F(a)
<1>1. Len(<<p>>) = 1 /\ <<p>>[1] = p
  OBVIOUS
<1>2. g = F(g)
  <2>1. g[0] = st
    OBVIOUS
  <2>2. ASSUME NEW i \in 0..1 PROVE g[i] = F(g)[i]
    <3>1. CASE i = 0
      BY <3>1
    <3>2. CASE i = 1
      BY <3>2, <2>1, <1>1
    <3> QED
      BY <3>1, <3>2
  <2> QED
    BY <2>2
<1>3. h = F(h)
  BY <1>2, Zenon
<1> HIDE DEF h
<1>4. h[0] = st
  BY <1>3
<1>5. h[1] = SendOne(h[0], <<p>>[1])
  BY <1>3
<1>6. SendAll(st, <<p>>) = h[1]
  BY <1>1 DEF SendAll, h
<1> QED
  BY <1>1, <1>4, <1>5, <1>6

\* Encode with an encoder that holds nothing back.
Acknowledged == IF ltr_acked = None THEN ltr ELSE Acked(ltr, ltr_acked)
Planned(kept, due) == Plan(Acknowledged, inputs + 1, recover, keyframe, kept, due)

\* One picture in, one frame out.
LEMMA EncodeOne ==
  ASSUME HELD = 0, InStep, RepairTypeOK, NEW kept \in Nat, NEW due \in BOOLEAN, NEW own \in BOOLEAN,
         NEW n \in Nat, Encode(kept, due, own, n)
  PROVE  LET pic == Coded(Planned(kept, due).plan, own)
             s == Sent(Planned(kept, due).l, pic, frame_id)
         IN /\ ltr' = s.l /\ frame_id' = frame_id + 1 /\ path' = Append(path, s.frame)
            /\ held' = <<>> /\ enc' = After(enc, pic) /\ inputs' = inputs + 1
            /\ keyframe' = FALSE /\ recover' = FALSE
            /\ UNCHANGED <<ltr_acked, client, asks, reports>>
<1> DEFINE pic == Coded(Planned(kept, due).plan, own)
           st == [l |-> Planned(kept, due).l, id |-> frame_id, frames |-> <<>>]
           waiting == Append(held, pic)
           s == Sent(Planned(kept, due).l, pic, frame_id)
           out == SendAll(st, SubSeq(waiting, 1, n))
<1> HIDE DEF pic, st
<1>1. waiting = <<pic>>
  BY DEF InStep
<1>2. Len(<<pic>>) = 1 /\ <<pic>>[1] = pic
  OBVIOUS
<1>3. n <= Len(held) + 1 /\ Len(held) + 1 - n <= HELD
  BY DEF Encode
<1>4. n = 1
  BY <1>3 DEF InStep
<1>5. SubSeq(<<pic>>, 1, 1) = <<pic>> /\ SubSeq(<<pic>>, 2, 1) = <<>>
  <2>1. PICK q \in Seq({pic}) : q = <<pic>>
    <3>1. pic \in {pic}
      OBVIOUS
    <3>2. \A S, x : x \in S => <<x>> \in Seq(S)
      OBVIOUS
    <3> QED
      BY <3>1, <3>2, Zenon
  <2>2. Len(q) = 1 /\ q[1] = pic
    BY <2>1
  <2>3. SubSeq(q, 1, 1) = q /\ SubSeq(q, 2, 1) = <<>>
    BY <2>2
  <2> QED
    BY <2>1, <2>3
<1>6. out = SendOne(st, pic)
  BY <1>1, <1>4, <1>5, SendAllOne
<1>7. out.l = s.l /\ out.id = frame_id + 1 /\ out.frames = <<s.frame>>
  BY <1>6 DEF SendOne, st
<1>8. /\ ltr' = out.l /\ frame_id' = out.id /\ path' = path \o out.frames
      /\ held' = SubSeq(waiting, n + 1, Len(waiting))
      /\ enc' = After(enc, pic) /\ inputs' = inputs + 1
      /\ keyframe' = FALSE /\ recover' = FALSE
      /\ UNCHANGED <<ltr_acked, client, asks, reports>>
  BY DEF Encode, Acknowledged, Planned, pic, st
<1>9. path' = Append(path, s.frame)
  <2> HIDE DEF s, out
  <2> QED
    BY <1>7, <1>8 DEF RepairTypeOK
<1>10. held' = <<>>
  <2> HIDE DEF s, out
  <2>1. Len(waiting) = 1
    BY <1>1, <1>2
  <2> HIDE DEF waiting
  <2> QED
    BY <1>1, <1>4, <1>5, <1>8, <2>1
<1> HIDE DEF s, out
<1>11. ltr' = s.l /\ frame_id' = frame_id + 1
  BY <1>7, <1>8
<1> QED
  BY <1>8, <1>9, <1>10, <1>11 DEF pic, s

\* A non-empty set of naturals has a least element.
LEMMA LeastExists ==
  ASSUME NEW T \in SUBSET Nat, T # {}
  PROVE  \E x \in T : \A y \in T : x <= y
<1>1. IsWellFoundedOn(OpToRel(<, Nat), Nat)
  BY NatLessThanWellFounded
<1>2. \E x \in T : \A y \in T : ~ (<<y, x>> \in OpToRel(<, Nat))
  BY <1>1, WFMin
<1>3. ASSUME NEW x \in Nat, NEW y \in Nat, y < x PROVE <<y, x>> \in OpToRel(<, Nat)
  BY <1>3, Zenon DEF OpToRel
<1>4. PICK x \in T : \A y \in T : ~ (<<y, x>> \in OpToRel(<, Nat))
  BY <1>2
<1>5. \A y \in T : ~ (y < x)
  BY <1>3, <1>4, Zenon
<1> QED
  BY <1>5

\* Ltr::acked marks the slots that keep the frame told decoded.
LEMMA AcknowledgedFacts ==
  ASSUME RepairIInv
  PROVE  /\ Acknowledged \in LtrType /\ Acknowledged.marking = {} /\ Acknowledged.repairing = None
         /\ \A s \in Slots : /\ Acknowledged.slots[s].frame = ltr.slots[s].frame
                             /\ Acknowledged.slots[s].acked =>
                                  /\ ltr.slots[s].acked \/ Told(ltr.slots[s].frame)
                                  /\ ltr.slots[s].frame # None
<1>0. ltr \in LtrType /\ ltr_acked \in Nat /\ ltr.marking = {} /\ ltr.repairing = None
  BY DEF RepairIInv, RepairTypeOK, InStep
<1>1. \A s \in Slots : ltr.slots[s].acked => ltr.slots[s].frame # None
  BY DEF RepairIInv, SlotsSound
<1>2. CASE ltr_acked = None
  BY <1>0, <1>1, <1>2 DEF Acknowledged
<1>3. CASE ltr_acked # None
  <2> DEFINE A == [s \in Slots |-> IF ltr.slots[s].frame = ltr_acked THEN [ltr.slots[s] EXCEPT !.acked = TRUE]
                                   ELSE ltr.slots[s]]
  <2>1. A \in [Slots -> [frame : Nat, acked : BOOLEAN]]
    BY <1>0 DEF LtrType
  <2>2. \A s \in Slots : A[s].frame = ltr.slots[s].frame
    BY <1>0 DEF LtrType
  <2>3. \A s \in Slots : A[s].acked => ltr.slots[s].acked \/ ltr.slots[s].frame = ltr_acked
    BY <1>0 DEF LtrType
  <2> HIDE DEF A
  <2>4. /\ Acknowledged.slots = A /\ Acknowledged.marking = {} /\ Acknowledged.repairing = None
        /\ Acknowledged \in LtrType
    BY <1>0, <1>3, <2>1 DEF Acknowledged, Acked, LtrType, A, None
  <2>5. Told(ltr_acked)
    BY DEF Told
  <2> QED
    BY <1>1, <1>3, <2>2, <2>3, <2>4, <2>5
<1> QED
  BY <1>2, <1>3

\* Of the confirmed slots one has the Newest(l) frame.
LEMMA NewestConfirmed ==
  ASSUME NEW l \in LtrType, Confirmed(l) # {}, NEW b \in Nat,
         \A s \in Slots : l.slots[s].frame <= b
  PROVE  \E s \in Confirmed(l) : \A t \in Confirmed(l) : l.slots[t].frame <= l.slots[s].frame
<1> DEFINE T == {b - l.slots[s].frame : s \in Confirmed(l)}
<1>1. \A s \in Confirmed(l) : l.slots[s].frame \in Nat /\ l.slots[s].frame <= b
  BY DEF Confirmed, LtrType
<1>2. T \in SUBSET Nat /\ T # {}
  BY <1>1
<1>3. PICK x \in T : \A y \in T : x <= y
  BY <1>2, LeastExists
<1>4. PICK s \in Confirmed(l) : x = b - l.slots[s].frame
  OBVIOUS
<1>5. ASSUME NEW t \in Confirmed(l) PROVE l.slots[t].frame <= l.slots[s].frame
  <2>1. PICK u \in Nat : u = l.slots[t].frame /\ u <= b
    BY <1>1
  <2>2. PICK v \in Nat : v = l.slots[s].frame /\ v <= b
    BY <1>1
  <2>3. b - u \in T /\ x = b - v
    BY <1>4, <2>1, <2>2
  <2>4. x <= b - u
    BY <1>3, <2>3, Zenon
  <2>5. u <= v
    BY <2>3, <2>4
  <2> QED
    BY <2>1, <2>2, <2>5, Zenon
<1> QED
  BY <1>5

\* What Ltr::plan may decide.
PlanType == [key : BOOLEAN, mark : Slots \union {NoSlot}, from : Slots \union {Prev}]
NoPlan(l, pl, plan) == pl.slots = l.slots /\ pl.marking = {} /\ pl.repairing = None
                       /\ plan.mark = NoSlot /\ plan.from = Prev
RepairPlan(l, pl, plan) == pl.slots = l.slots /\ pl.marking = {} /\ pl.repairing = inputs + 1
                           /\ plan.mark = NoSlot /\ plan.from \in Confirmed(l)
MarkPlan(l, pl, plan) == /\ pl.slots = Refill(l, l.next_slot) /\ pl.marking = {<<inputs + 1, l.next_slot>>}
                         /\ pl.repairing = None /\ plan.mark = l.next_slot /\ plan.from = Prev

\* Ltr::plan decides one of these.
LEMMA PlanFacts ==
  ASSUME RepairIInv, NEW kept \in Nat, NEW due \in BOOLEAN
  PROVE  LET l == Acknowledged
             pl == Planned(kept, due).l
             plan == Planned(kept, due).plan
         IN /\ pl \in LtrType /\ plan \in PlanType
            /\ NoPlan(l, pl, plan) \/ RepairPlan(l, pl, plan) \/ MarkPlan(l, pl, plan)
<1>1. PICK l : l = Acknowledged
  OBVIOUS
<1> DEFINE planned == Plan(l, inputs + 1, recover, keyframe, kept, due)
           plain == [key |-> FALSE, mark |-> NoSlot, from |-> Prev]
           Good == /\ planned.l \in LtrType /\ planned.plan \in PlanType
                   /\ \/ NoPlan(l, planned.l, planned.plan) \/ RepairPlan(l, planned.l, planned.plan)
                      \/ MarkPlan(l, planned.l, planned.plan)
<1>2. l \in LtrType /\ l.marking = {} /\ l.repairing = None
  BY <1>1, AcknowledgedFacts
<1>3. Planned(kept, due) = planned
  BY <1>1 DEF Planned
<1>4. inputs \in Nat /\ recover \in BOOLEAN /\ keyframe \in BOOLEAN
  BY DEF RepairIInv, RepairTypeOK
<1>5. plain \in PlanType /\ \A k \in BOOLEAN : [plain EXCEPT !.key = k] \in PlanType
  BY DEF PlanType
<1>6. CASE keyframe
  <2>1. planned = [l |-> l, plan |-> [plain EXCEPT !.key = recover]]
    BY <1>6 DEF Plan
  <2> HIDE DEF planned
  <2> QED
    BY <1>1, <1>2, <1>3, <1>4, <1>5, <2>1 DEF NoPlan
<1>7. CASE ~keyframe /\ recover /\ Confirmed(l) # {} /\ kept < REPAIRS_PER_SEC
  <2>1. planned = [l |-> [l EXCEPT !.repairs = kept + 1, !.repairing = inputs + 1], plan |-> [plain EXCEPT !.from = Newest(l)]]
    <3>2. ~keyframe /\ recover /\ Confirmed(l) # {} /\ kept < REPAIRS_PER_SEC /\ ~ (kept >= REPAIRS_PER_SEC)
      BY <1>7, RepairAssumption
    <3> QED
      BY <3>2, Zenon DEF Plan
  <2> HIDE DEF planned
  <2>2. Newest(l) \in Confirmed(l)
    <3>1. \A s \in Slots : l.slots[s].frame <= inputs
      <4> SUFFICES ASSUME NEW s \in Slots PROVE ltr.slots[s].frame <= inputs
        BY <1>1, AcknowledgedFacts
      <4>1. ltr.slots[s].frame \in Nat
        BY DEF RepairIInv, RepairTypeOK, LtrType
      <4>2. ltr.slots[s].frame # None => ltr.slots[s].frame <= inputs
        BY DEF RepairIInv, SlotsSound, SlotSound
      <4> QED
        BY <1>4, <4>1, <4>2 DEF None
    <3>2. \E s \in Confirmed(l) : \A t \in Confirmed(l) : l.slots[t].frame <= l.slots[s].frame
      BY <1>2, <1>4, <1>7, <3>1, NewestConfirmed
    <3> QED
      BY <3>2 DEF Newest
  <2>3. Newest(l) \in Slots
    BY <2>2 DEF Confirmed
  <2>4. planned.l \in LtrType /\ planned.l.slots = l.slots /\ planned.l.marking = {} /\ planned.l.repairing = inputs + 1
    <3>1. PICK a \in Nat, b \in Nat : a = kept + 1 /\ b = inputs + 1
      BY <1>4
    <3>2. [l EXCEPT !.repairs = a, !.repairing = b] \in LtrType
      BY <1>2 DEF LtrType
    <3>3. planned.l = [l EXCEPT !.repairs = a, !.repairing = b]
      BY <2>1, <3>1
    <3> QED
      BY <1>2, <3>1, <3>2, <3>3 DEF LtrType
  <2>5. planned.plan \in PlanType /\ planned.plan.mark = NoSlot /\ planned.plan.from = Newest(l)
    BY <2>1, <2>3 DEF PlanType
  <2> QED
    BY <1>1, <1>3, <2>2, <2>4, <2>5 DEF RepairPlan
<1>8. CASE ~keyframe /\ recover /\ (Confirmed(l) = {} \/ kept >= REPAIRS_PER_SEC)
  <2>0. ~ (~keyframe /\ recover /\ Confirmed(l) # {} /\ kept < REPAIRS_PER_SEC)
    BY <1>8, RepairAssumption
  <2>1. planned = [l |-> [l EXCEPT !.repairs = 0], plan |-> [plain EXCEPT !.key = TRUE]]
    BY <1>8, <2>0 DEF Plan
  <2> HIDE DEF planned
  <2>2. planned.l \in LtrType /\ planned.l.slots = l.slots /\ planned.l.marking = {} /\ planned.l.repairing = None
    BY <1>2, <1>4, <2>1 DEF LtrType
  <2>3. planned.plan \in PlanType /\ planned.plan.mark = NoSlot /\ planned.plan.from = Prev
    BY <2>1 DEF PlanType
  <2> QED
    BY <1>1, <1>3, <2>2, <2>3 DEF NoPlan
<1>9. CASE ~keyframe /\ ~recover /\ due
  <2>1. planned = [l |-> [l EXCEPT !.next_slot = NextSlot(@), !.slots = Refill(l, l.next_slot),
                                   !.marking = @ \union {<<inputs + 1, l.next_slot>>}],
                   plan |-> [plain EXCEPT !.mark = l.next_slot]]
    BY <1>9 DEF Plan
  <2> HIDE DEF planned
  <2>2. NextSlot(l.next_slot) \in Slots /\ l.next_slot \in Slots
    <3>1. l.next_slot \in Slots
      BY <1>2 DEF LtrType
    <3> QED
      BY <3>1, RepairAssumption DEF NextSlot, Slots
  <2>3. Refill(l, l.next_slot) \in [Slots -> [frame : Nat, acked : BOOLEAN]]
    BY <1>2 DEF LtrType, Refill, NoFrame, None
  <2>4. /\ planned.l.slots = Refill(l, l.next_slot) /\ planned.l.marking = {<<inputs + 1, l.next_slot>>}
        /\ planned.l.repairing = None
    BY <1>2, <2>1 DEF LtrType
  <2>5. planned.l \in LtrType
    <3>1. PICK a \in Slots : a = NextSlot(l.next_slot)
      BY <2>2
    <3>2. PICK b \in [Slots -> [frame : Nat, acked : BOOLEAN]] : b = Refill(l, l.next_slot)
      BY <2>3
    <3>3. PICK c \in SUBSET (Nat \X Slots) : c = l.marking \union {<<inputs + 1, l.next_slot>>}
      <4>1. PICK a1 \in Nat, s1 \in Slots : a1 = inputs + 1 /\ s1 = l.next_slot
        BY <1>4, <2>2
      <4>2. {} \union {<<a1, s1>>} \in SUBSET (Nat \X Slots)
        OBVIOUS
      <4> QED
        BY <1>2, <4>1, <4>2, Zenon
    <3>4. [l EXCEPT !.next_slot = a, !.slots = b, !.marking = c] \in LtrType
      BY <1>2 DEF LtrType
    <3>5. planned.l = [l EXCEPT !.next_slot = a, !.slots = b, !.marking = c]
      BY <2>1, <3>1, <3>2, <3>3
    <3> QED
      BY <3>4, <3>5, Zenon
  <2>6. planned.plan \in PlanType /\ planned.plan.mark = l.next_slot /\ planned.plan.from = Prev
    BY <2>1, <2>2 DEF PlanType
  <2> QED
    BY <1>1, <1>3, <2>4, <2>5, <2>6 DEF MarkPlan
<1>10. CASE ~keyframe /\ ~recover /\ ~due
  <2>1. planned = [l |-> l, plan |-> plain]
    BY <1>10 DEF Plan
  <2> HIDE DEF planned
  <2> QED
    BY <1>1, <1>2, <1>3, <1>5, <2>1 DEF NoPlan
<1> QED
  <2>1. REPAIRS_PER_SEC \in Nat
    BY RepairAssumption
  <2>2. kept < REPAIRS_PER_SEC \/ kept >= REPAIRS_PER_SEC
    BY <2>1
  <2> QED
    BY <1>4, <1>6, <1>7, <1>8, <1>9, <1>10, <2>2

\* What Encode sends: a keyframe, a plain frame, a repair or a frame to keep.
Neither(f) == ~f.ltr /\ ~f.recovery
KeySent(l, f, nl) == /\ f.pic.key /\ f.pic.mark = NoSlot /\ Neither(f)
                     /\ nl.slots = [s \in Slots |-> NoFrame]
PlainSent(l, f, nl) == /\ ~f.pic.key /\ f.pic.mark = NoSlot /\ Neither(f) /\ nl.slots = l.slots
                       /\ f.pic.from = Prev /\ f.pic.src = enc[Prev]
RepairSent(l, f, nl) == /\ ~f.pic.key /\ f.pic.mark = NoSlot /\ ~f.ltr /\ f.recovery /\ nl.slots = l.slots
                        /\ f.pic.from \in Confirmed(l) /\ f.pic.src = enc[f.pic.from] /\ f.pic.src # None
MarkSent(l, f, nl) == /\ ~f.pic.key /\ f.pic.mark = l.next_slot /\ f.ltr /\ ~f.recovery
                      /\ nl.slots = [l.slots EXCEPT ![l.next_slot] = [frame |-> frame_id, acked |-> FALSE]]
                      /\ f.pic.from = Prev /\ f.pic.src = enc[Prev]
AsSent(l, f, nl) == /\ KeySent(l, f, nl) \/ PlainSent(l, f, nl) \/ RepairSent(l, f, nl) \/ MarkSent(l, f, nl)
                    /\ f \in Frame /\ f.id = frame_id /\ f.pic.input = frame_id
                    /\ ~f.pic.key => enc[Prev] # None
                    /\ nl \in LtrType /\ nl.marking = {} /\ nl.repairing = None

\* The picture as the encoder coded it.
LEMMA CodedFacts ==
  ASSUME RepairIInv, NEW plan \in PlanType, NEW own \in BOOLEAN
  PROVE  LET pic == Coded(plan, own)
         IN /\ pic \in Picture /\ pic.input = frame_id
            /\ pic.key => pic.mark = NoSlot
            /\ ~pic.key => /\ enc[Prev] # None /\ pic.mark = plan.mark
                           /\ enc[plan.from] # None => pic.from = plan.from /\ pic.src = enc[plan.from]
<1> DEFINE key == keyframe \/ plan.key \/ own \/ enc[Prev] = None
           from == IF enc[plan.from] = None THEN Prev ELSE plan.from
<1>1. inputs \in Nat /\ frame_id = inputs + 1 /\ enc \in RefsType /\ keyframe \in BOOLEAN
  BY DEF RepairIInv, RepairTypeOK, InStep
<1>2. plan.from \in Slots \union {Prev} /\ plan.mark \in Slots \union {NoSlot} /\ plan.key \in BOOLEAN
  BY DEF PlanType
<1>3. from \in Slots \union {Prev} /\ enc[from] \in Nat
  BY <1>1, <1>2 DEF RefsType
<1>4. key \in BOOLEAN
  BY <1>1, <1>2
<1>5. Coded(plan, own) = [input |-> inputs + 1, key |-> key, mark |-> IF key THEN NoSlot ELSE plan.mark,
                          from |-> from, src |-> IF key THEN None ELSE enc[from]]
  BY Zenon DEF Coded
<1>6. PICK k \in BOOLEAN, fr \in Slots \union {Prev}, src \in Nat :
        k = key /\ fr = from /\ src = IF key THEN None ELSE enc[from]
  BY <1>3, <1>4 DEF None
<1>7. PICK mark \in Slots \union {NoSlot} : mark = IF k THEN NoSlot ELSE plan.mark
  BY <1>2
<1>8. PICK id \in Nat : id = inputs + 1
  BY <1>1
<1>9. Coded(plan, own) = [input |-> id, key |-> k, mark |-> mark, from |-> fr, src |-> src]
  BY <1>5, <1>6, <1>7, <1>8, Zenon
<1>10. [input |-> id, key |-> k, mark |-> mark, from |-> fr, src |-> src] \in Picture
  BY DEF Picture
<1>11. ~k => enc[Prev] # None /\ src = enc[from]
  BY <1>6
<1>12. enc[plan.from] # None => fr = plan.from
  BY <1>6
<1>13. ~k /\ enc[plan.from] # None => src = enc[plan.from]
  BY <1>6, <1>11, <1>12
<1> QED
  BY <1>1, <1>7, <1>8, <1>9, <1>10, <1>11, <1>12, <1>13

\* What Ltr::sent makes of it.
LEMMA SentFacts ==
  ASSUME RepairIInv, NEW kept \in Nat, NEW due \in BOOLEAN, NEW own \in BOOLEAN
  PROVE  LET s == Sent(Planned(kept, due).l, Coded(Planned(kept, due).plan, own), frame_id)
         IN AsSent(Acknowledged, s.frame, s.l)
<1>1. PICK l, pl, plan, pic :
        l = Acknowledged /\ pl = Planned(kept, due).l /\ plan = Planned(kept, due).plan /\ pic = Coded(plan, own)
  OBVIOUS
<1>2. pl \in LtrType /\ plan \in PlanType /\ (NoPlan(l, pl, plan) \/ RepairPlan(l, pl, plan) \/ MarkPlan(l, pl, plan))
  BY <1>1, PlanFacts
<1>3. /\ pic \in Picture /\ pic.input = frame_id
      /\ pic.key => pic.mark = NoSlot
      /\ ~pic.key => /\ enc[Prev] # None /\ pic.mark = plan.mark
                     /\ enc[plan.from] # None => pic.from = plan.from /\ pic.src = enc[plan.from]
  BY <1>1, <1>2, CodedFacts
<1>4. l \in LtrType
  BY <1>1, AcknowledgedFacts
<1>5. inputs \in Nat /\ frame_id \in Nat /\ frame_id = inputs + 1 /\ frame_id # None
  BY DEF RepairIInv, RepairTypeOK, InStep, None
<1> DEFINE marked == {m \in pl.marking : m[1] = pic.input /\ ~pic.key}
           repair == pl.repairing = pic.input /\ ~pic.key
           slots2 == [s \in Slots |-> IF <<pic.input, s>> \in marked THEN [frame |-> frame_id, acked |-> FALSE]
                                      ELSE Cleared(pl, pic.key)[s]]
           nl == Sent(pl, pic, frame_id).l
           f == Sent(pl, pic, frame_id).frame
<1>6. f = [id |-> frame_id, pic |-> pic, ltr |-> marked # {}, recovery |-> repair]
  BY DEF Sent
<1>7. nl = [pl EXCEPT !.slots = slots2,
               !.marking = {m \in @ : m[1] > pic.input},
               !.repairing = IF @ <= pic.input THEN None ELSE @,
               !.repairs = IF pic.key THEN 0 ELSE @,
               !.repaired = IF repair THEN frame_id ELSE IF pic.key THEN None ELSE @]
  BY DEF Sent
<1>8. f \in Frame /\ f.id = frame_id /\ f.pic = pic
  <2>1. PICK a \in BOOLEAN, b \in BOOLEAN : a = (marked # {}) /\ b = repair
    OBVIOUS
  <2>2. f = [id |-> frame_id, pic |-> pic, ltr |-> a, recovery |-> b]
    BY <1>6, <2>1
  <2> HIDE DEF f
  <2> QED
    BY <1>3, <1>5, <2>2 DEF Frame
<1>9. /\ pl.slots \in [Slots -> [frame : Nat, acked : BOOLEAN]] /\ pl.marking \in SUBSET (Nat \X Slots)
      /\ pl.repairing \in Nat /\ pl.repairs \in Nat /\ pl.repaired \in Nat /\ pl.next_slot \in Slots
      /\ pl = [slots |-> pl.slots, next_slot |-> pl.next_slot, marking |-> pl.marking,
               repairing |-> pl.repairing, repairs |-> pl.repairs, repaired |-> pl.repaired]
  BY <1>2 DEF LtrType
<1>10. slots2 \in [Slots -> [frame : Nat, acked : BOOLEAN]]
  <2>1. Cleared(pl, pic.key) \in [Slots -> [frame : Nat, acked : BOOLEAN]]
    BY <1>9 DEF Cleared, NoFrame, None
  <2>2. [frame |-> frame_id, acked |-> FALSE] \in [frame : Nat, acked : BOOLEAN]
    BY <1>5
  <2> QED
    BY <2>1, <2>2
<1>11. pl.marking \subseteq {<<inputs + 1, l.next_slot>>} /\ pl.repairing \in {None, inputs + 1}
  BY <1>2 DEF NoPlan, RepairPlan, MarkPlan
<1>12. {m \in pl.marking : m[1] > pic.input} = {}
  BY <1>3, <1>5, <1>11
<1>13. (IF pl.repairing <= pic.input THEN None ELSE pl.repairing) = None
  BY <1>3, <1>5, <1>9, <1>11 DEF None
<1>14. nl \in LtrType /\ nl.slots = slots2 /\ nl.marking = {} /\ nl.repairing = None
  <2>1. PICK a \in Nat, b \in Nat, c \in [Slots -> [frame : Nat, acked : BOOLEAN]] :
          /\ a = IF pic.key THEN 0 ELSE pl.repairs
          /\ b = IF repair THEN frame_id ELSE IF pic.key THEN None ELSE pl.repaired
          /\ c = slots2
    BY <1>5, <1>9, <1>10 DEF None
  <2> HIDE DEF slots2, repair
  <2>2. nl = [pl EXCEPT !.slots = c, !.marking = {}, !.repairing = None, !.repairs = a, !.repaired = b]
    BY <1>7, <1>12, <1>13, <2>1
  <2> HIDE DEF nl
  <2>3. {} \in SUBSET (Nat \X Slots) /\ None \in Nat
    BY DEF None
  <2>4. [pl EXCEPT !.slots = c, !.marking = {}, !.repairing = None, !.repairs = a, !.repaired = b] \in LtrType
    BY <1>2, <2>3 DEF LtrType
  <2>5. nl.slots = c /\ nl.marking = {} /\ nl.repairing = None
    BY <1>2, <2>2 DEF LtrType
  <2> QED
    BY <2>1, <2>2, <2>4, <2>5
<1>15. f.ltr = (marked # {}) /\ f.recovery = repair
  BY <1>6
<1> HIDE DEF f, nl
<1>16. NoSlot \notin Slots /\ Prev \notin Slots
  BY RepairAssumption DEF Slots, NoSlot, Prev
<1>17. CASE pic.key
  <2>1. marked = {} /\ ~repair
    BY <1>17
  <2>2. slots2 = [s \in Slots |-> NoFrame]
    BY <1>17, <2>1 DEF Cleared
  <2>3. KeySent(l, f, nl)
    BY <1>3, <1>8, <1>14, <1>15, <1>17, <2>1, <2>2 DEF KeySent, Neither
  <2> QED
    BY <1>1, <1>3, <1>8, <1>14, <1>17, <2>3 DEF AsSent, f, nl
<1>18. ASSUME ~pic.key, pl.marking = {}, pl.slots = l.slots PROVE slots2 = l.slots /\ marked = {}
  <2>1. marked = {}
    BY <1>18
  <2>2. slots2 = [s \in Slots |-> l.slots[s]]
    BY <1>18, <2>1 DEF Cleared
  <2> QED
    BY <1>4, <2>1, <2>2 DEF LtrType
<1>19. CASE ~pic.key /\ NoPlan(l, pl, plan)
  <2>1. ~repair
    BY <1>3, <1>5, <1>19 DEF NoPlan
  <2>2. PlainSent(l, f, nl)
    BY <1>3, <1>8, <1>14, <1>15, <1>18, <1>19, <2>1 DEF PlainSent, Neither, NoPlan
  <2> QED
    BY <1>1, <1>3, <1>8, <1>14, <1>19, <2>2 DEF AsSent, f, nl
<1>20. CASE ~pic.key /\ RepairPlan(l, pl, plan)
  <2>1. repair
    BY <1>3, <1>5, <1>20 DEF RepairPlan
  <2>2. plan.from \in Confirmed(l)
    BY <1>20 DEF RepairPlan
  <2>3. enc[plan.from] # None
    <3>1. plan.from \in Slots /\ Acknowledged.slots[plan.from].acked
      BY <1>1, <2>2 DEF Confirmed
    <3>2. ltr.slots[plan.from].frame # None
      BY <3>1, AcknowledgedFacts
    <3>3. enc[plan.from] = ltr.slots[plan.from].frame
      BY <3>1, <3>2 DEF RepairIInv, SlotsSound, SlotSound
    <3> QED
      BY <3>2, <3>3
  <2>4. RepairSent(l, f, nl)
    BY <1>3, <1>8, <1>14, <1>15, <1>18, <1>20, <2>1, <2>2, <2>3 DEF RepairSent, RepairPlan
  <2> QED
    BY <1>1, <1>3, <1>8, <1>14, <1>20, <2>4 DEF AsSent, f, nl
<1>21. CASE ~pic.key /\ MarkPlan(l, pl, plan)
  <2>1. ~repair
    BY <1>3, <1>5, <1>21 DEF MarkPlan
  <2>2. l.next_slot \in Slots
    BY <1>4 DEF LtrType
  <2>3. marked = {<<pic.input, l.next_slot>>}
    BY <1>3, <1>5, <1>21 DEF MarkPlan
  <2>4. slots2 = [l.slots EXCEPT ![l.next_slot] = [frame |-> frame_id, acked |-> FALSE]]
    <3>1. Cleared(pl, pic.key) = [l.slots EXCEPT ![l.next_slot] = NoFrame]
      BY <1>21 DEF Cleared, MarkPlan, Refill
    <3>2. \A s \in Slots : <<pic.input, s>> \in marked <=> s = l.next_slot
      BY <2>3
    <3>3. l.slots \in [Slots -> [frame : Nat, acked : BOOLEAN]]
      BY <1>4 DEF LtrType
    <3> HIDE DEF marked
    <3>4. ASSUME NEW s \in Slots
          PROVE  slots2[s] = [l.slots EXCEPT ![l.next_slot] = [frame |-> frame_id, acked |-> FALSE]][s]
      BY <2>2, <3>1, <3>2, <3>3
    <3> QED
      BY <3>3, <3>4
  <2>5. MarkSent(l, f, nl)
    BY <1>3, <1>8, <1>14, <1>15, <1>21, <2>1, <2>3, <2>4 DEF MarkSent, MarkPlan
  <2> QED
    BY <1>1, <1>3, <1>8, <1>14, <1>21, <2>5 DEF AsSent, f, nl
<1> QED
  BY <1>2, <1>17, <1>19, <1>20, <1>21

\* The references after a picture.
LEMMA AfterFacts ==
  ASSUME NEW refs \in RefsType, NEW f \in Frame
  PROVE  /\ After(refs, f.pic) \in RefsType /\ After(refs, f.pic)[Prev] = f.pic.input
         /\ \A s \in Slots : f.pic.mark = s => After(refs, f.pic)[s] = f.pic.input
         /\ \A s \in Slots : Spares(f, s) => After(refs, f.pic)[s] = refs[s]
<1>1. f.pic \in Picture /\ f.pic.input \in Nat
  BY DEF Frame, Picture
<1>2. Prev \notin Slots
  BY RepairAssumption DEF Slots, Prev
<1>3. DOMAIN refs = Slots \union {Prev} /\ \A r \in Slots \union {Prev} : refs[r] \in Nat
  BY DEF RefsType
<1> QED
  BY <1>1, <1>2, <1>3 DEF After, RefsType, Spares, None

\* Encode, and so Ltr::acked, plan and sent.
LEMMA EncodeKeeps ==
  ASSUME HELD = 0, RepairIInv, NEW kept \in Nat, NEW due \in BOOLEAN, NEW own \in BOOLEAN, NEW n \in Nat,
         Encode(kept, due, own, n)
  PROVE  RepairIInv'
<1>0. RepairTypeOK /\ InStep /\ PathInOrder /\ FramesSorted /\ SlotsSound /\ RepairsSound /\ Following /\ PictureSound
  BY DEF RepairIInv
<1>1. PICK l, pic, s0 : /\ l = Acknowledged /\ pic = Coded(Planned(kept, due).plan, own)
                        /\ s0 = Sent(Planned(kept, due).l, pic, frame_id)
  OBVIOUS
<1>2. PICK f, nl : f = s0.frame /\ nl = s0.l
  OBVIOUS
<1>3. AsSent(l, f, nl)
  BY <1>1, <1>2, SentFacts
<1>4. /\ ltr' = nl /\ frame_id' = frame_id + 1 /\ path' = Append(path, f)
      /\ held' = <<>> /\ enc' = After(enc, pic) /\ inputs' = inputs + 1
      /\ keyframe' = FALSE /\ recover' = FALSE
      /\ UNCHANGED <<ltr_acked, client, asks, reports>>
  BY <1>0, <1>1, <1>2, EncodeOne
<1>5. f.pic = pic
  BY <1>1, <1>2 DEF Sent
<1>6. /\ f \in Frame /\ f.id = frame_id /\ f.pic.input = frame_id /\ nl \in LtrType
      /\ nl.marking = {} /\ nl.repairing = None
  BY <1>3 DEF AsSent
<1>7. UNCHANGED <<ltr_acked, reports, expect, awaiting_key, can_repair, ltr_decoded, dec, sound>>
  BY <1>4 DEF client
<1>8. /\ inputs \in Nat /\ frame_id \in Nat /\ frame_id = inputs + 1 /\ enc \in RefsType /\ path \in Seq(Frame)
      /\ expect \in Nat /\ enc[Prev] \in {None, inputs} /\ ltr \in LtrType
  BY <1>0 DEF RepairTypeOK, InStep
<1>9. /\ enc' \in RefsType /\ enc'[Prev] = frame_id
      /\ \A s \in Slots : f.pic.mark = s => enc'[s] = frame_id
      /\ \A s \in Slots : Spares(f, s) => enc'[s] = enc[s]
  BY <1>4, <1>5, <1>6, <1>8, AfterFacts
<1>10. OnPath' = OnPath \union {f}
  <2>1. DOMAIN path' = DOMAIN path \union {Len(path) + 1} /\ \A i \in DOMAIN path : path'[i] = path[i]
    BY <1>4, <1>6, <1>8
  <2>2. path'[Len(path) + 1] = f
    BY <1>4, <1>6, <1>8
  <2> QED
    BY <2>1, <2>2 DEF OnPath
<1>11. \A g \in OnPath : g.id \in Nat /\ g.id < f.id /\ g.id >= expect
  <2>1. \A g \in OnPath : g.id \in expect..inputs
    BY <1>0 DEF PathInOrder
  <2> QED
    BY <1>6, <1>8, <2>1
<1>12. \A s, x : ClientHas(s, x)' <=> ClientHas(s, x)
  BY <1>7 DEF ClientHas
<1>13. \A x : Told(x)' <=> Told(x)
  BY <1>7 DEF Told
<1>14. \A x \in Nat : Told(x) => x < expect
  BY <1>0 DEF Following
<1>15. RepairTypeOK'
  <2>1. path' \in Seq(Frame) /\ inputs' \in Nat /\ frame_id' \in Nat
    BY <1>4, <1>6, <1>8
  <2>2. keyframe' \in BOOLEAN /\ recover' \in BOOLEAN /\ ltr' \in LtrType
    BY <1>4, <1>6
  <2> QED
    BY <1>0, <1>7, <1>9, <2>1, <2>2 DEF RepairTypeOK
<1>16. InStep'
  BY <1>4, <1>6, <1>8, <1>9 DEF InStep
<1>17. PathInOrder'
  <2>1. expect' \in 1..frame_id'
    BY <1>0, <1>4, <1>7, <1>8 DEF PathInOrder
  <2>2. \A g \in OnPath' : g.id \in expect'..inputs' /\ g.pic.input = g.id
    <3>1. f.id \in expect'..inputs' /\ f.pic.input = f.id
      BY <1>0, <1>4, <1>6, <1>7, <1>8 DEF PathInOrder
    <3>2. \A g \in OnPath : g.id \in expect'..inputs' /\ g.pic.input = g.id
      BY <1>0, <1>4, <1>7, <1>8 DEF PathInOrder
    <3> QED
      BY <1>10, <3>1, <3>2
  <2>3. ASSUME NEW i \in DOMAIN path', NEW j \in DOMAIN path', i < j PROVE path'[i].id < path'[j].id
    <3>1. PICK m \in Nat : m = Len(path)
      BY <1>8
    <3>2. DOMAIN path = 1..m /\ DOMAIN path' = 1..(m + 1) /\ path'[m + 1] = f /\ \A k \in 1..m : path'[k] = path[k]
      BY <1>4, <1>6, <1>8, <3>1
    <3>3. CASE j \in 1..m
      <4>1. i \in 1..m
        BY <2>3, <3>2, <3>3
      <4>2. path[i].id < path[j].id
        BY <1>0, <2>3, <3>2, <3>3, <4>1 DEF PathInOrder
      <4> QED
        BY <3>2, <3>3, <4>1, <4>2
    <3>4. CASE j = m + 1
      <4>1. i \in 1..m
        BY <2>3, <3>1, <3>2, <3>4
      <4>2. path[i] \in OnPath
        BY <3>2, <4>1 DEF OnPath
      <4> QED
        BY <1>11, <3>2, <3>4, <4>1, <4>2
    <3> QED
      BY <3>1, <3>2, <3>3, <3>4
  <2> QED
    BY <2>1, <2>2, <2>3 DEF PathInOrder
<1>18. NoSlot \notin Slots /\ Prev \notin Slots /\ l.next_slot \in Slots /\ l \in LtrType
  <2>1. l \in LtrType
    BY <1>1, AcknowledgedFacts
  <2> QED
    BY <2>1, RepairAssumption DEF Slots, NoSlot, Prev, LtrType
<1>19. FramesSorted'
  <2>1. /\ f.ltr = (f.pic.mark # NoSlot)
        /\ f.pic.key => ~f.ltr /\ ~f.recovery
        /\ ~f.pic.key => f.recovery \/ PlainFrom(f)
    <3>1. CASE KeySent(l, f, nl)
      BY <1>6, <3>1 DEF KeySent, Neither, Frame
    <3>2. CASE RepairSent(l, f, nl)
      BY <1>6, <3>2 DEF RepairSent, Frame
    <3>3. ~f.pic.key => enc[Prev] = f.id - 1
      BY <1>3, <1>6, <1>8 DEF AsSent
    <3>4. CASE PlainSent(l, f, nl)
      BY <1>6, <3>3, <3>4 DEF PlainSent, Neither, PlainFrom, Frame
    <3>5. CASE MarkSent(l, f, nl)
      BY <1>6, <1>18, <3>3, <3>5 DEF MarkSent, PlainFrom, Frame
    <3> QED
      BY <1>3, <3>1, <3>2, <3>4, <3>5 DEF AsSent
  <2> QED
    BY <1>0, <1>10, <2>1 DEF FramesSorted, PlainFrom
<1>20. ASSUME NEW s \in Slots, l.slots[s].frame # None, Spares(f, s), ltr'.slots[s] = l.slots[s]
       PROVE  SlotSound(s, l.slots[s].frame)'
  <2>1. PICK x \in Nat : x = l.slots[s].frame
    BY <1>18 DEF LtrType
  <2>2. x = ltr.slots[s].frame /\ (l.slots[s].acked => ltr.slots[s].acked \/ Told(x))
    BY <1>1, <2>1, AcknowledgedFacts
  <2>3. SlotSound(s, x)
    BY <1>0, <1>20, <2>1, <2>2 DEF SlotsSound
  <2>4. x <= inputs' /\ enc'[s] = x
    BY <1>4, <1>8, <1>9, <1>20, <2>3 DEF SlotSound
  <2>5. \A g \in OnPath' : (g.id > x => Spares(g, s)) /\ (g.id = x => ~g.pic.key /\ g.pic.mark = s)
    <3>1. f.id # x
      BY <1>6, <1>8, <2>3 DEF SlotSound
    <3> QED
      BY <1>10, <1>20, <2>3, <3>1 DEF SlotSound
  <2>6. ltr'.slots[s].acked \/ Told(x)' => ClientHas(s, x)'
    BY <1>12, <1>13, <1>20, <2>2, <2>3 DEF SlotSound
  <2>7. SlotSound(s, x)'
    BY <2>4, <2>5, <2>6 DEF SlotSound, Spares
  <2> QED
    BY <2>1, <2>7
<1>21. \A s \in Slots : l.slots[s].acked => l.slots[s].frame # None
  BY <1>1, AcknowledgedFacts
<1>22. SlotsSound'
  <2> SUFFICES ASSUME NEW s \in Slots
               PROVE  /\ ltr'.slots[s].frame # None => SlotSound(s, ltr.slots[s].frame)'
                      /\ ltr'.slots[s].acked => ltr'.slots[s].frame # None
    BY DEF SlotsSound
  <2>1. CASE KeySent(l, f, nl)
    BY <1>4, <2>1 DEF KeySent, NoFrame
  <2>2. CASE ltr'.slots[s] = l.slots[s] /\ Spares(f, s)
    BY <1>20, <1>21, <2>2
  <2>3. CASE PlainSent(l, f, nl) \/ RepairSent(l, f, nl)
    <3>1. ltr'.slots[s] = l.slots[s] /\ Spares(f, s)
      BY <1>4, <1>18, <2>3 DEF PlainSent, RepairSent, Spares
    <3> QED
      BY <2>2, <3>1
  <2>4. CASE MarkSent(l, f, nl) /\ s # l.next_slot
    <3>1. ltr'.slots[s] = l.slots[s] /\ Spares(f, s)
      BY <1>4, <1>18, <2>4 DEF MarkSent, Spares, LtrType
    <3> QED
      BY <2>2, <3>1
  <2>5. CASE MarkSent(l, f, nl) /\ s = l.next_slot
    <3>1. PICK x \in Nat : x = frame_id
      BY <1>8
    <3>2. ltr'.slots[s] = [frame |-> x, acked |-> FALSE]
      BY <1>4, <1>18, <2>5, <3>1 DEF MarkSent, LtrType
    <3>3. ltr'.slots[s].frame = x /\ ~ltr'.slots[s].acked
      BY <3>2
    <3>4. ~Told(x)'
      <4>1. ~ (x < expect)
        BY <1>0, <1>8, <3>1 DEF PathInOrder
      <4> QED
        BY <1>13, <1>14, <4>1
    <3>5. f.pic.mark = s /\ ~f.pic.key
      BY <2>5 DEF MarkSent
    <3>6. x <= inputs' /\ enc'[s] = x
      BY <1>4, <1>8, <1>9, <3>1, <3>5
    <3>7. \A g \in OnPath' : (g.id > x => Spares(g, s)) /\ (g.id = x => ~g.pic.key /\ g.pic.mark = s)
      <4>1. f.id = x
        BY <1>6, <3>1
      <4>2. \A g \in OnPath : g.id \in Nat /\ g.id < x
        BY <1>11, <4>1
      <4> QED
        BY <1>10, <3>5, <4>1, <4>2
    <3>8. SlotSound(s, x)'
      BY <3>3, <3>4, <3>6, <3>7 DEF SlotSound, Spares
    <3> QED
      BY <1>8, <3>1, <3>3, <3>8 DEF None
  <2> QED
    BY <1>3, <2>1, <2>3, <2>4, <2>5 DEF AsSent
<1>23. RepairsSound'
  <2>1. ASSUME NEW g \in OnPath, g.recovery
        PROVE  /\ g.pic.from \in Slots /\ g.pic.src # None /\ ClientHas(g.pic.from, g.pic.src)'
               /\ \A h \in OnPath' : h.id < g.id => Spares(h, g.pic.from)
    <3>1. /\ g.pic.from \in Slots /\ g.pic.src # None /\ ClientHas(g.pic.from, g.pic.src)
          /\ \A h \in OnPath : h.id < g.id => Spares(h, g.pic.from)
      BY <1>0, <2>1 DEF RepairsSound
    <3>2. ~ (f.id < g.id)
      BY <1>6, <1>8, <1>11
    <3> QED
      BY <1>10, <1>12, <3>1, <3>2
  <2>2. ASSUME f.recovery
        PROVE  /\ f.pic.from \in Slots /\ f.pic.src # None /\ ClientHas(f.pic.from, f.pic.src)'
               /\ \A h \in OnPath' : h.id < f.id => Spares(h, f.pic.from)
    <3>1. RepairSent(l, f, nl)
      BY <1>3, <2>2 DEF AsSent, KeySent, PlainSent, MarkSent, Neither
    <3>2. PICK s \in Slots : s = f.pic.from /\ l.slots[s].acked
      BY <3>1 DEF RepairSent, Confirmed
    <3>3. PICK x \in Nat : x = ltr.slots[s].frame
      BY <1>8 DEF LtrType
    <3>4. x # None /\ (ltr.slots[s].acked \/ Told(x))
      BY <1>1, <3>2, <3>3, AcknowledgedFacts
    <3>5. SlotSound(s, x)
      BY <1>0, <3>3, <3>4 DEF SlotsSound
    <3>6. f.pic.src = x /\ ClientHas(s, x)
      BY <3>1, <3>2, <3>4, <3>5 DEF SlotSound, RepairSent
    <3>7. ASSUME NEW h \in OnPath PROVE Spares(h, s)
      <4>1. h.id > x
        BY <1>8, <1>11, <3>6 DEF ClientHas
      <4> QED
        BY <3>5, <4>1 DEF SlotSound
    <3>8. ~ (f.id < f.id)
      BY <1>6, <1>8
    <3> QED
      BY <1>10, <1>12, <3>2, <3>4, <3>6, <3>7, <3>8
  <2> QED
    BY <1>10, <2>1, <2>2 DEF RepairsSound, Spares
<1>24. Following' /\ PictureSound'
  BY <1>0, <1>7, <1>13 DEF Following, PictureSound
<1> QED
  BY <1>15, <1>16, <1>17, <1>19, <1>22, <1>23, <1>24 DEF RepairIInv

\* A step that leaves the frames, the references and what is kept alone, and
\* tells nothing new.
LEMMA RepairQuiet ==
  ASSUME RepairIInv,
         UNCHANGED <<ltr, inputs, frame_id, enc, held, path, expect, can_repair, ltr_decoded, dec, sound>>,
         keyframe' \in BOOLEAN, recover' \in BOOLEAN, ltr_acked' \in Nat, reports' \in SUBSET Nat,
         awaiting_key' \in BOOLEAN, \A x : Told(x)' => Told(x), awaiting_key => awaiting_key'
  PROVE  RepairIInv'
<1>1. RepairTypeOK'
  BY DEF RepairIInv, RepairTypeOK
<1>2. InStep' /\ PathInOrder' /\ FramesSorted'
  BY DEF RepairIInv, InStep, PathInOrder, FramesSorted, OnPath, PlainFrom
<1>3. \A s, x : ClientHas(s, x)' <=> ClientHas(s, x)
  BY DEF ClientHas
<1>4. OnPath' = OnPath
  BY DEF OnPath
<1>5. \A s, x : SlotSound(s, x) => SlotSound(s, x)'
  BY <1>3, <1>4 DEF SlotSound, Spares
<1>6. SlotsSound'
  <2> SUFFICES ASSUME NEW s \in Slots
               PROVE  /\ ltr'.slots[s].frame # None => SlotSound(s, ltr.slots[s].frame)'
                      /\ ltr'.slots[s].acked => ltr'.slots[s].frame # None
    BY DEF SlotsSound
  <2>1. PICK x : x = ltr.slots[s].frame
    OBVIOUS
  <2>2. x # None => SlotSound(s, x)
    BY <2>1 DEF RepairIInv, SlotsSound
  <2> QED
    BY <1>5, <2>1, <2>2 DEF RepairIInv, SlotsSound
<1>7. RepairsSound'
  BY <1>3, <1>4 DEF RepairIInv, RepairsSound, Spares
<1>8. Following' /\ PictureSound'
  BY DEF RepairIInv, Following, PictureSound
<1> QED
  BY <1>1, <1>2, <1>6, <1>7, <1>8 DEF RepairIInv

\* TakeAsk, KeyWaitOver, TakeReport, Restart, Ask, Report: requests, reports
\* and waits.
LEMMA TalkKeeps ==
  ASSUME RepairIInv,
         \/ \E a \in asks : TakeAsk(a)
         \/ KeyWaitOver
         \/ \E id \in reports : TakeReport(id)
         \/ Restart
         \/ \E a \in {"key", "recover"} : Ask(a)
         \/ Report
  PROVE  RepairIInv'
<1>0. /\ keyframe \in BOOLEAN /\ recover \in BOOLEAN /\ ltr_acked \in Nat /\ reports \in SUBSET Nat
      /\ awaiting_key \in BOOLEAN /\ ltr_decoded \in Nat
  BY DEF RepairIInv, RepairTypeOK
<1>1. ASSUME NEW a \in asks, TakeAsk(a) PROVE RepairIInv'
  <2>1. /\ UNCHANGED <<ltr, inputs, frame_id, enc, held, path, expect, can_repair, ltr_decoded, dec, sound>>
        /\ UNCHANGED <<ltr_acked, reports, awaiting_key>>
    BY <1>1 DEF TakeAsk, client
  <2>2. keyframe' \in BOOLEAN /\ recover' \in BOOLEAN
    BY <1>0, <1>1 DEF TakeAsk
  <2>3. \A x : Told(x)' => Told(x)
    BY <2>1 DEF Told
  <2> QED
    BY <1>0, <2>1, <2>2, <2>3, RepairQuiet
<1>2. CASE KeyWaitOver
  <2>1. /\ UNCHANGED <<ltr, inputs, frame_id, enc, held, path, expect, can_repair, ltr_decoded, dec, sound>>
        /\ UNCHANGED <<keyframe, recover, ltr_acked, reports, awaiting_key>>
    BY <1>2 DEF KeyWaitOver, client
  <2>2. \A x : Told(x)' => Told(x)
    BY <2>1 DEF Told
  <2> QED
    BY <1>0, <2>1, <2>2, RepairQuiet
<1>3. ASSUME NEW id \in reports, TakeReport(id) PROVE RepairIInv'
  <2>1. /\ UNCHANGED <<ltr, inputs, frame_id, enc, held, path, expect, can_repair, ltr_decoded, dec, sound>>
        /\ UNCHANGED <<keyframe, recover, awaiting_key>> /\ ltr_acked' = id /\ reports' = reports \ {id}
    BY <1>3 DEF TakeReport, client
  <2>2. \A x : Told(x)' => Told(x)
    BY <2>1 DEF Told
  <2> QED
    BY <1>0, <2>1, <2>2, RepairQuiet
<1>4. CASE Restart
  <2>1. /\ UNCHANGED <<ltr, inputs, frame_id, enc, held, path, expect, can_repair, ltr_decoded, dec, sound>>
        /\ UNCHANGED <<keyframe, recover, ltr_acked, reports>> /\ awaiting_key' = TRUE
    BY <1>4 DEF Restart, host
  <2>2. \A x : Told(x)' => Told(x)
    BY <2>1 DEF Told
  <2> QED
    BY <1>0, <2>1, <2>2, RepairQuiet
<1>5. ASSUME NEW a, Ask(a) PROVE RepairIInv'
  <2>1. /\ UNCHANGED <<ltr, inputs, frame_id, enc, held, path, expect, can_repair, ltr_decoded, dec, sound>>
        /\ UNCHANGED <<keyframe, recover, ltr_acked, reports, awaiting_key>>
    BY <1>5 DEF Ask, host, client
  <2>2. \A x : Told(x)' => Told(x)
    BY <2>1 DEF Told
  <2> QED
    BY <1>0, <2>1, <2>2, RepairQuiet
<1>6. CASE Report
  <2>1. /\ UNCHANGED <<ltr, inputs, frame_id, enc, held, path, expect, can_repair, ltr_decoded, dec, sound>>
        /\ UNCHANGED <<keyframe, recover, ltr_acked, awaiting_key>> /\ reports' = reports \union {ltr_decoded}
    BY <1>6 DEF Report, host, client
  <2>2. \A x : Told(x)' => Told(x)
    BY <2>1 DEF Told
  <2> QED
    BY <1>0, <2>1, <2>2, RepairQuiet
<1> QED
  BY <1>1, <1>2, <1>3, <1>4, <1>5, <1>6

\* Reopen: nothing is kept any more.
LEMMA ReopenKeeps == ASSUME RepairIInv, Reopen PROVE RepairIInv'
<1>1. /\ ltr' = NewLtr /\ enc' = NoRefs /\ held' = <<>> /\ keyframe' = TRUE
      /\ UNCHANGED <<recover, ltr_acked, inputs, frame_id, path, reports,
                     expect, awaiting_key, can_repair, ltr_decoded, dec, sound>>
  BY DEF Reopen, client
<1>2. NoRefs \in RefsType /\ NoRefs[Prev] = None
  BY DEF NoRefs, RefsType, None
<1>3. NewLtr \in LtrType
  <2>1. 0 \in Slots
    BY RepairAssumption DEF Slots
  <2> QED
    BY <2>1 DEF NewLtr, LtrType, NoFrame, None
<1>4. RepairTypeOK'
  BY <1>1, <1>2, <1>3 DEF RepairIInv, RepairTypeOK
<1>5. InStep'
  BY <1>1, <1>2 DEF RepairIInv, InStep, NewLtr
<1>6. PathInOrder' /\ FramesSorted' /\ RepairsSound'
  BY <1>1 DEF RepairIInv, PathInOrder, FramesSorted, RepairsSound, OnPath, PlainFrom, ClientHas, Spares
<1>7. SlotsSound'
  BY <1>1 DEF SlotsSound, NewLtr, NoFrame
<1>8. Following' /\ PictureSound'
  BY <1>1 DEF RepairIInv, Following, PictureSound, Told
<1> QED
  BY <1>4, <1>5, <1>6, <1>7, <1>8 DEF RepairIInv

\* Fewer frames on the path, in their order.
PathLess ==
  /\ path' \in Seq(Frame) /\ OnPath' \subseteq OnPath
  /\ \A i, j \in DOMAIN path' : i < j => path'[i].id < path'[j].id

\* A new decoder, or a frame lost.
LEMMA LossKeeps ==
  ASSUME RepairIInv, NewDecoder \/ \E i \in DOMAIN path : Lose(i)
  PROVE  RepairIInv'
<1>0. path \in Seq(Frame)
  BY DEF RepairIInv, RepairTypeOK
<1>1. UNCHANGED <<host, asks, reports, expect, sound>> /\ (UNCHANGED <<awaiting_key, can_repair, ltr_decoded, dec>>
        \/ (awaiting_key' = TRUE /\ can_repair' = FALSE /\ ltr_decoded' = None /\ dec' = NoRefs))
  BY DEF NewDecoder, Lose, client
<1>2. UNCHANGED <<ltr, keyframe, recover, ltr_acked, inputs, frame_id, enc, held>>
  BY <1>1 DEF host
<1>3. PathLess
  <2>1. CASE NewDecoder
    BY <1>0, <2>1 DEF NewDecoder, PathLess, OnPath, RepairIInv, PathInOrder
  <2>2. ASSUME NEW i \in DOMAIN path, Lose(i) PROVE PathLess
    <3>1. PICK m \in Nat : m = Len(path)
      BY <1>0
    <3>2. path' = SubSeq(path, 1, i - 1) \o SubSeq(path, i + 1, Len(path))
      BY <2>2 DEF Lose, RemoveAt
    <3>3. DOMAIN path = 1..m /\ i \in 1..m
      BY <1>0, <3>1
    <3>4. path' \in Seq(Frame)
      <4>1. SubSeq(path, 1, i - 1) \in Seq(Frame) /\ SubSeq(path, i + 1, Len(path)) \in Seq(Frame)
        BY <1>0, <3>1, <3>3
      <4> QED
        BY <3>2, <4>1
    <3>5. DOMAIN path' = 1..(m - 1) /\ \A j \in 1..(m - 1) : path'[j] = IF j < i THEN path[j] ELSE path[j + 1]
      <4>1. PICK a \in Seq(Frame), b \in Seq(Frame) : a = SubSeq(path, 1, i - 1) /\ b = SubSeq(path, i + 1, m)
        <5>1. SubSeq(path, 1, i - 1) \in Seq(Frame)
          BY <1>0, <3>1, <3>3
        <5>2. SubSeq(path, i + 1, m) \in Seq(Frame)
          BY <1>0, <3>1, <3>3
        <5> QED
          BY <5>1, <5>2, Zenon
      <4>2. Len(a) = i - 1 /\ \A j \in 1..(i - 1) : a[j] = path[j]
        BY <1>0, <3>1, <3>3, <4>1
      <4>3. Len(b) = m - i /\ \A j \in 1..(m - i) : b[j] = path[i + j]
        BY <1>0, <3>1, <3>3, <4>1
      <4>4. path' = a \o b
        BY <3>1, <3>2, <4>1
      <4>5. DOMAIN path' = 1..(m - 1)
        BY <3>3, <4>2, <4>3, <4>4
      <4>6. ASSUME NEW j \in 1..(m - 1) PROVE path'[j] = IF j < i THEN path[j] ELSE path[j + 1]
        <5>1. CASE j < i
          <6>1. j \in 1..(i - 1)
            BY <3>3, <5>1
          <6> QED
            BY <3>3, <4>2, <4>4, <5>1, <6>1
        <5>2. CASE ~ (j < i)
          <6>1. PICK k \in 1..(m - i) : k = j - (i - 1)
            BY <3>3, <5>2
          <6>2. i + k = j + 1 /\ i \in Nat /\ k \in Nat /\ m \in Nat
            BY <3>3, <6>1
          <6>3. path'[j] = b[k]
            BY <3>3, <4>2, <4>3, <4>4, <5>2, <6>1
          <6> QED
            BY <4>3, <5>2, <6>2, <6>3
        <5> QED
          BY <5>1, <5>2
      <4> QED
        BY <4>5, <4>6
    <3>6. \A j \in 1..(m - 1) : j \in 1..m /\ j + 1 \in 1..m
      OBVIOUS
    <3>7. OnPath' \subseteq OnPath
      BY <3>3, <3>5, <3>6 DEF OnPath
    <3>8. \A j, k \in 1..m : j < k => path[j].id < path[k].id
      BY <3>3 DEF RepairIInv, PathInOrder
    <3>9. ASSUME NEW j \in 1..(m - 1), NEW k \in 1..(m - 1), j < k PROVE path'[j].id < path'[k].id
      <4>1. CASE k < i
        <5>1. j < i
          BY <3>3, <3>9, <4>1
        <5> QED
          BY <3>5, <3>6, <3>8, <3>9, <4>1, <5>1
      <4>2. CASE ~ (k < i) /\ j < i
        <5>1. j < k + 1
          BY <3>9
        <5> QED
          BY <3>5, <3>6, <3>8, <4>2, <5>1
      <4>3. CASE ~ (k < i) /\ ~ (j < i)
        <5>1. j + 1 < k + 1
          BY <3>9
        <5> QED
          BY <3>5, <3>6, <3>8, <4>3, <5>1
      <4> QED
        BY <4>1, <4>2, <4>3
    <3> QED
      BY <3>4, <3>5, <3>7, <3>9 DEF PathLess
  <2> QED
    BY <2>1, <2>2
<1>4. NoRefs \in RefsType
  BY DEF NoRefs, RefsType, None
<1>5. RepairTypeOK'
  <2>1. awaiting_key' \in BOOLEAN /\ can_repair' \in BOOLEAN /\ ltr_decoded' \in Nat /\ dec' \in RefsType
    <3>1. awaiting_key \in BOOLEAN /\ can_repair \in BOOLEAN /\ ltr_decoded \in Nat /\ dec \in RefsType /\ None \in Nat
      BY DEF RepairIInv, RepairTypeOK, None
    <3>2. CASE UNCHANGED <<awaiting_key, can_repair, ltr_decoded, dec>>
      BY <3>1, <3>2
    <3>3. CASE awaiting_key' = TRUE /\ can_repair' = FALSE /\ ltr_decoded' = None /\ dec' = NoRefs
      BY <1>4, <3>1, <3>3
    <3> QED
      BY <1>1, <3>2, <3>3
  <2> QED
    BY <1>1, <1>2, <1>3, <2>1 DEF RepairIInv, RepairTypeOK, PathLess
<1>6. InStep'
  BY <1>2 DEF RepairIInv, InStep
<1>7. PathInOrder' /\ FramesSorted'
  BY <1>1, <1>2, <1>3 DEF RepairIInv, PathInOrder, FramesSorted, PathLess, PlainFrom
<1>8. \A s, x : ClientHas(s, x) => ClientHas(s, x)'
  BY <1>1 DEF ClientHas
<1>9. \A x : Told(x)' => Told(x) \/ x = None
  BY <1>1, <1>2 DEF Told
<1>10. ASSUME NEW s, NEW x, x # None, SlotSound(s, x) PROVE SlotSound(s, x)'
  BY <1>2, <1>3, <1>8, <1>9, <1>10 DEF SlotSound, Spares, PathLess
<1>11. SlotsSound'
  <2> SUFFICES ASSUME NEW s \in Slots
               PROVE  /\ ltr'.slots[s].frame # None => SlotSound(s, ltr.slots[s].frame)'
                      /\ ltr'.slots[s].acked => ltr'.slots[s].frame # None
    BY DEF SlotsSound
  <2>1. PICK x : x = ltr.slots[s].frame
    OBVIOUS
  <2>2. x # None => SlotSound(s, x)
    BY <2>1 DEF RepairIInv, SlotsSound
  <2> QED
    BY <1>2, <1>10, <2>1, <2>2 DEF RepairIInv, SlotsSound
<1>12. RepairsSound'
  BY <1>3, <1>8 DEF RepairIInv, RepairsSound, Spares, PathLess
<1>13. Following' /\ PictureSound'
  <2>1. \A x \in Nat : Told(x) => x < expect
    BY DEF RepairIInv, Following
  <2>2. None \in Nat /\ None < expect
    BY DEF RepairIInv, PathInOrder, RepairTypeOK, None
  <2>3. \A x \in Nat : Told(x)' => x < expect'
    BY <1>1, <1>9, <2>1, <2>2
  <2> QED
    BY <1>1, <2>3 DEF RepairIInv, Following, PictureSound
<1> QED
  BY <1>5, <1>6, <1>7, <1>11, <1>12, <1>13 DEF RepairIInv

\* The client's decode loop takes the next frame.
LEMMA ReceiveKeeps == ASSUME RepairIInv, Receive PROVE RepairIInv'
<1>0. RepairTypeOK /\ InStep /\ PathInOrder /\ FramesSorted /\ SlotsSound /\ RepairsSound /\ Following /\ PictureSound
  BY DEF RepairIInv
<1>1. PICK f : f = Head(path)
  OBVIOUS
<1> DEFINE awaiting == awaiting_key \/ f.id # expect
<1>2. /\ path # <<>> /\ path' = Tail(path) /\ expect' = f.id + 1
      /\ UNCHANGED <<host, asks, reports>>
  BY <1>1 DEF Receive
<1>3. UNCHANGED <<ltr, keyframe, recover, ltr_acked, inputs, frame_id, enc, held, reports>>
  BY <1>2 DEF host
<1>4. /\ path \in Seq(Frame) /\ expect \in Nat /\ inputs \in Nat /\ frame_id \in Nat /\ frame_id = inputs + 1
      /\ dec \in RefsType /\ awaiting_key \in BOOLEAN /\ can_repair \in BOOLEAN /\ ltr_decoded \in Nat
  BY <1>0 DEF RepairTypeOK, InStep
<1>5. PICK m \in Nat : Len(path) = m + 1
  <2>1. Len(path) \in Nat /\ Len(path) # 0
    BY <1>2, <1>4
  <2> QED
    BY <2>1
<1>6. DOMAIN path = 1..(m + 1) /\ f = path[1] /\ DOMAIN path' = 1..m /\ \A i \in 1..m : path'[i] = path[i + 1]
  BY <1>1, <1>2, <1>4, <1>5
<1>7. f \in OnPath /\ f \in Frame
  BY <1>4, <1>5, <1>6 DEF OnPath
<1>8. f.id \in Nat /\ f.id >= expect /\ f.id <= inputs /\ f.pic.input = f.id
  BY <1>0, <1>4, <1>7 DEF PathInOrder
<1>9. PathLess
  <2>1. path' \in Seq(Frame)
    BY <1>2, <1>4
  <2>2. \A i \in 1..m : i + 1 \in 1..(m + 1)
    OBVIOUS
  <2>3. OnPath' \subseteq OnPath
    BY <1>6, <2>2 DEF OnPath
  <2>4. ASSUME NEW i \in 1..m, NEW j \in 1..m, i < j PROVE path'[i].id < path'[j].id
    <3>1. i + 1 < j + 1
      BY <2>4
    <3>2. path[i + 1].id < path[j + 1].id
      BY <1>0, <1>6, <2>2, <3>1 DEF PathInOrder
    <3> QED
      BY <1>6, <3>2
  <2> QED
    BY <1>6, <2>1, <2>3, <2>4 DEF PathLess
<1>10. \A g \in OnPath' : g \in OnPath /\ g.id \in Nat /\ g.id > f.id
  <2> SUFFICES ASSUME NEW i \in 1..m PROVE path'[i].id > f.id /\ path'[i].id \in Nat
    BY <1>6, <1>9 DEF OnPath, PathLess
  <2>1. i + 1 \in 1..(m + 1) /\ 1 \in 1..(m + 1) /\ 1 < i + 1
    OBVIOUS
  <2>2. path[1].id < path[i + 1].id
    BY <1>0, <1>6, <2>1 DEF PathInOrder
  <2>3. path[i + 1] \in Frame
    BY <1>4, <1>6, <2>1
  <2> QED
    BY <1>6, <1>8, <2>2, <2>3 DEF Frame
\* The frame is skipped, decoded, or the decoder fails.
<1> DEFINE Skipped == /\ Skips(f, awaiting) /\ awaiting_key' = awaiting
                      /\ UNCHANGED <<can_repair, ltr_decoded, dec, sound>>
           Decoded == /\ ~Skips(f, awaiting) /\ awaiting_key' = FALSE
                      /\ sound' = (sound /\ (f.pic.key \/ dec[f.pic.from] = f.pic.src))
                      /\ dec' = After(dec, f.pic)
                      /\ can_repair' = (can_repair \/ f.pic.key)
                      /\ ltr_decoded' = IF f.ltr THEN f.id ELSE ltr_decoded
           Failed == /\ ~Skips(f, awaiting) /\ awaiting_key' = TRUE
                     /\ can_repair' = FALSE /\ dec' = NoRefs
                     /\ UNCHANGED <<ltr_decoded, sound>>
<1>11. Skipped \/ Decoded \/ Failed
  BY <1>1 DEF Receive
<1>12. /\ After(dec, f.pic) \in RefsType /\ After(dec, f.pic)[Prev] = f.id
       /\ \A s \in Slots : f.pic.mark = s => After(dec, f.pic)[s] = f.id
       /\ \A s \in Slots : Spares(f, s) => After(dec, f.pic)[s] = dec[s]
  BY <1>4, <1>7, <1>8, AfterFacts
<1>13. /\ f.ltr = (f.pic.mark # NoSlot) /\ (f.pic.key => ~f.ltr /\ ~f.recovery)
       /\ ~f.pic.key => f.recovery \/ PlainFrom(f)
  BY <1>0, <1>7 DEF FramesSorted
<1>14. f.pic.key \in BOOLEAN /\ f.ltr \in BOOLEAN /\ f.recovery \in BOOLEAN /\ f.pic.mark \in Slots \union {NoSlot}
  BY <1>7 DEF Frame, Picture
<1>15. RepairTypeOK'
  <2>1. awaiting_key' \in BOOLEAN /\ can_repair' \in BOOLEAN /\ ltr_decoded' \in Nat /\ dec' \in RefsType
    <3>1. NoRefs \in RefsType
      BY DEF NoRefs, RefsType, None
    <3>2. CASE Skipped
      BY <1>4, <3>2
    <3>3. CASE Decoded
      BY <1>4, <1>8, <1>12, <1>14, <3>3
    <3>4. CASE Failed
      BY <1>4, <3>1, <3>4
    <3> QED
      BY <1>11, <3>2, <3>3, <3>4
  <2>2. sound' \in BOOLEAN
    BY <1>0, <1>11 DEF RepairTypeOK
  <2>3. expect' \in Nat
    BY <1>2, <1>8
  <2> QED
    BY <1>0, <1>3, <1>9, <2>1, <2>2, <2>3 DEF RepairTypeOK, PathLess
<1>16. InStep'
  BY <1>0, <1>3 DEF InStep
<1>17. PathInOrder'
  <2>1. expect' \in 1..frame_id'
    BY <1>2, <1>3, <1>4, <1>8
  <2>2. \A g \in OnPath' : g.id \in expect'..inputs' /\ g.pic.input = g.id
    BY <1>0, <1>2, <1>3, <1>4, <1>8, <1>10 DEF PathInOrder
  <2> QED
    BY <1>9, <2>1, <2>2 DEF PathInOrder, PathLess
<1>18. FramesSorted'
  BY <1>0, <1>10 DEF FramesSorted, PlainFrom
\* What the client has of the frames before, it keeps unless this one changes it.
<1>19. ASSUME NEW s \in Slots, NEW x \in Nat, ClientHas(s, x), Spares(f, s) PROVE ClientHas(s, x)'
  <2>1. x < expect'
    BY <1>2, <1>4, <1>8, <1>19 DEF ClientHas
  <2>2. ~f.pic.key /\ (can_repair => dec[s] = x)
    BY <1>19 DEF ClientHas, Spares
  <2>3. can_repair' => can_repair
    BY <1>11, <2>2
  <2>4. can_repair' => dec'[s] = dec[s]
    BY <1>11, <1>12, <1>19
  <2> QED
    BY <2>1, <2>2, <2>3, <2>4 DEF ClientHas
<1>20. \A x : Told(x)' => Told(x) \/ (x = f.id /\ Decoded /\ f.ltr)
  BY <1>3, <1>11 DEF Told
<1> HIDE DEF Skipped, Decoded, Failed
<1>21. \A x \in Nat : Told(x) => x < expect
  BY <1>0 DEF Following
<1>22. ASSUME NEW s \in Slots, NEW x \in Nat, x # None, x = ltr.slots[s].frame PROVE SlotSound(s, x)'
  <2>1. SlotSound(s, x)
    BY <1>0, <1>22 DEF SlotsSound
  <2>2. x <= inputs' /\ enc'[s] = x
    BY <1>3, <2>1 DEF SlotSound
  <2>3. \A g \in OnPath' : (g.id > x => Spares(g, s)) /\ (g.id = x => ~g.pic.key /\ g.pic.mark = s)
    BY <1>10, <2>1 DEF SlotSound
  <2>4. CASE x = f.id /\ Decoded
    <3>1. f.pic.mark = s
      BY <1>7, <2>1, <2>4 DEF SlotSound
    <3>2. dec'[s] = x /\ x < expect'
      BY <1>2, <1>8, <1>12, <2>4, <3>1 DEF Decoded
    <3>3. ClientHas(s, x)'
      BY <3>2 DEF ClientHas
    <3> QED
      BY <2>2, <2>3, <3>3 DEF SlotSound, Spares
  <2>5. CASE ~ (x = f.id /\ Decoded)
    <3>1. ASSUME ltr'.slots[s].acked \/ Told(x)' PROVE ClientHas(s, x)'
      <4>1. ltr.slots[s].acked \/ Told(x)
        BY <1>3, <1>20, <2>5, <3>1
      <4>2. ClientHas(s, x)
        BY <2>1, <4>1 DEF SlotSound
      <4>3. f.id > x
        BY <1>4, <1>8, <4>2 DEF ClientHas
      <4>4. Spares(f, s)
        BY <1>7, <2>1, <4>3 DEF SlotSound
      <4> QED
        BY <1>19, <4>2, <4>4
    <3> QED
      BY <2>2, <2>3, <3>1 DEF SlotSound, Spares
  <2> QED
    BY <2>4, <2>5
<1>23. SlotsSound'
  <2> SUFFICES ASSUME NEW s \in Slots
               PROVE  /\ ltr'.slots[s].frame # None => SlotSound(s, ltr.slots[s].frame)'
                      /\ ltr'.slots[s].acked => ltr'.slots[s].frame # None
    BY DEF SlotsSound
  <2>1. PICK x \in Nat : x = ltr.slots[s].frame
    BY <1>0 DEF RepairTypeOK, LtrType
  <2>2. x # None => SlotSound(s, x)'
    BY <1>22, <2>1
  <2> QED
    BY <1>0, <1>3, <2>1, <2>2 DEF SlotsSound
<1>24. RepairsSound'
  <2>1. ASSUME NEW g \in OnPath', g.recovery
        PROVE  /\ g.pic.from \in Slots /\ g.pic.src # None /\ ClientHas(g.pic.from, g.pic.src)'
               /\ \A h \in OnPath' : h.id < g.id => Spares(h, g.pic.from)
    <3>1. /\ g.pic.from \in Slots /\ g.pic.src # None /\ ClientHas(g.pic.from, g.pic.src)
          /\ \A h \in OnPath : h.id < g.id => Spares(h, g.pic.from)
      BY <1>0, <1>10, <2>1 DEF RepairsSound
    <3>2. Spares(f, g.pic.from)
      BY <1>7, <1>8, <1>10, <3>1
    <3>3. g.pic.src \in Nat
      <4>1. g \in Frame
        BY <1>4, <1>10 DEF OnPath
      <4> QED
        BY <4>1 DEF Frame, Picture
    <3>4. ClientHas(g.pic.from, g.pic.src)'
      BY <1>19, <3>1, <3>2, <3>3
    <3> QED
      BY <1>10, <3>1, <3>4
  <2> QED
    BY <2>1 DEF RepairsSound, Spares
<1>25. Following'
  <2>1. \A x \in Nat : Told(x)' => x < expect'
    BY <1>2, <1>4, <1>8, <1>20, <1>21
  <2>2. ASSUME ~awaiting_key' PROVE can_repair' /\ dec'[Prev] = expect' - 1
    <3>1. CASE Skipped
      BY <2>2, <3>1 DEF Skipped, Skips
    <3>2. CASE Failed
      BY <2>2, <3>2 DEF Failed
    <3>3. CASE Decoded
      <4>1. dec'[Prev] = expect' - 1
        BY <1>2, <1>8, <1>12, <3>3 DEF Decoded
      <4>2. can_repair'
        <5>1. ~awaiting_key => can_repair
          BY <1>0 DEF Following
        <5>2. awaiting => f.pic.key \/ can_repair
          BY <3>3 DEF Decoded, Skips
        <5> QED
          BY <3>3, <5>1, <5>2 DEF Decoded
      <4> QED
        BY <4>1, <4>2
    <3> QED
      BY <1>11, <3>1, <3>2, <3>3
  <2> QED
    BY <2>1, <2>2 DEF Following
<1>26. PictureSound'
  <2>1. CASE ~Decoded
    BY <1>0, <1>11, <2>1 DEF Skipped, Failed, PictureSound
  <2>2. CASE Decoded
    <3>1. ASSUME ~f.pic.key PROVE dec[f.pic.from] = f.pic.src
      <4>1. CASE f.recovery
        <5>1. ClientHas(f.pic.from, f.pic.src)
          BY <1>0, <1>7, <4>1 DEF RepairsSound
        <5>2. can_repair
          BY <1>0, <2>2, <3>1, <4>1 DEF Decoded, Skips, Following
        <5> QED
          BY <5>1, <5>2 DEF ClientHas
      <4>2. CASE ~f.recovery
        <5>1. ~awaiting_key /\ f.id = expect
          BY <2>2, <3>1, <4>2 DEF Decoded, Skips
        <5>2. dec[Prev] = expect - 1
          BY <1>0, <5>1 DEF Following
        <5>3. f.pic.from = Prev /\ f.pic.src = f.id - 1
          BY <1>13, <3>1, <4>2 DEF PlainFrom
        <5> QED
          BY <5>1, <5>2, <5>3
      <4> QED
        BY <4>1, <4>2
    <3> QED
      BY <1>0, <2>2, <3>1 DEF Decoded, PictureSound
  <2> QED
    BY <2>1, <2>2
<1> QED
  BY <1>15, <1>16, <1>17, <1>18, <1>23, <1>24, <1>25, <1>26 DEF RepairIInv

\* With an encoder that holds nothing back (NVENC), the client never decodes a
\* frame without the very pictures it was coded from, for any number of slots,
\* any rate of repairs and a path of any length, whatever frames, requests and
\* reports are lost or late and whenever encoder or decoder start anew.
THEOREM PictureAlwaysSound == HELD = 0 => (RepairSpec => []PictureSound)
<1> SUFFICES ASSUME HELD = 0 PROVE RepairSpec => []PictureSound
  OBVIOUS
<1>1. ASSUME RepairIInv, [RepairNext]_repairVars PROVE RepairIInv'
  <2>1. ASSUME NEW kept \in 0..REPAIRS_PER_SEC, NEW due \in BOOLEAN, NEW own \in BOOLEAN, NEW n \in 0..(HELD + 1),
               Encode(kept, due, own, n)
        PROVE  RepairIInv'
    <3>1. kept \in Nat /\ n \in Nat
      BY <1>1, RepairAssumption
    <3> QED
      BY <1>1, <2>1, <3>1, EncodeKeeps
  <2>2. CASE UNCHANGED repairVars
    <3>1. /\ UNCHANGED <<ltr, inputs, frame_id, enc, held, path, expect, can_repair, ltr_decoded, dec, sound>>
          /\ UNCHANGED <<keyframe, recover, ltr_acked, reports, awaiting_key>>
      BY <2>2 DEF repairVars, host, client
    <3>2. \A x : Told(x)' => Told(x)
      BY <3>1 DEF Told
    <3>3. /\ keyframe \in BOOLEAN /\ recover \in BOOLEAN /\ ltr_acked \in Nat /\ reports \in SUBSET Nat
          /\ awaiting_key \in BOOLEAN
      BY <1>1 DEF RepairIInv, RepairTypeOK
    <3> QED
      BY <1>1, <3>1, <3>2, <3>3, RepairQuiet
  <2>3. CASE RepairNext
    BY <1>1, <2>1, <2>3, TalkKeeps, ReopenKeeps, LossKeeps, ReceiveKeeps DEF RepairNext
  <2> QED
    BY <1>1, <2>2, <2>3
<1>2. RepairIInv => PictureSound
  BY DEF RepairIInv
<1> QED
  BY <1>1, <1>2, RepairInitIInv, PTL DEF RepairSpec
=============================================================================
