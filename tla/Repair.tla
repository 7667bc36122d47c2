------------------------------- MODULE Repair -------------------------------
(***************************************************************************)
(* Repairing lost video frames without a keyframe: the host's plan for each *)
(* picture (Ltr of crates/rdp-hyper/src/ltr.rs), the host's encode loop     *)
(* that follows it (crates/rdp-client/src/hyper_host.rs), the encoder as    *)
(* that loop uses it, and the client's decode loop                          *)
(* (crates/rdp-client/src/hyper_client.rs), which says what it decoded and  *)
(* asks for a repair or a keyframe.                                         *)
(*                                                                         *)
(* Pictures are numbered as they enter the encoder, frames as they leave    *)
(* it; both numbers stay below their wrap.  Clocks are abstracted: a kept   *)
(* frame may be due or not, repairs may have aged out or not.  Frames reach *)
(* the client in order, some lost (what Reassembler promises).  The gradual *)
(* refresh (switch introfresh, off) and encoders without long-term          *)
(* references are left out.                                                 *)
(*                                                                         *)
(* ConfirmedOrNot is a plausible bug of the definition after it, which the   *)
(* properties catch.                                                        *)
(***************************************************************************)
EXTENDS Integers, FiniteSets, Sequences, SequencesExt

CONSTANTS SLOTS, REPAIRS_PER_SEC,   \* 2 and 3
          REPAIR_OK,    \* the switch repairok
          HELD,         \* pictures an encoder holds back until it gets more
          MaxInputs,    \* bound: pictures
          MaxPath       \* bound: frames on their way

ASSUME RepairAssumption ==
  /\ SLOTS \in Nat \ {0} /\ REPAIRS_PER_SEC \in Nat /\ HELD \in Nat
  /\ REPAIR_OK \in BOOLEAN

VARIABLES
  ltr,                                     \* the host's Ltr
  keyframe, recover, ltr_acked, key_wait,  \* what the host's threads share
  inputs, frame_id,                        \* pictures and frames so far
  enc, held,                               \* the encoder's references; held back
  path, asks, reports,                     \* on the way: frames; requests; feedback
  expect, awaiting_key, can_repair, ltr_decoded, dec,  \* the client
  sound                                    \* history: every decode had its references

host == <<ltr, keyframe, recover, ltr_acked, key_wait, inputs, frame_id, enc, held>>
client == <<expect, awaiting_key, can_repair, ltr_decoded, dec, sound>>
repairVars == <<host, client, path, asks, reports>>

None == 0                                  \* no frame, no picture (both count from 1)
NoSlot == -1
Slots == 0..(SLOTS - 1)
Prev == SLOTS                              \* the reference every frame leaves behind
NoRefs == [r \in Slots \union {Prev} |-> None]
NoFrame == [frame |-> None, acked |-> FALSE]

-----------------------------------------------------------------------------
(* Ltr *)

NewLtr == [slots |-> [s \in Slots |-> NoFrame], next_slot |-> 0, marking |-> {},
           repairing |-> None, repairs |-> 0, repaired |-> None]

\* Ltr::acked: the client decoded kept frame id.
Acked(l, id) ==
  LET slots == [s \in Slots |-> IF l.slots[s].frame = id THEN [l.slots[s] EXCEPT !.acked = TRUE] ELSE l.slots[s]]
      works == REPAIR_OK /\ l.repaired # None /\ id > l.repaired
  IN [l EXCEPT !.slots = slots,
               !.repairs = IF works THEN 0 ELSE @,
               !.repaired = IF works THEN None ELSE @]

\* The slots a repair may be coded from.
ConfirmedOrNot(l) == {s \in Slots : l.slots[s].frame # None}
Confirmed(l) == {s \in Slots : l.slots[s].acked}

\* The one of them with the newest frame.
Newest(l) == CHOOSE s \in Confirmed(l) : \A t \in Confirmed(l) : l.slots[t].frame <= l.slots[s].frame

\* Slot s is being refilled: it counts for nothing until the client has it.
Refill(l, s) == [l.slots EXCEPT ![s] = NoFrame]

NextSlot(s) == (s + 1) % SLOTS

\* Ltr::plan for picture input: kept is how many repairs were within a second,
\* due whether a frame is to be kept now.
Plan(l, input, rec, key, kept, due) ==
  LET plain == [key |-> FALSE, mark |-> NoSlot, from |-> Prev]
  IN CASE key -> [l |-> l, plan |-> [plain EXCEPT !.key = rec]]
       [] ~key /\ rec /\ Confirmed(l) # {} /\ kept < REPAIRS_PER_SEC ->
            [l |-> [l EXCEPT !.repairs = kept + 1, !.repairing = input], plan |-> [plain EXCEPT !.from = Newest(l)]]
       [] ~key /\ rec /\ (Confirmed(l) = {} \/ kept >= REPAIRS_PER_SEC) ->
            [l |-> [l EXCEPT !.repairs = 0], plan |-> [plain EXCEPT !.key = TRUE]]
       [] ~key /\ ~rec /\ due ->
            [l |-> [l EXCEPT !.next_slot = NextSlot(@), !.slots = Refill(l, l.next_slot),
                             !.marking = @ \union {<<input, l.next_slot>>}],
             plan |-> [plain EXCEPT !.mark = l.next_slot]]
       [] OTHER -> [l |-> l, plan |-> plain]

\* A keyframe clears every reference, the client's too.
Cleared(l, key) == IF key THEN [s \in Slots |-> NoFrame] ELSE l.slots

\* Ltr::sent: picture pic went out as frame id.
Sent(l, pic, id) ==
  LET kept == {m \in l.marking : m[1] = pic.input /\ ~pic.key}
      repair == l.repairing = pic.input /\ ~pic.key
  IN [l |-> [l EXCEPT
               !.slots = [s \in Slots |-> IF <<pic.input, s>> \in kept THEN [frame |-> id, acked |-> FALSE]
                                          ELSE Cleared(l, pic.key)[s]],
               !.marking = {m \in @ : m[1] > pic.input},
               !.repairing = IF @ <= pic.input THEN None ELSE @,
               !.repairs = IF pic.key THEN 0 ELSE @,
               !.repaired = IF repair THEN id ELSE IF pic.key THEN None ELSE @],
      frame |-> [id |-> id, pic |-> pic, ltr |-> kept # {}, recovery |-> repair]]

-----------------------------------------------------------------------------
(* The host's encode loop, and the encoder *)

\* The references once picture p is coded, or decoded.
After(refs, p) == [r \in DOMAIN refs |-> IF r \in {Prev, p.mark} THEN p.input
                                         ELSE IF p.key THEN None ELSE refs[r]]

\* The picture as coded: a keyframe when asked for, planned, the first, or the
\* encoder's own; else from the slot asked for, if there is anything in it.
Coded(plan, own) ==
  LET key == keyframe \/ plan.key \/ own \/ enc[Prev] = None
      from == IF enc[plan.from] = None THEN Prev ELSE plan.from
  IN [input |-> inputs + 1, key |-> key,
      mark |-> IF key THEN NoSlot ELSE plan.mark,
      from |-> from, src |-> IF key THEN None ELSE enc[from]]

\* One access unit out of the encoder becomes a frame.
SendOne(st, p) == LET s == Sent(st.l, p, st.id)
                  IN [l |-> s.l, id |-> st.id + 1, frames |-> Append(st.frames, s.frame)]
SendAll(st, pics) == LET after[i \in 0..Len(pics)] == IF i = 0 THEN st ELSE SendOne(after[i - 1], pics[i])
                     IN after[Len(pics)]

\* One picture into the encoder, n access units out of it.
Encode(kept, due, own, n) ==
  LET l1 == IF ltr_acked = None THEN ltr ELSE Acked(ltr, ltr_acked)
      planned == Plan(l1, inputs + 1, recover, keyframe, kept, due)
      pic == Coded(planned.plan, own)
      waiting == Append(held, pic)
      out == SendAll([l |-> planned.l, id |-> frame_id, frames |-> <<>>], SubSeq(waiting, 1, n))
  IN
  /\ inputs < MaxInputs /\ Len(path) + n <= MaxPath
  /\ n <= Len(held) + 1 /\ Len(held) + 1 - n <= HELD
  /\ kept <= l1.repairs
  /\ ltr' = out.l /\ frame_id' = out.id
  /\ path' = path \o out.frames
  /\ held' = SubSeq(waiting, n + 1, Len(waiting))
  /\ enc' = After(enc, pic) /\ inputs' = inputs + 1
  /\ keyframe' = FALSE /\ recover' = FALSE
  /\ key_wait' = (key_wait \/ \E i \in DOMAIN out.frames : out.frames[i].pic.key)
  /\ UNCHANGED <<ltr_acked, client, asks, reports>>

\* The encoder failed: a new one, its references gone, and a keyframe.
Reopen == /\ ltr' = NewLtr /\ enc' = NoRefs /\ held' = <<>> /\ keyframe' = TRUE
          /\ enc # NoRefs
          /\ UNCHANGED <<recover, ltr_acked, key_wait, inputs, frame_id, client, path, asks, reports>>

\* Control::KeyframeRequest and Control::Recover, collapsed while a keyframe
\* is still on its way.
TakeAsk(a) ==
  /\ a \in asks /\ asks' = asks \ {a}
  /\ keyframe' = (keyframe \/ (a = "key" /\ ~key_wait))
  /\ recover' = (recover \/ (a = "recover" /\ ~key_wait))
  /\ UNCHANGED <<ltr, ltr_acked, key_wait, inputs, frame_id, enc, held, client, path, reports>>

\* The keyframe arrived, was given up, or should have by now.
KeyWaitOver == /\ key_wait /\ key_wait' = FALSE
               /\ UNCHANGED <<ltr, keyframe, recover, ltr_acked, inputs, frame_id, enc, held, client, path, asks, reports>>

\* Control::Feedback, with the newest kept frame the client decoded.
TakeReport(id) ==
  /\ id \in reports /\ reports' = reports \ {id}
  /\ ltr_acked' = id
  /\ UNCHANGED <<ltr, keyframe, recover, key_wait, inputs, frame_id, enc, held, client, path, asks>>

-----------------------------------------------------------------------------
(* The client's decode loop *)

\* The client must wait for a keyframe, or a repair it can use.
Skips(f, awaiting) == awaiting /\ ~f.pic.key /\ ~(f.recovery /\ can_repair)

\* The next frame; a hole before it was reported lost.
Receive ==
  LET f == Head(path)
      awaiting == awaiting_key \/ f.id # expect
  IN
  /\ path # <<>> /\ path' = Tail(path) /\ expect' = f.id + 1
  /\ \/ /\ Skips(f, awaiting) /\ awaiting_key' = awaiting
        /\ UNCHANGED <<can_repair, ltr_decoded, dec, sound>>
     \/ /\ ~Skips(f, awaiting) /\ awaiting_key' = FALSE          \* decoded
        /\ sound' = (sound /\ (f.pic.key \/ dec[f.pic.from] = f.pic.src))
        /\ dec' = After(dec, f.pic)
        /\ can_repair' = (can_repair \/ f.pic.key)
        /\ ltr_decoded' = IF f.ltr THEN f.id ELSE ltr_decoded
     \/ /\ ~Skips(f, awaiting) /\ awaiting_key' = TRUE           \* the decoder failed
        /\ can_repair' = FALSE /\ dec' = NoRefs
        /\ UNCHANGED <<ltr_decoded, sound>>
  /\ UNCHANGED <<host, asks, reports>>

\* A backlog is thrown away for a keyframe, or a window shown again asks for one.
Restart == /\ ~awaiting_key /\ awaiting_key' = TRUE
           /\ UNCHANGED <<host, path, asks, reports, expect, can_repair, ltr_decoded, dec, sound>>

\* A new decoder: another size, another GPU, one that failed too often.
NewDecoder == /\ awaiting_key' = TRUE /\ can_repair' = FALSE /\ ltr_decoded' = None /\ dec' = NoRefs
              /\ dec # NoRefs
              /\ UNCHANGED <<host, path, asks, reports, expect, sound>>

\* While frames are missing: a repair if what is decoded is sound (and not for
\* more than a second), else a keyframe.
Ask(a) == /\ awaiting_key /\ a \in {"key"} \union (IF can_repair THEN {"recover"} ELSE {})
          /\ a \notin asks /\ asks' = asks \union {a}
          /\ UNCHANGED <<host, client, path, reports>>

Report == /\ ltr_decoded # None /\ reports' = reports \union {ltr_decoded}
          /\ reports' # reports
          /\ UNCHANGED <<host, client, path, asks>>

\* The path loses a frame.  A request or report never taken is a lost one.
Lose(i) == /\ i \in DOMAIN path /\ path' = RemoveAt(path, i)
           /\ UNCHANGED <<host, client, asks, reports>>

RepairInit ==
  /\ ltr = NewLtr /\ keyframe = TRUE /\ recover = FALSE /\ ltr_acked = None /\ key_wait = FALSE
  /\ inputs = 0 /\ frame_id = 1 /\ enc = NoRefs /\ held = <<>>
  /\ path = <<>> /\ asks = {} /\ reports = {}
  /\ expect = 1 /\ awaiting_key = TRUE /\ can_repair = FALSE /\ ltr_decoded = None
  /\ dec = NoRefs /\ sound = TRUE

RepairNext ==
  \/ \E kept \in 0..REPAIRS_PER_SEC, due, own \in BOOLEAN, n \in 0..(HELD + 1) : Encode(kept, due, own, n)
  \/ Reopen
  \/ \E a \in asks : TakeAsk(a)
  \/ KeyWaitOver
  \/ \E id \in reports : TakeReport(id)
  \/ Receive
  \/ Restart
  \/ NewDecoder
  \/ \E a \in {"key", "recover"} : Ask(a)
  \/ Report
  \/ \E i \in DOMAIN path : Lose(i)

RepairSpec == RepairInit /\ [][RepairNext]_repairVars

-----------------------------------------------------------------------------
\* The client never decodes a frame without the very pictures it was coded
\* from: whatever is lost, late or restarted, what is shown is sound.
PictureSound == sound
=============================================================================
