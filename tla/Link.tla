-------------------------------- MODULE Link --------------------------------
(***************************************************************************)
(* The pump of the reliable channel (crates/rdp-client/src/hyper_link.rs:   *)
(* ReliableLink): both lanes behind one lock, a thread that sends what is   *)
(* due and sleeps on a condition variable, and threads that queue messages, *)
(* take datagrams in and stop it.  The channel itself is Reliable; here a   *)
(* lane is how much it may send, how much is unacknowledged and whether an  *)
(* acknowledgement is being held back.  A notification reaches the pump     *)
(* only while it waits.                                                     *)
(*                                                                         *)
(* SendQuiet is a plausible bug of Send.                                    *)
(***************************************************************************)
EXTENDS Naturals, FiniteSets

CONSTANTS LinkLanes, Callers,  \* Lane::ALL; the threads that use the link
          LinkWindow,      \* chunks a lane may have unacknowledged
          MaxQueued        \* bound: chunks waiting in a lane

ASSUME LinkAssumption == LinkWindow \in Nat \ {0} /\ MaxQueued \in Nat \ {0}

VARIABLES queued, unsettled,   \* a lane: chunks not sent yet, chunks not acknowledged
          ack_held,             \* lanes with an acknowledgement held back (ack_deadline)
          pump, wait, notified, out,   \* the pump thread; is `out` non-empty
          notify,              \* callers between unlocking and notify_one
          stop, nudged         \* the flag; nudge was called

laneVars == <<queued, unsettled, ack_held>>
pumpVars == <<pump, wait, notified, out>>
linkVars == <<laneVars, pumpVars, notify, stop, nudged>>

Locked == pump = "poll"
Backlog(l) == queued[l] + unsettled[l] > 0

\* ReliableLink::send: under the lock, then notify.
SendQuiet(c, l) ==
  /\ ~Locked /\ c \notin notify /\ queued[l] < MaxQueued
  /\ queued' = [queued EXCEPT ![l] = @ + 1]
  /\ UNCHANGED <<unsettled, ack_held, pumpVars, notify, stop, nudged>>
Send(c, l) ==
  /\ ~Locked /\ c \notin notify /\ queued[l] < MaxQueued
  /\ queued' = [queued EXCEPT ![l] = @ + 1]
  /\ notify' = notify \union {c}
  /\ UNCHANGED <<unsettled, ack_held, pumpVars, stop, nudged>>

\* on_packet with an acknowledgement: the window may have opened.
OnAck(c, l) ==
  /\ ~Locked /\ c \notin notify /\ unsettled[l] > 0
  /\ unsettled' = [unsettled EXCEPT ![l] = @ - 1]
  /\ notify' = notify \union {c}
  /\ UNCHANGED <<queued, ack_held, pumpVars, stop, nudged>>

\* on_packet with data: the acknowledgement is sent back at once, with what
\* was held, or it is held back for the pump.
OnData(c, l, batched) ==
  /\ ~Locked /\ c \notin notify
  /\ ack_held' = IF batched THEN ack_held \union {l} ELSE ack_held \ {l}
  /\ notify' = IF batched THEN notify \union {c} ELSE notify
  /\ UNCHANGED <<queued, unsettled, pumpVars, stop, nudged>>

NotifyOne(c) ==
  /\ c \in notify /\ notify' = notify \ {c}
  /\ notified' = (notified \/ pump = "waiting")
  /\ UNCHANGED <<laneVars, pump, wait, out, stop, nudged>>

\* The owner stops the pump: the flag, then nudge; neither under the lock.
Stop == /\ ~stop /\ stop' = TRUE
        /\ UNCHANGED <<laneVars, pumpVars, notify, nudged>>
Nudge == /\ stop /\ ~nudged /\ nudged' = TRUE
         /\ notified' = (notified \/ pump = "waiting")
         /\ UNCHANGED <<laneVars, pump, wait, out, notify, stop>>

-----------------------------------------------------------------------------
(* The pump. *)

\* The loop's condition, with the lock held.
Check ==
  /\ pump = "check"
  /\ pump' = IF stop THEN "done" ELSE "poll"
  /\ UNCHANGED <<laneVars, wait, notified, out, notify, stop, nudged>>

\* One pass over the lanes: the acknowledgements whose delay passed, and what
\* each sender lets go (n of them; fewer than it may when it is paced, again
\* what timed out); then sleep if there was nothing to send.
MaySend(l) == IF queued[l] < LinkWindow - unsettled[l] THEN queued[l] ELSE LinkWindow - unsettled[l]
Wait(h, b) == IF h # {} THEN "ack" ELSE IF b # {} THEN "tick" ELSE "idle"
Poll(passed, n, again) ==
  /\ pump = "poll"
  /\ ack_held' = ack_held \ passed
  /\ queued' = [l \in LinkLanes |-> queued[l] - n[l]]
  /\ unsettled' = [l \in LinkLanes |-> unsettled[l] + n[l]]
  /\ out' = (passed # {} \/ again # {} \/ \E l \in LinkLanes : n[l] > 0)
  /\ wait' = Wait(ack_held \ passed, {l \in LinkLanes : Backlog(l)})
  /\ pump' = IF out' THEN "sending" ELSE "waiting"
  /\ notified' = FALSE
  /\ UNCHANGED <<notify, stop, nudged>>

\* wait_timeout returns, notified or not; what was polled is sent unlocked.
Wake == /\ pump = "waiting" /\ notified /\ pump' = "check"
        /\ UNCHANGED <<laneVars, wait, notified, out, notify, stop, nudged>>
Timeout == /\ pump = "waiting" /\ pump' = "check"
           /\ UNCHANGED <<laneVars, wait, notified, out, notify, stop, nudged>>
SendOut == /\ pump = "sending" /\ pump' = "check" /\ out' = FALSE
           /\ UNCHANGED <<laneVars, wait, notified, notify, stop, nudged>>

LinkInit ==
  /\ queued = [l \in LinkLanes |-> 0] /\ unsettled = [l \in LinkLanes |-> 0] /\ ack_held = {}
  /\ pump = "check" /\ wait = "idle" /\ notified = FALSE /\ out = FALSE
  /\ notify = {} /\ stop = FALSE /\ nudged = FALSE

PollSome ==
  \E passed \in SUBSET ack_held, again \in SUBSET {l \in LinkLanes : unsettled[l] > 0},
     n \in [LinkLanes -> 0..LinkWindow] :
       (\A l \in LinkLanes : n[l] <= MaySend(l)) /\ Poll(passed, n, again)

LinkNext ==
  \/ \E c \in Callers : \/ \E l \in LinkLanes : Send(c, l) \/ OnAck(c, l)
                        \/ \E l \in LinkLanes, batched \in BOOLEAN : OnData(c, l, batched)
                        \/ NotifyOne(c)
  \/ Stop \/ Nudge
  \/ Check \/ PollSome \/ Wake \/ Timeout \/ SendOut

\* The pump's thread runs, and a wait with a timeout ends.
LinkFairness == WF_linkVars(Check) /\ WF_linkVars(PollSome) /\ WF_linkVars(SendOut)
                /\ WF_linkVars(Wake \/ Timeout)

-----------------------------------------------------------------------------
\* The pump never sleeps through what must go out: asleep, with no
\* notification on its way to it, it wakes within a tick while anything is
\* queued or unacknowledged, and by the time a held acknowledgement is due.
NotSleptThrough ==
  pump = "waiting" /\ ~notified /\ notify = {} =>
    /\ (\E l \in LinkLanes : Backlog(l)) => wait # "idle"
    /\ ack_held # {} => wait = "ack"

=============================================================================
