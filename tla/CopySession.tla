---------------------------- MODULE CopySession ----------------------------
(***************************************************************************)
(* Which copy stream a process uses (CURRENT, SESSION and their users in    *)
(* crates/rdp-client/src/hyper_tcp.rs).  Each session's connecting thread   *)
(* (the host's listener, or the client's connector) brings one stream up    *)
(* and registers it; the stream's reader and writer threads end it; the     *)
(* session's end takes it away.  A stream is named by the session it was    *)
(* made for.  UnregisterAny is a plausible bug of Unregister.               *)
(***************************************************************************)
EXTENDS Naturals, FiniteSets

CONSTANT MaxSession      \* bound: sessions

ASSUME CopySessionAssumption == MaxSession \in Nat

VARIABLES SESSION, CURRENT,
          thread,     \* each session's connecting thread
          dead,       \* streams that ended
          leaving,    \* streams whose end() has yet to look at CURRENT
          ending      \* end_session is between its two steps

vars == <<SESSION, CURRENT, thread, dead, leaving, ending>>

Sessions == 0..MaxSession
NoStream == MaxSession + 1

Init == /\ SESSION = 0 /\ CURRENT = NoStream
        /\ thread = [s \in Sessions |-> "none"]
        /\ dead = {} /\ leaving = {} /\ ending = FALSE

\* host_offer or client_connect: the thread remembers the session it is for.
Connect(s) == /\ s = SESSION /\ thread[s] = "none" /\ ~ending
              /\ thread' = [thread EXCEPT ![s] = "connecting"]
              /\ UNCHANGED <<SESSION, CURRENT, dead, leaving, ending>>

\* Its last look at SESSION: the host's before it accepts the last connection
\* and waits for its hello, the client's before it starts the threads.
LookAtSession(s) == /\ thread[s] = "connecting"
                    /\ thread' = [thread EXCEPT ![s] = IF SESSION = s THEN "starting" ELSE "gone"]
                    /\ UNCHANGED <<SESSION, CURRENT, dead, leaving, ending>>

\* No connection in time, or a failed one.
GiveUp(s) == /\ thread[s] \in {"connecting", "starting"}
             /\ thread' = [thread EXCEPT ![s] = "gone"]
             /\ UNCHANGED <<SESSION, CURRENT, dead, leaving, ending>>

\* start_with: reader and writer threads run, then the stream is registered.
Start(s) == /\ thread[s] = "starting" /\ thread' = [thread EXCEPT ![s] = "running"]
            /\ UNCHANGED <<SESSION, CURRENT, dead, leaving, ending>>
Register(s) == /\ thread[s] = "running" /\ thread' = [thread EXCEPT ![s] = "up"]
               /\ CURRENT' = s
               /\ UNCHANGED <<SESSION, dead, leaving, ending>>

\* A reader or writer sees its connection end: BulkTcp::end, in two steps (also
\* for a stream another thread has ended).
Break(s) == /\ thread[s] \in {"running", "up"} /\ s \notin leaving
            /\ dead' = dead \union {s} /\ leaving' = leaving \union {s}
            /\ UNCHANGED <<SESSION, CURRENT, thread, ending>>
UnregisterAny(s) == NoStream
Unregister(s) == IF CURRENT = s THEN NoStream ELSE CURRENT
Leave(s) == /\ s \in leaving /\ leaving' = leaving \ {s}
            /\ CURRENT' = Unregister(s)
            /\ UNCHANGED <<SESSION, thread, dead, ending>>

\* end_session.
EndSession == /\ SESSION < MaxSession /\ ~ending
              /\ SESSION' = SESSION + 1 /\ ending' = TRUE
              /\ UNCHANGED <<CURRENT, thread, dead, leaving>>
TakeCurrent == /\ ending /\ ending' = FALSE
               /\ CURRENT' = NoStream
               /\ dead' = dead \union ({CURRENT} \ {NoStream})
               /\ UNCHANGED <<SESSION, thread, leaving>>

Next == \/ \E s \in Sessions : \/ Connect(s) \/ LookAtSession(s) \/ GiveUp(s) \/ Start(s) \/ Register(s)
                               \/ Break(s) \/ Leave(s)
        \/ EndSession
        \/ TakeCurrent

Spec == Init /\ [][Next]_vars

-----------------------------------------------------------------------------
\* hyper_tcp::current().
Current == IF CURRENT \in dead THEN NoStream ELSE CURRENT

\* A stream that works stays the one in use until its session ends or another
\* is registered: the late end of an older stream does not take it away.
EndsOnlyItself ==
  [][Current # NoStream /\ CURRENT' = NoStream => ending]_vars

\* "The session ended: its stream (or a listener still waiting) goes."
EndedSessionGone == ~ending /\ Current # NoStream => Current = SESSION
=============================================================================
