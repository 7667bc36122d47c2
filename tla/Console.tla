------------------------------ MODULE Console ------------------------------
(***************************************************************************)
(* Who locks the console a stream unlocked.  The Hyper service             *)
(* (hyper_direct.rs: service_main, control_handler, supervise, hand_off,   *)
(* stop_agent) keeps one agent (run_console_agent) in the console session; *)
(* the agent streams, and before it does it writes a marker file naming    *)
(* the session and its sign-in (hyper_host.rs: mark_streaming), which it   *)
(* removes once the console is locked (clear_streaming).  An agent that    *)
(* dies leaves the marker to its successor (recover_after_crash).          *)
(*                                                                         *)
(* Any agent may die at any step, with its last words (crash.rs) or        *)
(* without; every wait of the service may end by its timeout; the console  *)
(* may move and the PC restart.  A session that leaves the console needs a *)
(* sign-in to come back, so it counts as shut.  Left out: installing an    *)
(* update (Install), agents that cannot take the port (they die).          *)
(*                                                                         *)
(* ResetUnchecked, LockOwn, ClearFirst, GraceForgotten and KilledOnly are  *)
(* plausible bugs of Recheck, Recovered, WindDown, EndStream and           *)
(* NotWoundDown.                                                           *)
(***************************************************************************)
EXTENDS Naturals

CONSTANTS ConsoleSessions,    \* session numbers
          FromSignIn,  \* may a stream begin at the sign-in screen?
          MaxLogons, MaxDeaths, MaxRestarts

ASSUME ConsoleAssumption == FromSignIn \in BOOLEAN

NoLogon == 0                                   \* logon_time 0: nobody is signed in
NoMarker == [session |-> 0, logon |-> 0]

VARIABLES stop_flag, event,            \* STOP and the stop event
          svc, target, child,          \* supervise: where it is, the session it read, the child's (0: none)
          killed,                      \* stop_agent: it had to kill the agent
          agent, session, heard,       \* the agent: where it is, its session, STOP_REQUESTED
          grace, words,                \* grace_until; LAST_WORDS
          marker,                      \* hyper-streaming.json
          console, logon, screen,      \* Windows: the console's session, sign-in times, who opened a screen
          logons, deaths, restarts     \* bounded counts

service == <<svc, target, child, killed>>
process == <<agent, session, heard, grace, words>>
windows == <<console, logon, screen>>
counts  == <<logons, deaths, restarts>>
consoleVars == <<stop_flag, event, service, process, marker, windows, counts>>

ConsoleInit ==
  /\ stop_flag = "no" /\ event = FALSE
  /\ svc = "loop" /\ target = 0 /\ child = 0 /\ killed = FALSE
  /\ agent = "gone" /\ session = 0 /\ heard = FALSE /\ grace = FALSE /\ words = FALSE
  /\ marker = NoMarker
  /\ console \in ConsoleSessions /\ logon = [s \in ConsoleSessions |-> NoLogon] /\ screen = [s \in ConsoleSessions |-> "shut"]
  /\ logons = 0 /\ deaths = 0 /\ restarts = 0

Shut(s) == screen' = [screen EXCEPT ![s] = "shut"]

----------------------------------------------------------------------------
\* Windows and the people at either end.

\* Somebody signs in at the PC, or, where a stream shows the sign-in screen,
\* through it; or unlocks through a stream what is signed in.
SignIn(by) ==
  /\ logon[console] = NoLogon /\ logons < MaxLogons
  /\ by = "stream" => agent = "stream" /\ session = console
  /\ logons' = logons + 1 /\ logon' = [logon EXCEPT ![console] = logons']
  /\ screen' = [screen EXCEPT ![console] = by]
  /\ UNCHANGED <<stop_flag, event, service, process, marker, console, deaths, restarts>>
Unlock ==
  /\ agent = "stream" /\ session = console /\ logon[console] # NoLogon
  /\ screen' = [screen EXCEPT ![console] = "stream"]
  /\ UNCHANGED <<stop_flag, event, service, process, marker, console, logon, counts>>

\* A user switch or a sign-out: another session takes the console.
MoveConsole(s) ==
  /\ s # console
  /\ console' = s /\ Shut(console)
  /\ UNCHANGED <<stop_flag, event, service, process, marker, logon, counts>>

\* The PC restarts: only the marker file is left, and the service starts.
RestartPc ==
  /\ restarts < MaxRestarts /\ restarts' = restarts + 1
  /\ stop_flag' = "no" /\ event' = FALSE
  /\ svc' = "loop" /\ target' = 0 /\ child' = 0 /\ killed' = FALSE
  /\ agent' = "gone" /\ session' = 0 /\ heard' = FALSE /\ grace' = FALSE /\ words' = FALSE
  /\ logon' = [s \in ConsoleSessions |-> NoLogon] /\ screen' = [s \in ConsoleSessions |-> "shut"]
  /\ UNCHANGED <<marker, console, logons, deaths>>

\* control_handler: the flag, then the event.
TellStop ==
  /\ stop_flag = "no" /\ stop_flag' = "told"
  /\ UNCHANGED <<event, service, process, marker, windows, counts>>
SetStopEvent ==
  /\ stop_flag = "told" /\ stop_flag' = "set" /\ event' = TRUE
  /\ UNCHANGED <<service, process, marker, windows, counts>>
Stopping == stop_flag # "no"

----------------------------------------------------------------------------
\* The agent.

\* lock_session(), called in session s: nothing when the session is not on
\* the console or shows the sign-in screen.
LockSession(s) ==
  IF console # s \/ logon[s] = NoLogon THEN UNCHANGED screen ELSE Shut(s)

\* watch_for_stop: looked at before anything else, then by a thread.
StartAgent ==
  /\ agent = "starting" /\ agent' = "recover" /\ heard' = event
  /\ UNCHANGED <<stop_flag, event, service, session, grace, words, marker, windows, counts>>
Hear ==
  /\ agent \notin {"gone", "starting"} /\ event /\ ~heard /\ heard' = TRUE
  /\ UNCHANGED <<stop_flag, event, service, agent, session, grace, words, marker, windows, counts>>

\* recover_after_crash: the session the marker names, if it still is the
\* sign-in that was streamed, is locked or disconnected; then the marker goes.
SameLogon == marker.logon # NoLogon /\ logon[marker.session] = marker.logon
LockOwn == LockSession(session)
Recovered ==
  IF ~SameLogon THEN UNCHANGED screen
  ELSE IF marker.session # session THEN Shut(marker.session) ELSE LockSession(session)
RecoverLock ==
  /\ agent = "recover" /\ marker # NoMarker
  /\ Recovered /\ agent' = "recovered"
  /\ UNCHANGED <<stop_flag, event, service, session, heard, grace, words, marker, console, logon, counts>>

\* clear_streaming, after a recovery or a stream: an agent that only had to
\* recover ends.
Afterwards == IF heard THEN "gone" ELSE "listen"
RecoverDone ==
  /\ agent = "recovered" \/ (agent = "recover" /\ marker = NoMarker)
  /\ marker' = NoMarker /\ words' = FALSE /\ agent' = Afterwards
  /\ UNCHANGED <<stop_flag, event, service, session, heard, grace, windows, counts>>

\* A client signs in (stream(): mark_streaming before anything is shown).  A
\* desktop somebody had open is the stream's from here on.
BeginStream ==
  /\ agent = "listen" /\ ~heard
  /\ ~FromSignIn => logon[session] # NoLogon
  /\ agent' = "stream" /\ grace' = FALSE /\ words' = TRUE
  /\ marker' = [session |-> session, logon |-> logon[session]]
  /\ screen' = [screen EXCEPT ![session] = IF @ = "shut" THEN @ ELSE "stream"]
  /\ UNCHANGED <<stop_flag, event, service, session, heard, console, logon, counts>>

\* How a stream ends: the client is lost or told to come back (a grace), the
\* console moved, or it is over (a goodbye, an error, a stop).
GraceForgotten(how) == agent' = "listen" /\ grace' = FALSE
EndStream(how) ==
  CASE how = "lost" -> agent' = "listen" /\ grace' = TRUE
    [] how = "moved" -> agent' = "locked" /\ UNCHANGED grace
    [] OTHER -> agent' = "lock" /\ UNCHANGED grace
StreamEnds(how) ==
  /\ agent = "stream"
  /\ how = "moved" => heard /\ console # session
  /\ EndStream(how)
  /\ UNCHANGED <<stop_flag, event, service, session, heard, words, marker, windows, counts>>

\* The grace is over, or the service stops: lock, then clear.
GraceOver ==
  /\ agent = "listen" /\ grace /\ grace' = FALSE /\ agent' = "lock"
  /\ UNCHANGED <<stop_flag, event, service, session, heard, words, marker, windows, counts>>
AgentLeaves ==
  /\ agent = "listen" /\ heard /\ ~grace /\ agent' = "gone"
  /\ UNCHANGED <<stop_flag, event, service, session, heard, grace, words, marker, windows, counts>>
ClearFirst == agent' = "locked" /\ marker' = NoMarker /\ UNCHANGED <<words, screen>>
WindDown == agent' = "locked" /\ LockSession(session) /\ UNCHANGED <<marker, words>>
LockConsole ==
  /\ agent = "lock" /\ WindDown
  /\ UNCHANGED <<stop_flag, event, service, session, heard, grace, console, logon, counts>>
ClearStreaming ==
  /\ agent = "locked" /\ agent' = "listen" /\ marker' = NoMarker /\ words' = FALSE
  /\ UNCHANGED <<stop_flag, event, service, session, heard, grace, windows, counts>>

\* The agent dies, with its last words or (killed, no memory) without.
Die(handled) ==
  /\ agent # "gone" /\ deaths < MaxDeaths /\ deaths' = deaths + 1
  /\ agent' = "gone"
  /\ IF handled /\ words THEN LockSession(session) ELSE UNCHANGED screen
  /\ UNCHANGED <<stop_flag, event, service, session, heard, grace, words, marker, console, logon, logons, restarts>>

----------------------------------------------------------------------------
\* The service.

At(where) == svc = where
Kill == agent' = "gone"
Launch(s) ==
  /\ agent' = "starting" /\ session' = s /\ heard' = FALSE /\ grace' = FALSE /\ words' = FALSE

\* supervise: the flag, then the session and whether the child lives in it.
Loop ==
  /\ At("loop")
  /\ svc' = IF ~Stopping THEN "look" ELSE IF child # 0 THEN "stop_wait" ELSE "stopped"
  /\ UNCHANGED <<stop_flag, event, target, child, killed, process, marker, windows, counts>>
Look ==
  /\ At("look") /\ target' = console
  /\ CASE child = console /\ agent # "gone" -> svc' = "loop" /\ UNCHANGED <<event, child>>
       [] child = console /\ agent = "gone" -> svc' \in {"launch", "loop"} /\ child' = 0 /\ UNCHANGED event
       [] child = 0 -> svc' \in {"launch", "loop"} /\ UNCHANGED <<event, child>>
       [] OTHER -> svc' = "handoff_wait" /\ event' = TRUE /\ UNCHANGED child
  /\ UNCHANGED <<stop_flag, killed, process, marker, windows, counts>>
LaunchAgent ==
  /\ At("launch") /\ svc' = "loop"
  /\ child' = target /\ Launch(target)
  /\ UNCHANGED <<stop_flag, event, target, killed, marker, windows, counts>>
LaunchFails ==
  /\ At("launch") /\ svc' = "loop"
  /\ UNCHANGED <<stop_flag, event, target, child, killed, process, marker, windows, counts>>

\* hand_off: the old agent hears the event and gets its time; the event is
\* reset unless the service stops, set again if it began to meanwhile; then
\* what is left of the agent is killed.
HandOffWaited ==
  /\ At("handoff_wait")      \* it ended, or its time is up
  /\ svc' = IF Stopping THEN "handoff_kill" ELSE "handoff_reset"
  /\ UNCHANGED <<stop_flag, event, target, child, killed, process, marker, windows, counts>>
HandOffReset ==
  /\ At("handoff_reset") /\ svc' = "handoff_recheck" /\ event' = FALSE
  /\ UNCHANGED <<stop_flag, target, child, killed, process, marker, windows, counts>>
ResetUnchecked == UNCHANGED event
Recheck == event' = (event \/ Stopping)
HandOffRecheck ==
  /\ At("handoff_recheck") /\ svc' = "handoff_kill" /\ Recheck
  /\ UNCHANGED <<stop_flag, target, child, killed, process, marker, windows, counts>>
HandOffKill ==
  /\ At("handoff_kill") /\ svc' = "launch" /\ child' = 0 /\ Kill
  /\ UNCHANGED <<stop_flag, event, target, killed, session, heard, grace, words, marker, windows, counts>>

\* stop_agent: wait or kill; a marker that is left gets an agent that only
\* recovers; if it did not, the session is disconnected.
StopWait(late) ==
  /\ At("stop_wait") /\ (late \/ agent = "gone")
  /\ svc' = IF marker # NoMarker THEN "stop_launch" ELSE "stop_end"
  /\ killed' = late /\ Kill
  /\ UNCHANGED <<stop_flag, event, target, child, session, heard, grace, words, marker, windows, counts>>
StopLaunch ==
  /\ At("stop_launch")
  /\ \/ Launch(child) /\ svc' = "stop_recover"
     \/ UNCHANGED process /\ svc' = "stop_end"
  /\ UNCHANGED <<stop_flag, event, target, child, killed, marker, windows, counts>>
StopRecovered ==
  /\ At("stop_recover") /\ Kill      \* it ended, or its time is up
  /\ svc' = IF marker = NoMarker THEN "stopped" ELSE "stop_end"
  /\ UNCHANGED <<stop_flag, event, target, child, killed, session, heard, grace, words, marker, windows, counts>>
KilledOnly == killed
NotWoundDown == killed \/ marker # NoMarker
StopEnd ==
  /\ At("stop_end") /\ svc' = "stopped"
  /\ IF NotWoundDown THEN Shut(child) ELSE UNCHANGED screen
  /\ UNCHANGED <<stop_flag, event, target, child, killed, process, marker, console, logon, counts>>

----------------------------------------------------------------------------
People == SignIn("person") \/ SignIn("stream") \/ Unlock \/ RestartPc \/ \E s \in ConsoleSessions : MoveConsole(s)
Control == TellStop \/ SetStopEvent
Agent ==
  \/ StartAgent \/ Hear \/ RecoverLock \/ RecoverDone \/ BeginStream
  \/ \E how \in {"lost", "moved", "over"} : StreamEnds(how)
  \/ GraceOver \/ AgentLeaves \/ LockConsole \/ ClearStreaming
  \/ \E handled \in BOOLEAN : Die(handled)
Service ==
  \/ Loop \/ Look \/ LaunchAgent \/ LaunchFails
  \/ HandOffWaited \/ HandOffReset \/ HandOffRecheck \/ HandOffKill
  \/ \E late \in BOOLEAN : StopWait(late)
  \/ StopLaunch \/ StopRecovered \/ StopEnd
ConsoleNext == People \/ Control \/ Agent \/ Service
ConsoleSpec == ConsoleInit /\ [][ConsoleNext]_consoleVars

\* Both processes run; a grace ends, a backoff ends, and Windows starts an
\* agent if asked often enough.  No fairness for people, deaths or stops.
ConsoleFairness ==
  /\ WF_consoleVars(StartAgent \/ RecoverLock \/ RecoverDone \/ GraceOver \/ LockConsole \/ ClearStreaming)
  /\ WF_consoleVars(Loop \/ Look \/ HandOffWaited \/ HandOffReset \/ HandOffRecheck \/ HandOffKill
                      \/ LaunchAgent \/ LaunchFails)
  /\ WF_consoleVars(StopWait(TRUE) \/ StopLaunch \/ StopRecovered \/ StopEnd)
  /\ SF_consoleVars(Look /\ svc' = "launch") /\ SF_consoleVars(LaunchAgent)
----------------------------------------------------------------------------
\* A console a stream left open is never forgotten: while it is open, the
\* marker names it and its sign-in, whatever dies when, so an agent can lock
\* it (mark_streaming, clear_streaming, recover_after_crash).  The comment of
\* stop_agent has it the other way round (hyper_direct.rs: "its marker may be
\* gone already (cleared before the display is put back and the console
\* locked)"); the agent's code locks first and clears last.
OpenIsMarked ==
  \A s \in ConsoleSessions : screen[s] = "stream" => marker = [session |-> s, logon |-> logon[s]]

\* The next agent locks what a dead one left open (docs/hyper.md, Security):
\* when it has recovered, no stream's console is open.
RecoveryLocks == agent = "recovered" => \A s \in ConsoleSessions : screen[s] # "stream"

\* Recovery never shuts what somebody opened at the PC: not the newcomer's
\* session after the console moved, nor a fresh sign-in after a restart.
NewcomerUntouched ==
  [][RecoverLock => \A s \in ConsoleSessions : screen[s] = "person" => screen'[s] = "person"]_consoleVars

\* A stop is not lost in a hand-off that resets the event at the same moment:
\* past it, the event of a stop that was signalled is set.
StopStaysSet == stop_flag = "set" /\ svc # "handoff_recheck" => event

\* A console a stream left open (a lost client, a dead agent) is locked in the
\* end, or streamed again, and a stop of the service sees to it, if its child
\* was in that session: with no child nobody looks, and with one elsewhere
\* stop_agent disconnects the child's session and not the one the marker names
\* (supervise, stop_agent, run_console_agent).
LeftIsLocked ==
  \A s \in ConsoleSessions :
    screen[s] = "stream" /\ agent # "stream"
      ~> (screen[s] # "stream" \/ agent = "stream" \/ (svc = "stopped" /\ child # s))
=============================================================================
