---------------------------- MODULE ConsoleProofs ----------------------------
(***************************************************************************)
(* While no stream begins at the sign-in screen, for any number of sessions,*)
(* sign-ins, deaths of the agent, stops and restarts of the PC: what a      *)
(* stream left open is named by the marker, and recovery locks nothing else.*)
(* ("~FromSignIn" is what the finding of MCConsoleSignIn shows to be needed.)*)
(* In every case a stop is not lost in a hand-off; and the guesses that the  *)
(* sign-in before a stream tests are rationed.                              *)
(***************************************************************************)
EXTENDS Console, SignIn, FiniteSetTheorems, TLAPS

-----------------------------------------------------------------------------
(* The inductive invariant *)

Types ==
  /\ console \in ConsoleSessions /\ logons \in Nat
  /\ DOMAIN screen = ConsoleSessions /\ logon \in [ConsoleSessions -> Nat]
  /\ \A s \in ConsoleSessions : logon[s] <= logons
  /\ marker \in [session : ConsoleSessions \union {0}, logon : Nat] /\ marker.logon <= logons

\* The agent lives in a session of the PC.
SessionKnown ==
  /\ agent # "gone" => session \in ConsoleSessions
  /\ svc \in {"handoff_wait", "handoff_reset", "handoff_recheck", "handoff_kill", "launch"} =>
       target \in ConsoleSessions
  /\ child \in ConsoleSessions \union {0}
  /\ svc \in {"stop_wait", "stop_launch"} => child \in ConsoleSessions

\* Only the console's session is open, and somebody is signed in to it.
OpenOnConsole == \A s \in ConsoleSessions : screen[s] # "shut" => s = console /\ logon[s] # NoLogon

\* While the agent streams, and until it has locked what it streamed, the
\* marker is its own; a grace is only waited for by an agent that listens.
MarkerIsOwn ==
  /\ agent = "stream" => logon[session] # NoLogon /\ marker = [session |-> session, logon |-> logon[session]]
  /\ agent = "lock" => marker.session = session
  /\ agent = "listen" /\ grace => marker.session = session
  /\ grace => agent \in {"listen", "gone"}

\* When the marker is about to go, nothing a stream opened is open; nor when an
\* agent just listens.
NothingLeft ==
  agent \in {"recovered", "locked"} \/ (agent = "listen" /\ ~grace) =>
    \A s \in ConsoleSessions : screen[s] # "stream"

\* What was opened at the PC is another sign-in than the marker's.
PersonFresh ==
  \A s \in ConsoleSessions : screen[s] = "person" => ~(marker.session = s /\ marker.logon = logon[s])

ConsoleIInv ==
  /\ Types /\ SessionKnown /\ OpenOnConsole /\ MarkerIsOwn /\ NothingLeft /\ PersonFresh /\ OpenIsMarked

-----------------------------------------------------------------------------
LEMMA ConsoleInitIInv == ConsoleInit => ConsoleIInv
  BY DEF ConsoleInit, ConsoleIInv, Types, SessionKnown, OpenOnConsole, MarkerIsOwn, NothingLeft,
         PersonFresh, OpenIsMarked, NoMarker, NoLogon

(* People *)

LEMMA SignInIInv ==
  ASSUME ConsoleIInv, ~FromSignIn, NEW by \in {"person", "stream"}, SignIn(by)
  PROVE  ConsoleIInv'
<1>1. by = "person"
  BY DEF SignIn, ConsoleIInv, MarkerIsOwn
<1>2. /\ logon' = [logon EXCEPT ![console] = logons + 1] /\ logons' = logons + 1
      /\ screen' = [screen EXCEPT ![console] = "person"] /\ logon[console] = NoLogon
      /\ UNCHANGED <<agent, session, grace, svc, target, child, marker, console>>
  BY <1>1 DEF SignIn, service, process
<1>3. Types'
  BY <1>2 DEF ConsoleIInv, Types
<1>4. SessionKnown' /\ OpenOnConsole'
  BY <1>2 DEF ConsoleIInv, Types, SessionKnown, OpenOnConsole, NoLogon
<1>5. MarkerIsOwn'
  BY <1>2 DEF ConsoleIInv, Types, SessionKnown, MarkerIsOwn, NoLogon
<1>6. NothingLeft' /\ PersonFresh'
  BY <1>2 DEF ConsoleIInv, Types, OpenOnConsole, NothingLeft, PersonFresh
<1>7. OpenIsMarked'
  BY <1>2 DEF ConsoleIInv, Types, OpenOnConsole, OpenIsMarked
<1> QED
  BY <1>3, <1>4, <1>5, <1>6, <1>7 DEF ConsoleIInv

LEMMA UnlockIInv == ConsoleIInv /\ Unlock => ConsoleIInv'
  BY DEF Unlock, ConsoleIInv, Types, SessionKnown, OpenOnConsole, MarkerIsOwn, NothingLeft,
         PersonFresh, OpenIsMarked, service, process, counts

LEMMA MoveConsoleIInv ==
  ASSUME ConsoleIInv, NEW s \in ConsoleSessions, MoveConsole(s)
  PROVE  ConsoleIInv'
  BY DEF MoveConsole, Shut, ConsoleIInv, Types, SessionKnown, OpenOnConsole, MarkerIsOwn, NothingLeft,
         PersonFresh, OpenIsMarked, service, process, counts

LEMMA RestartPcIInv == ConsoleIInv /\ RestartPc => ConsoleIInv'
  BY DEF RestartPc, ConsoleIInv, Types, SessionKnown, OpenOnConsole, MarkerIsOwn, NothingLeft,
         PersonFresh, OpenIsMarked, NoLogon

(* The agent *)

\* Steps of the agent that change neither what is open nor the marker, nor come
\* to clear it.
LEMMA QuietIInv ==
  ConsoleIInv /\ (StartAgent \/ Hear \/ GraceOver \/ AgentLeaves) => ConsoleIInv'
  BY DEF StartAgent, Hear, GraceOver, AgentLeaves, service, windows, counts,
         ConsoleIInv, Types, SessionKnown, OpenOnConsole, MarkerIsOwn, NothingLeft,
         PersonFresh, OpenIsMarked

LEMMA RecoverLockIInv == ConsoleIInv /\ RecoverLock => ConsoleIInv'
  BY DEF RecoverLock, Recovered, SameLogon, LockSession, Shut, service, counts, NoLogon,
         ConsoleIInv, Types, SessionKnown, OpenOnConsole, MarkerIsOwn, NothingLeft,
         PersonFresh, OpenIsMarked

LEMMA RecoverDoneIInv == ConsoleIInv /\ RecoverDone => ConsoleIInv'
  BY DEF RecoverDone, Afterwards, NoMarker, NoLogon, service, windows, counts,
         ConsoleIInv, Types, SessionKnown, OpenOnConsole, MarkerIsOwn, NothingLeft,
         PersonFresh, OpenIsMarked

LEMMA BeginStreamIInv == ConsoleIInv /\ ~FromSignIn /\ BeginStream => ConsoleIInv'
  BY DEF BeginStream, service, counts, NoLogon,
         ConsoleIInv, Types, SessionKnown, OpenOnConsole, MarkerIsOwn, NothingLeft,
         PersonFresh, OpenIsMarked

LEMMA StreamEndsIInv ==
  ASSUME ConsoleIInv, NEW how \in {"lost", "moved", "over"}, StreamEnds(how)
  PROVE  ConsoleIInv'
  BY DEF StreamEnds, EndStream, service, windows, counts,
         ConsoleIInv, Types, SessionKnown, OpenOnConsole, MarkerIsOwn, NothingLeft,
         PersonFresh, OpenIsMarked

LEMMA LockConsoleIInv == ConsoleIInv /\ LockConsole => ConsoleIInv'
  BY DEF LockConsole, WindDown, LockSession, Shut, service, counts,
         ConsoleIInv, Types, SessionKnown, OpenOnConsole, MarkerIsOwn, NothingLeft,
         PersonFresh, OpenIsMarked

LEMMA ClearStreamingIInv == ConsoleIInv /\ ClearStreaming => ConsoleIInv'
  BY DEF ClearStreaming, NoMarker, NoLogon, service, windows, counts,
         ConsoleIInv, Types, SessionKnown, OpenOnConsole, MarkerIsOwn, NothingLeft,
         PersonFresh, OpenIsMarked

LEMMA DieIInv ==
  ASSUME ConsoleIInv, NEW handled \in BOOLEAN, Die(handled)
  PROVE  ConsoleIInv'
  BY DEF Die, LockSession, Shut, service,
         ConsoleIInv, Types, SessionKnown, OpenOnConsole, MarkerIsOwn, NothingLeft,
         PersonFresh, OpenIsMarked

(* The service and its controls *)

LEMMA ControlIInv == ConsoleIInv /\ Control => ConsoleIInv'
  BY DEF Control, TellStop, SetStopEvent, service, process, windows, counts,
         ConsoleIInv, Types, SessionKnown, OpenOnConsole, MarkerIsOwn, NothingLeft,
         PersonFresh, OpenIsMarked

LEMMA SuperviseIInv ==
  ConsoleIInv /\ (Loop \/ Look \/ LaunchAgent \/ LaunchFails) => ConsoleIInv'
  BY DEF Loop, Look, LaunchAgent, LaunchFails, Launch, At, process, windows, counts,
         ConsoleIInv, Types, SessionKnown, OpenOnConsole, MarkerIsOwn, NothingLeft,
         PersonFresh, OpenIsMarked

LEMMA HandOffIInv ==
  ConsoleIInv /\ (HandOffWaited \/ HandOffReset \/ HandOffRecheck \/ HandOffKill) => ConsoleIInv'
  BY DEF HandOffWaited, HandOffReset, HandOffRecheck, HandOffKill, Kill, At, process, windows, counts,
         ConsoleIInv, Types, SessionKnown, OpenOnConsole, MarkerIsOwn, NothingLeft,
         PersonFresh, OpenIsMarked

LEMMA StopAgentIInv ==
  ASSUME ConsoleIInv,
         (\E late \in BOOLEAN : StopWait(late)) \/ StopLaunch \/ StopRecovered \/ StopEnd
  PROVE  ConsoleIInv'
  BY DEF StopWait, StopLaunch, StopRecovered, StopEnd, Launch, Kill, Shut, At, process, windows, counts,
         ConsoleIInv, Types, SessionKnown, OpenOnConsole, MarkerIsOwn, NothingLeft,
         PersonFresh, OpenIsMarked

-----------------------------------------------------------------------------
LEMMA ConsoleStepIInv == ConsoleIInv /\ ~FromSignIn /\ [ConsoleNext]_consoleVars => ConsoleIInv'
<1> SUFFICES ASSUME ConsoleIInv, ~FromSignIn, [ConsoleNext]_consoleVars PROVE ConsoleIInv'
  OBVIOUS
<1>1. CASE People
  BY <1>1, SignInIInv, UnlockIInv, MoveConsoleIInv, RestartPcIInv DEF People
<1>2. CASE Control
  BY <1>2, ControlIInv
<1>3. CASE Agent
  BY <1>3, QuietIInv, RecoverLockIInv, RecoverDoneIInv, BeginStreamIInv, StreamEndsIInv,
     LockConsoleIInv, ClearStreamingIInv, DieIInv DEF Agent
<1>4. CASE Service
  BY <1>4, SuperviseIInv, HandOffIInv, StopAgentIInv DEF Service
<1>5. CASE UNCHANGED consoleVars
  BY <1>5 DEF consoleVars, service, process, windows, counts,
         ConsoleIInv, Types, SessionKnown, OpenOnConsole, MarkerIsOwn, NothingLeft,
         PersonFresh, OpenIsMarked
<1> QED
  BY <1>1, <1>2, <1>3, <1>4, <1>5 DEF ConsoleNext

\* The marker a dead agent leaves (mark_streaming, clear_streaming of
\* hyper_host.rs) names every console that a stream left open.
THEOREM AlwaysMarked == ~FromSignIn => (ConsoleSpec => []OpenIsMarked)
<1> SUFFICES ASSUME ~FromSignIn PROVE ConsoleSpec => []OpenIsMarked
  OBVIOUS
<1>1. ConsoleIInv /\ [ConsoleNext]_consoleVars => ConsoleIInv'
  BY ConsoleStepIInv
<1>2. ConsoleIInv => OpenIsMarked
  BY DEF ConsoleIInv
<1> QED
  BY ConsoleInitIInv, <1>1, <1>2, PTL DEF ConsoleSpec

\* recover_after_crash locks the sign-in the marker was written for, never
\* what somebody has opened at the PC since.
THEOREM NewcomerSafe == ~FromSignIn => (ConsoleSpec => NewcomerUntouched)
<1> SUFFICES ASSUME ~FromSignIn PROVE ConsoleSpec => NewcomerUntouched
  OBVIOUS
<1>1. ConsoleIInv /\ [ConsoleNext]_consoleVars => ConsoleIInv'
  BY ConsoleStepIInv
<1>2. ASSUME ConsoleIInv, RecoverLock, NEW s \in ConsoleSessions, screen[s] = "person"
      PROVE  screen'[s] = "person"
  BY <1>2 DEF RecoverLock, Recovered, SameLogon, LockSession, Shut, ConsoleIInv, Types, PersonFresh
<1>3. ConsoleIInv =>
        [RecoverLock => \A s \in ConsoleSessions : screen[s] = "person" => screen'[s] = "person"]_consoleVars
  BY <1>2
<1> QED
  BY ConsoleInitIInv, <1>1, <1>3, PTL DEF ConsoleSpec, NewcomerUntouched

\* After a recovery nothing a stream opened is open: what the documentation
\* says of an agent that crashes (docs/hyper.md, Security).
THEOREM RecoveryAlwaysLocks == ~FromSignIn => (ConsoleSpec => []RecoveryLocks)
<1> SUFFICES ASSUME ~FromSignIn PROVE ConsoleSpec => []RecoveryLocks
  OBVIOUS
<1>1. ConsoleIInv /\ [ConsoleNext]_consoleVars => ConsoleIInv'
  BY ConsoleStepIInv
<1>2. ConsoleIInv => RecoveryLocks
  BY DEF ConsoleIInv, NothingLeft, RecoveryLocks
<1> QED
  BY ConsoleInitIInv, <1>1, <1>2, PTL DEF ConsoleSpec

-----------------------------------------------------------------------------
(* The stop event *)

LEMMA StopStaysSetStep == StopStaysSet /\ [ConsoleNext]_consoleVars => StopStaysSet'
<1> SUFFICES ASSUME StopStaysSet, [ConsoleNext]_consoleVars PROVE StopStaysSet'
  OBVIOUS
<1> USE DEF StopStaysSet
<1>1. CASE People
  BY <1>1 DEF People, SignIn, Unlock, MoveConsole, RestartPc, service
<1>2. CASE Control
  BY <1>2 DEF Control, TellStop, SetStopEvent
<1>3. CASE Agent
  BY <1>3 DEF Agent, StartAgent, Hear, RecoverLock, RecoverDone, BeginStream, StreamEnds, GraceOver,
         AgentLeaves, LockConsole, ClearStreaming, Die, service
<1>4. CASE Loop \/ Look \/ LaunchAgent \/ LaunchFails
  BY <1>4 DEF Loop, Look, LaunchAgent, LaunchFails, At
\* Only a hand-off resets the event, and what follows looks again.
<1>5. CASE HandOffWaited \/ HandOffReset \/ HandOffRecheck \/ HandOffKill
  BY <1>5 DEF HandOffWaited, HandOffReset, HandOffRecheck, HandOffKill, Recheck, Stopping, At
<1>6. CASE (\E late \in BOOLEAN : StopWait(late)) \/ StopLaunch \/ StopRecovered \/ StopEnd
  BY <1>6 DEF StopWait, StopLaunch, StopRecovered, StopEnd, At
<1>7. CASE UNCHANGED consoleVars
  BY <1>7 DEF consoleVars, service
<1> QED
  BY <1>1, <1>2, <1>3, <1>4, <1>5, <1>6, <1>7 DEF ConsoleNext, Service

\* hand_off resets the event its own agent was to hear and sets it again if
\* the service began to stop meanwhile (hyper_direct.rs): past it, the event of
\* a stop that was signalled is set, wherever streams begin.
THEOREM StopNeverLost == ConsoleSpec => []StopStaysSet
<1>1. ConsoleInit => StopStaysSet
  BY DEF ConsoleInit, StopStaysSet
<1> QED
  BY <1>1, StopStaysSetStep, PTL DEF ConsoleSpec

-----------------------------------------------------------------------------
(* Guesses *)

Attempts == [key : Nat, tested : BOOLEAN]

SignTypes ==
  /\ attempt \in [Addresses -> Attempts] /\ keys \in Nat
  /\ strikes \in Nat /\ blocked \in BOOLEAN /\ guesses \in Nat /\ blocks \in Nat

\* A client that is not idle has called, so what it sends names one of the
\* addresses.
Called ==
  /\ call \in [Users -> 0..MaxCalls] /\ DOMAIN at_user = Users
  /\ \A u \in Users : at_user[u] # "idle" => call[u] # 0
FromAddresses == \A d \in up \union handed \union RETURNING : d.from \in Addresses

Pending == {a \in Addresses : attempt[a] # NoAttempt}
Tested == {a \in Addresses : attempt[a].tested}

\* What one block more allows.
Ration(b) == b * (MAX_PENDING_PER_IP + 1)

\* Each guess that was tested is a strike already, or an attempt that will be
\* one; no attempt begins in a block, so what is pending as it begins is all
\* that can still strike before it ends.
Rationed ==
  /\ guesses <= strikes + Cardinality(Tested)
  /\ Cardinality(Pending) <= MAX_PENDING_PER_IP
  /\ ~blocked => strikes < FREE_FAILURES + Ration(blocks)
  /\ blocked => strikes + Cardinality(Pending) < FREE_FAILURES + Ration(blocks + 1)

GuessIInv == SignTypes /\ Called /\ FromAddresses /\ Rationed

-----------------------------------------------------------------------------
(* Counting attempts *)

LEMMA Rations ==
  /\ FREE_FAILURES \in Nat /\ FREE_FAILURES > 0 /\ MAX_PENDING_PER_IP \in Nat
  /\ \A b \in Nat : Ration(b) \in Nat /\ Ration(b + 1) = Ration(b) + MAX_PENDING_PER_IP + 1
  BY SignInAssumption DEF Ration

LEMMA AddressesFinite == IsFiniteSet(Addresses)
<1>1. IsFiniteSet(1..MaxCalls)
  BY SignInAssumption, FS_Interval
<1> QED
  BY <1>1, SignInAssumption, FS_Product DEF Addresses

LEMMA AttemptsCounted ==
  /\ \A S : S \subseteq Addresses => IsFiniteSet(S) /\ Cardinality(S) \in Nat
  /\ IsFiniteSet(Pending) /\ Cardinality(Pending) \in Nat
  /\ IsFiniteSet(Tested) /\ Cardinality(Tested) \in Nat
<1>1. \A S : S \subseteq Addresses => IsFiniteSet(S) /\ Cardinality(S) \in Nat
  BY AddressesFinite, FS_Subset, FS_CardinalityType
<1>2. Pending \subseteq Addresses /\ Tested \subseteq Addresses
  BY DEF Pending, Tested
<1> QED
  BY <1>1, <1>2

\* Only an attempt that is pending can have been tested.
LEMMA TestedPending == SignTypes => Tested \subseteq Pending
  BY DEF SignTypes, Attempts, Tested, Pending, NoAttempt

LEMMA GuessInitIInv == SignInit => GuessIInv
<1> SUFFICES ASSUME SignInit PROVE GuessIInv
  OBVIOUS
<1>1. SignTypes
  BY DEF SignInit, SignTypes, Attempts, NoAttempt, Nobody
<1>2. Called /\ FromAddresses
  BY SignInAssumption DEF SignInit, Called, FromAddresses
<1>3. Pending = {} /\ Tested = {}
  BY DEF SignInit, Pending, Tested, NoAttempt
<1>4. Rationed
  BY <1>3, FS_EmptySet, Rations DEF SignInit, Rationed
<1> QED
  BY <1>1, <1>2, <1>4 DEF GuessIInv

-----------------------------------------------------------------------------
(* Clients and datagrams *)

LEMMA SendsAtMost ==
  /\ \A net, d : Sends(net, d) \subseteq net \union {d}
  /\ \A net, d : \A n \in Arrives(net, d) : n \subseteq net
  BY DEF Sends, Arrives

\* What a client does: it sends from the address of its call.
LEMMA ClientsFromAddresses ==
  ASSUME Called, FromAddresses, NEW u \in Users, SignUser(u) \/ LoseStream(u)
  PROVE  Called' /\ FromAddresses'
<1>1. at_user[u] # "idle" => Here(u) \in Addresses
  BY SignInAssumption DEF Called, Here, Addresses
<1>2. call[u] < MaxCalls => call[u] + 1 \in 1..MaxCalls
  BY SignInAssumption DEF Called
<1>3. CASE ConnectDirect(u)
  <2> DEFINE d == [kind |-> "hello", from |-> <<u, call[u] + 1>>, nonce |-> nonces + 1, cookie |-> Nobody]
  <2>1. /\ call' = [call EXCEPT ![u] = @ + 1] /\ at_user' = [at_user EXCEPT ![u] = "hello"]
        /\ up' = Sends(up, d) /\ UNCHANGED <<handed, RETURNING>> /\ call[u] < MaxCalls
    BY <1>3 DEF ConnectDirect, SayHello, backVars
  <2>2. d.from \in Addresses
    BY <1>2, <2>1 DEF Addresses
  <2> HIDE DEF d
  <2>3. FromAddresses'
    BY <2>1, <2>2, SendsAtMost DEF FromAddresses
  <2>4. Called'
    BY <1>2, <2>1, SignInAssumption DEF Called
  <2> QED
    BY <2>3, <2>4
<1>4. ASSUME NEW c, NEW n, SayHello(u, n, c), n = call[u], at_user[u] # "idle",
             UNCHANGED <<call, handed, RETURNING, at_user>>
      PROVE  Called' /\ FromAddresses'
  <2> DEFINE d == [kind |-> "hello", from |-> <<u, n>>, nonce |-> nonces + 1, cookie |-> c]
  <2>1. up' = Sends(up, d)
    BY <1>4 DEF SayHello
  <2>2. d.from \in Addresses
    BY <1>1, <1>4 DEF Here
  <2> HIDE DEF d
  <2>3. FromAddresses'
    BY <1>4, <2>1, <2>2, SendsAtMost DEF FromAddresses
  <2> QED
    BY <1>4, <2>3 DEF Called
<1>5. CASE HelloAgain(u)
  BY <1>4, <1>5 DEF HelloAgain, backVars
<1>6. CASE NoAnswer(u) \/ WrongPassword(u) \/ LoseStream(u)
  <2>1. at_user' = [at_user EXCEPT ![u] = "idle"] /\ UNCHANGED <<call, up, handed, RETURNING>>
    BY <1>6 DEF NoAnswer, WrongPassword, LoseStream, backVars
  <2> QED
    BY <2>1 DEF Called, FromAddresses
<1>7. CASE PingHost(u)
  <2>1. /\ at_user[u] = "pinging" /\ up' = Sends(up, Pinged(u))
        /\ UNCHANGED <<call, at_user, handed, RETURNING>>
    BY <1>7 DEF PingHost, userVars, backVars
  <2>2. Pinged(u).from \in Addresses
    BY <1>1, <2>1 DEF Pinged
  <2> QED
    BY <2>1, <2>2, SendsAtMost DEF Called, FromAddresses
<1>8. ASSUME NEW d \in down, ClientReceive(u, d) PROVE Called' /\ FromAddresses'
  <2>1. CASE TakeCookie(u, d)
    BY <1>4, <1>8, <2>1 DEF TakeCookie, ClientReceive, backVars
  <2>2. CASE TakeDenied(u, d) \/ TakeChallenge(u, d) \/ TakePong(u, d)
    <3>1. /\ UNCHANGED <<call, up, handed, RETURNING>> /\ at_user[u] # "idle"
          /\ \E w : at_user' = [at_user EXCEPT ![u] = w]
      BY <1>8, <2>2 DEF TakeDenied, TakeChallenge, TakePong, ClientReceive, backVars
    <3> QED
      BY <3>1 DEF Called, FromAddresses
  <2> QED
    BY <1>8, <2>1, <2>2 DEF ClientReceive
<1> QED
  BY <1>3, <1>5, <1>6, <1>7, <1>8 DEF SignUser

\* Nobody else sends to the host.
LEMMA OthersFromAddresses ==
  ASSUME Called, FromAddresses,
         \/ \E d \in down : ClientIgnore(d)
         \/ SignHost \/ Unblock \/ NextPeriod \/ LoseDatagram
         \/ UNCHANGED signVars
  PROVE  Called' /\ FromAddresses'
<1>1. UNCHANGED <<call, at_user>>
  BY DEF ClientIgnore, SignHost, Handle, Expire, RxPing, RxHello, RxFlag, StreamOver, Ended,
         ClearReturning, TakeReturning, Unblock, NextPeriod, LoseDatagram, signVars, userVars
<1>2. up' \union handed' \union RETURNING' \subseteq up \union handed \union RETURNING
  <2>1. CASE \E d \in up \union handed : Handle(d)
    <3>1. PICK d \in up \union handed : Handle(d)
      BY <2>1
    <3>2. (handed' = {} /\ up' = up) \/ (up' \in Arrives(up, d) /\ handed' = handed)
      BY <3>1 DEF Handle
    <3>3. RETURNING' = {} \/ RETURNING' = RETURNING
      BY <3>1 DEF Handle, Confirm
    <3> QED
      BY <3>2, <3>3, SendsAtMost
  <2>2. CASE \E d \in up : RxPing(d) \/ RxHello(d)
    <3>1. PICK d \in up : RxPing(d) \/ RxHello(d)
      BY <2>2
    <3>2. up' \in Arrives(up, d) /\ handed' = handed
      BY <3>1 DEF RxPing, RxHello, backVars
    <3>3. RETURNING' = {d} \/ RETURNING' = RETURNING
      BY <3>1 DEF RxPing, RxHello, backVars
    <3> QED
      BY <3>2, <3>3, SendsAtMost
  <2>3. CASE (\E a \in Addresses : Expire(a)) \/ RxFlag \/ StreamOver \/ Ended \/ ClearReturning
               \/ TakeReturning
    BY <2>3 DEF Expire, RxFlag, StreamOver, Ended, ClearReturning, TakeReturning, backVars
  <2>4. CASE (\E d \in down : ClientIgnore(d)) \/ Unblock \/ NextPeriod \/ LoseDatagram
               \/ UNCHANGED signVars
    BY <2>4 DEF ClientIgnore, Unblock, NextPeriod, LoseDatagram, signVars, backVars
  <2> QED
    BY <2>1, <2>2, <2>3, <2>4 DEF SignHost
<1> QED
  BY <1>1, <1>2 DEF Called, FromAddresses

-----------------------------------------------------------------------------
(* Strikes *)

LEMMA GuessElsewhere ==
  ASSUME SignTypes, Rationed, UNCHANGED <<attempt, keys, strikes, blocked, guesses, blocks>>
  PROVE  SignTypes' /\ Rationed'
<1>1. Pending' = Pending /\ Tested' = Tested
  BY DEF Pending, Tested
<1> QED
  BY <1>1 DEF SignTypes, Rationed

LEMMA WithoutOne ==
  ASSUME NEW a \in Addresses
  PROVE  /\ Cardinality(Pending \ {a}) \in Nat /\ Cardinality(Tested \ {a}) \in Nat
         /\ Cardinality(Pending) = Cardinality(Pending \ {a}) + (IF a \in Pending THEN 1 ELSE 0)
         /\ Cardinality(Tested) = Cardinality(Tested \ {a}) + (IF a \in Tested THEN 1 ELSE 0)
         /\ Cardinality(Pending \union {a}) = Cardinality(Pending \ {a}) + 1
<1>1. /\ IsFiniteSet(Pending \ {a}) /\ IsFiniteSet(Tested \ {a})
      /\ Cardinality(Pending \ {a}) \in Nat /\ Cardinality(Tested \ {a}) \in Nat
  BY AttemptsCounted, FS_RemoveElement, FS_CardinalityType
<1>2. Pending \union {a} = (Pending \ {a}) \union {a}
  OBVIOUS
<1>3. Cardinality(Pending \union {a}) = Cardinality(Pending \ {a}) + 1
  BY <1>1, <1>2, FS_AddElement
<1>4. Cardinality(Pending) = Cardinality(Pending \ {a}) + (IF a \in Pending THEN 1 ELSE 0)
  BY <1>1, AttemptsCounted, FS_RemoveElement
<1>5. Cardinality(Tested) = Cardinality(Tested \ {a}) + (IF a \in Tested THEN 1 ELSE 0)
  BY <1>1, AttemptsCounted, FS_RemoveElement
<1> QED
  BY <1>1, <1>3, <1>4, <1>5

\* An attempt that was tested is charged as it goes, whether it is replaced,
\* refused or over: the strike takes the guess's place.
LEMMA ChargedRationed ==
  ASSUME SignTypes, Rationed, NEW a \in Addresses, Charge(attempt[a].tested), UNCHANGED <<guesses, blocks>>,
         Tested' = Tested \ {a},
         \/ Pending' = Pending \ {a}
         \/ Pending' = Pending \union {a} /\ ~blocked /\ Cardinality(Pending \ {a}) < MAX_PENDING_PER_IP
  PROVE  strikes' \in Nat /\ blocked' \in BOOLEAN /\ Rationed'
<1> DEFINE B == Ration(blocks)
           C == Ration(blocks + 1)
           L == Cardinality(Pending)
           M == Cardinality(Pending')
           T == Cardinality(Tested)
           W == Cardinality(Tested')
<1>1. /\ B \in Nat /\ C = B + MAX_PENDING_PER_IP + 1
      /\ MAX_PENDING_PER_IP \in Nat /\ FREE_FAILURES \in Nat /\ FREE_FAILURES > 0
  BY Rations DEF SignTypes
<1>2. /\ L \in Nat /\ M \in Nat /\ T \in Nat /\ W \in Nat
      /\ T = W + (IF a \in Tested THEN 1 ELSE 0)
      /\ \/ L = M + (IF a \in Pending THEN 1 ELSE 0)
         \/ ~blocked /\ M <= MAX_PENDING_PER_IP
  <2>1. /\ L \in Nat /\ T \in Nat /\ W \in Nat
        /\ T = W + (IF a \in Tested THEN 1 ELSE 0)
    BY WithoutOne, AttemptsCounted
  <2>2. CASE Pending' = Pending \ {a}
    BY <2>1, <2>2, WithoutOne
  <2>3. CASE /\ Pending' = Pending \union {a} /\ ~blocked
             /\ Cardinality(Pending \ {a}) < MAX_PENDING_PER_IP
    <3>1. M = Cardinality(Pending \ {a}) + 1 /\ Cardinality(Pending \ {a}) \in Nat
      BY <2>3, WithoutOne
    <3> QED
      BY <1>1, <2>1, <2>3, <3>1
  <2> QED
    BY <2>2, <2>3
<1>3. /\ a \in Tested => a \in Pending
      /\ attempt[a].tested <=> a \in Tested
  BY TestedPending DEF Tested
<1>4. Ration(blocks') = B /\ Ration(blocks' + 1) = C /\ guesses' = guesses
  OBVIOUS
<1>5. /\ strikes \in Nat /\ blocked \in BOOLEAN /\ guesses \in Nat
      /\ guesses <= strikes + T /\ L <= MAX_PENDING_PER_IP
      /\ ~blocked => strikes < FREE_FAILURES + B
      /\ blocked => strikes + L < FREE_FAILURES + C
  BY DEF SignTypes, Rationed
<1> HIDE DEF B, C, L, M, T, W
<1>6. M <= MAX_PENDING_PER_IP
  BY <1>1, <1>2, <1>5
<1>7. CASE a \in Tested
  <2>1. strikes' = strikes + 1 /\ blocked' = (blocked \/ strikes + 1 >= FREE_FAILURES)
    BY <1>3, <1>7 DEF Charge, Struck
  <2>2. guesses <= strikes' + W
    BY <1>2, <1>5, <1>7, <2>1
  <2>3. CASE blocked
    <3>1. L = M + 1
      BY <1>2, <1>3, <1>7, <2>3
    <3>2. strikes' + M = strikes + L
      BY <1>2, <1>5, <2>1, <3>1
    <3>3. blocked' /\ strikes' + M < FREE_FAILURES + C
      BY <1>5, <2>1, <2>3, <3>2
    <3> QED
      BY <1>4, <1>5, <1>6, <2>1, <2>2, <3>3 DEF Rationed, C, M, W
  <2>4. CASE ~blocked
    <3>1. strikes' + M < FREE_FAILURES + C
      <4>1. strikes < FREE_FAILURES + B /\ strikes' = strikes + 1
        BY <1>5, <2>1, <2>4
      <4>2. strikes \in Nat
        BY <1>5
      <4> QED
        BY <1>1, <1>2, <1>6, <4>1, <4>2
    <3>2. ~blocked' => strikes' < FREE_FAILURES + B
      <4>1. ~blocked' => ~(strikes + 1 >= FREE_FAILURES)
        BY <2>1, Zenon
      <4>2. strikes \in Nat /\ strikes' = strikes + 1
        BY <1>5, <2>1
      <4> QED
        BY <1>1, <4>1, <4>2
    <3> QED
      BY <1>4, <1>5, <1>6, <2>1, <2>2, <3>1, <3>2 DEF Rationed, B, C, M, W
  <2> QED
    BY <2>3, <2>4
<1>8. CASE a \notin Tested
  <2>1. strikes' = strikes /\ blocked' = blocked
    BY <1>3, <1>8 DEF Charge
  <2>2. guesses <= strikes' + W
    BY <1>2, <1>5, <1>8, <2>1
  <2>3. blocked => strikes' + M < FREE_FAILURES + C
    BY <1>1, <1>2, <1>5, <2>1
  <2> QED
    BY <1>4, <1>5, <1>6, <2>1, <2>2, <2>3 DEF Rationed, B, C, M, W
<1> QED
  BY <1>7, <1>8

\* Without its attempt, an address is neither pending nor tested.
LEMMA Dropped ==
  ASSUME SignTypes, NEW a \in Addresses, attempt' = [attempt EXCEPT ![a] = NoAttempt]
  PROVE  attempt' \in [Addresses -> Attempts] /\ Pending' = Pending \ {a} /\ Tested' = Tested \ {a}
<1>1. NoAttempt \in Attempts /\ ~NoAttempt.tested
  BY DEF NoAttempt, Attempts, Nobody
<1>2. attempt \in [Addresses -> Attempts]
  BY DEF SignTypes
<1>3. \A b \in Addresses : attempt'[b] = IF b = a THEN NoAttempt ELSE attempt[b]
  BY <1>2
<1>4. attempt' \in [Addresses -> Attempts]
  BY <1>1, <1>2
<1>5. Pending' = Pending \ {a} /\ Tested' = Tested \ {a}
  BY <1>1, <1>3 DEF Pending, Tested
<1> QED
  BY <1>4, <1>5

LEMMA ExpireRationed ==
  ASSUME SignTypes, Rationed, NEW a \in Addresses, Expire(a)
  PROVE  SignTypes' /\ Rationed'
<1>1. /\ attempt' = [attempt EXCEPT ![a] = NoAttempt] /\ Charge(attempt[a].tested)
      /\ UNCHANGED <<guesses, blocks, keys>>
  BY DEF Expire, ChargeExpired
<1>2. attempt' \in [Addresses -> Attempts] /\ Pending' = Pending \ {a} /\ Tested' = Tested \ {a}
  BY <1>1, Dropped
<1>3. strikes' \in Nat /\ blocked' \in BOOLEAN /\ Rationed'
  BY <1>1, <1>2, ChargedRationed
<1> QED
  BY <1>1, <1>2, <1>3 DEF SignTypes

\* A hello that starts an attempt, or finds too many.
LEMMA ChallengeRationed ==
  ASSUME SignTypes, Rationed, NEW d, d.from \in Addresses, Challenge(d), blocks' = blocks
  PROVE  SignTypes' /\ Rationed'
<1> DEFINE a == d.from
           new == [key |-> keys + 1, tested |-> FALSE]
<1>1. ~blocked /\ Charge(attempt[a].tested) /\ guesses' = guesses
  BY DEF Challenge
<1>2. CASE TooMany(a)
  <2>1. attempt' = [attempt EXCEPT ![a] = NoAttempt] /\ keys' = keys
    BY <1>2 DEF Challenge
  <2>2. attempt' \in [Addresses -> Attempts] /\ Pending' = Pending \ {a} /\ Tested' = Tested \ {a}
    BY <2>1, Dropped
  <2>3. strikes' \in Nat /\ blocked' \in BOOLEAN /\ Rationed'
    BY <1>1, <2>2, ChargedRationed
  <2> QED
    BY <1>1, <2>1, <2>2, <2>3 DEF SignTypes
<1>3. CASE ~TooMany(a)
  <2>1. attempt' = [attempt EXCEPT ![a] = new] /\ keys' = keys + 1 /\ keys \in Nat
    BY <1>3 DEF Challenge, SignTypes
  <2>2. new \in Attempts /\ new # NoAttempt /\ ~new.tested
    <3>1. new.key # NoAttempt.key
      BY <2>1 DEF NoAttempt, Nobody
    <3> QED
      BY <2>1, <3>1 DEF Attempts
  <2>3. attempt \in [Addresses -> Attempts]
    BY DEF SignTypes
  <2> HIDE DEF new
  <2>4. attempt' \in [Addresses -> Attempts]
    BY <2>1, <2>2, <2>3
  <2>5. \A b \in Addresses : attempt'[b] = IF b = a THEN new ELSE attempt[b]
    BY <2>1, <2>3
  <2>6. Pending' = Pending \union {a} /\ Tested' = Tested \ {a}
    BY <2>2, <2>5 DEF Pending, Tested
  <2>7. Cardinality(Pending \ {a}) < MAX_PENDING_PER_IP
    <3>1. Pending \ {a} = {b \in Addresses \ {a} : attempt[b] # NoAttempt}
      BY DEF Pending
    <3>2. Cardinality(Pending \ {a}) = Others(a)
      BY <3>1 DEF Others
    <3>3. Cardinality(Pending \ {a}) \in Nat
      BY WithoutOne
    <3> QED
      BY <1>3, <3>2, <3>3, Rations DEF TooMany
  <2>8. strikes' \in Nat /\ blocked' \in BOOLEAN /\ Rationed'
    BY <1>1, <2>6, <2>7, ChargedRationed
  <2> QED
    BY <1>1, <2>1, <2>4, <2>8 DEF SignTypes
<1> QED
  BY <1>2, <1>3

\* The right password ends what was counted.
LEMMA ConfirmRationed ==
  ASSUME SignTypes, Rationed, NEW d, d.from \in Addresses, Confirm(d), blocks' = blocks
  PROVE  SignTypes' /\ Rationed'
<1>1. /\ attempt' = [attempt EXCEPT ![d.from] = NoAttempt] /\ keys' = keys
      /\ strikes' = 0 /\ blocked' = FALSE /\ guesses' = 0
  BY DEF Confirm
<1>2. /\ attempt' \in [Addresses -> Attempts] /\ Pending' = Pending \ {d.from}
      /\ Tested' = Tested \ {d.from}
  BY <1>1, Dropped
<1>3. /\ Cardinality(Tested') \in Nat /\ Cardinality(Pending') \in Nat
      /\ Cardinality(Pending') <= Cardinality(Pending) /\ Cardinality(Pending) \in Nat
  <2>1. /\ Cardinality(Pending \ {d.from}) \in Nat /\ Cardinality(Tested \ {d.from}) \in Nat
        /\ Cardinality(Pending) = Cardinality(Pending \ {d.from}) + (IF d.from \in Pending THEN 1 ELSE 0)
    BY WithoutOne
  <2> QED
    BY <1>2, <2>1
<1>4. blocks \in Nat /\ Ration(blocks) \in Nat /\ FREE_FAILURES \in Nat \ {0} /\ MAX_PENDING_PER_IP \in Nat
  BY Rations DEF SignTypes
<1>5. Rationed'
  BY <1>1, <1>3, <1>4 DEF Rationed
<1> QED
  BY <1>1, <1>2, <1>5 DEF SignTypes

\* A packet that does not open tests a guess, once for each attempt.
LEMMA NotOpenedRationed ==
  ASSUME SignTypes, Rationed, NEW d, d.from \in Addresses, NotOpened(d), blocks' = blocks
  PROVE  SignTypes' /\ Rationed'
<1> DEFINE a == d.from
<1>1. UNCHANGED <<strikes, blocked, keys>>
  BY DEF NotOpened
<1>2. CASE attempt[a] = NoAttempt \/ attempt[a].tested
  BY <1>1, <1>2, GuessElsewhere DEF NotOpened
<1>3. CASE ~(attempt[a] = NoAttempt \/ attempt[a].tested)
  <2>1. attempt' = [attempt EXCEPT ![a].tested = TRUE] /\ guesses' = guesses + 1
    BY <1>3 DEF NotOpened
  <2>2. attempt \in [Addresses -> Attempts]
    BY DEF SignTypes
  <2>3. PICK t : t = [attempt[a] EXCEPT !.tested = TRUE]
    OBVIOUS
  <2>4. t \in Attempts /\ t.tested /\ t # NoAttempt
    BY <2>2, <2>3 DEF Attempts, NoAttempt
  <2>5. \A b \in Addresses : attempt'[b] = IF b = a THEN t ELSE attempt[b]
    BY <2>1, <2>2, <2>3
  <2>6. attempt' \in [Addresses -> Attempts]
    BY <2>1, <2>2, <2>3, <2>4
  <2>7. Pending' = Pending /\ Tested' = Tested \union {a} /\ a \notin Tested
    BY <1>3, <2>4, <2>5 DEF Pending, Tested
  <2>8. Cardinality(Tested') = Cardinality(Tested) + 1 /\ Cardinality(Tested) \in Nat
    BY <2>7, AttemptsCounted, FS_AddElement
  <2>9. Rationed'
    BY <1>1, <2>1, <2>7, <2>8 DEF Rationed, SignTypes
  <2> QED
    BY <1>1, <2>1, <2>6, <2>9 DEF SignTypes
<1> QED
  BY <1>2, <1>3

LEMMA HandleRationed ==
  ASSUME SignTypes, Rationed, FromAddresses, NEW d \in up \union handed, Handle(d)
  PROVE  SignTypes' /\ Rationed'
<1>1. d.from \in Addresses /\ blocks' = blocks
  BY DEF FromAddresses, Handle
<1>2. CASE Refuse(d) \/ GiveCookie(d) \/ TooMuchWork(d)
  BY <1>1, <1>2, GuessElsewhere DEF Refuse, GiveCookie, TooMuchWork, hostVars
<1> QED
  BY <1>1, <1>2, ChallengeRationed, ConfirmRationed, NotOpenedRationed DEF Handle

\* A block ends when nothing from before it is pending.
LEMMA UnblockRationed ==
  ASSUME SignTypes, Rationed, Unblock
  PROVE  SignTypes' /\ Rationed'
<1>1. /\ blocked /\ blocks' = blocks + 1 /\ blocked' = FALSE
      /\ UNCHANGED <<attempt, strikes, guesses, keys>>
  BY DEF Unblock
<1>2. Pending = {} /\ Pending' = Pending /\ Tested' = Tested
  BY <1>1 DEF Unblock, Pending, Tested
<1>3. Cardinality(Pending) = 0
  BY <1>2, FS_EmptySet
<1>4. /\ strikes \in Nat /\ strikes + 0 < FREE_FAILURES + Ration(blocks + 1)
      /\ guesses <= strikes + Cardinality(Tested) /\ Cardinality(Pending) <= MAX_PENDING_PER_IP
  BY <1>1, <1>3 DEF Rationed, SignTypes
<1>5. Rationed'
  BY <1>1, <1>2, <1>4 DEF Rationed
<1>6. blocks' \in Nat
  BY <1>1 DEF SignTypes
<1> QED
  BY <1>1, <1>5, <1>6 DEF SignTypes

LEMMA GuessStepIInv == GuessIInv /\ [SignNext]_signVars => GuessIInv'
<1> SUFFICES ASSUME GuessIInv, [SignNext]_signVars PROVE GuessIInv'
  OBVIOUS
<1>1. Called' /\ FromAddresses'
  BY ClientsFromAddresses, OthersFromAddresses DEF GuessIInv, SignNext
<1>2. SignTypes' /\ Rationed'
  <2> USE DEF GuessIInv
  <2>1. ASSUME NEW u \in Users, SignUser(u) \/ LoseStream(u) PROVE SignTypes' /\ Rationed'
    <3>1. CASE ConnectDirect(u) \/ HelloAgain(u) \/ NoAnswer(u) \/ PingHost(u) \/ WrongPassword(u)
                 \/ LoseStream(u)
      BY <3>1, GuessElsewhere
         DEF ConnectDirect, HelloAgain, NoAnswer, PingHost, WrongPassword, LoseStream, hostVars
    <3>2. CASE \E d \in down : ClientReceive(u, d)
      BY <3>2, GuessElsewhere DEF ClientReceive, hostVars
    <3> QED
      BY <2>1, <3>1, <3>2 DEF SignUser
  <2>2. CASE (\E d \in down : ClientIgnore(d)) \/ NextPeriod \/ LoseDatagram
    BY <2>2, GuessElsewhere DEF ClientIgnore, NextPeriod, LoseDatagram, hostVars
  <2>3. CASE (\E d \in up : RxPing(d) \/ RxHello(d)) \/ RxFlag \/ StreamOver \/ Ended
               \/ ClearReturning \/ TakeReturning
    BY <2>3, GuessElsewhere
       DEF RxPing, RxHello, RxFlag, StreamOver, Ended, ClearReturning, TakeReturning, hostVars
  <2>4. CASE \E d \in up \union handed : Handle(d)
    BY <2>4, HandleRationed
  <2>5. CASE \E a \in Addresses : Expire(a)
    BY <2>5, ExpireRationed
  <2>6. CASE Unblock
    BY <2>6, UnblockRationed
  <2>7. CASE UNCHANGED signVars
    BY <2>7, GuessElsewhere DEF signVars, hostVars
  <2> QED
    BY <2>1, <2>2, <2>3, <2>4, <2>5, <2>6, <2>7 DEF SignNext, SignHost
<1> QED
  BY <1>1, <1>2 DEF GuessIInv

\* However clients start over, run attempts side by side or abandon them, the
\* guesses the host tests (auth.rs, Lockout; SignIn of hyper_direct.rs) are
\* rationed, for any number of clients and any limits.
THEOREM GuessesAlwaysRationed == SignInSpec => []GuessesRationed
<1>1. GuessIInv => GuessesRationed
  <2> SUFFICES ASSUME GuessIInv PROVE GuessesRationed
    OBVIOUS
  <2>1. Cardinality(Tested) <= Cardinality(Pending)
    BY TestedPending, AttemptsCounted, FS_Subset DEF GuessIInv
  <2>2. /\ blocks \in Nat /\ Ration(blocks) \in Nat
        /\ Ration(blocks + 1) = Ration(blocks) + MAX_PENDING_PER_IP + 1
        /\ FREE_FAILURES \in Nat /\ MAX_PENDING_PER_IP \in Nat
    BY Rations DEF GuessIInv, SignTypes
  <2>3. guesses < FREE_FAILURES + Ration(blocks + 1)
    BY <2>1, <2>2, AttemptsCounted DEF GuessIInv, SignTypes, Rationed
  <2> QED
    BY <2>3 DEF GuessesRationed, Ration
<1> QED
  BY GuessInitIInv, GuessStepIInv, <1>1, PTL DEF SignInSpec
=============================================================================
