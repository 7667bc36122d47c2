------------------------------- MODULE SignIn -------------------------------
(***************************************************************************)
(* Signing in with the Hyper password: the host's agent (SignIn, Comeback,  *)
(* take_returning and the agent's loop in crates/rdp-client/src/            *)
(* hyper_direct.rs; CookieJar, Lockout and host_respond in crates/rdp-hyper/*)
(* src/auth.rs) and the clients behind one address (connect_direct and the  *)
(* reconnecting of run_direct in crates/rdp-client/src/hyper_client.rs).    *)
(* Datagrams are lost, late, repeated and overtaken.                        *)
(*                                                                         *)
(* The key exchange is abstracted to what it promises: each challenge gives *)
(* a key of its own, which the client gets too if it answers its hello and  *)
(* the passwords agree.  Every connect_direct has a port of its own.  A     *)
(* cookie is the port it was made for and the period it was made in.  Left  *)
(* out: builds of other versions, sessions that only take an update (see    *)
(* Update), the console (see Console), and the cap on all attempts          *)
(* together, which the one per address is below.                            *)
(*                                                                         *)
(* UntestedToo and NoneOfIts are plausible bugs of what follows them.       *)
(***************************************************************************)
EXTENDS Naturals, FiniteSets

CONSTANTS Users,              \* clients behind the address
          Right,              \* those that type the host's password
          FREE_FAILURES,      \* 5
          MAX_PENDING_PER_IP, \* 2
          HELLOS,             \* hellos connect_direct tries, 3
          COOKIE_ROUNDS,      \* 3
          MaxCalls,           \* bound: sign-ins of a client
          MaxNonces, MaxKeys, \* bounds: hellos and challenges altogether
          MaxPeriods,         \* bound: periods of the cookies (COOKIE_BUCKET_S)
          MaxBlocks,          \* bound: blocks that end
          MaxLosses,          \* bound: datagrams lost
          SignNet,            \* bound: datagrams on their way, each way
          Repeated, Timely    \* datagrams may come again; no client gives up too soon

ASSUME SignInAssumption ==
  /\ IsFiniteSet(Users) /\ Right \subseteq Users /\ MaxCalls \in Nat
  /\ FREE_FAILURES \in Nat \ {0} /\ MAX_PENDING_PER_IP \in Nat \ {0}

VARIABLES attempt,                    \* SignIn.pending: of each address
          strikes, blocked, period,   \* Lockout; the cookies' clock
          listening, streamed,        \* the agent: its step; the stream's key
          RETURNING, RETURNING_SET, COMEBACK, rx, handed,
          at_user, call, nonce, cookie, hellos, rounds, key,   \* clients
          nonces, keys, up, down, lost,
          guesses, blocks             \* history: guesses tested since a success, blocks that ended

hostVars == <<attempt, strikes, blocked, listening, streamed, guesses>>
backVars == <<RETURNING, RETURNING_SET, COMEBACK, rx, handed>>
userVars == <<at_user, call, nonce, cookie, hellos, rounds, key, nonces>>
signVars == <<hostVars, backVars, userVars, period, keys, up, down, lost, blocks>>

Nobody == 0                           \* no key, no cookie
NoAttempt == [key |-> Nobody, tested |-> FALSE]
Addresses == Users \X (1..MaxCalls)
Here(u) == <<u, call[u]>>

\* What is sent may find the path full, and what arrives may come again.
Sends(net, d) == IF Cardinality(net \union {d}) <= SignNet THEN net \union {d} ELSE net
Arrives(net, d) == {net \ {d}} \union (IF Repeated THEN {net} ELSE {})

-----------------------------------------------------------------------------
(* Clients: connect_direct, and the loop that calls it again. *)

\* A hello with a nonce of its own, and the cookie the host gave last.
SayHello(u, n, c) ==
  /\ nonces < MaxNonces /\ nonces' = nonces + 1
  /\ nonce' = [nonce EXCEPT ![u] = nonces + 1]
  /\ up' = Sends(up, [kind |-> "hello", from |-> <<u, n>>, nonce |-> nonces + 1, cookie |-> c])
ConnectDirect(u) ==
  /\ at_user[u] = "idle" /\ call[u] < MaxCalls
  /\ call' = [call EXCEPT ![u] = @ + 1]
  /\ at_user' = [at_user EXCEPT ![u] = "hello"]
  /\ cookie' = [cookie EXCEPT ![u] = Nobody]
  /\ hellos' = [hellos EXCEPT ![u] = 1] /\ rounds' = [rounds EXCEPT ![u] = 0]
  /\ SayHello(u, call[u] + 1, Nobody)
  /\ UNCHANGED <<hostVars, backVars, key, period, keys, down, lost, blocks>>

\* 1.5 s without an answer (Timely: nothing is on its way and the agent listens).
Quiet == up \union down \union RETURNING \union handed = {} /\ listening \in {"sign-in", "streaming"}
HelloAgain(u) ==
  /\ at_user[u] = "hello" /\ hellos[u] < HELLOS /\ (Timely => Quiet)
  /\ hellos' = [hellos EXCEPT ![u] = @ + 1]
  /\ SayHello(u, call[u], cookie[u])
  /\ UNCHANGED <<hostVars, backVars, at_user, call, cookie, rounds, key, period, keys, down, lost, blocks>>
NoAnswer(u) ==
  /\ at_user[u] = "hello" /\ hellos[u] = HELLOS /\ (Timely => Quiet)
  /\ at_user' = [at_user EXCEPT ![u] = "idle"]
  /\ UNCHANGED <<hostVars, backVars, call, nonce, cookie, hellos, rounds, key, nonces, period, keys, up, down, lost, blocks>>

\* The host's datagrams.
TakeCookie(u, d) ==
  /\ d.kind = "cookie" /\ at_user[u] = "hello" /\ rounds[u] < COOKIE_ROUNDS
  /\ rounds' = [rounds EXCEPT ![u] = @ + 1]
  /\ cookie' = [cookie EXCEPT ![u] = d.period]
  /\ SayHello(u, call[u], d.period)
  /\ UNCHANGED <<at_user, call, hellos, key>>
TakeDenied(u, d) ==
  /\ d.kind = "denied" /\ at_user[u] = "hello"
  /\ at_user' = [at_user EXCEPT ![u] = "refused"]
  /\ UNCHANGED <<call, nonce, cookie, hellos, rounds, key, nonces, up>>
TakeChallenge(u, d) ==
  /\ d.kind = "challenge" /\ at_user[u] = "hello" /\ d.echo = nonce[u]
  /\ key' = [key EXCEPT ![u] = IF d.agree THEN d.key ELSE Nobody]
  /\ at_user' = [at_user EXCEPT ![u] = "pinging"]
  /\ UNCHANGED <<call, nonce, cookie, hellos, rounds, nonces, up>>
TakePong(u, d) ==
  /\ d.kind = "pong" /\ at_user[u] = "pinging" /\ d.key = key[u]
  /\ at_user' = [at_user EXCEPT ![u] = "streaming"]
  /\ UNCHANGED <<call, nonce, cookie, hellos, rounds, key, nonces, up>>
ClientReceive(u, d) ==
  /\ d \in down /\ d.from = Here(u) /\ down' \in Arrives(down, d)
  /\ TakeCookie(u, d) \/ TakeDenied(u, d) \/ TakeChallenge(u, d) \/ TakePong(u, d)
  /\ UNCHANGED <<hostVars, backVars, period, keys, lost, blocks>>
\* What says nothing to the client, or was meant for a socket it has closed.
Useless(d) ==
  LET u == d.from[1] IN
  \/ d.from # Here(u) \/ at_user[u] \in {"idle", "refused", "streaming"}
  \/ d.kind = "cookie" /\ (at_user[u] # "hello" \/ rounds[u] = COOKIE_ROUNDS)
  \/ d.kind = "denied" /\ at_user[u] # "hello"
  \/ d.kind = "challenge" /\ (at_user[u] # "hello" \/ d.echo # nonce[u])
  \/ d.kind = "pong" /\ (at_user[u] # "pinging" \/ d.key # key[u])
ClientIgnore(d) ==
  /\ d \in down /\ Useless(d) /\ down' = down \ {d}
  /\ UNCHANGED <<hostVars, backVars, userVars, period, keys, up, lost, blocks>>

\* ping_until_pong: again and again, for 5 s.
Pinged(u) == [kind |-> "ping", from |-> Here(u), key |-> key[u]]
PingHost(u) ==
  /\ at_user[u] = "pinging" /\ Pinged(u) \notin up /\ up' = Sends(up, Pinged(u)) /\ up' # up
  /\ UNCHANGED <<hostVars, backVars, userVars, period, keys, down, lost, blocks>>
Confirmable(u) ==
  /\ key[u] # Nobody
  /\ key[u] \in {streamed, attempt[Here(u)].key}
WrongPassword(u) ==
  /\ at_user[u] = "pinging" /\ (Timely => Quiet /\ ~Confirmable(u))
  /\ at_user' = [at_user EXCEPT ![u] = "idle"]
  /\ UNCHANGED <<hostVars, backVars, call, nonce, cookie, hellos, rounds, key, nonces, period, keys, up, down, lost, blocks>>

\* The client takes its stream for dead (bound: a call is left for every loss).
LoseStream(u) ==
  /\ at_user[u] = "streaming" /\ call[u] + MaxLosses < MaxCalls
  /\ at_user' = [at_user EXCEPT ![u] = "idle"]
  /\ UNCHANGED <<hostVars, backVars, call, nonce, cookie, hellos, rounds, key, nonces, period, keys, up, down, lost, blocks>>

-----------------------------------------------------------------------------
(* The agent, signing in. *)

CookieValid(d) == d.cookie # Nobody /\ d.cookie \in {period, period - 1}

Struck == strikes' = strikes + 1 /\ blocked' = (blocked \/ strikes + 1 >= FREE_FAILURES)
Charge(yes) == IF yes THEN Struck ELSE UNCHANGED <<strikes, blocked>>
Others(a) == Cardinality({b \in Addresses \ {a} : attempt[b] # NoAttempt})

\* A hello: refused, answered with a cookie, or (unless there is too much work)
\* the beginning of an attempt, in place of the one this address had.
Refuse(d) ==
  /\ blocked /\ down' = Sends(down, [kind |-> "denied", from |-> d.from])
  /\ UNCHANGED <<hostVars, keys>>
GiveCookie(d) ==
  /\ ~blocked /\ ~CookieValid(d)
  /\ down' = Sends(down, [kind |-> "cookie", from |-> d.from, period |-> period])
  /\ UNCHANGED <<hostVars, keys>>
TooMuchWork(d) ==
  /\ ~blocked /\ CookieValid(d) /\ ~Timely /\ UNCHANGED <<hostVars, keys, down>>
NoneOfIts(a) == FALSE
TooMany(a) == Others(a) >= MAX_PENDING_PER_IP
Challenge(d) ==
  LET a == d.from IN
  /\ ~blocked /\ CookieValid(d) /\ keys < MaxKeys
  /\ Charge(attempt[a].tested)
  /\ IF TooMany(a)
     THEN attempt' = [attempt EXCEPT ![a] = NoAttempt] /\ UNCHANGED <<keys, down>>
     ELSE /\ keys' = keys + 1
          /\ attempt' = [attempt EXCEPT ![a] = [key |-> keys + 1, tested |-> FALSE]]
          /\ down' = Sends(down, [kind |-> "challenge", from |-> a, echo |-> d.nonce,
                                  key |-> keys + 1, agree |-> a[1] \in Right])
  /\ UNCHANGED <<listening, streamed, guesses>>

\* A sealed packet: it opens with the attempt's key, or tests a guess.
Opens(d) == attempt[d.from] # NoAttempt /\ attempt[d.from].key = d.key
Confirm(d) ==
  /\ Opens(d)
  /\ attempt' = [attempt EXCEPT ![d.from] = NoAttempt]
  /\ strikes' = 0 /\ blocked' = FALSE /\ guesses' = 0
  /\ down' = Sends(down, [kind |-> "pong", from |-> d.from, key |-> d.key])
  /\ listening' = "streaming" /\ streamed' = d.key
  /\ COMEBACK' = TRUE /\ RETURNING' = {} /\ RETURNING_SET' = FALSE
  /\ UNCHANGED <<rx, keys>>
NotOpened(d) ==
  /\ ~Opens(d)
  /\ IF attempt[d.from] = NoAttempt \/ attempt[d.from].tested THEN UNCHANGED <<attempt, guesses>>
     ELSE attempt' = [attempt EXCEPT ![d.from].tested = TRUE] /\ guesses' = guesses + 1
  /\ UNCHANGED <<strikes, blocked, listening, streamed, down, keys>>

\* SignIn::handle of one datagram, the hello that ended a stream first.
Handle(d) ==
  /\ listening = "sign-in"
  /\ IF handed # {} THEN d \in handed /\ handed' = {} /\ UNCHANGED up
     ELSE d \in up /\ up' \in Arrives(up, d) /\ UNCHANGED handed
  /\ \/ /\ d.kind = "hello"
        /\ Refuse(d) \/ GiveCookie(d) \/ TooMuchWork(d) \/ Challenge(d)
        /\ UNCHANGED <<RETURNING, RETURNING_SET, COMEBACK, rx>>
     \/ d.kind = "ping" /\ Confirm(d)
     \/ d.kind = "ping" /\ NotOpened(d) /\ UNCHANGED <<RETURNING, RETURNING_SET, COMEBACK, rx>>
  /\ UNCHANGED <<userVars, period, lost, blocks>>

\* SignIn::tick: an attempt whose time is over (Timely: not one that goes on).
UntestedToo(a) == TRUE
ChargeExpired(a) == attempt[a].tested
GoesOn(a) == LET u == a[1] IN a = Here(u) /\ at_user[u] \in {"hello", "pinging"} /\ ~attempt[a].tested
Expire(a) ==
  /\ listening = "sign-in" /\ attempt[a] # NoAttempt /\ (Timely => ~GoesOn(a))
  /\ Charge(ChargeExpired(a))
  /\ attempt' = [attempt EXCEPT ![a] = NoAttempt]
  /\ UNCHANGED <<listening, streamed, guesses, backVars, userVars, period, keys, up, down, lost, blocks>>

\* Time: a block ends, every attempt from before it long since expired; the
\* cookies' next period.
Unblock ==
  /\ blocked /\ \A a \in Addresses : attempt[a] = NoAttempt
  /\ blocks < MaxBlocks /\ blocks' = blocks + 1 /\ blocked' = FALSE
  /\ UNCHANGED <<attempt, strikes, listening, streamed, guesses, backVars, userVars, period, keys, up, down, lost>>
NextPeriod ==
  /\ period < MaxPeriods /\ period' = period + 1
  /\ UNCHANGED <<hostVars, backVars, userVars, keys, up, down, lost, blocks>>

-----------------------------------------------------------------------------
(* The agent, streaming: its loop, and the receive thread. *)

Receiving == listening \in {"streaming", "ending"} /\ rx = "idle"
RxPing(d) ==
  /\ Receiving /\ d \in up /\ d.kind = "ping" /\ up' \in Arrives(up, d)
  /\ down' = IF d.key = streamed THEN Sends(down, [kind |-> "pong", from |-> d.from, key |-> d.key]) ELSE down
  /\ UNCHANGED <<hostVars, backVars, userVars, period, keys, lost, blocks>>

\* comeback: the cookie round; with a cookie, the hello is kept, then the flag
\* set, with COMEBACK locked.
RxHello(d) ==
  /\ Receiving /\ d \in up /\ d.kind = "hello" /\ up' \in Arrives(up, d)
  /\ IF RETURNING_SET \/ ~COMEBACK THEN UNCHANGED <<RETURNING, rx, down>>
     ELSE IF CookieValid(d) THEN RETURNING' = {d} /\ rx' = "kept" /\ UNCHANGED down
     ELSE /\ down' = Sends(down, [kind |-> "cookie", from |-> d.from, period |-> period])
          /\ UNCHANGED <<RETURNING, rx>>
  /\ UNCHANGED <<hostVars, RETURNING_SET, COMEBACK, handed, userVars, period, keys, lost, blocks>>
RxFlag ==
  /\ rx = "kept" /\ rx' = "idle" /\ RETURNING_SET' = TRUE
  /\ UNCHANGED <<hostVars, RETURNING, COMEBACK, handed, userVars, period, keys, up, down, lost, blocks>>

\* The loop sees the flag, or hears nothing of the client for CLIENT_TIMEOUT.
StreamOver ==
  /\ listening = "streaming" /\ listening' = "ending"
  /\ RETURNING_SET \/ ~\E u \in Users : at_user[u] \in {"pinging", "streaming"} /\ key[u] = streamed
  /\ UNCHANGED <<attempt, strikes, blocked, streamed, guesses, backVars, userVars, period, keys, up, down, lost, blocks>>

\* The receive thread has ended; COMEBACK is taken, then take_returning: the
\* flag, then the hello.
Ended ==
  /\ listening = "ending" /\ rx = "idle" /\ listening' = "ended"
  /\ COMEBACK' = FALSE /\ streamed' = Nobody
  /\ UNCHANGED <<attempt, strikes, blocked, guesses, RETURNING, RETURNING_SET, rx, handed, userVars, period, keys, up, down, lost, blocks>>
ClearReturning ==
  /\ listening = "ended" /\ listening' = "cleared" /\ RETURNING_SET' = FALSE
  /\ UNCHANGED <<attempt, strikes, blocked, streamed, guesses, RETURNING, COMEBACK, rx, handed, userVars, period, keys, up, down, lost, blocks>>
TakeReturning ==
  /\ listening = "cleared" /\ listening' = "sign-in"
  /\ handed' = RETURNING /\ RETURNING' = {}
  /\ UNCHANGED <<attempt, strikes, blocked, streamed, guesses, RETURNING_SET, COMEBACK, rx, userVars, period, keys, up, down, lost, blocks>>

LoseDatagram ==
  /\ lost < MaxLosses /\ lost' = lost + 1
  /\ \/ \E d \in up : up' = up \ {d} /\ UNCHANGED down
     \/ \E d \in down : down' = down \ {d} /\ UNCHANGED up
  /\ UNCHANGED <<hostVars, backVars, userVars, period, keys, blocks>>

-----------------------------------------------------------------------------
SignInit ==
  /\ attempt = [a \in Addresses |-> NoAttempt]
  /\ strikes = 0 /\ blocked = FALSE /\ period = 1
  /\ listening = "sign-in" /\ streamed = Nobody /\ guesses = 0
  /\ RETURNING = {} /\ RETURNING_SET = FALSE /\ COMEBACK = FALSE /\ rx = "idle" /\ handed = {}
  /\ at_user = [u \in Users |-> "idle"] /\ call = [u \in Users |-> 0]
  /\ nonce = [u \in Users |-> 0] /\ cookie = [u \in Users |-> Nobody] /\ key = [u \in Users |-> Nobody]
  /\ hellos = [u \in Users |-> 0] /\ rounds = [u \in Users |-> 0]
  /\ nonces = 0 /\ keys = 0 /\ up = {} /\ down = {} /\ lost = 0 /\ blocks = 0

SignUser(u) ==
  \/ ConnectDirect(u) \/ HelloAgain(u) \/ NoAnswer(u) \/ PingHost(u) \/ WrongPassword(u)
  \/ \E d \in down : ClientReceive(u, d)

SignHost ==
  \/ \E d \in up \union handed : Handle(d)
  \/ \E a \in Addresses : Expire(a)
  \/ \E d \in up : RxPing(d) \/ RxHello(d)
  \/ RxFlag \/ StreamOver \/ Ended \/ ClearReturning \/ TakeReturning

SignNext ==
  \/ \E u \in Users : SignUser(u) \/ LoseStream(u)
  \/ \E d \in down : ClientIgnore(d)
  \/ SignHost \/ Unblock \/ NextPeriod \/ LoseDatagram

SignInSpec == SignInit /\ [][SignNext]_signVars

\* Client and agent run, and what is on its way arrives or is lost.
SignFairness ==
  /\ \A u \in Users : WF_signVars(SignUser(u)) /\ WF_signVars(\E d \in down : ClientReceive(u, d))
  /\ WF_signVars(SignHost) /\ WF_signVars(StreamOver) /\ WF_signVars(\E a \in Addresses : Expire(a))
  /\ WF_signVars(\E d \in down : ClientIgnore(d))
SignInLive == SignInSpec /\ SignFairness

-----------------------------------------------------------------------------
(* Properties *)

\* Wrong passwords are rationed: however clients start over, run attempts side
\* by side or abandon them, what they have tested since a success is bounded by
\* FREE_FAILURES and what is in flight as a block begins, once for every block.
\* (In flight: MAX_PENDING_PER_IP, and one more, as the attempt that replaces
\* the one whose charge begins the block is not refused.)
GuessesRationed == guesses < FREE_FAILURES + (blocks + 1) * (MAX_PENDING_PER_IP + 1)

\* A client that knows the password is never charged with a wrong one ("Too
\* many wrong passwords from this address", docs/hyper.md).
OnlyWrongCharged == Right = Users => strikes = 0

\* A client that knows the password and goes on trying streams, and streams
\* again: after its stream was lost, after a sign-in that losses broke off, and
\* although the host may still be streaming to its old self.
ComesBack == \A u \in Right : (call[u] > 0) ~> (at_user[u] = "streaming")
=============================================================================
