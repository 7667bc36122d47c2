----------------------------- MODULE AudioOrder -----------------------------
(***************************************************************************)
(* Sound over lossy datagrams (crates/rdp-hyper/src/audio.rs: Sequencer;     *)
(* the sender and AudioReceiver of crates/rdp-client/src/hyper_audio.rs).    *)
(* Every packet carries the newest Opus frame and, unless sound just began   *)
(* or the receiver loses nothing, the one before.  Packets are lost and     *)
(* overtaken; each arrives at most once (Wire).  Frames are told apart by   *)
(* the moment they were captured.  A sender that restarts numbers from the  *)
(* beginning but keeps its clock; its old packets are gone by then (a       *)
(* device is reopened after a second).                                      *)
(*                                                                         *)
(* RestartAnyClock and RestartFar are plausible bugs of Restarted.          *)
(***************************************************************************)
EXTENDS Integers, FiniteSets

CONSTANTS SEQS,          \* sequence numbers, 2^32 in the code
          RESTART_BEHIND,  \* 16
          MaxAudio,       \* bound: frames captured, and so how late a packet or how
                           \* long a loss may be: below half the numbers
          MaxRuns,         \* bound: starts of the sender
          AuMaxNet         \* bound: packets on the way

ASSUME AudioAssumption ==
  /\ SEQS \in Nat \ {0} /\ SEQS % 2 = 0 /\ RESTART_BEHIND \in Nat
  /\ RESTART_BEHIND < SEQS \div 2 - 1 /\ MaxAudio \in 0..((SEQS \div 2) - 1)

NoNext == -1

VARIABLES clock, run, seq, prev,           \* the sender
          packets,                         \* on the way
          next_audio, newest_capture_us,         \* the receiver's Sequencer
          heard,                           \* history: the newest frame decoded
          ordered,                         \* history: none was decoded after a newer one
          deaf                             \* history: packets of this start with a newer frame dropped since
                                          \* one was decoded

audioVars == <<clock, run, seq, prev, packets, next_audio, newest_capture_us, heard, ordered, deaf>>

\* a.wrapping_sub(b) as i32
Ahead(a, b) == LET d == (a - b) % SEQS IN IF d >= SEQS \div 2 THEN d - SEQS ELSE d

\* A frame is captured and sent, with the one before it if there is one and
\* the sender's copies are on.
SendFrame(redundant) ==
  LET s == (seq + 1) % SEQS
      two == prev /\ redundant IN
  /\ clock < MaxAudio /\ Cardinality(packets) < AuMaxNet
  /\ clock' = clock + 1 /\ seq' = s /\ prev' = TRUE
  /\ packets' = packets \union {[seq |-> s, frames |-> IF two THEN 2 ELSE 1, capture_us |-> clock + 1]}
  /\ UNCHANGED <<run, next_audio, newest_capture_us, heard, ordered, deaf>>

\* Silence: nothing is sent, and numbers carry on from the last one sent.
Silence ==
  /\ prev /\ prev' = FALSE
  /\ UNCHANGED <<clock, run, seq, packets, next_audio, newest_capture_us, heard, ordered, deaf>>

\* The sender starts again.
RestartSender ==
  /\ run < MaxRuns /\ packets = {}
  /\ run' = run + 1 /\ seq' = 0 /\ prev' = FALSE /\ deaf' = 0
  /\ UNCHANGED <<clock, packets, next_audio, newest_capture_us, heard, ordered>>

LoseAudio(p) ==
  /\ p \in packets /\ packets' = packets \ {p}
  /\ UNCHANGED <<clock, run, seq, prev, next_audio, newest_capture_us, heard, ordered, deaf>>

\* The sender restarted: far behind what was played, and captured later.
RestartAnyClock(p, nx) == Ahead(p.seq, nx) < -RESTART_BEHIND
RestartFar(p, nx) == Ahead(p.seq, nx) < -(RESTART_BEHIND + 1) /\ p.capture_us > newest_capture_us
Restarted(p, nx) == Ahead(p.seq, nx) < -RESTART_BEHIND /\ p.capture_us > newest_capture_us

\* Sequencer::push: the frames decoded, by when they were captured.  (The
\* first of two was captured one before.)
PushAudio(p) ==
  LET first == (p.seq - (p.frames - 1)) % SEQS
      nx == IF next_audio = NoNext THEN first ELSE next_audio
      again == Restarted(p, nx)
      from == IF again THEN first ELSE nx
      late == ~again /\ Ahead(p.seq, nx) < 0
      decoded == {i \in 0..(p.frames - 1) : Ahead(first + i, from) >= 0}
      captured == {p.capture_us - (p.frames - 1 - i) : i \in decoded}
  IN
  /\ p \in packets /\ packets' = packets \ {p}
  /\ IF late
     THEN /\ deaf' = IF p.capture_us > heard THEN deaf + 1 ELSE deaf
          /\ UNCHANGED <<next_audio, newest_capture_us, heard, ordered>>
     ELSE /\ next_audio' = (p.seq + 1) % SEQS
          /\ newest_capture_us' = IF p.capture_us > newest_capture_us THEN p.capture_us ELSE newest_capture_us
          /\ ordered' = (ordered /\ \A c \in captured : c > heard)
          /\ heard' = p.capture_us /\ deaf' = 0
  /\ UNCHANGED <<clock, run, seq, prev>>

\* AudioReceiver::on_packet opened a new output: a fresh Sequencer.
Reopen ==
  /\ next_audio # NoNext
  /\ next_audio' = NoNext /\ newest_capture_us' = 0 /\ heard' = 0 /\ deaf' = 0
  /\ UNCHANGED <<clock, run, seq, prev, packets, ordered>>

\* The sender has just started, or sent for so long that its numbers wrap soon.
AudioInit ==
  /\ clock = 0 /\ run = 1 /\ seq \in {0, SEQS - 4} /\ prev = FALSE /\ packets = {}
  /\ next_audio = NoNext /\ newest_capture_us = 0
  /\ heard = 0 /\ ordered = TRUE /\ deaf = 0

AudioNext ==
  \/ \E redundant \in BOOLEAN : SendFrame(redundant)
  \/ Silence \/ RestartSender \/ Reopen
  \/ \E p \in packets : LoseAudio(p) \/ PushAudio(p)

AudioSpec == AudioInit /\ [][AudioNext]_audioVars

-----------------------------------------------------------------------------
\* To one output, no frame is decoded twice or after a newer one: copies, late
\* packets, restarts and the wrap of the numbers included (Sequencer::push).
DecodedInOrder == ordered

\* A restarted sender is heard after RESTART_BEHIND packets at most, however
\* its new numbers lie to the old ones and however often it restarts.
HeardAgain == deaf <= RESTART_BEHIND
=============================================================================
