-------------------------------- MODULE Wire --------------------------------
(***************************************************************************)
(* Sealed datagrams (crates/rdp-hyper/src/wire.rs), one direction of a      *)
(* session: Session::seal at one end, Session::open at the other.  Several  *)
(* threads share a session and the path reorders, repeats, loses and damages*)
(* datagrams.  recv_window is the set of the bits of the replay window that *)
(* are set: bit i stands for recv_top - i.  (That the array of words the    *)
(* code keeps ages as Shift says is what WireShift checks.)  FreshUpTo and  *)
(* ShiftClearsEarly are plausible bugs of what follows them.               *)
(***************************************************************************)
EXTENDS Integers, FiniteSets

CONSTANTS REPLAY_WINDOW, \* how far behind the newest a datagram may come
          Versions,      \* protocol versions a header may carry
          version,       \* the one this session agreed on
          Kinds, Update, \* Update datagrams cross versions
          MaxSeq,        \* bound: datagrams sealed
          MaxLink        \* bound: datagrams that may still arrive

ASSUME WireAssumption ==
  /\ REPLAY_WINDOW \in Nat \ {0} /\ MaxSeq \in Nat /\ MaxLink \in Nat
  /\ version \in Versions /\ Update \in Kinds

VARIABLES send_seq, recv_top, recv_window, recv_any,
          link,          \* datagrams that may still arrive
          opened,        \* history: the sequence numbers opened,
          handed         \* and how many bodies were handed up

vars == <<send_seq, recv_top, recv_window, recv_any, link, opened, handed>>

\* A datagram: its header, and whether it still authenticates.
Datagram == [seq : Nat, ver : Versions, kind : Kinds, intact : BOOLEAN]

Init == /\ send_seq = 0 /\ recv_top = 0 /\ recv_window = {} /\ recv_any = FALSE
        /\ link = {} /\ opened = {} /\ handed = 0

\* Session::seal.
Seal(kind) ==
  /\ send_seq < MaxSeq /\ Cardinality(link) < MaxLink
  /\ send_seq' = send_seq + 1
  /\ link' = link \union {[seq |-> send_seq', ver |-> version, kind |-> kind, intact |-> TRUE]}
  /\ UNCHANGED <<recv_top, recv_window, recv_any, opened, handed>>

\* Session::fresh.
FreshUpTo(seq) == ~recv_any \/ seq > recv_top \/ recv_top - seq \notin recv_window
Fresh(seq) ==
  \/ ~recv_any \/ seq > recv_top
  \/ recv_top - seq < REPLAY_WINDOW /\ recv_top - seq \notin recv_window

\* Session::check: version, then freshness, before anything is decrypted.
Check(d) == (d.ver = version \/ d.kind = Update) /\ Fresh(d.seq)

\* Session::shift: age the window by n (bit i moves to i + n).
ShiftClearsEarly(win, n) == {i \in 0..(REPLAY_WINDOW - 1) : i - n \in win /\ n < REPLAY_WINDOW - 1}
Shift(win, n) == {i \in 0..(REPLAY_WINDOW - 1) : i - n \in win}

\* Session::accept.
Accept(seq) ==
  LET top == IF ~recv_any \/ seq > recv_top THEN seq ELSE recv_top
      win == IF ~recv_any THEN {}
             ELSE IF seq > recv_top THEN Shift(recv_window, seq - recv_top)
             ELSE recv_window
  IN /\ recv_any' = TRUE
     /\ recv_top' = top
     /\ recv_window' = win \union {top - seq}

\* Session::open (and open_in_place): check, decrypt, and only then accept.
Open(d) ==
  /\ d \in link
  /\ IF Check(d) /\ d.intact
     THEN /\ Accept(d.seq)
          /\ opened' = opened \union {d.seq}
          /\ handed' = handed + 1
     ELSE UNCHANGED <<recv_top, recv_window, recv_any, opened, handed>>
  /\ UNCHANGED <<send_seq, link>>

\* The path: a datagram is lost, or arrives with a damaged header.
Lose(d) == /\ d \in link /\ link' = link \ {d}
           /\ UNCHANGED <<send_seq, recv_top, recv_window, recv_any, opened, handed>>
Damage(d) == /\ d \in link /\ d.intact
             /\ \E s \in 0..MaxSeq, v \in Versions :
                  link' = (link \ {d}) \union {[d EXCEPT !.seq = s, !.ver = v, !.intact = FALSE]}
             /\ UNCHANGED <<send_seq, recv_top, recv_window, recv_any, opened, handed>>

Next == \/ \E k \in Kinds : Seal(k)
        \/ \E d \in link : Open(d) \/ Lose(d) \/ Damage(d)

Spec == Init /\ [][Next]_vars

-----------------------------------------------------------------------------
TypeOK == /\ send_seq \in Nat /\ recv_top \in Nat /\ recv_any \in BOOLEAN
          /\ recv_window \subseteq 0..(REPLAY_WINDOW - 1)
          /\ link \subseteq Datagram /\ opened \subseteq Nat /\ handed \in Nat

\* A datagram is handed up at most once, however often and late it arrives:
\* a keystroke or a click is never repeated by the network.
OpenedOnce == handed = Cardinality(opened)

\* The replay window says exactly which numbers near the top were opened:
\* nothing genuine that has not been seen yet, and is not too far behind, is
\* taken for a replay, and damaged headers leave no trace.
WindowExact ==
  /\ recv_any <=> opened # {}
  /\ recv_any => /\ recv_top \in opened /\ \A s \in opened : s <= recv_top
                 /\ \A i \in 0..(REPLAY_WINDOW - 1) :
                      i \in recv_window <=> recv_top - i \in opened
=============================================================================
