--------------------------- MODULE MessageChannel ---------------------------
(***************************************************************************)
(* What crates/rdp-hyper/src/reliable.rs promises its users (clipboard     *)
(* contents, cursor shapes, file transfers): whole messages, in order,     *)
(* exactly once.  A message larger than MAX_MESSAGE is dropped whole.      *)
(* One datagram may close a hole and so complete several messages.         *)
(***************************************************************************)
EXTENDS Naturals, Sequences

CONSTANTS Message,      \* the messages that may be sent
          Fits(_)       \* no larger than MAX_MESSAGE

VARIABLES sent,         \* every message handed to Sender::send, in order
          taken,        \* how many of them the receiver has finished with
          delivered     \* what Receiver::on_data returned, in order

vars == <<sent, taken, delivered>>

Init == sent = <<>> /\ taken = 0 /\ delivered = <<>>

Send == /\ \E m \in Message : sent' = Append(sent, m)
        /\ UNCHANGED <<taken, delivered>>

\* Those of the messages s that are not dropped, in order.
Fitting(s) ==
  LET f[i \in 0..Len(s)] == IF i = 0 THEN <<>>
                            ELSE IF Fits(s[i]) THEN Append(f[i - 1], s[i]) ELSE f[i - 1]
  IN  f[Len(s)]

Deliver == \E k \in (taken + 1)..Len(sent) :
             /\ taken' = k
             /\ delivered' = delivered \o Fitting(SubSeq(sent, taken + 1, k))
             /\ UNCHANGED sent

Next == Send \/ Deliver

Spec == Init /\ [][Next]_vars
=============================================================================
