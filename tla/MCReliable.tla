----------------------------- MODULE MCReliable -----------------------------
(***************************************************************************)
(* Reliable for TLC, over two kinds of links.  One may do anything, for as  *)
(* long as FreeTx transmissions.  The other is timely, and loses at most    *)
(* MaxLoss datagrams: the retransmission timeout (at least 40 ms, twice the *)
(* round trip) is longer than a round trip plus the ack delay (5 ms), so it *)
(* fires only for what the link has lost.  Then retransmissions are finite  *)
(* and the channel must drain.                                              *)
(***************************************************************************)
EXTENDS Reliable

CONSTANTS FreeTx,     \* bound: transmissions over a link that may do anything
          MaxLoss     \* bound: datagrams a timely link loses, either way
VARIABLES timely, losses

Quiet == data = {} /\ acks = {} /\ unacked = 0

TimelyPoll == \E T \in SUBSET DOMAIN queue : (T = {} \/ Quiet) /\ Poll(T, Cardinality(DOMAIN queue))
Arrive == \E p \in data : DeliverData(p, FALSE)
SendAck == Ack(TRUE)
AckArrives == \E a \in acks, queued \in BOOLEAN, g \in 0..Cardinality(DOMAIN queue) :
                DeliverAck(a, FALSE, queued, g)
Lose == (\E p \in data : LoseData(p)) \/ (\E a \in acks : LoseAck(a))
TimelyNext ==
  \/ (\E k \in 1..MaxChunks : Send(k)) /\ UNCHANGED losses
  \/ (TimelyPoll \/ Arrive \/ SendAck \/ AckArrives) /\ UNCHANGED losses
  \/ Lose /\ losses < MaxLoss /\ losses' = losses + 1

LinkInit == Init /\ timely \in BOOLEAN /\ losses = 0
LinkNext ==
  /\ UNCHANGED timely
  /\ \/ ~timely /\ Next /\ next_tx' <= FreeTx + 1 /\ UNCHANGED losses
     \/ timely /\ TimelyNext

\* The pump (hyper_link.rs) polls, acknowledges and hands on what arrives for
\* as long as the connection lives.
LinkFairness ==
  /\ WF_vars(timely /\ TimelyPoll) /\ WF_vars(timely /\ Arrive)
  /\ WF_vars(timely /\ SendAck) /\ WF_vars(timely /\ AckArrives)
LinkSpec == LinkInit /\ [][LinkNext]_<<vars, timely, losses>> /\ LinkFairness

-----------------------------------------------------------------------------
\* Over a timely link everything queued is acknowledged in the end: losses,
\* lost acks and window cuts never wedge the channel (Sender, Receiver::ack).
Drains == (timely /\ next_seq > 1) ~> DOMAIN queue = {}
=============================================================================
