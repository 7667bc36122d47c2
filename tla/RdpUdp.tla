------------------------------- MODULE RdpUdp -------------------------------
(***************************************************************************)
(* The RDP-UDP transport (crates/rdp-pdu/src/rdpudp.rs: Connection; the     *)
(* driver UdpReliable of crates/rdp-client/src/udp.rs) against a peer that  *)
(* numbers from its SYN+ACK and, on the reliable channel, repeats what is   *)
(* not acknowledged.  Datagrams are lost, repeated and overtaken.  The      *)
(* peer's i-th datagram carries the number Sn(PeerIsn, i), which wraps; its *)
(* payload is i.  A peer whose SYN+ACK lacks its first number is left out,  *)
(* and so are the contents of what the client sends and the timing of round *)
(* trips.                                                                   *)
(*                                                                         *)
(* RetainFrom, DueOrLossy and AckHeld are plausible bugs of what follows     *)
(* them.                                                                    *)
(***************************************************************************)
EXTENDS Integers, FiniteSets, Sequences

CONSTANTS SnMod,          \* sequence numbers, 2^32 in the code
          PeerIsn, OurIsn, \* the first numbers, random
          MAX_REORDER,    \* datagrams held behind a gap, 256
          MAX_UNACKED,    \* datagrams kept for sending again, 512
          SYN_RETRIES,    \* rounds of the handshake
          MaxPeer,        \* bound: datagrams the peer sends
          MaxWrites,      \* bound: datagrams the client sends
          NetIn, NetOut   \* bounds: datagrams that may still arrive here, and there

ASSUME RdpUdpAssumption ==
  /\ SnMod \in Nat \ {0} /\ SnMod % 2 = 0 /\ {PeerIsn, OurIsn} \subseteq 0..(SnMod - 1)
  /\ {MaxPeer, MaxWrites} \subseteq 0..((SnMod \div 2) - 1)
  /\ {MAX_REORDER, MAX_UNACKED, SYN_RETRIES} \subseteq Nat

VARIABLES ustate, tries, lossy,         \* Connection: state; rounds left of the handshake
          recv_seq, recv_next, reorder, \* receiving: acknowledged, due, held (number -> payload)
          written, unacked,             \* sending: the acknowledgement each datagram carries, the numbers kept
          inbox,                        \* history: payloads delivered
          peer_up, peer_sent, peer_acked, peer_took,  \* the peer (external)
          to_client, to_peer            \* datagrams that may still arrive

recvVars == <<recv_seq, recv_next, reorder, inbox>>
sendVars == <<written, unacked>>
peerVars == <<peer_up, peer_sent, peer_acked, peer_took>>
udpVars == <<ustate, tries, lossy, recvVars, sendVars, peerVars, to_client, to_peer>>

Half == SnMod \div 2
Sn(isn, i) == (isn + i) % SnMod
Past(a, b) == (a - b) % SnMod     \* a.wrapping_sub(b)

NoBody == 0
UdpDatagram(kind, n) == [kind |-> kind, sn |-> Sn(PeerIsn, n), body |-> n, ack |-> Sn(OurIsn, peer_took)]
\* Of what is sent, some is lost at once.
Arriving(net, ds, max) == {net \union some : some \in {s \in SUBSET ds : Cardinality(net \union s) <= max}}
ToClient(d) == to_client' \in Arriving(to_client, {d}, NetIn)
ToPeer(ds) == to_peer' \in Arriving(to_peer, ds, NetOut)
\* What the client sends: a SYN, an acknowledgement, or data and one.
Syn == [kind |-> "syn", ack |-> 0, n |-> 0]
Ack(seq) == [kind |-> "ack", ack |-> seq, n |-> 0]
Data(seq, n) == [kind |-> "data", ack |-> seq, n |-> n]

-----------------------------------------------------------------------------
(* The peer. *)

PeerOnSyn == /\ Syn \in to_peer /\ peer_up' = TRUE /\ ToClient(UdpDatagram("synack", 0))
             /\ UNCHANGED <<ustate, tries, lossy, recvVars, sendVars, peer_sent, peer_acked, peer_took, to_peer>>

\* Data is sent, and sent again on the reliable channel; parity; the end.
PeerSend(n) ==
  /\ peer_up /\ (n = peer_sent + 1 \/ (~lossy /\ n \in (peer_acked + 1)..peer_sent)) /\ n <= MaxPeer
  /\ peer_sent' = IF n > peer_sent THEN n ELSE peer_sent
  /\ ToClient(UdpDatagram("data", n))
  /\ UNCHANGED <<ustate, tries, lossy, recvVars, sendVars, peer_up, peer_acked, peer_took, to_peer>>
PeerFec == /\ peer_up /\ peer_sent > 0 /\ ToClient(UdpDatagram("fec", 0))
           /\ UNCHANGED <<ustate, tries, lossy, recvVars, sendVars, peerVars, to_peer>>
PeerFin == /\ peer_up /\ peer_sent = MaxPeer /\ ToClient(UdpDatagram("fin", 0))
           /\ UNCHANGED <<ustate, tries, lossy, recvVars, sendVars, peerVars, to_peer>>

\* What the client acknowledges is not sent again; what it sends is taken in order.
PeerReceive(m) ==
  LET acked == Past(m.ack, Sn(PeerIsn, peer_acked)) IN
  /\ m \in to_peer /\ m.kind # "syn"
  /\ peer_acked' = IF acked < Half THEN peer_acked + acked ELSE peer_acked
  /\ peer_took' = IF m.kind = "data" /\ m.n = peer_took + 1 THEN m.n ELSE peer_took
  /\ UNCHANGED <<ustate, tries, lossy, recvVars, sendVars, peer_up, peer_sent, to_client, to_peer>>

LoseToClient(d) == /\ d \in to_client /\ to_client' = to_client \ {d}
                   /\ UNCHANGED <<ustate, tries, lossy, recvVars, sendVars, peerVars, to_peer>>
LoseToPeer(m) == /\ m \in to_peer /\ to_peer' = to_peer \ {m}
                 /\ UNCHANGED <<ustate, tries, lossy, recvVars, sendVars, peerVars, to_client>>

-----------------------------------------------------------------------------
(* The client. *)

\* Every datagram: keep only what is ahead of the peer's acknowledgement.
RetainFrom(ack) == {s \in unacked : Past(s, ack) > 1 /\ Past(s, ack) < Half}
Retain(ack) == {s \in unacked : Past(s, ack) # 0 /\ Past(s, ack) < Half}

\* UdpTunnel::connect: one round of the handshake, a datagram or a timeout.
\* (Closed before it was established: it can only fail.)
HandshakeReceive(d) ==
  /\ ustate = "SynSent" /\ tries > 0 /\ d \in to_client
  /\ tries' = IF d.kind = "synack" THEN 0 ELSE tries - 1
  /\ CASE d.kind = "synack" -> /\ ustate' = "Established"
                               /\ recv_seq' = d.sn /\ recv_next' = (d.sn + 1) % SnMod
                               /\ ToPeer({Ack(d.sn)})
       [] d.kind = "fin" -> ustate' = "Failed" /\ UNCHANGED <<recv_seq, recv_next, to_peer>>
       [] OTHER -> UNCHANGED <<ustate, recv_seq, recv_next, to_peer>>
  /\ unacked' = Retain(d.ack)
  /\ UNCHANGED <<lossy, reorder, inbox, written, peerVars, to_client>>
HandshakeTimeout ==
  /\ ustate = "SynSent" /\ tries > 0
  /\ tries' = tries - 1 /\ ToPeer({Syn})
  /\ UNCHANGED <<ustate, lossy, recvVars, sendVars, peerVars, to_client>>

\* The handshake was done: TLS reads and writes, also after the peer's end.
Tunnel == ustate \in {"Established", "Closed"}

\* How many held datagrams follow next without a gap.
Run(held, next) == CHOOSE k \in 0..Cardinality(held) :
  /\ \A i \in 0..(k - 1) : (next + i) % SnMod \in held
  /\ (next + k) % SnMod \notin held

\* on_receive, data: deliver in order, hold behind a gap, drop what was delivered.
DueOrLossy(d) == Past(d.sn, recv_next) = 0 \/ (lossy /\ Past(d.sn, recv_next) < Half)
Due(d) == Past(d.sn, recv_next) = 0
Hold(d) == reorder' = IF Cardinality(DOMAIN reorder) < MAX_REORDER
                      THEN [s \in DOMAIN reorder \union {d.sn} |-> IF s = d.sn THEN d.body ELSE reorder[s]]
                      ELSE reorder
OnUdpData(d) ==
  LET next == (recv_next + 1) % SnMod
      k == Run(DOMAIN reorder, next)
      drained == {(next + i) % SnMod : i \in 0..(k - 1)}
  IN
  CASE Past(d.sn, recv_next) >= Half -> UNCHANGED recvVars
    [] Due(d) ->
       /\ inbox' = Append(inbox, d.body) \o [i \in 1..k |-> reorder[(next + i - 1) % SnMod]]
       /\ reorder' = [s \in DOMAIN reorder \ drained |-> reorder[s]]
       /\ recv_next' = (next + k) % SnMod
       /\ recv_seq' = (next + k - 1) % SnMod
    [] OTHER -> Hold(d) /\ UNCHANGED <<recv_seq, recv_next, inbox>>

AckHeld == {Ack(IF DOMAIN reorder' = {} THEN recv_seq' ELSE CHOOSE s \in DOMAIN reorder' : TRUE)}
AckNow == {Ack(recv_seq')}

\* UdpReliable::pump: one datagram.
Pump(d) ==
  /\ Tunnel /\ d \in to_client
  /\ unacked' = Retain(d.ack)
  /\ CASE d.kind = "data" /\ ustate = "Established" -> OnUdpData(d) /\ ToPeer(AckNow) /\ UNCHANGED ustate
       [] d.kind = "fec" /\ ustate = "Established" -> UNCHANGED recvVars /\ ToPeer(AckNow) /\ UNCHANGED ustate
       [] d.kind = "fin" -> ustate' = "Closed" /\ UNCHANGED <<recvVars, to_peer>>
       [] OTHER -> UNCHANGED <<ustate, recvVars, to_peer>>
  /\ UNCHANGED <<tries, lossy, written, peerVars, to_client>>

\* UdpReliable::maybe_retransmit, after the retransmission timeout.
Retransmit ==
  LET again == {n \in DOMAIN written : Sn(OurIsn, n) \in unacked} IN
  /\ Tunnel /\ unacked # {}
  /\ ToPeer({Data(written[n], n) : n \in again})
  /\ UNCHANGED <<ustate, tries, lossy, recvVars, written, unacked, peerVars, to_client>>

\* UdpReliable::write, Connection::build_data.  The map's first key is what
\* goes when it is full: the smallest number.
Smallest(S) == CHOOSE s \in S : \A t \in S : s <= t
Write ==
  LET kept == IF Cardinality(unacked) >= MAX_UNACKED THEN unacked \ {Smallest(unacked)} ELSE unacked
      n == Len(written) + 1
  IN
  /\ Tunnel /\ n <= MaxWrites
  /\ written' = Append(written, recv_seq)
  /\ unacked' = IF lossy THEN {} ELSE kept \union {Sn(OurIsn, n)}
  /\ ToPeer({Data(recv_seq, n)})
  /\ UNCHANGED <<ustate, tries, lossy, recvVars, peerVars, to_client>>

UdpInit ==
  /\ ustate = "SynSent" /\ tries = SYN_RETRIES /\ lossy \in BOOLEAN
  /\ recv_seq = 0 /\ recv_next = 0 /\ reorder = <<>>
  /\ written = <<>> /\ unacked = {}
  /\ inbox = <<>>
  /\ peer_up = FALSE /\ peer_sent = 0 /\ peer_acked = 0 /\ peer_took = 0
  /\ to_client = {} /\ to_peer = {Syn}

UdpNext ==
  \/ PeerOnSyn \/ PeerFec \/ PeerFin
  \/ \E n \in 1..MaxPeer : PeerSend(n)
  \/ \E m \in to_peer : PeerReceive(m) \/ LoseToPeer(m)
  \/ \E d \in to_client : HandshakeReceive(d) \/ Pump(d) \/ LoseToClient(d)
  \/ HandshakeTimeout \/ Retransmit \/ Write

UdpSpec == UdpInit /\ [][UdpNext]_udpVars

-----------------------------------------------------------------------------
\* The stream under TLS is exactly what the peer sent, in its order, without
\* a gap or a repetition, across the wrap of the numbers.
StreamExact == inbox = [i \in 1..Len(inbox) |-> i]

\* The client never acknowledges what it has not delivered, so the peer still
\* sends again whatever is missing.
AckedWasDelivered == peer_acked <= Len(inbox)

\* What the peer has not taken is kept for sending again (reliable channel,
\* while the buffer is not full).
KeptUntilTaken ==
  (~lossy /\ Len(written) <= MAX_UNACKED) => \A n \in (peer_took + 1)..Len(written) : Sn(OurIsn, n) \in unacked
=============================================================================
