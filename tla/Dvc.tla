-------------------------------- MODULE Dvc --------------------------------
(***************************************************************************)
(* Dynamic channels of an RDP session (crates/rdp-graphics/src/channel.rs:  *)
(* GraphicsChannel; crates/rdp-channels/src/drdynvc.rs: Reassembler).  The  *)
(* server (external) opens channels, sends messages in fragments, those of  *)
(* several channels mixed, closes channels and gives their ids to new ones. *)
(* The static channel underneath is ordered and loses nothing, so a PDU is  *)
(* processed in the step that sends it.  A fragment says of which message   *)
(* it is, and which of how many.                                            *)
(*                                                                         *)
(* OnePending and ForgetButLossy are plausible bugs of what follows them.   *)
(***************************************************************************)
EXTENDS Naturals, Sequences

CONSTANTS Ids, NoId,     \* channel ids
          Names,         \* what the server opens
          MidClose,      \* may it close a channel in the middle of a message?
          MaxFragments,  \* bound: fragments of a message
          MaxMessages,   \* bound: messages sent
          MaxOpens       \* bound: channels opened

\* One register each; several camera devices and bridged channels; the order
\* in which process looks for the owner of an id.
Registers == {"gfx", "disp", "mic", "speaker", "lossy", "camera", "rdpei"}
Lists == {"device", "bridge"}
LookUp == <<"gfx", "mic", "speaker", "lossy", "camera", "device", "rdpei", "bridge">>

ASSUME DvcAssumption == NoId \notin Ids /\ Names \subseteq Registers \union Lists \union {"other"}

NoName == "none"
NoMessage == <<>>

VARIABLES chan, sending, messages, opens,     \* the server
          channel_id, channel_ids, partial,   \* GraphicsChannel, Reassembler
          whole, routed                       \* history of what was handed up

serverVars == <<chan, sending, messages, opens>>
dvcVars == <<serverVars, channel_id, channel_ids, partial, whole, routed>>

Owns(e, id) == IF e \in Lists THEN id \in channel_ids[e] ELSE channel_id[e] = id
Owner(id) ==
  LET owners == {i \in DOMAIN LookUp : Owns(LookUp[i], id)} IN
  IF owners = {} THEN NoName ELSE LookUp[CHOOSE i \in owners : \A j \in owners : i <= j]

\* A create request: a register or a list takes the id; a bridged name is the
\* redirector's to accept; everything else is declined.  (The server has no
\* two channels open for an endpoint that has one register.)
Create(id, name, accepted) ==
  /\ opens < MaxOpens /\ chan[id] = NoName
  /\ name \in Registers => \A i \in Ids : chan[i] # name
  /\ opens' = opens + 1
  /\ name # "bridge" => accepted = (name # "other")
  /\ chan' = [chan EXCEPT ![id] = IF accepted THEN name ELSE NoName]
  /\ channel_id' = IF name \in Registers THEN [channel_id EXCEPT ![name] = id] ELSE channel_id
  /\ channel_ids' = IF name \in Lists /\ accepted THEN [channel_ids EXCEPT ![name] = @ \union {id}] ELSE channel_ids
  /\ UNCHANGED <<sending, messages, partial, whole, routed>>

\* Reassembler::accept: what is pending for the channel after a fragment, and
\* the message that it completes.
OnePending(id) == IF \E i \in Ids : partial[i] # NoMessage
                  THEN partial[CHOOSE i \in Ids : partial[i] # NoMessage] ELSE NoMessage
Pending(id) == partial[id]
Got(id, f) == IF f.i = 1 /\ f.of > 1 THEN <<f>> ELSE Append(Pending(id), f)
Total(got) == got[1].of
Completes(got) == Len(got) >= Total(got)

WholeMessage(got) == Len(got) = Total(got) /\ \A k \in DOMAIN got : got[k] = [got[1] EXCEPT !.i = k]

\* process, data: to the channel's endpoint once it is complete.  Display
\* control takes no data, and what no one owns is dropped.
OnChannelData(id, f) ==
  LET got == Got(id, f) IN
  IF Owner(id) \in {NoName, "rdpei"} THEN UNCHANGED <<partial, whole, routed>>
  ELSE /\ partial' = [partial EXCEPT ![id] = IF Completes(got) THEN NoMessage ELSE got]
       /\ whole' = (whole /\ (Completes(got) <=> f.i = f.of) /\ (Completes(got) => WholeMessage(got)))
       /\ routed' = (routed /\ Owner(id) = chan[id])

SendFragment(id, n) ==
  LET first == sending[id] = NoMessage
      f == IF first THEN [m |-> messages + 1, i |-> 1, of |-> n]
           ELSE [sending[id][1] EXCEPT !.i = @ + 1]
  IN
  /\ chan[id] # NoName /\ (~first => n = sending[id][1].of)
  /\ first => messages < MaxMessages
  /\ messages' = IF first THEN messages + 1 ELSE messages
  /\ sending' = [sending EXCEPT ![id] = IF f.i = f.of THEN NoMessage ELSE <<f>>]
  /\ OnChannelData(id, f)
  /\ UNCHANGED <<chan, opens, channel_id, channel_ids>>

\* process, close: every register and list forgets the id.
ForgetButLossy(id) ==
  /\ channel_id' = [e \in Registers |-> IF channel_id[e] = id /\ e # "lossy" THEN NoId ELSE channel_id[e]]
  /\ channel_ids' = [e \in Lists |-> channel_ids[e] \ {id}]
Forget(id) ==
  /\ channel_id' = [e \in Registers |-> IF channel_id[e] = id THEN NoId ELSE channel_id[e]]
  /\ channel_ids' = [e \in Lists |-> channel_ids[e] \ {id}]
Close(id) ==
  /\ chan[id] # NoName /\ (MidClose \/ sending[id] = NoMessage)
  /\ chan' = [chan EXCEPT ![id] = NoName]
  /\ sending' = [sending EXCEPT ![id] = NoMessage]
  /\ Forget(id)
  /\ UNCHANGED <<messages, opens, partial, whole, routed>>

DvcInit ==
  /\ chan = [id \in Ids |-> NoName] /\ sending = [id \in Ids |-> NoMessage]
  /\ messages = 0 /\ opens = 0
  /\ channel_id = [e \in Registers |-> NoId] /\ channel_ids = [e \in Lists |-> {}]
  /\ partial = [id \in Ids |-> NoMessage]
  /\ whole = TRUE /\ routed = TRUE

DvcNext ==
  \E id \in Ids :
    \/ \E name \in Names, accepted \in BOOLEAN : Create(id, name, accepted)
    \/ \E n \in 1..MaxFragments : SendFragment(id, n)
    \/ Close(id)

DvcSpec == DvcInit /\ [][DvcNext]_dvcVars

-----------------------------------------------------------------------------
\* What an endpoint is handed is one message of the server, with all its
\* fragments in order and nothing of another, as soon as the last one came:
\* messages of several channels mixed, ids used again.
MessagesWhole == whole

\* A message goes to the endpoint for which its channel was opened, however
\* ids go from one channel to another.
RoutedRight == routed
=============================================================================
