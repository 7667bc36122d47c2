---------------------------- MODULE ChannelProofs ----------------------------
(***************************************************************************)
(* Proofs about channels.  Dvc: the channels of an RDP session, whatever    *)
(* ids and names the server uses and however it mixes the fragments of its  *)
(* messages.  Input: whatever the path does to packets and acknowledgements *)
(* the host's state follows the client's.                                   *)
(***************************************************************************)
EXTENDS Dvc, Input, WellFoundedInduction, TLAPS

-----------------------------------------------------------------------------
(* The inductive invariant of the dynamic channels *)

Fragments == [m : Nat, i : Nat, of : Nat]
Found == {"gfx", "mic", "speaker", "lossy", "camera", "device", "rdpei", "bridge"}

DvcTypes ==
  /\ chan \in [Ids -> Registers \union Lists \union {NoName}]
  /\ channel_id \in [Registers -> Ids \union {NoId}] /\ channel_ids \in [Lists -> SUBSET Ids]
  /\ messages \in Nat /\ DOMAIN partial = Ids /\ DOMAIN sending = Ids

\* An id is in the register or list of its channel's endpoint, and in no other.
Ownership ==
  \A id \in Ids :
    /\ \A e \in Registers : channel_id[e] = id <=> chan[id] = e
    /\ \A e \in Lists : id \in channel_ids[e] <=> chan[id] = e

\* The first n fragments of a message.
FirstOf(s, n) == [k \in 1..n |-> [m |-> s.m, i |-> k, of |-> s.of]]

\* Data of the channel is put together.
Assembled(id) == chan[id] \in Found \ {"rdpei"}

\* What is pending for a channel is what the server has sent of a message.
InStep ==
  \A id \in Ids :
    \/ sending[id] = NoMessage /\ partial[id] = NoMessage
    \/ \E s \in Fragments :
         /\ chan[id] # NoName /\ sending[id] = <<s>> /\ 1 <= s.i /\ s.i < s.of
         /\ partial[id] = IF Assembled(id) THEN FirstOf(s, s.i) ELSE NoMessage

DvcIInv == DvcTypes /\ Ownership /\ routed = TRUE

-----------------------------------------------------------------------------
LEMMA LookUpFinds ==
  /\ DOMAIN LookUp = 1..8 /\ Found = {LookUp[i] : i \in 1..8}
  /\ \A i, j \in 1..8 : LookUp[i] = LookUp[j] => i = j
  /\ Found \subseteq Registers \union Lists /\ NoName \notin Found
<1>1. /\ DOMAIN LookUp = 1..8
      /\ LookUp[1] = "gfx" /\ LookUp[2] = "mic" /\ LookUp[3] = "speaker" /\ LookUp[4] = "lossy"
      /\ LookUp[5] = "camera" /\ LookUp[6] = "device" /\ LookUp[7] = "rdpei" /\ LookUp[8] = "bridge"
  BY DEF LookUp
<1>2. \A i \in 1..8 : i = 1 \/ i = 2 \/ i = 3 \/ i = 4 \/ i = 5 \/ i = 6 \/ i = 7 \/ i = 8
  OBVIOUS
<1>3. 1 \in 1..8 /\ 2 \in 1..8 /\ 3 \in 1..8 /\ 4 \in 1..8 /\ 5 \in 1..8 /\ 6 \in 1..8 /\ 7 \in 1..8 /\ 8 \in 1..8
  OBVIOUS
<1>4. Found = {LookUp[i] : i \in 1..8}
  BY <1>1, <1>2, <1>3 DEF Found
<1>5. \A i, j \in 1..8 : LookUp[i] = LookUp[j] => i = j
  BY <1>1, <1>2
<1>6. Found \subseteq Registers \union Lists /\ NoName \notin Found
  BY DEF Found, Registers, Lists, NoName
<1> QED
  BY <1>1, <1>4, <1>5, <1>6

\* process finds the endpoint of the channel, if it looks for it at all.
LEMMA OwnerFound ==
  ASSUME DvcTypes, Ownership, NEW id \in Ids
  PROVE  Owner(id) = IF chan[id] \in Found THEN chan[id] ELSE NoName
<1> DEFINE owners == {i \in DOMAIN LookUp : Owns(LookUp[i], id)}
<1>1. \A i \in 1..8 : Owns(LookUp[i], id) <=> chan[id] = LookUp[i]
  <2> SUFFICES ASSUME NEW i \in 1..8 PROVE Owns(LookUp[i], id) <=> chan[id] = LookUp[i]
    OBVIOUS
  <2>1. LookUp[i] \in Registers \union Lists
    BY LookUpFinds
  <2> QED
    BY <2>1 DEF Owns, Ownership, Registers, Lists
<1>2. owners = {i \in 1..8 : chan[id] = LookUp[i]}
  BY <1>1, LookUpFinds
<1>3. CASE chan[id] \notin Found
  BY <1>2, <1>3, LookUpFinds DEF Owner
<1>4. CASE chan[id] \in Found
  <2>1. PICK i \in 1..8 : chan[id] = LookUp[i]
    BY <1>4, LookUpFinds
  <2>2. owners = {i}
    BY <1>2, <2>1, LookUpFinds
  <2>3. (CHOOSE j \in owners : \A k \in owners : j <= k) = i
    BY <2>2
  <2> QED
    BY <1>4, <2>1, <2>2, <2>3 DEF Owner
<1> QED
  BY <1>3, <1>4

LEMMA DvcInitIInv == DvcInit => DvcIInv
  BY DvcAssumption DEF DvcInit, DvcIInv, DvcTypes, Ownership, Registers, Lists, NoName

LEMMA CreateIInv ==
  ASSUME DvcTypes, Ownership, NEW id \in Ids, NEW name \in Names, NEW accepted \in BOOLEAN,
         Create(id, name, accepted)
  PROVE  DvcTypes' /\ Ownership'
<1>1. /\ chan[id] = NoName
      /\ name \in Registers => \A i \in Ids : chan[i] # name
      /\ name # "bridge" => accepted = (name # "other")
      /\ chan' = [chan EXCEPT ![id] = IF accepted THEN name ELSE NoName]
      /\ channel_id' = IF name \in Registers THEN [channel_id EXCEPT ![name] = id] ELSE channel_id
      /\ channel_ids' = IF name \in Lists /\ accepted THEN [channel_ids EXCEPT ![name] = @ \union {id}]
                        ELSE channel_ids
      /\ UNCHANGED <<messages, partial, sending>>
  BY DEF Create
<1>2. /\ name \in Registers \union Lists \union {"other"} /\ "other" \notin Registers \union Lists
      /\ NoName \notin Registers \union Lists /\ Registers \cap Lists = {} /\ "bridge" \notin Registers
  BY DvcAssumption DEF Registers, Lists, NoName
<1>3. /\ chan \in [Ids -> Registers \union Lists \union {NoName}]
      /\ channel_id \in [Registers -> Ids \union {NoId}] /\ channel_ids \in [Lists -> SUBSET Ids]
  BY DEF DvcTypes
<1>4. CASE name \in Registers
  <2>1. accepted
    BY <1>1, <1>2, <1>4
  <2>2. /\ chan' = [chan EXCEPT ![id] = name] /\ channel_id' = [channel_id EXCEPT ![name] = id]
        /\ channel_ids' = channel_ids
    BY <1>1, <1>2, <1>4, <2>1
  <2>3. DvcTypes'
    BY <1>1, <1>3, <1>4, <2>2 DEF DvcTypes
  <2>4. Ownership'
    BY <1>1, <1>2, <1>3, <1>4, <2>2 DEF Ownership
  <2> QED
    BY <2>3, <2>4
<1>5. CASE name \in Lists /\ accepted
  <2>1. /\ chan' = [chan EXCEPT ![id] = name] /\ channel_id' = channel_id
        /\ channel_ids' = [channel_ids EXCEPT ![name] = @ \union {id}]
    BY <1>1, <1>2, <1>5
  <2>2. DvcTypes'
    BY <1>1, <1>3, <1>5, <2>1 DEF DvcTypes
  <2>3. Ownership'
    BY <1>1, <1>2, <1>3, <1>5, <2>1 DEF Ownership
  <2> QED
    BY <2>2, <2>3
<1>6. CASE name \notin Registers /\ ~(name \in Lists /\ accepted)
  <2>1. ~accepted
    BY <1>1, <1>2, <1>6
  <2>2. chan' = chan /\ channel_id' = channel_id /\ channel_ids' = channel_ids
    BY <1>1, <1>3, <1>6, <2>1
  <2> QED
    BY <1>1, <2>2 DEF DvcTypes, Ownership
<1> QED
  BY <1>4, <1>5, <1>6

LEMMA CloseIInv ==
  ASSUME DvcTypes, Ownership, NEW id \in Ids, Close(id)
  PROVE  DvcTypes' /\ Ownership'
<1>1. /\ chan' = [chan EXCEPT ![id] = NoName]
      /\ channel_id' = [e \in Registers |-> IF channel_id[e] = id THEN NoId ELSE channel_id[e]]
      /\ channel_ids' = [e \in Lists |-> channel_ids[e] \ {id}]
      /\ sending' = [sending EXCEPT ![id] = NoMessage] /\ UNCHANGED <<messages, partial>>
  BY DEF Close, Forget
<1>2. NoId \notin Ids /\ NoName \notin Registers \union Lists
  BY DvcAssumption DEF Registers, Lists, NoName
<1>3. DvcTypes'
  BY <1>1 DEF DvcTypes
<1>4. Ownership'
  BY <1>1, <1>2 DEF DvcTypes, Ownership
<1> QED
  BY <1>3, <1>4

LEMMA SendIInv ==
  ASSUME DvcIInv, NEW id \in Ids, NEW n \in 1..MaxFragments, SendFragment(id, n)
  PROVE  DvcIInv'
<1>1. PICK f : OnChannelData(id, f) /\ DOMAIN sending' = DOMAIN sending
  BY DEF SendFragment
<1>2. messages' \in Nat /\ UNCHANGED <<chan, channel_id, channel_ids>>
  BY DEF SendFragment, DvcIInv, DvcTypes
<1>3. DOMAIN partial' = DOMAIN partial
  BY <1>1 DEF OnChannelData
<1>4. DvcTypes'
  BY <1>1, <1>2, <1>3 DEF DvcIInv, DvcTypes
<1>5. Ownership'
  BY <1>2 DEF DvcIInv, Ownership
<1>6. Owner(id) = chan[id] \/ Owner(id) = NoName
  BY OwnerFound DEF DvcIInv
<1>7. routed' = TRUE
  BY <1>1, <1>6 DEF OnChannelData, DvcIInv
<1> QED
  BY <1>4, <1>5, <1>7 DEF DvcIInv

LEMMA DvcStepIInv == DvcIInv /\ [DvcNext]_dvcVars => DvcIInv'
<1> SUFFICES ASSUME DvcIInv, [DvcNext]_dvcVars PROVE DvcIInv'
  OBVIOUS
<1>1. ASSUME NEW id \in Ids, NEW name \in Names, NEW accepted \in BOOLEAN, Create(id, name, accepted)
      PROVE  DvcIInv'
  BY <1>1, CreateIInv DEF DvcIInv, Create
<1>2. ASSUME NEW id \in Ids, NEW n \in 1..MaxFragments, SendFragment(id, n) PROVE DvcIInv'
  BY <1>2, SendIInv
<1>3. ASSUME NEW id \in Ids, Close(id) PROVE DvcIInv'
  BY <1>3, CloseIInv DEF DvcIInv, Close
<1>4. CASE UNCHANGED dvcVars
  BY <1>4 DEF dvcVars, serverVars, DvcIInv, DvcTypes, Ownership
<1> QED
  BY <1>1, <1>2, <1>3, <1>4 DEF DvcNext

\* Whatever ids the server closes and gives away again, data goes to the
\* endpoint its channel was opened for (channel.rs, process).
THEOREM AlwaysRoutedRight == DvcSpec => []RoutedRight
<1>1. DvcIInv => RoutedRight
  BY DEF DvcIInv, RoutedRight
<1> QED
  BY DvcInitIInv, DvcStepIInv, <1>1, PTL DEF DvcSpec

-----------------------------------------------------------------------------
(* Messages *)

LEMMA FirstOfFacts ==
  ASSUME NEW s \in Fragments, NEW n \in Nat
  PROVE  /\ FirstOf(s, n) \in Seq(Fragments) /\ Len(FirstOf(s, n)) = n
         /\ Append(FirstOf(s, n), [m |-> s.m, i |-> n + 1, of |-> s.of]) = FirstOf(s, n + 1)
         /\ FirstOf(s, 0) = <<>>
         /\ FirstOf(s, 1) = <<[m |-> s.m, i |-> 1, of |-> s.of]>>
<1>1. s.m \in Nat /\ s.of \in Nat
  BY DEF Fragments
<1>2. \A j \in Nat : FirstOf(s, j) \in Seq(Fragments) /\ Len(FirstOf(s, j)) = j
  BY <1>1 DEF FirstOf, Fragments
<1>3. Append(FirstOf(s, n), [m |-> s.m, i |-> n + 1, of |-> s.of]) = FirstOf(s, n + 1)
  <2> DEFINE a == Append(FirstOf(s, n), [m |-> s.m, i |-> n + 1, of |-> s.of])
             b == FirstOf(s, n + 1)
  <2>1. a \in Seq(Fragments) /\ Len(a) = n + 1
    BY <1>1, <1>2 DEF Fragments
  <2>2. b \in Seq(Fragments) /\ Len(b) = n + 1
    BY <1>2
  <2>3. \A k \in 1..(n + 1) : a[k] = b[k]
    BY <1>2 DEF FirstOf
  <2> HIDE DEF a, b
  <2>4. a = b
    BY <2>1, <2>2, <2>3
  <2> QED
    BY <2>4 DEF a, b
<1>4. FirstOf(s, 0) = <<>>
  BY <1>2
<1>5. FirstOf(s, 1) = <<[m |-> s.m, i |-> 1, of |-> s.of]>>
  BY <1>2 DEF FirstOf
<1> QED
  BY <1>2, <1>3, <1>4, <1>5

\* The Reassembler completes a message with its last fragment, and then has
\* all of it.
LEMMA CompletesLast ==
  ASSUME NEW s \in Fragments, NEW n \in Nat, 1 <= n, n <= s.of
  PROVE  /\ Completes(FirstOf(s, n)) <=> n = s.of
         /\ Completes(FirstOf(s, n)) => WholeMessage(FirstOf(s, n))
<1> DEFINE got == FirstOf(s, n)
<1>1. /\ Len(got) = n /\ s.of \in Nat /\ DOMAIN got = 1..n
      /\ \A k \in 1..n : got[k] = [m |-> s.m, i |-> k, of |-> s.of]
  BY FirstOfFacts DEF FirstOf, Fragments
<1>2. got[1] = [m |-> s.m, i |-> 1, of |-> s.of]
  BY <1>1
<1> HIDE DEF got
<1>3. Total(got) = s.of
  BY <1>2 DEF Total
<1>4. Completes(got) <=> n = s.of
  BY <1>1, <1>3 DEF Completes
<1>5. \A k \in DOMAIN got : got[k] = [got[1] EXCEPT !.i = k]
  BY <1>1, <1>2
<1> QED
  BY <1>1, <1>3, <1>4, <1>5 DEF WholeMessage, got

WholeIInv == DvcIInv /\ InStep /\ whole = TRUE

\* A fragment f of the message s, the one after those that are pending.
LEMMA NextFragment ==
  ASSUME WholeIInv, NEW id \in Ids, NEW s \in Fragments, NEW f, chan[id] # NoName,
         1 <= s.i, s.i <= s.of, f = [m |-> s.m, i |-> s.i, of |-> s.of],
         Assembled(id) => Got(id, f) = FirstOf(s, s.i),
         ~Assembled(id) => partial[id] = NoMessage,
         OnChannelData(id, f), UNCHANGED <<chan, channel_id, channel_ids>>,
         sending' = [sending EXCEPT ![id] = IF f.i = f.of THEN NoMessage ELSE <<f>>]
  PROVE  InStep' /\ whole' = TRUE
<1>1. DOMAIN partial = Ids /\ DOMAIN sending = Ids
  BY DEF WholeIInv, DvcIInv, DvcTypes
<1>2. /\ s.i \in Nat /\ s.of \in Nat /\ f.i = s.i /\ f.of = s.of /\ s = f
  BY DEF Fragments
<1>3. Owner(id) \in {NoName, "rdpei"} <=> ~Assembled(id)
  BY OwnerFound, LookUpFinds DEF WholeIInv, DvcIInv, Assembled
<1>4. ASSUME NEW i \in Ids, i # id
      PROVE  sending'[i] = sending[i] /\ partial'[i] = partial[i] /\ Assembled(i)' = Assembled(i)
  BY <1>1, <1>4 DEF OnChannelData, Assembled
<1>5. /\ sending'[id] = IF s.i = s.of THEN NoMessage ELSE <<s>>
      /\ Assembled(id)' = Assembled(id) /\ chan'[id] # NoName
  BY <1>1, <1>2 DEF Assembled
<1>6. CASE ~Assembled(id)
  <2>1. partial' = partial /\ whole' = whole
    BY <1>3, <1>6 DEF OnChannelData
  <2>2. \/ sending'[id] = NoMessage /\ partial'[id] = NoMessage
        \/ \E t \in Fragments :
             /\ chan'[id] # NoName /\ sending'[id] = <<t>> /\ 1 <= t.i /\ t.i < t.of
             /\ partial'[id] = IF Assembled(id)' THEN FirstOf(t, t.i) ELSE NoMessage
    BY <1>2, <1>5, <1>6, <2>1
  <2> QED
    BY <1>4, <2>1, <2>2 DEF InStep, WholeIInv
<1>7. CASE Assembled(id)
  <2> DEFINE got == FirstOf(s, s.i)
  <2>1. Completes(got) <=> s.i = s.of
    BY <1>2, CompletesLast
  <2>2. Completes(got) => WholeMessage(got)
    BY <1>2, CompletesLast
  <2>3. /\ partial' = [partial EXCEPT ![id] = IF Completes(got) THEN NoMessage ELSE got]
        /\ whole' = (whole /\ (Completes(got) <=> f.i = f.of) /\ (Completes(got) => WholeMessage(got)))
    BY <1>3, <1>7 DEF OnChannelData
  <2> HIDE DEF got
  <2>4. whole' = TRUE
    BY <1>2, <2>1, <2>2, <2>3 DEF WholeIInv
  <2>5. partial'[id] = IF s.i = s.of THEN NoMessage ELSE got
    BY <1>1, <2>1, <2>3
  <2>6. \/ sending'[id] = NoMessage /\ partial'[id] = NoMessage
        \/ \E t \in Fragments :
             /\ chan'[id] # NoName /\ sending'[id] = <<t>> /\ 1 <= t.i /\ t.i < t.of
             /\ partial'[id] = IF Assembled(id)' THEN FirstOf(t, t.i) ELSE NoMessage
    BY <1>2, <1>5, <1>7, <2>5 DEF got
  <2> QED
    BY <1>4, <2>4, <2>6 DEF InStep, WholeIInv
<1> QED
  BY <1>6, <1>7

LEMMA SendWhole ==
  ASSUME WholeIInv, NEW id \in Ids, NEW n \in 1..MaxFragments, SendFragment(id, n)
  PROVE  InStep' /\ whole' = TRUE
<1>1. chan[id] # NoName /\ UNCHANGED <<chan, channel_id, channel_ids>> /\ messages \in Nat
  BY DEF SendFragment, WholeIInv, DvcIInv, DvcTypes
<1>2. CASE sending[id] = NoMessage
  <2> DEFINE f == [m |-> messages + 1, i |-> 1, of |-> n]
  <2>1. /\ OnChannelData(id, f)
        /\ sending' = [sending EXCEPT ![id] = IF f.i = f.of THEN NoMessage ELSE <<f>>]
    BY <1>2 DEF SendFragment
  <2>2. f \in Fragments /\ f.m = messages + 1 /\ f.i = 1 /\ f.of = n /\ 1 <= n /\ n \in Nat
    BY <1>1 DEF Fragments
  <2>3. partial[id] = NoMessage
    BY <1>2 DEF WholeIInv, InStep, NoMessage
  <2>4. Got(id, f) = <<f>>
    BY <2>2, <2>3 DEF Got, Pending, NoMessage
  <2>5. Got(id, f) = FirstOf(f, f.i)
    BY <2>2, <2>4, FirstOfFacts
  <2> HIDE DEF f
  <2>6. f = [m |-> f.m, i |-> f.i, of |-> f.of]
    BY <2>2 DEF Fragments
  <2>7. 1 <= f.i /\ f.i <= f.of
    BY <2>2
  <2>8. UNCHANGED <<chan, channel_id, channel_ids>>
    BY <1>1
  <2> QED
    BY <1>1, <2>1, <2>2, <2>3, <2>5, <2>6, <2>7, <2>8, NextFragment
<1>3. CASE sending[id] # NoMessage
  <2>1. PICK s \in Fragments :
          /\ sending[id] = <<s>> /\ 1 <= s.i /\ s.i < s.of
          /\ partial[id] = IF Assembled(id) THEN FirstOf(s, s.i) ELSE NoMessage
    BY <1>3 DEF WholeIInv, InStep
  <2>2. s.m \in Nat /\ s.i \in Nat /\ s.of \in Nat
    BY DEF Fragments
  <2> DEFINE f == [s EXCEPT !.i = @ + 1]
             g == [m |-> s.m, i |-> s.i + 1, of |-> s.of]
  <2>3. f = g
    BY DEF Fragments
  <2>4. /\ OnChannelData(id, f)
        /\ sending' = [sending EXCEPT ![id] = IF f.i = f.of THEN NoMessage ELSE <<f>>]
    <3>1. sending[id][1] = s
      BY <2>1
    <3> QED
      BY <1>3, <3>1 DEF SendFragment
  <2>5. /\ g \in Fragments /\ g.m = s.m /\ g.i = s.i + 1 /\ g.of = s.of /\ g.i # 1
        /\ 1 <= g.i /\ g.i <= g.of
    BY <2>1, <2>2 DEF Fragments
  <2>6. FirstOf(g, g.i) = FirstOf(s, s.i + 1)
    BY <2>5 DEF FirstOf
  <2>7. Assembled(id) => Got(id, g) = FirstOf(g, g.i)
    <3>1. Append(FirstOf(s, s.i), g) = FirstOf(s, s.i + 1)
      BY <2>2, FirstOfFacts
    <3> QED
      BY <2>1, <2>5, <2>6, <3>1 DEF Got, Pending
  <2>8. /\ OnChannelData(id, g)
        /\ sending' = [sending EXCEPT ![id] = IF g.i = g.of THEN NoMessage ELSE <<g>>]
    BY <2>3, <2>4
  <2>9. g = [m |-> g.m, i |-> g.i, of |-> g.of]
    BY <2>5
  <2> HIDE DEF f, g
  <2> QED
    BY <1>1, <2>1, <2>5, <2>7, <2>8, <2>9, NextFragment
<1> QED
  BY <1>2, <1>3

LEMMA WholeStepIInv == WholeIInv /\ ~MidClose /\ [DvcNext]_dvcVars => WholeIInv'
<1> SUFFICES ASSUME WholeIInv, ~MidClose, [DvcNext]_dvcVars PROVE WholeIInv'
  OBVIOUS
<1>1. DvcIInv'
  BY DvcStepIInv DEF WholeIInv
<1>2. ASSUME NEW id \in Ids, NEW name \in Names, NEW accepted \in BOOLEAN, Create(id, name, accepted)
      PROVE  InStep' /\ whole' = TRUE
  <2>1. /\ chan[id] = NoName /\ \A i \in Ids : i # id => chan'[i] = chan[i]
        /\ UNCHANGED <<sending, partial, whole>>
    BY <1>2 DEF Create, WholeIInv, DvcIInv, DvcTypes
  <2> QED
    BY <2>1 DEF WholeIInv, InStep, Assembled
<1>3. ASSUME NEW id \in Ids, Close(id) PROVE InStep' /\ whole' = TRUE
  <2>1. /\ sending[id] = NoMessage /\ UNCHANGED <<partial, whole>>
        /\ sending' = [sending EXCEPT ![id] = NoMessage] /\ chan' = [chan EXCEPT ![id] = NoName]
    BY <1>3 DEF Close
  <2>2. /\ \A i \in Ids : sending'[i] = sending[i]
        /\ \A i \in Ids : i # id => chan'[i] = chan[i]
    BY <2>1 DEF WholeIInv, DvcIInv, DvcTypes
  <2> QED
    BY <2>1, <2>2 DEF WholeIInv, InStep, Assembled, NoMessage
<1>4. ASSUME UNCHANGED dvcVars PROVE InStep' /\ whole' = TRUE
  <2>1. UNCHANGED <<chan, sending, partial, whole>>
    BY <1>4 DEF dvcVars, serverVars
  <2> QED
    <3>1. InStep => InStep'
      BY <2>1 DEF InStep, Assembled
    <3>2. whole' = whole
      BY <2>1
    <3> QED
      BY <3>1, <3>2 DEF WholeIInv
<1>5. ASSUME NEW id \in Ids, NEW n \in 1..MaxFragments, SendFragment(id, n) PROVE InStep' /\ whole' = TRUE
  BY <1>5, SendWhole
<1>6. InStep' /\ whole' = TRUE
  <2>1. CASE DvcNext
    <3>1. PICK id \in Ids : \/ \E name \in Names, accepted \in BOOLEAN : Create(id, name, accepted)
                            \/ \E n \in 1..MaxFragments : SendFragment(id, n)
                            \/ Close(id)
      BY <2>1 DEF DvcNext
    <3> QED
      BY <3>1, <1>2, <1>3, <1>5
  <2>2. DvcNext \/ UNCHANGED dvcVars
    OBVIOUS
  <2> QED
    BY <1>4, <2>1, <2>2
<1> QED
  BY <1>1, <1>6 DEF WholeIInv

\* From a server that ends its messages before it closes their channels, what
\* an endpoint is handed is one whole message, as soon as its last fragment is
\* here (drdynvc.rs, Reassembler::accept), for any ids, any number of channels
\* and messages in any mixture.  (MCDvcRecycled shows what a close in the
\* middle does.)
THEOREM AlwaysWhole == ~MidClose => (DvcSpec => []MessagesWhole)
<1> SUFFICES ASSUME ~MidClose PROVE DvcSpec => []MessagesWhole
  OBVIOUS
<1>1. DvcInit => WholeIInv
  BY DvcInitIInv DEF DvcInit, WholeIInv, InStep
<1>2. WholeIInv /\ [DvcNext]_dvcVars => WholeIInv'
  BY WholeStepIInv
<1>3. WholeIInv => MessagesWhole
  BY DEF WholeIInv, MessagesWhole
<1> QED
  BY <1>1, <1>2, <1>3, PTL DEF DvcSpec

-----------------------------------------------------------------------------
(* Input: what the host still has to get makes its state the client's      *)

\* Events as they are sent: a relative move may be the sum of several.
Moves == [kind : {"rel"}, by : Int]
Placed == [kind : {"abs"}, at : Places]
Keys == [kind : {"key"}, down : BOOLEAN]
Touches == [kind : {"touch"}, finger : Fingers, phase : {"down", "move", "up"}, at : Places]
EventType == Moves \union Placed \union Keys \union Touches
Driven == [pointer : Int, key : BOOLEAN, touch : [Fingers -> Int]]
Entry == [seq : Nat, ev : EventType, sends : Nat]

InputTypes ==
  /\ pending \in Seq(Entry) /\ next_seq \in Nat /\ sent_up_to \in Nat /\ applied \in Nat
  /\ acks \in SUBSET Nat /\ input_packets \in SUBSET [first : Nat, events : Seq(EventType)]
  /\ client \in Driven /\ host \in Driven

\* The number of the first event pending, and the event with number q.
FirstSeq == next_seq - Len(pending)
Ev(q) == pending[q - FirstSeq + 1].ev

\* The events pending are numbered without a gap, up to the newest, and the
\* host has applied everything before them; only what was sent is applied, and
\* only what was applied is acknowledged.
Numbered ==
  /\ \A i \in DOMAIN pending : pending[i].seq = FirstSeq + i - 1
  /\ FirstSeq >= 1 /\ FirstSeq - 1 <= applied /\ applied <= sent_up_to /\ sent_up_to < next_seq
  /\ \A a \in acks : a <= applied

\* Packets hold events already sent, those the host lacks as they are pending.
Carried ==
  \A p \in input_packets : \A i \in DOMAIN p.events :
    /\ p.first + i - 1 <= sent_up_to
    /\ p.first + i - 1 > applied => p.events[i] = Ev(p.first + i - 1)

\* st[q] is the state once the event with number q is applied.
Trace(st) ==
  /\ st \in [Nat -> Driven] /\ st[applied] = host /\ st[next_seq - 1] = client
  /\ \A q \in (applied + 1)..(next_seq - 1) : st[q] = Apply(st[q - 1], Ev(q))

InputIInv == InputTypes /\ Numbered /\ Carried /\ \E st : Trace(st)

\* An event leads from one state to another.
LEMMA ApplyType == ASSUME NEW s \in Driven, NEW ev \in EventType PROVE Apply(s, ev) \in Driven
<1>1. /\ s.pointer \in Int /\ s.key \in BOOLEAN /\ s.touch \in [Fingers -> Int]
  BY DEF Driven
<1>6. \A x \in Places : x \in Int
  BY InputAssumption
<1>2. CASE ev \in Moves
  <2>1. ev.kind = "rel" /\ ev.by \in Int
    BY <1>2 DEF Moves
  <2>2. Apply(s, ev) = [s EXCEPT !.pointer = @ + ev.by]
    BY <2>1 DEF Apply
  <2>3. PICK x \in Int : x = s.pointer + ev.by
    BY <1>1, <2>1
  <2>4. Apply(s, ev) = [s EXCEPT !.pointer = x]
    BY <2>2, <2>3
  <2> QED
    BY <2>4 DEF Driven
<1>3. CASE ev \in Placed
  <2>1. ev.kind = "abs" /\ ev.at \in Int
    BY <1>3, <1>6 DEF Placed
  <2>2. Apply(s, ev) = [s EXCEPT !.pointer = ev.at]
    BY <2>1 DEF Apply
  <2> QED
    BY <2>1, <2>2 DEF Driven
<1>4. CASE ev \in Keys
  <2>1. ev.kind = "key" /\ ev.down \in BOOLEAN
    BY <1>4 DEF Keys
  <2>2. Apply(s, ev) = [s EXCEPT !.key = ev.down]
    BY <2>1 DEF Apply
  <2> QED
    BY <2>1, <2>2 DEF Driven
<1>5. CASE ev \in Touches
  <2>1. ev.kind = "touch" /\ ev.finger \in Fingers /\ ev.at \in Int
    BY <1>5, <1>6 DEF Touches
  <2>2. Apply(s, ev) = [s EXCEPT !.touch[ev.finger] = IF ev.phase = "up" THEN Lifted ELSE ev.at]
    BY <2>1 DEF Apply
  <2>3. PICK x \in Int : x = IF ev.phase = "up" THEN Lifted ELSE ev.at
    BY <2>1 DEF Lifted
  <2>4. Apply(s, ev) = [s EXCEPT !.touch = [s.touch EXCEPT ![ev.finger] = x]]
    BY <2>2, <2>3
  <2>5. [s.touch EXCEPT ![ev.finger] = x] \in [Fingers -> Int]
    BY <1>1, <2>1
  <2> QED
    BY <2>4, <2>5 DEF Driven
<1> QED
  BY <1>2, <1>3, <1>4, <1>5 DEF EventType

\* Merging two events loses nothing of what they do (InputSender::push).
LEMMA MergeSound ==
  ASSUME NEW s \in Driven, NEW old \in EventType, NEW ev \in EventType, MergesWith(old, ev)
  PROVE  /\ Merged(old, ev) \in EventType
         /\ Apply(s, Merged(old, ev)) = Apply(Apply(s, old), ev)
<1>0. /\ s.pointer \in Int /\ s.key \in BOOLEAN /\ s.touch \in [Fingers -> Int]
      /\ s = [pointer |-> s.pointer, key |-> s.key, touch |-> s.touch]
  BY DEF Driven
<1>1. CASE ev.kind = "rel"
  <2>1. ev \in Moves /\ old \in Moves
    BY <1>1 DEF EventType, Moves, Placed, Keys, Touches, MergesWith
  <2>2. PICK a \in Int, b \in Int : a = old.by /\ b = ev.by
    BY <2>1 DEF Moves
  <2>3. old = [kind |-> "rel", by |-> a] /\ ev = [kind |-> "rel", by |-> b]
    BY <2>1, <2>2 DEF Moves
  <2>4. Merged(old, ev) = [kind |-> "rel", by |-> a + b]
    BY <2>3 DEF Merged
  <2>5. a + b \in Int
    OBVIOUS
  <2>6. Merged(old, ev) \in EventType
    BY <2>4, <2>5 DEF EventType, Moves
  <2>7. Apply(s, Merged(old, ev)) = [s EXCEPT !.pointer = @ + (a + b)]
    BY <2>4 DEF Apply
  <2>8. Apply(s, old) = [s EXCEPT !.pointer = @ + a]
    BY <2>3 DEF Apply
  <2>9. Apply(Apply(s, old), ev) = [[s EXCEPT !.pointer = @ + a] EXCEPT !.pointer = @ + b]
    BY <2>3, <2>8 DEF Apply
  <2>10. s.pointer + (a + b) = (s.pointer + a) + b
    BY <1>0
  <2> QED
    BY <1>0, <2>6, <2>7, <2>9, <2>10
<1>2. CASE ev.kind = "abs"
  <2>1. old.kind = "abs" /\ Merged(old, ev) = ev
    BY <1>2 DEF MergesWith, Merged
  <2>2. Apply(s, ev) = [s EXCEPT !.pointer = ev.at] /\ Apply(s, old) = [s EXCEPT !.pointer = old.at]
    BY <1>2, <2>1 DEF Apply
  <2>3. Apply(Apply(s, old), ev) = [[s EXCEPT !.pointer = old.at] EXCEPT !.pointer = ev.at]
    BY <1>2, <2>2 DEF Apply
  <2> QED
    BY <1>0, <2>1, <2>2, <2>3
<1>3. CASE ev.kind = "touch"
  <2>1. /\ old.kind = "touch" /\ Merged(old, ev) = ev /\ old.phase = "move" /\ ev.phase = "move"
        /\ old.finger = ev.finger
    BY <1>3 DEF MergesWith, Merged
  <2>2. /\ Apply(s, ev) = [s EXCEPT !.touch[ev.finger] = ev.at]
        /\ Apply(s, old) = [s EXCEPT !.touch[ev.finger] = old.at]
    BY <1>3, <2>1 DEF Apply
  <2>3. Apply(Apply(s, old), ev) = [[s EXCEPT !.touch[ev.finger] = old.at] EXCEPT !.touch[ev.finger] = ev.at]
    BY <1>3, <2>1, <2>2 DEF Apply
  <2>4. ev.finger \in Fingers
    BY <1>3 DEF EventType, Moves, Placed, Keys, Touches
  <2>5. PICK t : t = s.touch /\ t \in [Fingers -> Int]
    BY <1>0
  <2>6. [[t EXCEPT ![ev.finger] = old.at] EXCEPT ![ev.finger] = ev.at] = [t EXCEPT ![ev.finger] = ev.at]
    BY <2>4, <2>5
  <2>7. Apply(s, ev) = [s EXCEPT !.touch = [t EXCEPT ![ev.finger] = ev.at]]
    BY <2>2, <2>5
  <2>8. PICK u, v : u = [t EXCEPT ![ev.finger] = old.at] /\ v = [t EXCEPT ![ev.finger] = ev.at]
    OBVIOUS
  <2>9. [u EXCEPT ![ev.finger] = ev.at] = v
    BY <2>6, <2>8
  <2>10. PICK r : r = Apply(s, old)
    OBVIOUS
  <2>11. r = [s EXCEPT !.touch = u]
    BY <2>2, <2>5, <2>8, <2>10
  <2>12. r.touch = u /\ [r EXCEPT !.touch = v] = [s EXCEPT !.touch = v]
    BY <1>0, <2>11
  <2>13. Apply(r, ev) = [r EXCEPT !.touch[ev.finger] = ev.at]
    BY <1>3, <2>1 DEF Apply
  <2>14. Apply(r, ev) = [r EXCEPT !.touch = v]
    BY <2>9, <2>12, <2>13
  <2>15. ev \in EventType
    OBVIOUS
  <2> QED
    BY <2>1, <2>7, <2>8, <2>10, <2>12, <2>14, <2>15
<1> QED
  BY <1>1, <1>2, <1>3 DEF MergesWith

\* A non-empty set of naturals has a least element, Min of it.
LEMMA MinExists ==
  ASSUME NEW T \in SUBSET Nat, T # {}
  PROVE  Min(T) \in T /\ \A y \in T : Min(T) <= y
<1>1. IsWellFoundedOn(OpToRel(<, Nat), Nat)
  BY NatLessThanWellFounded
<1>2. PICK x \in T : \A y \in T : ~ (<<y, x>> \in OpToRel(<, Nat))
  BY <1>1, WFMin
<1>3. ASSUME NEW y \in Nat, x \in Nat, y < x PROVE <<y, x>> \in OpToRel(<, Nat)
  BY <1>3, Zenon DEF OpToRel
<1>5. \A y \in T : ~ (y < x)
  BY <1>2, <1>3, Zenon
<1>4. \A y \in T : x <= y
  BY <1>5
<1> QED
  BY <1>4, Zenon DEF Min

\* The smaller and the larger of two numbers.
LEMMA MinMaxTwo ==
  ASSUME NEW a \in Int, NEW b \in Int
  PROVE  /\ Min({a, b}) = IF a <= b THEN a ELSE b
         /\ Max({a, b}) = IF a >= b THEN a ELSE b
<1>1. \E x \in {a, b} : \A y \in {a, b} : x <= y
  OBVIOUS
<1>2. \E x \in {a, b} : \A y \in {a, b} : x >= y
  OBVIOUS
<1>3. PICK m, k : m = Min({a, b}) /\ k = Max({a, b})
  OBVIOUS
<1>4. m \in {a, b} /\ \A y \in {a, b} : m <= y
  BY <1>1, <1>3 DEF Min
<1>5. k \in {a, b} /\ \A y \in {a, b} : k >= y
  BY <1>2, <1>3 DEF Max
<1> QED
  BY <1>3, <1>4, <1>5

\* The initial state.
LEMMA InputInitIInv == InputInit => InputIInv
<1> SUFFICES ASSUME InputInit PROVE InputIInv
  OBVIOUS
<1>1. Idle \in Driven
  BY DEF Idle, Driven, Lifted
<1>2. InputTypes
  <2>1. <<>> \in Seq(Entry)
    OBVIOUS
  <2> QED
    BY <1>1, <2>1 DEF InputInit, InputTypes
<1>3. FirstSeq = 1
  BY DEF InputInit, FirstSeq
<1>4. Numbered
  BY <1>3 DEF InputInit, Numbered
<1>5. Carried
  BY DEF InputInit, Carried
<1>6. Trace([q \in Nat |-> Idle])
  BY <1>1 DEF InputInit, Trace
<1> QED
  BY <1>2, <1>4, <1>5, <1>6 DEF InputIInv

\* A step after which the events the host lacks are as before.
LEMMA SameEvents ==
  ASSUME InputIInv, InputTypes', UNCHANGED <<next_seq, applied, host, client, sent_up_to>>,
         input_packets' \subseteq input_packets, \A a \in acks' : a <= applied,
         Numbered', \A q \in (applied + 1)..(next_seq - 1) : Ev(q)' = Ev(q)
  PROVE  InputIInv'
<1>1. PICK st : Trace(st)
  BY DEF InputIInv
<1>2. Trace(st)'
  BY <1>1 DEF Trace
<1>3. Carried'
  <2> SUFFICES ASSUME NEW p \in input_packets', NEW i \in DOMAIN p.events
               PROVE  /\ p.first + i - 1 <= sent_up_to'
                      /\ p.first + i - 1 > applied' => p.events[i] = Ev(p.first + i - 1)'
    BY DEF Carried
  <2>0. next_seq \in Nat /\ applied \in Nat /\ sent_up_to \in Nat /\ sent_up_to < next_seq
    BY DEF InputIInv, InputTypes, Numbered
  <2>1. p.first \in Nat /\ i \in Nat
    BY DEF InputIInv, InputTypes
  <2>2. PICK q \in Int : q = p.first + i - 1
    BY <2>1
  <2>3. q <= sent_up_to /\ (q > applied => p.events[i] = Ev(q))
    BY <2>2 DEF InputIInv, Carried
  <2>4. q > applied => q \in (applied + 1)..(next_seq - 1)
    BY <2>0, <2>3
  <2> QED
    BY <2>2, <2>3, <2>4
<1> QED
  BY <1>2, <1>3 DEF InputIInv

\* InputSender::ack.
LEMMA AckKeeps == ASSUME InputIInv, NEW a \in acks, ReceiveAck(a) PROVE InputIInv'
<1>0. /\ pending \in Seq(Entry) /\ next_seq \in Nat /\ sent_up_to \in Nat /\ applied \in Nat
      /\ acks \in SUBSET Nat /\ a \in Nat /\ a <= applied
  BY DEF InputIInv, InputTypes, Numbered
<1>1. PICK n \in Nat : n = Len(pending) /\ DOMAIN pending = 1..n
  BY <1>0
<1>2. PICK fs \in Int : fs = next_seq - n
  BY <1>0
<1>3. /\ FirstSeq = fs /\ fs >= 1 /\ fs - 1 <= applied /\ applied <= sent_up_to /\ sent_up_to < next_seq
      /\ \A i \in 1..n : pending[i].seq = fs + i - 1
  BY <1>1, <1>2 DEF InputIInv, Numbered, FirstSeq
<1>4. /\ UNCHANGED <<next_seq, sent_up_to, applied, input_packets, client, host>>
      /\ acks' = acks \ {a} /\ pending' = Acked(a)
  BY DEF ReceiveAck
<1> DEFINE kept == {i \in DOMAIN pending : pending[i].seq > a}
<1>5. kept = {i \in 1..n : fs + i - 1 > a}
  BY <1>1, <1>3
<1>6. PICK k \in 1..(n + 1) : /\ pending' = SubSeq(pending, k, n)
                              /\ k = 1 \/ fs + k - 2 <= applied
  <2>1. CASE kept = {}
    <3>1. pending' = <<>>
      BY <1>4, <2>1 DEF Acked, KeptFrom
    <3>2. SubSeq(pending, n + 1, n) = <<>>
      BY <1>0, <1>1
    <3>3. n = 0 \/ fs + n - 1 <= a
      <4>1. n # 0 => n \in 1..n
        OBVIOUS
      <4>2. n # 0 => ~ (fs + n - 1 > a)
        BY <1>5, <2>1, <4>1
      <4> QED
        BY <1>0, <1>2, <4>2
    <3>4. n + 1 = 1 \/ fs + (n + 1) - 2 <= applied
      BY <1>0, <1>2, <3>3
    <3> QED
      BY <3>1, <3>2, <3>4
  <2>2. CASE kept # {}
    <3>1. PICK k \in kept : k = Min(kept) /\ \A i \in kept : k <= i
      <4>1. kept \in SUBSET Nat
        BY <1>5
      <4> HIDE DEF kept
      <4> QED
        BY <2>2, <4>1, MinExists
    <3>2. pending' = SubSeq(pending, k, n)
      BY <1>1, <1>4, <2>2, <3>1 DEF Acked, KeptFrom
    <3>3. k \in 1..n
      BY <1>5, <3>1
    <3>4. k = 1 \/ k - 1 \notin kept
      <4>1. k - 1 \in kept => k <= k - 1
        BY <3>1, Zenon
      <4>2. ~ (k <= k - 1)
        BY <3>3
      <4> QED
        BY <4>1, <4>2
    <3>5. k = 1 \/ ~ (fs + (k - 1) - 1 > a)
      BY <1>5, <3>3, <3>4
    <3>6. k = 1 \/ fs + k - 2 <= applied
      BY <1>0, <1>2, <3>3, <3>5
    <3> QED
      BY <3>2, <3>3, <3>6
  <2> QED
    BY <2>1, <2>2
<1>7. /\ pending' \in Seq(Entry) /\ Len(pending') = n - k + 1 /\ DOMAIN pending' = 1..(n - k + 1)
      /\ \A i \in 1..(n - k + 1) : pending'[i] = pending[k + i - 1]
  BY <1>0, <1>1, <1>6
<1>8. FirstSeq' = fs + k - 1
  BY <1>0, <1>2, <1>4, <1>7 DEF FirstSeq
<1>9. InputTypes'
  BY <1>4, <1>7 DEF InputIInv, InputTypes
<1>10. Numbered'
  <2>1. ASSUME NEW i \in DOMAIN pending' PROVE pending'[i].seq = FirstSeq' + i - 1
    <3>1. i \in 1..(n - k + 1) /\ k + i - 1 \in 1..n
      BY <1>7
    <3>2. pending'[i].seq = fs + (k + i - 1) - 1
      BY <1>3, <1>7, <3>1
    <3> QED
      BY <1>2, <1>8, <3>1, <3>2
  <2>2. FirstSeq' >= 1 /\ FirstSeq' - 1 <= applied'
    BY <1>0, <1>2, <1>3, <1>4, <1>6, <1>8
  <2>3. \A b \in acks' : b <= applied'
    BY <1>4 DEF InputIInv, Numbered
  <2> QED
    BY <1>3, <1>4, <2>1, <2>2, <2>3 DEF Numbered
<1>11. ASSUME NEW q \in (applied + 1)..(next_seq - 1) PROVE Ev(q)' = Ev(q)
  <2>1. PICK j \in 1..(n - k + 1) : j = q - (fs + k - 1) + 1
    <3>1. q >= fs + k - 1
      BY <1>0, <1>2, <1>3, <1>6
    <3>2. q <= fs + n - 1
      BY <1>0, <1>2
    <3> QED
      BY <1>2, <1>6, <3>1, <3>2
  <2>2. Ev(q)' = pending'[j].ev /\ Ev(q) = pending[q - fs + 1].ev
    BY <1>3, <1>8, <2>1 DEF Ev
  <2>3. k + j - 1 = q - fs + 1
    BY <1>2, <2>1
  <2> QED
    BY <1>7, <2>1, <2>2, <2>3
<1>12. \A b \in acks' : b <= applied
  BY <1>4 DEF InputIInv, Numbered
<1> QED
  BY <1>4, <1>9, <1>10, <1>11, <1>12, SameEvents

\* InputSender::push adds an event, or to the newest one while that is unsent.
LEMMA PushKeeps == ASSUME InputIInv, NEW ev \in Event, PushInput(ev) PROVE InputIInv'
<1>0. /\ pending \in Seq(Entry) /\ next_seq \in Nat /\ sent_up_to \in Nat /\ applied \in Nat
      /\ client \in Driven /\ host \in Driven
      /\ input_packets \in SUBSET [first : Nat, events : Seq(EventType)] /\ acks \in SUBSET Nat
  BY DEF InputIInv, InputTypes
<1>1. PICK n \in Nat : n = Len(pending) /\ DOMAIN pending = 1..n
  BY <1>0
<1>2. PICK fs \in Int : fs = next_seq - n
  BY <1>0
<1>3. /\ FirstSeq = fs /\ fs >= 1 /\ fs - 1 <= applied /\ applied <= sent_up_to /\ sent_up_to < next_seq
      /\ \A i \in 1..n : pending[i].seq = fs + i - 1
  BY <1>1, <1>2 DEF InputIInv, Numbered, FirstSeq
<1>4. ev \in EventType
  <2>1. \A x \in Steps : x \in Int
    BY InputAssumption
  <2> QED
    BY <2>1 DEF Event, EventType, Moves, Placed, Keys, Touches
<1>5. UNCHANGED <<sent_up_to, applied, input_packets, acks, host>> /\ client' = Apply(client, ev)
  BY DEF PushInput
<1>6. client' \in Driven
  BY <1>0, <1>4, <1>5, ApplyType
<1>7. PICK st : Trace(st)
  BY DEF InputIInv
<1>8. /\ st \in [Nat -> Driven] /\ st[applied] = host /\ st[next_seq - 1] = client
      /\ \A q \in (applied + 1)..(next_seq - 1) : st[q] = Apply(st[q - 1], pending[q - fs + 1].ev)
  BY <1>3, <1>7 DEF Trace, Ev
<1>9. CASE LastUnsent /\ MergesWith(Last(pending).ev, ev)
  <2>1. /\ pending' = [pending EXCEPT ![Len(pending)].ev = Merged(@, ev)]
        /\ next_seq' = next_seq
    BY <1>9 DEF PushInput
  <2>2. pending # <<>> /\ n \in 1..n /\ Last(pending) = pending[n]
    <3>1. pending # <<>>
      BY <1>9 DEF LastUnsent
    <3>2. n # 0
      BY <1>0, <1>1, <3>1
    <3> QED
      BY <1>1, <3>1, <3>2 DEF Last
  <2>3. PICK e \in Entry : e = pending[n]
    BY <1>0, <1>1, <2>2
  <2>4. e.seq = fs + n - 1 /\ e.seq > sent_up_to /\ e.ev \in EventType /\ e.seq \in Nat
    BY <1>3, <1>9, <2>2, <2>3 DEF LastUnsent, Entry
  <2>5. next_seq - 1 > sent_up_to
    BY <1>0, <1>2, <2>4
  <2>6. MergesWith(e.ev, ev)
    BY <1>9, <2>2, <2>3
  <2>7. PICK mev \in EventType : mev = Merged(e.ev, ev)
    BY <1>0, <1>4, <2>4, <2>6, MergeSound
  <2>8. \A s \in Driven : Apply(s, mev) = Apply(Apply(s, e.ev), ev)
    BY <1>4, <2>4, <2>6, <2>7, MergeSound
  <2>9. PICK e2 \in Entry : e2 = [e EXCEPT !.ev = mev] /\ e2.seq = e.seq /\ e2.ev = mev
    <3>1. PICK a \in Nat, b \in EventType, c \in Nat : e = [seq |-> a, ev |-> b, sends |-> c]
      BY <2>3 DEF Entry
    <3>2. [e EXCEPT !.ev = mev] = [seq |-> a, ev |-> mev, sends |-> c] /\ e.seq = a
      BY <3>1
    <3>3. [seq |-> a, ev |-> mev, sends |-> c] \in Entry
      BY DEF Entry
    <3> QED
      BY <3>2, <3>3
  <2>10. pending' = [pending EXCEPT ![n] = e2]
    BY <1>1, <2>1, <2>3, <2>7, <2>9
  <2>11. /\ pending' \in Seq(Entry) /\ Len(pending') = n /\ DOMAIN pending' = 1..n
         /\ pending'[n] = e2 /\ \A i \in 1..n : i # n => pending'[i] = pending[i]
    BY <1>0, <1>1, <2>2, <2>10
  <2>12. FirstSeq' = fs
    BY <1>2, <2>1, <2>11 DEF FirstSeq
  <2>13. InputTypes'
    BY <1>0, <1>5, <1>6, <2>1, <2>11 DEF InputTypes
  <2>14. Numbered'
    <3>1. \A i \in 1..n : pending'[i].seq = fs + i - 1
      BY <1>3, <2>4, <2>9, <2>11
    <3>2. \A a \in acks' : a <= applied'
      BY <1>5 DEF InputIInv, Numbered
    <3> QED
      BY <1>3, <1>5, <2>1, <2>11, <2>12, <3>1, <3>2 DEF Numbered
  <2>15. ASSUME NEW q \in (applied + 1)..(next_seq - 2)
         PROVE  pending'[q - fs + 1] = pending[q - fs + 1]
    <3>1. q - fs + 1 \in 1..n /\ q - fs + 1 # n
      BY <1>0, <1>2, <1>3
    <3> QED
      BY <2>11, <3>1
  <2>16. Carried'
    <3> SUFFICES ASSUME NEW p \in input_packets, NEW i \in DOMAIN p.events
                 PROVE  /\ p.first + i - 1 <= sent_up_to
                        /\ p.first + i - 1 > applied => p.events[i] = pending'[(p.first + i - 1) - fs + 1].ev
      BY <1>5, <2>12 DEF Carried, Ev
    <3>1. PICK q \in Int : q = p.first + i - 1
      BY <1>0
    <3>2. q <= sent_up_to /\ (q > applied => p.events[i] = pending[q - fs + 1].ev)
      BY <1>3, <3>1 DEF InputIInv, Carried, Ev
    <3>3. q > applied => q \in (applied + 1)..(next_seq - 2)
      BY <1>0, <2>5, <3>2
    <3> QED
      BY <2>15, <3>1, <3>2, <3>3
  <2>17. PICK nx \in Nat : nx = next_seq - 1
    BY <1>0, <1>3
  <2>18. PICK c \in Driven : c = Apply(client, ev)
    BY <1>5, <1>6
  <2>19. Trace([st EXCEPT ![nx] = c])'
    <3> DEFINE st2 == [st EXCEPT ![nx] = c]
    <3>1. st2 \in [Nat -> Driven] /\ st2[nx] = c /\ \A q \in Nat : q # nx => st2[q] = st[q]
      BY <1>8, <2>17
    <3>2. applied # nx
      BY <1>0, <1>3, <2>5, <2>17
    <3>3. st2[applied] = host
      BY <1>0, <1>8, <3>1, <3>2
    <3>4. ASSUME NEW q \in (applied + 1)..nx PROVE st2[q] = Apply(st2[q - 1], pending'[q - fs + 1].ev)
      <4>0. q \in Nat /\ q - 1 \in Nat /\ q - 1 # nx
        BY <1>0, <2>17
      <4>1. st2[q - 1] = st[q - 1] /\ st[q - 1] \in Driven
        BY <1>8, <3>1, <4>0
      <4>2. CASE q = nx
        <5>1. q - fs + 1 = n
          BY <1>0, <1>2, <2>17, <4>2
        <5>2. pending'[q - fs + 1].ev = mev /\ pending[q - fs + 1].ev = e.ev
          BY <2>3, <2>9, <2>11, <5>1
        <5>3. st[nx] = Apply(st[q - 1], e.ev)
          BY <1>8, <2>17, <4>2, <5>2
        <5>4. c = Apply(Apply(st[q - 1], e.ev), ev)
          BY <1>8, <2>17, <2>18, <5>3
        <5> QED
          BY <2>8, <3>1, <4>1, <4>2, <5>2, <5>4
      <4>3. CASE q # nx
        <5>1. q \in (applied + 1)..(next_seq - 2) /\ q \in (applied + 1)..(next_seq - 1)
          BY <1>0, <2>17, <4>3
        <5>2. st[q] = Apply(st[q - 1], pending[q - fs + 1].ev)
          BY <1>8, <5>1
        <5> QED
          BY <2>15, <3>1, <4>0, <4>1, <4>3, <5>1, <5>2
      <4> QED
        BY <4>2, <4>3
    <3>5. next_seq' - 1 = nx /\ applied' = applied /\ host' = host /\ client' = c
      BY <1>5, <2>1, <2>17, <2>18
    <3>6. \A q : Ev(q)' = pending'[q - fs + 1].ev
      BY <2>12 DEF Ev
    <3> HIDE DEF st2
    <3>7. Trace(st2)'
      BY <3>1, <3>3, <3>4, <3>5, <3>6 DEF Trace
    <3> QED
      BY <3>7 DEF st2
  <2> QED
    BY <2>13, <2>14, <2>16, <2>19 DEF InputIInv
<1>10. CASE ~ (LastUnsent /\ MergesWith(Last(pending).ev, ev))
  <2>1. PICK e : e = [seq |-> next_seq, ev |-> ev, sends |-> 0]
    OBVIOUS
  <2>2. pending' = Append(pending, e) /\ next_seq' = next_seq + 1
    BY <1>10, <2>1 DEF PushInput
  <2>3. e \in Entry /\ e.seq = next_seq /\ e.ev = ev
    BY <1>0, <1>4, <2>1 DEF Entry
  <2>4. /\ pending' \in Seq(Entry) /\ Len(pending') = n + 1 /\ DOMAIN pending' = 1..(n + 1)
        /\ pending'[n + 1] = e /\ \A i \in 1..n : pending'[i] = pending[i]
    BY <1>0, <1>1, <2>2, <2>3
  <2>5. FirstSeq' = fs
    BY <1>0, <1>2, <2>2, <2>4 DEF FirstSeq
  <2>6. InputTypes'
    BY <1>0, <1>5, <1>6, <2>2, <2>4 DEF InputTypes
  <2>7. Numbered'
    <3>1. ASSUME NEW i \in 1..(n + 1) PROVE pending'[i].seq = fs + i - 1
      <4>1. CASE i \in 1..n
        BY <1>3, <2>4, <4>1
      <4>2. CASE i = n + 1
        BY <1>0, <1>2, <2>3, <2>4, <4>2
      <4> QED
        BY <4>1, <4>2
    <3>2. \A a \in acks' : a <= applied'
      BY <1>5 DEF InputIInv, Numbered
    <3>3. sent_up_to' < next_seq'
      BY <1>0, <1>3, <1>5, <2>2
    <3> QED
      BY <1>3, <1>5, <2>4, <2>5, <3>1, <3>2, <3>3 DEF Numbered
  <2>8. ASSUME NEW q \in (applied + 1)..(next_seq - 1)
        PROVE  pending'[q - fs + 1] = pending[q - fs + 1]
    <3>1. q - fs + 1 \in 1..n
      BY <1>0, <1>2, <1>3
    <3> QED
      BY <2>4, <3>1
  <2>9. Carried'
    <3> SUFFICES ASSUME NEW p \in input_packets, NEW i \in DOMAIN p.events
                 PROVE  /\ p.first + i - 1 <= sent_up_to
                        /\ p.first + i - 1 > applied => p.events[i] = pending'[(p.first + i - 1) - fs + 1].ev
      BY <1>5, <2>5 DEF Carried, Ev
    <3>1. PICK q \in Int : q = p.first + i - 1
      BY <1>0
    <3>2. q <= sent_up_to /\ (q > applied => p.events[i] = pending[q - fs + 1].ev)
      BY <1>3, <3>1 DEF InputIInv, Carried, Ev
    <3>3. q > applied => q \in (applied + 1)..(next_seq - 1)
      BY <1>0, <1>3, <3>2
    <3> QED
      BY <2>8, <3>1, <3>2, <3>3
  <2>10. PICK nx \in Nat : nx = next_seq
    BY <1>0
  <2>11. PICK c \in Driven : c = Apply(client, ev)
    BY <1>5, <1>6
  <2>12. Trace([st EXCEPT ![nx] = c])'
    <3> DEFINE st2 == [st EXCEPT ![nx] = c]
    <3>1. st2 \in [Nat -> Driven] /\ st2[nx] = c /\ \A q \in Nat : q # nx => st2[q] = st[q]
      BY <1>8
    <3>2. applied # nx
      BY <1>0, <1>3, <2>10
    <3>3. st2[applied] = host
      BY <1>0, <1>8, <3>1, <3>2
    <3>4. ASSUME NEW q \in (applied + 1)..nx PROVE st2[q] = Apply(st2[q - 1], pending'[q - fs + 1].ev)
      <4>0. q \in Nat /\ q - 1 \in Nat /\ q - 1 # nx
        BY <1>0
      <4>1. st2[q - 1] = st[q - 1] /\ st[q - 1] \in Driven
        BY <1>8, <3>1, <4>0
      <4>2. CASE q = nx
        <5>1. q - fs + 1 = n + 1
          BY <1>0, <1>2, <2>10, <4>2
        <5>2. pending'[q - fs + 1].ev = ev
          BY <2>3, <2>4, <5>1
        <5>3. st[q - 1] = client
          BY <1>8, <2>10, <4>2
        <5> QED
          BY <2>11, <3>1, <4>1, <4>2, <5>2, <5>3
      <4>3. CASE q # nx
        <5>1. q \in (applied + 1)..(next_seq - 1)
          BY <1>0, <2>10, <4>3
        <5>2. st[q] = Apply(st[q - 1], pending[q - fs + 1].ev)
          BY <1>8, <5>1
        <5> QED
          BY <2>8, <3>1, <4>0, <4>1, <4>3, <5>1, <5>2
      <4> QED
        BY <4>2, <4>3
    <3>5. next_seq' - 1 = nx /\ applied' = applied /\ host' = host /\ client' = c
      BY <1>0, <1>5, <2>2, <2>10, <2>11
    <3>6. \A q : Ev(q)' = pending'[q - fs + 1].ev
      BY <2>5 DEF Ev
    <3> HIDE DEF st2
    <3>7. Trace(st2)'
      BY <3>1, <3>3, <3>4, <3>5, <3>6 DEF Trace
    <3> QED
      BY <3>7 DEF st2
  <2> QED
    BY <2>6, <2>7, <2>9, <2>12 DEF InputIInv
<1> QED
  BY <1>9, <1>10

\* InputSender::packets_from counts events as sent and puts them in packets.
LEMMA PacketsKeep ==
  ASSUME InputIInv, NEW start \in Nat, NEW max_packets \in Nat, PacketsFrom(start, max_packets)
  PROVE  InputIInv'
<1>0. /\ pending \in Seq(Entry) /\ next_seq \in Nat /\ sent_up_to \in Nat /\ applied \in Nat
      /\ input_packets \in SUBSET [first : Nat, events : Seq(EventType)]
      /\ MAX_PER_PACKET \in Nat \ {0} /\ CAPPED_REPEATS \in Nat
  BY InputAssumption DEF InputIInv, InputTypes
<1>1. PICK n \in Nat : n = Len(pending) /\ DOMAIN pending = 1..n
  BY <1>0
<1>2. PICK fs \in Int : fs = next_seq - n
  BY <1>0
<1>3. /\ FirstSeq = fs /\ fs >= 1 /\ fs - 1 <= applied /\ applied <= sent_up_to /\ sent_up_to < next_seq
      /\ \A i \in 1..n : pending[i].seq = fs + i - 1
  BY <1>1, <1>2 DEF InputIInv, Numbered, FirstSeq
<1>4. UNCHANGED <<next_seq, applied, acks, client, host>>
  BY DEF PacketsFrom
<1>5. PICK stop \in Int : stop = Min({Len(pending), start + max_packets * MAX_PER_PACKET}) /\ stop <= n
  <2>1. PICK c \in Int : c = start + max_packets * MAX_PER_PACKET
    BY <1>0
  <2>2. PICK s : s = Min({Len(pending), start + max_packets * MAX_PER_PACKET})
    OBVIOUS
  <2>3. s = Min({n, c})
    BY <1>1, <2>1, <2>2, Zenon
  <2>4. Min({n, c}) = IF n <= c THEN n ELSE c
    BY MinMaxTwo
  <2>5. s \in Int /\ s <= n
    BY <2>3, <2>4
  <2> QED
    BY <2>2, <2>5
<1> DEFINE cut(i) == SubSeq(pending, i, Min({stop, i + MAX_PER_PACKET - 1}))
           heads == {i \in (start + 1)..stop : (i - start - 1) % MAX_PER_PACKET = 0}
           packet(i) == [first |-> pending[i].seq, events |-> [j \in DOMAIN cut(i) |-> cut(i)[j].ev]]
           Sent1(i) == IF i \in (start + 1)..stop
                       THEN [pending[i] EXCEPT !.sends = Min({@ + 1, CAPPED_REPEATS})] ELSE pending[i]
<1>6. /\ pending' = [i \in DOMAIN pending |-> Sent1(i)]
      /\ sent_up_to' = IF heads = {} THEN sent_up_to ELSE Max({sent_up_to, pending[stop].seq})
      /\ input_packets' = input_packets \union {packet(i) : i \in heads}
  BY <1>5 DEF PacketsFrom
<1>7. heads \subseteq 1..n /\ (heads # {} => stop \in 1..n) /\ \A i \in heads : i <= stop
  <2>1. heads \subseteq (start + 1)..stop
    OBVIOUS
  <2> HIDE DEF heads
  <2>2. ASSUME NEW i \in heads PROVE i \in 1..n /\ i <= stop /\ stop \in 1..n
    <3>1. i \in (start + 1)..stop
      BY <2>1
    <3> QED
      BY <1>5, <3>1
  <2> QED
    BY <2>2
<1> HIDE DEF heads
<1>8. ASSUME NEW i \in 1..n
      PROVE  Sent1(i) \in Entry /\ Sent1(i).seq = pending[i].seq /\ Sent1(i).ev = pending[i].ev
  <2>1. PICK a \in Nat, b \in EventType, c \in Nat : pending[i] = [seq |-> a, ev |-> b, sends |-> c]
    <3>1. pending[i] \in Entry
      BY <1>0, <1>1
    <3> QED
      BY <3>1 DEF Entry
  <2>2. PICK k \in Nat : k = Min({c + 1, CAPPED_REPEATS})
    <3>1. Min({c + 1, CAPPED_REPEATS}) = IF c + 1 <= CAPPED_REPEATS THEN c + 1 ELSE CAPPED_REPEATS
      BY <1>0, MinMaxTwo
    <3> QED
      BY <1>0, <3>1
  <2>3. CASE i \in (start + 1)..stop
    <3>1. pending[i].sends = c
      BY <2>1
    <3>2. Sent1(i) = [pending[i] EXCEPT !.sends = k]
      BY <2>2, <2>3, <3>1
    <3>3. Sent1(i) = [seq |-> a, ev |-> b, sends |-> k]
      BY <2>1, <3>2
    <3> HIDE DEF Sent1
    <3> QED
      BY <2>1, <3>3 DEF Entry
  <2>4. CASE i \notin (start + 1)..stop
    BY <2>1, <2>4 DEF Entry
  <2> QED
    BY <2>3, <2>4
<1> HIDE DEF Sent1
<1>9. /\ pending' \in Seq(Entry) /\ Len(pending') = n /\ DOMAIN pending' = 1..n
      /\ \A i \in 1..n : pending'[i].seq = pending[i].seq /\ pending'[i].ev = pending[i].ev
  <2>1. pending' = [i \in 1..n |-> Sent1(i)]
    BY <1>1, <1>6
  <2> QED
    BY <1>8, <2>1
<1>10. FirstSeq' = fs
  BY <1>2, <1>4, <1>9 DEF FirstSeq
<1>11. /\ sent_up_to' \in Nat /\ sent_up_to <= sent_up_to' /\ sent_up_to' < next_seq
       /\ heads # {} => fs + stop - 1 <= sent_up_to'
  <2>1. CASE heads = {}
    BY <1>0, <1>3, <1>6, <2>1
  <2>2. CASE heads # {}
    <3>1. PICK a \in Nat : a = pending[stop].seq /\ a = fs + stop - 1
      <4>1. pending[stop] \in Entry
        BY <1>0, <1>1, <1>7, <2>2
      <4> QED
        BY <1>3, <1>7, <2>2, <4>1 DEF Entry
    <3>2. sent_up_to' = Max({sent_up_to, a})
      BY <1>6, <2>2, <3>1
    <3>3. Max({sent_up_to, a}) = IF sent_up_to >= a THEN sent_up_to ELSE a
      <4>1. sent_up_to \in Int /\ a \in Int
        BY <1>0
      <4> QED
        BY <4>1, MinMaxTwo, Zenon
    <3>4. a < next_seq
      BY <1>0, <1>2, <1>5, <3>1
    <3> QED
      BY <1>0, <1>3, <3>1, <3>2, <3>3, <3>4
  <2> QED
    BY <2>1, <2>2
\* What a new packet holds.
<1>12. ASSUME NEW i \in heads
       PROVE  \E k \in Nat : /\ i + k - 1 <= stop
                             /\ packet(i) = [first |-> fs + i - 1, events |-> [j \in 1..k |-> pending[i + j - 1].ev]]
  <2>1. PICK e \in Int : e = Min({stop, i + MAX_PER_PACKET - 1}) /\ i <= e /\ e <= stop
    <3>1. Min({stop, i + MAX_PER_PACKET - 1}) = IF stop <= i + MAX_PER_PACKET - 1 THEN stop ELSE i + MAX_PER_PACKET - 1
      BY <1>0, <1>7, MinMaxTwo
    <3> QED
      BY <1>0, <1>7, <3>1
  <2>2. cut(i) = SubSeq(pending, i, e)
    BY <2>1
  <2>3. PICK k \in Nat : k = e - i + 1 /\ i + k - 1 <= stop /\ i \in 1..n /\ e <= n
    BY <1>5, <1>7, <2>1
  <2>4. DOMAIN cut(i) = 1..k /\ \A j \in 1..k : cut(i)[j] = pending[i + j - 1]
    <3>1. PICK z : z = SubSeq(pending, i, e)
      OBVIOUS
    <3>2. i \in Int /\ i >= 1 /\ e <= Len(pending) /\ k = e - i + 1 /\ i <= e
      BY <1>1, <2>1, <2>3
    <3>3. z \in Seq(Entry)
      BY <1>0, <3>1, <3>2
    <3>4. Len(z) = k
      BY <1>0, <3>1, <3>2
    <3>5. \A j \in 1..k : z[j] = pending[i + j - 1]
      BY <1>0, <3>1, <3>2
    <3>6. DOMAIN z = 1..k
      BY <3>3, <3>4
    <3> QED
      BY <2>2, <3>1, <3>5, <3>6, Zenon
  <2> HIDE DEF cut
  <2>5. [j \in DOMAIN cut(i) |-> cut(i)[j].ev] = [j \in 1..k |-> pending[i + j - 1].ev]
    BY <2>4
  <2>6. pending[i].seq = fs + i - 1
    BY <1>3, <2>3
  <2>7. packet(i) = [first |-> fs + i - 1, events |-> [j \in 1..k |-> pending[i + j - 1].ev]]
    BY <2>5, <2>6
  <2> QED
    BY <2>3, <2>7
<1> HIDE DEF packet
<1>13. ASSUME NEW i \in heads, NEW k \in Nat, i + k - 1 <= stop, NEW j \in 1..k
       PROVE  i + j - 1 \in 1..n /\ pending[i + j - 1].ev \in EventType
  <2>1. i \in 1..n /\ i + j - 1 \in 1..n
    BY <1>5, <1>7, <1>13
  <2>2. pending[i + j - 1] \in Entry
    BY <1>0, <1>1, <2>1
  <2> QED
    BY <2>1, <2>2 DEF Entry
<1>14. ASSUME NEW i \in heads
       PROVE  packet(i) \in [first : Nat, events : Seq(EventType)]
  <2>1. PICK k \in Nat : /\ i + k - 1 <= stop
                         /\ packet(i) = [first |-> fs + i - 1, events |-> [j \in 1..k |-> pending[i + j - 1].ev]]
    BY <1>12
  <2>2. [j \in 1..k |-> pending[i + j - 1].ev] \in Seq(EventType)
    BY <1>13, <2>1
  <2>3. fs + i - 1 \in Nat
    BY <1>3, <1>7
  <2> QED
    BY <2>1, <2>2, <2>3
<1>15. InputTypes'
  <2>1. input_packets' \in SUBSET [first : Nat, events : Seq(EventType)]
    BY <1>0, <1>6, <1>14
  <2> QED
    BY <1>4, <1>9, <1>11, <2>1 DEF InputIInv, InputTypes
<1>16. Numbered'
  <2>1. \A i \in DOMAIN pending' : pending'[i].seq = FirstSeq' + i - 1
    BY <1>3, <1>9, <1>10
  <2>2. \A a \in acks' : a <= applied'
    BY <1>4 DEF InputIInv, Numbered
  <2> QED
    BY <1>0, <1>3, <1>4, <1>10, <1>11, <2>1, <2>2 DEF Numbered
<1>17. ASSUME NEW q \in (applied + 1)..(next_seq - 1) PROVE Ev(q)' = Ev(q)
  <2>1. PICK i \in 1..n : i = q - fs + 1
    BY <1>0, <1>2, <1>3
  <2>2. Ev(q)' = pending'[i].ev /\ Ev(q) = pending[i].ev
    BY <1>3, <1>10, <2>1 DEF Ev
  <2> QED
    BY <1>9, <2>2
<1>18. Carried'
  <2> SUFFICES ASSUME NEW p \in input_packets', NEW j \in DOMAIN p.events
               PROVE  /\ p.first + j - 1 <= sent_up_to'
                      /\ p.first + j - 1 > applied' => p.events[j] = Ev(p.first + j - 1)'
    BY DEF Carried
  <2>1. CASE p \in input_packets
    <3>1. p.first \in Nat /\ j \in Nat
      BY <1>0, <2>1
    <3>2. PICK q \in Int : q = p.first + j - 1
      BY <3>1
    <3>3. q <= sent_up_to /\ (q > applied => p.events[j] = Ev(q))
      BY <2>1, <3>2 DEF InputIInv, Carried
    <3>4. q > applied => q \in (applied + 1)..(next_seq - 1)
      BY <1>0, <1>3, <3>3
    <3>5. q <= sent_up_to'
      BY <1>0, <1>11, <3>3
    <3> QED
      BY <1>4, <1>17, <3>2, <3>3, <3>4, <3>5
  <2>2. ASSUME NEW i \in heads, p = packet(i)
        PROVE  /\ p.first + j - 1 <= sent_up_to'
               /\ p.events[j] = Ev(p.first + j - 1)'
    <3>1. PICK k \in Nat : /\ i + k - 1 <= stop
                           /\ p = [first |-> fs + i - 1, events |-> [m \in 1..k |-> pending[i + m - 1].ev]]
      BY <1>12, <2>2
    <3>2. j \in 1..k /\ p.first = fs + i - 1 /\ p.events[j] = pending[i + j - 1].ev
      BY <3>1
    <3>3. i + j - 1 \in 1..n
      BY <1>13, <3>1, <3>2
    <3>4. PICK m \in 1..n : m = i + j - 1 /\ m <= stop
      BY <1>5, <1>7, <3>1, <3>2, <3>3
    <3>5. PICK q \in Int : q = p.first + j - 1 /\ q = fs + m - 1
      BY <1>7, <3>2, <3>4
    <3>6. q <= sent_up_to'
      BY <1>5, <1>11, <3>4, <3>5
    <3>7. q - fs + 1 = m
      BY <3>5
    <3>8. Ev(q)' = pending'[m].ev
      BY <1>10, <3>7 DEF Ev
    <3> QED
      BY <1>9, <3>2, <3>4, <3>5, <3>6, <3>8
  <2> QED
    BY <1>6, <2>1, <2>2
<1>19. PICK st : Trace(st)
  BY DEF InputIInv
<1>20. Trace(st)'
  BY <1>4, <1>17, <1>19 DEF Trace
<1> QED
  BY <1>15, <1>16, <1>18, <1>20 DEF InputIInv

\* Where the capped packets start.
LEMMA CappedStartType == ASSUME InputIInv PROVE CappedStart \in Nat
<1>1. pending \in Seq(Entry) /\ CAPPED_TAIL \in Nat
  BY InputAssumption DEF InputIInv, InputTypes
<1> DEFINE tail == Max({0, Len(pending) - CAPPED_TAIL})
           rare == {i \in DOMAIN pending : pending[i].sends < CAPPED_REPEATS}
<1>2. PICK n \in Nat : n = Len(pending) /\ DOMAIN pending = 1..n
  BY <1>1
<1>3. tail \in Nat
  <2>1. Max({0, n - CAPPED_TAIL}) = IF 0 >= n - CAPPED_TAIL THEN 0 ELSE n - CAPPED_TAIL
    <3>1. 0 \in Int /\ n - CAPPED_TAIL \in Int
      BY <1>1
    <3> QED
      BY <3>1, MinMaxTwo, Zenon
  <2>2. PICK t : t = Max({0, n - CAPPED_TAIL})
    OBVIOUS
  <2>3. t \in Nat
    BY <1>1, <2>1, <2>2
  <2> QED
    BY <1>2, <2>2, <2>3
<1>4. CappedStart = IF rare = {} THEN tail ELSE Min({Min(rare) - 1, tail})
  BY DEF CappedStart
<1>5. CASE rare # {}
  <2>1. rare \in SUBSET Nat /\ \A i \in rare : i >= 1
    BY <1>2
  <2> HIDE DEF rare, tail
  <2>2. PICK k \in Nat : k = Min(rare) - 1
    <3>1. PICK r \in rare : r = Min(rare)
      BY <1>5, <2>1, MinExists
    <3>2. r \in Nat /\ r >= 1
      BY <2>1, <3>1
    <3>3. r - 1 \in Nat
      BY <3>2
    <3> QED
      BY <3>1, <3>3
  <2>3. PICK t \in Nat : t = tail
    BY <1>3
  <2>4. Min({k, t}) = IF k <= t THEN k ELSE t
    BY MinMaxTwo
  <2> QED
    BY <1>4, <1>5, <2>2, <2>3, <2>4
<1>6. CASE rare = {}
  BY <1>3, <1>4, <1>6
<1> QED
  BY <1>5, <1>6

\* InputReceiver::receive goes along the trace, and not past what was sent.
LEMMA ReceiveAllFacts ==
  ASSUME InputIInv, NEW st, Trace(st), NEW p \in input_packets
  PROVE  \E a \in applied..sent_up_to :
           ReceiveAll([applied |-> applied, host |-> host], p) = [applied |-> a, host |-> st[a]]
<1>0. /\ next_seq \in Nat /\ sent_up_to \in Nat /\ applied \in Nat /\ p.first \in Nat
      /\ p.events \in Seq(EventType) /\ applied <= sent_up_to /\ sent_up_to < next_seq
  BY DEF InputIInv, InputTypes, Numbered
<1>1. PICK n \in Nat : n = Len(p.events) /\ DOMAIN p.events = 1..n
  BY <1>0
<1>2. PICK first \in Nat : first = p.first
  BY <1>0
<1>3. PICK b : b = [applied |-> applied, host |-> host]
  OBVIOUS
<1> DEFINE R(f) == [i \in 0..n |-> IF i = 0 THEN b ELSE ReceiveOne(f[i - 1], first + i - 1, p.events[i])]
           A(i) == IF first <= applied + 1 /\ first + i - 1 > applied THEN first + i - 1 ELSE applied
           g == [i \in 0..n |-> [applied |-> A(i), host |-> st[A(i)]]]
           h == CHOOSE f : f = R(f)
<1>4. b = [applied |-> applied, host |-> st[applied]]
  BY <1>3 DEF Trace
<1>5. A(0) = applied
  BY <1>0, <1>2
<1>6. ASSUME NEW i \in 1..n
      PROVE  /\ ReceiveOne([applied |-> A(i - 1), host |-> st[A(i - 1)]], first + i - 1, p.events[i])
                  = [applied |-> A(i), host |-> st[A(i)]]
             /\ A(i) \in applied..sent_up_to
  <2>1. PICK q \in Int : q = first + i - 1 /\ q >= first
    OBVIOUS
  <2>2. q <= sent_up_to /\ (q > applied => p.events[i] = Ev(q))
    BY <1>1, <1>2, <2>1 DEF InputIInv, Carried
  <2>3. A(i) = IF first <= applied + 1 /\ q > applied THEN q ELSE applied
    BY <2>1
  <2>4. PICK a \in Int : a = A(i - 1) /\ a = IF first <= applied + 1 /\ q - 1 > applied THEN q - 1 ELSE applied
    <3>1. first + (i - 1) - 1 = q - 1
      BY <2>1
    <3> QED
      BY <1>0, <3>1
  <2> HIDE DEF A
  <2>5. CASE first <= applied + 1 /\ q > applied
    <3>1. a = q - 1 /\ q = a + 1
      BY <1>0, <2>4, <2>5
    <3>2. ReceiveOne([applied |-> a, host |-> st[a]], q, p.events[i]) = [applied |-> q, host |-> Apply(st[q - 1], p.events[i])]
      BY <3>1 DEF ReceiveOne
    <3>3. q \in (applied + 1)..(next_seq - 1)
      BY <1>0, <2>2, <2>5
    <3>4. st[q] = Apply(st[q - 1], p.events[i])
      BY <2>2, <2>5, <3>3 DEF Trace
    <3> QED
      BY <1>0, <2>1, <2>2, <2>3, <2>4, <2>5, <3>2, <3>4
  <2>6. CASE ~ (first <= applied + 1 /\ q > applied)
    <3>1. a = applied /\ q # a + 1
      BY <1>0, <2>1, <2>4, <2>6
    <3>2. ReceiveOne([applied |-> a, host |-> st[a]], q, p.events[i]) = [applied |-> a, host |-> st[a]]
      BY <3>1 DEF ReceiveOne
    <3>3. A(i) = a
      BY <2>3, <2>6, <3>1
    <3> QED
      BY <1>0, <2>1, <2>4, <3>1, <3>2, <3>3
  <2> QED
    BY <2>5, <2>6
<1> HIDE DEF A
<1>7. \A i \in 1..n : i - 1 \in 0..n /\ i \in 0..n /\ i # 0
  OBVIOUS
<1>8. g = R(g)
  <2>1. ASSUME NEW i \in 0..n PROVE g[i] = R(g)[i]
    <3>1. CASE i = 0
      BY <1>4, <1>5, <3>1
    <3>2. CASE i \in 1..n
      BY <1>6, <1>7, <3>2
    <3> QED
      BY <3>1, <3>2
  <2> QED
    BY <2>1
<1>9. h = R(h)
  BY <1>8, Zenon
<1> HIDE DEF g, h
<1>10. g[0] = b /\ \A i \in 1..n : g[i] = ReceiveOne(g[i - 1], first + i - 1, p.events[i])
  BY <1>7, <1>8
<1>11. h[0] = b /\ \A i \in 1..n : h[i] = ReceiveOne(h[i - 1], first + i - 1, p.events[i])
  BY <1>7, <1>9
<1>12. h[n] = g[n]
  <2> DEFINE T == {i \in 0..n : h[i] # g[i]}
  <2> SUFFICES ASSUME T # {} PROVE FALSE
    OBVIOUS
  <2>1. T \in SUBSET Nat
    OBVIOUS
  <2>2. PICK m \in T : \A y \in T : m <= y
    BY <2>1, MinExists
  <2>3. m \in 1..n
    BY <1>10, <1>11, <2>2
  <2>4. m - 1 \in 0..n /\ ~ (m <= m - 1)
    BY <2>3
  <2>5. h[m - 1] = g[m - 1]
    BY <2>2, <2>4
  <2>6. h[m] = g[m]
    BY <1>10, <1>11, <2>3, <2>5
  <2> QED
    BY <2>2, <2>6
<1>13. ReceiveAll(b, p) = h[n]
  BY <1>1, <1>2 DEF ReceiveAll, h
<1>14. g[n] = [applied |-> A(n), host |-> st[A(n)]]
  BY DEF g
<1>15. A(n) \in applied..sent_up_to
  <2>1. CASE n = 0
    BY <1>0, <1>5, <2>1
  <2>2. CASE n # 0
    <3>1. n \in 1..n
      BY <2>2
    <3> QED
      BY <1>6, <3>1
  <2> QED
    BY <2>1, <2>2
<1> QED
  BY <1>3, <1>12, <1>13, <1>14, <1>15

\* A packet arrives.
LEMMA ReceiveKeeps ==
  ASSUME InputIInv, NEW p \in input_packets, NEW again \in BOOLEAN, Receive(p, again)
  PROVE  InputIInv'
<1>0. /\ next_seq \in Nat /\ sent_up_to \in Nat /\ applied \in Nat /\ applied <= sent_up_to /\ sent_up_to < next_seq
      /\ input_packets \in SUBSET [first : Nat, events : Seq(EventType)]
  BY DEF InputIInv, InputTypes, Numbered
<1>1. PICK st : Trace(st)
  BY DEF InputIInv
<1>2. PICK a \in applied..sent_up_to :
        ReceiveAll([applied |-> applied, host |-> host], p) = [applied |-> a, host |-> st[a]]
  BY <1>1, ReceiveAllFacts
<1>3. /\ applied' = a /\ host' = st[a] /\ input_packets' \subseteq input_packets
      /\ UNCHANGED <<pending, next_seq, sent_up_to, acks, client>>
  BY <1>2 DEF Receive
<1>4. a \in Nat /\ applied <= a /\ a <= sent_up_to
  BY <1>0
<1>5. FirstSeq' = FirstSeq /\ \A q : Ev(q)' = Ev(q)
  BY <1>3 DEF FirstSeq, Ev
<1>6. InputTypes'
  <2>1. host' \in Driven
    BY <1>1, <1>3, <1>4 DEF Trace
  <2> QED
    BY <1>3, <1>4, <2>1 DEF InputIInv, InputTypes
<1>7. Numbered'
  <2>1. \A x \in acks' : x <= applied'
    <3>1. \A x \in acks : x \in Nat /\ x <= applied
      BY DEF InputIInv, Numbered, InputTypes
    <3> QED
      BY <1>0, <1>3, <1>4, <3>1
  <2>2. FirstSeq' - 1 <= applied'
    <3>1. PICK f \in Int : f = FirstSeq
      <4>1. Len(pending) \in Nat
        BY DEF InputIInv, InputTypes
      <4> QED
        BY <1>0, <4>1 DEF FirstSeq
    <3>2. f - 1 <= applied
      BY <3>1 DEF InputIInv, Numbered
    <3>3. f - 1 <= a
      BY <1>0, <1>4, <3>2
    <3> QED
      BY <1>3, <1>5, <3>1, <3>3
  <2> QED
    BY <1>3, <1>4, <1>5, <2>1, <2>2 DEF InputIInv, Numbered
<1>8. Carried'
  <2> SUFFICES ASSUME NEW r \in input_packets', NEW i \in DOMAIN r.events
               PROVE  /\ r.first + i - 1 <= sent_up_to'
                      /\ r.first + i - 1 > applied' => r.events[i] = Ev(r.first + i - 1)'
    BY DEF Carried
  <2>1. r \in input_packets /\ r.first \in Nat /\ i \in Nat
    BY <1>0, <1>3
  <2>2. PICK q \in Int : q = r.first + i - 1
    BY <2>1
  <2>3. q <= sent_up_to /\ (q > applied => r.events[i] = Ev(q))
    BY <2>1, <2>2 DEF InputIInv, Carried
  <2>4. q > a => q > applied
    BY <1>0, <1>4
  <2> QED
    BY <1>3, <1>5, <2>2, <2>3, <2>4
<1>9. Trace(st)'
  <2>1. \A q \in (a + 1)..(next_seq - 1) : q \in (applied + 1)..(next_seq - 1)
    BY <1>0, <1>4
  <2> QED
    BY <1>1, <1>3, <1>5, <2>1 DEF Trace
<1> QED
  BY <1>6, <1>7, <1>8, <1>9 DEF InputIInv

\* What the invariant says of the host's state.
LEMMA TraceCatchesUp == InputIInv => HostCatchesUp
<1> SUFFICES ASSUME InputIInv PROVE HostCatchesUp
  OBVIOUS
<1>0. pending \in Seq(Entry) /\ next_seq \in Nat /\ applied \in Nat
  BY DEF InputIInv, InputTypes
<1>1. PICK st : Trace(st)
  BY DEF InputIInv
<1>2. PICK n \in Nat : n = Len(pending) /\ DOMAIN pending = 1..n
  BY <1>0
<1>3. PICK fs \in Int : fs = next_seq - n
  BY <1>0
<1>4. FirstSeq = fs /\ fs - 1 <= applied /\ applied <= next_seq - 1 /\ \A i \in 1..n : pending[i].seq = fs + i - 1
  <2>1. FirstSeq = fs
    BY <1>2, <1>3 DEF FirstSeq
  <2>2. applied <= next_seq - 1
    BY <1>0 DEF InputIInv, Numbered, InputTypes
  <2> QED
    BY <1>2, <2>1, <2>2 DEF InputIInv, Numbered
<1>5. /\ st[applied] = host /\ st[next_seq - 1] = client
      /\ \A q \in (applied + 1)..(next_seq - 1) : st[q] = Apply(st[q - 1], pending[q - fs + 1].ev)
  BY <1>1, <1>4 DEF Trace, Ev
<1> DEFINE R(f) == [i \in 0..n |-> IF i = 0 THEN host
                                   ELSE IF pending[i].seq > applied THEN Apply(f[i - 1], pending[i].ev) ELSE f[i - 1]]
           A(i) == IF fs + i - 1 > applied THEN fs + i - 1 ELSE applied
           g == [i \in 0..n |-> st[A(i)]]
           h == CHOOSE f : f = R(f)
<1>6. A(0) = applied
  BY <1>0, <1>4
<1>7. ASSUME NEW i \in 1..n
      PROVE  st[A(i)] = IF pending[i].seq > applied THEN Apply(st[A(i - 1)], pending[i].ev) ELSE st[A(i - 1)]
  <2>1. PICK q \in Int : q = fs + i - 1 /\ pending[i].seq = q /\ q <= next_seq - 1 /\ i = q - fs + 1
    BY <1>0, <1>3, <1>4
  <2>2. A(i) = IF q > applied THEN q ELSE applied
    BY <2>1
  <2>3. PICK a \in Int : a = A(i - 1) /\ a = IF q - 1 > applied THEN q - 1 ELSE applied
    <3>1. fs + (i - 1) - 1 = q - 1
      BY <2>1
    <3> QED
      BY <1>0, <3>1
  <2> HIDE DEF A
  <2>4. CASE q > applied
    <3>1. a = q - 1 /\ q \in (applied + 1)..(next_seq - 1)
      BY <1>0, <2>1, <2>3, <2>4
    <3>2. st[q] = Apply(st[q - 1], pending[i].ev)
      BY <1>5, <2>1, <3>1
    <3> QED
      BY <2>1, <2>2, <2>3, <2>4, <3>1, <3>2
  <2>5. CASE ~ (q > applied)
    <3>1. a = applied
      BY <1>0, <2>3, <2>5
    <3> QED
      BY <2>1, <2>2, <2>3, <2>5, <3>1
  <2> QED
    BY <2>4, <2>5
<1> HIDE DEF A
<1>8. \A i \in 1..n : i - 1 \in 0..n /\ i \in 0..n /\ i # 0
  OBVIOUS
<1>9. g = R(g)
  <2>1. ASSUME NEW i \in 0..n PROVE g[i] = R(g)[i]
    <3>1. CASE i = 0
      BY <1>5, <1>6, <3>1
    <3>2. CASE i \in 1..n
      BY <1>7, <1>8, <3>2
    <3> QED
      BY <3>1, <3>2
  <2> QED
    BY <2>1
<1>10. h = R(h)
  BY <1>9, Zenon
<1> HIDE DEF g, h
<1>11. /\ g[0] = host
       /\ \A i \in 1..n : g[i] = IF pending[i].seq > applied THEN Apply(g[i - 1], pending[i].ev) ELSE g[i - 1]
  BY <1>8, <1>9
<1>12. /\ h[0] = host
       /\ \A i \in 1..n : h[i] = IF pending[i].seq > applied THEN Apply(h[i - 1], pending[i].ev) ELSE h[i - 1]
  BY <1>8, <1>10
<1>13. h[n] = g[n]
  <2> DEFINE T == {i \in 0..n : h[i] # g[i]}
  <2> SUFFICES ASSUME T # {} PROVE FALSE
    OBVIOUS
  <2>1. T \in SUBSET Nat
    OBVIOUS
  <2>2. PICK m \in T : \A y \in T : m <= y
    BY <2>1, MinExists
  <2>3. m \in 1..n
    BY <1>11, <1>12, <2>2
  <2>4. m - 1 \in 0..n /\ ~ (m <= m - 1)
    BY <2>3
  <2>5. h[m - 1] = g[m - 1]
    BY <2>2, <2>4
  <2>6. h[m] = g[m]
    BY <1>11, <1>12, <2>3, <2>5
  <2> QED
    BY <2>2, <2>6
<1>14. g[n] = st[A(n)]
  BY DEF g
<1>15. A(n) = next_seq - 1
  BY <1>0, <1>3, <1>4 DEF A
<1>16. HostCatchesUp <=> h[n] = client
  BY <1>2 DEF HostCatchesUp, h
<1> QED
  BY <1>5, <1>13, <1>14, <1>15, <1>16

\* Whatever input packets and acknowledgements are lost, repeated or late, the
\* host's state with the events it still has to get is the client's state: for
\* every packet size, every capped tail and any number of events.
THEOREM HostAlwaysCatchesUp == InputSpec => []HostCatchesUp
<1>1. ASSUME InputIInv, [InputNext]_inputVars PROVE InputIInv'
  <2>1. ASSUME NEW ev \in Event, PushInput(ev) PROVE InputIInv'
    BY <1>1, <2>1, PushKeeps
  <2>2. ASSUME NEW m \in 1..2, Packets(m) \/ CappedPackets(m) PROVE InputIInv'
    <3>1. m \in Nat /\ CappedStart \in Nat
      BY <1>1, CappedStartType
    <3>2. PacketsFrom(0, m) \/ PacketsFrom(CappedStart, m)
      BY <2>2 DEF Packets, CappedPackets
    <3> QED
      BY <1>1, <3>1, <3>2, PacketsKeep
  <2>3. ASSUME NEW a \in acks, ReceiveAck(a) PROVE InputIInv'
    BY <1>1, <2>3, AckKeeps
  <2>4. ASSUME NEW p \in input_packets, NEW again \in BOOLEAN, Receive(p, again) PROVE InputIInv'
    BY <1>1, <2>4, ReceiveKeeps
  <2>5. CASE \/ ReportApplied \/ UNCHANGED inputVars
             \/ \E p \in input_packets : LoseInput(p)
             \/ \E a \in acks : LoseAck(a)
    <3>1. /\ UNCHANGED <<pending, next_seq, sent_up_to, applied, client, host>>
          /\ input_packets' \subseteq input_packets /\ acks' \subseteq acks \union {applied}
      BY <2>5 DEF ReportApplied, LoseInput, LoseAck, inputVars
    <3>2. InputTypes'
      BY <1>1, <3>1 DEF InputIInv, InputTypes
    <3>3. \A a \in acks' : a <= applied
      <4>1. applied \in Nat /\ \A a \in acks : a <= applied
        BY <1>1 DEF InputIInv, Numbered, InputTypes
      <4> QED
        BY <3>1, <4>1
    <3>4. Numbered'
      BY <1>1, <3>1, <3>3 DEF InputIInv, Numbered, FirstSeq
    <3>5. \A q : Ev(q)' = Ev(q)
      BY <3>1 DEF Ev, FirstSeq
    <3> QED
      BY <1>1, <3>1, <3>2, <3>3, <3>4, <3>5, SameEvents
  <2> QED
    BY <1>1, <2>1, <2>2, <2>3, <2>4, <2>5 DEF InputNext
<1> QED
  BY <1>1, InputInitIInv, TraceCatchesUp, PTL DEF InputSpec
=============================================================================
