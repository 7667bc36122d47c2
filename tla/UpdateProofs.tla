---------------------------- MODULE UpdateProofs -----------------------------
(***************************************************************************)
(* However many processes install at once, and whichever of their renames   *)
(* fail, there is an exe to start; and a fetch of the host's newer release   *)
(* does not end as a failed one, whatever its datagrams do.                 *)
(***************************************************************************)
EXTENDS Install, Update, FiniteSetTheorems, TLAPS

-----------------------------------------------------------------------------
(* Installing *)

\* A finisher between its two renames still has the exe it moved aside, or a
\* cleanup has deleted it.
AsideKept == \A p \in Procs : at[p] = "swap" => swept \/ aside[p] # NoFile

InstallIInv ==
  /\ DOMAIN at = Procs /\ DOMAIN aside = Procs
  /\ AsideKept /\ ExeThere

LEMMA InstallInitIInv == InstallInit => InstallIInv
  BY DEF InstallInit, InstallIInv, AsideKept, ExeThere, NoFile

\* What does not touch the exe, the exes moved aside and who is swapping.
LEMMA ElsewhereIInv ==
  ASSUME InstallIInv, UNCHANGED <<exe, aside, swept>>, DOMAIN at' = Procs,
         \A q \in Procs : at'[q] = "swap" <=> at[q] = "swap"
  PROVE  InstallIInv'
  BY DEF InstallIInv, AsideKept, ExeThere

LEMMA InstallStepIInv == InstallIInv /\ [InstallNext]_installVars => InstallIInv'
<1> SUFFICES ASSUME InstallIInv, [InstallNext]_installVars PROVE InstallIInv'
  OBVIOUS
<1>1. ASSUME NEW p \in Procs,
             StartProcess(p) \/ StageManifest(p) \/ (\E v \in Releases : StageExe(p, v))
               \/ InstallStaged(p) \/ InstallOnExit(p) \/ FinishUpdate(p)
      PROVE  InstallIInv'
  BY <1>1, ElsewhereIInv
     DEF StartProcess, StageManifest, StageExe, InstallStaged, InstallOnExit, FinishUpdate,
         Goto, folder, InstallIInv
<1>2. ASSUME NEW p \in Procs, Copy(p) \/ WriteManifest(p) PROVE InstallIInv'
  BY <1>2, ElsewhereIInv DEF Copy, WriteManifest, Goto, InstallIInv
<1>3. ASSUME NEW p \in Procs, CleanUp(p) PROVE InstallIInv'
  <2>1. /\ exe' = exe /\ at' = at /\ (swept => swept') /\ DOMAIN aside' = Procs
        /\ \A q \in Procs : at[q] = "swap" /\ aside'[q] # aside[q] => swept'
    BY <1>3 DEF CleanUp, folder
  <2> QED
    BY <2>1 DEF InstallIInv, AsideKept, ExeThere
<1>4. ASSUME NEW p \in Procs, NEW busy \in BOOLEAN, Rename(p, busy) PROVE InstallIInv'
  <2>1. CASE busy \/ exe_new = NoFile
    BY <1>4, <2>1, ElsewhereIInv DEF Rename, Goto, InstallIInv
  <2>2. CASE ~(busy \/ exe_new = NoFile)
    <3>1. exe' # NoFile /\ UNCHANGED <<aside, swept>> /\ at' = [at EXCEPT ![p] = "manifest"]
      BY <1>4, <2>2 DEF Rename, Installed, Goto
    <3> QED
      BY <3>1 DEF InstallIInv, AsideKept, ExeThere
  <2> QED
    BY <2>1, <2>2
<1>5. ASSUME NEW p \in Procs, MoveAside(p) PROVE InstallIInv'
  <2>1. CASE exe = NoFile
    BY <1>5, <2>1, ElsewhereIInv DEF MoveAside, Goto, InstallIInv
  <2>2. CASE exe # NoFile
    <3>1. /\ at' = [at EXCEPT ![p] = "swap"] /\ aside' = [aside EXCEPT ![p] = exe]
          /\ exe' = NoFile /\ swept' = swept
      BY <1>5, <2>2 DEF MoveAside, Goto
    <3>2. at'[p] = "swap" /\ DOMAIN at' = Procs /\ DOMAIN aside' = Procs
      BY <3>1 DEF InstallIInv
    <3>3. AsideKept'
      BY <2>2, <3>1 DEF InstallIInv, AsideKept
    <3> QED
      BY <3>2, <3>3 DEF InstallIInv, ExeThere
  <2> QED
    BY <2>1, <2>2
<1>6. ASSUME NEW p \in Procs, NEW fails \in BOOLEAN, Swap(p, fails) PROVE InstallIInv'
  <2>1. /\ at[p] = "swap" /\ swept' = swept /\ aside' = [aside EXCEPT ![p] = NoFile]
        /\ at' = [at EXCEPT ![p] = "off"] \/ at' = [at EXCEPT ![p] = "manifest"]
    BY <1>6 DEF Swap, Goto
  <2>2. DOMAIN at' = Procs /\ DOMAIN aside' = Procs /\ AsideKept'
    BY <2>1 DEF InstallIInv, AsideKept
  <2>3. swept \/ exe' # NoFile
    <3>1. swept \/ aside[p] # NoFile
      BY <2>1 DEF InstallIInv, AsideKept
    <3> QED
      BY <1>6, <3>1 DEF Swap, Installed
  <2> QED
    BY <2>1, <2>2, <2>3 DEF InstallIInv, ExeThere
<1>7. CASE UNCHANGED installVars
  BY <1>7 DEF installVars, InstallIInv, AsideKept, ExeThere
<1> QED
  BY <1>1, <1>2, <1>3, <1>4, <1>5, <1>6, <1>7 DEF InstallNext

\* There is an exe to start, except while a finisher is between its two
\* renames, or when a cleanup deleted what it would have moved back
\* (updater.rs, replace_exe), for any number of processes and releases.
THEOREM AlwaysAnExe == InstallSpec => []ExeThere
<1>1. InstallIInv => ExeThere
  BY DEF InstallIInv
<1> QED
  BY InstallInitIInv, InstallStepIInv, <1>1, PTL DEF InstallSpec

-----------------------------------------------------------------------------
(* Fetching *)

States == {"asking", "downloading", "done", "failed", "quit"}

\* While chunks are missing, they are counted right.
CountsMissing ==
  state = "downloading" => missing = NChunks - Cardinality(have) /\ have # Chunks

\* What the host says of its package is true.
HostHonest ==
  \A m \in toClient :
    \/ m.op = "Unavailable" /\ package = "none"
    \/ m.op = "Manifest" /\ (m.newer <=> package = "newer")
    \/ m.op = "Chunk"

UpdateIInv ==
  /\ state \in States /\ have \subseteq Chunks
  /\ CountsMissing /\ HostHonest /\ NoFalseFailure

\* The chunks are as many as NChunks says, and only all of them are that many.
LEMMA ChunksCounted ==
  /\ IsFiniteSet(Chunks) /\ Cardinality(Chunks) = NChunks
  /\ \A h : h \subseteq Chunks =>
       /\ IsFiniteSet(h) /\ Cardinality(h) \in Nat
       /\ Cardinality(h) = NChunks <=> h = Chunks
       /\ \A i \in Chunks \ h : Cardinality(h \union {i}) = Cardinality(h) + 1
<1>1. IsFiniteSet(Chunks) /\ Cardinality(Chunks) = NChunks
  <2>1. NChunks \in Nat /\ 0 \in Int /\ NChunks - 1 \in Int
    BY UpdateAssumption
  <2>2. /\ IsFiniteSet(0..(NChunks - 1))
        /\ Cardinality(0..(NChunks - 1)) = IF 0 > NChunks - 1 THEN 0 ELSE (NChunks - 1) - 0 + 1
    BY <2>1, FS_Interval
  <2> QED
    BY <2>1, <2>2 DEF Chunks
<1>2. ASSUME NEW h, h \subseteq Chunks
      PROVE  /\ IsFiniteSet(h) /\ Cardinality(h) \in Nat
             /\ Cardinality(h) = NChunks <=> h = Chunks
             /\ \A i \in Chunks \ h : Cardinality(h \union {i}) = Cardinality(h) + 1
  <2>1. IsFiniteSet(h)
    BY <1>1, <1>2, FS_Subset
  <2>2. Cardinality(h) \in Nat
    BY <2>1, FS_CardinalityType
  <2>3. Cardinality(h) = NChunks <=> h = Chunks
    BY <1>1, <1>2, FS_Subset
  <2>4. ASSUME NEW i \in Chunks \ h PROVE Cardinality(h \union {i}) = Cardinality(h) + 1
    BY <2>1, FS_AddElement
  <2> QED
    BY <2>1, <2>2, <2>3, <2>4
<1> QED
  BY <1>1, <1>2

LEMMA UpdateInitIInv == UpdateInit => UpdateIInv
  BY DEF UpdateInit, UpdateIInv, States, CountsMissing, HostHonest, NoFalseFailure

\* What leaves the fetch's counts and the package alone, and puts nothing new
\* on the way to the client.
LEMMA FetchElsewhere ==
  ASSUME UpdateIInv, UNCHANGED <<package, state, have, missing>>, toClient' \subseteq toClient
  PROVE  UpdateIInv'
  BY DEF UpdateIInv, States, CountsMissing, HostHonest, NoFalseFailure, Chunks

\* Whatever message the client takes.
LEMMA OnMsgIInv ==
  ASSUME UpdateIInv, NEW m \in toClient, NEW again \in UpRepeats, OnMsg(m, again)
  PROVE  UpdateIInv'
<1>1. /\ package' = package /\ toClient' \subseteq toClient
      /\ OnManifest(m) \/ OnChunk(m) \/ OnUnavailable(m) \/ Ignored(m)
  BY DEF OnMsg
<1>2. HostHonest'
  BY <1>1 DEF UpdateIInv, HostHonest
<1>3. /\ m.op = "Unavailable" => package = "none"
      /\ m.op = "Manifest" => (m.newer <=> package = "newer")
  BY DEF UpdateIInv, HostHonest
<1>4. CASE OnManifest(m)
  <2>1. CASE m.newer
    <3>1. /\ have' = {} /\ missing' = NChunks /\ NChunks \in Nat
          /\ state' = IF NChunks = 0 THEN FinishFetch({}) ELSE "downloading"
      BY <1>4, <2>1, UpdateAssumption DEF OnManifest
    <3>2. Cardinality({}) = NChunks <=> {} = Chunks
      BY ChunksCounted
    <3>3. Cardinality({}) = 0
      BY FS_EmptySet
    <3>4. CASE NChunks = 0
      <4>1. state' = "done"
        BY <3>1, <3>2, <3>3, <3>4 DEF FinishFetch
      <4> QED
        BY <1>2, <3>1, <4>1 DEF UpdateIInv, States, CountsMissing, NoFalseFailure
    <3>5. CASE NChunks # 0
      <4>1. state' = "downloading" /\ have' # Chunks /\ missing' = NChunks - Cardinality(have')
        BY <3>1, <3>2, <3>3, <3>5
      <4> QED
        BY <1>2, <3>1, <4>1 DEF UpdateIInv, States, CountsMissing, NoFalseFailure, Chunks
    <3> QED
      BY <3>4, <3>5
  <2>2. CASE ~m.newer
    <3>1. state' = "failed" /\ have' = have /\ package # "newer"
      BY <1>3, <1>4, <2>2 DEF OnManifest
    <3> QED
      BY <1>1, <1>2, <3>1 DEF UpdateIInv, States, CountsMissing, NoFalseFailure, Chunks
  <2> QED
    BY <2>1, <2>2
<1>5. CASE OnChunk(m)
  <2> DEFINE i == m.index
             got == have \union {i}
  <2>1. /\ state = "downloading" /\ i \in Chunks \ have /\ have' = got /\ missing' = missing - 1
        /\ state' = IF missing = 1 THEN FinishFetch(got) ELSE state
    BY <1>5 DEF OnChunk, NewChunk
  <2>2. have \subseteq Chunks /\ got \subseteq Chunks /\ missing = NChunks - Cardinality(have)
    BY <2>1 DEF UpdateIInv, CountsMissing
  <2>3. /\ Cardinality(have) \in Nat /\ Cardinality(got) = Cardinality(have) + 1
        /\ Cardinality(got) = NChunks <=> got = Chunks
    BY <2>1, <2>2, ChunksCounted
  <2> HIDE DEF got, i
  <2>4. NChunks \in Nat
    BY UpdateAssumption
  <2>5. missing = 1 <=> got = Chunks
    BY <2>2, <2>3, <2>4
  <2>6. CASE missing = 1
    <3>1. state' = "done"
      BY <2>1, <2>5, <2>6 DEF FinishFetch
    <3> QED
      BY <1>2, <2>1, <2>2, <3>1 DEF UpdateIInv, States, CountsMissing, NoFalseFailure, Chunks
  <2>7. CASE missing # 1
    <3>1. state' = "downloading" /\ have' # Chunks
      BY <2>1, <2>5, <2>7
    <3>2. missing' = NChunks - Cardinality(have')
      BY <2>1, <2>2, <2>3, <2>4
    <3> QED
      BY <1>2, <2>1, <2>2, <3>1, <3>2 DEF UpdateIInv, States, CountsMissing, NoFalseFailure, Chunks
  <2> QED
    BY <2>6, <2>7
<1>6. CASE OnUnavailable(m)
  <2>1. state' = "failed" /\ have' = have /\ package = "none"
    BY <1>3, <1>6 DEF OnUnavailable
  <2> QED
    BY <1>1, <1>2, <2>1 DEF UpdateIInv, States, CountsMissing, NoFalseFailure, Chunks
<1>7. CASE Ignored(m)
  BY <1>1, <1>7, FetchElsewhere DEF Ignored
<1> QED
  BY <1>1, <1>4, <1>5, <1>6, <1>7

LEMMA AnswerIInv ==
  ASSUME UpdateIInv, NEW m \in toHost, NEW again \in UpRepeats, Answer(m, again)
  PROVE  UpdateIInv'
<1>1. toClient' = toClient \union Answers(m) /\ UNCHANGED <<package, state, have, missing>>
  BY DEF Answer
<1>2. \A r \in Answers(m) :
        \/ r.op = "Unavailable" /\ package = "none"
        \/ r.op = "Manifest" /\ (r.newer <=> package = "newer")
        \/ r.op = "Chunk"
  <2>1. CASE package = "none"
    BY <2>1 DEF Answers
  <2>2. CASE package # "none" /\ m.op = "GetManifest"
    <3> DEFINE man == [op |-> "Manifest", newer |-> package = "newer"]
    <3>1. Answers(m) = {man}
      BY <2>2 DEF Answers
    <3>2. man.op = "Manifest" /\ (man.newer <=> package = "newer")
      OBVIOUS
    <3> HIDE DEF man
    <3> QED
      BY <3>1, <3>2
  <2>3. CASE package # "none" /\ m.op # "GetManifest"
    <3> DEFINE asks == {j \in Chunks : m.first <= j /\ j < m.first + m.count}
    <3> HIDE DEF asks
    <3>1. Answers(m) = {[op |-> "Chunk", index |-> i] : i \in asks}
      BY <2>3 DEF Answers, asks
    <3> QED
      BY <3>1
  <2> QED
    BY <2>1, <2>2, <2>3
<1> QED
  BY <1>1, <1>2 DEF UpdateIInv, States, CountsMissing, HostHonest, NoFalseFailure, Chunks

LEMMA UpdateStepIInv == UpdateIInv /\ [UpdateNext]_updateVars => UpdateIInv'
<1> SUFFICES ASSUME UpdateIInv, [UpdateNext]_updateVars PROVE UpdateIInv'
  OBVIOUS
<1>1. CASE PollManifest \/ PollChunks \/ ElapseManifest \/ SayDone \/ StopServing \/ LoseUpdate
  BY <1>1, FetchElsewhere
     DEF PollManifest, PollChunks, ElapseManifest, SayDone, StopServing, LoseUpdate
<1>2. ASSUME NEW i \in Chunks, Elapse(i) PROVE UpdateIInv'
  BY <1>2, FetchElsewhere DEF Elapse
<1>3. ASSUME NEW told \in BOOLEAN, GiveUpFetch(told) PROVE UpdateIInv'
  <2>1. state' = "quit" /\ UNCHANGED <<package, have, missing, toClient>>
    BY <1>3 DEF GiveUpFetch
  <2> QED
    BY <2>1 DEF UpdateIInv, States, CountsMissing, HostHonest, NoFalseFailure, Chunks
<1>4. CASE UNCHANGED updateVars
  BY <1>4, FetchElsewhere DEF updateVars
<1>5. ASSUME NEW m \in toClient, NEW again \in UpRepeats, OnMsg(m, again) PROVE UpdateIInv'
  BY <1>5, OnMsgIInv
<1>6. ASSUME NEW m \in toHost, NEW again \in UpRepeats, Answer(m, again) PROVE UpdateIInv'
  BY <1>6, AnswerIInv
<1> QED
  BY <1>1, <1>2, <1>3, <1>4, <1>5, <1>6 DEF UpdateNext

\* A fetch from a host with a newer package never ends failed: chunks that
\* arrive twice, late or out of order are counted once (update.rs, on_msg and
\* finish), for any number of chunks, any budget and any loss.
THEOREM FetchNeverFalselyFails == UpdateSpec => []NoFalseFailure
<1>1. UpdateIInv => NoFalseFailure
  BY DEF UpdateIInv
<1> QED
  BY UpdateInitIInv, UpdateStepIInv, <1>1, PTL DEF UpdateSpec
=============================================================================
