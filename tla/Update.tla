------------------------------- MODULE Update -------------------------------
(***************************************************************************)
(* A client takes the host's newer rdpio over its session (update.rs: Fetch *)
(* on the client, Serve on the host; hyper_direct.rs: serve_update;         *)
(* hyper_client.rs: update_from_host).  Datagrams are lost, repeated and    *)
(* overtaken.  Signatures and digests are abstracted to what they decide: a *)
(* manifest verifies, and the bytes match it exactly if every chunk is in   *)
(* place.                                                                   *)
(***************************************************************************)
EXTENDS Naturals, FiniteSets, SequencesExt

CONSTANTS NChunks,     \* chunks of the host's exe
          MAX_GET,     \* chunks one Get asks for at most
          Budget,      \* chunks one poll may ask for
          UpMaxNet,    \* bound: datagrams on the way, each direction
          UpRepeats    \* whether a datagram may be delivered again: a set of BOOLEANs

ASSUME UpdateAssumption ==
  NChunks \in Nat /\ MAX_GET \in Nat \ {0} /\ Budget \in Nat \ {0} /\ UpMaxNet \in Nat
  /\ UpRepeats \subseteq BOOLEAN

VARIABLES package,     \* what the host can give: "none", "older" or "newer"
          serving,     \* the host's serve_update loop runs
          state,       \* FetchState, or "quit": the window closed, or silence
          have, asked, missing, cursor, manifest_asked,
          toHost, toClient

updateVars == <<package, serving, state, have, asked, missing, cursor, manifest_asked,
                toHost, toClient>>

Chunks == 0..(NChunks - 1)
Finished == state \in {"done", "failed", "quit"}
\* asked, manifest_asked: "never", or, since RESEND_AFTER and MANIFEST_EVERY,
\* "recent" or "overdue".

-----------------------------------------------------------------------------
(* The client *)

\* The chunk is missing, and was never asked for or too long ago.
DueOnce(i) == i \notin have /\ asked[i] = "never"
Due(i) == i \notin have /\ asked[i] # "recent"

\* Neighbours share a Get, up to MAX_GET chunks.
IntoGets(gets, i) ==
  LET g == Last(gets) IN
  IF gets # <<>> /\ g.first + g.count = i /\ g.count < MAX_GET
  THEN Append(Front(gets), [g EXCEPT !.count = g.count + 1])
  ELSE Append(gets, [op |-> "Get", first |-> i, count |-> 1])

\* Fetch::poll before the manifest is here.
PollManifest ==
  /\ state = "asking" /\ manifest_asked # "recent"
  /\ Cardinality(toHost) < UpMaxNet
  /\ manifest_asked' = "recent"
  /\ toHost' = toHost \union {[op |-> "GetManifest"]}
  /\ UNCHANGED <<package, serving, state, have, asked, missing, cursor, toClient>>

\* Fetch::poll: from the cursor round to it, the first chunks that are due.
PollChunks ==
  LET round == [k \in 1..NChunks |-> (cursor + k - 1) % NChunks]
      due   == SelectSeq(round, Due)
      full  == Len(due) >= Budget
      pick  == IF full THEN SubSeq(due, 1, Budget) ELSE due
      gets  == ToSet(FoldLeft(IntoGets, <<>>, pick))
      scanned == IF full THEN ((Last(pick) + NChunks - cursor) % NChunks) + 1 ELSE NChunks
  IN
  /\ state = "downloading" /\ due # <<>>
  /\ Cardinality(toHost \union gets) <= UpMaxNet
  /\ asked' = [i \in Chunks |-> IF i \in ToSet(pick) THEN "recent" ELSE asked[i]]
  /\ cursor' = (cursor + scanned) % NChunks
  /\ toHost' = toHost \union gets
  /\ UNCHANGED <<package, serving, state, have, missing, manifest_asked, toClient>>

\* A moment passes in which asking again becomes right.
Elapse(i) ==
  /\ asked[i] = "recent" /\ asked' = [asked EXCEPT ![i] = "overdue"]
  /\ UNCHANGED <<package, serving, state, have, missing, cursor, manifest_asked, toHost, toClient>>
ElapseManifest ==
  /\ manifest_asked = "recent" /\ manifest_asked' = "overdue"
  /\ UNCHANGED <<package, serving, state, have, asked, missing, cursor, toHost, toClient>>

\* Fetch::finish: the bytes are the manifest's exactly if no chunk is missing.
FinishFetch(h) == IF h = Chunks THEN "done" ELSE "failed"

\* A chunk that is already here is not counted twice.
NewChunkAlways(i) == i \in Chunks
NewChunk(i) == i \in Chunks \ have

\* Fetch::on_msg.
OnManifest(m) ==
  /\ m.op = "Manifest" /\ state = "asking"
  /\ IF m.newer
     THEN /\ have' = {} /\ asked' = [i \in Chunks |-> "never"] /\ missing' = NChunks
          /\ state' = IF NChunks = 0 THEN FinishFetch({}) ELSE "downloading"
     ELSE state' = "failed" /\ UNCHANGED <<have, asked, missing>>
OnChunk(m) ==
  /\ m.op = "Chunk" /\ state = "downloading" /\ NewChunk(m.index)
  /\ have' = have \union {m.index} /\ missing' = missing - 1
  /\ state' = IF missing = 1 THEN FinishFetch(have \union {m.index}) ELSE state
  /\ UNCHANGED asked
OnUnavailable(m) ==
  /\ m.op = "Unavailable" /\ ~Finished
  /\ state' = "failed" /\ UNCHANGED <<have, asked, missing>>
Ignored(m) ==
  /\ \/ Finished
     \/ m.op = "Manifest" /\ state # "asking"
     \/ m.op = "Chunk" /\ ~(state = "downloading" /\ NewChunk(m.index))
  /\ UNCHANGED <<state, have, asked, missing>>

OnMsg(m, again) ==
  /\ m \in toClient
  /\ OnManifest(m) \/ OnChunk(m) \/ OnUnavailable(m) \/ Ignored(m)
  /\ toClient' = IF again THEN toClient ELSE toClient \ {m}
  /\ UNCHANGED <<package, serving, cursor, manifest_asked, toHost>>

\* The window is closed, and the host told, or the host was silent for 15 s.
GiveUpFetch(told) ==
  /\ ~Finished /\ state' = "quit"
  /\ toHost' = IF told THEN toHost \union {[op |-> "Done"]} ELSE toHost
  /\ UNCHANGED <<package, serving, have, asked, missing, cursor, manifest_asked, toClient>>

\* It is over: the host is told (three copies).
SayDone ==
  /\ state \in {"done", "failed"}
  /\ toHost' = toHost \union {[op |-> "Done"]}
  /\ UNCHANGED <<package, serving, state, have, asked, missing, cursor, manifest_asked, toClient>>

-----------------------------------------------------------------------------
(* The host *)

\* Serve::answer, to a GetManifest or a Get: a Get beyond the end is cut off
\* there.
Answers(m) ==
  IF package = "none" THEN {[op |-> "Unavailable"]}
  ELSE CASE m.op = "GetManifest" -> {[op |-> "Manifest", newer |-> package = "newer"]}
         [] OTHER -> {[op |-> "Chunk", index |-> i] :
              i \in {j \in Chunks : m.first <= j /\ j < m.first + m.count}}

Answer(m, again) ==
  /\ m \in toHost /\ m.op # "Done" /\ serving
  /\ Cardinality(toClient \union Answers(m)) <= UpMaxNet
  /\ toClient' = toClient \union Answers(m)
  /\ toHost' = IF again THEN toHost ELSE toHost \ {m}
  /\ UNCHANGED <<package, serving, state, have, asked, missing, cursor, manifest_asked>>

\* serve_update ends with the client's Done, after 15 s of silence, or when
\* the service stops.
StopServing ==
  /\ serving /\ serving' = FALSE
  /\ UNCHANGED <<package, state, have, asked, missing, cursor, manifest_asked, toHost, toClient>>

LoseUpdate ==
  /\ \/ \E m \in toHost : toHost' = toHost \ {m} /\ UNCHANGED toClient
     \/ \E m \in toClient : toClient' = toClient \ {m} /\ UNCHANGED toHost
  /\ UNCHANGED <<package, serving, state, have, asked, missing, cursor, manifest_asked>>

UpdateInit ==
  /\ package \in {"none", "older", "newer"} /\ serving = TRUE
  /\ state = "asking" /\ have = {} /\ asked = [i \in Chunks |-> "never"]
  /\ missing = 0 /\ cursor = 0 /\ manifest_asked = "never"
  /\ toHost = {} /\ toClient = {}

UpdateNext ==
  \/ PollManifest \/ PollChunks \/ ElapseManifest \/ SayDone \/ StopServing \/ LoseUpdate
  \/ \E i \in Chunks : Elapse(i)
  \/ \E told \in BOOLEAN : GiveUpFetch(told)
  \/ \E m \in toClient, again \in UpRepeats : OnMsg(m, again)
  \/ \E m \in toHost, again \in UpRepeats : Answer(m, again)

UpdateSpec == UpdateInit /\ [][UpdateNext]_updateVars

\* The loops poll and time passes; a request for what the client still lacks
\* that is sent again and again is answered, and such an answer arrives.  No
\* datagram stays on the way for ever.
Lacks(m) == \/ m.op = "Manifest" /\ state = "asking"
            \/ m.op = "Chunk" /\ m.index \notin have
            \/ m.op = "Unavailable"
AnswerOne == \E m \in toHost :
  Answer(m, FALSE) /\ \E r \in toClient' \ toClient : Lacks(r)
ReceiveLacking == \E m \in toClient : OnMsg(m, FALSE) /\ Lacks(m)
LeavesHost == (LoseUpdate \/ \E m \in toHost : Answer(m, FALSE)) /\ toHost' # toHost
LeavesClient == (LoseUpdate \/ \E m \in toClient : OnMsg(m, FALSE)) /\ toClient' # toClient
UpdateFairness ==
  /\ WF_updateVars(LeavesHost) /\ WF_updateVars(LeavesClient)
  /\ SF_updateVars(PollManifest \/ PollChunks)
  /\ WF_updateVars(ElapseManifest \/ \E i \in Chunks : Elapse(i))
  /\ SF_updateVars(AnswerOne) /\ SF_updateVars(ReceiveLacking)

-----------------------------------------------------------------------------
(* Properties *)

\* A download from a host with a newer package never ends in "the downloaded
\* file isn't the one the package describes": chunks that arrive twice, late or
\* out of order count once (on_msg, finish).
NoFalseFailure == state = "failed" => package # "newer"

\* Whatever is lost, on the way there or back, is asked for again until it
\* comes (Fetch::poll's cursor, RESEND_AFTER, MANIFEST_EVERY): an update ends,
\* unless one side leaves.
DownloadEnds == serving ~> (Finished \/ ~serving)
=============================================================================
