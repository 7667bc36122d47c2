---------------------------- MODULE StreamControl ----------------------------
(***************************************************************************)
(* Pausing a stream nobody sees and getting its picture back: the host's    *)
(* capture loop with the GPU pipeline a long pause lets go (pause.rs and    *)
(* stream() of hyper_host.rs), the host's receive thread, and the client    *)
(* loop that says whether its window is seen and asks for keyframes         *)
(* (hyper_client.rs).  The loop reads and writes the shared flags one at a  *)
(* time, between the receive thread's stores; messages are lost, late and   *)
(* overtaken.                                                               *)
(*                                                                         *)
(* Clocks are abstracted to "long enough ago or not", the switches are free *)
(* at every look, and frames are keyframes or others.  Requests for repairs *)
(* are Repair's; a pipeline that cannot be reopened ends the stream.        *)
(***************************************************************************)
EXTENDS Naturals, FiniteSets

VARIABLES
  \* shared by the host's threads
  paused, keyframe, key_wait,
  \* the capture loop: where it is, what it has read, what it holds
  loop, saw_paused, want_key, since, released, pipe, picture, fresh,
  \* the receive thread: the store it still owes
  owes,
  \* the client: its window, what it told last, whether it waits for a keyframe
  hidden, told_hidden, awaiting,
  \* on the way
  up,                    \* messages to the host
  down                   \* whether a keyframe is on its way to the client

shared == <<paused, keyframe, key_wait>>
capture == <<loop, saw_paused, want_key, since, released, pipe, picture, fresh>>
viewer == <<hidden, told_hidden, awaiting>>
controlVars == <<shared, capture, owes, viewer, up, down>>

Messages == {"KeyframeRequest", "hidden", "shown"}

-----------------------------------------------------------------------------
(* PauseRelease *)

\* Let go, and still nothing to show.
Waits(key, on) == saw_paused /\ ~key /\ on
\* Long enough paused to let go.
LetsGo(key, on) == saw_paused /\ on /\ ~key /\ since = "long"

\* Nothing is let go.
NothingReleasedOrShown == released = "no" \/ ~saw_paused
NothingReleased == released = "no"

\* The loop's first look.  (saw_paused and want_key are locals of a pass: they
\* are reset where they are no longer read.)
LookPaused ==
  /\ loop = "top" /\ loop' = "step" /\ saw_paused' = paused
  /\ UNCHANGED <<shared, want_key, since, released, pipe, picture, fresh, owes, viewer, up, down>>

\* PauseRelease::step returned Wait: the loop sleeps, at most half a second.
StepWait(on) ==
  /\ loop = "step" /\ released # "no" /\ Waits(keyframe, on)
  /\ loop' = "top" /\ saw_paused' = FALSE
  /\ UNCHANGED <<shared, want_key, since, released, pipe, picture, fresh, owes, viewer, up, down>>

\* ... Rebuild: what was let go comes back, starting with a keyframe.
StepRebuild(on) ==
  /\ loop = "step" /\ released # "no" /\ ~Waits(keyframe, on)
  /\ loop' = "top" /\ saw_paused' = FALSE
  /\ since' = IF saw_paused THEN "recent" ELSE "no"
  /\ released' = "no" /\ pipe' = "open" /\ picture' = FALSE /\ fresh' = TRUE
  /\ keyframe' = TRUE
  /\ UNCHANGED <<paused, key_wait, want_key, owes, viewer, up, down>>

\* ... Release: the encoder, or all of the pipeline.
StepRelease(on, what) ==
  /\ loop = "step" /\ NothingReleased /\ LetsGo(keyframe, on)
  /\ loop' = "top" /\ saw_paused' = FALSE
  /\ released' = what /\ pipe' = (IF what = "Encoder" THEN "no encoder" ELSE "gone") /\ picture' = FALSE
  /\ UNCHANGED <<shared, want_key, since, fresh, owes, viewer, up, down>>

\* ... Run.
StepRun(on) ==
  /\ loop = "step" /\ NothingReleased /\ ~LetsGo(keyframe, on)
  /\ loop' = "follow" /\ saw_paused' = FALSE
  /\ since' = IF ~saw_paused THEN "no" ELSE IF since = "no" THEN "recent" ELSE since
  /\ UNCHANGED <<shared, want_key, released, pipe, picture, fresh, owes, viewer, up, down>>

\* RELEASE_AFTER goes by.
PauseElapses ==
  /\ since = "recent" /\ since' = "long"
  /\ UNCHANGED <<shared, loop, saw_paused, want_key, released, pipe, picture, fresh, owes, viewer, up, down>>

-----------------------------------------------------------------------------
(* The rest of the capture loop *)

\* A new capture and encoder, with a keyframe where the code asks for one.
NewPipeline(key) ==
  /\ loop' = "top" /\ want_key' = FALSE
  /\ pipe' = "open" /\ picture' = FALSE /\ fresh' = TRUE
  /\ keyframe' = (keyframe \/ key)
  /\ UNCHANGED <<paused, key_wait, saw_paused, since, released, owes, viewer, up, down>>

\* Another mode, refresh rate or view.
FollowMode == loop = "follow" /\ NewPipeline(TRUE)

\* The wish for a keyframe is taken from the receive thread.
TakeKeyframe ==
  /\ loop = "follow" /\ loop' = "capture"
  /\ want_key' = keyframe /\ keyframe' = FALSE
  /\ UNCHANGED <<paused, key_wait, saw_paused, since, released, pipe, picture, fresh, owes, viewer, up, down>>

\* Capture fails too often, or encoding does.
CaptureFails == loop = "capture" /\ NewPipeline(TRUE)
\* The desktop's size changed.
SizeChanged == loop = "capture" /\ NewPipeline(FALSE)

\* Paused, and no keyframe wanted.
NoOneSees == paused /\ ~want_key

\* Capture goes on, nothing is encoded; then it waits for a wake-up or half a second.
CapturePaused(new) ==
  /\ loop = "capture" /\ NoOneSees
  /\ loop' = "top" /\ picture' = (picture \/ new)
  /\ UNCHANGED <<shared, saw_paused, want_key, since, released, pipe, fresh, owes, viewer, up, down>>

\* No picture to encode: a wanted keyframe stays wanted.  A frame that is
\* skipped for pacing counts as a picture at hand.
CaptureNothing(new) ==
  /\ loop = "capture" /\ ~NoOneSees /\ ~(want_key /\ (picture \/ new))
  /\ loop' = "top" /\ picture' = (picture \/ new)
  /\ keyframe' = (keyframe \/ want_key) /\ want_key' = FALSE
  /\ UNCHANGED <<paused, key_wait, saw_paused, since, released, pipe, fresh, owes, viewer, up, down>>

\* A picture (a new one, or the last again) is encoded and sent.  A new
\* encoder starts with a keyframe.
CaptureEncode(new) ==
  LET key == want_key \/ fresh IN
  /\ loop = "capture" /\ ~NoOneSees /\ (picture \/ new)
  /\ loop' = "top" /\ want_key' = FALSE /\ picture' = TRUE /\ fresh' = FALSE
  /\ key_wait' = (key_wait \/ key) /\ down' = (down \/ key)
  /\ UNCHANGED <<paused, keyframe, saw_paused, since, released, pipe, owes, viewer, up>>

-----------------------------------------------------------------------------
(* The receive thread *)

Took(m) == owes = "none" /\ m \in up /\ up' = up \ {m}

\* Control::KeyframeRequest, collapsed while a keyframe is on its way; the
\* pause ends in a store of its own.
TakeKeyframeRequest ==
  /\ Took("KeyframeRequest")
  /\ keyframe' = (keyframe \/ ~key_wait) /\ owes' = "unpause"
  /\ UNCHANGED <<paused, key_wait, capture, viewer, down>>
EndPause ==
  /\ owes = "unpause" /\ owes' = "none" /\ paused' = FALSE
  /\ UNCHANGED <<keyframe, key_wait, capture, viewer, up, down>>

\* Control::Paused; hidden is not believed while input comes (used).
TakePaused(m, used) ==
  /\ m \in {"hidden", "shown"} /\ Took(m)
  /\ paused' = (m = "hidden" /\ ~used)
  /\ UNCHANGED <<keyframe, key_wait, capture, owes, viewer, down>>

\* Input, perhaps late: someone sees the stream.
TakeInput ==
  /\ owes = "none" /\ paused /\ paused' = FALSE
  /\ UNCHANGED <<keyframe, key_wait, capture, owes, viewer, up, down>>

\* RateController::key_in_flight: a keyframe is waited for at most so long.
KeyWaitNoTimeout == FALSE /\ UNCHANGED controlVars
KeyWaitTimeout ==
  /\ key_wait /\ key_wait' = FALSE
  /\ UNCHANGED <<paused, keyframe, capture, owes, viewer, up, down>>

-----------------------------------------------------------------------------
(* The client *)

\* The window is hidden or shown.
Toggle ==
  /\ hidden' = ~hidden
  /\ UNCHANGED <<shared, capture, owes, told_hidden, awaiting, up, down>>

\* Control::Paused on a change, and every second: shown again, a keyframe is
\* waited for.
TellOnChange ==
  /\ hidden # told_hidden /\ told_hidden' = hidden
  /\ up' = up \union {IF hidden THEN "hidden" ELSE "shown"}
  /\ awaiting' = (awaiting \/ ~hidden)
  /\ UNCHANGED <<shared, capture, owes, hidden, down>>
Tell ==
  /\ told_hidden' = hidden
  /\ up' = up \union {IF hidden THEN "hidden" ELSE "shown"}
  /\ awaiting' = (awaiting \/ (told_hidden /\ ~hidden))
  /\ UNCHANGED <<shared, capture, owes, hidden, down>>

\* While a keyframe is awaited it is asked for, again and again.
AskKeyframe ==
  /\ awaiting /\ up' = up \union {"KeyframeRequest"}
  /\ UNCHANGED <<shared, capture, owes, viewer, down>>

\* The keyframe arrives or is lost; the feedback that counts it (fed) may be
\* lost too.
Resolve(fed) ==
  /\ down /\ down' = FALSE /\ key_wait' = (key_wait /\ ~fed)
  /\ UNCHANGED <<paused, keyframe, capture, owes, hidden, told_hidden, up>>
ReceiveKey(fed) == Resolve(fed) /\ awaiting' = FALSE
LoseKey(fed) == Resolve(fed) /\ awaiting' = TRUE
\* Another frame is lost, does not decode, or a backlog is thrown away.
LoseDelta ==
  /\ ~awaiting /\ awaiting' = TRUE
  /\ UNCHANGED <<shared, capture, owes, hidden, told_hidden, up, down>>

LoseMessage(m) ==
  /\ m \in up /\ up' = up \ {m}
  /\ UNCHANGED <<shared, capture, owes, viewer, down>>

-----------------------------------------------------------------------------
\* The client's first request is on its way as the loop begins.
ControlInit ==
  /\ paused = FALSE /\ keyframe = TRUE /\ key_wait = FALSE
  /\ loop = "top" /\ saw_paused = FALSE /\ want_key = FALSE /\ since = "no" /\ released = "no"
  /\ pipe = "open" /\ picture = FALSE /\ fresh = TRUE
  /\ owes = "none" /\ hidden = FALSE /\ told_hidden = FALSE /\ awaiting = TRUE
  /\ up = {"KeyframeRequest"} /\ down = FALSE

\* One pass of the capture loop, in steps.
LoopStep ==
  \/ LookPaused \/ TakeKeyframe \/ FollowMode
  \/ \E on \in BOOLEAN : StepWait(on) \/ StepRebuild(on) \/ StepRun(on)
  \/ \E on \in BOOLEAN, what \in {"Encoder", "Pipeline"} : StepRelease(on, what)
  \/ CaptureFails \/ SizeChanged
  \/ \E new \in BOOLEAN : CapturePaused(new) \/ CaptureNothing(new) \/ CaptureEncode(new)

ControlNext ==
  \/ LoopStep \/ PauseElapses
  \/ TakeKeyframeRequest \/ EndPause \/ TakeInput \/ KeyWaitTimeout
  \/ \E m \in {"hidden", "shown"}, used \in BOOLEAN : TakePaused(m, used)
  \/ Toggle \/ Tell \/ AskKeyframe \/ LoseDelta
  \/ \E fed \in BOOLEAN : ReceiveKey(fed) \/ LoseKey(fed)
  \/ \E m \in Messages : LoseMessage(m)

ControlSpec == ControlInit /\ [][ControlNext]_controlVars

\* The loop runs, and does not reopen its pipeline for ever: it takes the
\* keyframe wish and, with a keyframe wanted, gets a picture (the displays are
\* nudged).  The client's loop tells and asks, time passes, and what is sent
\* again and again arrives.
ControlFairness ==
  /\ WF_controlVars(LoopStep) /\ SF_controlVars(TakeKeyframe)
  /\ SF_controlVars(want_key /\ CaptureEncode(TRUE))
  /\ WF_controlVars(EndPause) /\ WF_controlVars(KeyWaitTimeout)
  /\ WF_controlVars(Tell) /\ WF_controlVars(AskKeyframe)
  /\ SF_controlVars(TakeKeyframeRequest)
  /\ SF_controlVars(TakePaused("shown", FALSE)) /\ WF_controlVars(TakePaused("hidden", FALSE) \/ LoseMessage("hidden"))
  /\ SF_controlVars(\E fed \in BOOLEAN : ReceiveKey(fed))

-----------------------------------------------------------------------------
(* Properties *)

\* Past PauseRelease::step the loop always has a whole pipeline ("Always there
\* here"), whatever the receive thread changed since the flags were read, and
\* what was let go is remembered until it is rebuilt: one Rebuild for every
\* Release.
PipelineThere ==
  /\ (pipe = "open") <=> (released = "no")
  /\ loop \in {"follow", "capture"} => pipe = "open"

\* A client whose window is seen and that waits for a keyframe gets one:
\* through pauses, released pipelines, collapsed requests, lost keyframes and
\* late messages.
KeyframeComes == (awaiting /\ ~hidden) ~> (~awaiting \/ hidden)

\* "a late 'paused' can't leave the host paused behind a visible window"
\* (hyper_client.rs).
NotLeftPaused == (paused /\ ~hidden) ~> (~paused \/ hidden)
=============================================================================
