# RDPiO: a verification project in TLA+

RDPiO is a Remote Desktop client written in Rust, with a streaming protocol of
its own ("Hyper", `docs/hyper.md`) between two machines that both run it.  This
directory holds TLA+ models of its protocol logic, TLC configurations that check
them on small instances, and TLAPS proofs for all instances.

## 1. Inventory

| Part | Source | State it keeps | Operations | What is hard |
|---|---|---|---|---|
| Reliable channel | `crates/rdp-hyper/src/reliable.rs` | sender queue, transmission numbers, congestion window; receiver `cum`, `pending`, partial message, ack batching | `send`, `poll`, `on_ack`, `on_data`, `ack` | loss, reordering, repeated and stale acks, retransmission timeouts, spans measured from different ends |
| Sealed datagrams | `wire.rs` | send counter, replay window | `seal`, `open` (`check`, `fresh`, `accept`, `shift`) | reordering at the window's edge, replays, sessions of another version |
| Input | `input.rs` | unacknowledged events, next id; receiver's applied id | `push` (merging motion), `packets`, `capped_packets`, `ack`, `receive` | loss without retransmission timers, merging what may already be on the wire |
| Video frames | `video.rs` | slots of frames in flight, `base`, `next` | `packetize`, `push`, `rebuild`, `complete` | reordering across frames, FEC, giving up on the right frames |
| Long-term references | `ltr.rs` | two reference slots, repairs of the last second | `plan`, `sent`, `acked` | the host repairs from a picture the client must hold; acks and encodes race |
| Audio | `audio.rs`, `hyper_audio.rs`, `playout.rs` | next sequence number, loss counters; playout buffer and its target | `push`, `fill`, `splice` | reordering, restarts, concealment, numbers that wrap |
| Stream control | `pause.rs`, `hyper_host.rs`, `hyper_client.rs`, `autores.rs`, `backlog.rs`, `liveness.rs`, `rate.rs` | flags shared by capture loop and receive thread, the pipeline a pause lets go, the view | `PauseRelease::step`, the capture loop, the client's asking | flags read one at a time between stores, messages that cross, flapping |
| Sign-in | `auth.rs`, `hyper_direct.rs`, `hyper_client.rs` | cookies, lockouts, pending attempts, the hello of a returning client | `host_respond`, `SignIn::handle`, `tick`, `comeback`, `connect_direct` | repeated and overtaken handshake datagrams, guesses side by side, a stream still running to the client's old self |
| Console service and agent | `hyper_direct.rs`, `hyper_host.rs`, `crash.rs` | stop event, agent process, marker file of an unlocked console | `supervise`, `hand_off`, `stop_agent`, `recover_after_crash` | the agent dying anywhere, a stop at the wrong moment, the console moving |
| Updates | `update.rs`, `updater.rs`, `hyper_direct.rs` | chunks fetched and wanted; the staging folder and the exe | `Serve::answer`, `Fetch::poll`, `on_msg`, `finish`; `stage`, `install`, `finish_update`, `replace_exe` | loss, a host that changes its mind, several processes over one exe, renames that fail |
| Bulk over TCP | `bulk_tcp.rs`, `hyper_tcp.rs`, `hyper_link.rs` | per-connection counters, reorder buffer, which session is current | seal, open, stripe, reorder, end of session | a connection dying in the middle of a stripe, the pump's wake-ups |
| Clipboard of a stream | `hyper_clipboard.rs` | the number our last write left, the newest transfer, the copy being received, the one promised | `local_change`, `send_files`, `apply_now`, `write_clipboard`, `offer_promised` | three kinds of threads over a clipboard every program changes, echoes, transfers that supersede each other |
| Client and host sessions | `hyper_client.rs`, `hyper_host.rs`, `hyper_direct.rs` (rdp-client) | threads, held frames, reconnects | receive and send loops | thread interleavings, reconnects |
| RDP channels | `rdp-channels/*` | open channels, device tables, clipboard format lists | `drdynvc`, `rdpdr`, `cliprdr`, `rdpsnd`, ... | requests and answers that cross |
| RDP transport and sign-in | `rdp-pdu`, `rdp-nla`, `connect.rs`, `udp.rs` | connection sequence, CredSSP state, RDP-UDP windows | connection phases, `rdpudp` | ordering, wrap-around |
| Codecs | `rdp-graphics`, `fec.rs` | decoder history and caches | decode | pure data transformations |
| Platform | `rdp-gpu`, `drivers/`, `android/`, `rdp-webrtc`, windows, audio devices | device objects | rendering, encoding | outside TLC's reach: drivers and operating-system interfaces |

How they interact.  A client signs in (`auth.rs`, `hyper_direct.rs`) and gets a
`Session` key; from then on every datagram is sealed and opened by `wire.rs`.
The host's encode loop (`hyper_host.rs`) plans each picture with `Ltr`, cuts the
coded frame into shards (`video.rs`) and sends them; the client's receive thread
hands shards to the `Reassembler`, its decode loop (`hyper_client.rs`) decodes,
asks for a repair or a keyframe after a loss, and reports the newest kept frame
it decoded.  Input goes the other way (`input.rs`), repeated until the host's
status datagram acknowledges it.  Clipboard contents, cursor shapes and files go
over two reliable channels that one pump thread drives (`hyper_link.rs`), or, on
a LAN, files over the striped TCP stream (`hyper_tcp.rs`), whose current
instance is process-wide state that connecting threads, reader and writer
threads and the session's end all change.

A client whose stream breaks off signs in again, from a new port, while the host
may still stream to the old one: the stream's receive thread keeps its hello, and
the agent's loop ends the stream and answers it.  Around the agent a Windows
service starts, moves, stops and replaces it, and either side may fetch and put in
place the other's newer exe.  The classic RDP client shares none of this; of it,
the parts that order and reassemble (RDP-UDP, dynamic channels) are modelled.

What makes a component correct, in a line each: the reliable channel delivers
whole messages in order, once, and never wedges, and its pump never sleeps
through what is due; a sealed datagram is opened at most once and none that is
fresh is refused; the host's keyboard, pointer and fingers end up where the
client's are; a video frame is reported once, in order, and delivered exactly
when it is whole; a decoder is never given a frame without its references; a
window that is seen gets its picture, and of its size; sound is decoded in order,
and heard again after any break; a copy arrives in order or stops at a hole; a
session's end ends its stream; a download ends whole, and an exe is there
whatever fails; a console that a stream unlocked is locked; wrong passwords are
rationed, and who knows the password comes back; RDP-UDP hands up the stream and
forgets nothing unacknowledged; a dynamic channel's messages are whole and its own;
a clipboard's contents are never sent back to where they came from (as code that
runs as SYSTEM can: section 8).

## 2. Plan

Written, in the order of how much of the system rests on them:

1. `MessageChannel` (abstract), `Reliable` (implements it).
2. `Wire`, with the code's bitmap in `WireShift`.
3. `Input`.
4. `Reassembler`, then `Repair`, which uses its promise (frames in order, some
   lost) and joins host loop, encoder and client loop.
5. `CopySession` and `CopyStream`.
6. `Update` and `Install`.
7. `StreamControl` and `ViewFollow`: the flags between the host's threads.
8. `AudioOrder`, `RdpUdp`, `Dvc`.
9. `Link`: the pump that gives `Reliable` the fairness its liveness needs.
10. `Console` and `SignIn`.
11. `Clipboard`, both ends.

The proofs are in eight modules, each about components that are alike:

| Proofs | about |
|---|---|
| `ReliableProofs` | Reliable, and that it implements MessageChannel |
| `DatagramProofs` | Wire, WireShift, RdpUdp, AudioOrder, Reassembler |
| `ChannelProofs` | Dvc, Input |
| `HostProofs` | CopySession, Repair |
| `StreamProofs` | Link, StreamControl, CopyStream |
| `UpdateProofs` | Install, Update |
| `ConsoleProofs` | Console, SignIn |
| `ClipboardProofs` | Clipboard |

Next: pastes that read files while they arrive, the RDP clipboard (`cliprdr`) and `rdpdr`'s outstanding requests; the
threads of a session and their stopping order; `install_update` with `Console`;
the lockout's table when it is full.

Every safety invariant and action property of the passing runs, and the refinement,
have a theorem (section 6).  One more could follow: an abstract stream that
`RdpUdp` and `CopyStream` both implement.

## 3. Modules and the code they model

Definitions keep the source's names; `PROJECT.json` maps each to its lines.  An
operator with a name such as `UnambiguousAlways`, placed just before the one it
is a variant of, is a plausible bug of it (a dropped guard, an off-by-one); it
is not used by the specification, and replacing the original by it makes TLC
find the property violated that `PROJECT.json` names with it.

**Reliable.**  `next_seq`, `queue`, `next_tx`, `acked_tx`, `recovery_tx`,
`cwnd`, `ssthresh`, `wide` are the fields of `Sender`; `cum`, `pending`,
`partial`, `oversize`, `unacked`, `urgent` those of `Receiver`; `data` and
`acks` are the datagrams in flight.  `Send`, `Poll`, `DeliverAck` (`on_ack`),
`DeliverData` (`on_data`) and `Ack` are whole calls; `LoseData`, `LoseAck` and
the flag `again` are the link.  A chunk's payload is its number.  Time is
choice: which chunks have timed out, what the pacing budget allows, whether a
round trip shows a queue, whether the ack delay has passed.  So the model has
every timing the code could meet, and some it could not; safety holds for all.
`MessageChannel` is what users of the channel rely on.

**Wire.**  `send_seq`, `recv_top`, `recv_window`, `recv_any` are `Session`'s
fields in one direction.  A datagram carries its header and whether it still
authenticates.  `Open` checks version and freshness, authenticates, and only
then moves the window.  `WireShift` is `shift` as the code does it, word by word
in place.

**Input.**  `pending`, `next_seq`, `sent` are `InputSender`'s fields, `applied`
`InputReceiver`'s.  `Push` merges motion into the newest event if it has not
left yet; `Packets` and `CappedPackets` send; `Receive` applies what is next and
stops at a gap.  `client` and `host` are the states the events drive, kept to
say that nothing is lost, repeated or bent.

**Reassembler.**  `Push` is one call of `push` with a shard: older frames are
refused, a frame too new moves `base` and gives frames up, a shard is stored
once, and a whole frame completes and resolves all before it.  Frame ids wrap
at `IDS` (2^32 in the code) and runs start just below the wrap.

**Repair.**  `ltr` is `Ltr`; `Encode` is one turn of the host's encode loop
(plan, encode, take what came out, note what was sent); `Reopen` an encoder
rebuilt after an error; `TakeAsk` and `TakeReport` the host's receive loop;
`Receive`, `Restart`, `NewDecoder`, `Ask` and `Report` the client's decode loop
and its feedback.  The encoder and the decoder's reference pictures are
external: modelled from how the loops use them.  `HELD` is how many pictures an
encoder keeps back before it returns one.

**CopySession, CopyStream.**  `CopySession` splits every operation at the points
where another thread can come between: the last look at `SESSION`, the start of
the threads, the registration in `CURRENT`; the two steps of `BulkTcp::end` and
of `end_session`.  `CopyStream` is one direction of one stream, a thread's
`send` split between taking a number and queueing.

**Update, Install.**  `Update` joins `Fetch` (what it has, when it asked for
what, its cursor) with `Serve` and the loops that drive them; the host may have
no package, or an older one.  A chunk asked for less than 400 ms
ago is `fresh` until `Elapse`.  `Install` takes the staging folder, the exe and
`rdpio.exe.new` as the files they are, with one action per file operation, for
several processes at once; a rename fails if its source is gone or its target in
use.

**StreamControl, ViewFollow.**  The capture loop's turn is as many actions as it
reads and writes flags the receive thread also writes (`paused`, `want_key`;
`view` and its flag).  `PauseRelease` is a record; the client's window, its
telling and asking, and the messages between are the rest.  The rate limit of
keyframe requests and the collapsing of those already answered are part of
`TakeKeyframeRequest`; clocks are "long enough ago or not".

**AudioOrder.**  `Sequencer::push` with redundancy, restarts and silence, over
packets that are lost and overtaken; numbers wrap at `SEQS`.

**RdpUdp.**  `Connection` with its handshake, reorder buffer, acknowledgements
and retransmission buffer, and the driver's loop, against an external peer; both
ends' numbers wrap.  Contents of writes, round trips and the congestion window
are left out.

**Dvc.**  `GraphicsChannel` routes the PDUs of dynamic channels by id and
`Reassembler` joins their fragments; a server (external) opens, mixes, closes and
recycles.  `MidClose` says whether it may close a channel in mid-message.

**Link.**  The pump's turn in its four steps (check, poll, send, wait), the
callers' two (change, then notify after unlocking).  A lane is what it may send,
has unacknowledged and holds back.

**Console.**  The service's loop and the agent's life, each step that touches the
stop event, the marker or the lock an action of its own.  The agent may die
anywhere, with its last words or without; waits may time out.  `screen` says who
opened a session's console.

**SignIn.**  `attempt` is `SignIn.pending`; `strikes` and `blocked` the address'
entry of `Lockout`; `RETURNING`, `RETURNING_SET` and `COMEBACK` the statics of
the same names, each written in its own step.  `listening` is where the agent's
loop is.  A key stands for a challenge, and a client gets it if it answers its
hello and the passwords agree; what it seals with another key does not open.

**Clipboard.**  `ours` is `OUR_SEQ` and `locked` its lock; `board` and `number` are
Windows' clipboard and its sequence number, `notes` the notifications still to be
delivered.  The window's handling of one is split where it looks (judge, read,
look again); a thread of `send_files` takes a step for each static it touches;
`Write` and `WriteRecorded`, `OfferPromised` and `OfferRecorded` are the two halves
of what is done under the lock.  A copy is a number in the order people make them;
text and images are alike.  A write may fail, a list be refused, and a file not be
readable, at any time.  `System` is which PCs' processes run as SYSTEM, as the
agent of a host does: Windows shows them no paths of files but those they wrote,
so `LookForFiles` passes a copy of files by, `ReadClipboard` finds nothing to read,
and a helper that runs as the user lists the paths, in the order of the code: it
looks (`HelperLooks`), then reads (`HelperReads`), while `CopiedPaths`, without
SYSTEM, reads and then looks.  `virtual` says that what is offered has no paths yet.

**Suites.**  `MCDatagrams`, `MCHost` and `MCLive` each check several components
that do not interact, each on its own instance: the variable `part` says which of
them a behaviour is about, and the others stand still.  Where a component has
more than one initial state, those that stand still have one, at rest, so that
the properties that something must happen do not speak of what has not begun.

## 4. Runs

| Run | Question | Bounds |
|---|---|---|
| `reliable` | Whole messages in order, once; nothing forgotten, refused or resent after its ack; refinement of `MessageChannel`; over a timely link the channel drains | 3 chunks, spans 1 and 2, 2 datagrams each way, messages of up to 2 chunks with a limit of 1; 4 transmissions over a link that may do anything, 9 and 2 losses over a timely one |
| `datagrams` | What arrives lost, late, twice or in pieces is taken once, in order and whole | Wire: 3 words of 2 bits, 8 numbers; Input: 3 events of every kind; Reassembler: 5 frames, 3 slots, ids that wrap; AudioOrder: 10 packets, 3 runs of the sender; RdpUdp: 3 datagrams of the peer, 2 writes; Dvc: 2 ids, 3 channels, 3 messages of up to 3 fragments |
| `host` | What outlives a frame, a stream or a process is sound | Repair: 5 pictures, 2 slots, 1 frame on its way, requests and reports as late as they like, `HELD = 0`; CopySession: 3 sessions; Update: 3 chunks; Install: 2 processes, 3 versions; Console: 2 sessions, 3 sign-ins, 2 deaths, 1 restart; SignIn: wrong passwords from 3 ports, 4 challenges, 1 block that ends; Clipboard: 2 copies, one of files, of no piece or two, over the copy stream, the host as SYSTEM |
| `live` | What must happen does | CopyStream: 2 threads, 2 connections, 6 records; Input: 3 events; Update: 2 chunks; ViewFollow: 2 sizes; Link: 2 lanes, 2 callers; Console: 1 sign-in, 1 death; SignIn: 5 sign-ins, 2 losses |
| `stream_control` | The picture comes back: one rebuild, a keyframe, and no pause behind a window that is seen | one message of a kind to the host, one keyframe on its way |
| `repair_held_back` | `PictureSound` with an encoder that holds one picture back: violated | 4 pictures, `HELD = 1` |
| `copy_session_ended` | An ended session leaves no stream: violated | 3 sessions |
| `no_downgrade` | An update is never replaced by an older one: violated | 2 processes, 3 versions |
| `dvc_recycled_id` | Messages whole, with channels closed in mid-message: violated | as in `datagrams`, 2 names |
| `console_signin` | Recovery locks what a dead agent left open, with streams that begin at the sign-in screen: violated | 2 sign-ins, 1 death |
| `clipboard_system` | A PC sends back nothing that came from its peer, with a host that runs as SYSTEM: violated | 2 copies of files |
| `signin_charged` | Only wrong passwords are charged, with datagrams that repeat: violated | 1 client, 3 challenges |

Why the bounds are enough.  Each is past the point where its mechanism acts:
more chunks than a span, more numbers than the replay window, more frames than
slots, more records than the queues of a connection take, more pictures than
reference slots, more chunks than an answer carries, more ports than attempts in
flight, ids across the wrap, and room for a datagram to be overtaken while others
pass.  With less, the variants described in section 3 go unnoticed; with these,
every one is found.  Bounds on the network limit what is in flight at a time,
never what may be lost, repeated or overtaken.

`CHECK_DEADLOCK FALSE` is set everywhere, for every run ends when its bounds are
used up and all is delivered; that nothing stops early is what the liveness
properties say.

## 5. Fairness

* Reliable: the pump polls, acknowledges and hands on what arrives for as
  long as the connection lives (`hyper_link.rs`, `spawn_pump`), so each is weakly
  fair; that the pump indeed wakes is `NotSleptThrough` of `Link`.  `Drains` speaks
  of the timely one of `MCReliable`'s two links.  There losses are bounded, for a
  link that loses everything drains nothing, and timeouts fire only once the link
  is empty, because the timeout is longer than a round trip and the ack delay.
* Input: the client's loop resends what is pending on a timer; the
  path does not lose for ever what is sent again and again (strong fairness of
  arrival).  The resend is strongly fair since the bound on the network may make
  it wait for room the real path always has.
* CopyStream: writers and readers are threads that run while they can; nothing
  is assumed of when connections break.
* Update: both loops run, time passes, and of the datagrams sent again and again
  one arrives; losses are otherwise free.
* ViewFollow, StreamControl: the host's and the client's loops run; a message
  told again and again arrives in the end (strong fairness of its arrival, weak
  fairness of everything that runs).  `TakeKeyframe` and the encoding that
  follows a request are strongly fair since a pause may come between.
* Link: the pump thread runs, and its wait ends by a notification or its timeout.
* Console: service and agent take their steps, and a `Look` that finds the
  console without an agent, and the launch, succeed if tried again and again.
  Waits may time out at will, deaths are bounded.
* SignIn: client and agent run, and what is on its way arrives or is lost (two
  losses at most).  `ComesBack` also assumes answers within the 1.5 s a client
  waits (`Timely`): a client gives up only when nothing more is coming, and the
  network does not repeat.  What happens otherwise is `signin_charged`.

## 6. What is proved

TLAPS proves every safety property of the passing runs, for every value of the
constants that satisfies the named assumptions, each declared in its component's
module:

* `ReliableProofs`: `TypeOK`, `NoChunkForgotten`, `NeverNonsense`,
  `AckedTxArrived`, `NoResendOfAcked`, and `RefinesChannel`: `Reliable` implements
  `MessageChannel`.  `ReliableAssumption` says only that spans, windows and
  limits are naturals, the ones that must be positive are, and
  `SPAN <= WIDE_SPAN`.
* `DatagramProofs`: `OpenedOnce`, `WindowExact` and `ShiftsEveryBit`, for every
  window made of whole words; `StreamExact`, `AckedWasDelivered` and
  `KeptUntilTaken` of `RdpUdp`; `DecodedInOrder` and `HeardAgain` of `AudioOrder`;
  `InOrderOnce` and `DeliveredExactly` of `Reassembler`.  `RdpUdpAssumption`,
  `AudioAssumption` and `ReassemblerAssumption` keep a connection, a sound stream
  and a video stream shorter than half of their numbers: 2^31 datagrams or
  frames in the code.  The theorems start anywhere in the number space, and
  wrap; beyond that length numbers are ambiguous to a packet that is late enough,
  and nothing is claimed.  That a ring's size divides the number of ids is
  `IDS % MAX_IN_FLIGHT = 0`, as it does in the code (both are powers of two).
* `ChannelProofs`: `RoutedRight` of `Dvc`, `MessagesWhole` under `~MidClose` (the
  run `dvc_recycled_id` shows that it fails without), and `HostCatchesUp` of
  `Input`.
* `HostProofs`: `EndsOnlyItself` of `CopySession`, for any number of sessions;
  `PictureSound` of `Repair` under `HELD = 0`, that is for encoders that hold
  nothing back (`repair_held_back` refutes it for others).
* `StreamProofs`: `NotSleptThrough` of `Link`, for any number of lanes and calling
  threads and any window; `PipelineThere` of `StreamControl`; `InOrder` of
  `CopyStream`, for any number of senders and connections.
* `UpdateProofs`: `ExeThere` of `Install`, for any number of processes and
  releases; `NoFalseFailure` of `Update`, for any number of chunks.
* `ConsoleProofs`: `OpenIsMarked`, `NewcomerUntouched` and `RecoveryLocks` of
  `Console` for any number of sessions, sign-ins, deaths and restarts, under the
  hypothesis `~FromSignIn`; the run `console_signin` shows that the last fails
  without it.  `StopStaysSet` without any; and `GuessesRationed` of `SignIn`, for
  any number of clients and any limits.
* `ClipboardProofs`: `OnlyListedFilesSentBack` of `Clipboard`, for any number of
  copies, files and pieces, and `NothingSentBack` under `System = {}`; the run
  `clipboard_system` shows that it fails without.  `ClipboardAssumption` says there
  are two PCs.  With one copy of files the run `host` cannot mistake a list for
  another where nobody is SYSTEM; that `copied_paths` never does is the theorem's.

*The argument for Reliable.*  `IInv` adds to those four what each needs of the
others.  `NoChunkForgotten` alone is not inductive: an ack may be old, so the
proof needs that acks in flight never claim more than the receiver holds now
(`AcksTruthful`), which holds because what is held stays held.  `NeverNonsense`
compares the sender's span, measured from its first unacknowledged chunk, with
the receiver's `cum`, which is at least as far (`FrontReceived`, from
`NoChunkForgotten` and the queue's contiguity).  `AckedTxArrived` needs that a
chunk sent at most once was received through that very transmission
(`SentOnce`), that transmission numbers are fresh (`TxBound`) and that nothing
is received that was not queued (`OnlySent`).  `PendingShape` keeps the
receiver's map within its window.  There is a lemma per action; `OnAckIInv` is
the longest.

*Reliable implements MessageChannel.*  The mapping is a fold over the messages'
chunks, which the prover cannot follow by induction; `MessagesKept` says instead
where every message's chunks are.  The messages sent cut the chunk numbers into
intervals; wherever a chunk is (queue, link, `pending`) its first and last flags
say where its message begins and ends; what is being assembled is the beginning
of the current message up to `cum`, and what was handed up are the messages before
it that fit.  A call of `on_data` hands up a run of chunks; its closed form is
reached by the least number at which the recursive function and the intervals
would differ.

*The argument for Wire.*  `WindowExact` is inductive with the types, and
`OpenedOnce` follows from it: a number that is fresh is not among the opened
ones (`AcceptExact`, by cases on whether it is the first, newer than the top, or
within the window).  For `WindowShiftsEveryBit` the loop goes from the highest
word down, and a turn reads no word that an earlier turn changed; so the loop's
result is each word's own turn on the words as they were, of which bit
arithmetic shows that bit `b` is bit `b - n`.

*The argument for RdpUdp.*  The next number due is that of the datagram after
what was delivered (`NextInLine`), what is held back lies beyond a gap (`Beyond`),
and what is on the way to the peer acknowledges no more than was delivered
(`FromClient`).  So a datagram is taken as new, held or old as its place in the
stream says, since two numbers less than half of all apart compare as their
places do.  The lemmas about numbers that wrap (`RemainderUnique`, `WrapPlus`,
`WrapMinus`) serve the three components that have such numbers.

*The argument for AudioOrder.*  There is a moment `b` at which the sender last
started; every packet on the way was captured after it, and its number follows
from when (`SentSince`).  What was heard last is of this start, and then the next
number follows it, or of an earlier one (`HeardOf`).  The packets dropped since the
restart have different numbers just behind the next one (`DroppedOf`), so
there are at most `RESTART_BEHIND` of them.  An earlier form of the model counted
on across a second restart, which it should not; no run had three starts, and
the proof did not go through.  The count now begins with each start and the run
has three.

*The argument for Reassembler.*  `VideoAt` names the oldest frame in flight, `B`.
Within the window different frames have different slots; a slot of the window
holds every shard that came of its frame, a block's until it has enough.  The events
cut the frames before `B` into consecutive pieces (`CutAt`); what is reported as a
frame had enough, and every frame that had is reported as one (`DeliveredAt`).
Each round of the two loops of `push` (giving up what leaves the window, resolving
what a whole frame overtakes) keeps this for the state it works on (`FlightAt`).

*The argument for Dvc.*  An id has one owner, the one its channel was opened for,
as long as it is open (`Ownership`); what is kept of an id is what the server has
sent of the message it is sending, as long as the server ends its messages before
it closes their channel (`InStep`).

*The argument for Input.*  There is a sequence of states, from the host's to the
client's, in which each pending event leads from one to the next (`Trace`), and
packets carry those events (`Carried`).  A merge changes only the last event, and
only if it was never sent, so no packet carries an older form of it.  A packet is
applied from the first event the host lacks; the fold over it is shown to follow
`Trace` by the least place where it would leave it.

*The argument for Repair.*  What `Ltr` says a slot keeps, the encoder keeps, and
no frame on the path after it changes that slot; once the client said, or may
still say, that it decoded the frame, it has it there, unless it lost its decoder
since and waits for a keyframe (`SlotsSound`).  So a repair coded from an
acknowledged slot finds its picture when it gets there, past every frame before
it (`RepairsSound`), and a plain frame finds the one before while the client
waits for nothing (`Following`).  `HELD = 0` enters through `InStep`: the host's
plan and the encoder's slots never differ between two steps.

*The argument for CopyStream.*  Every number given out is in exactly one place: in
a thread's hand, in one connection's queue or bytes, held at the receiver, or
handed on (`LanesApart`, `TakenApart`, `Outstanding`).  So what arrives was never
handed on, and draining hands on an interval of numbers that begins with `next`.

*The argument for StreamControl.*  `PipelineThere` is inductive by itself: whatever
the receive thread stores, only the capture loop lets a pipeline go, in the step
that also notes it, and rebuilds it before it goes on.

*The argument for Update.*  The count of what is missing is that of the chunks not
there (`CountsMissing`), so a chunk that comes twice ends nothing early; and what
the host says of its package, the same for as long as it serves, is true also
when it comes late (`HostHonest`).

*The argument for SignIn.*  Each guess tested is a strike, or belongs to an attempt
that is still pending and will be one; attempts are limited, none begins in a
block, and what is pending as a block begins is all that can strike before it
ends (`Rationed`).

*The argument for CopySession.*  A stream that is about to look at `CURRENT` was
marked dead first (`EndsDeadFirst`), so what its `end` takes out of `CURRENT` is
never a stream that works; only `TakeCurrent` takes one of those.

*The argument for Install.*  A finisher between its renames holds the exe it moved
aside, unless a cleanup has deleted it (`AsideKept`): so a failed second rename
has something to put back.

*The argument for Link.*  `NotSleptThrough` is inductive with the counts' types:
a poll moves chunks from queued to unsettled, which leaves the backlog as it was,
and the wait is computed after it; whoever adds to a lane has a notification to
give.

*The argument for Clipboard.*  While nobody holds the lock, a number that is not
recorded as ours belongs to a copy made here (`Recorded`); while somebody writes,
that holds until the write, and after it what is there is what was written or a copy
made here.  So what `local_change` judges is local, and stays so as long as the
number does (`Judged`), which the window and the thread of `send_files` look at
again after they have read.  A helper that has looked (a thread at "read") may list
anything, so of what a SYSTEM agent's threads send only that they are files is kept
(`Listing`, `Sendable`); text goes from the window, which looks again everywhere.

*The argument for Console.*  `OpenIsMarked` needs that what is open is on the
console and signed in (`OpenOnConsole`), and that the marker is the agent's own
until it has locked (`MarkerIsOwn`); `RecoveryLocks` follows from `NothingLeft`,
that where the marker is about to be removed nothing of a stream is open.
`PersonFresh`, that a person's sign-in is never the marker's, gives
`NewcomerUntouched`.  `SessionKnown` follows the session number from `Look`
through the hand-off to the launch.  `StopStaysSet` is inductive.

## 7. What is only model-checked

Liveness (`Drains`, `AllApplied`, `AllArrive`, `DownloadEnds`, `ViewFollowed`,
`LeftIsLocked`, `ComesBack`, `KeyframeComes`, `NotLeftPaused`), since the prover
handles neither fairness nor ENABLED: these hold on the instances above and under
the fairness of section 5.  The properties of the runs that expect a violation are
refuted there; where one holds under a hypothesis, the theorem above names it.

The arguments of section 6 that follow a loop or a fold use a least or greatest
counterexample, from the well-foundedness of the naturals, in place of induction.

## 8. Findings

* **A copy stream outlives its session** (`copy_session_ended`).  `start_with`
  sets `CURRENT` without looking at `SESSION` again, so an `end_session` between
  a caller's last look and that line leaves the ended session's stream in use
  until its peer closes it or the next session registers or ends.
* **A repair from references a keyframe has cleared** (`repair_held_back`).
  `Ltr` clears its slots when the keyframe leaves the encoder, not when it is
  planned.  With an encoder that holds pictures back, a plan made in between
  chooses a slot that will be gone, and flags the frame as decodable after loss.
  With an encoder that returns each picture at once (`HELD = 0`) this cannot
  happen, which is what `PictureSound` in `host` shows.
* **A downgrade by a late finisher** (`no_downgrade`).  `finish_update` puts in
  place what it is, without looking at what has been installed since it was
  staged.
* **Fragments outlive their channel** (`dvc_recycled_id`).  A dynamic channel
  closed in mid-message leaves its fragments to the next one with its id.
* **A console opened from the sign-in screen stays open** (`console_signin`).
  The marker names the sign-in there was before the stream, at the sign-in screen
  none, and recovery then leaves the console alone.
* **A paste sent back by a SYSTEM host** (`clipboard_system`).  The helper that lists
  copied files for the agent compares the sequence number before it reads the list
  and not after; a list of files from the client that is written in between is
  announced to the client as a copy made at the host.  `OnlyListedFilesSentBack` in
  `host` says that nothing else is ever sent back.
* **The right password charged as a wrong one** (`signin_charged`).  A repeated
  or overtaken hello replaces the attempt of a client that already has its
  challenge; its ping no longer opens.  One such hello costs one strike of five
  and the saved password; the client's next try succeeds.

Observed while modelling, without a run of their own:

* `ltr.rs:13` says a third repair within a second is a keyframe, while `plan`
  codes three and the fourth is one; `video.rs:10` says an older frame missing
  pieces is declared lost when a newer one completes, while before the first
  completed frame it is dropped without an event (`complete` starts from the
  frame itself).
* A receiver's `held` map is bounded by back-pressure for one copy, but not while
  a superseded copy's thread still waits with a number in hand beside the new one.
* An agent that dies within 30 s of its start, and a stop before it is started
  again, leave a console it opened to the next agent, for `stop_agent` is then
  not called.
* A crash between the two renames of `replace_exe` leaves no exe (a failure of
  the second is undone, which is what `ExeThere` shows).  A
  finisher's cleanup may remove what another finisher is about to rename.
  `install_update` resets the stop event without looking at it again, as
  `hand_off` does.
* `serve_update` may run for 600 s, beyond the 20 s grace of a console held open.
* Only `send_files` takes a new transfer number.  Text copied after files does not
  end their transfer, although "a newer copy cancels it"
  (`hyper_clipboard.rs:622-623`): the finished files replace the newer text at the
  peer.  And `list_files`, which may be slow, comes between taking a number and
  sending the list, without a look at `TRANSFER`: an older copy's list can follow a
  newer one's, and ends it at the receiver.
* `offer_promised` takes `PROMISED` before it looks whose it is, so the message of
  an older copy drops a newer promise; it claims the clipboard's number without
  looking at the contents, so a copy made in that instant is not sent.
* Comments in `rdpudp.rs` call the first key of a map the oldest number, which
  past the wrap it is not; `build_data` writes no source-sequence header.
* What a lockout lets through while its block begins is one attempt more than
  `MAX_PENDING_PER_IP`: the hello whose start-over charges the last strike was
  looked up before the strike (`GuessesRationed` counts it).

* `stop_agent` says of a killed agent that "its marker may be gone already (cleared
  before the display is put back and the console locked)"
  (`hyper_direct.rs:941-942`).  The agent's code has the other order, lock and then
  `clear_streaming`, which is what `OpenIsMarked` says and what `stop_agent` itself
  relies on at line 970; disconnecting the killed agent's session when
  there is no marker is harmless.
* `stop_agent` disconnects the session of the child it was given, not the one the
  marker names.  If the stop comes during a hand-off and the console returns to the
  old session meanwhile, a stream may begin there before its agent is killed; the
  service then starts an agent in the session it read before, and if that one dies
  and no other can be started, the session that is open is not the one disconnected.
  `LeftIsLocked` excludes this stop, and one without a child; its other stops, with
  every failure of the recovery, are checked.

## 9. What is not modelled

Pixel and sample processing (codecs, erasure arithmetic, playout), cryptography
(abstracted to whether a datagram or record opens, and to which keys agree),
encodings without state, device and operating-system interfaces, user interface,
and third-party code under `vendor/`: together most of the repository's lines.
`rate.rs` is floating-point control; only its collapsing of keyframe requests
takes part in a model.  `Backlog`, the liveness verdict and automatic resolution
decide by clocks and measurements alone.  The RDP connection sequence, device
redirection and the RDP clipboard talk to Windows on one end or both; what
of them is protocol is listed in section 2 as next.  The threads of a session are
modelled where they share state (StreamControl, ViewFollow, Link, CopySession,
SignIn), not as a whole.

Within modelled components: a marker file that cannot be read (a write cut short at
`hyper_host.rs:94`; `recover_after_crash` then locks its own session, the last arm at
line 157), so `marker` is whole or absent; a failure of the rename with which
`replace_exe` undoes a failed one (`updater.rs:288`), which leaves no exe until
somebody installs one; and files promised as a list of paths, which a SYSTEM agent
does where COM stays closed to the user (`promise_hdrop`).
