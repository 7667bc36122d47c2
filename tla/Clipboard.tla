----------------------------- MODULE Clipboard -----------------------------
(***************************************************************************)
(* The clipboard two PCs of a stream share (crates/rdp-client/src/          *)
(* hyper_clipboard.rs).  A window hears of every change of its PC's         *)
(* clipboard, and sends what is not its own writing: text at once, files by *)
(* a worker thread, numbered so that a newer transfer ends an older one.    *)
(* Another thread applies what arrives: text and finished files it writes,  *)
(* files still on their way it has the window offer, as virtual files.      *)
(*                                                                         *)
(* The agent of a host runs as SYSTEM, to which Windows does not show the   *)
(* paths of files a user copied: a helper that runs as the user lists them. *)
(*                                                                         *)
(* A copy is a number, in the order people made them; images go as text     *)
(* does.  Messages of a lane arrive in order (Reliable, CopyStream).  Left  *)
(* out: files promised as a list of paths (promise_hdrop, by a SYSTEM agent *)
(* whose COM objects the user may not call), names too long to be offered,  *)
(* and what a paste reads meanwhile.                                        *)
(*                                                                         *)
(* NotLookedAgain is a plausible bug of Unmoved.                            *)
(***************************************************************************)
EXTENDS Naturals, Sequences, FiniteSets

CONSTANTS Pcs, Files,      \* the two PCs; what files people copy
          System,          \* the PCs whose rdpio runs as SYSTEM
          Bare,            \* those of them without data: folders, empty files
          PIECES,          \* how many pieces of data the others have
          OverTcp,         \* do files go over the copy stream, beside the link?
          MaxCopies,       \* bound: copies people make
          MaxOfFiles       \* bound: of them, copies of files

ASSUME ClipboardAssumption ==
  /\ \E p, q \in Pcs : p # q /\ Pcs = {p, q}
  /\ System \subseteq Pcs /\ Bare \subseteq Files /\ PIECES \in Nat \ {0} /\ OverTcp \in BOOLEAN /\ MaxCopies \in Nat

VARIABLES what, by,                \* each copy: text or which files, and made where
          board, number, notes,    \* Windows: what is on the clipboard, its sequence number, notifications queued
          virtual,                 \* is it there as virtual files, without their paths (no CF_HDROP)?
          ours, locked,            \* OUR_SEQ; its lock: who holds it, for what copy
          seen,                    \* the window: the change it is dealing with
          workers,                 \* threads of send_files
          transfer, sending,       \* TRANSFER, SENDING
          lanes,                   \* on the way from each PC
          incoming,                \* the copy being received
          promised, posts, failed  \* PROMISED, its messages to the window, transfers given up

people == <<what, by>>
windows_ == <<board, number, notes, virtual>>
sender_ == <<seen, workers, transfer, sending>>
receiver_ == <<incoming, promised, posts, failed>>
clipboardVars == <<people, windows_, ours, locked, sender_, lanes, receiver_>>

Peer(p) == CHOOSE q \in Pcs : q # p
Idle == [seq |-> 0, copy |-> 0, left |-> 0, plain |-> FALSE]
Free == [by |-> "none", copy |-> 0, before |-> 0]
Nothing == [transfer |-> 0, copy |-> 0, got |-> 0]
NotSending == [transfer |-> 0, what |-> "text", staged |-> 0]
Pieces(item) == IF item \in Bare THEN 0 ELSE PIECES
FileLane == IF OverTcp THEN "tcp" ELSE "link"

ClipboardInit ==
  /\ what = <<>> /\ by = <<>>
  /\ board = [p \in Pcs |-> 0] /\ number = [p \in Pcs |-> 1] /\ notes = [p \in Pcs |-> 0] /\ virtual = [p \in Pcs |-> FALSE]
  /\ ours = [p \in Pcs |-> 0] /\ locked = [p \in Pcs |-> Free]
  /\ seen = [p \in Pcs |-> Idle] /\ workers = {}
  /\ transfer = [p \in Pcs |-> 0] /\ sending = [p \in Pcs |-> NotSending]
  /\ lanes = [p \in Pcs |-> [l \in {"link", "tcp"} |-> <<>>]]
  /\ incoming = [p \in Pcs |-> Nothing] /\ promised = [p \in Pcs |-> Nothing]
  /\ posts = [p \in Pcs |-> <<>>] /\ failed = [p \in Pcs |-> {}]

\* Windows: the clipboard changes, and its listener will be told.
Put(p, c, v) ==
  /\ board' = [board EXCEPT ![p] = c] /\ virtual' = [virtual EXCEPT ![p] = v]
  /\ number' = [number EXCEPT ![p] = @ + 1]
  /\ notes' = [notes EXCEPT ![p] = @ + 1]

PersonCopies(p, item) ==
  /\ Len(what) < MaxCopies
  /\ item \in Files => Cardinality({c \in DOMAIN what : what[c] \in Files}) < MaxOfFiles
  /\ what' = Append(what, item) /\ by' = Append(by, p)
  /\ Put(p, Len(by'), FALSE)
  /\ UNCHANGED <<ours, locked, sender_, lanes, receiver_>>

-----------------------------------------------------------------------------
\* The window: WM_CLIPBOARDUPDATE.

Goes(p, l, m) == lanes' = [lanes EXCEPT ![p][l] = Append(@, m)]

\* local_change: judged under the lock a write of ours holds until it has
\* recorded its number.  (left tells two notifications of a change apart.)
LocalChange(p) ==
  /\ notes[p] > 0 /\ seen[p] = Idle /\ locked[p] = Free
  /\ notes' = [notes EXCEPT ![p] = @ - 1]
  /\ seen' = [seen EXCEPT ![p] = IF number[p] = ours[p] THEN Idle ELSE [Idle EXCEPT !.seq = number[p], !.left = notes'[p]]]
  /\ UNCHANGED <<people, board, number, virtual, ours, locked, workers, transfer, sending, lanes, receiver_>>

\* The paths of files (CF_HDROP) are on the clipboard; as SYSTEM a process is
\* shown only those it wrote itself.
Listed(p) == board[p] # 0 /\ what[board[p]] \in Files /\ ~virtual[p]
ShowsPaths(p) == Listed(p) /\ (p \in System => by[board[p]] # p)

\* Files are left to a thread; text is read.  As SYSTEM what cannot be read may
\* be files.
Worker(p) == [pc |-> p, seq |-> seen[p].seq, left |-> seen[p].left, at |-> "paths", copy |-> 0, transfer |-> 0, sent |-> 0]
SendFiles(p) == workers' = workers \union {Worker(p)} /\ seen' = [seen EXCEPT ![p] = Idle]
LookForFiles(p) ==
  /\ seen[p].seq # 0 /\ ~seen[p].plain
  /\ IF ShowsPaths(p) THEN SendFiles(p) ELSE UNCHANGED workers /\ seen' = [seen EXCEPT ![p].plain = TRUE]
  /\ UNCHANGED <<people, windows_, ours, locked, transfer, sending, lanes, receiver_>>
ReadClipboard(p) ==
  /\ seen[p].plain /\ seen[p].copy = 0
  /\ \/ /\ board[p] # 0 /\ what[board[p]] = "text"
        /\ UNCHANGED workers /\ seen' = [seen EXCEPT ![p].copy = board[p]]
     \/ IF p \in System THEN SendFiles(p) ELSE UNCHANGED workers /\ seen' = [seen EXCEPT ![p] = Idle]
  /\ UNCHANGED <<people, windows_, ours, locked, transfer, sending, lanes, receiver_>>

\* Is what was read what was judged?
NotLookedAgain(p, seq) == TRUE
Unmoved(p, seq) == number[p] = seq
SendText(p) ==
  /\ seen[p].copy # 0 /\ seen' = [seen EXCEPT ![p] = Idle]
  /\ IF Unmoved(p, seen[p].seq)
     THEN Goes(p, "link", [kind |-> "text", transfer |-> 0, copy |-> seen[p].copy])
     ELSE UNCHANGED lanes
  /\ UNCHANGED <<people, windows_, ours, locked, workers, transfer, sending, receiver_>>

-----------------------------------------------------------------------------
\* send_files, a thread for every copy of files.

Steps(w, next) == workers' = (workers \ {w}) \union {next}
Leaves(w) == workers' = workers \ {w}
Item(w) == what[w.copy]

\* copied_paths: the list, if it still is that change's (or it never comes).
CopiedPaths(w) ==
  /\ w.at = "paths" /\ w.pc \notin System
  /\ \/ Listed(w.pc) /\ Unmoved(w.pc, w.seq)
        /\ Steps(w, [w EXCEPT !.at = "same", !.copy = board[w.pc]])
     \/ Leaves(w)
  /\ UNCHANGED <<people, windows_, ours, locked, seen, transfer, sending, lanes, receiver_>>

\* paths_from_user: the helper looks whether the clipboard moved on, then reads
\* the list; if it is not there yet, it looks again.
HelperLooks(w) ==
  /\ w.at = "paths" /\ w.pc \in System
  /\ \/ Unmoved(w.pc, w.seq) /\ Steps(w, [w EXCEPT !.at = "read"])
     \/ Leaves(w)
  /\ UNCHANGED <<people, windows_, ours, locked, seen, transfer, sending, lanes, receiver_>>
HelperReads(w) ==
  /\ w.at = "read"
  /\ \/ Listed(w.pc) /\ Steps(w, [w EXCEPT !.at = "same", !.copy = board[w.pc]])
     \/ Steps(w, [w EXCEPT !.at = "paths"])
     \/ Leaves(w)
  /\ UNCHANGED <<people, windows_, ours, locked, seen, transfer, sending, lanes, receiver_>>

\* What SENDING holds: where the files are, which is where the user has them
\* or where a paste staged them.
Paths(w) == [transfer |-> w.transfer, what |-> Item(w), staged |-> IF by[w.copy] = w.pc THEN 0 ELSE w.copy]
SameFiles(w) ==
  /\ w.at = "same"
  /\ IF sending[w.pc] = [Paths(w) EXCEPT !.transfer = transfer[w.pc]]
     THEN Leaves(w) /\ UNCHANGED sending
     ELSE Steps(w, [w EXCEPT !.at = "number"]) /\ sending' = [sending EXCEPT ![w.pc] = NotSending]
  /\ UNCHANGED <<people, windows_, ours, locked, seen, transfer, lanes, receiver_>>
TakeTransfer(w) ==
  /\ w.at = "number"
  /\ transfer' = [transfer EXCEPT ![w.pc] = @ + 1]
  /\ Steps(w, [w EXCEPT !.at = "note", !.transfer = transfer'[w.pc]])
  /\ UNCHANGED <<people, windows_, ours, locked, seen, sending, lanes, receiver_>>
NoteSending(w) ==
  /\ w.at = "note" /\ Steps(w, [w EXCEPT !.at = "announce"])
  /\ sending' = [sending EXCEPT ![w.pc] = Paths(w)]
  /\ UNCHANGED <<people, windows_, ours, locked, seen, transfer, lanes, receiver_>>

\* send_files_now: the files' list, then their data for as long as no newer
\* transfer has begun; or they cannot be read.
Announce(w) ==
  /\ w.at = "announce"
  /\ Steps(w, [w EXCEPT !.at = "data"])
  /\ Goes(w.pc, FileLane, [kind |-> "list", transfer |-> w.transfer, copy |-> w.copy])
  /\ UNCHANGED <<people, windows_, ours, locked, seen, transfer, sending, receiver_>>
SendChunk(w) ==
  /\ w.at = "data" /\ transfer[w.pc] = w.transfer /\ w.sent < Pieces(Item(w))
  /\ Steps(w, [w EXCEPT !.sent = @ + 1])
  /\ Goes(w.pc, FileLane, [kind |-> "data", transfer |-> w.transfer, copy |-> w.copy])
  /\ UNCHANGED <<people, windows_, ours, locked, seen, transfer, sending, receiver_>>
Stops(w) ==
  /\ w.at \in {"announce", "data"}     \* all sent, superseded, or unreadable
  /\ Steps(w, [w EXCEPT !.at = "over"])
  /\ UNCHANGED <<people, windows_, ours, locked, seen, transfer, sending, lanes, receiver_>>
ForgetSending(w) ==
  /\ w.at = "over" /\ Leaves(w)
  /\ sending' = [sending EXCEPT ![w.pc] = IF @.transfer = w.transfer THEN NotSending ELSE @]
  /\ UNCHANGED <<people, windows_, ours, locked, seen, transfer, lanes, receiver_>>

-----------------------------------------------------------------------------
\* The applier: apply_now, of the message at the head of a lane.

Head_(p, l) == lanes[Peer(p)][l][1]
Taken(p, l) == lanes' = [lanes EXCEPT ![Peer(p)][l] = Tail(@)]
Abandoned(p) == failed' = [failed EXCEPT ![p] = IF incoming[p] = Nothing THEN @ ELSE @ \union {incoming[p].transfer}]

\* write_clipboard takes the lock and writes, unless another program keeps the
\* clipboard open; then it reads the number, and claims it if what is there is
\* what it wrote.
Write(p, c) ==
  /\ locked[p] = Free /\ locked' = [locked EXCEPT ![p] = [by |-> "write", copy |-> c, before |-> number[p]]]
  /\ Put(p, c, FALSE) \/ UNCHANGED windows_
WriteRecorded(p) ==
  /\ locked[p].by = "write" /\ locked' = [locked EXCEPT ![p] = Free]
  /\ ours' = IF number[p] # locked[p].before /\ board[p] = locked[p].copy THEN [ours EXCEPT ![p] = number[p]] ELSE ours
  /\ UNCHANGED <<people, windows_, sender_, lanes, receiver_>>

ApplyText(p, l) ==
  /\ Head_(p, l).kind = "text" /\ Taken(p, l) /\ Write(p, Head_(p, l).copy)
  /\ UNCHANGED <<people, ours, sender_, receiver_>>

\* A list supersedes the copy being received, is refused, is all there is, or
\* begins a copy that the window is to offer.
ApplyList(p, l) ==
  LET m == Head_(p, l)
      in == [transfer |-> m.transfer, copy |-> m.copy, got |-> 0]
  IN
  /\ m.kind = "list" /\ Taken(p, l) /\ Abandoned(p)
  /\ \/ /\ incoming' = [incoming EXCEPT ![p] = Nothing]
        /\ UNCHANGED <<promised, posts>>
        /\ \/ Pieces(what[m.copy]) = 0 /\ Write(p, m.copy)
           \/ UNCHANGED <<windows_, locked>>
     \/ /\ Pieces(what[m.copy]) > 0
        /\ incoming' = [incoming EXCEPT ![p] = in] /\ promised' = [promised EXCEPT ![p] = in]
        /\ posts' = [posts EXCEPT ![p] = Append(@, m.transfer)]
        /\ UNCHANGED <<windows_, locked>>
  /\ UNCHANGED <<people, ours, sender_>>

\* file_chunk: data of another copy is ignored; the last of this one's writes
\* it; data that cannot be written gives it up.
ApplyChunk(p, l) ==
  LET m == Head_(p, l) IN
  /\ m.kind = "data" /\ Taken(p, l)
  /\ CASE incoming[p].transfer # m.transfer -> UNCHANGED <<incoming, failed, windows_, locked>>
       [] OTHER ->
            \/ /\ incoming[p].got + 1 < Pieces(what[m.copy])
               /\ incoming' = [incoming EXCEPT ![p].got = @ + 1] /\ UNCHANGED <<failed, windows_, locked>>
            \/ /\ incoming[p].got + 1 = Pieces(what[m.copy])
               /\ incoming' = [incoming EXCEPT ![p] = Nothing] /\ UNCHANGED failed /\ Write(p, incoming[p].copy)
            \/ incoming' = [incoming EXCEPT ![p] = Nothing] /\ Abandoned(p) /\ UNCHANGED <<windows_, locked>>
  /\ UNCHANGED <<people, ours, sender_, promised, posts>>

\* offer_promised, on the window's thread: what is promised is taken, offered
\* if it is what the message is about, and the number recorded.
OfferPromised(p) ==
  /\ posts[p] # <<>> /\ seen[p] = Idle /\ locked[p] = Free
  /\ posts' = [posts EXCEPT ![p] = Tail(@)] /\ promised' = [promised EXCEPT ![p] = Nothing]
  /\ \/ /\ promised[p].transfer = posts[p][1] /\ posts[p][1] \notin failed[p]
        /\ Put(p, promised[p].copy, TRUE)
        /\ locked' = [locked EXCEPT ![p] = [by |-> "offer", copy |-> promised[p].copy, before |-> number[p]]]
     \/ UNCHANGED <<windows_, locked>>
  /\ UNCHANGED <<people, ours, sender_, lanes, incoming, failed>>
OfferRecorded(p) ==
  /\ locked[p].by = "offer" /\ locked' = [locked EXCEPT ![p] = Free]
  /\ ours' = [ours EXCEPT ![p] = number[p]]
  /\ UNCHANGED <<people, windows_, sender_, lanes, receiver_>>

-----------------------------------------------------------------------------
Window(p) ==
  \/ LocalChange(p) \/ LookForFiles(p) \/ ReadClipboard(p) \/ SendText(p)
  \/ OfferPromised(p) \/ OfferRecorded(p)
Sending(w) ==
  \/ CopiedPaths(w) \/ HelperLooks(w) \/ HelperReads(w) \/ SameFiles(w) \/ TakeTransfer(w) \/ NoteSending(w)
  \/ Announce(w) \/ SendChunk(w) \/ Stops(w) \/ ForgetSending(w)
Apply(p, l) == lanes[Peer(p)][l] # <<>> /\ (ApplyText(p, l) \/ ApplyList(p, l) \/ ApplyChunk(p, l))

ClipboardNext ==
  \/ \E p \in Pcs, item \in Files \union {"text"} : PersonCopies(p, item)
  \/ \E p \in Pcs : Window(p) \/ WriteRecorded(p) \/ \E l \in {"link", "tcp"} : locked[p].by # "write" /\ Apply(p, l)
  \/ \E w \in workers : Sending(w)
ClipboardSpec == ClipboardInit /\ [][ClipboardNext]_clipboardVars

-----------------------------------------------------------------------------
\* What a PC sends was copied there: "Our own writes are recognised by the
\* clipboard sequence number, so a paste never echoes back" (hyper_clipboard.rs).
NothingSentBack ==
  \A p \in Pcs, l \in {"link", "tcp"} :
    \A i \in DOMAIN lanes[p][l] : by[lanes[p][l][i].copy] = p

\* Whatever falls between writes, offers, copies and notifications, a PC sends
\* back nothing that came from its peer, but for the files a SYSTEM agent's
\* helper lists, which looks before it reads and not after (OUR_SEQ,
\* local_change, write_clipboard, offer_promised, wndproc, copied_paths).
OnlyListedFilesSentBack ==
  \A p \in Pcs, l \in {"link", "tcp"} :
    \A i \in DOMAIN lanes[p][l] :
      \/ by[lanes[p][l][i].copy] = p
      \/ p \in System /\ lanes[p][l][i].kind # "text"
=============================================================================
