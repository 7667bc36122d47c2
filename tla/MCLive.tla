------------------------------- MODULE MCLive -------------------------------
(* What must happen in the end, each component on its own small instance     *)
(* under its own fairness: part says which of them a behaviour is about; the *)
(* others stand still, at rest (nothing to be downloaded, the view applied). *)
EXTENDS CopyStream, Input, Update, ViewFollow, Link, Console, SignIn

VARIABLE part

UpdateRests ==
  /\ package = "none" /\ serving = FALSE
  /\ state = "asking" /\ have = {} /\ asked = [i \in Chunks |-> "never"]
  /\ missing = 0 /\ cursor = 0 /\ manifest_asked = "never"
  /\ toHost = {} /\ toClient = {}
ViewRests ==
  /\ window = CHOOSE v \in Views : TRUE
  /\ view_told = window /\ views = {} /\ view = window /\ view_lock = FALSE
  /\ view_changed = FALSE /\ applied_view = window /\ follow = FALSE

LiveInit ==
  /\ part \in {"copy", "input", "update", "view", "link", "console", "signin"}
  /\ Init /\ InputInit /\ LinkInit /\ ConsoleInit /\ SignInit
  /\ IF part = "update" THEN UpdateInit ELSE UpdateRests
  /\ IF part = "view" THEN ViewInit ELSE ViewRests
  /\ part # "copy" => \A t \in Threads : width[t] = 0
  /\ part # "console" => \A s \in ConsoleSessions : console <= s

LiveNext ==
  /\ UNCHANGED part
  /\ \/ part = "copy" /\ Next /\ UNCHANGED <<inputVars, updateVars, viewVars, linkVars, consoleVars, signVars>>
     \/ part = "input" /\ InputNext /\ UNCHANGED <<vars, updateVars, viewVars, linkVars, consoleVars, signVars>>
     \/ part = "update" /\ UpdateNext /\ UNCHANGED <<vars, inputVars, viewVars, linkVars, consoleVars, signVars>>
     \/ part = "view" /\ ViewNext /\ UNCHANGED <<vars, inputVars, updateVars, linkVars, consoleVars, signVars>>
     \/ part = "link" /\ LinkNext /\ UNCHANGED <<vars, inputVars, updateVars, viewVars, consoleVars, signVars>>
     \/ part = "console" /\ ConsoleNext /\ UNCHANGED <<vars, inputVars, updateVars, viewVars, linkVars, signVars>>
     \/ part = "signin" /\ SignNext /\ UNCHANGED <<vars, inputVars, updateVars, viewVars, linkVars, consoleVars>>

LiveFairness ==
  \/ part = "copy" /\ Fairness
  \/ part = "input" /\ InputFairness
  \/ part = "update" /\ UpdateFairness
  \/ part = "view" /\ ViewFairness
  \/ part = "link" /\ LinkFairness
  \/ part = "console" /\ ConsoleFairness
  \/ part = "signin" /\ SignFairness

LiveSpec ==
  /\ LiveInit /\ [][LiveNext]_<<part, vars, inputVars, updateVars, viewVars, linkVars, consoleVars, signVars>>
  /\ LiveFairness
=============================================================================
