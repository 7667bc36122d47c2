------------------------------- MODULE MCHost -------------------------------
(* What the host keeps across streams and processes, and the loss repair,    *)
(* each on its own small instance: part says which of them a behaviour is    *)
(* about; the others stand still in their initial states.                    *)
EXTENDS Repair, CopySession, Update, Install, Console, SignIn, Clipboard

VARIABLE part

HostInit ==
  /\ part \in {"repair", "copy", "update", "install", "console", "signin", "clipboard"}
  /\ RepairInit /\ Init /\ UpdateInit /\ InstallInit /\ ConsoleInit /\ SignInit /\ ClipboardInit
  /\ part # "update" => package = "none"
  /\ part # "console" => \A s \in ConsoleSessions : console <= s

HostNext ==
  /\ UNCHANGED part
  /\ \/ part = "repair" /\ RepairNext /\ UNCHANGED <<vars, updateVars, installVars, consoleVars, signVars, clipboardVars>>
     \/ part = "copy" /\ Next /\ UNCHANGED <<repairVars, updateVars, installVars, consoleVars, signVars, clipboardVars>>
     \/ part = "update" /\ UpdateNext /\ UNCHANGED <<repairVars, vars, installVars, consoleVars, signVars, clipboardVars>>
     \/ part = "install" /\ InstallNext /\ UNCHANGED <<repairVars, vars, updateVars, consoleVars, signVars, clipboardVars>>
     \/ part = "console" /\ ConsoleNext /\ UNCHANGED <<repairVars, vars, updateVars, installVars, signVars, clipboardVars>>
     \/ part = "signin" /\ SignNext /\ UNCHANGED <<repairVars, vars, updateVars, installVars, consoleVars, clipboardVars>>
     \/ part = "clipboard" /\ ClipboardNext
        /\ UNCHANGED <<repairVars, vars, updateVars, installVars, consoleVars, signVars>>

HostSpec ==
  HostInit /\ [][HostNext]_<<part, repairVars, vars, updateVars, installVars, consoleVars, signVars, clipboardVars>>
=============================================================================
