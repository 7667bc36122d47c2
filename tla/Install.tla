------------------------------- MODULE Install -------------------------------
(***************************************************************************)
(* Putting an update in place (crates/rdp-client/src/updater.rs: stage,     *)
(* staged, install, finish_update, replace_exe; their callers in            *)
(* hyper_client.rs and launcher/mod.rs).  Several rdpio processes run from  *)
(* one exe and share the staging folder and the file rdpio.exe.new; each    *)
(* may fetch a package newer than what it runs, and a finisher, the staged  *)
(* exe, puts itself in place once the process that spawned it has ended.    *)
(* File operations are atomic and interleave; processes do not crash.  A    *)
(* rename fails when its source is gone or its target is in use.            *)
(*                                                                         *)
(* SwapNoRestore is a plausible bug of Swap.                                *)
(***************************************************************************)
EXTENDS Naturals

CONSTANTS Procs,     \* rdpio processes, each with its finisher
          MaxVersion \* releases are 1..MaxVersion; 1 is installed

NoFile == 0
Releases == 1..MaxVersion

VARIABLES exe, update,       \* rdpio.exe and its manifest rdpio.exe.update
          exe_new,           \* rdpio.exe.new
          staged, bare,      \* the staging folder: packages, and exes whose manifest is not written yet
          at, runs, pkg,     \* a process: where it is, the version it runs, the package it took
          aside,             \* the exe a finisher moved aside
          newest,            \* history: the newest version that was installed
          swept              \* history: a cleanup deleted what a finisher had just moved aside

installVars == <<exe, update, exe_new, staged, bare, at, runs, pkg, aside, newest, swept>>
folder == <<exe, update, exe_new>>
Goto(p, where) == at' = [at EXCEPT ![p] = where]

\* staged(), also of cleanup(): every exe goes but the newest whole package
\* newer than what p runs.
Usable(p) == {v \in staged : v > runs[p]}
Best(p) == {v \in Usable(p) : \A w \in Usable(p) : w <= v}

\* A process starts from the installed exe; a launcher cleans up as it starts.
StartProcess(p) ==
  /\ at[p] = "off" /\ exe # NoFile
  /\ runs' = [runs EXCEPT ![p] = exe] /\ Goto(p, "running")
  /\ UNCHANGED <<folder, staged, bare, pkg, aside, newest, swept>>
InUse(v) == \E q \in Procs : at[q] \in {"running", "staging", "downloaded"} /\ runs[q] = v
CleanUp(p) ==
  /\ at[p] = "running"
  /\ staged' = Best(p) /\ bare' = {}
  /\ aside' = [q \in Procs |-> IF InUse(aside[q]) THEN aside[q] ELSE NoFile]
  /\ swept' = (swept \/ \E q \in Procs : at[q] = "swap" /\ aside'[q] # aside[q])
  /\ UNCHANGED <<folder, at, runs, pkg, newest>>

\* stage(): the exe under its own name, then its manifest.
StageExe(p, v) ==
  /\ at[p] = "running" /\ v > runs[p]
  /\ bare' = bare \union ({v} \ staged) /\ pkg' = [pkg EXCEPT ![p] = v] /\ Goto(p, "staging")
  /\ UNCHANGED <<folder, staged, runs, aside, newest, swept>>
StageManifest(p) ==
  /\ at[p] = "staging" /\ Goto(p, "downloaded")
  /\ staged' = staged \union (bare \intersect {pkg[p]}) /\ bare' = bare \ {pkg[p]}
  /\ UNCHANGED <<folder, runs, pkg, aside, newest, swept>>

\* install(): spawn the exe just staged (update_from_host, the launcher), or,
\* as a session ends, the best there is (InstallOnExit).
InstallStaged(p) ==
  /\ at[p] = "downloaded"
  /\ Goto(p, IF pkg[p] \in staged \union bare THEN "finishing" ELSE "off")
  /\ UNCHANGED <<folder, staged, bare, runs, pkg, aside, newest, swept>>
InstallOnExit(p) ==
  /\ at[p] = "downloaded"
  /\ staged' = Best(p) /\ bare' = {}
  /\ IF Best(p) = {} THEN Goto(p, "off") /\ UNCHANGED pkg
     ELSE \E v \in Best(p) : pkg' = [pkg EXCEPT ![p] = v] /\ Goto(p, "finishing")
  /\ UNCHANGED <<folder, runs, aside, newest, swept>>

\* finish_update: once the old process has ended, only a signed package goes on.
FinishUpdate(p) ==
  /\ at[p] = "finishing"
  /\ Goto(p, IF pkg[p] \in staged THEN "copy" ELSE "off")
  /\ UNCHANGED <<folder, staged, bare, runs, pkg, aside, newest, swept>>

\* replace_exe, an operation at a time.
Installed(v) == exe' = v /\ newest' = IF v > newest THEN v ELSE newest
Copy(p) ==
  /\ at[p] = "copy" /\ exe_new' = pkg[p] /\ Goto(p, "rename")
  /\ UNCHANGED <<exe, update, staged, bare, runs, pkg, aside, newest, swept>>
Rename(p, busy) ==
  /\ at[p] = "rename"
  /\ IF busy \/ exe_new = NoFile
     THEN Goto(p, "move") /\ UNCHANGED <<exe, exe_new, newest>>
     ELSE Installed(exe_new) /\ exe_new' = NoFile /\ Goto(p, "manifest")
  /\ UNCHANGED <<update, staged, bare, runs, pkg, aside, swept>>
MoveAside(p) ==
  /\ at[p] = "move"
  /\ IF exe = NoFile
     THEN Goto(p, "off") /\ exe_new' = NoFile /\ UNCHANGED <<exe, aside>>
     ELSE Goto(p, "swap") /\ aside' = [aside EXCEPT ![p] = exe] /\ exe' = NoFile /\ UNCHANGED exe_new
  /\ UNCHANGED <<update, staged, bare, runs, pkg, newest, swept>>
\* The second rename; when it fails, the old exe is moved back.
SwapNoRestore(p, fails) ==
  /\ at[p] = "swap"
  /\ IF fails \/ exe_new = NoFile
     THEN exe' = exe /\ exe_new' = NoFile /\ Goto(p, "off") /\ UNCHANGED newest
     ELSE Installed(exe_new) /\ exe_new' = NoFile /\ Goto(p, "manifest")
  /\ aside' = [aside EXCEPT ![p] = NoFile]
  /\ UNCHANGED <<update, staged, bare, runs, pkg, swept>>
Swap(p, fails) ==
  /\ at[p] = "swap"
  /\ IF fails \/ exe_new = NoFile
     THEN exe' = (IF aside[p] = NoFile THEN exe ELSE aside[p]) /\ exe_new' = NoFile /\ Goto(p, "off") /\ UNCHANGED newest
     ELSE Installed(exe_new) /\ exe_new' = NoFile /\ Goto(p, "manifest")
  /\ aside' = [aside EXCEPT ![p] = NoFile]
  /\ UNCHANGED <<update, staged, bare, runs, pkg, swept>>
WriteManifest(p) ==
  /\ at[p] = "manifest" /\ update' = pkg[p] /\ Goto(p, "off")
  /\ UNCHANGED <<exe, exe_new, staged, bare, runs, pkg, aside, newest, swept>>

InstallInit ==
  /\ exe = 1 /\ update = 1 /\ exe_new = NoFile /\ staged = {} /\ bare = {}
  /\ at = [p \in Procs |-> "off"] /\ runs = [p \in Procs |-> 1] /\ pkg = [p \in Procs |-> 1]
  /\ aside = [p \in Procs |-> NoFile] /\ newest = 1 /\ swept = FALSE

InstallNext ==
  \E p \in Procs :
    \/ StartProcess(p) \/ CleanUp(p) \/ StageManifest(p)
    \/ \E v \in Releases : StageExe(p, v)
    \/ InstallStaged(p) \/ InstallOnExit(p) \/ FinishUpdate(p)
    \/ Copy(p) \/ MoveAside(p) \/ WriteManifest(p)
    \/ \E fails \in BOOLEAN : Rename(p, fails) \/ Swap(p, fails)

InstallSpec == InstallInit /\ [][InstallNext]_installVars

-----------------------------------------------------------------------------
\* Whoever installs at the same time and whatever fails, there is an exe in
\* place, except while a finisher is between its two renames, or when a
\* cleanup took the exe it would have moved back.
ExeThere == exe = NoFile => swept \/ \E p \in Procs : at[p] = "swap"

\* No downgrades: an installed version is never replaced by an older one.
NoDowngrade == exe \in {NoFile, newest}
=============================================================================
