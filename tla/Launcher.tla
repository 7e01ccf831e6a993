------------------------------ MODULE Launcher ------------------------------
(***************************************************************************)
(* The npm launcher (npm/lib/install.js): before it runs crossmatrix-mcp,  *)
(* every launch makes sure that the binary of its version is in a cache    *)
(* directory shared by all launches of the user, and downloads it when it  *)
(* is not.  Launches exclude each other with a lock file; a launch may be  *)
(* killed or suspended, and a signal ends it with its handlers (and it     *)
(* cleans up) or without them, before they are there and after they went.  *)
(*                                                                         *)
(* The content of a file is `Good', the released binary, or not; a digest  *)
(* is the content it is the digest of.  The release serves one archive.    *)
(***************************************************************************)
EXTENDS Naturals, FiniteSets

CONSTANTS
  Launches,    \* processes that run the launcher
  HostOf,      \* the machine of each (a cache may be on a shared file system)
  None,        \* no file, no lock, no owner, no outcome
  MaxTroubles  \* bound on what goes wrong: see below

ASSUME LauncherAssumption ==
  /\ None \notin Launches
  /\ None \notin {"Good", "Corrupt", "Damaged"}
  /\ None \notin {"ran", "refused", "failed"}
  /\ None \notin [token: Launches, written: BOOLEAN, old: BOOLEAN]
  /\ MaxTroubles \in Nat

VARIABLES
  (* the cache directory *)
  final,     \* the binary
  verified,  \* .verified, the digest recorded for it
  lock,      \* the lock file
  workDirs,  \* the .download-* directories, by the process that made them
  (* each process *)
  pc,
  handlers,  \* its signal handlers are registered (cleanupOnSignals)
  holds,     \* it has a release function (state.release)
  archive,   \* what it has downloaded
  judged,    \* the text of the lock it has found stale
  outcome,
  (* what has gone wrong *)
  failures,  \* downloads that broke off or came corrupted
  kills,     \* processes killed outright
  signals,   \* signals received
  stalls,    \* live processes without heartbeat for longer than staleMs
  damages    \* cached binaries damaged

cache == <<final, verified, lock, workDirs>>
local == <<pc, handlers, holds, archive, judged, outcome>>
bounds == <<failures, kills, signals, stalls, damages>>
vars == <<cache, local, bounds>>

Trouble == failures + kills + signals + stalls + damages < MaxTroubles

\* token: who created the file; written: its owner has been written to it;
\* old: no heartbeat for longer than staleMs.
Lock == [token: Launches, written: BOOLEAN, old: BOOLEAN]

Owned(l) == [l EXCEPT !.written = TRUE]
Aged(l) == [l EXCEPT !.old = TRUE]
Renewed(l) == [l EXCEPT !.old = FALSE]

\* The text of the lock file: empty until its owner is written.
Raw(l) == IF l.written THEN l.token ELSE None

Alive(p) == pc[p] \notin {"idle", "ended", "killed"}

\* lockIsStale: by age, or by the death of an owner on the same machine.
Stale(p, l) ==
  \/ l.old
  \/ l.written /\ HostOf[l.token] = HostOf[p] /\ ~Alive(l.token)

Goes(p, from, to) == pc[p] = from /\ pc' = [pc EXCEPT ![p] = to]

\* From here on the work directory, the handlers, the lock, the process go.
Leaves(p, with) ==
  /\ pc' = [pc EXCEPT ![p] = "leave"]
  /\ outcome' = [outcome EXCEPT ![p] = with]

-----------------------------------------------------------------------------
(* ensureBinary, before the lock *)

\* A binary that is there is only checked; the handlers are registered before
\* a lock is asked for.
Start(p) ==
  /\ Goes(p, "idle", IF final # None THEN "check" ELSE "open")
  /\ handlers' = [handlers EXCEPT ![p] = final = None]
  /\ UNCHANGED <<cache, holds, archive, judged, outcome, bounds>>

-----------------------------------------------------------------------------
(* acquireLock *)

\* Mutant: the lock file is opened without `x'.
OpenAnyway(p) ==
  /\ Goes(p, "open", "own")
  /\ lock' = [token |-> p, written |-> FALSE, old |-> FALSE]
  /\ UNCHANGED <<final, verified, workDirs, handlers, holds, archive, judged, outcome, bounds>>

\* openSync(lockPath, "wx")
Open(p) ==
  /\ lock = None
  /\ Goes(p, "open", "own")
  /\ lock' = [token |-> p, written |-> FALSE, old |-> FALSE]
  /\ UNCHANGED <<final, verified, workDirs, handlers, holds, archive, judged, outcome, bounds>>

Exists(p) ==
  /\ lock # None
  /\ Goes(p, "open", "wait")
  /\ UNCHANGED <<cache, handlers, holds, archive, judged, outcome, bounds>>

\* writeSync, and the release function; the file may be another's by now.
Own(p) ==
  /\ Goes(p, "own", "holding")
  /\ holds' = [holds EXCEPT ![p] = TRUE]
  /\ lock' = IF lock # None /\ lock.token = p THEN Owned(lock) ELSE lock
  /\ UNCHANGED <<final, verified, workDirs, handlers, archive, judged, outcome, bounds>>

\* isDone: another process has finished the download.
Done(p) ==
  /\ final # None
  /\ Goes(p, "wait", "check")
  /\ UNCHANGED <<cache, handlers, holds, archive, judged, outcome, bounds>>

Vanished(p) ==
  /\ final = None
  /\ lock = None
  /\ Goes(p, "wait", "open")
  /\ UNCHANGED <<cache, handlers, holds, archive, judged, outcome, bounds>>

Judge(p) ==
  /\ final = None
  /\ lock # None
  /\ Stale(p, lock)
  /\ Goes(p, "wait", "reread")
  /\ judged' = [judged EXCEPT ![p] = Raw(lock)]
  /\ UNCHANGED <<cache, handlers, holds, archive, outcome, bounds>>

Reread(p) ==
  LET same == lock # None /\ Raw(lock) = judged[p]
  IN  /\ Goes(p, "reread", IF same THEN "remove" ELSE "open")
      /\ judged' = IF same THEN judged ELSE [judged EXCEPT ![p] = None]
      /\ UNCHANGED <<cache, handlers, holds, archive, outcome, bounds>>

\* rmSync(lockPath): whatever lock is there now.
Remove(p) ==
  /\ Goes(p, "remove", "open")
  /\ lock' = None
  /\ judged' = [judged EXCEPT ![p] = None]
  /\ UNCHANGED <<final, verified, workDirs, handlers, holds, archive, outcome, bounds>>

\* Mutant: a lock with an owner is waited for however long it takes.
TimeOutOfUnowned(p) ==
  /\ pc[p] = "wait"
  /\ final = None
  /\ lock # None
  /\ ~Stale(p, lock) /\ ~lock.written
  /\ Leaves(p, "failed")
  /\ UNCHANGED <<cache, handlers, holds, archive, judged, bounds>>

\* waitMs has passed.
TimeOut(p) ==
  /\ pc[p] = "wait"
  /\ final = None
  /\ lock # None
  /\ ~Stale(p, lock)
  /\ Leaves(p, "failed")
  /\ UNCHANGED <<cache, handlers, holds, archive, judged, bounds>>

-----------------------------------------------------------------------------
(* Holding the lock *)

\* The binary may have come while this process waited for the lock.
AlreadyThere(p) ==
  /\ final # None
  /\ Goes(p, "holding", "check")
  /\ UNCHANGED <<cache, handlers, holds, archive, judged, outcome, bounds>>

\* removeStaleWorkDirs, then mkdtemp.
MakeWorkDir(p) ==
  /\ final = None
  /\ Goes(p, "holding", "download")
  /\ workDirs' = {p}
  /\ UNCHANGED <<final, verified, lock, handlers, holds, archive, judged, outcome, bounds>>

\* Mutant: what a download that broke off has brought is kept.
DownloadPartly(p) ==
  /\ p \in workDirs
  /\ Goes(p, "download", "verify")
  /\ \E got \in {"Good", "Partial"} : archive' = [archive EXCEPT ![p] = got]
  /\ UNCHANGED <<cache, handlers, holds, judged, outcome, bounds>>

\* download: whole, corrupted, or not at all.
Download(p) ==
  /\ p \in workDirs
  /\ Goes(p, "download", "verify")
  /\ \E got \in {"Good", "Corrupt"} :
       /\ archive' = [archive EXCEPT ![p] = got]
       /\ IF got = "Good" THEN UNCHANGED failures
          ELSE Trouble /\ failures' = failures + 1
  /\ UNCHANGED <<cache, handlers, holds, judged, outcome, kills, signals, stalls, damages>>

\* Mutant: the archive is not compared with checksums.sha256.
VerifyNothing(p) ==
  /\ p \in workDirs
  /\ Goes(p, "verify", "record")
  /\ UNCHANGED <<cache, handlers, holds, archive, judged, outcome, bounds>>

Verify(p) ==
  /\ p \in workDirs
  /\ archive[p] = "Good"
  /\ Goes(p, "verify", "record")
  /\ UNCHANGED <<cache, handlers, holds, archive, judged, outcome, bounds>>

\* rename(verifiedTmp, .verified)
RecordDigest(p) ==
  /\ p \in workDirs
  /\ Goes(p, "record", "install")
  /\ verified' = archive[p]
  /\ UNCHANGED <<final, lock, workDirs, handlers, holds, archive, judged, outcome, bounds>>

\* rename(src, finalPath)
InstallBinary(p) ==
  /\ p \in workDirs
  /\ pc[p] = "install"
  /\ final' = archive[p]
  /\ Leaves(p, "ran")
  /\ UNCHANGED <<verified, lock, workDirs, handlers, holds, archive, judged, bounds>>

\* The work directory is gone, or the archive is not the one announced.
GiveUp(p) ==
  /\ \/ p \notin workDirs /\ pc[p] \in {"download", "verify", "record", "install"}
     \/ archive[p] # "Good" /\ pc[p] = "verify"
  /\ Leaves(p, "failed")
  /\ UNCHANGED <<cache, handlers, holds, archive, judged, bounds>>

\* The download breaks off.
BreakOff(p) ==
  /\ pc[p] = "download"
  /\ Trouble
  /\ failures' = failures + 1
  /\ Leaves(p, "failed")
  /\ UNCHANGED <<cache, handlers, holds, archive, judged, kills, signals, stalls, damages>>

\* Mutant: a cached binary is run as it is.
CheckNothing(p) ==
  /\ pc[p] = "check"
  /\ Leaves(p, "ran")
  /\ UNCHANGED <<cache, handlers, holds, archive, judged, bounds>>

\* checkCachedBinary
Check(p) ==
  /\ pc[p] = "check"
  /\ Leaves(p, IF final = verified THEN "ran" ELSE "refused")
  /\ UNCHANGED <<cache, handlers, holds, archive, judged, bounds>>

-----------------------------------------------------------------------------
(* Leaving *)

RemovesWorkDir(p) ==
  /\ workDirs' = workDirs \ {p}
  /\ archive' = [archive EXCEPT ![p] = None]

\* The `finally' of downloadAndInstall, and the handlers in that of ensureBinary.
Leave(p) ==
  /\ Goes(p, "leave", "release")
  /\ RemovesWorkDir(p)
  /\ handlers' = [handlers EXCEPT ![p] = FALSE]
  /\ UNCHANGED <<final, verified, lock, holds, judged, outcome, bounds>>

\* The release function reads whether the lock still carries our token ...
Release(p) ==
  LET ours == holds[p] /\ lock # None /\ Raw(lock) = p
  IN  /\ Goes(p, "release", IF ours THEN "unlink" ELSE "ended")
      /\ holds' = [holds EXCEPT ![p] = FALSE]
      /\ UNCHANGED <<cache, handlers, archive, judged, outcome, bounds>>

\* ... and then removes whatever lock is there.
Unlink(p) ==
  /\ Goes(p, "unlink", "ended")
  /\ lock' = None
  /\ UNCHANGED <<final, verified, workDirs, handlers, holds, archive, judged, outcome, bounds>>

-----------------------------------------------------------------------------
(* Signals and kills *)

\* Where a process awaits something, and its handlers can be called.
Awaits(p) == pc[p] \in {"wait", "download", "verify", "record", "check"}

\* Mutant: a handler that dies without its cleanup.
SignalUncaught(p) ==
  /\ handlers[p] /\ Awaits(p)
  /\ Trouble
  /\ signals' = signals + 1
  /\ pc' = [pc EXCEPT ![p] = "ended"]
  /\ UNCHANGED <<cache, handlers, holds, archive, judged, outcome,
                 failures, kills, stalls, damages>>

\* The handler: first it removes itself and those of the other signals.
Signal(p) ==
  /\ handlers[p] /\ Awaits(p)
  /\ Trouble
  /\ signals' = signals + 1
  /\ pc' = [pc EXCEPT ![p] = "cleanup"]
  /\ handlers' = [handlers EXCEPT ![p] = FALSE]
  /\ UNCHANGED <<cache, holds, archive, judged, outcome, failures, kills, stalls, damages>>

\* Its cleanup: the work directory, then the lock; then the signal again.
Cleanup(p) ==
  /\ Goes(p, "cleanup", "release")
  /\ RemovesWorkDir(p)
  /\ UNCHANGED <<final, verified, lock, handlers, holds, judged, outcome, bounds>>

\* A signal nobody handles ends the process at once: in a check without lock,
\* in the release of the lock, or the second one during the cleanup.
DefaultSignal(p) ==
  /\ Alive(p) /\ ~handlers[p]
  /\ Trouble
  /\ signals' = signals + 1
  /\ pc' = [pc EXCEPT ![p] = "killed"]
  /\ UNCHANGED <<cache, handlers, holds, archive, judged, outcome,
                 failures, kills, stalls, damages>>

Kill(p) ==
  /\ Alive(p)
  /\ Trouble
  /\ kills' = kills + 1
  /\ pc' = [pc EXCEPT ![p] = "killed"]
  /\ UNCHANGED <<cache, handlers, holds, archive, judged, outcome,
                 failures, signals, stalls, damages>>

-----------------------------------------------------------------------------
(* Time and the disk *)

\* The lock gets old when its process is gone, or suspended for two minutes.
Age ==
  /\ lock # None
  /\ ~lock.old
  /\ lock' = Aged(lock)
  /\ IF Alive(lock.token) THEN Trouble /\ stalls' = stalls + 1
     ELSE UNCHANGED stalls
  /\ UNCHANGED <<final, verified, workDirs, local, failures, kills, signals, damages>>

\* The timer of a process that holds the lock, while the lock is its own.
Heartbeat(p) ==
  /\ Alive(p) /\ holds[p]
  /\ lock # None /\ Raw(lock) = p
  /\ lock.old
  /\ lock' = Renewed(lock)
  /\ UNCHANGED <<final, verified, workDirs, local, bounds>>

Damage ==
  /\ \A p \in Launches : ~Alive(p)
  /\ final # None
  /\ Trouble
  /\ damages' = damages + 1
  /\ final' = "Damaged"
  /\ UNCHANGED <<verified, lock, workDirs, local, failures, kills, signals, stalls>>

-----------------------------------------------------------------------------
Init ==
  /\ final = None
  /\ verified = None
  /\ lock = None
  /\ workDirs = {}
  /\ pc = [p \in Launches |-> "idle"]
  /\ handlers = [p \in Launches |-> FALSE]
  /\ holds = [p \in Launches |-> FALSE]
  /\ archive = [p \in Launches |-> None]
  /\ judged = [p \in Launches |-> None]
  /\ outcome = [p \in Launches |-> None]
  /\ failures = 0 /\ kills = 0 /\ signals = 0 /\ stalls = 0 /\ damages = 0

\* What a launch does once it has been started.
Step(p) ==
  \/ Open(p) \/ Exists(p) \/ Own(p)
  \/ Done(p) \/ Vanished(p) \/ Judge(p) \/ Reread(p) \/ Remove(p) \/ TimeOut(p)
  \/ AlreadyThere(p) \/ MakeWorkDir(p) \/ Download(p) \/ Verify(p)
  \/ RecordDigest(p) \/ InstallBinary(p) \/ GiveUp(p)
  \/ Check(p) \/ Leave(p) \/ Cleanup(p) \/ Release(p) \/ Unlink(p)

Next ==
  \/ \E p \in Launches :
       Start(p) \/ Step(p) \/ BreakOff(p) \/ Signal(p) \/ DefaultSignal(p) \/ Kill(p)
       \/ Heartbeat(p)
  \/ Age
  \/ Damage

\* A process goes on, its waits and downloads being bounded by time limits.
Fairness == \A p \in Launches : WF_vars(Step(p))

Spec == Init /\ [][Next]_vars
FairSpec == Spec /\ Fairness

-----------------------------------------------------------------------------
(* Properties *)

Content == {"Good", "Corrupt", "Damaged"}

Points ==
  {"idle", "open", "own", "wait", "reread", "remove", "holding", "download",
   "verify", "record", "install", "check", "leave", "cleanup", "release",
   "unlink", "ended", "killed"}

\* The variables have their types.
TypeOK ==
  /\ final \in Content \cup {None}
  /\ verified \in Content \cup {None}
  /\ lock \in Lock \cup {None}
  /\ workDirs \subseteq Launches
  /\ pc \in [Launches -> Points]
  /\ handlers \in [Launches -> BOOLEAN]
  /\ holds \in [Launches -> BOOLEAN]
  /\ archive \in [Launches -> Content \cup {None}]
  /\ judged \in [Launches -> Launches \cup {None}]
  /\ outcome \in [Launches -> {"ran", "refused", "failed", None}]
  /\ {failures, kills, signals, stalls, damages} \subseteq Nat

\* At every moment, and so wherever the processes are killed, and even if two
\* of them install at once: a binary in the cache is the released one and its
\* digest is recorded, unless it was damaged there afterwards.
InstalledIsVerified ==
  final # None =>
    /\ verified = "Good"
    /\ final = "Good" \/ damages > 0

\* A launch that runs the binary runs the released one, damaged or not.
OnlyVerifiedRuns ==
  [][\A p \in Launches :
       outcome'[p] = "ran" /\ outcome[p] # "ran" => final' = "Good"]_vars

Working(p) == pc[p] \in {"download", "verify", "record", "install"}

\* The processes that had no time to clean up: killed outright, or by a signal
\* that came before their handlers or after them.
Struck == {p \in Launches : pc[p] = "killed"}

\* While no process is struck or suspended with the lock, one at a time
\* downloads, and its work directory is the only one and stays.
OneDownload ==
  Struck = {} /\ stalls = 0 =>
    \A p \in Launches : Working(p) => /\ workDirs = {p}
                                      /\ lock # None /\ Raw(lock) = p

\* A process that has ended, also one that a handled signal has ended, leaves
\* neither its lock nor its work directory behind, whatever became of the lock;
\* only one that was struck does.  And the partial download of a struck process
\* does not outlast the next download, even if two take over its lock.
CleanedUp ==
  /\ lock # None /\ ~Alive(lock.token) => lock.token \in Struck
  /\ \A p \in workDirs : ~Alive(p) => p \in Struck
  /\ stalls = 0 /\ (\A p, q \in Struck : p = q) =>
       \A p \in Launches : Working(p) => \A q \in workDirs : Alive(q)

\* A launch ends, whatever has become of the process whose lock it waits for.
EveryLaunchEnds == \A p \in Launches : Alive(p) ~> ~Alive(p)

\* "Only remove the lock we judged; a fresh one written meanwhile stays."
FreshLockStays ==
  [][\A p \in Launches :
       pc[p] = "remove" /\ pc'[p] = "open" /\ lock # None => Raw(lock) = judged[p]]_vars
=============================================================================
