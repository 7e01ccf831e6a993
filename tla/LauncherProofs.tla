--------------------------- MODULE LauncherProofs ---------------------------
(***************************************************************************)
(* The safety properties of the launcher, for any number of launches.      *)
(*                                                                         *)
(* InstalledIsVerified and OnlyVerifiedRuns hold whatever goes wrong, and  *)
(* mutual exclusion plays no part in them: the argument is the order of    *)
(* the steps of one launch (verify, record the digest, install) and that   *)
(* all of them record the same digest.  OneDownload and CleanedUp rest on  *)
(* the lock: while nobody is struck or suspended with it, it is never      *)
(* stale, so nobody is between the judgement of a stale lock and its       *)
(* removal.  The first part of CleanedUp does not: a process that ends has *)
(* passed by the removal of all that it had.                               *)
(***************************************************************************)
EXTENDS Launcher, TLAPS

\* A launch past the comparison with checksums.sha256 has the good archive,
\* one past the record has recorded it, and only its digest is ever recorded.
VerifiedInv ==
  /\ damages \in Nat
  /\ verified \in {None, "Good"}
  /\ archive \in [Launches -> Content \cup {None}]
  /\ pc \in [Launches -> Points]
  /\ \A p \in Launches :
       /\ pc[p] \in {"record", "install"} => archive[p] = "Good"
       /\ pc[p] = "install" => verified = "Good"
  /\ InstalledIsVerified

LEMMA VerifiedInvInit == Init => VerifiedInv
  BY LauncherAssumption DEF Init, VerifiedInv, InstalledIsVerified, Points

\* A step that records nothing and moves nobody to "record" or "install".
LEMMA VerifiedInvFrame ==
  ASSUME VerifiedInv,
         final' = final, verified' = verified, damages' = damages,
         archive' \in [Launches -> Content \cup {None}],
         pc' \in [Launches -> Points],
         \A p \in Launches :
           pc'[p] \in {"record", "install"} => pc'[p] = pc[p] /\ archive'[p] = archive[p]
  PROVE  VerifiedInv'
  BY DEF VerifiedInv, InstalledIsVerified

LEMMA VerifiedInvNext == VerifiedInv /\ [Next]_vars => VerifiedInv'
<1> SUFFICES ASSUME VerifiedInv, [Next]_vars PROVE VerifiedInv'
  OBVIOUS
<1> USE DEF VerifiedInv, Points
<1>1. ASSUME NEW p \in Launches, Start(p) \/ Step(p) \/ BreakOff(p) \/ Signal(p)
                                 \/ DefaultSignal(p) \/ Kill(p) \/ Heartbeat(p)
      PROVE  VerifiedInv'
  <2>1. CASE Start(p)
    BY <2>1, VerifiedInvFrame DEF Start, Goes, cache, bounds
  <2>2. CASE Open(p) \/ Exists(p) \/ Own(p) \/ Done(p) \/ Vanished(p) \/ Judge(p)
    BY <2>2, VerifiedInvFrame
       DEF Open, Exists, Own, Done, Vanished, Judge, Goes, cache, bounds
  <2>3. CASE Reread(p) \/ Remove(p) \/ TimeOut(p) \/ AlreadyThere(p) \/ MakeWorkDir(p)
    BY <2>3, VerifiedInvFrame
       DEF Reread, Remove, TimeOut, AlreadyThere, MakeWorkDir, Goes, Leaves, cache, bounds
  <2>4. CASE Download(p)
    BY <2>4, VerifiedInvFrame DEF Download, Goes, cache, Content
  <2>5. CASE Verify(p)
    BY <2>5 DEF Verify, Goes, cache, bounds, InstalledIsVerified
  <2>6. CASE RecordDigest(p)
    BY <2>6 DEF RecordDigest, Goes, bounds, InstalledIsVerified
  <2>7. CASE InstallBinary(p)
    BY <2>7 DEF InstallBinary, Leaves, bounds, InstalledIsVerified
  <2>8. CASE GiveUp(p) \/ Check(p) \/ BreakOff(p)
    BY <2>8, VerifiedInvFrame DEF GiveUp, Check, BreakOff, Leaves, cache, bounds
  <2>9. CASE Leave(p) \/ Cleanup(p) \/ Release(p) \/ Unlink(p)
    BY <2>9, VerifiedInvFrame
       DEF Leave, Cleanup, Release, Unlink, RemovesWorkDir, Goes, cache, bounds
  <2>10. CASE Signal(p) \/ DefaultSignal(p) \/ Kill(p) \/ Heartbeat(p)
    BY <2>10, VerifiedInvFrame
       DEF Signal, DefaultSignal, Kill, Heartbeat, cache, local, bounds
  <2> QED
    BY <1>1, <2>1, <2>2, <2>3, <2>4, <2>5, <2>6, <2>7, <2>8, <2>9, <2>10 DEF Step
<1>2. CASE Age
  BY <1>2, VerifiedInvFrame DEF Age, local
<1>3. CASE Damage
  BY <1>3 DEF Damage, local, InstalledIsVerified
<1>4. CASE UNCHANGED vars
  BY <1>4, VerifiedInvFrame DEF vars, cache, local, bounds
<1> QED
  BY <1>1, <1>2, <1>3, <1>4 DEF Next

\* A binary in the cache is the released one with its digest, unless it was
\* damaged there, whatever is killed, taken over or installed twice.
THEOREM InstalledVerified == Spec => []InstalledIsVerified
<1>1. VerifiedInv => InstalledIsVerified
  BY DEF VerifiedInv
<1> QED
  BY <1>1, VerifiedInvInit, VerifiedInvNext, PTL DEF Spec
-----------------------------------------------------------------------------
(* Types *)

LEMMA TypeOKInit == Init => TypeOK
  BY LauncherAssumption DEF Init, TypeOK, Points

LEMMA TypeOKNext == TypeOK /\ [Next]_vars => TypeOK'
<1> SUFFICES ASSUME TypeOK, [Next]_vars PROVE TypeOK'
  OBVIOUS
<1> USE LauncherAssumption DEF TypeOK, Points
<1>1. ASSUME NEW p \in Launches, Start(p) \/ Step(p) \/ BreakOff(p) \/ Signal(p)
                                 \/ DefaultSignal(p) \/ Kill(p) \/ Heartbeat(p)
      PROVE  TypeOK'
  <2>1. CASE Start(p)
    BY <2>1 DEF Start, Goes, cache, bounds
  <2>2. CASE Exists(p) \/ Done(p) \/ Vanished(p) \/ TimeOut(p)
    BY <2>2 DEF Exists, Done, Vanished, TimeOut, Goes, Leaves, cache, bounds
  <2>3. CASE Open(p)
    BY <2>3 DEF Open, Goes, Lock, bounds
  <2>4. CASE Own(p)
    BY <2>4 DEF Own, Goes, Lock, Owned, bounds
  <2>5. CASE Remove(p)
    BY <2>5 DEF Remove, Goes, bounds
  <2>6. CASE Judge(p) \/ Reread(p)
    BY <2>6 DEF Judge, Reread, Goes, Lock, Raw, cache, bounds
  <2>7. CASE AlreadyThere(p) \/ MakeWorkDir(p) \/ Verify(p) \/ GiveUp(p) \/ Check(p)
    BY <2>7 DEF AlreadyThere, MakeWorkDir, Verify, GiveUp, Check, Goes, Leaves, cache, bounds
  <2>8. CASE Download(p) \/ BreakOff(p)
    BY <2>8 DEF Download, BreakOff, Goes, Leaves, Content, cache
  <2>9. CASE RecordDigest(p) \/ InstallBinary(p)
    BY <2>9 DEF RecordDigest, InstallBinary, Goes, Leaves, bounds
  <2>10. CASE Leave(p) \/ Cleanup(p)
    <3>1. /\ workDirs' \subseteq Launches
          /\ archive' \in [Launches -> Content \cup {None}]
      BY <2>10 DEF Leave, Cleanup, RemovesWorkDir
    <3>2. /\ pc' \in [Launches -> Points]
          /\ handlers' \in [Launches -> BOOLEAN]
      BY <2>10 DEF Leave, Cleanup, Goes
    <3> QED
      BY <2>10, <3>1, <3>2 DEF Leave, Cleanup, bounds
  <2>11. CASE Release(p)
    <3>1. /\ pc' \in [Launches -> Points]
          /\ holds' \in [Launches -> BOOLEAN]
      BY <2>11 DEF Release, Goes
    <3> QED
      BY <2>11, <3>1 DEF Release, cache, bounds
  <2>12. CASE Unlink(p)
    BY <2>12 DEF Unlink, Goes, cache, bounds
  <2>13. CASE Signal(p)
    BY <2>13 DEF Signal, cache
  <2>14. CASE DefaultSignal(p) \/ Kill(p)
    BY <2>14 DEF DefaultSignal, Kill, cache
  <2>15. CASE Heartbeat(p)
    BY <2>15 DEF Heartbeat, Renewed, Lock, local, bounds
  <2> QED
    BY <1>1, <2>1, <2>3, <2>6, <2>7, <2>8, <2>9, <2>10, <2>13, <2>15, <2>4, <2>5,
       <2>2, <2>11, <2>14, <2>12 DEF Step
<1>2. CASE Age
  <2>1. lock' \in Lock
    BY <1>2 DEF Age, Aged, Lock
  <2>2. stalls' \in Nat
    BY <1>2 DEF Age
  <2> QED
    BY <1>2, <2>1, <2>2 DEF Age, local
<1>3. CASE Damage
  BY <1>3 DEF Damage, Content, local
<1>4. CASE UNCHANGED vars
  BY <1>4 DEF vars, cache, local, bounds
<1> QED
  BY <1>1, <1>2, <1>3, <1>4 DEF Next

\* The variables of the launcher have their types.
THEOREM LauncherTypes == Spec => []TypeOK
  BY TypeOKInit, TypeOKNext, PTL DEF Spec

-----------------------------------------------------------------------------
(* What is run *)

\* A launch compares the digests of a binary that is there: were there none,
\* no binary and no digest would compare as equal.
CheckedIsThere == \A p \in Launches : pc[p] = "check" => final # None

LEMMA CheckedIsThereNext ==
  TypeOK /\ VerifiedInv /\ CheckedIsThere /\ [Next]_vars => CheckedIsThere'
<1> SUFFICES ASSUME TypeOK, VerifiedInv, CheckedIsThere, [Next]_vars
             PROVE  CheckedIsThere'
  OBVIOUS
<1> USE LauncherAssumption DEF TypeOK, CheckedIsThere
<1>1. ASSUME NEW p \in Launches, Start(p) \/ Step(p) \/ BreakOff(p) \/ Signal(p)
                                 \/ DefaultSignal(p) \/ Kill(p) \/ Heartbeat(p)
      PROVE  CheckedIsThere'
  <2>1. CASE Start(p) \/ Done(p) \/ AlreadyThere(p)
    BY <2>1 DEF Start, Done, AlreadyThere, Goes, cache
  <2>2. CASE Open(p) \/ Exists(p) \/ Own(p) \/ Vanished(p) \/ Judge(p) \/ Reread(p)
    BY <2>2 DEF Open, Exists, Own, Vanished, Judge, Reread, Goes, cache
  <2>3. CASE Remove(p) \/ TimeOut(p) \/ MakeWorkDir(p) \/ Download(p) \/ Verify(p)
    BY <2>3 DEF Remove, TimeOut, MakeWorkDir, Download, Verify, Goes, Leaves, cache
  <2>4. CASE RecordDigest(p) \/ GiveUp(p) \/ Check(p) \/ BreakOff(p)
    BY <2>4 DEF RecordDigest, GiveUp, Check, BreakOff, Goes, Leaves, cache
  <2>5. CASE InstallBinary(p)
    BY <2>5 DEF InstallBinary, Leaves, VerifiedInv
  <2>6. CASE Leave(p) \/ Cleanup(p) \/ Release(p) \/ Unlink(p)
    BY <2>6 DEF Leave, Cleanup, Release, Unlink, Goes, cache
  <2>7. CASE Signal(p) \/ DefaultSignal(p) \/ Kill(p) \/ Heartbeat(p)
    BY <2>7 DEF Signal, DefaultSignal, Kill, Heartbeat, cache, local
  <2> QED
    BY <1>1, <2>1, <2>2, <2>3, <2>4, <2>5, <2>6, <2>7 DEF Step
<1>2. CASE Age \/ Damage
  BY <1>2 DEF Age, Damage, local
<1>3. CASE UNCHANGED vars
  BY <1>3 DEF vars, cache, local
<1> QED
  BY <1>1, <1>2, <1>3 DEF Next

LEMMA OnlyGoodRuns ==
  ASSUME TypeOK, VerifiedInv, CheckedIsThere, [Next]_vars,
         NEW p \in Launches, outcome'[p] = "ran", outcome[p] # "ran"
  PROVE  final' = "Good"
<1> USE DEF TypeOK
<1>1. ASSUME NEW q \in Launches, Start(q) \/ Step(q) \/ BreakOff(q) \/ Signal(q)
                                 \/ DefaultSignal(q) \/ Kill(q) \/ Heartbeat(q)
      PROVE  final' = "Good"
  <2>1. CASE Check(q)
    BY <2>1, LauncherAssumption
       DEF Check, Leaves, cache, VerifiedInv, InstalledIsVerified, CheckedIsThere
  <2>2. CASE InstallBinary(q)
    BY <2>2 DEF InstallBinary, VerifiedInv
  <2>3. CASE TimeOut(q) \/ GiveUp(q) \/ BreakOff(q)
    BY <2>3 DEF TimeOut, GiveUp, BreakOff, Leaves
  <2>4. CASE Start(q) \/ Open(q) \/ Exists(q) \/ Own(q) \/ Done(q) \/ Vanished(q)
    BY <2>4 DEF Start, Open, Exists, Own, Done, Vanished
  <2>5. CASE Judge(q) \/ Reread(q) \/ Remove(q) \/ AlreadyThere(q) \/ MakeWorkDir(q)
    BY <2>5 DEF Judge, Reread, Remove, AlreadyThere, MakeWorkDir
  <2>6. CASE Download(q) \/ Verify(q) \/ RecordDigest(q) \/ Leave(q)
    BY <2>6 DEF Download, Verify, RecordDigest, Leave
  <2>7. CASE Cleanup(q) \/ Release(q) \/ Unlink(q)
    BY <2>7 DEF Cleanup, Release, Unlink
  <2>8. CASE Signal(q) \/ DefaultSignal(q) \/ Kill(q) \/ Heartbeat(q)
    BY <2>8 DEF Signal, DefaultSignal, Kill, Heartbeat, local
  <2> QED
    BY <1>1, <2>1, <2>2, <2>3, <2>4, <2>5, <2>6, <2>7, <2>8 DEF Step
<1>2. CASE Age \/ Damage \/ UNCHANGED vars
  BY <1>2 DEF Age, Damage, vars, local
<1> QED
  BY <1>1, <1>2 DEF Next

\* A launch that runs the binary runs the released one (checkCachedBinary,
\* installBinary), whatever was damaged, killed or taken over.
THEOREM GoodRuns == Spec => OnlyVerifiedRuns
<1>1. Init => CheckedIsThere
  BY DEF Init, CheckedIsThere
<1>2. TypeOK /\ VerifiedInv /\ CheckedIsThere /\ [Next]_vars =>
        [\A p \in Launches :
           outcome'[p] = "ran" /\ outcome[p] # "ran" => final' = "Good"]_vars
  BY OnlyGoodRuns
<1> QED
  BY <1>1, <1>2, TypeOKInit, TypeOKNext, VerifiedInvInit, VerifiedInvNext,
     CheckedIsThereNext, PTL DEF Spec, OnlyVerifiedRuns

-----------------------------------------------------------------------------
(* What a process leaves behind *)

\* The points of a launch whose lock may be the lock file, and whose work
\* directory may be there: between making it and passing by its removal.
Locking(p) ==
  \/ pc[p] \in {"own", "unlink", "killed"}
  \/ /\ holds[p]
     /\ \/ pc[p] \in {"holding", "check", "leave", "cleanup", "release"}
        \/ Working(p)

OwnInv ==
  /\ lock # None =>
       /\ Locking(lock.token)
       /\ pc[lock.token] \notin {"own", "killed"} => lock.written
  /\ \A p \in Launches : pc[p] \in {"holding"} \/ Working(p) => holds[p]
  /\ \A p \in workDirs : Working(p) \/ pc[p] \in {"leave", "cleanup", "killed"}

LEMMA OwnInvNext == TypeOK /\ OwnInv /\ [Next]_vars => OwnInv'
<1> SUFFICES ASSUME TypeOK, OwnInv, [Next]_vars PROVE OwnInv'
  OBVIOUS
<1>1. /\ lock \in Lock \cup {None}
      /\ workDirs \subseteq Launches
      /\ pc \in [Launches -> Points]
      /\ holds \in [Launches -> BOOLEAN]
      /\ lock # None => lock.token \in Launches
  BY DEF TypeOK, Lock
<1> USE <1>1, LauncherAssumption DEF OwnInv, Locking, Working
<1>2. ASSUME NEW p \in Launches, Start(p) \/ Step(p) \/ BreakOff(p) \/ Signal(p)
                                 \/ DefaultSignal(p) \/ Kill(p) \/ Heartbeat(p)
      PROVE  OwnInv'
  <2>1. CASE Start(p) \/ Exists(p) \/ Done(p) \/ Vanished(p) \/ TimeOut(p)
    BY <2>1 DEF Start, Exists, Done, Vanished, TimeOut, Goes, Leaves, cache
  <2>2. CASE Open(p)
    <3>1. lock' \in Lock /\ lock'.token = p
      BY <2>2 DEF Open, Lock
    <3> QED
      BY <2>2, <3>1 DEF Open, Goes
  <2>3. CASE Own(p)
    <3>1. CASE lock # None /\ lock.token = p
      <4>1. /\ Owned(lock).token = p
            /\ Owned(lock).written
        BY <3>1 DEF Owned, Lock
      <4> QED
        BY <2>3, <3>1, <4>1 DEF Own, Goes
    <3>2. CASE ~(lock # None /\ lock.token = p)
      BY <2>3, <3>2 DEF Own, Goes
    <3> QED
      BY <3>1, <3>2
  <2>4. CASE Judge(p) \/ Reread(p) \/ Remove(p) \/ AlreadyThere(p)
    BY <2>4 DEF Judge, Reread, Remove, AlreadyThere, Goes, cache
  <2>5. CASE MakeWorkDir(p)
    BY <2>5 DEF MakeWorkDir, Goes
  <2>6. CASE Download(p) \/ Verify(p) \/ RecordDigest(p)
    BY <2>6 DEF Download, Verify, RecordDigest, Goes, cache
  <2>7. CASE InstallBinary(p) \/ GiveUp(p) \/ BreakOff(p) \/ Check(p)
    BY <2>7 DEF InstallBinary, GiveUp, BreakOff, Check, Leaves, cache
  <2>8. CASE Leave(p) \/ Cleanup(p)
    BY <2>8 DEF Leave, Cleanup, RemovesWorkDir, Goes
  <2>9. CASE Release(p)
    BY <2>9 DEF Release, Raw, Goes, cache
  <2>10. CASE Unlink(p)
    BY <2>10 DEF Unlink, Goes
  <2>11. CASE Signal(p) \/ DefaultSignal(p) \/ Kill(p)
    BY <2>11 DEF Signal, DefaultSignal, Kill, Awaits, cache
  <2>12. CASE Heartbeat(p)
    BY <2>12 DEF Heartbeat, Renewed, local, Lock
  <2> QED
    BY <1>2, <2>1, <2>2, <2>3, <2>4, <2>5, <2>6, <2>7, <2>8, <2>9, <2>10, <2>11,
       <2>12 DEF Step
<1>3. CASE Age
  BY <1>3 DEF Age, Aged, local, Lock
<1>4. CASE Damage \/ UNCHANGED vars
  BY <1>4 DEF Damage, vars, cache, local
<1> QED
  BY <1>2, <1>3, <1>4 DEF Next

-----------------------------------------------------------------------------
(* The lock *)

\* The points of a launch whose lock the lock file is.
Keeps(p) ==
  \/ pc[p] \in {"own", "holding", "unlink"} \/ Working(p)
  \/ pc[p] \in {"check", "leave", "cleanup", "release"} /\ holds[p]

\* While no process is struck or suspended with the lock: the lock file is that
\* of the one launch that is past its opening and not yet gone, and never
\* stale; so nobody removes it but its owner, whose work directory is the only
\* one there may be.
LockInv ==
  /\ \A p \in Launches :
       /\ pc[p] \notin {"reread", "remove", "killed"}
       /\ Keeps(p) => lock # None /\ lock.token = p
       /\ pc[p] \in {"idle", "open", "own", "wait"} => ~holds[p]
       /\ pc[p] = "holding" \/ Working(p) => holds[p]
       /\ Working(p) => workDirs = {p}
  /\ lock # None => /\ Keeps(lock.token)
                    /\ ~lock.old
                    /\ lock.written <=> pc[lock.token] # "own"
  /\ \A p \in workDirs : Working(p) \/ (pc[p] \in {"leave", "cleanup"} /\ holds[p])

Untroubled == Struck = {} /\ stalls = 0

\* What has gone wrong does not come undone: a process that was struck stays
\* so, and is one that was alive.
LEMMA TroublesAddUp ==
  TypeOK /\ [Next]_vars =>
    /\ stalls <= stalls'
    /\ Struck \subseteq Struck'
    /\ \A p \in Launches : DefaultSignal(p) \/ Kill(p) => p \in Struck' \ Struck
<1> SUFFICES ASSUME TypeOK, [Next]_vars
             PROVE  /\ stalls <= stalls'
                    /\ Struck \subseteq Struck'
                    /\ \A p \in Launches :
                         DefaultSignal(p) \/ Kill(p) => p \in Struck' \ Struck
  OBVIOUS
<1> stalls \in Nat /\ pc \in [Launches -> Points]
  BY DEF TypeOK
<1>1. \A p \in Launches : DefaultSignal(p) \/ Kill(p) =>
        /\ p \in Struck' \ Struck
        /\ stalls' = stalls /\ Struck \subseteq Struck'
  BY DEF DefaultSignal, Kill, Struck, Alive
<1>2. CASE Age
  BY <1>1, <1>2 DEF Age, local, Struck
<1>3. ASSUME NEW p \in Launches, Start(p) \/ Step(p) \/ BreakOff(p) \/ Signal(p)
                                 \/ Heartbeat(p)
      PROVE  UNCHANGED stalls /\ Struck \subseteq Struck'
  <2> USE DEF Struck, Goes, Leaves, bounds
  <2>1. CASE Start(p) \/ Heartbeat(p) \/ BreakOff(p)
    BY <2>1 DEF Start, Heartbeat, BreakOff, local
  <2>2. CASE Signal(p)
    BY <2>2 DEF Signal, Awaits
  <2>3. CASE Open(p) \/ Exists(p) \/ Own(p) \/ Done(p) \/ Vanished(p) \/ Judge(p)
    BY <2>3 DEF Open, Exists, Own, Done, Vanished, Judge
  <2>4. CASE Reread(p) \/ Remove(p) \/ TimeOut(p) \/ AlreadyThere(p) \/ MakeWorkDir(p)
    BY <2>4 DEF Reread, Remove, TimeOut, AlreadyThere, MakeWorkDir
  <2>5. CASE Download(p) \/ Verify(p) \/ RecordDigest(p) \/ InstallBinary(p)
    BY <2>5 DEF Download, Verify, RecordDigest, InstallBinary
  <2>6. CASE GiveUp(p) \/ Check(p)
    BY <2>6 DEF GiveUp, Check
  <2>7. CASE Leave(p) \/ Cleanup(p) \/ Release(p) \/ Unlink(p)
    BY <2>7 DEF Leave, Cleanup, Release, Unlink
  <2> QED
    BY <1>3, <2>1, <2>2, <2>3, <2>4, <2>5, <2>6, <2>7 DEF Step
<1>4. CASE Damage \/ UNCHANGED vars
  BY <1>1, <1>4 DEF Damage, vars, local, bounds, Struck
<1> QED
  BY <1>1, <1>2, <1>3, <1>4 DEF Next

LEMMA UntroubledBefore ==
  TypeOK /\ [Next]_vars /\ Untroubled' => Untroubled
  BY TroublesAddUp, TypeOKNext DEF Untroubled, TypeOK

LEMMA LockInvNext ==
  TypeOK /\ LockInv /\ Untroubled' /\ [Next]_vars => LockInv'
<1> SUFFICES ASSUME TypeOK, LockInv, Untroubled', [Next]_vars PROVE LockInv'
  OBVIOUS
<1>1. /\ lock \in Lock \cup {None}
      /\ workDirs \subseteq Launches
      /\ pc \in [Launches -> Points]
      /\ holds \in [Launches -> BOOLEAN]
      /\ lock # None => lock.token \in Launches
  BY DEF TypeOK, Lock
<1> USE <1>1, LauncherAssumption DEF LockInv, Keeps, Working
<1>2. ASSUME NEW p \in Launches, Start(p) \/ Step(p) \/ BreakOff(p) \/ Signal(p)
                                 \/ DefaultSignal(p) \/ Kill(p) \/ Heartbeat(p)
      PROVE  LockInv'
  <2>1. CASE Start(p) \/ Exists(p) \/ Done(p) \/ Vanished(p) \/ TimeOut(p)
    BY <2>1 DEF Start, Exists, Done, Vanished, TimeOut, Goes, Leaves, cache
  <2>2. CASE Open(p)
    <3>1. lock' # None
      <4>1. [token |-> p, written |-> FALSE, old |-> FALSE] \in Lock
        BY DEF Lock
      <4> QED
        BY <2>2, <4>1 DEF Open, Lock
    <3> QED
      BY <2>2, <3>1 DEF Open, Goes
  <2>3. CASE Own(p)
    <3>1. lock # None /\ lock.token = p
      BY <2>3 DEF Own, Goes
    <3>2. /\ Owned(lock) # None /\ Owned(lock).token = p
          /\ Owned(lock).written /\ Owned(lock).old = lock.old
      BY <3>1 DEF Owned, Lock
    <3>3. /\ pc' = [pc EXCEPT ![p] = "holding"]
          /\ holds' = [holds EXCEPT ![p] = TRUE]
          /\ lock' = Owned(lock) /\ workDirs' = workDirs /\ pc[p] = "own"
      BY <2>3, <3>1 DEF Own, Goes
    <3> QED
      BY <3>1, <3>2, <3>3
  <2>4. CASE Judge(p)
    BY <2>4 DEF Judge, Stale, Alive, Lock
  <2>5. CASE Reread(p) \/ Remove(p)
    BY <2>5 DEF Reread, Remove, Goes
  <2>6. CASE AlreadyThere(p)
    BY <2>6 DEF AlreadyThere, Goes, cache
  <2>7. CASE MakeWorkDir(p)
    BY <2>7 DEF MakeWorkDir, Goes
  <2>8. CASE Download(p) \/ Verify(p) \/ RecordDigest(p)
    BY <2>8 DEF Download, Verify, RecordDigest, Goes, cache
  <2>9. CASE InstallBinary(p) \/ GiveUp(p) \/ BreakOff(p) \/ Check(p)
    BY <2>9 DEF InstallBinary, GiveUp, BreakOff, Check, Leaves, cache
  <2>10. CASE Leave(p) \/ Cleanup(p)
    BY <2>10 DEF Leave, Cleanup, RemovesWorkDir, Goes
  <2>11. CASE Release(p)
    BY <2>11 DEF Release, Raw, Goes, cache
  <2>12. CASE Unlink(p)
    BY <2>12 DEF Unlink, Goes
  <2>13. CASE Signal(p)
    BY <2>13 DEF Signal, Awaits, cache
  <2>14. CASE DefaultSignal(p) \/ Kill(p)
    BY <2>14, TroublesAddUp DEF Untroubled
  <2>15. CASE Heartbeat(p)
    BY <2>15 DEF Heartbeat, Renewed, local, Lock
  <2> QED
    BY <1>2, <2>1, <2>2, <2>3, <2>4, <2>5, <2>6, <2>7, <2>8, <2>9, <2>10, <2>11,
       <2>14, <2>15, <2>12, <2>13 DEF Step
<1>3. CASE Age
  <2>1. Alive(lock.token)
    BY <1>3 DEF Age, Alive
  <2>2. stalls' = stalls + 1 /\ stalls \in Nat
    BY <1>3, <2>1 DEF Age, TypeOK
  <2> QED
    BY <2>2 DEF Untroubled
<1>4. CASE Damage \/ UNCHANGED vars
  BY <1>4 DEF Damage, vars, cache, local
<1> QED
  BY <1>2, <1>3, <1>4 DEF Next
-----------------------------------------------------------------------------
LEMMA LockInvInit == Init => LockInv /\ OwnInv
  BY DEF Init, LockInv, OwnInv, Keeps, Working

\* The last part of CleanedUp: a download removes the directories it finds, so
\* a directory whose process is struck is the last one made, and only one
\* process is.
DeadDirGoes ==
  stalls = 0 /\ (\A p, q \in Struck : p = q) =>
    \A p \in Launches : Working(p) => \A q \in workDirs : Alive(q)

LEMMA DeadDirGoesNext ==
  TypeOK /\ OwnInv /\ (Untroubled => LockInv) /\ DeadDirGoes /\ [Next]_vars => DeadDirGoes'
<1> SUFFICES ASSUME TypeOK, OwnInv, Untroubled => LockInv, DeadDirGoes, [Next]_vars,
                    stalls' = 0, \A p, q \in Struck' : p = q,
                    NEW w \in Launches, Working(w)', NEW d \in workDirs'
             PROVE  Alive(d)'
  BY DEF DeadDirGoes, TypeOK
<1> DEFINE Before == \A p \in Launches : Working(p) => \A q \in workDirs : Alive(q)
<1>1. Before /\ d \in Launches
  <2>1. workDirs' \subseteq Launches
    BY TypeOKNext DEF TypeOK
  <2> QED
    BY <2>1, TroublesAddUp, TypeOKNext DEF DeadDirGoes, TypeOK
<1> USE DEF Working, Alive, TypeOK
<1>2. ASSUME NEW p \in Launches, Start(p) \/ Step(p) \/ BreakOff(p) \/ Signal(p)
                                 \/ DefaultSignal(p) \/ Kill(p) \/ Heartbeat(p)
      PROVE  Alive(d)'
  <2>1. CASE Start(p) \/ Exists(p) \/ Done(p) \/ Vanished(p) \/ TimeOut(p)
    BY <1>1, <2>1 DEF Start, Exists, Done, Vanished, TimeOut, Goes, Leaves, cache
  <2>2. CASE Open(p) \/ Own(p) \/ Judge(p) \/ Reread(p) \/ Remove(p) \/ AlreadyThere(p)
    BY <1>1, <2>2 DEF Open, Own, Judge, Reread, Remove, AlreadyThere, Goes, cache
  <2>3. CASE MakeWorkDir(p)
    BY <2>3 DEF MakeWorkDir, Goes
  <2>4. CASE Download(p) \/ Verify(p) \/ RecordDigest(p)
    BY <1>1, <2>4 DEF Download, Verify, RecordDigest, Goes, cache
  <2>5. CASE InstallBinary(p) \/ GiveUp(p) \/ BreakOff(p) \/ Check(p)
    BY <1>1, <2>5 DEF InstallBinary, GiveUp, BreakOff, Check, Leaves, cache
  <2>6. CASE Leave(p) \/ Cleanup(p)
    BY <1>1, <2>6 DEF Leave, Cleanup, RemovesWorkDir, Goes
  <2>7. CASE Release(p) \/ Unlink(p)
    <3>1. p \notin workDirs
      BY <2>7 DEF Release, Unlink, Goes, OwnInv
    <3> QED
      BY <1>1, <2>7, <3>1 DEF Release, Unlink, Goes, cache
  <2>8. CASE Signal(p)
    BY <1>1, <2>8 DEF Signal, Awaits, cache
  <2>9. CASE DefaultSignal(p) \/ Kill(p)
    <3>1. Untroubled
      BY <2>9, TroublesAddUp, TypeOKNext DEF Untroubled, TypeOK, Struck
    <3> QED
      BY <2>9, <3>1 DEF DefaultSignal, Kill, LockInv, cache
  <2>10. CASE Heartbeat(p)
    BY <1>1, <2>10 DEF Heartbeat, local
  <2> QED
    BY <1>2, <2>1, <2>2, <2>3, <2>4, <2>5, <2>6, <2>7, <2>8, <2>9, <2>10 DEF Step
<1>3. CASE Age \/ Damage \/ UNCHANGED vars
  BY <1>1, <1>3 DEF Age, Damage, vars, cache, local
<1> QED
  BY <1>2, <1>3 DEF Next

SharedInv == TypeOK /\ OwnInv /\ (Untroubled => LockInv) /\ DeadDirGoes

LEMMA SharedInvHolds == Spec => []SharedInv
<1>1. Init => SharedInv
  BY TypeOKInit, LockInvInit DEF SharedInv, DeadDirGoes, Init
<1>2. SharedInv /\ [Next]_vars => SharedInv'
  BY TypeOKNext, OwnInvNext, UntroubledBefore, LockInvNext, DeadDirGoesNext DEF SharedInv
<1> QED
  BY <1>1, <1>2, PTL DEF Spec

\* The lock file does what it is for (acquireLock, the heartbeat, the release
\* function): unless a launch is struck or suspended with the lock, one at a
\* time downloads, holding it, and nobody removes its work directory.
THEOREM DownloadsExclude == Spec => []OneDownload
<1>1. SharedInv => OneDownload
  <2> SUFFICES ASSUME SharedInv, Untroubled, NEW p \in Launches, Working(p)
               PROVE  workDirs = {p} /\ lock # None /\ Raw(lock) = p
    BY DEF OneDownload, Untroubled
  <2> QED
    BY DEF SharedInv, LockInv, Keeps, Raw, TypeOK, Working
<1> QED
  BY <1>1, SharedInvHolds, PTL

\* A launch that ends by itself or by a signal that its handlers caught leaves
\* neither lock nor work directory, whatever was killed, suspended or taken over;
\* and what one that was struck leaves goes with the next download (the
\* `finally' blocks, cleanupOnSignals, removeStaleWorkDirs).
THEOREM LeavesNothing == Spec => []CleanedUp
<1>1. SharedInv => CleanedUp
  <2> SUFFICES ASSUME SharedInv PROVE CleanedUp
    OBVIOUS
  <2>1. /\ lock # None => lock.token \in Launches
        /\ workDirs \subseteq Launches
    BY DEF SharedInv, TypeOK, Lock
  <2>2. /\ lock # None /\ ~Alive(lock.token) => lock.token \in Struck
        /\ \A p \in workDirs : ~Alive(p) => p \in Struck
    BY <2>1 DEF SharedInv, OwnInv, Locking, Working, Alive, Struck
  <2> QED
    BY <2>2 DEF SharedInv, DeadDirGoes, CleanedUp
<1> QED
  BY <1>1, SharedInvHolds, PTL
=============================================================================
