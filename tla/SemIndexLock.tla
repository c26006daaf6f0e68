---------------------------- MODULE SemIndexLock ----------------------------
(***************************************************************************)
(* The lock of the semantic index between processes (the application and   *)
(* the command line): Lock and touchLock of pkg/semindex/store.go, and how *)
(* Update and Rebuild of pkg/semindex/index.go use them.                   *)
(*                                                                         *)
(* The lock is a file created exclusively inside the index folder, removed *)
(* by its path, and taken over when it was not touched for an hour.        *)
(* Rebuild fills the .rebuild folder under a lock of its own and then      *)
(* renames two folders.  Every call on the file system is one step.        *)
(***************************************************************************)
EXTENDS Naturals, FiniteSets

CONSTANTS
    Processes,
    MaxCrashes    \* bound: processes that die

ASSUME SemIndexLockAssumption ==
    /\ MaxCrashes \in Nat /\ IsFiniteSet(Processes)
    /\ "dead" \notin Processes

VARIABLES
    pc,       \* the next step of every process
    kind,     \* what it runs
    tries,    \* failed attempts of its Lock
    exists,   \* the folders that exist
    lock,     \* the lock file in each folder: absent, fresh, or stale
    owner,    \* history: who created the lock of a folder; Dead once it died
    built,    \* the folders that hold a complete index
    raced,    \* history: the lock let a second process in
    crashes

vars == <<pc, kind, tries, exists, lock, owner, built, raced, crashes>>
folders == <<exists, lock, owner, built>>

Dirs == {"index", "rebuild", "old"}
Dead == "dead"
Locks == {"absent", "fresh", "stale"}

Init ==
    /\ pc = [p \in Processes |-> "idle"]
    /\ kind = [p \in Processes |-> "update"]
    /\ tries = [p \in Processes |-> 0]
    /\ exists = {} /\ built = {}
    /\ lock = [d \in Dirs |-> "absent"]
    /\ owner = [d \in Dirs |-> Dead]
    /\ raced = FALSE /\ crashes = 0

Goto(p, label) == pc' = [pc EXCEPT ![p] = label]

\* The folder whose lock a process takes next: the index's own, and for a
\* Rebuild then that of .rebuild.
Inner == {"mkdir2", "lock2", "stat2", "steal2", "work2"}
Target(p) == IF pc[p] \in Inner THEN "rebuild" ELSE "index"

Start(p, k) ==
    /\ pc[p] = "idle"
    /\ kind' = [kind EXCEPT ![p] = k]
    /\ tries' = [tries EXCEPT ![p] = 0]
    /\ Goto(p, "mkdir")
    /\ UNCHANGED <<folders, raced, crashes>>

Made(d) == exists \cup {d}
MakeFolder(p) ==
    /\ pc[p] \in {"mkdir", "mkdir2"}
    /\ exists' = Made(Target(p))
    /\ Goto(p, IF pc[p] = "mkdir2" THEN "lock2" ELSE "lock")
    /\ UNCHANGED <<kind, tries, lock, owner, built, raced, crashes>>

\* An Update that cannot lock returns an error (ErrLocked); a Rebuild whose inner
\* Update cannot gives its own lock back.
Refused(p) == Goto(p, IF Target(p) = "rebuild" THEN "unlock" ELSE "idle")

\* The exclusive create of the lock file; it fails too when the folder was renamed
\* since it was made.
NotExclusive(p, d) == TRUE   \* mutant of Free
Free(p, d) == lock[d] = "absent"
Granted(p) == IF pc[p] = "lock2" THEN "work2"
              ELSE IF kind[p] = "rebuild" THEN "clear" ELSE "work"
\* Between the renames of a Rebuild its lock is in ".old".
InGap(p) == \E q \in Processes \ {p} : pc[q] = "rename"
Create(p) ==
    LET d == Target(p)
    IN /\ pc[p] \in {"lock", "lock2"}
       /\ \/ /\ d \in exists /\ Free(p, d)
             /\ lock' = [lock EXCEPT ![d] = "fresh"]
             /\ owner' = [owner EXCEPT ![d] = p]
             /\ raced' = (raced \/ (d = "index" /\ InGap(p)))
             /\ Goto(p, Granted(p))
          \/ /\ d \in exists /\ ~Free(p, d)
             /\ Goto(p, IF pc[p] = "lock2" THEN "stat2" ELSE "stat")
             /\ UNCHANGED <<lock, owner, raced>>
          \/ /\ d \notin exists
             /\ Refused(p)
             /\ UNCHANGED <<lock, owner, raced>>
       /\ UNCHANGED <<kind, tries, exists, built, crashes>>

\* The lock is there: its time tells whether its process died.  On the second
\* attempt a stale lock is removed too, but not taken.
NeverStale(d) == FALSE       \* mutant of Stale
Stale(d) == lock[d] = "stale"
StatLock(p) ==
    LET d == Target(p)
    IN /\ pc[p] \in {"stat", "stat2"}
       /\ \/ /\ ~Stale(d)
             /\ Refused(p)
          \/ /\ Stale(d)
             /\ Goto(p, IF pc[p] = "stat2" THEN "steal2" ELSE "steal")
       /\ UNCHANGED <<kind, tries, folders, raced, crashes>>

RemoveStale(p) ==
    LET d == Target(p)
    IN /\ pc[p] \in {"steal", "steal2"}
       /\ lock' = [lock EXCEPT ![d] = "absent"]
       /\ raced' = (raced \/ lock[d] = "fresh")
       /\ IF tries[p] = 0
          THEN /\ tries' = [tries EXCEPT ![p] = 1]
               /\ Goto(p, IF pc[p] = "steal2" THEN "lock2" ELSE "lock")
          ELSE /\ Refused(p)
               /\ UNCHANGED tries
       /\ UNCHANGED <<kind, exists, owner, built, crashes>>

\* A batch is embedded and the index's lock is touched, whoever made it; an
\* Update and the inner Update of a Rebuild go on ...
Touched(d) == IF lock[d] = "absent" THEN "absent" ELSE "fresh"
Batch(p) ==
    /\ pc[p] \in {"work", "work2"}
    /\ lock' = [lock EXCEPT !["index"] = Touched("index"),
                            ![Target(p)] = Touched(Target(p))]
    /\ UNCHANGED <<pc, kind, tries, exists, owner, built, raced, crashes>>

\* ... until the last Commit, or an error before it (ErrCorrupt,
\* ErrRebuildNeeded, no scrap folder).
EndUpdate(p) ==
    /\ pc[p] = "work"
    /\ \/ /\ exists' = Made("index")
          /\ built' = built \cup {"index"}
       \/ UNCHANGED <<exists, built>>
    /\ Goto(p, "unlock")
    /\ UNCHANGED <<kind, tries, lock, owner, raced, crashes>>

\* os.RemoveAll; its error is not looked at, so the folder may be there still,
\* whole or without some of its files.
RemoveAll(d) ==
    \/ /\ exists' \in {exists, exists \ {d}} /\ built' = built \ {d}
       /\ lock' = [lock EXCEPT ![d] = "absent"]
    \/ UNCHANGED <<exists, built, lock>>

ClearRebuild(p) ==
    /\ pc[p] = "clear"
    /\ RemoveAll("rebuild")
    /\ tries' = [tries EXCEPT ![p] = 0]
    /\ Goto(p, "mkdir2")
    /\ UNCHANGED <<kind, owner, raced, crashes>>

\* A failing or cancelled inner Update ends the Rebuild.
GoesOn == "swap"           \* mutant of Interrupted
Interrupted == "unlock"
EndInner(p) ==
    /\ pc[p] = "work2"
    /\ lock' = [lock EXCEPT !["rebuild"] = "absent"]
    /\ \/ /\ exists' = Made("rebuild")
          /\ built' = built \cup {"rebuild"}
          /\ Goto(p, "swap")
       \/ /\ Goto(p, Interrupted)
          /\ UNCHANGED <<exists, built>>
    /\ UNCHANGED <<kind, tries, owner, raced, crashes>>

\* os.Rename(from, to): the whole folder, its lock file with it.
Moved(S, from, to) == (S \ {from, to}) \cup (IF from \in S THEN {to} ELSE {})
Rename(from, to) ==
    /\ exists' = Moved(exists, from, to)
    /\ built' = Moved(built, from, to)
    /\ lock' = [lock EXCEPT ![to] = lock[from], ![from] = "absent"]
    /\ owner' = [owner EXCEPT ![to] = owner[from], ![from] = Dead]

RemoveOld(p) ==
    /\ pc[p] \in {"swap", "placed"}
    /\ RemoveAll("old")
    /\ Goto(p, IF pc[p] = "swap" THEN "away" ELSE "unlock")
    /\ UNCHANGED <<kind, tries, owner, raced, crashes>>

\* A rename fails when its target is there or its source is not, and when the
\* system refuses (on Windows, a file in the folder is open).
CanRename(from, to) == from \in exists /\ to \notin exists
RenameFails(p) ==
    /\ Goto(p, "unlock")
    /\ UNCHANGED folders

\* The index, if there is one, steps aside.
MoveAway(p) ==
    /\ pc[p] = "away"
    /\ \/ /\ CanRename("index", "old")
          /\ Rename("index", "old")
          /\ Goto(p, "rename")
       \/ /\ "index" \notin exists
          /\ Goto(p, "rename")
          /\ UNCHANGED folders
       \/ /\ "index" \in exists
          /\ RenameFails(p)
    /\ UNCHANGED <<kind, tries, raced, crashes>>

\* The new index takes its place.
PutInPlace(p) ==
    /\ pc[p] = "rename"
    /\ \/ /\ CanRename("rebuild", "index")
          /\ Rename("rebuild", "index")
          /\ Goto(p, "placed")
       \/ RenameFails(p)
    /\ UNCHANGED <<kind, tries, raced, crashes>>

\* The function Lock returned removes the lock file by its path.
Unlock(p) ==
    /\ pc[p] = "unlock"
    /\ lock' = [lock EXCEPT !["index"] = "absent"]
    /\ raced' = (raced \/ (lock["index"] # "absent" /\ owner["index"] # p))
    /\ Goto(p, "idle")
    /\ UNCHANGED <<kind, tries, exists, owner, built, crashes>>

Crash(p) ==
    /\ pc[p] # "idle"
    /\ crashes < MaxCrashes
    /\ crashes' = crashes + 1
    /\ owner' = [d \in Dirs |-> IF owner[d] = p THEN Dead ELSE owner[d]]
    /\ Goto(p, "idle")
    /\ UNCHANGED <<kind, tries, exists, lock, built, raced>>

\* An hour passes over the lock of a process that died.
Expire(d) ==
    /\ lock[d] = "fresh" /\ owner[d] = Dead
    /\ lock' = [lock EXCEPT ![d] = "stale"]
    /\ UNCHANGED <<pc, kind, tries, exists, owner, built, raced, crashes>>

Step(p) ==
    \/ MakeFolder(p) \/ Create(p) \/ StatLock(p) \/ RemoveStale(p) \/ EndUpdate(p)
    \/ ClearRebuild(p) \/ EndInner(p) \/ MoveAway(p) \/ PutInPlace(p)
    \/ RemoveOld(p) \/ Unlock(p)

Next ==
    \/ \E p \in Processes : Step(p) \/ Batch(p) \/ Crash(p)
    \/ \E p \in Processes, k \in {"update", "rebuild"} : Start(p, k)
    \/ \E d \in Dirs : Expire(d)

Spec == Init /\ [][Next]_vars

\* A process goes on, time passes, and somebody asks for an update again.
Fairness ==
    /\ \A p \in Processes : WF_vars(Step(p)) /\ WF_vars(Start(p, "update"))
    /\ \A d \in Dirs : WF_vars(Expire(d))

FairSpec == Spec /\ Fairness

(***************************************************************************)
(* Properties.                                                             *)
(***************************************************************************)
Labels == {"idle", "mkdir", "lock", "stat", "steal", "work", "clear", "swap",
           "away", "rename", "placed", "unlock"} \cup Inner

\* A process that writes the index or relies on being the only one to: from the
\* lock it was granted to the rename that puts the new index in place.
Updating == {"work", "clear", "swap", "away", "rename"} \cup Inner

\* Variables have their types, and only a folder that exists holds a lock or an
\* index (os.MkdirAll before the create, os.Rename of whole folders).
TypeOK ==
    /\ pc \in [Processes -> Labels]
    /\ kind \in [Processes -> {"update", "rebuild"}]
    /\ tries \in [Processes -> 0 .. 1]
    /\ exists \subseteq Dirs /\ built \subseteq exists
    /\ lock \in [Dirs -> Locks]
    /\ \A d \in Dirs : lock[d] # "absent" => d \in exists
    /\ owner \in [Dirs -> Processes \cup {Dead}]
    /\ raced \in BOOLEAN
    /\ crashes \in 0 .. MaxCrashes

\* ErrLocked: while a process updates or rebuilds the index, no other one does,
\* over crashes, stale locks, failing renames and both renames of a Rebuild.  The
\* code has exactly three ways around it, and `raced' records that a step
\* took one: a stale lock removed after another process had replaced it (Lock), an
\* unlock after the renames that removes the lock the next process put into the new
\* folder, and the gap between the renames, in which the lock of a Rebuild is in
\* ".old" and a new folder and lock can be made.
OneUpdater ==
    raced \/ Cardinality({p \in Processes : pc[p] \in Updating}) <= 1

\* Rebuild "puts it in place when it is complete": the index goes away only when
\* a complete one is ready to take its place, whatever was cancelled or died
\* before (with one updater at a time).
CompleteBeforeSwap ==
    [][("index" \in built /\ "index" \notin built' /\ ~raced) => "rebuild" \in built]_vars

\* The processes' deaths and each other's locks never keep everybody out for
\* good: again and again one of them updates the index (lockStale, Unlock).
StillUpdated == []<>(\E p \in Processes : pc[p] \in Updating)
=============================================================================
