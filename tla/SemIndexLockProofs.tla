------------------------- MODULE SemIndexLockProofs -------------------------
(***************************************************************************)
(* Machine-checked facts about the lock of the semantic index, for every   *)
(* number of processes and of crashes: the types, that one process at a    *)
(* time updates the index, and that the index goes away only when a        *)
(* complete one is there to replace it.                                    *)
(***************************************************************************)
EXTENDS SemIndexLock, FiniteSetTheorems, TLAPS

USE SemIndexLockAssumption

\* The lock of a folder is stale only when the process that made it died, and
\* as long as the lock kept everybody else out, who updates the index made its
\* lock, which is there and fresh; only between the renames of a Rebuild there is
\* no lock, and no other Rebuild is there.  A Rebuild that is about to move the old
\* index away has built the new one.
Holds(p) == owner["index"] = p /\ lock["index"] = "fresh"
Locked == Updating \ {"rename"}
StaleIsDead == \A d \in Dirs : lock[d] = "stale" => owner[d] = Dead
UpdaterHolds == raced \/ \A p \in Processes : pc[p] \in Locked => Holds(p)
GapIsAlone ==
    raced \/ \A p \in Processes : pc[p] = "rename" =>
        lock["index"] = "absent" /\ \A q \in Processes : pc[q] = "rename" => q = p
SwapIsBuilt ==
    raced \/ \A p \in Processes : pc[p] \in {"swap", "away"} => "rebuild" \in built

LockInv == TypeOK /\ StaleIsDead /\ UpdaterHolds /\ GapIsAlone /\ SwapIsBuilt

LEMMA Initial == Init => LockInv
  <1> SUFFICES ASSUME Init PROVE LockInv
    OBVIOUS
  <1>1. TypeOK
    <2>1. pc \in [Processes -> Labels] /\ kind \in [Processes -> {"update", "rebuild"}]
      BY DEF Init, Labels, Inner
    <2>2. tries \in [Processes -> 0 .. 1] /\ crashes \in 0 .. MaxCrashes
      BY DEF Init
    <2>3. lock \in [Dirs -> Locks] /\ \A d \in Dirs : lock[d] # "absent" => d \in exists
      BY DEF Init, Locks
    <2>4. owner \in [Dirs -> Processes \cup {Dead}]
      BY DEF Init
    <2> QED BY <2>1, <2>2, <2>3, <2>4 DEF Init, TypeOK
  <1>2. StaleIsDead /\ UpdaterHolds /\ GapIsAlone /\ SwapIsBuilt
    BY DEF Init, StaleIsDead, UpdaterHolds, GapIsAlone, SwapIsBuilt, Updating,
           Locked, Inner
  <1> QED BY <1>1, <1>2 DEF LockInv

LEMMA StartInv ==
  ASSUME LockInv, NEW p \in Processes, NEW k \in {"update", "rebuild"}, Start(p, k)
  PROVE  LockInv'
  BY DEF LockInv, TypeOK, StaleIsDead, UpdaterHolds, GapIsAlone, SwapIsBuilt,
         Holds, Start, Goto, folders, Labels, Locked, Updating, Inner

LEMMA MakeFolderInv ==
  ASSUME LockInv, NEW p \in Processes, MakeFolder(p)
  PROVE  LockInv'
  <1>1. TypeOK'
    BY DEF LockInv, TypeOK, MakeFolder, Goto, Target, Made, Labels, Inner, Dirs
  <1>2. StaleIsDead'
    BY DEF LockInv, TypeOK, StaleIsDead, MakeFolder, Goto, Target, Made, Dirs,
           Locked, Updating, Inner
  <1>3. UpdaterHolds'
    BY DEF LockInv, TypeOK, StaleIsDead, UpdaterHolds, GapIsAlone, Holds,
           MakeFolder, Goto, Target, Made, Dirs, Locked, Updating, Inner
  <1>4. GapIsAlone'
    BY DEF LockInv, TypeOK, StaleIsDead, UpdaterHolds, GapIsAlone, Holds,
           MakeFolder, Goto, Target, Made, Dirs, Locked, Updating, Inner
  <1>5. SwapIsBuilt'
    BY DEF LockInv, TypeOK, UpdaterHolds, GapIsAlone, SwapIsBuilt, Holds,
           MakeFolder, Goto, Target, Made, Dirs, Locked, Updating, Inner
  <1> QED BY <1>1, <1>2, <1>3, <1>4, <1>5 DEF LockInv

LEMMA CreateInv ==
  ASSUME LockInv, NEW p \in Processes, Create(p)
  PROVE  LockInv'
  <1>1. TypeOK'
    <2>1. pc' \in [Processes -> Labels]
      BY DEF LockInv, TypeOK, Create, Refused, Goto, Target, Granted, Interrupted,
             Labels, Inner
    <2>2. exists' \subseteq Dirs /\ built' \subseteq exists'
      BY DEF LockInv, TypeOK, Create, Target, Dirs
    <2>3. lock' \in [Dirs -> Locks]
      BY DEF LockInv, TypeOK, Create, Target, Locks, Dirs
    <2>4. \A d \in Dirs : lock'[d] # "absent" => d \in exists'
      BY DEF LockInv, TypeOK, Create, Target, Locks, Dirs
    <2>5. owner' \in [Dirs -> Processes \cup {Dead}]
      BY DEF LockInv, TypeOK, Create, Target, Dirs
    <2>6. raced' \in BOOLEAN
      BY DEF LockInv, TypeOK, Create
    <2>7. /\ kind' \in [Processes -> {"update", "rebuild"}]
          /\ tries' \in [Processes -> 0 .. 1] /\ crashes' \in 0 .. MaxCrashes
      BY DEF LockInv, TypeOK, Create
    <2> QED BY <2>1, <2>2, <2>3, <2>4, <2>5, <2>6, <2>7 DEF TypeOK
  <1>2. StaleIsDead'
    BY DEF LockInv, TypeOK, StaleIsDead, Create, Goto, Target, Refused, Free,
           Granted, InGap, Dirs, Locked, Updating, Inner
  <1>3. UpdaterHolds'
    BY DEF LockInv, TypeOK, StaleIsDead, UpdaterHolds, GapIsAlone, Holds,
           Create, Goto, Target, Refused, Free, Granted, InGap, Dirs, Locked,
           Updating, Inner
  <1>4. GapIsAlone'
    <2> SUFFICES ASSUME ~raced', NEW q \in Processes, pc'[q] = "rename"
                 PROVE  /\ lock'["index"] = "absent"
                        /\ \A r \in Processes : pc'[r] = "rename" => r = q
      BY DEF GapIsAlone
    <2>1. ~raced /\ pc[q] = "rename" /\ q # p
      BY DEF LockInv, TypeOK, Create, Goto, Granted, Refused
    <2>2. lock'["index"] = "absent"
      BY <2>1 DEF LockInv, TypeOK, GapIsAlone, Create, InGap, Target, Dirs
    <2>3. \A r \in Processes : pc'[r] = "rename" => pc[r] = "rename"
      BY DEF LockInv, TypeOK, Create, Goto, Granted, Refused
    <2> QED BY <2>1, <2>2, <2>3 DEF LockInv, GapIsAlone
  <1>5. SwapIsBuilt'
    BY DEF LockInv, TypeOK, UpdaterHolds, GapIsAlone, SwapIsBuilt, Holds,
           Create, Goto, Target, Refused, Free, Granted, InGap, Dirs, Locked,
           Updating, Inner
  <1> QED BY <1>1, <1>2, <1>3, <1>4, <1>5 DEF LockInv

LEMMA StatLockInv ==
  ASSUME LockInv, NEW p \in Processes, StatLock(p)
  PROVE  LockInv'
  <1>1. TypeOK'
    BY DEF LockInv, TypeOK, StatLock, Refused, Goto, Target, folders, Labels, Inner
  <1>2. StaleIsDead'
    BY DEF LockInv, TypeOK, StaleIsDead, StatLock, Refused, Goto, Target,
           folders, Locked, Updating, Inner
  <1>3. UpdaterHolds'
    BY DEF LockInv, TypeOK, StaleIsDead, UpdaterHolds, GapIsAlone, Holds,
           StatLock, Refused, Goto, Target, folders, Locked, Updating, Inner
  <1>4. GapIsAlone'
    BY DEF LockInv, TypeOK, StaleIsDead, UpdaterHolds, GapIsAlone, Holds,
           StatLock, Refused, Goto, Target, folders, Locked, Updating, Inner
  <1>5. SwapIsBuilt'
    BY DEF LockInv, TypeOK, UpdaterHolds, GapIsAlone, SwapIsBuilt, Holds,
           StatLock, Refused, Goto, Target, folders, Locked, Updating, Inner
  <1> QED BY <1>1, <1>2, <1>3, <1>4, <1>5 DEF LockInv

LEMMA RemoveStaleInv ==
  ASSUME LockInv, NEW p \in Processes, RemoveStale(p)
  PROVE  LockInv'
  <1>1. TypeOK'
    <2>1. pc' \in [Processes -> Labels]
      BY DEF LockInv, TypeOK, RemoveStale, Refused, Goto, Target, Granted,
             Interrupted,
             Labels, Inner
    <2>2. exists' \subseteq Dirs /\ built' \subseteq exists'
      BY DEF LockInv, TypeOK, RemoveStale, Target, Dirs
    <2>3. lock' \in [Dirs -> Locks]
      BY DEF LockInv, TypeOK, RemoveStale, Target, Locks, Dirs
    <2>4. \A d \in Dirs : lock'[d] # "absent" => d \in exists'
      BY DEF LockInv, TypeOK, RemoveStale, Target, Locks, Dirs
    <2>5. owner' \in [Dirs -> Processes \cup {Dead}] /\ raced' \in BOOLEAN
      BY DEF LockInv, TypeOK, RemoveStale, Target, Dirs
    <2> QED BY <2>1, <2>2, <2>3, <2>4, <2>5 DEF LockInv, TypeOK, RemoveStale
  <1>2. StaleIsDead'
    BY DEF LockInv, TypeOK, StaleIsDead, RemoveStale, Refused, Goto, Target,
           Dirs, Locks, Dead, Locked, Updating, Inner
  <1>3. UpdaterHolds'
    <2> SUFFICES ASSUME ~raced', NEW q \in Processes, pc'[q] \in Locked
                 PROVE  Holds(q)'
      BY DEF UpdaterHolds
    <2>1. ~raced /\ lock[Target(p)] # "fresh"
      BY DEF RemoveStale
    <2>2. Holds(q)
      <3>1. CASE pc[q] \in Locked
        BY <2>1, <3>1 DEF LockInv, UpdaterHolds
      <3>2. CASE q = p /\ pc[p] = "steal2"
        BY <2>1, <3>2 DEF LockInv, UpdaterHolds, Locked, Updating, Inner
      <3> QED BY <3>1, <3>2 DEF LockInv, TypeOK, RemoveStale, Refused, Goto, Target,
                                Locked, Updating, Inner
    <2> QED BY <2>1, <2>2 DEF LockInv, TypeOK, Holds, RemoveStale, Target, Dirs
  <1>4. GapIsAlone'
    BY DEF LockInv, TypeOK, StaleIsDead, UpdaterHolds, GapIsAlone, Holds,
           RemoveStale, Refused, Goto, Target, Dirs, Locks, Dead, Locked,
           Updating, Inner
  <1>5. SwapIsBuilt'
    BY DEF LockInv, TypeOK, UpdaterHolds, GapIsAlone, SwapIsBuilt, Holds,
           RemoveStale, Refused, Goto, Target, Dirs, Locks, Dead, Locked,
           Updating, Inner
  <1> QED BY <1>1, <1>2, <1>3, <1>4, <1>5 DEF LockInv

LEMMA BatchInv ==
  ASSUME LockInv, NEW p \in Processes, Batch(p)
  PROVE  LockInv'
  <1>1. TypeOK'
    BY DEF LockInv, TypeOK, Batch, Touched, Target, Labels, Inner, Locks, Dirs
  <1>2. StaleIsDead'
    BY DEF LockInv, TypeOK, StaleIsDead, Batch, Touched, Target, Inner, Locks, Dirs
  <1>3. UpdaterHolds'
    BY DEF LockInv, TypeOK, StaleIsDead, UpdaterHolds, GapIsAlone, Holds,
           Batch, Touched, Target, Inner, Locks, Dirs
  <1>4. GapIsAlone'
    BY DEF LockInv, TypeOK, StaleIsDead, UpdaterHolds, GapIsAlone, Holds,
           Batch, Touched, Target, Inner, Locks, Dirs
  <1>5. SwapIsBuilt'
    BY DEF LockInv, TypeOK, UpdaterHolds, GapIsAlone, SwapIsBuilt, Holds,
           Batch, Touched, Target, Inner, Locks, Dirs
  <1> QED BY <1>1, <1>2, <1>3, <1>4, <1>5 DEF LockInv

LEMMA EndUpdateInv ==
  ASSUME LockInv, NEW p \in Processes, EndUpdate(p)
  PROVE  LockInv'
  <1>1. TypeOK'
    BY DEF LockInv, TypeOK, EndUpdate, Made, Goto, Labels, Dirs
  <1>2. StaleIsDead'
    BY DEF LockInv, TypeOK, StaleIsDead, EndUpdate, Made, Goto, Dirs, Locked,
           Updating, Inner
  <1>3. UpdaterHolds'
    BY DEF LockInv, TypeOK, StaleIsDead, UpdaterHolds, GapIsAlone, Holds,
           EndUpdate, Made, Goto, Dirs, Locked, Updating, Inner
  <1>4. GapIsAlone'
    BY DEF LockInv, TypeOK, StaleIsDead, UpdaterHolds, GapIsAlone, Holds,
           EndUpdate, Made, Goto, Dirs, Locked, Updating, Inner
  <1>5. SwapIsBuilt'
    BY DEF LockInv, TypeOK, UpdaterHolds, GapIsAlone, SwapIsBuilt, Holds,
           EndUpdate, Made, Goto, Dirs, Locked, Updating, Inner
  <1> QED BY <1>1, <1>2, <1>3, <1>4, <1>5 DEF LockInv

LEMMA ClearRebuildInv ==
  ASSUME LockInv, NEW p \in Processes, ClearRebuild(p)
  PROVE  LockInv'
  <1>1. TypeOK'
    <2>1. pc' \in [Processes -> Labels]
      BY DEF LockInv, TypeOK, ClearRebuild, Refused, Goto, Target, Granted,
             Interrupted,
             Labels, Inner
    <2>2. exists' \subseteq Dirs /\ built' \subseteq exists'
      BY DEF LockInv, TypeOK, ClearRebuild, RemoveAll, Target, Dirs
    <2>3. lock' \in [Dirs -> Locks]
      BY DEF LockInv, TypeOK, ClearRebuild, RemoveAll, Target, Locks, Dirs
    <2>4. \A d \in Dirs : lock'[d] # "absent" => d \in exists'
      BY DEF LockInv, TypeOK, ClearRebuild, RemoveAll, Target, Locks, Dirs
    <2>5. owner' \in [Dirs -> Processes \cup {Dead}] /\ raced' \in BOOLEAN
      BY DEF LockInv, TypeOK, ClearRebuild
    <2>6. tries' \in [Processes -> 0 .. 1]
      BY DEF LockInv, TypeOK, ClearRebuild
    <2> QED BY <2>1, <2>2, <2>3, <2>4, <2>5, <2>6 DEF LockInv, TypeOK, ClearRebuild
  <1>2. StaleIsDead'
    BY DEF LockInv, TypeOK, StaleIsDead, ClearRebuild, RemoveAll, Goto, Dirs,
           Locked, Updating, Inner
  <1>3. UpdaterHolds'
    BY DEF LockInv, TypeOK, StaleIsDead, UpdaterHolds, GapIsAlone, Holds,
           ClearRebuild, RemoveAll, Goto, Dirs, Locked, Updating, Inner
  <1>4. GapIsAlone'
    BY DEF LockInv, TypeOK, StaleIsDead, UpdaterHolds, GapIsAlone, Holds,
           ClearRebuild, RemoveAll, Goto, Dirs, Locked, Updating, Inner
  <1>5. SwapIsBuilt'
    BY DEF LockInv, TypeOK, UpdaterHolds, GapIsAlone, SwapIsBuilt, Holds,
           ClearRebuild, RemoveAll, Goto, Dirs, Locked, Updating, Inner
  <1> QED BY <1>1, <1>2, <1>3, <1>4, <1>5 DEF LockInv

LEMMA EndInnerInv ==
  ASSUME LockInv, NEW p \in Processes, EndInner(p)
  PROVE  LockInv'
  <1>1. TypeOK'
    <2>1. pc' \in [Processes -> Labels]
      BY DEF LockInv, TypeOK, EndInner, Refused, Goto, Target, Granted, Interrupted,
             Labels, Inner
    <2>2. exists' \subseteq Dirs /\ built' \subseteq exists'
      BY DEF LockInv, TypeOK, EndInner, Made, Target, Dirs
    <2>3. lock' \in [Dirs -> Locks]
      BY DEF LockInv, TypeOK, EndInner, Made, Target, Locks, Dirs
    <2>4. \A d \in Dirs : lock'[d] # "absent" => d \in exists'
      BY DEF LockInv, TypeOK, EndInner, Made, Target, Locks, Dirs
    <2>5. owner' \in [Dirs -> Processes \cup {Dead}] /\ raced' \in BOOLEAN
      BY DEF LockInv, TypeOK, EndInner, Target, Dirs
    <2> QED BY <2>1, <2>2, <2>3, <2>4, <2>5 DEF LockInv, TypeOK, EndInner
  <1>2. StaleIsDead'
    BY DEF LockInv, TypeOK, StaleIsDead, EndInner, Interrupted, Made, Goto, Dirs,
           Locked, Updating, Inner
  <1>3. UpdaterHolds'
    BY DEF LockInv, TypeOK, StaleIsDead, UpdaterHolds, GapIsAlone, Holds,
           EndInner, Interrupted, Made, Goto, Dirs, Locked, Updating, Inner
  <1>4. GapIsAlone'
    BY DEF LockInv, TypeOK, StaleIsDead, UpdaterHolds, GapIsAlone, Holds,
           EndInner, Interrupted, Made, Goto, Dirs, Locked, Updating, Inner
  <1>5. SwapIsBuilt'
    BY DEF LockInv, TypeOK, UpdaterHolds, GapIsAlone, SwapIsBuilt, Holds,
           EndInner, Interrupted, Made, Goto, Dirs, Locked, Updating, Inner
  <1> QED BY <1>1, <1>2, <1>3, <1>4, <1>5 DEF LockInv

LEMMA RemoveOldInv ==
  ASSUME LockInv, NEW p \in Processes, RemoveOld(p)
  PROVE  LockInv'
  <1>1. TypeOK'
    <2>1. pc' \in [Processes -> Labels]
      BY DEF LockInv, TypeOK, RemoveOld, Refused, Goto, Target, Granted,
             Interrupted,
             Labels, Inner
    <2>2. exists' \subseteq Dirs /\ built' \subseteq exists'
      BY DEF LockInv, TypeOK, RemoveOld, RemoveAll, Target, Dirs
    <2>3. lock' \in [Dirs -> Locks]
      BY DEF LockInv, TypeOK, RemoveOld, RemoveAll, Target, Locks, Dirs
    <2>4. \A d \in Dirs : lock'[d] # "absent" => d \in exists'
      BY DEF LockInv, TypeOK, RemoveOld, RemoveAll, Target, Locks, Dirs
    <2>5. owner' \in [Dirs -> Processes \cup {Dead}] /\ raced' \in BOOLEAN
      BY DEF LockInv, TypeOK, RemoveOld, Target, Dirs
    <2> QED BY <2>1, <2>2, <2>3, <2>4, <2>5 DEF LockInv, TypeOK, RemoveOld
  <1>2. StaleIsDead'
    BY DEF LockInv, TypeOK, StaleIsDead, RemoveOld, RemoveAll, Goto, Dirs,
           Locked, Updating, Inner
  <1>3. UpdaterHolds'
    BY DEF LockInv, TypeOK, StaleIsDead, UpdaterHolds, GapIsAlone, Holds,
           RemoveOld, RemoveAll, Goto, Dirs, Locked, Updating, Inner
  <1>4. GapIsAlone'
    BY DEF LockInv, TypeOK, StaleIsDead, UpdaterHolds, GapIsAlone, Holds,
           RemoveOld, RemoveAll, Goto, Dirs, Locked, Updating, Inner
  <1>5. SwapIsBuilt'
    BY DEF LockInv, TypeOK, UpdaterHolds, GapIsAlone, SwapIsBuilt, Holds,
           RemoveOld, RemoveAll, Goto, Dirs, Locked, Updating, Inner
  <1> QED BY <1>1, <1>2, <1>3, <1>4, <1>5 DEF LockInv

\* A renamed folder takes its lock and its index with it.
LEMMA RenameType ==
  ASSUME TypeOK, NEW from \in Dirs, NEW to \in Dirs, from # to,
         from \in exists, Rename(from, to)
  PROVE  /\ exists' \subseteq Dirs /\ built' \subseteq exists'
         /\ lock' \in [Dirs -> Locks]
         /\ \A d \in Dirs : lock'[d] # "absent" => d \in exists'
         /\ owner' \in [Dirs -> Processes \cup {Dead}]
  <1>1. exists' \subseteq Dirs /\ built' \subseteq exists'
    BY DEF TypeOK, Rename, Moved
  <1>2. lock' \in [Dirs -> Locks]
    BY DEF TypeOK, Rename, Locks
  <1>3. \A d \in Dirs : lock'[d] # "absent" => d \in exists'
    BY DEF TypeOK, Rename, Moved
  <1>4. owner' \in [Dirs -> Processes \cup {Dead}]
    BY DEF TypeOK, Rename
  <1> QED BY <1>1, <1>2, <1>3, <1>4

\* Only who holds the lock gets here, and it leaves the lock with the old index.
LEMMA MoveAwayInv ==
  ASSUME LockInv, NEW p \in Processes, MoveAway(p)
  PROVE  LockInv'
  <1>1. TypeOK'
    <2>1. CASE CanRename("index", "old") /\ Rename("index", "old")
      BY <2>1, RenameType DEF LockInv, TypeOK, MoveAway, CanRename, RenameFails,
                              Goto, folders, Labels, Dirs
    <2>2. CASE UNCHANGED folders
      BY <2>2 DEF LockInv, TypeOK, MoveAway, RenameFails, Goto, folders, Labels
    <2> QED BY <2>1, <2>2 DEF MoveAway, RenameFails
  <1>2. StaleIsDead'
    BY DEF LockInv, TypeOK, StaleIsDead, MoveAway, Rename, RenameFails, folders,
           Dirs, Dead
  <1>3. UpdaterHolds' /\ GapIsAlone' /\ SwapIsBuilt'
    <2>1. CASE raced
      BY <2>1 DEF UpdaterHolds, GapIsAlone, SwapIsBuilt, MoveAway
    <2>2. CASE ~raced
      <3>1. \A q \in Processes : pc[q] \in Updating => q = p
        BY <2>2 DEF LockInv, UpdaterHolds, GapIsAlone, Holds, MoveAway, Locked,
                    Updating
      <3>2. \A q \in Processes \ {p} : pc'[q] \notin Updating
        BY <3>1 DEF LockInv, TypeOK, MoveAway, RenameFails, Goto
      <3>3. pc'[p] \in {"rename", "unlock"}
        BY DEF LockInv, TypeOK, MoveAway, RenameFails, Goto
      <3>4. pc'[p] = "rename" => lock'["index"] = "absent"
        BY DEF LockInv, TypeOK, MoveAway, Rename, RenameFails, Goto, folders, Dirs
      <3> QED BY <3>2, <3>3, <3>4 DEF UpdaterHolds, GapIsAlone, SwapIsBuilt,
                                      Locked, Updating, Inner
    <2> QED BY <2>1, <2>2
  <1> QED BY <1>1, <1>2, <1>3 DEF LockInv

\* Between the renames nobody holds a lock of the index, so nobody else updates.
LEMMA PutInPlaceInv ==
  ASSUME LockInv, NEW p \in Processes, PutInPlace(p)
  PROVE  LockInv'
  <1>1. TypeOK'
    <2>1. CASE CanRename("rebuild", "index") /\ Rename("rebuild", "index")
      BY <2>1, RenameType DEF LockInv, TypeOK, PutInPlace, CanRename, RenameFails,
                              Goto, folders, Labels, Dirs
    <2>2. CASE UNCHANGED folders
      BY <2>2 DEF LockInv, TypeOK, PutInPlace, RenameFails, Goto, folders, Labels
    <2> QED BY <2>1, <2>2 DEF PutInPlace, RenameFails
  <1>2. StaleIsDead'
    BY DEF LockInv, TypeOK, StaleIsDead, PutInPlace, Rename, RenameFails, folders,
           Dirs, Dead
  <1>3. UpdaterHolds' /\ GapIsAlone' /\ SwapIsBuilt'
    <2>1. CASE raced
      BY <2>1 DEF UpdaterHolds, GapIsAlone, SwapIsBuilt, PutInPlace
    <2>2. CASE ~raced
      <3>1. \A q \in Processes : pc[q] \in Updating => q = p
        BY <2>2 DEF LockInv, UpdaterHolds, GapIsAlone, Holds, PutInPlace, Locked
      <3>2. \A q \in Processes : pc'[q] \notin Updating
        BY <3>1 DEF LockInv, TypeOK, PutInPlace, RenameFails, Goto, Updating, Inner
      <3> QED BY <3>2 DEF UpdaterHolds, GapIsAlone, SwapIsBuilt, Locked, Updating
    <2> QED BY <2>1, <2>2
  <1> QED BY <1>1, <1>2, <1>3 DEF LockInv

\* Who unlocks does not update; the lock of who does, is another's.
LEMMA UnlockInv ==
  ASSUME LockInv, NEW p \in Processes, Unlock(p)
  PROVE  LockInv'
  <1>1. TypeOK'
    BY DEF LockInv, TypeOK, Unlock, Goto, Labels, Locks, Dirs
  <1>2. StaleIsDead'
    BY DEF LockInv, TypeOK, StaleIsDead, Unlock, Goto, Dirs, Locked, Updating, Inner
  <1>3. UpdaterHolds'
    BY DEF LockInv, TypeOK, StaleIsDead, UpdaterHolds, GapIsAlone, Holds,
           Unlock, Goto, Dirs, Locked, Updating, Inner
  <1>4. GapIsAlone'
    BY DEF LockInv, TypeOK, StaleIsDead, UpdaterHolds, GapIsAlone, Holds,
           Unlock, Goto, Dirs, Locked, Updating, Inner
  <1>5. SwapIsBuilt'
    BY DEF LockInv, TypeOK, UpdaterHolds, GapIsAlone, SwapIsBuilt, Holds,
           Unlock, Goto, Dirs, Locked, Updating, Inner
  <1> QED BY <1>1, <1>2, <1>3, <1>4, <1>5 DEF LockInv

LEMMA CrashInv ==
  ASSUME LockInv, NEW p \in Processes, Crash(p)
  PROVE  LockInv'
  <1>1. TypeOK'
    BY DEF LockInv, TypeOK, Crash, Goto, Labels, Locks, Dirs, Dead
  <1>2. StaleIsDead'
    BY DEF LockInv, TypeOK, StaleIsDead, Crash, Goto, Dirs, Dead, Locked,
           Updating, Inner
  <1>3. UpdaterHolds'
    BY DEF LockInv, TypeOK, StaleIsDead, UpdaterHolds, GapIsAlone, Holds,
           Crash, Goto, Dirs, Dead, Locked, Updating, Inner
  <1>4. GapIsAlone'
    BY DEF LockInv, TypeOK, StaleIsDead, UpdaterHolds, GapIsAlone, Holds,
           Crash, Goto, Dirs, Dead, Locked, Updating, Inner
  <1>5. SwapIsBuilt'
    BY DEF LockInv, TypeOK, UpdaterHolds, GapIsAlone, SwapIsBuilt, Holds,
           Crash, Goto, Dirs, Dead, Locked, Updating, Inner
  <1> QED BY <1>1, <1>2, <1>3, <1>4, <1>5 DEF LockInv

LEMMA ExpireInv ==
  ASSUME LockInv, NEW d \in Dirs, Expire(d)
  PROVE  LockInv'
  BY DEF LockInv, TypeOK, StaleIsDead, UpdaterHolds, GapIsAlone, SwapIsBuilt, Holds,
         Expire, Locks, Dirs, Dead

LEMMA Inductive == LockInv /\ [Next]_vars => LockInv'
  <1> SUFFICES ASSUME LockInv, [Next]_vars PROVE LockInv'
    OBVIOUS
  <1>1. CASE UNCHANGED vars
    BY <1>1 DEF LockInv, TypeOK, StaleIsDead, UpdaterHolds, GapIsAlone,
                SwapIsBuilt, Holds, vars
  <1>2. ASSUME NEW p \in Processes, Step(p) \/ Batch(p) \/ Crash(p)
        PROVE  LockInv'
    BY <1>2, MakeFolderInv, CreateInv, StatLockInv, RemoveStaleInv, BatchInv,
           EndUpdateInv,
       ClearRebuildInv, EndInnerInv, MoveAwayInv, PutInPlaceInv, RemoveOldInv,
       UnlockInv, CrashInv DEF Step
  <1> QED BY <1>1, <1>2, StartInv, ExpireInv DEF Next

\* The invariant holds over every run of locks, stale locks that are removed,
\* updates, rebuilds and dying processes (store.go, index.go); it contains the
\* types.
THEOREM LockInvariant == Spec => []LockInv
  BY Initial, Inductive, PTL DEF Spec

LEMMA NoTwoUpdaters == LockInv => OneUpdater
  <1> DEFINE S == {p \in Processes : pc[p] \in Updating}
  <1> SUFFICES ASSUME LockInv, ~raced PROVE Cardinality(S) <= 1
    BY DEF OneUpdater
  <1>1. \A p, q \in S : p = q
    BY DEF LockInv, UpdaterHolds, GapIsAlone, Holds, Locked
  <1>2. CASE S = {}
    BY <1>2, FS_EmptySet
  <1>3. ASSUME NEW p \in S PROVE Cardinality(S) <= 1
    <2>1. S = {p}
      BY <1>1
    <2> QED BY <2>1, FS_Singleton
  <1> QED BY <1>2, <1>3

\* Whatever crashes, expires or rebuilds, and for any number of processes: until
\* a stale lock is removed too late, an unlock removes the lock of another, or a lock
\* is made between the renames of a Rebuild, one process at a time updates or
\* rebuilds the index, up to the rename that puts a new one in place (ErrLocked).
THEOREM OneUpdaterAlways == Spec => []OneUpdater
  BY LockInvariant, NoTwoUpdaters, PTL

\* The folder of the index loses a complete index only to MoveAway, which has
\* built the new one.
LEMMA SwapStep ==
  ASSUME LockInv, Next, "index" \in built, "index" \notin built', ~raced
  PROVE  "rebuild" \in built
  <1>1. PICK p \in Processes : MoveAway(p) \/ PutInPlace(p)
    BY DEF Next, Step, Start, MakeFolder, Create, StatLock, RemoveStale, EndUpdate,
           Made, ClearRebuild, EndInner, RemoveOld, RemoveAll, Unlock, Batch, Crash,
           Expire, folders
  <1>2. ~PutInPlace(p)
    BY DEF LockInv, TypeOK, PutInPlace, CanRename, RenameFails, folders
  <1> QED BY <1>1, <1>2 DEF LockInv, SwapIsBuilt, MoveAway

\* Rebuild puts the new index in place when it is complete, and takes the old
\* one away only then, also when it is cancelled or dies before.
THEOREM SwapAlways == Spec => CompleteBeforeSwap
  <1>1. LockInv /\ [Next]_vars
          => [("index" \in built /\ "index" \notin built' /\ ~raced)
                => "rebuild" \in built]_vars
    BY SwapStep
  <1> QED BY <1>1, LockInvariant, PTL DEF Spec, CompleteBeforeSwap
=============================================================================
