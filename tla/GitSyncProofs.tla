--------------------------- MODULE GitSyncProofs ---------------------------
(***************************************************************************)
(* Machine-checked facts about the git sync engine, for every number of    *)
(* goroutines, edits and notes and every bound: the types, the mutual      *)
(* exclusion of executeSync, and that nothing is lost on either side but   *)
(* what was put in the way of an open rebase or merge.                     *)
(***************************************************************************)
EXTENDS GitSync, TLAPS

USE GitSyncAssumption

(***************************************************************************)
(* Versions: what git's operations return.                                 *)
(***************************************************************************)

LEMMA EmptyVersion == Empty \in Version /\ Empty.seen = {} /\ Empty.text = {}
  BY DEF Empty, Version

LEMMA VersionFields ==
  ASSUME NEW v \in Version
  PROVE  v.seen \in SUBSET Edits /\ v.text \in SUBSET Edits
  BY DEF Version

LEMMA ExtendVersion ==
  ASSUME NEW v \in Version, NEW S \in SUBSET Edits
  PROVE  /\ Extend(v, S) \in Version
         /\ Extend(v, S).seen = v.seen \cup S
         /\ Extend(v, S).text = v.text \cup S
  BY DEF Extend, Version

\* A clean merge descends from both versions; it holds no text that neither held, and
\* lacks one that either held only when the other had dropped it.
LEMMA JoinsVersion ==
  ASSUME NEW v \in Version, NEW w \in Version, NEW x \in Joins(v, w)
  PROVE  /\ x \in Version
         /\ x.seen = v.seen \cup w.seen
         /\ x.text \subseteq v.text \cup w.text
         /\ \A e \in (v.text \cup w.text) \ x.text :
               e \in v.seen \cap w.seen /\ ~(e \in v.text /\ e \in w.text)
  <1>1. PICK S \in SUBSET Unsure(v, w) :
            x = [seen |-> v.seen \cup w.seen,
                 text |-> ((v.text \cup w.text) \ Unsure(v, w)) \cup S]
    BY DEF Joins
  <1>2. /\ x.seen = v.seen \cup w.seen
        /\ x.text = ((v.text \cup w.text) \ Unsure(v, w)) \cup S
    BY <1>1
  <1>3. Unsure(v, w) \subseteq v.text \cup w.text
    BY DEF Unsure
  <1>4. x.seen \in SUBSET Edits /\ x.text \in SUBSET Edits
    BY <1>2, <1>3, VersionFields
  <1> QED
    BY <1>1, <1>2, <1>3, <1>4 DEF Version, Unsure

LEMMA CommitVersion ==
  ASSUME TypeOK, CommitIndex
  PROVE  /\ theirs' = Empty /\ theirs' \in Version
         /\ head' \in Version /\ detached' \in Version
         /\ IF rebasing
            THEN head' = head
            ELSE /\ head'.seen = head.seen \cup theirs.seen \cup (staged \cap LocalEdits)
                 /\ head'.text = staged
                 /\ detached' = detached
         /\ rebasing => detached'.text = staged
  <1> DEFINE new == [seen |-> Current.seen \cup theirs.seen \cup (staged \cap LocalEdits),
                     text |-> staged]
  <1>1. /\ head' = IF rebasing THEN head ELSE new
        /\ detached' = IF rebasing THEN new ELSE detached
        /\ theirs' = Empty
    BY DEF CommitIndex
  <1>2. Current \in Version /\ (~rebasing => Current = head)
    BY DEF Current, TypeOK
  <1>3. Current.seen \in SUBSET Edits /\ theirs.seen \in SUBSET Edits
    BY <1>2, VersionFields DEF TypeOK
  <1>4. /\ new \in Version /\ new.text = staged
        /\ new.seen = Current.seen \cup theirs.seen \cup (staged \cap LocalEdits)
    BY <1>3 DEF Version, TypeOK
  <1> HIDE DEF new
  <1> QED
    BY <1>1, <1>2, <1>4, EmptyVersion DEF TypeOK

(***************************************************************************)
(* Types                                                                   *)
(***************************************************************************)

\* The conjuncts of TypeOK that the ends of a goroutine step touch.
ControlOK == pc' \in [Goroutines -> Labels] /\ busy' \in BOOLEAN /\ status' \in Statuses

LEMMA FinishType ==
  ASSUME TypeOK, NEW g \in Goroutines, NEW s \in Statuses, Finish(g, s)
  PROVE  ControlOK
  BY DEF TypeOK, ControlOK, Finish, Release, Report, Labels

LEMMA GotoType ==
  ASSUME TypeOK, NEW g \in Goroutines, NEW label \in Labels, Goto(g, label)
  PROVE  ControlOK
  BY DEF TypeOK, ControlOK, Goto

LEMMA FaultType == ASSUME TypeOK, Fault PROVE faults' \in Nat
  BY DEF TypeOK, Fault

LEMMA FailsType ==
  ASSUME TypeOK, NEW g \in Goroutines, Fails(g)
  PROVE  ControlOK /\ faults' \in Nat
  BY FinishType, FaultType DEF Fails, Statuses

LEMMA AfterPullType ==
  ASSUME TypeOK, NEW g \in Goroutines, NEW s \in Statuses, AfterPull(g, s)
  PROVE  ControlOK
  BY FinishType, GotoType DEF AfterPull, Labels

LEMMA GiveUpType ==
  ASSUME TypeOK, NEW g \in Goroutines, GiveUp(g)
  PROVE  /\ ControlOK
         /\ todo' \in [Goroutines -> SUBSET Notes] /\ copy' \in [Goroutines -> SUBSET Edits]
  <1>1. ControlOK
    BY GotoType DEF GiveUp, Labels
  <1> QED
    BY <1>1 DEF TypeOK, GiveUp

\* The conjuncts that the working tree and HEAD are.
TreeOK == /\ work' \in SUBSET Edits /\ staged' \in SUBSET Edits /\ unmerged' \in SUBSET Notes
          /\ theirs' \in Version /\ detached' \in Version /\ rebasing' \in BOOLEAN

LEMMA NotesType == ASSUME NEW S \in SUBSET Edits PROVE NotesOf(S) \in SUBSET Notes
  BY DEF NotesOf

LEMMA StopRebaseType ==
  ASSUME TypeOK, NEW at \in SUBSET Contending, StopRebase(at)
  PROVE  TreeOK
  <1>1. PICK done \in SUBSET Replayed : \E rest \in SUBSET Replayed :
             /\ rebasing' = TRUE
             /\ detached' = Extend(remote, done)
             /\ staged' = remote.text \cup done \cup rest
             /\ work' = (work \ head.text) \cup staged' \cup at
             /\ unmerged' = NotesOf(at)
             /\ theirs' = [seen |-> {}, text |-> at]
    BY DEF StopRebase
  <1>2. remote.text \in SUBSET Edits /\ head.text \in SUBSET Edits
    BY VersionFields DEF TypeOK
  <1>3. done \in SUBSET Edits /\ at \in SUBSET Edits /\ Replayed \in SUBSET Edits
    BY <1>2 DEF Replayed, Contending
  <1>4. unmerged' \in SUBSET Notes
    BY <1>1, <1>3, NotesType
  <1>5. theirs' \in Version
    BY <1>1, <1>3 DEF Version
  <1>6. detached' \in Version
    BY <1>1, <1>3, ExtendVersion DEF TypeOK
  <1>7. staged' \in SUBSET Edits
    BY <1>1, <1>2, <1>3
  <1>8. work' \in SUBSET Edits
    BY <1>1, <1>3, <1>7 DEF TypeOK
  <1> QED
    BY <1>1, <1>4, <1>5, <1>6, <1>7, <1>8 DEF TreeOK

LEMMA CurrentType == TypeOK => Current \in Version /\ Current.text \in SUBSET Edits
                                /\ Current.seen \in SUBSET Edits
  BY VersionFields DEF Current, TypeOK

LEMMA ConflictsType == TypeOK => Conflicts(origin) \in SUBSET Notes
  <1> SUFFICES ASSUME TypeOK PROVE Conflicts(origin) \in SUBSET Notes
    OBVIOUS
  <1>1. origin.seen \ Current.seen \in SUBSET Edits
    BY VersionFields DEF TypeOK
  <1> QED
    BY <1>1, NotesType DEF Conflicts, Incoming

LEMMA MergeType ==
  ASSUME TypeOK, MergeClean \/ MergeStops \/ MergeNone
  PROVE  /\ work' \in SUBSET Edits /\ staged' \in SUBSET Edits
         /\ unmerged' \in SUBSET Notes /\ theirs' \in Version
         /\ head' \in Version /\ detached' \in Version
  <1>c. Current \in Version /\ Current.text \in SUBSET Edits
    BY CurrentType
  <1>o. origin \in Version /\ origin.text \in SUBSET Edits
    BY VersionFields DEF TypeOK
  <1>1. CASE MergeNone
    BY <1>1 DEF MergeNone, TypeOK
  <1>2. CASE MergeClean
    <2>1. PICK v \in Merged :
             /\ head' = IF rebasing THEN head ELSE v
             /\ detached' = IF rebasing THEN v ELSE detached
             /\ staged' = v.text
             /\ work' = (work \ Current.text) \cup v.text
             /\ UNCHANGED <<unmerged, theirs>>
      BY <1>2 DEF MergeClean
    <2>2. v \in Version /\ v.text \in SUBSET Edits
      BY <1>c, <1>o, JoinsVersion, VersionFields DEF Merged
    <2> QED
      BY <2>1, <2>2 DEF TypeOK
  <1>3. CASE MergeStops
    <2>1. PICK v \in Merged :
             /\ staged' = {e \in v.text : NoteOf[e] \notin Conflicts(origin)}
                          \cup {e \in Current.text : NoteOf[e] \in Conflicts(origin)}
             /\ work' = (work \ Current.text) \cup staged'
                        \cup {e \in origin.text : NoteOf[e] \in Conflicts(origin)}
             /\ unmerged' = Conflicts(origin) /\ theirs' = origin
             /\ UNCHANGED <<head, detached>>
      BY <1>3 DEF MergeStops
    <2>2. v \in Version /\ v.text \in SUBSET Edits
      BY <1>c, <1>o, JoinsVersion, VersionFields DEF Merged
    <2>3. staged' \in SUBSET Edits
      BY <1>c, <2>1, <2>2
    <2>4. work' \in SUBSET Edits
      BY <1>o, <2>1, <2>3 DEF TypeOK
    <2> QED
      BY <2>1, <2>3, <2>4, ConflictsType DEF TypeOK
  <1> QED
    BY <1>1, <1>2, <1>3

LEMMA TypeStep == TypeOK /\ [Next]_vars => TypeOK'
  <1> SUFFICES ASSUME TypeOK, [Next]_vars PROVE TypeOK'
    OBVIOUS
  <1> USE DEF engineVars, loopVars, treeVars, refVars, repoVars, histVars, ControlOK
  <1>f. /\ head.seen \in SUBSET Edits /\ head.text \in SUBSET Edits
        /\ theirs.seen \in SUBSET Edits /\ theirs.text \in SUBSET Edits
        /\ remote.seen \in SUBSET Edits /\ remote.text \in SUBSET Edits
    BY VersionFields DEF TypeOK
  <1>c. Current.text \in SUBSET Edits
    BY CurrentType
  <1>1. ASSUME NEW e \in LocalEdits, Edit(e) PROVE TypeOK'
    BY <1>1 DEF TypeOK, Edit, Edits
  <1>2. ASSUME NEW e \in RemoteEdits, OtherDevice(e) PROVE TypeOK'
    <2>1. {e} \in SUBSET Edits
      BY DEF Edits
    <2>2. remote' \in Version
      BY <1>2, <2>1, ExtendVersion DEF OtherDevice, TypeOK
    <2> QED
      BY <1>2, <2>2 DEF TypeOK, OtherDevice
  <1>3. CASE InitScrapEngine
    <2>1. pc' \in [Goroutines -> Labels] /\ status' \in Statuses /\ enabled' \in BOOLEAN
      BY <1>3 DEF TypeOK, InitScrapEngine, Labels, Statuses, Goroutines
    <2>2. configs' \in Nat
      BY <1>3 DEF TypeOK, InitScrapEngine
    <2> QED
      BY <1>3, <2>1, <2>2 DEF TypeOK, InitScrapEngine
  <1>4. CASE Restart
    <2>1. pc' \in [Goroutines -> Labels] /\ status' \in Statuses
      BY <1>4 DEF TypeOK, Restart, Labels, Statuses
    <2>2. configs' \in Nat
      BY <1>4 DEF TypeOK, Restart
    <2>3. todo' \in [Goroutines -> SUBSET Notes] /\ copy' \in [Goroutines -> SUBSET Edits]
      BY <1>4 DEF Restart
    <2> QED
      BY <1>4, <2>1, <2>2, <2>3 DEF TypeOK, Restart
  <1>5. ASSUME NEW g \in Syncers, TimerFire(g) \/ TriggerNow(g) PROVE TypeOK'
    <2>1. pc' \in [Goroutines -> Labels]
      BY <1>5 DEF TypeOK, TimerFire, TriggerNow, Labels, Goroutines
    <2>2. configs' \in Nat
      BY <1>5 DEF TypeOK, TimerFire, TriggerNow
    <2> QED
      BY <1>5, <2>1, <2>2 DEF TypeOK, TimerFire, TriggerNow
  <1>6. ASSUME NEW g \in Syncers, Enter(g) PROVE TypeOK'
    BY <1>6 DEF TypeOK, Enter, Labels, Statuses, Goroutines
  <1>7. ASSUME NEW g \in Syncers, Add(g) PROVE TypeOK'
    <2> g \in Goroutines /\ "status" \in Labels
      BY DEF Goroutines, Labels
    <2>1. ControlOK /\ faults' \in Nat
      BY <1>7, GotoType, FailsType DEF TypeOK, Add
    <2>2. /\ work' \in SUBSET Edits /\ loose' \in SUBSET Edits /\ staged' \in SUBSET Edits
          /\ unmerged' \in SUBSET Notes
      BY <1>7 DEF TypeOK, Add
    <2>3. touched' \in SUBSET Edits
      BY <1>f, <1>7, <2>2 DEF TypeOK, Add, Edits
    <2> QED
      BY <1>7, <2>1, <2>2, <2>3 DEF TypeOK, Add
  <1>8. ASSUME NEW g \in Syncers, Status(g) PROVE TypeOK'
    <2> g \in Goroutines /\ "commit" \in Labels /\ "clean" \in Statuses
      BY DEF Goroutines, Labels, Statuses
    <2>1. ControlOK /\ faults' \in Nat
      BY <1>8, GotoType, FinishType, FaultType DEF TypeOK, Status
    <2> QED
      BY <1>8, <2>1 DEF TypeOK, Status
  <1>9. ASSUME NEW g \in Syncers, Commit(g) PROVE TypeOK'
    <2> g \in Goroutines /\ "pull" \in Labels /\ "error" \in Statuses
      BY DEF Goroutines, Labels, Statuses
    <2>1. ControlOK /\ faults' \in Nat
      BY <1>9, GotoType, FinishType, FailsType DEF TypeOK, Commit
    <2>2. theirs' \in Version /\ head' \in Version /\ detached' \in Version
      <3>1. CASE CommitIndex
        BY <3>1, CommitVersion
      <3> QED
        BY <1>9, <3>1 DEF TypeOK, Commit
    <2> QED
      BY <1>9, <2>1, <2>2 DEF TypeOK, Commit
  <1>10. ASSUME NEW g \in Pullers, Start(g) PROVE TypeOK'
    BY <1>10 DEF TypeOK, Start, Labels, Statuses, Goroutines
  <1>11. ASSUME NEW g \in Goroutines, Pull(g) PROVE TypeOK'
    <2> {"push", "abort"} \subseteq Labels /\ {"error", "synced"} \subseteq Statuses
      BY DEF Labels, Statuses
    <2>f. ASSUME Fetch PROVE origin' \in Version /\ tracking' \in BOOLEAN
      BY <2>f DEF Fetch, TypeOK
    <2>1. CASE PullNoRemote(g)
      BY <1>11, <2>1, AfterPullType DEF TypeOK, Pull, PullNoRemote
    <2>2. CASE PullRefused(g)
      <3>1. origin' \in Version /\ tracking' \in BOOLEAN
        BY <2>2, <2>f DEF TypeOK, PullRefused
      <3> QED
        BY <1>11, <2>2, <3>1, GotoType DEF TypeOK, Pull, PullRefused
    <2>3. CASE PullUpToDate(g)
      BY <1>11, <2>3, <2>f, AfterPullType DEF TypeOK, Pull, PullUpToDate
    <2>4. CASE PullRebased(g)
      <3>1. head' \in Version /\ head'.text \in SUBSET Edits
        BY <2>4, JoinsVersion, VersionFields DEF TypeOK, PullRebased
      <3> QED
        BY <1>11, <2>4, <2>f, <3>1, AfterPullType DEF TypeOK, Pull, PullRebased
    <2>5. CASE PullStopped(g)
      <3>1. origin' \in Version /\ tracking' \in BOOLEAN
        BY <2>5, <2>f DEF PullStopped
      <3>2. TreeOK
        BY <2>5, StopRebaseType DEF TypeOK, PullStopped, TreeOK
      <3> QED
        BY <1>11, <2>5, <3>1, <3>2, GotoType DEF TypeOK, Pull, PullStopped, TreeOK
    <2>6. CASE PullKilled(g)
      <3>1. origin' \in Version /\ tracking' \in BOOLEAN
        BY <2>6, <2>f DEF TypeOK, PullKilled
      <3>2. TreeOK
        BY <2>6, StopRebaseType DEF TypeOK, PullKilled, TreeOK
      <3> QED
        BY <1>11, <2>6, <3>1, <3>2, FailsType DEF TypeOK, Pull, PullKilled, TreeOK
    <2>7. CASE PullOffline(g)
      BY <1>11, <2>7, GotoType, FaultType DEF TypeOK, Pull, PullOffline
    <2> QED
      BY <1>11, <2>1, <2>2, <2>3, <2>4, <2>5, <2>6, <2>7 DEF Pull
  <1>12. ASSUME NEW g \in Goroutines, Abort(g) PROVE TypeOK'
    <2> "merge" \in Labels
      BY DEF Labels
    <2>1. ControlOK /\ faults' \in Nat
      BY <1>12, GotoType, FaultType DEF Abort, TypeOK
    <2>2. /\ work' \in SUBSET Edits /\ staged' \in SUBSET Edits /\ unmerged' \in SUBSET Notes
          /\ theirs' \in Version /\ rebasing' \in BOOLEAN
      BY <1>f, <1>12, EmptyVersion DEF Abort, TypeOK
    <2> QED
      BY <1>12, <2>1, <2>2 DEF TypeOK, Abort
  <1>13. ASSUME NEW g \in Goroutines, Rescue(g) PROVE TypeOK'
    <2> /\ {"push", "list", "show", "ours", "copy", "stage", "seal", "drop"} \subseteq Labels
        /\ "error" \in Statuses
      BY DEF Labels, Statuses
    <2>1. CASE Merge(g)
      <3>1. MergeClean \/ MergeStops \/ MergeNone
        BY <2>1 DEF Merge
      <3>2. ControlOK /\ faults' \in Nat
        BY <2>1, GotoType, FaultType DEF Merge, TypeOK
      <3> QED
        BY <2>1, <3>1, <3>2, MergeType DEF TypeOK, Merge
    <2>2. CASE List(g)
      <3>1. ControlOK /\ faults' \in Nat
        BY <2>2, GotoType, GiveUpType, FaultType DEF List, TypeOK
      <3>2. todo' \in [Goroutines -> SUBSET Notes] /\ copy' \in [Goroutines -> SUBSET Edits]
        BY <2>2, GiveUpType DEF List, TypeOK
      <3> QED
        BY <2>2, <3>1, <3>2 DEF TypeOK, List
    <2>3. CASE Show(g)
      <3>1. ControlOK /\ faults' \in Nat
        BY <2>3, GotoType, GiveUpType, FaultType DEF Show, TypeOK
      <3>2. On(theirs.text, Path(g)) \in SUBSET Edits
        BY <1>f DEF On
      <3>3. todo' \in [Goroutines -> SUBSET Notes] /\ copy' \in [Goroutines -> SUBSET Edits]
        BY <2>3, <3>2, GiveUpType DEF Show, TypeOK
      <3> QED
        BY <2>3, <3>1, <3>3 DEF TypeOK, Show
    <2>4. CASE Ours(g)
      <3>1. ControlOK /\ faults' \in Nat
        BY <2>4, GotoType, GiveUpType, FaultType DEF Ours, TypeOK
      <3>2. todo' \in [Goroutines -> SUBSET Notes] /\ copy' \in [Goroutines -> SUBSET Edits]
        BY <2>4, GiveUpType DEF Ours, TypeOK
      <3>3. work' \in SUBSET Edits
        BY <2>4 DEF Ours, TypeOK, KeepOurs, On
      <3> QED
        BY <2>4, <3>1, <3>2, <3>3 DEF TypeOK, Ours
    <2>5. CASE Copy(g)
      <3>1. ControlOK /\ faults' \in Nat
        BY <2>5, GotoType, GiveUpType, FaultType DEF Copy, TypeOK
      <3>2. todo' \in [Goroutines -> SUBSET Notes] /\ copy' \in [Goroutines -> SUBSET Edits]
        BY <2>5, GiveUpType DEF Copy, TypeOK
      <3>3. loose' \in SUBSET Edits
        BY <2>5 DEF Copy, TypeOK
      <3> QED
        BY <2>5, <3>1, <3>2, <3>3 DEF TypeOK, Copy
    <2>6. CASE Stage(g)
      <3>1. ControlOK /\ faults' \in Nat
        BY <2>6, GotoType, GiveUpType, FaultType DEF Stage, TypeOK
      <3>2. todo' \in [Goroutines -> SUBSET Notes] /\ copy' \in [Goroutines -> SUBSET Edits]
        BY <2>6, GiveUpType DEF Stage, TypeOK
      <3>3. copy[g] \in SUBSET Edits
        BY DEF TypeOK
      <3>4. /\ work' \in SUBSET Edits /\ loose' \in SUBSET Edits /\ staged' \in SUBSET Edits
            /\ unmerged' \in SUBSET Notes
        BY <2>6, <3>3 DEF Stage, TypeOK, AddBoth, On
      <3>5. touched' \in SUBSET Edits
        BY <1>f, <2>6 DEF Stage, TypeOK, On
      <3> QED
        BY <2>6, <3>1, <3>2, <3>4, <3>5 DEF TypeOK, Stage
    <2>7. CASE Seal(g)
      <3>1. ControlOK /\ faults' \in Nat
        BY <2>7, GotoType, FaultType DEF Seal, TypeOK
      <3>2. theirs' \in Version /\ head' \in Version /\ detached' \in Version
        <4>1. CASE CommitIndex
          BY <4>1, CommitVersion
        <4> QED
          BY <2>7, <4>1 DEF TypeOK, Seal
      <3> QED
        BY <2>7, <3>1, <3>2 DEF TypeOK, Seal
    <2>8. CASE Drop(g)
      <3>1. ControlOK /\ faults' \in Nat
        BY <2>8, FinishType, FaultType DEF Drop, TypeOK
      <3>2. /\ work' \in SUBSET Edits /\ staged' \in SUBSET Edits
            /\ unmerged' \in SUBSET Notes /\ theirs' \in Version
        BY <1>c, <2>8, EmptyVersion DEF Drop, TypeOK
      <3> QED
        BY <2>8, <3>1, <3>2 DEF TypeOK, Drop
    <2> QED
      BY <1>13, <2>1, <2>2, <2>3, <2>4, <2>5, <2>6, <2>7, <2>8 DEF Rescue
  <1>14. ASSUME NEW g \in Goroutines, Push(g) PROVE TypeOK'
    <2> "error" \in Statuses /\ Pushed(g) \in Statuses
      BY DEF Statuses, Pushed
    <2>1. ControlOK /\ faults' \in Nat
      BY <1>14, FinishType, FailsType DEF TypeOK, Push, PushRejected
    <2>2. origin' \in Version /\ remote' \in Version /\ tracking' \in BOOLEAN
      BY <1>14 DEF TypeOK, Push, PushAccepted
    <2> QED
      BY <1>14, <2>1, <2>2 DEF TypeOK, Push
  <1>15. CASE UNCHANGED vars
    BY <1>15 DEF TypeOK, vars
  <1> QED
    BY <1>1, <1>2, <1>3, <1>4, <1>5, <1>6, <1>7, <1>8, <1>9, <1>10, <1>11, <1>12,
       <1>13, <1>14, <1>15 DEF Next, SyncStep, NetStep

\* Every variable has its type in every reachable state.
THEOREM TypeCorrect == Spec => []TypeOK
  <1>1. Init => TypeOK
    <2> SUFFICES ASSUME Init PROVE TypeOK
      OBVIOUS
    <2>1. pc \in [Goroutines -> Labels] /\ status \in Statuses
      BY DEF Init, Labels, Statuses
    <2>2. /\ head \in Version /\ origin \in Version /\ remote \in Version
          /\ detached \in Version /\ theirs \in Version
      BY EmptyVersion DEF Init
    <2>3. faults \in Nat /\ configs \in Nat
      BY DEF Init
    <2>4. /\ enabled \in BOOLEAN /\ timer \in BOOLEAN /\ busy \in BOOLEAN
          /\ rebasing \in BOOLEAN /\ linked \in BOOLEAN /\ tracking \in BOOLEAN
      BY DEF Init
    <2>5. /\ work \in SUBSET Edits /\ loose \in SUBSET Edits /\ staged \in SUBSET Edits
          /\ unmerged \in SUBSET Notes /\ made \in SUBSET LocalEdits /\ touched \in SUBSET Edits
      BY DEF Init
    <2>6. todo \in [Goroutines -> SUBSET Notes] /\ copy \in [Goroutines -> SUBSET Edits]
      BY DEF Init
    <2> QED
      BY <2>1, <2>2, <2>3, <2>4, <2>5, <2>6 DEF TypeOK
  <1> QED
    BY <1>1, TypeStep, PTL DEF Spec

(***************************************************************************)
(* Mutual exclusion of executeSync                                         *)
(***************************************************************************)

\* What a goroutine that is past the busy check does to pc and busy in one step.
Moves(g) ==
  /\ pc[g] \notin {"idle", "enter"}
  /\ \/ \E label \in Labels \ {"idle", "enter"} : Goto(g, label)
     \/ \E s \in Statuses : Finish(g, s)

LEMMA WorkingMoves ==
  ASSUME NEW g \in Goroutines, Add(g) \/ Status(g) \/ Commit(g) \/ NetStep(g)
  PROVE  Moves(g)
  <1> DEFINE Past == {"status", "commit", "pull", "abort", "merge", "list", "show",
                      "ours", "copy", "stage", "seal", "drop", "push"}
  <1>0. Past \subseteq Labels \ {"idle", "enter"}
    BY DEF Labels
  <1>1. {"error", "clean", "synced", "resolved"} \subseteq Statuses
    BY DEF Statuses
  <1>g. GiveUp(g) => Goto(g, "drop")
    BY DEF GiveUp
  <1>2. CASE Add(g)
    BY <1>0, <1>1, <1>2 DEF Add, Fails, Moves
  <1>3. CASE Status(g)
    BY <1>0, <1>1, <1>3 DEF Status, Moves
  <1>4. CASE Commit(g)
    BY <1>0, <1>1, <1>4 DEF Commit, Fails, Moves
  <1>5. CASE Pull(g)
    BY <1>0, <1>1, <1>5 DEF Pull, PullNoRemote, PullRefused, PullUpToDate, PullRebased,
       PullStopped, PullOffline, PullKilled, AfterPull, Fails, Moves
  <1>6. CASE Abort(g)
    BY <1>0, <1>6 DEF Abort, Moves
  <1>7. CASE Rescue(g)
    <2>1. CASE Merge(g)
      BY <1>0, <2>1 DEF Merge, Moves
    <2>2. CASE List(g) \/ Show(g) \/ Ours(g) \/ Copy(g)
      BY <1>0, <1>g, <2>2 DEF List, Show, Ours, Copy, Moves
    <2>3. CASE Stage(g)
      BY <1>0, <1>g, <2>3 DEF Stage, Moves
    <2>4. CASE Seal(g)
      BY <1>0, <2>4 DEF Seal, Moves
    <2>5. CASE Drop(g)
      BY <1>1, <2>5 DEF Drop, Moves
    <2> QED
      BY <1>7, <2>1, <2>2, <2>3, <2>4, <2>5 DEF Rescue
  <1>8. CASE Push(g)
    BY <1>1, <1>8 DEF Push, PushRejected, Pushed, Fails, Moves
  <1> QED
    BY <1>2, <1>3, <1>4, <1>5, <1>6, <1>7, <1>8 DEF NetStep

LEMMA MovesKeepOneSync ==
  ASSUME TypeOK, OneSync, NEW g \in Goroutines, Moves(g)
  PROVE  OneSync'
  <1>1. CASE g \in Pullers
    <2>1. \A h \in Syncers : pc'[h] = pc[h]
      BY <1>1 DEF TypeOK, Moves, Goto, Finish, Goroutines
    <2>2. busy' = busy
      BY <1>1 DEF TypeOK, Moves, Goto, Finish, Release
    <2> QED
      BY <2>1, <2>2 DEF OneSync, Syncing
  <1>2. CASE g \in Syncers
    <2>0. busy /\ Syncing(g) /\ \A h \in Syncers : h # g => ~Syncing(h)
      BY <1>2 DEF OneSync, Moves, Syncing
    <2>1. \A h \in Syncers : h # g => pc'[h] = pc[h]
      BY <1>2 DEF TypeOK, Moves, Goto, Finish, Goroutines
    <2>2. CASE \E label \in Labels \ {"idle", "enter"} : Goto(g, label)
      <3>1. pc'[g] \notin {"idle", "enter"} /\ busy' = busy
        BY <2>2 DEF TypeOK, Goto
      <3> QED
        BY <1>2, <2>0, <2>1, <3>1 DEF OneSync, Syncing
    <2>3. CASE \E s \in Statuses : Finish(g, s)
      <3>1. pc'[g] = "idle" /\ ~busy'
        BY <1>2, <2>3 DEF TypeOK, Finish, Release
      <3> QED
        BY <1>2, <2>0, <2>1, <3>1 DEF OneSync, Syncing
    <2> QED
      BY <2>2, <2>3 DEF Moves
  <1> QED
    BY <1>1, <1>2 DEF Goroutines

LEMMA OneSyncStep == TypeOK /\ OneSync /\ [Next]_vars => OneSync'
  <1> SUFFICES ASSUME TypeOK, OneSync, [Next]_vars PROVE OneSync'
    OBVIOUS
  <1> USE DEF engineVars
  <1>1. CASE UNCHANGED <<pc, busy>>
    BY <1>1 DEF OneSync, Syncing
  <1>2. CASE InitScrapEngine
    <2>1. \A h \in Syncers : pc'[h] = pc[h]
      BY <1>2 DEF InitScrapEngine, TypeOK, Goroutines
    <2> QED
      BY <1>2, <2>1 DEF InitScrapEngine, OneSync, Syncing
  <1>3. CASE Restart
    <2>1. ~busy' /\ \A h \in Syncers : pc'[h] = "idle"
      BY <1>3 DEF Restart, Goroutines
    <2> QED
      BY <2>1 DEF OneSync, Syncing
  <1>4. ASSUME NEW g \in Syncers, TimerFire(g) \/ TriggerNow(g) PROVE OneSync'
    <2>1. /\ pc[g] = "idle" /\ pc'[g] = "enter" /\ busy' = busy
          /\ \A h \in Syncers : h # g => pc'[h] = pc[h]
      BY <1>4 DEF TimerFire, TriggerNow, TypeOK, Goroutines
    <2> QED
      BY <2>1 DEF OneSync, Syncing
  <1>5. ASSUME NEW g \in Syncers, Enter(g) PROVE OneSync'
    <2>1. pc[g] = "enter" /\ \A h \in Syncers : h # g => pc'[h] = pc[h]
      BY <1>5 DEF Enter, TypeOK, Goroutines
    <2>2. CASE Admits
      <3>1. ~busy /\ busy' /\ pc'[g] = "add"
        BY <1>5, <2>2 DEF Enter, Admits, TypeOK, Goroutines
      <3> QED
        BY <2>1, <3>1 DEF OneSync, Syncing
    <2>3. CASE ~Admits
      <3>1. pc'[g] = "idle" /\ busy' = busy
        BY <1>5, <2>3 DEF Enter, TypeOK, Goroutines
      <3> QED
        BY <2>1, <3>1 DEF OneSync, Syncing
    <2> QED
      BY <2>2, <2>3
  <1>6. ASSUME NEW g \in Pullers, Start(g) PROVE OneSync'
    <2>1. busy' = busy /\ \A h \in Syncers : pc'[h] = pc[h]
      BY <1>6 DEF Start, TypeOK, Goroutines
    <2> QED
      BY <2>1 DEF OneSync, Syncing
  <1>7. ASSUME NEW g \in Goroutines, Add(g) \/ Status(g) \/ Commit(g) \/ NetStep(g)
        PROVE  OneSync'
    BY <1>7, WorkingMoves, MovesKeepOneSync
  <1> QED
    <2>1. (\E e \in LocalEdits : Edit(e)) \/ (\E e \in RemoteEdits : OtherDevice(e))
             \/ UNCHANGED vars => UNCHANGED <<pc, busy>>
      BY DEF Edit, OtherDevice, vars
    <2> QED
      BY <1>1, <1>2, <1>3, <1>4, <1>5, <1>6, <1>7, <2>1 DEF Next, SyncStep, Goroutines

\* At most one executeSync is past the busy check, and the flag tells so.
THEOREM OneSyncHolds == Spec => []OneSync
  <1>1. Init => OneSync
    BY DEF Init, OneSync, Syncing, Goroutines
  <1> QED
    BY <1>1, OneSyncStep, TypeCorrect, PTL DEF Spec

(***************************************************************************)
(* Nothing is lost.  The inductive invariant says where the edits are.     *)
(* Unpushed edits (made, not in the branch, not touched) are in their      *)
(* notes, and no note that a reset, an abort or the rescue writes is       *)
(* theirs.  The versions read out all they descend from but what was       *)
(* touched, and the index holds the branch.                                *)
(***************************************************************************)
Unpushed == made \ (touched \cup head.text)

\* The note of e is none of Contested, spelled out.
Away(e) ==
  /\ NoteOf[e] \notin unmerged
  /\ \A g \in Goroutines : NoteOf[e] \notin todo[g]
  /\ rebasing => \A f \in staged \cup detached.text \cup head.text : NoteOf[f] # NoteOf[e]

\* Local edits reach the server through this device, the other device's come from it.
Known ==
  /\ origin.text \subseteq origin.seen /\ remote.text \subseteq remote.seen
  /\ head.text \cap LocalEdits \subseteq head.seen
  /\ remote.seen \cap LocalEdits \subseteq made
  /\ (remote.seen \cup origin.seen) \cap LocalEdits \subseteq head.seen
  /\ work \cup loose \cup staged \subseteq made \cup remote.seen
  /\ theirs.seen \cup theirs.text \cup head.seen \cup head.text \subseteq made \cup remote.seen
  /\ origin.seen \cup detached.seen \cup detached.text \subseteq made \cup remote.seen
  /\ \A g \in Goroutines : copy[g] \subseteq made \cup remote.seen

Whole == /\ head.seen \ touched \subseteq head.text
         /\ origin.seen \ touched \subseteq origin.text
         /\ remote.seen \ touched \subseteq remote.text

Indexed ==
  /\ staged \subseteq work
  /\ ~rebasing => head.text \ touched \subseteq staged
  /\ ~rebasing /\ Merging => \A e \in theirs.seen \ touched :
                                NoteOf[e] \notin unmerged => e \in staged

Safe == \A e \in Unpushed : e \in work /\ Away(e) /\ (Merging => e \notin staged)

\* The rescue's loop has a path at hand, and its copy is of that path.
Loop ==
  \A g \in Goroutines :
     /\ pc[g] \in {"show", "ours", "copy", "stage"} => todo[g] # {}
     /\ pc[g] \in {"ours", "copy", "stage"} => \A e \in copy[g] : NoteOf[e] = Path(g)

Inv == Known /\ Whole /\ Indexed /\ Safe

\* What every step but Add leaves: the branch drops no text but a touched one, and
\* brings no unpushed edit into the index.
Steady ==
  /\ head.text \ touched \subseteq head'.text
  /\ \A e \in staged' : e \in Unpushed' => e \in staged /\ e \in Unpushed

USE DEF Inv

LEMMA AwayIsUncontested ==
  ASSUME TypeOK, NEW e \in Edits, NoteOf[e] \notin Contested
  PROVE  Away(e)
  <1>1. NoteOf[e] \notin unmerged /\ \A g \in Goroutines : NoteOf[e] \notin todo[g]
    BY DEF Contested
  <1>2. ASSUME rebasing, NEW f \in staged \cup detached.text \cup head.text
        PROVE  NoteOf[f] # NoteOf[e]
    <2>1. NoteOf[f] \in Tracked \cup NotesOf(head.text)
      BY <1>2 DEF Tracked, NotesOf, Current
    <2> DEFINE T == UNION {todo[g] : g \in Goroutines}
                B == Tracked \cup NotesOf(head.text)
    <2>2. Contested = unmerged \cup T \cup (IF rebasing THEN B ELSE {})
      BY DEF Contested
    <2> HIDE DEF T, B
    <2>3. B \subseteq Contested
      BY <1>2, <2>2
    <2> QED
      BY <2>1, <2>3 DEF B
  <1> QED
    BY <1>1, <1>2 DEF Away

LEMMA MakesLocal == ASSUME TypeOK PROVE made \subseteq LocalEdits /\ Unpushed \subseteq LocalEdits
  BY DEF TypeOK, Unpushed

\* The loops' variables after a step: smaller, or filled from the index.
LoopShrinks == \A h \in Goroutines : /\ todo'[h] \subseteq todo[h] \cup unmerged
                                     /\ copy'[h] \subseteq copy[h] \cup theirs.text

\* A step that leaves the repository alone.
LEMMA QuietStep ==
  ASSUME TypeOK, Inv, LoopShrinks, UNCHANGED repoVars, UNCHANGED histVars
  PROVE  Inv' /\ Steady
  <1> USE DEF repoVars, treeVars, refVars, histVars
  <1>1. Known'
    BY DEF Known, LoopShrinks
  <1>2. Whole'
    BY DEF Whole
  <1>3. Indexed'
    BY DEF Indexed, Merging
  <1>4. Unpushed' = Unpushed
    BY DEF Unpushed
  <1>5. Safe'
    BY <1>4 DEF Safe, Away, LoopShrinks, Merging
  <1> QED
    BY <1>1, <1>2, <1>3, <1>4, <1>5 DEF Steady

LEMMA EditStep ==
  ASSUME TypeOK, Inv, NEW e \in LocalEdits, Edit(e)
  PROVE  Inv' /\ Steady
  <1>1. /\ e \notin made /\ made' = made \cup {e} /\ work' = work \cup {e}
        /\ touched \subseteq touched'
        /\ NoteOf[e] \in Contested => e \in touched'
        /\ NoteOf[e] \notin Contested => touched' = touched
        /\ \A f \in touched' : f = e \/ f \in touched
        /\ UNCHANGED <<loose, staged, unmerged, theirs, head, origin, remote, rebasing,
                       detached, todo, copy>>
    BY DEF Edit, loopVars, refVars
  <1>2. e \notin remote.seen /\ e \notin staged /\ e \notin head.text
    BY <1>1 DEF Known
  <1>3. Known'
    BY <1>1 DEF Known
  <1>4. Whole'
    BY <1>1 DEF Whole
  <1>5. Indexed'
    BY <1>1 DEF Indexed, Merging
  <1>6. \A f \in Unpushed' : f \in Unpushed \/ (f = e /\ NoteOf[e] \notin Contested)
    BY <1>1 DEF Unpushed
  <1>7. ASSUME NEW f \in Unpushed' PROVE f \in work' /\ Away(f)' /\ (Merging' => f \notin staged')
    <2>1. Away(f)' <=> Away(f)
      BY <1>1 DEF Away
    <2>2. CASE f \in Unpushed
      BY <1>1, <2>1, <2>2 DEF Safe, Merging
    <2>3. CASE f = e /\ NoteOf[e] \notin Contested
      BY <1>1, <1>2, <2>1, <2>3, AwayIsUncontested DEF Edits
    <2> QED
      BY <1>6, <2>2, <2>3
  <1>8. Steady
    BY <1>1, <1>2, <1>6 DEF Steady
  <1> QED
    BY <1>3, <1>4, <1>5, <1>7, <1>8 DEF Safe

LEMMA OtherDeviceStep ==
  ASSUME TypeOK, Inv, NEW e \in RemoteEdits, OtherDevice(e)
  PROVE  Inv' /\ Steady /\ remote'.text = remote.text \cup {e}
  <1>1. /\ remote'.seen = remote.seen \cup {e} /\ remote'.text = remote.text \cup {e}
        /\ e \notin LocalEdits
    BY ExtendVersion DEF OtherDevice, TypeOK, Edits
  <1>2. UNCHANGED <<work, loose, staged, unmerged, theirs, head, origin, rebasing,
                    detached, todo, copy, made, touched>>
    BY DEF OtherDevice, loopVars, treeVars, histVars
  <1>3. Known'
    BY <1>1, <1>2 DEF Known
  <1>4. Whole'
    BY <1>1, <1>2 DEF Whole
  <1>5. Indexed' /\ Safe' /\ Steady
    BY <1>2 DEF Indexed, Safe, Away, Unpushed, Merging, Steady
  <1> QED
    BY <1>1, <1>3, <1>4, <1>5

LEMMA AddStep ==
  ASSUME TypeOK, Inv, NEW g \in Syncers, Add(g), ~UNCHANGED <<treeVars, touched>>
  PROVE  Inv' /\ head' = head
  <1>1. /\ staged' = work \cup loose /\ work' = work \cup loose
        /\ loose' = {} /\ unmerged' = {}
        /\ touched' = IF rebasing \/ Merging
                      THEN touched \cup ((staged' \cap LocalEdits) \ head.text)
                                   \cup (theirs.seen \ staged')
                      ELSE touched
        /\ UNCHANGED <<theirs, head, origin, remote, rebasing, detached, todo, copy, made>>
    BY DEF Add, treeVars, loopVars, refVars
  <1>2. touched \subseteq touched'
    BY <1>1
  <1>3. Known'
    BY <1>1 DEF Known
  <1>4. Whole'
    BY <1>1, <1>2 DEF Whole
  <1>5. Indexed'
    <2>1. staged' \subseteq work' /\ (~rebasing' => head'.text \ touched' \subseteq staged')
      BY <1>1, <1>2 DEF Indexed
    <2>2. Merging' => theirs'.seen \ touched' \subseteq staged'
      BY <1>1 DEF Merging
    <2> QED
      BY <2>1, <2>2 DEF Indexed
  <1>6. Safe'
    <2>1. Unpushed' \subseteq Unpushed
      BY <1>1, <1>2 DEF Unpushed
    <2>2. Unpushed' \subseteq staged'
      BY <1>1, <2>1 DEF Safe
    <2>3. rebasing \/ Merging => Unpushed' = {}
      BY <1>1, <2>1, <2>2, MakesLocal DEF Unpushed
    <2> QED
      BY <1>1, <2>1, <2>2, <2>3 DEF Safe, Away, Merging
  <1> QED
    BY <1>1, <1>3, <1>4, <1>5, <1>6

\* A commit, of executeSync or of the rescue: the branch takes the index.
LEMMA CommitIndexStep ==
  ASSUME TypeOK, Inv, Committable, CommitIndex,
         UNCHANGED <<loopVars, work, loose, staged, unmerged, origin, remote, rebasing, histVars>>
  PROVE  Inv' /\ Steady /\ staged' \cap Unpushed' = {}
  <1> USE DEF loopVars, histVars
  <1>1. /\ theirs' = Empty /\ unmerged = {}
        /\ IF rebasing
           THEN head' = head
           ELSE /\ head'.seen = head.seen \cup theirs.seen \cup (staged \cap LocalEdits)
                /\ head'.text = staged
                /\ detached' = detached
        /\ rebasing => detached'.text = staged
    BY CommitVersion DEF Committable
  <1>2. /\ rebasing => detached'.seen = detached.seen \cup theirs.seen \cup (staged \cap LocalEdits)
        /\ ~Merging'
    BY <1>1, EmptyVersion DEF CommitIndex, Current, Merging
  <1>3. theirs.seen # {} => Merging
    BY DEF Merging
  <1>4. Known'
    BY <1>1, <1>2, EmptyVersion, MakesLocal DEF Known
  <1>5. head.text \ touched \subseteq head'.text
    BY <1>1 DEF Indexed
  <1>6. Whole'
    <2>1. CASE rebasing
      BY <1>1, <2>1 DEF Whole
    <2>2. CASE ~rebasing
      <3>1. head.seen \ touched \subseteq staged
        BY <2>2 DEF Whole, Indexed
      <3>2. theirs.seen \ touched \subseteq staged
        BY <1>1, <1>3, <2>2 DEF Indexed
      <3> QED
        BY <1>1, <2>2, <3>1, <3>2 DEF Whole
    <2> QED
      BY <2>1, <2>2
  <1>7. Indexed'
    BY <1>1, <1>2 DEF Indexed
  <1>8. Unpushed' \subseteq Unpushed
    BY <1>5 DEF Unpushed
  <1>9. staged' \cap Unpushed' = {}
    <2>1. CASE rebasing
      BY <1>8, <2>1 DEF Safe, Away
    <2>2. CASE ~rebasing
      BY <1>1, <2>2 DEF Unpushed
    <2> QED
      BY <2>1, <2>2
  <1>10. ASSUME NEW e \in Unpushed' PROVE Away(e)'
    BY <1>1, <1>8 DEF Safe, Away
  <1> QED
    BY <1>2, <1>4, <1>5, <1>6, <1>7, <1>8, <1>9, <1>10 DEF Safe, Steady

\* A fetch: the tracking branch catches up with the server's.
LEMMA FetchStep ==
  ASSUME TypeOK, Inv, origin' = remote, UNCHANGED loopVars,
         UNCHANGED <<treeVars, head, remote, rebasing, detached, histVars>>
  PROVE  Inv' /\ Steady
  <1> USE DEF loopVars, treeVars, histVars
  <1>1. Known' /\ Whole'
    BY DEF Known, Whole
  <1>2. Indexed' /\ Safe' /\ Steady
    BY DEF Indexed, Safe, Away, Unpushed, Merging, Steady
  <1> QED
    BY <1>1, <1>2

\* A clean merge of the branch, or of the detached HEAD, drops no text but a touched
\* one and brings no unpushed edit in.
LEMMA JoinsKeep ==
  ASSUME TypeOK, Inv, NEW w \in {origin, remote}, NEW v \in Joins(head, w)
  PROVE  /\ v \in Version /\ v.seen = head.seen \cup w.seen
         /\ v.text \subseteq head.text \cup w.text
         /\ (head.text \cup w.text) \ touched \subseteq v.text
         /\ w.text \cap Unpushed = {} /\ v.text \cap Unpushed = {}
         /\ v.text \cap LocalEdits \subseteq v.seen
         /\ v.seen \ touched \subseteq v.text
  <1>1. head \in Version /\ w \in Version
    BY DEF TypeOK
  <1>2. /\ v \in Version /\ v.seen = head.seen \cup w.seen
        /\ v.text \subseteq head.text \cup w.text
        /\ \A e \in (head.text \cup w.text) \ v.text :
              e \in head.seen \cap w.seen /\ ~(e \in head.text /\ e \in w.text)
    BY <1>1, JoinsVersion
  <1>3. /\ w.text \subseteq w.seen /\ w.seen \ touched \subseteq w.text
        /\ head.seen \ touched \subseteq head.text
    BY DEF Known, Whole
  <1>4. (head.text \cup w.text) \ touched \subseteq v.text
    BY <1>2, <1>3
  <1>5. w.seen \cap LocalEdits \subseteq head.seen
    BY DEF Known
  <1>6. w.text \cap Unpushed = {}
    BY <1>3, <1>5, MakesLocal DEF Unpushed
  <1>7. v.text \cap Unpushed = {}
    BY <1>2, <1>6 DEF Unpushed
  <1>8. v.text \cap LocalEdits \subseteq v.seen
    BY <1>2, <1>3 DEF Known
  <1> QED
    BY <1>2, <1>3, <1>4, <1>6, <1>7, <1>8

LEMMA RebasedStep ==
  ASSUME TypeOK, Inv, NEW g \in Goroutines, PullRebased(g), UNCHANGED <<loopVars, histVars>>
  PROVE  Inv' /\ Steady
  <1> USE DEF loopVars, histVars
  <1>1. /\ ~rebasing /\ ~Merging /\ head' \in Joins(head, remote)
        /\ work' = (work \ head.text) \cup head'.text
        /\ staged' = head'.text /\ origin' = remote
        /\ UNCHANGED <<loose, unmerged, theirs, remote, rebasing, detached>>
    BY DEF PullRebased, CanRebase, Dirty, Fetch
  <1>2. /\ head'.seen = head.seen \cup remote.seen
        /\ head'.text \subseteq head.text \cup remote.text
        /\ (head.text \cup remote.text) \ touched \subseteq head'.text
        /\ head'.text \cap LocalEdits \subseteq head'.seen
        /\ head'.seen \ touched \subseteq head'.text
    BY <1>1, JoinsKeep
  <1>3. Known'
    BY <1>1, <1>2 DEF Known
  <1>4. Whole'
    BY <1>1, <1>2 DEF Whole
  <1>5. Indexed'
    BY <1>1, <1>2 DEF Indexed, Merging
  <1>6. Unpushed' \subseteq Unpushed /\ Unpushed' \cap staged' = {}
    BY <1>1, <1>2 DEF Unpushed
  <1>7. Safe'
    BY <1>1, <1>6 DEF Safe, Away, Unpushed
  <1>8. head.text \ touched \subseteq head'.text
    BY <1>2
  <1> QED
    BY <1>3, <1>4, <1>5, <1>6, <1>7, <1>8 DEF Steady

LEMMA StopRebaseStep ==
  ASSUME TypeOK, Inv, CanRebase(remote), ~Blocked(Moved(remote)), Fetch,
         NEW at \in SUBSET Contending, StopRebase(at),
         UNCHANGED <<loopVars, loose, head, remote, histVars>>
  PROVE  Inv' /\ Steady
  <1> USE DEF loopVars, histVars
  <1>1. PICK done \in SUBSET Replayed : \E rest \in SUBSET Replayed :
             /\ rebasing' = TRUE
             /\ detached' = Extend(remote, done)
             /\ staged' = remote.text \cup done \cup rest
             /\ work' = (work \ head.text) \cup staged' \cup at
             /\ unmerged' = NotesOf(at)
             /\ theirs' = [seen |-> {}, text |-> at]
    BY DEF StopRebase
  <1>2. /\ staged = head.text /\ ~rebasing
        /\ \A e \in work \ staged : NoteOf[e] \notin Tracked
    BY DEF CanRebase, Dirty, Current
  <1>3. at \subseteq head.text /\ Replayed \subseteq head.text
    BY DEF Contending, Replayed
  <1>4. done \in SUBSET Edits
    BY <1>3, VersionFields DEF TypeOK
  <1>5. /\ detached'.seen = remote.seen \cup done /\ detached'.text = remote.text \cup done
        /\ theirs'.seen = {} /\ theirs'.text = at /\ origin' = remote
    BY <1>1, <1>4, ExtendVersion DEF TypeOK, Fetch
  <1>6. staged' \subseteq remote.text \cup head.text /\ staged' \subseteq work'
    BY <1>1, <1>3
  <1>7. detached'.text \subseteq remote.text \cup head.text
        /\ detached'.seen \subseteq remote.seen \cup head.text
    BY <1>3, <1>5
  <1>8. /\ work' \subseteq work \cup head.text \cup remote.text
        /\ work \ head.text \subseteq work'
    BY <1>1, <1>3, <1>6
  <1>9. Known'
    BY <1>3, <1>5, <1>6, <1>7, <1>8 DEF Known
  <1>10. Whole'
    BY <1>5 DEF Whole
  <1>11. Indexed'
    BY <1>1, <1>6 DEF Indexed
  <1>12. Unpushed' = Unpushed
    BY DEF Unpushed
  <1>13. ASSUME NEW e \in Unpushed, NEW f \in remote.text \cup head.text
         PROVE  NoteOf[f] # NoteOf[e]
    <2>1. e \in work \ staged
      BY <1>2 DEF Unpushed, Safe
    <2>2. CASE f \in head.text
      BY <1>2, <2>1, <2>2 DEF Tracked, NotesOf, Current
    <2>3. CASE f \in remote.text \ head.text
      <3>1. NoteOf[f] \in Moved(remote)
        BY <2>3 DEF Moved, NotesOf
      <3>2. NoteOf[e] \in NotesOf(work \ staged)
        BY <2>1 DEF NotesOf
      <3> QED
        BY <3>1, <3>2 DEF Blocked
    <2> QED
      BY <2>2, <2>3
  <1>14. ASSUME NEW e \in Unpushed PROVE e \in work' /\ Away(e)' /\ e \notin staged'
    <2>1. NoteOf[e] \notin unmerged'
      BY <1>1, <1>3, <1>13 DEF NotesOf
    <2>2. \A f \in staged' \cup detached'.text \cup head'.text : NoteOf[f] # NoteOf[e]
      BY <1>6, <1>7, <1>13
    <2>3. e \in work'
      BY <1>8 DEF Safe, Unpushed
    <2>4. Away(e)'
      BY <2>1, <2>2 DEF Safe, Away
    <2> QED
      BY <2>2, <2>3, <2>4
  <1>15. Safe'
    BY <1>12, <1>14 DEF Safe
  <1>16. Steady
    BY <1>12, <1>14 DEF Steady
  <1> QED
    BY <1>9, <1>10, <1>11, <1>15, <1>16

LEMMA AbortStep ==
  ASSUME TypeOK, Inv, NEW g \in Goroutines, Abort(g), rebasing, ~rebasing'
  PROVE  Inv' /\ Steady
  <1>1. /\ work' = head.text \cup
               {e \in work : NoteOf[e] \notin Tracked \cup NotesOf(head.text)}
        /\ staged' = head.text /\ unmerged' = {} /\ theirs' = Empty
        /\ UNCHANGED <<loose, head, origin, remote, detached, todo, copy, made, touched>>
    BY DEF Abort, loopVars, histVars
  <1>2. theirs'.seen = {} /\ theirs'.text = {} /\ ~Merging'
    BY <1>1, EmptyVersion DEF Merging
  <1>3. work' \subseteq work \cup head.text
    BY <1>1
  <1>4. Known'
    BY <1>1, <1>2, <1>3 DEF Known
  <1>5. Whole'
    BY <1>1 DEF Whole
  <1>6. Indexed'
    BY <1>1, <1>2 DEF Indexed
  <1>7. Unpushed' = Unpushed /\ Unpushed' \cap staged' = {}
    BY <1>1 DEF Unpushed
  <1>8. ASSUME NEW e \in Unpushed PROVE e \in work' /\ Away(e)'
    <2>1. e \in work /\ Away(e)
      BY DEF Safe
    <2>2. NoteOf[e] \notin Tracked \cup NotesOf(head.text)
      BY <2>1 DEF Away, Tracked, NotesOf, Current
    <2> QED
      BY <1>1, <2>1, <2>2 DEF Away
  <1>9. Safe' /\ Steady
    BY <1>1, <1>2, <1>7, <1>8 DEF Safe, Steady
  <1> QED
    BY <1>4, <1>5, <1>6, <1>9

\* While a rebase is open no unpushed edit is in what is checked out, nor anywhere in
\* its notes.
LEMMA RebasingAway ==
  ASSUME TypeOK, Inv, rebasing, NEW e \in Unpushed, NEW f \in staged \cup Current.text
  PROVE  NoteOf[f] # NoteOf[e]
  BY DEF Safe, Away, Current

\* What git may merge into HEAD.
LEMMA MergedKeep ==
  ASSUME TypeOK, Inv, NEW v \in Merged
  PROVE  /\ v \in Version /\ v.seen = Current.seen \cup origin.seen
         /\ v.text \subseteq Current.text \cup origin.text
         /\ v.text \cap Unpushed = {} /\ Current.text \cap Unpushed = {}
         /\ origin.text \cap Unpushed = {}
         /\ ~rebasing => /\ v.text \cap LocalEdits \subseteq v.seen
                         /\ v.seen \ touched \subseteq v.text
                         /\ (head.text \cup origin.text) \ touched \subseteq v.text
  <1>1. v \in Joins(Current, origin)
    BY DEF Merged
  <1>2. /\ v \in Version /\ v.seen = Current.seen \cup origin.seen
        /\ v.text \subseteq Current.text \cup origin.text
    BY <1>1, CurrentType, JoinsVersion DEF TypeOK
  <1>3. origin.text \cap Unpushed = {}
    <2>1. origin.text \cap LocalEdits \subseteq head.seen
      BY DEF Known
    <2> QED
      BY <2>1, MakesLocal DEF Whole, Unpushed
  <1>4. Current.text \cap Unpushed = {}
    <2>1. CASE rebasing
      BY <2>1, RebasingAway
    <2>2. CASE ~rebasing
      BY <2>2 DEF Current, Unpushed
    <2> QED
      BY <2>1, <2>2
  <1>5. CASE rebasing
    BY <1>2, <1>3, <1>4, <1>5
  <1>6. CASE ~rebasing
    BY <1>1, <1>2, <1>3, <1>4, <1>6, JoinsKeep DEF Current
  <1> QED
    BY <1>5, <1>6

\* Merging does not write the note of an unpushed edit, what comes back included.
LEMMA MergedAway ==
  ASSUME TypeOK, Inv, CanMerge, NEW v \in Merged, NEW e \in Unpushed
  PROVE  /\ NoteOf[e] \notin Conflicts(origin)
         /\ rebasing => \A f \in v.text : NoteOf[f] # NoteOf[e]
  <1>1. e \in work \ staged
    BY MergedKeep DEF Safe, CanMerge
  <1>2. NoteOf[e] \in NotesOf(work \ staged)
    BY <1>1 DEF NotesOf
  <1>3. NoteOf[e] \notin Conflicts(origin)
    BY <1>2 DEF CanMerge, Blocked, Conflicts
  <1>4. ASSUME rebasing, NEW f \in v.text PROVE NoteOf[f] # NoteOf[e]
    <2>1. CASE f \in Current.text
      BY <1>4, <2>1, RebasingAway
    <2>2. CASE f \notin Current.text
      <3>1. NoteOf[f] \in NotesOf(v.text \ Current.text)
        BY <2>2 DEF NotesOf
      <3> QED
        BY <1>2, <3>1 DEF Merged, Overwrites, Blocked
    <2> QED
      BY <2>1, <2>2
  <1> QED
    BY <1>3, <1>4

LEMMA MergeCleanStep ==
  ASSUME TypeOK, Inv, MergeClean,
         UNCHANGED <<loopVars, loose, origin, remote, rebasing, histVars>>
  PROVE  Inv' /\ Steady
  <1> USE DEF loopVars, histVars
  <1>1. PICK v \in Merged :
            /\ head' = IF rebasing THEN head ELSE v
            /\ detached' = IF rebasing THEN v ELSE detached
            /\ staged' = v.text
            /\ work' = (work \ Current.text) \cup v.text
            /\ UNCHANGED <<unmerged, theirs>>
    BY DEF MergeClean
  <1>2. CanMerge /\ ~Merging /\ staged = Current.text /\ staged \subseteq work
    BY DEF MergeClean, CanMerge, Indexed
  <1>3. /\ v.seen = Current.seen \cup origin.seen
        /\ v.text \subseteq Current.text \cup origin.text
        /\ v.text \cap Unpushed = {} /\ Current.text \cap Unpushed = {}
        /\ ~rebasing => /\ v.text \cap LocalEdits \subseteq v.seen
                        /\ v.seen \ touched \subseteq v.text
                        /\ (head.text \cup origin.text) \ touched \subseteq v.text
    BY MergedKeep
  <1>4. work' \subseteq work \cup origin.text
    BY <1>1, <1>2, <1>3
  <1>5. /\ rebasing => head' = head /\ detached' = v
        /\ ~rebasing => head' = v /\ detached' = detached
    BY <1>1
  <1>6. v.seen \cup v.text \subseteq made \cup remote.seen
    BY <1>3 DEF Known, Current
  <1>7. Known'
    <2>1. /\ head'.text \cap LocalEdits \subseteq head'.seen /\ head.seen \subseteq head'.seen
          /\ head'.seen \cup head'.text \subseteq made \cup remote.seen
          /\ detached'.seen \cup detached'.text \subseteq made \cup remote.seen
      BY <1>3, <1>5, <1>6 DEF Known, Current
    <2>2. work' \cup staged' \subseteq made \cup remote.seen
      BY <1>1, <1>4, <1>6 DEF Known
    <2> QED
      BY <1>1, <2>1, <2>2 DEF Known
  <1>8. Whole'
    BY <1>3, <1>5 DEF Whole
  <1>9. head.text \ touched \subseteq head'.text
    BY <1>3, <1>5
  <1>10. Indexed'
    BY <1>1, <1>2, <1>5 DEF Indexed, Merging
  <1>11. Unpushed' \subseteq Unpushed /\ Unpushed' \cap staged' = {}
    BY <1>1, <1>3, <1>9 DEF Unpushed
  <1>12. ASSUME NEW e \in Unpushed' PROVE e \in work' /\ Away(e)'
    <2>1. e \in Unpushed /\ e \in work /\ Away(e)
      BY <1>11 DEF Safe
    <2>2. e \in work'
      BY <1>1, <1>3, <2>1
    <2>3. Away(e)'
      BY <1>1, <1>2, <1>5, <2>1, MergedAway DEF Away
    <2> QED
      BY <2>2, <2>3
  <1>13. Safe' /\ Steady
    BY <1>1, <1>9, <1>11, <1>12 DEF Safe, Steady
  <1> QED
    BY <1>7, <1>8, <1>10, <1>13

LEMMA MergeStopsStep ==
  ASSUME TypeOK, Inv, MergeStops,
         UNCHANGED <<loopVars, loose, origin, remote, rebasing, histVars>>
  PROVE  Inv' /\ Steady
  <1> USE DEF loopVars, histVars
  <1>1. PICK v \in Merged :
          /\ staged' = {e \in v.text : NoteOf[e] \notin Conflicts(origin)}
                       \cup {e \in Current.text : NoteOf[e] \in Conflicts(origin)}
          /\ work' = (work \ Current.text) \cup staged'
                     \cup {e \in origin.text : NoteOf[e] \in Conflicts(origin)}
    BY DEF MergeStops
  <1>2. /\ CanMerge /\ ~Merging /\ staged = Current.text /\ staged \subseteq work
        /\ unmerged' = Conflicts(origin) /\ theirs' = origin
        /\ UNCHANGED <<head, detached>>
    BY DEF MergeStops, CanMerge, Indexed
  <1>3. /\ v.text \subseteq Current.text \cup origin.text
        /\ v.text \cap Unpushed = {} /\ Current.text \cap Unpushed = {}
        /\ ~rebasing => (head.text \cup origin.text) \ touched \subseteq v.text
    BY MergedKeep
  <1>4. staged' \subseteq Current.text \cup v.text /\ staged' \subseteq work'
    BY <1>1
  <1>5. work' \subseteq work \cup origin.text /\ work \ work' \subseteq Current.text
    BY <1>1, <1>2, <1>3, <1>4
  <1>6. Known'
    BY <1>2, <1>3, <1>4, <1>5 DEF Known, Current
  <1>7. Whole'
    BY <1>2 DEF Whole
  <1>8. Indexed'
    <2>1. ASSUME ~rebasing PROVE head.text \ touched \subseteq staged'
      BY <1>1, <1>3, <2>1 DEF Current
    <2>2. ASSUME ~rebasing, NEW e \in origin.seen \ touched, NoteOf[e] \notin unmerged'
          PROVE  e \in staged'
      <3>1. e \in v.text
        BY <1>3, <2>2 DEF Whole
      <3> QED
        BY <1>1, <1>2, <2>2, <3>1
    <2> QED
      BY <1>2, <1>4, <2>1, <2>2 DEF Indexed
  <1>9. Unpushed' = Unpushed /\ Unpushed' \cap staged' = {}
    BY <1>2, <1>3, <1>4 DEF Unpushed
  <1>10. ASSUME NEW e \in Unpushed PROVE e \in work' /\ Away(e)'
    <2>1. e \in work /\ Away(e)
      BY DEF Safe
    <2>2. e \in work'
      BY <1>3, <1>5, <2>1
    <2>3. NoteOf[e] \notin unmerged'
      BY <1>2, MergedAway
    <2>4. rebasing => \A f \in staged' : NoteOf[f] # NoteOf[e]
      BY <1>2, <1>4, MergedAway, RebasingAway
    <2>5. Away(e)'
      BY <1>2, <2>1, <2>3, <2>4 DEF Away
    <2> QED
      BY <2>2, <2>5
  <1>11. Safe' /\ Steady
    BY <1>2, <1>9, <1>10 DEF Safe, Steady
  <1> QED
    BY <1>6, <1>7, <1>8, <1>11

\* The rescue's loop keeps its path and its copy.
LEMMA LoopMoves ==
  ASSUME TypeOK, Loop, NEW g \in Goroutines,
         \A h \in Goroutines \ {g} : pc'[h] = pc[h] /\ todo'[h] = todo[h] /\ copy'[h] = copy[h],
         \/ pc'[g] \notin {"show", "ours", "copy", "stage"}
         \/ pc'[g] = "show" /\ todo'[g] # {}
         \/ /\ todo'[g] = todo[g] /\ copy'[g] = copy[g]
            /\ pc[g] \in {"ours", "copy", "stage"}
         \/ pc[g] = "show" /\ todo'[g] = todo[g] /\ \A e \in copy'[g] : NoteOf[e] = Path(g)
  PROVE  Loop'
  <1> SUFFICES ASSUME NEW h \in Goroutines
               PROVE  /\ pc'[h] \in {"show", "ours", "copy", "stage"} => todo'[h] # {}
                      /\ pc'[h] \in {"ours", "copy", "stage"}
                            => \A e \in copy'[h] : NoteOf[e] = Path(h)'
    BY DEF Loop
  <1>1. todo'[h] = todo[h] => Path(h)' = Path(h)
    BY DEF Path
  <1> QED
    BY <1>1 DEF Loop

LEMMA OursStep ==
  ASSUME TypeOK, Inv, NEW g \in Goroutines, Path(g) \in todo[g],
         work' = (work \ On(work, Path(g))) \cup KeepOurs(Path(g)),
         UNCHANGED <<loopVars, loose, staged, unmerged, theirs, refVars, histVars>>
  PROVE  Inv' /\ Steady
  <1> USE DEF loopVars, refVars, histVars
  <1>1. \A e \in staged : NoteOf[e] = Path(g) => e \in KeepOurs(Path(g))
    BY DEF KeepOurs, On
  <1>2. work' \subseteq work /\ \A e \in work \ work' : NoteOf[e] = Path(g)
    BY DEF KeepOurs, On, Indexed
  <1>3. staged \subseteq work'
    BY <1>1 DEF On, Indexed
  <1>4. Known' /\ Whole'
    BY <1>2 DEF Known, Whole
  <1>5. Indexed'
    BY <1>3 DEF Indexed, Merging
  <1>6. Unpushed' = Unpushed
    BY DEF Unpushed
  <1>7. Safe' /\ Steady
    BY <1>2, <1>6 DEF Safe, Away, Merging, Steady
  <1> QED
    BY <1>4, <1>5, <1>7

LEMMA CopyStep ==
  ASSUME TypeOK, Inv, NEW g \in Goroutines, loose' = loose \cup copy[g],
         UNCHANGED <<loopVars, work, staged, unmerged, theirs, refVars, histVars>>
  PROVE  Inv' /\ Steady
  <1> USE DEF loopVars, refVars, histVars
  <1>1. Known' /\ Whole'
    BY DEF Known, Whole
  <1>2. Indexed' /\ Safe' /\ Steady
    BY DEF Indexed, Safe, Away, Unpushed, Merging, Steady
  <1> QED
    BY <1>1, <1>2

LEMMA StageStep ==
  ASSUME TypeOK, Inv, NEW g \in Goroutines, Path(g) \in todo[g],
         \A e \in copy[g] : NoteOf[e] = Path(g),
         copy[g] \subseteq work \cup loose,
         staged' = (staged \ On(staged, Path(g))) \cup AddBoth(g),
         work' = work \cup copy[g], loose' = loose \ copy[g],
         unmerged' = unmerged \ {Path(g)},
         touched' = touched \cup (On(theirs.seen, Path(g)) \ copy[g]),
         todo' = [todo EXCEPT ![g] = @ \ {Path(g)}], copy' = [copy EXCEPT ![g] = {}],
         UNCHANGED <<theirs, refVars, made>>
  PROVE  Inv' /\ Steady /\ touched \subseteq touched' /\ work' \cup loose' = work \cup loose
  <1> USE DEF refVars
  <1> DEFINE p == Path(g)
  <1>0. touched \subseteq touched' /\ work' \cup loose' = work \cup loose
    OBVIOUS
  <1>1. AddBoth(g) \subseteq work' /\ \A e \in AddBoth(g) : NoteOf[e] = p
    BY DEF AddBoth, On
  <1>2. \A e \in staged' : e \in AddBoth(g) \/ (e \in staged /\ NoteOf[e] # p)
    BY DEF On, Indexed, Known
  <1>3. \A e \in work : NoteOf[e] = p => e \in staged'
    BY DEF AddBoth, On
  <1>4. \A e \in staged : NoteOf[e] # p => e \in staged'
    BY DEF On
  <1>5. \A h \in Goroutines : todo'[h] \subseteq todo[h] /\ copy'[h] \subseteq copy[h]
    BY DEF TypeOK
  <1>6. Known'
    <2>1. staged' \subseteq work' /\ copy[g] \subseteq made \cup remote.seen
      BY <1>1, <1>2 DEF Indexed, Known
    <2> QED
      BY <1>5, <2>1 DEF Known
  <1>7. Whole'
    BY <1>0 DEF Whole
  <1>8. Indexed'
    <2>1. staged' \subseteq work'
      BY <1>1, <1>2 DEF Indexed
    <2>2. staged \subseteq staged'
      BY <1>3, <1>4 DEF Indexed
    <2>3. ASSUME NEW e \in theirs.seen \ touched', NoteOf[e] = p PROVE e \in staged'
      BY <2>3 DEF On, AddBoth
    <2>4. ~rebasing' => head'.text \ touched' \subseteq staged'
      BY <1>0, <2>2 DEF Indexed
    <2>5. ASSUME ~rebasing, Merging, NEW e \in theirs.seen \ touched',
                 NoteOf[e] \notin unmerged'
          PROVE  e \in staged'
      BY <1>0, <2>2, <2>3, <2>5 DEF Indexed
    <2> QED
      BY <2>1, <2>4, <2>5 DEF Indexed, Merging
  <1>9. Unpushed' \subseteq Unpushed
    BY <1>0 DEF Unpushed
  <1>10. ASSUME NEW e \in Unpushed PROVE NoteOf[e] # p /\ e \notin AddBoth(g)
    BY <1>1 DEF Safe, Away
  <1>11. ASSUME NEW e \in Unpushed PROVE e \in work' /\ Away(e)'
    <2>1. e \in work /\ Away(e)
      BY DEF Safe
    <2>2. rebasing => \A f \in staged' : NoteOf[f] # NoteOf[e]
      BY <1>1, <1>2, <1>10, <2>1 DEF Away
    <2> QED
      BY <1>5, <2>1, <2>2 DEF Away
  <1>12. \A e \in staged' : e \in Unpushed => e \in staged
    BY <1>2, <1>10
  <1>13. Safe' /\ Steady
    BY <1>0, <1>9, <1>11, <1>12 DEF Safe, Steady, Merging
  <1> QED
    BY <1>0, <1>6, <1>7, <1>8, <1>13

LEMMA DropStep ==
  ASSUME TypeOK, Inv, Merging, ~AbortRefused,
         work' = {e \in work : NoteOf[e] \notin Changed}
                 \cup {e \in Current.text : NoteOf[e] \in Changed},
         staged' = Current.text, unmerged' = {}, theirs' = Empty,
         UNCHANGED <<loopVars, loose, refVars, histVars>>
  PROVE  Inv' /\ Steady
  <1> USE DEF loopVars, refVars, histVars
  <1>1. theirs'.seen = {} /\ theirs'.text = {} /\ ~Merging'
    BY EmptyVersion DEF Merging
  <1>2. work' \subseteq work \cup Current.text
    OBVIOUS
  <1>3. Current.text \subseteq made \cup remote.seen
    BY DEF Known, Current
  <1>4. Known'
    BY <1>1, <1>2, <1>3 DEF Known
  <1>5. Whole'
    BY DEF Whole
  <1>t. Current.text \subseteq Edits
    BY CurrentType
  <1>6. staged' \subseteq work'
    <2> SUFFICES ASSUME NEW e \in Current.text, NoteOf[e] \notin Changed PROVE e \in work
      OBVIOUS
    <2>1. NoteOf[e] \in Notes
      BY <1>t
    <2>2. On(staged, NoteOf[e]) = On(Current.text, NoteOf[e])
      BY <2>1 DEF Changed
    <2>3. e \in staged
      BY <2>2 DEF On
    <2> QED
      BY <2>3 DEF Indexed
  <1>7. Indexed'
    BY <1>1, <1>6 DEF Indexed, Current
  <1>8. Unpushed' = Unpushed /\ Unpushed' \cap staged' = {}
    <2>1. CASE rebasing
      BY <2>1, RebasingAway DEF Unpushed
    <2>2. CASE ~rebasing
      BY <2>2 DEF Unpushed, Current
    <2> QED
      BY <2>1, <2>2
  <1>9. ASSUME NEW e \in Unpushed PROVE e \in work' /\ Away(e)'
    <2>1. e \in work /\ e \notin staged /\ Away(e)
      BY DEF Safe
    <2>2. NoteOf[e] \notin Changed
      <3> SUFFICES ASSUME NoteOf[e] \in Changed PROVE FALSE
        OBVIOUS
      <3>1. NoteOf[e] \notin unmerged
        BY <2>1 DEF Away
      <3>2. On(work, NoteOf[e]) = On(staged, NoteOf[e])
        BY <3>1 DEF AbortRefused
      <3>3. e \in On(work, NoteOf[e])
        BY <2>1 DEF On
      <3>4. e \in staged
        BY <3>2, <3>3 DEF On
      <3> QED
        BY <2>1, <3>4
    <2>3. rebasing => \A f \in staged' : NoteOf[f] # NoteOf[e]
      BY RebasingAway
    <2>4. Away(e)'
      BY <2>1, <2>3 DEF Away
    <2> QED
      BY <2>1, <2>2, <2>4
  <1>10. Safe' /\ Steady
    BY <1>1, <1>8, <1>9 DEF Safe, Steady
  <1> QED
    BY <1>4, <1>5, <1>7, <1>10

\* The server takes the branch, and with it nothing off its own.
LEMMA PushStep ==
  ASSUME TypeOK, Inv, PushAccepted, origin' \in {origin, head},
         UNCHANGED <<loopVars, treeVars, head, rebasing, detached, histVars>>
  PROVE  Inv' /\ Steady /\ remote'.text = head.text /\ remote.text \ touched \subseteq remote'.text
  <1> USE DEF loopVars, treeVars, histVars
  <1>1. remote' = head /\ remote.seen \subseteq head.seen
    BY DEF PushAccepted
  <1>2. head.text \subseteq made \cup remote.seen /\ head.seen \subseteq made \cup remote.seen
        /\ made \subseteq LocalEdits
    BY MakesLocal DEF Known
  <1>3. head.text \subseteq head.seen /\ head.seen \cap LocalEdits \subseteq made
    BY <1>1, <1>2 DEF Known
  <1>4. made \cup remote.seen \subseteq made \cup remote'.seen
    BY <1>1
  <1>5. Known'
    <2>1. /\ origin'.text \subseteq origin'.seen /\ remote'.text \subseteq remote'.seen
          /\ head'.text \cap LocalEdits \subseteq head'.seen
          /\ remote'.seen \cap LocalEdits \subseteq made'
          /\ (remote'.seen \cup origin'.seen) \cap LocalEdits \subseteq head'.seen
      BY <1>1, <1>3 DEF Known
    <2>2. origin'.seen \subseteq made \cup remote'.seen
      BY <1>1, <1>4 DEF Known
    <2> QED
      BY <1>4, <2>1, <2>2 DEF Known
  <1>6. Whole'
    BY <1>1 DEF Whole
  <1>7. Indexed' /\ Safe' /\ Steady
    BY DEF Indexed, Safe, Away, Unpushed, Merging, Steady
  <1>8. remote.text \ touched \subseteq head.text
    BY <1>1 DEF Known, Whole
  <1> QED
    BY <1>1, <1>5, <1>6, <1>7, <1>8

(***************************************************************************)
(* Every step keeps the invariant.                                         *)
(***************************************************************************)
LEMMA GiveUpShrinks ==
  ASSUME TypeOK, NEW g \in Goroutines, GiveUp(g)
  PROVE  LoopShrinks
  BY DEF GiveUp, LoopShrinks, TypeOK

LEMMA SameLoopShrinks == ASSUME UNCHANGED loopVars PROVE LoopShrinks
  BY DEF LoopShrinks, loopVars

LEMMA PullInv ==
  ASSUME TypeOK, Inv, NEW g \in Goroutines, Pull(g)
  PROVE  Inv' /\ Steady
  <1>0. UNCHANGED loopVars /\ UNCHANGED histVars /\ LoopShrinks
    BY SameLoopShrinks DEF Pull
  <1> USE DEF repoVars, treeVars, refVars
  <1>1. CASE PullNoRemote(g) \/ PullOffline(g)
    BY <1>0, <1>1, QuietStep DEF PullNoRemote, PullOffline
  <1>2. ASSUME Fetch, UNCHANGED <<treeVars, head, remote, rebasing, detached>>
        PROVE  Inv' /\ Steady
    BY <1>0, <1>2, FetchStep DEF Fetch
  <1>3. ASSUME UNCHANGED <<origin, tracking, linked>>,
               UNCHANGED <<treeVars, head, remote, rebasing, detached>>
        PROVE  Inv' /\ Steady
    BY <1>0, <1>3, QuietStep
  <1>4. CASE PullRefused(g) \/ PullUpToDate(g)
    BY <1>2, <1>3, <1>4 DEF PullRefused, PullUpToDate
  <1>5. CASE PullRebased(g)
    BY <1>0, <1>5, RebasedStep
  <1>6. ASSUME CanRebase(remote), ~Blocked(Moved(remote)), Fetch,
               NEW at \in SUBSET Contending, StopRebase(at), UNCHANGED <<loose, head, remote>>
        PROVE  Inv' /\ Steady
    BY <1>0, <1>6, StopRebaseStep
  <1>7. CASE PullStopped(g)
    BY <1>2, <1>6, <1>7 DEF PullStopped
  <1>8. CASE PullKilled(g)
    BY <1>2, <1>3, <1>6, <1>8 DEF PullKilled
  <1> QED
    BY <1>1, <1>4, <1>5, <1>7, <1>8 DEF Pull

LEMMA RescueInv ==
  ASSUME TypeOK, Inv, Loop, NEW g \in Goroutines, Rescue(g)
  PROVE  Inv' /\ Steady
  <1> USE DEF repoVars, treeVars, refVars
  <1>1. CASE Merge(g)
    <2>0. LoopShrinks
      BY <1>1, SameLoopShrinks DEF Merge
    <2>1. CASE MergeNone
      BY <1>1, <2>0, <2>1, QuietStep DEF Merge, MergeNone
    <2>2. CASE MergeClean
      BY <1>1, <2>2, MergeCleanStep DEF Merge
    <2>3. CASE MergeStops
      BY <1>1, <2>3, MergeStopsStep DEF Merge
    <2> QED
      BY <1>1, <2>1, <2>2, <2>3 DEF Merge
  <1>2. CASE List(g)
    <2>1. LoopShrinks
      BY <1>2, GiveUpShrinks DEF List, LoopShrinks, TypeOK
    <2> QED
      BY <1>2, <2>1, QuietStep DEF List
  <1>3. CASE Show(g)
    <2>1. LoopShrinks
      BY <1>3, GiveUpShrinks DEF Show, LoopShrinks, TypeOK, On
    <2> QED
      BY <1>3, <2>1, QuietStep DEF Show
  <1>g. ASSUME GiveUp(g), UNCHANGED <<repoVars, histVars>> PROVE Inv' /\ Steady
    BY <1>g, GiveUpShrinks, QuietStep
  <1>4. CASE Ours(g)
    <2>1. Path(g) \in todo[g]
      BY <1>4 DEF Ours, Loop, Path
    <2>2. CASE GiveUp(g) /\ UNCHANGED work
      BY <1>4, <1>g, <2>2 DEF Ours
    <2>3. CASE /\ work' = (work \ On(work, Path(g))) \cup KeepOurs(Path(g))
               /\ UNCHANGED loopVars
      BY <1>4, <2>1, <2>3, OursStep DEF Ours
    <2> QED
      BY <1>4, <2>2, <2>3 DEF Ours
  <1>5. CASE Copy(g)
    BY <1>5, <1>g, CopyStep DEF Copy
  <1>6. CASE Stage(g)
    <2>1. Path(g) \in todo[g] /\ \A e \in copy[g] : NoteOf[e] = Path(g)
      BY <1>6 DEF Stage, Loop, Path
    <2> QED
      BY <1>6, <1>g, <2>1, StageStep DEF Stage, histVars
  <1>7. CASE Seal(g)
    <2>1. CASE Committable /\ CommitIndex
      BY <1>7, <2>1, CommitIndexStep DEF Seal
    <2>2. CASE ~(Committable /\ CommitIndex)
      BY <1>7, <2>2, SameLoopShrinks, QuietStep DEF Seal
    <2> QED
      BY <2>1, <2>2
  <1>8. CASE Drop(g)
    <2>1. CASE UNCHANGED <<work, staged, unmerged, theirs>>
      BY <1>8, <2>1, SameLoopShrinks, QuietStep DEF Drop
    <2>2. CASE ~UNCHANGED <<work, staged, unmerged, theirs>>
      BY <1>8, <2>2, DropStep DEF Drop
    <2> QED
      BY <2>1, <2>2
  <1> QED
    BY <1>1, <1>2, <1>3, <1>4, <1>5, <1>6, <1>7, <1>8 DEF Rescue

LEMMA AbortInv ==
  ASSUME TypeOK, Inv, NEW g \in Goroutines, Abort(g)
  PROVE  Inv' /\ Steady
  <1>1. CASE rebasing /\ ~rebasing'
    BY <1>1, AbortStep
  <1>2. CASE ~(rebasing /\ ~rebasing')
    BY <1>2, SameLoopShrinks, QuietStep DEF Abort, repoVars, treeVars, refVars
  <1> QED
    BY <1>1, <1>2

LEMMA PushInv ==
  ASSUME TypeOK, Inv, NEW g \in Goroutines, Push(g)
  PROVE  /\ Inv' /\ Steady
         /\ remote' = remote \/ remote'.text = head.text
         /\ remote.text \ touched \subseteq remote'.text
  <1>1. CASE PushAccepted /\ origin' \in {origin, head}
    BY <1>1, PushStep DEF Push
  <1>2. CASE ~(PushAccepted /\ origin' \in {origin, head})
    BY <1>2, SameLoopShrinks, QuietStep DEF Push, repoVars, treeVars, refVars
  <1> QED
    BY <1>1, <1>2

LEMMA CommitInv ==
  ASSUME TypeOK, Inv, NEW g \in Syncers, Commit(g)
  PROVE  Inv' /\ Steady /\ (pc'[g] = "pull" => staged' \cap Unpushed' = {})
  <1> USE DEF repoVars, treeVars, refVars
  <1>1. CASE Committable /\ CommitIndex
    BY <1>1, CommitIndexStep DEF Commit
  <1>2. CASE ~(Committable /\ CommitIndex)
    <2>1. pc'[g] = "idle"
      BY <1>2 DEF Commit, Fails, Finish, TypeOK, Goroutines
    <2> QED
      BY <1>2, <2>1, SameLoopShrinks, QuietStep DEF Commit
  <1> QED
    BY <1>1, <1>2

\* The steps that leave the repository alone whatever they do to the engine.
Control ==
  \/ InitScrapEngine \/ Restart
  \/ \E g \in Syncers : TimerFire(g) \/ TriggerNow(g) \/ Enter(g) \/ Status(g)
  \/ \E g \in Pullers : Start(g)
  \/ UNCHANGED vars

LEMMA ControlInv ==
  ASSUME TypeOK, Inv, Control
  PROVE  Inv' /\ Steady /\ UNCHANGED <<repoVars, histVars>>
  <1> USE DEF loopVars, repoVars, histVars
  <1>1. CASE Restart
    <2>1. LoopShrinks
      BY <1>1 DEF Restart, LoopShrinks
    <2> QED
      BY <1>1, <2>1, QuietStep DEF Restart
  <1>2. CASE ~Restart
    <2>1. UNCHANGED <<loopVars, repoVars, histVars>>
      BY <1>2 DEF Control, InitScrapEngine, TimerFire, TriggerNow, Enter, Status, Start, vars
    <2> QED
      BY <2>1, SameLoopShrinks, QuietStep
  <1> QED
    BY <1>1, <1>2

LEMMA NextCases ==
  [Next]_vars => \/ Control
                 \/ \E e \in LocalEdits : Edit(e)
                 \/ \E e \in RemoteEdits : OtherDevice(e)
                 \/ \E g \in Syncers : Add(g) \/ Commit(g)
                 \/ \E g \in Goroutines : Pull(g) \/ Abort(g) \/ Rescue(g) \/ Push(g)
  BY DEF Next, Control, SyncStep, NetStep

LEMMA LoopStep == TypeOK /\ Loop /\ [Next]_vars => Loop'
  <1> SUFFICES ASSUME TypeOK, Loop, [Next]_vars PROVE Loop'
    OBVIOUS
  <1> USE DEF loopVars
  <1>t. pc \in [Goroutines -> Labels]
    BY DEF TypeOK
  \* A goroutine outside of the loop, with the loops' variables as they are.
  <1>1. ASSUME NEW g \in Goroutines, UNCHANGED loopVars,
               \A h \in Goroutines \ {g} : pc'[h] = pc[h],
               pc'[g] \notin {"show", "ours", "copy", "stage"}
        PROVE  Loop'
    BY <1>1, LoopMoves
  <1>2. ASSUME NEW g \in Goroutines, GiveUp(g) PROVE Loop'
    <2>1. /\ \A h \in Goroutines \ {g} : /\ pc'[h] = pc[h] /\ todo'[h] = todo[h]
                                         /\ copy'[h] = copy[h]
          /\ pc'[g] = "drop"
      BY <1>2 DEF GiveUp, Goto, TypeOK
    <2> QED
      BY <2>1, LoopMoves
  <1>3. CASE UNCHANGED <<pc, loopVars>>
    BY <1>3 DEF Loop, Path
  <1>4. CASE InitScrapEngine
    <2>1. CASE UNCHANGED pc
      BY <1>3, <1>4, <2>1 DEF InitScrapEngine
    <2>2. CASE ~UNCHANGED pc
      <3>1. PICK g \in Goroutines : pc' = [pc EXCEPT ![g] = "start"]
        BY <1>4, <2>2 DEF InitScrapEngine, Goroutines
      <3> QED
        BY <1>1, <1>4, <1>t, <3>1 DEF InitScrapEngine
    <2> QED
      BY <2>1, <2>2
  <1>5. CASE Restart
    <2>1. \A h \in Goroutines : pc'[h] \in {"idle", "start"}
      BY <1>5 DEF Restart
    <2> QED
      BY <2>1 DEF Loop
  <1>6. ASSUME NEW g \in Syncers, TimerFire(g) \/ TriggerNow(g) \/ Enter(g) PROVE Loop'
    BY <1>1, <1>6, <1>t DEF TimerFire, TriggerNow, Enter, Goroutines
  <1>7. ASSUME NEW g \in Syncers, Add(g) \/ Status(g) \/ Commit(g) PROVE Loop'
    BY <1>1, <1>7, <1>t DEF Add, Status, Commit, Fails, Goto, Finish, Goroutines
  <1>8. ASSUME NEW g \in Pullers, Start(g) PROVE Loop'
    BY <1>1, <1>8, <1>t DEF Start, Goroutines
  <1>9. ASSUME NEW g \in Goroutines, Pull(g) PROVE Loop'
    <2>1. pc'[g] \in {"idle", "push", "abort"} /\ \A h \in Goroutines \ {g} : pc'[h] = pc[h]
      BY <1>9, <1>t DEF Pull, PullNoRemote, PullRefused, PullUpToDate, PullRebased,
         PullStopped, PullOffline, PullKilled, AfterPull, Fails, Goto, Finish
    <2> QED
      BY <1>1, <1>9, <2>1 DEF Pull
  <1>10. ASSUME NEW g \in Goroutines, Abort(g) \/ Merge(g) \/ Seal(g) \/ Drop(g) PROVE Loop'
    <2>1. /\ pc'[g] \in {"idle", "merge", "list", "push", "drop"}
          /\ \A h \in Goroutines \ {g} : pc'[h] = pc[h]
      BY <1>10, <1>t DEF Abort, Merge, Seal, Drop, Goto, Finish
    <2> QED
      BY <1>1, <1>10, <2>1 DEF Abort, Merge, Seal, Drop
  <1>11. ASSUME NEW g \in Goroutines, Push(g) PROVE Loop'
    <2>1. pc'[g] = "idle" /\ \A h \in Goroutines \ {g} : pc'[h] = pc[h]
      BY <1>11, <1>t DEF Push, PushRejected, Fails, Finish
    <2> QED
      BY <1>1, <1>11, <2>1 DEF Push
  <1>12. ASSUME NEW g \in Goroutines, List(g) PROVE Loop'
    <2>1. CASE GiveUp(g)
      BY <1>2, <2>1
    <2>2. CASE unmerged # {} /\ todo' = [todo EXCEPT ![g] = unmerged] /\ Goto(g, "show")
               /\ UNCHANGED copy
      <3>1. /\ \A h \in Goroutines \ {g} : /\ pc'[h] = pc[h] /\ todo'[h] = todo[h]
                                           /\ copy'[h] = copy[h]
            /\ pc'[g] = "show" /\ todo'[g] # {}
        BY <2>2 DEF Goto, TypeOK
      <3> QED
        BY <3>1, LoopMoves
    <2> QED
      BY <1>12, <2>1, <2>2 DEF List
  <1>13. ASSUME NEW g \in Goroutines, Show(g) PROVE Loop'
    <2>1. CASE GiveUp(g)
      BY <1>2, <2>1
    <2>2. CASE copy' = [copy EXCEPT ![g] = On(theirs.text, Path(g))] /\ Goto(g, "ours")
               /\ UNCHANGED todo
      <3>1. /\ \A h \in Goroutines \ {g} : /\ pc'[h] = pc[h] /\ todo'[h] = todo[h]
                                           /\ copy'[h] = copy[h]
            /\ todo'[g] = todo[g] /\ copy'[g] = On(theirs.text, Path(g))
        BY <2>2 DEF Goto, TypeOK
      <3>2. pc[g] = "show" /\ \A e \in copy'[g] : NoteOf[e] = Path(g)
        BY <1>13, <3>1 DEF Show, On
      <3> QED
        BY <3>1, <3>2, LoopMoves
    <2> QED
      BY <1>13, <2>1, <2>2 DEF Show
  <1>14. ASSUME NEW g \in Goroutines, Ours(g) \/ Copy(g) PROVE Loop'
    <2>1. CASE GiveUp(g)
      BY <1>2, <2>1
    <2>2. CASE (Goto(g, "copy") \/ Goto(g, "stage")) /\ UNCHANGED loopVars
      <3>1. \A h \in Goroutines \ {g} : pc'[h] = pc[h]
        BY <1>t, <2>2 DEF Goto
      <3>2. pc[g] \in {"ours", "copy", "stage"}
        BY <1>14 DEF Ours, Copy
      <3> QED
        BY <2>2, <3>1, <3>2, LoopMoves
    <2> QED
      BY <1>14, <2>1, <2>2 DEF Ours, Copy
  <1>15. ASSUME NEW g \in Goroutines, Stage(g) PROVE Loop'
    <2>1. CASE GiveUp(g)
      BY <1>2, <2>1
    <2>2. CASE /\ todo' = [todo EXCEPT ![g] = @ \ {Path(g)}]
               /\ copy' = [copy EXCEPT ![g] = {}]
               /\ Goto(g, IF todo'[g] = {} THEN "seal" ELSE "show")
      <3>1. /\ \A h \in Goroutines \ {g} : /\ pc'[h] = pc[h] /\ todo'[h] = todo[h]
                                           /\ copy'[h] = copy[h]
            /\ pc'[g] = IF todo'[g] = {} THEN "seal" ELSE "show"
        BY <2>2 DEF Goto, TypeOK
      <3> QED
        BY <3>1, LoopMoves
    <2> QED
      BY <1>15, <2>1, <2>2 DEF Stage
  <1>16. CASE (\E e \in LocalEdits : Edit(e)) \/ (\E e \in RemoteEdits : OtherDevice(e))
    BY <1>3, <1>16 DEF Edit, OtherDevice
  <1>17. CASE UNCHANGED vars
    BY <1>3, <1>17 DEF vars
  <1> QED
    BY <1>4, <1>5, <1>6, <1>7, <1>8, <1>9, <1>10, <1>11, <1>12, <1>13, <1>14, <1>15,
       <1>16, <1>17 DEF Next, SyncStep, NetStep, Rescue

LEMMA InvStep == TypeOK /\ Inv /\ Loop /\ [Next]_vars => Inv'
  <1> SUFFICES ASSUME TypeOK, Inv, Loop, [Next]_vars PROVE Inv'
    OBVIOUS
  <1>1. ASSUME NEW g \in Syncers, Add(g) PROVE Inv'
    <2>1. CASE UNCHANGED <<treeVars, touched>>
      BY <1>1, <2>1, SameLoopShrinks, QuietStep DEF Add, repoVars, histVars
    <2>2. CASE ~UNCHANGED <<treeVars, touched>>
      BY <1>1, <2>2, AddStep
    <2> QED
      BY <2>1, <2>2
  <1> QED
    BY <1>1, NextCases, ControlInv, EditStep, OtherDeviceStep, CommitInv, PullInv, AbortInv,
       RescueInv, PushInv

LEMMA InvHolds == Spec => [](TypeOK /\ Inv /\ Loop)
  <1>1. Init => Inv /\ Loop
    <2> SUFFICES ASSUME Init PROVE Inv /\ Loop
      OBVIOUS
    <2>1. /\ \A v \in {head, origin, remote, detached, theirs} : v.seen = {} /\ v.text = {}
          /\ work = {} /\ loose = {} /\ staged = {} /\ unmerged = {} /\ made = {}
          /\ ~rebasing /\ \A g \in Goroutines : copy[g] = {} /\ pc[g] = "idle"
      BY EmptyVersion DEF Init
    <2>2. Known
      BY <2>1 DEF Known
    <2>3. Whole /\ Indexed
      BY <2>1 DEF Whole, Indexed, Merging
    <2>4. Safe /\ Loop
      BY <2>1 DEF Safe, Unpushed, Loop
    <2> QED
      BY <2>2, <2>3, <2>4
  <1> QED
    BY <1>1, InvStep, LoopStep, TypeCorrect, PTL DEF Spec

\* No edit of the user is ever lost, but one put in the way of an open rebase or merge.
THEOREM NoEditLostHolds == Spec => []NoEditLost
  <1>1. Inv => NoEditLost
    BY DEF Safe, Unpushed, NoEditLost
  <1> QED
    BY <1>1, InvHolds, PTL

(***************************************************************************)
(* The server, and the replica that the engine implements.                 *)
(***************************************************************************)
Local == (Files \cap LocalEdits) \cup head.text

\* What a step may do to this device's copy and to the server's.
Replicates ==
  \/ \E e \in LocalEdits : Local' = Local \cup {e} /\ remote' = remote
  \/ \E e \in RemoteEdits : remote'.text = remote.text \cup {e} /\ Local' = Local
  \/ /\ remote' = remote
     /\ Local \ Local' \subseteq touched /\ Local' \ Local \subseteq remote.text \cup touched
  \/ /\ Local' = Local
     /\ remote'.text = head.text /\ remote.text \ touched \subseteq remote'.text

\* A step that keeps the invariant and touches nothing keeps this device's edits.
LEMMA SteadyReplicates ==
  ASSUME TypeOK, Inv, Inv', Steady, UNCHANGED <<made, touched, remote>>
  PROVE  Replicates
  <1>1. Files \cap LocalEdits \subseteq made /\ Files' \cap LocalEdits \subseteq made
    BY DEF Known, Files
  <1>2. ASSUME NEW e \in Local, e \notin touched PROVE e \in Local'
    <2>1. CASE e \in head.text
      BY <1>2, <2>1 DEF Steady, Local
    <2>2. CASE e \in Files \cap LocalEdits
      <3>1. e \in Unpushed' => e \in work'
        BY DEF Safe
      <3> QED
        BY <1>1, <1>2, <2>2, <3>1 DEF Unpushed, Local, Files
    <2> QED
      BY <1>2, <2>1, <2>2 DEF Local
  <1>3. ASSUME NEW e \in Local', e \notin touched PROVE e \in Local \cup remote.text
    <2>1. CASE e \in made
      <3>1. e \in Unpushed => e \in work
        BY DEF Safe
      <3> QED
        BY <1>3, <2>1, <3>1, MakesLocal DEF Unpushed, Local, Files
    <2>2. CASE e \notin made
      <3>1. e \in head'.text
        BY <1>1, <1>3, <2>2 DEF Local
      <3>2. e \in remote.seen
        BY <2>2, <3>1 DEF Known
      <3> QED
        BY <1>3, <3>2 DEF Whole
    <2> QED
      BY <2>1, <2>2
  <1> QED
    BY <1>2, <1>3 DEF Replicates

LEMMA ReplicatesStep ==
  ASSUME TypeOK, Inv, Loop, [Next]_vars
  PROVE  Replicates /\ touched \subseteq touched'
  <1>i. Inv'
    BY InvStep
  <1> USE DEF repoVars, treeVars, refVars, histVars
  <1>s. ASSUME Steady, UNCHANGED <<made, touched, remote>>
        PROVE  Replicates /\ touched \subseteq touched'
    BY <1>i, <1>s, SteadyReplicates
  \* The files as a whole and the branch stay.
  <1>f. ASSUME work' \cup loose' = work \cup loose, UNCHANGED <<head, remote>>
        PROVE  Replicates
    BY <1>f DEF Replicates, Local, Files
  <1>1. CASE Control
    BY <1>1, <1>s, ControlInv
  <1>2. ASSUME NEW e \in LocalEdits, Edit(e) PROVE Replicates /\ touched \subseteq touched'
    BY <1>2 DEF Edit, Replicates, Local, Files
  <1>3. ASSUME NEW e \in RemoteEdits, OtherDevice(e)
        PROVE  Replicates /\ touched \subseteq touched'
    <2>1. remote'.text = remote.text \cup {e}
      BY <1>3, OtherDeviceStep
    <2> QED
      BY <1>3, <2>1 DEF OtherDevice, Replicates, Local, Files
  <1>4. ASSUME NEW g \in Syncers, Add(g) PROVE Replicates /\ touched \subseteq touched'
    BY <1>4, <1>f DEF Add
  <1>5. ASSUME NEW g \in Syncers, Commit(g) PROVE Replicates /\ touched \subseteq touched'
    BY <1>5, <1>s, CommitInv DEF Commit
  <1>6. ASSUME NEW g \in Goroutines, Pull(g) PROVE Replicates /\ touched \subseteq touched'
    <2>1. UNCHANGED remote
      BY <1>6 DEF Pull, PullNoRemote, PullRefused, PullUpToDate, PullRebased,
                  PullStopped, PullOffline, PullKilled
    <2> QED
      BY <1>6, <1>s, <2>1, PullInv DEF Pull
  <1>7. ASSUME NEW g \in Goroutines, Abort(g) PROVE Replicates /\ touched \subseteq touched'
    BY <1>7, <1>s, AbortInv DEF Abort
  <1>8. ASSUME NEW g \in Goroutines, Rescue(g) PROVE Replicates /\ touched \subseteq touched'
    <2>1. CASE Stage(g) /\ ~UNCHANGED touched
      <3>1. touched \subseteq touched' /\ work' \cup loose' = work \cup loose
        BY <2>1 DEF Stage
      <3> QED
        BY <1>f, <2>1, <3>1 DEF Stage
    <2>2. CASE UNCHANGED touched
      <3>1. UNCHANGED <<made, remote>>
        BY <1>8 DEF Rescue, Merge, List, Show, Ours, Copy, Stage, Seal, Drop
      <3> QED
        BY <1>8, <1>s, <2>2, <3>1, RescueInv
    <2> QED
      BY <1>8, <2>1, <2>2 DEF Rescue, Merge, List, Show, Ours, Copy, Stage, Seal, Drop
  <1>9. ASSUME NEW g \in Goroutines, Push(g) PROVE Replicates /\ touched \subseteq touched'
    <2>1. /\ remote' = remote \/ remote'.text = head.text
          /\ remote.text \ touched \subseteq remote'.text
      BY <1>9, PushInv
    <2>2. Local' = Local /\ UNCHANGED touched
      BY <1>9 DEF Push, Local, Files
    <2> QED
      BY <2>1, <2>2 DEF Replicates
  <1> QED
    BY <1>1, <1>2, <1>3, <1>4, <1>5, <1>6, <1>7, <1>8, <1>9, NextCases

\* The server never loses a text, but one that this device dropped by a `git add' in
\* the middle of a rescue.
THEOREM ServerKeepsHolds == Spec => ServerKeeps
  <1>1. TypeOK /\ Inv /\ Loop /\ [Next]_vars => [remote.text \ touched \subseteq remote'.text]_vars
    BY ReplicatesStep DEF Replicates
  <1> QED
    BY <1>1, InvHolds, PTL DEF Spec, ServerKeeps

\* The engine, with git, its goroutines and their failures, implements the replicated
\* set of edits.
THEOREM Refinement == Spec => RefinesReplica
  <1>1. Init => Replica!Init
    BY EmptyVersion DEF Init, Files, Replica!Init
  <1>2. TypeOK /\ Inv /\ Loop /\ [Next]_vars
          => [Replica!Next]_<<(Files \cap LocalEdits) \cup head.text, remote.text, touched>>
    <2> SUFFICES ASSUME TypeOK, Inv, Loop, [Next]_vars
                 PROVE  Replica!Next
      OBVIOUS
    <2>0. touched \subseteq touched' /\ Replicates
      BY ReplicatesStep
    <2> USE DEF Local
    <2>1. CASE \E e \in LocalEdits : Local' = Local \cup {e} /\ remote' = remote
      BY <2>0, <2>1 DEF Replica!Next, Replica!Write
    <2>2. CASE \E e \in RemoteEdits : remote'.text = remote.text \cup {e} /\ Local' = Local
      BY <2>0, <2>2 DEF Replica!Next, Replica!Arrive
    <2>3. CASE /\ remote' = remote
               /\ Local \ Local' \subseteq touched
               /\ Local' \ Local \subseteq remote.text \cup touched
      <3>1. Local' = (Local \ (Local \ Local')) \cup (Local' \ Local)
        OBVIOUS
      <3>2. Replica!Fetch
        BY <2>3, <3>1 DEF Replica!Fetch
      <3> QED
        BY <2>0, <3>2 DEF Replica!Next
    <2>4. CASE /\ Local' = Local
               /\ remote'.text = head.text /\ remote.text \ touched \subseteq remote'.text
      <3>1. /\ remote.text \ remote'.text \subseteq touched /\ remote'.text \subseteq Local
            /\ remote'.text = (remote.text \ (remote.text \ remote'.text)) \cup remote'.text
        BY <2>4
      <3>2. Replica!Publish
        BY <2>4, <3>1 DEF Replica!Publish
      <3> QED
        BY <2>0, <3>2 DEF Replica!Next
    <2> QED
      BY <2>0, <2>1, <2>2, <2>3, <2>4 DEF Replicates
  <1> QED
    BY <1>1, <1>2, InvHolds, PTL DEF Spec, RefinesReplica, Replica!Spec

(***************************************************************************)
(* What "synced" promises.  From its commit on, a syncer finds no unpushed *)
(* edit in the index: only Add brings one in, and no second syncer can be  *)
(* there (OneSync).                                                        *)
(***************************************************************************)
Sending == {"pull", "abort", "merge", "list", "show", "ours", "copy", "stage", "seal",
            "drop", "push"}

Committed == \A g \in Syncers : pc[g] \in Sending => staged \cap Unpushed = {}

\* No other step than its commit brings a syncer to its pull.
LEMMA SendingBefore ==
  ASSUME TypeOK, [Next]_vars, NEW g \in Syncers, pc'[g] \in Sending,
         ~\E h \in Syncers : Add(h) \/ Commit(h)
  PROVE  pc[g] \in Sending
  <1> USE DEF Goroutines, Sending
  <1>t. pc \in [Goroutines -> Labels] /\ g \in Goroutines /\ g \notin Pullers
    BY DEF TypeOK
  <1>1. CASE \/ UNCHANGED vars \/ \E e \in LocalEdits : Edit(e)
             \/ \E e \in RemoteEdits : OtherDevice(e)
    BY <1>1 DEF Edit, OtherDevice, vars
  <1>2. CASE InitScrapEngine \/ Restart \/ \E h \in Pullers : Start(h)
    BY <1>2, <1>t DEF InitScrapEngine, Restart, Start
  <1>3. CASE \E h \in Syncers : TimerFire(h) \/ TriggerNow(h) \/ Enter(h)
    BY <1>3, <1>t DEF TimerFire, TriggerNow, Enter
  <1>4. CASE \E h \in Syncers : Status(h)
    BY <1>4, <1>t DEF Status, Goto, Finish
  <1>5. ASSUME NEW h \in Goroutines, NetStep(h) PROVE pc[g] \in Sending
    <2>1. \A i \in Goroutines : i # h => pc'[i] = pc[i]
      <3>1. Moves(h)
        BY <1>5, WorkingMoves
      <3> QED
        BY <1>t, <3>1 DEF Moves, Goto, Finish
    <2>2. pc[h] \in Sending
      BY <1>5 DEF NetStep, Pull, Abort, Rescue, Merge, List, Show, Ours, Copy, Stage, Seal,
                  Drop, Push
    <2> QED
      BY <1>t, <2>1, <2>2
  <1> QED
    BY <1>1, <1>2, <1>3, <1>4, <1>5 DEF Next, SyncStep

LEMMA SteadyStep ==
  ASSUME TypeOK, Inv, Loop, [Next]_vars, ~\E g \in Syncers : Add(g)
  PROVE  Steady
  BY NextCases, ControlInv, EditStep, OtherDeviceStep, CommitInv, PullInv, AbortInv,
     RescueInv, PushInv

LEMMA CommittedStep ==
  TypeOK /\ OneSync /\ Inv /\ Loop /\ Committed /\ [Next]_vars => Committed'
  <1> SUFFICES ASSUME TypeOK, OneSync, Inv, Loop, Committed, [Next]_vars,
                      NEW g \in Syncers, pc'[g] \in Sending
               PROVE  staged' \cap Unpushed' = {}
    BY DEF Committed
  <1>t. pc \in [Goroutines -> Labels] /\ g \in Goroutines
    BY DEF TypeOK, Goroutines
  <1>1. ASSUME NEW h \in Syncers, Add(h) PROVE FALSE
    <2>1. g # h
      BY <1>1, <1>t DEF Add, Goto, Fails, Finish, Sending
    <2>2. pc[g] \in Sending
      BY <1>1, <1>t, <2>1 DEF Add, Goto, Fails, Finish, Goroutines
    <2>3. Syncing(g) /\ Syncing(h)
      BY <1>1, <2>2 DEF Syncing, Add, Sending
    <2> QED
      BY <2>1, <2>3 DEF OneSync
  <1>2. ASSUME NEW h \in Syncers, Commit(h) PROVE staged' \cap Unpushed' = {}
    <2>1. CASE g = h
      <3>1. pc'[g] = "pull"
        BY <1>2, <1>t, <2>1 DEF Commit, Goto, Fails, Finish, Sending
      <3> QED
        BY <1>2, <2>1, <3>1, CommitInv
    <2>2. CASE g # h
      <3>1. pc[g] \in Sending
        BY <1>2, <1>t, <2>2 DEF Commit, Goto, Fails, Finish, Goroutines
      <3>2. Syncing(g) /\ Syncing(h)
        BY <1>2, <3>1 DEF Syncing, Commit, Sending
      <3> QED
        BY <2>2, <3>2 DEF OneSync
    <2> QED
      BY <2>1, <2>2
  <1>3. CASE ~\E h \in Syncers : Add(h) \/ Commit(h)
    <2>1. staged \cap Unpushed = {}
      BY <1>3, SendingBefore DEF Committed
    <2> QED
      BY <1>3, <2>1, SteadyStep DEF Steady
  <1> QED
    BY <1>1, <1>2, <1>3

LEMMA CommittedHolds == Spec => []Committed
  <1>1. Init => Committed
    BY DEF Init, Committed, Sending, Goroutines
  <1> QED
    BY <1>1, CommittedStep, OneSyncHolds, InvHolds, PTL DEF Spec

\* A sync that reports "synced" has brought every edit its commit took to the server.
THEOREM SyncedHolds == Spec => SyncedIsPushed
  <1>1. TypeOK /\ Inv /\ Committed /\ [Next]_vars
          => [\A g \in Syncers :
                pc[g] = "push" /\ pc'[g] = "idle" /\ status' = "synced"
                   => staged \ touched \subseteq remote'.text]_vars
    <2> SUFFICES ASSUME TypeOK, Inv, Committed, [Next]_vars, ~UNCHANGED vars, NEW g \in Syncers,
                        pc[g] = "push", pc'[g] = "idle", status' = "synced"
                 PROVE  staged \ touched \subseteq remote'.text
      OBVIOUS
    <2>1. staged \cap Unpushed = {}
      BY DEF Committed, Sending
    <2>2. Push(g) \/ Restart
      <3>t. pc \in [Goroutines -> Labels] /\ g \in Goroutines
        BY DEF TypeOK, Goroutines
      <3>1. ASSUME NEW h \in Goroutines, Moves(h) PROVE g = h
        BY <3>1, <3>t DEF Moves, Goto, Finish
      <3>2. ASSUME NEW h \in Syncers,
                   TimerFire(h) \/ TriggerNow(h) \/ Enter(h)
            PROVE  FALSE
        BY <3>2, <3>t DEF TimerFire, TriggerNow, Enter, Goroutines
      <3>3. ASSUME NEW h \in Pullers, Start(h) PROVE FALSE
        BY <3>3, <3>t DEF Start, Goroutines
      <3>4. ~InitScrapEngine /\ ~\E e \in LocalEdits : Edit(e)
        BY <3>t DEF InitScrapEngine, Edit, Goroutines
      <3>5. ~\E e \in RemoteEdits : OtherDevice(e)
        BY <3>t DEF OtherDevice
      <3>6. ~(Add(g) \/ Status(g) \/ Commit(g) \/ Pull(g) \/ Abort(g) \/ Rescue(g))
        BY DEF Add, Status, Commit, Pull, Abort, Rescue, Merge, List, Show, Ours, Copy,
               Stage, Seal, Drop
      <3>7. PICK h \in Goroutines : Restart \/ Add(h) \/ Status(h) \/ Commit(h) \/ NetStep(h)
        BY <3>2, <3>3, <3>4, <3>5, <3>t DEF Next, SyncStep, Goroutines
      <3> QED
        BY <3>1, <3>6, <3>7, WorkingMoves DEF NetStep
    <2>3. CASE Push(g)
      <3>1. PushAccepted /\ remote' = head
        BY <2>3 DEF Push, PushRejected, Fails, Finish, Report, PushAccepted
      <3>2. ASSUME NEW e \in staged \ touched PROVE e \in head.text
        <4>1. CASE e \in made
          BY <2>1, <3>2, <4>1 DEF Unpushed
        <4>2. CASE e \notin made
          <5>1. e \in remote.seen
            BY <3>2, <4>2 DEF Known
          <5>2. e \in head.seen
            BY <3>1, <5>1 DEF PushAccepted
          <5> QED
            BY <3>2, <5>2 DEF Whole
        <4> QED
          BY <4>1, <4>2
      <3> QED
        BY <3>1, <3>2
    <2>4. CASE Restart
      BY <2>4 DEF Restart
    <2> QED
      BY <2>2, <2>3, <2>4
  <1> QED
    BY <1>1, InvHolds, CommittedHolds, PTL DEF Spec, SyncedIsPushed
=============================================================================
