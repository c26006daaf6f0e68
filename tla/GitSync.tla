------------------------------ MODULE GitSync ------------------------------
(***************************************************************************)
(* Background git synchronisation of the scrap folder:                     *)
(* pkg/gitsync/gitsync.go (Engine) and its callers in app_scrap.go.        *)
(*                                                                         *)
(* The engine is a mutex-protected record {cfg, timer, isBusy} and the     *)
(* goroutines it starts: one per fired debounce timer or TriggerNow        *)
(* (executeSync) and one per InitScrapEngine (PullRebaseAsync).  Every git *)
(* command of a goroutine is one step, those of the merge rescue too, so   *)
(* that user edits, the other device, timer fires, settings saves, crashes *)
(* and the other goroutines come between any two commands.                 *)
(*                                                                         *)
(* Git itself is external and modelled by what its commands do to the set  *)
(* of edits a version holds: `seen' is its ancestry, `text' what a reader  *)
(* finds in its files.  An edit belongs to one note; two versions conflict *)
(* when both hold an unshared edit of the same note.  A "(sync conflict    *)
(* ...)" copy counts with its note once it is in the index; before that it *)
(* is a file of its own that no reset touches (loose).                     *)
(***************************************************************************)
EXTENDS Naturals, FiniteSets

CONSTANTS
    Syncers,      \* goroutines available to run executeSync
    Pullers,      \* goroutines available to run PullRebaseAsync
    LocalEdits,   \* edits the user of this device may make
    RemoteEdits,  \* edits the other device may push
    Notes,        \* note files
    NoteOf,       \* the note an edit changes
    Unlisted,     \* notes whose names resolveConflictsKeepBoth cannot read back:
                  \* `git diff --name-only' quotes non-ASCII names, and
                  \* strings.Fields cuts a name at its blanks
    MaxFaults,    \* bound: failing or killed git commands
    MaxConfigs    \* bound: settings saves, restarts and syncs asked for by hand

Edits == LocalEdits \cup RemoteEdits

ASSUME GitSyncAssumption ==
    /\ Syncers \cap Pullers = {}
    /\ LocalEdits \cap RemoteEdits = {}
    /\ NoteOf \in [Edits -> Notes]
    /\ Unlisted \subseteq Notes
    /\ MaxFaults \in Nat
    /\ MaxConfigs \in Nat

VARIABLES
    enabled,   \* e.cfg.Enabled
    timer,     \* the debounce timer is armed
    busy,      \* e.isBusy
    pc,        \* the next step of every goroutine
    todo,      \* its conflicted paths not yet resolved (paths)
    copy,      \* the other side's text of the path at hand (theirs)
    work,      \* edits in the notes of the scrap folder
    loose,     \* edits in conflict copies that are not in the index yet
    staged,    \* edits in the index; of an unmerged note, its stage 2
    unmerged,  \* notes the index holds unmerged
    theirs,    \* MERGE_HEAD; or, with nothing in its ancestry, the commit a
               \* rebase stopped at; Empty: no commit is pending
    head,      \* version of the local branch
    origin,    \* version of the remote-tracking branch
    tracking,  \* the remote-tracking branch exists
    remote,    \* version of the branch on the server
    rebasing,  \* a stopped rebase is in progress (HEAD is detached)
    detached,  \* the version HEAD is at while rebasing
    linked,    \* a remote is configured
    status,    \* the last status the page was told
    made,      \* history: local edits made so far
    touched,   \* history: edits that a save or a `git add' put in the way of an
               \* open rebase or merge
    faults, configs

engineVars == <<enabled, timer, busy>>
loopVars   == <<todo, copy>>
treeVars   == <<work, loose, staged, unmerged, theirs>>
refVars    == <<head, origin, tracking, remote, rebasing, detached, linked>>
histVars   == <<made, touched>>
repoVars   == <<treeVars, refVars>>
vars == <<engineVars, pc, loopVars, repoVars, status, histVars, faults, configs>>

Goroutines == Syncers \cup Pullers
Labels == {"idle", "enter", "start", "add", "status", "commit", "pull", "abort",
           "merge", "list", "show", "ours", "copy", "stage", "seal", "drop", "push"}
Statuses == {"none", "disabled", "syncing", "synced", "clean", "resolved",
             "error"}
Version == [seen : SUBSET Edits, text : SUBSET Edits]

(***************************************************************************)
(* Git, external to src/.                                                  *)
(***************************************************************************)
Empty == [seen |-> {}, text |-> {}]
NotesOf(S) == {NoteOf[e] : e \in S}
On(S, n) == {e \in S : NoteOf[e] = n}
Extend(v, S) == [seen |-> v.seen \cup S, text |-> v.text \cup S]
Current == IF rebasing THEN detached ELSE head
Merging == theirs.seen # {}
Tracked == NotesOf(staged \cup Current.text)
\* `git pull' refuses to run on an unfinished merge, `--rebase' on modified tracked
\* notes or a dirty index.
Dirty == \/ staged # Current.text
         \/ unmerged # {} \/ Merging
         \/ \E e \in work \ staged : NoteOf[e] \in Tracked
\* Notes that merging v has to write, and those that both sides edited.
Incoming(v) == NotesOf(v.seen \ Current.seen)
Conflicts(v) == Incoming(v) \cap NotesOf(Current.seen \ v.seen)
UpToDate(v) == v.seen \subseteq Current.seen
\* git refuses to overwrite a note that has uncommitted edits.
Blocked(N) == N \cap NotesOf(work \ staged) # {}
\* What a clean merge of two versions may hold.  An edit that one side dropped
\* (see Add) stays out or comes back, as the version they split at decides.
Unsure(v, w) == {e \in v.seen \cap w.seen : ~(e \in v.text <=> e \in w.text)}
Joins(v, w) ==
    {[seen |-> v.seen \cup w.seen,
      text |-> ((v.text \cup w.text) \ Unsure(v, w)) \cup S] :
        S \in SUBSET Unsure(v, w)}

Init ==
    /\ enabled = FALSE /\ timer = FALSE /\ busy = FALSE
    /\ pc = [g \in Goroutines |-> "idle"]
    /\ todo = [g \in Goroutines |-> {}] /\ copy = [g \in Goroutines |-> {}]
    /\ work = {} /\ loose = {} /\ staged = {} /\ unmerged = {} /\ theirs = Empty
    /\ head = Empty /\ origin = Empty /\ remote = Empty /\ detached = Empty
    /\ rebasing = FALSE
    /\ linked \in BOOLEAN /\ tracking \in BOOLEAN
    /\ tracking => linked
    /\ status = "none" /\ made = {} /\ touched = {}
    /\ faults = 0 /\ configs = 0

(***************************************************************************)
(* The user, the other device and the settings.                            *)
(***************************************************************************)

\* The notes that a stopped rebase or a rescue under way will write.
Contested == unmerged \cup (UNION {todo[g] : g \in Goroutines})
             \cup (IF rebasing THEN Tracked \cup NotesOf(head.text) ELSE {})

\* A note is written and TriggerGitSync restarts the debounce timer.
Edit(e) ==
    /\ e \notin made
    /\ made' = made \cup {e}
    /\ work' = work \cup {e}
    /\ touched' = IF NoteOf[e] \in Contested THEN touched \cup {e} ELSE touched
    /\ timer' = (timer \/ enabled)
    /\ UNCHANGED <<enabled, busy, pc, loopVars, loose, staged, unmerged, theirs,
                   refVars, status, faults, configs>>

\* Another device that is up to date pushes an edit of its own.
OtherDevice(e) ==
    /\ linked
    /\ e \notin remote.seen
    /\ remote' = Extend(remote, {e})
    /\ UNCHANGED <<engineVars, pc, loopVars, treeVars, head, origin, tracking,
                   rebasing, detached, linked, status, histVars, faults, configs>>

\* InitScrapEngine, on start and on every settings save: UpdateConfig, then a
\* background pull when sync is on.  The timer of the old settings stays armed.
InitScrapEngine ==
    /\ configs < MaxConfigs
    /\ configs' = configs + 1
    /\ \/ /\ enabled' = TRUE
          /\ \E g \in Pullers : /\ pc[g] = "idle"
                                /\ pc' = [pc EXCEPT ![g] = "start"]
          /\ UNCHANGED status
       \/ /\ enabled' = FALSE
          /\ status' = "disabled"
          /\ UNCHANGED pc
    /\ UNCHANGED <<timer, busy, loopVars, repoVars, histVars, faults>>

\* The program is closed at any point and started again: its goroutines and its
\* timer are gone, the repository stays as the last finished command left it.
Restart ==
    /\ configs < MaxConfigs
    /\ configs' = configs + 1
    /\ timer' = FALSE /\ busy' = FALSE
    /\ todo' = [g \in Goroutines |-> {}] /\ copy' = [g \in Goroutines |-> {}]
    /\ \/ /\ enabled
          /\ \E p \in Pullers :
                pc' = [g \in Goroutines |-> IF g = p THEN "start" ELSE "idle"]
          /\ status' = "none"
       \/ /\ ~enabled
          /\ pc' = [g \in Goroutines |-> "idle"]
          /\ status' = "disabled"
    /\ UNCHANGED <<enabled, repoVars, histVars, faults>>

\* The timer of Trigger fires: its callback runs in a goroutine of its own.
TimerFire(g) ==
    /\ timer /\ pc[g] = "idle"
    /\ timer' = FALSE
    /\ pc' = [pc EXCEPT ![g] = "enter"]
    /\ UNCHANGED <<enabled, busy, loopVars, repoVars, status, histVars, faults,
                   configs>>

\* TriggerNow starts executeSync at once (the git_sync RPC method).
TriggerNow(g) ==
    /\ enabled /\ pc[g] = "idle" /\ configs < MaxConfigs
    /\ configs' = configs + 1
    /\ pc' = [pc EXCEPT ![g] = "enter"]
    /\ UNCHANGED <<engineVars, loopVars, repoVars, status, histVars, faults>>

(***************************************************************************)
(* The end of a goroutine: the deferred release of isBusy and the status.  *)
(***************************************************************************)
NeverReleased(g) == busy' = busy     \* mutant: no deferred release
Release(g) == busy' = (busy /\ g \notin Syncers)

Unnamed(s) == status' = "done"       \* mutant: a status the page does not know
Report(s) == status' = s

Finish(g, s) ==
    /\ pc' = [pc EXCEPT ![g] = "idle"]
    /\ Release(g)
    /\ Report(s)

Goto(g, label) ==
    /\ pc' = [pc EXCEPT ![g] = label]
    /\ UNCHANGED <<busy, status>>

\* A git command fails or is killed by its timeout.
Fault == faults < MaxFaults /\ faults' = faults + 1
Fails(g) == Fault /\ Finish(g, "error")

(***************************************************************************)
(* executeSync                                                             *)
(***************************************************************************)

\* A trigger that finds the engine busy or switched off is dropped.
AdmitsAll == enabled                 \* mutant: the busy check is missing
Admits == ~busy /\ enabled

Enter(g) ==
    /\ pc[g] = "enter"
    /\ IF Admits
       THEN /\ busy' = TRUE
            /\ pc' = [pc EXCEPT ![g] = "add"]
            /\ status' = "syncing"
       ELSE /\ pc' = [pc EXCEPT ![g] = "idle"]
            /\ UNCHANGED <<busy, status>>
    /\ UNCHANGED <<enabled, timer, loopVars, repoVars, histVars, faults, configs>>

\* git add . takes the files as they are, of an unmerged note too.  While a merge
\* or a rebase is open an abort resets what it takes, and what the files lack of
\* the other side's text is left out of the merge.
Add(g) ==
    /\ pc[g] = "add"
    /\ \/ /\ staged' = work \cup loose
          /\ work' = work \cup loose
          /\ loose' = {} /\ unmerged' = {}
          /\ touched' = IF rebasing \/ Merging
                        THEN touched \cup ((staged' \cap LocalEdits) \ head.text)
                                     \cup (theirs.seen \ staged')
                        ELSE touched
          /\ Goto(g, "status")
          /\ UNCHANGED faults
       \/ Fails(g) /\ UNCHANGED <<work, loose, staged, unmerged, touched>>
    /\ UNCHANGED <<enabled, timer, loopVars, theirs, refVars, made, configs>>

\* A clean tree, and any failure of the status command, ends the sync here.
Clean == /\ work = Current.text /\ staged = Current.text
         /\ loose = {} /\ unmerged = {}

Status(g) ==
    /\ pc[g] = "status"
    /\ \/ ~Clean /\ Goto(g, "commit") /\ UNCHANGED faults
       \/ Clean /\ Finish(g, "clean") /\ UNCHANGED faults
       \/ Fault /\ Finish(g, "clean")
    /\ UNCHANGED <<enabled, timer, loopVars, repoVars, histVars, configs>>

\* A commit takes what the index holds and concludes a merge; during a rebase it
\* lands on the detached HEAD, not on the branch.  With nothing to commit, or with
\* unmerged notes, git refuses.
Committable == unmerged = {} /\ (Merging \/ staged # Current.text)
CommitIndex ==
    LET new == [seen |-> Current.seen \cup theirs.seen \cup (staged \cap LocalEdits),
                text |-> staged]
    IN /\ head' = IF rebasing THEN head ELSE new
       /\ detached' = IF rebasing THEN new ELSE detached
       /\ theirs' = Empty

Commit(g) ==
    /\ pc[g] = "commit"
    /\ \/ Committable /\ CommitIndex /\ Goto(g, "pull") /\ UNCHANGED faults
       \/ /\ ~Committable /\ Finish(g, "error")
          /\ UNCHANGED <<head, detached, theirs, faults>>
       \/ Fails(g) /\ UNCHANGED <<head, detached, theirs>>
    /\ UNCHANGED <<enabled, timer, loopVars, work, loose, staged, unmerged, origin,
                   tracking, remote, rebasing, linked, histVars, configs>>

(***************************************************************************)
(* PullRebaseAsync, up to its pull                                         *)
(***************************************************************************)
Start(g) ==
    /\ pc[g] = "start"
    /\ IF enabled
       THEN /\ pc' = [pc EXCEPT ![g] = "pull"]
            /\ status' = "syncing"
       ELSE /\ pc' = [pc EXCEPT ![g] = "idle"]
            /\ UNCHANGED status
    /\ UNCHANGED <<enabled, timer, busy, loopVars, repoVars, histVars, faults,
                   configs>>

(***************************************************************************)
(* git pull --rebase origin <branch>, and what the code makes of its       *)
(* result.  executeSync goes on to its push where PullRebaseAsync is done. *)
(***************************************************************************)
AfterPull(g, s) == IF g \in Syncers THEN Goto(g, "push") ELSE Finish(g, s)

\* The branch is fetched, if the server has it.
Fetch == origin' = remote /\ tracking' = (tracking \/ remote # Empty)

\* The notes a rebase onto v writes first, those it may stop at (a merge commit is
\* replayed without its resolution), and whether it gets that far.
Moved(v) == NotesOf(v.text \ head.text)
MayStop(v) == NotesOf(head.seen \ v.seen) \cap NotesOf(v.seen)
CanRebase(v) == linked /\ ~Dirty /\ ~rebasing /\ ~UpToDate(v)

Contending == {e \in head.text \ remote.text : NoteOf[e] \in MayStop(remote)}
Replayed == {e \in head.text \ remote.text : NoteOf[e] \notin MayStop(remote)}

\* The rebase stops: HEAD moves to the fetched version with the commits replayed so
\* far, the branch keeps its old version.  At a conflict (at # {}) the rest of the
\* commit is in the index, the contested notes are unmerged.
StopRebase(at) ==
    \E done \in SUBSET Replayed : \E rest \in SUBSET Replayed :
        /\ rebasing' = TRUE
        /\ detached' = Extend(remote, done)
        /\ staged' = remote.text \cup done \cup rest
        /\ work' = (work \ head.text) \cup staged' \cup at
        /\ unmerged' = NotesOf(at)
        /\ theirs' = [seen |-> {}, text |-> at]

\* Not linked: nothing to reconcile.
PullNoRemote(g) ==
    /\ ~linked /\ ~Dirty
    /\ AfterPull(g, "error")
    /\ UNCHANGED <<repoVars, faults>>

\* git refuses before it fetches anything: uncommitted edits or an unfinished merge;
\* or after it: a rebase that an earlier pull left behind.
PullRefused(g) ==
    /\ \/ Dirty /\ UNCHANGED <<origin, tracking>>
       \/ linked /\ ~Dirty /\ rebasing /\ Fetch
    /\ Goto(g, "abort")
    /\ UNCHANGED <<treeVars, head, remote, rebasing, detached, linked, faults>>

\* The branch does not exist on the server yet, or holds nothing new.
PullUpToDate(g) ==
    /\ linked /\ ~Dirty /\ ~rebasing /\ UpToDate(remote)
    /\ Fetch
    /\ AfterPull(g, "synced")
    /\ UNCHANGED <<treeVars, head, remote, rebasing, detached, linked, faults>>

\* The local commits are replayed on the fetched ones.
PullRebased(g) ==
    /\ CanRebase(remote) /\ ~Blocked(Moved(remote)) /\ Conflicts(remote) = {}
    /\ Fetch
    /\ head' \in Joins(head, remote)
    /\ work' = (work \ head.text) \cup head'.text
    /\ staged' = head'.text
    /\ AfterPull(g, "synced")
    /\ UNCHANGED <<loose, unmerged, theirs, remote, rebasing, detached, linked, faults>>

\* The rebase cannot begin (an untracked note is in the way), or it stops on a note
\* that both devices edited.
PullStopped(g) ==
    /\ CanRebase(remote)
    /\ Fetch
    /\ \/ /\ Blocked(Moved(remote))
          /\ UNCHANGED <<work, staged, unmerged, theirs, rebasing, detached>>
       \/ /\ ~Blocked(Moved(remote))
          /\ \E at \in (SUBSET Contending) \ {{}} : StopRebase(at)
    /\ Goto(g, "abort")
    /\ UNCHANGED <<loose, head, remote, linked, faults>>

\* The server cannot be reached: the message is none the code knows.
PullOffline(g) ==
    /\ linked /\ Fault
    /\ Goto(g, "abort")
    /\ UNCHANGED repoVars

\* The timeout kills the process tree: the code returns at once, without an abort,
\* whatever the fetch or the rebase had done.
PullKilled(g) ==
    /\ linked
    /\ Fails(g)
    /\ \/ UNCHANGED <<origin, tracking, work, staged, unmerged, theirs, rebasing, detached>>
       \/ /\ ~Dirty /\ Fetch
          /\ UNCHANGED <<work, staged, unmerged, theirs, rebasing, detached>>
       \/ /\ CanRebase(remote) /\ ~Blocked(Moved(remote))
          /\ Fetch
          /\ \E at \in SUBSET Contending : StopRebase(at)
    /\ UNCHANGED <<loose, head, remote, linked>>

Pull(g) ==
    /\ pc[g] = "pull"
    /\ \/ PullNoRemote(g) \/ PullRefused(g) \/ PullUpToDate(g)
       \/ PullRebased(g) \/ PullStopped(g) \/ PullOffline(g) \/ PullKilled(g)
    /\ UNCHANGED <<enabled, timer, loopVars, histVars, configs>>

\* git rebase --abort puts the branch back and resets the tracked notes to it; its
\* failure is not looked at.
Abort(g) ==
    /\ pc[g] = "abort"
    /\ \/ /\ rebasing
          /\ rebasing' = FALSE
          /\ work' = head.text \cup
               {e \in work : NoteOf[e] \notin Tracked \cup NotesOf(head.text)}
          /\ staged' = head.text
          /\ unmerged' = {} /\ theirs' = Empty
          /\ UNCHANGED faults
       \/ ~rebasing /\ UNCHANGED <<rebasing, work, staged, unmerged, theirs, faults>>
       \/ Fault /\ UNCHANGED <<rebasing, work, staged, unmerged, theirs>>
    /\ Goto(g, "merge")
    /\ UNCHANGED <<enabled, timer, loopVars, loose, head, origin, tracking, remote,
                   detached, linked, histVars, configs>>

(***************************************************************************)
(* attemptMergeRescue                                                      *)
(***************************************************************************)

\* git merge --no-ff origin/<branch> gets to work, with an index that matches HEAD
\* and no uncommitted edit where it has to write.
CanMerge == /\ tracking /\ unmerged = {} /\ ~Merging /\ ~UpToDate(origin)
            /\ staged = Current.text /\ ~Blocked(Incoming(origin))

\* It says that there is nothing to merge, and succeeds.
NothingToMerge == tracking /\ unmerged = {} /\ ~Merging /\ UpToDate(origin)

\* What it may come to; it refuses when an uncommitted edit is in the way of a text
\* that comes back.
Overwrites(v) == Blocked(NotesOf(v.text \ Current.text))
Merged == {v \in Joins(Current, origin) : ~Overwrites(v)}
Refuses == \E v \in Joins(Current, origin) : Overwrites(v)

\* It merges and commits at once; on the detached HEAD while a rebase is stopped.
MergeClean ==
    /\ CanMerge /\ Conflicts(origin) = {}
    /\ \E v \in Merged :
          /\ head' = IF rebasing THEN head ELSE v
          /\ detached' = IF rebasing THEN v ELSE detached
          /\ staged' = v.text
          /\ work' = (work \ Current.text) \cup v.text
    /\ UNCHANGED <<unmerged, theirs>>

\* It stops: a note that both sides edited shows both texts and is unmerged, what
\* merges cleanly is in the index.
MergeStops ==
    /\ CanMerge /\ Conflicts(origin) # {}
    /\ unmerged' = Conflicts(origin)
    /\ theirs' = origin
    /\ \E v \in Merged :
          /\ staged' = {e \in v.text : NoteOf[e] \notin Conflicts(origin)}
                       \cup {e \in Current.text : NoteOf[e] \in Conflicts(origin)}
          /\ work' = (work \ Current.text) \cup staged'
                     \cup {e \in origin.text : NoteOf[e] \in Conflicts(origin)}
    /\ UNCHANGED <<head, detached>>

MergeNone == UNCHANGED <<work, staged, unmerged, theirs, head, detached>>

\* A merge that fails or is killed, before or after its effect, goes on to the
\* conflicted notes, whosever they are.
Merge(g) ==
    /\ pc[g] = "merge"
    /\ \/ MergeClean /\ Goto(g, "push") /\ UNCHANGED faults
       \/ NothingToMerge /\ MergeNone /\ Goto(g, "push") /\ UNCHANGED faults
       \/ MergeStops /\ Goto(g, "list") /\ UNCHANGED faults
       \/ (~CanMerge \/ Refuses) /\ ~NothingToMerge
          /\ MergeNone /\ Goto(g, "list") /\ UNCHANGED faults
       \/ Fault /\ (MergeNone \/ MergeClean \/ MergeStops) /\ Goto(g, "list")
    /\ UNCHANGED <<enabled, timer, loopVars, loose, origin, tracking, remote, rebasing,
                   linked, histVars, configs>>

(***************************************************************************)
(* resolveConflictsKeepBoth: per conflicted path, one command after the    *)
(* other.  A path's note is restored to our text, theirs is written to a   *)
(* "(sync conflict ...)" copy next to it, and both are added.              *)
(***************************************************************************)

\* The path at hand: git lists them in the order of their names.
Path(g) == CHOOSE p \in todo[g] : TRUE

\* On to the merge --abort, with the loop's variables gone.
GiveUp(g) ==
    /\ Goto(g, "drop")
    /\ todo' = [todo EXCEPT ![g] = {}] /\ copy' = [copy EXCEPT ![g] = {}]

\* git diff --name-only --diff-filter=U
List(g) ==
    /\ pc[g] = "list"
    /\ \/ /\ unmerged # {}
          /\ todo' = [todo EXCEPT ![g] = unmerged]
          /\ Goto(g, "show")
          /\ UNCHANGED <<copy, faults>>
       \/ unmerged = {} /\ GiveUp(g) /\ UNCHANGED faults
       \/ Fault /\ GiveUp(g)
    /\ UNCHANGED <<enabled, timer, repoVars, histVars, configs>>

\* git show :3:<path>, which only an unmerged path has
Show(g) ==
    /\ pc[g] = "show"
    /\ \/ /\ Path(g) \in unmerged \ Unlisted
          /\ copy' = [copy EXCEPT ![g] = On(theirs.text, Path(g))]
          /\ Goto(g, "ours")
          /\ UNCHANGED <<todo, faults>>
       \/ Path(g) \notin unmerged \ Unlisted /\ GiveUp(g) /\ UNCHANGED faults
       \/ Fault /\ GiveUp(g)
    /\ UNCHANGED <<enabled, timer, repoVars, histVars, configs>>

\* git checkout --ours -- <path>: stage 2 of an unmerged path, else the index
KeepTheirs(p) == On(theirs.text, p)  \* mutant: checkout --theirs
KeepOurs(p) == On(staged, p)

Ours(g) ==
    /\ pc[g] = "ours"
    /\ \/ /\ work' = (work \ On(work, Path(g))) \cup KeepOurs(Path(g))
          /\ Goto(g, "copy")
          /\ UNCHANGED <<loopVars, faults>>
       \/ Fault /\ GiveUp(g) /\ UNCHANGED work
    /\ UNCHANGED <<enabled, timer, loose, staged, unmerged, theirs, refVars, histVars,
                   configs>>

\* os.WriteFile of the copy
Copy(g) ==
    /\ pc[g] = "copy"
    /\ \/ /\ loose' = loose \cup copy[g]
          /\ Goto(g, "stage")
          /\ UNCHANGED <<loopVars, faults>>
       \/ Fault /\ GiveUp(g) /\ UNCHANGED loose
    /\ UNCHANGED <<enabled, timer, work, staged, unmerged, theirs, refVars, histVars,
                   configs>>

\* git add -- <path> <copy>: the path and its copy, nothing else of the folder.  It
\* fails when another abort has taken the copy away.  When another merge is open by
\* now, what its other side added since the show is left out of it.
AddPath(g) == On(work, Path(g))      \* mutant: the copy is not added
AddBoth(g) == On(work, Path(g)) \cup copy[g]

Stage(g) ==
    /\ pc[g] = "stage"
    /\ \/ /\ copy[g] \subseteq work \cup loose
          /\ staged' = (staged \ On(staged, Path(g))) \cup AddBoth(g)
          /\ work' = work \cup copy[g]
          /\ loose' = loose \ copy[g]
          /\ unmerged' = unmerged \ {Path(g)}
          /\ touched' = touched \cup (On(theirs.seen, Path(g)) \ copy[g])
          /\ todo' = [todo EXCEPT ![g] = @ \ {Path(g)}]
          /\ copy' = [copy EXCEPT ![g] = {}]
          /\ Goto(g, IF todo'[g] = {} THEN "seal" ELSE "show")
          /\ UNCHANGED faults
       \/ /\ ~(copy[g] \subseteq work \cup loose) /\ GiveUp(g)
          /\ UNCHANGED <<work, loose, staged, unmerged, touched, faults>>
       \/ Fault /\ GiveUp(g) /\ UNCHANGED <<work, loose, staged, unmerged, touched>>
    /\ UNCHANGED <<enabled, timer, theirs, refVars, made, configs>>

\* git commit --no-edit needs the message of the merge, or of the commit a rebase
\* stopped at.
Seal(g) ==
    /\ pc[g] = "seal"
    /\ \/ /\ Committable /\ theirs # Empty
          /\ CommitIndex /\ Goto(g, "push") /\ UNCHANGED faults
       \/ /\ ~Committable \/ theirs = Empty
          /\ Goto(g, "drop") /\ UNCHANGED <<head, detached, theirs, faults>>
       \/ Fault /\ Goto(g, "drop") /\ UNCHANGED <<head, detached, theirs>>
    /\ UNCHANGED <<enabled, timer, loopVars, work, loose, staged, unmerged, origin,
                   tracking, remote, rebasing, linked, histVars, configs>>

\* git merge --abort resets the notes that the merge or an add put into the index
\* and leaves the others; it refuses when one of them was edited since.
Changed == {n \in Notes : On(staged, n) # On(Current.text, n)} \cup unmerged
AbortRefused == \E n \in Changed \ unmerged : On(work, n) # On(staged, n)

Drop(g) ==
    /\ pc[g] = "drop"
    /\ \/ /\ Merging /\ ~AbortRefused
          /\ work' = {e \in work : NoteOf[e] \notin Changed}
                     \cup {e \in Current.text : NoteOf[e] \in Changed}
          /\ staged' = Current.text
          /\ unmerged' = {} /\ theirs' = Empty
          /\ UNCHANGED faults
       \/ /\ ~Merging \/ AbortRefused
          /\ UNCHANGED <<work, staged, unmerged, theirs, faults>>
       \/ Fault /\ UNCHANGED <<work, staged, unmerged, theirs>>
    /\ Finish(g, "error")
    /\ UNCHANGED <<enabled, timer, loopVars, loose, refVars, histVars, configs>>

Rescue(g) == \/ Merge(g) \/ List(g) \/ Show(g) \/ Ours(g) \/ Copy(g) \/ Stage(g)
             \/ Seal(g) \/ Drop(g)

(***************************************************************************)
(* git push origin <branch>: the branch, wherever HEAD is.                 *)
(***************************************************************************)
Pushed(g) == IF g \in Syncers THEN "synced" ELSE "resolved"

PushForced ==                        \* mutant: push --force
    /\ linked
    /\ remote' = head
PushAccepted ==
    /\ linked /\ remote.seen \subseteq head.seen
    /\ remote' = head

RejectIgnored(g) ==                  \* mutant: the exit code is not looked at
    /\ ~linked \/ ~(remote.seen \subseteq head.seen)
    /\ Finish(g, Pushed(g))
PushRejected(g) ==
    /\ ~linked \/ ~(remote.seen \subseteq head.seen)
    /\ Finish(g, "error")

Push(g) ==
    /\ pc[g] = "push"
    /\ \/ /\ PushAccepted
          /\ origin' = head /\ tracking' = TRUE
          /\ Finish(g, Pushed(g))
          /\ UNCHANGED faults
       \/ /\ PushRejected(g)
          /\ UNCHANGED <<origin, tracking, remote, faults>>
       \/ /\ Fails(g)
          /\ UNCHANGED <<origin, tracking>>
          \* killed before or after the server took the commits
          /\ PushAccepted \/ UNCHANGED remote
    /\ UNCHANGED <<enabled, timer, loopVars, treeVars, head, rebasing, detached, linked,
                   histVars, configs>>

SyncStep(g) == Enter(g) \/ Add(g) \/ Status(g) \/ Commit(g)
NetStep(g) == Pull(g) \/ Abort(g) \/ Rescue(g) \/ Push(g)

Next ==
    \/ \E e \in LocalEdits : Edit(e)
    \/ \E e \in RemoteEdits : OtherDevice(e)
    \/ InitScrapEngine
    \/ Restart
    \/ \E g \in Syncers : TimerFire(g) \/ TriggerNow(g) \/ SyncStep(g)
    \/ \E g \in Pullers : Start(g)
    \/ \E g \in Goroutines : NetStep(g)

Spec == Init /\ [][Next]_vars

\* Timers fire and every git command ends: those of executeSync and those that use
\* the network have a timeout; that the local ones of the abort and the rescue end,
\* which have none, is assumed.
Fairness ==
    /\ WF_vars(\E g \in Syncers : TimerFire(g))
    /\ \A g \in Syncers : WF_vars(SyncStep(g))
    /\ \A g \in Pullers : WF_vars(Start(g))
    /\ \A g \in Goroutines : WF_vars(NetStep(g))

FairSpec == Spec /\ Fairness

(***************************************************************************)
(* Properties                                                              *)
(***************************************************************************)

\* Every variable has its type.
TypeOK ==
    /\ enabled \in BOOLEAN /\ timer \in BOOLEAN /\ busy \in BOOLEAN
    /\ pc \in [Goroutines -> Labels]
    /\ todo \in [Goroutines -> SUBSET Notes] /\ copy \in [Goroutines -> SUBSET Edits]
    /\ work \in SUBSET Edits /\ loose \in SUBSET Edits /\ staged \in SUBSET Edits
    /\ unmerged \in SUBSET Notes
    /\ theirs \in Version /\ head \in Version /\ origin \in Version
    /\ remote \in Version /\ detached \in Version
    /\ tracking \in BOOLEAN /\ rebasing \in BOOLEAN /\ linked \in BOOLEAN
    /\ status \in Statuses
    /\ made \in SUBSET LocalEdits /\ touched \in SUBSET Edits
    /\ faults \in Nat /\ configs \in Nat

Syncing(g) == pc[g] \notin {"idle", "enter"}

\* isBusy does its work over every early return, error and timeout of executeSync:
\* at most one goroutine is past the check, and the flag is set exactly while one is.
OneSync ==
    /\ \A g, h \in Syncers : Syncing(g) /\ Syncing(h) => g = h
    /\ busy <=> \E g \in Syncers : Syncing(g)

\* No edit the user made is lost by whatever pulls, rebases, rescues, crashes and
\* failures happen around it: it is in the notes of the scrap folder or in the
\* branch.  Out of reach of the code are the edits that were saved into a note a
\* stopped rebase or a rescue was about to write, and those a concurrent sync's
\* `git add' took while a rebase or a merge was open.
NoEditLost == made \ touched \subseteq work \cup head.text

\* The comment at gitsync.go:509-512 ("the safest behavior is to keep both copies")
\* without that exception.
EditsKept == made \subseteq work \cup head.text

\* What another device pushed, or this one, stays readable on the server: neither a
\* rescue nor a push drops the other side's text, but where a `git add' took a note
\* between its checkout --ours and its copy, or before the rescue read it again.
ServerKeeps == [][remote.text \ touched \subseteq remote'.text]_vars

\* A sync that reports "synced" has brought every edit its commit took to the
\* server, but those taken while a rebase was open (the commit is not on the
\* branch); an error is reported otherwise.
SyncedIsPushed ==
    [][\A g \in Syncers :
         pc[g] = "push" /\ pc'[g] = "idle" /\ status' = "synced"
            => staged \ touched \subseteq remote'.text]_vars

\* The engine never wedges: isBusy is released however slow or broken git is
\* (gitsync.go:36-39).
BusyReleased == busy ~> ~busy

\* Git sync is a replicated set of edits (NoteReplica): this device's copy is its
\* own edits in the folder and everything in its branch, the shared one the branch
\* on the server.
Files == work \cup loose
Replica == INSTANCE NoteReplica
    WITH local <- (Files \cap LocalEdits) \cup head.text,
         shared <- remote.text, risked <- touched
RefinesReplica == Replica!Spec
=============================================================================
