# Formal models of md-memo

md-memo is a small Markdown notepad for the desktop. A Go core (`app*.go`,
`pkg/`) owns the files, the network and the background work; a page in a web view
(`frontend/js/`) owns the editor, the tabs and the dialogs. The page calls Go
through bound functions that run on the UI thread; Go answers through scripts
evaluated in the page, in the order they were dispatched. Everything that takes
time runs in goroutines that end in such a script.

This directory holds TLA+ models of the parts whose correctness depends on the
order of such steps: on goroutines, processes, the user, other devices and
failures interleaving. `PROJECT.json` lists the components, the runs, the map from
every definition to the source lines it models, the hazards and the theorems.

| module | models | run by | proved in |
|---|---|---|---|
| `GitSync` | git synchronisation of the scrap folder | `MCGitSync` | `GitSyncProofs` |
| `NoteReplica` | what git sync promises, without git | refined by `GitSync` | `GitSyncProofs` |
| `NoteFile` | tabs, files, saves and changes on disk | `MCNoteFile` | `NoteFileProofs` |
| `SlotRun` | the runs of slots, agents, models and commands in a note | `MCSlotRun` | `SlotRunProofs` |
| `VoiceInput` | dictations and meetings, from the marker to the text | `MCVoiceInput` | `VoiceInputProofs` |
| `SemIndex` | the files of the semantic index | `MCSemIndex` | `SemIndexProofs` |
| `SemIndexLock` | the index lock between processes | `MCSemIndexLock` | `SemIndexLockProofs` |
| `MobileDrop` | the one-shot server a phone sends to | `MCMobileDrop` | `MobileDropProofs` |
| `DiscordBridge` | the poller of Discord messages | `MCDiscordBridge` | `DiscordBridgeProofs` |

Check a configuration with `tlc -config gitsync_safety.cfg MCGitSync`, the proofs
with `tlapm GitSyncProofs.tla`.

## 1. Inventory

### The components with state, and how they meet

The scrap folder is where most components meet: one Markdown file per day,
appended to under `scrapMu` (`app_scrap.go`). Every append triggers git sync; the
semantic index reads the folder; the inbox, the Discord bridge and Mobile Drop add
to it. `SaveConfig` (`app_config.go`) writes the settings and restarts the engines
whose settings changed, on the UI thread.

| component | source | state | operations | what is hard | what makes it correct |
|---|---|---|---|---|---|
| Git sync | `pkg/gitsync/gitsync.go`, `app_scrap.go` | settings, debounce timer, `isBusy`; the repository on disk | Trigger, TriggerNow, executeSync, PullRebaseAsync, attemptMergeRescue, UpdateConfig, SetupRemote | two kinds of goroutines over one repository, only one of which takes `isBusy`; commands killed by a timeout; other devices push | no edit of the user is lost, nothing leaves the server, a success is reported only when pushed, `isBusy` is always released |
| Semantic index | `pkg/semindex/store.go`, `index.go`, `search.go` | `vectors.bin`, `chunks.jsonl`, `manifest.json`; the Store in memory | Update, Rebuild, Search, Compact, Status | cancel and crash between any two writes; files edited while they are indexed; searches without the lock | the committed index is consistent and fresh, and the next update repairs what an interruption left |
| Semantic index lock | `store.go` (`Lock`), `index.go` (`Rebuild`) | a lock file per folder | Lock, touch, unlock, stale takeover, two renames | processes of application and command line; a lock removed by its path | one updater at a time, and a dead owner keeps nobody out |
| Mobile Drop | `pkg/dropzone`, `app_mobiledrop.go`, dialog in `app.js` | server (timer, claim, stop), tunnel process, slot of the application, dialog | Start, Cancel, Tunnel; phone: open, ping, send, retry | timer against claim against cancel; sessions following each other; events without a session id | one ending per session, a batch answered OK arrives, no process is left over |
| Discord bridge | `pkg/discordbridge`, `app_discordbridge.go` | poller, state file with the last id | Start, Stop, poll, deliver, save | settings saved in the middle of a delivery, crashes, failed requests | nothing skipped, nothing twice without an interruption |
| Note files | `app.js`, `disk_sync.js`, `app_files.go`, `app_rpc_write.go`, `app_slot.go` | tabs with text, unsaved mark and the text the file is taken to hold; the file | type, autosave, save, save as, close, reload, watcher, `buffer.save`, `tab.close`, run | asynchronous parties and other programs writing one file; dialogs open meanwhile | no text the user typed or another program wrote is lost unseen; one tab per file |
| Slot runs | `slot_agent.js`, `task_manager.js`, `app.js`, `app_slot.go`, `pkg/slotagent/runner.go` | placeholders in the note, pending requests, task cards, merge queue, table of cancel functions | start, answer, cancel, time out, merge, undo, close | marks that all read the same; cancel before the run registered; late answers; typing meanwhile | an answer goes once and to its own place, a cancelled run stays out, no placeholder stays |
| Voice input and meetings | `voice_input.js`, `app_inputs.go`, `app_meeting.go` | markers in the note, requests, recordings in memory and in the voice cache | start, stop, abort, send, answer, time out, retry, keep, discard, sweep, restart | answers carry the dictation and not the request; failures on both sides | a text lands once, a recording is not lost behind a retry marker, nor a selection behind a spoken edit |
| RPC on the page | `app_rpc*.go` | generation, pending calls | read, write, save | 5 s timeouts after which the page still answers | an operation that reported an error did not change the text unseen |
| Inbox | `pkg/inbox`, `app_inbox.go` | watcher, debounce timers | create, debounce, recognise, append, move | timer races, replaced watchers, failing moves | every file is processed once |
| Deep search | `app_deepsearch.go` | plans with an age limit and a count limit | plan, run, cancel, expire | eviction of a plan under way | a running plan can be cancelled |
| Components | `pkg/components/manager.go` | busy set, part files | install, remove | resume, rename into place | an installed component is complete |
| Sound devices, speech, IPC, settings, Jev, LLM clients, CLI, windows | see `PROJECT.json` | little or none that others change | | sequential, or native input and output | |

`PROJECT.json` lists all 28 components with their status.

### Hazards

The hazards are listed in `PROJECT.json` at the lines where they bite, with the
properties that would notice. Some smaller ones are only described here, because no
promise in the repository speaks of them:

* `gitsync.go:381`: `rebase --abort` and, but for its merge, the commands of the rescue
  have no timeout and hold `isBusy` if they hang. `gitsync.go:371`: a git that is killed
  can leave an `index.lock` behind, on which every later command fails.
* `app_discordbridge.go:102`: `SaveConfig` waits on the UI thread for the batch in
  flight. `app_discordbridge.go:109`: OCR and voice settings are captured when the
  poller starts.
* `client.go:149`: in a channel that was empty at the start, only the newest 50 of
  the first messages are fetched.
* `server.go:195`: when `Serve` fails by itself the slot stays taken and the dialog
  shows a dead QR code until it is closed. `html.go:545`: when the answer to an
  accepted upload is lost, the retry gets 409 and the phone reports a failure.
  `app_mobiledrop.go:91`: on quit nothing stops a running `cloudflared`.
* `index.go:163`: errors of `WalkDir` are ignored, so a folder that cannot be read
  for a moment counts as deleted. `store.go:401`: a computer asleep for an hour in
  the middle of a batch makes the lock of a living process stale.
* `app_scrap.go:188`: results of a superseded search. `components/manager.go:267`: a
  crash between the removal of an installed component and the rename that replaces it.
* `gitsync.go:79`: `stepTimeouts` reads the settings without the mutex; a change of the
  settings at that moment can mix two sets. `gitsync.go:702`: `SetupRemote` stashes
  pending edits, and a failure before the stash is popped leaves them there.

## 2. The modules

Every module has the same shape: constants with a named assumption, variables,
`Init`, one action per step of an actor, `Next`, `Spec`, `FairSpec`, and the
properties. Definitions marked `mutant of X` stand beside `X`: each is `X` with a
plausible bug, and using it in the place of `X` makes one property fail, which shows
that the property is about the code. History variables (marked `history` where they
are declared) only record; no action reads them. Bounds are constants named `Max...`
and stand in the guards of the users' and the environment's actions.

### GitSync and NoteReplica

State: `enabled`, `timer` and `busy` are `e.cfg.Enabled`, `e.timer` and `e.isBusy`.
`pc` is the next command of each goroutine: `Syncers` run `executeSync` (one
goroutine per fired timer or `TriggerNow`), `Pullers` run `PullRebaseAsync` (one per
`InitScrapEngine`); `todo` and `copy` are the variables of their loop over the
conflicted paths. The rest is the repository: notes (`work`), conflict copies that are
not added yet (`loose`), index (`staged`, `unmerged`), a pending merge or stopped pick
(`theirs`), local branch, tracking branch (and whether it exists), branch on the server,
whether a rebase is stopped, and the detached HEAD it left.

Git is external: it is modelled by what its commands do to sets of edits, as observed with
git itself. A version is a pair of such sets: what it descends from (`seen`) and what its
files say (`text`). Two versions conflict when both have an unshared edit of the same note.
A pull is refused on modified tracked notes or an unfinished merge, fetches, fast-forwards,
rebases, or stops; a merge needs an index that matches HEAD and no uncommitted edit in its
way; `checkout --ours` takes stage 2 of an unmerged note and the index of another;
`commit --no-edit` needs the message of a merge or of a stopped pick; `merge --abort`
resets the notes that are changed in the index and refuses when one of them was edited
since; `rebase --abort` resets every tracked note; a push is accepted only if the server's
branch is an ancestor. A note whose name is `Unlisted` cannot be resolved: `git diff
--name-only` quotes non-ASCII names and `strings.Fields` cuts names at blanks
(gitsync.go:519).

Actions: the user writes a note (`Edit`, with the trigger in the same step, as
`scrapMu` does not protect against git); another device pushes; settings are saved
(`InitScrapEngine`); the program is closed and started again (`Restart`); the timer
fires; and one action per git command or file write of a goroutine: `Enter`, `Add`,
`Status`, `Commit`, `Start`, the outcomes of `Pull`, `Abort`; of the rescue `Merge`, then
`List`, and per path `Show`, `Ours`, `Copy`, `Stage`, then `Seal` (the commit) or `Drop`
(the `merge --abort`); and `Push`. Everybody else's steps come between any two of them, and
any of them may fail or be killed (`Fault`).

The code does lose edits in these windows (finding 1), so the promises name what is out of
reach. `touched` is a history variable: the edits that were saved into a note which an open
rebase or a rescue under way was about to write (`Contested`), those a `git add .` took while
a rebase or a merge was open, and those texts of the other side that such an add left out.
Everything else is kept:

* `gitsync_safety` (2.4 million states): two sync goroutines, one puller, two local
  edits and two edits of another device on two notes, one of them with an unlistable name,
  one failing command, two settings saves or restarts. `OneSync`: `isBusy` is
  exactly the presence of one `executeSync`. `NoEditLost`: each untouched edit is in the
  notes or in the branch. `ServerKeeps`: an untouched text stays on the server.
  `SyncedIsPushed`: a sync reports *synced* only when the untouched text it committed is on
  the server. `RefinesReplica`: with this device's own edits in its files and its branch as
  `local`, the server's branch as `shared` and `touched` as `risked`, every step is a step
  or a stutter of `NoteReplica`, which takes away only what was put at risk before.
* `gitsync_window` (620 000 states): one settings save and no unlistable names; rebases and
  merges stop or are killed half way while others go on. `BusyReleased`. Fairness: an armed
  timer fires, and every git command ends. Those of `executeSync` itself and those that reach
  the network have a timeout; that `rebase --abort` and the local commands of the rescue,
  which have none, end by themselves is assumed.
* `gitsync_abort_loss`: without the exception, an edit is lost (`EditsKept`, finding 1).

Two edits of each side on two notes suffice for a conflict, an edit of another note on top of
it, a second conflict and a file that is not tracked yet; two syncers for the competition for
`isBusy`; one puller for the unlocked competitor. Two configurations allow *enable, then
disable or restart while it runs*. Not modelled: an `index.lock` that a killed git leaves
behind, and a folder or branch that changes during a sync.

### SemIndex

State: `disk` holds the files of the index folder and of `.rebuild`: vectors, chunk
lines and the manifest. `store` is the `Store` of the running update; `run` its local
variables; `search` the three things a search reads; `stamp[f]` the size and time of
a note, which select its content. A vector is the text it was made of, so that *this
row has the right vector* can be stated.

Actions follow the writes and reads: `Edit`; `Begin` (open, list the folder, forget
deleted files), `ReadFile`, `FormGroup`, `EmbedBatch` (one request and
`AppendVectors`), `EmbedFails` (cancel or error, with the rollback), `FinalizeFile`,
`EndGroup` (with the periodic commit), `GroupFails` (chunk lines or that commit cannot be
written), `Finish`, the two writes of `Compact` and its
failure, `Save` (the manifest), `Swap` (the renames of `Rebuild`), `Crash`; and
`SearchOpen`, `SearchChunks`, `SearchVectors`, `SearchAnswer`. What happens in memory
belongs to the step beside it. The lock is not here: only one update runs
(`SemIndexLock` shows when that is so).

* `semindex_safety` (about 1.5 million states): two notes over three texts, both edited
  once, two faults, a commit after every second vector, compaction reachable,
  `AtomicCompact` (no crash inside `Compact`), chunk lines that can be written. `IndexSound`: outside a compaction the
  committed files open and each row has its vector. `FreshWhenSame`: a note recorded
  with its present stamp is indexed with its present content. `RowsOwned`: a live row
  belongs to exactly one note, a dead row to none. `OneVectorPerText`. `SearchSound`: a
  search that no compaction or rebuild overtook pairs each chunk with its own vector.
* `semindex_live` (about 830 000 states): two faults, also inside `Compact` and when chunk
  lines are written (`LinesFail`). `CatchesUp`:
  once edits and faults end, the index comes to hold exactly the present notes at their
  present stamps. Fairness: a running update goes on, the user asks for updates again
  (*Update now*, `scrap index`, or a search that updates first, semanticcmd.go:415), and
  an index reported as corrupt is rebuilt.
Two notes and three texts allow a shared text, a text that comes back, and a dead
row below a live one. `BatchSize = 1` puts a cancel between two requests of one group.

Not modelled: the check of the model and the chunking settings (`ErrRebuildNeeded`),
dimensions, `DryRun`, ignore rules, status. File and time of a note are one stamp: an
edit that keeps both the size and the modification time is outside the model, as it
is outside the code's detection.

### SemIndexLock

Two processes, each call on the file system one step: `MakeFolder`, `Create`
(exclusive), `StatLock`, `RemoveStale`, `Batch` (touch), `EndUpdate`, and for Rebuild
`ClearRebuild`, the inner lock, `RemoveOld`, `MoveAway` and `PutInPlace` (the renames,
either of which may fail), `RemoveOld` again, `Unlock`; a `RemoveAll` whose error the
code ignores may leave the folder. `Crash` of one process; `Expire`, by which the lock of a dead
process turns stale after an hour.

* `semlock` (about 1 260 000 states): `OneUpdater`: two processes update at once, from
  the lock they were granted to the rename that puts a new index in place, only after
  one of the three known ways around the lock; `raced` records them and nothing else.
  `CompleteBeforeSwap`: the old index is moved
  away only when the new one is complete. `StillUpdated`: updates happen again and again
  although an owner died. Fairness: processes run, the user asks for updates again, an
  hour passes.

The three ways around the lock, which the property excludes by name: two processes see
the same stale lock, and the slower removes the lock the faster has just made
(store.go:425-428); an unlock after the renames of `Rebuild` removes by its path a
lock which another process made in the new folder (store.go:420); and between the renames
(index.go:483-487) the lock of the `Rebuild` is in `.old`, so that another process can
make a new index folder, lock it, and update there or clear the complete `.rebuild`.

### MobileDrop

State: `srv[s]` is the server of session `s`: idle timer, requested stops (`want`,
several goroutines may ask, `stopOnce` admits one), how far the shutdown is, whether a
submission was claimed (`completed`), how far its batch is, how far a tunnel start is,
and whether a `cloudflared` process exists (`proc`) and is registered (`cmd`). `slot` is
`App.dropzoneServer`; `page` the dialog; `phone[s]` the phone's page and its uploads;
`calls` and `events` the two queues between page and Go. An event carries the session
it is from so that properties can speak of it. The code sends no such tag.

Actions: the dialog (`Page...`), the bound functions (`App...`), the server
(`PhoneOpen`, `Ping`, `Fire`, `ServeFails`, `StopBegin`, `StopKill`, `StopShutdown`,
`TimeoutRelease`, `TimeoutEvent`, `BatchRelease`, `BatchSend`), the phone
(`PhoneSend`, `ReadBody`, `Answer`, `Break`, `Probe`) and the tunnel (`TunnelSlot`,
`TunnelGuard`, `TunnelSpawn`, `TunnelRegister`, `TunnelWait`, `TunnelReady`,
`TunnelFails`). A step is a stretch of code between two uses of a mutex.

* `mobiledrop` (about 670 000 states): two sessions; the first phone sends up to twice;
  one request for a tunnel or one cut connection or lost listener (`MaxTrouble`).
  `OneEnding`: a session ends for the page at most once, by its batch or by its
  timeout. `ReachableByCancel`: a server that still takes a submission, and that nobody
  asked to stop, is the one in the slot, so that the user can cancel it.
  `NoOrphanTunnel`: once `stopWith` has passed `killTunnel`, a process that runs
  is one `StartTunnel` is about to find out about. `PromiseKept`: a batch that was
  answered OK is appended to a note, whatever the dialog does. `SessionEnds`: sessions
  always come to an end, their tunnels with them (the sessions are bounded, so one
  moment can be asked for all). Fairness: goroutines are scheduled, both queues are
  served, and an armed timer fires (`WF(Fire)`: the model has no clock, so this assumes
  that no phone goes on resetting the timer for ever, which in the code would keep a
  session open). Neither phone, user nor network owe anything.

Two sessions are enough for everything one session can do to the next. The tunnel
and a cut connection do not look at each other: they meet only in the end of the
session, which is why one of them at a time is enough.

Not modelled: the text shared from the computer to the phone, the checks of size and
type (one refusal stands for all), the countdown, the quit of the application.

### DiscordBridge

State: `poller[p]` for every poller ever started (where it is, its last id, the batch
it has fetched, whether its context is cancelled), `file` the id in the state file,
`current` the poller the application holds, `stopping` while `InitDiscordBridge`
waits for it with `discordMu` held. Messages are numbered in the order they are sent.

Actions: `Sent`; `Reconfigure` (a saved setting: stop, wait, start if on), `Replace`
(the wait is over), `Launch`, `Crash`; per poller `Cancelled`, `Connect`, `Baseline`
(the first run's starting point, which may fail), `Poll`, `Deliver` (one message:
appended, refused as foreign, or given up with an error status), `Save` (which may
fail, or leave an unreadable file).

* `discord` (about 150 000 states): four messages, the third of another account, answers
  of at most two, three pollers, two failures, one crash. `CursorBehindScrap`: the saved
  id never passes a message that is neither in the scrap nor reported.
  `OncePerInterruption`: a second copy needs a crash or a failed save each. `CatchesUp`:
  what is sent while the bridge is on is appended. Fairness: requests succeed in the
  end, `Stop` returns, the user opens the application again.
Two messages per answer stand for 50 and four messages for more than one answer; three
pollers for *start, replace, start again after a crash*.

Not modelled: the connection test, status events, attachments, the lengths of waits.

### NoteFile

A text is the set of the edits in it, so that *this edit is nowhere any more* can be
said; the fingerprint of a text (`diskSig`) is the text. State: `file` (other programs
write it too); `page`, one record for what the page's functions share: per tab the
path, the stored text, `isDirty`, `diskSig`, the conflict mark, the close prompt and
the autosave timer, and the tab on screen, the editor, the watched file and the dialog;
`inflight` and `waits` (`saveInFlight`); `calls` and `answers`, the bound calls served in
order on the UI thread and the scripts evaluated in order in the page; `rpc`, the
`buffer.save` between its prepare, write and commit; `run`, what a slot run is about to
write.

The functions of `app.js` that run to their end inside one event are operators from a
page to a page (`SelectTab`, `RemoveTabs`, `Adopt`, `Reconcile`, `ReleasePath`,
`CommitSave`, `Reload`...); an action is a stretch between two `await`s. `FallInGap`
lists the five steps after which an edit may be nowhere although nobody decided so:

* closing with *Save* removes the tab with what was typed while the file was written
  (finding 2);
* while the dialog on a conflict is open another note can take the file (*Save as*,
  `buffer.save`); *Overwrite* then calls `saveFile('')` (app.js:4811), which is *Save as*
  (app_files.go:435); a cancel is no error, and app.js:4813-4818 counts the text as saved,
  so that closing with *Save* removes the note;
* `reloadTabFromDisk` (app.js:4717) clears the unsaved mark of a text typed since the
  save that met the conflict: the whole text of such a note counts, as a second tab may
  have shown it, too;
* `refreshTabFromDisk` and `reloadTabFromDisk` (app.js:10733) do not look again at the
  tab's path after their read: a note bound to another file meanwhile gets the old
  file's text;
* app_slot.go:707 writes the note over its file without a look at it, and the page takes
  the file to hold that text before it is written (slot_agent.js:1068).

The third and the fourth were narrower once. The runs passed; the attempt to prove
`NothingLost` found the two cases that were missing, and TLC confirmed them by simulating
three tabs for 28 steps, far beyond what the run can enumerate.

Runs:

* `notefile` (about 653 000 states): two files, three tabs, of which one is an untitled
  note the last session left unsaved (`Restored`), one edit, one foreign change or capture,
  one request of the user (save, close, open, run) and one of an agent (`buffer.save`,
  `tab.close`), three of these four in every order (`MaxSteps`, which counts the restored
  text as an edit, too), any write failing. `NothingLost`: outside the gaps every edit is in
  a note, in a file, or was given up by somebody. `CleanIsKnown`: the text of a note without
  unsaved mark and the text its tab takes the file to hold differ at most in edits that were
  given up or fell in a gap, so that the next checked save and the watcher compare with the
  right text. `OneOwner`: no file has two notes. `AutosaveSettles`: an unsaved
  note of a file is saved, closed, in conflict, or known to have failed, unless a dialog
  waits for the user. Fairness: autosave timers fire, the UI thread and the page take the
  head of their queues off, a save that waited goes on, goroutines write. It is said of the
  queues (`ServesOne`, `HandlesOne`, `WakesOne`), which only the actions of the UI thread,
  of the page's answers and of the waiting saves take anything off.
* `notefile_close`: `TypedStaysCovered` fails (finding 2).

One edit, one foreign change and one request with the autosave and the watcher running
is where every conflict begins: a text typed, a text written, and a third party that
moves one over the other. Two files and a second note with unsaved text are needed for the
ownership of a file to move (*Save as* or `buffer.save` over the file of another note): the
user edits and saves, an agent's `buffer.save` of the restored note takes the file, and the
dialog's *Overwrite* finds no path.

Abstractions: the check and the write of `SaveFileChecked` are one step (nothing locks
the file in between; the gap is one system call wide in the code). Not modelled: the
second pane, encodings and line endings, the session file and its restore (but for an
untitled note it brings back unsaved),
`verifyRestoredTabsAgainstDisk`, `closeTab` with the autosave switched off.

### SlotRun

The note is a sequence of cells: a slot, a task line, a text, a mark of a running slot,
a marker of another run, an answer. All running marks read the same, and a text is what it
says (`Seen`): which mark is whose the code decides by the surroundings the run remembers
and by the distance (`findRunMark`, with `Around` cells in the place of 48 characters). The
rest of the state is the page's (`meta`, `pending`, `canceled`, `task`, the merge `queue`, `merged`
for its own undo, `idle`, the start under way in `press`), the backend's (`go`,
`killed`, `echo` for the runs whose result changes nothing) and the results
on their way (`mail`, in any order).

Actions: `Press`, `Parsed`, `Confirmed` or `NotStarted` (the start of a run with the
answers of the parser and of the user in between); `Register` (a cancel before it finds
nothing) and `Ends` of the goroutine; `Cancel`, `Deliver`, `TimesOut` (the watchdogs of
models and commands), `TypingStops` (merges that waited 500 ms); the user's `Type`,
`Delete`, `TakeBack` (`trySlotUndo`), `Undo` (the browser's), `GoAway`, `ComeBack`,
`Close`. A restore or a merge is part of the action that ends the run.

* `slotrun` (about 876 000 states): two runs out of two slots, an agent task, a model
  request and a command, and one act of the user meanwhile. Both slots stand between texts
  that say the same, so that nothing but `Away`, the distance from where the slot was, tells
  their marks apart. `CanceledStaysOut`: no
  answer of a cancelled run, although a process goes on that the cancel missed and
  another run of the slot may show the same mark. `AnswersOnce`: the watchdog's answer
  and the late one, or two merges, never both. `CardsMatch`: cards and records agree.
  `OwnMarkOnly`: a run that ends takes its own mark, as long as the text around it is
  what it was and, if another mark stands between the same texts, its own has not moved
  (otherwise it may take the other's: Observation 6). `WrittenStays`: what the user wrote
  goes only by the user's hand (but for one start over a text changed during the parse).
  `PlaceholdersGo`: in the end no placeholder is left, whoever's mark a run took and
  whatever was typed or deleted, but for one mark per run whose answer changed nothing
  (slot_agent.js:2048 ends the request and leaves the mark), unless the user pressed Ctrl+Z.
  Fairness: goroutines end (an agent has a time limit), results are delivered, the
  typing stops.

Two runs are the least for one to take the other's mark; the five requests give every
pair of kinds. One cell typed above both is enough for the lower run to find the upper mark
as near as its own. Two acts of the user with the two slots alone (5.5 million states) found
nothing more. A cell has no length: that an answer is longer than the mark it
replaces moves nothing below it; the typing does, and an agent's marker.

Not modelled: recipes and approval gates, redo and the revert with Esc, the second
pane, corrections, rewrites, pictures, the ask bar, the built-in model, the cap of 50
remembered cancels, switching notes while a start is under way.

### VoiceInput

State per dictation: what it has in the note (`note`, a bag of markers, texts, links and
the selection it edits), `pending` (who waits for an answer), `inflight` (the recording in
memory and its watchdog), `jobs`, `cache` (the path in localStorage), and the recordings
the backend keeps (`files`). `requests` are what the backend works on, `answers` the
calls of `__onVoiceResult` and rejected calls on their way, in any order. An answer
carries the dictation and not the request, as in the source: which request it answers
is what the page cannot know. `since` is the order in which the page made its entries: `Send`
and `Retry` push the oldest one out when there is no room, with its recording and its
watchdog, and `Begins` forgets the oldest job; `dropped` remembers whose. `rec` and `stopEvent` are the recorder, whose stop event
comes later than the stop.

Actions: `Start`, `StartMeeting`, `Stop`, `FinishMeeting`, `Abort`, `onRecorderStop`;
`Send` or `ReadFails`, `TimesOut`; in the backend `Refused`, `ReadsCache`,
`RemovesCached` (a retried recording is deleted, if it can be, before the second stage),
`Transcribed`, `Panics` (the answer names a recording that may be deleted), `Fails` (which
saves the recording, or cannot); `onVoiceResult`,
`CallRefused`; `Retry`, `Ask` (Save audio, Discard) with `Backend` and `AskEnds`,
`Discard`, `sweepStaleTranscribing`, `Removes` (the user deletes a marker), `Restart`.

`Start` begins a plain dictation (also over a selected text, which the marker then
replaces and nothing remembers) or the edit of a selection. It waits until the stop event
of an aborted recorder has come: the browser queues that event when the recorder stops,
and the microphone of the next recording is granted later.

* `voice` (about 931 000 states): two dictations, two requests, two acts, room for one
  recording and one job, so that the second of each pushes the first out.
  `LandsOnce`: the text of a dictation gets into the note at most once. `RescueWorks`:
  a retry marker has a recording behind it. `SelectionKept`: the text a spoken edit took
  out of the note is in the note, replaced, or behind a marker that can bring it back.
  `NoteFreed`: a dictation does not stay *Transcribing*. Fairness: the watchdog fires,
  and a recording is read or not; nothing is asked of the backend. All four exempt the
  dictations whose recording or job had to make room (`dropped`), the last three also
  those with two calls out at once, those a restart has stranded, those whose marker the
  user deleted and a panic of the second stage (`Crosses`, `Stranded`, `Removes`,
  `Panics`); Observations 9 and 10 name what happens to them.

Two requests are a request and its retry, two acts a click and a restart between them.
Also checked: 1 dictation with 2 requests and 2 acts, and 3 dictations, 2 requests, 1 act
with room for one recording and two jobs (5.1 million states).

Not modelled: silence detection, devices that go away, empty transcripts, Ctrl+Z of a
marker, closing the note.

### Deadlock

The runs of `SemIndex` and `SemIndexLock` check for deadlock. The others switch TLC's
check off: the user may stop typing, opening dialogs, dictating or saving settings, and
each of those is bounded, so the system may come to rest. That it does not rest with
work to do is what the liveness properties say.


## 3. What is proved

Every theorem holds for all values of the constants that the module's named assumption
allows: any number of goroutines, processes, sessions, tabs, messages or dictations, and
any bounds. Except for those of the semantic index, which name `AtomicCompact`, nothing
else is assumed.

| module | theorem | states | inductive invariant |
|---|---|---|---|
| `SemIndexLockProofs` | `OneUpdaterAlways` | `Spec => []OneUpdater` | `LockInv` |
| | `SwapAlways` | `Spec => CompleteBeforeSwap` | `LockInv` |
| `SemIndexProofs` | `TypeCorrect`, `IndexSoundAlways`, `FreshAlways`, `RowsOwnedAlways`, `SearchSoundAlways` | `AtomicCompact` gives `Spec => []` of `TypeOK`, `IndexSound`, `FreshWhenSame`, `RowsOwned`, `SearchSound` | `IInv` |
| | `OneVectorAlways` | `AtomicCompact` and `~LinesFail` give `Spec => []OneVectorPerText` | `IInv` |
| `MobileDropProofs` | `OneEndingAlways`, `ReachableAlways`, `NoOrphanAlways` | `Spec => []` of `OneEnding`, `ReachableByCancel`, `NoOrphanTunnel` | `DropInv` |
| `DiscordBridgeProofs` | `TypesAlways`, `CursorAlways`, `OnceAlways` | `Spec => []` of `TypeOK`, `CursorBehindScrap`, `OncePerInterruption` | `BridgeInv` |
| `NoteFileProofs` | `OneOwnerAlways` | `Spec => []OneOwner` | `Good(page)` |
| | `NothingLostAlways`, `CleanIsKnownAlways` | `Spec => []` of `NothingLost`, `CleanIsKnown` | `Inv` |
| `SlotRunProofs` | `CanceledHolds`, `OnceHolds`, `CardsHold` | `Spec => []` of `CanceledStaysOut`, `AnswersOnce`, `CardsMatch` | `IInv` |
| | `WrittenHolds` | `Spec => WrittenStays` | `IInv` |
| `VoiceInputProofs` | `TypesAlways`, `LandsOnceAlways` | `Spec => []` of `TypeOK`, `LandsOnce` | `VoiceInv` |
| | `RescueWorksAlways`, `SelectionKeptAlways` | `Spec => []` of `RescueWorks`, `SelectionKept` | `Safe` |
| `GitSyncProofs` | see below | | `TypeOK`, `OneSync`, `Inv`, `Committed` |

Each of these modules states its invariant as a conjunction of named parts, proves
`Init => Inv` and one lemma per action that `Inv` is kept, joins them in `Inductive`, and
derives the properties.

**SemIndexLock.** `OneUpdater` follows from *who updates made the lock, and it is there
and fresh* (`UpdaterHolds`), except between the renames of a `Rebuild`, where there is no
lock and no second `Rebuild` (`GapIsAlone`). That is kept because a lock goes stale only
when its owner died (`StaleIsDead`), and because `raced` records the two removals and the
lock made in the gap that break it.
`SwapIsBuilt` carries *the new index is complete* from the end of the inner update to the
renames.

**SemIndex.** `AtomicCompact` says that nothing fails or dies between the two files
`Compact` replaces; without it `IndexSound` is false (Observation 3). Of a folder,
`Committed` says that what the manifest counts is an index (`Whole`): every line points
at the vector of its text (`Lines`), every vector has a line (`Used`), no two are of one
text (`Different`), the records of the notes list the live lines one to one (`Owned`), and
a note recorded with its present stamp has its present chunks (`Fresh`). Of the store of a
run, `StoreOK` says that its lines are in the file beyond the committed ones (`Ahead`) and
that `hv` is the inverse of the vectors (`Known`); `Embedding`, that each text of the group
has a vector or waits for one, once, and that a vector without a line belongs to the group,
which is what `RolledBack` takes back and `FinalizeFile` uses up. `WorkOK` carries the
older stamp from `listFiles` to the record. `Replacement` says that what `Compact` has in
memory is a whole index over the new vectors; `CompactedWhole` proves it from the
definition of `Compact`, with lists made from sets (`OrderedList`: every element of a
finite set once), so that no induction over data is needed. `Reads` says of a search that
the lines and vectors its manifest counts are those of the files, which only grow until
something overtakes it. With `LinesFail`, a store can hold vectors without a line; `Used`,
`Different` and the second half of `Known` then say nothing, and the other five properties
hold all the same.

**MobileDrop.** `ServerOK` is about one server and the endings its page was told:
`completed` is set exactly when a batch was claimed; `tell`, by which `stopWith` has
decided to report a timeout, excludes it for ever; and the count of endings is the sum of
the batch sent and the timeout told, of which only one can happen. The same part keeps a
`cloudflared` process within reach: it has a handle that `killTunnel` sees, or was just
launched. `ReachableByCancel` needs the slot: a server that takes a submission and that
nobody asked to stop is the slot's, whichever session opens next.

**DiscordBridge.** `OnePoller` (who is not off is the application's), `Positions` (a
batch goes on where the poller's id ends, or at the starting point of the bridge),
`AllCovered` (up to the id in the file, and up to that of a running poller, everything
is appended or reported), `CountedCopies` (a message beyond the id has no more copies
than there were crashes and lost saves; the others one more). The last is what makes a
restart harmless: a new poller starts from the file, and `Once(file)` holds whenever
nobody delivers.

**NoteFile.** `OneOwner` needs the page alone: its records have their fields (`Shape`)
and two open tabs with a file have different ones (`Unique`). Every operator on the page
is shown to keep that for any arguments, so that it does not matter which calls and
answers wait in the queues. `ReleasePath` before a tab is bound and the look at
`OwnersOf` before a file is opened are what it rests on.

`NothingLost` and `CleanIsKnown` need the queues. Everything is said up to `Gone`, the
edits somebody gave up or that fell in a gap. `TabOK`: a note shows at least what its tab
takes the file to hold; a clean one is in its file, and in every text of that file that
is on its way to it. `CallOK` and `AnswerOK`: a save on its way carries a text its note
still has, and if the note got another file meanwhile, that file holds it too; a text
read from a file is in that file. `InOrder`: of two texts of one file in the queue the
later holds the earlier, which is what the order of the UI thread and of the page's
scripts gives. `Alone`: one thing is pending per note. `AllHeld`: every edit is in a file,
in an unsaved note, or gone; with `TabOK` this is `NothingLost`. `Kept`, `Carried` and
`Minded` say what a step owes the notes it does not touch, what is on its way for them,
and those it does touch; each action is shown to pay that, and `Inv'` follows once for
all actions.

**SlotRun.** `Results`: a run answers once (its goroutine has ended, its result is on its
way or in the merge queue and never both). `Held`: a request is pending while its task
runs or its answer waits to be merged, and a cancelled task is remembered as cancelled as
long as its goroutine may answer. `Done` are the runs nothing can write an answer of any
more, and `Answers` says that in the note, and in every text Ctrl+Z goes back to, only
those have an answer, and one. The lemmas are about editing the cells: where a mark is
found, and what replacing or deleting a cell leaves. The merge of several answers in one
go is a recursive function; what it does for any number of them is proved with a least
counterexample (`Least`, from the library's `NatLessThanWellFounded`).

**VoiceInput.** The room for recordings and jobs is any number. `Dictation(d)` holds of
every dictation that did not have to make room, by itself, and `Frame` shows that a step
about another one keeps it or drops it. Its core: a dictation has one marker at most; one that
is being recorded has nothing out and waits for nothing; one that waits for an answer has
no text yet, and its marker is the one `timedOut` says; and one whose text is in the note
waits for nothing and has no marker. Thus the late answer of a request that was given up
finds its dictation waiting no more. Needed on the way: a meeting never has a second
request, a recording that is read has none, and an entry whose watchdog runs belongs to a
dictation that waits.

`Safe` adds two things. `Owners`: a recording the backend keeps belongs to one dictation,
whatever names it: its path in localStorage, a request, an answer or a click on its way.
`Secure(d)`, for a dictation that is not exempt and did not have to make room: one call is
out for it (`OneCall`), and whatever is out has the recording behind it, in memory, in the
call or in the cache (`Sent`, `Clicked`, `Behind`); the selection a spoken edit took is in
the note or behind such a marker (`SelectionLeft`). Deleting a file is then harmless to every other
dictation.

**GitSync.** `GitSyncProofs` proves for any number of goroutines, edits and notes, any bounds and
any assignment of edits to notes (from `GitSyncAssumption` only):

| theorem | states |
|---|---|
| `TypeCorrect` | `Spec => []TypeOK` |
| `OneSyncHolds` | `Spec => []OneSync` |
| `ServerKeepsHolds` | `Spec => ServerKeeps` |
| `NoEditLostHolds` | `Spec => []NoEditLost` |
| `Refinement` | `Spec => RefinesReplica` |
| `SyncedHolds` | `Spec => SyncedIsPushed` |

The argument. `TypeOK` and `OneSync` are inductive as they stand. `OneSync` needs its full
form: `busy` holds exactly while some syncer is past `Enter`, and no two are.

The rest follows from one invariant, `Inv`, about where the edits are; `Loop` says of the
rescue's loop that it has a path at hand and a copy of that path's other text. `Unpushed` are
the edits made that are neither in the branch nor touched. `Safe`: each of them is in its
note, no unmerged note, no path of a loop and, while a rebase is open, no tracked note is
theirs, and during a merge none is in the index. So no `checkout --ours`, no abort and no
reset reaches them. For this to be inductive the invariant has to know what the index and
the versions hold. `Indexed`: the index is in the files, the branch (untouched) in the index,
and during a merge the other side's texts are in the index but for the notes still unmerged,
so a commit drops nothing. `Whole`: the branch, the tracking branch and the server's branch
read out all they descend from, but touched texts; git merges, rejects and fast-forwards by
ancestry, and this is what makes ancestry say something of the texts. `Known`: a local edit
on the server or in the tracking branch is in the branch's ancestry, and there is no edit
anywhere that was not made here or pushed there.

There is one lemma per effect a command can have on the repository (`QuietStep` for none,
`FetchStep`, `RebasedStep`, `StopRebaseStep`, `AbortStep`, `MergeCleanStep`,
`MergeStopsStep`, `OursStep`, `CopyStep`, `StageStep`, `CommitIndexStep`, `DropStep`,
`AddStep`, `PushStep`); each but the one for `git add .` also shows that the branch drops no
untouched text and that no unpushed edit enters the index (`Steady`). From `Inv` and `Steady`
follows what a step may do to this device's edits and to the server (`Replicates`), which is
`ServerKeeps` and the refinement. `Committed` says that from its commit to its push a syncer
finds no unpushed edit in the index; a second syncer, which could add more, is excluded by
`OneSync`.

Only model-checked: `OwnMarkOnly` of
`SlotRun`, which the run shows with its cells and which is a statement about
distances between equal marks, not about an invariant; all liveness, as the proof system
does not reason about fairness.

## 4. Findings

Each has a run whose counterexample shows it.

1. `gitsync_abort_loss` (gitsync.go:204). A pull's rebase stops on a note both devices
   edited; the user saves a tracked note before the `rebase --abort`; the abort resets
   the tracked notes and the edit is gone. gitsync.go:511 promises to keep both copies.
2. `notefile_close` (app.js:2096). Closing a note with *Save* removes the tab when the
   save succeeded, also when something was typed while the file was written.
   app.js:4607 says that the tab then stays unsaved, so that the next autosave and the
   close prompt still cover it.

Observations without a run:

1. gitsync.go:271: a timer that fires while a sync runs is dropped, so the last edit
   waits for the next edit or start (docs/features.md:108 promises a sync after the idle
   time). gitsync.go:218: after a rescue whose push failed nothing is armed to push
   again, although the status text says so; the next sync returns at the clean tree.
   gitsync.go:226 reports *resolved* before anything is pushed. gitsync.go:546 adds the
   note and a copy that was read with `git show` three commands before: when another
   goroutine's `git add .` (gitsync.go:304) comes after the `checkout --ours`, or another
   merge was opened meanwhile, the commit descends from the other device's edit and does
   not hold its text, and the push takes it off the server. `ServerKeeps` exempts it
   (`touched`); without the exemption the run shows it.
2. poller.go:110: if the request for the starting point fails or settings are saved
   during it, the poller starts without an id and its first poll appends up to 50 old
   messages; poller.go:108 says that turning the bridge on does not dump the history.
   state.go:45 truncates before it writes: a crash there forgets the id, and messages
   sent until the next start are skipped (accepted at state.go:34).
3. store.go:366: a crash after `Compact` replaced `vectors.bin` and before the manifest
   can leave an index that opens without an error and whose rows have the vectors of
   other texts; store.go:364 says it is reported as `ErrCorrupt`. It needs a run that
   embedded at least as many texts as it drops. A search that reads between these two
   writes sees two generations (`SearchSound` excludes searches that were overtaken).
   index.go:483: between the two renames of `Rebuild` there is no index in place, and a
   process that starts then creates an empty one.
   index.go:408: when chunk lines cannot be written, the vectors of the group stay counted
   without a line; the next update asks the model for these texts again, although
   index.go:229 says that only texts without a vector are sent.
4. app_mobiledrop.go:177: a tunnel event of a cancelled session acts on the dialog of the
   next one; app_mobiledrop.go:161 says that no request id is needed as only one session
   exists at a time. The timeout and received events do the same: they close the next
   session's dialog, whose server stays on.
5. app_rpc_write.go:138: a write the page answers after 5 s changes the text, but the
   caller gets an error and the generation does not move, so that a later write with
   `expected_generation` passes and replaces it (interfaces.md:90). A failed
   `prepareSave` leaves the file alone, but its error does not start with *not saved:*.
6. slot_agent.js:1868: the cancel of a run whose start was undone puts its slot in the
   place of another run's mark (the comment at 1862 excludes that). A slot that starts
   after the text changed during the parse replaces what stands at the old offsets. An
   edit around a mark can make `findRunMark` take another run's; so can text typed
   above two slots that stand between the same texts (1801: nearest to the old offset).
   slot_agent.js:2048: an answer that is the slot's own text, or a result that names no slot
   (the settings changed after the parse), ends the run as completed and leaves its running
   mark in the note for good; runner.go:308 describes this for an empty answer, which is
   why it makes that one an error.
7. inbox.go:160: a debounce timer that has fired cannot be stopped, so two handlers can
   process one file; a settings save while a file is recognised lets the new watcher's
   scan process it again (app_inbox.go:93). A file replaced during recognition is moved
   with the old text. A crash between the move and the append loses the entry; a move
   that fails (app_inbox.go:222) makes the file be processed again at every start.
8. app_deepsearch.go:133: a plan evicted while it runs cannot be cancelled.
9. voice_input.js:428-449: a request that timed out is retried from memory; the late
   error of the first then ends the wait of the second, whose text is dropped
   (the comment at 428 says that a late answer is still accepted). Discard during a
   late success puts the text at the end of the note.
10. voice_input.js: a *Recording* marker is never swept after a restart; the spoken edit
    of a selection cannot be put back then; after Ctrl+Z of a marker, Esc appends the
    selection again; *Save audio* of a failed spoken edit replaces the marker by a link
    and the selected text is gone; `finishMeeting` has no watchdog. voice_input.js:808: a
    plain dictation begun over a selected text puts its marker in the place of the text
    and keeps an empty selection, so Esc, Discard or a failed recording loses the text.
    voice_input.js:414-419: a sixth recording pushes the oldest out: its watchdog is gone,
    a retry marker it had leads to no recording, and a late answer goes to the end of the
    note and leaves that marker, whose retry can then bring the text a second time.
    app_inputs.go:634: `RetryVoiceCacheAsync` deletes the recording before the second
    stage, and a panic there answers with the path of the deleted file.
11. config_pack.js:240: a server entry the user did not tick still lets the package's
    key replace the one of this computer (`screenImported` takes out the address and the
    model only).
12. app.js:14471: the session of the backend is restored after the local one: a text
    typed in between is kept, with the unsaved mark of the backend's copy. After the
    first *Save as* of the tab on screen nothing watches the file until it is selected
    again. A note restored with unsaved text and a file is not saved by the autosave until
   the next keystroke, as restoring does not arm it. app.js:4813 does not look at what
   `saveFile` returned: a cancelled *Save as* counts as saved (a gap of `NoteFile`).

## 5. Not modelled

`PROJECT.json` says for every component what its model leaves out. The parts without a
model are of three kinds:

* **Sequential code without shared state**: parsing of slots and settings, lessons, the
  Markdown of a batch, configuration packs, ranking, chunking, Jev's guards, the editing
  helpers of the page, most of `app.js` (dialogs, menus, panes, rendering) and the texts
  of the interface. Nothing in them depends on an order of steps.
* **Input and output of the platform**: windows, shortcuts, tray, sound devices, printing,
  sockets, archives.
* **State, but no promise about it that a model could hold the code to**: the inbox keeps
  no record of what it processed, RPC writes say nothing of an answer that comes late,
  plans of a deep search are forgotten by age and number. What reading showed is under
  Observations 5, 7 and 8.

## 6. Plan

Every safety invariant the runs check is proved; of the action properties, `OwnMarkOnly`
of `SlotRun` is left. What a proof could still add is what holds when `AtomicCompact` does
not: that an index caught in the middle of `Compact` still has the rows of the old manifest
or is reported.
