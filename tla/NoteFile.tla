------------------------------ MODULE NoteFile ------------------------------
(***************************************************************************)
(* Notes, their files, and everybody who writes either: the user, the      *)
(* autosave, the close prompt, the watcher of the file on screen, agents   *)
(* through JSON-RPC, slot runs, and other programs.                        *)
(* frontend/js/app.js (tabs, saves, RPC), disk_sync.js, app_files.go,      *)
(* app_rpc_write.go, app_slot.go.                                          *)
(*                                                                         *)
(* A text is the set of the edits it contains, so that "this edit is       *)
(* nowhere any more" can be said.  The fingerprint of a text is the text.  *)
(***************************************************************************)
EXTENDS Naturals, Sequences, FiniteSets

CONSTANTS
    Tabs,        \* ids of tabs; an id is never used twice
    Paths,       \* files
    NoTab, NoPath,
    NoText,      \* no text is known, or none is on its way
    FirstTab,    \* the tab on screen at the start
    FirstPath,   \* the file it shows; NoPath: it is untitled
    Restored,    \* an untitled tab the last session left unsaved text in, or NoTab
    MaxEdits,    \* bound: edits of notes (typed, or written by an agent)
    MaxForeign,  \* bound: changes of files by other programs
    MaxAsks,     \* bound: requests of the user, and requests of agents
    MaxSteps     \* bound: all these together

ASSUME NoteFileAssumption ==
    /\ IsFiniteSet(Tabs) /\ FirstTab \in Tabs /\ NoTab \notin Tabs
    /\ Restored \in (Tabs \ {FirstTab}) \cup {NoTab}
    /\ Restored # NoTab => MaxEdits > 0
    /\ NoPath \notin Paths /\ FirstPath \in Paths \cup {NoPath}
    /\ MaxEdits \in Nat /\ MaxForeign \in Nat /\ MaxAsks \in Nat /\ MaxSteps \in Nat

ASSUME NoTextAssumption == \A x \in SUBSET (1..(MaxEdits + MaxForeign)) : NoText # x

VARIABLES
    file,      \* [Paths -> text]: the files
    page,      \* the page: its tabs, which one is on screen, the editor, dialogs
    inflight,  \* saveInFlight: the tabs a save is writing
    waits,     \* [Tabs -> kinds of saves that wait for the one in flight]
    calls,     \* calls of bound functions, served in order on the UI thread
    answers,   \* their results and the scripts of Go, evaluated in order
    changed,   \* files with a running debounce timer of the watcher
    rpc,       \* the buffer.save under way
    run,       \* [Paths -> a text a slot run is about to write there]
    edits, foreign, asks,  \* counters of the bounds
    given,     \* history: the edits somebody decided to throw away
    gaps       \* history: the edits that fell into a gap of the code, see FallInGap

vars == <<file, page, inflight, waits, calls, answers, changed, rpc, run,
          edits, foreign, asks, given, gaps>>

Idle == [pc |-> "idle", t |-> NoTab, p |-> NoPath, x |-> {}, own |-> NoPath, sig |-> NoText]
NoModal == [kind |-> "none", t |-> NoTab, save |-> "none", keep |-> {}]

-----------------------------------------------------------------------------
(* The page: operators from a page to the page after a function has run.   *)

IsOpen(pg, t) == t \in Tabs /\ pg.tab[t].state = "open"

OpenTabs(pg) == {t \in Tabs : IsOpen(pg, t)}

(* getTabText: the editor for the tab on screen *)
TextOf(pg, t) == IF t = pg.active THEN pg.editor ELSE pg.tab[t].text

HasUnsavedText(pg, t) ==
    pg.tab[t].dirty \/ (t = pg.active /\ pg.editor # pg.tab[t].text)

OwnersOf(pg, p) == {t \in OpenTabs(pg) : p # NoPath /\ pg.tab[t].path = p}

(* selectTab: the tab on screen gets the editor's text, the other its place *)
SelectTab(pg, t) ==
    LET stored == IF IsOpen(pg, pg.active)
                  THEN [pg.tab EXCEPT ![pg.active].text = pg.editor] ELSE pg.tab
    IN IF ~IsOpen(pg, t) THEN pg
       ELSE [pg EXCEPT !.tab = stored, !.active = t, !.editor = stored[t].text,
                       !.watched = stored[t].path]

(* removeTab, for a set of tabs: a neighbour comes on screen               *)
RemoveTabs(pg, S) ==
    LET closed == [pg EXCEPT !.tab = [t \in Tabs |->
                      IF t \in S /\ IsOpen(pg, t)
                      THEN [pg.tab[t] EXCEPT !.state = "closed", !.timer = FALSE]
                      ELSE pg.tab[t]]]
        left == OpenTabs(closed)
    IN IF pg.active \notin S THEN closed
       ELSE IF left = {} THEN [closed EXCEPT !.active = NoTab, !.editor = {}]
       ELSE SelectTab([closed EXCEPT !.active = NoTab], CHOOSE t \in left : TRUE)

(* armAutoSave: only for a note with a file                                *)
Arm(pg, t) == [pg EXCEPT !.tab[t].timer = @ \/ pg.tab[t].path # NoPath]

Unremembered(pg, t, x) == [pg EXCEPT !.tab[t].conflict = FALSE]  \* mutant

(* rememberDiskText and rememberWritten: what the tab knows of its file    *)
Remember(pg, t, x) == [pg EXCEPT !.tab[t].sig = x, !.tab[t].conflict = FALSE]

(* adoptDiskText: a tab with nothing unsaved takes the text of its file    *)
Adopt(pg, t, x) ==
    IF HasUnsavedText(pg, t)
    THEN IF TextOf(pg, t) = x THEN Remember(pg, t, x) ELSE pg
    ELSE [Remember(pg, t, x) EXCEPT !.tab[t].text = x,
                                    !.editor = IF pg.active = t THEN x ELSE @]

(* reconcileWithDisk with planExternalChange: ignore, reload or conflict   *)
Reconcile(pg, t, x) ==
    CASE pg.tab[t].sig = x -> pg
      [] pg.tab[t].sig # x /\ ~HasUnsavedText(pg, t) -> Adopt(pg, t, x)
      [] OTHER -> [pg EXCEPT !.tab[t].conflict = @ \/ pg.tab[t].sig # NoText]

(* mutants: whatever is there counts as saved; the timer is not started    *)
AllSaved(pg, t, sent) == [pg EXCEPT !.tab[t].dirty = FALSE, !.tab[t].failed = FALSE]
Unarmed(pg, t, sent) ==
    [pg EXCEPT !.tab[t].dirty = IsOpen(pg, t) /\ TextOf(pg, t) # sent, !.tab[t].failed = FALSE]

(* markSavedUpTo: what was typed after `sent` was handed over is unsaved   *)
MarkSavedUpTo(pg, t, sent) ==
    LET dirty == IsOpen(pg, t) /\ TextOf(pg, t) # sent
        marked == [pg EXCEPT !.tab[t].dirty = dirty, !.tab[t].failed = FALSE]
    IN IF dirty THEN Arm(marked, t) ELSE marked

(* mutant: only tabs without unsaved text give the file up                 *)
CloseOthers(pg, t, p) ==
    RemoveTabs(pg, {o \in OwnersOf(pg, p) \ {t} : ~HasUnsavedText(pg, o)})

(* releasePathFromOtherTabs: no two tabs own one file                      *)
ReleasePath(pg, t, p) ==
    LET others == OwnersOf(pg, p) \ {t}
        kept == {o \in others : HasUnsavedText(pg, o)}
        detached == [pg EXCEPT
            !.tab = [o \in Tabs |-> IF o \in kept
                     THEN [pg.tab[o] EXCEPT !.path = NoPath, !.dirty = TRUE]
                     ELSE pg.tab[o]],
            !.watched = IF pg.active \in kept THEN NoPath ELSE @]
    IN RemoveTabs(detached, others \ kept)

(* createTab for a text just read from p, or for a text of its own         *)
NewTab(pg, t, p, x, dirty) ==
    [pg EXCEPT !.tab[t] = [@ EXCEPT !.state = "open", !.path = p, !.text = x,
                                    !.dirty = dirty,
                                    !.sig = IF p = NoPath THEN NoText ELSE x]]

Unused(pg) == {t \in Tabs : pg.tab[t].state = "unused"}
Fresh(pg) == CHOOSE t \in Unused(pg) : TRUE

(* What follows the end of a save: nothing, or the rest of closeTab and of *)
(* askToSaveBeforeClosing (`close` holds the mark, `reclose` does not)     *)
AfterSave(pg, t, kind, ok) ==
    LET lifted == IF kind = "close" THEN [pg EXCEPT !.tab[t].prompt = FALSE] ELSE pg
    IN CASE kind \in {"auto", "manual"} -> pg
         [] kind \in {"close", "reclose"} /\ ok -> RemoveTabs(lifted, {t})
         [] kind = "close" /\ ~ok /\ IsOpen(pg, t) /\ pg.tab[t].dirty -> Arm(lifted, t)
         [] OTHER -> lifted

(* reloadTabFromDisk: the tab shows the file; what the save was about to   *)
(* write goes into a new unsaved tab                                       *)
Reload(pg, t, mine, x) ==
    LET saved == IF x = mine THEN pg ELSE NewTab(pg, Fresh(pg), NoPath, mine, TRUE)
    IN Adopt([saved EXCEPT !.tab[t].dirty = FALSE, !.tab[t].text = mine], t, x)

(* commitSave: binds the tab to the file, if its text is still that text   *)
CommitSave(pg, t, p, x) ==
    LET free == Remember(ReleasePath(pg, t, p), t, x)
    IN IF ~IsOpen(pg, t) \/ TextOf(pg, t) # x THEN pg
       ELSE [free EXCEPT !.tab[t].path = p, !.tab[t].dirty = FALSE,
                         !.watched = IF pg.active = t THEN p ELSE @]

-----------------------------------------------------------------------------
(* Calls of the page to Go and back                                        *)

Call(op, t, p, x, keep, kind, sig) ==
    [op |-> op, t |-> t, p |-> p, x |-> x, keep |-> keep, kind |-> kind, sig |-> sig]

Read(op, t, p, keep, kind) == Call(op, t, p, {}, keep, kind, NoText)

(* A bound: an id is left for one more tab than those on their way         *)
RoomForTab ==
    LET opening(q) == {i \in DOMAIN q : q[i].op \in {"open", "reload"}}
    IN Cardinality(Unused(page)) > Cardinality(opening(calls)) + Cardinality(opening(answers))

(* saveTabNow up to its first await, with the new text of the page pg      *)
BeginSave(pg, t, kind, force) ==
    LET now == TextOf(pg, t)
        synced == [pg EXCEPT !.tab[t].text = now]
        tb == pg.tab[t]
        declined == kind = "auto" /\ (tb.prompt \/ (tb.conflict /\ tb.path # NoPath))
        asksName == tb.path = NoPath \/ force
        call == IF asksName THEN Call("saveas", t, NoPath, now, now, kind, NoText)
                            ELSE Call("save", t, tb.path, now, now, kind, tb.sig)
    IN IF declined \/ (asksName /\ pg.native)
       THEN /\ page' = AfterSave(synced, t, kind, FALSE)
            /\ inflight' = inflight \ {t}
            /\ UNCHANGED calls
       ELSE /\ page' = [synced EXCEPT !.native = @ \/ asksName]
            /\ inflight' = inflight \cup {t}
            /\ calls' = Append(calls, call)

(* saveTab: a save waits while another one writes the same note            *)
SaveTab(pg, t, kind) ==
    IF t \in inflight
    THEN /\ waits' = [waits EXCEPT ![t] = @ \cup {kind}]
         /\ page' = pg
         /\ UNCHANGED <<inflight, calls>>
    ELSE BeginSave(pg, t, kind, FALSE) /\ UNCHANGED waits

(* The gaps: the steps after which edits nobody gave up may have no copy.  *)
(*  - closing with Save removes what was typed while the write was under   *)
(*    way (Saved);                                                         *)
(*  - a note that lost its file while the dialog on a conflict was open    *)
(*    counts as saved although its Save As is cancelled (NothingWritten);  *)
(*  - a reload drops the unsaved mark of a note that was typed in since    *)
(*    the save that met the conflict (Reloaded);                           *)
(*  - a note bound to another file while it is reloaded or refreshed takes *)
(*    the text of the old one (Reloaded, TextRead);                        *)
(*  - a run writes the note over its file without a look at it (RunWrite). *)
FallInGap(S) == gaps' = gaps \cup S

(* Somebody wrote x to p: the watcher, if it watches p, starts its timer   *)
WriteFile(p, x) ==
    /\ file' = [file EXCEPT ![p] = x]
    /\ changed' = IF page.watched = p THEN p ELSE changed

MayAct == edits + foreign + asks["user"] + asks["agent"] < MaxSteps
Ask(who) == MayAct /\ asks[who] < MaxAsks /\ asks' = [asks EXCEPT ![who] = @ + 1]

-----------------------------------------------------------------------------
(* onEditorInput, and writeTabText with afterRpcTabEdit for a tab that is  *)
(* not on screen: typing, an RPC write, the result of a slot               *)
Edit(t) ==
    LET x == TextOf(page, t) \cup {edits + 1}
        typed == [page EXCEPT !.tab[t].text = x, !.tab[t].dirty = TRUE,
                              !.editor = IF page.active = t THEN x ELSE @]
    IN /\ IsOpen(page, t)
       /\ MayAct /\ edits < MaxEdits /\ edits' = edits + 1
       /\ page' = Arm(typed, t)
       /\ UNCHANGED <<file, inflight, waits, calls, answers, changed, rpc, run,
                      foreign, asks, given, gaps>>

Select(t) ==
    /\ IsOpen(page, t) /\ t # page.active
    /\ page' = SelectTab(page, t)
    /\ UNCHANGED <<file, inflight, waits, calls, answers, changed, rpc, run,
                   edits, foreign, asks, given, gaps>>

(* Ctrl+S                                                                  *)
Save ==
    /\ page.active # NoTab /\ page.modal = NoModal /\ ~page.native
    /\ Ask("user")
    /\ SaveTab(page, page.active, "manual")
    /\ UNCHANGED <<file, answers, changed, rpc, run, edits, foreign, given, gaps>>

(* The autosave timer (scheduleAutoSave) looks again at everything         *)
TimerFires(t) ==
    LET off == [page EXCEPT !.tab[t].timer = FALSE]
        tb == page.tab[t]
    IN /\ tb.timer
       /\ IF tb.state = "open" /\ ~tb.prompt /\ tb.dirty /\ tb.path # NoPath /\ ~tb.conflict
          THEN SaveTab(off, t, "auto")
          ELSE page' = off /\ UNCHANGED <<inflight, waits, calls>>
       /\ UNCHANGED <<file, answers, changed, rpc, run, edits, foreign, asks, given, gaps>>

(* saveTab after its wait; an autosave may find nothing left to do         *)
StopWaiting(t, kind) ==
    /\ t \notin inflight /\ kind \in waits[t]
    /\ waits' = [waits EXCEPT ![t] = @ \ {kind}]
    /\ IF kind = "auto" /\ ~(IsOpen(page, t) /\ page.tab[t].dirty)
       THEN UNCHANGED <<page, inflight, calls>>
       ELSE BeginSave(page, t, kind, FALSE)
    /\ UNCHANGED <<file, answers, changed, rpc, run, edits, foreign, asks, given, gaps>>

(* closeTab and askToSaveBeforeClosing, which a dialog that is open already*)
(* declines                                                                *)
Close(t) ==
    LET tb == page.tab[t]
        kind == IF tb.prompt THEN "reclose" ELSE "close"
        asked == [page EXCEPT !.tab[t].prompt = TRUE,
                              !.modal = [kind |-> "close", t |-> t, save |-> kind, keep |-> {}]]
    IN /\ IsOpen(page, t) /\ Ask("user")
       /\ page' = CASE ~tb.dirty -> RemoveTabs(page, {t})
                    [] tb.dirty /\ page.modal = NoModal -> asked
                    [] tb.dirty /\ page.modal # NoModal -> AfterSave(page, t, kind, FALSE)
       /\ UNCHANGED <<file, inflight, waits, calls, answers, changed, rpc, run,
                      edits, foreign, given, gaps>>

(* The answer to the close prompt                                          *)
AnswerClose(choice) ==
    LET t == page.modal.t
        kind == page.modal.save
        closed == [page EXCEPT !.modal = NoModal]
    IN /\ page.modal.kind = "close"
       /\ CASE choice = "cancel" ->
                 page' = AfterSave(closed, t, kind, FALSE)
                 /\ UNCHANGED <<inflight, waits, calls, given>>
            [] choice = "dontsave" ->
                 page' = AfterSave(closed, t, kind, TRUE)
                 /\ given' = given \cup (IF IsOpen(page, t) THEN TextOf(page, t) ELSE {})
                 /\ UNCHANGED <<inflight, waits, calls>>
            [] choice = "save" ->
                 SaveTab(closed, t, kind) /\ UNCHANGED given
       /\ UNCHANGED <<file, answers, changed, rpc, run, edits, foreign, asks, gaps>>

(* confirmDiskConflict, and what saveTabNow does with the answer           *)
AnswerConflict(choice) ==
    LET t == page.modal.t
        kind == page.modal.save
        keep == page.modal.keep
        tb == page.tab[t]
        closed == [page EXCEPT !.modal = NoModal]
    IN /\ page.modal.kind = "conflict"
       /\ CASE choice = "cancel" ->
                 /\ page' = AfterSave(closed, t, kind, FALSE)
                 /\ inflight' = inflight \ {t}
                 /\ UNCHANGED calls
            [] choice = "saveas" -> BeginSave(closed, t, kind, TRUE)
            [] choice = "reload" ->
                 /\ RoomForTab
                 /\ page' = closed
                 /\ calls' = Append(calls, Read("reload", t, tb.path, keep, kind))
                 /\ UNCHANGED inflight
            [] choice = "overwrite" ->
                 /\ page' = closed
                 /\ calls' = Append(calls,
                                 Call("save", t, tb.path, tb.text, keep, kind, NoText))
                 /\ UNCHANGED inflight
       /\ UNCHANGED <<file, waits, answers, changed, rpc, run, edits, foreign, asks,
                      given, gaps>>

(* jumpToScrap, or a file opened from the workspace: a tab that shows the  *)
(* file comes on screen, otherwise the file is read first                  *)
Open(p) ==
    /\ Ask("user")
    /\ IF OwnersOf(page, p) # {}
       THEN page' = SelectTab(page, CHOOSE t \in OwnersOf(page, p) : TRUE) /\ UNCHANGED calls
       ELSE /\ RoomForTab
            /\ calls' = Append(calls, Read("open", NoTab, p, {}, "none"))
            /\ UNCHANGED page
    /\ UNCHANGED <<file, inflight, waits, answers, changed, rpc, run, edits, foreign,
                   given, gaps>>

(* RPC tab.close with if_saved reads the file first                        *)
RpcClose(t) ==
    /\ IsOpen(page, t) /\ page.tab[t].path # NoPath
    /\ Ask("agent")
    /\ calls' = Append(calls, Read("rpcclose", t, page.tab[t].path, TextOf(page, t), "none"))
    /\ UNCHANGED <<file, page, inflight, waits, answers, changed, rpc, run, edits,
                   foreign, given, gaps>>

-----------------------------------------------------------------------------
(* Another program changes a file                                          *)
Foreign(p) ==
    /\ MayAct /\ foreign < MaxForeign /\ foreign' = foreign + 1
    /\ WriteFile(p, file[p] \cup {MaxEdits + foreign + 1})
    /\ UNCHANGED <<page, inflight, waits, calls, answers, rpc, run, edits, asks, given, gaps>>

(* A capture is appended to a scrap file.  onScrapAppended reads the file   *)
(* for the tab that shows it, unless it has unsaved text, or for a new tab *)
ScrapAppended(p) ==
    LET owners == OwnersOf(page, p)
        shown == {t \in owners : ~HasUnsavedText(page, t)}
    IN /\ MayAct /\ foreign < MaxForeign /\ foreign' = foreign + 1
       /\ owners = {} => RoomForTab
       /\ WriteFile(p, file[p] \cup {MaxEdits + foreign + 1})
       /\ calls' = CASE shown # {} -> Append(calls, Read("refresh", CHOOSE t \in shown : TRUE,
                                                         p, {}, "none"))
                      [] owners = {} -> Append(calls, Read("open", NoTab, p, {}, "none"))
                      [] OTHER -> calls
       /\ UNCHANGED <<page, inflight, waits, answers, rpc, run, edits, asks, given, gaps>>

(* The watcher's debounce timer: the page reads the file if it shows it    *)
WatcherFires ==
    /\ changed # NoPath /\ changed' = NoPath
    /\ calls' = IF IsOpen(page, page.active) /\ page.tab[page.active].path = changed
                THEN Append(calls, Read("seen", NoTab, changed, {}, "none")) ELSE calls
    /\ UNCHANGED <<file, page, inflight, waits, answers, rpc, run, edits, foreign, asks,
                   given, gaps>>

-----------------------------------------------------------------------------
(* The UI thread serves the page's calls in their order                    *)
Serve(answer) ==
    /\ calls # <<>> /\ calls' = Tail(calls)
    /\ answers' = Append(answers, answer)
    /\ UNCHANGED <<page, inflight, waits, rpc, run, edits, foreign, asks, gaps>>

(* A text is written where the user agreed to lose what it replaces        *)
Replace(p, x) == WriteFile(p, x) /\ given' = given \cup (file[p] \ x)

(* SaveFileChecked: nothing is written over a text the tab does not know.  *)
(* SaveFile without a path, for a tab that lost its file in the dialog, is *)
(* SaveFileAs: the user names a file, or cancels, which is no error        *)
ServeSave ==
    LET c == Head(calls)
        nowhere == c.p = NoPath
        foreignText == ~nowhere /\ c.sig # NoText /\ file[c.p] # c.sig
    IN /\ calls # <<>> /\ c.op = "save"
       /\ \/ /\ foreignText
             /\ Serve([c EXCEPT !.op = "conflict"])
             /\ UNCHANGED <<file, changed, given>>
          \/ /\ ~foreignText /\ ~nowhere
             /\ WriteFile(c.p, c.x)
             /\ given' = IF c.sig = NoText THEN given \cup (file[c.p] \ c.x) ELSE given
             /\ Serve([c EXCEPT !.op = "saved"])
          \/ /\ nowhere
             /\ \E p \in Paths : Replace(p, c.x) /\ Serve([c EXCEPT !.op = "saved", !.p = p])
          \/ /\ nowhere
             /\ Serve([c EXCEPT !.op = "unwritten"])
             /\ UNCHANGED <<file, changed, given>>
          \/ /\ ~foreignText
             /\ Serve([c EXCEPT !.op = "failed"])
             /\ UNCHANGED <<file, changed, given>>

(* SaveFileAs: the user names a file, and the dialog asks before one is    *)
(* replaced; or cancels                                                    *)
ServeSaveAs ==
    LET c == Head(calls)
    IN /\ calls # <<>> /\ c.op = "saveas"
       /\ \/ \E p \in Paths : Replace(p, c.x) /\ Serve([c EXCEPT !.op = "savedas", !.p = p])
          \/ /\ Serve([c EXCEPT !.op = "canceled"])
             /\ UNCHANGED <<file, changed, given>>

(* ReadFileByPath                                                          *)
ServeRead ==
    LET c == Head(calls)
    IN /\ calls # <<>> /\ c.op \in {"reload", "seen", "open", "refresh", "rpcclose"}
       /\ Serve(IF c.p = NoPath THEN [c EXCEPT !.op = "unread"]
                                ELSE [c EXCEPT !.x = file[c.p]])
       /\ UNCHANGED <<file, changed, given, gaps>>

-----------------------------------------------------------------------------
(* The page handles the next answer                                        *)
Handle(op) ==
    /\ answers # <<>> /\ Head(answers).op \in op
    /\ answers' = Tail(answers)
    /\ UNCHANGED <<file, waits, calls, changed, run, edits, foreign, asks, given>>

(* The end of saveTabNow                                                   *)
Saved ==
    LET a == Head(answers)
        owned == IF a.op = "savedas"
                 THEN [ReleasePath(page, a.t, a.p) EXCEPT !.tab[a.t].path = a.p,
                                                          !.native = FALSE]
                 ELSE page
        known == Remember(owned, a.t, a.x)
    IN /\ Handle({"saved", "savedas"})
       /\ page' = AfterSave(MarkSavedUpTo(known, a.t, a.keep), a.t, a.kind, TRUE)
       /\ FallInGap(IF a.kind \in {"close", "reclose"} /\ IsOpen(page, a.t)
                    THEN TextOf(page, a.t) \ a.keep ELSE {})
       /\ inflight' = inflight \ {a.t}
       /\ UNCHANGED rpc

(* The end of a save that wrote nothing because its dialog was cancelled:  *)
(* saveTabNow does not look at the result, and the text counts as saved    *)
NothingWritten ==
    LET a == Head(answers)
        marked == MarkSavedUpTo(Remember(page, a.t, page.tab[a.t].text), a.t, a.keep)
        uncovered == a.kind \in {"close", "reclose"} \/ ~marked.tab[a.t].dirty
    IN /\ Handle({"unwritten"})
       /\ page' = AfterSave(marked, a.t, a.kind, TRUE)
       /\ FallInGap(IF IsOpen(page, a.t) /\ uncovered THEN TextOf(page, a.t) ELSE {})
       /\ inflight' = inflight \ {a.t}
       /\ UNCHANGED rpc

NotSaved ==
    LET a == Head(answers)
        told == CASE a.op = "failed" -> [page EXCEPT !.tab[a.t].failed = TRUE]
                  [] a.op = "canceled" -> [page EXCEPT !.native = FALSE]
                  [] a.op = "unread" -> page
    IN /\ Handle({"failed", "canceled", "unread"})
       /\ page' = AfterSave(told, a.t, a.kind, FALSE)
       /\ inflight' = inflight \ {a.t}
       /\ UNCHANGED <<rpc, gaps>>

(* An autosave pauses, other saves ask unless another dialog is open       *)
Conflict ==
    LET a == Head(answers)
        asked == [kind |-> "conflict", t |-> a.t, save |-> a.kind, keep |-> a.keep]
    IN /\ Handle({"conflict"})
       /\ page' = CASE a.kind = "auto" -> [page EXCEPT !.tab[a.t].conflict = TRUE]
                    [] a.kind # "auto" /\ page.modal = NoModal ->
                         [page EXCEPT !.modal = asked]
                    [] OTHER -> AfterSave(page, a.t, a.kind, FALSE)
       /\ inflight' = IF a.kind # "auto" /\ page.modal = NoModal THEN inflight
                      ELSE inflight \ {a.t}
       /\ UNCHANGED <<rpc, gaps>>

Reloaded ==
    LET a == Head(answers)
    IN /\ Handle({"reload"})
       /\ page' = AfterSave(Reload(page, a.t, a.keep, a.x), a.t, a.kind, FALSE)
       /\ FallInGap(IF ~IsOpen(page, a.t) THEN {}
                    ELSE (IF TextOf(page, a.t) = a.keep THEN {} ELSE TextOf(page, a.t))
                         \cup (IF page.tab[a.t].path = a.p THEN {} ELSE a.x))
       /\ inflight' = inflight \ {a.t}
       /\ UNCHANGED rpc

(* __onDiskTextSeen, createTab, refreshTabFromDisk, closeTabForRpc         *)
TextRead ==
    LET a == Head(answers)
        owners == OwnersOf(page, a.p)
        owner == CHOOSE t \in owners : TRUE
        new == Fresh(page)
        refreshed == a.op = "refresh" /\ IsOpen(page, a.t) /\ ~HasUnsavedText(page, a.t)
    IN /\ Handle({"seen", "open", "refresh", "rpcclose"})
       /\ page' = CASE a.op = "seen" /\ owners # {} -> Reconcile(page, owner, a.x)
                    [] a.op = "open" /\ owners # {} -> SelectTab(Adopt(page, owner, a.x), owner)
                    [] a.op = "open" /\ owners = {} ->
                         SelectTab(NewTab(page, new, a.p, a.x, FALSE), new)
                    [] refreshed -> SelectTab(Adopt(page, a.t, a.x), a.t)
                    [] a.op = "rpcclose" /\ IsOpen(page, a.t) /\ TextOf(page, a.t) = a.keep
                         /\ a.x = a.keep -> RemoveTabs(page, {a.t})
                    [] OTHER -> page
       /\ FallInGap(IF refreshed /\ page.tab[a.t].path # a.p
                    THEN TextOf(page, a.t) \cup a.x ELSE {})
       /\ UNCHANGED <<inflight, rpc>>

-----------------------------------------------------------------------------
(* RPC buffer.save: prepareSave in the page, check and write in Go,        *)
(* commitSave in the page.  Another file is named with `overwrite`.        *)
RpcPrepare(t, p) ==
    LET tb == page.tab[t]
    IN /\ IsOpen(page, t) /\ rpc = Idle /\ Ask("agent")
       /\ rpc' = [pc |-> "write", t |-> t, p |-> p, x |-> TextOf(page, t),
                  own |-> tb.path, sig |-> tb.sig]
       /\ UNCHANGED <<file, page, inflight, waits, calls, answers, changed, run, edits,
                      foreign, given, gaps>>

RpcWrite ==
    LET refused == rpc.p = rpc.own /\ rpc.sig # NoText /\ file[rpc.p] # rpc.sig
    IN /\ rpc.pc = "write"
       /\ IF refused
          THEN rpc' = Idle /\ UNCHANGED <<file, changed, answers, given>>
          ELSE /\ WriteFile(rpc.p, rpc.x)
               /\ given' = IF rpc.p = rpc.own THEN given
                           ELSE given \cup (file[rpc.p] \ rpc.x)
               /\ rpc' = [rpc EXCEPT !.pc = "commit"]
               /\ answers' = Append(answers, Call("commit", rpc.t, rpc.p, rpc.x, {}, "none", NoText))
       /\ UNCHANGED <<page, inflight, waits, calls, run, edits, foreign, asks, gaps>>

RpcCommit ==
    LET a == Head(answers)
    IN /\ Handle({"commit"})
       /\ page' = CommitSave(page, a.t, a.p, a.x)
       /\ rpc' = Idle
       /\ UNCHANGED <<inflight, gaps>>

(* A slot or agent run starts from the note on screen.  The page takes the *)
(* file to hold the note's text from now on (__onDiskTextWritten); a       *)
(* goroutine writes it there.                                              *)
RunStart ==
    LET t == page.active
        p == page.tab[t].path
        x == TextOf(page, t)
        marked == [Remember(page, t, x) EXCEPT !.tab[t].text = x, !.tab[t].dirty = TRUE]
    IN /\ IsOpen(page, t) /\ p # NoPath /\ Ask("user")
       /\ page.modal = NoModal /\ ~page.native
       /\ run[p] = NoText
       /\ run' = [run EXCEPT ![p] = x]
       /\ page' = Arm(marked, t)
       /\ UNCHANGED <<file, inflight, waits, calls, answers, changed, rpc, edits, foreign,
                      given, gaps>>

RunWrite(p) ==
    /\ run[p] # NoText
    /\ run' = [run EXCEPT ![p] = NoText]
    /\ WriteFile(p, run[p])
    /\ FallInGap(file[p] \ run[p])
    /\ UNCHANGED <<page, inflight, waits, calls, answers, rpc, edits, foreign, asks, given>>

-----------------------------------------------------------------------------
Init ==
    /\ file = [p \in Paths |-> {}]
    /\ page = [tab |-> [t \in Tabs |->
                   [state |-> IF t \in {FirstTab, Restored} THEN "open" ELSE "unused",
                    path |-> IF t = FirstTab THEN FirstPath ELSE NoPath,
                    text |-> IF t = Restored THEN {1} ELSE {}, dirty |-> t = Restored,
                    sig |-> IF t = FirstTab /\ FirstPath # NoPath THEN {} ELSE NoText,
                    conflict |-> FALSE, prompt |-> FALSE, timer |-> FALSE,
                    failed |-> FALSE]],
               active |-> FirstTab, editor |-> {}, watched |-> FirstPath,
               modal |-> NoModal, native |-> FALSE]
    /\ inflight = {} /\ waits = [t \in Tabs |-> {}]
    /\ calls = <<>> /\ answers = <<>>
    /\ changed = NoPath
    /\ rpc = Idle /\ run = [p \in Paths |-> NoText]
    /\ edits = (IF Restored = NoTab THEN 0 ELSE 1) /\ foreign = 0
    /\ asks = [who \in {"user", "agent"} |-> 0]
    /\ given = {} /\ gaps = {}

Users ==
    \/ \E t \in Tabs : Edit(t) \/ Select(t) \/ Close(t) \/ RpcClose(t)
    \/ \E t \in Tabs, p \in Paths : RpcPrepare(t, p)
    \/ Save
    \/ RunStart
    \/ \E choice \in {"cancel", "dontsave", "save"} : AnswerClose(choice)
    \/ \E choice \in {"cancel", "saveas", "reload", "overwrite"} : AnswerConflict(choice)
    \/ \E p \in Paths : Open(p) \/ Foreign(p) \/ ScrapAppended(p)

Timers == (\E t \in Tabs : TimerFires(t)) \/ WatcherFires
Waiters == \E t \in Tabs, kind \in {"auto", "manual", "close", "reclose"} : StopWaiting(t, kind)
UiThread == ServeSave \/ ServeSaveAs \/ ServeRead
Answers == Saved \/ NothingWritten \/ NotSaved \/ Conflict \/ Reloaded \/ TextRead \/ RpcCommit
Goroutines == RpcWrite \/ \E p \in Paths : RunWrite(p)

Next == Users \/ Timers \/ Waiters \/ UiThread \/ Answers \/ Goroutines

Spec == Init /\ [][Next]_vars

(* The steps of UiThread, Answers and Waiters, said of what they take off: *)
(* a call, an answer, a save that waits                                    *)
ServesOne == calls # <<>> /\ calls' = Tail(calls)
HandlesOne == answers # <<>> /\ answers' = Tail(answers)
WakesOne ==
    \E t \in Tabs \ inflight : \E kind \in waits[t] :
        waits' = [waits EXCEPT ![t] = @ \ {kind}]

Fairness ==
    /\ WF_vars(\E t \in Tabs : TimerFires(t))
    /\ WF_calls(ServesOne) /\ WF_answers(HandlesOne) /\ WF_waits(WakesOne)
    /\ WF_vars(Goroutines)

FairSpec == Spec /\ Fairness

-----------------------------------------------------------------------------
(* Every edit that was made is in an open note or in a file, somebody      *)
(* decided to throw it away, or it fell into one of the gaps FallInGap     *)
(* lists: no other step of saves, closes, reloads and writes loses a text  *)
NothingLost ==
    LET made == 1..edits \cup (MaxEdits + 1)..(MaxEdits + foreign)
        shown == UNION {TextOf(page, t) : t \in OpenTabs(page)}
        stored == UNION {file[p] : p \in Paths}
    IN made \subseteq shown \cup stored \cup given \cup gaps

(* What is typed while a save writes stays covered: it is in an open note, *)
(* in a file, or somebody decided to throw it away                         *)
TypedStaysCovered ==
    1..edits \subseteq UNION {TextOf(page, t) : t \in OpenTabs(page)}
                      \cup (UNION {file[p] : p \in Paths}) \cup given

(* A note of a file that is not marked unsaved shows the text its tab      *)
(* takes the file to hold: the next save and the watcher compare with it.  *)
(* The two differ at most in edits that were thrown away or fell in a gap  *)
CleanIsKnown ==
    \A t \in OpenTabs(page) :
        LET tb == page.tab[t]
            x == TextOf(page, t)
        IN tb.path # NoPath /\ ~tb.dirty =>
               tb.sig # NoText /\ (tb.sig \ x) \cup (x \ tb.sig) \subseteq given \cup gaps

(* No two notes own one file: the later save would replace the other's     *)
OneOwner == \A p \in Paths : Cardinality(OwnersOf(page, p)) <= 1

(* A note that stays unsaved is saved by the autosave, unless it is        *)
(* closed, loses its file, is in conflict with it, its save failed, or a   *)
(* dialog waits for the user                                               *)
Unsaved(t) ==
    /\ IsOpen(page, t) /\ page.tab[t].dirty /\ page.tab[t].path # NoPath
    /\ ~page.tab[t].conflict /\ ~page.tab[t].failed
    /\ page.modal = NoModal /\ ~page.native
AutosaveSettles == \A t \in Tabs : Unsaved(t) ~> ~Unsaved(t)
=============================================================================
