--------------------------- MODULE NoteFileProofs ---------------------------
(***************************************************************************)
(* Machine-checked, for every number of notes, files, edits, foreign       *)
(* changes, requests and failures, whichever saves, closes, reloads,       *)
(* agents and slot runs meet:                                              *)
(*  - no two notes own one file (PageInvariant: the page alone, whatever   *)
(*    stands in the queues between the page and Go);                       *)
(*  - no edit gets lost outside the gaps, and a clean note knows its file  *)
(*    (Inv: the texts of the notes, the files, the calls and the answers). *)
(***************************************************************************)
EXTENDS NoteFile, FiniteSetTheorems, TLAPS

USE NoteFileAssumption

TabFields == {"state", "path", "text", "dirty", "sig", "conflict", "prompt",
              "timer", "failed"}
PageFields == {"tab", "active", "editor", "watched", "modal", "native"}

Shape(pg) ==
    /\ DOMAIN pg = PageFields
    /\ DOMAIN pg.tab = Tabs
    /\ \A t \in Tabs : DOMAIN pg.tab[t] = TabFields

\* Two notes that are open and have a file have different ones.
Unique(pg) ==
    \A t, u \in Tabs :
        (/\ pg.tab[t].state = "open" /\ pg.tab[u].state = "open"
         /\ pg.tab[t].path = pg.tab[u].path /\ pg.tab[t].path # NoPath)
        => t = u

Good(pg) == Shape(pg) /\ Unique(pg)

\* Notes may have been closed and lost their files, but no more.
Shrinks(pg, q) ==
    \A t \in Tabs :
        q.tab[t].state = "open"
            => pg.tab[t].state = "open" /\ q.tab[t].path \in {pg.tab[t].path, NoPath}

LEMMA ShrunkIsGood ==
  ASSUME NEW pg, Good(pg), NEW q, Shape(q), Shrinks(pg, q)
  PROVE  Good(q)
  <1>1. ASSUME NEW t \in Tabs, NEW u \in Tabs,
               q.tab[t].state = "open", q.tab[u].state = "open",
               q.tab[t].path = q.tab[u].path, q.tab[t].path # NoPath
        PROVE  t = u
    BY <1>1 DEF Good, Unique, Shrinks
  <1> QED BY <1>1 DEF Good, Unique

-----------------------------------------------------------------------------
(* The operators of the page *)

LEMMA ArmGood == ASSUME NEW pg, Good(pg), NEW t PROVE Good(Arm(pg, t))
  <1>1. Shape(Arm(pg, t)) /\ Shrinks(pg, Arm(pg, t))
    BY DEF Good, Shape, Shrinks, Arm, PageFields, TabFields
  <1> QED BY <1>1, ShrunkIsGood

LEMMA RememberGood ==
  ASSUME NEW pg, Good(pg), NEW t, NEW x
  PROVE  Good(Remember(pg, t, x)) /\ Shape(Remember(pg, t, x))
         /\ \A u \in Tabs : /\ Remember(pg, t, x).tab[u].state = pg.tab[u].state
                            /\ Remember(pg, t, x).tab[u].path = pg.tab[u].path
  <1>1. /\ Shape(Remember(pg, t, x)) /\ Shrinks(pg, Remember(pg, t, x))
        /\ \A u \in Tabs : /\ Remember(pg, t, x).tab[u].state = pg.tab[u].state
                           /\ Remember(pg, t, x).tab[u].path = pg.tab[u].path
    BY DEF Good, Shape, Shrinks, Remember, PageFields, TabFields
  <1> QED BY <1>1, ShrunkIsGood

LEMMA SelectTabGood == ASSUME NEW pg, Good(pg), NEW t PROVE Good(SelectTab(pg, t))
  <1>1. Shape(SelectTab(pg, t)) /\ Shrinks(pg, SelectTab(pg, t))
    BY DEF Good, Shape, Shrinks, SelectTab, IsOpen, PageFields, TabFields
  <1> QED BY <1>1, ShrunkIsGood

LEMMA RemoveTabsGood == ASSUME NEW pg, Good(pg), NEW S PROVE Good(RemoveTabs(pg, S))
  <1> DEFINE closed == [pg EXCEPT !.tab = [t \in Tabs |->
                           IF t \in S /\ IsOpen(pg, t)
                           THEN [pg.tab[t] EXCEPT !.state = "closed", !.timer = FALSE]
                           ELSE pg.tab[t]]]
             none == [closed EXCEPT !.active = NoTab]
             empty == [closed EXCEPT !.active = NoTab, !.editor = {}]
  <1>1. Shape(closed) /\ Shrinks(pg, closed)
    BY DEF Good, Shape, Shrinks, PageFields, TabFields
  <1>2. Good(closed)
    BY <1>1, ShrunkIsGood
  <1> HIDE DEF closed
  <1>3. Shape(none) /\ Shrinks(closed, none) /\ Shape(empty) /\ Shrinks(closed, empty)
    BY <1>2 DEF Good, Shape, Shrinks, PageFields
  <1>4. Good(none) /\ Good(empty)
    BY <1>2, <1>3, ShrunkIsGood
  <1>5. RemoveTabs(pg, S) \in {closed, empty}
          \/ \E t : RemoveTabs(pg, S) = SelectTab(none, t)
    BY DEF RemoveTabs, closed
  <1> HIDE DEF none, empty
  <1> QED BY <1>2, <1>4, <1>5, SelectTabGood

\* The tab that is closed is closed.
LEMMA RemoveTabsShrinks ==
  ASSUME NEW pg, Good(pg), NEW S PROVE Shrinks(pg, RemoveTabs(pg, S))
         /\ \A t \in S \cap Tabs : RemoveTabs(pg, S).tab[t].state # "open"
  BY DEF Good, Shape, Shrinks, RemoveTabs, SelectTab, IsOpen, PageFields, TabFields

LEMMA AdoptGood == ASSUME NEW pg, Good(pg), NEW t, NEW x PROVE Good(Adopt(pg, t, x))
  <1> DEFINE r == Remember(pg, t, x)
             q == [r EXCEPT !.tab[t].text = x, !.editor = IF pg.active = t THEN x ELSE @]
  <1>1. Good(r)
    BY RememberGood
  <1> HIDE DEF r
  <1>2. Shape(q) /\ Shrinks(r, q)
    BY <1>1 DEF Good, Shape, Shrinks, PageFields, TabFields
  <1>3. Good(q)
    BY <1>1, <1>2, ShrunkIsGood
  <1>4. Adopt(pg, t, x) \in {pg, r, q}
    BY DEF Adopt, r
  <1> HIDE DEF q
  <1> QED BY <1>1, <1>3, <1>4

LEMMA ReconcileGood == ASSUME NEW pg, Good(pg), NEW t, NEW x PROVE Good(Reconcile(pg, t, x))
  <1> DEFINE q == [pg EXCEPT !.tab[t].conflict = @ \/ pg.tab[t].sig # NoText]
  <1>1. Shape(q) /\ Shrinks(pg, q)
    BY DEF Good, Shape, Shrinks, PageFields, TabFields
  <1>2. Good(q)
    BY <1>1, ShrunkIsGood
  <1>3. Reconcile(pg, t, x) \in {pg, q, Adopt(pg, t, x)}
    BY DEF Reconcile
  <1> HIDE DEF q
  <1> QED BY <1>2, <1>3, AdoptGood

LEMMA MarkSavedUpToGood ==
  ASSUME NEW pg, Good(pg), NEW t, NEW x PROVE Good(MarkSavedUpTo(pg, t, x))
  <1> DEFINE dirty == IsOpen(pg, t) /\ TextOf(pg, t) # x
             marked == [pg EXCEPT !.tab[t].dirty = dirty, !.tab[t].failed = FALSE]
  <1>1. Shape(marked) /\ Shrinks(pg, marked)
    BY DEF Good, Shape, Shrinks, PageFields, TabFields
  <1>2. Good(marked)
    BY <1>1, ShrunkIsGood
  <1>3. MarkSavedUpTo(pg, t, x) \in {marked, Arm(marked, t)}
    BY DEF MarkSavedUpTo
  <1> HIDE DEF marked
  <1> QED BY <1>2, <1>3, ArmGood

\* Afterwards nobody but t owns p.
LEMMA ReleasePathGood ==
  ASSUME NEW pg, Good(pg), NEW t, NEW p
  PROVE  /\ Good(ReleasePath(pg, t, p))
         /\ \A u \in Tabs : (/\ ReleasePath(pg, t, p).tab[u].state = "open"
                             /\ ReleasePath(pg, t, p).tab[u].path = p /\ p # NoPath)
                            => u = t
  <1> DEFINE others == OwnersOf(pg, p) \ {t}
             kept == {o \in others : HasUnsavedText(pg, o)}
             free == [pg EXCEPT
                        !.tab = [o \in Tabs |-> IF o \in kept
                                 THEN [pg.tab[o] EXCEPT !.path = NoPath, !.dirty = TRUE]
                                 ELSE pg.tab[o]],
                        !.watched = IF pg.active \in kept THEN NoPath ELSE @]
  <1>1. kept \subseteq Tabs
    BY DEF OwnersOf, OpenTabs
  <1>2. /\ Shape(free) /\ Shrinks(pg, free)
        /\ \A u \in Tabs \ kept : free.tab[u] = pg.tab[u]
        /\ \A u \in kept : free.tab[u].path = NoPath
    <2> HIDE DEF kept
    <2> QED BY <1>1 DEF Good, Shape, Shrinks, PageFields, TabFields
  <1>3. Good(free)
    BY <1>2, ShrunkIsGood
  <1>4. ReleasePath(pg, t, p) = RemoveTabs(free, others \ kept)
    BY DEF ReleasePath
  <1>5. ASSUME NEW u \in Tabs, free.tab[u].state = "open", free.tab[u].path = p,
               p # NoPath, u # t
        PROVE  u \in others \ kept
    <2>1. u \notin kept
      BY <1>2, <1>5
    <2>2. pg.tab[u].state = "open" /\ pg.tab[u].path = p
      BY <1>2, <1>5, <2>1
    <2> QED BY <2>1, <2>2, <1>5 DEF OwnersOf, OpenTabs, IsOpen
  <1> HIDE DEF free, others, kept
  <1>6. Good(RemoveTabs(free, others \ kept))
    BY <1>3, RemoveTabsGood
  <1>7. ASSUME NEW u \in Tabs, RemoveTabs(free, others \ kept).tab[u].state = "open",
               RemoveTabs(free, others \ kept).tab[u].path = p, p # NoPath
        PROVE  u = t
    BY <1>7, <1>3, <1>5, RemoveTabsShrinks DEF Shrinks
  <1> QED BY <1>4, <1>6, <1>7

\* A tab that is opened on a file nobody owns, or on none.
LEMMA NewTabGood ==
  ASSUME NEW pg, Good(pg), NEW t, NEW p, NEW x, NEW d,
         p = NoPath \/ OwnersOf(pg, p) = {}
  PROVE  Good(NewTab(pg, t, p, x, d))
  <1> DEFINE q == NewTab(pg, t, p, x, d)
  <1>1. /\ Shape(q)
        /\ \A u \in Tabs : q.tab[u].state = "open" => pg.tab[u].state = "open" \/ u = t
        /\ \A u \in Tabs : q.tab[u].path = IF u = t THEN p ELSE pg.tab[u].path
    <2> DEFINE new == [pg.tab[t] EXCEPT !.state = "open", !.path = p, !.text = x,
                                        !.dirty = d,
                                        !.sig = IF p = NoPath THEN NoText ELSE x]
    <2>1. q = [pg EXCEPT !.tab[t] = new]
      BY DEF NewTab
    <2>2. t \in Tabs => DOMAIN new = TabFields /\ new.path = p
      BY DEF Good, Shape, TabFields
    <2> HIDE DEF new, q
    <2>3. q.tab = [pg.tab EXCEPT ![t] = new] /\ DOMAIN q = PageFields
      BY <2>1 DEF Good, Shape, PageFields
    <2>4. DOMAIN q.tab = Tabs
      BY <2>3 DEF Good, Shape
    <2>5. \A u \in Tabs : q.tab[u] = IF u = t THEN new ELSE pg.tab[u]
      BY <2>3 DEF Good, Shape
    <2>6. Shape(q)
      BY <2>2, <2>3, <2>4, <2>5 DEF Good, Shape
    <2> QED BY <2>2, <2>5, <2>6
  <1>2. p # NoPath => \A u \in Tabs : ~(pg.tab[u].state = "open" /\ pg.tab[u].path = p)
    BY DEF OwnersOf, OpenTabs, IsOpen
  <1> HIDE DEF q
  <1>3. ASSUME NEW a \in Tabs, NEW b \in Tabs,
               q.tab[a].state = "open", q.tab[b].state = "open",
               q.tab[a].path = q.tab[b].path, q.tab[a].path # NoPath
        PROVE  a = b
    BY <1>1, <1>2, <1>3 DEF Good, Unique
  <1> QED BY <1>1, <1>3 DEF Good, Unique, q

LEMMA AfterSaveGood ==
  ASSUME NEW pg, Good(pg), NEW t, NEW kind, NEW ok PROVE Good(AfterSave(pg, t, kind, ok))
  <1> DEFINE q == [pg EXCEPT !.tab[t].prompt = FALSE]
             lifted == IF kind = "close" THEN q ELSE pg
  <1>1. Shape(q) /\ Shrinks(pg, q)
    BY DEF Good, Shape, Shrinks, PageFields, TabFields
  <1>2. Good(lifted)
    BY <1>1, ShrunkIsGood
  <1>3. AfterSave(pg, t, kind, ok) \in {pg, lifted, RemoveTabs(lifted, {t}), Arm(lifted, t)}
    BY DEF AfterSave
  <1> HIDE DEF lifted
  <1> QED BY <1>2, <1>3, RemoveTabsGood, ArmGood

LEMMA ReloadGood ==
  ASSUME NEW pg, Good(pg), NEW t, NEW mine, NEW x PROVE Good(Reload(pg, t, mine, x))
  <1> DEFINE saved == IF x = mine THEN pg ELSE NewTab(pg, Fresh(pg), NoPath, mine, TRUE)
             q == [saved EXCEPT !.tab[t].dirty = FALSE, !.tab[t].text = mine]
  <1>1. Good(saved)
    BY NewTabGood
  <1>2. Reload(pg, t, mine, x) = Adopt(q, t, x)
    BY DEF Reload
  <1> HIDE DEF saved
  <1>3. Shape(q) /\ Shrinks(saved, q)
    BY <1>1 DEF Good, Shape, Shrinks, PageFields, TabFields
  <1>4. Good(q)
    BY <1>1, <1>3, ShrunkIsGood
  <1> HIDE DEF q
  <1> QED BY <1>2, <1>4, AdoptGood

\* A text is written to p: p becomes t's file.
LEMMA BindGood ==
  ASSUME NEW pg, Good(pg), NEW t, NEW p, NEW q, Shape(q),
         \A u \in Tabs : q.tab[u].state = ReleasePath(pg, t, p).tab[u].state,
         \A u \in Tabs : q.tab[u].path =
             IF u = t THEN p ELSE ReleasePath(pg, t, p).tab[u].path
  PROVE  Good(q)
  <1> DEFINE free == ReleasePath(pg, t, p)
  <1>1. /\ Good(free)
        /\ \A u \in Tabs : (/\ free.tab[u].state = "open"
                            /\ free.tab[u].path = p /\ p # NoPath) => u = t
    BY ReleasePathGood
  <1>2. /\ \A u \in Tabs : q.tab[u].state = free.tab[u].state
        /\ \A u \in Tabs : q.tab[u].path = IF u = t THEN p ELSE free.tab[u].path
    OBVIOUS
  <1> HIDE DEF free
  <1>3. ASSUME NEW a \in Tabs, NEW b \in Tabs,
               q.tab[a].state = "open", q.tab[b].state = "open",
               q.tab[a].path = q.tab[b].path, q.tab[a].path # NoPath
        PROVE  a = b
    BY <1>1, <1>2, <1>3 DEF Good, Unique
  <1> QED BY <1>3 DEF Good, Unique

LEMMA CommitSaveGood ==
  ASSUME NEW pg, Good(pg), NEW t, NEW p, NEW x PROVE Good(CommitSave(pg, t, p, x))
  <1> DEFINE free == ReleasePath(pg, t, p)
             known == Remember(free, t, x)
             q == [known EXCEPT !.tab[t].path = p, !.tab[t].dirty = FALSE,
                                !.watched = IF pg.active = t THEN p ELSE @]
  <1>1. CommitSave(pg, t, p, x) \in {pg, q}
    BY DEF CommitSave
  <1>2. Good(free)
    BY ReleasePathGood
  <1>3. Shape(known) /\ \A u \in Tabs : /\ known.tab[u].state = free.tab[u].state
                                        /\ known.tab[u].path = free.tab[u].path
    <2> HIDE DEF free
    <2> QED BY <1>2, RememberGood
  <1>4. /\ Shape(q)
        /\ \A u \in Tabs : q.tab[u].state = known.tab[u].state
        /\ \A u \in Tabs : q.tab[u].path = IF u = t THEN p ELSE known.tab[u].path
    <2> HIDE DEF known
    <2> QED BY <1>3 DEF Shape, PageFields, TabFields
  <1> HIDE DEF q, known
  <1>5. Good(q)
    BY <1>3, <1>4, BindGood
  <1> QED BY <1>1, <1>5

-----------------------------------------------------------------------------
(* The steps *)

LEMMA BeginSaveGood ==
  ASSUME NEW pg, Good(pg), NEW t, NEW kind, NEW force, BeginSave(pg, t, kind, force)
  PROVE  Good(page')
  <1> DEFINE now == TextOf(pg, t)
             synced == [pg EXCEPT !.tab[t].text = now]
  <1>1. Shape(synced) /\ Shrinks(pg, synced)
    BY DEF Good, Shape, Shrinks, PageFields, TabFields
  <1>2. Good(synced)
    BY <1>1, ShrunkIsGood
  <1>3. page' = AfterSave(synced, t, kind, FALSE)
          \/ \E b : page' = [synced EXCEPT !.native = b]
    BY DEF BeginSave
  <1> HIDE DEF synced
  <1>4. ASSUME NEW b PROVE Good([synced EXCEPT !.native = b])
    <2>1. /\ Shape([synced EXCEPT !.native = b])
          /\ Shrinks(synced, [synced EXCEPT !.native = b])
      BY <1>2 DEF Good, Shape, Shrinks, PageFields
    <2> QED BY <1>2, <2>1, ShrunkIsGood
  <1>5. CASE page' = AfterSave(synced, t, kind, FALSE)
    BY <1>2, <1>5, AfterSaveGood
  <1>6. CASE \E b : page' = [synced EXCEPT !.native = b]
    BY <1>4, <1>6
  <1> QED BY <1>3, <1>5, <1>6

LEMMA SaveTabGood ==
  ASSUME NEW pg, Good(pg), NEW t, NEW kind, SaveTab(pg, t, kind)
  PROVE  Good(page')
  BY BeginSaveGood DEF SaveTab

LEMMA EditGood == ASSUME Good(page), NEW t \in Tabs, Edit(t) PROVE Good(page')
  <1> DEFINE x == TextOf(page, t) \cup {edits + 1}
             typed == [page EXCEPT !.tab[t].text = x, !.tab[t].dirty = TRUE,
                                   !.editor = IF page.active = t THEN x ELSE @]
  <1>1. Shape(typed) /\ Shrinks(page, typed)
    BY DEF Good, Shape, Shrinks, PageFields, TabFields
  <1>2. Good(typed)
    BY <1>1, ShrunkIsGood
  <1>3. page' = Arm(typed, t)
    BY DEF Edit
  <1> HIDE DEF typed
  <1> QED BY <1>2, <1>3, ArmGood

LEMMA TimerFiresGood == ASSUME Good(page), NEW t \in Tabs, TimerFires(t) PROVE Good(page')
  <1> DEFINE off == [page EXCEPT !.tab[t].timer = FALSE]
  <1>1. Shape(off) /\ Shrinks(page, off)
    BY DEF Good, Shape, Shrinks, PageFields, TabFields
  <1>2. Good(off)
    BY <1>1, ShrunkIsGood
  <1>3. SaveTab(off, t, "auto") \/ page' = off
    BY DEF TimerFires
  <1> HIDE DEF off
  <1> QED BY <1>2, <1>3, SaveTabGood

LEMMA CloseGood == ASSUME Good(page), NEW t \in Tabs, Close(t) PROVE Good(page')
  <1> DEFINE kind == IF page.tab[t].prompt THEN "reclose" ELSE "close"
             asked == [page EXCEPT !.tab[t].prompt = TRUE,
                         !.modal = [kind |-> "close", t |-> t, save |-> kind, keep |-> {}]]
  <1>1. Shape(asked) /\ Shrinks(page, asked)
    BY DEF Good, Shape, Shrinks, PageFields, TabFields
  <1>2. Good(asked)
    BY <1>1, ShrunkIsGood
  <1>3. page' \in {RemoveTabs(page, {t}), asked, AfterSave(page, t, kind, FALSE)}
    BY DEF Close
  <1> PICK ok : ok = FALSE
    OBVIOUS
  <1>4. Good(AfterSave(page, t, kind, ok))
    BY AfterSaveGood
  <1>5. Good(RemoveTabs(page, {t}))
    BY RemoveTabsGood
  <1> HIDE DEF asked, kind
  <1> QED BY <1>2, <1>3, <1>4, <1>5

LEMMA ClosedDialogGood == Good(page) => Good([page EXCEPT !.modal = NoModal])
  <1> SUFFICES ASSUME Good(page) PROVE Good([page EXCEPT !.modal = NoModal])
    OBVIOUS
  <1>1. Shape([page EXCEPT !.modal = NoModal])
        /\ Shrinks(page, [page EXCEPT !.modal = NoModal])
    BY DEF Good, Shape, Shrinks, PageFields
  <1> QED BY <1>1, ShrunkIsGood

LEMMA AnswerCloseGood ==
  ASSUME Good(page), NEW choice \in {"cancel", "dontsave", "save"}, AnswerClose(choice)
  PROVE  Good(page')
  <1> DEFINE t == page.modal.t
             kind == page.modal.save
             closed == [page EXCEPT !.modal = NoModal]
  <1>1. Good(closed)
    BY ClosedDialogGood
  <1>2. \/ \E ok : page' = AfterSave(closed, t, kind, ok)
        \/ SaveTab(closed, t, kind)
    BY DEF AnswerClose
  <1> HIDE DEF closed
  <1> QED BY <1>1, <1>2, AfterSaveGood, SaveTabGood

LEMMA AnswerConflictGood ==
  ASSUME Good(page), NEW choice \in {"cancel", "saveas", "reload", "overwrite"},
         AnswerConflict(choice)
  PROVE  Good(page')
  <1> DEFINE t == page.modal.t
             kind == page.modal.save
             closed == [page EXCEPT !.modal = NoModal]
  <1>1. Good(closed)
    BY ClosedDialogGood
  <1>2. \/ page' = AfterSave(closed, t, kind, FALSE)
        \/ BeginSave(closed, t, kind, TRUE)
        \/ page' = closed
    BY DEF AnswerConflict
  <1> HIDE DEF closed
  <1> QED BY <1>1, <1>2, AfterSaveGood, BeginSaveGood

LEMMA SavedGood == Good(page) /\ Saved => Good(page')
  <1> SUFFICES ASSUME Good(page), Saved PROVE Good(page')
    OBVIOUS
  <1> DEFINE a == Head(answers)
             free == ReleasePath(page, a.t, a.p)
             bound == [free EXCEPT !.tab[a.t].path = a.p, !.native = FALSE]
             owned == IF a.op = "savedas" THEN bound ELSE page
             marked == MarkSavedUpTo(Remember(owned, a.t, a.x), a.t, a.keep)
  <1>1. page' = AfterSave(marked, a.t, a.kind, TRUE)
    BY DEF Saved
  <1>2. Good(bound)
    <2>1. Good(free)
      BY ReleasePathGood
    <2>2. /\ Shape(bound)
          /\ \A u \in Tabs : bound.tab[u].state = free.tab[u].state
          /\ \A u \in Tabs : bound.tab[u].path =
                IF u = a.t THEN a.p ELSE free.tab[u].path
      <3> HIDE DEF free, a
      <3> QED BY <2>1 DEF Good, Shape, PageFields, TabFields
    <2> HIDE DEF bound, a
    <2> QED BY <2>2, BindGood
  <1>3. Good(owned)
    BY <1>2
  <1> HIDE DEF owned, a
  <1> QED BY <1>1, <1>3, RememberGood, MarkSavedUpToGood, AfterSaveGood

LEMMA NothingWrittenGood == Good(page) /\ NothingWritten => Good(page')
  <1> DEFINE a == Head(answers)
             known == Remember(page, a.t, page.tab[a.t].text)
  <1> SUFFICES ASSUME Good(page), NothingWritten PROVE Good(page')
    OBVIOUS
  <1>1. Good(known)
    BY RememberGood
  <1>2. page' = AfterSave(MarkSavedUpTo(known, a.t, a.keep), a.t, a.kind, TRUE)
    BY DEF NothingWritten
  <1> HIDE DEF known
  <1> QED BY <1>1, <1>2, MarkSavedUpToGood, AfterSaveGood

LEMMA NotSavedGood == Good(page) /\ NotSaved => Good(page')
  <1> SUFFICES ASSUME Good(page), NotSaved PROVE Good(page')
    OBVIOUS
  <1> DEFINE a == Head(answers)
             failed == [page EXCEPT !.tab[a.t].failed = TRUE]
             canceled == [page EXCEPT !.native = FALSE]
  <1>1. /\ Shape(failed) /\ Shrinks(page, failed)
        /\ Shape(canceled) /\ Shrinks(page, canceled)
    <2> HIDE DEF a
    <2> QED BY DEF Good, Shape, Shrinks, PageFields, TabFields
  <1>2. Good(failed) /\ Good(canceled)
    BY <1>1, ShrunkIsGood
  <1>3. \E told \in {failed, canceled, page} : page' = AfterSave(told, a.t, a.kind, FALSE)
    BY DEF NotSaved, Handle
  <1> HIDE DEF failed, canceled, a
  <1> QED BY <1>2, <1>3, AfterSaveGood

LEMMA ConflictGood == Good(page) /\ Conflict => Good(page')
  <1> SUFFICES ASSUME Good(page), Conflict PROVE Good(page')
    OBVIOUS
  <1> DEFINE a == Head(answers)
             dialog == [kind |-> "conflict", t |-> a.t, save |-> a.kind, keep |-> a.keep]
             paused == [page EXCEPT !.tab[a.t].conflict = TRUE]
             asked == [page EXCEPT !.modal = dialog]
  <1>1. /\ Shape(paused) /\ Shrinks(page, paused)
        /\ Shape(asked) /\ Shrinks(page, asked)
    <2> HIDE DEF a, dialog
    <2> QED BY DEF Good, Shape, Shrinks, PageFields, TabFields
  <1>2. Good(paused) /\ Good(asked)
    BY <1>1, ShrunkIsGood
  <1>3. page' \in {paused, asked, AfterSave(page, a.t, a.kind, FALSE)}
    BY DEF Conflict
  <1> HIDE DEF paused, asked, a
  <1> QED BY <1>2, <1>3, AfterSaveGood

LEMMA ReloadedGood == Good(page) /\ Reloaded => Good(page')
  <1> SUFFICES ASSUME Good(page), Reloaded PROVE Good(page')
    OBVIOUS
  <1> DEFINE a == Head(answers)
             fresh == Reload(page, a.t, a.keep, a.x)
  <1>1. page' = AfterSave(fresh, a.t, a.kind, FALSE)
    BY DEF Reloaded
  <1>2. Good(fresh)
    <2> HIDE DEF a
    <2> QED BY ReloadGood
  <1> HIDE DEF fresh, a
  <1> QED BY <1>1, <1>2, AfterSaveGood

LEMMA TextReadGood == Good(page) /\ TextRead => Good(page')
  <1> SUFFICES ASSUME Good(page), TextRead PROVE Good(page')
    OBVIOUS
  <1> DEFINE a == Head(answers)
             owner == CHOOSE t \in OwnersOf(page, a.p) : TRUE
             new == Fresh(page)
             opened == NewTab(page, new, a.p, a.x, FALSE)
  <1>1. OwnersOf(page, a.p) = {} => Good(opened)
    BY NewTabGood
  <1>2. \/ page' = Reconcile(page, owner, a.x)
        \/ page' = SelectTab(Adopt(page, owner, a.x), owner)
        \/ OwnersOf(page, a.p) = {} /\ page' = SelectTab(opened, new)
        \/ page' = SelectTab(Adopt(page, a.t, a.x), a.t)
        \/ page' = RemoveTabs(page, {a.t})
        \/ page' = page
    BY DEF TextRead
  <1> HIDE DEF a, owner, new, opened
  <1> QED BY <1>1, <1>2, ReconcileGood, AdoptGood, SelectTabGood, RemoveTabsGood

LEMMA RpcCommitGood == Good(page) /\ RpcCommit => Good(page')
  BY CommitSaveGood DEF RpcCommit

LEMMA RunStartGood == Good(page) /\ RunStart => Good(page')
  <1> SUFFICES ASSUME Good(page), RunStart PROVE Good(page')
    OBVIOUS
  <1> DEFINE t == page.active
             x == TextOf(page, t)
             known == Remember(page, t, x)
             marked == [known EXCEPT !.tab[t].text = x, !.tab[t].dirty = TRUE]
  <1>1. Good(known)
    BY RememberGood
  <1>2. page' = Arm(marked, t)
    BY DEF RunStart
  <1> HIDE DEF known, x, t
  <1>3. Shape(marked) /\ Shrinks(known, marked)
    BY <1>1 DEF Good, Shape, Shrinks, PageFields, TabFields
  <1>4. Good(marked)
    BY <1>1, <1>3, ShrunkIsGood
  <1> HIDE DEF marked
  <1> QED BY <1>2, <1>4, ArmGood

-----------------------------------------------------------------------------
(* The theorem *)

LEMMA Initial == Init => Good(page)
  <1> SUFFICES ASSUME Init PROVE Good(page)
    OBVIOUS
  <1>1. Shape(page)
    BY DEF Init, Shape, PageFields, TabFields
  <1>2. \A t \in Tabs : page.tab[t].path # NoPath => t = FirstTab
    BY DEF Init
  <1> QED BY <1>1, <1>2 DEF Good, Unique

LEMMA UsersGood == Good(page) /\ Users => Good(page')
  <1> SUFFICES ASSUME Good(page), Users PROVE Good(page')
    OBVIOUS
  <1>1. ASSUME NEW t \in Tabs, Edit(t) \/ Select(t) \/ Close(t) \/ RpcClose(t)
        PROVE  Good(page')
    BY <1>1, EditGood, CloseGood, SelectTabGood DEF Select, RpcClose
  <1>2. ASSUME NEW p \in Paths, Open(p) \/ Foreign(p) \/ ScrapAppended(p)
        PROVE  Good(page')
    BY <1>2, SelectTabGood DEF Open, Foreign, ScrapAppended
  <1>3. ASSUME NEW t \in Tabs, NEW p \in Paths, RpcPrepare(t, p) PROVE Good(page')
    BY <1>3 DEF RpcPrepare
  <1>4. CASE Save
    BY <1>4, SaveTabGood DEF Save
  <1> QED BY <1>1, <1>2, <1>3, <1>4, RunStartGood, AnswerCloseGood,
             AnswerConflictGood DEF Users

LEMMA Inductive == Good(page) /\ [Next]_vars => Good(page')
  <1> SUFFICES ASSUME Good(page), [Next]_vars PROVE Good(page')
    OBVIOUS
  <1>1. CASE UNCHANGED vars
    BY <1>1 DEF vars
  <1>2. CASE Timers
    BY <1>2, TimerFiresGood DEF Timers, WatcherFires
  <1>3. CASE Waiters
    <2>1. PICK t \in Tabs, kind \in {"auto", "manual", "close", "reclose"} :
             StopWaiting(t, kind)
      BY <1>3 DEF Waiters
    <2> QED BY <2>1, BeginSaveGood DEF StopWaiting
  <1>4. CASE UiThread
    BY <1>4 DEF UiThread, ServeSave, ServeSaveAs, ServeRead, Serve
  <1>5. CASE Answers
    BY <1>5, SavedGood, NothingWrittenGood, NotSavedGood, ConflictGood, ReloadedGood, TextReadGood,
       RpcCommitGood DEF Answers
  <1>6. CASE Goroutines
    BY <1>6 DEF Goroutines, RpcWrite, RunWrite
  <1> QED BY <1>1, <1>2, <1>3, <1>4, <1>5, <1>6, UsersGood DEF Next

\* The invariant holds over every run of typing, saves, closes, dialogs, reads,
\* agents and slot runs (app.js: releasePathFromOtherTabs and its callers).
THEOREM PageInvariant == Spec => []Good(page)
  <1>1. Init => Good(page)
    BY Initial
  <1>2. Good(page) /\ [Next]_vars => Good(page)'
    <2>1. Good(page)' <=> Good(page')
      BY DEF Good, Shape, Unique
    <2> QED BY <2>1, Inductive
  <1> QED BY <1>1, <1>2, PTL DEF Spec

\* No two notes own one file, so that no save replaces what another note keeps
\* there: for every number of notes and files, whatever waits in the queues.
THEOREM OneOwnerAlways == Spec => []OneOwner
  <1>1. Good(page) => OneOwner
    <2> SUFFICES ASSUME Good(page), NEW p \in Paths
                 PROVE  Cardinality(OwnersOf(page, p)) <= 1
      BY DEF OneOwner
    <2>1. OwnersOf(page, p) \subseteq Tabs
      BY DEF OwnersOf, OpenTabs
    <2>2. \A t, u \in OwnersOf(page, p) : t = u
      BY DEF Good, Unique, OwnersOf, OpenTabs, IsOpen
    <2>3. CASE OwnersOf(page, p) = {}
      <3>1. Cardinality({}) = 0
        BY FS_EmptySet
      <3> QED BY <2>3, <3>1
    <2>4. CASE OwnersOf(page, p) # {}
      <3>1. PICK t : t \in OwnersOf(page, p)
        BY <2>4
      <3>2. OwnersOf(page, p) = {t}
        BY <2>2, <3>1
      <3>3. Cardinality({t}) = 1
        BY FS_Singleton
      <3> QED BY <3>2, <3>3
    <2> QED BY <2>3, <2>4
  <1> QED BY <1>1, PageInvariant, PTL

-----------------------------------------------------------------------------
(* What follows says of every text that is on its way, shown or stored how *)
(* it relates to the others, up to the edits that were thrown away or fell *)
(* into a gap.                                                             *)

Text == SUBSET (1..(MaxEdits + MaxForeign))
Gone == given \cup gaps
Within(x, y) == x \subseteq y \cup Gone

Kinds == {"auto", "manual", "close", "reclose", "none"}
Saves == {"save", "saveas"}
Adopted == {"seen", "open", "refresh"}
FromFile == {"saved", "savedas", "commit", "seen", "open", "refresh", "reload", "rpcclose"}
\* What the end of a save for a note waits for.
Pends == {"save", "saveas", "reload", "saved", "savedas", "conflict", "failed",
          "canceled", "unread", "unwritten"}
Opens == {"open", "reload"}
Ops == Saves \cup FromFile \cup Pends

CallType == [op : Ops, t : Tabs \cup {NoTab}, p : Paths \cup {NoPath}, x : Text,
             keep : Text, kind : Kinds, sig : Text \cup {NoText}]
ModalType == [kind : {"none", "close", "conflict"}, t : Tabs \cup {NoTab},
              save : Kinds, keep : Text]
RpcType == [pc : {"idle", "write", "commit"}, t : Tabs \cup {NoTab},
            p : Paths \cup {NoPath}, x : Text, own : Paths \cup {NoPath},
            sig : Text \cup {NoText}]

Elems(q) == {q[i] : i \in DOMAIN q}

LEMMA ElemsOfAppend ==
  ASSUME NEW S, NEW q \in Seq(S), NEW c \in S
  PROVE  Append(q, c) \in Seq(S) /\ Elems(Append(q, c)) = Elems(q) \cup {c}
  <1>1. /\ Len(Append(q, c)) = Len(q) + 1 /\ Len(q) \in Nat
        /\ \A i \in 1..Len(q) : Append(q, c)[i] = q[i]
        /\ Append(q, c)[Len(q) + 1] = c /\ Append(q, c) \in Seq(S)
    OBVIOUS
  <1>2. DOMAIN q = 1..Len(q) /\ DOMAIN Append(q, c) = 1..(Len(q) + 1)
    BY <1>1
  <1> QED BY <1>1, <1>2 DEF Elems

LEMMA ElemsOfTail ==
  ASSUME NEW S, NEW q \in Seq(S), q # <<>>
  PROVE  /\ Tail(q) \in Seq(S) /\ Head(q) \in Elems(q) /\ Head(q) \in S
         /\ Elems(Tail(q)) \subseteq Elems(q) /\ Elems(q) \subseteq Elems(Tail(q)) \cup {Head(q)}
         /\ Head(q) = q[1] /\ 1 \in DOMAIN q
         /\ \A i \in DOMAIN Tail(q) : i + 1 \in DOMAIN q /\ Tail(q)[i] = q[i + 1] /\ i \in Nat /\ i >= 1
  <1>1. /\ Len(q) \in Nat /\ Len(q) >= 1 /\ Len(Tail(q)) = Len(q) - 1 /\ Head(q) = q[1]
        /\ \A i \in 1..(Len(q) - 1) : Tail(q)[i] = q[i + 1]
        /\ Tail(q) \in Seq(S)
    OBVIOUS
  <1>2. DOMAIN q = 1..Len(q) /\ DOMAIN Tail(q) = 1..(Len(q) - 1)
    BY <1>1
  <1>3. \A i \in DOMAIN q : q[i] = Head(q) \/ q[i] \in Elems(Tail(q))
    <2> SUFFICES ASSUME NEW i \in DOMAIN q, i # 1 PROVE q[i] \in Elems(Tail(q))
      BY <1>1
    <2>1. i - 1 \in DOMAIN Tail(q) /\ Tail(q)[i - 1] = q[i]
      BY <1>1, <1>2
    <2> QED BY <2>1 DEF Elems
  <1>4. Head(q) \in Elems(q) /\ Head(q) \in S
    BY <1>1, <1>2 DEF Elems
  <1>5. \A i \in DOMAIN Tail(q) : i + 1 \in DOMAIN q /\ Tail(q)[i] = q[i + 1] /\ i \in Nat /\ i >= 1
    BY <1>1, <1>2
  <1>6. Elems(Tail(q)) \subseteq Elems(q)
    BY <1>5 DEF Elems
  <1>7. Elems(q) \subseteq Elems(Tail(q)) \cup {Head(q)}
    BY <1>3 DEF Elems
  <1> QED BY <1>1, <1>2, <1>4, <1>5, <1>6, <1>7

\* Of what a note waits for there is one thing in the queue at most, or none.
PendingIn(q, t) == {i \in DOMAIN q : q[i].op \in Pends /\ q[i].t = t}
Single(q, t) == \A i, j \in PendingIn(q, t) : i = j

LEMMA PendingOfAppend ==
  ASSUME NEW S, NEW q \in Seq(S), NEW c \in S, NEW t
  PROVE  /\ PendingIn(Append(q, c), t) = PendingIn(q, t) \cup
              (IF c.op \in Pends /\ c.t = t THEN {Len(q) + 1} ELSE {})
         /\ PendingIn(q, t) = {} => Single(Append(q, c), t)
         /\ Single(q, t) /\ ~(c.op \in Pends /\ c.t = t) => Single(Append(q, c), t)
  <1>1. /\ Len(Append(q, c)) = Len(q) + 1 /\ Len(q) \in Nat
        /\ \A i \in 1..Len(q) : Append(q, c)[i] = q[i]
        /\ Append(q, c)[Len(q) + 1] = c
    OBVIOUS
  <1>2. DOMAIN q = 1..Len(q) /\ DOMAIN Append(q, c) = 1..(Len(q) + 1)
    BY <1>1
  <1>3. PendingIn(Append(q, c), t) = PendingIn(q, t) \cup
              (IF c.op \in Pends /\ c.t = t THEN {Len(q) + 1} ELSE {})
    BY <1>1, <1>2 DEF PendingIn
  <1> QED BY <1>3 DEF Single

LEMMA PendingOfTail ==
  ASSUME NEW S, NEW q \in Seq(S), q # <<>>, NEW t, Single(q, t)
  PROVE  /\ Single(Tail(q), t)
         /\ PendingIn(q, t) = {} => PendingIn(Tail(q), t) = {}
         /\ Head(q).op \in Pends /\ Head(q).t = t =>
               PendingIn(q, t) # {} /\ PendingIn(Tail(q), t) = {}
  <1>1. \A i \in PendingIn(Tail(q), t) : i + 1 \in PendingIn(q, t) /\ i \in Nat /\ i >= 1
    BY ElemsOfTail DEF PendingIn
  <1>2. \A i, j \in PendingIn(Tail(q), t) : i = j
    <2> SUFFICES ASSUME NEW i \in PendingIn(Tail(q), t), NEW j \in PendingIn(Tail(q), t) PROVE i = j
      OBVIOUS
    <2>1. i + 1 = j + 1 /\ i \in Nat /\ j \in Nat
      BY <1>1 DEF Single
    <2> QED BY <2>1
  <1>3. ASSUME Head(q).op \in Pends, Head(q).t = t
        PROVE  1 \in PendingIn(q, t) /\ PendingIn(Tail(q), t) = {}
    <2>1. 1 \in PendingIn(q, t)
      BY <1>3, ElemsOfTail DEF PendingIn
    <2>2. ASSUME NEW i \in PendingIn(Tail(q), t) PROVE FALSE
      <3>1. i + 1 = 1 /\ i \in Nat /\ i >= 1
        BY <1>1, <2>1, <2>2 DEF Single
      <3> QED BY <3>1
    <2> QED BY <2>1, <2>2
  <1> QED BY <1>1, <1>2, <1>3 DEF Single

\* The tabs that calls and answers in a queue may open.
Opening(q) == {i \in DOMAIN q : q[i].op \in Opens}

LEMMA OpeningFinite ==
  ASSUME NEW S, NEW q \in Seq(S)
  PROVE  IsFiniteSet(Opening(q)) /\ Cardinality(Opening(q)) \in Nat
  <1>1. DOMAIN q = 1..Len(q) /\ Len(q) \in Nat
    OBVIOUS
  <1>2. IsFiniteSet(1..Len(q))
    BY <1>1, FS_Interval
  <1>3. Opening(q) \in SUBSET (1..Len(q))
    BY <1>1 DEF Opening
  <1>4. IsFiniteSet(Opening(q))
    BY <1>2, <1>3, FS_Subset
  <1> QED BY <1>4, FS_CardinalityType

LEMMA OpeningOfAppend ==
  ASSUME NEW S, NEW q \in Seq(S), NEW c \in S
  PROVE  Cardinality(Opening(Append(q, c))) =
           Cardinality(Opening(q)) + (IF c.op \in Opens THEN 1 ELSE 0)
  <1>1. /\ Len(Append(q, c)) = Len(q) + 1 /\ Len(q) \in Nat
        /\ \A i \in 1..Len(q) : Append(q, c)[i] = q[i]
        /\ Append(q, c)[Len(q) + 1] = c
    OBVIOUS
  <1>2. DOMAIN q = 1..Len(q) /\ DOMAIN Append(q, c) = 1..(Len(q) + 1)
    BY <1>1
  <1>3. CASE c.op \in Opens
    <2>1. Opening(Append(q, c)) = Opening(q) \cup {Len(q) + 1} /\ Len(q) + 1 \notin Opening(q)
      BY <1>1, <1>2, <1>3 DEF Opening
    <2> QED BY <1>3, <2>1, OpeningFinite, FS_AddElement
  <1>4. CASE c.op \notin Opens
    <2>1. Opening(Append(q, c)) = Opening(q)
      BY <1>1, <1>2, <1>4 DEF Opening
    <2> QED BY <1>4, <2>1, OpeningFinite
  <1> QED BY <1>3, <1>4

LEMMA OpeningOfTail ==
  ASSUME NEW S, NEW q \in Seq(S), q # <<>>
  PROVE  Cardinality(Opening(q)) =
           Cardinality(Opening(Tail(q))) + (IF Head(q).op \in Opens THEN 1 ELSE 0)
  <1> DEFINE R == Opening(q) \ {1}
             f == [i \in Opening(Tail(q)) |-> i + 1]
  <1>1. /\ Len(q) \in Nat /\ Len(q) >= 1 /\ Len(Tail(q)) = Len(q) - 1 /\ Head(q) = q[1]
        /\ \A i \in 1..(Len(q) - 1) : Tail(q)[i] = q[i + 1]
        /\ Tail(q) \in Seq(S)
    OBVIOUS
  <1>2. DOMAIN q = 1..Len(q) /\ DOMAIN Tail(q) = 1..(Len(q) - 1)
    BY <1>1
  <1>3. f \in [Opening(Tail(q)) -> R]
    BY <1>1, <1>2 DEF Opening
  <1>4. \A i, j \in Opening(Tail(q)) : f[i] = f[j] => i = j
    BY <1>1, <1>2 DEF Opening
  <1>5. \A j \in R : \E i \in Opening(Tail(q)) : f[i] = j
    <2> SUFFICES ASSUME NEW j \in R PROVE j - 1 \in Opening(Tail(q)) /\ (j - 1) + 1 = j
      OBVIOUS
    <2>1. j \in 2..Len(q) /\ q[j].op \in Opens
      BY <1>1, <1>2 DEF Opening
    <2> QED BY <1>1, <1>2, <2>1 DEF Opening
  <1>6. ExistsBijection(Opening(Tail(q)), R)
    <2>1. f \in Bijection(Opening(Tail(q)), R)
      BY <1>3, <1>4, <1>5 DEF Bijection, Injection, Surjection, IsInjective
    <2> QED BY <2>1 DEF ExistsBijection
  <1>7. Cardinality(R) = Cardinality(Opening(Tail(q)))
    BY <1>1, <1>6, OpeningFinite, FS_Bijection
  <1>8. 1 \in Opening(q) <=> Head(q).op \in Opens
    BY <1>1, <1>2 DEF Opening
  <1>9. Cardinality(R) = IF 1 \in Opening(q) THEN Cardinality(Opening(q)) - 1
                         ELSE Cardinality(Opening(q))
    BY OpeningFinite, FS_RemoveElement
  <1>10. Cardinality(Opening(q)) \in Nat /\ Cardinality(Opening(Tail(q))) \in Nat
    BY <1>1, OpeningFinite
  <1> HIDE DEF R
  <1> QED BY <1>7, <1>8, <1>9, <1>10

-----------------------------------------------------------------------------
(* The operators of the page: what they leave of a note *)

PageTypes(pg) ==
    /\ pg.editor \in Text /\ (pg.active = NoTab \/ IsOpen(pg, pg.active))
    /\ pg.modal \in ModalType
    /\ \A t \in Tabs : /\ pg.tab[t].text \in Text /\ pg.tab[t].sig \in Text \cup {NoText}
                       /\ pg.tab[t].path \in Paths \cup {NoPath}

Paged(pg) == Good(pg) /\ PageTypes(pg)

Same(pg, q, t) == (q.tab[t].state = "unused") <=> (pg.tab[t].state = "unused")
InStep(pg, t) == pg.tab[t].text = TextOf(pg, t)
Solid(pg, q, t) ==
    /\ q.tab[t].sig = pg.tab[t].sig
    /\ q.tab[t].text \in {pg.tab[t].text} \cup (IF IsOpen(pg, t) THEN {TextOf(pg, t)} ELSE {})

\* A note that is open after a step was open before, shows the same text, and
\* gave up its file at most; it was not unsaved if it is open no more.
Kept(pg, q, t) ==
    /\ Same(pg, q, t) /\ Solid(pg, q, t)
    /\ IsOpen(q, t) =>
         /\ IsOpen(pg, t) /\ TextOf(q, t) = TextOf(pg, t)
         /\ InStep(pg, t) => InStep(q, t)
         /\ \/ q.tab[t].path = pg.tab[t].path /\ q.tab[t].dirty = pg.tab[t].dirty
            \/ q.tab[t].path = NoPath /\ q.tab[t].dirty
    /\ IsOpen(pg, t) /\ pg.tab[t].dirty => IsOpen(q, t) /\ q.tab[t].dirty

LEMMA KeptChain ==
  ASSUME NEW pg, NEW q, NEW r, NEW t, Kept(pg, q, t), Kept(q, r, t)
  PROVE  Kept(pg, r, t)
  BY DEF Kept, Same, Solid

LEMMA KeptSelf == ASSUME NEW pg, NEW t PROVE Kept(pg, pg, t)
  BY DEF Kept, Same, Solid

LEMMA TextTyped ==
  ASSUME NEW pg, Paged(pg), NEW t \in Tabs PROVE TextOf(pg, t) \in Text
  BY DEF Paged, PageTypes, TextOf

LEMMA SelectTabKeeps ==
  ASSUME NEW pg, Paged(pg), NEW t
  PROVE  /\ Paged(SelectTab(pg, t))
         /\ \A u \in Tabs : Kept(pg, SelectTab(pg, t), u)
  <1> DEFINE stored == IF IsOpen(pg, pg.active)
                       THEN [pg.tab EXCEPT ![pg.active].text = pg.editor] ELSE pg.tab
             q == [pg EXCEPT !.tab = stored, !.active = t, !.editor = stored[t].text,
                             !.watched = stored[t].path]
  <1>1. SelectTab(pg, t) = IF ~IsOpen(pg, t) THEN pg ELSE q
    BY DEF SelectTab
  <1>2. Good(SelectTab(pg, t))
    BY SelectTabGood DEF Paged
  <1>3. CASE ~IsOpen(pg, t)
    BY <1>1, <1>3, KeptSelf
  <1>4. CASE IsOpen(pg, t)
    <2>1. /\ DOMAIN stored = Tabs
          /\ \A u \in Tabs : /\ stored[u].state = pg.tab[u].state /\ stored[u].path = pg.tab[u].path
                             /\ stored[u].sig = pg.tab[u].sig /\ stored[u].dirty = pg.tab[u].dirty
                             /\ IsOpen(pg, u) => stored[u].text = TextOf(pg, u)
                             /\ ~IsOpen(pg, u) => stored[u].text = pg.tab[u].text
                             /\ stored[u].text \in Text
      BY DEF Paged, PageTypes, Good, Shape, TabFields, IsOpen, TextOf
    <2> HIDE DEF stored
    <2>2. /\ q.tab = stored /\ q.active = t /\ q.editor = stored[t].text /\ q.modal = pg.modal
      BY DEF Paged, Good, Shape, PageFields
    <2> HIDE DEF q
    <2>3. t \in Tabs
      BY <1>4 DEF IsOpen
    <2>4. PageTypes(q)
      BY <1>4, <2>1, <2>2, <2>3 DEF PageTypes, Paged, IsOpen
    <2>5. \A u \in Tabs : Kept(pg, q, u)
      BY <2>1, <2>2 DEF Kept, Same, Solid, InStep, IsOpen, TextOf
    <2> QED BY <1>1, <1>2, <1>4, <2>4, <2>5 DEF Paged
  <1> QED BY <1>3, <1>4

\* The tabs that are removed are open no more.
LEMMA RemoveTabsKeeps ==
  ASSUME NEW pg, Paged(pg), NEW S
  PROVE  /\ Paged(RemoveTabs(pg, S))
         /\ \A u \in Tabs \ S : Kept(pg, RemoveTabs(pg, S), u)
         /\ \A u \in Tabs \ S : IsOpen(pg, u) => IsOpen(RemoveTabs(pg, S), u)
         /\ \A u \in Tabs : /\ Same(pg, RemoveTabs(pg, S), u) /\ Solid(pg, RemoveTabs(pg, S), u)
                            /\ u \in S => ~IsOpen(RemoveTabs(pg, S), u)
  <1> DEFINE tabs == [t \in Tabs |->
                        IF t \in S /\ IsOpen(pg, t)
                        THEN [pg.tab[t] EXCEPT !.state = "closed", !.timer = FALSE]
                        ELSE pg.tab[t]]
             closed == [pg EXCEPT !.tab = tabs]
             none == [closed EXCEPT !.active = NoTab]
             empty == [closed EXCEPT !.active = NoTab, !.editor = {}]
  <1>1. /\ DOMAIN tabs = Tabs
        /\ \A u \in Tabs \ S : tabs[u] = pg.tab[u]
        /\ \A u \in Tabs : /\ tabs[u].path = pg.tab[u].path /\ tabs[u].text = pg.tab[u].text
                           /\ tabs[u].sig = pg.tab[u].sig
                           /\ tabs[u].state = "unused" <=> pg.tab[u].state = "unused"
                           /\ u \in S => tabs[u].state # "open"
                           /\ DOMAIN tabs[u] = TabFields
    BY DEF Paged, Good, Shape, TabFields, IsOpen
  <1>2. Good(RemoveTabs(pg, S))
    BY RemoveTabsGood DEF Paged
  <1>3. Shape(pg) /\ DOMAIN pg = PageFields
    BY DEF Paged, Good, Shape
  <1> HIDE DEF tabs
  <1>4. /\ closed.tab = tabs /\ closed.active = pg.active /\ closed.editor = pg.editor
        /\ closed.modal = pg.modal
        /\ none.tab = tabs /\ none.active = NoTab /\ none.editor = pg.editor /\ none.modal = pg.modal
        /\ empty.tab = tabs /\ empty.active = NoTab /\ empty.editor = {} /\ empty.modal = pg.modal
        /\ DOMAIN none = PageFields
    BY <1>3 DEF PageFields
  <1>5. \E t : RemoveTabs(pg, S) = IF pg.active \notin S THEN closed
                                   ELSE IF OpenTabs(closed) = {} THEN empty ELSE SelectTab(none, t)
    <2>1. RemoveTabs(pg, S) = IF pg.active \notin S THEN closed
                              ELSE IF OpenTabs(closed) = {} THEN empty
                              ELSE SelectTab(none, CHOOSE t \in OpenTabs(closed) : TRUE)
      BY DEF RemoveTabs, tabs
    <2> HIDE DEF closed, none, empty
    <2> QED BY <2>1
  <1> HIDE DEF closed, none, empty
  <1>6. \A u \in Tabs : (pg.active \in S => TextOf(none, u) = tabs[u].text)
                        /\ (pg.active \notin S => TextOf(closed, u) =
                              IF u = pg.active THEN pg.editor ELSE tabs[u].text)
    BY <1>4 DEF TextOf, NoteFileAssumption
  <1>7. CASE pg.active \notin S
    <2>1. RemoveTabs(pg, S) = closed
      BY <1>5, <1>7
    <2>2. PageTypes(closed)
      BY <1>1, <1>4, <1>7 DEF PageTypes, Paged, IsOpen
    <2>3. \A u \in Tabs \ S : Kept(pg, closed, u) /\ (IsOpen(pg, u) => IsOpen(closed, u))
      BY <1>1, <1>4, <1>6, <1>7 DEF Kept, Same, Solid, InStep, IsOpen, TextOf
    <2>4. \A u \in Tabs : Same(pg, closed, u) /\ Solid(pg, closed, u) /\ (u \in S => ~IsOpen(closed, u))
      BY <1>1, <1>4 DEF Same, Solid, IsOpen
    <2> QED BY <1>2, <2>1, <2>2, <2>3, <2>4 DEF Paged
  <1>8. CASE pg.active \in S /\ OpenTabs(closed) = {}
    <2>1. RemoveTabs(pg, S) = empty
      BY <1>5, <1>8
    <2>2. PageTypes(empty)
      BY <1>1, <1>4 DEF PageTypes, Paged, Text
    <2>3. \A u \in Tabs : ~IsOpen(empty, u) /\ (IsOpen(pg, u) => u \in S)
      BY <1>1, <1>4, <1>8 DEF OpenTabs, IsOpen
    <2>4. \A u \in Tabs : Same(pg, empty, u) /\ Solid(pg, empty, u) /\ (u \notin S => Kept(pg, empty, u))
      BY <1>1, <1>4, <2>3 DEF Same, Solid, Kept
    <2> QED BY <1>2, <2>1, <2>2, <2>3, <2>4 DEF Paged
  <1>9. CASE pg.active \in S /\ OpenTabs(closed) # {}
    <2>1. PICK t : RemoveTabs(pg, S) = SelectTab(none, t)
      BY <1>5, <1>9
    <2>2. PageTypes(none)
      BY <1>1, <1>4 DEF PageTypes, Paged
    <2>3. Good(none)
      <3>1. Shape(none) /\ Shrinks(pg, none)
        BY <1>1, <1>4 DEF Shape, Shrinks
      <3> QED BY <3>1, ShrunkIsGood DEF Paged
    <2>4. \A u \in Tabs : Kept(none, SelectTab(none, t), u) /\ Paged(SelectTab(none, t))
      BY <2>2, <2>3, SelectTabKeeps DEF Paged
    <2>5. \A u \in Tabs \ S : Kept(pg, none, u) /\ (IsOpen(pg, u) => IsOpen(none, u))
      BY <1>1, <1>4, <1>6, <1>9 DEF Kept, Same, Solid, InStep, IsOpen, TextOf
    <2>6. \A u \in Tabs : Same(pg, none, u) /\ Solid(pg, none, u) /\ (u \in S => ~IsOpen(none, u))
      BY <1>1, <1>4 DEF Same, Solid, IsOpen
    <2>7. \A u \in Tabs : IsOpen(none, u) => IsOpen(SelectTab(none, t), u)
      BY <2>2, <2>3 DEF SelectTab, IsOpen, Good, Shape, PageFields, TabFields
    <2>8. \A u \in Tabs \ S : Kept(pg, SelectTab(none, t), u)
      BY <2>4, <2>5, KeptChain
    <2> QED BY <2>1, <2>4, <2>5, <2>6, <2>7, <2>8 DEF Same, Solid, Kept
  <1> QED BY <1>7, <1>8, <1>9

\* A note of which nothing changed that is about its text or its file.
Like(pg, q, t) ==
    /\ q.tab[t].state = pg.tab[t].state /\ q.tab[t].path = pg.tab[t].path
    /\ q.tab[t].dirty = pg.tab[t].dirty /\ q.tab[t].sig = pg.tab[t].sig
    /\ q.tab[t].text = pg.tab[t].text /\ TextOf(q, t) = TextOf(pg, t)

LEMMA LikeIsKept ==
  ASSUME NEW pg, NEW q, NEW t, Like(pg, q, t)
  PROVE  Kept(pg, q, t) /\ IsOpen(q, t) = IsOpen(pg, t)
  BY DEF Like, Kept, Same, Solid, InStep, IsOpen

\* What a step that touches the note t alone may do.
Elsewhere(pg, q, t) ==
    /\ q.active = pg.active /\ q.modal \in ModalType
    /\ q.editor = pg.editor \/ q.active = t
    /\ \A u \in Tabs \ {t} : q.tab[u] = pg.tab[u]

LEMMA OthersAreLike ==
  ASSUME NEW pg, NEW q, NEW t, Elsewhere(pg, q, t)
  PROVE  \A u \in Tabs \ {t} : Like(pg, q, u) /\ Kept(pg, q, u) /\ IsOpen(q, u) = IsOpen(pg, u)
  <1>1. \A u \in Tabs \ {t} : Like(pg, q, u)
    BY DEF Elsewhere, Like, TextOf
  <1> QED BY <1>1, LikeIsKept

LEMMA AllAreLike ==
  ASSUME NEW pg, Paged(pg), NEW q, Good(q), q.active = pg.active, q.editor = pg.editor,
         q.modal \in ModalType, \A u \in Tabs : Like(pg, q, u)
  PROVE  Paged(q) /\ \A u \in Tabs : Kept(pg, q, u) /\ IsOpen(q, u) = IsOpen(pg, u)
  <1>1. \A u \in Tabs : Kept(pg, q, u) /\ IsOpen(q, u) = IsOpen(pg, u)
    BY LikeIsKept
  <1>2. pg.active # NoTab => pg.active \in Tabs
    BY DEF Paged, PageTypes, IsOpen
  <1> QED BY <1>1, <1>2 DEF Paged, PageTypes, Like

LEMMA ArmKeeps ==
  ASSUME NEW pg, Paged(pg), NEW t
  PROVE  Paged(Arm(pg, t)) /\ \A u \in Tabs : Like(pg, Arm(pg, t), u)
  <1>1. Good(Arm(pg, t))
    BY ArmGood DEF Paged
  <1>2. /\ Arm(pg, t).active = pg.active /\ Arm(pg, t).editor = pg.editor
        /\ Arm(pg, t).modal = pg.modal
    BY DEF Arm, Paged, Good, Shape, PageFields
  <1>3. \A u \in Tabs : Like(pg, Arm(pg, t), u)
    BY <1>2 DEF Arm, Like, TextOf, Paged, Good, Shape, PageFields, TabFields
  <1> QED BY <1>1, <1>2, <1>3, AllAreLike DEF Paged, PageTypes

LEMMA RememberKeeps ==
  ASSUME NEW pg, Paged(pg), NEW t, NEW x \in Text
  PROVE  /\ Paged(Remember(pg, t, x)) /\ Elsewhere(pg, Remember(pg, t, x), t)
         /\ Remember(pg, t, x).editor = pg.editor
         /\ t \in Tabs =>
              LET tb == Remember(pg, t, x).tab[t]
              IN /\ tb.sig = x /\ tb.text = pg.tab[t].text /\ tb.path = pg.tab[t].path
                 /\ tb.dirty = pg.tab[t].dirty /\ tb.state = pg.tab[t].state
                 /\ TextOf(Remember(pg, t, x), t) = TextOf(pg, t)
  <1> DEFINE q == Remember(pg, t, x)
  <1>1. Good(q)
    BY RememberGood DEF Paged
  <1>2. /\ q.active = pg.active /\ q.editor = pg.editor /\ q.modal = pg.modal
        /\ \A u \in Tabs \ {t} : q.tab[u] = pg.tab[u]
        /\ t \in Tabs => /\ q.tab[t].sig = x /\ q.tab[t].text = pg.tab[t].text
                         /\ q.tab[t].path = pg.tab[t].path /\ q.tab[t].dirty = pg.tab[t].dirty
                         /\ q.tab[t].state = pg.tab[t].state
    BY DEF Remember, Paged, Good, Shape, PageFields, TabFields
  <1> HIDE DEF q
  <1>3. Elsewhere(pg, q, t)
    BY <1>2 DEF Elsewhere, Paged, PageTypes
  <1>4. t \in Tabs => TextOf(q, t) = TextOf(pg, t)
    BY <1>2 DEF TextOf
  <1>5. \A u \in Tabs : /\ q.tab[u].text = pg.tab[u].text /\ q.tab[u].path = pg.tab[u].path
                        /\ q.tab[u].state = pg.tab[u].state
                        /\ q.tab[u].sig = IF u = t THEN x ELSE pg.tab[u].sig
    BY <1>2
  <1>6. PageTypes(q)
    BY <1>2, <1>5 DEF PageTypes, Paged, IsOpen
  <1> QED BY <1>1, <1>2, <1>3, <1>4, <1>6 DEF Paged, q

\* A note with something unsaved keeps it; any other takes the text.
LEMMA AdoptKeeps ==
  ASSUME NEW pg, Paged(pg), NEW t, NEW x \in Text
  PROVE  /\ Paged(Adopt(pg, t, x)) /\ Elsewhere(pg, Adopt(pg, t, x), t)
         /\ t \in Tabs =>
              LET q == Adopt(pg, t, x)
              IN /\ q.tab[t].path = pg.tab[t].path /\ q.tab[t].dirty = pg.tab[t].dirty
                 /\ q.tab[t].state = pg.tab[t].state
                 /\ InStep(pg, t) => InStep(q, t)
                 /\ \/ q = pg /\ HasUnsavedText(pg, t)
                    \/ /\ q.tab[t].sig = x /\ q.tab[t].text = x /\ TextOf(q, t) = x
                       /\ ~HasUnsavedText(pg, t)
                    \/ /\ q.tab[t].sig = x /\ q.tab[t].text = pg.tab[t].text
                       /\ TextOf(q, t) = x /\ TextOf(pg, t) = x /\ HasUnsavedText(pg, t)
  <1> DEFINE r == Remember(pg, t, x)
             q == [r EXCEPT !.tab[t].text = x, !.editor = IF pg.active = t THEN x ELSE @]
  <1>1. Adopt(pg, t, x) = IF HasUnsavedText(pg, t)
                          THEN IF TextOf(pg, t) = x THEN r ELSE pg ELSE q
    BY DEF Adopt
  <1>2. Good(Adopt(pg, t, x))
    BY AdoptGood DEF Paged
  <1>3. /\ Paged(r) /\ Elsewhere(pg, r, t) /\ r.editor = pg.editor
        /\ t \in Tabs => /\ r.tab[t].sig = x /\ r.tab[t].text = pg.tab[t].text
                         /\ r.tab[t].path = pg.tab[t].path /\ r.tab[t].dirty = pg.tab[t].dirty
                         /\ r.tab[t].state = pg.tab[t].state /\ TextOf(r, t) = TextOf(pg, t)
    BY RememberKeeps
  <1> HIDE DEF r
  <1>4. CASE HasUnsavedText(pg, t) /\ TextOf(pg, t) = x
    BY <1>1, <1>3, <1>4 DEF InStep
  <1>5. CASE HasUnsavedText(pg, t) /\ TextOf(pg, t) # x
    BY <1>1, <1>5 DEF Elsewhere, Paged, PageTypes
  <1>6. CASE ~HasUnsavedText(pg, t)
    <2>1. /\ q.active = r.active /\ q.modal = r.modal
          /\ q.editor = IF pg.active = t THEN x ELSE pg.editor
          /\ \A u \in Tabs \ {t} : q.tab[u] = r.tab[u]
          /\ t \in Tabs => /\ q.tab[t].sig = r.tab[t].sig /\ q.tab[t].text = x
                           /\ q.tab[t].path = r.tab[t].path /\ q.tab[t].dirty = r.tab[t].dirty
                           /\ q.tab[t].state = r.tab[t].state
      BY <1>3 DEF Paged, Good, Shape, PageFields, TabFields
    <2>2. Adopt(pg, t, x) = q
      BY <1>1, <1>6
    <2> HIDE DEF q
    <2>3. Elsewhere(pg, q, t)
      BY <1>3, <2>1 DEF Elsewhere
    <2>4. t \in Tabs => TextOf(q, t) = x /\ InStep(q, t)
      BY <1>3, <2>1 DEF TextOf, InStep, Elsewhere
    <2>5. \A u \in Tabs : /\ q.tab[u].text = IF u = t THEN x ELSE r.tab[u].text
                          /\ q.tab[u].path = r.tab[u].path /\ q.tab[u].state = r.tab[u].state
                          /\ q.tab[u].sig = r.tab[u].sig
      BY <1>3, <2>1
    <2>6. PageTypes(q)
      BY <1>3, <2>1, <2>5 DEF PageTypes, Paged, IsOpen
    <2> QED BY <1>2, <1>3, <1>6, <2>1, <2>2, <2>3, <2>4, <2>6 DEF Paged
  <1> QED BY <1>4, <1>5, <1>6

LEMMA ReconcileKeeps ==
  ASSUME NEW pg, Paged(pg), NEW t, NEW x \in Text
  PROVE  \/ Reconcile(pg, t, x) = Adopt(pg, t, x) /\ ~HasUnsavedText(pg, t)
         \/ Paged(Reconcile(pg, t, x)) /\ \A u \in Tabs : Like(pg, Reconcile(pg, t, x), u)
  <1> DEFINE q == [pg EXCEPT !.tab[t].conflict = @ \/ pg.tab[t].sig # NoText]
  <1>1. Good(Reconcile(pg, t, x))
    BY ReconcileGood DEF Paged
  <1>2. \/ Reconcile(pg, t, x) = Adopt(pg, t, x) /\ ~HasUnsavedText(pg, t)
        \/ Reconcile(pg, t, x) \in {pg, q}
    BY DEF Reconcile
  <1>3. /\ q.active = pg.active /\ q.editor = pg.editor /\ q.modal = pg.modal
        /\ \A u \in Tabs : Like(pg, q, u)
    BY DEF Like, TextOf, Paged, Good, Shape, PageFields, TabFields
  <1>4. \A u \in Tabs : Like(pg, pg, u)
    BY DEF Like
  <1> HIDE DEF q
  <1> QED BY <1>1, <1>2, <1>3, <1>4, AllAreLike DEF Paged, PageTypes

\* A save has written `sent`: the note is unsaved if it shows another text.
LEMMA MarkSavedUpToKeeps ==
  ASSUME NEW pg, Paged(pg), NEW t, NEW sent
  PROVE  /\ Paged(MarkSavedUpTo(pg, t, sent))
         /\ \A u \in Tabs \ {t} : Like(pg, MarkSavedUpTo(pg, t, sent), u)
         /\ t \in Tabs =>
              LET q == MarkSavedUpTo(pg, t, sent)
              IN /\ q.tab[t].path = pg.tab[t].path /\ q.tab[t].state = pg.tab[t].state
                 /\ q.tab[t].sig = pg.tab[t].sig /\ q.tab[t].text = pg.tab[t].text
                 /\ TextOf(q, t) = TextOf(pg, t)
                 /\ IsOpen(pg, t) => (q.tab[t].dirty <=> TextOf(pg, t) # sent)
  <1> DEFINE dirty == IsOpen(pg, t) /\ TextOf(pg, t) # sent
             q == [pg EXCEPT !.tab[t].dirty = dirty, !.tab[t].failed = FALSE]
  <1>1. Good(q)
    <2>1. Shape(q) /\ Shrinks(pg, q)
      BY DEF Paged, Good, Shape, Shrinks, PageFields, TabFields
    <2> QED BY <2>1, ShrunkIsGood DEF Paged
  <1>2. /\ q.active = pg.active /\ q.editor = pg.editor /\ q.modal = pg.modal
        /\ \A u \in Tabs \ {t} : q.tab[u] = pg.tab[u]
        /\ t \in Tabs => /\ q.tab[t].path = pg.tab[t].path /\ q.tab[t].state = pg.tab[t].state
                         /\ q.tab[t].sig = pg.tab[t].sig /\ q.tab[t].text = pg.tab[t].text
                         /\ q.tab[t].dirty = dirty
    BY DEF Paged, Good, Shape, PageFields, TabFields
  <1>3. MarkSavedUpTo(pg, t, sent) = IF dirty THEN Arm(q, t) ELSE q
    BY DEF MarkSavedUpTo
  <1> HIDE DEF q
  <1>4. \A u \in Tabs : TextOf(q, u) = TextOf(pg, u) /\ (u # t => Like(pg, q, u))
    BY <1>2 DEF TextOf, Like
  <1>5. \A u \in Tabs : /\ q.tab[u].text = pg.tab[u].text /\ q.tab[u].path = pg.tab[u].path
                        /\ q.tab[u].state = pg.tab[u].state /\ q.tab[u].sig = pg.tab[u].sig
    BY <1>2
  <1>6. Paged(q)
    BY <1>1, <1>2, <1>5 DEF PageTypes, Paged, IsOpen
  <1>7. Paged(Arm(q, t)) /\ \A u \in Tabs : Like(q, Arm(q, t), u)
    BY <1>6, ArmKeeps
  <1>8. CASE dirty
    <2>1. PICK r : r = MarkSavedUpTo(pg, t, sent)
      OBVIOUS
    <2>2. Paged(r) /\ \A u \in Tabs : Like(q, r, u)
      BY <1>3, <1>7, <1>8, <2>1
    <2>3. \A u \in Tabs \ {t} : Like(pg, r, u)
      BY <1>4, <2>2 DEF Like
    <2>4. t \in Tabs =>
            /\ r.tab[t].path = pg.tab[t].path /\ r.tab[t].state = pg.tab[t].state
            /\ r.tab[t].sig = pg.tab[t].sig /\ r.tab[t].text = pg.tab[t].text
            /\ TextOf(r, t) = TextOf(pg, t) /\ r.tab[t].dirty = dirty
      BY <1>2, <1>4, <2>2 DEF Like
    <2> QED BY <1>8, <2>1, <2>2, <2>3, <2>4
  <1>9. CASE ~dirty
    BY <1>2, <1>3, <1>4, <1>6, <1>9
  <1> QED BY <1>8, <1>9

LEMMA ReleasePathKeeps ==
  ASSUME NEW pg, Paged(pg), NEW t, NEW p
  PROVE  /\ Paged(ReleasePath(pg, t, p))
         /\ \A u \in Tabs : Kept(pg, ReleasePath(pg, t, p), u)
         /\ t \in Tabs /\ IsOpen(pg, t) => IsOpen(ReleasePath(pg, t, p), t)
  <1> DEFINE others == OwnersOf(pg, p) \ {t}
             kept == {o \in others : HasUnsavedText(pg, o)}
             tabs == [o \in Tabs |-> IF o \in kept
                                     THEN [pg.tab[o] EXCEPT !.path = NoPath, !.dirty = TRUE]
                                     ELSE pg.tab[o]]
             free == [pg EXCEPT !.tab = tabs,
                                !.watched = IF pg.active \in kept THEN NoPath ELSE @]
  <1>1. ReleasePath(pg, t, p) = RemoveTabs(free, others \ kept)
    BY DEF ReleasePath
  <1>2. others \subseteq Tabs /\ kept \subseteq others /\ t \notin others
        /\ \A u \in others \ kept : ~HasUnsavedText(pg, u)
    BY DEF OwnersOf, OpenTabs
  <1> HIDE DEF kept, others
  <1>3. /\ \A u \in Tabs : /\ tabs[u].text = pg.tab[u].text /\ tabs[u].state = pg.tab[u].state
                           /\ tabs[u].sig = pg.tab[u].sig
                           /\ tabs[u].path = IF u \in kept THEN NoPath ELSE pg.tab[u].path
                           /\ tabs[u].dirty = IF u \in kept THEN TRUE ELSE pg.tab[u].dirty
                           /\ DOMAIN tabs[u] = TabFields
        /\ DOMAIN tabs = Tabs
    BY DEF Paged, Good, Shape, TabFields
  <1> HIDE DEF tabs
  <1>4. /\ free.tab = tabs /\ free.active = pg.active /\ free.editor = pg.editor
        /\ free.modal = pg.modal /\ DOMAIN free = PageFields
    BY DEF Paged, Good, Shape, PageFields
  <1> HIDE DEF free
  <1>5. Good(free)
    <2>1. Shape(free) /\ Shrinks(pg, free)
      BY <1>3, <1>4 DEF Shape, Shrinks
    <2> QED BY <2>1, ShrunkIsGood DEF Paged
  <1>6. Paged(free)
    BY <1>3, <1>4, <1>5 DEF Paged, PageTypes, IsOpen
  <1>7. \A u \in Tabs : Kept(pg, free, u) /\ IsOpen(free, u) = IsOpen(pg, u)
    BY <1>3, <1>4 DEF Kept, Same, Solid, InStep, TextOf, IsOpen
  <1> DEFINE r == RemoveTabs(free, others \ kept)
  <1>8. /\ Paged(r)
        /\ \A u \in Tabs \ (others \ kept) : Kept(free, r, u) /\ (IsOpen(free, u) => IsOpen(r, u))
        /\ \A u \in Tabs : Same(free, r, u) /\ Solid(free, r, u) /\ (u \in others \ kept => ~IsOpen(r, u))
    BY <1>6, RemoveTabsKeeps
  <1> HIDE DEF r
  <1>9. \A u \in Tabs \ (others \ kept) : Kept(pg, r, u)
    BY <1>7, <1>8, KeptChain
  <1>10. \A u \in others \ kept : Kept(pg, r, u)
    BY <1>2, <1>7, <1>8 DEF Kept, Same, Solid, HasUnsavedText
  <1> QED BY <1>1, <1>2, <1>7, <1>8, <1>9, <1>10 DEF r

\* A tab not used so far is opened.
LEMMA NewTabKeeps ==
  ASSUME NEW pg, Paged(pg), NEW t \in Tabs, pg.tab[t].state = "unused",
         NEW p \in Paths \cup {NoPath}, NEW x \in Text, NEW d,
         p = NoPath \/ OwnersOf(pg, p) = {}
  PROVE  /\ Paged(NewTab(pg, t, p, x, d)) /\ Elsewhere(pg, NewTab(pg, t, p, x, d), t)
         /\ NewTab(pg, t, p, x, d).editor = pg.editor
         /\ LET q == NewTab(pg, t, p, x, d)
            IN /\ IsOpen(q, t) /\ q.tab[t].path = p /\ q.tab[t].dirty = d
               /\ q.tab[t].sig = IF p = NoPath THEN NoText ELSE x
               /\ TextOf(q, t) = x /\ InStep(q, t)
  <1> DEFINE q == NewTab(pg, t, p, x, d)
             new == [pg.tab[t] EXCEPT !.state = "open", !.path = p, !.text = x,
                                      !.dirty = d, !.sig = IF p = NoPath THEN NoText ELSE x]
  <1>1. Good(q)
    BY NewTabGood DEF Paged
  <1>2. q = [pg EXCEPT !.tab[t] = new]
    BY DEF NewTab
  <1>3. /\ new.state = "open" /\ new.path = p /\ new.text = x /\ new.dirty = d
        /\ new.sig = IF p = NoPath THEN NoText ELSE x
    BY DEF Paged, Good, Shape, TabFields
  <1> HIDE DEF new, q
  <1>4. /\ q.active = pg.active /\ q.editor = pg.editor /\ q.modal = pg.modal
        /\ \A u \in Tabs : q.tab[u] = IF u = t THEN new ELSE pg.tab[u]
    BY <1>2 DEF Paged, Good, Shape, PageFields
  <1>5. q.active # t
    BY <1>4 DEF Paged, PageTypes, IsOpen, NoteFileAssumption
  <1>6. PageTypes(q)
    BY <1>3, <1>4, <1>5 DEF Paged, PageTypes, IsOpen
  <1>7. Elsewhere(pg, q, t) /\ TextOf(q, t) = x /\ InStep(q, t) /\ IsOpen(q, t)
    BY <1>3, <1>4, <1>5, <1>6 DEF Elsewhere, TextOf, InStep, IsOpen, PageTypes
  <1> QED BY <1>1, <1>3, <1>4, <1>6, <1>7 DEF Paged, q

Closes(kind, ok) == kind \in {"close", "reclose"} /\ ok

LEMMA AfterSaveKeeps ==
  ASSUME NEW pg, Paged(pg), NEW t, NEW kind, NEW ok
  PROVE  /\ Paged(AfterSave(pg, t, kind, ok))
         /\ ~Closes(kind, ok) => \A u \in Tabs : Like(pg, AfterSave(pg, t, kind, ok), u)
         /\ \A u \in Tabs \ {t} : Kept(pg, AfterSave(pg, t, kind, ok), u)
         /\ Closes(kind, ok) /\ t \in Tabs => /\ ~IsOpen(AfterSave(pg, t, kind, ok), t)
                                              /\ Same(pg, AfterSave(pg, t, kind, ok), t)
                                              /\ Solid(pg, AfterSave(pg, t, kind, ok), t)
  <1> DEFINE q == [pg EXCEPT !.tab[t].prompt = FALSE]
             lifted == IF kind = "close" THEN q ELSE pg
             r == AfterSave(pg, t, kind, ok)
  <1>1. Good(q)
    <2>1. Shape(q) /\ Shrinks(pg, q)
      BY DEF Paged, Good, Shape, Shrinks, PageFields, TabFields
    <2> QED BY <2>1, ShrunkIsGood DEF Paged
  <1>2. /\ q.active = pg.active /\ q.editor = pg.editor /\ q.modal = pg.modal
        /\ \A u \in Tabs : Like(pg, q, u)
    BY DEF Like, TextOf, Paged, Good, Shape, PageFields, TabFields
  <1>3. \A u \in Tabs : Like(pg, pg, u)
    BY DEF Like
  <1>4. /\ Closes(kind, ok) => r = RemoveTabs(lifted, {t})
        /\ ~Closes(kind, ok) => r \in {pg, lifted, Arm(lifted, t)}
    BY DEF AfterSave, Closes
  <1> HIDE DEF q
  <1>5. Paged(lifted) /\ \A u \in Tabs : Like(pg, lifted, u)
    BY <1>1, <1>2, <1>3, AllAreLike DEF Paged, PageTypes
  <1> HIDE DEF lifted, r
  <1>6. CASE Closes(kind, ok)
    <2>1. PICK s : s = RemoveTabs(lifted, {t})
      OBVIOUS
    <2>2. /\ Paged(s) /\ \A u \in Tabs \ {t} : Kept(lifted, s, u)
          /\ \A u \in Tabs : Same(lifted, s, u) /\ Solid(lifted, s, u) /\ (u \in {t} => ~IsOpen(s, u))
      BY <1>5, <2>1, RemoveTabsKeeps
    <2>3. \A u \in Tabs \ {t} : Kept(pg, s, u)
      BY <1>5, <2>2, LikeIsKept, KeptChain
    <2> QED BY <1>4, <1>5, <1>6, <2>1, <2>2, <2>3 DEF Like, Same, Solid, IsOpen, r
  <1>7. CASE ~Closes(kind, ok)
    <2>1. Paged(r) /\ \A u \in Tabs : Like(lifted, r, u)
      <3>1. Paged(Arm(lifted, t)) /\ \A u \in Tabs : Like(lifted, Arm(lifted, t), u)
        BY <1>5, ArmKeeps
      <3>2. \A u \in Tabs : Like(lifted, lifted, u) /\ Like(lifted, pg, u)
        BY <1>5 DEF Like
      <3> QED BY <1>4, <1>5, <1>7, <3>1, <3>2
    <2>2. \A u \in Tabs : Like(pg, r, u)
      BY <1>5, <2>1 DEF Like
    <2> QED BY <1>7, <2>1, <2>2, LikeIsKept DEF r
  <1> QED BY <1>6, <1>7

\* The note takes the text of its file, unless it was typed in; what the save
\* was about to write is in a new note, unless it is that text.
LEMMA ReloadKeeps ==
  ASSUME NEW pg, Paged(pg), NEW t \in Tabs, pg.tab[t].state # "unused", Unused(pg) # {},
         NEW mine \in Text, NEW x \in Text
  PROVE  LET q == Reload(pg, t, mine, x)
         IN /\ Paged(q)
            /\ \E n \in Tabs : /\ n \in Unused(pg)
                               /\ \A u \in Tabs \ {t, n} : Kept(pg, q, u)
                               /\ \/ x = mine /\ Kept(pg, q, n)
                                  \/ /\ IsOpen(q, n) /\ q.tab[n].path = NoPath /\ q.tab[n].dirty
                                     /\ q.tab[n].sig = NoText /\ TextOf(q, n) = mine /\ q.tab[n].text = mine
            /\ Same(pg, q, t) /\ IsOpen(q, t) = IsOpen(pg, t)
            /\ q.tab[t].path = pg.tab[t].path /\ ~q.tab[t].dirty
            /\ \/ q.tab[t].sig = x /\ q.tab[t].text = x /\ TextOf(q, t) = x
               \/ /\ t = pg.active /\ TextOf(pg, t) # mine /\ q.tab[t].text = mine
                  /\ q.tab[t].sig = pg.tab[t].sig \/ q.tab[t].sig = TextOf(pg, t)
                  /\ TextOf(q, t) = TextOf(pg, t)
  <1> DEFINE n == Fresh(pg)
             saved == IF x = mine THEN pg ELSE NewTab(pg, n, NoPath, mine, TRUE)
             s == [saved EXCEPT !.tab[t].dirty = FALSE, !.tab[t].text = mine]
             q == Reload(pg, t, mine, x)
  <1>1. n \in Unused(pg) /\ n \in Tabs /\ pg.tab[n].state = "unused" /\ n # t
    BY DEF Fresh, Unused
  <1>2. q = Adopt(s, t, x)
    BY DEF Reload
  <1>3. /\ Paged(NewTab(pg, n, NoPath, mine, TRUE))
        /\ Elsewhere(pg, NewTab(pg, n, NoPath, mine, TRUE), n)
        /\ NewTab(pg, n, NoPath, mine, TRUE).editor = pg.editor
        /\ LET r == NewTab(pg, n, NoPath, mine, TRUE)
           IN /\ IsOpen(r, n) /\ r.tab[n].path = NoPath /\ r.tab[n].dirty
              /\ r.tab[n].sig = NoText /\ TextOf(r, n) = mine /\ InStep(r, n)
    <2> HIDE DEF n
    <2>1. n \in Tabs /\ pg.tab[n].state = "unused" /\ NoPath \in Paths \cup {NoPath}
      BY <1>1
    <2>2. PICK b : b = TRUE
      OBVIOUS
    <2>3. PICK r : r = NewTab(pg, n, NoPath, mine, b)
      OBVIOUS
    <2>4. /\ Paged(r) /\ Elsewhere(pg, r, n) /\ r.editor = pg.editor
          /\ IsOpen(r, n) /\ r.tab[n].path = NoPath /\ r.tab[n].dirty = b
          /\ r.tab[n].sig = NoText /\ TextOf(r, n) = mine /\ InStep(r, n)
      BY <2>1, <2>3, NewTabKeeps
    <2> QED BY <2>2, <2>3, <2>4
  <1> HIDE DEF n, q
  <1>4. /\ Paged(saved) /\ saved.active = pg.active /\ saved.editor = pg.editor
        /\ \A u \in Tabs \ {n} : saved.tab[u] = pg.tab[u] /\ Like(pg, saved, u)
        /\ \/ x = mine /\ saved = pg
           \/ /\ IsOpen(saved, n) /\ saved.tab[n].path = NoPath /\ saved.tab[n].dirty
              /\ saved.tab[n].sig = NoText /\ TextOf(saved, n) = mine /\ InStep(saved, n)
    <2>1. CASE x = mine
      BY <2>1 DEF Like
    <2>2. CASE x # mine
      BY <1>3, <2>2, OthersAreLike DEF Elsewhere
    <2> QED BY <2>1, <2>2
  <1> HIDE DEF saved
  <1>5. /\ s.active = pg.active /\ s.editor = pg.editor /\ s.modal = saved.modal
        /\ \A u \in Tabs \ {t} : s.tab[u] = saved.tab[u]
        /\ s.tab[t].path = pg.tab[t].path /\ s.tab[t].state = pg.tab[t].state
        /\ s.tab[t].sig = pg.tab[t].sig /\ s.tab[t].text = mine /\ s.tab[t].dirty = FALSE
    BY <1>1, <1>4 DEF Paged, Good, Shape, PageFields, TabFields
  <1>6. Good(s)
    <2>1. Shape(s) /\ Shrinks(saved, s)
      BY <1>1, <1>4 DEF Paged, Good, Shape, Shrinks, PageFields, TabFields
    <2> QED BY <1>4, <2>1, ShrunkIsGood DEF Paged
  <1> HIDE DEF s
  <1>7. Paged(s)
    <2>1. \A u \in Tabs : /\ s.tab[u].text \in Text /\ s.tab[u].sig \in Text \cup {NoText}
                          /\ s.tab[u].path \in Paths \cup {NoPath}
                          /\ s.tab[u].state = saved.tab[u].state
      BY <1>1, <1>4, <1>5 DEF Paged, PageTypes
    <2> QED BY <1>4, <1>5, <1>6, <2>1 DEF Paged, PageTypes, IsOpen
  <1>8. \A u \in Tabs \ {t} : Like(saved, s, u)
    BY <1>4, <1>5 DEF Like, TextOf
  <1>9. /\ Paged(q) /\ Elsewhere(s, q, t)
        /\ q.tab[t].path = s.tab[t].path /\ q.tab[t].dirty = s.tab[t].dirty
        /\ q.tab[t].state = s.tab[t].state
        /\ \/ q = s /\ HasUnsavedText(s, t)
           \/ q.tab[t].sig = x /\ q.tab[t].text = x /\ TextOf(q, t) = x
           \/ /\ q.tab[t].sig = x /\ q.tab[t].text = s.tab[t].text
              /\ TextOf(q, t) = x /\ TextOf(s, t) = x /\ HasUnsavedText(s, t)
    BY <1>2, <1>7, AdoptKeeps
  <1>10. \A u \in Tabs \ {t} : Like(saved, q, u)
    BY <1>8, <1>9, OthersAreLike DEF Like
  <1>11. \A u \in Tabs \ {t, n} : Kept(pg, q, u)
    <2>1. \A u \in Tabs \ {t, n} : Like(pg, q, u)
      BY <1>4, <1>10 DEF Like
    <2> QED BY <2>1, LikeIsKept
  <1>12. \/ x = mine /\ Kept(pg, q, n)
         \/ /\ IsOpen(q, n) /\ q.tab[n].path = NoPath /\ q.tab[n].dirty
            /\ q.tab[n].sig = NoText /\ TextOf(q, n) = mine /\ q.tab[n].text = mine
    <2>1. Like(saved, q, n)
      BY <1>1, <1>10
    <2> QED BY <1>1, <1>4, <2>1, LikeIsKept DEF Like, IsOpen, InStep
  <1>13. \/ q.tab[t].sig = x /\ q.tab[t].text = x /\ TextOf(q, t) = x
         \/ /\ t = pg.active /\ TextOf(pg, t) # mine /\ q.tab[t].text = mine
            /\ q.tab[t].sig = pg.tab[t].sig \/ q.tab[t].sig = TextOf(pg, t)
            /\ TextOf(q, t) = TextOf(pg, t)
    <2>1. HasUnsavedText(s, t) => t = pg.active /\ pg.editor # mine
      BY <1>5 DEF HasUnsavedText
    <2> QED BY <1>5, <1>9, <2>1 DEF TextOf
  <1> QED BY <1>1, <1>5, <1>9, <1>11, <1>12, <1>13 DEF q, Same, IsOpen

\* The commit of a save by an agent: done only if the note still shows the text.
LEMMA CommitSaveKeeps ==
  ASSUME NEW pg, Paged(pg), NEW t \in Tabs, NEW p \in Paths, NEW x \in Text
  PROVE  LET q == CommitSave(pg, t, p, x)
         IN /\ Paged(q) /\ \A u \in Tabs \ {t} : Kept(pg, q, u)
            /\ Same(pg, q, t) /\ IsOpen(q, t) = IsOpen(pg, t)
            /\ TextOf(q, t) = TextOf(pg, t) \/ ~IsOpen(pg, t)
            /\ IsOpen(pg, t) /\ InStep(pg, t) => InStep(q, t)
            /\ q.tab[t].text \in {pg.tab[t].text, TextOf(pg, t)}
            /\ \/ q = pg
               \/ /\ IsOpen(pg, t) /\ q.tab[t].path = p /\ ~q.tab[t].dirty
                  /\ q.tab[t].sig = x /\ TextOf(pg, t) = x
  <1> DEFINE free == ReleasePath(pg, t, p)
             known == Remember(free, t, x)
             q == [known EXCEPT !.tab[t].path = p, !.tab[t].dirty = FALSE,
                                !.watched = IF pg.active = t THEN p ELSE @]
  <1>1. CommitSave(pg, t, p, x) = IF ~IsOpen(pg, t) \/ TextOf(pg, t) # x THEN pg ELSE q
    BY DEF CommitSave
  <1>2. Good(CommitSave(pg, t, p, x))
    BY CommitSaveGood DEF Paged
  <1>3. CASE ~IsOpen(pg, t) \/ TextOf(pg, t) # x
    BY <1>1, <1>3, KeptSelf DEF Same
  <1>4. CASE IsOpen(pg, t) /\ TextOf(pg, t) = x
    <2>1. Paged(free) /\ IsOpen(free, t) /\ \A u \in Tabs : Kept(pg, free, u)
      BY <1>4, ReleasePathKeeps
    <2> HIDE DEF free
    <2>2. /\ Paged(known) /\ Elsewhere(free, known, t) /\ known.editor = free.editor
          /\ known.tab[t].sig = x /\ known.tab[t].text = free.tab[t].text
          /\ known.tab[t].state = free.tab[t].state
          /\ TextOf(known, t) = TextOf(free, t)
      BY <2>1, RememberKeeps
    <2> HIDE DEF known
    <2>3. /\ q.active = known.active /\ q.editor = known.editor /\ q.modal = known.modal
          /\ \A u \in Tabs \ {t} : q.tab[u] = known.tab[u]
          /\ q.tab[t].sig = x /\ q.tab[t].text = known.tab[t].text
          /\ q.tab[t].state = known.tab[t].state
          /\ q.tab[t].path = p /\ q.tab[t].dirty = FALSE
      BY <2>2 DEF Paged, Good, Shape, PageFields, TabFields
    <2>4. CommitSave(pg, t, p, x) = q
      BY <1>1, <1>4
    <2> HIDE DEF q
    <2>5. \A u \in Tabs : /\ q.tab[u].text = known.tab[u].text /\ q.tab[u].state = known.tab[u].state
                          /\ q.tab[u].sig = known.tab[u].sig
                          /\ q.tab[u].path \in Paths \cup {NoPath}
      BY <2>2, <2>3 DEF Paged, PageTypes
    <2>6. Paged(q)
      BY <1>2, <2>2, <2>3, <2>4, <2>5 DEF Paged, PageTypes, IsOpen
    <2>7. \A u \in Tabs \ {t} : Kept(pg, q, u)
      <3>1. \A u \in Tabs \ {t} : Kept(free, known, u)
        BY <2>2, OthersAreLike
      <3>2. \A u \in Tabs \ {t} : Like(known, q, u)
        BY <2>3 DEF Like, TextOf
      <3> QED BY <2>1, <3>1, <3>2, LikeIsKept, KeptChain
    <2>8. TextOf(q, t) = TextOf(pg, t) /\ (InStep(pg, t) => InStep(q, t)) /\ IsOpen(q, t)
      <3>1. TextOf(free, t) = TextOf(pg, t) /\ (InStep(pg, t) => InStep(free, t))
        BY <2>1 DEF Kept
      <3>2. TextOf(q, t) = TextOf(known, t)
        BY <2>3 DEF TextOf
      <3> QED BY <2>1, <2>2, <2>3, <3>1, <3>2 DEF InStep, IsOpen
    <2>10. q.tab[t].text \in {pg.tab[t].text, TextOf(pg, t)}
      BY <2>1, <2>2, <2>3 DEF Kept, Solid
    <2>9. Same(pg, q, t)
      BY <1>4, <2>8 DEF Same, IsOpen
    <2> QED BY <1>4, <2>3, <2>4, <2>6, <2>7, <2>8, <2>9, <2>10
  <1> QED BY <1>3, <1>4

\* An answer to a dialog ends it.
LEMMA DialogKeeps ==
  ASSUME NEW pg, Paged(pg), NEW m \in ModalType, NEW b
  PROVE  LET q == [pg EXCEPT !.modal = m]
             r == [pg EXCEPT !.native = b]
         IN /\ Paged(q) /\ q.modal = m /\ \A u \in Tabs : Like(pg, q, u)
            /\ Paged(r) /\ r.modal = pg.modal /\ \A u \in Tabs : Like(pg, r, u)
  <1> DEFINE q == [pg EXCEPT !.modal = m]
             r == [pg EXCEPT !.native = b]
  <1>1. /\ q.active = pg.active /\ q.editor = pg.editor /\ q.modal = m /\ q.tab = pg.tab
        /\ r.active = pg.active /\ r.editor = pg.editor /\ r.modal = pg.modal /\ r.tab = pg.tab
        /\ Shape(q) /\ Shape(r)
    BY DEF Paged, Good, Shape, PageFields
  <1> HIDE DEF q, r
  <1>2. Good(q) /\ Good(r)
    BY <1>1 DEF Paged, Good, Unique
  <1>3. \A u \in Tabs : Like(pg, q, u) /\ Like(pg, r, u)
    BY <1>1 DEF Like, TextOf
  <1>4. Paged(q) /\ Paged(r)
    BY <1>1, <1>2, <1>3, AllAreLike DEF Paged, PageTypes
  <1> QED BY <1>1, <1>3, <1>4 DEF q, r

-----------------------------------------------------------------------------
(* The invariant.  A note shows what its file held, or more; what a save   *)
(* has on its way is in the note; later reads of a file hold what earlier  *)
(* ones held.  All this up to Gone.                                        *)

\* A text of the file p is on its way to the page.
OnWay(p, x) == \E a \in Elems(answers) : a.op \in Adopted /\ a.p = p /\ a.x = x

TabOK(t) ==
    LET tb == page.tab[t]
        x == TextOf(page, t)
    IN /\ tb.path # NoPath => tb.sig # NoText
       /\ tb.sig # NoText => Within(tb.sig, x)
       /\ Within(x, tb.text)
       /\ ~tb.dirty /\ tb.path # NoPath =>
            Within(x, file[tb.path]) /\ Within(x, tb.sig) /\ \A y : OnWay(tb.path, y) => Within(x, y)

Begun(t) == t \in Tabs /\ page.tab[t].state # "unused"
Known(t) == page.tab[t].sig # NoText => Within(page.tab[t].sig, page.tab[t].text)

Carries(c) ==
    /\ Within(c.x, page.tab[c.t].text)
    /\ IsOpen(page, c.t) => Within(c.keep, c.x) /\ Within(c.x, TextOf(page, c.t))

\* The note may have got another file since: that one holds its text, too.
Placed(c) ==
    LET p == page.tab[c.t].path
    IN IsOpen(page, c.t) /\ p \notin {NoPath, c.p} =>
         Within(c.keep, file[p]) /\ \A y : OnWay(p, y) => Within(c.keep, y)

Shown(m) == IsOpen(page, m.t) => Within(m.keep, TextOf(page, m.t)) /\ InStep(page, m.t)

CallOK(c) ==
    /\ c.op \in {"save", "saveas", "reload"} => Begun(c.t)
    /\ c.op \in Saves => Carries(c)
    /\ c.op = "save" => Shown(c) /\ Placed(c) /\ (c.sig # NoText => Within(c.sig, c.x))
    /\ c.op \in {"seen", "open", "refresh", "rpcclose"} => c.p \in Paths

AnswerOK(a) ==
    /\ a.op \in {"saved", "savedas", "unwritten", "conflict", "reload"} => Begun(a.t)
    /\ a.op = "commit" => a.t \in Tabs
    /\ a.op \in {"saved", "savedas"} => Carries(a)
    /\ a.op = "saved" => Placed(a)
    /\ a.op \in {"conflict", "unwritten"} => Shown(a)
    /\ a.op \in FromFile => a.p \in Paths /\ Within(a.x, file[a.p])

DialogOK ==
    /\ page.modal.kind # "none" => Begun(page.modal.t)
    /\ page.modal.kind = "conflict" => Shown(page.modal)

\* The answers tell of the files in the order of what happened to them.
InOrder ==
    \A i, j \in DOMAIN answers :
        i < j /\ answers[i].op \in FromFile /\ answers[j].op \in Adopted
              /\ answers[i].p = answers[j].p
            => Within(answers[i].x, answers[j].x)

Asked(t) == page.modal.kind = "conflict" /\ page.modal.t = t

\* A note waits for one thing at most: a call, an answer, or the user.
Alone(t) ==
    /\ Single(calls, t) /\ Single(answers, t)
    /\ PendingIn(calls, t) = {} \/ PendingIn(answers, t) = {}
    /\ Asked(t) => PendingIn(calls, t) = {} /\ PendingIn(answers, t) = {}
    /\ t \notin inflight => /\ PendingIn(calls, t) = {} /\ PendingIn(answers, t) = {}
                            /\ ~Asked(t)

RoomLeft == Cardinality(Unused(page)) >=
              Cardinality(Opening(calls)) + Cardinality(Opening(answers))

\* An edit that is in a file or in a note marked unsaved, or that is gone.
Held(e) ==
    \/ e \in Gone
    \/ \E p \in Paths : e \in file[p]
    \/ \E t \in Tabs : IsOpen(page, t) /\ page.tab[t].dirty /\ e \in TextOf(page, t)

MadeNow(e, n, m) == e \in 1..n \/ e \in (MaxEdits + 1)..(MaxEdits + m)

RpcOK ==
    /\ rpc.pc # "idle" => rpc.t \in Tabs /\ rpc.p \in Paths
    /\ rpc.pc = "write" /\ rpc.own # NoPath => rpc.sig # NoText /\ Within(rpc.sig, rpc.x)

Data ==
    /\ file \in [Paths -> Text] /\ run \in [Paths -> Text \cup {NoText}]
    /\ calls \in Seq(CallType) /\ answers \in Seq(CallType) /\ rpc \in RpcType
    /\ changed \in Paths \cup {NoPath} /\ waits \in [Tabs -> SUBSET Kinds]
    /\ edits \in Nat /\ edits <= MaxEdits /\ foreign \in Nat /\ foreign <= MaxForeign

NotesOK == \A t \in Tabs : /\ IsOpen(page, t) => TabOK(t)
                           /\ Begun(t) => Known(t)
                           /\ waits[t] # {} => Begun(t)
                           /\ Alone(t)
CallsOK == \A c \in Elems(calls) : CallOK(c)
AnswersOK == \A a \in Elems(answers) : AnswerOK(a)
AllHeld == \A e : MadeNow(e, edits, foreign) => Held(e)

Inv ==
    /\ Data /\ Paged(page)
    /\ NotesOK /\ CallsOK /\ AnswersOK /\ DialogOK /\ InOrder
    /\ RoomLeft /\ RpcOK /\ AllHeld

-----------------------------------------------------------------------------
(* What is kept from one state to the next *)

\* No file loses an edit that is not gone.
Grows == Gone \subseteq Gone' /\ \A p \in Paths : file[p] \subseteq file'[p] \cup Gone'

\* Texts that are newly on their way are what the file holds.
ReadsNew == \A p, x : OnWay(p, x)' => OnWay(p, x) \/ x = file'[p]

\* The note has got a file that holds what it showed.
Rebound(t) ==
    \E p \in Paths :
        /\ p = page'.tab[t].path /\ TextOf(page, t) \subseteq file'[p] \cup Gone'
        /\ \A y : OnWay(p, y)' => TextOf(page, t) \subseteq y \cup Gone'

\* What a step leaves of a note, for the saves it has under way.
Carried(t) ==
    /\ Same(page, page', t)
    /\ page'.tab[t].text \in {page.tab[t].text}
                           \cup (IF IsOpen(page, t) THEN {TextOf(page, t)} ELSE {})
                           \cup (IF IsOpen(page', t) THEN {TextOf(page', t)} ELSE {})
    /\ IsOpen(page', t) =>
         /\ IsOpen(page, t) /\ TextOf(page, t) \subseteq TextOf(page', t) \cup Gone'
         /\ InStep(page, t) => InStep(page', t)
         /\ page'.tab[t].path \in {page.tab[t].path, NoPath} \/ Rebound(t)

LEMMA KeptIsCarried ==
  ASSUME NEW t, Kept(page, page', t) PROVE Carried(t)
  <1>1. Same(page, page', t)
    BY DEF Kept
  <1>2. page'.tab[t].text \in {page.tab[t].text}
                             \cup (IF IsOpen(page, t) THEN {TextOf(page, t)} ELSE {})
    BY DEF Kept, Solid
  <1>3. IsOpen(page', t) =>
         /\ IsOpen(page, t) /\ TextOf(page', t) = TextOf(page, t)
         /\ InStep(page, t) => InStep(page', t)
         /\ page'.tab[t].path \in {page.tab[t].path, NoPath}
    BY DEF Kept
  <1> QED BY <1>1, <1>2, <1>3 DEF Carried

LEMMA TabFrame ==
  ASSUME Data, Paged(page), NEW t \in Tabs, IsOpen(page, t) => TabOK(t), Grows, ReadsNew,
         Kept(page, page', t), IsOpen(page', t)
  PROVE  TabOK(t)'
  <1>1. /\ TabOK(t) /\ TextOf(page', t) = TextOf(page, t)
        /\ page'.tab[t].sig = page.tab[t].sig /\ IsOpen(page, t)
        /\ page'.tab[t].text \in {page.tab[t].text, TextOf(page, t)}
        /\ \/ page'.tab[t].path = page.tab[t].path /\ page'.tab[t].dirty = page.tab[t].dirty
           \/ page'.tab[t].path = NoPath /\ page'.tab[t].dirty
    BY DEF Kept, Solid
  <1>2. Gone \subseteq Gone' /\ \A p \in Paths : file[p] \subseteq file'[p] \cup Gone'
    BY DEF Grows
  <1> PICK x : x = TextOf(page, t)
    OBVIOUS
  <1> PICK tb : tb = page.tab[t]
    OBVIOUS
  <1>3. /\ tb.path # NoPath => tb.sig # NoText
        /\ tb.sig # NoText => tb.sig \subseteq x \cup Gone
        /\ x \subseteq tb.text \cup Gone
        /\ ~tb.dirty /\ tb.path # NoPath =>
             /\ x \subseteq file[tb.path] \cup Gone /\ x \subseteq tb.sig \cup Gone
             /\ \A y : OnWay(tb.path, y) => x \subseteq y \cup Gone
        /\ tb.path \in Paths \cup {NoPath}
    BY <1>1 DEF TabOK, Within, Paged, PageTypes
  <1>4. CASE page'.tab[t].path = tb.path /\ page'.tab[t].dirty = tb.dirty
    <2>1. ~tb.dirty /\ tb.path # NoPath =>
             /\ x \subseteq file'[tb.path] \cup Gone' /\ x \subseteq tb.sig \cup Gone'
             /\ \A y : OnWay(tb.path, y)' => x \subseteq y \cup Gone'
      BY <1>2, <1>3 DEF ReadsNew
    <2> QED BY <1>1, <1>2, <1>3, <1>4, <2>1 DEF TabOK, Within
  <1>5. CASE page'.tab[t].path = NoPath /\ page'.tab[t].dirty
    BY <1>1, <1>2, <1>3, <1>5 DEF TabOK, Within
  <1> QED BY <1>1, <1>4, <1>5

LEMMA KnownFrame ==
  ASSUME NEW t \in Tabs, Begun(t) => Known(t), IsOpen(page, t) => TabOK(t), Grows,
         Same(page, page', t), Solid(page, page', t), Begun(t)'
  PROVE  Known(t)'
  BY DEF Begun, Known, TabOK, Within, Grows, Same, Solid

LEMMA CarriesFrame ==
  ASSUME NEW c, c.t \in Tabs, Carries(c), Carried(c.t), Grows
  PROVE  Carries(c)'
  BY DEF Carries, Carried, Within, Grows, IsOpen

LEMMA PlacedFrame ==
  ASSUME Paged(page), NEW c, c.t \in Tabs, Placed(c), Carries(c), Carried(c.t), Grows, ReadsNew
  PROVE  Placed(c)'
  <1> PICK p : p = page'.tab[c.t].path
    OBVIOUS
  <1>1. CASE ~(IsOpen(page', c.t) /\ p \notin {NoPath, c.p})
    BY <1>1 DEF Placed
  <1>2. CASE IsOpen(page', c.t) /\ p \notin {NoPath, c.p}
    <2>1. IsOpen(page, c.t) /\ (p = page.tab[c.t].path \/ Rebound(c.t))
      BY <1>2 DEF Carried
    <2>2. Gone \subseteq Gone'
      BY DEF Grows
    <2>3. c.keep \subseteq file'[p] \cup Gone' /\ \A y : OnWay(p, y)' => c.keep \subseteq y \cup Gone'
      <3>1. CASE p = page.tab[c.t].path
        <4>1. p \in Paths
          BY <1>2, <3>1 DEF Paged, PageTypes
        <4>2. /\ c.keep \subseteq file[p] \cup Gone
              /\ \A y : OnWay(p, y) => c.keep \subseteq y \cup Gone
          BY <1>2, <2>1, <3>1 DEF Placed, Within
        <4>3. file[p] \subseteq file'[p] \cup Gone'
          BY <4>1 DEF Grows
        <4> QED BY <2>2, <4>2, <4>3 DEF ReadsNew
      <3>2. CASE Rebound(c.t)
        <4>1. c.keep \subseteq TextOf(page, c.t) \cup Gone
          BY <2>1 DEF Carries, Within
        <4>2. /\ TextOf(page, c.t) \subseteq file'[p] \cup Gone'
              /\ \A y : OnWay(p, y)' => TextOf(page, c.t) \subseteq y \cup Gone'
          <5>1. PICK r \in Paths :
                  /\ r = page'.tab[c.t].path /\ TextOf(page, c.t) \subseteq file'[r] \cup Gone'
                  /\ \A y : OnWay(r, y)' => TextOf(page, c.t) \subseteq y \cup Gone'
            BY <3>2 DEF Rebound
          <5>2. r = p
            BY <5>1
          <5> QED BY <5>1, <5>2
        <4> QED BY <2>2, <4>1, <4>2
      <3> QED BY <2>1, <3>1, <3>2
    <2> QED BY <1>2, <2>3 DEF Placed, Within
  <1> QED BY <1>1, <1>2

LEMMA ShownFrame ==
  ASSUME NEW m, m.t \in Tabs, Shown(m), Carried(m.t), Grows
  PROVE  Shown(m)'
  BY DEF Shown, Carried, Within, Grows

LEMMA CallFrame ==
  ASSUME Paged(page), NEW c, CallOK(c), Grows, ReadsNew, c.op \in Pends => Carried(c.t)
  PROVE  CallOK(c)'
  <1>1. c.op \in {"save", "saveas", "reload"} => Begun(c.t)' /\ c.t \in Tabs /\ Carried(c.t)
    BY DEF CallOK, Begun, Carried, Same, Pends
  <1>2. c.op \in Saves => Carries(c)'
    BY <1>1, CarriesFrame DEF CallOK, Saves
  <1>3. c.op = "save" => Shown(c)' /\ Placed(c)'
    BY <1>1, ShownFrame, PlacedFrame DEF CallOK, Saves
  <1>4. c.op = "save" /\ c.sig # NoText => Within(c.sig, c.x)'
    BY DEF CallOK, Within, Grows
  <1> QED BY <1>1, <1>2, <1>3, <1>4 DEF CallOK

LEMMA AnswerFrame ==
  ASSUME Paged(page), NEW a, AnswerOK(a), Grows, ReadsNew, a.op \in Pends => Carried(a.t)
  PROVE  AnswerOK(a)'
  <1>1. a.op \in {"saved", "savedas", "unwritten", "conflict", "reload"} =>
           Begun(a.t)' /\ a.t \in Tabs /\ Carried(a.t)
    BY DEF AnswerOK, Begun, Carried, Same, Pends
  <1>2. a.op \in {"saved", "savedas"} => Carries(a)'
    BY <1>1, CarriesFrame DEF AnswerOK
  <1>3. (a.op = "saved" => Placed(a)') /\ (a.op \in {"conflict", "unwritten"} => Shown(a)')
    BY <1>1, ShownFrame, PlacedFrame DEF AnswerOK
  <1>4. a.op \in FromFile => a.p \in Paths /\ Within(a.x, file[a.p])'
    BY DEF AnswerOK, Within, Grows
  <1>5. a.op = "commit" => a.t \in Tabs
    BY DEF AnswerOK
  <1> QED BY <1>1, <1>2, <1>3, <1>4, <1>5 DEF AnswerOK

LEMMA HeldFrame ==
  ASSUME Grows, NEW e, Held(e),
         \A t \in Tabs : IsOpen(page, t) /\ page.tab[t].dirty /\ e \in TextOf(page, t)
                            => Held(e)'
  PROVE  Held(e)'
  <1>1. CASE e \in Gone
    BY <1>1 DEF Grows, Held
  <1>2. CASE \E p \in Paths : e \in file[p]
    BY <1>2 DEF Grows, Held
  <1>3. CASE \E t \in Tabs : IsOpen(page, t) /\ page.tab[t].dirty /\ e \in TextOf(page, t)
    BY <1>3
  <1> QED BY <1>1, <1>2, <1>3 DEF Held

LEMMA KeptHolds ==
  ASSUME NEW t \in Tabs, Kept(page, page', t), IsOpen(page, t), page.tab[t].dirty,
         NEW e \in TextOf(page, t)
  PROVE  Held(e)'
  BY DEF Kept, Held

LEMMA OrderOfTail ==
  ASSUME Data, InOrder, answers # <<>>, answers' = Tail(answers), Gone \subseteq Gone'
  PROVE  InOrder'
  <1>1. \A i \in DOMAIN Tail(answers) :
           i + 1 \in DOMAIN answers /\ Tail(answers)[i] = answers[i + 1] /\ i \in Nat
    BY ElemsOfTail DEF Data
  <1> SUFFICES ASSUME NEW i \in DOMAIN Tail(answers), NEW j \in DOMAIN Tail(answers), i < j,
                      Tail(answers)[i].op \in FromFile, Tail(answers)[j].op \in Adopted,
                      Tail(answers)[i].p = Tail(answers)[j].p
               PROVE  Tail(answers)[i].x \subseteq Tail(answers)[j].x \cup Gone'
    BY DEF InOrder, Within
  <1>2. i + 1 < j + 1
    BY <1>1
  <1>3. answers[i + 1].x \subseteq answers[j + 1].x \cup Gone
    BY <1>1, <1>2 DEF InOrder, Within
  <1> QED BY <1>1, <1>3

LEMMA HeadComesFirst ==
  ASSUME Data, InOrder, answers # <<>>, answers' = Tail(answers),
         Head(answers).op \in FromFile, NEW y, NEW p, p = Head(answers).p, OnWay(p, y)'
  PROVE  Within(Head(answers).x, y)
  <1>1. PICK j \in DOMAIN Tail(answers) :
           /\ Tail(answers)[j].op \in Adopted /\ Tail(answers)[j].p = Head(answers).p
           /\ Tail(answers)[j].x = y
    BY DEF OnWay, Elems
  <1>2. /\ j + 1 \in DOMAIN answers /\ Tail(answers)[j] = answers[j + 1] /\ j \in Nat /\ j >= 1
        /\ Head(answers) = answers[1] /\ 1 \in DOMAIN answers
    BY ElemsOfTail DEF Data
  <1>3. 1 < j + 1
    BY <1>2
  <1> QED BY <1>1, <1>2, <1>3 DEF InOrder

LEMMA OrderOfAppend ==
  ASSUME Data, InOrder, AnswersOK, NEW c \in CallType, answers' = Append(answers, c),
         Gone \subseteq Gone', c.op \in Adopted => c.x = file[c.p]
  PROVE  InOrder'
  <1>1. /\ Len(answers') = Len(answers) + 1 /\ Len(answers) \in Nat
        /\ \A i \in 1..Len(answers) : answers'[i] = answers[i]
        /\ answers'[Len(answers) + 1] = c
    BY DEF Data
  <1>2. DOMAIN answers = 1..Len(answers) /\ DOMAIN answers' = 1..(Len(answers) + 1)
    BY <1>1 DEF Data
  <1> SUFFICES ASSUME NEW i \in DOMAIN answers', NEW j \in DOMAIN answers', i < j,
                      answers'[i].op \in FromFile, answers'[j].op \in Adopted,
                      answers'[i].p = answers'[j].p
               PROVE  answers'[i].x \subseteq answers'[j].x \cup Gone'
    BY DEF InOrder, Within
  <1>3. i \in DOMAIN answers /\ answers'[i] = answers[i]
    BY <1>1, <1>2
  <1>4. CASE j \in DOMAIN answers
    <2>1. answers[i].x \subseteq answers[j].x \cup Gone
      BY <1>1, <1>2, <1>3, <1>4 DEF InOrder, Within
    <2> QED BY <1>1, <1>2, <1>3, <1>4, <2>1
  <1>5. CASE j \notin DOMAIN answers
    <2>1. answers'[j] = c
      BY <1>1, <1>2, <1>5
    <2>2. answers[i] \in Elems(answers)
      BY <1>3 DEF Elems
    <2>3. answers[i].x \subseteq file[answers[i].p] \cup Gone
      BY <1>3, <2>2 DEF AnswersOK, AnswerOK, Within
    <2> QED BY <1>3, <2>1, <2>3
  <1> QED BY <1>4, <1>5

LEMMA ReadsOfTail ==
  ASSUME Data, answers # <<>>, answers' = Tail(answers)
  PROVE  \A p, x : OnWay(p, x)' => OnWay(p, x)
  BY ElemsOfTail DEF OnWay, Data

LEMMA ReadsOfAppend ==
  ASSUME Data, NEW c \in CallType, answers' = Append(answers, c)
  PROVE  \A p, x : OnWay(p, x)' => OnWay(p, x) \/ (c.op \in Adopted /\ c.p = p /\ c.x = x)
  BY ElemsOfAppend DEF OnWay, Data

\* No operator of the page but the dialogs' own changes the dialog.
LEMMA DialogStays ==
  /\ \A q, u : Shape(q) => SelectTab(q, u).modal = q.modal
  /\ \A q, R : Shape(q) => RemoveTabs(q, R).modal = q.modal
  /\ \A q, u : Shape(q) => Arm(q, u).modal = q.modal
  /\ \A q, u, z : Shape(q) => Remember(q, u, z).modal = q.modal
  /\ \A q, u, z : Shape(q) => Adopt(q, u, z).modal = q.modal
  /\ \A q, u, z : Shape(q) => Reconcile(q, u, z).modal = q.modal
  /\ \A q, u, z : Shape(q) => MarkSavedUpTo(q, u, z).modal = q.modal
  /\ \A q, u, p : Shape(q) => ReleasePath(q, u, p).modal = q.modal
  /\ \A q, u, p, z, d : Shape(q) => NewTab(q, u, p, z, d).modal = q.modal
  /\ \A q, u, kind, ok : Shape(q) => AfterSave(q, u, kind, ok).modal = q.modal
  /\ \A q, u, y, z : Shape(q) => Reload(q, u, y, z).modal = q.modal
  /\ \A q, u, p, z : Shape(q) => CommitSave(q, u, p, z).modal = q.modal
  <1>1. \A q, u : Shape(q) => SelectTab(q, u).modal = q.modal /\ Shape(SelectTab(q, u))
    BY DEF SelectTab, Shape, PageFields, TabFields, IsOpen
  <1>2. \A q, R : Shape(q) => RemoveTabs(q, R).modal = q.modal /\ Shape(RemoveTabs(q, R))
    <2> TAKE q, R
    <2> HAVE Shape(q)
    <2> DEFINE c == [q EXCEPT !.tab = [u \in Tabs |->
                      IF u \in R /\ IsOpen(q, u)
                      THEN [q.tab[u] EXCEPT !.state = "closed", !.timer = FALSE]
                      ELSE q.tab[u]]]
               none == [c EXCEPT !.active = NoTab]
               empty == [c EXCEPT !.active = NoTab, !.editor = {}]
    <2>1. /\ Shape(c) /\ c.modal = q.modal /\ Shape(none) /\ none.modal = q.modal
          /\ Shape(empty) /\ empty.modal = q.modal
      BY DEF Shape, PageFields, TabFields
    <2>2. \E u : RemoveTabs(q, R) \in {c, empty, SelectTab(none, u)}
      BY DEF RemoveTabs
    <2> HIDE DEF c, none, empty
    <2> QED BY <1>1, <2>1, <2>2
  <1>3. \A q, u : Shape(q) => Arm(q, u).modal = q.modal /\ Shape(Arm(q, u))
    BY DEF Arm, Shape, PageFields, TabFields
  <1>4. \A q, u, z : Shape(q) => Remember(q, u, z).modal = q.modal /\ Shape(Remember(q, u, z))
    BY DEF Remember, Shape, PageFields, TabFields
  <1>5. \A q, u, z : Shape(q) => Adopt(q, u, z).modal = q.modal
    <2> TAKE q, u, z
    <2> HAVE Shape(q)
    <2> PICK r : r = Remember(q, u, z)
      OBVIOUS
    <2>1. Shape(r) /\ r.modal = q.modal
      BY <1>4
    <2>2. Adopt(q, u, z) \in {q, r, [r EXCEPT !.tab[u].text = z,
                                          !.editor = IF q.active = u THEN z ELSE @]}
      BY DEF Adopt
    <2> QED BY <2>1, <2>2 DEF Shape, PageFields
  <1>6. \A q, u, z : Shape(q) => Reconcile(q, u, z).modal = q.modal
    BY <1>5 DEF Reconcile, Shape, PageFields
  <1>7. \A pg, t, x : Shape(pg) => /\ MarkSavedUpTo(pg, t, x).modal = pg.modal
                                   /\ Shape(MarkSavedUpTo(pg, t, x))
    <2> TAKE pg, t, x
    <2> HAVE Shape(pg)
    <2> DEFINE q == [pg EXCEPT !.tab[t].dirty = IsOpen(pg, t) /\ TextOf(pg, t) # x,
                               !.tab[t].failed = FALSE]
    <2>1. Shape(q) /\ q.modal = pg.modal
      BY DEF Shape, PageFields, TabFields
    <2>2. MarkSavedUpTo(pg, t, x) \in {q, Arm(q, t)}
      BY DEF MarkSavedUpTo
    <2> HIDE DEF q
    <2> QED BY <1>3, <2>1, <2>2
  <1>8. \A pg, t, p : Shape(pg) => /\ ReleasePath(pg, t, p).modal = pg.modal
                                   /\ Shape(ReleasePath(pg, t, p))
    <2> TAKE pg, t, p
    <2> HAVE Shape(pg)
    <2> DEFINE others == OwnersOf(pg, p) \ {t}
               kept == {o \in others : HasUnsavedText(pg, o)}
               q == [pg EXCEPT
                       !.tab = [o \in Tabs |-> IF o \in kept
                                 THEN [pg.tab[o] EXCEPT !.path = NoPath, !.dirty = TRUE]
                                 ELSE pg.tab[o]],
                       !.watched = IF pg.active \in kept THEN NoPath ELSE @]
    <2>1. Shape(q) /\ q.modal = pg.modal
      BY DEF Shape, PageFields, TabFields
    <2>2. ReleasePath(pg, t, p) = RemoveTabs(q, others \ kept)
      BY DEF ReleasePath
    <2> HIDE DEF q
    <2> QED BY <1>2, <2>1, <2>2
  <1>9. \A pg, t, p, x, b : Shape(pg) => /\ NewTab(pg, t, p, x, b).modal = pg.modal
                                         /\ Shape(NewTab(pg, t, p, x, b))
    BY DEF NewTab, Shape, PageFields, TabFields
  <1>10. \A pg, t, kind, b : Shape(pg) => AfterSave(pg, t, kind, b).modal = pg.modal
    <2> TAKE pg, t, kind, b
    <2> HAVE Shape(pg)
    <2> DEFINE q == [pg EXCEPT !.tab[t].prompt = FALSE]
    <2>1. Shape(q) /\ q.modal = pg.modal
      BY DEF Shape, PageFields, TabFields
    <2>2. AfterSave(pg, t, kind, b) \in {pg, q, Arm(pg, t), Arm(q, t), RemoveTabs(pg, {t}),
                                         RemoveTabs(q, {t})}
      BY DEF AfterSave
    <2> HIDE DEF q
    <2> QED BY <1>2, <1>3, <2>1, <2>2
  <1>11. \A pg, t, y, x : Shape(pg) => Reload(pg, t, y, x).modal = pg.modal
    <2> TAKE pg, t, y, x
    <2> HAVE Shape(pg)
    <2> DEFINE q == IF x = y THEN pg ELSE NewTab(pg, Fresh(pg), NoPath, y, TRUE)
               r == [q EXCEPT !.tab[t].dirty = FALSE, !.tab[t].text = y]
    <2>1. Shape(q) /\ q.modal = pg.modal
      BY DEF NewTab, Shape, PageFields, TabFields
    <2>2. Reload(pg, t, y, x) = Adopt(r, t, x)
      BY DEF Reload
    <2> HIDE DEF q
    <2>3. Shape(r) /\ r.modal = pg.modal
      BY <2>1 DEF Shape, PageFields, TabFields
    <2> HIDE DEF r
    <2> QED BY <1>5, <2>2, <2>3
  <1>12. \A pg, t, p, x : Shape(pg) => CommitSave(pg, t, p, x).modal = pg.modal
    <2> TAKE pg, t, p, x
    <2> HAVE Shape(pg)
    <2> PICK q : q = Remember(ReleasePath(pg, t, p), t, x)
      OBVIOUS
    <2>1. Shape(q) /\ q.modal = pg.modal
      BY <1>4, <1>8
    <2>2. CommitSave(pg, t, p, x) \in {pg,
             [q EXCEPT !.tab[t].path = p, !.tab[t].dirty = FALSE,
                       !.watched = IF pg.active = t THEN p ELSE @]}
      BY DEF CommitSave
    <2> QED BY <2>1, <2>2 DEF Shape, PageFields
  <1> QED BY <1>1, <1>2, <1>3, <1>4, <1>5, <1>6, <1>7, <1>8, <1>9, <1>10, <1>11, <1>12

-----------------------------------------------------------------------------
(* How the queues move *)

Free(t) == PendingIn(calls, t) = {} /\ PendingIn(answers, t) = {} /\ ~Asked(t)

\* Nothing moves; a note may be done with its save.
LEMMA AloneStays ==
  ASSUME \A t \in Tabs : Alone(t), UNCHANGED <<calls, answers>>,
         \A t : Asked(t)' => Asked(t),
         \A t \in inflight : t \in inflight' \/ Free(t)'
  PROVE  \A t \in Tabs : Alone(t)'
  <1> TAKE t \in Tabs
  <1>1. /\ Single(calls, t)' = Single(calls, t) /\ Single(answers, t)' = Single(answers, t)
        /\ PendingIn(calls, t)' = PendingIn(calls, t)
        /\ PendingIn(answers, t)' = PendingIn(answers, t)
    BY DEF Single, PendingIn
  <1>2. Alone(t) /\ (Asked(t)' => Asked(t))
    OBVIOUS
  <1>3. t \notin inflight' => Free(t)' \/ t \notin inflight
    OBVIOUS
  <1> QED BY <1>1, <1>2, <1>3 DEF Alone, Free

\* The page makes a call.
LEMMA AloneCalls ==
  ASSUME Data, \A t \in Tabs : Alone(t), NEW c \in CallType, calls' = Append(calls, c),
         UNCHANGED answers, inflight \subseteq inflight',
         \A t : Asked(t)' => Asked(t) /\ ~(c.op \in Pends /\ c.t = t),
         c.op \in Pends => c.t \in inflight' /\ PendingIn(calls, c.t) = {}
                           /\ PendingIn(answers, c.t) = {}
  PROVE  \A t \in Tabs : Alone(t)'
  <1> TAKE t \in Tabs
  <1>1. /\ Single(answers, t)' = Single(answers, t)
        /\ PendingIn(answers, t)' = PendingIn(answers, t)
        /\ PendingIn(calls, t)' = PendingIn(Append(calls, c), t)
        /\ Single(calls, t)' = Single(Append(calls, c), t)
    BY DEF Single, PendingIn
  <1>2. /\ PendingIn(Append(calls, c), t) = PendingIn(calls, t) \cup
              (IF c.op \in Pends /\ c.t = t THEN {Len(calls) + 1} ELSE {})
        /\ PendingIn(calls, t) = {} => Single(Append(calls, c), t)
        /\ Single(calls, t) /\ ~(c.op \in Pends /\ c.t = t) => Single(Append(calls, c), t)
    BY PendingOfAppend DEF Data
  <1>3. Alone(t)
    OBVIOUS
  <1>4. CASE c.op \in Pends /\ c.t = t
    BY <1>1, <1>2, <1>3, <1>4 DEF Alone
  <1>5. CASE ~(c.op \in Pends /\ c.t = t)
    BY <1>1, <1>2, <1>3, <1>5 DEF Alone
  <1> QED BY <1>4, <1>5

\* Go serves a call.
LEMMA AloneServed ==
  ASSUME Data, \A t \in Tabs : Alone(t), NEW a \in CallType, calls # <<>>,
         calls' = Tail(calls), answers' = Append(answers, a), UNCHANGED <<page, inflight>>,
         a.op \in Pends => Head(calls).op \in Pends /\ a.t = Head(calls).t
  PROVE  \A t \in Tabs : Alone(t)'
  <1> TAKE t \in Tabs
  <1>1. /\ PendingIn(calls, t)' = PendingIn(Tail(calls), t)
        /\ Single(calls, t)' = Single(Tail(calls), t)
        /\ PendingIn(answers, t)' = PendingIn(Append(answers, a), t)
        /\ Single(answers, t)' = Single(Append(answers, a), t)
        /\ Asked(t)' = Asked(t)
    BY DEF Single, PendingIn, Asked
  <1>2. Alone(t) /\ Single(calls, t)
    BY DEF Alone
  <1>3. /\ Single(Tail(calls), t)
        /\ PendingIn(calls, t) = {} => PendingIn(Tail(calls), t) = {}
        /\ Head(calls).op \in Pends /\ Head(calls).t = t =>
              PendingIn(calls, t) # {} /\ PendingIn(Tail(calls), t) = {}
    BY <1>2, PendingOfTail DEF Data
  <1>4. /\ PendingIn(Append(answers, a), t) = PendingIn(answers, t) \cup
              (IF a.op \in Pends /\ a.t = t THEN {Len(answers) + 1} ELSE {})
        /\ PendingIn(answers, t) = {} => Single(Append(answers, a), t)
        /\ Single(answers, t) /\ ~(a.op \in Pends /\ a.t = t) => Single(Append(answers, a), t)
    BY PendingOfAppend DEF Data
  <1>5. CASE a.op \in Pends /\ a.t = t
    BY <1>1, <1>2, <1>3, <1>4, <1>5 DEF Alone
  <1>6. CASE ~(a.op \in Pends /\ a.t = t)
    BY <1>1, <1>2, <1>3, <1>4, <1>6 DEF Alone
  <1> QED BY <1>5, <1>6

\* The page handles an answer; the note may ask the user then.
LEMMA AloneHandled ==
  ASSUME Data, \A t \in Tabs : Alone(t), answers # <<>>,
         answers' = Tail(answers), UNCHANGED calls,
         \A t : Asked(t)' => Asked(t) \/ (Head(answers).op \in Pends /\ Head(answers).t = t
                                          /\ inflight' = inflight),
         \A t \in inflight : t \in inflight' \/ (Head(answers).op \in Pends /\ Head(answers).t = t)
  PROVE  /\ \A t \in Tabs : Alone(t)'
         /\ \A t \in Tabs : Head(answers).op \in Pends /\ Head(answers).t = t =>
                PendingIn(calls, t) = {} /\ PendingIn(Tail(answers), t) = {}
                /\ ~Asked(t) /\ t \in inflight
  <1>1. ASSUME NEW t \in Tabs
        PROVE  /\ Alone(t)'
               /\ Head(answers).op \in Pends /\ Head(answers).t = t =>
                      PendingIn(calls, t) = {} /\ PendingIn(Tail(answers), t) = {}
                      /\ ~Asked(t) /\ t \in inflight
    <2>1. /\ PendingIn(answers, t)' = PendingIn(Tail(answers), t)
          /\ Single(answers, t)' = Single(Tail(answers), t)
          /\ PendingIn(calls, t)' = PendingIn(calls, t)
          /\ Single(calls, t)' = Single(calls, t)
      BY DEF Single, PendingIn
    <2>2. Alone(t) /\ Single(answers, t)
      BY DEF Alone
    <2>3. /\ Single(Tail(answers), t)
          /\ PendingIn(answers, t) = {} => PendingIn(Tail(answers), t) = {}
          /\ Head(answers).op \in Pends /\ Head(answers).t = t =>
                PendingIn(answers, t) # {} /\ PendingIn(Tail(answers), t) = {}
      BY <2>2, PendingOfTail DEF Data
    <2>4. CASE Head(answers).op \in Pends /\ Head(answers).t = t
      <3>1. PendingIn(calls, t) = {} /\ PendingIn(Tail(answers), t) = {} /\ ~Asked(t) /\ t \in inflight
        BY <2>2, <2>3, <2>4 DEF Alone
      <3>2. Asked(t)' => t \in inflight'
        BY <3>1
      <3> QED BY <2>1, <2>2, <2>3, <2>4, <3>1, <3>2 DEF Alone
    <2>5. CASE ~(Head(answers).op \in Pends /\ Head(answers).t = t)
      <3>1. Asked(t)' => Asked(t)
        BY <2>5
      <3>2. t \in inflight => t \in inflight'
        BY <2>5
      <3> QED BY <2>1, <2>2, <2>3, <2>5, <3>1, <3>2 DEF Alone
    <2> QED BY <2>4, <2>5
  <1> QED BY <1>1

\* An answer is added that no note waits for.
LEMMA AloneAnswers ==
  ASSUME Data, \A t \in Tabs : Alone(t), NEW a \in CallType, a.op \notin Pends,
         answers' = Append(answers, a), UNCHANGED <<calls, page, inflight>>
  PROVE  \A t \in Tabs : Alone(t)'
  <1> TAKE t \in Tabs
  <1>1. /\ PendingIn(calls, t)' = PendingIn(calls, t) /\ Single(calls, t)' = Single(calls, t)
        /\ PendingIn(answers, t)' = PendingIn(Append(answers, a), t)
        /\ Single(answers, t)' = Single(Append(answers, a), t)
        /\ Asked(t)' = Asked(t)
    BY DEF Single, PendingIn, Asked
  <1>2. Alone(t) /\ Single(answers, t)
    BY DEF Alone
  <1>3. PendingIn(Append(answers, a), t) = PendingIn(answers, t) /\ Single(Append(answers, a), t)
    <2>1. answers \in Seq(CallType) /\ ~(a.op \in Pends /\ a.t = t)
      BY DEF Data
    <2>2. PendingIn(Append(answers, a), t) = PendingIn(answers, t) \cup
              (IF a.op \in Pends /\ a.t = t THEN {Len(answers) + 1} ELSE {})
      BY <2>1, PendingOfAppend
    <2>3. Single(answers, t) => Single(Append(answers, a), t)
      BY <2>1, PendingOfAppend
    <2> QED BY <1>2, <2>1, <2>2, <2>3
  <1>4. /\ Single(calls, t)' /\ Single(answers, t)'
        /\ PendingIn(calls, t)' = {} \/ PendingIn(answers, t)' = {}
        /\ Asked(t)' => PendingIn(calls, t)' = {} /\ PendingIn(answers, t)' = {}
    BY <1>1, <1>2, <1>3 DEF Alone
  <1>5. t \notin inflight' => /\ PendingIn(calls, t)' = {} /\ PendingIn(answers, t)' = {}
                              /\ ~Asked(t)'
    BY <1>1, <1>2, <1>3 DEF Alone
  <1> QED BY <1>4, <1>5 DEF Alone

\* The tabs that are left are enough for the texts on their way.
LEMMA RoomStays ==
  ASSUME RoomLeft, \A t \in Tabs : Same(page, page', t), UNCHANGED <<calls, answers>>
  PROVE  RoomLeft'
  <1>1. Unused(page') = Unused(page)
    BY DEF Unused, Same
  <1>2. Opening(calls') = Opening(calls) /\ Opening(answers') = Opening(answers)
    BY DEF Opening
  <1> QED BY <1>1, <1>2 DEF RoomLeft

LEMMA UnusedFinite ==
  ASSUME NEW pg
  PROVE  IsFiniteSet(Unused(pg)) /\ Cardinality(Unused(pg)) \in Nat
  <1>1. Unused(pg) \in SUBSET Tabs
    BY DEF Unused
  <1>2. IsFiniteSet(Unused(pg))
    BY <1>1, FS_Subset DEF NoteFileAssumption
  <1> QED BY <1>2, FS_CardinalityType

LEMMA RoomToCall ==
  ASSUME Data, RoomLeft, \A t \in Tabs : Same(page, page', t), NEW c \in CallType,
         calls' = Append(calls, c), UNCHANGED answers, c.op \in Opens => RoomForTab
  PROVE  RoomLeft'
  <1>1. Unused(page') = Unused(page)
    BY DEF Unused, Same
  <1>2. /\ Cardinality(Opening(calls')) =
             Cardinality(Opening(calls)) + (IF c.op \in Opens THEN 1 ELSE 0)
        /\ Cardinality(Opening(calls)) \in Nat
    BY OpeningOfAppend, OpeningFinite DEF Data
  <1>3. Opening(answers') = Opening(answers)
    BY DEF Opening
  <1>4. Cardinality(Opening(answers)) \in Nat /\ Cardinality(Unused(page)) \in Nat
    BY OpeningFinite, UnusedFinite DEF Data
  <1>5. RoomForTab => Cardinality(Unused(page)) >
                        Cardinality(Opening(calls)) + Cardinality(Opening(answers))
    BY DEF RoomForTab, Opening, Opens
  <1> QED BY <1>1, <1>2, <1>3, <1>4, <1>5 DEF RoomLeft

LEMMA RoomToServe ==
  ASSUME Data, RoomLeft, UNCHANGED page, NEW a \in CallType, calls # <<>>,
         calls' = Tail(calls), answers' = Append(answers, a),
         a.op \in Opens => Head(calls).op \in Opens
  PROVE  RoomLeft'
  <1>1. /\ Cardinality(Opening(answers')) =
             Cardinality(Opening(answers)) + (IF a.op \in Opens THEN 1 ELSE 0)
        /\ Cardinality(Opening(answers)) \in Nat
    BY OpeningOfAppend, OpeningFinite DEF Data
  <1>2. /\ Cardinality(Opening(calls)) =
             Cardinality(Opening(calls')) + (IF Head(calls).op \in Opens THEN 1 ELSE 0)
    BY OpeningOfTail DEF Data
  <1>3. Cardinality(Opening(calls)) \in Nat /\ Cardinality(Opening(calls')) \in Nat
    <2>1. Tail(calls) \in Seq(CallType)
      BY DEF Data
    <2> QED BY <2>1, OpeningFinite DEF Data
  <1>4. Cardinality(Unused(page)) \in Nat
    BY UnusedFinite
  <1> QED BY <1>1, <1>2, <1>3, <1>4 DEF RoomLeft

LEMMA RoomToAnswer ==
  ASSUME Data, RoomLeft, UNCHANGED <<page, calls>>, NEW a \in CallType,
         answers' = Append(answers, a), a.op \notin Opens
  PROVE  RoomLeft'
  <1>1. Cardinality(Opening(answers')) = Cardinality(Opening(answers)) + 0
    BY OpeningOfAppend DEF Data
  <1>2. Opening(calls') = Opening(calls) /\ Cardinality(Opening(answers)) \in Nat
    BY OpeningFinite DEF Opening, Data
  <1> QED BY <1>1, <1>2 DEF RoomLeft

\* The answer that is handled opens a tab at most: there is one left for it.
LEMMA RoomToHandle ==
  ASSUME Data, RoomLeft, UNCHANGED calls, answers # <<>>, answers' = Tail(answers)
  PROVE  /\ Head(answers).op \in Opens => Unused(page) # {}
         /\ (\A t \in Tabs : Same(page, page', t)) => RoomLeft'
         /\ \A n \in Unused(page) : Head(answers).op \in Opens
               /\ page'.tab[n].state # "unused"
               /\ (\A t \in Tabs \ {n} : Same(page, page', t)) => RoomLeft'
  <1>1. /\ Cardinality(Opening(answers)) =
             Cardinality(Opening(answers')) + (IF Head(answers).op \in Opens THEN 1 ELSE 0)
        /\ Cardinality(Opening(answers)) \in Nat
    BY OpeningOfTail, OpeningFinite DEF Data
  <1>2. Cardinality(Opening(answers')) \in Nat
    <2>1. Tail(answers) \in Seq(CallType)
      BY DEF Data
    <2> QED BY <2>1, OpeningFinite
  <1>3. Opening(calls') = Opening(calls) /\ Cardinality(Opening(calls)) \in Nat
    BY OpeningFinite DEF Opening, Data
  <1>4. Cardinality(Unused(page)) \in Nat /\ IsFiniteSet(Unused(page))
    BY UnusedFinite
  <1>5. Head(answers).op \in Opens => Unused(page) # {}
    <2>1. Head(answers).op \in Opens => Cardinality(Unused(page)) # 0
      BY <1>1, <1>2, <1>3, <1>4 DEF RoomLeft
    <2>2. Cardinality({}) = 0
      BY FS_EmptySet
    <2> QED BY <2>1, <2>2
  <1>6. (\A t \in Tabs : Same(page, page', t)) => RoomLeft'
    <2>1. (\A t \in Tabs : Same(page, page', t)) => Unused(page') = Unused(page)
      BY DEF Unused, Same
    <2> QED BY <1>1, <1>2, <1>3, <1>4, <2>1 DEF RoomLeft
  <1>7. ASSUME NEW n \in Unused(page), Head(answers).op \in Opens,
               page'.tab[n].state # "unused", \A t \in Tabs \ {n} : Same(page, page', t)
        PROVE  RoomLeft'
    <2>1. Unused(page') = Unused(page) \ {n}
      BY <1>7 DEF Unused, Same
    <2>2. Cardinality(Unused(page) \ {n}) = Cardinality(Unused(page)) - 1
      BY <1>4, FS_RemoveElement
    <2> QED BY <1>1, <1>2, <1>3, <1>4, <1>7, <2>1, <2>2 DEF RoomLeft
  <1> QED BY <1>5, <1>6, <1>7

-----------------------------------------------------------------------------
(* A step keeps the invariant if it does so for the notes it touches, for  *)
(* what it adds to the queues and for the edits it takes from a note.      *)

\* A step carries what the notes wait for along.
CarriedOn == \A t \in Tabs : Begun(t) => Carried(t) \/ Free(t)'

LEMMA QueuesCarried ==
  ASSUME Inv, Grows, ReadsNew, CarriedOn,
         \A t \in Tabs : Begun(t) => Begun(t)',
         \A c \in Elems(calls') : c \in Elems(calls) \/ CallOK(c)',
         \A a \in Elems(answers') : a \in Elems(answers) \/ AnswerOK(a)',
         page'.modal = page.modal \/ DialogOK'
  PROVE  CallsOK' /\ AnswersOK' /\ DialogOK'
  <1>1. ASSUME NEW c \in Elems(calls'), c \in Elems(calls) PROVE CallOK(c)'
    <2>1. CallOK(c)
      BY <1>1 DEF Inv, CallsOK
    <2>2. CASE c.op \notin Pends
      BY <2>1, <2>2 DEF CallOK, Pends, Saves
    <2>3. CASE c.op \in Pends
      <3>2. ~(c.op \in {"save", "saveas", "reload"}) => CallOK(c)'
        BY <2>3 DEF CallOK, Saves, Pends
      <3>3. c.op \in {"save", "saveas", "reload"} => c.t \in Tabs /\ Begun(c.t)
        BY <2>1 DEF CallOK, Begun
      <3>4. c.op \in {"save", "saveas", "reload"} => Carried(c.t)
        <4> SUFFICES ASSUME c.op \in {"save", "saveas", "reload"} PROVE Carried(c.t)
          OBVIOUS
        <4>1. PendingIn(calls', c.t) # {}
          BY <1>1, <2>3 DEF PendingIn, Elems
        <4> QED BY <3>3, <4>1 DEF CarriedOn, Free
      <3> QED BY <2>1, <3>2, <3>4, CallFrame DEF Inv
    <2> QED BY <2>2, <2>3
  <1>2. ASSUME NEW a \in Elems(answers'), a \in Elems(answers) PROVE AnswerOK(a)'
    <2>1. AnswerOK(a)
      BY <1>2 DEF Inv, AnswersOK
    <2>2. CASE a.op \notin {"saved", "savedas", "unwritten", "conflict", "reload"}
      <3>1. a.op \in FromFile => a.p \in Paths /\ Within(a.x, file[a.p])'
        BY <2>1 DEF AnswerOK, Within, Grows
      <3> QED BY <2>1, <2>2, <3>1 DEF AnswerOK
    <2>3. CASE a.op \in {"saved", "savedas", "unwritten", "conflict", "reload"}
      <3>1. PendingIn(answers', a.t) # {} /\ a.t \in Tabs /\ Begun(a.t)
        BY <1>2, <2>1, <2>3 DEF PendingIn, Elems, Pends, AnswerOK, Begun
      <3>2. Carried(a.t)
        BY <3>1 DEF CarriedOn, Free
      <3> QED BY <2>1, <3>2, AnswerFrame DEF Inv
    <2> QED BY <2>2, <2>3
  <1>3. page'.modal = page.modal => DialogOK'
    <2> SUFFICES ASSUME page'.modal = page.modal PROVE DialogOK'
      OBVIOUS
    <2>1. DialogOK
      BY DEF Inv
    <2>2. page.modal.kind # "none" =>
           Begun(page.modal.t) /\ Begun(page.modal.t)' /\ page.modal.t \in Tabs
      BY <2>1 DEF DialogOK, Begun
    <2>3. ASSUME page.modal.kind = "conflict" PROVE Shown(page.modal)'
      <3> PICK m : m = page.modal
        OBVIOUS
      <3> PICK t : t = m.t
        OBVIOUS
      <3>1. t \in Tabs /\ Begun(t) /\ Shown(m)
        BY <2>1, <2>2, <2>3 DEF DialogOK
      <3>2. Asked(t)'
        BY <2>3 DEF Asked
      <3>3. Carried(m.t) /\ m.t \in Tabs
        BY <3>1, <3>2 DEF CarriedOn, Free
      <3>4. Shown(m)'
        BY <3>1, <3>3, ShownFrame
      <3> QED BY <3>4 DEF Shown
    <2> QED BY <2>2, <2>3 DEF DialogOK, Begun, Shown
  <1> QED BY <1>1, <1>2, <1>3 DEF CallsOK, AnswersOK

\* What a step owes the notes it touches.
Minded(t) ==
    /\ IsOpen(page', t) => TabOK(t)'
    /\ Begun(t)' => Known(t)'
    /\ Begun(t) => Begun(t)'
    /\ IsOpen(page, t) /\ page.tab[t].dirty => \A e \in TextOf(page, t) : Held(e)'

LEMMA NotesKept ==
  ASSUME Inv, Grows, ReadsNew, NEW T \in SUBSET Tabs, \A t \in Tabs \ T : Kept(page, page', t),
         \A t \in T : Minded(t)
  PROVE  /\ \A t \in Tabs : Minded(t)
         /\ \A e : Held(e) => Held(e)'
         /\ \A t \in Tabs : Begun(t) => Begun(t)'
  <1>1. ASSUME NEW t \in Tabs \ T PROVE Minded(t)
    <2>1. Kept(page, page', t) /\ Same(page, page', t) /\ Solid(page, page', t)
      BY DEF Kept
    <2>2. (IsOpen(page, t) => TabOK(t)) /\ (Begun(t) => Known(t))
      BY DEF Inv, NotesOK
    <2>3. IsOpen(page', t) => TabOK(t)'
      BY <2>1, <2>2, TabFrame DEF Inv
    <2>4. Begun(t)' => Known(t)'
      BY <2>1, <2>2, KnownFrame
    <2>5. Begun(t) => Begun(t)'
      BY <2>1 DEF Same, Begun
    <2>6. IsOpen(page, t) /\ page.tab[t].dirty => \A e \in TextOf(page, t) : Held(e)'
      BY <2>1, KeptHolds
    <2> QED BY <2>3, <2>4, <2>5, <2>6 DEF Minded
  <1>2. \A t \in Tabs : Minded(t)
    BY <1>1
  <1>3. ASSUME NEW e, Held(e) PROVE Held(e)'
    <2>1. \A t \in Tabs : IsOpen(page, t) /\ page.tab[t].dirty /\ e \in TextOf(page, t)
                            => Held(e)'
      BY <1>2 DEF Minded
    <2> QED BY <1>3, <2>1, HeldFrame
  <1> QED BY <1>2, <1>3 DEF Minded

LEMMA Assembled ==
  ASSUME Inv, Data', Paged(page'), NEW T \in SUBSET Tabs,
         \A t \in Tabs \ T : Kept(page, page', t), \A t \in T : Minded(t), Grows, ReadsNew,
         \A t \in Tabs : waits'[t] # {} => waits[t] # {} \/ Begun(t),
         \A t \in Tabs : Alone(t)', CallsOK', AnswersOK', DialogOK', InOrder', RoomLeft', RpcOK',
         \A e : MadeNow(e, edits', foreign') => MadeNow(e, edits, foreign) \/ Held(e)'
  PROVE  Inv'
  <1>1. /\ \A t \in Tabs : Minded(t)
        /\ \A e : Held(e) => Held(e)'
    BY NotesKept
  <1>2. NotesOK'
    <2>1. \A t \in Tabs : waits[t] # {} => Begun(t)
      BY DEF Inv, NotesOK
    <2>2. ASSUME NEW t \in Tabs
          PROVE  /\ (IsOpen(page, t) => TabOK(t))'
                 /\ (Begun(t) => Known(t))'
                 /\ (waits[t] # {} => Begun(t))'
                 /\ Alone(t)'
      BY <1>1, <2>1 DEF Minded
    <2> QED BY <2>2 DEF NotesOK
  <1>3. AllHeld'
    BY <1>1 DEF AllHeld, Inv
  <1> QED BY <1>2, <1>3 DEF Inv

LEMMA RpcFrame ==
  ASSUME RpcOK, Grows, UNCHANGED rpc PROVE RpcOK'
  BY DEF RpcOK, Within, Grows

\* A step of the page that leaves the queues as they are.
LEMMA QuietStep ==
  ASSUME Inv, Data', Paged(page'), NEW T \in SUBSET Tabs,
         \A t \in Tabs \ T : Kept(page, page', t), \A t \in T : Minded(t) /\ Carried(t), Grows,
         UNCHANGED <<calls, answers>>, rpc' = rpc \/ RpcOK',
         page'.modal = page.modal \/ (DialogOK' /\ page'.modal.kind # "conflict"),
         \A t \in inflight : t \in inflight' \/ Free(t)',
         \A t \in Tabs : waits'[t] # {} => waits[t] # {} \/ Begun(t),
         \A e : MadeNow(e, edits', foreign') => MadeNow(e, edits, foreign) \/ Held(e)'
  PROVE  Inv'
  <1>1. ReadsNew
    BY DEF ReadsNew, OnWay, Elems
  <1>2. \A t \in Tabs : Carried(t) /\ Same(page, page', t)
    BY KeptIsCarried DEF Carried
  <1>3. \A t \in Tabs : Begun(t) => Begun(t)'
    BY <1>2 DEF Begun, Same
  <1>4. Elems(calls') = Elems(calls) /\ Elems(answers') = Elems(answers)
    BY DEF Elems
  <1>5. CallsOK' /\ AnswersOK' /\ DialogOK'
    BY <1>1, <1>2, <1>3, <1>4, QueuesCarried DEF CarriedOn
  <1>6. \A t : Asked(t)' => Asked(t)
    BY DEF Asked
  <1>7. \A t \in Tabs : Alone(t)'
    BY <1>6, AloneStays DEF Inv, NotesOK
  <1>8. RoomLeft'
    BY <1>2, RoomStays DEF Inv
  <1>9. InOrder'
    BY DEF InOrder, Inv, Within, Grows
  <1>10. RpcOK'
    BY RpcFrame DEF Inv
  <1> QED BY <1>1, <1>5, <1>7, <1>8, <1>9, <1>10, Assembled

\* A step of the page that ends in a call.
LEMMA CallStep ==
  ASSUME Inv, Data', Paged(page'), NEW T \in SUBSET Tabs,
         \A t \in Tabs \ T : Kept(page, page', t), \A t \in T : Minded(t) /\ Carried(t), Grows,
         NEW c \in CallType, calls' = Append(calls, c), CallOK(c)',
         UNCHANGED <<answers, rpc, edits>>,
         page'.modal = page.modal \/ (DialogOK' /\ page'.modal.kind # "conflict"),
         inflight \subseteq inflight',
         c.op \in Pends => c.t \in inflight' /\ PendingIn(calls, c.t) = {}
                           /\ PendingIn(answers, c.t) = {} /\ ~Asked(c.t)',
         c.op \in Opens => RoomForTab,
         \A t \in Tabs : waits'[t] # {} => waits[t] # {} \/ Begun(t),
         \A e : MadeNow(e, edits, foreign') => MadeNow(e, edits, foreign) \/ Held(e)'
  PROVE  Inv'
  <1>1. ReadsNew
    BY DEF ReadsNew, OnWay, Elems
  <1>2. \A t \in Tabs : Carried(t) /\ Same(page, page', t)
    BY KeptIsCarried DEF Carried
  <1>3. \A t \in Tabs : Begun(t) => Begun(t)'
    BY <1>2 DEF Begun, Same
  <1>4. Elems(answers') = Elems(answers)
    BY DEF Elems
  <1>5. Elems(calls') = Elems(calls) \cup {c}
    BY ElemsOfAppend DEF Inv, Data
  <1>6. CallsOK' /\ AnswersOK' /\ DialogOK'
    BY <1>1, <1>2, <1>3, <1>4, <1>5, QueuesCarried DEF CarriedOn
  <1>7. \A t : Asked(t)' => Asked(t) /\ ~(c.op \in Pends /\ c.t = t)
    BY DEF Asked
  <1>8. \A t \in Tabs : Alone(t)'
    BY <1>7, AloneCalls DEF Inv, NotesOK
  <1>9. RoomLeft'
    BY <1>2, RoomToCall DEF Inv
  <1>10. InOrder'
    BY DEF InOrder, Inv, Within, Grows
  <1>11. RpcOK'
    BY RpcFrame DEF Inv
  <1> QED BY <1>1, <1>6, <1>8, <1>9, <1>10, <1>11, Assembled

\* Go serves a call, and may write a file.
LEMMA ServeStep ==
  ASSUME Inv, Data', UNCHANGED <<page, inflight, waits, rpc, edits, foreign>>, calls # <<>>,
         calls' = Tail(calls), NEW a \in CallType, answers' = Append(answers, a),
         Grows, AnswerOK(a)',
         a.op \in Pends => Head(calls).op \in Pends /\ a.t = Head(calls).t,
         a.op \in Opens => Head(calls).op \in Opens,
         a.op \in Adopted => a.x = file[a.p] /\ a.x = file'[a.p]
  PROVE  Inv'
  <1>1. \A t \in Tabs : Kept(page, page', t)
    BY KeptSelf
  <1>2. Paged(page')
    BY DEF Inv
  <1>3. ReadsNew
    BY ReadsOfAppend DEF ReadsNew, Inv
  <1>4. CarriedOn /\ \A t \in Tabs : Begun(t) => Begun(t)'
    BY <1>1, KeptIsCarried DEF CarriedOn, Begun
  <1>5. Elems(calls') \subseteq Elems(calls) /\ Elems(answers') = Elems(answers) \cup {a}
    BY ElemsOfTail, ElemsOfAppend DEF Inv, Data
  <1>6. CallsOK' /\ AnswersOK' /\ DialogOK'
    BY <1>3, <1>4, <1>5, QueuesCarried
  <1>7. \A t \in Tabs : Alone(t)'
    BY AloneServed DEF Inv, NotesOK
  <1>8. RoomLeft'
    BY RoomToServe DEF Inv
  <1>9. InOrder'
    BY OrderOfAppend DEF Inv, Grows
  <1>10. RpcOK'
    BY RpcFrame DEF Inv
  <1>11. PICK T \in SUBSET Tabs : T = {}
    OBVIOUS
  <1>12. \A t \in Tabs : waits'[t] # {} => waits[t] # {} \/ Begun(t)
    OBVIOUS
  <1> QED BY <1>1, <1>2, <1>3, <1>6, <1>7, <1>8, <1>9, <1>10, <1>11, <1>12, Assembled

\* The page handles the next answer.  The note that waited for it is free,
\* unless it asks the user now.
LEMMA AnswerStep ==
  ASSUME Inv, Data', Paged(page'), NEW T \in SUBSET Tabs,
         \A t \in Tabs \ T : Kept(page, page', t), \A t \in T : Minded(t), Grows,
         CarriedOn,
         answers # <<>>, answers' = Tail(answers), UNCHANGED <<calls, file, waits, edits, foreign>>,
         page'.modal = page.modal
           \/ (DialogOK' /\ (page'.modal.kind = "conflict" =>
                 /\ Head(answers).op \in Pends /\ Head(answers).t = page'.modal.t
                 /\ inflight' = inflight)),
         \A t \in inflight : t \in inflight' \/ (Head(answers).op \in Pends /\ Head(answers).t = t),
         RoomLeft', RpcOK'
  PROVE  Inv'
  <1>1. ReadsNew
    BY ReadsOfTail DEF ReadsNew, Inv
  <1>2. /\ \A t \in Tabs : Begun(t) => Begun(t)'
        /\ \A e : Held(e) => Held(e)'
    BY <1>1, NotesKept
  <1>3. Elems(calls') = Elems(calls) /\ Elems(answers') \subseteq Elems(answers)
    BY ElemsOfTail DEF Elems, Inv, Data
  <1>4. CallsOK' /\ AnswersOK' /\ DialogOK'
    BY <1>1, <1>2, <1>3, QueuesCarried
  <1>5. \A t : Asked(t)' => Asked(t) \/ (Head(answers).op \in Pends /\ Head(answers).t = t
                                          /\ inflight' = inflight)
    BY DEF Asked
  <1>6. \A t \in Tabs : Alone(t)'
    BY <1>5, AloneHandled DEF Inv, NotesOK
  <1>7. InOrder'
    BY OrderOfTail DEF Inv, Grows
  <1> QED BY <1>1, <1>4, <1>6, <1>7, Assembled

-----------------------------------------------------------------------------
(* The steps of the page *)

LEMMA CallTyped ==
  ASSUME NEW op \in Ops, NEW t \in Tabs \cup {NoTab}, NEW p \in Paths \cup {NoPath},
         NEW x \in Text, NEW keep \in Text, NEW kind \in Kinds, NEW sig \in Text \cup {NoText}
  PROVE  LET c == Call(op, t, p, x, keep, kind, sig)
         IN /\ c \in CallType /\ c.op = op /\ c.t = t /\ c.p = p /\ c.x = x
            /\ c.keep = keep /\ c.kind = kind /\ c.sig = sig
  BY DEF Call, CallType

\* A page on which a dialog was closed, or a timer stopped, is like the page.
Alike(pg) ==
    /\ Paged(pg) /\ \A u \in Tabs : Like(page, pg, u)
    /\ pg.modal \in {page.modal, NoModal}

LEMMA AlikeSelf == ASSUME Inv PROVE Alike(page)
  BY DEF Alike, Like, Inv

LEMMA NoDialog == ASSUME DialogOK, page'.modal = NoModal
                  PROVE  DialogOK' /\ page'.modal.kind # "conflict"
  BY DEF DialogOK, NoModal

\* A save begins with the text the note shows; the file it knows is in that text.
LEMMA BeginSaveSteps ==
  ASSUME Inv, NEW pg, Alike(pg), NEW t, Begun(t), NEW kind \in Kinds, NEW force,
         BeginSave(pg, t, kind, force),
         PendingIn(calls, t) = {}, PendingIn(answers, t) = {},
         ~(pg.modal.kind = "conflict" /\ pg.modal.t = t),
         UNCHANGED <<file, answers, changed, rpc, run, edits, foreign, given, gaps>>,
         waits' \in [Tabs -> SUBSET Kinds],
         \A u \in Tabs : waits'[u] # {} => waits[u] # {} \/ Begun(u)
  PROVE  Inv'
  <1> PICK now : now = TextOf(pg, t)
    OBVIOUS
  <1> PICK tb : tb = pg.tab[t]
    OBVIOUS
  <1> DEFINE synced == [pg EXCEPT !.tab[t].text = now]
             asksName == tb.path = NoPath \/ force
             c == IF asksName THEN Call("saveas", t, NoPath, now, now, kind, NoText)
                              ELSE Call("save", t, tb.path, now, now, kind, tb.sig)
             asking == [synced EXCEPT !.native = @ \/ asksName]
  <1>1. /\ t \in Tabs /\ Paged(pg) /\ Paged(page) /\ \A u \in Tabs : Like(page, pg, u)
        /\ now \in Text /\ now = TextOf(page, t)
        /\ tb.path = page.tab[t].path /\ tb.sig = page.tab[t].sig
        /\ tb.path \in Paths \cup {NoPath} /\ tb.sig \in Text \cup {NoText}
    BY TextTyped DEF Begun, Alike, Inv, Like, Paged, PageTypes
  <1>2. /\ synced.active = pg.active /\ synced.editor = pg.editor /\ synced.modal = pg.modal
        /\ \A u \in Tabs \ {t} : synced.tab[u] = pg.tab[u]
        /\ synced.tab[t].text = now /\ synced.tab[t].path = pg.tab[t].path
        /\ synced.tab[t].state = pg.tab[t].state /\ synced.tab[t].dirty = pg.tab[t].dirty
        /\ synced.tab[t].sig = pg.tab[t].sig
        /\ Shape(synced) /\ Shape(asking) /\ asking.active = pg.active /\ asking.editor = pg.editor
        /\ asking.modal = pg.modal /\ asking.tab = synced.tab
    BY <1>1 DEF Paged, Good, Shape, PageFields, TabFields
  <1> HIDE DEF synced
  <1>3. asking.modal = synced.modal
    BY <1>2
  <1> HIDE DEF asking
  <1>4. Good(synced) /\ Good(asking)
    <2>1. Shrinks(pg, synced) /\ Shrinks(pg, asking)
      BY <1>2 DEF Shrinks
    <2> QED BY <1>1, <1>2, <2>1, ShrunkIsGood DEF Paged
  <1>5. Paged(synced) /\ Paged(asking)
    <2>1. \A u \in Tabs : /\ synced.tab[u].text \in Text
                          /\ synced.tab[u].sig = pg.tab[u].sig
                          /\ synced.tab[u].path = pg.tab[u].path
                          /\ synced.tab[u].state = pg.tab[u].state
      BY <1>1, <1>2 DEF Paged, PageTypes
    <2> QED BY <1>1, <1>2, <1>4, <2>1 DEF Paged, PageTypes, IsOpen
  <1>6. \A u \in Tabs : TextOf(synced, u) = TextOf(pg, u) /\ TextOf(asking, u) = TextOf(pg, u)
    BY <1>2 DEF TextOf
  <1>7. \A u \in Tabs : Kept(page, synced, u) /\ Kept(page, asking, u)
    <2>1. t = pg.active => IsOpen(pg, t)
      BY <1>1 DEF Paged, PageTypes, NoteFileAssumption
    <2>2. Solid(page, synced, t) /\ Solid(page, asking, t)
      BY <1>1, <1>2, <2>1 DEF Solid, Like, TextOf, IsOpen
    <2>3. Kept(page, synced, t) /\ Kept(page, asking, t)
      BY <1>1, <1>2, <1>6, <2>2 DEF Kept, Same, InStep, IsOpen, Like
    <2>4. \A u \in Tabs \ {t} : Like(page, synced, u) /\ Like(page, asking, u)
      BY <1>1, <1>2, <1>6 DEF Like
    <2> QED BY <2>3, <2>4, LikeIsKept
  <1>8. PICK T \in SUBSET Tabs : T = {}
    OBVIOUS
  <1>9. Grows
    BY DEF Grows, Gone
  <1>10. \A e : MadeNow(e, edits', foreign') => MadeNow(e, edits, foreign)
    OBVIOUS
  <1>11. CASE UNCHANGED calls /\ page' = AfterSave(synced, t, kind, FALSE)
              /\ inflight' = inflight \ {t}
    <2>1. Paged(page') /\ \A u \in Tabs : Kept(page, page', u)
      <3>1. PICK ok : ok = FALSE
        OBVIOUS
      <3>2. page' = AfterSave(synced, t, kind, ok) /\ ~Closes(kind, ok)
        BY <1>11, <3>1 DEF Closes
      <3> QED BY <1>5, <1>7, <3>2, AfterSaveKeeps, LikeIsKept, KeptChain
    <2>2. page'.modal = pg.modal
      <3>1. PICK ok : ok = FALSE
        OBVIOUS
      <3>2. page' = AfterSave(synced, t, kind, ok)
        BY <1>11, <3>1
      <3>3. AfterSave(synced, t, kind, ok).modal = synced.modal
        BY <1>2, DialogStays
      <3> QED BY <1>2, <3>2, <3>3
    <2>3. page'.modal = page.modal \/ (DialogOK' /\ page'.modal.kind # "conflict")
      BY <2>2, NoDialog DEF Alike, Inv
    <2>4. Free(t)'
      BY <1>11, <2>2 DEF Free, PendingIn, Asked
    <2>5. Data'
      BY <1>11 DEF Inv, Data
    <2>6. \A u \in inflight : u \in inflight' \/ Free(u)'
      BY <1>11, <2>4
    <2>7. UNCHANGED <<calls, answers, rpc>>
      BY <1>11
    <2> QED BY <1>8, <1>9, <1>10, <2>1, <2>3, <2>5, <2>6, <2>7, QuietStep
  <1>12. CASE page' = asking /\ inflight' = inflight \cup {t} /\ calls' = Append(calls, c)
    <2>1. /\ c \in CallType /\ c.t = t /\ c.x = now /\ c.keep = now
          /\ \/ c.op = "saveas"
             \/ c.op = "save" /\ c.p = tb.path /\ c.sig = tb.sig /\ c.p \in Paths
      <3>0. "save" \in Ops /\ "saveas" \in Ops /\ NoText \in Text \cup {NoText}
            /\ NoPath \in Paths \cup {NoPath} /\ t \in Tabs \cup {NoTab}
        BY <1>1 DEF Ops, Saves
      <3>1. CASE asksName
        <4>1. c = Call("saveas", t, NoPath, now, now, kind, NoText)
          BY <3>1
        <4> HIDE DEF c
        <4> QED BY <1>1, <3>0, <4>1, CallTyped
      <3>2. CASE ~asksName
        <4>1. c = Call("save", t, tb.path, now, now, kind, tb.sig)
          BY <3>2
        <4>2. tb.path \in Paths
          BY <1>1, <3>2
        <4> HIDE DEF c
        <4> QED BY <1>1, <3>0, <4>1, <4>2, CallTyped
      <3> QED BY <3>1, <3>2
    <2> HIDE DEF c
    <2>2. Begun(t)'
      BY <1>1, <1>7, <1>12 DEF Begun, Kept, Same
    <2>3. Carries(c)'
      BY <1>1, <1>2, <1>6, <1>12, <2>1 DEF Carries, Within
    <2>4. Shown(c)'
      BY <1>1, <1>2, <1>6, <1>12, <2>1 DEF Shown, Within, InStep
    <2>5. c.op = "save" => Placed(c)'
      BY <1>1, <1>2, <1>12, <2>1 DEF Placed
    <2>6. c.op = "save" /\ c.sig # NoText => Within(c.sig, c.x)'
      <3>1. IsOpen(page, t) => TabOK(t)
        BY <1>1 DEF Inv, NotesOK
      <3>2. Known(t)
        BY <1>1 DEF Inv, NotesOK
      <3>3. ~IsOpen(page, t) => TextOf(page, t) = page.tab[t].text
        BY <1>1 DEF TextOf, Paged, PageTypes, NoteFileAssumption
      <3> QED BY <1>1, <2>1, <3>1, <3>2, <3>3 DEF TabOK, Known, Within, Gone
    <2>7. CallOK(c)'
      BY <2>1, <2>2, <2>3, <2>4, <2>5, <2>6 DEF CallOK
    <2>8. page'.modal = pg.modal
      BY <1>2, <1>12
    <2>9. page'.modal = page.modal \/ (DialogOK' /\ page'.modal.kind # "conflict")
      BY <2>8, NoDialog DEF Alike, Inv
    <2>10. ~Asked(t)'
      BY <2>8 DEF Asked
    <2>11. Data'
      BY <1>12, <2>1, ElemsOfAppend DEF Inv, Data
    <2>12. /\ c.op \notin Opens /\ inflight \subseteq inflight' /\ c.t \in inflight'
           /\ PendingIn(calls, c.t) = {} /\ PendingIn(answers, c.t) = {} /\ ~Asked(c.t)'
      BY <1>12, <2>1, <2>10 DEF Opens, Asked
    <2>13. Paged(page') /\ \A u \in Tabs : Kept(page, page', u)
      BY <1>5, <1>7, <1>12
    <2>14. UNCHANGED <<answers, rpc, edits>>
      OBVIOUS
    <2>15. calls' = Append(calls, c)
      BY <1>12
    <2> QED BY <1>8, <1>9, <1>10, <2>1, <2>7, <2>9, <2>11, <2>12, <2>13, <2>14, <2>15, CallStep
  <1> QED BY <1>11, <1>12 DEF BeginSave, synced, asking

\* A save waits while another one writes the note.
LEMMA SaveTabSteps ==
  ASSUME Inv, NEW pg, Alike(pg), NEW t, Begun(t), NEW kind \in Kinds, SaveTab(pg, t, kind),
         UNCHANGED <<file, answers, changed, rpc, run, edits, foreign, given, gaps>>
  PROVE  Inv'
  <1>1. t \in Tabs /\ Alone(t) /\ Data /\ Paged(page)
    BY DEF Begun, Inv, NotesOK
  <1>2. CASE t \in inflight
    <2>1. page' = pg /\ UNCHANGED <<inflight, calls>> /\ waits' = [waits EXCEPT ![t] = @ \cup {kind}]
      BY <1>2 DEF SaveTab
    <2>2. waits' \in [Tabs -> SUBSET Kinds] /\ \A u \in Tabs : u # t => waits'[u] = waits[u]
      BY <1>1, <2>1 DEF Data
    <2>3. Data'
      BY <1>1, <2>1, <2>2 DEF Data
    <2>4. Paged(page') /\ \A u \in Tabs : Kept(page, page', u)
      BY <2>1, LikeIsKept DEF Alike
    <2>5. page'.modal = page.modal \/ (DialogOK' /\ page'.modal.kind # "conflict")
      BY <2>1, NoDialog DEF Alike, Inv
    <2>6. Grows
      BY DEF Grows, Gone
    <2>7. PICK T \in SUBSET Tabs : T = {}
      OBVIOUS
    <2>8. \A u \in Tabs : waits'[u] # {} => waits[u] # {} \/ Begun(u)
      BY <2>2
    <2> QED BY <2>1, <2>3, <2>4, <2>5, <2>6, <2>7, <2>8, QuietStep
  <1>3. CASE t \notin inflight
    <2>1. PICK force : force = FALSE
      OBVIOUS
    <2>2. BeginSave(pg, t, kind, force) /\ UNCHANGED waits
      BY <1>3, <2>1 DEF SaveTab
    <2>3. /\ PendingIn(calls, t) = {} /\ PendingIn(answers, t) = {}
          /\ ~(pg.modal.kind = "conflict" /\ pg.modal.t = t)
      BY <1>1, <1>3 DEF Alone, Asked, Alike, NoModal
    <2>4. waits' \in [Tabs -> SUBSET Kinds] /\ \A u \in Tabs : waits'[u] # {} => waits[u] # {}
      BY <1>1, <2>2 DEF Data
    <2> QED BY <2>2, <2>3, <2>4, BeginSaveSteps
  <1> QED BY <1>2, <1>3

LEMMA NothingGone == ASSUME UNCHANGED <<file, given, gaps>> PROVE Grows
  BY DEF Grows, Gone

LEMMA NothingMade ==
  ASSUME UNCHANGED <<edits, foreign>>
  PROVE  \A e : MadeNow(e, edits', foreign') => MadeNow(e, edits, foreign)
  OBVIOUS

\* What is typed is in the note, which is marked unsaved.
LEMMA EditSteps ==
  ASSUME Inv, NEW t \in Tabs, Edit(t)
  PROVE  Inv'
  <1> PICK x : x = TextOf(page, t) \cup {edits + 1}
    OBVIOUS
  <1> DEFINE q == [page EXCEPT !.tab[t].text = x, !.tab[t].dirty = TRUE,
                               !.editor = IF page.active = t THEN x ELSE @]
  <1>1. Data /\ Paged(page) /\ IsOpen(page, t) /\ edits < MaxEdits /\ TabOK(t) /\ Known(t)
        /\ edits' = edits + 1 /\ page' = Arm(q, t) /\ TextOf(page, t) \in Text
        /\ UNCHANGED <<file, inflight, waits, calls, answers, changed, rpc, run, foreign,
                       given, gaps>>
    BY TextTyped DEF Inv, NotesOK, Edit, Begun, IsOpen
  <1>2. x \in Text /\ TextOf(page, t) \subseteq x /\ edits + 1 \in x
    <2>1. edits + 1 \in 1..(MaxEdits + MaxForeign)
      BY <1>1 DEF Data, NoteFileAssumption
    <2> QED BY <1>1, <2>1 DEF Text
  <1>3. Good(q)
    <2>1. Shape(q) /\ Shrinks(page, q)
      BY <1>1 DEF Paged, Good, Shape, Shrinks, PageFields, TabFields
    <2> QED BY <1>1, <2>1, ShrunkIsGood DEF Paged
  <1>4. /\ q.active = page.active /\ q.modal = page.modal /\ Shape(q)
        /\ q.editor = IF page.active = t THEN x ELSE page.editor
        /\ \A u \in Tabs \ {t} : q.tab[u] = page.tab[u]
        /\ q.tab[t].text = x /\ q.tab[t].dirty /\ q.tab[t].path = page.tab[t].path
        /\ q.tab[t].sig = page.tab[t].sig /\ q.tab[t].state = page.tab[t].state
    BY <1>1, <1>3 DEF Paged, Good, Shape, PageFields, TabFields
  <1> HIDE DEF q
  <1>5. Paged(q)
    <2>1. \A u \in Tabs : /\ q.tab[u].text \in Text /\ q.tab[u].sig = page.tab[u].sig
                          /\ q.tab[u].path = page.tab[u].path
                          /\ q.tab[u].state = page.tab[u].state
      BY <1>1, <1>2, <1>4 DEF Paged, PageTypes
    <2> QED BY <1>1, <1>2, <1>3, <1>4, <2>1 DEF Paged, PageTypes, IsOpen
  <1>6. TextOf(q, t) = x /\ \A u \in Tabs \ {t} : Like(page, q, u)
    BY <1>4 DEF TextOf, Like
  <1>7. Paged(page') /\ \A u \in Tabs : Like(q, page', u)
    BY <1>1, <1>5, ArmKeeps
  <1>8. page'.modal = page.modal
    BY <1>1, <1>4, DialogStays
  <1>9. \A u \in Tabs \ {t} : Kept(page, page', u)
    BY <1>6, <1>7, LikeIsKept DEF Like
  <1>10. /\ page'.tab[t].text = x /\ page'.tab[t].dirty /\ page'.tab[t].path = page.tab[t].path
         /\ page'.tab[t].sig = page.tab[t].sig /\ page'.tab[t].state = page.tab[t].state
         /\ TextOf(page', t) = x /\ IsOpen(page', t)
    BY <1>1, <1>4, <1>6, <1>7 DEF Like, IsOpen
  <1>11. \A e \in x : Held(e)'
    BY <1>10 DEF Held
  <1>12. Minded(t)
    <2>1. TabOK(t)'
      BY <1>1, <1>2, <1>10 DEF TabOK, Within, Gone
    <2>2. Known(t)'
      BY <1>1, <1>2, <1>10 DEF TabOK, Known, Within, Gone
    <2> QED BY <1>2, <1>10, <1>11, <2>1, <2>2 DEF Minded, Begun
  <1>13. Carried(t)
    BY <1>1, <1>2, <1>10 DEF Carried, Same, InStep, IsOpen
  <1>14. Data'
    <2>1. edits' \in Nat /\ edits' <= MaxEdits
      BY <1>1 DEF Data, NoteFileAssumption
    <2> QED BY <1>1, <2>1 DEF Data
  <1>15. \A e : MadeNow(e, edits', foreign') => MadeNow(e, edits, foreign) \/ Held(e)'
    <2> SUFFICES ASSUME NEW e, MadeNow(e, edits + 1, foreign), ~MadeNow(e, edits, foreign)
                 PROVE  Held(e)'
      BY <1>1
    <2>1. e = edits + 1
      BY <1>1 DEF MadeNow, Data
    <2> QED BY <1>2, <1>11, <2>1
  <1>16. PICK T \in SUBSET Tabs : T = {t}
    OBVIOUS
  <1>17. Grows
    BY <1>1, NothingGone
  <1> QED BY <1>1, <1>7, <1>8, <1>9, <1>12, <1>13, <1>14, <1>15, <1>16, <1>17, QuietStep

\* The page alone changes, and no note but for what a tab is on screen.
LEMMA PageSteps ==
  ASSUME Inv, Paged(page'), \A u \in Tabs : Kept(page, page', u),
         page'.modal = page.modal \/ (DialogOK' /\ page'.modal.kind # "conflict"),
         UNCHANGED <<file, waits, calls, answers, changed, rpc, run, edits, foreign, given, gaps>>,
         \A t \in inflight : t \in inflight' \/ Free(t)'
  PROVE  Inv'
  <1>1. PICK T \in SUBSET Tabs : T = {}
    OBVIOUS
  <1>2. Data'
    BY DEF Inv, Data
  <1> QED BY <1>1, <1>2, NothingGone, NothingMade, QuietStep

LEMMA SelectSteps == ASSUME Inv, NEW t \in Tabs, Select(t) PROVE Inv'
  <1>1. page' = SelectTab(page, t) /\ Paged(page) /\ Shape(page)
    BY DEF Select, Inv, Paged, Good
  <1>2. Paged(page') /\ (\A u \in Tabs : Kept(page, page', u)) /\ page'.modal = page.modal
    BY <1>1, SelectTabKeeps, DialogStays
  <1> QED BY <1>2, PageSteps DEF Select

LEMMA SaveSteps == ASSUME Inv, Save PROVE Inv'
  <1>1. page.active \in Tabs /\ Begun(page.active) /\ page.modal = NoModal
    BY DEF Save, Inv, Paged, PageTypes, IsOpen, Begun
  <1>2. PICK kind \in Kinds : kind = "manual"
    BY DEF Kinds
  <1>3. SaveTab(page, page.active, kind)
    BY <1>2 DEF Save
  <1>4. UNCHANGED <<file, answers, changed, rpc, run, edits, foreign, given, gaps>>
    BY DEF Save
  <1> QED BY <1>1, <1>3, <1>4, AlikeSelf, SaveTabSteps

LEMMA TimerFiresSteps == ASSUME Inv, NEW t \in Tabs, TimerFires(t) PROVE Inv'
  <1> DEFINE off == [page EXCEPT !.tab[t].timer = FALSE]
  <1>1. /\ off.active = page.active /\ off.editor = page.editor /\ off.modal = page.modal
        /\ \A u \in Tabs : Like(page, off, u)
        /\ Shape(off) /\ Shrinks(page, off)
    BY DEF Like, TextOf, Inv, Paged, Good, Shape, Shrinks, PageFields, TabFields
  <1>2. Paged(page) /\ Good(off)
    BY <1>1, ShrunkIsGood DEF Inv, Paged
  <1>3. \/ page.tab[t].state = "open" /\ SaveTab(off, t, "auto")
        \/ page' = off /\ UNCHANGED <<inflight, waits, calls>>
    BY DEF TimerFires
  <1>4. UNCHANGED <<file, answers, changed, rpc, run, edits, foreign, given, gaps>>
    BY DEF TimerFires
  <1> HIDE DEF off
  <1>5. Alike(off) /\ \A u \in Tabs : Kept(page, off, u)
    BY <1>1, <1>2, AllAreLike DEF Alike, Paged, PageTypes
  <1>6. CASE page.tab[t].state = "open" /\ SaveTab(off, t, "auto")
    <2>1. PICK kind \in Kinds : kind = "auto"
      BY DEF Kinds
    <2>2. Begun(t)
      BY <1>6 DEF Begun
    <2>3. SaveTab(off, t, kind)
      BY <1>6, <2>1
    <2> QED BY <1>4, <1>5, <2>2, <2>3, SaveTabSteps
  <1>7. CASE page' = off /\ UNCHANGED <<inflight, waits, calls>>
    BY <1>1, <1>4, <1>5, <1>7, PageSteps DEF Alike
  <1> QED BY <1>3, <1>6, <1>7

LEMMA StopWaitingSteps ==
  ASSUME Inv, NEW t \in Tabs, NEW kind \in {"auto", "manual", "close", "reclose"},
         StopWaiting(t, kind)
  PROVE  Inv'
  <1>1. /\ t \notin inflight /\ kind \in waits[t] /\ waits' = [waits EXCEPT ![t] = @ \ {kind}]
        /\ UNCHANGED <<file, answers, changed, rpc, run, edits, foreign, given, gaps>>
    BY DEF StopWaiting
  <1>2. waits' \in [Tabs -> SUBSET Kinds] /\ \A u \in Tabs : waits'[u] # {} => waits[u] # {}
    BY <1>1 DEF Inv, Data
  <1>3. Begun(t) /\ PendingIn(calls, t) = {} /\ PendingIn(answers, t) = {} /\ ~Asked(t)
    BY <1>1 DEF Inv, NotesOK, Alone
  <1>4. CASE UNCHANGED <<page, inflight, calls>>
    <2>1. Data'
      BY <1>1, <1>2, <1>4 DEF Inv, Data
    <2>2. Paged(page') /\ \A u \in Tabs : Kept(page, page', u)
      BY <1>4, KeptSelf DEF Inv
    <2>3. PICK T \in SUBSET Tabs : T = {}
      OBVIOUS
    <2>4. Grows
      BY <1>1, NothingGone
    <2> QED BY <1>1, <1>2, <1>4, <2>1, <2>2, <2>3, <2>4, NothingMade, QuietStep
  <1>5. CASE BeginSave(page, t, kind, FALSE)
    <2>1. PICK force : force = FALSE
      OBVIOUS
    <2>2. BeginSave(page, t, kind, force) /\ kind \in Kinds
      BY <1>5, <2>1 DEF Kinds
    <2> QED BY <1>1, <1>2, <1>3, <2>2, AlikeSelf, BeginSaveSteps DEF Asked
  <1> QED BY <1>4, <1>5 DEF StopWaiting

LEMMA AfterSaveDialog ==
  ASSUME NEW pg, Shape(pg), NEW t, NEW kind, NEW ok
  PROVE  AfterSave(pg, t, kind, ok).modal = pg.modal
  BY DialogStays

LEMMA CallsTyped ==
  ASSUME NEW t \in Tabs \cup {NoTab}, NEW p \in Paths \cup {NoPath}, NEW keep \in Text,
         NEW kind \in Kinds, NEW x \in Text
  PROVE  /\ LET c == Call("save", t, p, x, keep, kind, NoText)
            IN /\ c \in CallType /\ c.op = "save" /\ c.t = t /\ c.p = p /\ c.x = x
               /\ c.keep = keep /\ c.kind = kind /\ c.sig = NoText
         /\ \A op \in {"reload", "seen", "open", "refresh", "rpcclose"} :
               LET c == Read(op, t, p, keep, kind)
               IN /\ c \in CallType /\ c.op = op /\ c.t = t /\ c.p = p /\ c.keep = keep
  <1>1. {} \in Text /\ NoText \in Text \cup {NoText}
    BY DEF Text
  <1>2. /\ {"reload", "seen", "open", "refresh", "rpcclose"} \subseteq Ops /\ "save" \in Ops
    BY DEF Ops, Saves, FromFile
  <1> QED BY <1>1, <1>2 DEF Read, Call, CallType

LEMMA DialogClosed ==
  ASSUME Inv, NEW pg, pg = [page EXCEPT !.modal = NoModal]
  PROVE  Alike(pg) /\ pg.modal = NoModal /\ Shape(pg) /\ \A u \in Tabs : Kept(page, pg, u)
  <1>1. NoModal \in ModalType
    BY DEF NoModal, ModalType, Kinds, Text
  <1>2. PICK m : m = NoModal
    OBVIOUS
  <1>3. Paged(pg) /\ pg.modal = NoModal /\ \A u \in Tabs : Like(page, pg, u)
    BY <1>1, <1>2, DialogKeeps DEF Inv
  <1> QED BY <1>3, LikeIsKept DEF Alike, Paged, Good

LEMMA CloseSteps == ASSUME Inv, NEW t \in Tabs, Close(t) PROVE Inv'
  <1> DEFINE tb == page.tab[t]
             kind == IF tb.prompt THEN "reclose" ELSE "close"
             asks0 == [page EXCEPT !.tab[t].prompt = TRUE]
             m == [kind |-> "close", t |-> t, save |-> kind, keep |-> {}]
             asked == [asks0 EXCEPT !.modal = m]
  <1>1. IsOpen(page, t) /\ Paged(page) /\ Shape(page)
        /\ UNCHANGED <<file, inflight, waits, calls, answers, changed, rpc, run,
                       edits, foreign, given, gaps>>
    BY DEF Close, Inv, Paged, Good
  <1>2. \/ ~tb.dirty /\ page' = RemoveTabs(page, {t})
        \/ page' = [page EXCEPT !.tab[t].prompt = TRUE, !.modal = m]
        \/ page' = AfterSave(page, t, kind, FALSE)
    BY DEF Close
  <1>3. CASE ~tb.dirty /\ page' = RemoveTabs(page, {t})
    <2>1. PICK S : S = {t}
      OBVIOUS
    <2>2. page' = RemoveTabs(page, S)
      BY <1>3, <2>1
    <2>3. /\ Paged(page') /\ \A u \in Tabs \ {t} : Kept(page, page', u)
          /\ Same(page, page', t) /\ Solid(page, page', t) /\ ~IsOpen(page', t)
      BY <1>1, <2>1, <2>2, RemoveTabsKeeps
    <2>4. Kept(page, page', t)
      BY <1>3, <2>3 DEF Kept
    <2>5. page'.modal = page.modal
      BY <1>1, <2>2, DialogStays
    <2> QED BY <1>1, <2>3, <2>4, <2>5, PageSteps
  <1>4. CASE page' = [page EXCEPT !.tab[t].prompt = TRUE, !.modal = m]
    <2>1. m \in ModalType /\ m.kind = "close" /\ m.t = t
      BY DEF ModalType, Kinds, Text
    <2> HIDE DEF m
    <2>2. /\ page'.active = page.active /\ page'.editor = page.editor /\ page'.modal = m
          /\ \A u \in Tabs : Like(page, page', u)
          /\ Shape(page') /\ Shrinks(page, page')
      BY <1>1, <1>4 DEF Like, TextOf, Paged, Good, Shape, Shrinks, PageFields, TabFields
    <2>3. Good(page')
      BY <1>1, <2>2, ShrunkIsGood DEF Paged
    <2>4. Paged(page') /\ \A u \in Tabs : Kept(page, page', u)
      BY <1>1, <2>1, <2>2, <2>3, AllAreLike
    <2>5. DialogOK' /\ page'.modal.kind # "conflict"
      BY <1>1, <2>1, <2>2 DEF DialogOK, Begun, IsOpen, Like
    <2> QED BY <1>1, <2>4, <2>5, PageSteps
  <1>5. CASE page' = AfterSave(page, t, kind, FALSE)
    <2>1. PICK ok : ok = FALSE
      OBVIOUS
    <2>2. page' = AfterSave(page, t, kind, ok) /\ ~Closes(kind, ok)
      BY <1>5, <2>1 DEF Closes
    <2> HIDE DEF kind
    <2>3. Paged(page') /\ \A u \in Tabs : Kept(page, page', u)
      BY <1>1, <2>2, AfterSaveKeeps, LikeIsKept
    <2>4. page'.modal = page.modal
      BY <1>1, <2>2, DialogStays
    <2> QED BY <1>1, <2>3, <2>4, PageSteps
  <1> QED BY <1>2, <1>3, <1>4, <1>5

\* Without a save the text goes only if the user says so.
LEMMA AnswerCloseSteps ==
  ASSUME Inv, NEW choice \in {"cancel", "dontsave", "save"}, AnswerClose(choice)
  PROVE  Inv'
  <1> PICK t : t = page.modal.t
    OBVIOUS
  <1> PICK kind : kind = page.modal.save
    OBVIOUS
  <1>c. PICK closed : closed = [page EXCEPT !.modal = NoModal]
    OBVIOUS
  <1>1. /\ UNCHANGED <<file, answers, changed, rpc, run, edits, foreign, asks, gaps>>
        /\ \/ page' = AfterSave(closed, t, kind, FALSE) /\ UNCHANGED <<inflight, waits, calls, given>>
           \/ /\ page' = AfterSave(closed, t, kind, TRUE)
              /\ given' = given \cup (IF IsOpen(page, t) THEN TextOf(page, t) ELSE {})
              /\ UNCHANGED <<inflight, waits, calls>>
           \/ SaveTab(closed, t, kind) /\ UNCHANGED given
    BY <1>c DEF AnswerClose
  <1>2. Begun(t) /\ t \in Tabs /\ kind \in Kinds
    BY DEF AnswerClose, Inv, DialogOK, Begun, Paged, PageTypes, ModalType
  <1>3. Alike(closed) /\ closed.modal = NoModal /\ Shape(closed) /\ Paged(closed)
        /\ \A u \in Tabs : Kept(page, closed, u)
    BY <1>c, DialogClosed DEF Alike
  <1>4. CASE page' = AfterSave(closed, t, kind, FALSE) /\ UNCHANGED <<inflight, waits, calls, given>>
    <2>1. PICK ok : ok = FALSE
      OBVIOUS
    <2>2. page' = AfterSave(closed, t, kind, ok) /\ ~Closes(kind, ok)
      BY <1>4, <2>1 DEF Closes
    <2>3. Paged(page') /\ \A u \in Tabs : Kept(page, page', u)
      BY <1>3, <2>2, AfterSaveKeeps, LikeIsKept, KeptChain
    <2>4. page'.modal = NoModal
      <3>0. Shape(closed)
        BY <1>3
      <3>1. AfterSave(closed, t, kind, ok).modal = closed.modal
        BY <3>0, AfterSaveDialog
      <3> QED BY <1>3, <2>2, <3>1
    <2> QED BY <1>1, <1>4, <2>3, <2>4, NoDialog, PageSteps DEF Inv
  <1>5. CASE /\ page' = AfterSave(closed, t, kind, TRUE)
             /\ given' = given \cup (IF IsOpen(page, t) THEN TextOf(page, t) ELSE {})
             /\ UNCHANGED <<inflight, waits, calls>>
    <2>1. PICK ok : ok = TRUE
      OBVIOUS
    <2>2. page' = AfterSave(closed, t, kind, ok)
      BY <1>5, <2>1
    <2>3. /\ Paged(page') /\ page'.modal = NoModal
          /\ ~Closes(kind, ok) => \A u \in Tabs : Like(closed, page', u)
          /\ \A u \in Tabs \ {t} : Kept(closed, page', u)
          /\ Closes(kind, ok) => /\ ~IsOpen(page', t) /\ Same(closed, page', t)
                                 /\ Solid(closed, page', t)
      <3>0. Shape(closed)
        BY <1>3
      <3>1. AfterSave(closed, t, kind, ok).modal = closed.modal
        BY <3>0, AfterSaveDialog
      <3>2. page'.modal = NoModal
        BY <1>3, <2>2, <3>1
      <3> QED BY <1>2, <1>3, <2>2, <3>2, AfterSaveKeeps
    <2>4. DialogOK' /\ page'.modal.kind # "conflict"
      BY <2>3, NoDialog DEF Inv
    <2>5. Grows /\ \A e \in TextOf(page, t) : IsOpen(page, t) => Held(e)'
      BY <1>1, <1>5 DEF Grows, Gone, Held
    <2>6. Data'
      BY <1>1, <1>5 DEF Inv, Data
    <2>7. CASE Closes(kind, ok)
      <3>1. \A u \in Tabs \ {t} : Kept(page, page', u)
        BY <1>3, <2>3, KeptChain
      <3>2. Same(page, page', t) /\ Solid(page, page', t) /\ ~IsOpen(page', t)
        BY <1>2, <1>3, <2>3, <2>7 DEF Alike, Like, Same, Solid, IsOpen
      <3>3. Carried(t)
        BY <3>2 DEF Carried, Solid
      <3>4. Minded(t)
        <4>1. (Begun(t) => Known(t)) /\ (IsOpen(page, t) => TabOK(t))
          BY <1>2 DEF Inv, NotesOK
        <4>2. Begun(t)' => Known(t)'
          BY <1>2, <2>5, <3>2, <4>1, KnownFrame
        <4> QED BY <1>2, <2>5, <3>2, <4>2 DEF Minded, Begun, Same
      <3>5. PICK T \in SUBSET Tabs : T = {t}
        BY <1>2
      <3> QED BY <1>1, <1>5, <2>3, <2>4, <2>5, <2>6, <3>1, <3>3, <3>4, <3>5, NothingMade, QuietStep
    <2>8. CASE ~Closes(kind, ok)
      <3>1. \A u \in Tabs : Kept(page, page', u)
        BY <1>3, <2>3, <2>8, LikeIsKept, KeptChain
      <3>2. PICK T \in SUBSET Tabs : T = {}
        OBVIOUS
      <3> QED BY <1>1, <1>5, <2>3, <2>4, <2>5, <2>6, <3>1, <3>2, NothingMade, QuietStep
    <2> QED BY <2>7, <2>8
  <1>6. CASE SaveTab(closed, t, kind) /\ UNCHANGED given
    BY <1>1, <1>2, <1>3, <1>6, SaveTabSteps
  <1> QED BY <1>1, <1>4, <1>5, <1>6

\* The save that met the conflict is over, goes to another file, gives its text
\* up for the file's, or writes what the note shows.
LEMMA AnswerConflictSteps ==
  ASSUME Inv, NEW choice \in {"cancel", "saveas", "reload", "overwrite"}, AnswerConflict(choice)
  PROVE  Inv'
  <1> PICK t : t = page.modal.t
    OBVIOUS
  <1> PICK kind : kind = page.modal.save
    OBVIOUS
  <1> PICK keep : keep = page.modal.keep
    OBVIOUS
  <1> PICK tb : tb = page.tab[t]
    OBVIOUS
  <1>c. PICK closed : closed = [page EXCEPT !.modal = NoModal]
    OBVIOUS
  <1>1. /\ UNCHANGED <<file, waits, answers, changed, rpc, run, edits, foreign, asks,
                       given, gaps>>
        /\ \/ /\ page' = AfterSave(closed, t, kind, FALSE)
              /\ inflight' = inflight \ {t} /\ UNCHANGED calls
           \/ BeginSave(closed, t, kind, TRUE)
           \/ /\ RoomForTab /\ page' = closed /\ UNCHANGED inflight
              /\ calls' = Append(calls, Read("reload", t, tb.path, keep, kind))
           \/ /\ page' = closed /\ UNCHANGED inflight
              /\ calls' = Append(calls, Call("save", t, tb.path, tb.text, keep, kind, NoText))
    BY <1>c DEF AnswerConflict
  <1>2. /\ Begun(t) /\ t \in Tabs /\ kind \in Kinds /\ keep \in Text
        /\ tb.path \in Paths \cup {NoPath} /\ tb.text \in Text
        /\ IsOpen(page, t) => Within(keep, TextOf(page, t)) /\ InStep(page, t)
    BY DEF AnswerConflict, Inv, DialogOK, Shown, Begun, Paged, PageTypes, ModalType
  <1>3. Alike(closed) /\ closed.modal = NoModal /\ Shape(closed) /\ Paged(closed)
        /\ \A u \in Tabs : Kept(page, closed, u)
    BY <1>c, DialogClosed DEF Alike
  <1>4. PendingIn(calls, t) = {} /\ PendingIn(answers, t) = {} /\ t \in inflight
    BY <1>2 DEF AnswerConflict, Inv, NotesOK, Alone, Asked
  <1>5. Grows
    BY <1>1, NothingGone
  <1>6. PICK T \in SUBSET Tabs : T = {}
    OBVIOUS
  <1>7. ~(closed.modal.kind = "conflict" /\ closed.modal.t = t)
    BY <1>3 DEF NoModal
  <1>8. CASE /\ page' = AfterSave(closed, t, kind, FALSE)
             /\ inflight' = inflight \ {t} /\ UNCHANGED calls
    <2>1. PICK ok : ok = FALSE
      OBVIOUS
    <2>2. page' = AfterSave(closed, t, kind, ok) /\ ~Closes(kind, ok)
      BY <1>8, <2>1 DEF Closes
    <2>3. Paged(page') /\ \A u \in Tabs : Kept(page, page', u)
      BY <1>3, <2>2, AfterSaveKeeps, LikeIsKept, KeptChain
    <2>4. page'.modal = NoModal
      <3>0. Shape(closed)
        BY <1>3
      <3>1. AfterSave(closed, t, kind, ok).modal = closed.modal
        BY <3>0, AfterSaveDialog
      <3> QED BY <1>3, <2>2, <3>1
    <2>5. Free(t)'
      <3>1. ~Asked(t)'
        BY <2>4 DEF Asked, NoModal
      <3>2. PendingIn(calls, t)' = {} /\ PendingIn(answers, t)' = {}
        BY <1>1, <1>4, <1>8 DEF PendingIn
      <3> QED BY <3>1, <3>2 DEF Free
    <2>6. \A u \in inflight : u \in inflight' \/ Free(u)'
      BY <1>8, <2>5
    <2> QED BY <1>1, <1>8, <2>3, <2>4, <2>6, NoDialog, PageSteps DEF Inv
  <1>9. CASE BeginSave(closed, t, kind, TRUE)
    <2>1. PICK force : force = TRUE
      OBVIOUS
    <2>2. BeginSave(closed, t, kind, force)
      BY <1>9, <2>1
    <2>3. waits' \in [Tabs -> SUBSET Kinds]
      BY <1>1 DEF Inv, Data
    <2>4. waits' = waits
      BY <1>1
    <2> QED BY <1>1, <1>2, <1>3, <1>4, <1>7, <2>2, <2>3, <2>4, BeginSaveSteps
  <1>10. CASE /\ RoomForTab /\ page' = closed /\ UNCHANGED inflight
              /\ calls' = Append(calls, Read("reload", t, tb.path, keep, kind))
    <2>c. PICK c : c = Read("reload", t, tb.path, keep, kind)
      OBVIOUS
    <2>0. /\ calls' = Append(calls, c) /\ page' = closed /\ UNCHANGED inflight /\ RoomForTab
      BY <2>c, <1>10
    <2>1. c \in CallType /\ c.op = "reload" /\ c.t = t
      BY <2>c, <1>2, CallsTyped
    <2>2. CallOK(c)'
      BY <1>2, <1>3, <2>0, <2>1 DEF CallOK, Saves, Begun, Kept, Same
    <2>3. Data'
      BY <1>1, <2>0, <2>1, ElemsOfAppend DEF Inv, Data
    <2>4. page'.modal = NoModal /\ ~Asked(t)'
      BY <1>3, <2>0 DEF Asked, NoModal
    <2>5. DialogOK' /\ page'.modal.kind # "conflict"
      BY <2>4, NoDialog DEF Inv
    <2>6. /\ c.op \in Pends => c.t \in inflight' /\ PendingIn(calls, c.t) = {}
                           /\ PendingIn(answers, c.t) = {} /\ ~Asked(c.t)'
          /\ c.op \in Opens => RoomForTab
      BY <1>4, <2>0, <2>1, <2>4 DEF Asked
    <2> QED BY <1>1, <1>3, <1>5, <1>6, <2>0, <2>1, <2>2, <2>3, <2>5, <2>6, CallStep
  <1>11. CASE /\ page' = closed /\ UNCHANGED inflight
              /\ calls' = Append(calls, Call("save", t, tb.path, tb.text, keep, kind, NoText))
    <2>c. PICK c : c = Call("save", t, tb.path, tb.text, keep, kind, NoText)
      OBVIOUS
    <2>0. /\ calls' = Append(calls, c) /\ page' = closed /\ UNCHANGED inflight
      BY <2>c, <1>11
    <2>1. /\ c \in CallType /\ c.op = "save" /\ c.t = t /\ c.x = tb.text /\ c.keep = keep
          /\ c.p = tb.path /\ c.sig = NoText
      BY <2>c, <1>2, CallsTyped
    <2>2. /\ page'.tab[t].text = tb.text /\ page'.tab[t].path = tb.path
          /\ TextOf(page', t) = TextOf(page, t) /\ (IsOpen(page', t) <=> IsOpen(page, t))
          /\ Begun(t)'
      BY <1>2, <1>3, <2>0 DEF Alike, Like, Begun, IsOpen
    <2>3. Carries(c)' /\ Shown(c)' /\ Placed(c)'
      <3>1. IsOpen(page, t) => keep \subseteq TextOf(page, t) \cup Gone /\ tb.text = TextOf(page, t)
        BY <1>2 DEF Within, InStep
      <3>2. Gone' = Gone
        BY <1>1 DEF Gone
      <3>3. c.t = t /\ c.x = tb.text /\ c.keep = keep /\ c.p = tb.path
        BY <2>1
      <3>4. Carries(c)'
        BY <2>2, <3>1, <3>2, <3>3 DEF Carries, Within
      <3>5. Shown(c)'
        BY <2>2, <3>1, <3>2, <3>3 DEF Shown, Within, InStep
      <3>6. Placed(c)'
        BY <2>2, <3>3 DEF Placed
      <3> QED BY <3>4, <3>5, <3>6
    <2>4. CallOK(c)'
      BY <2>1, <2>2, <2>3 DEF CallOK, Saves
    <2>5. Data'
      BY <1>1, <2>0, <2>1, ElemsOfAppend DEF Inv, Data
    <2>6. page'.modal = NoModal /\ ~Asked(t)'
      BY <1>3, <2>0 DEF Asked, NoModal
    <2>7. DialogOK' /\ page'.modal.kind # "conflict"
      BY <2>6, NoDialog DEF Inv
    <2>8. /\ c.op \in Pends => c.t \in inflight' /\ PendingIn(calls, c.t) = {}
                           /\ PendingIn(answers, c.t) = {} /\ ~Asked(c.t)'
          /\ c.op \in Opens => RoomForTab
      BY <1>4, <2>0, <2>1, <2>6 DEF Asked, Opens
    <2> QED BY <1>1, <1>3, <1>5, <1>6, <2>0, <2>1, <2>4, <2>5, <2>7, <2>8, CallStep
  <1> QED BY <1>1, <1>8, <1>9, <1>10, <1>11

LEMMA OpenSteps == ASSUME Inv, NEW p \in Paths, Open(p) PROVE Inv'
  <1>1. UNCHANGED <<file, inflight, waits, answers, changed, rpc, run, edits, foreign, given, gaps>>
    BY DEF Open
  <1>2. CASE page' = SelectTab(page, CHOOSE t \in OwnersOf(page, p) : TRUE) /\ UNCHANGED calls
    <2> PICK t : t = CHOOSE u \in OwnersOf(page, p) : TRUE
      OBVIOUS
    <2>1. page' = SelectTab(page, t) /\ Paged(page) /\ Shape(page)
      BY <1>2 DEF Inv, Paged, Good
    <2>2. Paged(page') /\ (\A u \in Tabs : Kept(page, page', u)) /\ page'.modal = page.modal
      BY <2>1, SelectTabKeeps, DialogStays
    <2> QED BY <1>1, <1>2, <2>2, PageSteps
  <1>3. CASE /\ RoomForTab /\ UNCHANGED page
             /\ calls' = Append(calls, Read("open", NoTab, p, {}, "none"))
    <2>c. PICK c : c = Read("open", NoTab, p, {}, "none")
      OBVIOUS
    <2>1. c \in CallType /\ c.op = "open" /\ c.p = p
      <3>1. {} \in Text /\ "none" \in Kinds
        BY DEF Text, Kinds
      <3> QED BY <2>c, <3>1, CallsTyped
    <2>2. CallOK(c)' /\ c.op \notin Pends
      BY <2>1 DEF CallOK, Saves, Pends
    <2>3. Data'
      BY <1>1, <1>3, <2>c, <2>1, ElemsOfAppend DEF Inv, Data
    <2>4. Paged(page') /\ \A u \in Tabs : Kept(page, page', u)
      BY <1>3, KeptSelf DEF Inv
    <2>5. PICK T \in SUBSET Tabs : T = {}
      OBVIOUS
    <2>6. Grows
      BY <1>1, NothingGone
    <2>7. calls' = Append(calls, c)
      BY <1>3, <2>c
    <2> QED BY <1>1, <1>3, <2>1, <2>2, <2>3, <2>4, <2>5, <2>6, <2>7, CallStep
  <1> QED BY <1>2, <1>3 DEF Open

LEMMA RpcCloseSteps == ASSUME Inv, NEW t \in Tabs, RpcClose(t) PROVE Inv'
  <1> PICK p : p = page.tab[t].path
    OBVIOUS
  <1> PICK keep : keep = TextOf(page, t)
    OBVIOUS
  <1>c. PICK c : c = Read("rpcclose", t, p, keep, "none")
    OBVIOUS
  <1>1. /\ UNCHANGED <<file, page, inflight, waits, answers, changed, rpc, run, edits, foreign,
                       given, gaps>>
        /\ calls' = Append(calls, c)
    BY <1>c DEF RpcClose
  <1>2. c \in CallType /\ c.op = "rpcclose" /\ c.p = p /\ p \in Paths
    <2>1. p \in Paths /\ keep \in Text /\ "none" \in Kinds
      BY TextTyped DEF RpcClose, Inv, Paged, PageTypes, Kinds
    <2> QED BY <1>c, <2>1, CallsTyped
  <1>3. CallOK(c)' /\ c.op \notin Pends /\ c.op \notin Opens
    BY <1>2 DEF CallOK, Saves, Pends, Opens
  <1>4. Data'
    BY <1>1, <1>2, ElemsOfAppend DEF Inv, Data
  <1>5. Paged(page') /\ \A u \in Tabs : Kept(page, page', u)
    BY <1>1, KeptSelf DEF Inv
  <1>6. PICK T \in SUBSET Tabs : T = {}
    OBVIOUS
  <1>7. Grows
    BY <1>1, NothingGone
  <1> QED BY <1>1, <1>2, <1>3, <1>4, <1>5, <1>6, <1>7, CallStep

\* Another program, or a capture, adds to a file.
LEMMA Added ==
  ASSUME Data, NEW p \in Paths, foreign < MaxForeign, foreign' = foreign + 1,
         WriteFile(p, file[p] \cup {MaxEdits + foreign + 1}), UNCHANGED <<edits, given, gaps>>
  PROVE  /\ Grows /\ file' \in [Paths -> Text] /\ foreign' \in Nat /\ foreign' <= MaxForeign
         /\ \A e : MadeNow(e, edits, foreign') => MadeNow(e, edits, foreign) \/ Held(e)'
  <1> PICK e : e = MaxEdits + foreign + 1
    OBVIOUS
  <1>1. e \in 1..(MaxEdits + MaxForeign) /\ file[p] \in Text
    BY DEF Data, NoteFileAssumption
  <1>2. file[p] \cup {e} \in Text
    BY <1>1 DEF Text
  <1>3. file' = [file EXCEPT ![p] = file[p] \cup {e}]
    BY DEF WriteFile
  <1>4. /\ file' \in [Paths -> Text] /\ file'[p] = file[p] \cup {e}
        /\ \A q \in Paths : file[q] \subseteq file'[q]
    BY <1>2, <1>3 DEF Data
  <1>5. Grows
    BY <1>4 DEF Grows, Gone
  <1>6. foreign' \in Nat /\ foreign' <= MaxForeign
    BY DEF Data, NoteFileAssumption
  <1>7. ASSUME NEW d, MadeNow(d, edits, foreign + 1), ~MadeNow(d, edits, foreign)
        PROVE  Held(d)'
    <2>0. edits \in Nat /\ foreign \in Nat /\ MaxEdits \in Nat
      BY DEF Data, NoteFileAssumption
    <2>1. d = e
      BY <1>7, <2>0 DEF MadeNow
    <2> QED BY <1>4, <2>1 DEF Held
  <1> QED BY <1>4, <1>5, <1>6, <1>7

LEMMA ForeignSteps == ASSUME Inv, NEW p \in Paths, Foreign(p) PROVE Inv'
  <1>1. /\ foreign < MaxForeign /\ foreign' = foreign + 1
        /\ WriteFile(p, file[p] \cup {MaxEdits + foreign + 1})
        /\ UNCHANGED <<page, inflight, waits, calls, answers, rpc, run, edits, given, gaps>>
    BY DEF Foreign
  <1>2. Data
    BY DEF Inv
  <1>3. /\ Grows /\ file' \in [Paths -> Text] /\ foreign' \in Nat /\ foreign' <= MaxForeign
        /\ \A e : MadeNow(e, edits, foreign') => MadeNow(e, edits, foreign) \/ Held(e)'
    BY <1>1, <1>2, Added
  <1>4. changed' \in Paths \cup {NoPath}
    BY <1>1, <1>2 DEF WriteFile, Data
  <1>5. Data'
    BY <1>1, <1>2, <1>3, <1>4 DEF Data
  <1>6. Paged(page') /\ \A u \in Tabs : Kept(page, page', u)
    BY <1>1, KeptSelf DEF Inv
  <1>7. PICK T \in SUBSET Tabs : T = {}
    OBVIOUS
  <1> QED BY <1>1, <1>3, <1>5, <1>6, <1>7, QuietStep

LEMMA ScrapAppendedSteps == ASSUME Inv, NEW p \in Paths, ScrapAppended(p) PROVE Inv'
  <1> PICK shown : shown = {t \in OwnersOf(page, p) : ~HasUnsavedText(page, t)}
    OBVIOUS
  <1> PICK s : s = CHOOSE t \in shown : TRUE
    OBVIOUS
  <1>1. /\ foreign < MaxForeign /\ foreign' = foreign + 1
        /\ WriteFile(p, file[p] \cup {MaxEdits + foreign + 1})
        /\ UNCHANGED <<page, inflight, waits, answers, rpc, run, edits, given, gaps>>
        /\ OwnersOf(page, p) = {} => RoomForTab
        /\ \/ UNCHANGED calls
           \/ shown # {} /\ calls' = Append(calls, Read("refresh", s, p, {}, "none"))
           \/ /\ OwnersOf(page, p) = {}
              /\ calls' = Append(calls, Read("open", NoTab, p, {}, "none"))
    BY DEF ScrapAppended
  <1>2. Data
    BY DEF Inv
  <1>3. /\ Grows /\ file' \in [Paths -> Text] /\ foreign' \in Nat /\ foreign' <= MaxForeign
        /\ \A e : MadeNow(e, edits, foreign') => MadeNow(e, edits, foreign) \/ Held(e)'
    BY <1>1, <1>2, Added
  <1>4. changed' \in Paths \cup {NoPath}
    BY <1>1, <1>2 DEF WriteFile, Data
  <1>5. Paged(page') /\ \A u \in Tabs : Kept(page, page', u)
    BY <1>1, KeptSelf DEF Inv
  <1>6. PICK T \in SUBSET Tabs : T = {}
    OBVIOUS
  <1>7. CASE UNCHANGED calls
    <2>1. Data'
      BY <1>1, <1>2, <1>3, <1>4, <1>7 DEF Data
    <2> QED BY <1>1, <1>3, <1>5, <1>6, <1>7, <2>1, QuietStep
  <1>8. ASSUME NEW c \in CallType, c.op \in {"refresh", "open"}, c.p = p,
               calls' = Append(calls, c), c.op = "open" => RoomForTab
        PROVE  Inv'
    <2>1. CallOK(c)' /\ c.op \notin Pends /\ (c.op \in Opens => RoomForTab)
      BY <1>8 DEF CallOK, Saves, Pends, Opens
    <2>2. Data'
      BY <1>1, <1>2, <1>3, <1>4, <1>8, ElemsOfAppend DEF Data
    <2> QED BY <1>1, <1>3, <1>5, <1>6, <1>8, <2>1, <2>2, CallStep
  <1>9. {} \in Text /\ "none" \in Kinds
    BY DEF Text, Kinds
  <1>10. CASE shown # {} /\ calls' = Append(calls, Read("refresh", s, p, {}, "none"))
    <2>1. s \in Tabs
      BY <1>10 DEF OwnersOf, OpenTabs
    <2>c. PICK c : c = Read("refresh", s, p, {}, "none")
      OBVIOUS
    <2>2. c \in CallType /\ c.op = "refresh" /\ c.p = p
      BY <1>9, <2>1, <2>c, CallsTyped
    <2> QED BY <1>8, <1>10, <2>c, <2>2
  <1>11. CASE /\ OwnersOf(page, p) = {}
              /\ calls' = Append(calls, Read("open", NoTab, p, {}, "none"))
    <2>c. PICK c : c = Read("open", NoTab, p, {}, "none")
      OBVIOUS
    <2>1. c \in CallType /\ c.op = "open" /\ c.p = p
      BY <1>9, <2>c, CallsTyped
    <2> QED BY <1>1, <1>8, <1>11, <2>c, <2>1
  <1> QED BY <1>1, <1>7, <1>10, <1>11

LEMMA WatcherFiresSteps == ASSUME Inv, WatcherFires PROVE Inv'
  <1>1. /\ changed # NoPath /\ changed' = NoPath
        /\ UNCHANGED <<file, page, inflight, waits, answers, rpc, run, edits, foreign, given, gaps>>
        /\ \/ UNCHANGED calls
           \/ calls' = Append(calls, Read("seen", NoTab, changed, {}, "none"))
    BY DEF WatcherFires
  <1> PICK p : p = changed
    OBVIOUS
  <1>2. Paged(page') /\ (\A u \in Tabs : Kept(page, page', u)) /\ Data
    BY <1>1, KeptSelf DEF Inv
  <1>3. PICK T \in SUBSET Tabs : T = {}
    OBVIOUS
  <1>4. Grows
    BY <1>1, NothingGone
  <1>5. CASE UNCHANGED calls
    <2>1. Data'
      BY <1>1, <1>2, <1>5 DEF Data
    <2> QED BY <1>1, <1>2, <1>3, <1>4, <1>5, <2>1, NothingMade, QuietStep
  <1>6. CASE calls' = Append(calls, Read("seen", NoTab, p, {}, "none"))
    <2>c. PICK c : c = Read("seen", NoTab, p, {}, "none")
      OBVIOUS
    <2>1. c \in CallType /\ c.op = "seen" /\ c.p = p /\ p \in Paths
      <3>1. {} \in Text /\ "none" \in Kinds /\ p \in Paths
        BY <1>1, <1>2 DEF Text, Kinds, Data
      <3> QED BY <2>c, <3>1, CallsTyped
    <2>2. CallOK(c)' /\ c.op \notin Pends /\ c.op \notin Opens
      BY <2>1 DEF CallOK, Saves, Pends, Opens
    <2>3. calls' = Append(calls, c)
      BY <1>6, <2>c
    <2>4. Data'
      BY <1>1, <1>2, <2>1, <2>3, ElemsOfAppend DEF Data
    <2> QED BY <1>1, <1>2, <1>3, <1>4, <2>1, <2>2, <2>3, <2>4, NothingMade, CallStep
  <1> QED BY <1>1, <1>5, <1>6

-----------------------------------------------------------------------------
(* Go's steps *)

\* A file is written: what it held and the text does not was given up, or fell
\* into a gap, or the text holds all of it.
LEMMA Written ==
  ASSUME Data, NEW p \in Paths, NEW x \in Text, WriteFile(p, x), Gone \subseteq Gone',
         file[p] \subseteq x \cup Gone'
  PROVE  /\ Grows /\ file' \in [Paths -> Text] /\ file'[p] = x
         /\ changed' \in Paths \cup {NoPath}
  <1>1. /\ file' \in [Paths -> Text] /\ file'[p] = x
        /\ \A q \in Paths \ {p} : file'[q] = file[q]
    BY DEF Data, WriteFile
  <1>2. \A q \in Paths : file[q] \subseteq file'[q] \cup Gone'
    BY <1>1
  <1> QED BY <1>1, <1>2 DEF Grows, WriteFile, Data

LEMMA HeadServed ==
  ASSUME Inv, calls # <<>>
  PROVE  /\ Head(calls) \in CallType /\ CallOK(Head(calls)) /\ Tail(calls) \in Seq(CallType)
         /\ answers \in Seq(CallType)
  BY ElemsOfTail DEF Inv, Data, CallsOK

\* SaveFileChecked writes what the note shows, over a text that is in it.
LEMMA ServeSaveSteps == ASSUME Inv, ServeSave PROVE Inv'
  <1>c. PICK c : c = Head(calls)
    OBVIOUS
  <1>1. /\ calls # <<>> /\ c.op = "save" /\ c \in CallType /\ CallOK(c)
        /\ Tail(calls) \in Seq(CallType) /\ answers \in Seq(CallType) /\ Data
    BY <1>c, HeadServed DEF ServeSave, Inv
  <1>2. /\ UNCHANGED <<page, inflight, waits, rpc, run, edits, foreign, gaps>>
        /\ calls' = Tail(calls)
    BY DEF ServeSave, Serve
  <1>3. \A t \in Tabs : Carried(t)
    BY <1>2, KeptSelf, KeptIsCarried
  <1>4. c.op \in Pends /\ c.t \in Tabs /\ c.x \in Text /\ c.sig \in Text \cup {NoText}
    BY <1>1 DEF Pends, CallOK, Begun, CallType
  <1>5. ASSUME NEW a, answers' = Append(answers, a), a \in CallType,
               a.op \in {"conflict", "saved", "unwritten", "failed"}, a.t = c.t, a.x = c.x,
               a.keep = c.keep, Grows, Data', a.p = c.p \/ c.p = NoPath,
               a.op = "saved" => a.p \in Paths /\ file'[a.p] = c.x
        PROVE  Inv'
    <2>1. ReadsNew
      BY <1>1, <1>5, ReadsOfAppend DEF ReadsNew, Adopted
    <2>2. CallOK(c)'
      BY <1>1, <1>3, <1>4, <1>5, <2>1, CallFrame DEF Inv
    <2>3. a.op \in {"conflict", "saved", "unwritten", "failed"} /\ Begun(a.t)'
      BY <1>1, <1>5, <2>2 DEF CallOK
    <2>4. Shown(a)'
      BY <1>1, <1>5, <2>2 DEF CallOK, Shown
    <2>5. Carries(a)'
      BY <1>1, <1>5, <2>2 DEF CallOK, Carries, Saves
    <2>6. Placed(a)'
      BY <1>1, <1>5, <2>2 DEF CallOK, Placed
    <2>7. a.op \in FromFile => a.p \in Paths /\ Within(a.x, file[a.p])'
      BY <1>5 DEF FromFile, Within
    <2>8. AnswerOK(a)'
      BY <2>3, <2>4, <2>5, <2>6, <2>7 DEF AnswerOK
    <2>9. /\ a.op \in Pends => Head(calls).op \in Pends /\ a.t = Head(calls).t
          /\ a.op \notin Opens /\ a.op \notin Adopted
      BY <1>c, <1>4, <1>5 DEF Opens, Adopted
    <2> QED BY <1>1, <1>2, <1>5, <2>8, <2>9, ServeStep
  <1>6. \/ /\ answers' = Append(answers, [c EXCEPT !.op = "conflict"])
           /\ UNCHANGED <<file, changed, given, gaps>>
        \/ /\ c.p # NoPath /\ (c.sig = NoText \/ file[c.p] = c.sig)
           /\ WriteFile(c.p, c.x)
           /\ given' = IF c.sig = NoText THEN given \cup (file[c.p] \ c.x) ELSE given
           /\ answers' = Append(answers, [c EXCEPT !.op = "saved"])
        \/ /\ c.p = NoPath
           /\ \E p \in Paths : /\ WriteFile(p, c.x) /\ given' = given \cup (file[p] \ c.x)
                              /\ answers' = Append(answers, [c EXCEPT !.op = "saved", !.p = p])
        \/ /\ answers' = Append(answers, [c EXCEPT !.op = "unwritten"])
           /\ UNCHANGED <<file, changed, given>>
        \/ /\ answers' = Append(answers, [c EXCEPT !.op = "failed"])
           /\ UNCHANGED <<file, changed, given>>
    BY <1>c DEF ServeSave, Serve, Replace
  <1>7. ASSUME NEW op \in {"conflict", "unwritten", "failed"}, answers' = Append(answers, [c EXCEPT !.op = op]),
               UNCHANGED <<file, changed, given>>
        PROVE  Inv'
    <2>a. PICK a : a = [c EXCEPT !.op = op]
      OBVIOUS
    <2>1. /\ a \in CallType /\ a.op = op /\ a.t = c.t /\ a.p = c.p /\ a.x = c.x /\ a.keep = c.keep
      BY <1>1, <2>a DEF CallType, Ops, Pends
    <2>2. Grows
      BY <1>2, <1>7, NothingGone
    <2>3. answers' = Append(answers, a)
      BY <1>7, <2>a
    <2>4. Data'
      BY <1>1, <1>2, <1>7, <2>1, <2>3, ElemsOfAppend DEF Data
    <2> QED BY <1>5, <2>1, <2>2, <2>3, <2>4
  <1>8. CASE /\ c.p # NoPath /\ (c.sig = NoText \/ file[c.p] = c.sig)
             /\ WriteFile(c.p, c.x)
             /\ given' = IF c.sig = NoText THEN given \cup (file[c.p] \ c.x) ELSE given
             /\ answers' = Append(answers, [c EXCEPT !.op = "saved"])
    <2>a. PICK a : a = [c EXCEPT !.op = "saved"]
      OBVIOUS
    <2>1. /\ a \in CallType /\ a.op = "saved" /\ a.t = c.t /\ a.p = c.p /\ a.x = c.x
          /\ a.keep = c.keep
      BY <1>1, <2>a DEF CallType, Ops, FromFile
    <2>2. c.p \in Paths
      BY <1>1, <1>8 DEF CallType
    <2>3. Gone \subseteq Gone' /\ file[c.p] \subseteq c.x \cup Gone'
      <3>1. CASE c.sig = NoText
        BY <1>2, <1>8, <3>1 DEF Gone
      <3>2. CASE c.sig # NoText
        BY <1>1, <1>2, <1>8, <3>2 DEF Gone, CallOK, Within
      <3> QED BY <3>1, <3>2
    <2>4. /\ Grows /\ file' \in [Paths -> Text] /\ file'[c.p] = c.x
          /\ changed' \in Paths \cup {NoPath}
      BY <1>1, <1>4, <1>8, <2>2, <2>3, Written
    <2>5. answers' = Append(answers, a)
      BY <1>8, <2>a
    <2>6. Data'
      BY <1>1, <1>2, <2>1, <2>4, <2>5, ElemsOfAppend DEF Data
    <2> QED BY <1>5, <2>1, <2>2, <2>4, <2>5, <2>6
  <1>9. ASSUME c.p = NoPath, NEW p \in Paths, WriteFile(p, c.x),
               given' = given \cup (file[p] \ c.x),
               answers' = Append(answers, [c EXCEPT !.op = "saved", !.p = p])
        PROVE  Inv'
    <2>a. PICK a : a = [c EXCEPT !.op = "saved", !.p = p]
      OBVIOUS
    <2>1. /\ a \in CallType /\ a.op = "saved" /\ a.t = c.t /\ a.p = p /\ a.x = c.x
          /\ a.keep = c.keep
      BY <1>1, <2>a DEF CallType, Ops, FromFile
    <2>2. Gone \subseteq Gone' /\ file[p] \subseteq c.x \cup Gone'
      BY <1>2, <1>9 DEF Gone
    <2>3. /\ Grows /\ file' \in [Paths -> Text] /\ file'[p] = c.x
          /\ changed' \in Paths \cup {NoPath}
      BY <1>1, <1>4, <1>9, <2>2, Written
    <2>4. answers' = Append(answers, a)
      BY <1>9, <2>a
    <2>5. Data'
      BY <1>1, <1>2, <2>1, <2>3, <2>4, ElemsOfAppend DEF Data
    <2> QED BY <1>5, <1>9, <2>1, <2>3, <2>4, <2>5
  <1> QED BY <1>6, <1>7, <1>8, <1>9

\* SaveFileAs: the user agrees to what is replaced.
LEMMA ServeSaveAsSteps == ASSUME Inv, ServeSaveAs PROVE Inv'
  <1>c. PICK c : c = Head(calls)
    OBVIOUS
  <1>1. /\ calls # <<>> /\ c.op = "saveas" /\ c \in CallType /\ CallOK(c)
        /\ Tail(calls) \in Seq(CallType) /\ answers \in Seq(CallType) /\ Data
    BY <1>c, HeadServed DEF ServeSaveAs, Inv
  <1>2. /\ UNCHANGED <<page, inflight, waits, rpc, run, edits, foreign, gaps>>
        /\ calls' = Tail(calls)
    BY DEF ServeSaveAs, Serve
  <1>3. \A t \in Tabs : Carried(t)
    BY <1>2, KeptSelf, KeptIsCarried
  <1>4. c.op \in Pends /\ c.t \in Tabs /\ c.x \in Text
    BY <1>1 DEF Pends, CallOK, Begun, CallType
  <1>5. ASSUME NEW a, answers' = Append(answers, a), a \in CallType,
               a.op \in {"savedas", "canceled"}, a.t = c.t, a.x = c.x,
               a.keep = c.keep, Grows, Data',
               a.op = "savedas" => a.p \in Paths /\ file'[a.p] = c.x
        PROVE  Inv'
    <2>1. ReadsNew
      BY <1>1, <1>5, ReadsOfAppend DEF ReadsNew, Adopted
    <2>2. CallOK(c)'
      BY <1>1, <1>3, <1>4, <1>5, <2>1, CallFrame DEF Inv
    <2>3. a.op \in {"savedas", "canceled"} /\ Begun(a.t)'
      BY <1>1, <1>5, <2>2 DEF CallOK
    <2>4. Carries(a)'
      BY <1>1, <1>5, <2>2 DEF CallOK, Carries, Saves
    <2>5. a.op \in FromFile => a.p \in Paths /\ Within(a.x, file[a.p])'
      BY <1>5 DEF FromFile, Within
    <2>6. AnswerOK(a)'
      BY <2>3, <2>4, <2>5 DEF AnswerOK
    <2>7. /\ a.op \in Pends => Head(calls).op \in Pends /\ a.t = Head(calls).t
          /\ a.op \notin Opens /\ a.op \notin Adopted
      BY <1>c, <1>4, <1>5 DEF Opens, Adopted
    <2> QED BY <1>1, <1>2, <1>5, <2>6, <2>7, ServeStep
  <1>6. CASE /\ answers' = Append(answers, [c EXCEPT !.op = "canceled"])
             /\ UNCHANGED <<file, changed, given>>
    <2>a. PICK a : a = [c EXCEPT !.op = "canceled"]
      OBVIOUS
    <2>1. /\ a \in CallType /\ a.op = "canceled" /\ a.t = c.t /\ a.x = c.x /\ a.keep = c.keep
      BY <1>1, <2>a DEF CallType, Ops, Pends
    <2>2. Grows
      BY <1>2, <1>6, NothingGone
    <2>3. answers' = Append(answers, a)
      BY <1>6, <2>a
    <2>4. Data'
      BY <1>1, <1>2, <1>6, <2>1, <2>3, ElemsOfAppend DEF Data
    <2> QED BY <1>5, <2>1, <2>2, <2>3, <2>4
  <1>7. ASSUME NEW p \in Paths, WriteFile(p, c.x), given' = given \cup (file[p] \ c.x),
               answers' = Append(answers, [c EXCEPT !.op = "savedas", !.p = p])
        PROVE  Inv'
    <2>a. PICK a : a = [c EXCEPT !.op = "savedas", !.p = p]
      OBVIOUS
    <2>1. /\ a \in CallType /\ a.op = "savedas" /\ a.t = c.t /\ a.p = p /\ a.x = c.x
          /\ a.keep = c.keep
      BY <1>1, <2>a DEF CallType, Ops, FromFile
    <2>2. Gone \subseteq Gone' /\ file[p] \subseteq c.x \cup Gone'
      BY <1>2, <1>7 DEF Gone
    <2>3. /\ Grows /\ file' \in [Paths -> Text] /\ file'[p] = c.x
          /\ changed' \in Paths \cup {NoPath}
      BY <1>1, <1>4, <1>7, <2>2, Written
    <2>4. answers' = Append(answers, a)
      BY <1>7, <2>a
    <2>5. Data'
      BY <1>1, <1>2, <2>1, <2>3, <2>4, ElemsOfAppend DEF Data
    <2> QED BY <1>5, <2>1, <2>3, <2>4, <2>5
  <1>8. \/ \E p \in Paths : /\ WriteFile(p, c.x) /\ given' = given \cup (file[p] \ c.x)
                            /\ answers' = Append(answers, [c EXCEPT !.op = "savedas", !.p = p])
        \/ /\ answers' = Append(answers, [c EXCEPT !.op = "canceled"])
           /\ UNCHANGED <<file, changed, given>>
    BY <1>c DEF ServeSaveAs, Serve, Replace
  <1> QED BY <1>6, <1>7, <1>8

LEMMA ServeReadSteps == ASSUME Inv, ServeRead PROVE Inv'
  <1>c. PICK c : c = Head(calls)
    OBVIOUS
  <1>1. /\ calls # <<>> /\ c.op \in {"reload", "seen", "open", "refresh", "rpcclose"}
        /\ c \in CallType /\ CallOK(c)
        /\ Tail(calls) \in Seq(CallType) /\ answers \in Seq(CallType) /\ Data
    BY <1>c, HeadServed DEF ServeRead, Inv
  <1>2. /\ UNCHANGED <<file, changed, given, page, inflight, waits, rpc, run, edits, foreign, gaps>>
        /\ calls' = Tail(calls)
        /\ answers' = Append(answers, IF c.p = NoPath THEN [c EXCEPT !.op = "unread"]
                                      ELSE [c EXCEPT !.x = file[c.p]])
    BY <1>c DEF ServeRead, Serve
  <1>3. Grows
    BY <1>2, NothingGone
  <1>4. CASE c.p = NoPath
    <2>a. PICK a : a = [c EXCEPT !.op = "unread"]
      OBVIOUS
    <2>1. a \in CallType /\ a.op = "unread" /\ a.t = c.t
      BY <1>1, <2>a DEF CallType, Ops, Pends
    <2>2. c.op = "reload"
      BY <1>1, <1>4 DEF CallOK, NoteFileAssumption
    <2>3. answers' = Append(answers, a)
      BY <1>2, <1>4, <2>a
    <2>4. Data'
      BY <1>1, <1>2, <2>1, <2>3, ElemsOfAppend DEF Data
    <2>5. AnswerOK(a)'
      BY <2>1 DEF AnswerOK, FromFile
    <2>6. /\ Head(calls).op \in Pends /\ a.t = Head(calls).t
          /\ a.op \notin Opens /\ a.op \notin Adopted
      BY <1>c, <2>1, <2>2 DEF Opens, Adopted, Pends
    <2> QED BY <1>1, <1>2, <1>3, <2>1, <2>3, <2>4, <2>5, <2>6, ServeStep
  <1>5. CASE c.p # NoPath
    <2>a. PICK a : a = [c EXCEPT !.x = file[c.p]]
      OBVIOUS
    <2>1. c.p \in Paths /\ file[c.p] \in Text
      BY <1>1, <1>5 DEF CallType, Data
    <2>2. a \in CallType /\ a.op = c.op /\ a.t = c.t /\ a.p = c.p /\ a.x = file[c.p]
      BY <1>1, <2>1, <2>a DEF CallType
    <2>3. answers' = Append(answers, a)
      BY <1>2, <1>5, <2>a
    <2>4. Data'
      BY <1>1, <1>2, <2>2, <2>3, ElemsOfAppend DEF Data
    <2>5. c.op = "reload" => Begun(a.t)'
      BY <1>1, <1>2, <2>2 DEF CallOK, Begun
    <2>6. AnswerOK(a)'
      BY <1>1, <1>2, <2>1, <2>2, <2>5 DEF AnswerOK, Within
    <2>7. /\ a.op \in Pends => Head(calls).op \in Pends /\ a.t = Head(calls).t
          /\ a.op \in Opens => Head(calls).op \in Opens
          /\ a.op \in Adopted => a.x = file[a.p] /\ a.x = file'[a.p]
      BY <1>c, <1>2, <2>2
    <2> QED BY <1>1, <1>2, <1>3, <2>2, <2>3, <2>4, <2>6, <2>7, ServeStep
  <1> QED BY <1>4, <1>5

LEMMA RpcPrepareSteps ==
  ASSUME Inv, NEW t \in Tabs, NEW p \in Paths, RpcPrepare(t, p) PROVE Inv'
  <1> PICK x : x = TextOf(page, t)
    OBVIOUS
  <1> PICK tb : tb = page.tab[t]
    OBVIOUS
  <1>1. /\ IsOpen(page, t) /\ rpc' = [pc |-> "write", t |-> t, p |-> p, x |-> x,
                                      own |-> tb.path, sig |-> tb.sig]
        /\ UNCHANGED <<file, page, inflight, waits, calls, answers, changed, run, edits,
                       foreign, given, gaps>>
    BY DEF RpcPrepare
  <1>2. Data /\ Paged(page) /\ TabOK(t) /\ x \in Text
    BY <1>1, TextTyped DEF Inv, NotesOK
  <1>3. tb.path # NoPath => tb.sig # NoText /\ tb.sig \subseteq x \cup Gone
    BY <1>2 DEF TabOK, Within
  <1>4. /\ rpc' \in RpcType /\ rpc'.t = t /\ rpc'.p = p /\ rpc'.x = x /\ rpc'.own = tb.path
        /\ rpc'.sig = tb.sig
    BY <1>1, <1>2 DEF RpcType, Paged, PageTypes
  <1>5. RpcOK'
    <2>1. Gone' = Gone
      BY <1>1 DEF Gone
    <2> QED BY <1>3, <1>4, <2>1 DEF RpcOK, Within
  <1>6. Data'
    BY <1>1, <1>2, <1>4 DEF Data
  <1>7. Paged(page') /\ \A u \in Tabs : Kept(page, page', u)
    BY <1>1, <1>2, KeptSelf
  <1>8. PICK T \in SUBSET Tabs : T = {}
    OBVIOUS
  <1>9. Grows
    BY <1>1, NothingGone
  <1> QED BY <1>1, <1>5, <1>6, <1>7, <1>8, <1>9, NothingMade, QuietStep

\* An agent's save writes over the text its note takes the file to hold, or
\* over another file it named.
LEMMA RpcWriteSteps == ASSUME Inv, RpcWrite PROVE Inv'
  <1> PICK t : t = rpc.t
    OBVIOUS
  <1> PICK p : p = rpc.p
    OBVIOUS
  <1> PICK x : x = rpc.x
    OBVIOUS
  <1>1. /\ rpc.pc = "write"
        /\ UNCHANGED <<page, inflight, waits, calls, run, edits, foreign, gaps>>
        /\ \/ rpc' = Idle /\ UNCHANGED <<file, changed, answers, given>>
           \/ /\ ~(p = rpc.own /\ rpc.sig # NoText /\ file[p] # rpc.sig)
              /\ WriteFile(p, x)
              /\ given' = IF p = rpc.own THEN given ELSE given \cup (file[p] \ x)
              /\ rpc' = [rpc EXCEPT !.pc = "commit"]
              /\ answers' = Append(answers, Call("commit", t, p, x, {}, "none", NoText))
    BY DEF RpcWrite
  <1>2. Data /\ RpcOK /\ t \in Tabs /\ p \in Paths /\ x \in Text /\ rpc \in RpcType
    BY <1>1 DEF Inv, RpcOK, Data, RpcType
  <1>3. Paged(page') /\ \A u \in Tabs : Kept(page, page', u)
    BY <1>1, KeptSelf DEF Inv
  <1>4. PICK T \in SUBSET Tabs : T = {}
    OBVIOUS
  <1>5. CASE rpc' = Idle /\ UNCHANGED <<file, changed, answers, given>>
    <2>1. Idle \in RpcType /\ Idle.pc = "idle"
      BY DEF Idle, RpcType, Text
    <2>2. RpcOK'
      BY <1>5, <2>1 DEF RpcOK
    <2>3. Data'
      BY <1>1, <1>2, <1>5, <2>1 DEF Data
    <2>4. Grows
      BY <1>1, <1>5, NothingGone
    <2> QED BY <1>1, <1>3, <1>4, <1>5, <2>2, <2>3, <2>4, NothingMade, QuietStep
  <1>6. CASE /\ ~(p = rpc.own /\ rpc.sig # NoText /\ file[p] # rpc.sig)
             /\ WriteFile(p, x)
             /\ given' = IF p = rpc.own THEN given ELSE given \cup (file[p] \ x)
             /\ rpc' = [rpc EXCEPT !.pc = "commit"]
             /\ answers' = Append(answers, Call("commit", t, p, x, {}, "none", NoText))
    <2>c. PICK a : a = Call("commit", t, p, x, {}, "none", NoText)
      OBVIOUS
    <2>1. a \in CallType /\ a.op = "commit" /\ a.t = t /\ a.p = p /\ a.x = x
      <3>1. "commit" \in Ops /\ "none" \in Kinds /\ {} \in Text
        BY DEF Ops, FromFile, Kinds, Text
      <3> QED BY <1>2, <2>c, <3>1 DEF Call, CallType
    <2>2. Gone \subseteq Gone' /\ file[p] \subseteq x \cup Gone'
      <3>1. CASE p = rpc.own
        BY <1>1, <1>2, <1>6, <3>1 DEF Gone, RpcOK, Within, NoteFileAssumption
      <3>2. CASE p # rpc.own
        BY <1>1, <1>6, <3>2 DEF Gone
      <3> QED BY <3>1, <3>2
    <2>3. /\ Grows /\ file' \in [Paths -> Text] /\ file'[p] = x
          /\ changed' \in Paths \cup {NoPath}
      BY <1>2, <1>6, <2>2, Written
    <2>4. answers' = Append(answers, a)
      BY <1>6, <2>c
    <2>5. /\ rpc' \in RpcType /\ rpc'.pc = "commit" /\ rpc'.t = t /\ rpc'.p = p
      BY <1>2, <1>6 DEF RpcType
    <2>6. Data'
      BY <1>1, <1>2, <2>1, <2>3, <2>4, <2>5, ElemsOfAppend DEF Data
    <2>7. RpcOK'
      BY <1>2, <2>5 DEF RpcOK
    <2>8. AnswerOK(a)'
      BY <1>2, <2>1, <2>3 DEF AnswerOK, Within
    <2>9. a.op \notin Adopted /\ a.op \notin Pends /\ a.op \notin Opens
      BY <2>1 DEF Adopted, Pends, Opens
    <2>10. ReadsNew
      BY <1>2, <2>1, <2>4, <2>9, ReadsOfAppend DEF ReadsNew
    <2>11. CarriedOn /\ \A u \in Tabs : Begun(u) => Begun(u)'
      BY <1>1, <1>3, KeptIsCarried DEF CarriedOn, Begun
    <2>12. Elems(calls') = Elems(calls) /\ Elems(answers') = Elems(answers) \cup {a}
      <3>1. calls' = calls
        BY <1>1
      <3> QED BY <1>2, <2>1, <2>4, <3>1, ElemsOfAppend DEF Data
    <2>13. CallsOK' /\ AnswersOK' /\ DialogOK'
      BY <1>1, <2>3, <2>8, <2>10, <2>11, <2>12, QueuesCarried
    <2>14. \A u \in Tabs : Alone(u)'
      BY <1>1, <1>2, <2>1, <2>4, <2>9, AloneAnswers DEF Inv, NotesOK
    <2>15. RoomLeft'
      BY <1>1, <1>2, <2>1, <2>4, <2>9, RoomToAnswer DEF Inv
    <2>16. InOrder'
      BY <1>2, <2>1, <2>2, <2>4, <2>9, OrderOfAppend DEF Inv
    <2>17. \A u \in Tabs : waits'[u] # {} => waits[u] # {} \/ Begun(u)
      BY <1>1
    <2>18. UNCHANGED <<edits, foreign>>
      BY <1>1
    <2> QED BY <1>3, <1>4, <2>3, <2>6, <2>7, <2>10, <2>13, <2>14, <2>15, <2>16, <2>17, <2>18,
               NothingMade, Assembled
  <1> QED BY <1>1, <1>5, <1>6

\* The note is unsaved while a run works for it, and takes its file to hold
\* the text it shows.
LEMMA RunStartSteps == ASSUME Inv, RunStart PROVE Inv'
  <1> PICK t : t = page.active
    OBVIOUS
  <1> PICK p : p = page.tab[t].path
    OBVIOUS
  <1> PICK x : x = TextOf(page, t)
    OBVIOUS
  <1> DEFINE q == Remember(page, t, x)
             r == [q EXCEPT !.tab[t].text = x, !.tab[t].dirty = TRUE]
  <1>1. /\ IsOpen(page, t) /\ p # NoPath /\ run' = [run EXCEPT ![p] = x]
        /\ page' = Arm(r, t)
        /\ UNCHANGED <<file, inflight, waits, calls, answers, changed, rpc, edits, foreign,
                       given, gaps>>
    BY DEF RunStart
  <1>2. t \in Tabs /\ Data /\ Paged(page) /\ TabOK(t) /\ Known(t) /\ x \in Text
    BY <1>1, TextTyped DEF Inv, NotesOK, IsOpen, Begun
  <1>3. /\ Paged(q) /\ Elsewhere(page, q, t) /\ q.editor = page.editor
        /\ q.tab[t].sig = x /\ q.tab[t].text = page.tab[t].text
        /\ q.tab[t].path = page.tab[t].path /\ q.tab[t].state = page.tab[t].state
        /\ q.modal = page.modal
    BY <1>2, RememberKeeps, DialogStays DEF Paged, Good
  <1> HIDE DEF q
  <1>4. /\ r.active = q.active /\ r.editor = q.editor /\ r.modal = q.modal
        /\ \A u \in Tabs \ {t} : r.tab[u] = q.tab[u]
        /\ r.tab[t].sig = x /\ r.tab[t].text = x /\ r.tab[t].dirty
        /\ r.tab[t].path = page.tab[t].path /\ r.tab[t].state = page.tab[t].state
        /\ Shape(r) /\ Shrinks(q, r)
    BY <1>2, <1>3 DEF Paged, Good, Shape, Shrinks, PageFields, TabFields
  <1> HIDE DEF r
  <1>5. Paged(r)
    <2>1. Good(r)
      BY <1>3, <1>4, ShrunkIsGood DEF Paged
    <2>2. \A u \in Tabs : /\ r.tab[u].text \in Text /\ r.tab[u].sig \in Text \cup {NoText}
                          /\ r.tab[u].path \in Paths \cup {NoPath}
                          /\ r.tab[u].state = q.tab[u].state
      BY <1>2, <1>3, <1>4 DEF Paged, PageTypes
    <2> QED BY <1>3, <1>4, <2>1, <2>2 DEF Paged, PageTypes, IsOpen
  <1>6. TextOf(r, t) = x /\ \A u \in Tabs \ {t} : Like(page, r, u)
    <2>1. q.active = page.active
      BY <1>3 DEF Elsewhere
    <2>2. x = page.editor
      BY DEF TextOf
    <2>3. \A u \in Tabs \ {t} : q.tab[u] = page.tab[u]
      BY <1>3 DEF Elsewhere
    <2> QED BY <1>3, <1>4, <2>1, <2>2, <2>3 DEF TextOf, Like
  <1>7. Paged(page') /\ (\A u \in Tabs : Like(r, page', u)) /\ page'.modal = page.modal
    <2>1. Arm(r, t).modal = r.modal
      BY <1>4, DialogStays
    <2> QED BY <1>1, <1>3, <1>4, <1>5, <2>1, ArmKeeps
  <1>8. \A u \in Tabs \ {t} : Kept(page, page', u)
    BY <1>6, <1>7, LikeIsKept DEF Like
  <1>9. /\ page'.tab[t].text = x /\ page'.tab[t].dirty /\ page'.tab[t].path = page.tab[t].path
        /\ page'.tab[t].sig = x /\ page'.tab[t].state = page.tab[t].state
        /\ TextOf(page', t) = x /\ IsOpen(page', t)
    BY <1>1, <1>2, <1>4, <1>6, <1>7 DEF Like, IsOpen
  <1>10. x # NoText
    BY <1>2, NoTextAssumption DEF Text, NoteFileAssumption
  <1>11. Minded(t)
    <2>1. TabOK(t)'
      BY <1>9, <1>10 DEF TabOK, Within
    <2>2. Known(t)'
      BY <1>9 DEF Known, Within
    <2>3. \A e \in x : Held(e)'
      BY <1>2, <1>9 DEF Held
    <2> QED BY <1>2, <1>9, <2>1, <2>2, <2>3 DEF Minded, Begun, IsOpen
  <1>12. Carried(t)
    BY <1>1, <1>9 DEF Carried, Same, InStep, IsOpen
  <1>13. Data'
    <2>1. run' \in [Paths -> Text \cup {NoText}]
      BY <1>1, <1>2 DEF Data
    <2> QED BY <1>1, <1>2, <2>1 DEF Data
  <1>14. PICK T \in SUBSET Tabs : T = {t}
    BY <1>2
  <1>15. Grows
    BY <1>1, NothingGone
  <1>16. UNCHANGED <<edits, foreign>>
    BY <1>1
  <1> QED BY <1>1, <1>7, <1>8, <1>11, <1>12, <1>13, <1>14, <1>15, <1>16, NothingMade, QuietStep

\* A run writes the note over its file: what the file held besides falls into
\* the gap.
LEMMA RunWriteSteps == ASSUME Inv, NEW p \in Paths, RunWrite(p) PROVE Inv'
  <1> PICK x : x = run[p]
    OBVIOUS
  <1>1. /\ x # NoText /\ run' = [run EXCEPT ![p] = NoText] /\ WriteFile(p, x)
        /\ gaps' = gaps \cup (file[p] \ x)
        /\ UNCHANGED <<page, inflight, waits, calls, answers, rpc, edits, foreign, given>>
    BY DEF RunWrite, FallInGap
  <1>2. Data /\ x \in Text
    BY <1>1 DEF Inv, Data
  <1>3. Gone \subseteq Gone' /\ file[p] \subseteq x \cup Gone'
    BY <1>1 DEF Gone
  <1>4. /\ Grows /\ file' \in [Paths -> Text] /\ changed' \in Paths \cup {NoPath}
    BY <1>1, <1>2, <1>3, Written
  <1>5. run' \in [Paths -> Text \cup {NoText}]
    BY <1>1, <1>2 DEF Data
  <1>6. Data'
    BY <1>1, <1>2, <1>4, <1>5 DEF Data
  <1>7. Paged(page') /\ \A u \in Tabs : Kept(page, page', u)
    BY <1>1, KeptSelf DEF Inv
  <1>8. PICK T \in SUBSET Tabs : T = {}
    OBVIOUS
  <1>9. UNCHANGED <<edits, foreign>>
    BY <1>1
  <1> QED BY <1>1, <1>4, <1>6, <1>7, <1>8, <1>9, NothingMade, QuietStep

-----------------------------------------------------------------------------
(* The answers *)

LEMMA AnswerHandled ==
  ASSUME Inv, answers # <<>>, answers' = Tail(answers)
  PROVE  /\ Head(answers) \in CallType /\ AnswerOK(Head(answers)) /\ Head(answers) \in Elems(answers)
         /\ Tail(answers) \in Seq(CallType) /\ Data /\ Paged(page) /\ Shape(page)
         /\ \A p, y : OnWay(p, y)' => OnWay(p, y)
         /\ Head(answers).op \in FromFile => \A y, p :
               p = Head(answers).p /\ OnWay(p, y)' => Within(Head(answers).x, y)
  BY ElemsOfTail, ReadsOfTail, HeadComesFirst DEF Inv, Data, AnswersOK, Paged, Good

\* The note that waited for the answer is free, if no dialog asks for it.
LEMMA FreeAfter ==
  ASSUME Inv, answers # <<>>, answers' = Tail(answers), UNCHANGED calls, page'.modal = page.modal,
         NEW t \in Tabs, Head(answers).op \in Pends, Head(answers).t = t
  PROVE  Free(t)'
  <1>1. Alone(t) /\ Single(answers, t)
    BY DEF Inv, NotesOK, Alone
  <1>2. PendingIn(answers, t) # {} /\ PendingIn(Tail(answers), t) = {}
    BY <1>1, PendingOfTail DEF Inv, Data
  <1>3. PendingIn(calls, t) = {} /\ ~Asked(t)
    BY <1>1, <1>2 DEF Alone
  <1>4. PendingIn(calls, t)' = {} /\ PendingIn(answers, t)' = {}
    BY <1>2, <1>3 DEF PendingIn
  <1>5. ~Asked(t)'
    BY <1>3 DEF Asked
  <1> QED BY <1>4, <1>5 DEF Free

LEMMA NotSavedSteps == ASSUME Inv, NotSaved PROVE Inv'
  <1>a. PICK a : a = Head(answers)
    OBVIOUS
  <1>b. PICK ok : ok = FALSE
    OBVIOUS
  <1> DEFINE failed == [page EXCEPT !.tab[a.t].failed = TRUE]
             quiet == [page EXCEPT !.native = FALSE]
  <1>1. /\ answers # <<>> /\ answers' = Tail(answers)
        /\ a.op \in {"failed", "canceled", "unread"}
        /\ UNCHANGED <<file, waits, calls, changed, run, edits, foreign, given, rpc, gaps>>
        /\ inflight' = inflight \ {a.t}
        /\ \E told \in {failed, quiet, page} : page' = AfterSave(told, a.t, a.kind, ok)
    BY <1>a, <1>b DEF NotSaved, Handle
  <1>2. a \in CallType /\ Tail(answers) \in Seq(CallType) /\ Data /\ Paged(page) /\ Shape(page)
    BY <1>a, <1>1, AnswerHandled
  <1>3. /\ failed.active = page.active /\ failed.editor = page.editor /\ failed.modal = page.modal
        /\ quiet.active = page.active /\ quiet.editor = page.editor /\ quiet.modal = page.modal
        /\ Shape(failed) /\ Shrinks(page, failed) /\ Shape(quiet) /\ Shrinks(page, quiet)
        /\ \A u \in Tabs : Like(page, failed, u) /\ Like(page, quiet, u)
    BY <1>2 DEF Like, TextOf, Shape, Shrinks, PageFields, TabFields
  <1>4. Good(failed) /\ Good(quiet)
    BY <1>2, <1>3, ShrunkIsGood DEF Paged
  <1> HIDE DEF failed, quiet
  <1>5. /\ Paged(failed) /\ Paged(quiet)
        /\ \A u \in Tabs : Kept(page, failed, u) /\ Kept(page, quiet, u)
    BY <1>2, <1>3, <1>4, AllAreLike DEF Paged, PageTypes
  <1>6. PICK told : /\ page' = AfterSave(told, a.t, a.kind, ok) /\ Paged(told) /\ Shape(told)
                    /\ told.modal = page.modal /\ \A u \in Tabs : Kept(page, told, u)
    BY <1>1, <1>2, <1>3, <1>5, KeptSelf
  <1>7. ~Closes(a.kind, ok)
    BY <1>b DEF Closes
  <1>8. Paged(page') /\ \A u \in Tabs : Kept(page, page', u)
    BY <1>6, <1>7, AfterSaveKeeps, LikeIsKept, KeptChain
  <1>9. page'.modal = page.modal
    <2>1. AfterSave(told, a.t, a.kind, ok).modal = told.modal
      BY <1>6, AfterSaveDialog
    <2> QED BY <1>6, <2>1
  <1>10. Data'
    BY <1>1, <1>2 DEF Data
  <1>11. PICK T \in SUBSET Tabs : T = {}
    OBVIOUS
  <1>12. Grows
    BY <1>1, NothingGone
  <1>13. CarriedOn /\ \A u \in Tabs : Same(page, page', u)
    BY <1>8, KeptIsCarried DEF CarriedOn, Carried
  <1>14. RoomLeft'
    BY <1>1, <1>2, <1>13, RoomToHandle DEF Inv
  <1>15. RpcOK'
    BY <1>1, <1>12, RpcFrame DEF Inv
  <1>16. \A t \in inflight : t \in inflight' \/ (Head(answers).op \in Pends /\ Head(answers).t = t)
    BY <1>a, <1>1 DEF Pends
  <1> QED BY <1>1, <1>8, <1>9, <1>10, <1>11, <1>12, <1>13, <1>14, <1>15, <1>16, AnswerStep

LEMMA ConflictSteps == ASSUME Inv, Conflict PROVE Inv'
  <1>a. PICK a : a = Head(answers)
    OBVIOUS
  <1>b. PICK ok : ok = FALSE
    OBVIOUS
  <1>m. PICK m : m = [kind |-> "conflict", t |-> a.t, save |-> a.kind, keep |-> a.keep]
    OBVIOUS
  <1> DEFINE paused == [page EXCEPT !.tab[a.t].conflict = TRUE]
             asked == [page EXCEPT !.modal = m]
  <1>1. /\ answers # <<>> /\ answers' = Tail(answers) /\ a.op = "conflict"
        /\ UNCHANGED <<file, waits, calls, changed, run, edits, foreign, given, rpc, gaps>>
        /\ \/ page' = paused /\ inflight' = inflight \ {a.t}
           \/ page' = asked /\ inflight' = inflight
           \/ page' = AfterSave(page, a.t, a.kind, ok) /\ inflight' = inflight \ {a.t}
    BY <1>a, <1>b, <1>m DEF Conflict, Handle
  <1>2. /\ a \in CallType /\ Tail(answers) \in Seq(CallType) /\ Data /\ Paged(page) /\ Shape(page)
        /\ AnswerOK(a)
    BY <1>a, <1>1, AnswerHandled
  <1>3. Begun(a.t) /\ a.t \in Tabs /\ Shown(a)
    BY <1>1, <1>2 DEF AnswerOK, Begun
  <1>4. m \in ModalType /\ m.kind = "conflict" /\ m.t = a.t /\ m.keep = a.keep
    BY <1>m, <1>2 DEF CallType, ModalType
  <1>5. Grows
    BY <1>1, NothingGone
  <1>6. /\ Paged(page') /\ (\A u \in Tabs : Kept(page, page', u))
        /\ \/ page'.modal = page.modal
           \/ page'.modal = m /\ inflight' = inflight
    <2>1. CASE page' = paused
      <3>1. /\ paused.active = page.active /\ paused.editor = page.editor
            /\ paused.modal = page.modal /\ Shape(paused) /\ Shrinks(page, paused)
            /\ \A u \in Tabs : Like(page, paused, u)
        BY <1>2 DEF Like, TextOf, Shape, Shrinks, PageFields, TabFields
      <3>2. Good(paused)
        BY <1>2, <3>1, ShrunkIsGood DEF Paged
      <3> HIDE DEF paused
      <3> QED BY <1>2, <2>1, <3>1, <3>2, AllAreLike DEF Paged, PageTypes
    <2>2. CASE page' = asked /\ inflight' = inflight
      <3>1. Paged(asked) /\ asked.modal = m /\ \A u \in Tabs : Like(page, asked, u)
        BY <1>2, <1>4, DialogKeeps
      <3> HIDE DEF asked
      <3> QED BY <2>2, <3>1, LikeIsKept
    <2>3. CASE page' = AfterSave(page, a.t, a.kind, ok)
      <3>1. ~Closes(a.kind, ok)
        BY <1>b DEF Closes
      <3>2. AfterSave(page, a.t, a.kind, ok).modal = page.modal
        BY <1>2, AfterSaveDialog
      <3>3. page'.modal = page.modal
        BY <2>3, <3>2
      <3> QED BY <1>2, <2>3, <3>1, <3>3, AfterSaveKeeps, LikeIsKept
    <2> QED BY <1>1, <2>1, <2>2, <2>3
  <1> HIDE DEF paused, asked
  <1>7. CarriedOn /\ \A u \in Tabs : Carried(u) /\ Same(page, page', u)
    BY <1>6, KeptIsCarried DEF CarriedOn, Carried
  <1>8. page'.modal = m => DialogOK'
    <2>1. Shown(a)'
      BY <1>3, <1>5, <1>7, ShownFrame
    <2>2. Begun(a.t)'
      BY <1>3, <1>7 DEF Begun, Same
    <2>3. page'.modal = m => Shown(page.modal)' /\ Begun(page.modal.t)'
      BY <1>4, <2>1, <2>2 DEF Shown, Begun
    <2> QED BY <2>3 DEF DialogOK
  <1>9. page'.modal = page.modal
           \/ (DialogOK' /\ (page'.modal.kind = "conflict" =>
                 /\ Head(answers).op \in Pends /\ Head(answers).t = page'.modal.t
                 /\ inflight' = inflight))
    BY <1>a, <1>1, <1>4, <1>6, <1>8 DEF Pends
  <1>10. Data'
    BY <1>1, <1>2 DEF Data
  <1>11. PICK T \in SUBSET Tabs : T = {}
    OBVIOUS
  <1>12. RoomLeft'
    BY <1>1, <1>2, <1>7, RoomToHandle DEF Inv
  <1>13. RpcOK'
    BY <1>1, <1>5, RpcFrame DEF Inv
  <1>14. \A t \in inflight : t \in inflight' \/ (Head(answers).op \in Pends /\ Head(answers).t = t)
    BY <1>a, <1>1 DEF Pends
  <1> QED BY <1>1, <1>5, <1>6, <1>7, <1>9, <1>10, <1>11, <1>12, <1>13, <1>14, AnswerStep

\* A save that has begun in a note ends: what was typed meanwhile is unsaved,
\* or falls into the gap when the note is closed.
LEMMA SavedSteps == ASSUME Inv, Saved PROVE Inv'
  <1>a. PICK a : a = Head(answers)
    OBVIOUS
  <1>b. PICK ok : ok = TRUE
    OBVIOUS
  <1>t. PICK t : t = a.t
    OBVIOUS
  <1>p. PICK p : p = a.p
    OBVIOUS
  <1>x. PICK x : x = a.x
    OBVIOUS
  <1>k. PICK keep : keep = a.keep
    OBVIOUS
  <1> DEFINE rp == ReleasePath(page, t, p)
             bound == [rp EXCEPT !.tab[t].path = p, !.native = FALSE]
             owned == IF a.op = "savedas" THEN bound ELSE page
             known == Remember(owned, t, x)
             marked == MarkSavedUpTo(known, t, keep)
  <1>1. /\ answers # <<>> /\ answers' = Tail(answers) /\ a.op \in {"saved", "savedas"}
        /\ UNCHANGED <<file, waits, calls, changed, run, edits, foreign, given, rpc>>
        /\ inflight' = inflight \ {t} /\ page' = AfterSave(marked, t, a.kind, ok)
        /\ gaps' = gaps \cup (IF Closes(a.kind, ok) /\ IsOpen(page, t)
                              THEN TextOf(page, t) \ keep ELSE {})
    BY <1>a, <1>b, <1>t, <1>p, <1>x, <1>k DEF Saved, Handle, FallInGap, Closes
  <1>2. /\ a \in CallType /\ a \in Elems(answers) /\ AnswerOK(a)
        /\ Tail(answers) \in Seq(CallType) /\ Data /\ Paged(page) /\ Shape(page)
        /\ (\A q, y : OnWay(q, y)' => OnWay(q, y)) /\ a.op \in FromFile
        /\ \A y : OnWay(p, y)' => x \subseteq y \cup Gone
    BY <1>a, <1>p, <1>x, <1>1, AnswerHandled DEF FromFile, Within
  <1>3. /\ t \in Tabs /\ Begun(t) /\ p \in Paths /\ x \in Text
        /\ x \subseteq file[p] \cup Gone /\ x \subseteq page.tab[t].text \cup Gone
        /\ IsOpen(page, t) => keep \subseteq x \cup Gone /\ x \subseteq TextOf(page, t) \cup Gone
        /\ a.op = "saved" => Placed(a)
    BY <1>t, <1>p, <1>x, <1>k, <1>1, <1>2
       DEF AnswerOK, Begun, FromFile, Carries, Within, CallType
  <1>4. (IsOpen(page, t) => TabOK(t)) /\ Known(t) /\ (t = page.active => IsOpen(page, t))
    BY <1>2, <1>3 DEF Inv, NotesOK, Paged, PageTypes, NoteFileAssumption
  <1>5. Grows /\ Gone \subseteq Gone'
    BY <1>1 DEF Grows, Gone
  \* The file is the note's now.
  <1>6. /\ Paged(owned) /\ Shape(owned) /\ owned.modal = page.modal
        /\ \A u \in Tabs \ {t} : Kept(page, owned, u)
        /\ Same(page, owned, t) /\ (IsOpen(owned, t) <=> IsOpen(page, t))
        /\ (owned.tab[t].text = page.tab[t].text \/ (IsOpen(page, t) /\ owned.tab[t].text = TextOf(page, t)))
        /\ IsOpen(page, t) => TextOf(owned, t) = TextOf(page, t)
        /\ owned.tab[t].path = IF a.op = "savedas" THEN p ELSE page.tab[t].path
    <2>1. CASE a.op = "saved"
      BY <1>2, <2>1, KeptSelf DEF Same
    <2>2. CASE a.op = "savedas"
      <3>1. /\ Paged(rp) /\ (\A u \in Tabs : Kept(page, rp, u))
            /\ (IsOpen(page, t) => IsOpen(rp, t)) /\ rp.modal = page.modal
        BY <1>2, <1>3, ReleasePathKeeps, DialogStays
      <3>2. \A u \in Tabs : IsOpen(rp, u) /\ rp.tab[u].path = p => u = t
        <4>1. Good(page) /\ p # NoPath
          BY <1>2, <1>3 DEF Paged, NoteFileAssumption
        <4> QED BY <4>1, ReleasePathGood DEF IsOpen
      <3> HIDE DEF rp
      <3>3. /\ owned.active = rp.active /\ owned.editor = rp.editor /\ owned.modal = rp.modal
            /\ \A u \in Tabs \ {t} : owned.tab[u] = rp.tab[u]
            /\ owned.tab[t].path = p /\ owned.tab[t].text = rp.tab[t].text
            /\ owned.tab[t].sig = rp.tab[t].sig /\ owned.tab[t].state = rp.tab[t].state
            /\ Shape(owned)
        BY <1>3, <2>2, <3>1 DEF Paged, Good, Shape, PageFields, TabFields
      <3> HIDE DEF owned
      <3>4. Good(owned)
        <4>1. \A u \in Tabs : owned.tab[u].state = rp.tab[u].state
          BY <3>3
        <4>2. ASSUME NEW u \in Tabs, NEW v \in Tabs, IsOpen(owned, u), IsOpen(owned, v),
                     owned.tab[u].path # NoPath, owned.tab[u].path = owned.tab[v].path
              PROVE  u = v
          <5>1. IsOpen(rp, u) /\ IsOpen(rp, v)
            BY <4>1, <4>2 DEF IsOpen
          <5>2. CASE u = t \/ v = t
            <6>1. CASE u = t
              BY <3>2, <3>3, <4>2, <5>1, <6>1
            <6>2. CASE v = t
              BY <3>2, <3>3, <4>2, <5>1, <6>2
            <6> QED BY <5>2, <6>1, <6>2
          <5>3. CASE u # t /\ v # t
            BY <3>1, <3>3, <4>2, <5>1, <5>3 DEF Paged, Good, Unique, IsOpen
          <5> QED BY <5>2, <5>3
        <4> QED BY <3>3, <4>2 DEF Good, Unique, IsOpen
      <3>5. Paged(owned)
        <4>1. \A u \in Tabs : /\ owned.tab[u].text \in Text
                              /\ owned.tab[u].sig \in Text \cup {NoText}
                              /\ owned.tab[u].path \in Paths \cup {NoPath}
                              /\ owned.tab[u].state = rp.tab[u].state
          BY <1>3, <3>1, <3>3 DEF Paged, PageTypes
        <4> QED BY <3>1, <3>3, <3>4, <4>1 DEF Paged, PageTypes, IsOpen
      <3>6. \A u \in Tabs : TextOf(owned, u) = TextOf(rp, u)
        BY <3>3 DEF TextOf
      <3>7. \A u \in Tabs \ {t} : Kept(page, owned, u)
        <4>1. \A u \in Tabs \ {t} : Like(rp, owned, u)
          BY <3>3, <3>6 DEF Like
        <4> QED BY <3>1, <4>1, LikeIsKept, KeptChain
      <3>8. /\ Same(page, owned, t) /\ (IsOpen(owned, t) <=> IsOpen(page, t))
            /\ (owned.tab[t].text = page.tab[t].text \/ (IsOpen(page, t) /\ owned.tab[t].text = TextOf(page, t)))
            /\ IsOpen(page, t) => TextOf(owned, t) = TextOf(page, t)
        BY <1>3, <3>1, <3>3, <3>6 DEF Kept, Same, Solid, IsOpen
      <3>9. owned.modal = page.modal /\ Shape(owned) /\ owned.tab[t].path = p
        BY <3>1, <3>3
      <3> QED BY <2>2, <3>5, <3>7, <3>8, <3>9
    <2> HIDE DEF owned
    <2> QED BY <1>1, <2>1, <2>2
  <1> HIDE DEF rp, bound, owned
  \* The note takes its file to hold what was written.
  <1>7. /\ Paged(known) /\ Shape(known) /\ known.modal = page.modal
        /\ \A u \in Tabs \ {t} : Kept(page, known, u)
        /\ known.tab[t].sig = x /\ known.tab[t].text = owned.tab[t].text
        /\ known.tab[t].path = owned.tab[t].path /\ known.tab[t].state = owned.tab[t].state
        /\ TextOf(known, t) = TextOf(owned, t)
    <2>1. /\ Paged(known) /\ Elsewhere(owned, known, t)
          /\ known.tab[t].sig = x /\ known.tab[t].text = owned.tab[t].text
          /\ known.tab[t].path = owned.tab[t].path /\ known.tab[t].state = owned.tab[t].state
          /\ TextOf(known, t) = TextOf(owned, t)
      BY <1>3, <1>6, RememberKeeps
    <2>2. known.modal = owned.modal
      BY <1>6, DialogStays
    <2> HIDE DEF known
    <2>3. \A u \in Tabs \ {t} : Kept(page, known, u)
      BY <1>6, <2>1, OthersAreLike, KeptChain
    <2> QED BY <1>6, <2>1, <2>2, <2>3 DEF Paged, Good
  <1> HIDE DEF known
  <1>8. /\ Paged(marked) /\ Shape(marked) /\ marked.modal = page.modal
        /\ \A u \in Tabs \ {t} : Kept(page, marked, u)
        /\ marked.tab[t].sig = x /\ marked.tab[t].text = owned.tab[t].text
        /\ marked.tab[t].path = owned.tab[t].path /\ marked.tab[t].state = owned.tab[t].state
        /\ TextOf(marked, t) = TextOf(owned, t)
        /\ IsOpen(known, t) => (marked.tab[t].dirty <=> TextOf(known, t) # keep)
    <2>1. MarkSavedUpTo(known, t, keep).modal = known.modal
      BY <1>7, DialogStays
    <2>2. /\ Paged(marked) /\ \A u \in Tabs \ {t} : Like(known, marked, u)
          /\ marked.tab[t].sig = known.tab[t].sig /\ marked.tab[t].text = known.tab[t].text
          /\ marked.tab[t].path = known.tab[t].path /\ marked.tab[t].state = known.tab[t].state
          /\ TextOf(marked, t) = TextOf(known, t)
          /\ IsOpen(known, t) => (marked.tab[t].dirty <=> TextOf(known, t) # keep)
      BY <1>3, <1>7, MarkSavedUpToKeeps
    <2>3. \A u \in Tabs \ {t} : Kept(page, marked, u)
      BY <1>7, <2>2, LikeIsKept, KeptChain
    <2>4. marked.modal = known.modal
      BY <2>1
    <2> HIDE DEF marked
    <2> QED BY <1>7, <2>2, <2>3, <2>4 DEF Paged, Good
  <1> HIDE DEF marked
  <1>9. /\ IsOpen(marked, t) <=> IsOpen(page, t)
        /\ Same(page, marked, t)
        /\ IsOpen(page, t) => TextOf(marked, t) = TextOf(page, t)
                              /\ (marked.tab[t].dirty <=> TextOf(page, t) # keep)
    BY <1>6, <1>7, <1>8 DEF IsOpen, Same
  <1>10. /\ Paged(page') /\ \A u \in Tabs \ {t} : Kept(page, page', u)
    BY <1>1, <1>8, AfterSaveKeeps, KeptChain
  <1>11. page'.modal = page.modal
    <2>1. AfterSave(marked, t, a.kind, ok).modal = marked.modal
      BY <1>8, AfterSaveDialog
    <2> QED BY <1>1, <1>8, <2>1
  <1>12. \A e \in keep : IsOpen(page, t) => Held(e)'
    BY <1>1, <1>3, <1>5 DEF Held, Gone
  <1>13. marked.tab[t].sig \subseteq marked.tab[t].text \cup Gone'
    BY <1>3, <1>5, <1>6, <1>8
  <1>14. Minded(t) /\ Same(page, page', t)
    <2>1. CASE Closes(a.kind, ok)
      <3>1. /\ ~IsOpen(page', t) /\ Same(marked, page', t) /\ Solid(marked, page', t)
        BY <1>1, <1>3, <1>8, <2>1, AfterSaveKeeps
      <3>2. Known(t)'
        <4>1. /\ page'.tab[t].sig = x
              /\ \/ page'.tab[t].text = marked.tab[t].text
                 \/ IsOpen(page, t) /\ page'.tab[t].text = TextOf(page, t)
          BY <1>8, <1>9, <3>1 DEF Solid
        <4> QED BY <1>3, <1>5, <1>8, <1>13, <4>1 DEF Known, Within
      <3>3. IsOpen(page, t) => \A e \in TextOf(page, t) : Held(e)'
        BY <1>1, <1>12, <2>1 DEF Held, Gone
      <3> QED BY <1>9, <3>1, <3>2, <3>3 DEF Minded, Begun, Same
    <2>2. CASE ~Closes(a.kind, ok)
      <3>1. Like(marked, page', t)
        BY <1>1, <1>3, <1>8, <2>2, AfterSaveKeeps
      <3>2. Known(t)'
        BY <1>13, <3>1 DEF Known, Within, Like
      <3>3. IsOpen(page, t) => \A e \in TextOf(page, t) : Held(e)'
        <4>1. CASE TextOf(page, t) = keep
          BY <1>12, <4>1
        <4>2. CASE TextOf(page, t) # keep
          BY <1>3, <1>9, <3>1, <4>2 DEF Held, Like, IsOpen
        <4> QED BY <4>1, <4>2
      <3>4. IsOpen(page', t) => TabOK(t)'
        <4> SUFFICES ASSUME IsOpen(page', t) PROVE TabOK(t)'
          OBVIOUS
        <4>1. /\ IsOpen(page, t) /\ TextOf(page', t) = TextOf(page, t)
              /\ page'.tab[t].sig = x /\ page'.tab[t].text = marked.tab[t].text
              /\ page'.tab[t].path = owned.tab[t].path
              /\ page'.tab[t].dirty <=> TextOf(page, t) # keep
          BY <1>8, <1>9, <3>1 DEF Like, IsOpen
        <4>2. x # NoText
          BY <1>3, NoTextAssumption DEF Text, NoteFileAssumption
        <4>3. TextOf(page, t) \subseteq page'.tab[t].text \cup Gone'
          <5>1. TextOf(page, t) \subseteq page.tab[t].text \cup Gone
            BY <1>4, <4>1 DEF TabOK, Within
          <5> QED BY <1>5, <1>6, <1>8, <4>1, <5>1
        <4>4. x \subseteq TextOf(page, t) \cup Gone'
          BY <1>3, <1>5, <4>1
        <4> PICK f : f = page'.tab[t].path
          OBVIOUS
        <4>5. ASSUME f # NoPath, TextOf(page, t) = keep
              PROVE  /\ keep \subseteq file'[f] \cup Gone' /\ keep \subseteq x \cup Gone'
                     /\ \A y : OnWay(f, y)' => keep \subseteq y \cup Gone'
          <5>1. keep \subseteq x \cup Gone'
            BY <1>3, <1>5, <4>1
          <5>2. CASE f = p
            BY <1>1, <1>2, <1>3, <1>5, <5>1, <5>2
          <5>3. CASE f # p
            <6>1. a.op = "saved" /\ f = page.tab[t].path
              BY <1>1, <1>6, <4>1, <5>3
            <6>2. keep \subseteq file[f] \cup Gone /\ \A y : OnWay(f, y) => keep \subseteq y \cup Gone
              BY <1>t, <1>p, <1>k, <1>3, <4>1, <4>5, <5>3, <6>1 DEF Placed, Within
            <6> QED BY <1>1, <1>2, <1>5, <5>1, <6>2
          <5> QED BY <5>2, <5>3
        <4> QED BY <4>1, <4>2, <4>3, <4>4, <4>5 DEF TabOK, Within
      <3> QED BY <1>9, <3>1, <3>2, <3>3, <3>4 DEF Minded, Begun, Same, Like
    <2> QED BY <2>1, <2>2
  <1>15. Free(t)'
    BY <1>a, <1>t, <1>1, <1>3, <1>11, FreeAfter DEF Pends
  <1>16. CarriedOn /\ \A u \in Tabs : Same(page, page', u)
    BY <1>10, <1>14, <1>15, KeptIsCarried DEF CarriedOn, Carried
  <1>17. Data'
    BY <1>1, <1>2 DEF Data
  <1>18. PICK T \in SUBSET Tabs : T = {t}
    BY <1>3
  <1>19. RoomLeft'
    BY <1>1, <1>2, <1>16, RoomToHandle DEF Inv
  <1>20. RpcOK'
    BY <1>1, <1>5, RpcFrame DEF Inv
  <1>21. \A u \in inflight : u \in inflight' \/ (Head(answers).op \in Pends /\ Head(answers).t = u)
    BY <1>a, <1>t, <1>1 DEF Pends
  <1> QED BY <1>1, <1>5, <1>10, <1>11, <1>14, <1>16, <1>17, <1>18, <1>19, <1>20, <1>21, AnswerStep

\* A save whose dialog was cancelled ends as if it had written: the note is in
\* step with the editor, and what it shows falls into the gap unless it is
\* marked unsaved again and stays.
LEMMA NothingWrittenSteps == ASSUME Inv, NothingWritten PROVE Inv'
  <1>a. PICK a : a = Head(answers)
    OBVIOUS
  <1>b. PICK ok : ok = TRUE
    OBVIOUS
  <1>t. PICK t : t = a.t
    OBVIOUS
  <1>x. PICK x : x = page.tab[t].text
    OBVIOUS
  <1>k. PICK keep : keep = a.keep
    OBVIOUS
  <1> DEFINE known == Remember(page, t, x)
             marked == MarkSavedUpTo(known, t, keep)
  <1>1. /\ answers # <<>> /\ answers' = Tail(answers) /\ a.op = "unwritten"
        /\ UNCHANGED <<file, waits, calls, changed, run, edits, foreign, given, rpc>>
        /\ inflight' = inflight \ {t} /\ page' = AfterSave(marked, t, a.kind, ok)
        /\ gaps' = gaps \cup (IF IsOpen(page, t) /\ (Closes(a.kind, ok) \/ ~marked.tab[t].dirty)
                              THEN TextOf(page, t) ELSE {})
    BY <1>a, <1>b, <1>t, <1>x, <1>k DEF NothingWritten, Handle, FallInGap, Closes
  <1>2. /\ a \in CallType /\ AnswerOK(a)
        /\ Tail(answers) \in Seq(CallType) /\ Data /\ Paged(page) /\ Shape(page)
        /\ (\A q, y : OnWay(q, y)' => OnWay(q, y))
    BY <1>a, <1>1, AnswerHandled
  <1>3. /\ t \in Tabs /\ Begun(t) /\ (IsOpen(page, t) => InStep(page, t))
    BY <1>t, <1>1, <1>2 DEF AnswerOK, Begun, Shown
  <1>4. x \in Text /\ x # NoText /\ (IsOpen(page, t) => TextOf(page, t) = x)
    BY <1>x, <1>2, <1>3, NoTextAssumption DEF Paged, PageTypes, InStep, Text
  <1>5. Grows /\ Gone \subseteq Gone'
    BY <1>1 DEF Grows, Gone
  <1>6. /\ Paged(known) /\ Shape(known) /\ known.modal = page.modal
        /\ \A u \in Tabs \ {t} : Kept(page, known, u)
        /\ known.tab[t].sig = x /\ known.tab[t].text = x
        /\ known.tab[t].path = page.tab[t].path /\ known.tab[t].state = page.tab[t].state
        /\ TextOf(known, t) = TextOf(page, t)
    <2>1. /\ Paged(known) /\ Elsewhere(page, known, t)
          /\ known.tab[t].sig = x /\ known.tab[t].text = page.tab[t].text
          /\ known.tab[t].path = page.tab[t].path /\ known.tab[t].state = page.tab[t].state
          /\ TextOf(known, t) = TextOf(page, t)
      BY <1>2, <1>3, <1>4, RememberKeeps
    <2>2. known.modal = page.modal
      BY <1>2, DialogStays
    <2> HIDE DEF known
    <2>3. \A u \in Tabs \ {t} : Kept(page, known, u)
      BY <2>1, OthersAreLike, LikeIsKept
    <2> QED BY <1>x, <2>1, <2>2, <2>3 DEF Paged, Good
  <1> HIDE DEF known
  <1>7. /\ Paged(marked) /\ Shape(marked) /\ marked.modal = page.modal
        /\ \A u \in Tabs \ {t} : Kept(page, marked, u)
        /\ marked.tab[t].sig = x /\ marked.tab[t].text = x
        /\ marked.tab[t].path = page.tab[t].path /\ marked.tab[t].state = page.tab[t].state
        /\ TextOf(marked, t) = TextOf(page, t)
    <2>1. MarkSavedUpTo(known, t, keep).modal = known.modal
      BY <1>6, DialogStays
    <2>2. /\ Paged(marked) /\ \A u \in Tabs \ {t} : Like(known, marked, u)
          /\ marked.tab[t].sig = known.tab[t].sig /\ marked.tab[t].text = known.tab[t].text
          /\ marked.tab[t].path = known.tab[t].path /\ marked.tab[t].state = known.tab[t].state
          /\ TextOf(marked, t) = TextOf(known, t)
      BY <1>3, <1>6, MarkSavedUpToKeeps
    <2>3. \A u \in Tabs \ {t} : Kept(page, marked, u)
      BY <1>6, <2>2, LikeIsKept, KeptChain
    <2>4. marked.modal = known.modal
      BY <2>1
    <2> HIDE DEF marked
    <2> QED BY <1>6, <2>2, <2>3, <2>4 DEF Paged, Good
  <1> HIDE DEF marked
  <1>8. (IsOpen(marked, t) <=> IsOpen(page, t)) /\ Same(page, marked, t)
    BY <1>7 DEF IsOpen, Same
  <1>9. /\ Paged(page') /\ \A u \in Tabs \ {t} : Kept(page, page', u)
    BY <1>1, <1>7, AfterSaveKeeps, KeptChain
  <1>10. page'.modal = page.modal
    <2>1. AfterSave(marked, t, a.kind, ok).modal = marked.modal
      BY <1>7, AfterSaveDialog
    <2> QED BY <1>1, <1>7, <2>1
  <1>11. Minded(t) /\ Same(page, page', t)
    <2>1. CASE Closes(a.kind, ok)
      <3>1. /\ ~IsOpen(page', t) /\ Same(marked, page', t) /\ Solid(marked, page', t)
        BY <1>1, <1>3, <1>7, <2>1, AfterSaveKeeps
      <3>2. Known(t)'
        <4>1. page'.tab[t].sig = x /\ page'.tab[t].text = x
          BY <1>4, <1>7, <1>8, <3>1 DEF Solid
        <4> QED BY <4>1 DEF Known, Within
      <3>3. IsOpen(page, t) => \A e \in TextOf(page, t) : Held(e)'
        BY <1>1, <2>1 DEF Held, Gone
      <3> QED BY <1>8, <3>1, <3>2, <3>3 DEF Minded, Begun, Same
    <2>2. CASE ~Closes(a.kind, ok)
      <3>1. Like(marked, page', t)
        BY <1>1, <1>3, <1>7, <2>2, AfterSaveKeeps
      <3>2. Known(t)'
        BY <1>7, <3>1 DEF Known, Within, Like
      <3>3. IsOpen(page, t) => \A e \in TextOf(page, t) : Held(e)'
        <4>1. CASE ~marked.tab[t].dirty
          BY <1>1, <4>1 DEF Held, Gone
        <4>2. CASE marked.tab[t].dirty
          BY <1>3, <1>7, <1>8, <3>1, <4>2 DEF Held, Like, IsOpen
        <4> QED BY <4>1, <4>2
      <3>4. IsOpen(page', t) => TabOK(t)'
        <4> SUFFICES ASSUME IsOpen(page', t) PROVE TabOK(t)'
          OBVIOUS
        <4>1. /\ IsOpen(page, t) /\ TextOf(page', t) = x
              /\ page'.tab[t].sig = x /\ page'.tab[t].text = x
              /\ page'.tab[t].dirty <=> marked.tab[t].dirty
          BY <1>4, <1>7, <1>8, <3>1 DEF Like, IsOpen
        <4>2. ~page'.tab[t].dirty => x \subseteq Gone'
          BY <1>1, <1>4, <4>1 DEF Gone
        <4> QED BY <1>4, <4>1, <4>2 DEF TabOK, Within
      <3> QED BY <1>8, <3>1, <3>2, <3>3, <3>4 DEF Minded, Begun, Same, Like
    <2> QED BY <2>1, <2>2
  <1>12. Free(t)'
    BY <1>a, <1>t, <1>1, <1>3, <1>10, FreeAfter DEF Pends
  <1>13. CarriedOn /\ \A u \in Tabs : Same(page, page', u)
    BY <1>9, <1>11, <1>12, KeptIsCarried DEF CarriedOn, Carried
  <1>14. Data'
    BY <1>1, <1>2 DEF Data
  <1>15. PICK T \in SUBSET Tabs : T = {t}
    BY <1>3
  <1>16. RoomLeft'
    BY <1>1, <1>2, <1>13, RoomToHandle DEF Inv
  <1>17. RpcOK'
    BY <1>1, <1>5, RpcFrame DEF Inv
  <1>18. \A u \in inflight : u \in inflight' \/ (Head(answers).op \in Pends /\ Head(answers).t = u)
    BY <1>a, <1>t, <1>1 DEF Pends
  <1> QED BY <1>1, <1>5, <1>9, <1>10, <1>11, <1>13, <1>14, <1>15, <1>16, <1>17, <1>18, AnswerStep

\* A reload shows the file's text.  What the save was about to write goes into a
\* new note, or is in the file; what was typed meanwhile falls into the gap.
LEMMA ReloadedSteps == ASSUME Inv, Reloaded PROVE Inv'
  <1>a. PICK a : a = Head(answers)
    OBVIOUS
  <1>b. PICK ok : ok = FALSE
    OBVIOUS
  <1>t. PICK t : t = a.t
    OBVIOUS
  <1>p. PICK p : p = a.p
    OBVIOUS
  <1>x. PICK x : x = a.x
    OBVIOUS
  <1>k. PICK keep : keep = a.keep
    OBVIOUS
  <1>q. PICK q : q = Reload(page, t, keep, x)
    OBVIOUS
  <1>1. /\ answers # <<>> /\ answers' = Tail(answers) /\ a.op = "reload"
        /\ UNCHANGED <<file, waits, calls, changed, run, edits, foreign, given, rpc>>
        /\ inflight' = inflight \ {t} /\ page' = AfterSave(q, t, a.kind, ok)
        /\ gaps' = gaps \cup
              (IF ~IsOpen(page, t) THEN {}
               ELSE (IF TextOf(page, t) = keep THEN {} ELSE TextOf(page, t))
                    \cup (IF page.tab[t].path = p THEN {} ELSE x))
    BY <1>a, <1>b, <1>t, <1>p, <1>x, <1>k, <1>q DEF Reloaded, Handle, FallInGap
  <1>2. /\ a \in CallType /\ a \in Elems(answers) /\ AnswerOK(a)
        /\ Tail(answers) \in Seq(CallType) /\ Data /\ Paged(page) /\ Shape(page)
        /\ (\A f, y : OnWay(f, y)' => OnWay(f, y)) /\ a.op \in FromFile
        /\ \A y : OnWay(p, y)' => x \subseteq y \cup Gone
    BY <1>a, <1>p, <1>x, <1>1, AnswerHandled DEF FromFile, Within
  <1>3. /\ t \in Tabs /\ Begun(t) /\ p \in Paths /\ x \in Text /\ keep \in Text
        /\ x \subseteq file[p] \cup Gone
    BY <1>t, <1>p, <1>x, <1>k, <1>1, <1>2 DEF AnswerOK, Begun, FromFile, Within, CallType
  <1>4. /\ IsOpen(page, t) => TabOK(t)
        /\ (t = page.active => IsOpen(page, t)) /\ Known(t)
    BY <1>2, <1>3 DEF Inv, NotesOK, Paged, PageTypes, NoteFileAssumption
  <1>5. Grows /\ Gone \subseteq Gone' /\ x # NoText
    BY <1>1, <1>3, NoTextAssumption DEF Grows, Gone, Text, NoteFileAssumption
  <1>6. Unused(page) # {} /\ RoomLeft
    <2>1. RoomLeft
      BY DEF Inv
    <2> QED BY <1>a, <1>1, <1>2, <2>1, RoomToHandle DEF Opens
  <1>7. PICK n \in Tabs :
          /\ Paged(q) /\ n \in Unused(page) /\ (\A u \in Tabs \ {t, n} : Kept(page, q, u))
          /\ \/ x = keep /\ Kept(page, q, n)
             \/ /\ IsOpen(q, n) /\ q.tab[n].path = NoPath /\ q.tab[n].dirty
                /\ q.tab[n].sig = NoText /\ TextOf(q, n) = keep /\ q.tab[n].text = keep
          /\ Same(page, q, t) /\ IsOpen(q, t) = IsOpen(page, t)
          /\ q.tab[t].path = page.tab[t].path /\ ~q.tab[t].dirty
          /\ \/ q.tab[t].sig = x /\ q.tab[t].text = x /\ TextOf(q, t) = x
             \/ /\ t = page.active /\ TextOf(page, t) # keep /\ q.tab[t].text = keep
                /\ q.tab[t].sig = page.tab[t].sig \/ q.tab[t].sig = TextOf(page, t)
                /\ TextOf(q, t) = TextOf(page, t)
    BY <1>q, <1>2, <1>3, <1>6, ReloadKeeps DEF Begun
  <1>8. q.modal = page.modal /\ Shape(q)
    BY <1>q, <1>2, <1>7, DialogStays DEF Paged, Good
  <1>9. Paged(page') /\ \A u \in Tabs : Like(q, page', u)
    BY <1>b, <1>1, <1>7, AfterSaveKeeps DEF Closes
  <1>10. page'.modal = page.modal
    BY <1>1, <1>8, AfterSaveDialog
  <1>11. \A u \in Tabs \ {t, n} : Kept(page, page', u)
    BY <1>7, <1>9, LikeIsKept, KeptChain
  <1>12. n # t /\ page.tab[n].state = "unused" /\ ~IsOpen(page, n)
    BY <1>3, <1>7 DEF Unused, Begun, IsOpen
  <1>13. /\ \/ x = keep /\ page'.tab[n].state = "unused"
            \/ /\ IsOpen(page', n) /\ page'.tab[n].path = NoPath /\ page'.tab[n].dirty
               /\ page'.tab[n].sig = NoText /\ TextOf(page', n) = keep /\ page'.tab[n].text = keep
         /\ Same(page, page', t) /\ (IsOpen(page', t) <=> IsOpen(page, t))
         /\ page'.tab[t].path = page.tab[t].path /\ ~page'.tab[t].dirty
         /\ \/ page'.tab[t].sig = x /\ page'.tab[t].text = x /\ TextOf(page', t) = x
            \/ /\ t = page.active /\ TextOf(page, t) # keep /\ page'.tab[t].text = keep
               /\ page'.tab[t].sig = page.tab[t].sig \/ page'.tab[t].sig = TextOf(page, t)
               /\ TextOf(page', t) = TextOf(page, t)
    BY <1>3, <1>7, <1>9, <1>12 DEF Like, Same, Kept, IsOpen
  <1>14. /\ IsOpen(page, t) /\ TextOf(page, t) # keep => TextOf(page, t) \subseteq Gone'
         /\ IsOpen(page, t) /\ page.tab[t].path # p => x \subseteq Gone'
    BY <1>1 DEF Gone
  <1>15. Minded(n)
    <2>1. CASE page'.tab[n].state = "unused"
      BY <1>12, <2>1 DEF Minded, Begun, IsOpen
    <2>2. CASE page'.tab[n].state # "unused"
      <3>1. /\ IsOpen(page', n) /\ page'.tab[n].path = NoPath
            /\ page'.tab[n].sig = NoText /\ TextOf(page', n) = page'.tab[n].text
        BY <1>13, <2>2
      <3>2. TabOK(n)' /\ Known(n)'
        BY <3>1 DEF TabOK, Known, Within
      <3> QED BY <1>12, <2>2, <3>2 DEF Minded, Begun
    <2> QED BY <2>1, <2>2
  <1>16. ASSUME IsOpen(page, t), NEW e \in TextOf(page, t) PROVE Held(e)'
    <2>1. CASE TextOf(page, t) # keep
      BY <1>14, <1>16, <2>1 DEF Held
    <2>2. CASE TextOf(page, t) = keep /\ x = keep
      BY <1>1, <1>3, <1>5, <1>16, <2>2 DEF Held
    <2>3. CASE TextOf(page, t) = keep /\ x # keep
      BY <1>13, <1>16, <2>3 DEF Held
    <2> QED BY <2>1, <2>2, <2>3
  <1>17. Known(t)' /\ (IsOpen(page', t) => TabOK(t)')
    <2>1. CASE page'.tab[t].sig = x /\ page'.tab[t].text = x /\ TextOf(page', t) = x
      <3>1. Known(t)'
        BY <2>1 DEF Known, Within
      <3>2. ASSUME IsOpen(page', t) PROVE TabOK(t)'
        <4> PICK f : f = page'.tab[t].path
          OBVIOUS
        <4>1. ASSUME f # NoPath
              PROVE  x \subseteq file'[f] \cup Gone' /\ \A y : OnWay(f, y)' => x \subseteq y \cup Gone'
          <5>1. CASE f = p
            BY <1>1, <1>2, <1>3, <1>5, <5>1
          <5>2. CASE f # p
            BY <1>13, <1>14, <3>2, <5>2
          <5> QED BY <5>1, <5>2
        <4> QED BY <1>5, <2>1, <4>1 DEF TabOK, Within
      <3> QED BY <3>1, <3>2
    <2>2. CASE ~(page'.tab[t].sig = x /\ page'.tab[t].text = x /\ TextOf(page', t) = x)
      <3>1. /\ IsOpen(page, t) /\ TextOf(page', t) = TextOf(page, t)
            /\ page'.tab[t].sig = page.tab[t].sig \/ page'.tab[t].sig = TextOf(page, t)
            /\ TextOf(page, t) \subseteq Gone' /\ TextOf(page, t) \in Text
        BY <1>2, <1>3, <1>4, <1>13, <1>14, <2>2, TextTyped
      <3>2. TextOf(page, t) # NoText
        BY <3>1, NoTextAssumption DEF Text, NoteFileAssumption
      <3>3. page'.tab[t].sig # NoText => page'.tab[t].sig \subseteq Gone'
        <4>1. page.tab[t].sig # NoText => page.tab[t].sig \subseteq TextOf(page, t) \cup Gone
          BY <1>4, <3>1 DEF TabOK, Within
        <4> QED BY <1>5, <3>1, <4>1
      <3>4. page'.tab[t].path # NoPath => page'.tab[t].sig # NoText
        BY <1>4, <1>13, <3>1, <3>2 DEF TabOK
      <3> QED BY <3>1, <3>3, <3>4 DEF TabOK, Known, Within
    <2> QED BY <2>1, <2>2
  <1>18. Minded(t)
    BY <1>3, <1>13, <1>16, <1>17 DEF Minded, Begun, Same
  <1>19. Free(t)'
    BY <1>a, <1>t, <1>1, <1>3, <1>10, FreeAfter DEF Pends
  <1>20. CarriedOn
    BY <1>11, <1>12, <1>19, KeptIsCarried DEF CarriedOn, Begun
  <1>21. Data'
    BY <1>1, <1>2 DEF Data
  <1>22. PICK T \in SUBSET Tabs : T = {t, n}
    BY <1>3
  <1>23. RoomLeft'
    <2>1. \A u \in Tabs \ {n} : Same(page, page', u)
      BY <1>11, <1>13 DEF Kept
    <2>2. CASE page'.tab[n].state = "unused"
      <3>1. \A u \in Tabs : Same(page, page', u)
        BY <1>12, <2>1, <2>2 DEF Same
      <3> QED BY <1>1, <1>2, <1>6, <3>1, RoomToHandle
    <2>3. CASE page'.tab[n].state # "unused"
      BY <1>a, <1>1, <1>2, <1>6, <1>7, <2>1, <2>3, RoomToHandle DEF Opens
    <2> QED BY <2>2, <2>3
  <1>24. RpcOK'
    BY <1>1, <1>5, RpcFrame DEF Inv
  <1>25. \A u \in inflight : u \in inflight' \/ (Head(answers).op \in Pends /\ Head(answers).t = u)
    BY <1>a, <1>t, <1>1 DEF Pends
  <1> QED BY <1>1, <1>5, <1>9, <1>10, <1>11, <1>15, <1>18, <1>20, <1>21, <1>22, <1>23, <1>24,
             <1>25, AnswerStep

LEMMA SelectTabOpens ==
  ASSUME NEW pg, Paged(pg), NEW t
  PROVE  \A u \in Tabs : SelectTab(pg, t).tab[u].state = pg.tab[u].state
  <1>1. \A u \in Tabs : DOMAIN pg.tab[u] = TabFields
    BY DEF Paged, Good, Shape
  <1>2. DOMAIN pg = PageFields /\ DOMAIN pg.tab = Tabs
    BY DEF Paged, Good, Shape
  <1> QED BY <1>1, <1>2 DEF SelectTab, PageFields, TabFields

\* The page looked into a file, and nothing of its notes has changed.
LEMMA NothingReadSteps ==
  ASSUME Inv, answers # <<>>, answers' = Tail(answers), Paged(page'),
         \A u \in Tabs : Kept(page, page', u), page'.modal = page.modal,
         gaps \subseteq gaps', RpcOK',
         UNCHANGED <<file, waits, calls, changed, run, edits, foreign, given, inflight>>,
         rpc' \in RpcType
  PROVE  Inv'
  <1>1. /\ Tail(answers) \in Seq(CallType) /\ Data
    BY AnswerHandled
  <1>2. Data'
    BY <1>1 DEF Data
  <1>3. Grows
    BY DEF Grows, Gone
  <1>4. CarriedOn
    BY KeptIsCarried DEF CarriedOn
  <1>5. PICK T \in SUBSET Tabs : T = {}
    OBVIOUS
  <1>6. RoomLeft'
    <2>1. RoomLeft /\ \A u \in Tabs : Same(page, page', u)
      BY DEF Inv, Kept
    <2> QED BY <1>1, <2>1, RoomToHandle
  <1> QED BY <1>2, <1>3, <1>4, <1>5, <1>6, AnswerStep

\* A note may show the text that was just read from its file: while the note
\* has nothing unsaved, all it shows is in that text.
LEMMA AdoptSteps ==
  ASSUME Inv, answers # <<>>, answers' = Tail(answers), Head(answers).op \in Adopted,
         NEW t \in Tabs, IsOpen(page, t), NEW p, p = Head(answers).p,
         NEW x, x = Head(answers).x, NEW q, q = Adopt(page, t, x),
         Paged(page'), \A u \in Tabs : Kept(q, page', u), IsOpen(page', t),
         page'.modal = page.modal,
         gaps \subseteq gaps', page.tab[t].path = p \/ TextOf(page, t) \cup x \subseteq Gone',
         UNCHANGED <<file, waits, calls, changed, run, edits, foreign, given, inflight, rpc>>
  PROVE  Inv'
  <1>a. PICK a : a = Head(answers)
    OBVIOUS
  <1>1. /\ a \in CallType /\ a \in Elems(answers) /\ AnswerOK(a)
        /\ Tail(answers) \in Seq(CallType) /\ Data /\ Paged(page) /\ a.op \in FromFile
        /\ \A y : OnWay(p, y)' => x \subseteq y \cup Gone
    BY <1>a, AnswerHandled DEF FromFile, Within, Adopted
  <1>2. p \in Paths /\ x \in Text /\ x \subseteq file[p] \cup Gone /\ p # NoPath /\ x # NoText
    <2>1. p \in Paths /\ x \in Text /\ x \subseteq file[p] \cup Gone
      BY <1>a, <1>1 DEF AnswerOK, FromFile, Within, CallType
    <2> QED BY <2>1, NoTextAssumption DEF Text, NoteFileAssumption
  <1>3. OnWay(p, x)
    BY <1>a, <1>1 DEF OnWay
  <1>4. TabOK(t) /\ Known(t)
    BY DEF Inv, NotesOK, Begun, IsOpen
  <1>5. Grows /\ Gone \subseteq Gone'
    BY DEF Grows, Gone
  <1>6. RpcOK' /\ rpc' \in RpcType
    BY <1>1, <1>5, RpcFrame DEF Inv, Data
  <1>7. /\ Paged(q) /\ Elsewhere(page, q, t)
        /\ q.tab[t].path = page.tab[t].path /\ q.tab[t].dirty = page.tab[t].dirty
        /\ q.tab[t].state = page.tab[t].state
        /\ InStep(page, t) => InStep(q, t)
        /\ \/ q = page
           \/ /\ q.tab[t].sig = x /\ q.tab[t].text = x /\ TextOf(q, t) = x
              /\ ~HasUnsavedText(page, t)
           \/ /\ q.tab[t].sig = x /\ q.tab[t].text = page.tab[t].text
              /\ TextOf(q, t) = x /\ TextOf(page, t) = x
    BY <1>1, <1>2, AdoptKeeps
  <1>8. \A u \in Tabs \ {t} : Kept(page, page', u)
    BY <1>7, OthersAreLike, KeptChain
  <1>9. CASE q = page
    <2>1. \A u \in Tabs : Kept(page, page', u)
      BY <1>9
    <2> QED BY <1>6, <2>1, NothingReadSteps
  <1>10. CASE q # page
    <2>1. /\ Same(page, page', t) /\ page'.tab[t].sig = x /\ TextOf(page', t) = x
          /\ page'.tab[t].text \in {page.tab[t].text, x}
          /\ InStep(page, t) => InStep(page', t)
          /\ \/ page'.tab[t].path = page.tab[t].path /\ page'.tab[t].dirty = page.tab[t].dirty
             \/ page'.tab[t].path = NoPath /\ page'.tab[t].dirty
          /\ \/ ~HasUnsavedText(page, t) /\ page'.tab[t].text = x
             \/ TextOf(page, t) = x
          /\ page.tab[t].dirty => page'.tab[t].dirty
      BY <1>7, <1>10 DEF Kept, Same, Solid, IsOpen
    <2>2. TextOf(page, t) \subseteq x \cup Gone'
      <3>1. CASE HasUnsavedText(page, t)
        BY <2>1, <3>1
      <3>2. CASE ~HasUnsavedText(page, t)
        <4>1. ~page.tab[t].dirty
          BY <3>2 DEF HasUnsavedText
        <4>2. page.tab[t].path = p => TextOf(page, t) \subseteq x \cup Gone
          BY <1>2, <1>3, <1>4, <4>1 DEF TabOK, Within
        <4> QED BY <1>5, <4>2
      <3> QED BY <3>1, <3>2
    <2>3. Carried(t)
      BY <2>1, <2>2 DEF Carried
    <2>4. x \subseteq page'.tab[t].text \cup Gone'
      <3>1. TextOf(page, t) \subseteq page.tab[t].text \cup Gone
        BY <1>4 DEF TabOK, Within
      <3> QED BY <1>5, <2>1, <3>1
    <2>5. TabOK(t)'
      <3> PICK f : f = page'.tab[t].path
        OBVIOUS
      <3>1. ASSUME f # NoPath
            PROVE  x \subseteq file'[f] \cup Gone' /\ \A y : OnWay(f, y)' => x \subseteq y \cup Gone'
        <4>1. f = page.tab[t].path
          BY <2>1, <3>1
        <4>2. CASE f = p
          BY <1>1, <1>2, <1>5, <4>2
        <4>3. CASE f # p
          BY <4>1, <4>3
        <4> QED BY <4>2, <4>3
      <3> QED BY <1>2, <2>1, <2>4, <3>1 DEF TabOK, Within
    <2>6. Minded(t)
      <3>1. Known(t)'
        BY <2>1, <2>4 DEF Known, Within
      <3>2. page.tab[t].dirty => \A e \in TextOf(page, t) : Held(e)'
        BY <2>1 DEF Held, HasUnsavedText
      <3>3. Begun(t)'
        BY DEF Begun, IsOpen
      <3> QED BY <2>5, <3>1, <3>2, <3>3 DEF Minded
    <2>7. CarriedOn
      BY <1>8, <2>3, KeptIsCarried DEF CarriedOn
    <2>8. PICK T \in SUBSET Tabs : T = {t}
      OBVIOUS
    <2>9. RoomLeft'
      <3>1. RoomLeft /\ \A u \in Tabs : Same(page, page', u)
        BY <1>8, <2>1 DEF Inv, Kept
      <3> QED BY <1>1, <3>1, RoomToHandle
    <2>10. Data'
      BY <1>1 DEF Data
    <2> QED BY <1>5, <1>6, <1>8, <2>6, <2>7, <2>8, <2>9, <2>10, AnswerStep
  <1> QED BY <1>9, <1>10

LEMMA TextReadSteps == ASSUME Inv, TextRead PROVE Inv'
  <1>a. PICK a : a = Head(answers)
    OBVIOUS
  <1>p. PICK p : p = a.p
    OBVIOUS
  <1>x. PICK x : x = a.x
    OBVIOUS
  <1>o. PICK owner : owner = CHOOSE t \in OwnersOf(page, p) : TRUE
    OBVIOUS
  <1>n. PICK new : new = Fresh(page)
    OBVIOUS
  <1>t. PICK t : t = a.t
    OBVIOUS
  <1>d. PICK d : d = FALSE
    OBVIOUS
  <1>r. PICK refreshed \in BOOLEAN :
          refreshed <=> (a.op = "refresh" /\ IsOpen(page, t) /\ ~HasUnsavedText(page, t))
    OBVIOUS
  <1>1. /\ answers # <<>> /\ answers' = Tail(answers)
        /\ a.op \in {"seen", "open", "refresh", "rpcclose"}
        /\ UNCHANGED <<file, waits, calls, changed, run, edits, foreign, given, inflight, rpc>>
        /\ gaps' = gaps \cup (IF refreshed /\ page.tab[t].path # p
                              THEN TextOf(page, t) \cup x ELSE {})
    BY <1>a, <1>p, <1>x, <1>t, <1>r DEF TextRead, Handle, FallInGap
  <1>2. page' = CASE a.op = "seen" /\ OwnersOf(page, p) # {} -> Reconcile(page, owner, x)
                  [] a.op = "open" /\ OwnersOf(page, p) # {} ->
                       SelectTab(Adopt(page, owner, x), owner)
                  [] a.op = "open" /\ OwnersOf(page, p) = {} ->
                       SelectTab(NewTab(page, new, p, x, d), new)
                  [] refreshed -> SelectTab(Adopt(page, t, x), t)
                  [] a.op = "rpcclose" /\ IsOpen(page, t) /\ TextOf(page, t) = a.keep
                       /\ x = a.keep -> RemoveTabs(page, {t})
                  [] OTHER -> page
    BY <1>a, <1>p, <1>x, <1>t, <1>r, <1>o, <1>n, <1>d DEF TextRead
  <1>3. /\ a \in CallType /\ a \in Elems(answers) /\ AnswerOK(a)
        /\ Tail(answers) \in Seq(CallType) /\ Data /\ Paged(page) /\ Shape(page)
        /\ a.op \in FromFile /\ \A y : OnWay(p, y)' => x \subseteq y \cup Gone
    BY <1>a, <1>p, <1>x, <1>1, AnswerHandled DEF FromFile, Within
  <1>4. /\ p \in Paths /\ x \in Text /\ x \subseteq file[p] \cup Gone
        /\ p # NoPath /\ x # NoText
    <2>1. p \in Paths /\ x \in Text /\ x \subseteq file[p] \cup Gone
      BY <1>p, <1>x, <1>3 DEF AnswerOK, FromFile, Within, CallType
    <2> QED BY <2>1, NoTextAssumption DEF Text, NoteFileAssumption
  <1>5. Grows /\ Gone \subseteq Gone' /\ gaps \subseteq gaps'
    BY <1>1 DEF Grows, Gone
  <1>6. RpcOK' /\ rpc' \in RpcType
    BY <1>1, <1>3, <1>5, RpcFrame DEF Inv, Data
  <1>7. ASSUME OwnersOf(page, p) # {}
        PROVE  owner \in Tabs /\ IsOpen(page, owner) /\ page.tab[owner].path = p
    BY <1>o, <1>7 DEF OwnersOf, OpenTabs
  <1>8. ASSUME NEW u \in Tabs, IsOpen(page, u), a.op \in Adopted,
               page' = SelectTab(Adopt(page, u, x), u),
               page.tab[u].path = p \/ TextOf(page, u) \cup x \subseteq Gone'
        PROVE  Inv'
    <2>q. PICK q : q = Adopt(page, u, x)
      OBVIOUS
    <2>1. Paged(q) /\ q.tab[u].state = page.tab[u].state /\ Shape(q)
      BY <1>3, <1>4, <2>q, AdoptKeeps DEF Paged, Good
    <2>2. page' = SelectTab(q, u)
      BY <1>8, <2>q
    <2>3. /\ Paged(page') /\ (\A v \in Tabs : Kept(q, page', v)) /\ IsOpen(page', u)
      BY <1>8, <2>1, <2>2, SelectTabKeeps, SelectTabOpens DEF IsOpen
    <2>4. page'.modal = page.modal
      <3>1. q.modal = page.modal
        BY <1>3, <2>q, DialogStays
      <3> QED BY <2>1, <2>2, <3>1, DialogStays
    <2>5. Head(answers).op \in Adopted /\ p = Head(answers).p /\ x = Head(answers).x
      BY <1>a, <1>p, <1>x, <1>8
    <2> QED BY <1>1, <1>5, <1>8, <2>q, <2>3, <2>4, <2>5, AdoptSteps
  <1>9. CASE a.op = "seen" /\ OwnersOf(page, p) # {}
    <2>1. page' = Reconcile(page, owner, x)
      BY <1>r, <1>2, <1>9
    <2>2. page'.modal = page.modal
      BY <1>3, <2>1, DialogStays
    <2>3. CASE Reconcile(page, owner, x) = Adopt(page, owner, x)
      <3>q. PICK q : q = Adopt(page, owner, x)
        OBVIOUS
      <3>1. Paged(q) /\ q.tab[owner].state = page.tab[owner].state /\ page' = q
        BY <1>3, <1>4, <1>7, <1>9, <2>1, <2>3, <3>q, AdoptKeeps
      <3>2. (\A v \in Tabs : Kept(q, page', v)) /\ Paged(page') /\ IsOpen(page', owner)
        BY <1>7, <1>9, <3>1, KeptSelf DEF IsOpen
      <3>3. Head(answers).op \in Adopted
        BY <1>a, <1>9 DEF Adopted
      <3> QED BY <1>a, <1>p, <1>x, <1>1, <1>5, <1>7, <1>9, <2>2, <3>q, <3>2, <3>3, AdoptSteps
    <2>4. CASE Reconcile(page, owner, x) # Adopt(page, owner, x)
      <3>1. Paged(page') /\ \A u \in Tabs : Kept(page, page', u)
        BY <1>3, <1>4, <2>1, <2>4, ReconcileKeeps, LikeIsKept
      <3> QED BY <1>1, <1>5, <1>6, <2>2, <3>1, NothingReadSteps
    <2> QED BY <2>3, <2>4
  <1>10. CASE a.op = "open" /\ OwnersOf(page, p) # {}
    <2>1. page' = SelectTab(Adopt(page, owner, x), owner)
      BY <1>r, <1>2, <1>10
    <2>2. owner \in Tabs /\ IsOpen(page, owner) /\ page.tab[owner].path = p
      BY <1>7, <1>10
    <2>3. a.op \in Adopted
      BY <1>10 DEF Adopted
    <2> QED BY <1>8, <2>1, <2>2, <2>3
  <1>11. CASE a.op = "open" /\ OwnersOf(page, p) = {}
    <2>q. PICK q : q = NewTab(page, new, p, x, d)
      OBVIOUS
    <2>1. RoomLeft /\ new \in Unused(page)
      <3>1. RoomLeft
        BY DEF Inv
      <3>2. Unused(page) # {}
        BY <1>a, <1>1, <1>3, <1>11, <3>1, RoomToHandle DEF Opens
      <3> QED BY <1>n, <3>1, <3>2 DEF Fresh
    <2>2. new \in Tabs /\ page.tab[new].state = "unused" /\ ~IsOpen(page, new)
      BY <2>1 DEF Unused, IsOpen
    <2>3. /\ Paged(q) /\ Elsewhere(page, q, new) /\ Shape(q)
          /\ IsOpen(q, new) /\ q.tab[new].path = p /\ q.tab[new].sig = x
          /\ TextOf(q, new) = x /\ InStep(q, new)
      BY <1>3, <1>4, <1>11, <2>q, <2>2, NewTabKeeps DEF Paged, Good
    <2>4. page' = SelectTab(q, new) /\ q.modal = page.modal
      <3>1. page' = SelectTab(q, new)
        BY <1>r, <1>2, <1>11, <2>q
      <3>2. NewTab(page, new, p, x, d).modal = page.modal
        BY <1>3, DialogStays
      <3> QED BY <2>q, <3>1, <3>2
    <2>5. Paged(page') /\ (\A u \in Tabs : Kept(q, page', u)) /\ page'.modal = page.modal
          /\ page'.tab[new].state = q.tab[new].state
      BY <2>2, <2>3, <2>4, SelectTabKeeps, SelectTabOpens, DialogStays
    <2>6. \A u \in Tabs \ {new} : Kept(page, page', u)
      BY <2>3, <2>5, OthersAreLike, KeptChain
    <2>7. /\ IsOpen(page', new) /\ page'.tab[new].sig = x /\ TextOf(page', new) = x
          /\ page'.tab[new].text = x /\ page'.tab[new].path \in {p, NoPath}
      BY <2>2, <2>3, <2>5 DEF Kept, Solid, InStep, IsOpen
    <2>8. TabOK(new)'
      <3>1. x \subseteq file'[p] \cup Gone' /\ \A y : OnWay(p, y)' => x \subseteq y \cup Gone'
        BY <1>1, <1>3, <1>4, <1>5
      <3> QED BY <1>4, <2>7, <3>1 DEF TabOK, Within
    <2>9. Minded(new)
      BY <2>2, <2>7, <2>8 DEF Minded, Begun, Known, Within, IsOpen
    <2>10. CarriedOn
      BY <2>2, <2>6, KeptIsCarried DEF CarriedOn, Begun
    <2>11. RoomLeft'
      <3>1. page'.tab[new].state # "unused" /\ \A u \in Tabs \ {new} : Same(page, page', u)
        BY <2>6, <2>7 DEF Kept, IsOpen
      <3> QED BY <1>a, <1>1, <1>3, <1>11, <2>1, <3>1, RoomToHandle DEF Opens
    <2>12. Data'
      BY <1>1, <1>3 DEF Data
    <2>13. PICK T \in SUBSET Tabs : T = {new}
      BY <2>2
    <2> QED BY <1>1, <1>5, <1>6, <2>5, <2>6, <2>9, <2>10, <2>11, <2>12, <2>13, AnswerStep
  <1>12. CASE refreshed
    <2>1. a.op = "refresh" /\ IsOpen(page, t) /\ t \in Tabs
      BY <1>r, <1>12 DEF IsOpen
    <2>2. page' = SelectTab(Adopt(page, t, x), t)
      BY <1>r, <1>2, <1>12, <2>1
    <2>3. page.tab[t].path = p \/ TextOf(page, t) \cup x \subseteq Gone'
      BY <1>1, <1>12 DEF Gone
    <2> QED BY <1>8, <2>1, <2>2, <2>3 DEF Adopted
  <1>13. CASE a.op = "rpcclose" /\ IsOpen(page, t) /\ TextOf(page, t) = x /\ x = a.keep
    <2>1. page' = RemoveTabs(page, {t}) /\ t \in Tabs
      BY <1>2, <1>13, <1>r DEF IsOpen
    <2>2. /\ Paged(page') /\ (\A u \in Tabs \ {t} : Kept(page, page', u)) /\ ~IsOpen(page', t)
          /\ Same(page, page', t) /\ Solid(page, page', t) /\ page'.modal = page.modal
      BY <1>3, <2>1, RemoveTabsKeeps, DialogStays
    <2>3. Carried(t)
      BY <2>2 DEF Carried, Solid
    <2>4. Minded(t)
      <3>1. Begun(t) /\ Begun(t)' /\ TabOK(t) /\ Known(t)
        BY <1>13, <2>1, <2>2 DEF Begun, IsOpen, Same, Inv, NotesOK
      <3>2. Known(t)'
        BY <1>5, <2>1, <2>2, <3>1, KnownFrame
      <3>3. \A e \in TextOf(page, t) : Held(e)'
        BY <1>1, <1>4, <1>5, <1>13 DEF Held
      <3> QED BY <2>2, <3>1, <3>2, <3>3 DEF Minded
    <2>5. CarriedOn
      BY <2>2, <2>3, KeptIsCarried DEF CarriedOn
    <2>6. RoomLeft'
      <3>1. RoomLeft /\ \A u \in Tabs : Same(page, page', u)
        BY <2>2 DEF Inv, Kept
      <3> QED BY <1>1, <1>3, <3>1, RoomToHandle
    <2>7. Data'
      BY <1>1, <1>3 DEF Data
    <2>8. PICK T \in SUBSET Tabs : T = {t}
      BY <2>1
    <2> QED BY <1>1, <1>5, <1>6, <2>2, <2>4, <2>5, <2>6, <2>7, <2>8, AnswerStep
  <1>14. CASE page' = page
    <2>1. Paged(page') /\ \A u \in Tabs : Kept(page, page', u)
      BY <1>3, <1>14, KeptSelf
    <2>2. page'.modal = page.modal
      BY <1>14
    <2> QED BY <1>1, <1>5, <1>6, <2>1, <2>2, NothingReadSteps
  <1> QED BY <1>r, <1>2, <1>9, <1>10, <1>11, <1>12, <1>13, <1>14

\* The note is bound to the file an agent had it written to, if it still shows
\* the text that was written.
LEMMA RpcCommitSteps == ASSUME Inv, RpcCommit PROVE Inv'
  <1>a. PICK a : a = Head(answers)
    OBVIOUS
  <1>t. PICK t : t = a.t
    OBVIOUS
  <1>p. PICK p : p = a.p
    OBVIOUS
  <1>x. PICK x : x = a.x
    OBVIOUS
  <1>1. /\ answers # <<>> /\ answers' = Tail(answers) /\ a.op = "commit"
        /\ UNCHANGED <<file, waits, calls, changed, run, edits, foreign, given, inflight, gaps>>
        /\ page' = CommitSave(page, t, p, x) /\ rpc' = Idle
    BY <1>a, <1>t, <1>p, <1>x DEF RpcCommit, Handle
  <1>2. /\ a \in CallType /\ AnswerOK(a)
        /\ Tail(answers) \in Seq(CallType) /\ Data /\ Paged(page) /\ Shape(page)
        /\ a.op \in FromFile /\ \A y : OnWay(p, y)' => x \subseteq y \cup Gone
    BY <1>a, <1>p, <1>x, <1>1, AnswerHandled DEF FromFile, Within
  <1>3. /\ t \in Tabs /\ p \in Paths /\ x \in Text /\ x \subseteq file[p] \cup Gone
        /\ p # NoPath /\ x # NoText
    <2>1. t \in Tabs /\ p \in Paths /\ x \in Text /\ x \subseteq file[p] \cup Gone
      BY <1>t, <1>p, <1>x, <1>1, <1>2 DEF AnswerOK, FromFile, Within, CallType
    <2> QED BY <2>1, NoTextAssumption DEF Text, NoteFileAssumption
  <1>4. Grows /\ Gone = Gone'
    BY <1>1 DEF Grows, Gone
  <1>5. rpc' \in RpcType /\ RpcOK'
    <2>1. Idle \in RpcType /\ Idle.pc = "idle"
      BY DEF Idle, RpcType, Text
    <2> QED BY <1>1, <2>1 DEF RpcOK
  <1>6. page'.modal = page.modal
    BY <1>1, <1>2, DialogStays
  <1>7. /\ Paged(page') /\ \A u \in Tabs \ {t} : Kept(page, page', u)
        /\ Same(page, page', t) /\ IsOpen(page', t) = IsOpen(page, t)
        /\ TextOf(page', t) = TextOf(page, t) \/ ~IsOpen(page, t)
        /\ IsOpen(page, t) /\ InStep(page, t) => InStep(page', t)
        /\ page'.tab[t].text \in {page.tab[t].text, TextOf(page, t)}
        /\ \/ page' = page
           \/ /\ IsOpen(page, t) /\ page'.tab[t].path = p /\ ~page'.tab[t].dirty
              /\ page'.tab[t].sig = x /\ TextOf(page, t) = x
    BY <1>1, <1>2, <1>3, CommitSaveKeeps
  <1>8. CASE page' = page
    <2>1. \A u \in Tabs : Kept(page, page', u)
      BY <1>8, KeptSelf
    <2> QED BY <1>1, <1>5, <1>6, <1>7, <2>1, NothingReadSteps
  <1>9. CASE page' # page
    <2>1. /\ IsOpen(page, t) /\ IsOpen(page', t) /\ TextOf(page, t) = x /\ TextOf(page', t) = x
          /\ page'.tab[t].path = p /\ ~page'.tab[t].dirty /\ page'.tab[t].sig = x
      BY <1>7, <1>9
    <2>2. TabOK(t)
      BY <1>3, <2>1 DEF Inv, NotesOK
    <2>3. x \subseteq page'.tab[t].text \cup Gone'
      BY <1>4, <1>7, <2>1, <2>2 DEF TabOK, Within
    <2>4. x \subseteq file'[p] \cup Gone' /\ \A y : OnWay(p, y)' => x \subseteq y \cup Gone'
      BY <1>1, <1>2, <1>3, <1>4
    <2>5. TabOK(t)'
      BY <1>3, <2>1, <2>3, <2>4 DEF TabOK, Within
    <2>6. Minded(t)
      <3>1. Known(t)' /\ Begun(t)'
        BY <1>3, <2>1, <2>3 DEF Known, Within, Begun, IsOpen
      <3>2. \A e \in TextOf(page, t) : Held(e)'
        BY <1>3, <2>1, <2>4 DEF Held
      <3> QED BY <2>5, <3>1, <3>2 DEF Minded
    <2>7. Carried(t)
      <3>1. Rebound(t)
        BY <1>3, <2>1, <2>4 DEF Rebound
      <3> QED BY <1>7, <2>1, <3>1 DEF Carried
    <2>8. CarriedOn
      BY <1>7, <2>7, KeptIsCarried DEF CarriedOn
    <2>9. PICK T \in SUBSET Tabs : T = {t}
      BY <1>3
    <2>10. RoomLeft'
      <3>1. RoomLeft /\ \A u \in Tabs : Same(page, page', u)
        BY <1>7 DEF Inv, Kept
      <3> QED BY <1>1, <1>2, <3>1, RoomToHandle
    <2>11. Data'
      BY <1>1, <1>2, <1>5 DEF Data
    <2> QED BY <1>1, <1>4, <1>5, <1>6, <1>7, <2>6, <2>8, <2>9, <2>10, <2>11, AnswerStep
  <1> QED BY <1>8, <1>9

-----------------------------------------------------------------------------
(* The invariant of the texts *)

LEMMA InvInitially == Init => Inv
  <1> SUFFICES ASSUME Init PROVE Inv
    OBVIOUS
  <1>1. FirstTab \in Tabs
    BY DEF NoteFileAssumption
  <1>2. /\ {} \in Text /\ {} # NoText /\ NoModal \in ModalType /\ Idle \in RpcType
        /\ Restored # NoTab => {1} \in Text
    <2>1. {} \in Text
      BY DEF Text
    <2> QED BY <2>1, NoTextAssumption DEF Text, NoModal, ModalType, Kinds, Idle, RpcType, NoteFileAssumption
  <1>3. /\ Elems(calls) = {} /\ Elems(answers) = {} /\ calls \in Seq(CallType)
        /\ answers \in Seq(CallType) /\ DOMAIN calls = {} /\ DOMAIN answers = {}
    BY DEF Init, Elems
  <1>4. Data
    BY <1>2, <1>3 DEF Init, Data, NoteFileAssumption
  <1>5. /\ page.active = FirstTab /\ page.editor = {} /\ page.modal = NoModal
        /\ \A t \in Tabs : /\ page.tab[t].state = IF t \in {FirstTab, Restored} THEN "open" ELSE "unused"
                           /\ page.tab[t].text = IF t = Restored THEN {1} ELSE {}
                           /\ page.tab[t].sig \in {{}, NoText}
                           /\ page.tab[t].path = IF t = FirstTab THEN FirstPath ELSE NoPath
                           /\ t = FirstTab /\ FirstPath # NoPath => page.tab[t].sig = {}
    BY DEF Init
  <1>6. Paged(page)
    <2>1. Good(page)
      BY Initial
    <2>2. \A t \in Tabs : /\ page.tab[t].text \in Text /\ page.tab[t].sig \in Text \cup {NoText}
                          /\ page.tab[t].path \in Paths \cup {NoPath}
      <3> SUFFICES ASSUME NEW t \in Tabs
                   PROVE  /\ page.tab[t].text \in Text /\ page.tab[t].sig \in Text \cup {NoText}
                          /\ page.tab[t].path \in Paths \cup {NoPath}
        OBVIOUS
      <3>1. t # NoTab
        BY DEF NoteFileAssumption
      <3>2. page.tab[t].text \in Text
        BY <1>2, <1>5, <3>1
      <3>3. page.tab[t].path \in Paths \cup {NoPath}
        BY <1>5 DEF NoteFileAssumption
      <3> QED BY <1>2, <1>5, <3>2, <3>3
    <2> QED BY <1>1, <1>2, <1>5, <2>1, <2>2 DEF Paged, PageTypes, IsOpen
  <1>7. \A t \in Tabs : TextOf(page, t) = IF t = Restored THEN {1} ELSE {}
    BY <1>5 DEF TextOf, NoteFileAssumption
  <1>8. NotesOK
    <2> SUFFICES ASSUME NEW t \in Tabs
                 PROVE  /\ IsOpen(page, t) => TabOK(t)
                        /\ Begun(t) => Known(t)
                        /\ waits[t] # {} => Begun(t)
                        /\ Alone(t)
      BY DEF NotesOK
    <2>1. IsOpen(page, t) => TabOK(t)
      BY <1>2, <1>5, <1>7 DEF TabOK, Within, IsOpen
    <2>2. Known(t) /\ waits[t] = {}
      BY <1>2, <1>5 DEF Known, Within, Init
    <2>3. Alone(t)
      <3>1. PendingIn(calls, t) = {} /\ PendingIn(answers, t) = {}
        BY <1>3 DEF PendingIn
      <3>2. ~Asked(t)
        BY <1>5 DEF Asked, NoModal
      <3> QED BY <3>1, <3>2 DEF Alone, Single
    <2> QED BY <2>1, <2>2, <2>3
  <1>9. CallsOK /\ AnswersOK /\ InOrder
    BY <1>3 DEF CallsOK, AnswersOK, InOrder
  <1>10. DialogOK /\ RpcOK
    BY <1>5 DEF DialogOK, RpcOK, NoModal, Init, Idle
  <1>11. RoomLeft
    <2>1. Opening(calls) = {} /\ Opening(answers) = {} /\ Cardinality({}) = 0
      BY <1>3, FS_EmptySet DEF Opening
    <2>2. Cardinality(Unused(page)) \in Nat
      BY UnusedFinite
    <2> QED BY <2>1, <2>2 DEF RoomLeft
  <1>12. AllHeld
    <2> SUFFICES ASSUME NEW e, MadeNow(e, edits, foreign) PROVE Held(e)
      BY DEF AllHeld
    <2>1. e = 1 /\ Restored \in Tabs
      BY DEF Init, MadeNow, NoteFileAssumption
    <2>2. IsOpen(page, Restored) /\ e \in TextOf(page, Restored)
      BY <1>5, <1>7, <2>1 DEF IsOpen
    <2>3. page.tab[Restored].dirty
      BY <2>1 DEF Init
    <2> QED BY <2>1, <2>2, <2>3 DEF Held
  <1> QED BY <1>4, <1>6, <1>8, <1>9, <1>10, <1>11, <1>12 DEF Inv

LEMMA StutterSteps == ASSUME Inv, UNCHANGED vars PROVE Inv'
  <1>1. Gone' = Gone /\ (\A t : Kept(page, page', t)) /\ page' = page /\ Grows /\ Data
    BY KeptSelf DEF vars, Gone, Grows, Inv
  <1>2. \A t \in Tabs : Carried(t)
    BY <1>1, KeptIsCarried
  <1>3. Data' /\ Paged(page')
    BY <1>1 DEF vars, Inv, Data
  <1>4. PICK T \in SUBSET Tabs : T = {}
    OBVIOUS
  <1> QED BY <1>1, <1>2, <1>3, <1>4, QuietStep DEF vars

LEMMA InvSteps == Inv /\ [Next]_vars => Inv'
  <1> SUFFICES ASSUME Inv, [Next]_vars PROVE Inv'
    OBVIOUS
  <1>1. CASE UNCHANGED vars
    BY <1>1, StutterSteps
  <1>2. CASE Users
    <2>1. ASSUME NEW t \in Tabs, Edit(t) \/ Select(t) \/ Close(t) \/ RpcClose(t) PROVE Inv'
      BY <2>1, EditSteps, SelectSteps, CloseSteps, RpcCloseSteps
    <2>2. ASSUME NEW t \in Tabs, NEW p \in Paths, RpcPrepare(t, p) PROVE Inv'
      BY <2>2, RpcPrepareSteps
    <2>3. ASSUME NEW choice \in {"cancel", "dontsave", "save"}, AnswerClose(choice) PROVE Inv'
      BY <2>3, AnswerCloseSteps
    <2>4. ASSUME NEW choice \in {"cancel", "saveas", "reload", "overwrite"},
                 AnswerConflict(choice)
          PROVE  Inv'
      BY <2>4, AnswerConflictSteps
    <2>5. ASSUME NEW p \in Paths, Open(p) \/ Foreign(p) \/ ScrapAppended(p) PROVE Inv'
      BY <2>5, OpenSteps, ForeignSteps, ScrapAppendedSteps
    <2> QED BY <1>2, <2>1, <2>2, <2>3, <2>4, <2>5, SaveSteps, RunStartSteps DEF Users
  <1>3. CASE Timers
    BY <1>3, TimerFiresSteps, WatcherFiresSteps DEF Timers
  <1>4. CASE Waiters
    BY <1>4, StopWaitingSteps DEF Waiters
  <1>5. CASE UiThread
    BY <1>5, ServeSaveSteps, ServeSaveAsSteps, ServeReadSteps DEF UiThread
  <1>6. CASE Answers
    BY <1>6, SavedSteps, NothingWrittenSteps, NotSavedSteps, ConflictSteps, ReloadedSteps, TextReadSteps,
       RpcCommitSteps DEF Answers
  <1>7. CASE Goroutines
    BY <1>7, RpcWriteSteps, RunWriteSteps DEF Goroutines
  <1> QED BY <1>1, <1>2, <1>3, <1>4, <1>5, <1>6, <1>7 DEF Next

\* The texts of the notes, of the files, and of all calls and answers on their
\* way fit together, over every run (app.js, disk_sync.js, app_files.go,
\* app_rpc_write.go, app_slot.go).
THEOREM TextsInvariant == Spec => []Inv
  BY InvInitially, InvSteps, PTL DEF Spec

\* No edit gets lost: each one that was ever made is in an open note or in a
\* file, or somebody decided to throw it away, or it fell into one of the gaps
\* that are listed in the model.  For every number of notes, files, edits and
\* requests, in whatever order the saves, dialogs, reads and agents come.
THEOREM NothingLostAlways == Spec => []NothingLost
  <1>1. Inv => NothingLost
    <2> DEFINE made == 1..edits \cup (MaxEdits + 1)..(MaxEdits + foreign)
               shown == UNION {TextOf(page, t) : t \in OpenTabs(page)}
               stored == UNION {file[p] : p \in Paths}
    <2>1. NothingLost <=> made \subseteq shown \cup stored \cup given \cup gaps
      BY DEF NothingLost
    <2>2. ASSUME Inv, NEW e \in made PROVE e \in shown \cup stored \cup given \cup gaps
      <3>1. MadeNow(e, edits, foreign)
        BY <2>2 DEF MadeNow
      <3>2. Held(e)
        BY <2>2, <3>1 DEF Inv, AllHeld
      <3>3. CASE e \in Gone
        BY <3>3 DEF Gone
      <3>4. CASE \E p \in Paths : e \in file[p]
        BY <3>4
      <3>5. CASE \E t \in Tabs : IsOpen(page, t) /\ page.tab[t].dirty /\ e \in TextOf(page, t)
        BY <3>5 DEF OpenTabs
      <3> QED BY <3>2, <3>3, <3>4, <3>5 DEF Held
    <2> HIDE DEF made, shown, stored
    <2> QED BY <2>1, <2>2
  <1> QED BY <1>1, TextsInvariant, PTL

\* The text a clean note shows is the one its next save compares its file with:
\* an edit that is in one of the two only was thrown away or fell into a gap
\* (app.js rememberDiskText, markSavedUpTo, adoptDiskText).
THEOREM CleanIsKnownAlways == Spec => []CleanIsKnown
  <1>1. Inv => CleanIsKnown
    <2> SUFFICES ASSUME Inv, NEW t \in OpenTabs(page), page.tab[t].path # NoPath,
                        ~page.tab[t].dirty
                 PROVE  /\ page.tab[t].sig # NoText
                        /\ (page.tab[t].sig \ TextOf(page, t))
                             \cup (TextOf(page, t) \ page.tab[t].sig) \subseteq given \cup gaps
      BY DEF CleanIsKnown
    <2>1. TabOK(t)
      BY DEF OpenTabs, Inv, NotesOK
    <2> QED BY <2>1 DEF TabOK, Within, Gone
  <1> QED BY <1>1, TextsInvariant, PTL
=============================================================================
