------------------------------- MODULE SlotRun -------------------------------
(***************************************************************************)
(* One note of the page and the runs started in it (slot_agent.js,         *)
(* task_manager.js, app.js, app_slot.go, runner.go).                       *)
(*                                                                         *)
(* A run starts at a request in the note and leaves a placeholder there    *)
(* until its answer, or a cancel, takes the placeholder's place:           *)
(*                                                                         *)
(*   "slot"     a classic slot: its text is replaced by a running mark     *)
(*              that reads the same for every run; an answer is merged     *)
(*              when nothing was typed for 500 ms                          *)
(*   "agent"    a task line that stays, with a marker of its own below it, *)
(*              run by an external agent like a slot                       *)
(*   "llm", "command"   the same with a request to a model, which cannot   *)
(*              be aborted, or a shell command; both have a watchdog       *)
(*                                                                         *)
(* Meanwhile the user types, deletes, undoes, cancels, switches to another *)
(* note and closes this one.  The note is a sequence of cells; of a cell   *)
(* that holds a mark the code sees only that it is one, and of a text what *)
(* it says (Seen).                                                         *)
(***************************************************************************)
EXTENDS Integers, FiniteSets, SequencesExt

CONSTANTS
    Kind,         \* [Targets -> Kinds], the requests of the note
    FirstNote,    \* the note before anything ran
    Around,       \* cells of its surroundings a run remembers (48 characters)
    MaxRuns,      \* runs started
    MaxActs       \* what the user does to the note meanwhile: a cell typed
                  \* or deleted, Ctrl+Z, going to another note, closing it

Kinds == {"slot", "agent", "llm", "command"}
Targets == DOMAIN Kind
Runs == 1..MaxRuns

\* What a note holds before anything ran in it.
\* Two texts may say the same: n tells them apart.
Unrun == [k : {"slot", "line"}, t : Targets] \cup [k : {"text"}, n : Nat, says : Nat]

ASSUME SlotRunAssumption ==
    /\ Kind \in [Targets -> Kinds]
    /\ FirstNote \in Seq(Unrun)
    /\ {Around, MaxRuns, MaxActs} \subseteq Nat

VARIABLES
    note,      \* the cells of the note
    where,     \* whether a pane shows it: "shown", "behind", "closed"
    past,      \* the texts the browser's undo goes back to
    press,     \* the start under way in the editor, or NoPress
    meta,      \* per run: target and the surroundings it remembers
    used,      \* runs started so far
    pending,   \* activeRequests, pendingLLMRequests, pendingCommandTasks
    canceled,  \* canceledRuns
    task,      \* per run: its card in the task panel
    queue,     \* pendingMergeQueue
    idle,      \* nothing was typed for 500 ms
    merged,    \* slotUndoHistory: runs whose answer Ctrl+Z takes back
    go,        \* per run: its goroutine
    killed,    \* runs whose context was cancelled
    mail,      \* results dispatched to the page: <<run, outcome>>
    echo,      \* runs whose result changes nothing: the very text of their
               \* slot, or no slot at all
    acts,      \* what the user did so far
    undone     \* Ctrl+Z was pressed

noteVars == <<note, past, where>>
pageVars == <<meta, used, pending, canceled, task, queue, merged>>
goVars == <<go, killed, mail, echo>>
userVars == <<acts, undone>>
vars == <<noteVars, pageVars, goVars, userVars, press, idle>>

NoPress == [step |-> "none"]

Slot(t) == [k |-> "slot", t |-> t]
Line(t) == [k |-> "line", t |-> t]
Mark(t, r) == [k |-> "mark", t |-> t, r |-> r]
Marker(t, r) == [k |-> "marker", t |-> t, r |-> r]
Answer(t, r) == [k |-> "answer", t |-> t, r |-> r]
Typed(n) == [k |-> "typed", n |-> n]

Source(t) == IF Kind[t] = "slot" THEN Slot(t) ELSE Line(t)
KindOf(r) == Kind[meta[r].t]
Holder(r) == IF KindOf(r) = "slot" THEN Mark(meta[r].t, r) ELSE Marker(meta[r].t, r)

In(s, c) == c \in Range(s)
Place(s, c) == CHOOSE i \in DOMAIN s : s[i] = c
Seen(c) == IF c.k = "mark" THEN [k |-> "mark"]
           ELSE IF c.k = "text" THEN [k |-> "text", says |-> c.says] ELSE c
Looks(s) == [i \in DOMAIN s |-> Seen(s[i])]

\* The texts kept for undo: as many as the user can still take back.
Kept(s, n) == IF where # "shown" THEN <<>>
              ELSE IF Len(s) <= n THEN s ELSE SubSeq(s, Len(s) - n + 1, Len(s))
Edited(s) ==
    /\ note' = s
    /\ past' = IF s = note THEN past ELSE Kept(Append(past, note), MaxActs - acts)

-----------------------------------------------------------------------------
(* Where a run's answer goes                                               *)

Above(s, i) == Looks(Reverse(SubSeq(s, IF i > Around THEN i - Around ELSE 1, i - 1)))
Below(s, i) == Looks(SubSeq(s, i + 1, IF i + Around < Len(s) THEN i + Around ELSE Len(s)))

InCommon(a, b) ==
    Cardinality({n \in DOMAIN a \cap DOMAIN b : \A k \in 1..n : a[k] = b[k]})

\* The agreement of the mark at i with the surroundings r remembers.
Score(s, r, i) ==
    InCommon(Above(s, i), meta[r].above) + InCommon(Below(s, i), meta[r].below)

Away(r, i) == IF i < meta[r].at THEN meta[r].at - i ELSE i - meta[r].at

Better(s, r, i, j) ==
    \/ Score(s, r, i) > Score(s, r, j)
    \/ /\ Score(s, r, i) = Score(s, r, j)
       /\ \/ Away(r, i) < Away(r, j)
          \/ Away(r, i) = Away(r, j) /\ i < j

\* Mutant: the mark is found by its text alone.
firstMark(s, r) == SelectInSeq(s, LAMBDA c : c.k = "mark")

\* The running mark of r among the marks that read the same; 0: no mark.
findRunMark(s, r) ==
    LET marks == {i \in DOMAIN s : s[i].k = "mark"}
    IN  IF marks = {} THEN 0
        ELSE CHOOSE i \in marks : \A j \in marks \ {i} : Better(s, r, i, j)

oldContent(s, r) == SelectInSeq(s, LAMBDA c : c = Slot(meta[r].t))

\* The mark, or else the original text (the start of the run was undone).  A
\* result that is merged has its run on record: the searches for a result
\* without one never happen here.
mergePlace(S, r) ==
    IF findRunMark(S.note, r) # 0 THEN findRunMark(S.note, r) ELSE oldContent(S.note, r)

\* Mutant: the late answer of a cancelled run is merged as any other.
MergesAll(S, r) == FALSE
skipsMerge(S, r) == r \in canceled

\* A result that brings nothing new is not merged.
changesNothing(r) == r \in echo

\* Mutant: a merge that finds no place keeps the run on record.
KeepsRecord(S, r) ==
    LET i == mergePlace(S, r)
    IN  IF skipsMerge(S, r) \/ changesNothing(r) \/ where = "closed" \/ i = 0 THEN S
        ELSE [note    |-> ReplaceAt(S.note, i, Answer(meta[r].t, r)),
              pending |-> S.pending \ {r},
              merged  |-> IF where = "shown" THEN Append(S.merged, r) ELSE S.merged]

\* applyMergeToEditor on the page's state S = [note, pending, merged].  A
\* result that changes nothing ends the request and leaves the mark.
applyMerge(S, r) ==
    LET i == mergePlace(S, r)
    IN  IF skipsMerge(S, r) THEN S
        ELSE IF changesNothing(r) \/ where = "closed" \/ i = 0
             THEN [S EXCEPT !.pending = @ \ {r}]
        ELSE [note    |-> ReplaceAt(S.note, i, Answer(meta[r].t, r)),
              pending |-> S.pending \ {r},
              merged  |-> IF where = "shown" THEN Append(S.merged, r) ELSE S.merged]

\* The merges of the queue, one after the other.
applyMerges(S, rs) ==
    LET after[n \in 0..Len(rs)] == IF n = 0 THEN S ELSE applyMerge(after[n - 1], rs[n])
    IN  after[Len(rs)]

\* processPendingMergesDebounced once the typing has stopped: all of them.
processPendingMerges(rs) ==
    \E S \in {applyMerges([note |-> note, pending |-> pending, merged |-> merged], rs)} :
        /\ Edited(S.note)
        /\ pending' = S.pending
        /\ merged' = S.merged
        /\ queue' = <<>>
        /\ idle' = (S.note = note \/ where # "shown")

\* The marker of its own is replaced; without it the answer goes to the end.
applyAnchorReplacement(r) ==
    IF where = "closed" THEN note
    ELSE IF In(note, Holder(r))
         THEN ReplaceAt(note, Place(note, Holder(r)), Answer(meta[r].t, r))
         ELSE Append(note, Answer(meta[r].t, r))

\* The original text back in place of the running mark.
restoreRunMark(r) ==
    LET i == findRunMark(note, r)
    IN  IF where = "closed" \/ i = 0 THEN note ELSE ReplaceAt(note, i, Slot(meta[r].t))

\* Mutant: a cancel leaves the marker in the note.
LeavesAnchor(r) == note

\* The marker of a cancelled run goes, with its line.
dropAnchor(r) ==
    IF where = "closed" \/ ~In(note, Holder(r)) THEN note
    ELSE RemoveAt(note, Place(note, Holder(r)))

\* A card ends once; what comes later does not change it.
updateTask(r, status) ==
    task' = [task EXCEPT ![r] = IF @ = "running" THEN status ELSE @]

-----------------------------------------------------------------------------
(* Starting a run                                                          *)

Init ==
    /\ note = FirstNote
    /\ where = "shown"
    /\ past = <<>>
    /\ press = NoPress
    /\ meta = <<>>
    /\ used = 0
    /\ pending = {}
    /\ canceled = {}
    /\ task = [r \in Runs |-> "none"]
    /\ queue = <<>>
    /\ idle = TRUE
    /\ merged = <<>>
    /\ go = [r \in Runs |-> "none"]
    /\ killed = {}
    /\ mail = {}
    /\ echo = {}
    /\ acts = 0
    /\ undone = FALSE

\* A marker or a block right below a task line, whichever task left it there,
\* is replaced by a new run of that line.
isResult(c) == c.k = "marker" \/ (c.k = "answer" /\ Kind[c.t] # "slot")
hasResult(t) ==
    LET i == Place(note, Source(t))
    IN  i < Len(note) /\ isResult(note[i + 1])
alreadyRunning(t) ==
    hasResult(t) /\ LET c == note[Place(note, Source(t)) + 1]
                    IN  c.k = "marker" /\ c.r \in pending

Started(t, run, edited) ==
    LET r == used + 1
    IN  /\ used' = r
        /\ meta' = Append(meta, run)
        /\ pending' = pending \cup {r}
        /\ task' = [task EXCEPT ![r] = "running"]
        /\ go' = [go EXCEPT ![r] = IF Kind[t] \in {"slot", "agent"} THEN "queued" ELSE "running"]
        /\ Edited(edited)
        /\ press' = NoPress
        /\ idle' = FALSE
        /\ UNCHANGED <<where, canceled, queue, merged, killed, mail, echo, userVars>>

\* The mark takes the place the slot had in the text the backend parsed.
StartSlot(t) ==
    LET at == IF press.at <= Len(note) THEN press.at ELSE Len(note) + 1
    IN  Started(t, [t |-> t, at |-> at, above |-> Above(note, at), below |-> Below(note, at)],
            SubSeq(note, 1, at - 1) \o <<Mark(t, used + 1)>> \o SubSeq(note, at + 1, Len(note)))

\* The marker goes under the line, over an older marker or answer there.
StartBelow(t) ==
    LET i == Place(note, Source(t))
        rest == SubSeq(note, IF hasResult(t) THEN i + 2 ELSE i + 1, Len(note))
    IN  Started(t, [t |-> t, at |-> i, above |-> <<>>, below |-> <<>>],
            SubSeq(note, 1, i) \o <<Marker(t, used + 1)>> \o rest)

\* Ctrl+Enter; while one is under way in the editor a second does nothing.
\* A slot or an agent is parsed by the backend first, a command is confirmed.
Press(t) ==
    /\ press = NoPress
    /\ where = "shown"
    /\ used < MaxRuns
    /\ In(note, Source(t))
    /\ IF Kind[t] = "llm"
       THEN ~alreadyRunning(t) /\ StartBelow(t)
       ELSE /\ Kind[t] = "command" => ~alreadyRunning(t)
            /\ press' = [step |-> IF Kind[t] = "command" THEN "confirm" ELSE "parse",
                         t |-> t, at |-> Place(note, Source(t)), text |-> note, gate |-> note]
            /\ idle' = FALSE
            /\ UNCHANGED <<noteVars, pageVars, goVars, userVars>>

\* The backend found the slot; the text the confirmation will be about.
Parsed ==
    /\ press.step = "parse"
    /\ press' = [press EXCEPT !.step = "confirm", !.gate = note]
    /\ UNCHANGED <<noteVars, pageVars, goVars, userVars, idle>>

\* Mutant: for a slot the note is not compared after the question.
NoCheck(t) == Kind[t] = "slot" \/ note = press.text
unchangedSince(t) ==
    note = IF Kind[t] = "slot" THEN press.gate ELSE press.text

\* The user allows the run, and the note is what it was at the check.
Confirmed ==
    /\ press.step = "confirm"
    /\ unchangedSince(press.t)
    /\ IF Kind[press.t] = "slot" THEN StartSlot(press.t)
       ELSE ~alreadyRunning(press.t) /\ StartBelow(press.t)

\* Declined, or the note changed in the meantime.
NotStarted ==
    /\ press.step = "confirm"
    /\ press' = NoPress
    /\ UNCHANGED <<noteVars, pageVars, goVars, userVars, idle>>

-----------------------------------------------------------------------------
(* The backend                                                             *)

\* The goroutine publishes its cancel function; a cancel before is lost.
Register(r) ==
    /\ go[r] = "queued"
    /\ go' = [go EXCEPT ![r] = "running"]
    /\ UNCHANGED <<noteVars, pageVars, killed, mail, echo, userVars, press, idle>>

\* An answer or an error (both replace the placeholder), or "canceled".
Outcome(r) ==
    IF go[r] = "queued" THEN "problem"   \* the agent cannot start
    ELSE IF r \in killed THEN "canceled" ELSE "answer"

Ends(r) ==
    /\ go[r] \in {"queued", "running"}
    /\ go' = [go EXCEPT ![r] = "ended"]
    /\ mail' = mail \cup {<<r, Outcome(r)>>}
    /\ \/ UNCHANGED echo
       \/ KindOf(r) = "slot" /\ Outcome(r) = "answer" /\ echo' = echo \cup {r}
    /\ UNCHANGED <<noteVars, pageVars, killed, userVars, press, idle>>

-----------------------------------------------------------------------------
(* The page ends a run                                                     *)

\* After an edit by the page itself typing counts as under way.
PageEdits(s) ==
    /\ Edited(s)
    /\ idle' = (idle /\ (s = note \/ where # "shown"))

\* cancelSlotExecution, cancelLlmTask, cancelCommandTask: the page forgets
\* the run, puts the note back and ends the card.
Forget(r, status) ==
    /\ pending' = pending \ {r}
    /\ canceled' = IF KindOf(r) = "slot" THEN canceled \cup {r} ELSE canceled
    /\ PageEdits(IF KindOf(r) = "slot" THEN restoreRunMark(r) ELSE dropAnchor(r))
    /\ updateTask(r, status)
    /\ killed' = IF go[r] = "running" /\ KindOf(r) # "llm" THEN killed \cup {r} ELSE killed
    /\ UNCHANGED <<where, meta, used, queue, merged>>

\* The user cancels in the task panel.
Cancel(r) ==
    /\ task[r] = "running"
    /\ r \in pending
    /\ Forget(r, "canceled")
    /\ UNCHANGED <<go, mail, echo, userVars, press>>

Answered(r, status) ==
    /\ pending' = pending \ {r}
    /\ PageEdits(applyAnchorReplacement(r))
    /\ updateTask(r, status)
    /\ UNCHANGED <<where, meta, used, canceled, queue, merged>>

\* handleSlotResult for a classic slot: the card ends, the answer waits for
\* a pause in the typing.
Enqueue(r) ==
    /\ updateTask(r, "completed")
    /\ IF idle THEN processPendingMerges(Append(queue, r))
       ELSE queue' = Append(queue, r) /\ UNCHANGED <<note, past, pending, merged, idle>>
    /\ UNCHANGED <<where, meta, used, canceled>>

\* Mutant: an answer the page waits for no longer is written all the same.
Always(r) == TRUE
awaited(r) == r \in pending

\* A result reaches the page.
Deliver(r, out) ==
    /\ <<r, out>> \in mail
    /\ mail' = mail \ {<<r, out>>}
    /\ \/ /\ out # "answer" /\ awaited(r)
          /\ Forget(r, IF out = "problem" THEN "failed" ELSE "canceled")
       \/ /\ out = "answer" /\ KindOf(r) = "slot"
          /\ Enqueue(r)
          /\ UNCHANGED killed
       \/ /\ out = "answer" /\ KindOf(r) # "slot" /\ awaited(r)
          /\ Answered(r, "completed")
          /\ UNCHANGED killed
       \/ /\ ~awaited(r)
          /\ out # "answer" \/ KindOf(r) # "slot"
          /\ UNCHANGED <<noteVars, pageVars, killed, idle>>
    /\ UNCHANGED <<go, echo, userVars, press>>

\* The watchdog of a model's or a command's request.
TimesOut(r) ==
    /\ r \in pending
    /\ KindOf(r) \in {"llm", "command"}
    /\ Answered(r, "failed")
    /\ UNCHANGED <<goVars, userVars, press>>

\* 500 ms without typing, and the merges that waited for it.
TypingStops ==
    /\ ~idle
    /\ IF queue = <<>> THEN idle' = TRUE /\ UNCHANGED <<note, past, pending, merged, queue>>
       ELSE processPendingMerges(queue)
    /\ UNCHANGED <<where, meta, used, canceled, task, goVars, userVars, press>>

-----------------------------------------------------------------------------
(* The user                                                                *)

Acts == acts < MaxActs /\ acts' = acts + 1

UserEdits(s) ==
    /\ Acts
    /\ where = "shown"
    /\ Edited(s)
    /\ idle' = FALSE
    /\ UNCHANGED <<where, pageVars, goVars, press, undone>>

Type == \E i \in 1..Len(note) + 1 : UserEdits(InsertAt(note, i, Typed(acts)))
Delete == \E i \in DOMAIN note : UserEdits(RemoveAt(note, i))

\* Answers of classic slots that Ctrl+Z takes back before anything else.
inNote == {j \in DOMAIN merged : In(note, Answer(meta[merged[j]].t, merged[j]))}

CtrlZ ==
    /\ Acts
    /\ where = "shown"
    /\ undone' = TRUE
    /\ idle' = FALSE
    /\ UNCHANGED <<where, meta, used, pending, canceled, task, queue, goVars, press>>

\* trySlotUndo: the slot comes back in place of the newest answer.
TakeBack ==
    /\ inNote # {}
    /\ CtrlZ
    /\ LET j == CHOOSE x \in inNote : \A y \in inNote : y <= x
           t == meta[merged[j]].t
       IN  /\ note' = ReplaceAt(note, Place(note, Answer(t, merged[j])), Slot(t))
           /\ merged' = RemoveAt(merged, j)
    /\ past' = Kept(Append(past, note), MaxActs - acts - 1)

\* The browser undoes the last edit, the start of a run too.
Undo ==
    /\ inNote = {}
    /\ past # <<>>
    /\ CtrlZ
    /\ note' = Last(past)
    /\ past' = Front(past)
    /\ UNCHANGED merged

\* The user goes to another note in the pane, and back; undo starts anew.
GoAway ==
    /\ Acts
    /\ where = "shown"
    /\ press = NoPress
    /\ where' = "behind"
    /\ past' = <<>>
    /\ UNCHANGED <<note, pageVars, goVars, undone, press, idle>>

ComeBack ==
    /\ where = "behind"
    /\ where' = "shown"
    /\ UNCHANGED <<note, past, pageVars, goVars, userVars, press, idle>>

\* removeTab settles the requests of the note to models and commands.
settled == {r \in pending : KindOf(r) \in {"llm", "command"}}
Close ==
    /\ Acts
    /\ where # "closed"
    /\ press = NoPress
    /\ where' = "closed"
    /\ note' = <<>>
    /\ past' = <<>>
    /\ pending' = pending \ settled
    /\ task' = [r \in Runs |-> IF r \in settled THEN "canceled" ELSE task[r]]
    /\ killed' = killed \cup {r \in settled : KindOf(r) = "command" /\ go[r] = "running"}
    /\ UNCHANGED <<meta, used, canceled, queue, merged, go, mail, echo, undone, press,
                   idle>>

Next ==
    \/ \E t \in Targets : Press(t)
    \/ Parsed
    \/ Confirmed
    \/ NotStarted
    \/ \E r \in 1..used : Register(r) \/ Ends(r) \/ Cancel(r) \/ TimesOut(r)
    \/ \E m \in mail : Deliver(m[1], m[2])
    \/ TypingStops
    \/ Type
    \/ Delete
    \/ TakeBack
    \/ Undo
    \/ GoAway
    \/ ComeBack
    \/ Close

Spec == Init /\ [][Next]_vars

\* Goroutines run and end (an agent has a time limit), results reach the
\* page, and the user does not type for ever.
Fairness ==
    /\ WF_vars(\/ \E r \in 1..used : Register(r) \/ Ends(r)
               \/ \E m \in mail : Deliver(m[1], m[2]))
    /\ WF_vars(TypingStops)

FairSpec == Spec /\ Fairness

-----------------------------------------------------------------------------
(* Properties                                                              *)

Of(s, r) == {i \in DOMAIN s : s[i].k \in {"mark", "marker", "answer"} /\ s[i].r = r}
HeldBy(s, r) == \E i \in Of(s, r) : s[i].k # "answer"

\* A run the user cancelled never gets its answer into the note, although
\* its process may report one: a cancel that comes before Register stops
\* nothing, a request to a model cannot be stopped, and another run of the
\* same slot may show the same mark by then.
CanceledStaysOut ==
    \A r \in 1..used : task[r] = "canceled" =>
        \A i \in Of(note, r) : note[i].k # "answer"

\* A run answers once: the answer of the watchdog (registerPendingLLMRequest,
\* runCommandTask) and the late one of the backend never both land, nor do two
\* merges of the queue.
AnswersOnce ==
    \A r \in 1..used : Cardinality({i \in Of(note, r) : note[i].k = "answer"}) <= 1

\* The cards of the task panel and the page's own records agree through every
\* end, cancel, time-out and closing of the note: a run the page still holds is
\* shown as running until its result is queued for a merge, and no card stays
\* at running for a run that nothing can end any more.
CardsMatch ==
    pending = {r \in 1..used : task[r] = "running"} \cup (Range(queue) \ canceled)

\* A mark stands where it was put: its neighbours are what they were.
Undisturbed(r) ==
    \A i \in Of(note, r) : Above(note, i) = meta[r].above /\ Below(note, i) = meta[r].below

\* Another mark stands between the same texts: nothing but the distance from
\* where the slot was tells the two apart.
Ambiguous(r) ==
    \E i \in DOMAIN note : /\ note[i].k = "mark" /\ note[i].r # r
                          /\ IsPrefix(meta[r].above, Above(note, i))
                          /\ IsPrefix(meta[r].below, Below(note, i))
InPlace(r) == \A i \in Of(note, r) : i = meta[r].at

Settles(r) == r \in pending /\ r \notin pending'

\* All running marks read the same, and yet findRunMark gives an ending run
\* its own: when its mark is there, the text around it is what it was, and either
\* no other mark stands between the same texts or its own has not moved, that
\* mark goes (but for an answer that changes nothing), and the mark of no other
\* run goes with it.
OwnMarkOnly ==
    [][\A r \in 1..used :
         /\ Settles(r) /\ KindOf(r) = "slot" /\ where' # "closed"
         /\ HeldBy(note, r) /\ Undisturbed(r) /\ (Ambiguous(r) => InPlace(r))
         => /\ changesNothing(r) \/ ~HeldBy(note', r)
            /\ \A s \in pending' \cap 1..used : HeldBy(note, s) => HeldBy(note', s)]_vars

ByUser == userVars' # userVars
StaleStart == used' > used /\ press # NoPress /\ press.text # press.gate

\* What the user wrote goes only by the user's hand, whatever runs start, end
\* or are cancelled at the time.  The one exception: runSlotTrigger compares the
\* note with what it was after the parse, not with what was parsed, so a slot
\* can start over a text that moved meanwhile.
WrittenStays ==
    [][~ByUser /\ ~StaleStart =>
         \A i \in DOMAIN note : note[i].k \in {"text", "typed", "line"} => In(note', note[i])]_vars

\* When all runs are started and the typing is over, no placeholder of a run
\* is left but for one mark per run whose answer changed nothing: no end, cancel
\* or merge put off by processPendingMergesDebounced leaves one there, whoever's
\* mark it takes and whatever was typed or deleted around it, unless the user
\* pressed Ctrl+Z.
Left == {r \in 1..used : HeldBy(note, r)}
PlaceholdersGo ==
    <>[](\/ undone
         \/ /\ \A r \in Left : KindOf(r) = "slot"
            /\ Cardinality(Left) <= Cardinality(echo \ canceled))
=============================================================================
