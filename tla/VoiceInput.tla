----------------------------- MODULE VoiceInput -----------------------------
(***************************************************************************)
(* Voice input (frontend/js/voice_input.js) with the backend's requests    *)
(* (app_inputs.go, app_meeting.go): a dictation puts a marker in the note  *)
(* when it starts, and the marker becomes the text, or the buttons Retry,  *)
(* Save audio and Discard when the request fails or does not answer.       *)
(*                                                                         *)
(* Dictations are the numbers of the order they start in (the source has   *)
(* random ids); a recording the backend keeps on disk is named by the      *)
(* number of the request that saved it (the source has time stamps).  The  *)
(* note is what it holds for each dictation, without the order; it stays   *)
(* open, and a restart of the application brings it back as it was.        *)
(* Nothing the backend does is fair: a request may never answer.           *)
(* The page keeps the newest recordings and jobs only: `dropped' are the   *)
(* dictations whose entry had to make room.                                *)
(***************************************************************************)
EXTENDS Naturals, FiniteSets

CONSTANTS
    MaxDictations,  \* bound: dictations started
    MaxRequests,    \* bound: requests to the backend
    MaxActs,        \* bound: clicks on Save audio and Discard, markers the
                    \* user deletes, and restarts of the application
    MAX_KEPT_AUDIO, \* entries inflight has room for: 5 in the source
    MAX_KEPT_JOBS   \* entries jobs has room for: 20 in the source

ASSUME VoiceAssumption ==
    /\ MaxDictations \in Nat /\ MaxRequests \in Nat /\ MaxActs \in Nat
    /\ MAX_KEPT_AUDIO \in Nat /\ MAX_KEPT_JOBS \in Nat

Dictations == 1..MaxDictations
Requests == 1..MaxRequests
None == 0

(* What a dictation can leave in the note: a marker of one of three kinds, *)
(* its text, the selection it edits, a link to its kept recording.         *)
Markers == {"recording", "transcribing", "rescue"}
Pieces == Markers \cup {"text", "selection", "audio"}

(* How a dictation was started: with no selection, to edit the selection,  *)
(* or as a meeting the backend records.                                    *)
Kinds == {"plain", "edit", "meeting"}

VARIABLES
    note,       \* how many of each piece the note holds
    started,    \* dictations started
    rec,        \* recording, meetingMode, stopping, aborting, currentId
    stopEvent,  \* a stopped MediaRecorder's event is due
    reading,    \* recordings being read into memory
    pending,    \* dictations whose answer has a note to go to
    inflight,   \* the recording or the entry kept for each request
    jobs,       \* how each dictation was started, "none" when forgotten
    cache,      \* localStorage: the file of each dictation
    files,      \* recordings in voice_cache
    requests,   \* requests the backend works on
    answers,    \* calls of __onVoiceResult and refusals on their way
    asks,       \* Save audio and Discard calls not finished
    calls, acts,
    edits,      \* history: dictations that edit the selection
    dropped,    \* history: dictations whose entry or job made room for others
    exempt      \* history: see Crosses, Stranded, Removes and Panics

vars == <<note, started, rec, stopEvent, reading, pending, inflight, jobs,
          cache, files, requests, answers, asks, calls, acts, edits, dropped,
          exempt>>
recVars == <<started, rec, stopEvent>>
serverVars == <<files, requests>>

Idle == [on |-> FALSE, meeting |-> FALSE, stopping |-> FALSE,
         aborting |-> FALSE, id |-> None]
NoEntry == [kept |-> FALSE, audio |-> FALSE, timedOut |-> FALSE,
            timer |-> FALSE, since |-> 0]
Forgotten == [d \in Dictations |-> "none"]

(* since: the request the entry was made for, the order of the map.        *)
Entries == [kept : BOOLEAN, audio : BOOLEAN, timedOut : BOOLEAN,
            timer : BOOLEAN, since : 0..MaxRequests]
Calls == {"audio", "cache", "cache read", "cache refine", "meeting"}
Files == Requests \cup {None}

(* Types of the variables. *)
TypeOK ==
    /\ note \in [Dictations -> [Pieces -> Nat]]
    /\ started \in Dictations \cup {None}
    /\ rec \in [on : BOOLEAN, meeting : BOOLEAN, stopping : BOOLEAN,
                aborting : BOOLEAN, id : Dictations \cup {None}]
    /\ stopEvent \in BOOLEAN
    /\ reading \subseteq Dictations /\ pending \subseteq Dictations
    /\ inflight \in [Dictations -> Entries]
    /\ jobs \in [Dictations -> Kinds \cup {"none"}]
    /\ cache \in [Dictations -> Files] /\ files \subseteq Requests
    /\ requests \subseteq
         [n : Requests, d : Dictations, file : Files, what : Calls]
    /\ answers \subseteq
         [n : Requests, d : Dictations, file : Files, what : Calls,
          result : {"refused", "text", "not refined", "error"}]
    /\ asks \subseteq
         [d : Dictations, what : {"keep", "discard"}, file : Files,
          pc : {"asked", "done", "failed"}]
    /\ calls \in Requests \cup {0} /\ acts \in 0..MaxActs
    /\ edits \subseteq Dictations /\ dropped \subseteq Dictations
    /\ exempt \subseteq Dictations

Init ==
    /\ note = [d \in Dictations |-> [p \in Pieces |->
                                        IF p = "selection" THEN 1 ELSE 0]]
    /\ started = 0 /\ rec = Idle /\ stopEvent = FALSE
    /\ reading = {} /\ pending = {}
    /\ inflight = [d \in Dictations |-> NoEntry] /\ jobs = Forgotten
    /\ cache = [d \in Dictations |-> None] /\ files = {}
    /\ requests = {} /\ answers = {} /\ asks = {}
    /\ calls = 0 /\ acts = 0
    /\ edits = {} /\ dropped = {} /\ exempt = {}

-----------------------------------------------------------------------------
(* The note *)

Has(d, p) == note[d][p] > 0

(* A missing anchor is no obstacle: the replacement goes to the end of the *)
(* note.  "nothing" is the empty replacement.                              *)
Replaced(d, old, new) ==
    [p \in Pieces |-> note[d][p] + (IF p = new THEN 1 ELSE 0)
                                 - (IF p = old /\ Has(d, p) THEN 1 ELSE 0)]

replaceAnchor(d, old, new) == note' = [note EXCEPT ![d] = Replaced(d, old, new)]

(* Mutant: a removed marker leaves nothing. *)
NoReplacement(d) == "nothing"

markerReplacement(d) == IF jobs[d] = "edit" THEN "selection" ELSE "nothing"

removeMarker(d, anchor) ==
    /\ replaceAnchor(d, anchor, markerReplacement(d))
    /\ jobs' = [jobs EXCEPT ![d] = "none"]

dropInflight(d) == [inflight EXCEPT ![d] = NoEntry]

-----------------------------------------------------------------------------
(* Recording *)

(* rememberJob: the oldest job is forgotten when there are too many.       *)
Surplus(J) ==
    LET kept == {d \in Dictations : J[d] # "none"}
    IN IF Cardinality(kept) <= MAX_KEPT_JOBS THEN {}
       ELSE {d \in kept : \A c \in kept : d <= c}

Begins(kind, replaced) ==
    /\ ~rec.on /\ ~stopEvent /\ started < MaxDictations
    /\ LET d == started + 1
           J == [jobs EXCEPT ![d] = kind] IN
        /\ started' = d
        /\ replaceAnchor(d, replaced, "recording")
        /\ jobs' = [c \in Dictations |-> IF c \in Surplus(J) THEN "none" ELSE J[c]]
        /\ dropped' = dropped \cup Surplus(J)
        /\ edits' = IF kind = "edit" THEN edits \cup {d} ELSE edits
        /\ rec' = [Idle EXCEPT !.on = TRUE, !.meeting = (kind = "meeting"),
                               !.id = d]
    /\ UNCHANGED <<stopEvent, reading, pending, inflight, cache, serverVars,
                   answers, asks, calls, acts, exempt>>

(* The wait for the microphone changes nothing but the guard of this       *)
(* action; the browser fires the last recorder's stop event before it ends.*)
(* The marker goes over a selected text also when the second stage is off  *)
(* or skipped for this dictation; nothing remembers that text.             *)
Start ==
    \/ Begins("plain", "nothing") \/ Begins("plain", "selection")
    \/ Begins("edit", "selection")

(* A meeting is not an edit of the selection. *)
StartMeeting == Begins("meeting", "nothing")

(* The user or the silence detector ends a recording.                      *)
Stop ==
    /\ rec.on /\ ~rec.stopping /\ ~rec.meeting
    /\ rec' = [rec EXCEPT !.stopping = TRUE]
    /\ stopEvent' = TRUE
    /\ UNCHANGED <<note, started, reading, pending, inflight, jobs, cache,
                   serverVars, answers, asks, calls, acts, edits, dropped, exempt>>

Request(d, what, file) ==
    /\ calls < MaxRequests
    /\ calls' = calls + 1
    /\ requests' = requests \cup
            {[n |-> calls + 1, d |-> d, what |-> what, file |-> file]}

(* A meeting has no watchdog. *)
FinishMeeting ==
    /\ rec.on /\ rec.meeting
    /\ rec' = [rec EXCEPT !.on = FALSE, !.meeting = FALSE]
    /\ replaceAnchor(rec.id, "recording", "transcribing")
    /\ pending' = pending \cup {rec.id}
    /\ Request(rec.id, "meeting", None)
    /\ UNCHANGED <<started, stopEvent, reading, inflight, jobs, cache, files,
                   answers, asks, acts, edits, dropped, exempt>>

(* Esc.  A recorder that is stopping already has its event due.            *)
Abort ==
    /\ rec.on
    /\ rec' = [rec EXCEPT !.on = FALSE, !.meeting = FALSE, !.stopping = FALSE,
                          !.aborting = ~rec.meeting]
    /\ stopEvent' = ~rec.meeting
    /\ removeMarker(rec.id, "recording")
    /\ UNCHANGED <<started, reading, pending, inflight, cache, serverVars,
                   answers, asks, calls, acts, edits, dropped, exempt>>

onRecorderStop ==
    /\ stopEvent
    /\ stopEvent' = FALSE
    /\ rec' = [rec EXCEPT !.on = FALSE, !.stopping = FALSE, !.aborting = FALSE]
    /\ IF rec.aborting
       THEN UNCHANGED <<note, reading, pending>>
       ELSE /\ replaceAnchor(rec.id, "recording", "transcribing")
            /\ pending' = pending \cup {rec.id}
            /\ reading' = reading \cup {rec.id}
    /\ UNCHANGED <<started, inflight, jobs, cache, serverVars, answers, asks,
                   calls, acts, edits, dropped, exempt>>

-----------------------------------------------------------------------------
(* Requests *)

(* An entry that is there already keeps its place in the map.              *)
Since(d) == IF inflight[d].kept THEN inflight[d].since ELSE calls + 1

(* Mutant: no watchdog. *)
Unwatched(d, audio) == [inflight EXCEPT ![d] =
    [kept |-> TRUE, audio |-> audio, timedOut |-> FALSE, timer |-> FALSE,
     since |-> Since(d)]]

Armed(d, audio) == [inflight EXCEPT ![d] =
    [kept |-> TRUE, audio |-> audio, timedOut |-> FALSE, timer |-> TRUE,
     since |-> Since(d)]]

(* rememberInflight: the oldest entry makes room, its watchdog with it.    *)
Oldest(f) ==
    LET kept == {d \in Dictations : f[d].kept}
    IN IF Cardinality(kept) <= MAX_KEPT_AUDIO THEN {}
       ELSE {d \in kept : \A c \in kept : f[d].since <= f[c].since}

Remember(f) ==
    /\ inflight' = [d \in Dictations |-> IF d \in Oldest(f) THEN NoEntry ELSE f[d]]
    /\ dropped' = dropped \cup Oldest(f)

(* The recording is read into memory and sent. *)
Send(d) ==
    /\ d \in reading
    /\ reading' = reading \ {d}
    /\ Remember(Armed(d, TRUE))
    /\ Request(d, "audio", None)
    /\ UNCHANGED <<note, recVars, pending, jobs, cache, files, answers, asks,
                   acts, edits, exempt>>

ReadFails(d) ==
    /\ d \in reading
    /\ reading' = reading \ {d}
    /\ pending' = pending \ {d}
    /\ inflight' = dropInflight(d)
    /\ removeMarker(d, "transcribing")
    /\ UNCHANGED <<recVars, cache, serverVars, answers, asks, calls,
                   acts, edits, dropped, exempt>>

giveUpWaiting(d) ==
    IF inflight[d].kept /\ ~inflight[d].timedOut
    THEN /\ inflight' = [inflight EXCEPT ![d].timedOut = TRUE,
                                         ![d].timer = FALSE]
         /\ replaceAnchor(d, "transcribing", "rescue")
    ELSE UNCHANGED <<inflight, note>>

TimesOut(d) ==
    /\ inflight[d].timer
    /\ giveUpWaiting(d)
    /\ UNCHANGED <<recVars, reading, pending, jobs, cache, serverVars,
                   answers, asks, calls, acts, edits, dropped, exempt>>

Answer(r, result, file) ==
    answers' = answers \cup
        {[n |-> r.n, d |-> r.d, result |-> result, what |-> r.what,
          file |-> file]}

Ended(r) == requests' = requests \ {r}

(* The call of the backend is rejected. *)
Refused(r) ==
    /\ r \in requests /\ r.what \notin {"cache read", "cache refine"}
    /\ Ended(r)
    /\ Answer(r, "refused", None)
    /\ UNCHANGED <<note, recVars, reading, pending, inflight, jobs, cache,
                   files, asks, calls, acts, edits, dropped, exempt>>

(* RetryVoiceCacheAsync reads the file before it asks the model.           *)
ReadsCache(r) ==
    /\ r \in requests /\ r.what = "cache"
    /\ IF r.file \in files
       THEN /\ requests' = (requests \ {r}) \cup
                               {[r EXCEPT !.what = "cache read"]}
            /\ UNCHANGED answers
       ELSE Ended(r) /\ Answer(r, "error", r.file)
    /\ UNCHANGED <<note, recVars, reading, pending, inflight, jobs, cache,
                   files, asks, calls, acts, edits, dropped, exempt>>

(* A retried recording is deleted, if it can be, before the second stage.  *)
RemovesCached(r) ==
    /\ r \in requests /\ r.what = "cache read"
    /\ files' \in {files, files \ {r.file}}
    /\ requests' = (requests \ {r}) \cup {[r EXCEPT !.what = "cache refine"]}
    /\ UNCHANGED <<note, recVars, reading, pending, inflight, jobs, cache,
                   answers, asks, calls, acts, edits, dropped, exempt>>

(* The text, and whether the second stage worked.                          *)
Transcribed(r) ==
    /\ r \in requests /\ r.what \in {"audio", "cache refine", "meeting"}
    /\ Ended(r)
    /\ \E result \in {"text", "not refined"} :
          /\ r.what = "meeting" => result = "text"
          /\ Answer(r, result, None)
    /\ UNCHANGED <<note, recVars, reading, pending, inflight, jobs, cache,
                   files, asks, calls, acts, edits, dropped, exempt>>

(* A panic of the second stage is answered with the path of the recording, *)
(* which may be deleted by then.                                           *)
Panics(r) ==
    /\ r \in requests /\ r.what = "cache refine"
    /\ Ended(r)
    /\ Answer(r, "error", r.file)
    /\ exempt' = exempt \cup {r.d}
    /\ UNCHANGED <<note, recVars, reading, pending, inflight, jobs, cache,
                   files, asks, calls, acts, edits, dropped>>

(* A first request that fails saves the recording, if it can; a retry has  *)
(* it saved already; a meeting's stays elsewhere.                          *)
Fails(r) ==
    /\ r \in requests /\ r.what \in {"audio", "cache read", "meeting"}
    /\ Ended(r)
    /\ \E file \in (CASE r.what = "audio" -> {None, r.n}
                      [] r.what = "cache read" -> {r.file}
                      [] r.what = "meeting" -> {None}) :
          /\ files' = IF r.what = "audio" THEN files \cup ({file} \ {None})
                                          ELSE files
          /\ Answer(r, "error", file)
    /\ UNCHANGED <<note, recVars, reading, pending, inflight, jobs, cache,
                   asks, calls, acts, edits, dropped, exempt>>

-----------------------------------------------------------------------------
(* Answers *)

waitingAnchor(d) == IF inflight[d].timedOut THEN "rescue" ELSE "transcribing"

(* An answer that finds no note to go to (pending) changes no note.        *)
Lands(a, new) ==
    IF a.d \in pending THEN replaceAnchor(a.d, waitingAnchor(a.d), new)
                       ELSE UNCHANGED note

MeetingFailed(a) ==
    /\ a.result = "error" /\ jobs[a.d] = "meeting"
    /\ Lands(a, "nothing")
    /\ jobs' = [jobs EXCEPT ![a.d] = "none"]
    /\ UNCHANGED <<inflight, cache>>

(* Mutant: the recording in memory goes with any error. *)
DropsMemory(d) == dropInflight(d)

KeepsMemory(d) ==
    IF inflight[d].kept
    THEN [inflight EXCEPT ![d].timedOut = TRUE, ![d].timer = FALSE]
    ELSE inflight

Failed(a) ==
    /\ a.result = "error" /\ jobs[a.d] # "meeting"
    /\ IF waitingAnchor(a.d) = "rescue" THEN UNCHANGED note
                                        ELSE Lands(a, "rescue")
    /\ IF a.file # None
       THEN /\ cache' = [cache EXCEPT ![a.d] = a.file]
            /\ inflight' = dropInflight(a.d)
       ELSE inflight' = KeepsMemory(a.d) /\ UNCHANGED cache
    /\ UNCHANGED jobs

finalText(a) ==
    IF a.result = "not refined" /\ jobs[a.d] = "edit" THEN "selection"
                                                      ELSE "text"

Succeeded(a) ==
    /\ a.result \in {"text", "not refined"}
    /\ Lands(a, finalText(a))
    /\ jobs' = [jobs EXCEPT ![a.d] = "none"]
    /\ inflight' = dropInflight(a.d)
    /\ cache' = [cache EXCEPT ![a.d] = None]

(* Mutant: the answered dictation stays pending. *)
StaysPending(d) == pending

Answered(d) == pending \ {d}

onVoiceResult(a) ==
    /\ a \in answers /\ a.result # "refused"
    /\ answers' = answers \ {a}
    /\ pending' = Answered(a.d)
    /\ MeetingFailed(a) \/ Failed(a) \/ Succeeded(a)
    /\ UNCHANGED <<recVars, reading, serverVars, asks, calls, acts,
                   edits, dropped, exempt>>

CallRefused(a) ==
    /\ a \in answers /\ a.result = "refused"
    /\ answers' = answers \ {a}
    /\ IF a.what = "meeting"
       THEN /\ pending' = pending \ {a.d}
            /\ removeMarker(a.d, "transcribing")
            /\ UNCHANGED inflight
       ELSE giveUpWaiting(a.d) /\ UNCHANGED <<pending, jobs>>
    /\ UNCHANGED <<recVars, reading, cache, serverVars, asks, calls,
                   acts, edits, dropped, exempt>>

-----------------------------------------------------------------------------
(* Clicks *)

Out(d) == \E r \in requests \cup answers : r.d = d

Asking(d) == \E a \in asks : a.d = d

(* Two calls about one dictation are out: the answer of one is taken for   *)
(* the other's.                                                            *)
Crosses(d) == IF Out(d) \/ Asking(d) THEN {d} ELSE {}

Retry(d) ==
    /\ Has(d, "rescue") /\ (cache[d] # None \/ inflight[d].audio)
    /\ replaceAnchor(d, "rescue", "transcribing")
    /\ pending' = pending \cup {d}
    /\ Remember(Armed(d, cache[d] = None))
    /\ Request(d, IF cache[d] = None THEN "audio" ELSE "cache", cache[d])
    /\ exempt' = exempt \cup Crosses(d)
    /\ UNCHANGED <<recVars, reading, jobs, cache, files, answers, asks,
                   acts, edits>>

Act == acts < MaxActs /\ acts' = acts + 1

Ask(d, what) ==
    /\ Act
    /\ Has(d, "rescue") /\ cache[d] # None
    /\ asks' = asks \cup {[d |-> d, what |-> what, file |-> cache[d],
                           pc |-> "asked"]}
    /\ UNCHANGED <<note, recVars, reading, pending, inflight, jobs, cache,
                   serverVars, answers, calls, edits, dropped, exempt>>

(* KeepVoiceCache copies the file and removes it, if it can; it fails      *)
(* without one, or when the copy cannot be written.  DiscardVoiceCache     *)
(* fails on a file it cannot remove, and finds nothing to do without one.  *)
Backend(a) ==
    /\ a \in asks /\ a.pc = "asked"
    /\ \E pc \in {"done", "failed"} :
          /\ asks' = (asks \ {a}) \cup {[a EXCEPT !.pc = pc]}
          /\ CASE pc = "failed" -> a.what = "keep" \/ a.file \in files
               [] pc = "done" -> a.what = "discard" \/ a.file \in files
          /\ \/ pc = "done" /\ files' = files \ {a.file}
             \/ (pc = "failed" \/ a.what = "keep") /\ UNCHANGED files
    /\ UNCHANGED <<note, recVars, reading, pending, inflight, jobs, cache,
                   requests, answers, calls, acts, edits, dropped, exempt>>

AskEnds(a) ==
    /\ a \in asks /\ a.pc # "asked"
    /\ asks' = asks \ {a}
    /\ CASE a.pc = "failed" -> UNCHANGED <<note, jobs, cache>>
         [] a.what = "keep" /\ a.pc = "done" ->
              /\ replaceAnchor(a.d, "rescue", "audio")
              /\ cache' = [cache EXCEPT ![a.d] = None]
              /\ UNCHANGED jobs
         [] OTHER ->
              /\ removeMarker(a.d, "rescue")
              /\ cache' = [cache EXCEPT ![a.d] = None]
    /\ UNCHANGED <<recVars, reading, pending, inflight, serverVars, answers,
                   calls, acts, edits, dropped, exempt>>

(* A recording the backend does not have is discarded at once.             *)
Discard(d) ==
    /\ Act
    /\ Has(d, "rescue") /\ cache[d] = None
    /\ removeMarker(d, "rescue")
    /\ UNCHANGED <<recVars, reading, pending, inflight, cache, serverVars,
                   answers, asks, calls, edits, dropped, exempt>>

Recoverable(d) == cache[d] # None \/ inflight[d].audio

(* A click elsewhere in the note. *)
sweepStaleTranscribing ==
    LET stale == {d \in Dictations : Has(d, "transcribing") /\ d \notin pending}
        shown(d) == IF Recoverable(d) THEN "rescue" ELSE markerReplacement(d)
    IN
    /\ stale # {}
    /\ note' = [d \in Dictations |->
                    IF d \in stale THEN Replaced(d, "transcribing", shown(d))
                                   ELSE note[d]]
    /\ jobs' = [d \in Dictations |->
                    IF d \in stale /\ ~Recoverable(d) THEN "none" ELSE jobs[d]]
    /\ UNCHANGED <<recVars, reading, pending, inflight, cache, serverVars,
                   answers, asks, calls, acts, edits, dropped, exempt>>

(* The user deletes a marker, and with it the way back to the selection.   *)
Removes(d, p) ==
    /\ Act
    /\ Has(d, p)
    /\ replaceAnchor(d, p, "nothing")
    /\ exempt' = exempt \cup {d}
    /\ UNCHANGED <<recVars, reading, pending, inflight, jobs, cache,
                   serverVars, answers, asks, calls, edits, dropped>>

(* What a restart cannot bring back: a recording that is not saved yet or  *)
(* whose path the page has not heard of, and the selection of an edit.     *)
Stranded(d) ==
    \/ Has(d, "recording") \/ Has(d, "transcribing") \/ Out(d) \/ Asking(d)
    \/ Has(d, "rescue") /\ (cache[d] = None \/ jobs[d] = "edit")

Restart ==
    /\ Act
    /\ exempt' = exempt \cup {d \in Dictations : Stranded(d)}
    /\ rec' = Idle /\ stopEvent' = FALSE
    /\ reading' = {} /\ pending' = {}
    /\ inflight' = [d \in Dictations |-> NoEntry] /\ jobs' = Forgotten
    /\ requests' = {} /\ answers' = {} /\ asks' = {}
    /\ UNCHANGED <<note, started, cache, files, calls, edits, dropped>>

-----------------------------------------------------------------------------
Page(d) == Send(d) \/ ReadFails(d) \/ TimesOut(d)

Recording == Start \/ StartMeeting \/ Stop \/ FinishMeeting \/ Abort
Server == \E r \in requests :
             \/ Refused(r) \/ ReadsCache(r) \/ RemovesCached(r) \/ Transcribed(r)
             \/ Panics(r) \/ Fails(r)
Delivery == \E a \in answers : onVoiceResult(a) \/ CallRefused(a)
Asked == \E a \in asks : Backend(a) \/ AskEnds(a)
User ==
    \/ \E d \in Dictations :
          \/ Retry(d) \/ Discard(d)
          \/ \E what \in {"keep", "discard"} : Ask(d, what)
          \/ \E p \in Markers : Removes(d, p)
    \/ sweepStaleTranscribing \/ Restart

Next ==
    \/ Recording \/ onRecorderStop \/ \E d \in Dictations : Page(d)
    \/ Server \/ Delivery \/ Asked \/ User

Spec == Init /\ [][Next]_vars

(* Timers fire and a recording is read or not. *)
FairSpec == Spec /\ \A d \in Dictations : WF_vars(Page(d))

-----------------------------------------------------------------------------
(* Properties *)

(* However often a dictation is sent again, and however late the answers   *)
(* of given-up requests come, its text gets into the note at most once     *)
(* (pending in __onVoiceResult), unless its entry had to make room: the    *)
(* page then no longer knows which marker waits.                           *)
LandsOnce == \A d \in Dictations \ dropped : note[d]["text"] <= 1

(* A retry marker leads to a recording: in memory, in the voice cache      *)
(* under the path the page knows, or on its way to there.  Exempt are      *)
(* dictations with two calls out at once, those a restart stranded, those  *)
(* whose recording had to make room, and a panic of the second stage.      *)
RescueWorks ==
    \A d \in Dictations \ (exempt \cup dropped) :
        Has(d, "rescue") => cache[d] \in files \/ inflight[d].audio
                            \/ Out(d) \/ Asking(d)

(* The selection a spoken edit took out of the note is never lost: it is   *)
(* in the note, or replaced by the text, or behind a marker the page can   *)
(* put it back from.  Exempt as above, and when the marker gave way to the *)
(* link of the kept recording.                                             *)
SelectionKept ==
    \A d \in edits \ (exempt \cup dropped) :
        \/ Has(d, "selection") \/ Has(d, "text") \/ Has(d, "audio")
        \/ jobs[d] = "edit" /\ \E p \in Markers : Has(d, p)

(* A dictation does not stay "Transcribing": a lost or refused request or  *)
(* a recording that cannot be read ends in text, a retry marker or nothing *)
(* (the watchdog).  A meeting has no watchdog, nor has a recording that    *)
(* had to make room for others.                                            *)
NoteFreed ==
    \A d \in Dictations :
        Has(d, "transcribing") /\ jobs[d] # "meeting"
            ~> ~Has(d, "transcribing") \/ d \in exempt \cup dropped
=============================================================================
