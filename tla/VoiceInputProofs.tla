-------------------------- MODULE VoiceInputProofs --------------------------
(***************************************************************************)
(* Machine-checked, for every number of dictations, requests, clicks and   *)
(* restarts and any room for recordings and jobs, however late the answers *)
(* of given-up requests come: of a dictation whose entries did not have to *)
(* make room the text gets into the note at most once, a retry marker      *)
(* leads to the recording, and the selection of a spoken edit is kept.     *)
(***************************************************************************)
EXTENDS VoiceInput, TLAPS

USE VoiceAssumption DEF VoiceAssumption

NoteType == [Dictations -> [Pieces -> Nat]]
RecType == [on : BOOLEAN, meeting : BOOLEAN, stopping : BOOLEAN,
            aborting : BOOLEAN, id : Dictations \cup {None}]
JobType == [Dictations -> Kinds \cup {"none"}]
RequestType == [n : Requests, d : Dictations, file : Files, what : Calls]
AnswerType == [n : Requests, d : Dictations, file : Files, what : Calls,
               result : {"refused", "text", "not refined", "error"}]
AskType == [d : Dictations, what : {"keep", "discard"}, file : Files,
            pc : {"asked", "done", "failed"}]

\* TypeOK, with names for its sets.
Types ==
    /\ note \in NoteType
    /\ started \in Dictations \cup {None} /\ rec \in RecType /\ stopEvent \in BOOLEAN
    /\ reading \subseteq Dictations /\ pending \subseteq Dictations
    /\ inflight \in [Dictations -> Entries] /\ jobs \in JobType
    /\ cache \in [Dictations -> Files] /\ files \subseteq Requests
    /\ requests \subseteq RequestType /\ answers \subseteq AnswerType
    /\ asks \subseteq AskType
    /\ calls \in Requests \cup {0} /\ acts \in 0..MaxActs
    /\ edits \subseteq Dictations /\ dropped \subseteq Dictations
    /\ exempt \subseteq Dictations

LEMMA TypeParts == Types <=> TypeOK
  BY DEF Types, TypeOK, NoteType, RecType, JobType, Calls, RequestType,
         AnswerType, AskType

\* The recording under way, or stopped and not handed over yet, is d's.
Live(d) == rec.id = d /\ (rec.on \/ (stopEvent /\ ~rec.aborting))

\* A call about d is out: of a meeting, or of a recording.
MeetingOut(d) == \E r \in requests \cup answers : r.d = d /\ r.what = "meeting"
OtherOut(d) == \E r \in requests \cup answers : r.d = d /\ r.what # "meeting"
Quiet(d) == ~MeetingOut(d) /\ ~OtherOut(d)

Untouched(d) == d \notin pending /\ d \notin reading /\ ~inflight[d].kept

Marks(d) == note[d]["recording"] + note[d]["transcribing"] + note[d]["rescue"]

RecInv ==
    /\ rec.meeting => rec.on /\ ~stopEvent
    /\ rec.on \/ stopEvent => rec.id \in 1..started

MeetingFiles == \A a \in answers : a.what = "meeting" => a.file = None

NotStarted(d) ==
    /\ Untouched(d) /\ Quiet(d) /\ ~Asking(d)
    /\ Marks(d) = 0 /\ note[d]["text"] = 0 /\ cache[d] = None

BeingRecorded(d) ==
    /\ Untouched(d) /\ Quiet(d) /\ ~Asking(d)
    /\ note[d]["transcribing"] = 0 /\ note[d]["rescue"] = 0 /\ note[d]["text"] = 0
    /\ rec.meeting <=> jobs[d] = "meeting"

\* What an answer of d may assume of the note: the marker it replaces is the
\* only one, and no text has come yet.
Waiting(d) ==
    /\ note[d]["text"] = 0
    /\ note[d]["transcribing"] > 0 => ~inflight[d].timedOut
    /\ note[d]["rescue"] > 0 => inflight[d].timedOut

Dictation(d) ==
    /\ Marks(d) <= 1 /\ note[d]["text"] <= 1
    /\ d > started => NotStarted(d)
    /\ Live(d) => BeingRecorded(d)
    /\ note[d]["recording"] > 0 => Untouched(d) /\ note[d]["text"] = 0
    /\ d \in pending => Waiting(d)
    /\ note[d]["text"] > 0 => Untouched(d) /\ Marks(d) = 0
    /\ d \in reading =>
         d \in pending /\ ~inflight[d].kept /\ note[d]["rescue"] = 0 /\ Quiet(d)
    /\ inflight[d].kept /\ ~inflight[d].timedOut =>
         d \in pending /\ note[d]["rescue"] = 0
    /\ jobs[d] = "meeting" =>
         /\ ~inflight[d].kept /\ d \notin reading /\ ~Asking(d)
         /\ note[d]["rescue"] = 0 /\ cache[d] = None
    /\ MeetingOut(d) =>
         /\ ~OtherOut(d) /\ ~inflight[d].kept /\ d \notin reading
         /\ note[d]["rescue"] = 0 /\ cache[d] = None
         /\ d \in pending => jobs[d] = "meeting"
    /\ inflight[d].timedOut \/ inflight[d].audio => inflight[d].kept

VoiceInv ==
    /\ Types /\ RecInv /\ MeetingFiles
    /\ \A d \in Dictations \ dropped : Dictation(d)

-----------------------------------------------------------------------------
(* The steps that change nothing of d keep its part of the invariant.      *)

Same(d) ==
    /\ d \in dropped => d \in dropped'
    /\ d \notin dropped' => inflight'[d] = inflight[d] /\ jobs'[d] = jobs[d]
    /\ note'[d] = note[d] /\ cache'[d] = cache[d]
    /\ d \in pending' <=> d \in pending
    /\ d \in reading' <=> d \in reading
    /\ d > started' => d > started
    /\ Live(d)' => Live(d) /\ rec'.meeting = rec.meeting
    /\ MeetingOut(d)' => MeetingOut(d)
    /\ OtherOut(d)' => OtherOut(d)
    /\ Asking(d)' => Asking(d)

LEMMA Frame ==
  ASSUME NEW d \in Dictations \ dropped', Dictation(d), Same(d) PROVE Dictation(d)'
  <1>1. Marks(d)' = Marks(d) /\ (Waiting(d) => Waiting(d)')
    BY DEF Same, Marks, Waiting
  <1>2. Untouched(d) => Untouched(d)'
    BY DEF Same, Untouched
  <1>3. Quiet(d) => Quiet(d)'
    BY DEF Same, Quiet
  <1>4. NotStarted(d) => NotStarted(d)'
    BY <1>1, <1>2, <1>3 DEF Same, NotStarted
  <1>5. Live(d)' /\ BeingRecorded(d) => BeingRecorded(d)'
    BY <1>2, <1>3 DEF Same, BeingRecorded
  <1> QED BY <1>1, <1>2, <1>3, <1>4, <1>5 DEF Same, Dictation

LEMMA NoneOfThree ==
  ASSUME NEW x \in Nat, NEW y \in Nat, NEW z \in Nat, x + y + z = 0
  PROVE  x = 0 /\ y = 0 /\ z = 0
  OBVIOUS

LEMMA PieceFacts ==
  /\ Pieces = {"recording", "transcribing", "rescue", "text", "selection", "audio"}
  /\ Markers = {"recording", "transcribing", "rescue"}
  BY DEF Pieces, Markers

\* What a replacement does to the pieces of its dictation, and to no other.
LEMMA Initial == Init => VoiceInv
  <1> SUFFICES ASSUME Init PROVE VoiceInv
    OBVIOUS
  <1> USE PieceFacts
  <1>1. Types
    <2>1. note \in NoteType
      BY DEF Init, NoteType
    <2>2. inflight \in [Dictations -> Entries] /\ jobs \in JobType
      BY DEF Init, NoEntry, Entries, Forgotten, JobType
    <2>3. rec \in RecType
      BY DEF Init, Idle, RecType
    <2>4. cache \in [Dictations -> Files] /\ files \subseteq Requests
      BY DEF Init, Files
    <2>5. /\ started \in Dictations \cup {None} /\ stopEvent \in BOOLEAN
          /\ calls \in Requests \cup {0} /\ acts \in 0..MaxActs
      <3>1. started = 0 /\ stopEvent = FALSE /\ calls = 0 /\ acts = 0
        BY DEF Init
      <3>2. 0 \in 0..MaxActs
        OBVIOUS
      <3> QED BY <3>1, <3>2 DEF None
    <2>6. /\ reading = {} /\ pending = {} /\ requests = {} /\ answers = {}
          /\ asks = {} /\ edits = {} /\ dropped = {} /\ exempt = {}
      BY DEF Init
    <2> QED BY <2>1, <2>2, <2>3, <2>4, <2>5, <2>6 DEF Types
  <1>2. RecInv /\ MeetingFiles
    BY DEF Init, RecInv, MeetingFiles, Idle
  <1>3. \A d \in Dictations \ dropped : Dictation(d)
    <2> SUFFICES ASSUME NEW d \in Dictations PROVE Dictation(d)
      OBVIOUS
    <2>1. Quiet(d) /\ ~MeetingOut(d) /\ ~OtherOut(d) /\ ~Asking(d) /\ ~Live(d)
      BY DEF Init, Quiet, MeetingOut, OtherOut, Asking, Live, Idle
    <2>2. Untouched(d) /\ Marks(d) = 0
      BY DEF Init, Untouched, Marks, NoEntry
    <2> QED BY <2>1, <2>2 DEF Init, Dictation, NotStarted, NoEntry, Forgotten, None
  <1> QED BY <1>1, <1>2, <1>3 DEF VoiceInv

LEMMA NoteStep ==
  ASSUME note \in NoteType, NEW e \in Dictations,
         NEW old \in Pieces \cup {"nothing"}, NEW new \in Pieces \cup {"nothing"},
         replaceAnchor(e, old, new)
  PROVE  /\ note' \in NoteType
         /\ \A d \in Dictations \ {e} : note'[d] = note[d]
         /\ \A p \in Pieces :
               note'[e][p] = note[e][p] + (IF p = new THEN 1 ELSE 0)
                             - (IF p = old /\ note[e][p] > 0 THEN 1 ELSE 0)
  <1>1. \A p \in Pieces : note[e][p] \in Nat
    BY DEF NoteType
  <1>2. Replaced(e, old, new) \in [Pieces -> Nat]
    BY <1>1 DEF Replaced, Has
  <1>3. \A p \in Pieces :
           Replaced(e, old, new)[p] = note[e][p] + (IF p = new THEN 1 ELSE 0)
                                - (IF p = old /\ note[e][p] > 0 THEN 1 ELSE 0)
    BY <1>1 DEF Replaced, Has
  <1>4. note' = [note EXCEPT ![e] = Replaced(e, old, new)]
    BY DEF replaceAnchor
  <1>5. note'[e] = Replaced(e, old, new)
    BY <1>4 DEF NoteType
  <1>6. note' \in NoteType
    BY <1>2, <1>4 DEF NoteType
  <1>7. \A d \in Dictations \ {e} : note'[d] = note[d]
    BY <1>4 DEF NoteType
  <1> QED BY <1>3, <1>5, <1>6, <1>7

LEMMA Counts ==
  ASSUME note \in NoteType, NEW d \in Dictations
  PROVE  /\ note[d]["recording"] \in Nat /\ note[d]["transcribing"] \in Nat
         /\ note[d]["rescue"] \in Nat /\ note[d]["text"] \in Nat
  <1>1. note[d] \in [Pieces -> Nat]
    BY DEF NoteType
  <1> QED BY <1>1, PieceFacts

\* The four counts the invariant speaks of, after a replacement.
Becomes(e, recording, transcribing, rescue, text) ==
    /\ note'[e]["recording"] = recording /\ note'[e]["transcribing"] = transcribing
    /\ note'[e]["rescue"] = rescue /\ note'[e]["text"] = text

LEMMA MarkerReplacementType ==
  ASSUME NEW d PROVE markerReplacement(d) \in {"selection", "nothing"}
  BY DEF markerReplacement

\* A step that touches the dictation e at most.
LEMMA Touch ==
  ASSUME VoiceInv, NEW e, Types', RecInv', MeetingFiles',
         \A d \in Dictations \ {e} : Same(d),
         e \in Dictations \ dropped' => Dictation(e)'
  PROVE  VoiceInv'
  <1>1. ASSUME NEW d \in Dictations \ dropped' PROVE Dictation(d)'
    <2>1. CASE d = e
      BY <2>1
    <2>2. CASE d # e
      <3>1. Same(d) /\ d \notin dropped
        BY <2>2 DEF Same
      <3> QED BY <3>1, Frame DEF VoiceInv
    <2> QED BY <2>1, <2>2
  <1> QED BY <1>1 DEF VoiceInv

LEMMA TouchNone ==
  ASSUME VoiceInv, Types', RecInv', MeetingFiles', \A d \in Dictations : Same(d)
  PROVE  VoiceInv'
  <1>1. PICK e : e \notin Dictations
    BY DEF Dictations
  <1> QED BY <1>1, Touch

-----------------------------------------------------------------------------
(* The backend *)

\* The calls that are out are those of before, of the same dictations.
LEMMA SameCalls ==
  ASSUME VoiceInv, Types', MeetingFiles',
         \A q \in requests' \cup answers' : \E r \in requests \cup answers :
            q.d = r.d /\ (q.what = "meeting" <=> r.what = "meeting"),
         UNCHANGED <<note, recVars, reading, pending, inflight, jobs, cache, asks,
                     dropped>>
  PROVE  VoiceInv'
  <1>1. \A d \in Dictations : Same(d)
    BY DEF Same, Live, MeetingOut, OtherOut, Asking, recVars
  <1>2. RecInv'
    BY DEF VoiceInv, RecInv, recVars
  <1> QED BY <1>1, <1>2, TouchNone

LEMMA RefusedStep == ASSUME VoiceInv, NEW r \in requests, Refused(r) PROVE VoiceInv'
  <1> DEFINE a == [n |-> r.n, d |-> r.d, result |-> "refused", what |-> r.what,
                   file |-> None]
  <1>1. requests' = requests \ {r} /\ answers' = answers \cup {a}
    BY DEF Refused, Ended, Answer
  <1>2. r \in RequestType
    BY DEF VoiceInv, Types
  <1>3. a \in AnswerType
    BY <1>2 DEF RequestType, AnswerType, Files, None
  <1>4. a.d = r.d /\ a.what = r.what /\ a.file = None
    OBVIOUS
  <1> HIDE DEF a
  <1>5. Types' /\ MeetingFiles'
    BY <1>1, <1>3, <1>4 DEF Refused, VoiceInv, Types, MeetingFiles, recVars
  <1>6. \A q \in requests' \cup answers' : \E p \in requests \cup answers :
           q.d = p.d /\ (q.what = "meeting" <=> p.what = "meeting")
    BY <1>1, <1>4
  <1> QED BY <1>5, <1>6, SameCalls DEF Refused

LEMMA ReadsCacheStep ==
  ASSUME VoiceInv, NEW r \in requests, ReadsCache(r) PROVE VoiceInv'
  <1> DEFINE a == [n |-> r.n, d |-> r.d, result |-> "error", what |-> r.what,
                   file |-> r.file]
             read == [r EXCEPT !.what = "cache read"]
  <1>1. \/ requests' = (requests \ {r}) \cup {read} /\ answers' = answers
        \/ requests' = requests \ {r} /\ answers' = answers \cup {a}
    BY DEF ReadsCache, Ended, Answer
  <1>2. r \in RequestType /\ r.what = "cache"
    BY DEF VoiceInv, Types, ReadsCache
  <1>3. a \in AnswerType /\ read \in RequestType
    BY <1>2 DEF RequestType, AnswerType, Calls
  <1>4. /\ a.d = r.d /\ a.what = "cache"
        /\ read.d = r.d /\ read.what = "cache read"
    BY <1>2 DEF RequestType
  <1> HIDE DEF a, read
  <1>5. Types' /\ MeetingFiles'
    BY <1>1, <1>3, <1>4 DEF ReadsCache, VoiceInv, Types, MeetingFiles, recVars
  <1>6. \A q \in requests' \cup answers' : \E p \in requests \cup answers :
           q.d = p.d /\ (q.what = "meeting" <=> p.what = "meeting")
    BY <1>1, <1>2, <1>4
  <1> QED BY <1>5, <1>6, SameCalls DEF ReadsCache

LEMMA AnsweredStep ==
  ASSUME VoiceInv, NEW r \in requests, Transcribed(r) \/ Panics(r) \/ Fails(r)
  PROVE  VoiceInv'
  <1>1. PICK result \in {"text", "not refined", "error"}, file \in Files :
           /\ Answer(r, result, file)
           /\ (r.what = "meeting" => file = None)
           /\ files' \subseteq files \cup (Files \ {None})
    <2>1. r \in RequestType
      BY DEF VoiceInv, Types
    <2>2. CASE Transcribed(r)
      BY <2>2 DEF Transcribed, Files, None
    <2>3. CASE Fails(r)
      BY <2>1, <2>3 DEF Fails, RequestType, Files, None, Calls
    <2>4. CASE Panics(r)
      BY <2>1, <2>4 DEF Panics, RequestType
    <2> QED BY <2>2, <2>3, <2>4
  <1> DEFINE a == [n |-> r.n, d |-> r.d, result |-> result, what |-> r.what,
                   file |-> file]
  <1>2. requests' = requests \ {r} /\ answers' = answers \cup {a}
    BY <1>1 DEF Transcribed, Panics, Fails, Ended, Answer
  <1>3. r \in RequestType
    BY DEF VoiceInv, Types
  <1>4. a \in AnswerType
    BY <1>1, <1>3 DEF RequestType, AnswerType
  <1>5. a.d = r.d /\ a.what = r.what /\ (a.what = "meeting" => a.file = None)
    BY <1>1
  <1> HIDE DEF a
  <1>6. files' \subseteq Requests
    BY <1>1 DEF VoiceInv, Types, Files
  <1>7. Types' /\ MeetingFiles'
    <2>1. r.d \in Dictations
      BY <1>3 DEF RequestType
    <2> QED BY <1>2, <1>4, <1>5, <1>6, <2>1
            DEF Transcribed, Panics, Fails, VoiceInv, Types, MeetingFiles, recVars
  <1>8. \A q \in requests' \cup answers' : \E p \in requests \cup answers :
           q.d = p.d /\ (q.what = "meeting" <=> p.what = "meeting")
    BY <1>2, <1>5
  <1> QED BY <1>7, <1>8, SameCalls DEF Transcribed, Panics, Fails

LEMMA RemovesCachedStep ==
  ASSUME VoiceInv, NEW r \in requests, RemovesCached(r) PROVE VoiceInv'
  <1> DEFINE refine == [r EXCEPT !.what = "cache refine"]
  <1>1. requests' = (requests \ {r}) \cup {refine} /\ answers' = answers
    BY DEF RemovesCached
  <1>2. r \in RequestType /\ r.what = "cache read"
    BY DEF VoiceInv, Types, RemovesCached
  <1>3. refine \in RequestType /\ refine.d = r.d /\ refine.what = "cache refine"
    BY <1>2 DEF RequestType, Calls
  <1> HIDE DEF refine
  <1>4. Types' /\ MeetingFiles'
    BY <1>1, <1>3 DEF RemovesCached, VoiceInv, Types, MeetingFiles, recVars
  <1>5. \A q \in requests' \cup answers' : \E p \in requests \cup answers :
           q.d = p.d /\ (q.what = "meeting" <=> p.what = "meeting")
    BY <1>1, <1>2, <1>3
  <1> QED BY <1>4, <1>5, SameCalls DEF RemovesCached

\* Save audio and Discard in the backend.
LEMMA BackendStep == ASSUME VoiceInv, NEW a \in asks, Backend(a) PROVE VoiceInv'
  <1>1. PICK pc \in {"done", "failed"} :
           asks' = (asks \ {a}) \cup {[a EXCEPT !.pc = pc]}
    BY DEF Backend
  <1>2. a \in AskType
    BY DEF VoiceInv, Types
  <1>3. [a EXCEPT !.pc = pc] \in AskType /\ [a EXCEPT !.pc = pc].d = a.d
    BY <1>2 DEF AskType
  <1>4. Types'
    BY <1>1, <1>3 DEF Backend, VoiceInv, Types, recVars
  <1>5. RecInv' /\ MeetingFiles'
    BY DEF Backend, VoiceInv, RecInv, MeetingFiles, recVars
  <1>6. \A d \in Dictations : Asking(d)' => Asking(d)
    BY <1>1, <1>3 DEF Asking
  <1>7. \A d \in Dictations : Same(d)
    BY <1>6 DEF Backend, Same, Live, MeetingOut, OtherOut, recVars
  <1> QED BY <1>4, <1>5, <1>7, TouchNone

-----------------------------------------------------------------------------
(* Recording *)

LEMMA BeginsStep ==
  ASSUME VoiceInv, NEW kind \in Kinds, NEW replaced \in {"nothing", "selection"},
         Begins(kind, replaced)
  PROVE  VoiceInv'
  <1>0. PICK e \in Dictations : e = started + 1
    BY DEF Begins, VoiceInv, Types, Dictations, None
  <1>1. e \in Dictations /\ e = started + 1 /\ started \in Nat /\ started' = e
    BY <1>0 DEF Begins, VoiceInv, Types, Dictations, None
  <1> DEFINE J == [jobs EXCEPT ![e] = kind]
  <1>A. /\ replaceAnchor(e, replaced, "recording")
        /\ jobs' = [c \in Dictations |-> IF c \in Surplus(J) THEN "none" ELSE J[c]]
        /\ dropped' = dropped \cup Surplus(J)
        /\ edits' \subseteq edits \cup {e}
    BY <1>1 DEF Begins
  <1>B. Surplus(J) \subseteq Dictations
    BY DEF Surplus
  <1>2. /\ note' \in NoteType
        /\ \A d \in Dictations \ {e} : note'[d] = note[d]
        /\ Becomes(e, note[e]["recording"] + 1, note[e]["transcribing"],
                   note[e]["rescue"], note[e]["text"])
    BY <1>1, <1>A, NoteStep, PieceFacts, Counts DEF VoiceInv, Types, Becomes
  <1>3. /\ rec' \in RecType /\ rec'.on /\ rec'.id = e /\ ~stopEvent /\ ~rec.on
        /\ rec'.meeting <=> kind = "meeting"
    BY <1>1 DEF Begins, RecType, Idle
  <1>4. /\ jobs' \in JobType /\ (e \notin dropped' => jobs'[e] = kind)
        /\ \A d \in Dictations \ {e} : d \notin dropped' => jobs'[d] = jobs[d]
    <2>1. J \in JobType /\ J[e] = kind /\ \A d \in Dictations \ {e} : J[d] = jobs[d]
      BY <1>1 DEF JobType, VoiceInv, Types, Kinds
    <2> HIDE DEF J
    <2> QED BY <1>1, <1>A, <2>1 DEF JobType
  <1> HIDE DEF J
  <1>5. Types'
    <2>1. edits' \subseteq Dictations /\ dropped' \subseteq Dictations
      BY <1>1, <1>A, <1>B DEF VoiceInv, Types
    <2> QED BY <1>1, <1>2, <1>3, <1>4, <2>1 DEF Begins, VoiceInv, Types, serverVars
  <1>6. RecInv' /\ MeetingFiles'
    BY <1>1, <1>3 DEF Begins, VoiceInv, RecInv, MeetingFiles, Dictations
  <1>7. \A d \in Dictations \ {e} : Same(d)
    <2> SUFFICES ASSUME NEW d \in Dictations \ {e} PROVE Same(d)
      OBVIOUS
    <2>1. /\ d \notin dropped' => jobs'[d] = jobs[d]
          /\ d > started' => d > started
          /\ d \in dropped => d \in dropped'
      BY <1>1, <1>4, <1>A DEF Dictations
    <2>2. ~Live(d)'
      BY <1>3 DEF Begins, Live
    <2> QED BY <1>2, <2>1, <2>2
            DEF Begins, Same, MeetingOut, OtherOut, Asking, serverVars
  <1> SUFFICES ASSUME e \notin dropped' PROVE Dictation(e)'
    BY <1>5, <1>6, <1>7, Touch
  <1>8. Dictation(e) /\ e > started
    BY <1>1, <1>A DEF VoiceInv, Dictations
  <1>9. NotStarted(e)
    BY <1>8 DEF Dictation
  <1>10. Quiet(e)' /\ ~MeetingOut(e)' /\ ~Asking(e)' /\ Untouched(e)'
    BY <1>9 DEF Begins, NotStarted, Quiet, MeetingOut, OtherOut, Asking,
                Untouched, serverVars
  <1>11. /\ Marks(e)' = 1 /\ note'[e]["text"] = 0
         /\ note'[e]["transcribing"] = 0 /\ note'[e]["rescue"] = 0
    <2>1. note \in NoteType
      BY DEF VoiceInv, Types
    <2>2. /\ note[e]["recording"] = 0 /\ note[e]["transcribing"] = 0
          /\ note[e]["rescue"] = 0 /\ note[e]["text"] = 0
      <3>1. /\ note[e]["recording"] \in Nat /\ note[e]["transcribing"] \in Nat
            /\ note[e]["rescue"] \in Nat /\ note[e]["text"] \in Nat
        BY <2>1, Counts
      <3>2. Marks(e) = 0 /\ note[e]["text"] = 0
        BY <1>9 DEF NotStarted
      <3>3. note[e]["recording"] + note[e]["transcribing"] + note[e]["rescue"] = 0
        BY <3>2 DEF Marks
      <3> QED BY <3>1, <3>2, <3>3, NoneOfThree
    <2>3. /\ note'[e]["recording"] = 1 /\ note'[e]["transcribing"] = 0
          /\ note'[e]["rescue"] = 0 /\ note'[e]["text"] = 0
      BY <1>2, <2>2 DEF Becomes
    <2> QED BY <2>3 DEF Marks
  <1>12. BeingRecorded(e)'
    BY <1>3, <1>4, <1>10, <1>11 DEF BeingRecorded
  <1>13. e \notin pending' /\ e \notin reading' /\ ~inflight'[e].kept
        /\ cache'[e] = None
    BY <1>9, <1>10 DEF Untouched, NotStarted, Begins
  <1>14. ~(e > started')
    BY <1>1 DEF Dictations
  <1>15. ~inflight'[e].timedOut /\ ~inflight'[e].audio
    BY <1>8, <1>13 DEF Dictation, Begins
  <1> QED BY <1>10, <1>11, <1>12, <1>13, <1>14, <1>15 DEF Dictation

LEMMA StopStep == ASSUME VoiceInv, Stop PROVE VoiceInv'
  <1>1. /\ rec' \in RecType /\ rec'.on = rec.on /\ rec'.meeting = rec.meeting
        /\ rec'.id = rec.id /\ rec'.aborting = rec.aborting
    BY DEF Stop, VoiceInv, Types, RecType
  <1>2. Types'
    BY <1>1 DEF Stop, VoiceInv, Types, serverVars
  <1>3. RecInv' /\ MeetingFiles'
    BY <1>1 DEF Stop, VoiceInv, RecInv, MeetingFiles
  <1>4. \A d \in Dictations : Same(d)
    BY <1>1 DEF Stop, Same, Live, MeetingOut, OtherOut, Asking, serverVars
  <1> QED BY <1>2, <1>3, <1>4, TouchNone

\* The dictation whose recording ends is one that was being recorded.
LEMMA Recorded ==
  ASSUME VoiceInv, NEW e \in Dictations \ dropped, Live(e)
  PROVE  /\ BeingRecorded(e) /\ ~(e > started)
         /\ note[e]["recording"] \in {0, 1}
         /\ note[e]["transcribing"] = 0 /\ note[e]["rescue"] = 0 /\ note[e]["text"] = 0
  <1>1. Dictation(e) /\ BeingRecorded(e)
    BY DEF VoiceInv, Dictation
  <1>2. /\ note[e]["recording"] \in Nat /\ note[e]["transcribing"] = 0
        /\ note[e]["rescue"] = 0 /\ note[e]["text"] = 0
    BY <1>1, Counts DEF VoiceInv, Types, BeingRecorded
  <1>3. note[e]["recording"] <= 1
    BY <1>1, <1>2 DEF Dictation, Marks
  <1>4. Untouched(e) /\ rec.id = e /\ (rec.on \/ stopEvent)
    BY <1>1 DEF BeingRecorded, Live
  <1>5. ~(e > started)
    BY <1>4 DEF VoiceInv, RecInv, Types, Dictations, None
  <1> QED BY <1>1, <1>2, <1>3, <1>5

LEMMA NextCall ==
  ASSUME VoiceInv, calls < MaxRequests PROVE calls + 1 \in Requests
  <1>1. calls \in 1..MaxRequests \cup {0}
    BY DEF VoiceInv, Types, Requests
  <1> QED BY <1>1 DEF Requests

LEMMA FinishMeetingStep == ASSUME VoiceInv, FinishMeeting PROVE VoiceInv'
  <1>1. PICK e \in Dictations : e = rec.id
    BY DEF FinishMeeting, VoiceInv, RecInv, Types, Dictations, None
  <1>2. Live(e) /\ ~stopEvent
    BY <1>1 DEF FinishMeeting, Live, VoiceInv, RecInv
  <1>3. e \notin dropped =>
        /\ BeingRecorded(e) /\ ~(e > started)
        /\ note[e]["recording"] \in {0, 1}
        /\ note[e]["transcribing"] = 0 /\ note[e]["rescue"] = 0 /\ note[e]["text"] = 0
    BY <1>2, Recorded
  <1>4. /\ note' \in NoteType
        /\ \A d \in Dictations \ {e} : note'[d] = note[d]
        /\ e \notin dropped => Becomes(e, 0, 1, 0, 0)
    BY <1>1, <1>3, NoteStep, PieceFacts DEF FinishMeeting, VoiceInv, Types, Becomes
  <1>5. /\ rec' \in RecType /\ rec'.on = FALSE /\ rec'.meeting = FALSE /\ rec'.id = e
    BY <1>1 DEF FinishMeeting, VoiceInv, Types, RecType
  <1> DEFINE r == [n |-> calls + 1, d |-> e, what |-> "meeting", file |-> None]
  <1>6. requests' = requests \cup {r} /\ calls' = calls + 1 /\ calls < MaxRequests
    BY <1>1 DEF FinishMeeting, Request
  <1>7. r \in RequestType /\ calls + 1 \in Requests
    BY <1>6, NextCall DEF RequestType, Files, None, Calls
  <1>8. r.d = e /\ r.what = "meeting"
    OBVIOUS
  <1> HIDE DEF r
  <1>9. Types'
    BY <1>1, <1>4, <1>5, <1>6, <1>7 DEF FinishMeeting, VoiceInv, Types
  <1>10. RecInv' /\ MeetingFiles'
    BY <1>2, <1>5 DEF FinishMeeting, VoiceInv, RecInv, MeetingFiles
  <1>11. \A d \in Dictations \ {e} : Same(d)
    BY <1>1, <1>4, <1>5, <1>6, <1>8
       DEF FinishMeeting, Same, Live, MeetingOut, OtherOut, Asking
  <1>12. ASSUME e \notin dropped' PROVE Dictation(e)'
    <2>0. e \notin dropped
      BY <1>12 DEF FinishMeeting
    <2>1. ~OtherOut(e)' /\ ~Asking(e)' /\ ~Live(e)'
      BY <1>2, <1>3, <1>5, <1>6, <1>8, <2>0
         DEF FinishMeeting, BeingRecorded, Quiet, OtherOut, Asking, Live
    <2>2. /\ e \notin reading' /\ ~inflight'[e].kept /\ ~inflight'[e].timedOut
          /\ ~inflight'[e].audio /\ jobs'[e] = "meeting" /\ cache'[e] = None
          /\ ~(e > started')
      BY <1>1, <1>3, <2>0 DEF FinishMeeting, BeingRecorded, Untouched, VoiceInv, Dictation
    <2> QED BY <1>4, <2>0, <2>1, <2>2 DEF Dictation, Becomes, Marks, Waiting
  <1> QED BY <1>9, <1>10, <1>11, <1>12, Touch

LEMMA AbortStep == ASSUME VoiceInv, Abort PROVE VoiceInv'
  <1>1. PICK e \in Dictations : e = rec.id
    BY DEF Abort, VoiceInv, RecInv, Types, Dictations, None
  <1>2. Live(e)
    BY <1>1 DEF Abort, Live
  <1>3. e \notin dropped =>
        /\ BeingRecorded(e) /\ ~(e > started)
        /\ note[e]["recording"] \in {0, 1}
        /\ note[e]["transcribing"] = 0 /\ note[e]["rescue"] = 0 /\ note[e]["text"] = 0
    BY <1>2, Recorded
  <1>4. /\ note' \in NoteType
        /\ \A d \in Dictations \ {e} : note'[d] = note[d]
        /\ e \notin dropped => Becomes(e, 0, 0, 0, 0)
    BY <1>1, <1>3, NoteStep, PieceFacts, MarkerReplacementType
       DEF Abort, removeMarker, VoiceInv, Types, Becomes
  <1>5. /\ rec' \in RecType /\ rec'.on = FALSE /\ rec'.meeting = FALSE /\ rec'.id = e
        /\ rec'.aborting = ~rec.meeting /\ stopEvent' = ~rec.meeting
    BY <1>1 DEF Abort, VoiceInv, Types, RecType
  <1>6. jobs' \in JobType /\ jobs'[e] = "none" /\ \A d \in Dictations \ {e} : jobs'[d] = jobs[d]
    BY <1>1 DEF Abort, removeMarker, VoiceInv, Types, JobType
  <1>7. Types'
    BY <1>1, <1>4, <1>5, <1>6 DEF Abort, VoiceInv, Types, serverVars, RecType
  <1>8. RecInv' /\ MeetingFiles'
    BY <1>2, <1>5 DEF Abort, VoiceInv, RecInv, MeetingFiles
  <1>9. \A d \in Dictations \ {e} : Same(d)
    BY <1>1, <1>4, <1>5, <1>6
       DEF Abort, Same, Live, MeetingOut, OtherOut, Asking, serverVars
  <1>10. ASSUME e \notin dropped' PROVE Dictation(e)'
    <2>0. e \notin dropped
      BY <1>10 DEF Abort
    <2>1. ~OtherOut(e)' /\ ~MeetingOut(e)' /\ ~Asking(e)' /\ ~Live(e)'
      BY <1>3, <1>5, <2>0
         DEF Abort, BeingRecorded, Quiet, OtherOut, MeetingOut, Asking, Live, serverVars
    <2>2. /\ e \notin reading' /\ e \notin pending' /\ ~inflight'[e].kept
          /\ ~inflight'[e].timedOut /\ ~inflight'[e].audio /\ ~(e > started')
      BY <1>1, <1>3, <2>0 DEF Abort, BeingRecorded, Untouched, VoiceInv, Dictation
    <2> QED BY <1>4, <1>6, <2>0, <2>1, <2>2 DEF Dictation, Becomes, Marks
  <1> QED BY <1>7, <1>8, <1>9, <1>10, Touch

LEMMA RecorderStopStep == ASSUME VoiceInv, onRecorderStop PROVE VoiceInv'
  <1>1. PICK e \in Dictations : e = rec.id
    BY DEF onRecorderStop, VoiceInv, RecInv, Types, Dictations, None
  <1>2. /\ rec' \in RecType /\ rec'.on = FALSE /\ rec'.id = e
        /\ rec'.meeting = FALSE /\ rec.meeting = FALSE /\ stopEvent' = FALSE
    BY <1>1 DEF onRecorderStop, VoiceInv, Types, RecType, RecInv
  <1>3. RecInv' /\ MeetingFiles'
    BY <1>2 DEF onRecorderStop, VoiceInv, RecInv, MeetingFiles
  <1>4. CASE rec.aborting
    <2>1. Types'
      BY <1>2, <1>4 DEF onRecorderStop, VoiceInv, Types, serverVars
    <2>2. \A d \in Dictations : Same(d)
      BY <1>2, <1>4 DEF onRecorderStop, Same, Live, MeetingOut, OtherOut, Asking, serverVars
    <2> QED BY <1>3, <2>1, <2>2, TouchNone
  <1>5. CASE ~rec.aborting
    <2>1. Live(e)
      BY <1>1, <1>5 DEF onRecorderStop, Live
    <2>2. e \notin dropped =>
          /\ BeingRecorded(e) /\ ~(e > started)
          /\ note[e]["recording"] \in {0, 1}
          /\ note[e]["transcribing"] = 0 /\ note[e]["rescue"] = 0 /\ note[e]["text"] = 0
      BY <2>1, Recorded
    <2>3. /\ note' \in NoteType
          /\ \A d \in Dictations \ {e} : note'[d] = note[d]
          /\ e \notin dropped => Becomes(e, 0, 1, 0, 0)
      BY <1>1, <1>5, <2>2, NoteStep, PieceFacts DEF onRecorderStop, VoiceInv, Types, Becomes
    <2>4. Types'
      BY <1>1, <1>2, <1>5, <2>3 DEF onRecorderStop, VoiceInv, Types, serverVars
    <2>5. \A d \in Dictations \ {e} : Same(d)
      BY <1>1, <1>2, <1>5, <2>3
         DEF onRecorderStop, Same, Live, MeetingOut, OtherOut, Asking, serverVars
    <2>6. ASSUME e \notin dropped' PROVE Dictation(e)'
      <3>0. e \notin dropped
        BY <2>6 DEF onRecorderStop
      <3>1. Quiet(e)' /\ ~MeetingOut(e)' /\ ~Live(e)'
        BY <1>2, <2>2, <3>0
           DEF onRecorderStop, BeingRecorded, Quiet, OtherOut, MeetingOut, Live, serverVars
      <3>2. /\ ~inflight'[e].kept /\ ~inflight'[e].timedOut /\ ~inflight'[e].audio
            /\ ~(e > started') /\ jobs'[e] # "meeting" /\ e \in pending'
        BY <1>1, <1>2, <1>5, <2>2, <3>0
           DEF onRecorderStop, BeingRecorded, Untouched, VoiceInv, Dictation
      <3> QED BY <2>3, <3>0, <3>1, <3>2 DEF Dictation, Becomes, Marks, Waiting
    <2> QED BY <1>3, <2>4, <2>5, <2>6, Touch
  <1> QED BY <1>4, <1>5

-----------------------------------------------------------------------------
(* The page's steps about one dictation                                    *)

\* A dictation that was handed over, or has a marker to click on, is not being
\* recorded and has no text.
LEMMA HandedOver ==
  ASSUME VoiceInv, NEW e \in Dictations \ dropped,
         ~Untouched(e) \/ note[e]["transcribing"] > 0 \/ note[e]["rescue"] > 0
  PROVE  /\ Dictation(e) /\ ~Live(e) /\ ~(e > started)
         /\ note[e]["recording"] = 0 /\ note[e]["text"] = 0
         /\ note[e]["transcribing"] \in {0, 1} /\ note[e]["rescue"] \in {0, 1}
         /\ note[e]["transcribing"] = 0 \/ note[e]["rescue"] = 0
  <1>1. Dictation(e)
    BY DEF VoiceInv
  <1>2. /\ note[e]["recording"] \in Nat /\ note[e]["transcribing"] \in Nat
        /\ note[e]["rescue"] \in Nat /\ note[e]["text"] \in Nat
    BY Counts DEF VoiceInv, Types
  <1>3. Marks(e) <= 1
    BY <1>1 DEF Dictation
  <1>4. note[e]["recording"] = 0
    BY <1>1, <1>2, <1>3 DEF Dictation, Marks
  <1>5. note[e]["text"] = 0
    <2>1. note[e]["text"] > 0 => Untouched(e) /\ Marks(e) = 0
      BY <1>1 DEF Dictation
    <2>2. Marks(e) = 0 => note[e]["transcribing"] = 0 /\ note[e]["rescue"] = 0
      <3> SUFFICES ASSUME Marks(e) = 0
                   PROVE  note[e]["transcribing"] = 0 /\ note[e]["rescue"] = 0
        OBVIOUS
      <3>1. note[e]["recording"] + note[e]["transcribing"] + note[e]["rescue"] = 0
        BY DEF Marks
      <3> QED BY <1>2, <3>1, NoneOfThree
    <2> QED BY <1>2, <2>1, <2>2
  <1>6. ~Live(e)
    BY <1>1, <1>2 DEF Dictation, BeingRecorded
  <1>7. ~(e > started)
    <2> SUFFICES ASSUME e > started PROVE FALSE
      OBVIOUS
    <2>1. Marks(e) = 0 /\ Untouched(e)
      BY <1>1 DEF Dictation, NotStarted
    <2>2. note[e]["recording"] + note[e]["transcribing"] + note[e]["rescue"] = 0
      BY <2>1 DEF Marks
    <2>3. note[e]["transcribing"] = 0 /\ note[e]["rescue"] = 0
      BY <1>2, <2>2, NoneOfThree
    <2> QED BY <2>1, <2>3
  <1> QED BY <1>1, <1>2, <1>3, <1>4, <1>5, <1>6, <1>7 DEF Marks

LEMMA ArmedType ==
  ASSUME VoiceInv, NEW e \in Dictations, NEW audio \in BOOLEAN, calls < MaxRequests,
         Remember(Armed(e, audio))
  PROVE  /\ inflight' \in [Dictations -> Entries]
         /\ e \notin dropped' =>
              /\ inflight'[e].kept /\ ~inflight'[e].timedOut
              /\ inflight'[e].audio = audio
         /\ \A d \in Dictations \ {e} : d \notin dropped' => inflight'[d] = inflight[d]
         /\ dropped \subseteq dropped' /\ dropped' \subseteq Dictations
  <1> DEFINE entry == [kept |-> TRUE, audio |-> audio, timedOut |-> FALSE, timer |-> TRUE,
                       since |-> Since(e)]
             f == [inflight EXCEPT ![e] = entry]
  <1>1. Since(e) \in 0..MaxRequests
    <2>1. inflight[e].since \in 0..MaxRequests
      BY DEF VoiceInv, Types, Entries
    <2>2. calls + 1 \in 0..MaxRequests
      <3>1. calls \in 1..MaxRequests \cup {0}
        BY DEF VoiceInv, Types, Requests
      <3> QED BY <3>1
    <2> QED BY <2>1, <2>2 DEF Since
  <1>2. /\ entry \in Entries /\ entry.kept /\ ~entry.timedOut
        /\ entry.audio = audio
    BY <1>1 DEF Entries
  <1>3. NoEntry \in Entries
    BY DEF Entries, NoEntry
  <1>4. /\ inflight' = [d \in Dictations |-> IF d \in Oldest(f) THEN NoEntry ELSE f[d]]
        /\ dropped' = dropped \cup Oldest(f)
    BY DEF Remember, Armed
  <1> HIDE DEF entry
  <1>5. f \in [Dictations -> Entries] /\ f[e] = entry
        /\ \A d \in Dictations \ {e} : f[d] = inflight[d]
    BY <1>2 DEF VoiceInv, Types
  <1>6. Oldest(f) \subseteq Dictations
    BY DEF Oldest
  <1> HIDE DEF f
  <1>7. dropped \subseteq dropped' /\ dropped' \subseteq Dictations
    BY <1>4, <1>6 DEF VoiceInv, Types
  <1> QED BY <1>2, <1>3, <1>4, <1>5, <1>7

LEMMA DroppedType ==
  ASSUME VoiceInv, NEW e \in Dictations, inflight' = dropInflight(e)
  PROVE  /\ inflight' \in [Dictations -> Entries]
         /\ ~inflight'[e].kept /\ ~inflight'[e].timedOut /\ ~inflight'[e].audio
         /\ \A d \in Dictations \ {e} : inflight'[d] = inflight[d]
  <1>1. NoEntry \in Entries /\ ~NoEntry.kept /\ ~NoEntry.timedOut /\ ~NoEntry.audio
    BY DEF Entries, NoEntry
  <1>2. inflight' = [inflight EXCEPT ![e] = NoEntry]
    BY DEF dropInflight
  <1> QED BY <1>1, <1>2 DEF VoiceInv, Types

LEMMA GivenUpType ==
  ASSUME VoiceInv, NEW e \in Dictations,
         inflight' = [inflight EXCEPT ![e].timedOut = TRUE, ![e].timer = FALSE]
  PROVE  /\ inflight' \in [Dictations -> Entries]
         /\ inflight'[e].kept = inflight[e].kept /\ inflight'[e].timedOut
         /\ inflight'[e].audio = inflight[e].audio
         /\ \A d \in Dictations \ {e} : inflight'[d] = inflight[d]
  <1> DEFINE entry == [inflight[e] EXCEPT !.timedOut = TRUE, !.timer = FALSE]
  <1>1. inflight \in [Dictations -> Entries]
    BY DEF VoiceInv, Types
  <1>2. inflight[e] \in Entries
    BY <1>1
  <1>3. /\ entry \in Entries /\ entry.kept = inflight[e].kept /\ entry.timedOut
        /\ entry.audio = inflight[e].audio
    BY <1>2 DEF Entries
  <1>4. inflight' = [inflight EXCEPT ![e] = entry]
    BY <1>1
  <1> HIDE DEF entry
  <1> QED BY <1>1, <1>3, <1>4

LEMMA SendStep == ASSUME VoiceInv, NEW e \in Dictations, Send(e) PROVE VoiceInv'
  <1> DEFINE r == [n |-> calls + 1, d |-> e, what |-> "audio", file |-> None]
  <1>1. requests' = requests \cup {r} /\ calls' = calls + 1 /\ calls < MaxRequests
    BY DEF Send, Request
  <1>2. r \in RequestType /\ calls + 1 \in Requests
    BY <1>1, NextCall DEF RequestType, Files, None, Calls
  <1>3. r.d = e /\ r.what = "audio"
    OBVIOUS
  <1> HIDE DEF r
  <1>4. /\ inflight' \in [Dictations -> Entries]
        /\ e \notin dropped' => inflight'[e].kept /\ ~inflight'[e].timedOut
        /\ \A d \in Dictations \ {e} : d \notin dropped' => inflight'[d] = inflight[d]
        /\ dropped \subseteq dropped' /\ dropped' \subseteq Dictations
    BY <1>1, ArmedType DEF Send
  <1>5. Types'
    BY <1>1, <1>2, <1>4 DEF Send, VoiceInv, Types, recVars
  <1>6. RecInv' /\ MeetingFiles'
    BY DEF Send, VoiceInv, RecInv, MeetingFiles, recVars
  <1>7. \A d \in Dictations \ {e} : Same(d)
    BY <1>1, <1>3, <1>4 DEF Send, Same, Live, MeetingOut, OtherOut, Asking, recVars
  <1>8. ASSUME e \notin dropped' PROVE Dictation(e)'
    <2>0. e \notin dropped
      BY <1>4, <1>8
    <2>1. e \in reading /\ e \in pending /\ Quiet(e) /\ ~Untouched(e)
      BY <2>0 DEF Send, VoiceInv, Dictation, Untouched
    <2>2. /\ Dictation(e) /\ ~Live(e) /\ ~(e > started)
          /\ note[e]["recording"] = 0 /\ note[e]["text"] = 0
      BY <2>0, <2>1, HandedOver
    <2>3. ~MeetingOut(e)' /\ ~Live(e)'
      BY <1>1, <1>3, <2>1, <2>2 DEF Send, Quiet, MeetingOut, Live, recVars
    <2>4. /\ e \notin reading' /\ e \in pending' /\ note' = note /\ ~(e > started')
          /\ jobs'[e] # "meeting" /\ Marks(e)' = Marks(e) /\ note[e]["rescue"] = 0
      BY <2>1, <2>2 DEF Send, Dictation, recVars, Marks
    <2>5. Waiting(e)'
      BY <1>4, <1>8, <2>2, <2>4, Counts DEF Waiting, VoiceInv, Types
    <2> QED BY <1>4, <1>8, <2>2, <2>3, <2>4, <2>5 DEF Dictation
  <1> QED BY <1>5, <1>6, <1>7, <1>8, Touch

\* The marker of e is taken out and nothing is expected of it any more.
LEMMA ReadFailsStep == ASSUME VoiceInv, NEW e \in Dictations, ReadFails(e) PROVE VoiceInv'
  <1>1. e \notin dropped =>
        /\ Quiet(e) /\ note[e]["rescue"] = 0
        /\ Dictation(e) /\ ~Live(e) /\ ~(e > started)
        /\ note[e]["recording"] = 0 /\ note[e]["text"] = 0
        /\ note[e]["transcribing"] \in {0, 1}
    <2> SUFFICES ASSUME e \notin dropped
                 PROVE  /\ Quiet(e) /\ note[e]["rescue"] = 0
                        /\ Dictation(e) /\ ~Live(e) /\ ~(e > started)
                        /\ note[e]["recording"] = 0 /\ note[e]["text"] = 0
                        /\ note[e]["transcribing"] \in {0, 1}
      OBVIOUS
    <2>1. ~Untouched(e) /\ Quiet(e) /\ note[e]["rescue"] = 0
      BY DEF ReadFails, VoiceInv, Dictation, Untouched
    <2> QED BY <2>1, HandedOver
  <1>3. /\ inflight' \in [Dictations -> Entries]
        /\ ~inflight'[e].kept /\ ~inflight'[e].timedOut /\ ~inflight'[e].audio
        /\ \A d \in Dictations \ {e} : inflight'[d] = inflight[d]
    BY DroppedType DEF ReadFails
  <1>4. /\ note' \in NoteType
        /\ \A d \in Dictations \ {e} : note'[d] = note[d]
        /\ e \notin dropped => Becomes(e, 0, 0, 0, 0)
    BY <1>1, NoteStep, PieceFacts, MarkerReplacementType
       DEF ReadFails, removeMarker, VoiceInv, Types, Becomes
  <1>5. jobs' \in JobType /\ jobs'[e] = "none" /\ \A d \in Dictations \ {e} : jobs'[d] = jobs[d]
    BY DEF ReadFails, removeMarker, VoiceInv, Types, JobType
  <1>6. Types'
    BY <1>3, <1>4, <1>5 DEF ReadFails, VoiceInv, Types, recVars, serverVars
  <1>7. RecInv' /\ MeetingFiles'
    BY DEF ReadFails, VoiceInv, RecInv, MeetingFiles, recVars
  <1>8. \A d \in Dictations \ {e} : Same(d)
    BY <1>3, <1>4, <1>5
       DEF ReadFails, Same, Live, MeetingOut, OtherOut, Asking, recVars, serverVars
  <1>9. ASSUME e \notin dropped' PROVE Dictation(e)'
    <2>0. e \notin dropped
      BY <1>9 DEF ReadFails
    <2>1. ~MeetingOut(e)' /\ ~Live(e)' /\ ~(e > started')
      BY <1>1, <2>0 DEF ReadFails, Quiet, MeetingOut, Live, recVars, serverVars
    <2>2. e \notin reading' /\ e \notin pending'
      BY DEF ReadFails
    <2> QED BY <1>3, <1>4, <1>5, <2>0, <2>1, <2>2 DEF Dictation, Becomes, Marks
  <1> QED BY <1>6, <1>7, <1>8, <1>9, Touch

\* The watchdog and a refused call: the marker becomes the buttons.
LEMMA GiveUpStep ==
  ASSUME VoiceInv, NEW e \in Dictations, giveUpWaiting(e), answers' \subseteq answers,
         UNCHANGED <<recVars, reading, pending, jobs, cache, serverVars, asks,
                     calls, acts, edits, dropped, exempt>>
  PROVE  VoiceInv'
  <1>1. RecInv' /\ MeetingFiles'
    BY DEF VoiceInv, RecInv, MeetingFiles, recVars
  <1>2. CASE ~(inflight[e].kept /\ ~inflight[e].timedOut)
    <2>1. UNCHANGED <<inflight, note>>
      BY <1>2 DEF giveUpWaiting
    <2>2. Types'
      BY <2>1 DEF VoiceInv, Types, recVars, serverVars
    <2>3. \A d \in Dictations : Same(d)
      BY <2>1 DEF Same, Live, MeetingOut, OtherOut, Asking, recVars, serverVars
    <2> QED BY <1>1, <2>2, <2>3, TouchNone
  <1>3. CASE inflight[e].kept /\ ~inflight[e].timedOut
    <2>1. e \notin dropped =>
          /\ e \in pending /\ note[e]["rescue"] = 0
          /\ Dictation(e) /\ ~Live(e) /\ ~(e > started)
          /\ note[e]["recording"] = 0 /\ note[e]["text"] = 0
          /\ note[e]["transcribing"] \in {0, 1}
      <3> SUFFICES ASSUME e \notin dropped
                   PROVE  /\ e \in pending /\ note[e]["rescue"] = 0
                          /\ Dictation(e) /\ ~Live(e) /\ ~(e > started)
                          /\ note[e]["recording"] = 0 /\ note[e]["text"] = 0
                          /\ note[e]["transcribing"] \in {0, 1}
        OBVIOUS
      <3>1. ~Untouched(e) /\ e \in pending /\ note[e]["rescue"] = 0
        BY <1>3 DEF VoiceInv, Dictation, Untouched
      <3> QED BY <3>1, HandedOver
    <2>3. /\ note' \in NoteType
          /\ \A d \in Dictations \ {e} : note'[d] = note[d]
          /\ e \notin dropped => Becomes(e, 0, 0, 1, 0)
      BY <1>3, <2>1, NoteStep, PieceFacts
         DEF giveUpWaiting, VoiceInv, Types, Becomes
    <2>4. /\ inflight' \in [Dictations -> Entries]
          /\ inflight'[e].kept /\ inflight'[e].timedOut
          /\ \A d \in Dictations \ {e} : inflight'[d] = inflight[d]
      BY <1>3, GivenUpType DEF giveUpWaiting
    <2>5. Types'
      BY <2>3, <2>4 DEF VoiceInv, Types, recVars, serverVars
    <2>6. \A d \in Dictations \ {e} : Same(d)
      BY <2>3, <2>4 DEF Same, Live, MeetingOut, OtherOut, Asking, recVars, serverVars
    <2>9. ASSUME e \notin dropped' PROVE Dictation(e)'
      <3>0. e \notin dropped
        BY <2>9
      <3>1. ~MeetingOut(e)' /\ ~Live(e)' /\ ~(e > started')
        BY <1>3, <2>1, <3>0 DEF Dictation, MeetingOut, Live, recVars, serverVars
      <3>2. e \notin reading' /\ jobs'[e] # "meeting"
        BY <1>3, <2>1, <3>0 DEF Dictation
      <3> QED BY <2>3, <2>4, <3>0, <3>1, <3>2 DEF Dictation, Becomes, Marks, Waiting
    <2> QED BY <1>1, <2>5, <2>6, <2>9, Touch
  <1> QED BY <1>2, <1>3

LEMMA TimesOutStep == ASSUME VoiceInv, NEW e \in Dictations, TimesOut(e) PROVE VoiceInv'
  BY GiveUpStep DEF TimesOut

-----------------------------------------------------------------------------
(* Answers *)

LEMMA OutFacts ==
  ASSUME VoiceInv, NEW a \in answers
  PROVE  /\ a.d \in Dictations /\ a \in AnswerType
         /\ a.d \notin dropped =>
              /\ Dictation(a.d) /\ ~Live(a.d) /\ ~(a.d > started)
              /\ a.d \notin reading
  <1>1. a \in AnswerType
    BY DEF VoiceInv, Types
  <1>2. a.d \in Dictations
    BY <1>1 DEF AnswerType
  <1>3. ~Quiet(a.d)
    BY DEF Quiet, MeetingOut, OtherOut
  <1>4. a.d \notin dropped => Dictation(a.d)
    BY <1>2 DEF VoiceInv
  <1> QED BY <1>1, <1>2, <1>3, <1>4 DEF Dictation, NotStarted, BeingRecorded

\* The only marker of a dictation that waits is the one its answer replaces.
LEMMA LandsOn ==
  ASSUME VoiceInv, NEW a \in answers, a.d \in pending,
         NEW new \in Pieces \cup {"nothing"}, Lands(a, new)
  PROVE  /\ note' \in NoteType
         /\ \A d \in Dictations \ {a.d} : note'[d] = note[d]
         /\ a.d \notin dropped =>
              Becomes(a.d, IF new = "recording" THEN 1 ELSE 0,
                           IF new = "transcribing" THEN 1 ELSE 0,
                           IF new = "rescue" THEN 1 ELSE 0,
                           IF new = "text" THEN 1 ELSE 0)
  <1>1. a.d \in Dictations /\ ~Untouched(a.d)
    BY OutFacts DEF Untouched
  <1>2. a.d \notin dropped => /\ Dictation(a.d)
        /\ note[a.d]["recording"] = 0 /\ note[a.d]["text"] = 0
        /\ note[a.d]["transcribing"] \in {0, 1} /\ note[a.d]["rescue"] \in {0, 1}
    BY <1>1, HandedOver
  <1>3. a.d \notin dropped =>
        /\ note[a.d]["transcribing"] > 0 => ~inflight[a.d].timedOut
        /\ note[a.d]["rescue"] > 0 => inflight[a.d].timedOut
    BY <1>2 DEF Dictation, Waiting
  <1>4. waitingAnchor(a.d) \in Pieces /\ replaceAnchor(a.d, waitingAnchor(a.d), new)
    BY PieceFacts DEF Lands, waitingAnchor
  <1>5. /\ note' \in NoteType
        /\ \A d \in Dictations \ {a.d} : note'[d] = note[d]
        /\ \A p \in Pieces :
              note'[a.d][p] = note[a.d][p] + (IF p = new THEN 1 ELSE 0)
                 - (IF p = waitingAnchor(a.d) /\ note[a.d][p] > 0 THEN 1 ELSE 0)
    BY <1>1, <1>4, NoteStep DEF VoiceInv, Types
  <1>6. CASE inflight[a.d].timedOut
    <2>1. waitingAnchor(a.d) = "rescue"
      BY <1>6 DEF waitingAnchor
    <2>2. a.d \notin dropped => note[a.d]["transcribing"] = 0
      BY <1>2, <1>3, <1>6
    <2> QED BY <1>2, <1>5, <2>1, <2>2, PieceFacts DEF Becomes
  <1>7. CASE ~inflight[a.d].timedOut
    <2>1. waitingAnchor(a.d) = "transcribing"
      BY <1>7 DEF waitingAnchor
    <2>2. a.d \notin dropped => note[a.d]["rescue"] = 0
      BY <1>2, <1>3, <1>7
    <2> QED BY <1>2, <1>5, <2>1, <2>2, PieceFacts DEF Becomes
  <1> QED BY <1>5, <1>6, <1>7

\* What every answer does.
LEMMA Delivered ==
  ASSUME VoiceInv, NEW a \in answers, onVoiceResult(a)
  PROVE  /\ RecInv' /\ MeetingFiles' /\ answers' \subseteq AnswerType
         /\ a.d \notin pending' /\ dropped' = dropped
         /\ a.d \notin dropped =>
              a.d \notin reading' /\ ~(a.d > started') /\ ~Live(a.d)'
         /\ pending' \subseteq Dictations
         /\ MeetingOut(a.d)' => MeetingOut(a.d)
         /\ OtherOut(a.d)' => OtherOut(a.d)
         /\ Asking(a.d)' => Asking(a.d)
         /\ \A d \in Dictations \ {a.d} :
              /\ d \in pending' <=> d \in pending
              /\ d \in reading' <=> d \in reading
              /\ d > started' => d > started
              /\ Live(d)' => Live(d) /\ rec'.meeting = rec.meeting
              /\ MeetingOut(d)' => MeetingOut(d)
              /\ OtherOut(d)' => OtherOut(d)
              /\ Asking(d)' => Asking(d)
  <1>1. /\ answers' = answers \ {a} /\ pending' = pending \ {a.d}
        /\ UNCHANGED <<recVars, reading, serverVars, asks, calls, acts, edits, dropped, exempt>>
    BY DEF onVoiceResult, Answered
  <1>2. RecInv' /\ MeetingFiles' /\ answers' \subseteq AnswerType /\ pending' \subseteq Dictations
    BY <1>1 DEF VoiceInv, Types, RecInv, MeetingFiles, recVars
  <1>3. \A d : /\ MeetingOut(d)' => MeetingOut(d)
               /\ OtherOut(d)' => OtherOut(d)
               /\ Asking(d)' => Asking(d)
    BY <1>1 DEF MeetingOut, OtherOut, Asking, serverVars
  <1>4. \A d : /\ Live(d)' => Live(d) /\ rec'.meeting = rec.meeting
               /\ d > started' => d > started
    BY <1>1 DEF Live, recVars
  <1> QED BY <1>1, <1>2, <1>3, <1>4, OutFacts

\* With the rest of the state settled, the invariant holds after an answer.
LEMMA Settled ==
  ASSUME VoiceInv, NEW a \in answers, onVoiceResult(a),
         note' \in NoteType, inflight' \in [Dictations -> Entries],
         jobs' \in JobType, cache' \in [Dictations -> Files],
         \A d \in Dictations \ {a.d} :
            /\ note'[d] = note[d] /\ inflight'[d] = inflight[d]
            /\ jobs'[d] = jobs[d] /\ cache'[d] = cache[d],
         a.d \notin dropped => Dictation(a.d)'
  PROVE  VoiceInv'
  <1>1. Types'
    BY Delivered DEF onVoiceResult, VoiceInv, Types, recVars, serverVars
  <1>2. \A d \in Dictations \ {a.d} : Same(d)
    BY Delivered DEF Same
  <1>3. RecInv' /\ MeetingFiles'
    BY Delivered
  <1> QED BY <1>1, <1>2, <1>3, Delivered, Touch

LEMMA JobEnds ==
  ASSUME VoiceInv, NEW e \in Dictations, jobs' = [jobs EXCEPT ![e] = "none"]
  PROVE  /\ jobs' \in JobType /\ jobs'[e] = "none"
         /\ \A d \in Dictations \ {e} : jobs'[d] = jobs[d]
  BY DEF VoiceInv, Types, JobType

LEMMA CacheSet ==
  ASSUME VoiceInv, NEW e \in Dictations, NEW file \in Files,
         cache' = [cache EXCEPT ![e] = file]
  PROVE  /\ cache' \in [Dictations -> Files] /\ cache'[e] = file
         /\ \A d \in Dictations \ {e} : cache'[d] = cache[d]
  BY DEF VoiceInv, Types

LEMMA MeetingFailedStep ==
  ASSUME VoiceInv, NEW a \in answers, onVoiceResult(a), MeetingFailed(a) PROVE VoiceInv'
  <1>1. a.d \in Dictations /\ (a.d \notin dropped => Dictation(a.d))
    BY OutFacts
  <1>2. /\ jobs' \in JobType /\ jobs'[a.d] = "none"
        /\ \A d \in Dictations \ {a.d} : jobs'[d] = jobs[d]
    BY <1>1, JobEnds DEF MeetingFailed
  <1>3. /\ note' \in NoteType
        /\ \A d \in Dictations \ {a.d} : note'[d] = note[d]
        /\ a.d \notin dropped => note' = note \/ Becomes(a.d, 0, 0, 0, 0)
    <2>1. CASE a.d \in pending
      BY <2>1, LandsOn DEF MeetingFailed
    <2>2. CASE a.d \notin pending
      BY <2>2 DEF MeetingFailed, Lands, VoiceInv, Types
    <2> QED BY <2>1, <2>2
  <1>4. UNCHANGED <<inflight, cache>> /\ jobs[a.d] = "meeting"
    BY DEF MeetingFailed
  <1> DEFINE e == a.d
  <1>5. ASSUME e \notin dropped PROVE Dictation(e)'
    <2>0. Dictation(e)
      BY <1>1, <1>5
    <2>1. ~inflight'[e].kept /\ ~inflight'[e].timedOut /\ ~inflight'[e].audio /\ cache'[e] = None
      BY <1>5, <2>0, <1>4 DEF Dictation
    <2>2. /\ e \notin pending' /\ e \notin reading' /\ ~(e > started') /\ ~Live(e)'
          /\ MeetingOut(e)' => MeetingOut(e)
          /\ OtherOut(e)' => OtherOut(e)
      BY <1>5, Delivered
    <2>3. CASE note' = note
      BY <1>5, <2>0, <1>2, <2>1, <2>2, <2>3 DEF Dictation, Untouched, Marks
    <2>4. CASE Becomes(e, 0, 0, 0, 0)
      BY <1>5, <2>0, <1>2, <2>1, <2>2, <2>4 DEF Dictation, Becomes, Marks
    <2> QED BY <1>3, <1>5, <2>3, <2>4
  <1> QED BY <1>1, <1>2, <1>3, <1>4, <1>5, Settled DEF VoiceInv, Types

LEMMA SucceededStep ==
  ASSUME VoiceInv, NEW a \in answers, onVoiceResult(a), Succeeded(a) PROVE VoiceInv'
  <1>1. a.d \in Dictations /\ (a.d \notin dropped => Dictation(a.d))
    BY OutFacts
  <1>2. /\ jobs' \in JobType /\ jobs'[a.d] = "none"
        /\ \A d \in Dictations \ {a.d} : jobs'[d] = jobs[d]
    BY <1>1, JobEnds DEF Succeeded
  <1>3. /\ cache' \in [Dictations -> Files] /\ cache'[a.d] = None
        /\ \A d \in Dictations \ {a.d} : cache'[d] = cache[d]
    BY <1>1, CacheSet DEF Succeeded, Files
  <1>4. /\ inflight' \in [Dictations -> Entries]
        /\ ~inflight'[a.d].kept /\ ~inflight'[a.d].timedOut /\ ~inflight'[a.d].audio
        /\ \A d \in Dictations \ {a.d} : inflight'[d] = inflight[d]
    BY <1>1, DroppedType DEF Succeeded
  <1>5. /\ note' \in NoteType
        /\ \A d \in Dictations \ {a.d} : note'[d] = note[d]
        /\ a.d \notin dropped => note' = note \/ Becomes(a.d, 0, 0, 0, 0) \/ Becomes(a.d, 0, 0, 0, 1)
    <2>1. CASE a.d \in pending
      <3>1. finalText(a) \in {"text", "selection"}
        BY DEF finalText
      <3>2. Lands(a, finalText(a))
        BY DEF Succeeded
      <3> QED BY <2>1, <3>1, <3>2, PieceFacts, LandsOn
    <2>2. CASE a.d \notin pending
      BY <2>2 DEF Succeeded, Lands, VoiceInv, Types
    <2> QED BY <2>1, <2>2
  <1> DEFINE e == a.d
  <1>6. ASSUME e \notin dropped PROVE Dictation(e)'
    <2>0. Dictation(e)
      BY <1>1, <1>6
    <2>1. /\ e \notin pending' /\ e \notin reading' /\ ~(e > started') /\ ~Live(e)'
          /\ MeetingOut(e)' => MeetingOut(e)
          /\ OtherOut(e)' => OtherOut(e)
      BY <1>6, Delivered
    <2>2. CASE note' = note
      BY <1>6, <2>0, <1>2, <1>3, <1>4, <2>1, <2>2 DEF Dictation, Untouched, Marks
    <2>3. CASE Becomes(e, 0, 0, 0, 0) \/ Becomes(e, 0, 0, 0, 1)
      BY <1>6, <2>0, <1>2, <1>3, <1>4, <2>1, <2>3 DEF Dictation, Becomes, Untouched, Marks
    <2> QED BY <1>5, <1>6, <2>2, <2>3
  <1> QED BY <1>1, <1>2, <1>3, <1>4, <1>5, <1>6, Settled

LEMMA FailedStep ==
  ASSUME VoiceInv, NEW a \in answers, onVoiceResult(a), Failed(a) PROVE VoiceInv'
  <1>1. /\ a.d \in Dictations /\ a.file \in Files /\ jobs[a.d] # "meeting"
        /\ a.d \notin dropped => Dictation(a.d)
    BY OutFacts DEF AnswerType, Failed
  <1>2. /\ note' \in NoteType
        /\ \A d \in Dictations \ {a.d} : note'[d] = note[d]
        /\ a.d \notin dropped => note' = note \/ (a.d \in pending /\ Becomes(a.d, 0, 0, 1, 0))
    <2>1. CASE a.d \in pending /\ Lands(a, "rescue")
      BY <2>1, PieceFacts, LandsOn
    <2>2. CASE note' = note
      BY <2>2 DEF VoiceInv, Types
    <2> QED BY <2>1, <2>2 DEF Failed, Lands
  <1>3. /\ cache' \in [Dictations -> Files]
        /\ cache'[a.d] = cache[a.d] \/ (a.file # None /\ cache'[a.d] = a.file)
        /\ \A d \in Dictations \ {a.d} : cache'[d] = cache[d]
    <2>1. CASE cache' = [cache EXCEPT ![a.d] = a.file] /\ a.file # None
      BY <1>1, <2>1, CacheSet
    <2>2. CASE cache' = cache
      BY <2>2 DEF VoiceInv, Types
    <2> QED BY <2>1, <2>2 DEF Failed
  <1>4. /\ inflight' \in [Dictations -> Entries]
        /\ inflight'[a.d].kept => inflight[a.d].kept /\ inflight'[a.d].timedOut
        /\ a.d \notin dropped =>
             (inflight'[a.d].timedOut \/ inflight'[a.d].audio => inflight'[a.d].kept)
        /\ \A d \in Dictations \ {a.d} : inflight'[d] = inflight[d]
    <2>1. CASE inflight' = dropInflight(a.d)
      BY <1>1, <2>1, DroppedType
    <2>2. CASE inflight' = KeepsMemory(a.d) /\ inflight[a.d].kept
      <3>1. inflight' = [inflight EXCEPT ![a.d].timedOut = TRUE, ![a.d].timer = FALSE]
        BY <2>2 DEF KeepsMemory
      <3> QED BY <1>1, <2>2, <3>1, GivenUpType
    <2>3. CASE inflight' = inflight /\ ~inflight[a.d].kept
      BY <1>1, <2>3 DEF VoiceInv, Types, Dictation
    <2> QED BY <2>1, <2>2, <2>3 DEF Failed, KeepsMemory
  <1>5. jobs' = jobs
    BY DEF Failed
  <1> DEFINE e == a.d
  <1>6. ASSUME e \notin dropped PROVE Dictation(e)'
    <2>0. Dictation(e)
      BY <1>1, <1>6
    <2>1. /\ e \notin pending' /\ e \notin reading' /\ ~(e > started') /\ ~Live(e)'
          /\ MeetingOut(e)' => MeetingOut(e)
          /\ OtherOut(e)' => OtherOut(e)
      BY <1>6, Delivered
    <2>2. MeetingOut(e) =>
             note' = note /\ cache'[e] = None /\ ~inflight'[e].kept /\ note[e]["rescue"] = 0
             /\ ~OtherOut(e)
      <3> SUFFICES ASSUME MeetingOut(e)
                   PROVE  note' = note /\ cache'[e] = None /\ ~inflight'[e].kept
                          /\ note[e]["rescue"] = 0 /\ ~OtherOut(e)
        OBVIOUS
      <3>1. /\ ~OtherOut(e) /\ e \notin pending /\ ~inflight[e].kept /\ cache[e] = None
            /\ note[e]["rescue"] = 0
        BY <1>1, <2>0 DEF Dictation
      <3>2. a.what = "meeting"
        BY <3>1 DEF OtherOut
      <3>3. a.file = None
        BY <3>2 DEF VoiceInv, MeetingFiles
      <3> QED BY <1>2, <1>3, <1>4, <1>6, <3>1, <3>3
    <2>3. CASE note' = note
      BY <1>1, <1>6, <2>0, <1>4, <1>5, <2>1, <2>2, <2>3 DEF Dictation, Untouched, Marks
    <2>4. CASE e \in pending /\ Becomes(e, 0, 0, 1, 0)
      BY <1>1, <1>6, <2>0, <1>4, <1>5, <2>1, <2>2, <2>4 DEF Dictation, Becomes, Marks
    <2> QED BY <1>2, <1>6, <2>3, <2>4
  <1> QED BY <1>1, <1>2, <1>3, <1>4, <1>5, <1>6, Settled DEF VoiceInv, Types

LEMMA CallRefusedStep == ASSUME VoiceInv, NEW a \in answers, CallRefused(a) PROVE VoiceInv'
  <1>1. /\ a.d \in Dictations
        /\ a.d \notin dropped =>
             /\ Dictation(a.d) /\ ~Live(a.d) /\ ~(a.d > started)
             /\ a.d \notin reading
    BY OutFacts
  <1>2. CASE a.what # "meeting"
    <2>1. /\ giveUpWaiting(a.d) /\ answers' \subseteq answers
          /\ UNCHANGED <<recVars, reading, pending, jobs, cache, serverVars, asks,
                         calls, acts, edits, dropped, exempt>>
      BY <1>2 DEF CallRefused
    <2> QED BY <1>1, <2>1, GiveUpStep
  <1>3. CASE a.what = "meeting"
    <2> DEFINE e == a.d
    <2>1. /\ answers' = answers \ {a} /\ pending' = pending \ {e}
          /\ removeMarker(e, "transcribing")
          /\ UNCHANGED <<inflight, recVars, reading, cache, serverVars, asks,
                         calls, acts, edits, dropped, exempt>>
      BY <1>3 DEF CallRefused
    <2>2. e \notin dropped =>
          /\ ~inflight[e].kept /\ note[e]["rescue"] = 0 /\ cache[e] = None /\ ~OtherOut(e)
      BY <1>1, <1>3 DEF Dictation, MeetingOut
    <2>3. /\ note' \in NoteType
          /\ \A d \in Dictations \ {e} : note'[d] = note[d]
          /\ note'[e]["recording"] = note[e]["recording"]
          /\ note'[e]["transcribing"] <= note[e]["transcribing"]
          /\ e \notin dropped => note'[e]["rescue"] = 0
          /\ note'[e]["text"] = note[e]["text"]
      <3>1. PICK new \in {"selection", "nothing"} : replaceAnchor(e, "transcribing", new)
        BY <2>1, MarkerReplacementType DEF removeMarker
      <3>2. /\ note[e]["recording"] \in Nat /\ note[e]["transcribing"] \in Nat
            /\ note[e]["text"] \in Nat
        BY <1>1, Counts DEF VoiceInv, Types
      <3> QED BY <1>1, <2>2, <3>1, <3>2, NoteStep, PieceFacts DEF VoiceInv, Types
    <2>4. /\ jobs' \in JobType /\ jobs'[e] = "none"
          /\ \A d \in Dictations \ {e} : jobs'[d] = jobs[d]
      BY <1>1, <2>1, JobEnds DEF removeMarker
    <2>5. Types'
      BY <2>1, <2>3, <2>4 DEF VoiceInv, Types, recVars, serverVars
    <2>6. RecInv' /\ MeetingFiles'
      BY <2>1 DEF VoiceInv, RecInv, MeetingFiles, recVars
    <2>7. \A d \in Dictations \ {e} : Same(d)
      BY <2>1, <2>3, <2>4 DEF Same, Live, MeetingOut, OtherOut, Asking, recVars, serverVars
    <2>8. ASSUME e \notin dropped' PROVE Dictation(e)'
      <3>0. e \notin dropped
        BY <2>1, <2>8
      <3>1. ~Live(e)' /\ ~OtherOut(e)' /\ ~(e > started')
        BY <3>0, <1>1, <2>1, <2>2 DEF Live, OtherOut, recVars, serverVars
      <3>2. Marks(e)' <= Marks(e) /\ (Marks(e) = 0 => Marks(e)' = 0)
        <4>1. /\ note[e]["recording"] \in Nat /\ note[e]["transcribing"] \in Nat
              /\ note'[e]["transcribing"] \in Nat
          BY <3>0, <1>1, <2>3, Counts, PieceFacts DEF VoiceInv, Types, NoteType
        <4>2. Marks(e) = note[e]["recording"] + note[e]["transcribing"]
          BY <3>0, <2>2, <4>1 DEF Marks
        <4>3. Marks(e)' = note[e]["recording"] + note'[e]["transcribing"]
          BY <3>0, <2>3, <4>1 DEF Marks
        <4> QED BY <3>0, <2>3, <4>1, <4>2, <4>3
      <3>3. Marks(e)' <= 1
        <4>1. Marks(e) \in Nat /\ Marks(e)' \in Nat
          BY <3>0, <1>1, <2>3, Counts, PieceFacts DEF VoiceInv, Types, Marks, NoteType
        <4> QED BY <3>0, <1>1, <3>2, <4>1 DEF Dictation
      <3> QED BY <3>0, <1>1, <2>1, <2>2, <2>3, <2>4, <3>1, <3>2, <3>3 DEF Dictation, Untouched
    <2> QED BY <1>1, <2>5, <2>6, <2>7, <2>8, Touch
  <1> QED BY <1>2, <1>3

-----------------------------------------------------------------------------
(* Clicks, edits of the note, and the restart                              *)

\* A step that only takes markers, a known file or the kind of e away.
LEMMA Fewer ==
  ASSUME VoiceInv, NEW e \in Dictations, NEW old \in Markers \cup {"nothing"},
         NEW new \in {"selection", "audio", "nothing"},
         replaceAnchor(e, old, new) \/ UNCHANGED note,
         UNCHANGED <<recVars, reading, pending, inflight, serverVars, answers, calls,
                     edits, dropped>>,
         cache' = cache \/ cache' = [cache EXCEPT ![e] = None],
         \/ jobs' = jobs
         \/ /\ jobs' = [jobs EXCEPT ![e] = "none"]
            /\ e \notin dropped => jobs[e] # "meeting" /\ ~Live(e),
         asks' \subseteq asks, acts' \in 0..MaxActs, exempt' \subseteq Dictations
  PROVE  VoiceInv'
  <1>1. (e \notin dropped => Dictation(e)) /\ note \in NoteType
    BY DEF VoiceInv, Types
  <1>2. /\ note[e]["recording"] \in Nat /\ note[e]["transcribing"] \in Nat
        /\ note[e]["rescue"] \in Nat
    BY <1>1, Counts
  <1>3. /\ note' \in NoteType
        /\ \A d \in Dictations \ {e} : note'[d] = note[d]
        /\ note'[e]["text"] = note[e]["text"]
        /\ note'[e]["recording"] <= note[e]["recording"]
        /\ note'[e]["transcribing"] <= note[e]["transcribing"]
        /\ note'[e]["rescue"] <= note[e]["rescue"]
    <2>1. CASE replaceAnchor(e, old, new)
      <3>1. note[e]["text"] \in Nat
        BY <1>1, Counts
      <3> QED BY <1>1, <1>2, <2>1, <3>1, NoteStep, PieceFacts
    <2>2. CASE UNCHANGED note
      BY <1>1, <1>2, <2>2
    <2> QED BY <2>1, <2>2
  <1>4. /\ note'[e]["recording"] \in Nat /\ note'[e]["transcribing"] \in Nat
        /\ note'[e]["rescue"] \in Nat
    <2>1. note'[e] \in [Pieces -> Nat]
      BY <1>3 DEF NoteType
    <2> QED BY <2>1, PieceFacts
  <1>5. cache' \in [Dictations -> Files] /\ cache'[e] \in {cache[e], None}
        /\ \A d \in Dictations \ {e} : cache'[d] = cache[d]
    BY CacheSet DEF VoiceInv, Types, Files
  <1>6. /\ jobs' \in JobType
        /\ e \notin dropped =>
             jobs'[e] = jobs[e] \/ (jobs'[e] = "none" /\ jobs[e] # "meeting" /\ ~Live(e))
        /\ \A d \in Dictations \ {e} : jobs'[d] = jobs[d]
    BY JobEnds DEF VoiceInv, Types
  <1>7. Types'
    BY <1>3, <1>5, <1>6 DEF VoiceInv, Types, recVars, serverVars
  <1>8. RecInv' /\ MeetingFiles'
    BY DEF VoiceInv, RecInv, MeetingFiles, recVars
  <1>9. \A d : /\ Live(d)' <=> Live(d)
               /\ MeetingOut(d)' <=> MeetingOut(d)
               /\ OtherOut(d)' <=> OtherOut(d)
               /\ Asking(d)' => Asking(d)
               /\ Untouched(d)' <=> Untouched(d)
               /\ Quiet(d)' <=> Quiet(d)
    BY DEF Live, MeetingOut, OtherOut, Asking, Untouched, Quiet, recVars, serverVars
  <1>10. \A d \in Dictations \ {e} : Same(d)
    BY <1>3, <1>5, <1>6, <1>9 DEF Same, recVars
  <1>11. ASSUME e \notin dropped' PROVE Dictation(e)'
    <2>0. e \notin dropped
      BY <1>11
    <2>1. Marks(e)' <= Marks(e) /\ Marks(e) \in Nat /\ Marks(e)' \in Nat
      BY <1>2, <1>3, <1>4 DEF Marks
    <2>2. /\ note'[e]["recording"] > 0 => note[e]["recording"] > 0
          /\ note'[e]["transcribing"] > 0 => note[e]["transcribing"] > 0
          /\ note'[e]["rescue"] > 0 => note[e]["rescue"] > 0
          /\ note[e]["transcribing"] = 0 => note'[e]["transcribing"] = 0
          /\ note[e]["rescue"] = 0 => note'[e]["rescue"] = 0
          /\ Marks(e) = 0 => Marks(e)' = 0
          /\ Marks(e) <= 1 => Marks(e)' <= 1
      BY <1>2, <1>3, <1>4, <2>1
    <2>3. Waiting(e) => Waiting(e)'
      BY <1>3, <2>2 DEF Waiting
    <2>4. NotStarted(e) => NotStarted(e)'
      BY <1>3, <1>5, <1>9, <2>2 DEF NotStarted
    <2>5. Live(e) /\ BeingRecorded(e) => BeingRecorded(e)'
      BY <1>3, <2>0, <1>6, <1>9, <2>2 DEF BeingRecorded, recVars
    <2>6. cache[e] = None => cache'[e] = None
      BY <1>5
    <2>7. MeetingOut(e) /\ e \in pending => jobs'[e] = jobs[e]
      BY <1>1, <2>0, <1>6 DEF Dictation
    <2> QED BY <1>1, <2>0, <1>3, <1>6, <1>9, <2>2, <2>3, <2>4, <2>5, <2>6, <2>7
            DEF Dictation, recVars
  <1> QED BY <1>7, <1>8, <1>10, <1>11, Touch

LEMMA ActType == ASSUME VoiceInv, Act PROVE acts' \in 0..MaxActs
  BY DEF Act, VoiceInv, Types

LEMMA RemovesStep ==
  ASSUME VoiceInv, NEW e \in Dictations, NEW p \in Markers, Removes(e, p) PROVE VoiceInv'
  <1>1. acts' \in 0..MaxActs /\ exempt' \subseteq Dictations
    BY ActType DEF Removes, VoiceInv, Types
  <1> QED BY <1>1, Fewer DEF Removes, serverVars

LEMMA DiscardStep == ASSUME VoiceInv, NEW e \in Dictations, Discard(e) PROVE VoiceInv'
  <1>1. acts' \in 0..MaxActs /\ exempt' \subseteq Dictations
    BY ActType DEF Discard, VoiceInv, Types
  <1>2. PICK new \in {"selection", "nothing"} : replaceAnchor(e, "rescue", new)
    BY MarkerReplacementType DEF Discard, removeMarker
  <1>3. e \notin dropped => Dictation(e) /\ ~Live(e) /\ note[e]["rescue"] > 0
    BY HandedOver DEF Discard, Has
  <1>4. e \notin dropped => jobs[e] # "meeting"
    BY <1>3 DEF Dictation
  <1> QED BY <1>1, <1>2, <1>3, <1>4, PieceFacts, Fewer DEF Discard, removeMarker

LEMMA AskEndsStep == ASSUME VoiceInv, NEW a \in asks, AskEnds(a) PROVE VoiceInv'
  <1>1. a \in AskType /\ a.d \in Dictations
    BY DEF VoiceInv, Types, AskType
  <1>2. Asking(a.d) /\ (a.d \notin dropped => Dictation(a.d))
    BY <1>1 DEF Asking, VoiceInv
  <1>3. a.d \notin dropped => ~Live(a.d) /\ jobs[a.d] # "meeting"
    BY <1>2 DEF Dictation, BeingRecorded
  <1>4. acts' \in 0..MaxActs /\ exempt' \subseteq Dictations /\ asks' \subseteq asks
    BY DEF AskEnds, VoiceInv, Types
  <1>5. UNCHANGED <<recVars, reading, pending, inflight, serverVars, answers, calls,
                    edits, dropped>>
    BY DEF AskEnds
  <1>6. CASE UNCHANGED <<note, jobs, cache>>
    BY <1>1, <1>4, <1>5, <1>6, Fewer
  <1>7. CASE /\ replaceAnchor(a.d, "rescue", "audio")
             /\ cache' = [cache EXCEPT ![a.d] = None] /\ UNCHANGED jobs
    BY <1>1, <1>4, <1>5, <1>7, PieceFacts, Fewer
  <1>8. CASE removeMarker(a.d, "rescue") /\ cache' = [cache EXCEPT ![a.d] = None]
    <2>1. PICK new \in {"selection", "nothing"} : replaceAnchor(a.d, "rescue", new)
      BY <1>8, MarkerReplacementType DEF removeMarker
    <2> QED BY <1>1, <1>3, <1>4, <1>5, <1>8, <2>1, PieceFacts, Fewer DEF removeMarker
  <1> QED BY <1>6, <1>7, <1>8 DEF AskEnds

LEMMA AskStep ==
  ASSUME VoiceInv, NEW e \in Dictations, NEW what \in {"keep", "discard"}, Ask(e, what)
  PROVE  VoiceInv'
  <1> DEFINE a == [d |-> e, what |-> what, file |-> cache[e], pc |-> "asked"]
  <1>1. asks' = asks \cup {a}
    BY DEF Ask
  <1>2. a \in AskType /\ a.d = e
    BY DEF AskType, VoiceInv, Types
  <1> HIDE DEF a
  <1>3. Types'
    BY <1>1, <1>2, ActType DEF Ask, VoiceInv, Types, recVars, serverVars
  <1>4. RecInv' /\ MeetingFiles'
    BY DEF Ask, VoiceInv, RecInv, MeetingFiles, recVars
  <1>5. \A d : /\ Live(d)' <=> Live(d)
               /\ MeetingOut(d)' <=> MeetingOut(d)
               /\ OtherOut(d)' <=> OtherOut(d)
               /\ Quiet(d)' <=> Quiet(d)
    BY DEF Ask, Live, MeetingOut, OtherOut, Quiet, recVars, serverVars
  <1>6. \A d \in Dictations \ {e} : Same(d)
    BY <1>1, <1>2, <1>5 DEF Ask, Same, Asking, recVars
  <1>7. e \notin dropped =>
           Dictation(e) /\ ~Live(e) /\ ~(e > started) /\ note[e]["rescue"] > 0
    BY HandedOver DEF Ask, Has
  <1>8. ASSUME e \notin dropped' PROVE Dictation(e)'
    <2>1. e \notin dropped
      BY <1>8 DEF Ask
    <2> QED BY <1>5, <1>7, <2>1 DEF Ask, Dictation, Marks, Untouched, Waiting, recVars
  <1> QED BY <1>3, <1>4, <1>6, <1>8, Touch

LEMMA RetryStep == ASSUME VoiceInv, NEW e \in Dictations, Retry(e) PROVE VoiceInv'
  <1>1. e \notin dropped =>
        /\ Dictation(e) /\ ~Live(e) /\ ~(e > started)
        /\ note[e]["recording"] = 0 /\ note[e]["text"] = 0
        /\ note[e]["transcribing"] = 0 /\ note[e]["rescue"] = 1
    BY HandedOver DEF Retry, Has
  <1>2. /\ note' \in NoteType
        /\ \A d \in Dictations \ {e} : note'[d] = note[d]
        /\ e \notin dropped => Becomes(e, 0, 1, 0, 0)
    BY <1>1, NoteStep, PieceFacts DEF Retry, VoiceInv, Types, Becomes
  <1> DEFINE what == IF cache[e] = None THEN "audio" ELSE "cache"
             r == [n |-> calls + 1, d |-> e, what |-> what, file |-> cache[e]]
  <1>3. requests' = requests \cup {r} /\ calls' = calls + 1 /\ calls < MaxRequests
    BY DEF Retry, Request
  <1>4. /\ inflight' \in [Dictations -> Entries]
        /\ e \notin dropped' => inflight'[e].kept /\ ~inflight'[e].timedOut
        /\ \A d \in Dictations \ {e} : d \notin dropped' => inflight'[d] = inflight[d]
        /\ dropped \subseteq dropped' /\ dropped' \subseteq Dictations
    <2>1. (cache[e] = None) \in BOOLEAN
      OBVIOUS
    <2> QED BY <1>3, <2>1, ArmedType DEF Retry
  <1>5. what \in {"audio", "cache"} /\ cache[e] \in Files
    BY DEF VoiceInv, Types
  <1>6. r.d = e /\ r.what # "meeting"
    BY <1>5
  <1>7. r \in RequestType /\ calls + 1 \in Requests
    BY <1>3, <1>5, NextCall DEF RequestType, Calls
  <1> HIDE DEF r, what
  <1>8. exempt' \subseteq Dictations
    BY DEF Retry, Crosses, VoiceInv, Types
  <1>9. Types'
    BY <1>2, <1>3, <1>4, <1>7, <1>8 DEF Retry, VoiceInv, Types, recVars
  <1>10. RecInv' /\ MeetingFiles'
    BY DEF Retry, VoiceInv, RecInv, MeetingFiles, recVars
  <1>11. \A d \in Dictations \ {e} : Same(d)
    BY <1>2, <1>3, <1>4, <1>6 DEF Retry, Same, Live, MeetingOut, OtherOut, Asking, recVars
  <1>12. ASSUME e \notin dropped' PROVE Dictation(e)'
    <2>0. e \notin dropped
      BY <1>4, <1>12
    <2>1. ~MeetingOut(e)
      BY <1>1, <2>0 DEF Dictation
    <2>2. ~MeetingOut(e)' /\ ~Live(e)' /\ ~(e > started')
      BY <1>1, <1>3, <1>6, <2>0, <2>1 DEF Retry, MeetingOut, Live, recVars
    <2>3. e \notin reading' /\ jobs'[e] # "meeting" /\ e \in pending'
      BY <1>1, <2>0 DEF Retry, Dictation
    <2> QED BY <1>2, <1>4, <1>12, <2>0, <2>2, <2>3 DEF Dictation, Becomes, Marks, Waiting
  <1> QED BY <1>9, <1>10, <1>11, <1>12, Touch

LEMMA SweepStep == ASSUME VoiceInv, sweepStaleTranscribing PROVE VoiceInv'
  <1> DEFINE stale == {d \in Dictations : Has(d, "transcribing") /\ d \notin pending}
             shown(d) == IF Recoverable(d) THEN "rescue" ELSE markerReplacement(d)
  <1>1. /\ note' = [d \in Dictations |->
                       IF d \in stale THEN Replaced(d, "transcribing", shown(d)) ELSE note[d]]
        /\ jobs' = [d \in Dictations |->
                       IF d \in stale /\ ~Recoverable(d) THEN "none" ELSE jobs[d]]
        /\ UNCHANGED <<recVars, reading, pending, inflight, cache, serverVars,
                       answers, asks, calls, acts, edits, dropped, exempt>>
    BY DEF sweepStaleTranscribing
  <1>2. ASSUME NEW d \in Dictations
        PROVE  IF d \in stale
               THEN /\ note'[d] \in [Pieces -> Nat]
                    /\ note'[d]["recording"] = note[d]["recording"]
                    /\ note'[d]["transcribing"] = note[d]["transcribing"] - 1
                    /\ note'[d]["rescue"] = note[d]["rescue"]
                                            + (IF Recoverable(d) THEN 1 ELSE 0)
                    /\ note'[d]["text"] = note[d]["text"]
               ELSE note'[d] = note[d]
    <2>1. CASE d \notin stale
      BY <1>1, <2>1
    <2>2. CASE d \in stale
      <3>1. shown(d) \in {"rescue", "selection", "nothing"}
            /\ (shown(d) = "rescue" <=> Recoverable(d))
        BY MarkerReplacementType
      <3>2. note'[d] = Replaced(d, "transcribing", shown(d))
        BY <1>1, <2>2
      <3>3. note[d] \in [Pieces -> Nat] /\ note[d]["transcribing"] > 0
        BY <2>2 DEF VoiceInv, Types, NoteType, Has
      <3> HIDE DEF shown
      <3>4. \A p \in Pieces :
               note'[d][p] = note[d][p] + (IF p = shown(d) THEN 1 ELSE 0)
                             - (IF p = "transcribing" /\ note[d][p] > 0 THEN 1 ELSE 0)
        BY <3>2 DEF Replaced, Has
      <3>5. note'[d] \in [Pieces -> Nat]
        BY <3>2, <3>3 DEF Replaced, Has
      <3> QED BY <2>2, <3>1, <3>3, <3>4, <3>5, PieceFacts
    <2> QED BY <2>1, <2>2
  <1>3. \A d \in Dictations : note'[d] \in [Pieces -> Nat]
    BY <1>2 DEF VoiceInv, Types, NoteType
  <1> HIDE DEF stale, shown
  <1>4. note' \in NoteType /\ jobs' \in JobType
    BY <1>1, <1>3 DEF NoteType, JobType, VoiceInv, Types
  <1>5. Types'
    BY <1>1, <1>4 DEF VoiceInv, Types, recVars, serverVars
  <1>6. RecInv' /\ MeetingFiles'
    BY <1>1 DEF VoiceInv, RecInv, MeetingFiles, recVars
  <1>7. \A d : /\ Live(d)' <=> Live(d)
               /\ MeetingOut(d)' <=> MeetingOut(d)
               /\ OtherOut(d)' <=> OtherOut(d)
               /\ Asking(d)' <=> Asking(d)
    BY <1>1 DEF Live, MeetingOut, OtherOut, Asking, recVars, serverVars
  <1>8. ASSUME NEW d \in Dictations \ dropped, d \notin stale PROVE Dictation(d)'
    <2>1. Same(d)
      BY <1>1, <1>2, <1>7, <1>8 DEF Same, recVars
    <2> QED BY <1>1, <2>1, Frame DEF VoiceInv
  <1>9. ASSUME NEW d \in Dictations \ dropped, d \in stale PROVE Dictation(d)'
    <2>1. note[d]["transcribing"] > 0 /\ d \notin pending
      BY <1>9 DEF stale, Has
    <2>2. /\ Dictation(d) /\ ~Live(d) /\ ~(d > started)
          /\ note[d]["recording"] = 0 /\ note[d]["text"] = 0
          /\ note[d]["transcribing"] = 1 /\ note[d]["rescue"] = 0
      BY <2>1, HandedOver
    <2>3. Becomes(d, 0, 0, IF Recoverable(d) THEN 1 ELSE 0, 0)
      BY <1>2, <1>9, <2>2 DEF Becomes
    <2>4. jobs'[d] = IF Recoverable(d) THEN jobs[d] ELSE "none"
      BY <1>1, <1>9
    <2>5. MeetingOut(d) \/ jobs[d] = "meeting" => ~Recoverable(d)
      BY <2>2 DEF Dictation, Recoverable
    <2>6. d \notin reading /\ (inflight[d].kept => inflight[d].timedOut)
      BY <2>1, <2>2 DEF Dictation
    <2> QED BY <1>1, <1>7, <2>1, <2>2, <2>3, <2>4, <2>5, <2>6
            DEF Dictation, Becomes, Marks, recVars
  <1>10. \A d \in Dictations \ dropped' : Dictation(d)'
    BY <1>1, <1>8, <1>9
  <1> QED BY <1>5, <1>6, <1>10 DEF VoiceInv

LEMMA RestartStep == ASSUME VoiceInv, Restart PROVE VoiceInv'
  <1>1. /\ NoEntry \in Entries /\ ~NoEntry.kept /\ ~NoEntry.timedOut /\ ~NoEntry.audio
        /\ Idle \in RecType /\ ~Idle.on /\ ~Idle.meeting
    BY DEF NoEntry, Entries, Idle, RecType
  <1>2. /\ rec' = Idle /\ stopEvent' = FALSE /\ reading' = {} /\ pending' = {}
        /\ inflight' = [d \in Dictations |-> NoEntry] /\ jobs' = Forgotten
        /\ requests' = {} /\ answers' = {} /\ asks' = {}
        /\ UNCHANGED <<note, started, cache, files, calls, edits, dropped>>
    BY DEF Restart
  <1>3. acts' \in 0..MaxActs /\ exempt' \subseteq Dictations
    BY ActType DEF Restart, VoiceInv, Types
  <1>4. /\ inflight' \in [Dictations -> Entries] /\ jobs' \in JobType
        /\ \A d \in Dictations : jobs'[d] = "none" /\ inflight'[d] = NoEntry
    BY <1>1, <1>2 DEF Forgotten, JobType
  <1>5. Types'
    BY <1>1, <1>2, <1>3, <1>4 DEF VoiceInv, Types
  <1>6. RecInv' /\ MeetingFiles'
    BY <1>1, <1>2 DEF RecInv, MeetingFiles
  <1>7. ASSUME NEW d \in Dictations \ dropped' PROVE Dictation(d)'
    <2>1. ~Live(d)' /\ ~MeetingOut(d)' /\ ~OtherOut(d)' /\ ~Asking(d)' /\ Quiet(d)'
      BY <1>1, <1>2 DEF Live, MeetingOut, OtherOut, Asking, Quiet
    <2>2. Untouched(d)' /\ ~inflight'[d].kept /\ ~inflight'[d].timedOut /\ ~inflight'[d].audio
      BY <1>1, <1>2, <1>4 DEF Untouched
    <2>3. Dictation(d) /\ Marks(d)' = Marks(d)
      BY <1>2 DEF VoiceInv, Marks
    <2>4. d > started' => NotStarted(d)'
      BY <1>2, <2>1, <2>2, <2>3 DEF Dictation, NotStarted
    <2> QED BY <1>2, <1>4, <2>1, <2>2, <2>3, <2>4 DEF Dictation
  <1> QED BY <1>5, <1>6, <1>7 DEF VoiceInv

-----------------------------------------------------------------------------
LEMMA Inductive == VoiceInv /\ [Next]_vars => VoiceInv'
  <1> SUFFICES ASSUME VoiceInv, [Next]_vars PROVE VoiceInv'
    OBVIOUS
  <1>1. CASE UNCHANGED vars
    <2>1. Types' /\ RecInv' /\ MeetingFiles'
      BY <1>1 DEF vars, VoiceInv, Types, RecInv, MeetingFiles
    <2>2. \A d \in Dictations : Same(d)
      BY <1>1 DEF vars, Same, Live, MeetingOut, OtherOut, Asking
    <2> QED BY <2>1, <2>2, TouchNone
  <1>2. CASE Recording \/ onRecorderStop
    BY <1>2, BeginsStep, StopStep, FinishMeetingStep, AbortStep, RecorderStopStep
       DEF Recording, Start, StartMeeting, Kinds
  <1>3. CASE \E d \in Dictations : Page(d)
    BY <1>3, SendStep, ReadFailsStep, TimesOutStep DEF Page
  <1>4. CASE Server
    BY <1>4, RefusedStep, ReadsCacheStep, RemovesCachedStep, AnsweredStep DEF Server
  <1>5. CASE Delivery
    BY <1>5, MeetingFailedStep, FailedStep, SucceededStep, CallRefusedStep
       DEF Delivery, onVoiceResult
  <1>6. CASE Asked
    BY <1>6, BackendStep, AskEndsStep DEF Asked
  <1>7. CASE User
    BY <1>7, RetryStep, DiscardStep, AskStep, RemovesStep, SweepStep, RestartStep
       DEF User
  <1> QED BY <1>1, <1>2, <1>3, <1>4, <1>5, <1>6, <1>7 DEF Next

\* The invariant holds over every run of the page, the backend and the user.
THEOREM VoiceInvariant == Spec => []VoiceInv
  <1> QED BY Initial, Inductive, PTL DEF Spec

\* Every variable keeps its type.
THEOREM TypesAlways == Spec => []TypeOK
  <1>1. VoiceInv => TypeOK
    BY TypeParts DEF VoiceInv
  <1> QED BY <1>1, VoiceInvariant, PTL

\* The text of a dictation gets into its note at most once, however often it is
\* sent again and however late answers come (pending in __onVoiceResult), unless its
\* entry had to make room.
THEOREM LandsOnceAlways == Spec => []LandsOnce
  <1>1. VoiceInv => LandsOnce
    BY DEF VoiceInv, Dictation, LandsOnce
  <1> QED BY <1>1, VoiceInvariant, PTL

-----------------------------------------------------------------------------
(* What the retry marker and the selection of an edit need: of a dictation *)
(* that is not exempt and not dropped one call is out at most, and the     *)
(* recording behind its marker is in memory, in the voice cache under the  *)
(* known path, or on its way out together with the marker.  A file belongs *)
(* to one dictation.                                                       *)

RequestsOf(d) == {r \in requests : r.d = d}
AnswersOf(d) == {a \in answers : a.d = d}
AsksOf(d) == {a \in asks : a.d = d}

Placed(d) == Has(d, "transcribing") \/ Has(d, "rescue")
Fresh(d) == cache[d] = None /\ ~Asking(d)
Cached(x) == x.what \in {"cache", "cache read", "cache refine"}
Success(x) == x.result \in {"text", "not refined"}

OneCall(d) ==
    /\ \A x, y \in RequestsOf(d) : x = y
    /\ \A x, y \in AnswersOf(d) : x = y
    /\ RequestsOf(d) = {} \/ AnswersOf(d) = {}
    /\ RequestsOf(d) # {} \/ AnswersOf(d) # {} => d \in pending
    /\ d \in pending => Has(d, "transcribing") \/ inflight[d].timedOut
    /\ Has(d, "transcribing") => d \in pending
    /\ d \in reading \/ Live(d) => Fresh(d)

Sent(d) ==
    /\ \A x \in RequestsOf(d) :
          /\ x.what = "audio" => inflight[d].audio /\ Fresh(d)
          /\ Cached(x) => x.file # None /\ (Placed(d) => x.file = cache[d])
    /\ \A x \in AnswersOf(d) :
          /\ x.what = "audio" => inflight[d].audio /\ Fresh(d)
          /\ x.what = "audio" /\ x.result = "error" => x.file \in files \cup {None}
          /\ Cached(x) /\ x.result = "error" =>
               x.file # None /\ (Placed(d) => x.file = cache[d])

Clicked(d) ==
    /\ Asking(d) => ~Has(d, "transcribing")
    /\ Has(d, "rescue") => \A a \in AsksOf(d) : a.file = cache[d]

Behind(d) ==
    /\ Placed(d) /\ cache[d] # None =>
         \/ cache[d] \in files
         \/ \E a \in AsksOf(d) : a.pc = "done"
         \/ \E x \in RequestsOf(d) : x.what = "cache refine"
         \/ \E x \in AnswersOf(d) : Success(x)
    /\ Has(d, "rescue") \/ (Has(d, "transcribing") /\ inflight[d].kept) =>
         cache[d] # None \/ inflight[d].audio

SelectionLeft(d) == d \in edits =>
    /\ d \in 1..started
    /\ \/ Has(d, "selection") \/ Has(d, "text") \/ Has(d, "audio")
       \/ jobs[d] = "edit" /\ \E p \in Markers : Has(d, p)

Secure(d) == OneCall(d) /\ Sent(d) /\ Clicked(d) /\ Behind(d) /\ SelectionLeft(d)

Owns(d, f) ==
    \/ cache[d] = f
    \/ \E x \in RequestsOf(d) : x.file = f \/ (x.what = "audio" /\ x.n = f)
    \/ \E x \in AnswersOf(d) : x.file = f
    \/ \E a \in AsksOf(d) : a.file = f

Owners ==
    \A f \in Requests : \A d, e \in Dictations :
        Owns(d, f) => f <= calls /\ (Owns(e, f) => d = e)

Safe == VoiceInv /\ Owners /\ \A d \in Dictations \ (exempt \cup dropped) : Secure(d)

\* Nothing of d changes, and the recordings it owns stay.
Alike(d) ==
    /\ d \in dropped => d \in dropped'
    /\ d \notin dropped' => inflight'[d] = inflight[d] /\ jobs'[d] = jobs[d]
    /\ d \in edits' => d \in edits /\ (d \in 1..started => d \in 1..started')
    /\ note'[d] = note[d] /\ cache'[d] = cache[d]
    /\ d \in pending' <=> d \in pending
    /\ d \in reading' => d \in reading
    /\ Live(d)' => Live(d)
    /\ RequestsOf(d)' = RequestsOf(d) /\ AnswersOf(d)' = AnswersOf(d)
    /\ AsksOf(d)' = AsksOf(d)
    /\ \A f \in files : Owns(d, f) => f \in files'

LEMMA AskingOf == \A d : Asking(d) <=> AsksOf(d) # {}
  BY DEF Asking, AsksOf

LEMMA SecureFrame ==
  ASSUME NEW d \in Dictations \ dropped', Secure(d), Alike(d) PROVE Secure(d)'
  <1>1. /\ Asking(d)' = Asking(d) /\ Fresh(d)' = Fresh(d) /\ Placed(d)' = Placed(d)
        /\ \A p : Has(d, p)' = Has(d, p)
    BY AskingOf DEF Alike, Fresh, Placed, Has, Asking, AsksOf
  <1>2. OneCall(d)'
    BY <1>1 DEF Alike, Secure, OneCall
  <1>3. Sent(d)'
    <2>1. ASSUME NEW x \in AnswersOf(d), x.what = "audio", x.result = "error"
          PROVE  x.file \in files' \cup {None}
      BY <2>1 DEF Secure, Sent, Alike, Owns
    <2> QED BY <1>1, <2>1 DEF Alike, Secure, Sent
  <1>4. Clicked(d)' /\ SelectionLeft(d)'
    BY <1>1 DEF Alike, Secure, Clicked, SelectionLeft
  <1>5. Behind(d)'
    <2>1. cache[d] \in files => cache'[d] \in files'
      BY DEF Alike, Owns
    <2> QED BY <1>1, <2>1 DEF Alike, Secure, Behind
  <1> QED BY <1>2, <1>3, <1>4, <1>5 DEF Secure

LEMMA OwnsFrame ==
  ASSUME NEW d, Alike(d) PROVE \A f : Owns(d, f)' <=> Owns(d, f)
  BY DEF Alike, Owns

\* A step about the dictation e keeps the rest; a new file has a new name.
LEMMA SafeTouch ==
  ASSUME Safe, VoiceInv', NEW e, exempt \subseteq exempt', dropped \subseteq dropped',
         \A d \in Dictations \ {e} : Alike(d),
         e \in Dictations \ (exempt' \cup dropped') => Secure(e)',
         \/ calls' = calls
         \/ calls' = calls + 1,
         e \in Dictations => \A f \in Requests :
            Owns(e, f)' => Owns(e, f) \/ (calls' = calls + 1 /\ f = calls + 1)
  PROVE  Safe'
  <1>1. \A d \in Dictations \ (exempt' \cup dropped') : Secure(d)'
    BY SecureFrame DEF Safe
  <1>2. Owners'
    <2>0. calls \in Nat /\ calls' \in Nat /\ \A f \in Requests : f \in Nat
      BY DEF Safe, VoiceInv, Types, Requests
    <2>1. ASSUME NEW f \in Requests, NEW d \in Dictations, Owns(d, f)'
          PROVE  Owns(d, f) \/ (d = e /\ calls' = calls + 1 /\ f = calls + 1)
      BY <2>1, OwnsFrame
    <2>2. ASSUME NEW f \in Requests, NEW d \in Dictations, NEW c \in Dictations, Owns(d, f)'
          PROVE  f <= calls' /\ (Owns(c, f)' => d = c)
      <3>1. CASE Owns(d, f)
        <4>1. f <= calls
          BY <3>1 DEF Safe, Owners
        <4> QED BY <2>0, <2>1, <3>1, <4>1 DEF Safe, Owners
      <3>2. CASE d = e /\ calls' = calls + 1 /\ f = calls + 1
        <4>1. ~Owns(c, f)
          BY <2>0, <3>2 DEF Safe, Owners
        <4> QED BY <2>0, <2>1, <3>2, <4>1
      <3> QED BY <2>1, <2>2, <3>1, <3>2
    <2> QED BY <2>2 DEF Owners
  <1> QED BY <1>1, <1>2 DEF Safe

LEMMA SafeTouchNone ==
  ASSUME Safe, VoiceInv', exempt \subseteq exempt', dropped \subseteq dropped',
         \A d \in Dictations : Alike(d), calls' = calls
  PROVE  Safe'
  <1>1. PICK e : e \notin Dictations
    BY DEF Dictations
  <1> QED BY <1>1, SafeTouch

\* A dictation has one marker at most.
LEMMA Marked ==
  ASSUME VoiceInv, NEW d \in Dictations
  PROVE  /\ \A p \in Pieces : note[d][p] \in Nat /\ (note[d][p] = 0 <=> ~Has(d, p))
         /\ d \notin dropped =>
              /\ Dictation(d)
              /\ \A p \in Markers : note[d][p] <= 1
              /\ \A p, q \in Markers : Has(d, p) /\ Has(d, q) => p = q
  <1>1. d \notin dropped => Dictation(d) /\ Marks(d) <= 1
    BY DEF VoiceInv, Dictation
  <1>2. \A p \in Pieces : note[d][p] \in Nat
    BY DEF VoiceInv, Types, NoteType
  <1>3. \A p \in Pieces : note[d][p] = 0 <=> ~Has(d, p)
    BY <1>2 DEF Has
  <1>4. /\ note[d]["recording"] \in Nat /\ note[d]["transcribing"] \in Nat
        /\ note[d]["rescue"] \in Nat
    BY <1>2, PieceFacts
  <1>5. d \notin dropped => \A p \in Markers : note[d][p] <= 1
    BY <1>1, <1>4, PieceFacts DEF Marks
  <1>6. d \notin dropped => \A p, q \in Markers : Has(d, p) /\ Has(d, q) => p = q
    BY <1>1, <1>4, PieceFacts DEF Marks, Has
  <1> QED BY <1>1, <1>2, <1>3, <1>5, <1>6

LEMMA Moved ==
  ASSUME VoiceInv, NEW e \in Dictations,
         NEW old \in Pieces \cup {"nothing"}, NEW new \in Pieces \cup {"nothing"}, old # new,
         replaceAnchor(e, old, new)
  PROVE  /\ \A d \in Dictations \ {e} : note'[d] = note[d]
         /\ new \in Pieces => Has(e, new)'
         /\ \A p \in Pieces \ {old, new} : Has(e, p)' <=> Has(e, p)
         /\ old \in Markers /\ e \notin dropped => ~Has(e, old)'
  <1>1. /\ \A d \in Dictations \ {e} : note'[d] = note[d]
        /\ \A p \in Pieces :
              note'[e][p] = note[e][p] + (IF p = new THEN 1 ELSE 0)
                            - (IF p = old /\ note[e][p] > 0 THEN 1 ELSE 0)
    BY NoteStep DEF VoiceInv, Types
  <1>2. \A p \in Pieces : note[e][p] \in Nat
    BY Marked
  <1>3. \A p \in Markers : p \in Pieces /\ (e \notin dropped => note[e][p] <= 1)
    BY Marked, PieceFacts
  <1> QED BY <1>1, <1>2, <1>3 DEF Has

LEMMA MarkerMoved ==
  ASSUME VoiceInv, NEW e \in Dictations, SelectionLeft(e), NEW old \in Markers \cup {"nothing"},
         NEW new \in Markers, old # new, replaceAnchor(e, old, new),
         jobs'[e] = jobs[e], UNCHANGED <<started, edits>>
  PROVE  SelectionLeft(e)'
  <1>1. \A p \in {"selection", "text", "audio"} : Has(e, p)' <=> Has(e, p)
    BY PieceFacts, Moved
  <1>2. Has(e, new)'
    BY PieceFacts, Moved
  <1> QED BY <1>1, <1>2 DEF SelectionLeft

LEMMA MarkerRemoved ==
  ASSUME VoiceInv, NEW e \in Dictations, NEW old \in Markers, removeMarker(e, old),
         UNCHANGED <<started, edits>>
  PROVE  /\ \A d \in Dictations \ {e} : note'[d] = note[d] /\ jobs'[d] = jobs[d]
         /\ e \notin dropped => ~Has(e, old)'
         /\ \A p \in Markers \ {old} : Has(e, p)' <=> Has(e, p)
         /\ SelectionLeft(e) => SelectionLeft(e)'
  <1>1. PICK new \in {"selection", "nothing"} :
            new = markerReplacement(e) /\ replaceAnchor(e, old, new)
    BY MarkerReplacementType DEF removeMarker
  <1>2. /\ \A d \in Dictations \ {e} : note'[d] = note[d]
        /\ e \notin dropped => ~Has(e, old)'
        /\ \A p \in Markers \ {old} : Has(e, p)' <=> Has(e, p)
        /\ \A p \in {"text", "audio"} : Has(e, p)' <=> Has(e, p)
        /\ new = "selection" => Has(e, "selection")'
        /\ new = "nothing" => (Has(e, "selection")' <=> Has(e, "selection"))
    BY <1>1, PieceFacts, Moved
  <1>3. jobs' \in JobType /\ \A d \in Dictations \ {e} : jobs'[d] = jobs[d]
    BY JobEnds DEF removeMarker, VoiceInv, Types
  <1>4. new = "selection" <=> jobs[e] = "edit"
    BY <1>1 DEF markerReplacement
  <1> QED BY <1>1, <1>2, <1>3, <1>4 DEF SelectionLeft

-----------------------------------------------------------------------------
(* Recording *)

LEMMA NothingOut ==
  ASSUME NEW d, Quiet(d) PROVE RequestsOf(d) = {} /\ AnswersOf(d) = {}
  BY DEF Quiet, MeetingOut, OtherOut, RequestsOf, AnswersOf

LEMMA UnchangedOf ==
  ASSUME NEW d
  PROVE  /\ requests' = requests => RequestsOf(d)' = RequestsOf(d)
         /\ answers' = answers => AnswersOf(d)' = AnswersOf(d)
         /\ asks' = asks => AsksOf(d)' = AsksOf(d)
         /\ recVars' = recVars => Live(d)' = Live(d) /\ started' = started
  BY DEF RequestsOf, AnswersOf, AsksOf, recVars, Live

\* A dictation left without a call, a click or a marker but that of the recording.
LEMMA RecordedOnly ==
  ASSUME NEW d, RequestsOf(d)' = {}, AnswersOf(d)' = {}, AsksOf(d)' = {}, cache'[d] = None,
         ~Placed(d)', d \notin pending', d \notin reading', SelectionLeft(d)'
  PROVE  Secure(d)'
  <1>1. Fresh(d)' /\ ~Asking(d)'
    BY DEF Fresh, Asking, AsksOf
  <1> QED BY <1>1 DEF Secure, OneCall, Sent, Clicked, Behind, Placed

LEMMA BeginsSafe ==
  ASSUME Safe, VoiceInv', NEW kind \in Kinds, NEW replaced \in {"nothing", "selection"},
         Begins(kind, replaced)
  PROVE  Safe'
  <1>0. PICK e : e = started + 1
    OBVIOUS
  <1> DEFINE J == [jobs EXCEPT ![e] = kind]
  <1>1. /\ replaceAnchor(e, replaced, "recording") /\ started' = e
        /\ jobs' = [c \in Dictations |-> IF c \in Surplus(J) THEN "none" ELSE J[c]]
        /\ dropped' = dropped \cup Surplus(J)
        /\ edits' = IF kind = "edit" THEN edits \cup {e} ELSE edits
        /\ rec' = [Idle EXCEPT !.on = TRUE, !.meeting = (kind = "meeting"), !.id = e]
        /\ ~stopEvent /\ started < MaxDictations
        /\ UNCHANGED <<stopEvent, reading, pending, inflight, cache, files, requests,
                       answers, asks, calls, acts, exempt>>
    BY <1>0 DEF Begins, serverVars
  <1>2. e \in Dictations /\ e > started /\ started \in Nat
    BY <1>0, <1>1 DEF Safe, VoiceInv, Types, Dictations, None
  <1>3. e \notin dropped => NotStarted(e) /\ Dictation(e)
    BY <1>2 DEF Safe, VoiceInv, Dictation
  <1>4. /\ \A d \in Dictations \ {e} : note'[d] = note[d]
        /\ \A d \in Dictations \ {e} : d \notin dropped' => jobs'[d] = jobs[d]
        /\ e \notin dropped' => jobs'[e] = kind
    <2>1. J[e] = kind /\ \A d \in Dictations \ {e} : J[d] = jobs[d]
      BY <1>2 DEF Safe, VoiceInv, Types, JobType
    <2> HIDE DEF J
    <2>2. \A d \in Dictations \ {e} : note'[d] = note[d]
      BY <1>1, <1>2, Moved, PieceFacts DEF Safe
    <2> QED BY <1>1, <1>2, <2>1, <2>2
  <1> HIDE DEF J
  <1>5. /\ Has(e, "recording")'
        /\ \A p \in {"transcribing", "rescue"} : Has(e, p)' <=> Has(e, p)
    BY <1>1, <1>2, Moved, PieceFacts DEF Safe
  <1>6. rec'.id = e
    BY <1>1 DEF Idle
  <1>7. \A d \in Dictations \ {e} : Alike(d)
    <2> SUFFICES ASSUME NEW d \in Dictations \ {e} PROVE Alike(d)
      OBVIOUS
    <2>1. d \in dropped => d \in dropped'
      BY <1>1
    <2>2. d \in edits' => d \in edits /\ (d \in 1..started => d \in 1..started')
      BY <1>0, <1>1, <1>2
    <2>3. ~Live(d)'
      BY <1>6 DEF Live
    <2> QED BY <1>1, <1>4, <2>1, <2>2, <2>3, UnchangedOf DEF Alike
  <1>8. ASSUME e \in Dictations \ (exempt' \cup dropped') PROVE Secure(e)'
    <2>0. NotStarted(e) /\ e \notin exempt \cup dropped
      BY <1>1, <1>3, <1>8
    <2>1. RequestsOf(e)' = {} /\ AnswersOf(e)' = {} /\ AsksOf(e)' = {}
      BY <1>1, <2>0, NothingOut, UnchangedOf, AskingOf DEF NotStarted
    <2>2. SelectionLeft(e)'
      <3>1. kind # "edit" => e \notin edits'
        BY <1>1, <1>2, <2>0 DEF Safe, Secure, SelectionLeft
      <3>2. e \in 1..started'
        BY <1>0, <1>1, <1>2
      <3>3. jobs'[e] = kind /\ "recording" \in Markers
        BY <1>4, <1>8, PieceFacts
      <3> QED BY <1>5, <3>1, <3>2, <3>3 DEF SelectionLeft
    <2>3. ~Has(e, "transcribing") /\ ~Has(e, "rescue")
      <3>1. note[e]["transcribing"] = 0 /\ note[e]["rescue"] = 0
        BY <1>2, <2>0, Counts DEF NotStarted, Marks, Safe, VoiceInv, Types
      <3> QED BY <3>1 DEF Has
    <2>4. ~Placed(e)' /\ cache'[e] = None /\ e \notin pending' /\ e \notin reading'
      BY <1>1, <1>5, <2>0, <2>3 DEF Placed, NotStarted, Untouched
    <2> QED BY <2>1, <2>2, <2>4, RecordedOnly
  <1>9. \A f : Owns(e, f)' <=> Owns(e, f)
    BY <1>1, UnchangedOf DEF Owns
  <1> QED BY <1>1, <1>7, <1>8, <1>9, SafeTouch

LEMMA StopSafe == ASSUME Safe, VoiceInv', Stop PROVE Safe'
  <1>1. \A d \in Dictations : Alike(d)
    <2>1. /\ rec.on /\ rec' = [rec EXCEPT !.stopping = TRUE]
          /\ UNCHANGED <<note, started, reading, pending, inflight, jobs, cache, files,
                         requests, answers, asks, edits, dropped>>
      BY DEF Stop, serverVars
    <2>2. rec'.id = rec.id
      BY <2>1 DEF Safe, VoiceInv, Types, RecType
    <2> QED BY <2>1, <2>2, UnchangedOf DEF Alike, Live
  <1> QED BY <1>1, SafeTouchNone DEF Stop

LEMMA LiveFacts ==
  ASSUME Safe, NEW d, Live(d)
  PROVE  /\ d \in Dictations
         /\ d \notin dropped =>
              /\ Dictation(d) /\ BeingRecorded(d)
              /\ RequestsOf(d) = {} /\ AnswersOf(d) = {} /\ AsksOf(d) = {}
              /\ ~Placed(d) /\ d \notin pending /\ d \notin reading /\ ~inflight[d].kept
         /\ d \notin exempt \cup dropped => Secure(d) /\ cache[d] = None
  <1>1. d \in Dictations
    <2>1. started \in Nat /\ started <= MaxDictations
      BY DEF Safe, VoiceInv, Types, Dictations, None
    <2> QED BY <2>1 DEF Safe, VoiceInv, RecInv, Live, Dictations
  <1>2. d \notin dropped => Dictation(d) /\ BeingRecorded(d)
    BY <1>1 DEF Safe, VoiceInv, Dictation
  <1>3. d \notin dropped => RequestsOf(d) = {} /\ AnswersOf(d) = {} /\ AsksOf(d) = {}
    BY <1>2, NothingOut, AskingOf DEF BeingRecorded
  <1>4. d \notin dropped => ~Placed(d)
    BY <1>2 DEF BeingRecorded, Placed, Has
  <1>5. d \notin exempt \cup dropped => Secure(d) /\ cache[d] = None
    BY <1>1 DEF Safe, Secure, OneCall, Fresh
  <1> QED BY <1>1, <1>2, <1>3, <1>4, <1>5 DEF BeingRecorded, Untouched

LEMMA FinishMeetingSafe == ASSUME Safe, VoiceInv', FinishMeeting PROVE Safe'
  <1>0. PICK e : e = rec.id
    OBVIOUS
  <1> DEFINE r == [n |-> calls + 1, d |-> e, what |-> "meeting", file |-> None]
  <1>1. /\ rec.on /\ rec.meeting
        /\ rec' = [rec EXCEPT !.on = FALSE, !.meeting = FALSE]
        /\ replaceAnchor(e, "recording", "transcribing")
        /\ pending' = pending \cup {e}
        /\ requests' = requests \cup {r} /\ calls' = calls + 1
        /\ UNCHANGED <<started, stopEvent, reading, inflight, jobs, cache, files,
                       answers, asks, acts, edits, dropped, exempt>>
    BY <1>0 DEF FinishMeeting, Request
  <1>2. r.d = e /\ r.what = "meeting" /\ r.file = None
    OBVIOUS
  <1>3. ~rec'.on /\ ~stopEvent' /\ Live(e)
    BY <1>0, <1>1 DEF Safe, VoiceInv, RecInv, Types, RecType, Live
  <1> HIDE DEF r
  <1>4. \A d : ~Live(d)'
    BY <1>3 DEF Live
  <1>5. /\ e \in Dictations
        /\ e \notin dropped =>
             /\ RequestsOf(e) = {} /\ AnswersOf(e) = {} /\ AsksOf(e) = {}
             /\ ~inflight[e].kept /\ e \notin reading
        /\ e \notin exempt \cup dropped => Secure(e) /\ cache[e] = None
    BY <1>3, LiveFacts
  <1>6. /\ \A d \in Dictations \ {e} : note'[d] = note[d]
        /\ Has(e, "transcribing")' /\ (Has(e, "rescue")' <=> Has(e, "rescue"))
    BY <1>1, <1>5, Moved, PieceFacts DEF Safe
  <1>7. /\ RequestsOf(e)' = RequestsOf(e) \cup {r} /\ AnswersOf(e)' = AnswersOf(e)
        /\ AsksOf(e)' = AsksOf(e)
    BY <1>1, <1>2 DEF RequestsOf, AnswersOf, AsksOf
  <1>8. \A d \in Dictations \ {e} : Alike(d)
    <2>1. \A d \in Dictations \ {e} : RequestsOf(d)' = RequestsOf(d)
      BY <1>1, <1>2 DEF RequestsOf
    <2> QED BY <1>1, <1>4, <1>6, <2>1, UnchangedOf DEF Alike
  <1>9. ASSUME e \in Dictations \ (exempt' \cup dropped') PROVE Secure(e)'
    <2>1. Secure(e) /\ cache'[e] = None /\ e \notin exempt \cup dropped
      BY <1>1, <1>5, <1>9
    <2>2. SelectionLeft(e)'
      BY <1>1, <1>5, <2>1, MarkerMoved, PieceFacts DEF Safe, Secure
    <2>3. ~Asking(e)' /\ ~Has(e, "rescue")'
      BY <1>3, <1>5, <1>6, <1>7, <2>1, AskingOf, LiveFacts DEF Placed, Asking, AsksOf
    <2>4. OneCall(e)' /\ Sent(e)' /\ Clicked(e)' /\ Behind(e)'
      <3>1. OneCall(e)'
        BY <1>1, <1>4, <1>5, <1>6, <1>7, <2>1 DEF OneCall
      <3>2. Sent(e)'
        BY <1>2, <1>5, <1>7, <2>1 DEF Sent, Cached
      <3>3. Clicked(e)' /\ Behind(e)'
        BY <1>1, <1>5, <2>1, <2>3 DEF Clicked, Behind
      <3> QED BY <3>1, <3>2, <3>3
    <2> QED BY <2>2, <2>4 DEF Secure
  <1>10. \A f \in Requests : Owns(e, f)' => Owns(e, f)
    BY <1>1, <1>2, <1>7 DEF Owns, Requests, None
  <1> QED BY <1>1, <1>8, <1>9, <1>10, SafeTouch

LEMMA AbortSafe == ASSUME Safe, VoiceInv', Abort PROVE Safe'
  <1>0. PICK e : e = rec.id
    OBVIOUS
  <1>1. /\ rec.on
        /\ rec' = [rec EXCEPT !.on = FALSE, !.meeting = FALSE, !.stopping = FALSE,
                              !.aborting = ~rec.meeting]
        /\ stopEvent' = ~rec.meeting
        /\ removeMarker(e, "recording")
        /\ UNCHANGED <<started, reading, pending, inflight, cache, files, requests,
                       answers, asks, calls, acts, edits, dropped, exempt>>
    BY <1>0 DEF Abort, serverVars
  <1>2. Live(e) /\ ~rec'.on /\ (stopEvent' => rec'.aborting)
    BY <1>0, <1>1 DEF Safe, VoiceInv, Types, RecType, Live
  <1>3. \A d : ~Live(d)'
    BY <1>2 DEF Live
  <1>4. /\ e \in Dictations
        /\ e \notin dropped =>
             /\ RequestsOf(e) = {} /\ AnswersOf(e) = {} /\ AsksOf(e) = {}
             /\ e \notin pending /\ e \notin reading /\ ~Placed(e)
        /\ e \notin exempt \cup dropped => Secure(e) /\ cache[e] = None
    BY <1>2, LiveFacts
  <1>5. /\ \A d \in Dictations \ {e} : note'[d] = note[d] /\ jobs'[d] = jobs[d]
        /\ \A p \in {"transcribing", "rescue"} : Has(e, p)' <=> Has(e, p)
        /\ SelectionLeft(e) => SelectionLeft(e)'
    BY <1>1, <1>4, MarkerRemoved, PieceFacts DEF Safe
  <1>6. \A d \in Dictations \ {e} : Alike(d)
    BY <1>1, <1>3, <1>5, UnchangedOf DEF Alike
  <1>7. ASSUME e \in Dictations \ (exempt' \cup dropped') PROVE Secure(e)'
    <2>1. SelectionLeft(e)' /\ ~Placed(e)'
      BY <1>1, <1>4, <1>5, <1>7 DEF Placed, Secure
    <2> QED BY <1>1, <1>4, <1>7, <2>1, RecordedOnly, UnchangedOf
  <1>8. \A f : Owns(e, f)' <=> Owns(e, f)
    BY <1>1, UnchangedOf DEF Owns
  <1> QED BY <1>1, <1>6, <1>7, <1>8, SafeTouch

LEMMA RecorderStopSafe == ASSUME Safe, VoiceInv', onRecorderStop PROVE Safe'
  <1>0. PICK e : e = rec.id
    OBVIOUS
  <1>1. /\ stopEvent /\ ~stopEvent'
        /\ rec' = [rec EXCEPT !.on = FALSE, !.stopping = FALSE, !.aborting = FALSE]
        /\ UNCHANGED <<started, inflight, jobs, cache, files, requests, answers, asks,
                       calls, acts, edits, dropped, exempt>>
    BY DEF onRecorderStop, serverVars
  <1>2. \A d : ~Live(d)'
    BY <1>1 DEF Live, Safe, VoiceInv, Types, RecType
  <1>3. CASE rec.aborting
    <2>1. UNCHANGED <<note, reading, pending>>
      BY <1>3 DEF onRecorderStop
    <2>2. \A d \in Dictations : Alike(d)
      BY <1>1, <1>2, <2>1, UnchangedOf DEF Alike
    <2> QED BY <1>1, <2>2, SafeTouchNone
  <1>4. CASE ~rec.aborting
    <2>1. /\ replaceAnchor(e, "recording", "transcribing")
          /\ pending' = pending \cup {e} /\ reading' = reading \cup {e} /\ Live(e)
      BY <1>0, <1>1, <1>4 DEF onRecorderStop, Live
    <2>2. /\ e \in Dictations
          /\ e \notin dropped =>
               /\ RequestsOf(e) = {} /\ AnswersOf(e) = {} /\ AsksOf(e) = {}
               /\ ~inflight[e].kept /\ ~Placed(e)
          /\ e \notin exempt \cup dropped => Secure(e) /\ cache[e] = None
      BY <2>1, LiveFacts
    <2>3. /\ \A d \in Dictations \ {e} : note'[d] = note[d]
          /\ Has(e, "transcribing")' /\ (Has(e, "rescue")' <=> Has(e, "rescue"))
      BY <2>1, <2>2, Moved, PieceFacts DEF Safe
    <2>4. \A d \in Dictations \ {e} : Alike(d)
      BY <1>1, <1>2, <2>1, <2>3, UnchangedOf DEF Alike
    <2>5. ASSUME e \in Dictations \ (exempt' \cup dropped') PROVE Secure(e)'
      <3>1. Secure(e) /\ cache'[e] = None
        BY <1>1, <2>2, <2>5
      <3>2. SelectionLeft(e)'
        BY <1>1, <2>1, <2>2, <3>1, MarkerMoved, PieceFacts DEF Safe, Secure
      <3>3. RequestsOf(e)' = {} /\ AnswersOf(e)' = {} /\ AsksOf(e)' = {}
        BY <1>1, <2>2, <2>5, UnchangedOf
      <3>4. ~Asking(e)' /\ Fresh(e)' /\ ~Has(e, "rescue")'
        <4>1. ~Asking(e)
          BY <1>1, <2>2, <2>5, AskingOf
        <4>2. Asking(e)' = Asking(e)
          BY <1>1 DEF Asking
        <4> QED BY <1>1, <2>2, <2>3, <2>5, <3>1, <4>1, <4>2 DEF Fresh, Placed
      <3>5. OneCall(e)' /\ Sent(e)' /\ Clicked(e)'
        BY <2>1, <2>3, <3>3, <3>4 DEF OneCall, Sent, Clicked
      <3>6. Behind(e)'
        BY <1>1, <2>2, <2>5, <3>1, <3>4 DEF Behind
      <3> QED BY <3>2, <3>5, <3>6 DEF Secure
    <2>6. \A f : Owns(e, f)' <=> Owns(e, f)
      BY <1>1, UnchangedOf DEF Owns
    <2> QED BY <1>1, <2>4, <2>5, <2>6, SafeTouch
  <1> QED BY <1>3, <1>4

-----------------------------------------------------------------------------
(* The page's own steps *)

LEMMA NotNone == \A f \in Requests : f # None
  BY DEF Requests, None

LEMMA SendSafe == ASSUME Safe, VoiceInv', NEW e \in Dictations, Send(e) PROVE Safe'
  <1> DEFINE r == [n |-> calls + 1, d |-> e, what |-> "audio", file |-> None]
  <1>1. /\ e \in reading /\ reading' = reading \ {e}
        /\ Remember(Armed(e, TRUE))
        /\ requests' = requests \cup {r} /\ calls' = calls + 1 /\ calls < MaxRequests
        /\ UNCHANGED <<note, recVars, pending, jobs, cache, files, answers, asks,
                       acts, edits, exempt>>
    BY DEF Send, Request
  <1>2. r.d = e /\ r.what = "audio" /\ r.file = None /\ r.n = calls + 1
    OBVIOUS
  <1> HIDE DEF r
  <1>3. /\ e \notin dropped' => inflight'[e].kept /\ inflight'[e].audio
        /\ \A d \in Dictations \ {e} : d \notin dropped' => inflight'[d] = inflight[d]
        /\ dropped \subseteq dropped'
    BY <1>1, ArmedType DEF Safe
  <1>4. e \notin dropped =>
        /\ Dictation(e) /\ e \in pending /\ ~inflight[e].kept /\ ~inflight[e].timedOut
        /\ Quiet(e) /\ ~Live(e)
    <2>1. e \notin dropped => Dictation(e)
      BY DEF Safe, VoiceInv
    <2> QED BY <1>1, <2>1 DEF Dictation, BeingRecorded, Untouched
  <1>5. /\ RequestsOf(e)' = RequestsOf(e) \cup {r} /\ AnswersOf(e)' = AnswersOf(e)
        /\ e \notin dropped => RequestsOf(e)' = {r} /\ AnswersOf(e)' = {}
        /\ \A d \in Dictations \ {e} : RequestsOf(d)' = RequestsOf(d)
    BY <1>1, <1>2, <1>4, NothingOut DEF RequestsOf, AnswersOf
  <1>6. \A d \in Dictations \ {e} : Alike(d)
    BY <1>1, <1>3, <1>5, UnchangedOf DEF Alike
  <1>7. ASSUME e \in Dictations \ (exempt' \cup dropped') PROVE Secure(e)'
    <2>0. e \notin exempt \cup dropped
      BY <1>1, <1>3, <1>7
    <2>1. Secure(e) /\ Has(e, "transcribing") /\ Fresh(e)
      BY <1>1, <1>4, <2>0 DEF Safe, Secure, OneCall
    <2>2. /\ Fresh(e)' /\ ~Asking(e)' /\ ~Live(e)' /\ \A p : Has(e, p)' <=> Has(e, p)
          /\ AsksOf(e)' = {} /\ cache'[e] = None
      BY <1>1, <1>4, <2>0, <2>1, AskingOf, UnchangedOf DEF Fresh, Asking, Has
    <2>3. OneCall(e)'
      BY <1>1, <1>4, <1>5, <2>0, <2>1, <2>2 DEF OneCall
    <2>4. Sent(e)'
      BY <1>2, <1>3, <1>5, <1>7, <2>0, <2>2 DEF Sent, Cached
    <2>5. Clicked(e)' /\ Behind(e)' /\ SelectionLeft(e)'
      BY <1>1, <1>3, <1>7, <2>1, <2>2, UnchangedOf DEF Clicked, Behind, SelectionLeft, Secure
    <2> QED BY <2>3, <2>4, <2>5 DEF Secure
  <1>8. \A f \in Requests : Owns(e, f)' => Owns(e, f) \/ f = calls + 1
    BY <1>1, <1>2, <1>5, UnchangedOf DEF Owns, Requests, None
  <1> QED BY <1>1, <1>3, <1>6, <1>7, <1>8, SafeTouch

LEMMA ReadFailsSafe == ASSUME Safe, VoiceInv', NEW e \in Dictations, ReadFails(e) PROVE Safe'
  <1>1. /\ e \in reading /\ reading' = reading \ {e} /\ pending' = pending \ {e}
        /\ inflight' = dropInflight(e)
        /\ removeMarker(e, "transcribing")
        /\ UNCHANGED <<recVars, cache, files, requests, answers, asks, calls, acts, edits, dropped, exempt>>
    BY DEF ReadFails, serverVars
  <1>2. \A d \in Dictations \ {e} : inflight'[d] = inflight[d]
    BY <1>1 DEF dropInflight, Safe, VoiceInv, Types
  <1>3. e \notin dropped => Dictation(e) /\ Quiet(e) /\ ~Has(e, "rescue")
    <2>1. e \notin dropped => Dictation(e)
      BY DEF Safe, VoiceInv
    <2> QED BY <1>1, <2>1 DEF Dictation, Has
  <1>4. /\ \A d \in Dictations \ {e} : note'[d] = note[d] /\ jobs'[d] = jobs[d]
        /\ e \notin dropped => ~Has(e, "transcribing")'
        /\ (Has(e, "rescue")' <=> Has(e, "rescue"))
        /\ SelectionLeft(e) => SelectionLeft(e)'
    BY <1>1, MarkerRemoved, PieceFacts, UnchangedOf DEF Safe
  <1>5. \A d \in Dictations \ {e} : Alike(d)
    BY <1>1, <1>2, <1>4, UnchangedOf DEF Alike
  <1>6. ASSUME e \in Dictations \ (exempt' \cup dropped') PROVE Secure(e)'
    <2>1. Secure(e) /\ Fresh(e) /\ e \notin dropped
      BY <1>1, <1>6 DEF Safe, Secure, OneCall
    <2>2. RequestsOf(e)' = {} /\ AnswersOf(e)' = {} /\ AsksOf(e)' = {} /\ cache'[e] = None
      BY <1>1, <1>3, <2>1, NothingOut, UnchangedOf, AskingOf DEF Fresh
    <2>3. ~Placed(e)' /\ SelectionLeft(e)'
      BY <1>3, <1>4, <2>1 DEF Placed, Secure
    <2> QED BY <1>1, <2>2, <2>3, RecordedOnly
  <1>7. \A f : Owns(e, f)' <=> Owns(e, f)
    BY <1>1, UnchangedOf DEF Owns
  <1> QED BY <1>1, <1>5, <1>6, <1>7, SafeTouch

\* The wait is given up, by the watchdog or because the call was refused.
LEMMA GiveUpSafe ==
  ASSUME Safe, VoiceInv', NEW e \in Dictations, giveUpWaiting(e),
         UNCHANGED <<recVars, reading, pending, jobs, cache, serverVars, asks, calls,
                     acts, edits, dropped, exempt>>,
         answers' \subseteq answers,
         \A a \in answers : a \in answers' \/ (a.d = e /\ a.result = "refused")
  PROVE  Safe'
  <1>1. UNCHANGED <<files, requests>>
    BY DEF serverVars
  <1>2. \A d \in Dictations \ {e} : AnswersOf(d)' = AnswersOf(d)
    BY DEF AnswersOf
  <1>3. AnswersOf(e)' \subseteq AnswersOf(e)
        /\ \A x \in AnswersOf(e) : Success(x) => x \in AnswersOf(e)'
    BY DEF AnswersOf, Success
  <1>4. \/ UNCHANGED <<note, inflight>>
        \/ /\ inflight[e].kept /\ ~inflight[e].timedOut
           /\ inflight' = [inflight EXCEPT ![e].timedOut = TRUE, ![e].timer = FALSE]
           /\ replaceAnchor(e, "transcribing", "rescue")
    BY DEF giveUpWaiting
  <1>5. \A d \in Dictations \ {e} : note'[d] = note[d] /\ inflight'[d] = inflight[d]
    <2>1. CASE replaceAnchor(e, "transcribing", "rescue")
      BY <1>4, <2>1, Moved, PieceFacts DEF Safe, VoiceInv, Types
    <2> QED BY <1>4, <2>1
  <1>6. \A d \in Dictations \ {e} : Alike(d)
    BY <1>1, <1>2, <1>5, UnchangedOf DEF Alike
  <1>7. ASSUME e \in Dictations \ (exempt' \cup dropped') PROVE Secure(e)'
    <2>1. Secure(e)
      BY <1>7 DEF Safe
    <2>2. /\ Asking(e)' = Asking(e) /\ Fresh(e)' = Fresh(e) /\ Live(e)' = Live(e)
          /\ RequestsOf(e)' = RequestsOf(e) /\ AsksOf(e)' = AsksOf(e)
      BY <1>1, UnchangedOf DEF Asking, Fresh
    <2>3. CASE UNCHANGED <<note, inflight>>
      <3>1. \A p : Has(e, p)' <=> Has(e, p)
        BY <2>3 DEF Has
      <3>2. OneCall(e)'
        BY <1>3, <2>1, <2>2, <2>3, <3>1 DEF Secure, OneCall
      <3>3. Sent(e)' /\ Clicked(e)' /\ SelectionLeft(e)'
        BY <1>1, <1>3, <2>1, <2>2, <2>3, <3>1, UnchangedOf
           DEF Secure, Sent, Clicked, SelectionLeft, Placed
      <3>4. Behind(e)'
        BY <1>1, <1>3, <2>1, <2>2, <2>3, <3>1 DEF Secure, Behind, Placed
      <3> QED BY <3>2, <3>3, <3>4 DEF Secure
    <2>4. CASE /\ inflight[e].kept /\ ~inflight[e].timedOut
               /\ inflight' = [inflight EXCEPT ![e].timedOut = TRUE, ![e].timer = FALSE]
               /\ replaceAnchor(e, "transcribing", "rescue")
      <3>1. /\ Dictation(e) /\ e \in pending /\ ~Has(e, "rescue")
        <4>1. Dictation(e)
          BY <1>7 DEF Safe, VoiceInv
        <4> QED BY <2>4, <4>1 DEF Dictation, Has
      <3>2. inflight'[e].timedOut /\ inflight'[e].kept /\ inflight'[e].audio = inflight[e].audio
        BY <2>4 DEF Safe, VoiceInv, Types, Entries
      <3>3. Has(e, "transcribing") /\ ~Asking(e) /\ AsksOf(e) = {}
        BY <2>1, <2>4, <3>1, AskingOf DEF Secure, OneCall, Clicked
      <3>4. ~Has(e, "transcribing")' /\ Has(e, "rescue")'
        BY <1>7, <2>4, Moved, PieceFacts DEF Safe
      <3>5. SelectionLeft(e)'
        BY <2>1, <2>4, MarkerMoved, PieceFacts, UnchangedOf DEF Safe, Secure
      <3>6. OneCall(e)'
        BY <1>3, <2>1, <2>2, <3>1, <3>2, <3>4 DEF Secure, OneCall
      <3>7. Sent(e)' /\ Clicked(e)'
        BY <1>1, <1>3, <2>1, <2>2, <3>2, <3>3, <3>4 DEF Secure, Sent, Clicked, Placed
      <3>8. Behind(e)'
        BY <1>1, <1>3, <2>1, <2>2, <2>4, <3>2, <3>3, <3>4 DEF Secure, Behind, Placed
      <3> QED BY <3>5, <3>6, <3>7, <3>8 DEF Secure
    <2> QED BY <1>4, <2>3, <2>4
  <1>8. \A f : Owns(e, f)' => Owns(e, f)
    BY <1>1, <1>3, UnchangedOf DEF Owns
  <1> QED BY <1>6, <1>7, <1>8, SafeTouch

LEMMA TimesOutSafe == ASSUME Safe, VoiceInv', NEW e \in Dictations, TimesOut(e) PROVE Safe'
  BY GiveUpSafe DEF TimesOut

-----------------------------------------------------------------------------
(* The backend *)

\* The one call about e goes on, or its answer is on the way.
LEMMA CallGoesOn ==
  ASSUME Safe, VoiceInv', NEW r \in requests, NEW x, NEW back \in BOOLEAN,
         x.d = r.d,
         ~back => /\ requests' = (requests \ {r}) \cup {x} /\ UNCHANGED answers
                  /\ x.file = r.file
                  /\ \/ r.what = "cache" /\ x.what = "cache read" /\ UNCHANGED files
                     \/ r.what = "cache read" /\ x.what = "cache refine",
         back =>
            /\ x.what = r.what
            /\ requests' = requests \ {r} /\ answers' = answers \cup {x}
            /\ x.file = None \/ (x.file \in Requests /\ Owns(r.d, x.file))
            /\ x.result = "error" =>
                 /\ files \subseteq files'
                 /\ x.what = "audio" => x.file \in files' \cup {None}
                 /\ Cached(x) => x.file = r.file /\ x.what # "cache refine"
            /\ Success(x) \/ x.result \in {"error", "refused"}
            /\ x.result = "refused" => files' = files /\ x.what # "cache refine",
         files \ {r.file} \subseteq files',
         UNCHANGED <<note, recVars, reading, pending, inflight, jobs, cache, asks, calls,
                     acts, edits, dropped, exempt>>
  PROVE  Safe'
  <1>0. PICK e : e = r.d
    OBVIOUS
  <1>1. e \in Dictations /\ r \in RequestType
    BY <1>0 DEF Safe, VoiceInv, Types, RequestType
  <1>2. r \in RequestsOf(e)
    BY <1>0 DEF RequestsOf
  <1>3. \A d \in Dictations \ {e} :
           RequestsOf(d)' = RequestsOf(d) /\ AnswersOf(d)' = AnswersOf(d)
    BY <1>0 DEF RequestsOf, AnswersOf
  <1>4. \A d \in Dictations \ {e} : \A f \in files : Owns(d, f) => f \in files'
    <2>1. ASSUME NEW d \in Dictations \ {e}, NEW f \in files, Owns(d, f) PROVE f # r.file
      <3>1. f \in Requests
        BY DEF Safe, VoiceInv, Types
      <3>2. ~Owns(e, f)
        BY <1>1, <2>1, <3>1 DEF Safe, Owners
      <3> QED BY <1>2, <3>2 DEF Owns
    <2> QED BY <2>1
  <1>5. \A d \in Dictations \ {e} : Alike(d)
    BY <1>3, <1>4, UnchangedOf DEF Alike
  <1>6. ASSUME e \in Dictations \ (exempt' \cup dropped') PROVE Secure(e)'
    <2>1. Secure(e)
      BY <1>6 DEF Safe
    <2>2. RequestsOf(e) = {r} /\ AnswersOf(e) = {}
      BY <1>2, <2>1 DEF Secure, OneCall
    <2>3. \/ RequestsOf(e)' = {x} /\ AnswersOf(e)' = {} /\ ~back
          \/ RequestsOf(e)' = {} /\ AnswersOf(e)' = {x} /\ back
      BY <1>0, <2>2 DEF RequestsOf, AnswersOf
    <2>4. /\ Asking(e)' = Asking(e) /\ Fresh(e)' = Fresh(e) /\ Live(e)' = Live(e)
          /\ AsksOf(e)' = AsksOf(e) /\ Placed(e)' = Placed(e)
          /\ \A p : Has(e, p)' <=> Has(e, p)
      BY UnchangedOf DEF Asking, Fresh, Placed, Has
    <2>5. OneCall(e)'
      BY <2>1, <2>2, <2>3, <2>4 DEF Secure, OneCall
    <2>6. Sent(e)'
      <3>1. /\ r.what = "audio" => inflight[e].audio /\ Fresh(e)
            /\ Cached(r) => r.file # None /\ (Placed(e) => r.file = cache[e])
        BY <1>2, <2>1 DEF Secure, Sent
      <3>2. x.what = "audio" => r.what = "audio"
        BY DEF Cached
      <3>3. Cached(x) => Cached(r)
        BY DEF Cached
      <3> QED BY <2>2, <2>3, <2>4, <3>1, <3>2, <3>3 DEF Sent
    <2>7. Clicked(e)' /\ SelectionLeft(e)'
      BY <2>1, <2>4, UnchangedOf DEF Secure, Clicked, SelectionLeft
    <2>8. Behind(e)'
      <3>1. CASE RequestsOf(e)' = {} /\ AnswersOf(e)' = {x} /\ Success(x)
        BY <2>1, <2>4, <3>1 DEF Secure, Behind
      <3>2. CASE RequestsOf(e)' = {x} /\ x.what = "cache refine"
        BY <2>1, <2>4, <3>2 DEF Secure, Behind
      <3>3. CASE files \subseteq files' /\ r.what # "cache refine"
        BY <2>1, <2>2, <2>4, <3>3 DEF Secure, Behind
      <3> QED BY <2>3, <3>1, <3>2, <3>3 DEF Cached
    <2> QED BY <2>5, <2>6, <2>7, <2>8 DEF Secure
  <1>7. ASSUME NEW f \in Requests, Owns(e, f)' PROVE Owns(e, f)
    <2>0. f # None
      BY NotNone
    <2>1. UNCHANGED cache /\ AsksOf(e)' = AsksOf(e)
      BY UnchangedOf
    <2>2. \A y \in RequestsOf(e)' : y \in RequestsOf(e) \/ (y = x /\ ~back)
      BY DEF RequestsOf
    <2>3. \A y \in AnswersOf(e)' : y \in AnswersOf(e) \/ (y = x /\ back)
      BY DEF AnswersOf
    <2>4. ~back => x.file = r.file /\ x.what # "audio"
      BY DEF Cached
    <2>5. x.file = f /\ back => Owns(e, f)
      BY <1>0, <2>0
    <2> QED BY <1>2, <1>7, <2>1, <2>2, <2>3, <2>4, <2>5 DEF Owns
  <1> QED BY <1>5, <1>6, <1>7, SafeTouch

LEMMA RefusedSafe == ASSUME Safe, VoiceInv', NEW r \in requests, Refused(r) PROVE Safe'
  <1>1. PICK x : x = [n |-> r.n, d |-> r.d, result |-> "refused", what |-> r.what, file |-> None]
    OBVIOUS
  <1>2. /\ x.d = r.d /\ x.what = r.what /\ x.file = None /\ x.result = "refused"
        /\ r.what # "cache refine"
        /\ requests' = requests \ {r} /\ answers' = answers \cup {x}
    BY <1>1 DEF Refused, Ended, Answer
  <1>3. UNCHANGED <<note, recVars, reading, pending, inflight, jobs, cache, files, asks, calls,
                    acts, edits, dropped, exempt>>
    BY DEF Refused
  <1>4. PICK back \in BOOLEAN : back = TRUE
    OBVIOUS
  <1> QED BY <1>2, <1>3, <1>4, CallGoesOn

LEMMA ReadsCacheSafe == ASSUME Safe, VoiceInv', NEW r \in requests, ReadsCache(r) PROVE Safe'
  <1>1. /\ r.what = "cache" /\ r \in RequestType /\ r.d \in Dictations
        /\ UNCHANGED <<note, recVars, reading, pending, inflight, jobs, cache, files, asks,
                       calls, acts, edits, dropped, exempt>>
    BY DEF ReadsCache, Safe, VoiceInv, Types, RequestType
  <1>2. CASE r.file \in files
    <2>1. PICK x : x = [r EXCEPT !.what = "cache read"]
      OBVIOUS
    <2>2. /\ x.d = r.d /\ x.what = "cache read" /\ x.file = r.file
          /\ requests' = (requests \ {r}) \cup {x} /\ UNCHANGED answers
      BY <1>1, <1>2, <2>1 DEF ReadsCache, RequestType
    <2>3. PICK back \in BOOLEAN : back = FALSE
      OBVIOUS
    <2> QED BY <1>1, <2>2, <2>3, CallGoesOn
  <1>3. CASE r.file \notin files
    <2>1. PICK x : x = [n |-> r.n, d |-> r.d, result |-> "error", what |-> r.what,
                        file |-> r.file]
      OBVIOUS
    <2>2. /\ x.d = r.d /\ x.what = "cache" /\ x.file = r.file /\ x.result = "error"
          /\ requests' = requests \ {r} /\ answers' = answers \cup {x}
      BY <1>1, <1>3, <2>1 DEF ReadsCache, Ended, Answer
    <2>3. x.file = None \/ (x.file \in Requests /\ Owns(r.d, x.file))
      BY <1>1, <2>2 DEF RequestType, Files, Owns, RequestsOf
    <2>4. PICK back \in BOOLEAN : back = TRUE
      OBVIOUS
    <2> QED BY <1>1, <2>2, <2>3, <2>4, CallGoesOn
  <1> QED BY <1>2, <1>3

LEMMA RemovesCachedSafe ==
  ASSUME Safe, VoiceInv', NEW r \in requests, RemovesCached(r) PROVE Safe'
  <1>1. r.what = "cache read" /\ r \in RequestType
    BY DEF RemovesCached, Safe, VoiceInv, Types
  <1>2. PICK x : x = [r EXCEPT !.what = "cache refine"]
    OBVIOUS
  <1>3. /\ x.d = r.d /\ x.what = "cache refine" /\ x.file = r.file
        /\ requests' = (requests \ {r}) \cup {x} /\ files \ {r.file} \subseteq files'
    BY <1>1, <1>2 DEF RemovesCached, RequestType
  <1>4. UNCHANGED <<note, recVars, reading, pending, inflight, jobs, cache, answers, asks,
                    calls, acts, edits, dropped, exempt>>
    BY DEF RemovesCached
  <1>5. PICK back \in BOOLEAN : back = FALSE
    OBVIOUS
  <1> QED BY <1>1, <1>3, <1>4, <1>5, CallGoesOn

LEMMA TranscribedSafe == ASSUME Safe, VoiceInv', NEW r \in requests, Transcribed(r) PROVE Safe'
  <1>1. PICK result \in {"text", "not refined"} : Answer(r, result, None)
    BY DEF Transcribed
  <1>2. PICK x : x = [n |-> r.n, d |-> r.d, result |-> result, what |-> r.what, file |-> None]
    OBVIOUS
  <1>3. /\ x.d = r.d /\ x.what = r.what /\ x.file = None /\ Success(x) /\ x.result # "error"
        /\ x.result # "refused"
        /\ requests' = requests \ {r} /\ answers' = answers \cup {x}
    BY <1>1, <1>2 DEF Transcribed, Ended, Answer, Success
  <1>4. UNCHANGED <<note, recVars, reading, pending, inflight, jobs, cache, files, asks,
                    calls, acts, edits, dropped, exempt>>
    BY DEF Transcribed
  <1>5. PICK back \in BOOLEAN : back = TRUE
    OBVIOUS
  <1> QED BY <1>3, <1>4, <1>5, CallGoesOn

LEMMA PanicsSafe == ASSUME Safe, VoiceInv', NEW r \in requests, Panics(r) PROVE Safe'
  <1>1. PICK e \in Dictations : e = r.d
    BY DEF Safe, VoiceInv, Types, RequestType
  <1>2. PICK x : x = [n |-> r.n, d |-> r.d, result |-> "error", what |-> r.what, file |-> r.file]
    OBVIOUS
  <1>3. /\ x.d = e /\ x.file = r.file
        /\ requests' = requests \ {r} /\ answers' = answers \cup {x}
        /\ exempt' = exempt \cup {e}
        /\ UNCHANGED <<note, recVars, reading, pending, inflight, jobs, cache, files, asks,
                       calls, acts, edits, dropped>>
    BY <1>1, <1>2 DEF Panics, Ended, Answer
  <1>4. \A d \in Dictations \ {e} :
           RequestsOf(d)' = RequestsOf(d) /\ AnswersOf(d)' = AnswersOf(d)
    BY <1>1, <1>3 DEF RequestsOf, AnswersOf
  <1>5. \A d \in Dictations \ {e} : Alike(d)
    BY <1>3, <1>4, UnchangedOf DEF Alike
  <1>6. ASSUME NEW f \in Requests, Owns(e, f)' PROVE Owns(e, f)
    <2>1. r \in RequestsOf(e)
      BY <1>1 DEF RequestsOf
    <2>2. RequestsOf(e)' \subseteq RequestsOf(e)
      BY <1>3 DEF RequestsOf
    <2>3. \A y \in AnswersOf(e)' : y \in AnswersOf(e) \/ y.file = r.file
      BY <1>3 DEF AnswersOf
    <2> QED BY <1>3, <1>6, <2>1, <2>2, <2>3, UnchangedOf DEF Owns
  <1> QED BY <1>3, <1>5, <1>6, SafeTouch

LEMMA FailsSafe == ASSUME Safe, VoiceInv', NEW r \in requests, Fails(r) PROVE Safe'
  <1>1. PICK file \in (CASE r.what = "audio" -> {None, r.n}
                         [] r.what = "cache read" -> {r.file}
                         [] r.what = "meeting" -> {None}) :
           /\ files' = IF r.what = "audio" THEN files \cup ({file} \ {None}) ELSE files
           /\ Answer(r, "error", file)
    BY DEF Fails
  <1>2. r \in RequestType /\ r.d \in Dictations /\ r.what \in {"audio", "cache read", "meeting"}
    BY DEF Fails, Safe, VoiceInv, Types, RequestType
  <1>3. /\ r.what = "audio" => file \in {None, r.n}
        /\ r.what = "cache read" => file = r.file
        /\ r.what = "meeting" => file = None
    BY <1>1, <1>2
  <1>4. PICK x : x = [n |-> r.n, d |-> r.d, result |-> "error", what |-> r.what, file |-> file]
    OBVIOUS
  <1>5. /\ x.d = r.d /\ x.what = r.what /\ x.file = file /\ x.result = "error"
        /\ requests' = requests \ {r} /\ answers' = answers \cup {x}
    BY <1>1, <1>4 DEF Fails, Ended, Answer
  <1>6. x.file = None \/ (x.file \in Requests /\ Owns(r.d, x.file))
    <2>1. r.n \in Requests /\ r.file \in Requests \cup {None}
      BY <1>2 DEF RequestType, Files
    <2>2. r \in RequestsOf(r.d)
      BY DEF RequestsOf
    <2> QED BY <1>2, <1>3, <1>5, <2>1, <2>2 DEF Owns
  <1>7. /\ files \subseteq files' /\ files \ {r.file} \subseteq files'
        /\ x.what = "audio" => x.file \in files' \cup {None}
        /\ Cached(x) => x.file = r.file /\ x.what # "cache refine"
    BY <1>1, <1>2, <1>3, <1>5 DEF Cached
  <1>8. UNCHANGED <<note, recVars, reading, pending, inflight, jobs, cache, asks, calls,
                    acts, edits, dropped, exempt>>
    BY DEF Fails
  <1>9. PICK back \in BOOLEAN : back = TRUE
    OBVIOUS
  <1> QED BY <1>5, <1>6, <1>7, <1>8, <1>9, CallGoesOn

-----------------------------------------------------------------------------
(* Answers *)

\* The answer of the one call about a dictation that is not exempt.
LEMMA OnlyAnswer ==
  ASSUME Safe, NEW a \in answers
  PROVE  /\ a.d \in Dictations /\ a \in AnswersOf(a.d)
         /\ a.d \notin dropped => Dictation(a.d) /\ ~Live(a.d) /\ a.d \notin reading
         /\ a.d \notin exempt \cup dropped => /\ Secure(a.d) /\ a.d \in pending
                                 /\ RequestsOf(a.d) = {} /\ AnswersOf(a.d) = {a}
  <1>1. /\ a.d \in Dictations
        /\ a.d \notin dropped => Dictation(a.d) /\ ~Live(a.d) /\ a.d \notin reading
    BY OutFacts DEF Safe
  <1>2. a \in AnswersOf(a.d)
    BY DEF AnswersOf
  <1>3. a.d \notin exempt \cup dropped => Secure(a.d)
    BY <1>1 DEF Safe
  <1> QED BY <1>1, <1>2, <1>3 DEF Secure, OneCall

\* After an answer has come: of e nothing is out any more.
LEMMA AnswerGone ==
  ASSUME Safe, VoiceInv', NEW e \in Dictations, NEW a \in answers, a.d = e,
         answers' = answers \ {a}, pending' = pending \ {e},
         UNCHANGED <<recVars, reading, serverVars, asks, calls, acts, edits, dropped, exempt>>,
         \A d \in Dictations \ {e} : /\ note'[d] = note[d] /\ inflight'[d] = inflight[d]
                                     /\ jobs'[d] = jobs[d] /\ cache'[d] = cache[d],
         cache'[e] \in {cache[e], a.file, None},
         e \notin exempt \cup dropped => /\ Clicked(e)' /\ Behind(e)' /\ SelectionLeft(e)'
                            /\ ~Has(e, "transcribing")'
  PROVE  Safe'
  <1>1. UNCHANGED <<files, requests>>
    BY DEF serverVars
  <1>2. \A d \in Dictations \ {e} : AnswersOf(d)' = AnswersOf(d)
    BY DEF AnswersOf
  <1>3. \A d \in Dictations \ {e} : Alike(d)
    BY <1>1, <1>2, UnchangedOf DEF Alike
  <1>4. AnswersOf(e)' = AnswersOf(e) \ {a}
    BY DEF AnswersOf
  <1>5. ASSUME e \in Dictations \ (exempt' \cup dropped') PROVE Secure(e)'
    <2>1. RequestsOf(e)' = {} /\ AnswersOf(e)' = {}
      BY <1>1, <1>4, <1>5, OnlyAnswer, UnchangedOf
    <2>2. e \notin reading' /\ ~Live(e)'
      BY <1>5, OnlyAnswer, UnchangedOf
    <2>3. OneCall(e)' /\ Sent(e)'
      BY <1>5, <2>1, <2>2 DEF OneCall, Sent
    <2> QED BY <1>5, <2>3 DEF Secure
  <1>6. \A f \in Requests : Owns(e, f)' => Owns(e, f)
    <2>1. a \in AnswersOf(e)
      BY OnlyAnswer
    <2> QED BY <1>1, <1>4, <2>1, NotNone, UnchangedOf DEF Owns
  <1> QED BY <1>3, <1>5, <1>6, SafeTouch

\* What the note holds of a dictation once its answer has landed.
LEMMA Landed ==
  ASSUME Safe, NEW a \in answers, NEW new \in {"nothing", "rescue", "text", "selection"},
         Lands(a, new)
  PROVE  /\ \A d \in Dictations \ {a.d} : note'[d] = note[d]
         /\ a.d \in pending /\ a.d \notin dropped =>
              /\ ~Has(a.d, "transcribing")' /\ (Has(a.d, "rescue")' <=> new = "rescue")
              /\ \A p \in {"selection", "text", "audio"} : Has(a.d, p) => Has(a.d, p)'
              /\ new \in Pieces => Has(a.d, new)'
  <1>0. PICK e \in Dictations : e = a.d
    BY OnlyAnswer
  <1>1. CASE e \notin pending
    BY <1>0, <1>1 DEF Lands
  <1>2. CASE e \in pending
    <2>1. PICK old \in {"transcribing", "rescue"} : replaceAnchor(e, old, new)
      BY <1>0, <1>2 DEF Lands, waitingAnchor
    <2>2. /\ \A d \in Dictations \ {e} : note'[d] = note[d]
          /\ e \notin dropped =>
               /\ note'[e]["transcribing"] = 0
               /\ note'[e]["rescue"] = IF new = "rescue" THEN 1 ELSE 0
      BY <1>0, <1>2, LandsOn, PieceFacts DEF Safe, Becomes
    <2>3. \A p \in Pieces : note'[e][p] = note[e][p] + (IF p = new THEN 1 ELSE 0)
                                - (IF p = old /\ note[e][p] > 0 THEN 1 ELSE 0)
      BY <2>1, PieceFacts, NoteStep DEF Safe, VoiceInv, Types
    <2>4. \A p \in Pieces : note[e][p] \in Nat
      BY Marked DEF Safe
    <2>5. ASSUME NEW p \in {"selection", "text", "audio"}, Has(e, p) PROVE Has(e, p)'
      <3>1. p \in Pieces /\ p # old
        BY PieceFacts
      <3>2. note'[e][p] = note[e][p] + (IF p = new THEN 1 ELSE 0)
        BY <2>3, <2>4, <3>1
      <3> QED BY <2>4, <2>5, <3>1, <3>2 DEF Has
    <2>6. new \in {"text", "selection"} => Has(e, new)'
      BY <2>3, <2>4, PieceFacts DEF Has
    <2>7. e \notin dropped => ~Has(e, "transcribing")' /\ (Has(e, "rescue")' <=> new = "rescue")
      BY <2>2 DEF Has
    <2> QED BY <1>0, <1>2, <2>2, <2>5, <2>6, <2>7, PieceFacts
  <1> QED BY <1>1, <1>2

\* No retry marker and no answer to wait for: nothing need be behind it.
LEMMA Unplaced ==
  ASSUME NEW e, ~Has(e, "transcribing")', ~Has(e, "rescue")'
  PROVE  Clicked(e)' /\ Behind(e)'
  BY DEF Clicked, Behind, Placed

LEMMA MeetingFailedSafe ==
  ASSUME Safe, VoiceInv', NEW a \in answers, onVoiceResult(a), MeetingFailed(a) PROVE Safe'
  <1>0. PICK e \in Dictations : e = a.d
    BY OnlyAnswer
  <1>1. /\ answers' = answers \ {a} /\ pending' = pending \ {e}
        /\ jobs[e] = "meeting" /\ Lands(a, "nothing") /\ jobs' = [jobs EXCEPT ![e] = "none"]
        /\ UNCHANGED <<recVars, reading, serverVars, asks, calls, acts, edits, dropped, exempt,
                       inflight, cache>>
    BY <1>0 DEF onVoiceResult, Answered, MeetingFailed
  <1>2. \A d \in Dictations \ {e} : jobs'[d] = jobs[d] /\ note'[d] = note[d]
    BY <1>0, <1>1, JobEnds, Landed DEF Safe
  <1>3. ASSUME e \notin exempt \cup dropped
        PROVE  /\ Clicked(e)' /\ Behind(e)' /\ SelectionLeft(e)' /\ ~Has(e, "transcribing")'
    <2>1. Secure(e) /\ e \in pending
      BY <1>0, <1>3, OnlyAnswer
    <2>2. /\ ~Has(e, "transcribing")' /\ ~Has(e, "rescue")'
          /\ \A p \in {"selection", "text", "audio"} : Has(e, p) => Has(e, p)'
      BY <1>0, <1>1, <1>3, <2>1, Landed
    <2> QED BY <1>1, <2>1, <2>2, Unplaced, UnchangedOf DEF Secure, SelectionLeft
  <1> QED BY <1>0, <1>1, <1>2, <1>3, AnswerGone

LEMMA SucceededSafe ==
  ASSUME Safe, VoiceInv', NEW a \in answers, onVoiceResult(a), Succeeded(a) PROVE Safe'
  <1>0. PICK e \in Dictations : e = a.d
    BY OnlyAnswer
  <1>1. /\ answers' = answers \ {a} /\ pending' = pending \ {e}
        /\ Lands(a, finalText(a)) /\ jobs' = [jobs EXCEPT ![e] = "none"]
        /\ inflight' = dropInflight(e) /\ cache' = [cache EXCEPT ![e] = None]
        /\ UNCHANGED <<recVars, reading, serverVars, asks, calls, acts, edits, dropped, exempt>>
    BY <1>0 DEF onVoiceResult, Answered, Succeeded
  <1>2. PICK new \in {"text", "selection"} : new = finalText(a)
    BY DEF finalText
  <1>3. \A d \in Dictations \ {e} : /\ jobs'[d] = jobs[d] /\ note'[d] = note[d]
                                    /\ inflight'[d] = inflight[d] /\ cache'[d] = cache[d]
    BY <1>0, <1>1, <1>2, JobEnds, DroppedType, CacheSet, Landed DEF Safe, Files
  <1>4. cache'[e] = None
    BY <1>1, CacheSet DEF Safe, Files
  <1>5. ASSUME e \notin exempt \cup dropped
        PROVE  /\ Clicked(e)' /\ Behind(e)' /\ SelectionLeft(e)' /\ ~Has(e, "transcribing")'
    <2>1. /\ ~Has(e, "transcribing")' /\ ~Has(e, "rescue")' /\ Has(e, new)'
      BY <1>0, <1>1, <1>2, <1>5, OnlyAnswer, Landed, PieceFacts
    <2>2. SelectionLeft(e)
      BY <1>5 DEF Safe, Secure
    <2> QED BY <1>1, <2>1, <2>2, Unplaced, UnchangedOf DEF SelectionLeft
  <1> QED BY <1>0, <1>1, <1>3, <1>4, <1>5, AnswerGone

LEMMA FailedSafe ==
  ASSUME Safe, VoiceInv', NEW a \in answers, onVoiceResult(a), Failed(a) PROVE Safe'
  <1>0. PICK e \in Dictations : e = a.d
    BY OnlyAnswer
  <1>1. /\ answers' = answers \ {a} /\ pending' = pending \ {e}
        /\ a.result = "error" /\ jobs[e] # "meeting" /\ jobs' = jobs
        /\ IF inflight[e].timedOut THEN UNCHANGED note ELSE Lands(a, "rescue")
        /\ \/ /\ a.file # None /\ cache' = [cache EXCEPT ![e] = a.file]
              /\ inflight' = dropInflight(e)
           \/ a.file = None /\ inflight' = KeepsMemory(e) /\ UNCHANGED cache
        /\ UNCHANGED <<recVars, reading, serverVars, asks, calls, acts, edits, dropped, exempt>>
    BY <1>0 DEF onVoiceResult, Answered, Failed, waitingAnchor
  <1>2. a.file \in Files /\ a \in AnswerType
    BY OutFacts DEF Safe, AnswerType
  <1>3. /\ \A d \in Dictations \ {e} : inflight'[d] = inflight[d] /\ cache'[d] = cache[d]
        /\ cache'[e] = IF a.file # None THEN a.file ELSE cache[e]
        /\ a.file = None => inflight'[e].audio = inflight[e].audio
    <2>1. CASE a.file # None
      BY <1>1, <1>2, <2>1, DroppedType, CacheSet DEF Safe
    <2>2. CASE a.file = None /\ inflight[e].kept
      <3>1. inflight' = [inflight EXCEPT ![e].timedOut = TRUE, ![e].timer = FALSE]
        BY <1>1, <2>2 DEF KeepsMemory
      <3> QED BY <1>1, <2>2, <3>1, GivenUpType DEF Safe
    <2>3. CASE a.file = None /\ ~inflight[e].kept
      BY <1>1, <2>3 DEF KeepsMemory
    <2> QED BY <2>1, <2>2, <2>3
  <1>4. \A d \in Dictations \ {e} : jobs'[d] = jobs[d] /\ note'[d] = note[d]
    BY <1>0, <1>1, Landed
  <1>5. ASSUME e \notin exempt \cup dropped
        PROVE  /\ Clicked(e)' /\ Behind(e)' /\ SelectionLeft(e)' /\ ~Has(e, "transcribing")'
    <2>1. /\ Secure(e) /\ e \in pending /\ a \in AnswersOf(e) /\ AnswersOf(e) = {a}
          /\ Dictation(e) /\ RequestsOf(e) = {}
      BY <1>0, <1>5, OnlyAnswer
    <2>2. a.what = "audio" \/ Cached(a)
      <3>1. a.what # "meeting"
        BY <1>0, <1>1, <2>1 DEF Dictation, MeetingOut
      <3> QED BY <1>2, <3>1 DEF AnswerType, Calls, Cached
    <2>3. Placed(e)' => Placed(e)
      BY <1>1, <2>1 DEF Placed, Secure, OneCall, Has
    <2>4. /\ ~Has(e, "transcribing")'
          /\ \A p \in {"selection", "text", "audio"} : Has(e, p) => Has(e, p)'
          /\ (\E p \in Markers : Has(e, p)) => \E p \in Markers : Has(e, p)'
      <3>1. CASE inflight[e].timedOut
        <4>1. ~Has(e, "transcribing")
          BY <2>1, <3>1, Marked DEF Dictation, Waiting, Has, Safe
        <4> QED BY <1>1, <3>1, <4>1, PieceFacts DEF Has
      <3>2. CASE ~inflight[e].timedOut
        BY <1>0, <1>1, <1>5, <2>1, <3>2, Landed, PieceFacts
      <3> QED BY <3>1, <3>2
    <2>5. AsksOf(e)' = AsksOf(e) /\ files' = files
      BY <1>1, UnchangedOf DEF serverVars
    <2>6. SelectionLeft(e)'
      BY <1>1, <2>1, <2>4, UnchangedOf DEF Secure, SelectionLeft
    <2>7. CASE a.what = "audio"
      <3>1. Fresh(e) /\ AsksOf(e) = {} /\ inflight[e].audio /\ a.file \in files \cup {None}
        BY <1>1, <2>1, <2>7, AskingOf DEF Secure, Sent, Fresh
      <3>2. Clicked(e)'
        BY <2>4, <2>5, <3>1 DEF Clicked
      <3>3. Behind(e)'
        BY <1>3, <2>4, <2>5, <3>1 DEF Behind, Fresh
      <3> QED BY <2>4, <2>6, <3>2, <3>3
    <2>8. CASE Cached(a)
      <3>1. a.file # None /\ (Placed(e) => a.file = cache[e])
        BY <1>1, <2>1, <2>8 DEF Secure, Sent, Cached
      <3>2. Placed(e) => cache'[e] = cache[e]
        BY <1>3, <3>1
      <3>3. Clicked(e)'
        <4>1. CASE Has(e, "rescue")
          BY <2>1, <2>4, <2>5, <3>2, <4>1 DEF Clicked, Secure, Placed
        <4>2. CASE Has(e, "transcribing")
          <5>1. AsksOf(e) = {}
            BY <2>1, <4>2, AskingOf DEF Secure, Clicked
          <5> QED BY <2>4, <2>5, <5>1 DEF Clicked
        <4>3. CASE ~Placed(e)
          BY <2>3, <2>4, <4>3, Unplaced DEF Placed
        <4> QED BY <4>1, <4>2, <4>3 DEF Placed
      <3>4. ~Success(a)
        BY <1>1 DEF Success
      <3>5. Placed(e)' => cache'[e] # None
        BY <2>3, <3>1, <3>2
      <3>6. Behind(e)'
        BY <2>1, <2>3, <2>4, <2>5, <3>2, <3>4, <3>5 DEF Behind, Secure, Placed
      <3> QED BY <2>4, <2>6, <3>3, <3>6
    <2> QED BY <2>2, <2>7, <2>8
  <1>6. cache'[e] \in {cache[e], a.file, None}
    BY <1>3
  <1> QED BY <1>0, <1>1, <1>3, <1>4, <1>5, <1>6, AnswerGone

LEMMA CallRefusedSafe == ASSUME Safe, VoiceInv', NEW a \in answers, CallRefused(a) PROVE Safe'
  <1>0. PICK e \in Dictations : e = a.d
    BY OnlyAnswer
  <1>1. /\ a.result = "refused" /\ answers' = answers \ {a}
        /\ UNCHANGED <<recVars, reading, cache, serverVars, asks, calls, acts, edits, dropped, exempt>>
    BY DEF CallRefused
  <1>2. CASE a.what = "meeting"
    <2>1. pending' = pending \ {e} /\ removeMarker(e, "transcribing") /\ UNCHANGED inflight
      BY <1>0, <1>2 DEF CallRefused
    <2>2. /\ \A d \in Dictations \ {e} : note'[d] = note[d] /\ jobs'[d] = jobs[d]
          /\ e \notin dropped => ~Has(e, "transcribing")'
          /\ (Has(e, "rescue")' <=> Has(e, "rescue"))
          /\ SelectionLeft(e) => SelectionLeft(e)'
      BY <1>1, <2>1, MarkerRemoved, PieceFacts, UnchangedOf DEF Safe
    <2>3. e \notin dropped => ~Has(e, "rescue")
      BY <1>0, <1>2, OnlyAnswer, Marked DEF Dictation, MeetingOut, Has, Safe
    <2>4. e \notin exempt \cup dropped => SelectionLeft(e)
      BY DEF Safe, Secure
    <2>5. e \notin dropped => Clicked(e)' /\ Behind(e)'
      BY <2>2, <2>3, Unplaced
    <2> QED BY <1>0, <1>1, <2>1, <2>2, <2>4, <2>5, AnswerGone
  <1>3. CASE a.what # "meeting"
    <2>1. giveUpWaiting(e) /\ UNCHANGED <<pending, jobs>>
      BY <1>0, <1>3 DEF CallRefused
    <2>2. answers' \subseteq answers
          /\ \A x \in answers : x \in answers' \/ (x.d = e /\ x.result = "refused")
      BY <1>0, <1>1
    <2> QED BY <1>1, <2>1, <2>2, GiveUpSafe
  <1> QED BY <1>2, <1>3

-----------------------------------------------------------------------------
(* Clicks, edits of the note, and the restart *)

LEMMA RetrySafe == ASSUME Safe, VoiceInv', NEW e \in Dictations, Retry(e) PROVE Safe'
  <1>0. PICK r : r = [n |-> calls + 1, d |-> e,
                      what |-> IF cache[e] = None THEN "audio" ELSE "cache", file |-> cache[e]]
    OBVIOUS
  <1>1. /\ Has(e, "rescue") /\ replaceAnchor(e, "rescue", "transcribing")
        /\ pending' = pending \cup {e}
        /\ Remember(Armed(e, cache[e] = None))
        /\ requests' = requests \cup {r} /\ calls' = calls + 1 /\ calls < MaxRequests
        /\ exempt' = exempt \cup Crosses(e)
        /\ UNCHANGED <<recVars, reading, jobs, cache, files, answers, asks, acts, edits>>
    BY <1>0 DEF Retry, Request
  <1>2. /\ r.d = e /\ r.file = cache[e] /\ r.n = calls + 1
        /\ IF cache[e] = None THEN r.what = "audio" ELSE r.what = "cache"
    BY <1>0
  <1>3. /\ e \notin dropped' =>
             inflight'[e].kept /\ inflight'[e].audio = (cache[e] = None)
        /\ \A d \in Dictations \ {e} : d \notin dropped' => inflight'[d] = inflight[d]
        /\ dropped \subseteq dropped'
    <2>1. PICK audio \in BOOLEAN : audio = (cache[e] = None)
      OBVIOUS
    <2> QED BY <1>1, <2>1, ArmedType DEF Safe
  <1>4. /\ \A d \in Dictations \ {e} : note'[d] = note[d]
        /\ Has(e, "transcribing")' /\ (e \notin dropped => ~Has(e, "rescue")')
    BY <1>1, Moved, PieceFacts DEF Safe
  <1>5. \A d \in Dictations \ {e} : RequestsOf(d)' = RequestsOf(d)
    BY <1>1, <1>2 DEF RequestsOf
  <1>6. \A d \in Dictations \ {e} : Alike(d)
    BY <1>1, <1>3, <1>4, <1>5, UnchangedOf DEF Alike
  <1>7. ASSUME e \in Dictations \ (exempt' \cup dropped') PROVE Secure(e)'
    <2>1. e \notin exempt \cup dropped /\ ~Out(e) /\ ~Asking(e)
      BY <1>1, <1>3, <1>7 DEF Crosses
    <2>2. Secure(e)
      BY <2>1 DEF Safe
    <2>3. RequestsOf(e)' = {r} /\ AnswersOf(e) = {} /\ AnswersOf(e)' = {} /\ AsksOf(e)' = {}
          /\ AsksOf(e) = {}
      BY <1>1, <1>2, <2>1 DEF RequestsOf, AnswersOf, AsksOf, Out, Asking
    <2>4. ~Asking(e)' /\ Fresh(e)' = (cache[e] = None)
      BY <1>1, <2>1 DEF Fresh, Asking
    <2>5. cache[e] # None => cache[e] \in files
      <3>1. RequestsOf(e) = {}
        BY <2>1 DEF Out, RequestsOf
      <3> QED BY <3>1, <1>1, <2>2, <2>3 DEF Secure, Behind, Placed
    <2>6. e \notin reading' /\ ~Live(e)'
      <3>1. ~Live(e) /\ Dictation(e) /\ note[e]["rescue"] # 0
        BY <1>1, <2>1, HandedOver, Marked, PieceFacts DEF Has, Safe
      <3> QED BY <1>1, <3>1, UnchangedOf DEF Dictation
    <2>7. OneCall(e)'
      BY <1>1, <1>4, <2>1, <2>3, <2>6 DEF OneCall
    <2>8. Sent(e)'
      BY <1>1, <1>2, <1>3, <1>7, <2>3, <2>4 DEF Sent, Cached
    <2>9. Clicked(e)'
      BY <1>4, <2>1, <2>4 DEF Clicked
    <2>10. Behind(e)'
      BY <1>1, <1>3, <1>4, <1>7, <2>1, <2>5 DEF Behind
    <2>11. SelectionLeft(e)'
      BY <1>1, <2>2, MarkerMoved, PieceFacts, UnchangedOf DEF Secure, Safe
    <2> QED BY <2>7, <2>8, <2>9, <2>10, <2>11 DEF Secure
  <1>8. \A f \in Requests : Owns(e, f)' => Owns(e, f) \/ f = calls + 1
    <2>1. \A x \in RequestsOf(e)' : x \in RequestsOf(e) \/ x = r
      BY <1>1 DEF RequestsOf
    <2> QED BY <1>1, <1>2, <2>1, UnchangedOf DEF Owns
  <1> QED BY <1>1, <1>3, <1>6, <1>7, <1>8, SafeTouch

LEMMA AskSafe ==
  ASSUME Safe, VoiceInv', NEW e \in Dictations, NEW what \in {"keep", "discard"}, Ask(e, what)
  PROVE  Safe'
  <1>0. PICK a : a = [d |-> e, what |-> what, file |-> cache[e], pc |-> "asked"]
    OBVIOUS
  <1>1. /\ Has(e, "rescue") /\ cache[e] # None
        /\ asks' = asks \cup {a} /\ a.d = e /\ a.file = cache[e]
        /\ UNCHANGED <<note, recVars, reading, pending, inflight, jobs, cache, files, requests,
                       answers, calls, edits, dropped, exempt>>
    BY <1>0 DEF Ask, serverVars
  <1>2. \A d \in Dictations \ {e} : AsksOf(d)' = AsksOf(d)
    BY <1>1 DEF AsksOf
  <1>3. AsksOf(e)' = AsksOf(e) \cup {a}
    BY <1>1 DEF AsksOf
  <1>4. \A d \in Dictations \ {e} : Alike(d)
    BY <1>1, <1>2, UnchangedOf DEF Alike
  <1>5. ASSUME e \in Dictations \ (exempt' \cup dropped') PROVE Secure(e)'
    <2>1. Secure(e) /\ ~Has(e, "transcribing") /\ e \notin reading /\ ~Live(e)
      <3>1. Secure(e)
        BY <1>1, <1>5 DEF Safe
      <3>2. Dictation(e) /\ ~Live(e) /\ note[e]["rescue"] # 0 /\ ~Has(e, "transcribing")
        BY <1>1, <1>5, HandedOver, Marked, PieceFacts DEF Has, Safe
      <3> QED BY <3>1, <3>2 DEF Dictation
    <2>2. /\ RequestsOf(e)' = RequestsOf(e) /\ AnswersOf(e)' = AnswersOf(e) /\ Live(e)' = Live(e)
          /\ Placed(e)' = Placed(e) /\ \A p : Has(e, p)' <=> Has(e, p)
      BY <1>1, UnchangedOf DEF Placed, Has
    <2>3. /\ \A x \in RequestsOf(e) : x.what # "audio"
          /\ \A x \in AnswersOf(e) : x.what # "audio"
      BY <1>1, <2>1 DEF Secure, Sent, Fresh
    <2>4. OneCall(e)'
      BY <1>1, <2>1, <2>2 DEF Secure, OneCall
    <2>5. Sent(e)'
      BY <1>1, <2>1, <2>2, <2>3 DEF Secure, Sent
    <2>6. Clicked(e)'
      BY <1>1, <1>3, <2>1, <2>2 DEF Secure, Clicked
    <2>7. Behind(e)' /\ SelectionLeft(e)'
      BY <1>1, <1>3, <2>1, <2>2, UnchangedOf DEF Secure, Behind, SelectionLeft
    <2> QED BY <2>4, <2>5, <2>6, <2>7 DEF Secure
  <1>6. \A f \in Requests : Owns(e, f)' => Owns(e, f)
    BY <1>1, <1>3, UnchangedOf DEF Owns
  <1> QED BY <1>1, <1>4, <1>5, <1>6, SafeTouch

LEMMA BackendSafe == ASSUME Safe, VoiceInv', NEW a \in asks, Backend(a) PROVE Safe'
  <1>0. PICK pc \in {"done", "failed"} :
           /\ asks' = (asks \ {a}) \cup {[a EXCEPT !.pc = pc]}
           /\ pc = "failed" => files' = files
           /\ files' \in {files, files \ {a.file}}
    BY DEF Backend
  <1>1. PICK b : /\ b = [a EXCEPT !.pc = pc]
                 /\ pc \in {"done", "failed"}
                 /\ asks' = (asks \ {a}) \cup {b}
                 /\ pc = "failed" => files' = files
                 /\ files' \in {files, files \ {a.file}}
    BY <1>0
  <1>2. PICK e \in Dictations : e = a.d /\ a \in AskType
    BY DEF Safe, VoiceInv, Types, AskType
  <1>3. /\ a.pc = "asked" /\ files \ {a.file} \subseteq files'
        /\ b.d = e /\ b.file = a.file /\ b.pc = pc
        /\ UNCHANGED <<note, recVars, reading, pending, inflight, jobs, cache, requests,
                       answers, calls, acts, edits, dropped, exempt>>
    BY <1>1, <1>2 DEF Backend, AskType
  <1>4. \A d \in Dictations \ {e} : AsksOf(d)' = AsksOf(d)
    BY <1>1, <1>2, <1>3 DEF AsksOf
  <1>5. AsksOf(e)' = (AsksOf(e) \ {a}) \cup {b} /\ a \in AsksOf(e)
    BY <1>1, <1>2, <1>3 DEF AsksOf
  <1>6. \A d \in Dictations \ {e} : \A f \in files : Owns(d, f) => f \in files'
    <2>1. ASSUME NEW d \in Dictations \ {e}, NEW f \in files, Owns(d, f) PROVE f # a.file
      <3>1. f \in Requests
        BY DEF Safe, VoiceInv, Types
      <3>2. ~Owns(e, f)
        BY <2>1, <3>1 DEF Safe, Owners
      <3> QED BY <1>5, <3>2 DEF Owns
    <2> QED BY <1>3, <2>1
  <1>7. \A d \in Dictations \ {e} : Alike(d)
    BY <1>3, <1>4, <1>6, UnchangedOf DEF Alike
  <1>8. ASSUME e \in Dictations \ (exempt' \cup dropped') PROVE Secure(e)'
    <2>1. Secure(e) /\ Asking(e) /\ Asking(e)'
      BY <1>3, <1>5, <1>8 DEF Safe, Asking, AsksOf
    <2>2. /\ RequestsOf(e)' = RequestsOf(e) /\ AnswersOf(e)' = AnswersOf(e) /\ Live(e)' = Live(e)
          /\ Placed(e)' = Placed(e) /\ (\A p : Has(e, p)' <=> Has(e, p)) /\ Fresh(e)' = Fresh(e)
      BY <1>3, <2>1, UnchangedOf DEF Placed, Has, Fresh
    <2>3. /\ \A x \in RequestsOf(e) : x.what # "audio"
          /\ \A x \in AnswersOf(e) : x.what # "audio"
      BY <2>1 DEF Secure, Sent, Fresh
    <2>4. OneCall(e)'
      BY <1>3, <2>1, <2>2 DEF Secure, OneCall
    <2>5. Sent(e)'
      BY <1>3, <2>1, <2>2, <2>3 DEF Secure, Sent
    <2>6. Clicked(e)' /\ SelectionLeft(e)'
      BY <1>3, <1>5, <2>1, <2>2, UnchangedOf DEF Secure, Clicked, SelectionLeft
    <2>7. Behind(e)'
      <3>1. CASE Has(e, "rescue") /\ cache[e] # None
        <4>1. a.file = cache[e]
          BY <1>5, <2>1, <3>1 DEF Secure, Clicked
        <4>2. CASE pc = "done"
          BY <1>3, <1>5, <2>1, <2>2, <4>2 DEF Secure, Behind
        <4>3. CASE pc = "failed"
          BY <1>1, <1>3, <1>5, <2>1, <2>2, <4>3 DEF Secure, Behind
        <4> QED BY <4>2, <4>3
      <3>2. CASE ~Has(e, "rescue") \/ cache[e] = None
        BY <1>3, <2>1, <2>2, <3>2 DEF Secure, Behind, Clicked, Placed
      <3> QED BY <3>1, <3>2
    <2> QED BY <2>4, <2>5, <2>6, <2>7 DEF Secure
  <1>9. \A f \in Requests : Owns(e, f)' => Owns(e, f)
    BY <1>3, <1>5, UnchangedOf DEF Owns
  <1> QED BY <1>3, <1>7, <1>8, <1>9, SafeTouch

\* The retry marker of e has given way, by Save audio or a Discard.
LEMMA RescueGone ==
  ASSUME Safe, VoiceInv', NEW e \in Dictations, e \notin dropped => ~Has(e, "rescue")',
         Has(e, "transcribing")' <=> Has(e, "transcribing"),
         ~Has(e, "transcribing") \/ e \in exempt \cup dropped,
         UNCHANGED <<recVars, reading, pending, inflight, files, requests, answers, calls,
                     edits, dropped, exempt>>,
         cache' = cache \/ cache' = [cache EXCEPT ![e] = None],
         \A d \in Dictations \ {e} : /\ note'[d] = note[d] /\ jobs'[d] = jobs[d]
                                     /\ AsksOf(d)' = AsksOf(d),
         AsksOf(e)' \subseteq AsksOf(e),
         e \notin exempt \cup dropped => SelectionLeft(e)'
  PROVE  Safe'
  <1>1. cache'[e] \in {cache[e], None} /\ \A d \in Dictations \ {e} : cache'[d] = cache[d]
    BY CacheSet DEF Safe, Files
  <1>2. \A d \in Dictations \ {e} : Alike(d)
    BY <1>1, UnchangedOf DEF Alike
  <1>3. ASSUME e \in Dictations \ (exempt' \cup dropped') PROVE Secure(e)'
    <2>1. /\ Secure(e) /\ ~Has(e, "transcribing")' /\ ~Has(e, "rescue")' /\ ~Placed(e)'
      BY <1>3 DEF Safe, Placed
    <2>2. Fresh(e) => Fresh(e)'
      <3>1. Asking(e)' => Asking(e)
        BY DEF Asking, AsksOf
      <3> QED BY <1>1, <3>1 DEF Fresh
    <2>3. RequestsOf(e)' = RequestsOf(e) /\ AnswersOf(e)' = AnswersOf(e) /\ Live(e)' = Live(e)
      BY UnchangedOf
    <2>4. OneCall(e)'
      <3>1. e \in pending => inflight[e].timedOut
        BY <1>3, <2>1 DEF Secure, OneCall
      <3> QED BY <2>1, <2>2, <2>3, <3>1 DEF Secure, OneCall
    <2>5. Sent(e)'
      BY <2>1, <2>2, <2>3 DEF Secure, Sent
    <2>6. Clicked(e)' /\ Behind(e)'
      BY <1>3, <2>1, Unplaced DEF Placed
    <2> QED BY <1>3, <2>4, <2>5, <2>6 DEF Secure
  <1>4. \A f \in Requests : Owns(e, f)' => Owns(e, f)
    BY <1>1, NotNone, UnchangedOf DEF Owns
  <1> QED BY <1>2, <1>3, <1>4, SafeTouch

LEMMA AskEndsSafe == ASSUME Safe, VoiceInv', NEW a \in asks, AskEnds(a) PROVE Safe'
  <1>1. PICK e \in Dictations : e = a.d /\ a \in AskType
    BY DEF Safe, VoiceInv, Types, AskType
  <1>2. /\ asks' = asks \ {a} /\ a.pc # "asked"
        /\ UNCHANGED <<recVars, reading, pending, inflight, files, requests, answers, calls,
                       acts, edits, dropped, exempt>>
    BY DEF AskEnds, serverVars
  <1>3. /\ AsksOf(e)' = AsksOf(e) \ {a} /\ a \in AsksOf(e) /\ Asking(e)
        /\ \A d \in Dictations \ {e} : AsksOf(d)' = AsksOf(d)
    BY <1>1, <1>2 DEF AsksOf, Asking
  <1>4. ~Has(e, "transcribing") \/ e \in exempt \cup dropped
    BY <1>3 DEF Safe, Secure, Clicked
  <1>5. e \notin exempt \cup dropped => SelectionLeft(e)
    BY DEF Safe, Secure
  <1>6. CASE a.pc = "failed" /\ UNCHANGED <<note, jobs, cache>>
    <2>1. \A d \in Dictations \ {e} : Alike(d)
      BY <1>2, <1>3, <1>6, UnchangedOf DEF Alike
    <2>2. ASSUME e \in Dictations \ (exempt' \cup dropped') PROVE Secure(e)'
      <3>1. Secure(e)
        BY <1>2, <2>2 DEF Safe
      <3>2. /\ RequestsOf(e)' = RequestsOf(e) /\ AnswersOf(e)' = AnswersOf(e)
            /\ Live(e)' = Live(e) /\ Placed(e)' = Placed(e)
            /\ \A p : Has(e, p)' <=> Has(e, p)
        BY <1>2, <1>6, UnchangedOf DEF Placed, Has
      <3>3. ~Fresh(e)
        BY <1>3 DEF Fresh
      <3>4. OneCall(e)' /\ Sent(e)'
        BY <1>2, <1>6, <3>1, <3>2, <3>3 DEF Secure, OneCall, Sent
      <3>5. Clicked(e)' /\ SelectionLeft(e)'
        BY <1>2, <1>3, <1>4, <1>6, <2>2, <3>1, <3>2, UnchangedOf
           DEF Secure, Clicked, SelectionLeft
      <3>6. Behind(e)'
        BY <1>2, <1>3, <1>6, <3>1, <3>2 DEF Secure, Behind
      <3> QED BY <3>4, <3>5, <3>6 DEF Secure
    <2>3. \A f \in Requests : Owns(e, f)' => Owns(e, f)
      BY <1>2, <1>3, <1>6, UnchangedOf DEF Owns
    <2> QED BY <1>2, <2>1, <2>2, <2>3, SafeTouch
  <1>7. CASE /\ replaceAnchor(e, "rescue", "audio")
             /\ cache' = [cache EXCEPT ![e] = None] /\ UNCHANGED jobs
    <2>1. /\ \A d \in Dictations \ {e} : note'[d] = note[d]
          /\ e \notin dropped => ~Has(e, "rescue")'
          /\ (Has(e, "transcribing")' <=> Has(e, "transcribing"))
          /\ Has(e, "audio")'
      BY <1>7, Moved, PieceFacts DEF Safe
    <2>2. e \notin exempt \cup dropped => SelectionLeft(e)'
      BY <1>2, <1>5, <2>1, UnchangedOf DEF SelectionLeft
    <2> QED BY <1>2, <1>3, <1>4, <1>7, <2>1, <2>2, RescueGone
  <1>8. CASE removeMarker(e, "rescue") /\ cache' = [cache EXCEPT ![e] = None]
    <2>1. /\ \A d \in Dictations \ {e} : note'[d] = note[d] /\ jobs'[d] = jobs[d]
          /\ e \notin dropped => ~Has(e, "rescue")'
          /\ (Has(e, "transcribing")' <=> Has(e, "transcribing"))
          /\ SelectionLeft(e) => SelectionLeft(e)'
      BY <1>2, <1>8, MarkerRemoved, PieceFacts, UnchangedOf DEF Safe
    <2> QED BY <1>2, <1>3, <1>4, <1>5, <1>8, <2>1, RescueGone
  <1> QED BY <1>1, <1>6, <1>7, <1>8 DEF AskEnds

LEMMA DiscardSafe == ASSUME Safe, VoiceInv', NEW e \in Dictations, Discard(e) PROVE Safe'
  <1>1. /\ Has(e, "rescue") /\ removeMarker(e, "rescue")
        /\ UNCHANGED <<recVars, reading, pending, inflight, cache, files, requests, answers,
                       asks, calls, edits, dropped, exempt>>
    BY DEF Discard, serverVars
  <1>2. /\ \A d \in Dictations \ {e} : note'[d] = note[d] /\ jobs'[d] = jobs[d]
        /\ e \notin dropped => ~Has(e, "rescue")'
        /\ (Has(e, "transcribing")' <=> Has(e, "transcribing"))
        /\ SelectionLeft(e) => SelectionLeft(e)'
    BY <1>1, MarkerRemoved, PieceFacts, UnchangedOf DEF Safe
  <1>3. e \notin dropped => ~Has(e, "transcribing")
    BY <1>1, Marked, PieceFacts DEF Safe
  <1>4. e \notin exempt \cup dropped => SelectionLeft(e)
    BY DEF Safe, Secure
  <1> QED BY <1>1, <1>2, <1>3, <1>4, RescueGone, UnchangedOf

LEMMA RemovesSafe ==
  ASSUME Safe, VoiceInv', NEW e \in Dictations, NEW p \in Markers, Removes(e, p) PROVE Safe'
  <1>1. /\ replaceAnchor(e, p, "nothing") /\ exempt' = exempt \cup {e}
        /\ UNCHANGED <<recVars, reading, pending, inflight, jobs, cache, files, requests,
                       answers, asks, calls, edits, dropped>>
    BY DEF Removes, serverVars
  <1>2. \A d \in Dictations \ {e} : note'[d] = note[d]
    BY <1>1, Moved, PieceFacts DEF Safe
  <1>3. \A d \in Dictations \ {e} : Alike(d)
    BY <1>1, <1>2, UnchangedOf DEF Alike
  <1>4. \A f : Owns(e, f)' <=> Owns(e, f)
    BY <1>1, UnchangedOf DEF Owns
  <1> QED BY <1>1, <1>3, <1>4, SafeTouch

\* A marker that nothing waits for is one of an exempt dictation: the others
\* keep what they have.
LEMMA SweepSafe == ASSUME Safe, VoiceInv', sweepStaleTranscribing PROVE Safe'
  <1> DEFINE stale == {d \in Dictations : Has(d, "transcribing") /\ d \notin pending}
  <1>1. /\ \A d \in Dictations : d \notin stale => note'[d] = note[d] /\ jobs'[d] = jobs[d]
        /\ UNCHANGED <<recVars, reading, pending, inflight, cache, files, requests,
                       answers, asks, calls, acts, edits, dropped, exempt>>
    BY DEF sweepStaleTranscribing, serverVars
  <1>2. \A d \in Dictations \ (exempt \cup dropped) : d \notin stale
    BY DEF Safe, Secure, OneCall
  <1> HIDE DEF stale
  <1>3. \A d \in Dictations \ (exempt \cup dropped) : Alike(d)
    BY <1>1, <1>2, UnchangedOf DEF Alike
  <1>4. \A d \in Dictations \ (exempt' \cup dropped') : Secure(d)'
    BY <1>1, <1>3, SecureFrame DEF Safe
  <1>5. \A d, f : Owns(d, f)' <=> Owns(d, f)
    BY <1>1, UnchangedOf DEF Owns
  <1>6. Owners'
    BY <1>1, <1>5 DEF Safe, Owners
  <1> QED BY <1>4, <1>6 DEF Safe

LEMMA RestartSafe == ASSUME Safe, VoiceInv', Restart PROVE Safe'
  <1>1. /\ exempt' = exempt \cup {d \in Dictations : Stranded(d)}
        /\ ~rec'.on /\ ~stopEvent' /\ reading' = {} /\ pending' = {}
        /\ inflight' = [d \in Dictations |-> NoEntry] /\ jobs' = Forgotten
        /\ requests' = {} /\ answers' = {} /\ asks' = {}
        /\ UNCHANGED <<note, started, cache, files, calls, edits, dropped>>
    BY DEF Restart, Idle
  <1>2. \A d : /\ RequestsOf(d)' = {} /\ AnswersOf(d)' = {} /\ AsksOf(d)' = {}
               /\ ~Asking(d)' /\ ~Live(d)' /\ Placed(d)' = Placed(d)
               /\ \A p : Has(d, p)' <=> Has(d, p)
    BY <1>1 DEF RequestsOf, AnswersOf, AsksOf, Asking, Live, Placed, Has
  <1>3. ASSUME NEW d \in Dictations \ (exempt' \cup dropped') PROVE Secure(d)'
    <2>1. Secure(d) /\ ~Stranded(d)
      BY <1>1, <1>3 DEF Safe
    <2>2. /\ ~Has(d, "recording") /\ ~Has(d, "transcribing") /\ ~Out(d) /\ ~Asking(d)
          /\ Has(d, "rescue") => cache[d] # None /\ jobs[d] # "edit"
      BY <2>1 DEF Stranded
    <2>3. AnswersOf(d) = {} /\ AsksOf(d) = {} /\ RequestsOf(d) = {}
      BY <2>2 DEF RequestsOf, AnswersOf, AsksOf, Out, Asking
    <2>4. Has(d, "rescue") => cache[d] \in files
      BY <2>1, <2>2, <2>3 DEF Secure, Behind, Placed
    <2>5. SelectionLeft(d)'
      BY <1>1, <1>2, <2>1, <2>2, PieceFacts DEF Secure, SelectionLeft
    <2>6. OneCall(d)' /\ Sent(d)' /\ Clicked(d)'
      BY <1>1, <1>2, <2>2 DEF OneCall, Sent, Clicked
    <2>7. ~Has(d, "transcribing")' /\ (Has(d, "rescue")' <=> Has(d, "rescue"))
      BY <1>2, <2>2
    <2>8. (Placed(d)' => Has(d, "rescue")) /\ cache' = cache /\ files' = files
      BY <1>1, <2>7 DEF Placed
    <2>9. Has(d, "rescue") => cache[d] # None
      BY <2>2
    <2>10. Behind(d)'
      BY <2>4, <2>7, <2>8, <2>9 DEF Behind
    <2> QED BY <2>5, <2>6, <2>10 DEF Secure
  <1>4. \A d, f : Owns(d, f)' => Owns(d, f)
    BY <1>1, <1>2 DEF Owns
  <1>5. Owners'
    BY <1>1, <1>4 DEF Safe, Owners
  <1> QED BY <1>3, <1>5 DEF Safe

-----------------------------------------------------------------------------
LEMMA SafeInitially == ASSUME Init, VoiceInv PROVE Safe
  <1>1. /\ requests = {} /\ answers = {} /\ asks = {} /\ pending = {} /\ reading = {}
        /\ ~rec.on /\ ~stopEvent /\ cache = [d \in Dictations |-> None]
        /\ edits = {}
    BY DEF Init, Idle
  <1>2. ASSUME NEW d \in Dictations PROVE Secure(d)
    <2>1. ~Placed(d) /\ ~Has(d, "transcribing") /\ ~Has(d, "rescue") /\ Has(d, "selection")
      BY <1>2, PieceFacts DEF Init, Placed, Has
    <2>2. RequestsOf(d) = {} /\ AnswersOf(d) = {} /\ AsksOf(d) = {} /\ ~Asking(d) /\ ~Live(d)
      BY <1>1 DEF RequestsOf, AnswersOf, AsksOf, Asking, Live
    <2> QED BY <1>1, <2>1, <2>2
            DEF Secure, OneCall, Sent, Clicked, Behind, SelectionLeft
  <1>3. Owners
    BY <1>1, NotNone DEF Owners, Owns, RequestsOf, AnswersOf, AsksOf
  <1> QED BY <1>2, <1>3 DEF Safe

LEMMA SafeStep == Safe /\ [Next]_vars => Safe'
  <1> SUFFICES ASSUME Safe, [Next]_vars PROVE Safe'
    OBVIOUS
  <1>0. VoiceInv'
    BY Inductive DEF Safe
  <1>1. CASE UNCHANGED vars
    <2>1. UNCHANGED <<note, recVars, reading, pending, inflight, jobs, cache, files, requests,
                      answers, asks, calls, edits, dropped, exempt>>
      BY <1>1 DEF vars, recVars
    <2>2. \A d \in Dictations : Alike(d)
      BY <2>1, UnchangedOf DEF Alike
    <2> QED BY <1>0, <2>1, <2>2, SafeTouchNone
  <1>2. CASE Recording \/ onRecorderStop
    BY <1>0, <1>2, BeginsSafe, StopSafe, FinishMeetingSafe, AbortSafe, RecorderStopSafe
       DEF Recording, Start, StartMeeting, Kinds
  <1>3. CASE \E d \in Dictations : Page(d)
    BY <1>0, <1>3, SendSafe, ReadFailsSafe, TimesOutSafe DEF Page
  <1>4. CASE Server
    BY <1>0, <1>4, RefusedSafe, ReadsCacheSafe, RemovesCachedSafe, TranscribedSafe,
       PanicsSafe, FailsSafe DEF Server
  <1>5. CASE Delivery
    BY <1>0, <1>5, MeetingFailedSafe, FailedSafe, SucceededSafe, CallRefusedSafe
       DEF Delivery, onVoiceResult
  <1>6. CASE Asked
    BY <1>0, <1>6, BackendSafe, AskEndsSafe DEF Asked
  <1>7. CASE User
    BY <1>0, <1>7, RetrySafe, DiscardSafe, AskSafe, RemovesSafe, SweepSafe, RestartSafe
       DEF User
  <1> QED BY <1>1, <1>2, <1>3, <1>4, <1>5, <1>6, <1>7 DEF Next

LEMMA SafeAlways == Spec => []Safe
  <1>1. Init => Safe
    BY Initial, SafeInitially
  <1> QED BY <1>1, SafeStep, PTL DEF Spec

\* Whatever fails, is sent again, clicked or restarted, a retry marker of a
\* dictation that is not exempt leads to a recording: in memory, in the voice
\* cache under the path the page knows, or on its way.
THEOREM RescueWorksAlways == Spec => []RescueWorks
  <1>1. ASSUME Safe PROVE RescueWorks
    <2> SUFFICES ASSUME NEW d \in Dictations \ (exempt \cup dropped), Has(d, "rescue")
                 PROVE  cache[d] \in files \/ inflight[d].audio \/ Out(d) \/ Asking(d)
      BY DEF RescueWorks
    <2>1. Behind(d)
      BY <1>1 DEF Safe, Secure
    <2> QED BY <2>1 DEF Behind, Placed, Out, Asking, AsksOf, AnswersOf, RequestsOf
  <1> QED BY <1>1, SafeAlways, PTL

\* The selection a spoken edit took out of the note is in the note, or replaced
\* by the text or the kept recording, or behind a marker that gives it back.
THEOREM SelectionKeptAlways == Spec => []SelectionKept
  <1>1. Safe => SelectionKept
    BY DEF Safe, Secure, SelectionLeft, SelectionKept, VoiceInv, Types
  <1> QED BY <1>1, SafeAlways, PTL
=============================================================================
