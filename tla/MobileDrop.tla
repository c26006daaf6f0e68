----------------------------- MODULE MobileDrop -----------------------------
(***************************************************************************)
(* Mobile Drop: a one-shot HTTP server a phone sends a batch to            *)
(* (pkg/dropzone/server.go, tunnel.go), the slot of the application that   *)
(* holds the running one (app_mobiledrop.go), the dialog of the page that  *)
(* shows its QR code (frontend/js/app.js) and the page on the phone        *)
(* (pkg/dropzone/html.go).                                                 *)
(*                                                                         *)
(* Go code runs in goroutines: each stretch between two uses of a mutex is *)
(* one step.  The dialog and Go talk through two queues, calls one way and *)
(* evaluated scripts the other.  An event is tagged here with the session  *)
(* it comes from; the code sends no such tag.                              *)
(***************************************************************************)
EXTENDS Naturals, Sequences, FiniteSets

CONSTANTS
    MaxSessions,   \* bound: servers started
    MaxOpens,      \* bound: times the user opens the dialog
    MaxUploads,    \* bound: uploads of the phone of each session
    MaxAsks,       \* bound: requests for a tunnel
    MaxFaults,     \* bound: connections cut and listeners lost
    MaxTrouble     \* bound: both together

ASSUME MobileDropAssumption ==
    /\ MaxSessions \in Nat /\ MaxOpens \in Nat
    /\ MaxAsks \in Nat /\ MaxFaults \in Nat /\ MaxTrouble \in Nat
    /\ MaxUploads \in [1..MaxSessions -> Nat]

Sessions == 1..MaxSessions
NoSession == 0

VARIABLES
    srv,       \* the servers, by the order they were started in
    opened,    \* how many were started
    slot,      \* App.dropzoneServer
    phone,     \* the phone page of each session and its uploads
    page,      \* the dialog
    calls,     \* calls of the page on their way to the UI thread
    events,    \* scripts on their way to the page
    asks,      \* goroutines about to read the slot for a tunnel
    note,      \* history: how often each session's batch was appended
    endings,   \* history: received and timeout events sent, per session
    opens, asked, faults

vars == <<srv, opened, slot, phone, page, calls, events, asks, note, endings,
          opens, asked, faults>>
goVars == <<srv, opened, slot, asks, endings>>
pageVars == <<page, calls, note, opens, asked>>

(* A server: the idle timer, the stops under way, how far the stop, the    *)
(* batch and the tunnel have come (the labels of the goroutines), and the  *)
(* tunnel's process and the handle to it.                                  *)
NewServer == [timer |-> FALSE, want |-> {}, stop |-> "no", tell |-> FALSE,
              completed |-> FALSE, batch |-> "none", tun |-> "idle",
              requested |-> FALSE, proc |-> FALSE, cmd |-> FALSE]

Init ==
    /\ srv = [s \in Sessions |-> NewServer]
    /\ opened = 0 /\ slot = NoSession
    /\ phone = [s \in Sessions |->
                    [at |-> "away", attempt |-> 0, uploads |-> <<>>]]
    /\ page = [modal |-> "closed", shown |-> NoSession, fading |-> NoSession,
               button |-> TRUE]
    /\ calls = <<>> /\ events = <<>> /\ asks = 0
    /\ note = [s \in Sessions |-> 0]
    /\ endings = [s \in Sessions |-> 0]
    /\ opens = 0 /\ asked = 0 /\ faults = 0

Started == 1..opened
Stopped(s) == srv[s].stop # "no"
Listening(s) == s \in Started /\ srv[s].stop \in {"no", "stopping"}
Fault == faults < MaxFaults /\ asked + faults < MaxTrouble /\ faults' = faults + 1
Send(kind, s) == events' = Append(events, [kind |-> kind, from |-> s])

-----------------------------------------------------------------------------
(* The dialog *)

Open == page.modal # "closed"
Closed == [modal |-> "closed", shown |-> NoSession,
           fading |-> page.fading, button |-> TRUE]

\* startMobileDrop up to its await.
PageOpen ==
    /\ ~Open /\ opens < MaxOpens
    /\ page' = [Closed EXCEPT !.modal = "loading"]
    /\ calls' = Append(calls, "start")
    /\ opens' = opens + 1
    /\ UNCHANGED <<goVars, phone, events, note, asked, faults>>

PageCancel ==
    /\ Open
    /\ page' = Closed
    /\ calls' = Append(calls, "cancel")
    /\ UNCHANGED <<goVars, phone, events, note, opens, asked, faults>>

PageTunnel ==
    /\ page.modal = "shown" /\ page.button /\ asked < MaxAsks /\ asked + faults < MaxTrouble
    /\ page' = [page EXCEPT !.button = FALSE]
    /\ calls' = Append(calls, "tunnel")
    /\ asked' = asked + 1
    /\ UNCHANGED <<goVars, phone, events, note, opens, faults>>

\* The timer that swaps the QR code once the old one has faded.
FadeEnd ==
    /\ page.fading # NoSession
    /\ page' = [page EXCEPT !.fading = NoSession,
                            !.shown = IF Open THEN page.fading ELSE @]
    /\ UNCHANGED <<goVars, phone, calls, events, note, opens, asked, faults>>

\* What the handler of an event does to the dialog.
Reaction(e) ==
    CASE e.kind = "received" -> Closed
      [] e.kind = "refused" -> [page EXCEPT !.modal = "error"]
      [] e.kind \notin {"received", "refused"} /\ ~Open -> page
      [] e.kind = "started" /\ Open ->
             [page EXCEPT !.modal = "shown", !.shown = e.from]
      [] e.kind = "timeout" /\ Open -> Closed
      [] e.kind = "ready" /\ Open ->
             [page EXCEPT !.button = FALSE, !.fading = e.from]
      [] e.kind = "error" /\ Open -> [page EXCEPT !.button = TRUE]

IfShowing(e) ==   \* mutant of Appended: only while the dialog is open
    IF e.kind = "received" /\ Open THEN [note EXCEPT ![e.from] = @ + 1] ELSE note
Appended(e) ==
    IF e.kind = "received" THEN [note EXCEPT ![e.from] = @ + 1] ELSE note

PageEvent ==
    /\ events # <<>>
    /\ page' = Reaction(Head(events))
    /\ note' = Appended(Head(events))
    /\ events' = Tail(events)
    /\ UNCHANGED <<goVars, phone, calls, opens, asked, faults>>

-----------------------------------------------------------------------------
(* The application *)

\* A goroutine is about to call stopWith; once that ran, it has no effect.
Asked(s, w) == IF Stopped(s) THEN {} ELSE srv[s].want \cup {w}

\* startMobileDrop under dropzoneMu: refused while a session runs or when the
\* server cannot listen, else the new server is armed and put into the slot.
AppStart ==
    /\ calls # <<>> /\ Head(calls) = "start"
    /\ calls' = Tail(calls)
    /\ \/ /\ slot = NoSession /\ opened < MaxSessions
          /\ opened' = opened + 1
          /\ slot' = opened + 1
          /\ srv' = [srv EXCEPT ![opened + 1].timer = TRUE]
          /\ Send("started", opened + 1)
       \/ /\ Send("refused", slot)
          /\ UNCHANGED <<opened, slot, srv>>
    /\ UNCHANGED <<phone, page, note, opens, asked, asks, endings, faults>>

AppCancel ==
    /\ calls # <<>> /\ Head(calls) = "cancel"
    /\ calls' = Tail(calls)
    /\ slot' = NoSession
    /\ srv' = IF slot = NoSession THEN srv
              ELSE [srv EXCEPT ![slot].want = Asked(slot, "stop")]
    /\ UNCHANGED <<phone, page, events, note, opens, asked, asks, opened,
                   endings, faults>>

AppTunnel ==
    /\ calls # <<>> /\ Head(calls) = "tunnel"
    /\ calls' = Tail(calls)
    /\ asks' = asks + 1
    /\ UNCHANGED <<phone, page, events, note, opens, asked, srv, opened, slot,
                   endings, faults>>

AlwaysFreed(s) == NoSession   \* mutant of Freed
Freed(s) == IF slot = s THEN NoSession ELSE slot

-----------------------------------------------------------------------------
(* The server *)

\* resetIdleTimer and extendIdleTimer.
Rearmed(s) ==
    IF Stopped(s) \/ srv[s].completed THEN srv ELSE [srv EXCEPT ![s].timer = TRUE]

\* The phone reads the QR code on the screen and opens the page.
PhoneOpen(s) ==
    /\ Listening(s) /\ page.shown = s /\ phone[s].at = "away"
    /\ MaxUploads[s] > 0
    /\ phone' = [phone EXCEPT ![s].at = "page"]
    /\ srv' = Rearmed(s)
    /\ UNCHANGED <<pageVars, events, opened, slot, asks, endings, faults>>

Ping(s) ==
    /\ Listening(s) /\ phone[s].at # "away"
    /\ srv' = Rearmed(s)
    /\ UNCHANGED <<pageVars, events, opened, slot, asks, endings, phone, faults>>

\* The runtime starts handleTimeout in a goroutine of its own.
Fire(s) ==
    /\ srv[s].timer
    /\ srv' = [srv EXCEPT ![s].timer = FALSE, ![s].want = Asked(s, "timeout")]
    /\ UNCHANGED <<pageVars, events, opened, slot, asks, endings, phone, faults>>

\* Serve returned an error of its own: the goroutine of Start stops the server.
ServeFails(s) ==
    /\ s \in Started /\ ~Stopped(s) /\ Fault
    /\ srv' = [srv EXCEPT ![s].want = Asked(s, "stop")]
    /\ UNCHANGED <<pageVars, events, opened, slot, asks, endings, phone>>

\* stopWith, under stopOnce: whoever comes first runs it, everybody else only
\* waits.  First its critical section.
EvenIfSubmitted(s, w) == w = "timeout"   \* mutant of Tell
Tell(s, w) == w = "timeout" /\ ~srv[s].completed
StopBegin(s, w) ==
    /\ w \in srv[s].want /\ ~Stopped(s)
    /\ srv' = [srv EXCEPT ![s].timer = FALSE, ![s].stop = "stopping",
                          ![s].tell = Tell(s, w), ![s].want = {}]
    /\ UNCHANGED <<pageVars, events, opened, slot, asks, endings, phone, faults>>

\* killTunnel
Killed(s) == [srv[s] EXCEPT !.cmd = FALSE, !.proc = @ /\ ~srv[s].cmd]
StopKill(s) ==
    /\ srv[s].stop = "stopping"
    /\ srv' = [srv EXCEPT ![s] = [Killed(s) EXCEPT !.stop = "closing"]]
    /\ UNCHANGED <<pageVars, events, opened, slot, asks, endings, phone, faults>>

\* Shutdown waits for the requests in flight, for three seconds at most; then
\* Close cuts them.
StopShutdown(s) ==
    /\ srv[s].stop = "closing"
    /\ srv' = [srv EXCEPT ![s].stop = IF srv[s].tell THEN "closed" ELSE "done"]
    /\ UNCHANGED <<pageVars, events, opened, slot, asks, endings, phone, faults>>

\* OnTimeout: releaseMobileDrop, then the event.
TimeoutRelease(s) ==
    /\ srv[s].stop = "closed"
    /\ slot' = Freed(s)
    /\ srv' = [srv EXCEPT ![s].stop = "released"]
    /\ UNCHANGED <<pageVars, events, opened, asks, endings, phone, faults>>

TimeoutEvent(s) ==
    /\ srv[s].stop = "released"
    /\ srv' = [srv EXCEPT ![s].stop = "done"]
    /\ endings' = [endings EXCEPT ![s] = @ + 1]
    /\ Send("timeout", s)
    /\ UNCHANGED <<pageVars, opened, slot, asks, phone, faults>>

-----------------------------------------------------------------------------
(* The phone and its uploads *)

Last(s) == Len(phone[s].uploads)
Current(s) == phone[s].uploads[Last(s)]

\* sendBatch; the connection is refused when nobody listens any more, else
\* the handler resets the idle timer and reads the body.
SendBatch(s, attempt) ==
    /\ Last(s) < MaxUploads[s]
    /\ phone' = [phone EXCEPT
           ![s].at = IF Listening(s) THEN "sending" ELSE "probing",
           ![s].attempt = attempt,
           ![s].uploads = Append(@, IF Listening(s) THEN "reading" ELSE "gone")]
    /\ srv' = IF Listening(s) THEN Rearmed(s) ELSE srv

PhoneSend(s) ==
    /\ phone[s].at \in {"page", "failed"}
    /\ SendBatch(s, 1)
    /\ UNCHANGED <<pageVars, events, opened, slot, asks, endings, faults>>

\* claim
Claimable(s) == ~srv[s].completed /\ ~Stopped(s)

\* The body is complete: the handler claims the submission and hands it to a
\* goroutine, or answers 409; a body it cannot use it refuses with a 4xx.
ReadBody(s, n) ==
    /\ n \in DOMAIN phone[s].uploads /\ phone[s].uploads[n] = "reading"
    /\ \/ /\ Claimable(s)
          /\ srv' = [srv EXCEPT ![s].completed = TRUE, ![s].timer = FALSE,
                                ![s].batch = "claimed"]
          /\ phone' = [phone EXCEPT ![s].uploads[n] = "ok"]
       \/ /\ phone' = [phone EXCEPT ![s].uploads[n] = "refused"]
          /\ UNCHANGED srv
    /\ UNCHANGED <<pageVars, events, opened, slot, asks, endings, faults>>

\* The answer reaches the phone.
Answer(s) ==
    /\ phone[s].at = "sending" /\ Current(s) \in {"ok", "refused"}
    /\ phone' = [phone EXCEPT ![s].at = IF Current(s) = "ok" THEN "ok" ELSE "failed"]
    /\ UNCHANGED <<goVars, pageVars, events, faults>>

\* The connection breaks under an upload: by the network, or because the
\* server was closed.  The handler may or may not have had the whole body.
Break(s) ==
    /\ phone[s].at = "sending"
    /\ \/ Fault
       \/ srv[s].stop \in {"closed", "released", "done"} /\ UNCHANGED faults
    /\ \E u \in {Current(s)} \cup (IF Current(s) = "reading" THEN {"gone"} ELSE {}) :
           phone' = [phone EXCEPT ![s].at = "probing", ![s].uploads[Last(s)] = u]
    /\ UNCHANGED <<goVars, pageVars, events>>

\* probeServer: a ping tells whether to send again, once.
Probe(s) ==
    /\ phone[s].at = "probing"
    /\ \/ /\ Listening(s) /\ phone[s].attempt < 2
          /\ SendBatch(s, phone[s].attempt + 1)
       \/ /\ ~(Listening(s) /\ phone[s].attempt < 2)
          /\ phone' = [phone EXCEPT ![s].at = "failed"]
          /\ srv' = IF Listening(s) THEN Rearmed(s) ELSE srv
    /\ UNCHANGED <<pageVars, events, opened, slot, asks, endings, faults>>

-----------------------------------------------------------------------------
(* handleMobileDropBatch, in the goroutine of complete *)

BatchRelease(s) ==
    /\ srv[s].batch = "claimed"
    /\ slot' = Freed(s)
    /\ srv' = [srv EXCEPT ![s].batch = "building"]
    /\ UNCHANGED <<pageVars, events, opened, asks, endings, phone, faults>>

\* Text recognition and transcription are done: the event, then Stop.
LeftOpen(s) == srv[s].want   \* mutant of ThenStop
ThenStop(s) == Asked(s, "stop")
BatchSend(s) ==
    /\ srv[s].batch = "building"
    /\ srv' = [srv EXCEPT ![s].batch = "sent", ![s].want = ThenStop(s)]
    /\ endings' = [endings EXCEPT ![s] = @ + 1]
    /\ Send("received", s)
    /\ UNCHANGED <<pageVars, opened, slot, asks, phone, faults>>

-----------------------------------------------------------------------------
(* The tunnel *)

\* RequestMobileDropTunnelAsync reads the slot.  (A second request while one
\* is under way is refused by StartTunnel.)
TunnelSlot ==
    /\ asks > 0 /\ asks' = asks - 1
    /\ \/ /\ slot # NoSession => srv[slot].tun \notin {"idle", "chosen"}
          /\ Send("error", slot)
          /\ UNCHANGED srv
       \/ /\ slot # NoSession /\ srv[slot].tun = "idle"
          /\ srv' = [srv EXCEPT ![slot].tun = "chosen"]
          /\ UNCHANGED events
    /\ UNCHANGED <<pageVars, opened, slot, endings, phone, faults>>

TunnelMove(s, from, new) ==
    /\ srv[s].tun = from
    /\ srv' = [srv EXCEPT ![s] = new]
    /\ UNCHANGED <<pageVars, opened, slot, asks, endings, phone, faults>>

\* The guards of StartTunnel.
TunnelGuard(s) ==
    \/ /\ ~Stopped(s) /\ ~srv[s].completed /\ ~srv[s].requested
       /\ TunnelMove(s, "chosen",
              [srv[s] EXCEPT !.tun = "launching", !.requested = TRUE])
       /\ UNCHANGED events
    \/ /\ Stopped(s) \/ srv[s].completed \/ srv[s].requested
       /\ TunnelMove(s, "chosen", [srv[s] EXCEPT !.tun = "idle"])
       /\ Send("error", s)

TunnelFails(s, from, new) ==
    /\ TunnelMove(s, from, [new EXCEPT !.tun = "idle", !.requested = FALSE])
    /\ Send("error", s)

\* launchTunnel: cloudflared starts, or it is not installed.
TunnelSpawn(s) ==
    \/ /\ TunnelMove(s, "launching", [srv[s] EXCEPT !.tun = "spawned", !.proc = TRUE])
       /\ UNCHANGED events
    \/ TunnelFails(s, "launching", srv[s])

\* Its handle is kept, unless the server was stopped meanwhile.
NeverTooLate(s) == FALSE   \* mutant of TooLate
TooLate(s) == Stopped(s)
TunnelRegister(s) ==
    \/ /\ ~TooLate(s)
       /\ TunnelMove(s, "spawned", [srv[s] EXCEPT !.tun = "waiting", !.cmd = TRUE])
       /\ UNCHANGED events
    \/ /\ TooLate(s)
       /\ TunnelFails(s, "spawned", [srv[s] EXCEPT !.proc = FALSE])

\* The public address arrives and the timer is set to the tunnel's, or
\* cloudflared dies, is killed, or says nothing in time.
TunnelWait(s) ==
    \/ /\ ~Stopped(s)
       /\ TunnelMove(s, "waiting",
              [Rearmed(s)[s] EXCEPT !.tun = "up"])
       /\ UNCHANGED events
    \/ /\ Stopped(s)
       /\ TunnelMove(s, "waiting", [srv[s] EXCEPT !.tun = "idle"])
       /\ Send("error", s)
    \/ TunnelFails(s, "waiting", Killed(s))

\* The event with the tunnel's QR code.
TunnelReady(s) ==
    /\ TunnelMove(s, "up", [srv[s] EXCEPT !.tun = "idle"])
    /\ Send("ready", s)

-----------------------------------------------------------------------------
Dialog == PageOpen \/ PageCancel \/ PageTunnel \/ FadeEnd \/ PageEvent
Application == AppStart \/ AppCancel \/ AppTunnel \/ TunnelSlot
Stop(s) ==
    \/ \E w \in {"timeout", "stop"} : StopBegin(s, w)
    \/ StopKill(s) \/ StopShutdown(s) \/ TimeoutRelease(s) \/ TimeoutEvent(s)
Batch(s) == BatchRelease(s) \/ BatchSend(s)
Tunnel(s) ==
    \/ TunnelGuard(s) \/ TunnelSpawn(s) \/ TunnelRegister(s)
    \/ TunnelWait(s) \/ TunnelReady(s)
Phone(s) ==
    \/ PhoneOpen(s) \/ Ping(s) \/ PhoneSend(s) \/ Answer(s) \/ Break(s)
    \/ Probe(s) \/ \E n \in 1..MaxUploads[s] : ReadBody(s, n)

Next ==
    \/ Dialog \/ Application
    \/ \E s \in Sessions :
           Fire(s) \/ Stop(s) \/ Batch(s) \/ Tunnel(s) \/ Phone(s) \/ ServeFails(s)

Spec == Init /\ [][Next]_vars

(***************************************************************************)
(* Goroutines are scheduled, the two queues are served and an armed timer  *)
(* fires once nobody resets it any more; the user, the phone and the       *)
(* network owe nothing.  (The steps under one WF are finitely many, so     *)
(* that it owes each of them.)                                             *)
(***************************************************************************)
Served == PageEvent \/ FadeEnd \/ Application
Goroutines(s) == Stop(s) \/ Batch(s) \/ Tunnel(s)

FairSpec ==
    /\ Spec
    /\ WF_vars(Served \/ \E s \in Sessions : Goroutines(s))
    /\ WF_vars(\E s \in Sessions : Fire(s))

-----------------------------------------------------------------------------
(* Properties *)

\* A session ends for the page in one way and once: its batch or its timeout,
\* whatever the timer, two uploads and the user's cancel do at the same time
\* (claim, and the look at completed in stopWith).
OneEnding == \A s \in Sessions : endings[s] <= 1

\* A server that still takes a submission, and that nobody has asked to stop,
\* is the one in the slot: the user can cancel it, and there is one at most
\* (releaseMobileDrop clears the slot only of the session that ended).
ReachableByCancel ==
    \A s \in Started :
        ~Stopped(s) /\ ~srv[s].completed /\ "stop" \notin srv[s].want => slot = s

\* Once stopWith has passed killTunnel, a cloudflared still running is one
\* that StartTunnel is about to find out about: none outlives the session.
NoOrphanTunnel ==
    \A s \in Sessions :
        srv[s].proc /\ srv[s].stop \notin {"no", "stopping"} => srv[s].tun = "spawned"

\* A phone that was told OK sees its batch in the note, even when the user
\* closed the dialog or opened another session meanwhile.
PromiseKept ==
    \A s \in {t \in Sessions : MaxUploads[t] > 0} :
        (phone[s].at = "ok") ~> (note[s] = 1)

\* Sessions come to their end: whatever was opened, a moment follows at which
\* each server is shut down, by its timer, by the user, or after its batch was
\* handed over, and no cloudflared runs.
SessionEnds ==
    []<>(\A s \in Started : srv[s].stop = "done" /\ ~srv[s].proc)
=============================================================================
