--------------------------- MODULE DiscordBridge ---------------------------
(***************************************************************************)
(* The Discord bridge: a poller that appends the direct messages of one    *)
(* paired account to today's scrap (pkg/discordbridge), and the            *)
(* application that starts, stops and replaces it when settings are saved  *)
(* (app_discordbridge.go).  Its memory over a restart is one small file    *)
(* with the id of the last message it processed.                           *)
(*                                                                         *)
(* Messages are the numbers of the order they were sent in; Discord's ids  *)
(* grow with time.  Quitting the application is a crash here: nothing      *)
(* stops the poller first.                                                 *)
(***************************************************************************)
EXTENDS Naturals, Sequences

CONSTANTS
    Foreign,        \* messages of another account
    Limit,          \* the most messages one request returns
    MaxMessages,    \* bound: messages sent
    MaxPollers,     \* bound: pollers started
    MaxFaults,      \* bound: requests, appends and file writes that fail
    MaxCrashes      \* bound: crashes

ASSUME DiscordAssumption ==
    /\ Limit \in Nat \ {0} /\ MaxMessages \in Nat /\ MaxPollers \in Nat
    /\ MaxFaults \in Nat /\ MaxCrashes \in Nat /\ Foreign \subseteq 1..MaxMessages

Messages == 1..MaxMessages
Pollers == 1..MaxPollers
None == 0   \* no poller; no readable id

VARIABLES
    sent,       \* messages in the channel
    file,       \* the id in the state file, None when it cannot be read
    poller,     \* every poller ever started
    started,    \* their number
    current,    \* App.discordPoller
    stopping,   \* InitDiscordBridge waits in Stop, holding discordMu
    enabled,    \* the setting
    running,    \* the application runs
    copies,     \* history: how often each message was appended
    reported,   \* history: messages given up with an error status
    base,       \* history: messages up to here count as old
    lostSaves,  \* history: writes of the state file that failed
    crashes, faults

vars == <<sent, file, poller, started, current, stopping, enabled, running,
          copies, reported, base, lostSaves, crashes, faults>>
appVars == <<started, current, stopping, enabled, running>>
scrapVars == <<copies, reported>>

Labels == {"off", "connecting", "baseline", "waiting", "deliver", "save"}
Unstarted == [pc |-> "off", last |-> None, batch |-> <<>>, cancelled |-> FALSE]

Init ==
    /\ sent = 0 /\ file = None
    /\ poller = [p \in Pollers |-> Unstarted]
    /\ started = 0 /\ current = None /\ stopping = FALSE
    /\ enabled = FALSE /\ running = TRUE
    /\ copies = [m \in Messages |-> 0] /\ reported = {}
    /\ base = MaxMessages
    /\ lostSaves = 0 /\ crashes = 0 /\ faults = 0

Fault == faults < MaxFaults /\ faults' = faults + 1
Set(p, new) == poller' = [poller EXCEPT ![p] = new]

Sent ==
    /\ sent < MaxMessages
    /\ sent' = sent + 1
    /\ UNCHANGED <<file, poller, appVars, scrapVars, base, lostSaves,
                   crashes, faults>>

-----------------------------------------------------------------------------
(* The application *)

\* NewPoller and Start, when the bridge is switched on.
StartIf(e) ==
    IF e
      THEN /\ started' = started + 1 /\ current' = started + 1
           /\ Set(started + 1, [Unstarted EXCEPT !.pc = "connecting"])
      ELSE current' = None /\ UNCHANGED <<started, poller>>

\* SaveConfig with changed settings: a running poller is told to stop ...
Reconfigure ==
    /\ running /\ ~stopping /\ started < MaxPollers
    /\ \E e \in BOOLEAN :
         /\ enabled' = e
         /\ \/ /\ current # None
               /\ poller' = [poller EXCEPT ![current].cancelled = TRUE]
               /\ stopping' = TRUE
               /\ UNCHANGED <<started, current>>
            \/ /\ current = None
               /\ StartIf(e)
               /\ UNCHANGED stopping
    /\ UNCHANGED <<sent, file, running, scrapVars, base, lostSaves, crashes, faults>>

\* ... and has ended before the next one starts.
NotWaited(p) == TRUE   \* mutant of Ended
Ended(p) == poller[p].pc = "off"
Replace ==
    /\ running /\ stopping /\ Ended(current)
    /\ stopping' = FALSE
    /\ StartIf(enabled)
    /\ UNCHANGED <<sent, file, enabled, running, scrapVars, base, lostSaves,
                   crashes, faults>>

Launch ==
    /\ ~running
    /\ running' = TRUE
    /\ StartIf(enabled)
    /\ UNCHANGED <<sent, file, enabled, stopping, scrapVars, base, lostSaves,
                   crashes, faults>>

\* The process dies; a write of the state file may leave it whole, old or cut.
Crash ==
    /\ running /\ crashes < MaxCrashes /\ started < MaxPollers
    /\ crashes' = crashes + 1
    /\ running' = FALSE /\ stopping' = FALSE /\ current' = None
    /\ poller' = [p \in Pollers |-> Unstarted]
    /\ file' \in {file} \cup
           UNION {{None, poller[p].last} : p \in {q \in Pollers : poller[q].pc = "save"}}
    /\ UNCHANGED <<sent, started, enabled, scrapVars, base, lostSaves, faults>>

-----------------------------------------------------------------------------
(* One poller *)

\* A step of a poller leaves the application alone.
Own == UNCHANGED <<sent, appVars, crashes>>

Cancelled(p) ==
    /\ poller[p].cancelled /\ poller[p].pc \in {"connecting", "waiting"}
    /\ Set(p, [poller[p] EXCEPT !.pc = "off"])
    /\ Own /\ UNCHANGED <<file, scrapVars, base, lostSaves, faults>>

\* VerifyToken and EnsureDMChannel succeed (they are retried until they do);
\* the file is read.
Connect(p) ==
    /\ poller[p].pc = "connecting" /\ ~poller[p].cancelled
    /\ Set(p, [poller[p] EXCEPT !.pc = IF file = None THEN "baseline" ELSE "waiting",
                                !.last = file])
    /\ Own /\ UNCHANGED <<file, scrapVars, base, lostSaves, faults>>

\* The first run takes the newest message as its starting point, and goes on
\* without one when it cannot ask, or there is none.
Baseline(p) ==
    /\ poller[p].pc = "baseline"
    /\ \/ /\ sent > 0 /\ ~poller[p].cancelled
          /\ Set(p, [poller[p] EXCEPT !.pc = "save", !.last = sent])
          /\ base' = sent
          /\ UNCHANGED faults
       \/ /\ sent = 0
          /\ Set(p, [poller[p] EXCEPT !.pc = "waiting"])
          /\ UNCHANGED <<base, faults>>
       \/ /\ IF poller[p].cancelled THEN UNCHANGED faults ELSE Fault
          /\ Set(p, [poller[p] EXCEPT !.pc = "waiting"])
          /\ UNCHANGED base
    /\ Own /\ UNCHANGED <<file, scrapVars, lostSaves>>

\* FetchMessagesAfter, turned oldest first; without an id, the newest ones.
Newest == IF sent > Limit THEN sent - Limit ELSE None
Window(last) == IF last = None THEN Newest ELSE last
Size(last) ==
    IF sent - Window(last) < Limit THEN sent - Window(last) ELSE Limit
NewestOnly(last) ==   \* mutant of Fetched
    [i \in 1..Size(last) |-> sent - Size(last) + i]
Inclusive(last) ==   \* mutant of Fetched
    [i \in 1..Size(last) |-> Window(last) + i - 1]
Fetched(last) == [i \in 1..Size(last) |-> Window(last) + i]

Poll(p) ==
    /\ poller[p].pc = "waiting" /\ ~poller[p].cancelled
    /\ \/ LET new == Fetched(poller[p].last)
          IN /\ new # <<>>
             /\ Set(p, [poller[p] EXCEPT !.pc = "deliver", !.batch = new])
             /\ base' = IF poller[p].last = None THEN Head(new) - 1 ELSE base
             /\ UNCHANGED faults
       \/ Fault /\ UNCHANGED <<poller, base>>
    /\ Own /\ UNCHANGED <<file, scrapVars, lostSaves>>

\* deliver and handleDiscordMessage: the id moves on whatever becomes of the
\* message; one that cannot be appended is reported and given up.
Deliver(p) ==
    LET m == Head(poller[p].batch)
        rest == Tail(poller[p].batch)
    IN /\ poller[p].pc = "deliver"
       /\ Set(p, [poller[p] EXCEPT !.last = m, !.batch = rest,
                                   !.pc = IF rest = <<>> THEN "save" ELSE "deliver"])
       /\ \/ m \in Foreign /\ UNCHANGED <<scrapVars, faults>>
          \/ /\ m \notin Foreign
             /\ copies' = [copies EXCEPT ![m] = @ + 1]
             /\ UNCHANGED <<reported, faults>>
          \/ /\ m \notin Foreign /\ Fault
             /\ reported' = reported \cup {m}
             /\ UNCHANGED copies
       /\ Own /\ UNCHANGED <<file, base, lostSaves>>

\* saveLastMessageID; nobody looks at its error.  A write that fails may have cut
\* the file before.
Save(p) ==
    /\ poller[p].pc = "save"
    /\ Set(p, [poller[p] EXCEPT !.pc = "waiting"])
    /\ \/ file' = poller[p].last /\ UNCHANGED <<lostSaves, faults>>
       \/ Fault /\ lostSaves' = lostSaves + 1 /\ file' \in {file, None}
    /\ Own /\ UNCHANGED <<scrapVars, base>>

Step(p) ==
    \/ Cancelled(p) \/ Connect(p) \/ Baseline(p) \/ Poll(p) \/ Deliver(p) \/ Save(p)

Next ==
    \/ Sent \/ Reconfigure \/ Replace \/ Launch \/ Crash
    \/ \E p \in Pollers : Step(p)

Spec == Init /\ [][Next]_vars

\* The poller's goroutine runs and its requests succeed in the end; Stop
\* returns once the goroutine has; the user opens the application again.
FairSpec ==
    /\ Spec /\ WF_vars(Replace) /\ WF_vars(Launch)
    /\ \A p \in Pollers : WF_vars(Step(p))

-----------------------------------------------------------------------------
(* Properties *)

\* Every variable has its type, and only a started poller does anything.
TypeOK ==
    /\ sent \in 0..MaxMessages /\ file \in 0..sent
    /\ poller \in [Pollers -> [pc: Labels, last: 0..sent, batch: Seq(1..sent),
                               cancelled: BOOLEAN]]
    /\ started \in 0..MaxPollers /\ current \in 0..started
    /\ stopping \in BOOLEAN /\ enabled \in BOOLEAN /\ running \in BOOLEAN
    /\ copies \in [Messages -> Nat] /\ reported \subseteq Messages
    /\ base \in 0..MaxMessages
    /\ lostSaves \in 0..MaxFaults /\ crashes \in 0..MaxCrashes /\ faults \in 0..MaxFaults
    /\ \A p \in Pollers : p > started \/ ~running => poller[p] = Unstarted

\* The saved id never runs ahead of the scrap: each message of the paired
\* account up to it, since the bridge found its starting point, was appended
\* or reported (run of the poller saves after it delivered).
CursorBehindScrap ==
    \A m \in Messages \ Foreign :
        base < m /\ m <= file => copies[m] > 0 \/ m \in reported

\* A message is appended twice only when the process died or the id could not
\* be saved after it was delivered: changed settings never cost a second copy
\* (InitDiscordBridge waits for the cycle in flight).
OncePerInterruption ==
    \A m \in Messages : copies[m] <= 1 + crashes + lostSaves

\* A message sent while the bridge is on, also while the application is
\* closed, ends up in the scrap, unless its append failed or the bridge found
\* a new starting point after it.
CatchesUp ==
    \A m \in Messages \ Foreign :
        (m <= sent) ~> (copies[m] > 0 \/ m \in reported \/ m <= base \/ ~enabled)
=============================================================================
