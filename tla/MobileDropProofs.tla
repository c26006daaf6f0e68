-------------------------- MODULE MobileDropProofs --------------------------
(***************************************************************************)
(* Machine-checked facts about Mobile Drop, for every number of sessions,  *)
(* openings, uploads, requests for a tunnel and faults: a session ends in  *)
(* one way and once, a session that is still open can be cancelled, and no *)
(* tunnel outlives its session.                                            *)
(***************************************************************************)
EXTENDS MobileDrop, TLAPS

USE MobileDropAssumption

ServerType ==
    [timer: BOOLEAN, want: SUBSET {"timeout", "stop"},
     stop: {"no", "stopping", "closing", "closed", "released", "done"},
     tell: BOOLEAN, completed: BOOLEAN,
     batch: {"none", "claimed", "building", "sent"},
     tun: {"idle", "chosen", "launching", "spawned", "waiting", "up"},
     requested: BOOLEAN, proc: BOOLEAN, cmd: BOOLEAN]

GoTypes ==
    /\ srv \in [Sessions -> ServerType]
    /\ opened \in 0..MaxSessions
    /\ slot \in 0..opened
    /\ endings \in [Sessions -> Nat]

\* What holds of a server q whose page was told n endings.  stopWith tells of
\* a timeout only when no batch was claimed before it, and no batch is claimed
\* after it; a cloudflared runs with a handle that killTunnel sees, or is the
\* one StartTunnel has just launched.
ServerOK(q, n) ==
    /\ q.completed <=> q.batch # "none"
    /\ q.tell => ~q.completed /\ q.stop # "no"
    /\ q.stop \in {"closed", "released"} => q.tell
    /\ n = (IF q.batch = "sent" THEN 1 ELSE 0)
             + (IF q.tell /\ q.stop = "done" THEN 1 ELSE 0)
    /\ q.proc => q.cmd \/ q.tun = "spawned"
    /\ q.cmd => q.stop \in {"no", "stopping"}

\* A server that takes a submission and that nobody has asked to stop.
Takes(q) == q.stop = "no" /\ ~q.completed /\ "stop" \notin q.want

DropInv ==
    /\ GoTypes
    /\ \A s \in Sessions : ServerOK(srv[s], endings[s])
    /\ \A s \in 1..opened : Takes(srv[s]) => slot = s

LEMMA NewServerOK == NewServer \in ServerType /\ ServerOK(NewServer, 0)
  BY DEF NewServer, ServerType, ServerOK

LEMMA Initial == Init => DropInv
  <1> SUFFICES ASSUME Init PROVE DropInv
    OBVIOUS
  <1>1. GoTypes
    BY NewServerOK DEF Init, GoTypes, NoSession
  <1>2. \A s \in Sessions : ServerOK(srv[s], endings[s])
    BY NewServerOK DEF Init
  <1>3. 1..opened = {}
    BY DEF Init
  <1> QED BY <1>1, <1>2, <1>3 DEF DropInv

\* One server changes, and with it the slot at most by being cleared of it.
LEMMA ServerStep ==
  ASSUME DropInv, NEW s \in Sessions, NEW q \in ServerType, NEW n \in Nat,
         srv' = [srv EXCEPT ![s] = q], endings' = [endings EXCEPT ![s] = n],
         opened' = opened, ServerOK(q, n), Takes(q) => Takes(srv[s]),
         slot' \in {slot, Freed(s)}, Takes(q) => slot' = slot
  PROVE  DropInv'
  <1>1. GoTypes'
    BY DEF DropInv, GoTypes, Freed, NoSession
  <1>2. ASSUME NEW t \in Sessions PROVE ServerOK(srv'[t], endings'[t])
    BY DEF DropInv, GoTypes
  <1>3. ASSUME NEW t \in 1..opened, Takes(srv'[t]) PROVE slot' = t
    <2>1. t \in Sessions
      BY DEF DropInv, GoTypes, Sessions
    <2>2. Takes(srv[t])
      BY <1>3, <2>1 DEF DropInv, GoTypes
    <2>3. slot = t
      BY <2>2 DEF DropInv
    <2>4. t = s => Takes(q)
      BY <1>3, <2>1 DEF DropInv, GoTypes
    <2> QED BY <2>3, <2>4 DEF Freed
  <1> QED BY <1>1, <1>2, <1>3 DEF DropInv

\* No server changes.
LEMMA Quiet == DropInv /\ UNCHANGED <<srv, opened, slot, endings>> => DropInv'
  BY DEF DropInv, GoTypes, ServerOK, Takes, Freed

\* The usual cases: the slot stays, or it is cleared of a server that is over;
\* no ending is told.
LEMMA QuietStep ==
  ASSUME DropInv, NEW s \in Sessions, NEW q \in ServerType,
         srv' = [srv EXCEPT ![s] = q], UNCHANGED <<opened, endings>>,
         ServerOK(q, endings[s]), Takes(q) => Takes(srv[s]), slot' = slot
  PROVE  DropInv'
  <1>1. endings[s] \in Nat /\ endings' = [endings EXCEPT ![s] = endings[s]]
    BY DEF DropInv, GoTypes
  <1> QED BY <1>1, ServerStep

LEMMA FreeStep ==
  ASSUME DropInv, NEW s \in Sessions, NEW q \in ServerType,
         srv' = [srv EXCEPT ![s] = q], UNCHANGED <<opened, endings>>,
         ServerOK(q, endings[s]), ~Takes(q), slot' = Freed(s)
  PROVE  DropInv'
  <1>1. endings[s] \in Nat /\ endings' = [endings EXCEPT ![s] = endings[s]]
    BY DEF DropInv, GoTypes
  <1> QED BY <1>1, ServerStep

LEMMA Known ==
  ASSUME DropInv, NEW s \in Sessions
  PROVE  srv[s] \in ServerType /\ endings[s] \in Nat /\ ServerOK(srv[s], endings[s])
  BY DEF DropInv, GoTypes

-----------------------------------------------------------------------------
(* The application *)

\* The slot is empty: every server that was started is stopped or asked to be.
LEMMA AppStartInv == DropInv /\ AppStart => DropInv'
  <1> SUFFICES ASSUME DropInv, AppStart, opened' = opened + 1 PROVE DropInv'
    BY Quiet DEF AppStart
  <1> DEFINE s == opened + 1
  <1>1. /\ slot = NoSession /\ opened < MaxSessions /\ slot' = s
        /\ srv' = [srv EXCEPT ![s].timer = TRUE] /\ endings' = endings
    BY DEF AppStart, DropInv, GoTypes
  <1>2. s \in Sessions /\ opened \in Nat
    BY <1>1 DEF DropInv, GoTypes, Sessions
  <1>3. srv[s] \in ServerType /\ ServerOK(srv[s], endings[s])
    BY <1>2, Known
  <1>4. [srv[s] EXCEPT !.timer = TRUE] \in ServerType
    BY <1>3 DEF ServerType
  <1>5. GoTypes'
    BY <1>1, <1>2, <1>4 DEF DropInv, GoTypes
  <1>6. ASSUME NEW t \in Sessions PROVE ServerOK(srv'[t], endings'[t])
    BY <1>1, <1>2, <1>3, Known DEF DropInv, GoTypes, ServerOK, ServerType
  <1>7. ASSUME NEW t \in 1..opened', Takes(srv'[t]) PROVE slot' = t
    <2>1. CASE t = s
      BY <2>1, <1>1
    <2>2. CASE t # s
      <3>1. t \in 1..opened /\ t \in Sessions /\ t # NoSession
        BY <2>2, <1>2 DEF NoSession, DropInv, GoTypes, Sessions
      <3>2. Takes(srv[t])
        BY <3>1, <2>2, <1>7, <1>1 DEF DropInv, GoTypes
      <3> QED BY <3>1, <3>2, <1>1 DEF DropInv
    <2> QED BY <2>1, <2>2
  <1> QED BY <1>5, <1>6, <1>7 DEF DropInv

LEMMA AskedType ==
  ASSUME DropInv, NEW s \in Sessions, NEW w \in {"timeout", "stop"}
  PROVE  Asked(s, w) \in SUBSET {"timeout", "stop"}
  BY Known DEF Asked, ServerType

\* A server that is asked to stop is as good as it was.
LEMMA AskedOK ==
  ASSUME DropInv, NEW s \in Sessions, NEW w \in {"timeout", "stop"}
  PROVE  LET q == [srv[s] EXCEPT !.want = Asked(s, w)]
         IN /\ q \in ServerType /\ ServerOK(q, endings[s])
            /\ Takes(q) => Takes(srv[s]) /\ w # "stop"
  <1>1. [srv[s] EXCEPT !.want = Asked(s, w)] \in ServerType
    BY Known, AskedType DEF ServerType
  <1>2. ServerOK([srv[s] EXCEPT !.want = Asked(s, w)], endings[s])
    BY Known DEF ServerType, ServerOK
  <1>3. Takes([srv[s] EXCEPT !.want = Asked(s, w)]) => Takes(srv[s]) /\ w # "stop"
    BY Known DEF ServerType, Takes, Asked, Stopped
  <1> QED BY <1>1, <1>2, <1>3

LEMMA AppCancelInv == DropInv /\ AppCancel => DropInv'
  <1> SUFFICES ASSUME DropInv, AppCancel PROVE DropInv'
    OBVIOUS
  <1>1. CASE slot = NoSession
    BY <1>1, Quiet DEF AppCancel
  <1>2. CASE slot # NoSession
    <2> DEFINE q == [srv[slot] EXCEPT !.want = Asked(slot, "stop")]
    <2>1. slot \in Sessions
      BY <1>2 DEF DropInv, GoTypes, Sessions, NoSession
    <2>2. q \in ServerType /\ ServerOK(q, endings[slot]) /\ ~Takes(q)
      BY <2>1, AskedOK
    <2>3. srv' = [srv EXCEPT ![slot] = q] /\ slot' = Freed(slot)
          /\ UNCHANGED <<opened, endings>>
      BY <1>2 DEF AppCancel, Freed
    <2> HIDE DEF q
    <2> QED BY <2>1, <2>2, <2>3, FreeStep
  <1> QED BY <1>1, <1>2

LEMMA TunnelSlotInv == DropInv /\ TunnelSlot => DropInv'
  <1> SUFFICES ASSUME DropInv, TunnelSlot, slot # NoSession,
                      srv' = [srv EXCEPT ![slot].tun = "chosen"],
                      srv[slot].tun = "idle"
               PROVE  DropInv'
    BY Quiet DEF TunnelSlot
  <1> DEFINE q == [srv[slot] EXCEPT !.tun = "chosen"]
  <1>1. slot \in Sessions
    BY DEF DropInv, GoTypes, Sessions, NoSession
  <1>2. q \in ServerType
    BY <1>1, Known DEF ServerType
  <1>3. ServerOK(q, endings[slot]) /\ (Takes(q) => Takes(srv[slot]))
    BY <1>1, Known DEF ServerType, ServerOK, Takes
  <1>4. srv' = [srv EXCEPT ![slot] = q] /\ slot' = slot /\ UNCHANGED <<opened, endings>>
    BY DEF TunnelSlot
  <1> HIDE DEF q
  <1> QED BY <1>1, <1>2, <1>3, <1>4, QuietStep

-----------------------------------------------------------------------------
(* The server *)

LEMMA RearmedOK ==
  ASSUME DropInv, NEW s \in Sessions
  PROVE  /\ Rearmed(s)[s] \in ServerType
         /\ Rearmed(s) = [srv EXCEPT ![s] = Rearmed(s)[s]]
         /\ ServerOK(Rearmed(s)[s], endings[s])
         /\ Takes(Rearmed(s)[s]) => Takes(srv[s])
  <1>1. srv[s] \in ServerType /\ ServerOK(srv[s], endings[s])
    BY Known
  <1>2. srv = [srv EXCEPT ![s] = srv[s]]
    BY DEF DropInv, GoTypes
  <1>3. [srv[s] EXCEPT !.timer = TRUE] \in ServerType
    BY <1>1 DEF ServerType
  <1>4. [srv EXCEPT ![s].timer = TRUE][s] = [srv[s] EXCEPT !.timer = TRUE]
    BY DEF DropInv, GoTypes
  <1>5. ServerOK([srv[s] EXCEPT !.timer = TRUE], endings[s])
        /\ (Takes([srv[s] EXCEPT !.timer = TRUE]) => Takes(srv[s]))
    BY <1>1 DEF ServerOK, ServerType, Takes
  <1> QED BY <1>1, <1>2, <1>3, <1>4, <1>5 DEF Rearmed

LEMMA RearmInv ==
  ASSUME DropInv, NEW s \in Sessions, srv' = Rearmed(s) \/ srv' = srv,
         slot' = slot, UNCHANGED <<opened, endings>>
  PROVE  DropInv'
  <1>1. CASE srv' = srv
    BY <1>1, Quiet
  <1>2. CASE srv' = Rearmed(s)
    <2> DEFINE q == Rearmed(s)[s]
    <2>1. /\ q \in ServerType /\ srv' = [srv EXCEPT ![s] = q]
          /\ ServerOK(q, endings[s]) /\ (Takes(q) => Takes(srv[s]))
      BY <1>2, RearmedOK
    <2> HIDE DEF q
    <2> QED BY <2>1, QuietStep
  <1> QED BY <1>1, <1>2

LEMMA FireInv == ASSUME DropInv, NEW s \in Sessions, Fire(s) PROVE DropInv'
  <1> DEFINE q == [srv[s] EXCEPT !.timer = FALSE, !.want = Asked(s, "timeout")]
  <1>1. srv' = [srv EXCEPT ![s] = q] /\ slot' = slot /\ UNCHANGED <<opened, endings>>
    BY Known DEF Fire, DropInv, GoTypes
  <1>2. q \in ServerType
    BY Known, AskedType DEF ServerType
  <1>3. ServerOK(q, endings[s])
    BY Known DEF ServerType, ServerOK
  <1>4. Takes(q) => Takes(srv[s])
    BY Known DEF ServerType, Takes, Asked, Stopped
  <1> HIDE DEF q
  <1> QED BY <1>1, <1>2, <1>3, <1>4, QuietStep

LEMMA ServeFailsInv == ASSUME DropInv, NEW s \in Sessions, ServeFails(s) PROVE DropInv'
  <1> DEFINE q == [srv[s] EXCEPT !.want = Asked(s, "stop")]
  <1>1. q \in ServerType /\ ServerOK(q, endings[s]) /\ (Takes(q) => Takes(srv[s]))
    BY AskedOK
  <1>2. srv' = [srv EXCEPT ![s] = q] /\ slot' = slot /\ UNCHANGED <<opened, endings>>
    BY DEF ServeFails
  <1> HIDE DEF q
  <1> QED BY <1>1, <1>2, QuietStep

LEMMA StopBeginInv ==
  ASSUME DropInv, NEW s \in Sessions, NEW w \in {"timeout", "stop"}, StopBegin(s, w)
  PROVE  DropInv'
  <1> DEFINE q == [srv[s] EXCEPT !.timer = FALSE, !.stop = "stopping",
                                 !.tell = Tell(s, w), !.want = {}]
  <1>1. srv' = [srv EXCEPT ![s] = q] /\ slot' = slot /\ UNCHANGED <<opened, endings>>
    BY Known DEF StopBegin, DropInv, GoTypes
  <1>2. Tell(s, w) \in BOOLEAN /\ (Tell(s, w) => ~srv[s].completed)
    BY DEF Tell
  <1>3. q \in ServerType
    BY <1>2, Known DEF ServerType
  <1>4. ServerOK(q, endings[s])
    BY <1>2, Known DEF StopBegin, Stopped, ServerType, ServerOK
  <1>5. ~Takes(q)
    BY Known DEF ServerType, Takes
  <1> HIDE DEF q
  <1> QED BY <1>1, <1>3, <1>4, <1>5, QuietStep

\* killTunnel leaves the handle to no process.
LEMMA KilledOK ==
  ASSUME DropInv, NEW s \in Sessions
  PROVE  /\ Killed(s) \in ServerType
         /\ ServerOK(Killed(s), endings[s])
         /\ ~Killed(s).cmd
         /\ Takes(Killed(s)) => Takes(srv[s])
         /\ Killed(s).stop = srv[s].stop /\ Killed(s).tell = srv[s].tell
         /\ Killed(s).proc => srv[s].tun = "spawned"
  <1>1. Killed(s) \in ServerType
    BY Known DEF Killed, ServerType
  <1>2. ServerOK(Killed(s), endings[s])
    BY Known DEF Killed, ServerType, ServerOK
  <1> QED BY <1>1, <1>2, Known DEF Killed, ServerType, ServerOK, Takes

LEMMA StopKillInv == ASSUME DropInv, NEW s \in Sessions, StopKill(s) PROVE DropInv'
  <1> DEFINE q == [Killed(s) EXCEPT !.stop = "closing"]
  <1>1. srv' = [srv EXCEPT ![s] = q] /\ slot' = slot /\ UNCHANGED <<opened, endings>>
    BY DEF StopKill
  <1>2. q \in ServerType
    BY KilledOK DEF ServerType
  <1>3. ServerOK(q, endings[s]) /\ ~Takes(q)
    BY KilledOK DEF StopKill, ServerType, ServerOK, Takes
  <1> HIDE DEF q
  <1> QED BY <1>1, <1>2, <1>3, QuietStep

LEMMA StopShutdownInv ==
  ASSUME DropInv, NEW s \in Sessions, StopShutdown(s) PROVE DropInv'
  <1> DEFINE q == [srv[s] EXCEPT !.stop = IF srv[s].tell THEN "closed" ELSE "done"]
  <1>1. srv' = [srv EXCEPT ![s] = q] /\ slot' = slot /\ UNCHANGED <<opened, endings>>
    BY DEF StopShutdown
  <1>2. q \in ServerType
    BY Known DEF ServerType
  <1>3. ServerOK(q, endings[s]) /\ ~Takes(q)
    BY Known DEF StopShutdown, ServerType, ServerOK, Takes
  <1> HIDE DEF q
  <1> QED BY <1>1, <1>2, <1>3, QuietStep

LEMMA TimeoutReleaseInv ==
  ASSUME DropInv, NEW s \in Sessions, TimeoutRelease(s) PROVE DropInv'
  <1> DEFINE q == [srv[s] EXCEPT !.stop = "released"]
  <1>1. srv' = [srv EXCEPT ![s] = q] /\ slot' = Freed(s) /\ UNCHANGED <<opened, endings>>
    BY DEF TimeoutRelease
  <1>2. q \in ServerType
    BY Known DEF ServerType
  <1>3. ServerOK(q, endings[s]) /\ ~Takes(q)
    BY Known DEF TimeoutRelease, ServerType, ServerOK, Takes
  <1> HIDE DEF q
  <1> QED BY <1>1, <1>2, <1>3, FreeStep

LEMMA TimeoutEventInv ==
  ASSUME DropInv, NEW s \in Sessions, TimeoutEvent(s) PROVE DropInv'
  <1> DEFINE q == [srv[s] EXCEPT !.stop = "done"]
  <1>1. /\ srv' = [srv EXCEPT ![s] = q] /\ slot' = slot /\ opened' = opened
        /\ endings' = [endings EXCEPT ![s] = endings[s] + 1]
    BY DEF TimeoutEvent
  <1>2. q \in ServerType /\ endings[s] + 1 \in Nat
    BY Known DEF ServerType
  <1>3. ServerOK(q, endings[s] + 1) /\ ~Takes(q)
    BY Known DEF TimeoutEvent, ServerType, ServerOK, Takes
  <1> HIDE DEF q
  <1> QED BY <1>1, <1>2, <1>3, ServerStep

-----------------------------------------------------------------------------
(* The phone, the batch and the tunnel *)

LEMMA SendBatchSrv ==
  ASSUME NEW s \in Sessions, NEW a, SendBatch(s, a)
  PROVE  srv' = Rearmed(s) \/ srv' = srv
  BY DEF SendBatch

LEMMA PhoneInv ==
  ASSUME DropInv, NEW s \in Sessions,
         PhoneOpen(s) \/ Ping(s) \/ PhoneSend(s) \/ Answer(s) \/ Break(s) \/ Probe(s)
  PROVE  DropInv'
  <1>1. slot' = slot /\ UNCHANGED <<opened, endings>>
    BY DEF PhoneOpen, Ping, PhoneSend, Answer, Break, Probe, goVars
  <1>2. srv' = Rearmed(s) \/ srv' = srv
    BY SendBatchSrv DEF PhoneOpen, Ping, PhoneSend, Answer, Break, Probe, goVars
  <1> QED BY <1>1, <1>2, RearmInv

LEMMA ReadBodyInv ==
  ASSUME DropInv, NEW s \in Sessions, NEW n, ReadBody(s, n) PROVE DropInv'
  <1> DEFINE q == [srv[s] EXCEPT !.completed = TRUE, !.timer = FALSE,
                                 !.batch = "claimed"]
  <1>1. CASE UNCHANGED srv
    BY <1>1, Quiet DEF ReadBody
  <1>2. CASE Claimable(s) /\ srv' = [srv EXCEPT ![s].completed = TRUE,
                                        ![s].timer = FALSE, ![s].batch = "claimed"]
    <2>1. srv' = [srv EXCEPT ![s] = q]
      BY <1>2 DEF DropInv, GoTypes
    <2>2. slot' = slot /\ UNCHANGED <<opened, endings>>
      BY DEF ReadBody
    <2>3. q \in ServerType
      BY Known DEF ServerType
    <2>4. ServerOK(q, endings[s]) /\ ~Takes(q)
      BY <1>2, Known DEF Claimable, Stopped, ServerType, ServerOK, Takes
    <2> HIDE DEF q
    <2> QED BY <2>1, <2>2, <2>3, <2>4, QuietStep
  <1> QED BY <1>1, <1>2 DEF ReadBody

LEMMA BatchReleaseInv ==
  ASSUME DropInv, NEW s \in Sessions, BatchRelease(s) PROVE DropInv'
  <1> DEFINE q == [srv[s] EXCEPT !.batch = "building"]
  <1>1. srv' = [srv EXCEPT ![s] = q] /\ slot' = Freed(s) /\ UNCHANGED <<opened, endings>>
    BY DEF BatchRelease
  <1>2. q \in ServerType
    BY Known DEF ServerType
  <1>3. ServerOK(q, endings[s]) /\ ~Takes(q)
    BY Known DEF BatchRelease, ServerType, ServerOK, Takes
  <1> HIDE DEF q
  <1> QED BY <1>1, <1>2, <1>3, FreeStep

LEMMA BatchSendInv ==
  ASSUME DropInv, NEW s \in Sessions, BatchSend(s) PROVE DropInv'
  <1> DEFINE q == [srv[s] EXCEPT !.batch = "sent", !.want = ThenStop(s)]
  <1>1. /\ srv' = [srv EXCEPT ![s] = q] /\ slot' = slot /\ opened' = opened
        /\ endings' = [endings EXCEPT ![s] = endings[s] + 1]
    BY Known DEF BatchSend, DropInv, GoTypes
  <1>2. q \in ServerType /\ endings[s] + 1 \in Nat
    <2>1. ASSUME NEW p \in ServerType, NEW w \in SUBSET {"timeout", "stop"}
          PROVE  [p EXCEPT !.batch = "sent", !.want = w] \in ServerType
      BY DEF ServerType
    <2>2. ThenStop(s) \in SUBSET {"timeout", "stop"}
      BY AskedType DEF ThenStop
    <2>3. srv[s] \in ServerType /\ endings[s] + 1 \in Nat
      BY Known
    <2>4. q \in ServerType
      BY <2>1, <2>2, <2>3, Zenon
    <2> QED BY <2>3, <2>4
  <1>3. ServerOK(q, endings[s] + 1) /\ ~Takes(q)
    BY Known DEF BatchSend, ServerType, ServerOK, Takes
  <1> HIDE DEF q
  <1> QED BY <1>1, <1>2, <1>3, ServerStep

\* A step of StartTunnel that leaves a good server.
LEMMA TunnelMoveInv ==
  ASSUME DropInv, NEW s \in Sessions, NEW from, NEW q \in ServerType,
         TunnelMove(s, from, q), ServerOK(q, endings[s]), Takes(q) => Takes(srv[s])
  PROVE  DropInv'
  BY QuietStep DEF TunnelMove

\* Only the tunnel's label and the request for it change.
Relabelled(q, t, b) == [q EXCEPT !.tun = t, !.requested = b]

LEMMA RelabelledOK ==
  ASSUME NEW q \in ServerType, NEW n \in Nat, ServerOK(q, n), NEW b \in BOOLEAN,
         NEW t \in {"idle", "chosen", "launching", "spawned", "waiting", "up"},
         q.proc => q.cmd \/ t = "spawned"
  PROVE  /\ Relabelled(q, t, b) \in ServerType
         /\ ServerOK(Relabelled(q, t, b), n)
         /\ Takes(Relabelled(q, t, b)) => Takes(q)
  <1>1. Relabelled(q, t, b) \in ServerType
    BY DEF ServerType, Relabelled
  <1>2. ServerOK(Relabelled(q, t, b), n)
    BY DEF ServerType, ServerOK, Relabelled
  <1> QED BY <1>1, <1>2 DEF ServerType, Takes, Relabelled

LEMMA RelabelInv ==
  ASSUME DropInv, NEW s \in Sessions, NEW b \in BOOLEAN,
         NEW t \in {"idle", "chosen", "launching", "waiting", "up"},
         srv[s].tun # "spawned", srv' = [srv EXCEPT ![s] = Relabelled(srv[s], t, b)],
         slot' = slot, UNCHANGED <<opened, endings>>
  PROVE  DropInv'
  <1> DEFINE q == Relabelled(srv[s], t, b)
  <1>1. srv[s] \in ServerType /\ endings[s] \in Nat /\ ServerOK(srv[s], endings[s])
    BY Known
  <1>2. srv[s].proc => srv[s].cmd
    BY <1>1 DEF ServerOK
  <1>3. q \in ServerType /\ ServerOK(q, endings[s]) /\ (Takes(q) => Takes(srv[s]))
    BY <1>1, <1>2, RelabelledOK
  <1>4. srv' = [srv EXCEPT ![s] = q]
    OBVIOUS
  <1> HIDE DEF q
  <1> QED BY <1>3, <1>4, QuietStep

LEMMA TunnelGuardInv ==
  ASSUME DropInv, NEW s \in Sessions, TunnelGuard(s) PROVE DropInv'
  <1>1. /\ srv[s].requested \in BOOLEAN
        /\ [srv[s] EXCEPT !.tun = "launching", !.requested = TRUE]
              = Relabelled(srv[s], "launching", TRUE)
        /\ [srv[s] EXCEPT !.tun = "idle"] = Relabelled(srv[s], "idle", srv[s].requested)
    BY Known DEF ServerType, Relabelled
  <1> QED BY <1>1, RelabelInv DEF TunnelGuard, TunnelMove

LEMMA TunnelSpawnInv ==
  ASSUME DropInv, NEW s \in Sessions, TunnelSpawn(s) PROVE DropInv'
  <1> DEFINE q == [srv[s] EXCEPT !.tun = "spawned", !.proc = TRUE]
  <1>1. CASE TunnelMove(s, "launching", q)
    <2>1. q \in ServerType
      BY Known DEF ServerType
    <2>2. ServerOK(q, endings[s]) /\ (Takes(q) => Takes(srv[s]))
      BY Known DEF ServerType, ServerOK, Takes
    <2> HIDE DEF q
    <2> QED BY <1>1, <2>1, <2>2, TunnelMoveInv
  <1>2. CASE TunnelFails(s, "launching", srv[s])
    BY <1>2, RelabelInv DEF TunnelFails, TunnelMove, Relabelled
  <1> QED BY <1>1, <1>2 DEF TunnelSpawn

LEMMA TunnelRegisterInv ==
  ASSUME DropInv, NEW s \in Sessions, TunnelRegister(s) PROVE DropInv'
  <1>1. ASSUME ~TooLate(s),
               TunnelMove(s, "spawned", [srv[s] EXCEPT !.tun = "waiting", !.cmd = TRUE])
        PROVE  DropInv'
    <2> DEFINE q == [srv[s] EXCEPT !.tun = "waiting", !.cmd = TRUE]
    <2>1. q \in ServerType
      BY Known DEF ServerType
    <2>2. ServerOK(q, endings[s]) /\ (Takes(q) => Takes(srv[s]))
      BY <1>1, Known DEF ServerType, ServerOK, Takes, TooLate, Stopped
    <2> HIDE DEF q
    <2> QED BY <1>1, <2>1, <2>2, TunnelMoveInv DEF q
  <1>2. ASSUME TunnelFails(s, "spawned", [srv[s] EXCEPT !.proc = FALSE]) PROVE DropInv'
    <2> DEFINE r == [srv[s] EXCEPT !.proc = FALSE]
               q == Relabelled(r, "idle", FALSE)
    <2>1. r \in ServerType
      BY Known DEF ServerType
    <2>2. ServerOK(r, endings[s]) /\ (Takes(r) => Takes(srv[s])) /\ ~r.proc
      BY Known DEF ServerType, ServerOK, Takes
    <2>3. TunnelMove(s, "spawned", q)
      BY <1>2 DEF TunnelFails, Relabelled
    <2> HIDE DEF r
    <2>4. q \in ServerType /\ ServerOK(q, endings[s]) /\ (Takes(q) => Takes(srv[s]))
      BY <2>1, <2>2, Known, RelabelledOK
    <2> HIDE DEF q
    <2> QED BY <2>3, <2>4, TunnelMoveInv
  <1> QED BY <1>1, <1>2 DEF TunnelRegister

LEMMA TunnelWaitInv ==
  ASSUME DropInv, NEW s \in Sessions, TunnelWait(s) PROVE DropInv'
  <1>1. ASSUME TunnelMove(s, "waiting", [Rearmed(s)[s] EXCEPT !.tun = "up"])
        PROVE  DropInv'
    <2> DEFINE r == Rearmed(s)[s]
               q == Relabelled(r, "up", r.requested)
    <2>1. r \in ServerType /\ ServerOK(r, endings[s]) /\ (Takes(r) => Takes(srv[s]))
      BY RearmedOK
    <2>2. (r.proc => r.cmd) /\ r.requested \in BOOLEAN
          /\ q = [r EXCEPT !.tun = "up"]
      <3>1. r.tun = srv[s].tun
        BY Known DEF Rearmed, ServerType, DropInv, GoTypes
      <3>2. srv[s].tun = "waiting"
        BY <1>1 DEF TunnelMove
      <3> HIDE DEF r
      <3> QED BY <2>1, <3>1, <3>2 DEF ServerOK, ServerType, Relabelled
    <2>3. TunnelMove(s, "waiting", q)
      BY <1>1, <2>2
    <2> HIDE DEF r
    <2>4. q \in ServerType /\ ServerOK(q, endings[s]) /\ (Takes(q) => Takes(srv[s]))
      BY <2>1, <2>2, Known, RelabelledOK
    <2> HIDE DEF q
    <2> QED BY <2>3, <2>4, TunnelMoveInv
  <1>2. ASSUME TunnelMove(s, "waiting", [srv[s] EXCEPT !.tun = "idle"]) PROVE DropInv'
    <2>1. /\ srv[s].requested \in BOOLEAN
          /\ [srv[s] EXCEPT !.tun = "idle"]
                = Relabelled(srv[s], "idle", srv[s].requested)
      BY Known DEF ServerType, Relabelled
    <2> QED BY <1>2, <2>1, RelabelInv DEF TunnelMove
  <1>3. ASSUME TunnelFails(s, "waiting", Killed(s)) PROVE DropInv'
    <2> DEFINE r == Killed(s)
               q == Relabelled(r, "idle", FALSE)
    <2>1. r \in ServerType /\ ServerOK(r, endings[s]) /\ (Takes(r) => Takes(srv[s]))
          /\ ~r.proc
      BY <1>3, KilledOK DEF TunnelFails, TunnelMove
    <2>2. TunnelMove(s, "waiting", q)
      BY <1>3 DEF TunnelFails, Relabelled
    <2> HIDE DEF r
    <2>3. q \in ServerType /\ ServerOK(q, endings[s]) /\ (Takes(q) => Takes(srv[s]))
      BY <2>1, Known, RelabelledOK
    <2> HIDE DEF q
    <2> QED BY <2>2, <2>3, TunnelMoveInv
  <1> QED BY <1>1, <1>2, <1>3 DEF TunnelWait

LEMMA TunnelReadyInv ==
  ASSUME DropInv, NEW s \in Sessions, TunnelReady(s) PROVE DropInv'
  <1>1. /\ srv[s].requested \in BOOLEAN
        /\ [srv[s] EXCEPT !.tun = "idle"] = Relabelled(srv[s], "idle", srv[s].requested)
    BY Known DEF ServerType, Relabelled
  <1> QED BY <1>1, RelabelInv DEF TunnelReady, TunnelMove

-----------------------------------------------------------------------------
(* The theorems *)

LEMMA Inductive == DropInv /\ [Next]_vars => DropInv'
  <1> SUFFICES ASSUME DropInv, [Next]_vars PROVE DropInv'
    OBVIOUS
  <1>1. CASE UNCHANGED vars
    BY <1>1, Quiet DEF vars
  <1>2. CASE Dialog
    BY <1>2, Quiet DEF Dialog, PageOpen, PageCancel, PageTunnel, FadeEnd, PageEvent,
                       goVars
  <1>3. CASE Application
    <2>1. CASE AppTunnel
      BY <2>1, Quiet DEF AppTunnel
    <2> QED BY <1>3, <2>1, AppStartInv, AppCancelInv, TunnelSlotInv DEF Application
  <1>4. ASSUME NEW s \in Sessions,
               Fire(s) \/ Stop(s) \/ Batch(s) \/ Tunnel(s) \/ Phone(s) \/ ServeFails(s)
        PROVE  DropInv'
    <2>1. CASE Stop(s)
      BY <2>1, StopBeginInv, StopKillInv, StopShutdownInv, TimeoutReleaseInv,
         TimeoutEventInv DEF Stop
    <2>2. CASE Batch(s)
      BY <2>2, BatchReleaseInv, BatchSendInv DEF Batch
    <2>3. CASE Tunnel(s)
      BY <2>3, TunnelGuardInv, TunnelSpawnInv, TunnelRegisterInv, TunnelWaitInv,
         TunnelReadyInv DEF Tunnel
    <2>4. CASE Phone(s)
      BY <2>4, PhoneInv, ReadBodyInv DEF Phone
    <2> QED BY <1>4, <2>1, <2>2, <2>3, <2>4, FireInv, ServeFailsInv
  <1> QED BY <1>1, <1>2, <1>3, <1>4 DEF Next

\* The invariant holds over every run of the dialog, the application, the
\* server's goroutines, the phone and the tunnel.
THEOREM DropInvariant == Spec => []DropInv
  BY Initial, Inductive, PTL DEF Spec

\* Whatever timer, uploads, cancel and failures do at the same time, the page is
\* told of one ending of a session at most: its batch or its timeout (claim,
\* stopWith).
THEOREM OneEndingAlways == Spec => []OneEnding
  <1>1. DropInv => OneEnding
    BY DEF DropInv, GoTypes, ServerOK, OneEnding
  <1> QED BY <1>1, DropInvariant, PTL

\* A server that takes a submission and that nobody has asked to stop is the
\* one in the slot: the user can cancel it, and there is one at most.
THEOREM ReachableAlways == Spec => []ReachableByCancel
  <1>1. DropInv => ReachableByCancel
    <2> SUFFICES ASSUME DropInv, NEW s \in 1..opened, ~Stopped(s), ~srv[s].completed,
                        "stop" \notin srv[s].want
                 PROVE  slot = s
      BY DEF ReachableByCancel, Started
    <2> QED BY DEF DropInv, Takes, Stopped
  <1> QED BY <1>1, DropInvariant, PTL

\* killTunnel leaves no cloudflared but one that StartTunnel has just launched
\* and finds out about itself (launchTunnel).
THEOREM NoOrphanAlways == Spec => []NoOrphanTunnel
  <1>1. DropInv => NoOrphanTunnel
    BY DEF DropInv, ServerOK, NoOrphanTunnel
  <1> QED BY <1>1, DropInvariant, PTL
=============================================================================
