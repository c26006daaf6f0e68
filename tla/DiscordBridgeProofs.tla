------------------------ MODULE DiscordBridgeProofs ------------------------
(***************************************************************************)
(* Machine-checked facts about the Discord bridge, for every number of     *)
(* messages, pollers, failures and crashes and every size of an answer:    *)
(* one poller at a time, the saved id never ahead of the scrap, and a      *)
(* second copy of a message only for a crash or a save that failed.        *)
(***************************************************************************)
EXTENDS DiscordBridge, SequenceTheorems, TLAPS

USE DiscordAssumption

\* The invariant.  A poller that is not off is the application's, and what the
\* two counters of pollers may still do.
OnePoller ==
    /\ \A p \in Pollers : poller[p].pc # "off" => p = current /\ running
    /\ stopping \/ ~running => started < MaxPollers
    /\ stopping => current # None /\ running

\* The batch of a poller that delivers goes on where its id ends, or where the
\* bridge found its starting point.
BatchOf(q) ==
    /\ q.batch # <<>>
    /\ q.last < q.batch[1]
    /\ q.batch[1] - 1 = q.last \/ q.batch[1] - 1 <= base
    /\ \A i \in 1..Len(q.batch) : q.batch[i] = q.batch[1] + i - 1

\* Before its first id a poller has no id in the file either.
Positions ==
    \A p \in Pollers :
        /\ poller[p].pc = "deliver" => BatchOf(poller[p])
        /\ poller[p].pc = "baseline" => poller[p].last = None
        /\ poller[p].pc = "save" => poller[p].last # None
        /\ poller[p].pc \in {"baseline", "waiting", "deliver"}
                 /\ poller[p].last = None => file = None

Covered(id) ==
    \A m \in Messages \ Foreign :
        base < m /\ m <= id => copies[m] > 0 \/ m \in reported
AllCovered ==
    /\ Covered(file)
    /\ \A p \in Pollers : poller[p].pc # "off" => Covered(poller[p].last)

\* No message has more copies than this, but for those the id is not saved of.
Interruptions == crashes + lostSaves
Once(id) == \A m \in Messages : id < m => copies[m] <= Interruptions
CountedCopies ==
    /\ lostSaves <= faults
    /\ \A m \in Messages : copies[m] <= 1 + Interruptions
    /\ \A p \in Pollers :
         poller[p].pc \notin {"off", "connecting"} => Once(poller[p].last)
    /\ (\A p \in Pollers : poller[p].pc \notin {"deliver", "save"}) => Once(file)

BridgeInv == TypeOK /\ OnePoller /\ Positions /\ AllCovered /\ CountedCopies

PollerType(s) ==
    [pc: Labels, last: 0..s, batch: Seq(1..s), cancelled: BOOLEAN]

LEMMA EmptyIsBatch == \A s \in Nat : <<>> \in Seq(1..s)
  OBVIOUS

LEMMA UnstartedType == \A s \in Nat : Unstarted \in PollerType(s)
  BY EmptyIsBatch DEF Unstarted, PollerType, Labels, None

LEMMA Initial == Init => BridgeInv
  <1> SUFFICES ASSUME Init PROVE BridgeInv
    OBVIOUS
  <1>1. TypeOK
    <2>1. poller \in [Pollers -> PollerType(sent)]
      BY UnstartedType DEF Init
    <2>2. copies \in [Messages -> Nat]
      BY DEF Init
    <2>3. \A p \in Pollers : poller[p] = Unstarted
      BY DEF Init
    <2>4. /\ sent = 0 /\ file = 0 /\ started = 0 /\ current = 0
          /\ stopping = FALSE /\ enabled = FALSE /\ running = TRUE
          /\ reported = {} /\ base = MaxMessages
          /\ lostSaves = 0 /\ crashes = 0 /\ faults = 0
      BY DEF Init, None
    <2>5. poller \in [Pollers -> [pc: Labels, last: 0..sent, batch: Seq(1..sent),
                                 cancelled: BOOLEAN]]
      BY <2>1 DEF PollerType
    <2>6. sent \in 0..MaxMessages /\ file \in 0..sent /\ started \in 0..MaxPollers
          /\ current \in 0..started /\ lostSaves \in 0..MaxFaults
          /\ crashes \in 0..MaxCrashes /\ faults \in 0..MaxFaults
          /\ base \in 0..MaxMessages
      BY <2>4
    <2> QED BY <2>2, <2>3, <2>4, <2>5, <2>6, Zenon DEF TypeOK
  <1>2. OnePoller /\ Positions
    BY DEF Init, OnePoller, Positions, Unstarted
  <1>3. AllCovered /\ CountedCopies
    BY DEF Init, AllCovered, Covered, CountedCopies, Once, Interruptions,
           Unstarted, Messages, None
  <1> QED BY <1>1, <1>2, <1>3 DEF BridgeInv

(***************************************************************************)
(* The application                                                         *)
(***************************************************************************)

\* One more message reaches the channel: what is a poller stays one.
LEMMA LargerType ==
  ASSUME NEW s \in Nat, NEW q \in PollerType(s)
  PROVE  q \in PollerType(s + 1)
  <1>1. q.batch \in Seq(1..(s + 1))
    BY SeqMonotonic DEF PollerType
  <1> QED BY <1>1 DEF PollerType

LEMMA SentInv == ASSUME BridgeInv, Sent PROVE BridgeInv'
  <1>1. \A p \in Pollers : poller[p] \in PollerType(sent + 1)
    BY LargerType DEF BridgeInv, TypeOK, PollerType
  <1>2. poller \in [Pollers -> PollerType(sent + 1)]
    BY <1>1 DEF BridgeInv, TypeOK
  <1>3. TypeOK'
    BY <1>2 DEF BridgeInv, TypeOK, PollerType, Sent, appVars, scrapVars
  <1> QED BY <1>3 DEF BridgeInv, OnePoller, Positions, BatchOf, AllCovered,
            Covered, CountedCopies, Once, Interruptions, Sent, appVars, scrapVars

\* A poller that starts changes nothing the invariant says about others: there
\* are none.
LEMMA StartInv ==
  ASSUME BridgeInv, NEW e \in BOOLEAN, StartIf(e), started < MaxPollers,
         \A p \in Pollers : poller[p].pc = "off",
         running' = TRUE, stopping' = FALSE, enabled' \in BOOLEAN,
         UNCHANGED <<sent, file, scrapVars, base, lostSaves, crashes, faults>>
  PROVE  BridgeInv'
  <1> DEFINE new == started + 1
             fresh == [Unstarted EXCEPT !.pc = "connecting"]
  <1>1. fresh \in PollerType(sent) /\ fresh.pc = "connecting" /\ fresh.last = None
    <2>1. sent \in Nat
      BY DEF BridgeInv, TypeOK
    <2> QED BY <2>1, UnstartedType DEF Unstarted, PollerType, Labels
  <1>2. CASE ~e
    <2>1. TypeOK'
      <3>1. current' = 0 /\ UNCHANGED <<started, poller>>
        BY <1>2 DEF StartIf, None
      <3>2. started' = started /\ poller' = poller /\ started \in 0..MaxPollers
        BY <3>1 DEF BridgeInv, TypeOK
      <3>3. current' \in 0..started'
        BY <3>1, <3>2
      <3>4. \A p \in Pollers : p > started' \/ ~running' => poller'[p] = Unstarted
        BY <3>2 DEF BridgeInv, TypeOK
      <3> QED BY <3>2, <3>3, <3>4 DEF BridgeInv, TypeOK, scrapVars
    <2> QED BY <1>2, <2>1 DEF BridgeInv, OnePoller, Positions, BatchOf,
              AllCovered, Covered, CountedCopies, Once, Interruptions, StartIf,
              scrapVars
  <1>3. CASE e
    <2>1. new \in Pollers /\ started' = new /\ current' = new
          /\ poller' = [poller EXCEPT ![new] = fresh]
      BY <1>3 DEF BridgeInv, TypeOK, StartIf, Set, Pollers
    <2>2. TypeOK'
      <3>1. poller' \in [Pollers -> PollerType(sent)]
        BY <1>1, <2>1 DEF BridgeInv, TypeOK, PollerType
      <3>2. \A p \in Pollers : p > started' => poller'[p] = Unstarted
        BY <2>1 DEF BridgeInv, TypeOK, Pollers
      <3>3. started' \in 0..MaxPollers /\ current' \in 0..started'
        BY <2>1 DEF BridgeInv, TypeOK
      <3> QED BY <3>1, <3>2, <3>3 DEF BridgeInv, TypeOK, PollerType, scrapVars
    <2>3. OnePoller'
      BY <1>1, <2>1 DEF BridgeInv, TypeOK, OnePoller, None
    <2>4. Positions'
      BY <1>1, <2>1 DEF BridgeInv, TypeOK, Positions
    <2>5. AllCovered'
      <3>1. Covered(file)' /\ \A p \in Pollers \ {new} : poller'[p].pc = "off"
        BY <2>1 DEF BridgeInv, TypeOK, AllCovered, Covered, scrapVars
      <3>2. Covered(poller[started].last)'
        BY <1>1, <2>1 DEF BridgeInv, TypeOK, Covered, Messages, None
      <3> QED BY <2>1, <3>1, <3>2 DEF AllCovered
    <2>6. CountedCopies'
      BY <1>1, <2>1 DEF BridgeInv, TypeOK, CountedCopies, Once, Interruptions,
         scrapVars
    <2> QED BY <2>2, <2>3, <2>4, <2>5, <2>6 DEF BridgeInv
  <1> QED BY <1>2, <1>3

\* Told to stop, a poller is what it was.
LEMMA StopInv ==
  ASSUME BridgeInv, running, ~stopping, started < MaxPollers, current # None,
         poller' = [poller EXCEPT ![current].cancelled = TRUE],
         stopping', stopping' \in BOOLEAN, enabled' \in BOOLEAN,
         UNCHANGED <<started, current, sent, file, running, scrapVars, base,
                     lostSaves, crashes, faults>>
  PROVE  BridgeInv'
  <1>1. current \in Pollers /\ current <= started
    BY DEF BridgeInv, TypeOK, Pollers, None
  <1>2. poller' \in [Pollers -> PollerType(sent)]
    BY <1>1 DEF BridgeInv, TypeOK, PollerType
  <1>3. \A p \in Pollers : /\ poller'[p].pc = poller[p].pc
                           /\ poller'[p].last = poller[p].last
                           /\ poller'[p].batch = poller[p].batch
    BY <1>1 DEF BridgeInv, TypeOK
  <1>4. \A p \in Pollers : p > started => poller'[p] = Unstarted
    BY <1>1 DEF BridgeInv, TypeOK, Pollers
  <1>5. TypeOK'
    BY <1>2, <1>4 DEF BridgeInv, TypeOK, PollerType, scrapVars
  <1> QED BY <1>3, <1>5 DEF BridgeInv, OnePoller, Positions, BatchOf,
            AllCovered, Covered, CountedCopies, Once, Interruptions, scrapVars

LEMMA ReconfigureInv == ASSUME BridgeInv, Reconfigure PROVE BridgeInv'
  <1>1. PICK e \in BOOLEAN :
          /\ enabled' = e
          /\ \/ /\ current # None
                /\ poller' = [poller EXCEPT ![current].cancelled = TRUE]
                /\ stopping' = TRUE
                /\ UNCHANGED <<started, current>>
             \/ /\ current = None
                /\ StartIf(e)
                /\ UNCHANGED stopping
    BY DEF Reconfigure
  <1>2. CASE current # None
    BY <1>1, <1>2, StopInv DEF Reconfigure
  <1>3. CASE current = None
    <2>1. \A p \in Pollers : poller[p].pc = "off"
      BY <1>3 DEF BridgeInv, OnePoller, Pollers, None
    <2>2. running' = TRUE /\ stopping' = FALSE
      BY <1>1, <1>3 DEF BridgeInv, TypeOK, Reconfigure
    <2>3. StartIf(e) /\ enabled' = e
      BY <1>1, <1>3
    <2> QED BY <2>1, <2>2, <2>3, StartInv DEF Reconfigure
  <1> QED BY <1>2, <1>3

\* The old poller has ended (InitDiscordBridge waits for it).
LEMMA ReplaceInv == ASSUME BridgeInv, Replace PROVE BridgeInv'
  <1>1. \A p \in Pollers : poller[p].pc = "off"
    BY DEF BridgeInv, OnePoller, Replace, Ended
  <1>2. started < MaxPollers /\ enabled \in BOOLEAN
    BY DEF BridgeInv, TypeOK, OnePoller, Replace
  <1> QED BY <1>1, <1>2, StartInv DEF Replace

LEMMA LaunchInv == ASSUME BridgeInv, Launch PROVE BridgeInv'
  <1>1. \A p \in Pollers : poller[p].pc = "off"
    BY DEF BridgeInv, TypeOK, OnePoller, Launch
  <1>2. started < MaxPollers /\ enabled \in BOOLEAN /\ stopping = FALSE
    BY DEF BridgeInv, TypeOK, OnePoller, Launch
  <1>3. /\ StartIf(enabled) /\ running' = TRUE /\ enabled' = enabled
        /\ UNCHANGED <<stopping, sent, file, scrapVars, base, lostSaves, crashes, faults>>
    BY DEF Launch
  <1> QED BY <1>1, <1>2, <1>3, StartInv

\* What was delivered and not saved is delivered once more: the crash counts
\* for it.
LEMMA CrashInv == ASSUME BridgeInv, Crash PROVE BridgeInv'
  <1>1. file' \in 0..sent /\ Covered(file') /\ file' \in Nat
    <2>1. CASE file' = file
      BY <2>1 DEF BridgeInv, TypeOK, AllCovered
    <2>2. CASE file' = None
      BY <2>2 DEF BridgeInv, TypeOK, Covered, Messages, None
    <2>3. ASSUME NEW p \in Pollers, poller[p].pc = "save", file' = poller[p].last
          PROVE  file' \in 0..sent /\ Covered(file') /\ file' \in Nat
      BY <2>3 DEF BridgeInv, TypeOK, AllCovered
    <2> QED BY <2>1, <2>2, <2>3 DEF Crash
  <1>2. TypeOK'
    <2>1. poller' \in [Pollers -> PollerType(sent)]
      BY UnstartedType DEF BridgeInv, TypeOK, Crash
    <2>2. \A p \in Pollers : poller'[p] = Unstarted
      BY DEF Crash
    <2>3. /\ UNCHANGED <<sent, started, enabled, scrapVars, base, lostSaves, faults>>
          /\ crashes' = crashes + 1 /\ crashes < MaxCrashes
          /\ running' = FALSE /\ stopping' = FALSE /\ current' = 0
      BY DEF Crash, None
    <2>4. current' \in 0..started' /\ crashes' \in 0..MaxCrashes
      BY <2>3 DEF BridgeInv, TypeOK
    <2> QED BY <1>1, <2>1, <2>2, <2>3, <2>4 DEF BridgeInv, TypeOK, PollerType, scrapVars
  <1>3. \A p \in Pollers : poller'[p].pc = "off"
    BY DEF Crash, Unstarted
  <1>4. OnePoller' /\ Positions'
    BY <1>3 DEF OnePoller, Positions, Crash
  <1>5. AllCovered'
    BY <1>1, <1>3 DEF AllCovered, Covered, Crash, scrapVars
  <1>6. CountedCopies'
    <2>1. \A m \in Messages : copies'[m] <= Interruptions'
      BY DEF BridgeInv, TypeOK, CountedCopies, Interruptions, Crash, scrapVars
    <2>2. \A m \in Messages : copies'[m] <= 1 + Interruptions'
      BY <2>1, <1>2 DEF TypeOK, Interruptions
    <2>3. lostSaves' <= faults'
      BY DEF BridgeInv, CountedCopies, Crash
    <2> QED BY <1>3, <2>1, <2>2, <2>3 DEF CountedCopies, Once
  <1> QED BY <1>2, <1>4, <1>5, <1>6 DEF BridgeInv

(***************************************************************************)
(* One poller                                                              *)
(***************************************************************************)

\* What every step of a poller has in common: the others are off, and the
\* step leaves the application alone.
LEMMA OthersOff ==
  ASSUME BridgeInv, NEW p \in Pollers, poller[p].pc # "off"
  PROVE  /\ \A q \in Pollers \ {p} : poller[q].pc = "off"
         /\ p = current /\ running
  BY DEF BridgeInv, OnePoller

\* The invariant after a step of p, from what the step does to p and the file.
LEMMA StepInv ==
  ASSUME BridgeInv, NEW p \in Pollers, poller[p].pc # "off", Own,
         NEW q \in PollerType(sent), Set(p, q),
         file' \in 0..sent, copies' \in [Messages -> Nat],
         reported' \subseteq Messages, base' \in 0..MaxMessages,
         lostSaves' \in Nat, faults' \in 0..MaxFaults, lostSaves' <= faults',
         q.pc = "deliver" => BatchOf(q)',
         q.pc = "baseline" => q.last = None,
         q.pc = "save" => q.last # None,
         q.pc \in {"baseline", "waiting", "deliver"} /\ q.last = None => file' = None,
         Covered(file)', q.pc # "off" => Covered(q.last)',
         \A m \in Messages : copies'[m] <= 1 + Interruptions',
         q.pc \notin {"off", "connecting"} => Once(q.last)',
         q.pc \notin {"deliver", "save"} => Once(file)'
  PROVE  BridgeInv'
  <1>1. \A o \in Pollers \ {p} : poller'[o].pc = "off"
    BY OthersOff DEF BridgeInv, TypeOK, Set
  <1>2. poller'[p] = q /\ poller' \in [Pollers -> PollerType(sent)]
    BY DEF BridgeInv, TypeOK, PollerType, Set
  <1>3. TypeOK'
    <2>1. p <= started /\ running
      BY DEF BridgeInv, TypeOK, OnePoller, Unstarted, Pollers
    <2>2. \A o \in Pollers : o > started => poller'[o] = Unstarted
      BY <2>1 DEF BridgeInv, TypeOK, Set, Pollers
    <2> QED BY <1>2, <2>1, <2>2 DEF BridgeInv, TypeOK, PollerType, Own, appVars
  <1>4. OnePoller'
    BY <1>1, OthersOff DEF BridgeInv, OnePoller, Own, appVars
  <1>5. Positions'
    BY <1>1, <1>2 DEF Positions, BatchOf
  <1>6. AllCovered'
    BY <1>1, <1>2 DEF AllCovered, Covered
  <1>7. CountedCopies'
    BY <1>1, <1>2 DEF CountedCopies, Once
  <1> QED BY <1>3, <1>4, <1>5, <1>6, <1>7 DEF BridgeInv

\* The facts of the invariant about a poller and the file, as the steps use them.
Types(p) ==
  /\ poller[p] \in PollerType(sent)
  /\ poller[p].last \in 0..sent /\ poller[p].batch \in Seq(1..sent)
  /\ sent \in 0..MaxMessages /\ file \in 0..sent
  /\ copies \in [Messages -> Nat] /\ reported \subseteq Messages
  /\ base \in 0..MaxMessages
  /\ lostSaves \in Nat /\ faults \in 0..MaxFaults /\ lostSaves <= faults
  /\ crashes \in 0..MaxCrashes

LEMMA PollerTypes == ASSUME BridgeInv, NEW p \in Pollers PROVE Types(p)
  <1>1. poller[p] \in PollerType(sent)
    BY DEF BridgeInv, TypeOK, PollerType
  <1>2. poller[p].last \in 0..sent /\ poller[p].batch \in Seq(1..sent)
    BY <1>1 DEF PollerType
  <1> QED BY <1>1, <1>2 DEF BridgeInv, TypeOK, CountedCopies, Types

LEMMA PollerFacts ==
  ASSUME BridgeInv, NEW p \in Pollers
  PROVE  /\ Covered(file) /\ (poller[p].pc # "off" => Covered(poller[p].last))
         /\ \A m \in Messages : copies[m] <= 1 + Interruptions
         /\ poller[p].pc \notin {"off", "connecting"} => Once(poller[p].last)
         /\ poller[p].pc \notin {"off", "deliver", "save"} => Once(file)
  <1>1. /\ Covered(file) /\ (poller[p].pc # "off" => Covered(poller[p].last))
        /\ \A m \in Messages : copies[m] <= 1 + Interruptions
        /\ poller[p].pc \notin {"off", "connecting"} => Once(poller[p].last)
    BY DEF BridgeInv, AllCovered, CountedCopies
  <1>2. poller[p].pc \notin {"off", "deliver", "save"} => Once(file)
    BY OthersOff DEF BridgeInv, CountedCopies
  <1> QED BY <1>1, <1>2

LEMMA CancelledInv ==
  ASSUME BridgeInv, NEW p \in Pollers, Cancelled(p) PROVE BridgeInv'
  <1>1. PICK q \in PollerType(sent) :
          /\ q = [poller[p] EXCEPT !.pc = "off"]
          /\ q.pc = "off" /\ q.last = poller[p].last
    <2>1. poller[p] \in PollerType(sent)
      BY PollerTypes DEF Types
    <2>2. [poller[p] EXCEPT !.pc = "off"] \in PollerType(sent)
      BY <2>1 DEF PollerType, Labels
    <2> QED BY <2>1, <2>2 DEF PollerType
  <1>2. Set(p, q) /\ Own /\ poller[p].pc \in {"connecting", "waiting"}
        /\ UNCHANGED <<file, copies, reported, base, lostSaves, faults, sent, crashes>>
    BY <1>1 DEF Cancelled, Own, scrapVars
  <1>3. Covered(file)' /\ Once(file)'
        /\ \A m \in Messages : copies'[m] <= 1 + Interruptions'
    BY <1>2, PollerFacts DEF Covered, Once, Interruptions
  <1>4. Types(p)
    BY PollerTypes
  <1> QED BY <1>1, <1>2, <1>3, <1>4, StepInv DEF Types

LEMMA ConnectInv ==
  ASSUME BridgeInv, NEW p \in Pollers, Connect(p) PROVE BridgeInv'
  <1>1. Types(p)
    BY PollerTypes
  <1>2. PICK q \in PollerType(sent) :
          /\ q = [poller[p] EXCEPT
                    !.pc = IF file = None THEN "baseline" ELSE "waiting",
                    !.last = file]
          /\ q.last = file
          /\ q.pc = IF file = None THEN "baseline" ELSE "waiting"
    <2> DEFINE r == [poller[p] EXCEPT
                       !.pc = IF file = None THEN "baseline" ELSE "waiting",
                       !.last = file]
    <2>1. poller[p] \in PollerType(sent) /\ file \in 0..sent
      BY <1>1 DEF Types
    <2>2. r \in PollerType(sent) /\ r.last = file
          /\ r.pc = IF file = None THEN "baseline" ELSE "waiting"
      BY <2>1 DEF PollerType, Labels
    <2> QED BY <2>2
  <1>3. Set(p, q) /\ Own /\ poller[p].pc = "connecting"
        /\ UNCHANGED <<file, copies, reported, base, lostSaves, faults, sent, crashes>>
    BY <1>2 DEF Connect, Own, scrapVars
  <1>4. Covered(file)' /\ Once(file)'
        /\ \A m \in Messages : copies'[m] <= 1 + Interruptions'
    BY <1>3, PollerFacts DEF Covered, Once, Interruptions
  <1>5. Covered(q.last)' /\ Once(q.last)'
    BY <1>2, <1>3, <1>4 DEF Covered, Once
  <1>6. /\ q.pc \notin {"deliver", "save", "off"}
        /\ q.pc = "baseline" => q.last = None
        /\ q.last = None => file' = None
    BY <1>2, <1>3
  <1> QED BY <1>1, <1>3, <1>4, <1>5, <1>6, StepInv DEF Types

\* Before the first id everything is as old as the file says: nothing.
LEMMA BaselineInv ==
  ASSUME BridgeInv, NEW p \in Pollers, Baseline(p) PROVE BridgeInv'
  <1>1. poller[p].last = None /\ file = None /\ poller[p].pc = "baseline"
    BY DEF BridgeInv, Positions, Baseline
  <1>2. Own /\ UNCHANGED <<file, copies, reported, lostSaves, sent, crashes>>
    BY DEF Baseline, Own, scrapVars
  <1>3. Types(p)
    BY PollerTypes
  <1>4. faults' \in 0..MaxFaults /\ lostSaves' \in Nat /\ lostSaves' <= faults'
    BY <1>2, <1>3 DEF Baseline, Fault, Types
  <1>5. Once(file)' /\ Covered(file)'
        /\ \A m \in Messages : copies'[m] <= 1 + Interruptions'
    <2>1. Once(file) /\ \A m \in Messages : copies[m] <= 1 + Interruptions
      BY <1>1, PollerFacts
    <2> QED BY <1>1, <1>2, <2>1 DEF Once, Covered, Messages, None, Interruptions
  <1>6. CASE sent > 0 /\ base' = sent
             /\ Set(p, [poller[p] EXCEPT !.pc = "save", !.last = sent])
    <2>1. PICK q \in PollerType(sent) :
            /\ q = [poller[p] EXCEPT !.pc = "save", !.last = sent]
            /\ q.last = sent /\ q.pc = "save"
      <3> DEFINE r == [poller[p] EXCEPT !.pc = "save", !.last = sent]
      <3>1. poller[p] \in PollerType(sent) /\ sent \in 0..sent
        BY <1>3 DEF Types
      <3>2. r \in PollerType(sent) /\ r.last = sent /\ r.pc = "save"
        BY <3>1 DEF PollerType, Labels
      <3> QED BY <3>2
    <2>2. Set(p, q) /\ q.last # None /\ base' \in 0..MaxMessages
      BY <1>3, <1>6, <2>1 DEF None, Types
    <2>3. Covered(q.last)' /\ Once(q.last)'
      <3>1. base' = q.last /\ q.last \in Nat
        BY <1>3, <1>6, <2>1 DEF Types
      <3> QED BY <1>1, <1>2, <1>5, <3>1 DEF Covered, Once, Messages, None
    <2>4. /\ file' \in 0..sent /\ copies' \in [Messages -> Nat]
          /\ reported' \subseteq Messages
      BY <1>2, <1>3 DEF Types
    <2>5. q.pc \notin {"off", "deliver", "baseline", "waiting"} /\ poller[p].pc # "off"
      BY <1>1, <2>1
    <2> QED BY <1>2, <1>4, <1>5, <2>2, <2>3, <2>4, <2>5, StepInv
  <1>7. CASE UNCHANGED base /\ Set(p, [poller[p] EXCEPT !.pc = "waiting"])
    <2>1. PICK q \in PollerType(sent) :
            /\ q = [poller[p] EXCEPT !.pc = "waiting"]
            /\ q.last = None /\ q.pc = "waiting"
      <3> DEFINE r == [poller[p] EXCEPT !.pc = "waiting"]
      <3>1. poller[p] \in PollerType(sent)
        BY <1>3 DEF Types
      <3>2. r \in PollerType(sent) /\ r.last = None /\ r.pc = "waiting"
        BY <1>1, <3>1 DEF PollerType, Labels
      <3> QED BY <3>2
    <2>2. Set(p, q)
      BY <1>7, <2>1
    <2>3. Covered(q.last)' /\ Once(q.last)'
      BY <1>1, <1>2, <1>5, <2>1 DEF Covered, Once
    <2>4. /\ file' \in 0..sent /\ copies' \in [Messages -> Nat]
          /\ reported' \subseteq Messages /\ base' \in 0..MaxMessages
      BY <1>2, <1>3, <1>7 DEF Types
    <2>5. /\ q.pc \notin {"off", "deliver", "baseline", "save"}
          /\ poller[p].pc # "off" /\ file' = None
      BY <1>1, <1>2, <2>1
    <2> QED BY <1>2, <1>4, <1>5, <2>2, <2>3, <2>4, <2>5, StepInv
  <1> QED BY <1>6, <1>7 DEF Baseline

\* An answer is a run of numbers that starts behind the id, or behind what
\* counts as old from now on.
LEMMA FetchedIsBatch ==
  ASSUME sent \in Nat, NEW last \in 0..sent, Fetched(last) # <<>>
  PROVE  /\ Fetched(last) \in Seq(1..sent)
         /\ Fetched(last)[1] = Window(last) + 1
         /\ last < Fetched(last)[1]
         /\ \A i \in 1..Len(Fetched(last)) :
              Fetched(last)[i] = Fetched(last)[1] + i - 1
  <1>1. Window(last) \in 0..sent /\ last <= Window(last)
    BY DEF Window, Newest, None
  <1>2. Size(last) \in Nat /\ Window(last) + Size(last) <= sent
    BY <1>1 DEF Size
  <1>3. Fetched(last) \in [1..Size(last) -> 1..sent]
    BY <1>1, <1>2 DEF Fetched
  <1>4. Fetched(last) \in Seq(1..sent) /\ Len(Fetched(last)) = Size(last)
    BY <1>2, <1>3, IsASeq
  <1>5. Size(last) # 0
    BY <1>4, EmptySeq
  <1>6. \A i \in 1..Size(last) : Fetched(last)[i] = Window(last) + i
    BY DEF Fetched
  <1> HIDE DEF Fetched, Size, Window
  <1> QED BY <1>1, <1>2, <1>4, <1>5, <1>6

LEMMA PollInv ==
  ASSUME BridgeInv, NEW p \in Pollers, Poll(p) PROVE BridgeInv'
  <1>1. poller[p].pc = "waiting" /\ Own
        /\ UNCHANGED <<file, copies, reported, lostSaves, sent, crashes>>
    BY DEF Poll, Own, scrapVars
  <1>2. Types(p)
    BY PollerTypes
  <1>3. CASE Fault /\ UNCHANGED <<poller, base>>
    <2>1. TypeOK'
      BY <1>1, <1>3 DEF BridgeInv, TypeOK, Fault, Own, appVars
    <2>2. lostSaves' <= faults'
      BY <1>1, <1>2, <1>3 DEF Types, Fault
    <2> QED BY <1>1, <1>3, <2>1, <2>2 DEF BridgeInv, OnePoller, Positions,
              BatchOf, AllCovered, Covered, CountedCopies, Once, Interruptions,
              Own, appVars
  <1>4. ASSUME NEW last, last = poller[p].last, NEW new, new = Fetched(last),
               new # <<>>, UNCHANGED faults,
               Set(p, [poller[p] EXCEPT !.pc = "deliver", !.batch = new]),
               base' = IF last = None THEN Head(new) - 1 ELSE base
        PROVE  BridgeInv'
    <2>1. /\ new \in Seq(1..sent) /\ new[1] = Window(last) + 1 /\ last < new[1]
          /\ \A i \in 1..Len(new) : new[i] = new[1] + i - 1
      <3>1. sent \in Nat /\ last \in 0..sent
        BY <1>2, <1>4 DEF Types
      <3> QED BY <1>4, <3>1, FetchedIsBatch
    <2>2. last = None => file = None
      BY <1>1, <1>4 DEF BridgeInv, Positions
    <2>3. PICK q \in PollerType(sent) :
            /\ q = [poller[p] EXCEPT !.pc = "deliver", !.batch = new]
            /\ q.last = last /\ q.pc = "deliver" /\ q.batch = new
      <3> DEFINE r == [poller[p] EXCEPT !.pc = "deliver", !.batch = new]
      <3>1. poller[p] \in PollerType(sent)
        BY <1>2 DEF Types
      <3>2. r \in PollerType(sent) /\ r.last = last /\ r.pc = "deliver" /\ r.batch = new
        BY <1>4, <2>1, <3>1 DEF PollerType, Labels
      <3> QED BY <3>2
    <2>4. Head(new) = new[1] /\ new[1] \in 1..sent
      <3>1. Len(new) \in Nat \ {0}
        BY <1>4, <2>1, EmptySeq
      <3>2. Head(new) \in 1..sent
        BY <1>4, <2>1, HeadTailProperties
      <3>3. Head(new) = new[1]
        BY <2>1
      <3> QED BY <3>2, <3>3
    <2>5. base' \in 0..MaxMessages
      BY <1>2, <1>4, <2>4 DEF Types
    <2>6. BatchOf(q)'
      <3>1. last # None => Window(last) = last
        BY DEF Window
      <3>2. new[1] - 1 = last \/ new[1] - 1 <= base'
        <4>1. CASE last = None
          BY <1>4, <2>4, <4>1
        <4>2. CASE last # None
          <5>1. last \in Nat /\ new[1] = last + 1
            BY <1>2, <1>4, <2>1, <3>1, <4>2 DEF Types
          <5> QED BY <5>1
        <4> QED BY <4>1, <4>2
      <3>3. /\ q.batch # <<>> /\ q.last < q.batch[1]
            /\ q.batch[1] - 1 = q.last \/ q.batch[1] - 1 <= base'
            /\ \A i \in 1..Len(q.batch) : q.batch[i] = q.batch[1] + i - 1
        BY <1>4, <2>1, <2>3, <3>2
      <3> QED BY <3>3 DEF BatchOf
    <2>7. Covered(file)' /\ Covered(q.last)' /\ Once(q.last)'
          /\ \A m \in Messages : copies'[m] <= 1 + Interruptions'
      <3>1. /\ Covered(file) /\ Covered(last) /\ Once(last)
            /\ \A m \in Messages : copies[m] <= 1 + Interruptions
        BY <1>1, <1>4, PollerFacts
      <3>2. CASE last = None
        BY <1>1, <2>2, <2>3, <3>1, <3>2
           DEF Covered, Once, Interruptions, Messages, None
      <3>3. CASE last # None
        BY <1>1, <1>4, <2>3, <3>1, <3>3 DEF Covered, Once, Interruptions
      <3> QED BY <3>2, <3>3
    <2>8. Set(p, q) /\ poller[p].pc # "off"
      BY <1>1, <1>4, <2>3
    <2>9. faults' = faults
      BY <1>4
    <2> QED BY <1>1, <1>2, <2>2, <2>3, <2>5, <2>6, <2>7, <2>8, <2>9, StepInv
            DEF Types
  <1> QED BY <1>3, <1>4 DEF Poll

LEMMA DeliverInv ==
  ASSUME BridgeInv, NEW p \in Pollers, Deliver(p) PROVE BridgeInv'
  <1>0. PICK b, m, rest : b = poller[p].batch /\ m = Head(b) /\ rest = Tail(b)
    OBVIOUS
  <1>1. poller[p].pc = "deliver" /\ Own
        /\ UNCHANGED <<file, base, lostSaves, sent, crashes>>
    BY DEF Deliver, Own
  <1>2. \/ m \in Foreign /\ UNCHANGED <<copies, reported, faults>>
        \/ /\ m \notin Foreign
           /\ copies' = [copies EXCEPT ![m] = @ + 1]
           /\ UNCHANGED <<reported, faults>>
        \/ /\ m \notin Foreign /\ Fault
           /\ reported' = reported \cup {m}
           /\ UNCHANGED copies
    BY <1>0 DEF Deliver, scrapVars
  <1>3. Types(p)
    BY PollerTypes
  <1>4. b \in Seq(1..sent) /\ b # <<>> /\ BatchOf(poller[p])
    BY <1>0, <1>1, <1>3 DEF BridgeInv, Positions, BatchOf, Types
  <1>5. /\ m = b[1] /\ m \in 1..sent /\ rest \in Seq(1..sent)
        /\ Len(b) \in Nat \ {0} /\ Len(rest) = Len(b) - 1
        /\ \A i \in 1..Len(rest) : rest[i] = b[i + 1]
    <2>1. Len(b) \in Nat \ {0}
      BY <1>4, EmptySeq
    <2>2. m = b[1] /\ m \in 1..sent
      <3>1. Head(b) \in 1..sent
        BY <1>4, HeadTailProperties
      <3>2. Head(b) = b[1]
        BY <1>4
      <3> QED BY <1>0, <3>1, <3>2
    <2>3. rest \in Seq(1..sent) /\ Len(rest) = Len(b) - 1
          /\ \A i \in 1..Len(rest) : rest[i] = b[i + 1]
      BY <1>0, <1>4, HeadTailProperties
    <2> QED BY <2>1, <2>2, <2>3
  <1>6. m \in Messages /\ m \in Nat
    BY <1>3, <1>5 DEF Messages, Types
  <1>7. /\ poller[p].last < m /\ (m - 1 = poller[p].last \/ m - 1 <= base)
        /\ \A i \in 1..Len(b) : b[i] = m + i - 1
    BY <1>0, <1>4, <1>5 DEF BatchOf
  <1>8. PICK q \in PollerType(sent) :
          /\ Set(p, q) /\ q.last = m /\ q.batch = rest
          /\ q.pc = IF rest = <<>> THEN "save" ELSE "deliver"
    <2> DEFINE r == [poller[p] EXCEPT !.last = m, !.batch = rest,
                            !.pc = IF rest = <<>> THEN "save" ELSE "deliver"]
    <2>1. poller[p] \in PollerType(sent) /\ m \in 0..sent
      BY <1>3, <1>5 DEF Types
    <2>2. r \in PollerType(sent) /\ r.last = m /\ r.batch = rest
          /\ r.pc = IF rest = <<>> THEN "save" ELSE "deliver"
      BY <1>5, <2>1 DEF PollerType, Labels
    <2>3. Set(p, r)
      BY <1>0 DEF Deliver
    <2> QED BY <2>2, <2>3
  <1>9. (q.pc = "deliver" => BatchOf(q)') /\ q.pc \in {"deliver", "save"}
    <2>1. ASSUME rest # <<>> PROVE BatchOf(q)'
      <3>1. Len(rest) \in Nat \ {0}
        BY <1>5, <2>1, EmptySeq
      <3>2. \A i \in 1..Len(rest) : rest[i] = m + i
        <4> SUFFICES ASSUME NEW i \in 1..Len(rest) PROVE rest[i] = m + i
          OBVIOUS
        <4>1. rest[i] = b[i + 1] /\ i + 1 \in 1..Len(b)
          BY <1>5, <3>1
        <4> QED BY <1>6, <1>7, <4>1
      <3>3. rest[1] = m + 1
        BY <3>1, <3>2
      <3>4. /\ rest # <<>> /\ m < rest[1] /\ rest[1] - 1 = m
            /\ \A i \in 1..Len(rest) : rest[i] = rest[1] + i - 1
        BY <1>6, <2>1, <3>1, <3>2, <3>3
      <3> QED BY <1>8, <3>4 DEF BatchOf
    <2> QED BY <1>8, <2>1
  <1>10. /\ copies' \in [Messages -> Nat] /\ reported' \subseteq Messages
         /\ faults' \in 0..MaxFaults /\ faults <= faults'
         /\ \A o \in Messages \ {m} : copies'[o] = copies[o]
         /\ copies'[m] <= copies[m] + 1 /\ copies[m] <= copies'[m]
         /\ reported \subseteq reported'
         /\ m \notin Foreign => copies'[m] > 0 \/ m \in reported'
    <2>1. CASE m \in Foreign /\ UNCHANGED <<copies, reported, faults>>
      BY <1>3, <1>6, <2>1 DEF Types
    <2>2. CASE m \notin Foreign /\ copies' = [copies EXCEPT ![m] = @ + 1]
               /\ UNCHANGED <<reported, faults>>
      BY <1>3, <1>6, <2>2 DEF Types
    <2>3. CASE m \notin Foreign /\ Fault /\ reported' = reported \cup {m}
               /\ UNCHANGED copies
      BY <1>3, <1>6, <2>3 DEF Types, Fault
    <2> QED BY <1>2, <2>1, <2>2, <2>3
  <1>11. \A o \in Messages : (copies[o] > 0 => copies'[o] > 0)
    BY <1>3, <1>6, <1>10 DEF Types
  <1>12. /\ Covered(file) /\ Covered(poller[p].last) /\ Once(poller[p].last)
         /\ \A o \in Messages : copies[o] <= 1 + Interruptions
    BY <1>1, PollerFacts
  <1>13. Covered(file)' /\ Covered(q.last)'
    <2>1. Covered(file)'
      BY <1>1, <1>10, <1>11, <1>12 DEF Covered
    <2>2. ASSUME NEW o \in Messages \ Foreign, base < o, o <= m
          PROVE  copies'[o] > 0 \/ o \in reported'
      <3>1. CASE o = m
        BY <2>2, <3>1, <1>10
      <3>2. CASE o # m
        <4>1. o <= poller[p].last
          BY <1>3, <1>6, <1>7, <2>2, <3>2 DEF Messages, Types
        <4> QED BY <1>10, <1>11, <1>12, <2>2, <4>1 DEF Covered
      <3> QED BY <3>1, <3>2
    <2> QED BY <1>1, <1>8, <2>1, <2>2 DEF Covered
  <1>14. Interruptions' = Interruptions /\ Interruptions \in Nat
    BY <1>1, <1>3 DEF Interruptions, Types
  <1>15. copies[m] <= Interruptions
    BY <1>6, <1>7, <1>12 DEF Once
  <1>16. \A o \in Messages : copies'[o] <= 1 + Interruptions'
    <2> SUFFICES ASSUME NEW o \in Messages PROVE copies'[o] <= 1 + Interruptions
      BY <1>14
    <2>1. copies[o] \in Nat /\ copies'[o] \in Nat
      BY <1>3, <1>10 DEF Types
    <2>2. CASE o = m
      BY <1>10, <1>14, <1>15, <2>1, <2>2
    <2>3. CASE o # m
      BY <1>10, <1>12, <2>3
    <2> QED BY <2>2, <2>3
  <1>17. Once(q.last)'
    <2> SUFFICES ASSUME NEW o \in Messages, m < o PROVE copies'[o] <= Interruptions
      BY <1>8, <1>14 DEF Once
    <2>1. o # m /\ poller[p].last < o
      BY <1>3, <1>6, <1>7 DEF Messages, Types
    <2> QED BY <1>10, <1>12, <2>1 DEF Once
  <1>18. q.last # None /\ lostSaves' <= faults'
    BY <1>1, <1>3, <1>5, <1>8, <1>10 DEF None, Types
  <1> QED BY <1>1, <1>3, <1>8, <1>9, <1>10, <1>13, <1>16, <1>17, <1>18, StepInv
          DEF Types

LEMMA SaveInv ==
  ASSUME BridgeInv, NEW p \in Pollers, Save(p) PROVE BridgeInv'
  <1>1. Types(p)
    BY PollerTypes
  <1>2. PICK q \in PollerType(sent) :
          /\ q = [poller[p] EXCEPT !.pc = "waiting"]
          /\ q.last = poller[p].last /\ q.pc = "waiting"
    <2>1. poller[p] \in PollerType(sent)
      BY <1>1 DEF Types
    <2>2. [poller[p] EXCEPT !.pc = "waiting"] \in PollerType(sent)
      BY <2>1 DEF PollerType, Labels
    <2> QED BY <2>1, <2>2 DEF PollerType
  <1>3. poller[p].pc = "save" /\ Own /\ Set(p, q)
        /\ UNCHANGED <<copies, reported, base, sent, crashes>>
    BY <1>2 DEF Save, Own, scrapVars
  <1>4. q.last # None /\ q.last \in 0..sent
    BY <1>1, <1>2, <1>3 DEF BridgeInv, Positions, Types
  <1>5. /\ Covered(file) /\ Covered(q.last) /\ Once(q.last)
        /\ \A m \in Messages : copies[m] <= 1 + Interruptions
    BY <1>2, <1>3, PollerFacts
  <1>6. CASE file' = poller[p].last /\ UNCHANGED <<lostSaves, faults>>
    <2>1. Covered(file)' /\ Once(file)' /\ Covered(q.last)' /\ Once(q.last)'
          /\ \A m \in Messages : copies'[m] <= 1 + Interruptions'
      BY <1>2, <1>3, <1>5, <1>6 DEF Covered, Once, Interruptions
    <2> QED BY <1>1, <1>2, <1>3, <1>4, <1>6, <2>1, StepInv DEF Types
  <1>7. CASE Fault /\ lostSaves' = lostSaves + 1 /\ file' \in {file, None}
    <2>1. file' \in 0..sent /\ faults' \in 0..MaxFaults /\ lostSaves' \in Nat
          /\ lostSaves' <= faults'
      BY <1>1, <1>7 DEF Fault, None, Types
    <2>2. Covered(file)' /\ Covered(q.last)'
      BY <1>3, <1>5, <1>7 DEF Covered, Messages, None
    <2>3. \A m \in Messages : copies'[m] <= Interruptions'
      BY <1>1, <1>3, <1>5, <1>7 DEF Interruptions, Types
    <2>4. \A m \in Messages : copies'[m] <= 1 + Interruptions'
      BY <1>1, <1>3, <1>7, <2>3 DEF Interruptions, Types
    <2>5. Once(file)' /\ Once(q.last)'
      BY <2>3 DEF Once
    <2> QED BY <1>1, <1>2, <1>3, <1>4, <2>1, <2>2, <2>4, <2>5, StepInv DEF Types
  <1> QED BY <1>6, <1>7 DEF Save

LEMMA Inductive == BridgeInv /\ [Next]_vars => BridgeInv'
  <1> SUFFICES ASSUME BridgeInv, [Next]_vars PROVE BridgeInv'
    OBVIOUS
  <1>1. CASE UNCHANGED vars
    BY <1>1 DEF BridgeInv, TypeOK, OnePoller, Positions, BatchOf, AllCovered,
                Covered, CountedCopies, Once, Interruptions, vars, appVars, scrapVars
  <1>2. ASSUME NEW p \in Pollers, Step(p) PROVE BridgeInv'
    BY <1>2, CancelledInv, ConnectInv, BaselineInv, PollInv, DeliverInv, SaveInv
       DEF Step
  <1> QED BY <1>1, <1>2, SentInv, ReconfigureInv, ReplaceInv, LaunchInv, CrashInv
          DEF Next

\* The invariant holds over every run of settings saves, polls, deliveries,
\* failed saves and crashes (poller.go, app_discordbridge.go).
THEOREM BridgeInvariant == Spec => []BridgeInv
  BY Initial, Inductive, PTL DEF Spec

\* Every variable keeps its type, for answers and batches of any size.
THEOREM TypesAlways == Spec => []TypeOK
  BY BridgeInvariant, PTL DEF BridgeInv

\* Over all settings, failures, crashes and answers of any size: a message up to
\* the saved id was appended or reported, so that a restart skips none.
THEOREM CursorAlways == Spec => []CursorBehindScrap
  <1>1. BridgeInv => CursorBehindScrap
    BY DEF BridgeInv, AllCovered, Covered, CursorBehindScrap
  <1> QED BY <1>1, BridgeInvariant, PTL

\* Every further copy of a message has a crash or a failed save of its own.
THEOREM OnceAlways == Spec => []OncePerInterruption
  <1>1. BridgeInv => OncePerInterruption
    BY DEF BridgeInv, TypeOK, CountedCopies, Interruptions, OncePerInterruption
  <1> QED BY <1>1, BridgeInvariant, PTL
=============================================================================
