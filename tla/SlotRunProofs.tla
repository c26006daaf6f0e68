---------------------------- MODULE SlotRunProofs ----------------------------
(***************************************************************************)
(* Machine-checked facts about the runs of a note, for every note, every   *)
(* number of runs and whatever the user does meanwhile: who answers and    *)
(* who does not, the cards, and what becomes of the text around.           *)
(***************************************************************************)
EXTENDS SlotRun, TLAPS, WellFoundedInduction, FiniteSetTheorems

(***************************************************************************)
(* The inductive invariant                                                 *)
(***************************************************************************)
Cell == [k : {"slot", "line"}, t : Targets]
        \cup [k : {"mark", "marker", "answer"}, t : Targets, r : Runs]
        \cup [k : {"text"}, n : Nat, says : Nat] \cup [k : {"typed"}, n : Nat]
Look == Cell \cup {[k |-> "mark"]} \cup [k : {"text"}, says : Nat]
Text == Seq(Cell)

Meta == [t : Targets, at : Nat, above : Seq(Look), below : Seq(Look)]
Pressed == [step : {"parse", "confirm"}, t : Targets, at : Nat, text : Text, gate : Text]

TypeOK ==
    /\ note \in Text /\ past \in Seq(Text)
    /\ where \in {"shown", "behind", "closed"}
    /\ press \in Pressed \cup {NoPress}
    /\ used \in 0..MaxRuns
    /\ meta \in Seq(Meta) /\ Len(meta) = used
    /\ pending \subseteq 1..used /\ canceled \subseteq 1..used
    /\ task \in [Runs -> {"none", "running", "completed", "canceled", "failed"}]
    /\ queue \in Seq(1..used) /\ merged \in Seq(1..used)
    /\ go \in [Runs -> {"none", "queued", "running", "ended"}]
    /\ mail \subseteq (1..used) \X {"answer", "problem", "canceled"}
    /\ acts \in 0..MaxActs

\* A run's result is on its way, or waits in the queue.
Posted(r) == \E m \in mail : m[1] = r
Queued(r) == \E i \in DOMAIN queue : queue[i] = r

\* A result comes once.
Results ==
    /\ \A r \in Runs : r > used => go[r] = "none"
    /\ \A m \in mail : go[m[1]] = "ended"
    /\ \A m, n \in mail : m[1] = n[1] => m = n
    /\ \A r \in 1..used : Queued(r) => go[r] = "ended" /\ ~Posted(r) /\ KindOf(r) = "slot"
    /\ \A i, j \in DOMAIN queue : queue[i] = queue[j] => i = j

\* What the page knows of a run.
Held(r) ==
    /\ r \in pending <=> task[r] = "running" \/ (Queued(r) /\ r \notin canceled)
    /\ r \in canceled => KindOf(r) = "slot" /\ task[r] # "running"
    /\ Queued(r) => task[r] # "running"
    /\ KindOf(r) = "slot" =>
          /\ task[r] = "canceled" => r \in canceled
          /\ Posted(r) \/ go[r] # "ended" => task[r] = "running" \/ r \in canceled

Records == \A r \in 1..used : Held(r)

\* The runs that are over: nothing can write an answer of theirs any more.
Done == {r \in 1..used :
            /\ r \notin pending
            /\ task[r] \notin {"running", "canceled"}
            /\ KindOf(r) = "slot" => go[r] = "ended" /\ ~Posted(r) /\ ~Queued(r)}

\* In a text only the runs of D have an answer, and one.
Sound(s, D) ==
    /\ \A i \in DOMAIN s : s[i].k = "answer" => s[i].r \in D
    /\ \A i, j \in DOMAIN s :
          s[i].k = "answer" /\ s[j].k = "answer" /\ s[i].r = s[j].r => i = j

Answers == Sound(note, Done) /\ \A i \in DOMAIN past : Sound(past[i], Done)

\* The start under way knows where its request stood when it was parsed.
Pressing ==
    press # NoPress => /\ used < MaxRuns
                       /\ press.at \in DOMAIN press.text
                       /\ press.text[press.at] = Source(press.t)

IInv == TypeOK /\ Results /\ Records /\ Answers /\ Pressing

(***************************************************************************)
(* Numbers and sequences                                                   *)
(***************************************************************************)

\* A set of numbers has a least one: the induction of the proofs below.
LEMMA Least ==
  ASSUME NEW T, T \subseteq Nat, T # {}
  PROVE  \E n \in T : \A m \in T : n <= m
  <1> DEFINE R == OpToRel(<, Nat)
  <1>1. IsWellFoundedOn(R, Nat)
    BY NatLessThanWellFounded
  <1>2. PICK n \in T : \A m \in T : ~(<<m, n>> \in R)
    <2> HIDE DEF R
    <2> QED BY <1>1, WFMin
  <1>3. \A m \in T : ~(m < n)
    BY <1>2 DEF OpToRel
  <1> QED BY <1>3

LEMMA Elements ==
  ASSUME NEW S, NEW s \in Seq(S)
  PROVE  Len(s) \in Nat /\ DOMAIN s = 1..Len(s) /\ \A j \in DOMAIN s : s[j] \in S
  OBVIOUS

LEMMA Replacing ==
  ASSUME NEW S, NEW s \in Seq(S), NEW i \in Int, NEW c \in S
  PROVE  /\ ReplaceAt(s, i, c) \in Seq(S)
         /\ Len(ReplaceAt(s, i, c)) = Len(s)
         /\ DOMAIN ReplaceAt(s, i, c) = DOMAIN s
         /\ \A j \in DOMAIN s : ReplaceAt(s, i, c)[j] = IF j = i THEN c ELSE s[j]
  <1> DEFINE u == [s EXCEPT ![i] = c]
  <1>1. s \in [1..Len(s) -> S] /\ Len(s) \in Nat /\ DOMAIN s = 1..Len(s)
    OBVIOUS
  <1>2. /\ u \in [1..Len(s) -> S]
        /\ \A j \in 1..Len(s) : u[j] = IF j = i THEN c ELSE s[j]
    BY <1>1
  <1> HIDE DEF u
  <1>3. u \in Seq(S) /\ Len(u) = Len(s)
    BY <1>1, <1>2
  <1> QED
    BY <1>1, <1>2, <1>3 DEF u, ReplaceAt

LEMMA Part ==
  ASSUME NEW S, NEW s \in Seq(S), NEW i \in Nat \ {0}, NEW k \in 0..Len(s)
  PROVE  /\ SubSeq(s, i, k) \in Seq(S)
         /\ Len(SubSeq(s, i, k)) = IF i <= k THEN k - i + 1 ELSE 0
         /\ \A j \in 1..Len(SubSeq(s, i, k)) : SubSeq(s, i, k)[j] = s[i + j - 1]
  OBVIOUS

LEMMA Concatenating ==
  ASSUME NEW S, NEW s \in Seq(S), NEW u \in Seq(S)
  PROVE  /\ s \o u \in Seq(S)
         /\ Len(s \o u) = Len(s) + Len(u)
         /\ \A j \in 1..Len(s) : (s \o u)[j] = s[j]
         /\ \A j \in 1..Len(u) : (s \o u)[Len(s) + j] = u[j]
  OBVIOUS

\* c in place of the cells from i to k - 1: what a start and the typing do.
Splice(s, i, k, c) == SubSeq(s, 1, i - 1) \o <<c>> \o SubSeq(s, k, Len(s))

LEMMA Splicing ==
  ASSUME NEW S, NEW s \in Seq(S), NEW c \in S,
         NEW i \in 1..(Len(s) + 1), NEW k \in i..(Len(s) + 2)
  PROVE  /\ Splice(s, i, k, c) \in Seq(S)
         /\ Len(Splice(s, i, k, c)) = i + (IF k <= Len(s) THEN Len(s) - k + 1 ELSE 0)
         /\ \A j \in 1..Len(Splice(s, i, k, c)) :
               Splice(s, i, k, c)[j] = IF j < i THEN s[j]
                                       ELSE IF j = i THEN c ELSE s[j - i + k - 1]
  <1> DEFINE a == SubSeq(s, 1, i - 1)
             b == SubSeq(s, k, Len(s))
             d == a \o <<c>>
             u == d \o b
  <1>0. Len(s) \in Nat
    OBVIOUS
  <1>1. a \in Seq(S) /\ Len(a) = i - 1 /\ \A j \in 1..(i - 1) : a[j] = s[j]
    BY <1>0, Part
  <1>2. /\ b \in Seq(S)
        /\ Len(b) = IF k <= Len(s) THEN Len(s) - k + 1 ELSE 0
        /\ \A j \in 1..Len(b) : b[j] = s[j + k - 1]
    BY <1>0, Part
  <1> HIDE DEF a, b
  <1>3. <<c>> \in Seq(S) /\ Len(<<c>>) = 1 /\ <<c>>[1] = c
    OBVIOUS
  <1>4. /\ d \in Seq(S) /\ Len(d) = i
        /\ \A j \in 1..i : d[j] = IF j < i THEN s[j] ELSE c
    <2>0. a \in Seq(S) /\ <<c>> \in Seq(S)
      BY <1>1, <1>3
    <2>1. /\ d \in Seq(S) /\ Len(d) = Len(a) + Len(<<c>>)
          /\ \A j \in 1..Len(a) : d[j] = a[j]
          /\ \A j \in 1..Len(<<c>>) : d[Len(a) + j] = <<c>>[j]
      BY <2>0, Concatenating
    <2> HIDE DEF d
    <2>2. d[Len(a) + 1] = c
      BY <1>3, <2>1
    <2> QED
      BY <1>1, <1>3, <2>1, <2>2
  <1> HIDE DEF d
  <1>5. /\ u \in Seq(S) /\ Len(u) = i + Len(b)
        /\ \A j \in 1..i : u[j] = d[j]
        /\ \A j \in 1..Len(b) : u[i + j] = b[j]
    <2>0. d \in Seq(S) /\ b \in Seq(S)
      BY <1>2, <1>4
    <2>1. /\ u \in Seq(S) /\ Len(u) = Len(d) + Len(b)
          /\ \A j \in 1..Len(d) : u[j] = d[j]
          /\ \A j \in 1..Len(b) : u[Len(d) + j] = b[j]
      BY <2>0, Concatenating
    <2> HIDE DEF u
    <2> QED
      BY <1>4, <2>1
  <1> HIDE DEF u
  <1>6. Len(b) \in Nat
    BY <1>2
  <1>7. ASSUME NEW j \in 1..Len(u)
        PROVE  u[j] = IF j < i THEN s[j] ELSE IF j = i THEN c ELSE s[j - i + k - 1]
    <2>1. CASE j <= i
      BY <1>4, <1>5, <2>1
    <2>2. CASE j > i
      <3>1. j - i \in 1..Len(b)
        BY <1>5, <1>6, <2>2
      <3>2. u[i + (j - i)] = b[j - i] /\ b[j - i] = s[(j - i) + k - 1]
        BY <1>2, <1>5, <3>1
      <3> QED
        BY <2>2, <3>2
    <2> QED
      BY <2>1, <2>2
  <1> QED
    BY <1>2, <1>5, <1>7 DEF u, d, a, b, Splice

LEMMA Removing ==
  ASSUME NEW S, NEW s \in Seq(S), NEW i \in 1..Len(s)
  PROVE  /\ RemoveAt(s, i) \in Seq(S)
         /\ Len(RemoveAt(s, i)) = Len(s) - 1
         /\ \A j \in 1..(Len(s) - 1) : RemoveAt(s, i)[j] = IF j < i THEN s[j] ELSE s[j + 1]
  <1> DEFINE a == SubSeq(s, 1, i - 1)
             b == SubSeq(s, i + 1, Len(s))
             u == a \o b
  <1>0. Len(s) \in Nat
    OBVIOUS
  <1>1. a \in Seq(S) /\ Len(a) = i - 1 /\ \A j \in 1..(i - 1) : a[j] = s[j]
    BY <1>0, Part
  <1>2. /\ b \in Seq(S) /\ Len(b) = Len(s) - i
        /\ \A j \in 1..Len(b) : b[j] = s[j + i]
    BY <1>0, Part
  <1> HIDE DEF a, b
  <1>3. /\ u \in Seq(S) /\ Len(u) = Len(s) - 1
        /\ \A j \in 1..(i - 1) : u[j] = a[j]
        /\ \A j \in 1..Len(b) : u[(i - 1) + j] = b[j]
    <2>0. a \in Seq(S) /\ b \in Seq(S)
      BY <1>1, <1>2
    <2>1. /\ u \in Seq(S) /\ Len(u) = Len(a) + Len(b)
          /\ \A j \in 1..Len(a) : u[j] = a[j]
          /\ \A j \in 1..Len(b) : u[Len(a) + j] = b[j]
      BY <2>0, Concatenating
    <2> HIDE DEF u
    <2> QED
      BY <1>1, <1>2, <2>1
  <1> HIDE DEF u
  <1>4. ASSUME NEW j \in 1..(Len(s) - 1)
        PROVE  u[j] = IF j < i THEN s[j] ELSE s[j + 1]
    <2>1. CASE j < i
      BY <1>1, <1>3, <2>1
    <2>2. CASE j >= i
      <3>1. j - (i - 1) \in 1..Len(b)
        BY <1>2, <2>2
      <3>2. /\ u[(i - 1) + (j - (i - 1))] = b[j - (i - 1)]
            /\ b[j - (i - 1)] = s[(j - (i - 1)) + i]
        BY <1>2, <1>3, <3>1
      <3> QED
        BY <2>2, <3>2
    <2> QED
      BY <2>1, <2>2
  <1>5. u = RemoveAt(s, i)
    BY DEF u, a, b, RemoveAt
  <1> QED
    BY <1>3, <1>4, <1>5

(***************************************************************************)
(* Texts: u is made of cells of s, each at most once, and of c.            *)
(***************************************************************************)
Made(u, s, c) ==
    \E f \in [DOMAIN u -> 0..Len(s)] :
        /\ \A i, j \in DOMAIN u : f[i] = f[j] => i = j
        /\ \A i \in DOMAIN u : u[i] = IF f[i] = 0 THEN c ELSE s[f[i]]

LEMMA MadeSound ==
  ASSUME NEW s \in Text, NEW u \in Text, NEW c \in Cell, NEW D, NEW E,
         Made(u, s, c), Sound(s, D), D \subseteq E,
         c.k = "answer" => c.r \in E /\ c.r \notin D
  PROVE  Sound(u, E)
  <1>1. PICK f \in [DOMAIN u -> 0..Len(s)] :
          /\ \A i, j \in DOMAIN u : f[i] = f[j] => i = j
          /\ \A i \in DOMAIN u : u[i] = IF f[i] = 0 THEN c ELSE s[f[i]]
    BY DEF Made
  <1>2. \A i \in DOMAIN u : f[i] # 0 => f[i] \in DOMAIN s
    BY DEF Text
  <1>3. ASSUME NEW i \in DOMAIN u, u[i].k = "answer"
        PROVE  u[i].r \in E
    BY <1>1, <1>2, <1>3 DEF Sound
  <1>4. ASSUME NEW i \in DOMAIN u, NEW j \in DOMAIN u,
               u[i].k = "answer", u[j].k = "answer", u[i].r = u[j].r
        PROVE  i = j
    <2>1. CASE f[i] = 0 /\ f[j] = 0
      BY <1>1, <2>1
    <2>2. CASE f[i] # 0 /\ f[j] # 0
      BY <1>1, <1>2, <1>4, <2>2 DEF Sound
    <2>3. CASE f[i] = 0 /\ f[j] # 0
      BY <1>1, <1>2, <1>4, <2>3 DEF Sound
    <2>4. CASE f[i] # 0 /\ f[j] = 0
      BY <1>1, <1>2, <1>4, <2>4 DEF Sound
    <2> QED
      BY <2>1, <2>2, <2>3, <2>4
  <1> QED
    BY <1>3, <1>4 DEF Sound

LEMMA SoundMore ==
  ASSUME NEW s, NEW D, NEW E, Sound(s, D), D \subseteq E
  PROVE  Sound(s, E)
  BY DEF Sound

LEMMA MadeByNothing ==
  ASSUME NEW s \in Text, NEW c
  PROVE  Made(s, s, c)
  <1> DEFINE f == [j \in DOMAIN s |-> j]
  <1>1. f \in [DOMAIN s -> 0..Len(s)]
    BY DEF Text
  <1>2. \A j \in DOMAIN s : f[j] # 0
    BY DEF Text
  <1> QED
    BY <1>1, <1>2 DEF Made

LEMMA MadeByReplacing ==
  ASSUME NEW s \in Text, NEW i \in Int, NEW c \in Cell
  PROVE  ReplaceAt(s, i, c) \in Text /\ Made(ReplaceAt(s, i, c), s, c)
  <1> DEFINE u == ReplaceAt(s, i, c)
             f == [j \in DOMAIN s |-> IF j = i THEN 0 ELSE j]
  <1>1. /\ u \in Text /\ DOMAIN u = DOMAIN s
        /\ \A j \in DOMAIN s : u[j] = IF j = i THEN c ELSE s[j]
    BY Replacing DEF Text
  <1>2. f \in [DOMAIN s -> 0..Len(s)]
    BY DEF Text
  <1>3. /\ \A j, k \in DOMAIN s : f[j] = f[k] => j = k
        /\ \A j \in DOMAIN s : u[j] = IF f[j] = 0 THEN c ELSE s[f[j]]
    <2>1. 0 \notin DOMAIN s
      BY DEF Text
    <2> HIDE DEF u
    <2> QED
      BY <1>1, <2>1
  <1> HIDE DEF u, f
  <1>4. Made(u, s, c)
    BY <1>1, <1>2, <1>3 DEF Made
  <1> QED
    BY <1>1, <1>4 DEF u

LEMMA MadeByRemoving ==
  ASSUME NEW s \in Text, NEW i \in DOMAIN s, NEW c
  PROVE  RemoveAt(s, i) \in Text /\ Made(RemoveAt(s, i), s, c)
  <1> DEFINE u == RemoveAt(s, i)
             f == [j \in DOMAIN u |-> IF j < i THEN j ELSE j + 1]
  <1>0. Len(s) \in Nat /\ DOMAIN s = 1..Len(s) /\ i \in 1..Len(s)
    BY DEF Text
  <1>1. /\ u \in Text /\ DOMAIN u = 1..(Len(s) - 1)
        /\ \A j \in 1..(Len(s) - 1) : u[j] = IF j < i THEN s[j] ELSE s[j + 1]
    <2>1. /\ u \in Seq(Cell) /\ Len(u) = Len(s) - 1
          /\ \A j \in 1..(Len(s) - 1) : u[j] = IF j < i THEN s[j] ELSE s[j + 1]
      BY <1>0, Removing DEF Text
    <2> HIDE DEF u
    <2> QED
      BY <2>1 DEF Text
  <1> HIDE DEF u
  <1>2. f \in [DOMAIN u -> 0..Len(s)]
    BY <1>0, <1>1
  <1>3. /\ \A j, k \in DOMAIN u : f[j] = f[k] => j = k
        /\ \A j \in DOMAIN u : f[j] # 0 /\ u[j] = s[f[j]]
    BY <1>0, <1>1
  <1> HIDE DEF f
  <1>4. Made(u, s, c)
    BY <1>2, <1>3 DEF Made
  <1> QED
    BY <1>1, <1>4 DEF u

LEMMA MadeBySplicing ==
  ASSUME NEW s \in Text, NEW c \in Cell,
         NEW i \in 1..(Len(s) + 1), NEW k \in i..(Len(s) + 2)
  PROVE  Splice(s, i, k, c) \in Text /\ Made(Splice(s, i, k, c), s, c)
  <1> DEFINE u == Splice(s, i, k, c)
             f == [j \in DOMAIN u |-> IF j < i THEN j ELSE IF j = i THEN 0 ELSE j - i + k - 1]
  <1>0. Len(s) \in Nat /\ DOMAIN s = 1..Len(s)
    BY DEF Text
  <1>1. /\ u \in Seq(Cell)
        /\ Len(u) = i + (IF k <= Len(s) THEN Len(s) - k + 1 ELSE 0)
        /\ \A j \in 1..Len(u) : u[j] = IF j < i THEN s[j]
                                       ELSE IF j = i THEN c ELSE s[j - i + k - 1]
    <2>1. s \in Seq(Cell)
      BY DEF Text
    <2>2. /\ Splice(s, i, k, c) \in Seq(Cell)
          /\ Len(Splice(s, i, k, c)) = i + (IF k <= Len(s) THEN Len(s) - k + 1 ELSE 0)
          /\ \A j \in 1..Len(Splice(s, i, k, c)) :
                Splice(s, i, k, c)[j] = IF j < i THEN s[j]
                                        ELSE IF j = i THEN c ELSE s[j - i + k - 1]
      <3> HIDE DEF u, f
      <3> QED
        BY <2>1, Splicing
    <2> HIDE DEF f
    <2> QED
      BY <2>2
  <1> HIDE DEF u
  <1>2. DOMAIN u = 1..Len(u) /\ Len(u) \in Nat
    BY <1>1
  <1>3. f \in [DOMAIN u -> 0..Len(s)]
    BY <1>0, <1>1, <1>2
  <1>4. \A j, l \in DOMAIN u : f[j] = f[l] => j = l
    <2>1. \A j \in DOMAIN u : /\ (j < i => f[j] = j)
                            /\ (j = i => f[j] = 0)
                            /\ (j > i => f[j] = j - i + k - 1)
      BY <1>2
    <2>2. \A j \in DOMAIN u : j \in Nat /\ j >= 1
      BY <1>2
    <2> HIDE DEF f
    <2> SUFFICES ASSUME NEW j \in DOMAIN u, NEW l \in DOMAIN u, f[j] = f[l] PROVE j = l
      OBVIOUS
    <2>3. i \in Nat /\ k \in Nat /\ k >= i /\ i >= 1
      BY <1>0
    <2>4. CASE j < i
      <3>1. f[j] = j /\ ~(l = i) /\ ~(l > i)
        BY <2>1, <2>2, <2>3, <2>4
      <3>2. l < i
        BY <2>2, <2>3, <3>1
      <3>3. f[l] = l
        BY <2>1, <3>2
      <3> QED BY <3>1, <3>3
    <2>5. CASE j = i
      <3>1. f[j] = 0 /\ ~(l < i) /\ ~(l > i)
        BY <2>1, <2>2, <2>3, <2>5
      <3> QED BY <2>2, <2>3, <2>5, <3>1
    <2>6. CASE j > i
      <3>1. f[j] = j - i + k - 1 /\ ~(l < i) /\ ~(l = i)
        BY <2>1, <2>2, <2>3, <2>6
      <3>2. l > i
        BY <2>2, <2>3, <3>1
      <3>3. f[l] = l - i + k - 1
        BY <2>1, <3>2
      <3>4. j \in Nat /\ l \in Nat
        BY <2>2
      <3>5. j - i + k - 1 = l - i + k - 1
        BY <3>1, <3>3
      <3> HIDE DEF u
      <3> QED BY <2>3, <3>4, <3>5
    <2> QED BY <2>2, <2>3, <2>4, <2>5, <2>6
  <1>5. ASSUME NEW j \in DOMAIN u
        PROVE  u[j] = IF f[j] = 0 THEN c ELSE s[f[j]]
    <2>1. CASE j < i
      BY <1>0, <1>1, <1>2, <2>1
    <2>2. CASE j = i
      BY <1>0, <1>1, <1>2, <2>2
    <2>3. CASE j > i
      BY <1>0, <1>1, <1>2, <2>3
    <2> QED
      BY <1>2, <2>1, <2>2, <2>3
  <1> HIDE DEF f
  <1>6. Made(u, s, c)
    BY <1>3, <1>4, <1>5 DEF Made
  <1> QED
    BY <1>1, <1>6 DEF u, Text

LEMMA MadeByAppending ==
  ASSUME NEW s \in Text, NEW c \in Cell
  PROVE  Append(s, c) \in Text /\ Made(Append(s, c), s, c)
  <1> DEFINE u == Append(s, c)
             f == [j \in DOMAIN u |-> IF j = Len(s) + 1 THEN 0 ELSE j]
  <1>0. Len(s) \in Nat /\ DOMAIN s = 1..Len(s)
    BY DEF Text
  <1>1. /\ u \in Text /\ DOMAIN u = 1..(Len(s) + 1) /\ u[Len(s) + 1] = c
        /\ \A j \in 1..Len(s) : u[j] = s[j]
    BY DEF Text
  <1> HIDE DEF u
  <1>2. f \in [DOMAIN u -> 0..Len(s)]
    BY <1>0, <1>1
  <1>3. /\ \A j, l \in DOMAIN u : f[j] = f[l] => j = l
        /\ \A j \in DOMAIN u : u[j] = IF f[j] = 0 THEN c ELSE s[f[j]]
    BY <1>0, <1>1
  <1> HIDE DEF f
  <1>4. Made(u, s, c)
    BY <1>2, <1>3 DEF Made
  <1> QED
    BY <1>1, <1>4 DEF u

(***************************************************************************)
(* The cells of the model and the search for a mark                        *)
(***************************************************************************)
LEMMA Constants ==
  /\ Around \in Nat /\ MaxRuns \in Nat /\ MaxActs \in Nat
  /\ Kind \in [Targets -> Kinds] /\ FirstNote \in Seq(Unrun)
  BY SlotRunAssumption DEF SlotRunAssumption

LEMMA Cells ==
  ASSUME NEW t \in Targets
  PROVE  /\ Slot(t) \in Cell /\ Line(t) \in Cell /\ Source(t) \in Cell
         /\ \A r \in Runs : Mark(t, r) \in Cell /\ Marker(t, r) \in Cell /\ Answer(t, r) \in Cell
         /\ \A n \in Nat : Typed(n) \in Cell
  <1>1. Slot(t) \in Cell /\ Line(t) \in Cell
    BY DEF Slot, Line, Cell
  <1>2. \A r \in Runs : Mark(t, r) \in Cell /\ Marker(t, r) \in Cell /\ Answer(t, r) \in Cell
    BY DEF Mark, Marker, Answer, Cell
  <1>3. \A n \in Nat : Typed(n) \in Cell
    BY DEF Typed, Cell
  <1> QED
    BY <1>1, <1>2, <1>3 DEF Source

LEMMA TextDomain ==
  ASSUME NEW s \in Text
  PROVE  Len(s) \in Nat /\ DOMAIN s = 1..Len(s) /\ \A i \in DOMAIN s : s[i] \in Cell
  BY DEF Text

LEMMA RunMeta ==
  ASSUME TypeOK, NEW r \in 1..used
  PROVE  /\ r \in Runs /\ meta[r] \in Meta /\ meta[r].t \in Targets /\ meta[r].at \in Nat
         /\ KindOf(r) \in Kinds
         /\ Holder(r) \in Cell /\ Answer(meta[r].t, r) \in Cell /\ Slot(meta[r].t) \in Cell
  <1>1. r \in Runs
    BY Constants DEF TypeOK, Runs
  <1>2. meta[r] \in Meta
    BY DEF TypeOK
  <1>3. meta[r].t \in Targets /\ meta[r].at \in Nat
    BY <1>2 DEF Meta
  <1>4. KindOf(r) \in Kinds
    BY <1>3, Constants DEF KindOf
  <1> QED
    BY <1>1, <1>2, <1>3, <1>4, Cells DEF Holder

LEMMA Glancing ==
  ASSUME NEW c \in Cell
  PROVE  Seen(c) \in Look
  <1>1. CASE c.k = "mark"
    BY <1>1 DEF Seen, Look
  <1>2. CASE c.k = "text"
    <2>1. c.says \in Nat
      BY <1>2 DEF Cell
    <2> QED
      BY <1>2, <2>1 DEF Seen, Look
  <1>3. CASE c.k # "mark" /\ c.k # "text"
    BY <1>3 DEF Seen, Look
  <1> QED
    BY <1>1, <1>2, <1>3

LEMMA Looking ==
  ASSUME NEW s \in Text
  PROVE  /\ Looks(s) \in Seq(Look) /\ Len(Looks(s)) = Len(s)
         /\ Reverse(s) \in Text /\ Len(Reverse(s)) = Len(s)
  <1>1. Len(s) \in Nat /\ DOMAIN s = 1..Len(s) /\ \A i \in DOMAIN s : s[i] \in Cell
    BY TextDomain
  <1>2. \A i \in 1..Len(s) : Seen(s[i]) \in Look
    BY <1>1, Glancing
  <1>3. Looks(s) = [i \in 1..Len(s) |-> Seen(s[i])]
    BY <1>1 DEF Looks
  <1>4. Looks(s) \in Seq(Look) /\ Len(Looks(s)) = Len(s)
    BY <1>1, <1>2, <1>3
  <1>5. \A i \in 1..Len(s) : s[(Len(s) - i) + 1] \in Cell
    BY <1>1
  <1>6. Reverse(s) \in Seq(Cell) /\ Len(Reverse(s)) = Len(s)
    BY <1>1, <1>5 DEF Reverse
  <1> QED
    BY <1>4, <1>6 DEF Text

LEMMA Surroundings ==
  ASSUME NEW s \in Text, NEW i \in 1..(Len(s) + 1)
  PROVE  /\ Above(s, i) \in Seq(Look) /\ Len(Above(s, i)) <= Len(s)
         /\ Below(s, i) \in Seq(Look) /\ Len(Below(s, i)) <= Len(s)
  <1>0. Len(s) \in Nat /\ s \in Seq(Cell) /\ Around \in Nat
    BY Constants DEF Text
  <1>1. ASSUME NEW a \in Nat \ {0}, NEW b \in 0..Len(s)
        PROVE  SubSeq(s, a, b) \in Text /\ Len(SubSeq(s, a, b)) <= Len(s)
    <2>1. /\ SubSeq(s, a, b) \in Seq(Cell)
          /\ Len(SubSeq(s, a, b)) = IF a <= b THEN b - a + 1 ELSE 0
      BY <1>0, Part
    <2> QED
      BY <1>0, <2>1 DEF Text
  <1>2. SubSeq(s, IF i > Around THEN i - Around ELSE 1, i - 1) \in Text
        /\ Len(SubSeq(s, IF i > Around THEN i - Around ELSE 1, i - 1)) <= Len(s)
    <2> DEFINE a == IF i > Around THEN i - Around ELSE 1
    <2>1. a \in Nat \ {0} /\ i - 1 \in 0..Len(s)
      BY <1>0
    <2> HIDE DEF a
    <2>2. SubSeq(s, a, i - 1) \in Text /\ Len(SubSeq(s, a, i - 1)) <= Len(s)
      BY <1>1, <2>1
    <2> QED
      BY <2>2 DEF a
  <1>3. SubSeq(s, i + 1, IF i + Around < Len(s) THEN i + Around ELSE Len(s)) \in Text
        /\ Len(SubSeq(s, i + 1, IF i + Around < Len(s) THEN i + Around ELSE Len(s))) <= Len(s)
    <2> DEFINE b == IF i + Around < Len(s) THEN i + Around ELSE Len(s)
    <2>1. b \in 0..Len(s) /\ i + 1 \in Nat \ {0}
      BY <1>0
    <2> HIDE DEF b
    <2>2. SubSeq(s, i + 1, b) \in Text /\ Len(SubSeq(s, i + 1, b)) <= Len(s)
      BY <1>1, <2>1
    <2> QED
      BY <2>2 DEF b
  <1>4. ASSUME NEW u \in Text
        PROVE  /\ Looks(u) \in Seq(Look) /\ Len(Looks(u)) = Len(u)
               /\ Looks(Reverse(u)) \in Seq(Look) /\ Len(Looks(Reverse(u))) = Len(u)
    BY Looking
  <1>5. Above(s, i) \in Seq(Look) /\ Len(Above(s, i)) <= Len(s)
    BY <1>2, <1>4 DEF Above
  <1>6. Below(s, i) \in Seq(Look) /\ Len(Below(s, i)) <= Len(s)
    BY <1>3, <1>4 DEF Below
  <1> QED
    BY <1>5, <1>6

LEMMA Agreement ==
  ASSUME NEW a \in Seq(Look), NEW b
  PROVE  InCommon(a, b) \in 0..Len(a)
  <1> DEFINE C == {n \in DOMAIN a \cap DOMAIN b : \A k \in 1..n : a[k] = b[k]}
  <1>1. Len(a) \in Nat /\ C \subseteq 1..Len(a)
    OBVIOUS
  <1>2. IsFiniteSet(1..Len(a)) /\ Cardinality(1..Len(a)) = Len(a)
    <2>1. /\ IsFiniteSet(1..Len(a))
          /\ Cardinality(1..Len(a)) = IF 1 > Len(a) THEN 0 ELSE Len(a) - 1 + 1
      BY <1>1, FS_Interval
    <2> QED
      BY <1>1, <2>1
  <1> HIDE DEF C
  <1>3. IsFiniteSet(C) /\ Cardinality(C) <= Len(a)
    BY <1>1, <1>2, FS_Subset
  <1>4. Cardinality(C) \in Nat
    BY <1>3, FS_CardinalityType
  <1>5. InCommon(a, b) = Cardinality(C)
    BY DEF InCommon, C
  <1> QED
    BY <1>1, <1>3, <1>4, <1>5

\* Among marks that read the same there is always a best one: findRunMark finds a
\* mark when there is one, whatever the run remembers.
LEMMA MarkFound ==
  ASSUME TypeOK, NEW s \in Text, NEW r \in 1..used, findRunMark(s, r) # 0
  PROVE  findRunMark(s, r) \in DOMAIN s /\ s[findRunMark(s, r)].k = "mark"
  <1> DEFINE M == {i \in DOMAIN s : s[i].k = "mark"}
             sc(i) == Score(s, r, i)
             aw(i) == Away(r, i)
             B == 2 * Len(s)
  <1>0. Len(s) \in Nat /\ DOMAIN s = 1..Len(s)
    BY TextDomain
  <1>1. M # {} /\ M \subseteq Nat \ {0} /\ M \subseteq DOMAIN s
    BY <1>0 DEF findRunMark
  <1>2. \A i \in M : sc(i) \in 0..B
    <2> SUFFICES ASSUME NEW i \in M PROVE sc(i) \in 0..B
      OBVIOUS
    <2>1. i \in 1..(Len(s) + 1)
      BY <1>0
    <2>2. InCommon(Above(s, i), meta[r].above) \in 0..Len(Above(s, i))
          /\ InCommon(Below(s, i), meta[r].below) \in 0..Len(Below(s, i))
      BY <2>1, Surroundings, Agreement
    <2>3. Len(Above(s, i)) \in 0..Len(s) /\ Len(Below(s, i)) \in 0..Len(s)
      BY <2>1, Surroundings
    <2> QED
      BY <1>0, <2>2, <2>3 DEF Score
  <1>3. \A i \in M : aw(i) \in Nat
    BY <1>1, RunMeta DEF Away
  <1> HIDE DEF M, sc, aw
  <1>4. PICK p \in M : \A j \in M : sc(j) <= sc(p)
    <2> DEFINE T == {B - sc(i) : i \in M}
    <2>0. \A i \in M : B - sc(i) \in Nat
      BY <1>0, <1>2
    <2>1. T \subseteq Nat /\ T # {}
      BY <1>1, <2>0
    <2> HIDE DEF T
    <2>2. PICK n \in T : \A m \in T : n <= m
      BY <2>1, Least
    <2>3. PICK p \in M : n = B - sc(p)
      BY DEF T
    <2>4. \A j \in M : B - sc(p) <= B - sc(j)
      BY <2>2, <2>3 DEF T
    <2> QED
      BY <1>0, <1>2, <2>4
  <1> DEFINE N == {i \in M : sc(i) = sc(p)}
  <1>5. PICK q \in N : \A j \in N : aw(q) <= aw(j)
    <2> DEFINE T == {aw(i) : i \in N}
    <2>1. T \subseteq Nat /\ T # {}
      BY <1>3
    <2> HIDE DEF T
    <2>2. PICK n \in T : \A m \in T : n <= m
      BY <2>1, Least
    <2> QED
      BY <2>2 DEF T
  <1> DEFINE O == {i \in N : aw(i) = aw(q)}
  <1>6. PICK i \in O : \A j \in O : i <= j
    <2>1. O \subseteq Nat /\ O # {}
      BY <1>1
    <2> HIDE DEF O
    <2> QED
      BY <2>1, Least
  <1>7. \A j \in M \ {i} : \/ sc(i) > sc(j)
                           \/ /\ sc(i) = sc(j)
                              /\ aw(i) < aw(j) \/ (aw(i) = aw(j) /\ i < j)
    <2> SUFFICES ASSUME NEW j \in M \ {i}
                 PROVE  \/ sc(i) > sc(j)
                        \/ /\ sc(i) = sc(j)
                           /\ aw(i) < aw(j) \/ (aw(i) = aw(j) /\ i < j)
      OBVIOUS
    <2>1. /\ i \in M /\ sc(i) = sc(p) /\ aw(i) = aw(q)
          /\ sc(j) <= sc(i) /\ sc(i) \in Nat /\ sc(j) \in Nat
          /\ aw(i) \in Nat /\ aw(j) \in Nat /\ i \in Nat /\ j \in Nat
      BY <1>1, <1>2, <1>3, <1>4
    <2>2. sc(j) = sc(i) => aw(i) <= aw(j)
      BY <1>5, <2>1
    <2>3. sc(j) = sc(i) /\ aw(j) = aw(i) => i <= j
      BY <1>6, <2>1
    <2> QED
      BY <2>1, <2>2, <2>3
  <1>8. i \in M /\ \A j \in M \ {i} : Better(s, r, i, j)
    BY <1>7 DEF Better, sc, aw
  <1>9. findRunMark(s, r) = CHOOSE k \in M : \A j \in M \ {k} : Better(s, r, k, j)
    BY <1>1 DEF findRunMark, M
  <1>10. findRunMark(s, r) \in M
    BY <1>8, <1>9
  <1> QED
    BY <1>10 DEF M

\* The original text of a run's slot, where oldContent finds one.
LEMMA SlotFound ==
  ASSUME TypeOK, NEW s \in Text, NEW r \in 1..used, oldContent(s, r) # 0
  PROVE  oldContent(s, r) \in DOMAIN s /\ s[oldContent(s, r)] = Slot(meta[r].t)
  <1> DEFINE I == {i \in 1..Len(s) : s[i] = Slot(meta[r].t)}
  <1>0. Len(s) \in Nat /\ DOMAIN s = 1..Len(s)
    BY TextDomain
  <1>1. I # {} /\ oldContent(s, r) = CHOOSE x \in I : \A y \in I : x <= y
    BY DEF oldContent, SelectInSeq, Min
  <1>2. I \subseteq Nat
    BY <1>0
  <1>3. oldContent(s, r) \in I
    <2> HIDE DEF I
    <2> QED
      BY <1>1, <1>2, Least
  <1> QED
    BY <1>0, <1>3

(***************************************************************************)
(* The merges of a queue                                                   *)
(***************************************************************************)
Page == [note : Text, pending : SUBSET Runs, merged : Seq(1..used)]

\* What the user wrote, as the note's cells tell it.
Written(c) == c.k \in {"text", "typed", "line"}
Keeps(s, u) == \A i \in DOMAIN s : Written(s[i]) => \E j \in DOMAIN u : u[j] = s[i]

LEMMA OneMerge ==
  ASSUME TypeOK, NEW S \in Page, NEW r \in 1..used
  PROVE  /\ applyMerge(S, r) \in Page
         /\ applyMerge(S, r).pending = IF r \in canceled THEN S.pending ELSE S.pending \ {r}
         /\ \/ applyMerge(S, r).note = S.note
            \/ /\ r \notin canceled
               /\ \E i \in DOMAIN S.note :
                     /\ S.note[i].k \in {"mark", "slot"}
                     /\ applyMerge(S, r).note = ReplaceAt(S.note, i, Answer(meta[r].t, r))
  <1> DEFINE i == mergePlace(S, r)
             R == ReplaceAt(S.note, i, Answer(meta[r].t, r))
             A == IF where = "shown" THEN Append(S.merged, r) ELSE S.merged
  <1>0. S.note \in Text /\ S.pending \in SUBSET Runs /\ S.merged \in Seq(1..used)
    BY DEF Page
  <1>1. CASE r \in canceled
    BY <1>1 DEF applyMerge, skipsMerge
  <1>2. CASE r \notin canceled /\ (changesNothing(r) \/ where = "closed" \/ i = 0)
    <2>1. applyMerge(S, r) = [S EXCEPT !.pending = @ \ {r}]
      BY <1>2 DEF applyMerge, skipsMerge
    <2> QED
      BY <1>0, <1>2, <2>1 DEF Page
  <1>3. CASE r \notin canceled /\ ~changesNothing(r) /\ where # "closed" /\ i # 0
    <2>1. applyMerge(S, r) = [note |-> R, pending |-> S.pending \ {r}, merged |-> A]
      BY <1>3 DEF applyMerge, skipsMerge
    <2>2. i \in DOMAIN S.note /\ S.note[i].k \in {"mark", "slot"}
      <3>1. CASE findRunMark(S.note, r) # 0
        BY <1>0, <3>1, MarkFound DEF mergePlace
      <3>2. CASE findRunMark(S.note, r) = 0
        <4>1. i = oldContent(S.note, r) /\ oldContent(S.note, r) # 0
          BY <1>3, <3>2 DEF mergePlace
        <4>2. oldContent(S.note, r) \in DOMAIN S.note
              /\ S.note[oldContent(S.note, r)] = Slot(meta[r].t)
          BY <1>0, <4>1, SlotFound
        <4>3. Slot(meta[r].t).k = "slot"
          BY DEF Slot
        <4> HIDE DEF i
        <4> QED
          BY <4>1, <4>2, <4>3
      <3> QED
        BY <3>1, <3>2
    <2>3. i \in Int
      BY <1>0, <2>2, TextDomain
    <2>4. R \in Text
      <3>1. Answer(meta[r].t, r) \in Cell
        BY RunMeta
      <3> DEFINE c == Answer(meta[r].t, r)
      <3> HIDE DEF i, c
      <3>2. ReplaceAt(S.note, i, c) \in Text
        BY <1>0, <2>3, <3>1, MadeByReplacing DEF c
      <3> QED
        BY <3>2 DEF c
    <2>5. A \in Seq(1..used)
      <3> DEFINE U == 1..used
                 q == S.merged
      <3>1. r \in U /\ q \in Seq(U)
        BY <1>0
      <3> HIDE DEF U, q, R, i
      <3>2. Append(q, r) \in Seq(U)
        BY <3>1
      <3> QED
        BY <3>1, <3>2 DEF U, q
    <2> HIDE DEF R, A, i
    <2>6. applyMerge(S, r) \in Page
      BY <1>0, <2>1, <2>4, <2>5 DEF Page
    <2> QED
      BY <1>3, <2>1, <2>2, <2>6 DEF R
  <1> QED
    BY <1>1, <1>2, <1>3

\* The states between the merges exist: applyMerges is what it says it is.
LEMMA MergeSteps ==
  ASSUME NEW S, NEW rs \in Seq(1..used)
  PROVE  \E f : /\ f[0] = S
                /\ \A n \in 1..Len(rs) : f[n] = applyMerge(f[n - 1], rs[n])
                /\ applyMerges(S, rs) = f[Len(rs)]
  <1> DEFINE Steps(f, k) ==
               f = [n \in 0..k |-> IF n = 0 THEN S ELSE applyMerge(f[n - 1], rs[n])]
             T == {k \in Nat : ~\E f : Steps(f, k)}
  <1>1. T = {}
    <2> SUFFICES ASSUME T # {} PROVE FALSE
      OBVIOUS
    <2>1. PICK k \in T : \A m \in T : k <= m
      BY Least
    <2>k. k \in Nat
      OBVIOUS
    <2>2. CASE k = 0
      <3> DEFINE g == [n \in 0..0 |-> S]
      <3>1. g = [n \in 0..0 |-> IF n = 0 THEN S ELSE applyMerge(g[n - 1], rs[n])]
        OBVIOUS
      <3> QED
        BY <2>1, <2>2, <3>1
    <2>3. CASE k # 0
      <3>1. k - 1 \in Nat /\ k - 1 \notin T
        <4>1. k - 1 \in Nat /\ ~(k <= k - 1)
          BY <2>k, <2>3
        <4> HIDE DEF T
        <4> QED
          BY <2>1, <4>1
      <3>2. PICK f : Steps(f, k - 1)
        BY <3>1
      <3> DEFINE g == [n \in 0..k |-> IF n = k THEN applyMerge(f[k - 1], rs[k]) ELSE f[n]]
      <3>3. \A n \in 0..(k - 1) : g[n] = f[n]
        BY <3>1
      <3>4. \A n \in 0..(k - 1) : f[n] = IF n = 0 THEN S ELSE applyMerge(f[n - 1], rs[n])
        BY <3>2
      <3>5. ASSUME NEW n \in 0..k
            PROVE  g[n] = IF n = 0 THEN S ELSE applyMerge(g[n - 1], rs[n])
        <4>1. CASE n = k
          <5>1. g[n] = applyMerge(f[k - 1], rs[k]) /\ g[k - 1] = f[k - 1]
            BY <3>1, <3>3, <4>1
          <5> QED
            BY <2>3, <4>1, <5>1
        <4>2. CASE n # k
          <5>1. n \in 0..(k - 1) /\ (n # 0 => n - 1 \in 0..(k - 1))
            BY <3>1, <4>2
          <5> HIDE DEF g
          <5> QED
            BY <3>3, <3>4, <5>1
        <4> QED
          BY <4>1, <4>2
      <3>6. g = [n \in 0..k |-> g[n]]
        OBVIOUS
      <3> HIDE DEF g
      <3>7. Steps(g, k)
        BY <3>5, <3>6
      <3> QED
        BY <2>1, <3>7
    <2> QED
      BY <2>2, <2>3
  <1>2. Len(rs) \in Nat
    OBVIOUS
  <1> DEFINE f == CHOOSE f : Steps(f, Len(rs))
  <1>3. Steps(f, Len(rs))
    BY <1>1, <1>2
  <1>4. applyMerges(S, rs) = f[Len(rs)]
    BY DEF applyMerges
  <1> HIDE DEF f
  <1>5. f[0] = S /\ \A n \in 1..Len(rs) : f[n] = applyMerge(f[n - 1], rs[n])
    <2>1. \A n \in 0..Len(rs) : f[n] = IF n = 0 THEN S ELSE applyMerge(f[n - 1], rs[n])
      BY <1>3
    <2> QED
      BY <1>2, <2>1
  <1> QED
    BY <1>4, <1>5

\* The runs among the first n of rs that are not cancelled.
Merging(rs, n) == {r \in Runs \ canceled : \E j \in 1..n : rs[j] = r}

LEMMA AllMerges ==
  ASSUME TypeOK, NEW S \in Page, NEW rs \in Seq(1..used), NEW D,
         \A i, j \in DOMAIN rs : rs[i] = rs[j] => i = j,
         \A j \in DOMAIN rs : rs[j] \notin D,
         Sound(S.note, D)
  PROVE  /\ applyMerges(S, rs) \in Page
         /\ applyMerges(S, rs).pending = S.pending \ Merging(rs, Len(rs))
         /\ Sound(applyMerges(S, rs).note, D \cup Merging(rs, Len(rs)))
         /\ Keeps(S.note, applyMerges(S, rs).note)
  <1>0. Len(rs) \in Nat /\ DOMAIN rs = 1..Len(rs) /\ \A j \in 1..Len(rs) : rs[j] \in 1..used
    BY DEF TypeOK
  <1>1. PICK f : /\ f[0] = S
                 /\ \A n \in 1..Len(rs) : f[n] = applyMerge(f[n - 1], rs[n])
                 /\ applyMerges(S, rs) = f[Len(rs)]
    BY MergeSteps
  <1> DEFINE P(n) == /\ f[n] \in Page
                     /\ f[n].pending = S.pending \ Merging(rs, n)
                     /\ Sound(f[n].note, D \cup Merging(rs, n))
                     /\ Keeps(S.note, f[n].note)
             T == {n \in 0..Len(rs) : ~P(n)}
  <1>2. P(0)
    <2>1. Merging(rs, 0) = {}
      BY DEF Merging
    <2>2. Keeps(S.note, S.note)
      BY DEF Keeps
    <2> QED
      BY <1>1, <2>1, <2>2
  <1>3. ASSUME NEW n \in 1..Len(rs), P(n - 1)
        PROVE  P(n)
    <2> DEFINE r == rs[n]
               s == f[n - 1].note
               u == f[n].note
               c == Answer(meta[r].t, r)
    <2>1. r \in 1..used /\ r \in Runs /\ f[n] = applyMerge(f[n - 1], r) /\ c \in Cell
      BY <1>0, <1>1, RunMeta
    <2>2. Merging(rs, n) = Merging(rs, n - 1) \cup ({r} \ canceled)
      <3>1. \A j : j \in 1..n <=> j \in 1..(n - 1) \/ j = n
        BY <1>0
      <3> QED
        BY <2>1, <3>1 DEF Merging
    <2>3. r \notin Merging(rs, n - 1)
      <3>1. \A j \in 1..(n - 1) : j \in 1..Len(rs) /\ j # n
        BY <1>0
      <3> QED
        BY <1>0, <3>1 DEF Merging
    <2>4. s \in Text /\ Sound(s, D \cup Merging(rs, n - 1)) /\ Keeps(S.note, s)
      BY <1>3 DEF Page
    <2>5. /\ f[n] \in Page
          /\ f[n].pending = IF r \in canceled THEN f[n - 1].pending ELSE f[n - 1].pending \ {r}
          /\ \/ u = s
             \/ /\ r \notin canceled
                /\ \E i \in DOMAIN s : s[i].k \in {"mark", "slot"} /\ u = ReplaceAt(s, i, c)
      <3> DEFINE V == f[n - 1]
      <3>1. V \in Page /\ f[n] = applyMerge(V, r)
        BY <1>3, <2>1
      <3> HIDE DEF V, r
      <3>2. /\ applyMerge(V, r) \in Page
            /\ applyMerge(V, r).pending = IF r \in canceled THEN V.pending ELSE V.pending \ {r}
            /\ \/ applyMerge(V, r).note = V.note
               \/ /\ r \notin canceled
                  /\ \E i \in DOMAIN V.note :
                        /\ V.note[i].k \in {"mark", "slot"}
                        /\ applyMerge(V, r).note = ReplaceAt(V.note, i, Answer(meta[r].t, r))
        BY <2>1, <3>1, OneMerge
      <3> QED
        BY <3>1, <3>2 DEF V
    <2>6. f[n].pending = S.pending \ Merging(rs, n)
      BY <1>3, <2>2, <2>5
    <2>7. r \notin D
      BY <1>0
    <2> HIDE DEF r, s, u, c
    <2>8. CASE u = s
      BY <2>2, <2>4, <2>5, <2>6, <2>8, SoundMore DEF u
    <2>9. CASE /\ r \notin canceled
               /\ \E i \in DOMAIN s : s[i].k \in {"mark", "slot"} /\ u = ReplaceAt(s, i, c)
      <3>1. PICK i \in DOMAIN s : s[i].k \in {"mark", "slot"} /\ u = ReplaceAt(s, i, c)
        BY <2>9
      <3>2. i \in Int
        BY <2>4, TextDomain
      <3>3. u \in Text /\ Made(u, s, c)
        BY <2>1, <2>4, <3>1, <3>2, MadeByReplacing
      <3>4. c.r = r
        BY DEF c, Answer
      <3>5. Sound(u, D \cup Merging(rs, n))
        BY <2>1, <2>2, <2>3, <2>4, <2>7, <2>9, <3>3, <3>4, MadeSound
      <3>6. Keeps(s, u)
        <4>1. DOMAIN u = DOMAIN s /\ \A j \in DOMAIN s : u[j] = IF j = i THEN c ELSE s[j]
          BY <2>1, <2>4, <3>1, <3>2, Replacing DEF Text
        <4> QED
          BY <3>1, <4>1 DEF Keeps, Written
      <3>7. Keeps(S.note, u)
        BY <2>4, <3>6 DEF Keeps
      <3> QED
        BY <2>5, <2>6, <3>5, <3>7 DEF u
    <2> QED
      BY <2>5, <2>8, <2>9
  <1> HIDE DEF P
  <1>4. T = {}
    <2> SUFFICES ASSUME T # {} PROVE FALSE
      OBVIOUS
    <2>1. T \subseteq Nat
      BY <1>0
    <2>2. PICK n \in T : \A m \in T : n <= m
      BY <2>1, Least
    <2>3. n # 0
      BY <1>2
    <2>4. n \in 1..Len(rs) /\ n - 1 \in 0..Len(rs) /\ ~(n <= n - 1)
      BY <1>0, <2>3
    <2>5. P(n - 1)
      BY <2>2, <2>4
    <2> QED
      BY <1>3, <2>4, <2>5
  <1>5. P(Len(rs))
    BY <1>0, <1>4
  <1> QED
    BY <1>1, <1>5 DEF P

(***************************************************************************)
(* What the page and the user do to the note                               *)
(***************************************************************************)
LEMMA KeepsReplacing ==
  ASSUME NEW s \in Text, NEW i \in DOMAIN s, NEW c \in Cell, ~Written(s[i])
  PROVE  Keeps(s, ReplaceAt(s, i, c))
  <1>1. i \in Int /\ s \in Seq(Cell)
    BY TextDomain DEF Text
  <1>2. /\ DOMAIN ReplaceAt(s, i, c) = DOMAIN s
        /\ \A j \in DOMAIN s : ReplaceAt(s, i, c)[j] = IF j = i THEN c ELSE s[j]
    BY <1>1, Replacing
  <1> QED
    BY <1>2 DEF Keeps

LEMMA KeepsRemoving ==
  ASSUME NEW s \in Text, NEW i \in DOMAIN s, ~Written(s[i])
  PROVE  Keeps(s, RemoveAt(s, i))
  <1> DEFINE u == RemoveAt(s, i)
  <1>0. Len(s) \in Nat /\ DOMAIN s = 1..Len(s) /\ i \in 1..Len(s) /\ s \in Seq(Cell)
    BY TextDomain DEF Text
  <1>1. /\ u \in Seq(Cell) /\ Len(u) = Len(s) - 1
        /\ \A j \in 1..(Len(s) - 1) : u[j] = IF j < i THEN s[j] ELSE s[j + 1]
    BY <1>0, Removing
  <1> HIDE DEF u
  <1>2. DOMAIN u = 1..(Len(s) - 1)
    BY <1>0, <1>1
  <1>3. ASSUME NEW l \in DOMAIN s, Written(s[l])
        PROVE  \E j \in DOMAIN u : u[j] = s[l]
    <2>1. CASE l < i
      <3>1. l \in 1..(Len(s) - 1)
        BY <1>0, <2>1
      <3> QED
        BY <1>1, <1>2, <2>1, <3>1
    <2>2. CASE l > i
      <3>1. l - 1 \in 1..(Len(s) - 1) /\ ~(l - 1 < i) /\ (l - 1) + 1 = l
        BY <1>0, <2>2
      <3>2. u[l - 1] = s[l]
        BY <1>1, <3>1
      <3> QED
        BY <1>2, <3>1, <3>2
    <2>3. l # i
      BY <1>3
    <2> QED
      BY <1>0, <2>1, <2>2, <2>3
  <1> QED
    BY <1>3 DEF Keeps, u

LEMMA KeepsSplicing ==
  ASSUME NEW s \in Text, NEW c \in Cell,
         NEW i \in 1..(Len(s) + 1), NEW k \in i..(Len(s) + 2),
         \A j \in DOMAIN s : j >= i /\ j < k => ~Written(s[j])
  PROVE  Keeps(s, Splice(s, i, k, c))
  <1> DEFINE u == Splice(s, i, k, c)
  <1>0. Len(s) \in Nat /\ DOMAIN s = 1..Len(s) /\ s \in Seq(Cell)
    BY TextDomain DEF Text
  <1>1. /\ u \in Seq(Cell)
        /\ Len(u) = i + (IF k <= Len(s) THEN Len(s) - k + 1 ELSE 0)
        /\ \A j \in 1..Len(u) : u[j] = IF j < i THEN s[j]
                                       ELSE IF j = i THEN c ELSE s[j - i + k - 1]
    BY <1>0, Splicing
  <1> HIDE DEF u
  <1>2. DOMAIN u = 1..Len(u) /\ Len(u) \in Nat
    BY <1>1
  <1>3. ASSUME NEW l \in DOMAIN s, Written(s[l])
        PROVE  \E j \in DOMAIN u : u[j] = s[l]
    <2>1. CASE l < i
      <3>1. l \in 1..Len(u)
        BY <1>0, <1>1, <2>1
      <3> QED
        BY <1>1, <1>2, <2>1, <3>1
    <2>2. CASE l >= k
      <3>1. l - k + i + 1 \in 1..Len(u)
        BY <1>0, <1>1, <2>2
      <3>2. (l - k + i + 1) - i + k - 1 = l /\ ~(l - k + i + 1 < i) /\ l - k + i + 1 # i
        BY <1>0, <2>2
      <3>3. u[l - k + i + 1] = s[l]
        BY <1>1, <3>1, <3>2
      <3> QED
        BY <1>2, <3>1, <3>3
    <2>3. ~(l >= i /\ l < k)
      BY <1>3
    <2> QED
      BY <1>0, <2>1, <2>2, <2>3
  <1> QED
    BY <1>3 DEF Keeps, u

LEMMA KeepsAppending ==
  ASSUME NEW s \in Text, NEW c \in Cell
  PROVE  Keeps(s, Append(s, c))
  <1>0. Len(s) \in Nat /\ DOMAIN s = 1..Len(s) /\ s \in Seq(Cell)
    BY TextDomain DEF Text
  <1>1. \A j \in DOMAIN s : j \in DOMAIN Append(s, c) /\ Append(s, c)[j] = s[j]
    BY <1>0
  <1> QED
    BY <1>1 DEF Keeps

LEMMA Placed ==
  ASSUME NEW s, NEW c, In(s, c)
  PROVE  Place(s, c) \in DOMAIN s /\ s[Place(s, c)] = c
  BY DEF In, Place, Range

LEMMA AnswerText ==
  ASSUME TypeOK, NEW r \in 1..used
  PROVE  /\ applyAnchorReplacement(r) \in Text
         /\ Made(applyAnchorReplacement(r), note, Answer(meta[r].t, r))
         /\ Keeps(note, applyAnchorReplacement(r))
  <1> DEFINE c == Answer(meta[r].t, r)
             i == Place(note, Holder(r))
  <1>0. note \in Text /\ c \in Cell /\ Holder(r) \in Cell
    BY RunMeta DEF TypeOK
  <1>1. ~Written(Holder(r))
    BY DEF Written, Holder, Mark, Marker
  <1> HIDE DEF c
  <1>2. CASE where = "closed"
    BY <1>0, <1>2, MadeByNothing DEF applyAnchorReplacement, Keeps
  <1>3. CASE where # "closed" /\ In(note, Holder(r))
    <2>1. i \in DOMAIN note /\ note[i] = Holder(r)
      BY <1>3, Placed
    <2> HIDE DEF i
    <2>2. i \in Int
      BY <1>0, <2>1, TextDomain
    <2>3. applyAnchorReplacement(r) = ReplaceAt(note, i, c)
      BY <1>3 DEF applyAnchorReplacement, i, c
    <2> QED
      BY <1>0, <1>1, <2>1, <2>2, <2>3, MadeByReplacing, KeepsReplacing DEF c
  <1>4. CASE where # "closed" /\ ~In(note, Holder(r))
    <2>1. applyAnchorReplacement(r) = Append(note, c)
      BY <1>4 DEF applyAnchorReplacement, c
    <2> QED
      BY <1>0, <2>1, MadeByAppending, KeepsAppending DEF c
  <1> QED
    BY <1>2, <1>3, <1>4

LEMMA RestoreText ==
  ASSUME TypeOK, NEW r \in 1..used
  PROVE  /\ restoreRunMark(r) \in Text
         /\ Made(restoreRunMark(r), note, Slot(meta[r].t))
         /\ Keeps(note, restoreRunMark(r))
  <1> DEFINE c == Slot(meta[r].t)
             i == findRunMark(note, r)
  <1>0. note \in Text /\ c \in Cell
    BY RunMeta DEF TypeOK
  <1> HIDE DEF c
  <1>1. CASE where = "closed" \/ i = 0
    BY <1>0, <1>1, MadeByNothing DEF restoreRunMark, Keeps
  <1>2. CASE where # "closed" /\ i # 0
    <2>1. i \in DOMAIN note /\ note[i].k = "mark"
      BY <1>0, <1>2, MarkFound
    <2>2. restoreRunMark(r) = ReplaceAt(note, i, c)
      BY <1>2 DEF restoreRunMark, c
    <2> HIDE DEF i
    <2>3. i \in Int /\ ~Written(note[i])
      BY <1>0, <2>1, TextDomain DEF Written
    <2> QED
      BY <1>0, <2>1, <2>2, <2>3, MadeByReplacing, KeepsReplacing DEF c
  <1> QED
    BY <1>1, <1>2

LEMMA DropText ==
  ASSUME TypeOK, NEW r \in 1..used, NEW c
  PROVE  /\ dropAnchor(r) \in Text
         /\ Made(dropAnchor(r), note, c)
         /\ Keeps(note, dropAnchor(r))
  <1> DEFINE i == Place(note, Holder(r))
  <1>0. note \in Text
    BY DEF TypeOK
  <1>1. CASE where = "closed" \/ ~In(note, Holder(r))
    BY <1>0, <1>1, MadeByNothing DEF dropAnchor, Keeps
  <1>2. CASE where # "closed" /\ In(note, Holder(r))
    <2>1. i \in DOMAIN note /\ note[i] = Holder(r)
      BY <1>2, Placed
    <2>2. dropAnchor(r) = RemoveAt(note, i)
      BY <1>2 DEF dropAnchor
    <2>3. ~Written(note[i])
      BY <2>1 DEF Written, Holder, Mark, Marker
    <2> HIDE DEF i
    <2> QED
      BY <1>0, <2>1, <2>2, <2>3, MadeByRemoving, KeepsRemoving
  <1> QED
    BY <1>1, <1>2

\* The texts kept for undo are some that were kept before, and the note.
LEMMA KeptTexts ==
  ASSUME NEW q \in Seq(Text), NEW n \in Nat
  PROVE  /\ Kept(q, n) \in Seq(Text)
         /\ \A i \in DOMAIN Kept(q, n) : \E j \in DOMAIN q : Kept(q, n)[i] = q[j]
  <1>0. Len(q) \in Nat /\ DOMAIN q = 1..Len(q)
    OBVIOUS
  <1>1. CASE where # "shown"
    BY <1>1 DEF Kept
  <1>2. CASE where = "shown" /\ Len(q) <= n
    BY <1>2 DEF Kept
  <1>3. CASE where = "shown" /\ ~(Len(q) <= n)
    <2> DEFINE a == Len(q) - n + 1
    <2>1. a \in Nat \ {0} /\ Len(q) \in 0..Len(q) /\ a <= Len(q) + 1
      BY <1>0, <1>3
    <2>2. Kept(q, n) = SubSeq(q, a, Len(q))
      BY <1>3 DEF Kept
    <2> HIDE DEF a
    <2> DEFINE u == SubSeq(q, a, Len(q))
    <2>3. /\ u \in Seq(Text)
          /\ Len(u) = IF a <= Len(q) THEN Len(q) - a + 1 ELSE 0
          /\ \A j \in 1..Len(u) : u[j] = q[a + j - 1]
      BY <2>1, Part
    <2> HIDE DEF u
    <2>4. \A i \in DOMAIN u : a + i - 1 \in DOMAIN q /\ u[i] = q[a + i - 1]
      BY <1>0, <2>1, <2>3
    <2> QED
      BY <2>2, <2>3, <2>4 DEF u
  <1> QED
    BY <1>1, <1>2, <1>3

LEMMA EditedTexts ==
  ASSUME TypeOK, NEW s \in Text, Edited(s)
  PROVE  /\ note' = s /\ past' \in Seq(Text)
         /\ \A i \in DOMAIN past' : past'[i] = note \/ \E j \in DOMAIN past : past'[i] = past[j]
  <1> DEFINE q == Append(past, note)
  <1>0. past \in Seq(Text) /\ note \in Text
    BY DEF TypeOK
  <1>1. /\ q \in Seq(Text)
        /\ \A j \in DOMAIN q : q[j] = note \/ \E i \in DOMAIN past : q[j] = past[i]
    BY <1>0
  <1>2. MaxActs - acts \in Nat
    BY Constants DEF TypeOK
  <1> HIDE DEF q
  <1>3. CASE s = note
    BY <1>0, <1>3 DEF Edited
  <1>4. CASE s # note
    <2>1. past' = Kept(q, MaxActs - acts) /\ note' = s
      BY <1>4 DEF Edited, q
    <2>2. /\ past' \in Seq(Text)
          /\ \A i \in DOMAIN past' : \E j \in DOMAIN q : past'[i] = q[j]
      <3> DEFINE m == MaxActs - acts
      <3> HIDE DEF m
      <3>1. m \in Nat /\ past' = Kept(q, m)
        BY <1>2, <2>1 DEF m
      <3>2. /\ Kept(q, m) \in Seq(Text)
            /\ \A i \in DOMAIN Kept(q, m) : \E j \in DOMAIN q : Kept(q, m)[i] = q[j]
        BY <1>1, <3>1, KeptTexts
      <3> QED
        BY <3>1, <3>2
    <2> QED
      BY <1>1, <2>1, <2>2
  <1> QED
    BY <1>3, <1>4

\* A start puts one mark or marker into the note, and what the user wrote stays
\* unless the text moved between the parse and the check.
Starting(t) ==
    \E s \in Text, c \in Cell, run \in Meta :
        /\ Started(t, run, s)
        /\ run.t = t
        /\ Made(s, note, c) /\ c.k # "answer"
        /\ Keeps(note, s) \/ (press # NoPress /\ press.text # press.gate)

LEMMA BelowText ==
  ASSUME TypeOK, used < MaxRuns, NEW t \in Targets, In(note, Source(t)), StartBelow(t)
  PROVE  Starting(t)
  <1> DEFINE i == Place(note, Source(t))
             c == Marker(t, used + 1)
             k == IF hasResult(t) THEN i + 2 ELSE i + 1
             s == Splice(note, i + 1, k, c)
             run == [t |-> t, at |-> i, above |-> <<>>, below |-> <<>>]
  <1>0. note \in Text /\ Len(note) \in Nat /\ DOMAIN note = 1..Len(note)
    BY TextDomain DEF TypeOK
  <1>1. i \in DOMAIN note /\ note[i] = Source(t)
    BY Placed
  <1>2. used + 1 \in Runs
    BY Constants DEF TypeOK, Runs
  <1>3. c \in Cell /\ c.k # "answer"
    BY <1>2, Cells DEF Marker
  <1>4. run \in Meta /\ run.t = t
    <2>1. i \in Nat /\ <<>> \in Seq(Look)
      BY <1>0, <1>1
    <2> HIDE DEF i
    <2> QED
      BY <2>1 DEF Meta
  <1>5. Started(t, run, s)
    <2>1. (i + 1) - 1 = i
      BY <1>0, <1>1
    <2>2. SubSeq(note, 1, (i + 1) - 1) = SubSeq(note, 1, i)
      BY <2>1
    <2> QED
      BY <2>2 DEF StartBelow, Splice
  <1>6. ASSUME NEW j \in DOMAIN note, j >= i + 1, j < k
        PROVE  ~Written(note[j])
    <2>1. hasResult(t) /\ j = i + 1
      BY <1>0, <1>1, <1>6
    <2>2. isResult(note[i + 1])
      BY <2>1 DEF hasResult
    <2> QED
      BY <2>1, <2>2 DEF isResult, Written
  <1>7. i + 1 \in 1..(Len(note) + 1) /\ k \in (i + 1)..(Len(note) + 2)
    BY <1>0, <1>1
  <1>8. s \in Text /\ Made(s, note, c) /\ Keeps(note, s)
    <2> HIDE DEF i, c, k
    <2>1. s \in Text /\ Made(s, note, c)
      BY <1>0, <1>3, <1>7, MadeBySplicing
    <2>2. Keeps(note, s)
      BY <1>0, <1>3, <1>6, <1>7, KeepsSplicing
    <2> QED
      BY <2>1, <2>2
  <1> HIDE DEF s, c, run
  <1> QED
    BY <1>3, <1>4, <1>5, <1>8 DEF Starting

LEMMA SlotText ==
  ASSUME TypeOK, used < MaxRuns, NEW t \in Targets, StartSlot(t), press.at \in Nat \ {0},
         \/ press.at \in DOMAIN note /\ ~Written(note[press.at])
         \/ press # NoPress /\ press.text # press.gate
  PROVE  Starting(t)
  <1> DEFINE at == IF press.at <= Len(note) THEN press.at ELSE Len(note) + 1
             c == Mark(t, used + 1)
             k == at + 1
             s == Splice(note, at, k, c)
             run == [t |-> t, at |-> at, above |-> Above(note, at), below |-> Below(note, at)]
  <1>0. note \in Text /\ Len(note) \in Nat /\ DOMAIN note = 1..Len(note)
    BY TextDomain DEF TypeOK
  <1>1. at \in 1..(Len(note) + 1) /\ k \in at..(Len(note) + 2)
    BY <1>0
  <1>2. used + 1 \in Runs
    BY Constants DEF TypeOK, Runs
  <1>3. c \in Cell /\ c.k # "answer"
    BY <1>2, Cells DEF Mark
  <1>4. run \in Meta /\ run.t = t
    <2>1. at \in Nat
      BY <1>1
    <2> HIDE DEF at
    <2>2. Above(note, at) \in Seq(Look) /\ Below(note, at) \in Seq(Look)
      BY <1>0, <1>1, Surroundings
    <2> QED
      BY <2>1, <2>2 DEF Meta
  <1>5. Started(t, run, s)
    BY DEF StartSlot, Splice
  <1>6. s \in Text /\ Made(s, note, c)
    <2> HIDE DEF at, c, k
    <2> QED
      BY <1>0, <1>1, <1>3, MadeBySplicing
  <1>7. Keeps(note, s) \/ (press # NoPress /\ press.text # press.gate)
    <2>1. CASE press.at \in DOMAIN note /\ ~Written(note[press.at])
      <3>1. at = press.at
        BY <1>0, <2>1
      <3>2. \A j \in DOMAIN note : j >= at /\ j < k => ~Written(note[j])
        BY <1>0, <2>1, <3>1
      <3> HIDE DEF at, c, k
      <3>3. Keeps(note, s)
        BY <1>0, <1>1, <1>3, <3>2, KeepsSplicing
      <3> QED
        BY <3>3
    <2> QED
      BY <2>1
  <1> HIDE DEF s, c, run
  <1> QED
    BY <1>3, <1>4, <1>5, <1>6, <1>7 DEF Starting

LEMMA ConfirmedStarts ==
  ASSUME TypeOK, Pressing, Confirmed
  PROVE  \E t \in Targets : Starting(t)
  <1>1. press # NoPress
    BY DEF Confirmed, NoPress
  <1>2. press \in Pressed
    BY <1>1 DEF TypeOK
  <1>3. press.t \in Targets /\ press.text \in Text /\ press.at \in Nat
    BY <1>2 DEF Pressed
  <1>4. /\ used < MaxRuns /\ press.at \in DOMAIN press.text
        /\ press.text[press.at] = Source(press.t)
    BY <1>1 DEF Pressing
  <1>5. press.at \in Nat \ {0}
    BY <1>3, <1>4, TextDomain
  <1>6. CASE Kind[press.t] = "slot"
    <2>1. StartSlot(press.t) /\ note = press.gate
      BY <1>6 DEF Confirmed, unchangedSince
    <2>2. press.text = press.gate => press.at \in DOMAIN note /\ ~Written(note[press.at])
      BY <1>4, <1>6, <2>1 DEF Source, Slot, Written
    <2>3. Starting(press.t)
      BY <1>1, <1>3, <1>4, <1>5, <2>1, <2>2, SlotText
    <2> QED
      BY <1>3, <2>3
  <1>7. CASE Kind[press.t] # "slot"
    <2>1. StartBelow(press.t) /\ note = press.text
      BY <1>7 DEF Confirmed, unchangedSince
    <2>2. In(note, Source(press.t))
      BY <1>4, <2>1 DEF In, Range
    <2> QED
      BY <1>3, <1>4, <2>1, <2>2, BelowText
  <1> QED
    BY <1>6, <1>7

(***************************************************************************)
(* The steps, one shape after the other                                    *)
(***************************************************************************)

\* What is left of the invariant's part on answers when a step edits the note.
LEMMA AnswersFrom ==
  ASSUME Answers, NEW D, D = Done', Done \subseteq D, Sound(note', D),
         \A i \in DOMAIN past' : past'[i] = note \/ \E j \in DOMAIN past : past'[i] = past[j]
  PROVE  Answers'
  <1>1. Sound(note, D) /\ \A j \in DOMAIN past : Sound(past[j], D)
    BY SoundMore DEF Answers
  <1>2. \A i \in DOMAIN past' : Sound(past'[i], D)
    BY <1>1
  <1>3. Sound(note', Done') /\ \A i \in DOMAIN past' : Sound(past'[i], Done')
    BY <1>2
  <1> QED
    BY <1>3 DEF Answers

LEMMA StartingStep ==
  ASSUME IInv, used < MaxRuns, NEW t \in Targets, Starting(t)
  PROVE  /\ IInv'
         /\ Keeps(note, note') \/ (press # NoPress /\ press.text # press.gate)
  <1> USE DEF IInv
  <1>0. PICK s \in Text, c \in Cell, run \in Meta :
          /\ Started(t, run, s)
          /\ run.t = t
          /\ Made(s, note, c) /\ c.k # "answer"
          /\ Keeps(note, s) \/ (press # NoPress /\ press.text # press.gate)
    BY DEF Starting
  <1>n. PICK n : n = used + 1
    OBVIOUS
  <1>1. /\ used' = n /\ meta' = Append(meta, run) /\ pending' = pending \cup {n}
        /\ task' = [task EXCEPT ![n] = "running"]
        /\ go' = [go EXCEPT ![n] = IF Kind[t] \in {"slot", "agent"} THEN "queued" ELSE "running"]
        /\ Edited(s) /\ press' = NoPress
        /\ UNCHANGED <<where, canceled, queue, merged, mail, acts>>
    BY <1>0, <1>n DEF Started, userVars
  <1>2. used \in Nat /\ n \in Runs /\ n \in 1..n /\ n \notin 1..used /\ 1..used \subseteq 1..n
    BY <1>n, Constants DEF TypeOK, Runs
  <1>3. \A r \in 1..n : r = n \/ r \in 1..used
    BY <1>n, <1>2
  <1>4. meta' \in Seq(Meta) /\ Len(meta') = n /\ \A r \in 1..used : meta'[r] = meta[r]
    BY <1>0, <1>1, <1>n DEF TypeOK
  <1>5. note' = s /\ past' \in Seq(Text)
        /\ \A i \in DOMAIN past' : past'[i] = note \/ \E j \in DOMAIN past : past'[i] = past[j]
    BY <1>1, EditedTexts
  <1>6. meta'[n] = run
    <2>1. meta \in Seq(Meta) /\ Len(meta) + 1 = n
      BY <1>n DEF TypeOK
    <2> QED
      BY <1>0, <1>1, <2>1
  <1>7. /\ task' \in [Runs -> {"none", "running", "completed", "canceled", "failed"}]
        /\ task'[n] = "running" /\ \A r \in Runs : r # n => task'[r] = task[r]
        /\ go' \in [Runs -> {"none", "queued", "running", "ended"}]
        /\ go'[n] # "ended" /\ \A r \in Runs : r # n => go'[r] = go[r]
    BY <1>1, <1>2 DEF TypeOK
  <1>8. TypeOK'
    <2>1. used' \in 0..MaxRuns
      BY <1>1, <1>2, Constants DEF Runs
    <2>2. pending' \subseteq 1..used' /\ canceled' \subseteq 1..used'
      BY <1>1, <1>2 DEF TypeOK
    <2>3. queue' \in Seq(1..used') /\ merged' \in Seq(1..used')
      <3> DEFINE U == 1..used
                 V == 1..used'
      <3>1. U \subseteq V
        BY <1>1, <1>2
      <3>2. queue \in Seq(U) /\ merged \in Seq(U)
        BY DEF TypeOK
      <3> HIDE DEF U, V
      <3>3. queue' \in Seq(V) /\ merged' \in Seq(V)
        BY <1>1, <3>1, <3>2
      <3> QED
        BY <3>3 DEF V
    <2>4. mail' \subseteq (1..used') \X {"answer", "problem", "canceled"}
      BY <1>1, <1>2 DEF TypeOK
    <2> QED
      BY <1>1, <1>4, <1>5, <1>7, <2>1, <2>2, <2>3, <2>4 DEF TypeOK
  <1>9. \A r \in 1..used : r \in Runs /\ r # n /\ KindOf(r)' = KindOf(r)
    BY <1>2, <1>4, Constants DEF KindOf, TypeOK, Runs
  <1>10. \A r : Queued(r)' = Queued(r) /\ Posted(r)' = Posted(r)
    BY <1>1 DEF Queued, Posted
  <1>11. ~Queued(n) /\ ~Posted(n)
    <2>1. ~Queued(n)
      BY <1>2 DEF Queued, TypeOK
    <2>2. ~Posted(n)
      BY <1>2 DEF Posted, TypeOK
    <2> QED
      BY <2>1, <2>2
  <1>12. Results'
    <2>1. \A r \in Runs : r > n => r > used /\ r # n
      BY <1>n, <1>2 DEF Runs
    <2>2. \A m \in mail : m[1] \in Runs /\ m[1] # n
      BY <1>9 DEF TypeOK
    <2>3. \A r \in Runs : r > used' => go'[r] = "none"
      BY <1>1, <1>7, <2>1 DEF Results
    <2>4. \A m \in mail' : go'[m[1]] = "ended"
      BY <1>1, <1>7, <2>2 DEF Results
    <2>5. \A m, o \in mail' : m[1] = o[1] => m = o
      BY <1>1 DEF Results
    <2>6. \A r \in 1..used' : Queued(r)' => go'[r] = "ended" /\ ~Posted(r)' /\ KindOf(r)' = "slot"
      BY <1>1, <1>3, <1>7, <1>9, <1>10, <1>11 DEF Results
    <2>7. \A i, j \in DOMAIN queue' : queue'[i] = queue'[j] => i = j
      BY <1>1 DEF Results
    <2> QED
      BY <2>3, <2>4, <2>5, <2>6, <2>7 DEF Results, Runs
  <1>13. Records'
    <2>1. ASSUME NEW r \in 1..used PROVE Held(r)'
      <3>1. Held(r)
        BY DEF Records
      <3> QED
        BY <1>1, <1>7, <1>9, <1>10, <3>1 DEF Held
    <2>2. Held(n)'
      <3>1. n \notin canceled
        BY <1>2 DEF TypeOK
      <3>2. /\ n \in pending' /\ n \notin canceled' /\ task'[n] = "running"
            /\ ~Queued(n)'
        BY <1>1, <1>7, <1>10, <1>11, <3>1
      <3> QED
        BY <3>2 DEF Held
    <2>3. \A r \in 1..used' : Held(r)'
      BY <1>1, <1>3, <2>1, <2>2
    <2> QED
      BY <2>3 DEF Records
  <1>14. Done \subseteq Done'
    <2> SUFFICES ASSUME NEW r \in Done PROVE r \in Done'
      OBVIOUS
    <2>1. r \in 1..used
      BY DEF Done
    <2> QED
      BY <1>1, <1>2, <1>7, <1>9, <1>10, <2>1 DEF Done
  <1>15. Answers'
    <2>1. PICK D : D = Done'
      OBVIOUS
    <2>2. Sound(s, D)
      BY <1>0, <1>14, <2>1, MadeSound DEF Answers, TypeOK
    <2> QED
      BY <1>5, <1>14, <2>1, <2>2, AnswersFrom
  <1>16. Pressing'
    BY <1>1 DEF Pressing
  <1> QED
    BY <1>0, <1>5, <1>8, <1>12, <1>13, <1>15, <1>16

recordVars == <<used, meta, pending, canceled, task, queue, go, mail>>

\* Steps that touch no run.
LEMMA CalmStep ==
  ASSUME IInv, UNCHANGED recordVars
  PROVE  Results' /\ Records' /\ Done' = Done
  <1>1. \A r : Queued(r)' = Queued(r) /\ Posted(r)' = Posted(r) /\ KindOf(r)' = KindOf(r)
    BY DEF recordVars, Queued, Posted, KindOf
  <1>2. Results'
    BY <1>1 DEF IInv, Results, recordVars, Runs
  <1>3. Records'
    <2>1. \A r \in 1..used : Held(r)'
      BY <1>1 DEF IInv, Records, Held, recordVars
    <2> QED
      BY <2>1 DEF Records, recordVars
  <1>4. Done' = Done
    BY <1>1 DEF Done, recordVars
  <1> QED
    BY <1>2, <1>3, <1>4

LEMMA CalmTexts ==
  ASSUME IInv, UNCHANGED <<recordVars, note, past>>
  PROVE  Results' /\ Records' /\ Answers' /\ Keeps(note, note')
  <1>1. Answers'
    BY CalmStep DEF IInv, Answers
  <1> QED
    BY <1>1, CalmStep DEF Keeps

\* A user's edit of the note, or one that Ctrl+Z makes.
LEMMA CalmEdit ==
  ASSUME IInv, UNCHANGED recordVars, NEW c \in Cell, c.k # "answer",
         note' \in Text, Made(note', note, c),
         \A i \in DOMAIN past' : past'[i] = note \/ \E j \in DOMAIN past : past'[i] = past[j]
  PROVE  Results' /\ Records' /\ Answers'
  <1>1. PICK D : D = Done' /\ D = Done
    BY CalmStep
  <1>2. PICK u : u = note'
    OBVIOUS
  <1>3. Sound(u, D)
    BY <1>1, <1>2, MadeSound DEF IInv, Answers, TypeOK
  <1>4. Answers'
    BY <1>1, <1>2, <1>3, AnswersFrom DEF IInv
  <1> QED
    BY <1>4, CalmStep

LEMMA QuietStep ==
  ASSUME IInv,
         \/ \E t \in Targets : Press(t) /\ used' = used
         \/ Parsed \/ NotStarted \/ ComeBack \/ GoAway
         \/ UNCHANGED vars
  PROVE  IInv' /\ (note' = note)
  <1> USE DEF IInv
  <1>1. UNCHANGED <<recordVars, note, merged>> /\ past' \in {past, <<>>}
    <2>1. ASSUME NEW t \in Targets, Press(t), used' = used
          PROVE  UNCHANGED <<recordVars, note, past, merged>>
      <3>1. Kind[t] # "llm"
        <4>1. used \in Nat
          BY Constants DEF TypeOK
        <4> QED
          BY <2>1, <4>1 DEF Press, StartBelow, Started
      <3> QED
        BY <2>1, <3>1 DEF Press, recordVars, noteVars, pageVars, goVars
    <2> QED
      BY <2>1 DEF Parsed, NotStarted, ComeBack, GoAway, vars, recordVars, noteVars, pageVars,
                  goVars, userVars
  <1>2. Results' /\ Records' /\ Answers'
    <2>1. CASE past' = past
      BY <1>1, <2>1, CalmTexts
    <2>2. CASE past' = <<>>
      <3>1. Done' = Done
        BY <1>1, CalmStep
      <3>2. Answers'
        BY <1>1, <2>2, <3>1 DEF Answers
      <3> QED
        BY <1>1, <3>2, CalmStep
    <2> QED
      BY <1>1, <2>1, <2>2
  <1>3. where' \in {"shown", "behind", "closed"} /\ acts' \in 0..MaxActs
    <2>1. ASSUME NEW t \in Targets, Press(t), used' = used
          PROVE  UNCHANGED <<where, acts>>
      <3>1. Kind[t] # "llm"
        <4>1. used \in Nat
          BY Constants DEF TypeOK
        <4> QED
          BY <2>1, <4>1 DEF Press, StartBelow, Started
      <3> QED
        BY <2>1, <3>1 DEF Press, noteVars, userVars
    <2>2. CASE GoAway
      BY <2>2, Constants DEF GoAway, Acts, TypeOK
    <2> QED
      BY <2>1, <2>2 DEF Parsed, NotStarted, ComeBack, vars, noteVars, userVars, TypeOK
  <1>4. press' \in Pressed \cup {NoPress} /\ Pressing'
    <2>1. ASSUME NEW t \in Targets, Press(t), used' = used
          PROVE  press' \in Pressed \cup {NoPress} /\ Pressing'
      <3>1. Kind[t] # "llm"
        <4>1. used \in Nat
          BY Constants DEF TypeOK
        <4> QED
          BY <2>1, <4>1 DEF Press, StartBelow, Started
      <3>2. used < MaxRuns /\ In(note, Source(t))
        BY <2>1 DEF Press
      <3>3. PICK st \in {"parse", "confirm"} :
              press' = [step |-> st, t |-> t, at |-> Place(note, Source(t)),
                        text |-> note, gate |-> note]
        BY <2>1, <3>1 DEF Press
      <3>4. Place(note, Source(t)) \in DOMAIN note /\ note[Place(note, Source(t))] = Source(t)
        BY <3>2, Placed
      <3>5. Place(note, Source(t)) \in Nat /\ note \in Text
        BY <3>4, TextDomain DEF TypeOK
      <3>6. press' \in Pressed
        BY <3>3, <3>5 DEF Pressed
      <3>7. /\ press'.at \in DOMAIN press'.text /\ press'.t = t
            /\ press'.text[press'.at] = Source(t)
        BY <3>3, <3>4
      <3> QED
        BY <2>1, <3>2, <3>6, <3>7 DEF Pressing, Source
    <2>2. CASE Parsed
      <3>1. press \in Pressed /\ press # NoPress
        BY <2>2 DEF Parsed, TypeOK, NoPress
      <3>2. press' = [press EXCEPT !.step = "confirm", !.gate = note] /\ note \in Text
        BY <2>2 DEF Parsed, TypeOK
      <3>3. press' \in Pressed /\ press'.at = press.at /\ press'.t = press.t
            /\ press'.text = press.text
        BY <3>1, <3>2 DEF Pressed
      <3> QED
        BY <1>1, <3>1, <3>3 DEF Pressing, Source, recordVars
    <2>3. CASE NotStarted
      BY <2>3 DEF NotStarted, Pressing
    <2>4. CASE ComeBack \/ GoAway \/ UNCHANGED vars
      <3>1. press' = press
        BY <2>4 DEF ComeBack, GoAway, vars
      <3> QED
        BY <1>1, <3>1 DEF Pressing, TypeOK, Source, recordVars
    <2> QED
      BY <2>1, <2>2, <2>3, <2>4
  <1>5. TypeOK'
    <2>1. past' \in Seq(Text)
      <3>1. past \in Seq(Text) /\ <<>> \in Seq(Text)
        BY DEF TypeOK
      <3>2. past' = past \/ past' = <<>>
        BY <1>1
      <3> QED
        BY <3>1, <3>2
    <2>2. press' \in Pressed \cup {NoPress}
      BY <1>4
    <2> QED
      BY <1>1, <1>3, <2>1, <2>2 DEF TypeOK, recordVars
  <1> QED
    BY <1>1, <1>2, <1>4, <1>5

LEMMA CalmTypes ==
  ASSUME IInv, UNCHANGED <<recordVars, where, press>>, note' \in Text, past' \in Seq(Text),
         merged' \in Seq(1..used), acts' \in 0..MaxActs
  PROVE  TypeOK' /\ Pressing'
  <1>1. Pressing'
    BY DEF IInv, Pressing, recordVars, Source
  <1> QED
    BY <1>1 DEF IInv, TypeOK, recordVars

LEMMA UserEditStep ==
  ASSUME IInv, NEW s \in Text, NEW c \in Cell, c.k # "answer", Made(s, note, c), UserEdits(s)
  PROVE  IInv'
  <1>1. UNCHANGED <<recordVars, where, press, merged>> /\ acts' \in 0..MaxActs /\ Edited(s)
    BY Constants DEF UserEdits, Acts, pageVars, goVars, recordVars, IInv, TypeOK
  <1>2. note' = s /\ past' \in Seq(Text)
        /\ \A i \in DOMAIN past' : past'[i] = note \/ \E j \in DOMAIN past : past'[i] = past[j]
    BY <1>1, EditedTexts DEF IInv
  <1>3. Results' /\ Records' /\ Answers'
    BY <1>1, <1>2, CalmEdit
  <1>4. merged' \in Seq(1..used)
    BY <1>1 DEF IInv, TypeOK
  <1> QED
    BY <1>1, <1>2, <1>3, <1>4, CalmTypes DEF IInv

LEMMA TypeStep == ASSUME IInv, Type PROVE IInv'
  <1>1. PICK i \in 1..(Len(note) + 1) : UserEdits(InsertAt(note, i, Typed(acts)))
    BY DEF Type
  <1>2. note \in Text /\ Len(note) \in Nat /\ acts \in Nat
    BY TextDomain, Constants DEF IInv, TypeOK
  <1>3. Typed(acts) \in Cell /\ Typed(acts).k # "answer"
    BY <1>2 DEF Typed, Cell
  <1> DEFINE c == Typed(acts)
             s == Splice(note, i, i, c)
  <1>4. InsertAt(note, i, c) = s
    BY DEF InsertAt, Splice
  <1>5. i \in i..(Len(note) + 2)
    BY <1>2
  <1> HIDE DEF c
  <1>6. c \in Cell /\ c.k # "answer"
    BY <1>3 DEF c
  <1>7. s \in Text /\ Made(s, note, c)
    BY <1>2, <1>5, <1>6, MadeBySplicing
  <1>8. UserEdits(s)
    BY <1>1, <1>4 DEF c
  <1> HIDE DEF s
  <1> QED
    BY <1>6, <1>7, <1>8, UserEditStep

LEMMA DeleteStep == ASSUME IInv, Delete PROVE IInv'
  <1>1. PICK i \in DOMAIN note : UserEdits(RemoveAt(note, i))
    BY DEF Delete
  <1>2. note \in Text
    BY DEF IInv, TypeOK
  <1>3. PICK c \in Cell : c.k # "answer"
    <2>1. Typed(0) \in Cell /\ Typed(0).k # "answer"
      BY DEF Typed, Cell
    <2> QED
      BY <2>1
  <1>4. RemoveAt(note, i) \in Text /\ Made(RemoveAt(note, i), note, c)
    BY <1>2, MadeByRemoving
  <1> QED
    BY <1>1, <1>3, <1>4, UserEditStep

LEMMA TakeBackStep == ASSUME IInv, TakeBack PROVE IInv'
  <1> DEFINE j == CHOOSE x \in inNote : \A y \in inNote : y <= x
             t == meta[merged[j]].t
             a == Answer(t, merged[j])
  <1>0. note \in Text /\ past \in Seq(Text) /\ merged \in Seq(1..used)
    BY DEF IInv, TypeOK
  <1>1. j \in inNote
    <2> DEFINE n == Len(merged)
               T == {n - x : x \in inNote}
    <2>1. n \in Nat /\ inNote \subseteq 1..n
      BY <1>0 DEF inNote
    <2>2. \A x \in inNote : n - x \in Nat
      BY <2>1
    <2>3. T \subseteq Nat /\ T # {}
      BY <2>2 DEF TakeBack
    <2> HIDE DEF T
    <2>4. PICK m \in T : \A l \in T : m <= l
      BY <2>3, Least
    <2>5. PICK x \in inNote : m = n - x
      BY DEF T
    <2>6. \A y \in inNote : n - x <= n - y
      BY <2>4, <2>5 DEF T
    <2>7. \A y \in inNote : y <= x
      BY <2>1, <2>6
    <2> QED
      BY <2>5, <2>7
  <1>2. j \in 1..Len(merged) /\ In(note, a)
    BY <1>0, <1>1 DEF inNote
  <1>3. merged[j] \in 1..used
    <2> HIDE DEF j, a, t
    <2>1. \A i \in 1..Len(merged) : merged[i] \in 1..used
      BY DEF IInv, TypeOK
    <2> QED
      BY <1>2, <2>1
  <1>4. t \in Targets
    BY <1>3, RunMeta DEF IInv
  <1>5. /\ note' = ReplaceAt(note, Place(note, a), Slot(t))
        /\ merged' = RemoveAt(merged, j)
        /\ past' = Kept(Append(past, note), MaxActs - acts - 1)
        /\ UNCHANGED <<recordVars, where, press>>
        /\ acts < MaxActs /\ acts' = acts + 1
    BY DEF TakeBack, CtrlZ, Acts, goVars, recordVars
  <1> HIDE DEF j, t, a
  <1>6. Place(note, a) \in Int
    BY <1>0, <1>2, Placed, TextDomain
  <1>7. Slot(t) \in Cell /\ Slot(t).k # "answer"
    BY <1>4, Cells DEF Slot
  <1>8. note' \in Text /\ Made(note', note, Slot(t))
    <2> DEFINE i == Place(note, a)
               c == Slot(t)
    <2> HIDE DEF i, c
    <2>1. ReplaceAt(note, i, c) \in Text /\ Made(ReplaceAt(note, i, c), note, c)
      BY <1>0, <1>6, <1>7, MadeByReplacing DEF i, c
    <2> QED
      BY <1>5, <2>1 DEF i, c
  <1>9. merged' \in Seq(1..used)
    <2> DEFINE U == 1..used
    <2>1. merged \in Seq(U)
      BY <1>0
    <2> HIDE DEF U
    <2>2. RemoveAt(merged, j) \in Seq(U)
      BY <1>2, <2>1, Removing
    <2> QED
      BY <1>5, <2>2 DEF U
  <1>10. acts' \in 0..MaxActs /\ MaxActs - acts - 1 \in Nat
    BY <1>5, Constants DEF IInv, TypeOK
  <1>11. /\ past' \in Seq(Text)
         /\ \A i \in DOMAIN past' : past'[i] = note \/ \E l \in DOMAIN past : past'[i] = past[l]
    <2> DEFINE q == Append(past, note)
               m == MaxActs - acts - 1
    <2>1. /\ q \in Seq(Text)
          /\ \A i \in DOMAIN q : q[i] = note \/ \E l \in DOMAIN past : q[i] = past[l]
      BY <1>0
    <2>2. m \in Nat /\ past' = Kept(q, m)
      BY <1>5, <1>10
    <2> HIDE DEF q, m
    <2>3. /\ Kept(q, m) \in Seq(Text)
          /\ \A i \in DOMAIN Kept(q, m) : \E l \in DOMAIN q : Kept(q, m)[i] = q[l]
      BY <2>1, <2>2, KeptTexts
    <2> QED
      BY <2>1, <2>2, <2>3
  <1>12. Results' /\ Records' /\ Answers'
    BY <1>5, <1>7, <1>8, <1>11, CalmEdit
  <1> QED
    BY <1>5, <1>8, <1>9, <1>10, <1>11, <1>12, CalmTypes DEF IInv

LEMMA UndoStep == ASSUME IInv, Undo PROVE IInv'
  <1>0. note \in Text /\ past \in Seq(Text) /\ merged \in Seq(1..used) /\ past # <<>>
    BY DEF IInv, TypeOK, Undo
  <1>1. /\ note' = past[Len(past)] /\ past' = SubSeq(past, 1, Len(past) - 1)
        /\ UNCHANGED <<recordVars, where, press, merged>>
        /\ acts < MaxActs /\ acts' = acts + 1
    BY DEF Undo, CtrlZ, Acts, goVars, recordVars, Last, Front
  <1>2. Len(past) \in Nat \ {0} /\ DOMAIN past = 1..Len(past)
    BY <1>0
  <1>3. note' \in Text /\ Len(past) \in DOMAIN past
    BY <1>0, <1>1, <1>2
  <1>4. past' \in Seq(Text) /\ \A i \in DOMAIN past' : i \in DOMAIN past /\ past'[i] = past[i]
    <2> DEFINE n == Len(past) - 1
               u == SubSeq(past, 1, n)
    <2>1. n \in 0..Len(past)
      BY <1>2
    <2>2. u \in Seq(Text) /\ Len(u) = n /\ \A i \in 1..n : u[i] = past[i]
      BY <1>0, <1>2, <2>1, Part
    <2> HIDE DEF u
    <2>3. DOMAIN u = 1..n
      BY <2>2
    <2>4. past' = u
      BY <1>1 DEF u
    <2> QED
      BY <1>2, <2>2, <2>3, <2>4
  <1>5. acts' \in 0..MaxActs
    BY <1>1, Constants DEF IInv, TypeOK
  <1>6. Answers'
    <2>1. PICK D : D = Done' /\ D = Done
      BY <1>1, CalmStep
    <2>2. Sound(note', D)
      BY <1>1, <1>3, <2>1 DEF IInv, Answers
    <2> QED
      BY <1>4, <2>1, <2>2, AnswersFrom DEF IInv
  <1> QED
    BY <1>0, <1>1, <1>3, <1>4, <1>5, <1>6, CalmStep, CalmTypes DEF IInv

\* Steps of the backend, and a result the page does not wait for.
LEMMA MailTypes ==
  ASSUME IInv, UNCHANGED <<note, past, where, press, used, meta, pending, canceled, task,
                           queue, merged, acts>>,
         go' \in [Runs -> {"none", "queued", "running", "ended"}],
         mail' \subseteq (1..used) \X {"answer", "problem", "canceled"}
  PROVE  TypeOK' /\ Pressing' /\ Keeps(note, note')
  <1>1. Pressing'
    BY DEF IInv, Pressing, Source
  <1>2. Keeps(note, note')
    BY DEF Keeps
  <1> QED
    BY <1>1, <1>2 DEF IInv, TypeOK

LEMMA RegisterStep ==
  ASSUME IInv, NEW r \in 1..used, Register(r)
  PROVE  IInv' /\ Keeps(note, note')
  <1>1. /\ UNCHANGED <<note, past, where, press, used, meta, pending, canceled, task, queue,
                       merged, acts, mail>>
        /\ go[r] = "queued" /\ go' = [go EXCEPT ![r] = "running"]
    BY DEF Register, noteVars, pageVars, userVars
  <1>2. go \in [Runs -> {"none", "queued", "running", "ended"}] /\ r \in Runs
    BY RunMeta DEF IInv, TypeOK
  <1>3. /\ go' \in [Runs -> {"none", "queued", "running", "ended"}]
        /\ \A q \in Runs : go'[q] = "ended" <=> go[q] = "ended"
        /\ \A q \in Runs : go'[q] = "none" <=> go[q] = "none"
    BY <1>1, <1>2
  <1>4. \A q : Queued(q)' = Queued(q) /\ Posted(q)' = Posted(q) /\ KindOf(q)' = KindOf(q)
    BY <1>1 DEF Queued, Posted, KindOf
  <1>5. \A q \in 1..used : q \in Runs
    BY RunMeta DEF IInv
  <1>6. Results'
    <2>1. \A m \in mail : m[1] \in Runs
      BY <1>5 DEF IInv, TypeOK
    <2> QED
      BY <1>1, <1>3, <1>4, <1>5, <2>1 DEF IInv, Results, Runs
  <1>7. Records'
    <2>1. \A q \in 1..used : Held(q)'
      BY <1>1, <1>3, <1>4, <1>5 DEF IInv, Records, Held
    <2> QED
      BY <1>1, <2>1 DEF Records
  <1>8. Done' = Done
    BY <1>1, <1>3, <1>4, <1>5 DEF Done
  <1>9. Answers'
    BY <1>1, <1>8 DEF IInv, Answers
  <1> QED
    BY <1>1, <1>3, <1>6, <1>7, <1>9, MailTypes DEF IInv, TypeOK

LEMMA EndsStep ==
  ASSUME IInv, NEW r \in 1..used, Ends(r)
  PROVE  IInv' /\ Keeps(note, note')
  <1>1. /\ UNCHANGED <<note, past, where, press, used, meta, pending, canceled, task, queue,
                       merged, acts>>
        /\ go[r] \in {"queued", "running"} /\ go' = [go EXCEPT ![r] = "ended"]
        /\ mail' = mail \cup {<<r, Outcome(r)>>}
    BY DEF Ends, noteVars, pageVars, userVars
  <1>2. go \in [Runs -> {"none", "queued", "running", "ended"}] /\ r \in Runs
    BY RunMeta DEF IInv, TypeOK
  <1>3. /\ go' \in [Runs -> {"none", "queued", "running", "ended"}]
        /\ go'[r] = "ended" /\ \A q \in Runs : q # r => go'[q] = go[q]
    BY <1>1, <1>2
  <1>4. \A q : Queued(q)' = Queued(q) /\ KindOf(q)' = KindOf(q)
    BY <1>1 DEF Queued, KindOf
  <1>5. \A q \in 1..used : q \in Runs
    BY RunMeta DEF IInv
  <1>6. ~Posted(r) /\ ~Queued(r) /\ Posted(r)' /\ \A q : q # r => Posted(q)' = Posted(q)
    <2>1. ~Posted(r) /\ ~Queued(r)
      <3>1. go[r] # "ended"
        BY <1>1
      <3> QED
        BY <3>1 DEF IInv, Results, Posted
    <2>2. Posted(r)'
      <3>1. <<r, Outcome(r)>> \in mail' /\ <<r, Outcome(r)>>[1] = r
        BY <1>1
      <3> QED
        BY <3>1 DEF Posted
    <2>3. \A q : q # r => Posted(q)' = Posted(q)
      BY <1>1 DEF Posted
    <2> QED
      BY <2>1, <2>2, <2>3
  <1>7. mail' \subseteq (1..used) \X {"answer", "problem", "canceled"}
    BY <1>1 DEF IInv, TypeOK, Outcome
  <1>8. Results'
    <2>1. \A m \in mail : m[1] \in Runs /\ m[1] # r
      BY <1>1, <1>5 DEF IInv, TypeOK, Results
    <2>2. \A q \in Runs : q > used' => go'[q] = "none"
      BY <1>1, <1>2, <1>3, Constants DEF IInv, Results, TypeOK, Runs
    <2>3. \A m \in mail' : go'[m[1]] = "ended"
      BY <1>1, <1>3, <2>1 DEF IInv, Results
    <2>4. \A m, o \in mail' : m[1] = o[1] => m = o
      BY <1>1, <2>1 DEF IInv, Results
    <2>5. \A q \in 1..used' : Queued(q)' => go'[q] = "ended" /\ ~Posted(q)' /\ KindOf(q)' = "slot"
      BY <1>1, <1>3, <1>4, <1>5, <1>6 DEF IInv, Results
    <2>6. \A i, j \in DOMAIN queue' : queue'[i] = queue'[j] => i = j
      BY <1>1 DEF IInv, Results
    <2> QED
      BY <2>2, <2>3, <2>4, <2>5, <2>6 DEF Results, Runs
  <1>9. Records'
    <2>1. \A q \in 1..used : Held(q)'
      BY <1>1, <1>3, <1>4, <1>5, <1>6 DEF IInv, Records, Held
    <2> QED
      BY <1>1, <2>1 DEF Records
  <1>10. Done \subseteq Done'
    BY <1>1, <1>3, <1>4, <1>5, <1>6 DEF Done
  <1>11. Answers'
    <2>1. PICK D : D = Done'
      OBVIOUS
    <2>2. Sound(note', D)
      BY <1>1, <1>10, <2>1, SoundMore DEF IInv, Answers
    <2> QED
      BY <1>1, <1>10, <2>1, <2>2, AnswersFrom DEF IInv
  <1> QED
    BY <1>1, <1>3, <1>7, <1>8, <1>9, <1>11, MailTypes DEF IInv

LEMMA MailGone ==
  ASSUME IInv, mail' \subseteq mail
  PROVE  \A r : Posted(r)' => Posted(r)
  BY DEF Posted

LEMMA IgnoredStep ==
  ASSUME IInv, mail' \subseteq mail,
         UNCHANGED <<note, past, where, press, used, meta, pending, canceled, task, queue, go,
                     merged, acts>>
  PROVE  IInv' /\ Keeps(note, note')
  <1>1. \A q : Queued(q)' = Queued(q) /\ KindOf(q)' = KindOf(q) /\ (Posted(q)' => Posted(q))
    BY MailGone DEF Queued, KindOf
  <1>2. Results'
    BY <1>1 DEF IInv, Results, Runs
  <1>3. Records'
    <2>1. \A q \in 1..used : Held(q)'
      BY <1>1 DEF IInv, Records, Held
    <2> QED
      BY <2>1 DEF Records
  <1>4. Done \subseteq Done'
    BY <1>1 DEF Done
  <1>5. Answers'
    <2>1. PICK D : D = Done'
      OBVIOUS
    <2>2. Sound(note', D)
      BY <1>4, <2>1, SoundMore DEF IInv, Answers
    <2> QED
      BY <1>4, <2>1, <2>2, AnswersFrom DEF IInv
  <1>6. /\ go' \in [Runs -> {"none", "queued", "running", "ended"}]
        /\ mail' \subseteq (1..used) \X {"answer", "problem", "canceled"}
    BY DEF IInv, TypeOK
  <1> QED
    BY <1>2, <1>3, <1>5, <1>6, MailTypes DEF IInv

\* The page forgets a run: a cancel, an error, a run that was stopped.
Forgets(r, status) ==
    /\ r \in pending
    /\ status \in {"canceled", "failed"}
    /\ \E s \in Text, c \in Cell :
          /\ Edited(s) /\ Made(s, note, c) /\ c.k # "answer" /\ Keeps(note, s)
    /\ pending' = pending \ {r}
    /\ canceled' = IF KindOf(r) = "slot" THEN canceled \cup {r} ELSE canceled
    /\ updateTask(r, status)
    /\ mail' \subseteq mail
    /\ UNCHANGED <<where, meta, used, queue, merged, go, acts, press>>

LEMMA ForgetText ==
  ASSUME IInv, NEW r \in 1..used, NEW status, Forget(r, status)
  PROVE  \E s \in Text, c \in Cell :
            Edited(s) /\ Made(s, note, c) /\ c.k # "answer" /\ Keeps(note, s)
  <1>1. Slot(meta[r].t) \in Cell /\ Slot(meta[r].t).k # "answer"
    BY RunMeta DEF IInv, Slot
  <1>2. CASE KindOf(r) = "slot"
    BY <1>1, <1>2, RestoreText DEF Forget, PageEdits, IInv
  <1>3. CASE KindOf(r) # "slot"
    BY <1>1, <1>3, DropText DEF Forget, PageEdits, IInv
  <1> QED
    BY <1>2, <1>3

\* The page's parts of TypeOK after an edit of its own.
LEMMA PageTypes ==
  ASSUME IInv, NEW s \in Text, Edited(s),
         UNCHANGED <<where, meta, used, go, acts, press>>, mail' \subseteq mail,
         pending' \subseteq 1..used, canceled' \subseteq 1..used,
         task' \in [Runs -> {"none", "running", "completed", "canceled", "failed"}],
         queue' \in Seq(1..used), merged' \in Seq(1..used)
  PROVE  TypeOK' /\ Pressing'
  <1>1. Pressing'
    BY DEF IInv, Pressing, Source
  <1>2. note' \in Text /\ past' \in Seq(Text)
    BY EditedTexts DEF IInv
  <1> QED
    BY <1>1, <1>2 DEF IInv, TypeOK

LEMMA TaskUpdate ==
  ASSUME IInv, NEW r \in 1..used, NEW status \in {"completed", "canceled", "failed"},
         updateTask(r, status)
  PROVE  /\ task' \in [Runs -> {"none", "running", "completed", "canceled", "failed"}]
         /\ task'[r] = IF task[r] = "running" THEN status ELSE task[r]
         /\ \A q \in Runs : q # r => task'[q] = task[q]
  <1>1. r \in Runs
    BY RunMeta DEF IInv
  <1> QED
    BY <1>1 DEF IInv, TypeOK, updateTask

LEMMA ForgetsStep ==
  ASSUME IInv, NEW r \in 1..used, NEW status, Forgets(r, status)
  PROVE  IInv' /\ Keeps(note, note')
  <1>0. PICK s \in Text, c \in Cell :
          Edited(s) /\ Made(s, note, c) /\ c.k # "answer" /\ Keeps(note, s)
    BY DEF Forgets
  <1>1. /\ r \in pending /\ pending' = pending \ {r}
        /\ canceled' = IF KindOf(r) = "slot" THEN canceled \cup {r} ELSE canceled
        /\ mail' \subseteq mail /\ status \in {"canceled", "failed"}
        /\ UNCHANGED <<where, meta, used, queue, merged, go, acts, press>>
    BY DEF Forgets
  <1>2. /\ task' \in [Runs -> {"none", "running", "completed", "canceled", "failed"}]
        /\ task'[r] = IF task[r] = "running" THEN status ELSE task[r]
        /\ \A q \in Runs : q # r => task'[q] = task[q]
    BY <1>1, TaskUpdate DEF Forgets
  <1>3. \A q : Queued(q)' = Queued(q) /\ KindOf(q)' = KindOf(q) /\ (Posted(q)' => Posted(q))
    BY <1>1, MailGone DEF Queued, KindOf
  <1>4. \A q \in 1..used : q \in Runs
    BY RunMeta DEF IInv
  <1>5. note' = s
        /\ \A i \in DOMAIN past' : past'[i] = note \/ \E j \in DOMAIN past : past'[i] = past[j]
    BY <1>0, EditedTexts DEF IInv
  <1>6. TypeOK' /\ Pressing'
    <2>1. /\ pending' \subseteq 1..used /\ canceled' \subseteq 1..used
          /\ queue' \in Seq(1..used) /\ merged' \in Seq(1..used)
      BY <1>1 DEF IInv, TypeOK
    <2> QED
      BY <1>0, <1>1, <1>2, <2>1, PageTypes
  <1>7. Results'
    BY <1>1, <1>3 DEF IInv, Results, Runs
  <1>8. Records'
    <2>1. \A q \in 1..used : Held(q)
      BY DEF IInv, Records
    <2>2. Queued(r) => KindOf(r) = "slot"
      BY DEF IInv, Results
    <2>3. Held(r)'
      BY <1>1, <1>2, <1>3, <2>1, <2>2 DEF Held
    <2>4. ASSUME NEW q \in 1..used, q # r PROVE Held(q)'
      BY <1>1, <1>2, <1>3, <1>4, <2>1, <2>4 DEF Held
    <2>5. \A q \in 1..used' : Held(q)'
      BY <1>1, <2>3, <2>4
    <2> QED
      BY <2>5 DEF Records
  <1>9. Done \subseteq Done'
    <2> SUFFICES ASSUME NEW q \in Done PROVE q \in Done'
      OBVIOUS
    <2>1. q # r /\ q \in 1..used
      BY <1>1 DEF Done
    <2> QED
      BY <1>1, <1>2, <1>3, <1>4, <2>1 DEF Done
  <1>10. Answers'
    <2>1. PICK D : D = Done'
      OBVIOUS
    <2>2. Sound(s, D)
      BY <1>0, <1>9, <2>1, MadeSound DEF IInv, Answers, TypeOK
    <2> QED
      BY <1>5, <1>9, <2>1, <2>2, AnswersFrom DEF IInv
  <1> QED
    BY <1>0, <1>5, <1>6, <1>7, <1>8, <1>10 DEF IInv

LEMMA AnsweredStep ==
  ASSUME IInv, NEW r \in 1..used, NEW status \in {"completed", "failed"},
         r \in pending, KindOf(r) # "slot", Answered(r, status),
         mail' \subseteq mail, UNCHANGED <<go, acts, press>>
  PROVE  IInv' /\ Keeps(note, note')
  <1> DEFINE s == applyAnchorReplacement(r)
  <1>1. /\ pending' = pending \ {r}
        /\ UNCHANGED <<where, meta, used, canceled, queue, merged>>
        /\ Edited(s)
    BY DEF Answered, PageEdits
  <1>c. PICK c : c = Answer(meta[r].t, r)
    OBVIOUS
  <1>0. /\ s \in Text /\ Made(s, note, c) /\ Keeps(note, s)
        /\ c \in Cell /\ c.r = r
    BY <1>c, AnswerText, RunMeta DEF IInv, Answer
  <1> HIDE DEF s
  <1>2. /\ task' \in [Runs -> {"none", "running", "completed", "canceled", "failed"}]
        /\ task'[r] = IF task[r] = "running" THEN status ELSE task[r]
        /\ \A q \in Runs : q # r => task'[q] = task[q]
    BY TaskUpdate DEF Answered
  <1>3. \A q : Queued(q)' = Queued(q) /\ KindOf(q)' = KindOf(q) /\ (Posted(q)' => Posted(q))
    BY <1>1, MailGone DEF Queued, KindOf
  <1>4. \A q \in 1..used : q \in Runs
    BY RunMeta DEF IInv
  <1>5. note' = s
        /\ \A i \in DOMAIN past' : past'[i] = note \/ \E j \in DOMAIN past : past'[i] = past[j]
    BY <1>0, <1>1, EditedTexts DEF IInv
  <1>6. TypeOK' /\ Pressing'
    <2>1. /\ pending' \subseteq 1..used /\ canceled' \subseteq 1..used
          /\ queue' \in Seq(1..used) /\ merged' \in Seq(1..used)
      BY <1>1 DEF IInv, TypeOK
    <2> QED
      BY <1>0, <1>1, <1>2, <2>1, PageTypes
  <1>7. Results'
    BY <1>1, <1>3 DEF IInv, Results, Runs
  <1>r. task[r] = "running" /\ ~Queued(r)
    BY DEF IInv, Records, Held, Results
  <1>8. Records'
    <2>1. \A q \in 1..used : Held(q)
      BY DEF IInv, Records
    <2>3. Held(r)'
      BY <1>1, <1>2, <1>3, <1>r, <2>1 DEF Held
    <2>4. ASSUME NEW q \in 1..used, q # r PROVE Held(q)'
      BY <1>1, <1>2, <1>3, <1>4, <2>1, <2>4 DEF Held
    <2>5. \A q \in 1..used' : Held(q)'
      BY <1>1, <2>3, <2>4
    <2> QED
      BY <2>5 DEF Records
  <1>9. Done \subseteq Done' /\ r \in Done' /\ r \notin Done
    <2>1. ASSUME NEW q \in Done PROVE q \in Done'
      <3>1. q # r /\ q \in 1..used
        BY <2>1 DEF Done
      <3> QED
        BY <1>1, <1>2, <1>3, <1>4, <2>1, <3>1 DEF Done
    <2>2. r \in Done'
      BY <1>1, <1>2, <1>3, <1>r DEF Done
    <2> QED
      BY <2>1, <2>2 DEF Done
  <1>10. Answers'
    <2>1. PICK D : D = Done'
      OBVIOUS
    <2>2. Sound(note, Done) /\ note \in Text
      BY DEF IInv, Answers, TypeOK
    <2>3. Sound(s, D)
      BY <1>0, <1>9, <2>1, <2>2, MadeSound
    <2> QED
      BY <1>5, <1>9, <2>1, <2>3, AnswersFrom DEF IInv
  <1> QED
    BY <1>0, <1>5, <1>6, <1>7, <1>8, <1>10 DEF IInv

\* All the merges of a queue at once; the run that came last may just have ended.
LEMMA MergesStep ==
  ASSUME IInv, NEW rs \in Seq(1..used), processPendingMerges(rs),
         UNCHANGED <<where, meta, used, canceled, go, acts, press>>, mail' \subseteq mail,
         task' \in [Runs -> {"none", "running", "completed", "canceled", "failed"}],
         \A q \in 1..used : \/ task'[q] = task[q]
                            \/ task'[q] = "completed" /\ \E j \in DOMAIN rs : rs[j] = q,
         \A i, j \in DOMAIN rs : rs[i] = rs[j] => i = j,
         \A q \in 1..used : Queued(q) => \E j \in DOMAIN rs : rs[j] = q,
         \A j \in DOMAIN rs : /\ KindOf(rs[j]) = "slot" /\ go[rs[j]] = "ended"
                              /\ task'[rs[j]] # "running" /\ ~Posted(rs[j])'
                              /\ rs[j] \notin Done
  PROVE  IInv' /\ Keeps(note, note')
  <1> DEFINE S0 == [note |-> note, pending |-> pending, merged |-> merged]
             S == applyMerges(S0, rs)
             M == Merging(rs, Len(rs))
  <1>0. DOMAIN rs = 1..Len(rs) /\ \A j \in DOMAIN rs : rs[j] \in 1..used /\ rs[j] \in Runs
    <2>1. DOMAIN rs = 1..Len(rs) /\ \A j \in DOMAIN rs : rs[j] \in 1..used
      BY Elements
    <2>2. \A q \in 1..used : q \in Runs
      BY RunMeta DEF IInv
    <2> QED
      BY <2>1, <2>2
  <1>1. Edited(S.note) /\ pending' = S.pending /\ merged' = S.merged /\ queue' = <<>>
    BY DEF processPendingMerges
  <1>2. /\ S \in Page /\ S.pending = pending \ M
        /\ Sound(S.note, Done \cup M) /\ Keeps(note, S.note)
    <2>1. S0 \in Page /\ S0.note = note /\ S0.pending = pending
      BY RunMeta DEF Page, IInv, TypeOK
    <2>2. Sound(note, Done)
      BY DEF IInv, Answers
    <2> HIDE DEF S0
    <2> QED
      BY <2>1, <2>2, AllMerges DEF IInv
  <1>3. PICK s \in Text : s = S.note
    BY <1>2 DEF Page
  <1>4. merged' \in Seq(1..used)
    BY <1>1, <1>2 DEF Page
  <1> HIDE DEF S, S0
  <1>5. \A q : q \in M <=> q \in Runs \ canceled /\ \E j \in DOMAIN rs : rs[j] = q
    BY <1>0 DEF Merging
  <1> HIDE DEF M
  <1>6. \A q \in 1..used : q \in Runs /\ KindOf(q)' = KindOf(q) /\ (Posted(q)' => Posted(q))
    BY RunMeta, MailGone DEF IInv, KindOf
  <1>7. \A q : ~Queued(q)'
    BY <1>1 DEF Queued
  <1>8. note' = s
        /\ \A i \in DOMAIN past' : past'[i] = note \/ \E j \in DOMAIN past : past'[i] = past[j]
    BY <1>1, <1>3, EditedTexts DEF IInv
  <1>9. TypeOK' /\ Pressing'
    <2>0. queue' \in Seq(1..used)
      BY <1>1
    <2>1. pending' \subseteq 1..used /\ canceled' \subseteq 1..used /\ queue' \in Seq(1..used)
      BY <1>1, <1>2, <2>0 DEF IInv, TypeOK
    <2> QED
      BY <1>1, <1>3, <1>4, <2>1, PageTypes
  <1>10. Results'
    <2>1. \A q \in Runs : q > used' => go'[q] = "none"
      BY DEF IInv, Results
    <2>2. \A m \in mail' : go'[m[1]] = "ended"
      BY DEF IInv, Results
    <2>3. \A m, o \in mail' : m[1] = o[1] => m = o
      BY DEF IInv, Results
    <2>4. \A i, j \in DOMAIN queue' : queue'[i] = queue'[j] => i = j
      BY <1>1
    <2> QED
      BY <1>7, <2>1, <2>2, <2>3, <2>4 DEF Results, Runs
  <1>11. Records'
    <2>0. \A q \in 1..used : Held(q)
      BY DEF IInv, Records
    <2>1. ASSUME NEW q \in 1..used, NEW j \in DOMAIN rs, rs[j] = q PROVE Held(q)'
      <3>1. task'[q] # "running" /\ ~Posted(q)' /\ go'[q] = "ended"
        BY <2>1
      <3>2. q \notin pending'
        <4>1. CASE q \in canceled
          BY <1>1, <1>2, <2>0, <4>1 DEF Held
        <4>2. CASE q \notin canceled
          BY <1>1, <1>2, <1>5, <1>6, <2>1, <4>2
        <4> QED
          BY <4>1, <4>2
      <3>3. q \in canceled => KindOf(q) = "slot"
        BY <2>0 DEF Held
      <3>4. KindOf(q) = "slot" /\ task'[q] = "canceled" => q \in canceled
        BY <2>0 DEF Held
      <3> QED
        BY <1>6, <1>7, <3>1, <3>2, <3>3, <3>4 DEF Held
    <2>2. ASSUME NEW q \in 1..used, ~\E j \in DOMAIN rs : rs[j] = q PROVE Held(q)'
      <3>1. task'[q] = task[q] /\ ~Queued(q) /\ (q \in pending' <=> q \in pending)
        BY <1>1, <1>2, <1>5, <2>2
      <3> QED
        BY <1>6, <1>7, <2>0, <3>1 DEF Held
    <2>3. \A q \in 1..used' : Held(q)'
      BY <2>1, <2>2
    <2> QED
      BY <2>3 DEF Records
  <1>12. Done \cup M \subseteq Done'
    <2>1. ASSUME NEW q \in Done PROVE q \in Done'
      <3>1. q \in 1..used /\ q \notin pending' /\ task'[q] \notin {"running", "canceled"}
        BY <1>1, <1>2 DEF Done
      <3> QED
        BY <1>6, <1>7, <3>1 DEF Done
    <2>2. ASSUME NEW q \in M PROVE q \in Done'
      <3>1. PICK j \in DOMAIN rs : rs[j] = q
        BY <1>5, <2>2
      <3>2. q \in 1..used /\ q \notin canceled /\ q \notin pending'
        BY <1>0, <1>1, <1>2, <1>5, <2>2, <3>1
      <3>3. task'[q] \notin {"running", "canceled"}
        BY <3>1, <3>2 DEF IInv, Records, Held
      <3> QED
        BY <1>6, <1>7, <3>1, <3>2, <3>3 DEF Done
    <2> QED
      BY <2>1, <2>2
  <1>13. Answers'
    <2>1. PICK D : D = Done'
      OBVIOUS
    <2>2. Sound(s, D)
      BY <1>2, <1>3, <1>12, <2>1, SoundMore
    <2> QED
      BY <1>8, <1>12, <2>1, <2>2, AnswersFrom DEF IInv
  <1> QED
    BY <1>2, <1>3, <1>8, <1>9, <1>10, <1>11, <1>13 DEF IInv

\* An answer of a slot: merged at once, or queued until the typing stops.
LEMMA EnqueueStep ==
  ASSUME IInv, NEW r \in 1..used, <<r, "answer">> \in mail, KindOf(r) = "slot", Enqueue(r),
         mail' = mail \ {<<r, "answer">>}, UNCHANGED <<go, acts, press>>
  PROVE  IInv' /\ Keeps(note, note')
  <1>1. UNCHANGED <<where, meta, used, canceled>>
    BY DEF Enqueue
  <1>2. r \in Runs /\ \A q \in 1..used : q \in Runs
    BY RunMeta DEF IInv
  <1>3. Posted(r) /\ ~Queued(r) /\ go[r] = "ended" /\ ~Posted(r)' /\ r \notin Done
    <2>1. Posted(r) /\ go[r] = "ended"
      BY DEF Posted, IInv, Results
    <2>2. ~Queued(r)
      BY <2>1 DEF IInv, Results
    <2>3. ~Posted(r)'
      BY DEF Posted, IInv, Results
    <2>4. r \notin Done
      BY <2>1 DEF Done
    <2> QED
      BY <2>1, <2>2, <2>3, <2>4
  <1>4. /\ task' \in [Runs -> {"none", "running", "completed", "canceled", "failed"}]
        /\ task'[r] = IF task[r] = "running" THEN "completed" ELSE task[r]
        /\ \A q \in Runs : q # r => task'[q] = task[q]
    BY TaskUpdate DEF Enqueue
  <1>5. queue \in Seq(1..used) /\ Len(queue) \in Nat /\ DOMAIN queue = 1..Len(queue)
    BY DEF IInv, TypeOK
  <1>p. PICK rs : rs = Append(queue, r)
    OBVIOUS
  <1>6. /\ rs \in Seq(1..used) /\ DOMAIN rs = 1..(Len(queue) + 1)
        /\ rs[Len(queue) + 1] = r /\ \A j \in DOMAIN queue : rs[j] = queue[j]
    BY <1>5, <1>p
  <1>7. \A j \in DOMAIN rs : j = Len(queue) + 1 \/ j \in DOMAIN queue
    BY <1>5, <1>6
  <1>8. \A i, j \in DOMAIN rs : rs[i] = rs[j] => i = j
    <2>1. \A j \in DOMAIN queue : queue[j] # r
      BY <1>3 DEF Queued
    <2>2. \A i, j \in DOMAIN queue : queue[i] = queue[j] => i = j
      BY DEF IInv, Results
    <2> QED
      BY <1>6, <1>7, <2>1, <2>2
  <1>9. \A q \in 1..used : Queued(q) => \E j \in DOMAIN rs : rs[j] = q
    <2>1. DOMAIN queue \subseteq DOMAIN rs
      BY <1>5, <1>6
    <2> QED
      BY <1>6, <2>1 DEF Queued
  <1>m. mail' \subseteq mail
    OBVIOUS
  <1>10. CASE idle
    <2>1. processPendingMerges(rs)
      BY <1>10, <1>p DEF Enqueue
    <2>2. \A q \in 1..used : \/ task'[q] = task[q]
                             \/ task'[q] = "completed" /\ \E j \in DOMAIN rs : rs[j] = q
      <3>1. Len(queue) + 1 \in DOMAIN rs
        BY <1>5, <1>6
      <3> QED
        BY <1>2, <1>4, <1>6, <3>1
    <2>3. ASSUME NEW j \in DOMAIN rs
          PROVE  /\ KindOf(rs[j]) = "slot" /\ go[rs[j]] = "ended"
                 /\ task'[rs[j]] # "running" /\ ~Posted(rs[j])'
                 /\ rs[j] \notin Done
      <3>1. CASE rs[j] = r
        BY <1>3, <1>4, <3>1
      <3>2. CASE rs[j] # r
        <4>1. PICK q \in 1..used : q = rs[j] /\ Queued(q)
          <5>1. j \in DOMAIN queue /\ rs[j] = queue[j]
            BY <1>6, <1>7, <3>2
          <5>2. queue[j] \in 1..used
            BY <1>5, <5>1, Elements
          <5> QED
            BY <5>1, <5>2 DEF Queued
        <4>2. KindOf(q) = "slot" /\ go[q] = "ended" /\ ~Posted(q) /\ q \notin Done
          BY <4>1 DEF IInv, Results, Done
        <4>3. task'[q] # "running"
          BY <1>2, <1>4, <3>2, <4>1 DEF IInv, Records, Held
        <4>4. ~Posted(q)'
          BY <1>m, <4>2, MailGone
        <4> QED
          BY <4>1, <4>2, <4>3, <4>4
      <3> QED
        BY <3>1, <3>2
    <2> QED
      BY <1>1, <1>m, <1>4, <1>6, <1>8, <1>9, <2>1, <2>2, <2>3, MergesStep
  <1>11. CASE ~idle
    <2>1. queue' = rs /\ UNCHANGED <<note, past, pending, merged>>
      BY <1>11, <1>p DEF Enqueue
    <2>2. Queued(r)' /\ \A q : q # r => Queued(q)' = Queued(q)
      <3>1. Len(queue) + 1 \in DOMAIN rs
        BY <1>5, <1>6
      <3>2. Queued(r)'
        BY <1>6, <2>1, <3>1 DEF Queued
      <3>3. DOMAIN queue \subseteq DOMAIN rs
        BY <1>5, <1>6
      <3>4. \A q : q # r => Queued(q)' = Queued(q)
        BY <1>6, <1>7, <2>1, <3>3 DEF Queued
      <3> QED
        BY <3>2, <3>4
    <2>3. \A q : KindOf(q)' = KindOf(q) /\ (Posted(q)' => Posted(q))
      BY <1>1, <1>m, MailGone DEF KindOf
    <2>4. Results'
      <3>1. \A q \in Runs : q > used' => go'[q] = "none"
        BY <1>1 DEF IInv, Results
      <3>2. \A m \in mail' : go'[m[1]] = "ended"
        BY <1>m DEF IInv, Results
      <3>3. \A m, o \in mail' : m[1] = o[1] => m = o
        BY <1>m DEF IInv, Results
      <3>4. \A q \in 1..used' : Queued(q)' => go'[q] = "ended" /\ ~Posted(q)' /\ KindOf(q)' = "slot"
        BY <1>1, <1>3, <2>2, <2>3 DEF IInv, Results
      <3> QED
        BY <1>8, <2>1, <3>1, <3>2, <3>3, <3>4 DEF Results, Runs
    <2>5. Records'
      <3>1. \A q \in 1..used : Held(q)
        BY DEF IInv, Records
      <3>2. Held(r)'
        BY <1>1, <1>3, <1>4, <2>1, <2>2, <2>3, <3>1 DEF Held
      <3>3. ASSUME NEW q \in 1..used, q # r PROVE Held(q)'
        BY <1>1, <1>2, <1>4, <2>1, <2>2, <2>3, <3>1, <3>3 DEF Held
      <3>4. \A q \in 1..used' : Held(q)'
        BY <1>1, <3>2, <3>3
      <3> QED
        BY <3>4 DEF Records
    <2>6. Done \subseteq Done'
      <3> SUFFICES ASSUME NEW q \in Done PROVE q \in Done'
        OBVIOUS
      <3>1. q # r /\ q \in 1..used
        BY <1>3 DEF Done
      <3> QED
        BY <1>1, <1>2, <1>4, <2>1, <2>2, <2>3, <3>1 DEF Done
    <2>7. Answers'
      <3>1. PICK D : D = Done'
        OBVIOUS
      <3>2. Sound(note', D)
        BY <2>1, <2>6, <3>1, SoundMore DEF IInv, Answers
      <3> QED
        BY <2>1, <2>6, <3>1, <3>2, AnswersFrom DEF IInv
    <2>8. TypeOK' /\ Pressing' /\ Keeps(note, note')
      <3>1. Pressing'
        BY <1>1 DEF IInv, Pressing, Source
      <3>2. queue' \in Seq(1..used)
        BY <1>6, <2>1
      <3>3. TypeOK'
        BY <1>1, <1>4, <2>1, <3>2 DEF IInv, TypeOK
      <3> QED
        BY <2>1, <3>1, <3>3 DEF Keeps
    <2> QED
      BY <2>4, <2>5, <2>7, <2>8 DEF IInv
  <1> QED
    BY <1>10, <1>11

LEMMA TypingStopsStep ==
  ASSUME IInv, TypingStops
  PROVE  IInv' /\ Keeps(note, note')
  <1>1. UNCHANGED <<where, meta, used, canceled, task, go, mail, acts, press>>
    BY DEF TypingStops, goVars, userVars
  <1>2. CASE queue = <<>>
    <2>1. UNCHANGED <<note, past, pending, merged, queue>>
      BY <1>2 DEF TypingStops
    <2> QED
      BY <1>1, <2>1, IgnoredStep
  <1>3. CASE queue # <<>>
    <2>0. PICK rs : rs = queue
      OBVIOUS
    <2>1. processPendingMerges(rs)
      BY <1>3, <2>0 DEF TypingStops
    <2>2. rs \in Seq(1..used)
      BY <2>0 DEF IInv, TypeOK
    <2>3. \A i, j \in DOMAIN rs : rs[i] = rs[j] => i = j
      BY <2>0 DEF IInv, Results
    <2>4. ASSUME NEW j \in DOMAIN rs
          PROVE  /\ KindOf(rs[j]) = "slot" /\ go[rs[j]] = "ended"
                 /\ task'[rs[j]] # "running" /\ ~Posted(rs[j])'
                 /\ rs[j] \notin Done
      <3>1. PICK q \in 1..used : q = rs[j] /\ Queued(q)
        BY <2>0, <2>2, Elements DEF Queued
      <3>2. KindOf(q) = "slot" /\ go[q] = "ended" /\ ~Posted(q) /\ q \notin Done
        BY <3>1 DEF IInv, Results, Done
      <3>3. task[q] # "running"
        BY <3>1 DEF IInv, Records, Held
      <3>4. ~Posted(q)'
        BY <1>1, <3>2 DEF Posted
      <3> QED
        BY <1>1, <3>1, <3>2, <3>3, <3>4
    <2>5. task' \in [Runs -> {"none", "running", "completed", "canceled", "failed"}]
      BY <1>1 DEF IInv, TypeOK
    <2>6. \A q \in 1..used : Queued(q) => \E j \in DOMAIN rs : rs[j] = q
      BY <2>0 DEF Queued
    <2> QED
      BY <1>1, <2>1, <2>2, <2>3, <2>4, <2>5, <2>6, MergesStep
  <1> QED
    BY <1>2, <1>3

LEMMA DeliverStep ==
  ASSUME IInv, NEW r, NEW out, Deliver(r, out)
  PROVE  IInv' /\ Keeps(note, note')
  <1>1. /\ <<r, out>> \in mail /\ mail' = mail \ {<<r, out>>} /\ mail' \subseteq mail
        /\ UNCHANGED <<go, acts, press>>
    BY DEF Deliver, userVars
  <1>2. r \in 1..used
    BY <1>1 DEF IInv, TypeOK
  <1>3. CASE out # "answer" /\ awaited(r)
            /\ Forget(r, IF out = "problem" THEN "failed" ELSE "canceled")
    <2>1. PICK status \in {"canceled", "failed"} : Forget(r, status)
      BY <1>3
    <2>2. Forgets(r, status)
      BY <1>1, <1>2, <1>3, <2>1, ForgetText DEF Forgets, Forget, awaited
    <2> QED
      BY <1>2, <2>2, ForgetsStep
  <1>4. CASE out = "answer" /\ KindOf(r) = "slot" /\ Enqueue(r)
    BY <1>1, <1>2, <1>4, EnqueueStep
  <1>5. CASE KindOf(r) # "slot" /\ awaited(r) /\ Answered(r, "completed")
    BY <1>1, <1>2, <1>5, AnsweredStep DEF awaited
  <1>6. CASE UNCHANGED <<noteVars, pageVars, killed, idle>>
    BY <1>1, <1>6, IgnoredStep DEF noteVars, pageVars
  <1> QED
    BY <1>3, <1>4, <1>5, <1>6 DEF Deliver

LEMMA CancelStep ==
  ASSUME IInv, NEW r \in 1..used, Cancel(r)
  PROVE  IInv' /\ Keeps(note, note')
  <1>1. Forgets(r, "canceled")
    BY ForgetText DEF Cancel, Forgets, Forget, userVars
  <1> QED
    BY <1>1, ForgetsStep

LEMMA TimesOutStep ==
  ASSUME IInv, NEW r \in 1..used, TimesOut(r)
  PROVE  IInv' /\ Keeps(note, note')
  <1>1. KindOf(r) # "slot" /\ r \in pending /\ Answered(r, "failed") /\ mail' \subseteq mail
        /\ UNCHANGED <<go, acts, press>>
    BY DEF TimesOut, goVars, userVars
  <1> QED
    BY <1>1, AnsweredStep

LEMMA CloseStep ==
  ASSUME IInv, Close
  PROVE  IInv'
  <1>1. /\ note' = <<>> /\ past' = <<>> /\ pending' = pending \ settled
        /\ task' = [q \in Runs |-> IF q \in settled THEN "canceled" ELSE task[q]]
        /\ where' = "closed" /\ acts < MaxActs /\ acts' = acts + 1
        /\ UNCHANGED <<meta, used, canceled, queue, merged, go, mail, press>>
    BY DEF Close, Acts
  <1>2. \A q : Queued(q)' = Queued(q) /\ KindOf(q)' = KindOf(q) /\ Posted(q)' = Posted(q)
    BY <1>1 DEF Queued, KindOf, Posted
  <1>3. \A q \in 1..used : q \in Runs
    BY RunMeta DEF IInv
  <1>4. \A q \in settled : q \in pending /\ KindOf(q) # "slot"
    BY DEF settled
  <1>5. TypeOK'
    <2>1. note' \in Text /\ past' \in Seq(Text)
      BY <1>1 DEF Text
    <2>2. task' \in [Runs -> {"none", "running", "completed", "canceled", "failed"}]
      BY <1>1 DEF IInv, TypeOK
    <2>3. acts' \in 0..MaxActs
      BY <1>1, Constants DEF IInv, TypeOK
    <2> QED
      BY <1>1, <2>1, <2>2, <2>3 DEF IInv, TypeOK
  <1>6. Results'
    BY <1>1, <1>2 DEF IInv, Results, Runs
  <1>7. Records'
    <2>1. \A q \in 1..used : Held(q) /\ (Queued(q) => KindOf(q) = "slot")
      BY DEF IInv, Records, Results
    <2>2. \A q \in 1..used : Held(q)'
      BY <1>1, <1>2, <1>3, <1>4, <2>1 DEF Held
    <2> QED
      BY <1>1, <2>2 DEF Records
  <1>8. Answers'
    BY <1>1 DEF Answers, Sound
  <1>9. Pressing'
    BY <1>1 DEF IInv, Pressing, Source
  <1> QED
    BY <1>5, <1>6, <1>7, <1>8, <1>9 DEF IInv

\* Whatever happens, the invariant holds on, and only the user's hand or a stale
\* start of a slot can take a cell that the user wrote.
LEMMA NextStep ==
  ASSUME IInv, [Next]_vars
  PROVE  IInv' /\ (Keeps(note, note') \/ ByUser \/ StaleStart)
  <1>1. ASSUME Acts PROVE ByUser
    BY <1>1, Constants DEF Acts, ByUser, userVars, IInv, TypeOK
  <1>2. ASSUME note' = note PROVE Keeps(note, note')
    BY <1>2 DEF Keeps
  <1>3. ASSUME used < MaxRuns, NEW t \in Targets, Starting(t)
        PROVE  IInv' /\ (Keeps(note, note') \/ StaleStart)
    <2>1. used' > used
      BY <1>3 DEF Starting, Started, IInv, TypeOK
    <2> QED
      BY <1>3, <2>1, StartingStep DEF StaleStart
  <1>4. ASSUME NEW t \in Targets, Press(t)
        PROVE  IInv' /\ (Keeps(note, note') \/ StaleStart)
    <2>1. CASE Kind[t] = "llm"
      BY <1>3, <1>4, <2>1, BelowText DEF Press, IInv
    <2>2. CASE Kind[t] # "llm"
      BY <1>2, <1>4, <2>2, QuietStep DEF Press, pageVars
    <2> QED
      BY <2>1, <2>2
  <1>5. ASSUME Confirmed PROVE IInv' /\ (Keeps(note, note') \/ StaleStart)
    <2>1. used < MaxRuns
      BY <1>5 DEF Confirmed, NoPress, IInv, Pressing
    <2> QED
      BY <1>3, <1>5, <2>1, ConfirmedStarts DEF IInv
  <1>6. ASSUME Parsed \/ NotStarted \/ GoAway \/ ComeBack \/ UNCHANGED vars
        PROVE  IInv' /\ Keeps(note, note')
    BY <1>2, <1>6, QuietStep
  <1>7. ASSUME NEW r \in 1..used, Register(r) \/ Ends(r) \/ Cancel(r) \/ TimesOut(r)
        PROVE  IInv' /\ Keeps(note, note')
    BY <1>7, RegisterStep, EndsStep, CancelStep, TimesOutStep
  <1>8. ASSUME (\E m \in mail : Deliver(m[1], m[2])) \/ TypingStops
        PROVE  IInv' /\ Keeps(note, note')
    BY <1>8, DeliverStep, TypingStopsStep
  <1>9. ASSUME Type \/ Delete \/ TakeBack \/ Undo \/ Close PROVE IInv' /\ ByUser
    <2>1. Acts
      BY <1>9 DEF Type, Delete, UserEdits, TakeBack, Undo, CtrlZ, Close
    <2> QED
      BY <1>1, <1>9, <2>1, TypeStep, DeleteStep, TakeBackStep, UndoStep, CloseStep
  <1> QED
    BY <1>4, <1>5, <1>6, <1>7, <1>8, <1>9 DEF Next

LEMMA InitHolds == ASSUME Init PROVE IInv
  <1>1. note \in Seq(Unrun) /\ Unrun \subseteq Cell /\ note \in Text
    <2>1. note \in Seq(Unrun)
      BY SlotRunAssumption DEF Init, SlotRunAssumption
    <2>2. Unrun \subseteq Cell
      BY DEF Unrun, Cell
    <2>3. Len(note) \in Nat /\ note \in [1..Len(note) -> Unrun]
      BY <2>1
    <2>4. note \in [1..Len(note) -> Cell]
      BY <2>2, <2>3
    <2> QED
      BY <2>1, <2>2, <2>3, <2>4 DEF Text
  <1>2. \A i \in DOMAIN note : note[i].k # "answer"
    <2>1. \A i \in DOMAIN note : note[i] \in Unrun
      BY <1>1, Elements
    <2> QED
      BY <2>1 DEF Unrun
  <1>3. TypeOK
    <2>1. /\ past \in Seq(Text) /\ meta \in Seq(Meta) /\ Len(meta) = used
          /\ queue \in Seq(1..used) /\ merged \in Seq(1..used)
      BY DEF Init
    <2>2. /\ used \in 0..MaxRuns /\ acts \in 0..MaxActs /\ pending \subseteq 1..used
          /\ canceled \subseteq 1..used
          /\ mail \subseteq (1..used) \X {"answer", "problem", "canceled"}
      BY Constants DEF Init
    <2>3. /\ task \in [Runs -> {"none", "running", "completed", "canceled", "failed"}]
          /\ go \in [Runs -> {"none", "queued", "running", "ended"}]
      BY DEF Init
    <2>4. where \in {"shown", "behind", "closed"} /\ press \in Pressed \cup {NoPress}
      BY DEF Init
    <2> QED
      BY <1>1, <2>1, <2>2, <2>3, <2>4 DEF TypeOK
  <1>4. 1..used = {} /\ past = <<>> /\ queue = <<>> /\ mail = {}
    BY DEF Init
  <1>5. Results
    <2>1. \A r \in Runs : r > used => go[r] = "none"
      BY DEF Init
    <2> QED
      BY <1>4, <2>1 DEF Results
  <1>6. Records /\ Answers /\ Pressing
    <2>1. Pressing
      BY DEF Init, Pressing
    <2>2. Answers
      BY <1>2, <1>4 DEF Answers, Sound
    <2> QED
      BY <1>4, <2>1, <2>2 DEF Records
  <1> QED
    BY <1>3, <1>5, <1>6 DEF IInv

LEMMA Invariance == Spec => []IInv
  <1>1. IInv /\ [Next]_vars => IInv'
    BY NextStep
  <1> QED
    BY InitHolds, <1>1, PTL DEF Spec

(***************************************************************************)
(* The results                                                             *)
(***************************************************************************)

\* A run whose card says canceled has no answer in the note, whatever its
\* process reports later and however often Ctrl+Z brings back older texts:
\* the answers of a text are of runs that are over and were not cancelled.
THEOREM CanceledHolds == Spec => []CanceledStaysOut
  <1>1. IInv => CanceledStaysOut
    BY DEF IInv, Answers, Sound, Done, CanceledStaysOut, Of
  <1> QED
    BY <1>1, Invariance, PTL

\* The note never holds two answers of one run: of the watchdog, the backend
\* and the queued merges at most one is written.
THEOREM OnceHolds == Spec => []AnswersOnce
  <1>1. ASSUME IInv, NEW r \in 1..used
        PROVE  Cardinality({i \in Of(note, r) : note[i].k = "answer"}) <= 1
    <2> DEFINE A == {i \in Of(note, r) : note[i].k = "answer"}
    <2>1. \A i, j \in A : i = j
      BY <1>1 DEF IInv, Answers, Sound, Of
    <2>2. CASE A = {}
      BY <2>2, FS_EmptySet
    <2>3. CASE A # {}
      <3>1. PICK i \in A : A = {i}
        BY <2>1, <2>3
      <3> QED
        BY <3>1, FS_Singleton
    <2> QED
      BY <2>2, <2>3
  <1>2. IInv => AnswersOnce
    BY <1>1 DEF AnswersOnce
  <1> QED
    BY <1>2, Invariance, PTL

\* The cards and the page's records of the requests it still holds agree in
\* every reachable state: no card runs for a run the page forgot.
THEOREM CardsHold == Spec => []CardsMatch
  <1>1. ASSUME IInv PROVE CardsMatch
    <2>1. Range(queue) \subseteq 1..used /\ \A q : q \in Range(queue) <=> Queued(q)
      <3>1. \A i \in DOMAIN queue : queue[i] \in 1..used
        BY <1>1, Elements DEF IInv, TypeOK
      <3> QED
        BY <3>1 DEF Range, Queued
    <2>2. pending \subseteq 1..used
      BY <1>1 DEF IInv, TypeOK
    <2>3. \A q \in 1..used : q \in pending <=> task[q] = "running" \/ (Queued(q) /\ q \notin canceled)
      BY <1>1 DEF IInv, Records, Held
    <2> QED
      BY <2>1, <2>2, <2>3 DEF CardsMatch
  <1> QED
    BY <1>1, Invariance, PTL

\* No start, end, cancel, merge or time-out takes a cell the user wrote; only a
\* slot that starts over a text that moved since it was parsed can.
THEOREM WrittenHolds == Spec => WrittenStays
  <1>1. ASSUME IInv, [Next]_vars, ~ByUser, ~StaleStart, NEW i \in DOMAIN note,
               note[i].k \in {"text", "typed", "line"}
        PROVE  In(note', note[i])
    <2>1. Keeps(note, note')
      BY <1>1, NextStep
    <2>2. PICK j \in DOMAIN note' : note'[j] = note[i]
      BY <1>1, <2>1 DEF Keeps, Written
    <2> QED
      BY <2>2 DEF In, Range
  <1> DEFINE Stay == \A i \in DOMAIN note : note[i].k \in {"text", "typed", "line"} => In(note', note[i])
  <1>2. IInv /\ [Next]_vars => [~ByUser /\ ~StaleStart => Stay]_vars
    BY <1>1
  <1> QED
    BY <1>2, Invariance, PTL DEF Spec, WrittenStays
=============================================================================
