--------------------------- MODULE SemIndexProofs ---------------------------
(***************************************************************************)
(* Machine-checked facts about the files of the semantic index, for any    *)
(* number of scrap files and texts, any contents, edits, batch and commit  *)
(* sizes, and any number of faults, as long as nothing fails or dies in    *)
(* the middle of Compact (AtomicCompact).  Chunk lines that could not be   *)
(* written (LinesFail) leave vectors without a line, and only then may two *)
(* vectors be of one text.                                                 *)
(***************************************************************************)
EXTENDS SemIndex, SequenceTheorems, FiniteSetTheorems, WellFoundedInduction, TLAPS

(***************************************************************************)
(* The inductive invariant: types                                          *)
(***************************************************************************)
Maps(S, T) == UNION {[D -> T] : D \in SUBSET S}
ManType == [metas : Nat, vecs : Nat, dead : SUBSET Nat, files : Maps(Files, Record)]
DirType == [vectors : Seq(Texts), chunks : Seq(Line), man : ManType]
StoreType == [metas : Seq(Line), hv : Maps(Texts, Nat), dead : SUBSET Nat, vecs : Nat,
              files : Maps(Files, Record)]
Work == [file : Files, stamp : 0 .. MaxStamp, chunks : Seq(Texts)]
RunType == [pc : {"idle", "read", "group", "embed", "finish", "compacting",
                  "compacted", "swap"},
            dir : Dirs, listed : Maps(Files, 0 .. MaxStamp), unread : SUBSET Files,
            todo : Seq(Work), group : Seq(Work), order : Seq(Texts),
            mark : Nat, since : Nat, failed : BOOLEAN]
SearchType == [pc : {"idle", "chunks", "vectors", "answer"}, man : ManType,
               metas : Seq(Line), vectors : Seq(Texts), raced : BOOLEAN]
Types ==
    /\ stamp \in [Files -> 0 .. MaxStamp]
    /\ disk \in [Dirs -> DirType]
    /\ store \in StoreType
    /\ run \in RunType
    /\ search \in SearchType
    /\ faults \in 0 .. MaxFaults

(***************************************************************************)
(* An index: chunk lines, vectors, and who owns which line.                *)
(***************************************************************************)
\* Every line points at the vector of its text.
Lines(metas, vectors, vecs) ==
    /\ vecs <= Len(vectors)
    /\ \A i \in DOMAIN metas : metas[i].v <= vecs /\ vectors[metas[i].v] = metas[i].text

\* Every vector has a line, and no two are of one text.
Used(metas, vecs) == ~LinesFail => \A n \in 1 .. vecs : \E i \in DOMAIN metas : metas[i].v = n
Different(vectors, vecs) ==
    ~LinesFail => \A m, n \in 1 .. vecs : vectors[m] = vectors[n] => m = n

\* The rows of the files are the live ones, each once.
Owned(files, live) ==
    /\ \A f \in DOMAIN files : \A i \in DOMAIN files[f].rows : files[f].rows[i] \in live
    /\ \A f, g \in DOMAIN files : \A i \in DOMAIN files[f].rows, j \in DOMAIN files[g].rows :
          files[f].rows[i] = files[g].rows[j] => f = g /\ i = j
    /\ \A r \in live : \E f \in DOMAIN files : \E i \in DOMAIN files[f].rows :
          files[f].rows[i] = r

\* A file recorded with the stamp it has now has its present chunks.
Spelled(rows, metas) == [i \in DOMAIN rows |-> metas[rows[i]].text]
Fresh(files, metas, st) ==
    \A f \in DOMAIN files :
        /\ files[f].stamp <= st[f]
        /\ files[f].stamp = st[f] => Spelled(files[f].rows, metas) = Content[f][st[f]]

Whole(metas, vectors, vecs, dead, files, st) ==
    /\ dead \subseteq DOMAIN metas
    /\ Lines(metas, vectors, vecs) /\ Used(metas, vecs) /\ Different(vectors, vecs)
    /\ Owned(files, DOMAIN metas \ dead) /\ Fresh(files, metas, st)

(***************************************************************************)
(* The files of a folder: what the manifest counts is an index, unless     *)
(* Compact is replacing them.                                              *)
(***************************************************************************)
ManOK(man) ==
    man.dead \subseteq 1 .. man.metas /\ Owned(man.files, (1 .. man.metas) \ man.dead)
Committed(k, st) ==
    /\ k.man.metas <= Len(k.chunks)
    /\ Whole(SubSeq(k.chunks, 1, k.man.metas), k.vectors, k.man.vecs, k.man.dead,
             k.man.files, st)
Replacing(d) == run.dir = d /\ run.pc \in {"compacting", "compacted"}
DirsOK == \A d \in Dirs : ManOK(disk[d].man) /\ (Replacing(d) \/ Committed(disk[d], stamp))

(***************************************************************************)
(* The running Update: its store goes on from the manifest, and knows the  *)
(* vectors there are.                                                      *)
(***************************************************************************)
Known(hv, vectors, vecs) ==
    /\ \A t \in DOMAIN hv : hv[t] \in 1 .. vecs /\ vectors[hv[t]] = t
    /\ ~LinesFail => \A n \in 1 .. vecs : vectors[n] \in DOMAIN hv /\ hv[vectors[n]] = n

Ahead(s, k) ==
    /\ k.man.metas <= Len(s.metas) /\ Len(s.metas) <= Len(k.chunks)
    /\ \A i \in DOMAIN s.metas : k.chunks[i] = s.metas[i]
    /\ k.man.vecs <= s.vecs

StoreOK(s, k, st) ==
    /\ Ahead(s, k)
    /\ s.dead \subseteq DOMAIN s.metas
    /\ Lines(s.metas, k.vectors, s.vecs) /\ Known(s.hv, k.vectors, s.vecs)
    /\ Owned(s.files, Live(s)) /\ Fresh(s.files, s.metas, st)

\* The texts of the files in work.
GroupTexts(r) == UNION {ToSet(r.group[i].chunks) : i \in DOMAIN r.group}

\* Every text of the group has its vector or waits for it, and a vector
\* without a line belongs to the group.
Embedding(s, k, r) ==
    /\ k.man.vecs <= r.mark /\ r.mark <= s.vecs
    /\ ~LinesFail =>
          \A n \in 1 .. s.vecs : \/ \E i \in DOMAIN s.metas : s.metas[i].v = n
                                 \/ n > r.mark /\ k.vectors[n] \in GroupTexts(r)
    /\ r.order # <<>> => \A i \in DOMAIN s.metas : s.metas[i].v <= r.mark
    /\ ToSet(r.order) \subseteq GroupTexts(r)
    /\ GroupTexts(r) \subseteq DOMAIN s.hv \cup ToSet(r.order)
    /\ ToSet(r.order) \cap DOMAIN s.hv = {}
    /\ \A i, j \in DOMAIN r.order : r.order[i] = r.order[j] => i = j

Runs ==
    /\ run.pc \in {"read", "group", "embed", "finish"} =>
          StoreOK(store, disk[run.dir], stamp)
    /\ run.pc \in {"read", "group", "finish"} => Used(store.metas, store.vecs)
    /\ run.pc = "embed" => Embedding(store, disk[run.dir], run)

\* What was read of a file is not older than the stamp it goes under.
WorkOK(w, st) ==
    /\ w.stamp <= st[w.file]
    /\ w.stamp = st[w.file] => w.chunks = Content[w.file][w.stamp]
Works ==
    /\ \A i \in DOMAIN run.todo : WorkOK(run.todo[i], stamp)
    /\ \A i \in DOMAIN run.group : WorkOK(run.group[i], stamp)
    /\ run.unread \subseteq DOMAIN run.listed
    /\ \A f \in DOMAIN run.listed : run.listed[f] <= stamp[f]

(***************************************************************************)
(* Compact and Rebuild                                                     *)
(***************************************************************************)
StoreRows(s) ==
    s.dead \subseteq DOMAIN s.metas /\ \A t \in DOMAIN s.hv : s.hv[t] \in 1 .. s.vecs
Replaced(s, k, st) ==
    /\ s \in StoreType /\ StoreRows(s)
    /\ Whole(s.metas, k.vectors, s.vecs, s.dead, s.files, st)
Replacement ==
    /\ StoreRows(store)
    /\ run.pc = "compacting" => Replaced(Compacted(store), disk[run.dir], stamp)
    /\ run.pc = "compacted" =>
          Replaced(store, disk[run.dir], stamp) /\ disk[run.dir].chunks = store.metas
    /\ run.pc = "swap" => run.dir = "rebuild"

(***************************************************************************)
(* A search that was not overtaken                                         *)
(***************************************************************************)
Reads(q, k) ==
    /\ q.man.metas <= k.man.metas /\ q.man.vecs <= k.man.vecs
    /\ \A i \in 1 .. q.man.metas : k.chunks[i].v <= q.man.vecs
    /\ q.pc \in {"vectors", "answer"} => q.metas = SubSeq(k.chunks, 1, q.man.metas)
Searching ==
    search.pc # "idle" /\ ~search.raced =>
        ~Compacting /\ Reads(search, disk.index) /\ (search.pc = "answer" => Answers(search))

\* A search's manifest was one of the index.
SearchMan == search.man.dead \subseteq 1 .. search.man.metas

IInv == Types /\ DirsOK /\ Runs /\ Works /\ Replacement /\ Searching /\ SearchMan

(***************************************************************************)
(* Lists made from sets                                                    *)
(***************************************************************************)
Orders(R, S) ==
    /\ \A x, y \in S : <<x, y>> \in R \/ <<y, x>> \in R
    /\ \A x, y \in S : <<x, y>> \in R /\ <<y, x>> \in R => x = y
    /\ \A x, y, z \in S : <<x, y>> \in R /\ <<y, z>> \in R => <<x, z>> \in R

\* Ordered lists every element of a finite set once.
LEMMA OrderedList ==
  ASSUME NEW S, IsFiniteSet(S), NEW R, Orders(R, S)
  PROVE  /\ Cardinality(S) \in Nat
         /\ Ordered(S, R) \in [1 .. Cardinality(S) -> S]
         /\ \A m, n \in 1 .. Cardinality(S) : Ordered(S, R)[m] = Ordered(S, R)[n] => m = n
         /\ \A x \in S : \E n \in 1 .. Cardinality(S) : Ordered(S, R)[n] = x
  <1> DEFINE c == Cardinality(S)
             below(x) == {y \in S : <<y, x>> \in R}
             f == [x \in S |-> Cardinality(below(x))]
             s == Ordered(S, R)
  <1>1. c \in Nat /\ IsFiniteSet(1 .. c) /\ Cardinality(1 .. c) = c
    <2>1. c \in Nat
      BY FS_CardinalityType
    <2> QED BY <2>1, FS_Interval
  <1>2. \A x \in S : IsFiniteSet(below(x)) /\ f[x] \in 1 .. c
    <2> SUFFICES ASSUME NEW x \in S PROVE IsFiniteSet(below(x)) /\ f[x] \in 1 .. c
      OBVIOUS
    <2>1. below(x) \in SUBSET S /\ x \in below(x)
      BY DEF Orders
    <2>2. IsFiniteSet(below(x)) /\ Cardinality(below(x)) <= c
      BY <2>1, FS_Subset
    <2>3. Cardinality(below(x)) \in Nat
      BY <2>2, FS_CardinalityType
    <2>4. Cardinality(below(x)) # 0
      BY <2>1, <2>2, FS_EmptySet
    <2> QED BY <1>1, <2>2, <2>3, <2>4
  <1>3. \A x, y \in S : x # y /\ <<x, y>> \in R => f[x] # f[y]
    <2> SUFFICES ASSUME NEW x \in S, NEW y \in S, x # y, <<x, y>> \in R PROVE f[x] # f[y]
      OBVIOUS
    <2>1. below(x) \in SUBSET below(y) /\ y \in below(y) /\ y \notin below(x)
      BY DEF Orders
    <2>2. Cardinality(below(x)) # Cardinality(below(y))
      BY <1>2, <2>1, FS_Subset
    <2> QED BY <2>2
  <1>4. f \in Injection(S, 1 .. c)
    BY <1>2, <1>3 DEF Injection, IsInjective, Orders
  <1>5. f \in Surjection(S, 1 .. c)
    <2> HIDE DEF f, c
    <2>1. Cardinality(S) = Cardinality(1 .. c)
      BY <1>1 DEF c
    <2> QED BY <1>1, <1>4, <2>1, FS_Injection
  <1>6. \A n \in 1 .. c : \E x \in S : Cardinality(below(x)) = n
    BY <1>5 DEF Surjection
  <1>7. \A n \in 1 .. c : s[n] = CHOOSE x \in S : Cardinality(below(x)) = n
    BY DEF Ordered
  <1>8. \A n \in 1 .. c : s[n] \in S /\ f[s[n]] = n
    <2> HIDE DEF s
    <2> SUFFICES ASSUME NEW n \in 1 .. c PROVE s[n] \in S /\ Cardinality(below(s[n])) = n
      OBVIOUS
    <2>1. PICK x \in S : Cardinality(below(x)) = n
      BY <1>6
    <2> HIDE DEF below
    <2> QED BY <2>1, <1>7
  <1>9. s \in [1 .. c -> S]
    <2>1. s = [n \in 1 .. c |-> CHOOSE x \in S : Cardinality(below(x)) = n]
      BY DEF Ordered
    <2> HIDE DEF s, c, f, below
    <2> QED BY <1>7, <1>8, <2>1
  <1>10. \A m, n \in 1 .. c : s[m] = s[n] => m = n
    <2> HIDE DEF s, c, f, below
    <2> QED BY <1>8
  <1>11. \A x \in S : \E n \in 1 .. c : s[n] = x
    <2>1. \A x \in S : f[x] \in 1 .. c
      BY <1>2
    <2>2. \A x, y \in S : f[x] = f[y] => x = y
      BY <1>4 DEF Injection, IsInjective
    <2> HIDE DEF s, c, f, below
    <2> QED BY <1>8, <2>1, <2>2
  <1> HIDE DEF s, c, f, below
  <1>12. /\ c \in Nat /\ s \in [1 .. c -> S]
         /\ \A m, n \in 1 .. c : s[m] = s[n] => m = n
         /\ \A x \in S : \E n \in 1 .. c : s[n] = x
    BY <1>1, <1>9, <1>10, <1>11
  <1> QED BY <1>12 DEF s, c

LEMMA SortedList ==
  ASSUME NEW S \in SUBSET Nat, IsFiniteSet(S)
  PROVE  /\ Cardinality(S) \in Nat
         /\ Sorted(S) \in Seq(S) /\ Len(Sorted(S)) = Cardinality(S)
         /\ DOMAIN Sorted(S) = 1 .. Cardinality(S)
         /\ \A m, n \in DOMAIN Sorted(S) : Sorted(S)[m] = Sorted(S)[n] => m = n
         /\ \A x \in S : \E n \in DOMAIN Sorted(S) : Sorted(S)[n] = x
  <1>r. PICK R : R = {p \in S \X S : p[1] <= p[2]}
    OBVIOUS
  <1>1. \A x, y \in S : <<x, y>> \in R <=> x <= y
    BY <1>r
  <1>2. /\ Cardinality(S) \in Nat
        /\ Ordered(S, R) \in [1 .. Cardinality(S) -> S]
        /\ \A m, n \in 1 .. Cardinality(S) : Ordered(S, R)[m] = Ordered(S, R)[n] => m = n
        /\ \A x \in S : \E n \in 1 .. Cardinality(S) : Ordered(S, R)[n] = x
    <2>0. \A x \in S : x \in Nat
      OBVIOUS
    <2>1. \A x, y \in S : <<x, y>> \in R \/ <<y, x>> \in R
      <3> SUFFICES ASSUME NEW x \in S, NEW y \in S PROVE <<x, y>> \in R \/ <<y, x>> \in R
        OBVIOUS
      <3>1. x <= y \/ y <= x
        BY <2>0
      <3> QED BY <1>1, <3>1
    <2>2. \A x, y \in S : <<x, y>> \in R /\ <<y, x>> \in R => x = y
      BY <1>1, <2>0
    <2>3. \A x, y, z \in S : <<x, y>> \in R /\ <<y, z>> \in R => <<x, z>> \in R
      BY <1>1, <2>0
    <2>4. Orders(R, S)
      BY <2>1, <2>2, <2>3 DEF Orders
    <2> QED BY <2>4, OrderedList
  <1>3. Sorted(S) = Ordered(S, R)
    BY <1>r DEF Sorted
  <1>4. PICK c : c = Cardinality(S) /\ c \in Nat
    BY <1>2
  <1>5. PICK s : s = Sorted(S) /\ s \in [1 .. c -> S] /\ DOMAIN s = 1 .. c
    BY <1>2, <1>3, <1>4
  <1>6. s \in Seq(S) /\ Len(s) = c
    BY <1>4, <1>5
  <1> QED BY <1>2, <1>3, <1>4, <1>5, <1>6

\* The numbers from 1 to n are sorted.
LEMMA SortedInterval == ASSUME NEW n \in Nat PROVE Sorted(1 .. n) = [i \in 1 .. n |-> i]
  <1>1. IsFiniteSet(1 .. n) /\ Cardinality(1 .. n) = n
    BY FS_Interval
  <1>2. \A x \in 1 .. n : Cardinality({y \in 1 .. n : <<y, x>> \in {p \in (1 .. n) \X (1 .. n) : p[1] <= p[2]}}) = x
    <2> SUFFICES ASSUME NEW x \in 1 .. n
                 PROVE  Cardinality({y \in 1 .. n : <<y, x>> \in {p \in (1 .. n) \X (1 .. n) : p[1] <= p[2]}}) = x
      OBVIOUS
    <2>1. {y \in 1 .. n : <<y, x>> \in {p \in (1 .. n) \X (1 .. n) : p[1] <= p[2]}} = 1 .. x
      <3>1. \A y \in 1 .. n : <<y, x>> \in {p \in (1 .. n) \X (1 .. n) : p[1] <= p[2]} <=> y <= x
        OBVIOUS
      <3> QED BY <3>1
    <2>2. x \in Int /\ 1 \in Int /\ ~(1 > x) /\ x - 1 + 1 = x
      OBVIOUS
    <2>3. Cardinality(1 .. x) = x
      BY <2>2, FS_Interval
    <2> QED BY <2>1, <2>3
  <1>3. \A i \in 1 .. n :
          (CHOOSE x \in 1 .. n : Cardinality({y \in 1 .. n :
                <<y, x>> \in {p \in (1 .. n) \X (1 .. n) : p[1] <= p[2]}}) = i) = i
    BY <1>2
  <1> QED BY <1>1, <1>3 DEF Sorted, Ordered

-----------------------------------------------------------------------------
(* Sets of numbers, lists, and the operators on rows *)

LEMMA Least ==
  ASSUME NEW T, T \subseteq Nat, T # {}
  PROVE  \E n \in T : \A m \in T : n <= m
  <1> DEFINE R == OpToRel(<, Nat)
  <1>1. IsWellFoundedOn(R, Nat)
    BY NatLessThanWellFounded
  <1>2. PICK n \in T : \A m \in T : ~(<<m, n>> \in R)
    <2> HIDE DEF R
    <2> QED BY <1>1, WFMin
  <1>3. \A m \in T : ~(m < n)
    BY <1>2 DEF OpToRel
  <1>4. n \in Nat /\ \A m \in T : m \in Nat
    OBVIOUS
  <1> QED BY <1>3, <1>4

LEMMA Greatest ==
  ASSUME NEW n \in Nat, NEW T, T \subseteq 1 .. n, T # {}
  PROVE  \E x \in T : \A y \in T : y <= x
  <1>1. PICK U : U = {n - x : x \in T}
    OBVIOUS
  <1>2. \A x \in T : x \in Nat /\ x <= n
    OBVIOUS
  <1>3. U \subseteq Nat /\ U # {}
    <2>1. \A x \in T : n - x \in Nat
      BY <1>2
    <2> QED BY <1>1, <2>1
  <1>4. PICK u \in U : \A m \in U : u <= m
    BY <1>3, Least
  <1>5. PICK x \in T : u = n - x
    BY <1>1, <1>4
  <1>6. \A y \in T : n - x <= n - y
    BY <1>1, <1>4, <1>5
  <1>7. \A y \in T : y <= x
    BY <1>2, <1>6
  <1> QED BY <1>7

LEMMA MapsDef == \A S, T, f : f \in Maps(S, T) <=> DOMAIN f \subseteq S /\ f \in [DOMAIN f -> T]
  BY DEF Maps

\* q lists every element of S once.
Lists(q, S) ==
    /\ q \in Seq(S)
    /\ \A m, n \in DOMAIN q : q[m] = q[n] => m = n
    /\ \A x \in S : \E n \in DOMAIN q : q[n] = x

LEMMA SortedLists ==
  ASSUME NEW S \in SUBSET Nat, IsFiniteSet(S)
  PROVE  Lists(Sorted(S), S)
  BY SortedList DEF Lists

LEMMA SubsetsFinite ==
  ASSUME NEW n \in Nat, NEW S \in SUBSET (1 .. n)
  PROVE  IsFiniteSet(S) /\ S \in SUBSET Nat
  <1>1. IsFiniteSet(1 .. n)
    BY FS_Interval
  <1>2. IsFiniteSet(S)
    BY <1>1, FS_Subset
  <1>3. \A x \in S : x \in Nat
    OBVIOUS
  <1> QED BY <1>2, <1>3

LEMMA PositionIn ==
  ASSUME NEW q, NEW S, Lists(q, S), NEW x \in S
  PROVE  Position(q, x) \in DOMAIN q /\ q[Position(q, x)] = x
  BY DEF Lists, Position

LEMMA PositionAt ==
  ASSUME NEW q, \A m, n \in DOMAIN q : q[m] = q[n] => m = n, NEW n \in DOMAIN q
  PROVE  Position(q, q[n]) = n
  BY DEF Position

LEMMA SeqShape ==
  ASSUME NEW S, NEW s \in Seq(S)
  PROVE  Len(s) \in Nat /\ DOMAIN s = 1 .. Len(s) /\ \A i \in DOMAIN s : s[i] \in S
  OBVIOUS

LEMMA Prefix ==
  ASSUME NEW S, NEW s \in Seq(S), NEW n \in 0 .. Len(s)
  PROVE  /\ SubSeq(s, 1, n) \in Seq(S) /\ Len(SubSeq(s, 1, n)) = n
         /\ DOMAIN SubSeq(s, 1, n) = 1 .. n
         /\ \A i \in 1 .. n : SubSeq(s, 1, n)[i] = s[i]
  <1>1. \A i \in 1 .. n : s[i] \in S
    OBVIOUS
  <1>2. /\ SubSeq(s, 1, n) \in Seq(S)
        /\ Len(SubSeq(s, 1, n)) = IF 1 <= n THEN n - 1 + 1 ELSE 0
        /\ \A i \in 1 .. n - 1 + 1 : SubSeq(s, 1, n)[i] = s[1 + i - 1]
    BY <1>1, SubSeqProperties
  <1> QED BY <1>2

LEMMA Appended ==
  ASSUME NEW S, NEW rows \in Seq(S), NEW new \in Seq(S), NEW n \in 0 .. Len(rows)
  PROVE  /\ AppendRows(rows, n, new) \in Seq(S)
         /\ Len(AppendRows(rows, n, new)) = n + Len(new)
         /\ \A i \in 1 .. n : AppendRows(rows, n, new)[i] = rows[i]
         /\ \A i \in 1 .. Len(new) : AppendRows(rows, n, new)[n + i] = new[i]
  <1>1. PICK a : a = SubSeq(rows, 1, n)
    OBVIOUS
  <1>2. a \in Seq(S) /\ Len(a) = n /\ \A i \in 1 .. n : a[i] = rows[i]
    BY <1>1, Prefix
  <1>3. PICK b : b = a \o new
    OBVIOUS
  <1>4. /\ b \in Seq(S) /\ Len(b) = n + Len(new)
        /\ \A i \in 1 .. n + Len(new) : b[i] = IF i <= n THEN a[i] ELSE new[i - n]
    BY <1>2, <1>3, ConcatProperties
  <1>5. \A i \in 1 .. n : b[i] = rows[i]
    BY <1>2, <1>4
  <1>6. ASSUME NEW i \in 1 .. Len(new) PROVE b[n + i] = new[i]
    <2>1. n + i \in 1 .. n + Len(new) /\ ~(n + i <= n) /\ n + i - n = i
      OBVIOUS
    <2> QED BY <1>4, <2>1
  <1>7. AppendRows(rows, n, new) = b
    BY <1>1, <1>3 DEF AppendRows
  <1> QED BY <1>4, <1>5, <1>6, <1>7

\* A text's row is that of one of its lines.
LEMMA HashRowsOf ==
  ASSUME NEW metas \in Seq(Line)
  PROVE  /\ HashRows(metas) \in Maps(Texts, Nat)
         /\ \A i \in DOMAIN metas : metas[i].text \in DOMAIN HashRows(metas)
         /\ \A t \in DOMAIN HashRows(metas) :
               \E i \in DOMAIN metas : metas[i].text = t /\ HashRows(metas)[t] = metas[i].v
  <1>1. Len(metas) \in Nat /\ DOMAIN metas = 1 .. Len(metas)
        /\ \A i \in DOMAIN metas : metas[i].text \in Texts /\ metas[i].v \in Nat
    <2>1. Len(metas) \in Nat /\ DOMAIN metas = 1 .. Len(metas)
          /\ \A i \in DOMAIN metas : metas[i] \in Line
      BY SeqShape
    <2>2. \A l \in Line : l.text \in Texts /\ l.v \in Nat
      BY DEF Line
    <2> QED BY <2>1, <2>2
  <1>2. PICK h : h = HashRows(metas)
    OBVIOUS
  <1>3. DOMAIN h = {metas[i].text : i \in DOMAIN metas}
    BY <1>2 DEF HashRows
  <1>4. ASSUME NEW t \in DOMAIN h
        PROVE  \E i \in DOMAIN metas : metas[i].text = t /\ h[t] = metas[i].v
    <2>1. PICK rows : rows = {i \in DOMAIN metas : metas[i].text = t}
      OBVIOUS
    <2>2. rows \subseteq 1 .. Len(metas) /\ rows # {}
      BY <1>1, <1>3, <2>1
    <2>3. PICK x \in rows : \A y \in rows : y <= x
      BY <1>1, <2>2, Greatest
    <2>4. PICK c : c = CHOOSE i \in rows : \A j \in rows : j <= i
      OBVIOUS
    <2>5. c \in rows
      BY <2>3, <2>4
    <2>6. h[t] = metas[c].v
      BY <1>2, <1>3, <2>1, <2>4 DEF HashRows
    <2> QED BY <2>1, <2>5, <2>6
  <1>5. h \in [DOMAIN h -> Nat]
    <2>1. \A t \in DOMAIN h : h[t] \in Nat
      BY <1>1, <1>4
    <2>2. h = [t \in DOMAIN h |-> h[t]]
      BY <1>2 DEF HashRows
    <2> QED BY <2>1, <2>2
  <1>6. h \in Maps(Texts, Nat)
    BY <1>1, <1>3, <1>5, MapsDef
  <1> QED BY <1>2, <1>3, <1>4, <1>6

-----------------------------------------------------------------------------
(* Compact: what is left of a whole index is a whole index. *)

LEMMA LiveLists ==
  ASSUME NEW s, s.metas \in Seq(Line)
  PROVE  Lists(LiveRows(s), Live(s)) /\ Live(s) \subseteq DOMAIN s.metas
  <1>1. Len(s.metas) \in Nat /\ DOMAIN s.metas = 1 .. Len(s.metas)
    BY SeqShape
  <1>2. Live(s) \in SUBSET (1 .. Len(s.metas))
    BY <1>1 DEF Live
  <1>3. IsFiniteSet(Live(s)) /\ Live(s) \in SUBSET Nat
    BY <1>1, <1>2, SubsetsFinite
  <1> QED BY <1>1, <1>2, <1>3, SortedLists DEF LiveRows

\* The vector rows of the live lines, each once.
LEMMA UsedLists ==
  ASSUME NEW s, s.metas \in Seq(Line)
  PROVE  Lists(UsedRows(s), {s.metas[i].v : i \in Live(s)})
  <1>1. Len(s.metas) \in Nat /\ DOMAIN s.metas = 1 .. Len(s.metas)
    BY SeqShape
  <1>2. Live(s) \subseteq 1 .. Len(s.metas)
    BY <1>1, LiveLists
  <1>f. PICK F : F = FirstUses(s)
    OBVIOUS
  <1>3. F \in SUBSET (1 .. Len(s.metas)) /\ F \subseteq Live(s)
    BY <1>2, <1>f DEF FirstUses
  <1>4. IsFiniteSet(F) /\ F \in SUBSET Nat
    BY <1>1, <1>3, SubsetsFinite
  <1>g. PICK g : g = Sorted(F)
    OBVIOUS
  <1>5. Lists(g, F)
    BY <1>4, <1>g, SortedLists
  <1>6. g \in Seq(F) /\ Len(g) \in Nat /\ DOMAIN g = 1 .. Len(g) /\ \A n \in DOMAIN g : g[n] \in F
    BY <1>5, SeqShape DEF Lists
  <1>u. PICK u : u = UsedRows(s)
    OBVIOUS
  <1>7. u = [n \in DOMAIN g |-> s.metas[g[n]].v]
    BY <1>f, <1>g, <1>u DEF UsedRows
  <1>v. PICK V : V = {s.metas[i].v : i \in Live(s)}
    OBVIOUS
  <1>8. \A n \in DOMAIN g : u[n] = s.metas[g[n]].v /\ u[n] \in V
    BY <1>3, <1>6, <1>7, <1>v
  <1>9. u \in Seq(V) /\ DOMAIN u = DOMAIN g
    BY <1>6, <1>7, <1>8
  <1>10. ASSUME NEW m \in DOMAIN u, NEW n \in DOMAIN u, u[m] = u[n] PROVE m = n
    <2>1. g[m] \in F /\ g[n] \in F /\ s.metas[g[m]].v = s.metas[g[n]].v
      BY <1>6, <1>8, <1>9, <1>10
    <2>2. g[m] <= g[n] /\ g[n] <= g[m]
      BY <1>f, <2>1 DEF FirstUses
    <2>3. g[m] \in Nat /\ g[n] \in Nat
      BY <1>4, <2>1
    <2>4. g[m] = g[n]
      BY <2>2, <2>3
    <2> QED BY <1>5, <1>9, <2>4 DEF Lists
  <1>11. ASSUME NEW x \in V PROVE \E n \in DOMAIN u : u[n] = x
    <2>1. PICK i \in Live(s) : s.metas[i].v = x
      BY <1>v
    <2>t. PICK T : T = {j \in Live(s) : s.metas[j].v = x}
      OBVIOUS
    <2>2. T \subseteq Nat /\ T # {}
      BY <1>2, <2>1, <2>t
    <2>3. PICK j \in T : \A k \in T : j <= k
      BY <2>2, Least
    <2>4. j \in F
      BY <1>f, <2>t, <2>3 DEF FirstUses
    <2>5. PICK n \in DOMAIN g : g[n] = j
      BY <1>5, <2>4 DEF Lists
    <2> QED BY <1>8, <1>9, <2>t, <2>3, <2>5
  <1>12. Lists(u, V)
    BY <1>9, <1>10, <1>11 DEF Lists
  <1> QED BY <1>12, <1>u, <1>v

\* The lines that are kept: their texts, and their vectors' new rows.
LEMMA KeptLines ==
  ASSUME NEW s, s.metas \in Seq(Line)
  PROVE  /\ KeptMetas(s) \in Seq(Line)
         /\ DOMAIN KeptMetas(s) = DOMAIN LiveRows(s)
         /\ \A n \in DOMAIN LiveRows(s) :
              /\ KeptMetas(s)[n].text = s.metas[LiveRows(s)[n]].text
              /\ KeptMetas(s)[n].v = Position(UsedRows(s), s.metas[LiveRows(s)[n]].v)
              /\ KeptMetas(s)[n].v \in DOMAIN UsedRows(s)
              /\ UsedRows(s)[KeptMetas(s)[n].v] = s.metas[LiveRows(s)[n]].v
  <1>1. PICK L : L = LiveRows(s)
    OBVIOUS
  <1>2. PICK u : u = UsedRows(s)
    OBVIOUS
  <1>3. PICK k : k = KeptMetas(s)
    OBVIOUS
  <1>4. Lists(L, Live(s)) /\ Live(s) \subseteq DOMAIN s.metas
    BY <1>1, LiveLists
  <1>v. PICK V : V = {s.metas[i].v : i \in Live(s)}
    OBVIOUS
  <1>5. Lists(u, V)
    BY <1>2, <1>v, UsedLists
  <1>6. L \in Seq(Live(s)) /\ Len(L) \in Nat /\ DOMAIN L = 1 .. Len(L) /\ \A n \in DOMAIN L : L[n] \in Live(s)
    BY <1>4, SeqShape DEF Lists
  <1>7. Len(u) \in Nat /\ DOMAIN u = 1 .. Len(u)
    BY <1>5, SeqShape DEF Lists
  <1>8. k = [n \in DOMAIN L |-> [text |-> s.metas[L[n]].text, v |-> Position(u, s.metas[L[n]].v)]]
    BY <1>1, <1>2, <1>3 DEF KeptMetas
  <1>9. ASSUME NEW n \in DOMAIN L
        PROVE  /\ k[n] = [text |-> s.metas[L[n]].text, v |-> Position(u, s.metas[L[n]].v)]
               /\ Position(u, s.metas[L[n]].v) \in DOMAIN u
               /\ u[Position(u, s.metas[L[n]].v)] = s.metas[L[n]].v
               /\ s.metas[L[n]].text \in Texts
    <2>1. L[n] \in Live(s) /\ s.metas[L[n]].v \in V
      BY <1>6, <1>v
    <2>2. s.metas[L[n]] \in Line
      BY <1>4, <2>1, SeqShape
    <2>3. s.metas[L[n]].text \in Texts
      BY <2>2 DEF Line
    <2> QED BY <1>5, <1>8, <2>1, <2>3, PositionIn
  <1>10. \A n \in DOMAIN L :
            /\ k[n].text = s.metas[L[n]].text
            /\ k[n].v = Position(u, s.metas[L[n]].v)
            /\ k[n].v \in DOMAIN u
            /\ u[k[n].v] = s.metas[L[n]].v
            /\ k[n] \in Line
    <2> SUFFICES ASSUME NEW n \in DOMAIN L
                 PROVE  /\ k[n].text = s.metas[L[n]].text
                        /\ k[n].v = Position(u, s.metas[L[n]].v)
                        /\ k[n].v \in DOMAIN u
                        /\ u[k[n].v] = s.metas[L[n]].v
                        /\ k[n] \in Line
      OBVIOUS
    <2>1. PICK p : p = Position(u, s.metas[L[n]].v)
      OBVIOUS
    <2>2. k[n] = [text |-> s.metas[L[n]].text, v |-> p] /\ p \in DOMAIN u /\ u[p] = s.metas[L[n]].v
          /\ s.metas[L[n]].text \in Texts
      BY <1>9, <2>1
    <2>3. p \in Nat \ {0}
      BY <1>7, <2>2
    <2> QED BY <2>1, <2>2, <2>3 DEF Line
  <1>11. DOMAIN k = DOMAIN L /\ k \in Seq(Line)
    BY <1>6, <1>8, <1>10
  <1> QED BY <1>1, <1>2, <1>3, <1>10, <1>11

\* The records: the lines' new positions.
LEMMA KeptRows ==
  ASSUME NEW s, s.metas \in Seq(Line), NEW rec \in Record,
         \A i \in DOMAIN rec.rows : rec.rows[i] \in Live(s)
  PROVE  /\ KeptRecord(s, rec) \in Record
         /\ KeptRecord(s, rec).stamp = rec.stamp
         /\ DOMAIN KeptRecord(s, rec).rows = DOMAIN rec.rows
         /\ \A i \in DOMAIN rec.rows :
              /\ KeptRecord(s, rec).rows[i] \in DOMAIN LiveRows(s)
              /\ LiveRows(s)[KeptRecord(s, rec).rows[i]] = rec.rows[i]
              /\ KeptRecord(s, rec).rows[i] = Position(LiveRows(s), rec.rows[i])
  <1>1. PICK L : L = LiveRows(s)
    OBVIOUS
  <1>2. Lists(L, Live(s))
    BY <1>1, LiveLists
  <1>3. Len(L) \in Nat /\ DOMAIN L = 1 .. Len(L)
    BY <1>2, SeqShape DEF Lists
  <1>r. PICK rows : rows = rec.rows
    OBVIOUS
  <1>4. rows \in Seq(Nat \ {0}) /\ Len(rows) \in Nat /\ DOMAIN rows = 1 .. Len(rows)
        /\ rec.stamp \in 0 .. MaxStamp /\ rec = [stamp |-> rec.stamp, rows |-> rows]
    BY <1>r DEF Record
  <1>5. {i \in DOMAIN rows : rows[i] \notin s.dead} = 1 .. Len(rows)
    BY <1>4, <1>r DEF Live
  <1>6. Sorted(1 .. Len(rows)) = [i \in 1 .. Len(rows) |-> i]
    BY <1>4, SortedInterval
  <1>n. PICK new : new = [i \in 1 .. Len(rows) |-> Position(L, rows[i])]
    OBVIOUS
  <1>7. KeptRecord(s, rec) = [rec EXCEPT !.rows = new]
    <2>1. PICK live : live = Sorted({i \in DOMAIN rows : rows[i] \notin s.dead})
      OBVIOUS
    <2>2. live = [i \in 1 .. Len(rows) |-> i]
      BY <1>5, <1>6, <2>1
    <2>3. [n \in DOMAIN live |-> Position(L, rows[live[n]])] = new
      BY <2>2, <1>n
    <2>4. KeptRecord(s, rec) =
             [rec EXCEPT !.rows = [n \in DOMAIN live |-> Position(L, rows[live[n]])]]
      BY <1>1, <1>r, <2>1 DEF KeptRecord
    <2> QED BY <2>3, <2>4
  <1>8. KeptRecord(s, rec) = [stamp |-> rec.stamp, rows |-> new]
    BY <1>4, <1>7
  <1>9. \A i \in DOMAIN rows : new[i] = Position(L, rows[i]) /\ new[i] \in DOMAIN L /\ L[new[i]] = rows[i]
    BY <1>2, <1>4, <1>n, <1>r, PositionIn
  <1>10. new \in Seq(Nat \ {0}) /\ DOMAIN new = DOMAIN rows
    <2>1. \A i \in 1 .. Len(rows) : new[i] \in Nat \ {0}
      BY <1>3, <1>4, <1>9
    <2> QED BY <1>4, <1>n, <2>1
  <1>11. [stamp |-> rec.stamp, rows |-> new] \in Record
    BY <1>4, <1>10 DEF Record
  <1> QED BY <1>1, <1>r, <1>8, <1>9, <1>10, <1>11

LEMMA CompactedRows ==
  ASSUME NEW s \in StoreType, Owned(s.files, Live(s))
  PROVE  /\ Compacted(s).files \in Maps(Files, Record)
         /\ Owned(Compacted(s).files, DOMAIN LiveRows(s))
  <1>1. PICK L : L = LiveRows(s)
    OBVIOUS
  <1>2. PICK new : new = Compacted(s).files
    OBVIOUS
  <1>3. new = [f \in DOMAIN s.files |-> KeptRecord(s, s.files[f])] /\ DOMAIN new = DOMAIN s.files
    BY <1>2 DEF Compacted
  <1>4. s.metas \in Seq(Line) /\ s.files \in Maps(Files, Record)
    BY DEF StoreType
  <1>5. DOMAIN s.files \subseteq Files /\ \A f \in DOMAIN s.files : s.files[f] \in Record
    BY <1>4, MapsDef
  <1>6. Lists(L, Live(s))
    BY <1>1, <1>4, LiveLists
  <1>7. ASSUME NEW f \in DOMAIN s.files
        PROVE  /\ new[f] \in Record /\ DOMAIN new[f].rows = DOMAIN s.files[f].rows
               /\ \A i \in DOMAIN s.files[f].rows :
                    new[f].rows[i] \in DOMAIN L /\ L[new[f].rows[i]] = s.files[f].rows[i]
                    /\ new[f].rows[i] = Position(L, s.files[f].rows[i])
    <2>1. \A i \in DOMAIN s.files[f].rows : s.files[f].rows[i] \in Live(s)
      BY DEF Owned
    <2>2. PICK rec \in Record : rec = s.files[f]
      BY <1>5
    <2>3. new[f] = KeptRecord(s, rec)
      BY <1>3, <2>2
    <2>4. \A i \in DOMAIN rec.rows : rec.rows[i] \in Live(s)
      BY <2>1, <2>2
    <2>5. /\ KeptRecord(s, rec) \in Record
          /\ DOMAIN KeptRecord(s, rec).rows = DOMAIN rec.rows
          /\ \A i \in DOMAIN rec.rows :
              /\ KeptRecord(s, rec).rows[i] \in DOMAIN LiveRows(s)
              /\ LiveRows(s)[KeptRecord(s, rec).rows[i]] = rec.rows[i]
              /\ KeptRecord(s, rec).rows[i] = Position(LiveRows(s), rec.rows[i])
      BY <1>4, <2>4, KeptRows
    <2> QED BY <1>1, <2>2, <2>3, <2>5
  <1>8. new \in [DOMAIN new -> Record]
    BY <1>3, <1>7
  <1>9. new \in Maps(Files, Record)
    BY <1>3, <1>5, <1>8, MapsDef
  <1>10. \A f \in DOMAIN new : \A i \in DOMAIN new[f].rows : new[f].rows[i] \in DOMAIN L
    BY <1>3, <1>7
  <1>11. ASSUME NEW f \in DOMAIN new, NEW g \in DOMAIN new,
                NEW i \in DOMAIN new[f].rows, NEW j \in DOMAIN new[g].rows,
                new[f].rows[i] = new[g].rows[j]
         PROVE  f = g /\ i = j
    <2>1. f \in DOMAIN s.files /\ g \in DOMAIN s.files
      BY <1>3
    <2>2. i \in DOMAIN s.files[f].rows /\ j \in DOMAIN s.files[g].rows
      BY <1>7, <2>1
    <2>3. s.files[f].rows[i] = s.files[g].rows[j]
      BY <1>7, <1>11, <2>1, <2>2
    <2> QED BY <2>1, <2>2, <2>3 DEF Owned
  <1>12. ASSUME NEW r \in DOMAIN L
         PROVE  \E f \in DOMAIN new : \E i \in DOMAIN new[f].rows : new[f].rows[i] = r
    <2>1. L[r] \in Live(s)
      BY <1>6, SeqShape DEF Lists
    <2>2. PICK f \in DOMAIN s.files : \E i \in DOMAIN s.files[f].rows : s.files[f].rows[i] = L[r]
      BY <2>1 DEF Owned
    <2>i. PICK i \in DOMAIN s.files[f].rows : s.files[f].rows[i] = L[r]
      BY <2>2
    <2>3. new[f].rows[i] = Position(L, L[r]) /\ i \in DOMAIN new[f].rows /\ f \in DOMAIN new
      BY <1>3, <1>7, <2>i
    <2>4. Position(L, L[r]) = r
      BY <1>6, PositionAt DEF Lists
    <2> QED BY <2>3, <2>4
  <1>13. Owned(new, DOMAIN L)
    BY <1>10, <1>11, <1>12 DEF Owned
  <1> QED BY <1>1, <1>2, <1>9, <1>13

LEMMA CompactedTexts ==
  ASSUME NEW s \in StoreType, Owned(s.files, Live(s)), NEW st, Fresh(s.files, s.metas, st)
  PROVE  Fresh(Compacted(s).files, KeptMetas(s), st)
  <1>1. PICK L : L = LiveRows(s)
    OBVIOUS
  <1>2. PICK new : new = Compacted(s).files
    OBVIOUS
  <1>k. PICK k : k = KeptMetas(s)
    OBVIOUS
  <1>3. new = [f \in DOMAIN s.files |-> KeptRecord(s, s.files[f])] /\ DOMAIN new = DOMAIN s.files
    BY <1>2 DEF Compacted
  <1>4. s.metas \in Seq(Line) /\ s.files \in Maps(Files, Record)
    BY DEF StoreType
  <1>5. DOMAIN s.files \subseteq Files /\ \A f \in DOMAIN s.files : s.files[f] \in Record
    BY <1>4, MapsDef
  <1>6. \A n \in DOMAIN L : k[n].text = s.metas[L[n]].text
    BY <1>1, <1>k, <1>4, KeptLines
  <1>7. ASSUME NEW f \in DOMAIN new
        PROVE  /\ new[f].stamp = s.files[f].stamp
               /\ Spelled(new[f].rows, k) = Spelled(s.files[f].rows, s.metas)
    <2>2. PICK rec \in Record : rec = s.files[f]
      BY <1>3, <1>5
    <2>3. new[f] = KeptRecord(s, rec)
      BY <1>3, <2>2
    <2>4. \A i \in DOMAIN rec.rows : rec.rows[i] \in Live(s)
      BY <1>3, <2>2 DEF Owned
    <2>5. /\ KeptRecord(s, rec).stamp = rec.stamp
          /\ DOMAIN KeptRecord(s, rec).rows = DOMAIN rec.rows
          /\ \A i \in DOMAIN rec.rows :
              /\ KeptRecord(s, rec).rows[i] \in DOMAIN LiveRows(s)
              /\ LiveRows(s)[KeptRecord(s, rec).rows[i]] = rec.rows[i]
      BY <1>4, <2>4, KeptRows
    <2>6. \A i \in DOMAIN rec.rows : k[new[f].rows[i]].text = s.metas[rec.rows[i]].text
      BY <1>1, <1>6, <2>3, <2>5
    <2>7. DOMAIN new[f].rows = DOMAIN rec.rows
      BY <2>3, <2>5
    <2>8. Spelled(new[f].rows, k) = Spelled(rec.rows, s.metas)
      BY <2>6, <2>7 DEF Spelled
    <2> QED BY <2>2, <2>3, <2>5, <2>8
  <1>8. Fresh(new, k, st)
    BY <1>3, <1>7 DEF Fresh
  <1> QED BY <1>2, <1>k, <1>8

LEMMA CompactedWhole ==
  ASSUME NEW s \in StoreType, NEW W \in Seq(Texts), NEW st,
         Whole(s.metas, W, s.vecs, s.dead, s.files, st)
  PROVE  /\ KeptVectors(s, W) \in Seq(Texts)
         /\ \A k : k.vectors = KeptVectors(s, W) => Replaced(Compacted(s), k, st)
  <1>c. PICK c : c = Compacted(s)
    OBVIOUS
  <1>L. PICK L : L = LiveRows(s)
    OBVIOUS
  <1>u. PICK u : u = UsedRows(s)
    OBVIOUS
  <1>k. PICK k : k = KeptMetas(s)
    OBVIOUS
  <1>w. PICK w : w = KeptVectors(s, W)
    OBVIOUS
  <1>v. PICK V : V = {s.metas[i].v : i \in Live(s)}
    OBVIOUS
  <1>1. s.metas \in Seq(Line) /\ s.vecs \in Nat
    BY DEF StoreType
  <1>2. Lists(L, Live(s)) /\ Live(s) \subseteq DOMAIN s.metas
    BY <1>1, <1>L, LiveLists
  <1>3. Lists(u, V)
    BY <1>1, <1>u, <1>v, UsedLists
  <1>4. /\ k \in Seq(Line) /\ DOMAIN k = DOMAIN L
        /\ \A n \in DOMAIN L :
              /\ k[n].text = s.metas[L[n]].text
              /\ k[n].v = Position(u, s.metas[L[n]].v)
              /\ k[n].v \in DOMAIN u
              /\ u[k[n].v] = s.metas[L[n]].v
    BY <1>1, <1>L, <1>u, <1>k, KeptLines
  <1>5. /\ s.vecs <= Len(W)
        /\ \A i \in DOMAIN s.metas : s.metas[i].v <= s.vecs /\ W[s.metas[i].v] = s.metas[i].text
        /\ ~LinesFail => \A m, n \in 1 .. s.vecs : W[m] = W[n] => m = n
    BY DEF Whole, Lines, Different
  <1>6. \A x \in V : x \in 1 .. s.vecs
    <2>1. \A i \in DOMAIN s.metas : s.metas[i] \in Line
      BY <1>1, SeqShape
    <2>2. \A i \in DOMAIN s.metas : s.metas[i].v \in Nat \ {0}
      BY <2>1 DEF Line
    <2> QED BY <1>1, <1>2, <1>5, <1>v, <2>2
  <1>7. u \in Seq(V) /\ Len(u) \in Nat /\ DOMAIN u = 1 .. Len(u) /\ \A n \in DOMAIN u : u[n] \in V
    BY <1>3, SeqShape DEF Lists
  <1>8. w = [n \in DOMAIN u |-> W[u[n]]]
    BY <1>u, <1>w DEF KeptVectors
  <1>9. w \in Seq(Texts) /\ Len(w) = Len(u) /\ \A n \in DOMAIN u : w[n] = W[u[n]]
    <2>1. \A n \in DOMAIN u : u[n] \in 1 .. Len(W)
      BY <1>1, <1>5, <1>6, <1>7
    <2>2. \A n \in DOMAIN u : W[u[n]] \in Texts
      BY <2>1, SeqShape
    <2> QED BY <1>7, <1>8, <2>2
  <1>10. L \in Seq(Live(s)) /\ Len(L) \in Nat /\ DOMAIN L = 1 .. Len(L) /\ \A n \in DOMAIN L : L[n] \in Live(s)
    BY <1>2, SeqShape DEF Lists
  <1>11. Lines(k, w, Len(u))
    <2>1. ASSUME NEW n \in DOMAIN k PROVE k[n].v <= Len(u) /\ w[k[n].v] = k[n].text
      <3>1. n \in DOMAIN L /\ L[n] \in DOMAIN s.metas
        BY <1>2, <1>4, <1>10
      <3>2. k[n].v \in DOMAIN u /\ u[k[n].v] = s.metas[L[n]].v /\ k[n].text = s.metas[L[n]].text
        BY <1>4, <3>1
      <3>3. w[k[n].v] = W[s.metas[L[n]].v]
        BY <1>9, <3>2
      <3>4. k[n].v <= Len(u)
        BY <1>7, <3>2
      <3> QED BY <1>5, <3>1, <3>2, <3>3, <3>4
    <2> QED BY <1>7, <1>9, <2>1 DEF Lines
  <1>12. Used(k, Len(u))
    <2> SUFFICES ASSUME ~LinesFail, NEW n \in 1 .. Len(u) PROVE \E i \in DOMAIN k : k[i].v = n
      BY DEF Used
    <2>1. n \in DOMAIN u /\ u[n] \in V
      BY <1>7
    <2>2. PICK i \in Live(s) : u[n] = s.metas[i].v
      BY <1>v, <2>1
    <2>3. PICK q \in DOMAIN L : L[q] = i
      BY <1>2 DEF Lists
    <2>4. k[q].v = Position(u, u[n]) /\ q \in DOMAIN k
      BY <1>4, <2>2, <2>3
    <2>5. Position(u, u[n]) = n
      BY <1>3, <2>1, PositionAt DEF Lists
    <2> QED BY <2>4, <2>5
  <1>13. Different(w, Len(u))
    <2> SUFFICES ASSUME ~LinesFail, NEW m \in 1 .. Len(u), NEW n \in 1 .. Len(u), w[m] = w[n]
                 PROVE  m = n
      BY DEF Different
    <2>1. u[m] \in 1 .. s.vecs /\ u[n] \in 1 .. s.vecs /\ W[u[m]] = W[u[n]]
      BY <1>6, <1>7, <1>9
    <2>2. u[m] = u[n]
      BY <1>5, <2>1
    <2> QED BY <1>3, <1>7, <2>2 DEF Lists
  <1>14. Owned(s.files, Live(s)) /\ Fresh(s.files, s.metas, st)
    BY DEF Whole, Live
  <1>15. c.files \in Maps(Files, Record) /\ Owned(c.files, DOMAIN k)
    BY <1>4, <1>14, <1>c, <1>L, CompactedRows
  <1>16. Fresh(c.files, k, st)
    BY <1>14, <1>c, <1>k, CompactedTexts
  <1>17. /\ c.metas = k /\ c.hv = HashRows(k) /\ c.dead = {} /\ c.vecs = Len(u)
         /\ c = [metas |-> c.metas, hv |-> c.hv, dead |-> c.dead, vecs |-> c.vecs, files |-> c.files]
    BY <1>c, <1>k, <1>u DEF Compacted
  <1>18. /\ HashRows(k) \in Maps(Texts, Nat)
         /\ \A t \in DOMAIN HashRows(k) : \E i \in DOMAIN k : HashRows(k)[t] = k[i].v
    BY <1>4, HashRowsOf
  <1>19. c \in StoreType
    BY <1>4, <1>7, <1>15, <1>17, <1>18 DEF StoreType
  <1>20. StoreRows(c)
    <2>1. \A t \in DOMAIN c.hv : c.hv[t] \in 1 .. c.vecs
      BY <1>4, <1>7, <1>17, <1>18
    <2> QED BY <1>17, <2>1 DEF StoreRows
  <1>21. Whole(c.metas, w, c.vecs, c.dead, c.files, st)
    <2>1. DOMAIN k \ {} = DOMAIN k
      OBVIOUS
    <2> QED BY <1>11, <1>12, <1>13, <1>15, <1>16, <1>17, <2>1 DEF Whole
  <1>22. \A x : x.vectors = w => Replaced(c, x, st)
    BY <1>19, <1>20, <1>21 DEF Replaced
  <1> QED BY <1>9, <1>22, <1>c, <1>w

-----------------------------------------------------------------------------
(* Missing: the texts without a vector, each once. *)

Places(works) == UNION {{i} \X DOMAIN works[i].chunks : i \in DOMAIN works}

LEMMA PlacesOf ==
  ASSUME NEW works \in Seq(Work)
  PROVE  /\ IsFiniteSet(Places(works))
         /\ \A p : p \in Places(works) <=>
               /\ p = <<p[1], p[2]>> /\ p[1] \in DOMAIN works
               /\ p[2] \in DOMAIN works[p[1]].chunks
         /\ \A p \in Places(works) :
               p[1] \in Nat /\ p[2] \in Nat /\ works[p[1]].chunks[p[2]] \in Texts
  <1>1. Len(works) \in Nat /\ DOMAIN works = 1 .. Len(works) /\ \A i \in DOMAIN works : works[i] \in Work
    BY SeqShape
  <1>2. \A i \in DOMAIN works : works[i].chunks \in Seq(Texts)
    BY <1>1 DEF Work
  <1>3. \A i \in DOMAIN works : /\ Len(works[i].chunks) \in Nat
                                /\ DOMAIN works[i].chunks = 1 .. Len(works[i].chunks)
                                /\ \A j \in DOMAIN works[i].chunks : works[i].chunks[j] \in Texts
    BY <1>2, SeqShape
  <1>4. PICK g : g = [i \in 1 .. Len(works) |-> {i} \X DOMAIN works[i].chunks]
    OBVIOUS
  <1>5. PICK P : P = {g[i] : i \in 1 .. Len(works)}
    OBVIOUS
  <1>6. P = {{i} \X DOMAIN works[i].chunks : i \in DOMAIN works}
    BY <1>1, <1>4, <1>5
  <1>7. IsFiniteSet(P)
    <2>1. IsFiniteSet(1 .. Len(works))
      BY <1>1, FS_Interval
    <2>2. g \in Surjection(1 .. Len(works), P)
      BY <1>4, <1>5 DEF Surjection
    <2> QED BY <2>1, <2>2, FS_Surjection
  <1>8. \A x \in P : IsFiniteSet(x)
    <2> SUFFICES ASSUME NEW i \in 1 .. Len(works) PROVE IsFiniteSet({i} \X DOMAIN works[i].chunks)
      BY <1>1, <1>6
    <2>1. IsFiniteSet({i})
      BY FS_Singleton
    <2>2. PICK D : D = DOMAIN works[i].chunks
      OBVIOUS
    <2>l. PICK l \in Nat : D = 1 .. l
      BY <1>1, <1>3, <2>2
    <2>3. IsFiniteSet(1 .. l)
      BY FS_Interval
    <2>3a. IsFiniteSet(D)
      BY <2>l, <2>3
    <2>4. IsFiniteSet({i} \X D)
      BY <2>1, <2>3a, FS_Product
    <2> QED BY <2>2, <2>4
  <1>9. IsFiniteSet(Places(works))
    BY <1>6, <1>7, <1>8, FS_UNION DEF Places
  <1>10. \A p : p \in Places(works) <=>
               /\ p = <<p[1], p[2]>> /\ p[1] \in DOMAIN works
               /\ p[2] \in DOMAIN works[p[1]].chunks
    BY DEF Places
  <1>11. \A p \in Places(works) :
               p[1] \in Nat /\ p[2] \in Nat /\ works[p[1]].chunks[p[2]] \in Texts
    <2> SUFFICES ASSUME NEW p \in Places(works)
                 PROVE  p[1] \in Nat /\ p[2] \in Nat /\ works[p[1]].chunks[p[2]] \in Texts
      OBVIOUS
    <2>1. PICK i : i = p[1] /\ i \in DOMAIN works
      BY <1>10
    <2>2. PICK j : j = p[2] /\ j \in DOMAIN works[i].chunks
      BY <1>10, <2>1
    <2>3. works[i].chunks[j] \in Texts /\ j \in Nat /\ i \in Nat
      BY <1>1, <1>3, <2>1, <2>2
    <2> QED BY <2>1, <2>2, <2>3
  <1> QED BY <1>9, <1>10, <1>11

\* In a list of files, the first place of a text.
Before(p, q) == p[1] < q[1] \/ (p[1] = q[1] /\ p[2] <= q[2])
TextAt(works, p) == works[p[1]].chunks[p[2]]

LEMMA FirstPlace ==
  ASSUME NEW works \in Seq(Work), NEW p \in Places(works)
  PROVE  \E q \in Places(works) :
            /\ TextAt(works, q) = TextAt(works, p)
            /\ \A r \in Places(works) : TextAt(works, r) = TextAt(works, q) => Before(q, r)
  <1> DEFINE same == {q \in Places(works) : TextAt(works, q) = TextAt(works, p)}
  <1>1. p \in same /\ \A q \in same : q[1] \in Nat /\ q[2] \in Nat
    BY PlacesOf
  <1> HIDE DEF same
  <1>2. PICK I : I = {q[1] : q \in same}
    OBVIOUS
  <1>3. I # {} /\ I \subseteq Nat
    BY <1>1, <1>2
  <1>4. PICK i \in I : \A j \in I : i <= j
    BY <1>3, Least
  <1>5. PICK J : J = {q[2] : q \in {x \in same : x[1] = i}}
    OBVIOUS
  <1>6. J # {} /\ J \subseteq Nat
    BY <1>1, <1>2, <1>4, <1>5
  <1>7. PICK j \in J : \A k \in J : j <= k
    BY <1>6, Least
  <1>8. PICK q \in same : q[1] = i /\ q[2] = j
    BY <1>5, <1>7
  <1>9. \A r \in same : Before(q, r)
    <2> SUFFICES ASSUME NEW r \in same PROVE Before(q, r)
      OBVIOUS
    <2>1. i <= r[1] /\ i \in Nat /\ r[1] \in Nat
      BY <1>1, <1>2, <1>3, <1>4
    <2>2. r[1] = i => j <= r[2]
      BY <1>5, <1>7
    <2> QED BY <1>8, <2>1, <2>2 DEF Before
  <1> QED BY <1>8, <1>9 DEF same

LEMMA MissingTexts ==
  ASSUME NEW works \in Seq(Work)
  PROVE  /\ Missing(works) \in Seq(Texts)
         /\ \A m, n \in DOMAIN Missing(works) : Missing(works)[m] = Missing(works)[n] => m = n
         /\ ToSet(Missing(works)) \cap DOMAIN store.hv = {}
         /\ \A i \in DOMAIN works : \A j \in DOMAIN works[i].chunks :
               works[i].chunks[j] \in DOMAIN store.hv \cup ToSet(Missing(works))
         /\ ToSet(Missing(works)) \subseteq UNION {ToSet(works[i].chunks) : i \in DOMAIN works}
  <1>1. PICK P : P = Places(works)
    OBVIOUS
  <1>2. PICK F : F = {p \in P : /\ TextAt(works, p) \notin DOMAIN store.hv
                                /\ \A q \in P : TextAt(works, q) = TextAt(works, p) => Before(p, q)}
    OBVIOUS
  <1>3. PICK R : R = {r \in F \X F : Before(r[1], r[2])}
    OBVIOUS
  <1>4. PICK list : list = Ordered(F, R)
    OBVIOUS
  <1>5. Missing(works) = [n \in DOMAIN list |-> TextAt(works, list[n])]
    BY <1>1, <1>2, <1>3, <1>4 DEF Missing, Places, TextAt, Before
  <1>6. /\ IsFiniteSet(P)
        /\ \A p : p \in P <=> /\ p = <<p[1], p[2]>> /\ p[1] \in DOMAIN works
                              /\ p[2] \in DOMAIN works[p[1]].chunks
        /\ \A p \in P : p[1] \in Nat /\ p[2] \in Nat /\ TextAt(works, p) \in Texts
    BY <1>1, PlacesOf DEF TextAt
  <1>7. IsFiniteSet(F) /\ \A p \in F : p \in P
    <2>1. F \in SUBSET P
      BY <1>2
    <2> QED BY <2>1, <1>6, FS_Subset
  <1>8. \A p \in F : p = <<p[1], p[2]>> /\ p[1] \in Nat /\ p[2] \in Nat
    BY <1>6, <1>7
  <1>9. \A p, q \in F : <<p, q>> \in R <=> Before(p, q)
    BY <1>3
  <1>10. Orders(R, F)
    <2>1. ASSUME NEW x \in F, NEW y \in F PROVE <<x, y>> \in R \/ <<y, x>> \in R
      <3>1. x[1] \in Nat /\ x[2] \in Nat /\ y[1] \in Nat /\ y[2] \in Nat
        BY <1>8
      <3>2. Before(x, y) \/ Before(y, x)
        BY <3>1 DEF Before
      <3> QED BY <1>9, <3>2
    <2>2. ASSUME NEW x \in F, NEW y \in F, <<x, y>> \in R, <<y, x>> \in R PROVE x = y
      <3>1. x[1] \in Nat /\ x[2] \in Nat /\ y[1] \in Nat /\ y[2] \in Nat
        BY <1>8
      <3>2. Before(x, y) /\ Before(y, x)
        BY <1>9, <2>2
      <3>3. x[1] = y[1] /\ x[2] = y[2]
        BY <3>1, <3>2 DEF Before
      <3> QED BY <1>8, <3>3
    <2>3. ASSUME NEW x \in F, NEW y \in F, NEW z \in F, <<x, y>> \in R, <<y, z>> \in R
          PROVE  <<x, z>> \in R
      <3>1. /\ x[1] \in Nat /\ x[2] \in Nat /\ y[1] \in Nat /\ y[2] \in Nat
            /\ z[1] \in Nat /\ z[2] \in Nat
        BY <1>8
      <3>2. Before(x, y) /\ Before(y, z)
        BY <1>9, <2>3
      <3>3. Before(x, z)
        BY <3>1, <3>2 DEF Before
      <3> QED BY <1>9, <3>3
    <2> QED BY <2>1, <2>2, <2>3 DEF Orders
  <1>11. PICK c \in Nat : /\ list \in [1 .. c -> F]
                          /\ \A m, n \in 1 .. c : list[m] = list[n] => m = n
                          /\ \A x \in F : \E n \in 1 .. c : list[n] = x
    BY <1>4, <1>7, <1>10, OrderedList
  <1>m. PICK ms : ms = Missing(works)
    OBVIOUS
  <1>12. /\ ms = [n \in 1 .. c |-> TextAt(works, list[n])]
         /\ \A n \in 1 .. c : ms[n] = TextAt(works, list[n]) /\ list[n] \in F
    BY <1>5, <1>11, <1>m
  <1>13. \A n \in 1 .. c : ms[n] \in Texts
    BY <1>6, <1>7, <1>12
  <1>14. ms \in Seq(Texts) /\ DOMAIN ms = 1 .. c
    BY <1>12, <1>13
  <1>15. ASSUME NEW m \in DOMAIN ms, NEW n \in DOMAIN ms, ms[m] = ms[n] PROVE m = n
    <2>1. PICK x \in F : x = list[m]
      BY <1>12, <1>14
    <2>2. PICK y \in F : y = list[n]
      BY <1>12, <1>14
    <2>3. TextAt(works, x) = TextAt(works, y)
      BY <1>12, <1>14, <1>15, <2>1, <2>2
    <2>4. Before(x, y) /\ Before(y, x)
      BY <1>2, <1>7, <2>3
    <2>5. x = y
      BY <1>9, <1>10, <2>4 DEF Orders
    <2> QED BY <1>11, <1>14, <2>1, <2>2, <2>5
  <1>16. ToSet(ms) \cap DOMAIN store.hv = {}
    BY <1>2, <1>12, <1>14 DEF ToSet
  <1>17. ASSUME NEW i \in DOMAIN works, NEW j \in DOMAIN works[i].chunks
         PROVE  works[i].chunks[j] \in DOMAIN store.hv \cup ToSet(ms)
    <2>0. PICK p : p = <<i, j>>
      OBVIOUS
    <2>1. p = <<p[1], p[2]>> /\ p[1] = i /\ p[2] = j
      BY <2>0
    <2>2. p \in P
      BY <1>6, <2>1
    <2>3. PICK q \in P : /\ TextAt(works, q) = TextAt(works, p)
                         /\ \A r \in P : TextAt(works, r) = TextAt(works, q) => Before(q, r)
      BY <1>1, <2>2, FirstPlace
    <2>4. TextAt(works, q) = works[i].chunks[j]
      BY <2>1, <2>3 DEF TextAt
    <2>5. CASE TextAt(works, q) \notin DOMAIN store.hv
      <3>1. q \in F
        BY <1>2, <2>3, <2>5
      <3>2. PICK n \in 1 .. c : list[n] = q
        BY <1>11, <3>1
      <3>3. ms[n] = TextAt(works, q) /\ n \in DOMAIN ms
        BY <1>12, <1>14, <3>2
      <3> QED BY <2>4, <3>3 DEF ToSet
    <2> QED BY <2>4, <2>5
  <1>18. ASSUME NEW t \in ToSet(ms) PROVE t \in UNION {ToSet(works[i].chunks) : i \in DOMAIN works}
    <2>1. PICK n \in 1 .. c : t = ms[n]
      BY <1>14 DEF ToSet
    <2>2. PICK p \in P : t = works[p[1]].chunks[p[2]]
      BY <1>7, <1>12, <2>1 DEF TextAt
    <2>3. p[1] \in DOMAIN works /\ p[2] \in DOMAIN works[p[1]].chunks
      BY <1>6
    <2>4. t \in ToSet(works[p[1]].chunks)
      BY <2>2, <2>3 DEF ToSet
    <2> QED BY <2>3, <2>4
  <1> QED BY <1>14, <1>15, <1>16, <1>17, <1>18, <1>m

-----------------------------------------------------------------------------
(* Folders and stores *)

LEMMA Merge ==
  ASSUME NEW f, NEW g
  PROVE  /\ DOMAIN With(f, g) = DOMAIN f \cup DOMAIN g
         /\ \A x \in DOMAIN g : With(f, g)[x] = g[x]
         /\ \A x \in DOMAIN f \ DOMAIN g : With(f, g)[x] = f[x]
         /\ With(f, g) \in [DOMAIN f \cup DOMAIN g -> {With(f, g)[x] : x \in DOMAIN f \cup DOMAIN g}]
  BY DEF With

LEMMA MergeMaps ==
  ASSUME NEW S, NEW T, NEW f \in Maps(S, T), NEW g \in Maps(S, T)
  PROVE  With(f, g) \in Maps(S, T)
  <1>1. /\ DOMAIN f \subseteq S /\ \A x \in DOMAIN f : f[x] \in T
        /\ DOMAIN g \subseteq S /\ \A x \in DOMAIN g : g[x] \in T
    BY MapsDef
  <1>2. With(f, g) \in [DOMAIN f \cup DOMAIN g -> T]
    BY <1>1 DEF With
  <1>3. DOMAIN With(f, g) = DOMAIN f \cup DOMAIN g
    BY Merge
  <1> QED BY <1>1, <1>2, <1>3, MapsDef

LEMMA SingleMap ==
  ASSUME NEW S, NEW T, NEW x \in S, NEW y \in T
  PROVE  [z \in {x} |-> y] \in Maps(S, T)
  <1>1. DOMAIN [z \in {x} |-> y] = {x} /\ [z \in {x} |-> y] \in [{x} -> T]
    OBVIOUS
  <1> QED BY <1>1, MapsDef

LEMMA SamePrefix ==
  ASSUME NEW S, NEW s \in Seq(S), NEW t \in Seq(S), NEW n \in Nat,
         n <= Len(s), n <= Len(t), \A i \in 1 .. n : s[i] = t[i]
  PROVE  SubSeq(s, 1, n) = SubSeq(t, 1, n)
  <1>1. PICK a : a = SubSeq(s, 1, n)
    OBVIOUS
  <1>2. PICK b : b = SubSeq(t, 1, n)
    OBVIOUS
  <1>3. /\ a \in Seq(S) /\ Len(a) = n /\ \A i \in 1 .. n : a[i] = s[i]
    BY <1>1, Prefix
  <1>4. /\ b \in Seq(S) /\ Len(b) = n /\ \A i \in 1 .. n : b[i] = t[i]
    BY <1>2, Prefix
  <1>5. \A i \in 1 .. Len(a) : a[i] = b[i]
    BY <1>3, <1>4
  <1>6. a = b
    BY <1>3, <1>4, <1>5, SeqEqual
  <1> QED BY <1>1, <1>2, <1>6

LEMMA WholePrefix ==
  ASSUME NEW S, NEW s \in Seq(S), NEW t \in Seq(S),
         Len(t) <= Len(s), \A i \in 1 .. Len(t) : s[i] = t[i]
  PROVE  SubSeq(s, 1, Len(t)) = t
  <1>1. Len(t) \in Nat /\ Len(s) \in Nat
    OBVIOUS
  <1>2. PICK a : a = SubSeq(s, 1, Len(t))
    OBVIOUS
  <1>3. /\ a \in Seq(S) /\ Len(a) = Len(t) /\ \A i \in 1 .. Len(t) : a[i] = s[i]
    BY <1>1, <1>2, Prefix
  <1>4. \A i \in 1 .. Len(a) : a[i] = t[i]
    BY <1>3
  <1> QED BY <1>2, <1>3, <1>4, SeqEqual

LEMMA LineFields ==
  ASSUME NEW metas \in Seq(Line)
  PROVE  \A i \in DOMAIN metas : metas[i].text \in Texts /\ metas[i].v \in Nat /\ metas[i].v >= 1
  <1>1. \A i \in DOMAIN metas : metas[i] \in Line
    BY SeqShape
  <1> QED BY <1>1 DEF Line

LEMMA Empty ==
  /\ NoFiles \in Maps(Files, Record) /\ NoFiles \in Maps(Texts, Nat)
  /\ NoFiles \in Maps(Files, 0 .. MaxStamp)
  /\ NoManifest \in ManType /\ EmptyDir \in DirType /\ NoStore \in StoreType
  /\ NoRun \in RunType /\ NoSearch \in SearchType
  /\ ManOK(EmptyDir.man) /\ \A st : Committed(EmptyDir, st)
  /\ StoreRows(NoStore)
  <1>1. \A S, T : NoFiles \in Maps(S, T)
    <2>1. DOMAIN NoFiles = {} /\ NoFiles = [f \in {} |-> 0]
      BY DEF NoFiles
    <2>2. \A T : NoFiles \in [{} -> T]
      BY DEF NoFiles
    <2> QED BY <2>1, <2>2, MapsDef
  <1>2. NoManifest \in ManType
    BY <1>1 DEF NoManifest, ManType
  <1>3. EmptyDir \in DirType
    BY <1>2 DEF EmptyDir, DirType
  <1>4. NoStore \in StoreType
    BY <1>1 DEF NoStore, StoreType
  <1>5. NoRun \in RunType
    BY <1>1 DEF NoRun, RunType, Dirs
  <1>6. NoSearch \in SearchType
    BY <1>2 DEF NoSearch, SearchType
  <1>7. Owned(NoFiles, {}) /\ (1 .. 0) \ {} = {}
    BY DEF NoFiles, Owned
  <1>8. ManOK(EmptyDir.man)
    BY <1>7 DEF ManOK, EmptyDir, NoManifest
  <1>9. PICK m : m = SubSeq(EmptyDir.chunks, 1, 0)
    OBVIOUS
  <1>10. EmptyDir.chunks = <<>> /\ <<>> \in Seq(Line) /\ Len(<<>>) = 0
    BY DEF EmptyDir
  <1>11. m \in Seq(Line) /\ Len(m) = 0 /\ DOMAIN m = {}
    BY <1>9, <1>10, Prefix
  <1>12. \A st : Whole(m, <<>>, 0, {}, NoFiles, st)
    <2>1. Lines(m, <<>>, 0)
      BY <1>10, <1>11 DEF Lines
    <2>2. Used(m, 0) /\ Different(<<>>, 0)
      BY DEF Used, Different
    <2>3. \A st : Fresh(NoFiles, m, st)
      BY DEF Fresh, NoFiles
    <2>4. {} \subseteq DOMAIN m /\ DOMAIN m \ {} = {}
      BY <1>11
    <2> QED BY <1>7, <2>1, <2>2, <2>3, <2>4 DEF Whole
  <1>13. \A st : Committed(EmptyDir, st)
    <2>1. /\ EmptyDir.man.metas = 0 /\ EmptyDir.man.vecs = 0 /\ EmptyDir.man.dead = {}
          /\ EmptyDir.man.files = NoFiles /\ EmptyDir.vectors = <<>> /\ Len(EmptyDir.chunks) = 0
      BY DEF EmptyDir, NoManifest
    <2>2. \A st : Whole(SubSeq(EmptyDir.chunks, 1, EmptyDir.man.metas), EmptyDir.vectors,
                      EmptyDir.man.vecs, EmptyDir.man.dead, EmptyDir.man.files, st)
      BY <1>9, <1>12, <2>1
    <2> QED BY <2>1, <2>2 DEF Committed
  <1>14. StoreRows(NoStore)
    BY DEF StoreRows, NoStore, NoFiles
  <1> QED BY <1>1, <1>2, <1>3, <1>4, <1>5, <1>6, <1>8, <1>13, <1>14

\* Opening a committed index.
LEMMA Opened ==
  ASSUME NEW k \in DirType, NEW st, Committed(k, st)
  PROVE  /\ ~Corrupt(k) /\ OpenStore(k) \in StoreType
         /\ StoreOK(OpenStore(k), k, st) /\ Used(OpenStore(k).metas, OpenStore(k).vecs)
  <1>k. /\ k.chunks \in Seq(Line) /\ k.vectors \in Seq(Texts)
        /\ k.man.metas \in Nat /\ k.man.vecs \in Nat /\ k.man.dead \in SUBSET Nat
        /\ k.man.files \in Maps(Files, Record)
    BY DEF DirType, ManType
  <1>s. PICK s : s = OpenStore(k)
    OBVIOUS
  <1>m. PICK m : m = SubSeq(k.chunks, 1, k.man.metas)
    OBVIOUS
  <1>1. k.man.metas <= Len(k.chunks) /\ Whole(m, k.vectors, k.man.vecs, k.man.dead, k.man.files, st)
    BY <1>m DEF Committed
  <1>2. k.man.metas \in 0 .. Len(k.chunks)
    BY <1>1, <1>k
  <1>3. /\ m \in Seq(Line) /\ Len(m) = k.man.metas /\ DOMAIN m = 1 .. k.man.metas
        /\ \A i \in 1 .. k.man.metas : m[i] = k.chunks[i]
    BY <1>k, <1>m, <1>2, Prefix
  <1>4. s = [metas |-> m, hv |-> HashRows(m), dead |-> k.man.dead, vecs |-> k.man.vecs,
             files |-> k.man.files]
    BY <1>s, <1>m DEF OpenStore, RowOf
  <1>5. /\ HashRows(m) \in Maps(Texts, Nat)
        /\ \A i \in DOMAIN m : m[i].text \in DOMAIN HashRows(m)
        /\ \A t \in DOMAIN HashRows(m) :
              \E i \in DOMAIN m : m[i].text = t /\ HashRows(m)[t] = m[i].v
    BY <1>3, HashRowsOf
  <1>6. s \in StoreType
    BY <1>k, <1>3, <1>4, <1>5 DEF StoreType
  <1>7. ~Corrupt(k)
    <2>1. k.man.vecs <= Len(k.vectors) /\ Len(k.vectors) \in Nat /\ Len(k.chunks) \in Nat
      BY <1>1, <1>k DEF Whole, Lines
    <2> QED BY <1>1, <1>k, <2>1 DEF Corrupt
  <1>8. Known(HashRows(m), k.vectors, k.man.vecs)
    <2>1. \A i \in DOMAIN m : m[i].v \in 1 .. k.man.vecs /\ k.vectors[m[i].v] = m[i].text
      BY <1>1, <1>3, <1>k, LineFields DEF Whole, Lines
    <2>2. \A t \in DOMAIN HashRows(m) :
             HashRows(m)[t] \in 1 .. k.man.vecs /\ k.vectors[HashRows(m)[t]] = t
      BY <1>5, <2>1
    <2>3. ASSUME ~LinesFail, NEW n \in 1 .. k.man.vecs
          PROVE  k.vectors[n] \in DOMAIN HashRows(m) /\ HashRows(m)[k.vectors[n]] = n
      <3>1. PICK i \in DOMAIN m : m[i].v = n
        BY <1>1, <2>3 DEF Whole, Used
      <3>2. k.vectors[n] \in DOMAIN HashRows(m)
        BY <1>5, <2>1, <3>1
      <3>3. HashRows(m)[k.vectors[n]] \in 1 .. k.man.vecs
            /\ k.vectors[HashRows(m)[k.vectors[n]]] = k.vectors[n]
        BY <2>2, <3>2
      <3> QED BY <1>1, <2>3, <3>2, <3>3 DEF Whole, Different
    <2> QED BY <2>2, <2>3 DEF Known
  <1>9. Ahead(s, k)
    BY <1>1, <1>3, <1>4, <1>k DEF Ahead
  <1>10. Live(s) = DOMAIN m \ k.man.dead
    BY <1>4 DEF Live
  <1>11. StoreOK(s, k, st) /\ Used(s.metas, s.vecs)
    BY <1>1, <1>4, <1>8, <1>9, <1>10 DEF StoreOK, Whole
  <1> QED BY <1>6, <1>7, <1>11, <1>s

\* The rows of files that are gone die, and the rest is as it was.
LEMMA Forgotten ==
  ASSUME NEW s \in StoreType, NEW k, NEW st, NEW found, StoreOK(s, k, st)
  PROVE  /\ Forget(s, found) \in StoreType /\ StoreOK(Forget(s, found), k, st)
         /\ Forget(s, found).metas = s.metas /\ Forget(s, found).vecs = s.vecs
  <1>s. /\ s.metas \in Seq(Line) /\ s.hv \in Maps(Texts, Nat) /\ s.dead \in SUBSET Nat
        /\ s.vecs \in Nat /\ s.files \in Maps(Files, Record)
        /\ s = [metas |-> s.metas, hv |-> s.hv, dead |-> s.dead, vecs |-> s.vecs, files |-> s.files]
    BY DEF StoreType
  <1>d. PICK gone : gone = UNION {ToSet(s.files[f].rows) : f \in DOMAIN s.files \ found}
    OBVIOUS
  <1>f. PICK files : files = [f \in DOMAIN s.files \cap found |-> s.files[f]]
    OBVIOUS
  <1>n. PICK n : n = Forget(s, found)
    OBVIOUS
  <1>1. n = [metas |-> s.metas, hv |-> s.hv, dead |-> s.dead \cup gone, vecs |-> s.vecs,
             files |-> files]
    BY <1>s, <1>d, <1>f, <1>n DEF Forget
  <1>2. Owned(s.files, Live(s)) /\ Live(s) \subseteq DOMAIN s.metas /\ s.dead \subseteq DOMAIN s.metas
    BY DEF StoreOK, Live
  <1>3. \A r : r \in gone <=>
           \E f \in DOMAIN s.files \ found : \E i \in DOMAIN s.files[f].rows : s.files[f].rows[i] = r
    BY <1>d DEF ToSet
  <1>4. gone \subseteq Live(s)
    BY <1>2, <1>3 DEF Owned
  <1>5. Live(n) = Live(s) \ gone
    BY <1>1 DEF Live
  <1>6. DOMAIN files = DOMAIN s.files \cap found /\ \A f \in DOMAIN files : files[f] = s.files[f]
    BY <1>f
  <1>7. Owned(files, Live(n))
    <2>1. ASSUME NEW f \in DOMAIN files, NEW i \in DOMAIN files[f].rows
          PROVE  files[f].rows[i] \in Live(n)
      <3>1. f \in DOMAIN s.files /\ f \in found /\ i \in DOMAIN s.files[f].rows
            /\ files[f].rows[i] = s.files[f].rows[i]
        BY <1>6
      <3>2. s.files[f].rows[i] \in Live(s)
        BY <1>2, <3>1 DEF Owned
      <3>3. s.files[f].rows[i] \notin gone
        BY <1>2, <1>3, <3>1 DEF Owned
      <3> QED BY <1>5, <3>1, <3>2, <3>3
    <2>2. ASSUME NEW f \in DOMAIN files, NEW g \in DOMAIN files,
                 NEW i \in DOMAIN files[f].rows, NEW j \in DOMAIN files[g].rows,
                 files[f].rows[i] = files[g].rows[j]
          PROVE  f = g /\ i = j
      BY <1>2, <1>6, <2>2 DEF Owned
    <2>3. ASSUME NEW r \in Live(n)
          PROVE  \E f \in DOMAIN files : \E i \in DOMAIN files[f].rows : files[f].rows[i] = r
      <3>1. r \in Live(s) /\ r \notin gone
        BY <1>5
      <3>2. PICK f \in DOMAIN s.files : \E i \in DOMAIN s.files[f].rows : s.files[f].rows[i] = r
        BY <1>2, <3>1 DEF Owned
      <3>3. f \in DOMAIN files
        BY <1>3, <1>6, <3>1, <3>2
      <3> QED BY <1>6, <3>2, <3>3
    <2> QED BY <2>1, <2>2, <2>3 DEF Owned
  <1>8. Fresh(files, s.metas, st)
    BY <1>6 DEF StoreOK, Fresh
  <1>9. files \in Maps(Files, Record)
    <2>1. DOMAIN files \subseteq Files /\ \A f \in DOMAIN files : files[f] \in Record
      BY <1>s, <1>6, MapsDef
    <2>2. files \in [DOMAIN files -> Record]
      BY <1>6, <1>f, <2>1
    <2> QED BY <2>1, <2>2, MapsDef
  <1>10. s.dead \cup gone \subseteq DOMAIN s.metas /\ s.dead \cup gone \in SUBSET Nat
    <2>1. DOMAIN s.metas \subseteq Nat
      BY <1>s, SeqShape
    <2> QED BY <1>2, <1>4, <2>1
  <1>11. n \in StoreType
    BY <1>1, <1>s, <1>9, <1>10 DEF StoreType
  <1>12. StoreOK(n, k, st)
    BY <1>1, <1>7, <1>8, <1>10 DEF StoreOK, Ahead
  <1> QED BY <1>1, <1>11, <1>12, <1>n

\* The vectors a store knows are of different texts.
LEMMA StoreWhole ==
  ASSUME NEW s \in StoreType, NEW k, NEW st, StoreOK(s, k, st), Used(s.metas, s.vecs)
  PROVE  Whole(s.metas, k.vectors, s.vecs, s.dead, s.files, st)
  <1>1. Different(k.vectors, s.vecs)
    <2> SUFFICES ASSUME ~LinesFail, NEW m \in 1 .. s.vecs, NEW n \in 1 .. s.vecs,
                        k.vectors[m] = k.vectors[n]
                 PROVE  m = n
      BY DEF Different
    <2>1. s.hv[k.vectors[m]] = m /\ s.hv[k.vectors[n]] = n
      BY DEF StoreOK, Known
    <2> QED BY <2>1
  <1> QED BY <1>1 DEF StoreOK, Whole, Live

\* Writing the manifest of a whole store commits it.
LEMMA CommitStore ==
  ASSUME NEW k \in DirType, NEW s \in StoreType, NEW st,
         Len(s.metas) <= Len(k.chunks), \A i \in DOMAIN s.metas : k.chunks[i] = s.metas[i],
         Whole(s.metas, k.vectors, s.vecs, s.dead, s.files, st)
  PROVE  LET j == [k EXCEPT !.man = Manifest(s)]
         IN  j \in DirType /\ ManOK(j.man) /\ Committed(j, st)
  <1>s. /\ s.metas \in Seq(Line) /\ s.hv \in Maps(Texts, Nat) /\ s.dead \in SUBSET Nat
        /\ s.vecs \in Nat /\ s.files \in Maps(Files, Record)
        /\ Len(s.metas) \in Nat /\ DOMAIN s.metas = 1 .. Len(s.metas)
    BY SeqShape DEF StoreType
  <1>k. k.chunks \in Seq(Line) /\ k.vectors \in Seq(Texts)
    BY DEF DirType
  <1>j. PICK j : j = [k EXCEPT !.man = Manifest(s)]
    OBVIOUS
  <1>m. PICK man : man = Manifest(s)
    OBVIOUS
  <1>1. /\ man \in ManType /\ man.metas = Len(s.metas) /\ man.vecs = s.vecs
        /\ man.dead = s.dead /\ man.files = s.files
    BY <1>s, <1>m DEF Manifest, ManType
  <1>2. j \in DirType /\ j.man = man /\ j.chunks = k.chunks /\ j.vectors = k.vectors
    BY <1>1, <1>j, <1>m DEF DirType
  <1>3. SubSeq(k.chunks, 1, Len(s.metas)) = s.metas
    BY <1>s, <1>k, WholePrefix
  <1>4. ManOK(man)
    BY <1>1, <1>s DEF ManOK, Whole
  <1>5. Committed(j, st)
    BY <1>1, <1>2, <1>3 DEF Committed
  <1> QED BY <1>2, <1>4, <1>5, <1>j

\* What lies after the rows the manifest counts does not matter.
LEMMA CommittedKept ==
  ASSUME NEW k \in DirType, NEW j \in DirType, NEW st, Committed(k, st), j.man = k.man,
         k.man.metas <= Len(j.chunks), k.man.vecs <= Len(j.vectors),
         \A i \in 1 .. k.man.metas : j.chunks[i] = k.chunks[i],
         \A n \in 1 .. k.man.vecs : j.vectors[n] = k.vectors[n]
  PROVE  Committed(j, st)
  <1>k. /\ k.chunks \in Seq(Line) /\ j.chunks \in Seq(Line) /\ k.man.metas \in Nat /\ k.man.vecs \in Nat
        /\ Len(k.chunks) \in Nat
    BY DEF DirType, ManType
  <1>m. PICK m : m = SubSeq(k.chunks, 1, k.man.metas)
    OBVIOUS
  <1>1. k.man.metas <= Len(k.chunks) /\ Whole(m, k.vectors, k.man.vecs, k.man.dead, k.man.files, st)
    BY <1>m DEF Committed
  <1>2. SubSeq(j.chunks, 1, k.man.metas) = m
    BY <1>k, <1>m, <1>1, SamePrefix
  <1>3. m \in Seq(Line)
    BY <1>k, <1>m, <1>1, Prefix
  <1>4. Lines(m, j.vectors, k.man.vecs)
    <2>1. \A i \in DOMAIN m : m[i].v \in 1 .. k.man.vecs
      BY <1>1, <1>3, <1>k, LineFields DEF Whole, Lines
    <2> QED BY <1>1, <2>1 DEF Whole, Lines
  <1>5. Different(j.vectors, k.man.vecs)
    BY <1>1 DEF Whole, Different
  <1>6. Whole(m, j.vectors, k.man.vecs, k.man.dead, k.man.files, st)
    BY <1>1, <1>4, <1>5 DEF Whole
  <1> QED BY <1>2, <1>6 DEF Committed

-----------------------------------------------------------------------------
(* Parts of the invariant that a step leaves alone *)

LEMMA RunParts ==
  ASSUME NEW r \in RunType
  PROVE  /\ r = [pc |-> r.pc, dir |-> r.dir, listed |-> r.listed, unread |-> r.unread,
                 todo |-> r.todo, group |-> r.group, order |-> r.order, mark |-> r.mark,
                 since |-> r.since, failed |-> r.failed]
         /\ r.dir \in Dirs /\ r.listed \in Maps(Files, 0 .. MaxStamp) /\ r.unread \subseteq Files
         /\ r.todo \in Seq(Work) /\ r.group \in Seq(Work) /\ r.order \in Seq(Texts)
         /\ r.mark \in Nat /\ r.since \in Nat /\ r.failed \in BOOLEAN
  BY DEF RunType

LEMMA StoreParts ==
  ASSUME NEW s \in StoreType
  PROVE  /\ s = [metas |-> s.metas, hv |-> s.hv, dead |-> s.dead, vecs |-> s.vecs, files |-> s.files]
         /\ s.metas \in Seq(Line) /\ s.hv \in Maps(Texts, Nat) /\ s.dead \in SUBSET Nat
         /\ s.vecs \in Nat /\ s.files \in Maps(Files, Record)
         /\ Len(s.metas) \in Nat /\ DOMAIN s.metas = 1 .. Len(s.metas)
  BY SeqShape DEF StoreType

LEMMA DirParts ==
  ASSUME NEW k \in DirType
  PROVE  /\ k = [vectors |-> k.vectors, chunks |-> k.chunks, man |-> k.man]
         /\ k.vectors \in Seq(Texts) /\ k.chunks \in Seq(Line) /\ k.man \in ManType
         /\ k.man.metas \in Nat /\ k.man.vecs \in Nat /\ k.man.dead \in SUBSET Nat
         /\ k.man.files \in Maps(Files, Record)
         /\ Len(k.chunks) \in Nat /\ Len(k.vectors) \in Nat
  BY DEF DirType, ManType

LEMMA CommittedLines ==
  ASSUME NEW k \in DirType, NEW st, Committed(k, st)
  PROVE  /\ k.man.metas <= Len(k.chunks) /\ k.man.vecs <= Len(k.vectors)
         /\ \A i \in 1 .. k.man.metas : /\ k.chunks[i].v \in 1 .. k.man.vecs
                                       /\ k.vectors[k.chunks[i].v] = k.chunks[i].text
         /\ Different(k.vectors, k.man.vecs)
         /\ Owned(k.man.files, (1 .. k.man.metas) \ k.man.dead)
         /\ \A f \in DOMAIN k.man.files :
               k.man.files[f].stamp = st[f] =>
                  Spelled(k.man.files[f].rows, k.chunks) = Content[f][st[f]]
  <1>k. /\ k.chunks \in Seq(Line) /\ k.vectors \in Seq(Texts) /\ k.man.metas \in Nat
        /\ k.man.vecs \in Nat /\ Len(k.chunks) \in Nat
    BY DirParts
  <1>m. PICK m : m = SubSeq(k.chunks, 1, k.man.metas)
    OBVIOUS
  <1>1. k.man.metas <= Len(k.chunks) /\ Whole(m, k.vectors, k.man.vecs, k.man.dead, k.man.files, st)
    BY <1>m DEF Committed
  <1>2. /\ m \in Seq(Line) /\ DOMAIN m = 1 .. k.man.metas
        /\ \A i \in 1 .. k.man.metas : m[i] = k.chunks[i]
    BY <1>k, <1>m, <1>1, Prefix
  <1>3. \A i \in 1 .. k.man.metas : /\ k.chunks[i].v \in 1 .. k.man.vecs
                                   /\ k.vectors[k.chunks[i].v] = k.chunks[i].text
    BY <1>1, <1>2, <1>k, LineFields DEF Whole, Lines
  <1>4. ASSUME NEW f \in DOMAIN k.man.files, k.man.files[f].stamp = st[f]
        PROVE  Spelled(k.man.files[f].rows, k.chunks) = Content[f][st[f]]
    <2>1. Spelled(k.man.files[f].rows, m) = Content[f][st[f]]
      BY <1>1, <1>4 DEF Whole, Fresh
    <2>2. \A i \in DOMAIN k.man.files[f].rows : k.man.files[f].rows[i] \in 1 .. k.man.metas
      BY <1>1, <1>2 DEF Whole, Owned
    <2>3. Spelled(k.man.files[f].rows, m) = Spelled(k.man.files[f].rows, k.chunks)
      BY <1>2, <2>2 DEF Spelled
    <2> QED BY <2>1, <2>3
  <1> QED BY <1>1, <1>2, <1>3, <1>4 DEF Whole, Lines

\* Time goes on: a record that is older stays older.
Later(st, tt) == \A f \in Files : st[f] \in Nat /\ tt[f] \in Nat /\ (tt[f] = st[f] \/ tt[f] > st[f])

LEMMA FreshLater ==
  ASSUME NEW files \in Maps(Files, Record), NEW metas, NEW st, NEW tt, Later(st, tt),
         Fresh(files, metas, st)
  PROVE  Fresh(files, metas, tt)
  <1> SUFFICES ASSUME NEW f \in DOMAIN files
               PROVE  /\ files[f].stamp <= tt[f]
                      /\ files[f].stamp = tt[f] => Spelled(files[f].rows, metas) = Content[f][tt[f]]
    BY DEF Fresh
  <1>1. f \in Files /\ files[f] \in Record
    BY MapsDef
  <1>2. files[f].stamp \in Nat
    BY <1>1, SemIndexAssumption DEF Record
  <1>3. files[f].stamp <= st[f] /\ (files[f].stamp = st[f] => Spelled(files[f].rows, metas) = Content[f][st[f]])
    BY DEF Fresh
  <1> QED BY <1>1, <1>2, <1>3 DEF Later

LEMMA CommittedLater ==
  ASSUME NEW k \in DirType, NEW st, NEW tt, Later(st, tt), Committed(k, st)
  PROVE  Committed(k, tt)
  <1>1. k.man.files \in Maps(Files, Record)
    BY DirParts
  <1>m. PICK m : m = SubSeq(k.chunks, 1, k.man.metas)
    OBVIOUS
  <1>2. Whole(m, k.vectors, k.man.vecs, k.man.dead, k.man.files, st)
    BY <1>m DEF Committed
  <1>3. Fresh(k.man.files, m, tt)
    BY <1>1, <1>2, FreshLater DEF Whole
  <1>4. Whole(m, k.vectors, k.man.vecs, k.man.dead, k.man.files, tt)
    BY <1>2, <1>3 DEF Whole
  <1> QED BY <1>4, <1>m DEF Committed

LEMMA StoreLater ==
  ASSUME NEW s \in StoreType, NEW k, NEW st, NEW tt, Later(st, tt)
  PROVE  /\ StoreOK(s, k, st) => StoreOK(s, k, tt)
         /\ Replaced(s, k, st) => Replaced(s, k, tt)
  <1>1. s.files \in Maps(Files, Record)
    BY StoreParts
  <1>2. Fresh(s.files, s.metas, st) => Fresh(s.files, s.metas, tt)
    BY <1>1, FreshLater
  <1>3. StoreOK(s, k, st) => StoreOK(s, k, tt)
    BY <1>2 DEF StoreOK
  <1>4. Replaced(s, k, st) => Replaced(s, k, tt)
    BY <1>2 DEF Replaced, Whole
  <1> QED BY <1>3, <1>4

\* A search keeps what it read as long as the files below its manifest stay.
LEMMA SearchKept ==
  ASSUME NEW q \in SearchType, NEW k \in DirType, NEW j \in DirType, Reads(q, k),
         k.man.metas <= j.man.metas, k.man.vecs <= j.man.vecs,
         k.man.metas <= Len(k.chunks), k.man.metas <= Len(j.chunks),
         \A i \in 1 .. k.man.metas : j.chunks[i] = k.chunks[i]
  PROVE  Reads(q, j)
  <1>1. /\ k.chunks \in Seq(Line) /\ j.chunks \in Seq(Line)
        /\ k.man.metas \in Nat /\ j.man.metas \in Nat /\ k.man.vecs \in Nat /\ j.man.vecs \in Nat
        /\ Len(k.chunks) \in Nat /\ Len(j.chunks) \in Nat
    BY DirParts
  <1>2. q.man.metas \in Nat /\ q.man.vecs \in Nat
    BY DEF SearchType, ManType
  <1>3. q.man.metas <= k.man.metas /\ q.man.vecs <= k.man.vecs
    BY DEF Reads
  <1>4. SubSeq(j.chunks, 1, q.man.metas) = SubSeq(k.chunks, 1, q.man.metas)
    <2>1. \A i \in 1 .. q.man.metas : j.chunks[i] = k.chunks[i]
      BY <1>1, <1>2, <1>3
    <2>2. q.man.metas <= Len(k.chunks) /\ q.man.metas <= Len(j.chunks)
      BY <1>1, <1>2, <1>3
    <2> QED BY <1>1, <1>2, <2>1, <2>2, SamePrefix
  <1>5. \A i \in 1 .. q.man.metas : j.chunks[i].v <= q.man.vecs
    BY <1>1, <1>2, <1>3 DEF Reads
  <1>6. q.man.metas <= j.man.metas /\ q.man.vecs <= j.man.vecs
    BY <1>1, <1>2, <1>3
  <1> QED BY <1>4, <1>5, <1>6 DEF Reads

-----------------------------------------------------------------------------
(* The user, and the steps of an Update that only read *)

LEMMA EditKeeps == ASSUME IInv, NEW f \in Files, Edit(f) PROVE IInv'
  <1> USE DEF IInv
  <1>0. UNCHANGED <<disk, store, run, search, faults>>
    BY DEF Edit
  <1>1. stamp \in [Files -> 0 .. MaxStamp] /\ stamp' = [stamp EXCEPT ![f] = @ + 1] /\ stamp[f] < MaxStamp
    BY DEF Types, Edit
  <1>2. stamp' \in [Files -> 0 .. MaxStamp]
    BY <1>1, SemIndexAssumption
  <1>3. Later(stamp, stamp')
    <2> SUFFICES ASSUME NEW g \in Files
                 PROVE  stamp[g] \in Nat /\ stamp'[g] \in Nat
                        /\ (stamp'[g] = stamp[g] \/ stamp'[g] > stamp[g])
      BY DEF Later
    <2>1. stamp[g] \in Nat /\ stamp[f] \in Nat
      BY <1>1, SemIndexAssumption
    <2> QED BY <1>1, <2>1
  <1>4. Types'
    BY <1>0, <1>2 DEF Types
  <1>5. DirsOK'
    <2> SUFFICES ASSUME NEW d \in Dirs
                 PROVE  ManOK(disk[d].man) /\ (Replacing(d) \/ Committed(disk[d], stamp'))
      BY <1>0 DEF DirsOK, Replacing
    <2>1. disk[d] \in DirType
      BY DEF Types
    <2>2. Committed(disk[d], stamp) => Committed(disk[d], stamp')
      BY <1>3, <2>1, CommittedLater
    <2> QED BY <2>2 DEF DirsOK
  <1>6. Runs'
    <2>1. store \in StoreType
      BY DEF Types
    <2>2. StoreOK(store, disk[run.dir], stamp) => StoreOK(store, disk[run.dir], stamp')
      BY <1>3, <2>1, StoreLater
    <2> QED BY <1>0, <2>2 DEF Runs
  <1>7. Works'
    <2>1. \A w \in Work : WorkOK(w, stamp) => WorkOK(w, stamp')
      <3> SUFFICES ASSUME NEW w \in Work, WorkOK(w, stamp) PROVE WorkOK(w, stamp')
        OBVIOUS
      <3>1. w.file \in Files /\ w.stamp \in Nat
        BY SemIndexAssumption DEF Work
      <3> QED BY <1>3, <3>1 DEF WorkOK, Later
    <2>2. run.todo \in Seq(Work) /\ run.group \in Seq(Work) /\ run.listed \in Maps(Files, 0 .. MaxStamp)
      BY RunParts DEF Types
    <2>3. (\A i \in DOMAIN run.todo : run.todo[i] \in Work) /\ (\A i \in DOMAIN run.group : run.group[i] \in Work)
      BY <2>2, SeqShape
    <2>4. \A g \in DOMAIN run.listed : run.listed[g] <= stamp'[g]
      <3> SUFFICES ASSUME NEW g \in DOMAIN run.listed PROVE run.listed[g] <= stamp'[g]
        OBVIOUS
      <3>1. g \in Files /\ run.listed[g] \in Nat /\ run.listed[g] <= stamp[g]
        BY <2>2, MapsDef, SemIndexAssumption DEF Works
      <3> QED BY <1>3, <3>1 DEF Later
    <2> QED BY <1>0, <2>1, <2>3, <2>4 DEF Works
  <1>8. Replacement'
    <2>1. store \in StoreType
      BY DEF Types
    <2>2. \A s : Replaced(s, disk[run.dir], stamp) => Replaced(s, disk[run.dir], stamp')
      <3> SUFFICES ASSUME NEW s, Replaced(s, disk[run.dir], stamp) PROVE Replaced(s, disk[run.dir], stamp')
        OBVIOUS
      <3>1. s \in StoreType
        BY DEF Replaced
      <3> QED BY <1>3, <3>1, StoreLater
    <2>3. Compacted(store)' = Compacted(store)
      BY <1>0
    <2> QED BY <1>0, <2>2, <2>3 DEF Replacement
  <1>9. Searching' /\ SearchMan'
    BY <1>0 DEF Searching, SearchMan, Compacting, Answers
  <1> QED BY <1>4, <1>5, <1>6, <1>7, <1>8, <1>9

LEMMA PresentFiles ==
  ASSUME NEW f \in Present, Types
  PROVE  f \in Files /\ stamp[f] \in 0 .. MaxStamp /\ Content[f][stamp[f]] \in Seq(Texts)
  <1>1. f \in Files /\ Content[f][stamp[f]] # Gone
    BY DEF Present
  <1>2. stamp[f] \in 0 .. MaxStamp
    BY <1>1 DEF Types
  <1> QED BY <1>1, <1>2, SemIndexAssumption

LEMMA ReadFileKeeps == ASSUME IInv, ReadFile PROVE IInv'
  <1> USE DEF IInv
  <1>0. UNCHANGED <<stamp, disk, store, search>> /\ run.pc = "read" /\ run.unread # {}
    BY DEF ReadFile
  <1>t. run \in RunType /\ faults \in 0 .. MaxFaults
    BY DEF Types
  <1>r. run.unread \subseteq Files /\ run.todo \in Seq(Work) /\ run.listed \in Maps(Files, 0 .. MaxStamp)
    BY <1>t, RunParts
  <1>f. PICK f : f = CHOOSE g \in run.unread : \A h \in run.unread : g <= h
    OBVIOUS
  <1>1. f \in run.unread /\ f \in Files
    <2>1. run.unread \subseteq Nat
      BY <1>r, SemIndexAssumption DEF Files
    <2>2. \E g \in run.unread : \A h \in run.unread : g <= h
      BY <1>0, <2>1, Least
    <2> QED BY <1>f, <1>r, <2>2
  <1>w. PICK w : w = [file |-> f, stamp |-> run.listed[f], chunks |-> Content[f][stamp[f]]]
    OBVIOUS
  <1>2. /\ \/ run' = [run EXCEPT !.unread = @ \ {f}, !.todo = Append(@, w)] /\ f \in Present
           \/ run' = [run EXCEPT !.unread = @ \ {f}]
        /\ faults' \in 0 .. MaxFaults
    BY <1>f, <1>w, <1>t, SemIndexAssumption DEF ReadFile
  <1>3. f \in Present => w \in Work /\ WorkOK(w, stamp)
    <2> SUFFICES ASSUME f \in Present PROVE w \in Work /\ WorkOK(w, stamp)
      OBVIOUS
    <2>1. Content[f][stamp[f]] \in Seq(Texts)
      BY PresentFiles
    <2>a. f \in DOMAIN run.listed /\ run.listed[f] <= stamp[f]
      BY <1>1 DEF Works
    <2>m. PICK M : M = 0 .. MaxStamp
      OBVIOUS
    <2>n. run.listed \in Maps(Files, M)
      BY <1>r, <2>m
    <2>l. PICK l : l = run.listed
      OBVIOUS
    <2>b. \A g \in DOMAIN l : l[g] \in M
      BY <2>n, <2>l, MapsDef
    <2>c. run.listed[f] \in M
      BY <2>a, <2>b, <2>l
    <2>2. f \in DOMAIN run.listed /\ run.listed[f] \in 0 .. MaxStamp /\ run.listed[f] <= stamp[f]
      BY <2>a, <2>c, <2>m
    <2> QED BY <1>1, <1>w, <2>1, <2>2 DEF Work, WorkOK
  <1>4. run' \in RunType /\ run'.pc = "read" /\ run'.dir = run.dir /\ run'.group = run.group
        /\ run'.unread \subseteq run.unread /\ run'.listed = run.listed
        /\ \A i \in DOMAIN run'.todo : WorkOK(run'.todo[i], stamp)
    <2>1. CASE run' = [run EXCEPT !.unread = @ \ {f}]
      <3>1. run' \in RunType
        BY <1>t, <2>1 DEF RunType
      <3> QED BY <1>0, <1>t, <2>1, <3>1 DEF RunType, Works
    <2>2. CASE f \in Present /\ run' = [run EXCEPT !.unread = @ \ {f}, !.todo = Append(@, w)]
      <3>1. PICK td : td = Append(run.todo, w)
        OBVIOUS
      <3>2. /\ td \in Seq(Work) /\ Len(td) = Len(run.todo) + 1
            /\ \A i \in 1 .. Len(run.todo) : td[i] = run.todo[i]
            /\ td[Len(run.todo) + 1] = w
        BY <1>3, <1>r, <2>2, <3>1, AppendProperties
      <3>3. \A i \in DOMAIN td : WorkOK(td[i], stamp)
        <4> SUFFICES ASSUME NEW i \in DOMAIN td PROVE WorkOK(td[i], stamp)
          OBVIOUS
        <4>1. DOMAIN td = 1 .. Len(run.todo) + 1 /\ DOMAIN run.todo = 1 .. Len(run.todo) /\ Len(run.todo) \in Nat
          BY <1>r, <3>2
        <4>2. CASE i = Len(run.todo) + 1
          BY <1>3, <2>2, <3>2, <4>2
        <4>3. CASE i \in 1 .. Len(run.todo)
          BY <3>2, <4>1, <4>3 DEF Works
        <4> QED BY <4>1, <4>2, <4>3
      <3>4. run' \in RunType /\ run'.todo = td
        BY <1>t, <2>2, <3>1, <3>2 DEF RunType
      <3> QED BY <1>0, <1>t, <2>2, <3>3, <3>4 DEF RunType
    <2> QED BY <1>2, <2>1, <2>2
  <1>5. Types'
    BY <1>0, <1>2, <1>4 DEF Types
  <1>6. DirsOK'
    BY <1>0, <1>4 DEF DirsOK, Replacing
  <1>7. Runs'
    BY <1>0, <1>4 DEF Runs
  <1>8. Works'
    BY <1>0, <1>4 DEF Works
  <1>9. Replacement'
    BY <1>0, <1>4 DEF Replacement
  <1>10. Searching' /\ SearchMan'
    BY <1>0, <1>4 DEF Searching, SearchMan, Compacting, Answers
  <1> QED BY <1>5, <1>6, <1>7, <1>8, <1>9, <1>10

LEMMA FinishKeeps == ASSUME IInv, Finish PROVE IInv'
  <1> USE DEF IInv
  <1>0. /\ UNCHANGED <<stamp, disk, store, search, faults>> /\ run.pc \in {"read", "group"}
        /\ run' = [run EXCEPT !.pc = "finish"]
    BY DEF Finish
  <1>1. run \in RunType
    BY DEF Types
  <1>2. run' \in RunType /\ run'.pc = "finish" /\ run'.dir = run.dir /\ run'.todo = run.todo
        /\ run'.group = run.group /\ run'.unread = run.unread /\ run'.listed = run.listed
    BY <1>0, <1>1 DEF RunType
  <1>5. Types'
    BY <1>0, <1>2 DEF Types
  <1>6. DirsOK'
    BY <1>0, <1>2 DEF DirsOK, Replacing
  <1>7. Runs'
    BY <1>0, <1>2 DEF Runs
  <1>8. Works'
    BY <1>0, <1>2 DEF Works
  <1>9. Replacement'
    BY <1>0, <1>2 DEF Replacement
  <1>10. Searching' /\ SearchMan'
    BY <1>0, <1>2 DEF Searching, SearchMan, Compacting, Answers
  <1> QED BY <1>5, <1>6, <1>7, <1>8, <1>9, <1>10

-----------------------------------------------------------------------------
(* Searches *)

LEMMA IndexCommitted ==
  ASSUME Types, DirsOK, ~Compacting
  PROVE  disk.index \in DirType /\ Committed(disk.index, stamp)
  <1>1. "index" \in Dirs /\ disk["index"] = disk.index
    BY DEF Dirs
  <1>2. ~Replacing("index")
    BY DEF Replacing, Compacting
  <1>3. disk["index"] \in DirType
    BY <1>1 DEF Types
  <1> QED BY <1>1, <1>2, <1>3 DEF DirsOK

LEMMA SearchOpenKeeps == ASSUME IInv, SearchOpen PROVE IInv'
  <1> USE DEF IInv
  <1>0. UNCHANGED <<stamp, disk, store, run, faults>>
    BY DEF SearchOpen
  <1>1. search' = [NoSearch EXCEPT !.pc = "chunks", !.man = disk.index.man, !.raced = Compacting]
    BY DEF SearchOpen
  <1>2. disk.index \in DirType /\ ManOK(disk.index.man)
    BY DEF Types, DirsOK, Dirs
  <1>3. disk.index.man \in ManType /\ Compacting \in BOOLEAN
    BY <1>2, DirParts DEF Compacting
  <1>4. search' \in SearchType /\ search'.pc = "chunks" /\ search'.man = disk.index.man
        /\ search'.raced = Compacting
    <2>1. PICK b \in BOOLEAN : b = Compacting
      BY <1>3
    <2>2. search' = [NoSearch EXCEPT !.pc = "chunks", !.man = disk.index.man, !.raced = b]
      BY <1>1, <2>1
    <2>3. NoSearch \in SearchType
      BY Empty
    <2> QED BY <1>3, <2>1, <2>2, <2>3 DEF SearchType
  <1>5. Types' /\ DirsOK' /\ Runs' /\ Works' /\ Replacement'
    <2>1. Types'
      BY <1>0, <1>4 DEF Types
    <2>2. DirsOK'
      BY <1>0 DEF DirsOK, Replacing
    <2>3. Runs' /\ Works'
      BY <1>0 DEF Runs, Works
    <2>4. Replacement'
      BY <1>0 DEF Replacement
    <2> QED BY <2>1, <2>2, <2>3, <2>4
  <1>6. SearchMan'
    BY <1>2, <1>4 DEF SearchMan, ManOK
  <1>7. Searching'
    <2> SUFFICES ASSUME ~search'.raced
                 PROVE  ~Compacting' /\ Reads(search', disk'.index)
      BY <1>4 DEF Searching
    <2>1. ~Compacting /\ Committed(disk.index, stamp)
      BY <1>4, IndexCommitted
    <2>2. \A i \in 1 .. disk.index.man.metas : disk.index.chunks[i].v \in 1 .. disk.index.man.vecs
      BY <1>2, <2>1, CommittedLines
    <2>3. disk.index.man.metas \in Nat /\ disk.index.man.vecs \in Nat
      BY <1>2, DirParts
    <2>4. Reads(search', disk.index)
      BY <1>4, <2>2, <2>3 DEF Reads
    <2> QED BY <1>0, <2>1, <2>4 DEF Compacting
  <1> QED BY <1>5, <1>6, <1>7

LEMMA SearchChunksKeeps == ASSUME IInv, SearchChunks PROVE IInv'
  <1> USE DEF IInv
  <1>0. UNCHANGED <<stamp, disk, store, run, faults>> /\ search.pc = "chunks"
    BY DEF SearchChunks
  <1>t. search \in SearchType
    BY DEF Types
  <1>5. DirsOK' /\ Runs' /\ Works' /\ Replacement'
    <2>2. DirsOK'
      BY <1>0 DEF DirsOK, Replacing
    <2>3. Runs' /\ Works'
      BY <1>0 DEF Runs, Works
    <2>4. Replacement'
      BY <1>0 DEF Replacement
    <2> QED BY <2>2, <2>3, <2>4
  <1>1. CASE search' = NoSearch
    <2>1. search' \in SearchType /\ search'.pc = "idle" /\ SearchMan'
      BY <1>1, Empty DEF NoSearch, SearchMan, NoManifest
    <2>2. Types'
      BY <1>0, <2>1 DEF Types
    <2>3. Searching'
      BY <2>1 DEF Searching
    <2> QED BY <1>5, <2>1, <2>2, <2>3
  <1>2. CASE ~Corrupt(Found) /\ search' = [search EXCEPT !.pc = "vectors", !.metas = OpenStore(Found).metas]
    <2>k. /\ disk.index \in DirType /\ disk.index.chunks \in Seq(Line) /\ Len(disk.index.chunks) \in Nat
          /\ Len(disk.index.vectors) \in Nat
      BY DirParts DEF Types, Dirs
    <2>n. search.man.metas \in Nat /\ search.man.vecs \in Nat
      BY <1>t DEF SearchType, ManType
    <2>1. Found.man = search.man /\ Found.chunks = disk.index.chunks
          /\ Found.vectors = disk.index.vectors
      BY <2>k DEF Found, DirType
    <2>2. OpenStore(Found).metas = SubSeq(disk.index.chunks, 1, search.man.metas)
      BY <2>1 DEF OpenStore
    <2>3. search.man.metas <= Len(disk.index.chunks)
      BY <1>2, <2>1, <2>k, <2>n DEF Corrupt
    <2>m. PICK m : m = SubSeq(disk.index.chunks, 1, search.man.metas)
      OBVIOUS
    <2>4. m \in Seq(Line)
      BY <2>k, <2>m, <2>n, <2>3, Prefix
    <2>5. search' = [search EXCEPT !.pc = "vectors", !.metas = m]
      BY <1>2, <2>2, <2>m
    <2>6. search' \in SearchType /\ search'.pc = "vectors" /\ search'.man = search.man
          /\ search'.metas = m /\ search'.raced = search.raced
      BY <1>t, <2>4, <2>5 DEF SearchType
    <2>7. Types'
      BY <1>0, <2>6 DEF Types
    <2>8. SearchMan'
      BY <2>6 DEF SearchMan
    <2>9. Searching'
      <3> SUFFICES ASSUME ~search'.raced
                   PROVE  ~Compacting' /\ Reads(search', disk'.index)
        BY <2>6 DEF Searching
      <3>1. ~Compacting /\ Reads(search, disk.index)
        BY <1>0, <2>6 DEF Searching
      <3>2. Reads(search', disk.index)
        BY <3>1, <2>6, <2>m DEF Reads
      <3> QED BY <1>0, <3>1, <3>2 DEF Compacting
    <2> QED BY <1>5, <2>7, <2>8, <2>9
  <1> QED BY <1>1, <1>2 DEF SearchChunks

LEMMA SearchVectorsKeeps == ASSUME IInv, SearchVectors PROVE IInv'
  <1> USE DEF IInv
  <1>0. UNCHANGED <<stamp, disk, store, run, faults>> /\ search.pc = "vectors"
    BY DEF SearchVectors
  <1>t. search \in SearchType
    BY DEF Types
  <1>5. DirsOK' /\ Runs' /\ Works' /\ Replacement'
    <2>2. DirsOK'
      BY <1>0 DEF DirsOK, Replacing
    <2>3. Runs' /\ Works'
      BY <1>0 DEF Runs, Works
    <2>4. Replacement'
      BY <1>0 DEF Replacement
    <2> QED BY <2>2, <2>3, <2>4
  <1>1. CASE search' = NoSearch
    <2>1. search' \in SearchType /\ search'.pc = "idle" /\ SearchMan'
      BY <1>1, Empty DEF NoSearch, SearchMan, NoManifest
    <2>2. Types'
      BY <1>0, <2>1 DEF Types
    <2>3. Searching'
      BY <2>1 DEF Searching
    <2> QED BY <1>5, <2>1, <2>2, <2>3
  <1>2. CASE /\ ~(Len(disk.index.vectors) < search.man.vecs)
             /\ search' = [search EXCEPT !.pc = "answer",
                              !.vectors = SubSeq(disk.index.vectors, 1, search.man.vecs)]
    <2>k. /\ disk.index \in DirType /\ disk.index.vectors \in Seq(Texts)
          /\ Len(disk.index.vectors) \in Nat /\ disk.index.chunks \in Seq(Line)
          /\ Len(disk.index.chunks) \in Nat
          /\ disk.index.man.metas \in Nat /\ disk.index.man.vecs \in Nat
      BY DirParts DEF Types, Dirs
    <2>n. search.man.metas \in Nat /\ search.man.vecs \in Nat
      BY <1>t DEF SearchType, ManType
    <2>m. PICK w : w = SubSeq(disk.index.vectors, 1, search.man.vecs)
      OBVIOUS
    <2>4. w \in Seq(Texts) /\ \A n \in 1 .. search.man.vecs : w[n] = disk.index.vectors[n]
      BY <1>2, <2>k, <2>m, <2>n, Prefix
    <2>5. search' = [search EXCEPT !.pc = "answer", !.vectors = w]
      BY <1>2, <2>m
    <2>6. search' \in SearchType /\ search'.pc = "answer" /\ search'.man = search.man
          /\ search'.metas = search.metas /\ search'.vectors = w /\ search'.raced = search.raced
      BY <1>t, <2>4, <2>5 DEF SearchType
    <2>7. Types'
      BY <1>0, <2>6 DEF Types
    <2>8. SearchMan'
      BY <2>6 DEF SearchMan
    <2>9. Searching'
      <3> SUFFICES ASSUME ~search'.raced
                   PROVE  ~Compacting' /\ Reads(search', disk'.index) /\ Answers(search')
        BY <2>6 DEF Searching
      <3>1. ~Compacting /\ Reads(search, disk.index)
        BY <1>0, <2>6 DEF Searching
      <3>2. Reads(search', disk.index)
        BY <3>1, <2>6, <1>0 DEF Reads
      <3>3. /\ search.man.metas <= disk.index.man.metas
            /\ disk.index.man.metas <= Len(disk.index.chunks)
            /\ \A i \in 1 .. disk.index.man.metas :
                  /\ disk.index.chunks[i].v \in Nat /\ disk.index.chunks[i].v >= 1
                  /\ disk.index.vectors[disk.index.chunks[i].v] = disk.index.chunks[i].text
        <4>1. Committed(disk.index, stamp)
          BY <3>1, IndexCommitted
        <4>2. /\ disk.index.man.metas <= Len(disk.index.chunks)
              /\ \A i \in 1 .. disk.index.man.metas :
                    /\ disk.index.chunks[i].v \in 1 .. disk.index.man.vecs
                    /\ disk.index.vectors[disk.index.chunks[i].v] = disk.index.chunks[i].text
          BY <2>k, <4>1, CommittedLines
        <4> QED BY <2>k, <3>1, <4>2 DEF Reads
      <3>4. search.metas = SubSeq(disk.index.chunks, 1, search.man.metas)
        BY <1>0, <3>1 DEF Reads
      <3>5. \A i \in 1 .. search.man.metas : search.metas[i] = disk.index.chunks[i]
        BY <2>k, <2>n, <3>3, <3>4, Prefix
      <3>6. ASSUME NEW i \in 1 .. search.man.metas
            PROVE  search.metas[i].v <= search.man.vecs /\ w[search.metas[i].v] = search.metas[i].text
        <4>1. i \in 1 .. disk.index.man.metas
          BY <2>k, <2>n, <3>3
        <4>2. search.metas[i].v <= search.man.vecs
          BY <3>1, <3>5 DEF Reads
        <4>3. search.metas[i].v \in 1 .. search.man.vecs
          BY <2>n, <3>3, <3>5, <4>1, <4>2
        <4>4. w[search.metas[i].v] = disk.index.vectors[search.metas[i].v]
          BY <2>4, <4>3
        <4> QED BY <3>3, <3>5, <4>1, <4>2, <4>4
      <3>7. Answers(search')
        BY <2>6, <3>6 DEF Answers
      <3> QED BY <1>0, <3>1, <3>2, <3>7 DEF Compacting
    <2> QED BY <1>5, <2>7, <2>8, <2>9
  <1> QED BY <1>1, <1>2 DEF SearchVectors

LEMMA SearchAnswerKeeps == ASSUME IInv, SearchAnswer PROVE IInv'
  <1> USE DEF IInv
  <1>0. UNCHANGED <<stamp, disk, store, run, faults>> /\ search' = NoSearch
    BY DEF SearchAnswer
  <1>1. search' \in SearchType /\ search'.pc = "idle" /\ SearchMan'
    BY <1>0, Empty DEF NoSearch, SearchMan, NoManifest
  <1>2. Types'
    BY <1>0, <1>1 DEF Types
  <1>3. DirsOK'
    BY <1>0 DEF DirsOK, Replacing
  <1>4. Runs' /\ Works'
    BY <1>0 DEF Runs, Works
  <1>5. Replacement'
    BY <1>0 DEF Replacement
  <1>6. Searching'
    BY <1>1 DEF Searching
  <1> QED BY <1>1, <1>2, <1>3, <1>4, <1>5, <1>6

-----------------------------------------------------------------------------
(* Begin, and the steps that end a run *)

\* Nothing of an idle run is constrained.
LEMMA Idle ==
  ASSUME NEW r, r = NoRun \/ r = [NoRun EXCEPT !.pc = "swap", !.dir = "rebuild"]
  PROVE  /\ r \in RunType /\ r.pc \in {"idle", "swap"} /\ r.todo = <<>> /\ r.group = <<>>
         /\ r.unread = {} /\ r.listed = NoFiles /\ (r.pc = "swap" => r.dir = "rebuild")
  <1>1. NoRun \in RunType
    BY Empty
  <1>2. /\ NoRun.pc = "idle" /\ NoRun.todo = <<>> /\ NoRun.group = <<>>
        /\ NoRun.unread = {} /\ NoRun.listed = NoFiles
    BY DEF NoRun
  <1>3. CASE r = NoRun
    BY <1>1, <1>2, <1>3
  <1>4. CASE r = [NoRun EXCEPT !.pc = "swap", !.dir = "rebuild"]
    <2>1. r \in RunType /\ r.pc = "swap" /\ r.dir = "rebuild"
      BY <1>1, <1>4 DEF RunType, Dirs
    <2> QED BY <1>1, <1>2, <1>4, <2>1 DEF RunType
  <1> QED BY <1>3, <1>4

LEMMA BeginKeeps == ASSUME IInv, NEW d \in Dirs, Begin(d) PROVE IInv'
  <1> USE DEF IInv
  <1>k. PICK k : k = IF d = "rebuild" THEN EmptyDir ELSE disk[d]
    OBVIOUS
  <1>s. PICK s : s = OpenStore(k)
    OBVIOUS
  <1>0. /\ run.pc = "idle" /\ UNCHANGED <<stamp, search, faults>>
        /\ disk' = [disk EXCEPT ![d] = k] /\ store' = Forget(s, Present)
    BY <1>k, <1>s DEF Begin
  <1>r. PICK force \in BOOLEAN :
           run' = [NoRun EXCEPT !.pc = "read", !.dir = d,
                     !.listed = [f \in Present |-> stamp[f]],
                     !.unread = {f \in Present :
                         force \/ f \notin DOMAIN s.files \/ s.files[f].stamp # stamp[f]}]
    BY <1>k, <1>s DEF Begin
  <1>1. ~Compacting /\ \A e \in Dirs : disk[e] \in DirType /\ ManOK(disk[e].man) /\ Committed(disk[e], stamp)
    BY <1>0 DEF Types, DirsOK, Replacing, Compacting
  <1>2. k \in DirType /\ ManOK(k.man) /\ Committed(k, stamp)
    BY <1>1, <1>k, Empty
  <1>3. /\ disk' \in [Dirs -> DirType] /\ disk'[d] = k
        /\ \A e \in Dirs : ManOK(disk'[e].man) /\ Committed(disk'[e], stamp)
    <2>1. disk \in [Dirs -> DirType]
      BY DEF Types
    <2> QED BY <1>0, <1>1, <1>2, <2>1
  <1>4. s \in StoreType /\ StoreOK(s, k, stamp) /\ Used(s.metas, s.vecs)
    BY <1>2, <1>s, Opened
  <1>5. /\ store' \in StoreType /\ StoreOK(store', k, stamp) /\ store'.metas = s.metas
        /\ store'.vecs = s.vecs
    BY <1>0, <1>4, Forgotten
  <1>l. PICK l : l = [f \in Present |-> stamp[f]]
    OBVIOUS
  <1>6. l \in Maps(Files, 0 .. MaxStamp) /\ DOMAIN l = Present /\ Present \subseteq Files
        /\ \A f \in Present : l[f] = stamp[f]
    <2>1. DOMAIN l = Present /\ Present \subseteq Files /\ \A f \in Present : l[f] = stamp[f]
      BY <1>l DEF Present
    <2>2. l \in [Present -> 0 .. MaxStamp]
      BY <1>l, <2>1 DEF Types
    <2> QED BY <2>1, <2>2, MapsDef
  <1>u. PICK u : u = {f \in Present : force \/ f \notin DOMAIN s.files \/ s.files[f].stamp # stamp[f]}
    OBVIOUS
  <1>7. run' = [NoRun EXCEPT !.pc = "read", !.dir = d, !.listed = l, !.unread = u]
    BY <1>l, <1>r, <1>u
  <1>8. /\ run' \in RunType /\ run'.pc = "read" /\ run'.dir = d /\ run'.listed = l
        /\ run'.unread = u /\ run'.todo = <<>> /\ run'.group = <<>>
    <2>1. u \subseteq Files
      BY <1>6, <1>u
    <2>2. NoRun \in RunType /\ NoRun.todo = <<>> /\ NoRun.group = <<>>
      BY Empty DEF NoRun
    <2>3. run' \in RunType
      BY <1>6, <1>7, <2>1, <2>2 DEF RunType
    <2>4. run'.pc = "read" /\ run'.dir = d /\ run'.listed = l /\ run'.unread = u
      BY <1>7 DEF NoRun
    <2>5. run'.todo = <<>> /\ run'.group = <<>>
      BY <1>7 DEF NoRun
    <2> QED BY <2>3, <2>4, <2>5
  <1>9. Types'
    BY <1>0, <1>3, <1>5, <1>8 DEF Types
  <1>10. DirsOK'
    BY <1>0, <1>3 DEF DirsOK
  <1>11. Runs'
    BY <1>0, <1>3, <1>4, <1>5, <1>8 DEF Runs
  <1>12. Works'
    <2>1. \A f \in DOMAIN l : l[f] <= stamp[f]
      <3>1. \A f \in Files : stamp[f] \in Nat
        BY SemIndexAssumption DEF Types
      <3> QED BY <1>6, <3>1
    <2> QED BY <1>0, <1>6, <1>8, <1>u, <2>1 DEF Works
  <1>13. Replacement'
    BY <1>3, <1>5, <1>8 DEF Replacement, StoreRows, StoreOK, Known
  <1>14. Searching'
    <2>1. disk'.index = disk.index \/ (d = "index" /\ disk'.index = k /\ k = disk["index"])
          \/ disk'.index = disk["index"]
      <3>1. disk \in [Dirs -> DirType] /\ "index" \in Dirs
        BY DEF Types, Dirs
      <3> QED BY <1>0, <1>k, <3>1
    <2>2. disk'.index = disk.index
      BY <2>1
    <2>3. ~Compacting'
      BY <1>8 DEF Compacting
    <2> QED BY <1>0, <2>2, <2>3 DEF Searching, Answers
  <1>15. SearchMan'
    BY <1>0 DEF SearchMan
  <1> QED BY <1>9, <1>10, <1>11, <1>12, <1>13, <1>14, <1>15

LEMMA CrashKeeps == ASSUME IInv, AtomicCompact, Crash PROVE IInv'
  <1> USE DEF IInv
  <1>0. /\ UNCHANGED <<stamp, disk, search>> /\ run' = NoRun /\ store' = NoStore
        /\ run.pc \notin {"compacting", "compacted"} /\ faults' \in 0 .. MaxFaults
    BY SemIndexAssumption DEF Crash, Types
  <1>1. /\ run' \in RunType /\ run'.pc \in {"idle", "swap"} /\ run'.todo = <<>> /\ run'.group = <<>>
        /\ run'.unread = {} /\ run'.listed = NoFiles /\ (run'.pc = "swap" => run'.dir = "rebuild")
    BY <1>0, Idle
  <1>2. store' \in StoreType /\ StoreRows(store')
    BY <1>0, Empty
  <1>3. Types'
    BY <1>0, <1>1, <1>2 DEF Types
  <1>4. DirsOK'
    BY <1>0, <1>1 DEF DirsOK, Replacing
  <1>5. Runs' /\ Works'
    BY <1>1 DEF Runs, Works, NoFiles
  <1>6. Replacement'
    BY <1>1, <1>2 DEF Replacement
  <1>7. Searching' /\ SearchMan'
    BY <1>0, <1>1 DEF Searching, SearchMan, Compacting, Answers
  <1> QED BY <1>3, <1>4, <1>5, <1>6, <1>7

LEMMA SwapKeeps == ASSUME IInv, Swap PROVE IInv'
  <1> USE DEF IInv
  <1>0. /\ UNCHANGED <<stamp, store, faults>> /\ run' = NoRun /\ run.pc = "swap"
        /\ disk' = [disk EXCEPT !.index = disk.rebuild, !.rebuild = EmptyDir]
        /\ search' = [search EXCEPT !.raced = @ \/ search.pc # "idle"]
    BY DEF Swap, Race, InPlace
  <1>1. /\ run' \in RunType /\ run'.pc \in {"idle", "swap"} /\ run'.todo = <<>> /\ run'.group = <<>>
        /\ run'.unread = {} /\ run'.listed = NoFiles /\ (run'.pc = "swap" => run'.dir = "rebuild")
    BY <1>0, Idle
  <1>2. \A e \in Dirs : disk[e] \in DirType /\ ManOK(disk[e].man) /\ Committed(disk[e], stamp)
    BY <1>0 DEF Types, DirsOK, Replacing
  <1>3. /\ disk' \in [Dirs -> DirType]
        /\ \A e \in Dirs : ManOK(disk'[e].man) /\ Committed(disk'[e], stamp)
    <2>1. disk \in [Dirs -> DirType] /\ "rebuild" \in Dirs /\ "index" \in Dirs
      BY DEF Types, Dirs
    <2>2. disk.rebuild \in DirType /\ ManOK(disk.rebuild.man) /\ Committed(disk.rebuild, stamp)
      BY <1>2, <2>1
    <2>3. \A e \in Dirs : disk'[e] = disk.rebuild \/ disk'[e] = EmptyDir
      BY <1>0, <2>1 DEF Dirs
    <2>4. disk' \in [Dirs -> DirType]
      BY <1>0, <2>1, <2>2, Empty
    <2> QED BY <2>2, <2>3, <2>4, Empty
  <1>4. search' \in SearchType /\ search'.man = search.man /\ search'.pc = search.pc
        /\ (search.pc # "idle" => search'.raced)
    <2>1. search \in SearchType
      BY DEF Types
    <2>2. PICK b \in BOOLEAN : b = (search.raced \/ search.pc # "idle")
      OBVIOUS
    <2>3. search' = [search EXCEPT !.raced = b]
      BY <1>0, <2>2
    <2> QED BY <2>1, <2>2, <2>3 DEF SearchType
  <1>5. Types'
    BY <1>0, <1>1, <1>3, <1>4 DEF Types
  <1>6. DirsOK'
    BY <1>0, <1>3 DEF DirsOK
  <1>7. Runs' /\ Works'
    BY <1>1 DEF Runs, Works, NoFiles
  <1>8. Replacement'
    BY <1>0, <1>1 DEF Replacement, StoreRows
  <1>9. Searching' /\ SearchMan'
    BY <1>4 DEF Searching, SearchMan
  <1> QED BY <1>5, <1>6, <1>7, <1>8, <1>9

-----------------------------------------------------------------------------
(* Steps that write one folder *)

LEMMA DirSet ==
  ASSUME Types, NEW d \in Dirs, NEW j \in DirType, disk' = [disk EXCEPT ![d] = j]
  PROVE  /\ disk' \in [Dirs -> DirType] /\ disk'[d] = j
         /\ \A e \in Dirs : e # d => disk'[e] = disk[e]
  <1>1. disk \in [Dirs -> DirType]
    BY DEF Types
  <1> QED BY <1>1

\* What a search read stays when the index only grows behind it.
Grown(k, j) ==
    /\ k.man.metas <= j.man.metas /\ k.man.vecs <= j.man.vecs
    /\ k.man.metas <= Len(j.chunks)
    /\ \A i \in 1 .. k.man.metas : j.chunks[i] = k.chunks[i]

LEMMA SearchGrows ==
  ASSUME Types, DirsOK, Searching, search' = search, ~Compacting', disk'["index"] \in DirType,
         ~Compacting => Grown(disk["index"], disk'["index"])
  PROVE  Searching'
  <1> SUFFICES ASSUME search.pc # "idle", ~search.raced
               PROVE  ~Compacting' /\ Reads(search, disk'.index)
                      /\ (search.pc = "answer" => Answers(search))
    BY DEF Searching, Answers
  <1>1. ~Compacting /\ Reads(search, disk.index) /\ (search.pc = "answer" => Answers(search))
    BY DEF Searching
  <1>2. disk.index \in DirType /\ Committed(disk.index, stamp)
    BY <1>1, IndexCommitted
  <1>3. disk.index.man.metas <= Len(disk.index.chunks)
    BY <1>2, CommittedLines
  <1>4. Grown(disk.index, disk'.index) /\ disk'.index \in DirType /\ search \in SearchType
    BY <1>1 DEF Types
  <1>5. Reads(search, disk'.index)
    BY <1>1, <1>2, <1>3, <1>4, SearchKept DEF Grown
  <1> QED BY <1>1, <1>5

\* The other folder is never the one being replaced.
LEMMA OtherDirs ==
  ASSUME Types, DirsOK, NEW d \in Dirs, d = run.dir, NEW e \in Dirs, e # d
  PROVE  disk[e] \in DirType /\ ManOK(disk[e].man) /\ Committed(disk[e], stamp)
  BY DEF Types, DirsOK, Replacing

LEMMA SaveKeeps == ASSUME IInv, Save PROVE IInv'
  <1> USE DEF IInv
  <1>d. PICK d : d = run.dir
    OBVIOUS
  <1>k. PICK k : k = disk[d]
    OBVIOUS
  <1>j. PICK j : j = [k EXCEPT !.man = Manifest(store)]
    OBVIOUS
  <1>t. d \in Dirs /\ k \in DirType /\ store \in StoreType
    BY <1>d, <1>k, RunParts DEF Types
  <1>0. /\ UNCHANGED <<stamp, search, faults>> /\ store' = NoStore
        /\ run.pc = "compacted" \/ run.pc = "finish"
    BY DEF Save
  <1>1. disk' = [disk EXCEPT ![d] = j]
    BY <1>d, <1>k, <1>j DEF Save
  <1>2. run' = NoRun \/ run' = [NoRun EXCEPT !.pc = "swap", !.dir = "rebuild"]
    BY DEF Save
  <1>3. /\ run' \in RunType /\ run'.pc \in {"idle", "swap"} /\ run'.todo = <<>> /\ run'.group = <<>>
        /\ run'.unread = {} /\ run'.listed = NoFiles /\ (run'.pc = "swap" => run'.dir = "rebuild")
    BY <1>2, Idle
  <1>4. Len(store.metas) <= Len(k.chunks) /\ (\A i \in DOMAIN store.metas : k.chunks[i] = store.metas[i])
        /\ Whole(store.metas, k.vectors, store.vecs, store.dead, store.files, stamp)
    <2>1. CASE run.pc = "compacted"
      <3>1. Replaced(store, k, stamp) /\ k.chunks = store.metas
        BY <1>d, <1>k, <2>1 DEF Replacement
      <3> QED BY <1>t, <3>1, StoreParts DEF Replaced
    <2>2. CASE run.pc = "finish"
      <3>1. StoreOK(store, k, stamp) /\ Used(store.metas, store.vecs)
        BY <1>d, <1>k, <2>2 DEF Runs
      <3>2. Whole(store.metas, k.vectors, store.vecs, store.dead, store.files, stamp)
        BY <1>t, <3>1, StoreWhole
      <3> QED BY <3>1, <3>2 DEF StoreOK, Ahead
    <2> QED BY <1>0, <2>1, <2>2
  <1>5. j \in DirType /\ ManOK(j.man) /\ Committed(j, stamp)
    BY <1>j, <1>t, <1>4, CommitStore
  <1>6. /\ disk' \in [Dirs -> DirType] /\ disk'[d] = j
        /\ \A e \in Dirs : e # d => disk'[e] = disk[e]
    BY <1>t, <1>1, <1>5, DirSet
  <1>7. Types'
    BY <1>0, <1>3, <1>6, Empty DEF Types
  <1>8. DirsOK'
    <2> SUFFICES ASSUME NEW e \in Dirs PROVE ManOK(disk'[e].man) /\ Committed(disk'[e], stamp)
      BY <1>0 DEF DirsOK
    <2>1. CASE e = d
      BY <1>5, <1>6, <2>1
    <2>2. CASE e # d
      BY <1>t, <1>d, <1>6, <2>2, OtherDirs
    <2> QED BY <2>1, <2>2
  <1>9. Runs' /\ Works'
    BY <1>3 DEF Runs, Works, NoFiles
  <1>10. Replacement'
    BY <1>0, <1>3, Empty DEF Replacement
  <1>11. Searching'
    <2>1. ~Compacting'
      BY <1>3 DEF Compacting
    <2>2. "index" \in Dirs /\ disk'["index"] \in DirType
      BY <1>6 DEF Dirs
    <2>3. ASSUME ~Compacting PROVE Grown(disk["index"], disk'["index"])
      <3>0. disk.index \in DirType /\ Committed(disk.index, stamp)
        BY <2>3, IndexCommitted
      <3>1. /\ disk["index"].man.metas \in Nat /\ disk["index"].man.vecs \in Nat
            /\ disk["index"].man.metas <= Len(disk["index"].chunks)
        BY <3>0, DirParts, CommittedLines
      <3>2. CASE d # "index"
        BY <1>6, <2>2, <3>1, <3>2 DEF Grown
      <3>3. CASE d = "index"
        <4>1. run.pc = "finish"
          BY <1>0, <1>d, <2>3, <3>3 DEF Compacting
        <4>2. k.man.metas <= Len(store.metas) /\ k.man.vecs <= store.vecs
          BY <1>d, <1>k, <4>1 DEF Runs, StoreOK, Ahead
        <4>3. j.man.metas = Len(store.metas) /\ j.man.vecs = store.vecs /\ j.chunks = k.chunks
          BY <1>j, <1>t DEF DirType, Manifest
        <4>4. disk["index"] = k /\ disk'["index"] = j
          BY <1>k, <1>6, <3>3
        <4> QED BY <3>1, <4>2, <4>3, <4>4 DEF Grown
      <3> QED BY <3>2, <3>3
    <2> QED BY <1>0, <2>1, <2>2, <2>3, SearchGrows
  <1>12. SearchMan'
    BY <1>0 DEF SearchMan
  <1> QED BY <1>7, <1>8, <1>9, <1>10, <1>11, <1>12

LEMMA CompactVectorsKeeps == ASSUME IInv, CompactVectors PROVE IInv'
  <1> USE DEF IInv
  <1>d. PICK d : d = run.dir
    OBVIOUS
  <1>k. PICK k : k = disk[d]
    OBVIOUS
  <1>j. PICK j : j = [k EXCEPT !.vectors = KeptVectors(store, @)]
    OBVIOUS
  <1>t. d \in Dirs /\ k \in DirType /\ store \in StoreType /\ run \in RunType /\ search \in SearchType
    BY <1>d, <1>k, RunParts DEF Types
  <1>0. /\ UNCHANGED <<stamp, store, faults>> /\ run.pc = "finish"
        /\ run' = [run EXCEPT !.pc = "compacting"]
        /\ search' = [search EXCEPT !.raced = @ \/ (d = "index" /\ search.pc # "idle")]
    BY <1>d DEF CompactVectors, Compacts, Race
  <1>1. disk' = [disk EXCEPT ![d] = j]
    BY <1>d, <1>k, <1>j DEF CompactVectors
  <1>2. Whole(store.metas, k.vectors, store.vecs, store.dead, store.files, stamp)
    <2>1. StoreOK(store, k, stamp) /\ Used(store.metas, store.vecs)
      BY <1>0, <1>d, <1>k DEF Runs
    <2> QED BY <1>t, <2>1, StoreWhole
  <1>3. KeptVectors(store, k.vectors) \in Seq(Texts)
        /\ \A x : x.vectors = KeptVectors(store, k.vectors) => Replaced(Compacted(store), x, stamp)
    <2>1. k.vectors \in Seq(Texts)
      BY <1>t, DirParts
    <2> QED BY <1>t, <1>2, <2>1, CompactedWhole
  <1>4. j \in DirType /\ j.vectors = KeptVectors(store, k.vectors) /\ j.man = k.man /\ j.chunks = k.chunks
    BY <1>j, <1>t, <1>3 DEF DirType
  <1>5. /\ disk' \in [Dirs -> DirType] /\ disk'[d] = j
        /\ \A e \in Dirs : e # d => disk'[e] = disk[e]
    BY <1>t, <1>1, <1>4, DirSet
  <1>6. /\ run' \in RunType /\ run'.pc = "compacting" /\ run'.dir = d /\ run'.todo = run.todo
        /\ run'.group = run.group /\ run'.unread = run.unread /\ run'.listed = run.listed
    BY <1>0, <1>d, <1>t DEF RunType
  <1>7. search' \in SearchType /\ search'.man = search.man /\ search'.pc = search.pc
        /\ search'.metas = search.metas /\ search'.vectors = search.vectors
        /\ (search'.raced \/ (~search.raced /\ (d = "index" => search.pc = "idle")))
    <2>1. PICK b \in BOOLEAN : b = (search.raced \/ (d = "index" /\ search.pc # "idle"))
      OBVIOUS
    <2>2. search' = [search EXCEPT !.raced = b]
      BY <1>0, <2>1
    <2> QED BY <1>t, <2>1, <2>2 DEF SearchType
  <1>8. Types'
    BY <1>0, <1>5, <1>6, <1>7 DEF Types
  <1>9. DirsOK'
    <2> SUFFICES ASSUME NEW e \in Dirs
                 PROVE  ManOK(disk'[e].man) /\ (e = d \/ Committed(disk'[e], stamp))
      BY <1>0, <1>6 DEF DirsOK, Replacing
    <2>1. CASE e = d
      BY <1>4, <1>5, <1>k, <1>t, <2>1 DEF DirsOK
    <2>2. CASE e # d
      BY <1>t, <1>d, <1>5, <2>2, OtherDirs
    <2> QED BY <2>1, <2>2
  <1>10. Runs'
    BY <1>6 DEF Runs
  <1>11. Works'
    BY <1>0, <1>6 DEF Works
  <1>12. Replacement'
    <2>1. Replaced(Compacted(store), disk'[run'.dir], stamp)
      BY <1>3, <1>4, <1>5, <1>6
    <2>2. Compacted(store)' = Compacted(store)
      BY <1>0
    <2> QED BY <1>0, <1>6, <2>1, <2>2 DEF Replacement
  <1>13. Searching'
    <2> SUFFICES ASSUME search.pc # "idle", ~search'.raced
                 PROVE  ~Compacting' /\ Reads(search', disk'.index)
                        /\ (search.pc = "answer" => Answers(search'))
      BY <1>7 DEF Searching
    <2>1. d # "index" /\ ~search.raced
      BY <1>7
    <2>2. Reads(search, disk.index) /\ (search.pc = "answer" => Answers(search))
      BY <2>1 DEF Searching
    <2>3. disk'["index"] = disk["index"]
      BY <1>5, <2>1 DEF Dirs
    <2>4. ~Compacting'
      BY <1>6, <2>1 DEF Compacting
    <2> QED BY <1>7, <2>2, <2>3, <2>4 DEF Reads, Answers
  <1>14. SearchMan'
    BY <1>7 DEF SearchMan
  <1> QED BY <1>8, <1>9, <1>10, <1>11, <1>12, <1>13, <1>14

LEMMA CompactChunksKeeps == ASSUME IInv, CompactChunks PROVE IInv'
  <1> USE DEF IInv
  <1>d. PICK d : d = run.dir
    OBVIOUS
  <1>k. PICK k : k = disk[d]
    OBVIOUS
  <1>s. PICK s : s = Compacted(store)
    OBVIOUS
  <1>j. PICK j : j = [k EXCEPT !.chunks = KeptMetas(store)]
    OBVIOUS
  <1>t. d \in Dirs /\ k \in DirType /\ store \in StoreType /\ run \in RunType /\ search \in SearchType
    BY <1>d, <1>k, RunParts DEF Types
  <1>0. /\ UNCHANGED <<stamp, faults>> /\ run.pc = "compacting" /\ store' = s
        /\ run' = [run EXCEPT !.pc = "compacted"]
        /\ search' = [search EXCEPT !.raced = @ \/ (d = "index" /\ search.pc # "idle")]
    BY <1>d, <1>s DEF CompactChunks, Race
  <1>1. disk' = [disk EXCEPT ![d] = j]
    BY <1>d, <1>k, <1>j DEF CompactChunks
  <1>2. Replaced(s, k, stamp)
    BY <1>0, <1>d, <1>k, <1>s DEF Replacement
  <1>3. s \in StoreType /\ StoreRows(s) /\ s.metas = KeptMetas(store)
    BY <1>2, <1>s DEF Replaced, Compacted
  <1>4. j \in DirType /\ j.vectors = k.vectors /\ j.man = k.man /\ j.chunks = s.metas
    <2>1. s.metas \in Seq(Line)
      BY <1>3, StoreParts
    <2> QED BY <1>j, <1>t, <1>3, <2>1 DEF DirType
  <1>5. /\ disk' \in [Dirs -> DirType] /\ disk'[d] = j
        /\ \A e \in Dirs : e # d => disk'[e] = disk[e]
    BY <1>t, <1>1, <1>4, DirSet
  <1>6. /\ run' \in RunType /\ run'.pc = "compacted" /\ run'.dir = d /\ run'.todo = run.todo
        /\ run'.group = run.group /\ run'.unread = run.unread /\ run'.listed = run.listed
    BY <1>0, <1>d, <1>t DEF RunType
  <1>7. search' \in SearchType /\ search'.man = search.man /\ search'.pc = search.pc
        /\ search'.metas = search.metas /\ search'.vectors = search.vectors
        /\ (search'.raced \/ (~search.raced /\ (d = "index" => search.pc = "idle")))
    <2>1. PICK b \in BOOLEAN : b = (search.raced \/ (d = "index" /\ search.pc # "idle"))
      OBVIOUS
    <2>2. search' = [search EXCEPT !.raced = b]
      BY <1>0, <2>1
    <2> QED BY <1>t, <2>1, <2>2 DEF SearchType
  <1>8. Types'
    BY <1>0, <1>3, <1>5, <1>6, <1>7 DEF Types
  <1>9. DirsOK'
    <2> SUFFICES ASSUME NEW e \in Dirs
                 PROVE  ManOK(disk'[e].man) /\ (e = d \/ Committed(disk'[e], stamp))
      BY <1>0, <1>6 DEF DirsOK, Replacing
    <2>1. CASE e = d
      BY <1>4, <1>5, <1>k, <1>t, <2>1 DEF DirsOK
    <2>2. CASE e # d
      BY <1>t, <1>d, <1>5, <2>2, OtherDirs
    <2> QED BY <2>1, <2>2
  <1>10. Runs'
    BY <1>6 DEF Runs
  <1>11. Works'
    BY <1>0, <1>6 DEF Works
  <1>12. Replacement'
    <2>1. Replaced(s, j, stamp)
      BY <1>2, <1>4 DEF Replaced
    <2> QED BY <1>0, <1>3, <1>4, <1>5, <1>6, <2>1 DEF Replacement
  <1>13. Searching'
    <2> SUFFICES ASSUME search.pc # "idle", ~search'.raced
                 PROVE  ~Compacting' /\ Reads(search', disk'.index)
                        /\ (search.pc = "answer" => Answers(search'))
      BY <1>7 DEF Searching
    <2>1. d # "index" /\ ~search.raced
      BY <1>7
    <2>2. Reads(search, disk.index) /\ (search.pc = "answer" => Answers(search))
      BY <2>1 DEF Searching
    <2>3. disk'["index"] = disk["index"]
      BY <1>5, <2>1 DEF Dirs
    <2>4. ~Compacting'
      BY <1>6, <2>1 DEF Compacting
    <2> QED BY <1>7, <2>2, <2>3, <2>4 DEF Reads, Answers
  <1>14. SearchMan'
    BY <1>7 DEF SearchMan
  <1> QED BY <1>8, <1>9, <1>10, <1>11, <1>12, <1>13, <1>14

-----------------------------------------------------------------------------
(* A group: its texts, its end, and what is taken back when it fails *)

LEMMA EndGroupKeeps == ASSUME IInv, EndGroup PROVE IInv'
  <1> USE DEF IInv
  <1>d. PICK d : d = run.dir
    OBVIOUS
  <1>k. PICK k : k = disk[d]
    OBVIOUS
  <1>t. d \in Dirs /\ k \in DirType /\ store \in StoreType /\ run \in RunType
    BY <1>d, <1>k, RunParts DEF Types
  <1>0. /\ UNCHANGED <<stamp, store, search, faults>> /\ run.pc = "embed" /\ run.order = <<>>
        /\ run.group = <<>>
    BY DEF EndGroup
  <1>1. StoreOK(store, k, stamp) /\ Embedding(store, k, run)
    BY <1>0, <1>d, <1>k DEF Runs
  <1>2. Used(store.metas, store.vecs)
    <2>1. GroupTexts(run) = {}
      BY <1>0 DEF GroupTexts
    <2> QED BY <1>1, <2>1 DEF Embedding, Used
  <1>3. Whole(store.metas, k.vectors, store.vecs, store.dead, store.files, stamp)
    BY <1>t, <1>1, <1>2, StoreWhole
  <1>j. PICK j : j = disk'[d]
    OBVIOUS
  <1>4. /\ disk' \in [Dirs -> DirType] /\ \A e \in Dirs : e # d => disk'[e] = disk[e]
        /\ j \in DirType /\ ManOK(j.man) /\ Committed(j, stamp) /\ StoreOK(store, j, stamp)
        /\ Grown(k, j)
    <2>1. CASE disk' = [disk EXCEPT ![run.dir].man = Manifest(store)]
      <3>m. PICK m : m = [k EXCEPT !.man = Manifest(store)]
        OBVIOUS
      <3>1. disk' = [disk EXCEPT ![d] = m]
        BY <1>d, <1>k, <3>m, <2>1
      <3>2. m \in DirType /\ ManOK(m.man) /\ Committed(m, stamp)
        BY <1>t, <1>1, <1>3, <3>m, CommitStore DEF StoreOK, Ahead
      <3>3. /\ disk' \in [Dirs -> DirType] /\ disk'[d] = m
            /\ \A e \in Dirs : e # d => disk'[e] = disk[e]
        BY <1>t, <3>1, <3>2, DirSet
      <3>4. m.man.metas = Len(store.metas) /\ m.man.vecs = store.vecs /\ m.chunks = k.chunks
            /\ m.vectors = k.vectors
        BY <1>t, <3>m DEF DirType, Manifest
      <3>5. store.vecs \in Nat /\ Len(store.metas) \in Nat /\ DOMAIN store.metas = 1 .. Len(store.metas)
            /\ k.man.metas \in Nat /\ k.man.vecs \in Nat
        BY <1>t, StoreParts, DirParts
      <3>6. StoreOK(store, m, stamp)
        BY <1>1, <3>4, <3>5 DEF StoreOK, Ahead
      <3>7. Grown(k, m)
        BY <1>1, <3>4, <3>5 DEF StoreOK, Ahead, Grown
      <3> QED BY <1>j, <3>2, <3>3, <3>6, <3>7
    <2>2. CASE disk' = disk
      <3>1. ManOK(k.man) /\ Committed(k, stamp)
        BY <1>0, <1>d, <1>k, <1>t DEF DirsOK, Replacing
      <3>2. k.man.metas \in Nat /\ k.man.vecs \in Nat /\ k.man.metas <= Len(k.chunks)
        BY <1>t, <3>1, DirParts, CommittedLines
      <3>3. Grown(k, k)
        BY <3>2 DEF Grown
      <3>4. j = k /\ disk \in [Dirs -> DirType]
        BY <1>j, <1>k, <2>2 DEF Types
      <3> QED BY <1>1, <1>t, <2>2, <3>1, <3>3, <3>4
    <2> QED BY <2>1, <2>2 DEF EndGroup
  <1>5. /\ run' \in RunType /\ run'.pc = "group" /\ run'.dir = d /\ run'.todo = run.todo
        /\ run'.group = run.group /\ run'.unread = run.unread /\ run'.listed = run.listed
    <2>1. run' = [run EXCEPT !.pc = "group", !.since = 0] \/ run' = [run EXCEPT !.pc = "group"]
      BY DEF EndGroup
    <2>2. CASE run' = [run EXCEPT !.pc = "group", !.since = 0]
      BY <1>d, <1>t, <2>2 DEF RunType
    <2>3. CASE run' = [run EXCEPT !.pc = "group"]
      BY <1>d, <1>t, <2>3 DEF RunType
    <2> QED BY <2>1, <2>2, <2>3
  <1>6. Types'
    BY <1>0, <1>4, <1>5 DEF Types
  <1>7. DirsOK'
    <2> SUFFICES ASSUME NEW e \in Dirs PROVE ManOK(disk'[e].man) /\ Committed(disk'[e], stamp)
      BY <1>0 DEF DirsOK
    <2>1. CASE e = d
      BY <1>4, <1>j, <2>1
    <2>2. CASE e # d
      BY <1>t, <1>d, <1>4, <2>2, OtherDirs
    <2> QED BY <2>1, <2>2
  <1>8. Runs'
    BY <1>0, <1>2, <1>4, <1>5, <1>j DEF Runs
  <1>9. Works'
    BY <1>0, <1>5 DEF Works
  <1>10. Replacement'
    BY <1>0, <1>5 DEF Replacement
  <1>11. Searching'
    <2>1. ~Compacting' /\ ~Compacting
      BY <1>0, <1>5 DEF Compacting
    <2>2. "index" \in Dirs /\ disk'["index"] \in DirType
      BY <1>4 DEF Dirs
    <2>3. Grown(disk["index"], disk'["index"])
      <3>0. disk.index \in DirType /\ Committed(disk.index, stamp)
        BY <2>1, IndexCommitted
      <3>1. /\ disk["index"].man.metas \in Nat /\ disk["index"].man.vecs \in Nat
            /\ disk["index"].man.metas <= Len(disk["index"].chunks)
        BY <3>0, DirParts, CommittedLines
      <3>2. CASE d # "index"
        BY <1>4, <2>2, <3>1, <3>2 DEF Grown
      <3>3. CASE d = "index"
        BY <1>4, <1>j, <1>k, <3>3
      <3> QED BY <3>2, <3>3
    <2> QED BY <1>0, <2>1, <2>2, <2>3, SearchGrows
  <1>12. SearchMan'
    BY <1>0 DEF SearchMan
  <1> QED BY <1>6, <1>7, <1>8, <1>9, <1>10, <1>11, <1>12

LEMMA RolledBackOK ==
  ASSUME NEW s \in StoreType, NEW k \in DirType, NEW st, StoreOK(s, k, st), NEW mark \in Nat,
         k.man.vecs <= mark, mark <= s.vecs,
         \A i \in DOMAIN s.metas : s.metas[i].v <= mark
  PROVE  /\ RolledBack(s, mark) \in StoreType /\ StoreOK(RolledBack(s, mark), k, st)
         /\ RolledBack(s, mark).metas = s.metas /\ RolledBack(s, mark).vecs = mark
  <1>s. /\ s.metas \in Seq(Line) /\ s.hv \in Maps(Texts, Nat) /\ s.dead \in SUBSET Nat
        /\ s.vecs \in Nat /\ s.files \in Maps(Files, Record)
        /\ s = [metas |-> s.metas, hv |-> s.hv, dead |-> s.dead, vecs |-> s.vecs, files |-> s.files]
    BY StoreParts
  <1>k. k.man.vecs \in Nat /\ Len(k.vectors) \in Nat
    BY DirParts
  <1>h. PICK h : h = [t \in {u \in DOMAIN s.hv : s.hv[u] <= mark} |-> s.hv[t]]
    OBVIOUS
  <1>r. PICK r : r = RolledBack(s, mark)
    OBVIOUS
  <1>1. r = [metas |-> s.metas, hv |-> h, dead |-> s.dead, vecs |-> mark, files |-> s.files]
    BY <1>s, <1>h, <1>r DEF RolledBack
  <1>2. /\ DOMAIN h = {u \in DOMAIN s.hv : s.hv[u] <= mark}
        /\ \A t \in DOMAIN h : t \in DOMAIN s.hv /\ h[t] = s.hv[t] /\ h[t] <= mark
    BY <1>h
  <1>3. h \in Maps(Texts, Nat)
    <2>1. DOMAIN s.hv \subseteq Texts /\ \A t \in DOMAIN s.hv : s.hv[t] \in Nat
      BY <1>s, MapsDef
    <2>2. DOMAIN h \subseteq Texts /\ \A t \in DOMAIN h : h[t] \in Nat
      BY <1>2, <2>1
    <2>3. h \in [DOMAIN h -> Nat]
      BY <1>h, <1>2, <2>2
    <2> QED BY <2>2, <2>3, MapsDef
  <1>4. Known(h, k.vectors, mark)
    <2>1. Known(s.hv, k.vectors, s.vecs)
      BY DEF StoreOK
    <2>2. \A t \in DOMAIN h : h[t] \in 1 .. mark /\ k.vectors[h[t]] = t
      BY <1>s, <1>2, <2>1 DEF Known
    <2>3. ~LinesFail => \A n \in 1 .. mark : k.vectors[n] \in DOMAIN h /\ h[k.vectors[n]] = n
      <3> SUFFICES ASSUME ~LinesFail, NEW n \in 1 .. mark
                   PROVE  k.vectors[n] \in DOMAIN h /\ h[k.vectors[n]] = n
        OBVIOUS
      <3>1. n \in 1 .. s.vecs
        BY <1>s
      <3>2. k.vectors[n] \in DOMAIN s.hv /\ s.hv[k.vectors[n]] = n
        BY <2>1, <3>1 DEF Known
      <3> QED BY <1>2, <3>2
    <2> QED BY <2>2, <2>3 DEF Known
  <1>5. Lines(s.metas, k.vectors, mark)
    <2>1. s.vecs <= Len(k.vectors) /\ \A i \in DOMAIN s.metas : k.vectors[s.metas[i].v] = s.metas[i].text
      BY DEF StoreOK, Lines
    <2>2. mark <= Len(k.vectors)
      BY <1>s, <1>k, <2>1
    <2> QED BY <2>1, <2>2 DEF Lines
  <1>6. r \in StoreType
    BY <1>1, <1>3, <1>s DEF StoreType
  <1>7. Live(r) = Live(s)
    BY <1>1 DEF Live
  <1>8. Ahead(r, k)
    BY <1>1 DEF StoreOK, Ahead
  <1>9. StoreOK(r, k, st)
    BY <1>1, <1>4, <1>5, <1>7, <1>8 DEF StoreOK
  <1> QED BY <1>1, <1>6, <1>9, <1>r

LEMMA EmbedFailsKeeps == ASSUME IInv, EmbedFails PROVE IInv'
  <1> USE DEF IInv
  <1>d. PICK d : d = run.dir
    OBVIOUS
  <1>k. PICK k : k = disk[d]
    OBVIOUS
  <1>t. d \in Dirs /\ k \in DirType /\ store \in StoreType /\ run \in RunType
    BY <1>d, <1>k, RunParts DEF Types
  <1>0. /\ UNCHANGED <<stamp, disk, search>> /\ run.pc = "embed" /\ run.order # <<>>
        /\ store' = RolledBack(store, run.mark) /\ faults' \in 0 .. MaxFaults
        /\ run' = [run EXCEPT !.pc = "finish", !.failed = TRUE]
    BY SemIndexAssumption DEF EmbedFails, Types
  <1>1. StoreOK(store, k, stamp) /\ Embedding(store, k, run)
    BY <1>0, <1>d, <1>k DEF Runs
  <1>2. run.mark \in Nat /\ k.man.vecs <= run.mark /\ run.mark <= store.vecs
        /\ \A i \in DOMAIN store.metas : store.metas[i].v <= run.mark
    BY <1>0, <1>1, <1>t, RunParts DEF Embedding
  <1>3. /\ store' \in StoreType /\ StoreOK(store', k, stamp)
        /\ store'.metas = store.metas /\ store'.vecs = run.mark
    BY <1>0, <1>1, <1>2, <1>t, RolledBackOK
  <1>4. Used(store.metas, run.mark)
    <2>1. store.vecs \in Nat
      BY <1>t, StoreParts
    <2> QED BY <1>1, <1>2, <2>1 DEF Embedding, Used
  <1>5. /\ run' \in RunType /\ run'.pc = "finish" /\ run'.dir = d /\ run'.todo = run.todo
        /\ run'.group = run.group /\ run'.unread = run.unread /\ run'.listed = run.listed
    BY <1>0, <1>d, <1>t DEF RunType
  <1>6. Types'
    BY <1>0, <1>3, <1>5 DEF Types
  <1>7. DirsOK'
    BY <1>0, <1>5 DEF DirsOK, Replacing
  <1>8. Runs'
    BY <1>0, <1>3, <1>4, <1>5, <1>k DEF Runs
  <1>9. Works'
    BY <1>0, <1>5 DEF Works
  <1>10. Replacement'
    BY <1>3, <1>5 DEF Replacement, StoreRows, StoreOK, Known
  <1>11. Searching' /\ SearchMan'
    BY <1>0, <1>5 DEF Searching, SearchMan, Compacting, Answers
  <1> QED BY <1>6, <1>7, <1>8, <1>9, <1>10, <1>11

LEMMA FormGroupKeeps == ASSUME IInv, FormGroup PROVE IInv'
  <1> USE DEF IInv
  <1>d. PICK d : d = run.dir
    OBVIOUS
  <1>k. PICK k : k = disk[d]
    OBVIOUS
  <1>t. d \in Dirs /\ k \in DirType /\ store \in StoreType /\ run \in RunType
    BY <1>d, <1>k, RunParts DEF Types
  <1>0. /\ UNCHANGED <<stamp, disk, store, search, faults>> /\ run.pc \in {"read", "group"}
        /\ run.todo # <<>>
    BY DEF FormGroup
  <1>s. /\ store.vecs \in Nat /\ store.metas \in Seq(Line) /\ k.man.vecs \in Nat
    BY <1>t, StoreParts, DirParts
  <1>w. run.todo \in Seq(Work) /\ Len(run.todo) \in Nat /\ Len(run.todo) >= 1
    <2>1. run.todo \in Seq(Work)
      BY <1>t, RunParts
    <2> QED BY <1>0, <2>1
  <1> DEFINE full(n) == Len(Missing(SubSeq(run.todo, 1, n))) >= BatchSize * 2
  <1>l. PICK last : last = CHOOSE n \in 1 .. Len(run.todo) :
                               /\ full(n) \/ n = Len(run.todo)
                               /\ \A m \in 1 .. n - 1 : ~full(m)
    OBVIOUS
  <1>1. last \in 1 .. Len(run.todo)
    <2>t. PICK T : T = {n \in 1 .. Len(run.todo) : full(n) \/ n = Len(run.todo)}
      OBVIOUS
    <2>1. T \subseteq Nat /\ T # {}
      BY <1>w, <2>t
    <2>2. PICK n \in T : \A m \in T : n <= m
      BY <2>1, Least
    <2>3. n \in 1 .. Len(run.todo) /\ (full(n) \/ n = Len(run.todo))
      BY <2>2, <2>t
    <2>4. \A m \in 1 .. n - 1 : ~full(m)
      <3> SUFFICES ASSUME NEW m \in 1 .. n - 1, full(m) PROVE FALSE
        OBVIOUS
      <3>1. m \in 1 .. Len(run.todo) /\ m < n
        BY <1>w, <2>3
      <3>2. m \in T
        BY <2>t, <3>1
      <3> QED BY <2>2, <3>1, <3>2, <2>1
    <2> HIDE DEF full
    <2> QED BY <1>l, <2>3, <2>4
  <1>g. PICK group : group = SubSeq(run.todo, 1, last)
    OBVIOUS
  <1>e. PICK rest : rest = SubSeq(run.todo, last + 1, Len(run.todo))
    OBVIOUS
  <1>o. PICK order : order = Missing(group)
    OBVIOUS
  <1>2. run' = [run EXCEPT !.pc = "embed", !.group = group, !.order = order, !.todo = rest,
                           !.mark = store.vecs]
    BY <1>l, <1>g, <1>e, <1>o DEF FormGroup
  <1> HIDE DEF full
  <1>3. /\ group \in Seq(Work) /\ DOMAIN group = 1 .. last
        /\ \A i \in 1 .. last : group[i] = run.todo[i]
    BY <1>1, <1>g, <1>w, Prefix
  <1>4. /\ rest \in Seq(Work)
        /\ \A i \in DOMAIN rest : \E m \in DOMAIN run.todo : rest[i] = run.todo[m]
    <2>1. \A i \in last + 1 .. Len(run.todo) : run.todo[i] \in Work
      BY <1>1, <1>w
    <2>2. /\ rest \in Seq(Work)
          /\ Len(rest) = IF last + 1 <= Len(run.todo) THEN Len(run.todo) - (last + 1) + 1 ELSE 0
          /\ \A i \in 1 .. Len(run.todo) - (last + 1) + 1 : rest[i] = run.todo[last + 1 + i - 1]
      BY <1>1, <1>e, <1>w, <2>1, SubSeqProperties
    <2>3. ASSUME NEW i \in DOMAIN rest PROVE \E m \in DOMAIN run.todo : rest[i] = run.todo[m]
      <3>1. i \in 1 .. Len(run.todo) - (last + 1) + 1 /\ last + 1 + i - 1 \in 1 .. Len(run.todo)
        BY <1>1, <1>w, <2>2
      <3> QED BY <1>w, <2>2, <3>1
    <2> QED BY <2>2, <2>3
  <1>5. /\ order \in Seq(Texts)
        /\ \A m, n \in DOMAIN order : order[m] = order[n] => m = n
        /\ ToSet(order) \cap DOMAIN store.hv = {}
        /\ \A i \in DOMAIN group : \A j \in DOMAIN group[i].chunks :
              group[i].chunks[j] \in DOMAIN store.hv \cup ToSet(order)
        /\ ToSet(order) \subseteq UNION {ToSet(group[i].chunks) : i \in DOMAIN group}
    BY <1>3, <1>o, MissingTexts
  <1>6. /\ run' \in RunType /\ run'.pc = "embed" /\ run'.dir = d /\ run'.todo = rest
        /\ run'.group = group /\ run'.unread = run.unread /\ run'.listed = run.listed
        /\ run'.order = order /\ run'.mark = store.vecs
    BY <1>2, <1>3, <1>4, <1>5, <1>d, <1>s, <1>t DEF RunType
  <1>7. StoreOK(store, k, stamp) /\ Used(store.metas, store.vecs)
    BY <1>0, <1>d, <1>k DEF Runs
  <1>8. Embedding(store, k, run')
    <2>1. GroupTexts(run') = UNION {ToSet(group[i].chunks) : i \in DOMAIN group}
      BY <1>6 DEF GroupTexts
    <2>2. GroupTexts(run') \subseteq DOMAIN store.hv \cup ToSet(order)
      BY <1>5, <2>1 DEF ToSet
    <2>3. k.man.vecs <= store.vecs /\ store.vecs <= store.vecs
      BY <1>7, <1>s DEF StoreOK, Ahead
    <2>4. \A i \in DOMAIN store.metas : store.metas[i].v <= store.vecs
      BY <1>7 DEF StoreOK, Lines
    <2>5. ~LinesFail => \A n \in 1 .. store.vecs : \E i \in DOMAIN store.metas : store.metas[i].v = n
      BY <1>7 DEF Used
    <2>6. ToSet(order) \subseteq GroupTexts(run')
      BY <1>5, <2>1
    <2> QED BY <1>5, <1>6, <2>2, <2>3, <2>4, <2>5, <2>6 DEF Embedding
  <1>9. Types'
    BY <1>0, <1>6 DEF Types
  <1>10. DirsOK'
    BY <1>0, <1>6 DEF DirsOK, Replacing
  <1>11. Runs'
    BY <1>0, <1>6, <1>7, <1>8, <1>k DEF Runs
  <1>12. Works'
    <2>1. \A i \in DOMAIN group : WorkOK(group[i], stamp)
      <3>1. DOMAIN run.todo = 1 .. Len(run.todo)
        BY <1>w
      <3>2. \A i \in 1 .. last : i \in DOMAIN run.todo
        BY <1>1, <1>w, <3>1
      <3> QED BY <1>3, <3>2 DEF Works
    <2>2. \A i \in DOMAIN rest : WorkOK(rest[i], stamp)
      BY <1>4 DEF Works
    <2> QED BY <1>0, <1>6, <2>1, <2>2 DEF Works
  <1>13. Replacement'
    BY <1>0, <1>6 DEF Replacement
  <1>14. Searching' /\ SearchMan'
    BY <1>0, <1>6 DEF Searching, SearchMan, Compacting, Answers
  <1> QED BY <1>9, <1>10, <1>11, <1>12, <1>13, <1>14

LEMMA GroupFailsKeeps == ASSUME IInv, GroupFails PROVE IInv'
  <1> USE DEF IInv
  <1>d. PICK d : d = run.dir
    OBVIOUS
  <1>k. PICK k : k = disk[d]
    OBVIOUS
  <1>t. d \in Dirs /\ k \in DirType /\ store \in StoreType /\ run \in RunType
    BY <1>d, <1>k, RunParts DEF Types
  <1>0. /\ UNCHANGED <<stamp, disk, store, search>> /\ run.pc = "embed" /\ run.order = <<>>
        /\ LinesFail \/ run.group = <<>>
        /\ faults' \in 0 .. MaxFaults /\ run' = [run EXCEPT !.pc = "finish", !.failed = TRUE]
    BY SemIndexAssumption DEF GroupFails, Types
  <1>1. StoreOK(store, k, stamp) /\ Embedding(store, k, run)
    BY <1>0, <1>d, <1>k DEF Runs
  <1>2. Used(store.metas, store.vecs)
    <2>1. ~LinesFail => GroupTexts(run) = {}
      BY <1>0 DEF GroupTexts
    <2> QED BY <1>1, <2>1 DEF Embedding, Used
  <1>3. /\ run' \in RunType /\ run'.pc = "finish" /\ run'.dir = d /\ run'.todo = run.todo
        /\ run'.group = run.group /\ run'.unread = run.unread /\ run'.listed = run.listed
    BY <1>0, <1>d, <1>t DEF RunType
  <1>4. Types'
    BY <1>0, <1>3 DEF Types
  <1>5. DirsOK'
    BY <1>0, <1>3 DEF DirsOK, Replacing
  <1>6. Runs'
    BY <1>0, <1>1, <1>2, <1>3, <1>k DEF Runs
  <1>7. Works'
    BY <1>0, <1>3 DEF Works
  <1>8. Replacement'
    BY <1>0, <1>3 DEF Replacement, StoreRows
  <1>9. Searching' /\ SearchMan'
    BY <1>0, <1>3 DEF Searching, SearchMan, Compacting, Answers
  <1> QED BY <1>4, <1>5, <1>6, <1>7, <1>8, <1>9

-----------------------------------------------------------------------------
(* EmbedBatch: the vectors of a request *)

\* n rows and new ones behind them.
Glued(S, a, rows, n, new) ==
    /\ a \in Seq(S) /\ Len(a) = n + Len(new)
    /\ \A i \in 1 .. n : a[i] = rows[i]
    /\ \A i \in 1 .. Len(new) : a[n + i] = new[i]

LEMMA Gluing ==
  \A S, rows, n, new :
     rows \in Seq(S) /\ new \in Seq(S) /\ n \in 0 .. Len(rows) =>
        Glued(S, AppendRows(rows, n, new), rows, n, new)
  <1> SUFFICES ASSUME NEW S, NEW rows \in Seq(S), NEW new \in Seq(S), NEW n \in 0 .. Len(rows)
               PROVE  Glued(S, AppendRows(rows, n, new), rows, n, new)
    OBVIOUS
  <1>1. /\ AppendRows(rows, n, new) \in Seq(S)
        /\ Len(AppendRows(rows, n, new)) = n + Len(new)
        /\ \A i \in 1 .. n : AppendRows(rows, n, new)[i] = rows[i]
        /\ \A i \in 1 .. Len(new) : AppendRows(rows, n, new)[n + i] = new[i]
    BY Appended
  <1> QED BY <1>1 DEF Glued

OnceEach(q) == \A m, n \in DOMAIN q : q[m] = q[n] => m = n
VectorsAdded(j, k, s, hs) == j = [k EXCEPT !.vectors = AppendRows(@, s.vecs, hs)]

\* The store after a request, and what its texts map to.
Batched(s, n, hs) ==
    [s EXCEPT !.vecs = @ + n, !.hv = With(@, [t \in ToSet(hs) |-> s.vecs + Position(hs, t)])]

LEMMA BatchedOK ==
  ASSUME NEW s \in StoreType, NEW k \in DirType, NEW st, StoreOK(s, k, st),
         NEW hs \in Seq(Texts), OnceEach(hs), ToSet(hs) \cap DOMAIN s.hv = {}, NEW j,
         VectorsAdded(j, k, s, hs)
  PROVE  /\ j \in DirType /\ j.man = k.man /\ j.chunks = k.chunks
         /\ s.vecs + Len(hs) <= Len(j.vectors) /\ s.vecs <= Len(k.vectors)
         /\ \A n \in 1 .. s.vecs : j.vectors[n] = k.vectors[n]
         /\ \A n \in 1 .. Len(hs) : j.vectors[s.vecs + n] = hs[n]
         /\ Batched(s, Len(hs), hs) \in StoreType /\ StoreOK(Batched(s, Len(hs), hs), j, st)
         /\ Batched(s, Len(hs), hs).metas = s.metas
         /\ Batched(s, Len(hs), hs).vecs = s.vecs + Len(hs)
         /\ DOMAIN Batched(s, Len(hs), hs).hv = DOMAIN s.hv \cup ToSet(hs)
  <1>s. /\ s.metas \in Seq(Line) /\ s.hv \in Maps(Texts, Nat) /\ s.dead \in SUBSET Nat
        /\ s.vecs \in Nat /\ s.files \in Maps(Files, Record)
        /\ s = [metas |-> s.metas, hv |-> s.hv, dead |-> s.dead, vecs |-> s.vecs, files |-> s.files]
        /\ Len(s.metas) \in Nat /\ DOMAIN s.metas = 1 .. Len(s.metas)
    BY StoreParts
  <1>k. k.vectors \in Seq(Texts) /\ Len(k.vectors) \in Nat /\ k.man.vecs \in Nat
    BY DirParts
  <1>h. Len(hs) \in Nat /\ DOMAIN hs = 1 .. Len(hs) /\ \A n \in DOMAIN hs : hs[n] \in Texts
    BY SeqShape
  <1>1. s.vecs <= Len(k.vectors) /\ s.vecs \in 0 .. Len(k.vectors)
    BY <1>s, <1>k DEF StoreOK, Lines
  <1>w. PICK w : w = AppendRows(k.vectors, s.vecs, hs)
    OBVIOUS
  <1>2. /\ w \in Seq(Texts) /\ Len(w) = s.vecs + Len(hs)
        /\ \A n \in 1 .. s.vecs : w[n] = k.vectors[n]
        /\ \A n \in 1 .. Len(hs) : w[s.vecs + n] = hs[n]
    <2>1. Glued(Texts, w, k.vectors, s.vecs, hs)
      BY <1>1, <1>k, <1>w, Gluing
    <2> QED BY <2>1 DEF Glued
  <1>3. j \in DirType /\ j.man = k.man /\ j.chunks = k.chunks /\ j.vectors = w
    <2>1. j = [k EXCEPT !.vectors = w]
      BY <1>w DEF VectorsAdded
    <2> QED BY <1>2, <2>1 DEF DirType
  <1>n. PICK new : new = [t \in ToSet(hs) |-> s.vecs + Position(hs, t)]
    OBVIOUS
  <1>v. PICK h : h = With(s.hv, new)
    OBVIOUS
  <1>r. PICK r : r = Batched(s, Len(hs), hs)
    OBVIOUS
  <1>4. r = [metas |-> s.metas, hv |-> h, dead |-> s.dead, vecs |-> s.vecs + Len(hs),
             files |-> s.files]
    BY <1>s, <1>n, <1>v, <1>r DEF Batched
  <1>5. /\ DOMAIN h = DOMAIN s.hv \cup ToSet(hs)
        /\ \A t \in ToSet(hs) : h[t] = s.vecs + Position(hs, t)
        /\ \A t \in DOMAIN s.hv \ ToSet(hs) : h[t] = s.hv[t]
    <2>1. DOMAIN new = ToSet(hs) /\ \A t \in ToSet(hs) : new[t] = s.vecs + Position(hs, t)
      BY <1>n
    <2> QED BY <1>v, <2>1 DEF With
  <1>6. \A n \in DOMAIN hs : hs[n] \in ToSet(hs) /\ Position(hs, hs[n]) = n
    BY PositionAt DEF ToSet, OnceEach
  <1>7. \A t \in ToSet(hs) : \E n \in 1 .. Len(hs) : hs[n] = t /\ h[t] = s.vecs + n
    <2> SUFFICES ASSUME NEW t \in ToSet(hs)
                 PROVE  \E n \in 1 .. Len(hs) : hs[n] = t /\ h[t] = s.vecs + n
      OBVIOUS
    <2>1. PICK n \in DOMAIN hs : hs[n] = t
      BY DEF ToSet
    <2> QED BY <1>5, <1>6, <1>h, <2>1
  <1>8. Known(s.hv, k.vectors, s.vecs)
    BY DEF StoreOK
  <1>9. Known(h, w, s.vecs + Len(hs))
    <2>1. ASSUME NEW t \in DOMAIN h PROVE h[t] \in 1 .. s.vecs + Len(hs) /\ w[h[t]] = t
      <3>1. CASE t \in ToSet(hs)
        <4>1. PICK n \in 1 .. Len(hs) : hs[n] = t /\ h[t] = s.vecs + n
          BY <1>7, <3>1
        <4>2. s.vecs + n \in 1 .. s.vecs + Len(hs)
          BY <1>s, <1>h
        <4> QED BY <1>2, <4>1, <4>2
      <3>2. CASE t \in DOMAIN s.hv \ ToSet(hs)
        <4>1. h[t] \in 1 .. s.vecs /\ k.vectors[h[t]] = t
          BY <1>5, <1>8, <3>2 DEF Known
        <4>2. h[t] \in 1 .. s.vecs + Len(hs)
          BY <1>s, <1>h, <4>1
        <4> QED BY <1>2, <4>1, <4>2
      <3> QED BY <1>5, <3>1, <3>2
    <2>2. ASSUME ~LinesFail, NEW n \in 1 .. s.vecs + Len(hs) PROVE w[n] \in DOMAIN h /\ h[w[n]] = n
      <3>1. CASE n <= s.vecs
        <4>1. n \in 1 .. s.vecs
          BY <1>s, <3>1
        <4>2. w[n] \in DOMAIN s.hv /\ s.hv[w[n]] = n
          BY <1>2, <1>8, <2>2, <4>1 DEF Known
        <4>3. w[n] \notin ToSet(hs)
          BY <4>2
        <4> QED BY <1>5, <4>2, <4>3
      <3>2. CASE n > s.vecs
        <4>1. PICK m \in 1 .. Len(hs) : n = s.vecs + m
          <5>1. n - s.vecs \in 1 .. Len(hs) /\ n = s.vecs + (n - s.vecs)
            BY <1>s, <1>h, <3>2
          <5> QED BY <5>1
        <4>2. w[n] = hs[m]
          BY <1>2, <4>1
        <4>3. hs[m] \in ToSet(hs) /\ Position(hs, hs[m]) = m
          BY <1>6, <1>h
        <4> QED BY <1>5, <4>1, <4>2, <4>3
      <3> QED BY <1>s, <3>1, <3>2
    <2> QED BY <2>1, <2>2 DEF Known
  <1>10. h \in Maps(Texts, Nat)
    <2>1. \A t \in DOMAIN h : h[t] \in Nat
      <3>1. \A t \in DOMAIN h : h[t] \in 1 .. s.vecs + Len(hs)
        BY <1>9 DEF Known
      <3> QED BY <3>1
    <2>2. DOMAIN h \subseteq Texts
      <3>1. DOMAIN s.hv \subseteq Texts
        BY <1>s, MapsDef
      <3> QED BY <1>5, <1>h, <3>1 DEF ToSet
    <2>3. h = [t \in DOMAIN h |-> h[t]]
      BY <1>v DEF With
    <2> QED BY <2>1, <2>2, <2>3, MapsDef
  <1>11. r \in StoreType
    <2>1. s.vecs + Len(hs) \in Nat
      BY <1>s, <1>h
    <2> QED BY <1>4, <1>10, <1>s, <2>1 DEF StoreType
  <1>12. Lines(s.metas, w, s.vecs + Len(hs))
    <2>1. ASSUME NEW i \in DOMAIN s.metas
          PROVE  s.metas[i].v <= s.vecs + Len(hs) /\ w[s.metas[i].v] = s.metas[i].text
      <3>1. s.metas[i].v <= s.vecs /\ k.vectors[s.metas[i].v] = s.metas[i].text
        BY DEF StoreOK, Lines
      <3>2. s.metas[i].v \in 1 .. s.vecs
        BY <1>s, <3>1, LineFields
      <3> QED BY <1>2, <1>s, <1>h, <3>1, <3>2
    <2>2. s.vecs + Len(hs) <= Len(w)
      BY <1>2, <1>s, <1>h
    <2> QED BY <2>1, <2>2 DEF Lines
  <1>13. Ahead(r, j)
    <2>1. k.man.vecs <= s.vecs + Len(hs)
      BY <1>s, <1>h, <1>k DEF StoreOK, Ahead
    <2> QED BY <1>3, <1>4, <2>1 DEF StoreOK, Ahead
  <1>14. Live(r) = Live(s)
    BY <1>4 DEF Live
  <1>15. StoreOK(r, j, st)
    BY <1>3, <1>4, <1>9, <1>12, <1>13, <1>14 DEF StoreOK
  <1>16. s.vecs + Len(hs) <= Len(w)
    BY <1>2, <1>s, <1>h
  <1> QED BY <1>1, <1>2, <1>3, <1>4, <1>5, <1>11, <1>15, <1>16, <1>r

LEMMA RestLength ==
  \A L \in Nat : \A n \in 0 .. L : (IF n + 1 <= L THEN L - (n + 1) + 1 ELSE 0) = L - n
  OBVIOUS

\* A list of texts is cut in two.
LEMMA Cut ==
  ASSUME NEW order \in Seq(Texts), NEW n \in 0 .. Len(order),
         \A i, j \in DOMAIN order : order[i] = order[j] => i = j
  PROVE  LET hs == SubSeq(order, 1, n)
             rest == SubSeq(order, n + 1, Len(order))
         IN  /\ hs \in Seq(Texts) /\ Len(hs) = n
             /\ \A i, j \in DOMAIN hs : hs[i] = hs[j] => i = j
             /\ rest \in Seq(Texts)
             /\ \A i, j \in DOMAIN rest : rest[i] = rest[j] => i = j
             /\ ToSet(order) = ToSet(hs) \cup ToSet(rest)
             /\ ToSet(hs) \cap ToSet(rest) = {}
  <1>h. PICK hs : hs = SubSeq(order, 1, n)
    OBVIOUS
  <1>r. PICK rest : rest = SubSeq(order, n + 1, Len(order))
    OBVIOUS
  <1>o. Len(order) \in Nat /\ DOMAIN order = 1 .. Len(order)
    OBVIOUS
  <1>1. /\ hs \in Seq(Texts) /\ Len(hs) = n /\ DOMAIN hs = 1 .. n
        /\ \A i \in 1 .. n : hs[i] = order[i]
    BY <1>h, Prefix
  <1>2. /\ rest \in Seq(Texts) /\ DOMAIN rest = 1 .. Len(order) - n
        /\ \A i \in 1 .. Len(order) - n : rest[i] = order[n + i]
    <2>1. \A i \in n + 1 .. Len(order) : order[i] \in Texts
      BY <1>o
    <2>2. /\ rest \in Seq(Texts)
          /\ Len(rest) = IF n + 1 <= Len(order) THEN Len(order) - (n + 1) + 1 ELSE 0
          /\ \A i \in 1 .. Len(order) - (n + 1) + 1 : rest[i] = order[n + 1 + i - 1]
      BY <1>o, <1>r, <2>1, SubSeqProperties
    <2>3. Len(rest) = Len(order) - n /\ DOMAIN rest = 1 .. Len(rest)
      <3>3. Len(rest) = Len(order) - n
        BY <1>o, <2>2, RestLength
      <3>4. DOMAIN rest = 1 .. Len(rest)
        BY <2>2, SeqShape
      <3> QED BY <3>3, <3>4
    <2>4. \A i \in 1 .. Len(order) - n : rest[i] = order[n + i]
      <3> SUFFICES ASSUME NEW i \in 1 .. Len(order) - n PROVE rest[i] = order[n + i]
        OBVIOUS
      <3>1. i \in 1 .. Len(order) - (n + 1) + 1 /\ n + 1 + i - 1 = n + i
        BY <1>o
      <3> QED BY <2>2, <3>1
    <2> QED BY <2>2, <2>3, <2>4
  <1>3. \A i, j \in DOMAIN hs : hs[i] = hs[j] => i = j
    BY <1>1, <1>o
  <1>4. \A i, j \in DOMAIN rest : rest[i] = rest[j] => i = j
    <2> SUFFICES ASSUME NEW i \in DOMAIN rest, NEW j \in DOMAIN rest, rest[i] = rest[j] PROVE i = j
      OBVIOUS
    <2>1. n + i \in DOMAIN order /\ n + j \in DOMAIN order /\ i \in Nat /\ j \in Nat
      BY <1>2, <1>o
    <2>2. n + i = n + j
      BY <1>2, <2>1
    <2> QED BY <2>1, <2>2
  <1>5. \A i \in DOMAIN order : \/ \E m \in DOMAIN hs : hs[m] = order[i]
                                \/ \E m \in DOMAIN rest : rest[m] = order[i]
    <2> SUFFICES ASSUME NEW i \in DOMAIN order
                 PROVE  \/ \E m \in DOMAIN hs : hs[m] = order[i]
                        \/ \E m \in DOMAIN rest : rest[m] = order[i]
      OBVIOUS
    <2>1. CASE i <= n
      <3>1. i \in DOMAIN hs
        BY <1>1, <1>o, <2>1
      <3> QED BY <1>1, <3>1
    <2>2. CASE i > n
      <3>1. i - n \in 1 .. Len(order) - n /\ n + (i - n) = i
        BY <1>o, <2>2
      <3> QED BY <1>2, <3>1
    <2> QED BY <1>o, <2>1, <2>2
  <1>6. (\A m \in DOMAIN hs : m \in DOMAIN order /\ hs[m] = order[m])
        /\ (\A m \in DOMAIN rest : n + m \in DOMAIN order /\ rest[m] = order[n + m])
    BY <1>1, <1>2, <1>o
  <1>7. ToSet(order) = ToSet(hs) \cup ToSet(rest)
    BY <1>5, <1>6 DEF ToSet
  <1>8. ToSet(hs) \cap ToSet(rest) = {}
    <2> SUFFICES ASSUME NEW i \in DOMAIN hs, NEW m \in DOMAIN rest, hs[i] = rest[m] PROVE FALSE
      BY DEF ToSet
    <2>1. i = n + m
      BY <1>6
    <2> QED BY <1>1, <1>2, <1>o, <2>1
  <1> QED BY <1>1, <1>2, <1>3, <1>4, <1>7, <1>8, <1>h, <1>r

LEMMA EmbedBatchKeeps == ASSUME IInv, EmbedBatch PROVE IInv'
  <1> USE DEF IInv
  <1>d. PICK d : d = run.dir
    OBVIOUS
  <1>k. PICK k : k = disk[d]
    OBVIOUS
  <1>t. d \in Dirs /\ k \in DirType /\ store \in StoreType /\ run \in RunType
    BY <1>d, <1>k, RunParts DEF Types
  <1>n. PICK n : n = IF Len(run.order) < BatchSize THEN Len(run.order) ELSE BatchSize
    OBVIOUS
  <1>h. PICK hs : hs = SubSeq(run.order, 1, n)
    OBVIOUS
  <1>r. PICK rest : rest = SubSeq(run.order, n + 1, Len(run.order))
    OBVIOUS
  <1>j. PICK j : j = [k EXCEPT !.vectors = AppendRows(@, store.vecs, hs)]
    OBVIOUS
  <1>0. UNCHANGED <<stamp, search, faults>> /\ run.pc = "embed" /\ run.order # <<>>
    BY DEF EmbedBatch
  <1>1. disk' = [disk EXCEPT ![d] = j]
    BY <1>d, <1>k, <1>h, <1>j, <1>n DEF EmbedBatch
  <1>2. store' = Batched(store, n, hs)
    BY <1>h, <1>n DEF EmbedBatch, Batched
  <1>3. run' = [run EXCEPT !.order = rest, !.since = @ + n]
    BY <1>r, <1>n DEF EmbedBatch
  <1>4. StoreOK(store, k, stamp) /\ Embedding(store, k, run)
    BY <1>0, <1>d, <1>k DEF Runs
  <1>5. run.order \in Seq(Texts) /\ Len(run.order) \in Nat /\ n \in 0 .. Len(run.order)
    <2>1. run.order \in Seq(Texts) /\ Len(run.order) \in Nat
      BY <1>t, RunParts
    <2> QED BY <1>n, <2>1, SemIndexAssumption
  <1>6. /\ hs \in Seq(Texts) /\ Len(hs) = n
        /\ \A x, y \in DOMAIN hs : hs[x] = hs[y] => x = y
        /\ rest \in Seq(Texts)
        /\ \A x, y \in DOMAIN rest : rest[x] = rest[y] => x = y
        /\ ToSet(run.order) = ToSet(hs) \cup ToSet(rest)
        /\ ToSet(hs) \cap ToSet(rest) = {}
    <2>o. PICK order \in Seq(Texts) : order = run.order
      BY <1>5
    <2>1. n \in 0 .. Len(order) /\ (\A x, y \in DOMAIN order : order[x] = order[y] => x = y)
      BY <1>4, <1>5, <2>o DEF Embedding
    <2>2. hs = SubSeq(order, 1, n) /\ rest = SubSeq(order, n + 1, Len(order))
      BY <1>h, <1>r, <2>o
    <2> QED BY <2>o, <2>1, <2>2, Cut
  <1>7. ToSet(hs) \cap DOMAIN store.hv = {} /\ ToSet(hs) \subseteq GroupTexts(run)
    BY <1>4, <1>6 DEF Embedding
  <1>8. /\ j \in DirType /\ j.man = k.man /\ j.chunks = k.chunks
        /\ store.vecs + n <= Len(j.vectors) /\ store.vecs <= Len(k.vectors)
        /\ \A m \in 1 .. store.vecs : j.vectors[m] = k.vectors[m]
        /\ \A m \in 1 .. n : j.vectors[store.vecs + m] = hs[m]
        /\ store' \in StoreType /\ StoreOK(store', j, stamp)
        /\ store'.metas = store.metas /\ store'.vecs = store.vecs + n
        /\ DOMAIN store'.hv = DOMAIN store.hv \cup ToSet(hs)
    <2>s. PICK s \in StoreType : s = store
      BY <1>t
    <2>1. StoreOK(s, k, stamp) /\ ToSet(hs) \cap DOMAIN s.hv = {}
          /\ VectorsAdded(j, k, s, hs) /\ OnceEach(hs)
      BY <1>4, <1>6, <1>7, <1>j, <2>s DEF VectorsAdded, OnceEach
    <2>2. /\ j \in DirType /\ j.man = k.man /\ j.chunks = k.chunks
          /\ s.vecs + Len(hs) <= Len(j.vectors) /\ s.vecs <= Len(k.vectors)
          /\ \A m \in 1 .. s.vecs : j.vectors[m] = k.vectors[m]
          /\ \A m \in 1 .. Len(hs) : j.vectors[s.vecs + m] = hs[m]
          /\ Batched(s, Len(hs), hs) \in StoreType /\ StoreOK(Batched(s, Len(hs), hs), j, stamp)
          /\ Batched(s, Len(hs), hs).metas = s.metas
          /\ Batched(s, Len(hs), hs).vecs = s.vecs + Len(hs)
          /\ DOMAIN Batched(s, Len(hs), hs).hv = DOMAIN s.hv \cup ToSet(hs)
      BY <1>t, <1>6, <2>1, BatchedOK
    <2>3. store' = Batched(s, Len(hs), hs)
      BY <1>2, <1>6, <2>s
    <2> QED BY <1>6, <2>s, <2>2, <2>3
  <1>9. /\ disk' \in [Dirs -> DirType] /\ disk'[d] = j
        /\ \A e \in Dirs : e # d => disk'[e] = disk[e]
    BY <1>t, <1>1, <1>8, DirSet
  <1>10. /\ run' \in RunType /\ run'.pc = "embed" /\ run'.dir = d /\ run'.todo = run.todo
         /\ run'.group = run.group /\ run'.unread = run.unread /\ run'.listed = run.listed
         /\ run'.order = rest /\ run'.mark = run.mark
    <2>1. n \in Nat /\ run.since \in Nat /\ run.since + n \in Nat
      BY <1>5, <1>t, RunParts
    <2> QED BY <1>0, <1>3, <1>6, <1>d, <1>t, <2>1 DEF RunType
  <1>s. /\ store.vecs \in Nat /\ n \in Nat /\ run.mark \in Nat /\ k.man.vecs \in Nat
        /\ k.man.metas \in Nat
    BY <1>5, <1>t, StoreParts, RunParts, DirParts
  <1>11. Embedding(store', j, run')
    <2>1. GroupTexts(run') = GroupTexts(run)
      BY <1>10 DEF GroupTexts
    <2>2. j.man.vecs <= run.mark /\ run.mark <= store.vecs + n
      BY <1>4, <1>8, <1>s DEF Embedding
    <2>3. ASSUME ~LinesFail, NEW m \in 1 .. store.vecs + n
          PROVE  \/ \E i \in DOMAIN store.metas : store.metas[i].v = m
                 \/ m > run.mark /\ j.vectors[m] \in GroupTexts(run)
      <3>1. CASE m <= store.vecs
        <4>1. m \in 1 .. store.vecs
          BY <1>s, <3>1
        <4> QED BY <1>4, <1>8, <2>3, <4>1 DEF Embedding
      <3>2. CASE m > store.vecs
        <4>1. m - store.vecs \in 1 .. n /\ m = store.vecs + (m - store.vecs)
          BY <1>s, <3>2
        <4>2. j.vectors[m] = hs[m - store.vecs]
          BY <1>8, <4>1
        <4>3. hs[m - store.vecs] \in ToSet(hs)
          BY <1>6, <4>1 DEF ToSet
        <4>4. m > run.mark
          BY <1>4, <1>s, <3>2 DEF Embedding
        <4> QED BY <1>7, <4>2, <4>3, <4>4
      <3> QED BY <1>s, <3>1, <3>2
    <2>4. rest # <<>> => \A i \in DOMAIN store.metas : store.metas[i].v <= run.mark
      BY <1>0, <1>4 DEF Embedding
    <2>5. ToSet(rest) \subseteq GroupTexts(run)
      BY <1>4, <1>6 DEF Embedding
    <2>6. GroupTexts(run) \subseteq DOMAIN store'.hv \cup ToSet(rest)
      BY <1>4, <1>6, <1>8 DEF Embedding
    <2>7. ToSet(rest) \cap DOMAIN store'.hv = {}
      BY <1>4, <1>6, <1>8 DEF Embedding
    <2> QED BY <1>6, <1>8, <1>10, <2>1, <2>2, <2>3, <2>4, <2>5, <2>6, <2>7 DEF Embedding
  <1>12. ManOK(k.man) /\ Committed(k, stamp) /\ ManOK(j.man) /\ Committed(j, stamp)
    <2>1. ManOK(k.man) /\ Committed(k, stamp)
      BY <1>0, <1>d, <1>k, <1>t DEF DirsOK, Replacing
    <2>2. k.man.metas <= Len(k.chunks) /\ k.man.vecs <= Len(k.vectors)
      BY <1>t, <2>1, CommittedLines
    <2>3. k.man.vecs <= store.vecs
      BY <1>4 DEF StoreOK, Ahead
    <2>4. k.man.vecs <= Len(j.vectors) /\ \A m \in 1 .. k.man.vecs : j.vectors[m] = k.vectors[m]
      <3>1. Len(j.vectors) \in Nat
        BY <1>8, DirParts
      <3> QED BY <1>8, <1>s, <2>3, <3>1
    <2> QED BY <1>8, <1>t, <2>1, <2>2, <2>4, CommittedKept
  <1>13. Types'
    BY <1>0, <1>8, <1>9, <1>10 DEF Types
  <1>14. DirsOK'
    <2> SUFFICES ASSUME NEW e \in Dirs PROVE ManOK(disk'[e].man) /\ Committed(disk'[e], stamp)
      BY <1>0 DEF DirsOK
    <2>1. CASE e = d
      BY <1>9, <1>12, <2>1
    <2>2. CASE e # d
      BY <1>t, <1>d, <1>9, <2>2, OtherDirs
    <2> QED BY <2>1, <2>2
  <1>15. Runs'
    BY <1>0, <1>8, <1>9, <1>10, <1>11 DEF Runs
  <1>16. Works'
    BY <1>0, <1>10 DEF Works
  <1>17. Replacement'
    BY <1>8, <1>10 DEF Replacement, StoreRows, StoreOK, Known
  <1>18. Searching'
    <2>1. ~Compacting' /\ ~Compacting
      BY <1>0, <1>10 DEF Compacting
    <2>2. "index" \in Dirs /\ disk'["index"] \in DirType
      BY <1>9 DEF Dirs
    <2>3. Grown(disk["index"], disk'["index"])
      <3>0. disk.index \in DirType /\ Committed(disk.index, stamp)
        BY <2>1, IndexCommitted
      <3>1. /\ disk["index"].man.metas \in Nat /\ disk["index"].man.vecs \in Nat
            /\ disk["index"].man.metas <= Len(disk["index"].chunks)
        BY <3>0, DirParts, CommittedLines
      <3>2. CASE d # "index"
        BY <1>9, <2>2, <3>1, <3>2 DEF Grown
      <3>3. CASE d = "index"
        BY <1>8, <1>9, <1>k, <3>1, <3>3 DEF Grown
      <3> QED BY <3>2, <3>3
    <2> QED BY <1>0, <2>1, <2>2, <2>3, SearchGrows
  <1>19. SearchMan'
    BY <1>0 DEF SearchMan
  <1> QED BY <1>13, <1>14, <1>15, <1>16, <1>17, <1>18, <1>19

-----------------------------------------------------------------------------
(* FinalizeFile: the lines of a file whose vectors are all there *)

FileSet(new, files, w, rows) == new = With(files, [f \in {w.file} |-> FileRec(w, rows)])

Written(new, files, w, rows) ==
    /\ new \in Maps(Files, Record) /\ DOMAIN new = DOMAIN files \cup {w.file}
    /\ new[w.file].rows = rows /\ new[w.file].stamp = w.stamp
    /\ \A f \in DOMAIN files : f # w.file => new[f] = files[f]

LEMMA FileWritten ==
  \A files, w, rows, new :
     /\ files \in Maps(Files, Record) /\ w \in Work /\ rows \in Seq(Nat \ {0})
     /\ FileSet(new, files, w, rows)
     => Written(new, files, w, rows)
  <1> SUFFICES ASSUME NEW files \in Maps(Files, Record), NEW w \in Work,
                      NEW rows \in Seq(Nat \ {0}), NEW new, FileSet(new, files, w, rows)
               PROVE  Written(new, files, w, rows)
    OBVIOUS
  <1>1. w.file \in Files /\ w.stamp \in 0 .. MaxStamp
    BY DEF Work
  <1>r. PICK rec : rec = FileRec(w, rows)
    OBVIOUS
  <1>2. rec \in Record /\ rec.rows = rows /\ rec.stamp = w.stamp
    BY <1>1, <1>r DEF FileRec, Record
  <1>3. /\ DOMAIN new = DOMAIN files \cup {w.file} /\ new[w.file] = rec
        /\ \A f \in DOMAIN files : f # w.file => new[f] = files[f]
    BY <1>r DEF With, FileSet
  <1>4. [f \in {w.file} |-> rec] \in Maps(Files, Record)
    BY <1>1, <1>2, SingleMap
  <1>5. new \in Maps(Files, Record)
    BY <1>4, <1>r, MergeMaps DEF FileSet
  <1> QED BY <1>2, <1>3, <1>5 DEF Written

LEMMA RecordedRows ==
  ASSUME NEW s \in StoreType, NEW f, Owned(s.files, Live(s))
  PROVE  /\ Recorded(s, f) \in Seq(Nat \ {0})
         /\ \A i \in DOMAIN Recorded(s, f) : Recorded(s, f)[i] \in Live(s)
         /\ f \in DOMAIN s.files => Recorded(s, f) = s.files[f].rows
         /\ f \notin DOMAIN s.files => DOMAIN Recorded(s, f) = {}
  <1>1. CASE f \in DOMAIN s.files
    <2>1. s.files[f] \in Record
      BY <1>1, StoreParts, MapsDef
    <2>2. s.files[f].rows \in Seq(Nat \ {0})
      BY <2>1 DEF Record
    <2> QED BY <1>1, <2>2 DEF Recorded, Owned
  <1>2. CASE f \notin DOMAIN s.files
    <2>1. Recorded(s, f) = <<>>
      BY <1>2 DEF Recorded
    <2>2. <<>> \in Seq(Nat \ {0}) /\ DOMAIN <<>> = {}
      OBVIOUS
    <2> QED BY <1>2, <2>1, <2>2
  <1> QED BY <1>1, <1>2

\* A file whose chunks are the ones recorded.
Refiled(s, w) ==
    [s EXCEPT !.files = With(@, [f \in {w.file} |-> FileRec(w, Recorded(s, w.file))])]

LEMMA SameFile ==
  ASSUME NEW s \in StoreType, NEW k, NEW st, StoreOK(s, k, st), NEW w \in Work, WorkOK(w, st),
         SameChunks(s, Recorded(s, w.file), w.chunks)
  PROVE  /\ Refiled(s, w) \in StoreType /\ StoreOK(Refiled(s, w), k, st)
         /\ Refiled(s, w).metas = s.metas /\ Refiled(s, w).vecs = s.vecs
         /\ Refiled(s, w).hv = s.hv
         /\ \A t \in ToSet(w.chunks) : \E i \in DOMAIN s.metas : s.metas[i].text = t
  <1>x. PICK new : new = Refiled(s, w)
    OBVIOUS
  <1>s. /\ s.metas \in Seq(Line) /\ s.hv \in Maps(Texts, Nat) /\ s.dead \in SUBSET Nat
        /\ s.vecs \in Nat /\ s.files \in Maps(Files, Record)
        /\ s = [metas |-> s.metas, hv |-> s.hv, dead |-> s.dead, vecs |-> s.vecs, files |-> s.files]
    BY StoreParts
  <1>o. PICK old : old = Recorded(s, w.file)
    OBVIOUS
  <1>1. Owned(s.files, Live(s)) /\ Live(s) \subseteq DOMAIN s.metas
    BY DEF StoreOK, Live
  <1>2. /\ old \in Seq(Nat \ {0}) /\ \A i \in DOMAIN old : old[i] \in Live(s)
        /\ w.file \in DOMAIN s.files => old = s.files[w.file].rows
        /\ w.file \notin DOMAIN s.files => DOMAIN old = {}
    BY <1>1, <1>o, RecordedRows
  <1>f. PICK files : files = With(s.files, [f \in {w.file} |-> FileRec(w, old)])
    OBVIOUS
  <1>3. /\ files \in Maps(Files, Record) /\ DOMAIN files = DOMAIN s.files \cup {w.file}
        /\ files[w.file].rows = old /\ files[w.file].stamp = w.stamp
        /\ \A f \in DOMAIN s.files : f # w.file => files[f] = s.files[f]
    <2>1. FileSet(files, s.files, w, old)
      BY <1>f DEF FileSet
    <2>2. Written(files, s.files, w, old)
      BY <1>2, <1>s, <2>1, FileWritten
    <2> QED BY <2>2 DEF Written
  <1>4. new = [metas |-> s.metas, hv |-> s.hv, dead |-> s.dead, vecs |-> s.vecs, files |-> files]
    BY <1>f, <1>o, <1>s, <1>x DEF Refiled
  <1>5. \A f \in DOMAIN files :
           \/ f \in DOMAIN s.files /\ files[f].rows = s.files[f].rows
           \/ DOMAIN files[f].rows = {}
    BY <1>2, <1>3
  <1>6. Owned(files, Live(s))
    <2>1. \A f \in DOMAIN files : \A i \in DOMAIN files[f].rows : files[f].rows[i] \in Live(s)
      BY <1>1, <1>5 DEF Owned
    <2>2. ASSUME NEW f \in DOMAIN files, NEW g \in DOMAIN files,
                 NEW i \in DOMAIN files[f].rows, NEW m \in DOMAIN files[g].rows,
                 files[f].rows[i] = files[g].rows[m]
          PROVE  f = g /\ i = m
      <3>1. f \in DOMAIN s.files /\ files[f].rows = s.files[f].rows
        BY <1>5
      <3>2. g \in DOMAIN s.files /\ files[g].rows = s.files[g].rows
        BY <1>5
      <3> QED BY <1>1, <2>2, <3>1, <3>2 DEF Owned
    <2>3. ASSUME NEW r \in Live(s)
          PROVE  \E f \in DOMAIN files : \E i \in DOMAIN files[f].rows : files[f].rows[i] = r
      <3>1. PICK f \in DOMAIN s.files : \E i \in DOMAIN s.files[f].rows : s.files[f].rows[i] = r
        BY <1>1 DEF Owned
      <3>2. f \in DOMAIN files /\ files[f].rows = s.files[f].rows
        BY <1>2, <1>3
      <3> QED BY <3>1, <3>2
    <2> QED BY <2>1, <2>2, <2>3 DEF Owned
  <1>7. Len(old) = Len(w.chunks) /\ w.chunks \in Seq(Texts)
        /\ \A i \in DOMAIN old : s.metas[old[i]].text = w.chunks[i]
    BY <1>o DEF SameChunks, Work
  <1>8. Spelled(old, s.metas) = w.chunks
    <2>1. PICK sp : sp = Spelled(old, s.metas)
      OBVIOUS
    <2>2. /\ sp = [i \in DOMAIN old |-> s.metas[old[i]].text]
      BY <2>1 DEF Spelled
    <2>3. DOMAIN old = 1 .. Len(old) /\ DOMAIN w.chunks = 1 .. Len(w.chunks)
      BY <1>2, <1>7, SeqShape
    <2>4. w.chunks = [i \in 1 .. Len(w.chunks) |-> w.chunks[i]]
      BY <1>7
    <2>5. DOMAIN sp = DOMAIN w.chunks /\ \A i \in DOMAIN w.chunks : sp[i] = w.chunks[i]
      BY <1>7, <2>2, <2>3
    <2>6. sp = w.chunks
      BY <1>7, <2>2, <2>3, <2>4
    <2> QED BY <2>1, <2>6
  <1>9. Fresh(files, s.metas, st)
    <2>1. Fresh(s.files, s.metas, st)
      BY DEF StoreOK
    <2>2. \A f \in DOMAIN files : f # w.file => f \in DOMAIN s.files /\ files[f] = s.files[f]
      BY <1>3
    <2> SUFFICES ASSUME NEW f \in DOMAIN files
                 PROVE  /\ files[f].stamp <= st[f]
                        /\ files[f].stamp = st[f] => Spelled(files[f].rows, s.metas) = Content[f][st[f]]
      BY DEF Fresh
    <2>3. CASE f = w.file
      BY <1>3, <1>8, <2>3 DEF WorkOK
    <2>4. CASE f # w.file
      BY <2>1, <2>2, <2>4 DEF Fresh
    <2> QED BY <2>3, <2>4
  <1>10. new \in StoreType
    BY <1>3, <1>4, <1>s DEF StoreType
  <1>11. Live(new) = Live(s)
    BY <1>4 DEF Live
  <1>12. StoreOK(new, k, st)
    <2>1. Ahead(new, k)
      BY <1>4 DEF StoreOK, Ahead
    <2> QED BY <1>4, <1>6, <1>9, <1>11, <2>1 DEF StoreOK
  <1>13. ASSUME NEW t \in ToSet(w.chunks) PROVE \E i \in DOMAIN s.metas : s.metas[i].text = t
    <2>1. PICK i \in DOMAIN w.chunks : w.chunks[i] = t
      BY DEF ToSet
    <2>2. i \in DOMAIN old
      BY <1>2, <1>7, SeqShape
    <2> QED BY <1>1, <1>2, <1>7, <2>1, <2>2
  <1> QED BY <1>x, <1>4, <1>10, <1>12, <1>13

NewLines(s, w) == [i \in DOMAIN w.chunks |-> [text |-> w.chunks[i], v |-> s.hv[w.chunks[i]]]]
NewRows(s, w) == [i \in DOMAIN w.chunks |-> Len(s.metas) + i]
LinesAdded(j, k, s, w) ==
    j = IF NewLines(s, w) = <<>> THEN k
        ELSE [k EXCEPT !.chunks = AppendRows(@, Len(s.metas), NewLines(s, w))]
Finalized(s, w) ==
    [s EXCEPT !.metas = @ \o NewLines(s, w),
              !.hv = With(@, [t \in ToSet(w.chunks) |-> @[t]]),
              !.dead = Killed(s, ToSet(Recorded(s, w.file))),
              !.files = With(@, [f \in {w.file} |-> FileRec(w, NewRows(s, w))])]

LinesFit(j, k, s, w) ==
    /\ NewLines(s, w) \in Seq(Line) /\ Len(NewLines(s, w)) = Len(w.chunks)
    /\ \A i \in 1 .. Len(w.chunks) :
          /\ NewLines(s, w)[i].text = w.chunks[i] /\ NewLines(s, w)[i].v = s.hv[w.chunks[i]]
          /\ NewLines(s, w)[i].v \in 1 .. s.vecs /\ k.vectors[NewLines(s, w)[i].v] = w.chunks[i]
    /\ j \in DirType /\ j.man = k.man /\ j.vectors = k.vectors
    /\ Len(s.metas) + Len(w.chunks) <= Len(j.chunks)
    /\ \A i \in 1 .. Len(s.metas) : j.chunks[i] = s.metas[i] /\ j.chunks[i] = k.chunks[i]
    /\ \A i \in 1 .. Len(w.chunks) : j.chunks[Len(s.metas) + i] = NewLines(s, w)[i]

\* The lines of a file whose texts all have a vector.
LEMMA LinesOf ==
  ASSUME NEW s \in StoreType, NEW k \in DirType, NEW st, StoreOK(s, k, st), NEW w \in Work,
         ToSet(w.chunks) \subseteq DOMAIN s.hv, NEW j, LinesAdded(j, k, s, w)
  PROVE  LinesFit(j, k, s, w)
  <1>s. s.metas \in Seq(Line) /\ s.vecs \in Nat /\ Len(s.metas) \in Nat
        /\ DOMAIN s.metas = 1 .. Len(s.metas)
    BY StoreParts
  <1>k. k.chunks \in Seq(Line) /\ Len(k.chunks) \in Nat
    BY DirParts
  <1>c. PICK c : c = w.chunks
    OBVIOUS
  <1>1. c \in Seq(Texts) /\ Len(c) \in Nat /\ DOMAIN c = 1 .. Len(c) /\ \A i \in DOMAIN c : c[i] \in Texts
    BY <1>c, SeqShape DEF Work
  <1>m. PICK ms : ms = NewLines(s, w)
    OBVIOUS
  <1>2. ms = [i \in DOMAIN c |-> [text |-> c[i], v |-> s.hv[c[i]]]]
    BY <1>c, <1>m DEF NewLines
  <1>3. ASSUME NEW i \in DOMAIN c
        PROVE  /\ ms[i].text = c[i] /\ ms[i].v = s.hv[c[i]] /\ ms[i] \in Line
               /\ ms[i].v \in 1 .. s.vecs /\ k.vectors[ms[i].v] = c[i]
    <2>1. ms[i] = [text |-> c[i], v |-> s.hv[c[i]]]
      BY <1>2
    <2>2. c[i] \in DOMAIN s.hv
      BY <1>c DEF ToSet
    <2>3. s.hv[c[i]] \in 1 .. s.vecs /\ k.vectors[s.hv[c[i]]] = c[i]
      BY <2>2 DEF StoreOK, Known
    <2>4. s.hv[c[i]] \in Nat \ {0}
      BY <1>s, <2>3
    <2>5. ms[i] \in Line
      BY <1>1, <2>1, <2>4 DEF Line
    <2> QED BY <2>1, <2>3, <2>5
  <1>4. ms \in Seq(Line) /\ Len(ms) = Len(c)
    <2>1. ms \in [1 .. Len(c) -> Line]
      BY <1>1, <1>2, <1>3
    <2> QED BY <1>1, <2>1
  <1>5. Len(s.metas) <= Len(k.chunks) /\ \A i \in DOMAIN s.metas : k.chunks[i] = s.metas[i]
    BY DEF StoreOK, Ahead
  <1>6. /\ j \in DirType /\ j.man = k.man /\ j.vectors = k.vectors
        /\ Len(s.metas) + Len(c) <= Len(j.chunks)
        /\ \A i \in 1 .. Len(s.metas) : j.chunks[i] = k.chunks[i]
        /\ \A i \in 1 .. Len(c) : j.chunks[Len(s.metas) + i] = ms[i]
    <2>1. CASE ms = <<>>
      <3>1. j = k
        BY <1>m, <2>1 DEF LinesAdded
      <3>2. Len(c) = 0
        BY <1>4, <2>1
      <3> QED BY <1>5, <1>k, <1>s, <3>1, <3>2
    <2>2. CASE ms # <<>>
      <3>a. PICK a : a = AppendRows(k.chunks, Len(s.metas), ms)
        OBVIOUS
      <3>1. j = [k EXCEPT !.chunks = a]
        BY <1>m, <2>2, <3>a DEF LinesAdded
      <3>2. Len(s.metas) \in 0 .. Len(k.chunks)
        BY <1>5, <1>k, <1>s
      <3>3. Glued(Line, a, k.chunks, Len(s.metas), ms)
        BY <1>4, <1>k, <3>2, <3>a, Gluing
      <3>4. a \in Seq(Line) /\ Len(a) = Len(s.metas) + Len(c)
            /\ (\A i \in 1 .. Len(s.metas) : a[i] = k.chunks[i])
            /\ \A i \in 1 .. Len(c) : a[Len(s.metas) + i] = ms[i]
        BY <1>4, <3>3 DEF Glued
      <3>5. j \in DirType /\ j.man = k.man /\ j.vectors = k.vectors /\ j.chunks = a
        BY <3>1, <3>4 DEF DirType
      <3>6. Len(s.metas) + Len(c) <= Len(a)
        BY <1>1, <1>s, <3>4
      <3> QED BY <3>4, <3>5, <3>6
    <2> QED BY <2>1, <2>2
  <1>7. \A i \in 1 .. Len(s.metas) : j.chunks[i] = s.metas[i] /\ j.chunks[i] = k.chunks[i]
    BY <1>5, <1>6, <1>s
  <1> QED BY <1>1, <1>3, <1>4, <1>6, <1>7, <1>c, <1>m DEF LinesFit

\* A file with other chunks: its old lines die, its new ones follow.
LEMMA NewFile ==
  ASSUME NEW s \in StoreType, NEW k \in DirType, NEW st, StoreOK(s, k, st), NEW w \in Work,
         WorkOK(w, st), ToSet(w.chunks) \subseteq DOMAIN s.hv, NEW j, LinesAdded(j, k, s, w)
  PROVE  /\ Finalized(s, w) \in StoreType /\ StoreOK(Finalized(s, w), j, st)
         /\ Finalized(s, w).vecs = s.vecs /\ Finalized(s, w).hv = s.hv
         /\ \A i \in DOMAIN s.metas : /\ i \in DOMAIN Finalized(s, w).metas
                                      /\ Finalized(s, w).metas[i] = s.metas[i]
         /\ \A t \in ToSet(w.chunks) : \E i \in DOMAIN Finalized(s, w).metas :
               Finalized(s, w).metas[i].v = s.hv[t]
  <1>s. /\ s.metas \in Seq(Line) /\ s.hv \in Maps(Texts, Nat) /\ s.dead \in SUBSET Nat
        /\ s.vecs \in Nat /\ s.files \in Maps(Files, Record)
        /\ s = [metas |-> s.metas, hv |-> s.hv, dead |-> s.dead, vecs |-> s.vecs, files |-> s.files]
        /\ Len(s.metas) \in Nat /\ DOMAIN s.metas = 1 .. Len(s.metas)
    BY StoreParts
  <1>n. PICK n \in Nat : n = Len(s.metas)
    BY <1>s
  <1>c. PICK c : c = w.chunks
    OBVIOUS
  <1>m. PICK ms : ms = NewLines(s, w)
    OBVIOUS
  <1>1. c \in Seq(Texts) /\ Len(c) \in Nat /\ DOMAIN c = 1 .. Len(c)
    BY <1>c, SeqShape DEF Work
  <1>l. PICK l \in Nat : l = Len(c)
    BY <1>1
  <1>2. /\ ms \in Seq(Line) /\ Len(ms) = l
        /\ \A i \in 1 .. l : /\ ms[i].text = c[i] /\ ms[i].v = s.hv[c[i]]
                             /\ ms[i].v \in 1 .. s.vecs /\ k.vectors[ms[i].v] = c[i]
        /\ j \in DirType /\ j.man = k.man /\ j.vectors = k.vectors
        /\ n + l <= Len(j.chunks)
        /\ \A i \in 1 .. n : j.chunks[i] = s.metas[i] /\ j.chunks[i] = k.chunks[i]
        /\ \A i \in 1 .. l : j.chunks[n + i] = ms[i]
    <2>1. LinesFit(j, k, s, w)
      BY LinesOf
    <2> QED BY <1>c, <1>l, <1>m, <1>n, <2>1 DEF LinesFit
  <1>o. PICK old : old = Recorded(s, w.file)
    OBVIOUS
  <1>3. /\ Owned(s.files, Live(s)) /\ Live(s) = (1 .. n) \ s.dead /\ s.dead \subseteq 1 .. n
        /\ Fresh(s.files, s.metas, st)
    BY <1>n, <1>s DEF StoreOK, Live
  <1>4. /\ old \in Seq(Nat \ {0}) /\ \A i \in DOMAIN old : old[i] \in Live(s)
        /\ w.file \in DOMAIN s.files => old = s.files[w.file].rows
        /\ w.file \notin DOMAIN s.files => DOMAIN old = {}
    BY <1>3, <1>o, RecordedRows
  <1>r. PICK rows : rows = NewRows(s, w)
    OBVIOUS
  <1>5. /\ DOMAIN rows = 1 .. l /\ \A i \in 1 .. l : rows[i] = n + i
        /\ rows \in Seq(Nat \ {0})
    <2>1. rows = [i \in 1 .. l |-> n + i]
      BY <1>1, <1>c, <1>l, <1>n, <1>r DEF NewRows
    <2>2. \A i \in 1 .. l : n + i \in Nat \ {0}
      OBVIOUS
    <2> QED BY <2>1, <2>2
  <1>f. PICK files : files = With(s.files, [f \in {w.file} |-> FileRec(w, rows)])
    OBVIOUS
  <1>6. /\ files \in Maps(Files, Record) /\ DOMAIN files = DOMAIN s.files \cup {w.file}
        /\ files[w.file].rows = rows /\ files[w.file].stamp = w.stamp
        /\ \A f \in DOMAIN s.files : f # w.file => files[f] = s.files[f]
    <2>1. FileSet(files, s.files, w, rows)
      BY <1>f DEF FileSet
    <2>2. Written(files, s.files, w, rows)
      BY <1>5, <1>s, <2>1, FileWritten
    <2> QED BY <2>2 DEF Written
  <1>a. PICK metas : metas = s.metas \o ms
    OBVIOUS
  <1>7. /\ metas \in Seq(Line) /\ Len(metas) = n + l /\ DOMAIN metas = 1 .. n + l
        /\ \A i \in 1 .. n : metas[i] = s.metas[i]
        /\ \A i \in 1 .. l : metas[n + i] = ms[i]
    <2>1. /\ metas \in Seq(Line) /\ Len(metas) = Len(s.metas) + Len(ms)
          /\ \A i \in 1 .. Len(s.metas) + Len(ms) :
                metas[i] = IF i <= Len(s.metas) THEN s.metas[i] ELSE ms[i - Len(s.metas)]
      <3>0. ms \in Seq(Line)
        BY <1>2
      <3>1. PICK sm \in Seq(Line) : sm = s.metas
        BY <1>s
      <3>2. metas = sm \o ms
        BY <1>a, <3>1
      <3>3. /\ metas \in Seq(Line) /\ Len(metas) = Len(sm) + Len(ms)
            /\ \A i \in 1 .. Len(sm) + Len(ms) :
                  metas[i] = IF i <= Len(sm) THEN sm[i] ELSE ms[i - Len(sm)]
        BY <3>0, <3>2, ConcatProperties
      <3> QED BY <3>1, <3>3
    <2>2. /\ metas \in Seq(Line) /\ Len(metas) = n + l
          /\ \A i \in 1 .. n + l : metas[i] = IF i <= n THEN s.metas[i] ELSE ms[i - n]
      BY <1>2, <1>n, <2>1
    <2>3. \A i \in 1 .. n : metas[i] = s.metas[i]
      <3> SUFFICES ASSUME NEW i \in 1 .. n PROVE metas[i] = s.metas[i]
        OBVIOUS
      <3>1. i \in 1 .. n + l /\ i <= n
        OBVIOUS
      <3> QED BY <2>2, <3>1
    <2>4. \A i \in 1 .. l : metas[n + i] = ms[i]
      <3> SUFFICES ASSUME NEW i \in 1 .. l PROVE metas[n + i] = ms[i]
        OBVIOUS
      <3>1. n + i \in 1 .. n + l /\ ~(n + i <= n) /\ (n + i) - n = i
        OBVIOUS
      <3> QED BY <2>2, <3>1
    <2>5. DOMAIN metas = 1 .. n + l
      BY <2>2, SeqShape
    <2> QED BY <2>2, <2>3, <2>4, <2>5
  <1>8. \A i \in 1 .. n + l : i \in 1 .. n \/ \E m \in 1 .. l : i = n + m
    <2> SUFFICES ASSUME NEW i \in 1 .. n + l, i \notin 1 .. n PROVE \E m \in 1 .. l : i = n + m
      OBVIOUS
    <2>1. i - n \in 1 .. l /\ i = n + (i - n)
      OBVIOUS
    <2> QED BY <2>1
  <1>9. \A m \in 1 .. l : n + m \in 1 .. n + l /\ n + m \notin 1 .. n
    OBVIOUS
  <1>10. \A i \in 1 .. n : i \in 1 .. n + l
    OBVIOUS
  <1>h. With(s.hv, [t \in ToSet(w.chunks) |-> s.hv[t]]) = s.hv
    <2>1. s.hv = [t \in DOMAIN s.hv |-> s.hv[t]]
      BY <1>s, MapsDef
    <2>2. DOMAIN s.hv \cup ToSet(w.chunks) = DOMAIN s.hv
      OBVIOUS
    <2>3. PICK g : g = With(s.hv, [t \in ToSet(w.chunks) |-> s.hv[t]])
      OBVIOUS
    <2>4. g = [t \in DOMAIN s.hv |-> s.hv[t]]
      BY <2>2, <2>3 DEF With
    <2> QED BY <2>1, <2>3, <2>4
  <1>e. PICK dead : dead = s.dead \cup ToSet(old)
    OBVIOUS
  <1>g. PICK new : new = Finalized(s, w)
    OBVIOUS
  <1>11. new = [metas |-> metas, hv |-> s.hv, dead |-> dead, vecs |-> s.vecs, files |-> files]
    BY <1>a, <1>e, <1>f, <1>g, <1>h, <1>m, <1>o, <1>r, <1>s DEF Finalized, Killed
  <1>12. ToSet(old) \subseteq Live(s) /\ dead \subseteq 1 .. n
    BY <1>3, <1>4, <1>e DEF ToSet
  <1>13. Live(new) = (Live(s) \ ToSet(old)) \cup {n + m : m \in 1 .. l}
    <2>1. Live(new) = (1 .. n + l) \ dead
      BY <1>7, <1>11 DEF Live
    <2>2. \A i : i \in Live(new) => i \in (Live(s) \ ToSet(old)) \cup {n + m : m \in 1 .. l}
      BY <1>3, <1>8, <1>e, <2>1
    <2>3. \A i : i \in Live(s) \ ToSet(old) => i \in Live(new)
      BY <1>3, <1>10, <1>e, <2>1
    <2>4. \A m \in 1 .. l : n + m \in Live(new)
      BY <1>9, <1>12, <2>1
    <2> QED BY <2>2, <2>3, <2>4
  <1>14. \A f \in DOMAIN files : f # w.file => f \in DOMAIN s.files /\ files[f] = s.files[f]
    BY <1>6
  <1>15. \A f \in DOMAIN files : f # w.file =>
            \A i \in DOMAIN files[f].rows : /\ files[f].rows[i] \in Live(s) \ ToSet(old)
                                            /\ files[f].rows[i] \in 1 .. n
    <2> SUFFICES ASSUME NEW f \in DOMAIN files, f # w.file, NEW i \in DOMAIN files[f].rows
                 PROVE  files[f].rows[i] \in Live(s) /\ files[f].rows[i] \notin ToSet(old)
      BY <1>3
    <2>1. f \in DOMAIN s.files /\ files[f] = s.files[f]
      BY <1>14
    <2>2. files[f].rows[i] \in Live(s)
      BY <1>3, <2>1 DEF Owned
    <2>3. ASSUME NEW m \in DOMAIN old, old[m] = files[f].rows[i] PROVE FALSE
      <3>1. w.file \in DOMAIN s.files /\ old = s.files[w.file].rows
        BY <1>4
      <3> QED BY <1>3, <2>1, <2>3, <3>1 DEF Owned
    <2> QED BY <2>2, <2>3 DEF ToSet
  <1>16. Owned(files, Live(new))
    <2>1. ASSUME NEW f \in DOMAIN files, NEW i \in DOMAIN files[f].rows
          PROVE  files[f].rows[i] \in Live(new)
      <3>1. CASE f = w.file
        BY <1>5, <1>6, <1>13, <3>1
      <3>2. CASE f # w.file
        BY <1>13, <1>15, <3>2
      <3> QED BY <3>1, <3>2
    <2>2. ASSUME NEW f \in DOMAIN files, NEW g \in DOMAIN files,
                 NEW i \in DOMAIN files[f].rows, NEW m \in DOMAIN files[g].rows,
                 files[f].rows[i] = files[g].rows[m]
          PROVE  f = g /\ i = m
      <3>1. CASE f = w.file /\ g = w.file
        <4>1. i \in 1 .. l /\ m \in 1 .. l /\ n + i = n + m
          BY <1>5, <1>6, <2>2, <3>1
        <4> QED BY <3>1, <4>1
      <3>2. CASE f = w.file /\ g # w.file
        <4>1. i \in 1 .. l /\ files[f].rows[i] = n + i /\ files[g].rows[m] \in 1 .. n
          BY <1>5, <1>6, <1>15, <3>2
        <4> QED BY <1>9, <2>2, <4>1
      <3>3. CASE f # w.file /\ g = w.file
        <4>1. m \in 1 .. l /\ files[g].rows[m] = n + m /\ files[f].rows[i] \in 1 .. n
          BY <1>5, <1>6, <1>15, <3>3
        <4> QED BY <1>9, <2>2, <4>1
      <3>4. CASE f # w.file /\ g # w.file
        <4>1. f \in DOMAIN s.files /\ files[f] = s.files[f] /\ g \in DOMAIN s.files /\ files[g] = s.files[g]
          BY <1>14, <3>4
        <4> QED BY <1>3, <2>2, <4>1 DEF Owned
      <3> QED BY <3>1, <3>2, <3>3, <3>4
    <2>3. ASSUME NEW r \in Live(new)
          PROVE  \E f \in DOMAIN files : \E i \in DOMAIN files[f].rows : files[f].rows[i] = r
      <3>1. CASE r \in {n + m : m \in 1 .. l}
        <4>1. PICK m \in 1 .. l : r = n + m
          BY <3>1
        <4>2. w.file \in DOMAIN files /\ m \in DOMAIN files[w.file].rows /\ files[w.file].rows[m] = r
          BY <1>5, <1>6, <4>1
        <4> QED BY <4>2
      <3>2. CASE r \in Live(s) \ ToSet(old)
        <4>1. PICK f \in DOMAIN s.files : \E i \in DOMAIN s.files[f].rows : s.files[f].rows[i] = r
          BY <1>3, <3>2 DEF Owned
        <4>2. f # w.file
          BY <1>4, <3>2, <4>1 DEF ToSet
        <4>3. f \in DOMAIN files /\ files[f] = s.files[f]
          BY <1>6, <4>2
        <4> QED BY <4>1, <4>3
      <3> QED BY <1>13, <3>1, <3>2
    <2> QED BY <2>1, <2>2, <2>3 DEF Owned
  <1>17. Fresh(files, metas, st)
    <2> SUFFICES ASSUME NEW f \in DOMAIN files
                 PROVE  /\ files[f].stamp <= st[f]
                        /\ files[f].stamp = st[f] => Spelled(files[f].rows, metas) = Content[f][st[f]]
      BY DEF Fresh
    <2>1. CASE f = w.file
      <3>p. PICK sp : sp = Spelled(rows, metas)
        OBVIOUS
      <3>1. sp = [i \in 1 .. l |-> metas[rows[i]].text]
        BY <1>5, <3>p DEF Spelled
      <3>2. \A i \in 1 .. l : metas[rows[i]].text = c[i]
        BY <1>2, <1>5, <1>7
      <3>3. c = [i \in 1 .. l |-> c[i]]
        BY <1>1, <1>l
      <3>4. sp = c
        BY <3>1, <3>2, <3>3
      <3> QED BY <1>6, <1>c, <2>1, <3>p, <3>4 DEF WorkOK
    <2>2. CASE f # w.file
      <3>1. f \in DOMAIN s.files /\ files[f] = s.files[f]
        BY <1>14, <2>2
      <3>2. \A i \in DOMAIN files[f].rows : metas[files[f].rows[i]] = s.metas[files[f].rows[i]]
        BY <1>7, <1>15, <2>2
      <3>3. Spelled(files[f].rows, metas) = Spelled(s.files[f].rows, s.metas)
        BY <3>1, <3>2 DEF Spelled
      <3> QED BY <1>3, <3>1, <3>3 DEF Fresh
    <2> QED BY <2>1, <2>2
  <1>18. Lines(metas, k.vectors, s.vecs)
    <2>1. Lines(s.metas, k.vectors, s.vecs)
      BY DEF StoreOK
    <2>2. ASSUME NEW i \in DOMAIN metas PROVE metas[i].v <= s.vecs /\ k.vectors[metas[i].v] = metas[i].text
      <3>1. CASE i \in 1 .. n
        BY <1>7, <1>n, <1>s, <2>1, <3>1 DEF Lines
      <3>2. CASE \E m \in 1 .. l : i = n + m
        <4>1. PICK m \in 1 .. l : i = n + m
          BY <3>2
        <4>2. metas[i] = ms[m]
          BY <1>7, <4>1
        <4>3. ms[m].v <= s.vecs
          BY <1>2, <1>s
        <4> QED BY <1>2, <4>2, <4>3
      <3> QED BY <1>7, <1>8, <3>1, <3>2
    <2> QED BY <2>1, <2>2 DEF Lines
  <1>19. new \in StoreType
    <2>1. dead \in SUBSET Nat
      BY <1>12
    <2> QED BY <1>6, <1>7, <1>11, <1>s, <2>1 DEF StoreType
  <1>20. Ahead(new, j)
    <2>1. k.man.metas <= n + l
      <3>1. k.man.metas <= n /\ k.man.metas \in Nat
        BY <1>n, DirParts DEF StoreOK, Ahead
      <3> QED BY <3>1
    <2>2. \A i \in DOMAIN metas : j.chunks[i] = metas[i]
      <3> SUFFICES ASSUME NEW i \in 1 .. n + l PROVE j.chunks[i] = metas[i]
        BY <1>7
      <3>1. CASE i \in 1 .. n
        BY <1>2, <1>7, <3>1
      <3>2. CASE \E m \in 1 .. l : i = n + m
        <4>1. PICK m \in 1 .. l : i = n + m
          BY <3>2
        <4>2. metas[i] = ms[m]
          BY <1>7, <4>1
        <4>3. j.chunks[n + m] = ms[m]
          BY <1>2
        <4> QED BY <4>1, <4>2, <4>3
      <3> QED BY <1>8, <3>1, <3>2
    <2>3. k.man.vecs <= s.vecs
      BY DEF StoreOK, Ahead
    <2> QED BY <1>2, <1>7, <1>11, <2>1, <2>2, <2>3 DEF Ahead
  <1>21. StoreOK(new, j, st)
    <2>1. new.dead \subseteq DOMAIN new.metas
      BY <1>7, <1>10, <1>11, <1>12
    <2>2. Lines(new.metas, j.vectors, new.vecs)
      BY <1>2, <1>11, <1>18
    <2>3. Known(new.hv, j.vectors, new.vecs)
      BY <1>2, <1>11 DEF StoreOK
    <2>4. Owned(new.files, Live(new)) /\ Fresh(new.files, new.metas, st)
      BY <1>11, <1>16, <1>17
    <2> QED BY <1>20, <2>1, <2>2, <2>3, <2>4 DEF StoreOK
  <1>22. \A i \in DOMAIN s.metas : i \in DOMAIN new.metas /\ new.metas[i] = s.metas[i]
    BY <1>7, <1>10, <1>11, <1>n, <1>s
  <1>23. ASSUME NEW t \in ToSet(c) PROVE \E i \in DOMAIN new.metas : new.metas[i].v = s.hv[t]
    <2>1. PICK i \in 1 .. l : c[i] = t
      BY <1>1, <1>l DEF ToSet
    <2>2. n + i \in DOMAIN new.metas /\ new.metas[n + i].v = s.hv[t]
      BY <1>2, <1>7, <1>9, <1>11, <2>1
    <2> QED BY <2>2
  <1>24. new.vecs = s.vecs /\ new.hv = s.hv
    BY <1>11
  <1> QED BY <1>19, <1>21, <1>22, <1>23, <1>24, <1>c, <1>g

FinalizeOf(w, n) ==
    \/ /\ SameChunks(store, Recorded(store, w.file), w.chunks)
       /\ store' = Refiled(store, w)
       /\ disk' = disk
    \/ /\ ~SameChunks(store, Recorded(store, w.file), w.chunks)
       /\ disk' = IF NewLines(store, w) = <<>> THEN disk
                  ELSE [disk EXCEPT ![run.dir].chunks = AppendRows(@, n, NewLines(store, w))]
       /\ store' = Finalized(store, w)

LEMMA FinalizeFileKeeps == ASSUME IInv, FinalizeFile PROVE IInv'
  <1> USE DEF IInv
  <1>d. PICK d : d = run.dir
    OBVIOUS
  <1>k. PICK k : k = disk[d]
    OBVIOUS
  <1>t. d \in Dirs /\ k \in DirType /\ store \in StoreType /\ run \in RunType
        /\ disk \in [Dirs -> DirType]
    BY <1>d, <1>k, RunParts DEF Types
  <1>w. PICK w : w = Head(run.group)
    OBVIOUS
  <1>r. PICK rest : rest = Tail(run.group)
    OBVIOUS
  <1>j. PICK j : LinesAdded(j, k, store, w)
    BY DEF LinesAdded
  <1>s. PICK s \in StoreType : s = store
    BY <1>t
  <1>0. /\ UNCHANGED <<stamp, search, faults>> /\ run.pc = "embed" /\ run.order = <<>>
        /\ run.group # <<>> /\ run' = [run EXCEPT !.group = rest]
    BY <1>r DEF FinalizeFile
  <1>f. FinalizeOf(w, Len(s.metas))
    <2>1. FinalizeOf(Head(run.group), Len(store.metas))
      BY DEF FinalizeFile, FinalizeOf, Refiled, Finalized, NewLines, NewRows
    <2> QED BY <1>s, <1>w, <2>1
  <1>1. StoreOK(s, k, stamp) /\ Embedding(s, k, run)
    BY <1>0, <1>d, <1>k, <1>s DEF Runs
  <1>2. /\ w \in Work /\ rest \in Seq(Work) /\ WorkOK(w, stamp)
        /\ \A i \in DOMAIN rest : WorkOK(rest[i], stamp)
        /\ \A t \in GroupTexts(run) : \/ t \in ToSet(w.chunks)
                                      \/ \E i \in DOMAIN rest : t \in ToSet(rest[i].chunks)
        /\ ToSet(w.chunks) \subseteq GroupTexts(run)
        /\ UNION {ToSet(rest[i].chunks) : i \in DOMAIN rest} \subseteq GroupTexts(run)
    <2>g. PICK group : group = run.group
      OBVIOUS
    <2>1. group \in Seq(Work) /\ group # <<>> /\ (\A i \in DOMAIN group : WorkOK(group[i], stamp))
          /\ w = Head(group) /\ rest = Tail(group)
      BY <1>0, <1>r, <1>t, <1>w, <2>g, RunParts DEF Works
    <2>l. PICK l \in Nat : l = Len(group) /\ l >= 1 /\ DOMAIN group = 1 .. l
      BY <2>1
    <2>2. w = group[1] /\ 1 \in DOMAIN group /\ w \in Work
      BY <2>1, <2>l
    <2>3. rest \in Seq(Work) /\ DOMAIN rest = 1 .. l - 1 /\ \A i \in 1 .. l - 1 : rest[i] = group[i + 1]
      BY <2>1, <2>l
    <2>4. \A i \in DOMAIN rest : i + 1 \in DOMAIN group /\ rest[i] = group[i + 1]
      BY <2>3, <2>l
    <2>5. \A i \in DOMAIN group : i = 1 \/ (i - 1 \in DOMAIN rest /\ rest[i - 1] = group[i])
      <3> SUFFICES ASSUME NEW i \in DOMAIN group, i # 1
                   PROVE  i - 1 \in DOMAIN rest /\ rest[i - 1] = group[i]
        OBVIOUS
      <3>1. i - 1 \in 1 .. l - 1 /\ (i - 1) + 1 = i
        BY <2>l
      <3> QED BY <2>3, <3>1
    <2>6. \A t \in GroupTexts(run) : \E i \in DOMAIN group : t \in ToSet(group[i].chunks)
      BY <2>g DEF GroupTexts
    <2>7. \A i \in DOMAIN group : ToSet(group[i].chunks) \subseteq GroupTexts(run)
      BY <2>g DEF GroupTexts
    <2>8. \A t \in GroupTexts(run) : \/ t \in ToSet(w.chunks)
                                     \/ \E i \in DOMAIN rest : t \in ToSet(rest[i].chunks)
      <3> SUFFICES ASSUME NEW t \in GroupTexts(run), t \notin ToSet(w.chunks)
                   PROVE  \E i \in DOMAIN rest : t \in ToSet(rest[i].chunks)
        OBVIOUS
      <3>1. PICK i \in DOMAIN group : t \in ToSet(group[i].chunks)
        BY <2>6
      <3>2. i - 1 \in DOMAIN rest /\ rest[i - 1] = group[i]
        BY <2>2, <2>5, <3>1
      <3> QED BY <3>1, <3>2
    <2>9. UNION {ToSet(rest[i].chunks) : i \in DOMAIN rest} \subseteq GroupTexts(run)
      BY <2>4, <2>7
    <2> QED BY <2>1, <2>2, <2>3, <2>4, <2>7, <2>8, <2>9
  <1>3. /\ run' \in RunType /\ run'.pc = "embed" /\ run'.dir = d /\ run'.todo = run.todo
        /\ run'.group = rest /\ run'.unread = run.unread /\ run'.listed = run.listed
        /\ run'.order = <<>> /\ run'.mark = run.mark
    BY <1>0, <1>2, <1>d, <1>t DEF RunType
  <1>4. /\ GroupTexts(run) \subseteq DOMAIN s.hv /\ k.man.vecs <= run.mark /\ run.mark <= s.vecs
        /\ ~LinesFail =>
              \A n \in 1 .. s.vecs : \/ \E i \in DOMAIN s.metas : s.metas[i].v = n
                                     \/ n > run.mark /\ k.vectors[n] \in GroupTexts(run)
    <2>1. ToSet(<<>>) = {}
      BY DEF ToSet
    <2> QED BY <1>0, <1>1, <2>1 DEF Embedding
  <1>5. GroupTexts(run') = UNION {ToSet(rest[i].chunks) : i \in DOMAIN rest}
    BY <1>3 DEF GroupTexts
  \* What either branch leaves.
  <1> DEFINE Left(x, m) ==
        /\ x \in StoreType /\ StoreOK(x, m, stamp) /\ x.vecs = s.vecs /\ x.hv = s.hv
        /\ \A i \in DOMAIN s.metas : i \in DOMAIN x.metas /\ x.metas[i] = s.metas[i]
        /\ ~LinesFail => \A n \in 1 .. s.vecs : k.vectors[n] \in ToSet(w.chunks) =>
              \E i \in DOMAIN x.metas : x.metas[i].v = n
        /\ m \in DirType /\ m.man = k.man /\ m.vectors = k.vectors
        /\ \A i \in 1 .. Len(s.metas) : m.chunks[i] = k.chunks[i]
  <1>6. PICK m : disk' = [disk EXCEPT ![d] = m] /\ Left(store', m)
    <2>1. CASE SameChunks(s, Recorded(s, w.file), w.chunks)
      <3>1. store' = Refiled(s, w) /\ disk' = disk
        BY <1>f, <1>s, <2>1 DEF FinalizeOf
      <3>a. /\ Refiled(s, w) \in StoreType /\ StoreOK(Refiled(s, w), k, stamp)
            /\ Refiled(s, w).metas = s.metas /\ Refiled(s, w).vecs = s.vecs
            /\ Refiled(s, w).hv = s.hv
            /\ \A t \in ToSet(w.chunks) : \E i \in DOMAIN s.metas : s.metas[i].text = t
        BY <1>1, <1>2, <2>1, SameFile
      <3>2. /\ store' \in StoreType /\ StoreOK(store', k, stamp) /\ store'.metas = s.metas
            /\ store'.vecs = s.vecs /\ store'.hv = s.hv
            /\ \A t \in ToSet(w.chunks) : \E i \in DOMAIN s.metas : s.metas[i].text = t
        BY <3>1, <3>a
      <3>3. ASSUME ~LinesFail, NEW n \in 1 .. s.vecs, k.vectors[n] \in ToSet(w.chunks)
            PROVE  \E i \in DOMAIN s.metas : s.metas[i].v = n
        <4>1. PICK i \in DOMAIN s.metas : s.metas[i].text = k.vectors[n]
          BY <3>2, <3>3
        <4>2. s.metas[i].v \in 1 .. s.vecs /\ k.vectors[s.metas[i].v] = s.metas[i].text
          <5>1. s.metas[i].v <= s.vecs /\ k.vectors[s.metas[i].v] = s.metas[i].text
            BY <1>1 DEF StoreOK, Lines
          <5>2. s.metas \in Seq(Line) /\ s.vecs \in Nat
            BY StoreParts
          <5>3. s.metas[i].v \in Nat /\ s.metas[i].v >= 1
            BY <5>2, LineFields
          <5> QED BY <5>1, <5>2, <5>3
        <4>3. s.hv[k.vectors[n]] = n /\ s.hv[k.vectors[s.metas[i].v]] = s.metas[i].v
          BY <1>1, <3>3, <4>2 DEF StoreOK, Known
        <4> QED BY <4>1, <4>2, <4>3
      <3>4. disk' = [disk EXCEPT ![d] = k]
        BY <1>k, <1>t, <3>1
      <3>5. Left(store', k)
        BY <1>t, <3>2, <3>3
      <3> QED BY <3>4, <3>5
    <2>2. CASE ~SameChunks(s, Recorded(s, w.file), w.chunks)
      <3>1. store' = Finalized(s, w)
        BY <1>f, <1>s, <2>2 DEF FinalizeOf
      <3>2. disk' = IF NewLines(s, w) = <<>> THEN disk
                    ELSE [disk EXCEPT ![run.dir].chunks = AppendRows(@, Len(s.metas), NewLines(s, w))]
        BY <1>f, <1>s, <2>2 DEF FinalizeOf
      <3>3. disk' = [disk EXCEPT ![d] = j]
        <4>1. CASE NewLines(s, w) = <<>>
          BY <1>j, <1>k, <1>s, <1>t, <3>2, <4>1 DEF LinesAdded
        <4>2. CASE NewLines(s, w) # <<>>
          BY <1>d, <1>j, <1>k, <1>s, <1>t, <3>2, <4>2 DEF LinesAdded
        <4> QED BY <4>1, <4>2
      <3>4. LinesAdded(j, k, s, w) /\ ToSet(w.chunks) \subseteq DOMAIN s.hv
        BY <1>2, <1>4, <1>j, <1>s
      <3>5. LinesFit(j, k, s, w)
        BY <1>1, <1>2, <1>t, <3>4, LinesOf
      <3>x. PICK x : x = Finalized(s, w)
        OBVIOUS
      <3>6. /\ x \in StoreType /\ StoreOK(x, j, stamp) /\ x.vecs = s.vecs /\ x.hv = s.hv
            /\ \A i \in DOMAIN s.metas : i \in DOMAIN x.metas /\ x.metas[i] = s.metas[i]
            /\ \A t \in ToSet(w.chunks) : \E i \in DOMAIN x.metas : x.metas[i].v = s.hv[t]
        BY <1>1, <1>2, <1>t, <3>4, <3>x, NewFile
      <3>7. ASSUME ~LinesFail, NEW n \in 1 .. s.vecs, k.vectors[n] \in ToSet(w.chunks)
            PROVE  \E i \in DOMAIN x.metas : x.metas[i].v = n
        <4>1. s.hv[k.vectors[n]] = n
          BY <1>1, <3>7 DEF StoreOK, Known
        <4> QED BY <3>6, <3>7, <4>1
      <3>8. j \in DirType /\ j.man = k.man /\ j.vectors = k.vectors
            /\ \A i \in 1 .. Len(s.metas) : j.chunks[i] = k.chunks[i]
        BY <3>5 DEF LinesFit
      <3>9. Left(x, j)
        BY <3>6, <3>7, <3>8
      <3> HIDE DEF Left
      <3> QED BY <3>1, <3>3, <3>9, <3>x
    <2> QED BY <2>1, <2>2
  <1>n. /\ s.vecs \in Nat /\ Len(s.metas) \in Nat /\ DOMAIN s.metas = 1 .. Len(s.metas)
        /\ k.man.vecs \in Nat /\ k.man.metas \in Nat /\ Len(m.chunks) \in Nat /\ Len(m.vectors) \in Nat
    BY <1>6, <1>t, StoreParts, DirParts
  <1>7. /\ disk' \in [Dirs -> DirType] /\ disk'[d] = m
        /\ \A e \in Dirs : e # d => disk'[e] = disk[e]
    BY <1>t, <1>6, DirSet
  <1>8. Embedding(store', m, run')
    <2>1. ~LinesFail =>
             \A n \in 1 .. s.vecs : \/ \E i \in DOMAIN store'.metas : store'.metas[i].v = n
                                    \/ n > run.mark /\ k.vectors[n] \in GroupTexts(run')
      <3> SUFFICES ASSUME ~LinesFail, NEW n \in 1 .. s.vecs, ~\E i \in DOMAIN store'.metas : store'.metas[i].v = n
                   PROVE  n > run.mark /\ k.vectors[n] \in GroupTexts(run')
        OBVIOUS
      <3>1. ~\E i \in DOMAIN s.metas : s.metas[i].v = n
        BY <1>6
      <3>2. n > run.mark /\ k.vectors[n] \in GroupTexts(run)
        BY <1>4, <3>1
      <3>3. k.vectors[n] \notin ToSet(w.chunks)
        BY <1>6
      <3>4. \E i \in DOMAIN rest : k.vectors[n] \in ToSet(rest[i].chunks)
        BY <1>2, <3>2, <3>3
      <3> QED BY <1>5, <3>2, <3>4
    <2>2. GroupTexts(run') \subseteq DOMAIN store'.hv \cup ToSet(run'.order)
      BY <1>2, <1>4, <1>5, <1>6
    <2>3. run'.order = <<>> /\ ToSet(<<>>) = {} /\ DOMAIN <<>> = {}
      BY <1>3 DEF ToSet
    <2>4. m.man.vecs <= run'.mark /\ run'.mark <= store'.vecs /\ store'.vecs = s.vecs
          /\ m.vectors = k.vectors /\ run'.mark = run.mark
      BY <1>3, <1>4, <1>6
    <2> HIDE DEF Left
    <2> QED BY <2>1, <2>2, <2>3, <2>4 DEF Embedding
  <1>9. ManOK(k.man) /\ Committed(k, stamp) /\ ManOK(m.man) /\ Committed(m, stamp) /\ Grown(k, m)
    <2>1. ManOK(k.man) /\ Committed(k, stamp)
      BY <1>0, <1>d, <1>k, <1>t DEF DirsOK, Replacing
    <2>2. k.man.metas <= Len(s.metas) /\ k.man.vecs <= Len(k.vectors)
      BY <1>1, <1>t, <2>1, CommittedLines DEF StoreOK, Ahead
    <2>3. Len(s.metas) <= Len(m.chunks)
      <3>1. StoreOK(store', m, stamp) /\ store' \in StoreType
        BY <1>6
      <3>2. Len(store'.metas) <= Len(m.chunks) /\ Len(store'.metas) \in Nat
            /\ DOMAIN store'.metas = 1 .. Len(store'.metas)
        BY <3>1, StoreParts DEF StoreOK, Ahead
      <3>3. \A i \in 1 .. Len(s.metas) : i \in 1 .. Len(store'.metas)
        BY <1>6, <1>n, <3>2
      <3>4. Len(s.metas) = 0 \/ Len(s.metas) \in 1 .. Len(store'.metas)
        BY <1>n, <3>3
      <3> QED BY <1>n, <3>2, <3>4
    <2>4. k.man.metas <= Len(m.chunks) /\ \A i \in 1 .. k.man.metas : m.chunks[i] = k.chunks[i]
      <3>1. \A i \in 1 .. k.man.metas : i \in 1 .. Len(s.metas)
        BY <1>n, <2>2
      <3> QED BY <1>6, <1>n, <2>2, <2>3, <3>1
    <2>5. Committed(m, stamp)
      BY <1>6, <1>t, <2>1, <2>2, <2>4, CommittedKept
    <2>6. Grown(k, m)
      BY <1>6, <1>n, <2>4 DEF Grown
    <2> QED BY <1>6, <2>1, <2>5, <2>6
  <1>10. store' \in StoreType /\ StoreOK(store', m, stamp)
    BY <1>6
  <1> HIDE DEF Left
  <1>13. Types'
    BY <1>0, <1>3, <1>7, <1>10 DEF Types
  <1>14. DirsOK'
    <2> SUFFICES ASSUME NEW e \in Dirs PROVE ManOK(disk'[e].man) /\ Committed(disk'[e], stamp)
      BY <1>0 DEF DirsOK
    <2>1. CASE e = d
      BY <1>7, <1>9, <2>1
    <2>2. CASE e # d
      BY <1>t, <1>d, <1>7, <2>2, OtherDirs
    <2> QED BY <2>1, <2>2
  <1>15. Runs'
    BY <1>0, <1>3, <1>7, <1>8, <1>10 DEF Runs
  <1>16. Works'
    BY <1>0, <1>2, <1>3 DEF Works
  <1>17. Replacement'
    BY <1>3, <1>10 DEF Replacement, StoreRows, StoreOK, Known
  <1>18. Searching'
    <2>1. ~Compacting' /\ ~Compacting
      BY <1>0, <1>3 DEF Compacting
    <2>2. "index" \in Dirs /\ disk'["index"] \in DirType
      BY <1>7 DEF Dirs
    <2>3. Grown(disk["index"], disk'["index"])
      <3>0. disk.index \in DirType /\ Committed(disk.index, stamp)
        BY <2>1, IndexCommitted
      <3>1. /\ disk["index"].man.metas \in Nat /\ disk["index"].man.vecs \in Nat
            /\ disk["index"].man.metas <= Len(disk["index"].chunks)
        BY <3>0, DirParts, CommittedLines
      <3>2. CASE d # "index"
        BY <1>7, <2>2, <3>1, <3>2 DEF Grown
      <3>3. CASE d = "index"
        BY <1>7, <1>9, <1>k, <3>3
      <3> QED BY <3>2, <3>3
    <2> QED BY <1>0, <2>1, <2>2, <2>3, SearchGrows
  <1>19. SearchMan'
    BY <1>0 DEF SearchMan
  <1> QED BY <1>13, <1>14, <1>15, <1>16, <1>17, <1>18, <1>19

-----------------------------------------------------------------------------
(* The invariant holds in every reachable state. *)

LEMMA InitIInv == Init => IInv
  <1> SUFFICES ASSUME Init PROVE IInv
    OBVIOUS
  <1>1. /\ stamp = [f \in Files |-> 0] /\ disk = [d \in Dirs |-> EmptyDir]
        /\ store = NoStore /\ run = NoRun /\ search = NoSearch /\ faults = 0
    BY DEF Init
  <1>2. 0 \in 0 .. MaxStamp /\ 0 \in 0 .. MaxFaults
    BY SemIndexAssumption
  <1>3. run.pc = "idle" /\ run.todo = <<>> /\ run.group = <<>> /\ run.unread = {}
        /\ run.listed = NoFiles /\ DOMAIN NoFiles = {} /\ DOMAIN <<>> = {}
    BY <1>1 DEF NoRun, NoFiles
  <1>4. search.pc = "idle" /\ search.man.dead = {}
    BY <1>1 DEF NoSearch, NoManifest
  <1>5. Types
    BY <1>1, <1>2, Empty DEF Types
  <1>6. DirsOK
    BY <1>1, Empty DEF DirsOK
  <1>7. Runs
    BY <1>3 DEF Runs
  <1>8. Works
    BY <1>3 DEF Works
  <1>9. Replacement
    BY <1>1, <1>3, Empty DEF Replacement
  <1>10. Searching /\ SearchMan
    BY <1>4 DEF Searching, SearchMan
  <1> QED BY <1>5, <1>6, <1>7, <1>8, <1>9, <1>10 DEF IInv

LEMMA Inductive == ASSUME AtomicCompact, IInv, [Next]_vars PROVE IInv'
  <1>1. ASSUME NEW f \in Files, Edit(f) PROVE IInv'
    BY <1>1, EditKeeps
  <1>2. ASSUME NEW d \in Dirs, Begin(d) PROVE IInv'
    BY <1>2, BeginKeeps
  <1>3. CASE ReadFile
    BY <1>3, ReadFileKeeps
  <1>4. CASE FormGroup
    BY <1>4, FormGroupKeeps
  <1>5. CASE EmbedBatch
    BY <1>5, EmbedBatchKeeps
  <1>6. CASE FinalizeFile
    BY <1>6, FinalizeFileKeeps
  <1>7. CASE EndGroup
    BY <1>7, EndGroupKeeps
  <1>8. CASE Finish
    BY <1>8, FinishKeeps
  <1>9. CASE CompactVectors
    BY <1>9, CompactVectorsKeeps
  <1>10. CASE CompactChunks
    BY <1>10, CompactChunksKeeps
  <1>11. CASE Save
    BY <1>11, SaveKeeps
  <1>12. CASE Swap
    BY <1>12, SwapKeeps
  <1>13. CASE EmbedFails
    BY <1>13, EmbedFailsKeeps
  <1>21. CASE GroupFails
    BY <1>21, GroupFailsKeeps
  <1>14. CASE CompactFails
    BY <1>14 DEF CompactFails
  <1>15. CASE Crash
    BY <1>15, CrashKeeps
  <1>16. CASE SearchOpen
    BY <1>16, SearchOpenKeeps
  <1>17. CASE SearchChunks
    BY <1>17, SearchChunksKeeps
  <1>18. CASE SearchVectors
    BY <1>18, SearchVectorsKeeps
  <1>19. CASE SearchAnswer
    BY <1>19, SearchAnswerKeeps
  <1>20. CASE UNCHANGED vars
    <2>1. UNCHANGED <<stamp, disk, store, run, search, faults>>
      BY <1>20 DEF vars
    <2>2. Types' /\ DirsOK' /\ SearchMan'
      BY <2>1 DEF IInv, Types, DirsOK, Replacing, SearchMan
    <2>3. Runs' /\ Works' /\ Replacement'
      BY <2>1 DEF IInv, Runs, Works, Replacement
    <2>4. Searching'
      BY <2>1 DEF IInv, Searching, Compacting
    <2> QED BY <2>2, <2>3, <2>4 DEF IInv
  <1> QED
    BY <1>1, <1>2, <1>3, <1>4, <1>5, <1>6, <1>7, <1>8, <1>9, <1>10, <1>11, <1>12, <1>13,
       <1>14, <1>15, <1>16, <1>17, <1>18, <1>19, <1>20, <1>21 DEF Next, UpdateStep, SearchStep

LEMMA Invariance == ASSUME AtomicCompact PROVE Spec => []IInv
  <1>1. IInv /\ [Next]_vars => IInv'
    BY Inductive
  <1> QED BY <1>1, InitIInv, PTL DEF Spec

-----------------------------------------------------------------------------
(* What it says of the index, of its files and of a search *)

LEMMA Manifests == \A man \in ManType : man.dead \subseteq 1 .. man.metas => IsManifest(man)
  <1> SUFFICES ASSUME NEW man \in ManType, man.dead \subseteq 1 .. man.metas
               PROVE  IsManifest(man)
    OBVIOUS
  <1>1. man.metas \in Nat /\ man.vecs \in Nat /\ man.files \in Maps(Files, Record)
    BY DEF ManType
  <1>2. DOMAIN man.files \subseteq Files /\ \A f \in DOMAIN man.files : man.files[f] \in Record
    BY <1>1, MapsDef
  <1> QED BY <1>1, <1>2 DEF IsManifest

\* Every variable keeps its type: the dead rows of a manifest and of the store are
\* rows of theirs, and the vector rows a store knows exist (Store, Manifest, Update).
THEOREM TypeCorrect == ASSUME AtomicCompact PROVE Spec => []TypeOK
  <1>1. IInv => TypeOK
    <2> SUFFICES ASSUME IInv PROVE TypeOK
      OBVIOUS
    <2>1. ASSUME NEW d \in Dirs
          PROVE  disk[d].vectors \in Seq(Texts) /\ disk[d].chunks \in Seq(Line)
                 /\ IsManifest(disk[d].man)
      <3>1. disk[d] \in DirType /\ ManOK(disk[d].man)
        BY DEF IInv, Types, DirsOK
      <3>2. disk[d].man \in ManType /\ disk[d].man.dead \subseteq 1 .. disk[d].man.metas
        BY <3>1, DirParts DEF ManOK
      <3> QED BY <3>1, <3>2, DirParts, Manifests
    <2>2. store.metas \in Seq(Line) /\ store.vecs \in Nat
      BY StoreParts DEF IInv, Types
    <2>3. store.dead \subseteq DOMAIN store.metas
          /\ \A t \in DOMAIN store.hv : store.hv[t] \in 1 .. store.vecs
      BY DEF IInv, Replacement, StoreRows
    <2>4. run.pc \in {"idle", "read", "group", "embed", "finish", "compacting",
                      "compacted", "swap"}
          /\ run.unread \subseteq Files /\ run.mark \in Nat /\ run.since \in Nat
      BY DEF IInv, Types, RunType
    <2>5. search.pc \in {"idle", "chunks", "vectors", "answer"} /\ search.man \in ManType
      BY DEF IInv, Types, SearchType
    <2>6. IsManifest(search.man)
      BY <2>5, Manifests DEF IInv, SearchMan
    <2>7. stamp \in [Files -> 0 .. MaxStamp] /\ faults \in 0 .. MaxFaults
      BY DEF IInv, Types
    <2> QED BY <2>1, <2>2, <2>3, <2>4, <2>5, <2>6, <2>7 DEF TypeOK
  <1> QED BY <1>1, Invariance, PTL

\* Whatever an Update had written when it was cancelled or died, the manifest of the
\* index names rows that are there and whose vectors are those of their texts, except
\* while Compact replaces the files (Commit as the commit point of Store).
THEOREM IndexSoundAlways == ASSUME AtomicCompact PROVE Spec => []IndexSound
  <1>1. IInv => IndexSound
    <2> SUFFICES ASSUME IInv, ~Compacting PROVE ~Corrupt(disk.index) /\ RowsMatch(disk.index)
      BY DEF IndexSound
    <2>1. disk.index \in DirType /\ Committed(disk.index, stamp)
      BY IndexCommitted DEF IInv
    <2>k. PICK k : k = disk.index
      OBVIOUS
    <2>2. /\ ~Corrupt(k) /\ k.man.vecs \in Nat
          /\ \A i \in 1 .. k.man.metas : /\ k.chunks[i].v \in 1 .. k.man.vecs
                                         /\ k.vectors[k.chunks[i].v] = k.chunks[i].text
      BY <2>1, <2>k, CommittedLines, Opened, DirParts
    <2>3. RowsMatch(k)
      BY <2>2 DEF RowsMatch
    <2> QED BY <2>2, <2>3, <2>k
  <1> QED BY <1>1, Invariance, PTL

\* A scrap file recorded with the stamp it has now is indexed with the chunks it has
\* now, although the user may edit it between listFiles, os.ReadFile and Commit.
THEOREM FreshAlways == ASSUME AtomicCompact PROVE Spec => []FreshWhenSame
  <1>1. IInv => FreshWhenSame
    <2>k. PICK k : k = disk.index
      OBVIOUS
    <2> SUFFICES ASSUME IInv, ~Compacting, NEW f \in DOMAIN k.man.files,
                        k.man.files[f].stamp = stamp[f]
                 PROVE  [i \in DOMAIN k.man.files[f].rows
                            |-> k.chunks[k.man.files[f].rows[i]].text] = Content[f][stamp[f]]
      BY <2>k DEF FreshWhenSame
    <2>1. k \in DirType /\ Committed(k, stamp)
      BY <2>k, IndexCommitted DEF IInv
    <2>r. PICK rows : rows = k.man.files[f].rows
      OBVIOUS
    <2>m. PICK metas : metas = SubSeq(k.chunks, 1, k.man.metas)
      OBVIOUS
    <2>2. Spelled(rows, metas) = Content[f][stamp[f]]
      BY <2>1, <2>r, <2>m DEF Committed, Whole, Fresh
    <2>3. \A i \in DOMAIN rows : rows[i] \in 1 .. k.man.metas
      BY <2>1, <2>r, CommittedLines DEF Owned
    <2>4. \A i \in 1 .. k.man.metas : metas[i] = k.chunks[i]
      <3>1. k.chunks \in Seq(Line) /\ k.man.metas \in Nat /\ Len(k.chunks) \in Nat
            /\ k.man.metas <= Len(k.chunks)
        BY <2>1, DirParts, CommittedLines
      <3>2. k.man.metas \in 0 .. Len(k.chunks)
        BY <3>1
      <3> QED BY <2>m, <3>1, <3>2, Prefix
    <2>5. Spelled(rows, metas) = [i \in DOMAIN rows |-> k.chunks[rows[i]].text]
      BY <2>3, <2>4 DEF Spelled
    <2> QED BY <2>2, <2>5, <2>r
  <1> QED BY <1>1, Invariance, PTL

\* Every row the manifest counts is dead or is exactly one row of exactly one file, so
\* no row of a replaced or deleted note is found and none is lost: through new files,
\* Kill and the renumbering of Compact.
THEOREM RowsOwnedAlways == ASSUME AtomicCompact PROVE Spec => []RowsOwned
  <1>1. IInv => RowsOwned
    <2>m. PICK man : man = disk.index.man
      OBVIOUS
    <2>f. PICK files : files = man.files
      OBVIOUS
    <2>p. PICK places : places = UNION {{f} \X DOMAIN files[f].rows : f \in DOMAIN files}
      OBVIOUS
    <2> SUFFICES ASSUME IInv, NEW i \in 1 .. man.metas
                 PROVE  Cardinality({p \in places : files[p[1]].rows[p[2]] = i})
                          = IF i \in man.dead THEN 0 ELSE 1
      BY <2>m, <2>f, <2>p DEF RowsOwned
    <2>o. PICK owners : owners = {p \in places : files[p[1]].rows[p[2]] = i}
      OBVIOUS
    <2>1. Owned(files, (1 .. man.metas) \ man.dead)
      <3>1. "index" \in Dirs
        BY DEF Dirs
      <3> QED BY <2>m, <2>f, <3>1 DEF IInv, DirsOK, ManOK
    <2>2. \A p \in owners : \E f \in DOMAIN files : \E n \in DOMAIN files[f].rows :
             p = <<f, n>> /\ files[f].rows[n] = i
      <3> SUFFICES ASSUME NEW p \in owners
                   PROVE  \E f \in DOMAIN files : \E n \in DOMAIN files[f].rows :
                             p = <<f, n>> /\ files[f].rows[n] = i
        OBVIOUS
      <3>1. PICK f \in DOMAIN files : p \in {f} \X DOMAIN files[f].rows
        BY <2>o, <2>p
      <3>2. p = <<f, p[2]>> /\ p[1] = f /\ p[2] \in DOMAIN files[f].rows
        BY <3>1
      <3>3. files[p[1]].rows[p[2]] = i
        BY <2>o
      <3> QED BY <3>2, <3>3
    <2>3. CASE i \in man.dead
      <3>1. owners = {}
        BY <2>1, <2>2, <2>3 DEF Owned
      <3>2. Cardinality(owners) = 0
        BY <3>1, FS_EmptySet
      <3> QED BY <2>3, <2>o, <3>2
    <2>4. CASE i \notin man.dead
      <3>1. PICK f \in DOMAIN files : \E n \in DOMAIN files[f].rows : files[f].rows[n] = i
        BY <2>1, <2>4 DEF Owned
      <3>2. PICK n \in DOMAIN files[f].rows : files[f].rows[n] = i
        BY <3>1
      <3>3. <<f, n>> \in owners
        <4>1. <<f, n>> \in {f} \X DOMAIN files[f].rows
          BY <3>2
        <4>2. <<f, n>> \in places
          BY <2>p, <4>1
        <4> QED BY <2>o, <3>2, <4>2
      <3>4. \A p \in owners : p = <<f, n>>
        <4> SUFFICES ASSUME NEW p \in owners PROVE p = <<f, n>>
          OBVIOUS
        <4>1. PICK g \in DOMAIN files : \E j \in DOMAIN files[g].rows :
                 p = <<g, j>> /\ files[g].rows[j] = i
          BY <2>2
        <4>2. PICK j \in DOMAIN files[g].rows : p = <<g, j>> /\ files[g].rows[j] = i
          BY <4>1
        <4>3. g = f /\ j = n
          BY <2>1, <3>2, <4>2 DEF Owned
        <4> QED BY <4>2, <4>3
      <3>5. owners = {<<f, n>>}
        BY <3>3, <3>4
      <3>6. Cardinality(owners) = 1
        BY <3>5, FS_Singleton
      <3> QED BY <2>4, <2>o, <3>6
    <2> QED BY <2>3, <2>4
  <1> QED BY <1>1, Invariance, PTL

\* No text is embedded twice: the vectors the manifest counts are of different texts,
\* through cancelled runs, crashes and compactions, as long as chunk lines can be
\* written (Store.hv, RolledBack).
THEOREM OneVectorAlways ==
  ASSUME AtomicCompact, ~LinesFail PROVE Spec => []OneVectorPerText
  <1>1. IInv => OneVectorPerText
    <2>k. PICK k : k = disk.index
      OBVIOUS
    <2> SUFFICES ASSUME IInv, ~Compacting PROVE IsInjective(SubSeq(k.vectors, 1, k.man.vecs))
      BY <2>k DEF OneVectorPerText
    <2>1. k \in DirType /\ Committed(k, stamp)
      BY <2>k, IndexCommitted DEF IInv
    <2>2. k.vectors \in Seq(Texts) /\ k.man.vecs \in 0 .. Len(k.vectors)
      <3>1. k.vectors \in Seq(Texts) /\ k.man.vecs \in Nat /\ Len(k.vectors) \in Nat
        BY <2>1, DirParts
      <3>2. k.man.vecs <= Len(k.vectors)
        BY <2>1, CommittedLines
      <3> QED BY <3>1, <3>2
    <2>q. PICK q : q = SubSeq(k.vectors, 1, k.man.vecs)
      OBVIOUS
    <2>3. DOMAIN q = 1 .. k.man.vecs /\ \A n \in 1 .. k.man.vecs : q[n] = k.vectors[n]
      BY <2>2, <2>q, Prefix
    <2>4. \A m, n \in 1 .. k.man.vecs : k.vectors[m] = k.vectors[n] => m = n
      BY <2>1, CommittedLines DEF Different
    <2>5. IsInjective(q)
      BY <2>3, <2>4 DEF IsInjective
    <2> QED BY <2>5, <2>q
  <1> QED BY <1>1, Invariance, PTL

\* A search that no compaction and no rebuild overtook pairs every chunk with its own
\* vector, although it takes no lock and an Update may be appending (OpenStore,
\* LoadVectors).
THEOREM SearchSoundAlways == ASSUME AtomicCompact PROVE Spec => []SearchSound
  <1>1. IInv => SearchSound
    BY DEF IInv, Searching, SearchSound
  <1> QED BY <1>1, Invariance, PTL
=============================================================================
