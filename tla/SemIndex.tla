------------------------------ MODULE SemIndex ------------------------------
(***************************************************************************)
(* The semantic index of the scrap folder: pkg/semindex/store.go (Store),  *)
(* Update and Rebuild of pkg/semindex/index.go, and the reads a Search of  *)
(* pkg/semindex/search.go makes of the index's files.                      *)
(*                                                                         *)
(* One process updates (the lock that ensures it is SemIndexLock) while    *)
(* the user edits the scrap files and another process searches.  Every     *)
(* write to a file of the index, every read of a scrap file and every read *)
(* of a search is one step; work in memory belongs to the step beside it.  *)
(*                                                                         *)
(* A chunk is its text; the vector of a text is the text itself, so a row  *)
(* is right when the vector it points at equals its text.  Rows are        *)
(* numbered from 1.  Chunk lines all have one length, so MetasBytes says   *)
(* what Metas says.  A file's size and time are one stamp, new at every    *)
(* edit.                                                                   *)
(***************************************************************************)
EXTENDS Naturals, SequencesExt

CONSTANTS
    NFiles,         \* scrap files are 1 .. NFiles, in the order of their names
    Texts,          \* chunk texts
    MaxStamp,       \* bound: edits of a file
    Content,        \* Content[f][s]: the chunks of file f at stamp s, or Gone
    Gone,           \* the file does not exist at this stamp
    BatchSize,      \* texts in one request to the embedder
    CommitEvery,    \* new vectors after which the manifest is written
    DeadMin,        \* deadShare: more dead rows than this ...
    DeadPart,       \* ... and dead rows times this more than all rows
    AtomicCompact,  \* TRUE: no crash and no failing write inside Compact
    LinesFail,      \* TRUE: chunk lines may fail to be written
    MaxFaults       \* bound: crashes, failing writes and requests, skipped files

Files == 1 .. NFiles

ASSUME SemIndexAssumption ==
    /\ NFiles \in Nat /\ MaxStamp \in Nat /\ MaxFaults \in Nat
    /\ BatchSize \in Nat \ {0} /\ CommitEvery \in Nat \ {0}
    /\ DeadMin \in Nat /\ DeadPart \in Nat
    /\ AtomicCompact \in BOOLEAN /\ LinesFail \in BOOLEAN
    /\ \A f \in Files : \A s \in 0 .. MaxStamp :
          Content[f][s] # Gone => Content[f][s] \in Seq(Texts)

VARIABLES
    stamp,   \* stamp[f]: the size and time of scrap file f
    disk,    \* the files of the index folder and of the .rebuild folder beside it
    store,   \* the Store the running Update works on
    run,     \* the running Update or Rebuild
    search,  \* the running Search
    faults

vars == <<stamp, disk, store, run, search, faults>>

Dirs == {"index", "rebuild"}
NoFiles == [f \in {} |-> 0]
NoManifest == [metas |-> 0, vecs |-> 0, dead |-> {}, files |-> NoFiles]
EmptyDir == [vectors |-> <<>>, chunks |-> <<>>, man |-> NoManifest]
NoStore == [metas |-> <<>>, hv |-> NoFiles, dead |-> {}, vecs |-> 0, files |-> NoFiles]
NoRun == [pc |-> "idle", dir |-> "index", listed |-> NoFiles, unread |-> {},
          todo |-> <<>>, group |-> <<>>, order |-> <<>>, mark |-> 0, since |-> 0,
          failed |-> FALSE]
NoSearch == [pc |-> "idle", man |-> NoManifest, metas |-> <<>>, vectors |-> <<>>,
             raced |-> FALSE]

Init ==
    /\ stamp = [f \in Files |-> 0]
    /\ disk = [d \in Dirs |-> EmptyDir]
    /\ store = NoStore /\ run = NoRun /\ search = NoSearch
    /\ faults = 0

(***************************************************************************)
(* Lists made from sets, without a recursion: the n-th element is the one  *)
(* that has n elements at or before it.                                    *)
(***************************************************************************)
Ordered(S, order) ==
    [n \in 1 .. Cardinality(S) |->
        CHOOSE x \in S : Cardinality({y \in S : <<y, x>> \in order}) = n]
Sorted(S) == Ordered(S, {p \in S \X S : p[1] <= p[2]})

\* A map with some of its entries written.
With(f, new) == [x \in DOMAIN f \cup DOMAIN new |-> IF x \in DOMAIN new THEN new[x] ELSE f[x]]

(***************************************************************************)
(* The operations of a Store, as functions of its records.                 *)
(***************************************************************************)

\* loadMetas: what OpenStore checks of the files against the manifest.
Corrupt(k) ==
    /\ k.man.metas > 0
    /\ Len(k.chunks) < k.man.metas \/ Len(k.vectors) < k.man.vecs

\* The vector row of every text; the last line of a text wins.
HashRows(metas) ==
    [t \in {metas[i].text : i \in DOMAIN metas} |->
        LET rows == {i \in DOMAIN metas : metas[i].text = t}
        IN metas[CHOOSE i \in rows : \A j \in rows : j <= i].v]

LiveHashRows(metas, dead) ==   \* mutant of RowOf: dead lines are forgotten
    LET live == Sorted(DOMAIN metas \ dead)
    IN HashRows([n \in DOMAIN live |-> metas[live[n]]])
RowOf(metas, dead) == HashRows(metas)

OpenStore(k) ==
    LET metas == SubSeq(k.chunks, 1, k.man.metas)
    IN [metas |-> metas, hv |-> RowOf(metas, k.man.dead), dead |-> k.man.dead,
        vecs |-> k.man.vecs, files |-> k.man.files]

\* AppendVectors and AppendMetas cut the file at the rows the store counts, then
\* write: leftovers of an interrupted run are overwritten.
AppendAtEnd(rows, n, new) == rows \o new   \* mutant of AppendRows
AppendRows(rows, n, new) == SubSeq(rows, 1, n) \o new

\* Commit: the manifest of a store.
Manifest(s) == [metas |-> Len(s.metas), vecs |-> s.vecs, dead |-> s.dead,
                files |-> s.files]

DeadShare(s) ==
    /\ Cardinality(s.dead) > DeadMin
    /\ Cardinality(s.dead) * DeadPart > Len(s.metas)

\* sameChunks
SameChunks(s, rows, chunks) ==
    /\ Len(rows) = Len(chunks)
    /\ \A i \in DOMAIN rows : /\ rows[i] \notin s.dead
                              /\ s.metas[rows[i]].text = chunks[i]

\* Compact: the live lines in order, each vector row they use kept once, in the
\* order of its first use, and the lines' rows renumbered.
Live(s) == DOMAIN s.metas \ s.dead
LiveRows(s) == Sorted(Live(s))
FirstUses(s) ==
    {i \in Live(s) : \A j \in Live(s) : s.metas[j].v = s.metas[i].v => i <= j}
UsedRows(s) ==
    LET first == Sorted(FirstUses(s))
    IN [n \in DOMAIN first |-> s.metas[first[n]].v]
Position(seq, x) == CHOOSE n \in DOMAIN seq : seq[n] = x
KeptVectors(s, vectors) ==
    LET used == UsedRows(s)
    IN [n \in DOMAIN used |-> vectors[used[n]]]
KeptUnmapped(s) == [n \in DOMAIN LiveRows(s) |-> s.metas[LiveRows(s)[n]]]   \* mutant
KeptMetas(s) ==
    LET live == LiveRows(s)
        used == UsedRows(s)
    IN [n \in DOMAIN live |->
          [text |-> s.metas[live[n]].text, v |-> Position(used, s.metas[live[n]].v)]]
KeptRecord(s, rec) ==
    LET live == LiveRows(s)
        kept == Sorted({i \in DOMAIN rec.rows : rec.rows[i] \notin s.dead})
    IN [rec EXCEPT !.rows = [n \in DOMAIN kept |-> Position(live, rec.rows[kept[n]])]]
Compacted(s) ==
    [metas |-> KeptMetas(s), hv |-> HashRows(KeptMetas(s)), dead |-> {},
     vecs |-> Len(UsedRows(s)),
     files |-> [f \in DOMAIN s.files |-> KeptRecord(s, s.files[f])]]

(***************************************************************************)
(* The user.                                                               *)
(***************************************************************************)
Edit(f) ==
    /\ stamp[f] < MaxStamp
    /\ stamp' = [stamp EXCEPT ![f] = @ + 1]
    /\ UNCHANGED <<disk, store, run, search, faults>>

(***************************************************************************)
(* Update and Rebuild.                                                     *)
(***************************************************************************)
Present == {f \in Files : Content[f][stamp[f]] # Gone}

\* Files listFiles did not find: their rows are dead and their records go.
Forget(s, found) ==
    [s EXCEPT !.dead = @ \cup UNION {ToSet(s.files[f].rows) : f \in DOMAIN s.files \ found},
              !.files = [f \in DOMAIN s.files \cap found |-> s.files[f]]]

\* Update opens the store and lists the folder; the files whose stamp is the
\* recorded one are not read, unless forced.  Rebuild clears .rebuild and runs
\* the same Update there.
Begin(d) ==
    LET k == IF d = "rebuild" THEN EmptyDir ELSE disk[d]
        s == OpenStore(k)
    IN /\ run.pc = "idle"
       /\ disk' = [disk EXCEPT ![d] = k]
       /\ ~Corrupt(k)
       /\ \E force \in BOOLEAN :
             run' = [NoRun EXCEPT
                !.pc = "read", !.dir = d,
                !.listed = [f \in Present |-> stamp[f]],
                !.unread = {f \in Present :
                    force \/ f \notin DOMAIN s.files \/ s.files[f].stamp # stamp[f]}]
       /\ store' = Forget(s, Present)
       /\ UNCHANGED <<stamp, search, faults>>

\* One file is read; it may have changed since it was listed.  A file that is
\* gone by now, one that cannot be read and one still settling are left for the
\* next Update.
ReadFile ==
    /\ run.pc = "read" /\ run.unread # {}
    /\ LET f == CHOOSE g \in run.unread : \A h \in run.unread : g <= h
           rest == [run EXCEPT !.unread = @ \ {f}]
       IN \/ /\ f \in Present
             /\ run' = [rest EXCEPT !.todo = Append(@,
                   [file |-> f, stamp |-> run.listed[f], chunks |-> Content[f][stamp[f]]])]
             /\ UNCHANGED faults
          \/ /\ f \notin Present
             /\ run' = rest
             /\ UNCHANGED faults
          \/ /\ f \in Present /\ faults < MaxFaults
             /\ run' = rest
             /\ faults' = faults + 1
    /\ UNCHANGED <<stamp, disk, store, search>>

\* The texts of a list of files that have no vector yet, each once, in order.
Missing(works) ==
    LET places == UNION {{i} \X DOMAIN works[i].chunks : i \in DOMAIN works}
        text(p) == works[p[1]].chunks[p[2]]
        before(p, q) == p[1] < q[1] \/ (p[1] = q[1] /\ p[2] <= q[2])
        first == {p \in places : /\ text(p) \notin DOMAIN store.hv
                                 /\ \A q \in places : text(q) = text(p) => before(p, q)}
        list == Ordered(first, {r \in first \X first : before(r[1], r[2])})
    IN [n \in DOMAIN list |-> text(list[n])]

\* The next group: files until their missing texts fill about two requests.
FormGroup ==
    /\ \/ run.pc = "read" /\ run.unread = {}
       \/ run.pc = "group"
    /\ run.todo # <<>>
    /\ LET full(n) == Len(Missing(SubSeq(run.todo, 1, n))) >= BatchSize * 2
           last == CHOOSE n \in 1 .. Len(run.todo) :
                      /\ full(n) \/ n = Len(run.todo)
                      /\ \A m \in 1 .. n - 1 : ~full(m)
           group == SubSeq(run.todo, 1, last)
       IN run' = [run EXCEPT !.pc = "embed", !.group = group, !.order = Missing(group),
                             !.todo = SubSeq(@, last + 1, Len(@)), !.mark = store.vecs]
    /\ UNCHANGED <<stamp, disk, store, search, faults>>

\* One request to the embedder and AppendVectors.
EmbedBatch ==
    /\ run.pc = "embed" /\ run.order # <<>>
    /\ LET n == IF Len(run.order) < BatchSize THEN Len(run.order) ELSE BatchSize
           hs == SubSeq(run.order, 1, n)
       IN /\ disk' = [disk EXCEPT ![run.dir].vectors = AppendRows(@, store.vecs, hs)]
          /\ store' = [store EXCEPT
                !.vecs = @ + n,
                !.hv = With(@, [t \in ToSet(hs) |-> store.vecs + Position(hs, t)])]
          /\ run' = [run EXCEPT !.order = SubSeq(@, n + 1, Len(@)), !.since = @ + n]
    /\ UNCHANGED <<stamp, search, faults>>

\* What a group has appended is taken back to the rows before it.
HalfRolledBack(s, mark) == [s EXCEPT !.vecs = mark]   \* mutant of RolledBack
RolledBack(s, mark) ==
    [s EXCEPT !.vecs = mark, !.hv = [t \in {u \in DOMAIN @ : @[u] <= mark} |-> @[t]]]

\* The run is cancelled, the model fails or the vectors cannot be written: the
\* vectors of the unfinished group belong to no chunk and are dropped.
EmbedFails ==
    /\ run.pc = "embed" /\ run.order # <<>>
    /\ faults < MaxFaults
    /\ faults' = faults + 1
    /\ store' = RolledBack(store, run.mark)
    /\ run' = [run EXCEPT !.pc = "finish", !.failed = TRUE]
    /\ UNCHANGED <<stamp, disk, search>>

Unkilled(s, rows) == s.dead   \* mutant of Killed
Killed(s, rows) == s.dead \cup rows

LateRecord(w, rows) == [stamp |-> stamp[w.file], rows |-> rows]   \* mutant of FileRec
FileRec(w, rows) == [stamp |-> w.stamp, rows |-> rows]

Recorded(s, f) == IF f \in DOMAIN s.files THEN s.files[f].rows ELSE <<>>

\* finalizeFile: all vectors of the first file of the group are there.
FinalizeFile ==
    /\ run.pc = "embed" /\ run.order = <<>> /\ run.group # <<>>
    /\ LET w == Head(run.group)
           old == Recorded(store, w.file)
           n == Len(store.metas)
           ms == [i \in DOMAIN w.chunks |->
                    [text |-> w.chunks[i], v |-> store.hv[w.chunks[i]]]]
           rows == [i \in DOMAIN w.chunks |-> n + i]
       IN \/ /\ SameChunks(store, old, w.chunks)
             /\ store' = [store EXCEPT !.files = With(@, [f \in {w.file} |-> FileRec(w, old)])]
             /\ UNCHANGED disk
          \/ /\ ~SameChunks(store, old, w.chunks)
             /\ disk' = IF ms = <<>> THEN disk
                        ELSE [disk EXCEPT ![run.dir].chunks = AppendRows(@, n, ms)]
             /\ store' = [store EXCEPT
                   !.metas = @ \o ms,
                   !.hv = With(@, [t \in ToSet(w.chunks) |-> @[t]]),
                   !.dead = Killed(store, ToSet(old)),
                   !.files = With(@, [f \in {w.file} |-> FileRec(w, rows)])]
    /\ run' = [run EXCEPT !.group = Tail(@)]
    /\ UNCHANGED <<stamp, search, faults>>

\* The group is finished: the manifest is written when enough is new.
EndGroup ==
    /\ run.pc = "embed" /\ run.order = <<>> /\ run.group = <<>>
    /\ IF run.since >= CommitEvery
       THEN /\ disk' = [disk EXCEPT ![run.dir].man = Manifest(store)]
            /\ run' = [run EXCEPT !.pc = "group", !.since = 0]
       ELSE /\ run' = [run EXCEPT !.pc = "group"]
            /\ UNCHANGED disk
    /\ UNCHANGED <<stamp, store, search, faults>>

\* The chunk lines of a file cannot be written, or the manifest cannot: the run ends.
\* What is appended already stays, vectors without a line too.
GroupFails ==
    /\ run.pc = "embed" /\ run.order = <<>>
    /\ \/ /\ LinesFail /\ run.group # <<>>
          /\ LET w == Head(run.group)
             IN w.chunks # <<>> /\ ~SameChunks(store, Recorded(store, w.file), w.chunks)
       \/ run.group = <<>> /\ run.since >= CommitEvery
    /\ faults < MaxFaults
    /\ faults' = faults + 1
    /\ run' = [run EXCEPT !.pc = "finish", !.failed = TRUE]
    /\ UNCHANGED <<stamp, disk, store, search>>

\* No file is left.
Finish ==
    /\ \/ run.pc = "read" /\ run.unread = {}
       \/ run.pc = "group"
    /\ run.todo = <<>>
    /\ run' = [run EXCEPT !.pc = "finish"]
    /\ UNCHANGED <<stamp, disk, store, search, faults>>

Compacts == run.pc = "finish" /\ ~run.failed /\ DeadShare(store)

\* A file of the index a running search reads is replaced under it.
Race(d) == search' = [search EXCEPT !.raced = @ \/ (d = "index" /\ search.pc # "idle")]

\* Compact replaces vectors.bin ...
CompactVectors ==
    /\ Compacts
    /\ disk' = [disk EXCEPT ![run.dir].vectors = KeptVectors(store, @)]
    /\ run' = [run EXCEPT !.pc = "compacting"]
    /\ Race(run.dir)
    /\ UNCHANGED <<stamp, store, faults>>

\* ... then chunks.jsonl; the manifest follows in Save.
CompactChunks ==
    /\ run.pc = "compacting"
    /\ disk' = [disk EXCEPT ![run.dir].chunks = KeptMetas(store)]
    /\ store' = Compacted(store)
    /\ run' = [run EXCEPT !.pc = "compacted"]
    /\ Race(run.dir)
    /\ UNCHANGED <<stamp, faults>>

\* One of the two writes fails; Update still commits the store it has in memory.
CompactFails ==
    /\ ~AtomicCompact
    /\ Compacts \/ run.pc = "compacting"
    /\ faults < MaxFaults
    /\ faults' = faults + 1
    /\ run' = [run EXCEPT !.pc = "finish", !.failed = TRUE]
    /\ UNCHANGED <<stamp, disk, store, search>>

\* The last Commit of the run.
Save ==
    /\ run.pc = "compacted" \/ (run.pc = "finish" /\ ~Compacts)
    /\ disk' = [disk EXCEPT ![run.dir].man = Manifest(store)]
    /\ run' = IF run.dir = "rebuild" /\ ~run.failed
              THEN [NoRun EXCEPT !.pc = "swap", !.dir = "rebuild"] ELSE NoRun
    /\ store' = NoStore
    /\ UNCHANGED <<stamp, search, faults>>

\* Rebuild puts the finished .rebuild in the index's place.
Misplaced == [disk EXCEPT !.rebuild = EmptyDir]   \* mutant of InPlace
InPlace == [disk EXCEPT !.index = disk.rebuild, !.rebuild = EmptyDir]
Swap ==
    /\ run.pc = "swap"
    /\ disk' = InPlace
    /\ run' = NoRun
    /\ Race("index")
    /\ UNCHANGED <<stamp, store, faults>>

\* The process dies; what it wrote stays.
Crash ==
    /\ run.pc # "idle"
    /\ AtomicCompact => run.pc \notin {"compacting", "compacted"}
    /\ faults < MaxFaults
    /\ faults' = faults + 1
    /\ run' = NoRun /\ store' = NoStore
    /\ UNCHANGED <<stamp, disk, search>>

(***************************************************************************)
(* A Search, which takes no lock: OpenStore reads the manifest, then the   *)
(* chunk lines; LoadVectors reads the vectors.                             *)
(***************************************************************************)
\* The index's files are between two generations.
Compacting == run.dir = "index" /\ run.pc \in {"compacting", "compacted"}

SearchOpen ==
    /\ search.pc = "idle" /\ disk.index.man.metas > 0
    /\ search' = [NoSearch EXCEPT !.pc = "chunks", !.man = disk.index.man,
                                  !.raced = Compacting]
    /\ UNCHANGED <<stamp, disk, store, run, faults>>

\* The files as the search finds them, under the manifest it read before.
Found == [disk.index EXCEPT !.man = search.man]

SearchChunks ==
    /\ search.pc = "chunks"
    /\ search' = IF Corrupt(Found) THEN NoSearch
                 ELSE [search EXCEPT !.pc = "vectors", !.metas = OpenStore(Found).metas]
    /\ UNCHANGED <<stamp, disk, store, run, faults>>

SearchVectors ==
    /\ search.pc = "vectors"
    /\ search' = IF Len(disk.index.vectors) < search.man.vecs THEN NoSearch
                 ELSE [search EXCEPT !.pc = "answer",
                          !.vectors = SubSeq(disk.index.vectors, 1, search.man.vecs)]
    /\ UNCHANGED <<stamp, disk, store, run, faults>>

SearchAnswer ==
    /\ search.pc = "answer"
    /\ search' = NoSearch
    /\ UNCHANGED <<stamp, disk, store, run, faults>>

UpdateStep ==
    \/ ReadFile \/ FormGroup \/ EmbedBatch \/ FinalizeFile \/ EndGroup \/ Finish
    \/ CompactVectors \/ CompactChunks \/ Save \/ Swap
SearchStep == SearchOpen \/ SearchChunks \/ SearchVectors \/ SearchAnswer

Next ==
    \/ \E f \in Files : Edit(f)
    \/ \E d \in Dirs : Begin(d)
    \/ UpdateStep
    \/ EmbedFails \/ GroupFails \/ CompactFails \/ Crash
    \/ SearchStep

Spec == Init /\ [][Next]_vars

\* A run goes on (WF of UpdateStep, spelled out: a step is enabled exactly while a run
\* is under way), the user updates the index again and again, and rebuilds one that is
\* reported as damaged.
Fairness ==
    /\ []<>(run.pc = "idle") \/ []<><<UpdateStep>>_vars
    /\ WF_vars(Begin("index"))
    /\ WF_vars(Corrupt(disk.index) /\ Begin("rebuild"))

FairSpec == Spec /\ Fairness

(***************************************************************************)
(* Properties.                                                             *)
(***************************************************************************)
Line == [text : Texts, v : Nat \ {0}]
Record == [stamp : 0 .. MaxStamp, rows : Seq(Nat \ {0})]

IsManifest(man) ==
    /\ man.metas \in Nat /\ man.vecs \in Nat
    /\ man.dead \subseteq 1 .. man.metas
    /\ DOMAIN man.files \subseteq Files
    /\ \A f \in DOMAIN man.files : man.files[f] \in Record

\* Every variable has its type: the manifests' dead rows are rows, a store's
\* vector rows exist, a run's files are files (Store, Manifest, Update).
TypeOK ==
    /\ stamp \in [Files -> 0 .. MaxStamp]
    /\ \A d \in Dirs : /\ disk[d].vectors \in Seq(Texts)
                       /\ disk[d].chunks \in Seq(Line)
                       /\ IsManifest(disk[d].man)
    /\ store.metas \in Seq(Line) /\ store.vecs \in Nat
    /\ store.dead \subseteq DOMAIN store.metas
    /\ \A t \in DOMAIN store.hv : store.hv[t] \in 1 .. store.vecs
    /\ run.pc \in {"idle", "read", "group", "embed", "finish", "compacting",
                   "compacted", "swap"}
    /\ run.unread \subseteq Files /\ run.mark \in Nat /\ run.since \in Nat
    /\ search.pc \in {"idle", "chunks", "vectors", "answer"}
    /\ IsManifest(search.man)
    /\ faults \in 0 .. MaxFaults

\* Every live row of an index points at the vector of its own text.
RowsMatch(k) ==
    \A i \in 1 .. k.man.metas \ k.man.dead :
        /\ k.chunks[i].v <= k.man.vecs
        /\ k.vectors[k.chunks[i].v] = k.chunks[i].text

\* Whatever an Update wrote when it was cancelled or died, the manifest names
\* rows that are there and whose vectors are those of their texts (Commit is the
\* commit point of AppendVectors and AppendMetas); outside a compaction.
IndexSound ==
    Compacting \/ (~Corrupt(disk.index) /\ RowsMatch(disk.index))

\* A file recorded with the stamp it has now is indexed with the chunks it has
\* now, although the user may edit between listFiles, os.ReadFile and Commit.
FreshWhenSame ==
    ~Compacting =>
        \A f \in DOMAIN disk.index.man.files :
            LET rec == disk.index.man.files[f]
            IN rec.stamp = stamp[f] =>
                  [i \in DOMAIN rec.rows |-> disk.index.chunks[rec.rows[i]].text]
                      = Content[f][stamp[f]]

\* Every row the manifest counts is dead or is exactly one row of exactly one
\* file, so a replaced or deleted note leaves no row a search finds
\* (finalizeFile, Kill, Compact).
RowsOwned ==
    LET man == disk.index.man
        places == UNION {{f} \X DOMAIN man.files[f].rows : f \in DOMAIN man.files}
        owners(i) == {p \in places : man.files[p[1]].rows[p[2]] = i}
    IN \A i \in 1 .. man.metas :
          Cardinality(owners(i)) = IF i \in man.dead THEN 0 ELSE 1

\* No text is embedded twice: the committed vectors are of different texts,
\* through cancelled runs, crashes and compactions (Store.hv).  It takes ~LinesFail.
OneVectorPerText ==
    ~Compacting =>
        IsInjective(SubSeq(disk.index.vectors, 1, disk.index.man.vecs))

\* A search that no compaction and no rebuild overtook pairs every chunk with
\* its own vector, although an Update may be writing (OpenStore, LoadVectors).
Answers(s) ==
    \A i \in 1 .. s.man.metas \ s.man.dead :
        /\ s.metas[i].v <= s.man.vecs
        /\ s.vectors[s.metas[i].v] = s.metas[i].text
SearchSound == search.pc = "answer" /\ ~search.raced => Answers(search)

\* Every file of the folder is in a readable index at its present stamp, and no
\* other file is.
Indexed ==
    /\ ~Corrupt(disk.index)
    /\ DOMAIN disk.index.man.files = Present
    /\ \A f \in Present : disk.index.man.files[f].stamp = stamp[f]

\* Once the user stops editing and nothing fails any more, the index catches up
\* and stays so: what was cancelled is resumed, and an index reported as damaged
\* is replaced by Rebuild.
CatchesUp == <>[]Indexed
=============================================================================
