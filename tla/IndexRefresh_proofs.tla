------------------------- MODULE IndexRefresh_proofs -------------------------
(***************************************************************************)
(* Theorems about IndexRefresh for any tags, paths, texts and workers, any *)
(* size of the batches and any bound of the clock.                         *)
(***************************************************************************)
EXTENDS IndexRefresh, FiniteSetTheorems, TLAPS

\* The types of what a refresh knows and writes, the index itself apart.
Typed ==
    /\ text \in [Tag -> [Path -> Key]]
    /\ modified \in [Tag -> [Path -> Time]]
    /\ clock \in Time
    /\ catalog \subseteq Row
    /\ job \in [Worker -> Job]

\* The files a job is to record as indexed, now or later.
ToRecord(j) ==
    Pending(j, "compute") \cup Pending(j, "addTag") \cup j.touch
    \cup (IF j.op \in {"compute", "addTag"} THEN j.left ELSE {})

\* Since the time of the plan they have these texts in the tree, or were modified.
PlanInv ==
    \A w \in Worker :
        /\ job[w].at <= clock
        /\ job[w].pc = "stamp" => ToRecord(job[w]) = {}
        /\ job[w].pc # "catalog" => job[w].left = {}
        /\ \A f \in ToRecord(job[w]) :
             modified[job[w].tag][f.path] < job[w].at =>
                f.key = text[job[w].tag][f.path]

\* No row has a time to come.
RowsPast == \A r \in catalog : r.at <= clock

-----------------------------------------------------------------------------
(* Type correctness. *)

\* There are a tag and an operation for an idle job to have.
LEMMA IdleTyped == IdleJob \in Job
BY RefreshAssumption DEF IdleJob, NoPlan, Job, Op, Time

\* Initially nothing is listed, planned or under way.
LEMMA InitInv == Init => Typed /\ PlanInv /\ RowsPast /\ NoFalseProgress
<1> SUFFICES ASSUME Init PROVE Typed /\ PlanInv /\ RowsPast /\ NoFalseProgress
    OBVIOUS
<1> USE RefreshAssumption DEF Init
<1>1. Typed
    <2>1. NoText \in Key
        BY DEF Key
    <2>2. QED
        BY <2>1, IdleTyped DEF Typed, Time
<1>2. PlanInv
    BY DEF PlanInv, ToRecord, Pending, IdleJob, NoPlan, Op
<1>3. RowsPast /\ NoFalseProgress
    BY DEF RowsPast, NoFalseProgress
<1>4. QED
    BY <1>1, <1>2, <1>3

\* What is planned are files (getAddRemoveForTag, getComputeDeleteAddRemove).
LEMMA PlanTyped ==
    ASSUME Typed, NEW j \in Job
    PROVE  Plan(j) \in [Op -> SUBSET File] /\ Unchanged(j) \subseteq File
<1>1. Present(j) \subseteq Path
    BY DEF Present, Job
<1>2. Newer(j) \subseteq Present(j)
    BY DEF Newer, Present
<1>3. Added(j) \subseteq File /\ Unchanged(j) \subseteq File
    BY <1>1, <1>2 DEF Added, Unchanged, Changed, File, Typed, Job
<1>4. Removed(j) \subseteq File
    BY DEF Removed
<1>5. ASSUME NEW o \in Op PROVE Planned(j, o) \in SUBSET File
    BY <1>3, <1>4 DEF Planned, Op
<1>6. QED
    BY <1>3, <1>5 DEF Plan

\* A batch is a part of what is planned, and the other batches are the rest of it
\* (batchRefreshIndexResults).
LEMMA BatchTyped ==
    ASSUME NEW P \in [Op -> SUBSET File], NEW b \in Batches(P) \cup {P}
    PROVE  /\ b \in [Op -> SUBSET File] /\ Without(P, b) \in [Op -> SUBSET File]
           /\ \A o \in Op : b[o] \cup Without(P, b)[o] = P[o]
           /\ \A o \in Op : Cardinality(P[o]) <= BatchSize =>
                               b[o] = P[o] /\ Without(P, b)[o] = {}
<1>1. CASE b = P
    BY <1>1 DEF Without
<1>2. CASE b \in Batches(P)
    <2>1. /\ b \in [Op -> UNION {Slices(P[o]) : o \in Op}]
          /\ \A o \in Op : b[o] \in Slices(P[o])
        BY <1>2 DEF Batches
    <2>2. ASSUME NEW o \in Op
          PROVE  b[o] \subseteq P[o] /\ (Cardinality(P[o]) <= BatchSize => b[o] = P[o])
        <3>1. b[o] \in Slices(P[o])
            BY <2>1
        <3>2. QED
            BY <3>1 DEF Slices
    <2>3. b \in [Op -> SUBSET File]
        <3>1. \A o \in Op : b[o] \in SUBSET File
            BY <2>2
        <3>2. QED
            BY <2>1, <3>1
    <2>4. QED
        BY <2>2, <2>3 DEF Without
<1>3. QED
    BY <1>1, <1>2

\* A plan is made and its first batch taken (getComputeDeleteAddRemove).
LEMMA PlanSliced ==
    ASSUME Typed, NEW w \in Worker, MakePlan(w)
    PROVE  \E b \in Batches(Plan(job[w])) \cup {Plan(job[w])} :
             Update(w, [job[w] EXCEPT !.pc = "work", !.stats = {},
                          !.plan = b, !.rest = Without(Plan(job[w]), b),
                          !.touch = IF job[w].whole THEN Unchanged(job[w]) ELSE {}])
BY DEF MakePlan

\* The job that has carried out an operation for some of its files.
LEMMA CarriedTyped ==
    ASSUME Typed, NEW w \in Worker, NEW o \in Op, NEW S \in SUBSET File, Carried(w, o, S)
    PROVE  job' \in [Worker -> Job]
<1> DEFINE j == job[w]
           rest == [j.plan EXCEPT ![o] = @ \ S]
           new == [j EXCEPT !.pc = "catalog", !.op = o, !.items = S, !.left = S,
                            !.plan[o] = @ \ S]
<1>1. j \in Job
    BY DEF Typed
<1>2. rest \in [Op -> SUBSET File]
    BY <1>1 DEF Job
<1>3. new = [j EXCEPT !.pc = "catalog", !.op = o, !.items = S, !.left = S,
                      !.plan = rest]
    BY <1>1 DEF Job
<1>4. new \in Job
    BY <1>1, <1>2, <1>3 DEF Job
<1>5. QED
    BY <1>4 DEF Typed, Carried, Update

\* Each operation carries out files of its part of the plan and marks nothing yet
\* (ChunkCodebaseIndex.update).
LEMMA OperationCarries ==
    ASSUME Typed, NEW w \in Worker, Compute(w) \/ AddTag(w) \/ RemoveTag(w) \/ Delete(w)
    PROVE  /\ \E o \in Op : \E S \in SUBSET job[w].plan[o] : Carried(w, o, S)
           /\ UNCHANGED <<text, modified, clock, catalog>>
<1>1. CASE Compute(w)
    <2>1. Carried(w, "compute", job[w].plan["compute"])
        BY <1>1 DEF Compute
    <2>2. UNCHANGED <<text, modified, clock, catalog>>
        BY <1>1 DEF Compute
    <2>3. "compute" \in Op
        BY DEF Op
    <2>4. QED
        BY <2>1, <2>2, <2>3
<1>2. CASE AddTag(w)
    <2>1. PICK f \in job[w].plan["addTag"] : Carried(w, "addTag", {f})
        BY <1>2 DEF AddTag
    <2>2. QED
        BY <1>2, <2>1 DEF AddTag, Op
<1>3. CASE RemoveTag(w)
    <2>1. PICK f \in job[w].plan["removeTag"] : Carried(w, "removeTag", {f})
        BY <1>3 DEF RemoveTag
    <2>2. QED
        BY <1>3, <2>1 DEF RemoveTag, Op
<1>4. CASE Delete(w)
    <2>1. PICK f \in job[w].plan["del"] : Carried(w, "del", {f})
        BY <1>4 DEF Delete
    <2>2. QED
        BY <1>4, <2>1 DEF Delete, Op
<1>5. QED
    BY <1>1, <1>2, <1>3, <1>4

\* No step takes these out of their types (refreshIndex.ts, CodebaseIndexer.ts).
LEMMA StepTyped == Typed /\ [Next]_vars => Typed'
<1> SUFFICES ASSUME Typed, [Next]_vars PROVE Typed'
    OBVIOUS
<1> USE RefreshAssumption DEF Typed, At, Update, Time
<1>1. ASSUME NEW t \in Tag, NEW p \in Path, NEW x \in Text[p] \cup {NoText}, Edit(t, p, x)
      PROVE  Typed'
    <2>1. x \in Key
        BY DEF Key
    <2>2. clock + 1 \in Time /\ clock' \in Time
        BY <1>1 DEF Edit
    <2>3. text' \in [Tag -> [Path -> Key]]
        BY <1>1, <2>1 DEF Edit
    <2>4. modified' \in [Tag -> [Path -> Time]]
        BY <1>1, <2>2 DEF Edit
    <2>5. QED
        BY <1>1, <2>2, <2>3, <2>4 DEF Edit
<1>2. ASSUME NEW w \in Worker, NEW t \in Tag, NEW S, Begin(w, t, S) PROVE Typed'
    <2> DEFINE stats == {[path |-> p, modified |-> modified[t][p]] :
                           p \in {p \in S : text[t][p] # NoText}}
    <2>1. stats \subseteq [path : Path, modified : Time]
        BY <1>2 DEF Begin
    <2>2. [IdleJob EXCEPT !.pc = "stamp", !.tag = t, !.whole = (S = Path), !.began = clock,
                          !.stats = stats] \in Job
        BY <2>1, IdleTyped DEF Job
    <2>3. QED
        BY <1>2, <2>2 DEF Begin
<1>3. ASSUME NEW w \in Worker, Stamp(w) PROVE Typed'
    <2>1. job[w] \in Job /\ clock + 1 \in Time
        BY <1>3 DEF Stamp
    <2>2. [job[w] EXCEPT !.pc = "plan", !.at = clock + 1] \in Job
        BY <2>1 DEF Job
    <2>3. QED
        BY <1>3, <2>1, <2>2 DEF Stamp
<1>4. ASSUME NEW w \in Worker, MakePlan(w) PROVE Typed'
    <2>1. job[w] \in Job
        OBVIOUS
    <2>2. Plan(job[w]) \in [Op -> SUBSET File] /\ Unchanged(job[w]) \in SUBSET File
        BY <2>1, PlanTyped
    <2>3. PICK b \in Batches(Plan(job[w])) \cup {Plan(job[w])} :
             Update(w, [job[w] EXCEPT !.pc = "work", !.stats = {},
                          !.plan = b, !.rest = Without(Plan(job[w]), b),
                          !.touch = IF job[w].whole THEN Unchanged(job[w]) ELSE {}])
        BY <1>4, PlanSliced
    <2>4. b \in [Op -> SUBSET File] /\ Without(Plan(job[w]), b) \in [Op -> SUBSET File]
        BY <2>2, <2>3, BatchTyped
    <2> DEFINE new == [job[w] EXCEPT !.pc = "work", !.stats = {},
                         !.plan = b, !.rest = Without(Plan(job[w]), b),
                         !.touch = IF job[w].whole THEN Unchanged(job[w]) ELSE {}]
    <2>5. new \in Job
        BY <2>1, <2>2, <2>4 DEF Job
    <2>6. QED
        BY <1>4, <2>3, <2>5 DEF MakePlan
<1>4a. ASSUME NEW w \in Worker, NextBatch(w) PROVE Typed'
    <2>1. job[w] \in Job /\ job[w].rest \in [Op -> SUBSET File]
        BY DEF Job
    <2>2. PICK b \in Batches(job[w].rest) :
             Update(w, [job[w] EXCEPT !.plan = b, !.rest = Without(job[w].rest, b)])
        BY <1>4a DEF NextBatch
    <2>3. b \in [Op -> SUBSET File] /\ Without(job[w].rest, b) \in [Op -> SUBSET File]
        BY <2>1, BatchTyped
    <2>4. [job[w] EXCEPT !.plan = b, !.rest = Without(job[w].rest, b)] \in Job
        BY <2>1, <2>3 DEF Job
    <2>5. QED
        BY <1>4a, <2>2, <2>4 DEF NextBatch
<1>5. ASSUME NEW w \in Worker, Compute(w) \/ AddTag(w) \/ RemoveTag(w) \/ Delete(w)
      PROVE  Typed'
    <2>1. job[w] \in Job
        OBVIOUS
    <2>2. job[w].plan \in [Op -> SUBSET File]
        BY <2>1 DEF Job
    <2>3. PICK o \in Op : \E S \in SUBSET job[w].plan[o] : Carried(w, o, S)
        BY <1>5, OperationCarries
    <2>4. PICK S \in SUBSET job[w].plan[o] : Carried(w, o, S)
        BY <2>3
    <2>5. job' \in [Worker -> Job]
        BY <2>2, <2>4, CarriedTyped
    <2>6. UNCHANGED <<text, modified, clock, catalog>>
        BY <1>5, OperationCarries
    <2>7. QED
        BY <2>5, <2>6
<1>6. ASSUME NEW w \in Worker, MarkCatalog(w) PROVE Typed'
    <2>1. job[w] \in Job
        OBVIOUS
    <2>2. \A f \in job[w].left :
            /\ [job[w] EXCEPT !.left = @ \ {f},
                              !.pc = IF job[w].left = {f} THEN "cache" ELSE "catalog"] \in Job
            /\ [tag |-> job[w].tag, path |-> f.path, key |-> f.key, at |-> job[w].at] \in Row
        BY <2>1 DEF Job, Row, File
    <2>3. PICK f \in job[w].left :
             /\ job' = [job EXCEPT ![w] = [job[w] EXCEPT !.left = @ \ {f},
                          !.pc = IF job[w].left = {f} THEN "cache" ELSE "catalog"]]
             /\ catalog' \subseteq catalog \cup
                  {[tag |-> job[w].tag, path |-> f.path, key |-> f.key, at |-> job[w].at]}
             /\ UNCHANGED <<text, modified, clock>>
        BY <1>6 DEF MarkCatalog
    <2>4. QED
        BY <2>2, <2>3
<1>7. ASSUME NEW w \in Worker, MarkCache(w) PROVE Typed'
    <2>1. job[w] \in Job
        OBVIOUS
    <2>2. [job[w] EXCEPT !.pc = "work", !.op = "compute", !.items = {}] \in Job
        BY <2>1 DEF Job, Op
    <2>3. QED
        BY <1>7, <2>2 DEF MarkCache
<1>8. ASSUME NEW w \in Worker, Finish(w) PROVE Typed'
    <2>1. job[w] \in Job
        OBVIOUS
    <2>2. \A f \in job[w].touch :
            [tag |-> job[w].tag, path |-> f.path, key |-> f.key, at |-> job[w].at] \in Row
        BY <2>1 DEF Job, Row, File
    <2>3. QED
        BY <1>8, <2>2, IdleTyped DEF Finish
<1>9. ASSUME NEW w \in Worker, Abort(w) \/ Crash(w) PROVE Typed'
    BY <1>9, IdleTyped DEF Abort, Crash
<1>10. ASSUME NEW w \in Worker, Fails(w) PROVE Typed'
    <2>1. NoPlan \in [Op -> SUBSET File] /\ job[w] \in Job
        BY DEF NoPlan
    <2>2. [job[w] EXCEPT !.pc = "work", !.plan = NoPlan, !.op = "compute",
                         !.items = {}, !.left = {}, !.failed = TRUE] \in Job
        BY <2>1 DEF Job, Op
    <2>3. QED
        BY <1>10, <2>2, IdleTyped DEF Fails
<1>11. CASE UNCHANGED vars
    BY <1>11 DEF vars
<1>12. QED
    BY <1>1, <1>2, <1>3, <1>4, <1>4a, <1>5, <1>6, <1>7, <1>8, <1>9, <1>10, <1>11 DEF Next

-----------------------------------------------------------------------------
(* The types of the index itself. *)

\* The chunks have types, and are finitely many: that is why an insert finds an id.
Stored ==
    /\ cache \subseteq Key \X Tag
    /\ chunks \subseteq Chunk
    /\ IsFiniteSet(chunks)
    /\ caughtUp \in [Tag -> Time]

\* What a function makes of a finite set is finite.
LEMMA FiniteRange ==
    ASSUME NEW S, IsFiniteSet(S), NEW h, h = [x \in S |-> h[x]]
    PROVE  IsFiniteSet({h[x] : x \in S}) /\ Cardinality({h[x] : x \in S}) <= Cardinality(S)
<1> DEFINE T == {h[x] : x \in S}
<1>1. h \in Surjection(S, T)
    BY DEF Surjection
<1>2. QED
    BY <1>1, FS_Surjection

\* There are finitely many files with a text.
LEMMA FiniteFile == IsFiniteSet(File)
<1> DEFINE h == [x \in Path \X Key |-> [path |-> x[1], key |-> x[2]]]
<1>1. IsFiniteSet(Path \X Key)
    BY FiniteAssumption, FS_Product
<1>2. IsFiniteSet({h[x] : x \in Path \X Key})
    <2>1. h = [x \in Path \X Key |-> h[x]]
        OBVIOUS
    <2> HIDE DEF h
    <2>2. QED
        BY <1>1, <2>1, FiniteRange
<1>3. File \subseteq {h[x] : x \in Path \X Key}
    <2>1. SUFFICES ASSUME NEW f \in File PROVE \E x \in Path \X Key : f = h[x]
        OBVIOUS
    <2>2. f.path \in Path /\ f.key \in Key /\ f = [path |-> f.path, key |-> f.key]
        BY DEF File
    <2>3. <<f.path, f.key>> \in Path \X Key /\ f = h[<<f.path, f.key>>]
        BY <2>2
    <2>4. QED
        BY <2>3
<1>4. QED
    BY <1>2, <1>3, FS_Subset

\* An inserted row gets an id (AUTOINCREMENT): finitely many are in use.
LEMMA FreshId ==
    ASSUME IsFiniteSet(chunks), NEW f, NEW i
    PROVE  Fresh(f, i) \in Nat
<1> DEFINE same == {c \in chunks : c.key = f.key /\ c.path = f.path /\ c.piece = i}
           used == {c.id : c \in same}
           h == [c \in same |-> c.id]
           n == Cardinality(used)
<1>1. IsFiniteSet(same)
    BY FS_Subset
<1>2. IsFiniteSet(used)
    <2>1. h = [c \in same |-> h[c]] /\ used = {h[c] : c \in same}
        OBVIOUS
    <2> HIDE DEF h, used
    <2>2. QED
        BY <1>1, <2>1, FiniteRange
<1>3. n \in Nat
    BY <1>2, FS_CardinalityType
<1> HIDE DEF used
<1>4. \E m \in 0 .. n : m \notin used
    <2>1. SUFFICES ASSUME 0 .. n \subseteq used PROVE FALSE
        OBVIOUS
    <2>2. Cardinality(0 .. n) <= n
        BY <1>2, <2>1, FS_Subset
    <2>3. Cardinality(0 .. n) = n + 1
        BY <1>3, FS_Interval
    <2>4. QED
        BY <1>3, <2>2, <2>3
<1>5. Fresh(f, i) \in 0 .. n
    <2>1. Fresh(f, i) = CHOOSE m \in 0 .. n : m \notin used
        BY DEF Fresh, used
    <2>2. QED
        BY <1>4, <2>1
<1>6. QED
    BY <1>3, <1>5

\* The pieces of some files of a tree are chunks, and finitely many.
LEMMA CutTyped ==
    ASSUME Typed, IsFiniteSet(chunks), NEW files \in SUBSET File, NEW t \in Tag
    PROVE  Cut(files, t) \subseteq Chunk /\ IsFiniteSet(Cut(files, t))
<1> DEFINE full == {f \in files : text[t][f.path] # NoText}
           h == [x \in full \X Piece |-> PieceOf(x[1], x[2], t)]
<1>1. Cut(files, t) \subseteq {h[x] : x \in full \X Piece}
    <2>1. SUFFICES ASSUME NEW c \in Cut(files, t) PROVE \E x \in full \X Piece : c = h[x]
        OBVIOUS
    <2>2. PICK f \in full, i \in Piece : c = PieceOf(f, i, t)
        BY DEF Cut
    <2>3. <<f, i>> \in full \X Piece /\ c = h[<<f, i>>]
        BY <2>2
    <2>4. QED
        BY <2>3
<1>2. IsFiniteSet(full \X Piece)
    BY FiniteFile, FiniteAssumption, FS_Subset, FS_Product
<1>3. IsFiniteSet({h[x] : x \in full \X Piece})
    <2>1. h = [x \in full \X Piece |-> h[x]]
        OBVIOUS
    <2> HIDE DEF h
    <2>2. QED
        BY <1>2, <2>1, FiniteRange
<1>4. ASSUME NEW x \in full \X Piece PROVE h[x] \in Chunk
    <2>1. x[1] \in File /\ x[2] \in Piece
        OBVIOUS
    <2>2. x[1].key \in Key /\ x[1].path \in Path
        BY <2>1 DEF File
    <2>3. text[t][x[1].path] \in Key
        BY <2>2 DEF Typed
    <2>4. Fresh(x[1], x[2]) \in Nat
        BY FreshId
    <2>5. QED
        BY <2>1, <2>2, <2>3, <2>4 DEF Chunk, PieceOf
<1>5. {h[x] : x \in full \X Piece} \subseteq Chunk
    BY <1>4
<1> HIDE DEF h, full
<1>6. QED
    BY <1>1, <1>3, <1>5, FS_Subset

\* Chunks that get other tags are still chunks, and not more of them.
LEMMA TagsTyped ==
    ASSUME chunks \subseteq Chunk, IsFiniteSet(chunks),
           NEW tagged \in [chunks -> SUBSET Tag],
           NEW new, \A d \in new : \E c \in chunks : d = [c EXCEPT !.tags = tagged[c]]
    PROVE  new \subseteq Chunk /\ IsFiniteSet(new)
<1> DEFINE h == [c \in chunks |-> [c EXCEPT !.tags = tagged[c]]]
<1>1. new \subseteq {h[c] : c \in chunks} /\ h = [c \in chunks |-> h[c]]
    OBVIOUS
<1>2. IsFiniteSet(new)
    <2> HIDE DEF h
    <2>1. IsFiniteSet({h[c] : c \in chunks})
        BY <1>1, FiniteRange
    <2>2. QED
        BY <1>1, <2>1, FS_Subset
<1>3. ASSUME NEW c \in chunks PROVE [c EXCEPT !.tags = tagged[c]] \in Chunk
    BY DEF Chunk
<1>4. QED
    BY <1>2, <1>3

\* No step takes the index out of its types (ChunkCodebaseIndex.update, markComplete).
LEMMA StepStored == Typed /\ Stored /\ [Next]_vars => Stored'
<1> SUFFICES ASSUME Typed, Stored, [Next]_vars PROVE Stored'
    OBVIOUS
<1>1. \A w \in Worker : job[w] \in Job
    BY DEF Typed
<1>2. CASE UNCHANGED <<cache, chunks, caughtUp>>
    BY <1>2 DEF Stored
<1>3. ASSUME NEW w \in Worker, Compute(w) PROVE Stored'
    <2> DEFINE cut == Cut(job[w].plan["compute"], job[w].tag)
    <2>1. job[w].plan["compute"] \subseteq File /\ job[w].tag \in Tag
        BY <1>1 DEF Job, Op
    <2>2. cut \subseteq Chunk /\ IsFiniteSet(cut)
        BY <2>1, CutTyped DEF Stored
    <2>3. PICK lost \in SUBSET cut : chunks' = chunks \cup (cut \ lost)
        BY <1>3 DEF Compute
    <2> HIDE DEF cut
    <2>4. IsFiniteSet(cut \ lost)
        BY <2>2, FS_Subset
    <2>5. chunks' \subseteq Chunk /\ IsFiniteSet(chunks')
        BY <2>2, <2>3, <2>4, FS_Union DEF Stored
    <2>6. UNCHANGED <<cache, caughtUp>>
        BY <1>3 DEF Compute
    <2>7. QED
        BY <2>5, <2>6 DEF Stored
<1>4. ASSUME NEW w \in Worker, AddTag(w) PROVE Stored'
    <2>1. UNCHANGED <<cache, caughtUp>>
        BY <1>4 DEF AddTag
    <2>2. PICK f \in job[w].plan["addTag"] :
             chunks' = IF \E c \in chunks : c.key = f.key /\ job[w].tag \in c.tags THEN chunks
                       ELSE {IF c.key = f.key THEN [c EXCEPT !.tags = @ \cup {job[w].tag}]
                             ELSE c : c \in chunks}
        BY <1>4 DEF AddTag
    <2>3. CASE chunks' = chunks
        BY <2>1, <2>3 DEF Stored
    <2>4. CASE chunks' # chunks
        <3> DEFINE tagged == [c \in chunks |-> IF c.key = f.key THEN c.tags \cup {job[w].tag}
                                               ELSE c.tags]
        <3>1. tagged \in [chunks -> SUBSET Tag]
            BY <1>1 DEF Stored, Chunk, Job
        <3>2. \A c \in chunks :
                 [c EXCEPT !.tags = tagged[c]]
                    = IF c.key = f.key THEN [c EXCEPT !.tags = @ \cup {job[w].tag}] ELSE c
            BY DEF Stored, Chunk
        <3>3. \A d \in chunks' : \E c \in chunks :
                 d = IF c.key = f.key THEN [c EXCEPT !.tags = @ \cup {job[w].tag}] ELSE c
            BY <2>2, <2>4
        <3>4. ASSUME NEW d \in chunks'
              PROVE  \E c \in chunks : d = [c EXCEPT !.tags = tagged[c]]
            <4>1. PICK c \in chunks :
                     d = IF c.key = f.key THEN [c EXCEPT !.tags = @ \cup {job[w].tag}] ELSE c
                BY <3>3
            <4>2. d = [c EXCEPT !.tags = tagged[c]]
                BY <3>2, <4>1
            <4>3. QED
                BY <4>2
        <3> HIDE DEF tagged
        <3>5. QED
            BY <2>1, <3>1, <3>4, TagsTyped DEF Stored
    <2>5. QED
        BY <2>3, <2>4
<1>5. ASSUME NEW w \in Worker, RemoveTag(w) PROVE Stored'
    <2>1. UNCHANGED <<cache, caughtUp>>
        BY <1>5 DEF RemoveTag
    <2>2. PICK f \in job[w].plan["removeTag"] :
             chunks' = {IF c.key = f.key /\ c.path = f.path
                        THEN [c EXCEPT !.tags = @ \ {job[w].tag}] ELSE c : c \in chunks}
        BY <1>5 DEF RemoveTag
    <2> DEFINE tagged == [c \in chunks |-> IF c.key = f.key /\ c.path = f.path
                                           THEN c.tags \ {job[w].tag} ELSE c.tags]
    <2>3. tagged \in [chunks -> SUBSET Tag]
        BY DEF Stored, Chunk
    <2>4. \A c \in chunks :
             [c EXCEPT !.tags = tagged[c]]
                = IF c.key = f.key /\ c.path = f.path
                  THEN [c EXCEPT !.tags = @ \ {job[w].tag}] ELSE c
        BY DEF Stored, Chunk
    <2>5. \A d \in chunks' : \E c \in chunks :
             d = IF c.key = f.key /\ c.path = f.path
                 THEN [c EXCEPT !.tags = @ \ {job[w].tag}] ELSE c
        BY <2>2
    <2>6. ASSUME NEW d \in chunks'
          PROVE  \E c \in chunks : d = [c EXCEPT !.tags = tagged[c]]
        <3>1. PICK c \in chunks :
                 d = IF c.key = f.key /\ c.path = f.path
                     THEN [c EXCEPT !.tags = @ \ {job[w].tag}] ELSE c
            BY <2>5
        <3>2. d = [c EXCEPT !.tags = tagged[c]]
            BY <2>4, <3>1
        <3>3. QED
            BY <3>2
    <2> HIDE DEF tagged
    <2>7. QED
        BY <2>1, <2>3, <2>6, TagsTyped DEF Stored
<1>6. ASSUME NEW w \in Worker, Delete(w) PROVE Stored'
    <2>1. chunks' \subseteq chunks /\ UNCHANGED <<cache, caughtUp>>
        BY <1>6 DEF Delete
    <2>2. QED
        BY <2>1, FS_Subset DEF Stored
<1>7. ASSUME NEW w \in Worker, MarkCache(w) PROVE Stored'
    <2>1. job[w].items \subseteq File /\ job[w].tag \in Tag
        BY <1>1 DEF Job
    <2>2. cache' \subseteq cache \cup {<<f.key, job[w].tag>> : f \in job[w].items}
        BY <1>7 DEF MarkCache
    <2>3. UNCHANGED <<chunks, caughtUp>>
        BY <1>7 DEF MarkCache
    <2>4. QED
        BY <2>1, <2>2, <2>3 DEF Stored, File
<1>8. ASSUME NEW w \in Worker, Finish(w) PROVE Stored'
    <2>1. job[w].began \in Time
        BY <1>1 DEF Job
    <2>2. UNCHANGED <<cache, chunks>>
        BY <1>8 DEF Finish
    <2>3. \/ caughtUp' = [caughtUp EXCEPT ![job[w].tag] = job[w].began]
          \/ caughtUp' = caughtUp
        BY <1>8 DEF Finish
    <2>4. QED
        BY <2>1, <2>2, <2>3 DEF Stored
<1>9. QED
    BY <1>2, <1>3, <1>4, <1>5, <1>6, <1>7, <1>8
    DEF Next, vars, Edit, Begin, Stamp, MakePlan, NextBatch, MarkCatalog, Abort, Fails, Crash

\* The index keeps its types however refreshes overlap and break off.
THEOREM TypeCorrect == Spec => []TypeOK
<1>1. Init => Typed /\ Stored
    <2>1. Init => Stored
        BY RefreshAssumption, FS_EmptySet DEF Init, Stored, Time
    <2>2. QED
        BY <2>1, InitInv
<1>2. (Typed /\ Stored) /\ [Next]_vars => (Typed /\ Stored)'
    BY StepTyped, StepStored
<1>3. Typed /\ Stored => TypeOK
    BY DEF Typed, Stored, TypeOK
<1>4. QED
    BY <1>1, <1>2, <1>3, PTL DEF Spec

-----------------------------------------------------------------------------
(* What is recorded. *)

\* A plan is made of the texts it reads (getAddRemoveForTag).
LEMMA PlanReads ==
    ASSUME Typed, NEW j \in Job
    PROVE  \A f \in Plan(j)["compute"] \cup Plan(j)["addTag"] \cup Unchanged(j) :
             f.key = text[j.tag][f.path]
<1>1. Plan(j)["compute"] \cup Plan(j)["addTag"] \subseteq Added(j)
    BY DEF Plan, Planned, Op
<1>2. \A f \in Added(j) \cup Unchanged(j) : f.key = text[j.tag][f.path]
    BY DEF Added, Unchanged
<1>3. QED
    BY <1>1, <1>2

\* A file planned, or being marked, that was not modified since the plan still has
\* the text of the plan, for every step that edits, plans, marks or breaks off.
LEMMA StepPlan == Typed /\ PlanInv /\ [Next]_vars => PlanInv'
<1> SUFFICES ASSUME Typed, PlanInv, [Next]_vars PROVE PlanInv'
    OBVIOUS
<1> USE DEF PlanInv, At, Update
<1>0. ToRecord(IdleJob) = {} /\ IdleJob.at = 0 /\ IdleJob.left = {} /\ IdleJob.pc = "idle"
    BY DEF ToRecord, Pending, IdleJob, NoPlan, Op
<1>1. clock \in Nat /\ \A w \in Worker : job[w] \in Job
    BY RefreshAssumption DEF Typed, Time
<1>2. \A w \in Worker : ToRecord(job[w]) \subseteq File /\ job[w].tag \in Tag
                         /\ job[w].at \in Nat
    BY <1>1, RefreshAssumption DEF ToRecord, Pending, Job, Op, Time
<1>3. ASSUME NEW t \in Tag, NEW p \in Path, NEW x \in Text[p] \cup {NoText}, Edit(t, p, x)
      PROVE  PlanInv'
    <2>1. job' = job /\ clock' = clock + 1
        BY <1>3 DEF Edit
    <2>2. SUFFICES ASSUME NEW w \in Worker, NEW f \in ToRecord(job[w]),
                          modified'[job[w].tag][f.path] < job[w].at
                   PROVE  f.key = text'[job[w].tag][f.path]
        BY <1>1, <1>2, <2>1
    <2>3. f.path \in Path /\ job[w].tag \in Tag
        BY <1>2 DEF File
    <2>4. CASE job[w].tag = t /\ f.path = p
        <3>1. modified'[t][p] = clock + 1
            BY <1>3 DEF Edit, Typed
        <3>2. QED
            BY <1>1, <1>2, <2>2, <2>4, <3>1
    <2>5. CASE ~(job[w].tag = t /\ f.path = p)
        <3>1. /\ modified'[job[w].tag][f.path] = modified[job[w].tag][f.path]
              /\ text'[job[w].tag][f.path] = text[job[w].tag][f.path]
            BY <1>3, <2>3, <2>5 DEF Edit, Typed
        <3>2. QED
            BY <2>2, <3>1
    <2>6. QED
        BY <2>4, <2>5
<1>4. ASSUME NEW v \in Worker, NEW t \in Tag, NEW S, Begin(v, t, S) PROVE PlanInv'
    <2> DEFINE new == job'[v]
    <2>1. /\ \A w \in Worker \ {v} : job'[w] = job[w]
          /\ ToRecord(new) = {} /\ new.at = 0 /\ new.left = {}
          /\ UNCHANGED <<text, modified, clock>>
        BY <1>4, IdleTyped DEF Begin, Typed, ToRecord, Pending, IdleJob, NoPlan, Op, Job
    <2>2. QED
        BY <1>1, <2>1
<1>5. ASSUME NEW v \in Worker, Stamp(v) PROVE PlanInv'
    <2>1. /\ \A w \in Worker \ {v} : job'[w] = job[w]
          /\ UNCHANGED <<text, modified>> /\ clock' = clock + 1
        BY <1>5 DEF Stamp, Typed
    <2>2. /\ job'[v].at = clock + 1 /\ job'[v].pc = "plan"
          /\ job'[v].plan = job[v].plan /\ job'[v].rest = job[v].rest
          /\ job'[v].touch = job[v].touch
          /\ job'[v].op = job[v].op /\ job'[v].left = job[v].left
        BY <1>1, <1>5 DEF Stamp, Typed, Job
    <2>3. ToRecord(job'[v]) = {} /\ job'[v].left = {}
        BY <1>5, <2>2 DEF Stamp, ToRecord, Pending
    <2>4. QED
        BY <1>1, <1>2, <2>1, <2>2, <2>3
<1>6. ASSUME NEW v \in Worker, MakePlan(v) PROVE PlanInv'
    <2>1. job[v] \in Job /\ job[v].left = {}
        BY <1>1, <1>6 DEF MakePlan
    <2>2. /\ \A w \in Worker \ {v} : job'[w] = job[w]
          /\ UNCHANGED <<text, modified, clock>>
        BY <1>6 DEF MakePlan, Typed
    <2>3. PICK b \in Batches(Plan(job[v])) \cup {Plan(job[v])} :
             Update(v, [job[v] EXCEPT !.pc = "work", !.stats = {},
                          !.plan = b, !.rest = Without(Plan(job[v]), b),
                          !.touch = IF job[v].whole THEN Unchanged(job[v]) ELSE {}])
        BY <1>6, PlanSliced
    <2>4. /\ job'[v].at = job[v].at /\ job'[v].left = {} /\ job'[v].pc = "work"
          /\ job'[v].tag = job[v].tag /\ job'[v].plan = b
          /\ job'[v].rest = Without(Plan(job[v]), b)
          /\ job'[v].touch \subseteq Unchanged(job[v])
        BY <2>1, <2>3 DEF Typed, Job
    <2>5. \A o \in Op : Pending(job'[v], o) = Plan(job[v])[o]
        <3>1. Plan(job[v]) \in [Op -> SUBSET File]
            BY <2>1, PlanTyped
        <3>2. QED
            BY <2>3, <2>4, <3>1, BatchTyped DEF Pending
    <2>6. \A f \in ToRecord(job'[v]) : f.key = text[job[v].tag][f.path]
        BY <2>1, <2>4, <2>5, PlanReads DEF ToRecord, Op
    <2>7. QED
        BY <1>1, <1>2, <2>2, <2>4, <2>6
<1>6a. ASSUME NEW v \in Worker, NextBatch(v) PROVE PlanInv'
    <2>1. job[v] \in Job /\ job[v].rest \in [Op -> SUBSET File]
        BY <1>1 DEF Job
    <2>2. PICK b \in Batches(job[v].rest) :
             Update(v, [job[v] EXCEPT !.plan = b, !.rest = Without(job[v].rest, b)])
        BY <1>6a DEF NextBatch
    <2>3. /\ \A w \in Worker \ {v} : job'[w] = job[w]
          /\ job'[v].at = job[v].at /\ job'[v].pc = job[v].pc
          /\ job'[v].tag = job[v].tag /\ job'[v].touch = job[v].touch
          /\ job'[v].op = job[v].op /\ job'[v].left = job[v].left
          /\ job'[v].plan = b /\ job'[v].rest = Without(job[v].rest, b)
        BY <2>1, <2>2 DEF Typed, Job
    <2>4. UNCHANGED <<text, modified, clock>>
        BY <1>6a DEF NextBatch
    <2>5. \A o \in Op : Pending(job'[v], o) \subseteq Pending(job[v], o)
        BY <2>1, <2>2, <2>3, BatchTyped DEF Pending
    <2>6. ToRecord(job'[v]) \subseteq ToRecord(job[v])
        BY <2>3, <2>5 DEF ToRecord, Op
    <2>7. QED
        BY <2>3, <2>4, <2>6
<1>7. ASSUME NEW v \in Worker, Compute(v) \/ AddTag(v) \/ RemoveTag(v) \/ Delete(v)
      PROVE  PlanInv'
    <2>1. PICK o \in Op : \E S \in SUBSET job[v].plan[o] : Carried(v, o, S)
        BY <1>7, OperationCarries
    <2>2. PICK S \in SUBSET job[v].plan[o] : Carried(v, o, S)
        BY <2>1
    <2>3. UNCHANGED <<text, modified, clock>>
        BY <1>7, OperationCarries
    <2>4. job[v].plan \in [Op -> SUBSET File] /\ job[v] \in Job
        BY <1>1 DEF Job
    <2>5. /\ \A w \in Worker \ {v} : job'[w] = job[w]
          /\ job'[v].at = job[v].at /\ job'[v].pc = "catalog"
          /\ job'[v].tag = job[v].tag /\ job'[v].touch = job[v].touch
          /\ job'[v].op = o /\ job'[v].left = S /\ job'[v].rest = job[v].rest
        BY <2>2, <2>4 DEF Carried, Typed, Job
    <2>6. \A q \in Op : job'[v].plan[q] \subseteq job[v].plan[q]
        <3>1. job'[v].plan = [job[v].plan EXCEPT ![o] = @ \ S]
            BY <2>2, <2>4 DEF Carried, Typed, Job
        <3>2. QED
            BY <2>4, <3>1
    <2>7. ToRecord(job'[v]) \subseteq ToRecord(job[v])
        BY <2>5, <2>6 DEF ToRecord, Pending, Op
    <2>8. QED
        BY <2>3, <2>5, <2>7
<1>8. ASSUME NEW v \in Worker, MarkCatalog(v) PROVE PlanInv'
    <2>1. /\ \A w \in Worker \ {v} : job'[w] = job[w]
          /\ job'[v].at = job[v].at
          /\ job'[v].tag = job[v].tag /\ job'[v].touch = job[v].touch
          /\ job'[v].plan = job[v].plan /\ job'[v].rest = job[v].rest
          /\ job'[v].op = job[v].op
          /\ job'[v].left \subseteq job[v].left
          /\ job'[v].pc # "catalog" => job'[v].left = {}
          /\ job'[v].pc \in {"catalog", "cache"}
          /\ UNCHANGED <<text, modified, clock>>
        BY <1>1, <1>8 DEF MarkCatalog, Typed, Job
    <2>2. ToRecord(job'[v]) \subseteq ToRecord(job[v])
        BY <2>1 DEF ToRecord, Pending
    <2>3. QED
        BY <2>1, <2>2
<1>9. ASSUME NEW v \in Worker, MarkCache(v) PROVE PlanInv'
    <2>1. /\ \A w \in Worker \ {v} : job'[w] = job[w]
          /\ job'[v].at = job[v].at /\ job'[v].pc = "work"
          /\ job'[v].tag = job[v].tag /\ job'[v].touch = job[v].touch
          /\ job'[v].plan = job[v].plan /\ job'[v].rest = job[v].rest
          /\ job'[v].left = job[v].left
          /\ UNCHANGED <<text, modified, clock>>
        BY <1>1, <1>9 DEF MarkCache, Typed, Job
    <2>2. job[v].left = {}
        BY <1>9 DEF MarkCache
    <2>3. ToRecord(job'[v]) \subseteq ToRecord(job[v])
        BY <2>1, <2>2 DEF ToRecord, Pending
    <2>4. QED
        BY <2>1, <2>2, <2>3
<1>10. ASSUME NEW v \in Worker, Fails(v) PROVE PlanInv'
    <2>1. /\ \A w \in Worker \ {v} : job'[w] = job[w]
          /\ UNCHANGED <<text, modified, clock>>
        BY <1>10 DEF Fails, Typed
    <2>2. CASE job'[v] = IdleJob
        BY <1>0, <1>1, <2>1, <2>2
    <2>3. CASE job'[v] # IdleJob
        <3>1. job'[v] = [job[v] EXCEPT !.pc = "work", !.plan = NoPlan, !.op = "compute",
                                       !.items = {}, !.left = {}, !.failed = TRUE]
            BY <1>10, <2>3 DEF Fails, Typed
        <3>2. /\ job'[v].pc = "work" /\ job'[v].at = job[v].at
              /\ job'[v].tag = job[v].tag /\ job'[v].touch = job[v].touch
              /\ job'[v].plan = NoPlan /\ job'[v].rest = job[v].rest
              /\ job'[v].left = {}
            BY <1>1, <3>1 DEF Job
        <3>3. ToRecord(job'[v]) \subseteq ToRecord(job[v])
            BY <3>2 DEF ToRecord, Pending, NoPlan, Op
        <3>4. QED
            BY <2>1, <3>2, <3>3
    <2>4. QED
        BY <2>2, <2>3
<1>11. ASSUME NEW v \in Worker, Finish(v) \/ Abort(v) \/ Crash(v) PROVE PlanInv'
    <2>1. /\ \A w \in Worker \ {v} : job'[w] = job[w]
          /\ job'[v] = IdleJob
          /\ UNCHANGED <<text, modified, clock>>
        BY <1>11 DEF Finish, Abort, Crash, Typed
    <2>2. QED
        BY <1>0, <1>1, <2>1
<1>12. CASE UNCHANGED vars
    BY <1>12 DEF vars
<1>13. QED
    BY <1>3, <1>4, <1>5, <1>6, <1>6a, <1>7, <1>8, <1>9, <1>10, <1>11, <1>12 DEF Next

\* Rows get the time of a plan, and so none is ahead of the clock.
LEMMA StepPast == Typed /\ PlanInv /\ RowsPast /\ [Next]_vars => RowsPast'
<1> SUFFICES ASSUME Typed, PlanInv, RowsPast, [Next]_vars PROVE RowsPast'
    OBVIOUS
<1>1. clock \in Nat /\ \A r \in catalog : r.at \in Nat
    BY RefreshAssumption DEF Typed, Time, Row
<1>2. CASE catalog' \subseteq catalog /\ (clock' = clock \/ clock' = clock + 1)
    BY <1>1, <1>2 DEF RowsPast
<1>3. ASSUME NEW v \in Worker, MarkCatalog(v) \/ Finish(v) PROVE RowsPast'
    <2>1. clock' = clock
        BY <1>3 DEF MarkCatalog, Finish
    <2>2. CASE MarkCatalog(v)
        <3>1. \A r \in catalog' : r \in catalog \/ r.at = job[v].at
            BY <2>2 DEF MarkCatalog
        <3>2. QED
            BY <2>1, <3>1 DEF RowsPast, PlanInv
    <2>3. CASE Finish(v)
        <3>1. \A r \in catalog' : r \in catalog \/ r.at = job[v].at
            BY <2>3 DEF Finish
        <3>2. QED
            BY <2>1, <3>1 DEF RowsPast, PlanInv
    <2>4. QED
        BY <1>3, <2>2, <2>3
<1>4. ASSUME NEW w \in Worker, Compute(w) \/ AddTag(w) \/ RemoveTag(w) \/ Delete(w)
      PROVE  RowsPast'
    BY <1>2, <1>4, OperationCarries
<1>5. QED
    BY <1>2, <1>3, <1>4
    DEF Next, vars, Edit, Begin, Stamp, MakePlan, NextBatch, MarkCache, Abort, Fails, Crash

\* A row that seems up to date has the text of its file: for every step that edits
\* a file, or records one.
LEMMA StepProgress ==
    Typed /\ PlanInv /\ RowsPast /\ NoFalseProgress /\ [Next]_vars => NoFalseProgress'
<1> SUFFICES ASSUME Typed, PlanInv, RowsPast, NoFalseProgress, [Next]_vars
             PROVE  NoFalseProgress'
    OBVIOUS
<1>1. /\ clock \in Nat
      /\ \A r \in catalog : r.at \in Nat /\ r.tag \in Tag /\ r.path \in Path
    BY RefreshAssumption DEF Typed, Time, Row
<1>2. CASE catalog' \subseteq catalog /\ UNCHANGED <<text, modified>>
    BY <1>2 DEF NoFalseProgress
<1>3. ASSUME NEW t \in Tag, NEW p \in Path, NEW x \in Text[p] \cup {NoText}, Edit(t, p, x)
      PROVE  NoFalseProgress'
    <2>1. SUFFICES ASSUME NEW r \in catalog, r.at > modified'[r.tag][r.path]
                   PROVE  r.key = text'[r.tag][r.path]
        BY <1>3 DEF Edit, NoFalseProgress
    <2>2. CASE r.tag = t /\ r.path = p
        <3>1. modified'[t][p] = clock + 1
            BY <1>3 DEF Edit, Typed
        <3>2. QED
            BY <1>1, <2>1, <2>2, <3>1 DEF RowsPast
    <2>3. CASE ~(r.tag = t /\ r.path = p)
        <3>1. /\ modified'[r.tag][r.path] = modified[r.tag][r.path]
              /\ text'[r.tag][r.path] = text[r.tag][r.path]
            BY <1>1, <1>3, <2>3 DEF Edit, Typed
        <3>2. QED
            BY <2>1, <3>1 DEF NoFalseProgress
    <2>4. QED
        BY <2>2, <2>3
<1>4. ASSUME NEW v \in Worker, MarkCatalog(v) PROVE NoFalseProgress'
    <2>1. PICK f \in job[v].left :
             catalog' = (catalog \ {r \in Rows(job[v].tag, f.path) : r.key = f.key})
                \cup (IF job[v].op \in {"compute", "addTag"}
                      THEN {[tag |-> job[v].tag, path |-> f.path, key |-> f.key,
                             at |-> job[v].at]}
                      ELSE {})
        BY <1>4 DEF MarkCatalog
    <2>2. \A r \in catalog' : r \in catalog \/
             /\ f \in ToRecord(job[v])
             /\ r.tag = job[v].tag /\ r.path = f.path /\ r.key = f.key /\ r.at = job[v].at
        BY <2>1 DEF ToRecord
    <2>3. UNCHANGED <<text, modified>>
        BY <1>4 DEF MarkCatalog
    <2>4. QED
        BY <2>2, <2>3 DEF NoFalseProgress, PlanInv
<1>5. ASSUME NEW v \in Worker, Finish(v) PROVE NoFalseProgress'
    <2>1. \A r \in catalog' : r \in catalog \/
             \E f \in job[v].touch :
                /\ r.tag = job[v].tag /\ r.path = f.path
                /\ r.key = f.key /\ r.at = job[v].at
        BY <1>5 DEF Finish
    <2>2. job[v].touch \subseteq ToRecord(job[v])
        BY DEF ToRecord
    <2>3. UNCHANGED <<text, modified>>
        BY <1>5 DEF Finish
    <2>4. QED
        BY <2>1, <2>2, <2>3 DEF NoFalseProgress, PlanInv
<1>6. ASSUME NEW w \in Worker, Compute(w) \/ AddTag(w) \/ RemoveTag(w) \/ Delete(w)
      PROVE  NoFalseProgress'
    BY <1>2, <1>6, OperationCarries
<1>7. QED
    BY <1>2, <1>3, <1>4, <1>5, <1>6
    DEF Next, vars, Begin, Stamp, MakePlan, NextBatch, MarkCache, Abort, Fails, Crash

-----------------------------------------------------------------------------
(* The theorem. *)

\* The inductive invariant of what refreshes record.
IInv == Typed /\ PlanInv /\ RowsPast /\ NoFalseProgress

\* However many refreshes of any branches overlap, and wherever they are aborted,
\* crash or fail, the catalog counts no file as indexed with a text that it did not
\* have when it was last modified (getAddRemoveForTag, markComplete).
THEOREM ProgressIsReal == Spec => []NoFalseProgress
<1>1. Init => IInv
    BY InitInv DEF IInv
<1>2. IInv /\ [Next]_vars => IInv'
    BY StepTyped, StepPlan, StepPast, StepProgress DEF IInv
<1>3. IInv => NoFalseProgress
    BY DEF IInv
<1>4. QED
    BY <1>1, <1>2, <1>3, PTL DEF Spec

=============================================================================
