----------------------------- MODULE IndexRefresh -----------------------------
(***************************************************************************)
(* What a refresh of the codebase index writes: the plan made from the     *)
(* catalog of one tag and the global cache (core/indexing/refreshIndex.ts),*)
(* the chunk index that carries the plan out (chunk/ChunkCodebaseIndex.ts),*)
(* and the marks that record what was done. A tag is a directory and a     *)
(* branch; every tag has a tree of files of its own. The hash of a text is *)
(* the text. A job is one refresh of one tag, of all its files             *)
(* (CodebaseIndexer.indexFiles) or of one (refreshFile); the jobs of       *)
(* CodebaseIndexer that may be under way at once are the Workers here.     *)
(***************************************************************************)
EXTENDS Integers, FiniteSets

CONSTANTS
    Tag, Path,
    Text,      \* the texts a file at each path may have
    NoText,    \* the file does not exist; it reads as empty (VsCodeIde.readFile)
    Piece,     \* the chunks of a file
    Worker,    \* refreshes that may be under way at once
    BatchSize, \* operations of a kind that make up one batch (filesPerBatch)
    Breaks,    \* what may befall a job: "abort", "crash", "error", "edit"
    EndOfTime  \* bound of the clock

ASSUME RefreshAssumption ==
    /\ \A p \in Path : NoText \notin Text[p]
    /\ Tag # {} /\ Piece # {}
    /\ BatchSize \in Nat \ {0}
    /\ Breaks \subseteq {"abort", "crash", "error", "edit"}
    /\ EndOfTime \in Nat \ {0}

Key == (UNION {Text[p] : p \in Path}) \cup {NoText}

\* A workspace has finitely many branches and files, read in finitely many versions.
ASSUME FiniteAssumption ==
    IsFiniteSet(Tag) /\ IsFiniteSet(Path) /\ IsFiniteSet(Key) /\ IsFiniteSet(Piece)

VARIABLES
    text,      \* the files of each tag
    modified,  \* lastModified of each file
    clock,     \* Date.now()
    catalog,   \* table tag_catalog
    cache,     \* table global_cache
    chunks,    \* tables chunks and chunk_tags
    job,       \* what each worker is doing
    caughtUp   \* history: when the last refresh of each tag that completed began

vars == <<text, modified, clock, catalog, cache, chunks, job, caughtUp>>

Time == 0 .. EndOfTime
File == [path : Path, key : Key]
Row == [tag : Tag, path : Path, key : Key, at : Time]
Chunk == [key : Key, path : Path, piece : Piece, id : Nat,
          body : Key,          \* the text it was cut from
          tags : SUBSET Tag]
Op == {"compute", "addTag", "removeTag", "del"}

\* "stamp": the file stats are taken; "plan": so is the time of the plan, and files are
\* read; "work": between two items; "catalog" and "cache": marking items that the
\* index has stored or removed.
Job == [pc : {"idle", "stamp", "plan", "work", "catalog", "cache"},
        tag : Tag,
        whole : BOOLEAN,           \* indexFiles, and not refreshFile
        began : Time, at : Time,
        stats : SUBSET [path : Path, modified : Time],
        plan : [Op -> SUBSET File], \* the batch under way
        rest : [Op -> SUBSET File], \* the batches after it
        touch : SUBSET File,       \* updateLastUpdated
        op : Op, items : SUBSET File, left : SUBSET File,
        failed : BOOLEAN]          \* a batch ended in a warning

NoPlan == [o \in Op |-> {}]
IdleJob == [pc |-> "idle", tag |-> CHOOSE t \in Tag : TRUE, whole |-> TRUE,
            began |-> 0, at |-> 0, stats |-> {}, plan |-> NoPlan, rest |-> NoPlan,
            touch |-> {}, op |-> "compute", items |-> {}, left |-> {}, failed |-> FALSE]

TypeOK ==
    /\ text \in [Tag -> [Path -> Key]]
    /\ modified \in [Tag -> [Path -> Time]]
    /\ clock \in Time
    /\ catalog \subseteq Row
    /\ cache \subseteq Key \X Tag
    /\ chunks \subseteq Chunk
    /\ job \in [Worker -> Job]
    /\ caughtUp \in [Tag -> Time]

\* The trees have files of some age; nothing is indexed.
Init ==
    /\ text \in [Tag -> [Path -> Key]]
    /\ \A t \in Tag, p \in Path : text[t][p] \in Text[p] \cup {NoText}
    /\ modified = [t \in Tag |-> [p \in Path |-> 0]]
    /\ clock = 1
    /\ catalog = {}
    /\ cache = {}
    /\ chunks = {}
    /\ job = [w \in Worker |-> IdleJob]
    /\ caughtUp = [t \in Tag |-> 0]

At(w, p) == job[w].pc = p
Update(w, new) == job' = [job EXCEPT ![w] = new]

-----------------------------------------------------------------------------
(* The plan. *)

Rows(t, p) == {r \in catalog : r.tag = t /\ r.path = p}
Keys(t, p) == {r.key : r \in Rows(t, p)}
Latest(t, p) == CHOOSE r \in Rows(t, p) : \A q \in Rows(t, p) : q.at <= r.at

Present(j) == {s.path : s \in j.stats}

\* Paths whose file was modified after the catalog says it was indexed last.
Newer(j) ==
    {f.path : f \in {f \in j.stats : Rows(j.tag, f.path) # {}
                                     /\ Latest(j.tag, f.path).at < f.modified}}

\* Those of them whose contents have changed too.
Changed(j) == {p \in Newer(j) : Latest(j.tag, p).key # text[j.tag][p]}

\* getAddRemoveForTag; refreshFile keeps what concerns its file.
Added(j) ==
    {[path |-> p, key |-> text[j.tag][p]] :
        p \in Changed(j) \cup {p \in Present(j) : Rows(j.tag, p) = {}}}

\* Mutant: the rows of the catalog themselves are put into the plan.
RemovedRows(j) == {r \in catalog : r.tag = j.tag /\ r.path \notin Present(j)}

Removed(j) ==
    LET of(p) == IF p \notin Present(j) THEN IF j.whole THEN Keys(j.tag, p) ELSE {}
                 ELSE IF p \in Changed(j) THEN Keys(j.tag, p)
                 ELSE IF p \in Newer(j) THEN Keys(j.tag, p) \ {text[j.tag][p]}
                 ELSE {}
    IN  {f \in File : f.key \in of(f.path)}

Unchanged(j) ==
    {[path |-> p, key |-> text[j.tag][p]] : p \in Newer(j) \ Changed(j)}

\* getTagsFromGlobalCache
Tags(k) == {t \in Tag : <<k, t>> \in cache}

\* Mutant: an entry that one other branch has is deleted (length > 2).
PlannedOffByOne(j, o) ==
    CASE o = "compute"   -> {f \in Added(j) : Tags(f.key) = {}}
      [] o = "addTag"    -> {f \in Added(j) : Tags(f.key) # {}}
      [] o = "removeTag" -> {f \in Removed(j) : Cardinality(Tags(f.key)) > 2}
      [] o = "del"       -> {f \in Removed(j) : Cardinality(Tags(f.key)) <= 2}

\* getComputeDeleteAddRemove
Planned(j, o) ==
    CASE o = "compute"   -> {f \in Added(j) : Tags(f.key) = {}}
      [] o = "addTag"    -> {f \in Added(j) : Tags(f.key) # {}}
      [] o = "removeTag" -> {f \in Removed(j) : Cardinality(Tags(f.key)) > 1}
      [] o = "del"       -> {f \in Removed(j) : Cardinality(Tags(f.key)) <= 1}

Plan(j) == [o \in Op |-> Planned(j, o)]

\* What is planned and not done.
Pending(j, o) == j.plan[o] \cup j.rest[o]

\* The next operations of a kind: the whole list, or as many as make up a batch.
Slices(S) ==
    IF Cardinality(S) <= BatchSize THEN {S} ELSE {T \in SUBSET S : Cardinality(T) = BatchSize}

\* A full refresh takes a slice of each list of operations at a time.
Batches(P) ==
    {b \in [Op -> UNION {Slices(P[o]) : o \in Op}] : \A o \in Op : b[o] \in Slices(P[o])}

\* The operations P with the batch b taken out.
Without(P, b) == [o \in Op |-> P[o] \ b[o]]

-----------------------------------------------------------------------------
(* The environment. *)

\* A job has listed the file and has not read it, or will read it again.
Unread(w, t, p) ==
    /\ job[w].tag = t
    /\ p \in Present(job[w]) \/ \E f \in Pending(job[w], "compute") : f.path = p

\* A file is written, or deleted. That a file goes after it was listed, or changes
\* after its hash was taken and before its text is cut, is the break "edit".
Edit(t, p, x) ==
    /\ clock < EndOfTime
    /\ \A w \in Worker : Unread(w, t, p) =>
         "edit" \in Breaks \/ ((At(w, "stamp") \/ At(w, "plan")) /\ x # NoText)
    /\ x # text[t][p]
    /\ text' = [text EXCEPT ![t][p] = x]
    /\ clock' = clock + 1
    /\ modified' = [modified EXCEPT ![t][p] = clock + 1]
    /\ UNCHANGED <<catalog, cache, chunks, job, caughtUp>>

-----------------------------------------------------------------------------
(* A job. *)

\* The file stats of the whole tag, or of one file that exists.
Begin(w, t, S) ==
    /\ At(w, "idle")
    /\ clock < EndOfTime       \* room for the time of the plan
    /\ S = Path \/ \E p \in Path : S = {p} /\ text[t][p] # NoText
    /\ Update(w, [IdleJob EXCEPT
         !.pc = "stamp", !.tag = t, !.whole = (S = Path), !.began = clock,
         !.stats = {[path |-> p, modified |-> modified[t][p]] :
                       p \in {p \in S : text[t][p] # NoText}}])
    /\ UNCHANGED <<text, modified, clock, catalog, cache, chunks, caughtUp>>

\* newLastUpdatedTimestamp = Date.now(), before any file is read.
Stamp(w) ==
    /\ At(w, "stamp")
    /\ clock < EndOfTime
    /\ clock' = clock + 1
    /\ Update(w, [job[w] EXCEPT !.pc = "plan", !.at = clock + 1])
    /\ UNCHANGED <<text, modified, catalog, cache, chunks, caughtUp>>

\* The catalog and the files are read and the plan is made. Without operations
\* there is no update, and markComplete(lastUpdated) is left.
MakePlan(w) ==
    LET j == job[w] IN
    /\ At(w, "plan")
    /\ \E b \in IF j.whole THEN Batches(Plan(j)) ELSE {Plan(j)} :
         Update(w, [j EXCEPT !.pc = "work", !.stats = {},
                             !.plan = b, !.rest = Without(Plan(j), b),
                             !.touch = IF j.whole THEN Unchanged(j) ELSE {}])
    /\ UNCHANGED <<text, modified, clock, catalog, cache, chunks, caughtUp>>

\* A batch is done, and there is another.
NextBatch(w) ==
    LET j == job[w] IN
    /\ At(w, "work") /\ j.plan = NoPlan /\ j.rest # NoPlan
    /\ \E b \in Batches(j.rest) :
         Update(w, [j EXCEPT !.plan = b, !.rest = Without(j.rest, b)])
    /\ UNCHANGED <<text, modified, clock, catalog, cache, chunks, caughtUp>>

\* The operations of a batch are carried out in this order.
Due(j, o) ==
    /\ j.plan[o] # {}
    /\ o # "compute" => j.plan["compute"] = {}
    /\ o \in {"removeTag", "del"} => j.plan["addTag"] = {}
    /\ o = "del" => j.plan["removeTag"] = {}

\* The index has carried out o for the items S; now they are marked.
Carried(w, o, S) ==
    Update(w, [job[w] EXCEPT !.pc = "catalog", !.op = o, !.items = S, !.left = S,
                             !.plan[o] = @ \ S])

\* Rows of chunks differ in their id at least.
Fresh(f, i) ==
    LET used == {c.id : c \in {c \in chunks : c.key = f.key /\ c.path = f.path
                                              /\ c.piece = i}}
    IN  CHOOSE n \in 0 .. Cardinality(used) : n \notin used

\* A piece of a file, which is read again, under the hash in the plan.
PieceOf(f, i, t) ==
    [key |-> f.key, path |-> f.path, piece |-> i, id |-> Fresh(f, i),
     body |-> text[t][f.path], tags |-> {t}]

\* The files are cut; an empty text has no pieces.
Cut(files, t) ==
    {PieceOf(f, i, t) : f \in {f \in files : text[t][f.path] # NoText}, i \in Piece}

\* All files of the batch to compute are cut, and their pieces inserted in one transaction. The
\* callbacks take the error of an INSERT for its result, so that it goes unnoticed.
Compute(w) ==
    LET j == job[w] IN
    /\ At(w, "work") /\ Due(j, "compute")
    /\ \E lost \in SUBSET Cut(j.plan["compute"], j.tag) :
        /\ lost = {} \/ "error" \in Breaks
        /\ chunks' = chunks \cup (Cut(j.plan["compute"], j.tag) \ lost)
    /\ Carried(w, "compute", j.plan["compute"])
    /\ UNCHANGED <<text, modified, clock, catalog, cache, caughtUp>>

\* One INSERT tags every chunk of the key, or none when one is tagged already.
AddTag(w) ==
    LET j == job[w] IN
    /\ At(w, "work") /\ Due(j, "addTag")
    /\ \E f \in j.plan["addTag"] :
        /\ chunks' = IF \E c \in chunks : c.key = f.key /\ j.tag \in c.tags THEN chunks
                     ELSE {IF c.key = f.key THEN [c EXCEPT !.tags = @ \cup {j.tag}] ELSE c :
                             c \in chunks}
        /\ Carried(w, "addTag", {f})
    /\ UNCHANGED <<text, modified, clock, catalog, cache, caughtUp>>

\* Mutant: the DELETE does not name the tag.
RemoveAllTags(w) ==
    LET j == job[w] IN
    /\ At(w, "work") /\ Due(j, "removeTag")
    /\ \E f \in j.plan["removeTag"] :
        /\ chunks' = {IF c.key = f.key /\ c.path = f.path THEN [c EXCEPT !.tags = {}] ELSE c :
                         c \in chunks}
        /\ Carried(w, "removeTag", {f})
    /\ UNCHANGED <<text, modified, clock, catalog, cache, caughtUp>>

RemoveTag(w) ==
    LET j == job[w] IN
    /\ At(w, "work") /\ Due(j, "removeTag")
    /\ \E f \in j.plan["removeTag"] :
        /\ chunks' = {IF c.key = f.key /\ c.path = f.path
                      THEN [c EXCEPT !.tags = @ \ {j.tag}] ELSE c : c \in chunks}
        /\ Carried(w, "removeTag", {f})
    /\ UNCHANGED <<text, modified, clock, catalog, cache, caughtUp>>

\* db.get finds one chunk of the key, whatever its path, and that one goes.
Delete(w) ==
    LET j == job[w] IN
    /\ At(w, "work") /\ Due(j, "del")
    /\ \E f \in j.plan["del"] :
        /\ LET found == {c \in chunks : c.key = f.key} IN
            IF found = {} THEN chunks' = chunks
            ELSE \E c \in found : chunks' = chunks \ {c}
        /\ Carried(w, "del", {f})
    /\ UNCHANGED <<text, modified, clock, catalog, cache, caughtUp>>

\* Mutant: a row has the time of its marking, and not of the plan.
MarkCatalogNow(w) ==
    LET j == job[w] IN
    /\ At(w, "catalog")
    /\ \E f \in j.left :
        LET same == {r \in Rows(j.tag, f.path) : r.key = f.key}
            row == [tag |-> j.tag, path |-> f.path, key |-> f.key, at |-> clock]
        IN
        /\ catalog' = (catalog \ same)
                      \cup (IF j.op \in {"compute", "addTag"} THEN {row} ELSE {})
        /\ Update(w, [j EXCEPT !.left = @ \ {f},
                               !.pc = IF j.left = {f} THEN "cache" ELSE "catalog"])
    /\ UNCHANGED <<text, modified, clock, cache, chunks, caughtUp>>

\* markComplete, first part: the rows of tag_catalog, one statement each.
MarkCatalog(w) ==
    LET j == job[w] IN
    /\ At(w, "catalog")
    /\ \E f \in j.left :
        LET same == {r \in Rows(j.tag, f.path) : r.key = f.key}
            row == [tag |-> j.tag, path |-> f.path, key |-> f.key, at |-> j.at]
        IN
        /\ catalog' = (catalog \ same)
                      \cup (IF j.op \in {"compute", "addTag"} THEN {row} ELSE {})
        /\ Update(w, [j EXCEPT !.left = @ \ {f},
                               !.pc = IF j.left = {f} THEN "cache" ELSE "catalog"])
    /\ UNCHANGED <<text, modified, clock, cache, chunks, caughtUp>>

\* Mutant: what is removed stays in the cache.
MarkCacheAdding(w) ==
    LET j == job[w]
        entries == {<<f.key, j.tag>> : f \in j.items}
    IN
    /\ At(w, "cache")
    /\ cache' = IF j.op \in {"compute", "addTag"} THEN cache \cup entries ELSE cache
    /\ Update(w, [j EXCEPT !.pc = "work", !.op = "compute", !.items = {}])
    /\ UNCHANGED <<text, modified, clock, catalog, chunks, caughtUp>>

\* markComplete, second part: the rows of global_cache.
MarkCache(w) ==
    LET j == job[w]
        entries == {<<f.key, j.tag>> : f \in j.items}
    IN
    /\ At(w, "cache")
    /\ cache' = IF j.op \in {"compute", "addTag"} THEN cache \cup entries ELSE cache \ entries
    /\ Update(w, [j EXCEPT !.pc = "work", !.op = "compute", !.items = {}])
    /\ UNCHANGED <<text, modified, clock, catalog, chunks, caughtUp>>

\* markComplete(lastUpdated) writes its key and time to all rows of a path. Two
\* rows of one path would break the unique index: an error, after some others.
Finish(w) ==
    LET j == job[w]
        broken == {f \in j.touch : Cardinality(Keys(j.tag, f.path)) > 1}
    IN
    /\ At(w, "work") /\ j.plan = NoPlan /\ j.rest = NoPlan
    /\ \E done \in SUBSET (j.touch \ broken) :
        /\ broken = {} => done = j.touch
        /\ LET old == {r \in catalog : r.tag = j.tag /\ \E f \in done : f.path = r.path}
               new == {[tag |-> j.tag, path |-> f.path, key |-> f.key, at |-> j.at] :
                          f \in {f \in done : Rows(j.tag, f.path) # {}}}
           IN  catalog' = (catalog \ old) \cup new
    /\ caughtUp' = IF j.whole /\ ~j.failed /\ broken = {}
                   THEN [caughtUp EXCEPT ![j.tag] = j.began] ELSE caughtUp
    /\ Update(w, IdleJob)
    /\ UNCHANGED <<text, modified, clock, cache, chunks>>

\* A full refresh whose signal is aborted is left at a yield, between two items.
Abort(w) ==
    /\ "abort" \in Breaks
    /\ At(w, "work") /\ job[w].whole
    /\ Update(w, IdleJob)
    /\ UNCHANGED <<text, modified, clock, catalog, cache, chunks, caughtUp>>

\* A statement fails: the plan of a full refresh is given up, or the rest of its
\* batch, with a warning, and the next batch is taken; refreshFile is given up.
Fails(w) ==
    LET j == job[w] IN
    /\ "error" \in Breaks
    /\ ~At(w, "idle")
    /\ Update(w, IF j.whole /\ ~(At(w, "stamp") \/ At(w, "plan"))
                 THEN [j EXCEPT !.pc = "work", !.plan = NoPlan, !.op = "compute",
                                !.items = {}, !.left = {}, !.failed = TRUE]
                 ELSE IdleJob)
    /\ UNCHANGED <<text, modified, clock, catalog, cache, chunks, caughtUp>>

\* The process ends between two statements.
Crash(w) ==
    /\ "crash" \in Breaks
    /\ ~At(w, "idle")
    /\ Update(w, IdleJob)
    /\ UNCHANGED <<text, modified, clock, catalog, cache, chunks, caughtUp>>

Next ==
    \/ \E t \in Tag, p \in Path : \E x \in Text[p] \cup {NoText} : Edit(t, p, x)
    \/ \E w \in Worker :
        \/ \E t \in Tag, S \in {Path} \cup {{p} : p \in Path} : Begin(w, t, S)
        \/ Stamp(w) \/ MakePlan(w) \/ NextBatch(w)
        \/ Compute(w) \/ AddTag(w) \/ RemoveTag(w) \/ Delete(w)
        \/ MarkCatalog(w) \/ MarkCache(w) \/ Finish(w)
        \/ Abort(w) \/ Fails(w) \/ Crash(w)

Spec == Init /\ [][Next]_vars

-----------------------------------------------------------------------------
Marking(w) == At(w, "catalog") \/ At(w, "cache")

\* A row of the catalog whose index entry a job has just removed and not marked.
Leaving(r) ==
    \E w \in Worker :
        /\ Marking(w)
        /\ job[w].op \in {"removeTag", "del"}
        /\ job[w].tag = r.tag
        /\ [path |-> r.path, key |-> r.key] \in job[w].items

\* What is marked as indexed is in the index: every piece of the text of every row
\* of the catalog can be found under its tag (markComplete after each operation).
StoredWhenListed ==
    \A r \in catalog : r.key = NoText \/ Leaving(r) \/
        \A i \in Piece : \E c \in chunks :
            c.key = r.key /\ c.body = r.key /\ c.piece = i /\ r.tag \in c.tags

\* Between two operations the global cache says of each tag exactly which
\* contents its catalog has, so that a plan neither computes twice nor takes
\* something away that another branch needs (getTagsFromGlobalCache).
CacheAgrees ==
    (\A w \in Worker : ~Marking(w)) =>
        cache = {<<r.key, r.tag>> : r \in catalog}

\* A full refresh of t has completed, and no file was changed since it began.
Quiet(t) ==
    /\ caughtUp[t] > 0
    /\ \A p \in Path : modified[t][p] <= caughtUp[t]
    /\ \A w \in Worker : job[w].tag # t \/ At(w, "idle")

\* Then the catalog has the files of the tree as they are and nothing else, no
\* earlier version of a file (getAddRemoveForTag).
CatalogCurrent ==
    \A t \in Tag : Quiet(t) => \A p \in Path : Keys(t, p) = {text[t][p]} \ {NoText}

\* Whatever befalls the refreshes, a file that the catalog counts as indexed since
\* it was last modified is listed with the text it has: progress is never recorded
\* that was not made (markComplete, and step 5 of core/indexing/README.md).
NoFalseProgress ==
    \A r \in catalog :
        r.at > modified[r.tag][r.path] => r.key = text[r.tag][r.path]

\* What a refresh of one branch does is not seen on another.
Shown(t) == {<<c.key, c.path, c.piece>> : c \in {c \in chunks : t \in c.tags}}
OtherBranchesKept ==
    [][\A t \in Tag :
        (\A w \in Worker : At(w, "idle") \/ job[w].tag # t) => Shown(t)' = Shown(t)]_vars

\* What step 4 of core/indexing/README.md says of "delete": once no branch has
\* the content any more, its entry is gone.
NothingLeftOver ==
    (\A w \in Worker : At(w, "idle")) =>
        \A c \in chunks : \A t \in c.tags : \E r \in catalog : r.tag = t /\ r.key = c.key

=============================================================================
