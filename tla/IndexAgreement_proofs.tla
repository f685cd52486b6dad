----------------------- MODULE IndexAgreement_proofs -----------------------
(***************************************************************************)
(* Theorems about IndexRefresh when one refresh runs at a time: catalog,   *)
(* cache and chunks agree, for any number of tags, files and versions.     *)
(***************************************************************************)
EXTENDS IndexRefresh_proofs, WellFoundedInduction

\* One refresh at a time, which may be aborted; no file is a copy of another.
OneAtATime ==
    /\ \E w : Worker = {w}
    /\ Breaks \subseteq {"abort"}
    /\ \A a, b \in Path : a # b => Text[a] \cap Text[b] = {}

\* The additions of a plan, one at most for each file, fit the first of its batches.
SmallTree == Cardinality(Path) <= BatchSize

\* A file has one chunk.
OneChunk == \E i : Piece = {i}

\* What the one worker does.
Doing == job[CHOOSE w \in Worker : TRUE]

Adds(j) == j.op \in {"compute", "addTag"}
Entries(S, t) == {<<f.key, t>> : f \in S}

\* What global_cache says when the operation of j has been marked for the items S.
Marked(j, S) == IF Adds(j) THEN cache \cup Entries(S, j.tag) ELSE cache \ Entries(S, j.tag)

Listed == {<<r.key, r.tag>> : r \in catalog}

\* A text belongs to its path, so that a key tells a path.
Proper(S) == \A f \in S : f.key \in Text[f.path]

TextsInv ==
    /\ \A t \in Tag, a \in Path : text[t][a] \in Text[a] \cup {NoText}
    /\ Proper(catalog)

\* What is under way at which step.
PhaseInv ==
    LET j == Doing IN
    /\ j.pc \notin {"stamp", "plan"} => j.stats = {}
    /\ j.pc \in {"stamp", "plan"} => j.plan = NoPlan /\ j.rest = NoPlan
    /\ j.pc \notin {"catalog", "cache"} => j.items = {}
    /\ j.pc # "catalog" => j.left = {}
    /\ j.left \subseteq j.items
    /\ j.pc \in {"catalog", "cache"} => j.plan["compute"] = {}
    /\ j.pc \in {"catalog", "cache"} /\ ~Adds(j) => j.plan["addTag"] = {}

\* What is planned fits the tree, and what is to be taken away fits nothing else.
FilesInv ==
    LET j == Doing IN
    /\ \A a \in Present(j) : text[j.tag][a] # NoText
    /\ \A f \in Pending(j, "compute") : f.key = text[j.tag][f.path]
    /\ \A o \in Op : Proper(Pending(j, o))
    /\ Proper(j.items)
    /\ \A f \in j.touch :
         /\ f.key \in Keys(j.tag, f.path)
         /\ f \notin Pending(j, "removeTag") \cup Pending(j, "del")
         /\ Adds(j) \/ f \notin j.left

\* Whether other tags have a key is as it was when the plan was made, as all that is
\* added is added first.
PlanStands ==
    LET j == Doing IN
    /\ j.rest["compute"] = {} /\ j.rest["addTag"] = {}
    /\ \A f \in j.plan["compute"] : Tags(f.key) = {}
    /\ \A f \in j.plan["addTag"] : Tags(f.key) # {}
    /\ \A f \in Pending(j, "removeTag") : Tags(f.key) \ {j.tag} # {}
    /\ \A f \in Pending(j, "del") : Tags(f.key) \subseteq {j.tag}

\* The catalog is ahead of the cache by the items that were marked in it.
MarksInv == Listed = Marked(Doing, Doing.items \ Doing.left)

\* The tags of a key once all items of the operation are marked.
Held(k) == {t \in Tag : <<k, t>> \in Marked(Doing, Doing.items)}

\* The chunks are ahead of the cache by all items of the operation.
ChunksInv ==
    /\ \A c \in chunks :
         /\ c.key \in Text[c.path] /\ c.body = c.key
         /\ c.tags = Held(c.key) /\ c.tags # {}
         /\ \A d \in chunks : d.key = c.key => d = c
    /\ \A k \in Key : Held(k) # {} => \E c \in chunks : c.key = k

Agreement == TextsInv /\ PhaseInv /\ FilesInv /\ MarksInv

-----------------------------------------------------------------------------
(* The one worker, and rows of the latest time. *)

\* The worker that takes a step is the one.
LEMMA Alone ==
    ASSUME OneAtATime, NEW w \in Worker
    PROVE  /\ Worker = {w} /\ Doing = job[w] /\ Doing' = job'[w]
           /\ Typed => Doing \in Job
<1>1. Worker = {w}
    BY DEF OneAtATime
<1>2. (CHOOSE v \in Worker : TRUE) = w
    BY <1>1
<1>3. QED
    BY <1>1, <1>2 DEF Doing, Typed

\* A key is a text of one path.
LEMMA KeyTellsPath ==
    ASSUME OneAtATime, NEW p \in Path, NEW q \in Path, NEW k \in Text[p], k \in Text[q]
    PROVE  p = q
BY DEF OneAtATime

Before == {s \in Nat \X Nat : s[1] < s[2]}

LEMMA BeforeWellFounded == IsWellFoundedOn(Before, Nat)
BY NatLessThanWellFounded DEF OpToRel, Before

\* Bounded numbers have a greatest.
LEMMA Greatest ==
    ASSUME NEW e \in Nat, NEW T \in SUBSET (0 .. e), T # {}
    PROVE  \E m \in T : \A n \in T : n <= m
<1> DEFINE D == {e - n : n \in T}
<1>1. D \subseteq Nat /\ D # {}
    OBVIOUS
<1> HIDE DEF D
<1>2. PICK d \in D : \A c \in D : ~(<<c, d>> \in Before)
    BY <1>1, BeforeWellFounded, WFMin
<1> USE DEF D
<1>3. PICK m \in T : d = e - m
    OBVIOUS
<1>4. ASSUME NEW n \in T PROVE n <= m
    <2>1. e - n \in D /\ e - n \in Nat /\ d \in Nat
        BY <1>1
    <2>2. ~(e - n < d)
        BY <1>2, <2>1 DEF Before
    <2>3. QED
        BY <1>3, <2>1, <2>2
<1>5. QED
    BY <1>4

\* A path with rows has one of the latest time (ORDER BY lastUpdated DESC).
LEMMA LatestIsRow ==
    ASSUME Typed, NEW t, NEW p, Rows(t, p) # {}
    PROVE  Latest(t, p) \in Rows(t, p)
<1> DEFINE T == {r.at : r \in Rows(t, p)}
<1>1. T \in SUBSET (0 .. EndOfTime) /\ T # {} /\ EndOfTime \in Nat
    BY RefreshAssumption DEF Typed, Rows, Row, Time
<1>2. PICK m \in T : \A n \in T : n <= m
    <2> HIDE DEF T
    <2>1. QED
        BY <1>1, Greatest
<1>3. \E r \in Rows(t, p) : \A q \in Rows(t, p) : q.at <= r.at
    BY <1>2
<1>4. QED
    BY <1>3 DEF Latest

-----------------------------------------------------------------------------
(* The steps of a job. *)

LEMMA MarkedNone == ASSUME NEW j PROVE Marked(j, {}) = cache
BY DEF Marked, Entries

\* A job that has nothing planned and nothing to mark.
LEMMA AtRest ==
    ASSUME Doing'.plan = NoPlan, Doing'.rest = NoPlan,
           Doing'.touch = {}, Doing'.items = {}, Doing'.left = {},
           Doing'.pc \in {"idle", "stamp"}, Doing'.pc # "stamp" => Doing'.stats = {},
           \A p \in Present(Doing') : text'[Doing'.tag][p] # NoText,
           TextsInv', Listed' = cache'
    PROVE  Agreement'
<1>1. PhaseInv'
    BY DEF PhaseInv, NoPlan, Op
<1>2. FilesInv'
    BY DEF FilesInv, Pending, NoPlan, Op, Proper, Present
<1>3. MarksInv'
    BY DEF MarksInv, Marked, Entries, Adds
<1>4. QED
    BY <1>1, <1>2, <1>3 DEF Agreement

\* Outside of marking the catalog and the cache say the same.
LEMMA MarkedAll ==
    ASSUME PhaseInv, MarksInv, Doing.pc \notin {"catalog", "cache"}
    PROVE  Listed = cache
BY MarkedNone DEF PhaseInv, MarksInv

\* Files are written that are not listed to be read, or may be read as they are now.
LEMMA EditAgrees ==
    ASSUME OneAtATime, Typed, Agreement, NEW t \in Tag, NEW p \in Path,
           NEW x \in Text[p] \cup {NoText}, Edit(t, p, x)
    PROVE  Agreement'
<1> PICK w \in Worker : TRUE
    BY DEF OneAtATime
<1>1. Doing = job[w] /\ Doing' = Doing /\ Doing \in Job
    BY Alone DEF Edit
<1>2. UNCHANGED <<catalog, cache>>
    BY DEF Edit
<1>3. /\ text'[t][p] = x
      /\ \A s \in Tag, q \in Path : s # t \/ q # p => text'[s][q] = text[s][q]
    BY DEF Edit, Typed
<1>4. ASSUME Doing.tag = t, p \in Present(Doing) \/ \E f \in Pending(Doing, "compute") : f.path = p
      PROVE  Doing.pc \in {"stamp", "plan"} /\ x # NoText
    <2>1. Unread(w, t, p)
        BY <1>1, <1>4 DEF Unread
    <2>2. "edit" \notin Breaks
        BY DEF OneAtATime
    <2>3. (At(w, "stamp") \/ At(w, "plan")) /\ x # NoText
        BY <2>1, <2>2 DEF Edit
    <2>4. QED
        BY <1>1, <2>3 DEF At
<1>5. TextsInv'
    BY <1>2, <1>3 DEF Agreement, TextsInv, Proper
<1>6. PhaseInv' /\ MarksInv'
    <2>1. PhaseInv'
        BY <1>1 DEF Agreement, PhaseInv, Adds
    <2>2. MarksInv'
        BY <1>1, <1>2 DEF Agreement, MarksInv, Listed, Marked, Adds
    <2>3. QED
        BY <2>1, <2>2
<1>7. FilesInv'
    <2>1. \A q \in Present(Doing') : text'[Doing'.tag][q] # NoText
        <3>1. Present(Doing) \subseteq Path /\ Doing.tag \in Tag
            BY <1>1 DEF Present, Job
        <3>2. QED
            BY <1>1, <1>3, <1>4, <3>1 DEF Agreement, FilesInv
    <2>2. \A f \in Pending(Doing', "compute") : f.key = text'[Doing'.tag][f.path]
        <3>1. SUFFICES ASSUME NEW f \in Pending(Doing, "compute")
                       PROVE  f.key = text'[Doing.tag][f.path]
            BY <1>1
        <3>2. f \in File /\ Doing.tag \in Tag
            BY <1>1 DEF Job, Op, Pending
        <3>3. ~(Doing.tag = t /\ f.path = p)
            <4>1. Doing.pc \in {"stamp", "plan"} => Pending(Doing, "compute") = {}
                BY DEF Agreement, PhaseInv, NoPlan, Op, Pending
            <4>2. QED
                BY <1>4, <4>1
        <3>4. QED
            BY <1>3, <3>2, <3>3 DEF Agreement, FilesInv, File
    <2>3. QED
        BY <1>1, <1>2, <2>1, <2>2 DEF Agreement, FilesInv, Proper, Keys, Rows
<1>8. QED
    BY <1>5, <1>6, <1>7 DEF Agreement

LEMMA BeginAgrees ==
    ASSUME OneAtATime, Typed, Agreement, NEW w \in Worker, NEW t \in Tag, NEW S, Begin(w, t, S)
    PROVE  Agreement'
<1>1. Doing = job[w] /\ Doing' = job'[w]
    BY Alone
<1>2. UNCHANGED <<text, catalog, cache>> /\ Doing.pc = "idle"
    BY <1>1 DEF Begin, At
<1>3. Listed' = cache'
    BY <1>2, MarkedAll DEF Agreement, Listed
<1>4. TextsInv'
    BY <1>2 DEF Agreement, TextsInv, Proper
<1> DEFINE stats == {[path |-> p, modified |-> modified[t][p]] :
                       p \in {p \in S : text[t][p] # NoText}}
<1>5. Doing' = [IdleJob EXCEPT !.pc = "stamp", !.tag = t, !.whole = (S = Path),
                               !.began = clock, !.stats = stats]
    BY <1>1 DEF Begin, Update, Typed
<1>6. /\ Doing'.plan = NoPlan /\ Doing'.rest = NoPlan
      /\ Doing'.touch = {} /\ Doing'.items = {} /\ Doing'.left = {}
      /\ Doing'.pc = "stamp" /\ Doing'.tag = t /\ Doing'.stats = stats
    BY <1>5 DEF IdleJob
<1>7. \A p \in Present(Doing') : text'[Doing'.tag][p] # NoText
    BY <1>2, <1>6 DEF Present
<1>8. QED
    BY <1>3, <1>4, <1>6, <1>7, AtRest

LEMMA StampAgrees ==
    ASSUME OneAtATime, Typed, Agreement, NEW w \in Worker, Stamp(w)
    PROVE  Agreement'
<1>1. Doing = job[w] /\ Doing' = job'[w] /\ Doing \in Job
    BY Alone
<1>2. UNCHANGED <<text, catalog, cache>> /\ Doing.pc = "stamp"
    BY <1>1 DEF Stamp, At
<1>3. Doing' = [Doing EXCEPT !.pc = "plan", !.at = clock + 1]
    BY <1>1 DEF Stamp, Update, Typed
<1>4. /\ Doing'.plan = Doing.plan /\ Doing'.rest = Doing.rest
      /\ Doing'.touch = Doing.touch /\ Doing'.items = Doing.items
      /\ Doing'.left = Doing.left /\ Doing'.pc = "plan"
      /\ Doing'.stats = Doing.stats /\ Doing'.tag = Doing.tag /\ Doing'.op = Doing.op
    BY <1>1, <1>3 DEF Job
<1>5. TextsInv'
    BY <1>2 DEF Agreement, TextsInv, Proper
<1>6. PhaseInv'
    BY <1>2, <1>4 DEF Agreement, PhaseInv, Adds
<1>7. FilesInv'
    BY <1>2, <1>4 DEF Agreement, FilesInv, Pending, Proper, Present, Keys, Rows, Adds
<1>8. MarksInv'
    BY <1>2, <1>4 DEF Agreement, MarksInv, Listed, Marked, Adds
<1>9. QED
    BY <1>5, <1>6, <1>7, <1>8 DEF Agreement

\* A set of at most one tag, and one of more.
LEMMA FewTags ==
    ASSUME NEW T \in SUBSET Tag, NEW t \in Tag
    PROVE  /\ Cardinality(T) > 1 => T \ {t} # {}
           /\ Cardinality(T) <= 1 /\ t \in T => T \subseteq {t}
<1>1. IsFiniteSet(T) /\ Cardinality(T) \in Nat
    BY FiniteAssumption, FS_Subset, FS_CardinalityType
<1>2. T \ {t} = {} => Cardinality(T) <= 1
    <2>1. SUFFICES ASSUME T \ {t} = {} PROVE Cardinality(T) <= 1
        OBVIOUS
    <2>2. IsFiniteSet({t}) /\ Cardinality({t}) = 1
        BY FS_Singleton
    <2>3. T \subseteq {t}
        BY <2>1
    <2>4. QED
        BY <2>2, <2>3, FS_Subset
<1>3. ASSUME Cardinality(T) <= 1, t \in T, NEW s \in T PROVE s = t
    <2>1. SUFFICES ASSUME s # t PROVE FALSE
        OBVIOUS
    <2>2. IsFiniteSet({s}) /\ Cardinality({s}) = 1
        BY FS_Singleton
    <2> DEFINE both == {s} \cup {t}
    <2>3. Cardinality(both) <= 1
        <3>1. both \in SUBSET T
            BY <1>3
        <3>2. Cardinality(both) <= Cardinality(T) /\ Cardinality(both) \in Nat
            BY <1>1, <3>1, FS_Subset, FS_CardinalityType
        <3>3. QED
            BY <1>1, <1>3, <3>2
    <2>4. Cardinality(both) = 2
        <3>1. Cardinality({s} \cup {t}) = Cardinality({s}) + 1
            BY <2>1, <2>2, FS_AddElement
        <3>2. QED
            BY <2>2, <3>1
    <2>5. QED
        BY <2>3, <2>4
<1>4. QED
    BY <1>1, <1>2, <1>3

\* What a plan takes away is in the catalog (getAddRemoveForTag).
LEMMA RemovedListed ==
    ASSUME Typed, Agreement, Listed = cache, NEW j \in Job, NEW f \in Removed(j)
    PROVE  f.key \in Text[f.path] /\ j.tag \in Tags(f.key)
<1>1. f.key \in Keys(j.tag, f.path)
    BY DEF Removed
<1>2. PICK r \in catalog : r.tag = j.tag /\ r.path = f.path /\ r.key = f.key
    BY <1>1 DEF Keys, Rows
<1>3. <<f.key, j.tag>> \in Listed /\ j.tag \in Tag
    BY <1>2 DEF Listed, Job
<1>4. QED
    BY <1>2, <1>3 DEF Agreement, TextsInv, Proper, Tags

\* What the job is when its plan is made and a first batch taken.
LEMMA PlanLeaves ==
    ASSUME OneAtATime, Typed, Agreement, NEW w \in Worker, MakePlan(w)
    PROVE  /\ Doing = job[w] /\ Doing' = job'[w] /\ Doing \in Job /\ Doing.pc = "plan"
           /\ UNCHANGED <<text, catalog, cache>>
           /\ Doing'.touch \subseteq Unchanged(Doing)
           /\ Doing'.items = {} /\ Doing'.left = {} /\ Doing'.pc = "work"
           /\ Doing'.stats = {} /\ Doing'.tag = Doing.tag
           /\ \A o \in Op : Pending(Doing', o) = Plan(Doing)[o]
           /\ \A o \in Op : Cardinality(Plan(Doing)[o]) <= BatchSize => Doing'.rest[o] = {}
<1> DEFINE j == Doing
<1>1. Doing = job[w] /\ Doing' = job'[w] /\ Doing \in Job
    BY Alone
<1>2. UNCHANGED <<text, catalog, cache>> /\ j.pc = "plan"
    BY <1>1 DEF MakePlan, At
<1>3. PICK b \in Batches(Plan(j)) \cup {Plan(j)} :
         Update(w, [j EXCEPT !.pc = "work", !.stats = {},
                             !.plan = b, !.rest = Without(Plan(j), b),
                             !.touch = IF j.whole THEN Unchanged(j) ELSE {}])
    BY <1>1, PlanSliced
<1>4. Doing' = [j EXCEPT !.pc = "work", !.stats = {},
                         !.plan = b, !.rest = Without(Plan(j), b),
                         !.touch = IF j.whole THEN Unchanged(j) ELSE {}]
    BY <1>1, <1>3 DEF Update, Typed
<1>5. /\ Doing'.plan = b /\ Doing'.rest = Without(Plan(j), b)
      /\ Doing'.touch \subseteq Unchanged(j)
      /\ Doing'.items = {} /\ Doing'.left = {} /\ Doing'.pc = "work"
      /\ Doing'.stats = {} /\ Doing'.tag = j.tag
    BY <1>1, <1>2, <1>4 DEF Job, Agreement, PhaseInv
<1>6. Plan(j) \in [Op -> SUBSET File]
    BY <1>1, PlanTyped
<1>7. /\ \A o \in Op : Pending(Doing', o) = Plan(j)[o]
      /\ \A o \in Op : Cardinality(Plan(j)[o]) <= BatchSize => Doing'.rest[o] = {}
    BY <1>3, <1>5, <1>6, BatchTyped DEF Pending
<1>8. QED
    BY <1>1, <1>2, <1>5, <1>7

\* The plan is right about the tree and what goes (getAddRemoveForTag,
\* getComputeDeleteAddRemove).
LEMMA PlanAgrees ==
    ASSUME OneAtATime, Typed, Agreement, NEW w \in Worker, MakePlan(w)
    PROVE  Agreement'
<1> DEFINE j == Doing
           t == Doing.tag
<1>1. /\ j \in Job /\ j.pc = "plan" /\ UNCHANGED <<text, catalog, cache>>
      /\ Doing'.touch \subseteq Unchanged(j)
      /\ Doing'.items = {} /\ Doing'.left = {} /\ Doing'.pc = "work"
      /\ Doing'.stats = {} /\ Doing'.tag = t
      /\ \A o \in Op : Pending(Doing', o) = Plan(j)[o]
    BY PlanLeaves
<1>2. Listed = cache
    BY <1>1, MarkedAll DEF Agreement
<1>3. /\ Present(j) \subseteq Path
      /\ Newer(j) \subseteq Present(j)
      /\ \A p \in Newer(j) : Rows(t, p) # {}
    BY <1>1 DEF Present, Newer, Job
<1>4. \A p \in Present(j) : text[t][p] \in Text[p]
    BY <1>1, <1>3 DEF Agreement, TextsInv, FilesInv, Job
<1>5. TextsInv'
    BY <1>1 DEF Agreement, TextsInv, Proper
<1>6. PhaseInv'
    BY <1>1 DEF PhaseInv
<1>7. MarksInv'
    BY <1>1, <1>2 DEF MarksInv, Listed, Marked, Entries
<1>8. FilesInv'
    <2>1. Proper(Added(j))
        BY <1>3, <1>4 DEF Added, Changed, Proper
    <2>2. ASSUME NEW o \in Op PROVE Proper(Plan(j)[o])
        <3>1. Plan(j)[o] \subseteq Added(j) \cup Removed(j)
            BY DEF Plan, Planned, Op
        <3>2. \A f \in Removed(j) : f.key \in Text[f.path]
            BY <1>1, <1>2, RemovedListed
        <3>3. QED
            BY <2>1, <3>1, <3>2 DEF Proper
    <2>3. \A f \in Plan(j)["compute"] : f.key = text[t][f.path]
        BY <1>1, PlanReads
    <2>4. ASSUME NEW f \in Unchanged(j)
          PROVE  f.key \in Keys(t, f.path) /\ f \notin Removed(j)
        <3>1. /\ f.path \in Newer(j) \ Changed(j)
              /\ f.key = text[t][f.path]
            BY DEF Unchanged
        <3>2. Latest(t, f.path) \in Rows(t, f.path)
            BY <1>3, <3>1, LatestIsRow
        <3>3. f.key \in Keys(t, f.path)
            BY <3>1, <3>2 DEF Changed, Keys
        <3>4. f \notin Removed(j)
            BY <1>3, <3>1 DEF Removed
        <3>5. QED
            BY <3>3, <3>4
    <2>5. Plan(j)["removeTag"] \cup Plan(j)["del"] \subseteq Removed(j)
        BY DEF Plan, Planned, Op
    <2>6. \A p : Keys(t, p)' = Keys(t, p)
        BY <1>1 DEF Keys, Rows
    <2>7. Present(Doing') = {}
        BY <1>1 DEF Present
    <2>8. /\ \A f \in Pending(Doing', "compute") : f.key = text'[Doing'.tag][f.path]
          /\ \A o \in Op : Proper(Pending(Doing', o))
        BY <1>1, <2>2, <2>3 DEF Op
    <2>9. \A f \in Doing'.touch :
            /\ f.key \in Keys(Doing.tag, f.path)'
            /\ f \notin Pending(Doing', "removeTag") \cup Pending(Doing', "del")
        BY <1>1, <2>4, <2>5, <2>6 DEF Op
    <2>10. QED
        BY <1>1, <2>7, <2>8, <2>9 DEF FilesInv, Proper
<1>9. QED
    BY <1>5, <1>6, <1>7, <1>8 DEF Agreement

\* The job when it takes its next batch.
LEMMA BatchLeaves ==
    ASSUME OneAtATime, Typed, NEW w \in Worker, NextBatch(w)
    PROVE  /\ Doing = job[w] /\ Doing' = job'[w] /\ Doing \in Job /\ Doing.pc = "work"
           /\ UNCHANGED <<text, catalog, cache, chunks>>
           /\ Doing'.items = Doing.items /\ Doing'.left = Doing.left /\ Doing'.op = Doing.op
           /\ Doing'.stats = Doing.stats /\ Doing'.tag = Doing.tag
           /\ Doing'.touch = Doing.touch /\ Doing'.pc = "work"
           /\ \A o \in Op : /\ Pending(Doing', o) = Pending(Doing, o)
                             /\ Doing'.plan[o] \subseteq Doing.rest[o]
                             /\ Doing'.rest[o] \subseteq Doing.rest[o]
<1>1. Doing = job[w] /\ Doing' = job'[w] /\ Doing \in Job
    BY Alone
<1>2. /\ UNCHANGED <<text, catalog, cache, chunks>> /\ Doing.pc = "work"
      /\ Doing.plan = NoPlan /\ Doing.rest \in [Op -> SUBSET File]
    BY <1>1 DEF NextBatch, At, Job
<1>3. PICK b \in Batches(Doing.rest) :
         Update(w, [Doing EXCEPT !.plan = b, !.rest = Without(Doing.rest, b)])
    BY <1>1 DEF NextBatch
<1>4. Doing' = [Doing EXCEPT !.plan = b, !.rest = Without(Doing.rest, b)]
    BY <1>1, <1>3 DEF Update, Typed
<1>5. /\ Doing'.items = Doing.items /\ Doing'.left = Doing.left /\ Doing'.op = Doing.op
      /\ Doing'.stats = Doing.stats /\ Doing'.tag = Doing.tag
      /\ Doing'.touch = Doing.touch /\ Doing'.pc = "work"
      /\ Doing'.plan = b /\ Doing'.rest = Without(Doing.rest, b)
    BY <1>1, <1>2, <1>4 DEF Job
<1>6. \A o \in Op : b[o] \cup Without(Doing.rest, b)[o] = Doing.rest[o]
    BY <1>2, <1>3, BatchTyped
<1>7. \A o \in Op : Pending(Doing, o) = Doing.rest[o]
    BY <1>2 DEF Pending, NoPlan
<1>8. ASSUME NEW o \in Op
      PROVE  /\ Pending(Doing', o) = Pending(Doing, o)
             /\ Doing'.plan[o] \subseteq Doing.rest[o]
             /\ Doing'.rest[o] \subseteq Doing.rest[o]
    BY <1>5, <1>6, <1>7 DEF Pending
<1>9. QED
    BY <1>1, <1>2, <1>5, <1>8

LEMMA BatchAgrees ==
    ASSUME OneAtATime, Typed, Agreement, NEW w \in Worker, NextBatch(w)
    PROVE  Agreement'
<1>1. /\ Doing.pc = "work" /\ UNCHANGED <<text, catalog, cache>>
      /\ Doing'.items = Doing.items /\ Doing'.left = Doing.left /\ Doing'.op = Doing.op
      /\ Doing'.stats = Doing.stats /\ Doing'.tag = Doing.tag
      /\ Doing'.touch = Doing.touch /\ Doing'.pc = "work"
      /\ \A o \in Op : Pending(Doing', o) = Pending(Doing, o)
    BY BatchLeaves
<1>2. TextsInv' /\ PhaseInv'
    BY <1>1 DEF Agreement, TextsInv, Proper, PhaseInv
<1>3. FilesInv'
    BY <1>1 DEF Agreement, FilesInv, Proper, Present, Keys, Rows, Adds, Op
<1>4. MarksInv'
    BY <1>1 DEF Agreement, MarksInv, Listed, Marked, Adds
<1>5. QED
    BY <1>2, <1>3, <1>4 DEF Agreement

\* What a job is left with that has carried out an operation for some of its files.
LEMMA CarriedLeaves ==
    ASSUME OneAtATime, Typed, Agreement, NEW w \in Worker, NEW o \in Op,
           NEW S \in SUBSET job[w].plan[o], Carried(w, o, S)
    PROVE  /\ Doing' = job'[w] /\ S \subseteq File
           /\ Doing'.pc = "catalog" /\ Doing'.op = o /\ Doing'.items = S /\ Doing'.left = S
           /\ Doing'.stats = Doing.stats /\ Doing'.tag = Doing.tag
           /\ Doing'.touch = Doing.touch
           /\ Doing'.plan \in [Op -> SUBSET File] /\ Doing'.rest = Doing.rest
           /\ Doing'.plan[o] = Doing.plan[o] \ S
           /\ \A q \in Op : /\ Doing'.plan[q] \subseteq Doing.plan[q]
                             /\ Pending(Doing', q) \subseteq Pending(Doing, q)
<1>1. Doing = job[w] /\ Doing' = job'[w] /\ Doing \in Job
    BY Alone
<1>2. Doing.plan \in [Op -> SUBSET File]
    BY <1>1 DEF Job
<1> DEFINE more == [Doing.plan EXCEPT ![o] = @ \ S]
<1>3. Doing' = [Doing EXCEPT !.pc = "catalog", !.op = o, !.items = S, !.left = S,
                             !.plan[o] = @ \ S]
    BY <1>1 DEF Carried, Update, Typed
<1>4. Doing' = [Doing EXCEPT !.pc = "catalog", !.op = o, !.items = S, !.left = S,
                             !.plan = more]
    BY <1>1, <1>3 DEF Job
<1>5. /\ more \in [Op -> SUBSET File]
      /\ more[o] = Doing.plan[o] \ S
      /\ \A q \in Op : more[q] \subseteq Doing.plan[q]
    BY <1>2
<1> HIDE DEF more
<1>6. /\ Doing'.pc = "catalog" /\ Doing'.op = o /\ Doing'.items = S /\ Doing'.left = S
      /\ Doing'.stats = Doing.stats /\ Doing'.tag = Doing.tag
      /\ Doing'.touch = Doing.touch /\ Doing'.plan = more /\ Doing'.rest = Doing.rest
    BY <1>1, <1>4 DEF Job
<1>7. S \subseteq File
    BY <1>1, <1>2
<1>8. \A q \in Op : Pending(Doing', q) \subseteq Pending(Doing, q)
    BY <1>5, <1>6 DEF Pending
<1>9. QED
    BY <1>1, <1>5, <1>6, <1>7, <1>8

\* Which operation is carried out, in what order, and for what.
LEMMA OperationDue ==
    ASSUME NEW w \in Worker, Compute(w) \/ AddTag(w) \/ RemoveTag(w) \/ Delete(w)
    PROVE  \E o \in Op : \E S \in SUBSET job[w].plan[o] :
              /\ Carried(w, o, S)
              /\ Due(job[w], o)
              /\ o = "compute" => S = job[w].plan["compute"]
              /\ job[w].pc = "work"
              /\ UNCHANGED <<text, catalog, cache>>
<1>1. CASE Compute(w)
    <2>1. /\ Carried(w, "compute", job[w].plan["compute"])
          /\ Due(job[w], "compute") /\ job[w].pc = "work"
          /\ UNCHANGED <<text, catalog, cache>>
        BY <1>1 DEF Compute, At
    <2>2. QED
        BY <2>1 DEF Op
<1>2. CASE AddTag(w)
    <2>1. /\ \E f \in job[w].plan["addTag"] : Carried(w, "addTag", {f})
          /\ Due(job[w], "addTag") /\ job[w].pc = "work"
          /\ UNCHANGED <<text, catalog, cache>>
        BY <1>2 DEF AddTag, At
    <2>2. QED
        BY <2>1 DEF Op
<1>3. CASE RemoveTag(w)
    <2>1. /\ \E f \in job[w].plan["removeTag"] : Carried(w, "removeTag", {f})
          /\ Due(job[w], "removeTag") /\ job[w].pc = "work"
          /\ UNCHANGED <<text, catalog, cache>>
        BY <1>3 DEF RemoveTag, At
    <2>2. QED
        BY <2>1 DEF Op
<1>4. CASE Delete(w)
    <2>1. /\ \E f \in job[w].plan["del"] : Carried(w, "del", {f})
          /\ Due(job[w], "del") /\ job[w].pc = "work"
          /\ UNCHANGED <<text, catalog, cache>>
        BY <1>4 DEF Delete, At
    <2>2. QED
        BY <2>1 DEF Op
<1>5. QED
    BY <1>1, <1>2, <1>3, <1>4

LEMMA OperationAgrees ==
    ASSUME OneAtATime, Typed, Agreement, NEW w \in Worker,
           Compute(w) \/ AddTag(w) \/ RemoveTag(w) \/ Delete(w)
    PROVE  Agreement'
<1>1. Doing = job[w] /\ Doing' = job'[w] /\ Doing \in Job
    BY Alone
<1>2. PICK o \in Op : \E S \in SUBSET Doing.plan[o] :
              /\ Carried(w, o, S)
              /\ Due(Doing, o)
              /\ o = "compute" => S = Doing.plan["compute"]
              /\ Doing.pc = "work"
              /\ UNCHANGED <<text, catalog, cache>>
    BY <1>1, OperationDue
<1>3. PICK S \in SUBSET Doing.plan[o] :
              /\ Carried(w, o, S)
              /\ Due(Doing, o)
              /\ o = "compute" => S = Doing.plan["compute"]
              /\ Doing.pc = "work"
              /\ UNCHANGED <<text, catalog, cache>>
    BY <1>2
<1>4. /\ Doing'.pc = "catalog" /\ Doing'.op = o /\ Doing'.items = S /\ Doing'.left = S
      /\ Doing'.stats = Doing.stats /\ Doing'.tag = Doing.tag
      /\ Doing'.touch = Doing.touch
      /\ Doing'.plan[o] = Doing.plan[o] \ S
      /\ \A q \in Op : /\ Doing'.plan[q] \subseteq Doing.plan[q]
                        /\ Pending(Doing', q) \subseteq Pending(Doing, q)
    BY <1>1, <1>3, CarriedLeaves
<1>5. TextsInv'
    BY <1>3 DEF Agreement, TextsInv, Proper
<1>6. PhaseInv'
    <2>1. Doing'.plan["compute"] = {}
        BY <1>3, <1>4 DEF Due, Op
    <2>2. ~Adds(Doing') => Doing'.plan["addTag"] = {}
        BY <1>3, <1>4 DEF Due, Adds, Op
    <2>3. Doing'.stats = {}
        BY <1>3, <1>4 DEF Agreement, PhaseInv
    <2>4. QED
        BY <1>4, <2>1, <2>2, <2>3 DEF PhaseInv
<1>7. FilesInv'
    <2>1. Present(Doing') = Present(Doing)
        BY <1>4 DEF Present
    <2>2. Proper(S)
        BY <1>2, <1>3 DEF Agreement, FilesInv, Proper, Pending
    <2>3. ASSUME NEW f \in Doing.touch
          PROVE  /\ f.key \in Keys(Doing.tag, f.path)'
                 /\ f \notin Pending(Doing', "removeTag") \cup Pending(Doing', "del")
                 /\ Adds(Doing') \/ f \notin S
        <3>1. /\ f.key \in Keys(Doing.tag, f.path)
              /\ f \notin Pending(Doing, "removeTag") \cup Pending(Doing, "del")
            BY <2>3 DEF Agreement, FilesInv
        <3>2. f \notin Pending(Doing', "removeTag") \cup Pending(Doing', "del")
            BY <1>4, <3>1 DEF Op
        <3>3. f.key \in Keys(Doing.tag, f.path)'
            BY <1>3, <1>4, <3>1 DEF Keys, Rows
        <3>4. Adds(Doing') \/ f \notin S
            BY <1>3, <1>4, <3>1 DEF Adds, Op, Pending
        <3>5. QED
            BY <3>2, <3>3, <3>4
    <2>4. \A f \in Pending(Doing', "compute") : f.key = text'[Doing'.tag][f.path]
        BY <1>3, <1>4 DEF Agreement, FilesInv, Op
    <2>5. \A q \in Op : Proper(Pending(Doing', q))
        BY <1>4 DEF Agreement, FilesInv, Proper
    <2>6. \A p \in Present(Doing') : text'[Doing'.tag][p] # NoText
        BY <1>3, <1>4, <2>1 DEF Agreement, FilesInv
    <2>7. \A f \in Doing'.touch :
             /\ f.key \in Keys(Doing.tag, f.path)'
             /\ f \notin Pending(Doing', "removeTag") \cup Pending(Doing', "del")
             /\ Adds(Doing') \/ f \notin Doing'.left
        BY <1>4, <2>3
    <2>8. QED
        BY <1>4, <2>2, <2>4, <2>5, <2>6, <2>7 DEF FilesInv, Proper
<1>8. MarksInv'
    <2>1. Listed = cache
        BY <1>3, MarkedAll DEF Agreement
    <2>2. Doing'.items \ Doing'.left = {}
        BY <1>4
    <2>3. Marked(Doing, {})' = cache'
        BY DEF Marked, Entries
    <2>4. Listed' = cache'
        BY <1>3, <2>1 DEF Listed
    <2>5. QED
        BY <2>2, <2>4 DEF MarksInv, Marked, Entries
<1>9. QED
    BY <1>5, <1>6, <1>7, <1>8 DEF Agreement

\* An item is marked in the catalog (markComplete, first part).
LEMMA MarkCatalogAgrees ==
    ASSUME OneAtATime, Typed, Agreement, NEW w \in Worker, MarkCatalog(w)
    PROVE  Agreement'
<1> DEFINE j == Doing
<1>1. Doing = job[w] /\ Doing' = job'[w] /\ Doing \in Job
    BY Alone
<1>2. j.pc = "catalog" /\ UNCHANGED <<text, cache>>
    BY <1>1 DEF MarkCatalog, At
<1>3. PICK f \in j.left :
        /\ catalog' = (catalog \ {r \in Rows(j.tag, f.path) : r.key = f.key})
             \cup (IF j.op \in {"compute", "addTag"}
                   THEN {[tag |-> j.tag, path |-> f.path, key |-> f.key, at |-> j.at]} ELSE {})
        /\ Update(w, [j EXCEPT !.left = @ \ {f},
                               !.pc = IF j.left = {f} THEN "cache" ELSE "catalog"])
    BY <1>1 DEF MarkCatalog
<1>4. Doing' = [j EXCEPT !.left = @ \ {f},
                         !.pc = IF j.left = {f} THEN "cache" ELSE "catalog"]
    BY <1>1, <1>3 DEF Update, Typed
<1>5. /\ Doing'.plan = j.plan /\ Doing'.rest = j.rest
      /\ Doing'.touch = j.touch /\ Doing'.items = j.items
      /\ Doing'.left = j.left \ {f} /\ Doing'.stats = j.stats /\ Doing'.tag = j.tag
      /\ Doing'.op = j.op /\ Doing'.pc = IF j.left = {f} THEN "cache" ELSE "catalog"
    BY <1>1, <1>4 DEF Job
<1>6. f \in j.items /\ j.left \subseteq j.items /\ f.key \in Text[f.path] /\ f \in File
    BY <1>1 DEF Agreement, PhaseInv, FilesInv, Proper, Job
<1>7. \A r \in catalog' : r \in catalog \/ (r.path = f.path /\ r.key = f.key)
    BY <1>3
<1>8. TextsInv'
    BY <1>2, <1>6, <1>7 DEF Agreement, TextsInv, Proper
<1>9. PhaseInv'
    BY <1>2, <1>5 DEF Agreement, PhaseInv, Adds
<1>10. FilesInv'
    <2>1. ASSUME NEW g \in j.touch PROVE g.key \in Keys(j.tag, g.path)'
        <3>1. /\ g.key \in Keys(j.tag, g.path)
              /\ Adds(j) \/ g \notin j.left
            BY DEF Agreement, FilesInv
        <3>2. PICK r \in catalog : r.tag = j.tag /\ r.path = g.path /\ r.key = g.key
            BY <3>1 DEF Keys, Rows
        <3>3. CASE r \in catalog'
            BY <1>5, <3>2, <3>3 DEF Keys, Rows
        <3>4. CASE r \notin catalog'
            <4>1. r.path = f.path /\ r.key = f.key
                BY <1>3, <3>2, <3>4 DEF Rows
            <4>2. g = f
                <5>1. g \in File
                    BY <1>1 DEF Job
                <5>2. g.path = f.path /\ g.key = f.key
                    BY <3>2, <4>1
                <5>3. \A a, b \in File : a.path = b.path /\ a.key = b.key => a = b
                    BY DEF File
                <5>4. QED
                    BY <1>6, <5>1, <5>2, <5>3
            <4>3. [tag |-> j.tag, path |-> f.path, key |-> f.key, at |-> j.at] \in catalog'
                BY <1>3, <3>1, <4>2 DEF Adds
            <4>4. QED
                BY <1>5, <4>2, <4>3 DEF Keys, Rows
        <3>5. QED
            BY <3>3, <3>4
    <2>2. \A g \in Doing'.touch :
             /\ g \notin Pending(Doing', "removeTag") \cup Pending(Doing', "del")
             /\ Adds(Doing') \/ g \notin Doing'.left
        BY <1>5 DEF Agreement, FilesInv, Adds, Pending
    <2>3. QED
        BY <1>2, <1>5, <2>1, <2>2 DEF Agreement, FilesInv, Present, Proper, Pending
<1>11. MarksInv'
    <2>1. Doing'.items \ Doing'.left = (j.items \ j.left) \cup {f}
        BY <1>5, <1>6
    <2>2. CASE Adds(j)
        <3>1. Listed' = Listed \cup {<<f.key, j.tag>>}
            <4>1. Listed' \subseteq Listed \cup {<<f.key, j.tag>>}
                BY <1>3 DEF Listed
            <4>2. <<f.key, j.tag>> \in Listed'
                <5>1. [tag |-> j.tag, path |-> f.path, key |-> f.key, at |-> j.at] \in catalog'
                    BY <1>3, <2>2 DEF Adds
                <5>2. QED
                    BY <5>1 DEF Listed
            <4>3. ASSUME NEW r \in catalog PROVE <<r.key, r.tag>> \in Listed'
                <5>1. CASE r \in catalog'
                    BY <5>1 DEF Listed
                <5>2. CASE r \notin catalog'
                    BY <1>3, <4>2, <5>2 DEF Rows
                <5>3. QED
                    BY <5>1, <5>2
            <4>4. QED
                BY <4>1, <4>2, <4>3 DEF Listed
        <3>2. Listed = cache \cup Entries(j.items \ j.left, j.tag)
            BY <2>2 DEF Agreement, MarksInv, Marked
        <3>3. Listed' = cache \cup Entries((j.items \ j.left) \cup {f}, j.tag)
            BY <3>1, <3>2 DEF Entries
        <3>4. QED
            BY <1>2, <1>5, <2>1, <2>2, <3>3 DEF MarksInv, Marked, Adds
    <2>3. CASE ~Adds(j)
        <3>1. catalog' = catalog \ {r \in Rows(j.tag, f.path) : r.key = f.key}
            BY <1>3, <2>3 DEF Adds
        <3>2. ASSUME NEW r \in catalog, r.key = f.key, r.tag = j.tag PROVE r \notin catalog'
            <4>1. r.path \in Path /\ r.key \in Text[r.path] /\ f.path \in Path
                BY <1>6 DEF Agreement, TextsInv, Proper, Typed, Row, File
            <4>2. r.path = f.path
                BY <1>6, <3>2, <4>1, KeyTellsPath
            <4>3. QED
                BY <3>1, <3>2, <4>2 DEF Rows
        <3>3. Listed' = Listed \ {<<f.key, j.tag>>}
            <4>1. Listed' \subseteq Listed
                BY <3>1 DEF Listed
            <4>2. <<f.key, j.tag>> \notin Listed'
                BY <3>1, <3>2 DEF Listed
            <4>3. ASSUME NEW r \in catalog, <<r.key, r.tag>> # <<f.key, j.tag>>
                  PROVE  <<r.key, r.tag>> \in Listed'
                <5>1. r \in catalog'
                    BY <3>1, <4>3 DEF Rows
                <5>2. QED
                    BY <5>1 DEF Listed
            <4>4. QED
                BY <4>1, <4>2, <4>3 DEF Listed
        <3>4. Listed = cache \ Entries(j.items \ j.left, j.tag)
            BY <2>3 DEF Agreement, MarksInv, Marked
        <3>5. Listed' = cache \ Entries((j.items \ j.left) \cup {f}, j.tag)
            BY <3>3, <3>4 DEF Entries
        <3>6. QED
            BY <1>2, <1>5, <2>1, <2>3, <3>5 DEF MarksInv, Marked, Adds
    <2>4. QED
        BY <2>2, <2>3
<1>12. QED
    BY <1>8, <1>9, <1>10, <1>11 DEF Agreement

\* The operation is marked in the cache (markComplete, second part).
LEMMA MarkCacheAgrees ==
    ASSUME OneAtATime, Typed, Agreement, NEW w \in Worker, MarkCache(w)
    PROVE  Agreement' /\ cache' = Marked(Doing, Doing.items)
<1> DEFINE j == Doing
           t == j.tag
<1>1. Doing = job[w] /\ Doing' = job'[w] /\ Doing \in Job
    BY Alone
<1>2. j.pc = "cache" /\ UNCHANGED <<text, catalog>>
    BY <1>1 DEF MarkCache, At
<1>3. cache' = Marked(j, j.items)
    BY <1>1 DEF MarkCache, Marked, Adds, Entries
<1>4. Doing' = [j EXCEPT !.pc = "work", !.op = "compute", !.items = {}]
    BY <1>1 DEF MarkCache, Update, Typed
<1>5. /\ Doing'.plan = j.plan /\ Doing'.rest = j.rest
      /\ Doing'.touch = j.touch /\ Doing'.items = {}
      /\ Doing'.left = j.left /\ Doing'.stats = j.stats /\ Doing'.tag = j.tag
      /\ Doing'.op = "compute" /\ Doing'.pc = "work"
    BY <1>1, <1>4 DEF Job
<1>6. j.left = {} /\ j.stats = {} /\ j.plan["compute"] = {}
      /\ (~Adds(j) => j.plan["addTag"] = {})
    BY <1>2 DEF Agreement, PhaseInv
<1>7. TextsInv'
    BY <1>2 DEF Agreement, TextsInv, Proper
<1>8. PhaseInv'
    BY <1>5, <1>6 DEF PhaseInv
<1>9. FilesInv'
    BY <1>2, <1>5, <1>6 DEF Agreement, FilesInv, Pending, Present, Proper, Keys, Rows, Adds
<1>10. MarksInv'
    <2>1. Listed = Marked(j, j.items)
        <3>1. j.items \ j.left = j.items
            BY <1>6
        <3>2. QED
            BY <3>1 DEF Agreement, MarksInv
    <2>2. Listed' = cache'
        BY <1>2, <1>3, <2>1 DEF Listed
    <2>3. Doing'.items \ Doing'.left = {}
        BY <1>5
    <2>4. QED
        BY <2>2, <2>3 DEF MarksInv, Marked, Entries
<1>11. QED
    BY <1>3, <1>7, <1>8, <1>9, <1>10 DEF Agreement

\* The rows of unchanged files get the time of the plan (markComplete of lastUpdated).
LEMMA FinishAgrees ==
    ASSUME OneAtATime, Typed, Agreement, NEW w \in Worker, Finish(w)
    PROVE  Agreement'
<1> DEFINE j == job[w]
           t == j.tag
           broken == {f \in j.touch : Cardinality(Keys(t, f.path)) > 1}
<1>1. Doing = job[w] /\ Doing' = job'[w] /\ Doing \in Job
    BY Alone
<1>2. j.pc = "work" /\ UNCHANGED <<text, cache>>
    BY <1>1 DEF Finish, At
<1>3. Doing' = IdleJob
    BY <1>1 DEF Finish, Update, Typed
<1>4. Listed = cache
    BY <1>1, <1>2, MarkedAll DEF Agreement
<1>5. PICK done \in SUBSET (j.touch \ broken) :
        catalog' = (catalog \ {r \in catalog : r.tag = t /\ \E f \in done : f.path = r.path})
          \cup {[tag |-> t, path |-> f.path, key |-> f.key, at |-> j.at] :
                   f \in {f \in done : Rows(t, f.path) # {}}}
    BY Zenon DEF Finish
<1>6. ASSUME NEW f \in done
      PROVE  f.key \in Keys(t, f.path) /\ \A k \in Keys(t, f.path) : k = f.key
    <2> DEFINE K == Keys(t, f.path)
    <2>1. f.key \in K /\ f \notin broken
        BY <1>1 DEF Agreement, FilesInv
    <2>2. K \in SUBSET Key /\ IsFiniteSet(Key)
        BY FiniteAssumption DEF Keys, Rows, Typed, Row
    <2>3. IsFiniteSet(K) /\ Cardinality(K) \in Nat /\ ~(Cardinality(K) > 1)
        BY <2>1, <2>2, FS_Subset, FS_CardinalityType
    <2> HIDE DEF K
    <2>4. Cardinality(K) = 1
        BY <2>1, <2>3, FS_EmptySet
    <2>5. \E k : K = {k}
        BY <2>3, <2>4, FS_Singleton
    <2>6. \A k \in K : k = f.key
        BY <2>1, <2>5
    <2>7. QED
        BY <2>1, <2>6 DEF K
<1>7. ASSUME NEW r \in catalog, r \notin catalog'
      PROVE  \E s \in catalog' : s.key = r.key /\ s.tag = r.tag
    <2>1. PICK f \in done : f.path = r.path /\ r.tag = t
        BY <1>5, <1>7
    <2>2. r \in Rows(t, f.path)
        BY <2>1 DEF Rows
    <2>3. r.key = f.key
        BY <1>6, <2>2 DEF Keys
    <2>4. [tag |-> t, path |-> f.path, key |-> f.key, at |-> j.at] \in catalog'
        BY <1>5, <2>2
    <2>5. QED
        BY <2>1, <2>3, <2>4
<1>8. ASSUME NEW s \in catalog', s \notin catalog
      PROVE  \E r \in catalog : r.key = s.key /\ r.tag = s.tag /\ r.path = s.path
    <2>1. PICK f \in done : s = [tag |-> t, path |-> f.path, key |-> f.key, at |-> j.at]
        BY <1>5, <1>8
    <2>2. PICK r \in Rows(t, f.path) : r.key = f.key
        BY <1>6 DEF Keys
    <2>3. QED
        BY <2>1, <2>2 DEF Rows
<1>9. Listed' = Listed
    <2>1. ASSUME NEW r \in catalog PROVE <<r.key, r.tag>> \in Listed'
        BY <1>7 DEF Listed
    <2>2. ASSUME NEW s \in catalog' PROVE <<s.key, s.tag>> \in Listed
        BY <1>8 DEF Listed
    <2>3. QED
        BY <2>1, <2>2 DEF Listed
<1>10. TextsInv'
    <2>1. Proper(catalog')
        BY <1>8 DEF Agreement, TextsInv, Proper
    <2>2. QED
        BY <1>2, <2>1 DEF Agreement, TextsInv, Proper
<1>11. QED
    BY <1>2, <1>3, <1>4, <1>9, <1>10, AtRest DEF IdleJob, Present

LEMMA AbortAgrees ==
    ASSUME OneAtATime, Typed, Agreement, NEW w \in Worker, Abort(w)
    PROVE  Agreement'
<1>1. Doing = job[w] /\ Doing' = job'[w] /\ Doing \in Job
    BY Alone
<1>2. Doing.pc = "work" /\ UNCHANGED <<text, catalog, cache>> /\ Doing' = IdleJob
    BY <1>1 DEF Abort, At, Update, Typed
<1>3. Listed' = cache'
    BY <1>2, MarkedAll DEF Agreement, Listed
<1>4. TextsInv'
    BY <1>2 DEF Agreement, TextsInv, Proper
<1>5. QED
    BY <1>2, <1>3, <1>4, AtRest DEF IdleJob, Present

\* Every step keeps catalog and cache in agreement.
LEMMA StepAgrees == OneAtATime /\ Typed /\ Agreement /\ [Next]_vars => Agreement'
<1> SUFFICES ASSUME OneAtATime, Typed, Agreement, [Next]_vars PROVE Agreement'
    OBVIOUS
<1>1. ASSUME NEW w \in Worker, Fails(w) \/ Crash(w) PROVE FALSE
    BY <1>1 DEF Fails, Crash, OneAtATime
<1>2. CASE UNCHANGED vars
    <2>1. Doing' = Doing
        BY <1>2 DEF vars, Doing
    <2>2. TextsInv' /\ PhaseInv' /\ FilesInv'
        BY <1>2, <2>1
        DEF vars, Agreement, TextsInv, PhaseInv, FilesInv, Proper, Present, Keys, Rows, Adds
    <2>3. MarksInv'
        BY <1>2, <2>1 DEF vars, Agreement, MarksInv, Listed, Marked, Adds
    <2>4. QED
        BY <2>2, <2>3 DEF Agreement
<1>3. QED
    BY <1>1, <1>2, EditAgrees, BeginAgrees, StampAgrees, PlanAgrees, BatchAgrees,
       OperationAgrees, MarkCatalogAgrees, MarkCacheAgrees, FinishAgrees, AbortAgrees DEF Next

LEMMA InitAgrees == OneAtATime /\ Init => Agreement
<1> SUFFICES ASSUME OneAtATime, Init PROVE Agreement
    OBVIOUS
<1> PICK w \in Worker : TRUE
    BY DEF OneAtATime
<1>1. Doing = job[w]
    BY Alone
<1>2. Doing = IdleJob
    BY <1>1 DEF Init
<1>3. Listed = cache /\ cache = {} /\ catalog = {}
    BY DEF Init, Listed
<1>4. TextsInv
    BY <1>3 DEF TextsInv, Proper, Init
<1>5. PhaseInv
    BY <1>2 DEF PhaseInv, IdleJob, NoPlan, Op
<1>6. FilesInv
    BY <1>2 DEF FilesInv, Pending, IdleJob, NoPlan, Op, Proper, Present
<1>7. MarksInv
    BY <1>2, <1>3 DEF MarksInv, Marked, Entries, IdleJob
<1>8. QED
    BY <1>4, <1>5, <1>6, <1>7 DEF Agreement

\* As long as one refresh runs at a time, which may be aborted between two items, and
\* no two files have the same text, the cache says of every branch, file and version
\* what the catalog says, in however many batches a plan is carried out
\* (markComplete, getTagsFromGlobalCache, batchRefreshIndexResults).
THEOREM CacheIsRight == OneAtATime => (Spec => []CacheAgrees)
<1>1. OneAtATime /\ Init => Typed /\ Agreement
    BY InitInv, InitAgrees
<1>2. OneAtATime /\ (Typed /\ Agreement) /\ [Next]_vars => (Typed /\ Agreement)'
    BY StepTyped, StepAgrees
<1>3. OneAtATime /\ Typed /\ Agreement => CacheAgrees
    <2> SUFFICES ASSUME OneAtATime, Agreement, \A w \in Worker : ~Marking(w)
                 PROVE  Listed = cache
        BY DEF CacheAgrees, Listed
    <2> PICK w \in Worker : TRUE
        BY DEF OneAtATime
    <2>1. Doing.pc \notin {"catalog", "cache"}
        BY Alone DEF Marking, At
    <2>2. QED
        BY <2>1, MarkedAll DEF Agreement
<1>4. QED
    <2>1. SUFFICES ASSUME OneAtATime PROVE Spec => []CacheAgrees
        OBVIOUS
    <2>2. Init => Typed /\ Agreement
        BY <1>1, <2>1
    <2>3. (Typed /\ Agreement) /\ [Next]_vars => (Typed /\ Agreement)'
        BY <1>2, <2>1
    <2>4. Typed /\ Agreement => CacheAgrees
        BY <1>3, <2>1
    <2>5. QED
        BY <2>2, <2>3, <2>4, PTL DEF Spec

-----------------------------------------------------------------------------
(* The plan stands while it is carried out. *)

\* The additions of a plan are one at most for each file (getAddRemoveForTag).
LEMMA AddsFit ==
    ASSUME SmallTree, Typed, NEW j \in Job, NEW S \in SUBSET Added(j)
    PROVE  Cardinality(S) <= BatchSize
<1> DEFINE h == [p \in Path |-> [path |-> p, key |-> text[j.tag][p]]]
           A == {h[p] : p \in Path}
<1>1. Added(j) \subseteq A
    <2>1. Present(j) \subseteq Path /\ Changed(j) \subseteq Path
        BY DEF Present, Changed, Newer, Job
    <2>2. QED
        BY <2>1 DEF Added
<1>2. h = [p \in Path |-> h[p]]
    OBVIOUS
<1> HIDE DEF h
<1>3. IsFiniteSet(A) /\ Cardinality(A) <= Cardinality(Path)
    BY <1>2, FiniteAssumption, FiniteRange
<1> HIDE DEF A
<1>4. IsFiniteSet(S) /\ Cardinality(S) <= Cardinality(A)
    BY <1>1, <1>3, FS_Subset
<1>5. /\ Cardinality(S) \in Nat /\ Cardinality(A) \in Nat /\ Cardinality(Path) \in Nat
      /\ BatchSize \in Nat
    BY <1>3, <1>4, FiniteAssumption, RefreshAssumption, FS_CardinalityType
<1>6. QED
    BY <1>3, <1>4, <1>5 DEF SmallTree

\* A job that loses some of what it planned, while the cache stays.
LEMMA LessStands ==
    ASSUME PlanStands, cache' = cache, Doing'.tag = Doing.tag,
           \A o \in {"compute", "addTag"} :
              Doing'.plan[o] \subseteq Doing.plan[o] /\ Doing'.rest[o] \subseteq Doing.rest[o],
           \A o \in {"removeTag", "del"} : Pending(Doing', o) \subseteq Pending(Doing, o)
    PROVE  PlanStands'
<1>1. \A k : Tags(k)' = Tags(k)
    BY DEF Tags
<1>2. QED
    BY <1>1 DEF PlanStands

\* A job without a plan.
LEMMA NothingStands ==
    ASSUME Doing'.plan = NoPlan, Doing'.rest = NoPlan
    PROVE  PlanStands'
BY DEF PlanStands, Pending, NoPlan, Op

\* A plan is right about the tags of its keys (getTagsFromGlobalCache).
LEMMA PlanRight ==
    ASSUME OneAtATime, SmallTree, Typed, Agreement, NEW w \in Worker, MakePlan(w)
    PROVE  PlanStands'
<1> DEFINE j == Doing
           t == Doing.tag
<1>1. /\ j \in Job /\ t \in Tag /\ j.pc = "plan" /\ UNCHANGED <<text, catalog, cache>>
      /\ Doing'.tag = t
      /\ \A o \in Op : Pending(Doing', o) = Plan(j)[o]
      /\ \A o \in Op : Cardinality(Plan(j)[o]) <= BatchSize => Doing'.rest[o] = {}
    BY PlanLeaves DEF Job
<1>2. Listed = cache
    BY <1>1, MarkedAll DEF Agreement
<1>3. \A k : Tags(k)' = Tags(k) /\ Tags(k) \in SUBSET Tag
    BY <1>1 DEF Tags
<1>4. \A f \in Plan(j)["removeTag"] : Tags(f.key) \ {t} # {}
    BY <1>1, <1>3, FewTags DEF Plan, Planned, Op
<1>5. \A f \in Plan(j)["del"] : Tags(f.key) \subseteq {t}
    <2>1. \A f \in Plan(j)["del"] : f \in Removed(j) /\ Cardinality(Tags(f.key)) <= 1
        BY DEF Plan, Planned, Op
    <2>2. \A f \in Removed(j) : t \in Tags(f.key)
        BY <1>1, <1>2, RemovedListed
    <2>3. QED
        BY <1>1, <1>3, <2>1, <2>2, FewTags
<1>6. /\ \A f \in Plan(j)["compute"] : Tags(f.key) = {}
      /\ \A f \in Plan(j)["addTag"] : Tags(f.key) # {}
    BY DEF Plan, Planned, Op
<1>7. Doing'.rest["compute"] = {} /\ Doing'.rest["addTag"] = {}
    <2>1. Plan(j)["compute"] \subseteq Added(j) /\ Plan(j)["addTag"] \subseteq Added(j)
        BY DEF Plan, Planned, Op
    <2>2. /\ Cardinality(Plan(j)["compute"]) <= BatchSize
          /\ Cardinality(Plan(j)["addTag"]) <= BatchSize
        BY <1>1, <2>1, AddsFit
    <2>3. QED
        BY <1>1, <2>2 DEF Op
<1>8. /\ Doing'.plan["compute"] \subseteq Plan(j)["compute"]
      /\ Doing'.plan["addTag"] \subseteq Plan(j)["addTag"]
    <2>1. \A o \in Op : Doing'.plan[o] \subseteq Pending(Doing', o)
        BY DEF Pending
    <2>2. QED
        BY <1>1, <2>1 DEF Op
<1>9. /\ Pending(Doing', "removeTag") = Plan(j)["removeTag"]
      /\ Pending(Doing', "del") = Plan(j)["del"]
    BY <1>1 DEF Op
<1>10. QED
    BY <1>1, <1>3, <1>4, <1>5, <1>6, <1>7, <1>8, <1>9 DEF PlanStands

\* What is added makes no tag of another go, and what is taken away is taken away
\* after it.
LEMMA MarksStand ==
    ASSUME OneAtATime, Typed, Agreement, PlanStands, NEW w \in Worker, MarkCache(w)
    PROVE  PlanStands'
<1> DEFINE j == Doing
           t == j.tag
<1>1. Doing = job[w] /\ Doing' = job'[w] /\ Doing \in Job
    BY Alone
<1>2. cache' = Marked(j, j.items) /\ j.pc = "cache"
    BY <1>1, MarkCacheAgrees DEF MarkCache, At
<1>3. Doing' = [j EXCEPT !.pc = "work", !.op = "compute", !.items = {}]
    BY <1>1 DEF MarkCache, Update, Typed
<1>4. Doing'.plan = j.plan /\ Doing'.rest = j.rest /\ Doing'.tag = t
    BY <1>1, <1>3 DEF Job
<1>5. j.plan["compute"] = {} /\ (~Adds(j) => j.plan["addTag"] = {})
    BY <1>2 DEF Agreement, PhaseInv
<1>6. ASSUME NEW k PROVE /\ Tags(k)' \ {t} = Tags(k) \ {t}
                         /\ Adds(j) => Tags(k) \subseteq Tags(k)'
    BY <1>2 DEF Tags, Marked, Entries
<1>7. \A f \in j.plan["addTag"] : Tags(f.key)' # {}
    <2>1. \A f \in j.plan["addTag"] : Tags(f.key) # {} /\ Adds(j)
        BY <1>5 DEF PlanStands
    <2>2. QED
        BY <1>6, <2>1
<1>8. \A f \in Pending(j, "removeTag") : Tags(f.key)' \ {t} # {}
    BY <1>6 DEF PlanStands
<1>9. \A f \in Pending(j, "del") : Tags(f.key)' \subseteq {t}
    <2>1. \A f \in Pending(j, "del") : Tags(f.key) \ {t} = {}
        BY DEF PlanStands
    <2>2. \A f \in Pending(j, "del") : Tags(f.key)' \ {t} = {}
        BY <1>6, <2>1
    <2>3. QED
        BY <2>2
<1>10. QED
    BY <1>4, <1>5, <1>7, <1>8, <1>9 DEF PlanStands, Pending

\* Every step leaves the plan right about the tags.
LEMMA StepStands ==
    ASSUME OneAtATime, SmallTree, Typed, Agreement, PlanStands, [Next]_vars
    PROVE  PlanStands'
<1> PICK w \in Worker : TRUE
    BY DEF OneAtATime
<1>1. Worker = {w} /\ Doing = job[w] /\ Doing' = job'[w] /\ Doing \in Job
    BY Alone
<1>2. \A v \in Worker : ~Fails(v) /\ ~Crash(v)
    BY DEF Fails, Crash, OneAtATime
<1>3. CASE /\ cache' = cache /\ Doing'.tag = Doing.tag
           /\ Doing'.plan = Doing.plan /\ Doing'.rest = Doing.rest
    BY <1>3, LessStands DEF Pending
<1>4. CASE \/ UNCHANGED vars
           \/ \E t \in Tag, p \in Path : \E x \in Text[p] \cup {NoText} : Edit(t, p, x)
    BY <1>1, <1>3, <1>4 DEF vars, Edit
<1>5. CASE \E t \in Tag, S \in {Path} \cup {{p} : p \in Path} : Begin(w, t, S)
    <2>1. Doing'.plan = NoPlan /\ Doing'.rest = NoPlan
        BY <1>1, <1>5 DEF Begin, Update, Typed, IdleJob
    <2>2. QED
        BY <2>1, NothingStands
<1>6. CASE Stamp(w)
    <2>1. Doing' = [Doing EXCEPT !.pc = "plan", !.at = clock + 1] /\ cache' = cache
        BY <1>1, <1>6 DEF Stamp, Update, Typed
    <2>2. QED
        BY <1>1, <1>3, <2>1 DEF Job
<1>7. CASE MakePlan(w)
    BY <1>7, PlanRight
<1>8. CASE NextBatch(w)
    <2>1. /\ cache' = cache /\ Doing'.tag = Doing.tag
          /\ \A o \in Op : /\ Pending(Doing', o) = Pending(Doing, o)
                            /\ Doing'.plan[o] \subseteq Doing.rest[o]
                            /\ Doing'.rest[o] \subseteq Doing.rest[o]
        BY <1>8, BatchLeaves
    <2>2. \A o \in {"compute", "addTag"} : Doing.rest[o] = {}
        BY DEF PlanStands
    <2>3. QED
        BY <2>1, <2>2, LessStands DEF Op
<1>9. CASE Compute(w) \/ AddTag(w) \/ RemoveTag(w) \/ Delete(w)
    <2>1. PICK o \in Op : \E S \in SUBSET job[w].plan[o] :
             Carried(w, o, S) /\ UNCHANGED <<text, catalog, cache>>
        BY <1>9, OperationDue
    <2>2. /\ cache' = cache /\ Doing'.tag = Doing.tag /\ Doing'.rest = Doing.rest
          /\ \A q \in Op : /\ Doing'.plan[q] \subseteq Doing.plan[q]
                            /\ Pending(Doing', q) \subseteq Pending(Doing, q)
        BY <2>1, CarriedLeaves
    <2>3. QED
        BY <2>2, LessStands DEF Op
<1>10. CASE MarkCatalog(w)
    <2>1. PICK f : Doing' = [Doing EXCEPT !.left = @ \ {f},
                        !.pc = IF Doing.left = {f} THEN "cache" ELSE "catalog"]
        BY <1>1, <1>10 DEF MarkCatalog, Update, Typed
    <2>2. cache' = cache
        BY <1>10 DEF MarkCatalog
    <2>3. QED
        BY <1>1, <1>3, <2>1, <2>2 DEF Job
<1>11. CASE MarkCache(w)
    BY <1>11, MarksStand
<1>12. CASE Finish(w) \/ Abort(w)
    <2>1. Doing'.plan = NoPlan /\ Doing'.rest = NoPlan
        BY <1>1, <1>12 DEF Finish, Abort, Update, Typed, IdleJob
    <2>2. QED
        BY <2>1, NothingStands
<1>13. QED
    BY <1>1, <1>2, <1>4, <1>5, <1>6, <1>7, <1>8, <1>9, <1>10, <1>11, <1>12 DEF Next

-----------------------------------------------------------------------------
(* The chunks. *)

\* What holds of the chunks, and that other tags are shown the same.
ChunksKept == ChunksInv' /\ \A t \in Tag : t # Doing.tag => Shown(t)' = Shown(t)

\* Chunks that stay stay right if the marks do.
LEMMA SameChunks ==
    ASSUME ChunksInv, chunks' = chunks, \A k \in Key : Held(k)' = Held(k), Stored
    PROVE  ChunksInv' /\ \A t : Shown(t)' = Shown(t)
<1>1. \A c \in chunks : c.key \in Key
    BY DEF Stored, Chunk
<1>2. ChunksInv'
    BY <1>1 DEF ChunksInv
<1>3. \A t : Shown(t)' = Shown(t)
    BY DEF Shown
<1>4. QED
    BY <1>2, <1>3

\* The chunk of one key gets other tags.
LEMMA Retagged ==
    ASSUME Stored, ChunksInv, NEW k \in Key, Held(k) # {},
           NEW T \in SUBSET Tag, T # {}, T \ {Doing.tag} = Held(k) \ {Doing.tag},
           \A x \in Key : Held(x)' = IF x = k THEN T ELSE Held(x),
           \A d \in chunks' : \E c \in chunks :
              d = IF c.key = k THEN [c EXCEPT !.tags = T] ELSE c,
           \A c \in chunks : (IF c.key = k THEN [c EXCEPT !.tags = T] ELSE c) \in chunks'
    PROVE  ChunksKept
<1> DEFINE new(c) == IF c.key = k THEN [c EXCEPT !.tags = T] ELSE c
<1>1. ASSUME NEW c \in chunks
      PROVE  /\ new(c).key = c.key /\ new(c).path = c.path /\ new(c).body = c.body
             /\ new(c).piece = c.piece /\ c.key \in Key
             /\ new(c).tags = IF c.key = k THEN T ELSE c.tags
    BY DEF Stored, Chunk
<1>2. \A d \in chunks' : \E c \in chunks : d = new(c)
    OBVIOUS
<1>3. \A c \in chunks : new(c) \in chunks'
    OBVIOUS
<1> HIDE DEF new
<1>4. ASSUME NEW d \in chunks'
      PROVE  /\ d.key \in Text[d.path] /\ d.body = d.key
             /\ d.tags = Held(d.key)' /\ d.tags # {}
             /\ \A e \in chunks' : e.key = d.key => e = d
    <2>1. PICK c \in chunks : d = new(c)
        BY <1>2
    <2>2. /\ c.key \in Text[c.path] /\ c.body = c.key
          /\ c.tags = Held(c.key) /\ c.tags # {}
          /\ \A b \in chunks : b.key = c.key => b = c
        BY DEF ChunksInv
    <2>3. ASSUME NEW e \in chunks', e.key = d.key PROVE e = d
        <3>1. PICK b \in chunks : e = new(b)
            BY <1>2
        <3>2. b.key = c.key
            BY <1>1, <2>1, <2>3, <3>1
        <3>3. QED
            BY <2>1, <2>2, <3>1, <3>2
    <2>4. QED
        BY <1>1, <2>1, <2>2, <2>3
<1>5. ASSUME NEW x \in Key, Held(x)' # {} PROVE \E d \in chunks' : d.key = x
    <2>1. Held(x) # {}
        BY <1>5
    <2>2. PICK c \in chunks : c.key = x
        BY <2>1 DEF ChunksInv
    <2>3. QED
        BY <1>1, <1>3, <2>2
<1>6. ChunksInv'
    BY <1>4, <1>5 DEF ChunksInv
<1>7. ASSUME NEW t \in Tag, t # Doing.tag PROVE Shown(t)' = Shown(t)
    <2>1. ASSUME NEW c \in chunks PROVE t \in new(c).tags <=> t \in c.tags
        <3>1. c.tags = Held(c.key)
            BY DEF ChunksInv
        <3>2. QED
            BY <1>1, <1>7, <3>1
    <2>2. Shown(t)' \subseteq Shown(t)
        <3>1. SUFFICES ASSUME NEW d \in chunks', t \in d.tags
                       PROVE  <<d.key, d.path, d.piece>> \in Shown(t)
            BY DEF Shown
        <3>2. PICK c \in chunks : d = new(c)
            BY <1>2
        <3>3. t \in c.tags /\ d.key = c.key /\ d.path = c.path /\ d.piece = c.piece
            BY <1>1, <2>1, <3>1, <3>2
        <3>4. QED
            BY <3>3 DEF Shown
    <2>3. Shown(t) \subseteq Shown(t)'
        <3>1. SUFFICES ASSUME NEW c \in chunks, t \in c.tags
                       PROVE  <<c.key, c.path, c.piece>> \in Shown(t)'
            BY DEF Shown
        <3>2. new(c) \in chunks' /\ t \in new(c).tags
            BY <1>3, <2>1, <3>1
        <3>3. QED
            BY <1>1, <3>2 DEF Shown
    <2>4. QED
        BY <2>2, <2>3
<1>8. QED
    BY <1>6, <1>7 DEF ChunksKept

\* The premises of all that follows.
Given ==
    /\ OneAtATime /\ SmallTree /\ OneChunk
    /\ Typed /\ Stored /\ Agreement /\ PlanStands /\ ChunksInv

\* An operation is carried out when nothing is being marked, and its items are then.
LEMMA HeldNext ==
    ASSUME Given, NEW w \in Worker, NEW o \in Op, NEW S \in SUBSET job[w].plan[o],
           Carried(w, o, S), job[w].pc = "work", cache' = cache
    PROVE  /\ Doing = job[w] /\ Doing \in Job /\ S \subseteq File /\ Proper(S)
           /\ \A k : Held(k) = Tags(k)
           /\ \A k : Held(k)' =
                IF \E f \in S : f.key = k
                THEN IF o \in {"compute", "addTag"} THEN Tags(k) \cup {Doing.tag}
                     ELSE Tags(k) \ {Doing.tag}
                ELSE Tags(k)
<1>1. Doing = job[w] /\ Doing \in Job /\ Doing.tag \in Tag
    BY Alone DEF Given, Job
<1>2. /\ Doing'.op = o /\ Doing'.items = S /\ Doing'.tag = Doing.tag /\ S \subseteq File
    BY CarriedLeaves DEF Given
<1>3. Proper(S)
    BY <1>1 DEF Given, Agreement, FilesInv, Proper, Pending
<1>4. \A k : Held(k) = Tags(k)
    <2>1. Doing.items = {}
        BY <1>1 DEF Given, Agreement, PhaseInv
    <2>2. Marked(Doing, Doing.items) = cache
        BY <2>1, MarkedNone
    <2>3. QED
        BY <2>2 DEF Held, Tags
<1>5. ASSUME NEW k
      PROVE  Held(k)' = IF \E f \in S : f.key = k
                        THEN IF o \in {"compute", "addTag"} THEN Tags(k) \cup {Doing.tag}
                             ELSE Tags(k) \ {Doing.tag}
                        ELSE Tags(k)
    <2>1. Marked(Doing, Doing.items)' =
             IF o \in {"compute", "addTag"} THEN cache \cup Entries(S, Doing.tag)
             ELSE cache \ Entries(S, Doing.tag)
        BY <1>2 DEF Marked, Adds, Entries
    <2>2. \A t : <<k, t>> \in Entries(S, Doing.tag) <=>
                    (t = Doing.tag /\ \E f \in S : f.key = k)
        BY DEF Entries
    <2>3. QED
        BY <1>1, <2>1, <2>2 DEF Held, Tags
<1>6. QED
    BY <1>1, <1>2, <1>3, <1>4, <1>5

LEMMA ComputeChunks == ASSUME Given, NEW w \in Worker, Compute(w) PROVE ChunksKept
<1> DEFINE S == job[w].plan["compute"]
           t == job[w].tag
<1>1. /\ Carried(w, "compute", S) /\ job[w].pc = "work" /\ cache' = cache
    BY DEF Compute, At
<1>2. /\ Doing = job[w] /\ Doing \in Job /\ S \subseteq File /\ Proper(S)
      /\ \A k : Held(k) = Tags(k)
      /\ \A k : Held(k)' = IF \E f \in S : f.key = k THEN Tags(k) \cup {t} ELSE Tags(k)
    <2>1. "compute" \in Op /\ S \in SUBSET job[w].plan["compute"]
        BY DEF Op
    <2>2. QED
        BY <1>1, <2>1, HeldNext
<1>3. \A f \in S : Tags(f.key) = {} /\ f.key = text[t][f.path] /\ text[t][f.path] # NoText
    <2>1. \A f \in S : Tags(f.key) = {} /\ f.key = text[t][f.path]
        BY <1>2 DEF Given, PlanStands, Agreement, FilesInv, Pending
    <2>2. \A f \in S : f.path \in Path /\ f.key \in Text[f.path]
        BY <1>2 DEF File, Proper
    <2>3. QED
        BY <2>1, <2>2, RefreshAssumption
<1>4. PICK i : Piece = {i}
    BY DEF Given, OneChunk
<1> DEFINE chunk(f) == PieceOf(f, i, t)
<1>5. chunks' = chunks \cup Cut(S, t)
    <2>1. "error" \notin Breaks
        BY DEF Given, OneAtATime
    <2>2. QED
        BY <2>1 DEF Compute
<1>6. /\ \A c \in Cut(S, t) : \E f \in S : c = chunk(f)
      /\ \A f \in S : chunk(f) \in Cut(S, t)
    <2>1. ASSUME NEW c \in Cut(S, t) PROVE \E f \in S : c = chunk(f)
        <3>1. PICK f \in S, k \in Piece : c = PieceOf(f, k, t)
            BY DEF Cut
        <3>2. k = i
            BY <1>4
        <3>3. QED
            BY <3>1, <3>2
    <2>2. ASSUME NEW f \in S PROVE chunk(f) \in Cut(S, t)
        <3>1. text[t][f.path] # NoText /\ i \in Piece
            BY <1>3, <1>4
        <3>2. QED
            BY <3>1 DEF Cut
    <2>3. QED
        BY <2>1, <2>2
<1>7. ASSUME NEW f \in S
      PROVE  /\ chunk(f).key = f.key /\ chunk(f).path = f.path
             /\ chunk(f).body = f.key /\ chunk(f).tags = {t}
    <2>1. chunk(f).key = f.key /\ chunk(f).path = f.path /\ chunk(f).tags = {t}
        BY DEF PieceOf
    <2>2. chunk(f).body = text[t][f.path]
        BY DEF PieceOf
    <2>3. QED
        BY <1>3, <2>1, <2>2
<1> HIDE DEF chunk
<1>8. \A c \in chunks : c.tags = Tags(c.key) /\ c.tags # {} /\ \A f \in S : f.key # c.key
    BY <1>2, <1>3 DEF Given, ChunksInv
<1>9. ASSUME NEW f \in S, NEW g \in S, f.key = g.key PROVE f = g
    <2>1. f \in File /\ g \in File /\ f.key \in Text[f.path] /\ g.key \in Text[g.path]
        BY <1>2 DEF Proper
    <2>2. f.path = g.path
        BY <1>9, <2>1, KeyTellsPath DEF Given, File
    <2>3. \A a, b \in File : a.path = b.path /\ a.key = b.key => a = b
        BY DEF File
    <2>4. QED
        BY <1>9, <2>1, <2>2, <2>3
<1>10. ASSUME NEW c \in chunks'
       PROVE  /\ c.key \in Text[c.path] /\ c.body = c.key
              /\ c.tags = Held(c.key)' /\ c.tags # {}
              /\ \A d \in chunks' : d.key = c.key => d = c
    <2>1. CASE c \in chunks
        <3>1. /\ c.key \in Text[c.path] /\ c.body = c.key
              /\ \A d \in chunks : d.key = c.key => d = c
            BY <2>1 DEF Given, ChunksInv
        <3>2. c.tags = Held(c.key)' /\ c.tags # {}
            BY <1>2, <1>8, <2>1
        <3>3. \A d \in Cut(S, t) : d.key # c.key
            BY <1>6, <1>7, <1>8, <2>1
        <3>4. QED
            BY <1>5, <3>1, <3>2, <3>3
    <2>2. CASE c \in Cut(S, t)
        <3>1. PICK f \in S : c = chunk(f)
            BY <1>6, <2>2
        <3>2. c.key = f.key /\ c.path = f.path /\ c.body = f.key /\ c.tags = {t}
            BY <1>7, <3>1
        <3>3. Held(c.key)' = {t}
            BY <1>2, <1>3, <3>2
        <3>4. \A d \in chunks : d.key # c.key
            BY <1>8, <3>2
        <3>5. \A d \in Cut(S, t) : d.key = c.key => d = c
            BY <1>6, <1>7, <1>9, <3>1, <3>2
        <3>6. f.key \in Text[f.path]
            BY <1>2 DEF Proper
        <3>7. QED
            BY <1>5, <3>2, <3>3, <3>4, <3>5, <3>6
    <2>3. QED
        BY <1>5, <2>1, <2>2
<1>11. ASSUME NEW k \in Key, Held(k)' # {} PROVE \E c \in chunks' : c.key = k
    <2>1. CASE \E f \in S : f.key = k
        BY <1>5, <1>6, <1>7, <2>1
    <2>2. CASE ~\E f \in S : f.key = k
        <3>1. Held(k) # {}
            BY <1>2, <1>11, <2>2
        <3>2. QED
            BY <1>5, <3>1 DEF Given, ChunksInv
    <2>3. QED
        BY <2>1, <2>2
<1>12. ASSUME NEW s \in Tag, s # t PROVE Shown(s)' = Shown(s)
    <2>1. {c \in chunks' : s \in c.tags} = {c \in chunks : s \in c.tags}
        BY <1>5, <1>6, <1>7, <1>12
    <2>2. QED
        BY <2>1 DEF Shown
<1>13. QED
    BY <1>2, <1>10, <1>11, <1>12 DEF ChunksKept, ChunksInv

LEMMA AddTagChunks == ASSUME Given, NEW w \in Worker, AddTag(w) PROVE ChunksKept
<1> DEFINE t == job[w].tag
<1>1. PICK f \in job[w].plan["addTag"] :
        /\ chunks' = IF \E c \in chunks : c.key = f.key /\ t \in c.tags THEN chunks
                     ELSE {IF c.key = f.key THEN [c EXCEPT !.tags = @ \cup {t}] ELSE c :
                             c \in chunks}
        /\ Carried(w, "addTag", {f})
    BY DEF AddTag
<1>2. job[w].pc = "work" /\ cache' = cache
    BY DEF AddTag, At
<1>3. /\ Doing = job[w] /\ Doing \in Job /\ f \in File
      /\ \A k : Held(k) = Tags(k)
      /\ \A k : Held(k)' = IF k = f.key THEN Tags(k) \cup {t} ELSE Tags(k)
    <2>1. "addTag" \in Op /\ {f} \in SUBSET job[w].plan["addTag"]
        BY DEF Op
    <2>2. QED
        BY <1>1, <1>2, <2>1, HeldNext
<1>4. f.key \in Key /\ t \in Tag /\ Tags(f.key) # {} /\ Tags(f.key) \in SUBSET Tag
    BY <1>3 DEF Given, PlanStands, File, Job, Tags
<1>5. ASSUME NEW c \in chunks PROVE c.tags = Tags(c.key)
    BY <1>3 DEF Given, ChunksInv
<1>6. \E c \in chunks : c.key = f.key
    BY <1>3, <1>4 DEF Given, ChunksInv
<1>7. CASE t \in Tags(f.key)
    <2>1. chunks' = chunks
        BY <1>1, <1>5, <1>6, <1>7
    <2>2. \A k \in Key : Held(k)' = Held(k)
        BY <1>3, <1>7
    <2>3. QED
        BY <2>1, <2>2, SameChunks DEF Given, ChunksKept
<1>8. CASE t \notin Tags(f.key)
    <2> DEFINE T == Tags(f.key) \cup {t}
               new(c) == IF c.key = f.key THEN [c EXCEPT !.tags = T] ELSE c
    <2>1. chunks' = {IF c.key = f.key THEN [c EXCEPT !.tags = @ \cup {t}] ELSE c : c \in chunks}
        BY <1>1, <1>5, <1>8
    <2>2. ASSUME NEW c \in chunks
          PROVE  (IF c.key = f.key THEN [c EXCEPT !.tags = @ \cup {t}] ELSE c) = new(c)
        BY <1>5 DEF Given, Stored, Chunk
    <2>3. /\ \A d \in chunks' : \E c \in chunks : d = new(c)
          /\ \A c \in chunks : new(c) \in chunks'
        BY <2>1, <2>2
    <2>4. /\ T \in SUBSET Tag /\ T # {}
          /\ T \ {Doing.tag} = Held(f.key) \ {Doing.tag} /\ Held(f.key) # {}
          /\ \A k \in Key : Held(k)' = IF k = f.key THEN T ELSE Held(k)
        BY <1>3, <1>4
    <2> HIDE DEF T
    <2>5. QED
        BY <1>4, <2>3, <2>4, Retagged DEF Given
<1>9. QED
    BY <1>7, <1>8

LEMMA RemoveTagChunks == ASSUME Given, NEW w \in Worker, RemoveTag(w) PROVE ChunksKept
<1> DEFINE t == job[w].tag
<1>1. PICK f \in job[w].plan["removeTag"] :
        /\ chunks' = {IF c.key = f.key /\ c.path = f.path
                      THEN [c EXCEPT !.tags = @ \ {t}] ELSE c : c \in chunks}
        /\ Carried(w, "removeTag", {f})
    BY DEF RemoveTag
<1>2. job[w].pc = "work" /\ cache' = cache
    BY DEF RemoveTag, At
<1>3. /\ Doing = job[w] /\ Doing \in Job /\ f \in File /\ f.key \in Text[f.path]
      /\ \A k : Held(k) = Tags(k)
      /\ \A k : Held(k)' = IF k = f.key THEN Tags(k) \ {t} ELSE Tags(k)
    <2>1. "removeTag" \in Op /\ {f} \in SUBSET job[w].plan["removeTag"]
        BY DEF Op
    <2>2. QED
        BY <1>1, <1>2, <2>1, HeldNext DEF Proper
<1>4. f.key \in Key /\ t \in Tag /\ Tags(f.key) \ {t} # {} /\ Tags(f.key) \in SUBSET Tag
    BY <1>3 DEF Given, PlanStands, Pending, File, Job, Tags
<1>5. ASSUME NEW c \in chunks
      PROVE  /\ c.tags = Tags(c.key)
             /\ c.key = f.key => c.path = f.path
    <2>1. c.tags = Tags(c.key) /\ c.key \in Text[c.path]
        BY <1>3 DEF Given, ChunksInv
    <2>2. c.path \in Path /\ f.path \in Path
        BY <1>3 DEF Given, Stored, Chunk, File
    <2>3. QED
        BY <1>3, <2>1, <2>2, KeyTellsPath DEF Given
<1> DEFINE T == Tags(f.key) \ {t}
           new(c) == IF c.key = f.key THEN [c EXCEPT !.tags = T] ELSE c
<1>6. ASSUME NEW c \in chunks
      PROVE  (IF c.key = f.key /\ c.path = f.path THEN [c EXCEPT !.tags = @ \ {t}] ELSE c)
                = new(c)
    BY <1>5 DEF Given, Stored, Chunk
<1>7. /\ \A d \in chunks' : \E c \in chunks : d = new(c)
      /\ \A c \in chunks : new(c) \in chunks'
    BY <1>1, <1>6
<1>8. /\ T \in SUBSET Tag /\ T # {}
      /\ T \ {Doing.tag} = Held(f.key) \ {Doing.tag} /\ Held(f.key) # {}
      /\ \A k \in Key : Held(k)' = IF k = f.key THEN T ELSE Held(k)
    BY <1>3, <1>4
<1> HIDE DEF T
<1>9. QED
    BY <1>4, <1>7, <1>8, Retagged DEF Given

LEMMA DeleteChunks == ASSUME Given, NEW w \in Worker, Delete(w) PROVE ChunksKept
<1> DEFINE t == job[w].tag
<1>1. PICK f \in job[w].plan["del"] :
        /\ LET found == {c \in chunks : c.key = f.key} IN
             IF found = {} THEN chunks' = chunks ELSE \E c \in found : chunks' = chunks \ {c}
        /\ Carried(w, "del", {f})
    BY DEF Delete
<1>2. job[w].pc = "work" /\ cache' = cache
    BY DEF Delete, At
<1>3. /\ Doing = job[w] /\ Doing \in Job /\ f \in File
      /\ \A k : Held(k) = Tags(k)
      /\ \A k : Held(k)' = IF k = f.key THEN Tags(k) \ {t} ELSE Tags(k)
    <2>1. "del" \in Op /\ {f} \in SUBSET job[w].plan["del"]
        BY DEF Op
    <2>2. QED
        BY <1>1, <1>2, <2>1, HeldNext
<1>4. Tags(f.key) \subseteq {t} /\ Held(f.key)' = {}
    BY <1>3 DEF Given, PlanStands, Pending
<1>5. ASSUME NEW c \in chunks
      PROVE  /\ c.key \in Text[c.path] /\ c.body = c.key
             /\ c.tags = Tags(c.key) /\ c.tags # {}
             /\ \A d \in chunks : d.key = c.key => d = c
    BY <1>3 DEF Given, ChunksInv
<1>6. chunks' = {c \in chunks : c.key # f.key}
    <2>1. CASE \A c \in chunks : c.key # f.key
        <3>1. {c \in chunks : c.key = f.key} = {}
            BY <2>1
        <3>2. chunks' = chunks
            BY <1>1, <3>1
        <3>3. QED
            BY <2>1, <3>2
    <2>2. CASE \E c \in chunks : c.key = f.key
        <3>1. {c \in chunks : c.key = f.key} # {}
            BY <2>2
        <3>2. PICK c \in chunks : c.key = f.key /\ chunks' = chunks \ {c}
            BY <1>1, <3>1
        <3>3. QED
            BY <1>5, <3>2
    <2>3. QED
        BY <2>1, <2>2
<1>7. ChunksInv'
    <2>1. \A c \in chunks' : c.tags = Held(c.key)'
        BY <1>3, <1>5, <1>6
    <2>2. ASSUME NEW k \in Key, Held(k)' # {} PROVE \E c \in chunks' : c.key = k
        <3>1. k # f.key /\ Held(k) # {}
            BY <1>3, <1>4, <2>2
        <3>2. PICK c \in chunks : c.key = k
            BY <3>1 DEF Given, ChunksInv
        <3>3. QED
            BY <1>6, <3>1, <3>2
    <2>3. QED
        BY <1>5, <1>6, <2>1, <2>2 DEF ChunksInv
<1>8. ASSUME NEW s \in Tag, s # t PROVE Shown(s)' = Shown(s)
    <2>1. \A c \in chunks : s \in c.tags => c.key # f.key
        BY <1>4, <1>5, <1>8
    <2>2. {c \in chunks' : s \in c.tags} = {c \in chunks : s \in c.tags}
        BY <1>6, <2>1
    <2>3. QED
        BY <2>2 DEF Shown
<1>9. QED
    BY <1>3, <1>7, <1>8 DEF ChunksKept

\* The steps that leave the chunks alone leave what is held alone.
LEMMA OthersHold ==
    ASSUME Given, [Next]_vars,
           ~\E w \in Worker : Compute(w) \/ AddTag(w) \/ RemoveTag(w) \/ Delete(w)
    PROVE  ChunksInv' /\ \A t \in Tag : Shown(t)' = Shown(t)
<1> PICK w \in Worker : TRUE
    BY DEF Given, OneAtATime
<1>1. Worker = {w} /\ Doing = job[w] /\ Doing' = job'[w] /\ Doing \in Job
    BY Alone DEF Given
<1>2. Doing.pc \notin {"catalog", "cache"} => Doing.items = {}
    BY DEF Given, Agreement, PhaseInv
<1>3. \A v \in Worker : ~Fails(v) /\ ~Crash(v)
    BY DEF Fails, Crash, Given, OneAtATime
<1>4. CASE UNCHANGED <<cache, chunks>> /\ Doing.items = {} /\ Doing'.items = {}
    <2>1. \A k : Held(k) = Tags(k) /\ Held(k)' = Tags(k)
        BY <1>4 DEF Held, Tags, Marked, Entries
    <2>2. QED
        BY <1>4, <2>1, SameChunks DEF Given
<1>5. CASE /\ UNCHANGED <<cache, chunks>> /\ Doing'.items = Doing.items
           /\ Doing'.op = Doing.op /\ Doing'.tag = Doing.tag
    <2>1. \A k : Held(k)' = Held(k)
        BY <1>5 DEF Held, Marked, Adds
    <2>2. QED
        BY <1>5, <2>1, SameChunks DEF Given
<1>6. CASE \E t \in Tag, p \in Path : \E x \in Text[p] \cup {NoText} : Edit(t, p, x)
    BY <1>1, <1>5, <1>6 DEF Edit
<1>7. CASE \E t \in Tag, S \in {Path} \cup {{p} : p \in Path} : Begin(w, t, S)
    <2>1. Doing'.items = {}
        BY <1>1, <1>7 DEF Begin, Update, Given, Typed, IdleJob
    <2>2. UNCHANGED <<cache, chunks>> /\ Doing.pc = "idle"
        BY <1>1, <1>7 DEF Begin, At
    <2>3. QED
        BY <1>2, <1>4, <2>1, <2>2
<1>8. CASE Stamp(w)
    <2>1. Doing' = [Doing EXCEPT !.pc = "plan", !.at = clock + 1]
        BY <1>1, <1>8 DEF Stamp, Update, Given, Typed
    <2>2. Doing'.items = Doing.items /\ Doing'.op = Doing.op /\ Doing'.tag = Doing.tag
        BY <1>1, <2>1 DEF Job
    <2>3. QED
        BY <1>5, <1>8, <2>2 DEF Stamp
<1>9. CASE MakePlan(w) \/ NextBatch(w)
    <2>1. Doing.pc \in {"plan", "work"} /\ Doing'.items = Doing.items
        BY <1>2, <1>9, PlanLeaves, BatchLeaves DEF Given
    <2>2. UNCHANGED <<cache, chunks>>
        BY <1>9 DEF MakePlan, NextBatch
    <2>3. QED
        BY <1>2, <1>4, <2>1, <2>2
<1>10. CASE MarkCatalog(w)
    <2>1. PICK f : Doing' = [Doing EXCEPT !.left = @ \ {f},
                        !.pc = IF Doing.left = {f} THEN "cache" ELSE "catalog"]
        BY <1>1, <1>10 DEF MarkCatalog, Update, Given, Typed
    <2>2. Doing'.items = Doing.items /\ Doing'.op = Doing.op /\ Doing'.tag = Doing.tag
        BY <1>1, <2>1 DEF Job
    <2>3. QED
        BY <1>5, <1>10, <2>2 DEF MarkCatalog
<1>11. CASE MarkCache(w)
    <2>1. cache' = Marked(Doing, Doing.items)
        BY <1>11, MarkCacheAgrees DEF Given
    <2>2. chunks' = chunks
        BY <1>11 DEF MarkCache
    <2>3. Doing'.items = {}
        <3>1. Doing' = [Doing EXCEPT !.pc = "work", !.op = "compute", !.items = {}]
            BY <1>1, <1>11 DEF MarkCache, Update, Given, Typed
        <3>2. QED
            BY <1>1, <3>1 DEF Job
    <2>4. Marked(Doing, Doing.items)' = cache'
        BY <2>3 DEF Marked, Entries
    <2>5. \A k : Held(k)' = Held(k)
        BY <2>1, <2>4 DEF Held
    <2>6. QED
        BY <2>2, <2>5, SameChunks DEF Given
<1>12. CASE Finish(w) \/ Abort(w)
    <2>1. Doing' = IdleJob /\ Doing.pc = "work" /\ UNCHANGED <<cache, chunks>>
        BY <1>1, <1>12 DEF Finish, Abort, At, Update, Given, Typed
    <2>2. QED
        BY <1>2, <1>4, <2>1 DEF IdleJob
<1>13. CASE UNCHANGED vars
    <2>1. UNCHANGED <<cache, chunks>> /\ Doing' = Doing
        BY <1>13 DEF vars, Doing
    <2>2. QED
        BY <1>5, <2>1
<1>14. QED
    BY <1>1, <1>3, <1>6, <1>7, <1>8, <1>9, <1>10, <1>11, <1>12, <1>13 DEF Next

\* Every step keeps the chunks right, and what other branches are shown.
LEMMA StepChunks ==
    ASSUME Given, [Next]_vars
    PROVE  /\ ChunksInv'
           /\ \A t \in Tag : t # Doing.tag \/ Doing.pc = "idle" => Shown(t)' = Shown(t)
<1>1. CASE \E w \in Worker : Compute(w) \/ AddTag(w) \/ RemoveTag(w) \/ Delete(w)
    <2>1. PICK w \in Worker : Compute(w) \/ AddTag(w) \/ RemoveTag(w) \/ Delete(w)
        BY <1>1
    <2>2. Doing.pc = "work"
        BY <2>1, Alone DEF Given, Compute, AddTag, RemoveTag, Delete, At
    <2>3. ChunksKept
        BY <2>1, ComputeChunks, AddTagChunks, RemoveTagChunks, DeleteChunks
    <2>4. QED
        BY <2>2, <2>3 DEF ChunksKept
<1>2. CASE ~\E w \in Worker : Compute(w) \/ AddTag(w) \/ RemoveTag(w) \/ Delete(w)
    BY <1>2, OthersHold
<1>3. QED
    BY <1>1, <1>2

LEMMA InitChunks == OneAtATime /\ Init => ChunksInv /\ PlanStands
<1> SUFFICES ASSUME OneAtATime, Init PROVE ChunksInv /\ PlanStands
    OBVIOUS
<1> PICK w \in Worker : TRUE
    BY DEF OneAtATime
<1>1. Doing = IdleJob
    BY Alone DEF Init
<1>2. \A k : Held(k) = {}
    BY <1>1 DEF Init, Held, Marked, Entries, IdleJob
<1>3. PlanStands
    BY <1>1 DEF PlanStands, Pending, IdleJob, NoPlan, Op
<1>4. QED
    BY <1>2, <1>3 DEF Init, ChunksInv

-----------------------------------------------------------------------------
(* The theorems. *)

THEOREM Invariant == OneAtATime /\ SmallTree /\ OneChunk => (Spec => []Given)
<1>1. SUFFICES ASSUME OneAtATime, SmallTree, OneChunk PROVE Spec => []Given
    OBVIOUS
<1>2. Init => Given
    <2>1. Init => Stored
        BY RefreshAssumption, FS_EmptySet DEF Init, Stored, Time
    <2>2. QED
        BY <1>1, <2>1, InitInv, InitAgrees, InitChunks DEF Given
<1>3. Given /\ [Next]_vars => Given'
    <2>1. ASSUME Given, [Next]_vars PROVE Given'
        <3>1. Typed' /\ Stored' /\ Agreement' /\ PlanStands' /\ ChunksInv'
            BY <2>1, StepTyped, StepStored, StepAgrees, StepStands, StepChunks DEF Given
        <3>2. OneAtATime' /\ SmallTree' /\ OneChunk'
            BY <1>1 DEF OneAtATime, SmallTree, OneChunk
        <3>3. QED
            BY <3>1, <3>2 DEF Given
    <2>2. QED
        BY <2>1
<1>4. QED
    BY <1>2, <1>3, PTL DEF Spec

\* In a workspace of no more files than a batch holds, also what the catalog lists is
\* in the index, every file in its one chunk: however many batches the removals of a
\* plan take, none comes before an addition (batchRefreshIndexResults,
\* ChunkCodebaseIndex.update, markComplete). With more files it is not so.
THEOREM ListedIsStored == OneAtATime /\ SmallTree /\ OneChunk => (Spec => []StoredWhenListed)
<1>1. ASSUME Given PROVE StoredWhenListed
    <2>1. SUFFICES ASSUME NEW r \in catalog, ~Leaving(r), NEW i \in Piece
                   PROVE  \E c \in chunks : /\ c.key = r.key /\ c.body = r.key
                                            /\ c.piece = i /\ r.tag \in c.tags
        BY DEF StoredWhenListed
    <2> PICK w \in Worker : TRUE
        BY <1>1 DEF Given, OneAtATime
    <2>2. Doing = job[w] /\ Doing \in Job
        BY <1>1, Alone DEF Given
    <2>3. r.tag \in Tag /\ r.key \in Key /\ r.path \in Path /\ r.key \in Text[r.path]
        BY <1>1 DEF Given, Typed, Row, Agreement, TextsInv, Proper
    <2>4. <<r.key, r.tag>> \in Marked(Doing, Doing.items \ Doing.left)
        BY <1>1 DEF Given, Agreement, MarksInv, Listed
    <2>5. <<r.key, r.tag>> \in Marked(Doing, Doing.items)
        <3>1. CASE Adds(Doing)
            BY <2>4, <3>1 DEF Marked, Entries
        <3>2. CASE ~Adds(Doing)
            <4>1. <<r.key, r.tag>> \in cache
                BY <2>4, <3>2 DEF Marked
            <4>2. SUFFICES ASSUME NEW f \in Doing.items, f.key = r.key, Doing.tag = r.tag
                           PROVE  FALSE
                BY <3>2, <4>1 DEF Marked, Entries
            <4>3. f \in File /\ f.key \in Text[f.path]
                BY <1>1, <2>2 DEF Given, Agreement, FilesInv, Proper, Job
            <4>4. f.path = r.path
                BY <1>1, <2>3, <4>2, <4>3, KeyTellsPath DEF Given, File
            <4>5. f = [path |-> r.path, key |-> r.key]
                BY <4>2, <4>3, <4>4 DEF File
            <4>6. Marking(w)
                BY <1>1, <2>2, <4>2 DEF Given, Agreement, PhaseInv, Marking, At
            <4>7. Doing.op \in {"removeTag", "del"}
                BY <2>2, <3>2 DEF Job, Op, Adds
            <4>8. QED
                BY <2>1, <2>2, <4>2, <4>5, <4>6, <4>7 DEF Leaving
        <3>3. QED
            BY <3>1, <3>2
    <2>6. r.tag \in Held(r.key)
        BY <2>3, <2>5 DEF Held
    <2>7. PICK c \in chunks : c.key = r.key
        BY <1>1, <2>3, <2>6 DEF Given, ChunksInv
    <2>8. c.body = c.key /\ c.tags = Held(c.key) /\ c.piece = i
        BY <1>1 DEF Given, ChunksInv, OneChunk, Stored, Chunk
    <2>9. QED
        BY <2>6, <2>7, <2>8
<1>2. QED
    BY <1>1, Invariant, PTL

\* And what a refresh of one branch does is not seen on another
\* (ChunkCodebaseIndex.update).
THEOREM BranchesApart == OneAtATime /\ SmallTree /\ OneChunk => (Spec => OtherBranchesKept)
<1> DEFINE Kept == \A t \in Tag : (\A w \in Worker : At(w, "idle") \/ job[w].tag # t)
                                     => Shown(t)' = Shown(t)
<1>1. ASSUME Given, [Next]_vars PROVE Kept
    <2> PICK w \in Worker : TRUE
        BY <1>1 DEF Given, OneAtATime
    <2>1. Doing = job[w]
        BY <1>1, Alone DEF Given
    <2>2. QED
        BY <1>1, <2>1, StepChunks DEF At
<1>2. Given /\ [Next]_vars => [Kept]_vars
    BY <1>1
<1>3. QED
    BY <1>2, Invariant, PTL DEF Spec, OtherBranchesKept

=============================================================================
