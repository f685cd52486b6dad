-------------------------- MODULE Autocomplete_proofs --------------------------
(***************************************************************************)
(* Theorems about Autocomplete for any requests, texts, contexts, meanings *)
(* of a pattern and size of the cache: the life of requests uses the       *)
(* generators as CompletionReuse says, so what is proved of those holds    *)
(* here; and what the cache offers is left of a completion given before.   *)
(***************************************************************************)
EXTENDS Autocomplete, CompletionReuse_proofs

\* v is the completion that a request nobody aborted got out of the stream, for prefix k.
Given(k, v) ==
    \E q \in Request \ aborted :
        gen[q] # None /\ answer[q] = v /\ v # <<>> /\ prefix[q] = k

\* c is what is left of v, given for k, after what p has more than k.
Left(p, k, v, c) ==
    /\ Like(p, k)
    /\ IF Len(k) <= Len(p) THEN v = From(p, Len(k)) \o c ELSE c = Slice(v, Len(p) - Len(k))

\* Each row of the cache was given, and so was what waits to be put there.
RowsInv == \A i \in DOMAIN cache : Given(cache[i].key, cache[i].value)
SavingInv == \A r \in saving : Given(prefix[r], answer[r])

\* Only a settled request has an answer; only a request that is debounced has a timer.
SettledInv == \A r \in Request : answer[r] # <<>> => At(r, "settled")
TimerInv == timer # None => At(timer, "debouncing")

OfferedInv == \A r \in Request : answer[r] # <<>> /\ gen[r] = None =>
    \E k \in Seq(Char), v \in Seq(Char) : Given(k, v) /\ Left(before[r], k, v, answer[r])

AInv ==
    /\ IInv /\ AllTypesOK
    /\ RowsInv /\ SavingInv /\ SettledInv /\ TimerInv /\ OfferedInv

-----------------------------------------------------------------------------
(* The generators. *)

LEMMA ReuseStep == ASSUME [Next]_vars PROVE [ReuseNext]_reuseVars
<1>1. ASSUME NEW r \in Request, Provide(r) PROVE [ReuseNext]_reuseVars
  <2>1. CASE StartStream(r)
    BY <2>1 DEF StartStream, ReuseNext
  <2>2. CASE Debounce(r) \/ ByHand(r) \/ Refuse(r) \/ TimerFires(r)
              \/ LookUp(r) \/ Save(r) \/ Judge(r)
    BY <2>2 DEF Debounce, ByHand, Refuse, TimerFires, LookUp, Save, Judge
  <2>3. QED
    BY <1>1, <2>1, <2>2 DEF Provide
<1>2. ASSUME NEW r \in Request, Read(r) PROVE ReuseNext
  BY <1>2 DEF Read, ReuseNext
<1>3. ASSUME NEW g \in Request, Model(g) PROVE ReuseNext
  BY <1>3 DEF Model, ReuseNext
<1>4. ASSUME NEW gone \in SUBSET Request, GiveUp(gone) PROVE ReuseNext
  BY <1>4 DEF GiveUp, ReuseNext
<1>5. CASE UNCHANGED vars
  BY <1>5 DEF vars
<1>6. QED
  BY <1>1, <1>2, <1>3, <1>4, <1>5 DEF Next

\* The provider adds nothing to what may happen to the generators, so the theorems about
\* CompletionReuse hold of the whole life of the requests.
THEOREM UsesGenerators == Spec => ReuseSpec
<1>1. Init => ReuseInit
  BY DEF Init
<1>2. [Next]_vars => [ReuseNext]_reuseVars
  BY ReuseStep
<1>3. QED
  BY <1>1, <1>2, PTL DEF Spec, ReuseSpec

-----------------------------------------------------------------------------
(* Cutting and pasting. *)

LEMMA FromProperties ==
    ASSUME NEW S, NEW s \in Seq(S), NEW n \in Nat
    PROVE  /\ From(s, n) \in Seq(S)
           /\ n <= Len(s) => /\ Len(From(s, n)) = Len(s) - n
                             /\ \A i \in 1 .. Len(s) - n : From(s, n)[i] = s[n + i]
BY SubSeqProperties DEF From

LEMMA WithoutProperties ==
    ASSUME NEW S, NEW s \in Seq(S), NEW i \in 1 .. Len(s)
    PROVE  LET w == SubSeq(s, 1, i - 1) \o SubSeq(s, i + 1, Len(s))
           IN  w \in Seq(S) /\ \A j \in DOMAIN w : \E k \in DOMAIN s : w[j] = s[k]
<1>. DEFINE a == SubSeq(s, 1, i - 1)
            b == SubSeq(s, i + 1, Len(s))
<1>1. /\ a \in Seq(S) /\ Len(a) = i - 1 /\ \A j \in 1 .. i - 1 : a[j] = s[j]
      /\ b \in Seq(S) /\ Len(b) = Len(s) - i /\ \A j \in 1 .. Len(s) - i : b[j] = s[i + j]
  OBVIOUS
<1>. HIDE DEF a, b
<1>2. /\ a \o b \in Seq(S) /\ Len(a \o b) = Len(a) + Len(b)
      /\ \A j \in 1 .. Len(a) + Len(b) :
            (a \o b)[j] = IF j <= Len(a) THEN a[j] ELSE b[j - Len(a)]
  BY <1>1, ConcatProperties
<1>3. ASSUME NEW j \in DOMAIN (a \o b) PROVE \E k \in DOMAIN s : (a \o b)[j] = s[k]
  <2>1. j \in 1 .. (i - 1) + (Len(s) - i)
    BY <1>1, <1>2
  <2>2. CASE j <= i - 1
    BY <1>1, <1>2, <2>1, <2>2
  <2>3. CASE ~(j <= i - 1)
    <3>1. j - (i - 1) \in 1 .. Len(s) - i /\ j + 1 \in DOMAIN s
      BY <2>1, <2>3
    <3>2. (a \o b)[j] = s[i + (j - (i - 1))]
      BY <1>1, <1>2, <2>1, <2>3, <3>1
    <3>3. i + (j - (i - 1)) = j + 1
      BY <2>1
    <3>4. QED
      BY <3>1, <3>2, <3>3
  <2>4. QED
    BY <2>2, <2>3
<1>4. QED
  BY <1>2, <1>3 DEF a, b

\* What starts with d is d and the rest.
LEMMA CutAndPaste ==
    ASSUME NEW v \in Seq(Char), NEW d \in Seq(Char), StartsWith(v, d)
    PROVE  v = d \o From(v, Len(d))
<1>1. PICK D \in Nat : D = Len(d)
  OBVIOUS
<1>2. PICK V \in Nat : V = Len(v)
  OBVIOUS
<1>3. D <= V /\ \A i \in 1 .. D : v[i] = d[i]
  BY <1>1, <1>2 DEF StartsWith
<1>4. PICK f \in Seq(Char) : f = From(v, D)
  BY FromProperties
<1>5. Len(f) = V - D /\ \A i \in 1 .. V - D : f[i] = v[D + i]
  <2>1. \A n \in Nat : n <= V => /\ Len(From(v, n)) = V - n
                                 /\ \A i \in 1 .. V - n : From(v, n)[i] = v[n + i]
    BY <1>2, FromProperties
  <2>2. QED
    BY <1>3, <1>4, <2>1
<1>6. /\ d \o f \in Seq(Char) /\ Len(d \o f) = D + (V - D)
      /\ \A i \in 1 .. D + (V - D) : (d \o f)[i] = IF i <= D THEN d[i] ELSE f[i - D]
  <2>1. /\ d \o f \in Seq(Char) /\ Len(d \o f) = D + Len(f)
        /\ \A i \in 1 .. D + Len(f) : (d \o f)[i] = IF i <= D THEN d[i] ELSE f[i - D]
    BY <1>1, ConcatProperties
  <2>2. QED
    BY <1>5, <2>1
<1>7. ASSUME NEW i \in 1 .. V PROVE (d \o f)[i] = v[i]
  <2>1. CASE i <= D
    BY <1>3, <1>6, <2>1
  <2>2. CASE ~(i <= D)
    <3>1. i - D \in 1 .. V - D /\ D + (i - D) = i
      BY <2>2
    <3>2. f[i - D] = v[i]
      BY <1>5, <3>1
    <3>3. QED
      BY <1>6, <2>2, <3>2
  <2>3. QED
    BY <2>1, <2>2
<1>8. v = d \o f
  BY <1>2, <1>6, <1>7, SeqEqual
<1>9. QED
  BY <1>1, <1>4, <1>8

LEMMA SliceProperties ==
    ASSUME NEW v \in Seq(Char), NEW n \in Int
    PROVE  Slice(v, n) \in Seq(Char) /\ (n >= 0 => Slice(v, n) = From(v, n))
<1>1. PICK V \in Nat : V = Len(v)
  OBVIOUS
<1>2. PICK m \in Nat : Slice(v, n) = From(v, m) /\ (n >= 0 => m = n)
  <2>1. CASE n >= 0
    BY <2>1 DEF Slice
  <2>2. CASE n < 0 /\ V + n >= 0
    BY <1>1, <2>2 DEF Slice
  <2>3. CASE n < 0 /\ ~(V + n >= 0)
    BY <1>1, <2>3 DEF Slice
  <2>4. QED
    BY <2>1, <2>2, <2>3
<1>3. QED
  BY <1>2, FromProperties

LEMMA ProcessedText ==
    ASSUME NEW t \in Seq(Char) PROVE Processed(t) \subseteq Seq(Char)
<1>1. ASSUME NEW i \in 1 .. Len(t), NEW j \in 0 .. Len(t) PROVE SubSeq(t, i, j) \in Seq(Char)
  <2>1. i \in Int /\ j \in Int /\ \A n \in i .. j : t[n] \in Char
    OBVIOUS
  <2>2. QED
    BY <2>1, SubSeqProperties
<1>2. <<Newline>> \in Seq(Char)
  BY ProviderAssumption
<1>3. \A u \in Seq(Char) : <<Newline>> \o u \in Seq(Char)
  BY <1>2, ConcatProperties
<1>4. Kept(t) \subseteq Seq(Char) /\ Indented(t) \subseteq Seq(Char)
  <2>1. Kept(t) \subseteq Seq(Char)
    <3>1. SUFFICES ASSUME NEW u \in Kept(t) PROVE u \in Seq(Char)
      OBVIOUS
    <3>2. PICK i \in 1 .. Len(t), j \in 0 .. Len(t) : u = SubSeq(t, i, j)
      BY DEF Kept
    <3>3. QED
      BY <1>1, <3>2, Zenon
  <2>2. QED
    BY <2>1 DEF Indented
<1>5. {<<Newline>> \o u : u \in Indented(t)} \subseteq Seq(Char)
  BY <1>3, <1>4
<1>6. QED
  BY <1>4, <1>5 DEF Processed

-----------------------------------------------------------------------------
(* The cache. *)

\* What get finds is left of a row's completion.
LEMMA CachedLeft ==
    ASSUME AllTypesOK, NEW p \in Seq(Char), NEW k \in Longest(p)
    PROVE  /\ Cached(p, k) \in Seq(Char)
           /\ Cached(p, k) # <<>> =>
                 \E i \in DOMAIN cache :
                    /\ cache[i].key = k /\ cache[i].key \in Seq(Char)
                    /\ cache[i].value \in Seq(Char)
                    /\ Left(p, k, cache[i].value, Cached(p, k))
<1>1. k \in Keys /\ Like(p, k)
  BY DEF Longest, Matching
<1>2. RowOf(k) \in DOMAIN cache /\ cache[RowOf(k)].key = k
  BY <1>1 DEF Keys, RowOf
<1>3. PICK e \in Entry : e = cache[RowOf(k)]
  BY <1>2 DEF AllTypesOK
<1>4. k \in Seq(Char) /\ e.value \in Seq(Char) /\ e.key = k
  BY <1>2, <1>3 DEF Entry
<1>5. PICK v \in Seq(Char) : v = e.value
  BY <1>4
<1>6. PICK P \in Nat, K \in Nat : P = Len(p) /\ K = Len(k)
  BY <1>4, LenProperties
<1>7. Cached(p, k) = IF StartsWith(v, From(p, K)) THEN Slice(v, P - K) ELSE <<>>
  BY <1>3, <1>5, <1>6 DEF Cached, Valid
<1>8. Slice(v, P - K) \in Seq(Char) /\ (P - K >= 0 => Slice(v, P - K) = From(v, P - K))
  <2>1. PICK n \in Int : n = P - K
    OBVIOUS
  <2>2. Slice(v, n) \in Seq(Char) /\ (n >= 0 => Slice(v, n) = From(v, n))
    BY SliceProperties
  <2>3. QED
    BY <2>1, <2>2
<1>9. Cached(p, k) \in Seq(Char)
  BY <1>7, <1>8
<1>10. ASSUME Cached(p, k) # <<>> PROVE Left(p, k, v, Cached(p, k))
  <2>1. StartsWith(v, From(p, K)) /\ Cached(p, k) = Slice(v, P - K)
    BY <1>7, <1>10
  <2>2. CASE K <= P
    <3>1. From(p, K) \in Seq(Char) /\ Len(From(p, K)) = P - K
      BY <1>6, <2>2, FromProperties
    <3>2. v = From(p, K) \o From(v, Len(From(p, K)))
      BY <2>1, <3>1, CutAndPaste
    <3>3. Cached(p, k) = From(v, P - K)
      <4>1. P - K >= 0
        BY <2>2
      <4>2. QED
        BY <1>8, <2>1, <4>1
    <3>4. v = From(p, K) \o Cached(p, k)
      BY <3>1, <3>2, <3>3
    <3>5. QED
      BY <1>1, <1>6, <2>2, <3>4 DEF Left
  <2>3. CASE ~(K <= P)
    BY <1>1, <1>6, <2>1, <2>3 DEF Left
  <2>4. QED
    BY <2>2, <2>3
<1>11. QED
  BY <1>2, <1>3, <1>4, <1>5, <1>9, <1>10

\* The rows after a hit are rows there were.
LEMMA TouchedRows ==
    ASSUME AllTypesOK, NEW p
    PROVE  /\ Touched(p) \in Seq(Entry)
           /\ \A j \in DOMAIN Touched(p) : \E k \in DOMAIN cache : Touched(p)[j] = cache[k]
<1>1. cache \in Seq(Entry)
  BY DEF AllTypesOK
<1>2. CASE p \in Keys
  <2>1. RowOf(p) \in 1 .. Len(cache)
    BY <1>1, <1>2 DEF Keys, RowOf
  <2>2. /\ Without(RowOf(p)) \in Seq(Entry)
        /\ \A j \in DOMAIN Without(RowOf(p)) :
              \E k \in DOMAIN cache : Without(RowOf(p))[j] = cache[k]
    BY <1>1, <2>1, WithoutProperties DEF Without
  <2>3. PICK w \in Seq(Entry) : w = Without(RowOf(p))
    BY <2>2
  <2>4. PICK e \in Entry : e = cache[RowOf(p)]
    BY <1>1, <2>1
  <2>5. Touched(p) = Append(w, e)
    BY <1>2, <2>3, <2>4 DEF Touched
  <2>6. /\ Append(w, e) \in Seq(Entry)
        /\ \A j \in DOMAIN Append(w, e) : Append(w, e)[j] = e \/ (j \in DOMAIN w /\ Append(w, e)[j] = w[j])
    OBVIOUS
  <2>7. \E k \in DOMAIN cache : e = cache[k]
    BY <1>1, <2>1, <2>4
  <2>8. QED
    BY <2>2, <2>3, <2>5, <2>6, <2>7
<1>3. CASE p \notin Keys
  BY <1>1, <1>3 DEF Touched
<1>4. QED
  BY <1>2, <1>3

\* The rows after put are rows there were, and the new one.
LEMMA StoredRows ==
    ASSUME AllTypesOK, NEW p \in Seq(Char), NEW v \in Seq(Char)
    PROVE  /\ Stored(p, v) \in Seq(Entry)
           /\ \A j \in DOMAIN Stored(p, v) :
                 \/ Stored(p, v)[j] = [key |-> p, value |-> v]
                 \/ \E k \in DOMAIN cache : Stored(p, v)[j] = cache[k]
<1>1. cache \in Seq(Entry)
  BY DEF AllTypesOK
<1>2. PICK e \in Entry : e = [key |-> p, value |-> v]
  BY DEF Entry
<1>3. ASSUME NEW w \in Seq(Entry), Stored(p, v) = Append(w, e),
             \A j \in DOMAIN w : \E k \in DOMAIN cache : w[j] = cache[k]
      PROVE  /\ Stored(p, v) \in Seq(Entry)
             /\ \A j \in DOMAIN Stored(p, v) :
                   \/ Stored(p, v)[j] = e
                   \/ \E k \in DOMAIN cache : Stored(p, v)[j] = cache[k]
  <2>1. /\ Append(w, e) \in Seq(Entry)
        /\ \A j \in DOMAIN Append(w, e) : Append(w, e)[j] = e \/ (j \in DOMAIN w /\ Append(w, e)[j] = w[j])
    OBVIOUS
  <2>2. QED
    BY <1>3, <2>1
<1>4. CASE p \in Keys
  <2>1. RowOf(p) \in 1 .. Len(cache)
    BY <1>1, <1>4 DEF Keys, RowOf
  <2>2. /\ Without(RowOf(p)) \in Seq(Entry)
        /\ \A j \in DOMAIN Without(RowOf(p)) :
              \E k \in DOMAIN cache : Without(RowOf(p))[j] = cache[k]
    BY <1>1, <2>1, WithoutProperties DEF Without
  <2>3. Stored(p, v) = Append(Without(RowOf(p)), e)
    BY <1>2, <1>4 DEF Stored
  <2>4. QED
    BY <1>2, <1>3, <2>2, <2>3
<1>5. CASE p \notin Keys /\ Len(cache) >= Capacity
  <2>1. cache # <<>>
    <3>1. Len(cache) > 0
      BY <1>1, <1>5, ProviderAssumption, LenProperties
    <3>2. QED
      BY <3>1
  <2>2. /\ Tail(cache) \in Seq(Entry)
        /\ \A j \in DOMAIN Tail(cache) : Tail(cache)[j] = cache[j + 1] /\ j + 1 \in DOMAIN cache
    BY <1>1, <2>1, HeadTailProperties
  <2>3. Stored(p, v) = Append(Tail(cache), e)
    BY <1>2, <1>5 DEF Stored
  <2>4. \A j \in DOMAIN Tail(cache) : \E k \in DOMAIN cache : Tail(cache)[j] = cache[k]
    BY <2>2
  <2>5. QED
    BY <1>2, <1>3, <2>2, <2>3, <2>4
<1>6. CASE p \notin Keys /\ ~(Len(cache) >= Capacity)
  <2>1. Stored(p, v) = Append(cache, e)
    BY <1>2, <1>6 DEF Stored
  <2>2. QED
    BY <1>1, <1>2, <1>3, <2>1
<1>7. QED
  BY <1>4, <1>5, <1>6

-----------------------------------------------------------------------------
(* Type correctness. *)

LEMMA AllTypesStep ==
    ASSUME IInv, AllTypesOK, [Next]_vars PROVE AllTypesOK'
<1>. USE ReuseAssumption, ProviderAssumption
<1>1. TypeOK'
  <2>1. IInv'
    BY ReuseStep, StepInvariant
  <2>2. QED
    BY <2>1 DEF IInv
<1>2. ASSUME NEW r \in Request, Provide(r) PROVE AllTypesOK'
  <2>1. CASE Debounce(r)
    BY <1>1, <2>1 DEF Debounce, AllTypesOK, Stage
  <2>2. CASE ByHand(r) \/ Refuse(r) \/ StartStream(r)
    BY <1>1, <2>2 DEF ByHand, Refuse, StartStream, Goto, AllTypesOK, Stage
  <2>3. CASE TimerFires(r)
    BY <1>1, <2>3 DEF TimerFires, Goto, AllTypesOK, Stage
  <2>4. CASE LookUp(r)
    <3>1. before[r] \in Seq(Char)
      BY DEF AllTypesOK
    <3>2. Touched(before[r]) \in Seq(Entry)
      BY TouchedRows
    <3>3. \A k \in Longest(before[r]) : Cached(before[r], k) \in Seq(Char)
      BY <3>1, CachedLeft
    <3>4. answer' \in [Request -> Seq(Char)] /\ cache' \in Seq(Entry)
      <4>1. CASE UNCHANGED <<answer, cache>>
        BY <4>1 DEF AllTypesOK
      <4>2. CASE \E k \in Longest(before[r]) :
                    /\ answer' = [answer EXCEPT ![r] = Cached(before[r], k)]
                    /\ cache' = IF Valid(before[r], k) THEN Touched(before[r]) ELSE cache
        <5>1. PICK k \in Longest(before[r]) :
                    /\ answer' = [answer EXCEPT ![r] = Cached(before[r], k)]
                    /\ cache' = IF Valid(before[r], k) THEN Touched(before[r]) ELSE cache
          BY <4>2
        <5>2. PICK v \in Seq(Char) : v = Cached(before[r], k)
          BY <3>3
        <5>3. answer' \in [Request -> Seq(Char)]
          BY <5>1, <5>2 DEF AllTypesOK
        <5>4. cache' \in Seq(Entry)
          BY <3>2, <5>1 DEF AllTypesOK
        <5>5. QED
          BY <5>3, <5>4
      <4>3. QED
        BY <2>4, <4>1, <4>2 DEF LookUp
    <3>5. stage' \in [Request -> Stage] /\ UNCHANGED <<before, latest, timer, saving>>
      BY <2>4 DEF LookUp, Goto, AllTypesOK, Stage
    <3>6. QED
      BY <1>1, <3>4, <3>5 DEF AllTypesOK
  <2>5. CASE Save(r)
    <3>1. Stored(prefix[r], answer[r]) \in Seq(Entry)
      BY StoredRows DEF AllTypesOK, TypeOK
    <3>2. QED
      BY <1>1, <2>5, <3>1 DEF Save, AllTypesOK
  <2>6. CASE Judge(r)
    <3>1. Processed(out[r]) \subseteq Seq(Char)
      BY ProcessedText DEF AllTypesOK, TypeOK
    <3>2. answer' \in [Request -> Seq(Char)] /\ saving' \subseteq Request
      BY <2>6, <3>1 DEF Judge, AllTypesOK
    <3>3. QED
      BY <1>1, <2>6, <3>2 DEF Judge, Goto, AllTypesOK, Stage
  <2>7. QED
    BY <1>2, <2>1, <2>2, <2>3, <2>4, <2>5, <2>6 DEF Provide
<1>3. CASE UNCHANGED providerVars
  BY <1>1, <1>3 DEF providerVars, AllTypesOK
<1>4. QED
  BY <1>2, <1>3 DEF Next, Read, Model, GiveUp, vars

-----------------------------------------------------------------------------
(* The stages. *)

\* A request has its answer when it is settled, and leaves no stage behind it.
LEMMA StagesStep ==
    ASSUME AInv, [Next]_vars PROVE SettledInv' /\ TimerInv'
<1>. USE ReuseAssumption DEF At, Goto, SettledInv, TimerInv
<1>1. /\ stage \in [Request -> Stage] /\ answer \in [Request -> Seq(Char)]
      /\ timer \in Request \cup {None} /\ SettledInv /\ TimerInv
  BY DEF AInv, AllTypesOK
<1>2. ASSUME NEW r \in Request, Provide(r) PROVE SettledInv' /\ TimerInv'
  <2>1. CASE Debounce(r)
    BY <1>1, <2>1 DEF Debounce
  <2>2. CASE ByHand(r) \/ Refuse(r) \/ StartStream(r)
    BY <1>1, <2>2 DEF ByHand, Refuse, StartStream
  <2>3. CASE TimerFires(r)
    BY <1>1, <2>3 DEF TimerFires
  <2>4. CASE LookUp(r)
    <3>1. CASE answer' = answer /\ stage' = [stage EXCEPT ![r] = "missed"]
      BY <1>1, <2>4, <3>1 DEF LookUp
    <3>2. CASE \E k \in Longest(before[r]) :
                  /\ stage' = [stage EXCEPT ![r] = IF Cached(before[r], k) = <<>>
                                                   THEN "missed" ELSE "settled"]
                  /\ answer' = [answer EXCEPT ![r] = Cached(before[r], k)]
      BY <1>1, <2>4, <3>2 DEF LookUp
    <3>3. QED
      BY <2>4, <3>1, <3>2 DEF LookUp
  <2>5. CASE Save(r)
    BY <1>1, <2>5 DEF Save
  <2>6. CASE Judge(r)
    BY <1>1, <2>6 DEF Judge
  <2>7. QED
    BY <1>2, <2>1, <2>2, <2>3, <2>4, <2>5, <2>6 DEF Provide
<1>3. CASE UNCHANGED providerVars
  BY <1>1, <1>3 DEF providerVars
<1>4. QED
  BY <1>2, <1>3 DEF Next, Read, Model, GiveUp, vars

-----------------------------------------------------------------------------
(* What was given. *)

\* A request that has a generator keeps one; texts before the cursor do not change.
LEMMA GenKept ==
    ASSUME AInv, [Next]_vars
    PROVE  /\ prefix' = prefix /\ before' = before
           /\ \A q \in Request : gen[q] # None => gen'[q] # None
<1>. USE ReuseAssumption
<1>1. [ReuseNext]_reuseVars /\ TypeOK /\ TypeOK'
  BY ReuseStep, AllTypesStep DEF AInv, AllTypesOK
<1>2. prefix' = prefix
  BY <1>1 DEF ReuseNext, Begin, Take, Wait, Leave, EndOfStream, Push, SourceEnds, Abort,
              reuseVars, readerVars
<1>3. before' = before
  BY DEF Next, Provide, Debounce, ByHand, Refuse, TimerFires, LookUp, Save, StartStream,
         Judge, Read, Model, GiveUp, providerVars, vars
<1>4. ASSUME NEW q \in Request, gen[q] # None PROVE gen'[q] # None
  <2>1. CASE gen' = gen
    BY <1>4, <2>1
  <2>2. CASE \E r \in Request : Begin(r)
    <3>1. PICK r \in Request : Begin(r)
      BY <2>2
    <3>2. \/ current # None /\ gen' = [gen EXCEPT ![r] = current]
          \/ gen' = [gen EXCEPT ![r] = r]
      BY <3>1 DEF Begin, ShouldReuse
    <3>3. QED
      BY <1>1, <1>4, <3>2 DEF TypeOK
  <2>3. QED
    BY <1>1, <2>1, <2>2 DEF ReuseNext, Take, Wait, Leave, EndOfStream, Push, SourceEnds,
                            Abort, reuseVars, readerVars
<1>5. QED
  BY <1>2, <1>3, <1>4

\* A request with an answer keeps it, and nobody aborts it any more.
LEMMA AnswerKept ==
    ASSUME AInv, [Next]_vars, NEW q \in Request, answer[q] # <<>>
    PROVE  answer'[q] = answer[q] /\ (q \notin aborted => q \notin aborted')
<1>1. stage[q] = "settled" /\ answer \in [Request -> Seq(Char)]
  BY DEF AInv, AllTypesOK, SettledInv, At
<1>2. ASSUME NEW r \in Request, Provide(r)
      PROVE  answer'[q] = answer[q] /\ aborted' = aborted
  <2>1. CASE LookUp(r) \/ Judge(r)
    BY <1>1, <2>1 DEF LookUp, Judge, At, reuseVars
  <2>2. CASE Debounce(r) \/ ByHand(r) \/ Refuse(r) \/ TimerFires(r) \/ Save(r) \/ StartStream(r)
    BY <2>2 DEF Debounce, ByHand, Refuse, TimerFires, Save, StartStream, Begin, reuseVars
  <2>3. QED
    BY <1>2, <2>1, <2>2 DEF Provide
<1>3. ASSUME NEW r \in Request, Read(r) \/ Model(r)
      PROVE  answer' = answer /\ aborted' = aborted
  BY <1>3 DEF Read, Model, Take, Wait, Leave, EndOfStream, Push, SourceEnds, providerVars
<1>4. ASSUME NEW gone \in SUBSET Request, GiveUp(gone)
      PROVE  answer' = answer /\ aborted' = aborted \cup gone /\ q \notin gone
  BY <1>1, <1>4 DEF GiveUp, Abort, providerVars
<1>5. CASE UNCHANGED vars
  BY <1>5 DEF vars, reuseVars, providerVars
<1>6. QED
  BY <1>2, <1>3, <1>4, <1>5 DEF Next

LEMMA GivenStays ==
    ASSUME AInv, [Next]_vars, NEW k, NEW v, Given(k, v) PROVE Given(k, v)'
<1>1. PICK q \in Request \ aborted :
          gen[q] # None /\ answer[q] = v /\ v # <<>> /\ prefix[q] = k
  BY DEF Given
<1>2. /\ gen'[q] # None /\ answer'[q] = v /\ prefix'[q] = k /\ q \notin aborted'
  BY <1>1, GenKept, AnswerKept
<1>3. QED
  BY <1>1, <1>2 DEF Given

\* What is put into the cache was given, so what is found there was too.
LEMMA CacheStep ==
    ASSUME AInv, [Next]_vars PROVE RowsInv' /\ SavingInv' /\ OfferedInv'
<1>. USE ReuseAssumption
<1>1. IInv /\ AllTypesOK /\ TypeOK /\ AllTypesOK' /\ TypeOK'
  BY AllTypesStep DEF AInv, AllTypesOK
<1>2. prefix' = prefix /\ before' = before /\ \A q \in Request : gen[q] # None => gen'[q] # None
  BY GenKept
<1>3. \A k, v : Given(k, v) => Given(k, v)'
  BY GivenStays
<1>4. \A i \in DOMAIN cache : \A e : e = cache[i] => Given(e.key, e.value)'
  <2>1. SUFFICES ASSUME NEW i \in DOMAIN cache, NEW e, e = cache[i]
                 PROVE  Given(e.key, e.value)'
    OBVIOUS
  <2>2. Given(e.key, e.value)
    BY <2>1 DEF AInv, RowsInv
  <2>3. PICK k, v : k = e.key /\ v = e.value
    OBVIOUS
  <2>4. Given(k, v)'
    BY <1>3, <2>2, <2>3
  <2>5. QED
    BY <2>3, <2>4 DEF Given
<1>5. ASSUME NEW q \in Request, answer'[q] = answer[q], answer[q] # <<>>, gen'[q] = None
      PROVE  \E k \in Seq(Char), v \in Seq(Char) :
                Given(k, v)' /\ Left(before[q], k, v, answer'[q])
  <2>1. gen[q] = None
    BY <1>2, <1>5
  <2>2. PICK k \in Seq(Char), v \in Seq(Char) :
             Given(k, v) /\ Left(before[q], k, v, answer[q])
    BY <1>5, <2>1 DEF AInv, OfferedInv
  <2>3. QED
    BY <1>3, <1>5, <2>2
<1>6. ASSUME \A j \in DOMAIN cache' : \E i \in DOMAIN cache : cache'[j] = cache[i]
      PROVE  RowsInv'
  BY <1>4, <1>6 DEF RowsInv, Given
<1>7. ASSUME NEW r \in saving, answer'[r] = answer[r]
      PROVE  Given(prefix[r], answer[r])'
  <2>1. PICK k, v : k = prefix[r] /\ v = answer[r]
    OBVIOUS
  <2>2. Given(k, v)'
    BY <1>3, <2>1 DEF AInv, SavingInv
  <2>3. QED
    BY <1>2, <1>7, <2>1, <2>2 DEF Given
<1>8. ASSUME \A q \in Request : answer'[q] # <<>> /\ gen'[q] = None =>
                \E k \in Seq(Char), v \in Seq(Char) :
                   Given(k, v)' /\ Left(before[q], k, v, answer'[q])
      PROVE  OfferedInv'
  BY <1>2, <1>8 DEF OfferedInv
<1>9. CASE UNCHANGED <<answer, saving, cache>>
  <2>1. RowsInv'
    BY <1>6, <1>9
  <2>2. SavingInv'
    BY <1>7, <1>9 DEF SavingInv
  <2>3. OfferedInv'
    BY <1>5, <1>8, <1>9
  <2>4. QED
    BY <2>1, <2>2, <2>3
<1>10. ASSUME NEW r \in Request, LookUp(r) PROVE RowsInv' /\ SavingInv' /\ OfferedInv'
  <2>1. CASE UNCHANGED <<answer, cache>>
    BY <1>9, <1>10, <2>1 DEF LookUp
  <2>2. CASE \E k \in Longest(before[r]) :
                /\ answer' = [answer EXCEPT ![r] = Cached(before[r], k)]
                /\ cache' = IF Valid(before[r], k) THEN Touched(before[r]) ELSE cache
    <3>1. PICK k \in Longest(before[r]) :
                /\ answer' = [answer EXCEPT ![r] = Cached(before[r], k)]
                /\ cache' = IF Valid(before[r], k) THEN Touched(before[r]) ELSE cache
      BY <2>2
    <3>2. RowsInv'
      BY <1>1, <1>6, <3>1, TouchedRows
    <3>3. answer[r] = <<>> /\ saving' = saving
      BY <1>1, <1>10 DEF LookUp, At, AInv, SettledInv
    <3>4. r \notin saving
      BY <3>3 DEF AInv, SavingInv, Given
    <3>5. SavingInv'
      BY <1>1, <1>7, <3>1, <3>3, <3>4 DEF AllTypesOK, SavingInv
    <3>6. ASSUME NEW q \in Request, answer'[q] # <<>>, gen'[q] = None
          PROVE  \E l \in Seq(Char), v \in Seq(Char) :
                    Given(l, v)' /\ Left(before[q], l, v, answer'[q])
      <4>1. CASE q # r
        BY <1>1, <1>5, <3>1, <3>6, <4>1 DEF AllTypesOK
      <4>2. CASE q = r
        <5>1. answer'[r] = Cached(before[r], k) /\ Cached(before[r], k) # <<>>
          BY <1>1, <3>1, <3>6, <4>2 DEF AllTypesOK
        <5>2. before[r] \in Seq(Char)
          BY <1>1 DEF AllTypesOK
        <5>3. PICK i \in DOMAIN cache :
                 /\ cache[i].key = k /\ cache[i].key \in Seq(Char)
                 /\ cache[i].value \in Seq(Char)
                 /\ Left(before[r], k, cache[i].value, Cached(before[r], k))
          BY <1>1, <3>1, <5>1, <5>2, CachedLeft
        <5>4. PICK v \in Seq(Char) : v = cache[i].value
          BY <5>3
        <5>5. Given(k, v)
          BY <5>3, <5>4 DEF AInv, RowsInv
        <5>6. Given(k, v)' /\ k \in Seq(Char)
          BY <1>3, <5>3, <5>5
        <5>7. Left(before[r], k, v, answer'[r])
          BY <5>1, <5>3, <5>4
        <5>8. QED
          BY <4>2, <5>6, <5>7
      <4>3. QED
        BY <4>1, <4>2
    <3>7. OfferedInv'
      BY <1>8, <3>6
    <3>8. QED
      BY <3>2, <3>5, <3>7
  <2>3. QED
    BY <1>10, <2>1, <2>2 DEF LookUp
<1>11. ASSUME NEW r \in Request, Save(r) PROVE RowsInv' /\ SavingInv' /\ OfferedInv'
  <2>1. /\ r \in saving /\ saving' = saving \ {r} /\ answer' = answer
        /\ cache' = Stored(prefix[r], answer[r])
    BY <1>11 DEF Save
  <2>2. PICK k \in Seq(Char), v \in Seq(Char) : k = prefix[r] /\ v = answer[r]
    BY <1>1 DEF TypeOK, AllTypesOK
  <2>3. Given(k, v)'
    BY <1>3, <2>1, <2>2 DEF AInv, SavingInv
  <2>4. \A j \in DOMAIN cache' : \/ cache'[j] = [key |-> k, value |-> v]
                                \/ \E i \in DOMAIN cache : cache'[j] = cache[i]
    BY <1>1, <2>1, <2>2, StoredRows
  <2>5. SUFFICES ASSUME NEW j \in DOMAIN cache' PROVE Given(cache[j].key, cache[j].value)'
    <3>1. SavingInv'
      BY <1>7, <2>1 DEF SavingInv
    <3>2. OfferedInv'
      BY <1>5, <1>8, <2>1
    <3>3. QED
      BY <2>5, <3>1, <3>2 DEF RowsInv
  <2>6. CASE cache'[j] = [key |-> k, value |-> v]
    BY <2>3, <2>6 DEF Given
  <2>7. CASE \E i \in DOMAIN cache : cache'[j] = cache[i]
    BY <1>4, <2>7 DEF Given
  <2>8. QED
    BY <2>4, <2>6, <2>7
<1>12. ASSUME NEW r \in Request, Judge(r) PROVE RowsInv' /\ SavingInv' /\ OfferedInv'
  <2>1. CASE UNCHANGED <<answer, saving>>
    BY <1>9, <1>12, <2>1 DEF Judge
  <2>2. CASE /\ r \notin aborted
             /\ \E s \in Processed(out[r]) \ {<<>>} : answer' = [answer EXCEPT ![r] = s]
             /\ saving' = saving \cup {r}
    <3>1. /\ cache' = cache /\ aborted' = aborted /\ gen' = gen /\ pc[r] # "new"
      BY <1>12 DEF Judge, reuseVars, readerVars
    <3>2. gen'[r] # None
      BY <1>1, <3>1 DEF IInv, JoinedInv
    <3>3. answer'[r] # <<>> /\ \A q \in Request \ {r} : answer'[q] = answer[q]
      BY <1>1, <2>2 DEF AllTypesOK
    <3>4. RowsInv'
      BY <1>6, <3>1
    <3>5. SavingInv'
      <4>1. Given(prefix[r], answer[r])'
        BY <2>2, <3>1, <3>2, <3>3 DEF Given
      <4>2. \A q \in saving : q # r => Given(prefix[q], answer[q])'
        BY <1>1, <1>7, <3>3 DEF AllTypesOK
      <4>3. QED
        BY <2>2, <4>1, <4>2 DEF SavingInv
    <3>6. OfferedInv'
      BY <1>5, <1>8, <3>2, <3>3
    <3>7. QED
      BY <3>4, <3>5, <3>6
  <2>3. QED
    BY <1>12, <2>1, <2>2 DEF Judge
<1>13. QED
  BY <1>9, <1>10, <1>11, <1>12 DEF Next, Provide, Debounce, ByHand, Refuse, TimerFires,
     StartStream, Read, Model, GiveUp, providerVars, vars

-----------------------------------------------------------------------------
(* The theorems. *)

LEMMA InitAll == Init => AInv
<1>. SUFFICES ASSUME Init PROVE AInv
  OBVIOUS
<1>1. IInv /\ TypeOK
  BY InitInvariant DEF Init, IInv
<1>2. before \in [Request -> Seq(Char)]
  BY ProviderAssumption DEF Init
<1>3. AllTypesOK
  BY <1>1, <1>2 DEF Init, AllTypesOK, Stage
<1>4. RowsInv /\ SavingInv /\ SettledInv /\ TimerInv /\ OfferedInv
  BY DEF Init, RowsInv, SavingInv, SettledInv, TimerInv, OfferedInv
<1>5. QED
  BY <1>1, <1>3, <1>4 DEF AInv

\* In every run requests, generators, the manager and the cache agree.
THEOREM AllInvariant == Spec => []AInv
<1>1. AInv /\ [Next]_vars => AInv'
  <2>. SUFFICES ASSUME AInv, [Next]_vars PROVE AInv'
    OBVIOUS
  <2>1. IInv'
    BY ReuseStep, StepInvariant DEF AInv
  <2>2. AllTypesOK'
    BY AllTypesStep DEF AInv
  <2>3. QED
    BY <2>1, <2>2, StagesStep, CacheStep DEF AInv
<1>2. QED
  BY <1>1, InitAll, PTL DEF Spec

\* The variables of the provider and of what it uses keep their types.
THEOREM AllTypesCorrect == Spec => []AllTypesOK
<1>1. AInv => AllTypesOK
  BY DEF AInv
<1>2. QED
  BY <1>1, AllInvariant, PTL

\* Whatever LIKE finds and however the rows were stored, used and thrown away meanwhile,
\* a completion out of the cache is left of one that was given to a request that nobody
\* aborted, under a prefix LIKE the text before the cursor and after what was typed since.
THEOREM OfferedWasGiven == Spec => []CacheGivesAgain
<1>1. AInv => CacheGivesAgain
  <2>. SUFFICES ASSUME AInv, NEW r \in Request, answer[r] # <<>>, gen[r] = None
                PROVE  \E q \in Request \ aborted :
                  /\ gen[q] # None /\ answer[q] # <<>> /\ Like(before[r], prefix[q])
                  /\ IF Len(prefix[q]) <= Len(before[r])
                     THEN answer[q] = From(before[r], Len(prefix[q])) \o answer[r]
                     ELSE answer[r] = Slice(answer[q], Len(before[r]) - Len(prefix[q]))
    BY DEF CacheGivesAgain
  <2>1. PICK k \in Seq(Char), v \in Seq(Char) : Given(k, v) /\ Left(before[r], k, v, answer[r])
    BY DEF AInv, OfferedInv
  <2>2. PICK q \in Request \ aborted :
             gen[q] # None /\ answer[q] = v /\ v # <<>> /\ prefix[q] = k
    BY <2>1 DEF Given
  <2>3. QED
    BY <2>1, <2>2 DEF Left
<1>2. QED
  BY <1>1, AllInvariant, PTL

=============================================================================
