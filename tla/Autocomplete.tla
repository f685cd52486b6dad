----------------------------- MODULE Autocomplete -----------------------------
(***************************************************************************)
(* The life of an autocomplete request (core/autocomplete/                 *)
(* CompletionProvider.ts): the debouncer, the cache of earlier             *)
(* completions, the shared answer of the model (CompletionReuse), and what *)
(* is done with the completion. Several requests are under way at once:    *)
(* each await is a point where others go on.                               *)
(***************************************************************************)
EXTENDS CompletionReuse

CONSTANTS
    Before,       \* for a compiled prefix, what may stand before the cursor
    StandsFor,    \* the characters that one in a LIKE pattern matches
    AnyRun,       \* '%'
    Newline, Indent,
    Capacity      \* rows of the cache (1000)

\* prefix[r] is the prefix that went into the prompt: snippets and the path of the file are
\* put before what stands before the cursor, unless the template leaves them out, and its
\* first lines are taken off where the prompt would be too long.
\* LIKE does not tell the case of a letter, and '_' is any character.
ASSUME ProviderAssumption ==
    /\ Before \in [UNION {Prefix[r] : r \in Request} -> SUBSET Seq(Char)]
    /\ StandsFor \in [Char -> SUBSET Char]
    /\ Newline \in Char /\ Indent \in Char
    /\ Capacity \in Nat \ {0}

VARIABLES
    before,       \* prunedPrefix, the text before the cursor
    stage,        \* where provideInlineCompletionItems is
    latest,       \* currentRequestId of the debouncer
    timer,        \* the request whose timeout is pending
    answer,       \* the completion of each request
    saving,       \* requests whose put waits for the mutex
    cache         \* table cache, by timestamp

providerVars == <<before, stage, latest, timer, answer, saving, cache>>
vars == <<reuseVars, providerVars>>

\* A request is "dropped" when nothing will resolve the promise it awaits.
Stage == {"unborn", "debouncing", "dropped", "preparing", "missed", "streaming", "settled"}

Entry == [key : Seq(Char), value : Seq(Char)]

AllTypesOK ==
    /\ TypeOK
    /\ before \in [Request -> Seq(Char)]
    /\ stage \in [Request -> Stage]
    /\ latest \in Request \cup {None}
    /\ timer \in Request \cup {None}
    /\ answer \in [Request -> Seq(Char)]
    /\ saving \subseteq Request
    /\ cache \in Seq(Entry)

Init ==
    /\ ReuseInit
    /\ before \in [Request -> UNION {Before[p] : p \in DOMAIN Before}]
    /\ \A r \in Request : before[r] \in Before[prefix[r]]
    /\ stage = [r \in Request |-> "unborn"]
    /\ latest = None
    /\ timer = None
    /\ answer = [r \in Request |-> <<>>]
    /\ saving = {}
    /\ cache = <<>>

At(r, s) == stage[r] = s
Goto(r, s) == stage' = [stage EXCEPT ![r] = s]

-----------------------------------------------------------------------------
(* Up to the stream. *)

\* provideInlineCompletionItems calls delayAndShouldDebounce: the timeout of an earlier
\* request is cleared, and with it the promise that request awaits is never resolved.
Debounce(r) ==
    /\ At(r, "unborn")
    /\ stage' = [q \in Request |-> CASE q = r -> "debouncing"
                                     [] q # r /\ q = timer -> "dropped"
                                     [] OTHER -> stage[q]]
    /\ latest' = r
    /\ timer' = r
    /\ UNCHANGED <<reuseVars, before, answer, saving, cache>>

\* The user asked for a completion by hand (force): no delay.
ByHand(r) ==
    /\ At(r, "unborn") /\ Goto(r, "preparing")
    /\ UNCHANGED <<reuseVars, before, latest, timer, answer, saving, cache>>

\* No model, a file of secrets, a prefilter, or an error: undefined is returned.
Refuse(r) ==
    /\ stage[r] \in {"unborn", "preparing"} /\ Goto(r, "settled")
    /\ UNCHANGED <<reuseVars, before, latest, timer, answer, saving, cache>>

\* Mutant: only a request that was overtaken is told.
TimerFiresQuietly(r) ==
    /\ timer = r
    /\ timer' = None
    /\ IF latest = r
       THEN latest' = None /\ UNCHANGED stage
       ELSE Goto(r, "settled") /\ UNCHANGED latest
    /\ UNCHANGED <<reuseVars, before, answer, saving, cache>>

\* The timeout: a request that is not the most recent one any more is given up.
TimerFires(r) ==
    /\ timer = r
    /\ timer' = None
    /\ IF latest = r
       THEN /\ latest' = None
            /\ Goto(r, "preparing")
       ELSE /\ Goto(r, "settled")
            /\ UNCHANGED latest
    /\ UNCHANGED <<reuseVars, before, answer, saving, cache>>

-----------------------------------------------------------------------------
(* AutocompleteLruCache. *)

Keys == {cache[i].key : i \in DOMAIN cache}
RowOf(k) == CHOOSE i \in DOMAIN cache : cache[i].key = k
From(s, n) == SubSeq(s, n + 1, Len(s))
Without(i) == SubSeq(cache, 1, i - 1) \o SubSeq(cache, i + 1, Len(cache))

\* p LIKE k || '%': at[j] characters of p are matched by the first j of k.
Like(p, k) ==
    \E at \in [0 .. Len(k) -> 0 .. Len(p)] :
        /\ at[0] = 0
        /\ \A j \in 1 .. Len(k) :
              \/ k[j] = AnyRun /\ at[j - 1] <= at[j]
              \/ k[j] # AnyRun /\ at[j] = at[j - 1] + 1 /\ p[at[j]] \in StandsFor[k[j]]

Matching(p) == {k \in Keys : Like(p, k)}
Longest(p) == {k \in Matching(p) : \A l \in Matching(p) : Len(l) <= Len(k)}

\* v.slice(n), where n may be negative.
Slice(v, n) == From(v, CASE n >= 0 -> n [] n < 0 /\ Len(v) + n >= 0 -> Len(v) + n [] OTHER -> 0)

\* Mutant: the completion is not compared with what the user typed after the key.
ValidAlways(p, k) == TRUE

\* The completion of the row agrees with what the user typed after its key.
Valid(p, k) == StartsWith(cache[RowOf(k)].value, From(p, Len(k)))

\* get with the row of k: what p leaves of the completion, or nothing.
Cached(p, k) ==
    IF Valid(p, k) THEN Slice(cache[RowOf(k)].value, Len(p) - Len(k)) ELSE <<>>

\* The UPDATE after a hit names the prefix that was asked for, not the key that was
\* found: only an exact hit makes a row new again.
Touched(p) ==
    IF p \in Keys THEN Append(Without(RowOf(p)), cache[RowOf(p)]) ELSE cache

\* put, in a transaction under the mutex.
Stored(p, completion) ==
    LET row == [key |-> p, value |-> completion]
    IN  IF p \in Keys THEN Append(Without(RowOf(p)), row)
        ELSE IF Len(cache) >= Capacity THEN Append(Tail(cache), row)
        ELSE Append(cache, row)

\* get with what stands before the cursor: the row of a longest key that matches it. A
\* completion that was typed to its end is a hit with nothing left, and so a miss.
LookUp(r) ==
    /\ At(r, "preparing")
    /\ \/ /\ Matching(before[r]) = {}
          /\ Goto(r, "missed")
          /\ UNCHANGED <<answer, cache>>
       \/ \E k \in Longest(before[r]) :
             /\ Goto(r, IF Cached(before[r], k) = <<>> THEN "missed" ELSE "settled")
             /\ answer' = [answer EXCEPT ![r] = Cached(before[r], k)]
             /\ cache' = IF Valid(before[r], k) THEN Touched(before[r]) ELSE cache
    /\ UNCHANGED <<reuseVars, before, latest, timer, saving>>

\* put, with the prefix of the prompt.
Save(r) ==
    /\ r \in saving
    /\ saving' = saving \ {r}
    /\ cache' = Stored(prefix[r], answer[r])
    /\ UNCHANGED <<reuseVars, before, stage, latest, timer, answer>>

-----------------------------------------------------------------------------
(* The stream and what follows. *)

StartStream(r) ==
    /\ At(r, "missed") /\ Goto(r, "streaming")
    /\ Begin(r)
    /\ UNCHANGED <<before, latest, timer, answer, saving, cache>>

Read(r) ==
    /\ Take(r) \/ Wait(r) \/ (\E full \in BOOLEAN : Leave(r, full) \/ EndOfStream(r, full))
    /\ UNCHANGED providerVars

Model(g) ==
    /\ SourceEnds(g) \/ (\E c \in Char, timesUp \in BOOLEAN : Push(g, c, timesUp))
    /\ UNCHANGED providerVars

\* What postprocessing may leave: nothing (a blank, a repetition), or the text without
\* some of its ends (a space, a fence, what repeats the line, a model's thinking); where
\* that begins with an indent, a newline may be put before it.
Kept(s) == {SubSeq(s, i, j) : i \in 1 .. Len(s), j \in 0 .. Len(s)}
Indented(s) == {t \in Kept(s) : t # <<>> /\ t[1] = Indent}
Processed(s) == Kept(s) \cup {<<Newline>> \o t : t \in Indented(s)}

\* The stream is through: an aborted request returns undefined, and so does one with
\* nothing left of its completion. Any other returns it, and puts it into the cache.
Judge(r) ==
    /\ At(r, "streaming") /\ pc[r] \in {"left", "complete"}
    /\ Goto(r, "settled")
    /\ \/ UNCHANGED <<answer, saving>>
       \/ /\ r \notin aborted
          /\ \E s \in Processed(out[r]) \ {<<>>} :
                answer' = [answer EXCEPT ![r] = s]
          /\ saving' = saving \cup {r}
    /\ UNCHANGED <<reuseVars, before, latest, timer, cache>>

\* The editor aborts the signal it passed, or autocomplete/cancel those of all requests
\* under way. Nothing looks at a signal before the stream.
GiveUp(gone) ==
    /\ gone # {}
    /\ \A r \in gone : stage[r] \in {"missed", "streaming"} /\ r \notin aborted
    /\ Abort(gone)
    /\ UNCHANGED providerVars

Provide(r) ==
    \/ Debounce(r) \/ ByHand(r) \/ Refuse(r) \/ TimerFires(r)
    \/ LookUp(r) \/ Save(r) \/ StartStream(r) \/ Judge(r)

Next ==
    \/ \E r \in Request : Provide(r) \/ Read(r)
    \/ \E g \in Request : Model(g)
    \/ \E gone \in SUBSET Request : GiveUp(gone)

Spec == Init /\ [][Next]_vars

\* Awaits come back, timeouts fire, readers read on, and every answer of the model
\* ends: a provider closes its stream, or fails.
Fairness ==
    \A r \in Request :
        /\ WF_vars(TimerFires(r))
        /\ WF_vars(LookUp(r) \/ StartStream(r) \/ Judge(r))
        /\ WF_vars(Read(r))
        /\ WF_vars(SourceEnds(r) /\ UNCHANGED providerVars)

FairSpec == Spec /\ Fairness

-----------------------------------------------------------------------------
(* Properties. *)

\* What the cache offers was given before, whole and to a request nobody aborted: it is
\* what is left of a completion that was put there for a prefix LIKE what stands before
\* the cursor, after the characters that were typed since. A key with a '%' may be longer
\* than the text it matches; the end of the completion is offered then.
CacheGivesAgain ==
    \A r \in Request : answer[r] # <<>> /\ gen[r] = None =>
        \E q \in Request \ aborted :
            /\ gen[q] # None /\ answer[q] # <<>> /\ Like(before[r], prefix[q])
            /\ IF Len(prefix[q]) <= Len(before[r])
               THEN answer[q] = From(before[r], Len(prefix[q])) \o answer[r]
               ELSE answer[r] = Slice(answer[q], Len(before[r]) - Len(prefix[q]))

\* "Validate that the cached completion is a valid completion for the prefix"
\* (AutocompleteLruCache.ts:50): with what stands before the cursor it says what the row
\* says. It does not where LIKE found a key that p does not start with.
CacheFits ==
    \A r \in Request : answer[r] # <<>> /\ gen[r] = None =>
        \E q \in Request : prefix[q] \o answer[q] = before[r] \o answer[r]

\* Every request is settled, except one that another overtook while it was debounced:
\* that one hangs, and the other is settled.
AllSettle ==
    \A r \in Request :
        ~At(r, "unborn") ~> \/ At(r, "settled")
                            \/ At(r, "dropped") /\ \E q \in Request : At(q, "settled")

\* Every request is settled. Not one that was overtaken.
NoneHangs == \A r \in Request : ~At(r, "unborn") ~> At(r, "settled")

=============================================================================
