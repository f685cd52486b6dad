--------------------------- MODULE CompletionReuse ---------------------------
(***************************************************************************)
(* How autocomplete requests share one answer of the model                 *)
(* (core/autocomplete/generation/). GeneratorReuseManager keeps one        *)
(* ListenableGenerator: a request whose prefix is what the model was asked *)
(* about, followed by text the model has already produced, reads on from   *)
(* there (the user typed what was suggested); any other request cancels it *)
(* and asks the model anew. A generator is named by the request it was     *)
(* made for. Text is a sequence of characters and a chunk is one of them:  *)
(* a longer chunk is several steps here, so requests may also come between *)
(* the characters of a chunk.                                              *)
(***************************************************************************)
EXTENDS Integers, Sequences

CONSTANTS
    Request, None,
    Char,
    Prefix,    \* what may stand before the cursor when each request is made
    MaxText    \* bound of what the model says in one answer

ASSUME ReuseAssumption ==
    /\ None \notin Request
    /\ Prefix \in [Request -> SUBSET Seq(Char)]
    /\ MaxText \in Nat

VARIABLES
    (* of each request *)
    prefix,    \* the text before the cursor
    pc,        \* where it is; "reading" between items, "waiting" for the promise in tee
    gen,       \* the generator it reads
    pos,       \* i in tee: how much of the buffer it has read
    typed,     \* typedSinceLastGenerator
    out,       \* what the completion has so far
    aborted,   \* requests whose token was aborted
    (* of each generator *)
    text,      \* _buffer
    ended,     \* _isEnded
    source,    \* the answer of the model: "none" asked for, "open", "closed"
    (* of the manager *)
    current,   \* currentGenerator, and with it pendingGeneratorPrefix
    pending    \* pendingCompletion

readerVars == <<prefix, gen, pos, typed, out>>
managerVars == <<current, pending>>
reuseVars == <<readerVars, pc, aborted, text, ended, source, managerVars>>

Phase == {"new", "reading", "waiting", "left", "complete"}

TypeOK ==
    /\ prefix \in [Request -> Seq(Char)]
    /\ pc \in [Request -> Phase]
    /\ gen \in [Request -> Request \cup {None}]
    /\ pos \in [Request -> Nat]
    /\ typed \in [Request -> Seq(Char)]
    /\ out \in [Request -> Seq(Char)]
    /\ aborted \subseteq Request
    /\ text \in [Request -> Seq(Char)]
    /\ ended \in [Request -> BOOLEAN]
    /\ source \in [Request -> {"none", "open", "closed"}]
    /\ current \in Request \cup {None}
    /\ pending \in Seq(Char)

ReuseInit ==
    /\ prefix \in [Request -> UNION {Prefix[r] : r \in Request}]
    /\ \A r \in Request : prefix[r] \in Prefix[r]
    /\ pc = [r \in Request |-> "new"]
    /\ gen = [r \in Request |-> None]
    /\ pos = [r \in Request |-> 0]
    /\ typed = [r \in Request |-> <<>>]
    /\ out = [r \in Request |-> <<>>]
    /\ aborted = {}
    /\ text = [g \in Request |-> <<>>]
    /\ ended = [g \in Request |-> FALSE]
    /\ source = [g \in Request |-> "none"]
    /\ current = None
    /\ pending = <<>>

StartsWith(s, t) ==
    Len(t) <= Len(s) /\ \A i \in 1 .. Len(t) : s[i] = t[i]

-----------------------------------------------------------------------------
(* The source of a generator: _start, around what the model streams. *)

\* listener(value) wakes every reader that waits in tee.
Wake(g) ==
    pc' = [r \in Request |-> IF pc[r] = "waiting" /\ gen[r] = g THEN "reading" ELSE pc[r]]

\* Mutant: a cancelled generator still pushes what comes.
PushAlways(g, c, timesUp) ==
    /\ source[g] = "open"
    /\ Len(text[g]) < MaxText
    /\ text' = [text EXCEPT ![g] = Append(@, c)]
    /\ pending' = Append(pending, c)
    /\ Wake(g)
    /\ UNCHANGED <<readerVars, aborted, source, ended, current>>

\* An item is pushed for the readers; one that comes for a generator that was cancelled
\* only ends the source. timesUp: stopAfterMaxProcessingTime, asked for the next item,
\* finds its time is up, calls fullStop and stops.
Push(g, c, timesUp) ==
    /\ source[g] = "open" /\ ~ended[g]
    /\ Len(text[g]) < MaxText
    /\ text' = [text EXCEPT ![g] = Append(@, c)]
    /\ pending' = Append(pending, c)
    /\ Wake(g)
    /\ ended' = IF timesUp THEN [ended EXCEPT ![current] = TRUE] ELSE ended
    /\ UNCHANGED <<readerVars, aborted, source, current>>

\* Mutant: the listeners are not told of the end.
SourceEndsSilently(g) ==
    /\ source[g] = "open"
    /\ source' = [source EXCEPT ![g] = "closed"]
    /\ ended' = [ended EXCEPT ![g] = TRUE]
    /\ UNCHANGED <<readerVars, pc, aborted, text, managerVars>>

\* The source is exhausted, throws, was aborted, or was told to return when an item came
\* for a cancelled generator: the finally of _start.
SourceEnds(g) ==
    /\ source[g] = "open"
    /\ source' = [source EXCEPT ![g] = "closed"]
    /\ ended' = [ended EXCEPT ![g] = TRUE]
    /\ Wake(g)
    /\ UNCHANGED <<readerVars, aborted, text, managerVars>>

-----------------------------------------------------------------------------
(* A request. *)

\* Mutant: backspace is forgotten.
ShouldReuseShorter(p) ==
    /\ current # None /\ prefix[current] # <<>>
    /\ StartsWith(prefix[current] \o pending, p)

\* shouldReuseExistingGenerator: not after an empty prefix, nor for a shorter one.
ShouldReuse(p) ==
    /\ current # None /\ prefix[current] # <<>>
    /\ StartsWith(prefix[current] \o pending, p)
    /\ Len(prefix[current]) <= Len(p)

TypedSince(p) == SubSeq(p, Len(prefix[current]) + 1, Len(p))

\* Mutant: the generator that was there is left running.
BeginWithoutCancel(r) ==
    /\ pc[r] = "new"
    /\ pc' = [pc EXCEPT ![r] = "reading"]
    /\ IF ShouldReuse(prefix[r])
       THEN /\ gen' = [gen EXCEPT ![r] = current]
            /\ typed' = [typed EXCEPT ![r] = TypedSince(prefix[r])]
            /\ UNCHANGED <<source, managerVars>>
       ELSE /\ gen' = [gen EXCEPT ![r] = r]
            /\ source' = [source EXCEPT ![r] = "open"]
            /\ current' = r
            /\ pending' = <<>>
            /\ UNCHANGED typed
    /\ UNCHANGED <<prefix, pos, out, aborted, text, ended>>

\* getGenerator up to its first await: the generator is there to be reused, or
\* _createListenableGenerator cancels it and makes another.
Begin(r) ==
    /\ pc[r] = "new"
    /\ pc' = [pc EXCEPT ![r] = "reading"]
    /\ IF ShouldReuse(prefix[r])
       THEN /\ gen' = [gen EXCEPT ![r] = current]
            /\ typed' = [typed EXCEPT ![r] = TypedSince(prefix[r])]
            /\ UNCHANGED <<ended, source, managerVars>>
       ELSE /\ gen' = [gen EXCEPT ![r] = r]
            /\ ended' = IF current = None THEN ended ELSE [ended EXCEPT ![current] = TRUE]
            /\ source' = [source EXCEPT ![r] = "open"]
            /\ current' = r
            /\ pending' = <<>>
            /\ UNCHANGED typed
    /\ UNCHANGED <<prefix, pos, out, aborted, text>>

\* fullStop cancels whatever generator the manager has at that moment.
FullStop == ended' = IF current = None THEN ended ELSE [ended EXCEPT ![current] = TRUE]

CaughtUp(r) == pos[r] = Len(text[gen[r]])

\* Mutant: all that is left in the buffer is handed on as one item.
NextItemRest(r) == SubSeq(text[gen[r]], pos[r] + 1, Len(text[gen[r]]))

NextItem(r) == text[gen[r]][pos[r] + 1]

AlreadyTyped(r) == typed[r] # <<>> /\ Head(typed[r]) = NextItem(r)

\* The next item of the buffer: one that the user has typed meanwhile is skipped, any
\* other goes to the completion.
Take(r) ==
    /\ pc[r] = "reading" /\ ~CaughtUp(r)
    /\ pos' = [pos EXCEPT ![r] = @ + 1]
    /\ \/ /\ AlreadyTyped(r)
          /\ typed' = [typed EXCEPT ![r] = Tail(@)]
          /\ UNCHANGED out
       \/ /\ ~AlreadyTyped(r) /\ r \notin aborted
          /\ out' = [out EXCEPT ![r] = Append(@, NextItem(r))]
          /\ UNCHANGED typed
    /\ UNCHANGED <<prefix, gen, pc, aborted, text, ended, source, managerVars>>

\* The request leaves the stream: a filter has enough (a line that repeats, the time to
\* show something), or there is an item to hand on and it is a newline in single-line
\* mode or begins a stop token, or the token turns out to be aborted. streamLines then
\* hands on the line that was not ended, so a filter may still call fullStop.
Leave(r, full) ==
    /\ pc[r] = "reading"
    /\ out[r] # <<>> \/ (~CaughtUp(r) /\ ~AlreadyTyped(r))
    /\ full => out[r] # <<>>
    /\ pc' = [pc EXCEPT ![r] = "left"]
    /\ IF full THEN FullStop ELSE UNCHANGED ended
    /\ UNCHANGED <<readerVars, aborted, text, source, managerVars>>

\* Nothing to read: tee adds a listener and awaits its promise.
Wait(r) ==
    /\ pc[r] = "reading" /\ CaughtUp(r) /\ ~ended[gen[r]]
    /\ pc' = [pc EXCEPT ![r] = "waiting"]
    /\ UNCHANGED <<readerVars, aborted, text, ended, source, managerVars>>

\* Mutant: the loop of tee ends with _isEnded, whatever is left in the buffer.
EndOfStreamEarly(r, full) ==
    /\ pc[r] = "reading" /\ ended[gen[r]]
    /\ pc' = [pc EXCEPT ![r] = "complete"]
    /\ UNCHANGED <<readerVars, aborted, text, source, managerVars, ended>>

\* Nothing to read any more. streamLines hands on the line that was not ended, and a
\* filter may still call fullStop because of it.
EndOfStream(r, full) ==
    /\ pc[r] = "reading" /\ CaughtUp(r) /\ ended[gen[r]]
    /\ full => out[r] # <<>>
    /\ pc' = [pc EXCEPT ![r] = "complete"]
    /\ IF full THEN FullStop ELSE UNCHANGED ended
    /\ UNCHANGED <<readerVars, aborted, text, source, managerVars>>

\* The editor gives requests up: the user typed on, or cancel() was called.
Abort(gone) ==
    /\ aborted' = aborted \cup gone
    /\ UNCHANGED <<readerVars, pc, text, ended, source, managerVars>>

ReuseNext ==
    \/ \E r \in Request : Begin(r) \/ Take(r) \/ Wait(r)
    \/ \E r \in Request, full \in BOOLEAN : Leave(r, full) \/ EndOfStream(r, full)
    \/ \E g \in Request, c \in Char, timesUp \in BOOLEAN : Push(g, c, timesUp)
    \/ \E g \in Request : SourceEnds(g)
    \/ \E gone \in SUBSET Request : Abort(gone)

ReuseSpec == ReuseInit /\ [][ReuseNext]_reuseVars

-----------------------------------------------------------------------------
(* Properties. *)

\* What a request offers continues what stands before its cursor in the words of one
\* answer of the model: the text before the cursor and the completion are the prefix
\* the model was asked about and the beginning of its answer, also when the answer was
\* asked for by an earlier request and the user has typed a part of it.
AnswerContinues ==
    \A r \in Request : gen[r] # None =>
        StartsWith(prefix[gen[r]] \o text[gen[r]], prefix[r] \o out[r])

\* A request that came to the end of its stream has all the model said of it, so a
\* completion is cut short only by the request's own filters or with its generator.
NothingMissed ==
    \A r \in Request : pc[r] = "complete" =>
        Len(prefix[r]) + Len(out[r]) = Len(prefix[gen[r]]) + Len(text[gen[r]])

\* Only the generator that the manager holds runs; all others were cancelled. So the
\* time limit in a source, which stops the manager's generator, stops its own.
OnlyCurrentRuns ==
    \A g \in Request : source[g] # "none" /\ ~ended[g] => g = current

\* No reader waits for a generator whose source is done, for nothing would wake it.
NoLostWakeup ==
    \A r \in Request : pc[r] = "waiting" => source[gen[r]] = "open"

\* A request that stops the model stops its own generator: "Full stop means to stop the
\* LLM's generation, instead of just truncating the displayed completion"
\* (CompletionStreamer.ts:26).
StopsOwn ==
    [][\A r, g \in Request :
        pc[r] = "reading" /\ pc'[r] # pc[r] /\ ~ended[g] /\ ended'[g] => gen[r] = g]_reuseVars

\* The requests read the answers of the model as readers of shared streams.
Shared == INSTANCE SharedStream WITH
    Reader <- Request, Stream <- Request, Item <- Char,
    produced <- text,
    status <- [g \in Request |-> IF source[g] = "none" THEN "none"
                                 ELSE IF ended[g] THEN "closed" ELSE "open"],
    of <- gen,
    taken <- pos,
    phase <- [r \in Request |-> CASE pc[r] = "new" -> "out"
                                  [] pc[r] \in {"reading", "waiting"} -> "in"
                                  [] pc[r] = "left" -> "left"
                                  [] pc[r] = "complete" -> "through"]

SharesStreams == Shared!SharedSpec

=============================================================================
