----------------------- MODULE CompletionReuse_proofs -----------------------
(***************************************************************************)
(* Theorems about CompletionReuse for any requests, texts and alphabet:    *)
(* the type invariant, the invariant that ties what a request has read to  *)
(* the generator it reads, the properties that follow, and that the        *)
(* requests are readers of shared streams.                                 *)
(***************************************************************************)
EXTENDS CompletionReuse, SequenceTheorems, TLAPS

\* A generator exists from the request that made it on, with nothing in it before.
GeneratorsInv ==
    /\ \A g \in Request : source[g] = "none" => ~ended[g] /\ text[g] = <<>>
    /\ \A g \in Request : source[g] = "closed" => ended[g]
    /\ current # None => source[current] # "none"
    /\ current # None => pending = text[current]

\* Requests that have not begun read nothing; all others read a generator there is.
JoinedInv ==
    \A r \in Request :
        /\ pc[r] = "new" => /\ gen[r] = None /\ source[r] = "none"
                            /\ pos[r] = 0 /\ typed[r] = <<>> /\ out[r] = <<>>
        /\ pc[r] # "new" => gen[r] \in Request /\ source[gen[r]] # "none"
        /\ pc[r] = "complete" => ended[gen[r]] /\ pos[r] = Len(text[gen[r]])

\* Where a request stands that has prefix p, with typed left to be met and out read, when
\* it is at item i of text, the answer to prefix q: p runs into the text, typed comes
\* next there, and out ends there.
Reads(p, q, t, i, y, o) ==
    /\ Len(q) <= Len(p) /\ Len(p) <= Len(q) + Len(t)
    /\ i <= Len(t)
    /\ Len(q) + i = Len(p) + Len(o) - Len(y)
    /\ Len(y) = 0 \/ Len(o) = 0
    /\ \A j \in 1 .. Len(q) : p[j] = q[j]
    /\ \A j \in 1 .. Len(p) : j > Len(q) => p[j] = t[j - Len(q)]
    /\ \A j \in 1 .. Len(y) : y[j] = t[i + j]
    /\ \A j \in 1 .. Len(o) : o[j] = t[i - Len(o) + j]

ReadsOn(r, g) == Reads(prefix[r], prefix[g], text[g], pos[r], typed[r], out[r])

ReadingInv == \A r \in Request : gen[r] # None => ReadsOn(r, gen[r])

IInv ==
    TypeOK /\ GeneratorsInv /\ JoinedInv /\ OnlyCurrentRuns /\ NoLostWakeup /\ ReadingInv

-----------------------------------------------------------------------------
(* Type correctness. *)

LEMMA TypeStep ==
    ASSUME TypeOK, JoinedInv, ReadingInv, [ReuseNext]_reuseVars PROVE TypeOK'
<1>1. ASSUME NEW r \in Request, Begin(r) PROVE TypeOK'
  <2>1. CASE ShouldReuse(prefix[r])
    <3>1. current \in Request
      BY <2>1 DEF ShouldReuse, TypeOK
    <3>2. TypedSince(prefix[r]) \in Seq(Char)
      BY <3>1, <2>1, SubSeqProperties DEF TypedSince, TypeOK, ShouldReuse
    <3>3. /\ gen' = [gen EXCEPT ![r] = current]
          /\ typed' = [typed EXCEPT ![r] = TypedSince(prefix[r])]
          /\ UNCHANGED <<ended, source, current, pending>>
      BY <1>1, <2>1 DEF Begin, managerVars
    <3>4. QED
      BY <1>1, <3>1, <3>2, <3>3 DEF Begin, TypeOK, Phase
  <2>2. CASE ~ShouldReuse(prefix[r])
    <3>1. ended' \in [Request -> BOOLEAN]
      BY <1>1, <2>2 DEF Begin, TypeOK
    <3>2. /\ gen' = [gen EXCEPT ![r] = r]
          /\ source' = [source EXCEPT ![r] = "open"]
          /\ current' = r /\ pending' = <<>> /\ typed' = typed
      BY <1>1, <2>2 DEF Begin
    <3>3. QED
      BY <1>1, <3>1, <3>2 DEF Begin, TypeOK, Phase
  <2>3. QED
    BY <2>1, <2>2
<1>2. ASSUME NEW r \in Request, Take(r) PROVE TypeOK'
  <2>1. NextItem(r) \in Char
    <3>1. gen[r] \in Request
      BY <1>2 DEF Take, JoinedInv, TypeOK
    <3>2. gen[r] # None
      BY <3>1, ReuseAssumption
    <3>3. text[gen[r]] \in Seq(Char) /\ pos[r] \in Nat /\ pos[r] <= Len(text[gen[r]])
      BY <3>1, <3>2 DEF TypeOK, ReadingInv, ReadsOn, Reads
    <3>4. pos[r] + 1 \in 1 .. Len(text[gen[r]])
      BY <1>2, <3>3 DEF Take, CaughtUp
    <3>5. QED
      BY <3>3, <3>4 DEF NextItem
  <2>2. CASE AlreadyTyped(r) /\ typed' = [typed EXCEPT ![r] = Tail(@)] /\ UNCHANGED out
    <3>1. Tail(typed[r]) \in Seq(Char)
      BY <2>2, HeadTailProperties DEF TypeOK, AlreadyTyped
    <3>2. typed' \in [Request -> Seq(Char)]
      BY <2>2, <3>1 DEF TypeOK
    <3>3. QED
      BY <1>2, <2>2, <3>2 DEF Take, TypeOK, Phase, managerVars
  <2>3. CASE out' = [out EXCEPT ![r] = Append(@, NextItem(r))] /\ UNCHANGED typed
    BY <1>2, <2>1, <2>3 DEF Take, TypeOK, Phase, managerVars
  <2>4. QED
    BY <1>2, <2>2, <2>3 DEF Take
<1>3. ASSUME NEW r \in Request, Wait(r) PROVE TypeOK'
  BY <1>3 DEF Wait, TypeOK, Phase, readerVars, managerVars
<1>4. ASSUME NEW r \in Request, NEW full \in BOOLEAN, Leave(r, full) PROVE TypeOK'
  BY <1>4 DEF Leave, FullStop, TypeOK, Phase, readerVars, managerVars
<1>5. ASSUME NEW r \in Request, NEW full \in BOOLEAN, EndOfStream(r, full) PROVE TypeOK'
  BY <1>5 DEF EndOfStream, FullStop, TypeOK, Phase, readerVars, managerVars
<1>6. ASSUME NEW g \in Request, NEW c \in Char, NEW timesUp \in BOOLEAN,
             Push(g, c, timesUp)
      PROVE  TypeOK'
  <2>1. Append(text[g], c) \in Seq(Char) /\ Append(pending, c) \in Seq(Char)
    BY DEF TypeOK
  <2>2. ended' \in [Request -> BOOLEAN]
    BY <1>6 DEF Push, TypeOK
  <2>3. pc' \in [Request -> Phase]
    BY <1>6 DEF Push, Wake, TypeOK, Phase
  <2>4. QED
    BY <1>6, <2>1, <2>2, <2>3 DEF Push, TypeOK, readerVars
<1>7. ASSUME NEW g \in Request, SourceEnds(g) PROVE TypeOK'
  BY <1>7 DEF SourceEnds, Wake, TypeOK, Phase, readerVars, managerVars
<1>8. ASSUME NEW gone \in SUBSET Request, Abort(gone) PROVE TypeOK'
  BY <1>8 DEF Abort, TypeOK, Phase, readerVars, managerVars
<1>9. CASE UNCHANGED reuseVars
  BY <1>9 DEF TypeOK, reuseVars, readerVars, managerVars
<1>10. QED
  BY <1>1, <1>2, <1>3, <1>4, <1>5, <1>6, <1>7, <1>8, <1>9 DEF ReuseNext

-----------------------------------------------------------------------------
(* Generators and requests. *)

\* The generator that gets an item is the one the manager has.
LEMMA PushToCurrent ==
    ASSUME TypeOK, OnlyCurrentRuns, NEW g \in Request, NEW c \in Char,
           NEW timesUp \in BOOLEAN, Push(g, c, timesUp)
    PROVE  current = g /\ current # None
<1>1. current = g
  BY DEF Push, OnlyCurrentRuns
<1>2. QED
  BY <1>1, ReuseAssumption

LEMMA GeneratorsStep ==
    ASSUME TypeOK, GeneratorsInv, JoinedInv, OnlyCurrentRuns, [ReuseNext]_reuseVars
    PROVE  GeneratorsInv' /\ OnlyCurrentRuns'
<1>. USE ReuseAssumption
<1>1. ASSUME NEW r \in Request, Begin(r) PROVE GeneratorsInv' /\ OnlyCurrentRuns'
  <2>1. CASE ShouldReuse(prefix[r])
    BY <1>1, <2>1 DEF Begin, managerVars, GeneratorsInv, OnlyCurrentRuns
  <2>2. CASE ~ShouldReuse(prefix[r])
    <3>1. source[r] = "none" /\ text[r] = <<>> /\ ~ended[r]
      BY <1>1 DEF Begin, JoinedInv, GeneratorsInv
    <3>2. /\ source' = [source EXCEPT ![r] = "open"]
          /\ ended' = IF current = None THEN ended ELSE [ended EXCEPT ![current] = TRUE]
          /\ current' = r /\ pending' = <<>> /\ text' = text
      BY <1>1, <2>2 DEF Begin
    <3>3. current # r
      BY <3>1 DEF GeneratorsInv
    <3>4. GeneratorsInv'
      BY <3>1, <3>2, <3>3 DEF GeneratorsInv, TypeOK
    <3>5. OnlyCurrentRuns'
      BY <3>1, <3>2, <3>3 DEF OnlyCurrentRuns, TypeOK
    <3>6. QED
      BY <3>4, <3>5
  <2>3. QED
    BY <2>1, <2>2
<1>2. ASSUME NEW r \in Request, Take(r) PROVE GeneratorsInv' /\ OnlyCurrentRuns'
  BY <1>2 DEF Take, managerVars, GeneratorsInv, OnlyCurrentRuns
<1>3. ASSUME NEW r \in Request, Wait(r) PROVE GeneratorsInv' /\ OnlyCurrentRuns'
  BY <1>3 DEF Wait, managerVars, GeneratorsInv, OnlyCurrentRuns
<1>4. ASSUME NEW r \in Request, NEW full \in BOOLEAN,
             Leave(r, full) \/ EndOfStream(r, full)
      PROVE  GeneratorsInv' /\ OnlyCurrentRuns'
  <2>1. /\ ended' \in {ended, [ended EXCEPT ![current] = TRUE]}
        /\ ended' # ended => current # None
        /\ UNCHANGED <<text, source, current, pending>>
    BY <1>4 DEF Leave, EndOfStream, FullStop, managerVars, TypeOK
  <2>2. QED
    BY <2>1 DEF GeneratorsInv, OnlyCurrentRuns, TypeOK
<1>5. ASSUME NEW g \in Request, NEW c \in Char, NEW timesUp \in BOOLEAN, Push(g, c, timesUp)
      PROVE  GeneratorsInv' /\ OnlyCurrentRuns'
  <2>1. current = g /\ current # None
    BY <1>5, PushToCurrent
  <2>2. /\ source[g] = "open" /\ ~ended[g]
        /\ text' = [text EXCEPT ![g] = Append(@, c)] /\ pending' = Append(pending, c)
        /\ ended' \in {ended, [ended EXCEPT ![g] = TRUE]}
        /\ UNCHANGED <<source, current>>
    BY <1>5, <2>1 DEF Push
  <2>3. GeneratorsInv'
    BY <2>1, <2>2 DEF GeneratorsInv, TypeOK
  <2>4. OnlyCurrentRuns'
    BY <2>1, <2>2 DEF OnlyCurrentRuns, TypeOK
  <2>5. QED
    BY <2>3, <2>4
<1>6. ASSUME NEW g \in Request, SourceEnds(g) PROVE GeneratorsInv' /\ OnlyCurrentRuns'
  <2>1. GeneratorsInv'
    BY <1>6 DEF SourceEnds, managerVars, GeneratorsInv, TypeOK
  <2>2. OnlyCurrentRuns'
    BY <1>6 DEF SourceEnds, managerVars, OnlyCurrentRuns, TypeOK
  <2>3. QED
    BY <2>1, <2>2
<1>7. ASSUME NEW gone \in SUBSET Request, Abort(gone)
      PROVE  GeneratorsInv' /\ OnlyCurrentRuns'
  BY <1>7 DEF Abort, managerVars, GeneratorsInv, OnlyCurrentRuns
<1>8. CASE UNCHANGED reuseVars
  BY <1>8 DEF reuseVars, managerVars, GeneratorsInv, OnlyCurrentRuns
<1>9. QED
  BY <1>1, <1>2, <1>3, <1>4, <1>5, <1>6, <1>7, <1>8 DEF ReuseNext

\* A woken reader reads; no other request moves.
LEMMA Woken ==
    ASSUME TypeOK, NEW g \in Request, Wake(g), NEW r \in Request
    PROVE  /\ pc'[r] = "waiting" => pc[r] = "waiting" /\ gen[r] # g
           /\ pc'[r] = "reading" => pc[r] \in {"reading", "waiting"}
           /\ pc'[r] \notin {"reading", "waiting"} => pc'[r] = pc[r]
           /\ pc'[r] = "new" <=> pc[r] = "new"
BY DEF Wake, TypeOK

LEMMA JoinedStep ==
    ASSUME TypeOK, GeneratorsInv, JoinedInv, OnlyCurrentRuns, NoLostWakeup,
           [ReuseNext]_reuseVars
    PROVE  JoinedInv' /\ NoLostWakeup'
<1>. USE ReuseAssumption
<1>1. ASSUME NEW r \in Request, Begin(r) PROVE JoinedInv' /\ NoLostWakeup'
  <2>1. CASE ShouldReuse(prefix[r])
    <3>1. /\ gen' = [gen EXCEPT ![r] = current] /\ current \in Request
          /\ pc' = [pc EXCEPT ![r] = "reading"] /\ pc[r] = "new"
          /\ typed' = [typed EXCEPT ![r] = TypedSince(prefix[r])]
          /\ UNCHANGED <<ended, source, pos, out, text>>
      BY <1>1, <2>1 DEF Begin, ShouldReuse, TypeOK
    <3>2. source[current] # "none"
      BY <3>1 DEF GeneratorsInv
    <3>3. JoinedInv'
      BY <3>1, <3>2 DEF JoinedInv, TypeOK
    <3>4. NoLostWakeup'
      BY <3>1 DEF NoLostWakeup, TypeOK
    <3>5. QED
      BY <3>3, <3>4
  <2>2. CASE ~ShouldReuse(prefix[r])
    <3>1. /\ gen' = [gen EXCEPT ![r] = r]
          /\ pc' = [pc EXCEPT ![r] = "reading"] /\ pc[r] = "new"
          /\ source' = [source EXCEPT ![r] = "open"]
          /\ \A g \in Request : ended[g] => ended'[g]
          /\ UNCHANGED <<pos, out, text, typed>>
      BY <1>1, <2>2 DEF Begin, TypeOK
    <3>2. \A q \in Request : pc[q] # "new" => gen[q] # r
      BY <3>1 DEF JoinedInv
    <3>3. JoinedInv'
      BY <3>1, <3>2 DEF JoinedInv, TypeOK
    <3>4. NoLostWakeup'
      BY <3>1, <3>2 DEF NoLostWakeup, TypeOK
    <3>5. QED
      BY <3>3, <3>4
  <2>3. QED
    BY <2>1, <2>2
<1>2. ASSUME NEW r \in Request, Take(r) PROVE JoinedInv' /\ NoLostWakeup'
  <2>1. /\ pc[r] = "reading"
        /\ pos' = [pos EXCEPT ![r] = @ + 1]
        /\ \A q \in Request \ {r} : typed'[q] = typed[q] /\ out'[q] = out[q]
        /\ UNCHANGED <<gen, pc, text, ended, source>>
    BY <1>2 DEF Take, TypeOK
  <2>2. JoinedInv'
    BY <2>1 DEF JoinedInv, TypeOK
  <2>3. QED
    BY <2>1, <2>2 DEF NoLostWakeup
<1>3. ASSUME NEW r \in Request, Wait(r) PROVE JoinedInv' /\ NoLostWakeup'
  <2>1. /\ pc[r] = "reading" /\ ~ended[gen[r]] /\ pc' = [pc EXCEPT ![r] = "waiting"]
        /\ UNCHANGED <<gen, pos, typed, out, text, ended, source>>
    BY <1>3 DEF Wait, readerVars
  <2>2. source[gen[r]] = "open"
    BY <2>1 DEF JoinedInv, GeneratorsInv, TypeOK
  <2>3. JoinedInv'
    BY <2>1 DEF JoinedInv, TypeOK
  <2>4. NoLostWakeup'
    BY <2>1, <2>2 DEF NoLostWakeup, TypeOK
  <2>5. QED
    BY <2>3, <2>4
<1>4. ASSUME NEW r \in Request, NEW full \in BOOLEAN,
             Leave(r, full) \/ EndOfStream(r, full)
      PROVE  JoinedInv' /\ NoLostWakeup'
  <2>1. /\ pc[r] = "reading"
        /\ pc' \in {[pc EXCEPT ![r] = "left"], [pc EXCEPT ![r] = "complete"]}
        /\ pc'[r] = "complete" => ended[gen[r]] /\ pos[r] = Len(text[gen[r]])
        /\ \A g \in Request : ended[g] => ended'[g]
        /\ UNCHANGED <<gen, pos, typed, out, text, source>>
    BY <1>4 DEF Leave, EndOfStream, CaughtUp, FullStop, readerVars, TypeOK
  <2>2. JoinedInv'
    <3>1. gen[r] \in Request /\ source[gen[r]] # "none"
      BY <2>1 DEF JoinedInv
    <3>2. /\ pc'[r] \in {"left", "complete"}
          /\ \A q \in Request \ {r} : pc'[q] = pc[q]
      BY <2>1 DEF TypeOK
    <3>3. \A q \in Request \ {r} : pc[q] = "complete" => gen[q] \in Request /\ ended'[gen[q]]
      BY <2>1 DEF JoinedInv
    <3>4. QED
      BY <2>1, <3>1, <3>2, <3>3 DEF JoinedInv
  <2>3. NoLostWakeup'
    BY <2>1 DEF NoLostWakeup, TypeOK
  <2>4. QED
    BY <2>2, <2>3
<1>5. ASSUME NEW g \in Request, NEW c \in Char, NEW timesUp \in BOOLEAN, Push(g, c, timesUp)
      PROVE  JoinedInv' /\ NoLostWakeup'
  <2>1. /\ ~ended[g] /\ Wake(g)
        /\ text' = [text EXCEPT ![g] = Append(@, c)]
        /\ \A h \in Request : ended[h] => ended'[h]
        /\ UNCHANGED <<gen, pos, typed, out, source>>
    BY <1>5 DEF Push, readerVars, TypeOK
  <2>2. JoinedInv'
    <3>. SUFFICES ASSUME NEW r \in Request
                  PROVE  /\ pc'[r] = "new" => gen[r] = None /\ source[r] = "none"
                                              /\ pos[r] = 0 /\ typed[r] = <<>>
                                              /\ out[r] = <<>>
                         /\ pc'[r] # "new" => gen[r] \in Request /\ source[gen[r]] # "none"
                         /\ pc'[r] = "complete" => ended'[gen[r]]
                                                   /\ pos[r] = Len(text'[gen[r]])
      BY <2>1 DEF JoinedInv
    <3>1. pc[r] = "complete" => gen[r] # g /\ gen[r] \in Request
      BY <2>1 DEF JoinedInv
    <3>2. QED
      BY <2>1, <3>1, Woken DEF JoinedInv, TypeOK
  <2>3. NoLostWakeup'
    BY <2>1, Woken DEF NoLostWakeup
  <2>4. QED
    BY <2>2, <2>3
<1>6. ASSUME NEW g \in Request, SourceEnds(g) PROVE JoinedInv' /\ NoLostWakeup'
  <2>1. /\ Wake(g) /\ source[g] = "open"
        /\ source' = [source EXCEPT ![g] = "closed"]
        /\ \A h \in Request : ended[h] => ended'[h]
        /\ UNCHANGED <<gen, pos, typed, out, text>>
    BY <1>6 DEF SourceEnds, readerVars, TypeOK
  <2>2. JoinedInv'
    <3>1. \A r \in Request : /\ pc'[r] = "new" <=> pc[r] = "new"
                             /\ pc'[r] = "complete" => pc[r] = "complete"
      BY <2>1, Woken
    <3>2. /\ \A h \in Request : source[h] # "none" <=> source'[h] # "none"
          /\ \A r \in Request : pc[r] = "complete" => gen[r] \in Request /\ ended'[gen[r]]
      BY <2>1 DEF JoinedInv, TypeOK
    <3>3. QED
      BY <2>1, <3>1, <3>2 DEF JoinedInv
  <2>3. NoLostWakeup'
    <3>. SUFFICES ASSUME NEW r \in Request, pc'[r] = "waiting"
                  PROVE  source'[gen[r]] = "open"
      BY <2>1 DEF NoLostWakeup
    <3>1. pc[r] = "waiting" /\ gen[r] # g
      BY <2>1, Woken
    <3>2. gen[r] \in Request /\ source[gen[r]] = "open"
      BY <3>1 DEF NoLostWakeup, JoinedInv
    <3>3. QED
      BY <2>1, <3>1, <3>2 DEF TypeOK
  <2>4. QED
    BY <2>2, <2>3
<1>7. ASSUME NEW gone \in SUBSET Request, Abort(gone) PROVE JoinedInv' /\ NoLostWakeup'
  BY <1>7 DEF Abort, readerVars, JoinedInv, NoLostWakeup
<1>8. CASE UNCHANGED reuseVars
  BY <1>8 DEF reuseVars, readerVars, JoinedInv, NoLostWakeup
<1>9. QED
  BY <1>1, <1>2, <1>3, <1>4, <1>5, <1>6, <1>7, <1>8 DEF ReuseNext

-----------------------------------------------------------------------------
(* What a request has read. *)

\* The text may grow.
LEMMA ReadsInLonger ==
    ASSUME NEW p \in Seq(Char), NEW q \in Seq(Char), NEW t \in Seq(Char),
           NEW i \in Nat, NEW y \in Seq(Char), NEW o \in Seq(Char),
           Reads(p, q, t, i, y, o), NEW c \in Char
    PROVE  Reads(p, q, Append(t, c), i, y, o)
<1>. DEFINE n == Append(t, c)
<1>1. /\ Len(n) = Len(t) + 1
      /\ \A j \in 1 .. Len(t) : n[j] = t[j]
  OBVIOUS
<1>. HIDE DEF n
<1>2. /\ Len(q) \in Nat /\ Len(p) \in Nat /\ Len(t) \in Nat
      /\ Len(y) \in Nat /\ Len(o) \in Nat
  OBVIOUS
<1>3. /\ Len(q) <= Len(p) /\ Len(p) <= Len(q) + Len(t) /\ i <= Len(t)
      /\ Len(q) + i = Len(p) + Len(o) - Len(y)
      /\ Len(y) = 0 \/ Len(o) = 0
      /\ \A j \in 1 .. Len(q) : p[j] = q[j]
  BY DEF Reads
<1>4. Len(p) <= Len(q) + Len(n) /\ i <= Len(n) /\ Len(y) + i <= Len(t) /\ Len(o) <= i
  BY <1>1, <1>2, <1>3
<1>5. \A j \in 1 .. Len(p) : j > Len(q) => p[j] = n[j - Len(q)]
  <2>. SUFFICES ASSUME NEW j \in 1 .. Len(p), j > Len(q) PROVE p[j] = n[j - Len(q)]
    OBVIOUS
  <2>1. p[j] = t[j - Len(q)]
    BY DEF Reads
  <2>2. j - Len(q) \in 1 .. Len(t)
    BY <1>2, <1>3
  <2>3. QED
    BY <1>1, <2>1, <2>2
<1>6. \A j \in 1 .. Len(y) : y[j] = n[i + j]
  <2>. SUFFICES ASSUME NEW j \in 1 .. Len(y) PROVE y[j] = n[i + j]
    OBVIOUS
  <2>1. y[j] = t[i + j]
    BY DEF Reads
  <2>2. i + j \in 1 .. Len(t)
    BY <1>2, <1>4
  <2>3. QED
    BY <1>1, <2>1, <2>2
<1>7. \A j \in 1 .. Len(o) : o[j] = n[i - Len(o) + j]
  <2>. SUFFICES ASSUME NEW j \in 1 .. Len(o) PROVE o[j] = n[i - Len(o) + j]
    OBVIOUS
  <2>1. o[j] = t[i - Len(o) + j]
    BY DEF Reads
  <2>2. i - Len(o) + j \in 1 .. Len(t)
    BY <1>2, <1>3, <1>4
  <2>3. QED
    BY <1>1, <2>1, <2>2
<1>8. Reads(p, q, n, i, y, o)
  BY <1>3, <1>4, <1>5, <1>6, <1>7 DEF Reads
<1>9. QED
  BY <1>8 DEF n

\* A request that reuses a generator begins at the start of its text, with the characters
\* in typed that its prefix has beyond that of the generator.
LEMMA ReadsFromStart ==
    ASSUME NEW p \in Seq(Char), NEW q \in Seq(Char), NEW t \in Seq(Char),
           Len(q) <= Len(p), StartsWith(q \o t, p)
    PROVE  Reads(p, q, t, 0, SubSeq(p, Len(q) + 1, Len(p)), <<>>)
<1>. DEFINE y == SubSeq(p, Len(q) + 1, Len(p))
<1>1. /\ Len(q \o t) = Len(q) + Len(t)
      /\ \A j \in 1 .. Len(q) + Len(t) :
            (q \o t)[j] = IF j <= Len(q) THEN q[j] ELSE t[j - Len(q)]
  BY ConcatProperties
<1>2. Len(y) = Len(p) - Len(q) /\ \A j \in 1 .. Len(y) : y[j] = p[Len(q) + j]
  OBVIOUS
<1>3. /\ Len(p) <= Len(q) + Len(t)
      /\ \A j \in 1 .. Len(p) : p[j] = IF j <= Len(q) THEN q[j] ELSE t[j - Len(q)]
  BY <1>1 DEF StartsWith
<1>4. \A j \in 1 .. Len(y) : y[j] = t[0 + j]
  BY <1>2, <1>3
<1>5. Len(q) \in Nat /\ Len(p) \in Nat /\ Len(t) \in Nat
  OBVIOUS
<1>6. \A j \in 1 .. Len(q) : p[j] = q[j]
  BY <1>3, <1>5
<1>7. \A j \in 1 .. Len(p) : j > Len(q) => p[j] = t[j - Len(q)]
  BY <1>3, <1>5
<1>. HIDE DEF y
<1>8. Len(<<>>) = 0
  OBVIOUS
<1>9. Reads(p, q, t, 0, y, <<>>)
  BY <1>2, <1>3, <1>4, <1>5, <1>6, <1>7, <1>8 DEF Reads
<1>10. QED
  BY <1>9 DEF y

\* A request whose own generator begins has nothing to read.
LEMMA ReadsNothing ==
    ASSUME NEW p \in Seq(Char) PROVE Reads(p, p, <<>>, 0, <<>>, <<>>)
BY DEF Reads

\* The next item was typed meanwhile.
LEMMA ReadsTyped ==
    ASSUME NEW p \in Seq(Char), NEW q \in Seq(Char), NEW t \in Seq(Char),
           NEW i \in Nat, NEW y \in Seq(Char), NEW o \in Seq(Char),
           Reads(p, q, t, i, y, o), y # <<>>
    PROVE  Reads(p, q, t, i + 1, Tail(y), o)
<1>1. /\ Len(Tail(y)) = Len(y) - 1 /\ Len(y) > 0
      /\ \A j \in 1 .. Len(Tail(y)) : Tail(y)[j] = y[j + 1]
  BY HeadTailProperties
<1>2. Len(o) = 0 /\ i + 1 <= Len(t)
  BY <1>1 DEF Reads
<1>3. \A j \in 1 .. Len(Tail(y)) : Tail(y)[j] = t[(i + 1) + j]
  BY <1>1 DEF Reads
<1>4. QED
  BY <1>1, <1>2, <1>3 DEF Reads

\* What is left of typed is what comes next, so an item is delivered only after all of it.
LEMMA ReadsNext ==
    ASSUME NEW p \in Seq(Char), NEW q \in Seq(Char), NEW t \in Seq(Char),
           NEW i \in Nat, NEW y \in Seq(Char), NEW o \in Seq(Char),
           Reads(p, q, t, i, y, o), i < Len(t),
           ~(y # <<>> /\ Head(y) = t[i + 1])
    PROVE  y = <<>> /\ Reads(p, q, t, i + 1, y, Append(o, t[i + 1]))
<1>. DEFINE n == Append(o, t[i + 1])
<1>1. y = <<>>
  <2>. SUFFICES ASSUME y # <<>> PROVE FALSE
    OBVIOUS
  <2>1. Len(y) > 0 /\ Head(y) = y[1]
    OBVIOUS
  <2>2. y[1] = t[i + 1]
    BY <2>1 DEF Reads
  <2>3. QED
    BY <2>1, <2>2
<1>2. t[i + 1] \in Char /\ Len(y) = 0
  BY <1>1
<1>3. /\ Len(n) = Len(o) + 1 /\ n[Len(o) + 1] = t[i + 1]
      /\ \A j \in 1 .. Len(o) : n[j] = o[j]
  BY <1>2
<1>4. Len(o) \in Nat /\ Len(q) \in Nat /\ Len(p) \in Nat /\ Len(t) \in Nat
  OBVIOUS
<1>. HIDE DEF n
<1>5. \A j \in 1 .. Len(o) : o[j] = t[i - Len(o) + j]
  BY DEF Reads
<1>6. \A j \in 1 .. Len(n) : n[j] = t[(i + 1) - Len(n) + j]
  <2>. SUFFICES ASSUME NEW j \in 1 .. Len(n) PROVE n[j] = t[(i + 1) - Len(n) + j]
    OBVIOUS
  <2>1. (i + 1) - Len(n) + j = i - Len(o) + j
    BY <1>3, <1>4
  <2>2. CASE j \in 1 .. Len(o)
    BY <1>3, <1>5, <2>1, <2>2
  <2>3. CASE j = Len(o) + 1
    <3>1. i - Len(o) + j = i + 1
      BY <1>4, <2>3
    <3>2. QED
      BY <1>3, <2>1, <2>3, <3>1
  <2>4. j \in 1 .. Len(o) \/ j = Len(o) + 1
    BY <1>3, <1>4
  <2>5. QED
    BY <2>2, <2>3, <2>4
<1>7. /\ Len(q) <= Len(p) /\ Len(p) <= Len(q) + Len(t)
      /\ Len(q) + i = Len(p) + Len(o) - Len(y)
      /\ \A j \in 1 .. Len(q) : p[j] = q[j]
      /\ \A j \in 1 .. Len(p) : j > Len(q) => p[j] = t[j - Len(q)]
  BY DEF Reads
<1>8. Len(q) + (i + 1) = Len(p) + Len(n) - Len(y) /\ i + 1 <= Len(t)
  BY <1>2, <1>3, <1>4, <1>7
<1>9. \A j \in 1 .. Len(y) : y[j] = t[(i + 1) + j]
  BY <1>2
<1>10. Reads(p, q, t, i + 1, y, n)
  BY <1>2, <1>6, <1>7, <1>8, <1>9 DEF Reads
<1>11. QED
  BY <1>1, <1>10 DEF n

\* Prefix and completion are the beginning of what the model was asked and answered.
LEMMA ReadsAnswer ==
    ASSUME NEW p \in Seq(Char), NEW q \in Seq(Char), NEW t \in Seq(Char),
           NEW i \in Nat, NEW y \in Seq(Char), NEW o \in Seq(Char),
           Reads(p, q, t, i, y, o)
    PROVE  /\ StartsWith(q \o t, p \o o)
           /\ i = Len(t) => Len(p) + Len(o) = Len(q) + Len(t)
<1>1. PICK P \in Nat : P = Len(p)
  OBVIOUS
<1>2. PICK Q \in Nat : Q = Len(q)
  OBVIOUS
<1>3. PICK T \in Nat : T = Len(t)
  OBVIOUS
<1>4. PICK Y \in Nat : Y = Len(y)
  OBVIOUS
<1>5. PICK O \in Nat : O = Len(o)
  OBVIOUS
<1>6. /\ Len(q \o t) = Q + T /\ Len(p \o o) = P + O
      /\ \A j \in 1 .. Q + T : (q \o t)[j] = IF j <= Q THEN q[j] ELSE t[j - Q]
      /\ \A j \in 1 .. P + O : (p \o o)[j] = IF j <= P THEN p[j] ELSE o[j - P]
  BY <1>1, <1>2, <1>3, <1>5, ConcatProperties
<1>7. Q <= P /\ P <= Q + T /\ i <= T /\ Q + i = P + O - Y /\ (Y = 0 \/ O = 0)
  BY <1>1, <1>2, <1>3, <1>4, <1>5 DEF Reads
<1>8. /\ \A j \in 1 .. Q : p[j] = q[j]
      /\ \A j \in 1 .. P : j > Q => p[j] = t[j - Q]
      /\ \A j \in 1 .. O : o[j] = t[i - O + j]
  BY <1>1, <1>2, <1>5 DEF Reads
<1>9. P + O <= Q + T /\ (i = T => P + O = Q + T)
  BY <1>7
<1>10. ASSUME NEW j \in 1 .. P + O PROVE (q \o t)[j] = (p \o o)[j]
  <2>1. CASE j <= P
    <3>1. j \in 1 .. P /\ (j <= Q => j \in 1 .. Q) /\ j \in 1 .. Q + T
      BY <1>9, <2>1
    <3>2. QED
      BY <1>6, <1>8, <2>1, <3>1
  <2>2. CASE ~(j <= P)
    <3>1. j - P \in 1 .. O /\ ~(j <= Q) /\ j \in 1 .. Q + T
      BY <1>7, <1>9, <2>2
    <3>2. i - O + (j - P) = j - Q
      BY <1>7, <3>1
    <3>3. QED
      BY <1>6, <1>8, <2>2, <3>1, <3>2
  <2>3. QED
    BY <2>1, <2>2
<1>11. StartsWith(q \o t, p \o o)
  BY <1>6, <1>9, <1>10 DEF StartsWith
<1>12. QED
  BY <1>1, <1>2, <1>3, <1>5, <1>9, <1>11

\* A request none of whose state, and none of whose text, changes reads on.
LEMMA ReadsFrame ==
    ASSUME NEW r, NEW g, ReadsOn(r, g),
           prefix' = prefix, text'[g] = text[g], pos'[r] = pos[r], typed'[r] = typed[r],
           out'[r] = out[r]
    PROVE  ReadsOn(r, g)'
BY DEF ReadsOn

LEMMA ReadingStep ==
    ASSUME TypeOK, GeneratorsInv, JoinedInv, OnlyCurrentRuns, ReadingInv,
           [ReuseNext]_reuseVars
    PROVE  ReadingInv'
<1>. USE ReuseAssumption
<1>1. ASSUME NEW r \in Request, Begin(r) PROVE ReadingInv'
  <2>1. /\ pc[r] = "new" /\ pos[r] = 0 /\ typed[r] = <<>> /\ out[r] = <<>>
        /\ source[r] = "none" /\ prefix[r] \in Seq(Char)
    BY <1>1 DEF Begin, JoinedInv, TypeOK
  <2>2. UNCHANGED <<prefix, pos, out, text>>
    BY <1>1 DEF Begin
  <2>3. ASSUME NEW q \in Request \ {r}, gen'[q] # None PROVE ReadsOn(q, gen[q])'
    <3>1. gen'[q] = gen[q] /\ typed'[q] = typed[q]
      BY <1>1 DEF Begin, TypeOK
    <3>2. ReadsOn(q, gen[q])
      BY <2>3, <3>1 DEF ReadingInv
    <3>3. QED
      BY <2>2, <3>1, <3>2, ReadsFrame DEF ReadsOn
  <2>4. CASE ShouldReuse(prefix[r])
    <3>1. current \in Request /\ text[current] = pending
      BY <2>4 DEF ShouldReuse, TypeOK, GeneratorsInv
    <3>2. /\ prefix[current] \in Seq(Char) /\ text[current] \in Seq(Char)
          /\ Len(prefix[current]) <= Len(prefix[r])
          /\ StartsWith(prefix[current] \o text[current], prefix[r])
      BY <2>4, <3>1 DEF ShouldReuse, TypeOK
    <3>3. Reads(prefix[r], prefix[current], text[current], 0,
                TypedSince(prefix[r]), <<>>)
      BY <2>1, <3>2, ReadsFromStart DEF TypedSince
    <3>4. gen'[r] = current /\ typed'[r] = TypedSince(prefix[r])
      BY <1>1, <2>4 DEF Begin, TypeOK
    <3>5. ReadsOn(r, gen[r])'
      BY <2>1, <2>2, <3>3, <3>4 DEF ReadsOn
    <3>6. QED
      BY <2>3, <3>5 DEF ReadingInv
  <2>5. CASE ~ShouldReuse(prefix[r])
    <3>1. gen'[r] = r /\ typed' = typed
      BY <1>1, <2>5 DEF Begin, TypeOK
    <3>2. text[r] = <<>>
      BY <2>1 DEF GeneratorsInv
    <3>3. Reads(prefix[r], prefix[r], <<>>, 0, <<>>, <<>>)
      BY <2>1, ReadsNothing
    <3>4. ReadsOn(r, gen[r])'
      BY <2>1, <2>2, <3>1, <3>2, <3>3 DEF ReadsOn
    <3>5. QED
      BY <2>3, <3>4 DEF ReadingInv
  <2>6. QED
    BY <2>4, <2>5
<1>2. ASSUME NEW r \in Request, Take(r) PROVE ReadingInv'
  <2>1. /\ gen[r] \in Request /\ gen[r] # None /\ pos[r] # Len(text[gen[r]])
        /\ pos' = [pos EXCEPT ![r] = @ + 1]
        /\ UNCHANGED <<prefix, gen, text>>
    BY <1>2 DEF Take, CaughtUp, JoinedInv
  <2>2. ASSUME NEW q \in Request \ {r}, gen'[q] # None PROVE ReadsOn(q, gen[q])'
    <3>1. pos'[q] = pos[q] /\ typed'[q] = typed[q] /\ out'[q] = out[q]
      BY <1>2 DEF Take, TypeOK
    <3>2. ReadsOn(q, gen[q])
      BY <2>1, <2>2 DEF ReadingInv
    <3>3. QED
      BY <2>1, <3>1, <3>2 DEF ReadsOn
  <2>3. /\ prefix[r] \in Seq(Char) /\ prefix[gen[r]] \in Seq(Char)
        /\ text[gen[r]] \in Seq(Char) /\ pos[r] \in Nat
        /\ typed[r] \in Seq(Char) /\ out[r] \in Seq(Char)
    BY <2>1 DEF TypeOK
  <2>4. Reads(prefix[r], prefix[gen[r]], text[gen[r]], pos[r], typed[r], out[r])
    BY <2>1 DEF ReadingInv, ReadsOn
  <2>5. pos[r] < Len(text[gen[r]])
    <3>1. pos[r] <= Len(text[gen[r]])
      BY <2>4 DEF Reads
    <3>2. Len(text[gen[r]]) \in Nat
      BY <2>3, LenProperties
    <3>3. QED
      BY <2>1, <2>3, <3>1, <3>2
  <2>6. CASE AlreadyTyped(r) /\ typed' = [typed EXCEPT ![r] = Tail(@)] /\ UNCHANGED out
    <3>1. Reads(prefix[r], prefix[gen[r]], text[gen[r]], pos[r] + 1, Tail(typed[r]), out[r])
      BY <2>3, <2>4, <2>6, ReadsTyped DEF AlreadyTyped
    <3>2. pos'[r] = pos[r] + 1 /\ typed'[r] = Tail(typed[r])
      BY <2>1, <2>6 DEF TypeOK
    <3>3. ReadsOn(r, gen[r])'
      BY <2>1, <2>6, <3>1, <3>2 DEF ReadsOn
    <3>4. QED
      BY <2>2, <3>3 DEF ReadingInv
  <2>7. CASE /\ ~AlreadyTyped(r) /\ UNCHANGED typed
             /\ out' = [out EXCEPT ![r] = Append(@, NextItem(r))]
    <3>1. ~(typed[r] # <<>> /\ Head(typed[r]) = text[gen[r]][pos[r] + 1])
      BY <2>7 DEF AlreadyTyped, NextItem
    <3>2. Reads(prefix[r], prefix[gen[r]], text[gen[r]], pos[r] + 1, typed[r],
                Append(out[r], text[gen[r]][pos[r] + 1]))
      BY <2>3, <2>4, <2>5, <3>1, ReadsNext
    <3>3. pos'[r] = pos[r] + 1 /\ out'[r] = Append(out[r], text[gen[r]][pos[r] + 1])
      BY <2>1, <2>7 DEF TypeOK, NextItem
    <3>4. ReadsOn(r, gen[r])'
      BY <2>1, <2>7, <3>2, <3>3 DEF ReadsOn
    <3>5. QED
      BY <2>2, <3>4 DEF ReadingInv
  <2>8. QED
    BY <1>2, <2>6, <2>7 DEF Take
<1>3. ASSUME NEW g \in Request, NEW c \in Char, NEW timesUp \in BOOLEAN, Push(g, c, timesUp)
      PROVE  ReadingInv'
  <2>1. /\ text' = [text EXCEPT ![g] = Append(@, c)]
        /\ UNCHANGED <<prefix, gen, pos, typed, out>>
    BY <1>3 DEF Push, readerVars
  <2>. SUFFICES ASSUME NEW r \in Request, gen[r] # None PROVE ReadsOn(r, gen[r])'
    BY <2>1 DEF ReadingInv
  <2>2. gen[r] \in Request /\ ReadsOn(r, gen[r])
    BY DEF ReadingInv, TypeOK
  <2>3. CASE gen[r] # g
    <3>1. text'[gen[r]] = text[gen[r]]
      BY <2>1, <2>2, <2>3 DEF TypeOK
    <3>2. QED
      BY <2>1, <2>2, <3>1 DEF ReadsOn
  <2>4. CASE gen[r] = g
    <3>1. /\ prefix[r] \in Seq(Char) /\ prefix[g] \in Seq(Char) /\ text[g] \in Seq(Char)
          /\ pos[r] \in Nat /\ typed[r] \in Seq(Char) /\ out[r] \in Seq(Char)
      BY DEF TypeOK
    <3>2. Reads(prefix[r], prefix[g], Append(text[g], c), pos[r], typed[r], out[r])
      BY <2>2, <2>4, <3>1, ReadsInLonger DEF ReadsOn
    <3>3. text'[g] = Append(text[g], c)
      BY <2>1 DEF TypeOK
    <3>4. QED
      BY <2>1, <2>4, <3>2, <3>3 DEF ReadsOn
  <2>5. QED
    BY <2>3, <2>4
<1>4. CASE UNCHANGED <<prefix, gen, pos, typed, out, text>>
  BY <1>4 DEF ReadingInv, ReadsOn
<1>5. ASSUME NEW r \in Request, Wait(r) PROVE ReadingInv'
  BY <1>4, <1>5 DEF Wait, readerVars
<1>6. ASSUME NEW r \in Request, NEW full \in BOOLEAN, Leave(r, full) \/ EndOfStream(r, full)
      PROVE  ReadingInv'
  BY <1>4, <1>6 DEF Leave, EndOfStream, readerVars
<1>7. ASSUME NEW g \in Request, SourceEnds(g) PROVE ReadingInv'
  BY <1>4, <1>7 DEF SourceEnds, readerVars
<1>8. ASSUME NEW gone \in SUBSET Request, Abort(gone) PROVE ReadingInv'
  BY <1>4, <1>8 DEF Abort, readerVars
<1>9. CASE UNCHANGED reuseVars
  BY <1>4, <1>9 DEF reuseVars, readerVars
<1>10. QED
  BY <1>1, <1>2, <1>3, <1>5, <1>6, <1>7, <1>8, <1>9 DEF ReuseNext

-----------------------------------------------------------------------------
(* The invariant and what follows from it. *)

LEMMA InitInvariant == ReuseInit => IInv
<1>. SUFFICES ASSUME ReuseInit PROVE IInv
  OBVIOUS
<1>. USE ReuseAssumption
<1>1. TypeOK
  <2>1. UNION {Prefix[r] : r \in Request} \subseteq Seq(Char)
    OBVIOUS
  <2>2. prefix \in [Request -> Seq(Char)]
    BY <2>1 DEF ReuseInit
  <2>3. QED
    BY <2>2 DEF ReuseInit, TypeOK, Phase
<1>2. GeneratorsInv /\ JoinedInv /\ OnlyCurrentRuns /\ NoLostWakeup
  BY DEF ReuseInit, GeneratorsInv, JoinedInv, OnlyCurrentRuns, NoLostWakeup
<1>3. ReadingInv
  BY DEF ReuseInit, ReadingInv
<1>4. QED
  BY <1>1, <1>2, <1>3 DEF IInv

LEMMA StepInvariant == IInv /\ [ReuseNext]_reuseVars => IInv'
BY TypeStep, GeneratorsStep, JoinedStep, ReadingStep DEF IInv

\* In every run the invariant holds: requests, generators and the manager agree.
THEOREM Invariant == ReuseSpec => []IInv
BY InitInvariant, StepInvariant, PTL DEF ReuseSpec

\* The variables keep their types whatever is typed and however requests overlap.
THEOREM TypeCorrect == ReuseSpec => []TypeOK
<1>1. IInv => TypeOK
  BY DEF IInv
<1>2. QED
  BY <1>1, Invariant, PTL

LEMMA ReadingAnswer ==
    ASSUME IInv, NEW r \in Request, gen[r] # None
    PROVE  /\ StartsWith(prefix[gen[r]] \o text[gen[r]], prefix[r] \o out[r])
           /\ pos[r] = Len(text[gen[r]]) =>
                Len(prefix[r]) + Len(out[r]) = Len(prefix[gen[r]]) + Len(text[gen[r]])
<1>1. PICK p \in Seq(Char), q \in Seq(Char), t \in Seq(Char),
           i \in Nat, y \in Seq(Char), o \in Seq(Char) :
        /\ p = prefix[r] /\ q = prefix[gen[r]] /\ t = text[gen[r]]
        /\ i = pos[r] /\ y = typed[r] /\ o = out[r]
  BY DEF IInv, TypeOK
<1>2. Reads(p, q, t, i, y, o)
  BY <1>1 DEF IInv, ReadingInv, ReadsOn
<1>3. StartsWith(q \o t, p \o o) /\ (i = Len(t) => Len(p) + Len(o) = Len(q) + Len(t))
  BY <1>2, ReadsAnswer
<1>4. QED
  BY <1>1, <1>3

\* A completion continues the text before the cursor in the words of the one answer it is
\* read from, also when another request asked for that answer.
THEOREM AnswerContinuing == ReuseSpec => []AnswerContinues
<1>1. IInv => AnswerContinues
  BY ReadingAnswer DEF AnswerContinues
<1>2. QED
  BY <1>1, Invariant, PTL

\* A request that read its stream to the end has all the model said for it.
THEOREM MissingNothing == ReuseSpec => []NothingMissed
<1>1. IInv => NothingMissed
  <2>. SUFFICES ASSUME IInv, NEW r \in Request, pc[r] = "complete"
                PROVE  Len(prefix[r]) + Len(out[r])
                        = Len(prefix[gen[r]]) + Len(text[gen[r]])
    BY DEF NothingMissed
  <2>1. gen[r] \in Request /\ pos[r] = Len(text[gen[r]])
    BY DEF IInv, JoinedInv
  <2>2. gen[r] # None
    BY <2>1, ReuseAssumption
  <2>3. QED
    BY <2>1, <2>2, ReadingAnswer
<1>2. QED
  BY <1>1, Invariant, PTL

\* No generator but the one the manager has is left running.
THEOREM OneRuns == ReuseSpec => []OnlyCurrentRuns
<1>1. IInv => OnlyCurrentRuns
  BY DEF IInv
<1>2. QED
  BY <1>1, Invariant, PTL

\* No request waits for a source that is done.
THEOREM WakeupKept == ReuseSpec => []NoLostWakeup
<1>1. IInv => NoLostWakeup
  BY DEF IInv
<1>2. QED
  BY <1>1, Invariant, PTL

-----------------------------------------------------------------------------
(* Requests are readers of shared streams. *)

StatusOf == [g \in Request |-> IF source[g] = "none" THEN "none"
                               ELSE IF ended[g] THEN "closed" ELSE "open"]

PhaseOf == [r \in Request |-> CASE pc[r] = "new" -> "out"
                                [] pc[r] \in {"reading", "waiting"} -> "in"
                                [] pc[r] = "left" -> "left"
                                [] pc[r] = "complete" -> "through"]

AllClosed == [g \in Request |-> IF StatusOf[g] = "open" THEN "closed" ELSE StatusOf[g]]

\* To stop the manager's generator is to close whatever is open.
LEMMA StopCloses ==
    ASSUME TypeOK, OnlyCurrentRuns, source' = source,
           ended' \in {ended, [ended EXCEPT ![current] = TRUE]},
           ended' # ended => current # None
    PROVE  StatusOf' \in {StatusOf, AllClosed}
<1>1. CASE ended' = ended
  BY <1>1 DEF StatusOf
<1>2. CASE ended' = [ended EXCEPT ![current] = TRUE] /\ current # None
  <2>1. ASSUME NEW g \in Request PROVE StatusOf'[g] = AllClosed[g]
    BY <1>2 DEF StatusOf, AllClosed, TypeOK, OnlyCurrentRuns
  <2>2. StatusOf' = AllClosed
    BY <2>1 DEF StatusOf, AllClosed
  <2>3. QED
    BY <2>2
<1>3. QED
  BY <1>1, <1>2

\* A waiting reader is as much in its stream as one that reads.
LEMMA WakeKeepsPhase ==
    ASSUME TypeOK, NEW g \in Request, Wake(g) PROVE PhaseOf' = PhaseOf
<1>1. ASSUME NEW r \in Request PROVE PhaseOf'[r] = PhaseOf[r]
  BY DEF PhaseOf, Wake, TypeOK, Phase
<1>2. QED
  BY <1>1 DEF PhaseOf

LEMMA SharedInitially == ReuseInit => Shared!SharedInit
BY DEF ReuseInit, Shared!SharedInit

LEMMA SharedStep ==
    ASSUME IInv, [ReuseNext]_reuseVars
    PROVE  [Shared!SharedNext]_(Shared!sharedVars)
<1>. USE ReuseAssumption DEF IInv
<1>1. ASSUME NEW r \in Request, Begin(r) PROVE Shared!SharedNext
  <2>1. pc[r] = "new" /\ source[r] = "none" /\ UNCHANGED <<text, pos>>
    BY <1>1 DEF Begin, JoinedInv
  <2>2. PhaseOf[r] = "out" /\ PhaseOf' = [PhaseOf EXCEPT ![r] = "in"]
    <3>1. pc' = [pc EXCEPT ![r] = "reading"]
      BY <1>1 DEF Begin
    <3>2. PhaseOf[r] = "out"
      BY <2>1 DEF PhaseOf
    <3>3. ASSUME NEW q \in Request PROVE PhaseOf'[q] = [PhaseOf EXCEPT ![r] = "in"][q]
      BY <3>1 DEF PhaseOf, TypeOK, Phase
    <3>4. QED
      BY <3>2, <3>3 DEF PhaseOf
  <2>3. CASE ShouldReuse(prefix[r])
    <3>1. /\ current \in Request /\ gen' = [gen EXCEPT ![r] = current]
          /\ UNCHANGED <<ended, source>>
      BY <1>1, <2>3 DEF Begin, ShouldReuse, TypeOK
    <3>2. PICK s \in Request : s = current
      BY <3>1
    <3>3. StatusOf[s] # "none" /\ StatusOf' = StatusOf
      BY <3>1, <3>2 DEF StatusOf, GeneratorsInv
    <3>4. Shared!Join(r, s)
      BY <2>1, <2>2, <3>1, <3>2, <3>3 DEF Shared!Join, StatusOf, PhaseOf
    <3>5. QED
      BY <3>4 DEF Shared!SharedNext
  <2>4. CASE ~ShouldReuse(prefix[r])
    <3>1. /\ gen' = [gen EXCEPT ![r] = r] /\ source' = [source EXCEPT ![r] = "open"]
          /\ ended' = IF current = None THEN ended ELSE [ended EXCEPT ![current] = TRUE]
          /\ current # r /\ ~ended[r]
      BY <1>1, <2>1, <2>4 DEF Begin, GeneratorsInv
    <3>2. StatusOf[r] = "none" /\ StatusOf' = [AllClosed EXCEPT ![r] = "open"]
      <4>1. ASSUME NEW g \in Request PROVE StatusOf'[g] = [AllClosed EXCEPT ![r] = "open"][g]
        BY <3>1 DEF StatusOf, AllClosed, TypeOK, OnlyCurrentRuns
      <4>2. QED
        BY <2>1, <4>1 DEF StatusOf, AllClosed
    <3>3. Shared!Join(r, r)
      BY <2>1, <2>2, <3>1, <3>2 DEF Shared!Join, Shared!AllClosed, AllClosed, StatusOf, PhaseOf
    <3>4. QED
      BY <3>3 DEF Shared!SharedNext
  <2>5. QED
    BY <2>3, <2>4
<1>2. ASSUME NEW r \in Request, Take(r) PROVE Shared!SharedNext
  <2>1. /\ pc[r] = "reading" /\ gen[r] \in Request /\ gen[r] # None
        /\ pos[r] # Len(text[gen[r]]) /\ pos' = [pos EXCEPT ![r] = @ + 1]
        /\ UNCHANGED <<pc, gen, text, ended, source>>
    BY <1>2 DEF Take, CaughtUp, JoinedInv
  <2>2. pos[r] < Len(text[gen[r]])
    <3>1. pos[r] \in Nat /\ pos[r] <= Len(text[gen[r]]) /\ text[gen[r]] \in Seq(Char)
      BY <2>1 DEF TypeOK, ReadingInv, ReadsOn, Reads
    <3>2. Len(text[gen[r]]) \in Nat
      BY <3>1, LenProperties
    <3>3. QED
      BY <2>1, <3>1, <3>2
  <2>3. PhaseOf[r] = "in"
    BY <2>1 DEF PhaseOf
  <2>4. Shared!Receive(r)
    BY <2>1, <2>2, <2>3 DEF Shared!Receive, PhaseOf
  <2>5. QED
    BY <2>4 DEF Shared!SharedNext
<1>3. ASSUME NEW r \in Request, NEW full \in BOOLEAN, Leave(r, full) \/ EndOfStream(r, full)
      PROVE  Shared!SharedNext
  <2>1. /\ pc[r] = "reading" /\ UNCHANGED <<text, source, gen, pos>>
        /\ ended' \in {ended, [ended EXCEPT ![current] = TRUE]}
        /\ ended' # ended => current # None
    BY <1>3 DEF Leave, EndOfStream, FullStop, readerVars, TypeOK
  <2>2. StatusOf' \in {StatusOf, AllClosed}
    BY <2>1, StopCloses
  <2>3. Shared!MayClose
    BY <2>2 DEF Shared!MayClose, Shared!AllClosed, StatusOf, AllClosed
  <2>4. PhaseOf[r] = "in" /\ gen[r] \in Request
    BY <2>1 DEF PhaseOf, JoinedInv
  <2>5. CASE Leave(r, full)
    <3>1. pc' = [pc EXCEPT ![r] = "left"]
      BY <2>5 DEF Leave
    <3>2. ASSUME NEW q \in Request PROVE PhaseOf'[q] = [PhaseOf EXCEPT ![r] = "left"][q]
      BY <3>1 DEF PhaseOf, TypeOK, Phase
    <3>3. PhaseOf' = [PhaseOf EXCEPT ![r] = "left"]
      BY <3>2 DEF PhaseOf
    <3>4. Shared!Leave(r)
      BY <2>1, <2>3, <2>4, <3>3 DEF Shared!Leave, PhaseOf
    <3>5. QED
      BY <3>4 DEF Shared!SharedNext
  <2>6. CASE EndOfStream(r, full)
    <3>1. /\ pc' = [pc EXCEPT ![r] = "complete"]
          /\ ended[gen[r]] /\ pos[r] = Len(text[gen[r]])
      BY <2>6 DEF EndOfStream, CaughtUp
    <3>2. ASSUME NEW q \in Request PROVE PhaseOf'[q] = [PhaseOf EXCEPT ![r] = "through"][q]
      BY <3>1 DEF PhaseOf, TypeOK, Phase
    <3>3. PhaseOf' = [PhaseOf EXCEPT ![r] = "through"]
      BY <3>2 DEF PhaseOf
    <3>4. StatusOf[gen[r]] = "closed"
      BY <2>1, <2>4, <3>1 DEF StatusOf, JoinedInv
    <3>5. Shared!Through(r)
      BY <2>1, <2>3, <2>4, <3>1, <3>3, <3>4 DEF Shared!Through, PhaseOf, StatusOf
    <3>6. QED
      BY <3>5 DEF Shared!SharedNext
  <2>7. QED
    BY <1>3, <2>5, <2>6
<1>4. ASSUME NEW g \in Request, NEW c \in Char, NEW timesUp \in BOOLEAN, Push(g, c, timesUp)
      PROVE  Shared!SharedNext
  <2>1. current = g /\ current # None
    BY <1>4, PushToCurrent
  <2>2. /\ source[g] = "open" /\ ~ended[g] /\ Wake(g)
        /\ text' = [text EXCEPT ![g] = Append(@, c)]
        /\ ended' \in {ended, [ended EXCEPT ![current] = TRUE]}
        /\ UNCHANGED <<source, gen, pos>>
    BY <1>4 DEF Push, readerVars
  <2>3. StatusOf' \in {StatusOf, AllClosed}
    BY <2>1, <2>2, StopCloses
  <2>4. Shared!MayClose
    BY <2>3 DEF Shared!MayClose, Shared!AllClosed, StatusOf, AllClosed
  <2>5. StatusOf[g] = "open" /\ PhaseOf' = PhaseOf
    BY <2>2, WakeKeepsPhase DEF StatusOf
  <2>6. Shared!Bring(g, c)
    BY <2>2, <2>4, <2>5 DEF Shared!Bring, StatusOf, PhaseOf
  <2>7. QED
    BY <2>6 DEF Shared!SharedNext
<1>5. ASSUME NEW g \in Request, SourceEnds(g) PROVE [Shared!SharedNext]_(Shared!sharedVars)
  <2>1. /\ source[g] = "open" /\ source' = [source EXCEPT ![g] = "closed"]
        /\ ended' = [ended EXCEPT ![g] = TRUE] /\ Wake(g)
        /\ UNCHANGED <<text, gen, pos>>
    BY <1>5 DEF SourceEnds, readerVars
  <2>2. PhaseOf' = PhaseOf
    BY <2>1, WakeKeepsPhase
  <2>3. CASE ended[g]
    <3>1. ASSUME NEW h \in Request PROVE StatusOf'[h] = StatusOf[h]
      BY <2>1, <2>3 DEF StatusOf, TypeOK
    <3>2. StatusOf' = StatusOf
      BY <3>1 DEF StatusOf
    <3>3. QED
      BY <2>1, <2>2, <3>2 DEF Shared!sharedVars, StatusOf, PhaseOf
  <2>4. CASE ~ended[g]
    <3>1. ASSUME NEW h \in Request PROVE StatusOf'[h] = AllClosed[h]
      BY <2>1, <2>4 DEF StatusOf, AllClosed, TypeOK, OnlyCurrentRuns
    <3>2. StatusOf' = AllClosed
      BY <3>1 DEF StatusOf, AllClosed
    <3>3. Shared!Close
      BY <2>1, <2>2, <3>2 DEF Shared!Close, Shared!AllClosed, AllClosed, StatusOf, PhaseOf
    <3>4. QED
      BY <3>3 DEF Shared!SharedNext
  <2>5. QED
    BY <2>3, <2>4
<1>6. ASSUME NEW r \in Request, Wait(r) PROVE UNCHANGED Shared!sharedVars
  <2>1. pc[r] = "reading" /\ pc' = [pc EXCEPT ![r] = "waiting"]
    BY <1>6 DEF Wait
  <2>2. ASSUME NEW q \in Request PROVE PhaseOf'[q] = PhaseOf[q]
    BY <2>1 DEF PhaseOf, TypeOK, Phase
  <2>3. PhaseOf' = PhaseOf
    BY <2>2 DEF PhaseOf
  <2>4. QED
    BY <1>6, <2>3 DEF Wait, readerVars, Shared!sharedVars, PhaseOf
<1>7. ASSUME NEW gone \in SUBSET Request, Abort(gone) PROVE UNCHANGED Shared!sharedVars
  BY <1>7 DEF Abort, readerVars, Shared!sharedVars
<1>8. CASE UNCHANGED reuseVars
  BY <1>8 DEF reuseVars, readerVars, Shared!sharedVars
<1>9. QED
  BY <1>1, <1>2, <1>3, <1>4, <1>5, <1>6, <1>7, <1>8 DEF ReuseNext

\* Buffers, listeners and promises give every request what a reader of shared streams is
\* promised: the items of one stream from the first one on, in order, to the end.
THEOREM Sharing == ReuseSpec => SharesStreams
<1>1. ReuseInit => Shared!SharedInit
  BY SharedInitially
<1>2. IInv /\ [ReuseNext]_reuseVars => [Shared!SharedNext]_(Shared!sharedVars)
  BY SharedStep
<1>3. QED
  BY <1>1, <1>2, Invariant, PTL DEF ReuseSpec, SharesStreams, Shared!SharedSpec

=============================================================================
