--------------------------- MODULE AgentChat_proofs ---------------------------
(***************************************************************************)
(* Proofs about AgentChat, for any number of loops, calls and messages.    *)
(* First, with all races: the types of its variables, and that no tool     *)
(* call starts to run without permission.  Then, where the user waits for  *)
(* a loop and a rejected call ends the turn: one loop drives the turn, and *)
(* from it what a turn promises of its messages, its calls and its end.    *)
(***************************************************************************)
EXTENDS AgentChat, SequenceTheorems, TLAPS

Judging == {"policy", "exec", "save"}

\* What a loop still has to do was in an answer, and what it would run without asking
\* is allowed without permission.
Sound(x, st, kd) ==
    /\ x.pc \in Judging => \A t \in x.todo : st[t] # "none"
    /\ x.pc \in {"exec", "save"} => \A t \in x.todo \ x.asks : kd[t] \in {"edit", "free"}

JudgedInv == \A l \in Loop : Sound(loop[l], status, kind)

IInv == TypeOK /\ JudgedInv

\* Statuses change, but a call is not forgotten and none starts to run.
Mild(st, new) ==
    \A t \in Call : /\ new[t] = "none" => st[t] = "none"
                    /\ new[t] = "calling" => st[t] = "calling"

\* A loop goes on with what it had judged.
GoesOn(x, new) ==
    /\ new.todo = x.todo /\ new.asks = x.asks
    /\ new.pc = x.pc \/ (x.pc = "exec" /\ new.pc = "save")

KindsKept == \A t \in Call : status[t] # "none" => kind'[t] = kind[t]

\* The steps that judge nothing and run nothing.
Calm ==
    /\ TypeOK'
    /\ Mild(status, status')
    /\ KindsKept
    /\ \A l \in Loop : GoesOn(loop[l], loop'[l]) \/ loop'[l].pc \notin Judging

LEMMA CalmKeeps == ASSUME IInv, Calm PROVE IInv'
<1>. SUFFICES ASSUME NEW l \in Loop PROVE Sound(loop[l], status, kind)'
  BY DEF IInv, JudgedInv, Calm
<1>1. loop[l] \in LoopState /\ Sound(loop[l], status, kind)
  BY DEF IInv, JudgedInv, TypeOK
<1>2. loop[l].todo \subseteq Call
  BY <1>1 DEF LoopState
<1>3. CASE GoesOn(loop[l], loop'[l])
  BY <1>1, <1>2, <1>3 DEF Calm, GoesOn, Mild, KindsKept, Sound, Judging
<1>4. CASE loop'[l].pc \notin Judging
  BY <1>4 DEF Sound, Judging
<1>5. QED
  BY <1>3, <1>4 DEF Calm

-----------------------------------------------------------------------------
(* The reducers. *)

LEMMA MarkMild ==
    ASSUME NEW st \in [Call -> Status], NEW T, NEW s \in Status \ {"none", "calling"}
    PROVE  Mark(st, T, s) \in [Call -> Status] /\ Mild(st, Mark(st, T, s))
BY DEF Mark, Mild, Present, Status

LEMMA ForgetMild ==
    ASSUME NEW st \in [Call -> Status], NEW h
    PROVE  Forget(st, h) \in [Call -> Status] /\ Mild(st, Forget(st, h))
BY DEF Forget, Mild, Status

LEMMA MildTransitive ==
    ASSUME NEW a, NEW b, NEW c, Mild(a, b), Mild(b, c) PROVE Mild(a, c)
BY DEF Mild

LEMMA MildSame == ASSUME NEW a PROVE Mild(a, a)
BY DEF Mild

LEMMA ItemsTyped == User \in Item /\ Assistant \in Item
BY DEF User, Assistant, Item, Role

LEMMA FirstTyped ==
    ASSUME NEW h \in Seq(Item), NEW n \in Int, n <= Len(h)
    PROVE  SubSeq(h, 1, n) \in Seq(Item)
<1>1. \A i \in 1 .. n : h[i] \in Item
  OBVIOUS
<1>2. QED
  BY <1>1, SubSeqProperties

LEMMA DanglingTyped ==
    ASSUME NEW h \in Seq(Item), NEW st PROVE Dangling(h, st) \in Seq(Item)
<1>. DEFINE last == h[Len(h)]
            one == SubSeq(h, 1, Len(h) - 1)
            two == SubSeq(h, 1, Len(h) - 2)
<1>1. one \in Seq(Item) /\ two \in Seq(Item)
  BY FirstTyped
<1>. HIDE DEF one, two
<1>2. CASE Len(h) < 2
  BY <1>2 DEF Dangling
<1>3. CASE ~(Len(h) < 2)
  <2>1. Len(h) >= 2 /\ last \in Item
    BY <1>3
  <2>2. last.role \in {"user", "assistant", "tool"}
    BY <2>1 DEF Item, Role
  <2>. HIDE DEF last
  <2>3. Dangling(h, st) = CASE last.role = "user" -> one
                            [] last.role = "tool" -> h
                            [] last.role = "assistant" ->
                                 IF last.text \/ \E t \in last.calls : st[t] # "generating"
                                 THEN h
                                 ELSE IF h[Len(h) - 1].role = "user" THEN two ELSE one
    BY <1>3, <2>1, <2>2 DEF Dangling, last, one, two
  <2>4. QED
    BY <1>1, <2>2, <2>3
<1>4. QED
  BY <1>2, <1>3

LEMMA ClearedMild ==
    ASSUME NEW h, NEW st \in [Call -> Status]
    PROVE  ClearedStatus(h, st) \in [Call -> Status] /\ Mild(st, ClearedStatus(h, st))
<1>. DEFINE d == IF Len(h) < 2 \/ h[Len(h)].role # "assistant" THEN {}
                 ELSE {t \in h[Len(h)].calls : st[t] \in {"generating", "generated"}}
            m == Mark(st, d, "canceled")
<1>1. m \in [Call -> Status] /\ Mild(st, m)
  BY MarkMild DEF Status
<1>2. ClearedStatus(h, st) = Forget(m, Dangling(h, st))
  BY DEF ClearedStatus
<1>. HIDE DEF m
<1>3. QED
  BY <1>1, <1>2, ForgetMild, MildTransitive

-----------------------------------------------------------------------------
(* The loops. *)

LEMMA IdleTyped == IdleLoop \in LoopState /\ IdleLoop.pc = "idle"
BY ChatAssumption DEF IdleLoop, LoopState, PC

LEMMA EnterTyped ==
    ASSUME TypeOK, NEW l \in Loop, NEW p \in PC
    PROVE  Enter(l, p) \in LoopState /\ Enter(l, p).pc = p
<1>1. loop[l].halted \in BOOLEAN
  BY DEF TypeOK, LoopState
<1>2. QED
  BY <1>1, IdleTyped DEF Enter, IdleLoop, LoopState

LEMMA AbortTyped ==
    ASSUME NEW lp \in [Loop -> LoopState]
    PROVE  /\ AbortAll(lp) \in [Loop -> LoopState]
           /\ \A l \in Loop : /\ AbortAll(lp)[l].pc = lp[l].pc
                             /\ AbortAll(lp)[l].todo = lp[l].todo
                             /\ AbortAll(lp)[l].asks = lp[l].asks
<1>. SUFFICES ASSUME NEW l \in Loop
              PROVE  /\ AbortAll(lp)[l] \in LoopState
                     /\ AbortAll(lp)[l].pc = lp[l].pc
                     /\ AbortAll(lp)[l].todo = lp[l].todo
                     /\ AbortAll(lp)[l].asks = lp[l].asks
  BY DEF AbortAll
<1>1. lp[l] \in LoopState
  OBVIOUS
<1>2. AbortAll(lp)[l] = lp[l] \/ AbortAll(lp)[l] = [lp[l] EXCEPT !.cut = TRUE]
  BY DEF AbortAll
<1>3. QED
  BY <1>1, <1>2 DEF LoopState

\* The loops go on with what they had judged, or have nothing judged.
LoopsCalm ==
    /\ loop' \in [Loop -> LoopState]
    /\ \A l \in Loop : GoesOn(loop[l], loop'[l]) \/ loop'[l].pc \notin Judging

LEMMA GotoCalm ==
    ASSUME TypeOK, NEW l \in Loop, NEW new \in LoopState, Goto(l, new),
           GoesOn(loop[l], new) \/ new.pc \notin Judging
    PROVE  LoopsCalm
BY DEF TypeOK, Goto, GoesOn, LoopsCalm

LEMMA SameCalm == ASSUME TypeOK, loop' = loop PROVE LoopsCalm
BY DEF TypeOK, GoesOn, LoopsCalm

LEMMA IdleCalm == ASSUME TypeOK, NEW l \in Loop, Goto(l, IdleLoop) PROVE LoopsCalm
BY IdleTyped, GotoCalm DEF Judging

LEMMA AbortCalm ==
    ASSUME NEW lp \in [Loop -> LoopState], loop' = AbortAll(lp),
           \A l \in Loop : GoesOn(loop[l], lp[l]) \/ lp[l].pc \notin Judging
    PROVE  LoopsCalm
BY AbortTyped DEF LoopsCalm, GoesOn, Judging

LEMMA EndTurnCalm ==
    ASSUME TypeOK, NEW l \in Loop, NEW ret \in BOOLEAN, EndTurn(l, ret)
    PROVE  LoopsCalm
<1>1. Enter(l, "compile") \in LoopState /\ Enter(l, "compile").pc \notin Judging
  BY EnterTyped DEF PC, Judging
<1>2. Goto(l, IdleLoop) \/ Goto(l, Enter(l, "compile"))
  BY DEF EndTurn
<1>3. QED
  BY <1>1, <1>2, IdleCalm, GotoCalm

LEMMA CurTyped ==
    ASSUME NEW h, NEW st PROVE CurCalls(h) \subseteq Call /\ Pending(h, st) \subseteq Call
BY DEF CurCalls, Pending

LEMMA CancelCalm ==
    ASSUME TypeOK, NEW lp \in [Loop -> LoopState], CancelStream(lp),
           \A l \in Loop : GoesOn(loop[l], lp[l]) \/ lp[l].pc \notin Judging,
           UNCHANGED <<byUser, applying, kind>>
    PROVE  Calm
<1>1. LoopsCalm
  BY AbortCalm DEF CancelStream
<1>2. history' \in Seq(Item)
  BY DanglingTyped DEF CancelStream, TypeOK
<1>3. status' \in [Call -> Status] /\ Mild(status, status')
  BY ClearedMild DEF CancelStream, TypeOK
<1>4. streaming' \in BOOLEAN /\ interrupted' \in BOOLEAN
  BY DEF CancelStream
<1>5. QED
  BY <1>1, <1>2, <1>3, <1>4 DEF Calm, TypeOK, LoopsCalm, KindsKept

LEMMA FailCalm ==
    ASSUME TypeOK, NEW l \in Loop, Fail(l), UNCHANGED <<byUser, applying, kind>>
    PROVE  Calm
<1>. DEFINE lp == [loop EXCEPT ![l] = IdleLoop]
<1>1. /\ lp \in [Loop -> LoopState]
      /\ \A m \in Loop : GoesOn(loop[m], lp[m]) \/ lp[m].pc \notin Judging
  BY IdleTyped DEF TypeOK, GoesOn, Judging
<1>2. CancelStream(lp)
  BY DEF Fail
<1>. HIDE DEF lp
<1>3. QED
  BY <1>1, <1>2, CancelCalm

LEMMA GiveUpCalm ==
    ASSUME TypeOK, NEW l \in Loop, GiveUp(l), UNCHANGED <<byUser, applying, kind>>
    PROVE  Calm
<1>1. LoopsCalm
  BY IdleCalm DEF GiveUp
<1>2. QED
  BY <1>1, MildSame DEF GiveUp, Calm, TypeOK, LoopsCalm, KindsKept

LEMMA EndIterationCalm ==
    ASSUME TypeOK, NEW l \in Loop, NEW st \in [Call -> Status], Mild(status, st),
           EndIteration(l, st)
    PROVE  /\ LoopsCalm
           /\ status' \in [Call -> Status] /\ Mild(status, status')
           /\ streaming' \in BOOLEAN
<1>1. CASE Goto(l, IdleLoop) /\ status' = st /\ streaming' \in {streaming, FALSE}
  BY <1>1, IdleCalm DEF TypeOK
<1>2. ASSUME NEW open, NEW invalid,
             status' = Mark(Mark(st, invalid, "errored"), open \ invalid, "generated"),
             NEW calls \in SUBSET Call,
             Goto(l, [Enter(l, "prep") EXCEPT !.batch = calls,
                                             !.todo = Pending(history, status')]),
             UNCHANGED streaming
      PROVE  /\ LoopsCalm
             /\ status' \in [Call -> Status] /\ Mild(status, status')
             /\ streaming' \in BOOLEAN
  <2>1. /\ Mark(st, invalid, "errored") \in [Call -> Status]
        /\ Mild(st, Mark(st, invalid, "errored"))
    BY MarkMild DEF Status
  <2>2. status' \in [Call -> Status] /\ Mild(Mark(st, invalid, "errored"), status')
    BY <1>2, <2>1, MarkMild DEF Status
  <2>3. Mild(status, status')
    BY <2>1, <2>2, MildTransitive
  <2>4. PICK todo \in SUBSET Call : todo = Pending(history, status')
    BY CurTyped
  <2>5. PICK prep \in LoopState : prep = Enter(l, "prep") /\ prep.pc = "prep"
    BY EnterTyped DEF PC
  <2>6. /\ [prep EXCEPT !.batch = calls, !.todo = todo] \in LoopState
        /\ [prep EXCEPT !.batch = calls, !.todo = todo].pc \notin Judging
    BY <2>5 DEF LoopState, Judging
  <2>7. LoopsCalm
    BY <1>2, <2>4, <2>5, <2>6, GotoCalm
  <2>8. QED
    BY <1>2, <2>2, <2>3, <2>7 DEF TypeOK
<1>3. CurCalls(history) \in SUBSET Call
  BY CurTyped
<1>4. QED
  BY <1>1, <1>2, <1>3 DEF EndIteration

LEMMA PushTyped ==
    ASSUME NEW h \in Seq(Item), NEW t \in Call PROVE Push(h, t) \in Seq(Item)
<1>1. ToolMessage(t) \in Item
  BY DEF ToolMessage, Item, Role
<1>2. QED
  BY <1>1 DEF Push

LEMMA ReportCalm ==
    ASSUME TypeOK, NEW l \in Loop, NEW S \in SUBSET Call, Report(l, S)
    PROVE  LoopsCalm /\ history' \in Seq(Item)
<1>1. CASE EndTurn(l, FALSE) /\ UNCHANGED history
  BY <1>1, EndTurnCalm DEF TypeOK
<1>2. ASSUME NEW t \in S, history' = Push(history, t),
             Goto(l, [loop[l] EXCEPT !.pc = "fold", !.todo = S \ {t}])
      PROVE  LoopsCalm /\ history' \in Seq(Item)
  <2>1. PICK x \in LoopState : x = loop[l]
    BY DEF TypeOK
  <2>2. /\ [x EXCEPT !.pc = "fold", !.todo = S \ {t}] \in LoopState
        /\ [x EXCEPT !.pc = "fold", !.todo = S \ {t}].pc = "fold"
    BY DEF LoopState, PC
  <2>3. LoopsCalm
    BY <1>2, <2>1, <2>2, GotoCalm DEF Judging
  <2>4. QED
    BY <1>2, <2>3, PushTyped DEF TypeOK
<1>3. QED
  BY <1>1, <1>2 DEF Report

LEMMA RespondCalm ==
    ASSUME TypeOK, NEW t \in Call, NEW st \in [Call -> Status], Mild(status, st),
           Respond(t, st), byUser' \in SUBSET Call, applying' \in SUBSET Call,
           UNCHANGED kind
    PROVE  Calm
<1>1. history' \in Seq(Item)
  BY PushTyped DEF Respond, TypeOK
<1>2. LoopsCalm /\ streaming' \in BOOLEAN /\ interrupted' \in BOOLEAN
  <2>1. CASE UNCHANGED <<streaming, interrupted, loop>>
    BY <2>1, SameCalm DEF TypeOK
  <2>2. ASSUME NEW l \in Loop, Goto(l, Enter(l, "compile")), streaming' = TRUE,
               interrupted' = FALSE
        PROVE  LoopsCalm /\ streaming' \in BOOLEAN /\ interrupted' \in BOOLEAN
    <3>1. Enter(l, "compile") \in LoopState /\ Enter(l, "compile").pc \notin Judging
      BY EnterTyped DEF PC, Judging
    <3>2. QED
      BY <2>2, <3>1, GotoCalm
  <2>3. QED
    BY <2>1, <2>2 DEF Respond
<1>3. status' = st
  BY DEF Respond
<1>4. QED
  BY <1>1, <1>2, <1>3 DEF Calm, TypeOK, LoopsCalm, KindsKept

-----------------------------------------------------------------------------
(* The steps of a loop that judge nothing. *)

LEMMA ResolveCalm == ASSUME TypeOK, NEW l \in Loop, Resolve(l) PROVE Calm
<1>. DEFINE k == loop[l].input
<1>1. LoopsCalm
  BY EndTurnCalm DEF Resolve
<1>2. history' \in Seq(Item)
  <2>1. CASE k \in DOMAIN history
    <3>1. history[k] \in Item
      BY <2>1 DEF TypeOK
    <3>2. PICK x \in Item :
            x = [User EXCEPT !.calls = IF history[k].role = "tool" THEN {}
                                       ELSE history[k].calls]
      BY <3>1 DEF Item, User, Role
    <3>3. history' = [history EXCEPT ![k] = x]
      BY <2>1, <3>2 DEF Resolve
    <3>4. QED
      BY <2>1, <3>3 DEF TypeOK
  <2>2. CASE history' = <<User>>
    BY <2>2, ItemsTyped
  <2>3. CASE UNCHANGED history
    BY <2>3 DEF TypeOK
  <2>4. QED
    BY <2>1, <2>2, <2>3 DEF Resolve
<1>3. QED
  BY <1>1, <1>2, MildSame DEF Resolve, Calm, TypeOK, LoopsCalm, KindsKept

LEMMA CompileCalm == ASSUME TypeOK, NEW l \in Loop, Compile(l) PROVE Calm
<1>1. Enter(l, "stream") \in LoopState /\ Enter(l, "stream").pc \notin Judging
  BY EnterTyped DEF PC, Judging
<1>2. LoopsCalm
  BY <1>1, GotoCalm DEF Compile
<1>3. QED
  BY <1>2, MildSame DEF Compile, Calm, TypeOK, LoopsCalm, KindsKept

LEMMA ChunkAfterStopCalm == ASSUME TypeOK, NEW l \in Loop, ChunkAfterStop(l) PROVE Calm
<1>. DEFINE lp == [loop EXCEPT ![l] = IdleLoop]
<1>1. /\ lp \in [Loop -> LoopState]
      /\ \A m \in Loop : GoesOn(loop[m], lp[m]) \/ lp[m].pc \notin Judging
  BY IdleTyped DEF TypeOK, GoesOn, Judging
<1>2. loop' = AbortAll(lp)
  BY DEF ChunkAfterStop
<1>. HIDE DEF lp
<1>3. LoopsCalm
  BY <1>1, <1>2, AbortCalm
<1>4. QED
  BY <1>3, MildSame DEF ChunkAfterStop, Calm, TypeOK, LoopsCalm, KindsKept

LEMMA StreamEndCalm == ASSUME TypeOK, NEW l \in Loop, StreamEnd(l) PROVE Calm
<1>1. /\ LoopsCalm
      /\ status' \in [Call -> Status] /\ Mild(status, status')
      /\ streaming' \in BOOLEAN
  BY EndIterationCalm, MildSame DEF StreamEnd, TypeOK
<1>2. QED
  BY <1>1 DEF StreamEnd, Calm, TypeOK, LoopsCalm, KindsKept

LEMMA PrematureCloseCalm == ASSUME TypeOK, NEW l \in Loop, PrematureClose(l) PROVE Calm
<1>1. PICK st \in [Call -> Status] :
        st = Mark(status, CurCalls(history), "errored") /\ Mild(status, st)
  BY MarkMild DEF TypeOK, Status
<1>2. /\ LoopsCalm
      /\ status' \in [Call -> Status] /\ Mild(status, status')
      /\ streaming' \in BOOLEAN
  BY <1>1, EndIterationCalm DEF PrematureClose
<1>3. QED
  BY <1>2 DEF PrematureClose, Calm, TypeOK, LoopsCalm, KindsKept

LEMMA RequestCalm ==
    ASSUME TypeOK, NEW l \in Loop, Unauthorized(l) \/ RefreshOk(l) PROVE Calm
<1>1. PICK x \in LoopState : x = loop[l]
  BY DEF TypeOK
<1>2. CASE Unauthorized(l)
  <2>1. /\ [x EXCEPT !.pc = "refresh"] \in LoopState
        /\ [x EXCEPT !.pc = "refresh"].pc \notin Judging
    BY DEF LoopState, PC, Judging
  <2>2. LoopsCalm
    BY <1>1, <1>2, <2>1, GotoCalm DEF Unauthorized
  <2>3. QED
    BY <1>2, <2>2, MildSame DEF Unauthorized, Calm, TypeOK, LoopsCalm, KindsKept
<1>3. CASE RefreshOk(l)
  <2>1. CASE EndIteration(l, status)
    <3>1. /\ LoopsCalm
          /\ status' \in [Call -> Status] /\ Mild(status, status')
          /\ streaming' \in BOOLEAN
      BY <2>1, EndIterationCalm, MildSame DEF TypeOK
    <3>2. QED
      BY <1>3, <3>1 DEF RefreshOk, Calm, TypeOK, LoopsCalm, KindsKept
  <2>2. ASSUME x.tries + 1 < Refreshes, UNCHANGED <<status, streaming>>,
               Goto(l, [x EXCEPT !.pc = "stream", !.tries = x.tries + 1])
        PROVE  Calm
    <3>1. x.tries \in 0 .. Refreshes
      BY DEF LoopState
    <3>2. x.tries + 1 \in 0 .. Refreshes
      BY <2>2, <3>1, ChatAssumption
    <3>3. /\ [x EXCEPT !.pc = "stream", !.tries = x.tries + 1] \in LoopState
          /\ [x EXCEPT !.pc = "stream", !.tries = x.tries + 1].pc \notin Judging
      BY <3>2 DEF LoopState, PC, Judging
    <3>4. LoopsCalm
      BY <2>2, <3>3, GotoCalm
    <3>5. QED
      BY <1>3, <2>2, <3>4, MildSame DEF RefreshOk, Calm, TypeOK, LoopsCalm, KindsKept
  <2>3. QED
    BY <1>1, <1>3, <2>1, <2>2 DEF RefreshOk
<1>4. QED
  BY <1>2, <1>3

LEMMA ToolReturnsCalm == ASSUME TypeOK, NEW l \in Loop, ToolReturns(l) PROVE Calm
<1>1. PICK x \in LoopState : x = loop[l]
  BY DEF TypeOK
<1>2. x.cur \subseteq Call /\ x.pc = "exec"
  BY <1>1 DEF LoopState, ToolReturns, At
<1>3. ASSUME NEW t \in x.cur, NEW s \in {"done", "errored"}, status' = Mark(status, {t}, s),
             history' = Push(history, t),
             Goto(l, [x EXCEPT !.pc = "save", !.cur = {}]),
             UNCHANGED <<streaming, applying>>
      PROVE  Calm
  <2>1. /\ [x EXCEPT !.pc = "save", !.cur = {}] \in LoopState
        /\ GoesOn(x, [x EXCEPT !.pc = "save", !.cur = {}])
    BY <1>2 DEF LoopState, PC, GoesOn
  <2>2. LoopsCalm
    BY <1>1, <1>3, <2>1, GotoCalm
  <2>3. status' \in [Call -> Status] /\ Mild(status, status')
    BY <1>3, MarkMild DEF TypeOK, Status
  <2>4. history' \in Seq(Item)
    BY <1>2, <1>3, PushTyped DEF TypeOK
  <2>5. QED
    BY <1>3, <2>2, <2>3, <2>4 DEF ToolReturns, Calm, TypeOK, LoopsCalm, KindsKept
<1>4. ASSUME NEW t \in x.cur, applying' = applying \cup {t}, streaming' = FALSE,
             Goto(l, IdleLoop), UNCHANGED <<history, status>>
      PROVE  Calm
  <2>1. LoopsCalm
    BY <1>4, IdleCalm
  <2>2. applying' \in SUBSET Call
    BY <1>2, <1>4 DEF TypeOK
  <2>3. QED
    BY <1>4, <2>1, <2>2, MildSame DEF ToolReturns, Calm, TypeOK, LoopsCalm, KindsKept
<1>5. QED
  BY <1>1, <1>3, <1>4 DEF ToolReturns

LEMMA FoldCalm == ASSUME TypeOK, NEW l \in Loop, Fold(l) PROVE Calm
<1>1. loop[l].todo \in SUBSET Call
  BY DEF TypeOK, LoopState
<1>2. LoopsCalm /\ history' \in Seq(Item)
  BY <1>1, ReportCalm DEF Fold
<1>3. QED
  BY <1>2, MildSame DEF Fold, Calm, TypeOK, LoopsCalm, KindsKept

-----------------------------------------------------------------------------
(* The chunks of an answer. *)

LEMMA AnsweringTyped ==
    ASSUME NEW h \in Seq(Item), h # <<>>
    PROVE  Answering(h) \in Seq(Item) /\ Len(Answering(h)) \in DOMAIN Answering(h)
<1>1. CASE h[Len(h)].role = "assistant"
  BY <1>1 DEF Answering
<1>2. CASE h[Len(h)].role # "assistant"
  BY <1>2, ItemsTyped DEF Answering
<1>3. QED
  BY <1>1, <1>2

LEMMA TextCalm == ASSUME TypeOK, NEW l \in Loop, Text(l) PROVE Calm
<1>1. PICK h \in Seq(Item) : h = Answering(history) /\ Len(h) \in DOMAIN h
  BY AnsweringTyped DEF Text, TypeOK
<1>2. PICK y \in Item : y = h[Len(h)]
  BY <1>1
<1>3. [y EXCEPT !.text = TRUE] \in Item
  BY <1>2 DEF Item
<1>4. history' \in Seq(Item)
  <2>1. history' = [h EXCEPT ![Len(h)] = [y EXCEPT !.text = TRUE]]
    BY <1>1, <1>2 DEF Text
  <2>2. QED
    BY <1>1, <1>3, <2>1
<1>5. LoopsCalm
  BY SameCalm DEF Text
<1>6. QED
  BY <1>4, <1>5, MildSame DEF Text, Calm, TypeOK, LoopsCalm, KindsKept

LEMMA NewCallCalm ==
    ASSUME TypeOK, NEW l \in Loop, NEW t \in Call, NEW whole \in SUBSET Call,
           NEW k \in ToolPolicy \cup {"edit"}, NewCall(l, t, whole, k)
    PROVE  Calm
<1>1. PICK h \in Seq(Item) : h = Answering(history) /\ Len(h) \in DOMAIN h
  BY AnsweringTyped DEF NewCall, TypeOK
<1>2. PICK y \in Item : y = h[Len(h)]
  BY <1>1
<1>3. [y EXCEPT !.calls = y.calls \cup {t}] \in Item
  BY <1>2 DEF Item
<1>4. history' \in Seq(Item)
  <2>1. history' = [h EXCEPT ![Len(h)] = [y EXCEPT !.calls = y.calls \cup {t}]]
    BY <1>1, <1>2 DEF NewCall
  <2>2. QED
    BY <1>1, <1>3, <2>1
<1>5. PICK st \in [Call -> Status] : st = Mark(status, whole, "generated") /\ Mild(status, st)
  BY MarkMild DEF TypeOK, Status
<1>6. status' = [st EXCEPT ![t] = "generating"]
  BY <1>5 DEF NewCall
<1>7. status' \in [Call -> Status] /\ Mild(status, status')
  BY <1>5, <1>6 DEF Status, Mild
<1>8. PICK x \in LoopState : x = loop[l] /\ x.pc = "stream"
  BY DEF TypeOK, NewCall, At
<1>9. /\ [x EXCEPT !.batch = @ \cup {t}] \in LoopState
      /\ [x EXCEPT !.batch = @ \cup {t}].pc \notin Judging
  BY <1>8 DEF LoopState, Judging
<1>10. LoopsCalm
  BY <1>8, <1>9, GotoCalm DEF NewCall
<1>11. kind' \in [Call -> ToolPolicy \cup {"edit"}] /\ KindsKept
  BY DEF NewCall, TypeOK, KindsKept
<1>12. QED
  BY <1>4, <1>7, <1>10, <1>11 DEF NewCall, Calm, TypeOK, LoopsCalm

LEMMA MoreCalm == ASSUME TypeOK, NEW l \in Loop, NEW t \in Call, More(l, t) PROVE Calm
<1>1. status' \in [Call -> Status] /\ Mild(status, status')
  BY DEF More, TypeOK, Mild, Status
<1>2. LoopsCalm
  BY SameCalm DEF More
<1>3. QED
  BY <1>1, <1>2 DEF More, Calm, TypeOK, LoopsCalm, KindsKept

\* The loops once the loop l of lp has begun its answer again.
RetryLoops(lp, l) == [lp EXCEPT ![l].batch = {}, ![l].again = @ + 1]

\* The others stay where they are, and so does l.
LEMMA RetryGoes ==
    ASSUME TypeOK, NEW l \in Loop, loop[l].pc = "stream", loop[l].again < Restarts,
           NEW lp \in {loop, AbortAll(loop)}
    PROVE  /\ RetryLoops(lp, l) \in [Loop -> LoopState]
           /\ \A m \in Loop \ {l} : RetryLoops(lp, l)[m] = lp[m]
           /\ RetryLoops(lp, l)[l].pc = "stream" /\ RetryLoops(lp, l)[l].batch = {}
           /\ RetryLoops(lp, l)[l].cut = lp[l].cut
           /\ RetryLoops(lp, l)[l].pc \notin Judging
           /\ \A m \in Loop : \/ GoesOn(loop[m], RetryLoops(lp, l)[m])
                              \/ RetryLoops(lp, l)[m].pc \notin Judging
<1>1. loop \in [Loop -> LoopState] /\ lp \in [Loop -> LoopState]
  BY AbortTyped DEF TypeOK
<1>2. lp[l].again < Restarts /\ lp[l].pc = "stream"
  <2>1. PICK x \in LoopState : x = loop[l]
    BY <1>1
  <2>2. lp[l] = x \/ lp[l] = [x EXCEPT !.cut = TRUE]
    BY <2>1 DEF AbortAll
  <2>3. QED
    BY <2>1, <2>2 DEF LoopState
<1>3. PICK y \in LoopState : y = lp[l]
  BY <1>1
<1>4. PICK z : z = [[y EXCEPT !.batch = {}] EXCEPT !.again = y.again + 1]
  OBVIOUS
<1>5. z \in LoopState /\ z.pc = "stream" /\ z.batch = {} /\ z.cut = y.cut
  <2>1. y.again \in 0 .. Restarts /\ y.again < Restarts /\ y.pc = "stream"
    BY <1>2, <1>3 DEF LoopState
  <2>2. y.again + 1 \in 0 .. Restarts
    BY <2>1, ChatAssumption
  <2>3. QED
    BY <1>4, <2>1, <2>2 DEF LoopState
<1>6. RetryLoops(lp, l) = [lp EXCEPT ![l] = z]
  BY <1>1, <1>3, <1>4 DEF RetryLoops
<1>7. \A m \in Loop : GoesOn(loop[m], lp[m])
  BY <1>1, AbortTyped DEF GoesOn
<1>8. QED
  BY <1>1, <1>3, <1>5, <1>6, <1>7 DEF Judging

LEMMA RetryCalm == ASSUME TypeOK, NEW l \in Loop, Retry(l) PROVE Calm
<1>1. history' \in Seq(Item)
  BY FirstTyped DEF Retry, TypeOK
<1>2. status' \in [Call -> Status] /\ Mild(status, status')
  BY ForgetMild DEF Retry, TypeOK
<1>3. PICK lp : lp \in {loop, AbortAll(loop)} /\ loop' = RetryLoops(lp, l)
  BY DEF Retry, RetryLoops
<1>4. LoopsCalm
  BY <1>3, RetryGoes DEF LoopsCalm, Retry, At
<1>5. QED
  BY <1>1, <1>2, <1>4 DEF Retry, Calm, TypeOK, LoopsCalm, KindsKept

-----------------------------------------------------------------------------
(* The user and the editor. *)

LEMMA SubmitCalm ==
    ASSUME TypeOK, NEW l \in Loop, NEW k \in 1 .. Len(history) + 1, Submit(l, k)
    PROVE  Calm
<1>1. history' \in Seq(Item)
  <2>1. SubSeq(history, 1, k - 1) \in Seq(Item)
    BY FirstTyped DEF TypeOK
  <2>2. <<User, Assistant>> \in Seq(Item)
    BY ItemsTyped
  <2>3. QED
    BY <2>1, <2>2, ConcatProperties DEF Submit
<1>2. PICK st \in [Call -> Status] :
        st = Mark(status, Pending(history, status), "canceled") /\ Mild(status, st)
  BY MarkMild DEF TypeOK, Status
<1>3. status' = Forget(st, history')
  BY <1>2 DEF Submit
<1>4. status' \in [Call -> Status] /\ Mild(status, status')
  BY <1>2, <1>3, ForgetMild, MildTransitive
<1>5. /\ [IdleLoop EXCEPT !.pc = "resolve", !.input = k] \in LoopState
      /\ [IdleLoop EXCEPT !.pc = "resolve", !.input = k].pc \notin Judging
  <2>1. k \in Nat
    OBVIOUS
  <2>2. QED
    BY <2>1, IdleTyped DEF IdleLoop, LoopState, PC, Judging
<1>6. LoopsCalm
  BY <1>5, GotoCalm DEF Submit
<1>7. QED
  BY <1>1, <1>4, <1>6 DEF Submit, Calm, TypeOK, LoopsCalm, KindsKept

LEMMA UserToolReturnsCalm == ASSUME TypeOK, NEW t \in Call, UserToolReturns(t) PROVE Calm
<1>1. byUser' \in SUBSET Call
  BY DEF UserToolReturns, TypeOK
<1>2. ASSUME NEW s \in {"done", "errored"}, Respond(t, Mark(status, {t}, s)),
             UNCHANGED applying
      PROVE  Calm
  <2>1. /\ Mark(status, {t}, s) \in [Call -> Status]
        /\ Mild(status, Mark(status, {t}, s))
    BY MarkMild DEF TypeOK, Status
  <2>2. applying' \in SUBSET Call /\ UNCHANGED kind
    BY <1>2 DEF TypeOK, UserToolReturns
  <2>3. QED
    BY <1>1, <1>2, <2>1, <2>2, RespondCalm
<1>3. CASE UNCHANGED <<history, status, loop, interrupted>> /\ streaming' = FALSE
           /\ applying' = applying \cup {t}
  <2>1. LoopsCalm
    BY <1>3, SameCalm
  <2>2. applying' \in SUBSET Call
    BY <1>3 DEF TypeOK
  <2>3. QED
    BY <1>1, <1>3, <2>1, <2>2, MildSame
       DEF UserToolReturns, Calm, TypeOK, LoopsCalm, KindsKept
<1>4. QED
  BY <1>2, <1>3 DEF UserToolReturns

LEMMA UserToolThrowsCalm == ASSUME TypeOK, NEW t \in Call, UserToolThrows(t) PROVE Calm
<1>1. LoopsCalm
  BY SameCalm DEF UserToolThrows
<1>2. QED
  BY <1>1, MildSame DEF UserToolThrows, Calm, TypeOK, LoopsCalm, KindsKept

LEMMA ApplyCalm ==
    ASSUME TypeOK, NEW t \in Call, ApplyClosed(t) \/ ApplyFails(t) PROVE Calm
<1>1. byUser' \in SUBSET Call /\ applying' \in SUBSET Call /\ UNCHANGED <<byUser, kind>>
  BY DEF ApplyClosed, ApplyFails, TypeOK
<1>2. ASSUME NEW st, Respond(t, st),
             \/ st = status
             \/ \E s \in {"done", "errored"} : st = Mark(status, {t}, s)
      PROVE  Calm
  <2>1. st \in [Call -> Status] /\ Mild(status, st)
    BY <1>2, MarkMild, MildSame DEF TypeOK, Status
  <2>2. QED
    BY <1>1, <1>2, <2>1, RespondCalm
<1>3. CASE UNCHANGED <<history, status, streaming, loop, interrupted>>
  <2>1. LoopsCalm
    BY <1>3, SameCalm
  <2>2. QED
    BY <1>1, <1>3, <2>1, MildSame DEF Calm, TypeOK, LoopsCalm, KindsKept
<1>4. QED
  BY <1>2, <1>3 DEF ApplyClosed, ApplyFails

LEMMA RejectCalm ==
    ASSUME TypeOK, NEW t \in Call, Reject(t) \/ ShortcutReject(t) PROVE Calm
<1>1. PICK st \in [Call -> Status] : st = Mark(status, {t}, "canceled") /\ Mild(status, st)
  BY MarkMild DEF TypeOK, Status
<1>2. CASE Reject(t)
  <2>1. Respond(t, st) /\ UNCHANGED <<byUser, applying, kind>>
    BY <1>1, <1>2 DEF Reject
  <2>2. QED
    BY <1>1, <2>1, RespondCalm DEF TypeOK
<1>3. CASE ShortcutReject(t)
  <2>1. LoopsCalm
    BY <1>3, SameCalm DEF ShortcutReject
  <2>2. status' = st
    BY <1>1, <1>3 DEF ShortcutReject
  <2>3. QED
    BY <1>1, <1>3, <2>1, <2>2 DEF ShortcutReject, Calm, TypeOK, LoopsCalm, KindsKept
<1>4. QED
  BY <1>2, <1>3

LEMMA HaltedTyped ==
    ASSUME TypeOK
    PROVE  Halted \in [Loop -> LoopState] /\ \A l \in Loop : GoesOn(loop[l], Halted[l])
<1>. SUFFICES ASSUME NEW l \in Loop PROVE Halted[l] \in LoopState /\ GoesOn(loop[l], Halted[l])
  BY DEF Halted
<1>1. PICK x \in LoopState : x = loop[l]
  BY DEF TypeOK
<1>2. PICK b \in BOOLEAN : b = ~Idle(l)
  OBVIOUS
<1>3. Halted[l] = [x EXCEPT !.halted = b]
  BY <1>1, <1>2 DEF Halted
<1>4. QED
  BY <1>1, <1>3 DEF LoopState, GoesOn

LEMMA StopCalm == ASSUME TypeOK, Stop \/ NewSession PROVE Calm
<1>1. Halted \in [Loop -> LoopState] /\ \A l \in Loop : GoesOn(loop[l], Halted[l])
  BY HaltedTyped
<1>2. CASE Stop
  BY <1>1, <1>2, CancelCalm DEF Stop
<1>3. CASE NewSession
  <2>1. LoopsCalm
    BY <1>1, <1>3, AbortCalm DEF NewSession
  <2>2. status' \in [Call -> Status] /\ Mild(status, status')
    BY <1>3, ForgetMild DEF NewSession, TypeOK
  <2>3. history' \in Seq(Item)
    BY <1>3 DEF NewSession
  <2>4. QED
    BY <1>3, <2>1, <2>2, <2>3 DEF NewSession, Calm, TypeOK, LoopsCalm, KindsKept
<1>4. QED
  BY <1>2, <1>3

-----------------------------------------------------------------------------
(* The steps that judge calls, and those that start them. *)

\* Calls start to run only if their policy or the user allows it.
Permitted ==
    \A t \in Call : status[t] # "calling" /\ status'[t] = "calling"
                        => kind'[t] \in {"edit", "free"} \/ t \in byUser'

LEMMA CalmPermitted == ASSUME Calm PROVE Permitted
BY DEF Calm, Permitted, Mild

LEMMA AllowedWithout ==
    ASSUME NEW k \in ToolPolicy \cup {"edit"}, NEW d \in ToolPolicy,
           evaluateToolPolicy(k, d) \notin {"off", "ask"}
    PROVE  k \in {"edit", "free"}
BY DEF evaluateToolPolicy, ToolPolicy

LEMMA WalkStep ==
    ASSUME TypeOK, JudgedInv, NEW l \in Loop,
           NEW S \in SUBSET Call, NEW asks \in SUBSET Call, NEW ret \in BOOLEAN,
           NEW st \in [Call -> Status], Mild(status, st),
           Walk(l, S, asks, ret, st), UNCHANGED <<history, byUser, applying, kind, interrupted>>,
           \A t \in S : status[t] # "none",
           \A t \in S \ asks : kind[t] \in {"edit", "free"}
    PROVE  IInv' /\ Permitted
<1>1. CASE status' = st /\ streaming' \in {streaming, FALSE} /\ LoopsCalm
  <2>1. Calm
    BY <1>1 DEF Calm, TypeOK, LoopsCalm, KindsKept
  <2>2. QED
    BY <2>1, CalmKeeps, CalmPermitted DEF IInv
<1>2. ASSUME NEW t \in S, t \notin asks,
             Goto(l, [loop[l] EXCEPT !.pc = "exec", !.batch = {},
                                     !.todo = {u \in S : u > t},
                                     !.asks = {u \in asks : u > t},
                                     !.ret = ret \/ \E u \in S : u < t,
                                     !.cur = {t}]),
             status' = Mark(st, {t}, "calling"), UNCHANGED streaming
      PROVE  IInv' /\ Permitted
  <2>1. PICK x \in LoopState : x = loop[l]
    BY DEF TypeOK
  <2>2. PICK r \in BOOLEAN : r = (ret \/ \E u \in S : u < t)
    OBVIOUS
  <2>. DEFINE todo == {u \in S : u > t}
              later == {u \in asks : u > t}
              y == [x EXCEPT !.pc = "exec", !.batch = {}, !.todo = todo,
                             !.asks = later, !.ret = r, !.cur = {t}]
  <2>3. y \in LoopState /\ y.pc = "exec" /\ y.todo = todo /\ y.asks = later
    <3>1. todo \in SUBSET Call /\ later \in SUBSET Call /\ {t} \in SUBSET Call
      OBVIOUS
    <3>. HIDE DEF todo, later
    <3>2. QED
      BY <3>1 DEF LoopState, PC
  <2>4. loop' = [loop EXCEPT ![l] = y]
    BY <1>2, <2>1, <2>2 DEF Goto
  <2>5. todo \subseteq S /\ todo \ later \subseteq S \ asks
    OBVIOUS
  <2>. HIDE DEF y, todo, later
  <2>6. /\ status' \in [Call -> Status]
        /\ \A u \in Call : /\ status'[u] = "none" => status[u] = "none"
                           /\ status'[u] = "calling" => status[u] = "calling" \/ u = t
    BY <1>2 DEF Mark, Mild, Present, Status
  <2>7. TypeOK'
    BY <1>2, <2>3, <2>4, <2>6 DEF TypeOK
  <2>8. JudgedInv'
    <3>. SUFFICES ASSUME NEW m \in Loop PROVE Sound(loop'[m], status', kind')
      BY DEF JudgedInv
    <3>1. Sound(loop[m], status, kind) /\ loop[m].todo \subseteq Call /\ kind' = kind
      BY DEF JudgedInv, TypeOK, LoopState
    <3>2. CASE m # l
      <4>1. loop'[m] = loop[m]
        BY <2>4, <3>2 DEF TypeOK
      <4>2. QED
        BY <2>6, <3>1, <4>1 DEF Sound
    <3>3. CASE m = l
      <4>1. loop'[m] = y
        BY <2>4, <3>3 DEF TypeOK
      <4>2. QED
        BY <2>3, <2>5, <2>6, <3>1, <4>1 DEF Sound
    <3>4. QED
      BY <3>2, <3>3
  <2>9. Permitted
    BY <1>2, <2>6 DEF Permitted
  <2>10. QED
    BY <2>7, <2>8, <2>9 DEF IInv
<1>3. QED
  <2>1. CASE EndTurn(l, ret) /\ status' = st /\ UNCHANGED streaming
    BY <1>1, <2>1, EndTurnCalm
  <2>2. CASE Goto(l, IdleLoop) /\ status' = st /\ streaming' \in {streaming, FALSE}
    BY <1>1, <2>2, IdleCalm
  <2>3. QED
    BY <1>2, <2>1, <2>2 DEF Walk

LEMMA PrepStep == ASSUME IInv, NEW l \in Loop, Prep(l) PROVE IInv' /\ Permitted
<1>1. TypeOK /\ JudgedInv
  BY DEF IInv
<1>2. status' \in [Call -> Status] /\ Mild(status, status')
  BY <1>1, MarkMild DEF Prep, TypeOK, Status
<1>3. CASE Goto(l, IdleLoop)
  <2>1. Calm
    BY <1>1, <1>2, <1>3, IdleCalm DEF Prep, Calm, TypeOK, LoopsCalm, KindsKept
  <2>2. QED
    BY <2>1, CalmKeeps, CalmPermitted
<1>4. CASE Goto(l, [loop[l] EXCEPT !.pc = "policy", !.todo = Pending(history, status')])
  <2>1. PICK x \in LoopState : x = loop[l]
    BY <1>1 DEF TypeOK
  <2>2. PICK todo \in SUBSET Call : todo = Pending(history, status')
    BY CurTyped
  <2>3. \A t \in todo : status'[t] = "generated"
    BY <2>2 DEF Pending
  <2>. DEFINE y == [x EXCEPT !.pc = "policy", !.todo = todo]
  <2>4. y \in LoopState /\ y.pc = "policy" /\ y.todo = todo
    BY DEF LoopState, PC
  <2>5. loop' = [loop EXCEPT ![l] = y]
    BY <1>4, <2>1, <2>2 DEF Goto
  <2>. HIDE DEF y
  <2>6. TypeOK'
    BY <1>1, <1>2, <2>4, <2>5 DEF Prep, TypeOK
  <2>7. JudgedInv'
    <3>. SUFFICES ASSUME NEW m \in Loop PROVE Sound(loop'[m], status', kind')
      BY DEF JudgedInv
    <3>1. /\ Sound(loop[m], status, kind) /\ loop[m].todo \subseteq Call
          /\ kind' = kind
      BY <1>1 DEF JudgedInv, TypeOK, LoopState, Prep
    <3>2. CASE m # l
      <4>1. loop'[m] = loop[m]
        BY <1>1, <2>5, <3>2 DEF TypeOK
      <4>2. QED
        BY <1>2, <3>1, <4>1 DEF Sound, Mild
    <3>3. CASE m = l
      <4>1. loop'[m] = y
        BY <1>1, <2>5, <3>3 DEF TypeOK
      <4>2. QED
        BY <2>3, <2>4, <4>1 DEF Sound
    <3>4. QED
      BY <3>2, <3>3
  <2>8. Permitted
    BY <1>2 DEF Permitted, Mild
  <2>9. QED
    BY <2>6, <2>7, <2>8 DEF IInv
<1>5. QED
  BY <1>3, <1>4 DEF Prep

LEMMA PolicyStep == ASSUME IInv, NEW l \in Loop, Policy(l) PROVE IInv' /\ Permitted
<1>. DEFINE todo == loop[l].todo
<1>1. TypeOK /\ JudgedInv
  BY DEF IInv
<1>2. /\ todo \in SUBSET Call /\ loop[l].batch \in SUBSET Call
      /\ \A t \in todo : status[t] # "none"
  BY <1>1 DEF TypeOK, LoopState, JudgedInv, Sound, Judging, Policy, At
<1>3. PICK dynamic \in [todo -> ToolPolicy] :
        LET says(p) == {t \in todo : evaluateToolPolicy(kind[t], dynamic[t]) = p}
            st == Mark(status, says("off"), "errored")
        IN \/ /\ Goto(l, IdleLoop)
              /\ status' = st
              /\ UNCHANGED <<history, streaming>>
           \/ /\ Report(l, loop[l].batch)
              /\ UNCHANGED <<status, streaming>>
           \/ /\ Walk(l, todo \ says("off"), says("ask"), FALSE, st)
              /\ UNCHANGED history
  BY DEF Policy
<1>. DEFINE says(p) == {t \in todo : evaluateToolPolicy(kind[t], dynamic[t]) = p}
            st == Mark(status, says("off"), "errored")
<1>4. st \in [Call -> Status] /\ Mild(status, st)
  BY <1>1, MarkMild DEF TypeOK, Status
<1>5. \A t \in (todo \ says("off")) \ says("ask") : kind[t] \in {"edit", "free"}
  <2>. SUFFICES ASSUME NEW t \in (todo \ says("off")) \ says("ask")
                PROVE  kind[t] \in {"edit", "free"}
    OBVIOUS
  <2>1. t \in todo /\ t \in Call
    BY <1>2
  <2>2. kind[t] \in ToolPolicy \cup {"edit"} /\ dynamic[t] \in ToolPolicy
    BY <1>1, <1>3, <2>1 DEF TypeOK
  <2>3. evaluateToolPolicy(kind[t], dynamic[t]) \notin {"off", "ask"}
    BY <2>1
  <2>4. QED
    BY <2>2, <2>3, AllowedWithout
<1>6. todo \ says("off") \in SUBSET Call /\ says("ask") \in SUBSET Call
      /\ \A t \in todo \ says("off") : status[t] # "none"
  BY <1>2
<1>7. UNCHANGED <<byUser, applying, kind, interrupted>>
  BY DEF Policy
<1>8. \/ Goto(l, IdleLoop) /\ status' = st /\ UNCHANGED <<history, streaming>>
      \/ Report(l, loop[l].batch) /\ UNCHANGED <<status, streaming>>
      \/ Walk(l, todo \ says("off"), says("ask"), FALSE, st) /\ UNCHANGED history
  BY <1>3
<1>. HIDE DEF st, says
<1>9. CASE Goto(l, IdleLoop) /\ status' = st /\ UNCHANGED <<history, streaming>>
  <2>1. LoopsCalm
    BY <1>1, <1>9, IdleCalm
  <2>2. Calm
    BY <1>1, <1>4, <1>7, <1>9, <2>1 DEF Calm, TypeOK, LoopsCalm, KindsKept
  <2>3. QED
    BY <2>2, CalmKeeps, CalmPermitted
<1>10. CASE Report(l, loop[l].batch) /\ UNCHANGED <<status, streaming>>
  <2>1. LoopsCalm /\ history' \in Seq(Item)
    BY <1>1, <1>2, <1>10, ReportCalm
  <2>2. Calm
    BY <1>1, <1>7, <1>10, <2>1, MildSame DEF Calm, TypeOK, LoopsCalm, KindsKept
  <2>3. QED
    BY <2>2, CalmKeeps, CalmPermitted
<1>11. CASE Walk(l, todo \ says("off"), says("ask"), FALSE, st) /\ UNCHANGED history
  BY <1>1, <1>4, <1>5, <1>6, <1>7, <1>11, WalkStep
<1>12. QED
  BY <1>8, <1>9, <1>10, <1>11

LEMMA SaveStep == ASSUME IInv, NEW l \in Loop, Save(l) PROVE IInv' /\ Permitted
<1>1. TypeOK /\ JudgedInv
  BY DEF IInv
<1>2. /\ loop[l].todo \in SUBSET Call /\ loop[l].asks \in SUBSET Call
      /\ loop[l].ret \in BOOLEAN /\ status \in [Call -> Status]
  BY <1>1 DEF TypeOK, LoopState
<1>3. /\ \A t \in loop[l].todo : status[t] # "none"
      /\ \A t \in loop[l].todo \ loop[l].asks : kind[t] \in {"edit", "free"}
  BY <1>1 DEF JudgedInv, Sound, Judging, Save, At
<1>4. /\ Walk(l, loop[l].todo, loop[l].asks, loop[l].ret, status)
      /\ UNCHANGED <<history, byUser, applying, kind, interrupted>>
  BY DEF Save
<1>5. QED
  BY <1>1, <1>2, <1>3, <1>4, MildSame, WalkStep

LEMMA AcceptStep == ASSUME IInv, NEW t \in Call, Accept(t) PROVE IInv' /\ Permitted
<1>1. TypeOK /\ JudgedInv
  BY DEF IInv
<1>2. /\ status' \in [Call -> Status]
      /\ \A u \in Call : /\ status'[u] = "none" => status[u] = "none"
                         /\ status'[u] = "calling" => status[u] = "calling" \/ u = t
  BY <1>1 DEF Accept, Mark, Present, Status, TypeOK
<1>3. TypeOK'
  BY <1>1, <1>2 DEF Accept, TypeOK
<1>4. JudgedInv'
  <2>. SUFFICES ASSUME NEW m \in Loop PROVE Sound(loop'[m], status', kind')
    BY DEF JudgedInv
  <2>1. Sound(loop[m], status, kind) /\ loop[m].todo \subseteq Call
    BY <1>1 DEF JudgedInv, TypeOK, LoopState
  <2>2. loop' = loop /\ kind' = kind
    BY DEF Accept
  <2>3. QED
    BY <1>2, <2>1, <2>2 DEF Sound
<1>5. Permitted
  BY <1>2 DEF Accept, Permitted
<1>6. QED
  BY <1>3, <1>4, <1>5 DEF IInv

-----------------------------------------------------------------------------
(* All steps. *)

LEMMA LoopKeeps == ASSUME IInv, NEW l \in Loop, LoopStep(l) PROVE IInv' /\ Permitted
<1>1. TypeOK
  BY DEF IInv
<1>2. CASE Calm
  BY <1>2, CalmKeeps, CalmPermitted
<1>3. CASE Resolve(l) \/ Compile(l) \/ ChunkAfterStop(l)
  BY <1>1, <1>2, <1>3, ResolveCalm, CompileCalm, ChunkAfterStopCalm
<1>4. CASE LoopFails(l) \/ ToolThrows(l)
  <2>1. Fail(l) /\ UNCHANGED <<byUser, applying, kind>>
    BY <1>4 DEF LoopFails, ToolThrows
  <2>2. QED
    BY <1>1, <1>2, <2>1, FailCalm
<1>5. CASE CompileTooLong(l) \/ RefreshFails(l)
  <2>1. GiveUp(l) /\ UNCHANGED <<byUser, applying, kind>>
    BY <1>5 DEF CompileTooLong, RefreshFails
  <2>2. QED
    BY <1>1, <1>2, <2>1, GiveUpCalm
<1>6. CASE StreamEnd(l) \/ PrematureClose(l) \/ Unauthorized(l) \/ RefreshOk(l)
  BY <1>1, <1>2, <1>6, StreamEndCalm, PrematureCloseCalm, RequestCalm
<1>7. CASE ToolReturns(l) \/ Fold(l)
  BY <1>1, <1>2, <1>7, ToolReturnsCalm, FoldCalm
<1>8. CASE Prep(l) \/ Policy(l) \/ Save(l)
  BY <1>8, PrepStep, PolicyStep, SaveStep
<1>9. QED
  BY <1>3, <1>4, <1>5, <1>6, <1>7, <1>8 DEF LoopStep

LEMMA ChunkKeeps == ASSUME IInv, NEW l \in Loop, Chunk(l) PROVE IInv' /\ Permitted
<1>1. TypeOK
  BY DEF IInv
<1>2. Calm
  BY <1>1, TextCalm, RetryCalm, MoreCalm, NewCallCalm DEF Chunk
<1>3. QED
  BY <1>2, CalmKeeps, CalmPermitted

LEMMA UserKeeps ==
    ASSUME IInv, NEW t \in Call,
           \/ Accept(t) \/ UserToolReturns(t) \/ UserToolThrows(t)
           \/ ApplyClosed(t) \/ ApplyFails(t) \/ Reject(t) \/ ShortcutReject(t)
    PROVE  IInv' /\ Permitted
<1>1. TypeOK
  BY DEF IInv
<1>2. CASE Accept(t)
  BY <1>2, AcceptStep
<1>3. CASE ~Accept(t)
  <2>1. Calm
    BY <1>1, <1>3, UserToolReturnsCalm, UserToolThrowsCalm, ApplyCalm, RejectCalm
  <2>2. QED
    BY <2>1, CalmKeeps, CalmPermitted
<1>4. QED
  BY <1>2, <1>3

LEMMA StepKeeps == ASSUME IInv, [Next]_vars PROVE IInv' /\ Permitted
<1>1. TypeOK
  BY DEF IInv
<1>2. ASSUME NEW l \in Loop, NEW k \in 1 .. Len(history) + 1, Submit(l, k)
      PROVE  IInv' /\ Permitted
  BY <1>1, <1>2, SubmitCalm, CalmKeeps, CalmPermitted
<1>3. CASE Stop \/ NewSession
  BY <1>1, <1>3, StopCalm, CalmKeeps, CalmPermitted
<1>4. CASE UNCHANGED vars
  <2>1. Calm
    BY <1>1, <1>4 DEF vars, Calm, TypeOK, Mild, KindsKept, GoesOn
  <2>2. QED
    BY <2>1, CalmKeeps, CalmPermitted
<1>5. QED
  BY <1>2, <1>3, <1>4, LoopKeeps, ChunkKeeps, UserKeeps DEF Next

LEMMA InitInvariant == Init => IInv
<1>. SUFFICES ASSUME Init PROVE IInv
  OBVIOUS
<1>1. loop \in [Loop -> LoopState] /\ \A l \in Loop : loop[l].pc = "idle"
  BY IdleTyped DEF Init
<1>2. TypeOK
  <2>1. history \in Seq(Item)
    BY DEF Init
  <2>2. status \in [Call -> Status] /\ kind \in [Call -> ToolPolicy \cup {"edit"}]
    BY DEF Init, Status, ToolPolicy
  <2>3. QED
    BY <1>1, <2>1, <2>2 DEF Init, TypeOK
<1>3. JudgedInv
  BY <1>1 DEF JudgedInv, Sound, Judging
<1>4. QED
  BY <1>2, <1>3 DEF IInv

\* What loops have judged stays true of the calls they judged.
THEOREM Invariant == Spec => []IInv
<1>1. IInv /\ [Next]_vars => IInv'
  BY StepKeeps
<1>2. QED
  BY <1>1, InitInvariant, PTL DEF Spec

\* The variables keep their types, for any number of calls, loops and messages.
THEOREM TypeCorrect == Spec => []TypeOK
<1>1. IInv => TypeOK
  BY DEF IInv
<1>2. QED
  BY <1>1, Invariant, PTL

\* No tool call starts to run unless its tool needs no permission or the user has given
\* it, whatever loops, stops and shortcuts overtake each other
\* (evaluateToolPolicies, processToolCalls, callToolById).
THEOREM PermissionHeld == Spec => OnlyPermittedRun
<1>1. IInv /\ [Next]_vars => [Permitted]_vars
  BY StepKeeps
<1>2. [Permitted]_vars =>
        [\A t \in Call : status[t] # "calling" /\ status'[t] = "calling"
            => kind'[t] \in {"edit", "free"} \/ t \in byUser']_vars
  BY DEF Permitted
<1>3. QED
  BY <1>1, <1>2, Invariant, PTL DEF Spec, OnlyPermittedRun

-----------------------------------------------------------------------------
(* One loop drives the turn.  What follows holds when the user sends and       *)
(* answers only while nothing of the turn is under way, and a rejected call    *)
(* ends the turn, which is what the settings say unless the user changes them. *)

Usual == Races = {} /\ ~ContinueAfterToolRejection

\* A loop that was stopped, has calls left and will see at its next look that it was.
Leaving(x) == x.cut /\ x.pc = "save" /\ x.todo # {}
Drives(x) == x.pc # "idle" /\ ~Leaving(x)

Waiting(st) == {t \in Call : st[t] = "generated"}
Growing(h, st) == {t \in CurCalls(h) : st[t] = "generating"}
Answered(h) == h # <<>> /\ h[Len(h)].role = "assistant"

\* The answer h ends with was begun when every call before it was decided.
Before(h) == SubSeq(h, 1, Len(h) - 1)
Apart(h, st) == Answered(h) => ~Answered(Before(h)) /\ Growing(Before(h), st) = {}

\* The message i of h made the call t.
Made(h, i, t) == i \in DOMAIN h /\ h[i].role # "tool" /\ t \in h[i].calls

\* Each tool message of h follows the message that made its call.
Follows(h) ==
    \A i \in DOMAIN h : h[i].role = "tool" =>
        \E j \in 1 .. i - 1 :
            /\ h[j].role = "assistant"
            /\ h[i].calls \subseteq h[j].calls
            /\ \A m \in j + 1 .. i - 1 : h[m].role = "tool"

\* The history and the statuses fit: a history begins with the user, no call is made
\* twice or forgotten, and only calls of the last answer wait for a permission.
Told(h, st) ==
    /\ h # <<>> => h[1].role = "user"
    /\ Follows(h)
    /\ \A t \in Call : \A i, j \in DOMAIN h : Made(h, i, t) /\ Made(h, j, t) => i = j
    /\ \A t \in Call : \A i \in DOMAIN h : Made(h, i, t) => st[t] # "none"
    /\ Waiting(st) \subseteq CurCalls(h)

\* The calls in the hands of the user or of the editor are current and not answered.
UsersFit(h, st, users, editors) ==
    /\ users \cup editors \subseteq CurCalls(h)
    /\ users \cap editors = {}
    /\ \A t \in users \cup editors : st[t] \in {"calling", "canceled"}

\* The call a loop executes.
Runs(x, h, st) ==
    /\ x.cur # {}
    /\ \A t \in x.cur : t \in CurCalls(h) /\ st[t] = "calling"

\* The loop of a turn that is streaming: what it has to do is what waits.
Live(x, h, st) ==
    /\ ~x.cut /\ Apart(h, st)
    /\ x.pc \in {"resolve", "compile", "fold"} => Waiting(st) = {} /\ Growing(h, st) = {}
    /\ x.pc \in {"stream", "refresh"} =>
         IF Answered(h)
         THEN \A t \in x.batch : /\ t \in h[Len(h)].calls
                                 /\ st[t] \in {"generating", "generated"}
         ELSE x.batch = {} /\ Waiting(st) = {} /\ Growing(h, st) = {}
    /\ x.pc \in {"prep", "policy", "exec", "save"} => x.todo = Waiting(st) /\ Growing(h, st) = {}
    /\ x.pc \in {"prep", "policy"} /\ ~Answered(h) => Waiting(st) = {}
    /\ x.pc \in {"exec", "save"} => ~x.ret /\ x.asks \subseteq x.todo
    /\ x.pc = "exec" => Runs(x, h, st)

\* The loop of a turn that was stopped: nobody but this loop can take the turn up, for
\* the calls that are open are left to do behind the one it executes.
Dead(x, h, st, users) ==
    LET open == Waiting(st) \cup users IN
    /\ x.pc # "exec" => open = {} \/ (h = <<>> /\ x.pc # "resolve")
    /\ x.pc = "exec" => h = <<>> \/ /\ x.cut
                                    /\ open \subseteq x.todo
                                    /\ x.cur \cap x.todo = {}
                                    /\ Runs(x, h, st)

Fits(x, h, st, live, users, stopped) ==
    /\ x.pc = "resolve" /\ x.input \in DOMAIN h => h[x.input].role = "user"
    /\ live => Live(x, h, st)
    /\ ~live => stopped /\ Dead(x, h, st, users)

\* Every call is answered and the model has not gone on.
Settled(h, st) ==
    /\ CurCalls(h) # {}
    /\ \A t \in CurCalls(h) : st[t] \in {"done", "errored"}
    /\ h[Len(h)].role = "tool"

TurnInv ==
    /\ Told(history, status)
    /\ history # <<>> => UsersFit(history, status, byUser, applying)
    /\ streaming => byUser \cup applying = {} /\ \E l \in Loop : Drives(loop[l])
    /\ \A l, m \in Loop : Drives(loop[l]) /\ Drives(loop[m]) => l = m
    /\ \A l \in Loop : Drives(loop[l]) =>
         Fits(loop[l], history, status, streaming, byUser \cup applying, interrupted)
    /\ Settled(history, status) /\ (\A l \in Loop : ~Drives(loop[l])) => interrupted

LEMMA EmptyHas == CurCalls(<<>>) = {}
BY DEF CurCalls

LEMMA AnsweredCur ==
    ASSUME NEW h \in Seq(Item), Answered(h)
    PROVE  CurCalls(h) = h[Len(h)].calls
<1>. DEFINE n == Len(h)
<1>1. n \in DOMAIN h /\ h[n].role = "assistant" /\ h[n].calls \subseteq Call
  <2>1. n \in 1 .. Len(h)
    BY DEF Answered
  <2>2. h[n] \in Item
    BY <2>1
  <2>3. QED
    BY <2>1, <2>2 DEF Answered, Item
<1>2. ASSUME NEW t \in h[n].calls PROVE t \in CurCalls(h)
  BY <1>1, <1>2 DEF CurCalls
<1>3. ASSUME NEW t \in CurCalls(h) PROVE t \in h[n].calls
  <2>1. PICK i \in DOMAIN h : t \in h[i].calls /\ \A j \in i + 1 .. n : h[j].role = "tool"
    BY <1>3 DEF CurCalls
  <2>2. i = n
    BY <1>1, <2>1
  <2>3. QED
    BY <2>1, <2>2
<1>4. QED
  BY <1>2, <1>3

LEMMA UserLastCur ==
    ASSUME NEW h \in Seq(Item), h # <<>>, h[Len(h)].role = "user"
    PROVE  CurCalls(h) = {}
<1>. SUFFICES ASSUME NEW t \in CurCalls(h) PROVE FALSE
  OBVIOUS
<1>1. PICK i \in DOMAIN h : /\ h[i].role = "assistant"
                            /\ \A j \in i + 1 .. Len(h) : h[j].role = "tool"
  BY DEF CurCalls
<1>2. i # Len(h)
  BY <1>1
<1>3. Len(h) \in i + 1 .. Len(h)
  BY <1>2
<1>4. QED
  BY <1>1, <1>3

LEMMA CurMade ==
    ASSUME NEW h, NEW t \in CurCalls(h)
    PROVE  \E i \in DOMAIN h : /\ Made(h, i, t) /\ h[i].role = "assistant"
                               /\ \A j \in i + 1 .. Len(h) : h[j].role = "tool"
BY DEF CurCalls, Made

LEMMA FirstOf ==
    ASSUME NEW h \in Seq(Item), NEW n \in 0 .. Len(h)
    PROVE  /\ SubSeq(h, 1, n) \in Seq(Item) /\ Len(SubSeq(h, 1, n)) = n
           /\ DOMAIN SubSeq(h, 1, n) = 1 .. n
           /\ \A i \in 1 .. n : SubSeq(h, 1, n)[i] = h[i]
<1>1. \A i \in 1 .. n : h[i] \in Item
  OBVIOUS
<1>2. QED
  BY <1>1, SubSeqProperties

\* What is told stays true when calls get other statuses, as long as none comes to wait
\* behind the last answer.
LEMMA MarksTold ==
    ASSUME NEW h, NEW st, NEW new, Told(h, st),
           \A t \in Call : /\ new[t] = "none" => st[t] = "none"
                           /\ new[t] = "generated" => st[t] = "generated" \/ t \in CurCalls(h)
    PROVE  Told(h, new)
BY DEF Told, Waiting

\* What is told depends on who speaks and on the calls alone.
LEMMA ShapeTold ==
    ASSUME NEW g \in Seq(Item), NEW h \in Seq(Item), NEW st, Len(g) = Len(h),
           \A i \in DOMAIN h : g[i].role = h[i].role /\ g[i].calls = h[i].calls
    PROVE  /\ CurCalls(g) = CurCalls(h)
           /\ Answered(g) <=> Answered(h)
           /\ Told(h, st) => Told(g, st)
<1>1. DOMAIN g = DOMAIN h /\ DOMAIN h = 1 .. Len(h) /\ Len(h) \in Nat
  OBVIOUS
<1>2. CurCalls(g) = CurCalls(h)
  <2>. SUFFICES ASSUME NEW t \in Call, NEW i \in DOMAIN h
                PROVE  (/\ g[i].role = "assistant" /\ t \in g[i].calls
                        /\ \A j \in i + 1 .. Len(g) : g[j].role = "tool")
                       <=> (/\ h[i].role = "assistant" /\ t \in h[i].calls
                            /\ \A j \in i + 1 .. Len(h) : h[j].role = "tool")
    BY <1>1 DEF CurCalls
  <2>1. \A j \in i + 1 .. Len(h) : j \in DOMAIN h
    BY <1>1
  <2>2. QED
    BY <2>1
<1>3. Answered(g) <=> Answered(h)
  BY <1>1 DEF Answered
<1>4. ASSUME NEW t, NEW i PROVE Made(g, i, t) <=> Made(h, i, t)
  BY <1>1 DEF Made
<1>5. Follows(h) => Follows(g)
  <2>. SUFFICES ASSUME Follows(h), NEW i \in DOMAIN h, h[i].role = "tool"
                PROVE  \E j \in 1 .. i - 1 : /\ g[j].role = "assistant"
                                             /\ g[i].calls \subseteq g[j].calls
                                             /\ \A m \in j + 1 .. i - 1 : g[m].role = "tool"
    BY <1>1 DEF Follows
  <2>1. PICK j \in 1 .. i - 1 : /\ h[j].role = "assistant"
                                /\ h[i].calls \subseteq h[j].calls
                                /\ \A m \in j + 1 .. i - 1 : h[m].role = "tool"
    BY DEF Follows
  <2>2. j \in DOMAIN h /\ \A m \in j + 1 .. i - 1 : m \in DOMAIN h
    BY <1>1
  <2>3. QED
    BY <2>1, <2>2
<1>6. (g # <<>> => h # <<>>) /\ (h # <<>> => 1 \in DOMAIN h)
  OBVIOUS
<1>7. QED
  BY <1>1, <1>2, <1>3, <1>4, <1>5, <1>6 DEF Told

LEMMA PushTold ==
    ASSUME NEW h \in Seq(Item), NEW t \in Call
    PROVE  /\ CurCalls(Push(h, t)) = CurCalls(h)
           /\ \A st : Told(h, st) => Told(Push(h, t), st)
           /\ h = <<>> => Push(h, t) = <<>>
<1>1. CASE t \notin CurCalls(h)
  BY <1>1, EmptyHas DEF Push
<1>2. CASE t \in CurCalls(h)
  <2>. DEFINE g == Append(h, ToolMessage(t))
  <2>1. Push(h, t) = g
    BY <1>2 DEF Push
  <2>2. /\ Len(g) = Len(h) + 1 /\ DOMAIN h = 1 .. Len(h) /\ DOMAIN g = 1 .. Len(h) + 1
        /\ \A i \in 1 .. Len(h) : g[i] = h[i]
        /\ g[Len(h) + 1] = ToolMessage(t)
    OBVIOUS
  <2>3. ToolMessage(t).role = "tool" /\ ToolMessage(t).calls = {t}
    BY DEF ToolMessage
  <2>4. Len(h) \in Nat
    OBVIOUS
  <2>. HIDE DEF g
  <2>5. CurCalls(g) = CurCalls(h)
    <3>1. ASSUME NEW u \in CurCalls(h) PROVE u \in CurCalls(g)
      <4>1. PICK i \in DOMAIN h : /\ h[i].role = "assistant" /\ u \in h[i].calls
                                  /\ \A j \in i + 1 .. Len(h) : h[j].role = "tool"
        BY <3>1 DEF CurCalls
      <4>2. \A j \in i + 1 .. Len(g) : g[j].role = "tool"
        BY <2>2, <2>3, <2>4, <4>1
      <4>3. i \in DOMAIN g /\ g[i] = h[i]
        BY <2>2, <2>4
      <4>4. QED
        BY <3>1, <4>1, <4>2, <4>3 DEF CurCalls
    <3>2. ASSUME NEW u \in CurCalls(g) PROVE u \in CurCalls(h)
      <4>1. PICK i \in DOMAIN g : /\ g[i].role = "assistant" /\ u \in g[i].calls
                                  /\ \A j \in i + 1 .. Len(g) : g[j].role = "tool"
        BY <3>2 DEF CurCalls
      <4>2. i \in DOMAIN h /\ g[i] = h[i]
        BY <2>2, <2>3, <2>4, <4>1
      <4>3. \A j \in i + 1 .. Len(h) : h[j].role = "tool"
        BY <2>2, <2>4, <4>1, <4>2
      <4>4. QED
        BY <3>2, <4>1, <4>2, <4>3 DEF CurCalls
    <3>3. QED
      BY <3>1, <3>2
  <2>6. ASSUME NEW i, NEW u PROVE Made(g, i, u) <=> Made(h, i, u)
    BY <2>2, <2>3, <2>4 DEF Made
  <2>7. Follows(h) => Follows(g)
    <3>. SUFFICES ASSUME Follows(h), NEW i \in DOMAIN g, g[i].role = "tool"
                  PROVE  \E j \in 1 .. i - 1 : /\ g[j].role = "assistant"
                                               /\ g[i].calls \subseteq g[j].calls
                                               /\ \A m \in j + 1 .. i - 1 : g[m].role = "tool"
      BY DEF Follows
    <3>1. CASE i \in DOMAIN h
      <4>1. PICK j \in 1 .. i - 1 : /\ h[j].role = "assistant"
                                    /\ h[i].calls \subseteq h[j].calls
                                    /\ \A m \in j + 1 .. i - 1 : h[m].role = "tool"
        BY <2>2, <3>1 DEF Follows
      <4>2. g[i] = h[i] /\ g[j] = h[j] /\ \A m \in j + 1 .. i - 1 : g[m] = h[m]
        BY <2>2, <2>4, <3>1
      <4>3. QED
        BY <4>1, <4>2
    <3>2. CASE i = Len(h) + 1
      <4>1. PICK j \in DOMAIN h : /\ h[j].role = "assistant" /\ t \in h[j].calls
                                  /\ \A m \in j + 1 .. Len(h) : h[m].role = "tool"
        BY <1>2 DEF CurCalls
      <4>2. j \in 1 .. i - 1 /\ g[j] = h[j] /\ \A m \in j + 1 .. i - 1 : g[m] = h[m]
        BY <2>2, <2>4, <3>2, <4>1
      <4>3. g[i].calls = {t} /\ i - 1 = Len(h)
        BY <2>2, <2>3, <2>4, <3>2
      <4>4. QED
        BY <4>1, <4>2, <4>3
    <3>3. QED
      BY <2>2, <2>4, <3>1, <3>2
  <2>8. h # <<>> /\ g # <<>> /\ g[1] = h[1]
    <3>1. h # <<>>
      BY <1>2, EmptyHas
    <3>2. Len(h) >= 1
      BY <3>1
    <3>3. QED
      BY <2>2, <3>1, <3>2
  <2>9. \A st : Told(h, st) => Told(g, st)
    BY <2>2, <2>4, <2>5, <2>6, <2>7, <2>8 DEF Told, Made
  <2>10. QED
    BY <2>1, <2>5, <2>8, <2>9
<1>3. QED
  BY <1>1, <1>2

\* A history that is cut short, with the calls that went forgotten.
LEMMA PrefixTold ==
    ASSUME NEW h \in Seq(Item), NEW st, Told(h, st), NEW n \in 0 .. Len(h)
    PROVE  Told(SubSeq(h, 1, n), Forget(st, SubSeq(h, 1, n)))
<1>. DEFINE g == SubSeq(h, 1, n)
            new == Forget(st, g)
<1>1. /\ g \in Seq(Item) /\ Len(g) = n /\ DOMAIN g = 1 .. n /\ DOMAIN h = 1 .. Len(h)
      /\ \A i \in 1 .. n : g[i] = h[i]
      /\ n \in Nat /\ Len(h) \in Nat /\ n <= Len(h)
  BY FirstOf
<1>2. \A t \in Call : new[t] = IF \E i \in DOMAIN g : Made(g, i, t) THEN st[t]
                              ELSE IF st[t] = "none" THEN "none" ELSE "gone"
  BY DEF Forget, Made
<1>. HIDE DEF g, new
<1>3. ASSUME NEW i, NEW t, Made(g, i, t) PROVE Made(h, i, t) /\ i \in 1 .. n
  BY <1>1, <1>3 DEF Made
<1>4. g # <<>> => g[1].role = "user"
  <2>. SUFFICES ASSUME g # <<>> PROVE g[1].role = "user"
    OBVIOUS
  <2>1. n >= 1
    BY <1>1
  <2>2. g[1] = h[1] /\ h # <<>>
    BY <1>1, <2>1
  <2>3. QED
    BY <2>2 DEF Told
<1>5. Follows(g)
  <2>. SUFFICES ASSUME NEW i \in 1 .. n, g[i].role = "tool"
                PROVE  \E j \in 1 .. i - 1 : /\ g[j].role = "assistant"
                                             /\ g[i].calls \subseteq g[j].calls
                                             /\ \A m \in j + 1 .. i - 1 : g[m].role = "tool"
    BY <1>1 DEF Follows
  <2>1. i \in DOMAIN h /\ g[i] = h[i]
    BY <1>1
  <2>2. PICK j \in 1 .. i - 1 : /\ h[j].role = "assistant"
                                /\ h[i].calls \subseteq h[j].calls
                                /\ \A m \in j + 1 .. i - 1 : h[m].role = "tool"
    BY <2>1 DEF Told, Follows
  <2>3. g[j] = h[j] /\ \A m \in j + 1 .. i - 1 : g[m] = h[m]
    BY <1>1
  <2>4. QED
    BY <2>1, <2>2, <2>3
<1>6. \A t \in Call : \A i, j \in DOMAIN g : Made(g, i, t) /\ Made(g, j, t) => i = j
  BY <1>1, <1>3 DEF Told
<1>7. \A t \in Call : \A i \in DOMAIN g : Made(g, i, t) => new[t] # "none"
  BY <1>1, <1>2, <1>3 DEF Told
<1>8. ASSUME NEW t \in Waiting(new) PROVE t \in CurCalls(g)
  <2>1. t \in Call /\ new[t] = "generated"
    BY <1>8 DEF Waiting
  <2>2. st[t] = "generated" /\ \E i \in DOMAIN g : Made(g, i, t)
    BY <1>2, <2>1
  <2>3. PICK i \in 1 .. n : Made(g, i, t) /\ Made(h, i, t)
    BY <1>3, <2>2
  <2>4. t \in CurCalls(h)
    BY <2>1, <2>2 DEF Told, Waiting
  <2>5. PICK k \in DOMAIN h : /\ Made(h, k, t) /\ h[k].role = "assistant"
                              /\ \A j \in k + 1 .. Len(h) : h[j].role = "tool"
    BY <2>4, CurMade
  <2>6. k = i
    BY <1>1, <2>1, <2>3, <2>5 DEF Told
  <2>7. g[i].role = "assistant" /\ t \in g[i].calls
    BY <1>1, <2>3, <2>5, <2>6 DEF Made
  <2>8. \A j \in i + 1 .. Len(g) : g[j].role = "tool"
    BY <1>1, <2>5, <2>6
  <2>9. QED
    BY <1>1, <2>1, <2>7, <2>8 DEF CurCalls
<1>9. Told(g, new)
  BY <1>4, <1>5, <1>6, <1>7, <1>8 DEF Told
<1>10. QED
  BY <1>9 DEF g, new

LEMMA AnsweringTold ==
    ASSUME NEW h \in Seq(Item), h # <<>>, NEW st, Told(h, st),
           Answered(h) \/ Waiting(st) = {}
    PROVE  /\ Answering(h) \in Seq(Item) /\ Answered(Answering(h))
           /\ Told(Answering(h), st)
           /\ Answered(h) => Answering(h) = h
           /\ ~Answered(h) => Answering(h)[Len(Answering(h))].calls = {}
<1>1. CASE Answered(h)
  BY <1>1 DEF Answering, Answered
<1>2. CASE ~Answered(h)
  <2>. DEFINE g == Append(h, Assistant)
  <2>1. Answering(h) = g
    BY <1>2 DEF Answering, Answered
  <2>2. /\ g \in Seq(Item) /\ Len(g) = Len(h) + 1
        /\ DOMAIN h = 1 .. Len(h) /\ DOMAIN g = 1 .. Len(h) + 1
        /\ \A i \in 1 .. Len(h) : g[i] = h[i]
        /\ g[Len(h) + 1] = Assistant
        /\ Len(h) \in Nat /\ Len(h) >= 1
    BY ItemsTyped
  <2>3. Assistant.role = "assistant" /\ Assistant.calls = {}
    BY DEF Assistant
  <2>. HIDE DEF g
  <2>4. Answered(g) /\ g[Len(g)].calls = {}
    BY <2>2, <2>3 DEF Answered
  <2>5. ASSUME NEW i, NEW t, Made(g, i, t) PROVE Made(h, i, t)
    BY <2>2, <2>3, <2>5 DEF Made
  <2>6. Follows(g)
    <3>. SUFFICES ASSUME NEW i \in DOMAIN g, g[i].role = "tool"
                  PROVE  \E j \in 1 .. i - 1 : /\ g[j].role = "assistant"
                                               /\ g[i].calls \subseteq g[j].calls
                                               /\ \A m \in j + 1 .. i - 1 : g[m].role = "tool"
      BY DEF Follows
    <3>1. i \in DOMAIN h /\ g[i] = h[i]
      BY <2>2, <2>3
    <3>2. PICK j \in 1 .. i - 1 : /\ h[j].role = "assistant"
                                  /\ h[i].calls \subseteq h[j].calls
                                  /\ \A m \in j + 1 .. i - 1 : h[m].role = "tool"
      BY <3>1 DEF Told, Follows
    <3>3. g[j] = h[j] /\ \A m \in j + 1 .. i - 1 : g[m] = h[m]
      BY <2>2, <3>1
    <3>4. QED
      BY <3>1, <3>2, <3>3
  <2>7. g[1] = h[1]
    BY <2>2
  <2>8. \A t \in Call : \A i, j \in DOMAIN g : Made(g, i, t) /\ Made(g, j, t) => i = j
    BY <2>5 DEF Told, Made
  <2>9. \A t \in Call : \A i \in DOMAIN g : Made(g, i, t) => st[t] # "none"
    BY <2>5 DEF Told, Made
  <2>10. Told(g, st)
    BY <1>2, <2>6, <2>7, <2>8, <2>9 DEF Told
  <2>11. QED
    BY <1>2, <2>1, <2>2, <2>4, <2>10
<1>3. QED
  BY <1>1, <1>2

\* A call that is new to the history.
LEMMA NewCallTold ==
    ASSUME NEW h \in Seq(Item), Answered(h), NEW st, Told(h, st),
           NEW t \in Call, st[t] = "none", NEW g \in Seq(Item),
           Len(g) = Len(h), g[Len(h)].role = "assistant",
           g[Len(h)].calls = h[Len(h)].calls \cup {t},
           \A i \in 1 .. Len(h) - 1 : g[i] = h[i],
           NEW new, new[t] = "generating",
           \A u \in Call \ {t} : /\ new[u] = "none" => st[u] = "none"
                                 /\ new[u] = "generated" =>
                                      st[u] = "generated" \/ u \in CurCalls(h)
    PROVE  /\ Told(g, new) /\ Answered(g) /\ Len(g) = Len(h)
           /\ g[Len(g)].calls = h[Len(h)].calls \cup {t}
<1>. DEFINE n == Len(h)
<1>1. /\ n \in Nat /\ n >= 1 /\ DOMAIN h = 1 .. n /\ h[n].role = "assistant"
      /\ h[n] \in Item
  <2>1. n \in Nat /\ n >= 1 /\ DOMAIN h = 1 .. n /\ h[n].role = "assistant"
    BY DEF Answered
  <2>2. QED
    BY <2>1
<1>3. /\ Len(g) = n /\ DOMAIN g = 1 .. n
      /\ \A i \in 1 .. n : g[i].role = h[i].role
      /\ \A i \in 1 .. n : i # n => g[i] = h[i]
      /\ g[n].calls = h[n].calls \cup {t}
  <2>1. \A i \in 1 .. n : i # n => i \in 1 .. n - 1
    BY <1>1
  <2>2. \A i \in 1 .. n : i # n => g[i] = h[i]
    BY <2>1
  <2>3. Len(g) = n /\ DOMAIN g = 1 .. n /\ g[n].role = h[n].role
    BY <1>1
  <2>4. QED
    BY <2>2, <2>3
<1>4. Answered(g)
  <2>1. Len(g) = n /\ g[n].role = "assistant" /\ Len(g) # 0
    BY <1>1
  <2>2. g # <<>>
    BY <2>1
  <2>3. QED
    BY <2>1, <2>2 DEF Answered
<1>5. CurCalls(g) = CurCalls(h) \cup {t}
  <2>1. CurCalls(h) = h[Len(h)].calls /\ CurCalls(g) = g[Len(g)].calls
    BY <1>4, AnsweredCur
  <2>2. QED
    BY <1>3, <2>1
<1>6. ASSUME NEW i, NEW u, Made(g, i, u) PROVE Made(h, i, u) \/ (u = t /\ i = n)
  BY <1>1, <1>3, <1>6 DEF Made
<1>7. \A i : ~Made(h, i, t)
  BY DEF Told, Made
<1>8. Follows(g)
  <2>. SUFFICES ASSUME NEW i \in 1 .. n, g[i].role = "tool"
                PROVE  \E j \in 1 .. i - 1 : /\ g[j].role = "assistant"
                                             /\ g[i].calls \subseteq g[j].calls
                                             /\ \A m \in j + 1 .. i - 1 : g[m].role = "tool"
    BY <1>3 DEF Follows
  <2>1. i # n /\ g[i] = h[i] /\ i \in DOMAIN h
    BY <1>1, <1>3
  <2>2. PICK j \in 1 .. i - 1 : /\ h[j].role = "assistant"
                                /\ h[i].calls \subseteq h[j].calls
                                /\ \A m \in j + 1 .. i - 1 : h[m].role = "tool"
    BY <2>1 DEF Told, Follows
  <2>3. g[j] = h[j] /\ \A m \in j + 1 .. i - 1 : g[m] = h[m]
    <3>1. ASSUME NEW m \in 1 .. i - 1 PROVE g[m] = h[m]
      <4>1. m \in 1 .. n /\ m # n
        BY <1>1, <2>1
      <4>2. QED
        BY <1>3, <4>1
    <3>2. j + 1 .. i - 1 \subseteq 1 .. i - 1
      OBVIOUS
    <3>3. QED
      BY <3>1, <3>2
  <2>4. QED
    BY <2>1, <2>2, <2>3
<1>9. g[1].role = "user"
  <2>1. h[1].role = "user" /\ 1 \in 1 .. n
    BY <1>1 DEF Told, Answered
  <2>2. QED
    BY <1>3, <2>1
<1>10. \A u \in Call : \A i, j \in DOMAIN g : Made(g, i, u) /\ Made(g, j, u) => i = j
  <2>. SUFFICES ASSUME NEW u \in Call, NEW i \in DOMAIN g, NEW j \in DOMAIN g,
                       Made(g, i, u), Made(g, j, u)
                PROVE  i = j
    OBVIOUS
  <2>1. CASE u = t
    <3>1. ~Made(h, i, u) /\ ~Made(h, j, u)
      BY <1>7, <2>1
    <3>2. i = n /\ j = n
      BY <1>6, <3>1
    <3>3. QED
      BY <3>2
  <2>2. CASE u # t
    <3>1. Made(h, i, u) /\ Made(h, j, u)
      BY <1>6, <2>2
    <3>2. QED
      BY <1>1, <1>3, <3>1 DEF Told
  <2>3. QED
    BY <2>1, <2>2
<1>11. \A u \in Call : \A i \in DOMAIN g : Made(g, i, u) => new[u] # "none"
  <2>. SUFFICES ASSUME NEW u \in Call, NEW i \in DOMAIN g, Made(g, i, u)
                PROVE  new[u] # "none"
    OBVIOUS
  <2>1. CASE u = t
    BY <2>1
  <2>2. CASE u # t
    <3>1. Made(h, i, u)
      BY <1>6, <2>2
    <3>2. QED
      BY <1>1, <1>3, <2>2, <3>1 DEF Told
  <2>3. QED
    BY <2>1, <2>2
<1>12. Waiting(new) \subseteq CurCalls(g)
  <2>. SUFFICES ASSUME NEW u \in Call, new[u] = "generated" PROVE u \in CurCalls(g)
    BY DEF Waiting
  <2>1. u # t
    OBVIOUS
  <2>2. QED
    BY <1>5, <2>1 DEF Told, Waiting
<1>13. QED
  BY <1>3, <1>4, <1>8, <1>9, <1>10, <1>11, <1>12 DEF Told

\* The user sends: g is what is left of h before the place k, the message, and the
\* empty answer to it.
Sent(h, k, g) ==
    /\ g \in Seq(Item) /\ Len(g) = k + 1 /\ DOMAIN g = 1 .. k + 1
    /\ \A i \in 1 .. k - 1 : g[i] = h[i]
    /\ g[k] = User /\ g[k + 1] = Assistant

LEMMA SentIs ==
    ASSUME NEW h \in Seq(Item), NEW k \in 1 .. Len(h) + 1, NEW g,
           g = SubSeq(h, 1, k - 1) \o <<User, Assistant>>
    PROVE  Sent(h, k, g)
<1>. DEFINE p == SubSeq(h, 1, k - 1)
            two == <<User, Assistant>>
<1>1. /\ p \in Seq(Item) /\ Len(p) = k - 1 /\ DOMAIN h = 1 .. Len(h)
      /\ \A i \in 1 .. k - 1 : p[i] = h[i]
      /\ Len(h) \in Nat /\ k \in Nat /\ 1 <= k /\ k <= Len(h) + 1
  <2>1. Len(h) \in Nat /\ k \in Nat /\ 1 <= k /\ k <= Len(h) + 1 /\ DOMAIN h = 1 .. Len(h)
    OBVIOUS
  <2>2. k - 1 \in 0 .. Len(h)
    BY <2>1
  <2>3. QED
    BY <2>1, <2>2, FirstOf
<1>2. /\ g \in Seq(Item) /\ Len(g) = k + 1 /\ DOMAIN g = 1 .. k + 1
      /\ \A i \in 1 .. k - 1 : g[i] = h[i]
      /\ g[k] = User /\ g[k + 1] = Assistant
  <2>1. two \in Seq(Item) /\ Len(two) = 2 /\ two[1] = User /\ two[2] = Assistant
    BY ItemsTyped
  <2>. HIDE DEF p, two
  <2>2. g = p \o two
    BY DEF p, two
  <2>3. g \in Seq(Item) /\ Len(g) = Len(p) + Len(two)
    BY <1>1, <2>1, <2>2, ConcatProperties
  <2>4. Len(g) = k + 1 /\ DOMAIN g = 1 .. k + 1
    BY <1>1, <2>1, <2>3
  <2>5. \A i \in 1 .. Len(p) + Len(two) : g[i] = IF i <= Len(p) THEN p[i] ELSE two[i - Len(p)]
    <3>1. \A i \in 1 .. Len(p) + Len(two) :
            (p \o two)[i] = IF i <= Len(p) THEN p[i] ELSE two[i - Len(p)]
      BY <1>1, <2>1, ConcatProperties
    <3>2. QED
      BY <2>2, <3>1, Zenon
  <2>6. \A i \in 1 .. k - 1 : g[i] = p[i]
    BY <1>1, <2>1, <2>5
  <2>7. g[k] = two[1]
    <3>1. k \in 1 .. Len(p) + Len(two) /\ ~(k <= Len(p)) /\ k - Len(p) = 1
      BY <1>1, <2>1
    <3>2. QED
      BY <2>5, <3>1
  <2>8. g[k + 1] = two[2]
    <3>1. /\ k + 1 \in 1 .. Len(p) + Len(two) /\ ~(k + 1 <= Len(p))
          /\ (k + 1) - Len(p) = 2
      BY <1>1, <2>1
    <3>2. QED
      BY <2>5, <3>1
  <2>9. QED
    BY <1>1, <2>1, <2>3, <2>4, <2>6, <2>7, <2>8
<1>3. QED
  BY <1>2 DEF Sent

LEMMA SentRoles ==
    /\ User.role = "user" /\ User.calls = {}
    /\ Assistant.role = "assistant" /\ Assistant.calls = {}
BY DEF User, Assistant

LEMMA SentTold ==
    ASSUME NEW h \in Seq(Item), NEW st, Told(h, st), NEW k \in 1 .. Len(h) + 1, NEW g,
           Sent(h, k, g),
           NEW calm, Waiting(calm) = {}, \A t \in Call : calm[t] = "none" => st[t] = "none"
    PROVE  Told(g, Forget(calm, g)) /\ Waiting(Forget(calm, g)) = {}
<1>. DEFINE new == Forget(calm, g)
<1>1. /\ Len(h) \in Nat /\ k \in Nat /\ 1 <= k /\ k <= Len(h) + 1 /\ DOMAIN h = 1 .. Len(h)
  OBVIOUS
<1>2. /\ g \in Seq(Item) /\ Len(g) = k + 1 /\ DOMAIN g = 1 .. k + 1
      /\ \A i \in 1 .. k - 1 : g[i] = h[i]
      /\ g[k] = User /\ g[k + 1] = Assistant
  BY DEF Sent
<1>3. /\ User.role = "user" /\ User.calls = {}
      /\ Assistant.role = "assistant" /\ Assistant.calls = {}
  BY SentRoles
<1>4. ASSUME NEW i, NEW t, Made(g, i, t) PROVE Made(h, i, t)
  <2>1. i \in 1 .. k - 1
    BY <1>1, <1>2, <1>3, <1>4 DEF Made
  <2>2. QED
    BY <1>1, <1>2, <1>4, <2>1 DEF Made
<1>5. \A t \in Call : new[t] = IF \E i \in DOMAIN g : Made(g, i, t) THEN calm[t]
                              ELSE IF calm[t] = "none" THEN "none" ELSE "gone"
  BY DEF Forget, Made
<1>. HIDE DEF new
<1>6. Waiting(new) = {}
  BY <1>5 DEF Waiting
<1>8. Follows(g)
  <2>. SUFFICES ASSUME NEW i \in 1 .. k + 1, g[i].role = "tool"
                PROVE  \E j \in 1 .. i - 1 : /\ g[j].role = "assistant"
                                             /\ g[i].calls \subseteq g[j].calls
                                             /\ \A m \in j + 1 .. i - 1 : g[m].role = "tool"
    BY <1>2 DEF Follows
  <2>1. i \in 1 .. k - 1 /\ i \in DOMAIN h /\ g[i] = h[i]
    BY <1>1, <1>2, <1>3
  <2>2. PICK j \in 1 .. i - 1 : /\ h[j].role = "assistant"
                                /\ h[i].calls \subseteq h[j].calls
                                /\ \A m \in j + 1 .. i - 1 : h[m].role = "tool"
    BY <2>1 DEF Told, Follows
  <2>3. g[j] = h[j] /\ \A m \in j + 1 .. i - 1 : g[m] = h[m]
    <3>1. 1 .. i - 1 \subseteq 1 .. k - 1 /\ j + 1 .. i - 1 \subseteq 1 .. i - 1
      BY <1>1, <2>1
    <3>2. QED
      BY <1>2, <3>1
  <2>4. QED
    BY <2>1, <2>2, <2>3
<1>9. g[1].role = "user"
  <2>1. CASE k = 1
    BY <1>2, <1>3, <2>1
  <2>2. CASE k # 1
    <3>1. h # <<>> /\ g[1] = h[1]
      BY <1>1, <1>2, <2>2
    <3>2. QED
      BY <3>1 DEF Told
  <2>3. QED
    BY <2>1, <2>2
<1>10. \A t \in Call : \A i, j \in DOMAIN g : Made(g, i, t) /\ Made(g, j, t) => i = j
  BY <1>4 DEF Told, Made
<1>11. \A t \in Call : \A i \in DOMAIN g : Made(g, i, t) => new[t] # "none"
  BY <1>4, <1>5 DEF Told, Made
<1>12. Told(g, new)
  BY <1>6, <1>8, <1>9, <1>10, <1>11 DEF Told
<1>13. QED
  BY <1>6, <1>12 DEF new

LEMMA WholeOf == ASSUME NEW h \in Seq(Item) PROVE SubSeq(h, 1, Len(h)) = h
<1>1. /\ SubSeq(h, 1, Len(h)) \in Seq(Item) /\ Len(SubSeq(h, 1, Len(h))) = Len(h)
      /\ \A i \in 1 .. Len(h) : SubSeq(h, 1, Len(h))[i] = h[i]
  <2>1. Len(h) \in 0 .. Len(h)
    OBVIOUS
  <2>2. QED
    BY <2>1, FirstOf
<1>2. QED
  BY <1>1, SeqEqual

LEMMA DanglingFirst ==
    ASSUME NEW h \in Seq(Item), NEW st
    PROVE  \E n \in 0 .. Len(h) : Dangling(h, st) = SubSeq(h, 1, n)
<1>. DEFINE last == h[Len(h)]
<1>0. Len(h) \in Nat
  OBVIOUS
<1>1. CASE Dangling(h, st) = h
  BY <1>0, <1>1, WholeOf
<1>2. CASE Len(h) >= 2 /\ Dangling(h, st) \in {SubSeq(h, 1, Len(h) - 1), SubSeq(h, 1, Len(h) - 2)}
  <2>1. Len(h) - 1 \in 0 .. Len(h) /\ Len(h) - 2 \in 0 .. Len(h)
    BY <1>0, <1>2
  <2>2. QED
    BY <1>2, <2>1
<1>3. CASE Len(h) < 2
  BY <1>1, <1>3 DEF Dangling
<1>4. CASE Len(h) >= 2
  <2>1. last.role \in {"user", "assistant", "tool"}
    <3>1. last \in Item
      BY <1>0, <1>4
    <3>2. QED
      BY <3>1 DEF Item, Role
  <2>2. Dangling(h, st) \in {h, SubSeq(h, 1, Len(h) - 1), SubSeq(h, 1, Len(h) - 2)}
    <3>1. ~(Len(h) < 2)
      BY <1>0, <1>4
    <3>. HIDE DEF last
    <3>2. Dangling(h, st) = CASE last.role = "user" -> SubSeq(h, 1, Len(h) - 1)
                              [] last.role = "tool" -> h
                              [] last.role = "assistant" ->
                                   IF last.text \/ \E t \in last.calls : st[t] # "generating"
                                   THEN h
                                   ELSE IF h[Len(h) - 1].role = "user"
                                        THEN SubSeq(h, 1, Len(h) - 2)
                                        ELSE SubSeq(h, 1, Len(h) - 1)
      BY <1>4, <3>1, <2>1 DEF Dangling, last
    <3>3. QED
      BY <2>1, <3>2
  <2>3. QED
    BY <1>1, <1>2, <1>4, <2>2
<1>5. QED
  BY <1>0, <1>3, <1>4

\* A stop forgets nothing that is told, cancels the calls that wait in the last answer,
\* and leaves a message alone one of whose calls is executed.
LEMMA CancelTold ==
    ASSUME NEW h \in Seq(Item), NEW st \in [Call -> Status], Told(h, st), NEW g, NEW new,
           g = Dangling(h, st), new = ClearedStatus(h, st)
    PROVE  /\ Told(g, new)
           /\ \E n \in 0 .. Len(h) : g = SubSeq(h, 1, n)
           /\ Waiting(new) \subseteq Waiting(st)
           /\ Answered(h) => Waiting(new) = {}
           /\ \A t \in CurCalls(h) : st[t] = "calling" =>
                /\ g = h
                /\ \A u \in CurCalls(h) :
                     st[u] \notin {"generating", "generated"} => new[u] = st[u]
<1>. DEFINE last == h[Len(h)]
            d == IF Len(h) < 2 \/ last.role # "assistant" THEN {}
                 ELSE {t \in last.calls : st[t] \in {"generating", "generated"}}
            m == Mark(st, d, "canceled")
<1>1. PICK n \in 0 .. Len(h) : g = SubSeq(h, 1, n)
  BY DanglingFirst
<1>2. new = Forget(m, g)
  BY DEF ClearedStatus
<1>3. \A t \in Call : m[t] = IF t \in d /\ Present(st, t) THEN "canceled" ELSE st[t]
  BY DEF Mark
<1>. HIDE DEF m
<1>4. Told(h, m)
  BY <1>3, MarksTold DEF Present
<1>5. Told(g, new)
  BY <1>1, <1>2, <1>4, PrefixTold
<1>6. \A t \in Call : new[t] = "generated" => m[t] = "generated"
  BY <1>2 DEF Forget
<1>7. Waiting(new) \subseteq Waiting(st)
  BY <1>3, <1>6 DEF Waiting
<1>8. ASSUME Answered(h) PROVE Waiting(new) = {}
  <2>. SUFFICES ASSUME NEW t \in Call, new[t] = "generated" PROVE FALSE
    BY DEF Waiting
  <2>1. m[t] = "generated" /\ st[t] = "generated"
    BY <1>3, <1>6
  <2>2. t \in last.calls
    BY <1>8, <2>1, AnsweredCur DEF Told, Waiting
  <2>3. last.role = "assistant" /\ ~(Len(h) < 2)
    <3>1. h # <<>> /\ last.role = "assistant" /\ h[1].role = "user"
      BY <1>8 DEF Answered, Told
    <3>2. Len(h) # 1 /\ Len(h) # 0 /\ Len(h) \in Nat
      BY <3>1
    <3>3. QED
      BY <3>1, <3>2
  <2>4. t \in d /\ Present(st, t)
    BY <2>1, <2>2, <2>3 DEF Present
  <2>5. QED
    BY <1>3, <2>1, <2>4
<1>9. ASSUME NEW t \in CurCalls(h), st[t] = "calling"
      PROVE  /\ g = h
             /\ \A u \in CurCalls(h) :
                  st[u] \notin {"generating", "generated"} => new[u] = st[u]
  <2>1. h # <<>>
    BY EmptyHas
  <2>2. last \in Item /\ Len(h) \in Nat
    BY <2>1
  <2>3. last.role \in {"user", "assistant", "tool"}
    BY <2>2 DEF Item, Role
  <2>4. last.role # "user"
    BY <2>1, UserLastCur
  <2>5. g = h
    <3>1. CASE Len(h) < 2
      BY <3>1 DEF Dangling
    <3>2. CASE Len(h) >= 2 /\ last.role = "tool"
      BY <2>2, <3>2 DEF Dangling
    <3>3. CASE Len(h) >= 2 /\ last.role = "assistant"
      <4>1. t \in last.calls
        BY <2>1, <3>3, AnsweredCur DEF Answered
      <4>2. \E u \in last.calls : st[u] # "generating"
        BY <1>9, <4>1
      <4>3. ~(Len(h) < 2)
        BY <2>2, <3>3
      <4>4. QED
        BY <3>3, <4>2, <4>3 DEF Dangling
    <3>4. QED
      BY <2>2, <2>3, <2>4, <3>1, <3>2, <3>3
  <2>6. ASSUME NEW u \in CurCalls(h), st[u] \notin {"generating", "generated"}
        PROVE  new[u] = st[u]
    <3>1. u \in Call /\ m[u] = st[u]
      <4>1. u \in Call
        BY DEF CurCalls
      <4>2. u \notin d
        BY <2>6
      <4>3. QED
        BY <1>3, <4>1, <4>2
    <3>2. \E i \in DOMAIN h : h[i].role # "tool" /\ u \in h[i].calls
      BY DEF CurCalls
    <3>3. QED
      BY <1>2, <2>5, <3>1, <3>2 DEF Forget
  <2>7. QED
    BY <2>5, <2>6
<1>10. QED
  BY <1>1, <1>5, <1>7, <1>8, <1>9

-----------------------------------------------------------------------------
(* What a loop that streams relies on. *)

LEMMA BeforeTyped ==
    ASSUME NEW h \in Seq(Item), h # <<>>
    PROVE  /\ Before(h) \in Seq(Item) /\ Len(Before(h)) = Len(h) - 1
           /\ \A i \in 1 .. Len(h) - 1 : Before(h)[i] = h[i]
<1>1. Len(h) \in Nat /\ Len(h) - 1 \in 0 .. Len(h)
  OBVIOUS
<1>2. QED
  BY <1>1, FirstOf DEF Before

LEMMA ApartShape ==
    ASSUME NEW g \in Seq(Item), NEW h \in Seq(Item), NEW st, Len(g) = Len(h), h # <<>>,
           g[Len(g)].role = h[Len(h)].role,
           \A i \in 1 .. Len(h) - 1 : g[i].role = h[i].role /\ g[i].calls = h[i].calls,
           Apart(h, st)
    PROVE  Apart(g, st)
<1>1. Len(h) \in Nat /\ Len(h) >= 1 /\ g # <<>>
  OBVIOUS
<1>2. /\ Before(h) \in Seq(Item) /\ Before(g) \in Seq(Item)
      /\ Len(Before(g)) = Len(Before(h)) /\ Len(Before(h)) = Len(h) - 1
      /\ \A i \in DOMAIN Before(h) : /\ Before(g)[i].role = Before(h)[i].role
                                     /\ Before(g)[i].calls = Before(h)[i].calls
  <2>1. /\ Before(h) \in Seq(Item) /\ Len(Before(h)) = Len(h) - 1
        /\ \A i \in 1 .. Len(h) - 1 : Before(h)[i] = h[i]
    BY BeforeTyped
  <2>2. /\ Before(g) \in Seq(Item) /\ Len(Before(g)) = Len(h) - 1
        /\ \A i \in 1 .. Len(h) - 1 : Before(g)[i] = g[i]
    BY <1>1, BeforeTyped
  <2>3. QED
    BY <2>1, <2>2
<1>3. CurCalls(Before(g)) = CurCalls(Before(h)) /\ (Answered(Before(g)) <=> Answered(Before(h)))
  BY <1>2, ShapeTold
<1>4. Answered(g) => Answered(h)
  BY <1>1 DEF Answered
<1>5. QED
  BY <1>3, <1>4 DEF Apart, Growing

LEMMA ApartMarks ==
    ASSUME NEW h, NEW st, NEW new, Apart(h, st),
           \A t \in Call : new[t] = "generating" => st[t] = "generating"
    PROVE  Apart(h, new)
<1>1. CurCalls(Before(h)) \subseteq Call
  BY CurTyped
<1>2. QED
  BY <1>1 DEF Apart, Growing

\* A call of the last message is no call of an earlier one.
LEMMA LastOnly ==
    ASSUME NEW h \in Seq(Item), NEW st, Told(h, st), Answered(h),
           NEW t \in CurCalls(Before(h))
    PROVE  st[t] # "none" /\ t \notin h[Len(h)].calls
<1>1. /\ Before(h) \in Seq(Item) /\ Len(Before(h)) = Len(h) - 1 /\ Len(h) \in DOMAIN h
      /\ \A i \in 1 .. Len(h) - 1 : Before(h)[i] = h[i]
  <2>1. h # <<>>
    BY DEF Answered
  <2>2. QED
    BY <2>1, BeforeTyped
<1>2. PICK i \in DOMAIN Before(h) : Made(Before(h), i, t)
  BY CurMade
<1>3. i \in 1 .. Len(h) - 1 /\ Made(h, i, t) /\ t \in Call
  <2>1. i \in 1 .. Len(h) - 1 /\ i \in DOMAIN h
    BY <1>1
  <2>2. QED
    BY <1>1, <1>2, <2>1, CurTyped DEF Made
<1>4. st[t] # "none"
  BY <1>3 DEF Told, Made
<1>5. ~Made(h, Len(h), t)
  BY <1>1, <1>3 DEF Told
<1>6. QED
  BY <1>1, <1>4, <1>5 DEF Made, Answered

LEMMA ApartMore ==
    ASSUME NEW h \in Seq(Item), NEW st, NEW new, Told(h, st), Apart(h, st),
           \A t \in Call : new[t] = "generating" =>
               \/ st[t] \in {"generating", "none"}
               \/ t \in h[Len(h)].calls
    PROVE  Apart(h, new)
<1>. SUFFICES ASSUME Answered(h), NEW t \in CurCalls(Before(h)), new[t] = "generating"
              PROVE  FALSE
  BY DEF Apart, Growing
<1>1. st[t] # "none" /\ t \notin h[Len(h)].calls /\ t \in Call
  BY LastOnly, CurTyped
<1>2. st[t] = "generating"
  BY <1>1
<1>3. t \in Growing(Before(h), st)
  BY <1>2 DEF Growing
<1>4. QED
  BY <1>3 DEF Apart

\* A history that does not end with an answer.
LEMMA ApartElse == ASSUME NEW h, NEW st, ~Answered(h) PROVE Apart(h, st)
BY DEF Apart

\* An answer that begins.
LEMMA ApartAnswering ==
    ASSUME NEW h \in Seq(Item), NEW st, h # <<>>, Apart(h, st),
           Answered(h) \/ Growing(h, st) = {}
    PROVE  Apart(Answering(h), st)
<1>1. CASE Answered(h)
  BY <1>1 DEF Answering, Answered
<1>2. CASE ~Answered(h)
  <2>. DEFINE g == Append(h, Assistant)
  <2>1. Answering(h) = g
    BY <1>2 DEF Answering, Answered
  <2>2. g \in Seq(Item) /\ Len(g) = Len(h) + 1 /\ Len(h) \in Nat
        /\ \A i \in 1 .. Len(h) : g[i] = h[i]
    BY ItemsTyped
  <2>. HIDE DEF g
  <2>3. Before(g) \in Seq(Item) /\ Len(Before(g)) = Len(h)
        /\ \A i \in 1 .. Len(h) : Before(g)[i] = g[i]
    <3>1. g # <<>> /\ Len(g) - 1 = Len(h)
      BY <2>2
    <3>2. QED
      BY <2>2, <3>1, BeforeTyped
  <2>4. Before(g) = h
    BY <2>2, <2>3, SeqEqual
  <2>5. QED
    BY <1>2, <2>1, <2>4 DEF Apart
<1>3. QED
  BY <1>1, <1>2

\* The answer to what was sent has no calls, and stands behind the user's message.
LEMMA SentLast ==
    ASSUME NEW h \in Seq(Item), NEW k \in 1 .. Len(h) + 1, NEW g, Sent(h, k, g), NEW st
    PROVE  g[k].role = "user" /\ CurCalls(g) = {} /\ Apart(g, st)
<1>1. /\ g \in Seq(Item) /\ Len(g) = k + 1 /\ k \in Nat /\ k >= 1 /\ g # <<>>
      /\ g[k].role = "user" /\ g[k + 1].role = "assistant" /\ g[k + 1].calls = {}
  <2>1. /\ g \in Seq(Item) /\ Len(g) = k + 1 /\ k \in Nat /\ k >= 1
        /\ g[k].role = "user" /\ g[k + 1].role = "assistant" /\ g[k + 1].calls = {}
    BY SentRoles DEF Sent
  <2>2. Len(g) # 0
    BY <2>1
  <2>3. g # <<>>
    BY <2>2
  <2>4. QED
    BY <2>1, <2>3
<1>2. CurCalls(g) = {}
  <2>1. Answered(g) /\ g[Len(g)].calls = {}
    BY <1>1 DEF Answered
  <2>2. QED
    BY <1>1, <2>1, AnsweredCur
<1>3. /\ Before(g) \in Seq(Item) /\ Len(Before(g)) = k /\ Before(g)[k] = g[k]
  <2>1. /\ Before(g) \in Seq(Item) /\ Len(Before(g)) = Len(g) - 1
        /\ \A i \in 1 .. Len(g) - 1 : Before(g)[i] = g[i]
    BY <1>1, BeforeTyped
  <2>2. Len(g) - 1 = k /\ k \in 1 .. k
    BY <1>1
  <2>3. QED
    BY <2>1, <2>2
<1>4. Before(g) # <<>> /\ Before(g)[Len(Before(g))].role = "user"
  <2>1. Len(Before(g)) # 0
    BY <1>1, <1>3
  <2>2. QED
    BY <1>1, <1>3, <2>1
<1>5. CurCalls(Before(g)) = {}
  BY <1>3, <1>4, UserLastCur
<1>6. QED
  BY <1>1, <1>2, <1>4, <1>5 DEF Apart, Answered, Growing

-----------------------------------------------------------------------------
(* The loop that drives the turn, before and after its step. *)

OthersRest(l) == \A m \in Loop \ {l} : ~Drives(loop[m])
Driven(l) == TypeOK /\ TurnInv /\ Drives(loop[l])

LEMMA DrivenFacts ==
    ASSUME NEW l \in Loop, Driven(l)
    PROVE  /\ OthersRest(l)
           /\ Told(history, status)
           /\ history \in Seq(Item) /\ status \in [Call -> Status]
           /\ loop[l] \in LoopState
           /\ streaming => /\ byUser \cup applying = {}
                           /\ Live(loop[l], history, status)
           /\ ~streaming => /\ interrupted
                            /\ Dead(loop[l], history, status, byUser \cup applying)
           /\ history # <<>> => UsersFit(history, status, byUser, applying)
           /\ At(l, "resolve") /\ loop[l].input \in DOMAIN history =>
                history[loop[l].input].role = "user"
BY DEF Driven, TypeOK, TurnInv, Fits, OthersRest, At

\* Only while it executes a call does a loop leave others to the user or the editor.
LEMMA NoUsers ==
    ASSUME NEW l \in Loop, Driven(l), streaming \/ ~At(l, "exec")
    PROVE  history # <<>> \/ At(l, "resolve") => byUser \cup applying = {}
BY DrivenFacts DEF Dead, At

LEMMA NobodyFits ==
    ASSUME NEW h, NEW st, NEW users, NEW editors, users \cup editors = {}
    PROVE  UsersFit(h, st, users, editors)
BY DEF UsersFit

LEMMA OneDrives ==
    ASSUME NEW l \in Loop, OthersRest(l)', Told(history, status)',
           history' # <<>> => UsersFit(history, status, byUser, applying)',
           streaming' => byUser' \cup applying' = {} /\ Drives(loop'[l]),
           Drives(loop'[l]) =>
             Fits(loop[l], history, status, streaming, byUser \cup applying, interrupted)',
           Settled(history, status)' /\ ~Drives(loop'[l]) => interrupted'
    PROVE  TurnInv'
BY DEF TurnInv, OthersRest

LEMMA NoDriver ==
    ASSUME NEW l \in Loop, OthersRest(l)', loop'[l].pc = "idle", Told(history, status)',
           history' # <<>> => UsersFit(history, status, byUser, applying)',
           ~streaming', Settled(history, status)' => interrupted'
    PROVE  TurnInv'
BY OneDrives DEF Drives

LEMMA LiveDriver ==
    ASSUME NEW l \in Loop, OthersRest(l)', Told(history, status)', streaming',
           byUser' \cup applying' = {}, loop'[l].pc # "idle",
           Live(loop'[l], history', status'),
           loop'[l].pc = "resolve" /\ loop'[l].input \in DOMAIN history' =>
             history'[loop'[l].input].role = "user"
    PROVE  TurnInv'
<1>1. Drives(loop'[l])
  BY DEF Drives, Leaving, Live
<1>2. UsersFit(history, status, byUser, applying)'
  BY NobodyFits
<1>3. QED
  BY <1>1, <1>2, OneDrives DEF Fits

LEMMA GotoDrives ==
    ASSUME NEW l \in Loop, Driven(l), NEW new, Goto(l, new)
    PROVE  OthersRest(l)' /\ loop'[l] = new
BY DrivenFacts DEF Driven, TypeOK, Goto, OthersRest

LEMMA IdleIs == IdleLoop.pc = "idle"
BY DEF IdleLoop

LEMMA EnterIs ==
    ASSUME TypeOK, NEW l \in Loop, NEW p \in PC
    PROVE  /\ Enter(l, p) \in LoopState
           /\ Enter(l, p).pc = p /\ Enter(l, p).cut = FALSE /\ Enter(l, p).batch = {}
           /\ Enter(l, p).todo = {} /\ Enter(l, p).asks = {} /\ Enter(l, p).ret = FALSE
           /\ Enter(l, p).cur = {}
BY EnterTyped DEF Enter, IdleLoop

\* A loop that is aborted stays where it is.
LEMMA AbortIs ==
    ASSUME NEW lp \in [Loop -> LoopState], NEW l \in Loop
    PROVE  /\ \A m \in Loop : ~Drives(lp[m]) => ~Drives(AbortAll(lp)[m])
           /\ AbortAll(lp)[l].pc = lp[l].pc
           /\ AbortAll(lp)[l].todo = lp[l].todo
           /\ AbortAll(lp)[l].cur = lp[l].cur
           /\ AbortAll(lp)[l].input = lp[l].input
           /\ lp[l].pc # "idle" => AbortAll(lp)[l].cut
<1>1. ASSUME NEW m \in Loop
      PROVE  /\ AbortAll(lp)[m].pc = lp[m].pc
             /\ AbortAll(lp)[m].todo = lp[m].todo
             /\ AbortAll(lp)[m].cur = lp[m].cur
             /\ AbortAll(lp)[m].input = lp[m].input
             /\ lp[m].pc # "idle" => AbortAll(lp)[m].cut
  <2>1. lp[m] \in LoopState
    OBVIOUS
  <2>2. \/ lp[m].pc = "idle" /\ AbortAll(lp)[m] = lp[m]
        \/ lp[m].pc # "idle" /\ AbortAll(lp)[m] = [lp[m] EXCEPT !.cut = TRUE]
    BY DEF AbortAll
  <2>3. QED
    BY <2>1, <2>2 DEF LoopState
<1>2. QED
  BY <1>1 DEF Drives, Leaving

\* EndTurn, when it does not give the turn up: the next iteration begins.
LEMMA EndTurnDrives ==
    ASSUME NEW l \in Loop, Driven(l), EndTurn(l, FALSE), UNCHANGED streaming,
           UNCHANGED <<byUser, applying, interrupted>>,
           Told(history, status)',
           streaming => /\ Apart(history, status)'
                        /\ Waiting(status') = {} /\ Growing(history', status') = {},
           history' # <<>> => UsersFit(history, status, byUser, applying)'
    PROVE  TurnInv'
<1>1. CASE streaming
  <2>1. OthersRest(l)' /\ loop'[l] = Enter(l, "compile")
    BY <1>1, GotoDrives DEF EndTurn
  <2>2. /\ loop'[l].pc = "compile" /\ loop'[l].cut = FALSE
    BY <2>1, EnterIs DEF Driven, PC
  <2>3. Live(loop'[l], history', status')
    BY <1>1, <2>2 DEF Live
  <2>4. byUser' \cup applying' = {}
    BY <1>1, DrivenFacts
  <2>5. QED
    BY <1>1, <2>1, <2>2, <2>3, <2>4, LiveDriver
<1>2. CASE ~streaming
  <2>1. OthersRest(l)' /\ loop'[l] = IdleLoop
    BY <1>2, GotoDrives DEF EndTurn
  <2>2. interrupted'
    BY <1>2, DrivenFacts
  <2>3. QED
    BY <1>2, <2>1, <2>2, NoDriver, IdleIs
<1>3. QED
  BY <1>1, <1>2

-----------------------------------------------------------------------------
(* The steps of the loop that drives the turn. *)

LEMMA FirstUserTold ==
    ASSUME NEW st, Waiting(st) = {}
    PROVE  Told(<<User>>, st) /\ CurCalls(<<User>>) = {} /\ ~Answered(<<User>>)
<1>1. <<User>> \in Seq(Item) /\ Len(<<User>>) = 1 /\ <<User>>[1] = User /\ <<User>> # <<>>
      /\ DOMAIN <<User>> = {1}
  BY ItemsTyped
<1>2. User.role = "user" /\ User.calls = {}
  BY DEF User
<1>3. CurCalls(<<User>>) = {}
  BY <1>1, <1>2, UserLastCur
<1>4. \A i \in DOMAIN <<User>> : <<User>>[i] = User
  BY <1>1
<1>5. Follows(<<User>>)
  BY <1>2, <1>4 DEF Follows
<1>6. \A i, t : ~Made(<<User>>, i, t)
  BY <1>2, <1>4 DEF Made
<1>. HIDE DEF User
<1>7. QED
  BY <1>1, <1>2, <1>3, <1>5, <1>6 DEF Told, Answered

LEMMA ResolveTurn == ASSUME NEW l \in Loop, Driven(l), Resolve(l) PROVE TurnInv'
<1>. DEFINE k == loop[l].input
            g == history'
<1>1. /\ At(l, "resolve") /\ EndTurn(l, FALSE)
      /\ UNCHANGED <<status, streaming, byUser, applying, kind, interrupted>>
  BY DEF Resolve
<1>2. byUser \cup applying = {}
  BY <1>1, NoUsers DEF At
<1>3. /\ history \in Seq(Item) /\ Told(history, status)
      /\ streaming => /\ Apart(history, status) /\ Waiting(status) = {}
                      /\ Growing(history, status) = {}
  BY <1>1, DrivenFacts DEF Live, At
<1>4. /\ Told(g, status)
      /\ streaming => Apart(g, status) /\ Growing(g, status) = {}
  <2>1. CASE k \in DOMAIN history
    <3>1. history[k] \in Item /\ history[k].role = "user" /\ history # <<>>
      BY <1>1, <1>3, <2>1, DrivenFacts
    <3>2. PICK x \in Item : /\ x = [User EXCEPT !.calls = history[k].calls]
                            /\ x.role = "user" /\ x.calls = history[k].calls
      <4>1. PICK c \in SUBSET Call : c = history[k].calls
        BY <3>1 DEF Item
      <4>2. /\ [User EXCEPT !.calls = c] \in Item
            /\ [User EXCEPT !.calls = c].role = "user" /\ [User EXCEPT !.calls = c].calls = c
        BY DEF Item, User, Role
      <4>3. QED
        BY <4>1, <4>2
    <3>3. g = [history EXCEPT ![k] = x]
      BY <2>1, <3>1, <3>2 DEF Resolve
    <3>4. /\ g \in Seq(Item) /\ Len(g) = Len(history)
          /\ \A i \in DOMAIN history : g[i].role = history[i].role /\ g[i].calls = history[i].calls
      BY <1>3, <2>1, <3>1, <3>2, <3>3
    <3>5. CurCalls(g) = CurCalls(history) /\ Told(g, status)
      BY <1>3, <3>4, ShapeTold
    <3>6. Apart(history, status) => Apart(g, status)
      <4>1. Len(history) \in DOMAIN history /\ 1 .. Len(history) - 1 \subseteq DOMAIN history
        BY <1>3, <3>1
      <4>2. QED
        BY <1>3, <3>1, <3>4, <4>1, ApartShape
    <3>7. QED
      BY <1>3, <3>5, <3>6 DEF Growing
  <2>2. CASE k \notin DOMAIN history /\ k = 1
    <3>1. history = <<>>
      BY <1>3, <2>2
    <3>2. Waiting(status) = {}
      BY <1>3, <3>1, EmptyHas DEF Told
    <3>3. g = <<User>>
      BY <2>2 DEF Resolve
    <3>4. Told(g, status) /\ CurCalls(g) = {} /\ ~Answered(g)
      BY <3>2, <3>3, FirstUserTold
    <3>5. QED
      BY <3>4 DEF Apart, Growing
  <2>3. CASE k \notin DOMAIN history /\ k # 1
    <3>1. g = history
      BY <2>3 DEF Resolve
    <3>2. QED
      BY <1>3, <3>1
  <2>4. QED
    BY <2>1, <2>2, <2>3
<1>5. UsersFit(history', status', byUser', applying')
  BY <1>1, <1>2, NobodyFits
<1>. HIDE DEF g
<1>6. QED
  BY <1>1, <1>3, <1>4, <1>5, EndTurnDrives DEF g

\* CancelStream by a loop that leaves.
LEMMA FailTurn ==
    ASSUME NEW l \in Loop, Driven(l), Fail(l), UNCHANGED <<byUser, applying, kind>>
    PROVE  TurnInv'
<1>. DEFINE lp == [loop EXCEPT ![l] = IdleLoop]
<1>1. /\ lp \in [Loop -> LoopState] /\ lp[l] = IdleLoop
      /\ \A m \in Loop \ {l} : lp[m] = loop[m]
  BY IdleTyped DEF Driven, TypeOK
<1>2. /\ streaming' = FALSE /\ loop' = AbortAll(lp) /\ interrupted' = TRUE
      /\ history' = Dangling(history, status)
      /\ status' = ClearedStatus(history, status)
  BY DEF Fail, CancelStream
<1>. HIDE DEF lp
<1>3. OthersRest(l)' /\ loop'[l].pc = "idle"
  BY <1>1, <1>2, AbortIs, IdleIs, DrivenFacts DEF OthersRest
<1>4. /\ history \in Seq(Item) /\ status \in [Call -> Status] /\ Told(history, status)
  BY DrivenFacts
<1>5. /\ Told(history', status')
      /\ \E n \in 0 .. Len(history) : history' = SubSeq(history, 1, n)
      /\ \A t \in CurCalls(history) : status[t] = "calling" =>
           /\ history' = history
           /\ \A u \in CurCalls(history) :
                status[u] \notin {"generating", "generated"} => status'[u] = status[u]
  BY <1>2, <1>4, CancelTold
<1>6. ASSUME history' # <<>> PROVE UsersFit(history', status', byUser', applying')
  <2>1. history # <<>>
    <3>1. CASE history = <<>>
      <4>1. Dangling(history, status) = history
        BY <3>1 DEF Dangling
      <4>2. QED
        BY <1>2, <1>6, <3>1, <4>1
    <3>2. QED
      BY <3>1
  <2>2. CASE byUser \cup applying = {}
    BY <2>2, NobodyFits
  <2>3. CASE byUser \cup applying # {}
    <3>1. At(l, "exec") /\ ~streaming
      BY <2>1, <2>3, NoUsers, DrivenFacts
    <3>2. Runs(loop[l], history, status) /\ loop[l].cur # {}
      BY <2>1, <3>1, DrivenFacts DEF Dead, At, Runs
    <3>3. PICK t \in CurCalls(history) : status[t] = "calling"
      BY <3>2 DEF Runs
    <3>4. history' = history
      BY <1>5, <3>3
    <3>5. UsersFit(history, status, byUser, applying)
      BY <2>1, DrivenFacts
    <3>6. ASSUME NEW u \in byUser \cup applying PROVE status'[u] = status[u]
      <4>1. u \in CurCalls(history) /\ status[u] \in {"calling", "canceled"}
        BY <3>5 DEF UsersFit
      <4>2. QED
        BY <1>5, <3>3, <4>1
    <3>7. QED
      BY <3>4, <3>5, <3>6 DEF UsersFit
  <2>4. QED
    BY <2>2, <2>3
<1>7. QED
  BY <1>2, <1>3, <1>5, <1>6, NoDriver

\* setInactive on a path that gives the turn up.
LEMMA GiveUpTurn ==
    ASSUME NEW l \in Loop, Driven(l), GiveUp(l), ~At(l, "exec"),
           UNCHANGED <<byUser, applying, kind>>
    PROVE  TurnInv'
<1>1. OthersRest(l)' /\ loop'[l] = IdleLoop
  BY GotoDrives DEF GiveUp
<1>2. UNCHANGED <<history, status, byUser, applying>> /\ streaming' = FALSE /\ interrupted' = TRUE
  BY DEF GiveUp
<1>3. QED
  BY <1>1, <1>2, IdleIs, DrivenFacts, NoDriver

\* A loop that leaves when it sees that the turn was stopped.
LEMMA LeavesTurn ==
    ASSUME NEW l \in Loop, Driven(l), Goto(l, IdleLoop), ~streaming, ~At(l, "exec"),
           UNCHANGED <<history, streaming, byUser, applying, interrupted>>,
           \A t \in Call : /\ status'[t] = "none" => status[t] = "none"
                           /\ status'[t] = "generated" =>
                                status[t] = "generated" \/ t \in CurCalls(history)
    PROVE  TurnInv'
<1>1. OthersRest(l)' /\ loop'[l] = IdleLoop
  BY GotoDrives
<1>2. Told(history', status')
  <2>1. Told(history, status)
    BY DrivenFacts
  <2>2. Told(history, status')
    BY <2>1, MarksTold
  <2>3. QED
    BY <2>2
<1>3. history' # <<>> => UsersFit(history, status, byUser, applying)'
  BY NoUsers, NobodyFits
<1>4. interrupted'
  BY DrivenFacts
<1>5. QED
  BY <1>1, <1>2, <1>3, <1>4, IdleIs, NoDriver

\* A loop that goes on to ask, without a word.
LEMMA AsksTurn ==
    ASSUME NEW l \in Loop, Driven(l), NEW new, Goto(l, new), new.pc \in {"stream", "refresh"},
           ~At(l, "exec"), UNCHANGED <<history, status, streaming, byUser, applying, interrupted>>,
           streaming => Live(new, history, status)
    PROVE  TurnInv'
<1>1. OthersRest(l)' /\ loop'[l] = new
  BY GotoDrives
<1>2. Told(history', status') /\ (history' # <<>> => UsersFit(history, status, byUser, applying)')
  BY DrivenFacts
<1>3. Drives(loop'[l])
  BY <1>1 DEF Drives, Leaving
<1>4. streaming => byUser \cup applying = {}
  BY DrivenFacts
<1>5. Fits(loop[l], history, status, streaming, byUser \cup applying, interrupted)'
  <2>1. CASE streaming
    BY <1>1, <2>1 DEF Fits
  <2>2. CASE ~streaming
    <3>1. interrupted /\ Dead(loop[l], history, status, byUser \cup applying)
      BY <2>2, DrivenFacts
    <3>2. Dead(new, history, status, byUser \cup applying)
      BY <3>1 DEF Dead, At
    <3>3. QED
      BY <1>1, <2>2, <3>1, <3>2 DEF Fits
  <2>3. QED
    BY <2>1, <2>2
<1>6. QED
  BY <1>1, <1>2, <1>3, <1>4, <1>5, OneDrives

LEMMA CompileTurn == ASSUME NEW l \in Loop, Driven(l), Compile(l) PROVE TurnInv'
<1>1. /\ Goto(l, Enter(l, "stream")) /\ At(l, "compile")
      /\ UNCHANGED <<history, status, streaming, byUser, applying, interrupted>>
  BY DEF Compile
<1>2. /\ Enter(l, "stream").pc = "stream" /\ Enter(l, "stream").cut = FALSE
      /\ Enter(l, "stream").batch = {}
  BY EnterIs DEF Driven, PC
<1>3. streaming => Live(Enter(l, "stream"), history, status)
  <2>1. streaming => Live(loop[l], history, status)
    BY DrivenFacts
  <2>2. streaming => /\ Apart(history, status) /\ Waiting(status) = {}
                     /\ Growing(history, status) = {}
    BY <1>1, <2>1 DEF Live, At
  <2>. HIDE DEF Enter
  <2>3. QED
    BY <1>2, <2>2 DEF Live
<1>4. QED
  BY <1>1, <1>2, <1>3, AsksTurn DEF At

LEMMA ChunkAfterStopTurn ==
    ASSUME NEW l \in Loop, Driven(l), ChunkAfterStop(l) PROVE TurnInv'
<1>. DEFINE lp == [loop EXCEPT ![l] = IdleLoop]
<1>1. /\ lp \in [Loop -> LoopState] /\ lp[l] = IdleLoop
      /\ \A m \in Loop \ {l} : lp[m] = loop[m]
  BY IdleTyped DEF Driven, TypeOK
<1>2. /\ ~streaming /\ loop' = AbortAll(lp)
      /\ UNCHANGED <<history, status, streaming, byUser, applying, interrupted>>
  BY DEF ChunkAfterStop
<1>. HIDE DEF lp
<1>3. OthersRest(l)' /\ loop'[l].pc = "idle"
  BY <1>1, <1>2, AbortIs, IdleIs, DrivenFacts DEF OthersRest
<1>4. QED
  BY <1>2, <1>3, DrivenFacts, NoDriver

LEMMA UnauthorizedTurn == ASSUME NEW l \in Loop, Driven(l), Unauthorized(l) PROVE TurnInv'
<1>. DEFINE new == [loop[l] EXCEPT !.pc = "refresh"]
<1>1. /\ Goto(l, new) /\ At(l, "stream")
      /\ UNCHANGED <<history, status, streaming, byUser, applying, interrupted>>
  BY DEF Unauthorized
<1>2. PICK x \in LoopState : x = loop[l] /\ x.pc = "stream"
  BY <1>1, DrivenFacts DEF At
<1>3. new.pc = "refresh" /\ new.cut = x.cut /\ new.batch = x.batch
  BY <1>2 DEF LoopState
<1>. HIDE DEF new
<1>4. streaming => Live(new, history, status)
  <2>1. streaming => Live(x, history, status)
    BY <1>2, DrivenFacts
  <2>2. QED
    BY <1>2, <1>3, <2>1 DEF Live
<1>5. QED
  BY <1>1, <1>3, <1>4, AsksTurn DEF At

-----------------------------------------------------------------------------
(* The chunks of an answer. *)

\* The loop goes on to read the answer g with the calls batch.
LEMMA ReadsTurn ==
    ASSUME NEW l \in Loop, Driven(l), streaming, OthersRest(l)',
           UNCHANGED <<streaming, byUser, applying>>,
           loop'[l].pc = "stream", ~loop'[l].cut,
           Told(history, status)', Apart(history, status)',
           IF Answered(history)'
           THEN \A t \in loop'[l].batch : /\ t \in history'[Len(history')].calls
                                          /\ status'[t] \in {"generating", "generated"}
           ELSE loop'[l].batch = {} /\ Waiting(status') = {} /\ Growing(history, status)' = {}
    PROVE  TurnInv'
<1>1. byUser' \cup applying' = {}
  BY DrivenFacts
<1>2. Live(loop'[l], history', status')
  BY DEF Live
<1>3. QED
  BY <1>1, <1>2, LiveDriver

\* What the loop knows while it reads, and the answer it writes to.
LEMMA ReadingFacts ==
    ASSUME NEW l \in Loop, Driven(l), At(l, "stream"), streaming, history # <<>>,
           NEW h, h = Answering(history)
    PROVE  /\ h \in Seq(Item) /\ Answered(h) /\ Told(h, status) /\ Apart(h, status)
           /\ ~loop[l].cut /\ loop[l].pc = "stream"
           /\ \A t \in loop[l].batch : /\ t \in h[Len(h)].calls
                                       /\ status[t] \in {"generating", "generated"}
<1>1. /\ history \in Seq(Item) /\ Told(history, status) /\ Live(loop[l], history, status)
  BY DrivenFacts
<1>2. /\ ~loop[l].cut /\ Apart(history, status) /\ loop[l].pc = "stream"
      /\ IF Answered(history)
         THEN \A t \in loop[l].batch : /\ t \in history[Len(history)].calls
                                       /\ status[t] \in {"generating", "generated"}
         ELSE loop[l].batch = {} /\ Waiting(status) = {} /\ Growing(history, status) = {}
  BY <1>1 DEF Live, At
<1>3. /\ h \in Seq(Item) /\ Answered(h) /\ Told(h, status)
      /\ Answered(history) => h = history
  BY <1>1, <1>2, AnsweringTold
<1>4. Apart(h, status)
  BY <1>1, <1>2, ApartAnswering
<1>5. QED
  BY <1>2, <1>3, <1>4

LEMMA TextTurn == ASSUME NEW l \in Loop, Driven(l), Text(l) PROVE TurnInv'
<1>1. /\ At(l, "stream") /\ streaming /\ history # <<>>
      /\ UNCHANGED <<status, streaming, loop, byUser, applying, interrupted>>
  BY DEF Text
<1>2. PICK h : h = Answering(history)
  OBVIOUS
<1>3. /\ h \in Seq(Item) /\ Answered(h) /\ Told(h, status) /\ Apart(h, status)
      /\ ~loop[l].cut /\ loop[l].pc = "stream"
      /\ \A t \in loop[l].batch : /\ t \in h[Len(h)].calls
                                  /\ status[t] \in {"generating", "generated"}
  BY <1>1, <1>2, ReadingFacts
<1>4. /\ Len(h) \in Nat /\ Len(h) \in DOMAIN h /\ h # <<>> /\ h[Len(h)].role = "assistant"
      /\ 1 .. Len(h) - 1 \subseteq DOMAIN h
  BY <1>3 DEF Answered
<1>5. PICK y \in Item : y = h[Len(h)]
  BY <1>3, <1>4
<1>6. PICK z \in Item : z = [y EXCEPT !.text = TRUE] /\ z.role = y.role /\ z.calls = y.calls
  <2>1. /\ [y EXCEPT !.text = TRUE] \in Item
        /\ [y EXCEPT !.text = TRUE].role = y.role /\ [y EXCEPT !.text = TRUE].calls = y.calls
    BY DEF Item
  <2>2. QED
    BY <2>1
<1>7. PICK g : g = history'
  OBVIOUS
<1>8. g = [h EXCEPT ![Len(h)] = z]
  BY <1>2, <1>5, <1>6, <1>7 DEF Text
<1>9. /\ g \in Seq(Item) /\ Len(g) = Len(h)
      /\ \A i \in DOMAIN h : g[i].role = h[i].role /\ g[i].calls = h[i].calls
  BY <1>3, <1>4, <1>5, <1>6, <1>8
<1>10. Told(g, status) /\ Answered(g)
  BY <1>3, <1>9, ShapeTold
<1>11. Apart(g, status)
  BY <1>3, <1>4, <1>9, ApartShape
<1>12. \A t \in loop[l].batch : /\ t \in g[Len(g)].calls
                                /\ status[t] \in {"generating", "generated"}
  BY <1>3, <1>4, <1>9
<1>13. OthersRest(l)'
  BY <1>1, DrivenFacts DEF OthersRest
<1>14. QED
  BY <1>1, <1>3, <1>7, <1>10, <1>11, <1>12, <1>13, ReadsTurn

LEMMA NewCallTurn ==
    ASSUME NEW l \in Loop, Driven(l), NEW t \in Call, NEW whole \in SUBSET Call,
           NEW k \in ToolPolicy \cup {"edit"}, NewCall(l, t, whole, k)
    PROVE  TurnInv'
<1>1. PICK h : h = Answering(history)
  OBVIOUS
<1>2. /\ At(l, "stream") /\ streaming /\ history # <<>> /\ status[t] = "none"
      /\ whole \subseteq {u \in h[Len(h)].calls : status[u] = "generating"}
      /\ history' = [h EXCEPT ![Len(h)].calls = @ \cup {t}]
      /\ status' = [Mark(status, whole, "generated") EXCEPT ![t] = "generating"]
      /\ Goto(l, [loop[l] EXCEPT !.batch = @ \cup {t}])
      /\ UNCHANGED <<streaming, byUser, applying, interrupted>>
  BY <1>1 DEF NewCall
<1>3. /\ h \in Seq(Item) /\ Answered(h) /\ Told(h, status) /\ Apart(h, status)
      /\ ~loop[l].cut /\ loop[l].pc = "stream"
      /\ \A u \in loop[l].batch : /\ u \in h[Len(h)].calls
                                  /\ status[u] \in {"generating", "generated"}
  BY <1>1, <1>2, ReadingFacts
<1>4. /\ Len(h) \in Nat /\ Len(h) \in DOMAIN h /\ h # <<>> /\ h[Len(h)].role = "assistant"
  BY <1>3 DEF Answered
<1>5. PICK y \in Item : y = h[Len(h)]
  BY <1>3, <1>4
<1>6. PICK z \in Item : /\ z = [y EXCEPT !.calls = y.calls \cup {t}]
                         /\ z.role = y.role /\ z.calls = y.calls \cup {t}
  <2>1. /\ [y EXCEPT !.calls = y.calls \cup {t}] \in Item
        /\ [y EXCEPT !.calls = y.calls \cup {t}].role = y.role
        /\ [y EXCEPT !.calls = y.calls \cup {t}].calls = y.calls \cup {t}
    BY DEF Item
  <2>2. QED
    BY <2>1
<1>7. PICK g : g = history'
  OBVIOUS
<1>8. PICK new : new = status'
  OBVIOUS
<1>9. g = [h EXCEPT ![Len(h)] = z]
  BY <1>2, <1>5, <1>6, <1>7
<1>10. /\ g \in Seq(Item) /\ Len(g) = Len(h) /\ g[Len(h)].role = "assistant"
       /\ g[Len(h)].calls = h[Len(h)].calls \cup {t}
       /\ \A i \in 1 .. Len(h) - 1 : g[i] = h[i]
  <2>1. /\ g \in Seq(Item) /\ Len(g) = Len(h) /\ g[Len(h)] = z
        /\ \A i \in 1 .. Len(h) - 1 : g[i] = h[i]
    BY <1>3, <1>4, <1>9
  <2>2. QED
    BY <1>4, <1>5, <1>6, <2>1
<1>11. /\ new[t] = "generating"
       /\ \A u \in Call \ {t} : new[u] = IF u \in whole THEN "generated" ELSE status[u]
       /\ \A u \in whole : status[u] = "generating" /\ u \in h[Len(h)].calls
  <2>1. status \in [Call -> Status] /\ \A u \in whole : Present(status, u)
    BY <1>2, DrivenFacts DEF Present
  <2>2. QED
    BY <1>2, <1>8, <2>1 DEF Mark
<1>12. whole \subseteq CurCalls(h)
  BY <1>3, <1>11, AnsweredCur
<1>13. /\ Told(g, new) /\ Answered(g) /\ g[Len(g)].calls = h[Len(h)].calls \cup {t}
  <2>1. \A u \in Call \ {t} : /\ new[u] = "none" => status[u] = "none"
                              /\ new[u] = "generated" =>
                                   status[u] = "generated" \/ u \in CurCalls(h)
    BY <1>11, <1>12
  <2>2. /\ h \in Seq(Item) /\ g \in Seq(Item) /\ Answered(h) /\ Told(h, status)
        /\ status[t] = "none" /\ new[t] = "generating"
        /\ Len(g) = Len(h) /\ g[Len(h)].role = "assistant"
        /\ g[Len(h)].calls = h[Len(h)].calls \cup {t}
        /\ \A i \in 1 .. Len(h) - 1 : g[i] = h[i]
    BY <1>2, <1>3, <1>10, <1>11
  <2>3. QED
    BY <2>1, <2>2, NewCallTold
<1>14. Apart(g, new)
  <2>1. \A u \in Call : new[u] = "generating" =>
          status[u] \in {"generating", "none"} \/ u \in h[Len(h)].calls
    BY <1>2, <1>11
  <2>2. Apart(h, new)
    BY <1>3, <2>1, ApartMore
  <2>3. QED
    BY <1>3, <1>4, <1>10, <2>2, ApartShape
<1>15. PICK x \in LoopState : x = loop[l]
  BY DrivenFacts
<1>16. OthersRest(l)' /\ loop'[l] = [x EXCEPT !.batch = x.batch \cup {t}]
  BY <1>2, <1>15, GotoDrives
<1>17. loop'[l].pc = x.pc /\ loop'[l].cut = x.cut /\ loop'[l].batch = x.batch \cup {t}
  BY <1>15, <1>16 DEF LoopState
<1>18. x.batch \subseteq Call
  BY <1>15 DEF LoopState
<1>19. ASSUME NEW u \in loop'[l].batch
       PROVE  u \in g[Len(g)].calls /\ new[u] \in {"generating", "generated"}
  <2>1. CASE u = t
    BY <1>11, <1>13, <2>1
  <2>2. CASE u # t
    <3>1. u \in loop[l].batch /\ u \in Call \ {t}
      BY <1>15, <1>17, <1>18, <1>19, <2>2
    <3>2. QED
      BY <1>3, <1>11, <1>13, <3>1
  <2>3. QED
    BY <2>1, <2>2
<1>20. QED
  BY <1>2, <1>3, <1>7, <1>8, <1>13, <1>14, <1>15, <1>16, <1>17, <1>19, ReadsTurn

LEMMA MoreTurn ==
    ASSUME NEW l \in Loop, Driven(l), NEW t \in Call, More(l, t)
    PROVE  TurnInv'
<1>1. /\ At(l, "stream") /\ streaming
      /\ status' = [status EXCEPT ![t] = "generating"]
      /\ UNCHANGED <<history, streaming, loop, byUser, applying, interrupted>>
  BY DEF More
<1>2. /\ Answered(history) /\ t \in history[Len(history)].calls
  BY DEF More, Answered
<1>3. /\ history \in Seq(Item) /\ Told(history, status) /\ status \in [Call -> Status]
      /\ Live(loop[l], history, status)
  BY <1>1, DrivenFacts
<1>4. PICK new : new = status'
  OBVIOUS
<1>5. new[t] = "generating" /\ \A u \in Call \ {t} : new[u] = status[u]
  BY <1>1, <1>3, <1>4
<1>6. Told(history, new)
  BY <1>3, <1>5, MarksTold
<1>7. Apart(history, new)
  <2>1. Apart(history, status)
    BY <1>3 DEF Live
  <2>2. \A u \in Call : new[u] = "generating" =>
          status[u] \in {"generating", "none"} \/ u \in history[Len(history)].calls
    BY <1>2, <1>5
  <2>3. QED
    BY <1>3, <2>1, <2>2, ApartMore
<1>8. /\ ~loop[l].cut /\ loop[l].pc = "stream"
      /\ \A u \in loop[l].batch : /\ u \in history[Len(history)].calls
                                  /\ status[u] \in {"generating", "generated"}
  BY <1>1, <1>2, <1>3 DEF Live, At
<1>9. loop[l].batch \subseteq Call
  BY DrivenFacts DEF LoopState
<1>10. \A u \in loop[l].batch : new[u] \in {"generating", "generated"}
  BY <1>5, <1>8, <1>9
<1>11. OthersRest(l)'
  BY <1>1, DrivenFacts DEF OthersRest
<1>12. QED
  BY <1>1, <1>2, <1>4, <1>6, <1>7, <1>8, <1>10, <1>11, ReadsTurn

LEMMA RetryTurn ==
    ASSUME NEW l \in Loop, Driven(l), Retry(l), streaming PROVE TurnInv'
<1>1. /\ At(l, "stream") /\ streaming /\ history # <<>>
      /\ history[Len(history)].role = "assistant"
      /\ history' = Before(history)
      /\ status' = Forget(status, history')
      /\ loop' = RetryLoops(loop, l) /\ loop[l].again < Restarts
      /\ UNCHANGED <<streaming, byUser, applying, interrupted>>
  BY DEF Retry, Before, RetryLoops
<1>2. /\ history \in Seq(Item) /\ Told(history, status) /\ Live(loop[l], history, status)
      /\ loop[l] \in LoopState /\ status \in [Call -> Status]
  BY <1>1, DrivenFacts
<1>3. Answered(history) /\ Len(history) - 1 \in 0 .. Len(history)
  BY <1>1, <1>2 DEF Answered
<1>4. PICK g : g = history'
  OBVIOUS
<1>5. PICK new : new = status'
  OBVIOUS
<1>6. Told(g, new)
  BY <1>1, <1>2, <1>3, <1>4, <1>5, PrefixTold DEF Before
<1>7. ~Answered(g) /\ Growing(g, status) = {}
  BY <1>1, <1>2, <1>3, <1>4 DEF Live, Apart
<1>8. \A u \in Call : new[u] \in {"generating", "generated"} => new[u] = status[u]
  BY <1>1, <1>5 DEF Forget
<1>9. Growing(g, new) = {}
  BY <1>7, <1>8, CurTyped DEF Growing
<1>10. Waiting(new) = {}
  <2>. SUFFICES ASSUME NEW u \in Waiting(new) PROVE FALSE
    OBVIOUS
  <2>1. u \in Waiting(status)
    BY <1>8 DEF Waiting
  <2>2. u \in history[Len(history)].calls
    BY <1>2, <1>3, <2>1, AnsweredCur DEF Told
  <2>3. u \in CurCalls(Before(history))
    BY <1>1, <1>4, <1>6 DEF Told
  <2>4. QED
    BY <1>2, <1>3, <2>2, <2>3, LastOnly
<1>11. OthersRest(l)' /\ loop'[l].pc = "stream" /\ loop'[l].batch = {}
       /\ loop'[l].cut = loop[l].cut
  BY <1>1, RetryGoes, DrivenFacts DEF Driven, OthersRest, At
<1>12. ~loop'[l].cut
  BY <1>2, <1>11 DEF Live
<1>13. Apart(g, new)
  BY <1>7, ApartElse
<1>14. QED
  BY <1>1, <1>4, <1>5, <1>6, <1>7, <1>9, <1>10, <1>11, <1>12, <1>13, ReadsTurn

\* After a stop no call waits and nobody else is at work, and the answer just goes.
LEMMA RetryStoppedTurn ==
    ASSUME NEW l \in Loop, Driven(l), Retry(l), ~streaming PROVE TurnInv'
<1>1. /\ At(l, "stream") /\ history # <<>> /\ loop[l].again < Restarts
      /\ history' = SubSeq(history, 1, Len(history) - 1)
      /\ status' = Forget(status, history')
      /\ UNCHANGED <<streaming, byUser, applying, interrupted>>
  BY DEF Retry
<1>2. /\ history \in Seq(Item) /\ Told(history, status) /\ interrupted
      /\ Dead(loop[l], history, status, byUser \cup applying)
  BY DrivenFacts
<1>3. Waiting(status) = {} /\ byUser \cup applying = {}
  BY <1>1, <1>2 DEF Dead, At
<1>4. PICK lp : lp \in {loop, AbortAll(loop)} /\ loop' = RetryLoops(lp, l)
  BY DEF Retry, RetryLoops
<1>5. \A m \in Loop \ {l} : ~Drives(lp[m])
  BY <1>4, AbortIs, DrivenFacts DEF OthersRest, Driven, TypeOK
<1>6. OthersRest(l)' /\ loop'[l].pc = "stream"
  BY <1>1, <1>4, <1>5, RetryGoes DEF Driven, OthersRest, At
<1>7. Len(history) - 1 \in 0 .. Len(history)
  BY <1>1, <1>2
<1>8. Told(history, status)'
  BY <1>1, <1>2, <1>7, PrefixTold
<1>9. Waiting(status') = {}
  BY <1>1, <1>3 DEF Waiting, Forget
<1>10. UsersFit(history, status, byUser, applying)'
  BY <1>1, <1>3, NobodyFits
<1>11. Fits(loop[l], history, status, streaming, byUser \cup applying, interrupted)'
  BY <1>1, <1>2, <1>3, <1>6, <1>9 DEF Fits, Dead
<1>12. QED
  BY <1>1, <1>2, <1>6, <1>8, <1>10, <1>11, OneDrives

-----------------------------------------------------------------------------
(* The end of an answer, and what becomes of its calls. *)

\* A step of a live loop that keeps the history and comes to judge or to run calls.
LEMMA GoesTurn ==
    ASSUME NEW l \in Loop, Driven(l), streaming, OthersRest(l)',
           UNCHANGED <<streaming, byUser, applying>>,
           loop'[l].pc \notin {"idle", "resolve"},
           Told(history, status)', Live(loop'[l], history', status')
    PROVE  TurnInv'
<1>1. byUser' \cup applying' = {}
  BY DrivenFacts
<1>2. QED
  BY <1>1, LiveDriver

LEMMA EndIterationTurn ==
    ASSUME NEW l \in Loop, Driven(l), loop[l].pc \in {"stream", "refresh"},
           NEW st \in [Call -> Status], EndIteration(l, st),
           UNCHANGED <<history, byUser, applying, interrupted>>,
           \A t \in Call : /\ st[t] = "none" => status[t] = "none"
                           /\ st[t] \in {"generating", "generated"} => st[t] = status[t]
    PROVE  TurnInv'
<1>. DEFINE calls == CurCalls(history)
            open == {t \in calls : st[t] = "generating"}
<1>1. Told(history, status) /\ history \in Seq(Item) /\ (streaming => byUser \cup applying = {})
  BY DrivenFacts
<1>2. Told(history, st)
  BY <1>1, MarksTold
<1>3. CASE ~streaming /\ Goto(l, IdleLoop) /\ status' = st /\ UNCHANGED streaming
  BY <1>3, LeavesTurn DEF At
<1>4. CASE streaming /\ calls = {} /\ streaming' = FALSE /\ Goto(l, IdleLoop) /\ status' = st
  <2>1. OthersRest(l)' /\ loop'[l] = IdleLoop
    BY <1>4, GotoDrives
  <2>2. UsersFit(history, status, byUser, applying)'
    BY <1>1, <1>4, NobodyFits
  <2>3. ~Settled(history', status')
    BY <1>4 DEF Settled
  <2>4. Told(history', status')
    BY <1>2, <1>4
  <2>5. QED
    BY <1>4, <2>1, <2>2, <2>3, <2>4, IdleIs, NoDriver
<1>5. ASSUME streaming, NEW invalid \in SUBSET open,
             status' = Mark(Mark(st, invalid, "errored"), open \ invalid, "generated"),
             Goto(l, [Enter(l, "prep") EXCEPT !.batch = calls,
                                             !.todo = Pending(history, status')]),
             UNCHANGED streaming
      PROVE  TurnInv'
  <2>1. PICK new : new = status'
    OBVIOUS
  <2>2. \A t \in Call : /\ t \in invalid => new[t] = "errored"
                        /\ t \in open \ invalid => new[t] = "generated"
                        /\ t \notin open => new[t] = st[t]
    <3>1. \A t \in Call : t \in open => Present(st, t) /\ st[t] = "generating"
      BY DEF Present
    <3>2. PICK m : m = Mark(st, invalid, "errored")
      OBVIOUS
    <3>3. \A t \in Call : m[t] = IF t \in invalid /\ Present(st, t) THEN "errored" ELSE st[t]
      BY <3>2 DEF Mark
    <3>4. new = Mark(m, open \ invalid, "generated")
      BY <1>5, <2>1, <3>2
    <3>5. \A t \in Call : new[t] = IF t \in open \ invalid /\ Present(m, t)
                                   THEN "generated" ELSE m[t]
      BY <3>4 DEF Mark
    <3>. HIDE DEF open
    <3>6. \A t \in Call : t \in open \ invalid => Present(m, t)
      BY <3>1, <3>3 DEF Present
    <3>7. invalid \subseteq open
      BY <1>5
    <3>8. QED
      BY <3>1, <3>3, <3>5, <3>6, <3>7
  <2>3. open \subseteq calls /\ calls \subseteq Call
    BY CurTyped
  <2>4. Told(history, new)
    <3>1. \A t \in Call : /\ new[t] = "none" => st[t] = "none"
                          /\ new[t] = "generated" => st[t] = "generated" \/ t \in calls
      BY <2>2, <2>3
    <3>2. QED
      BY <1>2, <3>1, MarksTold
  <2>5. Live(loop[l], history, status)
    BY <1>5, DrivenFacts
  <2>6. Apart(history, new)
    <3>1. \A t \in Call : new[t] = "generating" => status[t] = "generating"
      BY <2>2
    <3>2. QED
      BY <2>5, <3>1, ApartMarks DEF Live
  <2>7. Growing(history, new) = {}
    <3>. SUFFICES ASSUME NEW t \in calls, new[t] = "generating" PROVE FALSE
      BY DEF Growing
    <3>1. t \in open
      BY <2>2, <2>3
    <3>2. QED
      BY <2>2, <2>3, <3>1
  <2>8. Pending(history, new) = Waiting(new)
    BY <2>3, <2>4 DEF Pending, Waiting, Told
  <2>9. ASSUME ~Answered(history) PROVE Waiting(new) = {}
    <3>1. Waiting(status) = {} /\ Growing(history, status) = {}
      BY <2>5, <2>9 DEF Live
    <3>. SUFFICES ASSUME NEW t \in Call, new[t] = "generated" PROVE FALSE
      BY DEF Waiting
    <3>2. CASE t \in open
      <4>1. t \in calls /\ status[t] = "generating"
        BY <3>2
      <4>2. QED
        BY <3>1, <4>1 DEF Growing
    <3>3. CASE t \notin open
      <4>1. status[t] = "generated"
        BY <2>2, <3>3
      <4>2. QED
        BY <3>1, <4>1 DEF Waiting
    <3>4. QED
      BY <3>2, <3>3
  <2>10. PICK x \in LoopState : x = Enter(l, "prep") /\ x.pc = "prep" /\ x.cut = FALSE
    BY EnterIs DEF Driven, PC
  <2>11. OthersRest(l)' /\ loop'[l] = [x EXCEPT !.batch = calls, !.todo = Waiting(new)]
    BY <1>5, <2>1, <2>8, <2>10, GotoDrives
  <2>12. loop'[l].pc = "prep" /\ ~loop'[l].cut /\ loop'[l].todo = Waiting(new)
    BY <2>10, <2>11 DEF LoopState
  <2>13. Live(loop'[l], history, new)
    BY <2>6, <2>7, <2>9, <2>12 DEF Live
  <2>14. QED
    BY <1>5, <2>1, <2>4, <2>11, <2>12, <2>13, GoesTurn
<1>6. QED
  BY <1>3, <1>4, <1>5 DEF EndIteration

LEMMA StreamEndTurn == ASSUME NEW l \in Loop, Driven(l), StreamEnd(l) PROVE TurnInv'
<1>1. status \in [Call -> Status]
  BY DrivenFacts
<1>2. QED
  BY <1>1, EndIterationTurn DEF StreamEnd, At

LEMMA PrematureCloseTurn ==
    ASSUME NEW l \in Loop, Driven(l), PrematureClose(l) PROVE TurnInv'
<1>1. PICK st : st = Mark(status, CurCalls(history), "errored")
  OBVIOUS
<1>2. /\ st \in [Call -> Status]
      /\ \A t \in Call : /\ st[t] = "none" => status[t] = "none"
                         /\ st[t] \in {"generating", "generated"} => st[t] = status[t]
  <2>1. status \in [Call -> Status]
    BY DrivenFacts
  <2>2. st \in [Call -> Status]
    BY <1>1, <2>1 DEF Mark, Status
  <2>3. \A t \in Call : st[t] = "errored" \/ st[t] = status[t]
    BY <1>1 DEF Mark
  <2>4. QED
    BY <2>2, <2>3
<1>3. /\ EndIteration(l, st) /\ At(l, "stream")
      /\ UNCHANGED <<history, byUser, applying, interrupted>>
  BY <1>1 DEF PrematureClose
<1>4. QED
  BY <1>2, <1>3, EndIterationTurn DEF At

LEMMA RefreshOkTurn == ASSUME NEW l \in Loop, Driven(l), RefreshOk(l) PROVE TurnInv'
<1>1. PICK x \in LoopState : x = loop[l] /\ x.pc = "refresh"
  BY DrivenFacts DEF RefreshOk, At
<1>2. CASE EndIteration(l, status)
  <2>1. status \in [Call -> Status]
    BY DrivenFacts
  <2>2. QED
    BY <1>1, <1>2, <2>1, EndIterationTurn DEF RefreshOk
<1>3. ASSUME Goto(l, [x EXCEPT !.pc = "stream", !.tries = x.tries + 1]),
             UNCHANGED <<status, streaming>>
      PROVE  TurnInv'
  <2>1. PICK new : new = [x EXCEPT !.pc = "stream", !.tries = x.tries + 1]
    OBVIOUS
  <2>2. new.pc = "stream" /\ new.cut = x.cut /\ new.batch = x.batch
    BY <2>1 DEF LoopState
  <2>3. streaming => Live(new, history, status)
    <3>1. streaming => Live(x, history, status)
      BY <1>1, DrivenFacts
    <3>2. QED
      BY <1>1, <2>2, <3>1 DEF Live
  <2>4. UNCHANGED <<history, byUser, applying, interrupted>>
    BY DEF RefreshOk
  <2>5. QED
    BY <1>1, <1>3, <2>1, <2>2, <2>3, <2>4, AsksTurn DEF At
<1>4. QED
  BY <1>1, <1>2, <1>3 DEF RefreshOk

LEMMA PrepTurn == ASSUME NEW l \in Loop, Driven(l), Prep(l) PROVE TurnInv'
<1>1. /\ At(l, "prep") /\ UNCHANGED <<history, streaming, byUser, applying, interrupted>>
      /\ Goto(l, IF Stopped(l) THEN IdleLoop
                 ELSE [loop[l] EXCEPT !.pc = "policy", !.todo = Pending(history, status')])
  BY DEF Prep
<1>2. PICK new : new = status'
  OBVIOUS
<1>3. \A t \in Call : (new[t] = "errored" /\ status[t] # "none") \/ new[t] = status[t]
  BY <1>2 DEF Prep, Mark, Present
<1>4. Told(history, status)
  BY DrivenFacts
<1>5. CASE ~streaming
  <2>1. Goto(l, IdleLoop)
    BY <1>1, <1>5 DEF Stopped
  <2>2. \A t \in Call : /\ new[t] = "none" => status[t] = "none"
                        /\ new[t] = "generated" => status[t] = "generated"
    BY <1>3
  <2>3. QED
    BY <1>1, <1>2, <1>5, <2>1, <2>2, LeavesTurn DEF At
<1>6. CASE streaming
  <2>1. Live(loop[l], history, status)
    BY <1>6, DrivenFacts
  <2>2. /\ ~loop[l].cut /\ Apart(history, status) /\ Growing(history, status) = {}
        /\ ~Answered(history) => Waiting(status) = {}
    BY <1>1, <2>1 DEF Live, At
  <2>3. Told(history, new)
    BY <1>3, <1>4, MarksTold
  <2>4. Apart(history, new)
    BY <1>3, <2>2, ApartMarks
  <2>5. Growing(history, new) = {}
    BY <1>3, <2>2, CurTyped DEF Growing
  <2>6. Waiting(new) \subseteq Waiting(status)
    BY <1>3 DEF Waiting
  <2>7. Pending(history, new) = Waiting(new)
    BY <2>3, CurTyped DEF Pending, Waiting, Told
  <2>8. PICK x \in LoopState : x = loop[l]
    BY DrivenFacts
  <2>9. OthersRest(l)' /\ loop'[l] = [x EXCEPT !.pc = "policy", !.todo = Waiting(new)]
    BY <1>1, <1>2, <1>6, <2>2, <2>7, <2>8, GotoDrives DEF Stopped
  <2>10. loop'[l].pc = "policy" /\ loop'[l].todo = Waiting(new) /\ loop'[l].cut = x.cut
    BY <2>8, <2>9 DEF LoopState
  <2>11. Live(loop'[l], history, new)
    BY <2>2, <2>4, <2>5, <2>6, <2>8, <2>10 DEF Live
  <2>12. QED
    BY <1>1, <1>2, <1>6, <2>3, <2>9, <2>10, <2>11, GoesTurn
<1>7. QED
  BY <1>5, <1>6

-----------------------------------------------------------------------------
(* What is run, and what is reported. *)

\* A live loop judges or runs the calls that wait, S, the others being decided.
LEMMA WalkTurn ==
    ASSUME NEW l \in Loop, Driven(l), streaming, ~loop[l].cut,
           NEW st \in [Call -> Status], NEW S \in SUBSET Call, NEW asks \in SUBSET S,
           Walk(l, S, asks, FALSE, st), UNCHANGED <<history, byUser, applying, interrupted>>,
           Told(history, st), Apart(history, st), S = Waiting(st), Growing(history, st) = {}
    PROVE  TurnInv'
<1>1. byUser \cup applying = {} /\ ~Stopped(l)
  BY DrivenFacts DEF Stopped
<1>2. UsersFit(history, status, byUser, applying)'
  BY <1>1, NobodyFits
<1>3. \A t \in S : st[t] = "generated" /\ t \in CurCalls(history)
  BY DEF Waiting, Told
<1>4. {t \in S : t \in asks \/ st[t] = "generated"} = S
  BY <1>3
<1>5. CASE S = {} /\ EndTurn(l, FALSE) /\ status' = st /\ UNCHANGED streaming
  BY <1>2, <1>5, EndTurnDrives
<1>6. ASSUME NEW t \in S, streaming' = FALSE, Goto(l, IdleLoop), status' = st
      PROVE  TurnInv'
  <2>1. OthersRest(l)' /\ loop'[l] = IdleLoop
    BY <1>6, GotoDrives
  <2>2. ~Settled(history', status')
    BY <1>3, <1>6 DEF Settled
  <2>3. Told(history', status')
    BY <1>6
  <2>4. QED
    BY <1>2, <1>6, <2>1, <2>2, <2>3, IdleIs, NoDriver
<1>7. ASSUME NEW t \in S, \A u \in S : t <= u,
             Goto(l, [loop[l] EXCEPT !.pc = "exec", !.batch = {},
                                     !.todo = {u \in S : u > t},
                                     !.asks = {u \in asks : u > t},
                                     !.ret = FALSE \/ \E u \in S : u < t,
                                     !.cur = {t}]),
             status' = Mark(st, {t}, "calling"), UNCHANGED streaming
      PROVE  TurnInv'
  <2>1. PICK new : new = status'
    OBVIOUS
  <2>2. new[t] = "calling" /\ \A u \in Call : u # t => new[u] = st[u]
    BY <1>3, <1>7, <2>1 DEF Mark, Present
  <2>3. \A u \in S : u \in Nat
    BY ChatAssumption
  <2>4. {u \in S : u > t} = S \ {t} /\ ~\E u \in S : u < t
    BY <1>7, <2>3
  <2>5. Waiting(new) = S \ {t}
    BY <2>2 DEF Waiting
  <2>6. Told(history, new)
    BY <2>2, MarksTold
  <2>7. Apart(history, new)
    BY <2>2, ApartMarks
  <2>8. Growing(history, new) = {}
    BY <2>2, CurTyped DEF Growing
  <2>9. PICK x \in LoopState : x = loop[l]
    BY DrivenFacts
  <2>10. PICK later \in SUBSET (S \ {t}) : later = {u \in asks : u > t}
    <3>1. {u \in asks : u > t} \subseteq S \ {t}
      BY <2>4
    <3>2. QED
      BY <3>1
  <2>11. OthersRest(l)' /\ loop'[l] = [x EXCEPT !.pc = "exec", !.batch = {}, !.todo = S \ {t},
                                                !.asks = later, !.ret = FALSE, !.cur = {t}]
    BY <1>7, <2>4, <2>9, <2>10, GotoDrives
  <2>12. /\ loop'[l].pc = "exec" /\ loop'[l].cut = x.cut /\ loop'[l].todo = S \ {t}
         /\ loop'[l].asks = later /\ loop'[l].ret = FALSE /\ loop'[l].cur = {t}
    BY <2>9, <2>11 DEF LoopState
  <2>13. Runs(loop'[l], history, new)
    BY <1>3, <2>2, <2>12 DEF Runs
  <2>14. Live(loop'[l], history, new)
    BY <2>5, <2>7, <2>8, <2>9, <2>12, <2>13 DEF Live
  <2>15. QED
    BY <1>7, <2>1, <2>6, <2>11, <2>12, <2>14, GoesTurn
<1>8. QED
  BY <1>1, <1>4, <1>5, <1>6, <1>7 DEF Walk

LEMMA PushLast ==
    ASSUME NEW h \in Seq(Item), NEW t \in Call, t \in CurCalls(h)
    PROVE  ~Answered(Push(h, t))
<1>1. ToolMessage(t).role = "tool" /\ ToolMessage(t) \in Item
  BY DEF ToolMessage, Item, Role
<1>2. Push(h, t) = Append(h, ToolMessage(t))
  BY DEF Push
<1>. HIDE DEF ToolMessage
<1>3. LET g == Append(h, ToolMessage(t)) IN g[Len(g)] = ToolMessage(t)
  BY <1>1
<1>4. QED
  BY <1>1, <1>2, <1>3 DEF Answered

LEMMA PushApart ==
    ASSUME NEW h \in Seq(Item), NEW t \in Call, NEW st, Apart(h, st)
    PROVE  Apart(Push(h, t), st)
<1>1. CASE t \in CurCalls(h)
  BY <1>1, PushLast, ApartElse
<1>2. CASE t \notin CurCalls(h)
  BY <1>2 DEF Push
<1>3. QED
  BY <1>1, <1>2

\* Nothing is left to judge, and the calls S are reported.
LEMMA ReportTurn ==
    ASSUME NEW l \in Loop, Driven(l), ~At(l, "exec"), NEW S \in SUBSET Call, Report(l, S),
           UNCHANGED <<status, streaming, byUser, applying, interrupted>>,
           streaming => Waiting(status) = {} /\ Growing(history, status) = {}
    PROVE  TurnInv'
<1>1. history \in Seq(Item) /\ Told(history, status)
  BY DrivenFacts
<1>2. streaming => byUser \cup applying = {} /\ ~loop[l].cut /\ Apart(history, status)
  BY DrivenFacts DEF Live
<1>3. CASE EndTurn(l, FALSE) /\ UNCHANGED history
  <2>1. history' # <<>> => UsersFit(history, status, byUser, applying)'
    BY <1>3, DrivenFacts
  <2>2. QED
    BY <1>1, <1>2, <1>3, <2>1, EndTurnDrives
<1>4. ASSUME NEW t \in S, history' = Push(history, t),
             Goto(l, [loop[l] EXCEPT !.pc = "fold", !.todo = S \ {t}])
      PROVE  TurnInv'
  <2>1. /\ CurCalls(history') = CurCalls(history) /\ Told(history', status)
        /\ history = <<>> => history' = <<>>
    BY <1>1, <1>4, PushTold
  <2>2. PICK x \in LoopState : x = loop[l]
    BY DrivenFacts
  <2>3. OthersRest(l)' /\ loop'[l] = [x EXCEPT !.pc = "fold", !.todo = S \ {t}]
    BY <1>4, <2>2, GotoDrives
  <2>4. loop'[l].pc = "fold" /\ loop'[l].cut = x.cut
    BY <2>2, <2>3 DEF LoopState
  <2>5. CASE streaming
    <3>1. Apart(history', status')
      BY <1>1, <1>2, <1>4, <2>5, PushApart
    <3>2. Growing(history', status') = {} /\ Waiting(status') = {}
      BY <2>1, <2>5 DEF Growing
    <3>3. Live(loop'[l], history', status')
      BY <1>2, <2>2, <2>4, <2>5, <3>1, <3>2 DEF Live
    <3>4. Told(history', status') /\ byUser' \cup applying' = {}
      BY <1>2, <2>1, <2>5
    <3>5. QED
      BY <2>3, <2>4, <2>5, <3>3, <3>4, LiveDriver
  <2>6. CASE ~streaming
    <3>1. interrupted /\ Dead(loop[l], history, status, byUser \cup applying)
      BY <2>6, DrivenFacts
    <3>2. Dead(loop'[l], history', status', byUser' \cup applying')
      BY <2>1, <2>4, <3>1 DEF Dead, At
    <3>3. history' # <<>> => UsersFit(history, status, byUser, applying)'
      BY <2>1, NoUsers, NobodyFits
    <3>4. Fits(loop[l], history, status, streaming, byUser \cup applying, interrupted)'
      BY <2>4, <2>6, <3>1, <3>2 DEF Fits
    <3>5. Told(history', status')
      BY <2>1
    <3>6. QED
      BY <2>3, <2>6, <3>1, <3>3, <3>4, <3>5, OneDrives
  <2>7. QED
    BY <2>5, <2>6
<1>5. QED
  BY <1>3, <1>4 DEF Report

LEMMA PolicyTurn == ASSUME NEW l \in Loop, Driven(l), Policy(l) PROVE TurnInv'
<1>. DEFINE todo == loop[l].todo
<1>1. PICK dynamic \in [todo -> ToolPolicy] :
        LET says(p) == {t \in todo : evaluateToolPolicy(kind[t], dynamic[t]) = p}
            st == Mark(status, says("off"), "errored")
        IN \/ /\ Stopped(l) /\ Goto(l, IdleLoop)
              /\ status' = st
              /\ UNCHANGED <<history, streaming>>
           \/ /\ ~Stopped(l) /\ todo = {}
              /\ Report(l, loop[l].batch)
              /\ UNCHANGED <<status, streaming>>
           \/ /\ ~Stopped(l)
              /\ Walk(l, todo \ says("off"), says("ask"), FALSE, st)
              /\ UNCHANGED history
  BY DEF Policy
<1>. DEFINE says(p) == {t \in todo : evaluateToolPolicy(kind[t], dynamic[t]) = p}
            st == Mark(status, says("off"), "errored")
<1>2. At(l, "policy") /\ UNCHANGED <<byUser, applying, kind, interrupted>>
  BY DEF Policy
<1>3. /\ loop[l] \in LoopState /\ status \in [Call -> Status] /\ history \in Seq(Item)
      /\ Told(history, status)
  BY DrivenFacts
<1>4. todo \subseteq Call /\ loop[l].batch \subseteq Call
  BY <1>3 DEF LoopState
<1>5. /\ st \in [Call -> Status]
      /\ \A t \in Call : IF t \in says("off") /\ Present(status, t)
                         THEN st[t] = "errored" ELSE st[t] = status[t]
  BY <1>3 DEF Mark, Status
<1>6. says("ask") \subseteq todo \ says("off") /\ says("off") \subseteq todo
  OBVIOUS
<1>7. \/ /\ Stopped(l) /\ Goto(l, IdleLoop)
         /\ status' = st /\ UNCHANGED <<history, streaming>>
      \/ /\ ~Stopped(l) /\ todo = {} /\ Report(l, loop[l].batch)
         /\ UNCHANGED <<status, streaming>>
      \/ /\ ~Stopped(l) /\ Walk(l, todo \ says("off"), says("ask"), FALSE, st)
         /\ UNCHANGED history
  BY <1>1
<1>. HIDE DEF st, says
<1>8. \A t \in Call : (st[t] = "errored" /\ status[t] # "none") \/ st[t] = status[t]
  BY <1>5 DEF Present
<1>9. CASE ~streaming
  <2>1. Goto(l, IdleLoop) /\ status' = st /\ UNCHANGED <<history, streaming>>
    BY <1>7, <1>9 DEF Stopped
  <2>2. \A t \in Call : /\ st[t] = "none" => status[t] = "none"
                        /\ st[t] = "generated" => status[t] = "generated"
    BY <1>8
  <2>3. QED
    BY <1>2, <1>9, <2>1, <2>2, LeavesTurn DEF At
<1>10. CASE streaming
  <2>1. Live(loop[l], history, status)
    BY <1>10, DrivenFacts
  <2>2. /\ ~loop[l].cut /\ Apart(history, status) /\ todo = Waiting(status)
        /\ Growing(history, status) = {}
    BY <1>2, <2>1 DEF Live, At
  <2>3. CASE todo = {} /\ Report(l, loop[l].batch) /\ UNCHANGED <<status, streaming>>
    BY <1>2, <1>4, <2>2, <2>3, ReportTurn DEF At
  <2>4. CASE Walk(l, todo \ says("off"), says("ask"), FALSE, st) /\ UNCHANGED history
    <3>1. Told(history, st)
      BY <1>3, <1>8, MarksTold
    <3>2. Apart(history, st)
      BY <1>8, <2>2, ApartMarks
    <3>3. Growing(history, st) = {}
      BY <1>8, <2>2, CurTyped DEF Growing
    <3>4. todo \ says("off") = Waiting(st)
      BY <1>5, <2>2 DEF Waiting, Present
    <3>5. PICK S \in SUBSET Call : S = todo \ says("off")
      BY <1>4
    <3>6. PICK asks \in SUBSET S : asks = says("ask")
      BY <1>6, <3>5
    <3>7. Walk(l, S, asks, FALSE, st)
      BY <2>4, <3>5, <3>6
    <3>8. QED
      BY <1>2, <1>5, <1>10, <2>2, <2>4, <3>1, <3>2, <3>3, <3>4, <3>5, <3>7, WalkTurn
  <2>5. QED
    BY <1>7, <1>10, <2>2, <2>3, <2>4 DEF Stopped
<1>11. QED
  BY <1>9, <1>10

LEMMA SaveTurn == ASSUME NEW l \in Loop, Driven(l), Save(l) PROVE TurnInv'
<1>1. /\ At(l, "save") /\ Walk(l, loop[l].todo, loop[l].asks, loop[l].ret, status)
      /\ UNCHANGED <<history, byUser, applying, interrupted>>
  BY DEF Save
<1>2. /\ loop[l] \in LoopState /\ status \in [Call -> Status] /\ Told(history, status)
  BY DrivenFacts
<1>3. CASE streaming
  <2>1. Live(loop[l], history, status)
    BY <1>3, DrivenFacts
  <2>2. /\ ~loop[l].cut /\ Apart(history, status) /\ Growing(history, status) = {}
        /\ loop[l].todo = Waiting(status) /\ ~loop[l].ret /\ loop[l].asks \subseteq loop[l].todo
    BY <1>1, <2>1 DEF Live, At
  <2>3. PICK S \in SUBSET Call : S = loop[l].todo
    BY <1>2 DEF LoopState
  <2>4. PICK asks \in SUBSET S : asks = loop[l].asks
    BY <2>2, <2>3
  <2>5. loop[l].ret = FALSE
    BY <1>2, <2>2 DEF LoopState
  <2>6. Walk(l, S, asks, FALSE, status)
    BY <1>1, <2>3, <2>4, <2>5
  <2>7. QED
    BY <1>1, <1>2, <1>3, <2>2, <2>3, <2>6, WalkTurn
<1>4. CASE ~streaming
  <2>1. Goto(l, IdleLoop) /\ status' = status /\ UNCHANGED streaming
    BY <1>1, <1>4 DEF Walk, EndTurn, Stopped
  <2>2. QED
    BY <1>1, <1>4, <2>1, LeavesTurn DEF At
<1>5. QED
  BY <1>3, <1>4

LEMMA FoldTurn == ASSUME NEW l \in Loop, Driven(l), Fold(l) PROVE TurnInv'
<1>1. /\ At(l, "fold") /\ Report(l, loop[l].todo)
      /\ UNCHANGED <<status, streaming, byUser, applying, interrupted>>
  BY DEF Fold
<1>2. loop[l].todo \in SUBSET Call
  BY DrivenFacts DEF LoopState
<1>3. streaming => Waiting(status) = {} /\ Growing(history, status) = {}
  BY <1>1, DrivenFacts DEF Live, At
<1>4. QED
  BY <1>1, <1>2, <1>3, ReportTurn DEF At

LEMMA ToolReturnsTurn == ASSUME NEW l \in Loop, Driven(l), ToolReturns(l) PROVE TurnInv'
<1>1. PICK x \in LoopState : x = loop[l] /\ x.pc = "exec"
  BY DrivenFacts DEF ToolReturns, At
<1>2. /\ history \in Seq(Item) /\ status \in [Call -> Status] /\ Told(history, status)
      /\ streaming => byUser \cup applying = {} /\ Live(x, history, status)
      /\ ~streaming => interrupted /\ Dead(x, history, status, byUser \cup applying)
      /\ history # <<>> => UsersFit(history, status, byUser, applying)
  BY <1>1, DrivenFacts
<1>3. UNCHANGED <<byUser, interrupted>> /\ x.cur \subseteq Call
  BY <1>1 DEF ToolReturns, LoopState
<1>4. history # <<>> => Runs(x, history, status)
  BY <1>1, <1>2 DEF Live, Dead
<1>5. ASSUME history # <<>>
      PROVE  x.cur \cap (byUser \cup applying) = {}
  BY <1>1, <1>2, <1>5 DEF Dead
<1>6. ASSUME NEW t \in x.cur, NEW s \in {"done", "errored"}, status' = Mark(status, {t}, s),
             history' = Push(history, t), Goto(l, [x EXCEPT !.pc = "save", !.cur = {}]),
             UNCHANGED <<streaming, applying>>
      PROVE  TurnInv'
  <2>1. PICK new : new = status'
    OBVIOUS
  <2>2. /\ \A u \in Call : u # t => new[u] = status[u]
        /\ new[t] = s \/ (new[t] = status[t] /\ ~Present(status, t))
    BY <1>3, <1>6, <2>1 DEF Mark
  <2>3. \A u \in Call : /\ new[u] = "none" => status[u] = "none"
                        /\ new[u] \in {"generating", "generated"} => new[u] = status[u]
    BY <1>3, <2>2
  <2>4. PICK g : g = history'
    OBVIOUS
  <2>5. /\ CurCalls(g) = CurCalls(history) /\ Told(g, status)
        /\ history = <<>> => g = <<>>
    BY <1>2, <1>3, <1>6, <2>4, PushTold
  <2>6. Told(g, new)
    BY <2>3, <2>5, MarksTold
  <2>7. OthersRest(l)' /\ loop'[l] = [x EXCEPT !.pc = "save", !.cur = {}]
    BY <1>6, GotoDrives
  <2>8. /\ loop'[l].pc = "save" /\ loop'[l].cut = x.cut /\ loop'[l].todo = x.todo
        /\ loop'[l].asks = x.asks /\ loop'[l].ret = x.ret
    BY <2>7 DEF LoopState
  <2>9. CASE streaming
    <3>1. Live(x, history, status) /\ byUser \cup applying = {}
      BY <1>2, <2>9
    <3>2. /\ ~x.cut /\ Apart(history, status) /\ x.todo = Waiting(status)
          /\ Growing(history, status) = {} /\ ~x.ret /\ x.asks \subseteq x.todo
          /\ Runs(x, history, status)
      BY <1>1, <3>1 DEF Live
    <3>3. Apart(g, new)
      <4>1. Apart(g, status)
        BY <1>2, <1>3, <1>6, <2>4, <3>2, PushApart
      <4>2. QED
        BY <2>3, <4>1, ApartMarks
    <3>4. Waiting(new) = Waiting(status)
      <4>1. status[t] = "calling"
        BY <3>2 DEF Runs
      <4>2. \A u \in Call : new[u] = "generated" <=> status[u] = "generated"
        BY <2>2, <4>1
      <4>3. QED
        BY <4>2 DEF Waiting
    <3>5. Growing(g, new) = {}
      BY <2>3, <2>5, <3>2, CurTyped DEF Growing
    <3>6. Live(loop'[l], g, new)
      BY <2>8, <3>2, <3>3, <3>4, <3>5 DEF Live
    <3>7. byUser' \cup applying' = {}
      BY <1>3, <1>6, <3>1
    <3>8. QED
      BY <1>6, <2>1, <2>4, <2>6, <2>7, <2>8, <2>9, <3>6, <3>7, LiveDriver
  <2>10. CASE ~streaming
    <3>1. interrupted /\ Dead(x, history, status, byUser \cup applying)
      BY <1>2, <2>10
    <3>2. g # <<>> => UsersFit(g, new, byUser, applying)
      <4>. SUFFICES ASSUME history # <<>> PROVE UsersFit(g, new, byUser, applying)
        BY <2>5
      <4>1. UsersFit(history, status, byUser, applying) /\ t \notin byUser \cup applying
        BY <1>2, <1>5
      <4>2. byUser \cup applying \subseteq Call
        BY <4>1, CurTyped DEF UsersFit
      <4>3. QED
        BY <2>2, <2>5, <4>1, <4>2 DEF UsersFit
    <3>3. ASSUME Drives(loop'[l]) PROVE Dead(loop'[l], g, new, byUser \cup applying)
      <4>1. Waiting(new) \subseteq Waiting(status)
        BY <2>3 DEF Waiting
      <4>2. CASE history = <<>>
        BY <2>5, <2>8, <4>2 DEF Dead
      <4>3. CASE history # <<>>
        <5>1. x.cut /\ Waiting(status) \cup byUser \cup applying \subseteq x.todo
          BY <1>1, <3>1, <4>3 DEF Dead
        <5>2. x.todo = {}
          BY <2>8, <3>3, <5>1 DEF Drives, Leaving
        <5>3. Waiting(new) \cup (byUser \cup applying) = {}
          BY <4>1, <5>1, <5>2
        <5>4. QED
          BY <2>8, <5>3 DEF Dead
      <4>4. QED
        BY <4>2, <4>3
    <3>4. Drives(loop'[l]) =>
            Fits(loop[l], history, status, streaming, byUser \cup applying, interrupted)'
      BY <1>3, <1>6, <2>1, <2>4, <2>8, <2>10, <3>1, <3>3 DEF Fits
    <3>5. QED
      BY <1>3, <1>6, <2>1, <2>4, <2>6, <2>7, <2>10, <3>1, <3>2, <3>4, OneDrives
  <2>11. QED
    BY <2>9, <2>10
<1>7. ASSUME NEW t \in x.cur, applying' = applying \cup {t}, streaming' = FALSE,
             Goto(l, IdleLoop), UNCHANGED <<history, status>>
      PROVE  TurnInv'
  <2>1. OthersRest(l)' /\ loop'[l] = IdleLoop
    BY <1>7, GotoDrives
  <2>2. history # <<>> => t \in CurCalls(history) /\ status[t] = "calling"
    BY <1>4 DEF Runs
  <2>3. history # <<>> => UsersFit(history, status, byUser, applying \cup {t})
    BY <1>2, <1>5, <2>2 DEF UsersFit
  <2>4. ~Settled(history, status)
    BY <2>2, EmptyHas DEF Settled
  <2>5. /\ Told(history', status') /\ ~Settled(history', status')
        /\ history' # <<>> => UsersFit(history, status, byUser, applying)'
    BY <1>2, <1>3, <1>7, <2>3, <2>4
  <2>6. QED
    BY <1>7, <2>1, <2>5, IdleIs, NoDriver
<1>8. QED
  BY <1>1, <1>6, <1>7 DEF ToolReturns

-----------------------------------------------------------------------------
(* The loops that do not drive the turn. *)

LEMMA SameTurn ==
    ASSUME TurnInv, UNCHANGED <<history, status, streaming, byUser, applying, interrupted>>,
           \A m \in Loop : loop'[m] = loop[m] \/ (~Drives(loop[m]) /\ ~Drives(loop'[m]))
    PROVE  TurnInv'
BY DEF TurnInv

LEMMA SaveOnly ==
    ASSUME NEW l \in Loop, loop[l].pc \in {"idle", "save"}, LoopStep(l) \/ Chunk(l)
    PROVE  Save(l)
<1>1. ASSUME NEW t \in Call PROVE ~More(l, t)
  BY DEF More, At
<1>2. ASSUME NEW t, NEW whole, NEW k PROVE ~NewCall(l, t, whole, k)
  BY DEF NewCall, At
<1>3. ~Chunk(l)
  BY <1>1, <1>2 DEF Chunk, Text, Retry, At
<1>4. ~(Resolve(l) \/ LoopFails(l) \/ Compile(l) \/ CompileTooLong(l) \/ ChunkAfterStop(l))
  BY DEF Resolve, LoopFails, Compile, CompileTooLong, ChunkAfterStop, At
<1>5. ~(StreamEnd(l) \/ PrematureClose(l) \/ Unauthorized(l) \/ RefreshOk(l) \/ RefreshFails(l))
  BY DEF StreamEnd, PrematureClose, Unauthorized, RefreshOk, RefreshFails, At
<1>6. ~(Prep(l) \/ Policy(l) \/ ToolReturns(l) \/ ToolThrows(l) \/ Fold(l))
  BY DEF Prep, Policy, ToolReturns, ToolThrows, Fold, At
<1>7. QED
  BY <1>3, <1>4, <1>5, <1>6 DEF LoopStep

LEMMA RestTurn ==
    ASSUME TypeOK, TurnInv, NEW l \in Loop, ~Drives(loop[l]), LoopStep(l) \/ Chunk(l)
    PROVE  TurnInv'
<1>1. Save(l)
  BY SaveOnly DEF Drives, Leaving
<1>2. loop[l].pc = "save" /\ loop[l].cut /\ loop[l].todo # {}
  BY <1>1 DEF Save, At, Drives, Leaving
<1>3. /\ Walk(l, loop[l].todo, loop[l].asks, loop[l].ret, status)
      /\ UNCHANGED <<history, byUser, applying, kind, interrupted>>
  BY <1>1 DEF Save
<1>4. Goto(l, IdleLoop) /\ status' = status /\ UNCHANGED streaming
  BY <1>2, <1>3 DEF Walk, Stopped
<1>5. \A m \in Loop : loop'[m] = loop[m] \/ (~Drives(loop[m]) /\ ~Drives(loop'[m]))
  BY <1>4, IdleIs DEF Goto, TypeOK, Drives
<1>6. QED
  BY <1>3, <1>4, <1>5, SameTurn

LEMMA LoopTurn ==
    ASSUME NEW l \in Loop, Driven(l), LoopStep(l) \/ Chunk(l) PROVE TurnInv'
<1>1. CASE LoopFails(l) \/ ToolThrows(l)
  BY <1>1, FailTurn DEF LoopFails, ToolThrows
<1>2. CASE CompileTooLong(l) \/ RefreshFails(l)
  BY <1>2, GiveUpTurn DEF CompileTooLong, RefreshFails, At
<1>3. CASE Resolve(l) \/ Compile(l) \/ ChunkAfterStop(l) \/ Unauthorized(l)
  BY <1>3, ResolveTurn, CompileTurn, ChunkAfterStopTurn, UnauthorizedTurn
<1>4. CASE StreamEnd(l) \/ PrematureClose(l) \/ RefreshOk(l)
  BY <1>4, StreamEndTurn, PrematureCloseTurn, RefreshOkTurn
<1>5. CASE Prep(l) \/ Policy(l) \/ ToolReturns(l) \/ Save(l) \/ Fold(l)
  BY <1>5, PrepTurn, PolicyTurn, ToolReturnsTurn, SaveTurn, FoldTurn
<1>6. CASE Chunk(l)
  BY <1>6, TextTurn, RetryTurn, RetryStoppedTurn, MoreTurn, NewCallTurn DEF Chunk
<1>7. QED
  BY <1>1, <1>2, <1>3, <1>4, <1>5, <1>6 DEF LoopStep

-----------------------------------------------------------------------------
(* What the user and the editor do to a stopped turn. *)

\* As long as a call is open, a loop can only be executing another one.
LEMMA OpenCall ==
    ASSUME TurnInv, ~streaming, NEW t \in Waiting(status) \cup byUser \cup applying,
           NEW l \in Loop, Drives(loop[l])
    PROVE  /\ interrupted /\ loop[l].pc # "resolve"
           /\ \/ history = <<>>
              \/ /\ loop[l].pc = "exec" /\ loop[l].cut /\ Runs(loop[l], history, status)
                 /\ Waiting(status) \cup byUser \cup applying \subseteq loop[l].todo
                 /\ loop[l].cur \cap loop[l].todo = {}
BY DEF TurnInv, Fits, Dead

\* An open call gets another status or another owner, and no loop starts.
LEMMA UserTurn ==
    ASSUME TurnInv, ~streaming, NEW t \in Waiting(status) \cup byUser \cup applying,
           UNCHANGED <<streaming, loop, interrupted>>,
           CurCalls(history') = CurCalls(history), history = <<>> => history' = <<>>,
           \A u \in Call \ {t} : status'[u] = status[u],
           Told(history', status'),
           Waiting(status') \cup byUser' \cup applying'
             \subseteq Waiting(status) \cup byUser \cup applying,
           history' # <<>> => UsersFit(history', status', byUser', applying'),
           Settled(history', status') => Settled(history, status)
    PROVE  TurnInv'
<1>1. ASSUME NEW l \in Loop, Drives(loop[l])
      PROVE  /\ interrupted /\ loop[l].pc # "resolve"
             /\ Dead(loop[l], history', status', byUser' \cup applying')
  <2>1. /\ interrupted /\ loop[l].pc # "resolve"
        /\ \/ history = <<>>
           \/ /\ loop[l].pc = "exec" /\ loop[l].cut /\ Runs(loop[l], history, status)
              /\ Waiting(status) \cup byUser \cup applying \subseteq loop[l].todo
              /\ loop[l].cur \cap loop[l].todo = {}
    BY <1>1, OpenCall
  <2>2. CASE history = <<>>
    BY <2>1, <2>2 DEF Dead
  <2>3. CASE /\ loop[l].pc = "exec" /\ loop[l].cut /\ Runs(loop[l], history, status)
             /\ Waiting(status) \cup byUser \cup applying \subseteq loop[l].todo
             /\ loop[l].cur \cap loop[l].todo = {}
    <3>1. t \notin loop[l].cur
      BY <2>3
    <3>2. Runs(loop[l], history', status')
      BY <2>3, <3>1, CurTyped DEF Runs
    <3>3. QED
      BY <2>1, <2>3, <3>2 DEF Dead
  <2>4. QED
    BY <2>1, <2>2, <2>3
<1>2. \A l, m \in Loop : Drives(loop[l]) /\ Drives(loop[m]) => l = m
  BY DEF TurnInv
<1>3. \A l \in Loop : Drives(loop'[l]) =>
        Fits(loop'[l], history', status', streaming', byUser' \cup applying', interrupted')
  BY <1>1 DEF Fits
<1>4. Settled(history', status') /\ (\A l \in Loop : ~Drives(loop[l])) => interrupted
  BY DEF TurnInv
<1>5. QED
  BY <1>2, <1>3, <1>4 DEF TurnInv

\* streamResponseAfterToolCall for an open call: the model goes on if nothing is open
\* and nothing runs any more.
LEMMA RespondTurn ==
    ASSUME Usual, TypeOK, TurnInv, ~streaming,
           NEW t \in Call, t \in Waiting(status) \cup byUser \cup applying,
           NEW st, Respond(t, st), \A u \in Call \ {t} : st[u] = status[u],
           st[t] \notin {"generating", "generated"}, st[t] = "none" => status[t] = "none",
           byUser' \subseteq byUser, applying' \subseteq applying,
           t \notin byUser' \cup applying'
    PROVE  TurnInv'
<1>1. history \in Seq(Item) /\ Told(history, status)
  BY DEF TypeOK, TurnInv
<1>2. PICK g : g = history'
  OBVIOUS
<1>3. /\ CurCalls(g) = CurCalls(history) /\ (history = <<>> => g = <<>>)
      /\ Told(g, status) /\ status' = st
      /\ g = Push(history, t)
  BY <1>1, <1>2, PushTold DEF Respond
<1>4. Told(g, st)
  <2>1. \A u \in Call : /\ st[u] = "none" => status[u] = "none"
                        /\ st[u] = "generated" => status[u] = "generated"
    OBVIOUS
  <2>2. QED
    BY <1>3, <2>1, MarksTold
<1>5. Waiting(st) \subseteq Waiting(status)
  BY DEF Waiting
<1>6. history # <<>> => /\ t \in CurCalls(history)
                        /\ UsersFit(history, status, byUser, applying)
  BY <1>1 DEF TurnInv, UsersFit, Told
<1>7. history # <<>> => UsersFit(g, st, byUser', applying')
  <2>. SUFFICES ASSUME history # <<>> PROVE UsersFit(g, st, byUser', applying')
    OBVIOUS
  <2>1. ASSUME NEW u \in byUser' \cup applying'
        PROVE  u \in CurCalls(history) /\ st[u] = status[u] /\ status[u] \in {"calling", "canceled"}
    <3>1. u \in byUser \cup applying /\ u # t
      OBVIOUS
    <3>2. u \in CurCalls(history) /\ status[u] \in {"calling", "canceled"}
      BY <1>6, <3>1 DEF UsersFit
    <3>3. QED
      BY <3>1, <3>2, CurTyped
  <2>2. byUser' \cap applying' = {}
    BY <1>6 DEF UsersFit
  <2>3. QED
    BY <1>3, <2>1, <2>2 DEF UsersFit
<1>8. CASE t \in CurCalls(history) /\ \A u \in CurCalls(history) : Complete(st, u)
  <2>1. history # <<>>
    BY <1>8, EmptyHas
  <2>2. PICK l \in Loop : Idle(l) /\ Goto(l, Enter(l, "compile"))
    BY <1>8 DEF Respond
  <2>3. streaming' = TRUE
    BY <1>8 DEF Respond
  <2>4. \A u \in CurCalls(history) : st[u] \in {"done", "errored"}
    BY <1>8 DEF Complete, Usual
  <2>5. ASSUME NEW m \in Loop, Drives(loop[m]) PROVE FALSE
    <3>1. /\ Runs(loop[m], history, status) /\ t \in loop[m].todo
          /\ loop[m].cur \cap loop[m].todo = {}
      BY <2>1, <2>5, OpenCall
    <3>2. PICK c \in loop[m].cur : c \in CurCalls(history) /\ status[c] = "calling" /\ c # t
      BY <3>1 DEF Runs
    <3>3. st[c] = "calling"
      BY <3>2, CurTyped
    <3>4. QED
      BY <2>4, <3>2, <3>3
  <2>6. OthersRest(l)' /\ loop'[l] = Enter(l, "compile")
    <3>1. loop'[l] = Enter(l, "compile") /\ \A m \in Loop \ {l} : loop'[m] = loop[m]
      BY <2>2 DEF Goto, TypeOK
    <3>2. QED
      BY <2>5, <3>1 DEF OthersRest
  <2>7. loop'[l].pc = "compile" /\ loop'[l].cut = FALSE
    <3>1. Enter(l, "compile").pc = "compile" /\ Enter(l, "compile").cut = FALSE
      BY EnterIs DEF PC
    <3>2. QED
      BY <2>6, <3>1
  <2>8. byUser' \cup applying' = {}
    <3>. SUFFICES ASSUME NEW u \in byUser' \cup applying' PROVE FALSE
      OBVIOUS
    <3>1. u \in CurCalls(history) /\ st[u] \in {"calling", "canceled"}
      BY <1>3, <1>7, <2>1 DEF UsersFit
    <3>2. QED
      BY <2>4, <3>1
  <2>9. Waiting(st) = {}
    BY <1>3, <1>4, <2>4 DEF Told, Waiting
  <2>10. Growing(g, st) = {}
    BY <1>3, <2>4 DEF Growing
  <2>11. Apart(g, st)
    BY <1>1, <1>3, <1>8, PushLast, ApartElse
  <2>12. Live(loop'[l], g, st)
    BY <2>7, <2>9, <2>10, <2>11 DEF Live
  <2>13. QED
    BY <1>2, <1>3, <1>4, <2>3, <2>6, <2>7, <2>8, <2>12, LiveDriver
<1>9. CASE ~(t \in CurCalls(history) /\ \A u \in CurCalls(history) : Complete(st, u))
  <2>1. UNCHANGED <<streaming, interrupted, loop>>
    BY <1>9 DEF Respond
  <2>2. ~Settled(g, st)
    <3>. SUFFICES ASSUME Settled(g, st) PROVE FALSE
      OBVIOUS
    <3>1. CurCalls(history) # {} /\ \A u \in CurCalls(history) : Complete(st, u)
      BY <1>3 DEF Settled, Complete
    <3>2. QED
      BY <1>6, <1>9, <3>1, EmptyHas
  <2>3. Waiting(st) \cup byUser' \cup applying' \subseteq Waiting(status) \cup byUser \cup applying
    BY <1>5
  <2>4. QED
    BY <1>2, <1>3, <1>4, <1>7, <2>1, <2>2, <2>3, UserTurn
<1>10. QED
  BY <1>8, <1>9

LEMMA AcceptTurn ==
    ASSUME Usual, TypeOK, TurnInv, NEW t \in Call, Accept(t) PROVE TurnInv'
<1>1. /\ t \in CurCalls(history) /\ status[t] = "generated" /\ ~streaming
      /\ status' = Mark(status, {t}, "calling") /\ byUser' = byUser \cup {t}
      /\ UNCHANGED <<history, streaming, loop, applying, interrupted>>
  BY DEF Accept, MayAnswer, Pending, Usual
<1>2. /\ history \in Seq(Item) /\ Told(history, status)
      /\ UsersFit(history, status, byUser, applying)
  BY <1>1, EmptyHas DEF TypeOK, TurnInv
<1>3. PICK new : new = status'
  OBVIOUS
<1>4. new[t] = "calling" /\ \A u \in Call \ {t} : new[u] = status[u]
  BY <1>1, <1>3 DEF Mark, Present
<1>5. Told(history, new)
  BY <1>2, <1>4, MarksTold
<1>6. UsersFit(history, new, byUser \cup {t}, applying)
  <2>1. t \notin byUser \cup applying /\ byUser \cup applying \subseteq Call
    BY <1>1, <1>2, CurTyped DEF UsersFit
  <2>2. QED
    BY <1>1, <1>2, <1>4, <2>1 DEF UsersFit
<1>7. Waiting(new) \cup (byUser \cup {t}) \cup applying
        \subseteq Waiting(status) \cup byUser \cup applying
  BY <1>1, <1>4 DEF Waiting
<1>8. ~Settled(history, new)
  BY <1>1, <1>4 DEF Settled
<1>9. t \in Waiting(status)
  BY <1>1 DEF Waiting
<1>10. QED
  BY <1>1, <1>3, <1>4, <1>5, <1>6, <1>7, <1>8, <1>9, UserTurn

\* A call of the user's or of the editor's is stopped for.
LEMMA UsersWait == ASSUME TurnInv, byUser \cup applying # {} PROVE ~streaming
BY DEF TurnInv

LEMMA UserToolReturnsTurn ==
    ASSUME Usual, TypeOK, TurnInv, NEW t \in Call, UserToolReturns(t) PROVE TurnInv'
<1>1. t \in byUser /\ byUser' = byUser \ {t} /\ ~streaming
  BY UsersWait DEF UserToolReturns
<1>2. /\ history \in Seq(Item) /\ Told(history, status) /\ byUser \subseteq Call
      /\ history # <<>> => UsersFit(history, status, byUser, applying)
      /\ history # <<>> => t \notin applying
  BY <1>1 DEF TypeOK, TurnInv, UsersFit
<1>3. ASSUME NEW s \in {"done", "errored"}, Respond(t, Mark(status, {t}, s)),
             UNCHANGED applying
      PROVE  TurnInv'
  <2>1. PICK st : st = Mark(status, {t}, s)
    OBVIOUS
  <2>2. /\ \A u \in Call \ {t} : st[u] = status[u]
        /\ st[t] = s \/ (st[t] = status[t] /\ status[t] \in {"none", "gone"})
    BY <2>1 DEF Mark, Present
  <2>3. CASE history # <<>>
    BY <1>1, <1>2, <1>3, <2>1, <2>2, <2>3, RespondTurn
  <2>4. CASE history = <<>>
    <3>1. UNCHANGED <<history, streaming, loop, interrupted>> /\ status' = st
      BY <1>3, <2>1, <2>4, EmptyHas DEF Respond, Push
    <3>2. Told(history, st)
      BY <1>2, <2>2, MarksTold
    <3>3. Waiting(st) \subseteq Waiting(status)
      BY <2>2 DEF Waiting
    <3>4. ~Settled(history, st)
      BY <2>4, EmptyHas DEF Settled
    <3>5. QED
      BY <1>1, <1>3, <2>2, <2>4, <3>1, <3>2, <3>3, <3>4, UserTurn
  <2>5. QED
    BY <2>3, <2>4
<1>4. CASE /\ applying' = applying \cup {t} /\ streaming' = FALSE
           /\ UNCHANGED <<history, status, loop, interrupted>>
  <2>1. history # <<>> => UsersFit(history, status, byUser \ {t}, applying \cup {t})
    BY <1>1, <1>2 DEF UsersFit
  <2>2. streaming' = streaming
    BY <1>1, <1>4 DEF TypeOK
  <2>3. QED
    BY <1>1, <1>2, <1>4, <2>1, <2>2, UserTurn
<1>5. QED
  BY <1>3, <1>4 DEF UserToolReturns

LEMMA UserToolThrowsTurn ==
    ASSUME TypeOK, TurnInv, NEW t \in Call, UserToolThrows(t) PROVE TurnInv'
<1>1. /\ t \in byUser /\ byUser' = byUser \ {t} /\ ~streaming
      /\ UNCHANGED <<history, status, streaming, loop, applying, interrupted>>
  BY UsersWait DEF UserToolThrows
<1>2. Told(history, status) /\ (history # <<>> => UsersFit(history, status, byUser, applying))
  BY DEF TurnInv
<1>3. history # <<>> => UsersFit(history, status, byUser \ {t}, applying)
  BY <1>2 DEF UsersFit
<1>4. QED
  BY <1>1, <1>2, <1>3, UserTurn

\* The editor has done with a call, well or not.
LEMMA ApplyDone ==
    ASSUME Usual, TypeOK, TurnInv, NEW t \in applying, applying' = applying \ {t},
           UNCHANGED byUser, NEW st, Respond(t, st),
           \A u \in Call \ {t} : st[u] = status[u], st[t] \in {"done", "errored"},
           status[t] # "none"
    PROVE  TurnInv'
<1>1. t \in Call /\ ~streaming
  BY UsersWait DEF TypeOK
<1>2. /\ Told(history, status) /\ (history # <<>> => t \notin byUser)
  BY DEF TurnInv, UsersFit
<1>3. CASE history # <<>>
  BY <1>1, <1>2, <1>3, RespondTurn
<1>4. CASE history = <<>>
  <2>1. UNCHANGED <<history, streaming, loop, interrupted>> /\ status' = st
    BY <1>4, EmptyHas DEF Respond, Push
  <2>2. Told(history, st)
    <3>1. \A u \in Call : /\ st[u] = "none" => status[u] = "none"
                          /\ st[u] = "generated" => status[u] = "generated"
      OBVIOUS
    <3>2. QED
      BY <1>2, <3>1, MarksTold
  <2>3. Waiting(st) \subseteq Waiting(status)
    BY DEF Waiting
  <2>4. ~Settled(history, st)
    BY <1>4, EmptyHas DEF Settled
  <2>5. QED
    BY <1>1, <1>4, <2>1, <2>2, <2>3, <2>4, UserTurn
<1>5. QED
  BY <1>3, <1>4

LEMMA ApplyTurn ==
    ASSUME Usual, TypeOK, TurnInv, NEW t \in Call, ApplyClosed(t) \/ ApplyFails(t)
    PROVE  TurnInv'
<1>1. t \in applying /\ applying' = applying \ {t} /\ UNCHANGED byUser /\ ~streaming
  BY UsersWait DEF ApplyClosed, ApplyFails
<1>2. ASSUME NEW st, Respond(t, st), Present(status, t),
             \/ st = status /\ status[t] = "errored"
             \/ \E s \in {"done", "errored"} : st = Mark(status, {t}, s)
      PROVE  TurnInv'
  <2>1. /\ \A u \in Call \ {t} : st[u] = status[u]
        /\ st[t] \in {"done", "errored"} /\ status[t] # "none"
    BY <1>2 DEF Mark, Present
  <2>2. QED
    BY <1>1, <1>2, <2>1, ApplyDone
<1>3. CASE UNCHANGED <<history, status, streaming, loop, interrupted>>
  <2>1. Told(history, status) /\ (history # <<>> => UsersFit(history, status, byUser, applying))
    BY DEF TurnInv
  <2>2. history # <<>> => UsersFit(history, status, byUser, applying \ {t})
    BY <2>1 DEF UsersFit
  <2>3. QED
    BY <1>1, <1>3, <2>1, <2>2, UserTurn
<1>4. CASE ApplyClosed(t)
  BY <1>2, <1>3, <1>4 DEF ApplyClosed
<1>5. CASE ApplyFails(t)
  <2>1. Present(status, t)
    BY <1>5 DEF ApplyFails, Present
  <2>2. QED
    BY <1>2, <1>5, <2>1 DEF ApplyFails
<1>6. QED
  BY <1>4, <1>5

LEMMA RejectTurn ==
    ASSUME Usual, TypeOK, TurnInv, NEW t \in Call, Reject(t) PROVE TurnInv'
<1>1. /\ t \in CurCalls(history) /\ status[t] = "generated" /\ ~streaming
      /\ Respond(t, Mark(status, {t}, "canceled")) /\ UNCHANGED <<byUser, applying>>
  BY DEF Reject, Pending
<1>2. t \in Waiting(status) /\ t \notin byUser \cup applying
  BY <1>1, EmptyHas DEF Waiting, TurnInv, UsersFit
<1>3. PICK st : st = Mark(status, {t}, "canceled")
  OBVIOUS
<1>4. st[t] = "canceled" /\ \A u \in Call \ {t} : st[u] = status[u]
  BY <1>1, <1>3 DEF Mark, Present
<1>5. QED
  BY <1>1, <1>2, <1>3, <1>4, RespondTurn

LEMMA ShortcutRejectTurn ==
    ASSUME Usual, TypeOK, TurnInv, NEW t \in Call, ShortcutReject(t) PROVE TurnInv'
<1>1. /\ t \in Waiting(status) \cup byUser \cup applying /\ ~streaming /\ Present(status, t)
      /\ status' = Mark(status, {t}, "canceled")
      /\ UNCHANGED <<history, streaming, loop, byUser, applying, interrupted>>
  BY DEF ShortcutReject, MayAnswer, Usual, Pending, Waiting
<1>2. /\ Told(history, status)
      /\ history # <<>> => UsersFit(history, status, byUser, applying)
  BY DEF TurnInv
<1>3. PICK new : new = status'
  OBVIOUS
<1>4. new[t] = "canceled" /\ \A u \in Call \ {t} : new[u] = status[u]
  BY <1>1, <1>3 DEF Mark
<1>5. Told(history, new)
  BY <1>2, <1>4, MarksTold
<1>6. history # <<>> => UsersFit(history, new, byUser, applying)
  <2>1. history # <<>> => byUser \cup applying \subseteq Call
    BY <1>2, CurTyped DEF UsersFit
  <2>2. QED
    BY <1>2, <1>4, <2>1 DEF UsersFit
<1>7. Waiting(new) \subseteq Waiting(status)
  BY <1>4 DEF Waiting
<1>8. ~Settled(history, new)
  <2>1. history # <<>> => t \in CurCalls(history)
    BY <1>1, <1>2 DEF Told, UsersFit
  <2>2. QED
    BY <1>4, <2>1, EmptyHas DEF Settled
<1>9. QED
  BY <1>1, <1>3, <1>4, <1>5, <1>6, <1>7, <1>8, UserTurn

-----------------------------------------------------------------------------
(* The user sends, stops, and begins anew. *)

LEMMA SubmitTurn ==
    ASSUME Usual, TypeOK, TurnInv, NEW l \in Loop, NEW k \in 1 .. Len(history) + 1,
           Submit(l, k)
    PROVE  TurnInv'
<1>1. /\ ~Busy
      /\ history' = SubSeq(history, 1, k - 1) \o <<User, Assistant>>
      /\ status' = Forget(Mark(status, Pending(history, status), "canceled"), history')
      /\ streaming' = TRUE
      /\ Goto(l, [IdleLoop EXCEPT !.pc = "resolve", !.input = k])
      /\ UNCHANGED <<byUser, applying>>
  BY DEF Submit, Usual
<1>2. history \in Seq(Item) /\ Told(history, status)
  BY DEF TypeOK, TurnInv
<1>3. PICK calm : calm = Mark(status, Pending(history, status), "canceled")
  OBVIOUS
<1>4. Waiting(calm) = {} /\ \A t \in Call : calm[t] = "none" => status[t] = "none"
  <2>1. \A t \in Call : calm[t] = IF t \in Pending(history, status) /\ Present(status, t)
                                  THEN "canceled" ELSE status[t]
    BY <1>3 DEF Mark
  <2>2. \A t \in Call : status[t] = "generated" =>
                          t \in Pending(history, status) /\ Present(status, t)
    BY <1>2 DEF Pending, Present, Told, Waiting
  <2>3. QED
    BY <2>1, <2>2 DEF Waiting
<1>5. PICK g : g = history'
  OBVIOUS
<1>6. Sent(history, k, g)
  BY <1>1, <1>2, <1>5, SentIs
<1>7. /\ Told(g, status') /\ Waiting(status') = {}
      /\ g[k].role = "user" /\ CurCalls(g) = {} /\ Apart(g, status')
  <2>1. status' = Forget(calm, g)
    BY <1>1, <1>3, <1>5
  <2>2. Told(g, Forget(calm, g)) /\ Waiting(Forget(calm, g)) = {}
    BY <1>2, <1>4, <1>6, SentTold
  <2>3. g[k].role = "user" /\ CurCalls(g) = {} /\ Apart(g, Forget(calm, g))
    BY <1>2, <1>6, SentLast
  <2>4. QED
    BY <2>1, <2>2, <2>3
<1>8. /\ loop'[l].pc = "resolve" /\ loop'[l].cut = FALSE /\ loop'[l].input = k
      /\ OthersRest(l)'
  <2>1. /\ loop'[l] = [IdleLoop EXCEPT !.pc = "resolve", !.input = k]
        /\ \A m \in Loop \ {l} : loop'[m] = loop[m]
    BY <1>1 DEF Goto, TypeOK
  <2>2. \A m \in Loop : loop[m].pc = "idle"
    BY <1>1 DEF Busy, Idle, At
  <2>3. QED
    BY <2>1, <2>2 DEF IdleLoop, OthersRest, Drives
<1>9. Live(loop'[l], g, status')
  BY <1>7, <1>8 DEF Live, Growing
<1>10. byUser' \cup applying' = {}
  BY <1>1 DEF Busy
<1>11. QED
  BY <1>1, <1>5, <1>7, <1>8, <1>9, <1>10, LiveDriver

LEMMA HaltedIs ==
    ASSUME TypeOK, NEW l \in Loop
    PROVE  /\ Halted[l].pc = loop[l].pc /\ Halted[l].cut = loop[l].cut
           /\ Halted[l].todo = loop[l].todo /\ Halted[l].cur = loop[l].cur
           /\ Halted[l].input = loop[l].input
<1>1. PICK x \in LoopState : x = loop[l]
  BY DEF TypeOK
<1>2. Halted[l] = [x EXCEPT !.halted = ~Idle(l)]
  BY <1>1 DEF Halted
<1>3. QED
  BY <1>1, <1>2 DEF LoopState

\* A loop that is halted and aborted stays where it is.
LEMMA HaltedAborted ==
    ASSUME TypeOK, loop' = AbortAll(Halted), NEW l \in Loop
    PROVE  /\ \A m \in Loop : ~Drives(loop[m]) => ~Drives(loop'[m])
           /\ loop'[l].pc = loop[l].pc /\ loop'[l].todo = loop[l].todo
           /\ loop'[l].cur = loop[l].cur /\ loop'[l].input = loop[l].input
           /\ loop[l].pc # "idle" => loop'[l].cut
<1>1. Halted \in [Loop -> LoopState]
  BY HaltedTyped
<1>2. \A m \in Loop : ~Drives(loop[m]) => ~Drives(Halted[m])
  BY HaltedIs DEF Drives, Leaving
<1>3. QED
  BY <1>1, <1>2, AbortIs, HaltedIs

LEMMA StopTurn == ASSUME TypeOK, TurnInv, Stop PROVE TurnInv'
<1>1. /\ streaming /\ streaming' = FALSE /\ loop' = AbortAll(Halted) /\ interrupted' = TRUE
      /\ history' = Dangling(history, status)
      /\ status' = ClearedStatus(history, status)
      /\ UNCHANGED <<byUser, applying>>
  BY DEF Stop, CancelStream
<1>2. PICK l \in Loop : Driven(l)
  BY <1>1 DEF TurnInv, Driven
<1>3. /\ history \in Seq(Item) /\ status \in [Call -> Status] /\ Told(history, status)
      /\ byUser \cup applying = {} /\ Live(loop[l], history, status)
  BY <1>1, <1>2, DrivenFacts
<1>4. PICK g : g = history'
  OBVIOUS
<1>5. PICK new : new = status'
  OBVIOUS
<1>6. /\ Told(g, new)
      /\ \E n \in 0 .. Len(history) : g = SubSeq(history, 1, n)
      /\ Waiting(new) \subseteq Waiting(status)
      /\ Answered(history) => Waiting(new) = {}
      /\ \A t \in CurCalls(history) : status[t] = "calling" =>
           /\ g = history
           /\ \A u \in CurCalls(history) :
                status[u] \notin {"generating", "generated"} => new[u] = status[u]
  BY <1>1, <1>3, <1>4, <1>5, CancelTold
<1>7. /\ OthersRest(l)'
      /\ loop'[l].pc = loop[l].pc /\ loop'[l].todo = loop[l].todo
      /\ loop'[l].cur = loop[l].cur /\ loop'[l].input = loop[l].input
      /\ loop[l].pc # "idle" => loop'[l].cut
  BY <1>1, <1>2, HaltedAborted, DrivenFacts DEF Driven, OthersRest
<1>8. loop[l].pc \in PC /\ loop[l].pc # "idle"
  BY <1>2, DrivenFacts DEF Driven, Drives, LoopState
<1>9. ASSUME Drives(loop'[l]) PROVE Dead(loop'[l], g, new, {})
  <2>1. CASE loop[l].pc = "exec"
    <3>1. /\ loop[l].todo = Waiting(status) /\ Runs(loop[l], history, status)
      BY <1>3, <2>1 DEF Live
    <3>2. PICK c \in loop[l].cur : c \in CurCalls(history) /\ status[c] = "calling"
      BY <3>1 DEF Runs
    <3>3. Runs(loop'[l], g, new)
      BY <1>6, <1>7, <3>1, <3>2 DEF Runs
    <3>4. loop[l].cur \cap loop[l].todo = {}
      BY <3>1 DEF Runs, Waiting
    <3>5. QED
      BY <1>6, <1>7, <1>8, <2>1, <3>1, <3>3, <3>4 DEF Dead
  <2>2. CASE loop[l].pc # "exec"
    <3>1. Waiting(new) = {}
      <4>1. CASE Answered(history)
        BY <1>6, <4>1
      <4>2. CASE ~Answered(history)
        <5>1. CASE loop[l].pc \in {"resolve", "compile", "fold", "stream", "refresh",
                                   "prep", "policy"}
          BY <1>3, <1>6, <4>2, <5>1 DEF Live
        <5>2. CASE loop[l].pc = "save"
          <6>1. loop[l].todo = {} /\ loop[l].todo = Waiting(status)
            BY <1>3, <1>7, <1>8, <1>9, <5>2 DEF Live, Drives, Leaving
          <6>2. QED
            BY <1>6, <6>1
        <5>3. QED
          BY <1>8, <2>2, <5>1, <5>2 DEF PC
      <4>3. QED
        BY <4>1, <4>2
    <3>2. QED
      BY <1>7, <2>2, <3>1 DEF Dead
  <2>3. QED
    BY <2>1, <2>2
<1>10. loop'[l].pc = "resolve" /\ loop'[l].input \in DOMAIN g => g[loop'[l].input].role = "user"
  <2>. SUFFICES ASSUME loop[l].pc = "resolve", NEW i \in DOMAIN g, i = loop[l].input
                PROVE  g[i].role = "user"
    BY <1>7
  <2>1. PICK n \in 0 .. Len(history) : g = SubSeq(history, 1, n)
    BY <1>6
  <2>2. /\ DOMAIN SubSeq(history, 1, n) = 1 .. n
        /\ \A j \in 1 .. n : SubSeq(history, 1, n)[j] = history[j]
    BY <1>3, FirstOf
  <2>3. g[i] = history[i] /\ i \in 1 .. n
    BY <2>1, <2>2
  <2>4. i \in DOMAIN history
    BY <1>3, <2>3
  <2>5. QED
    BY <1>2, <2>3, <2>4, DrivenFacts DEF At
<1>11. UsersFit(g, new, byUser', applying')
  BY <1>1, <1>3, NobodyFits
<1>12. byUser' \cup applying' = {}
  BY <1>1, <1>3
<1>13. Drives(loop'[l]) =>
         Fits(loop'[l], g, new, streaming', byUser' \cup applying', interrupted')
  BY <1>1, <1>9, <1>10, <1>12 DEF Fits
<1>14. QED
  BY <1>1, <1>4, <1>5, <1>6, <1>7, <1>11, <1>13, OneDrives

LEMMA NewSessionTurn == ASSUME TypeOK, TurnInv, NewSession PROVE TurnInv'
<1>1. /\ history' = <<>> /\ status' = Forget(status, <<>>) /\ streaming' = FALSE
      /\ loop' = AbortAll(Halted) /\ interrupted' = TRUE
      /\ UNCHANGED <<byUser, applying>>
  BY DEF NewSession
<1>2. history \in Seq(Item) /\ Told(history, status)
  BY DEF TypeOK, TurnInv
<1>3. Told(history', status')
  <2>1. 0 \in 0 .. Len(history) /\ SubSeq(history, 1, 0) = <<>>
    BY <1>2
  <2>2. QED
    BY <1>1, <1>2, <2>1, PrefixTold
<1>4. Waiting(status') = {}
  BY <1>1, <1>3, EmptyHas DEF Told
<1>5. PICK l \in Loop : OthersRest(l)
  <2>1. CASE \E m \in Loop : Drives(loop[m])
    BY <2>1, DrivenFacts DEF Driven
  <2>2. CASE \A m \in Loop : ~Drives(loop[m])
    BY <2>2, ChatAssumption DEF OthersRest
  <2>3. QED
    BY <2>1, <2>2
<1>6. /\ OthersRest(l)' /\ (Drives(loop'[l]) => Drives(loop[l]))
      /\ loop'[l].pc = loop[l].pc
  BY <1>1, <1>5, HaltedAborted DEF OthersRest
<1>7. ASSUME Drives(loop'[l])
      PROVE  Fits(loop'[l], history', status', streaming', byUser' \cup applying', interrupted')
  <2>1. Driven(l)
    BY <1>6, <1>7 DEF Driven
  <2>2. loop[l].pc = "resolve" => byUser \cup applying = {}
    BY <2>1, NoUsers DEF At
  <2>3. Dead(loop'[l], history', status', byUser' \cup applying')
    BY <1>1, <1>4, <1>6, <2>2 DEF Dead
  <2>4. DOMAIN history' = {}
    BY <1>1
  <2>5. QED
    BY <1>1, <2>3, <2>4 DEF Fits
<1>8. QED
  BY <1>1, <1>3, <1>6, <1>7, OneDrives

-----------------------------------------------------------------------------
(* All steps. *)

LEMMA TurnStep == ASSUME Usual, TypeOK, TurnInv, [Next]_vars PROVE TurnInv'
<1>1. ASSUME NEW l \in Loop, LoopStep(l) \/ Chunk(l) PROVE TurnInv'
  BY <1>1, RestTurn, LoopTurn DEF Driven
<1>2. ASSUME NEW l \in Loop, NEW k \in 1 .. Len(history) + 1, Submit(l, k) PROVE TurnInv'
  BY <1>2, SubmitTurn
<1>3. ASSUME NEW t \in Call,
             \/ Accept(t) \/ UserToolReturns(t) \/ UserToolThrows(t)
             \/ ApplyClosed(t) \/ ApplyFails(t) \/ Reject(t) \/ ShortcutReject(t)
      PROVE  TurnInv'
  BY <1>3, AcceptTurn, UserToolReturnsTurn, UserToolThrowsTurn, ApplyTurn, RejectTurn,
     ShortcutRejectTurn
<1>4. CASE Stop \/ NewSession
  BY <1>4, StopTurn, NewSessionTurn
<1>5. CASE UNCHANGED vars
  BY <1>5, SameTurn DEF vars
<1>6. QED
  BY <1>1, <1>2, <1>3, <1>4, <1>5 DEF Next

LEMMA InitTurn == Init => TurnInv
<1>. SUFFICES ASSUME Init PROVE TurnInv
  OBVIOUS
<1>1. history = <<>> /\ ~streaming /\ \A t \in Call : status[t] = "none"
  BY DEF Init
<1>2. \A l \in Loop : ~Drives(loop[l])
  BY IdleIs DEF Init, Drives
<1>3. Told(history, status)
  BY <1>1 DEF Told, Follows, Made, Waiting
<1>4. CurCalls(history) = {}
  BY <1>1, EmptyHas
<1>5. QED
  BY <1>1, <1>2, <1>3, <1>4 DEF TurnInv, Settled

-----------------------------------------------------------------------------
(* What a delta by place can reach: until a loop runs the calls of its answer, *)
(* none of them is decided but by an error, and while it runs one of them or   *)
(* looks for the next, a tool message or this run stands in the way.           *)

Fresh == {"generating", "generated", "errored"}
Unrun(h, st) == Answered(h) => \A t \in h[Len(h)].calls : st[t] \in Fresh

\* What a loop that drives a streaming turn has left of the answer.
Begun(x, h, st) ==
    /\ x.pc = "save" => ~Answered(h)
    /\ x.pc # "exec" => Unrun(h, st)

AnswerInv == streaming => \A l \in Loop : Drives(loop[l]) => Begun(loop[l], history, status)

\* Statuses change, but a fresh call stays fresh.
Soft(a, b) == \A t \in Call : a[t] \in Fresh => b[t] \in Fresh

LEMMA SoftUnrun ==
    ASSUME NEW h \in Seq(Item), NEW a, NEW b, Soft(a, b), Unrun(h, a) PROVE Unrun(h, b)
<1>1. Answered(h) => h[Len(h)] \in Item
  BY DEF Answered
<1>2. QED
  BY <1>1 DEF Soft, Unrun, Item

LEMMA MarkSoft ==
    ASSUME NEW st, NEW T, NEW s \in Fresh PROVE Soft(st, Mark(st, T, s))
BY DEF Soft, Mark

LEMMA SoftTransitive ==
    ASSUME NEW a, NEW b, NEW c, Soft(a, b), Soft(b, c) PROVE Soft(a, c)
BY DEF Soft

LEMMA OpenUnrun == ASSUME NEW h, NEW st, ~Answered(h) PROVE Unrun(h, st)
BY DEF Unrun

LEMMA PushUnrun ==
    ASSUME NEW h \in Seq(Item), NEW st, NEW t \in Call, Unrun(h, st)
    PROVE  Unrun(Push(h, t), st)
<1>1. CASE t \in CurCalls(h)
  BY <1>1, PushLast, OpenUnrun
<1>2. CASE t \notin CurCalls(h)
  BY <1>2 DEF Push
<1>3. QED
  BY <1>1, <1>2

\* The loops but one rest, so what matters is how this one goes on.
LEMMA OneAnswers ==
    ASSUME NEW l \in Loop, OthersRest(l)',
           streaming' /\ Drives(loop'[l]) => Begun(loop'[l], history', status')
    PROVE  AnswerInv'
BY DEF AnswerInv, OthersRest

LEMMA LeavesAnswer ==
    ASSUME NEW l \in Loop, Driven(l), Goto(l, IdleLoop) PROVE AnswerInv'
BY GotoDrives, OneAnswers, IdleIs DEF Drives

LEMMA EntersAnswer ==
    ASSUME NEW l \in Loop, Driven(l), NEW p \in PC \ {"exec", "save"}, NEW new,
           Goto(l, new), new.pc = p, Unrun(history', status')
    PROVE  AnswerInv'
BY GotoDrives, OneAnswers DEF Begun

LEMMA DrivenUnrun ==
    ASSUME NEW l \in Loop, Driven(l), AnswerInv, streaming
    PROVE  /\ history \in Seq(Item)
           /\ loop[l].pc # "exec" => Unrun(history, status)
           /\ loop[l].pc = "save" => ~Answered(history)
BY DEF Driven, AnswerInv, Begun, TypeOK

LEMMA EndTurnAnswer ==
    ASSUME NEW l \in Loop, Driven(l), NEW ret \in BOOLEAN, EndTurn(l, ret),
           streaming => Unrun(history', status')
    PROVE  AnswerInv'
<1>1. CASE ret \/ ~streaming
  BY <1>1, LeavesAnswer DEF EndTurn
<1>2. CASE ~ret /\ streaming
  <2>1. Enter(l, "compile").pc = "compile"
    BY EnterIs DEF Driven, PC
  <2>2. QED
    BY <1>2, <2>1, EntersAnswer DEF EndTurn, PC
<1>3. QED
  BY <1>1, <1>2

LEMMA EndIterationAnswer ==
    ASSUME NEW l \in Loop, Driven(l), AnswerInv, loop[l].pc # "exec",
           NEW st, Soft(status, st), EndIteration(l, st), UNCHANGED history
    PROVE  AnswerInv'
<1>1. CASE Goto(l, IdleLoop)
  BY <1>1, LeavesAnswer
<1>2. CASE ~Goto(l, IdleLoop)
  <2>1. PICK open, invalid, new :
          /\ streaming
          /\ status' = Mark(Mark(st, invalid, "errored"), open, "generated")
          /\ Goto(l, new) /\ new = [Enter(l, "prep") EXCEPT !.batch = CurCalls(history),
                                                           !.todo = Pending(history, status')]
    BY <1>2 DEF EndIteration
  <2>2. PICK mid : mid = Mark(st, invalid, "errored")
    OBVIOUS
  <2>3. Soft(st, mid) /\ Soft(mid, status')
    BY <2>1, <2>2, MarkSoft DEF Fresh
  <2>4. Soft(status, status')
    BY <2>3, SoftTransitive
  <2>5. Unrun(history', status')
    BY <2>1, <2>4, DrivenUnrun, SoftUnrun
  <2>6. PICK y \in LoopState : y = Enter(l, "prep") /\ y.pc = "prep"
    BY EnterTyped DEF Driven, PC
  <2>7. new.pc = "prep"
    BY <2>1, <2>6 DEF LoopState
  <2>8. QED
    BY <2>1, <2>5, <2>7, EntersAnswer DEF PC
<1>3. QED
  BY <1>1, <1>2

LEMMA WalkAnswer ==
    ASSUME NEW l \in Loop, Driven(l), NEW S, NEW asks, NEW ret \in BOOLEAN, NEW st,
           Walk(l, S, asks, ret, st), streaming => Unrun(history, st), UNCHANGED history
    PROVE  AnswerInv'
<1>1. CASE Goto(l, IdleLoop)
  BY <1>1, LeavesAnswer
<1>2. CASE EndTurn(l, ret) /\ status' = st
  BY <1>2, EndTurnAnswer
<1>3. CASE \E a, b, c, d : Goto(l, [loop[l] EXCEPT !.pc = "exec", !.batch = {},
                                     !.todo = a, !.asks = b, !.ret = c, !.cur = d])
  <2>1. PICK a, b, c, d : Goto(l, [loop[l] EXCEPT !.pc = "exec", !.batch = {},
                                     !.todo = a, !.asks = b, !.ret = c, !.cur = d])
    BY <1>3
  <2>2. PICK x \in LoopState : x = loop[l]
    BY DrivenFacts
  <2>3. [x EXCEPT !.pc = "exec", !.batch = {},
                  !.todo = a, !.asks = b, !.ret = c, !.cur = d].pc = "exec"
    BY <2>2 DEF LoopState
  <2>4. OthersRest(l)' /\ loop'[l].pc = "exec"
    BY <2>1, <2>2, <2>3, GotoDrives
  <2>5. QED
    BY <2>4, OneAnswers DEF Begun
<1>4. QED
  BY <1>1, <1>2, <1>3 DEF Walk

LEMMA ReportAnswer ==
    ASSUME NEW l \in Loop, Driven(l), NEW S \in SUBSET Call, Report(l, S),
           streaming => Unrun(history, status), UNCHANGED <<status, streaming>>
    PROVE  AnswerInv'
<1>1. CASE S = {}
  BY <1>1, EndTurnAnswer DEF Report
<1>2. ASSUME NEW t \in S, history' = Push(history, t),
             Goto(l, [loop[l] EXCEPT !.pc = "fold", !.todo = S \ {t}])
      PROVE  AnswerInv'
  <2>1. PICK x \in LoopState : x = loop[l]
    BY DrivenFacts
  <2>2. [x EXCEPT !.pc = "fold", !.todo = S \ {t}].pc = "fold"
    BY <2>1 DEF LoopState
  <2>3. OthersRest(l)' /\ loop'[l].pc = "fold"
    BY <1>2, <2>1, <2>2, GotoDrives
  <2>4. streaming => Unrun(history', status')
    BY <1>2, DrivenFacts, PushUnrun
  <2>5. QED
    BY <2>3, <2>4, OneAnswers DEF Begun
<1>3. QED
  BY <1>1, <1>2 DEF Report

\* The answer a delta goes to has no decided call but those in error.
LEMMA AnsweringUnrun ==
    ASSUME NEW l \in Loop, Driven(l), AnswerInv, At(l, "stream"), streaming, history # <<>>,
           NEW h, h = Answering(history)
    PROVE  /\ h \in Seq(Item) /\ Len(h) \in DOMAIN h /\ h[Len(h)] \in Item
           /\ \A t \in h[Len(h)].calls : status[t] \in Fresh
<1>1. history \in Seq(Item) /\ Told(history, status) /\ Live(loop[l], history, status)
  BY DrivenFacts
<1>2. Answered(history) \/ Waiting(status) = {}
  BY <1>1 DEF Live, At
<1>3. /\ h \in Seq(Item) /\ Answered(h)
      /\ Answered(history) => h = history
      /\ ~Answered(history) => h[Len(h)].calls = {}
  BY <1>1, <1>2, AnsweringTold
<1>4. Unrun(history, status)
  BY DrivenUnrun DEF At
<1>5. QED
  BY <1>3, <1>4 DEF Unrun, Answered

LEMMA TextAnswer == ASSUME NEW l \in Loop, Driven(l), AnswerInv, Text(l) PROVE AnswerInv'
<1>1. /\ At(l, "stream") /\ streaming /\ history # <<>> /\ UNCHANGED <<status, loop>>
  BY DEF Text
<1>2. PICK h : h = Answering(history)
  OBVIOUS
<1>3. /\ h \in Seq(Item) /\ Len(h) \in DOMAIN h
      /\ \A t \in h[Len(h)].calls : status[t] \in Fresh
  BY <1>1, <1>2, AnsweringUnrun
<1>4. PICK y \in Item : y = h[Len(h)]
  BY <1>3
<1>5. PICK z \in Item : z = [y EXCEPT !.text = TRUE] /\ z.calls = y.calls
  <2>1. [y EXCEPT !.text = TRUE] \in Item /\ [y EXCEPT !.text = TRUE].calls = y.calls
    BY DEF Item
  <2>2. QED
    BY <2>1
<1>6. history' = [h EXCEPT ![Len(h)] = z]
  BY <1>2, <1>4, <1>5 DEF Text
<1>7. Len(history') = Len(h) /\ history'[Len(h)] = z
  BY <1>3, <1>6
<1>8. Unrun(history', status')
  BY <1>1, <1>3, <1>4, <1>5, <1>7 DEF Unrun
<1>9. OthersRest(l)'
  BY <1>1, DrivenFacts DEF OthersRest
<1>10. QED
  BY <1>1, <1>8, <1>9, OneAnswers DEF Begun, At

LEMMA NewCallAnswer ==
    ASSUME NEW l \in Loop, Driven(l), AnswerInv, NEW t \in Call, NEW whole \in SUBSET Call,
           NEW k, NewCall(l, t, whole, k)
    PROVE  AnswerInv'
<1>1. PICK h : h = Answering(history)
  OBVIOUS
<1>2. /\ At(l, "stream") /\ streaming /\ history # <<>>
      /\ history' = [h EXCEPT ![Len(h)].calls = @ \cup {t}]
      /\ status' = [Mark(status, whole, "generated") EXCEPT ![t] = "generating"]
      /\ Goto(l, [loop[l] EXCEPT !.batch = @ \cup {t}])
  BY <1>1 DEF NewCall
<1>3. /\ h \in Seq(Item) /\ Len(h) \in DOMAIN h
      /\ \A u \in h[Len(h)].calls : status[u] \in Fresh
  BY <1>1, <1>2, AnsweringUnrun
<1>4. PICK y \in Item : y = h[Len(h)]
  BY <1>3
<1>5. PICK z \in Item : z = [y EXCEPT !.calls = y.calls \cup {t}] /\ z.calls = y.calls \cup {t}
  <2>1. /\ [y EXCEPT !.calls = y.calls \cup {t}] \in Item
        /\ [y EXCEPT !.calls = y.calls \cup {t}].calls = y.calls \cup {t}
    BY DEF Item
  <2>2. QED
    BY <2>1
<1>6. history' = [h EXCEPT ![Len(h)] = z]
  BY <1>2, <1>4, <1>5
<1>7. Len(history') = Len(h) /\ history'[Len(h)] = z
  BY <1>3, <1>6
<1>8. PICK mid : mid = Mark(status, whole, "generated")
  OBVIOUS
<1>9. Soft(status, mid) /\ DOMAIN mid = Call
  BY <1>8, MarkSoft DEF Fresh, Mark
<1>10. \A u \in Call : status[u] \in Fresh \/ u = t => status'[u] \in Fresh
  BY <1>2, <1>8, <1>9 DEF Soft, Fresh
<1>11. y.calls \subseteq Call
  BY DEF Item
<1>12. Unrun(history', status')
  BY <1>3, <1>4, <1>5, <1>7, <1>10, <1>11 DEF Unrun
<1>13. PICK x \in LoopState : x = loop[l] /\ x.pc = "stream"
  BY <1>2, DrivenFacts DEF At
<1>14. [x EXCEPT !.batch = x.batch \cup {t}].pc = "stream"
  BY <1>13 DEF LoopState
<1>15. QED
  BY <1>2, <1>12, <1>13, <1>14, EntersAnswer DEF PC

LEMMA MoreAnswer ==
    ASSUME NEW l \in Loop, Driven(l), AnswerInv, NEW t \in Call, More(l, t)
    PROVE  AnswerInv'
<1>1. /\ At(l, "stream") /\ streaming
      /\ status' = [status EXCEPT ![t] = "generating"]
      /\ UNCHANGED <<history, loop>>
  BY DEF More
<1>2. Soft(status, status')
  BY <1>1, DrivenFacts DEF Soft, Fresh
<1>3. Unrun(history', status')
  BY <1>1, <1>2, DrivenUnrun, SoftUnrun DEF At
<1>4. OthersRest(l)'
  BY <1>1, DrivenFacts DEF OthersRest
<1>5. QED
  BY <1>1, <1>3, <1>4, OneAnswers DEF Begun, At

\* An answer that is begun again follows no other.
LEMMA RetryAnswer == ASSUME NEW l \in Loop, Driven(l), Retry(l) PROVE AnswerInv'
<1>1. /\ At(l, "stream") /\ history # <<>> /\ Answered(history)
      /\ history' = Before(history) /\ loop[l].again < Restarts /\ UNCHANGED streaming
  BY DEF Retry, Before, Answered
<1>2. CASE ~streaming
  BY <1>1, <1>2 DEF AnswerInv
<1>3. CASE streaming
  <2>1. ~Answered(history')
    BY <1>1, <1>3, DrivenFacts DEF Live, Apart
  <2>2. loop' = RetryLoops(loop, l)
    BY <1>3 DEF Retry, RetryLoops
  <2>3. OthersRest(l)'
    BY <1>1, <2>2, RetryGoes, DrivenFacts DEF Driven, OthersRest, At
  <2>4. QED
    BY <2>1, <2>3, OpenUnrun, OneAnswers DEF Begun
<1>4. QED
  BY <1>2, <1>3

LEMMA ResolveAnswer == ASSUME NEW l \in Loop, Driven(l), AnswerInv, Resolve(l) PROVE AnswerInv'
<1>. DEFINE k == loop[l].input
<1>1. At(l, "resolve") /\ EndTurn(l, FALSE) /\ UNCHANGED <<status, streaming>>
  BY DEF Resolve
<1>2. history \in Seq(Item) /\ (k \in DOMAIN history => history[k].role = "user")
  BY <1>1, DrivenFacts
<1>3. ASSUME streaming PROVE Unrun(history', status')
  <2>1. Unrun(history, status)
    BY <1>1, <1>3, DrivenUnrun DEF At
  <2>2. CASE k \in DOMAIN history
    <3>1. PICK x : history' = [history EXCEPT ![k] = x] /\ x.role = "user"
      <4>1. PICK c : history' = [history EXCEPT ![k] = [User EXCEPT !.calls = c]]
        BY <2>2 DEF Resolve
      <4>2. [User EXCEPT !.calls = c].role = "user"
        BY DEF User
      <4>3. QED
        BY <4>1, <4>2
    <3>2. CASE k = Len(history)
      <4>1. history' # <<>> => history'[Len(history')].role = "user"
        BY <1>2, <2>2, <3>1, <3>2
      <4>2. QED
        BY <4>1 DEF Unrun, Answered
    <3>3. CASE k # Len(history)
      <4>1. Len(history') = Len(history) /\ history'[Len(history)] = history[Len(history)]
            /\ history # <<>>
        BY <1>2, <2>2, <3>1, <3>3
      <4>2. QED
        BY <1>1, <2>1, <4>1 DEF Unrun, Answered
    <3>4. QED
      BY <3>2, <3>3
  <2>3. CASE k \notin DOMAIN history
    <3>1. history' = <<User>> \/ history' = history
      BY <2>3 DEF Resolve
    <3>2. ~Answered(<<User>>)
      BY DEF Answered, User
    <3>3. QED
      BY <1>1, <2>1, <3>1, <3>2, OpenUnrun
  <2>4. QED
    BY <2>2, <2>3
<1>4. QED
  BY <1>1, <1>3, EndTurnAnswer

LEMMA RequestAnswer ==
    ASSUME NEW l \in Loop, Driven(l), AnswerInv,
           Compile(l) \/ Unauthorized(l) \/ StreamEnd(l) \/ PrematureClose(l) \/ RefreshOk(l)
    PROVE  AnswerInv'
<1>1. loop[l].pc \notin {"exec", "save"} /\ UNCHANGED history
  BY DEF Compile, Unauthorized, StreamEnd, PrematureClose, RefreshOk, At
<1>2. ASSUME NEW new, NEW p \in PC \ {"exec", "save"}, Goto(l, new), new.pc = p,
             UNCHANGED <<status, streaming>>
      PROVE  AnswerInv'
  <2>1. streaming => Unrun(history', status')
    BY <1>1, <1>2, DrivenUnrun
  <2>2. QED
    BY <1>2, <2>1, GotoDrives, OneAnswers DEF Begun
<1>3. CASE Compile(l)
  <2>1. Enter(l, "stream").pc = "stream"
    BY EnterIs DEF Driven, PC
  <2>2. QED
    BY <1>2, <1>3, <2>1 DEF Compile, PC
<1>4. CASE Unauthorized(l)
  <2>1. [loop[l] EXCEPT !.pc = "refresh"].pc = "refresh"
    BY DrivenFacts DEF LoopState
  <2>2. QED
    BY <1>2, <1>4, <2>1 DEF Unauthorized, PC
<1>5. Soft(status, status) /\ Soft(status, Mark(status, CurCalls(history), "errored"))
  BY MarkSoft DEF Soft, Fresh
<1>6. CASE StreamEnd(l) \/ PrematureClose(l)
  BY <1>1, <1>5, <1>6, EndIterationAnswer DEF StreamEnd, PrematureClose
<1>7. CASE RefreshOk(l)
  <2>1. CASE EndIteration(l, status)
    BY <1>1, <1>5, <2>1, EndIterationAnswer
  <2>2. CASE ~EndIteration(l, status)
    <3>1. PICK n : /\ Goto(l, [loop[l] EXCEPT !.pc = "stream", !.tries = n])
                   /\ UNCHANGED <<status, streaming>>
      BY <1>7, <2>2 DEF RefreshOk
    <3>2. [loop[l] EXCEPT !.pc = "stream", !.tries = n].pc = "stream"
      BY DrivenFacts DEF LoopState
    <3>3. QED
      BY <1>2, <3>1, <3>2 DEF PC
  <2>3. QED
    BY <2>1, <2>2
<1>8. QED
  BY <1>3, <1>4, <1>6, <1>7

LEMMA JudgeAnswer ==
    ASSUME NEW l \in Loop, Driven(l), AnswerInv, Prep(l) \/ Policy(l) \/ Save(l) \/ Fold(l)
    PROVE  AnswerInv'
<1>1. PICK x \in LoopState : x = loop[l]
  BY DrivenFacts
<1>2. x.todo \subseteq Call /\ x.batch \subseteq Call /\ x.ret \in BOOLEAN
  BY DEF LoopState
<1>3. history \in Seq(Item) /\ (streaming => Unrun(history, status))
  <2>1. loop[l].pc # "exec"
    BY DEF Prep, Policy, Save, Fold, At
  <2>2. history \in Seq(Item)
    BY DrivenFacts
  <2>3. QED
    BY <2>1, <2>2, DrivenUnrun
<1>4. CASE Prep(l)
  <2>1. PICK bad : status' = Mark(status, bad, "errored") /\ UNCHANGED <<history, streaming>>
    BY <1>4 DEF Prep
  <2>2. streaming => Unrun(history', status')
    BY <1>3, <2>1, MarkSoft, SoftUnrun DEF Fresh
  <2>3. CASE Goto(l, IdleLoop)
    BY <2>3, LeavesAnswer
  <2>4. CASE Goto(l, [loop[l] EXCEPT !.pc = "policy", !.todo = Pending(history, status')])
    <3>1. [x EXCEPT !.pc = "policy", !.todo = Pending(history, status')].pc = "policy"
      BY DEF LoopState
    <3>2. OthersRest(l)' /\ loop'[l].pc = "policy"
      BY <1>1, <2>4, <3>1, GotoDrives
    <3>3. QED
      BY <2>1, <2>2, <3>2, OneAnswers DEF Begun
  <2>5. QED
    BY <1>4, <2>3, <2>4 DEF Prep
<1>5. CASE Policy(l)
  <2>1. CASE Goto(l, IdleLoop)
    BY <2>1, LeavesAnswer
  <2>2. CASE Report(l, loop[l].batch) /\ UNCHANGED <<status, streaming>>
    BY <1>1, <1>2, <1>3, <2>2, ReportAnswer
  <2>3. CASE \E S, asks, T : Walk(l, S, asks, FALSE, Mark(status, T, "errored"))
                             /\ UNCHANGED history
    <3>1. PICK S, asks, T : Walk(l, S, asks, FALSE, Mark(status, T, "errored"))
                            /\ UNCHANGED history
      BY <2>3
    <3>2. PICK st : st = Mark(status, T, "errored")
      OBVIOUS
    <3>3. streaming => Unrun(history, st)
      BY <1>3, <3>2, MarkSoft, SoftUnrun DEF Fresh
    <3>4. Walk(l, S, asks, FALSE, st) /\ UNCHANGED history
      BY <3>1, <3>2
    <3>5. QED
      BY <3>3, <3>4, WalkAnswer
  <2>4. QED
    BY <1>5, <2>1, <2>2, <2>3 DEF Policy
<1>6. CASE Save(l)
  BY <1>1, <1>2, <1>3, <1>6, WalkAnswer DEF Save
<1>7. CASE Fold(l)
  BY <1>1, <1>2, <1>3, <1>7, ReportAnswer DEF Fold
<1>8. QED
  BY <1>4, <1>5, <1>6, <1>7

LEMMA ToolReturnsAnswer ==
    ASSUME NEW l \in Loop, Driven(l), ToolReturns(l) PROVE AnswerInv'
<1>1. CASE ~streaming'
  BY <1>1 DEF AnswerInv
<1>2. CASE streaming'
  <2>1. PICK x \in LoopState : x = loop[l] /\ x.pc = "exec"
    BY DrivenFacts DEF ToolReturns, At
  <2>2. PICK t \in x.cur : /\ history' = Push(history, t) /\ UNCHANGED streaming
                           /\ Goto(l, [loop[l] EXCEPT !.pc = "save", !.cur = {}])
    BY <1>2, <2>1 DEF ToolReturns
  <2>3. Runs(x, history, status) /\ history \in Seq(Item)
    BY <1>2, <2>1, <2>2, DrivenFacts DEF Live
  <2>4. ~Answered(history')
    BY <2>2, <2>3, PushLast, CurTyped DEF Runs
  <2>5. QED
    BY <2>2, <2>4, GotoDrives, OneAnswers, OpenUnrun DEF Begun
<1>3. QED
  BY <1>1, <1>2

LEMMA LoopAnswer ==
    ASSUME TypeOK, TurnInv, AnswerInv, NEW l \in Loop, LoopStep(l) \/ Chunk(l)
    PROVE  AnswerInv'
<1>1. CASE ~Drives(loop[l])
  <2>1. Save(l) /\ loop[l].cut /\ loop[l].todo # {} /\ loop[l].pc # "exec"
    BY <1>1, SaveOnly DEF Drives, Leaving, Save, At
  <2>2. Goto(l, IdleLoop) /\ UNCHANGED <<status, streaming, history>>
    BY <2>1 DEF Save, Walk, Stopped
  <2>3. loop'[l] = IdleLoop /\ \A m \in Loop \ {l} : loop'[m] = loop[m]
    BY <2>2 DEF Goto, TypeOK
  <2>4. QED
    BY <2>2, <2>3, IdleIs DEF AnswerInv, Drives
<1>2. CASE Drives(loop[l])
  <2>1. Driven(l)
    BY <1>2 DEF Driven
  <2>2. CASE LoopFails(l) \/ ToolThrows(l) \/ CompileTooLong(l) \/ RefreshFails(l) \/ ChunkAfterStop(l)
    <3>1. ~streaming'
      BY <2>2 DEF LoopFails, ToolThrows, CompileTooLong, RefreshFails, ChunkAfterStop, Fail,
                  CancelStream, GiveUp
    <3>2. QED
      BY <3>1 DEF AnswerInv
  <2>3. CASE Chunk(l)
    BY <2>1, <2>3, TextAnswer, RetryAnswer, MoreAnswer, NewCallAnswer DEF Chunk
  <2>4. CASE \/ Resolve(l) \/ Compile(l) \/ Unauthorized(l) \/ StreamEnd(l)
             \/ PrematureClose(l) \/ RefreshOk(l) \/ ToolReturns(l)
    BY <2>1, <2>4, ResolveAnswer, RequestAnswer, ToolReturnsAnswer
  <2>5. CASE Prep(l) \/ Policy(l) \/ Save(l) \/ Fold(l)
    BY <2>1, <2>5, JudgeAnswer
  <2>6. QED
    BY <2>2, <2>3, <2>4, <2>5 DEF LoopStep
<1>3. QED
  BY <1>1, <1>2

\* A response that starts the loop follows a tool message.
LEMMA RespondAnswer ==
    ASSUME TypeOK, ~streaming, NEW t \in Call, NEW st, Respond(t, st) PROVE AnswerInv'
<1>1. CASE ~streaming'
  BY <1>1 DEF AnswerInv
<1>2. CASE streaming'
  <2>1. t \in CurCalls(history) /\ history' = Push(history, t)
    BY <1>2 DEF Respond
  <2>2. ~Answered(history')
    BY <2>1, PushLast DEF TypeOK
  <2>3. QED
    BY <2>2, OpenUnrun DEF AnswerInv, Begun
<1>3. QED
  BY <1>1, <1>2

LEMMA UserAnswer ==
    ASSUME Usual, TypeOK, TurnInv, NEW t \in Call,
           \/ Accept(t) \/ UserToolReturns(t) \/ UserToolThrows(t)
           \/ ApplyClosed(t) \/ ApplyFails(t) \/ Reject(t) \/ ShortcutReject(t)
    PROVE  AnswerInv'
<1>1. ~streaming
  BY UsersWait DEF Usual, Accept, UserToolReturns, UserToolThrows, ApplyClosed, ApplyFails,
                   Reject, ShortcutReject, MayAnswer
<1>2. CASE \E st : Respond(t, st)
  BY <1>1, <1>2, RespondAnswer
<1>3. CASE ~streaming'
  BY <1>3 DEF AnswerInv
<1>4. QED
  BY <1>1, <1>2, <1>3 DEF Accept, UserToolReturns, UserToolThrows, ApplyClosed, ApplyFails,
                          Reject, ShortcutReject

\* A message that is sent is followed by an answer with no calls yet.
LEMMA SubmitAnswer ==
    ASSUME Usual, TypeOK, NEW l \in Loop, NEW k \in 1 .. Len(history) + 1, Submit(l, k)
    PROVE  AnswerInv'
<1>1. /\ history' = SubSeq(history, 1, k - 1) \o <<User, Assistant>> /\ ~Busy
      /\ Goto(l, [IdleLoop EXCEPT !.pc = "resolve", !.input = k])
  BY DEF Submit, Usual
<1>2. history'[Len(history')].calls = {}
  <2>1. PICK s \in Seq(Item) : s = SubSeq(history, 1, k - 1)
    <3>1. history \in Seq(Item) /\ k - 1 \in Int /\ k - 1 <= Len(history)
      BY DEF TypeOK
    <3>2. QED
      BY <3>1, FirstTyped
  <2>2. PICK a, b \in Item : a = User /\ b = Assistant /\ b.calls = {}
    BY ItemsTyped DEF Assistant
  <2>3. history' = s \o <<a, b>>
    BY <1>1, <2>1, <2>2
  <2>4. Len(history') = Len(s) + 2 /\ history'[Len(s) + 2] = b
    BY <2>3
  <2>5. QED
    BY <2>2, <2>4
<1>3. loop'[l].pc = "resolve" /\ \A m \in Loop \ {l} : loop'[m].pc = "idle"
  BY <1>1 DEF Goto, TypeOK, Busy, Idle, At, IdleLoop
<1>4. Unrun(history', status')
  BY <1>2 DEF Unrun
<1>5. QED
  BY <1>3, <1>4 DEF AnswerInv, Drives, Begun

LEMMA AnswerStep ==
    ASSUME Usual, TypeOK, TurnInv, AnswerInv, [Next]_vars PROVE AnswerInv'
<1>1. CASE Stop \/ NewSession
  BY <1>1 DEF Stop, NewSession, CancelStream, AnswerInv
<1>2. CASE UNCHANGED vars
  BY <1>2 DEF vars, AnswerInv, Drives, Leaving, Begun, Unrun, Answered
<1>3. QED
  BY <1>1, <1>2, LoopAnswer, UserAnswer, SubmitAnswer DEF Next

-----------------------------------------------------------------------------
(* What is decided stays decided. *)

Decided == {"calling", "done", "canceled"}
Open == {"generating", "generated"}

\* Statuses change, but no call comes to wait.
Settles(st, new) == \A t \in Call : new[t] \in Open => new[t] = st[t]

\* No call comes to wait that was decided.
Stays(st, new) == \A t \in Call : st[t] \in Decided => new[t] \notin Open

LEMMA SettlesStays == ASSUME NEW st, NEW new, Settles(st, new) PROVE Stays(st, new)
BY DEF Settles, Stays, Decided, Open

LEMMA MarkSettles ==
    ASSUME NEW st, NEW T, NEW s, s \notin Open PROVE Settles(st, Mark(st, T, s))
BY DEF Settles, Mark

LEMMA ForgetSettles == ASSUME NEW st, NEW h PROVE Settles(st, Forget(st, h))
BY DEF Settles, Forget, Open

LEMMA SettlesTransitive ==
    ASSUME NEW a, NEW b, NEW c, Settles(a, b), Settles(b, c) PROVE Settles(a, c)
BY DEF Settles

LEMMA ClearedSettles == ASSUME NEW h, NEW st PROVE Settles(st, ClearedStatus(h, st))
<1>1. PICK T : ClearedStatus(h, st) = Forget(Mark(st, T, "canceled"), Dangling(h, st))
  BY DEF ClearedStatus
<1>2. Settles(st, Mark(st, T, "canceled"))
  BY MarkSettles DEF Open
<1>3. QED
  BY <1>1, <1>2, ForgetSettles, SettlesTransitive

LEMMA WalkSettles ==
    ASSUME NEW l, NEW S, NEW asks, NEW ret, NEW st, Settles(status, st),
           Walk(l, S, asks, ret, st)
    PROVE  Settles(status, status')
<1>1. CASE status' = st
  BY <1>1
<1>2. ASSUME NEW t, status' = Mark(st, {t}, "calling") PROVE Settles(status, status')
  <2>1. PICK new : new = Mark(st, {t}, "calling")
    OBVIOUS
  <2>2. Settles(st, new)
    BY <2>1, MarkSettles DEF Open
  <2>3. QED
    BY <1>2, <2>1, <2>2, SettlesTransitive
<1>3. QED
  BY <1>1, <1>2 DEF Walk

LEMMA EndIterationStays ==
    ASSUME NEW l, NEW st, Settles(status, st), EndIteration(l, st)
    PROVE  Stays(status, status')
<1>1. CASE status' = st
  BY <1>1, SettlesStays
<1>2. CASE status' # st
  <2>1. PICK open, invalid :
          /\ open = {t \in CurCalls(history) : st[t] = "generating"}
          /\ status' = Mark(Mark(st, invalid, "errored"), open \ invalid, "generated")
    BY <1>2 DEF EndIteration
  <2>2. \A t \in open : st[t] = "generating"
    BY <2>1
  <2>3. PICK mid : mid = Mark(st, invalid, "errored")
    OBVIOUS
  <2>4. Settles(status, mid)
    BY <2>3, MarkSettles, SettlesTransitive DEF Open
  <2>5. ASSUME NEW t \in Call, status[t] \in Decided PROVE status'[t] \notin Open
    <3>1. CASE t \in open \ invalid
      BY <2>2, <2>5, <3>1 DEF Settles, Decided, Open
    <3>2. CASE t \notin open \ invalid
      <4>1. status'[t] = mid[t]
        BY <2>1, <2>3, <3>2 DEF Mark
      <4>2. QED
        BY <2>4, <2>5, <4>1 DEF Settles, Decided, Open
    <3>3. QED
      BY <3>1, <3>2
  <2>6. QED
    BY <2>5 DEF Stays
<1>3. QED
  BY <1>1, <1>2

LEMMA NewCallStays ==
    ASSUME TypeOK, NEW l, NEW t \in Call, NEW whole \in SUBSET Call, NEW k,
           NewCall(l, t, whole, k)
    PROVE  Stays(status, status')
<1>1. /\ status[t] = "none" /\ \A u \in whole : status[u] = "generating"
      /\ status' = [Mark(status, whole, "generated") EXCEPT ![t] = "generating"]
  BY DEF NewCall
<1>2. PICK mid : mid = Mark(status, whole, "generated")
  OBVIOUS
<1>3. \A u \in Call : mid[u] = status[u] \/ status[u] = "generating"
  BY <1>1, <1>2 DEF Mark
<1>4. DOMAIN mid = Call
  BY <1>2 DEF Mark
<1>5. \A u \in Call \ {t} : status'[u] = mid[u]
  BY <1>1, <1>2, <1>4
<1>6. QED
  BY <1>1, <1>3, <1>5 DEF Stays, Decided, Open

LEMMA CancelSettles == ASSUME NEW lp, CancelStream(lp) PROVE Settles(status, status')
BY ClearedSettles DEF CancelStream

LEMMA SameSettles == ASSUME UNCHANGED status PROVE Settles(status, status')
BY DEF Settles

LEMMA JudgingSettles ==
    ASSUME NEW l, Prep(l) \/ Policy(l) \/ Save(l) PROVE Settles(status, status')
<1>1. CASE Prep(l)
  BY <1>1, MarkSettles DEF Prep, Open
<1>2. CASE Policy(l)
  <2>1. CASE UNCHANGED status
    BY <2>1, SameSettles
  <2>2. CASE \E T : status' = Mark(status, T, "errored")
    BY <2>2, MarkSettles DEF Open
  <2>3. CASE \E S, asks, T : Walk(l, S, asks, FALSE, Mark(status, T, "errored"))
    <3>1. PICK S, asks, T : Walk(l, S, asks, FALSE, Mark(status, T, "errored"))
      BY <2>3
    <3>2. PICK st : st = Mark(status, T, "errored")
      OBVIOUS
    <3>3. Settles(status, st)
      BY <3>2, MarkSettles DEF Open
    <3>4. Walk(l, S, asks, FALSE, st)
      BY <3>1, <3>2
    <3>5. QED
      BY <3>3, <3>4, WalkSettles
  <2>4. QED
    BY <1>2, <2>1, <2>2, <2>3 DEF Policy
<1>3. CASE Save(l)
  <2>1. PICK st : st = status
    OBVIOUS
  <2>2. Settles(status, st)
    BY <2>1 DEF Settles
  <2>3. Walk(l, loop[l].todo, loop[l].asks, loop[l].ret, st)
    BY <1>3, <2>1 DEF Save
  <2>4. QED
    BY <2>2, <2>3, WalkSettles
<1>4. QED
  BY <1>1, <1>2, <1>3

LEMMA AnswerStays ==
    ASSUME NEW l \in Loop, StreamEnd(l) \/ PrematureClose(l) \/ RefreshOk(l)
    PROVE  Stays(status, status')
<1>1. CASE UNCHANGED status
  BY <1>1, SameSettles, SettlesStays
<1>2. CASE \E st : EndIteration(l, st) /\ Settles(status, st)
  BY <1>2, EndIterationStays
<1>3. Settles(status, status)
  BY DEF Settles
<1>4. Settles(status, Mark(status, CurCalls(history), "errored"))
  BY MarkSettles DEF Open
<1>5. QED
  BY <1>1, <1>2, <1>3, <1>4 DEF StreamEnd, PrematureClose, RefreshOk

LEMMA MoreStays ==
    ASSUME NEW l \in Loop, Driven(l), AnswerInv, NEW t \in Call, More(l, t)
    PROVE  Stays(status, status')
<1>1. status[t] \in Fresh
  <2>1. Unrun(history, status)
    BY DrivenUnrun DEF More, At
  <2>2. QED
    BY <2>1 DEF More, Unrun, Answered
<1>2. status \in [Call -> Status] /\ status' = [status EXCEPT ![t] = "generating"]
  BY DEF More, Driven, TypeOK
<1>3. QED
  BY <1>1, <1>2 DEF Stays, Decided, Open, Fresh

LEMMA ToolSettles ==
    ASSUME NEW l, ToolReturns(l) PROVE Settles(status, status')
<1>1. \/ UNCHANGED status
      \/ \E t, s : s \in {"done", "errored"} /\ status' = Mark(status, {t}, s)
  BY DEF ToolReturns
<1>2. QED
  BY <1>1, SameSettles, MarkSettles DEF Open

LEMMA LoopStays ==
    ASSUME NEW l \in Loop, Driven(l), AnswerInv, LoopStep(l) \/ Chunk(l)
    PROVE  Stays(status, status')
<1>1. CASE LoopFails(l) \/ ToolThrows(l)
  BY <1>1, CancelSettles, SettlesStays DEF LoopFails, ToolThrows, Fail
<1>2. CASE \/ CompileTooLong(l) \/ RefreshFails(l) \/ Resolve(l) \/ Compile(l)
           \/ ChunkAfterStop(l) \/ Unauthorized(l) \/ Fold(l) \/ Text(l)
  <2>1. UNCHANGED status
    BY <1>2 DEF CompileTooLong, RefreshFails, GiveUp, Resolve, Compile, ChunkAfterStop,
                Unauthorized, Fold, Text
  <2>2. QED
    BY <2>1, SameSettles, SettlesStays
<1>3. CASE StreamEnd(l) \/ PrematureClose(l) \/ RefreshOk(l)
  BY <1>3, AnswerStays
<1>4. CASE Prep(l) \/ Policy(l) \/ Save(l)
  BY <1>4, JudgingSettles, SettlesStays
<1>5. CASE ToolReturns(l)
  BY <1>5, ToolSettles, SettlesStays
<1>6. CASE Retry(l)
  <2>1. PICK g : g = history'
    OBVIOUS
  <2>2. status' = Forget(status, g)
    BY <1>6, <2>1 DEF Retry
  <2>3. QED
    BY <2>2, ForgetSettles, SettlesStays
<1>7. ASSUME NEW t \in Call, More(l, t) PROVE Stays(status, status')
  BY <1>7, MoreStays
<1>8. ASSUME NEW t \in Call, NEW whole \in SUBSET Call, NEW k, NewCall(l, t, whole, k)
      PROVE  Stays(status, status')
  BY <1>8, NewCallStays DEF Driven
<1>9. QED
  BY <1>1, <1>2, <1>3, <1>4, <1>5, <1>6, <1>7, <1>8 DEF LoopStep, Chunk

LEMMA UserSettles ==
    ASSUME NEW t \in Call,
           \/ Accept(t) \/ UserToolReturns(t) \/ UserToolThrows(t)
           \/ ApplyClosed(t) \/ ApplyFails(t) \/ Reject(t) \/ ShortcutReject(t)
    PROVE  Settles(status, status')
<1>1. UNCHANGED status
      \/ \E s \in {"calling", "done", "errored", "canceled"} : status' = Mark(status, {t}, s)
  BY DEF Accept, UserToolReturns, UserToolThrows, ApplyClosed, ApplyFails, Reject,
         ShortcutReject, Respond
<1>2. QED
  BY <1>1, SameSettles, MarkSettles DEF Open

LEMMA TurnStays ==
    ASSUME TypeOK, TurnInv, AnswerInv, [Next]_vars PROVE Stays(status, status')
<1>1. ASSUME NEW l \in Loop, LoopStep(l) \/ Chunk(l) PROVE Stays(status, status')
  <2>1. CASE Drives(loop[l])
    BY <1>1, <2>1, LoopStays DEF Driven
  <2>2. CASE ~Drives(loop[l])
    <3>1. Save(l)
      BY <1>1, <2>2, SaveOnly DEF Drives, Leaving
    <3>2. QED
      BY <3>1, JudgingSettles, SettlesStays
  <2>3. QED
    BY <2>1, <2>2
<1>2. ASSUME NEW l \in Loop, NEW k \in 1 .. Len(history) + 1, Submit(l, k)
      PROVE  Stays(status, status')
  <2>1. PICK mid : /\ mid = Mark(status, Pending(history, status), "canceled")
                   /\ status' = Forget(mid, history')
    BY <1>2 DEF Submit
  <2>2. Settles(status, mid)
    BY <2>1, MarkSettles DEF Open
  <2>3. QED
    BY <2>1, <2>2, ForgetSettles, SettlesTransitive, SettlesStays
<1>3. ASSUME NEW t \in Call,
             \/ Accept(t) \/ UserToolReturns(t) \/ UserToolThrows(t)
             \/ ApplyClosed(t) \/ ApplyFails(t) \/ Reject(t) \/ ShortcutReject(t)
      PROVE  Stays(status, status')
  BY <1>3, UserSettles, SettlesStays
<1>4. CASE Stop
  BY <1>4, CancelSettles, SettlesStays DEF Stop
<1>5. CASE NewSession
  BY <1>5, ForgetSettles, SettlesStays DEF NewSession
<1>6. CASE UNCHANGED vars
  BY <1>6, SameSettles, SettlesStays DEF vars
<1>7. QED
  BY <1>1, <1>2, <1>3, <1>4, <1>5, <1>6 DEF Next

-----------------------------------------------------------------------------
(* The theorems about a turn. *)

\* One loop drives the turn, and the calls of the last answer are in the hands of one
\* party: this loop, the user or the editor.  It holds when the user sends and answers
\* while nothing is under way and a rejected call ends the turn (streamNormalInput,
\* callToolById, streamResponseAfterToolCall, cancelStream).
THEOREM OneLoopDrives == Usual /\ Spec => []TurnInv
<1>1. Usual /\ IInv /\ TurnInv /\ [Next]_vars => TurnInv'
  BY TurnStep DEF IInv
<1>2. CASE Usual
  BY <1>1, <1>2, InitTurn, Invariant, PTL DEF Spec
<1>3. CASE ~Usual
  BY <1>3
<1>4. QED
  BY <1>2, <1>3

\* A tool message stands after the assistant message that made its call, with nothing
\* but tool messages between them, for any number of calls, loops and messages
\* (streamResponseAfterToolCall, clearDanglingMessages).
THEOREM ToolMessagesFollow == Usual /\ Spec => []NoStrayToolMessage
<1>1. TurnInv => NoStrayToolMessage
  BY DEF TurnInv, Told, Follows, NoStrayToolMessage
<1>2. QED
  BY <1>1, OneLoopDrives, PTL

\* While the spinner is shown some loop is there to take it away (setInactive,
\* cancelStream).
THEOREM SpinnerServed == Usual /\ Spec => []NeverStuck
<1>1. TurnInv => NeverStuck
  BY DEF TurnInv, Drives, NeverStuck, Idle, At
<1>2. QED
  BY <1>1, OneLoopDrives, PTL

\* A turn whose calls are all answered goes on, unless it was stopped or failed: whoever
\* ends last, the loop, the user's call or the diff, starts the model again
\* (areAllToolsDoneStreaming).
THEOREM TurnsGoOn == Usual /\ Spec => []NoForgottenTurn
<1>1. TurnInv => NoForgottenTurn
  BY DEF TurnInv, Settled, Drives, NoForgottenTurn, Idle, At
<1>2. QED
  BY <1>1, OneLoopDrives, PTL

\* Until a loop runs the calls of its answer none of them is decided but by an error, and
\* from then on no answer of a loop that streams can be reached by its place (More,
\* NewCall, ToolReturns, streamResponseAfterToolCall).
THEOREM AnswersUnrun == Usual /\ Spec => []AnswerInv
<1>1. Usual /\ IInv /\ TurnInv /\ AnswerInv /\ [Next]_vars => AnswerInv'
  BY AnswerStep DEF IInv
<1>2. Init => AnswerInv
  BY DEF Init, AnswerInv
<1>3. CASE Usual
  BY <1>1, <1>2, <1>3, OneLoopDrives, Invariant, PTL DEF Spec
<1>4. CASE ~Usual
  BY <1>4
<1>5. QED
  BY <1>3, <1>4

\* A call that was run, refused or given up never waits for a permission again, so that
\* none runs twice, although a delta without an id goes to the last call there is,
\* whatever its status, as long as nobody answers a call while its answer streams
\* (applyToolCallDelta, processToolCalls).
THEOREM DecidedStays == Usual /\ Spec => DecidedForGood
<1>1. IInv /\ TurnInv /\ AnswerInv /\ [Next]_vars => [Stays(status, status')]_vars
  BY TurnStays DEF IInv
<1>2. [Stays(status, status')]_vars =>
        [\A t \in Call :
          status[t] \in {"calling", "done", "canceled"}
            => status'[t] \notin {"generating", "generated"}]_vars
  BY DEF Stays, Decided, Open
<1>3. QED
  BY <1>1, <1>2, OneLoopDrives, AnswersUnrun, Invariant, PTL DEF Spec, DecidedForGood

=============================================================================
