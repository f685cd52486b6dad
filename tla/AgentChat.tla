------------------------------- MODULE AgentChat -------------------------------
(***************************************************************************)
(* The chat session of the GUI and the agent that answers in it: the redux *)
(* slice gui/src/redux/slices/sessionSlice.ts, the turn loop of            *)
(* core/runtime/turnLoop.ts, and the thunks that drive them                *)
(* (streamResponse, streamNormalInput, callToolById, cancelToolCall,       *)
(* streamResponseAfterToolCall, handleApplyStateUpdate, cancelStream).     *)
(* JavaScript runs one thunk at a time from one await to the next, so an   *)
(* action here is everything a handler or a thunk does between two awaits. *)
(* A loop is one run of streamNormalInput; several may be under way.       *)
(***************************************************************************)
EXTENDS Integers, Sequences, FiniteSets

CONSTANTS
    Call,       \* ids of tool calls, in the order in which models make them
    Loop,       \* bound: runs of streamNormalInput that may be under way at once
    MaxLength,  \* bound: the longest history that fits the model's context
    Messages,   \* bound: user messages in a history
    Refreshes,  \* maxRetries of the request loop: how many 401s are answered
    Restarts,   \* maxToolCallRetries (20): answers begun again after a call in the reasoning
    ContinueAfterToolRejection,  \* config.ui.continueAfterToolRejection
    Races       \* which gestures may overtake a loop: "resubmit", "shortcut"

ASSUME ChatAssumption ==
    /\ Call \subseteq Nat
    /\ Loop # {}
    /\ MaxLength \in Nat /\ Messages \in Nat
    /\ Refreshes \in Nat /\ Restarts \in Nat
    /\ ContinueAfterToolRejection \in BOOLEAN
    /\ Races \subseteq {"resubmit", "shortcut"}

VARIABLES
    history,     \* session.history
    status,      \* the status of each tool call; "none" before, "gone" after
    streaming,   \* session.isStreaming
    loop,        \* the state of each loop
    byUser,      \* calls a callToolById thunk is executing
    applying,    \* edit calls whose diff is open in the editor
    kind,        \* "edit" for the client edit tools, else the tool's base policy
    interrupted  \* history: the last turn was stopped or failed

vars == <<history, status, streaming, loop, byUser, applying, kind, interrupted>>

Status == {"none", "generating", "generated", "calling", "done", "errored",
           "canceled", "gone"}
\* allowedWithoutPermission, allowedWithPermission and disabled.
ToolPolicy == {"free", "ask", "off"}
Role == {"user", "assistant", "tool"}
Item == [role : Role, calls : SUBSET Call, text : BOOLEAN]

\* "resolve": in resolveEditorContent; "compile": in llm/compileChat; "stream":
\* in the model's answer; "refresh": in refreshAccessToken; "prep": in
\* preprocessToolCalls; "policy": in evaluateToolPolicies; "exec": in the tool;
\* "save" and "fold": saving, after the message of a tool call was added.
PC == {"idle", "resolve", "compile", "stream", "refresh", "prep", "policy",
       "exec", "save", "fold"}

LoopState ==
    [pc : PC,
     cut : BOOLEAN,           \* the streamAborter it captured has been aborted
     halted : BOOLEAN,        \* history: the user stopped the turn it serves
     batch : SUBSET Call,     \* toolCalls of this iteration
     todo : SUBSET Call,      \* calls still to preprocess, judge, run or report
     asks : SUBSET Call,      \* those of them that need permission
     ret : BOOLEAN,           \* shouldReturn
     tries : 0 .. Refreshes,  \* retryCount
     again : 0 .. Restarts,   \* toolCallRetryCount
     input : Nat,             \* inputIndex, counted from one
     cur : SUBSET Call]       \* the call being executed

IdleLoop == [pc |-> "idle", cut |-> FALSE, halted |-> FALSE, batch |-> {},
             todo |-> {}, asks |-> {}, ret |-> FALSE, tries |-> 0, again |-> 0,
             input |-> 0, cur |-> {}]

TypeOK ==
    /\ history \in Seq(Item)
    /\ status \in [Call -> Status]
    /\ streaming \in BOOLEAN
    /\ loop \in [Loop -> LoopState]
    /\ byUser \in SUBSET Call
    /\ applying \in SUBSET Call
    /\ kind \in [Call -> ToolPolicy \cup {"edit"}]
    /\ interrupted \in BOOLEAN

Init ==
    /\ history = <<>>
    /\ status = [t \in Call |-> "none"]
    /\ streaming = FALSE
    /\ loop = [l \in Loop |-> IdleLoop]
    /\ byUser = {}
    /\ applying = {}
    /\ kind = [t \in Call |-> "free"]
    /\ interrupted = FALSE

-----------------------------------------------------------------------------
(* The history and the reducers. *)

User == [role |-> "user", calls |-> {}, text |-> TRUE]
Assistant == [role |-> "assistant", calls |-> {}, text |-> FALSE]
ToolMessage(t) == [role |-> "tool", calls |-> {t}, text |-> TRUE]

\* findAllCurToolCalls: the calls of the last assistant message, when nothing
\* but tool messages follows it.
CurCalls(h) ==
    {t \in Call : \E i \in DOMAIN h :
        /\ h[i].role = "assistant"
        /\ t \in h[i].calls
        /\ \A j \in i + 1 .. Len(h) : h[j].role = "tool"}

\* The calls findToolCallById finds.
Present(st, t) == st[t] \notin {"none", "gone"}

\* The reducers that set a status do nothing to a call that is not in the history.
Mark(st, T, s) == [t \in Call |-> IF t \in T /\ Present(st, t) THEN s ELSE st[t]]

\* Calls whose message h no longer holds can no longer be found.
Forget(st, h) ==
    [t \in Call |->
        IF \E i \in DOMAIN h : h[i].role # "tool" /\ t \in h[i].calls
        THEN st[t]
        ELSE IF st[t] = "none" THEN "none" ELSE "gone"]

Pending(h, st) == {t \in CurCalls(h) : st[t] = "generated"}

\* streamUpdate with an assistant chunk extends the last message when it is the
\* assistant's and begins a new one otherwise; with no history it does nothing.
Answering(h) ==
    IF h = <<>> \/ h[Len(h)].role = "assistant" THEN h ELSE Append(h, Assistant)

\* clearDanglingMessages: keep the assistant message after the last user or tool
\* message when there is something in it, and cancel its unfinished calls; else
\* drop it, and the user message it was to answer.
Dangling(h, st) ==
    LET last == h[Len(h)] IN
    CASE Len(h) < 2 -> h
      [] Len(h) >= 2 /\ last.role = "user" -> SubSeq(h, 1, Len(h) - 1)
      [] Len(h) >= 2 /\ last.role = "tool" -> h
      [] Len(h) >= 2 /\ last.role = "assistant" ->
            IF last.text \/ \E t \in last.calls : st[t] # "generating" THEN h
            ELSE IF h[Len(h) - 1].role = "user" THEN SubSeq(h, 1, Len(h) - 2)
            ELSE SubSeq(h, 1, Len(h) - 1)

ClearedStatus(h, st) ==
    LET dangling == IF Len(h) < 2 \/ h[Len(h)].role # "assistant" THEN {}
                    ELSE {t \in h[Len(h)].calls : st[t] \in {"generating", "generated"}}
    IN  Forget(Mark(st, dangling, "canceled"), Dangling(h, st))

\* abortStream: every loop holds the one streamAborter there is.
AbortAll(lp) == [l \in Loop |-> IF lp[l].pc = "idle" THEN lp[l]
                                ELSE [lp[l] EXCEPT !.cut = TRUE]]

\* cancelStream, dispatched while the loops are in the states lp.
CancelStream(lp) ==
    /\ streaming' = FALSE
    /\ loop' = AbortAll(lp)
    /\ history' = Dangling(history, status)
    /\ status' = ClearedStatus(history, status)
    /\ interrupted' = TRUE

-----------------------------------------------------------------------------
(* The ways out of a step of a loop. *)

At(l, p) == loop[l].pc = p
Idle(l) == At(l, "idle")
Enter(l, p) == [IdleLoop EXCEPT !.pc = p, !.halted = loop[l].halted]
Goto(l, new) == loop' = [loop EXCEPT ![l] = new]

\* What the thunks test between awaits: the aborter they captured, or no chat.
Stopped(l) == loop[l].cut \/ ~streaming

\* After processToolCalls: leave, or run isAborted and begin the next iteration.
\* isAborted reads the aborter of the moment, which is never an aborted one.
EndTurn(l, shouldReturn) ==
    Goto(l, IF shouldReturn \/ ~streaming THEN IdleLoop ELSE Enter(l, "compile"))

\* An error reaches streamThunkWrapper, which cancels the stream.
Fail(l) == CancelStream([loop EXCEPT ![l] = IdleLoop])

\* Mutant of GiveUp: setInactive is forgotten.
GiveUpActive(l) ==
    /\ Goto(l, IdleLoop)
    /\ interrupted' = TRUE
    /\ UNCHANGED <<history, status, streaming>>

\* setInactive on a path that gives the turn up.
GiveUp(l) ==
    /\ streaming' = FALSE
    /\ Goto(l, IdleLoop)
    /\ interrupted' = TRUE
    /\ UNCHANGED <<history, status>>

\* The end of an iteration, with the statuses st, and processToolCalls up to its
\* first await: calls that are still generating turn out complete or invalid.
EndIteration(l, st) ==
    LET calls == CurCalls(history)
        open == {t \in calls : st[t] = "generating"}
    IN
    \/ /\ ~streaming
       /\ Goto(l, IdleLoop)
       /\ status' = st
       /\ UNCHANGED streaming
    \/ /\ streaming /\ calls = {}
       /\ streaming' = FALSE
       /\ Goto(l, IdleLoop)
       /\ status' = st
    \/ /\ streaming /\ calls # {}
       /\ \E invalid \in SUBSET open :
            status' = Mark(Mark(st, invalid, "errored"), open \ invalid, "generated")
       /\ Goto(l, [Enter(l, "prep") EXCEPT !.batch = calls,
                                          !.todo = Pending(history, status')])
       /\ UNCHANGED streaming

\* Mutant of evaluateToolPolicy: the answer of core replaces the base policy.
evaluateLeniently(k, dynamic) == IF k = "edit" THEN "free" ELSE dynamic

evaluateToolPolicy(k, dynamic) ==
    IF k = "edit" THEN "free"
    ELSE IF "off" \in {k, dynamic} THEN "off"
    ELSE IF "ask" \in {k, dynamic} THEN "ask" ELSE "free"

\* The loop over the policies, from one await to the next: S are the calls left
\* that are not disabled, asks those that need permission, ret is shouldReturn so
\* far, st the statuses. A call that is not "generated" any more makes
\* executeGuiToolCallById return at once.
Walk(l, S, asks, ret, st) ==
    LET stops == {t \in S : t \in asks \/ st[t] = "generated"} IN
    \/ /\ S = {}
       /\ EndTurn(l, ret)
       /\ status' = st
       /\ UNCHANGED streaming
    \/ /\ S # {} /\ (Stopped(l) \/ stops = {})
       /\ Goto(l, IdleLoop)
       /\ status' = st
       /\ UNCHANGED streaming
    \/ /\ S # {} /\ ~Stopped(l)
       /\ \E t \in stops :
            /\ \A u \in stops : t <= u
            /\ \/ /\ t \in asks
                  /\ streaming' = FALSE
                  /\ Goto(l, IdleLoop)
                  /\ status' = st
               \/ /\ t \notin asks
                  /\ Goto(l, [loop[l] EXCEPT
                                !.pc = "exec",
                                !.batch = {},
                                !.todo = {u \in S : u > t},
                                !.asks = {u \in asks : u > t},
                                !.ret = ret \/ \E u \in S : u < t,
                                !.cur = {t}])
                  /\ status' = Mark(st, {t}, "calling")
                  /\ UNCHANGED streaming

\* Mutant of Push: a call that is not current gets its message all the same.
PushUnchecked(h, t) == Append(h, ToolMessage(t))

\* streamResponseAfterToolCall, the part that adds the tool message.
Push(h, t) == IF t \in CurCalls(h) THEN Append(h, ToolMessage(t)) ELSE h

\* With no policies left, the tool message of every call of the iteration.
Report(l, S) ==
    \/ /\ S = {}
       /\ EndTurn(l, FALSE)
       /\ UNCHANGED history
    \/ \E t \in S :
        /\ \A u \in S : t <= u
        /\ history' = Push(history, t)
        /\ Goto(l, [loop[l] EXCEPT !.pc = "fold", !.todo = S \ {t}])

\* Mutant of Complete: a failed call does not count.
CompleteWhenDone(st, t) ==
    st[t] = "done" \/ (ContinueAfterToolRejection /\ st[t] = "canceled")

\* areAllToolsDoneStreaming
Complete(st, t) ==
    \/ st[t] \in {"done", "errored"}
    \/ ContinueAfterToolRejection /\ st[t] = "canceled"

\* streamResponseAfterToolCall with continueStreaming, with the statuses st: add
\* the tool message and, when every call is complete, run the turn loop again.
Respond(t, st) ==
    /\ status' = st
    /\ history' = Push(history, t)
    /\ IF t \in CurCalls(history) /\ \A u \in CurCalls(history) : Complete(st, u)
       THEN /\ streaming' = TRUE
            /\ interrupted' = FALSE
            /\ \E l \in Loop : Idle(l) /\ Goto(l, Enter(l, "compile"))
       ELSE UNCHANGED <<streaming, interrupted, loop>>

-----------------------------------------------------------------------------
(* streamResponse *)

\* Something of an earlier turn is still under way.
Busy == (\E l \in Loop : ~Idle(l)) \/ byUser \cup applying # {}

\* sendInput and streamResponse up to resolveEditorContent: pending calls are
\* canceled, and the message goes after the history or replaces the one at k.
Submit(l, k) ==
    /\ ~streaming
    /\ Idle(l)
    /\ "resubmit" \in Races \/ ~Busy
    /\ k = Len(history) + 1 \/ (k \in DOMAIN history /\ history[k].role = "user")
    /\ Cardinality({i \in 1 .. k - 1 : history[i].role = "user"}) < Messages
    /\ history' = SubSeq(history, 1, k - 1) \o <<User, Assistant>>
    /\ status' = Forget(Mark(status, Pending(history, status), "canceled"), history')
    /\ streaming' = TRUE
    /\ Goto(l, [IdleLoop EXCEPT !.pc = "resolve", !.input = k])
    /\ interrupted' = FALSE
    /\ UNCHANGED <<byUser, applying, kind>>

\* updateHistoryItemAtIndex at the index taken before the await, whatever stands
\* there now; a missing first message is created. Then the turn loop begins.
Resolve(l) ==
    LET k == loop[l].input IN
    /\ At(l, "resolve")
    /\ history' = IF k \in DOMAIN history
                  THEN [history EXCEPT ![k] =
                          [User EXCEPT !.calls = IF history[k].role = "tool" THEN {}
                                                 ELSE history[k].calls]]
                  ELSE IF k = 1 THEN <<User>> ELSE history
    /\ EndTurn(l, FALSE)
    /\ UNCHANGED <<status, streaming, byUser, applying, kind, interrupted>>

\* An error before or in the model's answer; errors of tools are ToolThrows.
LoopFails(l) ==
    /\ loop[l].pc \in {"resolve", "compile", "stream"}
    /\ Fail(l)
    /\ UNCHANGED <<byUser, applying, kind>>

-----------------------------------------------------------------------------
(* streamNormalInput: one iteration up to the end of the model's answer. *)

\* llm/compileChat answers; the loop captures the aborter of this moment, also
\* when the turn was stopped meanwhile.
Compile(l) ==
    /\ At(l, "compile")
    /\ Len(history) <= MaxLength
    /\ Goto(l, Enter(l, "stream"))
    /\ UNCHANGED <<history, status, streaming, byUser, applying, kind, interrupted>>

\* "Not enough context".
CompileTooLong(l) ==
    /\ At(l, "compile")
    /\ GiveUp(l)
    /\ UNCHANGED <<byUser, applying, kind>>

\* The first chunk after a stop makes the loop abort whatever aborter there is
\* now, and leave through processToolCalls.
ChunkAfterStop(l) ==
    /\ At(l, "stream")
    /\ ~streaming
    /\ loop' = AbortAll([loop EXCEPT ![l] = IdleLoop])
    /\ UNCHANGED <<history, status, streaming, byUser, applying, kind, interrupted>>

\* streamUpdate with text.
Text(l) ==
    LET h == Answering(history) IN
    /\ At(l, "stream")
    /\ streaming
    /\ history # <<>>
    /\ history' = [h EXCEPT ![Len(h)].text = TRUE]
    /\ UNCHANGED <<status, streaming, loop, byUser, applying, kind, interrupted>>

\* streamUpdate with the first delta of a call; deltas without text go to the
\* last message. Earlier calls whose arguments parse become "generated".
NewCall(l, t, whole, k) ==
    LET h == Answering(history)
        calls == h[Len(h)].calls
    IN
    /\ At(l, "stream")
    /\ streaming
    /\ history # <<>>
    /\ status[t] = "none" /\ \A u \in Call : u < t => status[u] # "none"
    /\ whole \subseteq {u \in calls : status[u] = "generating"}
    /\ history' = [h EXCEPT ![Len(h)].calls = @ \cup {t}]
    /\ status' = [Mark(status, whole, "generated") EXCEPT ![t] = "generating"]
    /\ kind' = [kind EXCEPT ![t] = k]
    /\ Goto(l, [loop[l] EXCEPT !.batch = @ \cup {t}])
    /\ UNCHANGED <<streaming, byUser, applying, interrupted>>

\* Mutant of More: the place is looked up in the current calls (findAllCurToolCalls)
\* and not in the last message.
MoreCurrent(l, t) ==
    /\ At(l, "stream")
    /\ streaming
    /\ history # <<>>
    /\ t \in CurCalls(history) /\ \A u \in CurCalls(history) : u <= t
    /\ status[t] # "generating"
    /\ status' = [status EXCEPT ![t] = "generating"]
    /\ UNCHANGED <<history, streaming, loop, byUser, applying, kind, interrupted>>

\* A later delta makes a call of the last message "generating" again, whatever has
\* become of it: the call of this answer whose id it has or, when it has none, the
\* last call there is.
More(l, t) ==
    LET last == history[Len(history)] IN
    /\ At(l, "stream")
    /\ streaming
    /\ history # <<>>
    /\ last.role = "assistant" /\ t \in last.calls
    /\ t \in loop[l].batch \/ \A u \in last.calls : u <= t
    /\ status[t] # "generating"
    /\ status' = [status EXCEPT ![t] = "generating"]
    /\ UNCHANGED <<history, streaming, loop, byUser, applying, kind, interrupted>>

\* The answer ends, or is cut short by a chunk after a stop, with a call in the
\* reasoning: removeLastAssistantMessages, and ask again with the same aborter.
Retry(l) ==
    LET n == Len(history) IN
    /\ At(l, "stream")
    /\ loop[l].again < Restarts
    /\ history # <<>>
    /\ history[n].role = "assistant"
    /\ history' = SubSeq(history, 1, n - 1)
    /\ status' = Forget(status, history')
    /\ \E lp \in {loop} \cup IF streaming THEN {} ELSE {AbortAll(loop)} :
        loop' = [lp EXCEPT ![l].batch = {}, ![l].again = @ + 1]
    /\ UNCHANGED <<streaming, byUser, applying, kind, interrupted>>

StreamEnd(l) ==
    /\ At(l, "stream")
    /\ EndIteration(l, status)
    /\ UNCHANGED <<history, byUser, applying, kind, interrupted>>

\* A "premature close" marks the current calls, whatever has become of them.
PrematureClose(l) ==
    /\ At(l, "stream")
    /\ CurCalls(history) # {}
    /\ EndIteration(l, Mark(status, CurCalls(history), "errored"))
    /\ UNCHANGED <<history, byUser, applying, kind, interrupted>>

Unauthorized(l) ==
    /\ At(l, "stream")
    /\ Goto(l, [loop[l] EXCEPT !.pc = "refresh"])
    /\ UNCHANGED <<history, status, streaming, byUser, applying, kind, interrupted>>

\* Mutant of RefreshOk: retryCount is not incremented.
RefreshOkForever(l) ==
    /\ At(l, "refresh")
    /\ Goto(l, [loop[l] EXCEPT !.pc = "stream"])
    /\ UNCHANGED <<history, status, streaming, byUser, applying, kind, interrupted>>

\* Mutant of RefreshOk: retryCount is not compared with maxRetries.
RefreshOkUnbounded(l) ==
    /\ At(l, "refresh")
    /\ Goto(l, [loop[l] EXCEPT !.pc = "stream", !.tries = @ + 1])
    /\ UNCHANGED <<history, status, streaming, byUser, applying, kind, interrupted>>

\* Ask again with the same aborter; out of retries the answer is what there is.
RefreshOk(l) ==
    LET tries == loop[l].tries + 1 IN
    /\ At(l, "refresh")
    /\ \/ /\ tries < Refreshes
          /\ Goto(l, [loop[l] EXCEPT !.pc = "stream", !.tries = tries])
          /\ UNCHANGED <<status, streaming>>
       \/ /\ tries >= Refreshes
          /\ EndIteration(l, status)
    /\ UNCHANGED <<history, byUser, applying, kind, interrupted>>

RefreshFails(l) ==
    /\ At(l, "refresh")
    /\ GiveUp(l)
    /\ UNCHANGED <<byUser, applying, kind>>

-----------------------------------------------------------------------------
(* processToolCalls, after its first await. *)

\* preprocessToolCalls: some of the pending calls turn out to be invalid.
Prep(l) ==
    /\ At(l, "prep")
    /\ \E bad \in SUBSET loop[l].todo : status' = Mark(status, bad, "errored")
    /\ Goto(l, IF Stopped(l) THEN IdleLoop
               ELSE [loop[l] EXCEPT !.pc = "policy",
                                    !.todo = Pending(history, status')])
    /\ UNCHANGED <<history, streaming, byUser, applying, kind, interrupted>>

\* evaluateToolPolicies: what core answers for the arguments may be stricter than
\* the base policy, never more lenient; disabled calls become errors. With
\* nothing judged every call of the iteration is reported.
Policy(l) ==
    LET todo == loop[l].todo IN
    /\ At(l, "policy")
    /\ \E dynamic \in [todo -> ToolPolicy] :
        LET says(p) == {t \in todo : evaluateToolPolicy(kind[t], dynamic[t]) = p}
            st == Mark(status, says("off"), "errored")
        IN
        \/ /\ Stopped(l)
           /\ Goto(l, IdleLoop)
           /\ status' = st
           /\ UNCHANGED <<history, streaming>>
        \/ /\ ~Stopped(l) /\ todo = {}
           /\ Report(l, loop[l].batch)
           /\ UNCHANGED <<status, streaming>>
        \/ /\ ~Stopped(l) /\ todo # {}
           /\ Walk(l, todo \ says("off"), says("ask"), FALSE, st)
           /\ UNCHANGED history
    /\ UNCHANGED <<byUser, applying, kind, interrupted>>

\* The tool answers, well or with an error; the message is added and the session
\* saved. A client edit tool only opens a diff, and the loop leaves the rest.
ToolReturns(l) ==
    /\ At(l, "exec")
    /\ \E t \in loop[l].cur :
        \/ /\ \/ kind[t] # "edit" /\ status' = Mark(status, {t}, "done")
              \/ status' = Mark(status, {t}, "errored")
           /\ history' = Push(history, t)
           /\ Goto(l, [loop[l] EXCEPT !.pc = "save", !.cur = {}])
           /\ UNCHANGED <<streaming, applying>>
        \/ /\ kind[t] = "edit"
           /\ applying' = applying \cup {t}
           /\ streaming' = FALSE
           /\ Goto(l, IdleLoop)
           /\ UNCHANGED <<history, status>>
    /\ UNCHANGED <<byUser, kind, interrupted>>

\* The request tools/call itself fails: the call stays as it is.
ToolThrows(l) ==
    /\ At(l, "exec")
    /\ \E t \in loop[l].cur : kind[t] # "edit"
    /\ Fail(l)
    /\ UNCHANGED <<byUser, applying, kind>>

Save(l) ==
    /\ At(l, "save")
    /\ Walk(l, loop[l].todo, loop[l].asks, loop[l].ret, status)
    /\ UNCHANGED <<history, byUser, applying, kind, interrupted>>

Fold(l) ==
    /\ At(l, "fold")
    /\ Report(l, loop[l].todo)
    /\ UNCHANGED <<status, streaming, byUser, applying, kind, interrupted>>

-----------------------------------------------------------------------------
(* The user's gestures and the editor's answers. *)

\* The buttons are hidden while a turn is streaming; the shortcuts are not, and
\* go to the first pending call.
MayAnswer(t) ==
    /\ t \in Pending(history, status)
    /\ ~streaming \/ ("shortcut" \in Races /\ \A u \in Pending(history, status) : t <= u)

\* callToolById
Accept(t) ==
    /\ MayAnswer(t)
    /\ status' = Mark(status, {t}, "calling")
    /\ byUser' = byUser \cup {t}
    /\ UNCHANGED <<history, streaming, loop, applying, kind, interrupted>>

UserToolReturns(t) ==
    /\ t \in byUser
    /\ byUser' = byUser \ {t}
    /\ \/ /\ kind[t] # "edit"
          /\ Respond(t, Mark(status, {t}, "done"))
          /\ UNCHANGED applying
       \/ /\ Respond(t, Mark(status, {t}, "errored"))
          /\ UNCHANGED applying
       \/ /\ kind[t] = "edit"
          /\ applying' = applying \cup {t}
          /\ streaming' = FALSE
          /\ UNCHANGED <<history, status, loop, interrupted>>
    /\ UNCHANGED <<kind>>

\* Nobody catches what callToolById throws.
UserToolThrows(t) ==
    /\ t \in byUser
    /\ kind[t] # "edit"
    /\ byUser' = byUser \ {t}
    /\ UNCHANGED <<history, status, streaming, loop, applying, kind, interrupted>>

\* handleApplyStateUpdate, "closed".
ApplyClosed(t) ==
    /\ t \in applying
    /\ applying' = applying \ {t}
    /\ \/ /\ Present(status, t) /\ status[t] # "canceled"
          /\ Respond(t, IF status[t] = "errored" THEN status
                        ELSE Mark(status, {t}, "done"))
       \/ /\ ~Present(status, t) \/ status[t] = "canceled"
          /\ UNCHANGED <<history, status, streaming, loop, interrupted>>
    /\ UNCHANGED <<byUser, kind>>

\* applyForEditTool: applyToFile failed.
ApplyFails(t) ==
    /\ t \in applying
    /\ status[t] = "calling"
    /\ applying' = applying \ {t}
    /\ Respond(t, Mark(status, {t}, "errored"))
    /\ UNCHANGED <<byUser, kind>>

\* cancelToolCallThunk
Reject(t) ==
    /\ t \in Pending(history, status)
    /\ ~streaming
    /\ Respond(t, Mark(status, {t}, "canceled"))
    /\ UNCHANGED <<byUser, applying, kind>>

\* The shortcut, and the rejection of a diff, only mark the call.
ShortcutReject(t) ==
    /\ \/ MayAnswer(t) /\ \A u \in Pending(history, status) : t <= u
       \/ t \in applying /\ ~streaming /\ Pending(history, status) = {}
    /\ Present(status, t) /\ status[t] # "canceled"
    /\ status' = Mark(status, {t}, "canceled")
    /\ UNCHANGED <<history, streaming, loop, byUser, applying, kind, interrupted>>

Halted == [l \in Loop |-> [loop[l] EXCEPT !.halted = ~Idle(l)]]

Stop ==
    /\ streaming
    /\ CancelStream(Halted)
    /\ UNCHANGED <<byUser, applying, kind>>

NewSession ==
    /\ history # <<>>
    /\ history' = <<>>
    /\ status' = Forget(status, <<>>)
    /\ streaming' = FALSE
    /\ loop' = AbortAll(Halted)
    /\ interrupted' = TRUE
    /\ UNCHANGED <<byUser, applying, kind>>

-----------------------------------------------------------------------------
\* What a loop does by itself.
LoopStep(l) ==
    \/ Resolve(l) \/ LoopFails(l)
    \/ Compile(l) \/ CompileTooLong(l) \/ ChunkAfterStop(l)
    \/ StreamEnd(l) \/ PrematureClose(l) \/ Unauthorized(l)
    \/ RefreshOk(l) \/ RefreshFails(l)
    \/ Prep(l) \/ Policy(l) \/ ToolReturns(l) \/ ToolThrows(l) \/ Save(l) \/ Fold(l)

\* Chunks of an answer, of which there may be any number.
Chunk(l) ==
    \/ Text(l) \/ Retry(l)
    \/ \E t \in Call : More(l, t)
    \/ \E t \in Call, whole \in SUBSET Call, k \in ToolPolicy \cup {"edit"} :
        NewCall(l, t, whole, k)

Next ==
    \/ \E l \in Loop : LoopStep(l) \/ Chunk(l)
    \/ \E l \in Loop : \E k \in 1 .. Len(history) + 1 : Submit(l, k)
    \/ \E t \in Call :
        \/ Accept(t) \/ UserToolReturns(t) \/ UserToolThrows(t)
        \/ ApplyClosed(t) \/ ApplyFails(t) \/ Reject(t) \/ ShortcutReject(t)
    \/ Stop
    \/ NewSession

Spec == Init /\ [][Next]_vars

\* Requests are answered and timers fire; the user owes nothing.
Fairness == \A l \in Loop : WF_vars(LoopStep(l))

FairSpec == Spec /\ Fairness

-----------------------------------------------------------------------------
\* A call starts to run only if the settings of its tool allow it without
\* permission or the user has accepted it, whatever core says of its arguments
\* and however the loop and the user overtake each other (evaluateToolPolicy,
\* processToolCalls, callToolById).
OnlyPermittedRun ==
    [][\A t \in Call :
        status[t] # "calling" /\ status'[t] = "calling"
            => kind'[t] \in {"edit", "free"} \/ t \in byUser']_vars

\* A tool message stands after the assistant message that made its call, with
\* nothing but other tool messages between them, whatever is stopped, sent again
\* or answered late (streamResponseAfterToolCall, clearDanglingMessages).
NoStrayToolMessage ==
    \A i \in DOMAIN history : history[i].role = "tool" =>
        \E j \in 1 .. i - 1 :
            /\ history[j].role = "assistant"
            /\ history[i].calls \subseteq history[j].calls
            /\ \A m \in j + 1 .. i - 1 : history[m].role = "tool"

\* A call that was run, or that the user refused or gave up, never waits for a
\* permission again, so that no call runs twice: when the next answer streams, a tool
\* message or another message stands after the one that made it, and no delta reaches
\* it by its place (applyToolCallDelta, streamUpdate, streamResponseAfterToolCall).
DecidedForGood ==
    [][\A t \in Call :
        status[t] \in {"calling", "done", "canceled"}
            => status'[t] \notin {"generating", "generated"}]_vars

\* The spinner is only shown while some loop is there to take it away: every way
\* out of a turn puts isStreaming back (setInactive, cancelStream).
NeverStuck == streaming => \E l \in Loop : ~Idle(l)

\* A turn does not just end with every call answered and the model not asked to
\* go on, unless it was stopped or failed: whichever of the loop, the user's
\* calls and the diffs ends last starts the model again (areAllToolsDoneStreaming).
NoForgottenTurn ==
    LET calls == CurCalls(history) IN
    /\ calls # {}
    /\ \A t \in calls : status[t] \in {"done", "errored"}
    /\ history[Len(history)].role = "tool"
    /\ \A l \in Loop : Idle(l)
    => interrupted

\* A loop whose turn was stopped comes to an end, unless a tool that was still
\* running takes the turn up again.
StopUnwinds == \A l \in Loop : ~Idle(l) /\ ~streaming ~> Idle(l) \/ streaming

\* What the comment in streamResponse.test.ts says of a stopped turn: what its
\* answer still brings is ignored.
HaltedNeverWrites ==
    \A l \in Loop : loop[l].halted /\ At(l, "stream") => ~streaming

=============================================================================
