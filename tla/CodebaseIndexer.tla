--------------------------- MODULE CodebaseIndexer ---------------------------
(***************************************************************************)
(* The codebase indexers of several editor windows that share one SQLite   *)
(* file (core/indexing/CodebaseIndexer.ts, IndexLock in refreshIndex.ts).  *)
(* A call is one invocation of refreshCodebaseIndex (a full refresh) or of *)
(* refreshCodebaseIndexFiles (a refresh of saved files); its program       *)
(* counter stands at the awaits, so calls of one window interleave there   *)
(* and calls of different windows interleave everywhere.                   *)
(* What a unit of work writes is the business of module IndexRefresh.      *)
(***************************************************************************)
EXTENDS Integers, Sequences

CONSTANTS
    Window,     \* editor windows; each has its own CodebaseIndexer
    Full,       \* invocations of refreshCodebaseIndex
    Files,      \* invocations of refreshCodebaseIndexFiles
    Home,       \* the window of each invocation
    Units,      \* units of work of a refresh: files walked, yields of indexFiles
    BeatEvery,  \* period of the timestamp interval (5 s), in clock ticks
    StaleAge,   \* a lock row older than this (10 s) is broken, in clock ticks
    Pausable,   \* bound: the windows whose user pauses and resumes indexing
    Closable,   \* bound: the windows that may be closed
    Failing,    \* bound: the calls that may meet an error
    Tardy,      \* bound: the windows whose timestamps may be late or fail
    NoCall      \* the controller the constructor makes, aborted at once

Call == Full \cup Files

ASSUME IndexerAssumption ==
    /\ Full \cap Files = {}
    /\ NoCall \notin Call
    /\ Home \in [Call -> Window]
    /\ Pausable \subseteq Window /\ Closable \subseteq Window
    /\ Failing \subseteq Call
    /\ Tardy \subseteq Window
    /\ Units \in Nat \ {0}
    /\ BeatEvery \in Nat \ {0}
    /\ StaleAge \in Nat
    /\ BeatEvery <= StaleAge

VARIABLES
    pc,          \* where each call stands
    work,        \* units each call has done
    late,        \* units each call did after its signal was aborted
    controller,  \* indexingCancellationController of each window
    aborted,     \* the controllers whose signal is aborted
    paused,      \* pauseToken of each window
    open,        \* the windows that have not been closed
    lockTable,   \* the rows of table indexing_lock, oldest first
    beat         \* ticks since each call last renewed the rows, capped past StaleAge

vars == <<pc, work, late, controller, aborted, paused, open, lockTable, beat>>

\* "check": in waitForDBIndex; "stale": it has found a row to break; "lock":
\* about to insert; "index" and "pausing": in refreshDirs (or refreshFiles);
\* "release": about to unlock; "finish": unlocked; "failed": threw.
PC == {"idle", "check", "stale", "lock", "index", "pausing", "release",
       "finish", "done", "failed"}

LockRow == [call : Full, age : 0 .. StaleAge + 1]

TypeOK ==
    /\ pc \in [Call -> PC]
    /\ work \in [Call -> 0 .. Units]
    /\ late \in [Call -> 0 .. Units]
    /\ controller \in [Window -> Call \cup {NoCall}]
    /\ aborted \in SUBSET (Call \cup {NoCall})
    /\ paused \in [Window -> BOOLEAN]
    /\ open \in [Window -> BOOLEAN]
    /\ lockTable \in Seq(LockRow)
    /\ beat \in [Call -> 0 .. StaleAge + 1]

Init ==
    /\ pc = [c \in Call |-> "idle"]
    /\ work = [c \in Call |-> 0]
    /\ late = [c \in Call |-> 0]
    /\ controller = [w \in Window |-> NoCall]
    /\ aborted = {NoCall}
    /\ paused = [w \in Window |-> FALSE]
    /\ open = [w \in Window |-> TRUE]
    /\ lockTable = <<>>
    /\ beat = [c \in Call |-> 0]

At(c, l) == pc[c] = l /\ open[Home[c]]
Goto(c, l) == pc' = [pc EXCEPT ![c] = l]

\* The calls whose timestamp interval is running.
Beating(c) == c \in Full /\ pc[c] \in {"index", "pausing"} /\ open[Home[c]]

-----------------------------------------------------------------------------
(* refreshCodebaseIndex *)

\* Mutant of StartFull: the refresh that is superseded is not aborted.
StartFullQuietly(c) ==
    /\ At(c, "idle")
    /\ controller' = [controller EXCEPT ![Home[c]] = c]
    /\ Goto(c, "check")
    /\ UNCHANGED <<work, late, aborted, paused, open, lockTable, beat>>

\* Abort whatever the window was doing and install a controller of its own.
StartFull(c) ==
    /\ At(c, "idle")
    /\ aborted' = aborted \cup {controller[Home[c]]}
    /\ controller' = [controller EXCEPT ![Home[c]] = c]
    /\ Goto(c, "check")
    /\ UNCHANGED <<work, late, paused, open, lockTable, beat>>

\* One isLocked of waitForDBIndex. A fresh row only makes it poll again.
SeeUnlocked(c) ==
    /\ At(c, "check")
    /\ lockTable = <<>>
    /\ Goto(c, "lock")
    /\ UNCHANGED <<work, late, controller, aborted, paused, open, lockTable, beat>>

\* Mutant of SeeStale: the age a row must have is never reached.
SeeStaleTooLate(c) ==
    /\ At(c, "check")
    /\ lockTable # <<>>
    /\ lockTable[1].age > StaleAge + 1
    /\ Goto(c, "stale")
    /\ UNCHANGED <<work, late, controller, aborted, paused, open, lockTable, beat>>

SeeStale(c) ==
    /\ At(c, "check")
    /\ lockTable # <<>>
    /\ lockTable[1].age > StaleAge
    /\ Goto(c, "stale")
    /\ UNCHANGED <<work, late, controller, aborted, paused, open, lockTable, beat>>

\* IndexLock.unlock deletes every locked row, whoever inserted it, also one
\* that came after isLocked had answered.
BreakStale(c) ==
    /\ At(c, "stale")
    /\ lockTable' = <<>>
    /\ Goto(c, "lock")
    /\ UNCHANGED <<work, late, controller, aborted, paused, open, beat>>

\* IndexLock.lock inserts a row without looking; the interval starts.
Lock(c) ==
    /\ At(c, "lock")
    /\ lockTable' = Append(lockTable, [call |-> c, age |-> 0])
    /\ beat' = [beat EXCEPT ![c] = 0]
    /\ Goto(c, "index")
    /\ UNCHANGED <<work, late, controller, aborted, paused, open>>

\* An SQLite error before the try block leaves the call with its controller
\* still installed and not aborted; one in the final unlock leaves the row too.
LockFails(c) ==
    /\ c \in Failing
    /\ \E l \in {"check", "stale", "lock", "release"} : At(c, l)
    /\ Goto(c, "failed")
    /\ UNCHANGED <<work, late, controller, aborted, paused, open, lockTable, beat>>

\* Mutant of UpdateTimestamp: the rows are not touched.
UpdateNothing(c) ==
    /\ Beating(c)
    /\ beat[c] >= BeatEvery
    /\ beat' = [beat EXCEPT ![c] = 0]
    /\ UNCHANGED <<pc, work, late, controller, aborted, paused, open, lockTable>>

\* The interval callback: updateTimestamp touches every locked row. Nobody awaits
\* it: one that fails (the file is busy) or comes late (the event loop is blocked)
\* leaves the rows to age, and a later one renews them.
UpdateTimestamp(c) ==
    /\ Beating(c)
    /\ beat[c] >= BeatEvery
    /\ beat' = [beat EXCEPT ![c] = 0]
    /\ lockTable' = [i \in DOMAIN lockTable |-> [lockTable[i] EXCEPT !.age = 0]]
    /\ UNCHANGED <<pc, work, late, controller, aborted, paused, open>>

\* Where a refresh that has done so many units goes when nothing holds it up.
Onward(c, done) ==
    IF done < Units THEN "index"
    ELSE IF c \in Full THEN "release" ELSE "finish"

\* Mutant of CountUnit: a unit is done twice.
CountUnitTwice(c, does) ==
    /\ work' = [work EXCEPT ![c] = @ + 2]
    /\ UNCHANGED late

CountUnit(c, does) ==
    /\ work' = [work EXCEPT ![c] = @ + 1]
    /\ late' = [late EXCEPT ![c] = IF does /\ c \in aborted THEN @ + 1 ELSE @]

\* Mutant of IndexUnit: the abort signal is not looked at.
IndexUnitDeaf(c) ==
    /\ At(c, "index")
    /\ CountUnit(c, TRUE)
    /\ Goto(c, IF paused[Home[c]] THEN "pausing" ELSE Onward(c, work[c] + 1))
    /\ UNCHANGED <<controller, aborted, paused, open, lockTable, beat>>

\* A unit of refreshDirs, then the tests that follow it in the loop: first the
\* abort signal, then the pause token.
IndexUnit(c) ==
    /\ At(c, "index")
    /\ CountUnit(c, TRUE)
    /\ Goto(c, IF c \in aborted THEN "release"
               ELSE IF paused[Home[c]] THEN "pausing" ELSE Onward(c, work[c] + 1))
    /\ UNCHANGED <<controller, aborted, paused, open, lockTable, beat>>

\* Mutant of IndexFails: the error leaves without the unlock.
IndexFailsLocked(c) ==
    /\ c \in Failing
    /\ At(c, "index")
    /\ Goto(c, "finish")
    /\ UNCHANGED <<work, late, controller, aborted, paused, open, lockTable, beat>>

\* An error inside the try block is reported and the lock is still released.
IndexFails(c) ==
    /\ c \in Failing
    /\ At(c, "index")
    /\ Goto(c, "release")
    /\ UNCHANGED <<work, late, controller, aborted, paused, open, lockTable, beat>>

\* yieldUpdateAndPause looks at the pause token only, never at the signal.
Resume(c) ==
    /\ At(c, "pausing")
    /\ ~paused[Home[c]]
    /\ Goto(c, Onward(c, work[c]))
    /\ UNCHANGED <<work, late, controller, aborted, paused, open, lockTable, beat>>

Unlock(c) ==
    /\ At(c, "release")
    /\ lockTable' = <<>>
    /\ Goto(c, "finish")
    /\ UNCHANGED <<work, late, controller, aborted, paused, open, beat>>

\* Mutant of AbortOwn: the controller stays as it is.
AbortNothing(c) == UNCHANGED aborted

\* The tail both kinds of refresh share: abort the controller if it is ours.
AbortOwn(c) ==
    aborted' = IF controller[Home[c]] = c THEN aborted \cup {c} ELSE aborted

Finish(c) ==
    /\ At(c, "finish")
    /\ AbortOwn(c)
    /\ Goto(c, "done")
    /\ UNCHANGED <<work, late, controller, paused, open, lockTable, beat>>

-----------------------------------------------------------------------------
(* refreshCodebaseIndexFiles *)

\* While another refresh of the window is under way the call is dropped.
DropFiles(c) ==
    /\ At(c, "idle")
    /\ controller[Home[c]] \notin aborted
    /\ Goto(c, "done")
    /\ UNCHANGED <<work, late, controller, aborted, paused, open, lockTable, beat>>

StartFiles(c) ==
    /\ At(c, "idle")
    /\ controller[Home[c]] \in aborted
    /\ controller' = [controller EXCEPT ![Home[c]] = c]
    /\ Goto(c, "index")
    /\ UNCHANGED <<work, late, aborted, paused, open, lockTable, beat>>

\* One file of refreshFiles. refreshFile skips it when paused, an error ends
\* the loop, and the loop tests the pause token and never the signal.
FileUnit(c) ==
    /\ At(c, "index")
    /\ CountUnit(c, ~paused[Home[c]])
    /\ \/ Goto(c, IF paused[Home[c]] THEN "pausing" ELSE Onward(c, work[c] + 1))
       \/ c \in Failing /\ Goto(c, "finish")
    /\ UNCHANGED <<controller, aborted, paused, open, lockTable, beat>>

-----------------------------------------------------------------------------
(* The environment: the user, the clock and the windows. *)

SetPaused(w) ==
    /\ open[w] /\ w \in Pausable
    /\ paused' = [paused EXCEPT ![w] = ~@]
    /\ UNCHANGED <<pc, work, late, controller, aborted, open, lockTable, beat>>

\* A closed window runs nothing more, and its row stays.
CloseWindow(w) ==
    /\ open[w] /\ w \in Closable
    /\ open' = [open EXCEPT ![w] = FALSE]
    /\ UNCHANGED <<pc, work, late, controller, aborted, paused, lockTable, beat>>

\* One tick more, up to the age at which a row is stale.
Older(t) == IF t > StaleAge THEN t ELSE t + 1

\* Time passes, in a tardy window also when a timestamp is overdue.
Tick ==
    /\ \A c \in Call : Beating(c) /\ beat[c] >= BeatEvery => Home[c] \in Tardy
    /\ lockTable # <<>>
    /\ lockTable' = [i \in DOMAIN lockTable |-> [lockTable[i] EXCEPT !.age = Older(@)]]
    /\ beat' = [c \in Call |-> IF Beating(c) THEN Older(beat[c]) ELSE 0]
    /\ UNCHANGED <<pc, work, late, controller, aborted, paused, open>>

-----------------------------------------------------------------------------
\* What a call does by itself once it has been made.
FullStep(c) ==
    \/ SeeUnlocked(c) \/ SeeStale(c) \/ BreakStale(c) \/ Lock(c)
    \/ IndexUnit(c) \/ Resume(c) \/ Unlock(c) \/ Finish(c)
FilesStep(c) == FileUnit(c) \/ Resume(c) \/ Finish(c)

Next ==
    \/ \E c \in Full :
        \/ StartFull(c) \/ FullStep(c) \/ UpdateTimestamp(c)
        \/ LockFails(c) \/ IndexFails(c)
    \/ \E c \in Files : StartFiles(c) \/ DropFiles(c) \/ FilesStep(c)
    \/ \E w \in Window : SetPaused(w) \/ CloseWindow(w)
    \/ Tick

Spec == Init /\ [][Next]_vars

\* Promises settle and timers fire; nobody has to call, pause, fail or close.
Fairness ==
    /\ \A c \in Full : WF_vars(FullStep(c)) /\ WF_vars(UpdateTimestamp(c))
    /\ \A c \in Files : WF_vars(FilesStep(c))
    /\ WF_vars(Tick)

FairSpec == Spec /\ Fairness

-----------------------------------------------------------------------------
\* A call that got past its start and has not ended.
Running(c) == pc[c] \notin {"idle", "done"} /\ open[Home[c]]

\* A refresh that is superseded has been told to stop: within a window the only
\* running call whose signal is not aborted is the owner of the controller
\* (refreshCodebaseIndex, refreshCodebaseIndexFiles).
OnlyOwnerUnaborted ==
    \A c \in Call : Running(c) /\ c \notin aborted => controller[Home[c]] = c

\* Every row of indexing_lock belongs to a full refresh that will still delete
\* it, to one whose unlock threw, or to a closed window (IndexLock.lock and
\* unlock, with the errors of the try block in between).
NoOrphanRow ==
    \A i \in DOMAIN lockTable :
        LET c == lockTable[i].call IN
        At(c, "index") \/ At(c, "pausing") \/ At(c, "release")
        \/ pc[c] = "failed" \/ ~open[Home[c]]

\* A refresh that is indexing looks dead to waitForDBIndex only when it has let
\* more than StaleAge pass without renewing the rows, whoever inserted, renewed
\* or deleted rows meanwhile (the interval of refreshCodebaseIndex, updateTimestamp).
StaleMeansSilent ==
    \A i \in DOMAIN lockTable :
        LET c == lockTable[i].call IN
        lockTable[i].age > StaleAge /\ Beating(c) => beat[c] > StaleAge

\* An aborted full refresh stops after the unit it is in: its loop looks at the
\* signal after each unit (refreshDirs).
StopsWithinOneUnit == \A c \in Full : late[c] <= 1

\* When every refresh of a window has ended without an SQLite error, its
\* controller is aborted, so that the next saved file is indexed and not
\* dropped (the tails of both methods).
NotWedged ==
    \A w \in Window :
        (\A c \in Call : Home[c] = w => pc[c] \in {"idle", "done"})
            => controller[w] \in aborted

\* A window whose refresh waits for the lock gets it or fails in the end, also
\* when the window that holds it is closed, unless indexing stays paused
\* (waitForDBIndex, IndexLock.updateTimestamp).
LockIsGranted ==
    (\A w \in Window : <>[](~paused[w])) =>
        \A c \in Full : At(c, "check") ~> ~At(c, "check")

\* What the comment on waitForDBIndex asks of the lock: while one window
\* indexes, the others wait.
MutualExclusion ==
    \A c, d \in Full :
        /\ Home[c] # Home[d]
        /\ At(c, "index")
        => ~At(d, "index")

\* What waitForDBIndex reports as it unlocks ("is not being indexed"): no row a
\* waiter is about to delete is a fresh one of a refresh that is indexing.
BreaksOnlyDead ==
    \A c \in Full : At(c, "stale") =>
        \A i \in DOMAIN lockTable :
            lockTable[i].age > StaleAge \/ ~Beating(lockTable[i].call)

=============================================================================
