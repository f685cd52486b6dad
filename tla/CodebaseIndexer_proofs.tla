----------------------- MODULE CodebaseIndexer_proofs -----------------------
(***************************************************************************)
(* Theorems about CodebaseIndexer for any windows, calls and periods. The  *)
(* invariants below are inductive together; each lemma shows that a step   *)
(* preserves one of them, and the theorems collect the results.            *)
(***************************************************************************)
EXTENDS CodebaseIndexer, TLAPS

\* A refresh that indexes, or has not begun to, has units left to do.
Before == {"idle", "check", "stale", "lock", "index"}

CountsInv ==
    \A c \in Call :
        /\ pc[c] \in Before => work[c] < Units
        /\ late[c] <= work[c]

\* The timestamps: a row is no older than the last time its refresh renewed it.
FreshInv ==
    \A i \in DOMAIN lockTable :
        LET c == lockTable[i].call IN
        Beating(c) => lockTable[i].age <= beat[c]

\* A full refresh that goes on has done no unit after its abort.
PromptInv ==
    \A c \in Full :
        /\ late[c] <= 1
        /\ pc[c] \in Before \cup {"pausing"} => late[c] = 0

\* A controller that is not aborted belongs to a call of its window under way.
OwnedInv ==
    \A w \in Window : controller[w] \notin aborted =>
        /\ controller[w] \in Call
        /\ Home[controller[w]] = w
        /\ pc[controller[w]] \notin {"idle", "done"}

-----------------------------------------------------------------------------
(* Lists of rows. *)

\* Replacing the ages of all rows, as updateTimestamp does, leaves a list of rows.
LEMMA AgesSet ==
    ASSUME NEW s \in Seq(LockRow), NEW t, DOMAIN t = DOMAIN s,
           t = [i \in DOMAIN s |-> t[i]],
           \A i \in DOMAIN s : t[i] \in LockRow
    PROVE  t \in Seq(LockRow)
<1>1. DOMAIN s = 1 .. Len(s) /\ Len(s) \in Nat
    OBVIOUS
<1>2. t \in [1 .. Len(s) -> LockRow]
    BY <1>1
<1>3. QED
    BY <1>1, <1>2

\* A row keeps its type and its refresh when its age is set to one within the range.
LEMMA RowAged ==
    ASSUME NEW s \in Seq(LockRow), NEW i \in DOMAIN s, NEW a \in 0 .. StaleAge + 1
    PROVE  /\ [s[i] EXCEPT !.age = a] \in LockRow
           /\ [s[i] EXCEPT !.age = a].call = s[i].call
           /\ [s[i] EXCEPT !.age = a].age = a
<1>1. s[i] \in LockRow
    OBVIOUS
<1>2. QED
    BY <1>1 DEF LockRow

\* The interval callback renews every row (IndexLock.updateTimestamp).
LEMMA RowsRenewed ==
    ASSUME TypeOK, NEW c, UpdateTimestamp(c)
    PROVE  /\ lockTable' \in Seq(LockRow)
           /\ DOMAIN lockTable' = DOMAIN lockTable
           /\ \A i \in DOMAIN lockTable :
                /\ lockTable'[i].call = lockTable[i].call
                /\ lockTable'[i].age = 0
<1> USE DEF UpdateTimestamp
<1>1. lockTable \in Seq(LockRow)
    BY DEF TypeOK
<1>2. 0 \in 0 .. StaleAge + 1
    BY IndexerAssumption
<1>3. \A i \in DOMAIN lockTable : [lockTable[i] EXCEPT !.age = 0] \in LockRow
    BY <1>1, <1>2, RowAged
<1>4. lockTable' \in Seq(LockRow)
    BY <1>1, <1>3, AgesSet
<1>5. ASSUME NEW i \in DOMAIN lockTable
      PROVE  lockTable'[i].call = lockTable[i].call /\ lockTable'[i].age = 0
    <2>1. lockTable'[i] = [lockTable[i] EXCEPT !.age = 0]
        OBVIOUS
    <2>2. lockTable[i] \in LockRow
        BY <1>1
    <2>3. QED
        BY <2>1, <2>2 DEF LockRow
<1>6. QED
    BY <1>4, <1>5

\* What the clock does to an age or to the ticks since a beat.
LEMMA OlderIs ==
    ASSUME NEW t \in 0 .. StaleAge + 1
    PROVE  /\ Older(t) \in 0 .. StaleAge + 1
           /\ \A u \in 0 .. t : Older(u) <= Older(t)
BY IndexerAssumption DEF Older

\* A tick of the clock makes every row older.
LEMMA RowsTicked ==
    ASSUME TypeOK, Tick
    PROVE  /\ lockTable' \in Seq(LockRow)
           /\ DOMAIN lockTable' = DOMAIN lockTable
           /\ \A i \in DOMAIN lockTable :
                /\ lockTable'[i].call = lockTable[i].call
                /\ lockTable'[i].age = Older(lockTable[i].age)
<1>1. lockTable \in Seq(LockRow)
    BY DEF TypeOK
<1>2. ASSUME NEW i \in DOMAIN lockTable
      PROVE  Older(lockTable[i].age) \in 0 .. StaleAge + 1
    <2>1. lockTable[i] \in LockRow
        BY <1>1
    <2>2. lockTable[i].age \in 0 .. StaleAge + 1
        BY <2>1 DEF LockRow
    <2>3. QED
        BY <2>2, OlderIs
<1>3. lockTable' = [i \in DOMAIN lockTable |->
                      [lockTable[i] EXCEPT !.age = Older(lockTable[i].age)]]
    BY DEF Tick
<1>4. \A i \in DOMAIN lockTable :
        [lockTable[i] EXCEPT !.age = Older(lockTable[i].age)] \in LockRow
    BY <1>1, <1>2, RowAged
<1>5. lockTable' \in Seq(LockRow) /\ DOMAIN lockTable' = DOMAIN lockTable
    BY <1>1, <1>3, <1>4, AgesSet
<1>6. ASSUME NEW i \in DOMAIN lockTable
      PROVE  /\ lockTable'[i].call = lockTable[i].call
             /\ lockTable'[i].age = Older(lockTable[i].age)
    <2>1. lockTable'[i] = [lockTable[i] EXCEPT !.age = Older(lockTable[i].age)]
        BY <1>3
    <2>2. QED
        BY <1>1, <1>2, <2>1, RowAged
<1>7. QED
    BY <1>5, <1>6

-----------------------------------------------------------------------------
(* Type correctness. *)

\* Initially every variable has its type and every call its units ahead of it.
LEMMA InitTyped == Init => TypeOK /\ CountsInv
<1> SUFFICES ASSUME Init PROVE TypeOK /\ CountsInv
    OBVIOUS
<1>1. TypeOK
    BY IndexerAssumption DEF Init, TypeOK, PC, Call
<1>2. CountsInv
    BY IndexerAssumption DEF Init, CountsInv, Before
<1>3. QED
    BY <1>1, <1>2

\* No step takes a variable out of its type (all handlers of CodebaseIndexer).
LEMMA StepTyped == TypeOK /\ CountsInv /\ [Next]_vars => TypeOK'
<1> SUFFICES ASSUME TypeOK, CountsInv, [Next]_vars PROVE TypeOK'
    OBVIOUS
<1> USE IndexerAssumption DEF TypeOK, At, Goto, PC
<1>1. ASSUME NEW c \in Full, StartFull(c) PROVE TypeOK'
    BY <1>1 DEF StartFull, Call
<1>2. ASSUME NEW c \in Full, SeeUnlocked(c) PROVE TypeOK'
    BY <1>2 DEF SeeUnlocked, Call
<1>3. ASSUME NEW c \in Full, SeeStale(c) PROVE TypeOK'
    BY <1>3 DEF SeeStale, Call
<1>4. ASSUME NEW c \in Full, BreakStale(c) PROVE TypeOK'
    BY <1>4 DEF BreakStale, Call
<1>5. ASSUME NEW c \in Full, Lock(c) PROVE TypeOK'
    <2>1. [call |-> c, age |-> 0] \in LockRow
        BY DEF LockRow
    <2>2. lockTable' \in Seq(LockRow)
        BY <1>5, <2>1 DEF Lock
    <2>3. QED
        BY <1>5, <2>2 DEF Lock, Call
<1>6. ASSUME NEW c \in Full, IndexUnit(c) PROVE TypeOK'
    BY <1>6 DEF IndexUnit, CountUnit, Onward, CountsInv, Before, Call
<1>7. ASSUME NEW c \in Call, Resume(c) PROVE TypeOK'
    BY <1>7 DEF Resume, Onward, Call
<1>8. ASSUME NEW c \in Full, Unlock(c) PROVE TypeOK'
    BY <1>8 DEF Unlock, Call
<1>9. ASSUME NEW c \in Call, Finish(c) PROVE TypeOK'
    BY <1>9 DEF Finish, AbortOwn, Call
<1>10. ASSUME NEW c \in Full, UpdateTimestamp(c) PROVE TypeOK'
    <2>1. lockTable' \in Seq(LockRow)
        BY <1>10, RowsRenewed
    <2>2. QED
        BY <1>10, <2>1 DEF UpdateTimestamp, Call
<1>11. ASSUME NEW c \in Full, LockFails(c) PROVE TypeOK'
    BY <1>11 DEF LockFails, Call
<1>12. ASSUME NEW c \in Full, IndexFails(c) PROVE TypeOK'
    BY <1>12 DEF IndexFails, Call
<1>13. ASSUME NEW c \in Files, StartFiles(c) PROVE TypeOK'
    BY <1>13 DEF StartFiles, Call
<1>14. ASSUME NEW c \in Files, DropFiles(c) PROVE TypeOK'
    BY <1>14 DEF DropFiles, Call
<1>15. ASSUME NEW c \in Files, FileUnit(c) PROVE TypeOK'
    <2>1. c \in Call /\ work[c] < Units
        BY <1>15 DEF FileUnit, CountsInv, Before, Call
    <2>2. work' = [work EXCEPT ![c] = @ + 1]
        BY <1>15 DEF FileUnit, CountUnit
    <2>3. late' = late \/ late' = [late EXCEPT ![c] = @ + 1]
        BY <1>15, <2>1 DEF FileUnit, CountUnit
    <2>4. \E l \in PC : pc' = [pc EXCEPT ![c] = l]
        BY <1>15 DEF FileUnit, Onward
    <2>5. UNCHANGED <<controller, aborted, paused, open, lockTable, beat>>
        BY <1>15 DEF FileUnit
    <2>6. late[c] + 1 \in 0 .. Units
        BY <2>1 DEF CountsInv
    <2>7. work' \in [Call -> 0 .. Units]
        BY <2>1, <2>2
    <2>8. late' \in [Call -> 0 .. Units]
        BY <2>1, <2>3, <2>6
    <2>9. pc' \in [Call -> PC]
        BY <2>1, <2>4
    <2>10. QED
        BY <2>5, <2>7, <2>8, <2>9
<1>16. ASSUME NEW w \in Window, SetPaused(w) PROVE TypeOK'
    <2>1. paused' \in [Window -> BOOLEAN]
        BY <1>16, Zenon DEF SetPaused
    <2>2. QED
        BY <1>16, <2>1 DEF SetPaused, Call
<1>17. ASSUME NEW w \in Window, CloseWindow(w) PROVE TypeOK'
    BY <1>17 DEF CloseWindow, Call
<1>18. CASE Tick
    <2>1. lockTable' \in Seq(LockRow)
        BY <1>18, RowsTicked
    <2>2. beat' \in [Call -> 0 .. StaleAge + 1]
        BY <1>18, OlderIs DEF Tick
    <2>3. QED
        BY <1>18, <2>1, <2>2 DEF Tick
<1>19. CASE UNCHANGED vars
    BY <1>19 DEF vars
<1>20. QED
    BY <1>1, <1>2, <1>3, <1>4, <1>5, <1>6, <1>7, <1>8, <1>9, <1>10,
       <1>11, <1>12, <1>13, <1>14, <1>15, <1>16, <1>17, <1>18, <1>19
    DEF Next, FullStep, FilesStep, Call

\* A refresh never counts more units than it has (refreshDirs, refreshFiles).
LEMMA StepCounts ==
    TypeOK /\ CountsInv /\ [Next]_vars => CountsInv'
<1> SUFFICES ASSUME TypeOK, CountsInv, [Next]_vars PROVE CountsInv'
    OBVIOUS
<1> USE IndexerAssumption DEF TypeOK, At, Goto, PC, Call, CountsInv, Before
<1>1. ASSUME NEW c \in Full, StartFull(c) PROVE CountsInv'
    BY <1>1 DEF StartFull
<1>2. ASSUME NEW c \in Full, SeeUnlocked(c) PROVE CountsInv'
    BY <1>2 DEF SeeUnlocked
<1>3. ASSUME NEW c \in Full, SeeStale(c) PROVE CountsInv'
    BY <1>3 DEF SeeStale
<1>4. ASSUME NEW c \in Full, BreakStale(c) PROVE CountsInv'
    BY <1>4 DEF BreakStale
<1>5. ASSUME NEW c \in Full, Lock(c) PROVE CountsInv'
    BY <1>5 DEF Lock
<1>6. ASSUME NEW c \in Full, IndexUnit(c) PROVE CountsInv'
    BY <1>6 DEF IndexUnit, CountUnit, Onward
<1>7. ASSUME NEW c \in Full, Unlock(c) PROVE CountsInv'
    BY <1>7 DEF Unlock
<1>8. ASSUME NEW c \in Full, UpdateTimestamp(c) PROVE CountsInv'
    BY <1>8 DEF UpdateTimestamp
<1>9. ASSUME NEW c \in Full, LockFails(c) PROVE CountsInv'
    BY <1>9 DEF LockFails
<1>10. ASSUME NEW c \in Full, IndexFails(c) PROVE CountsInv'
    BY <1>10 DEF IndexFails
<1>11. ASSUME NEW c \in Call, Resume(c) PROVE CountsInv'
    BY <1>11 DEF Resume, Onward
<1>12. ASSUME NEW c \in Call, Finish(c) PROVE CountsInv'
    BY <1>12 DEF Finish, AbortOwn
<1>13. ASSUME NEW c \in Files, StartFiles(c) PROVE CountsInv'
    BY <1>13 DEF StartFiles
<1>14. ASSUME NEW c \in Files, DropFiles(c) PROVE CountsInv'
    BY <1>14 DEF DropFiles
<1>15. ASSUME NEW c \in Files, FileUnit(c) PROVE CountsInv'
    BY <1>15 DEF FileUnit, CountUnit, Onward
<1>16. ASSUME NEW w \in Window, SetPaused(w) PROVE CountsInv'
    BY <1>16 DEF SetPaused
<1>17. ASSUME NEW w \in Window, CloseWindow(w) PROVE CountsInv'
    BY <1>17 DEF CloseWindow
<1>18. CASE Tick
    BY <1>18 DEF Tick
<1>19. CASE UNCHANGED vars
    BY <1>19 DEF vars
<1>20. QED
    BY <1>1, <1>2, <1>3, <1>4, <1>5, <1>6, <1>7, <1>8, <1>9, <1>10, <1>11,
       <1>12, <1>13, <1>14, <1>15, <1>16, <1>17, <1>18, <1>19
    DEF Next, FullStep, FilesStep, Call

\* A refresh starts only by aborting the owner of the controller, or when it is
\* aborted, so no second call of a window runs unaborted.
LEMMA StepOwner ==
    TypeOK /\ OnlyOwnerUnaborted /\ [Next]_vars => OnlyOwnerUnaborted'
<1> SUFFICES ASSUME TypeOK, OnlyOwnerUnaborted, [Next]_vars PROVE OnlyOwnerUnaborted'
    OBVIOUS
<1> USE IndexerAssumption DEF TypeOK, At, Goto, PC, Call, OnlyOwnerUnaborted, Running
<1>1. ASSUME NEW c \in Full, StartFull(c) PROVE OnlyOwnerUnaborted'
    BY <1>1 DEF StartFull
<1>2. ASSUME NEW c \in Full, SeeUnlocked(c) PROVE OnlyOwnerUnaborted'
    BY <1>2 DEF SeeUnlocked
<1>3. ASSUME NEW c \in Full, SeeStale(c) PROVE OnlyOwnerUnaborted'
    BY <1>3 DEF SeeStale
<1>4. ASSUME NEW c \in Full, BreakStale(c) PROVE OnlyOwnerUnaborted'
    BY <1>4 DEF BreakStale
<1>5. ASSUME NEW c \in Full, Lock(c) PROVE OnlyOwnerUnaborted'
    BY <1>5 DEF Lock
<1>6. ASSUME NEW c \in Full, IndexUnit(c) PROVE OnlyOwnerUnaborted'
    BY <1>6 DEF IndexUnit, CountUnit, Onward
<1>7. ASSUME NEW c \in Full, Unlock(c) PROVE OnlyOwnerUnaborted'
    BY <1>7 DEF Unlock
<1>8. ASSUME NEW c \in Full, UpdateTimestamp(c) PROVE OnlyOwnerUnaborted'
    BY <1>8 DEF UpdateTimestamp
<1>9. ASSUME NEW c \in Full, LockFails(c) PROVE OnlyOwnerUnaborted'
    BY <1>9 DEF LockFails
<1>10. ASSUME NEW c \in Full, IndexFails(c) PROVE OnlyOwnerUnaborted'
    BY <1>10 DEF IndexFails
<1>11. ASSUME NEW c \in Call, Resume(c) PROVE OnlyOwnerUnaborted'
    BY <1>11 DEF Resume, Onward
<1>12. ASSUME NEW c \in Call, Finish(c) PROVE OnlyOwnerUnaborted'
    BY <1>12 DEF Finish, AbortOwn
<1>13. ASSUME NEW c \in Files, StartFiles(c) PROVE OnlyOwnerUnaborted'
    BY <1>13 DEF StartFiles
<1>14. ASSUME NEW c \in Files, DropFiles(c) PROVE OnlyOwnerUnaborted'
    BY <1>14 DEF DropFiles
<1>15. ASSUME NEW c \in Files, FileUnit(c) PROVE OnlyOwnerUnaborted'
    BY <1>15 DEF FileUnit, CountUnit, Onward
<1>16. ASSUME NEW w \in Window, SetPaused(w) PROVE OnlyOwnerUnaborted'
    BY <1>16 DEF SetPaused
<1>17. ASSUME NEW w \in Window, CloseWindow(w) PROVE OnlyOwnerUnaborted'
    BY <1>17 DEF CloseWindow
<1>18. CASE Tick
    BY <1>18 DEF Tick
<1>19. CASE UNCHANGED vars
    BY <1>19 DEF vars
<1>20. QED
    BY <1>1, <1>2, <1>3, <1>4, <1>5, <1>6, <1>7, <1>8, <1>9, <1>10, <1>11,
       <1>12, <1>13, <1>14, <1>15, <1>16, <1>17, <1>18, <1>19
    DEF Next, FullStep, FilesStep, Call

\* The owner of a controller leaves it aborted when it ends.
LEMMA StepOwned ==
    TypeOK /\ OwnedInv /\ [Next]_vars => OwnedInv'
<1> SUFFICES ASSUME TypeOK, OwnedInv, [Next]_vars PROVE OwnedInv'
    OBVIOUS
<1> USE IndexerAssumption DEF TypeOK, At, Goto, PC, Call, OwnedInv
<1>1. ASSUME NEW c \in Full, StartFull(c) PROVE OwnedInv'
    BY <1>1 DEF StartFull
<1>2. ASSUME NEW c \in Full, SeeUnlocked(c) PROVE OwnedInv'
    BY <1>2 DEF SeeUnlocked
<1>3. ASSUME NEW c \in Full, SeeStale(c) PROVE OwnedInv'
    BY <1>3 DEF SeeStale
<1>4. ASSUME NEW c \in Full, BreakStale(c) PROVE OwnedInv'
    BY <1>4 DEF BreakStale
<1>5. ASSUME NEW c \in Full, Lock(c) PROVE OwnedInv'
    BY <1>5 DEF Lock
<1>6. ASSUME NEW c \in Full, IndexUnit(c) PROVE OwnedInv'
    BY <1>6 DEF IndexUnit, CountUnit, Onward
<1>7. ASSUME NEW c \in Full, Unlock(c) PROVE OwnedInv'
    BY <1>7 DEF Unlock
<1>8. ASSUME NEW c \in Full, UpdateTimestamp(c) PROVE OwnedInv'
    BY <1>8 DEF UpdateTimestamp
<1>9. ASSUME NEW c \in Full, LockFails(c) PROVE OwnedInv'
    BY <1>9 DEF LockFails
<1>10. ASSUME NEW c \in Full, IndexFails(c) PROVE OwnedInv'
    BY <1>10 DEF IndexFails
<1>11. ASSUME NEW c \in Call, Resume(c) PROVE OwnedInv'
    BY <1>11 DEF Resume, Onward
<1>12. ASSUME NEW c \in Call, Finish(c) PROVE OwnedInv'
    BY <1>12 DEF Finish, AbortOwn
<1>13. ASSUME NEW c \in Files, StartFiles(c) PROVE OwnedInv'
    BY <1>13 DEF StartFiles
<1>14. ASSUME NEW c \in Files, DropFiles(c) PROVE OwnedInv'
    BY <1>14 DEF DropFiles
<1>15. ASSUME NEW c \in Files, FileUnit(c) PROVE OwnedInv'
    BY <1>15 DEF FileUnit, CountUnit, Onward
<1>16. ASSUME NEW w \in Window, SetPaused(w) PROVE OwnedInv'
    BY <1>16 DEF SetPaused
<1>17. ASSUME NEW w \in Window, CloseWindow(w) PROVE OwnedInv'
    BY <1>17 DEF CloseWindow
<1>18. CASE Tick
    BY <1>18 DEF Tick
<1>19. CASE UNCHANGED vars
    BY <1>19 DEF vars
<1>20. QED
    BY <1>1, <1>2, <1>3, <1>4, <1>5, <1>6, <1>7, <1>8, <1>9, <1>10, <1>11,
       <1>12, <1>13, <1>14, <1>15, <1>16, <1>17, <1>18, <1>19
    DEF Next, FullStep, FilesStep, Call

\* A full refresh looks at its signal after every unit.
LEMMA StepPrompt ==
    TypeOK /\ PromptInv /\ [Next]_vars => PromptInv'
<1> SUFFICES ASSUME TypeOK, PromptInv, [Next]_vars PROVE PromptInv'
    OBVIOUS
<1> USE IndexerAssumption DEF TypeOK, At, Goto, PC, Call, PromptInv, Before
<1>1. ASSUME NEW c \in Full, StartFull(c) PROVE PromptInv'
    BY <1>1 DEF StartFull
<1>2. ASSUME NEW c \in Full, SeeUnlocked(c) PROVE PromptInv'
    BY <1>2 DEF SeeUnlocked
<1>3. ASSUME NEW c \in Full, SeeStale(c) PROVE PromptInv'
    BY <1>3 DEF SeeStale
<1>4. ASSUME NEW c \in Full, BreakStale(c) PROVE PromptInv'
    BY <1>4 DEF BreakStale
<1>5. ASSUME NEW c \in Full, Lock(c) PROVE PromptInv'
    BY <1>5 DEF Lock
<1>6. ASSUME NEW c \in Full, IndexUnit(c) PROVE PromptInv'
    BY <1>6 DEF IndexUnit, CountUnit, Onward
<1>7. ASSUME NEW c \in Full, Unlock(c) PROVE PromptInv'
    BY <1>7 DEF Unlock
<1>8. ASSUME NEW c \in Full, UpdateTimestamp(c) PROVE PromptInv'
    BY <1>8 DEF UpdateTimestamp
<1>9. ASSUME NEW c \in Full, LockFails(c) PROVE PromptInv'
    BY <1>9 DEF LockFails
<1>10. ASSUME NEW c \in Full, IndexFails(c) PROVE PromptInv'
    BY <1>10 DEF IndexFails
<1>11. ASSUME NEW c \in Call, Resume(c) PROVE PromptInv'
    BY <1>11 DEF Resume, Onward
<1>12. ASSUME NEW c \in Call, Finish(c) PROVE PromptInv'
    BY <1>12 DEF Finish, AbortOwn
<1>13. ASSUME NEW c \in Files, StartFiles(c) PROVE PromptInv'
    BY <1>13 DEF StartFiles
<1>14. ASSUME NEW c \in Files, DropFiles(c) PROVE PromptInv'
    BY <1>14 DEF DropFiles
<1>15. ASSUME NEW c \in Files, FileUnit(c) PROVE PromptInv'
    BY <1>15 DEF FileUnit, CountUnit, Onward
<1>16. ASSUME NEW w \in Window, SetPaused(w) PROVE PromptInv'
    BY <1>16 DEF SetPaused
<1>17. ASSUME NEW w \in Window, CloseWindow(w) PROVE PromptInv'
    BY <1>17 DEF CloseWindow
<1>18. CASE Tick
    BY <1>18 DEF Tick
<1>19. CASE UNCHANGED vars
    BY <1>19 DEF vars
<1>20. QED
    BY <1>1, <1>2, <1>3, <1>4, <1>5, <1>6, <1>7, <1>8, <1>9, <1>10, <1>11,
       <1>12, <1>13, <1>14, <1>15, <1>16, <1>17, <1>18, <1>19
    DEF Next, FullStep, FilesStep, Call

\* A row is inserted as its refresh begins to index, and all rows go at an unlock.
LEMMA StepRows ==
    TypeOK /\ NoOrphanRow /\ [Next]_vars => NoOrphanRow'
<1> SUFFICES ASSUME TypeOK, NoOrphanRow, [Next]_vars PROVE NoOrphanRow'
    OBVIOUS
<1> USE IndexerAssumption DEF TypeOK, At, Goto, PC, Call, NoOrphanRow
<1>0. \A i \in DOMAIN lockTable :
         lockTable[i].call \in Full /\ lockTable[i].age \in 0 .. StaleAge + 1
    <2>1. \A i \in DOMAIN lockTable : lockTable[i] \in LockRow
        OBVIOUS
    <2>2. QED
        BY <2>1 DEF LockRow
<1>1. ASSUME NEW c \in Full, StartFull(c) PROVE NoOrphanRow'
    BY <1>1 DEF StartFull
<1>2. ASSUME NEW c \in Full, SeeUnlocked(c) PROVE NoOrphanRow'
    BY <1>2 DEF SeeUnlocked
<1>3. ASSUME NEW c \in Full, SeeStale(c) PROVE NoOrphanRow'
    BY <1>3, <1>0 DEF SeeStale
<1>4. ASSUME NEW c \in Full, BreakStale(c) PROVE NoOrphanRow'
    BY <1>4 DEF BreakStale
<1>5. ASSUME NEW c \in Full, Lock(c) PROVE NoOrphanRow'
    <2>1. DOMAIN lockTable' = 1 .. Len(lockTable) + 1 /\ DOMAIN lockTable = 1 .. Len(lockTable)
        BY <1>5 DEF Lock
    <2>2. lockTable'[Len(lockTable) + 1].call = c
        BY <1>5 DEF Lock
    <2>3. \A i \in DOMAIN lockTable : lockTable'[i] = lockTable[i]
        BY <1>5 DEF Lock
    <2>4. QED
        BY <1>5, <1>0, <2>1, <2>2, <2>3 DEF Lock
<1>6. ASSUME NEW c \in Full, IndexUnit(c) PROVE NoOrphanRow'
    BY <1>6, <1>0 DEF IndexUnit, CountUnit, Onward
<1>7. ASSUME NEW c \in Full, Unlock(c) PROVE NoOrphanRow'
    BY <1>7 DEF Unlock
<1>8. ASSUME NEW c \in Full, UpdateTimestamp(c) PROVE NoOrphanRow'
    BY <1>8, <1>0, RowsRenewed DEF UpdateTimestamp
<1>9. ASSUME NEW c \in Full, LockFails(c) PROVE NoOrphanRow'
    BY <1>9 DEF LockFails
<1>10. ASSUME NEW c \in Full, IndexFails(c) PROVE NoOrphanRow'
    BY <1>10 DEF IndexFails
<1>11. ASSUME NEW c \in Call, Resume(c) PROVE NoOrphanRow'
    BY <1>11, <1>0 DEF Resume, Onward
<1>12. ASSUME NEW c \in Call, Finish(c) PROVE NoOrphanRow'
    BY <1>12 DEF Finish, AbortOwn
<1>13. ASSUME NEW c \in Files, StartFiles(c) PROVE NoOrphanRow'
    BY <1>13 DEF StartFiles
<1>14. ASSUME NEW c \in Files, DropFiles(c) PROVE NoOrphanRow'
    BY <1>14 DEF DropFiles
<1>15. ASSUME NEW c \in Files, FileUnit(c) PROVE NoOrphanRow'
    <2>1. \A d \in Call : d # c => pc'[d] = pc[d]
        BY <1>15 DEF FileUnit
    <2>2. \A i \in DOMAIN lockTable : lockTable[i].call \in Call \ {c}
        BY <1>0
    <2>3. UNCHANGED <<open, lockTable>>
        BY <1>15 DEF FileUnit
    <2>4. QED
        BY <2>1, <2>2, <2>3
<1>16. ASSUME NEW w \in Window, SetPaused(w) PROVE NoOrphanRow'
    BY <1>16 DEF SetPaused
<1>17. ASSUME NEW w \in Window, CloseWindow(w) PROVE NoOrphanRow'
    BY <1>17 DEF CloseWindow
<1>18. CASE Tick
    BY <1>18, <1>0, RowsTicked DEF Tick
<1>19. CASE UNCHANGED vars
    BY <1>19 DEF vars
<1>20. QED
    BY <1>1, <1>2, <1>3, <1>4, <1>5, <1>6, <1>7, <1>8, <1>9, <1>10, <1>11,
       <1>12, <1>13, <1>14, <1>15, <1>16, <1>17, <1>18, <1>19
    DEF Next, FullStep, FilesStep, Call

\* The row of a refresh ages no faster than its last beat, and is renewed with it.
LEMMA StepFresh ==
    TypeOK /\ NoOrphanRow /\ FreshInv /\ [Next]_vars => FreshInv'
<1> SUFFICES ASSUME TypeOK, NoOrphanRow, FreshInv, [Next]_vars PROVE FreshInv'
    OBVIOUS
<1> USE IndexerAssumption DEF TypeOK, At, Goto, PC, Call, NoOrphanRow, FreshInv, Beating
<1>0. \A i \in DOMAIN lockTable :
         lockTable[i].call \in Full /\ lockTable[i].age \in 0 .. StaleAge + 1
    <2>1. \A i \in DOMAIN lockTable : lockTable[i] \in LockRow
        OBVIOUS
    <2>2. QED
        BY <2>1 DEF LockRow
<1>1. ASSUME NEW c \in Full, StartFull(c) PROVE FreshInv'
    BY <1>1 DEF StartFull
<1>2. ASSUME NEW c \in Full, SeeUnlocked(c) PROVE FreshInv'
    BY <1>2 DEF SeeUnlocked
<1>3. ASSUME NEW c \in Full, SeeStale(c) PROVE FreshInv'
    BY <1>3 DEF SeeStale
<1>4. ASSUME NEW c \in Full, BreakStale(c) PROVE FreshInv'
    BY <1>4 DEF BreakStale
<1>5. ASSUME NEW c \in Full, Lock(c) PROVE FreshInv'
    <2>1. DOMAIN lockTable' = 1 .. Len(lockTable) + 1 /\ DOMAIN lockTable = 1 .. Len(lockTable)
        BY <1>5 DEF Lock
    <2>2. lockTable'[Len(lockTable) + 1] = [call |-> c, age |-> 0]
        BY <1>5 DEF Lock
    <2>3. \A i \in DOMAIN lockTable : lockTable'[i] = lockTable[i]
        BY <1>5 DEF Lock
    <2>4. \A i \in DOMAIN lockTable : lockTable[i].call # c
        BY <1>5, <1>0 DEF Lock
    <2>5. QED
        BY <1>5, <1>0, <2>1, <2>2, <2>3, <2>4 DEF Lock
<1>6. ASSUME NEW c \in Full, IndexUnit(c) PROVE FreshInv'
    BY <1>6 DEF IndexUnit, CountUnit, Onward
<1>7. ASSUME NEW c \in Full, Unlock(c) PROVE FreshInv'
    BY <1>7 DEF Unlock
<1>8. ASSUME NEW c \in Full, UpdateTimestamp(c) PROVE FreshInv'
    <2>1. DOMAIN lockTable' = DOMAIN lockTable /\ UNCHANGED <<pc, open>>
        BY <1>8, RowsRenewed DEF UpdateTimestamp
    <2>2. \A i \in DOMAIN lockTable : lockTable'[i].age = 0
        BY <1>8, RowsRenewed
    <2>3. \A d \in Call : beat'[d] >= 0
        BY <1>8 DEF UpdateTimestamp
    <2>4. \A i \in DOMAIN lockTable : lockTable'[i].call \in Call
        BY <1>8, <1>0, RowsRenewed
    <2>5. QED
        BY <2>1, <2>2, <2>3, <2>4
<1>9. ASSUME NEW c \in Full, LockFails(c) PROVE FreshInv'
    BY <1>9 DEF LockFails
<1>10. ASSUME NEW c \in Full, IndexFails(c) PROVE FreshInv'
    BY <1>10 DEF IndexFails
<1>11. ASSUME NEW c \in Call, Resume(c) PROVE FreshInv'
    BY <1>11 DEF Resume, Onward
<1>12. ASSUME NEW c \in Call, Finish(c) PROVE FreshInv'
    BY <1>12 DEF Finish, AbortOwn
<1>13. ASSUME NEW c \in Files, StartFiles(c) PROVE FreshInv'
    BY <1>13 DEF StartFiles
<1>14. ASSUME NEW c \in Files, DropFiles(c) PROVE FreshInv'
    BY <1>14 DEF DropFiles
<1>15. ASSUME NEW c \in Files, FileUnit(c) PROVE FreshInv'
    BY <1>15 DEF FileUnit, CountUnit, Onward
<1>16. ASSUME NEW w \in Window, SetPaused(w) PROVE FreshInv'
    BY <1>16 DEF SetPaused
<1>17. ASSUME NEW w \in Window, CloseWindow(w) PROVE FreshInv'
    BY <1>17 DEF CloseWindow
<1>18. CASE Tick
    <2>1. DOMAIN lockTable' = DOMAIN lockTable /\ UNCHANGED <<pc, open>>
        BY <1>18, RowsTicked DEF Tick
    <2>2. \A i \in DOMAIN lockTable :
             /\ lockTable'[i].call = lockTable[i].call
             /\ lockTable'[i].age = Older(lockTable[i].age)
        BY <1>18, RowsTicked
    <2>3. \A d \in Call : Beating(d) => beat'[d] = Older(beat[d])
        BY <1>18 DEF Tick
    <2>4. SUFFICES ASSUME NEW i \in DOMAIN lockTable, Beating(lockTable[i].call)
                   PROVE  lockTable'[i].age <= beat'[lockTable[i].call]
        BY <2>1, <2>2
    <2>5. lockTable[i].age \in 0 .. beat[lockTable[i].call]
        BY <1>0, <2>4
    <2>6. lockTable[i] \in LockRow
        BY <1>0
    <2>7. lockTable[i].call \in Call /\ beat[lockTable[i].call] \in 0 .. StaleAge + 1
        BY <1>0, <2>6 DEF LockRow, Call, TypeOK
    <2>8. Older(lockTable[i].age) <= Older(beat[lockTable[i].call])
        BY <2>5, <2>7, OlderIs
    <2>9. QED
        BY <2>2, <2>3, <2>4, <2>7, <2>8
<1>19. CASE UNCHANGED vars
    BY <1>19 DEF vars
<1>20. QED
    BY <1>1, <1>2, <1>3, <1>4, <1>5, <1>6, <1>7, <1>8, <1>9, <1>10, <1>11,
       <1>12, <1>13, <1>14, <1>15, <1>16, <1>17, <1>18, <1>19
    DEF Next, FullStep, FilesStep, Call

-----------------------------------------------------------------------------
(* The theorems. *)

\* The inductive invariant of the indexers.
IInv ==
    /\ TypeOK
    /\ CountsInv
    /\ OnlyOwnerUnaborted
    /\ OwnedInv
    /\ PromptInv
    /\ NoOrphanRow
    /\ FreshInv

\* The invariant holds before any call is made.
LEMMA InitInv == Init => IInv
<1> SUFFICES ASSUME Init PROVE IInv
    OBVIOUS
<1> USE IndexerAssumption DEF Init
<1>1. TypeOK /\ CountsInv
    BY InitTyped
<1>2. OnlyOwnerUnaborted
    BY DEF OnlyOwnerUnaborted, Running
<1>3. OwnedInv
    BY DEF OwnedInv
<1>4. PromptInv
    BY DEF PromptInv, Call
<1>5. NoOrphanRow /\ FreshInv
    BY DEF NoOrphanRow, FreshInv
<1>6. QED
    BY <1>1, <1>2, <1>3, <1>4, <1>5 DEF IInv

\* Every step preserves the invariant, by the lemmas above.
LEMMA StepInv == IInv /\ [Next]_vars => IInv'
BY StepTyped, StepCounts, StepOwner, StepOwned, StepPrompt, StepRows, StepFresh
   DEF IInv

\* The inductive invariant holds of every behaviour of the indexers.
THEOREM Invariance == Spec => []IInv
BY InitInv, StepInv, PTL DEF Spec

\* Every variable keeps its type (CodebaseIndexer, IndexLock).
THEOREM TypeCorrect == Spec => []TypeOK
<1>1. IInv => TypeOK
    BY DEF IInv
<1>2. QED
    BY <1>1, Invariance, PTL

\* A refresh that is superseded has been told to stop (refreshCodebaseIndex,
\* refreshCodebaseIndexFiles).
THEOREM SupersededIsAborted == Spec => []OnlyOwnerUnaborted
<1>1. IInv => OnlyOwnerUnaborted
    BY DEF IInv
<1>2. QED
    BY <1>1, Invariance, PTL

\* No row of indexing_lock outlives its refresh, unless its unlock threw or its
\* window was closed (IndexLock.lock, IndexLock.unlock).
THEOREM RowsAreOwned == Spec => []NoOrphanRow
<1>1. IInv => NoOrphanRow
    BY DEF IInv
<1>2. QED
    BY <1>1, Invariance, PTL

\* However many windows renew, break and delete rows, and however late the
\* timestamps are, the row of a refresh that is indexing is stale only when that
\* refresh itself has been silent for too long (updateTimestamp, waitForDBIndex).
THEOREM LooksDeadWhenSilent == Spec => []StaleMeansSilent
<1>1. IInv => StaleMeansSilent
    <2> SUFFICES ASSUME IInv, NEW i \in DOMAIN lockTable,
                        lockTable[i].age > StaleAge,
                        Beating(lockTable[i].call)
                 PROVE  beat[lockTable[i].call] > StaleAge
        BY DEF StaleMeansSilent
    <2> DEFINE c == lockTable[i].call
    <2>1. lockTable[i] \in LockRow
        BY DEF IInv, TypeOK
    <2>2. c \in Call /\ lockTable[i].age \in Nat
        BY <2>1, IndexerAssumption DEF LockRow, Call
    <2>3. beat[c] \in 0 .. StaleAge + 1
        BY <2>2 DEF IInv, TypeOK
    <2>4. lockTable[i].age <= beat[c]
        BY DEF IInv, FreshInv
    <2>5. QED
        BY <2>2, <2>3, <2>4, IndexerAssumption
<1>2. QED
    BY <1>1, Invariance, PTL

\* A full refresh does at most one unit of work after its signal was aborted
\* (refreshDirs).
THEOREM AbortIsPrompt == Spec => []StopsWithinOneUnit
<1>1. IInv => StopsWithinOneUnit
    BY DEF IInv, PromptInv, StopsWithinOneUnit
<1>2. QED
    BY <1>1, Invariance, PTL

\* When every refresh of a window has ended without an SQLite error, the window
\* takes the next saved file (refreshCodebaseIndexFiles).
THEOREM FilesAreTaken == Spec => []NotWedged
<1>1. IInv => NotWedged
    BY DEF IInv, OwnedInv, NotWedged
<1>2. QED
    BY <1>1, Invariance, PTL

=============================================================================
