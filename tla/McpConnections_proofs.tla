------------------------ MODULE McpConnections_proofs ------------------------
(***************************************************************************)
(* Theorems about McpConnections for any servers and any number of         *)
(* attempts, refreshes, loads and doings of the user: its types, and that  *)
(* no connection says "connecting", or keeps a promise to be waited for,   *)
(* without an attempt that will end it.                                    *)
(***************************************************************************)
EXTENDS McpConnections, TLAPS

\* What an attempt may change is bound to the server it belongs to: with the types,
\* the claim is inductive as it stands.
IInv == TypeOK /\ NoStuckConnecting

LEMMA AttemptParts ==
    ASSUME NEW a \in Attempt
    PROVE a[1] \in Server /\ a[2] \in Try /\ a = <<a[1], a[2]>>
BY DEF Attempt

LEMMA Zero == 0 \notin Try
BY BoundsAssumption

-----------------------------------------------------------------------------
(* Beginning attempts. *)

\* connectClient() of any connections, while any others are removed, keeps the types.
LEMMA ConnectTypes ==
    ASSUME TypeOK, NEW start \in SUBSET Server, NEW aborted, NEW gone, NEW r,
           Connect(start, aborted, gone, r)
    PROVE /\ status' \in [Server -> Status]
          /\ promise' \in [Server -> Try \cup {0}]
          /\ at' \in [Attempt -> {"free", "trying", "late"}]
          /\ waits' \in [Refresh -> SUBSET Attempt]
          /\ refreshing' \in SUBSET Refresh
<1>1. PICK new \in [start -> Try] :
        LET begun == {<<s, new[s]>> : s \in start}
        IN /\ FreeRefresh(r)
           /\ status' = [s \in Server |-> IF s \in start THEN "connecting"
                                          ELSE IF s \in gone THEN "not-connected"
                                          ELSE status[s]]
           /\ promise' = [s \in Server |-> IF s \in start THEN new[s]
                                           ELSE IF s \in gone THEN 0 ELSE promise[s]]
           /\ at' = [a \in Attempt |-> IF a \in begun THEN "trying"
                                       ELSE IF a[1] \in gone THEN "free" ELSE at[a]]
           /\ waits' = [q \in Refresh |-> IF q = r THEN begun ELSE waits[q] \ aborted]
           /\ refreshing' = refreshing \cup {r}
  BY DEF Connect
<1> DEFINE begun == {<<s, new[s]>> : s \in start}
<1>2. begun \in SUBSET Attempt
  BY DEF Attempt
<1>3. status' \in [Server -> Status]
  BY <1>1 DEF TypeOK, Status
<1>4. promise' \in [Server -> Try \cup {0}]
  BY <1>1 DEF TypeOK
<1>5. at' \in [Attempt -> {"free", "trying", "late"}]
  BY <1>1 DEF TypeOK
<1> HIDE DEF begun
<1>6. waits' = [q \in Refresh |-> IF q = r THEN begun ELSE waits[q] \ aborted]
  BY <1>1 DEF begun
<1>7. waits' \in [Refresh -> SUBSET Attempt]
  BY <1>2, <1>6 DEF TypeOK
<1>8. refreshing' \in SUBSET Refresh
  BY <1>1 DEF TypeOK, FreeRefresh
<1>9. QED
  BY <1>3, <1>4, <1>5, <1>7, <1>8

\* Each connection it changes has an attempt of its own, or says nothing any more.
LEMMA ConnectClaim ==
    ASSUME IInv, NEW start \in SUBSET Server, NEW aborted, NEW gone, NEW r,
           Connect(start, aborted, gone, r)
    PROVE NoStuckConnecting'
<1>1. PICK new \in [start -> Try] :
        LET begun == {<<s, new[s]>> : s \in start}
        IN /\ status' = [s \in Server |-> IF s \in start THEN "connecting"
                                          ELSE IF s \in gone THEN "not-connected"
                                          ELSE status[s]]
           /\ promise' = [s \in Server |-> IF s \in start THEN new[s]
                                           ELSE IF s \in gone THEN 0 ELSE promise[s]]
           /\ at' = [a \in Attempt |-> IF a \in begun THEN "trying"
                                       ELSE IF a[1] \in gone THEN "free" ELSE at[a]]
  BY DEF Connect
<1>2. SUFFICES ASSUME NEW s \in Server
               PROVE /\ status'[s] = "connecting"
                          => \E k \in Try : at'[<<s, k>>] = "trying"
                     /\ promise'[s] # 0 => at'[<<s, promise'[s]>>] = "trying"
  BY DEF NoStuckConnecting
<1>3. CASE s \in start
  <2>1. new[s] \in Try /\ <<s, new[s]>> \in Attempt
    BY <1>3 DEF Attempt
  <2>2. at'[<<s, new[s]>>] = "trying" /\ promise'[s] = new[s]
    BY <1>1, <1>3, <2>1
  <2>3. QED
    BY <2>1, <2>2
<1>4. CASE s \notin start /\ s \in gone
  BY <1>1, <1>4
<1>5. CASE s \notin start /\ s \notin gone
  <2>1. status'[s] = status[s] /\ promise'[s] = promise[s]
    BY <1>1, <1>5
  <2>2. \A k \in Try : <<s, k>> \in Attempt /\ at'[<<s, k>>] = at[<<s, k>>]
    <3>1. SUFFICES ASSUME NEW k \in Try
                   PROVE <<s, k>> \in Attempt /\ at'[<<s, k>>] = at[<<s, k>>]
      OBVIOUS
    <3>2. <<s, k>> \in Attempt /\ <<s, k>>[1] = s
      BY DEF Attempt
    <3>3. <<s, k>> \notin {<<t, new[t]>> : t \in start}
      BY <1>5
    <3>4. QED
      BY <1>1, <1>5, <3>2, <3>3
  <2>3. promise[s] \in Try \cup {0}
    BY DEF IInv, TypeOK
  <2>4. QED
    BY <2>1, <2>2, <2>3 DEF IInv, NoStuckConnecting
<1>6. QED
  BY <1>3, <1>4, <1>5

-----------------------------------------------------------------------------
(* Ends of attempts. *)

LEMMA EndsTypes ==
    ASSUME TypeOK, NEW a \in Attempt, NEW result \in Status,
           NEW next \in {"free", "late"}, Ends(a, result, next)
    PROVE /\ status' \in [Server -> Status]
          /\ promise' \in [Server -> Try \cup {0}]
          /\ at' \in [Attempt -> {"free", "trying", "late"}]
          /\ waits' \in [Refresh -> SUBSET Attempt]
BY DEF TypeOK, Ends

LEMMA EndsClaim ==
    ASSUME IInv, NEW a \in Attempt, NEW result \in Status,
           NEW next \in {"free", "late"}, result # "connecting",
           Ends(a, result, next)
    PROVE NoStuckConnecting'
<1>1. a[1] \in Server /\ TypeOK
  BY AttemptParts DEF IInv
<1>2. /\ at' = [at EXCEPT ![a] = next]
      /\ status' = [status EXCEPT ![a[1]] = result]
      /\ promise' = [promise EXCEPT ![a[1]] = 0]
  BY DEF Ends
<1>3. SUFFICES ASSUME NEW s \in Server
               PROVE /\ status'[s] = "connecting"
                          => \E k \in Try : at'[<<s, k>>] = "trying"
                     /\ promise'[s] # 0 => at'[<<s, promise'[s]>>] = "trying"
  BY DEF NoStuckConnecting
<1>4. CASE s = a[1]
  BY <1>1, <1>2, <1>4 DEF TypeOK
<1>5. CASE s # a[1]
  <2>1. status'[s] = status[s] /\ promise'[s] = promise[s]
    BY <1>1, <1>2, <1>5 DEF TypeOK
  <2>2. \A k \in Try : <<s, k>> \in Attempt /\ <<s, k>> # a
    BY <1>5 DEF Attempt
  <2>3. \A k \in Try : at'[<<s, k>>] = at[<<s, k>>]
    BY <1>1, <1>2, <2>2 DEF TypeOK
  <2>4. promise[s] \in Try \cup {0}
    BY <1>1 DEF TypeOK
  <2>5. QED
    BY <2>1, <2>3, <2>4 DEF IInv, NoStuckConnecting
<1>6. QED
  BY <1>4, <1>5

\* A late end can say "connected", but it takes no attempt from a connection.
LEMMA LateEndKeeps ==
    ASSUME IInv, NEW a \in Attempt, LateEnd(a) PROVE IInv'
<1>1. a[1] \in Server /\ TypeOK
  BY AttemptParts DEF IInv
<1>2. /\ at[a] = "late" /\ at' = [at EXCEPT ![a] = "free"]
      /\ promise' = promise
      /\ \/ status' = [status EXCEPT ![a[1]] = "connected"]
         \/ status' = status
      /\ transport' \in {transport, transport \cup {a[1]}}
  BY DEF LateEnd
<1>3. TypeOK'
  BY <1>1, <1>2 DEF LateEnd, TypeOK, Status, loadVars, userVars
<1>4. SUFFICES ASSUME NEW s \in Server
               PROVE /\ status'[s] = "connecting"
                          => \E k \in Try : at'[<<s, k>>] = "trying"
                     /\ promise'[s] # 0 => at'[<<s, promise'[s]>>] = "trying"
  BY <1>3 DEF IInv, NoStuckConnecting
<1>5. status'[s] = "connecting" => status[s] = "connecting"
  BY <1>1, <1>2 DEF TypeOK
<1>6. \A k \in Try : at[<<s, k>>] = "trying" => at'[<<s, k>>] = "trying"
  BY <1>1, <1>2 DEF TypeOK, Attempt
<1>7. promise[s] \in Try \cup {0}
  BY <1>1 DEF TypeOK
<1>8. QED
  BY <1>2, <1>5, <1>6, <1>7 DEF IInv, NoStuckConnecting

\* The claim is about these three only.
LEMMA Elsewhere ==
    ASSUME IInv, UNCHANGED <<status, promise, at>> PROVE NoStuckConnecting'
BY DEF IInv, NoStuckConnecting

-----------------------------------------------------------------------------
(* The steps. *)

LEMMA AttemptSteps ==
    ASSUME IInv, NEW a \in Attempt,
           Connected(a) \/ Failed(a) \/ TimedOut(a) \/ LateEnd(a)
    PROVE IInv'
<1>1. a[1] \in Server /\ TypeOK
  BY AttemptParts DEF IInv
<1>2. CASE Connected(a)
  <2>1. Ends(a, "connected", "free") /\ "connected" \in Status
    BY <1>2 DEF Connected, Status
  <2>2. TypeOK'
    BY <1>1, <1>2, <2>1, EndsTypes DEF Connected, TypeOK, loadVars, userVars
  <2>3. QED
    BY <2>1, <2>2, EndsClaim DEF IInv
<1>3. CASE Failed(a)
  <2>1. Ends(a, "error", "free") /\ "error" \in Status
    BY <1>3 DEF Failed, Status
  <2>2. TypeOK'
    BY <1>1, <1>3, <2>1, EndsTypes DEF Failed, TypeOK, loadVars, userVars
  <2>3. QED
    BY <2>1, <2>2, EndsClaim DEF IInv
<1>4. CASE TimedOut(a)
  <2>1. Ends(a, "error", "late") /\ "error" \in Status
    BY <1>4 DEF TimedOut, Status
  <2>2. TypeOK'
    BY <1>1, <1>4, <2>1, EndsTypes DEF TimedOut, TypeOK, loadVars, userVars
  <2>3. QED
    BY <2>1, <2>2, EndsClaim DEF IInv
<1>5. CASE LateEnd(a)
  BY <1>5, LateEndKeeps
<1>6. QED
  BY <1>2, <1>3, <1>4, <1>5

LEMMA ReloadTypes ==
    ASSUME TypeOK, ReloadConfig
    PROVE /\ phase' \in [Load -> {"free", "reading", "read", "applied", "built"}]
          /\ servers' \in [Load -> SUBSET Server]
          /\ tools' \in [Load -> SUBSET Server]
          /\ saved' \in SUBSET Server
BY DEF TypeOK, ReloadConfig

LEMMA NotifyStep ==
    ASSUME IInv, NEW r \in Refresh, Notify(r) PROVE IInv'
<1>1. TypeOK /\ ReloadConfig
  BY DEF IInv, Notify
<1>2. TypeOK'
  BY <1>1, ReloadTypes DEF Notify, TypeOK, connectionVars, userVars
<1>3. NoStuckConnecting'
  BY Elsewhere DEF Notify, connectionVars
<1>4. QED
  BY <1>2, <1>3 DEF IInv

LEMMA SetConnectionsStep ==
    ASSUME IInv, NEW l \in Load, SetConnections(l) PROVE IInv'
<1>1. TypeOK /\ servers[l] \in SUBSET Server
  BY DEF IInv, TypeOK
<1>2. /\ phase' \in [Load -> {"free", "reading", "read", "applied", "built"}]
      /\ map' \in SUBSET Server /\ transport' \in SUBSET Server
      /\ closing' \in SUBSET map'
      /\ UNCHANGED <<wanted, servers, tools, saved, toasts, ops>>
  BY <1>1 DEF SetConnections, TypeOK, userVars
<1>3. CASE UNCHANGED <<status, promise, at, waits, refreshing>>
  <2>1. TypeOK'
    BY <1>1, <1>2, <1>3 DEF TypeOK
  <2>2. QED
    BY <1>3, <2>1, Elsewhere DEF IInv
<1>4. CASE RefreshConnections(servers[l])
  <2>1. PICK start \in SUBSET Server, gone \in SUBSET Server, r \in Refresh :
          Connect(start, Attempt, gone, r)
    <3>1. {s \in servers[l] : Connects(s, FALSE)} \in SUBSET Server
      BY <1>1
    <3>2. map \ servers[l] \in SUBSET Server
      BY <1>1 DEF TypeOK
    <3>3. QED
      BY <1>4, <3>1, <3>2 DEF RefreshConnections
  <2>2. TypeOK'
    BY <1>1, <1>2, <2>1, ConnectTypes DEF TypeOK
  <2>3. NoStuckConnecting'
    BY <2>1, ConnectClaim
  <2>4. QED
    BY <2>2, <2>3 DEF IInv
<1>5. QED
  BY <1>3, <1>4 DEF SetConnections

LEMMA LoadSteps ==
    ASSUME IInv, NEW l \in Load,
           Read(l) \/ SetConnections(l) \/ Build(l) \/ Save(l)
    PROVE IInv'
<1>1. CASE Read(l)
  <2>1. TypeOK'
    BY <1>1 DEF Read, IInv, TypeOK, connectionVars, userVars
  <2>2. QED
    BY <1>1, <2>1, Elsewhere DEF Read, IInv, connectionVars
<1>2. CASE SetConnections(l)
  BY <1>2, SetConnectionsStep
<1>3. CASE Build(l)
  <2>1. TypeOK'
    BY <1>3 DEF Build, IInv, TypeOK, connectionVars, userVars
  <2>2. QED
    BY <1>3, <2>1, Elsewhere DEF Build, IInv, connectionVars
<1>4. CASE Save(l)
  <2>1. TypeOK'
    BY <1>4 DEF Save, IInv, TypeOK, connectionVars, userVars
  <2>2. QED
    BY <1>4, <2>1, Elsewhere DEF Save, IInv, connectionVars
<1>5. QED
  BY <1>1, <1>2, <1>3, <1>4

\* An answer to disable() that comes last only takes "connecting" away.
LEMMA DisabledStep ==
    ASSUME IInv, NEW s \in Server, Disabled(s) PROVE IInv'
<1>1. TypeOK
  BY DEF IInv
<1>2. status' \in {status, [status EXCEPT ![s] = "disabled"]}
  BY DEF Disabled
<1>3. TypeOK'
  BY <1>1, <1>2 DEF Disabled, TypeOK, Status, loadVars, userVars
<1>4. NoStuckConnecting'
  <2>1. \A t \in Server : status'[t] = "connecting" => status[t] = "connecting"
    BY <1>1, <1>2 DEF TypeOK
  <2>2. UNCHANGED <<promise, at>>
    BY DEF Disabled
  <2>3. QED
    BY <2>1, <2>2 DEF IInv, NoStuckConnecting
<1>5. QED
  BY <1>3, <1>4 DEF IInv

LEMMA Counted ==
    ASSUME TypeOK, NEW operation, Does(operation) PROVE ops' \in 0 .. MaxOps
BY BoundsAssumption DEF TypeOK, Does

LEMMA UserSteps ==
    ASSUME IInv, User PROVE IInv'
<1>1. TypeOK
  BY DEF IInv
<1>2. CASE Edit
  <2>1. ops' \in 0 .. MaxOps
    BY <1>1, <1>2, Counted DEF Edit
  <2>2. TypeOK'
    BY <1>1, <1>2, <2>1 DEF Edit, TypeOK, connectionVars, loadVars
  <2>3. QED
    BY <1>2, <2>2, Elsewhere DEF Edit, IInv, connectionVars
<1>3. ASSUME NEW s \in Server, Reconnect(s) PROVE IInv'
  <2>1. ops' \in 0 .. MaxOps
    BY <1>1, <1>3, Counted DEF Reconnect
  <2>2. PICK start \in SUBSET Server, aborted \in SUBSET Attempt, r \in Refresh :
          Connect(start, aborted, {}, r)
    <3>1. \A start \in SUBSET Server : start \X Try \in SUBSET Attempt
      BY DEF Attempt
    <3>2. QED
      BY <1>3, <3>1 DEF Reconnect, RefreshConnection
  <2>3. TypeOK'
    BY <1>1, <1>3, <2>1, <2>2, ConnectTypes DEF Reconnect, TypeOK, loadVars
  <2>4. QED
    BY <2>2, <2>3, ConnectClaim DEF IInv
<1>4. ASSUME NEW s \in Server, Disable(s) PROVE IInv'
  <2>1. ops' \in 0 .. MaxOps
    BY <1>1, <1>4, Counted DEF Disable
  <2>2. TypeOK'
    BY <1>1, <1>4, <2>1 DEF Disable, TypeOK, loadVars
  <2>3. QED
    BY <1>4, <2>2, Elsewhere DEF Disable, IInv
<1>5. ASSUME NEW s \in Server, Enable(s) PROVE IInv'
  <2>1. ops' \in 0 .. MaxOps
    BY <1>1, <1>5, Counted DEF Enable
  <2>2. PICK start \in SUBSET Server, aborted \in SUBSET Attempt, r \in Refresh :
          Connect(start, aborted, {}, r)
    <3>1. {s} \in SUBSET Server /\ {s} \X Try \in SUBSET Attempt
      BY DEF Attempt
    <3>2. QED
      BY <1>5, <3>1 DEF Enable
  <2>3. TypeOK'
    BY <1>1, <1>5, <2>1, <2>2, ConnectTypes DEF Enable, TypeOK, loadVars
  <2>4. QED
    BY <2>2, <2>3, ConnectClaim DEF IInv
<1>6. CASE CloseToast
  <2>1. ReloadConfig
    BY <1>6 DEF CloseToast
  <2>2. TypeOK'
    BY <1>1, <1>6, <2>1, ReloadTypes DEF CloseToast, TypeOK, connectionVars
  <2>3. QED
    BY <1>6, <2>2, Elsewhere DEF CloseToast, IInv, connectionVars
<1>7. QED
  BY <1>2, <1>3, <1>4, <1>5, <1>6 DEF User

-----------------------------------------------------------------------------
LEMMA InitInv ==
    ASSUME Init PROVE IInv
<1>1. TypeOK
  BY BoundsAssumption DEF Init, TypeOK, Status
<1>2. NoStuckConnecting
  BY DEF Init, NoStuckConnecting
<1>3. QED
  BY <1>1, <1>2 DEF IInv

LEMMA NextInv ==
    ASSUME IInv, [Next]_vars PROVE IInv'
<1>1. CASE Works
  BY <1>1, AttemptSteps, NotifyStep, LoadSteps, DisabledStep DEF Works
<1>2. CASE User
  BY <1>2, UserSteps
<1>3. CASE UNCHANGED vars
  <2>1. TypeOK'
    BY <1>3 DEF vars, connectionVars, loadVars, userVars, IInv, TypeOK
  <2>2. QED
    BY <1>3, <2>1, Elsewhere DEF vars, connectionVars, IInv
<1>4. QED
  BY <1>1, <1>2, <1>3 DEF Next

\* The invariant holds of every behaviour, whatever the bounds are.
THEOREM Invariant == Spec => []IInv
<1>1. Init => IInv
  BY InitInv
<1>2. IInv /\ [Next]_vars => IInv'
  BY NextInv
<1>3. QED
  BY <1>1, <1>2, PTL DEF Spec

\* Every variable keeps its type (MCPManagerSingleton, MCPConnection and the loads).
THEOREM TypeCorrect == Spec => []TypeOK
<1>1. IInv => TypeOK
  BY DEF IInv
<1>2. QED
  BY <1>1, Invariant, PTL

\* A connection that says "connecting" has an attempt under way, and the promise that
\* connectClient() may wait for is one that ends (MCPConnection.ts:117-390).
THEOREM NobodyStuck == Spec => []NoStuckConnecting
<1>1. IInv => NoStuckConnecting
  BY DEF IInv
<1>2. QED
  BY <1>1, Invariant, PTL
=============================================================================
