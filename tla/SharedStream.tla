----------------------------- MODULE SharedStream -----------------------------
(***************************************************************************)
(* What the readers of a shared stream may rely on, with no word of        *)
(* buffers, listeners or promises: at most one stream is open; a reader    *)
(* that joins a stream, early or late, takes its items from the first one  *)
(* on and in order; a stream that has closed brings nothing more; and a    *)
(* reader is through only when its stream has closed and it has taken      *)
(* everything, unless it leaves by itself.                                 *)
(* CompletionReuse implements this.                                        *)
(***************************************************************************)
EXTENDS Naturals, Sequences

CONSTANTS Reader, Stream, Item, None

VARIABLES
    produced,  \* the items each stream has brought
    status,    \* of each stream: "none", "open" or "closed"
    of,        \* the stream each reader has joined
    taken,     \* how many items each reader has taken
    phase      \* of each reader: "out", "in", "left" or "through"

sharedVars == <<produced, status, of, taken, phase>>

SharedInit ==
    /\ produced = [s \in Stream |-> <<>>]
    /\ status = [s \in Stream |-> "none"]
    /\ of = [r \in Reader |-> None]
    /\ taken = [r \in Reader |-> 0]
    /\ phase = [r \in Reader |-> "out"]

AllClosed == [s \in Stream |-> IF status[s] = "open" THEN "closed" ELSE status[s]]

\* A reader that is done may have the open stream closed.
MayClose == status' \in {status, AllClosed}

\* A reader joins a stream there is, or opens one; the stream that was open closes.
Join(r, s) ==
    /\ phase[r] = "out"
    /\ \/ status[s] # "none" /\ UNCHANGED status
       \/ status[s] = "none" /\ status' = [AllClosed EXCEPT ![s] = "open"]
    /\ of' = [of EXCEPT ![r] = s]
    /\ phase' = [phase EXCEPT ![r] = "in"]
    /\ UNCHANGED <<produced, taken>>

Bring(s, i) ==
    /\ status[s] = "open"
    /\ produced' = [produced EXCEPT ![s] = Append(@, i)]
    /\ MayClose
    /\ UNCHANGED <<of, taken, phase>>

Close ==
    /\ status' = AllClosed
    /\ UNCHANGED <<produced, of, taken, phase>>

Receive(r) ==
    /\ phase[r] = "in" /\ taken[r] < Len(produced[of[r]])
    /\ taken' = [taken EXCEPT ![r] = @ + 1]
    /\ UNCHANGED <<produced, status, of, phase>>

Leave(r) ==
    /\ phase[r] = "in"
    /\ phase' = [phase EXCEPT ![r] = "left"]
    /\ MayClose
    /\ UNCHANGED <<produced, of, taken>>

Through(r) ==
    /\ phase[r] = "in" /\ status[of[r]] = "closed" /\ taken[r] = Len(produced[of[r]])
    /\ phase' = [phase EXCEPT ![r] = "through"]
    /\ MayClose
    /\ UNCHANGED <<produced, of, taken>>

SharedNext ==
    \/ \E r \in Reader, s \in Stream : Join(r, s)
    \/ \E s \in Stream, i \in Item : Bring(s, i)
    \/ Close
    \/ \E r \in Reader : Receive(r) \/ Leave(r) \/ Through(r)

SharedSpec == SharedInit /\ [][SharedNext]_sharedVars

=============================================================================
