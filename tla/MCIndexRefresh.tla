---------------------------- MODULE MCIndexRefresh ----------------------------
(***************************************************************************)
(* Model values of IndexRefresh for TLC.                                   *)
(***************************************************************************)
EXTENDS IndexRefresh, TLC

CONSTANTS main, dev, p, q, w, x, y, z

\* Each path has texts of its own, or the files may be copies of each other, or
\* there is one file only.
OwnTexts == [a \in {p, q} |-> IF a = p THEN {x, y} ELSE {z}]
SharedTexts == [a \in {p, q} |-> {x}]
BothChange == [a \in {p, q} |-> IF a = p THEN {x, y} ELSE {z, w}]
TwoVersions == [a \in {p, q} |-> IF a = p THEN {x, y} ELSE {}]
OnePath == [a \in {p} |-> {x}]

\* For the long trace of IndexRefresh_batches.cfg: full refreshes only, no file is
\* missing, and none is written while a refresh runs.
FullRefreshes ==
    /\ \A t \in Tag, a \in Path : text[t][a] # NoText
    /\ \A v \in Worker : job[v].whole
    /\ \A v \in Worker, a \in Path :
         At(v, "idle") \/ modified[job[v].tag][a] <= job[v].began

=============================================================================
