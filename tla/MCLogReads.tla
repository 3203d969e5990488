----------------------------- MODULE MCLogReads -----------------------------
(* Model-checking instances of LogReads.                                   *)
EXTENDS LogReads, TLC

CONSTANTS i1, i2, i3, i4, w1, w2, w3, w4, w5, b1, b2

MCWrittenBy == (i1 :> w1) @@ (i2 :> w2) @@ (i3 :> w3)

(* w2 and w3 started at one instant; w4 is newer than all, w5 older.       *)
V(started, finished, backend, failed, timed, decided) ==
    [started |-> started, finished |-> finished, backend |-> backend,
     failed |-> failed, timed |-> timed, decided |-> decided]
MCValues ==
       (w1 :> V(1, 0, b1, TRUE,  TRUE,  TRUE))
    @@ (w2 :> V(2, 0, b2, FALSE, TRUE,  FALSE))
    @@ (w3 :> V(2, 1, b1, TRUE,  FALSE, TRUE))
    @@ (w4 :> V(3, 1, b2, FALSE, TRUE,  FALSE))
    @@ (w5 :> V(0, 1, b1, TRUE,  TRUE,  TRUE))

F(backend, after, before, failuresOnly) ==
    [backend |-> backend, after |-> after, before |-> before, failuresOnly |-> failuresOnly]
MCCalls ==
         [op : {"walk"}, filter : {F(None, None, None, FALSE), F(b1, 1, None, FALSE),
                                   F(None, None, 3, TRUE)}, limit : {None, 1, 9}]
    \cup [op : {"detail"}, id : LogIds]
    \cup [op : {"summary"}, filter : {F(None, None, None, FALSE), F(b1, 1, None, FALSE),
                                      F(b2, 2, 3, FALSE)}]
=============================================================================
