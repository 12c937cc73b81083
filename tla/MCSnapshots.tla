---------------------------- MODULE MCSnapshots ----------------------------
(* The analysis controller on one batch of two runs.                       *)
EXTENDS SnapshotController, TLC

CONSTANTS b1, w1, r1

OneBatch == [r \in Runs |-> b1]
Scene(ws, on, rs, ds) == [pool |-> ws, enabled |-> on, warm |-> rs, what |-> ds]
Disturbed ==
    {Scene(Workers, TRUE, {}, {d}) : d \in {"fault", "retire", "intent"}}
    \cup {Scene({w1}, TRUE, {}, {d}) : d \in {"crash", "clear", "disable", "rematerialize",
                                              "purge"}}
    \cup {Scene({w1}, TRUE, {r1}, {"rebuild"}), Scene({w1}, FALSE, {r1}, {"enable"}),
         Scene({w1}, TRUE, {r1}, {"fault", "crash"})}
Started == {Scene({w1}, TRUE, {r1}, {})}
============================================================================
