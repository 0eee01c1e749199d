----------------------------- MODULE MC_Recover -----------------------------
(* Recovery of the three snapshots of spec 8, counts 5, 0 and 3.          *)
EXTENDS Recover

CONSTANTS t5, t0, t3, t3b, t3c, t1, t1b

MCSnaps == {t5, t0, t3}

MCCount == [e \in MCSnaps |-> CASE e = t5 -> 5 [] e = t0 -> 0 [] e = t3 -> 3]

(* The main thread (count 0) joins both workers: it can return only after *)
(* they ran; the workers wait for nobody.                                  *)
MCJoinMain == [e \in MCSnaps |-> IF e = t0 THEN {t5, t3} ELSE {}]

(* The worker with more progress waits for a signal from the one with     *)
(* less (a producer/consumer pair), the main thread joins both.            *)
MCWaitLess == [e \in MCSnaps |-> CASE e = t0 -> {t5, t3}
                                   [] e = t5 -> {t3}
                                   [] e = t3 -> {}]

(* Seven threads, several with equal counts, for the unstable sort: the   *)
(* main thread joins all workers.                                          *)
MCSnapsTie == {t5, t3, t3b, t3c, t1, t1b, t0}

MCCountTie == [e \in MCSnapsTie |-> CASE e = t5 -> 5 [] e = t0 -> 0
                                      [] e \in {t3, t3b, t3c} -> 3
                                      [] e \in {t1, t1b} -> 1]

MCJoinMainTie == [e \in MCSnapsTie |-> IF e = t0 THEN MCSnapsTie \ {t0} ELSE {}]

=============================================================================
