------------------------------- MODULE Recover -------------------------------
(***************************************************************************)
(* The recovery manager of src/src/wamr.cpp, WAMRInstance::recover: sort   *)
(* the execution-environment snapshots by cur_count, largest first, then   *)
(* for each one spawn an exec env when its count is non-zero, restore the  *)
(* snapshot into cur_env, mark it, and run the interpreter on it.          *)
(*                                                                         *)
(* A snapshot is a model value with its cur_count; an exec env is Primary  *)
(* (the instance's exec_env) or the number of the spawn that created it.   *)
(* wasm_interp_call_func_bytecode is called on the thread running recover  *)
(* and returns only when the restored thread's function returns; WaitsFor  *)
(* says which other snapshots' threads a thread needs to have run before   *)
(* it can return (a join, a lock or a message it waits for).               *)
(***************************************************************************)
EXTENDS Naturals, Sequences, SequencesExt

CONSTANTS
    Snaps,       \* the WAMRExecEnv snapshots handed to recover
    Count,       \* Count[e]: the snapshot's cur_count
    WaitsFor,    \* WaitsFor[e]: the threads e's thread needs to have run to return
    Primary      \* the instance's exec_env

ASSUME /\ Count \in [Snaps -> Nat]
       /\ WaitsFor \in [Snaps -> SUBSET Snaps]
       /\ Primary \notin Nat

VARIABLES
    order,       \* the vector after std::sort, <<>> before it
    pos,         \* the loop's current element
    cur_env,     \* WAMRInstance::cur_env
    nspawn,      \* exec envs spawned so far
    restoredIn,  \* restoredIn[e]: the exec env snapshot e was restored into
    is_restore,  \* exec envs whose is_restore flag is set
    returned,    \* snapshots whose interpreter call has returned
    pc           \* "sort", "restore", "interp", "done"

vars == <<order, pos, cur_env, nspawn, restoredIn, is_restore, returned, pc>>

NoEnv == 0   \* restoredIn of a snapshot not yet restored

(* The snapshots that make recover spawn an exec env. *)
Workers == {e \in Snaps : Count[e] # 0}

Envs == {Primary} \cup (1..Cardinality(Workers))

(* Mutant: the comparator written a->cur_count < b->cur_count. *)
SortedOrdersAscending ==
    {s \in SetToSeqs(Snaps) :
        \A i \in 1..(Len(s) - 1) : Count[s[i]] <= Count[s[i + 1]]}

(* The results std::sort may produce with the comparator                  *)
(* a->cur_count > b->cur_count: every permutation ordered by it (the sort  *)
(* is not stable, so equal counts may come in any order).                  *)
SortedOrders ==
    {s \in SetToSeqs(Snaps) :
        \A i \in 1..(Len(s) - 1) : Count[s[i]] >= Count[s[i + 1]]}

Sort ==
    /\ pc = "sort"
    /\ order' \in SortedOrders
    /\ pc' = IF Snaps = {} THEN "done" ELSE "restore"
    /\ UNCHANGED <<pos, cur_env, nspawn, restoredIn, is_restore, returned>>

(* Mutant: an exec env spawned for every snapshot, count 0 included. *)
RestoreNextAlwaysSpawn ==
    LET e   == order[pos]
        env == nspawn + 1
    IN  /\ pc = "restore"
        /\ cur_env' = env
        /\ nspawn' = nspawn + 1
        /\ restoredIn' = [restoredIn EXCEPT ![e] = env]
        /\ is_restore' = is_restore \cup {env}
        /\ pc' = "interp"
        /\ UNCHANGED <<order, pos, returned>>

(* The loop body up to the interpreter call: a snapshot with a non-zero   *)
(* count gets a freshly spawned exec env in cur_env, any other one reuses *)
(* cur_env as it is; restore into cur_env and set its is_restore flag.    *)
RestoreNext ==
    LET e   == order[pos]
        env == IF Count[e] # 0 THEN nspawn + 1 ELSE cur_env
    IN  /\ pc = "restore"
        /\ cur_env' = env
        /\ nspawn' = IF Count[e] # 0 THEN nspawn + 1 ELSE nspawn
        /\ restoredIn' = [restoredIn EXCEPT ![e] = env]
        /\ is_restore' = is_restore \cup {env}
        /\ pc' = "interp"
        /\ UNCHANGED <<order, pos, returned>>

(* wasm_interp_call_func_bytecode on get_exec_env(), that is cur_env: it  *)
(* returns once the restored thread's function returns, which needs the   *)
(* threads it waits for to have run; then the loop moves on.               *)
Interp ==
    LET e == order[pos]
    IN  /\ pc = "interp"
        /\ WaitsFor[e] \subseteq returned
        /\ returned' = returned \cup {e}
        /\ pos' = pos + 1
        /\ pc' = IF pos = Len(order) THEN "done" ELSE "restore"
        /\ UNCHANGED <<order, cur_env, nspawn, restoredIn, is_restore>>

Init ==
    /\ order = <<>>
    /\ pos = 1
    /\ cur_env = Primary
    /\ nspawn = 0
    /\ restoredIn = [e \in Snaps |-> NoEnv]
    /\ is_restore = {}
    /\ returned = {}
    /\ pc = "sort"

Next == Sort \/ RestoreNext \/ Interp

(* recover runs on one thread that keeps taking its next step. *)
Spec == Init /\ [][Next]_vars /\ WF_vars(Next)

-----------------------------------------------------------------------------
TypeOK ==
    /\ order \in Seq(Snaps)
    /\ pos \in 1..(Cardinality(Snaps) + 1)
    /\ cur_env \in Envs
    /\ nspawn \in 0..Cardinality(Workers)
    /\ restoredIn \in [Snaps -> Envs \cup {NoEnv}]
    /\ is_restore \subseteq Envs
    /\ returned \subseteq Snaps
    /\ pc \in {"sort", "restore", "interp", "done"}

(* Spec 4.6: once recover has gone through the set, every snapshot's      *)
(* thread has been resumed and has run: recover reaches its end with the   *)
(* interpreter call of every snapshot returned.                           *)
AllThreadsResumed ==
    <>(pc = "done" /\ returned = Snaps)

(* Spec 8, recovery ordering: only the count-0 environment reuses the     *)
(* existing primary context, so a snapshot with cur_count 0 is restored    *)
(* into the instance's exec_env and no other.                             *)
ZeroCountUsesPrimary ==
    \A e \in Snaps : (Count[e] = 0 /\ restoredIn[e] # NoEnv) => restoredIn[e] = Primary

=============================================================================
