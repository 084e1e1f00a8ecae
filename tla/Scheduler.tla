------------------------------ MODULE Scheduler ------------------------------
(***************************************************************************)
(* The offline scheduler schedule.py.  It deals the partitions to the      *)
(* nodes in several rounds, each in a random order, and keeps the round    *)
(* that is done first.  At the end of a partition a node applies and sends *)
(* it; the scheduler avoids that two nodes do so at a time, and lets nodes *)
(* wait with dummy tasks if it cannot place any task otherwise.            *)
(*                                                                         *)
(* Times are counted in units of 0.1 / NODE_NUM, so that the dummy task    *)
(* and the share of a node in a split task are whole numbers; the code     *)
(* adds up floats.                                                         *)
(***************************************************************************)
EXTENDS Integers, Sequences, FiniteSets, FiniteSetsExt, SequencesExt

CONSTANTS
    NODE_NUM,
    exe_time,       \* modelled time of every partition of the graph
    RANDOM_NUM,     \* rounds, 100
    APPLY_TIME      \* 2

Node == 0 .. NODE_NUM - 1

\* Assumed by the module that composes this one.
SchedulerAssumption ==
    /\ {NODE_NUM, RANDOM_NUM, APPLY_TIME} \subseteq Nat \ {0}
    /\ DOMAIN exe_time \subseteq 0 .. 98    \* getPartitionNum looks for 100 files
    /\ \A q \in DOMAIN exe_time : exe_time[q] \in Nat \ {0}

VARIABLES
    file,           \* the partitioner's files
    R_IDX,          \* rounds done
    inRound,        \* in a round
    tasks,          \* tasks not yet assigned
    left,           \* iterations left of the loop over the tasks
    change_flag,    \* a task was assigned in this loop
    workstations,   \* tasks of every node, in order
    exe_time_per_worker,
    global_timestamp,   \* the times in which a node applies
    workstations_opt,   \* the best round so far,
    MAX_EXE_TIME,       \* and its time
    schedule_txt        \* the partitions of every node, when written

roundVars == <<inRound, tasks, left, change_flag, workstations, exe_time_per_worker, global_timestamp>>
bestVars == <<workstations_opt, MAX_EXE_TIME>>
vars == <<R_IDX, roundVars, bestVars, schedule_txt>>

NoTime == -1

\* The partitions up to the first one without a file.
partitionNum == Min({q \in 0 .. Cardinality(DOMAIN file) : q \notin DOMAIN file})

Unit == 10 * NODE_NUM
Apply == APPLY_TIME * Unit
DUMMY_TASK == [partition_id |-> 65535, exe_time |-> NODE_NUM]

original_tasks ==
    [k \in 1 .. partitionNum |-> [partition_id |-> k - 1, exe_time |-> exe_time[k - 1] * Unit]]

\* Twice the average of a node, which is rounded up.
thres_time ==
    LET sum == MapThenSumSet(LAMBDA q : exe_time[q], 0 .. partitionNum - 1)
    IN 2 * ((sum + NODE_NUM - 1) \div NODE_NUM) * Unit

\* Tasks that are split over the nodes.
Long == {t \in Range(original_tasks) : t.exe_time > thres_time}

forward_tasks == Range(original_tasks) \ Long

all_reduce_tasks ==
    FoldLeft(LAMBDA list, t : IF t \in Long THEN Append(list, t) ELSE list, <<>>, original_tasks)

Init ==
    /\ R_IDX = 0
    /\ inRound = FALSE /\ tasks = <<>> /\ left = 0 /\ change_flag = FALSE
    /\ workstations = [n \in Node |-> <<>>]
    /\ exe_time_per_worker = [n \in Node |-> 0]
    /\ global_timestamp = {}
    /\ workstations_opt = [n \in Node |-> <<>>]
    /\ MAX_EXE_TIME = NoTime
    /\ schedule_txt = <<>>

Share(task) == [task EXCEPT !.exe_time = @ \div NODE_NUM]

\* The time that a list of tasks takes a node.
TimeOf(list) ==
    FoldLeft(LAMBDA sum, t : sum + t.exe_time + IF t = DUMMY_TASK THEN 0 ELSE Apply, 0, list)

\* A task longer than the threshold goes to every node; the others are shuffled.
StartRound ==
    /\ ~inRound
    /\ R_IDX < RANDOM_NUM
    /\ inRound' = TRUE
    /\ tasks' \in SetToSeqs(forward_tasks)
    /\ left' = Len(tasks')
    /\ change_flag' = FALSE
    /\ LET shares == [k \in DOMAIN all_reduce_tasks |-> Share(all_reduce_tasks[k])]
       IN /\ workstations' = [n \in Node |-> shares]
          /\ exe_time_per_worker' = [n \in Node |-> TimeOf(shares)]
    /\ global_timestamp' = {}
    /\ UNCHANGED <<R_IDX, bestVars, schedule_txt>>

\* The first of the nodes that are done first.
work_id ==
    CHOOSE n \in Node :
        \A m \in Node : \/ exe_time_per_worker[n] < exe_time_per_worker[m]
                        \/ exe_time_per_worker[n] = exe_time_per_worker[m] /\ n <= m

\* Names that start with Bug are mutated forms of the definition that follows.

\* A range within another one is overlooked.
BugIntersection(lower, upper) ==
    \E r \in global_timestamp : lower < r.lower /\ r.lower < upper

\* Ranges that only touch do not intersect.
has_intersection(lower, upper) ==
    \E r \in global_timestamp : Max({lower, r.lower}) < Min({upper, r.upper})

Assign(task, n, time) ==
    /\ workstations' = [workstations EXCEPT ![n] = Append(@, task)]
    /\ exe_time_per_worker' = [exe_time_per_worker EXCEPT ![n] = time]
    /\ change_flag' = TRUE
    /\ tasks' = Tail(tasks)

\* A task to the node that is done first, if it can apply the result then.
Place ==
    /\ inRound /\ left > 0
    /\ LET task == Head(tasks)
           lower == exe_time_per_worker[work_id] + task.exe_time
           upper == lower + Apply
       IN \/ /\ task = DUMMY_TASK
             /\ Assign(task, work_id, lower)
             /\ UNCHANGED global_timestamp
          \/ /\ task # DUMMY_TASK
             /\ has_intersection(lower, upper)
             /\ tasks' = Append(Tail(tasks), task)
             /\ UNCHANGED <<workstations, exe_time_per_worker, change_flag, global_timestamp>>
          \/ /\ task # DUMMY_TASK
             /\ ~has_intersection(lower, upper)
             /\ Assign(task, work_id, upper)
             /\ global_timestamp' = global_timestamp \cup {[lower |-> lower, upper |-> upper]}
    /\ left' = left - 1
    /\ UNCHANGED <<R_IDX, inRound, bestVars, schedule_txt>>

\* The loop over the tasks has placed none of them: a dummy task is added.
Loop ==
    /\ inRound /\ left = 0 /\ tasks # <<>>
    /\ tasks' = IF change_flag THEN tasks ELSE Append(tasks, DUMMY_TASK)
    /\ left' = Len(tasks')
    /\ change_flag' = FALSE
    /\ UNCHANGED <<R_IDX, inRound, workstations, exe_time_per_worker, global_timestamp,
                   bestVars, schedule_txt>>

\* Of equal rounds the last one is kept.  (The dummy tasks at the end of a list
\* stay: the condition compares a task with a number.)
EndRound ==
    /\ inRound /\ left = 0 /\ tasks = <<>>
    /\ LET current_time == Max(Range(exe_time_per_worker))
       IN IF MAX_EXE_TIME = NoTime \/ current_time <= MAX_EXE_TIME
          THEN workstations_opt' = workstations /\ MAX_EXE_TIME' = current_time
          ELSE UNCHANGED bestVars
    /\ inRound' = FALSE
    /\ R_IDX' = R_IDX + 1
    /\ UNCHANGED <<tasks, left, change_flag, workstations, exe_time_per_worker,
                   global_timestamp, schedule_txt>>

\* Dummy tasks stay in the schedule.
BugWriteSchedule ==
    /\ R_IDX = RANDOM_NUM /\ schedule_txt = <<>>
    /\ schedule_txt' =
          [n \in Node |-> [k \in DOMAIN workstations_opt[n] |->
                              workstations_opt[n][k].partition_id]]
    /\ UNCHANGED <<R_IDX, roundVars, bestVars>>

\* The partitions of every node, without the dummy tasks (WRITE_SCHEDULE is set).
WriteSchedule ==
    /\ R_IDX = RANDOM_NUM /\ schedule_txt = <<>>
    /\ schedule_txt' =
          [n \in Node |->
              LET real == SelectSeq(workstations_opt[n], LAMBDA t : t # DUMMY_TASK)
              IN [k \in DOMAIN real |-> real[k].partition_id]]
    /\ UNCHANGED <<R_IDX, roundVars, bestVars>>

Next == StartRound \/ Place \/ Loop \/ EndRound \/ WriteSchedule

Spec == Init /\ [][Next]_vars /\ WF_vars(Next)

-----------------------------------------------------------------------------
\* When node n is done with its first k tasks.
DoneAt(n, k) == TimeOf(SubSeq(workstations[n], 1, k))

(* The plan of every round, replayed from the lists of the nodes: no two    *)
(* nodes apply and send a partition at the same time.  (Tasks that are      *)
(* split over the nodes are not planned that way.)                          *)
AppliesApart ==
    \A n, m \in Node : n # m =>
        \A j \in DOMAIN workstations[n], k \in DOMAIN workstations[m] :
            LET one == workstations[n][j]
                other == workstations[m][k]
            IN {one, other} \subseteq forward_tasks =>
                  \/ DoneAt(n, j) <= DoneAt(m, k) - Apply
                  \/ DoneAt(m, k) <= DoneAt(n, j) - Apply

Task == [partition_id : Nat, exe_time : Nat]

(* What makes AppliesApart inductive: a node is done with its list at the   *)
(* time the scheduler counts, and global_timestamp has the time in which    *)
(* each task placed is applied.                                             *)
Planned ==
    /\ tasks \in Seq(Task) /\ left \in 0 .. Len(tasks)
    /\ workstations \in [Node -> Seq(Task)]
    /\ exe_time_per_worker = [n \in Node |-> TimeOf(workstations[n])]
    /\ \A r \in global_timestamp : r.lower \in Nat /\ r.upper = r.lower + Apply
    /\ \A n \in Node : \A j \in DOMAIN workstations[n] :
          workstations[n][j] \in forward_tasks =>
              [lower |-> DoneAt(n, j) - Apply, upper |-> DoneAt(n, j)] \in global_timestamp
    /\ AppliesApart
=============================================================================
