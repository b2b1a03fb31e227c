------------------------------- MODULE Bthread -------------------------------
(****************************************************************************)
(* Bare threads, verilog/dv/common/firmware/common_bthread.c: core 0, the   *)
(* master, hands functions to the worker cores through three arrays in      *)
(* memory, at the grain of single loads and stores; as it is used by        *)
(* verilog/dv/user_mcore_test1/user_mcore_test1.c, after the start-up code  *)
(* of crt.S, which every core runs for itself.                              *)
(*                                                                          *)
(* The function is vvadd_mt, which writes the elements of the range that is *)
(* its argument one by one; the sums are left out.  The stores are in the   *)
(* order of the source.                                                     *)
(****************************************************************************)
EXTENDS Image, Naturals, Sequences

CONSTANTS
  Workers,   \* the worker cores that there are
  Elements,  \* the elements of dest
  Mains   \* bound: what the master may do, see MainStep

Threads == 0..3
Harts == {0} \cup Workers
Jobs == [begin : Elements, end : Nat]
NoJob == [begin |-> 0, end |-> 0]

MainStep(op, thread, job) == [op |-> op, thread |-> thread, job |-> job]

ASSUME ThreadAssumption ==
  /\ Workers \subseteq 1..3 /\ Workers # {}
  /\ Elements \subseteq Nat
  /\ \A program \in Mains : \A k \in DOMAIN program :
       /\ program[k].op \in {"spawn", "work", "join"}
       /\ program[k].thread \in Nat
       /\ program[k].job \in Jobs \cup {NoJob}

VARIABLES
  g_thread_flags,             \* a thread has work
  g_thread_spawn_func_ptrs,   \* a function is set
  g_thread_spawn_func_args,
  tpc,                        \* per core
  job, element,                  \* per core: the range it works on, the next element
  program, step,              \* the master's program and how far it is
  dest,                       \* the elements that are written
  given,                      \* history: per thread, the last job it was given,
  spawned, ran,               \*   how many it was given and how many it began
  late                        \* history: a core cleared the memory after a spawn

threadArrays == <<g_thread_flags, g_thread_spawn_func_ptrs, g_thread_spawn_func_args>>
threadVars == <<image, threadArrays, tpc, job, element, program, step, dest, given, spawned, ran, late>>
threadHistory == <<given, spawned, ran, late>>

ThreadInit ==
  /\ g_thread_flags = [t \in Threads |-> FALSE]
  /\ g_thread_spawn_func_ptrs = [t \in Threads |-> FALSE]
  /\ g_thread_spawn_func_args = [t \in Threads |-> NoJob]
  /\ tpc = [c \in Harts |-> "crt"]
  /\ job = [c \in Harts |-> NoJob] /\ element = [c \in Harts |-> 0]
  /\ program \in Choice("threads", Mains) /\ step = 1
  /\ dest = {}
  /\ given = [t \in Threads |-> NoJob]
  /\ spawned = [t \in Threads |-> 0] /\ ran = [t \in Threads |-> 0]
  /\ late = FALSE

Goes(c, to) == tpc' = [tpc EXCEPT ![c] = to]

(* A spawn has begun to store.                                              *)
Spawning == tpc[0] \in {"ptr", "flag"} \/ \E t \in Threads : spawned[t] > 0

(* The start-up code clears the arrays, whoever runs it and whenever.       *)
ClearBss(c) ==
  /\ tpc[c] = "crt"
  /\ g_thread_flags' = [t \in Threads |-> FALSE]
  /\ g_thread_spawn_func_ptrs' = [t \in Threads |-> FALSE]
  /\ g_thread_spawn_func_args' = [t \in Threads |-> NoJob]
  /\ late' = (late \/ Spawning)
  /\ Goes(c, IF c = 0 THEN "init" ELSE "spin")
  /\ UNCHANGED <<job, element, program, step, dest, given, spawned, ran>>

------------------------------------------------------------------------------
(* The master.                                                              *)
bthread_init ==
  /\ tpc[0] = "init"
  /\ g_thread_flags' = [t \in Threads |-> t = 0]
  /\ Goes(0, "main")
  /\ UNCHANGED <<g_thread_spawn_func_ptrs, g_thread_spawn_func_args, job, element, program,
                 step, dest, threadHistory>>

AtStep(op) == tpc[0] = "main" /\ step \in DOMAIN program /\ program[step].op = op
thread == program[step].thread

(* The test for a thread at work left out.                                  *)
RefusedRange(t) == t = 0 \/ t \notin Harts

(* The test for a core that there is not left out.                          *)
RefusedBusy(t) == t = 0 \/ g_thread_flags[t]

(* Spawning onto the master, onto a core there is not or onto a busy thread *)
(* is an error.                                                             *)
Refused(t) == t = 0 \/ t \notin Harts \/ g_thread_flags[t]

bthread_spawn ==
  /\ AtStep("spawn")
  /\ IF Refused(thread)
       THEN step' = step + 1 /\ UNCHANGED <<tpc, g_thread_spawn_func_args, given>>
       ELSE /\ g_thread_spawn_func_args' =
                 [g_thread_spawn_func_args EXCEPT ![thread] = program[step].job]
            /\ given' = [given EXCEPT ![thread] = program[step].job]
            /\ Goes(0, "ptr")
            /\ UNCHANGED step
  /\ UNCHANGED <<g_thread_flags, g_thread_spawn_func_ptrs, job, element, program, dest,
                 spawned, ran, late>>

StoreFunction ==
  /\ tpc[0] = "ptr"
  /\ g_thread_spawn_func_ptrs' = [g_thread_spawn_func_ptrs EXCEPT ![thread] = TRUE]
  /\ Goes(0, "flag")
  /\ UNCHANGED <<g_thread_flags, g_thread_spawn_func_args, job, element, program, step, dest,
                 threadHistory>>

WakeUp ==
  /\ tpc[0] = "flag"
  /\ g_thread_flags' = [g_thread_flags EXCEPT ![thread] = TRUE]
  /\ spawned' = [spawned EXCEPT ![thread] = @ + 1]
  /\ Goes(0, "main") /\ step' = step + 1
  /\ UNCHANGED <<g_thread_spawn_func_ptrs, g_thread_spawn_func_args, job, element, program,
                 dest, given, ran, late>>

(* The master calls the function itself.                                    *)
Work ==
  /\ AtStep("work")
  /\ Goes(0, "run") /\ step' = step + 1
  /\ job' = [job EXCEPT ![0] = program[step].job]
  /\ element' = [element EXCEPT ![0] = program[step].job.begin]
  /\ UNCHANGED <<threadArrays, program, dest, threadHistory>>

bthread_join ==
  /\ AtStep("join")
  /\ thread \in 1..3 => ~g_thread_flags[thread]
  /\ step' = step + 1
  /\ UNCHANGED <<threadArrays, tpc, job, element, program, dest, threadHistory>>

------------------------------------------------------------------------------
(* The workers.                                                             *)
(* The flag taken down before the function is called.                       *)
WokenEarlyClear(c) ==
  /\ c # 0 /\ tpc[c] = "spin" /\ g_thread_flags[c]
  /\ g_thread_flags' = [g_thread_flags EXCEPT ![c] = FALSE]
  /\ Goes(c, "call")
  /\ UNCHANGED <<g_thread_spawn_func_ptrs, g_thread_spawn_func_args, job, element, program,
                 step, dest, threadHistory>>

Woken(c) ==
  /\ c # 0 /\ tpc[c] = "spin" /\ g_thread_flags[c]
  /\ Goes(c, "call")
  /\ UNCHANGED <<threadArrays, job, element, program, step, dest, threadHistory>>

(* A call through a null pointer is the end of the core.                    *)
Call(c) ==
  /\ tpc[c] = "call"
  /\ Goes(c, IF g_thread_spawn_func_ptrs[c] THEN "run" ELSE "lost")
  /\ job' = [job EXCEPT ![c] = g_thread_spawn_func_args[c]]
  /\ element' = [element EXCEPT ![c] = g_thread_spawn_func_args[c].begin]
  /\ ran' = [ran EXCEPT ![c] = @ + 1]
  /\ UNCHANGED <<threadArrays, program, step, dest, given, spawned, late>>

vvadd_mt(c) ==
  /\ tpc[c] = "run"
  /\ IF element[c] < job[c].end
       THEN /\ dest' = dest \cup {element[c]} /\ element' = [element EXCEPT ![c] = @ + 1]
            /\ UNCHANGED tpc
       ELSE Goes(c, IF c = 0 THEN "main" ELSE "done") /\ UNCHANGED <<dest, element>>
  /\ UNCHANGED <<threadArrays, job, program, step, threadHistory>>

Done(c) ==
  /\ c # 0 /\ tpc[c] = "done"
  /\ g_thread_flags' = [g_thread_flags EXCEPT ![c] = FALSE]
  /\ Goes(c, "spin")
  /\ UNCHANGED <<g_thread_spawn_func_ptrs, g_thread_spawn_func_args, job, element, program,
                 step, dest, threadHistory>>

Master ==
  \/ ClearBss(0) \/ bthread_init \/ bthread_spawn \/ StoreFunction \/ WakeUp
  \/ Work \/ vvadd_mt(0) \/ bthread_join

Worker(c) == ClearBss(c) \/ Woken(c) \/ Call(c) \/ vvadd_mt(c) \/ Done(c)

ThreadStep(A) == Runs("threads") /\ A /\ UNCHANGED image

ThreadNext == ThreadStep(Master \/ \E c \in Workers : Worker(c))

ThreadSpec == ThreadInit /\ [][ThreadNext]_threadVars

------------------------------------------------------------------------------
Elems(j) == j.begin..(j.end - 1)

(* As long as no core boots after a spawn: a worker runs the job it was     *)
(* given last, every job once and none that was not given, though master    *)
(* and workers share the arrays without a lock.                             *)
JobsRight ==
  ~late => \A c \in Workers :
    /\ tpc[c] # "lost"
    /\ tpc[c] \in {"run", "done"} => job[c] = given[c]
    /\ spawned[c] = ran[c] + (IF g_thread_flags[c] /\ tpc[c] \in {"crt", "spin", "call"}
                                THEN 1 ELSE 0)

(* "It waits for a designated worker core until the worker core finishes    *)
(* executing its function (if any) then returns" (common_bthread.h, lines   *)
(* 25-27): when a join is passed, all that was given to the worker has been *)
(* written.                                                                 *)
JoinMeansDone ==
  [][bthread_join /\ thread \in Workers /\ ~late => Elems(given[thread]) \subseteq dest]_threadVars

(* The master comes to the end of its program, unless a core boots so late  *)
(* that it wipes a spawn out.                                               *)
ProgramEnds == Runs("threads") => <>(step > Len(program) \/ late)

==============================================================================
