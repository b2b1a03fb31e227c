---------------------------- MODULE FirmwareProofs ----------------------------
(****************************************************************************)
(* The programs, for every value of their constants.                        *)
(****************************************************************************)
EXTENDS MCFirmware, SequenceTheorems, FiniteSetTheorems, TLAPS

Places == {"reset", "boot", "wait", "lock", "poll", "put", "release"}

PrintTypes ==
  /\ pc \in [Cores -> Places] /\ msg \in [Cores -> Nat]
  /\ bus \in Cores \cup {NoCore}
  /\ reg_ack \in BOOLEAN /\ reg_rdata \in BOOLEAN

(* The access on the bus is of a core at its lock; the acknowledge is up
   for an access only; what was caught at the select is still true. *)
AccessHolds ==
  /\ bus = NoCore => ~reg_ack
  /\ bus # NoCore => pc[bus] \in {"lock", "release"}
  /\ bus # NoCore /\ reg_ack /\ pc[bus] = "lock" => (reg_rdata <=> Lock \notin reg_0)

(* In the sketch core 0 is the first to leave the reset. *)
BootsFirst == sketch /\ pc[0] = "boot" => \A c \in Cores : c = 0 \/ pc[c] = "reset"

PrintInv == PrintTypes /\ AccessHolds /\ BootsFirst /\ MutualExclusion

LEMMA CoreIsNotNone == ASSUME NEW c \in Cores PROVE c # NoCore
BY PrintAssumption DEF NoCore

(* A step that leaves the bus idle and keeps who is in the section. *)
LEMMA SectionKept ==
  ASSUME PrintInv, PrintTypes', BootsFirst', reg_0' = reg_0, bus' = NoCore, ~reg_ack',
         \A c \in Cores : InSection(c)' <=> InSection(c)
  PROVE  PrintInv'
BY DEF PrintInv, AccessHolds, MutualExclusion

LEMMA PrintInitInv == PrintInit => PrintInv
BY PrintAssumption
   DEF PrintInit, SemaInit, PrintInv, PrintTypes, AccessHolds, BootsFirst, MutualExclusion,
       InSection,
       Places, NoCore, Lock

(* The clock edge of an access, by its two halves. *)
LEMMA ClockKeeps ==
  ASSUME PrintInv, SemaphoreClock PROVE PrintInv'
<1>. DEFINE c == bus
<1>1. c \in Cores /\ pc[c] \in {"lock", "release"} /\ bus # NoCore
  BY DEF PrintInv, PrintTypes, AccessHolds, SemaphoreClock
<1>5. BootsFirst'
  <2>1. pc' = pc \/ \E to \in {"lock", "poll"} : pc' = [pc EXCEPT ![c] = to]
    BY DEF SemaphoreClock, Released, GotLock, Go
  <2>2. \A d \in Cores : /\ pc'[d] = "boot" => pc[d] = "boot"
                         /\ pc[d] = "reset" => pc'[d] = "reset"
    BY <2>1, <1>1 DEF PrintInv, PrintTypes
  <2>. QED  BY <2>2, <1>1, PrintAssumption DEF PrintInv, PrintTypes, BootsFirst, SemaphoreClock
<1>2. CASE ~reg_ack
  <2>1. /\ reg_ack' /\ reg_0' = reg_0 /\ UNCHANGED <<pc, msg, bus>>
        /\ reg_rdata' = (Lock \notin reg_0)
    BY <1>2 DEF SemaphoreClock, SemaEdge, PrintInv, PrintTypes
  <2>2. PrintTypes'
    BY <2>1 DEF PrintInv, PrintTypes
  <2>3. AccessHolds'
    BY <2>1, <1>1 DEF AccessHolds
  <2>4. MutualExclusion'
    BY <2>1 DEF PrintInv, MutualExclusion, InSection
  <2>. QED  BY <2>2, <2>3, <2>4, <1>5 DEF PrintInv
<1>3. CASE reg_ack /\ pc[c] = "release"
  <2>1. /\ reg_ack' = FALSE /\ reg_rdata' = reg_rdata /\ bus' = NoCore
        /\ pc' = [pc EXCEPT ![c] = "lock"] /\ msg' = [msg EXCEPT ![c] = @ + 1]
        /\ reg_0' = Toggled(Lock)
    BY <1>3 DEF SemaphoreClock, SemaEdge, Released, Go, Changed
  <2>2. PrintTypes'
    <3>1. pc' \in [Cores -> Places]
      BY <2>1, <1>1 DEF PrintInv, PrintTypes, Places
    <3>2. msg' \in [Cores -> Nat]
      BY <2>1, <1>1 DEF PrintInv, PrintTypes
    <3>. QED  BY <3>1, <3>2, <2>1 DEF PrintInv, PrintTypes
  <2>3. AccessHolds'
    BY <2>1 DEF AccessHolds
  <2>4. InSection(c) /\ Lock \in reg_0
    BY <1>1, <1>3 DEF PrintInv, MutualExclusion, InSection
  <2>5. reg_0' = reg_0 \ {Lock}
    BY <2>1, <2>4 DEF Toggled
  <2>6. \A d \in Cores : ~InSection(d)'
    BY <2>1, <2>4, <1>1 DEF PrintInv, PrintTypes, MutualExclusion, InSection
  <2>7. MutualExclusion'
    BY <2>5, <2>6 DEF MutualExclusion
  <2>. QED  BY <2>2, <2>3, <2>7, <1>5 DEF PrintInv
<1>4. CASE reg_ack /\ pc[c] = "lock"
  <2>1. /\ reg_ack' = FALSE /\ reg_rdata' = reg_rdata /\ bus' = NoCore
        /\ reg_0' = reg_0 \cup {Lock} /\ msg' = msg
        /\ pc' = [pc EXCEPT ![c] = "poll"] \/ pc' = pc
        /\ pc' = IF reg_rdata THEN [pc EXCEPT ![c] = "poll"] ELSE pc
    BY <1>4 DEF SemaphoreClock, SemaEdge, GotLock, Go, Changed
  <2>2. PrintTypes'
    <3>1. pc' \in [Cores -> Places]
      BY <2>1, <1>1 DEF PrintInv, PrintTypes, Places
    <3>. QED  BY <3>1, <2>1 DEF PrintInv, PrintTypes
  <2>3. AccessHolds'
    BY <2>1 DEF AccessHolds
  <2>4. reg_rdata <=> Lock \notin reg_0
    BY <1>1, <1>4 DEF PrintInv, AccessHolds
  <2>5. CASE reg_rdata
    <3>1. \A d \in Cores : ~InSection(d)
      BY <2>4, <2>5 DEF PrintInv, MutualExclusion
    <3>2. \A d \in Cores : InSection(d)' <=> d = c
      BY <3>1, <2>1, <2>5, <1>1 DEF PrintInv, PrintTypes, InSection
    <3>3. MutualExclusion'
      BY <3>2, <2>1, <1>1 DEF MutualExclusion
    <3>. QED  BY <3>3, <2>2, <2>3, <1>5 DEF PrintInv
  <2>6. CASE ~reg_rdata
    <3>1. pc' = pc /\ reg_0' = reg_0
      BY <2>1, <2>4, <2>6
    <3>2. MutualExclusion'
      BY <3>1 DEF PrintInv, MutualExclusion, InSection
    <3>. QED  BY <3>2, <2>2, <2>3, <1>5 DEF PrintInv
  <2>. QED  BY <2>5, <2>6
<1>. QED  BY <1>1, <1>2, <1>3, <1>4

LEMMA CoreKeeps ==
  ASSUME PrintInv, NEW c \in Cores, Core(c) PROVE PrintInv'
<1>1. bus = NoCore /\ ~reg_ack /\ c # NoCore
  BY CoreIsNotNone
     DEF Core, Boot, WaitForStart, AccessLock, PollUart, PutCharacter, PrintInv, AccessHolds
<1>7. BootsFirst'
  BY PrintAssumption
     DEF Core, Boot, WaitForStart, AccessLock, PollUart, PutCharacter, Go, PrintInv,
         PrintTypes, BootsFirst
<1>2. CASE Boot(c)
  <2>1. PrintTypes'
    BY <1>2 DEF Boot, PrintInv, PrintTypes, Places, semaVars
  <2>2. \A d \in Cores : InSection(d)' => InSection(d)
    BY <1>2 DEF Boot, PrintInv, PrintTypes, InSection
  <2>3. ASSUME NEW d \in Cores, InSection(d) PROVE InSection(d)'
    BY <1>2, <2>3 DEF Boot, PrintInv, PrintTypes, BootsFirst, InSection
  <2>. QED  BY <2>1, <2>2, <2>3, <1>1, <1>7, <1>2, SectionKept DEF Boot, semaVars
<1>3. CASE WaitForStart(c)
  <2>1. PrintTypes' /\ \A d \in Cores : InSection(d)' <=> InSection(d)
    BY <1>3 DEF WaitForStart, Go, PrintInv, PrintTypes, Places, InSection, semaVars
  <2>. QED  BY <2>1, <1>1, <1>7, <1>3, SectionKept DEF WaitForStart, semaVars
<1>4. CASE AccessLock(c)
  <2>1. PrintTypes' /\ MutualExclusion'
    BY <1>4 DEF AccessLock, PrintInv, PrintTypes, MutualExclusion, InSection, semaVars
  <2>2. AccessHolds'
    BY <1>4, <1>1 DEF AccessLock, AccessHolds, semaVars
  <2>. QED  BY <2>1, <2>2, <1>7 DEF PrintInv
<1>5. CASE PollUart(c)
  <2>1. PrintTypes' /\ \A d \in Cores : InSection(d)' <=> InSection(d)
    BY <1>5 DEF PollUart, Go, PrintInv, PrintTypes, Places, InSection, semaVars
  <2>. QED  BY <2>1, <1>1, <1>7, <1>5, SectionKept DEF PollUart, semaVars
<1>6. CASE PutCharacter(c)
  <2>1. PrintTypes' /\ \A d \in Cores : InSection(d)' <=> InSection(d)
    BY <1>6 DEF PutCharacter, Go, PrintInv, PrintTypes, Places, InSection, semaVars
  <2>. QED  BY <2>1, <1>1, <1>7, <1>6, SectionKept DEF PutCharacter, semaVars
<1>. QED  BY <1>2, <1>3, <1>4, <1>5, <1>6 DEF Core

LEMMA PrintNextInv == PrintInv /\ [PrintNext]_printVars => PrintInv'
<1>. SUFFICES ASSUME PrintInv, [PrintNext]_printVars PROVE PrintInv'
  OBVIOUS
<1>1. CASE UNCHANGED printVars
  BY <1>1 DEF printVars, semaVars, PrintInv, PrintTypes, AccessHolds, BootsFirst, MutualExclusion,
       InSection
<1>2. CASE set_tb_ready \/ UartSends
  BY <1>2 DEF set_tb_ready, UartSends, semaVars, PrintInv, PrintTypes, AccessHolds,
              BootsFirst, MutualExclusion, InSection
<1>3. CASE SemaphoreClock
  BY <1>3, ClockKeeps
<1>4. CASE \E c \in Cores : Core(c)
  BY <1>4, CoreKeeps
<1>. QED  BY <1>1, <1>2, <1>3, <1>4 DEF PrintNext, PrintStep

(* However many cores print, two of them are never between taking the lock
   and releasing it, and the lock is taken exactly while one is
   (semaphore_reg.sv, lines 105-110). *)
THEOREM Excludes == PrintSpec => []MutualExclusion
<1>1. PrintInv => MutualExclusion
  BY DEF PrintInv
<1>. QED  BY <1>1, PrintInitInv, PrintNextInv, PTL DEF PrintSpec

------------------------------------------------------------------------------
AnyJob == Jobs \cup {NoJob}
MasterPlaces == {"crt", "init", "main", "ptr", "flag", "run"}
WorkerPlaces == {"crt", "spin", "call", "run", "done", "lost"}

ThreadTypes ==
  /\ g_thread_flags \in [Threads -> BOOLEAN]
  /\ g_thread_spawn_func_ptrs \in [Threads -> BOOLEAN]
  /\ g_thread_spawn_func_args \in [Threads -> AnyJob]
  /\ tpc \in [Harts -> MasterPlaces \cup WorkerPlaces]
  /\ tpc[0] \in MasterPlaces /\ \A c \in Workers : tpc[c] \in WorkerPlaces
  /\ job \in [Harts -> AnyJob] /\ element \in [Harts -> Nat]
  /\ program \in Mains /\ step \in Nat
  /\ given \in [Threads -> AnyJob]
  /\ spawned \in [Threads -> Nat] /\ ran \in [Threads -> Nat]
  /\ late \in BOOLEAN

(* Between its three stores a spawn is for a worker that has no work. *)
SpawnHolds ==
  /\ tpc[0] \in {"crt", "init"} => \A c \in Workers : spawned[c] = 0
  /\ tpc[0] \in {"ptr", "flag"} =>
       /\ step \in DOMAIN program /\ thread \in Workers
       /\ ~late =>
            /\ ~g_thread_flags[thread]
            /\ g_thread_spawn_func_args[thread] = given[thread]
            /\ tpc[0] = "flag" => g_thread_spawn_func_ptrs[thread]

Stores(c) == tpc[0] \in {"ptr", "flag"} /\ thread = c

(* What a worker finds in the arrays while it is at each place. *)
WorkerHolds(c) ==
  /\ tpc[c] # "lost"
  /\ g_thread_flags[c] =>
       /\ g_thread_spawn_func_ptrs[c] /\ g_thread_spawn_func_args[c] = given[c]
       /\ spawned[c] > 0
  /\ tpc[c] \in {"call", "run", "done"} => g_thread_flags[c]
  /\ tpc[c] \in {"run", "done"} => job[c] = given[c]
  /\ spawned[c] = ran[c] + (IF g_thread_flags[c] /\ tpc[c] \in {"crt", "spin", "call"}
                              THEN 1 ELSE 0)

(* What of its job is written. *)
Filled(c) ==
  /\ tpc[c] = "run" => \A e \in Elems(job[c]) : e < element[c] => e \in dest
  /\ tpc[c] = "done" => Elems(job[c]) \subseteq dest
  /\ ~g_thread_flags[c] /\ ~Stores(c) => Elems(given[c]) \subseteq dest

ThreadInv ==
  /\ ThreadTypes /\ SpawnHolds
  /\ ~late => \A c \in Workers : WorkerHolds(c) /\ Filled(c)

(* A program that is not loaded does nothing. *)
ThreadIInv == IF Runs("threads") THEN ThreadInv ELSE JobsRight

LEMMA HartFacts ==
  /\ 0 \in Harts /\ 0 \in Threads /\ 0 \notin Workers
  /\ Workers \subseteq Harts /\ Workers \subseteq Threads /\ Harts \subseteq Threads
BY ThreadAssumption DEF Harts, Threads

LEMMA JobFacts ==
  ASSUME NEW j \in AnyJob
  PROVE  j.begin \in Nat /\ j.end \in Nat /\ Elems(j) = {e \in Nat : j.begin <= e /\ e < j.end}
<1>1. j.begin \in Nat /\ j.end \in Nat
  <2>1. CASE j \in Jobs
    BY <2>1, ThreadAssumption DEF Jobs
  <2>2. CASE j = NoJob
    BY <2>2 DEF NoJob
  <2>. QED  BY <2>1, <2>2 DEF AnyJob
<1>. QED  BY <1>1 DEF Elems

LEMMA NoJobFacts == NoJob \in AnyJob /\ Elems(NoJob) = {}
BY DEF AnyJob, NoJob, Elems

LEMMA ProgramFacts ==
  ASSUME ThreadTypes, step \in DOMAIN program
  PROVE  program[step].job \in AnyJob /\ thread \in Nat
BY ThreadAssumption DEF ThreadTypes, AnyJob, thread

LEMMA ThreadInvRight == ThreadInv => JobsRight
BY DEF ThreadInv, WorkerHolds, JobsRight

LEMMA ThreadInitInv == ThreadInit => ThreadIInv
<1>. SUFFICES ASSUME ThreadInit PROVE ThreadIInv
  OBVIOUS
<1>1. JobsRight
  BY HartFacts DEF ThreadInit, JobsRight, Threads
<1>2. ASSUME Runs("threads") PROVE ThreadInv
  <2>1. program \in Mains
    BY <1>2 DEF ThreadInit, Choice
  <2>2. ThreadTypes
    BY <2>1, HartFacts, NoJobFacts
       DEF ThreadInit, ThreadTypes, MasterPlaces, WorkerPlaces, Threads
  <2>3. SpawnHolds
    BY HartFacts DEF ThreadInit, SpawnHolds
  <2>4. \A c \in Workers : WorkerHolds(c) /\ Filled(c)
    BY HartFacts, NoJobFacts DEF ThreadInit, WorkerHolds, Filled
  <2>. QED  BY <2>2, <2>3, <2>4 DEF ThreadInv
<1>. QED  BY <1>1, <1>2 DEF ThreadIInv

------------------------------------------------------------------------------
(* The start-up code, of any core. *)
LEMMA ClearBssKeeps ==
  ASSUME ThreadInv, NEW h \in Harts, ClearBss(h) PROVE ThreadInv'
<1>. USE HartFacts
<1>1. ThreadTypes'
  BY NoJobFacts DEF ThreadInv, ThreadTypes, ClearBss, Goes, MasterPlaces, WorkerPlaces,
                    Spawning, Threads
<1>2. ASSUME ~late' PROVE ~late /\ ~Spawning /\ \A c \in Workers : spawned[c] = 0
  <2>1. ~late /\ ~Spawning
    BY <1>2 DEF ClearBss
  <2>2. \A t \in Threads : ~(spawned[t] > 0) /\ spawned[t] \in Nat
    BY <2>1 DEF Spawning, ThreadInv, ThreadTypes
  <2>3. \A t \in Threads : spawned[t] = 0
    BY <2>2
  <2>. QED  BY <2>1, <2>3
<1>3. SpawnHolds'
  <2>1. tpc'[0] \in {"ptr", "flag"} => tpc'[0] = tpc[0] /\ tpc[0] \in {"ptr", "flag"}
    BY DEF ClearBss, Goes, ThreadInv, ThreadTypes
  <2>2. tpc'[0] \in {"crt", "init"} => tpc[0] \in {"crt", "init"}
    BY DEF ClearBss, Goes, ThreadInv, ThreadTypes
  <2>3. late' \/ tpc[0] \notin {"ptr", "flag"}
    BY <1>2 DEF Spawning
  <2>. QED  BY <2>1, <2>2, <2>3 DEF ClearBss, SpawnHolds, ThreadInv, thread
<1>4. ASSUME ~late', NEW c \in Workers PROVE (WorkerHolds(c) /\ Filled(c))'
  <2>1. WorkerHolds(c) /\ Filled(c) /\ ~g_thread_flags[c] /\ ~Spawning
    BY <1>2, <1>4 DEF ThreadInv, WorkerHolds, ThreadTypes
  <2>2. tpc[c] \in {"crt", "spin"} /\ ~Stores(c)
    BY <2>1 DEF WorkerHolds, ThreadInv, ThreadTypes, WorkerPlaces, Stores, Spawning
  <2>3. tpc'[c] \in {"crt", "spin"} /\ ~g_thread_flags'[c]
    BY <2>2 DEF ClearBss, Goes, ThreadInv, ThreadTypes, Threads
  <2>4. UNCHANGED <<job, given, spawned, ran, dest, element>>
    BY DEF ClearBss
  <2>. QED  BY <2>1, <2>2, <2>3, <2>4 DEF WorkerHolds, Filled, ThreadInv, ThreadTypes
<1>. QED  BY <1>1, <1>3, <1>4 DEF ThreadInv

------------------------------------------------------------------------------
(* The master. *)

(* A step of the master that leaves the workers, their arrays and history
   alone and is not in the middle of a spawn, before or after. *)
LEMMA MasterElsewhere ==
  ASSUME ThreadInv, ThreadTypes',
         UNCHANGED <<threadArrays, threadHistory>>,
         \A c \in Workers : tpc'[c] = tpc[c] /\ job'[c] = job[c] /\ element'[c] = element[c],
         dest \subseteq dest',
         tpc[0] \in {"main", "run"}, tpc'[0] \in {"main", "run"}
  PROVE  ThreadInv'
<1>1. SpawnHolds'
  BY DEF SpawnHolds
<1>2. ASSUME ~late', NEW c \in Workers PROVE (WorkerHolds(c) /\ Filled(c))'
  <2>1. WorkerHolds(c) /\ Filled(c) /\ ~Stores(c)
    BY <1>2 DEF ThreadInv, threadHistory, Stores
  <2>2. WorkerHolds(c)'
    BY <2>1, <1>2 DEF WorkerHolds, threadArrays, threadHistory
  <2>3. Filled(c)'
    BY <2>1, <1>2 DEF Filled, threadArrays, threadHistory
  <2>. QED  BY <2>2, <2>3
<1>. QED  BY <1>1, <1>2 DEF ThreadInv

LEMMA InitKeeps ==
  ASSUME ThreadInv, bthread_init PROVE ThreadInv'
<1>. USE HartFacts
<1>1. ThreadTypes' /\ SpawnHolds'
  BY DEF bthread_init, Goes, ThreadInv, ThreadTypes, SpawnHolds, MasterPlaces, WorkerPlaces,
         threadHistory
<1>2. ASSUME ~late', NEW c \in Workers PROVE (WorkerHolds(c) /\ Filled(c))'
  <2>1. WorkerHolds(c) /\ Filled(c) /\ spawned[c] = 0 /\ ~Stores(c)
    BY <1>2 DEF ThreadInv, bthread_init, threadHistory, SpawnHolds, Stores
  <2>2. ~g_thread_flags[c] /\ ~g_thread_flags'[c] /\ tpc'[c] = tpc[c]
    BY <2>1 DEF WorkerHolds, bthread_init, Goes, ThreadInv, ThreadTypes
  <2>. QED  BY <2>1, <2>2 DEF bthread_init, threadHistory, WorkerHolds, Filled
<1>. QED  BY <1>1, <1>2 DEF ThreadInv

LEMMA SpawnKeeps ==
  ASSUME ThreadInv, bthread_spawn PROVE ThreadInv'
<1>. USE HartFacts
<1>1. step \in DOMAIN program /\ tpc[0] = "main"
  BY DEF bthread_spawn, AtStep
<1>2. CASE Refused(thread)
  <2>1. UNCHANGED <<threadArrays, threadHistory, tpc, job, element, dest, program>>
        /\ step' = step + 1
    BY <1>2 DEF bthread_spawn, threadArrays, threadHistory
  <2>2. ThreadTypes'
    BY <2>1 DEF ThreadInv, ThreadTypes, threadArrays, threadHistory
  <2>. QED  BY <1>1, <2>1, <2>2, MasterElsewhere
<1>3. CASE ~Refused(thread)
  <2>1. thread \in Workers /\ ~g_thread_flags[thread] /\ program[step].job \in AnyJob
    BY <1>1, <1>3, ProgramFacts DEF Refused, Harts, ThreadInv
  <2>2. /\ g_thread_spawn_func_args' =
             [g_thread_spawn_func_args EXCEPT ![thread] = program[step].job]
        /\ given' = [given EXCEPT ![thread] = program[step].job]
        /\ tpc' = [tpc EXCEPT ![0] = "ptr"]
        /\ UNCHANGED <<step, g_thread_flags, g_thread_spawn_func_ptrs, job, element, program,
                       dest, spawned, ran, late>>
    BY <1>3 DEF bthread_spawn, Goes
  <2>3. thread' = thread
    BY <2>2 DEF thread
  <2>4. ThreadTypes'
    BY <2>1, <2>2 DEF ThreadInv, ThreadTypes, MasterPlaces
  <2>5. SpawnHolds'
    BY <1>1, <2>1, <2>2, <2>3 DEF ThreadInv, ThreadTypes, SpawnHolds
  <2>6. ASSUME ~late', NEW c \in Workers PROVE (WorkerHolds(c) /\ Filled(c))'
    <3>1. WorkerHolds(c) /\ Filled(c) /\ tpc'[c] = tpc[c] /\ ~Stores(c)
      BY <1>1, <2>2, <2>6 DEF ThreadInv, ThreadTypes, Stores
    <3>2. CASE c = thread
      <4>1. Stores(c)' /\ ~g_thread_flags'[c] /\ tpc'[c] \notin {"call", "run", "done"}
        BY <2>1, <2>2, <2>3, <3>1, <3>2 DEF Stores, ThreadInv, ThreadTypes, WorkerHolds
      <4>. QED  BY <3>1, <4>1, <2>2 DEF WorkerHolds, Filled
    <3>3. CASE c # thread
      <4>1. g_thread_spawn_func_args'[c] = g_thread_spawn_func_args[c] /\ given'[c] = given[c]
        BY <2>2, <3>3 DEF ThreadInv, ThreadTypes
      <4>. QED  BY <3>1, <4>1, <2>2 DEF WorkerHolds, Filled
    <3>. QED  BY <3>2, <3>3
  <2>. QED  BY <2>4, <2>5, <2>6 DEF ThreadInv
<1>. QED  BY <1>2, <1>3

LEMMA StoreFunctionKeeps ==
  ASSUME ThreadInv, StoreFunction PROVE ThreadInv'
<1>. USE HartFacts
<1>1. /\ g_thread_spawn_func_ptrs' = [g_thread_spawn_func_ptrs EXCEPT ![thread] = TRUE]
      /\ tpc[0] = "ptr" /\ tpc' = [tpc EXCEPT ![0] = "flag"]
      /\ UNCHANGED <<g_thread_flags, g_thread_spawn_func_args, job, element, program, step,
                     dest, given, spawned, ran, late>>
  BY DEF StoreFunction, Goes, threadHistory
<1>2. thread' = thread /\ thread \in Workers
  BY <1>1 DEF thread, ThreadInv, SpawnHolds
<1>3. ThreadTypes'
  BY <1>1, <1>2 DEF ThreadInv, ThreadTypes, MasterPlaces
<1>4. SpawnHolds'
  BY <1>1, <1>2 DEF ThreadInv, ThreadTypes, SpawnHolds
<1>5. ASSUME ~late', NEW c \in Workers PROVE (WorkerHolds(c) /\ Filled(c))'
  <2>1. WorkerHolds(c) /\ Filled(c) /\ tpc'[c] = tpc[c] /\ (Stores(c)' <=> Stores(c))
    BY <1>1, <1>2, <1>5 DEF ThreadInv, ThreadTypes, Stores
  <2>2. g_thread_spawn_func_ptrs[c] => g_thread_spawn_func_ptrs'[c]
    BY <1>1, <1>2 DEF ThreadInv, ThreadTypes
  <2>. QED  BY <1>1, <2>1, <2>2 DEF WorkerHolds, Filled
<1>. QED  BY <1>3, <1>4, <1>5 DEF ThreadInv

LEMMA WakeUpKeeps ==
  ASSUME ThreadInv, WakeUp PROVE ThreadInv'
<1>. USE HartFacts
<1>1. /\ g_thread_flags' = [g_thread_flags EXCEPT ![thread] = TRUE]
      /\ spawned' = [spawned EXCEPT ![thread] = @ + 1]
      /\ tpc[0] = "flag" /\ tpc' = [tpc EXCEPT ![0] = "main"] /\ step' = step + 1
      /\ UNCHANGED <<g_thread_spawn_func_ptrs, g_thread_spawn_func_args, job, element,
                     program, dest, given, ran, late>>
  BY DEF WakeUp, Goes
<1>2. thread \in Workers
  BY <1>1 DEF ThreadInv, SpawnHolds
<1>3. ThreadTypes'
  BY <1>1, <1>2 DEF ThreadInv, ThreadTypes, MasterPlaces
<1>4. SpawnHolds'
  BY <1>1 DEF ThreadInv, ThreadTypes, SpawnHolds
<1>5. ASSUME ~late', NEW c \in Workers PROVE (WorkerHolds(c) /\ Filled(c))'
  <2>1. WorkerHolds(c) /\ Filled(c) /\ tpc'[c] = tpc[c]
        /\ spawned[c] \in Nat /\ ran[c] \in Nat
    BY <1>1, <1>5 DEF ThreadInv, ThreadTypes
  <2>2. CASE c = thread
    <3>1. /\ ~g_thread_flags[c] /\ g_thread_spawn_func_args[c] = given[c]
          /\ g_thread_spawn_func_ptrs[c]
      BY <1>1, <1>5, <2>2 DEF ThreadInv, SpawnHolds
    <3>2. g_thread_flags'[c] /\ spawned'[c] = spawned[c] + 1
      BY <1>1, <1>2, <2>2 DEF ThreadInv, ThreadTypes
    <3>3. tpc[c] \in {"crt", "spin"} /\ spawned[c] = ran[c]
      BY <2>1, <3>1 DEF WorkerHolds, ThreadInv, ThreadTypes, WorkerPlaces
    <3>. QED  BY <1>1, <2>1, <3>1, <3>2, <3>3 DEF WorkerHolds, Filled
  <2>3. CASE c # thread
    <3>1. g_thread_flags'[c] = g_thread_flags[c] /\ spawned'[c] = spawned[c] /\ ~Stores(c)
      BY <1>1, <1>2, <2>3 DEF ThreadInv, ThreadTypes, Stores
    <3>. QED  BY <1>1, <2>1, <3>1 DEF WorkerHolds, Filled
  <2>. QED  BY <2>2, <2>3
<1>. QED  BY <1>3, <1>4, <1>5 DEF ThreadInv

LEMMA WorkKeeps ==
  ASSUME ThreadInv, Work PROVE ThreadInv'
<1>. USE HartFacts
<1>1. step \in DOMAIN program /\ tpc[0] = "main" /\ program[step].job \in AnyJob
  BY ProgramFacts DEF Work, AtStep, ThreadInv
<1>2. program[step].job.begin \in Nat
  BY <1>1, JobFacts
<1>3. ThreadTypes'
  BY <1>1, <1>2 DEF Work, Goes, ThreadInv, ThreadTypes, MasterPlaces, threadArrays, threadHistory
<1>. QED  BY <1>1, <1>3, MasterElsewhere DEF Work, Goes, ThreadInv, ThreadTypes, threadHistory

LEMMA JoinKeeps ==
  ASSUME ThreadInv, bthread_join PROVE ThreadInv'
<1>1. ThreadTypes'
  BY DEF bthread_join, ThreadInv, ThreadTypes, threadArrays, threadHistory
<1>. QED  BY <1>1, MasterElsewhere DEF bthread_join, AtStep, threadHistory

------------------------------------------------------------------------------
(* The workers. *)

(* A step of one worker leaves the spawn alone and the other workers too. *)
LEMMA OthersKept ==
  ASSUME ThreadInv, ThreadTypes', NEW w \in Workers,
         UNCHANGED <<g_thread_spawn_func_ptrs, g_thread_spawn_func_args, program, step, given,
                     spawned, late>>,
         tpc'[0] = tpc[0], dest \subseteq dest',
         g_thread_flags' = g_thread_flags
           \/ g_thread_flags' = [g_thread_flags EXCEPT ![w] = FALSE],
         \A c \in Workers \ {w} : /\ tpc'[c] = tpc[c] /\ job'[c] = job[c]
                                  /\ element'[c] = element[c] /\ ran'[c] = ran[c],
         ~late => (WorkerHolds(w) /\ Filled(w))'
  PROVE  ThreadInv'
<1>. USE HartFacts
<1>1. SpawnHolds'
  <2>1. thread' = thread
    BY DEF thread
  <2>2. ~g_thread_flags[thread] /\ thread \in Workers => ~g_thread_flags'[thread]
    BY DEF ThreadInv, ThreadTypes
  <2>. QED  BY <2>1, <2>2 DEF ThreadInv, SpawnHolds
<1>2. ASSUME ~late', NEW c \in Workers PROVE (WorkerHolds(c) /\ Filled(c))'
  <2>1. CASE c = w
    BY <1>2, <2>1
  <2>2. CASE c # w
    <3>1. WorkerHolds(c) /\ Filled(c) /\ g_thread_flags'[c] = g_thread_flags[c]
      BY <1>2, <2>2 DEF ThreadInv, ThreadTypes
    <3>2. Stores(c)' <=> Stores(c)
      BY DEF Stores, thread
    <3>. QED  BY <3>1, <3>2, <2>2 DEF WorkerHolds, Filled
  <2>. QED  BY <2>1, <2>2
<1>. QED  BY <1>1, <1>2 DEF ThreadInv

LEMMA WokenKeeps ==
  ASSUME ThreadInv, NEW w \in Workers, Woken(w) PROVE ThreadInv'
<1>. USE HartFacts
<1>1. /\ tpc[w] = "spin" /\ g_thread_flags[w] /\ tpc' = [tpc EXCEPT ![w] = "call"]
      /\ UNCHANGED <<g_thread_flags, g_thread_spawn_func_ptrs, g_thread_spawn_func_args, job,
                     element, program, step, dest, given, spawned, ran, late>>
  BY DEF Woken, Goes, threadArrays, threadHistory
<1>2. ThreadTypes'
  BY <1>1 DEF ThreadInv, ThreadTypes, WorkerPlaces
<1>3. ~late => (WorkerHolds(w) /\ Filled(w))'
  BY <1>1 DEF ThreadInv, ThreadTypes, WorkerHolds, Filled
<1>. QED  BY <1>1, <1>2, <1>3, OthersKept DEF ThreadInv, ThreadTypes

LEMMA CallKeeps ==
  ASSUME ThreadInv, NEW w \in Workers, Call(w) PROVE ThreadInv'
<1>. USE HartFacts
<1>. DEFINE arg == g_thread_spawn_func_args[w]
<1>1. /\ tpc[w] = "call"
      /\ tpc' = [tpc EXCEPT ![w] = IF g_thread_spawn_func_ptrs[w] THEN "run" ELSE "lost"]
      /\ job' = [job EXCEPT ![w] = arg] /\ element' = [element EXCEPT ![w] = arg.begin]
      /\ ran' = [ran EXCEPT ![w] = @ + 1]
      /\ UNCHANGED <<g_thread_flags, g_thread_spawn_func_ptrs, g_thread_spawn_func_args,
                     program, step, dest, given, spawned, late>>
  BY DEF Call, Goes, threadArrays
<1>2. arg \in AnyJob /\ arg.begin \in Nat /\ Elems(arg) = {e \in Nat : arg.begin <= e /\ e < arg.end}
  <2>1. arg \in AnyJob
    BY DEF ThreadInv, ThreadTypes
  <2>. QED  BY <2>1, JobFacts
<1>3. ThreadTypes'
  BY <1>1, <1>2 DEF ThreadInv, ThreadTypes, WorkerPlaces
<1>4. ASSUME ~late PROVE (WorkerHolds(w) /\ Filled(w))'
  <2>1. /\ WorkerHolds(w) /\ g_thread_flags[w] /\ g_thread_spawn_func_ptrs[w]
        /\ arg = given[w] /\ spawned[w] \in Nat /\ ran[w] \in Nat
        /\ spawned[w] = ran[w] + 1
    BY <1>1, <1>4 DEF ThreadInv, ThreadTypes, WorkerHolds
  <2>2. tpc'[w] = "run" /\ job'[w] = given[w] /\ element'[w] = arg.begin /\ ran'[w] = ran[w] + 1
    BY <1>1, <2>1 DEF ThreadInv, ThreadTypes
  <2>3. WorkerHolds(w)'
    BY <1>1, <2>1, <2>2 DEF WorkerHolds
  <2>4. Filled(w)'
    <3>1. \A e \in Elems(arg) : ~(e < arg.begin)
      BY <1>2
    <3>. QED  BY <1>1, <2>1, <2>2, <3>1 DEF Filled
  <2>. QED  BY <2>3, <2>4
<1>. QED  BY <1>1, <1>3, <1>4, OthersKept DEF ThreadInv, ThreadTypes

(* One more element written, or none left. *)
LEMMA ElementFacts ==
  ASSUME NEW j \in AnyJob, NEW n \in Nat, NEW D, \A e \in Elems(j) : e < n => e \in D
  PROVE  /\ n < j.end => \A e \in Elems(j) : e < n + 1 => e \in D \cup {n}
         /\ ~(n < j.end) => Elems(j) \subseteq D
<1>1. j.end \in Nat /\ Elems(j) = {e \in Nat : j.begin <= e /\ e < j.end}
  BY JobFacts
<1>. QED  BY <1>1

LEMMA WritesKeep ==
  ASSUME ThreadInv, NEW h \in Harts, vvadd_mt(h) PROVE ThreadInv'
<1>. USE HartFacts
<1>1. /\ tpc[h] = "run"
      /\ UNCHANGED <<g_thread_flags, g_thread_spawn_func_ptrs, g_thread_spawn_func_args, job,
                     program, step, given, spawned, ran, late>>
      /\ \/ /\ element[h] < job[h].end /\ dest' = dest \cup {element[h]}
            /\ element' = [element EXCEPT ![h] = @ + 1] /\ tpc' = tpc
         \/ /\ ~(element[h] < job[h].end) /\ UNCHANGED <<dest, element>>
            /\ tpc' = [tpc EXCEPT ![h] = IF h = 0 THEN "main" ELSE "done"]
  BY DEF vvadd_mt, Goes, threadArrays, threadHistory
<1>2. ThreadTypes'
  <2>1. element' \in [Harts -> Nat]
    BY <1>1 DEF ThreadInv, ThreadTypes
  <2>2. /\ tpc' \in [Harts -> MasterPlaces \cup WorkerPlaces]
        /\ tpc'[0] \in MasterPlaces /\ \A c \in Workers : tpc'[c] \in WorkerPlaces
    BY <1>1 DEF ThreadInv, ThreadTypes, MasterPlaces, WorkerPlaces
  <2>. QED  BY <1>1, <2>1, <2>2 DEF ThreadInv, ThreadTypes
<1>3. CASE h = 0
  BY <1>1, <1>2, <1>3, MasterElsewhere DEF threadArrays, threadHistory, ThreadInv, ThreadTypes
<1>4. CASE h \in Workers
  <2>1. ASSUME ~late PROVE (WorkerHolds(h) /\ Filled(h))'
    <3>1. WorkerHolds(h) /\ Filled(h) /\ job[h] \in AnyJob /\ element[h] \in Nat
      BY <1>4, <2>1 DEF ThreadInv, ThreadTypes
    <3>2. tpc'[h] \in {"run", "done"} /\ g_thread_flags[h]
      BY <1>1, <1>4, <3>1 DEF ThreadInv, ThreadTypes, WorkerHolds
    <3>3. WorkerHolds(h)'
      BY <1>1, <3>1, <3>2 DEF WorkerHolds
    <3>4. \A e \in Elems(job[h]) : e < element[h] => e \in dest
      BY <1>1, <3>1 DEF Filled
    <3>5. Filled(h)'
      <4>1. CASE tpc' = tpc /\ element' = [element EXCEPT ![h] = @ + 1]
                 /\ element[h] < job[h].end /\ dest' = dest \cup {element[h]}
        <5>1. \A e \in Elems(job[h]) : e < element[h] + 1 => e \in dest'
          BY <4>1, <3>1, <3>4, ElementFacts
        <5>2. element'[h] = element[h] + 1 /\ tpc'[h] = "run"
          BY <1>1, <4>1 DEF ThreadInv, ThreadTypes
        <5>. QED  BY <1>1, <3>2, <5>1, <5>2 DEF Filled
      <4>2. CASE ~(element[h] < job[h].end) /\ UNCHANGED <<dest, element>>
                 /\ tpc' = [tpc EXCEPT ![h] = "done"]
        <5>1. Elems(job[h]) \subseteq dest'
          BY <4>2, <3>1, <3>4, ElementFacts
        <5>2. tpc'[h] = "done"
          BY <4>2 DEF ThreadInv, ThreadTypes
        <5>. QED  BY <1>1, <3>2, <5>1, <5>2 DEF Filled
      <4>. QED  BY <1>1, <1>4, <4>1, <4>2
    <3>. QED  BY <3>3, <3>5
  <2>2. /\ dest \subseteq dest' /\ tpc'[0] = tpc[0]
        /\ \A c \in Workers \ {h} : /\ tpc'[c] = tpc[c] /\ job'[c] = job[c]
                                    /\ element'[c] = element[c] /\ ran'[c] = ran[c]
    BY <1>1, <1>4 DEF ThreadInv, ThreadTypes
  <2>. QED  BY <1>1, <1>2, <1>4, <2>1, <2>2, OthersKept
<1>. QED  BY <1>3, <1>4 DEF Harts

LEMMA DoneKeeps ==
  ASSUME ThreadInv, NEW w \in Workers, Done(w) PROVE ThreadInv'
<1>. USE HartFacts
<1>1. /\ tpc[w] = "done" /\ tpc' = [tpc EXCEPT ![w] = "spin"]
      /\ g_thread_flags' = [g_thread_flags EXCEPT ![w] = FALSE]
      /\ UNCHANGED <<g_thread_spawn_func_ptrs, g_thread_spawn_func_args, job, element,
                     program, step, dest, given, spawned, ran, late>>
  BY DEF Done, Goes, threadHistory
<1>2. ThreadTypes'
  BY <1>1 DEF ThreadInv, ThreadTypes, WorkerPlaces
<1>3. ASSUME ~late PROVE (WorkerHolds(w) /\ Filled(w))'
  <2>1. WorkerHolds(w) /\ Filled(w) /\ tpc'[w] = "spin" /\ ~g_thread_flags'[w]
    BY <1>1, <1>3 DEF ThreadInv, ThreadTypes
  <2>. QED  BY <1>1, <2>1 DEF WorkerHolds, Filled
<1>. QED  BY <1>1, <1>2, <1>3, OthersKept DEF ThreadInv, ThreadTypes

------------------------------------------------------------------------------
LEMMA ThreadNextInv == ThreadIInv /\ [ThreadNext]_threadVars => ThreadIInv'
<1>. SUFFICES ASSUME ThreadIInv, [ThreadNext]_threadVars PROVE ThreadIInv'
  OBVIOUS
<1>1. CASE UNCHANGED threadVars
  BY <1>1 DEF threadVars, threadArrays, ThreadIInv, ThreadInv, Runs, ThreadTypes, SpawnHolds,
              WorkerHolds, Filled, Stores, JobsRight, thread
<1>2. CASE ThreadNext
  <2>1. Runs("threads") /\ Runs("threads")' /\ ThreadInv
    BY <1>2 DEF ThreadNext, ThreadStep, Runs, ThreadIInv
  <2>2. ThreadInv'
    <3>1. CASE Master
      BY <2>1, <3>1, HartFacts, ClearBssKeeps, InitKeeps, SpawnKeeps, StoreFunctionKeeps,
         WakeUpKeeps, WorkKeeps, WritesKeep, JoinKeeps DEF Master
    <3>2. ASSUME NEW c \in Workers, Worker(c) PROVE ThreadInv'
      BY <2>1, <3>2, HartFacts, ClearBssKeeps, WokenKeeps, CallKeeps, WritesKeep, DoneKeeps
         DEF Worker
    <3>. QED  BY <1>2, <3>1, <3>2 DEF ThreadNext, ThreadStep
  <2>. QED  BY <2>1, <2>2 DEF ThreadIInv
<1>. QED  BY <1>1, <1>2

LEMMA ThreadInvHolds == ThreadSpec => []ThreadIInv
BY ThreadInitInv, ThreadNextInv, PTL DEF ThreadSpec

(* Unless a core boots after a spawn, every worker runs the job it was
   given last, every job once and none that was not given
   (common_bthread.c, lines 38-72 and 85-116). *)
THEOREM JobsAreRight == ThreadSpec => []JobsRight
<1>1. ThreadIInv => JobsRight
  BY ThreadInvRight DEF ThreadIInv
<1>. QED  BY <1>1, ThreadInvHolds, PTL

(* When the master passes a join, what it gave to that worker has been
   done (common_bthread.c, lines 124-137). *)
THEOREM JoinsAreDone == ThreadSpec => JoinMeansDone
<1>1. ThreadIInv /\ [ThreadNext]_threadVars =>
        [bthread_join /\ thread \in Workers /\ ~late => Elems(given[thread]) \subseteq dest]_threadVars
  <2>. SUFFICES ASSUME ThreadIInv, ThreadNext, bthread_join, thread \in Workers, ~late
                PROVE  Elems(given[thread]) \subseteq dest
    OBVIOUS
  <2>1. ThreadInv
    BY DEF ThreadNext, ThreadStep, ThreadIInv
  <2>2. ~g_thread_flags[thread] /\ tpc[0] = "main"
    BY ThreadAssumption DEF bthread_join, AtStep
  <2>. QED  BY <2>1, <2>2 DEF ThreadInv, Filled, Stores
<1>. QED  BY <1>1, ThreadInvHolds, PTL DEF ThreadSpec, JoinMeansDone

------------------------------------------------------------------------------
LEMMA NextPacket ==
  \A k \in Nat : (k + 1) * Size = k * Size + Size /\ k * Size \in Nat
BY ServerAssumption

LEMMA PacketsMonotone ==
  \A j, k \in Nat : j <= k => j * Size <= k * Size
<1>. TAKE j, k \in Nat
<1>. HAVE j <= k
<1>1. (k - j) * Size >= 0
  BY ServerAssumption
<1>2. (k - j) * Size = k * Size - j * Size
  BY ServerAssumption
<1>3. j * Size \in Int /\ k * Size \in Int
  BY ServerAssumption
<1>. QED  BY <1>1, <1>2, <1>3

LEMMA ConcatNat ==
  ASSUME NEW s \in Seq(Nat), NEW t \in Seq(Nat)
  PROVE  /\ s \o t \in Seq(Nat) /\ Len(s \o t) = Len(s) + Len(t)
         /\ \A i \in 1..Len(s) : (s \o t)[i] = s[i]
OBVIOUS

(* Only one command holds a byte. *)
LEMMA SentByUnique ==
  ASSUME NEW k \in DOMAIN sent, NEW i \in 1..Size, sent \in Seq(Commands)
  PROVE  SentBy((k - 1) * Size + i) = sent[k]
<1>. DEFINE place == (k - 1) * Size + i
            Holds(j) == (j - 1) * Size < place /\ place <= j * Size
<1>1. k \in Nat /\ k - 1 \in Nat /\ (k - 1) * Size \in Nat
  BY ServerAssumption
<1>2. k * Size = (k - 1) * Size + Size
  BY <1>1, NextPacket
<1>3. Holds(k)
  BY <1>1, <1>2, ServerAssumption
<1>4. ASSUME NEW j \in DOMAIN sent, Holds(j) PROVE j = k
  <2>1. j \in Nat /\ j - 1 \in Nat /\ j * Size \in Nat /\ (j - 1) * Size \in Nat
    <3>1. j \in Nat /\ j - 1 \in Nat
      OBVIOUS
    <3>. QED  BY <3>1, NextPacket
  <2>2. CASE j <= k - 1
    <3>1. j * Size <= (k - 1) * Size
      BY <1>1, <2>1, <2>2, PacketsMonotone
    <3>. QED  BY <3>1, <1>1, <2>1, <1>4
  <2>3. CASE k <= j - 1
    <3>1. k * Size <= (j - 1) * Size
      BY <1>1, <2>1, <2>3, PacketsMonotone
    <3>2. (j - 1) * Size < place /\ place \in Nat /\ place <= k * Size
      BY <1>4, <1>3, <1>1
    <3>3. k * Size \in Nat
      BY <1>1, NextPacket
    <3>. HIDE DEF place
    <3>. QED  BY <3>1, <3>2, <3>3, <2>1
  <2>. QED  BY <2>2, <2>3, <1>1, <2>1
<1>. HIDE DEF place, Holds
<1>5. (CHOOSE j \in DOMAIN sent : Holds(j)) = k
  BY <1>3, <1>4
<1>. QED  BY <1>5 DEF SentBy, place, Holds

------------------------------------------------------------------------------
(* What has been read of the connection is the commands that were done and
   the bytes in the buffer, each in its place. *)
Placed ==
  /\ sent \in Seq(Commands) /\ done \in Seq(Commands)
  /\ pkt_buf \in Seq(Nat) /\ Len(pkt_buf) < Size
  /\ \A i \in DOMAIN pkt_buf : pkt_buf[i] = Len(done) * Size + i
  /\ wr \in Nat /\ rd \in Nat
  /\ rd = Len(done) * Size + Len(pkt_buf)
  /\ rd <= wr /\ wr <= Len(sent) * Size

(* One connection is all there is: a server is made and a client accepted
   before anything was sent, and what is lost ends the simulation. *)
NothingSent == sent = <<>> /\ done = <<>> /\ pkt_buf = <<>>

OneConnection ==
  /\ sim \in {"polls", "accepts", "runs", "finishes", "over"}
  /\ sim = "polls" /\ connfd = NoFd => listenfd = NoFd /\ peer = "none" /\ NothingSent
  /\ sim = "accepts" =>
       /\ connfd = NoFd /\ done = <<>> /\ pkt_buf = <<>>
       /\ peer = "none" => sent = <<>>
  /\ sim = "runs" => connfd # NoFd

Descriptors ==
  /\ Fds \subseteq Nat
  /\ open = {listenfd, connfd} \ {NoFd}
  /\ sim = "over" => listenfd = NoFd /\ connfd = NoFd

IInv == Placed /\ OneConnection /\ Descriptors

LEMMA InvInit == JtagInit => IInv
BY ServerAssumption
DEF JtagInit, ServerInit, IInv, Placed, OneConnection, NothingSent, Descriptors

(* The one step that takes something off the connection. *)
LEMMA ReadInv ==
  ASSUME Placed, NEW ret \in Returns, NEW n \in Readable, Receive(ret, n),
         IF ret = "success"
           THEN cmd' = Decoded(Packet) /\ done' = Append(done, cmd')
           ELSE UNCHANGED <<cmd, done>>,
         UNCHANGED <<sent, wr>>
  PROVE  /\ Placed'
         /\ ret \in {"success", "try_later"}
         /\ ret = "success" => /\ Len(done) < Len(sent)
                               /\ cmd' = sent[Len(done) + 1]
<1>. DEFINE K == Len(done)
            P == Len(pkt_buf)
            inBuffer == pkt_buf \o Arrived(n)
<1>. DEFINE base == K * Size
            end == Len(sent) * Size
<1>1. /\ K \in Nat /\ P \in Nat /\ base \in Nat /\ n \in Nat /\ n \in 1..(Size - P)
      /\ rd = base + P /\ rd + n <= wr /\ wr <= end /\ wr \in Nat
      /\ Len(sent) \in Nat /\ end \in Nat
  <2>1. K \in Nat /\ Len(sent) \in Nat
    BY DEF Placed
  <2>2. base \in Nat /\ end \in Nat
    BY <2>1, NextPacket
  <2>. QED  BY <2>1, <2>2, ServerAssumption DEF Placed, Readable
<1>0. \A i \in DOMAIN pkt_buf : pkt_buf[i] = base + i
  BY DEF Placed
<1>a. pkt_buf \in Seq(Nat)
  BY DEF Placed
<1>. HIDE DEF base, end, K
<1>2. /\ inBuffer \in Seq(Nat) /\ Len(inBuffer) = P + n
      /\ \A i \in 1..(P + n) : inBuffer[i] = base + i
  <2>1. Arrived(n) \in Seq(Nat) /\ Len(Arrived(n)) = n
    BY <1>1 DEF Arrived
  <2>2. \A i \in 1..n : Arrived(n)[i] = base + P + i
    BY <1>1 DEF Arrived
  <2>3. inBuffer \in Seq(Nat) /\ Len(inBuffer) = P + n
    BY <2>1, <1>1, <1>a, ConcatNat
  <2>4. ASSUME NEW i \in 1..(P + n) PROVE inBuffer[i] = base + i
    <3>1. CASE i <= P
      <4>1. i \in DOMAIN pkt_buf /\ inBuffer[i] = pkt_buf[i]
        BY <3>1, <2>1, <1>1, <1>a
      <4>. QED  BY <4>1, <1>0
    <3>2. CASE i > P
      <4>1. i - P \in 1..n /\ inBuffer[i] = Arrived(n)[i - P]
        BY <3>2, <2>1, <1>1, <1>a
      <4>. QED  BY <4>1, <2>2, <1>1
    <3>3. i <= P \/ i > P
      BY <1>1
    <3>. QED  BY <3>1, <3>2, <3>3
  <2>. QED  BY <2>3, <2>4
<1>3. CASE P + n < Size
  <2>1. ret = "try_later" /\ pkt_buf' = inBuffer /\ done' = done /\ rd' = rd + n
    BY <1>2, <1>3 DEF Receive
  <2>2. Len(pkt_buf') = P + n /\ Len(done') = K
    BY <2>1, <1>2 DEF K
  <2>3. Len(done') * Size = base
    BY <2>2 DEF base
  <2>4. \A i \in DOMAIN pkt_buf' : pkt_buf'[i] = Len(done') * Size + i
    BY <2>1, <2>2, <2>3, <1>2
  <2>5. rd' = Len(done') * Size + Len(pkt_buf') /\ rd' \in Nat /\ rd' <= wr'
    BY <2>1, <2>2, <2>3, <1>1
  <2>. QED  BY <2>1, <2>2, <2>4, <2>5, <1>1, <1>2, <1>3 DEF Placed
<1>4. CASE P + n = Size
  <2>1. ret = "success" /\ pkt_buf' = <<>> /\ rd' = rd + n
    BY <1>2, <1>4, ServerAssumption DEF Receive
  <2>2. (K + 1) * Size = base + Size
    BY <1>1, NextPacket DEF base
  <2>3. K < Len(sent)
    <3>1. CASE Len(sent) <= K
      <4>1. end <= base
        BY <3>1, <1>1, PacketsMonotone DEF base, end
      <4>. QED  BY <4>1, <1>1, <1>4, ServerAssumption
    <3>. QED  BY <3>1, <1>1
  <2>4. Packet = inBuffer
    <3>1. n = Size - P
      BY <1>1, <1>4, ServerAssumption
    <3>. QED  BY <3>1 DEF Packet
  <2>5. K + 1 \in DOMAIN sent
    BY <2>3, <1>1 DEF Placed
  <2>6. \A i \in 1..Size : SentBy(Packet[i]) = sent[K + 1]
    <3>. TAKE i \in 1..Size
    <3>1. Packet[i] = base + i
      BY <2>4, <1>2, <1>4
    <3>2. base = ((K + 1) - 1) * Size
      BY <1>1 DEF base
    <3>3. SentBy(((K + 1) - 1) * Size + i) = sent[K + 1]
      BY <2>5, SentByUnique DEF Placed
    <3>. QED  BY <3>1, <3>2, <3>3
  <2>7. sent[K + 1] \in Commands
    BY <2>5 DEF Placed
  <2>8. Decoded(Packet) = sent[K + 1]
    <3>1. 1 \in 1..Size /\ Size \in 1..Size
      BY ServerAssumption
    <3>2. Decoded(Packet) = [op |-> sent[K + 1].op, bits |-> sent[K + 1].bits]
      BY <3>1, <2>6 DEF Decoded
    <3>. QED  BY <3>2, <2>7 DEF Commands
  <2>9. done' \in Seq(Commands) /\ Len(done') = K + 1
    BY SMTT(20), <2>1, <2>7, <2>8 DEF Placed, K
  <2>10. rd' = Len(done') * Size + Len(pkt_buf') /\ rd' \in Nat /\ rd' <= wr'
    <3>1. Len(done') * Size = base + Size /\ Len(pkt_buf') = 0
      BY <2>1, <2>2, <2>9
    <3>. QED  BY SMTT(20), <3>1, <2>1, <1>1, <1>4, ServerAssumption
  <2>11. /\ pkt_buf' \in Seq(Nat) /\ Len(pkt_buf') < Size
         /\ \A i \in DOMAIN pkt_buf' : pkt_buf'[i] = Len(done') * Size + i
    BY <2>1, ServerAssumption
  <2>12. cmd' = sent[Len(done) + 1] /\ Len(done) < Len(sent)
    BY <2>1, <2>3, <2>8 DEF K
  <2>. QED  BY <2>1, <2>9, <2>10, <2>11, <2>12, <1>1 DEF Placed
<1>. QED  BY <1>1, <1>3, <1>4, ServerAssumption

LEMMA InvStep ==
  ASSUME IInv, [JtagNext]_jtagVars
  PROVE  IInv'
<1>. USE DEF IInv
<1>1. CASE StartServer
  <2>1. Placed' /\ NothingSent
    BY <1>1 DEF StartServer, jtag_server_create, clientVars, Placed, OneConnection, NothingSent
  <2>2. OneConnection'
    BY <1>1, <2>1 DEF StartServer, jtag_server_create, clientVars, OneConnection, NothingSent, Ends
  <2>3. Descriptors'
    BY <1>1, <2>1 DEF StartServer, jtag_server_create, OneConnection, Descriptors, Ends, NoFd
  <2>. QED  BY <2>1, <2>2, <2>3
<1>2. CASE Accept
  <2>1. Placed'
    BY <1>2 DEF Accept, jtag_server_wait_for_client, clientVars, Placed
  <2>2. OneConnection'
    BY <1>2 DEF Accept, jtag_server_wait_for_client, clientVars, OneConnection, Descriptors,
                Ends, NoFd, NothingSent
  <2>3. Descriptors'
    BY <1>2 DEF Accept, jtag_server_wait_for_client, OneConnection, Descriptors, Ends, NoFd
  <2>. QED  BY <2>1, <2>2, <2>3
<1>3. CASE vpi_check_for_command
  <2>1. PICK ret \in Returns :
          /\ check_for_command(ret)
          /\ sim' = IF Ends(ret) THEN "finishes"
                    ELSE IF ret = "success" THEN "runs" ELSE "polls"
          /\ IF ret = "success"
               THEN cmd' = Decoded(Packet) /\ done' = Append(done, cmd')
               ELSE UNCHANGED <<cmd, done>>
    BY <1>3 DEF vpi_check_for_command
  <2>2. sim = "polls" /\ connfd # NoFd /\ UNCHANGED <<clientVars, toClient>>
    BY <1>3 DEF vpi_check_for_command
  <2>3. CASE \E n \in Readable : Receive(ret, n)
    <3>1. Placed'
      BY <2>1, <2>2, <2>3, ReadInv DEF clientVars
    <3>2. UNCHANGED <<listenfd, connfd, open>> /\ ret \in {"success", "try_later"}
      BY <2>3 DEF Receive
    <3>. QED  BY <3>1, <3>2, <2>1, <2>2 DEF OneConnection, Descriptors, Ends
  <2>4. CASE ret = "disconnected" /\ jtag_server_finish /\ UNCHANGED rd
    <3>1. Placed'
      BY <2>1, <2>2, <2>4 DEF jtag_server_finish, clientVars, Placed
    <3>2. OneConnection' /\ Descriptors'
      BY <2>1, <2>2, <2>4 DEF jtag_server_finish, OneConnection, Descriptors, Ends, NoFd
    <3>. QED  BY <3>1, <3>2
  <2>5. CASE ret = "error" /\ UNCHANGED <<serverVars, rd>>
    <3>1. Placed'
      BY <2>1, <2>2, <2>5 DEF serverVars, clientVars, Placed
    <3>2. OneConnection' /\ Descriptors'
      BY <2>1, <2>2, <2>5 DEF serverVars, OneConnection, Descriptors, Ends, NoFd
    <3>. QED  BY <3>1, <3>2
  <2>. QED  BY <2>1, <2>3, <2>4, <2>5 DEF check_for_command
<1>4. CASE Run
  <2>1. Placed'
    BY <1>4 DEF Run, serverVars, clientVars, Placed
  <2>2. sim' \in {"polls", "finishes"}
    BY <1>4 DEF Run, vpi_send_result_to_server
  <2>3. OneConnection' /\ Descriptors'
    BY <1>4, <2>2 DEF Run, serverVars, OneConnection, Descriptors
  <2>. QED  BY <2>1, <2>3
<1>5. CASE sim_finish_callback
  <2>1. Placed'
    BY <1>5 DEF sim_finish_callback, jtag_server_finish, clientVars, Placed
  <2>2. OneConnection' /\ Descriptors'
    BY <1>5 DEF sim_finish_callback, jtag_server_finish, OneConnection, Descriptors, NoFd
  <2>. QED  BY <2>1, <2>2
<1>6. CASE Connect
  <2>1. sent = <<>> /\ done = <<>> /\ pkt_buf = <<>> /\ sim = "accepts"
    BY <1>6 DEF Connect, OneConnection
  <2>2. wr' = 0 /\ rd' = 0
    BY <1>6, <2>1, ServerAssumption DEF Connect
  <2>3. Placed'
    BY <1>6, <2>1, <2>2, ServerAssumption DEF Connect, serverVars, simVars, Placed
  <2>4. OneConnection' /\ Descriptors'
    BY <1>6, <2>1 DEF Connect, serverVars, simVars, OneConnection, Descriptors
  <2>. QED  BY <2>3, <2>4
<1>7. ASSUME NEW c \in Commands, NEW n \in 1..Size, Sends(c, n) PROVE IInv'
  <2>1. sent' \in Seq(Commands) /\ Len(sent') = Len(sent) + 1 /\ Len(sent) \in Nat
    BY <1>7 DEF Sends, Placed
  <2>2. Len(sent') * Size = Len(sent) * Size + Size /\ Len(sent) * Size \in Nat
    BY <2>1, NextPacket
  <2>3. wr' \in Nat /\ rd <= wr' /\ wr' <= Len(sent') * Size
    BY <1>7, <2>2, ServerAssumption DEF Sends, Placed
  <2>4. Placed'
    BY <1>7, <2>1, <2>3 DEF Sends, serverVars, simVars, Placed
  <2>5. OneConnection' /\ Descriptors'
    BY <1>7 DEF Sends, serverVars, simVars, OneConnection, Descriptors
  <2>. QED  BY <2>4, <2>5
<1>8. CASE ReceiveAnswer
  BY <1>8 DEF ReceiveAnswer, serverVars, simVars, Placed, OneConnection, NothingSent, Descriptors
<1>9. CASE Leave
  BY <1>9 DEF Leave, serverVars, simVars, Placed, OneConnection, NothingSent, Descriptors
<1>10. CASE Gone
  <2>1. Placed'
    BY <1>10 DEF Gone, serverVars, simVars, Placed
  <2>2. OneConnection' /\ Descriptors'
    BY <1>10 DEF Gone, serverVars, simVars, OneConnection, NothingSent, Descriptors
  <2>. QED  BY <2>1, <2>2
<1>11. CASE UNCHANGED jtagVars
  BY <1>11 DEF jtagVars, serverVars, simVars, clientVars, Placed, OneConnection, NothingSent,
               Descriptors
<1>. QED
  BY <1>1, <1>2, <1>3, <1>4, <1>5, <1>6, <1>7, <1>8, <1>9, <1>10, <1>11 DEF JtagNext, Simulation

LEMMA RefinementStep ==
  ASSUME IInv, [JtagNext]_jtagVars
  PROVE  [ChannelSpec!Next]_<<sent, done>>
<1>1. CASE vpi_check_for_command
  <2>1. PICK ret \in Returns :
          /\ check_for_command(ret)
          /\ IF ret = "success"
               THEN cmd' = Decoded(Packet) /\ done' = Append(done, cmd')
               ELSE UNCHANGED <<cmd, done>>
    BY <1>1 DEF vpi_check_for_command
  <2>2. UNCHANGED <<sent, wr>>
    BY <1>1 DEF vpi_check_for_command, clientVars
  <2>3. CASE ret = "success"
    <3>1. PICK n \in Readable : Receive(ret, n)
      BY <2>1, <2>3 DEF check_for_command
    <3>2. Len(done) < Len(sent) /\ cmd' = sent[Len(done) + 1]
      BY <2>1, <2>2, <2>3, <3>1, ReadInv DEF IInv
    <3>. QED  BY <2>1, <2>2, <2>3, <3>2 DEF ChannelSpec!Next, ChannelSpec!Do
  <2>. QED  BY <2>1, <2>2, <2>3
<1>2. ASSUME NEW c \in Commands, NEW n \in 1..Size, Sends(c, n)
      PROVE  [ChannelSpec!Next]_<<sent, done>>
  BY <1>2 DEF Sends, simVars, ChannelSpec!Next, ChannelSpec!Send
<1>3. CASE \/ StartServer \/ Accept \/ Run \/ sim_finish_callback
           \/ Connect \/ ReceiveAnswer \/ Leave \/ Gone \/ UNCHANGED jtagVars
  BY <1>3 DEF StartServer, Accept, Run, sim_finish_callback, Connect, ReceiveAnswer, Leave,
    Gone, jtagVars, simVars, clientVars
<1>. QED  BY <1>1, <1>2, <1>3 DEF JtagNext, Simulation

LEMMA Invariant == JtagSpec => []IInv
<1>1. JtagInit => IInv
  BY InvInit
<1>2. IInv /\ [JtagNext]_jtagVars => IInv'
  BY InvStep
<1>. QED  BY <1>1, <1>2, PTL DEF JtagSpec

(* The commands the simulation carries out are those that were sent, whole
   and in order (jtag_common.c, lines 217-233). *)
THEOREM CommandsInOrderHolds == JtagSpec => CommandsInOrder
<1>1. JtagInit => ChannelSpec!Init
  BY DEF JtagInit, ChannelSpec!Init
<1>2. IInv /\ [JtagNext]_jtagVars => [ChannelSpec!Next]_<<sent, done>>
  BY RefinementStep
<1>. QED  BY <1>1, <1>2, Invariant, PTL DEF JtagSpec, CommandsInOrder, ChannelSpec!Spec

(* Whichever call fails, every open descriptor is known to the server, and
   the end of the simulation closes them all (jtag_common.c, lines
   262-272). *)
THEOREM NoDescriptorLostHolds == JtagSpec => []NoDescriptorLost
<1>1. IInv => NoDescriptorLost
  BY DEF IInv, Descriptors, NoDescriptorLost
<1>. QED  BY <1>1, Invariant, PTL

------------------------------------------------------------------------------
(* Scans of the JTAG server. *)
LEMMA DivMod ==
  ASSUME NEW a \in Nat, NEW w \in Nat, w > 0
  PROVE  /\ a \div w \in Nat /\ a % w \in 0..(w - 1)
         /\ a = w * (a \div w) + (a % w)
OBVIOUS

(* A quotient is known by its bounds. *)
LEMMA Quotient ==
  ASSUME NEW a \in Nat, NEW w \in Nat, w > 0, NEW q \in Nat, NEW r \in 0..(w - 1), a = w * q + r
  PROVE  a \div w = q /\ a % w = r
OBVIOUS

LEMMA EmptyIsSeq ==
  /\ \A S : <<>> \in Seq(S)
  /\ Len(<<>>) = 0 /\ DOMAIN <<>> = {}
BY SMT

LEMMA NoElement ==
  ASSUME NEW S, NEW s \in Seq(S), ~\E i \in DOMAIN s : TRUE
  PROVE  s = <<>>
<1>1. Len(s) \in Nat /\ DOMAIN s = 1..Len(s)
  OBVIOUS
<1>2. ~(1 \in 1..Len(s))
  BY <1>1
<1>3. Len(s) = 0
  BY <1>1, <1>2
<1>. QED  BY <1>3

------------------------------------------------------------------------------
(* The bits a scan clocks, word by word. *)
LEMMA ScanClocksAll ==
  ASSUME NEW bits \in Nat
  PROVE  do_scan_chain(bits) = bits
<1>. DEFINE W == WordBits  q == bits \div W  r == bits % W
<1>1. W \in Nat /\ W > 0
  BY JtagAssumption
<1>2. q \in Nat /\ r \in 0..(W - 1) /\ bits = W * q + r
  BY <1>1, DivMod
<1>. HIDE DEF q, r, W
<1>3. W * q \in Nat /\ W * (q + 1) = W * q + W
  BY <1>1, <1>2
<1>4. CASE bits = 0
  BY <1>4 DEF do_scan_chain
<1>5. CASE bits # 0 /\ r = 0
  <2>1. bits + W - 1 = W * q + (W - 1) /\ W - 1 \in 0..(W - 1)
    BY <1>1, <1>2, <1>3, <1>5
  <2>2. (bits + W - 1) \div W = q
    BY <1>1, <1>2, <1>3, <2>1, Quotient
  <2>3. do_scan_chain(bits) = (q - 1) * W + W
    BY <1>5, <2>2 DEF do_scan_chain, Words, LastWord, r, W
  <2>4. (q - 1) * W + W = W * q
    BY <1>1, <1>2
  <2>. QED  BY <1>2, <1>3, <1>5, <2>3, <2>4
<1>6. CASE r # 0
  <2>1. bits + W - 1 = W * (q + 1) + (r - 1) /\ r - 1 \in 0..(W - 1)
    BY <1>1, <1>2, <1>3, <1>6
  <2>2. (bits + W - 1) \div W = q + 1
    BY <1>1, <1>2, <1>3, <2>1, Quotient
  <2>3. do_scan_chain(bits) = ((q + 1) - 1) * W + r
    BY <1>2, <1>3, <1>6, <2>2 DEF do_scan_chain, Words, LastWord, r, W
  <2>4. ((q + 1) - 1) * W = W * q
    BY <1>1, <1>2
  <2>. QED  BY <1>2, <2>3, <2>4
<1>. QED  BY <1>2, <1>4, <1>5, <1>6

(* Who waits for what: a client that waits has sent a scan last, nobody
   sends after a scan before its answer, and an answer is on its way only
   when everything that was sent is done. *)
ScanTypes ==
  /\ peer \in {"none", "up", "closed"} /\ waiting \in BOOLEAN
  /\ cmd \in Commands \cup {NoCommand} /\ toClient \in Seq(Nat)
  /\ listenfd \in Fds \cup {NoFd} /\ connfd \in Fds \cup {NoFd} /\ open \subseteq Fds
  /\ Len(done) <= Len(sent) /\ \A k \in 1..Len(done) : done[k] = sent[k]
  /\ sim = "runs" => Len(done) > 0 /\ cmd = sent[Len(done)]

ScanWaits ==
  peer = "up" =>
    /\ \A k \in 1..Len(sent) : k > Len(done) /\ sent[k].op \in Scans => k = Len(sent) /\ waiting
    /\ toClient # <<>> => Len(done) = Len(sent)
    /\ sim = "runs" /\ cmd.op \in Scans => waiting /\ toClient = <<>> /\ Len(done) = Len(sent)

ScanClocked == sim # "runs" /\ cmd.op \in Scans => tck = cmd.bits

ScanIInv == IInv /\ ScanTypes /\ ScanWaits /\ AnswersOwnScan /\ ScanClocked

LEMMA ScanInit == JtagInit => ScanIInv
<1>. SUFFICES ASSUME JtagInit PROVE ScanIInv
  OBVIOUS
<1>1. IInv
  BY InvInit
<1>2. /\ sent = <<>> /\ done = <<>> /\ toClient = <<>> /\ peer = "none" /\ sim = "polls"
      /\ waiting = FALSE /\ cmd = NoCommand /\ listenfd = NoFd /\ connfd = NoFd /\ open = {}
  BY DEF JtagInit, ServerInit
<1>3. ScanTypes
  <2>1. Len(done) = 0 /\ Len(sent) = 0 /\ toClient \in Seq(Nat)
    BY <1>2, EmptyIsSeq
  <2>2. \A k \in 1..Len(done) : done[k] = sent[k]
    BY <2>1
  <2>3. /\ peer \in {"none", "up", "closed"} /\ waiting \in BOOLEAN
        /\ cmd \in Commands \cup {NoCommand}
        /\ listenfd \in Fds \cup {NoFd} /\ connfd \in Fds \cup {NoFd} /\ open \subseteq Fds
        /\ ~(sim = "runs")
    BY <1>2
  <2>4. Len(done) <= Len(sent)
    BY <2>1
  <2>. QED  BY ONLY <2>1, <2>2, <2>3, <2>4 DEF ScanTypes
<1>4. ScanWaits /\ AnswersOwnScan
  BY <1>2 DEF ScanWaits, AnswersOwnScan
<1>5. ScanClocked
  BY <1>2 DEF ScanClocked, NoCommand, Scans
<1>. QED  BY <1>1, <1>3, <1>4, <1>5 DEF ScanIInv

LEMMA CommandFacts ==
  ASSUME NEW c \in Commands
  PROVE  c.bits \in Nat
BY JtagAssumption DEF Commands

(* A read that completes a packet takes the next command; the others none. *)
LEMMA ScanChecked ==
  ASSUME IInv, vpi_check_for_command
  PROVE  /\ sim = "polls" /\ UNCHANGED <<sent, wr, peer, waiting, clients, toClient, tck>>
         /\ \/ /\ sim' = "runs" /\ cmd' = sent[Len(done) + 1] /\ done' = Append(done, cmd')
               /\ Len(done) < Len(sent) /\ UNCHANGED <<listenfd, connfd, open>>
            \/ /\ sim' # "runs" /\ UNCHANGED <<cmd, done>>
               /\ \/ UNCHANGED <<listenfd, connfd, open>>
                  \/ listenfd' = NoFd /\ connfd' = NoFd /\ open' \subseteq open
<1>1. PICK ret \in Returns :
          /\ check_for_command(ret)
          /\ sim' = IF Ends(ret) THEN "finishes"
                    ELSE IF ret = "success" THEN "runs" ELSE "polls"
          /\ IF ret = "success"
               THEN cmd' = Decoded(Packet) /\ done' = Append(done, cmd')
               ELSE UNCHANGED <<cmd, done>>
  BY DEF vpi_check_for_command
<1>2. sim = "polls" /\ UNCHANGED <<sent, wr, peer, waiting, clients, toClient, tck>>
  BY DEF vpi_check_for_command, clientVars
<1>3. ASSUME NEW n \in Readable, Receive(ret, n)
      PROVE  /\ UNCHANGED <<listenfd, connfd, open>>
             /\ ret = "success" => Len(done) < Len(sent) /\ cmd' = sent[Len(done) + 1]
  BY <1>1, <1>2, <1>3, ReadInv DEF IInv, Receive
<1>4. CASE ret = "success"
  <2>1. \E n \in Readable : Receive(ret, n)
    BY <1>1, <1>4 DEF check_for_command
  <2>. QED  BY <1>1, <1>2, <1>3, <1>4, <2>1 DEF Ends
<1>5. CASE ret # "success"
  <2>1. sim' # "runs" /\ UNCHANGED <<cmd, done>>
    BY <1>1, <1>5
  <2>2. \/ UNCHANGED <<listenfd, connfd, open>>
        \/ listenfd' = NoFd /\ connfd' = NoFd /\ open' \subseteq open
    BY <1>1, <1>3 DEF check_for_command, jtag_server_finish, serverVars
  <2>. QED  BY <1>2, <2>1, <2>2
<1>. QED  BY <1>4, <1>5

LEMMA ScanStep ==
  ASSUME ScanIInv, [JtagNext]_jtagVars
  PROVE  ScanIInv'
<1>. USE DEF ScanIInv
<1>0. IInv'
  BY InvStep
<1>a. /\ sent \in Seq(Commands) /\ done \in Seq(Commands) /\ Size \in Nat /\ Size > 1
      /\ Len(sent) \in Nat /\ Len(done) \in Nat /\ NoFd \notin Fds /\ Fds \subseteq Nat
  BY ServerAssumption DEF IInv, Placed, NoFd
<1>1. CASE StartServer
  <2>1. UNCHANGED <<connfd, cmd, tck, done, sent, peer, waiting, toClient>> /\ sim' # "runs"
        /\ sim # "runs"
    BY <1>1 DEF StartServer, jtag_server_create, clientVars, Ends
  <2>2. listenfd' \in Fds \cup {NoFd} /\ open' \subseteq Fds
    BY <1>1 DEF StartServer, jtag_server_create, ScanTypes
  <2>3. ScanTypes'
    BY <2>1, <2>2 DEF ScanTypes
  <2>4. ScanWaits' /\ AnswersOwnScan' /\ ScanClocked'
    BY <2>1 DEF ScanWaits, AnswersOwnScan, ScanClocked
  <2>. QED  BY <1>0, <2>3, <2>4
<1>2. CASE Accept
  <2>1. UNCHANGED <<listenfd, cmd, tck, done, sent, peer, waiting, toClient>> /\ sim' # "runs"
        /\ sim # "runs"
    BY <1>2 DEF Accept, jtag_server_wait_for_client, clientVars, Ends
  <2>2. connfd' \in Fds \cup {NoFd} /\ open' \subseteq Fds
    BY <1>2 DEF Accept, jtag_server_wait_for_client, ScanTypes
  <2>3. ScanTypes'
    BY <2>1, <2>2 DEF ScanTypes
  <2>4. ScanWaits' /\ AnswersOwnScan' /\ ScanClocked'
    BY <2>1 DEF ScanWaits, AnswersOwnScan, ScanClocked
  <2>. QED  BY <1>0, <2>3, <2>4
<1>3. CASE vpi_check_for_command
  <2>1. /\ sim = "polls" /\ UNCHANGED <<sent, wr, peer, waiting, clients, toClient, tck>>
    BY <1>3, ScanChecked
  <2>2. CASE /\ sim' = "runs" /\ cmd' = sent[Len(done) + 1] /\ done' = Append(done, cmd')
             /\ Len(done) < Len(sent) /\ UNCHANGED <<listenfd, connfd, open>>
    <3>1. /\ Len(done) + 1 \in 1..Len(sent) /\ cmd' \in Commands
          /\ Len(done') = Len(done) + 1 /\ done'[Len(done) + 1] = cmd'
          /\ \A k \in 1..Len(done) : done'[k] = done[k]
      BY <1>a, <2>2
    <3>2. \A k \in 1..Len(done') : done'[k] = sent[k]
      BY <1>a, <2>2, <3>1 DEF ScanTypes
    <3>3. ScanTypes'
      BY <1>a, <2>1, <2>2, <3>1, <3>2 DEF ScanTypes
    <3>4. peer = "up" => toClient = <<>>
      BY <1>a, <2>2 DEF ScanWaits
    <3>5. ScanWaits'
      BY <1>a, <2>1, <2>2, <3>1, <3>4 DEF ScanWaits
    <3>6. AnswersOwnScan' /\ ScanClocked'
      BY <2>1, <2>2 DEF AnswersOwnScan, ScanClocked
    <3>. QED  BY <1>0, <3>3, <3>5, <3>6
  <2>3. CASE /\ sim' # "runs" /\ UNCHANGED <<cmd, done>>
             /\ \/ UNCHANGED <<listenfd, connfd, open>>
                \/ listenfd' = NoFd /\ connfd' = NoFd /\ open' \subseteq open
    <3>1. ScanTypes'
      BY <2>1, <2>3 DEF ScanTypes
    <3>2. ScanWaits' /\ AnswersOwnScan' /\ ScanClocked'
      BY <2>1, <2>3 DEF ScanWaits, AnswersOwnScan, ScanClocked
    <3>. QED  BY <1>0, <3>1, <3>2
  <2>. QED  BY <1>3, <2>2, <2>3, ScanChecked
<1>4. CASE Run
  <2>1. /\ sim = "runs" /\ sim' # "runs" /\ cmd \in Commands
        /\ UNCHANGED <<listenfd, connfd, open, cmd, done, sent, peer, waiting>>
    <3>1. cmd \in Commands
      BY <1>a, <1>4 DEF ScanTypes, Run
    <3>. QED  BY <1>4, <3>1 DEF Run, vpi_send_result_to_server, serverVars, clientVars
  <2>2. \/ toClient' = toClient
        \/ /\ cmd.op \in Scans
           /\ \E n \in 0..Size : toClient' = toClient \o [i \in 1..n |-> Len(done)]
    BY <1>4 DEF Run, vpi_send_result_to_server, Answered
  <2>3. ScanClocked'
    <3>1. cmd.op \in Scans => tck' = do_scan_chain(cmd.bits)
      BY <1>4 DEF Run, Scans
    <3>. QED  BY <2>1, <3>1, CommandFacts, ScanClocksAll DEF ScanClocked
  <2>4. CASE toClient' = toClient
    <3>1. ScanTypes' /\ ScanWaits' /\ AnswersOwnScan'
      BY <2>1, <2>4 DEF ScanTypes, ScanWaits, AnswersOwnScan
    <3>. QED  BY <1>0, <2>3, <3>1
  <2>5. ASSUME cmd.op \in Scans, NEW n \in 0..Size, toClient' = toClient \o [i \in 1..n |-> Len(done)]
        PROVE  ScanIInv'
    <3>1. [i \in 1..n |-> Len(done)] \in Seq(Nat) /\ toClient \in Seq(Nat)
      BY <1>a, <2>5 DEF ScanTypes
    <3>2. toClient' \in Seq(Nat)
      BY <2>5, <3>1, ConcatNat
    <3>3. ScanTypes'
      BY <2>1, <3>2 DEF ScanTypes
    <3>4. peer = "up" => waiting /\ toClient = <<>> /\ Len(done) = Len(sent)
      BY <2>1, <2>5 DEF ScanWaits
    <3>5. peer = "up" => toClient' = [i \in 1..n |-> Len(done)]
      BY <2>5, <3>1, <3>4
    <3>6. AnswersOwnScan'
      BY <2>1, <3>1, <3>4, <3>5 DEF AnswersOwnScan
    <3>7. ScanWaits'
      BY <2>1, <3>4 DEF ScanWaits
    <3>. QED  BY <1>0, <2>3, <3>3, <3>6, <3>7
  <2>. QED  BY <2>2, <2>4, <2>5
<1>5. CASE sim_finish_callback
  <2>1. /\ sim # "runs" /\ sim' # "runs" /\ listenfd' = NoFd /\ connfd' = NoFd /\ open' \subseteq open
        /\ UNCHANGED <<cmd, tck, done, sent, peer, waiting, toClient>>
    BY <1>5 DEF sim_finish_callback, jtag_server_finish, clientVars
  <2>2. ScanTypes'
    BY <2>1 DEF ScanTypes
  <2>3. ScanWaits' /\ AnswersOwnScan' /\ ScanClocked'
    BY <2>1 DEF ScanWaits, AnswersOwnScan, ScanClocked
  <2>. QED  BY <1>0, <2>2, <2>3
<1>6. CASE Connect
  <2>1. /\ sim = "accepts" /\ peer = "none" /\ peer' = "up" /\ waiting' = FALSE /\ toClient' = <<>>
        /\ UNCHANGED <<listenfd, connfd, open, sim, cmd, tck, done, sent>>
    BY <1>6 DEF Connect, serverVars, simVars
  <2>2. sent = <<>>
    BY <2>1 DEF IInv, OneConnection
  <2>3. ScanTypes'
    <3>1. waiting' \in BOOLEAN /\ toClient' \in Seq(Nat)
      BY <2>1, EmptyIsSeq
    <3>. QED  BY <2>1, <3>1 DEF ScanTypes
  <2>4. ScanWaits' /\ AnswersOwnScan' /\ ScanClocked'
    <3>1. Len(sent') = 0 /\ sim' = "accepts" /\ Len(toClient') = 0 /\ toClient' = <<>>
      BY <2>1, <2>2, EmptyIsSeq
    <3>2. DOMAIN toClient' = {} /\ 1..Len(sent') = {} /\ Size >= 0
      BY <1>a, <3>1, EmptyIsSeq
    <3>3. AnswersOwnScan'
      BY ONLY <3>1, <3>2 DEF AnswersOwnScan
    <3>4. ScanWaits' /\ ScanClocked'
      BY <2>1, <3>1, <3>2 DEF ScanWaits, ScanClocked
    <3>. QED  BY <3>3, <3>4
  <2>. QED  BY <1>0, <2>3, <2>4
<1>7. ASSUME NEW c \in Commands, NEW n \in 1..Size, Sends(c, n) PROVE ScanIInv'
  <2>1. /\ peer = "up" /\ ~waiting /\ sent' = Append(sent, c) /\ waiting' = (c.op \in Scans)
        /\ peer' \in {"closed", "up"}
        /\ UNCHANGED <<listenfd, connfd, open, sim, cmd, tck, done, toClient>>
    BY <1>7 DEF Sends, serverVars, simVars
  <2>2. /\ Len(sent') = Len(sent) + 1 /\ sent'[Len(sent) + 1] = c
        /\ \A k \in 1..Len(sent) : sent'[k] = sent[k]
    BY <1>a, <2>1
  <2>3. waiting' \in BOOLEAN
    BY <2>1
  <2>4. ScanTypes'
    BY <1>a, <2>1, <2>2, <2>3 DEF ScanTypes
  <2>5. toClient = <<>>
    <3>1. toClient \in Seq(Nat) /\ \A i \in DOMAIN toClient : waiting
      BY <2>1 DEF ScanTypes, AnswersOwnScan
    <3>2. ~\E i \in DOMAIN toClient : TRUE
      BY <2>1, <3>1
    <3>. QED  BY ONLY <3>1, <3>2, NoElement
  <2>6. ScanWaits'
    <3>1. CASE peer' = "closed"
      BY <3>1 DEF ScanWaits
    <3>2. CASE peer' = "up"
      <4>1. ASSUME NEW k \in 1..Len(sent'), k > Len(done'), sent'[k].op \in Scans
            PROVE  k = Len(sent') /\ waiting'
        <5>1. CASE k = Len(sent) + 1
          BY <2>1, <2>2, <4>1, <5>1
        <5>2. CASE k \in 1..Len(sent)
          BY <2>1, <2>2, <4>1, <5>2 DEF ScanWaits
        <5>. QED  BY <1>a, <2>2, <5>1, <5>2
      <4>2. toClient' = <<>> /\ ~(sim' = "runs" /\ cmd'.op \in Scans)
        BY <2>1, <2>5 DEF ScanWaits
      <4>. QED  BY <4>1, <4>2 DEF ScanWaits
    <3>. QED  BY <2>1, <3>1, <3>2
  <2>7. AnswersOwnScan' /\ ScanClocked'
    BY <1>a, <2>1, <2>5 DEF AnswersOwnScan, ScanClocked
  <2>. QED  BY <1>0, <2>4, <2>6, <2>7
<1>8. CASE ReceiveAnswer
  <2>1. /\ peer = "up" /\ Len(toClient) >= Size /\ waiting' = FALSE
        /\ toClient' = SubSeq(toClient, Size + 1, Len(toClient))
        /\ UNCHANGED <<listenfd, connfd, open, sim, cmd, tck, done, sent, peer>>
    BY <1>8 DEF ReceiveAnswer, serverVars, simVars
  <2>2. toClient \in Seq(Nat) /\ Len(toClient) \in Nat /\ Len(toClient) <= Size
    BY <2>1 DEF ScanTypes, AnswersOwnScan
  <2>3. toClient' = <<>> /\ toClient # <<>>
    BY <1>a, <2>1, <2>2
  <2>4. ScanTypes'
    <3>1. waiting' \in BOOLEAN /\ toClient' \in Seq(Nat)
      BY ONLY <2>1, <2>3, EmptyIsSeq
    <3>. QED  BY <2>1, <3>1 DEF ScanTypes
  <2>5. ScanWaits' /\ AnswersOwnScan' /\ ScanClocked'
    BY <1>a, <2>1, <2>3 DEF ScanWaits, AnswersOwnScan, ScanClocked
  <2>. QED  BY <1>0, <2>4, <2>5
<1>9. CASE Leave \/ Gone
  <2>1. /\ peer' \in {"closed", "none"}
        /\ UNCHANGED <<listenfd, connfd, open, sim, cmd, tck, done, sent, waiting, toClient>>
    BY <1>9 DEF Leave, Gone, serverVars, simVars
  <2>2. ScanTypes'
    BY <2>1 DEF ScanTypes
  <2>3. ScanWaits' /\ AnswersOwnScan' /\ ScanClocked'
    BY <2>1 DEF ScanWaits, AnswersOwnScan, ScanClocked
  <2>. QED  BY <1>0, <2>2, <2>3
<1>10. CASE UNCHANGED jtagVars
  <2>1. UNCHANGED <<listenfd, connfd, open, sim, cmd, tck, done, sent, waiting, toClient, peer>>
    BY <1>10 DEF jtagVars, serverVars, simVars, clientVars
  <2>2. ScanTypes'
    BY <2>1 DEF ScanTypes
  <2>3. ScanWaits' /\ AnswersOwnScan' /\ ScanClocked'
    BY <2>1 DEF ScanWaits, AnswersOwnScan, ScanClocked
  <2>. QED  BY <1>0, <2>2, <2>3
<1>. QED
  BY <1>1, <1>2, <1>3, <1>4, <1>5, <1>6, <1>7, <1>8, <1>9, <1>10 DEF JtagNext, Simulation

LEMMA ScanInvariant == JtagSpec => []ScanIInv
BY ScanInit, ScanStep, PTL DEF JtagSpec

(* The packets of the server keep their form, an answer goes to the scan
   its client waits for, and a scan clocks each bit once, whatever the size
   of a packet and of a word (jtag_common.c, lines 217-252; bfm_jtag.v,
   lines 237-240). *)
THEOREM ScansAreRight == JtagSpec => []ScansRight
<1>1. ScanIInv => ScansRight
  BY DEF ScanIInv, IInv, Placed, OneConnection, ScanTypes, ScanClocked, ScansRight, JtagTypeOK,
         ScansWhole
<1>. QED  BY <1>1, ScanInvariant, PTL

------------------------------------------------------------------------------
(* The programs stand side by side: a step of the whole is one of each, or
   leaves it alone. *)
LEMMA ImageStays == Next => image' = image
<1>1. PrintNext \/ ThreadNext \/ CopNext \/ ConsoleNext => image' = image
  BY DEF PrintNext, PrintStep, ThreadNext, ThreadStep, CopNext, CopStep, ConsoleNext, ConsoleStep
<1>2. RtcNext \/ TcmNext \/ CopyNext \/ LedNext \/ EchoNext => image' = image
  BY DEF RtcNext, TcmNext, CopyNext, CopyStep, LedNext, EchoNext, EchoStep
<1>3. RegNext \/ IntrNext \/ MotorNext \/ JtagStep(JtagNext) => image' = image
  BY DEF RegNext, IntrNext, MotorNext, MotorClock, JtagStep
<1>4. SketchNext \/ WireNext \/ ReportNext => image' = image
  BY DEF SketchNext, WireNext, ReportNext, ReportStep, Looping
<1>. QED  BY <1>1, <1>2, <1>3, <1>4 DEF Next

LEMMA PrintStands == [Next]_allVars => [PrintNext]_printVars
<1>1. Next => PrintNext \/ UNCHANGED printOwn
  BY DEF Next, ThreadRest, CopRest, ConsoleRest, RtcRest, TcmRest,
         CopyRest, LedRest, EchoRest, RegRest, IntrRest, MotorRest,
         JtagRest, SketchRest, WireRest, ReportRest, coreOwn
<1>. QED  BY <1>1, ImageStays DEF printOwn, printVars, allVars, coreOwn

LEMMA ThreadStands == [Next]_allVars => [ThreadNext]_threadVars
<1>1. Next => ThreadNext \/ UNCHANGED threadOwn
  BY DEF Next, PrintRest, CopRest, ConsoleRest, RtcRest, TcmRest,
         CopyRest, LedRest, EchoRest, RegRest, IntrRest, MotorRest,
         JtagRest, SketchRest, WireRest, ReportRest, coreOwn
<1>. QED  BY <1>1, ImageStays DEF threadOwn, threadVars, threadArrays, threadHistory, allVars, coreOwn

LEMMA LedStands == [Next]_allVars => [LedNext]_ledVars
<1>1. Next => LedNext \/ UNCHANGED ledOwn
  BY DEF Next, PrintRest, ThreadRest, CopRest, ConsoleRest, RtcRest,
         TcmRest, CopyRest, EchoRest, RegRest, IntrRest, MotorRest,
         JtagRest, SketchRest, WireRest, ReportRest, benchOwn
<1>. QED  BY <1>1, ImageStays DEF ledOwn, ledVars, allVars, benchOwn

LEMMA EchoStands == [Next]_allVars => [EchoNext]_echoVars
<1>1. Next => EchoNext \/ UNCHANGED echoOwn
  BY DEF Next, PrintRest, ThreadRest, CopRest, ConsoleRest, RtcRest,
         TcmRest, CopyRest, LedRest, RegRest, IntrRest, MotorRest,
         JtagRest, SketchRest, WireRest, ReportRest, benchOwn
<1>. QED  BY <1>1, ImageStays DEF echoOwn, echoVars, allVars, benchOwn

LEMMA ReportStands == [Next]_allVars => [ReportNext]_reportVars
<1>1. Next => ReportNext \/ UNCHANGED reportOwn
  BY DEF Next, PrintRest, ThreadRest, CopRest, ConsoleRest, RtcRest,
         TcmRest, CopyRest, LedRest, EchoRest, RegRest, IntrRest,
         MotorRest, JtagRest, SketchRest, WireRest, pinOwn
<1>. QED  BY <1>1, ImageStays DEF reportOwn, reportVars, allVars, pinOwn

LEMMA SketchStands == [Next]_allVars => [SketchNext]_sketchVars
<1>1. Next => SketchNext \/ UNCHANGED sketchOwn
  BY DEF Next, PrintRest, ThreadRest, CopRest, ConsoleRest, RtcRest,
         TcmRest, CopyRest, LedRest, EchoRest, RegRest, IntrRest,
         MotorRest, JtagRest, WireRest, ReportRest, pinOwn
<1>. QED  BY <1>1, ImageStays DEF sketchOwn, sketchVars, allVars, pinOwn

LEMMA MotorStands == [Next]_allVars => [MotorNext]_motorVars
<1>1. Next => MotorNext \/ UNCHANGED motorOwn
  BY DEF Next, PrintRest, ThreadRest, CopRest, ConsoleRest, RtcRest, TcmRest, CopyRest, LedRest,
         EchoRest, RegRest, IntrRest, JtagRest, SketchRest, WireRest, ReportRest, blockOwn
<1>. QED  BY <1>1, ImageStays DEF motorOwn, motorVars, allVars, blockOwn

LEMMA IntrStands == [Next]_allVars => [IntrNext]_intrVars
<1>1. Next => IntrNext \/ UNCHANGED intrOwn
  BY DEF Next, PrintRest, ThreadRest, CopRest, ConsoleRest, RtcRest, TcmRest, CopyRest, LedRest,
         EchoRest, RegRest, MotorRest, JtagRest, SketchRest, WireRest, ReportRest, blockOwn
<1>. QED  BY <1>1, ImageStays DEF intrOwn, intrVars, allVars, blockOwn

LEMMA JtagStands == [Next]_allVars => [JtagNext]_jtagVars
<1>1. Next => JtagNext \/ UNCHANGED jtagVars
  BY DEF Next, PrintRest, ThreadRest, CopRest, ConsoleRest, RtcRest, TcmRest, CopyRest, LedRest,
         EchoRest, RegRest, MotorRest, IntrRest, SketchRest, WireRest, ReportRest, blockOwn, JtagStep
<1>. QED  BY <1>1 DEF allVars, blockOwn

------------------------------------------------------------------------------
(* The motor.  The strobe of the pulse width is a clock, the step follows
   in the next one and the count in the one after, and the next strobe is
   further away than that. *)
MotorTypes ==
  /\ Runs("motor") => move \in Moves
  /\ smPc \in {"period", "config", "control", "wait", "done"}
  /\ smValid \in BOOLEAN /\ ready \in BOOLEAN /\ controller_en \in BOOLEAN
  /\ run \in BOOLEAN /\ pwmStart \in BOOLEAN /\ step_strobe \in BOOLEAN
  /\ cycles \in Nat /\ steps \in Nat /\ quiet \in 0..Apart

StrobesApart == (pwmStart => quiet = 0) /\ (step_strobe => quiet = 1 /\ ~pwmStart)

(* Before the write of the control register the motor stands. *)
ControlAhead == smPc \in {"period", "config"} \/ (smPc = "control" /\ ~ready)

MotorOrder ==
  /\ ControlAhead => ~run /\ ~step_strobe /\ steps = 0
  /\ smPc \in {"control", "wait", "done"} => controller_en
  /\ smPc = "config" /\ ready => controller_en
  /\ run => controller_en

(* At rest the number of steps is none or all. *)
StepsCount ==
  ~move.free =>
    IF run THEN steps = move.cycles - cycles + (IF step_strobe THEN 1 ELSE 0)
    ELSE ~step_strobe /\ (~ControlAhead => steps = move.cycles + 1)

MotorInv == MotorTypes /\ StrobesApart /\ MotorOrder /\ StepsCount

LEMMA MotorInitInv == MotorInit => MotorInv
<1>. SUFFICES ASSUME MotorInit PROVE MotorInv
  OBVIOUS
<1>1. Runs("motor") => move \in Moves
  BY DEF MotorInit, Choice
<1>2. MotorTypes
  <2>1. /\ smPc = "period" /\ smValid = FALSE /\ ready = FALSE /\ controller_en = FALSE /\ run = FALSE
        /\ cycles = 0 /\ pwmStart = FALSE /\ quiet = 0 /\ step_strobe = FALSE /\ steps = 0
    BY DEF MotorInit
  <2>2. /\ smValid \in BOOLEAN /\ ready \in BOOLEAN /\ controller_en \in BOOLEAN
        /\ run \in BOOLEAN /\ pwmStart \in BOOLEAN /\ step_strobe \in BOOLEAN
    BY ONLY <2>1
  <2>3. cycles \in Nat /\ steps \in Nat /\ quiet \in 0..Apart
    BY ONLY <2>1 DEF Apart
  <2>. QED  BY ONLY <1>1, <2>1, <2>2, <2>3 DEF MotorTypes
<1>3. StrobesApart /\ MotorOrder
  BY DEF MotorInit, StrobesApart, MotorOrder, ControlAhead
<1>4. StepsCount
  BY DEF MotorInit, StepsCount, ControlAhead
<1>. QED  BY <1>2, <1>3, <1>4 DEF MotorInv

LEMMA MotorTypesKept ==
  ASSUME MotorInv, MotorNext
  PROVE  MotorTypes' /\ StrobesApart'
<1>. USE DEF MotorInv
<1>1. Runs("motor") /\ move \in Moves /\ UNCHANGED <<image, move>>
  BY DEF MotorNext, MotorClock, MotorTypes
<1>2. move.cycles \in Nat /\ move.free \in BOOLEAN
  BY <1>1, MotorAssumption
<1>3. smPc' \in {"period", "config", "control", "wait", "done"}
  BY DEF MotorNext, MotorProgram, MotorStalls, MotorTypes, AfterAccess
<1>4. smValid' \in BOOLEAN
  BY DEF MotorNext, MotorProgram, MotorStalls, MotorTypes
<1>5. /\ ready' \in BOOLEAN /\ controller_en' \in BOOLEAN /\ run' \in BOOLEAN
  BY DEF MotorNext, MotorClock, sm_regs, Accessed, MotorWritten, MotorTypes, LastStrobe
<1>6. cycles' \in Nat
  BY <1>2 DEF MotorNext, MotorClock, sm_regs, MotorTypes
<1>7. step_strobe' \in BOOLEAN /\ steps' \in Nat
  BY DEF MotorNext, MotorClock, motor_sequencer, MotorTypes, StepDue
<1>8. /\ pwmStart' \in BOOLEAN /\ quiet' \in 0..Apart
      /\ pwmStart' => quiet' = 0 /\ quiet = Apart
      /\ quiet = 0 => quiet' = 1
  <2>1. /\ pwmStart' \in (IF controller_en /\ quiet = Apart THEN BOOLEAN ELSE {FALSE})
        /\ quiet' = IF pwmStart' THEN 0 ELSE IF quiet < Apart THEN quiet + 1 ELSE quiet
        /\ quiet \in 0..Apart /\ Apart = 3
    BY DEF MotorNext, MotorClock, pwm_generator, MotorTypes, Apart
  <2>2. pwmStart' \in BOOLEAN /\ (pwmStart' => quiet = Apart)
    BY <2>1
  <2>. QED  BY <2>1, <2>2
<1>9. step_strobe' => pwmStart
  BY DEF MotorNext, MotorClock, motor_sequencer, StepDue
<1>10. StrobesApart'
  BY <1>8, <1>9 DEF StrobesApart, Apart
<1>. QED  BY <1>1, <1>3, <1>4, <1>5, <1>6, <1>7, <1>8, <1>10 DEF MotorTypes, Runs

(* What happens in a clock to what is counted. *)
LEMMA MotorClocks ==
  ASSUME MotorInv, MotorNext
  PROVE  /\ UNCHANGED move /\ move.cycles \in Nat /\ cycles \in Nat /\ steps \in Nat
         /\ MotorWritten("control") =>
              ControlAhead /\ ~ControlAhead' /\ run' = TRUE /\ cycles' = move.cycles
         /\ ~MotorWritten("control") =>
              /\ ControlAhead' <=> ControlAhead
              /\ run' = (run /\ ~LastStrobe)
              /\ cycles' = IF step_strobe /\ cycles # 0 THEN cycles - 1 ELSE cycles
         /\ ~run \/ ~pwmStart => steps' = steps /\ step_strobe' = FALSE
         /\ run /\ pwmStart =>
              \/ steps' = steps + 1 /\ step_strobe'
              \/ steps' = steps /\ ~step_strobe'
         /\ run' \in BOOLEAN /\ step_strobe' \in BOOLEAN
<1>. USE DEF MotorInv
<1>0. MotorTypes' /\ StrobesApart'
  BY MotorTypesKept
<1>1. Runs("motor") /\ move \in Moves /\ UNCHANGED <<image, move>>
  BY DEF MotorNext, MotorClock, MotorTypes
<1>2. move.cycles \in Nat
  BY <1>1, MotorAssumption
<1>3. ControlAhead /\ ~(smPc = "control" /\ Accessed) => ControlAhead'
  BY DEF MotorNext, MotorProgram, MotorStalls, MotorClock, sm_regs, Accessed, MotorTypes, AfterAccess,
         ControlAhead
<1>4. ~ControlAhead => ~ControlAhead'
  BY DEF MotorNext, MotorProgram, MotorStalls, MotorClock, sm_regs, Accessed, MotorTypes, AfterAccess,
         ControlAhead
<1>5. MotorWritten("control") => /\ ControlAhead /\ ~ControlAhead' /\ run' = TRUE
                                 /\ cycles' = move.cycles
  BY DEF MotorNext, MotorProgram, MotorStalls, MotorClock, sm_regs, Accessed, MotorWritten, MotorTypes,
         ControlAhead
<1>6. ~MotorWritten("control") =>
              /\ run' = (run /\ ~LastStrobe)
              /\ cycles' = IF step_strobe /\ cycles # 0 THEN cycles - 1 ELSE cycles
  BY DEF MotorNext, MotorClock, sm_regs
<1>7. ~run \/ ~pwmStart => steps' = steps /\ step_strobe' = FALSE
  BY DEF MotorNext, MotorClock, motor_sequencer, StepDue
<1>8. run /\ pwmStart =>
        \/ steps' = steps + 1 /\ step_strobe'
        \/ steps' = steps /\ ~step_strobe'
  BY DEF MotorNext, MotorClock, motor_sequencer, StepDue, MotorOrder
<1>9. ~MotorWritten("control") => (ControlAhead' <=> ControlAhead)
  BY <1>3, <1>4 DEF MotorWritten
<1>10. cycles \in Nat /\ steps \in Nat /\ run' \in BOOLEAN /\ step_strobe' \in BOOLEAN
  BY <1>0 DEF MotorTypes
<1>11. UNCHANGED move
  BY <1>1
<1>12. ~MotorWritten("control") => /\ ControlAhead' <=> ControlAhead
                                   /\ run' = (run /\ ~LastStrobe)
                                   /\ cycles' = IF step_strobe /\ cycles # 0 THEN cycles - 1 ELSE cycles
  BY ONLY <1>6, <1>9
<1>. QED  BY ONLY <1>2, <1>5, <1>7, <1>8, <1>10, <1>11, <1>12

LEMMA MotorStep == MotorInv /\ [MotorNext]_motorVars => MotorInv'
<1>. SUFFICES ASSUME MotorInv, [MotorNext]_motorVars PROVE MotorInv'
  OBVIOUS
<1>1. CASE UNCHANGED motorVars
  BY <1>1 DEF motorVars, MotorInv, MotorTypes, StrobesApart, MotorOrder, StepsCount, ControlAhead, Runs
<1>2. CASE MotorNext
  <2>1. MotorTypes' /\ StrobesApart' /\ MotorTypes /\ StrobesApart
    BY <1>2, MotorTypesKept DEF MotorInv
  <2>2. MotorOrder'
    <3>1. ControlAhead' => ~run' /\ ~step_strobe' /\ steps' = 0
      BY <1>2, <2>1, MotorClocks DEF MotorInv, MotorOrder
    <3>2. smPc' \in {"control", "wait", "done"} => controller_en'
      <4>1. /\ \/ smPc' = smPc
               \/ smPc = "config" /\ ready /\ smPc' = "control"
               \/ smPc \in {"control", "wait", "done"}
                \/ smPc' = "config"
            /\ controller_en => controller_en'
        BY <1>2, <2>1 DEF MotorNext, MotorProgram, MotorStalls, MotorClock, sm_regs, MotorTypes,
                          AfterAccess
      <4>. QED  BY <1>2, <2>1, <4>1 DEF MotorInv, MotorOrder
    <3>3. run' => controller_en'
      BY <1>2, <3>2, <2>1 DEF MotorNext, MotorClock, sm_regs, MotorWritten, MotorInv, MotorOrder
    <3>4. smPc' = "config" /\ ready' => controller_en'
      BY <1>2, <2>1 DEF MotorNext, MotorProgram, MotorStalls, MotorClock, sm_regs, Accessed,
                        MotorWritten,
                        MotorTypes, AfterAccess
    <3>. QED  BY <3>1, <3>2, <3>3, <3>4 DEF MotorOrder
  <2>3. StepsCount'
    <3>0. /\ UNCHANGED move /\ move.cycles \in Nat /\ cycles \in Nat /\ steps \in Nat
      BY <1>2, MotorClocks
    <3>1. CASE MotorWritten("control")
      <4>1. /\ ControlAhead /\ run' = TRUE /\ cycles' = move.cycles
            /\ ~run => steps' = steps /\ step_strobe' = FALSE
        BY <1>2, <3>1, MotorClocks
      <4>2. ~run /\ steps = 0
        BY <4>1 DEF MotorInv, MotorOrder
      <4>. QED  BY ONLY <3>0, <4>1, <4>2 DEF StepsCount
    <3>2. CASE ~MotorWritten("control") /\ ~run
      BY <1>2, <2>1, <3>2, MotorClocks DEF MotorInv, StepsCount
    <3>3. CASE ~MotorWritten("control") /\ run /\ step_strobe
      <4>1. ~pwmStart /\ (~move.free => steps = move.cycles - cycles + 1)
        BY <2>1, <3>3 DEF MotorInv, StepsCount, StrobesApart
      <4>2. /\ steps' = steps /\ step_strobe' = FALSE
            /\ cycles' = IF cycles # 0 THEN cycles - 1 ELSE cycles
            /\ ~move.free => (run' <=> cycles # 0)
        BY <1>2, <3>3, <4>1, MotorClocks DEF LastStrobe
      <4>. QED  BY ONLY <3>0, <4>1, <4>2 DEF StepsCount
    <3>4. CASE ~MotorWritten("control") /\ run /\ ~step_strobe
      <4>1. ~move.free => steps = move.cycles - cycles
        BY <3>0, <3>4 DEF MotorInv, StepsCount
      <4>2. /\ run' /\ cycles' = cycles
            /\ \/ steps' = steps + 1 /\ step_strobe'
               \/ steps' = steps /\ ~step_strobe'
        BY <1>2, <2>1, <3>4, MotorClocks DEF LastStrobe, MotorTypes
      <4>. QED  BY ONLY <3>0, <4>1, <4>2 DEF StepsCount
    <3>. QED  BY <2>1, <3>1, <3>2, <3>3, <3>4
  <2>. QED  BY <2>1, <2>2, <2>3 DEF MotorInv
<1>. QED  BY <1>1, <1>2

LEMMA MotorCounts == MotorInv => CountedSteps
BY DEF MotorInv, MotorTypes, MotorOrder, StepsCount, CountedSteps

------------------------------------------------------------------------------
(* The timers.  A timer that is enabled has not gone beyond its limit, or
   the comparison is next; one that is disabled has at most two calls of
   its handler ahead, one under way and one pending. *)
Serves(t, places) == irq.line = t /\ irq.at \in places

Ahead(t) ==
  (IF t \in glblStat /\ ~Serves(t, {"clear_global"}) THEN 1 ELSE 0)
  + (IF Serves(t, {"clear_global", "call"}) THEN 1 ELSE 0)

TimerHolds(t) ==
  IF t \in enabled THEN ticks[t] <= TickLimits[t] + (IF Serves(t, {"compare"}) THEN 1 ELSE 0)
  ELSE ticks[t] + Ahead(t) <= TickLimits[t] + 2

IntrTypes ==
  /\ irq \in [at : {"idle", "clear_gpio", "clear_global", "call", "compare"}, line : Lines \cup {0}]
  /\ irq.at = "clear_gpio" => irq.line \in Pins
  /\ irq.at = "compare" => irq.line \in Timers
  /\ enabled \subseteq Timers /\ gpioStat \subseteq Pins /\ glblStat \subseteq Lines
  /\ ticks \in [Timers -> Nat]

IntrInv == IntrTypes /\ \A t \in Timers : TimerHolds(t)

LEMMA TimersAreNoPins == Pins \cap Timers = {} /\ \A t \in Timers : TickLimits[t] \in Nat
BY InterruptAssumption DEF Timers

LEMMA IntrInitInv == IntrInit => IntrInv
<1>. SUFFICES ASSUME IntrInit PROVE IntrInv
  OBVIOUS
<1>1. /\ irq = Idle /\ enabled \subseteq Timers /\ gpioStat = {} /\ glblStat = {}
      /\ ticks = [t \in Timers |-> 0]
  BY DEF IntrInit
<1>2. IntrTypes
  BY <1>1 DEF IntrTypes, Idle
<1>3. ASSUME NEW t \in Timers PROVE TimerHolds(t)
  BY <1>1, <1>3, TimersAreNoPins DEF TimerHolds, Serves, Ahead, Idle
<1>. QED  BY <1>2, <1>3 DEF IntrInv

(* What a clock does to a timer. *)
LEMMA TimerClocks ==
  ASSUME IntrTypes, Clock, NEW t \in Timers
  PROVE  /\ gpioStat' \subseteq Pins /\ glblStat' \subseteq Lines
         /\ t \notin enabled => (t \in glblStat' <=> t \in glblStat /\ t \notin Write("clear_global"))
<1>1. PICK pulses \in SUBSET enabled :
          /\ gpioStat' = Stat(gpioStat, gpio_int_event, Write("clear_gpio"))
          /\ glblStat' = Stat(glblStat, (gpioStat \cap attachedTo) \cup pulses, Write("clear_global"))
  BY DEF Clock
<1>2. gpio_int_event \subseteq Pins
  BY DEF gpio_int_event, Pos, Neg
<1>. QED  BY <1>1, <1>2, TimersAreNoPins DEF Stat, IntrTypes, Lines

LEMMA IntrKeeps ==
  ASSUME IntrInv, IntrNext
  PROVE  IntrInv'
<1>. USE DEF IntrInv
<1>a. /\ Clock /\ \A t \in Timers : ticks[t] \in Nat /\ TickLimits[t] \in Nat
      /\ Timers \subseteq Lines /\ Pins \subseteq Lines
  BY TimersAreNoPins DEF IntrNext, IntrTypes, Lines
<1>b. gpioStat' \subseteq Pins /\ glblStat' \subseteq Lines
  BY <1>a, TimerClocks DEF Timers
<1>1. CASE Attach \/ Stalls
  <2>1. UNCHANGED <<irq, ticks, enabled>> /\ Write("clear_global") = {}
    BY <1>1 DEF Attach, Stalls, Write
  <2>2. ASSUME NEW t \in Timers PROVE TimerHolds(t)'
    BY <1>a, <2>1, <2>2, TimerClocks DEF TimerHolds, Serves, Ahead
  <2>. QED  BY <1>b, <2>1, <2>2 DEF IntrTypes
<1>2. CASE TakeInterrupt
  <2>1. PICK l \in glblStat \cap attachedTo :
            irq' = [at |-> IF l \in Pins THEN "clear_gpio" ELSE "clear_global", line |-> l]
    BY <1>2 DEF TakeInterrupt
  <2>2. irq.at = "idle" /\ UNCHANGED <<ticks, enabled>> /\ Write("clear_global") = {} /\ l \in Lines
    BY <1>2 DEF TakeInterrupt, Idle, Write, IntrTypes
  <2>3. IntrTypes'
    BY <1>b, <2>1, <2>2 DEF IntrTypes
  <2>4. ASSUME NEW t \in Timers PROVE TimerHolds(t)'
    <3>1. l = t => irq'.at = "clear_global" /\ irq'.line = t /\ t \in glblStat
      BY <2>1, TimersAreNoPins
    <3>2. l # t => irq'.line # t
      BY <2>1
    <3>3. TimerHolds(t)
      OBVIOUS
    <3>4. t \notin enabled => (t \in glblStat' <=> t \in glblStat)
      BY <1>a, <2>2, TimerClocks
    <3>. QED  BY <1>a, <2>2, <3>1, <3>2, <3>3, <3>4 DEF TimerHolds, Serves, Ahead
  <2>. QED  BY <2>3, <2>4
<1>3. CASE Clear
  <2>1. /\ UNCHANGED <<ticks, enabled>>
        /\ \/ irq.at = "clear_gpio" /\ irq' = [irq EXCEPT !.at = "clear_global"]
           \/ irq.at = "clear_global" /\ irq' = [irq EXCEPT !.at = "call"]
    BY <1>3 DEF Clear, Then
  <2>2. /\ irq'.line = irq.line
        /\ irq.at = "clear_gpio" => irq'.at = "clear_global"
        /\ irq.at = "clear_global" => irq'.at = "call"
    BY <2>1 DEF IntrTypes
  <2>3. IntrTypes'
    BY <1>b, <2>1 DEF IntrTypes
  <2>4. ASSUME NEW t \in Timers PROVE TimerHolds(t)'
    <3>1. t \notin enabled =>
             (t \in glblStat' <=> t \in glblStat /\ ~(irq.at = "clear_global" /\ irq.line = t))
      BY <1>a, <2>1, <2>2, TimerClocks DEF Write
    <3>2. irq.line = t => irq.at = "clear_global"
      BY <2>1, TimersAreNoPins DEF IntrTypes
    <3>3. TimerHolds(t)
      OBVIOUS
    <3>4. ticks'[t] = ticks[t] /\ (t \in enabled' <=> t \in enabled)
      BY <2>1
    <3>5. CASE irq.line = t
      <4>1. irq.at = "clear_global" /\ irq'.at = "call" /\ irq'.line = t
        BY <2>2, <3>2, <3>5
      <4>. QED  BY ONLY <1>a, <4>1, <3>1, <3>3, <3>4, <3>5 DEF TimerHolds, Serves, Ahead
    <3>6. CASE irq.line # t
      <4>1. irq'.line # t
        BY <2>2, <3>6
      <4>. QED  BY ONLY <1>a, <4>1, <3>1, <3>3, <3>4, <3>6 DEF TimerHolds, Serves, Ahead
    <3>. QED  BY <3>5, <3>6
  <2>. QED  BY <2>3, <2>4
<1>4. CASE PinHandler
  <2>1. /\ irq.at = "call" /\ irq.line \in Pins /\ irq' = Idle /\ UNCHANGED <<ticks, enabled>>
        /\ Write("clear_global") = {}
    BY <1>4 DEF PinHandler, Write
  <2>2. IntrTypes'
    BY <1>b, <2>1 DEF IntrTypes, Idle
  <2>3. ASSUME NEW t \in Timers PROVE TimerHolds(t)'
    <3>1. irq.line # t /\ irq'.at = "idle"
      BY <2>1, TimersAreNoPins DEF Idle
    <3>2. t \notin enabled => (t \in glblStat' <=> t \in glblStat)
      BY <1>a, <2>1, TimerClocks
    <3>3. TimerHolds(t)
      OBVIOUS
    <3>. QED  BY <1>a, <2>1, <3>1, <3>2, <3>3 DEF TimerHolds, Serves, Ahead
  <2>. QED  BY <2>2, <2>3
<1>5. CASE CountTick
  <2>1. /\ irq.line \in Timers /\ irq.at = "call" /\ irq' = [irq EXCEPT !.at = "compare"]
        /\ ticks' = [ticks EXCEPT ![irq.line] = @ + 1] /\ UNCHANGED enabled
        /\ Write("clear_global") = {}
    BY <1>5 DEF CountTick, Then, Write
  <2>2. irq'.line = irq.line /\ irq'.at = "compare"
    BY <2>1 DEF IntrTypes
  <2>3. IntrTypes'
    BY <1>b, <2>1 DEF IntrTypes
  <2>4. ASSUME NEW t \in Timers PROVE TimerHolds(t)'
    <3>1. ticks'[t] = IF irq.line = t THEN ticks[t] + 1 ELSE ticks[t]
      BY <2>1 DEF IntrTypes
    <3>2. t \notin enabled => (t \in glblStat' <=> t \in glblStat)
      BY <1>a, <2>1, TimerClocks
    <3>3. TimerHolds(t)
      OBVIOUS
    <3>. QED  BY <1>a, <2>1, <2>2, <3>1, <3>2, <3>3 DEF TimerHolds, Serves, Ahead
  <2>. QED  BY <2>3, <2>4
<1>6. CASE CompareTick
  <2>1. /\ irq.at = "compare" /\ irq' = Idle /\ enabled' = enabled \ Stops(irq.line) /\ UNCHANGED ticks
        /\ Write("clear_global") = {}
    BY <1>6 DEF CompareTick, Write
  <2>2. IntrTypes'
    BY <1>b, <2>1 DEF IntrTypes, Idle
  <2>3. ASSUME NEW t \in Timers PROVE TimerHolds(t)'
    <3>1. irq'.at = "idle"
      BY <2>1 DEF Idle
    <3>2. t \in enabled' <=> t \in enabled /\ ~(irq.line = t /\ ticks[t] > TickLimits[t])
      BY <2>1 DEF Stops
    <3>3. t \notin enabled => (t \in glblStat' <=> t \in glblStat)
      BY <1>a, <2>1, TimerClocks
    <3>4. TimerHolds(t)
      OBVIOUS
    <3>. QED  BY <1>a, <2>1, <3>1, <3>2, <3>3, <3>4 DEF TimerHolds, Serves, Ahead
  <2>. QED  BY <2>2, <2>3
<1>. QED  BY <1>1, <1>2, <1>3, <1>4, <1>5, <1>6 DEF IntrNext, Processor

LEMMA IntrStep == IntrInv /\ [IntrNext]_intrVars => IntrInv'
<1>1. IntrInv /\ UNCHANGED intrVars => IntrInv'
  BY DEF intrVars, IntrInv, IntrTypes, TimerHolds, Serves, Ahead
<1>. QED  BY <1>1, IntrKeeps

LEMMA TimersCount == IntrInv => TimersStop
<1>. SUFFICES ASSUME IntrInv, NEW t \in Timers PROVE ticks[t] <= TickLimits[t] + 2
  BY DEF TimersStop
<1>1. TimerHolds(t) /\ ticks[t] \in Nat /\ TickLimits[t] \in Nat
  BY TimersAreNoPins DEF IntrInv, IntrTypes
<1>. QED  BY <1>1 DEF TimerHolds, Ahead

------------------------------------------------------------------------------
(* The words of the LED chains. *)
LedTypes ==
  /\ periods \in LedPeriods /\ ledAck \in BOOLEAN /\ access \in 1..(LastAccess + 1)
  /\ ledCs \in BOOLEAN
  /\ wr_ptr \in [Ports -> {0, 1}] /\ rd_ptr \in [Ports -> {0, 1}]
  /\ full \in [Ports -> BOOLEAN] /\ empty \in [Ports -> BOOLEAN]
  /\ mem \in [Ports -> [1..2 -> Nat]] /\ data_rd \in [Ports -> BOOLEAN]
  /\ clk_cnt \in [Ports -> Nat] /\ state \in [Ports -> {"reset", "transmit"}]
  /\ bit_cnt \in [Ports -> Nat] /\ loaded \in [Ports -> Seq(Nat)]

(* A FIFO is full or empty; a read is asked for in the first clock of a
   word, when the word is still there. *)
FifoHolds(p) ==
  /\ full[p] <=> wr_ptr[p] # rd_ptr[p]
  /\ empty[p] <=> wr_ptr[p] = rd_ptr[p]
  /\ data_rd[p] => ~empty[p] /\ state[p] = "transmit" /\ clk_cnt[p] = 0

LedInv ==
  /\ LedTypes /\ WordsInOrder
  /\ \A p \in Ports : FifoHolds(p)
  /\ ledAck => sw_wr_en
  /\ ledCs => access \in 1..LastAccess

(* A program that is not loaded does nothing. *)
LedIInv == IF Runs("leds") THEN LedInv ELSE WordsInOrder

Counted(n) == [k \in 1..n |-> k]

LEMMA CountedOne ==
  ASSUME NEW n \in Nat
  PROVE  Counted(n) \in Seq(Nat) /\ Append(Counted(n), n + 1) = Counted(n + 1)
BY DEF Counted

(* Which word of which port an access is. *)
LEMMA AccessNumbers ==
  ASSUME NEW k \in 1..LastAccess
  PROVE  /\ LedAccess(k).port \in Ports /\ LedAccess(k).word \in 0..Leds
         /\ k = LedAccess(k).port * PerPort + LedAccess(k).word + 1
<1>. DEFINE P == PerPort a == k - 1
<1>1. P \in Nat /\ P > 0 /\ P = Leds + 1 /\ Leds \in Nat
  BY LedAssumption DEF PerPort
<1>2. a \in 0..(2 * P - 1) /\ LedAccess(k) = [port |-> a \div P, word |-> a % P] /\ k = a + 1
  BY <1>1 DEF LedAccess, Number0, LastAccess
<1>. HIDE DEF P, a
<1>3. a = P * (a \div P) + (a % P) /\ a \div P \in Nat /\ a % P \in 0..(P - 1)
  BY <1>1, <1>2
<1>4. a \div P \in {0, 1}
  BY <1>1, <1>2, <1>3
<1>5. P * (a \div P) = (a \div P) * P
  BY <1>1, <1>3
<1>. QED  BY <1>1, <1>2, <1>3, <1>4, <1>5 DEF Ports, P

WordsOf(p) == IF access <= p * PerPort + 1 THEN 0
           ELSE IF access > p * PerPort + 1 + Leds THEN Leds ELSE access - 1 - (p * PerPort + 1)

LEMMA WrittenIsCounted == ASSUME NEW p \in Ports PROVE Written(p) = Counted(WordsOf(p))
BY DEF Written, Counted, WordsOf

(* The access, on the bus or not, is one to a port's words. *)
Writes(p) == LedAccess(access).port = p /\ LedAccess(access).word > 0

(* The write of a word adds it to those of its port and to no others. *)
LEMMA WrittenGrows ==
  ASSUME access \in 1..LastAccess, access' = access + 1, NEW p \in Ports
  PROVE  /\ WordsOf(p) \in Nat
         /\ Writes(p) => LedAccess(access).word = WordsOf(p) + 1 /\ WordsOf(p)' = WordsOf(p) + 1
         /\ ~Writes(p) => WordsOf(p)' = WordsOf(p)
<1>. DEFINE P == PerPort q == LedAccess(access).port w == LedAccess(access).word
<1>1. /\ P \in Nat /\ P = Leds + 1 /\ Leds \in Nat
  BY LedAssumption DEF PerPort
<1>2. /\ q \in {0, 1} /\ w \in 0..Leds /\ access = q * P + w + 1
      /\ Writes(p) <=> q = p /\ w > 0
  BY AccessNumbers DEF Ports, Writes
<1>. HIDE DEF P, q, w
<1>3. /\ WordsOf(p) = IF access <= p * P + 1 THEN 0
                   ELSE IF access > p * P + 1 + Leds THEN Leds ELSE access - 1 - (p * P + 1)
      /\ WordsOf(p)' = IF access' <= p * P + 1 THEN 0
                    ELSE IF access' > p * P + 1 + Leds THEN Leds ELSE access' - 1 - (p * P + 1)
  BY DEF WordsOf, P
<1>4. p * P = IF p = 0 THEN 0 ELSE P
  BY <1>1 DEF Ports
<1>5. q * P = IF q = 0 THEN 0 ELSE P
  BY <1>1, <1>2
<1>. QED  BY <1>1, <1>2, <1>3, <1>4, <1>5 DEF w, Ports
LEMMA LedInitInv == LedInit => LedIInv
<1>. SUFFICES ASSUME LedInit PROVE LedIInv
  OBVIOUS
<1>1. /\ LastAccess \in Nat /\ LedBits - 1 \in Nat /\ Leds \in Nat
  BY LedAssumption DEF LastAccess, PerPort
<1>2. WordsInOrder
  <2>1. ASSUME NEW p \in Ports PROVE loaded[p] \o InFifo(p) = Written(p)
    <3>1. loaded[p] = <<>> /\ InFifo(p) = <<>>
      BY DEF LedInit, ByPort, InFifo
    <3>2. WordsOf(p) = 0
      BY <1>1, LedAssumption DEF LedInit, WordsOf, PerPort, Ports
    <3>. QED  BY <3>1, <3>2, WrittenIsCounted DEF Counted
  <2>. QED  BY <2>1 DEF WordsInOrder
<1>3. ASSUME Runs("leds") PROVE LedInv
  <2>1. periods \in LedPeriods
    BY <1>3 DEF LedInit, Choice
  <2>2. <<0, 0>> \in [1..2 -> Nat] /\ <<>> \in Seq(Nat)
    OBVIOUS
  <2>3. LedTypes
    <3>1. /\ periods \in LedPeriods /\ access = 1 /\ ledAck = FALSE /\ ledCs = FALSE
          /\ wr_ptr = [q \in Ports |-> 0] /\ rd_ptr = [q \in Ports |-> 0]
          /\ full = [q \in Ports |-> FALSE] /\ empty = [q \in Ports |-> TRUE]
          /\ mem = [q \in Ports |-> <<0, 0>>] /\ data_rd = [q \in Ports |-> FALSE]
          /\ state = [q \in Ports |-> "reset"] /\ clk_cnt = [q \in Ports |-> 0]
          /\ bit_cnt = [q \in Ports |-> LedBits - 1] /\ loaded = [q \in Ports |-> <<>>]
      BY <2>1 DEF LedInit, ByPort
    <3>2. ledAck \in BOOLEAN /\ ledCs \in BOOLEAN /\ full \in [Ports -> BOOLEAN] /\ empty \in [Ports -> BOOLEAN]
          /\ data_rd \in [Ports -> BOOLEAN]
      BY ONLY <3>1
    <3>3. /\ access \in 1..(LastAccess + 1) /\ wr_ptr \in [Ports -> {0, 1}]
          /\ rd_ptr \in [Ports -> {0, 1}]
          /\ state \in [Ports -> {"reset", "transmit"}] /\ clk_cnt \in [Ports -> Nat]
          /\ bit_cnt \in [Ports -> Nat]
      BY ONLY <3>1, <1>1
    <3>4. mem \in [Ports -> [1..2 -> Nat]] /\ loaded \in [Ports -> Seq(Nat)]
      BY ONLY <3>1, <2>2
    <3>. QED  BY ONLY <3>1, <3>2, <3>3, <3>4 DEF LedTypes
  <2>4. \A p \in Ports : FifoHolds(p)
    BY DEF LedInit, FifoHolds, ByPort
  <2>. QED  BY <1>2, <2>3, <2>4 DEF LedInv, LedInit
<1>. QED  BY <1>2, <1>3 DEF LedIInv

(* The edge of a port's registers. *)
LEMMA LedPortEdge ==
  ASSUME LedInv, LedEdge, NEW p \in Ports
  PROVE  /\ wr_ptr'[p] = IF fifo_wr(p) /\ ~full[p] THEN 1 - wr_ptr[p] ELSE wr_ptr[p]
         /\ rd_ptr'[p] = IF data_rd[p] /\ ~empty[p] THEN 1 - rd_ptr[p] ELSE rd_ptr[p]
         /\ full'[p] = FullNext(p) /\ empty'[p] = EmptyNext(p)
         /\ mem'[p] = IF fifo_wr(p) /\ ~full[p]
                        THEN [mem[p] EXCEPT ![wr_ptr[p] + 1] = LedAccess(access).word]
                        ELSE mem[p]
         /\ state'[p] = After(p).state /\ clk_cnt'[p] = After(p).clk_cnt
         /\ bit_cnt'[p] = After(p).bit_cnt /\ data_rd'[p] = After(p).data_rd
         /\ loaded'[p] = IF After(p).load THEN Append(loaded[p], rd_data(p)) ELSE loaded[p]
BY DEF LedEdge, sync_fifo, ws281x_driver

(* What the driver does next. *)
LEMMA DriverMoves ==
  ASSUME LedInv, NEW p \in Ports
  PROVE  /\ After(p).state \in {"reset", "transmit"} /\ After(p).clk_cnt \in Nat
         /\ After(p).bit_cnt \in Nat /\ After(p).data_rd \in BOOLEAN /\ After(p).load \in BOOLEAN
         /\ After(p).load => /\ ~empty[p] /\ ~data_rd[p] /\ After(p).data_rd
                             /\ After(p).state = "transmit" /\ After(p).clk_cnt = 0
         /\ ~After(p).load => ~After(p).data_rd
<1>1. /\ cfg_clk_period \in Nat \ {0} /\ LedBits - 1 \in Nat
  BY LedAssumption DEF LedInv, LedTypes, cfg_clk_period
<1>2. /\ state[p] \in {"reset", "transmit"} /\ clk_cnt[p] \in Nat /\ bit_cnt[p] \in Nat
      /\ empty[p] \in BOOLEAN /\ data_rd[p] \in BOOLEAN
      /\ data_rd[p] => state[p] = "transmit" /\ clk_cnt[p] = 0
  BY DEF LedInv, LedTypes, FifoHolds
<1>3. CASE state[p] = "reset"
  <2>1. After(p) = StateReset(p) /\ data_rd[p] = FALSE
    BY <1>2, <1>3 DEF After
  <2>2. CASE After(p) = Loads /\ ~empty[p]
    BY <1>1, <2>1, <2>2 DEF Loads, Driver
  <2>3. CASE After(p) = Driver("reset", 0, bit_cnt[p], FALSE, FALSE)
    BY <1>2, <2>3 DEF Driver
  <2>4. CASE After(p) = Driver("reset", clk_cnt[p], bit_cnt[p], FALSE, FALSE)
    BY <1>2, <2>4 DEF Driver
  <2>5. CASE After(p) = Driver("reset", clk_cnt[p] + 1, bit_cnt[p], FALSE, FALSE)
    BY <1>2, <2>5 DEF Driver
  <2>. QED  BY <2>1, <2>2, <2>3, <2>4, <2>5 DEF StateReset
<1>4. CASE state[p] = "transmit"
  <2>1. After(p) = StateTransmit(p)
    BY <1>4 DEF After
  <2>2. CASE clk_cnt[p] # cfg_clk_period
    <3>1. After(p) = Driver("transmit", clk_cnt[p] + 1, bit_cnt[p], FALSE, FALSE)
      BY <2>1, <2>2 DEF StateTransmit
    <3>. QED  BY <1>2, <3>1 DEF Driver
  <2>3. CASE clk_cnt[p] = cfg_clk_period
    <3>1. data_rd[p] = FALSE
      BY <1>1, <1>2, <2>3
    <3>2. CASE bit_cnt[p] # 0
      <4>1. After(p) = Driver("transmit", 0, bit_cnt[p] - 1, FALSE, FALSE) /\ bit_cnt[p] - 1 \in Nat
        <5>1. bit_cnt[p] - 1 \in Nat
          BY <1>2, <3>2
        <5>2. After(p) = Driver("transmit", 0, bit_cnt[p] - 1, data_rd[p], FALSE)
          BY <2>1, <2>3, <3>2 DEF StateTransmit
        <5>. QED  BY <3>1, <5>1, <5>2
      <4>. QED  BY <4>1 DEF Driver
    <3>3. CASE bit_cnt[p] = 0 /\ ~empty[p]
      <4>1. After(p) = Loads
        BY <2>1, <2>3, <3>3 DEF StateTransmit
      <4>. QED  BY <1>1, <3>1, <3>3, <4>1 DEF Loads, Driver
    <3>4. CASE bit_cnt[p] = 0 /\ empty[p]
      <4>1. After(p) = Driver("reset", 0, bit_cnt[p], FALSE, FALSE)
        BY <2>1, <2>3, <3>1, <3>4 DEF StateTransmit
      <4>. QED  BY <1>2, <4>1 DEF Driver
    <3>. QED  BY <3>2, <3>3, <3>4
  <2>. QED  BY <2>2, <2>3
<1>. QED  BY <1>2, <1>3, <1>4
LEMMA LedKeeps ==
  ASSUME LedInv, Runs("leds"), LedEdge, UNCHANGED image
  PROVE  LedInv'
<1>1. /\ LastAccess \in Nat /\ access \in 1..(LastAccess + 1) /\ ledAck \in BOOLEAN
  BY LedAssumption DEF LedInv, LedTypes, LastAccess, PerPort
<1>2. ledAck => /\ ledCs /\ access \in 1..LastAccess
                /\ \A p \in Ports : Writing(p) => ~full[p] /\ fifo_wr(p)
  BY <1>1 DEF LedInv, sw_wr_en, Enabling, Writing, fifo_wr
<1>3. ~ledAck => \A p \in Ports : ~fifo_wr(p)
  BY DEF fifo_wr
<1>4. /\ ledAck' = (sw_wr_en /\ ~ledAck) /\ access' = IF ledAck THEN access + 1 ELSE access
      /\ periods' = periods /\ ledCs' \in BOOLEAN
      /\ ledCs /\ ~ledAck => ledCs'
      /\ ledCs' => access' <= LastAccess
  BY DEF LedEdge, Register, SketchWrites
<1>5. \A p \in Ports : fifo_wr(p) <=> ledAck /\ Writes(p)
  BY <1>2, <1>3 DEF fifo_wr, Writing, Writes
(* A port, with its registers of before and after the edge. *)
<1>6. ASSUME NEW p \in Ports
      PROVE  /\ FifoHolds(p)' /\ wr_ptr'[p] \in {0, 1} /\ rd_ptr'[p] \in {0, 1}
             /\ full'[p] \in BOOLEAN /\ empty'[p] \in BOOLEAN /\ data_rd'[p] \in BOOLEAN
             /\ mem'[p] \in [1..2 -> Nat] /\ loaded'[p] \in Seq(Nat)
             /\ loaded'[p] \o InFifo(p)' = Written(p)'
             /\ ~fifo_wr(p) => (full'[p] => full[p])
  <2>. DEFINE W == fifo_wr(p)  load == After(p).load
  <2>1. /\ wr_ptr[p] \in {0, 1} /\ rd_ptr[p] \in {0, 1} /\ full[p] \in BOOLEAN /\ empty[p] \in BOOLEAN
        /\ data_rd[p] \in BOOLEAN /\ mem[p] \in [1..2 -> Nat] /\ loaded[p] \in Seq(Nat)
        /\ FifoHolds(p) /\ loaded[p] \o InFifo(p) = Written(p) /\ W \in BOOLEAN
    BY DEF LedInv, LedTypes, WordsInOrder, fifo_wr
  <2>2. /\ wr_ptr'[p] = IF W /\ ~full[p] THEN 1 - wr_ptr[p] ELSE wr_ptr[p]
        /\ rd_ptr'[p] = IF data_rd[p] /\ ~empty[p] THEN 1 - rd_ptr[p] ELSE rd_ptr[p]
        /\ full'[p] = FullNext(p) /\ empty'[p] = EmptyNext(p)
        /\ mem'[p] = IF W /\ ~full[p]
                       THEN [mem[p] EXCEPT ![wr_ptr[p] + 1] = LedAccess(access).word]
                       ELSE mem[p]
        /\ loaded'[p] = IF load THEN Append(loaded[p], rd_data(p)) ELSE loaded[p]
    BY LedPortEdge
  <2>3. /\ load => ~empty[p] /\ ~data_rd[p] /\ data_rd'[p] /\ state'[p] = "transmit" /\ clk_cnt'[p] = 0
        /\ ~load => ~data_rd'[p]
        /\ data_rd'[p] \in BOOLEAN /\ load \in BOOLEAN
    BY LedPortEdge, DriverMoves
  <2>4. W => ~full[p] /\ LedAccess(access).word \in Nat
    BY <1>2, <1>5, AccessNumbers, LedAssumption DEF fifo_wr
  <2>5. Difference(p) = IF wr_ptr[p] = rd_ptr[p] THEN 0 ELSE 1
    BY <2>1 DEF Difference
  <2>6. Written(p)' = IF W THEN Append(Written(p), LedAccess(access).word) ELSE Written(p)
    <3>1. CASE ledAck
      <4>1. access \in 1..LastAccess /\ access' = access + 1
        BY <1>2, <1>4, <3>1
      <4>2. /\ WordsOf(p) \in Nat
            /\ Writes(p) => LedAccess(access).word = WordsOf(p) + 1 /\ WordsOf(p)' = WordsOf(p) + 1
            /\ ~Writes(p) => WordsOf(p)' = WordsOf(p)
        BY <4>1, WrittenGrows
      <4>3. Written(p) = Counted(WordsOf(p)) /\ Written(p)' = Counted(WordsOf(p)')
        BY WrittenIsCounted DEF Written, Counted, WordsOf
      <4>. QED  BY <1>5, <3>1, <4>2, <4>3, CountedOne
    <3>2. CASE ~ledAck
      <4>1. access' = access /\ ~W
        BY <1>3, <1>4, <3>2
      <4>. QED  BY <4>1 DEF Written
    <3>. QED  BY <3>1, <3>2
  <2>7. rd_data(p) \in Nat
    BY <2>1 DEF rd_data
  <2>. HIDE DEF W, load
  <2>8. CASE empty[p] /\ W
    <3>1. /\ wr_ptr'[p] = 1 - wr_ptr[p] /\ rd_ptr'[p] = rd_ptr[p] /\ rd_ptr[p] = wr_ptr[p]
          /\ full'[p] = TRUE /\ empty'[p] = FALSE /\ ~data_rd'[p] /\ loaded'[p] = loaded[p]
          /\ mem'[p] = [mem[p] EXCEPT ![wr_ptr[p] + 1] = LedAccess(access).word]
      BY <2>1, <2>2, <2>3, <2>4, <2>5, <2>8 DEF FifoHolds, FullNext, EmptyNext, W
    <3>2. InFifo(p)' = <<LedAccess(access).word>> /\ InFifo(p) = <<>>
      BY <2>1, <2>8, <3>1 DEF InFifo, rd_data
    <3>3. loaded'[p] \o InFifo(p)' = Written(p)'
      <4>1. loaded[p] \in Seq(Nat) /\ LedAccess(access).word \in Nat /\ loaded[p] \o <<>> = Written(p)
        BY <2>1, <2>4, <2>8, <3>2
      <4>2. Written(p)' = Append(loaded[p], LedAccess(access).word)
        BY <2>6, <2>8, <4>1
      <4>3. loaded[p] \o <<LedAccess(access).word>> = Append(loaded[p], LedAccess(access).word)
        BY ONLY <4>1
      <4>. QED  BY <3>1, <3>2, <4>2, <4>3
    <3>4. mem'[p] \in [1..2 -> Nat] /\ wr_ptr'[p] \in {0, 1} /\ FifoHolds(p)'
      BY <2>1, <2>4, <2>8, <3>1 DEF FifoHolds
    <3>5. full'[p] \in BOOLEAN /\ empty'[p] \in BOOLEAN /\ rd_ptr'[p] \in {0, 1}
          /\ loaded'[p] \in Seq(Nat)
      BY <2>1, <3>1
    <3>. QED  BY <2>3, <2>8, <3>3, <3>4, <3>5 DEF W
  <2>9. CASE empty[p] /\ ~W
    <3>1. /\ wr_ptr'[p] = wr_ptr[p] /\ rd_ptr'[p] = rd_ptr[p] /\ rd_ptr[p] = wr_ptr[p]
          /\ full'[p] = full[p] /\ empty'[p] = empty[p] /\ ~data_rd'[p] /\ loaded'[p] = loaded[p]
          /\ mem'[p] = mem[p]
      BY <2>1, <2>2, <2>3, <2>4, <2>5, <2>9 DEF FifoHolds, FullNext, EmptyNext, W
    <3>2. InFifo(p)' = <<>> /\ InFifo(p) = <<>>
      BY <2>9, <3>1 DEF InFifo
    <3>. QED  BY <2>1, <2>3, <2>6, <2>9, <3>1, <3>2 DEF FifoHolds
  <2>10. CASE ~empty[p] /\ data_rd[p]
    <3>1. /\ wr_ptr'[p] = wr_ptr[p] /\ rd_ptr'[p] = 1 - rd_ptr[p] /\ rd_ptr[p] # wr_ptr[p] /\ ~W
          /\ full'[p] = FALSE /\ empty'[p] = TRUE /\ ~data_rd'[p] /\ loaded'[p] = loaded[p]
          /\ mem'[p] = mem[p]
      BY <2>1, <2>2, <2>3, <2>4, <2>5, <2>10 DEF FifoHolds, FullNext, EmptyNext, W
    <3>2. InFifo(p)' = <<>> /\ InFifo(p) = <<>>
      BY <2>10, <3>1 DEF InFifo
    <3>3. FifoHolds(p)' /\ rd_ptr'[p] \in {0, 1}
      BY <2>1, <2>3, <2>10, <3>1 DEF FifoHolds
    <3>4. loaded'[p] \o InFifo(p)' = Written(p)'
      BY <2>1, <2>6, <3>1, <3>2
    <3>. QED  BY <2>1, <2>3, <3>1, <3>3, <3>4
  <2>11. CASE ~empty[p] /\ ~data_rd[p]
    <3>1. /\ wr_ptr'[p] = wr_ptr[p] /\ rd_ptr'[p] = rd_ptr[p] /\ rd_ptr[p] # wr_ptr[p] /\ ~W
          /\ full'[p] = full[p] /\ empty'[p] = empty[p] /\ mem'[p] = mem[p]
      BY <2>1, <2>2, <2>3, <2>4, <2>5, <2>11 DEF FifoHolds, FullNext, EmptyNext, W
    <3>2. InFifo(p) = <<rd_data(p)>>
      BY <2>11 DEF InFifo
    <3>3. CASE load
      <4>1. loaded'[p] = Append(loaded[p], rd_data(p)) /\ InFifo(p)' = <<>>
        BY <2>2, <2>3, <3>1, <3>3 DEF InFifo
      <4>2. loaded'[p] \o InFifo(p)' = loaded[p] \o InFifo(p) /\ loaded'[p] \in Seq(Nat)
        BY <2>1, <2>7, <3>2, <4>1
      <4>. QED  BY <2>1, <2>3, <2>6, <2>11, <3>1, <3>3, <4>2 DEF FifoHolds
    <3>4. CASE ~load
      <4>1. loaded'[p] = loaded[p] /\ InFifo(p)' = InFifo(p)
        BY <2>2, <2>3, <2>11, <3>1, <3>4 DEF InFifo, rd_data
      <4>. QED  BY <2>1, <2>3, <2>6, <2>11, <3>1, <3>4, <4>1 DEF FifoHolds
    <3>. QED  BY <2>3, <3>3, <3>4
  <2>. QED  BY <2>1, <2>8, <2>9, <2>10, <2>11
<1>7. LedTypes'
  <2>1. /\ periods' \in LedPeriods /\ ledAck' \in BOOLEAN /\ ledCs' \in BOOLEAN
        /\ access' \in 1..(LastAccess + 1)
    BY <1>1, <1>2, <1>4 DEF LedInv, LedTypes
  <2>2. /\ wr_ptr' = [p \in Ports |-> wr_ptr'[p]] /\ rd_ptr' = [p \in Ports |-> rd_ptr'[p]]
        /\ full' = [p \in Ports |-> full'[p]] /\ empty' = [p \in Ports |-> empty'[p]]
        /\ mem' = [p \in Ports |-> mem'[p]] /\ data_rd' = [p \in Ports |-> data_rd'[p]]
        /\ clk_cnt' = [p \in Ports |-> clk_cnt'[p]] /\ state' = [p \in Ports |-> state'[p]]
        /\ bit_cnt' = [p \in Ports |-> bit_cnt'[p]] /\ loaded' = [p \in Ports |-> loaded'[p]]
    BY DEF LedEdge, sync_fifo, ws281x_driver
  <2>3. \A p \in Ports : /\ state'[p] \in {"reset", "transmit"} /\ clk_cnt'[p] \in Nat
                          /\ bit_cnt'[p] \in Nat
    BY LedPortEdge, DriverMoves
  <2>4. /\ wr_ptr' \in [Ports -> {0, 1}] /\ rd_ptr' \in [Ports -> {0, 1}]
        /\ full' \in [Ports -> BOOLEAN] /\ empty' \in [Ports -> BOOLEAN]
        /\ mem' \in [Ports -> [1..2 -> Nat]] /\ data_rd' \in [Ports -> BOOLEAN]
        /\ loaded' \in [Ports -> Seq(Nat)]
    BY <1>6, <2>2
  <2>5. /\ clk_cnt' \in [Ports -> Nat] /\ state' \in [Ports -> {"reset", "transmit"}]
        /\ bit_cnt' \in [Ports -> Nat]
    BY <2>2, <2>3
  <2>. QED  BY <2>1, <2>4, <2>5 DEF LedTypes
<1>8. ledAck' => sw_wr_en'
  <2>. SUFFICES ASSUME ledAck' PROVE sw_wr_en'
    OBVIOUS
  <2>1. ~ledAck /\ access' = access /\ sw_wr_en /\ ledCs /\ ledCs'
    BY <1>4 DEF sw_wr_en, Enabling, Writing
  <2>2. PICK p \in Ports : Enabling(p) \/ (Writing(p) /\ ~full[p])
    BY <2>1 DEF sw_wr_en
  <2>3. full'[p] => full[p]
    BY <1>3, <1>6, <2>1
  <2>4. (Enabling(p)' <=> Enabling(p)) /\ (Writing(p)' <=> Writing(p))
    BY <2>1 DEF Enabling, Writing
  <2>. QED  BY <2>2, <2>3, <2>4 DEF sw_wr_en
<1>9. ledCs' => access' \in 1..LastAccess
  BY <1>1, <1>4
<1>. QED  BY <1>6, <1>7, <1>8, <1>9 DEF LedInv, WordsInOrder

LEMMA LedStep == LedIInv /\ [LedNext]_ledVars => LedIInv'
<1>. SUFFICES ASSUME LedIInv, [LedNext]_ledVars PROVE LedIInv'
  OBVIOUS
<1>1. CASE UNCHANGED ledVars
  BY <1>1 DEF ledVars, ledFifo, ledDriver, LedIInv, LedInv, LedTypes, WordsInOrder, FifoHolds, Runs,
              InFifo, rd_data, Written, sw_wr_en, Enabling, Writing
<1>2. CASE LedNext
  <2>1. Runs("leds") /\ LedEdge /\ UNCHANGED image
    BY <1>2 DEF LedNext
  <2>2. LedInv' /\ Runs("leds")'
    BY <2>1, LedKeeps DEF LedIInv, Runs
  <2>. QED  BY <2>2 DEF LedIInv
<1>. QED  BY <1>1, <1>2

------------------------------------------------------------------------------
(* The first of a queue goes to the end of another. *)
LEMMA HeadMoves ==
  ASSUME NEW S, NEW s \in Seq(S), NEW t \in Seq(S), t # <<>>
  PROVE  /\ Append(s, Head(t)) \o Tail(t) = s \o t
         /\ Head(t) \in S /\ Tail(t) \in Seq(S) /\ Append(s, Head(t)) \in Seq(S)
         /\ Len(Tail(t)) = Len(t) - 1
<1>1. Head(t) \in S /\ Tail(t) \in Seq(S) /\ Len(Tail(t)) = Len(t) - 1
  BY HeadTailProperties
<1>2. t = <<Head(t)>> \o Tail(t)
  BY <1>1
<1>3. Append(s, Head(t)) = s \o <<Head(t)>> /\ <<Head(t)>> \in Seq(S)
  BY <1>1
<1>4. (s \o <<Head(t)>>) \o Tail(t) = s \o (<<Head(t)>> \o Tail(t))
  BY <1>1, <1>3, ConcatAssociative
<1>. QED  BY <1>1, <1>2, <1>3, <1>4

LEMMA FirstInHand ==
  ASSUME NEW S, NEW s \in Seq(S), NEW t \in Seq(S), t # <<>>
  PROVE  (s \o <<>>) \o t = (s \o <<Head(t)>>) \o Tail(t)
<1>1. s \o <<>> = s /\ Head(t) \in S
  BY HeadTailProperties
<1>2. Append(s, Head(t)) = s \o <<Head(t)>>
  BY <1>1
<1>. QED  BY <1>1, <1>2, HeadMoves

LEMMA AppendMoves ==
  ASSUME NEW S, NEW s \in Seq(S), NEW t \in Seq(S), NEW x \in S
  PROVE  /\ s \o Append(t, x) = Append(s \o t, x)
         /\ s \o Append(t, x) = (s \o t) \o <<x>>
         /\ s \o t \in Seq(S) /\ Append(t, x) \in Seq(S) /\ Len(Append(t, x)) = Len(t) + 1
<1>1. /\ Append(t, x) = t \o <<x>> /\ s \o t \in Seq(S) /\ <<x>> \in Seq(S)
      /\ Append(s \o t, x) = (s \o t) \o <<x>> /\ Append(t, x) \in Seq(S)
      /\ Len(Append(t, x)) = Len(t) + 1
  OBVIOUS
<1>. QED  BY <1>1, ConcatAssociative

LEMMA AppendNat ==
  ASSUME NEW s \in Seq(Nat), NEW t \in Seq(Nat), NEW x \in Nat
  PROVE  /\ Append(t, x) \in Seq(Nat) /\ Append(t, x) # <<>> /\ Len(Append(t, x)) = Len(t) + 1
         /\ s \o Append(t, x) = Append(s \o t, x) /\ s \o Append(t, x) = (s \o t) \o <<x>>
         /\ s \o Append(t, x) \in Seq(Nat)
<1>1. Append(t, x) \in Seq(Nat) /\ Append(t, x) # <<>>
  BY AppendProperties
<1>2. /\ Len(Append(t, x)) = Len(t) + 1 /\ s \o Append(t, x) = Append(s \o t, x)
      /\ s \o Append(t, x) = (s \o t) \o <<x>>
  BY AppendMoves
<1>. QED  BY <1>1, <1>2, ConcatProperties

(* The characters that are sent back. *)
EchoTypes ==
  /\ echo \in EchoPrograms
  /\ echoPc \in {"sleep", "asleep", "clear", "rx", "tx", "take", "put"}
  /\ turn \in EchoPorts
  /\ echoRx \in [{0, 1} -> Seq(Nat)] /\ echoTx \in [{0, 1} -> Seq(Nat)]
  /\ accepted \in [{0, 1} -> Seq(Nat)] /\ echoed \in [{0, 1} -> Seq(Nat)]
  /\ arrived \in [{0, 1} -> Nat] /\ (echoPc = "put" => byte \in Nat)

(* What is taken is there, and the room that was found stays until the
   character is stored; of "master", all that is on its way would fit. *)
RoomHolds ==
  /\ echoPc \in {"tx", "take"} => echoRx[turn] # <<>>
  /\ echo \in {"uart", "clkgate"} /\ echoPc \in {"take", "put"} => Room(turn)
  /\ echo = "master" =>
       Len(echoTx[0]) + (IF echoPc = "put" THEN 1 ELSE 0) + Len(echoRx[0]) <= EchoDepth

EchoInv == EchoTypes /\ RoomHolds /\ EchoInOrder

EchoIInv == IF Runs("loopback") THEN EchoInv ELSE EchoInOrder

LEMMA PortFacts ==
  ASSUME echo \in EchoPrograms, NEW p \in EchoPorts
  PROVE  /\ p \in {0, 1} /\ To(p) \in EchoPorts /\ To(p) \in {0, 1} /\ To(To(p)) = p
         /\ echo # "serial" => p = 0 /\ To(p) = p
BY DEF EchoPrograms, EchoPorts, To

LEMMA EchoInitInv == EchoInit => EchoIInv
<1>. SUFFICES ASSUME EchoInit PROVE EchoIInv
  OBVIOUS
<1>1. EchoInOrder
  <2>1. ASSUME NEW p \in EchoPorts
        PROVE  echoed[To(p)] \o echoTx[To(p)] \o InHand(p) \o echoRx[p] = accepted[p]
    <3>1. p \in {0, 1} /\ To(p) \in {0, 1}
      BY DEF EchoPorts, To
    <3>2. /\ echoed[To(p)] = <<>> /\ echoTx[To(p)] = <<>> /\ echoRx[p] = <<>> /\ accepted[p] = <<>>
          /\ InHand(p) = <<>>
      BY <3>1 DEF EchoInit, PerPortOf, InHand, Beginning
    <3>. QED  BY <3>2
  <2>. QED  BY <2>1 DEF EchoInOrder
<1>2. ASSUME Runs("loopback") PROVE EchoInv
  <2>1. echo \in EchoPrograms
    BY <1>2 DEF EchoInit, Choice
  <2>2. EchoTypes
    BY <2>1 DEF EchoInit, EchoTypes, Beginning, PerPortOf, EchoPorts, EchoPrograms
  <2>3. RoomHolds
    BY <2>1, EchoAssumption DEF EchoInit, RoomHolds, Beginning, PerPortOf
  <2>. QED  BY <1>1, <2>2, <2>3 DEF EchoInv
<1>. QED  BY <1>1, <1>2 DEF EchoIInv

OnItsWay(p) == echoed[To(p)] \o echoTx[To(p)] \o InHand(p) \o echoRx[p]

LEMMA EchoSeqs ==
  ASSUME EchoTypes, NEW p \in EchoPorts
  PROVE  /\ echoed[To(p)] \in Seq(Nat) /\ echoTx[To(p)] \in Seq(Nat) /\ InHand(p) \in Seq(Nat)
         /\ echoRx[p] \in Seq(Nat) /\ accepted[p] \in Seq(Nat)
         /\ echoed[To(p)] \o echoTx[To(p)] \in Seq(Nat)
         /\ echoed[To(p)] \o echoTx[To(p)] \o InHand(p) \in Seq(Nat)
<1>1. p \in {0, 1} /\ To(p) \in {0, 1}
  BY PortFacts DEF EchoTypes
<1>2. InHand(p) \in Seq(Nat)
  BY DEF EchoTypes, InHand
<1>3. /\ echoed[To(p)] \in Seq(Nat) /\ echoTx[To(p)] \in Seq(Nat)
      /\ echoRx[p] \in Seq(Nat) /\ accepted[p] \in Seq(Nat)
  BY <1>1 DEF EchoTypes
<1>. QED  BY <1>2, <1>3, ConcatProperties

(* A step of the program that moves no character. *)
LEMMA EchoElsewhere ==
  ASSUME EchoInv, UNCHANGED <<echo, echoLines>>, echoPc # "put", echoPc' # "put",
         echoPc' \in {"sleep", "asleep", "clear", "rx", "tx", "take"}, turn' \in EchoPorts,
         echoPc' \in {"tx", "take"} => turn' = turn /\ echoRx[turn] # <<>>,
         echo \in {"uart", "clkgate"} /\ echoPc' = "take" => Room(turn)
  PROVE  EchoInv'
<1>1. EchoTypes'
  BY DEF EchoInv, EchoTypes, echoLines, EchoPorts
<1>2. RoomHolds'
  BY DEF EchoInv, RoomHolds, echoLines, Room
<1>3. EchoInOrder'
  BY DEF EchoInv, EchoInOrder, echoLines, EchoPorts, To, InHand
<1>. QED  BY <1>1, <1>2, <1>3 DEF EchoInv

LEMMA ProgramKeeps ==
  ASSUME EchoInv, EchoProgram \/ TimerPulse
  PROVE  EchoInv'
<1>a. /\ echo \in EchoPrograms /\ turn \in EchoPorts /\ To(turn) \in EchoPorts /\ turn \in {0, 1}
      /\ To(turn) \in {0, 1} /\ echoPc \in {"sleep", "asleep", "clear", "rx", "tx", "take", "put"}
      /\ echo # "serial" => turn = 0 /\ To(turn) = turn
  BY PortFacts DEF EchoInv, EchoTypes
<1>b. /\ echoPc \in {"tx", "take"} => echoRx[turn] # <<>>
      /\ Beginning \in {"sleep", "rx"}
  BY DEF EchoInv, RoomHolds, Beginning
<1>1. CASE Sleep \/ Wake \/ ClearInterrupt
  BY <1>1, <1>a, EchoElsewhere DEF Sleep, Wake, ClearInterrupt
<1>2. CASE TimerPulse
  <2>1. UNCHANGED <<echo, echoPc, turn, byte, echoLines>>
    BY <1>2 DEF TimerPulse
  <2>. QED  BY <2>1 DEF echoLines, EchoInv, EchoTypes, RoomHolds, EchoInOrder, Room, InHand,
                        EchoPorts, To
<1>3. CASE TestReceive
  <2>1. echoPc = "rx" /\ UNCHANGED <<echo, echoLines>>
    BY <1>3 DEF TestReceive
  <2>2. CASE echoRx[turn] = <<>>
    BY <1>3, <1>a, <1>b, <2>1, <2>2, EchoElsewhere DEF TestReceive, Again
  <2>3. CASE echoRx[turn] # <<>>
    BY <1>3, <1>a, <1>b, <2>1, <2>3, EchoElsewhere DEF TestReceive
  <2>. QED  BY <2>2, <2>3
<1>4. CASE TestTransmit
  <2>1. echoPc = "tx" /\ UNCHANGED <<echo, echoLines>>
    BY <1>4 DEF TestTransmit
  <2>2. CASE Room(turn)
    BY <1>4, <1>a, <1>b, <2>1, <2>2, EchoElsewhere DEF TestTransmit
  <2>3. CASE ~Room(turn)
    BY <1>4, <1>a, <1>b, <2>1, <2>3, EchoElsewhere DEF TestTransmit, Again
  <2>. QED  BY <2>2, <2>3
<1>5. CASE Take
  <2>1. /\ echoPc = "take" /\ echoPc' = "put" /\ byte' = Head(echoRx[turn])
        /\ echoRx' = [echoRx EXCEPT ![turn] = Tail(@)]
        /\ UNCHANGED <<echo, turn, echoTx, arrived, accepted, echoed>>
    BY <1>5 DEF Take
  <2>2. echoRx[turn] \in Seq(Nat) /\ echoRx[turn] # <<>>
    BY <1>a, <1>b, <2>1 DEF EchoInv, EchoTypes
  <2>3. byte' \in Nat /\ Tail(echoRx[turn]) \in Seq(Nat)
        /\ Len(Tail(echoRx[turn])) = Len(echoRx[turn]) - 1
    BY <2>1, <2>2, HeadTailProperties
  <2>4. EchoTypes'
    BY <1>a, <2>1, <2>3 DEF EchoInv, EchoTypes, EchoPorts
  <2>5. RoomHolds'
    <3>1. echo = "master" => echoRx'[0] = Tail(echoRx[0]) /\ turn = 0
      BY <1>a, <2>1 DEF EchoInv, EchoTypes
    <3>2. /\ echo = "master" => Len(echoRx'[0]) = Len(echoRx[0]) - 1
          /\ Len(echoRx[0]) \in Nat /\ Len(echoTx[0]) \in Nat
      BY <2>3, <3>1 DEF EchoInv, EchoTypes
    <3>3. echo = "master" => Len(echoTx[0]) + 0 + Len(echoRx[0]) <= EchoDepth
      BY <2>1 DEF EchoInv, RoomHolds
    <3>4. echo = "master" => Len(echoTx'[0]) + 1 + Len(echoRx'[0]) <= EchoDepth
      <4>. SUFFICES ASSUME echo = "master" PROVE Len(echoTx'[0]) + 1 + Len(echoRx'[0]) <= EchoDepth
        OBVIOUS
      <4>. DEFINE a == Len(echoTx[0])  b == Len(echoRx[0])
      <4>1. a \in Nat /\ b \in Nat /\ a + 0 + b <= EchoDepth /\ EchoDepth \in Nat
        BY <3>2, <3>3, EchoAssumption
      <4>2. Len(echoTx'[0]) = a /\ Len(echoRx'[0]) = b - 1
        BY <2>1, <3>2
      <4>. HIDE DEF a, b
      <4>3. a + 1 + (b - 1) <= EchoDepth
        BY <4>1
      <4>. QED  BY <4>2, <4>3
    <3>5. echo \in {"uart", "clkgate"} => Room(turn)'
      BY <2>1 DEF EchoInv, RoomHolds, Room
    <3>. QED  BY <2>1, <3>4, <3>5 DEF RoomHolds
  <2>6. EchoInOrder'
    <3>1. ASSUME NEW p \in EchoPorts PROVE OnItsWay(p)' = OnItsWay(p)
      <4>1. CASE p = turn
        <5>1. InHand(p) = <<>> /\ InHand(p)' = <<Head(echoRx[p])>> /\ echoRx'[p] = Tail(echoRx[p])
          BY <1>a, <2>1, <4>1 DEF InHand, EchoInv, EchoTypes
        <5>2. echoed[To(p)] \o echoTx[To(p)] \in Seq(Nat)
              /\ UNCHANGED <<echoed[To(p)], echoTx[To(p)], To(p)>>
          BY <2>1, EchoSeqs DEF EchoInv, To
        <5>. DEFINE X == echoed[To(p)] \o echoTx[To(p)]
        <5>3. (X \o <<>>) \o echoRx[p] = (X \o <<Head(echoRx[p])>>) \o Tail(echoRx[p])
          BY <5>2, <2>2, <4>1, FirstInHand
        <5>. QED  BY <5>1, <5>2, <5>3 DEF OnItsWay
      <4>2. CASE p # turn
        BY <1>a, <2>1, <4>2, PortFacts DEF InHand, EchoInv, EchoTypes, OnItsWay, To
      <4>. QED  BY <4>1, <4>2
    <3>. QED  BY <2>1, <3>1 DEF EchoInv, EchoInOrder, OnItsWay, EchoPorts
  <2>. QED  BY <2>4, <2>5, <2>6 DEF EchoInv
<1>6. CASE Put
  <2>1. /\ echoPc = "put" /\ echoPc' = Beginning /\ turn' = To(turn) /\ echo' = echo
        /\ echo = "serial" => Room(To(turn))
        /\ echoTx' = IF Room(To(turn)) THEN [echoTx EXCEPT ![To(turn)] = Append(@, byte)] ELSE echoTx
        /\ UNCHANGED <<echoRx, arrived, accepted, echoed>>
    BY <1>6 DEF Put, Again
  <2>2. Room(To(turn))
    <3>1. CASE echo = "serial"
      BY <2>1, <3>1
    <3>2. CASE echo \in {"uart", "clkgate"}
      BY <1>a, <2>1, <3>2 DEF EchoInv, RoomHolds
    <3>3. CASE echo = "master"
      <4>1. Len(echoTx[0]) + 1 + Len(echoRx[0]) <= EchoDepth /\ To(turn) = 0
        BY <1>a, <2>1, <3>3 DEF EchoInv, RoomHolds
      <4>2. Len(echoTx[0]) \in Nat /\ Len(echoRx[0]) \in Nat
        BY DEF EchoInv, EchoTypes
      <4>3. \A a, b, d \in Nat : a + 1 + b <= d => a < d
        OBVIOUS
      <4>4. Len(echoTx[0]) < EchoDepth
        BY <4>1, <4>2, <4>3, EchoAssumption
      <4>. QED  BY <4>1, <4>4 DEF Room
    <3>. QED  BY <1>a, <3>1, <3>2, <3>3 DEF EchoPrograms
  <2>3. echoTx' = [echoTx EXCEPT ![To(turn)] = Append(@, byte)] /\ byte \in Nat
    BY <2>1, <2>2 DEF EchoInv, EchoTypes
  <2>4. EchoTypes'
    <3>1. echoTx' \in [{0, 1} -> Seq(Nat)]
      <4>1. /\ echoTx \in [{0, 1} -> Seq(Nat)] /\ echoTx[To(turn)] \in Seq(Nat)
            /\ Append(echoTx[To(turn)], byte) \in Seq(Nat)
        BY <1>a, <2>3, AppendProperties DEF EchoInv, EchoTypes
      <4>. QED  BY <1>a, <2>3, <4>1
    <3>. QED  BY <1>a, <1>b, <2>1, <3>1 DEF EchoInv, EchoTypes, EchoPorts
  <2>5. RoomHolds'
    <3>1. echoPc' \in {"sleep", "rx"}
      BY <1>b, <2>1
    <3>2. ASSUME echo = "master"
          PROVE  Len(echoTx'[0]) + 0 + Len(echoRx'[0]) <= EchoDepth
      <4>1. echoTx'[0] = Append(echoTx[0], byte) /\ echoTx[0] \in Seq(Nat)
        BY <1>a, <2>3, <3>2 DEF EchoInv, EchoTypes
      <4>2. Len(echoTx'[0]) = Len(echoTx[0]) + 1
        BY <4>1
      <4>3. Len(echoTx[0]) + 1 + Len(echoRx[0]) <= EchoDepth
        BY <2>1, <3>2 DEF EchoInv, RoomHolds
      <4>. DEFINE a == Len(echoTx[0])  b == Len(echoRx[0])
      <4>4. a \in Nat /\ b \in Nat /\ a + 1 + b <= EchoDepth
        BY <4>3 DEF EchoInv, EchoTypes
      <4>5. Len(echoTx'[0]) = a + 1 /\ Len(echoRx'[0]) = b
        BY <2>1, <4>2
      <4>. HIDE DEF a, b
      <4>6. (a + 1) + 0 + b <= EchoDepth
        BY <4>4, EchoAssumption
      <4>. QED  BY <4>5, <4>6
    <3>. QED  BY <2>1, <3>1, <3>2 DEF RoomHolds
  <2>6. EchoInOrder'
    <3>1. ASSUME NEW p \in EchoPorts PROVE OnItsWay(p)' = OnItsWay(p)
      <4>0. /\ echoed[To(p)] \in Seq(Nat) /\ echoTx[To(p)] \in Seq(Nat) /\ To(p) \in {0, 1}
            /\ p \in {0, 1}
            /\ To(p)' = To(p) /\ InHand(p)' = <<>>
        BY <1>a, <1>b, <2>1, EchoSeqs, PortFacts DEF EchoInv, To, InHand
      <4>1. CASE p = turn
        <5>1. /\ InHand(p) = <<byte>> /\ echoTx'[To(p)] = Append(echoTx[To(p)], byte)
          BY <1>a, <2>1, <2>3, <4>1 DEF InHand, EchoInv, EchoTypes
        <5>2. /\ echoed[To(p)] \o Append(echoTx[To(p)], byte)
                   = (echoed[To(p)] \o echoTx[To(p)]) \o <<byte>>
              /\ echoed[To(p)] \o Append(echoTx[To(p)], byte) \in Seq(Nat)
          BY <2>3, <4>0, AppendNat
        <5>3. (echoed[To(p)] \o Append(echoTx[To(p)], byte)) \o <<>> = echoed[To(p)] \o Append(echoTx[To(p)], byte)
          BY <5>2, ConcatEmptySeq
        <5>. QED  BY <2>1, <4>0, <5>1, <5>2, <5>3 DEF OnItsWay
      <4>2. CASE p # turn
        <5>1. To(p) # To(turn) /\ InHand(p) = <<>>
          BY <1>a, <4>0, <4>2, PortFacts DEF InHand
        <5>2. echoTx'[To(p)] = echoTx[To(p)]
          BY <1>a, <2>3, <4>0, <5>1 DEF EchoInv, EchoTypes
        <5>. QED  BY <2>1, <4>0, <5>1, <5>2 DEF OnItsWay
      <4>. QED  BY <4>1, <4>2
    <3>. QED  BY <2>1, <3>1 DEF EchoInv, EchoInOrder, OnItsWay, EchoPorts
  <2>. QED  BY <2>4, <2>5, <2>6 DEF EchoInv
<1>. QED  BY <1>1, <1>2, <1>3, <1>4, <1>5, <1>6 DEF EchoProgram
LEMMA LineKeeps ==
  ASSUME EchoInv, NEW coming \in SUBSET EchoPorts, NEW going \in SUBSET EchoPorts,
         CharacterTime(coming, going)
  PROVE  EchoInv'
<1>a. /\ UNCHANGED <<echo, echoPc, turn, byte>> /\ \A p \in going : echoTx[p] # <<>>
      /\ echo = "master" => echoPc # "put" /\ going = {p \in EchoPorts : echoTx[p] # <<>>}
  BY DEF CharacterTime
<1>. DEFINE taken == {p \in coming : Len(echoRx[p]) < EchoDepth}
<1>b. /\ arrived' = [p \in {0, 1} |-> IF p \in coming THEN arrived[p] + 1 ELSE arrived[p]]
      /\ echoRx' = [p \in {0, 1} |->
                     IF p \in taken THEN Append(echoRx[p], arrived[p] + 1) ELSE echoRx[p]]
      /\ accepted' = [p \in {0, 1} |->
                       IF p \in taken THEN Append(accepted[p], arrived[p] + 1) ELSE accepted[p]]
      /\ echoTx' = [p \in {0, 1} |-> IF p \in going THEN Tail(echoTx[p]) ELSE echoTx[p]]
      /\ echoed' = [p \in {0, 1} |->
                     IF p \in going THEN Append(echoed[p], Head(echoTx[p])) ELSE echoed[p]]
  BY DEF CharacterTime
<1>. HIDE DEF taken
(* What a port receives, and what one sends. *)
<1>c. ASSUME NEW p \in {0, 1}
      PROVE  /\ echoRx[p] \in Seq(Nat) /\ echoTx[p] \in Seq(Nat) /\ arrived[p] + 1 \in Nat
             /\ accepted[p] \in Seq(Nat) /\ echoed[p] \in Seq(Nat)
  BY <1>c DEF EchoInv, EchoTypes
<1>1. ASSUME NEW p \in {0, 1}
      PROVE  /\ echoRx'[p] \in Seq(Nat) /\ echoTx'[p] \in Seq(Nat) /\ arrived'[p] \in Nat
             /\ accepted'[p] \in Seq(Nat) /\ echoed'[p] \in Seq(Nat)
             /\ echoRx[p] # <<>> => echoRx'[p] # <<>>
             /\ echoed'[p] \o echoTx'[p] = echoed[p] \o echoTx[p]
             /\ Len(echoTx'[p]) = IF p \in going THEN Len(echoTx[p]) - 1 ELSE Len(echoTx[p])
             /\ Len(echoRx'[p]) = IF p \in taken THEN Len(echoRx[p]) + 1 ELSE Len(echoRx[p])
  <2>1. p \in going => /\ Append(echoed[p], Head(echoTx[p])) \o Tail(echoTx[p]) = echoed[p] \o echoTx[p]
                       /\ Tail(echoTx[p]) \in Seq(Nat)
                       /\ Append(echoed[p], Head(echoTx[p])) \in Seq(Nat)
                       /\ Len(Tail(echoTx[p])) = Len(echoTx[p]) - 1
    BY <1>a, <1>c, HeadMoves
  <2>2. /\ Append(echoRx[p], arrived[p] + 1) \in Seq(Nat) /\ Append(echoRx[p], arrived[p] + 1) # <<>>
        /\ Len(Append(echoRx[p], arrived[p] + 1)) = Len(echoRx[p]) + 1
        /\ Append(accepted[p], arrived[p] + 1) \in Seq(Nat)
    BY <1>c, AppendNat
  <2>3. arrived'[p] \in Nat
    BY <1>b, <1>c DEF EchoInv, EchoTypes
  <2>. QED  BY <1>b, <1>c, <2>1, <2>2, <2>3
<1>2. EchoTypes'
  <2>1. /\ echoRx' \in [{0, 1} -> Seq(Nat)] /\ echoTx' \in [{0, 1} -> Seq(Nat)]
        /\ accepted' \in [{0, 1} -> Seq(Nat)] /\ echoed' \in [{0, 1} -> Seq(Nat)]
        /\ arrived' \in [{0, 1} -> Nat]
    BY <1>1, <1>b
  <2>. QED  BY <1>a, <2>1 DEF EchoInv, EchoTypes, EchoPorts
<1>3. RoomHolds'
  <2>1. echoPc' \in {"tx", "take"} => echoRx'[turn'] # <<>>
    BY <1>1, <1>a, PortFacts DEF EchoInv, EchoTypes, RoomHolds
  <2>2. ASSUME echo \in {"uart", "clkgate"}, echoPc \in {"take", "put"} PROVE Room(turn)'
    <3>1. turn \in {0, 1} /\ Room(turn)
      BY <2>2, PortFacts DEF EchoInv, EchoTypes, RoomHolds
    <3>2. Len(echoTx'[turn]) = Len(echoTx[turn]) \/ Len(echoTx'[turn]) = Len(echoTx[turn]) - 1
      BY <1>1, <3>1
    <3>3. Len(echoTx[turn]) \in Nat
      BY <1>c, <3>1
    <3>4. \A a \in Nat : a < EchoDepth => a - 1 < EchoDepth
      BY EchoAssumption
    <3>. QED  BY <1>a, <3>1, <3>2, <3>3, <3>4 DEF Room
  <2>3. ASSUME echo = "master" PROVE Len(echoTx'[0]) + 0 + Len(echoRx'[0]) <= EchoDepth
    <3>. DEFINE a == Len(echoTx[0])  b == Len(echoRx[0])
    <3>1. /\ a \in Nat /\ b \in Nat /\ a + 0 + b <= EchoDepth /\ EchoDepth \in Nat
          /\ a = 0 <=> 0 \notin going
      <4>1. a \in Nat /\ b \in Nat /\ EchoDepth \in Nat
        BY <1>c, EchoAssumption
      <4>2. a + 0 + b <= EchoDepth
        BY <1>a, <2>3 DEF EchoInv, RoomHolds
      <4>3. 0 \in going <=> echoTx[0] # <<>>
        BY <1>a, <2>3 DEF EchoPorts
      <4>4. echoTx[0] # <<>> <=> a # 0
        BY <1>c, EmptySeq
      <4>. QED  BY <4>1, <4>2, <4>3, <4>4
    <3>2. /\ Len(echoTx'[0]) = IF 0 \in going THEN a - 1 ELSE a
          /\ Len(echoRx'[0]) = IF 0 \in taken THEN b + 1 ELSE b
          /\ 0 \in taken => b < EchoDepth
      BY <1>1 DEF taken
    <3>. HIDE DEF a, b
    <3>. QED  BY <3>1, <3>2
  <2>. QED  BY <1>a, <2>1, <2>2, <2>3 DEF RoomHolds
<1>4. EchoInOrder'
  <2>1. ASSUME NEW p \in EchoPorts PROVE OnItsWay(p)' = accepted'[p]
    <3>1. p \in {0, 1} /\ To(p) \in {0, 1} /\ To(p)' = To(p) /\ InHand(p)' = InHand(p)
      BY <1>a, PortFacts DEF EchoInv, EchoTypes, To, InHand
    <3>. DEFINE Y == echoed[To(p)] \o echoTx[To(p)] \o InHand(p)
    <3>2. Y \in Seq(Nat) /\ Y \o echoRx[p] = accepted[p]
      BY EchoSeqs DEF EchoInv, EchoInOrder
    <3>3. OnItsWay(p)' = Y \o echoRx'[p]
      BY <1>1, <3>1 DEF OnItsWay
    <3>. HIDE DEF Y
    <3>4. CASE p \in taken
      <4>1. Y \o Append(echoRx[p], arrived[p] + 1) = Append(Y \o echoRx[p], arrived[p] + 1)
        <5>1. echoRx[p] \in Seq(Nat) /\ arrived[p] + 1 \in Nat
          BY <1>c, <3>1
        <5>. QED  BY ONLY <3>2, <5>1, AppendNat
      <4>. QED  BY <1>b, <3>1, <3>2, <3>3, <3>4, <4>1
    <3>5. CASE p \notin taken
      BY <1>b, <3>1, <3>2, <3>3, <3>5
    <3>. QED  BY <3>4, <3>5
  <2>. QED  BY <1>a, <2>1 DEF EchoInOrder, OnItsWay, EchoPorts
<1>. QED  BY <1>2, <1>3, <1>4 DEF EchoInv

LEMMA EchoKeeps == EchoIInv /\ [EchoNext]_echoVars => EchoIInv'
<1>. SUFFICES ASSUME EchoIInv, [EchoNext]_echoVars PROVE EchoIInv'
  OBVIOUS
<1>1. CASE UNCHANGED echoVars
  BY <1>1 DEF echoVars, echoLines, EchoIInv, EchoInv, EchoTypes, RoomHolds, EchoInOrder, Room, InHand,
              EchoPorts, To, Runs
<1>2. CASE EchoNext
  <2>1. Runs("loopback") /\ UNCHANGED image /\ EchoInv
    BY <1>2 DEF EchoNext, EchoStep, EchoIInv
  <2>2. EchoInv'
    BY <1>2, <2>1, ProgramKeeps, LineKeeps DEF EchoNext, EchoStep, LineTime
  <2>. QED  BY <2>1, <2>2 DEF EchoIInv, Runs
<1>. QED  BY <1>1, <1>2

------------------------------------------------------------------------------
(* The line of the cores: what was sent and what the UART holds. *)
Out == printed \o tx
Chars == Cores \X Nat \X (1..Length)

StreamTypes ==
  /\ at \in [Cores -> 1..Length] /\ tx \in Seq(Chars) /\ printed \in Seq(Chars)
  /\ \A c \in Cores : pc[c] = "put" => Len(tx) < TxDepth

(* Where the line o ends: a core that has begun a message is printing it
   and its character before the next one is the last on the line; when none
   has, the line is empty or ends with a message. *)
EndsAt(o) ==
  /\ \A d \in Cores : at[d] # 1 =>
       /\ pc[d] \in {"poll", "put"}
       /\ o # <<>> /\ o[Len(o)] = <<d, msg[d] + 1, at[d] - 1>>
  /\ (\A d \in Cores : at[d] = 1) => o = <<>> \/ o[Len(o)][3] = Length

Openings(o, c, n) == {j \in 1..n : o[j][1] = c /\ o[j][3] = 1}
Begun(c) == at[c] # 1 \/ pc[c] = "release"

(* As many messages of a core begin on the line o as it has printed or is
   printing. *)
CountsBegun(o) ==
  \A c \in Cores : Cardinality(Openings(o, c, Len(o))) = msg[c] + (IF Begun(c) THEN 1 ELSE 0)

WholeIn(o) ==
  /\ o # <<>> => o[1][3] = 1
  /\ \A i \in 1..(Len(o) - 1) :
       IF o[i][3] < Length THEN o[i + 1] = <<o[i][1], o[i][2], o[i][3] + 1>> ELSE o[i + 1][3] = 1
  /\ \A i \in DOMAIN o : o[i][3] = 1 => o[i][2] = 1 + Cardinality(Openings(o, o[i][1], i - 1))

StreamInv == StreamTypes /\ EndsAt(Out) /\ CountsBegun(Out) /\ WholeIn(Out)

LEMMA StreamIsWhole == StreamInv => LinesWhole
BY DEF StreamInv, WholeIn, Out, Openings, LinesWhole

LEMMA OutIsSeq == StreamTypes => Out \in Seq(Chars)
BY ConcatProperties DEF StreamTypes, Out

LEMMA OpeningsFinite ==
  ASSUME NEW o, NEW c, NEW n \in Nat
  PROVE  /\ IsFiniteSet(Openings(o, c, n)) /\ Cardinality(Openings(o, c, n)) \in Nat
         /\ Openings(o, c, n) \subseteq 1..n
<1>1. IsFiniteSet(1..n) /\ Openings(o, c, n) \subseteq 1..n
  BY FS_Interval DEF Openings
<1>. QED  BY <1>1, FS_Subset, FS_CardinalityType

LEMMA StreamInitInv == PrintInit => StreamInv
<1>. SUFFICES ASSUME PrintInit PROVE StreamInv
  OBVIOUS
<1>1. tx = <<>> /\ printed = <<>> /\ Out = <<>> /\ Len(Out) = 0 /\ DOMAIN Out = {}
  BY DEF PrintInit, Out
<1>2. StreamTypes
  <2>1. at \in [Cores -> 1..Length]
    BY PrintAssumption DEF PrintInit
  <2>2. tx \in Seq(Chars) /\ printed \in Seq(Chars)
    BY <1>1, EmptySeq
  <2>3. ASSUME NEW c \in Cores PROVE pc[c] # "put"
    BY DEF PrintInit
  <2>. QED  BY <2>1, <2>2, <2>3 DEF StreamTypes
<1>3. EndsAt(Out)
  BY <1>1 DEF EndsAt, PrintInit
<1>4. CountsBegun(Out)
  <2>1. ASSUME NEW c \in Cores PROVE Cardinality(Openings(Out, c, Len(Out))) = msg[c] + (IF Begun(c) THEN 1 ELSE 0)
    <3>1. Openings(Out, c, Len(Out)) = {}
      BY <1>1 DEF Openings
    <3>2. msg[c] = 0 /\ ~Begun(c)
      BY DEF PrintInit, Begun
    <3>. QED  BY <3>1, <3>2, FS_EmptySet
  <2>. QED  BY <2>1 DEF CountsBegun
<1>5. WholeIn(Out)
  BY <1>1 DEF WholeIn
<1>. QED  BY <1>2, <1>3, <1>4, <1>5 DEF StreamInv
(* A step that puts no character on the line. *)
LEMMA StreamElsewhere ==
  ASSUME StreamInv, PrintInv, StreamTypes', Out' = Out, at' = at,
         \A c \in Cores : pc[c] \in {"poll", "put"} => pc'[c] \in {"poll", "put"} /\ msg'[c] = msg[c],
         \A c \in Cores : \/ msg'[c] = msg[c] /\ (pc'[c] = "release" <=> pc[c] = "release")
                          \/ pc[c] = "release" /\ pc'[c] # "release" /\ msg'[c] = msg[c] + 1
  PROVE  StreamInv'
<1>1. WholeIn(Out)'
  BY DEF StreamInv, WholeIn, Openings
<1>2. EndsAt(Out)'
  BY DEF StreamInv, EndsAt
<1>3. ASSUME NEW c \in Cores
      PROVE  msg'[c] + (IF Begun(c)' THEN 1 ELSE 0) = msg[c] + (IF Begun(c) THEN 1 ELSE 0)
  <2>1. msg[c] \in Nat /\ (pc[c] = "release" => at[c] = 1)
    BY DEF StreamInv, EndsAt, PrintInv, PrintTypes
  <2>. QED  BY <2>1 DEF Begun
<1>4. CountsBegun(Out)'
  BY <1>3 DEF StreamInv, CountsBegun, Openings
<1>. QED  BY <1>1, <1>2, <1>4 DEF StreamInv

(* The next character of the message of the core in the section. *)
LEMMA PutKeepsStream ==
  ASSUME StreamInv, PrintInv, NEW c \in Cores, PutCharacter(c)
  PROVE  StreamInv'
<1>. DEFINE x == Character(c)  o == Out  q == Append(Out, x)  n == Len(Out)
<1>1. /\ Out \in Seq(Chars) /\ n \in Nat /\ tx \in Seq(Chars) /\ printed \in Seq(Chars)
      /\ at[c] \in 1..Length /\ msg[c] \in Nat /\ Length \in Nat /\ Length > 0
      /\ pc \in [Cores -> Places] /\ at \in [Cores -> 1..Length] /\ TxDepth \in Nat
  BY OutIsSeq, LenProperties, PrintAssumption DEF StreamInv, StreamTypes, PrintInv, PrintTypes
<1>2. /\ x = <<c, msg[c] + 1, at[c]>> /\ x \in Chars /\ x[1] = c /\ x[2] = msg[c] + 1 /\ x[3] = at[c]
  BY <1>1 DEF Character, Chars
<1>3. /\ pc[c] = "put" /\ Len(tx) < TxDepth /\ tx' = Append(tx, x) /\ UNCHANGED <<msg, printed>>
      /\ at' = [at EXCEPT ![c] = IF @ = Length THEN 1 ELSE @ + 1]
      /\ pc' = [pc EXCEPT ![c] = IF at[c] = Length THEN "release" ELSE "poll"]
  BY DEF PutCharacter, Go, StreamInv, StreamTypes
<1>4. Out' = q /\ tx' \in Seq(Chars)
  <2>1. printed \o Append(tx, x) = Append(printed \o tx, x) /\ Append(tx, x) \in Seq(Chars)
    BY ONLY <1>1, <1>2, AppendMoves
  <2>2. Out' = printed \o Append(tx, x)
    BY <1>3 DEF Out
  <2>. QED  BY <2>1, <2>2, <1>3 DEF Out
<1>5. /\ Len(q) = n + 1 /\ q[n + 1] = x /\ (\A i \in 1..n : q[i] = o[i])
      /\ q # <<>> /\ q \in Seq(Chars) /\ DOMAIN q = 1..(n + 1) /\ DOMAIN o = 1..n
  <2>1. o \in Seq(Chars) /\ x \in Chars /\ n = Len(o)
    BY <1>1, <1>2
  <2>2. /\ Append(o, x) \in Seq(Chars) /\ Append(o, x) # <<>> /\ Len(Append(o, x)) = Len(o) + 1
        /\ \A i \in 1..Len(o) : Append(o, x)[i] = o[i]
        /\ Append(o, x)[Len(o) + 1] = x
    BY ONLY <2>1, AppendProperties
  <2>3. DOMAIN q = 1..(n + 1) /\ DOMAIN o = 1..n
    BY ONLY <2>1, <2>2, LenProperties
  <2>. QED  BY ONLY <2>1, <2>2, <2>3
<1>6. /\ at'[c] = (IF at[c] = Length THEN 1 ELSE at[c] + 1)
      /\ pc'[c] = (IF at[c] = Length THEN "release" ELSE "poll")
      /\ \A d \in Cores : d # c => at'[d] = at[d] /\ pc'[d] = pc[d] /\ ~InSection(d)
      /\ at' \in [Cores -> 1..Length]
  BY <1>1, <1>3 DEF PrintInv, MutualExclusion, InSection
(* Where the line ended was where the message of c goes on. *)
<1>7. /\ \A d \in Cores : d # c => at[d] = 1
      /\ at[c] # 1 => o # <<>> /\ o[n] = <<c, msg[c] + 1, at[c] - 1>>
      /\ at[c] = 1 => o = <<>> \/ o[n][3] = Length
  <2>1. \A d \in Cores : d # c => at[d] = 1
    BY <1>6 DEF StreamInv, EndsAt, InSection
  <2>. QED  BY <2>1 DEF StreamInv, EndsAt
<1>8. StreamTypes'
  <2>1. \A d \in Cores : pc'[d] # "put"
    BY <1>6 DEF InSection
  <2>. QED  BY <1>1, <1>3, <1>4, <1>6, <2>1 DEF StreamTypes
<1>9. EndsAt(Out)'
  <2>1. \A d \in Cores : d # c => at'[d] = 1
    BY <1>6, <1>7
  <2>2. Out'[Len(Out')] = x /\ Out' # <<>>
    BY <1>4, <1>5
  <2>3. CASE at[c] = Length
    BY <2>1, <2>2, <2>3, <1>1, <1>2, <1>6 DEF EndsAt
  <2>4. CASE at[c] # Length
    BY <2>1, <2>2, <2>4, <1>1, <1>2, <1>3, <1>6 DEF EndsAt
  <2>. QED  BY <2>3, <2>4
<1>10. \A d, i : i \in 0..n => Openings(q, d, i) = Openings(o, d, i)
  BY <1>1, <1>5 DEF Openings
<1>11. Begun(c) <=> at[c] # 1
  BY <1>3 DEF Begun
<1>12. \A d \in Cores : Cardinality(Openings(o, d, n)) = msg[d] + (IF Begun(d) THEN 1 ELSE 0)
  BY DEF StreamInv, CountsBegun, o, n
<1>13. CountsBegun(Out)'
  <2>1. ASSUME NEW d \in Cores
        PROVE  Cardinality(Openings(q, d, n + 1)) = msg[d] + (IF Begun(d)' THEN 1 ELSE 0)
    <3>1. CASE d = c /\ at[c] = 1
      <4>1. Openings(q, d, n + 1) = Openings(o, d, n) \cup {n + 1} /\ n + 1 \notin Openings(o, d, n)
        BY <3>1, <1>1, <1>2, <1>5 DEF Openings
      <4>2. Cardinality(Openings(q, d, n + 1)) = Cardinality(Openings(o, d, n)) + 1
        BY <4>1, <1>1, OpeningsFinite, FS_AddElement
      <4>3. Begun(d)' /\ ~Begun(d)
        BY <3>1, <1>1, <1>6, <1>11 DEF Begun
      <4>. QED  BY <4>2, <4>3, <3>1, <1>1, <1>12
    <3>2. CASE ~(d = c /\ at[c] = 1)
      <4>1. Openings(q, d, n + 1) = Openings(o, d, n)
        BY <3>2, <1>1, <1>2, <1>5 DEF Openings
      <4>2. Begun(d)' <=> Begun(d)
        BY <3>2, <1>1, <1>6, <1>11 DEF Begun
      <4>. QED  BY <4>1, <4>2, <1>12
    <3>. QED  BY <3>1, <3>2
  <2>. QED  BY <2>1, <1>3, <1>4, <1>5 DEF CountsBegun
<1>14. WholeIn(q)
  <2>1. WholeIn(o) /\ Len(o) = n
    BY DEF StreamInv, o, n
  <2>2. q[1][3] = 1
    <3>1. CASE o = <<>>
      BY <3>1, <1>1, <1>2, <1>5, <1>7
    <3>2. CASE o # <<>>
      BY <3>2, <2>1, <1>1, <1>5 DEF WholeIn
    <3>. QED  BY <3>1, <3>2
  <2>3. ASSUME NEW i \in 1..n
        PROVE  IF q[i][3] < Length THEN q[i + 1] = <<q[i][1], q[i][2], q[i][3] + 1>>
                                   ELSE q[i + 1][3] = 1
    <3>1. CASE i < n
      <4>1. i \in 1..(n - 1) /\ i + 1 \in 1..n /\ i \in 1..n
        BY <3>1, <1>1
      <4>2. q[i] = o[i] /\ q[i + 1] = o[i + 1]
        BY <4>1, <1>5
      <4>. QED  BY <4>1, <4>2, <2>1 DEF WholeIn
    <3>2. CASE i = n
      <4>1. q[i] = o[n] /\ q[i + 1] = x /\ o # <<>> /\ n \in 1..n
        BY <3>2, <1>5, <2>1
      <4>2. CASE at[c] = 1
        BY <4>1, <4>2, <1>1, <1>2, <1>7
      <4>3. CASE at[c] # 1
        BY <4>1, <4>3, <1>1, <1>2, <1>7
      <4>. QED  BY <4>2, <4>3
    <3>. QED  BY <3>1, <3>2, <1>1
  <2>4. ASSUME NEW i \in 1..(n + 1), q[i][3] = 1
        PROVE  q[i][2] = 1 + Cardinality(Openings(q, q[i][1], i - 1))
    <3>1. Openings(q, q[i][1], i - 1) = Openings(o, q[i][1], i - 1)
      BY <1>1, <1>10
    <3>2. CASE i \in 1..n
      BY <3>1, <3>2, <2>4, <2>1, <1>5 DEF WholeIn
    <3>3. CASE i = n + 1
      <4>1. q[i] = x /\ at[c] = 1 /\ i - 1 = n /\ q[i][1] = c /\ q[i][2] = msg[c] + 1
        BY <3>3, <2>4, <1>1, <1>2, <1>5
      <4>2. Cardinality(Openings(o, c, n)) = msg[c]
        BY <4>1, <1>1, <1>11, <1>12
      <4>. QED  BY <4>1, <4>2, <3>1, <1>1
    <3>. QED  BY <3>2, <3>3, <1>1
  <2>5. Len(q) - 1 = n
    BY <1>1, <1>5
  <2>. QED  BY <2>2, <2>3, <2>4, <2>5, <1>5 DEF WholeIn
<1>. QED  BY <1>4, <1>8, <1>9, <1>13, <1>14 DEF StreamInv

LEMMA StreamStep == PrintInv /\ StreamInv /\ [PrintNext]_printVars => StreamInv'
<1>. SUFFICES ASSUME PrintInv, StreamInv, [PrintNext]_printVars PROVE StreamInv'
  OBVIOUS
<1>0. PrintInv'
  BY PrintNextInv
<1>1. CASE UNCHANGED printVars
  BY <1>1, StreamElsewhere DEF printVars, StreamInv, StreamTypes, Out
<1>2. CASE set_tb_ready
  BY <1>2, StreamElsewhere DEF set_tb_ready, StreamInv, StreamTypes, Out
<1>3. CASE UartSends
  <2>1. Out' = Out /\ printed' \in Seq(Chars) /\ tx' \in Seq(Chars) /\ Len(tx') = Len(tx) - 1
    BY <1>3, HeadMoves DEF UartSends, StreamInv, StreamTypes, Out
  <2>2. StreamTypes'
    BY <1>3, <2>1, PrintAssumption DEF UartSends, StreamInv, StreamTypes
  <2>. QED  BY <1>3, <2>1, <2>2, StreamElsewhere DEF UartSends
<1>4. CASE SemaphoreClock
  <2>1. /\ bus \in Cores /\ pc[bus] \in {"lock", "release"} /\ UNCHANGED <<at, tx, printed>>
        /\ pc \in [Cores -> Places] /\ msg \in [Cores -> Nat]
    BY <1>4 DEF SemaphoreClock, PrintInv, PrintTypes, AccessHolds
  <2>2. \/ UNCHANGED <<pc, msg>>
        \/ pc[bus] = "release" /\ pc' = [pc EXCEPT ![bus] = "lock"]
           /\ msg' = [msg EXCEPT ![bus] = @ + 1]
        \/ pc[bus] = "lock" /\ pc' = [pc EXCEPT ![bus] = "poll"] /\ UNCHANGED msg
    BY <1>4, <2>1 DEF SemaphoreClock, Released, GotLock, Go
  <2>3. StreamTypes'
    BY <2>1, <2>2 DEF StreamInv, StreamTypes
  <2>4. \A c \in Cores : pc[c] \in {"poll", "put"} => pc'[c] \in {"poll", "put"} /\ msg'[c] = msg[c]
    <3>1. ASSUME NEW c \in Cores, pc[c] \in {"poll", "put"} PROVE c # bus
      BY <2>1, <3>1
    <3>2. ASSUME NEW c \in Cores, c # bus PROVE pc'[c] = pc[c] /\ msg'[c] = msg[c]
      BY <2>1, <2>2, <3>2
    <3>. QED  BY <3>1, <3>2
  <2>5. ASSUME NEW c \in Cores
        PROVE  \/ msg'[c] = msg[c] /\ (pc'[c] = "release" <=> pc[c] = "release")
               \/ pc[c] = "release" /\ pc'[c] # "release" /\ msg'[c] = msg[c] + 1
    <3>1. CASE c = bus
      BY <2>1, <2>2, <3>1
    <3>2. CASE c # bus
      <4>1. pc'[c] = pc[c] /\ msg'[c] = msg[c]
        BY <2>1, <2>2, <3>2
      <4>. QED  BY <4>1
    <3>. QED  BY <3>1, <3>2
  <2>. QED  BY <2>1, <2>3, <2>4, <2>5, StreamElsewhere DEF Out
<1>5. ASSUME NEW c \in Cores, Core(c) PROVE StreamInv'
  <2>. USE DEF PrintInv, PrintTypes
  <2>1. CASE Boot(c)
    <3>1. UNCHANGED <<msg, at, tx, printed>> /\ pc[c] = "boot"
      BY <2>1 DEF Boot
    <3>2. \A d \in Cores : pc[d] \notin {"boot", "reset"} => pc'[d] = pc[d]
      BY <2>1, PrintAssumption DEF Boot, BootsFirst
    <3>3. \A d \in Cores : pc'[d] = pc[d] \/ pc'[d] \in {"boot", "wait"}
      BY <2>1, PrintAssumption DEF Boot
    <3>. QED  BY <3>1, <3>2, <3>3, StreamElsewhere DEF StreamInv, StreamTypes, Out
  <2>2. CASE WaitForStart(c)
    BY <2>2, StreamElsewhere DEF WaitForStart, Go, StreamInv, StreamTypes, Out
  <2>3. CASE AccessLock(c)
    BY <2>3, StreamElsewhere DEF AccessLock, StreamInv, StreamTypes, Out
  <2>4. CASE PollUart(c)
    BY <2>4, StreamElsewhere DEF PollUart, Go, StreamInv, StreamTypes, Out
  <2>5. CASE PutCharacter(c)
    BY <2>5, PutKeepsStream
  <2>. QED  BY <2>1, <2>2, <2>3, <2>4, <2>5, <1>5 DEF Core
<1>. QED  BY <1>1, <1>2, <1>3, <1>4, <1>5 DEF PrintNext, PrintStep

------------------------------------------------------------------------------
(* The report of the pins. *)
ReportTypes ==
  /\ row \in rowPins /\ awaited \in {0, 1} /\ reporting \in 0..3
  /\ rowLevel \in [rowPins -> {0, 1}] /\ edges \in [rowPins -> Nat]

ReportInv == ReportTypes /\ EdgesTellLevel

LEMMA ReportInitInv == ReportInit => ReportInv
<1>. SUFFICES ASSUME ReportInit PROVE ReportInv
  OBVIOUS
<1>1. rowLevel \in [rowPins -> {0, 1}] /\ edges = rowLevel
  <2>1. [p \in rowPins |-> 0] \in [rowPins -> {0, 1}]
    OBVIOUS
  <2>. QED  BY <2>1 DEF ReportInit, Choice
<1>2. row = 0 /\ awaited = 1 /\ reporting = 0 /\ 0 \in rowPins
  BY RowsAssumption DEF ReportInit, rowPins
<1>3. EdgesTellLevel
  <2>1. ASSUME NEW p \in rowPins PROVE rowLevel[p] = (LastFound(p) + edges[p]) % 2
    <3>1. p \in Nat /\ LastFound(p) = 0
      BY <1>2, RowsAssumption DEF LastFound, rowPins
    <3>. QED  BY <1>1, <3>1
  <2>. QED  BY <2>1 DEF EdgesTellLevel
<1>. QED  BY <1>1, <1>2, <1>3 DEF ReportInv, ReportTypes

LEMMA ReportStepInv == ReportInv /\ [ReportNext]_reportVars => ReportInv'
<1>. SUFFICES ASSUME ReportInv, [ReportNext]_reportVars PROVE ReportInv'
  OBVIOUS
<1>0. rowPins \subseteq Nat /\ (\A p \in rowPins : p < numRows) /\ numRows \in Nat /\ numRows > 0
  BY RowsAssumption DEF rowPins
<1>1. CASE WhileDigitalRead
  <2>1. /\ reporting = 0 /\ rowLevel[row] = awaited /\ reporting' = 3
        /\ edges' = [edges EXCEPT ![row] = 0] /\ UNCHANGED <<row, awaited, rowLevel>>
    BY <1>1 DEF WhileDigitalRead, AtAwaited
  <2>2. ReportTypes'
    BY <2>1 DEF ReportInv, ReportTypes
  <2>3. ASSUME NEW p \in rowPins PROVE rowLevel'[p] = (LastFound(p)' + edges'[p]) % 2
    BY <2>1, <1>0 DEF ReportInv, ReportTypes, EdgesTellLevel, LastFound
  <2>. QED  BY <2>2, <2>3 DEF ReportInv, EdgesTellLevel
<1>2. CASE SerialPrint
  <2>1. /\ reporting > 0 /\ reporting' = reporting - 1
        /\ row' = IF reporting > 1 THEN row ELSE (row + 1) % numRows
        /\ awaited' = IF reporting = 1 /\ row' = 0 THEN 1 - awaited ELSE awaited
        /\ UNCHANGED <<rowLevel, edges>>
    BY <1>2 DEF SerialPrint
  <2>2. reporting = 1 => row' = IF row + 1 = numRows THEN 0 ELSE row + 1
    BY <2>1, <1>0 DEF ReportInv, ReportTypes
  <2>3. ReportTypes'
    <3>1. row' \in rowPins
      BY <2>1, <2>2, <1>0 DEF ReportInv, ReportTypes, rowPins
    <3>. QED  BY <2>1, <3>1 DEF ReportInv, ReportTypes
  <2>4. ASSUME NEW p \in rowPins PROVE LastFound(p)' = LastFound(p)
    <3>1. CASE reporting > 1
      BY <2>1, <3>1, <1>0 DEF ReportInv, ReportTypes, LastFound
    <3>2. CASE reporting = 1 /\ row + 1 = numRows
      BY <2>1, <2>2, <3>2, <1>0 DEF ReportInv, ReportTypes, LastFound
    <3>3. CASE reporting = 1 /\ row + 1 # numRows
      BY <2>1, <2>2, <3>3, <1>0 DEF ReportInv, ReportTypes, LastFound
    <3>. QED  BY <3>1, <3>2, <3>3, <2>1 DEF ReportInv, ReportTypes
  <2>. QED  BY <2>1, <2>3, <2>4 DEF ReportInv, EdgesTellLevel
<1>3. CASE LevelChange
  <2>1. PICK q \in rowPins : /\ rowLevel' = [rowLevel EXCEPT ![q] = 1 - @]
                             /\ edges' = [edges EXCEPT ![q] = @ + 1]
    BY <1>3 DEF LevelChange
  <2>2. UNCHANGED <<row, awaited, reporting>>
    BY <1>3 DEF LevelChange
  <2>3. ReportTypes'
    BY <2>1, <2>2 DEF ReportInv, ReportTypes
  <2>4. ASSUME NEW p \in rowPins PROVE rowLevel'[p] = (LastFound(p)' + edges'[p]) % 2
    <3>1. LastFound(p)' = LastFound(p) /\ LastFound(p) \in Nat /\ edges[p] \in Nat
      BY <2>2 DEF LastFound, ReportInv, ReportTypes
    <3>2. rowLevel[p] = (LastFound(p) + edges[p]) % 2
      BY DEF ReportInv, EdgesTellLevel
    <3>3. CASE p = q
      <4>1. rowLevel'[p] = 1 - rowLevel[p] /\ edges'[p] = edges[p] + 1
        BY <2>1, <3>3 DEF ReportInv, ReportTypes
      <4>. QED  BY <4>1, <3>1, <3>2
    <3>4. CASE p # q
      <4>1. rowLevel'[p] = rowLevel[p] /\ edges'[p] = edges[p]
        BY <2>1, <3>4 DEF ReportInv, ReportTypes
      <4>. QED  BY <4>1, <3>1, <3>2
    <3>. QED  BY <3>3, <3>4
  <2>. QED  BY <2>3, <2>4 DEF ReportInv, EdgesTellLevel
<1>4. CASE UNCHANGED reportVars
  BY <1>4 DEF reportVars, ReportInv, ReportTypes, EdgesTellLevel, LastFound
<1>. QED  BY <1>1, <1>2, <1>3, <1>4 DEF ReportNext, Looping, ReportStep

------------------------------------------------------------------------------
(* The sketches of pins.  What is left of a pass are the statements of its
   list from one of them on. *)
From(w, j) == [i \in 1..(Len(w) + 1 - j) |-> w[i + j - 1]]

LEMMA FromMoves ==
  ASSUME NEW S, NEW w \in Seq(S), NEW j \in 1..(Len(w) + 1)
  PROVE  /\ From(w, 1) = w /\ From(w, j) \in Seq(S)
         /\ From(w, j) = <<>> <=> j = Len(w) + 1
         /\ j <= Len(w) => Head(From(w, j)) = w[j] /\ Tail(From(w, j)) = From(w, j + 1)
<1>1. Len(w) \in Nat /\ j \in Nat /\ Len(w) + 1 - j \in Nat /\ w = [i \in 1..Len(w) |-> w[i]]
  OBVIOUS
<1>2. From(w, j) \in Seq(S) /\ Len(From(w, j)) = Len(w) + 1 - j
  <2>1. \A i \in 1..(Len(w) + 1 - j) : w[i + j - 1] \in S
    BY <1>1
  <2>. QED  BY <1>1, <2>1 DEF From
<1>3. From(w, 1) = w
  <2>1. From(w, 1) = [i \in 1..Len(w) |-> w[i]]
    BY <1>1 DEF From
  <2>. QED  BY <1>1, <2>1
<1>4. From(w, j) = <<>> <=> j = Len(w) + 1
  BY <1>1, <1>2
<1>5. ASSUME j <= Len(w)
      PROVE  Head(From(w, j)) = w[j] /\ Tail(From(w, j)) = From(w, j + 1)
  <2>1. Head(From(w, j)) = w[j]
    BY <1>1, <1>2, <1>5 DEF From
  <2>2. Tail(From(w, j)) = [i \in 1..(Len(w) - j) |-> From(w, j)[i + 1]]
    <3>1. ASSUME NEW s \in Seq(S), s # <<>>
          PROVE  Tail(s) = [i \in 1..(Len(s) - 1) |-> s[i + 1]]
      <4>1. Tail(s) \in Seq(S) /\ Len(Tail(s)) = Len(s) - 1 /\ Len(s) \in Nat
        BY <3>1, HeadTailProperties, LenProperties
      <4>2. Tail(s) = [i \in 1..Len(Tail(s)) |-> Tail(s)[i]]
        <5>1. \A q \in Seq(S) : q = [i \in 1..Len(q) |-> q[i]]
          OBVIOUS
        <5>. QED  BY <4>1, <5>1, Zenon
      <4>3. \A i \in 1..(Len(s) - 1) : Tail(s)[i] = s[i + 1]
        BY <3>1, <4>1, HeadTailProperties
      <4>. QED  BY ONLY <4>1, <4>2, <4>3
    <3>2. From(w, j) # <<>> /\ Len(From(w, j)) - 1 = Len(w) - j
      BY <1>1, <1>2, <1>4, <1>5
    <3>3. Tail(From(w, j)) = [i \in 1..(Len(From(w, j)) - 1) |-> From(w, j)[i + 1]]
      BY <3>1, <3>2, <1>2
    <3>. QED  BY <3>2, <3>3
  <2>3. \A i \in 1..(Len(w) - j) : From(w, j)[i + 1] = w[i + (j + 1) - 1]
    BY <1>1 DEF From
  <2>4. Len(w) + 1 - (j + 1) = Len(w) - j
    BY <1>1
  <2>. QED  BY <2>1, <2>2, <2>3, <2>4 DEF From
<1>. QED  BY <1>2, <1>3, <1>4, <1>5

StatementSet == [op : {"write", "transfer"}, pin : Nat, value : Int]

LEMMA StatementWrites ==
  ASSUME NEW w \in Seq(StatementSet), NEW j \in 1..Len(w),
         statements = From(w, j), w[j].op = "write", Statement
  PROVE  /\ statements' = From(w, j + 1)
         /\ pin' = [pin EXCEPT ![w[j].pin] = IF w[j].value = 0 THEN 0 ELSE 1]
         /\ UNCHANGED <<seen, steady, BuzzerValue, text, read, setting>>
<1>1. j \in 1..(Len(w) + 1) /\ j <= Len(w)
  BY LenProperties
<1>2. /\ Head(statements) = w[j] /\ Tail(statements) = From(w, j + 1)
  BY <1>1, FromMoves
<1>. QED  BY <1>2 DEF Statement, LOW, HIGH

------------------------------------------------------------------------------
(* The line follower. *)
TurnPins == <<9, 10, 15, 16, 4>>
Driven(l, r) == IF l = 0 /\ r = 0 THEN <<1, 1, 1, 1>> ELSE <<l, 0, 0, r>>
Pass(l, r, b) == Append(Turn(l, r), digitalWrite(BUZZER, b))
Bit == {0, 1}

LEMMA AppendEnds ==
  ASSUME NEW S, NEW u \in Seq(S), NEW y \in S, NEW n \in Nat, Len(u) = n
  PROVE  /\ Append(u, y) \in Seq(S) /\ Len(Append(u, y)) = n + 1
         /\ Append(u, y)[n + 1] = y /\ \A i \in 1..n : Append(u, y)[i] = u[i]
BY AppendProperties

LEMMA AppendToOne == ASSUME NEW v, NEW q PROVE Append(<<v>>, q) = <<v, q>>
<1>. DEFINE s == Append(<<v>>, q)
<1>1. <<v>> \in Seq({v, q}) /\ Len(<<v>>) = 1 /\ <<v>>[1] = v
  OBVIOUS
<1>2. /\ s \in Seq({v, q}) /\ Len(s) = Len(<<v>>) + 1 /\ s[Len(<<v>>) + 1] = q
      /\ \A i \in 1..Len(<<v>>) : s[i] = <<v>>[i]
  BY <1>1, AppendProperties
<1>3. s \in Seq({v, q}) /\ Len(s) = 2 /\ s[2] = q /\ s[1] = v
  BY <1>1, <1>2
<1>. HIDE DEF s
<1>4. s = <<v, q>>
  BY <1>3
<1>. QED  BY <1>4 DEF s

LEMMA PassFacts ==
  ASSUME NEW l \in Bit, NEW r \in Bit, NEW b \in Int
  PROVE  /\ Pass(l, r, b) \in Seq(StatementSet)
         /\ Len(Pass(l, r, b)) = 5
         /\ \A i \in 1..5 : Pass(l, r, b)[i].op = "write" /\ Pass(l, r, b)[i].pin = TurnPins[i]
         /\ \A i \in 1..4 : Pass(l, r, b)[i].value = Driven(l, r)[i]
         /\ \A i \in 1..4 : Driven(l, r)[i] \in Bit
<1>. DEFINE t == Turn(l, r)
<1>1. t = <<digitalWrite(9, Driven(l, r)[1]), digitalWrite(10, Driven(l, r)[2]),
            digitalWrite(15, Driven(l, r)[3]), digitalWrite(16, Driven(l, r)[4])>>
  <2>1. CASE l = 0 /\ r = 0
    <3>1. All(Motors, HIGH) = <<digitalWrite(9, 1), digitalWrite(10, 1), digitalWrite(15, 1), digitalWrite(16, 1)>>
      BY DEF All, Motors, HIGH, RIGHT_MOTOR_P, RIGHT_MOTOR_N, LEFT_MOTOR_N, LEFT_MOTOR_P
    <3>. QED  BY <2>1, <3>1 DEF Turn, LOW, Driven
  <2>2. CASE ~(l = 0 /\ r = 0)
    BY <2>2 DEF Turn, LOW, Driven, RIGHT_MOTOR_P, RIGHT_MOTOR_N, LEFT_MOTOR_N, LEFT_MOTOR_P
  <2>. QED  BY <2>1, <2>2
<1>2. \A i \in 1..4 : Driven(l, r)[i] \in Bit
  BY DEF Driven, Bit
<1>. DEFINE S == StatementSet
<1>3. \A p \in Nat, v \in Int : digitalWrite(p, v) \in S /\ digitalWrite(p, v).op = "write"
                               /\ digitalWrite(p, v).pin = p /\ digitalWrite(p, v).value = v
  BY DEF digitalWrite, StatementSet
<1>4. t \in Seq(S) /\ Len(t) = 4 /\ digitalWrite(BUZZER, b) \in S
  BY <1>1, <1>2, <1>3 DEF BUZZER, Bit
<1>5. /\ Pass(l, r, b) \in Seq(S) /\ Len(Pass(l, r, b)) = 5
      /\ Pass(l, r, b)[5] = digitalWrite(BUZZER, b)
      /\ \A i \in 1..4 : Pass(l, r, b)[i] = t[i]
  <2>. DEFINE y == digitalWrite(BUZZER, b)  n == 4
  <2>1. Len(t) = n /\ n \in Nat /\ n + 1 = 5
    BY <1>4
  <2>. HIDE DEF n
  <2>2. /\ Append(t, y) \in Seq(S) /\ Len(Append(t, y)) = n + 1
        /\ Append(t, y)[n + 1] = y /\ \A i \in 1..n : Append(t, y)[i] = t[i]
    BY <1>4, <2>1, AppendEnds
  <2>. QED  BY <2>1, <2>2 DEF Pass, n
<1>6. \A i \in 1..4 : t[i] = digitalWrite(TurnPins[i], Driven(l, r)[i]) /\ TurnPins[i] \in Nat
  BY <1>1 DEF TurnPins
<1>7. TurnPins[5] = 4 /\ BUZZER = 4
  BY DEF TurnPins, BUZZER
<1>8. \A i \in 1..4 : Driven(l, r)[i] \in Int
  BY <1>2 DEF Bit
<1>9. \A i \in 1..4 : /\ Pass(l, r, b)[i].op = "write" /\ Pass(l, r, b)[i].pin = TurnPins[i]
                        /\ Pass(l, r, b)[i].value = Driven(l, r)[i]
  <2>1. ASSUME NEW i \in 1..4
        PROVE  /\ Pass(l, r, b)[i].op = "write" /\ Pass(l, r, b)[i].pin = TurnPins[i]
               /\ Pass(l, r, b)[i].value = Driven(l, r)[i]
    <3>1. Pass(l, r, b)[i] = digitalWrite(TurnPins[i], Driven(l, r)[i])
      BY <1>5, <1>6
    <3>. QED  BY ONLY <3>1 DEF digitalWrite
  <2>. QED  BY <2>1
<1>10. Pass(l, r, b)[5].op = "write" /\ Pass(l, r, b)[5].pin = TurnPins[5]
  BY <1>3, <1>5, <1>7
<1>11. \A i \in 1..5 : i \in 1..4 \/ i = 5
  OBVIOUS
<1>. QED  BY ONLY <1>2, <1>5, <1>9, <1>10, <1>11

LEMMA PassEnds ==
  ASSUME NEW l \in Bit, NEW r \in Bit, NEW b \in Int, NEW j \in 1..6
  PROVE  From(Pass(l, r, b), 1) = Pass(l, r, b) /\ (From(Pass(l, r, b), j) = <<>> <=> j = 6)
<1>. DEFINE w == Pass(l, r, b)  n == Len(w)
<1>1. w \in Seq(StatementSet) /\ n = 5
  BY PassFacts
<1>. HIDE DEF w, n
<1>2. j \in 1..(n + 1) /\ 1 \in 1..(n + 1) /\ n + 1 = 6
  BY <1>1
<1>3. From(w, 1) = w /\ (From(w, j) = <<>> <=> j = n + 1)
  BY ONLY <1>1, <1>2, FromMoves DEF n
<1>. QED  BY <1>2, <1>3 DEF w

Sensed(p, q) == pin[17] = p /\ pin[14] = q
Drives4(l, r) == \A i \in 1..4 : pin[TurnPins[i]] = Driven(l, r)[i]

(* Where the pass of the values l and r is.  What it has written is as they
   ask for, if no sensor has changed since it began; a pass that finds the
   last one complete keeps what the pins drive. *)
Passing(l, r, b, j) ==
  /\ statements = From(Pass(l, r, b), j)
  /\ seen # <<>> => j = 6
  /\ steady >= 1 /\ seen = <<>> =>
       Sensed(l, r) /\ \A i \in 1..4 : i < j => pin[TurnPins[i]] = Driven(l, r)[i]

FollowTypes ==
  /\ pin \in [PinNumbers -> Bit] /\ steady \in 0..2 /\ BuzzerValue \in Int
  /\ seen = <<>> \/ \E v \in Bit : seen = <<v>>

FollowInv ==
  /\ FollowTypes
  /\ \E l, r \in Bit, b \in Int, j \in 1..6 : Passing(l, r, b, j)
  /\ steady >= 1 /\ seen # <<>> => seen[1] = pin[17]
  /\ steady = 2 => Drives4(pin[17], pin[14])

LEMMA PinFacts ==
  /\ PinNumbers = 2..17 /\ 17 \in PinNumbers /\ 14 \in PinNumbers
  /\ LEFT_SENSOR = 17 /\ RIGHT_SENSOR = 14
  /\ \A i \in 1..5 : TurnPins[i] \in PinNumbers /\ TurnPins[i] \notin {14, 17}
  /\ \A i, k \in 1..5 : TurnPins[i] = TurnPins[k] => i = k
BY DEF PinNumbers, TurnPins, LEFT_SENSOR, RIGHT_SENSOR

LEMMA FollowRight == FollowInv => MotorsFollow
<1>. SUFFICES ASSUME FollowInv, steady = 2 PROVE MotorsFollow
  BY DEF MotorsFollow
<1>. DEFINE l == pin[17]  r == pin[14]
<1>1. /\ l \in Bit /\ r \in Bit
      /\ pin[9] = Driven(l, r)[1] /\ pin[10] = Driven(l, r)[2]
      /\ pin[15] = Driven(l, r)[3] /\ pin[16] = Driven(l, r)[4]
  BY PinFacts DEF FollowInv, FollowTypes, Drives4, TurnPins
<1>2. /\ Drives(RIGHT_MOTOR_P, RIGHT_MOTOR_N) = <<pin[9], pin[10]>>
      /\ Drives(LEFT_MOTOR_P, LEFT_MOTOR_N) = <<pin[16], pin[15]>>
  BY DEF Drives, RIGHT_MOTOR_P, RIGHT_MOTOR_N, LEFT_MOTOR_N, LEFT_MOTOR_P
<1>3. CASE l = 0 /\ r = 0
  BY <1>1, <1>2, <1>3 DEF MotorsFollow, Forward, HIGH, LOW, Driven, LEFT_SENSOR, RIGHT_SENSOR
<1>4. CASE ~(l = 0 /\ r = 0)
  BY <1>1, <1>2, <1>4 DEF MotorsFollow, Forward, HIGH, LOW, Driven, LEFT_SENSOR, RIGHT_SENSOR, Bit
<1>. QED  BY <1>3, <1>4

LEMMA FollowInit == SketchInit => FollowInv
<1>. SUFFICES ASSUME SketchInit PROVE FollowInv
  OBVIOUS
<1>1. /\ statements = <<>> /\ pin = [p \in PinNumbers |-> 0] /\ seen = <<>> /\ steady = 0
      /\ BuzzerValue = 0
  BY DEF SketchInit, LOW
<1>2. FollowTypes
  <2>1. [p \in PinNumbers |-> 0] \in [PinNumbers -> Bit] /\ 0 \in 0..2 /\ 0 \in Int
    BY DEF Bit
  <2>. QED  BY <1>1, <2>1 DEF FollowTypes
<1>3. Passing(0, 0, 0, 6)
  <2>1. From(Pass(0, 0, 0), 6) = <<>>
    BY PassEnds DEF Bit
  <2>. QED  BY <1>1, <2>1 DEF Passing
<1>. QED  BY <1>1, <1>2, <1>3 DEF FollowInv, Bit

LEMMA FollowStatement == FollowInv /\ Statement => FollowInv'
<1>. SUFFICES ASSUME FollowInv, Statement PROVE FollowInv'
  OBVIOUS
<1>1. PICK l \in Bit, r \in Bit, b \in Int, j \in 1..6 : Passing(l, r, b, j)
  BY DEF FollowInv
<1>. DEFINE w == Pass(l, r, b)
<1>2. /\ w \in Seq(StatementSet) /\ Len(w) = 5
      /\ w[j].op = "write" /\ w[j].pin = TurnPins[j] /\ j \in 1..5
  <2>1. j # 6
    BY <1>1, PassEnds DEF Passing, Statement
  <2>2. j \in 1..5
    BY <2>1
  <2>. QED  BY <2>2, PassFacts
<1>3. /\ statements' = From(w, j + 1) /\ UNCHANGED <<seen, steady, BuzzerValue>>
      /\ pin' = [pin EXCEPT ![TurnPins[j]] = IF w[j].value = 0 THEN 0 ELSE 1]
  <2>1. statements = From(w, j) /\ j \in 1..Len(w)
    BY <1>1, <1>2 DEF Passing
  <2>. HIDE DEF w
  <2>. QED  BY <1>2, <2>1, StatementWrites
<1>4. seen = <<>>
  BY <1>1, <1>2 DEF Passing
<1>5. /\ pin' \in [PinNumbers -> Bit] /\ pin'[17] = pin[17] /\ pin'[14] = pin[14]
      /\ j \in 1..4 => pin'[TurnPins[j]] = Driven(l, r)[j]
      /\ \A i \in 1..4 : i # j => pin'[TurnPins[i]] = pin[TurnPins[i]]
  <2>1. pin' \in [PinNumbers -> Bit] /\ pin'[17] = pin[17] /\ pin'[14] = pin[14]
    BY <1>2, <1>3, PinFacts DEF FollowInv, FollowTypes, Bit
  <2>2. ASSUME NEW i \in 1..4, i # j PROVE pin'[TurnPins[i]] = pin[TurnPins[i]]
    <3>0. i \in 1..5 /\ j \in 1..5 /\ i # j
      BY <1>2, <2>2
    <3>1. TurnPins[i] \in PinNumbers /\ TurnPins[i] # TurnPins[j]
      BY ONLY <3>0, PinFacts
    <3>2. DOMAIN pin = PinNumbers
      BY DEF FollowInv, FollowTypes
    <3>. QED  BY ONLY <3>1, <3>2, <1>3
  <2>3. ASSUME j \in 1..4 PROVE pin'[TurnPins[j]] = Driven(l, r)[j]
    <3>1. w[j].value = Driven(l, r)[j] /\ Driven(l, r)[j] \in Bit
      BY <2>3, PassFacts
    <3>. QED  BY <3>1, <1>2, <1>3, PinFacts DEF FollowInv, FollowTypes, Bit
  <2>. QED  BY <2>1, <2>2, <2>3
<1>6. Passing(l, r, b, j + 1)'
  <2>1. ASSUME steady >= 1, NEW i \in 1..4, i < j + 1 PROVE pin'[TurnPins[i]] = Driven(l, r)[i]
    <3>1. CASE i = j
      BY <3>1, <1>5
    <3>2. CASE i < j
      BY <3>2, <2>1, <1>1, <1>4, <1>5 DEF Passing
    <3>. QED  BY <3>1, <3>2, <2>1
  <2>2. steady >= 1 => Sensed(l, r)'
    BY <1>1, <1>4, <1>5 DEF Passing, Sensed
  <2>. QED  BY <2>1, <2>2, <1>3, <1>4 DEF Passing
<1>7. steady = 2 => Drives4(pin[17], pin[14])'
  <2>1. ASSUME steady = 2, NEW i \in 1..4 PROVE pin'[TurnPins[i]] = Driven(pin[17], pin[14])[i]
    <3>1. pin[17] = l /\ pin[14] = r
      BY <2>1, <1>1, <1>4 DEF Passing, Sensed
    <3>2. CASE i = j
      BY <3>1, <3>2, <1>5
    <3>3. CASE i # j
      BY <3>3, <2>1, <1>5 DEF FollowInv, Drives4
    <3>. QED  BY <3>2, <3>3
  <2>. QED  BY <2>1, <1>5 DEF Drives4
<1>8. j + 1 \in 1..6 /\ FollowTypes'
  BY <1>2, <1>3, <1>5 DEF FollowInv, FollowTypes
<1>. QED  BY <1>3, <1>4, <1>5, <1>6, <1>7, <1>8 DEF FollowInv

LEMMA FollowReads == FollowInv /\ FollowLine => FollowInv'
<1>. SUFFICES ASSUME FollowInv, FollowLine PROVE FollowInv'
  OBVIOUS
<1>1. PICK l \in Bit, r \in Bit, b \in Int, j \in 1..6 : Passing(l, r, b, j)
  BY DEF FollowInv
<1>2. j = 6
  BY <1>1, PassEnds DEF Passing, FollowLine
<1>3. UNCHANGED pin /\ pin \in [PinNumbers -> Bit] /\ pin[17] \in Bit /\ pin[14] \in Bit
  BY PinFacts DEF FollowLine, FollowInv, FollowTypes
<1>4. CASE seen = <<>>
  <2>1. /\ seen' = <<pin[17]>> /\ UNCHANGED <<BuzzerValue, statements>>
        /\ steady' = IF steady < 2 THEN steady + 1 ELSE steady
    BY <1>4 DEF FollowLine, ReadSensor, Sensors, LEFT_SENSOR, RIGHT_SENSOR
  <2>2. Passing(l, r, b, 6)'
    BY <1>1, <1>2, <2>1 DEF Passing
  <2>3. FollowTypes'
    BY <1>3, <2>1 DEF FollowInv, FollowTypes
  <2>4. steady' = 2 => Drives4(pin[17], pin[14])'
    <3>1. CASE steady = 2
      BY <3>1, <1>3 DEF FollowInv, Drives4
    <3>2. CASE steady = 1
      BY <3>2, <1>1, <1>2, <1>3, <1>4 DEF Passing, Sensed, Drives4
    <3>3. CASE steady = 0
      BY <3>3, <2>1
    <3>. QED  BY <3>1, <3>2, <3>3 DEF FollowInv, FollowTypes
  <2>5. seen'[1] = pin'[17]
    BY <2>1, <1>3
  <2>6. \E p, q \in Bit, c \in Int, k \in 1..6 : Passing(p, q, c, k)'
    BY <2>2
  <2>. QED  BY <2>3, <2>4, <2>5, <2>6 DEF FollowInv
<1>5. CASE seen # <<>>
  <2>1. PICK v \in Bit : seen = <<v>>
    BY <1>5 DEF FollowInv, FollowTypes
  <2>2. PICK q \in Bit : q = pin[14]
    BY <1>3
  <2>3. /\ seen' = <<>> /\ BuzzerValue' = Buzzer(v, q) /\ UNCHANGED steady
        /\ statements' = Pass(v, q, BuzzerValue')
    <3>1. Len(seen) + 1 = 2 /\ Sensors[2] = 14
      BY <2>1 DEF Sensors, RIGHT_SENSOR
    <3>2. Append(seen, pin[Sensors[Len(seen) + 1]]) = <<v, q>>
      <4>1. pin[Sensors[Len(seen) + 1]] = q
        BY <2>2, <3>1
      <4>2. Append(<<v>>, q) = <<v, q>>
        BY AppendToOne
      <4>. QED  BY <4>1, <4>2, <2>1
    <3>. QED  BY <3>2, <1>5 DEF FollowLine, ReadSensor, Pass
  <2>4. PICK c \in Int : c = BuzzerValue'
    BY <2>3 DEF Buzzer, LOW, HIGH, FollowInv, FollowTypes
  <2>5. Passing(v, q, c, 1)'
    <3>1. statements' = From(Pass(v, q, c), 1)
      BY <2>3, <2>4, PassEnds
    <3>2. steady >= 1 => v = pin[17]
      BY <2>1, <1>5 DEF FollowInv
    <3>. QED  BY <3>1, <3>2, <2>2, <2>3, <1>3 DEF Passing, Sensed
  <2>6. \E p, t \in Bit, d \in Int, k \in 1..6 : Passing(p, t, d, k)'
    BY <2>5
  <2>. QED  BY <2>3, <2>4, <2>6, <1>3 DEF FollowInv, FollowTypes, Drives4
<1>. QED  BY <1>4, <1>5

LEMMA FollowSees == FollowInv /\ SensorChanges => FollowInv'
<1>. SUFFICES ASSUME FollowInv, SensorChanges PROVE FollowInv'
  OBVIOUS
<1>1. PICK l \in Bit, r \in Bit, b \in Int, j \in 1..6 : Passing(l, r, b, j)
  BY DEF FollowInv
<1>2. /\ pin' \in [PinNumbers -> Bit] /\ steady' = 0
      /\ UNCHANGED <<statements, seen, BuzzerValue>>
  <2>1. PICK p \in {17, 14} : pin' = [pin EXCEPT ![p] = 1 - @]
    BY DEF SensorChanges, LEFT_SENSOR, RIGHT_SENSOR
  <2>2. pin \in [PinNumbers -> Bit] /\ p \in PinNumbers /\ 1 - pin[p] \in Bit
    BY <2>1, PinFacts DEF FollowInv, FollowTypes, Bit
  <2>. QED  BY <2>1, <2>2 DEF SensorChanges
<1>3. Passing(l, r, b, j)'
  BY <1>1, <1>2 DEF Passing
<1>. QED  BY <1>2, <1>3 DEF FollowInv, FollowTypes

------------------------------------------------------------------------------
(* The switch of the serial line. *)
Lit(n, l) == \E i \in 1..n : text[i] = l /\ \A j \in i..n : text[j] \in Letters
Shows(l) == pin[LedPin[l]] = 1 <=> Lit(read, l)
AllOff == All(SwitchPins, LOW)

SwitchTypes ==
  /\ pin \in [PinNumbers -> Bit] /\ text \in Seq(Characters)
  /\ read \in Nat /\ read <= Len(text)

(* Nothing is left to write, a letter's pin, or the pins from one on. *)
AtRest == statements = <<>> /\ \A l \in Letters : Shows(l)
Lighting(c) ==
  /\ statements = <<digitalWrite(LedPin[c], HIGH)>> /\ Lit(read, c)
  /\ \A l \in Letters : l # c => Shows(l)
PuttingOut(j) ==
  /\ statements = From(AllOff, j)
  /\ \A l \in Letters : ~Lit(read, l) /\ (LedPin[l] <= j => pin[LedPin[l]] = 0)

SwitchInv ==
  /\ SwitchTypes
  /\ \/ AtRest
     \/ \E c \in Letters : Lighting(c)
     \/ \E j \in 1..5 : PuttingOut(j)

LEMMA LetterFacts ==
  /\ Letters = {"a", "b", "c", "d", "e"}
  /\ \A l \in Letters : LedPin[l] \in 2..6 /\ LedPin[l] \in PinNumbers
  /\ \A l, k \in Letters : LedPin[l] = LedPin[k] => l = k
<1>1. Letters = {"a", "b", "c", "d", "e"}
  BY DEF Letters, LedPin
<1>2. LedPin["a"] = 2 /\ LedPin["b"] = 3 /\ LedPin["c"] = 4 /\ LedPin["d"] = 5 /\ LedPin["e"] = 6
  BY DEF LedPin
<1>. QED  BY <1>1, <1>2 DEF PinNumbers

LEMMA AllOffFacts ==
  /\ AllOff \in Seq(StatementSet) /\ Len(AllOff) = 5
  /\ \A i \in 1..5 : AllOff[i].op = "write" /\ AllOff[i].pin = i + 1 /\ AllOff[i].value = 0
<1>1. DOMAIN SwitchPins = 1..5 /\ \A i \in 1..5 : SwitchPins[i] = i + 1
  BY DEF SwitchPins
<1>2. AllOff = [i \in 1..5 |-> [op |-> "write", pin |-> i + 1, value |-> 0]]
  BY <1>1 DEF AllOff, All, digitalWrite, LOW
<1>3. \A i \in 1..5 : [op |-> "write", pin |-> i + 1, value |-> 0] \in StatementSet
  BY DEF StatementSet
<1>4. AllOff \in Seq(StatementSet) /\ DOMAIN AllOff = 1..5
  <2>1. AllOff \in [1..5 -> StatementSet] /\ 5 \in Nat
    BY <1>2, <1>3
  <2>. QED  BY ONLY <2>1, SeqDef
<1>5. Len(AllOff) = 5
  BY <1>4
<1>. QED  BY <1>2, <1>4, <1>5

LEMMA AllOffEnds ==
  ASSUME NEW j \in 1..6
  PROVE  From(AllOff, 1) = AllOff /\ (From(AllOff, j) = <<>> <=> j = 6)
<1>. DEFINE n == Len(AllOff)
<1>1. AllOff \in Seq(StatementSet) /\ n = 5
  BY AllOffFacts
<1>. HIDE DEF n
<1>2. j \in 1..(n + 1) /\ 1 \in 1..(n + 1) /\ n + 1 = 6
  BY <1>1
<1>3. From(AllOff, 1) = AllOff /\ (From(AllOff, j) = <<>> <=> j = n + 1)
  BY <1>1, <1>2, FromMoves DEF n
<1>. QED  BY <1>2, <1>3

LEMMA LitNext ==
  ASSUME NEW n \in Nat, NEW l \in Letters
  PROVE  Lit(n + 1, l) <=> text[n + 1] = l \/ (text[n + 1] \in Letters /\ Lit(n, l))
<1>1. ASSUME Lit(n + 1, l)
      PROVE  text[n + 1] = l \/ (text[n + 1] \in Letters /\ Lit(n, l))
  <2>1. PICK i \in 1..(n + 1) : text[i] = l /\ \A j \in i..(n + 1) : text[j] \in Letters
    BY <1>1 DEF Lit
  <2>2. CASE i = n + 1
    BY <2>1, <2>2
  <2>3. CASE i # n + 1
    <3>1. i \in 1..n /\ n + 1 \in i..(n + 1) /\ i..n \subseteq i..(n + 1)
      BY <2>3
    <3>. QED  BY <2>1, <3>1 DEF Lit
  <2>. QED  BY <2>2, <2>3
<1>2. ASSUME text[n + 1] = l PROVE Lit(n + 1, l)
  <2>1. n + 1 \in 1..(n + 1) /\ \A j \in (n + 1)..(n + 1) : j = n + 1
    OBVIOUS
  <2>. QED  BY <1>2, <2>1 DEF Lit
<1>3. ASSUME text[n + 1] \in Letters, Lit(n, l) PROVE Lit(n + 1, l)
  <2>1. PICK i \in 1..n : text[i] = l /\ \A j \in i..n : text[j] \in Letters
    BY <1>3 DEF Lit
  <2>2. i \in 1..(n + 1) /\ \A j \in i..(n + 1) : j = n + 1 \/ j \in i..n
    OBVIOUS
  <2>. QED  BY <1>3, <2>1, <2>2 DEF Lit
<1>. QED  BY <1>1, <1>2, <1>3

LEMMA SwitchRight == SwitchInv => LedsFollowText
<1>. SUFFICES ASSUME SwitchInv, statements = <<>> PROVE LedsFollowText
  BY DEF LedsFollowText
<1>1. AtRest
  <2>1. ASSUME NEW c \in Letters, Lighting(c) PROVE FALSE
    <3>1. <<digitalWrite(LedPin[c], HIGH)>> # <<>>
      OBVIOUS
    <3>. QED  BY <2>1, <3>1 DEF Lighting
  <2>2. ASSUME NEW j \in 1..5, PuttingOut(j) PROVE FALSE
    BY <2>2, AllOffEnds DEF PuttingOut
  <2>. QED  BY <2>1, <2>2 DEF SwitchInv
<1>2. ASSUME NEW l \in Letters
      PROVE (pin[LedPin[l]] = HIGH) =
              \E i \in 1..read : text[i] = l /\ \A j \in i..read : text[j] \in Letters
  BY <1>1 DEF AtRest, Shows, Lit, HIGH
<1>. QED  BY <1>2 DEF LedsFollowText

LEMMA SwitchInit == SketchInit => SwitchInv
<1>. SUFFICES ASSUME SketchInit PROVE SwitchInv
  OBVIOUS
<1>1. /\ statements = <<>> /\ pin = [p \in PinNumbers |-> 0] /\ text = <<>> /\ read = 0
  BY DEF SketchInit, LOW
<1>2. SwitchTypes
  <2>1. [p \in PinNumbers |-> 0] \in [PinNumbers -> Bit] /\ <<>> \in Seq(Characters) /\ Len(<<>>) = 0
    BY DEF Bit
  <2>. QED  BY <1>1, <2>1 DEF SwitchTypes
<1>3. ASSUME NEW l \in Letters PROVE Shows(l)
  BY <1>1, LetterFacts DEF Shows, Lit
<1>. QED  BY <1>1, <1>2, <1>3 DEF SwitchInv, AtRest

LEMMA SwitchStatement == SwitchInv /\ Statement => SwitchInv'
<1>. SUFFICES ASSUME SwitchInv, Statement PROVE SwitchInv'
  OBVIOUS
<1>1. statements # <<>> /\ UNCHANGED <<text, read>> /\ \A n, l : Lit(n, l)' <=> Lit(n, l)
  BY DEF Statement, Lit
<1>2. ASSUME NEW c \in Letters, Lighting(c) PROVE SwitchInv'
  <2>1. statements' = <<>> /\ pin' = [pin EXCEPT ![LedPin[c]] = 1]
    <3>1. Head(statements) = digitalWrite(LedPin[c], 1) /\ Tail(statements) = <<>>
      BY <1>2 DEF Lighting, HIGH
    <3>. QED  BY <3>1 DEF Statement, HIGH, digitalWrite
  <2>2. pin' \in [PinNumbers -> Bit]
    BY <2>1 DEF SwitchInv, SwitchTypes, Bit
  <2>3. ASSUME NEW l \in Letters PROVE Shows(l)'
    <3>1. CASE l = c
      BY <1>1, <1>2, <2>1, <3>1, LetterFacts DEF Lighting, Shows, SwitchInv, SwitchTypes
    <3>2. CASE l # c
      <4>1. pin'[LedPin[l]] = pin[LedPin[l]]
        BY <2>1, <3>2, LetterFacts DEF SwitchInv, SwitchTypes
      <4>. QED  BY <4>1, <1>1, <1>2, <3>2 DEF Lighting, Shows
    <3>. QED  BY <3>1, <3>2
  <2>. QED  BY <2>1, <2>2, <2>3, <1>1 DEF SwitchInv, SwitchTypes, AtRest
<1>3. ASSUME NEW j \in 1..5, PuttingOut(j) PROVE SwitchInv'
  <2>1. statements' = From(AllOff, j + 1) /\ pin' = [pin EXCEPT ![j + 1] = 0]
    <3>1. /\ AllOff \in Seq(StatementSet) /\ j \in 1..Len(AllOff) /\ statements = From(AllOff, j)
          /\ AllOff[j].op = "write" /\ AllOff[j].pin = j + 1 /\ AllOff[j].value = 0
      BY <1>3, AllOffFacts DEF PuttingOut
    <3>. QED  BY <3>1, StatementWrites
  <2>2. pin' \in [PinNumbers -> Bit]
    BY <2>1 DEF SwitchInv, SwitchTypes, Bit
  <2>3. ASSUME NEW l \in Letters
        PROVE  ~Lit(read, l)' /\ (LedPin[l] <= j + 1 => pin'[LedPin[l]] = 0)
    BY <1>1, <1>3, <2>1, LetterFacts DEF PuttingOut, SwitchInv, SwitchTypes
  <2>4. CASE j < 5
    BY <2>1, <2>2, <2>3, <2>4, <1>1 DEF SwitchInv, SwitchTypes, PuttingOut
  <2>5. CASE j = 5
    <3>1. statements' = <<>>
      BY <2>1, <2>5, AllOffEnds
    <3>2. ASSUME NEW l \in Letters PROVE Shows(l)'
      BY <2>3, <2>5, LetterFacts DEF Shows
    <3>. QED  BY <3>1, <3>2, <2>2, <1>1 DEF SwitchInv, SwitchTypes, AtRest
  <2>. QED  BY <2>4, <2>5
<1>. QED  BY <1>1, <1>2, <1>3 DEF SwitchInv, AtRest

LEMMA SwitchReads == SwitchInv /\ SwitchLeds => SwitchInv'
<1>. SUFFICES ASSUME SwitchInv, SwitchLeds PROVE SwitchInv'
  OBVIOUS
<1>0. text[read + 1] \in Characters
  BY DEF SwitchLeds, SwitchInv, SwitchTypes
<1>. PICK c \in Characters : c = text[read + 1]
  BY <1>0
<1>1. /\ statements = <<>> /\ read < Len(text) /\ read' = read + 1 /\ statements' = Case(c)
      /\ UNCHANGED <<pin, text>>
  BY DEF SwitchLeds
<1>2. /\ read \in Nat /\ text \in Seq(Characters) /\ read + 1 \in 1..Len(text) /\ Len(text) \in Nat
      /\ c \in Characters
  BY <1>1 DEF SwitchInv, SwitchTypes
<1>3. SwitchTypes'
  BY <1>1, <1>2 DEF SwitchInv, SwitchTypes
<1>4. AtRest
  <2>1. LedsFollowText /\ \A l \in Letters : ~Lighting(l)
    BY <1>1, SwitchRight DEF Lighting
  <2>2. ASSUME NEW j \in 1..5, PuttingOut(j) PROVE FALSE
    BY <1>1, <2>2, AllOffEnds DEF PuttingOut
  <2>. QED  BY <2>1, <2>2 DEF SwitchInv
<1>5. \A l \in Letters : Lit(read, l)' <=> c = l \/ (c \in Letters /\ Lit(read, l))
  <2>1. \A l : Lit(read, l)' <=> Lit(read + 1, l)
    BY <1>1 DEF Lit
  <2>. QED  BY <1>1, <1>2, <2>1, LitNext
<1>6. CASE c \in Letters
  <2>1. statements' = <<digitalWrite(LedPin[c], HIGH)>>
    BY <1>1, <1>6 DEF Case
  <2>2. Lighting(c)'
    BY <2>1, <1>1, <1>4, <1>5, <1>6 DEF Lighting, AtRest, Shows
  <2>. QED  BY <2>2, <1>3, <1>6 DEF SwitchInv
<1>7. CASE c \notin Letters
  <2>1. statements' = From(AllOff, 1)
    BY <1>1, <1>7, AllOffEnds DEF Case, AllOff
  <2>2. PuttingOut(1)'
    BY <2>1, <1>1, <1>5, <1>7, LetterFacts DEF PuttingOut
  <2>. QED  BY <2>2, <1>3 DEF SwitchInv
<1>. QED  BY <1>6, <1>7

LEMMA SwitchTyped == SwitchInv /\ Types => SwitchInv'
<1>. SUFFICES ASSUME SwitchInv, Types PROVE SwitchInv'
  OBVIOUS
<1>1. PICK c \in Characters : text' = Append(text, c)
  BY DEF Types
<1>2. /\ UNCHANGED <<statements, pin, read>> /\ read \in Nat /\ read <= Len(text)
      /\ text \in Seq(Characters)
  BY DEF Types, SwitchInv, SwitchTypes
<1>3. /\ text' \in Seq(Characters) /\ Len(text') = Len(text) + 1
      /\ \A i \in 1..Len(text) : text'[i] = text[i]
  BY <1>1, <1>2, AppendProperties
<1>4. SwitchTypes'
  BY <1>2, <1>3 DEF SwitchInv, SwitchTypes
<1>5. \A l : Lit(read, l)' <=> Lit(read, l)
  <2>1. \A i \in 1..read : text'[i] = text[i] /\ \A j \in i..read : text'[j] = text[j]
    BY <1>2, <1>3
  <2>. QED  BY <1>2, <2>1 DEF Lit
<1>. QED  BY <1>2, <1>4, <1>5 DEF SwitchInv, AtRest, Shows, Lighting, PuttingOut

------------------------------------------------------------------------------
(* The light along the array. *)
Way == Forth \o Back
PinAt(k) == IF k <= 12 THEN ledPins[(k + 1) \div 2] ELSE ledPins[7 - ((k - 11) \div 2)]

(* After the statement that lights a pin comes the one that puts it out. *)
ArrayInv ==
  /\ pin \in [PinNumbers -> Bit]
  /\ \E k \in 1..25 :
       /\ statements = From(Way, k)
       /\ \A i \in 1..6 : pin[ledPins[i]] = 1 => k % 2 = 0 /\ ledPins[i] = PinAt(k - 1)

LEMMA LedPinFacts ==
  /\ \A i \in 1..6 : ledPins[i] \in PinNumbers
  /\ \A i, k \in 1..6 : ledPins[i] = ledPins[k] => i = k
<1>1. /\ ledPins[1] = 2 /\ ledPins[2] = 7 /\ ledPins[3] = 4 /\ ledPins[4] = 6 /\ ledPins[5] = 5
      /\ ledPins[6] = 3
  BY DEF ledPins
<1>2. \A i \in 1..6 : i = 1 \/ i = 2 \/ i = 3 \/ i = 4 \/ i = 5 \/ i = 6
  OBVIOUS
<1>. QED  BY ONLY <1>1, <1>2 DEF PinNumbers

LEMMA BlinkFacts ==
  ASSUME NEW p \in Nat, NEW k \in Nat
  PROVE  LET s == Blink(p)[1 + ((k + 1) % 2)]
         IN  s \in StatementSet /\ s.op = "write" /\ s.pin = p /\ s.value = k % 2
<1>1. \/ (k + 1) % 2 = 0 /\ k % 2 = 1
      \/ (k + 1) % 2 = 1 /\ k % 2 = 0
  OBVIOUS
<1>2. /\ Blink(p)[1] = [op |-> "write", pin |-> p, value |-> 1]
      /\ Blink(p)[2] = [op |-> "write", pin |-> p, value |-> 0]
  BY DEF Blink, digitalWrite, HIGH, LOW
<1>. DEFINE s == Blink(p)[1 + ((k + 1) % 2)]
<1>3. s = [op |-> "write", pin |-> p, value |-> k % 2]
  <2>1. CASE (k + 1) % 2 = 0 /\ k % 2 = 1
    <3>1. 1 + ((k + 1) % 2) = 1
      BY <2>1
    <3>. QED  BY <3>1, <2>1, <1>2
  <2>2. CASE (k + 1) % 2 = 1 /\ k % 2 = 0
    <3>1. 1 + ((k + 1) % 2) = 2
      BY <2>2
    <3>. QED  BY <3>1, <2>2, <1>2
  <2>. QED  BY <1>1, <2>1, <2>2
<1>4. k % 2 \in Int
  OBVIOUS
<1>. HIDE DEF s
<1>5. s \in StatementSet /\ s.op = "write" /\ s.pin = p /\ s.value = k % 2
  BY <1>3, <1>4 DEF StatementSet
<1>. QED  BY <1>5 DEF s

LEMMA FunctionIsSeq ==
  ASSUME NEW S, NEW n \in Nat, NEW f \in [1..n -> S]
  PROVE  f \in Seq(S) /\ Len(f) = n
OBVIOUS

LEMMA BlinksFacts ==
  ASSUME NEW pins \in [1..6 -> Nat]
  PROVE  /\ Blinks(pins) \in Seq(StatementSet) /\ Len(Blinks(pins)) = 12
         /\ \A k \in 1..12 : /\ Blinks(pins)[k].op = "write" /\ Blinks(pins)[k].value = k % 2
                             /\ Blinks(pins)[k].pin = pins[(k + 1) \div 2]
<1>1. ASSUME NEW k \in 1..12
      PROVE  LET s == Blink(pins[(k + 1) \div 2])[1 + ((k + 1) % 2)]
             IN  s \in StatementSet /\ s.op = "write" /\ s.pin = pins[(k + 1) \div 2] /\ s.value = k % 2
  <2>1. k \in Nat /\ (k + 1) \div 2 \in 1..6
    OBVIOUS
  <2>2. pins[(k + 1) \div 2] \in Nat
    BY <2>1
  <2>. QED  BY <2>1, <2>2, BlinkFacts
<1>2. Blinks(pins) = [k \in 1..12 |-> Blink(pins[(k + 1) \div 2])[1 + ((k + 1) % 2)]]
  BY DEF Blinks, pinCount
<1>3. Blinks(pins) \in [1..12 -> StatementSet] /\ 12 \in Nat
  BY <1>1, <1>2
<1>4. Blinks(pins) \in Seq(StatementSet) /\ Len(Blinks(pins)) = 12
  BY <1>3, FunctionIsSeq
<1>. QED  BY <1>1, <1>2, <1>4

LEMMA WayFacts ==
  /\ Way \in Seq(StatementSet) /\ Len(Way) = 24
  /\ \A k \in 1..24 : Way[k].op = "write" /\ Way[k].value = k % 2 /\ Way[k].pin = PinAt(k)
  /\ \A k \in 1..24 : k % 2 = 0 => PinAt(k) = PinAt(k - 1)
  /\ \A k \in 1..24 : PinAt(k) \in PinNumbers
<1>. DEFINE back == [k \in 1..6 |-> ledPins[7 - k]]
<1>1. ledPins \in [1..6 -> Nat] /\ back \in [1..6 -> Nat]
  <2>1. ledPins \in [1..6 -> Nat]
    <3>1. DOMAIN ledPins = 1..6 /\ ledPins = [k \in 1..6 |-> ledPins[k]]
      BY DEF ledPins
    <3>2. \A k \in 1..6 : ledPins[k] \in Nat
      BY LedPinFacts DEF PinNumbers
    <3>. QED  BY <3>1, <3>2
  <2>2. \A k \in 1..6 : 7 - k \in 1..6
    OBVIOUS
  <2>. QED  BY <2>1, <2>2
<1>2. Forth = Blinks(ledPins) /\ Back = Blinks(back)
  BY DEF Forth, Back, pinCount
<1>3. /\ Forth \in Seq(StatementSet) /\ Len(Forth) = 12 /\ Back \in Seq(StatementSet) /\ Len(Back) = 12
  BY <1>1, <1>2, BlinksFacts
<1>4. /\ Way \in Seq(StatementSet) /\ Len(Way) = Len(Forth) + Len(Back)
      /\ \A k \in 1..(Len(Forth) + Len(Back)) :
           Way[k] = IF k <= Len(Forth) THEN Forth[k] ELSE Back[k - Len(Forth)]
  BY <1>3, ConcatProperties DEF Way
<1>5. /\ Len(Way) = 24
      /\ \A k \in 1..24 : Way[k] = IF k <= 12 THEN Forth[k] ELSE Back[k - 12]
  BY <1>3, <1>4
<1>6. ASSUME NEW k \in 1..24
      PROVE  Way[k].op = "write" /\ Way[k].value = k % 2 /\ Way[k].pin = PinAt(k)
  <2>1. CASE k <= 12
    <3>1. /\ Forth[k].op = "write" /\ Forth[k].value = k % 2
          /\ Forth[k].pin = ledPins[(k + 1) \div 2]
      <4>1. k \in 1..12
        BY <2>1
      <4>. QED  BY <4>1, <1>1, <1>2, BlinksFacts
    <3>. QED  BY <2>1, <3>1, <1>5 DEF PinAt
  <2>2. CASE k > 12
    <3>1. k - 12 \in 1..12 /\ (k - 12) % 2 = k % 2 /\ (k - 12 + 1) \div 2 = (k - 11) \div 2
          /\ (k - 11) \div 2 \in 1..6
      BY <2>2
    <3>2. /\ Back[k - 12].op = "write" /\ Back[k - 12].value = (k - 12) % 2
          /\ Back[k - 12].pin = back[(k - 12 + 1) \div 2]
      BY <3>1, <1>1, <1>2, BlinksFacts
    <3>. QED  BY <2>2, <3>1, <3>2, <1>5 DEF PinAt
  <2>. QED  BY <2>1, <2>2
<1>7. ASSUME NEW k \in 1..24, k % 2 = 0 PROVE PinAt(k) = PinAt(k - 1)
  <2>1. /\ k <= 12 => (k + 1) \div 2 = (k - 1 + 1) \div 2
        /\ k > 12 => k - 1 > 12 /\ (k - 11) \div 2 = (k - 1 - 11) \div 2
    BY <1>7
  <2>. QED  BY <2>1 DEF PinAt
<1>8. ASSUME NEW k \in 1..24 PROVE PinAt(k) \in PinNumbers
  <2>1. /\ k <= 12 => (k + 1) \div 2 \in 1..6
        /\ k > 12 => 7 - ((k - 11) \div 2) \in 1..6
    OBVIOUS
  <2>. QED  BY <2>1, LedPinFacts DEF PinAt
<1>. QED  BY <1>4, <1>5, <1>6, <1>7, <1>8

LEMMA WayEnds ==
  ASSUME NEW j \in 1..25
  PROVE  From(Way, 1) = Way /\ (From(Way, j) = <<>> <=> j = 25)
<1>. DEFINE n == Len(Way)
<1>1. Way \in Seq(StatementSet) /\ n = 24
  BY WayFacts
<1>. HIDE DEF n
<1>2. j \in 1..(n + 1) /\ 1 \in 1..(n + 1) /\ n + 1 = 25
  BY <1>1
<1>3. From(Way, 1) = Way /\ (From(Way, j) = <<>> <=> j = n + 1)
  BY <1>1, <1>2, FromMoves DEF n
<1>. QED  BY <1>2, <1>3

LEMMA ArrayRight == ArrayInv => OneLit
<1>. SUFFICES ASSUME ArrayInv, NEW j \in 1..6, NEW k \in 1..6,
                     pin[ledPins[j]] = 1, pin[ledPins[k]] = 1
              PROVE  j = k
  BY DEF OneLit, pinCount, HIGH
<1>1. ledPins[j] = ledPins[k]
  BY DEF ArrayInv
<1>. QED  BY <1>1, LedPinFacts

LEMMA ArrayInit == SketchInit => ArrayInv
<1>. SUFFICES ASSUME SketchInit PROVE ArrayInv
  OBVIOUS
<1>1. statements = <<>> /\ pin = [p \in PinNumbers |-> 0]
  BY DEF SketchInit, LOW
<1>2. pin \in [PinNumbers -> Bit]
  BY <1>1 DEF Bit
<1>3. statements = From(Way, 25)
  BY <1>1, WayEnds
<1>4. \A i \in 1..6 : pin[ledPins[i]] = 0
  BY <1>1, LedPinFacts
<1>. QED  BY <1>2, <1>3, <1>4 DEF ArrayInv

LEMMA ArrayStatement == ArrayInv /\ Statement => ArrayInv'
<1>. SUFFICES ASSUME ArrayInv, Statement PROVE ArrayInv'
  OBVIOUS
<1>1. PICK k \in 1..25 :
        /\ statements = From(Way, k)
        /\ \A i \in 1..6 : pin[ledPins[i]] = 1 => k % 2 = 0 /\ ledPins[i] = PinAt(k - 1)
  BY DEF ArrayInv
<1>2. k \in 1..24
  BY <1>1, WayEnds DEF Statement
<1>3. statements' = From(Way, k + 1) /\ pin' = [pin EXCEPT ![PinAt(k)] = IF k % 2 = 0 THEN 0 ELSE 1]
  <2>1. /\ Way \in Seq(StatementSet) /\ k \in 1..Len(Way)
        /\ Way[k].op = "write" /\ Way[k].pin = PinAt(k) /\ Way[k].value = k % 2
    BY <1>2, WayFacts
  <2>. QED  BY <1>1, <2>1, StatementWrites
<1>4. pin' \in [PinNumbers -> Bit]
  BY <1>3 DEF ArrayInv, Bit
<1>5. ASSUME NEW i \in 1..6, pin'[ledPins[i]] = 1
      PROVE  (k + 1) % 2 = 0 /\ ledPins[i] = PinAt(k + 1 - 1)
  <2>0. k % 2 \in {0, 1}
    BY <1>2
  <2>1. /\ PinAt(k) \in PinNumbers /\ ledPins[i] \in PinNumbers /\ k % 2 \in {0, 1}
        /\ k % 2 = 0 => PinAt(k) = PinAt(k - 1)
    BY <2>0, <1>2, WayFacts, LedPinFacts
  <2>2. ledPins[i] = PinAt(k) => k % 2 # 0
    BY <2>1, <1>3, <1>5 DEF ArrayInv
  <2>3. ledPins[i] # PinAt(k) => pin[ledPins[i]] = 1
    BY <2>1, <1>3, <1>5 DEF ArrayInv
  <2>4. ledPins[i] = PinAt(k)
    BY <2>1, <2>3, <1>1
  <2>5. (k + 1) % 2 = 0 /\ k + 1 - 1 = k
    BY <2>1, <2>2, <2>4, <1>2
  <2>. QED  BY <2>4, <2>5
<1>6. k + 1 \in 1..25
  BY <1>2
<1>. QED  BY <1>3, <1>4, <1>5, <1>6 DEF ArrayInv

LEMMA ArrayRuns == ArrayInv /\ RunAlong => ArrayInv'
<1>. SUFFICES ASSUME ArrayInv, RunAlong PROVE ArrayInv'
  OBVIOUS
<1>1. statements = <<>> /\ statements' = From(Way, 1) /\ UNCHANGED pin
  <2>1. From(Way, 1) = Way
    BY WayEnds
  <2>. QED  BY <2>1 DEF RunAlong, Way
<1>2. \A i \in 1..6 : pin[ledPins[i]] # 1
  <2>1. PICK k \in 1..25 :
          /\ statements = From(Way, k)
          /\ \A i \in 1..6 : pin[ledPins[i]] = 1 => k % 2 = 0 /\ ledPins[i] = PinAt(k - 1)
    BY DEF ArrayInv
  <2>2. k = 25
    BY <1>1, <2>1, WayEnds
  <2>. QED  BY <2>1, <2>2
<1>. QED  BY <1>1, <1>2 DEF ArrayInv

------------------------------------------------------------------------------
(* The potentiometer.  A setting is the n-th of a channel. *)
Turns == 2 * Levels
ChannelOf(k) == k \div Turns
PlaceOf(k) == k % Turns
NextOf(k) == (k + 1) % (2 * Levels * Channels)
Settings == 0..(2 * Levels * Channels - 1)

(* The wipers before a setting: that of its channel is at the setting
   before, and the others have come back to one or were never set. *)
Before(k) ==
  \A c \in 0..Channels :
    IF c = ChannelOf(k) /\ PlaceOf(k) > 0 THEN wiper[c] = LevelOf(PlaceOf(k) - 1)
                                          ELSE wiper[c] \in {-1, 1}

WordOf(k) == Setting(ChannelOf(k), LevelOf(PlaceOf(k)))

(* What the potentiometer has taken of a setting. *)
Shifting(k, j) ==
  /\ statements = From(WordOf(k), j)
  /\ j >= 2 => pin[slaveSelectPin] = LOW
  /\ j = 2 => shifted = <<>>
  /\ j = 3 => shifted = <<ChannelOf(k)>>
  /\ j = 4 => shifted = <<ChannelOf(k), LevelOf(PlaceOf(k))>>

PotInv ==
  /\ pin \in [PinNumbers -> Bit] /\ setting \in Settings
  /\ wiper \in [0..Channels -> Int]
  /\ \/ statements = <<>> /\ Before(setting)
     \/ \E k \in Settings, j \in 1..4 : setting = NextOf(k) /\ Before(k) /\ Shifting(k, j)

LEMMA SettingFacts ==
  ASSUME NEW k \in Settings
  PROVE  /\ ChannelOf(k) \in 0..(Channels - 1) /\ PlaceOf(k) \in 0..(Turns - 1)
         /\ Turns \in Nat /\ Turns >= 2 /\ k \in Nat
<1>1. /\ Channels \in Nat /\ Channels > 0 /\ Levels \in Nat /\ Levels > 0
      /\ Turns \in Nat /\ Turns >= 2 /\ 2 * Levels * Channels = Turns * Channels
  BY SketchAssumption DEF Turns
<1>. DEFINE c == ChannelOf(k)  n == PlaceOf(k)  W == Turns
<1>2. k \in Nat /\ k < W * Channels
  <2>. DEFINE M == 2 * Levels * Channels
  <2>1. M \in Nat /\ M = W * Channels
    BY <1>1
  <2>. HIDE DEF M, W
  <2>2. k \in 0..(M - 1)
    BY DEF Settings, M
  <2>. QED  BY <2>1, <2>2
<1>. HIDE DEF W
<1>3. c \in Nat /\ n \in 0..(W - 1) /\ k = W * c + n
  BY <1>1, <1>2, DivMod DEF ChannelOf, PlaceOf, W
<1>. HIDE DEF c, n
<1>4. c < Channels
  <2>1. ASSUME c >= Channels PROVE FALSE
    <3>1. W * c >= W * Channels
      BY <1>1, <1>3, <2>1 DEF W
    <3>2. W * c \in Nat /\ W * Channels \in Nat
      BY <1>1, <1>3 DEF W
    <3>. DEFINE a == W * c  b == W * Channels
    <3>. HIDE DEF a, b
    <3>. QED  BY <1>2, <1>3, <3>1, <3>2 DEF a, b
  <2>. QED  BY <2>1, <1>1, <1>3
<1>. QED  BY <1>1, <1>2, <1>3, <1>4 DEF c, n, W

LEMMA NextSetting ==
  ASSUME NEW k \in Settings
  PROVE  /\ NextOf(k) \in Settings
         /\ PlaceOf(k) + 1 < Turns =>
              ChannelOf(NextOf(k)) = ChannelOf(k) /\ PlaceOf(NextOf(k)) = PlaceOf(k) + 1
         /\ PlaceOf(k) + 1 = Turns => PlaceOf(NextOf(k)) = 0
<1>. DEFINE c == ChannelOf(k)  n == PlaceOf(k)  W == Turns  M == 2 * Levels * Channels
<1>1. /\ Channels \in Nat /\ Channels > 0 /\ W \in Nat /\ W >= 2 /\ M = W * Channels /\ M \in Nat
      /\ c \in 0..(Channels - 1) /\ n \in 0..(W - 1) /\ k \in Nat
  BY SketchAssumption, SettingFacts DEF Turns
<1>2. k = W * c + n
  BY <1>1, DivMod DEF ChannelOf, PlaceOf
<1>3. k < M /\ M > 0
  BY <1>1 DEF Settings
<1>4. NextOf(k) = IF k + 1 = M THEN 0 ELSE k + 1
  <2>. HIDE DEF M
  <2>. QED  BY <1>1, <1>3 DEF NextOf, M
<1>5. NextOf(k) \in Settings
  BY <1>1, <1>3, <1>4 DEF Settings
<1>. HIDE DEF c, n, W, M
<1>6. ASSUME n + 1 < W PROVE ChannelOf(NextOf(k)) = c /\ PlaceOf(NextOf(k)) = n + 1
  <2>1. k + 1 = W * c + (n + 1) /\ n + 1 \in 0..(W - 1) /\ k + 1 \in Nat
    <3>1. W * c \in Nat
      BY <1>1
    <3>. QED  BY <3>1, <1>1, <1>2, <1>6
  <2>2. k + 1 # M
    <3>1. W * Channels = W * c + W * (Channels - c) /\ W * (Channels - c) >= W
      <4>1. Channels - c \in Nat /\ Channels - c >= 1
        BY <1>1
      <4>2. W * (Channels - c) = W * Channels - W * c
        BY <1>1
      <4>3. W * (Channels - c) >= W * 1
        BY <1>1, <4>1
      <4>. QED  BY <1>1, <4>2, <4>3
    <3>. DEFINE a == W * c  b == W * (Channels - c)  d == W * Channels
    <3>2. a \in Int /\ b \in Int /\ d \in Int
      BY <1>1
    <3>. HIDE DEF a, b, d
    <3>. QED  BY <3>1, <3>2, <2>1, <1>1, <1>6 DEF a, b, d
  <2>3. NextOf(k) = k + 1
    BY <1>4, <2>2
  <2>. QED  BY <1>1, <2>1, <2>3, Quotient DEF ChannelOf, PlaceOf, W
<1>7. ASSUME n + 1 = W PROVE PlaceOf(NextOf(k)) = 0
  <2>1. CASE k + 1 = M
    <3>1. NextOf(k) = 0 /\ 0 = W * 0 + 0 /\ 0 \in 0..(W - 1)
      BY <1>1, <1>4, <2>1
    <3>. QED  BY <1>1, <3>1, Quotient DEF PlaceOf, W
  <2>2. CASE k + 1 # M
    <3>1. k + 1 = W * (c + 1) + 0 /\ c + 1 \in Nat /\ 0 \in 0..(W - 1) /\ NextOf(k) = k + 1
      <4>1. W * (c + 1) = W * c + W
        BY <1>1
      <4>2. W * c \in Nat
        BY <1>1
      <4>. QED  BY <4>1, <4>2, <1>1, <1>2, <1>4, <1>7, <2>2
    <3>. QED  BY <1>1, <3>1, Quotient DEF PlaceOf, W
  <2>. QED  BY <2>1, <2>2
<1>. QED  BY <1>5, <1>6, <1>7 DEF c, n, W

LEMMA LevelFacts ==
  ASSUME NEW n \in 0..(Turns - 1)
  PROVE  /\ LevelOf(n) \in 0..Levels
         /\ n = 0 => LevelOf(n) = 0
         /\ n > 0 => LevelOf(n) - LevelOf(n - 1) \in {-1, 1} /\ LevelOf(n - 1) \in 0..Levels
         /\ n + 1 = Turns => LevelOf(n) = 1
BY SketchAssumption DEF LevelOf, Turns

LEMMA WordFacts ==
  ASSUME NEW k \in Settings
  PROVE  /\ WordOf(k) \in Seq(StatementSet) /\ Len(WordOf(k)) = 4
         /\ WordOf(k)[1] = digitalWrite(slaveSelectPin, LOW)
         /\ WordOf(k)[2] = Transfer(ChannelOf(k))
         /\ WordOf(k)[3] = Transfer(LevelOf(PlaceOf(k)))
         /\ WordOf(k)[4] = digitalWrite(slaveSelectPin, HIGH)
<1>1. ChannelOf(k) \in Int /\ LevelOf(PlaceOf(k)) \in Int
  BY SettingFacts, LevelFacts, SketchAssumption
<1>. DEFINE c == ChannelOf(k)  l == LevelOf(PlaceOf(k))
<1>2. /\ digitalWrite(slaveSelectPin, LOW) \in StatementSet
      /\ digitalWrite(slaveSelectPin, HIGH) \in StatementSet
      /\ Transfer(c) \in StatementSet /\ Transfer(l) \in StatementSet
  BY <1>1 DEF digitalWrite, Transfer, StatementSet, slaveSelectPin, LOW, HIGH
<1>. QED  BY <1>2 DEF WordOf, Setting

LEMMA WordEnds ==
  ASSUME NEW k \in Settings, NEW j \in 1..5
  PROVE  /\ From(WordOf(k), 1) = WordOf(k) /\ (From(WordOf(k), j) = <<>> <=> j = 5)
         /\ j < 5 => /\ Head(From(WordOf(k), j)) = WordOf(k)[j]
                     /\ Tail(From(WordOf(k), j)) = From(WordOf(k), j + 1)
<1>. DEFINE w == WordOf(k)  n == Len(w)
<1>1. w \in Seq(StatementSet) /\ n = 4
  BY WordFacts
<1>. HIDE DEF w, n
<1>2. j \in 1..(n + 1) /\ 1 \in 1..(n + 1) /\ n + 1 = 5 /\ (j < 5 => j <= n)
  BY <1>1
<1>3. /\ From(w, 1) = w /\ (From(w, j) = <<>> <=> j = n + 1)
      /\ j <= n => Head(From(w, j)) = w[j] /\ Tail(From(w, j)) = From(w, j + 1)
  BY ZenonT(30), <1>1, <1>2, FromMoves DEF n
<1>. QED  BY <1>2, <1>3 DEF w

LEMMA PotInit == SketchInit => PotInv
<1>. SUFFICES ASSUME SketchInit PROVE PotInv
  OBVIOUS
<1>1. /\ statements = <<>> /\ pin = [p \in PinNumbers |-> 0] /\ setting = 0
      /\ wiper = [c \in 0..Channels |-> -1]
  BY DEF SketchInit, LOW
<1>2. pin \in [PinNumbers -> Bit] /\ wiper \in [0..Channels -> Int]
  BY <1>1 DEF Bit
<1>3. /\ 2 * Levels * Channels \in Nat /\ 2 * Levels * Channels > 0
      /\ Turns \in Nat /\ Turns > 0
  BY SketchAssumption DEF Turns
<1>4. setting \in Settings /\ PlaceOf(setting) = 0
  <2>. DEFINE M == 2 * Levels * Channels
  <2>1. 0 = Turns * 0 + 0 /\ 0 \in 0..(Turns - 1)
    BY <1>3
  <2>2. 0 % Turns = 0
    BY <1>3, <2>1, Quotient
  <2>. HIDE DEF M
  <2>3. 0 \in 0..(M - 1)
    BY <1>3 DEF M
  <2>. QED  BY <1>1, <2>2, <2>3 DEF Settings, PlaceOf, M
<1>5. Before(setting)
  BY <1>1, <1>4 DEF Before
<1>. QED  BY <1>1, <1>2, <1>4, <1>5 DEF PotInv

(* The statements of a setting: only the last one sets the wiper. *)
LEMMA PotByte ==
  ASSUME PotInv, Statement, NEW k \in Settings, NEW j \in 1..4, Shifting(k, j)
  PROVE  /\ pin' \in [PinNumbers -> Bit] /\ UNCHANGED setting
         /\ j < 4 => wiper' = wiper /\ Shifting(k, j + 1)'
         /\ j = 4 => /\ statements' = <<>>
                     /\ wiper' = [wiper EXCEPT ![ChannelOf(k)] = LevelOf(PlaceOf(k))]
<1>. DEFINE w == WordOf(k)  s == w[j]
<1>2. /\ statements' = From(w, j + 1) /\ UNCHANGED setting
      /\ IF s.op = "transfer"
           THEN /\ shifted' = IF pin[slaveSelectPin] = LOW THEN Append(shifted, s.value) ELSE shifted
                /\ UNCHANGED <<pin, wiper>>
           ELSE /\ pin' = [pin EXCEPT ![s.pin] = IF s.value = 0 THEN LOW ELSE HIGH]
                /\ shifted' = IF Selects(s) THEN <<>> ELSE shifted
                /\ wiper' = IF Deselects(s) /\ Len(shifted) = 2
                              THEN [wiper EXCEPT ![shifted[1]] = shifted[2]] ELSE wiper
  <2>1. statements = From(w, j) /\ Head(statements) = s /\ Tail(statements) = From(w, j + 1)
    <3>1. j \in 1..5 /\ j < 5 /\ statements = From(w, j)
      BY DEF Shifting
    <3>. QED  BY <3>1, WordEnds
  <2>. HIDE DEF s, w
  <2>. QED  BY <2>1 DEF Statement
<1>3. /\ pin \in [PinNumbers -> Bit] /\ 10 \in PinNumbers /\ setting \in Settings
      /\ wiper \in [0..Channels -> Int]
  BY DEF PotInv, PinNumbers
<1>4. CASE j \in 1..3
  <2>1. /\ pin' \in [PinNumbers -> Bit] /\ wiper' = wiper
        /\ pin'[slaveSelectPin] = LOW
        /\ j = 1 => shifted' = <<>>
        /\ j = 2 => shifted' = <<ChannelOf(k)>>
        /\ j = 3 => shifted' = <<ChannelOf(k), LevelOf(PlaceOf(k))>>
    <3>1. CASE j = 1
      <4>1. s = [op |-> "write", pin |-> 10, value |-> 0]
        BY <3>1, WordFacts DEF digitalWrite, slaveSelectPin, LOW
      <4>2. Selects(s) /\ ~Deselects(s)
        BY <4>1 DEF Selects, Deselects, slaveSelectPin, LOW, HIGH
      <4>. QED  BY <4>1, <4>2, <3>1, <1>2, <1>3 DEF slaveSelectPin, LOW, HIGH, Bit
    <3>2. CASE j = 2
      <4>1. s = [op |-> "transfer", pin |-> 0, value |-> ChannelOf(k)]
        BY <3>2, WordFacts DEF Transfer
      <4>2. pin[slaveSelectPin] = LOW /\ shifted = <<>>
        BY <3>2 DEF Shifting
      <4>3. Append(<<>>, ChannelOf(k)) = <<ChannelOf(k)>>
        OBVIOUS
      <4>. QED  BY <4>1, <4>2, <4>3, <3>2, <1>2, <1>3
    <3>3. CASE j = 3
      <4>1. s = [op |-> "transfer", pin |-> 0, value |-> LevelOf(PlaceOf(k))]
        BY <3>3, WordFacts DEF Transfer
      <4>2. pin[slaveSelectPin] = LOW /\ shifted = <<ChannelOf(k)>>
        BY <3>3 DEF Shifting
      <4>3. Append(<<ChannelOf(k)>>, LevelOf(PlaceOf(k))) = <<ChannelOf(k), LevelOf(PlaceOf(k))>>
        BY AppendToOne
      <4>. QED  BY <4>1, <4>2, <4>3, <3>3, <1>2, <1>3
    <3>. QED  BY <3>1, <3>2, <3>3, <1>4
  <2>2. j + 1 \in 2..4 /\ j < 4 /\ (j + 1 = 2 <=> j = 1) /\ (j + 1 = 3 <=> j = 2)
        /\ (j + 1 = 4 <=> j = 3)
    BY <1>4
  <2>3. Shifting(k, j + 1)'
    BY <2>1, <2>2, <1>2 DEF Shifting
  <2>. QED  BY <2>1, <2>2, <2>3, <1>2
<1>5. CASE j = 4
  <2>1. /\ statements' = <<>> /\ pin' \in [PinNumbers -> Bit]
        /\ wiper' = [wiper EXCEPT ![ChannelOf(k)] = LevelOf(PlaceOf(k))]
    <3>1. s = [op |-> "write", pin |-> 10, value |-> 1]
      BY <1>5, WordFacts DEF digitalWrite, slaveSelectPin, HIGH
    <3>2. /\ pin[slaveSelectPin] = LOW /\ shifted = <<ChannelOf(k), LevelOf(PlaceOf(k))>>
          /\ Len(shifted) = 2
      BY <1>5 DEF Shifting
    <3>3. Deselects(s)
      BY <3>1, <3>2 DEF Deselects, slaveSelectPin, HIGH
    <3>4. statements' = <<>>
      BY <1>2, <1>5, WordEnds
    <3>. QED  BY <3>1, <3>2, <3>3, <3>4, <1>2, <1>3 DEF slaveSelectPin, LOW, HIGH, Bit
  <2>. QED  BY <2>1, <1>2, <1>5
<1>. QED  BY <1>4, <1>5

LEMMA PotStatement == PotInv /\ Statement => PotInv'
<1>. SUFFICES ASSUME PotInv, Statement PROVE PotInv'
  OBVIOUS
<1>1. PICK k \in Settings, j \in 1..4 : setting = NextOf(k) /\ Before(k) /\ Shifting(k, j)
  BY DEF PotInv, Statement
<1>2. /\ pin' \in [PinNumbers -> Bit] /\ UNCHANGED setting
      /\ j < 4 => wiper' = wiper /\ Shifting(k, j + 1)'
      /\ j = 4 => /\ statements' = <<>>
                  /\ wiper' = [wiper EXCEPT ![ChannelOf(k)] = LevelOf(PlaceOf(k))]
  BY <1>1, PotByte
<1>3. setting \in Settings /\ wiper \in [0..Channels -> Int]
  BY DEF PotInv
<1>4. CASE j < 4
  <2>1. j + 1 \in 1..4 /\ Before(k)'
    BY <1>2, <1>1, <1>4 DEF Before
  <2>. QED  BY <2>1, <1>1, <1>2, <1>3, <1>4 DEF PotInv
<1>5. CASE j = 4
  <2>2. /\ ChannelOf(k) \in 0..Channels /\ LevelOf(PlaceOf(k)) \in Int /\ PlaceOf(k) \in 0..(Turns - 1)
        /\ Turns \in Nat
    BY SettingFacts, LevelFacts, SketchAssumption
  <2>1. wiper' = [wiper EXCEPT ![ChannelOf(k)] = LevelOf(PlaceOf(k))] /\ statements' = <<>>
    BY <1>2, <1>5
  <2>3. wiper' \in [0..Channels -> Int]
    BY <2>1, <2>2, <1>3
  <2>4. Before(setting)'
    <3>1. ASSUME NEW c \in 0..Channels
          PROVE  IF c = ChannelOf(setting) /\ PlaceOf(setting) > 0
                   THEN wiper'[c] = LevelOf(PlaceOf(setting) - 1) ELSE wiper'[c] \in {-1, 1}
      <4>1. CASE PlaceOf(k) + 1 < Turns
        <5>1. /\ ChannelOf(setting) = ChannelOf(k) /\ PlaceOf(setting) - 1 = PlaceOf(k)
              /\ PlaceOf(setting) > 0
          BY <4>1, <1>1, <2>2, NextSetting
        <5>. QED  BY <5>1, <2>1, <2>2, <1>1, <1>3 DEF Before
      <4>2. CASE PlaceOf(k) + 1 = Turns
        <5>1. PlaceOf(setting) = 0 /\ LevelOf(PlaceOf(k)) = 1
          BY <4>2, <1>1, <2>2, NextSetting, LevelFacts
        <5>. QED  BY <5>1, <2>1, <2>2, <1>1, <1>3 DEF Before
      <4>. QED  BY <4>1, <4>2, <2>2
    <3>2. setting' = setting
      BY <1>2
    <3>. QED  BY <3>1, <3>2 DEF Before
  <2>. QED  BY <2>1, <2>3, <2>4, <1>2, <1>3 DEF PotInv
<1>6. j < 4 \/ j = 4
  OBVIOUS
<1>. QED  BY <1>4, <1>5, <1>6

LEMMA PotSets == PotInv /\ digitalPotWrite => PotInv'
<1>. SUFFICES ASSUME PotInv, digitalPotWrite PROVE PotInv'
  OBVIOUS
<1>1. /\ statements = <<>> /\ statements' = WordOf(setting) /\ setting' = NextOf(setting)
      /\ UNCHANGED <<pin, wiper, shifted>>
  BY DEF digitalPotWrite, WordOf, ChannelOf, PlaceOf, Turns, NextOf
<1>2. Before(setting) /\ setting \in Settings
  <2>1. ASSUME NEW k \in Settings, NEW j \in 1..4, Shifting(k, j) PROVE FALSE
    BY <1>1, <2>1, WordEnds DEF Shifting
  <2>. QED  BY <2>1 DEF PotInv
<1>. PICK k \in Settings : k = setting
  BY <1>2
<1>3. setting' = NextOf(k) /\ setting' \in Settings
  BY <1>1, NextSetting
<1>4. Before(k)'
  BY <1>1, <1>2 DEF Before
<1>5. Shifting(k, 1)'
  BY <1>1, WordEnds DEF Shifting
<1>. QED  BY <1>1, <1>3, <1>4, <1>5 DEF PotInv

(* A step that sets a wiper sets it by one. *)
LEMMA WiperByOne ==
  ASSUME PotInv, Statement
  PROVE  \A c \in DOMAIN wiper :
           wiper'[c] # wiper[c] =>
             /\ wiper'[c] \in 0..Levels
             /\ IF wiper[c] = -1 THEN wiper'[c] = 0 ELSE wiper'[c] - wiper[c] \in {-1, 1}
             /\ \A d \in DOMAIN wiper \ {c} : wiper'[d] = wiper[d]
<1>1. PICK k \in Settings, j \in 1..4 : setting = NextOf(k) /\ Before(k) /\ Shifting(k, j)
  BY DEF PotInv, Statement
<1>2. /\ j < 4 => wiper' = wiper
      /\ j = 4 => wiper' = [wiper EXCEPT ![ChannelOf(k)] = LevelOf(PlaceOf(k))]
  BY <1>1, PotByte
<1>3. CASE wiper' = wiper
  BY <1>3
<1>4. CASE wiper' = [wiper EXCEPT ![ChannelOf(k)] = LevelOf(PlaceOf(k))]
  <2>. DEFINE c == ChannelOf(k)  l == LevelOf(PlaceOf(k))
  <2>1. /\ c \in 0..Channels /\ wiper \in [0..Channels -> Int] /\ l \in 0..Levels
        /\ Levels \in Nat /\ PlaceOf(k) \in 0..(Turns - 1) /\ Turns \in Nat
    BY SettingFacts, LevelFacts, SketchAssumption DEF PotInv
  <2>2. wiper'[c] = l /\ \A d \in 0..Channels : d # c => wiper'[d] = wiper[d]
    BY <1>4, <2>1
  <2>3. IF wiper[c] = -1 THEN wiper'[c] = 0 ELSE wiper'[c] - wiper[c] \in {-1, 1}
    <3>1. CASE PlaceOf(k) > 0
      <4>1. wiper[c] = LevelOf(PlaceOf(k) - 1)
        BY <1>1, <2>1, <3>1 DEF Before
      <4>2. l - LevelOf(PlaceOf(k) - 1) \in {-1, 1} /\ LevelOf(PlaceOf(k) - 1) \in 0..Levels
        BY <2>1, <3>1, LevelFacts
      <4>. QED  BY <4>1, <4>2, <2>1, <2>2
    <3>2. CASE PlaceOf(k) = 0
      <4>1. wiper[c] \in {-1, 1} /\ l = 0
        BY <1>1, <2>1, <3>2, LevelFacts DEF Before
      <4>. QED  BY <4>1, <2>2
    <3>. QED  BY <3>1, <3>2, <2>1
  <2>. HIDE DEF c, l
  <2>. QED  BY <2>1, <2>2, <2>3
<1>5. j < 4 \/ j = 4
  OBVIOUS
<1>. QED  BY <1>2, <1>3, <1>4, <1>5

------------------------------------------------------------------------------
(* Each of the sketches, while it is loaded. *)
SketchInv ==
  /\ Runs("follower") => FollowInv
  /\ Runs("switch") => SwitchInv
  /\ Runs("arrays") => ArrayInv
  /\ IF Runs("potentiometer") THEN PotInv ELSE shifted = <<>>
  /\ image \notin {"follower", "switch", "arrays", "potentiometer"} => statements = <<>>

LEMMA SketchInitInv == SketchInit => SketchInv
<1>1. SketchInit => shifted = <<>> /\ statements = <<>>
  BY DEF SketchInit
<1>. QED  BY <1>1, FollowInit, SwitchInit, ArrayInit, PotInit DEF SketchInv

(* The other sketches write pins and do not shift a byte, and so they leave
   the wipers alone though they write the pin of the selection. *)
LEMMA OnlyWrites ==
  ASSUME SketchInv, ~Runs("potentiometer"), Statement
  PROVE  shifted' = <<>> /\ wiper' = wiper
<1>1. Head(statements).op = "write"
  <2>1. CASE Runs("follower")
    <3>1. PICK l \in Bit, r \in Bit, b \in Int, j \in 1..6 : Passing(l, r, b, j)
      BY <2>1 DEF SketchInv, FollowInv
    <3>. DEFINE w == Pass(l, r, b)
    <3>2. w \in Seq(StatementSet) /\ Len(w) = 5 /\ j \in 1..5 /\ w[j].op = "write"
          /\ statements = From(w, j)
      <4>1. j # 6
        BY <3>1, PassEnds DEF Passing, Statement
      <4>2. j \in 1..5
        BY <4>1
      <4>. QED  BY <3>1, <4>2, PassFacts DEF Passing
    <3>. HIDE DEF w
    <3>3. j \in 1..(Len(w) + 1) /\ j <= Len(w)
      BY <3>2
    <3>. QED  BY <3>2, <3>3, FromMoves
  <2>2. CASE Runs("switch")
    <3>1. ASSUME NEW c \in Letters, Lighting(c) PROVE Head(statements).op = "write"
      BY <3>1 DEF Lighting, digitalWrite
    <3>2. ASSUME NEW j \in 1..5, PuttingOut(j) PROVE Head(statements).op = "write"
      <4>1. /\ AllOff \in Seq(StatementSet) /\ Len(AllOff) = 5 /\ statements = From(AllOff, j)
            /\ AllOff[j].op = "write"
        BY <3>2, AllOffFacts DEF PuttingOut
      <4>2. j \in 1..(Len(AllOff) + 1) /\ j <= Len(AllOff)
        BY <4>1
      <4>. QED  BY <4>1, <4>2, FromMoves
    <3>. QED  BY <2>2, <3>1, <3>2 DEF SketchInv, SwitchInv, AtRest, Statement
  <2>3. CASE Runs("arrays")
    <3>1. PICK k \in 1..25 : statements = From(Way, k)
      BY <2>3 DEF SketchInv, ArrayInv
    <3>2. k \in 1..24
      BY <3>1, WayEnds DEF Statement
    <3>3. Way \in Seq(StatementSet) /\ Len(Way) = 24 /\ Way[k].op = "write"
      BY <3>2, WayFacts
    <3>4. k \in 1..(Len(Way) + 1) /\ k <= Len(Way)
      BY <3>2, <3>3
    <3>. QED  BY ZenonT(30), <3>1, <3>3, <3>4, FromMoves
  <2>4. CASE image \notin {"follower", "switch", "arrays"}
    BY <2>4 DEF SketchInv, Statement, Runs
  <2>. QED  BY <2>1, <2>2, <2>3, <2>4 DEF Runs
<1>2. shifted = <<>> /\ Len(shifted) # 2
  BY DEF SketchInv
<1>. QED  BY <1>1, <1>2 DEF Statement

LEMMA SketchStep == SketchInv /\ [SketchNext]_sketchVars => SketchInv'
<1>. SUFFICES ASSUME SketchInv, [SketchNext]_sketchVars PROVE SketchInv'
  OBVIOUS
<1>0. image' = image
  BY DEF SketchNext, sketchVars
<1>1. CASE UNCHANGED sketchVars
  <2>1. FollowInv => FollowInv'
    BY <1>1 DEF sketchVars, FollowInv, FollowTypes, Passing, Sensed, Drives4
  <2>2. SwitchInv => SwitchInv'
    BY <1>1 DEF sketchVars, SwitchInv, SwitchTypes, AtRest, Shows, Lit, Lighting, PuttingOut
  <2>3. ArrayInv => ArrayInv'
    BY <1>1 DEF sketchVars, ArrayInv
  <2>4. PotInv => PotInv'
    BY <1>1 DEF sketchVars, PotInv, Before, Shifting
  <2>5. UNCHANGED <<shifted, statements>>
    BY <1>1 DEF sketchVars
  <2>. QED  BY <2>1, <2>2, <2>3, <2>4, <2>5, <1>0 DEF SketchInv, Runs
<1>2. CASE SketchNext
  <2>1. ASSUME Runs("follower") PROVE FollowInv'
    <3>1. Statement \/ FollowLine \/ SensorChanges
      BY <1>2, <2>1 DEF SketchNext, Sketch, SwitchLeds, digitalPotWrite, RunAlong, Types, Runs
    <3>. QED  BY <3>1, <2>1, FollowStatement, FollowReads, FollowSees DEF SketchInv
  <2>2. ASSUME Runs("switch") PROVE SwitchInv'
    <3>1. Statement \/ SwitchLeds \/ Types
      BY <1>2, <2>2 DEF SketchNext, Sketch, FollowLine, SensorChanges, digitalPotWrite, RunAlong, Runs
    <3>. QED  BY <3>1, <2>2, SwitchStatement, SwitchReads, SwitchTyped DEF SketchInv
  <2>3. ASSUME Runs("arrays") PROVE ArrayInv'
    <3>1. Statement \/ RunAlong
      BY <1>2, <2>3 DEF SketchNext, Sketch, FollowLine, SensorChanges, digitalPotWrite,
                        SwitchLeds, Types, Runs
    <3>. QED  BY <3>1, <2>3, ArrayStatement, ArrayRuns DEF SketchInv
  <2>4. ASSUME Runs("potentiometer") PROVE PotInv'
    <3>1. Statement \/ digitalPotWrite
      BY <1>2, <2>4 DEF SketchNext, Sketch, FollowLine, SensorChanges, RunAlong, SwitchLeds, Types, Runs
    <3>. QED  BY <3>1, <2>4, PotStatement, PotSets DEF SketchInv
  <2>5. ASSUME ~Runs("potentiometer") PROVE shifted' = <<>>
    <3>1. CASE Statement
      BY <2>5, <3>1, OnlyWrites
    <3>2. CASE ~Statement
      BY <1>2, <2>5, <3>2
         DEF SketchNext, Sketch, FollowLine, SensorChanges, RunAlong, SwitchLeds, Types,
             digitalPotWrite, SketchInv
    <3>. QED  BY <3>1, <3>2
  <2>6. ASSUME image \notin {"follower", "switch", "arrays", "potentiometer"} PROVE FALSE
    BY <1>2, <2>6 DEF SketchNext, Sketch, Statement, FollowLine, SensorChanges, RunAlong,
                      SwitchLeds, Types,
                      digitalPotWrite, SketchInv, Runs
  <2>. QED  BY <2>1, <2>2, <2>3, <2>4, <2>5, <2>6, <1>0 DEF SketchInv, Runs
<1>. QED  BY <1>1, <1>2

(* Only the statements of the potentiometer move a wiper. *)
LEMMA WipersMove ==
  ASSUME SketchInv, [SketchNext]_sketchVars
  PROVE  [\A c \in DOMAIN wiper :
            wiper'[c] # wiper[c] =>
              /\ wiper'[c] \in 0..Levels
              /\ IF wiper[c] = -1 THEN wiper'[c] = 0 ELSE wiper'[c] - wiper[c] \in {-1, 1}
              /\ \A d \in DOMAIN wiper \ {c} : wiper'[d] = wiper[d]]_wiper
<1>1. CASE Statement /\ Runs("potentiometer")
  BY <1>1, WiperByOne DEF SketchInv
<1>2. CASE Statement /\ ~Runs("potentiometer")
  BY <1>2, OnlyWrites
<1>3. CASE ~Statement
  BY <1>3 DEF SketchNext, Sketch, FollowLine, SensorChanges, RunAlong, SwitchLeds, Types,
              digitalPotWrite, sketchVars
<1>. QED  BY <1>1, <1>2, <1>3

LEMMA SketchesRight == SketchInv => MotorsFollow /\ LedsFollowText /\ OneLit
BY FollowRight, SwitchRight, ArrayRight DEF SketchInv, MotorsFollow, LedsFollowText, OneLit

------------------------------------------------------------------------------
(* The two-wire sketches.  What is printed of a pass are the first bytes of
   those that were written, and what came and is not yet printed are the
   next ones. *)
FirstOf(w, k) == [i \in 1..k |-> w[i]]

LEMMA WireFacts ==
  ASSUME NEW p \in 1..2
  PROVE  /\ Location[p] \in {2, 32} /\ WireBytes[p] \in Seq(Int) /\ Len(WireBytes[p]) = 8
         /\ 3 - p \in 1..2
<1>1. [i \in 1..8 |-> 17 * i] \in Seq(Int) /\ [i \in 1..8 |-> i] \in Seq(Int)
      /\ Len([i \in 1..8 |-> 17 * i]) = 8 /\ Len([i \in 1..8 |-> i]) = 8
  OBVIOUS
<1>2. p = 1 \/ p = 2
  OBVIOUS
<1>3. /\ WireBytes[1] = [i \in 1..8 |-> 17 * i] /\ WireBytes[2] = [i \in 1..8 |-> i]
      /\ Location[1] = 2 /\ Location[2] = 32
  BY DEF Location, WireBytes
<1>4. \A q \in 1..2 : WireBytes[q] \in Seq(Int) /\ Len(WireBytes[q]) = 8
  <2>1. WireBytes[1] \in Seq(Int) /\ Len(WireBytes[1]) = 8
    BY <1>1, <1>3, Zenon
  <2>2. WireBytes[2] \in Seq(Int) /\ Len(WireBytes[2]) = 8
    BY <1>1, <1>3, Zenon
  <2>. QED  BY <2>1, <2>2, <1>2
<1>. QED  BY <1>2, <1>3, <1>4

LEMMA FirstsGrow ==
  ASSUME NEW w \in Seq(Int), NEW n \in 0..Len(w), NEW k \in 0..n
  PROVE  /\ FirstOf(w, 0) = <<>> /\ IsPrefix(FirstOf(w, k), w)
         /\ From(FirstOf(w, n), k + 1) = <<>> <=> k = n
         /\ From(FirstOf(w, n), 1) = FirstOf(w, n)
         /\ k < n => /\ Append(FirstOf(w, k), Head(From(FirstOf(w, n), k + 1))) = FirstOf(w, k + 1)
                     /\ Tail(From(FirstOf(w, n), k + 1)) = From(FirstOf(w, n), k + 2)
<1>1. /\ n \in Nat /\ k \in Nat /\ k <= n /\ n <= Len(w) /\ Len(w) \in Nat
      /\ \A i \in 1..Len(w) : w[i] \in Int
  BY LenProperties
<1>2. \A m \in 0..Len(w) : FirstOf(w, m) \in Seq(Int) /\ Len(FirstOf(w, m)) = m
                           /\ \A i \in 1..m : FirstOf(w, m)[i] = w[i]
  BY <1>1 DEF FirstOf
<1>3. FirstOf(w, 0) = <<>>
  BY <1>2
<1>4. IsPrefix(FirstOf(w, k), w)
  <2>1. SubSeq(FirstOf(w, k), 1, Len(FirstOf(w, k))) = [i \in 1..k |-> w[i]]
    BY <1>1, <1>2
  <2>2. SubSeq(w, 1, Len(FirstOf(w, k))) = [i \in 1..k |-> w[i]]
    BY <1>1, <1>2
  <2>. QED  BY <2>1, <2>2, <1>1, <1>2 DEF IsPrefix
<1>. DEFINE f == FirstOf(w, n)
<1>5. f \in Seq(Int) /\ Len(f) = n /\ k + 1 \in 1..(Len(f) + 1) /\ 1 \in 1..(Len(f) + 1)
  BY <1>1, <1>2
<1>. HIDE DEF f
<1>6. /\ From(f, 1) = f
      /\ From(f, k + 1) = <<>> <=> k + 1 = Len(f) + 1
      /\ k + 1 <= Len(f) => Head(From(f, k + 1)) = f[k + 1] /\ Tail(From(f, k + 1)) = From(f, (k + 1) + 1)
  BY <1>5, FromMoves, Zenon
<1>7. ASSUME k < n
      PROVE  /\ Append(FirstOf(w, k), Head(From(f, k + 1))) = FirstOf(w, k + 1)
             /\ Tail(From(f, k + 1)) = From(f, k + 2)
  <2>1. k + 1 <= Len(f) /\ k + 1 \in 1..n /\ (k + 1) + 1 = k + 2 /\ k + 1 \in 0..Len(w)
    BY <1>1, <1>5, <1>7
  <2>2. Head(From(f, k + 1)) = w[k + 1] /\ Tail(From(f, k + 1)) = From(f, k + 2)
    <3>1. f[k + 1] = w[k + 1]
      BY <2>1, <1>1, <1>2 DEF f
    <3>. QED  BY <3>1, <2>1, <1>6
  <2>3. Append(FirstOf(w, k), w[k + 1]) = FirstOf(w, k + 1)
    <3>. DEFINE u == FirstOf(w, k)  y == w[k + 1]
    <3>1. u \in Seq(Int) /\ y \in Int /\ Len(u) = k
      <4>1. k \in 0..Len(w) /\ k + 1 \in 1..Len(w)
        BY <1>1, <2>1
      <4>. QED  BY <4>1, <1>1, <1>2
    <3>. HIDE DEF u, y
    <3>2. Append(u, y) \in Seq(Int) /\ Len(Append(u, y)) = k + 1
          /\ Append(u, y)[k + 1] = y /\ \A i \in 1..k : Append(u, y)[i] = u[i]
      BY <3>1, <1>1, AppendEnds
    <3>3. \A i \in 1..(k + 1) : Append(u, y)[i] = w[i]
      <4>1. \A i \in 1..k : u[i] = w[i]
        BY k \in 0..Len(w), <1>1, <1>2 DEF u
      <4>. QED  BY <4>1, <3>2, <1>1 DEF y
    <3>4. Append(u, y) = [i \in 1..(k + 1) |-> Append(u, y)[i]]
      <4>1. \A q \in Seq(Int) : q = [i \in 1..Len(q) |-> q[i]]
        OBVIOUS
      <4>2. Append(u, y) = [i \in 1..Len(Append(u, y)) |-> Append(u, y)[i]]
        BY <4>1, <3>2, Zenon
      <4>. QED  BY ONLY <4>2, <3>2
    <3>5. Append(u, y) = [i \in 1..(k + 1) |-> w[i]]
      BY ONLY <3>3, <3>4
    <3>. QED  BY <3>5 DEF FirstOf, u, y
  <2>. QED  BY <2>2, <2>3
<1>8. From(f, k + 1) = <<>> <=> k = n
  BY <1>6, <1>5, <1>1
<1>. QED  BY <1>3, <1>4, <1>6, <1>7, <1>8, Zenon DEF f

WireTypes ==
  /\ port \in 1..2
  /\ wireStep \in {"write", "pointer", "request", "print", "end"}
  /\ wireMem \in [1..2 -> [Cells -> Int]] /\ mem_adr \in [1..2 -> Int]
  /\ cut \in BOOLEAN /\ cuts \in Nat

(* Unless a transmission of this pass was cut, the memory holds the bytes
   of this pass, and its location is that of the first one at the read. *)
Holds == \A i \in 1..8 : wireMem[port][Location[port] + i - 1] = WireBytes[port][i]

WireInv ==
  /\ WireTypes
  /\ wireStep \in {"write", "pointer", "request"} => wirePrinted = <<>>
  /\ ~cut =>
       /\ wireStep \in {"pointer", "request"} => Holds
       /\ wireStep = "request" => mem_adr[port] = Location[port]
       /\ wireStep \in {"print", "end"} =>
            \E n \in 0..8 : \E k \in 0..n :
              /\ wirePrinted = FirstOf(WireBytes[port], k)
              /\ wireStep = "print" => received = From(FirstOf(WireBytes[port], n), k + 1)

LEMMA WireInitInv == WireInit => WireInv
<1>. SUFFICES ASSUME WireInit PROVE WireInv
  OBVIOUS
<1>1. wireMem \in [1..2 -> [Cells -> Int]] /\ mem_adr \in [1..2 -> Int]
  <2>1. [a \in Cells |-> 0] \in [Cells -> Int]
    OBVIOUS
  <2>. QED  BY <2>1 DEF WireInit
<1>2. port = 1 /\ wireStep = "write" /\ wirePrinted = <<>> /\ cut = FALSE /\ cuts = 0
  BY DEF WireInit
<1>3. cut \in BOOLEAN /\ cuts \in Nat /\ port \in 1..2
  <2>1. cut \in BOOLEAN
    BY <1>2, Zenon
  <2>. QED  BY <1>2, <2>1
<1>4. WireTypes
  BY <1>1, <1>2, <1>3 DEF WireTypes
<1>. QED  BY <1>2, <1>4 DEF WireInv

LEMMA WireReads == WireInv => ReadBack
<1>. SUFFICES ASSUME WireInv, ~cut PROVE IsPrefix(wirePrinted, WireBytes[port])
  BY DEF ReadBack
<1>1. port \in 1..2 /\ WireBytes[port] \in Seq(Int) /\ Len(WireBytes[port]) = 8
  BY WireFacts DEF WireInv, WireTypes
<1>2. PICK k \in 0..8 : wirePrinted = FirstOf(WireBytes[port], k)
  <2>1. CASE wireStep \in {"write", "pointer", "request"}
    <3>1. wirePrinted = <<>> /\ 0 \in 0..8 /\ 0 \in 0..Len(WireBytes[port])
      BY <2>1, <1>1 DEF WireInv
    <3>. QED  BY <3>1, <1>1, FirstsGrow
  <2>2. CASE wireStep \in {"print", "end"}
    BY <2>2 DEF WireInv
  <2>. QED  BY <2>1, <2>2 DEF WireInv, WireTypes
<1>3. k \in 0..Len(WireBytes[port]) /\ Len(WireBytes[port]) \in 0..Len(WireBytes[port])
  BY <1>1
<1>. QED  BY <1>1, <1>2, <1>3, FirstsGrow

(* A transmission that was not cut. *)
LEMMA TransmitsAll ==
  ASSUME WireTypes, NEW bytes \in Seq(Int), Len(bytes) > 0, Transmit(bytes)
  PROVE  /\ wireMem' \in [1..2 -> [Cells -> Int]] /\ mem_adr' \in [1..2 -> Int]
         /\ cut' \in BOOLEAN /\ cuts' \in Nat
         /\ ~cut' => /\ ~cut
                     /\ wireMem'[port] = Stored(bytes)
                     /\ mem_adr'[port] = bytes[1] + Len(bytes) - 1
<1>1. Len(bytes) \in Nat /\ \A i \in 1..Len(bytes) : bytes[i] \in Int
  BY LenProperties
<1>2. PICK n \in 0..Len(bytes) :
        /\ IF n = 0 THEN UNCHANGED <<wireMem, mem_adr>>
           ELSE /\ wireMem' = [wireMem EXCEPT ![port] = Stored(SubSeq(bytes, 1, n))]
                /\ mem_adr' = [mem_adr EXCEPT ![port] = bytes[1] + n - 1]
        /\ cut' = (cut \/ n < Len(bytes))
        /\ cuts' = IF n < Len(bytes) THEN cuts + 1 ELSE cuts
  BY <1>1 DEF Transmit
<1>3. cut' \in BOOLEAN /\ cuts' \in Nat
  BY <1>2 DEF WireTypes
<1>4. mem_adr' \in [1..2 -> Int]
  BY <1>1, <1>2 DEF WireTypes
<1>5. ASSUME n # 0 PROVE Stored(SubSeq(bytes, 1, n)) \in [Cells -> Int]
  <2>. DEFINE s == SubSeq(bytes, 1, n)
  <2>1. s \in Seq(Int) /\ Len(s) = n /\ n \in Nat /\ n > 0
    BY <1>1, <1>5, SubSeqProperties
  <2>. HIDE DEF s
  <2>2. \A i \in 1..n : s[i] \in Int
    BY <2>1
  <2>3. s[1] \in Int
    BY <2>1, <2>2
  <2>4. \A a \in Int : a \in s[1]..(s[1] + Len(s) - 2) => a - s[1] + 2 \in 1..n
    BY <2>1, <2>3
  <2>5. \A a \in Cells : a \in Int /\ wireMem[port][a] \in Int
    <3>1. Cells \subseteq Int
      BY DEF Cells, Size8
    <3>. QED  BY <3>1 DEF WireTypes
  <2>. QED  BY <2>2, <2>4, <2>5 DEF Stored, s
<1>6. wireMem' \in [1..2 -> [Cells -> Int]]
  BY <1>2, <1>5 DEF WireTypes
<1>7. ASSUME ~cut' PROVE ~cut /\ n = Len(bytes)
  <2>1. ~(n < Len(bytes)) /\ ~cut
    BY <1>7, <1>2, Zenon
  <2>. QED  BY <2>1, <1>1
<1>8. ASSUME n = Len(bytes) PROVE SubSeq(bytes, 1, n) = bytes
  BY <1>8, <1>1
<1>9. ASSUME n = Len(bytes)
      PROVE  wireMem'[port] = Stored(bytes) /\ mem_adr'[port] = bytes[1] + Len(bytes) - 1
  <2>1. n # 0
    BY <1>9, <1>1
  <2>2. /\ wireMem' = [wireMem EXCEPT ![port] = Stored(bytes)]
        /\ mem_adr' = [mem_adr EXCEPT ![port] = bytes[1] + Len(bytes) - 1]
    BY <1>2, <1>8, <1>9, <2>1
  <2>. QED  BY <2>2 DEF WireTypes
<1>. QED  BY <1>3, <1>4, <1>6, <1>7, <1>9

LEMMA MemoryWritten == ASSUME WireInv, WriteMemory PROVE WireInv'
<1>. DEFINE L == Location[port]  B == WireBytes[port]  bytes == <<L>> \o B
<1>1. port \in 1..2 /\ L \in {2, 32} /\ B \in Seq(Int) /\ Len(B) = 8 /\ WireTypes
  BY WireFacts DEF WireInv, WireTypes
<1>2. UNCHANGED <<port, received, wirePrinted>> /\ wireStep' = "pointer" /\ Transmit(bytes)
      /\ wirePrinted = <<>>
  BY DEF WriteMemory, WireStep, WireInv
<1>. HIDE DEF L, B
<1>3. bytes \in Seq(Int) /\ Len(bytes) = 9 /\ bytes[1] = L /\ \A i \in 1..8 : bytes[i + 1] = B[i]
  <2>1. <<L>> \in Seq(Int) /\ Len(<<L>>) = 1 /\ <<L>>[1] = L
    BY <1>1
  <2>2. bytes \in Seq(Int) /\ Len(bytes) = 1 + 8
    <3>1. bytes \in Seq(Int) /\ Len(bytes) = Len(<<L>>) + Len(B)
      BY <2>1, <1>1, ConcatProperties
    <3>. QED  BY <3>1, <2>1, <1>1
  <2>4. bytes[1] = L
    BY <2>1, <1>1
  <2>3. \A i \in 1..8 : bytes[i + 1] = B[i + 1 - 1]
    BY <2>1, <2>2, <1>1, ConcatProperties
  <2>5. \A i \in 1..8 : i + 1 - 1 = i
    OBVIOUS
  <2>6. \A i \in 1..8 : bytes[i + 1] = B[i]
    BY <2>3, <2>5
  <2>. QED  BY <2>2, <2>4, <2>6
<1>. HIDE DEF bytes
<1>4. /\ wireMem' \in [1..2 -> [Cells -> Int]] /\ mem_adr' \in [1..2 -> Int]
      /\ cut' \in BOOLEAN /\ cuts' \in Nat
      /\ ~cut' => wireMem'[port] = Stored(bytes)
  <2>1. Len(bytes) > 0
    BY <1>3
  <2>. QED  BY <1>1, <1>2, <1>3, <2>1, TransmitsAll
<1>5. WireTypes'
  BY <1>1, <1>2, <1>4 DEF WireTypes
<1>6. ASSUME ~cut', NEW i \in 1..8 PROVE wireMem'[port][L + i - 1] = B[i]
  <2>. DEFINE a == L + i - 1
  <2>1. a \in Cells /\ a \in L..(L + 9 - 2) /\ a - L + 2 = i + 1
    BY <1>1 DEF Cells, Size8
  <2>. HIDE DEF a
  <2>2. Stored(bytes)[a] = bytes[a - L + 2]
    BY <2>1, <1>3 DEF Stored
  <2>. QED  BY <2>1, <2>2, <1>3, <1>4, <1>6 DEF a
<1>7. ~cut' => Holds'
  BY <1>2, <1>6 DEF Holds, L, B
<1>. QED  BY <1>2, <1>5, <1>7 DEF WireInv

LEMMA PointerReset == ASSUME WireInv, ResetPointer PROVE WireInv'
<1>. DEFINE L == Location[port]  B == WireBytes[port]  bytes == <<L>>
<1>1. port \in 1..2 /\ L \in {2, 32} /\ WireTypes
  BY WireFacts DEF WireInv, WireTypes
<1>2. UNCHANGED <<port, received, wirePrinted>> /\ wireStep' = "request" /\ Transmit(bytes)
      /\ wirePrinted = <<>> /\ wireStep = "pointer"
  BY DEF ResetPointer, WireStep, WireInv
<1>. HIDE DEF L, B
<1>3. bytes \in Seq(Int) /\ Len(bytes) = 1 /\ bytes[1] = L
  BY <1>1
<1>. HIDE DEF bytes
<1>4. /\ wireMem' \in [1..2 -> [Cells -> Int]] /\ mem_adr' \in [1..2 -> Int]
      /\ cut' \in BOOLEAN /\ cuts' \in Nat
      /\ ~cut' => /\ ~cut /\ wireMem'[port] = Stored(bytes)
                  /\ mem_adr'[port] = bytes[1] + Len(bytes) - 1
  <2>1. Len(bytes) > 0
    BY <1>3
  <2>. QED  BY <1>1, <1>2, <1>3, <2>1, TransmitsAll
<1>5. WireTypes'
  BY <1>1, <1>2, <1>4 DEF WireTypes
<1>6. Stored(bytes) = wireMem[port]
  <2>1. \A a \in Cells : a \notin L..(L + 1 - 2)
    BY <1>1
  <2>2. Stored(bytes) = [a \in Cells |-> wireMem[port][a]]
    BY <2>1, <1>3 DEF Stored
  <2>3. wireMem[port] \in [Cells -> Int]
    BY <1>1 DEF WireTypes
  <2>. QED  BY <2>2, <2>3
<1>7. ASSUME ~cut' PROVE Holds' /\ mem_adr'[port] = L
  <2>1. Holds
    BY <1>2, <1>4, <1>7 DEF WireInv
  <2>2. wireMem'[port] = wireMem[port] /\ mem_adr'[port] = L + 1 - 1
    BY <1>3, <1>4, <1>6, <1>7
  <2>3. mem_adr'[port] = L
    BY <2>2, <1>1
  <2>. QED  BY <2>1, <2>2, <2>3, <1>2 DEF Holds
<1>. QED  BY <1>2, <1>5, <1>7 DEF WireInv, L

LEMMA BytesRequested == ASSUME WireInv, requestFrom PROVE WireInv'
<1>. DEFINE L == Location[port]  B == WireBytes[port]
<1>1. port \in 1..2 /\ L \in {2, 32} /\ B \in Seq(Int) /\ Len(B) = 8 /\ WireTypes
  BY WireFacts DEF WireInv, WireTypes
<1>2. PICK n \in {0, 3, 8} : /\ received' = [i \in 1..n |-> wireMem[port][mem_adr[port] + i - 1]]
                             /\ mem_adr' = [mem_adr EXCEPT ![port] = @ + n]
  BY DEF requestFrom, Counts, Size8
<1>3. UNCHANGED <<port, wireMem, wirePrinted, cut, cuts>> /\ wireStep' = "print"
      /\ wirePrinted = <<>> /\ wireStep = "request"
  BY DEF requestFrom, WireStep, WireInv
<1>4. WireTypes'
  BY <1>1, <1>2, <1>3 DEF WireTypes
<1>5. ASSUME ~cut
      PROVE  wirePrinted = FirstOf(B, 0) /\ received' = From(FirstOf(B, n), 1)
  <2>1. mem_adr[port] = L /\ \A i \in 1..8 : wireMem[port][L + i - 1] = B[i]
    BY <1>3, <1>5 DEF WireInv, Holds
  <2>2. \A i \in 1..n : i \in 1..8
    BY <1>2
  <2>3. received' = FirstOf(B, n)
    BY <1>2, <2>1, <2>2 DEF FirstOf
  <2>4. n \in 0..Len(B) /\ 0 \in 0..n
    BY <1>1, <1>2
  <2>. QED  BY <2>3, <2>4, <1>1, <1>3, FirstsGrow
<1>6. ASSUME ~cut'
      PROVE  \E m \in 0..8 : \E k \in 0..m :
                /\ wirePrinted' = FirstOf(B, k) /\ received' = From(FirstOf(B, m), k + 1)
  <2>1. n \in 0..8 /\ 0 \in 0..n /\ 0 + 1 = 1
    BY <1>2
  <2>2. wirePrinted' = FirstOf(B, 0) /\ received' = From(FirstOf(B, n), 0 + 1)
    BY <1>3, <1>5, <1>6, <2>1
  <2>. QED  BY <2>1, <2>2
<1>. QED  BY <1>3, <1>4, <1>6 DEF WireInv

LEMMA BytePrinted == ASSUME WireInv, PrintByte PROVE WireInv'
<1>. DEFINE B == WireBytes[port]
<1>1. port \in 1..2 /\ B \in Seq(Int) /\ Len(B) = 8 /\ WireTypes
  BY WireFacts DEF WireInv, WireTypes
<1>2. /\ wireStep = "print" /\ received # <<>> /\ received' = Tail(received)
      /\ wirePrinted' = Append(wirePrinted, Head(received))
      /\ UNCHANGED <<port, wireStep, wireMem, mem_adr, cut, cuts>>
  BY DEF PrintByte
<1>3. WireTypes'
  BY <1>1, <1>2 DEF WireTypes
<1>4. ASSUME ~cut
      PROVE  \E n \in 0..8 : \E k \in 0..n :
                /\ wirePrinted' = FirstOf(B, k) /\ received' = From(FirstOf(B, n), k + 1)
  <2>0. PICK n \in 0..8 : \E k \in 0..n :
               wirePrinted = FirstOf(B, k) /\ received = From(FirstOf(B, n), k + 1)
    BY <1>2, <1>4 DEF WireInv
  <2>1. PICK k \in 0..n :
               wirePrinted = FirstOf(B, k) /\ received = From(FirstOf(B, n), k + 1)
    BY <2>0
  <2>2. n \in 0..Len(B)
    BY <1>1
  <2>3. k # n
    BY <2>1, <2>2, <1>1, <1>2, FirstsGrow
  <2>4. k < n /\ k + 1 \in 0..n /\ (k + 1) + 1 = k + 2
    BY <2>3
  <2>5. wirePrinted' = FirstOf(B, k + 1) /\ received' = From(FirstOf(B, n), (k + 1) + 1)
    <3>. HIDE DEF B
    <3>1. /\ Append(FirstOf(B, k), Head(From(FirstOf(B, n), k + 1))) = FirstOf(B, k + 1)
          /\ Tail(From(FirstOf(B, n), k + 1)) = From(FirstOf(B, n), k + 2)
      BY <2>2, <2>4, <1>1, FirstsGrow
    <3>. QED  BY <3>1, <2>1, <2>4, <1>2
  <2>. QED  BY <2>4, <2>5
<1>. QED  BY <1>2, <1>3, <1>4 DEF WireInv

LEMMA PassesEnd == ASSUME WireInv, AllPrintedBytes \/ OtherPort PROVE WireInv'
<1>1. CASE AllPrintedBytes
  <2>1. wireStep = "print" /\ wireStep' = "end"
        /\ UNCHANGED <<port, wireMem, mem_adr, received, wirePrinted, cut, cuts>>
    BY <1>1 DEF AllPrintedBytes, WireStep
  <2>2. WireTypes'
    BY <2>1 DEF WireInv, WireTypes
  <2>. QED  BY <2>1, <2>2 DEF WireInv
<1>2. CASE OtherPort
  <2>1. wireStep' = "write" /\ port' = 3 - port /\ wirePrinted' = <<>> /\ cut' = FALSE
        /\ UNCHANGED <<wireMem, mem_adr, received, cuts>>
    BY <1>2 DEF OtherPort, WireStep
  <2>2. port' \in 1..2
    BY <2>1, WireFacts DEF WireInv, WireTypes
  <2>3. WireTypes'
    BY <2>1, <2>2 DEF WireInv, WireTypes
  <2>. QED  BY <2>1, <2>3 DEF WireInv
<1>. QED  BY <1>1, <1>2

(* The scan.  The lines are those of the addresses from 1 on, and the count
   is zero exactly if none of them says "found". *)
ProbeLine == [says : {"found", "none", "unknown", "done", "nobody"}, digits : Seq(Nat)]

ProbeTypes ==
  /\ address \in 0..32 /\ nDevices \in Nat /\ lines \in Seq(ProbeLine)
  /\ Len(lines) = IF address = 0 THEN 32 ELSE address - 1

LinesTell ==
  \A k \in 1..Len(lines) :
    k <= 31 => /\ lines[k].digits = Padded(k)
               /\ lines[k].says = "found" => k \in present
               /\ lines[k].says = "none" => k \notin present

CountTells == nDevices = 0 <=> \A k \in 1..Len(lines) : lines[k].says # "found"

LastTells ==
  Len(lines) = 32 => lines[32].says = IF nDevices = 0 THEN "nobody" ELSE "done"

ScanInv == ProbeTypes /\ LinesTell /\ CountTells /\ LastTells

LEMMA ScanInitInv == WireInit => ScanInv
<1>. SUFFICES ASSUME WireInit PROVE ScanInv
  OBVIOUS
<1>1. address = 1 /\ nDevices = 0 /\ lines = <<>>
  BY DEF WireInit
<1>2. lines \in Seq(ProbeLine) /\ Len(lines) = 0
  BY <1>1
<1>. QED  BY <1>1, <1>2 DEF ScanInv, ProbeTypes, LinesTell, CountTells, LastTells

(* Two digits that are the number. *)
LEMMA PaddedFacts ==
  ASSUME NEW k \in 1..31
  PROVE  /\ Padded(k) \in Seq(Nat) /\ Len(Padded(k)) = 2
         /\ 16 * Padded(k)[1] + Padded(k)[2] = k
<1>1. CASE k < 16
  <2>1. /\ <<0>> \in Seq(Nat) /\ <<k>> \in Seq(Nat) /\ Len(<<0>>) = 1 /\ Len(<<k>>) = 1
        /\ <<0>>[1] = 0 /\ <<k>>[1] = k /\ k \in Nat
    <3>1. k \in Nat
      OBVIOUS
    <3>. QED  BY <3>1
  <2>2. /\ <<0>> \o <<k>> \in Seq(Nat) /\ Len(<<0>> \o <<k>>) = 2
        /\ (<<0>> \o <<k>>)[1] = 0 /\ (<<0>> \o <<k>>)[2] = k
    BY <2>1, ConcatProperties
  <2>3. Padded(k) = <<0>> \o <<k>>
    BY <1>1 DEF Padded, HexDigits
  <2>. QED  BY <2>1, <2>2, <2>3
<1>2. CASE k >= 16
  <2>1. Padded(k) = <<k \div 16, k % 16>>
    BY <1>2 DEF Padded, HexDigits
  <2>2. k \in Nat
    OBVIOUS
  <2>3. k \div 16 \in Nat /\ k % 16 \in Nat
    BY <2>2
  <2>4. 16 * (k \div 16) + (k % 16) = k
    BY <2>2
  <2>. QED  BY <2>1, <2>3, <2>4
<1>. QED  BY <1>1, <1>2

LEMMA ScanTells == ScanInv => ScanRight
<1>. SUFFICES ASSUME ScanInv PROVE ScanRight
  OBVIOUS
<1>0. ProbeTypes /\ LinesTell /\ CountTells /\ LastTells
  BY DEF ScanInv
<1>1. lines \in Seq(ProbeLine) /\ Len(lines) \in Nat /\ Len(lines) <= 32
  BY <1>0 DEF ProbeTypes
<1>2. \A k \in DOMAIN lines : k \in 1..Len(lines) /\ k \in Nat /\ k <= 32
  BY <1>1
<1>3. ASSUME NEW k \in DOMAIN lines, k <= 31 PROVE LineDigits(lines[k]) = k
  <2>1. k \in 1..Len(lines) /\ k \in 1..31
    <3>1. \A n \in Nat : k \in 1..n => k \in 1..31
      BY <1>3
    <3>. QED  BY <3>1, <1>1, <1>2, Zenon
  <2>2. lines[k].digits = Padded(k)
    BY <1>0, <1>3, <2>1 DEF LinesTell
  <2>. QED  BY <2>1, <2>2, PaddedFacts DEF LineDigits
<1>4. ASSUME NEW k \in DOMAIN lines, lines[k].says \in {"found", "none"}
      PROVE  k \in 1..Len(lines) /\ k <= 31
  <2>1. k = 32 => Len(lines) = 32
    <3>1. \A n \in Nat : n <= 32 /\ 32 \in 1..n => n = 32
      OBVIOUS
    <3>. QED  BY <3>1, <1>1, <1>2, Zenon
  <2>2. k # 32
    BY <1>0, <1>4, <2>1 DEF LastTells
  <2>. QED  BY <1>2, <2>2
<1>5. Found \subseteq present
  BY <1>0, <1>4 DEF Found, LinesTell
<1>6. \A k \in DOMAIN lines : lines[k].says = "none" => k \notin present
  BY <1>0, <1>4 DEF LinesTell
<1>7. ASSUME Len(lines) > 31 PROVE (lines[Len(lines)].says = "done") = (Found # {})
  <2>1. Len(lines) = 32
    <3>1. \A n \in Nat : n <= 32 /\ n > 31 => n = 32
      OBVIOUS
    <3>. QED  BY <3>1, <1>1, <1>7, Zenon
  <2>2. lines[32].says = "done" <=> nDevices # 0
    BY <1>0, <2>1 DEF LastTells
  <2>3. DOMAIN lines = 1..Len(lines)
    BY <1>1, LenProperties
  <2>4. nDevices # 0 <=> Found # {}
    BY <1>0, <2>3 DEF CountTells, Found
  <2>. QED  BY <2>1, <2>2, <2>4
<1>. QED  BY <1>3, <1>5, <1>6, <1>7 DEF ScanRight, LastAddress

LEMMA LineAppended ==
  ASSUME ProbeTypes, NEW l \in ProbeLine, lines' = Append(lines, l)
  PROVE  /\ lines' \in Seq(ProbeLine) /\ Len(lines') = Len(lines) + 1
         /\ lines'[Len(lines) + 1] = l /\ \A k \in 1..Len(lines) : lines'[k] = lines[k]
<1>1. lines \in Seq(ProbeLine) /\ Len(lines) \in Nat
  BY LenProperties DEF ProbeTypes
<1>. QED  BY <1>1, AppendEnds

LEMMA ProbeKeeps == ASSUME ScanInv, address > 0, Probe, UNCHANGED present PROVE ScanInv'
<1>0. ProbeTypes /\ LinesTell /\ CountTells /\ LastTells
  BY DEF ScanInv
<1>1. address \in 1..31 /\ Len(lines) = address - 1 /\ address' = address + 1 /\ nDevices \in Nat
  BY <1>0 DEF ProbeTypes, Probe, LastAddress
<1>2. PICK error \in endTransmission(address) :
        /\ lines' = Append(lines, [says |-> CASE error = 0 -> "found" [] error = 4 -> "unknown"
                                               [] OTHER -> "none",
                                   digits |-> Padded(address)])
        /\ nDevices' = IF error = 0 THEN nDevices + 1 ELSE nDevices
  BY DEF Probe
<1>3. error \in {0, 2, 4} /\ (error = 0 => address \in present)
      /\ (error = 2 => address \notin present)
  BY DEF endTransmission
<1>. DEFINE says == IF error = 0 THEN "found" ELSE IF error = 4 THEN "unknown" ELSE "none"
            l == [says |-> says, digits |-> Padded(address)]
<1>4. l \in ProbeLine /\ lines' = Append(lines, l)
  <2>1. Padded(address) \in Seq(Nat)
    BY <1>1, PaddedFacts
  <2>2. (CASE error = 0 -> "found" [] error = 4 -> "unknown" [] OTHER -> "none") = says
    BY <1>3
  <2>. QED  BY <2>1, <2>2, <1>2 DEF ProbeLine
<1>5. /\ lines' \in Seq(ProbeLine) /\ Len(lines') = address
      /\ lines'[address] = l /\ \A k \in 1..(address - 1) : lines'[k] = lines[k]
  <2>1. Len(lines) + 1 = address
    BY <1>1
  <2>2. Len(lines) = address - 1
    BY <1>1
  <2>. QED  BY <1>0, <1>4, <2>1, <2>2, LineAppended
<1>6. l.says = says /\ l.digits = Padded(address)
  OBVIOUS
<1>. HIDE DEF l
<1>7. ProbeTypes'
  <2>1. address' \in 0..32 /\ address' # 0 /\ Len(lines') = address' - 1
    BY <1>1, <1>5
  <2>2. nDevices' \in Nat
    BY <1>1, <1>2
  <2>. QED  BY <1>5, <2>1, <2>2 DEF ProbeTypes
<1>8. ASSUME NEW k \in 1..address, k <= 31
      PROVE  /\ lines'[k].digits = Padded(k)
             /\ lines'[k].says = "found" => k \in present
             /\ lines'[k].says = "none" => k \notin present
  <2>1. CASE k = address
    BY <2>1, <1>3, <1>5, <1>6
  <2>2. CASE k # address
    <3>1. k \in 1..(address - 1)
      BY <2>2, <1>1
    <3>. QED  BY <3>1, <1>0, <1>1, <1>5, <1>8 DEF LinesTell
  <2>. QED  BY <2>1, <2>2
<1>9. nDevices' = 0 <=> \A k \in 1..address : lines'[k].says # "found"
  <2>1. nDevices = 0 <=> \A k \in 1..(address - 1) : lines'[k].says # "found"
    BY <1>0, <1>1, <1>5 DEF CountTells
  <2>2. nDevices' = 0 <=> nDevices = 0 /\ lines'[address].says # "found"
    BY <1>1, <1>2, <1>3, <1>5, <1>6
  <2>3. \A k : k \in 1..address <=> k \in 1..(address - 1) \/ k = address
    BY <1>1
  <2>. QED  BY <2>1, <2>2, <2>3, Zenon
<1>10. LinesTell' /\ CountTells' /\ LastTells'
  <2>1. LinesTell'
    BY <1>5, <1>8 DEF LinesTell
  <2>2. CountTells'
    BY <1>5, <1>9 DEF CountTells
  <2>3. LastTells'
    BY <1>1, <1>5 DEF LastTells
  <2>. QED  BY <2>1, <2>2, <2>3
<1>. QED  BY <1>7, <1>10 DEF ScanInv

LEMMA ScanEnds ==
  ASSUME ScanInv, (address > 0 /\ EndOfScan) \/ NextScan, UNCHANGED present PROVE ScanInv'
<1>1. CASE address > 0 /\ EndOfScan
  <2>. DEFINE l == [says |-> IF nDevices = 0 THEN "nobody" ELSE "done", digits |-> <<>>]
  <2>0. ProbeTypes /\ LinesTell /\ CountTells /\ LastTells
    BY DEF ScanInv
  <2>1. address = 32 /\ Len(lines) = 31 /\ address' = 0 /\ nDevices' = nDevices
        /\ lines' = Append(lines, l) /\ nDevices \in Nat
    BY <2>0, <1>1 DEF ProbeTypes, EndOfScan, LastAddress
  <2>2. l \in ProbeLine
    BY DEF ProbeLine
  <2>3. /\ lines' \in Seq(ProbeLine) /\ Len(lines') = 32
        /\ lines'[32] = l /\ \A k \in 1..31 : lines'[k] = lines[k]
    <3>1. Len(lines) + 1 = 32
      BY <2>1
    <3>. QED  BY <2>0, <2>1, <2>2, <3>1, LineAppended, SMTT(30)
  <2>4. l.says = IF nDevices = 0 THEN "nobody" ELSE "done"
    OBVIOUS
  <2>. HIDE DEF l
  <2>5. ProbeTypes'
    BY <2>1, <2>3 DEF ProbeTypes
  <2>6. nDevices = 0 <=> \A k \in 1..32 : lines'[k].says # "found"
    <3>1. nDevices = 0 <=> \A k \in 1..31 : lines'[k].says # "found"
      BY <2>0, <2>1, <2>3 DEF CountTells
    <3>2. lines'[32].says # "found"
      BY <2>3, <2>4
    <3>3. \A k : k \in 1..32 <=> k \in 1..31 \/ k = 32
      OBVIOUS
    <3>. QED  BY <3>1, <3>2, <3>3, Zenon
  <2>7. \A k \in 1..32 : k <= 31 => /\ lines'[k].digits = Padded(k)
                                    /\ lines'[k].says = "found" => k \in present
                                    /\ lines'[k].says = "none" => k \notin present
    <3>1. \A k \in 1..32 : k <= 31 => k \in 1..31
      OBVIOUS
    <3>. QED  BY <3>1, <2>0, <2>1, <2>3 DEF LinesTell
  <2>8. LinesTell' /\ CountTells' /\ LastTells'
    BY <2>1, <2>3, <2>4, <2>6, <2>7 DEF LinesTell, CountTells, LastTells
  <2>. QED  BY <2>5, <2>8 DEF ScanInv
<1>2. CASE NextScan
  <2>1. address' = 1 /\ nDevices' = 0 /\ lines' = <<>>
    BY <1>2 DEF NextScan
  <2>2. lines' \in Seq(ProbeLine) /\ Len(lines') = 0
    BY <2>1
  <2>. QED  BY <2>1, <2>2 DEF ScanInv, ProbeTypes, LinesTell, CountTells, LastTells
<1>. QED  BY <1>1, <1>2

LEMMA WireStepInv ==
  WireInv /\ ScanInv /\ [WireNext]_wireVars => (WireInv /\ ScanInv)'
<1>. SUFFICES ASSUME WireInv, ScanInv, [WireNext]_wireVars PROVE WireInv' /\ ScanInv'
  OBVIOUS
<1>1. UNCHANGED memoryVars => WireInv'
  BY DEF memoryVars, WireInv, WireTypes, Holds
<1>2. UNCHANGED scanVars => ScanInv'
  BY DEF scanVars, ScanInv, ProbeTypes, LinesTell, CountTells, LastTells
<1>3. CASE WriteAndRead
  <2>1. WireInv'
    BY <1>3, MemoryWritten, PointerReset, BytesRequested, BytePrinted, PassesEnd
       DEF WriteAndRead
  <2>. QED  BY <1>2, <1>3, <2>1 DEF WriteAndRead
<1>4. CASE Scan
  <2>1. ScanInv'
    BY <1>4, ProbeKeeps, ScanEnds DEF Scan
  <2>. QED  BY <1>1, <1>4, <2>1 DEF Scan
<1>5. CASE UNCHANGED wireVars
  BY <1>1, <1>2, <1>5 DEF wireVars
<1>. QED  BY <1>3, <1>4, <1>5 DEF WireNext

LEMMA WireStands == [Next]_allVars => [WireNext]_wireVars
<1>1. Next => WireNext \/ UNCHANGED wireOwn
  BY DEF Next, PrintRest, ThreadRest, CopRest, ConsoleRest, RtcRest, TcmRest, CopyRest, LedRest,
         EchoRest, RegRest, IntrRest, MotorRest, JtagRest, SketchRest, ReportRest, pinOwn
<1>. QED  BY <1>1, ImageStays DEF wireOwn, wireVars, allVars, pinOwn

------------------------------------------------------------------------------
(* The coprocessors.  The operands of the operation are in the registers
   before its start; while the program waits the engine works on them or
   has their result, and at all other times it is idle. *)
CopPlaces == {"din1", "din2", "start", "poll", "read", "compare", "verdict", "stop"}

CopTypes ==
  /\ copTest \in {"fpu", "aes"}
  /\ broken \subseteq {Units(copTest)[k] : k \in 1..NumUnits(copTest)}
  /\ wrongBytes \in {1, Bytes(copTest)}
  /\ copPc \in CopPlaces /\ copOp \in 1..LastOp
  /\ copPc \in {"verdict", "stop"} => copOp = LastOp
  /\ dmem_req_ack \in BOOLEAN /\ cfg_fpu_req \in BOOLEAN /\ cfg_fpu_req_l \in BOOLEAN

EngineIdle == cfg_fpu_req = FALSE /\ cfg_fpu_req_l = FALSE /\ engine = Nothing

Handshake ==
  /\ copPc # "poll" => EngineIdle
  /\ copPc \in {"din2", "start", "poll"} => cfg_fpu_din1 = copOp
  /\ copPc \in {"start", "poll"} => cfg_fpu_din2 = copOp
  /\ copPc = "poll" /\ cfg_fpu_req => engine = IF cfg_fpu_req_l THEN <<copOp, copOp>> ELSE Nothing
  /\ copPc = "poll" /\ ~cfg_fpu_req => engine = Nothing /\ fpu_result = <<copOp, copOp>>
  /\ copPc \in {"read", "compare"} => fpu_result = <<copOp, copOp>>

(* What was compared so far, and what the counters say of it: exit is zero
   exactly if no finished check met a broken unit, and the count of the
   cipher's mismatches, at most 128, is that of the function it is in. *)
Compared == IF copPc \in {"verdict", "stop"} THEN copOp ELSE copOp - 1

Wrong(unit, blocks) == IF unit \in broken THEN blocks * wrongBytes ELSE 0

CountsRight ==
  /\ exit \in Nat /\ ErrCnt \in Nat
  /\ copTest = "fpu" => (exit = 0 <=> \A i \in 1..Compared : Unit(i) \notin broken)
  /\ copTest = "aes" =>
       /\ exit = 0 <=> (Compared >= 8 => "enc" \notin broken) /\ (Compared = 16 => "dec" \notin broken)
       /\ ErrCnt = IF Compared < 8 THEN Wrong("enc", Compared)
                   ELSE IF Compared < 16 THEN Wrong("dec", Compared - 8) ELSE 0
  /\ copPc = "stop" => reg_gpio_odata = Verdict(exit)

CopInv == CopTypes /\ Handshake /\ CountsRight

LEMMA ChoiceIn == ASSUME NEW name, NEW S, S # {} PROVE Choice(name, S) \subseteq S
<1>1. PICK s : s \in S
  OBVIOUS
<1>2. (CHOOSE x \in S : TRUE) \in S
  BY <1>1
<1>. QED  BY <1>2 DEF Choice

LEMMA OpFacts ==
  /\ copTest = "fpu" => LastOp = 30 /\ PerUnit(copTest) = 6 /\ Bytes(copTest) = 1
                        /\ NumUnits(copTest) = 5
                        /\ Units(copTest) = <<"add", "mul", "div", "i2f", "f2i">>
  /\ copTest = "aes" => LastOp = 16 /\ PerUnit(copTest) = 8 /\ Bytes(copTest) = 16
                        /\ NumUnits(copTest) = 2 /\ Units(copTest) = <<"enc", "dec">>
BY DEF LastOp, PerUnit, Bytes, NumUnits, Units

LEMMA AesUnit ==
  ASSUME copTest = "aes", NEW i \in 1..16
  PROVE  Unit(i) = IF i <= 8 THEN "enc" ELSE "dec"
<1>1. /\ i <= 8 => (i - 1) \div 8 + 1 = 1
      /\ i > 8 => (i - 1) \div 8 + 1 = 2
  OBVIOUS
<1>2. Unit(i) = <<"enc", "dec">>[(i - 1) \div 8 + 1]
  BY OpFacts DEF Unit
<1>. QED  BY <1>1, <1>2

(* A verdict of no failure is one of no broken unit. *)
LEMMA AllUnitsTested ==
  ASSUME CopTypes, CountsRight, Compared = LastOp
  PROVE  exit = 0 <=> broken = {}
<1>1. CASE copTest = "fpu"
  <2>1. exit = 0 <=> \A i \in 1..30 : Unit(i) \notin broken
    BY <1>1, OpFacts DEF CountsRight
  <2>2. ASSUME NEW k \in 1..5 PROVE 6 * k \in 1..30 /\ Unit(6 * k) = Units(copTest)[k]
    <3>1. (6 * k - 1) \div 6 + 1 = k /\ 6 * k \in 1..30
      OBVIOUS
    <3>. QED  BY <3>1, <1>1, OpFacts DEF Unit
  <2>3. broken \subseteq {Units(copTest)[k] : k \in 1..5}
    BY <1>1, OpFacts DEF CopTypes
  <2>4. ASSUME NEW u \in broken PROVE \E i \in 1..30 : Unit(i) \in broken
    <3>1. PICK k \in 1..5 : u = Units(copTest)[k]
      BY <2>3
    <3>. QED  BY <3>1, <2>2
  <2>. QED  BY <2>1, <2>4
<1>2. CASE copTest = "aes"
  <2>1. exit = 0 <=> "enc" \notin broken /\ "dec" \notin broken
    BY <1>2, OpFacts DEF CountsRight
  <2>2. broken \subseteq {"enc", "dec"}
    <3>1. broken \subseteq {<<"enc", "dec">>[k] : k \in 1..2}
      BY <1>2, OpFacts DEF CopTypes
    <3>2. \A k \in 1..2 : <<"enc", "dec">>[k] \in {"enc", "dec"}
      OBVIOUS
    <3>. QED  BY <3>1, <3>2
  <2>. QED  BY <2>1, <2>2
<1>. QED  BY <1>1, <1>2 DEF CopTypes

LEMMA CopTells == CopInv => ResultIsOwn /\ VerdictRight
<1>. SUFFICES ASSUME CopInv PROVE ResultIsOwn /\ VerdictRight
  OBVIOUS
<1>1. ResultIsOwn
  BY DEF CopInv, Handshake, ResultIsOwn
<1>2. ASSUME copPc = "stop" PROVE reg_gpio_odata = 24 <=> broken = {}
  <2>1. Compared = LastOp
    BY <1>2 DEF Compared, CopInv, CopTypes
  <2>2. exit = 0 <=> broken = {}
    BY <2>1, AllUnitsTested DEF CopInv
  <2>3. reg_gpio_odata = 24 <=> exit = 0
    BY <1>2 DEF CopInv, CountsRight, Verdict
  <2>. QED  BY <2>2, <2>3
<1>. QED  BY <1>1, <1>2 DEF VerdictRight

LEMMA CopInitInv == CopInit => CopInv
<1>. SUFFICES ASSUME CopInit PROVE CopInv
  OBVIOUS
<1>1. copTest \in {"fpu", "aes"}
  BY ChoiceIn DEF CopInit
<1>2. broken \subseteq {Units(copTest)[k] : k \in 1..NumUnits(copTest)}
  BY ChoiceIn DEF CopInit
<1>3. wrongBytes \in {1, Bytes(copTest)}
  BY ChoiceIn DEF CopInit
<1>4. /\ copPc = "din1" /\ copOp = 1 /\ ErrCnt = 0 /\ exit = 0
      /\ dmem_req_ack = FALSE /\ cfg_fpu_req = FALSE /\ cfg_fpu_req_l = FALSE /\ engine = Nothing
  BY DEF CopInit
<1>5. copOp \in 1..LastOp
  BY <1>1, <1>4, OpFacts
<1>6. CopTypes
  BY <1>1, <1>2, <1>3, <1>4, <1>5, Zenon DEF CopTypes, CopPlaces
<1>7. Handshake
  BY <1>4 DEF Handshake, EngineIdle
<1>8. Compared = 0 /\ wrongBytes \in Nat
  BY <1>1, <1>3, <1>4, OpFacts DEF Compared
<1>9. Wrong("enc", 0) = 0
  BY <1>8 DEF Wrong
<1>10. CountsRight
  BY <1>4, <1>8, <1>9 DEF CountsRight
<1>. QED  BY <1>6, <1>7, <1>10 DEF CopInv

(* An edge at which the program waits for the end of its access, or has
   come to the end of it. *)
LEMMA IdleEdge ==
  ASSUME CopInv, NEW fin \in BOOLEAN, CopEdge(fin), copPc # "poll"
  PROVE  /\ fin = FALSE /\ cfg_fpu_req_l' = FALSE /\ engine' = Nothing
         /\ fpu_result' = fpu_result
         /\ cfg_fpu_req' = (dmem_req_ack /\ copPc = "start")
<1>1. cfg_fpu_req = FALSE /\ cfg_fpu_req_l = FALSE /\ engine = Nothing
  BY DEF CopInv, Handshake, EngineIdle
<1>2. fin = FALSE
  BY <1>1 DEF CopEdge
<1>3. cfg_fpu_req_l' = cfg_fpu_req
      /\ cfg_fpu_req' = ((dmem_req_ack /\ copPc = "start") \/ (cfg_fpu_req /\ ~fin))
  BY Zenon DEF CopEdge, Registers, req_register
<1>4. engine' = Nothing /\ fpu_result' = fpu_result
  BY <1>1, <1>2 DEF CopEdge, Engine, cfg_fpu_val
<1>5. cfg_fpu_req_l' = FALSE
  BY <1>1, <1>3, Zenon
<1>6. cfg_fpu_req' = (dmem_req_ack /\ copPc = "start")
  BY <1>1, <1>3, Zenon
<1>. QED  BY <1>2, <1>4, <1>5, <1>6

LEMMA CopTyped ==
  ASSUME CopInv, NEW fin \in BOOLEAN, CopEdge(fin) PROVE CopTypes'
<1>1. UNCHANGED <<copTest, broken, wrongBytes>> /\ copPc # "stop"
  BY DEF CopEdge
<1>2. dmem_req_ack' \in BOOLEAN /\ cfg_fpu_req' \in BOOLEAN /\ cfg_fpu_req_l' \in BOOLEAN
  BY Zenon DEF CopEdge, Registers, req_register, CopInv, CopTypes
<1>3. LastOp' = LastOp /\ Units(copTest)' = Units(copTest) /\ LastOp \in Nat \ {0}
  BY <1>1, OpFacts DEF LastOp, CopInv, CopTypes
<1>4. /\ copPc' \in CopPlaces /\ copOp' \in 1..LastOp
      /\ copPc' \in {"verdict", "stop"} => copOp' = LastOp
  <2>1. CASE ~dmem_req_ack
    BY <1>1, <2>1 DEF CopEdge, CopInv, CopTypes
  <2>2. CASE dmem_req_ack
    <3>1. copPc' = NextAccess
          /\ copOp' = IF copPc = "compare" /\ copOp < LastOp THEN copOp + 1 ELSE copOp
      BY <2>2 DEF CopEdge, Program
    <3>2. copPc \in CopPlaces /\ copOp \in 1..LastOp
          /\ (copPc = "verdict" => copOp = LastOp)
      BY DEF CopInv, CopTypes
    <3>3. copOp' \in 1..LastOp
      BY <3>1, <3>2, <1>3
    <3>4. CASE copPc = "compare"
      <4>1. copPc' = IF copOp = LastOp THEN "verdict" ELSE "din1"
        BY <3>1, <3>4 DEF NextAccess
      <4>2. copOp = LastOp => copOp' = LastOp
        BY <1>3, <3>1
      <4>. QED  BY <4>1, <4>2, <3>3 DEF CopPlaces
    <3>5. CASE copPc # "compare"
      <4>1. copPc' \in {"din2", "start", "poll", "read", "compare"}
            \/ (copPc = "verdict" /\ copPc' = "stop")
        <5>1. copPc \in {"din1", "din2", "start", "read", "verdict"}
              \/ copPc = "poll"
          BY <1>1, <3>2, <3>5 DEF CopPlaces
        <5>2. CASE copPc \in {"din1", "din2", "start", "read", "verdict"}
          <6>1. /\ copPc = "din1" => NextAccess = "din2"
                /\ copPc = "din2" => NextAccess = "start"
                /\ copPc = "start" => NextAccess = "poll"
                /\ copPc = "read" => NextAccess = "compare"
                /\ copPc = "verdict" => NextAccess = "stop"
            BY DEF NextAccess
          <6>2. copPc' = NextAccess
            BY <3>1
          <6>3. CASE copPc = "din1"
            BY <6>1, <6>2, <6>3
          <6>4. CASE copPc = "din2"
            BY <6>1, <6>2, <6>4
          <6>5. CASE copPc = "start"
            BY <6>1, <6>2, <6>5
          <6>6. CASE copPc = "read"
            BY <6>1, <6>2, <6>6
          <6>7. CASE copPc = "verdict"
            BY <6>1, <6>2, <6>7
          <6>. QED  BY <5>2, <6>3, <6>4, <6>5, <6>6, <6>7
        <5>3. CASE copPc = "poll"
          <6>1. NextAccess = Poll
            BY <5>3 DEF NextAccess
          <6>2. copPc' = Poll
            BY <3>1, <6>1, Zenon
          <6>3. Poll \in {"poll", "read"}
            BY DEF Poll
          <6>. QED  BY <6>2, <6>3
        <5>. QED  BY <5>1, <5>2, <5>3
      <4>. QED  BY <4>1, <3>1, <3>2, <3>3, <3>5 DEF CopPlaces
    <3>. QED  BY <3>4, <3>5
  <2>. QED  BY <2>1, <2>2 DEF CopInv, CopTypes
<1>5. /\ copTest' \in {"fpu", "aes"} /\ wrongBytes' \in {1, Bytes(copTest')}
      /\ broken' \subseteq {Units(copTest')[k] : k \in 1..NumUnits(copTest')}
  BY <1>1 DEF CopInv, CopTypes
<1>. QED  BY <1>2, <1>3, <1>4, <1>5 DEF CopTypes

LEMMA HandshakeKept ==
  ASSUME CopInv, NEW fin \in BOOLEAN, CopEdge(fin) PROVE Handshake'
<1>0. copPc # "stop" /\ copPc \in CopPlaces /\ dmem_req_ack \in BOOLEAN
  BY DEF CopEdge, CopInv, CopTypes
<1>1. /\ cfg_fpu_din1' = IF dmem_req_ack /\ copPc = "din1" THEN copOp ELSE cfg_fpu_din1
      /\ cfg_fpu_din2' = IF dmem_req_ack /\ copPc = "din2" THEN copOp ELSE cfg_fpu_din2
  BY DEF CopEdge, Registers
<1>2. /\ ~dmem_req_ack => copPc' = copPc /\ copOp' = copOp
      /\ dmem_req_ack => copPc' = NextAccess
      /\ dmem_req_ack /\ copPc # "compare" => copOp' = copOp
  BY DEF CopEdge, Program
<1>3. CASE copPc # "poll" /\ ~(dmem_req_ack /\ copPc = "start")
  <2>1. EngineIdle' /\ fpu_result' = fpu_result
    BY <1>3, IdleEdge DEF EngineIdle, Nothing
  <2>2. copPc' # "poll"
    BY <1>0, <1>2, <1>3 DEF NextAccess, CopPlaces
  <2>3. CASE ~dmem_req_ack
    BY <1>1, <1>2, <2>1, <2>2, <2>3 DEF CopInv, Handshake
  <2>4. CASE dmem_req_ack /\ copPc = "din1"
    BY <1>1, <1>2, <2>1, <2>4 DEF Handshake, NextAccess
  <2>5. CASE dmem_req_ack /\ copPc = "din2"
    BY <1>1, <1>2, <2>1, <2>5 DEF CopInv, Handshake, NextAccess
  <2>6. CASE dmem_req_ack /\ copPc = "read"
    BY <1>1, <1>2, <2>1, <2>6 DEF CopInv, Handshake, NextAccess
  <2>7. CASE dmem_req_ack /\ copPc \in {"compare", "verdict"}
    <3>1. copPc' \in {"verdict", "din1", "stop"}
      BY <1>2, <2>7 DEF NextAccess
    <3>. QED  BY <3>1, <2>1 DEF Handshake
  <2>. QED  BY <1>0, <1>3, <2>3, <2>4, <2>5, <2>6, <2>7 DEF CopPlaces
<1>4. CASE dmem_req_ack /\ copPc = "start"
  <2>1. cfg_fpu_req' = TRUE /\ cfg_fpu_req_l' = FALSE /\ engine' = Nothing
    <3>1. cfg_fpu_req' = (dmem_req_ack /\ copPc = "start") /\ cfg_fpu_req_l' = FALSE
          /\ engine' = Nothing
      BY <1>4, IdleEdge
    <3>. QED  BY <3>1, <1>4, Zenon
  <2>2. copPc' = "poll" /\ copOp' = copOp
    BY <1>2, <1>4 DEF NextAccess
  <2>. QED  BY <1>1, <1>4, <2>1, <2>2 DEF CopInv, Handshake, Nothing
<1>5. CASE copPc = "poll"
  <2>1. UNCHANGED <<cfg_fpu_din1, cfg_fpu_din2, copOp>> /\ cfg_fpu_din1 = copOp
        /\ cfg_fpu_din2 = copOp /\ <<copOp, copOp>> # Nothing
    <3>1. copOp # 0
      BY OpFacts DEF CopInv, CopTypes
    <3>. QED  BY <3>1, <1>1, <1>2, <1>5 DEF CopInv, Handshake, Nothing
  <2>2. cfg_fpu_req_l' = cfg_fpu_req /\ cfg_fpu_req' = (cfg_fpu_req /\ ~fin)
    <3>1. cfg_fpu_req_l' = cfg_fpu_req
          /\ cfg_fpu_req' = ((dmem_req_ack /\ copPc = "start") \/ (cfg_fpu_req /\ ~fin))
      BY Zenon DEF CopEdge, Registers, req_register
    <3>. QED  BY <3>1, <1>5
  <2>3. /\ engine' = IF cfg_fpu_req /\ ~cfg_fpu_req_l THEN <<cfg_fpu_din1, cfg_fpu_din2>>
                     ELSE IF fin THEN Nothing ELSE engine
        /\ fpu_result' = IF fin THEN engine ELSE fpu_result
        /\ fin => engine # Nothing /\ ~(cfg_fpu_req /\ ~cfg_fpu_req_l)
    BY DEF CopEdge, Engine, cfg_fpu_val
  <2>4. CASE cfg_fpu_req
    <3>1. copPc' = "poll"
      BY <1>2, <1>5, <2>4 DEF NextAccess, Poll
    <3>2. CASE ~cfg_fpu_req_l
      <4>1. engine' = <<copOp, copOp>> /\ ~fin
        BY <2>1, <2>3, <2>4, <3>2
      <4>2. cfg_fpu_req' /\ cfg_fpu_req_l'
        BY <2>2, <2>4, <4>1, Zenon
      <4>. QED  BY <2>1, <3>1, <4>1, <4>2 DEF Handshake
    <3>3. CASE cfg_fpu_req_l
      <4>1. engine = <<copOp, copOp>>
        BY <1>5, <2>4, <3>3 DEF CopInv, Handshake
      <4>2. CASE fin
        <5>1. engine' = Nothing /\ fpu_result' = <<copOp, copOp>>
          BY <2>3, <3>3, <4>1, <4>2
        <5>2. ~cfg_fpu_req'
          BY <2>2, <4>2, Zenon
        <5>. QED  BY <2>1, <3>1, <5>1, <5>2 DEF Handshake
      <4>3. CASE ~fin
        <5>1. engine' = <<copOp, copOp>>
          BY <2>3, <3>3, <4>1, <4>3
        <5>2. cfg_fpu_req' /\ cfg_fpu_req_l'
          BY <2>2, <2>4, <4>3, Zenon
        <5>. QED  BY <2>1, <3>1, <5>1, <5>2 DEF Handshake
      <4>. QED  BY <4>2, <4>3
    <3>. QED  BY <3>2, <3>3
  <2>5. CASE ~cfg_fpu_req
    <3>1. engine = Nothing /\ fpu_result = <<copOp, copOp>>
      BY <1>5, <2>5 DEF CopInv, Handshake
    <3>2. ~fin /\ engine' = Nothing /\ fpu_result' = <<copOp, copOp>>
      BY <2>3, <2>5, <3>1
    <3>3. cfg_fpu_req' = FALSE /\ cfg_fpu_req_l' = FALSE
      <4>1. cfg_fpu_req = FALSE
        BY <2>5, Zenon DEF CopInv, CopTypes
      <4>. QED  BY <2>2, <4>1, Zenon
    <3>4. copPc' \in {"poll", "read"}
      BY <1>2, <1>5 DEF NextAccess, Poll
    <3>. QED  BY <2>1, <3>2, <3>3, <3>4 DEF Handshake, EngineIdle, Nothing
  <2>. QED  BY <2>4, <2>5
<1>. QED  BY <1>3, <1>4, <1>5

(* The counters at the end of a comparison. *)
LEMMA ComparisonCounts ==
  ASSUME CopInv, NEW fin \in BOOLEAN, CopEdge(fin), copPc = "compare", dmem_req_ack
  PROVE  CountsRight'
<1>1. /\ Compared = copOp - 1 /\ Compared' = copOp /\ copPc' \in {"verdict", "din1"}
      /\ Compare /\ UNCHANGED <<copTest, broken, wrongBytes>> /\ copOp \in 1..LastOp
  <2>1. /\ copPc' = IF copOp = LastOp THEN "verdict" ELSE "din1"
        /\ copOp' = IF copOp < LastOp THEN copOp + 1 ELSE copOp
        /\ Compare /\ UNCHANGED <<copTest, broken, wrongBytes>> /\ copOp \in 1..LastOp
    BY DEF CopEdge, Program, NextAccess, CopInv, CopTypes
  <2>2. LastOp \in Nat
    BY OpFacts DEF CopInv, CopTypes
  <2>. QED  BY <2>1, <2>2 DEF Compared
<1>2. Mismatch = IF Unit(copOp) \in broken THEN wrongBytes ELSE 0
  BY DEF Mismatch, CopInv, Handshake
<1>3. copTest \in {"fpu", "aes"} /\ exit \in Nat /\ ErrCnt \in Nat
  BY DEF CopInv, CopTypes, CountsRight
<1>4. \A i : Unit(i)' = Unit(i)
  BY <1>1 DEF Unit
<1>5. CASE copTest = "fpu"
  <2>1. copOp \in 1..30 /\ wrongBytes = 1
    BY <1>1, <1>5, OpFacts DEF CopInv, CopTypes
  <2>2. exit' = exit + Failed(Mismatch) /\ ErrCnt' = ErrCnt
    BY <1>1, <1>5 DEF Compare
  <2>3. exit' \in Nat /\ (exit' = 0 <=> exit = 0 /\ Unit(copOp) \notin broken)
    BY <1>2, <1>3, <2>1, <2>2 DEF Failed
  <2>4. exit = 0 <=> \A i \in 1..(copOp - 1) : Unit(i) \notin broken
    BY <1>1, <1>5 DEF CopInv, CountsRight
  <2>5. \A i : i \in 1..copOp <=> i \in 1..(copOp - 1) \/ i = copOp
    BY <2>1
  <2>6. exit' = 0 <=> \A i \in 1..copOp : Unit(i) \notin broken
    BY <2>3, <2>4, <2>5, Zenon
  <2>7. exit' = 0 <=> \A i \in 1..Compared' : Unit(i)' \notin broken'
    BY <1>1, <1>4, <2>6
  <2>. QED  BY <1>1, <1>3, <1>5, <2>2, <2>3, <2>7 DEF CountsRight
<1>6. CASE copTest = "aes"
  <2>1. copOp \in 1..16 /\ wrongBytes \in {1, 16} /\ PerUnit(copTest) = 8
    BY <1>1, <1>6, OpFacts DEF CopInv, CopTypes
  <2>2. Mismatch = IF copOp <= 8 THEN Wrong("enc", 1) ELSE Wrong("dec", 1)
    <3>1. Unit(copOp) = IF copOp <= 8 THEN "enc" ELSE "dec"
      BY <1>6, <2>1, AesUnit
    <3>. QED  BY <1>2, <2>1, <3>1 DEF Wrong
  <2>3. /\ exit = 0 <=> (copOp > 8 => "enc" \notin broken)
        /\ ErrCnt = IF copOp <= 8 THEN Wrong("enc", copOp - 1) ELSE Wrong("dec", copOp - 9)
    <3>1. /\ exit = 0 <=> (Compared >= 8 => "enc" \notin broken)
                           /\ (Compared = 16 => "dec" \notin broken)
          /\ ErrCnt = IF Compared < 8 THEN Wrong("enc", Compared)
                      ELSE IF Compared < 16 THEN Wrong("dec", Compared - 8) ELSE 0
      BY <1>6 DEF CopInv, CountsRight
    <3>2. /\ Compared # 16 /\ Compared < 16
          /\ Compared >= 8 <=> copOp > 8
          /\ Compared < 8 <=> copOp <= 8
          /\ Compared - 8 = copOp - 9 /\ Compared = copOp - 1
      BY <1>1, <2>1
    <3>3. ErrCnt = IF copOp <= 8 THEN Wrong("enc", Compared) ELSE Wrong("dec", Compared - 8)
      <4>1. CASE copOp <= 8
        BY <3>1, <3>2, <4>1
      <4>2. CASE ~(copOp <= 8)
        <5>1. ErrCnt = Wrong("dec", Compared - 8)
          BY <3>1, <3>2, <4>2, Zenon
        <5>. QED  BY <4>2, <5>1, Zenon
      <4>. QED  BY <4>1, <4>2
    <3>4. ErrCnt = IF copOp <= 8 THEN Wrong("enc", copOp - 1) ELSE Wrong("dec", copOp - 9)
      BY <3>2, <3>3, Zenon
    <3>5. exit = 0 <=> (Compared >= 8 => "enc" \notin broken)
      BY <3>1, <3>2, Zenon
    <3>. QED  BY <3>2, <3>4, <3>5, Zenon
  <2>4. EndOfUnit <=> copOp \in {8, 16}
    <3>1. copOp % 8 = 0 <=> copOp \in {8, 16}
      BY <2>1
    <3>. QED  BY <3>1, <2>1 DEF EndOfUnit
  <2>. DEFINE count == (ErrCnt + Mismatch) % 256
  <2>5. count = IF copOp <= 8 THEN Wrong("enc", copOp) ELSE Wrong("dec", copOp - 8)
    <3>1. \A b \in 1..8 : \A w \in {1, 16} :
            ((b - 1) * w + 1 * w) % 256 = b * w /\ (0 + 0) % 256 = 0
      <4>1. \A b \in 1..8 : ((b - 1) * 1 + 1 * 1) % 256 = b * 1
        OBVIOUS
      <4>2. \A b \in 1..8 : ((b - 1) * 16 + 1 * 16) % 256 = b * 16
        OBVIOUS
      <4>. QED  BY <4>1, <4>2
    <3>2. \A u : \A b \in 1..8 : (Wrong(u, b - 1) + Wrong(u, 1)) % 256 = Wrong(u, b)
      <4>. TAKE u
      <4>. TAKE b \in 1..8
      <4>1. CASE u \in broken
        BY <4>1, <3>1, <2>1 DEF Wrong
      <4>2. CASE u \notin broken
        BY <4>2 DEF Wrong
      <4>. QED  BY <4>1, <4>2
    <3>3. CASE copOp <= 8
      <4>1. copOp \in 1..8
        BY <2>1, <3>3
      <4>2. ErrCnt = Wrong("enc", copOp - 1) /\ Mismatch = Wrong("enc", 1)
        BY <3>3, <2>2, <2>3
      <4>3. count = Wrong("enc", copOp)
        BY <4>1, <4>2, <3>2, Zenon
      <4>. QED  BY <4>3, <3>3
    <3>4. CASE copOp > 8
      <4>1. copOp - 8 \in 1..8 /\ copOp - 9 = (copOp - 8) - 1 /\ ~(copOp <= 8)
        BY <2>1, <3>4
      <4>2. ErrCnt = Wrong("dec", (copOp - 8) - 1) /\ Mismatch = Wrong("dec", 1)
        BY <4>1, <2>2, <2>3
      <4>3. count = Wrong("dec", copOp - 8)
        BY <4>1, <4>2, <3>2, Zenon
      <4>. QED  BY <4>1, <4>3
    <3>. QED  BY <3>3, <3>4, <2>1
  <2>. HIDE DEF count
  <2>6. /\ ErrCnt' = IF EndOfUnit THEN 0 ELSE count
        /\ exit' = IF EndOfUnit THEN exit + Failed(count) ELSE exit
    BY <1>1, <1>6 DEF Compare, count
  <2>7. \A b \in 1..8 : Wrong("enc", b) \in Nat /\ Wrong("dec", b) \in Nat
    BY <2>1 DEF Wrong
  <2>8. /\ Wrong("enc", 8) = 0 <=> "enc" \notin broken
        /\ Wrong("dec", 8) = 0 <=> "dec" \notin broken
    BY <2>1 DEF Wrong
  <2>9. /\ exit' \in Nat /\ ErrCnt' \in Nat
        /\ exit' = 0 <=> (copOp >= 8 => "enc" \notin broken) /\ (copOp = 16 => "dec" \notin broken)
        /\ ErrCnt' = IF copOp < 8 THEN Wrong("enc", copOp)
                     ELSE IF copOp < 16 THEN Wrong("dec", copOp - 8) ELSE 0
    <3>1. CASE copOp < 8
      <4>1. copOp \in 1..8 /\ copOp <= 8 /\ ~(copOp > 8) /\ ~(copOp >= 8) /\ copOp # 16
        BY <2>1, <3>1
      <4>2. ErrCnt' = Wrong("enc", copOp) /\ exit' = exit
        BY <2>4, <2>5, <2>6, <3>1, <4>1
      <4>. QED  BY <4>1, <4>2, <2>3, <2>7, <1>3, <3>1
    <3>2. CASE copOp = 8
      <4>1. ErrCnt' = 0 /\ exit' = exit + Failed(Wrong("enc", 8)) /\ exit = 0
        BY <2>3, <2>4, <2>5, <2>6, <3>2
      <4>2. exit' = IF "enc" \in broken THEN 1 ELSE 0
        BY <4>1, <2>8 DEF Failed
      <4>3. Wrong("dec", copOp - 8) = 0 /\ copOp - 8 = 0
        BY <3>2, <2>1 DEF Wrong
      <4>. QED  BY <4>1, <4>2, <4>3, <3>2
    <3>3. CASE copOp > 8 /\ copOp < 16
      <4>1. copOp - 8 \in 1..8
        BY <2>1, <3>3
      <4>2. ErrCnt' = Wrong("dec", copOp - 8) /\ exit' = exit
        BY <2>1, <2>4, <2>5, <2>6, <3>3
      <4>. QED  BY <4>1, <4>2, <2>1, <2>3, <2>7, <1>3, <3>3
    <3>4. CASE copOp = 16
      <4>1. ErrCnt' = 0 /\ exit' = exit + Failed(Wrong("dec", 8))
            /\ (exit = 0 <=> "enc" \notin broken)
        BY <2>3, <2>4, <2>5, <2>6, <3>4
      <4>. QED  BY <4>1, <2>8, <3>4, <1>3 DEF Failed
    <3>. QED  BY <2>1, <3>1, <3>2, <3>3, <3>4
  <2>10. \A u, b : Wrong(u, b)' = Wrong(u, b)
    BY <1>1 DEF Wrong
  <2>. QED  BY <1>1, <1>6, <2>9, <2>10 DEF CountsRight
<1>. QED  BY <1>3, <1>5, <1>6

LEMMA CountsKept ==
  ASSUME CopInv, NEW fin \in BOOLEAN, CopEdge(fin) PROVE CountsRight'
<1>1. CASE copPc = "compare" /\ dmem_req_ack
  BY <1>1, ComparisonCounts
<1>2. CASE ~(copPc = "compare" /\ dmem_req_ack)
  <2>1. UNCHANGED <<copTest, broken, wrongBytes, copOp, ErrCnt, exit>> /\ copPc # "stop"
        /\ copPc \in CopPlaces
    BY <1>2 DEF CopEdge, Program, CopInv, CopTypes
  <2>2. copPc' \in {"verdict", "stop"} <=> copPc = "verdict"
    BY <1>2, <2>1 DEF CopEdge, Program, NextAccess, Poll, CopPlaces
  <2>3. Compared' = Compared
    BY <2>1, <2>2 DEF Compared
  <2>4. copPc' = "stop" => reg_gpio_odata' = Verdict(exit)
    BY <1>2, <2>1 DEF CopEdge, Program, NextAccess, Poll, CopPlaces
  <2>5. \A i, u, b : Unit(i)' = Unit(i) /\ Wrong(u, b)' = Wrong(u, b)
    BY <2>1 DEF Unit, Wrong
  <2>6. Verdict(exit)' = Verdict(exit)
    BY <2>1 DEF Verdict
  <2>. QED  BY <2>1, <2>3, <2>4, <2>5, <2>6 DEF CopInv, CountsRight
<1>. QED  BY <1>1, <1>2

LEMMA CopStepInv == CopInv /\ [CopNext]_copVars => CopInv'
<1>. SUFFICES ASSUME CopInv, [CopNext]_copVars PROVE CopInv'
  OBVIOUS
<1>1. CASE CopNext
  <2>1. PICK fin \in BOOLEAN : CopEdge(fin)
    BY <1>1 DEF CopNext, CopStep
  <2>. QED  BY <2>1, CopTyped, HandshakeKept, CountsKept DEF CopInv
<1>2. CASE UNCHANGED copVars
  BY <1>2 DEF copVars, CopInv, CopTypes, Handshake, EngineIdle, CountsRight, Compared, Wrong,
              Unit, LastOp
<1>. QED  BY <1>1, <1>2

LEMMA CopStands == [Next]_allVars => [CopNext]_copVars
<1>1. Next => CopNext \/ UNCHANGED copOwn
  BY DEF Next, PrintRest, ThreadRest, ConsoleRest, RtcRest, TcmRest, CopyRest, LedRest,
         EchoRest, RegRest, IntrRest, MotorRest, JtagRest, SketchRest, WireRest, ReportRest, coreOwn
<1>. QED  BY <1>1, ImageStays DEF copOwn, copVars, allVars, coreOwn

------------------------------------------------------------------------------
(* The test of the tightly coupled memory (arduino_tcm_test.ino.cpp). *)

(* A fault that the test does not see, or there is none; an address line
   that folds tested words onto each other. *)
Unseen == fault = <<"none">> \/ \E line \in 1..8 : fault = Stuck(line)
Folded == \E line \in {0, 9, 10} : fault = Stuck(line)

TestWords == {0, 1, 510, 511, 512, 513, 1022, 1023, 1024, 1025, 1534, 1535, 1536, 1537, 2046, 2047}

(* A cell holds four bytes. *)
FourBytes == \A c : Content(c) = [b \in 1..4 |-> Content(c)[b]]

TcmTypes ==
  /\ fault \in Faults /\ at_step \in 1..55 /\ TestStatus \in BOOLEAN
  /\ FourBytes
  /\ tcm_mail_box = IF at_step = 55 THEN 255 ELSE 0

(* The words as they were written, the first lost when a later one is
   folded onto it. *)
WordsKept ==
  ~Folded /\ at_step <= 33 =>
    \A i \in 1..16 : i < at_step => Content(Cell(WordOrder[i])) = WordData(WordOrder[i])
FirstLost ==
  Folded /\ at_step <= 33 =>
    \A q \in 2..16 : Cell(WordOrder[q]) = 0 /\ q < at_step => Content(0) # WordData(0)

(* The bytes as they were written, byte b of the k-th word in step
   28 + 4k + b; in word 0 two alike without byte enables, and one on
   another's place when the halves are exchanged. *)
BytesKept ==
  Unseen => \A k, b \in 1..4 : 28 + 4 * k + b < at_step =>
              Content(ByteOrder[k])[b] = ByteData(ByteOrder[k])[b]
FirstAlike == fault = <<"enables">> /\ at_step > 33 => Content(0)[1] = Content(0)[2]
FirstMoved == fault = <<"halves">> /\ at_step > 33 => Content(0)[3] = <<0, "byte", 1>>

(* When the status falls. *)
StatusTells ==
  /\ Unseen => TestStatus
  /\ Folded => (TestStatus <=> at_step <= 17)
  /\ fault \in {<<"enables">>, <<"halves">>} => (TestStatus <=> at_step <= 49)

TcmInv ==
  TcmTypes /\ WordsKept /\ FirstLost /\ BytesKept /\ FirstAlike /\ FirstMoved /\ StatusTells

(* The faults are different ones. *)
LEMMA FaultKinds ==
  ASSUME fault \in Faults
  PROVE  /\ fault \in {<<"none">>, <<"enables">>, <<"halves">>} \/ \E l \in 0..10 : fault = Stuck(l)
         /\ \A l : Stuck(l)[1] = "line" /\ Stuck(l)[2] = l
         /\ \A l : Stuck(l) \notin {<<"none">>, <<"enables">>, <<"halves">>}
         /\ <<"none">>[1] = "none" /\ <<"enables">>[1] = "enables" /\ <<"halves">>[1] = "halves"
         /\ <<"none">> # <<"enables">> /\ <<"none">> # <<"halves">> /\ <<"enables">> # <<"halves">>
<1>1. fault \in {<<"none">>, <<"enables">>, <<"halves">>} \/ \E l \in 0..10 : fault = Stuck(l)
  BY Zenon DEF Faults
<1>2. \A l : Stuck(l)[1] = "line" /\ Stuck(l)[2] = l
  BY DEF Stuck
<1>3. <<"none">>[1] = "none" /\ <<"enables">>[1] = "enables" /\ <<"halves">>[1] = "halves"
  OBVIOUS
<1>4. <<"none">> # <<"enables">> /\ <<"none">> # <<"halves">> /\ <<"enables">> # <<"halves">>
  OBVIOUS
<1>5. \A l : Stuck(l) \notin {<<"none">>, <<"enables">>, <<"halves">>}
  BY DEF Stuck
<1>. QED  BY <1>1, <1>2, <1>3, <1>4, <1>5, Zenon

LEMMA FaultClasses ==
  ASSUME fault \in Faults
  PROVE  /\ Unseen \/ Folded \/ fault \in {<<"enables">>, <<"halves">>}
         /\ ~(Unseen /\ Folded)
         /\ ~(Unseen /\ fault \in {<<"enables">>, <<"halves">>})
         /\ ~(Folded /\ fault \in {<<"enables">>, <<"halves">>})
         /\ (Unseen \/ Folded => fault # <<"halves">> /\ fault # <<"enables">>)
<1>1. ASSUME NEW l \in 0..10, fault = Stuck(l)
      PROVE  (Unseen <=> l \in 1..8) /\ (Folded <=> l \in {0, 9, 10})
             /\ fault \notin {<<"none">>, <<"enables">>, <<"halves">>}
  BY <1>1, FaultKinds DEF Unseen, Folded
<1>2. ASSUME fault \in {<<"none">>, <<"enables">>, <<"halves">>}
      PROVE  (Unseen <=> fault = <<"none">>) /\ ~Folded
  BY <1>2, FaultKinds DEF Unseen, Folded
<1>. QED  BY <1>1, <1>2, FaultKinds

(* The order of the words. *)
LEMMA TestWordFacts ==
  /\ \A i \in 1..16 : WordOrder[i] \in TestWords
  /\ \A i, j \in 1..16 : WordOrder[i] = WordOrder[j] => i = j
  /\ WordOrder[1] = 0 /\ WordOrder[2] = 1 /\ WordOrder[5] = 512 /\ WordOrder[9] = 1024
<1>1. /\ WordOrder[1] = 0 /\ WordOrder[2] = 1 /\ WordOrder[3] = 510 /\ WordOrder[4] = 511
      /\ WordOrder[5] = 512 /\ WordOrder[6] = 513 /\ WordOrder[7] = 1022 /\ WordOrder[8] = 1023
      /\ WordOrder[9] = 1024 /\ WordOrder[10] = 1025 /\ WordOrder[11] = 1534
      /\ WordOrder[12] = 1535 /\ WordOrder[13] = 1536 /\ WordOrder[14] = 1537
      /\ WordOrder[15] = 2046 /\ WordOrder[16] = 2047
  BY DEF WordOrder
<1>2. \A i \in 1..16 : \/ i = 1 \/ i = 2 \/ i = 3 \/ i = 4 \/ i = 5 \/ i = 6 \/ i = 7 \/ i = 8
                       \/ i = 9 \/ i = 10 \/ i = 11 \/ i = 12 \/ i = 13 \/ i = 14 \/ i = 15
                       \/ i = 16
  OBVIOUS
<1>3. \A i \in 1..16 : WordOrder[i] \in TestWords
  BY <1>1, <1>2 DEF TestWords
<1>4. \A i, j \in 1..16 : i < j => WordOrder[i] < WordOrder[j]
  BY <1>1, <1>2
<1>5. \A i, j \in 1..16 : i < j \/ j < i \/ i = j
  OBVIOUS
<1>6. \A i \in 1..16 : WordOrder[i] \in Int
  BY <1>3 DEF TestWords
<1>. QED  BY <1>1, <1>3, <1>4, <1>5, <1>6

LEMMA ByteFacts ==
  /\ ByteOrder[1] = 0 /\ ByteOrder[2] = 512 /\ ByteOrder[3] = 1024 /\ ByteOrder[4] = 1536
  /\ \A k \in 1..4 : ByteOrder[k] = 512 * (k - 1)
<1>1. ByteOrder[1] = 0 /\ ByteOrder[2] = 512 /\ ByteOrder[3] = 1024 /\ ByteOrder[4] = 1536
  BY DEF ByteOrder
<1>2. \A k \in 1..4 : k = 1 \/ k = 2 \/ k = 3 \/ k = 4
  OBVIOUS
<1>. QED  BY <1>1, <1>2

(* What an address line at 0 does to a word. *)
LEMMA LineOf ==
  ASSUME NEW line \in 1..8
  PROVE  /\ 2^line \in 2..256
         /\ \A w \in TestWords : (w \div 2^line) % 2 = 1 <=> w % 512 \in {510, 511}
<1>. DEFINE P(p) == p \in 2..256 /\ \A w \in TestWords : (w \div p) % 2 = 1 <=> w % 512 \in {510, 511}
<1>1. P(2)
  BY DEF TestWords
<1>2. P(4)
  BY DEF TestWords
<1>3. P(8)
  BY DEF TestWords
<1>4. P(16)
  BY DEF TestWords
<1>5. P(32)
  BY DEF TestWords
<1>6. P(64)
  BY DEF TestWords
<1>7. P(128)
  BY DEF TestWords
<1>8. P(256)
  BY DEF TestWords
<1>9. 2^line \in {2, 4, 8, 16, 32, 64, 128, 256}
  <2>1. 2^1 = 2 /\ 2^2 = 4 /\ 2^3 = 8 /\ 2^4 = 16 /\ 2^5 = 32 /\ 2^6 = 64 /\ 2^7 = 128 /\ 2^8 = 256
    OBVIOUS
  <2>2. line = 1 \/ line = 2 \/ line = 3 \/ line = 4 \/ line = 5 \/ line = 6 \/ line = 7 \/ line = 8
    OBVIOUS
  <2>3. CASE line = 1
    BY <2>1, <2>3
  <2>4. CASE line = 2
    BY <2>1, <2>4
  <2>5. CASE line = 3
    BY <2>1, <2>5
  <2>6. CASE line = 4
    BY <2>1, <2>6
  <2>7. CASE line = 5
    BY <2>1, <2>7
  <2>8. CASE line = 6
    BY <2>1, <2>8
  <2>9. CASE line = 7
    BY <2>1, <2>9
  <2>10. CASE line = 8
    BY <2>1, <2>10
  <2>. QED  BY <2>2, <2>3, <2>4, <2>5, <2>6, <2>7, <2>8, <2>9, <2>10
<1>10. P(2^line)
  <2>. HIDE DEF P
  <2>. QED  BY <1>1, <1>2, <1>3, <1>4, <1>5, <1>6, <1>7, <1>8, <1>9
<1>. QED  BY <1>10

LEMMA CellsApart ==
  ASSUME fault \in Faults, ~Folded
  PROVE  /\ \A v, w \in TestWords : Cell(v) = Cell(w) => v = w
         /\ \A w \in {0, 512, 1024, 1536} : Cell(w) = w
<1>1. CASE fault \in {<<"none">>, <<"enables">>, <<"halves">>}
  <2>1. \A w : Cell(w) = w
    BY <1>1, FaultKinds DEF Cell
  <2>. QED  BY <2>1
<1>2. ASSUME NEW line \in 0..10, fault = Stuck(line)
      PROVE  /\ \A v, w \in TestWords : Cell(v) = Cell(w) => v = w
             /\ \A w \in {0, 512, 1024, 1536} : Cell(w) = w
  <2>1. line \in 1..8
    BY <1>2 DEF Folded
  <2>2. fault[1] = "line" /\ fault[2] = line
    BY <1>2, FaultKinds
  <2>8. /\ 2^line \in 2..256
        /\ \A w \in TestWords : (w \div 2^line) % 2 = 1 <=> w % 512 \in {510, 511}
    BY <2>1, LineOf, ZenonT(40)
  <2>3. PICK p \in 2..256 : p = 2^line
    BY <2>8
  <2>4. \A w \in TestWords : Cell(w) = IF w % 512 \in {510, 511} THEN w - p ELSE w
    <3>1. \A w : Cell(w) = IF (w \div p) % 2 = 1 THEN w - p ELSE w
      BY <2>2, <2>3, Zenon DEF Cell
    <3>2. \A w \in TestWords : (w \div p) % 2 = 1 <=> w % 512 \in {510, 511}
      BY <2>8, <2>3, ZenonT(40)
    <3>. QED  BY <3>1, <3>2
  <2>5. \A w \in TestWords : w \in 0..2047 /\ w % 512 \in {0, 1, 510, 511}
    BY DEF TestWords
  <2>6. ASSUME NEW v \in TestWords, NEW w \in TestWords, Cell(v) = Cell(w) PROVE v = w
    <3>1. v \in 0..2047 /\ v % 512 \in {0, 1, 510, 511} /\ w \in 0..2047 /\ w % 512 \in {0, 1, 510, 511}
      BY <2>5
    <3>2. /\ Cell(v) = IF v % 512 \in {510, 511} THEN v - p ELSE v
          /\ Cell(w) = IF w % 512 \in {510, 511} THEN w - p ELSE w
      BY <2>4
    <3>. DEFINE a == v \div 512
                b == w \div 512
                r == v % 512
                q == w % 512
    <3>3. /\ a \in Int /\ b \in Int /\ r \in Int /\ q \in Int
          /\ v = 512 * a + r /\ w = 512 * b + q
      BY <3>1
    <3>4. r \in {0, 1, 510, 511} /\ q \in {0, 1, 510, 511}
      BY <3>1
    <3>9. /\ Cell(v) = IF r \in {510, 511} THEN v - p ELSE v
          /\ Cell(w) = IF q \in {510, 511} THEN w - p ELSE w
      BY <3>2
    <3>. HIDE DEF a, b, r, q
    <3>5. CASE r \in {510, 511} <=> q \in {510, 511}
      <4>1. v = w
        <5>1. CASE r \in {510, 511}
          <6>1. v - p = w - p
            BY <2>6, <3>5, <3>9, <5>1, Zenon
          <6>. QED  BY <3>1, <6>1
        <5>2. CASE r \notin {510, 511}
          BY <2>6, <3>5, <3>9, <5>2, Zenon
        <5>. QED  BY <5>1, <5>2
      <4>. QED  BY <4>1
    <3>6. CASE r \in {510, 511} /\ q \in {0, 1}
      <4>1. v - p = w
        <5>1. q \notin {510, 511} /\ r \in {510, 511}
          BY <3>6
        <5>2. Cell(v) = v - p
          BY <3>9, <5>1
        <5>3. Cell(w) = w
          BY <3>9, <5>1
        <5>. QED  BY <2>6, <5>2, <5>3
      <4>2. 512 * (a - b) + r - p = q
        BY <3>3, <4>1
      <4>3. r - p - q >= 253 /\ r - p - q <= 509
        BY <3>3, <3>6
      <4>. QED  BY <3>3, <4>2, <4>3
    <3>7. CASE q \in {510, 511} /\ r \in {0, 1}
      <4>1. w - p = v
        <5>1. r \notin {510, 511} /\ q \in {510, 511}
          BY <3>7
        <5>2. Cell(v) = v
          BY <3>9, <5>1
        <5>3. Cell(w) = w - p
          BY <3>9, <5>1
        <5>. QED  BY <2>6, <5>2, <5>3
      <4>2. 512 * (b - a) + q - p = r
        BY <3>3, <4>1
      <4>3. q - p - r >= 253 /\ q - p - r <= 509
        BY <3>3, <3>7
      <4>. QED  BY <3>3, <4>2, <4>3
    <3>. QED  BY <3>4, <3>5, <3>6, <3>7
  <2>7. \A w \in {0, 512, 1024, 1536} : w \in TestWords /\ w % 512 \notin {510, 511}
    BY DEF TestWords
  <2>. QED  BY <2>4, <2>6, <2>7
<1>. QED  BY <1>1, <1>2, FaultKinds

LEMMA CellsFolded ==
  ASSUME fault \in Faults, Folded
  PROVE  Cell(0) = 0 /\ \E q \in 2..16 : Cell(WordOrder[q]) = 0
<1>1. PICK line \in {0, 9, 10} : fault = Stuck(line)
  BY DEF Folded
<1>2. fault[1] = "line" /\ fault[2] = line
  BY <1>1, FaultKinds
<1>3. 2^0 = 1 /\ 2^9 = 512 /\ 2^10 = 1024
  OBVIOUS
<1>4. CASE line = 0
  <2>1. Cell(0) = 0 /\ Cell(WordOrder[2]) = 0
    BY <1>2, <1>3, <1>4, TestWordFacts DEF Cell
  <2>. QED  BY <2>1
<1>5. CASE line = 9
  <2>1. Cell(0) = 0 /\ Cell(WordOrder[5]) = 0
    BY <1>2, <1>3, <1>5, TestWordFacts DEF Cell
  <2>. QED  BY <2>1
<1>6. CASE line = 10
  <2>1. Cell(0) = 0 /\ Cell(WordOrder[9]) = 0
    BY <1>2, <1>3, <1>6, TestWordFacts DEF Cell
  <2>. QED  BY <2>1
<1>. QED  BY <1>1, <1>4, <1>5, <1>6

(* What a cell holds after one of them is written. *)
LEMMA CellWritten ==
  ASSUME NEW c, NEW d, Store(c, d)
  PROVE  \A e : Content(e)' = IF e = c THEN d ELSE Content(e)
<1>1. /\ DOMAIN cells' = {c} \cup DOMAIN cells
      /\ \A e \in {c} \cup DOMAIN cells : cells'[e] = IF e = c THEN d ELSE cells[e]
  BY DEF Store
<1>2. ASSUME NEW e PROVE Content(e)' = IF e = c THEN d ELSE Content(e)
  <2>1. Content(e)' = IF e \in DOMAIN cells' THEN cells'[e] ELSE Unwritten
    BY DEF Content, Unwritten
  <2>2. CASE e = c
    BY <1>1, <2>1, <2>2
  <2>3. CASE e # c /\ e \in DOMAIN cells
    BY <1>1, <2>1, <2>3 DEF Content
  <2>4. CASE e # c /\ e \notin DOMAIN cells
    BY <1>1, <2>1, <2>4 DEF Content
  <2>. QED  BY <2>2, <2>3, <2>4
<1>. QED  BY <1>2

LEMMA WordStored ==
  ASSUME NEW w, reg_write(w)
  PROVE  \A e : Content(e)' = IF e = Cell(w) THEN WordData(w) ELSE Content(e)
<1>1. <<WordData(w)[3], WordData(w)[4], WordData(w)[1], WordData(w)[2]>> = WordData(w)
  BY DEF WordData
<1>2. Store(Cell(w), WordData(w))
  BY <1>1 DEF reg_write
<1>. QED  BY <1>2, CellWritten

LEMMA ByteStored ==
  ASSUME NEW w, NEW b \in 1..4, reg_8bit_write(w, b)
  PROVE  /\ \A e : e # Cell(w) => Content(e)' = Content(e)
         /\ \A e : e = Cell(w) =>
              Content(e)' =
                IF fault = <<"enables">>
                THEN <<<<w, "byte", b>>, <<w, "byte", b>>, <<w, "byte", b>>, <<w, "byte", b>>>>
                ELSE IF fault = <<"halves">>
                THEN [Content(e) EXCEPT ![((b + 1) % 4) + 1] = <<w, "byte", b>>]
                ELSE [Content(e) EXCEPT ![b] = <<w, "byte", b>>]
<1>1. ByteData(w)[b] = <<w, "byte", b>>
  BY DEF ByteData
<1>. DEFINE lane == IF fault = <<"halves">> THEN ((b + 1) % 4) + 1 ELSE b
            one == <<w, "byte", b>>
            d == IF fault = <<"enables">> THEN <<one, one, one, one>>
                 ELSE [Content(Cell(w)) EXCEPT ![lane] = one]
<1>2. Store(Cell(w), d)
  BY <1>1 DEF reg_8bit_write
<1>3. \A e : Content(e)' = IF e = Cell(w) THEN d ELSE Content(e)
  <2>. HIDE DEF d
  <2>. QED  BY <1>2, CellWritten
<1>4. <<"halves">> # <<"enables">>
  OBVIOUS
<1>5. \A e : Content(e)' = IF e = Cell(w) THEN
                            IF fault = <<"enables">> THEN <<one, one, one, one>>
                            ELSE IF fault = <<"halves">>
                            THEN [Content(e) EXCEPT ![((b + 1) % 4) + 1] = one]
                            ELSE [Content(e) EXCEPT ![b] = one]
                          ELSE Content(e)
  <2>. SUFFICES ASSUME NEW e PROVE
         Content(e)' = IF e = Cell(w) THEN
                         IF fault = <<"enables">> THEN <<one, one, one, one>>
                         ELSE IF fault = <<"halves">>
                         THEN [Content(e) EXCEPT ![((b + 1) % 4) + 1] = one]
                         ELSE [Content(e) EXCEPT ![b] = one]
                       ELSE Content(e)
    OBVIOUS
  <2>1. Content(e)' = IF e = Cell(w) THEN d ELSE Content(e)
    BY <1>3
  <2>2. CASE fault = <<"enables">>
    BY <2>1, <2>2, Zenon
  <2>3. CASE fault = <<"halves">>
    BY <1>4, <2>1, <2>3
  <2>4. CASE fault # <<"halves">> /\ fault # <<"enables">>
    BY <2>1, <2>4, Zenon
  <2>. QED  BY <2>2, <2>3, <2>4
<1>. QED  BY <1>5

(* The fault stays, and what it is and does to the cells with it. *)
LEMMA FaultStays ==
  ASSUME UNCHANGED fault
  PROVE  /\ Unseen' = Unseen /\ Folded' = Folded
         /\ \A w : Cell(w)' = Cell(w)
<1>1. (Unseen' <=> Unseen) /\ (Folded' <=> Folded)
  BY DEF Unseen, Folded
<1>2. \A w : Cell(w)' = Cell(w)
  BY DEF Cell
<1>. QED  BY <1>1, <1>2 DEF Unseen, Folded

LEMMA DataDiffer == \A v, w : WordData(v) = WordData(w) => v = w
<1>1. \A w : WordData(w)[1][1] = w
  BY DEF WordData
<1>. QED  BY <1>1

LEMMA WordWritten ==
  ASSUME TcmInv, at_step \in 1..16, reg_write(WordOrder[at_step]), at_step' = at_step + 1,
         UNCHANGED <<TestStatus, fault, tcm_mail_box>>
  PROVE  TcmInv'
<1>. DEFINE w == WordOrder[at_step]
<1>1. /\ fault \in Faults /\ FourBytes /\ tcm_mail_box = 0
      /\ w \in TestWords
  BY TestWordFacts DEF TcmInv, TcmTypes
<1>2. \A e : Content(e)' = IF e = Cell(w) THEN WordData(w) ELSE Content(e)
  BY WordStored
<1>3. /\ Unseen' = Unseen /\ Folded' = Folded
      /\ \A v : Cell(v)' = Cell(v) /\ WordData(v)' = WordData(v)
  BY FaultStays DEF WordData
<1>4. TcmTypes'
  <2>1. WordData(w) = [b \in 1..4 |-> WordData(w)[b]]
    BY DEF WordData
  <2>2. FourBytes'
    <3>. SUFFICES ASSUME NEW e PROVE Content(e)' = [b \in 1..4 |-> Content(e)'[b]]
      BY DEF FourBytes
    <3>1. CASE e = Cell(w)
      <4>1. Content(e)' = WordData(w)
        BY <1>2, <3>1
      <4>. QED  BY <2>1, <4>1
    <3>2. CASE e # Cell(w)
      <4>1. Content(e)' = Content(e)
        BY <1>2, <3>2
      <4>. QED  BY <1>1, <4>1 DEF FourBytes
    <3>. QED  BY <3>1, <3>2
  <2>. QED  BY <1>1, <2>2 DEF TcmInv, TcmTypes
<1>5. WordsKept'
  <2>. SUFFICES ASSUME ~Folded, NEW i \in 1..16, i < at_step + 1
                PROVE  Content(Cell(WordOrder[i]))' = WordData(WordOrder[i])
    BY <1>3 DEF WordsKept, WordData
  <2>1. Content(Cell(WordOrder[i]))' = IF Cell(WordOrder[i]) = Cell(w) THEN WordData(w)
                                        ELSE Content(Cell(WordOrder[i]))
    <3>1. PICK e : e = Cell(WordOrder[i])
      OBVIOUS
    <3>2. Content(e)' = IF e = Cell(w) THEN WordData(w) ELSE Content(e)
      BY <1>2
    <3>3. Cell(WordOrder[i])' = e
      BY <1>3, <3>1
    <3>4. Content(Cell(WordOrder[i]))' = Content(e)'
      BY <3>3 DEF Content
    <3>. QED  BY <3>1, <3>2, <3>4
  <2>2. CASE i = at_step
    BY <2>1, <2>2
  <2>3. CASE i < at_step
    <3>1. WordOrder[i] # w /\ WordOrder[i] \in TestWords
      BY <2>3, TestWordFacts
    <3>2. Cell(WordOrder[i]) # Cell(w)
      BY <1>1, <3>1, CellsApart
    <3>. QED  BY <2>1, <2>3, <3>2 DEF TcmInv, WordsKept
  <2>. QED  BY <2>2, <2>3
<1>6. FirstLost'
  <2>. SUFFICES ASSUME Folded, NEW q \in 2..16, Cell(WordOrder[q]) = 0, q < at_step + 1
                PROVE  Content(0)' # WordData(0)
    BY <1>3 DEF FirstLost, WordData
  <2>1. Content(0)' = IF Cell(w) = 0 THEN WordData(w) ELSE Content(0)
    BY <1>2
  <2>2. w # 0
    BY TestWordFacts
  <2>3. CASE Cell(w) = 0
    BY <2>1, <2>2, <2>3, DataDiffer
  <2>4. CASE Cell(w) # 0
    <3>1. q # at_step
      BY <2>4
    <3>. QED  BY <2>1, <2>4, <3>1 DEF TcmInv, FirstLost
  <2>. QED  BY <2>3, <2>4
<1>7. BytesKept' /\ FirstAlike' /\ FirstMoved'
  BY DEF BytesKept, FirstAlike, FirstMoved
<1>8. StatusTells'
  BY <1>3 DEF TcmInv, StatusTells
<1>. QED  BY <1>4, <1>5, <1>6, <1>7, <1>8 DEF TcmInv

LEMMA WordCompared ==
  ASSUME TcmInv, at_step \in 17..32, UNCHANGED <<cells, fault, tcm_mail_box>>,
         reg_cmp(WordOrder[at_step - 16], WordData(WordOrder[at_step - 16])), at_step' = at_step + 1
  PROVE  TcmInv'
<1>. DEFINE w == WordOrder[at_step - 16]
<1>1. /\ fault \in Faults /\ FourBytes /\ tcm_mail_box = 0 /\ TestStatus \in BOOLEAN
      /\ at_step - 16 \in 1..16
  BY DEF TcmInv, TcmTypes
<1>2. /\ Unseen' = Unseen /\ Folded' = Folded
      /\ \A v : Cell(v)' = Cell(v) /\ WordData(v)' = WordData(v) /\ Content(v)' = Content(v)
  BY FaultStays DEF WordData, Content
<1>3. TestStatus' = (TestStatus /\ Content(Cell(w)) = WordData(w))
  BY DEF reg_cmp
<1>4. TcmTypes'
  <2>1. FourBytes' /\ TestStatus' \in BOOLEAN
    BY <1>1, <1>2, <1>3 DEF FourBytes
  <2>. QED  BY <1>1, <2>1 DEF TcmInv, TcmTypes
<1>5. WordsKept' /\ FirstLost'
  <2>1. ASSUME ~Folded, NEW i \in 1..16 PROVE Content(Cell(WordOrder[i])) = WordData(WordOrder[i])
    BY <2>1 DEF TcmInv, WordsKept
  <2>2. ASSUME NEW i \in 1..16 PROVE Content(Cell(WordOrder[i]))' = Content(Cell(WordOrder[i]))
    BY <1>2 DEF Content
  <2>3. Folded => \A q \in 2..16 : Cell(WordOrder[q]) = 0 => Content(0) # WordData(0)
    BY DEF TcmInv, FirstLost
  <2>. QED  BY <1>2, <2>1, <2>2, <2>3 DEF WordsKept, FirstLost, WordData
<1>6. BytesKept' /\ FirstAlike' /\ FirstMoved'
  BY DEF BytesKept, FirstAlike, FirstMoved
<1>7. ~Folded => Content(Cell(w)) = WordData(w)
  BY <1>1 DEF TcmInv, WordsKept
<1>8. Folded /\ at_step = 17 => Content(Cell(w)) # WordData(w)
  <2>. SUFFICES ASSUME Folded, at_step = 17 PROVE Content(Cell(w)) # WordData(w)
    OBVIOUS
  <2>1. w = 0 /\ Cell(0) = 0
    BY <1>1, CellsFolded, TestWordFacts
  <2>2. PICK q \in 2..16 : Cell(WordOrder[q]) = 0
    BY <1>1, CellsFolded
  <2>3. q < 17
    OBVIOUS
  <2>. QED  BY <2>1, <2>2, <2>3 DEF TcmInv, FirstLost
<1>9. StatusTells'
  <2>1. /\ Unseen => TestStatus
        /\ Folded => (TestStatus <=> at_step <= 17)
        /\ fault \in {<<"enables">>, <<"halves">>} => TestStatus
    BY DEF TcmInv, StatusTells
  <2>2. ~Folded => TestStatus' = TestStatus
    BY <1>1, <1>3, <1>7
  <2>3. Folded => ~TestStatus'
    <3>. SUFFICES ASSUME Folded PROVE ~TestStatus'
      OBVIOUS
    <3>1. CASE at_step = 17
      BY <1>3, <1>8, <3>1, Zenon
    <3>2. CASE at_step # 17
      <4>1. ~(at_step <= 17)
        BY <3>2
      <4>2. ~TestStatus
        BY <2>1, <4>1
      <4>. QED  BY <1>3, <4>2, Zenon
    <3>. QED  BY <3>1, <3>2
  <2>4. at_step' <= 49 /\ ~(at_step' <= 17)
    OBVIOUS
  <2>5. Unseen => ~Folded
    BY <1>1, FaultClasses
  <2>6. fault \in {<<"enables">>, <<"halves">>} => ~Folded
    BY <1>1, FaultClasses
  <2>. QED  BY <1>2, <2>1, <2>2, <2>3, <2>4, <2>5, <2>6 DEF StatusTells
<1>. QED  BY <1>4, <1>5, <1>6, <1>9 DEF TcmInv

LEMMA ByteWritten ==
  ASSUME TcmInv, NEW k \in 1..4, NEW b \in 1..4, at_step = 28 + 4 * k + b,
         reg_8bit_write(ByteOrder[k], b), at_step' = at_step + 1,
         UNCHANGED <<TestStatus, fault, tcm_mail_box>>
  PROVE  TcmInv'
<1>. DEFINE w == ByteOrder[k]
<1>1. /\ fault \in Faults /\ FourBytes /\ tcm_mail_box = 0 /\ at_step \in 33..48
      /\ w \in {0, 512, 1024, 1536}
  <2>1. at_step # 55 /\ at_step \in 33..48
    OBVIOUS
  <2>. QED  BY <2>1, ByteFacts DEF TcmInv, TcmTypes
<1>2. /\ \A e : e # Cell(w) => Content(e)' = Content(e)
      /\ \A e : e = Cell(w) =>
           Content(e)' =
             IF fault = <<"enables">>
             THEN <<<<w, "byte", b>>, <<w, "byte", b>>, <<w, "byte", b>>, <<w, "byte", b>>>>
             ELSE IF fault = <<"halves">>
             THEN [Content(e) EXCEPT ![((b + 1) % 4) + 1] = <<w, "byte", b>>]
             ELSE [Content(e) EXCEPT ![b] = <<w, "byte", b>>]
  BY ByteStored
<1>3. /\ Unseen' = Unseen /\ Folded' = Folded
      /\ \A v : Cell(v)' = Cell(v)
  BY FaultStays
<1>4. TcmTypes'
  <2>1. FourBytes'
    <3>. SUFFICES ASSUME NEW e PROVE Content(e)' = [c \in 1..4 |-> Content(e)'[c]]
      BY DEF FourBytes
    <3>1. Content(e) = [c \in 1..4 |-> Content(e)[c]]
      BY <1>1 DEF FourBytes
    <3>2. CASE e # Cell(w)
      <4>1. Content(e)' = Content(e)
        BY <1>2, <3>2
      <4>. QED  BY <3>1, <4>1
    <3>3. CASE e = Cell(w) /\ fault = <<"enables">>
      <4>. DEFINE d == <<w, "byte", b>>
      <4>1. Content(e)' = <<d, d, d, d>>
        BY <1>2, <3>3
      <4>. HIDE DEF d
      <4>2. <<d, d, d, d>> = [c \in 1..4 |-> <<d, d, d, d>>[c]]
        OBVIOUS
      <4>. QED  BY <4>1, <4>2
    <3>4. CASE e = Cell(w) /\ fault # <<"enables">>
      <4>1. PICK lane, d : Content(e)' = [Content(e) EXCEPT ![lane] = d]
        BY <1>2, <3>4
      <4>. QED  BY <3>1, <4>1
    <3>. QED  BY <3>2, <3>3, <3>4
  <2>. QED  BY <1>1, <2>1 DEF TcmInv, TcmTypes
<1>5. WordsKept' /\ FirstLost'
  BY <1>1 DEF WordsKept, FirstLost
<1>6. ~Folded => Cell(w) = w /\ \A j \in 1..4 : Cell(ByteOrder[j]) = ByteOrder[j]
  <2>1. \A j \in 1..4 : ByteOrder[j] \in {0, 512, 1024, 1536}
    BY ByteFacts
  <2>. QED  BY <1>1, <2>1, CellsApart
<1>7. BytesKept'
  <2>. SUFFICES ASSUME Unseen, NEW j \in 1..4, NEW c \in 1..4, 28 + 4 * j + c < at_step + 1
                PROVE  Content(ByteOrder[j])'[c] = <<ByteOrder[j], "byte", c>>
    BY <1>3 DEF BytesKept, ByteData
  <2>1. Cell(w) = w /\ fault # <<"halves">> /\ fault # <<"enables">>
    BY <1>1, <1>6, FaultClasses
  <2>2. Content(ByteOrder[j])' = IF ByteOrder[j] = w THEN [Content(ByteOrder[j]) EXCEPT ![b] = <<w, "byte", b>>]
                                 ELSE Content(ByteOrder[j])
    BY <1>2, <2>1
  <2>3. 28 + 4 * j + c < at_step => Content(ByteOrder[j])[c] = <<ByteOrder[j], "byte", c>>
    BY DEF TcmInv, BytesKept, ByteData
  <2>4. Content(ByteOrder[j]) = [i \in 1..4 |-> Content(ByteOrder[j])[i]]
    BY <1>1 DEF FourBytes
  <2>5. CASE j = k
    <3>1. ByteOrder[j] = w /\ (c = b \/ 28 + 4 * j + c < at_step)
      BY <2>5
    <3>2. Content(ByteOrder[j])' = [Content(ByteOrder[j]) EXCEPT ![b] = <<w, "byte", b>>]
      BY <2>2, <3>1
    <3>3. CASE c = b
      BY <2>4, <3>1, <3>2, <3>3
    <3>4. CASE c # b
      BY <2>3, <2>4, <3>1, <3>2, <3>4
    <3>. QED  BY <3>3, <3>4
  <2>6. CASE j # k
    <3>1. ByteOrder[j] # w
      BY <2>6, ByteFacts
    <3>2. 28 + 4 * j + c < at_step
      BY <2>6
    <3>. QED  BY <2>2, <2>3, <3>1, <3>2
  <2>. QED  BY <2>5, <2>6
<1>8. FirstAlike'
  <2>. SUFFICES ASSUME fault = <<"enables">> PROVE Content(0)'[1] = Content(0)'[2]
    BY DEF FirstAlike
  <2>1. Cell(w) = w
    BY <1>1, <1>6, FaultClasses
  <2>2. CASE w = 0
    <3>. DEFINE d == <<w, "byte", b>>
    <3>1. Content(0)' = <<d, d, d, d>>
      BY <1>2, <2>1, <2>2
    <3>. HIDE DEF d
    <3>. QED  BY <3>1
  <2>3. CASE w # 0
    <3>1. Content(0)' = Content(0)
      BY <1>2, <2>1, <2>3
    <3>2. at_step > 33
      BY <2>3, ByteFacts
    <3>. QED  BY <3>1, <3>2 DEF TcmInv, FirstAlike
  <2>. QED  BY <2>2, <2>3
<1>9. FirstMoved'
  <2>. SUFFICES ASSUME fault = <<"halves">> PROVE Content(0)'[3] = <<0, "byte", 1>>
    BY DEF FirstMoved
  <2>1. Cell(w) = w /\ fault # <<"enables">>
    BY <1>1, <1>6, FaultClasses, FaultKinds
  <2>2. CASE w = 0
    <3>1. Content(0)' = [Content(0) EXCEPT ![((b + 1) % 4) + 1] = <<0, "byte", b>>]
      BY <1>2, <2>1, <2>2
    <3>2. Content(0) = [i \in 1..4 |-> Content(0)[i]]
      BY <1>1 DEF FourBytes
    <3>3. CASE b = 1
      <4>1. ((b + 1) % 4) + 1 = 3
        BY <3>3
      <4>. QED  BY <3>1, <3>2, <3>3, <4>1
    <3>4. CASE b # 1
      <4>1. ((b + 1) % 4) + 1 # 3 /\ at_step > 33
        BY <3>4
      <4>2. Content(0)[3] = <<0, "byte", 1>>
        BY <4>1 DEF TcmInv, FirstMoved
      <4>. QED  BY <3>1, <3>2, <4>1, <4>2
    <3>. QED  BY <3>3, <3>4
  <2>3. CASE w # 0
    <3>1. Content(0)' = Content(0)
      BY <1>2, <2>1, <2>3
    <3>2. at_step > 33
      BY <2>3, ByteFacts
    <3>. QED  BY <3>1, <3>2 DEF TcmInv, FirstMoved
  <2>. QED  BY <2>2, <2>3
<1>10. StatusTells'
  BY <1>1, <1>3 DEF TcmInv, StatusTells
<1>. QED  BY <1>4, <1>5, <1>7, <1>8, <1>9, <1>10 DEF TcmInv

LEMMA BytesCompared ==
  ASSUME TcmInv, at_step \in 49..52, UNCHANGED <<cells, fault, tcm_mail_box>>,
         reg_cmp(ByteOrder[at_step - 48], ByteData(ByteOrder[at_step - 48])), at_step' = at_step + 1
  PROVE  TcmInv'
<1>. DEFINE k == at_step - 48
            w == ByteOrder[k]
<1>1. /\ fault \in Faults /\ FourBytes /\ tcm_mail_box = 0 /\ TestStatus \in BOOLEAN
      /\ k \in 1..4 /\ w \in {0, 512, 1024, 1536}
  <2>1. k \in 1..4 /\ at_step # 55
    OBVIOUS
  <2>2. w \in {0, 512, 1024, 1536}
    BY <2>1, ByteFacts
  <2>. QED  BY <2>1, <2>2 DEF TcmInv, TcmTypes
<1>2. /\ Unseen' = Unseen /\ Folded' = Folded
      /\ \A v : Cell(v)' = Cell(v) /\ Content(v)' = Content(v)
  BY FaultStays DEF Content
<1>3. TestStatus' = (TestStatus /\ Content(Cell(w)) = ByteData(w))
  BY DEF reg_cmp
<1>4. TcmTypes'
  <2>1. FourBytes' /\ TestStatus' \in BOOLEAN
    BY <1>1, <1>2, <1>3 DEF FourBytes
  <2>. QED  BY <1>1, <2>1 DEF TcmInv, TcmTypes
<1>5. WordsKept' /\ FirstLost'
  BY DEF WordsKept, FirstLost
<1>6. BytesKept'
  <2>1. ASSUME Unseen, NEW j \in 1..4, NEW c \in 1..4
        PROVE  Content(ByteOrder[j])'[c] = ByteData(ByteOrder[j])[c]
    <3>1. 28 + 4 * j + c < at_step
      OBVIOUS
    <3>. QED  BY <1>2, <2>1, <3>1 DEF TcmInv, BytesKept
  <2>. QED  BY <1>2, <2>1 DEF BytesKept, ByteData
<1>7. FirstAlike' /\ FirstMoved'
  BY <1>2 DEF TcmInv, FirstAlike, FirstMoved
<1>8. Unseen => Content(Cell(w)) = ByteData(w)
  <2>. SUFFICES ASSUME Unseen PROVE Content(Cell(w)) = ByteData(w)
    OBVIOUS
  <2>1. Cell(w) = w
    BY <1>1, FaultClasses, CellsApart
  <2>2. \A c \in 1..4 : Content(w)[c] = ByteData(w)[c]
    <3>1. \A c \in 1..4 : 28 + 4 * k + c < at_step
      OBVIOUS
    <3>. QED  BY <1>1, <3>1 DEF TcmInv, BytesKept
  <2>3. Content(w) = [c \in 1..4 |-> Content(w)[c]]
    BY <1>1 DEF FourBytes
  <2>4. ByteData(w) = [c \in 1..4 |-> ByteData(w)[c]]
    BY DEF ByteData
  <2>. QED  BY <2>1, <2>2, <2>3, <2>4
<1>9. fault \in {<<"enables">>, <<"halves">>} /\ at_step = 49 => Content(Cell(w)) # ByteData(w)
  <2>. SUFFICES ASSUME fault \in {<<"enables">>, <<"halves">>}, at_step = 49
                PROVE  Content(Cell(w)) # ByteData(w)
    OBVIOUS
  <2>1. w = 0 /\ Cell(w) = w
    BY <1>1, FaultClasses, CellsApart, ByteFacts
  <2>2. ByteData(0)[1] # ByteData(0)[2] /\ ByteData(0)[3] # <<0, "byte", 1>>
    BY DEF ByteData
  <2>3. Content(0)[1] = Content(0)[2] \/ Content(0)[3] = <<0, "byte", 1>>
    BY DEF TcmInv, FirstAlike, FirstMoved
  <2>. QED  BY <2>1, <2>2, <2>3
<1>10. StatusTells'
  <2>1. /\ Unseen => TestStatus
        /\ Folded => ~TestStatus
        /\ fault \in {<<"enables">>, <<"halves">>} => (TestStatus <=> at_step <= 49)
    BY DEF TcmInv, StatusTells
  <2>2. Unseen => TestStatus'
    BY <1>3, <1>8, <2>1, Zenon
  <2>3. Folded => ~TestStatus'
    BY <1>3, <2>1, Zenon
  <2>4. ASSUME fault \in {<<"enables">>, <<"halves">>} PROVE ~TestStatus'
    <3>1. CASE at_step = 49
      BY <1>3, <1>9, <2>4, <3>1, Zenon
    <3>2. CASE at_step # 49
      <4>1. ~(at_step <= 49)
        BY <3>2
      <4>2. ~TestStatus
        BY <2>1, <2>4, <4>1
      <4>. QED  BY <1>3, <4>2, Zenon
    <3>. QED  BY <3>1, <3>2
  <2>5. ~(at_step' <= 49) /\ ~(at_step' <= 17)
    OBVIOUS
  <2>. QED  BY <1>2, <2>2, <2>3, <2>4, <2>5 DEF StatusTells
<1>. QED  BY <1>4, <1>5, <1>6, <1>7, <1>10 DEF TcmInv

(* The program in its own specification and next to the others. *)
LEMMA TcmTells == TcmInv => MemoryVerdict
<1>. SUFFICES ASSUME TcmInv, tcm_mail_box = 255 PROVE TestStatus <=> Unseen
  BY DEF MemoryVerdict, Unseen
<1>1. at_step = 55 /\ fault \in Faults
  BY DEF TcmInv, TcmTypes
<1>2. Unseen => TestStatus
  BY DEF TcmInv, StatusTells
<1>3. Folded \/ fault \in {<<"enables">>, <<"halves">>} => ~TestStatus
  BY <1>1 DEF TcmInv, StatusTells
<1>. QED  BY <1>1, <1>2, <1>3, FaultClasses

LEMMA TcmInitInv == TcmInit => TcmInv
<1>. SUFFICES ASSUME TcmInit PROVE TcmInv
  OBVIOUS
<1>1. fault \in Faults /\ at_step = 1 /\ TestStatus = TRUE /\ tcm_mail_box = 0 /\ cells = <<>>
  <2>1. Faults # {}
    BY DEF Faults
  <2>. QED  BY <2>1, ChoiceIn DEF TcmInit
<1>2. FourBytes
  <2>1. DOMAIN cells = {}
    BY <1>1
  <2>2. \A c : Content(c) = Unwritten
    BY <2>1 DEF Content
  <2>3. Unwritten = [b \in 1..4 |-> Unwritten[b]]
    BY DEF Unwritten
  <2>. QED  BY <2>2, <2>3 DEF FourBytes
<1>3. TcmTypes
  BY <1>1, <1>2 DEF TcmTypes
<1>4. WordsKept /\ FirstLost /\ BytesKept /\ FirstAlike /\ FirstMoved /\ StatusTells
  BY <1>1 DEF WordsKept, FirstLost, BytesKept, FirstAlike, FirstMoved, StatusTells
<1>. QED  BY <1>3, <1>4 DEF TcmInv

LEMMA TcmLater ==
  ASSUME TcmInv, UNCHANGED <<fault, cells, TestStatus>>, at_step' \in {at_step, at_step + 1},
         at_step' # at_step => at_step \in 53..54,
         tcm_mail_box' = IF at_step' = 55 THEN 255 ELSE 0
  PROVE  TcmInv'
<1>1. /\ Unseen' = Unseen /\ Folded' = Folded
      /\ \A v : Cell(v)' = Cell(v) /\ Content(v)' = Content(v)
  BY FaultStays DEF Content
<1>2. TcmTypes'
  <2>1. FourBytes'
    BY <1>1 DEF TcmInv, TcmTypes, FourBytes
  <2>. QED  BY <2>1 DEF TcmInv, TcmTypes
<1>3. CASE at_step' = at_step
  <2>1. \A i : Content(Cell(WordOrder[i]))' = Content(Cell(WordOrder[i]))
    BY <1>1 DEF Content
  <2>2. WordsKept' /\ FirstLost'
    BY <1>1, <1>3, <2>1 DEF TcmInv, WordsKept, FirstLost, WordData
  <2>3. BytesKept' /\ FirstAlike' /\ FirstMoved'
    BY <1>1, <1>3 DEF TcmInv, BytesKept, FirstAlike, FirstMoved, ByteData
  <2>4. StatusTells'
    BY <1>1, <1>3 DEF TcmInv, StatusTells
  <2>. QED  BY <1>2, <2>2, <2>3, <2>4 DEF TcmInv
<1>4. CASE at_step \in 53..54 /\ at_step' = at_step + 1
  <2>1. WordsKept' /\ FirstLost'
    BY <1>4 DEF WordsKept, FirstLost
  <2>2. BytesKept'
    <3>1. \A k, b \in 1..4 : 28 + 4 * k + b < at_step
      BY <1>4
    <3>. QED  BY <1>1, <3>1 DEF TcmInv, BytesKept, ByteData
  <2>3. FirstAlike' /\ FirstMoved'
    BY <1>1, <1>4 DEF TcmInv, FirstAlike, FirstMoved
  <2>4. StatusTells'
    BY <1>1, <1>4 DEF TcmInv, StatusTells
  <2>. QED  BY <1>2, <2>1, <2>2, <2>3, <2>4 DEF TcmInv
<1>. QED  BY <1>3, <1>4

LEMMA TcmStepInv == TcmInv /\ [TcmNext]_tcmVars => TcmInv'
<1>. SUFFICES ASSUME TcmInv, [TcmNext]_tcmVars PROVE TcmInv'
  OBVIOUS
<1>0. at_step \in 1..55 /\ tcm_mail_box = IF at_step = 55 THEN 255 ELSE 0
  BY DEF TcmInv, TcmTypes
<1>1. ASSUME run_tcm_mem_check PROVE TcmInv'
  <2>0. at_step' = at_step + 1 /\ UNCHANGED <<fault, tcm_mail_box>>
    BY <1>1 DEF run_tcm_mem_check
  <2>1. CASE at_step \in 1..16 /\ reg_write(WordOrder[at_step]) /\ UNCHANGED TestStatus
    BY <2>0, <2>1, WordWritten
  <2>2. CASE /\ at_step \in 17..32
             /\ LET w == WordOrder[at_step - 16] IN reg_cmp(w, WordData(w))
             /\ UNCHANGED cells
    BY <2>0, <2>2, WordCompared
  <2>3. CASE /\ at_step \in 33..48
             /\ LET k == at_step - 33 IN reg_8bit_write(ByteOrder[(k \div 4) + 1], (k % 4) + 1)
             /\ UNCHANGED TestStatus
    <3>. DEFINE k == ((at_step - 33) \div 4) + 1
                b == ((at_step - 33) % 4) + 1
    <3>1. k \in 1..4 /\ b \in 1..4 /\ at_step = 28 + 4 * k + b
      BY <2>3
    <3>2. reg_8bit_write(ByteOrder[k], b)
      BY <2>3
    <3>. HIDE DEF k, b
    <3>. QED  BY <2>0, <2>3, <3>1, <3>2, ByteWritten
  <2>4. CASE /\ at_step \in 49..52
             /\ LET w == ByteOrder[at_step - 48] IN reg_cmp(w, ByteData(w))
             /\ UNCHANGED cells
    BY <2>0, <2>4, BytesCompared
  <2>. QED  BY <1>1, <2>1, <2>2, <2>3, <2>4 DEF run_tcm_mem_check
<1>2. ASSUME PrintVerdict \/ TcmUartSends \/ EndOfTest \/ UNCHANGED tcmVars PROVE TcmInv'
  <2>1. /\ UNCHANGED <<fault, cells, TestStatus>> /\ at_step' \in {at_step, at_step + 1}
        /\ at_step' # at_step => at_step \in 53..54
        /\ tcm_mail_box' = IF at_step' = 55 THEN 255 ELSE 0
    BY <1>0, <1>2 DEF PrintVerdict, TcmUartSends, EndOfTest, tcmVars
  <2>. QED  BY <2>1, TcmLater
<1>. QED  BY <1>1, <1>2 DEF TcmNext

------------------------------------------------------------------------------
(* A program that runs from its copy (user_sram_exec.c,
   user_cache_bypass.c). *)

(* The marks that are stored when the program is where it is: two of them
   by the copied routine, the others by main. *)
MarksStored ==
  CASE copyPc \in {"start", "sig0"} -> <<>>
    [] copyPc = "copy" -> <<0>>
    [] copyPc = "run" -> IF dst_ptr = 0 THEN <<0, 1>> ELSE IF dst_ptr = 1 THEN <<0, 1, 2>>
                         ELSE <<0, 1, 2, 3>>
    [] copyPc = "sig4" -> <<0, 1, 2, 3>>
    [] copyPc = "sig5" -> <<0, 1, 2, 3, 4>>
    [] copyPc \in {"end", "done"} -> <<0, 1, 2, 3, 4, 5>>

(* What was copied is as it was at its source, the copy is run when it is
   whole, and the mail box tells the end only when all marks are stored. *)
CopyInv ==
  /\ copyPc \in {"start", "sig0", "copy", "run", "sig4", "sig5", "end", "done"}
  /\ src_ptr \in 0..Halves /\ dst_ptr \in 0..Halves
  /\ func \in [0..FuncSize - 1 -> Nat]
  /\ \A k \in 0..src_ptr - 1 : func[k] = k + 1
  /\ copyPc \in {"start", "sig0", "copy"} => dst_ptr = src_ptr
  /\ copyPc \notin {"start", "sig0", "copy"} => src_ptr = Halves
  /\ copyPc = "run" => dst_ptr < Halves
  /\ soft_regs = MarksStored
  /\ copyPc = "done" <=> copy_mail_box = 255
  /\ testBench \in {"boot", "exit", "passed"}

LEMMA CopyTells == CopyInv => CopyRuns
BY MemoryTestAssumption DEF CopyInv, CopyRuns, FuncSize

LEMMA CopyInitInv == CopyInit => CopyInv
<1>. SUFFICES ASSUME CopyInit PROVE CopyInv
  OBVIOUS
<1>1. soft_regs = MarksStored
  BY DEF CopyInit, MarksStored
<1>. QED  BY <1>1, MemoryTestAssumption DEF CopyInit, CopyInv, FuncSize

(* What each mark is appended to. *)
LEMMA MarkAppended ==
  /\ Append(<<>>, 0) = <<0>> /\ Append(<<0>>, 1) = <<0, 1>>
  /\ Append(<<0, 1>>, 2) = <<0, 1, 2>> /\ Append(<<0, 1, 2>>, 3) = <<0, 1, 2, 3>>
  /\ Append(<<0, 1, 2, 3>>, 4) = <<0, 1, 2, 3, 4>>
  /\ Append(<<0, 1, 2, 3, 4>>, 5) = <<0, 1, 2, 3, 4, 5>>
<1>0. ASSUME NEW s \in Seq(Nat), NEW m \in Nat, NEW t \in Seq(Nat), Len(t) = Len(s) + 1,
             \A i \in 1..Len(s) : t[i] = s[i], t[Len(s) + 1] = m
      PROVE  Append(s, m) = t
  <2>1. Append(s, m) \in Seq(Nat) /\ Len(Append(s, m)) = Len(t)
    BY <1>0
  <2>2. \A i \in 1..Len(t) : Append(s, m)[i] = t[i]
    BY <1>0
  <2>. QED  BY <1>0, <2>1, <2>2, SeqEqual
<1>1. Append(<<>>, 0) = <<0>>
  OBVIOUS
<1>2. Append(<<0>>, 1) = <<0, 1>>
  <2>1. /\ <<0>> \in Seq(Nat) /\ <<0, 1>> \in Seq(Nat)
        /\ Len(<<0>>) = 1 /\ Len(<<0, 1>>) = 1 + 1
        /\ \A i \in 1..1 : <<0, 1>>[i] = <<0>>[i]
        /\ <<0, 1>>[1 + 1] = 1
    OBVIOUS
  <2>. QED  BY <1>0, <2>1
<1>3. Append(<<0, 1>>, 2) = <<0, 1, 2>>
  <2>1. /\ <<0, 1>> \in Seq(Nat) /\ <<0, 1, 2>> \in Seq(Nat)
        /\ Len(<<0, 1>>) = 2 /\ Len(<<0, 1, 2>>) = 2 + 1
        /\ \A i \in 1..2 : <<0, 1, 2>>[i] = <<0, 1>>[i]
        /\ <<0, 1, 2>>[2 + 1] = 2
    OBVIOUS
  <2>. QED  BY <1>0, <2>1
<1>4. Append(<<0, 1, 2>>, 3) = <<0, 1, 2, 3>>
  <2>1. /\ <<0, 1, 2>> \in Seq(Nat) /\ <<0, 1, 2, 3>> \in Seq(Nat)
        /\ Len(<<0, 1, 2>>) = 3 /\ Len(<<0, 1, 2, 3>>) = 3 + 1
        /\ \A i \in 1..3 : <<0, 1, 2, 3>>[i] = <<0, 1, 2>>[i]
        /\ <<0, 1, 2, 3>>[3 + 1] = 3
    OBVIOUS
  <2>. QED  BY <1>0, <2>1
<1>5. Append(<<0, 1, 2, 3>>, 4) = <<0, 1, 2, 3, 4>>
  <2>1. /\ <<0, 1, 2, 3>> \in Seq(Nat) /\ <<0, 1, 2, 3, 4>> \in Seq(Nat)
        /\ Len(<<0, 1, 2, 3>>) = 4 /\ Len(<<0, 1, 2, 3, 4>>) = 4 + 1
        /\ \A i \in 1..4 : <<0, 1, 2, 3, 4>>[i] = <<0, 1, 2, 3>>[i]
        /\ <<0, 1, 2, 3, 4>>[4 + 1] = 4
    OBVIOUS
  <2>. QED  BY <1>0, <2>1
<1>6. Append(<<0, 1, 2, 3, 4>>, 5) = <<0, 1, 2, 3, 4, 5>>
  <2>1. /\ <<0, 1, 2, 3, 4>> \in Seq(Nat) /\ <<0, 1, 2, 3, 4, 5>> \in Seq(Nat)
        /\ Len(<<0, 1, 2, 3, 4>>) = 5 /\ Len(<<0, 1, 2, 3, 4, 5>>) = 5 + 1
        /\ \A i \in 1..5 : <<0, 1, 2, 3, 4, 5>>[i] = <<0, 1, 2, 3, 4>>[i]
        /\ <<0, 1, 2, 3, 4, 5>>[5 + 1] = 5
    OBVIOUS
  <2>. QED  BY <1>0, <2>1
<1>. QED  BY <1>1, <1>2, <1>3, <1>4, <1>5, <1>6, Zenon

LEMMA HalfRuns ==
  ASSUME CopyInv, RunHalf, UNCHANGED testBench
  PROVE  CopyInv'
<1>1. copyPc = "run" /\ src_ptr = Halves /\ dst_ptr \in 0..Halves - 1 /\ Halves > 1
  BY MemoryTestAssumption DEF RunHalf, CopyInv
<1>2. func[dst_ptr] = dst_ptr + 1
  BY <1>1 DEF CopyInv
<1>3. /\ copyPc' = IF dst_ptr + 1 = Halves THEN "sig4" ELSE "run"
      /\ dst_ptr' = dst_ptr + 1 /\ src_ptr' = src_ptr /\ func' = func
      /\ copy_mail_box' = copy_mail_box
      /\ soft_regs' = IF dst_ptr \in 0..1 THEN Append(soft_regs, dst_ptr + 2) ELSE soft_regs
  BY <1>1, <1>2 DEF RunHalf, Mark
<1>4. soft_regs = IF dst_ptr = 0 THEN <<0, 1>> ELSE IF dst_ptr = 1 THEN <<0, 1, 2>>
                  ELSE <<0, 1, 2, 3>>
  BY <1>1 DEF CopyInv, MarksStored
<1>5. soft_regs' = IF dst_ptr = 0 THEN <<0, 1, 2>> ELSE <<0, 1, 2, 3>>
  <2>1. CASE dst_ptr = 0
    BY <1>3, <1>4, <2>1, MarkAppended
  <2>2. CASE dst_ptr = 1
    BY <1>3, <1>4, <2>2, MarkAppended
  <2>3. CASE dst_ptr \notin {0, 1}
    <3>1. dst_ptr \notin 0..1 /\ dst_ptr # 0 /\ dst_ptr # 1
      BY <1>1, <2>3
    <3>. QED  BY <1>3, <1>4, <3>1, Zenon
  <2>. QED  BY <2>1, <2>2, <2>3
<1>6. soft_regs' = MarksStored'
  <2>1. CASE dst_ptr + 1 = Halves
    <3>1. copyPc' = "sig4" /\ dst_ptr # 0
      BY <1>1, <1>3, <2>1
    <3>. QED  BY <1>5, <3>1 DEF MarksStored
  <2>2. CASE dst_ptr + 1 # Halves
    <3>1. copyPc' = "run" /\ dst_ptr' # 0 /\ (dst_ptr' = 1 <=> dst_ptr = 0)
      BY <1>1, <1>3, <2>2
    <3>2. MarksStored' = IF dst_ptr' = 0 THEN <<0, 1>> ELSE IF dst_ptr' = 1 THEN <<0, 1, 2>>
                         ELSE <<0, 1, 2, 3>>
      BY <3>1 DEF MarksStored
    <3>. QED  BY <1>5, <3>1, <3>2
  <2>. QED  BY <2>1, <2>2
<1>. QED  BY <1>1, <1>3, <1>6 DEF CopyInv

LEMMA HalfCopied ==
  ASSUME CopyInv, CopyHalf, UNCHANGED testBench
  PROVE  CopyInv'
<1>1. /\ copyPc = "copy" /\ copyPc' = "copy" /\ src_ptr \in 0..Halves - 1 /\ dst_ptr = src_ptr
      /\ src_ptr' = src_ptr + 1 /\ dst_ptr' = src_ptr + 1 /\ Halves \in Nat
      /\ func' = [func EXCEPT ![src_ptr] = src_ptr + 1]
      /\ UNCHANGED <<soft_regs, copy_mail_box>>
  BY MemoryTestAssumption DEF CopyInv, CopyHalf, More
<1>2. func' \in [0..FuncSize - 1 -> Nat] /\ src_ptr \in 0..FuncSize - 1
  BY <1>1 DEF CopyInv, FuncSize
<1>3. \A k \in 0..src_ptr' - 1 : func'[k] = k + 1
  BY <1>1, <1>2 DEF CopyInv, FuncSize
<1>4. MarksStored' = soft_regs'
  BY <1>1 DEF CopyInv, MarksStored
<1>. QED  BY <1>1, <1>2, <1>3, <1>4 DEF CopyInv, FuncSize

LEMMA MarksKept ==
  ASSUME CopyInv, Marks, UNCHANGED testBench
  PROVE  CopyInv'
<1>1. UNCHANGED <<src_ptr, func, copy_mail_box, testBench>>
  BY DEF Marks
<1>2. copy_mail_box # 255
  BY DEF Marks, CopyInv
<1>3. CASE copyPc = "sig0" /\ Mark(0) /\ copyPc' = "copy" /\ UNCHANGED dst_ptr
  <2>1. soft_regs' = MarksStored'
    <3>1. soft_regs = <<>> /\ MarksStored' = <<0>>
      BY <1>3 DEF CopyInv, MarksStored
    <3>. QED  BY <1>3, <3>1, MarkAppended DEF Mark
  <2>. QED  BY <1>1, <1>2, <1>3, <2>1 DEF CopyInv
<1>4. CASE copyPc = "copy" /\ ~More /\ Mark(1) /\ copyPc' = "run" /\ dst_ptr' = 0
  <2>1. soft_regs' = MarksStored'
    <3>1. soft_regs = <<0>> /\ MarksStored' = <<0, 1>>
      BY <1>4 DEF CopyInv, MarksStored
    <3>. QED  BY <1>4, <3>1, MarkAppended DEF Mark
  <2>2. src_ptr = Halves /\ Halves > 1
    BY <1>4, MemoryTestAssumption DEF More, CopyInv
  <2>. QED  BY <1>1, <1>2, <1>4, <2>1, <2>2 DEF CopyInv
<1>5. CASE copyPc = "sig4" /\ Mark(4) /\ copyPc' = "sig5" /\ UNCHANGED dst_ptr
  <2>1. soft_regs' = MarksStored'
    <3>1. soft_regs = <<0, 1, 2, 3>> /\ MarksStored' = <<0, 1, 2, 3, 4>>
      BY <1>5 DEF CopyInv, MarksStored
    <3>. QED  BY <1>5, <3>1, MarkAppended DEF Mark
  <2>. QED  BY <1>1, <1>2, <1>5, <2>1 DEF CopyInv
<1>6. CASE copyPc = "sig5" /\ Mark(5) /\ copyPc' = "end" /\ UNCHANGED dst_ptr
  <2>1. soft_regs' = MarksStored'
    <3>1. soft_regs = <<0, 1, 2, 3, 4>> /\ MarksStored' = <<0, 1, 2, 3, 4, 5>>
      BY <1>6 DEF CopyInv, MarksStored
    <3>. QED  BY <1>6, <3>1, MarkAppended DEF Mark
  <2>. QED  BY <1>1, <1>2, <1>6, <2>1 DEF CopyInv
<1>. QED  BY <1>3, <1>4, <1>5, <1>6 DEF Marks

(* The program in its own specification and next to the others. *)
LEMMA CopyStepInv == CopyInv /\ [CopyNext]_copyVars => CopyInv'
<1>. SUFFICES ASSUME CopyInv, [CopyNext]_copyVars PROVE CopyInv'
  OBVIOUS
<1>1. ASSUME StartOfMain, UNCHANGED testBench PROVE CopyInv'
  <2>1. soft_regs' = MarksStored'
    BY <1>1 DEF StartOfMain, CopyInv, MarksStored
  <2>. QED  BY <1>1, <2>1 DEF StartOfMain, CopyInv
<1>2. ASSUME EndOfCopyTest, UNCHANGED testBench PROVE CopyInv'
  <2>1. soft_regs' = MarksStored'
    BY <1>2 DEF EndOfCopyTest, CopyInv, MarksStored
  <2>. QED  BY <1>2, <2>1 DEF EndOfCopyTest, CopyInv
<1>3. ASSUME BenchWaits PROVE CopyInv'
  <2>1. soft_regs' = MarksStored'
    BY <1>3 DEF BenchWaits, CopyInv, MarksStored
  <2>2. copy_mail_box = 255 => soft_regs = <<0, 1, 2, 3, 4, 5>>
    BY DEF CopyInv, MarksStored
  <2>3. testBench' \in {"exit", "passed"}
    BY <1>3, <2>2 DEF BenchWaits
  <2>. QED  BY <1>3, <2>1, <2>3 DEF BenchWaits, CopyInv
<1>4. CASE UNCHANGED copyVars
  <2>1. soft_regs' = MarksStored'
    BY <1>4 DEF copyVars, CopyInv, MarksStored
  <2>. QED  BY <1>4, <2>1 DEF copyVars, CopyInv
<1>. QED  BY <1>1, <1>2, <1>3, <1>4, HalfRuns, HalfCopied, MarksKept
          DEF CopyNext, CopyStep, CopyMain

------------------------------------------------------------------------------
(* The reference clock (pli_rtc.c).  The calendar: what a year counts more
   than the year before, and that the day after the end of a month is the
   first of the next. *)
LeapsCounted(y) ==
  /\ y \div 4 = (y - 1) \div 4 + (IF y % 4 = 0 THEN 1 ELSE 0)
  /\ y \div 100 = (y - 1) \div 100 + (IF y % 100 = 0 THEN 1 ELSE 0)
  /\ y \div 400 = (y - 1) \div 400 + (IF y % 400 = 0 THEN 1 ELSE 0)
  /\ y % 400 = 0 => y % 100 = 0
  /\ y % 100 = 0 => y % 4 = 0

LEMMA LeapDays == ASSUME NEW y \in Int PROVE LeapsCounted(y)
<1>1. y \div 4 = (y - 1) \div 4 + (IF y % 4 = 0 THEN 1 ELSE 0)
  OBVIOUS
<1>2. y \div 100 = (y - 1) \div 100 + (IF y % 100 = 0 THEN 1 ELSE 0)
  OBVIOUS
<1>3. y \div 400 = (y - 1) \div 400 + (IF y % 400 = 0 THEN 1 ELSE 0)
  OBVIOUS
<1>4. y % 400 = 0 => y % 100 = 0
  OBVIOUS
<1>5. y % 100 = 0 => y % 4 = 0
  OBVIOUS
<1>. QED  BY <1>1, <1>2, <1>3, <1>4, <1>5 DEF LeapsCounted

LEMMA DaysAreCounted ==
  ASSUME NEW y \in Int, NEW m \in 1..12, NEW d \in Int
  PROVE  DayNumber(y, m, d) \in Int /\ DayNumber(y, m, d) = DayNumber(y, m, 0) + d
BY DEF DayNumber

LEMMA MonthEnds ==
  ASSUME NEW t, t.tm_year \in Nat, t.tm_mon \in 0..11
  PROVE  DayNumber(t.tm_year + 1900, t.tm_mon + 1, DaysOf(t) + 1) =
           IF t.tm_mon = 11 THEN DayNumber(t.tm_year + 1901, 1, 1)
           ELSE DayNumber(t.tm_year + 1900, t.tm_mon + 2, 1)
<1>. DEFINE y == t.tm_year + 1900
            mon == t.tm_mon
            days == DaysOf(t)
<1>1. y \in Int /\ mon \in 0..11 /\ t.tm_year + 1901 = y + 1
  OBVIOUS
<1>2. days = IF mon = 1 THEN IF Leap(y) THEN 29 ELSE 28
             ELSE IF mon \in {3, 5, 8, 10} THEN 30 ELSE 31
  BY DEF DaysOf
<1>. DEFINE L(x) == x \div 4 - x \div 100 + x \div 400
<1>3. L(y) = L(y - 1) + (IF Leap(y) THEN 1 ELSE 0) /\ L(y) \in Int /\ L(y - 1) \in Int
  <2>. HIDE DEF y
  <2>1. LeapsCounted(y)
    BY <1>1, LeapDays, SMT
  <2>2. L(y) \in Int /\ L(y - 1) \in Int
    BY <1>1, SMT
  <2>3. L(y) = L(y - 1) + (IF Leap(y) THEN 1 ELSE 0)
    BY <1>1, <2>1, SMT DEF Leap, LeapsCounted
  <2>. QED  BY <2>2, <2>3
<1>4. ASSUME NEW m \in 1..12, NEW d \in 1..32
      PROVE  DayNumber(y, m, d) =
               IF m > 2 THEN 365 * y + L(y) + (153 * (m - 3) + 2) \div 5 + d
               ELSE 365 * (y - 1) + L(y - 1) + (153 * (m + 9) + 2) \div 5 + d
  <2>1. CASE m > 2
    BY <1>1, <2>1 DEF DayNumber
  <2>2. CASE ~(m > 2)
    BY <1>1, <2>2 DEF DayNumber
  <2>. QED  BY <2>1, <2>2
<1>5. ASSUME NEW m \in 1..2, NEW d \in 1..32
      PROVE  DayNumber(y + 1, m, d) = 365 * y + L(y) + (153 * (m + 9) + 2) \div 5 + d
  <2>. DEFINE z == (y + 1) - 1
  <2>1. z = y /\ ~(m > 2)
    BY <1>1
  <2>2. DayNumber(y + 1, m, d) = 365 * z + z \div 4 - z \div 100 + z \div 400
                                 + (153 * (m + 9) + 2) \div 5 + d
    BY <2>1 DEF DayNumber
  <2>3. DayNumber(y + 1, m, d) = 365 * y + y \div 4 - y \div 100 + y \div 400
                                 + (153 * (m + 9) + 2) \div 5 + d
    BY <2>1, <2>2
  <2>. QED  BY <1>1, <2>3
<1>6. days \in {28, 29, 30, 31} /\ days + 1 \in 1..32
  BY <1>2
<1>7. CASE mon \in 0..10
  <2>1. mon + 1 \in 1..12 /\ mon + 2 \in 1..12 /\ 1 \in 1..32
    BY <1>7
  <2>. HIDE DEF y, mon, days, L
  <2>2. /\ DayNumber(y, mon + 1, days + 1) =
             IF mon + 1 > 2 THEN 365 * y + L(y) + (153 * ((mon + 1) - 3) + 2) \div 5 + (days + 1)
             ELSE 365 * (y - 1) + L(y - 1) + (153 * ((mon + 1) + 9) + 2) \div 5 + (days + 1)
        /\ DayNumber(y, mon + 2, 1) =
             IF mon + 2 > 2 THEN 365 * y + L(y) + (153 * ((mon + 2) - 3) + 2) \div 5 + 1
             ELSE 365 * (y - 1) + L(y - 1) + (153 * ((mon + 2) + 9) + 2) \div 5 + 1
    BY <2>1, <1>4, <1>6
  <2>3. DayNumber(y, mon + 1, days + 1) = DayNumber(y, mon + 2, 1)
    <3>1. CASE mon = 0
      BY <1>1, <1>2, <1>3, <2>2, <3>1
    <3>2. CASE mon = 1
      BY <1>1, <1>2, <1>3, <2>2, <3>2
    <3>3. CASE mon \in 2..10
      BY <1>1, <1>2, <1>3, <2>2, <3>3
    <3>. QED  BY <1>7, <3>1, <3>2, <3>3
  <2>. QED  BY <1>7, <2>3 DEF y, mon, days
<1>8. CASE mon = 11
  <2>. HIDE DEF L
  <2>1. DayNumber(y, 12, days + 1) = 365 * y + L(y) + (153 * 9 + 2) \div 5 + (days + 1)
    BY <1>4, <1>6
  <2>2. DayNumber(y + 1, 1, 1) = 365 * y + L(y) + (153 * 10 + 2) \div 5 + 1
    BY <1>5
  <2>3. days = 31
    BY <1>2, <1>8
  <2>4. DayNumber(y, 12, days + 1) = DayNumber(y + 1, 1, 1)
    BY <1>1, <1>3, <2>1, <2>2, <2>3
  <2>. QED  BY <1>1, <1>8, <2>4
<1>. QED  BY <1>1, <1>7, <1>8

(* The seconds of a day, of which one more may be a day. *)
LEMMA SecondsFit ==
  ASSUME NEW h \in 0..23, NEW m \in 0..59, NEW x \in 0..60
  PROVE  3600 * h + 60 * m + x \in Nat /\ 3600 * h + 60 * m + x <= 86400
BY SMT

LEMMA SecondsOf ==
  ASSUME NEW t, t.tm_hour \in 0..23, t.tm_min \in 0..59, t.tm_sec \in 0..60
  PROVE  SecondOfDay(t) \in Nat /\ SecondOfDay(t) <= 86400
<1>. DEFINE h == t.tm_hour
            m == t.tm_min
            x == t.tm_sec
<1>1. h \in 0..23 /\ m \in 0..59 /\ x \in 0..60
  OBVIOUS
<1>2. SecondOfDay(t) = 3600 * h + 60 * m + x
  BY DEF SecondOfDay
<1>. HIDE DEF h, m, x
<1>. QED  BY <1>1, <1>2, SecondsFit

LEMMA DayFits ==
  ASSUME NEW sec \in Nat, sec <= 86400
  PROVE  /\ sec % 86400 \in Nat /\ sec % 86400 < 86400
         /\ sec \div 86400 \in Nat /\ sec \div 86400 <= 1
BY SMT

LEMMA HoursTell ==
  ASSUME NEW rest \in Nat, rest < 86400
  PROVE  /\ rest \div 3600 \in 0..23 /\ (rest \div 60) % 60 \in 0..59 /\ rest % 60 \in 0..59
         /\ 3600 * (rest \div 3600) + 60 * ((rest \div 60) % 60) + (rest % 60) = rest
<1>1. rest \div 3600 \in 0..23
  BY SMT
<1>2. (rest \div 60) % 60 \in 0..59
  BY SMT
<1>3. rest % 60 \in 0..59
  BY SMT
<1>4. 3600 * (rest \div 3600) + 60 * ((rest \div 60) % 60) + (rest % 60) = rest
  BY SMT
<1>. QED  BY <1>1, <1>2, <1>3, <1>4, SMT

LEMMA MonthFits ==
  ASSUME NEW month \in 0..12
  PROVE  /\ month \div 12 = IF month = 12 THEN 1 ELSE 0
         /\ month % 12 = IF month = 12 THEN 0 ELSE month
BY SMT

(* The clock goes on: a day or a second over the end is carried. *)
LEMMA ClockGoesOn ==
  ASSUME NEW t, t.tm_year \in Nat, t.tm_mon \in 0..11, t.tm_hour \in 0..23, t.tm_min \in 0..59,
         t.tm_sec \in 0..60, t.tm_mday \in 1..DaysOf(t) + 1,
         t.tm_mday + SecondOfDay(t) \div 86400 <= DaysOf(t) + 1
  PROVE  /\ IsTime(mktime(t)) /\ mktime(t).tm_year \in {t.tm_year, t.tm_year + 1}
         /\ SecondOfDay(mktime(t)) = SecondOfDay(t) % 86400
         /\ DayNumber(mktime(t).tm_year + 1900, mktime(t).tm_mon + 1, mktime(t).tm_mday)
              = DayNumber(t.tm_year + 1900, t.tm_mon + 1, t.tm_mday) + SecondOfDay(t) \div 86400
<1>. DEFINE sec == 3600 * t.tm_hour + 60 * t.tm_min + t.tm_sec
            rest == sec % 86400
            day == t.tm_mday + sec \div 86400
            over == day > DaysOf(t)
            month == IF over THEN t.tm_mon + 1 ELSE t.tm_mon
            u == mktime(t)
<1>1. /\ u.tm_year = t.tm_year + month \div 12 /\ u.tm_mon = month % 12
      /\ u.tm_mday = (IF over THEN 1 ELSE day)
      /\ u.tm_hour = rest \div 3600 /\ u.tm_min = (rest \div 60) % 60 /\ u.tm_sec = rest % 60
  BY DEF mktime, Time
<1>2. DaysOf(t) \in 28..31
  BY DEF DaysOf
<1>9. SecondOfDay(t) = sec
  BY DEF SecondOfDay
<1>10. sec \in Nat /\ sec <= 86400
  BY SecondsOf, <1>9
<1>4. rest \in Nat /\ rest < 86400 /\ sec \div 86400 \in Nat /\ sec \div 86400 <= 1
  <2>. HIDE DEF sec
  <2>. QED  BY <1>10, DayFits, SMT
<1>5. day \in 1..DaysOf(t) + 1
  <2>1. t.tm_mday + sec \div 86400 <= DaysOf(t) + 1
    BY <1>9
  <2>2. t.tm_mday \in 1..32
    BY <1>2
  <2>. HIDE DEF sec
  <2>. QED  BY <1>2, <1>4, <2>1, <2>2, SMT
<1>6. SecondOfDay(u) = rest /\ u.tm_hour \in 0..23 /\ u.tm_min \in 0..59 /\ u.tm_sec \in 0..59
  <2>. HIDE DEF rest, u, sec, day, over, month
  <2>1. u.tm_hour \in 0..23 /\ u.tm_min \in 0..59 /\ u.tm_sec \in 0..59
    BY <1>1, <1>4, HoursTell
  <2>2. 3600 * (rest \div 3600) + 60 * ((rest \div 60) % 60) + (rest % 60) = rest
    BY <1>4, HoursTell
  <2>. QED  BY <1>1, <2>1, <2>2 DEF SecondOfDay
<1>7. CASE ~over
  <2>1. month = t.tm_mon /\ month \div 12 = 0 /\ month % 12 = month
    BY <1>7
  <2>. HIDE DEF rest, u, sec, day, over, month
  <2>2. u.tm_year = t.tm_year /\ u.tm_mon = t.tm_mon /\ u.tm_mday = day
    BY <1>1, <1>7, <2>1
  <2>3. DaysOf(u) = DaysOf(t)
    BY <2>2 DEF DaysOf
  <2>4. IsTime(u)
    BY <1>2, <1>5, <1>6, <1>7, <2>2, <2>3 DEF IsTime, over
  <2>5. DayNumber(t.tm_year + 1900, t.tm_mon + 1, day)
          = DayNumber(t.tm_year + 1900, t.tm_mon + 1, t.tm_mday) + sec \div 86400
    <3>1. t.tm_year + 1900 \in Int /\ t.tm_mon + 1 \in 1..12 /\ t.tm_mday \in Int
      BY <1>2
    <3>2. day \in Int /\ sec \div 86400 \in Int /\ day = t.tm_mday + sec \div 86400
      BY <1>2, <1>4, <1>5 DEF day
    <3>. HIDE DEF rest, u, sec, day, over, month
    <3>3. PICK y, m : y = t.tm_year + 1900 /\ m = t.tm_mon + 1
      OBVIOUS
    <3>4. \A e \in Int : DayNumber(y, m, e) \in Int /\ DayNumber(y, m, e) = DayNumber(y, m, 0) + e
      <4>1. y \in Int /\ m \in 1..12
        BY <3>1, <3>3
      <4>2. ASSUME NEW e \in Int
            PROVE  DayNumber(y, m, e) \in Int /\ DayNumber(y, m, e) = DayNumber(y, m, 0) + e
        BY ONLY <4>1, e \in Int, DaysAreCounted, Zenon
      <4>. QED  BY <4>2
    <3>5. DayNumber(y, m, day) = DayNumber(y, m, t.tm_mday) + sec \div 86400
      BY <3>1, <3>2, <3>4
    <3>. QED  BY <3>3, <3>5
  <2>. QED  BY <1>9, <1>6, <2>2, <2>4, <2>5 DEF u, rest
<1>8. CASE over
  <2>1. month = t.tm_mon + 1 /\ day = DaysOf(t) + 1
    BY <1>2, <1>5, <1>8
  <2>2. DayNumber(t.tm_year + 1900, t.tm_mon + 1, day)
          = DayNumber(t.tm_year + 1900, t.tm_mon + 1, t.tm_mday) + sec \div 86400
    <3>1. t.tm_year + 1900 \in Int /\ t.tm_mon + 1 \in 1..12 /\ t.tm_mday \in Int
      BY <1>2
    <3>2. day \in Int /\ sec \div 86400 \in Int /\ day = t.tm_mday + sec \div 86400
      <4>. HIDE DEF sec
      <4>. QED  BY <1>2, <1>4, <2>1
    <3>. HIDE DEF rest, u, sec, day, over, month
    <3>3. PICK y, m : y = t.tm_year + 1900 /\ m = t.tm_mon + 1
      OBVIOUS
    <3>4. \A e \in Int : DayNumber(y, m, e) \in Int /\ DayNumber(y, m, e) = DayNumber(y, m, 0) + e
      <4>1. y \in Int /\ m \in 1..12
        BY <3>1, <3>3
      <4>2. ASSUME NEW e \in Int
            PROVE  DayNumber(y, m, e) \in Int /\ DayNumber(y, m, e) = DayNumber(y, m, 0) + e
        BY ONLY <4>1, e \in Int, DaysAreCounted, Zenon
      <4>. QED  BY <4>2
    <3>5. DayNumber(y, m, day) = DayNumber(y, m, t.tm_mday) + sec \div 86400
      BY <3>1, <3>2, <3>4
    <3>. QED  BY <3>3, <3>5
  <2>. HIDE DEF rest, u, sec, day, over, month
  <2>3. DayNumber(t.tm_year + 1900, t.tm_mon + 1, day)
          = IF t.tm_mon = 11 THEN DayNumber(t.tm_year + 1901, 1, 1)
            ELSE DayNumber(t.tm_year + 1900, t.tm_mon + 2, 1)
    <3>. QED  BY <2>1, MonthEnds
  <2>4. u.tm_mday = 1 /\ IF t.tm_mon = 11 THEN u.tm_year = t.tm_year + 1 /\ u.tm_mon = 0
                        ELSE u.tm_year = t.tm_year /\ u.tm_mon = t.tm_mon + 1
    <3>1. month \in 1..12 /\ (month = 12 <=> t.tm_mon = 11)
      BY <2>1
    <3>2. month \div 12 = (IF month = 12 THEN 1 ELSE 0) /\ month % 12 = (IF month = 12 THEN 0 ELSE month)
      BY <3>1, MonthFits
    <3>. QED  BY <1>1, <1>8, <2>1, <3>1, <3>2
  <2>5. DaysOf(u) \in 28..31
    BY <2>4 DEF DaysOf
  <2>6. IsTime(u)
    BY <1>6, <2>4, <2>5 DEF IsTime
  <2>7. DayNumber(u.tm_year + 1900, u.tm_mon + 1, u.tm_mday)
          = DayNumber(t.tm_year + 1900, t.tm_mon + 1, day)
    <3>1. CASE t.tm_mon = 11
      <4>1. u.tm_year + 1900 = t.tm_year + 1901 /\ u.tm_mon + 1 = 1
        BY <2>4, <3>1
      <4>. QED  BY <2>3, <2>4, <3>1, <4>1
    <3>2. CASE t.tm_mon # 11
      <4>1. u.tm_year + 1900 = t.tm_year + 1900 /\ u.tm_mon + 1 = t.tm_mon + 2
        BY <2>4, <3>2
      <4>. QED  BY <2>3, <2>4, <3>2, <4>1
    <3>. QED  BY <3>1, <3>2
  <2>8. u.tm_year \in {t.tm_year, t.tm_year + 1}
    BY <2>4
  <2>. QED  BY <1>9, <1>6, <2>2, <2>6, <2>7, <2>8 DEF u, rest
<1>. QED  BY <1>7, <1>8

(* One step of the clock. *)
IsRecord(t) == t = Time(t.tm_year, t.tm_mon, t.tm_mday, t.tm_hour, t.tm_min, t.tm_sec)
DayOf(t) == DayNumber(t.tm_year + 1900, t.tm_mon + 1, t.tm_mday)
IsSecond(command) == IF command = CMD_RTC_NEXT_SECOND THEN 1 ELSE 0
IsDate(command) == IF command = CMD_RTC_NEXT_DATE THEN 1 ELSE 0

LEMMA TimeFacts ==
  ASSUME NEW y, NEW mon, NEW d, NEW h, NEW min, NEW s
  PROVE  LET t == Time(y, mon, d, h, min, s)
         IN  /\ t.tm_year = y /\ t.tm_mon = mon /\ t.tm_mday = d
             /\ t.tm_hour = h /\ t.tm_min = min /\ t.tm_sec = s
             /\ IsRecord(t)
BY DEF Time, IsRecord

LEMMA Normal == ASSUME NEW t PROVE IsRecord(mktime(t))
BY DEF mktime, Time, IsRecord

LEMMA TimeOfDay ==
  ASSUME NEW t, IsTime(t)
  PROVE  SecondOfDay(t) \in Nat /\ SecondOfDay(t) < 86400
<1>. DEFINE h == t.tm_hour
            m == t.tm_min
            x == t.tm_sec
<1>1. h \in 0..23 /\ m \in 0..59 /\ x \in 0..59
  BY DEF IsTime
<1>2. SecondOfDay(t) = 3600 * h + 60 * m + x
  BY DEF SecondOfDay
<1>. HIDE DEF h, m, x
<1>. QED  BY <1>1, <1>2, SMT

LEMMA DaysOfMonth == ASSUME NEW t PROVE DaysOf(t) \in 28..31
BY DEF DaysOf

LEMMA OneMore ==
  ASSUME NEW s \in Nat, s < 86400, NEW one \in {0, 1}
  PROVE  (s + one) \div 86400 \in {0, 1} /\ (s + one = s => (s + one) \div 86400 = 0)
<1>1. CASE one = 0
  BY <1>1, SMT
<1>2. CASE one = 1
  BY <1>2, SMT
<1>. QED  BY <1>1, <1>2

LEMMA DayAdds ==
  ASSUME NEW y \in Int, NEW m \in 1..12, NEW d \in Int, NEW e \in Int
  PROVE  DayNumber(y, m, d + e) = DayNumber(y, m, d) + e
<1>1. d + e \in Int
  OBVIOUS
<1>2. DayNumber(y, m, d + e) = DayNumber(y, m, 0) + (d + e)
  BY ONLY <1>1, y \in Int, m \in 1..12, DaysAreCounted, Zenon
<1>3. DayNumber(y, m, d) = DayNumber(y, m, 0) + d /\ DayNumber(y, m, 0) \in Int
  <2>1. DayNumber(y, m, d) = DayNumber(y, m, 0) + d
    BY ONLY d \in Int, y \in Int, m \in 1..12, DaysAreCounted, Zenon
  <2>2. 0 \in Int
    OBVIOUS
  <2>3. DayNumber(y, m, 0) \in Int
    BY ONLY <2>2, y \in Int, m \in 1..12, DaysAreCounted, Zenon
  <2>. QED  BY <2>1, <2>3
<1>. QED  BY <1>2, <1>3

LEMMA SteppedFacts ==
  ASSUME NEW t, IsTime(t), IsRecord(t), NEW command
  PROVE  LET s == Stepped(command, t)
         IN  /\ s.tm_year = t.tm_year /\ s.tm_mon = t.tm_mon /\ s.tm_hour = t.tm_hour
             /\ s.tm_min = t.tm_min /\ s.tm_sec = t.tm_sec + IsSecond(command)
             /\ s.tm_mday = t.tm_mday + IsDate(command)
<1>. DEFINE s == Stepped(command, t)
<1>1. t.tm_sec \in Int /\ t.tm_mday \in Int
  BY DaysOfMonth DEF IsTime
<1>2. CASE command = CMD_RTC_NEXT_SECOND
  <2>1. s = [t EXCEPT !.tm_sec = @ + 1]
    BY <1>2 DEF Stepped, CMD_RTC_NEXT_SECOND, CMD_RTC_NEXT_DATE
  <2>. QED  BY <1>1, <1>2, <2>1 DEF IsRecord, Time, IsSecond, IsDate, CMD_RTC_NEXT_SECOND,
                                  CMD_RTC_NEXT_DATE
<1>3. CASE command = CMD_RTC_NEXT_DATE
  <2>1. s = [t EXCEPT !.tm_mday = @ + 1]
    BY <1>3 DEF Stepped, CMD_RTC_NEXT_SECOND, CMD_RTC_NEXT_DATE
  <2>. QED  BY <1>1, <1>3, <2>1 DEF IsRecord, Time, IsSecond, IsDate, CMD_RTC_NEXT_SECOND,
                                  CMD_RTC_NEXT_DATE
<1>4. CASE command # CMD_RTC_NEXT_SECOND /\ command # CMD_RTC_NEXT_DATE
  <2>1. s = t
    BY <1>4 DEF Stepped
  <2>. QED  BY <1>1, <1>4, <2>1 DEF IsSecond, IsDate
<1>. QED  BY <1>2, <1>3, <1>4

LEMMA ClockSteps ==
  ASSUME NEW t, IsTime(t), IsRecord(t), NEW command
  PROVE  LET u == mktime(Stepped(command, t))
         IN  /\ IsTime(u) /\ u.tm_year \in {t.tm_year, t.tm_year + 1}
             /\ SecondOfDay(u) = (SecondOfDay(t) + IsSecond(command)) % 86400
             /\ DayOf(u) = DayOf(t) + IsDate(command) + (SecondOfDay(t) + IsSecond(command)) \div 86400
<1>. DEFINE s == Stepped(command, t)
<1>1. /\ s.tm_year = t.tm_year /\ s.tm_mon = t.tm_mon /\ s.tm_hour = t.tm_hour
      /\ s.tm_min = t.tm_min /\ s.tm_sec = t.tm_sec + IsSecond(command)
      /\ s.tm_mday = t.tm_mday + IsDate(command)
  BY SteppedFacts
<1>2. /\ t.tm_year \in Nat /\ t.tm_mon \in 0..11 /\ t.tm_mday \in 1..DaysOf(t)
      /\ t.tm_hour \in 0..23 /\ t.tm_min \in 0..59 /\ t.tm_sec \in 0..59
  BY DEF IsTime
<1>3. DaysOf(s) = DaysOf(t) /\ DaysOf(t) \in 28..31
  BY <1>1, DaysOfMonth DEF DaysOf
<1>4. IsSecond(command) \in {0, 1} /\ IsDate(command) \in {0, 1}
      /\ (IsDate(command) = 1 => IsSecond(command) = 0)
  BY DEF IsSecond, IsDate, CMD_RTC_NEXT_DATE, CMD_RTC_NEXT_SECOND
<1>5. SecondOfDay(s) = SecondOfDay(t) + IsSecond(command)
  <2>1. SecondOfDay(s) = 3600 * t.tm_hour + 60 * t.tm_min + (t.tm_sec + IsSecond(command))
    BY <1>1 DEF SecondOfDay
  <2>2. SecondOfDay(t) = 3600 * t.tm_hour + 60 * t.tm_min + t.tm_sec
    BY DEF SecondOfDay
  <2>3. t.tm_hour \in Int /\ t.tm_min \in Int /\ t.tm_sec \in Int /\ IsSecond(command) \in Int
    BY <1>2, <1>4
  <2>. QED  BY <2>1, <2>2, <2>3
<1>6. SecondOfDay(t) \in Nat /\ SecondOfDay(t) < 86400
  BY TimeOfDay
<1>7. SecondOfDay(s) \div 86400 \in {0, 1} /\ (IsSecond(command) = 0 => SecondOfDay(s) \div 86400 = 0)
  BY <1>4, <1>5, <1>6, OneMore
<1>. HIDE DEF s
<1>8. /\ s.tm_year \in Nat /\ s.tm_mon \in 0..11 /\ s.tm_hour \in 0..23 /\ s.tm_min \in 0..59
      /\ s.tm_sec \in 0..60 /\ s.tm_mday \in 1..DaysOf(s) + 1
      /\ s.tm_mday + SecondOfDay(s) \div 86400 <= DaysOf(s) + 1
  BY <1>1, <1>2, <1>3, <1>4, <1>7
<1>9. /\ IsTime(mktime(s)) /\ mktime(s).tm_year \in {s.tm_year, s.tm_year + 1}
      /\ SecondOfDay(mktime(s)) = SecondOfDay(s) % 86400
      /\ DayOf(mktime(s)) = DayNumber(s.tm_year + 1900, s.tm_mon + 1, s.tm_mday)
                            + SecondOfDay(s) \div 86400
  BY <1>8, ClockGoesOn DEF DayOf
<1>10. DayNumber(s.tm_year + 1900, s.tm_mon + 1, s.tm_mday) = DayOf(t) + IsDate(command)
  <2>1. t.tm_year + 1900 \in Int /\ t.tm_mon + 1 \in 1..12 /\ t.tm_mday \in Int
        /\ IsDate(command) \in Int
    BY <1>2, <1>3, <1>4
  <2>. DEFINE y == t.tm_year + 1900
              m == t.tm_mon + 1
              d == t.tm_mday
              e == IsDate(command)
  <2>. HIDE DEF y, m, d, e
  <2>2. y \in Int /\ m \in 1..12 /\ d \in Int /\ e \in Int
    BY <2>1 DEF y, m, d, e
  <2>3. DayNumber(y, m, d + e) = DayNumber(y, m, d) + e
    BY ONLY <2>2, DayAdds, Zenon
  <2>. QED  BY <1>1, <2>3 DEF DayOf, y, m, d, e
<1>. QED  BY <1>1, <1>5, <1>9, <1>10 DEF s

LEMMA ClockStays ==
  ASSUME NEW t, IsTime(t)
  PROVE  LET u == mktime(t)
         IN  /\ IsTime(u) /\ u.tm_year \in {t.tm_year, t.tm_year + 1}
             /\ SecondOfDay(u) = SecondOfDay(t) /\ DayOf(u) = DayOf(t)
<1>1. /\ t.tm_year \in Nat /\ t.tm_mon \in 0..11 /\ t.tm_mday \in 1..DaysOf(t)
      /\ t.tm_hour \in 0..23 /\ t.tm_min \in 0..59 /\ t.tm_sec \in 0..59
  BY DEF IsTime
<1>2. SecondOfDay(t) \in Nat /\ SecondOfDay(t) < 86400 /\ DaysOf(t) \in 28..31
  BY TimeOfDay, DaysOfMonth
<1>3. SecondOfDay(t) \div 86400 = 0 /\ SecondOfDay(t) % 86400 = SecondOfDay(t)
  BY <1>2, SMT
<1>4. t.tm_mday \in 1..DaysOf(t) + 1 /\ t.tm_sec \in 0..60
      /\ t.tm_mday + SecondOfDay(t) \div 86400 <= DaysOf(t) + 1
  BY <1>1, <1>2, <1>3
<1>5. DayOf(t) \in Int
  <2>1. t.tm_year + 1900 \in Int /\ t.tm_mon + 1 \in 1..12 /\ t.tm_mday \in Int
    BY <1>1, <1>2
  <2>. DEFINE y == t.tm_year + 1900
              m == t.tm_mon + 1
              d == t.tm_mday
  <2>. HIDE DEF y, m, d
  <2>2. y \in Int /\ m \in 1..12 /\ d \in Int
    BY <2>1 DEF y, m, d
  <2>3. DayNumber(y, m, d) \in Int
    BY ONLY <2>2, DaysAreCounted, Zenon
  <2>. QED  BY <2>3 DEF DayOf, y, m, d
<1>6. /\ IsTime(mktime(t)) /\ mktime(t).tm_year \in {t.tm_year, t.tm_year + 1}
      /\ SecondOfDay(mktime(t)) = SecondOfDay(t) % 86400
      /\ DayOf(mktime(t)) = DayOf(t) + SecondOfDay(t) \div 86400
  BY <1>1, <1>4, ClockGoesOn DEF DayOf
<1>. QED  BY <1>3, <1>5, <1>6

(* A second more, carried into the days. *)
LEMMA SecondsCarry ==
  ASSUME NEW n \in Nat, NEW one \in {0, 1}
  PROVE  /\ ((n % 86400) + one) % 86400 = (n + one) % 86400
         /\ n \div 86400 + ((n % 86400) + one) \div 86400 = (n + one) \div 86400
<1>1. CASE one = 0
  BY <1>1, SMT
<1>2. CASE one = 1
  BY <1>2, SMT
<1>. QED  BY <1>1, <1>2

(* Digits: a number written with them and read back. *)
LEMMA DigitFacts ==
  ASSUME NEW a \in 0..99
  PROVE  /\ a \div 10 \in 0..9 /\ a % 10 \in 0..9 /\ 10 * (a \div 10) + (a % 10) = a
BY SMT

LEMMA DigitSplits ==
  ASSUME NEW lo \in Nat, NEW hi \in Nat
  PROVE  /\ lo < 16 => (lo + 16 * hi) \div 16 = hi /\ (lo + 16 * hi) % 16 = lo
         /\ lo < 256 => (lo + 256 * hi) \div 256 = hi
         /\ lo < 4096 => (lo + 4096 * hi) \div 4096 = hi
         /\ lo < 65536 => (lo + 65536 * hi) \div 65536 = hi
         /\ lo < 1048576 => (lo + 1048576 * hi) \div 1048576 = hi
         /\ lo < 16777216 => (lo + 16777216 * hi) \div 16777216 = hi
         /\ lo < 268435456 => (lo + 268435456 * hi) \div 268435456 = hi
<1>1. lo < 16 => (lo + 16 * hi) \div 16 = hi /\ (lo + 16 * hi) % 16 = lo
  BY SMT
<1>2. lo < 256 => (lo + 256 * hi) \div 256 = hi
  BY SMT
<1>3. lo < 4096 => (lo + 4096 * hi) \div 4096 = hi
  BY SMT
<1>4. lo < 65536 => (lo + 65536 * hi) \div 65536 = hi
  BY SMT
<1>5. lo < 1048576 => (lo + 1048576 * hi) \div 1048576 = hi
  BY SMT
<1>6. lo < 16777216 => (lo + 16777216 * hi) \div 16777216 = hi
  BY SMT
<1>7. lo < 268435456 => (lo + 268435456 * hi) \div 268435456 = hi
  BY SMT
<1>. QED  BY <1>1, <1>2, <1>3, <1>4, <1>5, <1>6, <1>7

Packed(a, b, c, d) ==
  TwoDigits(a) * 16777216 + TwoDigits(b) * 65536 + TwoDigits(c) * 256 + TwoDigits(d)
Unpacked(a, b, c, d) == a * 1000000 + b * 10000 + c * 100 + d

LEMMA ReadsBack ==
  ASSUME NEW a \in 0..99, NEW b \in 0..99, NEW c \in 0..99, NEW d \in 0..99
  PROVE  Decimal(Packed(a, b, c, d)) = Unpacked(a, b, c, d)
<1>. DEFINE h7 == a \div 10
            h6 == a % 10
            h5 == b \div 10
            h4 == b % 10
            h3 == c \div 10
            h2 == c % 10
            h1 == d \div 10
            h0 == d % 10
<1>21. /\ h7 \in 0..9 /\ h6 \in 0..9 /\ 10 * h7 + h6 = a
       /\ h5 \in 0..9 /\ h4 \in 0..9 /\ 10 * h5 + h4 = b
       /\ h3 \in 0..9 /\ h2 \in 0..9 /\ 10 * h3 + h2 = c
       /\ h1 \in 0..9 /\ h0 \in 0..9 /\ 10 * h1 + h0 = d
  BY DigitFacts
<1>22. /\ TwoDigits(a) = 16 * h7 + h6 /\ TwoDigits(b) = 16 * h5 + h4
       /\ TwoDigits(c) = 16 * h3 + h2 /\ TwoDigits(d) = 16 * h1 + h0
  BY DEF TwoDigits
<1>. HIDE DEF h0, h1, h2, h3, h4, h5, h6, h7
<1>. DEFINE n == h0 + 16 * h1 + 256 * h2 + 4096 * h3 + 65536 * h4 + 1048576 * h5 + 16777216 * h6
                 + 268435456 * h7
            hi7 == h7
            hi6 == h6 + 16 * hi7
            hi5 == h5 + 16 * hi6
            hi4 == h4 + 16 * hi5
            hi3 == h3 + 16 * hi4
            hi2 == h2 + 16 * hi3
            hi1 == h1 + 16 * hi2
            hi0 == h0 + 16 * hi1
            lo1 == h0
            lo2 == h0 + 16 * h1
            lo3 == h0 + 16 * h1 + 256 * h2
            lo4 == h0 + 16 * h1 + 256 * h2 + 4096 * h3
            lo5 == h0 + 16 * h1 + 256 * h2 + 4096 * h3 + 65536 * h4
            lo6 == h0 + 16 * h1 + 256 * h2 + 4096 * h3 + 65536 * h4 + 1048576 * h5
            lo7 == h0 + 16 * h1 + 256 * h2 + 4096 * h3 + 65536 * h4 + 1048576 * h5 + 16777216 * h6
            g(k) == (n \div 16^k) % 16
<1>12. /\ hi0 \in Nat /\ hi1 \in Nat /\ hi2 \in Nat /\ hi3 \in Nat /\ hi4 \in Nat /\ hi5 \in Nat
       /\ hi6 \in Nat /\ hi7 \in Nat /\ h0 \in Nat /\ h1 \in Nat /\ h2 \in Nat /\ h3 \in Nat
       /\ h4 \in Nat /\ h5 \in Nat /\ h6 \in Nat /\ h7 \in Nat
  BY <1>21
<1>13. /\ lo1 \in Nat /\ lo1 < 16
       /\ lo2 \in Nat /\ lo2 < 256
       /\ lo3 \in Nat /\ lo3 < 4096
       /\ lo4 \in Nat /\ lo4 < 65536
       /\ lo5 \in Nat /\ lo5 < 1048576
       /\ lo6 \in Nat /\ lo6 < 16777216
       /\ lo7 \in Nat /\ lo7 < 268435456
  BY <1>21, SMT
<1>14. /\ n = hi0
       /\ n = lo1 + 16 * hi1
       /\ n = lo2 + 256 * hi2
       /\ n = lo3 + 4096 * hi3
       /\ n = lo4 + 65536 * hi4
       /\ n = lo5 + 1048576 * hi5
       /\ n = lo6 + 16777216 * hi6
       /\ n = lo7 + 268435456 * hi7
  BY <1>12, SMT
<1>15. /\ hi0 % 16 = h0
       /\ hi1 % 16 = h1
       /\ hi2 % 16 = h2
       /\ hi3 % 16 = h3
       /\ hi4 % 16 = h4
       /\ hi5 % 16 = h5
       /\ hi6 % 16 = h6
       /\ hi7 % 16 = h7
  <2>. HIDE DEF hi1, hi2, hi3, hi4, hi5, hi6, hi7
  <2>0. hi0 % 16 = h0
    BY <1>12, <1>21, DigitSplits DEF hi0
  <2>1. hi1 % 16 = h1
    BY <1>12, <1>21, DigitSplits DEF hi1
  <2>2. hi2 % 16 = h2
    BY <1>12, <1>21, DigitSplits DEF hi2
  <2>3. hi3 % 16 = h3
    BY <1>12, <1>21, DigitSplits DEF hi3
  <2>4. hi4 % 16 = h4
    BY <1>12, <1>21, DigitSplits DEF hi4
  <2>5. hi5 % 16 = h5
    BY <1>12, <1>21, DigitSplits DEF hi5
  <2>6. hi6 % 16 = h6
    BY <1>12, <1>21, DigitSplits DEF hi6
  <2>7. hi7 % 16 = h7
    BY <1>21, SMT DEF hi7
  <2>. QED  BY <2>0, <2>1, <2>2, <2>3, <2>4, <2>5, <2>6, <2>7
<1>. HIDE DEF n, hi0, hi1, hi2, hi3, hi4, hi5, hi6, hi7, lo1, lo2, lo3, lo4, lo5, lo6, lo7
<1>0. g(0) = h0
  BY <1>12, <1>14, <1>15, SMT
<1>1. g(1) = h1
  <2>1. n \div 16 = hi1
    BY <1>12, <1>13, <1>14, DigitSplits
  <2>. QED  BY <2>1, <1>15, SMT
<1>2. g(2) = h2
  <2>1. n \div 256 = hi2
    BY <1>12, <1>13, <1>14, DigitSplits
  <2>. QED  BY <2>1, <1>15, SMT
<1>3. g(3) = h3
  <2>1. n \div 4096 = hi3
    BY <1>12, <1>13, <1>14, DigitSplits
  <2>. QED  BY <2>1, <1>15, SMT
<1>4. g(4) = h4
  <2>1. n \div 65536 = hi4
    BY <1>12, <1>13, <1>14, DigitSplits
  <2>. QED  BY <2>1, <1>15, SMT
<1>5. g(5) = h5
  <2>1. n \div 1048576 = hi5
    BY <1>12, <1>13, <1>14, DigitSplits
  <2>. QED  BY <2>1, <1>15, SMT
<1>6. g(6) = h6
  <2>1. n \div 16777216 = hi6
    BY <1>12, <1>13, <1>14, DigitSplits
  <2>. QED  BY <2>1, <1>15, SMT
<1>7. g(7) = h7
  <2>1. n \div 268435456 = hi7
    BY <1>12, <1>13, <1>14, DigitSplits
  <2>. QED  BY <2>1, <1>15, SMT
<1>8. Decimal(n) = g(0) + 10 * g(1) + 100 * g(2) + 1000 * g(3) + 10000 * g(4) + 100000 * g(5)
                   + 1000000 * g(6) + 10000000 * g(7)
  BY SMT DEF Decimal
<1>. HIDE DEF g
<1>9. Decimal(n) = h0 + 10 * h1 + 100 * h2 + 1000 * h3 + 10000 * h4 + 100000 * h5
                   + 1000000 * h6 + 10000000 * h7
  BY <1>0, <1>1, <1>2, <1>3, <1>4, <1>5, <1>6, <1>7, <1>8
<1>10. n = TwoDigits(a) * 16777216 + TwoDigits(b) * 65536 + TwoDigits(c) * 256 + TwoDigits(d)
  BY <1>21, <1>22, SMT DEF n
<1>16. Decimal(n) = a * 1000000 + b * 10000 + c * 100 + d
  BY <1>9, <1>12, <1>21, SMT
<1>. QED  BY <1>10, <1>16 DEF Packed, Unpacked

Years == 0..9999
ShowsDate(n, y, m, d) == n \div 10000 = y /\ (n \div 100) % 100 = m /\ n % 100 = d

LEMMA DateDigits ==
  ASSUME NEW y \in Years, NEW m \in 0..99, NEW d \in 0..99
  PROVE  ShowsDate(Unpacked(y \div 100, y % 100, m, d), y, m, d)
<1>. DEFINE n == Unpacked(y \div 100, y % 100, m, d)
<1>0. n = (y \div 100) * 1000000 + (y % 100) * 10000 + m * 100 + d /\ y \in 0..9999
  BY DEF Unpacked, Years
<1>. HIDE DEF n
<1>1. n = y * 10000 + m * 100 + d
  BY <1>0, SMT
<1>2. n \div 10000 = y
  BY <1>0, <1>1, SMT
<1>3. (n \div 100) % 100 = m
  <2>1. n \div 100 = y * 100 + m
    BY <1>0, <1>1, SMT
  <2>. QED  BY <1>0, <2>1, SMT
<1>4. n % 100 = d
  BY <1>0, <1>1, SMT
<1>. QED  BY <1>2, <1>3, <1>4 DEF ShowsDate, n

SameTime(h, m, x, c) == 3600 * h + 60 * m + x = c % 86400
ShowsTime(n, d, c) ==
  /\ n \div 1000000 = d
  /\ n % 1000000 = ((c % 86400) \div 3600) * 10000 + ((c \div 60) % 60) * 100 + (c % 60)

LEMMA TimeDigits ==
  ASSUME NEW d \in 0..99, NEW h \in 0..23, NEW m \in 0..59, NEW s \in 0..59, NEW c \in Nat,
         SameTime(h, m, s, c)
  PROVE  ShowsTime(Unpacked(d, h, m, s), d, c)
<1>. DEFINE n == Unpacked(d, h, m, s)
<1>0. n = d * 1000000 + h * 10000 + m * 100 + s /\ 3600 * h + 60 * m + s = c % 86400
  BY DEF Unpacked, SameTime
<1>. HIDE DEF n
<1>1. n \div 1000000 = d /\ n % 1000000 = h * 10000 + m * 100 + s
  BY <1>0, SMT
<1>2. (c % 86400) \div 3600 = h
  BY <1>0, SMT
<1>3. (c \div 60) % 60 = m
  <2>1. PICK k \in Nat : c = 86400 * k + (c % 86400)
    BY <1>0, SMT
  <2>2. c = 60 * (1440 * k + 60 * h + m) + s
    BY <1>0, <2>1, SMT
  <2>3. c \div 60 = 1440 * k + 60 * h + m
    BY <1>0, <2>2, SMT
  <2>. QED  BY <1>0, <2>3, SMT
<1>4. c % 60 = s
  <2>1. PICK k \in Nat : c = 86400 * k + (c % 86400)
    BY <1>0, SMT
  <2>2. c = 60 * (1440 * k + 60 * h + m) + s
    BY <1>0, <2>1, SMT
  <2>. QED  BY <1>0, <2>2, SMT
<1>. QED  BY <1>1, <1>2, <1>3, <1>4 DEF n, ShowsTime

LEMMA Century ==
  ASSUME NEW y \in Nat, y <= 9999
  PROVE  y \div 100 \in 0..99 /\ y % 100 \in 0..99
<1>1. y \div 100 \in Nat /\ y % 100 \in 0..99
  BY SMT
<1>2. y \div 100 <= 99
  BY SMT
<1>. QED  BY <1>1, <1>2


(* What the task knows: the calls are verified before any is made, the time
   it keeps is the one that the steps since the last INIT lead to, and what
   it returned is that time. *)
Early(year, left) == year + 1900 + left < 8000
RtcTypes ==
  /\ bench \in Benches /\ made \in Nat /\ made <= Len(bench)
  /\ dates \in Nat /\ seconds \in Nat /\ missing \in BOOLEAN
Verified ==
  /\ simulation = "run" => \A k \in DOMAIN bench : Acceptable(bench[k])
  /\ made > 0 => simulation = "run"
Kept(t, from, d, s, left) ==
  /\ IsTime(t) /\ IsRecord(t) /\ Early(t.tm_year, left)
  /\ DayNumber(from.tm_year, from.tm_mon, from.tm_mday) \in Int /\ SecondOfDay(from) \in Nat
  /\ DayOf(t) = DayNumber(from.tm_year, from.tm_mon, from.tm_mday) + d
                + (SecondOfDay(from) + s) \div 86400
  /\ SecondOfDay(t) = (SecondOfDay(from) + s) % 86400
ClockKept ==
  start.tm_year > 0 /\ ~missing => Kept(tm, start, dates, seconds, Len(bench) - made)
Replied == made > 0 => answer = Result(LastCommand, tm)
MissingTells ==
  missing => \E k \in DOMAIN bench : bench[k] # <<>> /\ bench[k][1].type # "vpiConstant"
RtcInv == RtcTypes /\ Verified /\ ClockKept /\ Replied /\ MissingTells

LEMMA RtcInitInv == RtcInit => RtcInv
<1>. SUFFICES ASSUME RtcInit PROVE RtcInv
  OBVIOUS
<1>1. bench \in Benches
  BY ChoiceIn, BenchAssumption DEF RtcInit
<1>2. Len(bench) \in Nat
  BY <1>1, BenchAssumption
<1>3. start.tm_year = 0 /\ made = 0 /\ dates = 0 /\ seconds = 0 /\ missing = FALSE
      /\ simulation = "compile"
  BY TimeFacts DEF RtcInit
<1>4. RtcTypes
  <2>1. made \in Nat /\ made <= Len(bench) /\ dates \in Nat /\ seconds \in Nat
    BY <1>2, <1>3
  <2>2. missing \in BOOLEAN
    BY <1>3, Zenon
  <2>. QED  BY <1>1, <2>1, <2>2 DEF RtcTypes
<1>. QED  BY <1>3, <1>4 DEF RtcInv, Verified, ClockKept, Replied, MissingTells

LEMMA CompileKeeps == ASSUME RtcInv, Compiletf PROVE RtcInv'
<1>1. RtcTypes' /\ ClockKept' /\ Replied' /\ MissingTells'
  BY DEF RtcInv, Compiletf, RtcTypes, ClockKept, Replied, MissingTells, LastCommand
<1>2. Verified'
  <2>1. made' = made /\ bench' = bench /\ made = 0
    BY DEF RtcInv, Verified, RtcTypes, Compiletf
  <2>2. simulation' = "run" => \A k \in DOMAIN bench : Acceptable(bench[k])
    BY DEF Compiletf
  <2>. QED  BY <2>1, <2>2 DEF Verified, Acceptable, Given
<1>. QED  BY <1>1, <1>2 DEF RtcInv

(* The time that a call of a bench sets. *)
LEMMA InitialIsTime ==
  ASSUME NEW calls \in Benches, NEW k \in DOMAIN calls, Len(calls[k]) = 7,
         NEW values, values = [i \in 1..7 |-> calls[k][i].value]
  PROVE  /\ IsTime(Initial(values)) /\ IsRecord(Initial(values))
         /\ Early(Initial(values).tm_year, Len(calls))
         /\ \A i \in 1..7 : values[i] \in Int
<1>1. calls[k] \in Seq([type : STRING, checked : Int, value : Int])
  BY BenchAssumption
<1>2. \A i \in 1..7 : values[i] \in Int
  <2>. DEFINE S == [type : STRING, checked : Int, value : Int]
              args == calls[k]
  <2>1. args \in Seq(S) /\ Len(args) = 7
    BY <1>1
  <2>2. \A a \in S : a.value \in Int
    OBVIOUS
  <2>. HIDE DEF S, args
  <2>3. \A i \in 1..7 : args[i] \in S
    BY <2>1, ElementOfSeq
  <2>4. \A i \in 1..7 : args[i].value \in Int
    BY <2>2, <2>3
  <2>. QED  BY <2>4 DEF args
<1>3. IsTime(Initial(values)) /\ Early(Initial(values).tm_year, Len(calls))
  <2>1. Settable([i \in 1..7 |-> calls[k][i].value], Len(calls))
    BY BenchAssumption, Zenon
  <2>2. Settable(values, Len(calls))
    BY <2>1
  <2>. QED  BY <2>2 DEF Initial, Settable, Early
<1>. QED  BY <1>2, <1>3, TimeFacts DEF Initial

LEMMA SetClock ==
  ASSUME NEW v, \A i \in 1..7 : v[i] \in Int, IsTime(Initial(v)), NEW left \in Int, NEW one \in Int,
         Early(Initial(v).tm_year, left), one >= 1
  PROVE  Kept(mktime(Initial(v)), Time(v[2], v[3], v[4], v[5], v[6], v[7]), 0, 0, left - one)
<1>. DEFINE t == Initial(v)
            from == Time(v[2], v[3], v[4], v[5], v[6], v[7])
            u == mktime(t)
<1>1. /\ t.tm_year = v[2] - 1900 /\ t.tm_mon = v[3] - 1 /\ t.tm_mday = v[4]
      /\ t.tm_hour = v[5] /\ t.tm_min = v[6] /\ t.tm_sec = v[7]
  BY TimeFacts DEF Initial
<1>2. /\ from.tm_year = v[2] /\ from.tm_mon = v[3] /\ from.tm_mday = v[4]
      /\ from.tm_hour = v[5] /\ from.tm_min = v[6] /\ from.tm_sec = v[7]
  BY TimeFacts
<1>3. v[2] \in Int /\ v[3] \in Int /\ v[4] \in Int
  OBVIOUS
<1>4. SecondOfDay(from) = SecondOfDay(t)
  BY <1>1, <1>2 DEF SecondOfDay
<1>5. DayOf(t) = DayNumber(v[2], v[3], v[4])
  <2>1. v[2] - 1900 + 1900 = v[2] /\ v[3] - 1 + 1 = v[3]
    BY <1>3
  <2>. QED  BY <1>1, <2>1 DEF DayOf
<1>6. SecondOfDay(t) \in Nat /\ SecondOfDay(t) < 86400
  BY TimeOfDay
<1>7. /\ IsTime(u) /\ u.tm_year \in {t.tm_year, t.tm_year + 1}
      /\ SecondOfDay(u) = SecondOfDay(t) /\ DayOf(u) = DayOf(t)
  BY ClockStays
<1>8. IsRecord(u)
  BY Normal
<1>9. DayNumber(v[2], v[3], v[4]) \in Int
  <2>1. v[3] \in 1..12
    BY <1>1, <1>3 DEF IsTime
  <2>. DEFINE y == v[2]
              m == v[3]
              d == v[4]
  <2>2. y \in Int /\ m \in 1..12 /\ d \in Int
    BY <1>3, <2>1
  <2>. HIDE DEF y, m, d
  <2>3. DayNumber(y, m, d) \in Int
    BY ONLY <2>2, DaysAreCounted, Zenon
  <2>. QED  BY <2>3 DEF y, m, d
<1>. HIDE DEF t, from, u
<1>10. (SecondOfDay(from) + 0) \div 86400 = 0 /\ (SecondOfDay(from) + 0) % 86400 = SecondOfDay(from)
  BY <1>4, <1>6, SMT
<1>11. Early(u.tm_year, left - one)
  <2>1. t.tm_year \in Int /\ t.tm_year + 1900 + left < 8000
    BY <1>1, <1>3 DEF t, Early
  <2>. QED  BY <1>7, <2>1 DEF Early
<1>12. Kept(u, from, 0, 0, left - one)
  BY <1>2, <1>4, <1>5, <1>6, <1>7, <1>8, <1>9, <1>10, <1>11 DEF Kept
<1>. QED  BY <1>12 DEF u, t, from

LEMMA StepClock ==
  ASSUME NEW t, NEW from, NEW d \in Nat, NEW s \in Nat, NEW left \in Int, NEW command,
         Kept(t, from, d, s, left)
  PROVE  Kept(mktime(Stepped(command, t)), from, d + IsDate(command), s + IsSecond(command), left - 1)
<1>. DEFINE u == mktime(Stepped(command, t))
            n == SecondOfDay(from) + s
            D == DayNumber(from.tm_year, from.tm_mon, from.tm_mday)
            one == IsSecond(command)
<1>1. /\ IsTime(t) /\ IsRecord(t) /\ Early(t.tm_year, left)
      /\ D \in Int /\ SecondOfDay(from) \in Nat
      /\ DayOf(t) = D + d + n \div 86400 /\ SecondOfDay(t) = n % 86400
  BY DEF Kept
<1>2. /\ IsTime(u) /\ u.tm_year \in {t.tm_year, t.tm_year + 1}
      /\ SecondOfDay(u) = (SecondOfDay(t) + one) % 86400
      /\ DayOf(u) = DayOf(t) + IsDate(command) + (SecondOfDay(t) + one) \div 86400
  BY <1>1, ClockSteps
<1>3. IsRecord(u)
  BY Normal
<1>4. one \in {0, 1} /\ IsDate(command) \in {0, 1} /\ n \in Nat
  BY <1>1 DEF IsSecond, IsDate
<1>5. /\ ((n % 86400) + one) % 86400 = (n + one) % 86400
      /\ n \div 86400 + ((n % 86400) + one) \div 86400 = (n + one) \div 86400
  BY <1>4, SecondsCarry
<1>6. t.tm_year \in Nat
  BY <1>1 DEF IsTime
<1>7. SecondOfDay(from) + (s + one) = n + one
  BY <1>1, <1>4
<1>. HIDE DEF u, D
<1>8. Early(u.tm_year, left - 1)
  BY <1>1, <1>2, <1>6 DEF Early
<1>9. n \div 86400 \in Int /\ ((n % 86400) + one) \div 86400 \in Int
  <2>. HIDE DEF n, one
  <2>. QED  BY <1>4, SMT
<1>. HIDE DEF n, one
<1>10. DayOf(u) = D + (d + IsDate(command)) + (n + one) \div 86400
  <2>. DEFINE a == n \div 86400
              b == ((n % 86400) + one) \div 86400
  <2>1. DayOf(u) = D + d + a + IsDate(command) + b
    BY <1>1, <1>2
  <2>2. a + b = (n + one) \div 86400 /\ a \in Int /\ b \in Int
    BY <1>5, <1>9
  <2>. HIDE DEF a, b
  <2>3. D + d + a + IsDate(command) + b = D + (d + IsDate(command)) + (a + b)
    BY <1>1, <1>4, <2>2
  <2>. QED  BY <2>1, <2>2, <2>3
<1>11. SecondOfDay(u) = (n + one) % 86400
  BY <1>1, <1>2, <1>5
<1>12. /\ DayOf(u) = D + (d + IsDate(command)) + (SecondOfDay(from) + (s + one)) \div 86400
       /\ SecondOfDay(u) = (SecondOfDay(from) + (s + one)) % 86400
  BY <1>7, <1>10, <1>11
<1>13. Kept(u, from, d + IsDate(command), s + one, left - 1)
  BY <1>1, <1>2, <1>3, <1>8, <1>12 DEF Kept, D
<1>. QED  BY <1>13 DEF u, one

LEMMA BenchFacts ==
  ASSUME RtcInv
  PROVE  /\ Len(bench) \in Nat /\ DOMAIN bench = 1..Len(bench)
         /\ \A k \in DOMAIN bench : bench[k] \in Seq([type : STRING, checked : Int, value : Int])
<1>1. bench \in Benches
  BY DEF RtcInv, RtcTypes
<1>2. bench \in Seq(Seq([type : STRING, checked : Int, value : Int]))
  BY <1>1, BenchAssumption
<1>. DEFINE S == Seq([type : STRING, checked : Int, value : Int])
<1>. HIDE DEF S
<1>3. Len(bench) \in Nat /\ DOMAIN bench = 1..Len(bench) /\ \A k \in 1..Len(bench) : bench[k] \in S
  BY <1>2, ElementOfSeq DEF S
<1>. QED  BY <1>3 DEF S

LEMMA BenchCallKeeps == ASSUME RtcInv, Calltf PROVE RtcInv'
<1>. DEFINE args == bench[made + 1]
            command == args[1].value
            values == [k \in 1..7 |-> IF k \in DOMAIN args THEN args[k].value ELSE 1]
            t == mktime(Stepped(command, IF command = CMD_RTC_INIT THEN Initial(values) ELSE tm))
            from == Time(values[2], values[3], values[4], values[5], values[6], values[7])
<1>1. /\ simulation = "run" /\ made < Len(bench) /\ made' = made + 1
      /\ tm' = t /\ answer' = Result(command, t)
      /\ missing' = (missing \/ (command = CMD_RTC_INIT /\ Len(args) < 7))
      /\ start' = IF command = CMD_RTC_INIT THEN from ELSE start
      /\ dates' = IF command = CMD_RTC_INIT THEN 0
                  ELSE IF command = CMD_RTC_NEXT_DATE THEN dates + 1 ELSE dates
      /\ seconds' = IF command = CMD_RTC_INIT THEN 0
                    ELSE IF command = CMD_RTC_NEXT_SECOND THEN seconds + 1 ELSE seconds
      /\ bench' = bench /\ simulation' = simulation
  BY DEF Calltf
<1>2. /\ made \in Nat /\ dates \in Nat /\ seconds \in Nat /\ missing \in BOOLEAN /\ bench \in Benches
  BY DEF RtcInv, RtcTypes
<1>3. /\ Len(bench) \in Nat /\ DOMAIN bench = 1..Len(bench)
      /\ \A k \in DOMAIN bench : bench[k] \in Seq([type : STRING, checked : Int, value : Int])
  BY BenchFacts
<1>4. made + 1 \in DOMAIN bench /\ made + 1 <= Len(bench)
  BY <1>1, <1>2, <1>3
<1>5. args \in Seq([type : STRING, checked : Int, value : Int]) /\ Len(args) \in Nat
  BY <1>3, <1>4
<1>6. Acceptable(args)
  BY <1>1, <1>4 DEF RtcInv, Verified
<1>7. args # <<>> /\ 1 \in DOMAIN args
  BY <1>5, <1>6 DEF Acceptable, Given
<1>8. Len(args) \in {1, 7}
  BY <1>6 DEF Acceptable
<1>9. command = CMD_RTC_INIT /\ Len(args) < 7 => args[1].type # "vpiConstant"
  <2>1. SUFFICES ASSUME command = CMD_RTC_INIT, Len(args) < 7, args[1].type = "vpiConstant"
                 PROVE  FALSE
    OBVIOUS
  <2>2. args[1].checked = args[1].value
    BY <1>2, <1>4, <1>7, <2>1, BenchAssumption
  <2>3. Len(args) = 7
    BY <1>6, <2>1, <2>2 DEF Acceptable
  <2>. QED  BY <1>5, <2>1, <2>3
<1>. HIDE DEF t, from
<1>10. RtcTypes'
  <2>1. made' \in Nat /\ made' <= Len(bench') /\ dates' \in Nat /\ seconds' \in Nat
    <3>1. made' \in Nat /\ made' <= Len(bench')
      BY <1>1, <1>2, <1>4
    <3>2. dates' \in Nat
      BY <1>1, <1>2
    <3>3. seconds' \in Nat
      BY <1>1, <1>2
    <3>. QED  BY <3>1, <3>2, <3>3
  <2>2. missing' \in BOOLEAN
    BY <1>1, <1>2, Zenon
  <2>. QED  BY <1>1, <1>2, <2>1, <2>2 DEF RtcTypes
<1>11. Verified'
  <2>1. \A k \in DOMAIN bench : Acceptable(bench[k])
    BY <1>1 DEF RtcInv, Verified
  <2>. QED  BY <1>1, <2>1 DEF Verified, Acceptable, Given
<1>12. Replied'
  <2>1. LastCommand' = command
    BY <1>1 DEF LastCommand
  <2>. QED  BY <1>1, <2>1 DEF Replied
<1>13. MissingTells'
  <2>1. CASE missing
    BY <1>1, <2>1 DEF RtcInv, MissingTells
  <2>2. CASE ~missing /\ missing'
    <3>1. command = CMD_RTC_INIT /\ Len(args) < 7
      BY <1>1, <2>2
    <3>2. bench[made + 1] # <<>> /\ bench[made + 1][1].type # "vpiConstant"
      BY <1>7, <1>9, <3>1
    <3>. QED  BY <1>1, <1>4, <3>2 DEF MissingTells
  <2>3. CASE ~missing'
    BY <2>3 DEF MissingTells
  <2>. QED  BY <2>1, <2>2, <2>3
<1>14. ClockKept'
  <2>. SUFFICES ASSUME start'.tm_year > 0, ~missing'
                PROVE  Kept(tm', start', dates', seconds', Len(bench') - made')
    BY DEF ClockKept
  <2>1. CASE command = CMD_RTC_INIT
    <3>1. Len(args) = 7
      <4>1. ~(Len(args) < 7)
        BY <1>1, <2>1
      <4>2. \A n \in {1, 7} : ~(n < 7) => n = 7
        OBVIOUS
      <4>. QED  BY ONLY <1>8, <4>1, <4>2, Zenon
    <3>2. values = [i \in 1..7 |-> args[i].value]
      <4>1. DOMAIN args = 1..7
        BY <1>5, <3>1
      <4>. QED  BY <4>1
    <3>3. /\ IsTime(Initial(values)) /\ Early(Initial(values).tm_year, Len(bench))
          /\ \A i \in 1..7 : values[i] \in Int
      BY <1>2, <1>4, <3>1, <3>2, InitialIsTime
    <3>4. Stepped(command, Initial(values)) = Initial(values)
      BY <2>1 DEF Stepped, CMD_RTC_INIT, CMD_RTC_NEXT_DATE, CMD_RTC_NEXT_SECOND
    <3>5. t = mktime(Initial(values))
      BY <2>1, <3>4 DEF t
    <3>. HIDE DEF values
    <3>6. Kept(mktime(Initial(values)),
               Time(values[2], values[3], values[4], values[5], values[6], values[7]),
               0, 0, Len(bench) - (made + 1))
      <4>1. Len(bench) \in Int /\ made + 1 \in Int /\ made + 1 >= 1
        BY <1>2, <1>3
      <4>2. Kept(mktime(Initial(values)),
                 Time(values[2], values[3], values[4], values[5], values[6], values[7]),
                 0, 0, Len(bench) - (made + 1))
        BY ONLY <3>3, <4>1, SetClock, Zenon
      <4>. QED  BY <4>2
    <3>. QED  BY <1>1, <2>1, <3>5, <3>6 DEF from
  <2>2. CASE command # CMD_RTC_INIT
    <3>1. start' = start /\ t = mktime(Stepped(command, tm)) /\ ~missing
      BY <1>1, <2>2 DEF t
    <3>2. Kept(tm, start, dates, seconds, Len(bench) - made)
      BY <3>1 DEF RtcInv, ClockKept
    <3>3. dates' = dates + IsDate(command) /\ seconds' = seconds + IsSecond(command)
      <4>1. dates' = dates + IsDate(command)
        BY <1>1, <1>2, <2>2 DEF IsDate
      <4>2. seconds' = seconds + IsSecond(command)
        BY <1>1, <1>2, <2>2 DEF IsSecond
      <4>. QED  BY <4>1, <4>2
    <3>4. Len(bench) - made \in Int /\ Len(bench') - made' = (Len(bench) - made) - 1
      BY <1>1, <1>2, <1>3
    <3>5. Kept(mktime(Stepped(command, tm)), start, dates + IsDate(command), seconds + IsSecond(command),
               (Len(bench) - made) - 1)
      <4>. HIDE DEF command
      <4>. QED  BY <1>2, <3>2, <3>4, StepClock
    <3>. QED  BY <1>1, <3>1, <3>3, <3>4, <3>5
  <2>. QED  BY <2>1, <2>2
<1>. QED  BY <1>10, <1>11, <1>12, <1>13, <1>14 DEF RtcInv

LEMMA RtcStepInv == RtcInv /\ [RtcNext]_rtcVars => RtcInv'
<1>. SUFFICES ASSUME RtcInv, [RtcNext]_rtcVars PROVE RtcInv'
  OBVIOUS
<1>1. CASE RtcNext
  BY <1>1, CompileKeeps, BenchCallKeeps DEF RtcNext
<1>2. CASE UNCHANGED rtcVars
  BY <1>2 DEF rtcVars, RtcInv, RtcTypes, Verified, ClockKept, Replied, MissingTells, LastCommand
<1>. QED  BY <1>1, <1>2

DateRight(n, day) ==
  /\ DayNumber(n \div 10000, (n \div 100) % 100, n % 100) = day
  /\ (n \div 100) % 100 \in 1..12 /\ n % 100 \in 1..31
TimeRight(n, t, c, day) ==
  /\ n % 1000000 = ((c % 86400) \div 3600) * 10000 + ((c \div 60) % 60) * 100 + (c % 60)
  /\ DayNumber(t.tm_year + 1900, t.tm_mon + 1, n \div 1000000) = day

LEMMA KeptTells ==
  ASSUME NEW t, NEW from, NEW d \in Nat, NEW s \in Nat, NEW left \in Nat, Kept(t, from, d, s, left)
  PROVE  LET c == SecondOfDay(from) + s
             day == DayNumber(from.tm_year, from.tm_mon, from.tm_mday) + d + c \div 86400
         IN  /\ DateRight(Decimal(Result(CMD_RTC_NEXT_DATE, t)), day)
             /\ TimeRight(Decimal(Result(CMD_RTC_NEXT_SECOND, t)), t, c, day)
<1>. DEFINE date == Decimal(Result(CMD_RTC_NEXT_DATE, t))
            time == Decimal(Result(CMD_RTC_NEXT_SECOND, t))
            c == SecondOfDay(from) + s
            day == DayNumber(from.tm_year, from.tm_mon, from.tm_mday) + d + c \div 86400
            y == t.tm_year + 1900
            mon == t.tm_mon + 1
            mday == t.tm_mday
            h == t.tm_hour
            m == t.tm_min
            x == t.tm_sec
<1>1. IsTime(t) /\ Early(t.tm_year, left) /\ DayOf(t) = day /\ SecondOfDay(t) = c % 86400 /\ c \in Nat
  BY DEF Kept
<1>2. y \in Nat /\ mon \in 1..12 /\ mday \in 1..31 /\ h \in 0..23 /\ m \in 0..59 /\ x \in 0..59
  BY <1>1, DaysOfMonth DEF IsTime
<1>3. DayOf(t) = DayNumber(y, mon, mday) /\ SecondOfDay(t) = 3600 * h + 60 * m + x
  BY DEF DayOf, SecondOfDay
<1>4. Result(CMD_RTC_NEXT_DATE, t) = TwoDigits(y \div 100) * 16777216 + TwoDigits(y % 100) * 65536
                                     + TwoDigits(mon) * 256 + TwoDigits(mday)
  BY SMT DEF Result, CMD_RTC_NEXT_DATE, CMD_RTC_NEXT_SECOND
<1>5. Result(CMD_RTC_NEXT_SECOND, t) = TwoDigits(mday) * 16777216 + TwoDigits(h) * 65536
                                       + TwoDigits(m) * 256 + TwoDigits(x)
  BY SMT DEF Result, CMD_RTC_NEXT_DATE, CMD_RTC_NEXT_SECOND
<1>. HIDE DEF date, time, c, day, y, mon, mday, h, m, x
<1>6. y <= 9999 /\ y \in 0..9999
  <2>1. y + left < 8000
    BY <1>1 DEF Early, y
  <2>. QED  BY <1>2, <2>1
<1>7. y \div 100 \in 0..99 /\ y % 100 \in 0..99
  BY <1>2, <1>6, Century
<1>8. date = Unpacked(y \div 100, y % 100, mon, mday)
  <2>. DEFINE a == y \div 100
              b == y % 100
  <2>1. a \in 0..99 /\ b \in 0..99 /\ mon \in 0..99 /\ mday \in 0..99
    BY <1>2, <1>7
  <2>. HIDE DEF a, b
  <2>2. Decimal(Packed(a, b, mon, mday)) = Unpacked(a, b, mon, mday)
    BY ONLY <2>1, ReadsBack, Zenon
  <2>. QED  BY <1>4, <2>2, SMT DEF date, a, b, Packed
<1>9. time = Unpacked(mday, h, m, x)
  <2>1. mday \in 0..99 /\ h \in 0..99 /\ m \in 0..99 /\ x \in 0..99
    BY <1>2
  <2>2. Decimal(Packed(mday, h, m, x)) = Unpacked(mday, h, m, x)
    BY ONLY <2>1, ReadsBack, Zenon
  <2>. QED  BY <1>5, <2>2, SMT DEF time, Packed
<1>10. ShowsDate(date, y, mon, mday)
  <2>1. mon \in 0..99 /\ mday \in 0..99 /\ y \in Years
    BY <1>2, <1>6 DEF Years
  <2>2. ShowsDate(Unpacked(y \div 100, y % 100, mon, mday), y, mon, mday)
    BY ONLY <2>1, DateDigits, Zenon
  <2>. QED  BY <1>8, <2>2
<1>11. ShowsTime(time, mday, c)
  <2>1. mday \in 0..99 /\ SameTime(h, m, x, c)
    BY <1>1, <1>2, <1>3 DEF SameTime
  <2>2. h \in 0..23 /\ m \in 0..59 /\ x \in 0..59 /\ c \in Nat
    BY <1>1, <1>2
  <2>3. ShowsTime(Unpacked(mday, h, m, x), mday, c)
    BY ONLY <2>1, <2>2, TimeDigits, Zenon
  <2>. QED  BY <1>9, <2>3
<1>12. DateRight(date, day)
  BY <1>1, <1>2, <1>3, <1>10 DEF ShowsDate, DateRight
<1>13. TimeRight(time, t, c, day)
  BY <1>1, <1>3, <1>11 DEF ShowsTime, TimeRight, y, mon
<1>. QED  BY <1>12, <1>13 DEF date, time, c, day

LEMMA RtcTells == RtcInv => ReferenceClockRight
<1>. SUFFICES ASSUME RtcInv PROVE ClockRight /\ ArgumentsThere
  BY DEF ReferenceClockRight
<1>1. ArgumentsThere
  <2>. SUFFICES ASSUME \A k \in DOMAIN bench : bench[k] # <<>> => bench[k][1].type = "vpiConstant",
                       missing
                PROVE  FALSE
    BY DEF ArgumentsThere
  <2>. QED  BY DEF RtcInv, MissingTells
<1>2. ASSUME start.tm_year > 0, made > 0, ~missing
      PROVE  /\ LastCommand = CMD_RTC_NEXT_DATE =>
                  DateRight(Decimal(answer), StartDay + dates + ClockNow \div 86400)
             /\ LastCommand = CMD_RTC_NEXT_SECOND =>
                  TimeRight(Decimal(answer), tm, ClockNow, StartDay + dates + ClockNow \div 86400)
  <2>1. Kept(tm, start, dates, seconds, Len(bench) - made) /\ answer = Result(LastCommand, tm)
        /\ dates \in Nat /\ seconds \in Nat /\ made \in Nat /\ made <= Len(bench)
    BY <1>2 DEF RtcInv, ClockKept, Replied, RtcTypes
  <2>2. Len(bench) - made \in Nat
    BY <2>1, BenchFacts
  <2>. DEFINE day == StartDay + dates + ClockNow \div 86400
  <2>3. /\ DateRight(Decimal(Result(CMD_RTC_NEXT_DATE, tm)), day)
        /\ TimeRight(Decimal(Result(CMD_RTC_NEXT_SECOND, tm)), tm, ClockNow, day)
    BY <2>1, <2>2, KeptTells DEF StartDay, ClockNow
  <2>. HIDE DEF day
  <2>4. /\ LastCommand = CMD_RTC_NEXT_DATE => DateRight(Decimal(answer), day)
        /\ LastCommand = CMD_RTC_NEXT_SECOND => TimeRight(Decimal(answer), tm, ClockNow, day)
    BY <2>1, <2>3, Zenon
  <2>. QED  BY <2>4 DEF day
<1>3. ClockRight
  BY <1>2 DEF ClockRight, DateRight, TimeRight
<1>. QED  BY <1>1, <1>3

LEMMA RtcStands == [Next]_allVars => [RtcNext]_rtcVars
<1>1. Next => RtcNext \/ UNCHANGED rtcOwn
  BY DEF Next, PrintRest, ThreadRest, CopRest, ConsoleRest, TcmRest, CopyRest, LedRest,
         EchoRest, RegRest, IntrRest, MotorRest, JtagRest, SketchRest, WireRest, ReportRest, benchOwn
<1>. QED  BY <1>1, ImageStays DEF rtcOwn, rtcVars, allVars, benchOwn

------------------------------------------------------------------------------
(* The buffer of the console (sc_print.c): while nothing is stored there is
   room for one more character, and what is stored follows the buffer. *)
ConsoleSeqs == \E S : stored \in Seq(S) /\ buf \in Seq(S) /\ handed \in Seq(S)
BufferRoom == flushed = -1 => Len(buf) < BufSize
FlushBegins == flushed \in -1..Len(buf) /\ Len(buf) <= BufSize
ConsoleInv == ConsoleSeqs /\ FlushBegins /\ BufferRoom /\ BufferKept

LEMMA ConsoleInitInv == ConsoleInit => ConsoleInv
<1>. SUFFICES ASSUME ConsoleInit PROVE ConsoleInv
  OBVIOUS
<1>1. buf = <<>> /\ flushed = -1 /\ handed = <<>> /\ stored = <<>>
  BY DEF ConsoleInit
<1>2. <<>> \in Seq({}) /\ Len(<<>>) = 0
  BY EmptySeq
<1>3. SubSeq(<<>>, 1, 0) = <<>> /\ <<>> \o <<>> = <<>>
  BY <1>2, SubSeqEmpty, ConcatEmptySeq
<1>4. ConsoleSeqs
  BY <1>1, <1>2 DEF ConsoleSeqs
<1>. QED  BY <1>1, <1>2, <1>3, <1>4, BufferAssumption
          DEF ConsoleInv, FlushBegins, BufferRoom, BufferKept

LEMMA CharacterKept == ASSUME ConsoleInv, putchar PROVE ConsoleInv'
<1>. DEFINE x == Head(todo)
<1>1. /\ flushed = -1 /\ handed' = Append(handed, x) /\ buf' = Append(buf, x)
      /\ flushed' \in {0, -1} /\ stored' = stored
      /\ flushed' = -1 => Len(buf') # BufSize
  BY DEF putchar, Flushes
<1>. HIDE DEF x
<1>2. PICK R : stored \in Seq(R) /\ buf \in Seq(R) /\ handed \in Seq(R)
  BY DEF ConsoleInv, ConsoleSeqs
<1>. DEFINE S == R \cup {x}
<1>3. stored \in Seq(S) /\ buf \in Seq(S) /\ handed \in Seq(S) /\ x \in S
  BY <1>2, SeqMonotonic
<1>. HIDE DEF S
<1>4. /\ stored \o Append(buf, x) = Append(stored \o buf, x) /\ stored \o buf \in Seq(S)
      /\ Append(buf, x) \in Seq(S) /\ Append(handed, x) \in Seq(S)
      /\ Len(Append(buf, x)) = Len(buf) + 1 /\ Len(buf) \in Nat
  BY <1>3, AppendMoves
<1>5. stored \o buf = handed
  <2>1. stored \o SubSeq(buf, 1, Len(buf)) = handed
    BY <1>1 DEF ConsoleInv, BufferKept
  <2>. QED  BY <1>3, <2>1, SubSeqFull
<1>6. Len(buf) < BufSize
  BY <1>1 DEF ConsoleInv, BufferRoom
<1>7. Len(buf') \in Nat /\ Len(buf') <= BufSize /\ buf' \in Seq(S)
  BY <1>1, <1>4, <1>6, BufferAssumption
<1>8. BufferRoom' /\ FlushBegins'
  BY <1>1, <1>7, BufferAssumption DEF BufferRoom, FlushBegins
<1>9. stored' \o SubSeq(buf', 1, Len(buf')) = handed'
  BY <1>1, <1>4, <1>5, <1>7, SubSeqFull
<1>10. (IF flushed' = -1 THEN 0 ELSE flushed') + 1 = 1
  <2>1. CASE flushed' = -1
    BY <2>1
  <2>2. CASE flushed' = 0
    BY <2>2
  <2>. QED  BY <1>1, <2>1, <2>2
<1>11. BufferKept'
  BY <1>7, <1>9, <1>10 DEF BufferKept
<1>12. ConsoleSeqs'
  BY <1>1, <1>3, <1>4 DEF ConsoleSeqs
<1>. QED  BY <1>8, <1>11, <1>12 DEF ConsoleInv

LEMMA CharacterStored == ASSUME ConsoleInv, sc_puts PROVE ConsoleInv'
<1>. DEFINE x == buf[flushed + 1]
            rest == SubSeq(buf, flushed + 2, Len(buf))
<1>1. /\ flushed \in 0..(Len(buf) - 1) /\ flushed' = flushed + 1
      /\ stored' = Append(stored, x) /\ buf' = buf /\ handed' = handed
  BY DEF sc_puts
<1>2. PICK S : stored \in Seq(S) /\ buf \in Seq(S) /\ handed \in Seq(S)
  BY DEF ConsoleInv, ConsoleSeqs
<1>3. Len(buf) \in Nat /\ flushed + 1 \in 1..Len(buf)
  BY <1>1, <1>2
<1>4. x \in S
  BY <1>2, <1>3, ElementOfSeq
<1>5. SubSeq(buf, flushed + 1, Len(buf)) = <<x>> \o SubSeq(buf, (flushed + 1) + 1, Len(buf))
  <2>1. Len(buf) \in (flushed + 1)..Len(buf)
    BY <1>3
  <2>. QED  BY <1>2, <1>3, <2>1, SubSeqRecursiveFirst
<1>6. rest \in Seq(S)
  <2>1. \A i \in (flushed + 2)..Len(buf) : buf[i] \in S
    BY <1>1, <1>2, <1>3, ElementOfSeq
  <2>2. flushed + 2 \in Int /\ Len(buf) \in Int
    BY <1>1, <1>3
  <2>. QED  BY <2>1, <2>2, SubSeqProperties
<1>7. stored \o SubSeq(buf, flushed + 1, Len(buf)) = handed
  <2>1. (IF flushed = -1 THEN 0 ELSE flushed) = flushed
    BY <1>1
  <2>. QED  BY <2>1 DEF ConsoleInv, BufferKept
<1>8. stored' \o rest = handed'
  <2>1. (flushed + 1) + 1 = flushed + 2
    BY <1>1
  <2>2. stored \o (<<x>> \o rest) = handed
    BY <1>5, <1>7, <2>1
  <2>. HIDE DEF x, rest
  <2>3. <<x>> \in Seq(S) /\ Append(stored, x) = stored \o <<x>>
    BY <1>2, <1>4
  <2>4. (stored \o <<x>>) \o rest = stored \o (<<x>> \o rest)
    BY <1>2, <1>6, <2>3, ConcatAssociative
  <2>. QED  BY <1>1, <2>2, <2>3, <2>4
<1>9. BufferKept'
  <2>1. (IF flushed' = -1 THEN 0 ELSE flushed') + 1 = flushed + 2
    BY <1>1
  <2>. QED  BY <1>1, <1>8, <2>1 DEF BufferKept, ConsoleInv
<1>10. BufferRoom' /\ FlushBegins'
  BY <1>1, <1>3 DEF ConsoleInv, BufferRoom, FlushBegins
<1>11. ConsoleSeqs'
  <2>. HIDE DEF x
  <2>1. stored' \in Seq(S) /\ buf' \in Seq(S) /\ handed' \in Seq(S)
    BY <1>1, <1>2, <1>4
  <2>. QED  BY <2>1 DEF ConsoleSeqs
<1>. QED  BY <1>9, <1>10, <1>11 DEF ConsoleInv

LEMMA FlushEnds == ASSUME ConsoleInv, EndOfFlush PROVE ConsoleInv'
<1>1. flushed = Len(buf) /\ buf' = <<>> /\ flushed' = -1 /\ handed' = handed /\ stored' = stored
  BY DEF EndOfFlush
<1>2. PICK S : stored \in Seq(S) /\ buf \in Seq(S) /\ handed \in Seq(S)
  BY DEF ConsoleInv, ConsoleSeqs
<1>3. Len(buf) \in Nat /\ <<>> \in Seq(S) /\ Len(<<>>) = 0
  BY <1>2
<1>4. SubSeq(buf, Len(buf) + 1, Len(buf)) = <<>> /\ SubSeq(<<>>, 1, 0) = <<>>
  BY <1>3, SubSeqEmpty
<1>5. stored \o SubSeq(buf, flushed + 1, Len(buf)) = handed
  <2>1. flushed # -1
    BY <1>1, <1>3
  <2>. QED  BY <2>1 DEF ConsoleInv, BufferKept
<1>6. stored' \o SubSeq(buf', 1, Len(buf')) = handed'
  BY <1>1, <1>3, <1>4, <1>5
<1>7. BufferKept' /\ BufferRoom' /\ FlushBegins'
  BY <1>1, <1>3, <1>6, BufferAssumption DEF BufferKept, BufferRoom, FlushBegins
<1>8. ConsoleSeqs'
  BY <1>1, <1>2, <1>3 DEF ConsoleSeqs
<1>. QED  BY <1>7, <1>8 DEF ConsoleInv

LEMMA ConsoleStepInv == ConsoleInv /\ [ConsoleNext]_consoleVars => ConsoleInv'
<1>. SUFFICES ASSUME ConsoleInv, [ConsoleNext]_consoleVars PROVE ConsoleInv'
  OBVIOUS
<1>1. CASE UNCHANGED <<buf, flushed, handed, stored>>
  BY <1>1 DEF ConsoleInv, ConsoleSeqs, FlushBegins, BufferRoom, BufferKept
<1>2. CASE putchar \/ sc_puts \/ EndOfFlush
  BY <1>2, CharacterKept, CharacterStored, FlushEnds
<1>. QED  BY <1>1, <1>2 DEF ConsoleNext, ConsoleStep, sc_printf, vprintfmt, ConsoleUartSends,
                              consoleVars

LEMMA ConsoleStands == [Next]_allVars => [ConsoleNext]_consoleVars
<1>1. Next => ConsoleNext \/ UNCHANGED consoleOwn
  BY DEF Next, PrintRest, ThreadRest, CopRest, RtcRest, TcmRest, CopyRest, LedRest,
         EchoRest, RegRest, IntrRest, MotorRest, JtagRest, SketchRest, WireRest, ReportRest, coreOwn
<1>. QED  BY <1>1, ImageStays DEF consoleOwn, consoleVars, allVars, coreOwn

------------------------------------------------------------------------------
(* Where the addresses of the headers lead.  An address of the bus is that
   of a page of 2^16 bytes and an offset in it. *)
OnPage(p, off) == p * 65536 + off

LEMMA PageBits ==
  ASSUME NEW p \in Int, NEW off \in Int, 0 <= p, p < 65536, 0 <= off, off < 65536
  PROVE  /\ Bits(OnPage(p, off), 31, 28) = p \div 4096
         /\ Bits(OnPage(p, off), 31, 16) = p
<1>1. OnPage(p, off) \div 65536 = p
  BY SMT DEF OnPage
<1>2. OnPage(p, off) \div 268435456 = p \div 4096
  BY SMT DEF OnPage
<1>3. p % 65536 = p
  BY SMT
<1>4. (p \div 4096) % 16 = p \div 4096
  BY SMT
<1>5. 2^28 = 268435456 /\ 2^16 = 65536 /\ 2^(31 - 28 + 1) = 16 /\ 2^(31 - 16 + 1) = 65536
  BY SMT
<1>. QED  BY <1>1, <1>2, <1>3, <1>4, <1>5 DEF Bits

LEMMA OffsetBits ==
  ASSUME NEW p \in Int, NEW off \in Int
  PROVE  /\ Bits(OnPage(p, off), 10, 7) = (off \div 128) % 16
         /\ Bits(OnPage(p, off), 8, 6) = (off \div 64) % 8
         /\ Bits(OnPage(p, off), 3, 2) = (off \div 4) % 4
         /\ Bits(OnPage(p, off), 4, 2) = (off \div 4) % 8
         /\ Bits(OnPage(p, off), 5, 2) = (off \div 4) % 16
         /\ Bits(OnPage(p, off), 6, 2) = (off \div 4) % 32
         /\ Bits(OnPage(p, off), 7, 2) = (off \div 4) % 64
<1>. DEFINE a == OnPage(p, off)
<1>1. a \div 128 = p * 512 + (off \div 128) /\ off \div 128 \in Int
  BY SMT DEF OnPage
<1>2. a \div 64 = p * 1024 + (off \div 64) /\ off \div 64 \in Int
  BY SMT DEF OnPage
<1>3. a \div 4 = p * 16384 + (off \div 4) /\ off \div 4 \in Int
  BY SMT DEF OnPage
<1>. HIDE DEF a
<1>4. \A x \in Int : (p * 512 + x) % 16 = x % 16
  BY SMT
<1>5. \A x \in Int : (p * 1024 + x) % 8 = x % 8
  BY SMT
<1>6. \A x \in Int : (p * 16384 + x) % 4 = x % 4
  BY SMT
<1>7. \A x \in Int : (p * 16384 + x) % 8 = x % 8
  BY SMT
<1>8. \A x \in Int : (p * 16384 + x) % 16 = x % 16
  BY SMT
<1>9. \A x \in Int : (p * 16384 + x) % 32 = x % 32
  BY SMT
<1>10. \A x \in Int : (p * 16384 + x) % 64 = x % 64
  BY SMT
<1>11. 2^7 = 128 /\ 2^6 = 64 /\ 2^2 = 4 /\ 2^(10 - 7 + 1) = 16 /\ 2^(8 - 6 + 1) = 8
  BY SMT
<1>12. /\ 2^(3 - 2 + 1) = 4 /\ 2^(4 - 2 + 1) = 8 /\ 2^(5 - 2 + 1) = 16
       /\ 2^(6 - 2 + 1) = 32 /\ 2^(7 - 2 + 1) = 64
  BY SMT
<1>13. Bits(a, 10, 7) = (off \div 128) % 16
  BY <1>1, <1>4, <1>11 DEF Bits
<1>14. Bits(a, 8, 6) = (off \div 64) % 8
  BY <1>2, <1>5, <1>11 DEF Bits
<1>15. Bits(a, 3, 2) = (off \div 4) % 4
  BY <1>3, <1>6, <1>11, <1>12 DEF Bits
<1>16. Bits(a, 4, 2) = (off \div 4) % 8
  BY <1>3, <1>7, <1>11, <1>12 DEF Bits
<1>17. Bits(a, 5, 2) = (off \div 4) % 16
  BY <1>3, <1>8, <1>11, <1>12 DEF Bits
<1>18. Bits(a, 6, 2) = (off \div 4) % 32
  BY <1>3, <1>9, <1>11, <1>12 DEF Bits
<1>19. Bits(a, 7, 2) = (off \div 4) % 64
  BY <1>3, <1>10, <1>11, <1>12 DEF Bits
<1>. QED  BY <1>13, <1>14, <1>15, <1>16, <1>17, <1>18, <1>19 DEF a

(* The block and the register of an address of the bus. *)
BlockOf(a) ==
  CASE Target(a) = "PINMUX" -> PinmuxBlock(Bits(a, 10, 7))
    [] Target(a) = "UART" -> UartBlock(Bits(a, 8, 6))
    [] OTHER -> Target(a)
RegisterOf(a) == IF BlockOf(a) \in DOMAIN HighBit THEN <<BlockOf(a), Bits(a, HighBit[BlockOf(a)], 2)>>
              ELSE <<BlockOf(a), 0>>
Leads(a, block, n) == BlockOf(a) = block /\ RegisterOf(a) = <<block, n>>

LEMMA PageTarget ==
  ASSUME NEW off \in Int, 0 <= off, off < 65536
  PROVE  /\ Target(OnPage(4096, off)) = "SPI_REG"
         /\ Target(OnPage(4097, off)) = "UART"
         /\ Target(OnPage(4098, off)) = "PINMUX"
         /\ Target(OnPage(4099, off)) = "WBI"
<1>1. \A p \in Int : p \in 4096..4099 => /\ Bits(OnPage(p, off), 31, 28) = p \div 4096
                                         /\ Bits(OnPage(p, off), 31, 16) = p
  BY PageBits
<1>2. \A p \in Int : p \in 4096..4099 => p \div 4096 = 1
  BY SMT
<1>3. \A p \in Int : p \in 4096..4099 => /\ Bits(OnPage(p, off), 31, 28) = 1
                                         /\ Bits(OnPage(p, off), 31, 16) = p
  BY <1>1, <1>2
<1>4. Target(OnPage(4096, off)) = "SPI_REG"
  BY <1>3 DEF Target
<1>5. Target(OnPage(4097, off)) = "UART"
  BY <1>3 DEF Target
<1>6. Target(OnPage(4098, off)) = "PINMUX"
  BY <1>3 DEF Target
<1>7. Target(OnPage(4099, off)) = "WBI"
  BY <1>3 DEF Target
<1>. QED  BY <1>4, <1>5, <1>6, <1>7

LEMMA HighBits ==
  /\ DOMAIN HighBit = Blocks \ {"SPI_MEM"}
  /\ HighBit["GLBL"] = 6 /\ HighBit["GPIO"] = 5 /\ HighBit["PWM"] = 6 /\ HighBit["TIMER"] = 3
  /\ HighBit["SEMA"] = 5 /\ HighBit["SM"] = 4 /\ HighBit["UART0"] = 5 /\ HighBit["UART1"] = 5
  /\ HighBit["WBI"] = 4 /\ HighBit["SPI_REG"] = 7 /\ HighBit["WBHOST"] = 4
  BY DEF HighBit, Blocks

LEMMA PinmuxLeads ==
  ASSUME NEW off \in Int, 0 <= off, off < 65536
  PROVE  LET a == OnPage(4098, off)
             sel == (off \div 128) % 16
         IN  /\ sel = 0 => Leads(a, "GLBL", (off \div 4) % 32)
             /\ sel = 1 => Leads(a, "GPIO", (off \div 4) % 16)
             /\ sel = 3 => Leads(a, "TIMER", (off \div 4) % 4)
             /\ sel = 4 => Leads(a, "SEMA", (off \div 4) % 16)
             /\ sel = 11 => Leads(a, "SM", (off \div 4) % 8)
<1>. DEFINE a == OnPage(4098, off)
            sel == (off \div 128) % 16
<1>1. Target(a) = "PINMUX"
  BY PageTarget
<1>2. /\ Bits(a, 10, 7) = sel
      /\ Bits(a, 3, 2) = (off \div 4) % 4 /\ Bits(a, 4, 2) = (off \div 4) % 8
      /\ Bits(a, 5, 2) = (off \div 4) % 16 /\ Bits(a, 6, 2) = (off \div 4) % 32
  BY OffsetBits DEF a, sel
<1>. HIDE DEF a, sel
<1>3. BlockOf(a) = PinmuxBlock(sel)
  BY <1>1, <1>2 DEF BlockOf
<1>4. sel = 0 => Leads(a, "GLBL", (off \div 4) % 32)
  BY <1>2, <1>3, HighBits DEF Leads, RegisterOf, PinmuxBlock, Blocks
<1>5. sel = 1 => Leads(a, "GPIO", (off \div 4) % 16)
  BY <1>2, <1>3, HighBits DEF Leads, RegisterOf, PinmuxBlock, Blocks
<1>6. sel = 3 => Leads(a, "TIMER", (off \div 4) % 4)
  BY <1>2, <1>3, HighBits DEF Leads, RegisterOf, PinmuxBlock, Blocks
<1>7. sel = 4 => Leads(a, "SEMA", (off \div 4) % 16)
  BY <1>2, <1>3, HighBits DEF Leads, RegisterOf, PinmuxBlock, Blocks
<1>8. sel = 11 => Leads(a, "SM", (off \div 4) % 8)
  BY <1>2, <1>3, HighBits DEF Leads, RegisterOf, PinmuxBlock, Blocks
<1>. QED  BY <1>4, <1>5, <1>6, <1>7, <1>8 DEF a, sel

LEMMA OtherLeads ==
  ASSUME NEW off \in Int, 0 <= off, off < 65536
  PROVE  /\ (off \div 64) % 8 = 0 => Leads(OnPage(4097, off), "UART0", (off \div 4) % 16)
         /\ (off \div 64) % 8 = 4 => Leads(OnPage(4097, off), "UART1", (off \div 4) % 16)
         /\ Leads(OnPage(4099, off), "WBI", (off \div 4) % 8)
         /\ Leads(OnPage(4096, off), "SPI_REG", (off \div 4) % 64)
<1>1. /\ Target(OnPage(4096, off)) = "SPI_REG" /\ Target(OnPage(4097, off)) = "UART"
      /\ Target(OnPage(4099, off)) = "WBI"
  BY PageTarget
<1>2. /\ Bits(OnPage(4097, off), 8, 6) = (off \div 64) % 8
      /\ Bits(OnPage(4097, off), 5, 2) = (off \div 4) % 16
  BY OffsetBits
<1>3. Bits(OnPage(4099, off), 4, 2) = (off \div 4) % 8
  BY OffsetBits
<1>4. Bits(OnPage(4096, off), 7, 2) = (off \div 4) % 64
  BY OffsetBits
<1>5. /\ BlockOf(OnPage(4097, off)) = UartBlock((off \div 64) % 8)
      /\ BlockOf(OnPage(4099, off)) = "WBI" /\ BlockOf(OnPage(4096, off)) = "SPI_REG"
  BY <1>1, <1>2 DEF BlockOf
<1>6. (off \div 64) % 8 = 0 => Leads(OnPage(4097, off), "UART0", (off \div 4) % 16)
  BY <1>2, <1>5, HighBits DEF Leads, RegisterOf, UartBlock, Blocks
<1>7. (off \div 64) % 8 = 4 => Leads(OnPage(4097, off), "UART1", (off \div 4) % 16)
  BY <1>2, <1>5, HighBits DEF Leads, RegisterOf, UartBlock, Blocks
<1>8. Leads(OnPage(4099, off), "WBI", (off \div 4) % 8)
  BY <1>3, <1>5, HighBits DEF Leads, RegisterOf, Blocks
<1>9. Leads(OnPage(4096, off), "SPI_REG", (off \div 4) % 64)
  BY <1>4, <1>5, HighBits DEF Leads, RegisterOf, Blocks
<1>. QED  BY <1>6, <1>7, <1>8, <1>9

(* Names in a row lead to registers in a row. *)
InARow(base, names, block, first) ==
  \A k \in DOMAIN names : k \in Int /\ Leads(base + 4 * (k - 1), block, first + k - 1)

LEMMA Sizes ==
  /\ DOMAIN Glbl = 1..7
  /\ DOMAIN Pll = 1..2
  /\ DOMAIN Straps = 1..12
  /\ DOMAIN Gpio = 1..9
  /\ DOMAIN Timer = 1..4
  /\ DOMAIN Sema = 1..16
  /\ DOMAIN Wbi = 1..2
  /\ DOMAIN Smotor = 1..5
  /\ DOMAIN Qspi = 1..13
  /\ DOMAIN WbHost = 1..6
  /\ \A u : DOMAIN Uart(u) = 1..9
<1>1. DOMAIN Glbl = 1..7
  BY DEF Glbl
<1>2. DOMAIN Pll = 1..2
  BY DEF Pll
<1>3. DOMAIN Straps = 1..12
  BY DEF Straps
<1>4. DOMAIN Gpio = 1..9
  BY DEF Gpio
<1>5. DOMAIN Timer = 1..4
  BY DEF Timer
<1>6. DOMAIN Sema = 1..16
  BY DEF Sema
<1>7. DOMAIN Wbi = 1..2
  BY DEF Wbi
<1>8. DOMAIN Smotor = 1..5
  BY DEF Smotor
<1>9. DOMAIN Qspi = 1..13
  BY DEF Qspi
<1>10. DOMAIN WbHost = 1..6
  BY DEF WbHost
<1>11. \A u : DOMAIN Uart(u) = 1..9
  BY DEF Uart
<1>. QED  BY <1>1, <1>2, <1>3, <1>4, <1>5, <1>6, <1>7, <1>8, <1>9, <1>10, <1>11

LEMMA RegisterPlaces ==
  /\ InARow(\h10020000, Glbl, "GLBL", 0)
  /\ InARow(\h1002001C, Pll, "GLBL", 7)
  /\ InARow(\h10020030, Straps, "GLBL", 12)
  /\ InARow(\h10020080, Gpio, "GPIO", 0)
  /\ InARow(\h10020180, Timer, "TIMER", 0)
  /\ InARow(\h10020200, Sema, "SEMA", 0)
  /\ InARow(\h10020580, Smotor, "SM", 0)
  /\ InARow(\h10010000, Uart("uart0"), "UART0", 0)
  /\ InARow(\h10010100, Uart("uart1"), "UART1", 0)
  /\ InARow(\h10030000, Wbi, "WBI", 0)
  /\ InARow(\h10000000, Qspi, "SPI_REG", 0)
  /\ Leads(\h10020090, "GPIO", 4) /\ Leads(\h1002023C, "SEMA", 15)
<1>1. InARow(\h10020000, Glbl, "GLBL", 0)
  <2>1. \A k \in 1..7 : LET off == 0 + 4 * (k - 1)
                      IN  \h10020000 + 4 * (k - 1) = OnPage(4098, off) /\ off \in Int /\ 0 <= off /\ off < 65536
    BY SMT DEF OnPage
  <2>2. \A k \in 1..7 : ((0 + 4 * (k - 1)) \div 128) % 16 = 0
    BY SMT
  <2>3. \A k \in 1..7 : ((0 + 4 * (k - 1)) \div 4) % 32 = 0 + k - 1
    BY SMT
  <2>. QED  BY <2>1, <2>2, <2>3, Sizes, PinmuxLeads DEF InARow
<1>2. InARow(\h1002001C, Pll, "GLBL", 7)
  <2>1. \A k \in 1..2 : LET off == 28 + 4 * (k - 1)
                      IN  \h1002001C + 4 * (k - 1) = OnPage(4098, off) /\ off \in Int /\ 0 <= off /\ off < 65536
    BY SMT DEF OnPage
  <2>2. \A k \in 1..2 : ((28 + 4 * (k - 1)) \div 128) % 16 = 0
    BY SMT
  <2>3. \A k \in 1..2 : ((28 + 4 * (k - 1)) \div 4) % 32 = 7 + k - 1
    BY SMT
  <2>. QED  BY <2>1, <2>2, <2>3, Sizes, PinmuxLeads DEF InARow
<1>3. InARow(\h10020030, Straps, "GLBL", 12)
  <2>1. \A k \in 1..12 : LET off == 48 + 4 * (k - 1)
                      IN  \h10020030 + 4 * (k - 1) = OnPage(4098, off) /\ off \in Int /\ 0 <= off /\ off < 65536
    BY SMT DEF OnPage
  <2>2. \A k \in 1..12 : ((48 + 4 * (k - 1)) \div 128) % 16 = 0
    BY SMT
  <2>3. \A k \in 1..12 : ((48 + 4 * (k - 1)) \div 4) % 32 = 12 + k - 1
    BY SMT
  <2>. QED  BY <2>1, <2>2, <2>3, Sizes, PinmuxLeads DEF InARow
<1>4. InARow(\h10020080, Gpio, "GPIO", 0)
  <2>1. \A k \in 1..9 : LET off == 128 + 4 * (k - 1)
                      IN  \h10020080 + 4 * (k - 1) = OnPage(4098, off) /\ off \in Int /\ 0 <= off /\ off < 65536
    BY SMT DEF OnPage
  <2>2. \A k \in 1..9 : ((128 + 4 * (k - 1)) \div 128) % 16 = 1
    BY SMT
  <2>3. \A k \in 1..9 : ((128 + 4 * (k - 1)) \div 4) % 16 = 0 + k - 1
    BY SMT
  <2>. QED  BY <2>1, <2>2, <2>3, Sizes, PinmuxLeads DEF InARow
<1>5. InARow(\h10020180, Timer, "TIMER", 0)
  <2>1. \A k \in 1..4 : LET off == 384 + 4 * (k - 1)
                      IN  \h10020180 + 4 * (k - 1) = OnPage(4098, off) /\ off \in Int /\ 0 <= off /\ off < 65536
    BY SMT DEF OnPage
  <2>2. \A k \in 1..4 : ((384 + 4 * (k - 1)) \div 128) % 16 = 3
    BY SMT
  <2>3. \A k \in 1..4 : ((384 + 4 * (k - 1)) \div 4) % 4 = 0 + k - 1
    BY SMT
  <2>. QED  BY <2>1, <2>2, <2>3, Sizes, PinmuxLeads DEF InARow
<1>6. InARow(\h10020200, Sema, "SEMA", 0)
  <2>1. \A k \in 1..16 : LET off == 512 + 4 * (k - 1)
                      IN  \h10020200 + 4 * (k - 1) = OnPage(4098, off) /\ off \in Int /\ 0 <= off /\ off < 65536
    BY SMT DEF OnPage
  <2>2. \A k \in 1..16 : ((512 + 4 * (k - 1)) \div 128) % 16 = 4
    BY SMT
  <2>3. \A k \in 1..16 : ((512 + 4 * (k - 1)) \div 4) % 16 = 0 + k - 1
    BY SMT
  <2>. QED  BY <2>1, <2>2, <2>3, Sizes, PinmuxLeads DEF InARow
<1>7. InARow(\h10020580, Smotor, "SM", 0)
  <2>1. \A k \in 1..5 : LET off == 1408 + 4 * (k - 1)
                      IN  \h10020580 + 4 * (k - 1) = OnPage(4098, off) /\ off \in Int /\ 0 <= off /\ off < 65536
    BY SMT DEF OnPage
  <2>2. \A k \in 1..5 : ((1408 + 4 * (k - 1)) \div 128) % 16 = 11
    BY SMT
  <2>3. \A k \in 1..5 : ((1408 + 4 * (k - 1)) \div 4) % 8 = 0 + k - 1
    BY SMT
  <2>. QED  BY <2>1, <2>2, <2>3, Sizes, PinmuxLeads DEF InARow
<1>8. InARow(\h10010000, Uart("uart0"), "UART0", 0)
  <2>1. \A k \in 1..9 : LET off == 0 + 4 * (k - 1)
                      IN  \h10010000 + 4 * (k - 1) = OnPage(4097, off) /\ off \in Int /\ 0 <= off /\ off < 65536
    BY SMT DEF OnPage
  <2>2. \A k \in 1..9 : ((0 + 4 * (k - 1)) \div 64) % 8 = 0
    BY SMT
  <2>3. \A k \in 1..9 : ((0 + 4 * (k - 1)) \div 4) % 16 = 0 + k - 1
    BY SMT
  <2>. QED  BY <2>1, <2>2, <2>3, Sizes, OtherLeads DEF InARow
<1>9. InARow(\h10010100, Uart("uart1"), "UART1", 0)
  <2>1. \A k \in 1..9 : LET off == 256 + 4 * (k - 1)
                      IN  \h10010100 + 4 * (k - 1) = OnPage(4097, off) /\ off \in Int /\ 0 <= off /\ off < 65536
    BY SMT DEF OnPage
  <2>2. \A k \in 1..9 : ((256 + 4 * (k - 1)) \div 64) % 8 = 4
    BY SMT
  <2>3. \A k \in 1..9 : ((256 + 4 * (k - 1)) \div 4) % 16 = 0 + k - 1
    BY SMT
  <2>. QED  BY <2>1, <2>2, <2>3, Sizes, OtherLeads DEF InARow
<1>10. InARow(\h10030000, Wbi, "WBI", 0)
  <2>1. \A k \in 1..2 : LET off == 0 + 4 * (k - 1)
                      IN  \h10030000 + 4 * (k - 1) = OnPage(4099, off) /\ off \in Int /\ 0 <= off /\ off < 65536
    BY SMT DEF OnPage
  <2>2. \A k \in 1..2 : ((0 + 4 * (k - 1)) \div 4) % 8 = 0 + k - 1
    BY SMT
  <2>. QED  BY <2>1, <2>2, Sizes, OtherLeads DEF InARow
<1>11. InARow(\h10000000, Qspi, "SPI_REG", 0)
  <2>1. \A k \in 1..13 : LET off == 0 + 4 * (k - 1)
                      IN  \h10000000 + 4 * (k - 1) = OnPage(4096, off) /\ off \in Int /\ 0 <= off /\ off < 65536
    BY SMT DEF OnPage
  <2>2. \A k \in 1..13 : ((0 + 4 * (k - 1)) \div 4) % 64 = 0 + k - 1
    BY SMT
  <2>. QED  BY <2>1, <2>2, Sizes, OtherLeads DEF InARow
<1>12. Leads(\h10020090, "GPIO", 4)
  <2>1. \h10020090 = OnPage(4098, 144) /\ (144 \div 128) % 16 = 1 /\ (144 \div 4) % 16 = 4
    BY SMT DEF OnPage
  <2>. QED  BY <2>1, PinmuxLeads
<1>13. Leads(\h1002023C, "SEMA", 15)
  <2>1. \h1002023C = OnPage(4098, 572) /\ (572 \div 128) % 16 = 4 /\ (572 \div 4) % 16 = 15
    BY SMT DEF OnPage
  <2>. QED  BY <2>1, PinmuxLeads
<1>. QED  BY <1>1, <1>2, <1>3, <1>4, <1>5, <1>6, <1>7, <1>8, <1>9, <1>10, <1>11, <1>12, <1>13

(* An address leads to the register that a name is for: an address of the
   bus, one of the windows of a host, one of the host bridge itself. *)
Named(name, a) == \E b \in Blocks : \E n : Leads(a, b, n) /\ <<name, <<b, n>>>> \in Meant
HostNamed(name, a) ==
  \E off \in Int : /\ 0 <= off /\ off < 196608 /\ a = \h30000000 + off
                   /\ Named(name, \h10000000 + off)
BridgeNamed(name, a) == Bits(a, 19, 19) = 1 /\ <<name, <<"WBHOST", Bits(a, 4, 2)>>>> \in Meant

LEMMA GroupNamed ==
  ASSUME NEW base, NEW names, NEW block \in Blocks, NEW first, InARow(base, names, block, first),
         In(block, first, names) \subseteq Meant, NEW e \in At(base, names)
  PROVE  Named(e[1], e[2])
<1>1. PICK k \in DOMAIN names : e = <<names[k], base + 4 * (k - 1)>>
  BY DEF At
<1>2. e[1] = names[k] /\ e[2] = base + 4 * (k - 1)
  BY <1>1
<1>3. <<names[k], <<block, first + k - 1>>>> \in Meant
  BY DEF In
<1>4. Leads(base + 4 * (k - 1), block, first + k - 1)
  BY DEF InARow
<1>. QED  BY <1>2, <1>3, <1>4 DEF Named

HostWindow(g) == 805306368 + g
BusWindow(g) == 268435456 + g

Fits(g, names) ==
  /\ g \in Int /\ 0 <= g
  /\ \A k \in DOMAIN names : k \in Int /\ 1 <= k /\ g + 4 * k <= 196608

LEMMA GroupHostNamed ==
  ASSUME NEW g, NEW names, Fits(g, names), NEW block \in Blocks, NEW first,
         InARow(BusWindow(g), names, block, first),
         In(block, first, names) \subseteq Meant, NEW e \in At(HostWindow(g), names)
  PROVE  HostNamed(e[1], e[2])
<1>1. PICK k \in DOMAIN names : e = <<names[k], HostWindow(g) + 4 * (k - 1)>>
  BY DEF At
<1>2. k \in Int /\ 1 <= k /\ g + 4 * k <= 196608 /\ g \in Int /\ 0 <= g
  BY DEF Fits
<1>. DEFINE off == g + 4 * (k - 1)
<1>3. off \in Int /\ 0 <= off /\ off < 196608
  BY <1>2
<1>4. e[1] = names[k] /\ e[2] = \h30000000 + off
  BY <1>1, <1>2 DEF HostWindow
<1>5. <<names[k], BusWindow(g) + 4 * (k - 1)>> \in At(BusWindow(g), names)
  BY DEF At
<1>6. Named(names[k], BusWindow(g) + 4 * (k - 1))
  BY <1>5, GroupNamed
<1>7. BusWindow(g) + 4 * (k - 1) = \h10000000 + off
  BY <1>2 DEF BusWindow
<1>8. Named(names[k], \h10000000 + off)
  BY <1>6, <1>7
<1>. HIDE DEF off
<1>. QED  BY <1>3, <1>4, <1>8 DEF HostNamed

LEMMA MeantParts ==
  /\ In("GLBL", 0, Glbl) \subseteq Meant
  /\ In("GLBL", 7, Pll) \subseteq Meant
  /\ In("GLBL", 12, Straps) \subseteq Meant
  /\ In("GPIO", 0, Gpio) \subseteq Meant
  /\ In("TIMER", 0, Timer) \subseteq Meant
  /\ In("SEMA", 0, Sema) \subseteq Meant
  /\ In("UART0", 0, Uart("uart0")) \subseteq Meant
  /\ In("UART1", 0, Uart("uart1")) \subseteq Meant
  /\ In("WBI", 0, Wbi) \subseteq Meant
  /\ In("SM", 0, Smotor) \subseteq Meant
  /\ In("SPI_REG", 0, Qspi) \subseteq Meant
  /\ In("WBHOST", 0, WbHost) \subseteq Meant
  /\ <<"gpio_intr_clr", <<"GPIO", 4>>>> \in Meant /\ <<"sema_lock_stat", <<"SEMA", 15>>>> \in Meant
  /\ <<"mprj_wbhost_ctrl", <<"WBHOST", 0>>>> \in Meant
  BY DEF Meant

LEMMA PwmLeftOut ==
  ASSUME NEW base, NEW e, \/ e \in At(base, Pwm01) \/ e \in At(base, Pwm345)
                          \/ e = <<"pwm_cfg_pwm2", base>>
  PROVE  e[1] \in PwmNames
<1>1. CASE e \in At(base, Pwm01)
  BY <1>1 DEF At, PwmNames
<1>2. CASE e \in At(base, Pwm345)
  BY <1>2 DEF At, PwmNames
<1>3. CASE e = <<"pwm_cfg_pwm2", base>>
  BY <1>3 DEF PwmNames
<1>. QED  BY <1>1, <1>2, <1>3

LEMMA InternalNamed ==
  ASSUME NEW e \in Internal, e[1] \notin PwmNames PROVE Named(e[1], e[2])
<1>1. CASE e \in At(\h10020000, Glbl)
  BY <1>1, RegisterPlaces, MeantParts, GroupNamed DEF Blocks
<1>2. CASE e \in At(\h1002001C, Pll)
  BY <1>2, RegisterPlaces, MeantParts, GroupNamed DEF Blocks
<1>3. CASE e \in At(\h10020030, Straps)
  BY <1>3, RegisterPlaces, MeantParts, GroupNamed DEF Blocks
<1>4. CASE e \in At(\h10020080, Gpio)
  BY <1>4, RegisterPlaces, MeantParts, GroupNamed DEF Blocks
<1>5. CASE e \in At(\h10020180, Timer)
  BY <1>5, RegisterPlaces, MeantParts, GroupNamed DEF Blocks
<1>6. CASE e \in At(\h10020200, Sema)
  BY <1>6, RegisterPlaces, MeantParts, GroupNamed DEF Blocks
<1>7. CASE e \in At(\h10010000, Uart("uart0"))
  BY <1>7, RegisterPlaces, MeantParts, GroupNamed DEF Blocks
<1>8. CASE e \in At(\h10010100, Uart("uart1"))
  BY <1>8, RegisterPlaces, MeantParts, GroupNamed DEF Blocks
<1>9. CASE e \in At(\h10030000, Wbi)
  BY <1>9, RegisterPlaces, MeantParts, GroupNamed DEF Blocks
<1>10. CASE e \in At(\h10020580, Smotor)
  BY <1>10, RegisterPlaces, MeantParts, GroupNamed DEF Blocks
<1>11. CASE e = <<"gpio_intr_clr", \h10020090>> \/ e = <<"sema_lock_stat", \h1002023C>>
  BY <1>11, RegisterPlaces, MeantParts DEF Named, Blocks
<1>12. CASE \/ e \in At(\h10020100, Pwm01) \/ e = <<"pwm_cfg_pwm2", \h1002011C>>
           \/ e \in At(\h10020110, Pwm345)
  BY <1>12, PwmLeftOut
<1>. QED  BY <1>1, <1>2, <1>3, <1>4, <1>5, <1>6, <1>7, <1>8, <1>9, <1>10, <1>11, <1>12 DEF Internal, SketchMap

LEMMA ExternalNamed ==
  ASSUME NEW e \in External, e[1] \notin PwmNames
  PROVE  HostNamed(e[1], e[2]) \/ BridgeNamed(e[1], e[2])
<1>1. CASE e \in At(\h30020000, Glbl)
  <2>. DEFINE g == 131072
  <2>1. \h30020000 = HostWindow(g) /\ \h10020000 = BusWindow(g)
    BY SMT DEF HostWindow, BusWindow
  <2>2. "GLBL" \in Blocks
    BY DEF Blocks
  <2>3. Fits(g, Glbl)
    BY Sizes DEF Fits
  <2>. HIDE DEF g
  <2>4. InARow(BusWindow(g), Glbl, "GLBL", 0) /\ e \in At(HostWindow(g), Glbl)
    BY <1>1, <2>1, RegisterPlaces
  <2>5. In("GLBL", 0, Glbl) \subseteq Meant
    BY MeantParts
  <2>. QED  BY <2>2, <2>3, <2>4, <2>5, GroupHostNamed
<1>2. CASE e \in At(\h30020030, Straps)
  <2>. DEFINE g == 131120
  <2>1. \h30020030 = HostWindow(g) /\ \h10020030 = BusWindow(g)
    BY SMT DEF HostWindow, BusWindow
  <2>2. "GLBL" \in Blocks
    BY DEF Blocks
  <2>3. Fits(g, Straps)
    BY Sizes DEF Fits
  <2>. HIDE DEF g
  <2>4. InARow(BusWindow(g), Straps, "GLBL", 12) /\ e \in At(HostWindow(g), Straps)
    BY <1>2, <2>1, RegisterPlaces
  <2>5. In("GLBL", 12, Straps) \subseteq Meant
    BY MeantParts
  <2>. QED  BY <2>2, <2>3, <2>4, <2>5, GroupHostNamed
<1>3. CASE e \in At(\h30020080, Gpio)
  <2>. DEFINE g == 131200
  <2>1. \h30020080 = HostWindow(g) /\ \h10020080 = BusWindow(g)
    BY SMT DEF HostWindow, BusWindow
  <2>2. "GPIO" \in Blocks
    BY DEF Blocks
  <2>3. Fits(g, Gpio)
    BY Sizes DEF Fits
  <2>. HIDE DEF g
  <2>4. InARow(BusWindow(g), Gpio, "GPIO", 0) /\ e \in At(HostWindow(g), Gpio)
    BY <1>3, <2>1, RegisterPlaces
  <2>5. In("GPIO", 0, Gpio) \subseteq Meant
    BY MeantParts
  <2>. QED  BY <2>2, <2>3, <2>4, <2>5, GroupHostNamed
<1>4. CASE e \in At(\h30020180, Timer)
  <2>. DEFINE g == 131456
  <2>1. \h30020180 = HostWindow(g) /\ \h10020180 = BusWindow(g)
    BY SMT DEF HostWindow, BusWindow
  <2>2. "TIMER" \in Blocks
    BY DEF Blocks
  <2>3. Fits(g, Timer)
    BY Sizes DEF Fits
  <2>. HIDE DEF g
  <2>4. InARow(BusWindow(g), Timer, "TIMER", 0) /\ e \in At(HostWindow(g), Timer)
    BY <1>4, <2>1, RegisterPlaces
  <2>5. In("TIMER", 0, Timer) \subseteq Meant
    BY MeantParts
  <2>. QED  BY <2>2, <2>3, <2>4, <2>5, GroupHostNamed
<1>5. CASE e \in At(\h30020200, Sema)
  <2>. DEFINE g == 131584
  <2>1. \h30020200 = HostWindow(g) /\ \h10020200 = BusWindow(g)
    BY SMT DEF HostWindow, BusWindow
  <2>2. "SEMA" \in Blocks
    BY DEF Blocks
  <2>3. Fits(g, Sema)
    BY Sizes DEF Fits
  <2>. HIDE DEF g
  <2>4. InARow(BusWindow(g), Sema, "SEMA", 0) /\ e \in At(HostWindow(g), Sema)
    BY <1>5, <2>1, RegisterPlaces
  <2>5. In("SEMA", 0, Sema) \subseteq Meant
    BY MeantParts
  <2>. QED  BY <2>2, <2>3, <2>4, <2>5, GroupHostNamed
<1>6. CASE e \in At(\h30010000, Uart("uart0"))
  <2>. DEFINE g == 65536
  <2>1. \h30010000 = HostWindow(g) /\ \h10010000 = BusWindow(g)
    BY SMT DEF HostWindow, BusWindow
  <2>2. "UART0" \in Blocks
    BY DEF Blocks
  <2>3. Fits(g, Uart("uart0"))
    BY Sizes DEF Fits
  <2>. HIDE DEF g
  <2>4. InARow(BusWindow(g), Uart("uart0"), "UART0", 0) /\ e \in At(HostWindow(g), Uart("uart0"))
    BY <1>6, <2>1, RegisterPlaces
  <2>5. In("UART0", 0, Uart("uart0")) \subseteq Meant
    BY MeantParts
  <2>. QED  BY <2>2, <2>3, <2>4, <2>5, GroupHostNamed
<1>7. CASE e \in At(\h30010100, Uart("uart1"))
  <2>. DEFINE g == 65792
  <2>1. \h30010100 = HostWindow(g) /\ \h10010100 = BusWindow(g)
    BY SMT DEF HostWindow, BusWindow
  <2>2. "UART1" \in Blocks
    BY DEF Blocks
  <2>3. Fits(g, Uart("uart1"))
    BY Sizes DEF Fits
  <2>. HIDE DEF g
  <2>4. InARow(BusWindow(g), Uart("uart1"), "UART1", 0) /\ e \in At(HostWindow(g), Uart("uart1"))
    BY <1>7, <2>1, RegisterPlaces
  <2>5. In("UART1", 0, Uart("uart1")) \subseteq Meant
    BY MeantParts
  <2>. QED  BY <2>2, <2>3, <2>4, <2>5, GroupHostNamed
<1>8. CASE e \in At(\h30000000, Qspi)
  <2>. DEFINE g == 0
  <2>1. \h30000000 = HostWindow(g) /\ \h10000000 = BusWindow(g)
    BY SMT DEF HostWindow, BusWindow
  <2>2. "SPI_REG" \in Blocks
    BY DEF Blocks
  <2>3. Fits(g, Qspi)
    BY Sizes DEF Fits
  <2>. HIDE DEF g
  <2>4. InARow(BusWindow(g), Qspi, "SPI_REG", 0) /\ e \in At(HostWindow(g), Qspi)
    BY <1>8, <2>1, RegisterPlaces
  <2>5. In("SPI_REG", 0, Qspi) \subseteq Meant
    BY MeantParts
  <2>. QED  BY <2>2, <2>3, <2>4, <2>5, GroupHostNamed
<1>9. CASE e = <<"gpio_intr_clr", \h30020090>>
  <2>1. \h30020090 = \h30000000 + 131216 /\ \h10020090 = \h10000000 + 131216
    BY SMT
  <2>2. Named("gpio_intr_clr", \h10020090)
    BY RegisterPlaces, MeantParts DEF Named, Blocks
  <2>. QED  BY <1>9, <2>1, <2>2 DEF HostNamed
<1>10. CASE e = <<"sema_lock_stat", \h3002023C>>
  <2>1. \h3002023C = \h30000000 + 131644 /\ \h1002023C = \h10000000 + 131644
    BY SMT
  <2>2. Named("sema_lock_stat", \h1002023C)
    BY RegisterPlaces, MeantParts DEF Named, Blocks
  <2>. QED  BY <1>10, <2>1, <2>2 DEF HostNamed
<1>11. CASE e \in At(\h30080000, WbHost)
  <2>1. PICK k \in DOMAIN WbHost : e = <<WbHost[k], \h30080000 + 4 * (k - 1)>>
    BY <1>11 DEF At
  <2>2. k \in 1..6
    BY Sizes
  <2>3. 2^19 = 524288 /\ 2^(19 - 19 + 1) = 2 /\ 2^2 = 4 /\ 2^(4 - 2 + 1) = 8
    BY SMT
  <2>4. \A j \in 1..6 : ((\h30080000 + 4 * (j - 1)) \div 524288) % 2 = 1
    BY SMT
  <2>5. \A j \in 1..6 : ((\h30080000 + 4 * (j - 1)) \div 4) % 8 = 0 + j - 1
    BY SMT
  <2>6. <<WbHost[k], <<"WBHOST", 0 + k - 1>>>> \in Meant
    BY MeantParts DEF In
  <2>7. Bits(e[2], 19, 19) = 1 /\ Bits(e[2], 4, 2) = 0 + k - 1 /\ e[1] = WbHost[k]
    BY <2>1, <2>2, <2>3, <2>4, <2>5 DEF Bits
  <2>. QED  BY <2>6, <2>7 DEF BridgeNamed
<1>12. CASE e = <<"mprj_wbhost_ctrl", \h30080000>>
  <2>1. 2^19 = 524288 /\ 2^(19 - 19 + 1) = 2 /\ 2^2 = 4 /\ 2^(4 - 2 + 1) = 8
    BY SMT
  <2>2. (\h30080000 \div 524288) % 2 = 1
    BY SMT
  <2>3. (\h30080000 \div 4) % 8 = 0
    BY SMT
  <2>4. Bits(e[2], 19, 19) = 1 /\ Bits(e[2], 4, 2) = 0 /\ e[1] = "mprj_wbhost_ctrl"
    BY <1>12, <2>1, <2>2, <2>3 DEF Bits
  <2>. QED  BY <2>4, MeantParts DEF BridgeNamed
<1>13. CASE \/ e \in At(\h30020100, Pwm01) \/ e = <<"pwm_cfg_pwm2", \h3002010C>>
           \/ e \in At(\h30020110, Pwm345)
  BY <1>13, PwmLeftOut
<1>. QED  BY <1>1, <1>2, <1>3, <1>4, <1>5, <1>6, <1>7, <1>8, <1>9, <1>10, <1>11, <1>12, <1>13 DEF External

(* The window of a host: under the bank of the reset it is the bus from
   \h10000000 on, under another one it is memory. *)
BankHigh == Bits(bank_sel, 15, 3)

LEMMA BankBits ==
  ASSUME bank_sel \in Banks
  PROVE  /\ BankHigh \in Int /\ 0 <= BankHigh /\ BankHigh < 8192
         /\ bank_sel = \h1000 => BankHigh = 512
<1>1. bank_sel \in Int /\ 0 <= bank_sel /\ bank_sel <= 65535
  BY SMTT(30) DEF Banks
<1>2. 2^3 = 8 /\ 2^(15 - 3 + 1) = 8192
  BY SMT
<1>3. BankHigh = (bank_sel \div 8) % 8192
  BY <1>2 DEF BankHigh, Bits
<1>4. (bank_sel \div 8) % 8192 \in Int /\ 0 <= (bank_sel \div 8) % 8192
  BY <1>1, SMT
<1>5. (bank_sel \div 8) % 8192 < 8192
  BY <1>1, SMT
<1>6. bank_sel = 4096 => (bank_sel \div 8) % 8192 = 512
  BY <1>1, SMT
<1>. QED  BY <1>3, <1>4, <1>5, <1>6

LEMMA WindowBits ==
  ASSUME NEW off \in Int, 0 <= off, off < 196608
  PROVE  Bits(\h30000000 + off, 19, 19) = 0 /\ Bits(\h30000000 + off, 18, 0) = off
<1>1. 2^19 = 524288 /\ 2^(19 - 19 + 1) = 2 /\ 2^0 = 1 /\ 2^(18 - 0 + 1) = 524288
  BY SMT
<1>2. ((\h30000000 + off) \div 524288) % 2 = 0
  BY SMT
<1>3. ((\h30000000 + off) \div 1) % 524288 = off
  BY SMT
<1>. QED  BY <1>1, <1>2, <1>3 DEF Bits

LEMMA BankedTarget ==
  ASSUME NEW h \in Int, 0 <= h, h < 8192, h # 512, NEW off \in Int, 0 <= off, off < 196608
  PROVE  Target(h * 524288 + off) = "SPI_MEM"
<1>. DEFINE a == h * 524288 + off
<1>1. 2^16 = 65536 /\ 2^(31 - 16 + 1) = 65536
  BY SMT
<1>2. a \div 65536 = h * 8 + (off \div 65536)
  BY SMT
<1>3. off \div 65536 \in Int /\ 0 <= off \div 65536 /\ off \div 65536 <= 2
  BY SMT
<1>4. (h * 8 + (off \div 65536)) % 65536 = h * 8 + (off \div 65536)
  BY <1>3, SMT
<1>5. Bits(a, 31, 16) = h * 8 + (off \div 65536)
  BY <1>1, <1>2, <1>4 DEF Bits
<1>6. /\ Bits(a, 31, 16) # \h1000 /\ Bits(a, 31, 16) # \h1001
      /\ Bits(a, 31, 16) # \h1002 /\ Bits(a, 31, 16) # \h1003
  BY <1>3, <1>5, SMT
<1>. HIDE DEF a
<1>7. Target(a) = "SPI_MEM"
  BY <1>6 DEF Target
<1>. QED  BY <1>7 DEF a

LEMMA HostAddress ==
  ASSUME bank_sel \in Banks, NEW off \in Int, 0 <= off, off < 196608
  PROVE  /\ bank_sel = \h1000 => wb_adr_int(\h30000000 + off) = \h10000000 + off
         /\ \/ wb_adr_int(\h30000000 + off) = \h10000000 + off
            \/ Target(wb_adr_int(\h30000000 + off)) = "SPI_MEM"
<1>1. wb_adr_int(\h30000000 + off) = BankHigh * 524288 + off
  <2>1. 2^19 = 524288
    BY SMT
  <2>. QED  BY <2>1, WindowBits DEF wb_adr_int, BankHigh
<1>2. BankHigh = 512 => BankHigh * 524288 + off = \h10000000 + off
  BY SMT
<1>3. BankHigh # 512 => Target(BankHigh * 524288 + off) = "SPI_MEM"
  BY BankBits, BankedTarget
<1>. QED  BY <1>1, <1>2, <1>3, BankBits

------------------------------------------------------------------------------
(* What a program asks for leads somewhere, and under the bank of the reset
   to the register that its name is for. *)
GoodAccess(x) ==
  /\ \/ x.by = "core" /\ Named(x.name, x.at)
     \/ x.by = "host" /\ (HostNamed(x.name, x.at) \/ BridgeNamed(x.name, x.at))
  /\ "bank" \in DOMAIN x => x.bank \in Banks

LEMMA Pairs ==
  ASSUME NEW e, e \in Internal \/ e \in External
  PROVE  e = <<e[1], e[2]>>
<1>1. CASE e \in Internal
  BY <1>1 DEF Internal, SketchMap, At
<1>2. CASE e \in External
  BY <1>2 DEF External, At
<1>. QED  BY <1>1, <1>2

LEMMA AddressThere ==
  ASSUME NEW map, NEW name, \A e \in map : e = <<e[1], e[2]>>, name \in {e[1] : e \in map}
  PROVE  <<name, AddressOf(map, name)>> \in map
<1>1. PICK e \in map : e[1] = name
  OBVIOUS
<1>2. e[2] \in {d[2] : d \in map} /\ <<name, e[2]>> \in map
  BY <1>1
<1>. QED  BY <1>2 DEF AddressOf

LEMMA NamesNamed ==
  /\ \A name \in Names(Internal) : Named(name, AddressOf(Internal, name))
  /\ \A name \in Names(External) : \/ HostNamed(name, AddressOf(External, name))
                                   \/ BridgeNamed(name, AddressOf(External, name))
<1>1. ASSUME NEW name \in Names(Internal) PROVE Named(name, AddressOf(Internal, name))
  <2>1. <<name, AddressOf(Internal, name)>> \in Internal /\ name \notin PwmNames
    BY Pairs, AddressThere DEF Names
  <2>. QED  BY <2>1, InternalNamed
<1>2. ASSUME NEW name \in Names(External)
      PROVE  \/ HostNamed(name, AddressOf(External, name))
             \/ BridgeNamed(name, AddressOf(External, name))
  <2>1. <<name, AddressOf(External, name)>> \in External /\ name \notin PwmNames
    BY Pairs, AddressThere DEF Names
  <2>. QED  BY <2>1, ExternalNamed
<1>. QED  BY <1>1, <1>2

LEMMA BankRegisterNamed == "mprj_wbhost_reg1" \in Names(External)
<1>1. WbHost[2] = "mprj_wbhost_reg1" /\ 2 \in DOMAIN WbHost
  BY DEF WbHost
<1>2. <<WbHost[2], \h30080000 + 4 * (2 - 1)>> \in At(\h30080000, WbHost)
  BY <1>1 DEF At
<1>3. <<WbHost[2], \h30080000 + 4 * (2 - 1)>> \in External
  BY <1>2 DEF External
<1>4. "mprj_wbhost_reg1" \notin PwmNames
  BY DEF PwmNames, Pwm01, Pwm345
<1>. QED  BY <1>1, <1>3, <1>4 DEF Names

LEMMA AccessGood == ASSUME NEW x, IsBusAccess(x) PROVE GoodAccess(x)
<1>1. CASE x.by = "core" /\ x.name \in Names(Internal) /\ x = CoreAccess(x.name)
  <2>1. x.at = AddressOf(Internal, x.name) /\ "bank" \notin DOMAIN x
    BY <1>1 DEF CoreAccess
  <2>. QED  BY <1>1, <2>1, NamesNamed DEF GoodAccess
<1>2. CASE x.by = "host" /\ x.name \in Names(External) /\ x = HostAccess(x.name)
  <2>1. x.at = AddressOf(External, x.name) /\ "bank" \notin DOMAIN x
    BY <1>2 DEF HostAccess
  <2>. QED  BY <1>2, <2>1, NamesNamed DEF GoodAccess
<1>3. CASE "bank" \in DOMAIN x /\ x.bank \in Banks /\ x = SelectBank(x.bank)
  <2>1. /\ x.by = "host" /\ x.name = "mprj_wbhost_reg1"
        /\ x.at = AddressOf(External, "mprj_wbhost_reg1")
    BY <1>3 DEF SelectBank, BankRegister, HostAccess
  <2>2. HostNamed(x.name, x.at) \/ BridgeNamed(x.name, x.at)
    BY <2>1, NamesNamed, BankRegisterNamed
  <2>. QED  BY <1>3, <2>1, <2>2 DEF GoodAccess
<1>. QED  BY <1>1, <1>2, <1>3 DEF IsBusAccess

(* The block of an access is there under every bank, and under the bank of
   the reset it is that of its name. *)
LEMMA AccessLeads ==
  ASSUME bank_sel \in Banks, NEW x, GoodAccess(x)
  PROVE  /\ Selected(x) \in Blocks
         /\ bank_sel = \h1000 => <<x.name, Numbered(x)>> \in Meant
<1>1. ASSUME ~IsHostRegister(x), Named(x.name, BusAddress(x))
      PROVE  Selected(x) \in Blocks /\ <<x.name, Numbered(x)>> \in Meant
  <2>1. Selected(x) = BlockOf(BusAddress(x))
    BY <1>1 DEF Selected, BlockOf
  <2>2. Numbered(x) = RegisterOf(BusAddress(x))
    BY <1>1, <2>1 DEF Numbered, RegisterOf
  <2>. QED  BY <1>1, <2>1, <2>2 DEF Named, Leads
<1>2. CASE x.by = "core" /\ Named(x.name, x.at)
  BY <1>1, <1>2 DEF IsHostRegister, BusAddress
<1>3. CASE x.by = "host" /\ HostNamed(x.name, x.at)
  <2>1. PICK off \in Int : /\ 0 <= off /\ off < 196608 /\ x.at = \h30000000 + off
                           /\ Named(x.name, \h10000000 + off)
    BY <1>3 DEF HostNamed
  <2>2. ~IsHostRegister(x) /\ BusAddress(x) = wb_adr_int(\h30000000 + off)
    BY <1>3, <2>1, WindowBits DEF IsHostRegister, BusAddress
  <2>3. CASE BusAddress(x) = \h10000000 + off
    BY <1>1, <2>1, <2>2, <2>3
  <2>4. CASE Target(BusAddress(x)) = "SPI_MEM" /\ BusAddress(x) # \h10000000 + off
    <3>1. Selected(x) = "SPI_MEM"
      BY <2>2, <2>4 DEF Selected
    <3>2. bank_sel # \h1000
      BY <2>1, <2>2, <2>4, HostAddress
    <3>. QED  BY <3>1, <3>2 DEF Blocks
  <2>5. BusAddress(x) = \h10000000 + off \/ Target(BusAddress(x)) = "SPI_MEM"
    BY <2>1, <2>2, HostAddress
  <2>. QED  BY <2>3, <2>4, <2>5
<1>4. CASE x.by = "host" /\ BridgeNamed(x.name, x.at)
  <2>1. IsHostRegister(x) /\ <<x.name, <<"WBHOST", Bits(x.at, 4, 2)>>>> \in Meant
    BY <1>4 DEF BridgeNamed, IsHostRegister
  <2>2. Selected(x) = "WBHOST" /\ "WBHOST" \in Blocks
    BY <2>1 DEF Selected, Blocks
  <2>3. Numbered(x) = <<"WBHOST", Bits(x.at, 4, 2)>>
    BY <2>1, <2>2, HighBits DEF Numbered
  <2>. QED  BY <2>1, <2>2, <2>3
<1>. QED  BY <1>2, <1>3, <1>4 DEF GoodAccess

------------------------------------------------------------------------------
(* A block that acknowledges does so to the access on the bus, with the
   register of that access, and the selection that pinmux_top remembers is
   then its own; an access waits a clock for its chip select and one for
   the block. *)
PinmuxAsked == ~IsHostRegister(Asked) /\ Target(BusAddress(Asked)) = "PINMUX"
SelectionKept == PinmuxAsked => reg_blk_sel = Bits(BusAddress(Asked), 10, 7)
BusKinds ==
  /\ bank_sel \in Banks /\ reg_cs \in BOOLEAN
  /\ blockAck = [b \in Blocks |-> blockAck[b]] /\ blockData = [b \in Blocks |-> blockData[b]]
AcksAreAsked ==
  \A b \in Blocks : blockAck[b] => /\ OnBus /\ b = Selected(Asked)
                                   /\ blockData[b] = Numbered(Asked) /\ SelectionKept
WaitsEnd ==
  /\ waited \in 0..2
  /\ waited # 0 => OnBus
  /\ waited = 2 => blockAck[Selected(Asked)]
AsksGood == \E S : asks \in Seq(S) /\ \A x \in S : GoodAccess(x)
BusMode == copied = <<>> /\ AsksGood /\ AcksAreAsked /\ WaitsEnd

(* A cipher program copies the bytes of its one block, and the bus is idle. *)
CopiedFrom(e) ==
  /\ asks = <<CipherAccess(e[1])>> \/ asks = <<>>
  /\ \E S : copied \in Seq(S)
  /\ asks # <<>> => Len(copied) <= 15
  /\ \A j \in DOMAIN copied : j \in 1..16 /\ copied[j] = e[2] + 16 - j
CipherMode == (\E e \in Cipher : CopiedFrom(e)) /\ waited = 0

RegInv ==
  /\ BusKinds /\ (\E S : answers \in Seq(S)) /\ AnswerIsNamed
  /\ BusMode \/ CipherMode

LEMMA RegInitInv == RegInit => RegInv
<1>. SUFFICES ASSUME RegInit PROVE RegInv
  OBVIOUS
<1>1. BusKinds
  <2>1. bank_sel = 4096 /\ reg_cs = TRUE
    BY DEF RegInit
  <2>2. blockAck = [b \in Blocks |-> FALSE] /\ blockData = [b \in Blocks |-> <<b, 0>>]
    BY DEF RegInit
  <2>3. blockAck = [b \in Blocks |-> blockAck[b]] /\ blockData = [b \in Blocks |-> blockData[b]]
    BY <2>2, Zenon
  <2>4. bank_sel \in Banks /\ reg_cs \in BOOLEAN
    BY <2>1, SMT DEF Banks
  <2>. QED  BY <2>3, <2>4 DEF BusKinds
<1>2. answers \in Seq({}) /\ AnswerIsNamed
  <2>1. answers = <<>> /\ DOMAIN <<>> = {}
    BY DEF RegInit
  <2>. QED  BY <2>1, EmptySeq DEF AnswerIsNamed
<1>3. asks \in Asks
  BY AskAssumption, ChoiceIn DEF RegInit
<1>4. waited = 0 /\ copied = <<>> /\ \A b \in Blocks : ~blockAck[b]
  BY DEF RegInit
<1>5. CASE BusProgram(asks)
  <2>1. AcksAreAsked /\ WaitsEnd
    BY <1>4 DEF AcksAreAsked, WaitsEnd
  <2>2. AsksGood
    <3>. DEFINE S == {asks[k] : k \in DOMAIN asks}
    <3>1. asks \in Seq(S) /\ \A x \in S : GoodAccess(x)
      BY <1>5, AccessGood DEF BusProgram
    <3>. QED  BY <3>1 DEF AsksGood
  <2>. QED  BY <1>1, <1>2, <1>4, <2>1, <2>2 DEF RegInv, BusMode
<1>6. CASE \E e \in Cipher : asks = <<CipherAccess(e[1])>>
  <2>1. PICK e \in Cipher : asks = <<CipherAccess(e[1])>>
    BY <1>6
  <2>2. <<>> \in Seq({}) /\ Len(<<>>) = 0 /\ DOMAIN <<>> = {}
    BY EmptySeq
  <2>3. CopiedFrom(e)
    BY <1>4, <2>1, <2>2 DEF CopiedFrom
  <2>. QED  BY <1>1, <1>2, <1>4, <2>3 DEF RegInv, CipherMode
<1>. QED  BY <1>3, <1>5, <1>6, AskAssumption

(* The access on the bus is one that leads somewhere. *)
LEMMA AskedGood ==
  ASSUME AsksGood, asks # <<>>, BusKinds
  PROVE  /\ GoodAccess(Asked) /\ Asked.by # "cipher" /\ Selected(Asked) \in Blocks
         /\ bank_sel = \h1000 => <<Asked.name, Numbered(Asked)>> \in Meant
         /\ \E S : Tail(asks) \in Seq(S) /\ \A x \in S : GoodAccess(x)
<1>1. PICK S : asks \in Seq(S) /\ \A x \in S : GoodAccess(x)
  BY DEF AsksGood
<1>2. Head(asks) \in S /\ Tail(asks) \in Seq(S)
  BY <1>1, HeadTailProperties
<1>3. GoodAccess(Asked) /\ bank_sel \in Banks
  BY <1>1, <1>2 DEF Asked, BusKinds
<1>4. Asked.by # "cipher"
  BY <1>3 DEF GoodAccess
<1>5. Selected(Asked) \in Blocks /\ (bank_sel = \h1000 => <<Asked.name, Numbered(Asked)>> \in Meant)
  BY <1>3, AccessLeads
<1>. QED  BY <1>1, <1>2, <1>3, <1>4, <1>5

(* The block that answers is the one that is selected, once it has
   acknowledged. *)
LEMMA AnswersSelected ==
  ASSUME asks # <<>>, SelectionKept
  PROVE  Responder(Asked) = Selected(Asked)
<1>1. CASE PinmuxAsked
  <2>1. Selected(Asked) = PinmuxBlock(Bits(BusAddress(Asked), 10, 7))
    BY <1>1 DEF Selected, PinmuxAsked
  <2>2. Responder(Asked) = PinmuxAnswers(Asked)
    BY <1>1 DEF Responder, PinmuxAsked
  <2>. QED  BY <1>1, <2>1, <2>2 DEF PinmuxAnswers, SelectionKept
<1>2. CASE ~PinmuxAsked
  BY <1>2 DEF Responder, PinmuxAsked
<1>. QED  BY <1>1, <1>2

(* What an access asks for does not change while it waits. *)
LEMMA AskedStays ==
  ASSUME asks # <<>>, asks' = asks, IsHostRegister(Asked) \/ bank_sel' = bank_sel
  PROVE  /\ Selected(Asked)' = Selected(Asked) /\ Numbered(Asked)' = Numbered(Asked)
         /\ PinmuxAsked' = PinmuxAsked
         /\ PinmuxAsked => BusAddress(Asked)' = BusAddress(Asked)
<1>1. Asked' = Asked /\ IsHostRegister(Asked)' = IsHostRegister(Asked)
  BY DEF Asked, IsHostRegister
<1>2. CASE IsHostRegister(Asked)
  BY <1>1, <1>2 DEF Selected, Numbered, PinmuxAsked
<1>3. CASE ~IsHostRegister(Asked) /\ bank_sel' = bank_sel
  <2>1. BusAddress(Asked)' = BusAddress(Asked)
    BY <1>1, <1>3 DEF BusAddress, wb_adr_int
  <2>. QED  BY <1>1, <1>3, <2>1 DEF Selected, Numbered, PinmuxAsked
<1>. QED  BY <1>2, <1>3

LEMMA BridgeSelected ==
  ASSUME NEW x, Selected(x) = "WBHOST" PROVE IsHostRegister(x)
<1>1. \A a : Target(a) # "WBHOST"
  BY DEF Target
<1>2. \A n : PinmuxBlock(n) # "WBHOST" /\ UartBlock(n) # "WBHOST"
  BY DEF PinmuxBlock, UartBlock
<1>. QED  BY <1>1, <1>2 DEF Selected

(* What an edge of the clock does in the blocks. *)
LEMMA BlockEdgeMoves ==
  ASSUME BusKinds, AsksGood, asks # <<>>, BlockEdge
  PROVE  /\ bank_sel' \in Banks
         /\ IsHostRegister(Asked) \/ bank_sel' = bank_sel
         /\ blockAck' = [b \in Blocks |-> blockAck'[b]]
         /\ blockData' = [b \in Blocks |-> blockData'[b]]
         /\ \A b \in Blocks :
              /\ blockAck'[b] <=> reg_cs /\ b = Selected(Asked) /\ ~blockAck[b]
              /\ blockAck'[b] => blockData'[b] = Numbered(Asked)
         /\ reg_cs /\ PinmuxAsked => reg_blk_sel' = Bits(BusAddress(Asked), 10, 7)
<1>1. GoodAccess(Asked) /\ Asked.by # "cipher" /\ Selected(Asked) \in Blocks
  BY AskedGood
<1>2. OnBus <=> reg_cs
  BY <1>1 DEF OnBus
<1>3. Chips = IF reg_cs THEN {Selected(Asked)} ELSE {}
  BY <1>1, <1>2 DEF Chips
<1>4. bank_sel' \in Banks /\ (IsHostRegister(Asked) \/ bank_sel' = bank_sel)
  <2>1. CASE "WBHOST" \in Chips /\ "bank" \in DOMAIN Asked
    <3>1. IsHostRegister(Asked)
      BY <1>3, <2>1, BridgeSelected
    <3>2. bank_sel' = Asked.bank
      BY <2>1 DEF BlockEdge
    <3>. QED  BY <1>1, <2>1, <3>1, <3>2 DEF GoodAccess
  <2>2. CASE ~("WBHOST" \in Chips /\ "bank" \in DOMAIN Asked)
    <3>1. bank_sel' = bank_sel
      BY <2>2 DEF BlockEdge
    <3>. QED  BY <3>1 DEF BusKinds
  <2>. QED  BY <2>1, <2>2
<1>5. blockAck' = [b \in Blocks |-> b \in Chips /\ ~blockAck[b]]
  BY DEF BlockEdge, NextAck
<1>6. blockAck' = [b \in Blocks |-> blockAck'[b]]
  BY <1>5, Zenon
<1>7. \A b \in Blocks : blockAck'[b] <=> reg_cs /\ b = Selected(Asked) /\ ~blockAck[b]
  BY <1>3, <1>5
<1>8. /\ blockData' = [b \in Blocks |-> blockData'[b]]
      /\ \A b \in Blocks : blockAck'[b] => blockData'[b] = Numbered(Asked)
  <2>1. CASE \E b \in Chips : ~blockAck[b]
    <3>1. blockData' = [blockData EXCEPT ![Selected(Asked)] = Numbered(Asked)]
      BY <2>1 DEF BlockEdge
    <3>. QED  BY <1>1, <1>7, <3>1 DEF BusKinds
  <2>2. CASE ~\E b \in Chips : ~blockAck[b]
    <3>1. blockData' = blockData
      BY <2>2 DEF BlockEdge
    <3>2. \A b \in Blocks : ~blockAck'[b]
      BY <1>5, <2>2
    <3>. QED  BY <3>1, <3>2 DEF BusKinds
  <2>. QED  BY <2>1, <2>2
<1>9. reg_cs /\ PinmuxAsked => reg_blk_sel' = Bits(BusAddress(Asked), 10, 7)
  BY <1>2 DEF BlockEdge, PinmuxAsked
<1>. QED  BY <1>4, <1>6, <1>7, <1>8, <1>9

LEMMA WaitingKept ==
  ASSUME BusKinds, AsksGood, AcksAreAsked, WaitsEnd, asks # <<>>, BlockEdge, Waiting
  PROVE  BusKinds' /\ AsksGood' /\ AcksAreAsked' /\ WaitsEnd'
<1>1. /\ bank_sel' \in Banks
      /\ IsHostRegister(Asked) \/ bank_sel' = bank_sel
      /\ blockAck' = [b \in Blocks |-> blockAck'[b]]
      /\ blockData' = [b \in Blocks |-> blockData'[b]]
      /\ \A b \in Blocks :
           /\ blockAck'[b] <=> reg_cs /\ b = Selected(Asked) /\ ~blockAck[b]
           /\ blockAck'[b] => blockData'[b] = Numbered(Asked)
      /\ reg_cs /\ PinmuxAsked => reg_blk_sel' = Bits(BusAddress(Asked), 10, 7)
  BY BlockEdgeMoves
<1>2. ~bus_ack /\ reg_cs' = TRUE /\ waited' = waited + 1 /\ asks' = asks
  BY DEF Waiting
<1>3. GoodAccess(Asked) /\ Asked.by # "cipher" /\ Selected(Asked) \in Blocks
  BY AskedGood
<1>4. /\ Selected(Asked)' = Selected(Asked) /\ Numbered(Asked)' = Numbered(Asked)
      /\ PinmuxAsked' = PinmuxAsked /\ (PinmuxAsked => BusAddress(Asked)' = BusAddress(Asked))
  BY <1>1, <1>2, AskedStays
<1>5. OnBus' /\ (reg_cs => OnBus)
  BY <1>2, <1>3 DEF OnBus, Asked
<1>6. BusKinds'
  BY <1>1, <1>2 DEF BusKinds
<1>7. AsksGood'
  BY <1>2 DEF AsksGood
<1>8. reg_cs => SelectionKept'
  BY <1>1, <1>4 DEF SelectionKept
<1>9. AcksAreAsked'
  BY <1>1, <1>4, <1>5, <1>8 DEF AcksAreAsked
<1>10. OnBus => ~blockAck[Selected(Asked)]
  <2>. SUFFICES ASSUME OnBus, blockAck[Selected(Asked)] PROVE FALSE
    OBVIOUS
  <2>1. Responder(Asked) = Selected(Asked)
    BY <1>3, AnswersSelected DEF AcksAreAsked
  <2>. QED  BY <1>2, <1>3, <2>1 DEF bus_ack
<1>11. waited \in {0, 1}
  BY <1>10 DEF WaitsEnd
<1>12. waited' = 2 => blockAck'[Selected(Asked)]
  <2>1. waited' = 2 => OnBus
    BY <1>2, <1>11 DEF WaitsEnd
  <2>. QED  BY <1>1, <1>3, <1>10, <2>1 DEF OnBus
<1>13. waited' \in 0..2
  BY <1>2, <1>11
<1>. QED  BY <1>4, <1>5, <1>6, <1>7, <1>9, <1>12, <1>13 DEF WaitsEnd

LEMMA AcknowledgedKept ==
  ASSUME BusKinds, AsksGood, AcksAreAsked, WaitsEnd, asks # <<>>, BlockEdge, Acknowledged,
         \E S : answers \in Seq(S), AnswerIsNamed
  PROVE  /\ BusKinds' /\ AsksGood' /\ AcksAreAsked' /\ WaitsEnd'
         /\ (\E S : answers' \in Seq(S)) /\ AnswerIsNamed'
<1>1. /\ bank_sel' \in Banks
      /\ blockAck' = [b \in Blocks |-> blockAck'[b]]
      /\ blockData' = [b \in Blocks |-> blockData'[b]]
      /\ \A b \in Blocks : blockAck'[b] <=> reg_cs /\ b = Selected(Asked) /\ ~blockAck[b]
  BY BlockEdgeMoves
<1>. DEFINE r == [access |-> Asked, bank |-> bank_sel, got |-> blockData[Responder(Asked)]]
<1>2. /\ bus_ack /\ answers' = Append(answers, r) /\ asks' = Tail(asks)
      /\ reg_cs' \in BOOLEAN /\ waited' = 0
  BY DEF Acknowledged
<1>3. /\ \E S : Tail(asks) \in Seq(S) /\ \A x \in S : GoodAccess(x)
      /\ bank_sel = \h1000 => <<Asked.name, Numbered(Asked)>> \in Meant
  BY AskedGood
<1>4. /\ Responder(Asked) = Selected(Asked) /\ blockAck[Selected(Asked)]
      /\ blockData[Responder(Asked)] = Numbered(Asked)
  BY <1>2 DEF bus_ack, AcksAreAsked
<1>5. BusKinds'
  BY <1>1, <1>2 DEF BusKinds
<1>6. AsksGood'
  BY <1>2, <1>3 DEF AsksGood
<1>7. AcksAreAsked'
  BY <1>1, <1>4 DEF AcksAreAsked
<1>8. WaitsEnd'
  BY <1>2 DEF WaitsEnd
<1>9. r.bank = \h1000 => <<r.access.name, r.got>> \in Meant
  BY <1>3, <1>4
<1>. HIDE DEF r
<1>10. PICK S : answers \in Seq(S)
  OBVIOUS
<1>11. answers \in Seq(S \cup {r}) /\ r \in S \cup {r}
  BY <1>10, SeqMonotonic
<1>12. /\ answers' \in Seq(S \cup {r}) /\ Len(answers') = Len(answers) + 1
       /\ \A k \in 1..Len(answers) : answers'[k] = answers[k]
       /\ answers'[Len(answers) + 1] = r
  BY <1>2, <1>11, AppendProperties
<1>13. DOMAIN answers = 1..Len(answers) /\ DOMAIN answers' = 1..(Len(answers) + 1)
       /\ Len(answers) \in Nat
  BY <1>11, <1>12, LenProperties
<1>14. ASSUME NEW k \in DOMAIN answers', answers'[k].bank = \h1000
       PROVE  <<answers'[k].access.name, answers'[k].got>> \in Meant
  <2>1. CASE k \in 1..Len(answers)
    BY <1>12, <1>13, <1>14, <2>1 DEF AnswerIsNamed
  <2>2. CASE k = Len(answers) + 1
    BY <1>9, <1>12, <1>14, <2>2
  <2>. QED  BY <1>13, <2>1, <2>2
<1>15. AnswerIsNamed'
  BY <1>14 DEF AnswerIsNamed
<1>. QED  BY <1>5, <1>6, <1>7, <1>8, <1>12, <1>15

(* The pointer of a cipher register is fifteen above its dword. *)
LEMMA PointerAt ==
  ASSUME NEW e \in Cipher
  PROVE  /\ e[2] \in Int /\ CipherAccess(e[1]).at = e[2] + 15
         /\ CipherAccess(e[1]).name = e[1] /\ CipherAccess(e[1]).by = "cipher"
<1>1. e[2] \in Int /\ <<e[1], e[2] + 15>> \in Pointer
  BY SMT DEF Cipher, Pointer
<1>2. \A a : <<e[1], a>> \in Pointer => a = e[2] + 15
  BY SMT DEF Cipher, Pointer
<1>3. e[2] + 15 \in {d[2] : d \in Pointer}
  BY <1>1
<1>4. AddressOf(Pointer, e[1]) = e[2] + 15
  BY <1>1, <1>2, <1>3 DEF AddressOf
<1>. QED  BY <1>1, <1>4 DEF CipherAccess

LEMMA CopyByteKept ==
  ASSUME NEW e \in Cipher, CopiedFrom(e), CopyByte
  PROVE  CopiedFrom(e)'
<1>1. asks = <<CipherAccess(e[1])>> /\ Asked = CipherAccess(e[1]) /\ Len(copied) <= 15
  BY DEF CopiedFrom, CopyByte, Asked
<1>2. Asked.at = e[2] + 15 /\ e[2] \in Int
  BY <1>1, PointerAt
<1>. DEFINE x == Asked.at - Len(copied)
<1>3. /\ copied' = Append(copied, x)
      /\ asks' = IF Len(copied) = 15 THEN Tail(asks) ELSE asks
  BY DEF CopyByte, ByteAt, LastByte
<1>4. PICK S : copied \in Seq(S)
  BY DEF CopiedFrom
<1>5. Tail(asks) = <<>>
  BY <1>1
<1>6. Len(copied) \in Nat /\ DOMAIN copied = 1..Len(copied)
  BY <1>4, LenProperties
<1>7. x = e[2] + 16 - (Len(copied) + 1)
  BY <1>2, <1>6
<1>. HIDE DEF x
<1>8. copied \in Seq(S \cup {x}) /\ x \in S \cup {x}
  BY <1>4, SeqMonotonic
<1>9. /\ copied' \in Seq(S \cup {x}) /\ Len(copied') = Len(copied) + 1
      /\ \A k \in 1..Len(copied) : copied'[k] = copied[k]
      /\ copied'[Len(copied) + 1] = x
  BY <1>3, <1>8, AppendProperties
<1>10. DOMAIN copied' = 1..(Len(copied) + 1)
  BY <1>9, LenProperties
<1>11. ASSUME NEW j \in DOMAIN copied'
       PROVE  j \in 1..16 /\ copied'[j] = e[2] + 16 - j
  <2>1. CASE j \in 1..Len(copied)
    BY <1>6, <1>9, <2>1 DEF CopiedFrom
  <2>2. CASE j = Len(copied) + 1
    BY <1>1, <1>6, <1>7, <1>9, <2>2, SMTT(30)
  <2>. QED  BY <1>6, <1>10, <2>1, <2>2
<1>12. asks' = <<CipherAccess(e[1])>> \/ asks' = <<>>
  BY <1>1, <1>3, <1>5
<1>13. asks' # <<>> => Len(copied') <= 15
  <2>1. Len(copied) = 15 => asks' = <<>>
    BY <1>3, <1>5
  <2>2. Len(copied) # 15 => Len(copied') <= 15
    BY <1>1, <1>6, <1>9
  <2>. QED  BY <2>1, <2>2
<1>. QED  BY <1>9, <1>11, <1>12, <1>13 DEF CopiedFrom

LEMMA RegStepInv == RegInv /\ [RegNext]_busVars => RegInv'
<1>. SUFFICES ASSUME RegInv, [RegNext]_busVars PROVE RegInv'
  OBVIOUS
<1>1. CASE RegEdge
  <2>1. asks # <<>> /\ Asked.by # "cipher" /\ BlockEdge /\ (Acknowledged \/ Waiting)
        /\ copied' = copied
    BY <1>1 DEF RegEdge
  <2>2. BusMode
    BY <2>1, PointerAt DEF RegInv, CipherMode, CopiedFrom, Asked
  <2>3. CASE Acknowledged
    <3>1. /\ BusKinds' /\ AsksGood' /\ AcksAreAsked' /\ WaitsEnd'
          /\ (\E S : answers' \in Seq(S)) /\ AnswerIsNamed'
      BY <2>1, <2>2, <2>3, AcknowledgedKept DEF BusMode, RegInv
    <3>. QED  BY <2>1, <2>2, <3>1 DEF RegInv, BusMode
  <2>4. CASE Waiting
    <3>1. BusKinds' /\ AsksGood' /\ AcksAreAsked' /\ WaitsEnd' /\ answers' = answers
      BY <2>1, <2>2, <2>4, WaitingKept DEF BusMode, RegInv, Waiting
    <3>. QED  BY <2>1, <2>2, <3>1 DEF RegInv, BusMode, AnswerIsNamed
  <2>. QED  BY <2>1, <2>3, <2>4
<1>2. CASE CopyByte
  <2>1. asks # <<>> /\ Asked.by = "cipher"
        /\ UNCHANGED <<reg_cs, bank_sel, blockAck, blockData, answers, waited>>
    BY <1>2 DEF CopyByte
  <2>2. ~BusMode
    BY <2>1, AskedGood DEF BusMode, RegInv
  <2>3. PICK e \in Cipher : CopiedFrom(e)
    BY <2>2 DEF RegInv, CipherMode
  <2>4. CopiedFrom(e)'
    BY <1>2, <2>3, CopyByteKept
  <2>5. CipherMode'
    BY <2>1, <2>2, <2>4 DEF CipherMode, RegInv
  <2>. QED  BY <2>1, <2>5 DEF RegInv, BusKinds, AnswerIsNamed
<1>3. CASE UNCHANGED busVars
  <2>1. UNCHANGED <<asks, reg_cs, bank_sel, reg_blk_sel, blockAck, blockData, answers, waited,
                    copied>>
    BY <1>3 DEF busVars
  <2>2. BusKinds' = BusKinds /\ AnswerIsNamed' = AnswerIsNamed /\ AsksGood' = AsksGood
    BY <2>1 DEF BusKinds, AnswerIsNamed, AsksGood
  <2>3. Asked' = Asked /\ OnBus' = OnBus
    BY <2>1 DEF Asked, OnBus
  <2>4. /\ Selected(Asked)' = Selected(Asked) /\ Numbered(Asked)' = Numbered(Asked)
        /\ SelectionKept' = SelectionKept
    BY <2>1, <2>3 DEF Selected, Numbered, SelectionKept, PinmuxAsked, IsHostRegister, BusAddress,
                      wb_adr_int
  <2>5. AcksAreAsked' = AcksAreAsked /\ WaitsEnd' = WaitsEnd
    BY <2>1, <2>3, <2>4 DEF AcksAreAsked, WaitsEnd
  <2>6. BusMode' = BusMode /\ CipherMode' = CipherMode
    BY <2>1, <2>2, <2>5 DEF BusMode, CipherMode, CopiedFrom
  <2>. QED  BY <2>1, <2>2, <2>6 DEF RegInv
<1>. QED  BY <1>1, <1>2, <1>3 DEF RegNext

LEMMA RegTells == RegInv => RegistersRight
<1>. SUFFICES ASSUME RegInv PROVE RegistersRight
  OBVIOUS
<1>1. AccessesEnd
  BY DEF RegInv, BusMode, CipherMode, WaitsEnd, AccessesEnd
<1>2. BytesInBlock
  <2>1. CASE BusMode
    BY <2>1, EmptySeq DEF BusMode, BytesInBlock
  <2>2. CASE CipherMode
    <3>1. PICK e \in Cipher : CopiedFrom(e)
      BY <2>2 DEF CipherMode
    <3>2. asks # <<>> => e[1] = Asked.name
      BY <3>1, PointerAt DEF CopiedFrom, Asked
    <3>. QED  BY <3>1, <3>2 DEF CopiedFrom, BytesInBlock
  <2>. QED  BY <2>1, <2>2 DEF RegInv
<1>. QED  BY <1>1, <1>2 DEF RegInv, RegistersRight

LEMMA RegStands == [Next]_allVars => [RegNext]_busVars
<1>1. Next => RegNext \/ UNCHANGED registerOwn
  BY DEF Next, PrintRest, ThreadRest, CopRest, ConsoleRest, RtcRest, TcmRest, CopyRest, LedRest,
         EchoRest, IntrRest, MotorRest, JtagRest, SketchRest, WireRest, ReportRest, blockOwn
<1>. QED  BY <1>1, ImageStays DEF registerOwn, busVars, allVars, blockOwn

LEMMA TcmStands == [Next]_allVars => [TcmNext]_tcmVars
<1>1. Next => TcmNext \/ UNCHANGED tcmOwn
  BY DEF Next, PrintRest, ThreadRest, CopRest, ConsoleRest, RtcRest, CopyRest, LedRest,
         EchoRest, RegRest, IntrRest, MotorRest, JtagRest, SketchRest, WireRest, ReportRest, benchOwn
<1>. QED  BY <1>1, ImageStays DEF tcmOwn, tcmVars, allVars, benchOwn

LEMMA CopyStands == [Next]_allVars => [CopyNext]_copyVars
<1>1. Next => CopyNext \/ UNCHANGED copyOwn
  BY DEF Next, PrintRest, ThreadRest, CopRest, ConsoleRest, RtcRest, TcmRest, LedRest,
         EchoRest, RegRest, IntrRest, MotorRest, JtagRest, SketchRest, WireRest, ReportRest, benchOwn
<1>. QED  BY <1>1, ImageStays DEF copyOwn, copyVars, allVars, benchOwn

------------------------------------------------------------------------------
(* Nothing is lost by running the programs in one specification: a
   behaviour of it is one of each program, on which the image stays, and
   what is proved of a program alone holds in it (MCFirmware). *)
THEOREM EachRunsAlone ==
  FairSpec => /\ PrintSpec /\ ThreadSpec /\ CopSpec /\ ConsoleSpec /\ RtcSpec
              /\ TcmSpec /\ CopySpec /\ LedSpec /\ EchoSpec /\ RegSpec
              /\ IntrSpec /\ JtagSpec /\ SketchSpec /\ WireSpec /\ ReportSpec
<1>1. Init => /\ PrintInit /\ ThreadInit /\ CopInit /\ ConsoleInit /\ RtcInit
              /\ TcmInit /\ CopyInit /\ LedInit /\ EchoInit /\ RegInit
              /\ IntrInit /\ JtagInit /\ SketchInit /\ WireInit /\ ReportInit
  BY DEF Init
<1>. QED
  BY <1>1, PrintStands, ThreadStands, CopStands, ConsoleStands, RtcStands, TcmStands,
     CopyStands, LedStands, EchoStands, RegStands, IntrStands, JtagStands, SketchStands,
     WireStands, ReportStands, PTL
     DEF FairSpec, PrintSpec, ThreadSpec, CopSpec, ConsoleSpec, RtcSpec, TcmSpec, CopySpec,
         LedSpec, EchoSpec, RegSpec, IntrSpec, JtagSpec, SketchSpec, WireSpec, ReportSpec

------------------------------------------------------------------------------
(* What is counted ends at its count, for every movement and every limit of
   a timer: the step of the motor that its registers see too late is the
   only one too many, and the pulse that came before the timer was disabled
   brings the only call too many (sm_ctrl.sv, arduino_timer_intr.ino.cpp). *)
THEOREM CountsAreHeld == FairSpec => []CountsHold
<1>1. Init => MotorInv /\ IntrInv
  BY MotorInitInv, IntrInitInv DEF Init
<1>2. MotorInv /\ IntrInv /\ [Next]_allVars => (MotorInv /\ IntrInv)'
  BY MotorStands, MotorStep, IntrStands, IntrStep
<1>3. MotorInv /\ IntrInv => CountsHold
  BY MotorCounts, TimersCount DEF CountsHold
<1>. QED  BY <1>1, <1>2, <1>3, PTL DEF FairSpec

(* Whatever flows from one queue to another comes out whole and in order,
   for any number of cores, messages and characters, of words and ports:
   messages of several cores on one line, words of LED chains, characters
   sent back (user_mcore_test2.c, ws281x_driver.sv, user_uart.c). *)
THEOREM StreamsComeWhole == FairSpec => []StreamsInOrder
<1>. DEFINE Streams == PrintInv /\ StreamInv /\ LedIInv /\ EchoIInv
<1>1. Init => Streams
  BY PrintInitInv, StreamInitInv, LedInitInv, EchoInitInv DEF Init
<1>2. Streams /\ [Next]_allVars => Streams'
  BY PrintStands, PrintNextInv, StreamStep, LedStands, LedStep, EchoStands, EchoKeeps
<1>3. Streams => StreamsInOrder
  BY StreamIsWhole DEF StreamsInOrder, LedIInv, LedInv, EchoIInv, EchoInv
<1>. QED  BY <1>1, <1>2, <1>3, PTL DEF FairSpec

(* What the pin sketches drive and say follows from what their inputs were,
   however often these change within a pass and whatever is typed
   (arduino_line_follower, arduino_switchCase2, arduino_gpio_input,
   arduino_arrays). *)
THEOREM PinsTell == FairSpec => []PinsFollow
<1>1. Init => SketchInv /\ ReportInv
  BY SketchInitInv, ReportInitInv DEF Init
<1>2. SketchInv /\ ReportInv /\ [Next]_allVars => (SketchInv /\ ReportInv)'
  BY SketchStands, SketchStep, ReportStands, ReportStepInv
<1>3. SketchInv /\ ReportInv => PinsFollow
  BY SketchesRight DEF PinsFollow, ReportInv
<1>. QED  BY <1>1, <1>2, <1>3, PTL DEF FairSpec

(* A wiper goes by one step at a time, one wiper at a time, for any number
   of channels and of steps (arduino_digital_port_control). *)
THEOREM WipersGoByOne == FairSpec => WiperSteps
<1>1. SketchInit => SketchInv
  BY SketchInitInv
<1>2. SketchInv /\ [SketchNext]_sketchVars => SketchInv'
  BY SketchStep
<1>3. SketchInv /\ [SketchNext]_sketchVars =>
        [\A c \in DOMAIN wiper :
            wiper'[c] # wiper[c] =>
              /\ wiper'[c] \in 0..Levels
              /\ IF wiper[c] = -1 THEN wiper'[c] = 0 ELSE wiper'[c] - wiper[c] \in {-1, 1}
              /\ \A d \in DOMAIN wiper \ {c} : wiper'[d] = wiper[d]]_wiper
  BY WipersMove
<1>. QED  BY <1>1, <1>2, <1>3, EachRunsAlone, PTL DEF SketchSpec, WiperSteps

(* Whatever programs ask of the bus, an access by a name of the headers is
   answered within four clocks, under the bank of the reset by the register
   its name is for, with its data, whatever was accessed before; and the
   bytes of a cipher block land in that block (int_reg_map.h,
   ext_reg_map.h, pinmux_top.sv). *)
THEOREM RegistersAnswer == FairSpec => []RegistersRight
<1>1. Init => RegInv
  BY RegInitInv DEF Init
<1>2. RegInv /\ [Next]_allVars => RegInv'
  BY RegStands, RegStepInv
<1>3. RegInv => RegistersRight
  BY RegTells
<1>. QED  BY <1>1, <1>2, <1>3, PTL DEF FairSpec

(* The console loses and doubles no character: what it has stored and what
   its buffer still holds is what the printing code has handed to it, for
   every buffer of at least one character (sc_print.c). *)
THEOREM BufferIsKept == FairSpec => []BufferKept
<1>1. Init => ConsoleInv
  BY ConsoleInitInv DEF Init
<1>2. ConsoleInv /\ [Next]_allVars => ConsoleInv'
  BY ConsoleStands, ConsoleStepInv
<1>3. ConsoleInv => BufferKept
  BY DEF ConsoleInv
<1>. QED  BY <1>1, <1>2, <1>3, PTL DEF FairSpec

(* A test program tells the truth, whichever engines and units are broken,
   whatever the fault of the memory and however many half words are copied:
   a result is that of the operation before it, the verdict is good exactly
   if what was tested is, and the copy runs whole (user_fpu_core.c,
   user_aes_core.c, arduino_tcm_test.ino.cpp, user_sram_exec.c). *)
THEOREM TestsAreTruthful == FairSpec => []TestsTellTruth
<1>. DEFINE Tests == CopInv /\ TcmInv /\ CopyInv
<1>1. Init => Tests
  BY CopInitInv, TcmInitInv, CopyInitInv DEF Init
<1>2. Tests /\ [Next]_allVars => Tests'
  BY CopStands, CopStepInv, TcmStands, TcmStepInv, CopyStands, CopyStepInv
<1>3. Tests => TestsTellTruth
  BY CopTells, TcmTells, CopyTells DEF TestsTellTruth
<1>. QED  BY <1>1, <1>2, <1>3, PTL DEF FairSpec

(* What the two-wire sketches print is what is on the bus, for any devices:
   the bytes that were written come back in order, and the lines and the
   count of the scan are those of the addresses that answer
   (arduino_i2c_wr_rd, arduino_i2c_scaner). *)
THEOREM WiresTell == FairSpec => []WireRight
<1>1. Init => WireInv /\ ScanInv
  BY WireInitInv, ScanInitInv DEF Init
<1>2. WireInv /\ ScanInv /\ [Next]_allVars => (WireInv /\ ScanInv)'
  BY WireStands, WireStepInv
<1>3. WireInv /\ ScanInv => WireRight
  BY WireReads, ScanTells DEF WireRight
<1>. QED  BY <1>1, <1>2, <1>3, PTL DEF FairSpec

(* Whatever calls a bench makes, the reference clock answers with the date,
   or the day and the time, that its steps lead to from the time it was set
   to, over the ends of days, months and years, leap years among them, and
   a call whose command is a constant reads no argument that is not there
   (pli_rtc.c). *)
THEOREM ClockTells == FairSpec => []ReferenceClockRight
<1>1. Init => RtcInv
  BY RtcInitInv DEF Init
<1>2. RtcInv /\ [Next]_allVars => RtcInv'
  BY RtcStands, RtcStepInv
<1>3. RtcInv => ReferenceClockRight
  BY RtcTells
<1>. QED  BY <1>1, <1>2, <1>3, PTL DEF FairSpec

==============================================================================
