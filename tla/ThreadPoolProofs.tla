-------------------------- MODULE ThreadPoolProofs --------------------------
(***************************************************************************)
(* Proofs about ThreadPool, for every number of threads, clients and tasks. *)
(***************************************************************************)
EXTENDS ThreadPool, FiniteSetTheorems, SequenceTheorems, TLAPS

RunningTasks == {worker[w].task : w \in {v \in Workers : At(v, "run")}}

\* Only the threads that were created are there, and no two of them have the same task.
WorkerInv ==
    /\ \A w \in Workers : w > thread_count => At(w, "exited")
    /\ \A v, w \in Workers :
          At(v, "run") /\ At(w, "run") /\ worker[v].task = worker[w].task => v = w

\* The tasks that wait are the last ones submitted, in this order; all the others run or
\* have ended.
QueueInv ==
    /\ Len(tasks) <= submitted
    /\ \A i \in 1 .. Len(tasks) : tasks[i] = submitted - Len(tasks) + i
    /\ RunningTasks \cup done = 1 .. submitted - Len(tasks)

Stopping == {"stop", "stop_notify", "join", "create", "resume"}

\* Only the owner resets and destroys, and new threads come when the old ones have gone.
ClientInv ==
    \A c \in Clients :
        /\ client[c].goal \in {"reset", "destroy"} \/ client[c].pc \in Stopping => c = Owner
        /\ In(c, "create") => \A w \in Workers : At(w, "exited")

\* While the pool is destroyed there is nobody else; once its wait has returned nothing
\* is left to run, and at the end no thread is.
DestroyInv ==
    client[Owner].goal = "destroy" =>
        /\ \A c \in Clients \ {Owner} : In(c, "gone")
        /\ client[Owner].pc \in {"enter_wait", "wait_blocked", "wait_woken",
                                 "stop", "stop_notify", "join", "gone"}
        /\ client[Owner].pc \in {"stop", "stop_notify", "join", "gone"} => AllDone
        /\ In(Owner, "gone") => \A w \in Workers : At(w, "exited")

IInv == TypeOK /\ RunningCount /\ WorkerInv /\ QueueInv /\ ClientInv /\ DestroyInv
-----------------------------------------------------------------------------
LEMMA BusyFinite == IsFiniteSet(Workers) /\ IsFiniteSet(Busy)
                    /\ Cardinality(Workers) = MaxThreads
                    /\ Cardinality(Busy) \in 0 .. Cardinality(Workers)
<1>1. IsFiniteSet(Workers) /\ Cardinality(Workers) = MaxThreads
  BY FS_Interval, ThreadsAssumption DEF Workers
<1>2. Busy \in SUBSET Workers
  BY DEF Busy
<1>3. IsFiniteSet(Busy) /\ Cardinality(Busy) <= Cardinality(Workers)
  BY <1>1, <1>2, FS_Subset
<1>4. Cardinality(Busy) \in Nat
  BY <1>3, FS_CardinalityType
<1> QED  BY <1>1, <1>3, <1>4, ThreadsAssumption

\* Which threads are busy, and with what, decides about two parts of the invariant.
LEMMA SameBusy ==
  ASSUME \A w \in Workers :
            /\ worker'[w].pc \in {"init", "run", "finish"}
                 <=> worker[w].pc \in {"init", "run", "finish"}
         PROVE Busy' = Busy
  BY DEF Busy, Workers

LEMMA SameRunning ==
  ASSUME \A w \in Workers : At(w, "run")' <=> At(w, "run"),
         \A w \in Workers : At(w, "run") => worker'[w].task = worker[w].task
  PROVE  RunningTasks' = RunningTasks
  BY DEF RunningTasks, Workers

LEMMA InitInv == Init => IInv
<1> SUFFICES ASSUME Init PROVE IInv
  OBVIOUS
<1> USE DEF Init
<1>n. thread_count \in 1 .. MaxThreads
  BY CountsAssumption
<1>0. Busy = 1 .. thread_count
  BY <1>n, ThreadsAssumption DEF Busy, NewWorkers, Workers
<1>1. RunningCount
  BY <1>0, <1>n, ThreadsAssumption, FS_Interval DEF RunningCount
<1>2. TypeOK
  <2>1. tasks_running \in 0 .. Cardinality(Workers)
    BY <1>1, BusyFinite DEF RunningCount
  <2>2. worker \in [Workers -> WorkerState]
    BY DEF NewWorkers, WorkerState
  <2>3. client \in [Clients -> ClientState]
    BY DEF NoCall, ClientState, Goals
  <2>4. tasks \in Seq(Task) /\ submitted \in 0 .. MaxTasks
    BY BoundsAssumption, EmptySeq
  <2> QED  BY <2>1, <2>2, <2>3, <2>4, Zenon DEF TypeOK
<1>3. WorkerInv
  BY <1>n, ThreadsAssumption DEF WorkerInv, NewWorkers, At, Workers
<1>4. QueueInv
  <2>1. RunningTasks = {}
    BY DEF RunningTasks, NewWorkers, At
  <2> QED  BY <2>1 DEF QueueInv
<1>5. ClientInv /\ DestroyInv
  BY OwnerAssumption DEF ClientInv, DestroyInv, NoCall, Stopping, In
<1> QED  BY <1>1, <1>2, <1>3, <1>4, <1>5 DEF IInv
-----------------------------------------------------------------------------
(* What most of the steps leave alone. *)

ExitedStays == \A w \in Workers : At(w, "exited") => At(w, "exited")'

\* A step of workers that do not take, end or are given anything.
LEMMA NoTaskMoves ==
  ASSUME IInv,
         \A w \in Workers :
            /\ At(w, "run")' <=> At(w, "run")
            /\ At(w, "run") => worker'[w].task = worker[w].task
            /\ worker'[w].pc \in {"init", "run", "finish"}
                 <=> worker[w].pc \in {"init", "run", "finish"},
         ExitedStays,
         UNCHANGED <<tasks, tasks_running, thread_count, submitted, done>>
  PROVE  RunningCount' /\ WorkerInv' /\ QueueInv'
<1>1. Busy' = Busy /\ RunningTasks' = RunningTasks
  BY SameBusy, SameRunning, Zenon
<1>2. RunningCount'
  BY <1>1 DEF IInv, RunningCount
<1>3. QueueInv'
  BY <1>1 DEF IInv, QueueInv
<1>4. WorkerInv'
  BY DEF IInv, WorkerInv, At, ExitedStays
<1> QED  BY <1>2, <1>3, <1>4

\* A step of a worker alone.
LEMMA NoClientMoves ==
  ASSUME IInv, UNCHANGED client, ExitedStays, AllDone => AllDone'
  PROVE  ClientInv' /\ DestroyInv'
  BY DEF IInv, ClientInv, DestroyInv, In, ExitedStays

LEMMA NothingRuns == ASSUME IInv, tasks_running = 0 PROVE Busy = {}
  BY BusyFinite, FS_EmptySet DEF IInv, RunningCount
-----------------------------------------------------------------------------
(* The steps of a worker. *)

LEMMA ArriveInv == ASSUME IInv, NEW w \in Workers, Arrive(w) PROVE IInv'
<1> USE DEF Arrive
<1>a. w \in Busy /\ worker \in [Workers -> WorkerState]
  BY DEF At, Busy, IInv, TypeOK
<1>b. \A v \in Workers : v # w => worker'[v] = worker[v]
  BY <1>a
<1>c. worker'[w] = [pc |-> "check", task |-> NoTask, unread |-> Reads]
  BY <1>a
<1>1. Busy' = Busy \ {w}
  BY <1>b, <1>c DEF Busy, Workers
<1>2. Cardinality(Busy') = Cardinality(Busy) - 1
  BY <1>1, <1>a, BusyFinite, FS_RemoveElement
<1>3. RunningCount'
  BY <1>2 DEF IInv, RunningCount
<1>4. TypeOK'
  <2>1. tasks_running' \in 0 .. Cardinality(Workers)
    <3>1. Cardinality(Busy') \in Nat
      BY <1>1, BusyFinite, FS_RemoveElement, FS_CardinalityType
    <3>2. tasks_running' = Cardinality(Busy')
      BY <1>3 DEF RunningCount
    <3>3. Cardinality(Busy') <= Cardinality(Workers)
      BY <3>1, <1>2, BusyFinite, ThreadsAssumption
    <3> QED  BY <3>1, <3>2, <3>3, BusyFinite, ThreadsAssumption
  <2>2. worker' \in [Workers -> WorkerState]
    BY <1>a DEF WorkerState
  <2> QED  BY <2>1, <2>2 DEF IInv, TypeOK, Workers, Task
<1>5. WorkerInv'
  BY <1>b, <1>c DEF IInv, WorkerInv, At
<1>6. QueueInv'
  <2>1. RunningTasks' = RunningTasks
    BY <1>b, <1>c, SameRunning DEF At
  <2> QED  BY <2>1 DEF IInv, QueueInv
<1>7. ClientInv' /\ DestroyInv'
  <2>1. ~AllDone
    BY <1>a, NothingRuns DEF AllDone
  <2>2. ExitedStays
    BY <1>b DEF ExitedStays, At
  <2> QED  BY <2>1, <2>2, NoClientMoves
<1> QED  BY <1>3, <1>4, <1>5, <1>6, <1>7 DEF IInv

\* However the read comes out, the worker goes on looking or gives up.
LEMMA CheckMoves ==
  ASSUME IInv, NEW w \in Workers, NEW r \in Reads, Check(w, r)
  PROVE  \E pc \in {"check", "idle"}, unread \in SUBSET Reads :
            worker' = [worker EXCEPT ![w].pc = pc, ![w].unread = unread]
<1>1. worker[w].unread \in SUBSET Reads /\ worker[w].pc = "check"
  BY DEF Check, At, IInv, TypeOK, WorkerState
<1>2. /\ worker[w].unread \ Alternatives(r) \in SUBSET Reads
      /\ worker[w].unread \ {r} \in SUBSET Reads
      /\ {} \in SUBSET Reads
  BY <1>1
<1>3. \/ worker' = [worker EXCEPT ![w].pc = "idle", ![w].unread = {}]
      \/ worker' = [worker EXCEPT ![w].pc = "check",
                                  ![w].unread = worker[w].unread \ Alternatives(r)]
      \/ worker' = [worker EXCEPT ![w].pc = "check", ![w].unread = worker[w].unread \ {r}]
  BY <1>1 DEF Check, IInv, TypeOK
<1> QED  BY <1>2, <1>3, Zenon

LEMMA CheckInv == ASSUME IInv, NEW w \in Workers, NEW r \in Reads, Check(w, r) PROVE IInv'
<1> USE DEF Check
<1>a. worker \in [Workers -> WorkerState] /\ worker[w].pc = "check"
  BY DEF IInv, TypeOK, At
<1>b. /\ worker'[w].pc \in {"check", "idle"}
      /\ worker' \in [Workers -> WorkerState]
  <2>1. PICK pc \in {"check", "idle"}, unread \in SUBSET Reads :
           worker' = [worker EXCEPT ![w].pc = pc, ![w].unread = unread]
    BY CheckMoves
  <2> HIDE DEF Check
  <2> QED  BY <1>a, <2>1 DEF WorkerState
<1>c. \A v \in Workers : v # w => worker'[v] = worker[v]
  BY <1>a
<1>1. TypeOK'
  BY <1>b DEF IInv, TypeOK, Workers, Task
<1>2. ExitedStays
  BY <1>a, <1>c DEF ExitedStays, At
<1>3. RunningCount' /\ WorkerInv' /\ QueueInv'
  BY <1>a, <1>b, <1>c, <1>2, NoTaskMoves DEF At
<1>4. ClientInv' /\ DestroyInv'
  BY <1>2, NoClientMoves DEF AllDone, PausedOrEmpty
<1> QED  BY <1>1, <1>3, <1>4 DEF IInv

LEMMA BlockInv == ASSUME IInv, NEW w \in Workers, Block(w) \/ Exit(w) PROVE IInv'
<1> USE DEF Block, Exit, Go, At
<1>a. worker \in [Workers -> WorkerState] /\ worker[w].pc = "idle"
  BY DEF IInv, TypeOK
<1>b. worker'[w].pc \in {"blocked", "exited"} /\ worker' \in [Workers -> WorkerState]
  BY <1>a DEF WorkerState
<1>c. \A v \in Workers : v # w => worker'[v] = worker[v]
  BY <1>a
<1>1. TypeOK'
  BY <1>b DEF IInv, TypeOK, Workers, Task
<1>2. ExitedStays
  BY <1>a, <1>c DEF ExitedStays
<1>3. RunningCount' /\ WorkerInv' /\ QueueInv'
  BY <1>a, <1>b, <1>c, <1>2, NoTaskMoves
<1>4. ClientInv' /\ DestroyInv'
  BY <1>2, NoClientMoves DEF AllDone, PausedOrEmpty
<1> QED  BY <1>1, <1>3, <1>4 DEF IInv

\* The task leaves the queue at its head, where the numbers in use end.
LEMMA TakeMoves ==
  ASSUME IInv, NEW w \in Workers, Take(w)
  PROVE  /\ Head(tasks) = submitted - Len(tasks) + 1
         /\ Head(tasks) \in Task
         /\ RunningTasks' = RunningTasks \cup {Head(tasks)}
         /\ worker' \in [Workers -> WorkerState]
         /\ worker'[w].pc = "run" /\ worker'[w].task = Head(tasks)
         /\ \A v \in Workers : v # w => worker'[v] = worker[v]
<1> USE DEF Take, PausedOrEmpty
<1>1. tasks \in Seq(Task) /\ tasks # << >> /\ worker \in [Workers -> WorkerState]
  BY DEF IInv, TypeOK
<1>2. Head(tasks) = tasks[1] /\ Len(tasks) \in Nat \ {0}
  BY <1>1, EmptySeq
<1>3. Head(tasks) = submitted - Len(tasks) + 1
  BY <1>2 DEF IInv, QueueInv
<1>4. Head(tasks) \in Task
  BY <1>1
<1>5. /\ worker'[w].pc = "run" /\ worker'[w].task = Head(tasks)
      /\ \A v \in Workers : v # w => worker'[v] = worker[v]
  BY <1>1 DEF WorkerState
<1>6. worker' \in [Workers -> WorkerState]
  BY <1>1, <1>4 DEF WorkerState
<1>7. RunningTasks' = RunningTasks \cup {Head(tasks)}
  <2>1. {v \in Workers : At(v, "run")}' = {v \in Workers : At(v, "run")} \cup {w}
    BY <1>5 DEF At, Workers
  <2>2. ~At(w, "run")
    BY DEF At
  <2> QED  BY <1>5, <2>1, <2>2 DEF RunningTasks
<1> QED  BY <1>3, <1>4, <1>5, <1>6, <1>7

LEMMA TakeInv == ASSUME IInv, NEW w \in Workers, Take(w) PROVE IInv'
<1>a. worker[w].pc = "idle" /\ tasks \in Seq(Task) /\ tasks # << >>
  BY DEF Take, At, PausedOrEmpty, IInv, TypeOK
<1>b. /\ worker'[w].pc = "run" /\ worker'[w].task = Head(tasks)
      /\ \A v \in Workers : v # w => worker'[v] = worker[v]
  BY TakeMoves
<1>c. /\ Tail(tasks) \in Seq(Task) /\ Len(Tail(tasks)) = Len(tasks) - 1
      /\ \A i \in 1 .. Len(tasks) - 1 : Tail(tasks)[i] = tasks[i + 1]
      /\ Len(tasks) \in Nat
  BY <1>a, HeadTailProperties, LenProperties
<1>1. Busy' = Busy \cup {w} /\ w \notin Busy
  BY <1>a, <1>b DEF Busy, Workers
<1>2. Cardinality(Busy') = Cardinality(Busy) + 1
  BY <1>1, BusyFinite, FS_AddElement
<1>3. RunningCount'
  BY <1>2 DEF IInv, RunningCount, Take
<1>4. TypeOK'
  <2>1. Busy' \in SUBSET Workers
    BY DEF Busy, Workers
  <2>2. Cardinality(Busy') <= Cardinality(Workers)
    BY <2>1, BusyFinite, FS_Subset
  <2>3. tasks_running' \in 0 .. Cardinality(Workers)
    BY <1>2, <1>3, <2>2, BusyFinite, ThreadsAssumption DEF RunningCount
  <2> QED  BY <2>3, <1>c, TakeMoves DEF IInv, TypeOK, Take, Workers, Task
<1>5. QueueInv'
  <2>1. submitted \in Nat /\ Len(tasks) >= 1
    BY <1>a, <1>c, EmptySeq, BoundsAssumption DEF IInv, TypeOK
  <2>2. RunningTasks' \cup done = (1 .. submitted - Len(tasks)) \cup {submitted - Len(tasks) + 1}
    BY TakeMoves DEF IInv, QueueInv
  <2>3. RunningTasks' \cup done = 1 .. submitted - Len(Tail(tasks))
    BY <2>1, <2>2, <1>c DEF IInv, QueueInv
  <2>4. \A i \in 1 .. Len(Tail(tasks)) :
           Tail(tasks)[i] = submitted - Len(Tail(tasks)) + i
    BY <2>1, <1>c DEF IInv, QueueInv
  <2> QED  BY <2>1, <2>3, <2>4, <1>c DEF IInv, QueueInv, Take
<1>6. WorkerInv'
  <2>1. Head(tasks) \notin RunningTasks
    <3>1. submitted - Len(tasks) + 1 \notin 1 .. submitted - Len(tasks)
      BY <1>c, BoundsAssumption DEF IInv, TypeOK
    <3> QED  BY <3>1, TakeMoves DEF IInv, QueueInv
  <2>2. \A v \in Workers : At(v, "run") => worker[v].task # Head(tasks)
    BY <2>1 DEF RunningTasks
  <2>3. WorkerInv /\ thread_count' = thread_count
    BY DEF IInv, Take
  <2> QED  BY <2>2, <2>3, <1>a, <1>b DEF WorkerInv, At
<1>7. ClientInv' /\ DestroyInv'
  <2>1. ~AllDone /\ UNCHANGED client
    BY DEF Take, AllDone
  <2>2. ExitedStays
    BY <1>a, <1>b DEF ExitedStays, At
  <2> QED  BY <2>1, <2>2, NoClientMoves
<1> QED  BY <1>3, <1>4, <1>5, <1>6, <1>7 DEF IInv

\* No other worker runs the task that ends.
LEMMA TaskEndsMoves ==
  ASSUME IInv, NEW w \in Workers, TaskEnds(w)
  PROVE  /\ worker[w].pc = "run" /\ worker[w].task \in RunningTasks
         /\ RunningTasks' = RunningTasks \ {worker[w].task}
         /\ worker' \in [Workers -> WorkerState]
         /\ worker'[w].pc = "finish"
         /\ \A v \in Workers : v # w => worker'[v] = worker[v]
<1> USE DEF TaskEnds, Go, At
<1>1. worker \in [Workers -> WorkerState] /\ worker[w].pc = "run"
  BY DEF IInv, TypeOK
<1>2. /\ worker'[w].pc = "finish" /\ worker' \in [Workers -> WorkerState]
      /\ \A v \in Workers : v # w => worker'[v] = worker[v]
  BY <1>1 DEF WorkerState
<1>3. {v \in Workers : At(v, "run")}' = {v \in Workers : At(v, "run")} \ {w}
  BY <1>2 DEF Workers
<1>4. \A v \in {u \in Workers : At(u, "run")} : worker[v].task = worker[w].task => v = w
  BY <1>1 DEF IInv, WorkerInv
<1>5. RunningTasks' = RunningTasks \ {worker[w].task}
  BY <1>1, <1>2, <1>3, <1>4 DEF RunningTasks
<1> QED  BY <1>1, <1>2, <1>5 DEF RunningTasks

LEMMA TaskEndsInv == ASSUME IInv, NEW w \in Workers, TaskEnds(w) PROVE IInv'
<1>a. /\ worker'[w].pc = "finish" /\ worker[w].pc = "run"
      /\ worker' \in [Workers -> WorkerState]
      /\ \A v \in Workers : v # w => worker'[v] = worker[v]
  BY TaskEndsMoves
<1>b. /\ done' = done \cup {worker[w].task}
      /\ UNCHANGED <<tasks, tasks_running, paused, waiting, workers_running, thread_count,
                     client, submitted>>
  BY DEF TaskEnds
<1>1. Busy' = Busy
  BY <1>a, SameBusy
<1>2. RunningTasks' \cup done' = RunningTasks \cup done
  BY <1>b, TaskEndsMoves
<1>3. RunningCount' /\ QueueInv'
  BY <1>1, <1>2, <1>b DEF IInv, RunningCount, QueueInv
<1>4. TypeOK'
  <2>1. worker[w].task \in Task
    <3>1. worker[w].task \in 1 .. submitted - Len(tasks)
      BY TaskEndsMoves DEF IInv, QueueInv
    <3> QED  BY <3>1, LenProperties, BoundsAssumption DEF IInv, TypeOK, Task
  <2> QED  BY <2>1, <1>a, <1>b DEF IInv, TypeOK, Workers, Task
<1>5. WorkerInv'
  BY <1>a, <1>b DEF IInv, WorkerInv, At
<1>6. ClientInv' /\ DestroyInv'
  <2>1. ExitedStays
    BY <1>a DEF ExitedStays, At
  <2> QED  BY <2>1, <1>b, NoClientMoves DEF AllDone, PausedOrEmpty
<1> QED  BY <1>3, <1>4, <1>5, <1>6 DEF IInv
-----------------------------------------------------------------------------
(* What a step of a client does to the calls. *)

LEMMA Entered ==
  ASSUME IInv, NEW c \in Clients, NEW pc,
         pc \in {"detach_notify", "unpause_notify", "enter_wait", "wait_blocked", "wait_woken",
                 "stop", "stop_notify", "join", "create", "resume", "gone"},
         Enter(c, pc)
  PROVE  /\ client' \in [Clients -> ClientState]
         /\ client'[c].pc = pc /\ client'[c].goal = client[c].goal
         /\ \A d \in Clients : d # c => client'[d] = client[d]
  BY DEF Enter, IInv, TypeOK, ClientState

LEMMA Returned ==
  ASSUME IInv, NEW c \in Clients, Return(c)
  PROVE  /\ client' \in [Clients -> ClientState]
         /\ client'[c].pc = "free" /\ client'[c].goal = "wait"
         /\ \A d \in Clients : d # c => client'[d] = client[d]
  BY DEF Return, NoCall, Goals, IInv, TypeOK, ClientState

\* A call that does not destroy the pool.
LEMMA OtherCall ==
  ASSUME IInv, NEW c \in Clients, ~In(c, "gone"),
         \A d \in Clients : d # c => client'[d] = client[d],
         ExitedStays \/ c = Owner,
         c # Owner => client'[c].goal \notin {"reset", "destroy"} /\ client'[c].pc \notin Stopping,
         c = Owner => client'[c].goal # "destroy",
         client'[c].pc = "create" => \A w \in Workers : At(w, "exited")'
  PROVE  ClientInv' /\ DestroyInv'
<1>1. DestroyInv'
  <2>1. c # Owner => client[Owner].goal # "destroy"
    BY DEF IInv, DestroyInv
  <2> QED  BY <2>1, OwnerAssumption DEF DestroyInv
<1>2. ClientInv'
  <2> SUFFICES ASSUME NEW d \in Clients, d # c
               PROVE  /\ client'[d].goal \in {"reset", "destroy"} \/ client'[d].pc \in Stopping
                           => d = Owner
                      /\ In(d, "create")' => \A w \in Workers : At(w, "exited")'
    BY DEF ClientInv, In
  <2>1. client'[d] = client[d]
    OBVIOUS
  <2>2. client[d].goal \in {"reset", "destroy"} \/ client[d].pc \in Stopping => d = Owner
    BY DEF IInv, ClientInv
  <2>3. In(d, "create") => \A w \in Workers : At(w, "exited")
    BY DEF IInv, ClientInv
  <2> QED  BY <2>1, <2>2, <2>3 DEF In, Stopping, ExitedStays
<1> QED  BY <1>1, <1>2

\* A step of the destructor.
LEMMA Destroying ==
  ASSUME IInv, client[Owner].goal = "destroy", client'[Owner].goal = "destroy",
         \A d \in Clients : d # Owner => client'[d] = client[d],
         client'[Owner].pc \in {"enter_wait", "wait_blocked", "wait_woken",
                                "stop", "stop_notify", "join", "gone"},
         client'[Owner].pc \in {"stop", "stop_notify", "join", "gone"} => AllDone',
         client'[Owner].pc = "gone" => \A w \in Workers : At(w, "exited")'
  PROVE  ClientInv' /\ DestroyInv'
<1>1. \A d \in Clients \ {Owner} : client[d].pc = "gone" /\ client'[d] = client[d]
  BY DEF IInv, DestroyInv, In
<1>2. DestroyInv'
  BY <1>1 DEF DestroyInv, In
<1>3. ClientInv'
  BY <1>1 DEF IInv, ClientInv, In, Stopping
<1> QED  BY <1>2, <1>3

LEMMA NotOwner == ASSUME IInv, NEW c \in Clients, c # Owner, ~In(c, "gone")
                  PROVE  client[Owner].goal # "destroy"
  BY DEF IInv, DestroyInv

\* A notification, or a wait that ends by itself, moves clients from blocked to woken.
LEMMA ClientsWake ==
  ASSUME IInv, ExitedStays, AllDone => AllDone',
         \A c \in Clients :
            /\ client'[c].goal = client[c].goal
            /\ \/ client'[c].pc = client[c].pc
               \/ client[c].pc = "wait_blocked" /\ client'[c].pc = "wait_woken"
  PROVE  ClientInv' /\ DestroyInv'
<1>1. ClientInv'
  BY DEF IInv, ClientInv, In, Stopping, ExitedStays
<1>2. DestroyInv'
  BY OwnerAssumption DEF IInv, DestroyInv, In, ExitedStays
<1> QED  BY <1>1, <1>2

LEMMA NotifyDoneInv == ASSUME IInv, NEW w \in Workers, NotifyDone(w) PROVE IInv'
<1> USE DEF NotifyDone, Go, At
<1>a. worker \in [Workers -> WorkerState] /\ worker[w].pc = "check"
  BY DEF IInv, TypeOK
<1>b. /\ worker'[w].pc = "idle" /\ worker' \in [Workers -> WorkerState]
      /\ \A v \in Workers : v # w => worker'[v] = worker[v]
  BY <1>a DEF WorkerState
<1>c. /\ client' \in [Clients -> ClientState]
      /\ \A c \in Clients :
            /\ client'[c].goal = client[c].goal
            /\ \/ client'[c].pc = client[c].pc
               \/ client[c].pc = "wait_blocked" /\ client'[c].pc = "wait_woken"
  BY DEF WakeClients, IInv, TypeOK, ClientState
<1>1. TypeOK'
  BY <1>b, <1>c DEF IInv, TypeOK, Workers, Task
<1>2. ExitedStays
  BY <1>a, <1>b DEF ExitedStays
<1>3. RunningCount' /\ WorkerInv' /\ QueueInv'
  BY <1>a, <1>b, <1>2, NoTaskMoves
<1>4. ClientInv' /\ DestroyInv'
  BY <1>c, <1>2, ClientsWake DEF AllDone, PausedOrEmpty
<1> QED  BY <1>1, <1>3, <1>4 DEF IInv

LEMMA WorkerStepInv == ASSUME IInv, NEW w \in Workers, WorkerStep(w) PROVE IInv'
  BY ArriveInv, CheckInv, NotifyDoneInv, BlockInv, TakeInv, TaskEndsInv DEF WorkerStep
-----------------------------------------------------------------------------
(* The steps of a client. *)

\* A step that touches neither the workers nor the tasks.
LEMMA WorkersStay ==
  ASSUME IInv, UNCHANGED <<worker, tasks, tasks_running, thread_count, submitted, done>>
  PROVE  ExitedStays /\ RunningCount' /\ WorkerInv' /\ QueueInv'
<1>1. ExitedStays
  BY DEF ExitedStays, At
<1> QED  BY <1>1, NoTaskMoves DEF At

\* A notification lets blocked workers go on, in S; the others stay where they are.
LEMMA WorkersWake ==
  ASSUME IInv, NEW S \in SUBSET Wakeable, WakeWorkers(S),
         UNCHANGED <<tasks, tasks_running, thread_count, submitted, done>>
  PROVE  worker' \in [Workers -> WorkerState]
         /\ ExitedStays /\ RunningCount' /\ WorkerInv' /\ QueueInv'
<1>0. worker \in [Workers -> WorkerState]
  BY DEF IInv, TypeOK
<1>1. \A w \in Workers : /\ worker'[w].task = worker[w].task
                         /\ \/ worker'[w].pc = worker[w].pc
                            \/ worker[w].pc = "blocked" /\ worker'[w].pc = "idle"
  BY <1>0 DEF WakeWorkers, Wakeable, At, WorkerState
<1>2. worker' \in [Workers -> WorkerState]
  BY <1>0 DEF WakeWorkers, WorkerState
<1>3. ExitedStays
  BY <1>1 DEF ExitedStays, At
<1>4. RunningCount' /\ WorkerInv' /\ QueueInv'
  BY <1>1, <1>3, NoTaskMoves DEF At
<1> QED  BY <1>2, <1>3, <1>4

LEMMA DetachInv == ASSUME IInv, NEW c \in Clients, Detach(c) PROVE IInv'
<1> USE DEF Detach
<1>a. /\ tasks \in Seq(Task) /\ submitted \in Nat /\ submitted + 1 \in Task
      /\ Len(tasks) \in Nat /\ Len(tasks) <= submitted
  BY LenProperties, BoundsAssumption DEF IInv, TypeOK, QueueInv, Task
<1>b. /\ tasks' \in Seq(Task) /\ Len(tasks') = Len(tasks) + 1
      /\ \A i \in 1 .. Len(tasks) : tasks'[i] = tasks[i]
      /\ tasks'[Len(tasks) + 1] = submitted + 1
  BY <1>a, AppendProperties
<1>c. /\ client' \in [Clients -> ClientState]
      /\ client'[c].pc = "detach_notify" /\ client'[c].goal = client[c].goal
      /\ \A d \in Clients : d # c => client'[d] = client[d]
  BY Entered
<1>1. TypeOK'
  <2>1. submitted' \in 0 .. MaxTasks
    BY <1>a, BoundsAssumption
  <2> QED  BY <2>1, <1>b, <1>c DEF IInv, TypeOK, Workers, Task
<1>2. ExitedStays /\ RunningTasks' = RunningTasks /\ Busy' = Busy
  BY SameRunning, SameBusy DEF ExitedStays, At
<1>3. QueueInv'
  <2>1. Len(tasks') <= submitted' /\ submitted' - Len(tasks') = submitted - Len(tasks)
    BY <1>a, <1>b
  <2>2. \A i \in 1 .. Len(tasks') : tasks'[i] = submitted' - Len(tasks') + i
    <3> SUFFICES ASSUME NEW i \in 1 .. Len(tasks') PROVE tasks'[i] = submitted - Len(tasks) + i
      BY <2>1
    <3>1. CASE i \in 1 .. Len(tasks)
      BY <3>1, <1>b DEF IInv, QueueInv
    <3>2. CASE i = Len(tasks) + 1
      BY <3>2, <1>a, <1>b
    <3> QED  BY <3>1, <3>2, <1>a, <1>b
  <2>3. RunningTasks' \cup done' = 1 .. submitted' - Len(tasks')
    BY <2>1, <1>2 DEF IInv, QueueInv
  <2> QED  BY <2>1, <2>2, <2>3, Zenon DEF QueueInv
<1>4. RunningCount' /\ WorkerInv'
  BY <1>2 DEF IInv, RunningCount, WorkerInv, At
<1>5. ClientInv' /\ DestroyInv'
  BY <1>2, <1>c, OtherCall, OwnerAssumption DEF In, IInv, ClientInv, DestroyInv, Stopping
<1> QED  BY <1>1, <1>3, <1>4, <1>5 DEF IInv

\* The tasks that wait are the last ones.
LEMMA QueueRange == ASSUME IInv PROVE Range(tasks) = submitted - Len(tasks) + 1 .. submitted
<1>a. /\ tasks \in Seq(Task) /\ submitted \in Nat /\ Len(tasks) \in Nat
      /\ Len(tasks) <= submitted /\ DOMAIN tasks = 1 .. Len(tasks)
  BY LenProperties, BoundsAssumption DEF IInv, TypeOK, QueueInv
<1>1. \A i \in 1 .. Len(tasks) : tasks[i] = submitted - Len(tasks) + i
  BY DEF IInv, QueueInv
<1>2. \A t \in submitted - Len(tasks) + 1 .. submitted :
         \E i \in 1 .. Len(tasks) : t = submitted - Len(tasks) + i
  <2> TAKE t \in submitted - Len(tasks) + 1 .. submitted
  <2>1. t - (submitted - Len(tasks)) \in 1 .. Len(tasks)
    BY <1>a
  <2>2. t = submitted - Len(tasks) + (t - (submitted - Len(tasks)))
    BY <1>a
  <2> QED  BY <2>1, <2>2
<1>3. \A i \in 1 .. Len(tasks) :
         submitted - Len(tasks) + i \in submitted - Len(tasks) + 1 .. submitted
  BY <1>a
<1> QED  BY <1>a, <1>1, <1>2, <1>3 DEF Range

LEMMA PurgeInv == ASSUME IInv, NEW c \in Clients, Purge(c) PROVE IInv'
<1> USE DEF Purge
<1>a. /\ tasks \in Seq(Task) /\ submitted \in Nat /\ Len(tasks) \in Nat
      /\ Len(tasks) <= submitted /\ DOMAIN tasks = 1 .. Len(tasks)
  BY LenProperties, BoundsAssumption DEF IInv, TypeOK, QueueInv
<1>b. Range(tasks) = submitted - Len(tasks) + 1 .. submitted
  BY QueueRange
<1>1. TypeOK'
  <2>1. Range(tasks) \subseteq Task
    BY <1>a DEF Range
  <2> QED  BY <2>1, EmptySeq DEF IInv, TypeOK, Workers, Task
<1>2. ExitedStays /\ RunningTasks' = RunningTasks /\ Busy' = Busy
  BY SameRunning, SameBusy DEF ExitedStays, At
<1>3. QueueInv'
  <2>1. Len(tasks') = 0
    BY EmptySeq
  <2>2. RunningTasks' \cup done'
           = (1 .. submitted - Len(tasks)) \cup (submitted - Len(tasks) + 1 .. submitted)
    BY <1>2, <1>b DEF IInv, QueueInv
  <2>3. RunningTasks' \cup done' = 1 .. submitted' - Len(tasks')
    BY <2>1, <2>2, <1>a
  <2> QED  BY <2>1, <2>3, <1>a DEF QueueInv
<1>4. RunningCount' /\ WorkerInv'
  BY <1>2 DEF IInv, RunningCount, WorkerInv, At
<1>5. ClientInv' /\ DestroyInv'
  BY <1>2, OtherCall, OwnerAssumption DEF In, IInv, ClientInv, DestroyInv
<1> QED  BY <1>1, <1>3, <1>4, <1>5 DEF IInv

\* A client that is in no wait is not the destructor.
LEMMA NotDestroying ==
  ASSUME IInv, NEW c \in Clients,
         client[c].pc \in {"free", "detach_notify", "unpause_notify", "create", "resume"}
  PROVE  /\ c = Owner => client[c].goal # "destroy"
         /\ c # Owner => client[c].goal \notin {"reset", "destroy"} /\ client[c].pc \notin Stopping
  BY DEF IInv, ClientInv, DestroyInv

LEMMA SimpleCallInv ==
  ASSUME IInv, NEW c \in Clients, Pause(c) \/ Unpause(c) \/ Reset(c) \/ Resume(c) PROVE IInv'
<1>1. ExitedStays /\ RunningCount' /\ WorkerInv' /\ QueueInv'
  BY WorkersStay DEF Pause, Unpause, Reset, Resume
<1>a. client \in [Clients -> ClientState] /\ paused \in BOOLEAN
  BY DEF IInv, TypeOK
<1>2. /\ client' \in [Clients -> ClientState] /\ paused' \in BOOLEAN
      /\ \A d \in Clients : d # c => client'[d] = client[d]
      /\ client'[c].pc \in {"free", "unpause_notify", "enter_wait"}
      /\ \/ client'[c].goal \in {client[c].goal, "wait"}
         \/ c = Owner /\ client'[c].goal = "reset"
  <2>1. CASE Pause(c)
    BY <2>1, <1>a DEF Pause, In
  <2>2. CASE Unpause(c)
    BY <2>2, <1>a, Entered DEF Unpause
  <2>3. CASE Reset(c)
    BY <2>3, <1>a DEF Reset, In, ClientState, Goals
  <2>4. CASE Resume(c)
    BY <2>4, <1>a, Returned DEF Resume, ClientState
  <2> QED  BY <2>1, <2>2, <2>3, <2>4
<1>3. TypeOK'
  BY <1>2 DEF IInv, TypeOK, Pause, Unpause, Reset, Resume, Workers, Task
<1>b. client[c].pc \in {"free", "resume"}
  BY DEF Pause, Unpause, Reset, Resume, In
<1>4. ClientInv' /\ DestroyInv'
  BY <1>1, <1>2, <1>b, NotDestroying, OtherCall DEF In, Stopping
<1> QED  BY <1>1, <1>3, <1>4 DEF IInv

LEMMA NotifyInv ==
  ASSUME IInv, NEW c \in Clients, DetachNotify(c) \/ UnpauseNotify(c) PROVE IInv'
<1>a. /\ UNCHANGED <<tasks, tasks_running, paused, waiting, workers_running, thread_count,
                     submitted, done>>
      /\ client[c].pc \in {"detach_notify", "unpause_notify"}
      /\ Return(c)
  BY DEF DetachNotify, UnpauseNotify, In
<1>1. worker' \in [Workers -> WorkerState]
      /\ ExitedStays /\ RunningCount' /\ WorkerInv' /\ QueueInv'
  <2>1. CASE UNCHANGED worker
    BY <2>1, <1>a, WorkersStay DEF IInv, TypeOK
  <2>2. CASE \E S \in SUBSET Wakeable : WakeWorkers(S)
    BY <2>2, <1>a, WorkersWake
  <2> QED  BY <2>1, <2>2 DEF DetachNotify, UnpauseNotify
<1>2. TypeOK'
  BY <1>a, <1>1, Returned DEF IInv, TypeOK, Workers, Task
<1>3. ClientInv' /\ DestroyInv'
  BY <1>a, <1>1, Returned, NotDestroying, OtherCall DEF In, Stopping
<1> QED  BY <1>1, <1>2, <1>3 DEF IInv

LEMMA CallWaitInv == ASSUME IInv, NEW c \in Clients, CallWait(c) PROVE IInv'
<1> USE DEF CallWait
<1>a. client \in [Clients -> ClientState] /\ client[c].pc = "free"
  BY DEF IInv, TypeOK, In
<1>1. ExitedStays /\ RunningCount' /\ WorkerInv' /\ QueueInv'
  BY WorkersStay
<1>2. PICK goal \in {"wait", "wait_for", "destroy"} :
         /\ goal = "destroy" => c = Owner /\ \A d \in Clients : In(d, "free")
         /\ client' = [d \in Clients |->
              IF d = c THEN [client[d] EXCEPT !.pc = "enter_wait", !.goal = goal]
              ELSE IF goal = "destroy" THEN [client[d] EXCEPT !.pc = "gone"]
              ELSE client[d]]
  OBVIOUS
<1>3. TypeOK'
  <2>1. client' \in [Clients -> ClientState]
    BY <1>a, <1>2 DEF ClientState, Goals
  <2> QED  BY <2>1 DEF IInv, TypeOK, Workers, Task
<1>b. client'[c].pc = "enter_wait" /\ client'[c].goal = goal
  BY <1>a, <1>2 DEF ClientState
<1>4. ClientInv' /\ DestroyInv'
  <2>1. CASE goal = "destroy"
    <3>o. c = Owner
      BY <1>2, <2>1
    <3> HIDE DEF CallWait
    <3>1. ASSUME NEW d \in Clients \ {Owner}
          PROVE  client'[d].pc = "gone" /\ client'[d].goal = client[d].goal
      <4>1. client'[d] = [client[d] EXCEPT !.pc = "gone"]
        BY <1>2, <2>1, <3>o
      <4>2. client[d] \in ClientState
        BY <1>a
      <4> QED  BY <4>1, <4>2 DEF ClientState
    <3>2. \A d \in Clients \ {Owner} : client[d].goal \notin {"reset", "destroy"}
      BY DEF IInv, ClientInv
    <3>3. DestroyInv'
      BY <1>b, <2>1, <3>o, <3>1 DEF DestroyInv, In
    <3>4. ClientInv'
      BY <1>b, <2>1, <3>o, <3>1, <3>2 DEF ClientInv, In, Stopping
    <3> QED  BY <3>3, <3>4
  <2>2. CASE goal # "destroy"
    <3>1. \A d \in Clients : d # c => client'[d] = client[d]
      BY <1>2, <2>2
    <3>2. /\ client'[c].pc \notin Stopping /\ client'[c].pc # "create" /\ ~In(c, "gone")
          /\ client'[c].goal \notin {"reset", "destroy"}
      BY <1>a, <1>b, <2>2 DEF In, Stopping
    <3> HIDE DEF CallWait
    <3> QED  BY <1>1, <3>1, <3>2, OtherCall
  <2> QED  BY <2>1, <2>2
<1> QED  BY <1>1, <1>3, <1>4 DEF IInv

LEMMA EvaluateWaitInv ==
  ASSUME IInv, NEW c \in Clients, EvaluateWait(c) \/ WaitTimesOut(c) PROVE IInv'
<1>a. /\ UNCHANGED <<tasks, tasks_running, paused, workers_running, thread_count, worker,
                     submitted, done>>
      /\ client[c].pc \in {"enter_wait", "wait_blocked", "wait_woken"}
      /\ waiting \in BOOLEAN /\ waiting' \in BOOLEAN
      /\ \/ Enter(c, "wait_blocked")
         \/ AllDone /\ client[c].goal \in {"reset", "destroy"} /\ Enter(c, "stop")
         \/ client[c].goal \notin {"reset", "destroy"} /\ Return(c)
  BY DEF EvaluateWait, WaitTimesOut, AfterWait, IInv, TypeOK, In
<1>1. ExitedStays /\ RunningCount' /\ WorkerInv' /\ QueueInv'
  BY <1>a, WorkersStay
<1>b. /\ client' \in [Clients -> ClientState]
      /\ \A d \in Clients : d # c => client'[d] = client[d]
      /\ \/ client'[c].pc = "wait_blocked" /\ client'[c].goal = client[c].goal
         \/ /\ AllDone /\ client[c].goal \in {"reset", "destroy"}
            /\ client'[c].pc = "stop" /\ client'[c].goal = client[c].goal
         \/ /\ client[c].goal \notin {"reset", "destroy"}
            /\ client'[c].pc = "free" /\ client'[c].goal = "wait"
  BY <1>a, Entered, Returned
<1>2. TypeOK'
  BY <1>a, <1>b DEF IInv, TypeOK, Workers, Task
<1>3. ClientInv' /\ DestroyInv'
  <2>1. c # Owner => client[c].goal \notin {"reset", "destroy"}
    BY DEF IInv, ClientInv
  <2>2. AllDone => AllDone'
    BY <1>a DEF AllDone, PausedOrEmpty
  <2>3. CASE c = Owner /\ client[c].goal = "destroy"
    BY <1>b, <2>2, <2>3, Destroying
  <2>4. CASE ~(c = Owner /\ client[c].goal = "destroy")
    BY <1>1, <1>a, <1>b, <2>1, <2>4, OtherCall DEF In, Stopping
  <2> QED  BY <2>3, <2>4
<1> QED  BY <1>1, <1>2, <1>3 DEF IInv

LEMMA StopInv ==
  ASSUME IInv, NEW c \in Clients, Stop(c) \/ StopNotify(c) \/ Join(c) PROVE IInv'
<1>a. /\ UNCHANGED <<tasks, tasks_running, paused, waiting, thread_count, submitted, done>>
      /\ workers_running \in BOOLEAN /\ workers_running' \in BOOLEAN
      /\ client[c].pc \in {"stop", "stop_notify", "join"}
      /\ \/ Enter(c, "stop_notify")
         \/ Enter(c, "join")
         \/ client[c].goal = "reset" /\ Enter(c, "create")
         \/ client[c].goal # "reset" /\ Enter(c, "gone")
  BY DEF Stop, StopNotify, Join, In, IInv, TypeOK
<1>1. worker' \in [Workers -> WorkerState]
      /\ ExitedStays /\ RunningCount' /\ WorkerInv' /\ QueueInv'
  <2>1. CASE UNCHANGED worker
    BY <2>1, <1>a, WorkersStay DEF IInv, TypeOK
  <2>2. CASE WakeWorkers(Wakeable)
    BY <2>2, <1>a, WorkersWake
  <2> QED  BY <2>1, <2>2 DEF Stop, StopNotify, Join
<1>b. c = Owner
  BY <1>a DEF IInv, ClientInv, Stopping
<1>c. /\ client' \in [Clients -> ClientState]
      /\ \A d \in Clients : d # c => client'[d] = client[d]
      /\ client'[c].goal = client[c].goal
      /\ \/ client'[c].pc \in {"stop_notify", "join"}
         \/ client[c].goal = "reset" /\ client'[c].pc = "create"
         \/ client[c].goal # "reset" /\ client'[c].pc = "gone"
  BY <1>a, Entered
<1>d. client'[c].pc \in {"create", "gone"} => \A w \in Workers : At(w, "exited")'
  <2>1. client'[c].pc \in {"create", "gone"} => Join(c)
    BY Entered DEF Stop, StopNotify, Join
  <2> QED  BY <2>1 DEF Join, At
<1>2. TypeOK'
  BY <1>a, <1>1, <1>c DEF IInv, TypeOK, Workers, Task
<1>3. ClientInv' /\ DestroyInv'
  <2>1. CASE client[c].goal = "destroy"
    <3>1. AllDone'
      BY <1>a, <1>b, <2>1 DEF IInv, DestroyInv, AllDone, PausedOrEmpty
    <3> QED  BY <1>b, <1>c, <1>d, <2>1, <3>1, Destroying
  <2>2. CASE client[c].goal # "destroy"
    BY <1>a, <1>b, <1>c, <1>d, <2>2, OtherCall DEF In
  <2> QED  BY <2>1, <2>2
<1> QED  BY <1>1, <1>2, <1>3 DEF IInv

\* The new threads: the old ones have gone, so no task runs.
LEMMA CreateInv == ASSUME IInv, NEW c \in Clients, Create(c) PROVE IInv'
<1> USE DEF Create
<1>a. c = Owner /\ client[c].pc = "create" /\ \A w \in Workers : At(w, "exited")
  BY DEF IInv, ClientInv, Stopping, In
<1>b. PICK n \in ThreadCounts : thread_count' = n /\ tasks_running' = n /\ worker' = NewWorkers(n)
  OBVIOUS
<1>n. n \in 1 .. MaxThreads
  BY CountsAssumption
<1>0. Busy' = 1 .. n
  BY <1>b, <1>n, ThreadsAssumption DEF Busy, NewWorkers, Workers
<1>1. RunningCount'
  BY <1>0, <1>b, <1>n, ThreadsAssumption, FS_Interval DEF RunningCount
<1>c. /\ client' \in [Clients -> ClientState]
      /\ client'[c].pc = "resume" /\ client'[c].goal = client[c].goal
      /\ \A d \in Clients : d # c => client'[d] = client[d]
  BY Entered
<1>2. TypeOK'
  <2>1. tasks_running' \in 0 .. Cardinality(Workers)
    BY <1>b, <1>n, BusyFinite, ThreadsAssumption
  <2>2. worker' \in [Workers -> WorkerState]
    BY <1>b DEF NewWorkers, WorkerState
  <2> QED  BY <1>b, <1>c, <2>1, <2>2 DEF IInv, TypeOK, Workers, Task
<1>3. WorkerInv'
  BY <1>b, <1>n, ThreadsAssumption DEF WorkerInv, NewWorkers, At, Workers
<1>4. QueueInv'
  <2>1. RunningTasks = {} /\ RunningTasks' = {}
    BY <1>a, <1>b DEF RunningTasks, NewWorkers, At
  <2> QED  BY <2>1 DEF IInv, QueueInv
<1>5. ClientInv' /\ DestroyInv'
  BY <1>a, <1>c, NotDestroying, OtherCall DEF In
<1> QED  BY <1>1, <1>2, <1>3, <1>4, <1>5 DEF IInv

LEMMA WakeAloneInv == ASSUME IInv, WakeAlone PROVE IInv'
<1> USE DEF WakeAlone
<1>1. CASE \E w \in Wakeable : WakeWorkers({w}) /\ UNCHANGED client
  <2>1. worker' \in [Workers -> WorkerState]
        /\ ExitedStays /\ RunningCount' /\ WorkerInv' /\ QueueInv'
    BY <1>1, WorkersWake
  <2>2. TypeOK'
    BY <1>1, <2>1 DEF IInv, TypeOK, Workers, Task
  <2>3. ClientInv' /\ DestroyInv'
    BY <1>1, <2>1, NoClientMoves DEF AllDone, PausedOrEmpty
  <2> QED  BY <2>1, <2>2, <2>3 DEF IInv
<1>2. CASE \E c \in Clients : In(c, "wait_blocked") /\ Enter(c, "wait_woken") /\ UNCHANGED worker
  <2>1. PICK c \in Clients : In(c, "wait_blocked") /\ Enter(c, "wait_woken") /\ UNCHANGED worker
    BY <1>2
  <2>2. ExitedStays /\ RunningCount' /\ WorkerInv' /\ QueueInv'
    BY <2>1, WorkersStay
  <2>3. TypeOK'
    BY <2>1, Entered DEF IInv, TypeOK, Workers, Task
  <2>4. ClientInv' /\ DestroyInv'
    BY <2>1, <2>2, Entered, ClientsWake DEF AllDone, PausedOrEmpty, In
  <2> QED  BY <2>2, <2>3, <2>4 DEF IInv
<1> QED  BY <1>1, <1>2

LEMMA UnchangedInv == ASSUME IInv, UNCHANGED vars PROVE IInv'
<1> USE DEF vars
<1>1. ExitedStays /\ RunningCount' /\ WorkerInv' /\ QueueInv'
  BY WorkersStay
<1>2. TypeOK'
  BY DEF IInv, TypeOK, Workers, Task
<1>3. ClientInv' /\ DestroyInv'
  BY <1>1, NoClientMoves DEF AllDone, PausedOrEmpty
<1> QED  BY <1>1, <1>2, <1>3 DEF IInv

LEMMA NextInv == IInv /\ [Next]_vars => IInv'
<1> SUFFICES ASSUME IInv, [Next]_vars PROVE IInv'
  OBVIOUS
<1>1. CASE \E w \in Workers : WorkerStep(w)
  BY <1>1, WorkerStepInv
<1>2. ASSUME NEW c \in Clients, Call(c) PROVE IInv'
  BY <1>2, DetachInv, SimpleCallInv, PurgeInv, CallWaitInv DEF Call
<1>3. ASSUME NEW c \in Clients, GoOn(c) \/ WaitTimesOut(c) PROVE IInv'
  BY <1>3, NotifyInv, EvaluateWaitInv, StopInv, CreateInv, SimpleCallInv DEF GoOn
<1>4. CASE WakeAlone \/ Destroyed \/ UNCHANGED vars
  BY <1>4, WakeAloneInv, UnchangedInv DEF Destroyed
<1> QED  BY <1>1, <1>2, <1>3, <1>4 DEF Next

LEMMA Invariance == Spec => []IInv
<1> QED  BY InitInv, NextInv, PTL DEF Spec
-----------------------------------------------------------------------------
(* What follows from the invariant. *)

\* Type correctness of the pool, for any number of threads, clients and tasks.
THEOREM TypeCorrect == Spec => []TypeOK
  BY Invariance, PTL DEF IInv

\* tasks_running (lines 861, 915 and 935 of the header) is the number of threads that run
\* a task or have not arrived at the loop yet, whatever is purged, paused and reset.
THEOREM RunningCounted == Spec => []RunningCount
  BY Invariance, PTL DEF IInv

\* Nothing runs and the queue is empty or held by the pause: all that was submitted has
\* ended, or waits in the paused pool.
LEMMA DoneSettles == ASSUME IInv, AllDone PROVE AllSettled
<1>1. RunningTasks = {}
  BY NothingRuns DEF AllDone, Busy, RunningTasks, At
<1>2. done = 1 .. submitted - Len(tasks)
  BY <1>1 DEF IInv, QueueInv
<1>3. CASE paused
  <2>1. (1 .. submitted - Len(tasks)) \cup (submitted - Len(tasks) + 1 .. submitted)
           = 1 .. submitted
    BY LenProperties, BoundsAssumption DEF IInv, TypeOK, QueueInv
  <2> QED  BY <1>2, <1>3, <2>1, QueueRange DEF AllSettled
<1>4. CASE ~paused
  <2>1. Len(tasks) = 0
    BY <1>4, EmptySeq DEF AllDone, PausedOrEmpty
  <2>2. done = 1 .. submitted
    BY <1>2, <2>1, BoundsAssumption DEF IInv, TypeOK
  <2> QED  BY <1>4, <2>2 DEF AllSettled
<1> QED  BY <1>3, <1>4

\* The destructor (line 334 of the header) leaves no thread behind and no task unrun,
\* except those that a paused pool keeps in its queue.
THEOREM DestructorRuns == Spec => []DestructorRunsTasks
<1>1. IInv => DestructorRunsTasks
  <2> SUFFICES ASSUME IInv, NEW c \in Clients, In(c, "gone"), client[c].goal = "destroy"
               PROVE  (\A w \in Workers : At(w, "exited")) /\ AllSettled
    BY DEF DestructorRunsTasks
  <2>1. c = Owner
    BY DEF IInv, ClientInv
  <2>2. AllDone /\ \A w \in Workers : At(w, "exited")
    BY <2>1 DEF IInv, DestroyInv, In
  <2> QED  BY <2>2, DoneSettles
<1> QED  BY <1>1, Invariance, PTL

\* Only the evaluation of its predicate, or the end of its time, takes a client out of a wait.
LEMMA WaitEnds ==
  ASSUME IInv, [Next]_vars, NEW c \in Clients,
         client[c].pc \in {"enter_wait", "wait_woken"}, client'[c].pc \in {"free", "stop"}
  PROVE  EvaluateWait(c) \/ WaitTimesOut(c)
<1>0. client[c] # client'[c] /\ client[c].pc # "free" /\ client[c].pc # "wait_blocked"
  OBVIOUS
<1>1. ASSUME NEW w \in Workers, WorkerStep(w) PROVE FALSE
  <2>1. UNCHANGED client \/ NotifyDone(w)
    BY <1>1 DEF WorkerStep, Arrive, Check, Block, Take, TaskEnds, Exit
  <2>2. NotifyDone(w) => client'[c] = client[c]
    BY <1>0 DEF NotifyDone, WakeClients, IInv, TypeOK, ClientState
  <2> QED  BY <1>0, <2>1, <2>2
<1>2. ASSUME NEW d \in Clients, Call(d) PROVE FALSE
  <2>1. d # c
    BY <1>0, <1>2 DEF Call, Detach, Pause, Unpause, Purge, CallWait, Reset, In
  <2>2. CASE CallWait(d)
    BY <1>0, <2>1, <2>2 DEF CallWait, In
  <2>3. CASE ~CallWait(d)
    BY <1>0, <1>2, <2>1, <2>3
    DEF Call, Detach, Pause, Unpause, Purge, Reset, Enter, IInv, TypeOK
  <2> QED  BY <2>2, <2>3
<1>3. ASSUME NEW d \in Clients, d # c, GoOn(d) \/ WaitTimesOut(d) PROVE FALSE
  BY <1>0, <1>3 DEF GoOn, WaitTimesOut, DetachNotify, UnpauseNotify, EvaluateWait, AfterWait,
     Stop, StopNotify, Join, Create, Resume, Enter, Return, IInv, TypeOK
<1>4. CASE GoOn(c) \/ WaitTimesOut(c)
  BY <1>4 DEF GoOn, DetachNotify, UnpauseNotify, Stop, StopNotify, Join, Create, Resume, In
<1>5. CASE WakeAlone \/ Destroyed \/ UNCHANGED vars
  BY <1>0, <1>5 DEF WakeAlone, Destroyed, vars, Enter, In, IInv, TypeOK
<1> QED  BY <1>1, <1>2, <1>3, <1>4, <1>5 DEF Next

\* wait (line 761 of the header), the reset and the destructor go on only when every
\* task submitted before has ended, was purged, or is held by a pause.
THEOREM WaitIsDone == Spec => WaitMeansDone
<1>1. ASSUME IInv, [Next]_vars, NEW c \in Clients,
             client[c].pc \in {"enter_wait", "wait_woken"}, client'[c].pc \in {"free", "stop"},
             client[c].goal # "wait_for"
      PROVE  AllSettled
  <2>1. EvaluateWait(c)
    BY <1>1, WaitEnds DEF WaitTimesOut
  <2>2. AllDone
    BY <1>1, <2>1, Entered DEF EvaluateWait
  <2> QED  BY <1>1, <2>2, DoneSettles
<1>2. IInv /\ [Next]_vars =>
        [\A c \in Clients :
            /\ client[c].pc \in {"enter_wait", "wait_woken"} /\ client'[c].pc \in {"free", "stop"}
            /\ client[c].goal # "wait_for"
            => AllSettled]_vars
  BY <1>1
<1> QED  BY <1>2, Invariance, PTL DEF Spec, WaitMeansDone
-----------------------------------------------------------------------------
(* The pool implements TaskPool. *)

LEMMA UpTo == \A n \in Nat : Cardinality(1 .. n) = n
  BY FS_Interval

\* TaskPool counts as the pool does.
LEMMA SameCardinality == \A S : Pool!Cardinality(S) = Cardinality(S)
  BY Zenon DEF Pool!Cardinality, Cardinality

\* A worker that is about to take a task leaves one thread less for those that run.
LEMMA RoomToStart ==
  ASSUME IInv, NEW w \in Workers, At(w, "idle")
  PROVE  Cardinality(RunningTasks) < thread_count
<1> DEFINE R == {v \in Workers : At(v, "run")}
           W == 1 .. thread_count
           f == [v \in R |-> worker[v].task]
<1>n. thread_count \in 1 .. MaxThreads /\ thread_count \in Nat
  BY CountsAssumption, ThreadsAssumption DEF IInv, TypeOK
<1>1. w \in W /\ R \subseteq W \ {w}
  BY <1>n, ThreadsAssumption DEF IInv, WorkerInv, Workers, At
<1>2. IsFiniteSet(W) /\ Cardinality(W) = thread_count
  BY <1>n, FS_Interval
<1>3. IsFiniteSet(W \ {w}) /\ Cardinality(W \ {w}) = thread_count - 1
  BY <1>1, <1>2, FS_RemoveElement
<1>4. IsFiniteSet(R) /\ Cardinality(R) <= thread_count - 1
  BY <1>1, <1>3, FS_Subset
<1>5. f \in Surjection(R, RunningTasks)
  BY DEF Surjection, RunningTasks
<1> HIDE DEF R, f
<1>6. Cardinality(RunningTasks) <= Cardinality(R) /\ IsFiniteSet(RunningTasks)
  BY <1>4, <1>5, FS_Surjection
<1> QED  BY <1>n, <1>4, <1>6, FS_CardinalityType

LEMMA BeginsAsPool == Init => Pool!Begin
<1> SUFFICES ASSUME Init PROVE Pool!Begin
  OBVIOUS
<1>1. RunningTasks = {}
  BY DEF Init, RunningTasks, NewWorkers, At
<1>2. thread_count \in Nat \ {0}
  BY CountsAssumption, ThreadsAssumption DEF Init
<1> QED  BY <1>1, <1>2 DEF Init, Pool!Begin, RunningTasks

\* The steps that say nothing to TaskPool.
LEMMA Stutters ==
  ASSUME IInv, UNCHANGED <<tasks, done, thread_count>>,
         \A w \in Workers : At(w, "run")' <=> At(w, "run"),
         \A w \in Workers : At(w, "run") => worker'[w].task = worker[w].task
  PROVE  UNCHANGED Pool!poolVars
<1>1. RunningTasks' = RunningTasks
  BY SameRunning, Zenon
<1> QED  BY <1>1 DEF Pool!poolVars, RunningTasks

PoolStep == Pool!Submit \/ Pool!Start \/ Pool!End \/ Pool!Drop \/ Pool!Resize

LEMMA TakeStarts == ASSUME IInv, NEW w \in Workers, Take(w) PROVE Pool!Start
<1>1. Cardinality(RunningTasks) < thread_count
  BY RoomToStart DEF Take
<1>2. RunningTasks' = RunningTasks \cup {Head(tasks)}
  BY TakeMoves
<1>3. tasks # << >> /\ tasks' = Tail(tasks) /\ UNCHANGED <<done, thread_count>>
  BY DEF Take, PausedOrEmpty
<1> QED  BY <1>1, <1>2, <1>3, SameCardinality DEF Pool!Start, RunningTasks

LEMMA TaskEndsEnds == ASSUME IInv, NEW w \in Workers, TaskEnds(w) PROVE Pool!End
<1>1. /\ worker[w].task \in RunningTasks
      /\ RunningTasks' = RunningTasks \ {worker[w].task}
  BY TaskEndsMoves
<1>2. done' = done \cup {worker[w].task} /\ UNCHANGED <<tasks, thread_count>>
  BY DEF TaskEnds
<1> QED  BY <1>1, <1>2 DEF Pool!End, RunningTasks

LEMMA DetachSubmits == ASSUME IInv, NEW c \in Clients, Detach(c) PROVE Pool!Submit
<1>1. RunningTasks' = RunningTasks /\ RunningTasks \cup done = 1 .. submitted - Len(tasks)
  BY SameRunning DEF Detach, At, IInv, QueueInv
<1>2. /\ submitted \in Nat /\ Len(tasks) \in Nat
      /\ submitted - Len(tasks) \in Nat
  BY LenProperties, BoundsAssumption DEF IInv, TypeOK, QueueInv
<1>3. Cardinality(RunningTasks \cup done) = submitted - Len(tasks)
  BY <1>1, <1>2, UpTo
<1>4. submitted + 1 = Len(tasks) + Cardinality(RunningTasks \cup done) + 1
  BY <1>2, <1>3
<1>5. tasks' = Append(tasks, submitted + 1) /\ UNCHANGED <<done, thread_count>>
  BY DEF Detach
<1> QED  BY <1>1, <1>4, <1>5, SameCardinality DEF Pool!Submit, RunningTasks

LEMMA PurgeDrops == ASSUME IInv, NEW c \in Clients, Purge(c) PROVE Pool!Drop
<1>1. RunningTasks' = RunningTasks
  BY SameRunning DEF Purge, At
<1> QED  BY <1>1 DEF Purge, Pool!Drop, RunningTasks, Range, Pool!Range

LEMMA CreateResizes == ASSUME IInv, NEW c \in Clients, Create(c) PROVE Pool!Resize
<1>1. \A w \in Workers : At(w, "exited")
  BY DEF Create, IInv, ClientInv
<1>2. RunningTasks = {} /\ RunningTasks' = {}
  BY <1>1 DEF Create, RunningTasks, NewWorkers, At
<1>3. thread_count' \in Nat \ {0}
  BY CountsAssumption, ThreadsAssumption DEF Create
<1> QED  BY <1>2, <1>3 DEF Create, Pool!Resize, RunningTasks

LEMMA WakeStutters ==
  ASSUME IInv, NEW S \in SUBSET Wakeable, WakeWorkers(S), UNCHANGED <<tasks, done, thread_count>>
  PROVE  UNCHANGED Pool!poolVars
<1>1. \A w \in Workers : /\ worker'[w].pc = "run" <=> worker[w].pc = "run"
                         /\ worker'[w].task = worker[w].task
  BY DEF WakeWorkers, Wakeable, At, WorkerState, IInv, TypeOK
<1> QED  BY <1>1, Stutters DEF At

\* The steps of a worker that has no task.
LEMMA StaysIdle ==
  ASSUME IInv, NEW w \in Workers,
         Arrive(w) \/ (\E r \in Reads : Check(w, r)) \/ NotifyDone(w) \/ Block(w) \/ Exit(w)
  PROVE  /\ UNCHANGED <<tasks, done, thread_count>>
         /\ \A v \in Workers : v # w => worker'[v] = worker[v]
         /\ worker[w].pc # "run" /\ worker'[w].pc # "run"
<1>a. worker \in [Workers -> WorkerState]
  BY DEF IInv, TypeOK
<1>1. CASE Arrive(w)
  BY <1>1, <1>a DEF Arrive, At
<1>2. CASE \E r \in Reads : Check(w, r)
  <2>1. PICK r \in Reads : Check(w, r)
    BY <1>2
  <2>2. \E pc \in {"check", "idle"}, unread \in SUBSET Reads :
           worker' = [worker EXCEPT ![w].pc = pc, ![w].unread = unread]
    BY <2>1, CheckMoves
  <2> QED  BY <2>1, <2>2, <1>a DEF Check, At, WorkerState
<1>3. CASE NotifyDone(w) \/ Block(w) \/ Exit(w)
  BY <1>3, <1>a DEF NotifyDone, Block, Exit, Go, At, WorkerState
<1> QED  BY <1>1, <1>2, <1>3

LEMMA StepsAsPool == ASSUME IInv, [Next]_vars PROVE [PoolStep]_(Pool!poolVars)
<1>1. ASSUME NEW w \in Workers, WorkerStep(w) PROVE [PoolStep]_(Pool!poolVars)
  <2>1. CASE Take(w) \/ TaskEnds(w)
    BY <2>1, TakeStarts, TaskEndsEnds DEF PoolStep
  <2>2. CASE Arrive(w) \/ (\E r \in Reads : Check(w, r)) \/ NotifyDone(w) \/ Block(w) \/ Exit(w)
    <3>1. /\ UNCHANGED <<tasks, done, thread_count>>
          /\ \A v \in Workers : v # w => worker'[v] = worker[v]
          /\ worker[w].pc # "run" /\ worker'[w].pc # "run"
      BY <2>2, StaysIdle
    <3> QED  BY <3>1, Stutters DEF At
  <2> QED  BY <1>1, <2>1, <2>2 DEF WorkerStep
<1>2. ASSUME NEW c \in Clients, Call(c) PROVE [PoolStep]_(Pool!poolVars)
  <2>1. CASE Detach(c) \/ Purge(c)
    BY <2>1, DetachSubmits, PurgeDrops DEF PoolStep
  <2>2. CASE Pause(c) \/ Unpause(c) \/ CallWait(c) \/ Reset(c)
    <3>1. UNCHANGED <<worker, tasks, done, thread_count>>
      BY <2>2 DEF Pause, Unpause, CallWait, Reset
    <3> QED  BY <3>1, Stutters DEF At
  <2> QED  BY <1>2, <2>1, <2>2 DEF Call
<1>3. ASSUME NEW c \in Clients, GoOn(c) \/ WaitTimesOut(c) PROVE [PoolStep]_(Pool!poolVars)
  <2>1. CASE Create(c)
    BY <2>1, CreateResizes DEF PoolStep
  <2>2. CASE DetachNotify(c) \/ UnpauseNotify(c) \/ StopNotify(c)
    <3>1. UNCHANGED <<tasks, done, thread_count>>
      BY <2>2 DEF DetachNotify, UnpauseNotify, StopNotify
    <3>2. UNCHANGED worker \/ \E S \in SUBSET Wakeable : WakeWorkers(S)
      BY <2>2 DEF DetachNotify, UnpauseNotify, StopNotify
    <3> QED  BY <3>1, <3>2, Stutters, WakeStutters DEF At
  <2>3. CASE EvaluateWait(c) \/ Stop(c) \/ Join(c) \/ Resume(c) \/ WaitTimesOut(c)
    <3>1. UNCHANGED <<worker, tasks, done, thread_count>>
      BY <2>3 DEF EvaluateWait, Stop, Join, Resume, WaitTimesOut
    <3> QED  BY <3>1, Stutters DEF At
  <2> QED  BY <1>3, <2>1, <2>2, <2>3 DEF GoOn
<1>4. CASE WakeAlone \/ Destroyed \/ UNCHANGED vars
  <2>1. UNCHANGED <<tasks, done, thread_count>>
    BY <1>4 DEF WakeAlone, Destroyed, vars
  <2>2. UNCHANGED worker \/ \E S \in SUBSET Wakeable : WakeWorkers(S)
    BY <1>4 DEF WakeAlone, Destroyed, vars
  <2> QED  BY <2>1, <2>2, Stutters, WakeStutters DEF At
<1> QED  BY <1>1, <1>2, <1>3, <1>4 DEF Next

\* Every step of the pool is a step of TaskPool or none: tasks start in the order of
\* detach_task, each one once, never more of them than threads, and only purge drops any.
THEOREM PoolImplements == Spec => ImplementsTaskPool
<1>1. IInv /\ [Next]_vars => [PoolStep]_(Pool!poolVars)
  BY StepsAsPool
<1> QED  BY <1>1, BeginsAsPool, Invariance, PTL
         DEF Spec, ImplementsTaskPool, Pool!PoolSpec, PoolStep
=============================================================================
