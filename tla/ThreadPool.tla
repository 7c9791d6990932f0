----------------------------- MODULE ThreadPool -----------------------------
(***************************************************************************)
(* BS::thread_pool (TestBS/BS_thread_pool.hpp, built with pausing enabled   *)
(* as test.cpp does): worker threads that take tasks from a queue, and      *)
(* client threads that submit, wait, pause, purge, reset and destroy.       *)
(*                                                                         *)
(* A section under tasks_mutex is one action.  What the code does after it  *)
(* has released the mutex is an action of its own: the notifications, and   *)
(* the test with which a worker decides to notify the clients, which reads  *)
(* the variables without the mutex.  A thread blocked on a condition variable *)
(* may wake up without a notification, but need not.                        *)
(***************************************************************************)
EXTENDS Integers, Sequences, FiniteSets, Functions

CONSTANTS
    MaxThreads,    \* bound: the largest number of threads
    ThreadCounts,  \* the thread counts a client may ask for
    Clients,       \* threads that call the pool
    Owner,         \* the client that resets and destroys it
    MaxTasks,      \* bound: tasks submitted
    Resets         \* whether the owner calls reset

ASSUME ThreadsAssumption == MaxThreads \in Nat \ {0}
ASSUME CountsAssumption == ThreadCounts \subseteq 1 .. MaxThreads /\ ThreadCounts # {}
ASSUME OwnerAssumption == Owner \in Clients
ASSUME BoundsAssumption == MaxTasks \in Nat /\ Resets \in BOOLEAN

VARIABLES
    tasks,            \* the queue of tasks, each a number in the order of submission
    tasks_running,
    paused,
    waiting,
    workers_running,
    thread_count,
    worker,           \* worker[w]: where the thread is, its task, the reads to come
    client,           \* client[c]: where the call is, and what it keeps
    submitted,        \* number of tasks submitted so far
    done              \* the tasks that have ended or were purged

vars == <<tasks, tasks_running, paused, waiting, workers_running, thread_count,
          worker, client, submitted, done>>

Workers == 1 .. MaxThreads     \* the slots of the array of threads
Reads == {"waiting", "tasks_running", "paused", "empty"}
Task == 1 .. MaxTasks
NoTask == 0

WorkerState == [pc : {"init", "check", "idle", "blocked", "run", "finish", "exited"},
                task : Task \cup {NoTask}, unread : SUBSET Reads]

\* What a call of wait is part of: wait itself, wait_for or wait_until, the reset
\* and the destructor.
Goals == {"wait", "wait_for", "reset", "destroy"}
ClientState == [pc : {"free", "detach_notify", "unpause_notify", "enter_wait", "wait_blocked",
                      "wait_woken", "stop", "stop_notify", "join", "create", "resume", "gone"},
                goal : Goals, was_paused : BOOLEAN]

\* Type invariant.
TypeOK ==
    /\ tasks \in Seq(Task)
    /\ tasks_running \in 0 .. Cardinality(Workers)
    /\ paused \in BOOLEAN /\ waiting \in BOOLEAN /\ workers_running \in BOOLEAN
    /\ thread_count \in ThreadCounts
    /\ worker \in [Workers -> WorkerState]
    /\ client \in [Clients -> ClientState]
    /\ submitted \in 0 .. MaxTasks
    /\ done \subseteq Task

NoCall == [pc |-> "free", goal |-> "wait", was_paused |-> FALSE]

NewWorkers(n) == [w \in Workers |-> [pc |-> IF w <= n THEN "init" ELSE "exited",
                                     task |-> NoTask, unread |-> {}]]

\* The constructor has run: create_threads has counted every thread as running.
Init ==
    /\ tasks = << >>
    /\ thread_count \in ThreadCounts
    /\ tasks_running = thread_count
    /\ paused = FALSE /\ waiting = FALSE /\ workers_running = TRUE
    /\ worker = NewWorkers(thread_count)
    /\ client = [c \in Clients |-> NoCall]
    /\ submitted = 0
    /\ done = {}

PausedOrEmpty == paused \/ tasks = << >>

\* Mutant: the queue is forgotten.
RunningDone == tasks_running = 0

\* Mutant: the tasks that run are forgotten.
QueueDone == PausedOrEmpty

\* The predicate of tasks_done_cv.
AllDone == tasks_running = 0 /\ PausedOrEmpty
-----------------------------------------------------------------------------
(***************************************************************************)
(* worker                                                                   *)
(***************************************************************************)
At(w, pc) == worker[w].pc = pc
Go(w, pc) == worker' = [worker EXCEPT ![w].pc = pc]

\* After init_task, and after every task: --tasks_running under the mutex.
Arrive(w) ==
    /\ At(w, "init") \/ At(w, "finish")
    /\ tasks_running' = tasks_running - 1
    /\ worker' = [worker EXCEPT ![w] = [pc |-> "check", task |-> NoTask, unread |-> Reads]]
    /\ UNCHANGED <<tasks, paused, waiting, workers_running, thread_count, client, submitted, done>>

ReadsTrue(r) ==
    CASE r = "waiting" -> waiting
      [] r = "tasks_running" -> tasks_running = 0
      [] r = "paused" -> paused
      [] r = "empty" -> tasks = << >>

\* Mutant: the queue has to be paused and empty.
NoAlternative(r) == {r}

\* The reads of which one that is true is enough.
Alternatives(r) == IF r \in {"paused", "empty"} THEN {"paused", "empty"} ELSE {r}

\* The test without the mutex, one read at a time and in any order: the variables
\* are not atomic.  It fails with the last alternative.
Check(w, r) ==
    /\ At(w, "check") /\ r \in worker[w].unread
    /\ LET fails == ~ReadsTrue(r) /\ Alternatives(r) \cap worker[w].unread = {r} IN
       worker' = [worker EXCEPT
           ![w].pc = IF fails THEN "idle" ELSE @,
           ![w].unread = CASE fails -> {}
                           [] ReadsTrue(r) -> @ \ Alternatives(r)
                           [] OTHER -> @ \ {r}]
    /\ UNCHANGED <<tasks, tasks_running, paused, waiting, workers_running, thread_count,
                   client, submitted, done>>

WakeClients == client' = [c \in Clients |->
    [client[c] EXCEPT !.pc = IF @ = "wait_blocked" THEN "wait_woken" ELSE @]]

\* The test held: tasks_done_cv.notify_all().
NotifyDone(w) ==
    /\ At(w, "check") /\ worker[w].unread = {}
    /\ Go(w, "idle")
    /\ WakeClients
    /\ UNCHANGED <<tasks, tasks_running, paused, waiting, workers_running, thread_count,
                   submitted, done>>

\* task_available_cv.wait: the predicate is false.
Block(w) ==
    /\ At(w, "idle") /\ workers_running /\ PausedOrEmpty
    /\ Go(w, "blocked")
    /\ UNCHANGED <<tasks, tasks_running, paused, waiting, workers_running, thread_count,
                   client, submitted, done>>

\* Mutant: the task is counted when the mutex has been released, too late.
TakeUncounted(w) ==
    /\ At(w, "idle") /\ workers_running /\ ~PausedOrEmpty
    /\ worker' = [worker EXCEPT ![w].pc = "run", ![w].task = Head(tasks)]
    /\ tasks' = Tail(tasks)
    /\ UNCHANGED <<tasks_running, paused, waiting, workers_running, thread_count, client,
                   submitted, done>>

\* Mutant: the task stays in the queue.
TakeWithoutPop(w) ==
    /\ At(w, "idle") /\ workers_running /\ ~PausedOrEmpty
    /\ worker' = [worker EXCEPT ![w].pc = "run", ![w].task = Head(tasks)]
    /\ tasks_running' = tasks_running + 1
    /\ UNCHANGED <<tasks, paused, waiting, workers_running, thread_count, client, submitted, done>>

\* The predicate is true: the first task leaves the queue and is counted.
Take(w) ==
    /\ At(w, "idle") /\ workers_running /\ ~PausedOrEmpty
    /\ worker' = [worker EXCEPT ![w].pc = "run", ![w].task = Head(tasks)]
    /\ tasks' = Tail(tasks)
    /\ tasks_running' = tasks_running + 1
    /\ UNCHANGED <<paused, waiting, workers_running, thread_count, client, submitted, done>>

\* The task returns; the worker has not locked the mutex yet.
TaskEnds(w) ==
    /\ At(w, "run")
    /\ Go(w, "finish")
    /\ done' = done \cup {worker[w].task}
    /\ UNCHANGED <<tasks, tasks_running, paused, waiting, workers_running, thread_count,
                   client, submitted>>

\* The predicate is true because the pool stops: the thread returns.
Exit(w) ==
    /\ At(w, "idle") /\ ~workers_running
    /\ Go(w, "exited")
    /\ UNCHANGED <<tasks, tasks_running, paused, waiting, workers_running, thread_count,
                   client, submitted, done>>

WorkerStep(w) ==
    \/ Arrive(w) \/ (\E r \in Reads : Check(w, r)) \/ NotifyDone(w) \/ Block(w)
    \/ Take(w) \/ TaskEnds(w) \/ Exit(w)
-----------------------------------------------------------------------------
(***************************************************************************)
(* The calls of the clients.                                                *)
(***************************************************************************)
In(c, pc) == client[c].pc = pc
Enter(c, pc) == client' = [client EXCEPT ![c].pc = pc]
Return(c) == client' = [client EXCEPT ![c] = NoCall]

Wakeable == {w \in Workers : At(w, "blocked")}
WakeWorkers(S) == worker' = [w \in Workers |->
    IF w \in S THEN [worker[w] EXCEPT !.pc = "idle"] ELSE worker[w]]

\* detach_task, and each task of detach_sequence, detach_loop, detach_blocks and of
\* the submit functions, which wrap the task and call detach_task.
Detach(c) ==
    /\ In(c, "free") /\ submitted < MaxTasks
    /\ submitted' = submitted + 1
    /\ tasks' = Append(tasks, submitted + 1)
    /\ Enter(c, "detach_notify")
    /\ UNCHANGED <<tasks_running, paused, waiting, workers_running, thread_count, worker, done>>

\* Mutant: a task is only announced when every worker is blocked.
DetachNotifyAllIdle(c) ==
    /\ In(c, "detach_notify")
    /\ WakeWorkers(IF Wakeable = Workers THEN Workers ELSE {})
    /\ Return(c)
    /\ UNCHANGED <<tasks, tasks_running, paused, waiting, workers_running, thread_count,
                   submitted, done>>

\* task_available_cv.notify_one()
DetachNotify(c) ==
    /\ In(c, "detach_notify")
    /\ IF Wakeable = {} THEN UNCHANGED worker ELSE \E w \in Wakeable : WakeWorkers({w})
    /\ Return(c)
    /\ UNCHANGED <<tasks, tasks_running, paused, waiting, workers_running, thread_count,
                   submitted, done>>

Pause(c) ==
    /\ In(c, "free") /\ ~paused
    /\ paused' = TRUE
    /\ UNCHANGED <<tasks, tasks_running, waiting, workers_running, thread_count, worker,
                   client, submitted, done>>

Unpause(c) ==
    /\ In(c, "free")
    /\ paused' = FALSE
    /\ Enter(c, "unpause_notify")
    /\ UNCHANGED <<tasks, tasks_running, waiting, workers_running, thread_count, worker,
                   submitted, done>>

\* task_available_cv.notify_all()
UnpauseNotify(c) ==
    /\ In(c, "unpause_notify")
    /\ WakeWorkers(Wakeable)
    /\ Return(c)
    /\ UNCHANGED <<tasks, tasks_running, paused, waiting, workers_running, thread_count,
                   submitted, done>>

Purge(c) ==
    /\ In(c, "free") /\ tasks # << >>
    /\ tasks' = << >>
    /\ done' = done \cup Range(tasks)
    /\ UNCHANGED <<tasks_running, paused, waiting, workers_running, thread_count, worker,
                   client, submitted>>

\* A call of wait, wait_for or wait_until, and the destructor, which starts with one.
\* The owner destroys the pool when no other client is in a call.
CallWait(c) ==
    /\ In(c, "free")
    /\ \E goal \in {"wait", "wait_for", "destroy"} :
         /\ goal = "destroy" => c = Owner /\ \A d \in Clients : In(d, "free")
         /\ client' = [d \in Clients |->
              IF d = c THEN [client[d] EXCEPT !.pc = "enter_wait", !.goal = goal]
              ELSE IF goal = "destroy" THEN [client[d] EXCEPT !.pc = "gone"]
              ELSE client[d]]
    /\ UNCHANGED <<tasks, tasks_running, paused, waiting, workers_running, thread_count,
                   worker, submitted, done>>

\* reset: pauses the pool, keeping the old flag, and waits.
Reset(c) ==
    /\ Resets
    /\ In(c, "free") /\ c = Owner
    /\ client' = [client EXCEPT ![c] = [pc |-> "enter_wait", goal |-> "reset",
                                        was_paused |-> paused]]
    /\ paused' = TRUE
    /\ UNCHANGED <<tasks, tasks_running, waiting, workers_running, thread_count, worker,
                   submitted, done>>

AfterWait(c) == IF client[c].goal \in {"reset", "destroy"} THEN Enter(c, "stop") ELSE Return(c)

\* The predicate of tasks_done_cv, evaluated under the mutex: the call returns or
\* blocks.  waiting is set first, and cleared by the return.
EvaluateWait(c) ==
    /\ In(c, "enter_wait") \/ In(c, "wait_woken")
    /\ IF AllDone
       THEN waiting' = FALSE /\ AfterWait(c)
       ELSE /\ waiting' = IF In(c, "enter_wait") THEN TRUE ELSE waiting
            /\ Enter(c, "wait_blocked")
    /\ UNCHANGED <<tasks, tasks_running, paused, workers_running, thread_count, worker,
                   submitted, done>>

\* The time of wait_for or wait_until is over: it returns whatever the predicate is.
WaitTimesOut(c) ==
    /\ In(c, "wait_blocked") \/ In(c, "wait_woken")
    /\ client[c].goal = "wait_for"
    /\ waiting' = FALSE
    /\ Return(c)
    /\ UNCHANGED <<tasks, tasks_running, paused, workers_running, thread_count, worker,
                   submitted, done>>

\* destroy_threads: the flag, the notification, the joins.
Stop(c) ==
    /\ In(c, "stop")
    /\ workers_running' = FALSE
    /\ Enter(c, "stop_notify")
    /\ UNCHANGED <<tasks, tasks_running, paused, waiting, thread_count, worker, submitted, done>>

\* Mutant: one thread is told to stop.
StopNotifyOne(c) ==
    /\ In(c, "stop_notify")
    /\ IF Wakeable = {} THEN UNCHANGED worker ELSE \E w \in Wakeable : WakeWorkers({w})
    /\ Enter(c, "join")
    /\ UNCHANGED <<tasks, tasks_running, paused, waiting, workers_running, thread_count,
                   submitted, done>>

StopNotify(c) ==
    /\ In(c, "stop_notify")
    /\ WakeWorkers(Wakeable)
    /\ Enter(c, "join")
    /\ UNCHANGED <<tasks, tasks_running, paused, waiting, workers_running, thread_count,
                   submitted, done>>

Join(c) ==
    /\ In(c, "join")
    /\ \A w \in Workers : At(w, "exited")
    /\ Enter(c, IF client[c].goal = "reset" THEN "create" ELSE "gone")
    /\ UNCHANGED <<tasks, tasks_running, paused, waiting, workers_running, thread_count,
                   worker, submitted, done>>

\* Mutant: the new threads are not counted as running.
CreateUncounted(c) ==
    /\ In(c, "create")
    /\ \E n \in ThreadCounts : thread_count' = n /\ worker' = NewWorkers(n)
    /\ workers_running' = TRUE
    /\ Enter(c, "resume")
    /\ UNCHANGED <<tasks, tasks_running, paused, waiting, submitted, done>>

\* create_threads with the new count: every thread counts as running until it has
\* run its init_task.
Create(c) ==
    /\ In(c, "create")
    /\ \E n \in ThreadCounts :
         thread_count' = n /\ tasks_running' = n /\ worker' = NewWorkers(n)
    /\ workers_running' = TRUE
    /\ Enter(c, "resume")
    /\ UNCHANGED <<tasks, paused, waiting, submitted, done>>

\* The end of reset: the old flag comes back, and nobody is notified.
Resume(c) ==
    /\ In(c, "resume")
    /\ paused' = client[c].was_paused
    /\ Return(c)
    /\ UNCHANGED <<tasks, tasks_running, waiting, workers_running, thread_count, worker,
                   submitted, done>>

\* A condition variable lets its thread go without a notification.
WakeAlone ==
    /\ \/ \E w \in Wakeable : WakeWorkers({w}) /\ UNCHANGED client
       \/ \E c \in Clients : In(c, "wait_blocked") /\ Enter(c, "wait_woken") /\ UNCHANGED worker
    /\ UNCHANGED <<tasks, tasks_running, paused, waiting, workers_running, thread_count,
                   submitted, done>>

\* What a client decides to call, and what a call does once it has been made.
Call(c) == Detach(c) \/ Pause(c) \/ Unpause(c) \/ Purge(c) \/ CallWait(c) \/ Reset(c)
GoOn(c) ==
    \/ DetachNotify(c) \/ UnpauseNotify(c) \/ EvaluateWait(c)
    \/ Stop(c) \/ StopNotify(c) \/ Join(c) \/ Create(c) \/ Resume(c)

\* The pool is destroyed and every client is done with it.
Destroyed == (\A c \in Clients : In(c, "gone")) /\ UNCHANGED vars

Next ==
    \/ \E w \in Workers : WorkerStep(w)
    \/ \E c \in Clients : Call(c) \/ GoOn(c) \/ WaitTimesOut(c)
    \/ WakeAlone
    \/ Destroyed

\* The operating system runs every thread: tasks end, and a call goes on when it
\* can.  Nobody has to make a call, and no time has to run out.
Fairness ==
    /\ \A w \in Workers : WF_vars(WorkerStep(w))
    /\ \A c \in Clients : WF_vars(GoOn(c))

Spec == Init /\ [][Next]_vars /\ Fairness
-----------------------------------------------------------------------------
(***************************************************************************)
(* What the pool promises.                                                  *)
(***************************************************************************)
Busy == {w \in Workers : worker[w].pc \in {"init", "run", "finish"}}

\* tasks_running is the number of threads that run a task or have not arrived yet,
\* through every reset: it never wraps below zero, and wait cannot return too early.
RunningCount == tasks_running = Cardinality(Busy)

\* The pool implements TaskPool: through pauses, purges, wake-ups for nothing and resets,
\* tasks start in the order in which they were submitted, each one once and by one worker,
\* no more than thread_count at a time, and the threads are replaced while none runs.
Pool == INSTANCE TaskPool WITH
    queue <- tasks, ended <- done, threads <- thread_count,
    running <- {worker[w].task : w \in {v \in Workers : At(v, "run")}}
ImplementsTaskPool == Pool!PoolSpec

AllSettled == 1 .. submitted = done \cup (IF paused THEN Range(tasks) ELSE {})

\* When wait returns, every task submitted until then has ended or was purged; in a
\* paused pool it may also be queued.  The reset goes on under the same condition.
WaitMeansDone ==
    [][\A c \in Clients :
          /\ client[c].pc \in {"enter_wait", "wait_woken"} /\ client'[c].pc \in {"free", "stop"}
          /\ client[c].goal # "wait_for"
          => AllSettled]_vars

\* The destructor ends every thread, and drops a task only if the pool is paused.
DestructorRunsTasks ==
    \A c \in Clients : In(c, "gone") /\ client[c].goal = "destroy" =>
        (\A w \in Workers : At(w, "exited")) /\ AllSettled

\* A pool that is not paused gets its queue done: no notification is lost between a
\* client that adds a task and a worker that is about to block, and the threads a
\* reset creates find the tasks that waited (lines 563 and 571 of the header).
QueueDrains == tasks # << >> /\ ~paused ~> tasks = << >> \/ paused

\* With one client, wait returns: the worker that finishes last sees the flag of the
\* client that waits, although it looks without the mutex.
WaitReturns ==
    \A c \in Clients : In(c, "wait_blocked") ~> ~In(c, "wait_blocked") /\ ~In(c, "wait_woken")

\* The joins of the destructor return: no thread misses workers_running and blocks.
ThreadsStop == client[Owner].pc = "stop" ~> client[Owner].pc \in {"create", "gone"}
=============================================================================
