---------------------------- MODULE ParallelLoop ----------------------------
(***************************************************************************)
(* The loops of BS::thread_pool (TestBS/BS_thread_pool.hpp): detach_blocks, *)
(* detach_loop, detach_sequence and the submit_ functions divide a range of *)
(* indices into tasks, and a multi_future waits for the tasks submitted.    *)
(*                                                                         *)
(* The pool appears as what ThreadPool shows of it: tasks are taken in the  *)
(* order of their submission, thread_count at a time.  A block function is  *)
(* taken to loop over its block, so that blocks and loops are the same here. *)
(***************************************************************************)
EXTENDS Integers, Sequences, FiniteSets, FiniteSetsExt

CONSTANTS
    thread_count,
    Calls     \* the calls of the loop functions, see Call

\* submit: a submit_ function, and not a detach_ one; sequence: a task for each index.
\* function: "lvalue", or what a move leaves of a temporary: "copied" or "emptied".
\* failing: the indices at which the function throws.
Call == [submit : BOOLEAN, sequence : BOOLEAN, first : Int, last : Int, num_blocks : Nat,
         function : {"lvalue", "copied", "emptied"}, failing : SUBSET Int]

ASSUME LoopAssumption == thread_count \in Nat \ {0} /\ Calls \subseteq Call

VARIABLES
    call,      \* the call
    tasks,     \* the tasks submitted so far
    at,        \* at[k]: the next index of task k
    future,    \* future[k]: "queued", "running", "value" or "exception"
    ran,       \* ran[i]: how often the function has been called with i to its end
    client,    \* what the caller does: "submit", a wait, or "returned"
    waited,    \* the futures the wait has gone past
    clock,     \* the time against the limit of a wait: "before", "at" or "after" it
    result,    \* what the wait returned
    fault      \* "terminate" after an exception that nobody catches

vars == <<call, tasks, at, future, ran, client, waited, clock, result, fault>>

Indices == call.first .. call.last - 1
-----------------------------------------------------------------------------
(***************************************************************************)
(* The class blocks.  The number of blocks is never more than the indices,  *)
(* so block_size is never 0.                                                *)
(***************************************************************************)
total_size == IF call.last > call.first THEN call.last - call.first ELSE 0
num_blocks ==
    Min({total_size, IF call.num_blocks = 0 THEN thread_count ELSE call.num_blocks})
block_size == total_size \div num_blocks
remainder == total_size % num_blocks

\* Mutant: the indices that are left over go to no block but the last.
StartEven(b) == call.first + b * block_size

\* Mutant: every block is one longer.
StartUneven(b) == call.first + b * (block_size + 1)

start(b) == call.first + b * block_size + Min({b, remainder})

\* Mutant: the last block is as long as the others.
EndEven(b) == start(b) + block_size

end(b) == IF b = num_blocks - 1 THEN call.last ELSE start(b + 1)

NumTasks == IF call.sequence THEN total_size ELSE num_blocks

\* The first task of a temporary function takes it away from the others: std::forward
\* in the capture of every turn of the loop.
HasFunction(k) == k = 1 \/ call.function # "emptied"

\* Task k, the (k - 1)th block or index.
TaskOf(k) ==
    [start |-> IF call.sequence THEN call.first + k - 1 ELSE start(k - 1),
     end |-> IF call.sequence THEN call.first + k ELSE end(k - 1),
     callable |-> HasFunction(k)]

Init ==
    /\ call \in Calls
    /\ tasks = << >> /\ at = << >> /\ future = << >>
    /\ ran = [i \in Indices |-> 0]
    /\ client = "submit"
    /\ waited = 0
    /\ clock = "before"
    /\ result = "none"
    /\ fault = "none"

Alive == fault = "none"
-----------------------------------------------------------------------------
(***************************************************************************)
(* The caller.                                                              *)
(***************************************************************************)

SubmitTask ==
    /\ Alive /\ client = "submit" /\ Len(tasks) < NumTasks
    /\ tasks' = Append(tasks, TaskOf(Len(tasks) + 1))
    /\ at' = Append(at, tasks'[Len(tasks')].start)
    /\ future' = Append(future, "queued")
    /\ UNCHANGED <<call, ran, client, waited, clock, result, fault>>

Waits == IF call.submit THEN {"wait", "get", "wait_for"} ELSE {"pool_wait"}

\* The multi_future is complete; what the caller does with it.
StartWait ==
    /\ Alive /\ client = "submit" /\ Len(tasks) = NumTasks
    /\ client' \in Waits
    /\ UNCHANGED <<call, tasks, at, future, ran, waited, clock, result, fault>>

Ready(k) == future[k] \in {"value", "exception"}

GoPast == waited' = waited + 1 /\ UNCHANGED <<client, result>>
ReturnWith(r) == client' = "returned" /\ result' = r /\ UNCHANGED waited

\* Mutant: wait of the pool forgets the tasks that run.
WaitReturnsEmpty ==
    /\ Alive /\ client \in {"wait", "get", "wait_for", "pool_wait"}
    /\ \/ client # "pool_wait" /\ waited = Len(tasks)
       \/ client = "pool_wait" /\ \A k \in DOMAIN tasks : future[k] # "queued"
    /\ ReturnWith("done")
    /\ UNCHANGED <<call, tasks, at, future, ran, clock, fault>>

\* The end of the loop over the futures; for the detach_ functions, wait of the pool.
WaitReturns ==
    /\ Alive /\ client \in {"wait", "get", "wait_for", "pool_wait"}
    /\ \/ client # "pool_wait" /\ waited = Len(tasks)
       \/ client = "pool_wait" /\ \A k \in DOMAIN tasks : Ready(k)
    /\ ReturnWith("done")
    /\ UNCHANGED <<call, tasks, at, future, ran, clock, fault>>

NextFuture == waited + 1

\* Mutant: what the futures hold is not looked at.
WaitOnly ==
    /\ Alive /\ client \in {"wait", "get"} /\ waited < Len(tasks) /\ Ready(NextFuture)
    /\ GoPast
    /\ UNCHANGED <<call, tasks, at, future, ran, clock, fault>>

\* wait, and get, which throws what the first future with an exception holds.
WaitNext ==
    /\ Alive /\ client \in {"wait", "get"} /\ waited < Len(tasks) /\ Ready(NextFuture)
    /\ IF client = "get" /\ future[NextFuture] = "exception" THEN ReturnWith("exception")
                                                         ELSE GoPast
    /\ UNCHANGED <<call, tasks, at, future, ran, clock, fault>>

\* wait_for and wait_until: a future is ready or the time is over, and only a time behind
\* the limit ends the loop.
WaitForNext ==
    /\ Alive /\ client = "wait_for" /\ waited < Len(tasks)
    /\ Ready(NextFuture) \/ clock # "before"
    /\ IF clock = "after" THEN ReturnWith("timeout") ELSE GoPast
    /\ UNCHANGED <<call, tasks, at, future, ran, clock, fault>>

Tick ==
    /\ Alive /\ client = "wait_for" /\ clock # "after"
    /\ clock' = IF clock = "before" THEN "at" ELSE "after"
    /\ UNCHANGED <<call, tasks, at, future, ran, client, waited, result, fault>>
-----------------------------------------------------------------------------
(***************************************************************************)
(* The tasks.                                                               *)
(***************************************************************************)
Running == {k \in DOMAIN tasks : future[k] = "running"}

\* A worker takes the task at the head of the queue.
Take(k) ==
    /\ Alive /\ future[k] = "queued" /\ Cardinality(Running) < thread_count
    /\ \A j \in 1 .. k - 1 : future[j] # "queued"
    /\ future' = [future EXCEPT ![k] = "running"]
    /\ UNCHANGED <<call, tasks, at, ran, client, waited, clock, result, fault>>

Throws(k) == ~tasks[k].callable \/ at[k] \in call.failing

CallFunction(k) ==
    /\ Alive /\ future[k] = "running" /\ at[k] < tasks[k].end /\ ~Throws(k)
    /\ ran' = [ran EXCEPT ![at[k]] = @ + 1]
    /\ at' = [at EXCEPT ![k] = @ + 1]
    /\ UNCHANGED <<call, tasks, future, client, waited, clock, result, fault>>

\* Mutant: the exception is caught and the promise is never fulfilled.
FunctionThrowsSilently(k) ==
    /\ Alive /\ future[k] = "running" /\ at[k] < tasks[k].end /\ Throws(k)
    /\ IF call.submit THEN UNCHANGED fault ELSE fault' = "terminate"
    /\ UNCHANGED <<call, tasks, at, future, ran, client, waited, clock, result>>

\* submit_task stores the exception; out of a detached task it ends the program.
FunctionThrows(k) ==
    /\ Alive /\ future[k] = "running" /\ at[k] < tasks[k].end /\ Throws(k)
    /\ IF call.submit THEN future' = [future EXCEPT ![k] = "exception"] /\ UNCHANGED fault
       ELSE fault' = "terminate" /\ UNCHANGED future
    /\ UNCHANGED <<call, tasks, at, ran, client, waited, clock, result>>

TaskEnds(k) ==
    /\ Alive /\ future[k] = "running" /\ at[k] = tasks[k].end
    /\ future' = [future EXCEPT ![k] = "value"]
    /\ UNCHANGED <<call, tasks, at, ran, client, waited, clock, result, fault>>

Over ==
    /\ ~Alive \/ (client = "returned" /\ \A k \in DOMAIN tasks : Ready(k))
    /\ UNCHANGED vars

Caller == SubmitTask \/ StartWait \/ WaitReturns \/ WaitNext \/ WaitForNext
Worker == \E k \in DOMAIN tasks :
              Take(k) \/ CallFunction(k) \/ FunctionThrows(k) \/ TaskEnds(k)

Next == Caller \/ Worker \/ Tick \/ Over

\* The caller and the workers are threads of the operating system; functions return.
Fairness == WF_vars(Caller) /\ WF_vars(Worker)

Spec == Init /\ [][Next]_vars /\ Fairness
-----------------------------------------------------------------------------
\* Type invariant: no task leaves the range.
TypeOK ==
    /\ call \in Calls
    /\ \A k \in DOMAIN tasks : /\ tasks[k].start \in Indices
                               /\ tasks[k].end \in call.first + 1 .. call.last
                               /\ at[k] \in tasks[k].start .. tasks[k].end
    /\ future \in Seq({"queued", "running", "value", "exception"})
    /\ client \in {"submit", "wait", "get", "wait_for", "pool_wait", "returned"}
    /\ waited \in 0 .. Len(tasks)
    /\ clock \in {"before", "at", "after"}
    /\ result \in {"none", "done", "exception", "timeout"}
    /\ fault \in {"none", "terminate"}

\* However the range divides into blocks, no index is given to the function twice, and
\* when all tasks have ended each one has been, except behind an exception of its block.
EachIndexOnce ==
    /\ \A i \in Indices : ran[i] <= 1
    /\ (client # "submit" /\ \A k \in DOMAIN tasks : future[k] = "value") =>
           \A i \in Indices : ran[i] = 1

\* No block has more than one index more than another one (lines 972 and 994): no thread
\* is left with the remainder.
BlocksBalanced ==
    \A j, k \in DOMAIN tasks :
        tasks[j].end - tasks[j].start <= tasks[k].end - tasks[k].start + 1

\* get returns results if and only if no task has thrown: every index has then been
\* handled; when it throws, the tasks before the one that did have all ended well.
GetIsComplete ==
    [][client = "get" /\ client' = "returned" =>
         IF result' = "exception"
         THEN /\ future[NextFuture] = "exception"
              /\ \A k \in 1 .. waited : future[k] = "value"
         ELSE \A i \in Indices : ran[i] = 1]_vars

\* The index has been handled, or lies behind the exception of its own task.
Settled(i) ==
    \/ ran[i] = 1
    \/ \E k \in DOMAIN tasks : future[k] = "exception" /\ i \in at[k] .. tasks[k].end - 1

\* What wait, get and wait of the pool promise when they return: no task calls the function
\* any more, so that the caller may destroy what it refers to, and every index is settled.
DoneIsHandled ==
    [][result' = "done" /\ client \in {"wait", "get", "pool_wait"} =>
         (\A k \in DOMAIN tasks : Ready(k)) /\ (\A i \in Indices : Settled(i))]_vars

\* A wait for the futures comes back, exceptions or not.
CallReturns == <>(client = "returned" \/ fault # "none")
-----------------------------------------------------------------------------
(***************************************************************************)
(* What the comments of the code say and the code does not do.              *)
(***************************************************************************)

\* Lines 501 and 528: the function is called once per index.  When all tasks have ended, a
\* function that does not throw has left none out, be it a variable or a temporary.
EveryIndexRuns ==
    (client # "submit" /\ call.failing = {} /\ \A k \in DOMAIN tasks : Ready(k)) =>
        \A i \in Indices : ran[i] = 1
=============================================================================
