------------------------- MODULE ParallelLoopProofs -------------------------
(***************************************************************************)
(* Proofs about ParallelLoop, for every range, number of blocks and threads. *)
(***************************************************************************)
EXTENDS ParallelLoop, SequenceTheorems, FiniteSetTheorems, TLAPS

-----------------------------------------------------------------------------
(* Arithmetic. *)

Least(a, b) == IF a <= b THEN a ELSE b

LEMMA MinIsLeast == \A a, b \in Int : Min({a, b}) = Least(a, b)
<1> TAKE a, b \in Int
<1>1. \E x \in {a, b} : \A y \in {a, b} : x <= y
  OBVIOUS
<1>2. Min({a, b}) \in {a, b} /\ \A y \in {a, b} : Min({a, b}) <= y
  BY <1>1 DEF Min
<1> QED  BY <1>2 DEF Least

LEMMA Division ==
  ASSUME NEW t \in Nat, NEW n \in Nat \ {0}
  PROVE  /\ t \div n \in Nat /\ t % n \in 0 .. n - 1
         /\ t = n * (t \div n) + (t % n)
  OBVIOUS

LEMMA Products == \A x, y \in Nat : x * y \in Nat
  OBVIOUS

LEMMA ProductsGrow ==
  ASSUME NEW x \in Nat, NEW y \in Nat, NEW s \in Nat, x <= y
  PROVE  x * s <= y * s
<1>1. (y - x) * s \in Nat
  BY Products
<1>2. y * s = x * s + (y - x) * s
  OBVIOUS
<1> QED  BY <1>1, <1>2, Products

\* The place behind b blocks, when the first r have one index more than s.
Behind(b, s, r) == b * s + Least(b, r)

LEMMA NextBlock ==
  ASSUME NEW b \in Nat, NEW s \in Nat, NEW r \in Nat
  PROVE  Behind(b + 1, s, r) = Behind(b, s, r) + s + (IF b < r THEN 1 ELSE 0)
<1>1. (b + 1) * s = b * s + s
  OBVIOUS
<1>2. b * s \in Nat
  BY Products
<1> QED  BY <1>1, <1>2 DEF Behind, Least

LEMMA BehindGrows ==
  ASSUME NEW b \in Nat, NEW c \in Nat, NEW s \in Nat, NEW r \in Nat, b <= c
  PROVE  Behind(b, s, r) <= Behind(c, s, r)
<1>1. b * s <= c * s /\ b * s \in Nat /\ c * s \in Nat
  BY ProductsGrow, Products
<1> QED  BY <1>1 DEF Behind, Least

\* Every place before the last one is in a block.
LEMMA BlocksCover ==
  ASSUME NEW n \in Nat \ {0}, NEW s \in Nat \ {0}, NEW r \in 0 .. n - 1,
         NEW x \in Nat, x < n * s + r
  PROVE  \E b \in 0 .. n - 1 : Behind(b, s, r) <= x /\ x < Behind(b + 1, s, r)
<1>1. CASE x < r * (s + 1)
  <2> DEFINE b == x \div (s + 1)
  <2>0. s + 1 \in Nat \ {0} /\ (s + 1) - 1 = s
    OBVIOUS
  <2>1. b \in Nat /\ x = (s + 1) * b + (x % (s + 1)) /\ x % (s + 1) \in 0 .. s
    BY <2>0, Division
  <2> HIDE DEF b
  <2>2. b < r
    <3>1. SUFFICES ASSUME r <= b PROVE FALSE
      BY <2>1
    <3>2. r * (s + 1) <= b * (s + 1)
      BY <2>1, <3>1, ProductsGrow
    <3> QED  BY <1>1, <2>1, <3>2
  <2>3. Behind(b, s, r) = b * s + b /\ b * s \in Nat /\ (s + 1) * b = b * s + b
    BY <2>1, <2>2, Products DEF Behind, Least
  <2>4. Behind(b + 1, s, r) = b * s + b + s + 1
    BY <2>1, <2>2, <2>3, NextBlock
  <2> QED  BY <2>1, <2>2, <2>3, <2>4
<1>2. CASE ~(x < r * (s + 1))
  <2> DEFINE b == (x - r) \div s
  <2>0. r * (s + 1) = r * s + r /\ r * s \in Nat /\ x - r \in Nat
    BY <1>2, Products
  <2>1. b \in Nat /\ x - r = s * b + ((x - r) % s) /\ (x - r) % s \in 0 .. s - 1
    BY <2>0, Division
  <2> HIDE DEF b
  <2>p. s * b = b * s /\ b * s \in Nat
    BY <2>1, Products
  <2>2. r <= b
    <3>1. SUFFICES ASSUME b + 1 <= r PROVE FALSE
      BY <2>1
    <3>2. (b + 1) * s <= r * s
      BY <2>1, <3>1, ProductsGrow
    <3>3. (b + 1) * s = b * s + s
      BY <2>1
    <3> QED  BY <1>2, <2>0, <2>1, <2>p, <3>2, <3>3
  <2>3. b < n
    <3>1. SUFFICES ASSUME n <= b PROVE FALSE
      BY <2>1
    <3>2. n * s <= b * s /\ n * s \in Nat
      BY <2>1, <3>1, ProductsGrow, Products
    <3> QED  BY <2>0, <2>1, <2>p, <3>2
  <2>4. Behind(b, s, r) = b * s + r
    BY <2>1, <2>2 DEF Behind, Least
  <2>5. Behind(b + 1, s, r) = b * s + r + s
    BY <2>1, <2>2, <2>4, <2>p, NextBlock
  <2> QED  BY <2>0, <2>1, <2>p, <2>3, <2>4, <2>5
<1> QED  BY <1>1, <1>2
-----------------------------------------------------------------------------
(* The blocks. *)

CallOK == call \in Calls

LEMMA CallTyped ==
  ASSUME CallOK
  PROVE  /\ call.first \in Int /\ call.last \in Int /\ call.num_blocks \in Nat
         /\ call.submit \in BOOLEAN /\ call.sequence \in BOOLEAN
         /\ total_size \in Nat
         /\ total_size > 0 => call.last = call.first + total_size
         /\ total_size = 0 => Indices = {}
<1>1. call \in Call
  BY LoopAssumption DEF CallOK
<1> QED  BY <1>1 DEF Call, total_size, Indices

LEMMA BlockCount ==
  ASSUME CallOK
  PROVE  num_blocks \in 0 .. total_size /\ (total_size > 0 => num_blocks > 0)
<1>1. (IF call.num_blocks = 0 THEN thread_count ELSE call.num_blocks) \in Nat \ {0}
  BY CallTyped, LoopAssumption
<1>2. num_blocks
        = Least(total_size, IF call.num_blocks = 0 THEN thread_count ELSE call.num_blocks)
  BY <1>1, CallTyped, MinIsLeast DEF num_blocks
<1> QED  BY <1>1, <1>2, CallTyped DEF Least

\* The sizes of the blocks, when there are any.
LEMMA BlockSizes ==
  ASSUME CallOK, total_size > 0
  PROVE  /\ num_blocks \in Nat \ {0} /\ block_size \in Nat \ {0}
         /\ remainder \in 0 .. num_blocks - 1
         /\ total_size = num_blocks * block_size + remainder
<1>1. num_blocks \in Nat \ {0} /\ num_blocks <= total_size /\ total_size \in Nat
  BY BlockCount, CallTyped
<1>2. /\ block_size \in Nat /\ remainder \in 0 .. num_blocks - 1
      /\ total_size = num_blocks * block_size + remainder
  BY <1>1, Division DEF block_size, remainder
<1>3. block_size # 0
  <2>1. SUFFICES ASSUME block_size = 0 PROVE FALSE
    OBVIOUS
  <2>2. num_blocks * block_size = 0
    BY <1>1, <2>1
  <2> QED  BY <1>1, <1>2, <2>2
<1> QED  BY <1>1, <1>2, <1>3

LEMMA StartIs ==
  ASSUME CallOK, total_size > 0, NEW b \in 0 .. num_blocks
  PROVE  start(b) = call.first + Behind(b, block_size, remainder)
         /\ Behind(b, block_size, remainder) \in Nat
<1>1. /\ b \in Nat /\ block_size \in Nat /\ remainder \in Nat /\ call.first \in Int
      /\ b * block_size \in Nat
  BY BlockSizes, CallTyped, Products
<1>2. Min({b, remainder}) = Least(b, remainder)
  BY <1>1, MinIsLeast
<1> QED  BY <1>1, <1>2 DEF start, Behind, Least

\* A block ends where the next one starts, and the last one ends with the range.
LEMMA EndIs ==
  ASSUME CallOK, total_size > 0, NEW b \in 0 .. num_blocks - 1
  PROVE  end(b) = call.first + Behind(b + 1, block_size, remainder)
<1>1. b + 1 \in 0 .. num_blocks /\ num_blocks \in Nat \ {0} /\ num_blocks \in 0 .. num_blocks
  BY BlockSizes
<1>2. CASE b = num_blocks - 1
  <2>1. Behind(num_blocks, block_size, remainder) = total_size
    BY BlockSizes DEF Behind, Least
  <2>2. b + 1 = num_blocks
    BY <1>1, <1>2
  <2> QED  BY <1>2, <2>1, <2>2, CallTyped DEF end
<1>3. CASE b # num_blocks - 1
  BY <1>1, <1>3, StartIs DEF end
<1> QED  BY <1>2, <1>3

Between(i, k) == TaskOf(k).start <= i /\ i < TaskOf(k).end

LEMMA TaskIs ==
  ASSUME CallOK, NEW k \in 1 .. NumTasks
  PROVE  /\ total_size > 0
         /\ TaskOf(k).start \in Int /\ TaskOf(k).end \in Int
         /\ call.sequence => /\ TaskOf(k).start = call.first + k - 1
                             /\ TaskOf(k).end = call.first + k
                             /\ NumTasks = total_size
         /\ ~call.sequence =>
               /\ k - 1 \in 0 .. num_blocks - 1 /\ NumTasks = num_blocks
               /\ TaskOf(k).start = call.first + Behind(k - 1, block_size, remainder)
               /\ TaskOf(k).end = call.first + Behind(k, block_size, remainder)
               /\ Behind(k - 1, block_size, remainder) \in Nat
               /\ Behind(k, block_size, remainder) \in Nat
<1>1. total_size > 0 /\ total_size \in Nat /\ NumTasks \in Nat /\ NumTasks <= total_size
  BY BlockCount, CallTyped DEF NumTasks
<1>2. CASE call.sequence
  BY <1>1, <1>2, CallTyped DEF TaskOf, NumTasks
<1>3. CASE ~call.sequence
  <2>1. NumTasks = num_blocks /\ num_blocks \in Nat
    BY <1>3, <1>1 DEF NumTasks
  <2>2. k - 1 \in 0 .. num_blocks - 1 /\ k - 1 \in 0 .. num_blocks /\ k \in 0 .. num_blocks
    BY <2>1
  <2>3. (k - 1) + 1 = k
    OBVIOUS
  <2>4. /\ start(k - 1) = call.first + Behind(k - 1, block_size, remainder)
        /\ end(k - 1) = call.first + Behind(k, block_size, remainder)
        /\ Behind(k - 1, block_size, remainder) \in Nat
        /\ Behind(k, block_size, remainder) \in Nat
    BY <1>1, <2>2, <2>3, StartIs, EndIs
  <2> QED  BY <1>1, <1>3, <2>1, <2>2, <2>4, CallTyped DEF TaskOf
<1> QED  BY <1>2, <1>3, CallTyped

\* No task is empty, and none is more than one index longer than another one.
LEMMA TaskLengths ==
  ASSUME CallOK, NEW j \in 1 .. NumTasks, NEW k \in 1 .. NumTasks
  PROVE  /\ TaskOf(k).start < TaskOf(k).end
         /\ TaskOf(j).end - TaskOf(j).start <= TaskOf(k).end - TaskOf(k).start + 1
<1> DEFINE long(m) == block_size + (IF m - 1 < remainder THEN 1 ELSE 0)
<1>1. CASE call.sequence
  BY <1>1, TaskIs, CallTyped
<1>2. CASE ~call.sequence
  <2>1. ASSUME NEW m \in 1 .. NumTasks PROVE TaskOf(m).end = TaskOf(m).start + long(m)
    <3>1. m - 1 \in Nat /\ (m - 1) + 1 = m /\ block_size \in Nat /\ remainder \in Nat
      BY TaskIs, BlockSizes
    <3>a. Behind((m - 1) + 1, block_size, remainder)
            = Behind(m - 1, block_size, remainder) + block_size
              + (IF m - 1 < remainder THEN 1 ELSE 0)
      BY <3>1, NextBlock
    <3>b. Behind(m - 1, block_size, remainder) \in Nat
      BY <1>2, TaskIs
    <3>2. Behind(m, block_size, remainder) = Behind(m - 1, block_size, remainder) + long(m)
      BY <3>1, <3>a, <3>b
    <3> QED  BY <1>2, <3>1, <3>2, TaskIs, CallTyped
  <2>2. block_size \in Nat \ {0}
    BY TaskIs, BlockSizes
  <2> QED  BY <2>1, <2>2, TaskIs
<1> QED  BY <1>1, <1>2, CallTyped

\* Tasks do not share an index.
LEMMA TasksApart ==
  ASSUME CallOK, NEW j \in 1 .. NumTasks, NEW k \in 1 .. NumTasks, j < k
  PROVE  TaskOf(j).end <= TaskOf(k).start
<1>1. CASE call.sequence
  BY <1>1, TaskIs, CallTyped
<1>2. CASE ~call.sequence
  <2>1. j \in Nat /\ k - 1 \in Nat /\ j <= k - 1 /\ block_size \in Nat /\ remainder \in Nat
    BY TaskIs, BlockSizes
  <2>2. Behind(j, block_size, remainder) <= Behind(k - 1, block_size, remainder)
    BY <2>1, BehindGrows
  <2> QED  BY <1>2, <2>2, TaskIs, CallTyped
<1> QED  BY <1>1, <1>2, CallTyped

\* The tasks lie in the range, and they leave no index out.
LEMMA TasksInside ==
  ASSUME CallOK, NEW k \in 1 .. NumTasks
  PROVE  TaskOf(k).start \in Indices /\ TaskOf(k).end \in call.first + 1 .. call.last
<1>0. total_size \in Nat /\ total_size > 0 /\ call.last = call.first + total_size
  BY TaskIs, CallTyped
<1>1. CASE call.sequence
  BY <1>0, <1>1, TaskIs, CallTyped DEF Indices
<1>2. CASE ~call.sequence
  <2>1. Behind(num_blocks, block_size, remainder) = total_size
    BY <1>0, BlockSizes DEF Behind, Least
  <2>2. k \in Nat /\ num_blocks \in Nat /\ k <= num_blocks
        /\ block_size \in Nat /\ remainder \in Nat
    BY <1>0, <1>2, TaskIs, BlockSizes
  <2>3. Behind(k, block_size, remainder) <= total_size
    BY <2>1, <2>2, BehindGrows
  <2>4. TaskOf(k).start < TaskOf(k).end
    BY TaskLengths
  <2> QED  BY <1>0, <1>2, <2>3, <2>4, TaskIs, CallTyped DEF Indices
<1> QED  BY <1>1, <1>2, CallTyped

LEMMA TasksCover ==
  ASSUME CallOK, NEW i \in Indices PROVE \E k \in 1 .. NumTasks : Between(i, k)
<1>0. /\ total_size \in Nat /\ total_size > 0 /\ call.last = call.first + total_size
      /\ call.first \in Int
  BY CallTyped DEF Indices
<1>a. i - call.first \in Nat /\ i - call.first < total_size /\ i \in Int
  BY <1>0 DEF Indices
<1>1. CASE call.sequence
  <2>1. NumTasks = total_size
    BY <1>1 DEF NumTasks
  <2>2. i - call.first + 1 \in 1 .. NumTasks
    BY <1>a, <1>0, <2>1
  <2>3. Between(i, i - call.first + 1)
    BY <1>0, <1>1, <1>a, <2>2, TaskIs DEF Between
  <2> QED  BY <2>2, <2>3
<1>2. CASE ~call.sequence
  <2>1. NumTasks = num_blocks
    BY <1>2, CallTyped DEF NumTasks
  <2>2. /\ num_blocks \in Nat \ {0} /\ block_size \in Nat \ {0}
        /\ remainder \in 0 .. num_blocks - 1
        /\ total_size = num_blocks * block_size + remainder
    BY <1>0, BlockSizes
  <2>3. PICK b \in 0 .. num_blocks - 1 :
           /\ Behind(b, block_size, remainder) <= i - call.first
           /\ i - call.first < Behind(b + 1, block_size, remainder)
    BY <1>a, <2>2, BlocksCover
  <2>4. b + 1 \in 1 .. NumTasks /\ (b + 1) - 1 = b
    BY <2>1, <2>2
  <2>5. Between(i, b + 1)
    BY <1>0, <1>2, <1>a, <2>3, <2>4, TaskIs DEF Between
  <2> QED  BY <2>4, <2>5
<1> QED  BY <1>1, <1>2, CallTyped
-----------------------------------------------------------------------------
(* The steps. *)

TaskType == [start : Int, end : Int, callable : BOOLEAN]
Futures == {"queued", "running", "value", "exception"}

Reached(i, k) == tasks[k].start <= i /\ i < at[k]

TasksInv ==
    /\ tasks \in Seq(TaskType) /\ at \in Seq(Int) /\ future \in Seq(Futures)
    /\ Len(at) = Len(tasks) /\ Len(future) = Len(tasks)
    /\ Len(tasks) <= NumTasks
    /\ \A k \in 1 .. Len(tasks) :
          /\ tasks[k] = TaskOf(k)
          /\ at[k] \in tasks[k].start .. tasks[k].end
          /\ future[k] = "value" => at[k] = tasks[k].end

\* An index counts as handled when a task has gone past it, once.
RanInv ==
    /\ ran \in [Indices -> {0, 1}]
    /\ \A i \in Indices : ran[i] = 1 <=> \E k \in 1 .. Len(tasks) : Reached(i, k)

CallerInv ==
    /\ client \in {"submit", "wait", "get", "wait_for", "pool_wait", "returned"}
    /\ client # "submit" => Len(tasks) = NumTasks
    /\ waited \in 0 .. Len(tasks)
    /\ clock \in {"before", "at", "after"}
    /\ result \in {"none", "done", "exception", "timeout"}
    /\ fault \in {"none", "terminate"}

IInv == CallOK /\ TasksInv /\ RanInv /\ CallerInv

LEMMA TaskTyped == ASSUME CallOK, NEW k \in 1 .. NumTasks PROVE TaskOf(k) \in TaskType
  BY TaskIs DEF TaskOf, TaskType, HasFunction

LEMMA InitInv == Init => IInv
<1> SUFFICES ASSUME Init PROVE IInv
  OBVIOUS
<1>1. CallOK
  BY DEF Init, CallOK
<1>2. NumTasks \in Nat
  BY <1>1, BlockCount, CallTyped DEF NumTasks
<1>3. TasksInv
  BY <1>2 DEF Init, TasksInv
<1>4. RanInv
  BY DEF Init, RanInv
<1>5. CallerInv
  BY DEF Init, CallerInv
<1> QED  BY <1>1, <1>3, <1>4, <1>5 DEF IInv

\* The call does not change, nor how it is divided.
LEMMA CallStays ==
  ASSUME call' = call
  PROVE  /\ CallOK => CallOK'
         /\ NumTasks' = NumTasks /\ Indices' = Indices /\ \A k : TaskOf(k)' = TaskOf(k)
  BY DEF CallOK, NumTasks, Indices, TaskOf, HasFunction, start, end, num_blocks, block_size,
         remainder, total_size

LEMMA SubmitInv == ASSUME IInv, SubmitTask PROVE IInv'
<1> USE DEF SubmitTask
<1>a. /\ CallOK /\ Len(tasks) \in Nat /\ Len(at) = Len(tasks) /\ Len(future) = Len(tasks)
      /\ tasks \in Seq(TaskType) /\ at \in Seq(Int) /\ future \in Seq(Futures)
  BY LenProperties DEF IInv, TasksInv
<1>b. NumTasks \in Nat
  BY <1>a, BlockCount, CallTyped DEF NumTasks
<1>n. PICK n \in Nat : n = Len(tasks) + 1
  BY <1>a
<1>c. n \in 1 .. NumTasks
  BY <1>a, <1>b, <1>n
<1>d. TaskOf(n) \in TaskType /\ TaskOf(n).start \in Int /\ TaskOf(n).end \in Int
      /\ TaskOf(n).start <= TaskOf(n).end
  BY <1>a, <1>c, TaskTyped, TaskIs, TaskLengths
<1>e. /\ tasks' \in Seq(TaskType) /\ Len(tasks') = n
      /\ \A k \in 1 .. Len(tasks) : tasks'[k] = tasks[k]
      /\ tasks'[n] = TaskOf(n)
  BY <1>a, <1>d, <1>n, AppendProperties
<1>f. /\ at' \in Seq(Int) /\ Len(at') = n
      /\ \A k \in 1 .. Len(tasks) : at'[k] = at[k]
      /\ at'[n] = TaskOf(n).start
  BY <1>a, <1>d, <1>e, <1>n, AppendProperties
<1>g. /\ future' \in Seq(Futures) /\ Len(future') = n
      /\ \A k \in 1 .. Len(tasks) : future'[k] = future[k]
      /\ future'[n] = "queued"
  BY <1>a, <1>n, AppendProperties DEF Futures
<1>h. \A k \in 1 .. n : k \in 1 .. Len(tasks) \/ k = n
  BY <1>a, <1>n
<1>1. CallOK'
  BY <1>a DEF CallOK
<1>2. TasksInv'
  <2>1. ASSUME NEW k \in 1 .. n
        PROVE  /\ tasks'[k] = TaskOf(k)
               /\ at'[k] \in tasks'[k].start .. tasks'[k].end
               /\ future'[k] = "value" => at'[k] = tasks'[k].end
    <3>1. CASE k = n
      BY <3>1, <1>d, <1>e, <1>f, <1>g
    <3>2. CASE k \in 1 .. Len(tasks)
      BY <3>2, <1>e, <1>f, <1>g DEF IInv, TasksInv
    <3> QED  BY <1>h, <3>1, <3>2
  <2>2. NumTasks' = NumTasks /\ \A k : TaskOf(k)' = TaskOf(k)
    BY CallStays
  <2>3. n <= NumTasks
    BY <1>b, <1>c
  <2> QED  BY <1>e, <1>f, <1>g, <2>1, <2>2, <2>3 DEF TasksInv
<1>3. RanInv'
  <2>1. \A i \in Indices : ~Reached(i, n)'
    BY <1>d, <1>e, <1>f DEF Reached, Indices
  <2>2. \A i \in Indices, k \in 1 .. Len(tasks) : Reached(i, k)' <=> Reached(i, k)
    BY <1>e, <1>f DEF Reached
  <2>3. Indices' = Indices /\ ran' = ran
    BY CallStays
  <2>4. 1 .. n = (1 .. Len(tasks)) \cup {n}
    BY <1>a, <1>n
  <2>5. \A i \in Indices : (\E k \in 1 .. n : Reached(i, k)')
                            <=> \E k \in 1 .. Len(tasks) : Reached(i, k)
    BY <2>1, <2>2, <2>4
  <2> QED  BY <1>e, <2>3, <2>5 DEF IInv, RanInv
<1>4. CallerInv'
  BY <1>a, <1>e, <1>n DEF IInv, CallerInv
<1> QED  BY <1>1, <1>2, <1>3, <1>4 DEF IInv

\* The steps of the caller after that, and the clock.
LEMMA CallerStepInv ==
  ASSUME IInv, StartWait \/ WaitReturns \/ WaitNext \/ WaitForNext \/ Tick PROVE IInv'
<1>1. UNCHANGED <<call, tasks, at, future, ran, fault>>
  BY DEF StartWait, WaitReturns, WaitNext, WaitForNext, Tick, GoPast, ReturnWith
<1>2. CallOK' /\ NumTasks' = NumTasks /\ Indices' = Indices /\ \A k : TaskOf(k)' = TaskOf(k)
  BY <1>1, CallStays DEF IInv
<1>3. TasksInv'
  BY <1>1, <1>2 DEF IInv, TasksInv
<1>4. RanInv'
  BY <1>1, <1>2 DEF IInv, RanInv, Reached
<1>5. CallerInv'
  <2>1. Len(tasks) \in Nat
    BY LenProperties DEF IInv, TasksInv
  <2>2. CASE StartWait
    BY <1>1, <1>2, <2>2 DEF IInv, CallerInv, StartWait, Waits
  <2>3. CASE WaitReturns \/ WaitNext \/ WaitForNext
    BY <1>1, <1>2, <2>1, <2>3
    DEF IInv, CallerInv, WaitReturns, WaitNext, WaitForNext, GoPast, ReturnWith
  <2>4. CASE Tick
    BY <1>1, <1>2, <2>4 DEF IInv, CallerInv, Tick
  <2> QED  BY <2>2, <2>3, <2>4
<1> QED  BY <1>2, <1>3, <1>4, <1>5 DEF IInv

\* The steps of a task that handle no index.
LEMMA FutureInv ==
  ASSUME IInv, NEW k \in DOMAIN tasks, Take(k) \/ FunctionThrows(k) \/ TaskEnds(k) PROVE IInv'
<1>a. k \in 1 .. Len(tasks) /\ Len(tasks) \in Nat /\ future \in Seq(Futures)
      /\ Len(future) = Len(tasks)
  BY LenProperties DEF IInv, TasksInv
<1>1. UNCHANGED <<call, tasks, at, ran, client, waited, clock, result>>
      /\ fault' \in {fault, "terminate"}
  BY DEF Take, FunctionThrows, TaskEnds
<1>2. CallOK' /\ NumTasks' = NumTasks /\ Indices' = Indices /\ \A j : TaskOf(j)' = TaskOf(j)
  BY <1>1, CallStays DEF IInv
<1>3. /\ future' \in Seq(Futures) /\ Len(future') = Len(tasks)
      /\ \A j \in 1 .. Len(tasks) :
            future'[j] = "value" => future[j] = "value" \/ at[j] = tasks[j].end
  <2>1. CASE future' = future
    BY <1>a, <2>1
  <2>2. CASE \E f \in {"running", "exception"} : future' = [future EXCEPT ![k] = f]
    BY <1>a, <2>2, ExceptSeq DEF Futures
  <2>3. CASE future' = [future EXCEPT ![k] = "value"] /\ at[k] = tasks[k].end
    BY <1>a, <2>3, ExceptSeq DEF Futures
  <2> QED  BY <2>1, <2>2, <2>3 DEF Take, FunctionThrows, TaskEnds
<1>4. TasksInv'
  BY <1>1, <1>2, <1>3 DEF IInv, TasksInv
<1>5. RanInv'
  BY <1>1, <1>2 DEF IInv, RanInv, Reached
<1>6. CallerInv'
  BY <1>1, <1>2 DEF IInv, CallerInv
<1> QED  BY <1>2, <1>4, <1>5, <1>6 DEF IInv

LEMMA CallFunctionInv == ASSUME IInv, NEW k \in DOMAIN tasks, CallFunction(k) PROVE IInv'
<1>a. /\ k \in 1 .. Len(tasks) /\ Len(tasks) \in Nat /\ at \in Seq(Int)
      /\ Len(at) = Len(tasks) /\ NumTasks \in Nat /\ Len(tasks) <= NumTasks /\ CallOK
  BY LenProperties, BlockCount, CallTyped DEF IInv, TasksInv, NumTasks
<1>b. /\ UNCHANGED <<call, tasks, future, client, waited, clock, result, fault>>
      /\ future[k] = "running" /\ at[k] < tasks[k].end
      /\ ran' = [ran EXCEPT ![at[k]] = @ + 1] /\ at' = [at EXCEPT ![k] = @ + 1]
  BY DEF CallFunction
<1>c. \A j \in 1 .. Len(tasks) : /\ j \in 1 .. NumTasks
                                 /\ tasks[j] = TaskOf(j) /\ at[j] \in TaskOf(j).start .. TaskOf(j).end
                                 /\ TaskOf(j).start \in Int /\ TaskOf(j).end \in Int
                                 /\ TaskOf(j).start \in Indices
                                 /\ TaskOf(j).end \in call.first + 1 .. call.last
                                 /\ at[j] \in Int
  BY <1>a, TaskIs, TasksInside DEF IInv, TasksInv
<1>d. /\ at' \in Seq(Int) /\ Len(at') = Len(tasks)
      /\ at'[k] = at[k] + 1 /\ \A j \in 1 .. Len(tasks) : j # k => at'[j] = at[j]
  BY <1>a, <1>b, <1>c, ExceptSeq
<1>e. call.first \in Int /\ call.last \in Int
  BY <1>a, CallTyped
<1>f. at[k] \in Indices
  <2>1. TaskOf(k).start \in call.first .. call.last - 1
    BY <1>a, <1>c DEF Indices
  <2>2. /\ TaskOf(k).end \in call.first + 1 .. call.last
        /\ at[k] \in TaskOf(k).start .. TaskOf(k).end /\ at[k] < TaskOf(k).end
    BY <1>a, <1>b, <1>c
  <2> QED  BY <1>e, <2>1, <2>2 DEF Indices
\* No task has reached the index: the others lie apart.
<1>g. \A j \in 1 .. Len(tasks) : ~Reached(at[k], j)
  <2>1. SUFFICES ASSUME NEW j \in 1 .. Len(tasks), Reached(at[k], j) PROVE FALSE
    OBVIOUS
  <2>2. j # k
    BY <1>a, <1>c, <2>1 DEF Reached
  <2>3. TaskOf(j).start <= at[k] /\ at[k] < TaskOf(j).end
    BY <1>a, <1>c, <2>1 DEF Reached
  <2>4. TaskOf(k).start <= at[k] /\ at[k] < TaskOf(k).end
    BY <1>a, <1>b, <1>c
  <2>5. CASE j < k
    BY <1>a, <1>c, <2>3, <2>4, <2>5, TasksApart
  <2>6. CASE k < j
    BY <1>a, <1>c, <2>3, <2>4, <2>6, TasksApart
  <2> QED  BY <1>a, <2>2, <2>5, <2>6
<1>1. CallOK' /\ NumTasks' = NumTasks /\ Indices' = Indices /\ \A j : TaskOf(j)' = TaskOf(j)
  BY <1>a, <1>b, CallStays
<1>2. TasksInv'
  <2>1. ASSUME NEW j \in 1 .. Len(tasks)
        PROVE  /\ at'[j] \in tasks[j].start .. tasks[j].end
               /\ future[j] = "value" => at'[j] = tasks[j].end
    <3>1. CASE j = k
      BY <1>a, <1>b, <1>c, <1>d, <3>1
    <3>2. CASE j # k
      BY <1>d, <3>2 DEF IInv, TasksInv
    <3> QED  BY <3>1, <3>2
  <2> QED  BY <1>b, <1>d, <1>1, <2>1 DEF IInv, TasksInv
<1>3. RanInv'
  <2>1. ran[at[k]] = 0
    BY <1>f, <1>g DEF IInv, RanInv
  <2>2. ran' = [ran EXCEPT ![at[k]] = 1] /\ ran \in [Indices -> {0, 1}]
    BY <1>b, <2>1 DEF IInv, RanInv
  <2>3. ASSUME NEW i \in Indices
        PROVE  ran'[i] = 1 <=> \E j \in 1 .. Len(tasks) : Reached(i, j)'
    <3>0. i \in Int
      BY <1>e DEF Indices
    <3>1. CASE i = at[k]
      <4>1. ran'[i] = 1
        BY <1>f, <2>2, <3>1
      <4>2. Reached(i, k)'
        BY <1>a, <1>b, <1>c, <1>d, <3>1 DEF Reached
      <4> QED  BY <1>a, <4>1, <4>2
    <3>2. CASE i # at[k]
      <4>1. ran'[i] = ran[i]
        BY <2>2, <3>2
      <4>2. ASSUME NEW j \in 1 .. Len(tasks) PROVE Reached(i, j)' <=> Reached(i, j)
        <5>1. CASE j = k
          BY <1>a, <1>b, <1>c, <1>d, <3>0, <3>2, <5>1 DEF Reached
        <5>2. CASE j # k
          BY <1>b, <1>d, <5>2 DEF Reached
        <5> QED  BY <5>1, <5>2
      <4> QED  BY <4>1, <4>2 DEF IInv, RanInv
    <3> QED  BY <3>1, <3>2
  <2>4. ran' \in [Indices -> {0, 1}]
    BY <2>2
  <2>5. Len(tasks') = Len(tasks)
    BY <1>b
  <2> QED  BY <1>1, <2>3, <2>4, <2>5 DEF RanInv
<1>4. CallerInv'
  BY <1>b, <1>1 DEF IInv, CallerInv
<1> QED  BY <1>1, <1>2, <1>3, <1>4 DEF IInv

LEMMA NextInv == IInv /\ [Next]_vars => IInv'
<1> SUFFICES ASSUME IInv, [Next]_vars PROVE IInv'
  OBVIOUS
<1>1. CASE SubmitTask
  BY <1>1, SubmitInv
<1>2. CASE StartWait \/ WaitReturns \/ WaitNext \/ WaitForNext \/ Tick
  BY <1>2, CallerStepInv
<1>3. CASE Worker
  BY <1>3, FutureInv, CallFunctionInv DEF Worker
<1>4. CASE UNCHANGED vars
  <2>1. CallOK' /\ NumTasks' = NumTasks /\ Indices' = Indices /\ \A k : TaskOf(k)' = TaskOf(k)
    BY <1>4, CallStays DEF vars, IInv
  <2>2. TasksInv'
    BY <1>4, <2>1 DEF vars, IInv, TasksInv
  <2>3. RanInv'
    BY <1>4, <2>1 DEF vars, IInv, RanInv, Reached
  <2>4. CallerInv'
    BY <1>4, <2>1 DEF vars, IInv, CallerInv
  <2> QED  BY <2>1, <2>2, <2>3, <2>4 DEF IInv
<1> QED  BY <1>1, <1>2, <1>3, <1>4 DEF Next, Caller, Over

LEMMA Invariance == Spec => []IInv
  BY InitInv, NextInv, PTL DEF Spec
-----------------------------------------------------------------------------
(* What follows from the invariant. *)

LEMMA Tasks ==
  ASSUME IInv, NEW k \in DOMAIN tasks
  PROVE  /\ k \in 1 .. Len(tasks) /\ k \in 1 .. NumTasks /\ tasks[k] = TaskOf(k)
         /\ at[k] \in tasks[k].start .. tasks[k].end
<1>1. k \in 1 .. Len(tasks) /\ Len(tasks) \in Nat
  BY LenProperties DEF IInv, TasksInv
<1>2. NumTasks \in Nat
  BY BlockCount, CallTyped DEF IInv, NumTasks
<1> QED  BY <1>1, <1>2 DEF IInv, TasksInv

\* Type correctness: no block leaves the range it was cut from, however range, number of
\* blocks and threads fall (class blocks, from line 955 of the header).
THEOREM TypeCorrect == Spec => []TypeOK
<1>1. IInv => TypeOK
  <2> SUFFICES ASSUME IInv PROVE TypeOK
    OBVIOUS
  <2>1. \A k \in DOMAIN tasks : /\ tasks[k].start \in Indices
                                /\ tasks[k].end \in call.first + 1 .. call.last
                                /\ at[k] \in tasks[k].start .. tasks[k].end
    BY Tasks, TasksInside DEF IInv
  <2> QED  BY <2>1 DEF IInv, CallOK, TasksInv, CallerInv, TypeOK, Futures
<1> QED  BY <1>1, Invariance, PTL

LEMMA InvOnce == IInv => EachIndexOnce
<1> SUFFICES ASSUME IInv PROVE EachIndexOnce
  OBVIOUS
<1>1. \A i \in Indices : ran[i] <= 1
  BY DEF IInv, RanInv
<1>2. ASSUME client # "submit", \A k \in DOMAIN tasks : future[k] = "value",
             NEW i \in Indices
      PROVE  ran[i] = 1
  <2>1. PICK k \in 1 .. NumTasks : Between(i, k)
    BY TasksCover DEF IInv
  <2>2. k \in 1 .. Len(tasks) /\ k \in DOMAIN tasks
    BY <1>2, <2>1, LenProperties DEF IInv, CallerInv, TasksInv
  <2>3. tasks[k] = TaskOf(k) /\ at[k] = tasks[k].end
    BY <1>2, <2>2 DEF IInv, TasksInv
  <2>4. Reached(i, k)
    BY <2>1, <2>3 DEF Reached, Between
  <2> QED  BY <2>2, <2>4 DEF IInv, RanInv
<1> QED  BY <1>1, <1>2 DEF EachIndexOnce

\* The loops and sequences hand every index of the range to the function once: blocks
\* neither overlap nor leave a gap at the remainder.
THEOREM IndicesOnce == Spec => []EachIndexOnce
  BY InvOnce, Invariance, PTL

\* The remainder of the division is spread (lines 973 and 994 of the header): the blocks
\* of a loop differ by one index at most.
THEOREM Balanced == Spec => []BlocksBalanced
<1>1. IInv => BlocksBalanced
  BY Tasks, TaskLengths DEF IInv, BlocksBalanced
<1> QED  BY <1>1, Invariance, PTL
-----------------------------------------------------------------------------
(* The waits.  A future that wait has gone past is ready, one that get has gone past holds a
   value, and what a future holds it keeps. *)

PastInv ==
    /\ client = "submit" => waited = 0
    /\ client # "returned" => result = "none"
    /\ client = "wait" => \A k \in 1 .. waited : Ready(k)
    /\ client = "get" => \A k \in 1 .. waited : future[k] = "value"

LEMMA WorkerKeepsReady ==
  ASSUME IInv, Worker, NEW j \in 1 .. Len(tasks), Ready(j)
  PROVE  future'[j] = future[j]
<1>1. future \in Seq(Futures) /\ Len(future) = Len(tasks) /\ Len(tasks) \in Nat
  BY LenProperties DEF IInv, TasksInv
<1>2. PICK k \in DOMAIN tasks : Take(k) \/ CallFunction(k) \/ FunctionThrows(k) \/ TaskEnds(k)
  BY DEF Worker
<1>3. k \in 1 .. Len(tasks) /\ k # j
  BY <1>1, <1>2, LenProperties
  DEF IInv, TasksInv, Take, CallFunction, FunctionThrows, TaskEnds, Ready
<1>4. future' = future \/ \E f \in Futures : future' = [future EXCEPT ![k] = f]
  BY <1>2 DEF Take, CallFunction, FunctionThrows, TaskEnds, Futures
<1> QED  BY <1>1, <1>3, <1>4, ExceptSeq

LEMMA PastInductive == IInv /\ PastInv /\ [Next]_vars => PastInv'
<1> SUFFICES ASSUME IInv, PastInv, [Next]_vars PROVE PastInv'
  OBVIOUS
<1>1. waited \in Nat /\ waited <= Len(tasks) /\ Len(tasks) \in Nat
  BY LenProperties DEF IInv, TasksInv, CallerInv
<1>2. CASE SubmitTask
  BY <1>2 DEF PastInv, SubmitTask
<1>3. CASE StartWait
  BY <1>3 DEF PastInv, StartWait, Waits
<1>4. CASE WaitReturns
  BY <1>4 DEF PastInv, WaitReturns, ReturnWith
<1>5. CASE WaitNext
  <2>1. client \in {"wait", "get"} /\ future' = future /\ Ready(waited + 1)
    BY <1>5 DEF WaitNext, NextFuture
  <2>2. CASE client = "get" /\ future[waited + 1] = "exception"
    <3>1. client' = "returned"
      BY <1>5, <2>2 DEF WaitNext, NextFuture, ReturnWith
    <3> QED  BY <3>1 DEF PastInv
  <2>3. CASE ~(client = "get" /\ future[waited + 1] = "exception")
    <3>1. waited' = waited + 1 /\ client' = client /\ result' = result
      BY <1>5, <2>3 DEF WaitNext, NextFuture, GoPast
    <3>2. client = "get" => future[waited + 1] = "value"
      BY <2>1, <2>3 DEF Ready
    <3>3. \A k \in 1 .. waited + 1 : k \in 1 .. waited \/ k = waited + 1
      BY <1>1
    <3> QED  BY <2>1, <3>1, <3>2, <3>3 DEF PastInv, Ready
  <2> QED  BY <2>2, <2>3
<1>6. CASE WaitForNext
  BY <1>6 DEF PastInv, WaitForNext, GoPast, ReturnWith
<1>7. CASE Tick
  BY <1>7 DEF PastInv, Tick
<1>8. CASE Worker
  <2>1. UNCHANGED <<client, waited, result>>
    BY <1>8 DEF Worker, Take, CallFunction, FunctionThrows, TaskEnds
  <2>2. \A k \in 1 .. waited : k \in 1 .. Len(tasks)
    BY <1>1
  <2>3. \A k \in 1 .. waited : Ready(k) => future'[k] = future[k]
    BY <1>8, <2>2, WorkerKeepsReady
  <2> QED  BY <2>1, <2>3 DEF PastInv, Ready
<1>9. CASE UNCHANGED vars
  BY <1>9 DEF PastInv, Ready, vars
<1> QED  BY <1>2, <1>3, <1>4, <1>5, <1>6, <1>7, <1>8, <1>9 DEF Next, Caller, Over

\* get of a multi_future (line 187 of the header): results are returned only when every
\* index of the range has been handled, and an exception is that of the first task that
\* threw, for every range, division and set of indices at which the function throws.
THEOREM GetKnows == Spec => GetIsComplete
<1>1. Init => PastInv
  BY DEF Init, PastInv
<1>2. IInv /\ PastInv /\ [Next]_vars =>
         [client = "get" /\ client' = "returned" =>
            IF result' = "exception"
            THEN /\ future[NextFuture] = "exception"
                 /\ \A k \in 1 .. waited : future[k] = "value"
            ELSE \A i \in Indices : ran[i] = 1]_vars
  <2> SUFFICES ASSUME IInv, PastInv, Next, client = "get", client' = "returned"
               PROVE  IF result' = "exception"
                      THEN /\ future[NextFuture] = "exception"
                           /\ \A k \in 1 .. waited : future[k] = "value"
                      ELSE \A i \in Indices : ran[i] = 1
    BY DEF vars
  <2>1. \A k \in 1 .. waited : future[k] = "value"
    BY DEF PastInv
  <2>2. WaitReturns \/ WaitNext
    BY DEF Next, Caller, SubmitTask, StartWait, WaitForNext, Tick, Over, vars,
           Worker, Take, CallFunction, FunctionThrows, TaskEnds
  <2>3. CASE WaitReturns
    <3>1. waited = Len(tasks) /\ result' = "done"
      BY <2>3 DEF WaitReturns, ReturnWith
    <3>2. \A k \in DOMAIN tasks : future[k] = "value"
      BY <2>1, <3>1, LenProperties DEF IInv, TasksInv
    <3>3. EachIndexOnce
      BY InvOnce
    <3> QED  BY <3>1, <3>2, <3>3 DEF EachIndexOnce
  <2>4. CASE WaitNext
    BY <2>1, <2>4 DEF WaitNext, GoPast, ReturnWith
  <2> QED  BY <2>2, <2>3, <2>4
<1> QED  BY <1>1, <1>2, PastInductive, Invariance, PTL DEF Spec, GetIsComplete

\* When all tasks have ended, with a value or an exception, every index is settled.
LEMMA ReadySettles ==
  ASSUME IInv, client # "submit", \A k \in DOMAIN tasks : Ready(k), NEW i \in Indices
  PROVE  Settled(i)
<1>1. PICK k \in 1 .. NumTasks : Between(i, k)
  BY TasksCover DEF IInv
<1>2. k \in 1 .. Len(tasks) /\ k \in DOMAIN tasks
  BY <1>1, LenProperties DEF IInv, CallerInv, TasksInv
<1>3. /\ tasks[k] = TaskOf(k) /\ at[k] \in tasks[k].start .. tasks[k].end
      /\ future[k] = "value" => at[k] = tasks[k].end
      /\ TaskOf(k).start \in Int /\ TaskOf(k).end \in Int
  BY <1>1, <1>2, TaskIs DEF IInv, TasksInv
<1>4. i \in Int
  BY CallTyped DEF IInv, Indices
<1>5. CASE i < at[k]
  <2>1. Reached(i, k)
    BY <1>1, <1>3, <1>5 DEF Reached, Between
  <2> QED  BY <1>2, <2>1 DEF IInv, RanInv, Settled
<1>6. CASE ~(i < at[k])
  <2>1. i \in at[k] .. tasks[k].end - 1
    BY <1>1, <1>3, <1>4, <1>6 DEF Between
  <2>2. future[k] = "exception"
    BY <1>2, <1>3, <2>1 DEF Ready
  <2> QED  BY <1>2, <2>1, <2>2 DEF Settled
<1> QED  BY <1>5, <1>6

\* wait and get of a multi_future and wait of the pool (lines 187, 237 and 761 of the header)
\* return when the function is not called any more and no index is left, for every range,
\* division and set of indices at which the function throws.
THEOREM WaitsSettle == Spec => DoneIsHandled
<1>1. Init => PastInv
  BY DEF Init, PastInv
<1>2. IInv /\ PastInv /\ [Next]_vars =>
         [result' = "done" /\ client \in {"wait", "get", "pool_wait"} =>
            (\A k \in DOMAIN tasks : Ready(k)) /\ (\A i \in Indices : Settled(i))]_vars
  <2> SUFFICES ASSUME IInv, PastInv, Next, result' = "done", vars' # vars,
                      client \in {"wait", "get", "pool_wait"}
               PROVE  (\A k \in DOMAIN tasks : Ready(k)) /\ (\A i \in Indices : Settled(i))
    BY DEF vars
  <2>1. result = "none"
    BY DEF PastInv
  <2>2. WaitReturns
    BY <2>1 DEF Next, Caller, SubmitTask, StartWait, WaitNext, GoPast, ReturnWith, WaitForNext,
                Tick, Over, Worker, Take, CallFunction, FunctionThrows, TaskEnds
  <2>3. \A k \in DOMAIN tasks : Ready(k)
    <3>1. CASE client = "pool_wait"
      BY <2>2, <3>1 DEF WaitReturns
    <3>2. CASE client \in {"wait", "get"}
      <4>1. waited = Len(tasks) /\ DOMAIN tasks = 1 .. Len(tasks)
        BY <2>2, <3>2, LenProperties DEF WaitReturns, IInv, TasksInv
      <4> QED  BY <3>2, <4>1 DEF PastInv, Ready
    <3> QED  BY <3>1, <3>2
  <2> QED  BY <2>3, ReadySettles
<1> QED  BY <1>1, <1>2, PastInductive, Invariance, PTL DEF Spec, DoneIsHandled
=============================================================================
