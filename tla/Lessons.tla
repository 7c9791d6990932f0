------------------------------- MODULE Lessons -------------------------------
(***************************************************************************)
(* Programs of SystemC/learnSystemCFiles, each a lesson about one feature   *)
(* of the kernel: event.cpp, eventqueue.cpp, init.cpp, mutex.cpp,           *)
(* semaphore.cpp, signal.cpp, sc_cthread.cpp and Multiply.cpp.  The initial *)
(* state chooses the program; an action is what one of its processes does   *)
(* from one wait to the next.                                               *)
(***************************************************************************)
EXTENDS SystemCKernel, Functions, SequencesExt

CONSTANTS
    Threads,     \* the threads of each lesson about a lock, and how many of them
    Resources,   \* may hold it
    vec1, vec2,  \* the signals of the two vectors of one vector_mul (Multiply.cpp)
    INT_MAX,     \* the largest int (2^31 - 1)
    Inputs       \* what rand() may give an element of a vector

Locks == {"mutex", "semaphore"}

\* The elements of a vector.
VEC_WIDTH == Len(vec1)
Elements == 1 .. VEC_WIDTH

\* Two threads for a mutex, three for two resources of a semaphore.  signal.cpp writes 5.
ASSUME LessonsAssumption ==
    /\ \A l \in Locks : /\ IsFiniteSet(Threads[l]) /\ Resources[l] \in Nat \ {0}
                        /\ Cardinality(Threads[l]) <= 2 * Resources[l]
    /\ vec1 \in Seq(STRING) /\ vec2 \in Seq(STRING) /\ Len(vec2) = VEC_WIDTH
    /\ (Range(vec1) \cup Range(vec2)) \cap {"clk", "rst_n", "vec_o"} = {}
    /\ INT_MAX \in Nat /\ INT_MAX >= 5
    /\ Inputs \subseteq 0 .. INT_MAX - 1 /\ Inputs # {}

VARIABLES
    program,
    member,     \* the members of the modules that are numbers
    printed     \* printed[p]: the times or numbers process p has printed

vars == <<now, process, due, signal, program, member, printed>>

Programs ==
    {"event", "eventqueue", "init", "mutex", "semaphore", "signal", "cthread", "Multiply"}

\* The time of sc_start; a second, and 10 ns in sc_cthread.cpp, a nanosecond in
\* Multiply.cpp.  signal.cpp runs until nothing is left.
End == CASE program = "event" -> 8
         [] program = "eventqueue" -> 20
         [] program \in {"init", "mutex", "semaphore"} -> 4
         [] program = "signal" -> 1
         [] program = "cthread" -> 20
         [] program = "Multiply" -> 10

e == <<"e", "event">>
eq == <<"eq", "event">>
free == <<"free", "event">>
pos == <<"clk", "pos">>
neg == <<"clk", "neg">>

\* The processes a program registers: runnable at time 0 unless dont_initialize says not.
Processes(pr) ==
    CASE pr = "event" -> [trigger |-> RunnableAt("start"), catcher |-> RunnableAt("start")]
      [] pr = "eventqueue" -> [trigger |-> RunnableAt("start"),
                               catch_e |-> WaitingFor("loop", {e}),
                               catch_eq |-> WaitingFor("loop", {eq})]
      [] pr = "init" -> [trigger |-> RunnableAt("start"), catcher_1 |-> RunnableAt("loop"),
                         catcher_2 |-> RunnableAt("start"),
                         catcher_3 |-> WaitingFor("loop", {e})]
      [] pr \in Locks -> [p \in Threads[pr] |-> RunnableAt("try")]
      [] pr = "signal" -> [readwrite |-> RunnableAt("start")]
      [] pr = "cthread" -> [clk |-> RunnableAt("toggle"), DoTest |-> WaitingFor("loop", {pos}),
                            GenData |-> WaitingFor("method", {pos})]
      [] pr = "Multiply" -> [clk |-> RunnableAt("toggle"),
                             compute_vector_mul |-> RunnableAt("method"),
                             generate_input |-> RunnableAt("start"),
                             generate_reset |-> RunnableAt("start")]

Signals(pr) ==
    CASE pr = "signal" -> {"s"}
      [] pr = "cthread" -> {"clk", "val"}
      [] pr = "Multiply" -> {"clk", "rst_n", "vec_o"} \cup Range(vec1) \cup Range(vec2)
      [] OTHER -> {}

\* signal.cpp writes -1 before the simulation starts, and the kernel updates signals
\* before it runs the first process.
Init ==
    /\ program \in Programs
    /\ now = 0
    /\ process = Processes(program)
    /\ due = [x \in {"e", "eq"} |-> {}]
    /\ signal = [s \in Signals(program) |->
                  LET v == IF program = "signal" THEN -1 ELSE 0 IN [value |-> v, next |-> v]]
    /\ member = [value |-> IF program \in Locks THEN Resources[program] ELSE 0,
                 index |-> 0, index_ |-> 0, valid |-> 0]
    /\ printed = [p \in DOMAIN process |-> << >>]

Prints(p, x) == printed' = [printed EXCEPT ![p] = Append(@, x)]
-----------------------------------------------------------------------------
(***************************************************************************)
(* event.cpp, eventqueue.cpp, init.cpp                                      *)
(***************************************************************************)

\* event.cpp: in the fourth second the notification is taken back.
EventTrigger ==
    /\ program = "event" /\ Runs("trigger", "start")
    /\ due' = [due EXCEPT !["e"] = IF now = 4 THEN {} ELSE NotifyAt(@, now + 1)]
    /\ process' = Wait("trigger", "start", 2)
    /\ UNCHANGED <<now, signal, program, member, printed>>

QueueTrigger ==
    /\ program = "eventqueue" /\ Runs("trigger", "start")
    /\ due' = [due EXCEPT
                 !["e"] = NotifyAt(NotifyAt(@, now + 2), now + 1),
                 !["eq"] = QueueNotifyAt(QueueNotifyAt(@, now + 2), now + 1)]
    /\ process' = Wait("trigger", "start", 10)
    /\ UNCHANGED <<now, signal, program, member, printed>>

InitTrigger ==
    /\ program = "init" /\ Runs("trigger", "start")
    /\ due' = [due EXCEPT !["e"] = NotifyAt(@, now + 1)]
    /\ process' = Wait("trigger", "start", 2)
    /\ UNCHANGED <<now, signal, program, member, printed>>

Catchers == {"catcher", "catch_e", "catch_eq", "catcher_1", "catcher_2", "catcher_3"}
CaughtBy(p) == {IF p = "catch_eq" THEN eq ELSE e}

\* A catcher that waits before it prints anything.
BeginCatching(p) ==
    /\ program \in {"event", "init"} /\ Runs(p, "start")
    /\ process' = WaitFor(p, "loop", CaughtBy(p))
    /\ UNCHANGED <<now, due, signal, program, member, printed>>

Catch(p) ==
    /\ program \in {"event", "eventqueue", "init"} /\ Runs(p, "loop")
    /\ Prints(p, now)
    /\ process' = WaitFor(p, "loop", CaughtBy(p))
    /\ UNCHANGED <<now, due, signal, program, member>>
-----------------------------------------------------------------------------
(***************************************************************************)
(* mutex.cpp, semaphore.cpp.  A mutex is a semaphore with one resource.     *)
(***************************************************************************)
\* trylock, and lock when it fails: `while (in_use()) wait(free)'.
Obtain(p) ==
    /\ program \in Locks /\ (Runs(p, "try") \/ Runs(p, "blocked"))
    /\ IF member.value > 0
       THEN /\ member' = [member EXCEPT !.value = @ - 1]
            /\ Prints(p, now)
            /\ process' = Wait(p, "hold", 1)
       ELSE process' = WaitFor(p, "blocked", {free}) /\ UNCHANGED <<member, printed>>
    /\ UNCHANGED <<now, due, signal, program>>

\* Mutant: without the last wait, the thread goes on to the trylock.
ReleaseAndTry(p) ==
    /\ program \in Locks /\ Runs(p, "hold")
    /\ Prints(p, now)
    /\ process' = Notify(Wait(p, "hold", 1), "free")
    /\ UNCHANGED <<now, due, signal, program, member>>

\* unlock or post, and the wait that lets the others have it.
Release(p) ==
    /\ program \in Locks /\ Runs(p, "hold")
    /\ member' = [member EXCEPT !.value = @ + 1]
    /\ process' = Notify(Wait(p, "try", 0), "free")
    /\ UNCHANGED <<now, due, signal, program, printed>>
-----------------------------------------------------------------------------
(***************************************************************************)
(* signal.cpp                                                               *)
(***************************************************************************)
FirstWrite ==
    /\ program = "signal" /\ Runs("readwrite", "start")
    /\ signal' = Write(signal, "s", 3)
    /\ Prints("readwrite", signal'["s"].value)
    /\ process' = Wait("readwrite", "second", 0)
    /\ UNCHANGED <<now, due, program, member>>

\* It prints the signal before and after it has written it twice.
SecondWrite ==
    /\ program = "signal" /\ Runs("readwrite", "second")
    /\ signal' = Write(Write(signal, "s", 4), "s", 5)
    /\ printed' = [printed EXCEPT !["readwrite"] = @ \o <<Read("s"), signal'["s"].value>>]
    /\ process' = Wait("readwrite", "third", 0)
    /\ UNCHANGED <<now, due, program, member>>

LastRead ==
    /\ program = "signal" /\ Runs("readwrite", "third")
    /\ Prints("readwrite", Read("s"))
    /\ process' = WaitFor("readwrite", "end", {})
    /\ UNCHANGED <<now, due, signal, program, member>>
-----------------------------------------------------------------------------
(***************************************************************************)
(* sc_cthread.cpp                                                           *)
(***************************************************************************)

\* sc_clock: a rising edge at time 0, then one edge in every half period.
HalfPeriod == IF program = "cthread" THEN 1 ELSE 5
Toggle ==
    /\ program \in {"cthread", "Multiply"} /\ Runs("clk", "toggle")
    /\ signal' = Write(signal, "clk", 1 - Read("clk"))
    /\ process' = Wait("clk", "toggle", HalfPeriod)
    /\ UNCHANGED <<now, due, program, member, printed>>

\* The clocked thread begins again at an edge at which it reads its reset signal as true;
\* at its first one it begins as well.
DoTest ==
    /\ program = "cthread" /\ Runs("DoTest", "loop")
    /\ member' = [member EXCEPT !.index = IF Read("val") = 1 THEN 1 ELSE @ + 1]
    /\ Prints("DoTest", member'.index)
    /\ process' = WaitFor("DoTest", "loop", {pos})
    /\ UNCHANGED <<now, due, signal, program>>

GenData ==
    /\ program = "cthread" /\ Runs("GenData", "method")
    /\ LET i == member.index_ + 1
           flips == i % 2 = 0
           v == IF flips THEN 1 - member.valid ELSE member.valid
       IN  /\ member' = [member EXCEPT !.index_ = i, !.valid = v]
           /\ signal' = IF flips THEN Write(signal, "val", v) ELSE signal
    /\ process' = WaitFor("GenData", "method", {pos})
    /\ UNCHANGED <<now, due, program, printed>>
-----------------------------------------------------------------------------
(***************************************************************************)
(* Multiply.cpp, with one of the vector_mul of its matrix_vector_mul.       *)
(***************************************************************************)

\* Mutant: temp has the width of the output.
ToLong(x) == x

\* The value of an int after an assignment.
ToInt(x) == ((x + INT_MAX + 1) % (2 * INT_MAX + 2)) - INT_MAX - 1

\* The products of the elements, and their sum in temp: an int, although the output is as
\* wide as a product.
Products == [i \in Elements |-> Read(vec1[i]) * Read(vec2[i])]
Temp(xs) ==
    LET temp[i \in 0 .. VEC_WIDTH] == IF i = 0 THEN 0 ELSE ToInt(temp[i - 1] + xs[i])
    IN  temp[VEC_WIDTH]
Dot == Temp(Products)

ComputeVectorMul ==
    /\ program = "Multiply" /\ Runs("compute_vector_mul", "method")
    /\ signal' = Write(signal, "vec_o", IF Read("rst_n") = 0 THEN 0 ELSE Dot)
    /\ process' = WaitFor("compute_vector_mul", "method", {pos, <<"rst_n", "neg">>})
    /\ UNCHANGED <<now, due, program, member, printed>>

\* Both vectors get new numbers at time 0 and at every falling edge.
GenerateInput ==
    /\ program = "Multiply" /\ Runs("generate_input", "start")
    /\ \E rand \in [Range(vec1) \cup Range(vec2) -> Inputs] :
         signal' = [s \in DOMAIN signal |->
             IF s \in DOMAIN rand THEN [signal[s] EXCEPT !.next = rand[s]] ELSE signal[s]]
    /\ process' = WaitFor("generate_input", "start", {neg})
    /\ UNCHANGED <<now, due, program, member, printed>>

\* rst_n is low from the first to the second nanosecond.
GenerateReset ==
    /\ program = "Multiply"
    /\ \E pc \in {"start", "low", "high"} : Runs("generate_reset", pc)
    /\ LET pc == process["generate_reset"].pc IN
         /\ signal' = Write(signal, "rst_n", IF pc = "low" THEN 0 ELSE 1)
         /\ process' = CASE pc = "start" -> Wait("generate_reset", "low", 1)
                         [] pc = "low" -> Wait("generate_reset", "high", 1)
                         [] pc = "high" -> WaitFor("generate_reset", "end", {})
    /\ UNCHANGED <<now, due, program, member, printed>>
-----------------------------------------------------------------------------
Kernel ==
    /\ DeltaCycle \/ TimeAdvances(End)
    /\ UNCHANGED <<program, member, printed>>

Ended == SimulationEnds(End) /\ UNCHANGED vars

Next ==
    \/ EventTrigger \/ QueueTrigger \/ InitTrigger
    \/ \E p \in Catchers : BeginCatching(p) \/ Catch(p)
    \/ \E p \in DOMAIN process : Obtain(p) \/ Release(p)
    \/ FirstWrite \/ SecondWrite \/ LastRead
    \/ Toggle \/ DoTest \/ GenData
    \/ ComputeVectorMul \/ GenerateInput \/ GenerateReset
    \/ Kernel \/ Ended

Spec == Init /\ [][Next]_vars
-----------------------------------------------------------------------------
\* Type invariant: an output of Multiply.cpp never leaves the range of an int, and a
\* semaphore never goes below zero nor above its resources.
IntRange == -INT_MAX - 1 .. INT_MAX
Labels == {"start", "second", "third", "loop", "end", "try", "blocked", "hold", "toggle", "method",
           "low", "high"}
Events == {e, eq, free, pos, neg, <<"rst_n", "neg">>}
TypeOK ==
    /\ program \in Programs /\ now \in 0 .. End
    /\ \A p \in DOMAIN process :
         process[p] \in [pc : Labels, runs : BOOLEAN, on : SUBSET Events, until : Int]
    /\ \A x \in DOMAIN due : \A t \in due[x] : t > now
    /\ \A s \in DOMAIN signal : signal[s] \in [value : IntRange, next : IntRange]
    /\ member.value \in 0 .. (IF program \in Locks THEN Resources[program] ELSE 0)
    /\ member.valid \in {0, 1} /\ member.index \in Nat /\ member.index_ \in Nat
    /\ \A p \in DOMAIN printed : printed[p] \in Seq(Int)

\* mutex.cpp:23 and semaphore.cpp:21, "give time for the other process to lock": no more
\* threads hold a resource than there are, none of them is lost, and a thread gets one
\* again two seconds after the last time, one to hold it and one to wait, although the
\* threads that release may run before the one they wake.
TurnTaking ==
    program \in Locks =>
        /\ member.value + Cardinality({p \in DOMAIN process : process[p].pc = "hold"})
             = Resources[program]
        /\ \A p \in DOMAIN process :
             now <= 2 + (IF printed[p] = << >> THEN 0 ELSE Last(printed[p]))

\* What the comments of the lessons say is printed; sc_cthread.cpp has none about its output,
\* and the sequence is worked out from its code: every reset starts again at 1.
Expected ==
    CASE program = "event" -> [catcher |-> <<1, 3, 7>>]               \* none in second 5
      [] program = "eventqueue" -> [catch_e |-> <<1, 11>>,            \* the earlier one only
                                    catch_eq |-> <<1, 2, 11, 12>>]    \* both
      [] program = "init" -> [catcher_1 |-> <<0, 1, 3>>, catcher_2 |-> <<1, 3>>,
                              catcher_3 |-> <<1, 3>>]
      [] program = "signal" -> [readwrite |-> <<-1, 3, 3, 5>>]
      [] program = "cthread" -> [DoTest |-> <<1, 2, 1, 1, 2, 3, 1, 1, 2, 3>>]
      [] OTHER -> << >>

\* The standard leaves open which process runs first, and the lessons do not depend on it:
\* one or several notifications and a reset that is written at the very edge that reads it
\* end as if there were one order.
SameInEveryOrder ==
    SimulationEnds(End) => \A p \in DOMAIN Expected : printed[p] = Expected[p]

\* The sum of some numbers, of any size.
Total(xs) ==
    LET sum[i \in 0 .. VEC_WIDTH] == IF i = 0 THEN 0 ELSE sum[i - 1] + xs[i]
    IN  sum[VEC_WIDTH]

\* Multiply.cpp: in every order of the processes that write the inputs, the clock and the
\* reset and of the one that reads them, and although temp is cut in every turn, the output
\* is the product, cut to an int once, until the reset, and 0 after it.
OutputIsProduct ==
    program = "Multiply" /\ Quiet =>
        Read("vec_o") = IF now > 0 THEN 0 ELSE ToInt(Total(Products))
=============================================================================
