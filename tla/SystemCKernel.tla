---------------------------- MODULE SystemCKernel ----------------------------
(***************************************************************************)
(* The simulation kernel of SystemC, as far as the lessons of               *)
(* SystemC/learnSystemCFiles rely on it: processes that run one at a time   *)
(* from wait to wait, events, event queues, signals, delta cycles and time. *)
(* Which of the runnable processes goes first is left open.                 *)
(*                                                                         *)
(* An event is a pair: <<e, "event">>, or an edge of a signal, <<s, "pos">> *)
(* or <<s, "neg">>.  A boolean signal has the values 0 and 1.               *)
(***************************************************************************)
EXTENDS Integers, FiniteSets, FiniteSetsExt

VARIABLES
    now,       \* the simulation time
    process,   \* process[p]: where it goes on, whether it is runnable, what it waits for
    due,       \* due[e]: the times for which a notification of e is pending
    signal     \* signal[s]: what is read, and what the update phase will make of it

Never == -1

\* A process that can run, and one that waits for events or for a time.
RunnableAt(pc) == [pc |-> pc, runs |-> TRUE, on |-> {}, until |-> Never]
WaitingFor(pc, events) == [pc |-> pc, runs |-> FALSE, on |-> events, until |-> Never]
WaitingUntil(pc, time) == [pc |-> pc, runs |-> FALSE, on |-> {}, until |-> time]

Runs(p, pc) == p \in DOMAIN process /\ process[p].runs /\ process[p].pc = pc

\* wait(events), and wait(t), where SC_ZERO_TIME waits for the next delta cycle.
WaitFor(p, pc, events) == [process EXCEPT ![p] = WaitingFor(pc, events)]
Wait(p, pc, t) == [process EXCEPT ![p] = WaitingUntil(pc, now + t)]

Wake(procs, S) ==
    [p \in DOMAIN procs |-> IF p \in S THEN RunnableAt(procs[p].pc) ELSE procs[p]]
WaitersOf(procs, events) == {p \in DOMAIN procs : procs[p].on \cap events # {}}

\* sc_event::notify(): whoever waits for the event runs in this same phase.
Notify(procs, e) == Wake(procs, WaitersOf(procs, {<<e, "event">>}))

\* Mutant: an event keeps all its notifications, as an event queue does.
NotifyAtAdds(S, time) == S \cup {time}

\* sc_event::notify(t): an event has one notification, the earliest.
NotifyAt(S, time) == IF S = {} THEN {time} ELSE {Min(S \cup {time})}

\* sc_event_queue::notify(t): each notification is kept.
QueueNotifyAt(S, time) == S \cup {time}

Read(s) == signal[s].value

\* Mutant: a signal changes as soon as it is written.
WriteThrough(sigs, s, v) == [sigs EXCEPT ![s] = [value |-> v, next |-> v]]

Write(sigs, s, v) == [sigs EXCEPT ![s].next = v]

\* The update phase changes the signals that were written; an edge is notified in the
\* delta cycle that follows.
Changed == {s \in DOMAIN signal : signal[s].value # signal[s].next}
Edges == {<<s, IF signal[s].next > signal[s].value THEN "pos" ELSE "neg">> : s \in Changed}

EvaluationEnds == \A p \in DOMAIN process : ~process[p].runs
DeltaWaiters == {p \in DOMAIN process : process[p].until = now}
Quiet == EvaluationEnds /\ Changed = {} /\ DeltaWaiters = {}

DeltaCycle ==
    /\ EvaluationEnds /\ ~Quiet
    /\ signal' = [s \in DOMAIN signal |-> [signal[s] EXCEPT !.value = signal[s].next]]
    /\ process' = Wake(process, DeltaWaiters \cup WaitersOf(process, Edges))
    /\ UNCHANGED <<now, due>>

Pending == (UNION {due[e] : e \in DOMAIN due})
           \cup {process[p].until : p \in {q \in DOMAIN process : process[q].until > now}}

\* The events with a notification for this time.
Notified(time) == {e \in DOMAIN due : time \in due[e]}

\* sc_start(end) stops before it evaluates the processes of the time `end'.
TimeAdvances(end) ==
    /\ Quiet /\ Pending # {} /\ Min(Pending) < end
    /\ now' = Min(Pending)
    /\ due' = [e \in DOMAIN due |-> due[e] \ {now'}]
    /\ process' = Wake(process,
           {p \in DOMAIN process : process[p].until = now'}
           \cup WaitersOf(process, {<<e, "event">> : e \in Notified(now')}))
    /\ UNCHANGED signal

SimulationEnds(end) == Quiet /\ \A t \in Pending : t >= end
=============================================================================
