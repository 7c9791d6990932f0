-------------------------- MODULE CommandProcessor --------------------------
(***************************************************************************)
(* cp_model: a command processor (cp.cpp), QNUM queues (ajqueue.cpp) and    *)
(* the host thread that moves the write pointer of the ring (main.cpp).     *)
(*                                                                         *)
(* All of them are SC_THREADs.  The SystemC kernel runs one thread at a     *)
(* time, from one wait() to the next, in an order that the standard leaves  *)
(* open: an action is what a thread does between two waits, whole, with     *)
(* the b_transport calls it makes into other modules.  Every timed wait of  *)
(* the program is a whole number of nanoseconds and every notify() is       *)
(* immediate, so a nanosecond has one evaluation phase, and Tick takes the  *)
(* kernel to the next one when no thread is left to run.                    *)
(*                                                                         *)
(* A word of queue bits (all_queue_status, queue_mask) is the set of the    *)
(* queues whose bit is 1.                                                   *)
(***************************************************************************)
EXTENDS PacketHeader

CONSTANTS
    QNUM,      \* the number of queues (cp.h:15)
    RBuf,      \* the address the host writes in the ring (ring_data)
    IbSize,    \* dwords of the indirect buffer at that address
    Ibufs      \* what the host may have written in it

ASSUME QnumAssumption == QNUM \in Nat \ {0}
ASSUME RbufAssumption == RBuf \in Nat \ {0}
ASSUME IbufAssumption == /\ IbSize \in Nat \ {0}
                         /\ Ibufs \subseteq [0 .. IbSize - 1 -> Word]

VARIABLES
    ibuf,         \* the indirect buffer, written before the simulation starts
    cp,           \* the command processor: registers, last message, thread
    queue,        \* the queues: registers, last message, thread
    device_sync,  \* device_sync.triggered(): notified in this phase
    wptr_update,  \* wptr_update.triggered(): notified in this phase
    host_delay,   \* nanoseconds the host thread still sleeps
    fault         \* what ended the simulation, "none" while it runs

vars == <<ibuf, cp, queue, device_sync, wptr_update, host_delay, fault>>

CP_QUEUE_FREE == 0
CP_QUEUE_BUSY == 1
CP_DEVICE_SYNC == 1

Queues == 0 .. QNUM - 1
AddrMap == {RBuf}                     \* the keys of the map: one entry
WptrPeriod == 3                       \* wait(3, SC_NS) in NotifyWptr

\* Message without its queue_id: the sender writes that one just before every
\* send and the receiver copies it to its own queue_id at once, so it is a
\* parameter of the transfer.
Message == [queue_status : {CP_QUEUE_FREE, CP_QUEUE_BUSY}, queue_sync : {0, CP_DEVICE_SYNC},
            ib_size : {0, IbSize}, addr : {0, RBuf}]

\* A thread is parked on its event ("wait"), woken by it ("ready"), or inside a
\* timed wait of `delay' nanoseconds, named for what follows the wait.
Reporting == {"sync_report", "release_report", "end_report"}

CpState == [pc : {"wait", "ready", "delay"}, delay : {0, 1},
            queue_id : Queues, queue_status : {CP_QUEUE_FREE, CP_QUEUE_BUSY},
            queue_sync : {0, CP_DEVICE_SYNC}, mes : Message,
            all_queue_status : SUBSET Queues, queue_mask : SUBSET Queues]

QueueState == [pc : {"wait", "ready", "command"} \cup Reporting, delay : {0, 1},
               queue_id : Queues, queue_status : {CP_QUEUE_FREE, CP_QUEUE_BUSY},
               queue_sync : {0, CP_DEVICE_SYNC}, mes : Message,
               ib_size : {0, IbSize}, ib_offset : Nat, queue_pause : BOOLEAN]

\* Type invariant.
TypeOK ==
    /\ ibuf \in Ibufs
    /\ cp \in CpState
    /\ queue \in [Queues -> QueueState]
    /\ device_sync \in BOOLEAN
    /\ wptr_update \in BOOLEAN
    /\ host_delay \in 0 .. WptrPeriod
    /\ fault \in {"none", "no_free_queue", "no_indirect_buffer"}
-----------------------------------------------------------------------------
(***************************************************************************)
(* AJQueue.  `s' is the state of one queue.                                 *)
(***************************************************************************)

\* b_transport: takes the message of the command processor over, whatever the
\* thread of the queue is doing; the notification only reaches a parked thread.
Receive(s, id, m) ==
    [s EXCEPT !.mes = m, !.queue_id = id,
              !.queue_status = m.queue_status, !.queue_sync = m.queue_sync,
              !.pc = IF @ = "wait" THEN "ready" ELSE @]

\* QueueReportCp up to the wait inside AJCpModule::b_transport; `pc' says what
\* follows that wait.
QueueReportCp(s, sync, status, pc) ==
    [s EXCEPT !.queue_sync = sync, !.queue_status = status,
              !.mes = [queue_status |-> status, queue_sync |-> sync, ib_size |-> 0, addr |-> 0],
              !.pc = pc, !.delay = 1]

\* Mutant: the offset is cleared with every iteration, not only with a release.
EndReportClears(s) ==
    QueueReportCp([s EXCEPT !.ib_offset = 0], CP_DEVICE_SYNC, s.queue_status, "end_report")

\* The report with which Thread_Queue ends an iteration.
EndReport(s) == QueueReportCp(s, CP_DEVICE_SYNC, s.queue_status, "end_report")

\* Mutant: the pause is not cleared.
ReleaseKeepsPause(s) ==
    QueueReportCp([s EXCEPT !.ib_offset = 0], 0, CP_QUEUE_FREE, "release_report")

CpQueueRelease(s) ==
    QueueReportCp([s EXCEPT !.queue_pause = FALSE, !.ib_offset = 0],
                  0, CP_QUEUE_FREE, "release_report")

CpDeviceSync(s) ==
    QueueReportCp([s EXCEPT !.queue_pause = TRUE],
                  CP_DEVICE_SYNC, s.queue_status, "sync_report")

\* What follows the loop over the indirect buffer.
LeaveLoop(s) == IF s.ib_offset = s.ib_size THEN CpQueueRelease(s) ELSE EndReport(s)

\* Mutant: the body of the command is not skipped.
FinishHeader(s) ==
    LET t == [s EXCEPT !.ib_offset = @ + 1]
    IN  IF t.queue_sync = CP_DEVICE_SYNC THEN LeaveLoop(t)
                                         ELSE [t EXCEPT !.pc = "command", !.delay = 1]

\* The end of the loop body: the offset moves past the command and its body,
\* and the thread sleeps unless a sync is set.
FinishCommand(s) ==
    LET t == [s EXCEPT !.ib_offset = @ + getHeaderBodydws(ibuf[s.ib_offset]) + 1]
    IN  IF t.queue_sync = CP_DEVICE_SYNC THEN LeaveLoop(t)
                                         ELSE [t EXCEPT !.pc = "command", !.delay = 1]

\* The loop condition and the loop body.
ParseCommand(s) ==
    IF s.ib_offset < s.ib_size
    THEN IF IsDeviceSync(ibuf[s.ib_offset]) THEN CpDeviceSync(s) ELSE FinishCommand(s)
    ELSE LeaveLoop(s)

\* CpIndirectBuffer: a queue that is not paused starts at the head of the buffer
\* the message names, a paused one goes on where it stopped.
OpenBuffer(s) ==
    IF s.queue_pause THEN s ELSE [s EXCEPT !.ib_size = s.mes.ib_size, !.ib_offset = 0]
-----------------------------------------------------------------------------
(***************************************************************************)
(* AJCpModule.  `c' is the state of the command processor.                  *)
(***************************************************************************)

\* b_transport up to its wait: the registers take the report over.
CpReceive(c, id, m) ==
    [c EXCEPT !.mes = m, !.queue_id = id,
              !.queue_status = m.queue_status, !.queue_sync = m.queue_sync]

\* Mutant: the search runs one queue too far.
FreeSlots(c) == (0 .. QNUM) \ c.all_queue_status

FreeQueues(c) == Queues \ c.all_queue_status

\* SearchQueue when a bit is clear: the lowest one is taken.
SearchQueue(c) == CHOOSE i \in FreeQueues(c) : \A j \in FreeQueues(c) : i <= j

\* Mutant: the bit is not set.
TakenUnmarked(c) == [c EXCEPT !.queue_id = SearchQueue(c), !.queue_status = CP_QUEUE_BUSY]

Taken(c) == [c EXCEPT !.queue_id = SearchQueue(c), !.queue_status = CP_QUEUE_BUSY,
                      !.all_queue_status = @ \cup {SearchQueue(c)}]

\* CPQueueStart up to the b_transport into the queue.  mes.queue_status is
\* assigned twice, and its last value is queue_sync; mes.queue_sync keeps what
\* the last message held unless the mask equals the status word.
CPQueueStart(c) ==
    LET t == Taken(c)
        u == [t EXCEPT !.mes = [@ EXCEPT !.addr = RBuf, !.ib_size = IbSize,
                                         !.queue_status = t.queue_sync]]
    IN  IF u.all_queue_status = u.queue_mask
        THEN [u EXCEPT !.queue_sync = 0, !.mes = [@ EXCEPT !.queue_sync = 0],
                       !.queue_mask = {}]
        ELSE u

\* Mutant: `queue_mask | (1 << queue_id)', what the comment asks for.
RecordSyncOr(c) == c.queue_mask \cup {c.queue_id}

\* CPQueueManage: `queue_mask & (1 << queue_id)', as the code has it.
RecordSync(c) == c.queue_mask \cap {c.queue_id}
IsSyncReport(c) == c.queue_status = CP_QUEUE_BUSY /\ c.queue_sync = CP_DEVICE_SYNC
IsFreeReport(c) == c.queue_status = CP_QUEUE_FREE /\ c.queue_sync = 0
AllSynced(c) == IsSyncReport(c) /\ RecordSync(c) = c.all_queue_status
ResumeMessage(c) == [c.mes EXCEPT !.queue_sync = 0]

\* `all_queue_status & (1 << queue_id)', as the code has it.
FreeQueue(c) == c.all_queue_status \cap {c.queue_id}

CPQueueManage(c) ==
    IF AllSynced(c) THEN [c EXCEPT !.mes = IF RecordSync(c) = {} THEN @ ELSE ResumeMessage(c),
                                   !.queue_mask = {}]
    ELSE IF IsSyncReport(c) THEN [c EXCEPT !.queue_mask = RecordSync(c)]
    ELSE IF IsFreeReport(c) THEN [c EXCEPT !.all_queue_status = FreeQueue(c)]
    ELSE c

\* The messages CPQueueManage sends to the queues it resumes.
Resumed(c) ==
    [q \in Queues |-> IF AllSynced(c) /\ q \in RecordSync(c)
                      THEN Receive(queue[q], q, ResumeMessage(c)) ELSE queue[q]]
-----------------------------------------------------------------------------
Init ==
    /\ ibuf \in Ibufs
    /\ \E sync \in {0, CP_DEVICE_SYNC} :   \* Message mes is not initialised
         cp = [pc |-> "wait", delay |-> 0, queue_id |-> 0,
               queue_status |-> CP_QUEUE_FREE, queue_sync |-> 0,
               mes |-> [queue_status |-> CP_QUEUE_FREE, queue_sync |-> sync,
                        ib_size |-> 0, addr |-> 0],
               all_queue_status |-> {}, queue_mask |-> {}]
    /\ queue = [q \in Queues |->
                 [pc |-> "wait", delay |-> 0, queue_id |-> q,
                  queue_status |-> CP_QUEUE_FREE, queue_sync |-> 0,
                  mes |-> [queue_status |-> CP_QUEUE_FREE, queue_sync |-> 0,
                           ib_size |-> 0, addr |-> 0],
                  ib_size |-> 0, ib_offset |-> 0, queue_pause |-> FALSE]]
    /\ device_sync = FALSE
    /\ wptr_update = FALSE
    /\ host_delay = WptrPeriod
    /\ fault = "none"

\* notify(): a thread parked on the event becomes runnable, another one never
\* hears of it.
Wake(c) == [c EXCEPT !.pc = IF @ = "wait" THEN "ready" ELSE @]

\* Top::NotifyWptr: the host moves the write pointer and sleeps again.
NotifyWptr ==
    /\ fault = "none"
    /\ host_delay = 0
    /\ wptr_update' = TRUE
    /\ cp' = Wake(cp)
    /\ host_delay' = WptrPeriod
    /\ UNCHANGED <<ibuf, queue, device_sync, fault>>
-----------------------------------------------------------------------------
(***************************************************************************)
(* AJCpModule::thread_process.  Both events may have been triggered in this *)
(* phase, and an event stays triggered when the thread has seen it.         *)
(***************************************************************************)
ManagedCp == IF device_sync THEN CPQueueManage(cp) ELSE cp
ManagedQueues == IF device_sync THEN Resumed(cp) ELSE queue

\* Mutant: `if (device_sync) ... else if (wptr_update) ...'.
CpManageFirst ==
    /\ fault = "none"
    /\ cp.pc = "ready" /\ (device_sync \/ ~wptr_update)
    /\ cp' = [ManagedCp EXCEPT !.pc = "wait"]
    /\ queue' = ManagedQueues
    /\ UNCHANGED <<ibuf, device_sync, wptr_update, host_delay, fault>>

CpManage ==
    /\ fault = "none"
    /\ cp.pc = "ready" /\ ~wptr_update
    /\ cp' = [ManagedCp EXCEPT !.pc = "wait"]
    /\ queue' = ManagedQueues
    /\ UNCHANGED <<ibuf, device_sync, wptr_update, host_delay, fault>>

CpStart ==
    /\ fault = "none"
    /\ cp.pc = "ready" /\ wptr_update
    /\ FreeQueues(ManagedCp) # {}
    /\ LET c == CPQueueStart(ManagedCp) IN
         /\ cp' = [c EXCEPT !.pc = "delay", !.delay = 1]
         /\ queue' = [ManagedQueues EXCEPT ![c.queue_id] = Receive(@, c.queue_id, c.mes)]
    /\ UNCHANGED <<ibuf, device_sync, wptr_update, host_delay, fault>>

\* SearchQueue returns -1, and socket_cp2queue[-1] is undefined.
CpStartFails ==
    /\ fault = "none"
    /\ cp.pc = "ready" /\ wptr_update
    /\ FreeQueues(ManagedCp) = {}
    /\ fault' = "no_free_queue"
    /\ UNCHANGED <<ibuf, cp, queue, device_sync, wptr_update, host_delay>>

\* The end of wait(delay) in CPQueueStart.
CpDelayEnds ==
    /\ fault = "none"
    /\ cp.pc = "delay" /\ cp.delay = 0
    /\ cp' = [cp EXCEPT !.pc = "wait"]
    /\ UNCHANGED <<ibuf, queue, device_sync, wptr_update, host_delay, fault>>
-----------------------------------------------------------------------------
(***************************************************************************)
(* The thread of queue q.  A step that ends in QueueReportCp has called     *)
(* AJCpModule::b_transport, which writes the registers of the command       *)
(* processor before it waits.                                               *)
(***************************************************************************)
Awake(q, pc) == fault = "none" /\ queue[q].pc = pc /\ queue[q].delay = 0

Reported(c, s) == IF s.pc \in Reporting THEN CpReceive(c, s.queue_id, s.mes) ELSE c

\* The thread is woken, finds its buffer and parses the first command.  When
\* getIbufPtr does not find the address it throws, and nobody catches.
OpenIb(q) ==
    /\ Awake(q, "ready")
    /\ IF queue[q].queue_pause \/ queue[q].mes.addr \in AddrMap
       THEN LET s == ParseCommand(OpenBuffer(queue[q])) IN
              /\ queue' = [queue EXCEPT ![q] = s]
              /\ cp' = Reported(cp, s)
              /\ UNCHANGED fault
       ELSE fault' = "no_indirect_buffer" /\ UNCHANGED <<cp, queue>>
    /\ UNCHANGED <<ibuf, device_sync, wptr_update, host_delay>>

\* The wait of the loop is over.
NextCommand(q) ==
    /\ Awake(q, "command")
    /\ LET s == ParseCommand(queue[q]) IN
         /\ queue' = [queue EXCEPT ![q] = s]
         /\ cp' = Reported(cp, s)
    /\ UNCHANGED <<ibuf, device_sync, wptr_update, host_delay, fault>>

\* The wait inside AJCpModule::b_transport is over: device_sync is notified, and
\* the thread returns from QueueReportCp to where it was called and goes on.
SyncReported(q) ==
    /\ Awake(q, "sync_report")
    /\ device_sync' = TRUE
    /\ LET s == FinishCommand(queue[q]) IN
         /\ queue' = [queue EXCEPT ![q] = s]
         /\ cp' = Reported(Wake(cp), s)
    /\ UNCHANGED <<ibuf, wptr_update, host_delay, fault>>

ReleaseReported(q) ==
    /\ Awake(q, "release_report")
    /\ device_sync' = TRUE
    /\ LET s == EndReport(queue[q]) IN
         /\ queue' = [queue EXCEPT ![q] = s]
         /\ cp' = Reported(Wake(cp), s)
    /\ UNCHANGED <<ibuf, wptr_update, host_delay, fault>>

EndReported(q) ==
    /\ Awake(q, "end_report")
    /\ device_sync' = TRUE
    /\ queue' = [queue EXCEPT ![q].pc = "wait"]
    /\ cp' = Wake(cp)
    /\ UNCHANGED <<ibuf, wptr_update, host_delay, fault>>
-----------------------------------------------------------------------------
\* A timed wait has delay 1 until the next nanosecond; a parked thread has 0.
CpRunnable == cp.pc = "ready" \/ (cp.pc = "delay" /\ cp.delay = 0)
QueueRunnable(q) == queue[q].pc # "wait" /\ queue[q].delay = 0
Quiescent == host_delay # 0 /\ ~CpRunnable /\ \A q \in Queues : ~QueueRunnable(q)

\* The phase is over: the kernel advances the time by one nanosecond.
Tick ==
    /\ fault = "none"
    /\ Quiescent
    /\ host_delay' = host_delay - 1
    /\ cp' = [cp EXCEPT !.delay = 0]
    /\ queue' = [q \in Queues |-> [queue[q] EXCEPT !.delay = 0]]
    /\ device_sync' = FALSE
    /\ wptr_update' = FALSE
    /\ UNCHANGED <<ibuf, fault>>

\* A fault ends the simulation.
Halted == fault # "none" /\ UNCHANGED vars

QueueStep(q) ==
    \/ OpenIb(q) \/ NextCommand(q)
    \/ SyncReported(q) \/ ReleaseReported(q) \/ EndReported(q)

CpStep == CpManage \/ CpStart \/ CpStartFails \/ CpDelayEnds

Next == NotifyWptr \/ CpStep \/ (\E q \in Queues : QueueStep(q)) \/ Tick \/ Halted

\* The kernel runs as long as some thread can: it never stops by itself.
Spec == Init /\ [][Next]_vars /\ WF_vars(Next)
-----------------------------------------------------------------------------
(***************************************************************************)
(* What the queues and the command processor keep true together.            *)
(***************************************************************************)

\* A queue that is about to open a buffer names one that the map holds: getIbufPtr
\* (ajqueue.cpp:43) never throws.
IbAlwaysMapped ==
    \A q \in Queues : queue[q].pc = "ready" /\ ~queue[q].queue_pause =>
        queue[q].mes.addr \in AddrMap /\ queue[q].mes.ib_size = IbSize

\* A queue takes its own number from every message (ajqueue.cpp:31), so its reports
\* are its own only if the command processor addresses each message correctly.
OwnQueueId == \A q \in Queues : queue[q].queue_id = q

\* No queue acts on a field left over from another message, although every report of a
\* queue clears the address of its message and the command processor sends the one
\* message it keeps for all of them on (cp.cpp:37): the buffer and the number it has
\* are its own.
NothingLeftOver == IbAlwaysMapped /\ OwnQueueId

\* The offsets at which a header of the buffer starts, and the one after the last
\* command: the least set that holds 0 and what follows each header in it.
AfterCommand(o) == o + getHeaderBodydws(ibuf[o]) + 1
ParsedUpTo(o, S) ==
    0 \in S /\ \A i \in S : i < IbSize /\ AfterCommand(i) <= o => AfterCommand(i) \in S
IsHeaderOffset(o) == \A S \in SUBSET (0 .. o) : ParsedUpTo(o, S) => o \in S

\* The parser never takes a dword of a body for a header (CpIndirectBuffer), through
\* any pause, break and restart of the loop.
OffsetAtHeader == \A q \in Queues : IsHeaderOffset(queue[q].ib_offset)

\* A paused queue has met a device sync in the part of the buffer it has parsed:
\* the pause of one buffer never leaks into the next one (CpQueueRelease).
PausedPastSync ==
    \A q \in Queues : queue[q].queue_pause =>
        \E o \in 0 .. IbSize - 1 : o <= queue[q].ib_offset /\ IsDeviceSync(ibuf[o])

\* While a queue stays paused its offset never goes back: whatever ends the loop, and
\* the reports and messages that follow, leave it behind the sync, where the queue is to
\* be resumed (CpIndirectBuffer, Thread_Queue).
PausedKeepsPlace ==
    [][\A q \in Queues : queue[q].queue_pause /\ queue'[q].queue_pause =>
           queue'[q].ib_offset >= queue[q].ib_offset]_vars

\* Doorbell, the promise of the command processor to the host: every update of the
\* write pointer starts exactly one queue, in the nanosecond of the update.
BellState == IF fault = "no_free_queue" THEN "failed"
             ELSE IF ~wptr_update THEN "quiet"
             ELSE IF cp.pc = "delay" THEN "served" ELSE "rung"
Bell == INSTANCE Doorbell WITH bell <- BellState
ServesTheBell == Bell!Spec

\* A buffer without a device sync packet, as that of main.cpp.
NoSync == \A o \in 0 .. IbSize - 1 : ~IsDeviceSync(ibuf[o])

\* A start message only goes to a queue that waits for one: SearchQueue (cp.cpp:3)
\* looks for a free queue.  A buffer with a sync may keep its queue past that.
StartsIdleQueue ==
    [][NoSync /\ cp.pc = "ready" /\ cp'.pc = "delay" =>
           queue[cp'.queue_id].pc = "wait"]_vars
-----------------------------------------------------------------------------
(***************************************************************************)
(* What the comments of the code say and the code does not do.              *)
(***************************************************************************)

\* cp.cpp:89: the queue has done its work and tells the command processor that it is
\* free, so its bit of all_queue_status is cleared.
ReleasedBecomesFree ==
    \A q \in Queues : queue[q].pc = "release_report" ~> q \notin cp.all_queue_status
=============================================================================
