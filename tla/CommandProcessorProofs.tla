----------------------- MODULE CommandProcessorProofs -----------------------
(***************************************************************************)
(* Proofs about CommandProcessor, for every number of queues, every size of *)
(* the indirect buffer and every set of buffers.                            *)
(*                                                                         *)
(* TypeOK is not inductive by itself: the thread that returns from the      *)
(* report of a device sync reads the header at its offset again, and only   *)
(* SyncInside says that this offset lies in the buffer.  IInv adds what     *)
(* relates the thread of a queue, its offset and its last message           *)
(* (QueueInv), and the timing of the command processor and the host         *)
(* (CpInv), which keeps the wake-up of the host from being lost.            *)
(***************************************************************************)
EXTENDS CommandProcessor, WellFoundedInduction, TLAPS

USE DEF CP_QUEUE_FREE, CP_QUEUE_BUSY, CP_DEVICE_SYNC

PastSync(o) == \E i \in 0 .. IbSize - 1 : i <= o /\ IsDeviceSync(ibuf[i])

\* What holds of a queue in the middle of a step of its thread too.
Core(q, s) ==
    /\ s.queue_id = q
    /\ IsHeaderOffset(s.ib_offset)
    /\ s.queue_pause => PastSync(s.ib_offset)

ParkedAwake(s) == s.pc \in {"wait", "ready"} => s.delay = 0
ReadyMapped(s) == s.pc = "ready" => s.mes.addr = RBuf /\ s.mes.ib_size = IbSize
SyncInside(s) == s.pc = "sync_report" => s.ib_offset < s.ib_size

QueueInv(q, s) == Core(q, s) /\ ParkedAwake(s) /\ ReadyMapped(s) /\ SyncInside(s)

CpInv ==
    /\ cp.queue_mask = {}
    /\ cp.pc \in {"wait", "ready"} => cp.delay = 0
    /\ cp.pc = "delay" /\ cp.delay = 1 => wptr_update
    /\ cp.pc = "delay" /\ cp.delay = 0 => ~wptr_update /\ host_delay = 2
    /\ wptr_update => host_delay = 3 /\ cp.pc # "wait"
    /\ fault # "no_indirect_buffer"

IInv == TypeOK /\ CpInv /\ \A q \in Queues : QueueInv(q, queue[q])
-----------------------------------------------------------------------------
(* The parser: what its operators do to the state of one queue. *)

LEMMA BodyIsNat == ASSUME NEW w \in Word PROVE getHeaderBodydws(w) \in Nat
  BY DEF getHeaderBodydws, Bits, Word

LEMMA ReceiveType ==
  ASSUME NEW s \in QueueState, NEW id \in Queues, NEW m \in Message
  PROVE  Receive(s, id, m) \in QueueState
  BY DEF Receive, QueueState, Message, Reporting

\* A report changes neither the place in the buffer nor the pause.
LEMMA ReportType ==
  ASSUME NEW s \in QueueState, NEW sync \in {0, 1}, NEW status \in {0, 1},
         NEW pc \in Reporting, NEW t, t = QueueReportCp(s, sync, status, pc)
  PROVE  /\ t \in QueueState
         /\ t.pc = pc /\ t.delay = 1 /\ t.queue_id = s.queue_id
         /\ t.ib_offset = s.ib_offset /\ t.ib_size = s.ib_size
         /\ t.queue_pause = s.queue_pause
  BY DEF QueueReportCp, QueueState, Message, Reporting

LEMMA HeaderZero == IsHeaderOffset(0)
  BY DEF IsHeaderOffset, ParsedUpTo

\* The offset after a command is a header offset if the one of the command is.
LEMMA HeaderNext ==
  ASSUME TypeOK, NEW o \in Nat, o < IbSize, IsHeaderOffset(o)
  PROVE  IsHeaderOffset(AfterCommand(o)) /\ AfterCommand(o) \in Nat /\ AfterCommand(o) > o
<1> DEFINE n == AfterCommand(o)
<1>1. \A i \in Nat : i < IbSize => AfterCommand(i) \in Nat /\ AfterCommand(i) > i
  <2> SUFFICES ASSUME NEW i \in Nat, i < IbSize
               PROVE  AfterCommand(i) \in Nat /\ AfterCommand(i) > i
    OBVIOUS
  <2>1. ibuf[i] \in Word
    BY IbufAssumption DEF TypeOK
  <2> QED BY <2>1, BodyIsNat DEF AfterCommand
<1>2. n \in Nat /\ n > o
  BY <1>1
<1>3. ASSUME NEW S \in SUBSET (0 .. n), ParsedUpTo(n, S)
      PROVE  n \in S
  <2> DEFINE T == S \cap (0 .. o)
  <2>1. ParsedUpTo(o, T)
    <3>1. 0 \in T
      BY <1>3 DEF ParsedUpTo
    <3>2. ASSUME NEW i \in T, i < IbSize, AfterCommand(i) <= o
          PROVE  AfterCommand(i) \in T
      <4>1. AfterCommand(i) \in Nat /\ AfterCommand(i) <= n
        BY <1>1, <1>2, <3>2
      <4>2. AfterCommand(i) \in S
        BY <1>3, <3>2, <4>1 DEF ParsedUpTo
      <4> QED BY <3>2, <4>1, <4>2
    <3> QED BY <3>1, <3>2 DEF ParsedUpTo
  <2>2. o \in T
    BY <2>1 DEF IsHeaderOffset
  <2> HIDE DEF T
  <2>3. o \in S
    BY <2>2 DEF T
  <2>4. n <= n
    BY <1>2
  <2> QED BY <1>3, <2>3, <2>4 DEF ParsedUpTo
<1> HIDE DEF n
<1>4. IsHeaderOffset(n)
  BY <1>3 DEF IsHeaderOffset
<1> QED BY <1>2, <1>4 DEF n

\* Going on in the buffer keeps the sync behind.
LEMMA PastSyncGrows ==
  ASSUME NEW o \in Nat, NEW p \in Nat, o <= p, PastSync(o) PROVE PastSync(p)
<1>1. PICK i \in 0 .. IbSize - 1 : i <= o /\ IsDeviceSync(ibuf[i])
  BY DEF PastSync
<1>2. i <= p
  BY <1>1, IbufAssumption
<1> QED BY <1>1, <1>2 DEF PastSync

\* What follows the loop reports, with the queue released or where it stopped.
LEMMA LeaveLoopInv ==
  ASSUME NEW q \in Queues, NEW s \in QueueState, Core(q, s)
  PROVE  LeaveLoop(s) \in QueueState /\ QueueInv(q, LeaveLoop(s))
<1>1. CASE s.ib_offset = s.ib_size
  <2> DEFINE t == [s EXCEPT !.queue_pause = FALSE, !.ib_offset = 0]
             r == QueueReportCp(t, 0, CP_QUEUE_FREE, "release_report")
  <2>1. t \in QueueState /\ t.queue_id = q /\ ~t.queue_pause /\ t.ib_offset = 0
    BY DEF QueueState, Core
  <2>2. LeaveLoop(s) = r
    BY <1>1 DEF LeaveLoop, CpQueueRelease
  <2> HIDE DEF t
  <2>3. r \in QueueState /\ r.pc = "release_report" /\ r.queue_id = q
        /\ ~r.queue_pause /\ r.ib_offset = 0
    BY <2>1, ReportType DEF Reporting
  <2> HIDE DEF r
  <2> QED BY <2>2, <2>3, HeaderZero DEF QueueInv, Core, ParkedAwake, ReadyMapped, SyncInside
<1>2. CASE s.ib_offset # s.ib_size
  <2> DEFINE r == QueueReportCp(s, CP_DEVICE_SYNC, s.queue_status, "end_report")
  <2>1. s.queue_status \in {CP_QUEUE_FREE, CP_QUEUE_BUSY}
    BY DEF QueueState
  <2>2. LeaveLoop(s) = r
    BY <1>2 DEF LeaveLoop, EndReport
  <2>3. r \in QueueState /\ r.pc = "end_report" /\ r.queue_id = s.queue_id
        /\ r.queue_pause = s.queue_pause /\ r.ib_offset = s.ib_offset
    BY <2>1, ReportType DEF Reporting
  <2> HIDE DEF r
  <2> QED BY <2>2, <2>3 DEF QueueInv, Core, ParkedAwake, ReadyMapped, SyncInside
<1> QED BY <1>1, <1>2

\* The end of the loop body, run at a header inside the buffer.
LEMMA FinishCommandInv ==
  ASSUME TypeOK, NEW q \in Queues, NEW s \in QueueState, Core(q, s), s.ib_offset < s.ib_size
  PROVE  FinishCommand(s) \in QueueState /\ QueueInv(q, FinishCommand(s))
<1> DEFINE n == AfterCommand(s.ib_offset)
           t == [s EXCEPT !.ib_offset = n]
           u == [t EXCEPT !.pc = "command", !.delay = 1]
<1>1. s.ib_offset \in Nat /\ s.ib_offset < IbSize
  BY IbufAssumption DEF QueueState
<1>2. n \in Nat /\ n > s.ib_offset /\ IsHeaderOffset(n)
  BY <1>1, HeaderNext DEF Core
<1>3. s.queue_pause => PastSync(n)
  BY <1>1, <1>2, PastSyncGrows DEF Core
<1>4. FinishCommand(s) = IF t.queue_sync = CP_DEVICE_SYNC THEN LeaveLoop(t) ELSE u
  BY DEF FinishCommand, AfterCommand, QueueState
<1> HIDE DEF n
<1>5. t \in QueueState /\ Core(q, t)
  BY <1>2, <1>3 DEF QueueState, Core
<1>6. u \in QueueState /\ QueueInv(q, u)
  <2>1. u \in QueueState /\ u.pc = "command" /\ u.queue_id = t.queue_id
        /\ u.ib_offset = t.ib_offset /\ u.queue_pause = t.queue_pause
    BY <1>5 DEF QueueState
  <2> HIDE DEF u, t
  <2> QED BY <2>1, <1>5 DEF QueueInv, Core, ParkedAwake, ReadyMapped, SyncInside
<1> HIDE DEF u, t
<1> QED BY <1>4, <1>5, <1>6, LeaveLoopInv

LEMMA ParseCommandInv ==
  ASSUME TypeOK, NEW q \in Queues, NEW s \in QueueState, Core(q, s)
  PROVE  ParseCommand(s) \in QueueState /\ QueueInv(q, ParseCommand(s))
<1>1. CASE s.ib_offset < s.ib_size /\ IsDeviceSync(ibuf[s.ib_offset])
  <2> DEFINE t == [s EXCEPT !.queue_pause = TRUE]
             r == QueueReportCp(t, CP_DEVICE_SYNC, t.queue_status, "sync_report")
  <2>1. t \in QueueState /\ t.queue_id = q /\ t.ib_offset = s.ib_offset
        /\ t.ib_size = s.ib_size /\ t.queue_status = s.queue_status
        /\ t.queue_status \in {CP_QUEUE_FREE, CP_QUEUE_BUSY}
    BY DEF QueueState, Core
  <2>2. ParseCommand(s) = r
    BY <1>1, <2>1 DEF ParseCommand, CpDeviceSync
  <2>3. PastSync(s.ib_offset)
    BY <1>1, IbufAssumption DEF PastSync, QueueState
  <2> HIDE DEF t
  <2>4. r \in QueueState /\ r.pc = "sync_report" /\ r.queue_id = q
        /\ r.ib_offset = s.ib_offset /\ r.ib_size = s.ib_size
    BY <2>1, ReportType DEF Reporting
  <2> HIDE DEF r
  <2> QED BY <1>1, <2>2, <2>3, <2>4 DEF QueueInv, Core, ParkedAwake, ReadyMapped, SyncInside
<1>2. CASE s.ib_offset < s.ib_size /\ ~IsDeviceSync(ibuf[s.ib_offset])
  BY <1>2, FinishCommandInv DEF ParseCommand
<1>3. CASE ~(s.ib_offset < s.ib_size)
  BY <1>3, LeaveLoopInv DEF ParseCommand
<1> QED BY <1>1, <1>2, <1>3
-----------------------------------------------------------------------------
(* The command processor: what its operators do to its state. *)

\* A non-empty set of naturals has a least element.
LEMMA LeastNatural ==
  ASSUME NEW T \in SUBSET Nat, T # {}
  PROVE  \E m \in T : \A n \in T : m <= n
<1>1. PICK m \in T : \A n \in T : ~ (<<n, m>> \in OpToRel(<, Nat))
  BY NatLessThanWellFounded, WFMin
<1>2. \A n \in T : ~ (n < m)
  BY <1>1 DEF OpToRel
<1> QED BY <1>2

LEMMA SearchQueueType ==
  ASSUME NEW c, FreeQueues(c) # {}
  PROVE  SearchQueue(c) \in FreeQueues(c) /\ SearchQueue(c) \in Queues
<1>1. FreeQueues(c) \subseteq Nat
  BY QnumAssumption DEF FreeQueues, Queues
<1>2. \E i \in FreeQueues(c) : \A j \in FreeQueues(c) : i <= j
  BY <1>1, LeastNatural
<1> QED BY <1>2 DEF SearchQueue, FreeQueues

\* A report leaves the thread of the command processor and its mask alone.
LEMMA ReportedType ==
  ASSUME NEW c \in CpState, NEW s \in QueueState, NEW d, d = Reported(c, s)
  PROVE  d \in CpState /\ d.pc = c.pc /\ d.delay = c.delay /\ d.queue_mask = c.queue_mask
  BY DEF Reported, CpReceive, CpState, QueueState, Message

LEMMA WakeType ==
  ASSUME NEW c \in CpState, NEW d, d = Wake(c)
  PROVE  /\ d \in CpState /\ d.delay = c.delay /\ d.queue_mask = c.queue_mask
         /\ d.pc = (IF c.pc = "wait" THEN "ready" ELSE c.pc)
  BY DEF Wake, CpState

\* As the mask never gets a bit, no queue is ever resumed by the mask.
LEMMA ManageType ==
  ASSUME TypeOK, CpInv
  PROVE  /\ ManagedCp \in CpState /\ ManagedCp.queue_mask = {}
         /\ ManagedCp.pc = cp.pc /\ ManagedCp.delay = cp.delay
         /\ ManagedQueues = queue
<1>1. RecordSync(cp) = {}
  BY DEF CpInv, RecordSync
<1>2. FreeQueue(cp) \in SUBSET Queues
  BY DEF FreeQueue, TypeOK, CpState
<1>3. cp \in CpState /\ cp.queue_mask = {}
  BY DEF TypeOK, CpInv
<1>4. Resumed(cp) = queue
  BY <1>1 DEF Resumed, TypeOK
<1>5. ASSUME NEW d, d = CPQueueManage(cp)
      PROVE  d \in CpState /\ d.queue_mask = {} /\ d.pc = cp.pc /\ d.delay = cp.delay
  BY <1>1, <1>2, <1>3, <1>5 DEF CPQueueManage, CpState
<1> QED BY <1>3, <1>4, <1>5 DEF ManagedCp, ManagedQueues

\* A start addresses a queue and carries the address and the size of the buffer.
LEMMA StartType ==
  ASSUME NEW c \in CpState, c.queue_mask = {}, FreeQueues(c) # {},
         NEW d, d = CPQueueStart(c)
  PROVE  /\ d \in CpState /\ d.queue_mask = {} /\ d.queue_id \in Queues
         /\ d.mes \in Message /\ d.mes.addr = RBuf /\ d.mes.ib_size = IbSize
<1> DEFINE t == Taken(c)
           m == [t.mes EXCEPT !.addr = RBuf, !.ib_size = IbSize, !.queue_status = t.queue_sync]
           n == [m EXCEPT !.queue_sync = 0]
           u == [t EXCEPT !.mes = m]
           v == [u EXCEPT !.queue_sync = 0, !.mes = n, !.queue_mask = {}]
<1>1. t \in CpState /\ t.queue_mask = {}
  BY SearchQueueType DEF Taken, CpState
<1>2. CPQueueStart(c) = IF u.all_queue_status = u.queue_mask THEN v ELSE u
  BY <1>1 DEF CPQueueStart, CpState
<1> HIDE DEF t
<1>3. m \in Message /\ m.addr = RBuf /\ m.ib_size = IbSize
  BY <1>1 DEF CpState, Message
<1> HIDE DEF m
<1>4. n \in Message /\ n.addr = RBuf /\ n.ib_size = IbSize
  BY <1>3 DEF Message
<1> HIDE DEF n
<1>5. u \in CpState /\ u.mes = m /\ u.queue_mask = {}
  BY <1>1, <1>3 DEF CpState
<1>6. v \in CpState /\ v.mes = n /\ v.queue_mask = {}
  BY <1>1, <1>3, <1>4 DEF CpState
<1> HIDE DEF u, v
<1>7. d \in CpState /\ d.queue_mask = {} /\ d.mes \in {m, n}
  BY <1>2, <1>5, <1>6
<1> QED BY <1>3, <1>4, <1>7 DEF CpState
-----------------------------------------------------------------------------
(* The inductive invariant. *)

LEMMA InitInv == Init => IInv
<1> SUFFICES ASSUME Init PROVE IInv
  OBVIOUS
<1>1. 0 \in Queues
  BY QnumAssumption DEF Queues
<1>2. TypeOK
  <2>1. cp \in CpState
    BY <1>1 DEF Init, CpState, Message
  <2>2. queue \in [Queues -> QueueState]
    BY DEF Init, QueueState, Message, Reporting
  <2>3. ibuf \in Ibufs /\ ~device_sync /\ ~wptr_update /\ host_delay = 3 /\ fault = "none"
    BY DEF Init, WptrPeriod
  <2>4. device_sync \in BOOLEAN /\ wptr_update \in BOOLEAN
    BY DEF Init
  <2> QED BY <2>1, <2>2, <2>3, <2>4 DEF TypeOK, WptrPeriod
<1>3. CpInv
  BY DEF Init, CpInv
<1>4. ASSUME NEW q \in Queues PROVE QueueInv(q, queue[q])
  <2>1. /\ queue[q].queue_id = q /\ queue[q].ib_offset = 0 /\ ~queue[q].queue_pause
        /\ queue[q].pc = "wait" /\ queue[q].delay = 0
    BY DEF Init
  <2> QED BY <2>1, HeaderZero DEF QueueInv, Core, ParkedAwake, ReadyMapped, SyncInside
<1> QED BY <1>2, <1>3, <1>4 DEF IInv

\* A step of one queue: the queues are fine if the one that moved is.
LEMMA OneQueueMoves ==
  ASSUME IInv, ibuf' = ibuf, NEW q \in Queues, NEW s \in QueueState, QueueInv(q, s),
         queue' = [queue EXCEPT ![q] = s]
  PROVE  queue' \in [Queues -> QueueState] /\ \A p \in Queues : QueueInv(p, queue[p])'
<1>1. queue' \in [Queues -> QueueState]
  BY DEF IInv, TypeOK
<1>2. ASSUME NEW p \in Queues PROVE QueueInv(p, queue[p])'
  <2>1. queue'[p] = (IF p = q THEN s ELSE queue[p])
    BY DEF IInv, TypeOK
  <2>2. QueueInv(p, queue'[p])
    BY <2>1 DEF IInv
  <2> QED BY <2>2 DEF QueueInv, Core, ParkedAwake, ReadyMapped, SyncInside, IsHeaderOffset,
              ParsedUpTo, AfterCommand, PastSync
<1> QED BY <1>1, <1>2

\* No queue moves.
LEMMA NoQueueMoves ==
  ASSUME IInv, ibuf' = ibuf, queue' = queue
  PROVE  queue' \in [Queues -> QueueState] /\ \A p \in Queues : QueueInv(p, queue[p])'
  BY DEF IInv, TypeOK, QueueInv, Core, ParkedAwake, ReadyMapped, SyncInside, IsHeaderOffset,
         ParsedUpTo, AfterCommand, PastSync

\* The step of a thread that parses on from a state of its queue.
LEMMA ParseStep ==
  ASSUME IInv, ibuf' = ibuf, NEW q \in Queues, NEW s \in QueueState, QueueInv(q, s),
         queue' = [queue EXCEPT ![q] = s],
         NEW c \in CpState, c.queue_mask = {}, cp' = Reported(c, s)
  PROVE  /\ queue' \in [Queues -> QueueState] /\ \A p \in Queues : QueueInv(p, queue[p])'
         /\ cp' \in CpState /\ cp'.queue_mask = {}
         /\ cp'.pc = c.pc /\ cp'.delay = c.delay
  BY OneQueueMoves, ReportedType

\* The wake-up of a parked thread keeps the timing of the command processor.
LEMMA NotifyKeepsCpInv ==
  ASSUME IInv, NEW c \in CpState, c = Wake(cp),
         cp' \in CpState, cp'.queue_mask = {}, cp'.pc = c.pc, cp'.delay = c.delay,
         UNCHANGED <<wptr_update, host_delay, fault>>
  PROVE  CpInv'
<1>1. c.delay = cp.delay /\ c.pc = (IF cp.pc = "wait" THEN "ready" ELSE cp.pc)
  BY WakeType DEF IInv, TypeOK
<1> QED BY <1>1 DEF IInv, CpInv

LEMMA HostInv == ASSUME IInv, NotifyWptr PROVE IInv'
<1>1. cp \in CpState /\ cp' = Wake(cp) /\ cp.queue_mask = {}
  BY DEF NotifyWptr, IInv, TypeOK, CpInv
<1>2. cp' \in CpState /\ cp'.delay = cp.delay /\ cp'.queue_mask = {}
      /\ cp'.pc = (IF cp.pc = "wait" THEN "ready" ELSE cp.pc)
  BY <1>1, WakeType
<1>3. TypeOK'
  BY <1>2, NoQueueMoves DEF NotifyWptr, IInv, TypeOK, WptrPeriod
<1>4. cp.pc # "delay"
  BY <1>1 DEF NotifyWptr, IInv, CpInv, CpState
<1>5. CpInv'
  BY <1>1, <1>2, <1>4 DEF NotifyWptr, IInv, CpInv, CpState, WptrPeriod
<1> QED BY <1>3, <1>5, NoQueueMoves DEF NotifyWptr, IInv

LEMMA CpManageInv == ASSUME IInv, CpManage PROVE IInv'
<1>1. /\ ManagedCp \in CpState /\ ManagedCp.queue_mask = {} /\ ManagedQueues = queue
      /\ ManagedCp.delay = cp.delay
  BY ManageType DEF IInv
<1>2. cp' \in CpState /\ cp'.queue_mask = {} /\ cp'.pc = "wait" /\ cp'.delay = cp.delay
  BY <1>1 DEF CpManage, CpState
<1>3. UNCHANGED <<ibuf, queue, device_sync, wptr_update, host_delay, fault>>
  BY <1>1 DEF CpManage
<1>4. TypeOK'
  BY <1>2, <1>3 DEF IInv, TypeOK
<1>5. CpInv'
  BY <1>2, <1>3 DEF CpManage, IInv, CpInv
<1> QED BY <1>3, <1>4, <1>5, NoQueueMoves DEF IInv

LEMMA CpStartInv == ASSUME IInv, CpStart PROVE IInv'
<1> DEFINE c == CPQueueStart(ManagedCp)
           r == Receive(queue[c.queue_id], c.queue_id, c.mes)
<1>1. /\ ManagedCp \in CpState /\ ManagedCp.queue_mask = {} /\ ManagedQueues = queue
      /\ FreeQueues(ManagedCp) # {}
  BY ManageType DEF IInv, CpStart
<1>2. /\ c \in CpState /\ c.queue_mask = {} /\ c.queue_id \in Queues
      /\ c.mes \in Message /\ c.mes.addr = RBuf /\ c.mes.ib_size = IbSize
  BY <1>1, StartType
<1>3. cp' = [c EXCEPT !.pc = "delay", !.delay = 1]
  BY DEF CpStart
<1>4. queue' = [queue EXCEPT ![c.queue_id] = r]
  BY <1>1 DEF CpStart
<1> HIDE DEF c
<1>5. cp' \in CpState /\ cp'.queue_mask = {} /\ cp'.pc = "delay" /\ cp'.delay = 1
  BY <1>2, <1>3 DEF CpState
<1>6. queue[c.queue_id] \in QueueState /\ QueueInv(c.queue_id, queue[c.queue_id])
  BY <1>2 DEF IInv, TypeOK
<1>7. r \in QueueState /\ QueueInv(c.queue_id, r)
  <2>1. r \in QueueState
    BY <1>2, <1>6, ReceiveType
  <2>2. /\ r.mes = c.mes /\ r.queue_id = c.queue_id
        /\ r.pc = (IF queue[c.queue_id].pc = "wait" THEN "ready" ELSE queue[c.queue_id].pc)
        /\ r.delay = queue[c.queue_id].delay /\ r.ib_offset = queue[c.queue_id].ib_offset
        /\ r.ib_size = queue[c.queue_id].ib_size
        /\ r.queue_pause = queue[c.queue_id].queue_pause
    BY <1>2, <1>6 DEF Receive, QueueState
  <2> HIDE DEF r
  <2> QED BY <1>2, <1>6, <2>1, <2>2 DEF QueueInv, Core, ParkedAwake, ReadyMapped, SyncInside
<1> HIDE DEF r
<1>8. queue' \in [Queues -> QueueState] /\ \A p \in Queues : QueueInv(p, queue[p])'
  BY <1>2, <1>4, <1>7, OneQueueMoves DEF CpStart
<1>9. TypeOK'
  BY <1>5, <1>8 DEF CpStart, IInv, TypeOK
<1>10. CpInv'
  BY <1>5 DEF CpStart, IInv, CpInv
<1> QED BY <1>8, <1>9, <1>10 DEF IInv

LEMMA CpStartFailsInv == ASSUME IInv, CpStartFails PROVE IInv'
<1>1. TypeOK'
  BY DEF CpStartFails, IInv, TypeOK
<1>2. CpInv'
  BY DEF CpStartFails, IInv, CpInv
<1> QED BY <1>1, <1>2, NoQueueMoves DEF CpStartFails, IInv

LEMMA CpDelayEndsInv == ASSUME IInv, CpDelayEnds PROVE IInv'
<1>1. cp' \in CpState /\ cp'.pc = "wait" /\ cp'.delay = 0 /\ cp'.queue_mask = {}
  BY DEF CpDelayEnds, IInv, TypeOK, CpInv, CpState
<1>2. TypeOK'
  BY <1>1 DEF CpDelayEnds, IInv, TypeOK
<1>3. CpInv'
  BY <1>1 DEF CpDelayEnds, IInv, CpInv
<1> QED BY <1>2, <1>3, NoQueueMoves DEF CpDelayEnds, IInv

\* What OpenBuffer leaves to the parser.
LEMMA OpenBufferCore ==
  ASSUME NEW q \in Queues, NEW s \in QueueState, QueueInv(q, s)
  PROVE  OpenBuffer(s) \in QueueState /\ Core(q, OpenBuffer(s))
<1>1. CASE s.queue_pause
  BY <1>1 DEF OpenBuffer, QueueInv
<1>2. CASE ~s.queue_pause
  <2> DEFINE t == [s EXCEPT !.ib_size = s.mes.ib_size, !.ib_offset = 0]
  <2>1. s.mes \in Message
    BY DEF QueueState
  <2>2. s.mes.ib_size \in {0, IbSize}
    BY <2>1 DEF Message
  <2>3. t \in QueueState /\ t.queue_id = q /\ t.ib_offset = 0 /\ ~t.queue_pause
    BY <1>2, <2>2 DEF QueueState, QueueInv, Core
  <2>4. OpenBuffer(s) = t
    BY <1>2 DEF OpenBuffer
  <2> HIDE DEF t
  <2> QED BY <2>3, <2>4, HeaderZero DEF Core
<1> QED BY <1>1, <1>2

\* The address is always mapped: the thread never throws.
LEMMA OpenIbInv == ASSUME IInv, NEW q \in Queues, OpenIb(q) PROVE IInv'
<1> DEFINE s == ParseCommand(OpenBuffer(queue[q]))
<1>1. queue[q] \in QueueState /\ QueueInv(q, queue[q]) /\ cp \in CpState /\ cp.queue_mask = {}
  BY DEF IInv, TypeOK, CpInv
<1>2. queue[q].queue_pause \/ queue[q].mes.addr \in AddrMap
  BY <1>1 DEF OpenIb, Awake, QueueInv, ReadyMapped, AddrMap
<1>3. queue' = [queue EXCEPT ![q] = s] /\ cp' = Reported(cp, s) /\ fault' = fault
  BY <1>2 DEF OpenIb
<1>4. s \in QueueState /\ QueueInv(q, s)
  BY <1>1, OpenBufferCore, ParseCommandInv DEF IInv
<1> HIDE DEF s
<1>5. /\ queue' \in [Queues -> QueueState] /\ \A p \in Queues : QueueInv(p, queue[p])'
      /\ cp' \in CpState /\ cp'.queue_mask = {} /\ cp'.pc = cp.pc /\ cp'.delay = cp.delay
  BY <1>1, <1>3, <1>4, ParseStep DEF OpenIb
<1>6. TypeOK'
  BY <1>3, <1>5 DEF OpenIb, IInv, TypeOK
<1>7. CpInv'
  BY <1>3, <1>5 DEF OpenIb, IInv, CpInv
<1> QED BY <1>5, <1>6, <1>7 DEF IInv

LEMMA NextCommandInv == ASSUME IInv, NEW q \in Queues, NextCommand(q) PROVE IInv'
<1> DEFINE s == ParseCommand(queue[q])
<1>1. queue[q] \in QueueState /\ Core(q, queue[q]) /\ cp \in CpState /\ cp.queue_mask = {}
  BY DEF IInv, TypeOK, CpInv, QueueInv
<1>2. queue' = [queue EXCEPT ![q] = s] /\ cp' = Reported(cp, s)
  BY DEF NextCommand
<1>3. s \in QueueState /\ QueueInv(q, s)
  BY <1>1, ParseCommandInv DEF IInv
<1> HIDE DEF s
<1>4. /\ queue' \in [Queues -> QueueState] /\ \A p \in Queues : QueueInv(p, queue[p])'
      /\ cp' \in CpState /\ cp'.queue_mask = {} /\ cp'.pc = cp.pc /\ cp'.delay = cp.delay
  BY <1>1, <1>2, <1>3, ParseStep DEF NextCommand
<1>5. TypeOK'
  BY <1>4 DEF NextCommand, IInv, TypeOK
<1>6. CpInv'
  BY <1>4 DEF NextCommand, IInv, CpInv
<1> QED BY <1>4, <1>5, <1>6 DEF IInv

\* A step that notifies the command processor and then goes on from s.
LEMMA ReportEnds ==
  ASSUME IInv, NEW q \in Queues, NEW s \in QueueState, QueueInv(q, s),
         queue' = [queue EXCEPT ![q] = s], cp' = Reported(Wake(cp), s), device_sync' = TRUE,
         UNCHANGED <<ibuf, wptr_update, host_delay, fault>>
  PROVE  IInv'
<1> DEFINE c == Wake(cp)
<1>1. c \in CpState /\ c.queue_mask = {}
  BY WakeType DEF IInv, TypeOK, CpInv
<1> HIDE DEF c
<1>2. /\ queue' \in [Queues -> QueueState] /\ \A p \in Queues : QueueInv(p, queue[p])'
      /\ cp' \in CpState /\ cp'.queue_mask = {} /\ cp'.pc = c.pc /\ cp'.delay = c.delay
  BY <1>1, ParseStep DEF c
<1>3. TypeOK'
  BY <1>2 DEF IInv, TypeOK
<1>4. CpInv'
  BY <1>1, <1>2, NotifyKeepsCpInv DEF c
<1> QED BY <1>2, <1>3, <1>4 DEF IInv

LEMMA SyncReportedInv == ASSUME IInv, NEW q \in Queues, SyncReported(q) PROVE IInv'
<1> DEFINE s == FinishCommand(queue[q])
<1>1. queue[q] \in QueueState /\ QueueInv(q, queue[q])
  BY DEF IInv, TypeOK
<1>2. queue[q].ib_offset < queue[q].ib_size
  BY <1>1 DEF SyncReported, Awake, QueueInv, SyncInside
<1>3. s \in QueueState /\ QueueInv(q, s)
  BY <1>1, <1>2, FinishCommandInv DEF IInv, QueueInv
<1>4. queue' = [queue EXCEPT ![q] = s] /\ cp' = Reported(Wake(cp), s) /\ device_sync' = TRUE
  BY DEF SyncReported
<1> HIDE DEF s
<1> QED BY <1>3, <1>4, ReportEnds DEF SyncReported

LEMMA ReleaseReportedInv == ASSUME IInv, NEW q \in Queues, ReleaseReported(q) PROVE IInv'
<1> DEFINE s == EndReport(queue[q])
<1>1. queue[q] \in QueueState /\ Core(q, queue[q]) /\ queue[q].queue_status \in {0, 1}
  BY DEF IInv, TypeOK, QueueInv, QueueState
<1>2. s \in QueueState /\ QueueInv(q, s)
  <2>1. /\ s \in QueueState /\ s.pc = "end_report" /\ s.queue_id = queue[q].queue_id
        /\ s.ib_offset = queue[q].ib_offset /\ s.queue_pause = queue[q].queue_pause
    BY <1>1, ReportType DEF EndReport, Reporting
  <2> HIDE DEF s
  <2> QED BY <1>1, <2>1 DEF QueueInv, Core, ParkedAwake, ReadyMapped, SyncInside
<1>3. queue' = [queue EXCEPT ![q] = s] /\ cp' = Reported(Wake(cp), s) /\ device_sync' = TRUE
  BY DEF ReleaseReported
<1> HIDE DEF s
<1> QED BY <1>2, <1>3, ReportEnds DEF ReleaseReported

LEMMA EndReportedInv == ASSUME IInv, NEW q \in Queues, EndReported(q) PROVE IInv'
<1> DEFINE s == [queue[q] EXCEPT !.pc = "wait"]
<1>1. queue[q] \in QueueState /\ Core(q, queue[q]) /\ queue[q].delay = 0
  BY DEF IInv, TypeOK, QueueInv, EndReported, Awake
<1>2. s \in QueueState /\ s.pc = "wait" /\ QueueInv(q, s)
  <2>1. /\ s \in QueueState /\ s.pc = "wait" /\ s.delay = 0 /\ s.queue_id = queue[q].queue_id
        /\ s.ib_offset = queue[q].ib_offset /\ s.queue_pause = queue[q].queue_pause
    BY <1>1 DEF QueueState
  <2> HIDE DEF s
  <2> QED BY <1>1, <2>1 DEF QueueInv, Core, ParkedAwake, ReadyMapped, SyncInside
<1>3. queue' = [queue EXCEPT ![q] = s]
  BY <1>1 DEF EndReported
<1> HIDE DEF s
<1>4. Reported(Wake(cp), s) = Wake(cp)
  BY <1>2 DEF Reported, Reporting
<1> QED BY <1>2, <1>3, <1>4, ReportEnds DEF EndReported

LEMMA TickInv == ASSUME IInv, Tick PROVE IInv'
<1>1. cp \in CpState /\ queue \in [Queues -> QueueState] /\ host_delay \in 1 .. 3
  BY DEF Tick, Quiescent, IInv, TypeOK, WptrPeriod
<1>2. cp' \in CpState /\ cp'.delay = 0 /\ cp'.pc = cp.pc /\ cp'.queue_mask = {}
  BY <1>1 DEF Tick, CpState, IInv, CpInv
<1>3. queue' \in [Queues -> QueueState]
  BY <1>1 DEF Tick, QueueState, Reporting
<1>4. ASSUME NEW p \in Queues PROVE QueueInv(p, queue[p])'
  <2>1. /\ queue'[p].queue_id = queue[p].queue_id /\ queue'[p].ib_offset = queue[p].ib_offset
        /\ queue'[p].queue_pause = queue[p].queue_pause /\ queue'[p].pc = queue[p].pc
        /\ queue'[p].delay = 0 /\ queue'[p].mes = queue[p].mes
        /\ queue'[p].ib_size = queue[p].ib_size
    BY <1>1 DEF Tick, QueueState
  <2>2. QueueInv(p, queue[p])
    BY DEF IInv
  <2>3. QueueInv(p, queue'[p])
    BY <2>1, <2>2 DEF QueueInv, Core, ParkedAwake, ReadyMapped, SyncInside
  <2> QED BY <2>3 DEF Tick, QueueInv, Core, ParkedAwake, ReadyMapped, SyncInside,
              IsHeaderOffset, ParsedUpTo, AfterCommand, PastSync
<1>5. TypeOK'
  <2>1. host_delay' \in 0 .. WptrPeriod
    BY <1>1 DEF Tick, WptrPeriod
  <2> QED BY <1>2, <1>3, <2>1 DEF Tick, IInv, TypeOK
<1>6. CpInv'
  <2>1. /\ cp.pc \in {"wait", "ready", "delay"} /\ cp.delay \in {0, 1} /\ cp.pc # "ready"
        /\ ~(cp.pc = "delay" /\ cp.delay = 0)
    BY <1>1 DEF Tick, Quiescent, CpRunnable, CpState
  <2>2. cp'.pc = "delay" => host_delay' = 2
    BY <1>1, <1>2, <2>1 DEF Tick, IInv, CpInv
  <2>3. ~wptr_update' /\ fault' = fault
    BY DEF Tick
  <2> QED BY <1>2, <2>2, <2>3 DEF IInv, CpInv
<1> QED BY <1>4, <1>5, <1>6 DEF IInv

LEMMA NextInv == IInv /\ [Next]_vars => IInv'
<1> SUFFICES ASSUME IInv, [Next]_vars PROVE IInv'
  OBVIOUS
<1>1. CASE NotifyWptr
  BY <1>1, HostInv
<1>2. CASE CpStep
  BY <1>2, CpManageInv, CpStartInv, CpStartFailsInv, CpDelayEndsInv DEF CpStep
<1>3. ASSUME NEW q \in Queues, QueueStep(q) PROVE IInv'
  BY <1>3, OpenIbInv, NextCommandInv, SyncReportedInv, ReleaseReportedInv, EndReportedInv
     DEF QueueStep
<1>4. CASE Tick
  BY <1>4, TickInv
<1>5. CASE UNCHANGED vars
  <2>1. UNCHANGED <<ibuf, cp, queue, device_sync, wptr_update, host_delay, fault>>
    BY <1>5 DEF vars
  <2>2. TypeOK' /\ CpInv'
    BY <2>1 DEF IInv, TypeOK, CpInv
  <2> QED BY <2>1, <2>2, NoQueueMoves DEF IInv
<1> QED BY <1>1, <1>2, <1>3, <1>4, <1>5 DEF Next, Halted

THEOREM Invariance == Spec => []IInv
  BY InitInv, NextInv, PTL DEF Spec
-----------------------------------------------------------------------------
(* What follows from it. *)

\* Every register, message and counter of the model stays in its range.
THEOREM TypeCorrect == Spec => []TypeOK
<1>1. IInv => TypeOK
  BY DEF IInv
<1> QED BY <1>1, Invariance, PTL

\* getIbufPtr finds the address of every message a queue acts on, and a queue keeps its
\* number, so it reports under it.
THEOREM MessagesMeant == Spec => []NothingLeftOver
<1>1. IInv => IbAlwaysMapped
  BY DEF IInv, QueueInv, ReadyMapped, IbAlwaysMapped, AddrMap
<1>2. IInv => OwnQueueId
  BY DEF IInv, QueueInv, Core, OwnQueueId
<1>3. IInv => NothingLeftOver
  BY <1>1, <1>2 DEF NothingLeftOver
<1> QED BY <1>3, Invariance, PTL

\* The parser only reads a header where a header starts.
THEOREM HeadersOnly == Spec => []OffsetAtHeader
<1>1. IInv => OffsetAtHeader
  BY DEF IInv, QueueInv, Core, OffsetAtHeader
<1> QED BY <1>1, Invariance, PTL

\* A queue is paused by a sync of the buffer it parses, never by an earlier one.
THEOREM PauseHasSync == Spec => []PausedPastSync
<1>1. IInv => PausedPastSync
  BY DEF IInv, QueueInv, Core, PausedPastSync, PastSync
<1> QED BY <1>1, Invariance, PTL

\* The mask of the queues that have met a sync never records one, and so no queue is ever
\* resumed: CPQueueManage leaves every queue alone (cp.cpp:73).
THEOREM NeverResumed == Spec => [](cp.queue_mask = {} /\ Resumed(cp) = queue)
<1>1. ASSUME IInv PROVE cp.queue_mask = {} /\ Resumed(cp) = queue
  <2>1. RecordSync(cp) = {}
    BY <1>1 DEF IInv, CpInv, RecordSync
  <2>2. Resumed(cp) = [q \in Queues |-> queue[q]]
    BY <2>1 DEF Resumed
  <2>3. queue = [q \in Queues |-> queue[q]]
    BY <1>1 DEF IInv, TypeOK
  <2> QED BY <1>1, <2>2, <2>3 DEF IInv, CpInv
<1> QED BY <1>1, Invariance, PTL
-----------------------------------------------------------------------------
(* A paused queue never goes back in its buffer. *)

LEMMA LeaveLoopPlace ==
  ASSUME NEW s \in QueueState, NEW t, t = LeaveLoop(s), t.queue_pause
  PROVE  t.ib_offset = s.ib_offset
<1>1. CASE s.ib_offset = s.ib_size
  <2> DEFINE u == [s EXCEPT !.queue_pause = FALSE, !.ib_offset = 0]
  <2>1. u \in QueueState /\ ~u.queue_pause
    BY DEF QueueState
  <2>2. t = QueueReportCp(u, 0, CP_QUEUE_FREE, "release_report")
    BY <1>1 DEF LeaveLoop, CpQueueRelease
  <2> HIDE DEF u
  <2> QED BY <2>1, <2>2, ReportType DEF Reporting
<1>2. CASE s.ib_offset # s.ib_size
  <2>1. s.queue_status \in {0, 1}
    BY DEF QueueState
  <2>2. t = QueueReportCp(s, CP_DEVICE_SYNC, s.queue_status, "end_report")
    BY <1>2 DEF LeaveLoop, EndReport
  <2> QED BY <2>1, <2>2, ReportType DEF Reporting
<1> QED BY <1>1, <1>2

LEMMA FinishPlace ==
  ASSUME TypeOK, NEW q \in Queues, NEW s \in QueueState, Core(q, s), s.ib_offset < s.ib_size,
         NEW t, t = FinishCommand(s), t.queue_pause
  PROVE  t.ib_offset >= s.ib_offset
<1> DEFINE n == AfterCommand(s.ib_offset)
           u == [s EXCEPT !.ib_offset = n]
           v == [u EXCEPT !.pc = "command", !.delay = 1]
<1>1. s.ib_offset \in Nat /\ s.ib_offset < IbSize
  BY IbufAssumption DEF QueueState
<1>2. n \in Nat /\ n > s.ib_offset
  BY <1>1, HeaderNext DEF Core
<1>3. t = IF u.queue_sync = CP_DEVICE_SYNC THEN LeaveLoop(u) ELSE v
  BY DEF FinishCommand, AfterCommand, QueueState
<1> HIDE DEF n
<1>4. u \in QueueState /\ u.ib_offset = n /\ v.ib_offset = n
  BY <1>2 DEF QueueState
<1> HIDE DEF u, v
<1>5. t.ib_offset = n
  BY <1>3, <1>4, LeaveLoopPlace
<1> QED BY <1>1, <1>2, <1>5

LEMMA ParsePlace ==
  ASSUME TypeOK, NEW q \in Queues, NEW s \in QueueState, Core(q, s),
         NEW t, t = ParseCommand(s), t.queue_pause
  PROVE  t.ib_offset >= s.ib_offset
<1>0. s.ib_offset \in Nat
  BY DEF QueueState
<1>1. CASE s.ib_offset < s.ib_size /\ IsDeviceSync(ibuf[s.ib_offset])
  <2> DEFINE u == [s EXCEPT !.queue_pause = TRUE]
  <2>1. u \in QueueState /\ u.ib_offset = s.ib_offset /\ u.queue_status = s.queue_status
        /\ u.queue_status \in {0, 1}
    BY DEF QueueState
  <2>2. t = QueueReportCp(u, CP_DEVICE_SYNC, u.queue_status, "sync_report")
    BY <1>1, <2>1 DEF ParseCommand, CpDeviceSync
  <2> HIDE DEF u
  <2>3. t.ib_offset = s.ib_offset
    BY <2>1, <2>2, ReportType DEF Reporting
  <2> QED BY <1>0, <2>3
<1>2. CASE s.ib_offset < s.ib_size /\ ~IsDeviceSync(ibuf[s.ib_offset])
  BY <1>2, FinishPlace DEF ParseCommand
<1>3. CASE ~(s.ib_offset < s.ib_size)
  <2>1. t.ib_offset = s.ib_offset
    BY <1>3, LeaveLoopPlace DEF ParseCommand
  <2> QED BY <1>0, <2>1
<1> QED BY <1>1, <1>2, <1>3

\* What a step leaves behind in a queue it does not parse for.
SamePlace(p) == queue'[p].ib_offset = queue[p].ib_offset

LEMMA StartPlace == ASSUME IInv, CpStart, NEW p \in Queues PROVE SamePlace(p)
<1> DEFINE c == CPQueueStart(ManagedCp)
           r == Receive(queue[c.queue_id], c.queue_id, c.mes)
<1>1. /\ ManagedCp \in CpState /\ ManagedCp.queue_mask = {} /\ ManagedQueues = queue
      /\ FreeQueues(ManagedCp) # {}
  BY ManageType DEF IInv, CpStart
<1>2. c.queue_id \in Queues
  BY <1>1, StartType
<1>3. queue' = [queue EXCEPT ![c.queue_id] = r]
  BY <1>1 DEF CpStart
<1> HIDE DEF c
<1>4. queue[c.queue_id] \in QueueState
  BY <1>2 DEF IInv, TypeOK
<1>5. r.ib_offset = queue[c.queue_id].ib_offset
  BY <1>4 DEF Receive, QueueState
<1> HIDE DEF r
<1> QED BY <1>2, <1>3, <1>5 DEF SamePlace, IInv, TypeOK

LEMMA NextPlace ==
  IInv /\ [Next]_vars =>
    \A q \in Queues : queue[q].queue_pause /\ queue'[q].queue_pause =>
      queue'[q].ib_offset >= queue[q].ib_offset
<1> SUFFICES ASSUME IInv, [Next]_vars, NEW q \in Queues,
                    queue[q].queue_pause, queue'[q].queue_pause
             PROVE  queue'[q].ib_offset >= queue[q].ib_offset
  OBVIOUS
<1>1. /\ TypeOK /\ queue \in [Queues -> QueueState] /\ queue[q] \in QueueState
      /\ Core(q, queue[q]) /\ queue[q].ib_offset \in Nat
  BY DEF IInv, TypeOK, QueueInv, QueueState
<1>2. SUFFICES ASSUME ~SamePlace(q) PROVE queue'[q].ib_offset >= queue[q].ib_offset
  BY <1>1 DEF SamePlace
<1>3. CASE CpStep
  <2>1. CASE CpStart
    BY <1>2, <2>1, StartPlace
  <2>2. CASE CpManage
    BY <1>2, <2>2, ManageType DEF CpManage, IInv, SamePlace
  <2> QED BY <1>2, <1>3, <2>1, <2>2 DEF CpStep, CpStartFails, CpDelayEnds, SamePlace
<1>4. ASSUME NEW p \in Queues, QueueStep(p) PROVE queue'[q].ib_offset >= queue[q].ib_offset
  <2>1. p = q
    BY <1>1, <1>2, <1>4 DEF QueueStep, OpenIb, NextCommand, SyncReported, ReleaseReported,
                            EndReported, SamePlace
  <2>2. CASE OpenIb(q)
    <3>1. OpenBuffer(queue[q]) = queue[q]
      BY DEF OpenBuffer
    <3>2. queue'[q] = ParseCommand(queue[q])
      BY <1>1, <2>2, <3>1 DEF OpenIb
    <3> QED BY <1>1, <3>2, ParsePlace
  <2>3. CASE NextCommand(q)
    <3>1. queue'[q] = ParseCommand(queue[q])
      BY <1>1, <2>3 DEF NextCommand
    <3> QED BY <1>1, <3>1, ParsePlace
  <2>4. CASE SyncReported(q)
    <3>1. queue'[q] = FinishCommand(queue[q])
      BY <1>1, <2>4 DEF SyncReported
    <3>2. queue[q].ib_offset < queue[q].ib_size
      BY <2>4 DEF SyncReported, Awake, IInv, QueueInv, SyncInside
    <3> QED BY <1>1, <3>1, <3>2, FinishPlace
  <2>5. CASE ReleaseReported(q)
    <3>1. queue'[q] = EndReport(queue[q]) /\ queue[q].queue_status \in {0, 1}
      BY <1>1, <2>5 DEF ReleaseReported, QueueState
    <3>2. SamePlace(q)
      BY <1>1, <3>1, ReportType DEF EndReport, Reporting, SamePlace
    <3> QED BY <1>2, <3>2
  <2>6. CASE EndReported(q)
    <3>1. SamePlace(q)
      BY <1>1, <2>6 DEF EndReported, QueueState, SamePlace
    <3> QED BY <1>2, <3>1
  <2> QED BY <1>4, <2>1, <2>2, <2>3, <2>4, <2>5, <2>6 DEF QueueStep
<1>5. CASE Tick
  BY <1>1, <1>2, <1>5 DEF Tick, QueueState, SamePlace
<1>6. CASE NotifyWptr \/ UNCHANGED vars
  BY <1>2, <1>6 DEF NotifyWptr, vars, SamePlace
<1> QED BY <1>3, <1>4, <1>5, <1>6 DEF Next, Halted

\* A queue that stays paused never goes back in its buffer, whoever wakes it.
THEOREM PausedPlaceKept == Spec => PausedKeepsPlace
<1>1. IInv /\ [Next]_vars =>
        [\A q \in Queues : queue[q].queue_pause /\ queue'[q].queue_pause =>
           queue'[q].ib_offset >= queue[q].ib_offset]_vars
  BY NextPlace
<1> QED BY <1>1, Invariance, PTL DEF Spec, PausedKeepsPlace
-----------------------------------------------------------------------------
(* The command processor implements Doorbell. *)

\* A step that leaves the events and the fault alone, and the command processor
\* in its wait(delay) or out of it, is no step of the bell.
LEMMA BellStutters ==
  ASSUME wptr_update' = wptr_update, fault' = fault, (cp'.pc = "delay") <=> (cp.pc = "delay")
  PROVE  BellState' = BellState
  BY DEF BellState

LEMMA BellInit == Init => Bell!Init
  BY DEF Init, Bell!Init, BellState

LEMMA BellStep == IInv /\ [Next]_vars => [Bell!Next]_BellState
<1> SUFFICES ASSUME IInv, Next PROVE [Bell!Next]_BellState
  BY DEF vars, BellState
<1> USE DEF Bell!Next, Bell!Ring, Bell!Serve, Bell!Fail, Bell!TimeAdvances
<1>0. cp \in CpState /\ CpInv
  BY DEF IInv, TypeOK
<1>1. CASE NotifyWptr
  <2>1. cp'.pc # "delay"
    BY <1>0, <1>1, WakeType DEF NotifyWptr, CpInv, CpState
  <2>2. ~wptr_update
    BY <1>0, <1>1 DEF NotifyWptr, CpInv
  <2> QED BY <1>1, <2>1, <2>2 DEF NotifyWptr, BellState
<1>2. CASE CpManage
  <2>1. ManagedCp \in CpState
    BY ManageType DEF IInv
  <2>2. cp'.pc = "wait" /\ cp.pc = "ready"
    BY <1>2, <2>1 DEF CpManage, CpState
  <2> QED BY <1>2, <2>2, BellStutters DEF CpManage
<1>3. CASE CpStart
  <2>1. /\ ManagedCp \in CpState /\ ManagedCp.queue_mask = {} /\ FreeQueues(ManagedCp) # {}
    BY <1>3, ManageType DEF IInv, CpStart
  <2>2. CPQueueStart(ManagedCp) \in CpState
    BY <2>1, StartType
  <2>3. cp'.pc = "delay"
    BY <1>3, <2>2 DEF CpStart, CpState
  <2> QED BY <1>3, <2>3 DEF CpStart, BellState
<1>4. CASE CpStartFails
  BY <1>4 DEF CpStartFails, BellState
<1>5. CASE CpDelayEnds
  BY <1>0, <1>5 DEF CpDelayEnds, CpInv, BellState
<1>6. ASSUME NEW q \in Queues, QueueStep(q) PROVE BellState' = BellState
  <2>1. \A c \in CpState, s \in QueueState : Reported(c, s).pc = c.pc
    BY ReportedType
  <2>2. Wake(cp) \in CpState /\ ((Wake(cp).pc = "delay") <=> (cp.pc = "delay"))
    BY <1>0, WakeType DEF CpState
  <2>3. queue[q] \in QueueState /\ QueueInv(q, queue[q]) /\ TypeOK
    BY DEF IInv, TypeOK
  <2>4. CASE OpenIb(q)
    <3>1. queue[q].queue_pause \/ queue[q].mes.addr \in AddrMap
      BY <2>3, <2>4 DEF OpenIb, Awake, QueueInv, ReadyMapped, AddrMap
    <3>2. ParseCommand(OpenBuffer(queue[q])) \in QueueState
      BY <2>3, OpenBufferCore, ParseCommandInv
    <3>3. cp'.pc = cp.pc
      BY <1>0, <2>1, <2>4, <3>1, <3>2 DEF OpenIb
    <3> QED BY <2>4, <3>1, <3>3, BellStutters DEF OpenIb
  <2>5. CASE NextCommand(q)
    <3>1. ParseCommand(queue[q]) \in QueueState
      BY <2>3, ParseCommandInv DEF QueueInv
    <3>2. cp'.pc = cp.pc
      BY <1>0, <2>1, <2>5, <3>1 DEF NextCommand
    <3> QED BY <2>5, <3>2, BellStutters DEF NextCommand
  <2>6. CASE SyncReported(q)
    <3>1. FinishCommand(queue[q]) \in QueueState
      BY <2>3, <2>6, FinishCommandInv DEF SyncReported, Awake, QueueInv, SyncInside
    <3>2. cp'.pc = Wake(cp).pc
      BY <2>1, <2>2, <2>6, <3>1 DEF SyncReported
    <3> QED BY <2>2, <2>6, <3>2, BellStutters DEF SyncReported
  <2>7. CASE ReleaseReported(q)
    <3>1. EndReport(queue[q]) \in QueueState
      BY <2>3, ReportType DEF EndReport, QueueState, Reporting
    <3>2. cp'.pc = Wake(cp).pc
      BY <2>1, <2>2, <2>7, <3>1 DEF ReleaseReported
    <3> QED BY <2>2, <2>7, <3>2, BellStutters DEF ReleaseReported
  <2>8. CASE EndReported(q)
    BY <2>2, <2>8, BellStutters DEF EndReported
  <2> QED BY <1>6, <2>4, <2>5, <2>6, <2>7, <2>8 DEF QueueStep
<1>7. CASE Tick
  <2>1. cp.pc # "ready" /\ cp'.pc = cp.pc
    BY <1>0, <1>7 DEF Tick, Quiescent, CpRunnable, CpState
  <2>2. wptr_update => cp.pc = "delay"
    BY <1>0, <2>1 DEF CpInv, CpState
  <2> QED BY <1>7, <2>2 DEF Tick, BellState
<1>8. CASE Halted
  BY <1>8 DEF Halted, vars, BellState
<1> QED BY <1>1, <1>2, <1>3, <1>4, <1>5, <1>6, <1>7, <1>8 DEF Next, CpStep

\* Every update of the write pointer starts one queue, in its own nanosecond, and a
\* queue is only started for an update; or no queue is left.
THEOREM ServesTheBellSafely == Spec => Bell!SafeSpec
  BY Invariance, BellInit, BellStep, PTL DEF Spec, Bell!SafeSpec
=============================================================================
