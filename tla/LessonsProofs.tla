---------------------------- MODULE LessonsProofs ----------------------------
(***************************************************************************)
(* The lessons about locks and Multiply.cpp, for any number of threads,     *)
(* resources and elements, and any width of an int.                         *)
(***************************************************************************)
EXTENDS Lessons, FiniteSetTheorems, WellFoundedInduction, TLAPS
-----------------------------------------------------------------------------
(***************************************************************************)
(* The least of some numbers: for Min, and in place of an induction.        *)
(***************************************************************************)
LEMMA Least ==
    ASSUME NEW S, S \subseteq Nat, S # {}
    PROVE  \E x \in S : \A y \in S : x <= y
<1> DEFINE R == {ss \in Nat \X Nat : ss[1] < ss[2]}
<1>1. IsWellFoundedOn(OpToRel(<, Nat), Nat)
  BY NatLessThanWellFounded
<1>2. R = OpToRel(<, Nat)
  BY DEF OpToRel
<1>3. IsWellFoundedOn(R, Nat)
  BY <1>1, <1>2
<1>4. \E x \in S : \A y \in S : ~(<<y, x>> \in R)
  <2> HIDE DEF R
  <2> QED
    BY <1>3, WFMin
<1>5. \A x, y \in Nat : ~(<<y, x>> \in R) => x <= y
  OBVIOUS
<1> QED
  BY <1>4, <1>5

LEMMA MinIs ==
    ASSUME NEW S, S \subseteq Nat, S # {}
    PROVE  Min(S) \in S /\ \A y \in S : Min(S) <= y
BY Least DEF Min
-----------------------------------------------------------------------------
(***************************************************************************)
(* mutex.cpp and semaphore.cpp                                              *)
(***************************************************************************)

\* When p had the resource last.
Got(p) == IF printed[p] = << >> THEN 0 ELSE Last(printed[p])

Holders == {p \in DOMAIN process : process[p].pc = "hold"}

\* The threads that give a resource back at this time, before and after they do.
Releasing ==
    {p \in DOMAIN process : process[p] \in {RunnableAt("hold"), WaitingUntil("try", now)}}

Stage(p) ==
    \/ /\ process[p] \in {RunnableAt("try"), WaitingUntil("try", now), RunnableAt("hold")}
       /\ Got(p) >= now - 1
    \/ process[p] = WaitingUntil("hold", now + 1) /\ Got(p) >= now
    \/ process[p] = RunnableAt("blocked") /\ Got(p) >= now - 2
    \/ process[p] = WaitingFor("blocked", {free}) /\ Got(p) >= now - 2 /\ member.value = 0

\* A thread that must get the resource at this time.
Behind(p) == Got(p) < now - 1

LockTypes ==
    program \in Locks =>
        /\ now \in Nat /\ DOMAIN process = Threads[program] /\ DOMAIN printed = DOMAIN process
        /\ \A p \in DOMAIN process : printed[p] \in Seq(Nat)
        /\ DOMAIN signal = {} /\ \A x \in DOMAIN due : due[x] = {}
        /\ "value" \in DOMAIN member /\ member.value \in Nat

\* As long as a thread is behind, those that hold a resource are the ones that had it
\* before, and none of them tries again.
LockKnows ==
    program \in Locks =>
        /\ \A p \in DOMAIN process : Stage(p)
        /\ member.value + Cardinality(Holders) = Resources[program]
        /\ \A p \in DOMAIN process : Behind(p) =>
              /\ Cardinality(Releasing) = Resources[program]
              /\ \A q \in DOMAIN process : process[q] # RunnableAt("try")
LockInv == LockTypes /\ LockKnows

LEMMA LocksAre ==
    ASSUME program \in Locks
    PROVE  /\ IsFiniteSet(Threads[program]) /\ Resources[program] \in Nat /\ Resources[program] > 0
           /\ Cardinality(Threads[program]) <= 2 * Resources[program]
BY LessonsAssumption DEF LessonsAssumption

LEMMA GotIs ==
    ASSUME LockTypes, program \in Locks, NEW p \in DOMAIN process
    PROVE  Got(p) \in Nat
<1>1. printed[p] \in Seq(Nat)
  BY DEF LockTypes
<1>2. printed[p] # << >> => Len(printed[p]) \in 1 .. Len(printed[p])
  BY <1>1
<1> QED
  BY <1>1, <1>2 DEF Got, Last

\* In the lessons about locks these are the steps.
LEMMA LockSteps ==
    ASSUME program \in Locks, [Next]_vars
    PROVE  \/ \E p \in DOMAIN process : Obtain(p) \/ Release(p)
           \/ DeltaCycle /\ UNCHANGED <<program, member, printed>>
           \/ TimeAdvances(End) /\ UNCHANGED <<program, member, printed>>
           \/ UNCHANGED vars
<1>1. ~(EventTrigger \/ QueueTrigger \/ InitTrigger \/ FirstWrite \/ SecondWrite \/ LastRead)
  BY DEF Locks, EventTrigger, QueueTrigger, InitTrigger, FirstWrite, SecondWrite, LastRead
<1>2. ~(Toggle \/ DoTest \/ GenData \/ ComputeVectorMul \/ GenerateInput \/ GenerateReset)
  BY DEF Locks, Toggle, DoTest, GenData, ComputeVectorMul, GenerateInput, GenerateReset
<1>3. \A p \in Catchers : ~(BeginCatching(p) \/ Catch(p))
  BY DEF Locks, BeginCatching, Catch
<1> QED
  BY <1>1, <1>2, <1>3 DEF Next, Kernel, Ended

\* Whoever is behind gets a resource before the evaluation phase is over: otherwise there
\* would be as many threads that hold one, as many that have given one back, and this one.
LEMMA NoneBehind ==
    ASSUME LockInv, program \in Locks, EvaluationEnds, NEW p \in DOMAIN process
    PROVE  ~Behind(p)
<1> SUFFICES ASSUME Behind(p)
             PROVE  FALSE
  OBVIOUS
<1>1. PICK R \in Nat : R = Resources[program] /\ Cardinality(Threads[program]) <= 2 * R
  BY LocksAre
<1>2. IsFiniteSet(Threads[program]) /\ DOMAIN process = Threads[program] /\ now \in Nat
      /\ Got(p) \in Nat
  BY LocksAre, GotIs DEF LockInv, LockTypes
<1>3. \A q \in DOMAIN process : ~process[q].runs
  BY DEF EvaluationEnds
<1>4. process[p] = WaitingFor("blocked", {free}) /\ member.value = 0
  <2>1. Got(p) < now - 1
    BY DEF Behind
  <2>2. Stage(p)
    BY DEF LockInv, LockKnows
  <2>3. process[p] # RunnableAt("blocked")
    BY <1>3 DEF RunnableAt
  <2> QED
    BY <1>2, <2>1, <2>2, <2>3 DEF Stage
<1>5. Cardinality(Holders) = R /\ Cardinality(Releasing) = R
  <2>1. IsFiniteSet(Holders) 
    BY <1>2, FS_Subset DEF Holders
  <2>2. Cardinality(Holders) \in Nat
    BY <2>1, FS_CardinalityType
  <2>3. 0 + Cardinality(Holders) = R
    BY <1>1, <1>4 DEF LockInv, LockKnows
  <2> QED
    BY <1>1, <2>2, <2>3 DEF LockInv, LockKnows
<1>6. IsFiniteSet(Holders) /\ IsFiniteSet(Releasing)
  BY <1>2, FS_Subset DEF Holders, Releasing
<1>7. Holders \cap Releasing = {}
  BY <1>3 DEF Holders, Releasing, RunnableAt, WaitingUntil
<1>8. p \notin Holders \cup Releasing
  BY <1>4 DEF Holders, Releasing, RunnableAt, WaitingUntil, WaitingFor
<1>9. IsFiniteSet(Holders \cup Releasing) /\ Cardinality(Holders \cup Releasing) = R + R
  <2>1. Cardinality(Holders \cap Releasing) = 0
    BY <1>7, FS_EmptySet
  <2> QED
    BY <1>1, <1>5, <1>6, <2>1, FS_Union
<1>10. Cardinality((Holders \cup Releasing) \cup {p}) = R + R + 1
  BY <1>8, <1>9, FS_AddElement
<1>11. (Holders \cup Releasing) \cup {p} \subseteq Threads[program]
  BY <1>2 DEF Holders, Releasing
<1> QED
  <2>1. Cardinality((Holders \cup Releasing) \cup {p}) <= Cardinality(Threads[program])
    BY <1>2, <1>11, FS_Subset
  <2>2. Cardinality(Threads[program]) \in Nat
    BY <1>2, FS_CardinalityType
  <2> QED
    BY <1>1, <1>10, <2>1, <2>2

LEMMA LastAppended ==
    ASSUME NEW xs \in Seq(Nat), NEW x \in Nat
    PROVE  Append(xs, x) \in Seq(Nat) /\ Append(xs, x) # << >> /\ Last(Append(xs, x)) = x
<1>1. Append(xs, x) \in Seq(Nat) /\ Len(Append(xs, x)) = Len(xs) + 1 /\ Len(xs) \in Nat
  OBVIOUS
<1>2. Append(xs, x)[Len(xs) + 1] = x
  BY <1>1
<1>3. Append(xs, x) # << >>
  BY <1>1
<1> QED
  BY <1>1, <1>2, <1>3 DEF Last

LEMMA LocksBegin ==
    ASSUME Init
    PROVE  LockInv
<1> SUFFICES ASSUME program \in Locks
             PROVE  LockInv
  BY DEF LockInv, LockTypes, LockKnows
<1>1. process = [p \in Threads[program] |-> RunnableAt("try")]
  BY DEF Init, Processes, Locks
<1>2. /\ now = 0 /\ DOMAIN process = Threads[program] /\ DOMAIN printed = DOMAIN process
      /\ \A p \in DOMAIN process : process[p] = RunnableAt("try") /\ printed[p] = << >>
      /\ DOMAIN signal = {} /\ \A x \in DOMAIN due : due[x] = {}
      /\ "value" \in DOMAIN member /\ member.value = Resources[program]
  BY <1>1 DEF Init, Signals, Locks
<1>3. LockTypes
  <2>1. << >> \in Seq(Nat)
    OBVIOUS
  <2>2. Resources[program] \in Nat
    BY LocksAre
  <2> QED
    BY <1>2, <2>1, <2>2 DEF LockTypes
<1>4. \A p \in DOMAIN process : Got(p) = 0 /\ ~Behind(p) /\ Stage(p)
  BY <1>2 DEF Got, Behind, Stage
<1>5. Holders = {}
  BY <1>2 DEF Holders, RunnableAt
<1>6. member.value + Cardinality(Holders) = Resources[program]
  BY <1>2, <1>5, LocksAre, FS_EmptySet
<1> QED
  BY <1>3, <1>4, <1>6 DEF LockInv, LockKnows

\* The thread that obtains a resource is not behind any more, and only one that was blocked
\* does so while another one is behind.
LEMMA ObtainStep ==
    ASSUME LockInv, NEW p \in DOMAIN process, Obtain(p)
    PROVE  LockInv'
<1>1. /\ program \in Locks /\ program' = program /\ now' = now /\ due' = due /\ signal' = signal
      /\ process[p].runs /\ process[p].pc \in {"try", "blocked"}
  BY DEF Obtain, Runs
<1>2. /\ now \in Nat /\ DOMAIN process = Threads[program] /\ DOMAIN printed = DOMAIN process
      /\ \A q \in DOMAIN process : printed[q] \in Seq(Nat)
      /\ DOMAIN signal = {} /\ \A x \in DOMAIN due : due[x] = {}
      /\ "value" \in DOMAIN member /\ member.value \in Nat
  BY <1>1 DEF LockInv, LockTypes
<1>3. process[p] \in {RunnableAt("try"), RunnableAt("blocked")}
      /\ Got(p) \in Nat /\ Got(p) >= now - 2
  <2>1. Stage(p) /\ Got(p) \in Nat
    BY <1>1, GotIs DEF LockInv, LockKnows
  <2> QED
    BY <1>1, <1>2, <2>1 DEF Stage, RunnableAt, WaitingUntil, WaitingFor
<1>4. CASE member.value > 0
  <2>1. /\ member' = [member EXCEPT !.value = @ - 1]
        /\ printed' = [printed EXCEPT ![p] = Append(@, now)]
        /\ process' = [process EXCEPT ![p] = WaitingUntil("hold", now + 1)]
    BY <1>4 DEF Obtain, Prints, Wait
  <2>2. /\ DOMAIN process' = DOMAIN process /\ DOMAIN printed' = DOMAIN printed
        /\ process'[p] = WaitingUntil("hold", now + 1) /\ printed'[p] = Append(printed[p], now)
        /\ \A q \in DOMAIN process : q # p => process'[q] = process[q] /\ printed'[q] = printed[q]
        /\ member'.value = member.value - 1 /\ "value" \in DOMAIN member'
    BY <1>2, <2>1
  <2>3. printed'[p] \in Seq(Nat) /\ Got(p)' = now
    <3>1. printed[p] \in Seq(Nat)
      BY <1>2
    <3> QED
      BY <1>2, <2>2, <3>1, LastAppended DEF Got
  <2>4. \A q \in DOMAIN process : q # p => Got(q)' = Got(q)
    BY <2>2 DEF Got
  <2>5. LockTypes'
    <3>1. \A q \in DOMAIN process' : printed'[q] \in Seq(Nat)
      BY <1>2, <2>2, <2>3
    <3>2. member.value - 1 \in Nat
      BY <1>2, <1>4
    <3> QED
      BY <1>1, <1>2, <2>2, <3>1, <3>2 DEF LockTypes
  <2>6. Stage(p)'
    BY <1>1, <1>2, <2>2, <2>3 DEF Stage
  <2>7. \A q \in DOMAIN process : q # p => Stage(q)'
    <3>1. ASSUME NEW q \in DOMAIN process, q # p
          PROVE  Stage(q)'
      <4>1. Stage(q) /\ process'[q] = process[q] /\ Got(q)' = Got(q)
        BY <1>1, <2>2, <2>4, <3>1 DEF LockInv, LockKnows
      <4>2. member.value # 0
        BY <1>4
      <4> QED
        BY <1>1, <4>1, <4>2 DEF Stage
    <3> QED
      BY <3>1
  <2>8. member'.value + Cardinality(Holders') = Resources[program]
    <3>1. Holders' = Holders \cup {p} /\ p \notin Holders
      BY <1>1, <2>2 DEF Holders, WaitingUntil
    <3>2. IsFiniteSet(Holders)
      BY <1>1, <1>2, LocksAre, FS_Subset DEF Holders
    <3>3. Cardinality(Holders') = Cardinality(Holders) + 1 /\ Cardinality(Holders) \in Nat
      BY <3>1, <3>2, FS_AddElement, FS_CardinalityType
    <3>4. member.value + Cardinality(Holders) = Resources[program]
      BY <1>1 DEF LockInv, LockKnows
    <3> QED
      BY <1>2, <2>2, <3>3, <3>4
  <2>9. ASSUME NEW q \in DOMAIN process, Behind(q)'
        PROVE  /\ Cardinality(Releasing') = Resources[program]
               /\ \A r \in DOMAIN process : process'[r] # RunnableAt("try")
    <3>1. q # p
      BY <1>1, <1>2, <2>3, <2>9 DEF Behind
    <3>2. Behind(q)
      BY <1>1, <2>4, <2>9, <3>1 DEF Behind
    <3>3. /\ Cardinality(Releasing) = Resources[program]
          /\ \A r \in DOMAIN process : process[r] # RunnableAt("try")
      BY <1>1, <3>2 DEF LockInv, LockKnows
    <3>4. process[p] = RunnableAt("blocked")
      BY <1>3, <3>3
    <3>5. Releasing' = Releasing
      BY <1>1, <2>2, <3>4 DEF Releasing, RunnableAt, WaitingUntil
    <3> QED
      BY <2>2, <3>3, <3>5 DEF RunnableAt, WaitingUntil
  <2> QED
    BY <1>1, <2>2, <2>5, <2>6, <2>7, <2>8, <2>9 DEF LockInv, LockKnows
<1>5. CASE ~(member.value > 0)
  <2>1. /\ member' = member /\ printed' = printed
        /\ process' = [process EXCEPT ![p] = WaitingFor("blocked", {free})]
    BY <1>5 DEF Obtain, WaitFor
  <2>2. /\ DOMAIN process' = DOMAIN process /\ process'[p] = WaitingFor("blocked", {free})
        /\ \A q \in DOMAIN process : q # p => process'[q] = process[q]
    BY <2>1
  <2>3. \A q : Got(q)' = Got(q)
    BY <2>1 DEF Got
  <2>4. LockTypes'
    BY <1>1, <1>2, <2>1, <2>2 DEF LockTypes
  <2>5. Stage(p)'
    BY <1>1, <1>2, <1>3, <1>5, <2>1, <2>2, <2>3 DEF Stage
  <2>6. ASSUME NEW q \in DOMAIN process, q # p
        PROVE  Stage(q)'
    <3>1. Stage(q) /\ process'[q] = process[q] /\ Got(q)' = Got(q)
      BY <1>1, <2>2, <2>3, <2>6 DEF LockInv, LockKnows
    <3> QED
      BY <1>1, <2>1, <3>1 DEF Stage
  <2>7. Holders' = Holders
    BY <1>1, <2>2 DEF Holders, WaitingFor
  <2>8. ASSUME NEW q \in DOMAIN process, Behind(q)'
        PROVE  /\ Cardinality(Releasing') = Resources[program]
               /\ \A r \in DOMAIN process : process'[r] # RunnableAt("try")
    <3>1. Behind(q)
      BY <1>1, <2>3, <2>8 DEF Behind
    <3>2. /\ Cardinality(Releasing) = Resources[program]
          /\ \A r \in DOMAIN process : process[r] # RunnableAt("try")
      BY <1>1, <3>1 DEF LockInv, LockKnows
    <3>3. process[p] = RunnableAt("blocked")
      BY <1>3, <3>2
    <3>4. Releasing' = Releasing
      BY <1>1, <2>2, <3>3 DEF Releasing, RunnableAt, WaitingUntil, WaitingFor
    <3> QED
      BY <2>2, <3>2, <3>4 DEF RunnableAt, WaitingFor
  <2> QED
    BY <1>1, <2>1, <2>2, <2>4, <2>5, <2>6, <2>7, <2>8 DEF LockInv, LockKnows
<1> QED
  BY <1>4, <1>5

LEMMA ReleaseStep ==
    ASSUME LockInv, NEW p \in DOMAIN process, Release(p)
    PROVE  LockInv'
<1>1. /\ program \in Locks /\ program' = program /\ now' = now /\ due' = due /\ signal' = signal
      /\ process[p].runs /\ process[p].pc = "hold" /\ printed' = printed
      /\ member' = [member EXCEPT !.value = @ + 1]
  BY DEF Release, Runs
<1>2. /\ now \in Nat /\ DOMAIN process = Threads[program] /\ DOMAIN printed = DOMAIN process
      /\ \A q \in DOMAIN process : printed[q] \in Seq(Nat)
      /\ DOMAIN signal = {} /\ \A x \in DOMAIN due : due[x] = {}
      /\ "value" \in DOMAIN member /\ member.value \in Nat
  BY <1>1 DEF LockInv, LockTypes
<1>3. process[p] = RunnableAt("hold") /\ Got(p) >= now - 1
  <2>1. Stage(p)
    BY <1>1 DEF LockInv, LockKnows
  <2> QED
    BY <1>1, <2>1 DEF Stage, RunnableAt, WaitingUntil, WaitingFor
<1>4. /\ DOMAIN process' = DOMAIN process /\ process'[p] = WaitingUntil("try", now)
      /\ \A q \in DOMAIN process : q # p =>
            process'[q] = IF process[q].on \cap {free} # {} THEN RunnableAt(process[q].pc)
                          ELSE process[q]
  <2> DEFINE w == [process EXCEPT ![p] = WaitingUntil("try", now)]
  <2>1. w = Wait(p, "try", 0)
    <3>1. now + 0 = now
      BY <1>2
    <3> QED
      BY <3>1 DEF Wait
  <2>2. DOMAIN w = DOMAIN process /\ w[p] = WaitingUntil("try", now)
        /\ \A q \in DOMAIN process : q # p => w[q] = process[q]
    OBVIOUS
  <2>3. process' = Notify(w, "free")
    BY <2>1 DEF Release
  <2> HIDE DEF w
  <2>4. process' = [q \in DOMAIN w |-> IF w[q].on \cap {free} # {} THEN RunnableAt(w[q].pc) ELSE w[q]]
    BY <2>3 DEF Notify, Wake, WaitersOf, free
  <2>5. w[p].on \cap {free} = {}
    BY <2>2 DEF WaitingUntil
  <2> QED
    BY <2>2, <2>4, <2>5
<1>5. \A q \in DOMAIN process : q # p =>
         \/ process'[q] = process[q] /\ process[q] # WaitingFor("blocked", {free})
         \/ process[q] = WaitingFor("blocked", {free}) /\ process'[q] = RunnableAt("blocked")
  <2>1. ASSUME NEW q \in DOMAIN process, q # p
        PROVE  \/ process'[q] = process[q] /\ process[q] # WaitingFor("blocked", {free})
               \/ process[q] = WaitingFor("blocked", {free}) /\ process'[q] = RunnableAt("blocked")
    <3>1. CASE process[q] = WaitingFor("blocked", {free})
      <4>1. process[q].on \cap {free} # {} /\ process[q].pc = "blocked"
        BY <3>1 DEF WaitingFor
      <4> QED
        BY <1>4, <2>1, <3>1, <4>1
    <3>2. CASE process[q] # WaitingFor("blocked", {free})
      <4>1. Stage(q)
        BY <1>1 DEF LockInv, LockKnows
      <4>2. process[q].on = {}
        BY <3>2, <4>1 DEF Stage, RunnableAt, WaitingUntil
      <4> QED
        BY <1>4, <2>1, <3>2, <4>2
    <3> QED
      BY <3>1, <3>2
  <2> QED
    BY <2>1
<1>6. \A q : Got(q)' = Got(q)
  BY <1>1 DEF Got
<1>7. member'.value = member.value + 1 /\ "value" \in DOMAIN member' /\ member'.value \in Nat
  BY <1>1, <1>2
<1>8. LockTypes'
  BY <1>1, <1>2, <1>4, <1>7 DEF LockTypes
<1>9. Stage(p)'
  BY <1>1, <1>3, <1>4, <1>6 DEF Stage
<1>10. ASSUME NEW q \in DOMAIN process, q # p
       PROVE  Stage(q)'
  <2>1. Stage(q) /\ Got(q)' = Got(q)
    BY <1>1, <1>6 DEF LockInv, LockKnows
  <2>2. CASE process'[q] = process[q] /\ process[q] # WaitingFor("blocked", {free})
    BY <1>1, <2>1, <2>2 DEF Stage
  <2>3. CASE process[q] = WaitingFor("blocked", {free}) /\ process'[q] = RunnableAt("blocked")
    <3>1. Got(q) >= now - 2
      BY <2>1, <2>3 DEF Stage, RunnableAt, WaitingUntil, WaitingFor
    <3> QED
      BY <1>1, <2>1, <2>3, <3>1 DEF Stage
  <2> QED
    BY <1>5, <1>10, <2>2, <2>3
<1>11. member'.value + Cardinality(Holders') = Resources[program]
  <2>1. Holders' = Holders \ {p} /\ p \in Holders
    <3>1. \A q \in DOMAIN process : q # p => process'[q].pc = process[q].pc
      BY <1>5 DEF RunnableAt, WaitingFor
    <3>2. process'[p].pc # "hold" /\ process[p].pc = "hold"
      BY <1>1, <1>4 DEF WaitingUntil
    <3> QED
      BY <1>4, <3>1, <3>2 DEF Holders
  <2>2. IsFiniteSet(Holders)
    BY <1>1, <1>2, LocksAre, FS_Subset DEF Holders
  <2>3. Cardinality(Holders') = Cardinality(Holders) - 1 /\ Cardinality(Holders) \in Nat
    BY <2>1, <2>2, FS_RemoveElement, FS_CardinalityType
  <2>4. member.value + Cardinality(Holders) = Resources[program]
    BY <1>1 DEF LockInv, LockKnows
  <2> QED
    BY <1>2, <1>7, <2>3, <2>4
<1>12. Releasing' = Releasing
  <2>1. p \in Releasing
    BY <1>3 DEF Releasing
  <2>2. ASSUME NEW q \in DOMAIN process, q # p
        PROVE  process'[q] \in {RunnableAt("hold"), WaitingUntil("try", now)}
                 <=> process[q] \in {RunnableAt("hold"), WaitingUntil("try", now)}
    BY <1>5, <2>2 DEF RunnableAt, WaitingFor, WaitingUntil
  <2>3. Releasing' = {q \in DOMAIN process :
                         process'[q] \in {RunnableAt("hold"), WaitingUntil("try", now)}}
    BY <1>1, <1>4 DEF Releasing
  <2> QED
    BY <1>4, <2>1, <2>2, <2>3 DEF Releasing
<1>13. ASSUME NEW q \in DOMAIN process, Behind(q)'
       PROVE  /\ Cardinality(Releasing') = Resources[program]
              /\ \A r \in DOMAIN process : process'[r] # RunnableAt("try")
  <2>1. Behind(q)
    BY <1>1, <1>6, <1>13 DEF Behind
  <2>2. /\ Cardinality(Releasing) = Resources[program]
        /\ \A r \in DOMAIN process : process[r] # RunnableAt("try")
    BY <1>1, <2>1 DEF LockInv, LockKnows
  <2>3. process'[p] # RunnableAt("try") /\ RunnableAt("blocked") # RunnableAt("try")
    BY <1>4 DEF RunnableAt, WaitingUntil
  <2> QED
    BY <1>5, <1>12, <2>2, <2>3
<1> QED
  BY <1>1, <1>4, <1>8, <1>9, <1>10, <1>11, <1>13 DEF LockInv, LockKnows

LEMMA LockDeltaStep ==
    ASSUME LockInv, program \in Locks, DeltaCycle, UNCHANGED <<program, member, printed>>
    PROVE  LockInv'
<1>1. /\ now \in Nat /\ DOMAIN process = Threads[program] /\ DOMAIN printed = DOMAIN process
      /\ \A q \in DOMAIN process : printed[q] \in Seq(Nat)
      /\ DOMAIN signal = {} /\ \A x \in DOMAIN due : due[x] = {}
      /\ "value" \in DOMAIN member /\ member.value \in Nat
  BY DEF LockInv, LockTypes
<1>2. \A q \in DOMAIN process : ~Behind(q) /\ ~process[q].runs /\ Stage(q) /\ Got(q) \in Nat
  BY NoneBehind, GotIs DEF DeltaCycle, EvaluationEnds, LockInv, LockKnows
<1>3. Edges = {} /\ DOMAIN signal' = {}
  BY <1>1 DEF DeltaCycle, Edges, Changed
<1>4. process' = [q \in DOMAIN process |->
                    IF q \in DeltaWaiters THEN RunnableAt(process[q].pc) ELSE process[q]]
  <2>1. WaitersOf(process, Edges) = {}
    BY <1>3 DEF WaitersOf
  <2> QED
    BY <2>1 DEF DeltaCycle, Wake
<1>5. now' = now /\ due' = due /\ \A q : (Got(q)' = Got(q) /\ (Behind(q)' <=> Behind(q)))
  BY DEF DeltaCycle, Got, Behind
<1>6. ASSUME NEW q \in DOMAIN process
      PROVE  Stage(q)' /\ process'[q].pc = process[q].pc
  <2>1. CASE process[q] = WaitingUntil("try", now)
    <3>1. process[q].until = now /\ process[q].pc = "try"
      BY <2>1 DEF WaitingUntil
    <3>2. process'[q] = RunnableAt("try")
      BY <1>4, <3>1 DEF DeltaWaiters
    <3>3. Got(q) >= now - 1
      BY <1>1, <1>2 DEF Behind
    <3> QED
      BY <1>5, <3>1, <3>2, <3>3 DEF Stage, RunnableAt
  <2>2. CASE process[q] = WaitingUntil("hold", now + 1)
    <3>1. process[q].until # now
      BY <1>1, <2>2 DEF WaitingUntil
    <3>2. process'[q] = process[q]
      BY <1>4, <3>1 DEF DeltaWaiters
    <3> QED
      BY <1>2, <1>5, <3>2 DEF Stage
  <2>3. CASE process[q] = WaitingFor("blocked", {free})
    <3>1. process[q].until # now
      BY <1>1, <2>3 DEF WaitingFor, Never
    <3>2. process'[q] = process[q]
      BY <1>4, <3>1 DEF DeltaWaiters
    <3> QED
      BY <1>2, <1>5, <3>2 DEF Stage
  <2> QED
    BY <1>2, <2>1, <2>2, <2>3 DEF Stage, RunnableAt
<1>7. Holders' = Holders
  BY <1>4, <1>6 DEF Holders
<1>8. LockTypes'
  BY <1>1, <1>3, <1>4, <1>5 DEF LockTypes
<1> QED
  BY <1>2, <1>4, <1>5, <1>6, <1>7, <1>8 DEF LockInv, LockKnows

\* A second passes.  Whoever is behind now was blocked, so all resources are taken, and
\* whoever holds one releases it now.
LEMMA LockTimeStep ==
    ASSUME LockInv, program \in Locks, TimeAdvances(End), UNCHANGED <<program, member, printed>>
    PROVE  LockInv'
<1>1. /\ now \in Nat /\ DOMAIN process = Threads[program] /\ DOMAIN printed = DOMAIN process
      /\ \A q \in DOMAIN process : printed[q] \in Seq(Nat)
      /\ DOMAIN signal = {} /\ \A x \in DOMAIN due : due[x] = {}
      /\ "value" \in DOMAIN member /\ member.value \in Nat
  BY DEF LockInv, LockTypes
<1>2. ASSUME NEW q \in DOMAIN process
      PROVE  /\ ~Behind(q) /\ Got(q) \in Nat /\ Stage(q)
             /\ \/ process[q] = WaitingUntil("hold", now + 1) /\ Got(q) >= now
                \/ process[q] = WaitingFor("blocked", {free}) /\ member.value = 0
  <2>1. ~Behind(q) /\ ~process[q].runs /\ process[q].until # now /\ Stage(q) /\ Got(q) \in Nat
    BY NoneBehind, GotIs
       DEF TimeAdvances, Quiet, EvaluationEnds, DeltaWaiters, LockInv, LockKnows
  <2>2. process[q] \notin {RunnableAt("try"), WaitingUntil("try", now), RunnableAt("hold"),
                           RunnableAt("blocked")}
    BY <2>1 DEF RunnableAt, WaitingUntil
  <2> QED
    BY <2>1, <2>2 DEF Stage
<1>3. now' = now + 1
  <2>1. \A t \in Pending : t = now + 1
    <3>1. UNION {due[x] : x \in DOMAIN due} = {}
      BY <1>1
    <3>2. ASSUME NEW q \in DOMAIN process, process[q].until > now
          PROVE  process[q].until = now + 1
      <4>1. CASE process[q] = WaitingUntil("hold", now + 1)
        BY <4>1 DEF WaitingUntil
      <4>2. CASE process[q] = WaitingFor("blocked", {free})
        <5>1. process[q].until = -1
          BY <4>2 DEF WaitingFor, Never
        <5> QED
          BY <1>1, <3>2, <5>1
      <4> QED
        BY <1>2, <4>1, <4>2
    <3> QED
      BY <3>1, <3>2 DEF Pending
  <2>2. Pending # {}
    BY DEF TimeAdvances
  <2>3. Pending \subseteq Nat
    BY <1>1, <2>1
  <2> QED
    BY <2>1, <2>2, <2>3, MinIs DEF TimeAdvances
<1>4. process' = [q \in DOMAIN process |->
                    IF process[q].until = now + 1 THEN RunnableAt(process[q].pc) ELSE process[q]]
  <2>1. Notified(now') = {}
    BY <1>1 DEF Notified
  <2>2. WaitersOf(process, {<<x, "event">> : x \in Notified(now')}) = {}
    BY <2>1 DEF WaitersOf
  <2> QED
    BY <1>3, <2>2 DEF TimeAdvances, Wake
<1>5. signal' = signal /\ DOMAIN due' = DOMAIN due /\ (\A x \in DOMAIN due : due'[x] = {})
      /\ \A q : Got(q)' = Got(q)
  BY <1>1 DEF TimeAdvances, Got
<1>6. ASSUME NEW q \in DOMAIN process
      PROVE  /\ Stage(q)' /\ process'[q].pc = process[q].pc
             /\ process'[q] \in {RunnableAt("hold"), WaitingFor("blocked", {free})}
             /\ process'[q] = RunnableAt("hold") <=> process[q].pc = "hold"
  <2>1. CASE process[q] = WaitingUntil("hold", now + 1) /\ Got(q) >= now
    <3>1. process[q].until = now + 1 /\ process[q].pc = "hold"
      BY <2>1 DEF WaitingUntil
    <3>2. process'[q] = RunnableAt("hold")
      BY <1>4, <3>1
    <3>3. Got(q) >= (now + 1) - 1
      BY <1>1, <1>2, <2>1
    <3> QED
      BY <1>3, <1>5, <3>1, <3>2, <3>3 DEF Stage, RunnableAt
  <2>2. CASE process[q] = WaitingFor("blocked", {free}) /\ member.value = 0
    <3>1. process[q].until # now + 1 /\ process[q].pc = "blocked"
      BY <1>1, <2>2 DEF WaitingFor, Never
    <3>2. process'[q] = process[q]
      BY <1>4, <3>1
    <3>3. Got(q) >= (now + 1) - 2
      BY <1>1, <1>2 DEF Behind
    <3>4. WaitingFor("blocked", {free}) # RunnableAt("hold")
      BY DEF WaitingFor, RunnableAt
    <3> QED
      BY <1>3, <1>5, <2>2, <3>1, <3>2, <3>3, <3>4 DEF Stage
  <2> QED
    BY <1>2, <2>1, <2>2
<1>7. Holders' = Holders
  BY <1>4, <1>6 DEF Holders
<1>8. ASSUME NEW q \in DOMAIN process, Behind(q)'
      PROVE  Cardinality(Releasing') = Resources[program]
  <2>1. Got(q) < now
    BY <1>1, <1>2, <1>3, <1>5, <1>8 DEF Behind
  <2>2. member.value = 0
    BY <1>1, <1>2, <2>1
  <2>3. Releasing' = Holders
    <3>1. Releasing' = {r \in DOMAIN process : process'[r] \in {RunnableAt("hold"), WaitingUntil("try", now')}}
      BY <1>4 DEF Releasing
    <3>2. WaitingFor("blocked", {free}) # WaitingUntil("try", now')
      BY DEF WaitingFor, WaitingUntil
    <3>3. \A r \in DOMAIN process :
             process'[r] \in {RunnableAt("hold"), WaitingUntil("try", now')} <=> process[r].pc = "hold"
      BY <1>6, <3>2
    <3> QED
      BY <3>1, <3>3 DEF Holders
  <2>4. Cardinality(Holders) \in Nat
    BY <1>1, LocksAre, FS_Subset, FS_CardinalityType DEF Holders
  <2>5. 0 + Cardinality(Holders) = Resources[program]
    BY <2>2 DEF LockInv, LockKnows
  <2> QED
    BY <2>3, <2>4, <2>5
<1>9. RunnableAt("hold") # RunnableAt("try") /\ WaitingFor("blocked", {free}) # RunnableAt("try")
  BY DEF RunnableAt, WaitingFor
<1>10. LockTypes'
  BY <1>1, <1>3, <1>4, <1>5 DEF LockTypes
<1>11. member'.value + Cardinality(Holders') = Resources[program]
  BY <1>7 DEF LockInv, LockKnows
<1> QED
  BY <1>4, <1>6, <1>8, <1>9, <1>10, <1>11 DEF LockInv, LockKnows

LEMMA LocksKept ==
    ASSUME LockInv, [Next]_vars
    PROVE  LockInv'
<1>1. program' = program
  BY DEF Next, vars, Kernel, Ended, EventTrigger, QueueTrigger, InitTrigger, BeginCatching, Catch,
         Obtain, Release, FirstWrite, SecondWrite, LastRead, Toggle, DoTest, GenData,
         ComputeVectorMul, GenerateInput, GenerateReset
<1>2. CASE program \notin Locks
  BY <1>1, <1>2 DEF LockInv, LockTypes, LockKnows
<1>3. CASE program \in Locks
  <2>1. CASE UNCHANGED vars
    <3>1. /\ \A q : (Stage(q)' <=> Stage(q)) /\ (Behind(q)' <=> Behind(q))
          /\ Holders' = Holders /\ Releasing' = Releasing
      BY <2>1 DEF vars, Stage, Behind, Got, Holders, Releasing
    <3>2. UNCHANGED <<now, process, due, signal, program, member, printed>>
      BY <2>1 DEF vars
    <3> QED
      BY <3>1, <3>2 DEF LockInv, LockTypes, LockKnows
  <2> QED
    BY <1>3, <2>1, LockSteps, ObtainStep, ReleaseStep, LockDeltaStep, LockTimeStep
<1> QED
  BY <1>2, <1>3

LEMMA LocksInvariance == Spec => []LockInv
<1>1. Init => LockInv
  BY LocksBegin
<1>2. LockInv /\ [Next]_vars => LockInv'
  BY LocksKept
<1> QED
  BY <1>1, <1>2, PTL DEF Spec

\* mutex.cpp, semaphore.cpp: no resource is held twice or lost, and no thread waits for more
\* than two seconds for the next, if there are at most two threads to each resource.
THEOREM TurnsTaken == Spec => []TurnTaking
<1>1. LockInv => TurnTaking
  <2> SUFFICES ASSUME LockInv, program \in Locks
               PROVE  TurnTaking
    BY DEF TurnTaking
  <2>1. member.value + Cardinality({p \in DOMAIN process : process[p].pc = "hold"})
          = Resources[program]
    BY DEF LockInv, LockKnows, Holders
  <2>2. ASSUME NEW p \in DOMAIN process
        PROVE  now <= 2 + Got(p)
    <3>1. now \in Nat /\ Got(p) \in Nat /\ Stage(p)
      BY GotIs DEF LockInv, LockTypes, LockKnows
    <3>2. Got(p) >= now - 2
      BY <3>1 DEF Stage
    <3> QED
      BY <3>1, <3>2
  <2> QED
    BY <2>1, <2>2 DEF TurnTaking, Got
<1> QED
  BY <1>1, LocksInvariance, PTL
-----------------------------------------------------------------------------
(***************************************************************************)
(* Multiply.cpp: the sum of products                                        *)
(***************************************************************************)
LEMMA Remainder ==
    ASSUME NEW n \in Nat, n > 0, NEW q \in Int, NEW r \in 0 .. n - 1, NEW a \in Int, a = n * q + r
    PROVE  a % n = r
<1>1. a % n \in 0 .. n - 1 /\ a = n * (a \div n) + (a % n) /\ a \div n \in Int
  OBVIOUS
<1>2. PICK p \in Int, s \in 0 .. n - 1 : p = a \div n /\ s = a % n /\ a = n * p + s
  BY <1>1
<1>3. n * (q - p) = s - r
  BY <1>2
<1>4. q - p = 0
  <2>1. PICK k \in Int : k = q - p
    BY <1>2
  <2>2. n * k = s - r /\ s - r < n /\ -n < s - r
    BY <1>2, <1>3, <2>1
  <2>3. ~(k >= 1)
    <3> SUFFICES ASSUME k >= 1
                 PROVE  FALSE
      OBVIOUS
    <3>1. n * k >= n
      BY <2>1
    <3> QED
      BY <2>2, <3>1
  <2>4. ~(k <= -1)
    <3> SUFFICES ASSUME k <= -1
                 PROVE  FALSE
      OBVIOUS
    <3>1. n * k <= -n
      BY <2>1
    <3> QED
      BY <2>2, <3>1
  <2> QED
    BY <2>1, <2>3, <2>4
<1> QED
  BY <1>2, <1>3, <1>4

\* An int is the number, up to a multiple of what an int can hold.
LEMMA ToIntIs ==
    ASSUME NEW x \in Int
    PROVE  /\ ToInt(x) \in IntRange
           /\ \E q \in Int : x = (2 * INT_MAX + 2) * q + ToInt(x)
<1>1. PICK m \in Nat : m = INT_MAX
  BY LessonsAssumption DEF LessonsAssumption
<1>2. PICK n \in Nat : n = 2 * m + 2
  BY <1>1
<1>3. PICK a \in Int : a = x + m + 1
  BY <1>1
<1>4. a % n \in 0 .. n - 1 /\ a = n * (a \div n) + (a % n) /\ a \div n \in Int
  <2>1. n > 0
    BY <1>2
  <2> QED
    BY <2>1
<1>5. PICK q \in Int, r \in 0 .. n - 1 : q = a \div n /\ r = a % n /\ a = n * q + r
  BY <1>4
<1>6. ToInt(x) = r - m - 1
  BY <1>1, <1>2, <1>3, <1>5 DEF ToInt
<1>7. x = n * q + (r - m - 1)
  <2>1. PICK w \in Int : w = n * q
    BY <1>5
  <2> QED
    BY <1>3, <1>5, <2>1
<1>8. ToInt(x) \in IntRange
  BY <1>1, <1>2, <1>5, <1>6 DEF IntRange
<1>9. x = (2 * INT_MAX + 2) * q + ToInt(x)
  BY <1>1, <1>2, <1>6, <1>7
<1> QED
  BY <1>5, <1>8, <1>9

LEMMA ToIntOf ==
    ASSUME NEW x \in Int, NEW q \in Int, NEW y \in IntRange, x = (2 * INT_MAX + 2) * q + y
    PROVE  ToInt(x) = y
<1>1. PICK m \in Nat : m = INT_MAX
  BY LessonsAssumption DEF LessonsAssumption
<1>2. PICK n \in Nat : n = 2 * m + 2
  BY <1>1
<1>3. PICK r \in 0 .. n - 1 : r = y + m + 1
  BY <1>1, <1>2 DEF IntRange
<1>4. x + m + 1 = n * q + r /\ x + m + 1 \in Int
  <2>1. PICK w \in Int : w = n * q
    BY <1>2
  <2>2. x = w + y /\ y \in Int
    BY <1>1, <1>2, <2>1 DEF IntRange
  <2> QED
    BY <1>3, <2>1, <2>2
<1>5. (x + m + 1) % n = r
  BY <1>2, <1>4, Remainder
<1>6. y \in Int
  BY <1>1 DEF IntRange
<1> QED
  BY <1>1, <1>2, <1>3, <1>5, <1>6 DEF ToInt

\* It makes no difference that a part of a sum was cut before.
LEMMA CutTwice ==
    ASSUME NEW a \in Int, NEW b \in Int
    PROVE  ToInt(ToInt(a) + b) = ToInt(a + b)
<1>1. PICK n \in Nat : n = 2 * INT_MAX + 2
  BY LessonsAssumption DEF LessonsAssumption
<1>2. IntRange \subseteq Int
  BY LessonsAssumption DEF LessonsAssumption, IntRange
<1>3. PICK q \in Int, c \in Int : c = ToInt(a) /\ a = n * q + c
  BY <1>1, <1>2, ToIntIs
<1>4. PICK p \in Int, d \in IntRange : d = ToInt(c + b) /\ c + b = n * p + d
  BY <1>1, <1>3, ToIntIs
<1>5. a + b = n * (p + q) + d
  <2>1. PICK v \in Int, w \in Int : v = n * p /\ w = n * q
    BY <1>3, <1>4
  <2>2. n * (p + q) = v + w
    BY <1>3, <1>4, <2>1
  <2>3. d \in Int /\ a = w + c /\ c + b = v + d
    BY <1>2, <1>3, <1>4, <2>1
  <2>4. a + b = v + w + d
    BY <1>3, <2>1, <2>3
  <2> QED
    BY <2>2, <2>4
<1>6. ToInt(a + b) = d
  BY <1>1, <1>4, <1>5, ToIntOf
<1> QED
  BY <1>3, <1>4, <1>6

LEMMA WidthIs == VEC_WIDTH \in Nat /\ Elements = 1 .. VEC_WIDTH
BY LessonsAssumption DEF LessonsAssumption, VEC_WIDTH, Elements

\* A sum from the first element on, of which each part goes through h, exists.
LEMMA SumExists ==
    ASSUME NEW xs \in [Elements -> Int], NEW h \in [Int -> Int]
    PROVE  \E f : /\ f = [i \in 0 .. VEC_WIDTH |-> IF i = 0 THEN 0 ELSE h[f[i - 1] + xs[i]]]
                  /\ \A i \in 0 .. VEC_WIDTH : f[i] \in Int
<1> DEFINE Sums(f, k) ==
               /\ \A i \in 0 .. k : f[i] \in Int
               /\ f[0] = 0 /\ \A i \in 1 .. k : f[i] = h[f[i - 1] + xs[i]]
           B == {k \in 0 .. VEC_WIDTH : ~\E f : Sums(f, k)}
<1>1. B = {}
  <2> SUFFICES ASSUME B # {}
               PROVE  FALSE
    OBVIOUS
  <2>1. B \subseteq Nat
    BY WidthIs
  <2> HIDE DEF B
  <2>2. PICK m \in B : \A k \in B : m <= k
    BY <2>1, Least
  <2> USE DEF B
  <2>3. m \in 0 .. VEC_WIDTH /\ m \in Nat
    BY WidthIs
  <2>4. m # 0
    <3>1. Sums([i \in {0} |-> 0], 0)
      OBVIOUS
    <3> QED
      BY <3>1
  <2>5. PICK f : Sums(f, m - 1)
    <3>1. m - 1 \in 0 .. VEC_WIDTH
      BY <2>3, <2>4, WidthIs
    <3>2. m - 1 \notin B
      <4> HIDE DEF B
      <4> QED
        BY <2>2, <2>3
    <3> HIDE DEF Sums
    <3> QED
      BY <3>1, <3>2
  <2> DEFINE g == [i \in 0 .. m |-> IF i = m THEN h[f[m - 1] + xs[m]] ELSE f[i]]
  <2>6. f[m - 1] \in Int /\ xs[m] \in Int
    <3>1. m - 1 \in 0 .. m - 1 /\ m \in Elements
      BY <2>3, <2>4, WidthIs
    <3>2. \A i \in 0 .. m - 1 : f[i] \in Int
      BY <2>5
    <3> QED
      BY <3>1, <3>2
  <2>7. g[m] = h[f[m - 1] + xs[m]] /\ \A i \in 0 .. m - 1 : g[i] = f[i]
    BY <2>3
  <2> HIDE DEF g
  <2>8. g[m] \in Int
    BY <2>6, <2>7
  <2>9. \A i \in 0 .. m : g[i] \in Int
    <3>1. \A i \in 0 .. m : i = m \/ i \in 0 .. m - 1
      BY <2>3
    <3> QED
      BY <2>5, <2>7, <2>8, <3>1
  <2>10. \A i \in 1 .. m : g[i] = h[g[i - 1] + xs[i]]
    <3>1. ASSUME NEW i \in 1 .. m
          PROVE  g[i] = h[g[i - 1] + xs[i]]
      <4>1. i - 1 \in 0 .. m - 1 /\ (i = m \/ i \in 1 .. m - 1)
        BY <2>3
      <4>2. g[i - 1] = f[i - 1]
        BY <2>7, <4>1
      <4>3. CASE i = m
        BY <2>7, <4>2, <4>3
      <4>4. CASE i \in 1 .. m - 1
        <5>1. i \in 0 .. m - 1
          BY <4>4
        <5> QED
          BY <2>5, <2>7, <4>2, <4>4, <5>1
      <4> QED
        BY <4>1, <4>3, <4>4
    <3> QED
      BY <3>1
  <2>11. g[0] = 0
    <3>1. 0 \in 0 .. m - 1
      BY <2>3, <2>4
    <3> QED
      BY <2>5, <2>7, <3>1
  <2>12. Sums(g, m)
    BY <2>9, <2>10, <2>11
  <2> QED
    BY <2>12
<1>2. PICK f : Sums(f, VEC_WIDTH)
  <2>1. VEC_WIDTH \in 0 .. VEC_WIDTH
    BY WidthIs
  <2> HIDE DEF Sums
  <2> QED
    BY <1>1, <2>1
<1> DEFINE sum == [i \in 0 .. VEC_WIDTH |-> f[i]]
<1>3. \A i \in 0 .. VEC_WIDTH : sum[i] = IF i = 0 THEN 0 ELSE h[sum[i - 1] + xs[i]]
  <2>1. ASSUME NEW i \in 0 .. VEC_WIDTH
        PROVE  sum[i] = IF i = 0 THEN 0 ELSE h[sum[i - 1] + xs[i]]
    <3>1. CASE i = 0
      BY <1>2, <3>1
    <3>2. CASE i # 0
      <4>1. i \in 1 .. VEC_WIDTH /\ i - 1 \in 0 .. VEC_WIDTH
        BY <3>2, WidthIs
      <4> QED
        BY <1>2, <3>2, <4>1
    <3> QED
      BY <3>1, <3>2
  <2> QED
    BY <2>1
<1>4. sum = [i \in 0 .. VEC_WIDTH |-> IF i = 0 THEN 0 ELSE h[sum[i - 1] + xs[i]]]
  BY <1>3
<1>5. \A i \in 0 .. VEC_WIDTH : sum[i] \in Int
  BY <1>2
<1> QED
  BY <1>4, <1>5

\* Cut in every turn or once, the sum is the same.
LEMMA SumCutOnce ==
    ASSUME NEW xs \in [Elements -> Int]
    PROVE  Temp(xs) = ToInt(Total(xs)) /\ Temp(xs) \in IntRange
<1> DEFINE cut == [x \in Int |-> ToInt(x)]
           same == [x \in Int |-> x]
           temp == CHOOSE f : f = [i \in 0 .. VEC_WIDTH |->
                                     IF i = 0 THEN 0 ELSE ToInt(f[i - 1] + xs[i])]
           sum == CHOOSE f : f = [i \in 0 .. VEC_WIDTH |-> IF i = 0 THEN 0 ELSE f[i - 1] + xs[i]]
<1>1. IntRange \subseteq Int /\ 0 \in IntRange
  BY LessonsAssumption DEF LessonsAssumption, IntRange
<1>2. cut \in [Int -> Int] /\ same \in [Int -> Int]
  BY <1>1, ToIntIs
<1>3. \A i \in 0 .. VEC_WIDTH : i # 0 => i - 1 \in 0 .. VEC_WIDTH /\ i \in Elements
  BY WidthIs
<1>4. \A i \in 0 .. VEC_WIDTH : i # 0 => xs[i] \in Int
  BY <1>3
<1>5. temp = [i \in 0 .. VEC_WIDTH |-> IF i = 0 THEN 0 ELSE ToInt(temp[i - 1] + xs[i])]
  <2>1. PICK f : /\ f = [i \in 0 .. VEC_WIDTH |-> IF i = 0 THEN 0 ELSE cut[f[i - 1] + xs[i]]]
                 /\ \A i \in 0 .. VEC_WIDTH : f[i] \in Int
    <3> HIDE DEF cut
    <3> QED
      BY <1>2, SumExists
  <2>2. \A i \in 0 .. VEC_WIDTH : i # 0 => cut[f[i - 1] + xs[i]] = ToInt(f[i - 1] + xs[i])
    <3> HIDE DEF cut
    <3>1. ASSUME NEW i \in 0 .. VEC_WIDTH, i # 0
          PROVE  f[i - 1] + xs[i] \in Int
      <4>1. i - 1 \in 0 .. VEC_WIDTH
        BY <1>3, <3>1
      <4>2. xs[i] \in Int
        BY <1>4, <3>1
      <4>3. f[i - 1] \in Int
        BY <2>1, <4>1
      <4> QED
        BY <4>2, <4>3
    <3> USE DEF cut
    <3> QED
      BY <3>1
  <2>3. f = [i \in 0 .. VEC_WIDTH |-> IF i = 0 THEN 0 ELSE ToInt(f[i - 1] + xs[i])]
    <3> HIDE DEF cut
    <3> QED
      BY <2>1, <2>2
  <2> QED
    BY <2>3
<1>6. sum = [i \in 0 .. VEC_WIDTH |-> IF i = 0 THEN 0 ELSE sum[i - 1] + xs[i]]
  <2>1. PICK f : /\ f = [i \in 0 .. VEC_WIDTH |-> IF i = 0 THEN 0 ELSE same[f[i - 1] + xs[i]]]
                 /\ \A i \in 0 .. VEC_WIDTH : f[i] \in Int
    <3> HIDE DEF same
    <3> QED
      BY <1>2, SumExists
  <2>2. \A i \in 0 .. VEC_WIDTH : i # 0 => same[f[i - 1] + xs[i]] = f[i - 1] + xs[i]
    <3> HIDE DEF cut
    <3>1. ASSUME NEW i \in 0 .. VEC_WIDTH, i # 0
          PROVE  f[i - 1] + xs[i] \in Int
      <4>1. i - 1 \in 0 .. VEC_WIDTH
        BY <1>3, <3>1
      <4>2. xs[i] \in Int
        BY <1>4, <3>1
      <4>3. f[i - 1] \in Int
        BY <2>1, <4>1
      <4> QED
        BY <4>2, <4>3
    <3> USE DEF cut
    <3> QED
      BY <3>1
  <2>3. f = [i \in 0 .. VEC_WIDTH |-> IF i = 0 THEN 0 ELSE f[i - 1] + xs[i]]
    <3> HIDE DEF same
    <3> QED
      BY <2>1, <2>2
  <2> QED
    BY <2>3
<1>7. Temp(xs) = temp[VEC_WIDTH]
  BY DEF Temp
<1>8. Total(xs) = sum[VEC_WIDTH]
  BY DEF Total
<1> HIDE DEF temp, sum
<1> DEFINE B == {k \in 0 .. VEC_WIDTH : ~(sum[k] \in Int /\ temp[k] = ToInt(sum[k]))}
<1>9. B = {}
  <2> SUFFICES ASSUME B # {}
               PROVE  FALSE
    OBVIOUS
  <2>1. B \subseteq Nat
    BY WidthIs
  <2> HIDE DEF B
  <2>2. PICK m \in B : \A k \in B : m <= k
    BY <2>1, Least
  <2>3. m \in 0 .. VEC_WIDTH /\ m \in Nat
    BY <2>1, <2>2 DEF B
  <2>4. m # 0
    <3>1. 0 \in 0 .. VEC_WIDTH
      BY WidthIs
    <3>2. temp[0] = 0 /\ sum[0] = 0
      BY <1>5, <1>6, <3>1
    <3>3. 0 = (2 * INT_MAX + 2) * 0 + 0
      BY LessonsAssumption DEF LessonsAssumption
    <3>4. ToInt(0) = 0
      BY <1>1, <3>3, ToIntOf
    <3> QED
      BY <3>2, <3>4 DEF B
  <2>5. m - 1 \in 0 .. VEC_WIDTH /\ m - 1 \notin B
    BY <1>3, <2>2, <2>3, <2>4
  <2>6. PICK s \in Int, x \in Int : s = sum[m - 1] /\ x = xs[m] /\ temp[m - 1] = ToInt(s)
    BY <1>4, <2>3, <2>4, <2>5 DEF B
  <2>7. temp[m] = ToInt(temp[m - 1] + xs[m])
    BY <1>5, <2>3, <2>4
  <2>8. sum[m] = sum[m - 1] + xs[m]
    BY <1>6, <2>3, <2>4
  <2>9. temp[m] = ToInt(ToInt(s) + x) /\ sum[m] = s + x
    BY <2>6, <2>7, <2>8
  <2>10. temp[m] = ToInt(sum[m]) /\ sum[m] \in Int
    <3>1. ToInt(ToInt(s) + x) = ToInt(s + x)
      BY <2>6, CutTwice
    <3>2. s + x \in Int
      BY <2>6
    <3> QED
      BY <2>9, <3>1, <3>2
  <2> QED
    BY <2>2, <2>10 DEF B
<1>10. sum[VEC_WIDTH] \in Int /\ temp[VEC_WIDTH] = ToInt(sum[VEC_WIDTH])
  <2>1. VEC_WIDTH \in 0 .. VEC_WIDTH
    BY WidthIs
  <2> QED
    BY <1>9, <2>1
<1> QED
  BY <1>7, <1>8, <1>10, ToIntIs
-----------------------------------------------------------------------------
(***************************************************************************)
(* Multiply.cpp: the processes                                              *)
(***************************************************************************)
Inner == Range(vec1) \cup Range(vec2)
Outer == {"clk", "rst_n", "vec_o"}
Still(s, v) == signal[s] = [value |-> v, next |-> v]

Clock == process["clk"]
Compute == process["compute_vector_mul"]
Input == process["generate_input"]
Reset == process["generate_reset"]

ResetLow == <<"rst_n", "neg">>
Computed == WaitingFor("method", {pos, ResetLow})
Given == WaitingFor("start", {neg})

\* The first evaluation phase: the four processes run in any order.
Starts ==
    /\ now = 0
    /\ \A s \in DOMAIN signal : signal[s].value = 0
    /\ signal["vec_o"].next = 0 /\ Compute \in {RunnableAt("method"), Computed}
    /\ Input \in {RunnableAt("start"), Given}
    /\ \/ Clock = RunnableAt("toggle") /\ signal["clk"].next = 0
       \/ Clock = WaitingUntil("toggle", 5) /\ signal["clk"].next = 1
    /\ \/ Reset = RunnableAt("start") /\ signal["rst_n"].next = 0
       \/ Reset = WaitingUntil("low", 1) /\ signal["rst_n"].next = 1

\* From the first delta cycle to the falling edge nobody writes the inputs.
InputsStand ==
    /\ Clock = WaitingUntil("toggle", 5) /\ Still("clk", 1)
    /\ Input = Given /\ \A s \in Inner : signal[s].next = signal[s].value

\* The rising edge has woken compute_vector_mul.
Rises ==
    /\ now = 0 /\ InputsStand /\ Still("rst_n", 1) /\ Reset = WaitingUntil("low", 1)
    /\ \/ Compute = RunnableAt("method")
       \/ Compute = Computed /\ signal["vec_o"].next = Dot

\* generate_reset writes 0, and in the next delta cycle compute_vector_mul sees it.
ResetFalls ==
    /\ now = 1 /\ InputsStand /\ Compute = Computed /\ signal["rst_n"].value = 1
    /\ \/ Reset = RunnableAt("low") /\ signal["rst_n"].next = 1
       \/ Reset = WaitingUntil("high", 2) /\ signal["rst_n"].next = 0
IsReset ==
    /\ now = 1 /\ InputsStand /\ Still("rst_n", 0) /\ Reset = WaitingUntil("high", 2)
    /\ \/ Compute = RunnableAt("method")
       \/ Compute = Computed /\ signal["vec_o"].next = 0

\* Nothing but a falling reset or a rising clock would wake compute_vector_mul again.
ResetRises ==
    /\ now = 2 /\ InputsStand /\ Compute = Computed /\ Still("vec_o", 0)
    /\ \/ Reset = RunnableAt("high") /\ Still("rst_n", 0)
       \/ /\ Reset = WaitingFor("end", {})
          /\ signal["rst_n"].next = 1 /\ signal["rst_n"].value \in {0, 1}
ClockFalls ==
    /\ now = 5 /\ Compute = Computed /\ Still("vec_o", 0)
    /\ Reset = WaitingFor("end", {}) /\ Still("rst_n", 1)
    /\ Input \in {RunnableAt("start"), Given}
    /\ \/ Clock = RunnableAt("toggle") /\ Still("clk", 1)
       \/ /\ Clock = WaitingUntil("toggle", 10)
          /\ signal["clk"].next = 0 /\ signal["clk"].value \in {0, 1}

MultiplyTypes ==
    /\ program = "Multiply" /\ \A x \in DOMAIN due : due[x] = {}
    /\ DOMAIN process = {"clk", "compute_vector_mul", "generate_input", "generate_reset"}
    /\ signal \in [Outer \cup Inner -> [value : Int, next : Int]]

Phases == Starts \/ Rises \/ ResetFalls \/ IsReset \/ ResetRises \/ ClockFalls
MultiplyInv == program = "Multiply" => MultiplyTypes /\ Phases

LEMMA ProcessFields ==
    /\ \A pc : /\ RunnableAt(pc).runs /\ RunnableAt(pc).pc = pc
               /\ RunnableAt(pc).on = {} /\ RunnableAt(pc).until = -1
    /\ \A pc, events : /\ ~WaitingFor(pc, events).runs /\ WaitingFor(pc, events).pc = pc
                       /\ WaitingFor(pc, events).on = events
                       /\ WaitingFor(pc, events).until = -1
    /\ \A pc, t : /\ ~WaitingUntil(pc, t).runs /\ WaitingUntil(pc, t).pc = pc
                  /\ WaitingUntil(pc, t).on = {} /\ WaitingUntil(pc, t).until = t
BY DEF RunnableAt, WaitingFor, WaitingUntil, Never

LEMMA InnerNames ==
    /\ "clk" \notin Inner /\ "rst_n" \notin Inner /\ "vec_o" \notin Inner
    /\ \A i \in Elements : vec1[i] \in Inner /\ vec2[i] \in Inner
<1>1. vec1 \in Seq(STRING) /\ vec2 \in Seq(STRING) /\ Len(vec2) = Len(vec1)
      /\ (Range(vec1) \cup Range(vec2)) \cap {"clk", "rst_n", "vec_o"} = {}
  BY LessonsAssumption DEF LessonsAssumption, VEC_WIDTH
<1>2. DOMAIN vec1 = Elements /\ DOMAIN vec2 = Elements
  BY <1>1 DEF Elements, VEC_WIDTH
<1>3. \A i \in Elements : vec1[i] \in Inner /\ vec2[i] \in Inner
  BY <1>2 DEF Inner, Range
<1> QED
  BY <1>1, <1>3 DEF Inner

LEMMA WriteIs ==
    ASSUME signal \in [Outer \cup Inner -> [value : Int, next : Int]],
           NEW s \in Outer \cup Inner, NEW v \in Int
    PROVE  /\ Write(signal, s, v) \in [Outer \cup Inner -> [value : Int, next : Int]]
           /\ Write(signal, s, v)[s] = [value |-> signal[s].value, next |-> v]
           /\ \A x \in Outer \cup Inner : x # s => Write(signal, s, v)[x] = signal[x]
<1>1. signal[s] \in [value : Int, next : Int]
  OBVIOUS
<1>2. signal[s] = [value |-> signal[s].value, next |-> signal[s].next] /\ signal[s].value \in Int
  BY <1>1
<1>3. [signal[s] EXCEPT !.next = v] = [value |-> signal[s].value, next |-> v]
  BY <1>2
<1>4. Write(signal, s, v) = [signal EXCEPT ![s] = [value |-> signal[s].value, next |-> v]]
  BY <1>3 DEF Write
<1>5. [value |-> signal[s].value, next |-> v] \in [value : Int, next : Int]
  BY <1>2
<1> QED
  BY <1>4, <1>5

LEMMA DotIs ==
    ASSUME MultiplyTypes
    PROVE  Dot \in Int /\ Dot = ToInt(Total(Products))
<1>1. \A s \in Inner : signal[s].value \in Int
  BY DEF MultiplyTypes
<1>2. \A i \in Elements : Read(vec1[i]) * Read(vec2[i]) \in Int
  BY <1>1, InnerNames DEF Read
<1>3. Products \in [Elements -> Int]
  BY <1>2 DEF Products
<1>4. IntRange \subseteq Int
  BY LessonsAssumption DEF LessonsAssumption, IntRange
<1> QED
  BY <1>3, <1>4, SumCutOnce DEF Dot

LEMMA ProductsKept ==
    ASSUME \A s \in Inner : signal'[s].value = signal[s].value
    PROVE  Products' = Products /\ Dot' = Dot
<1>1. \A i \in Elements : signal'[vec1[i]].value = signal[vec1[i]].value
                          /\ signal'[vec2[i]].value = signal[vec2[i]].value
  BY InnerNames
<1>2. Products' = Products
  BY <1>1 DEF Products, Read
<1> QED
  BY <1>2 DEF Dot

\* In this lesson these are the steps.
LEMMA MultiplySteps ==
    ASSUME program = "Multiply", [Next]_vars
    PROVE  \/ Toggle \/ ComputeVectorMul \/ GenerateInput \/ GenerateReset
           \/ DeltaCycle /\ UNCHANGED <<program, member, printed>>
           \/ TimeAdvances(End) /\ UNCHANGED <<program, member, printed>>
           \/ UNCHANGED vars
<1>1. ~(EventTrigger \/ QueueTrigger \/ InitTrigger \/ FirstWrite \/ SecondWrite \/ LastRead
        \/ DoTest \/ GenData)
  BY DEF EventTrigger, QueueTrigger, InitTrigger, FirstWrite, SecondWrite, LastRead, DoTest, GenData
<1>2. \A p \in Catchers : ~(BeginCatching(p) \/ Catch(p))
  BY DEF BeginCatching, Catch
<1>3. \A p \in DOMAIN process : ~(Obtain(p) \/ Release(p))
  BY DEF Locks, Obtain, Release
<1> QED
  BY <1>1, <1>2, <1>3 DEF Next, Kernel, Ended

LEMMA MultiplyBegins ==
    ASSUME Init
    PROVE  MultiplyInv
<1> SUFFICES ASSUME program = "Multiply"
             PROVE  MultiplyTypes /\ Starts
  BY DEF MultiplyInv, Phases
<1>1. process = [clk |-> RunnableAt("toggle"), compute_vector_mul |-> RunnableAt("method"),
                 generate_input |-> RunnableAt("start"), generate_reset |-> RunnableAt("start")]
  BY DEF Init, Processes, Locks
<1>2. signal = [s \in Outer \cup Inner |-> [value |-> 0, next |-> 0]]
  <2>1. Signals(program) = Outer \cup Inner
    BY DEF Signals, Outer, Inner
  <2> QED
    BY <2>1 DEF Init
<1>3. signal \in [Outer \cup Inner -> [value : Int, next : Int]]
  BY <1>2
<1>4. MultiplyTypes
  BY <1>1, <1>3 DEF Init, MultiplyTypes
<1>5. now = 0
  BY DEF Init
<1>6. \A s \in DOMAIN signal : signal[s].value = 0 /\ signal[s].next = 0
  BY <1>2
<1>7. {"clk", "rst_n", "vec_o"} \subseteq DOMAIN signal
  BY <1>2 DEF Outer
<1> QED
  BY <1>1, <1>4, <1>5, <1>6, <1>7 DEF Starts, Clock, Compute, Input, Reset

\* What the process p and the signal s of a step that writes one signal look like after it.
LEMMA OneRuns ==
    ASSUME MultiplyTypes, program' = program, due' = due, now' = now,
           NEW p \in DOMAIN process, NEW to, process' = [process EXCEPT ![p] = to],
           NEW s \in Outer, NEW v \in Int, signal' = Write(signal, s, v)
    PROVE  /\ MultiplyTypes'
           /\ process'[p] = to /\ \A q \in DOMAIN process : q # p => process'[q] = process[q]
           /\ signal'[s] = [value |-> signal[s].value, next |-> v]
           /\ \A x \in Outer \cup Inner : x # s => signal'[x] = signal[x]
           /\ \A x \in Inner : signal'[x] = signal[x]
           /\ DOMAIN signal = Outer \cup Inner /\ DOMAIN signal' = Outer \cup Inner
<1>1. signal \in [Outer \cup Inner -> [value : Int, next : Int]] /\ s \in Outer \cup Inner
  BY DEF MultiplyTypes
<1>2. /\ signal' \in [Outer \cup Inner -> [value : Int, next : Int]]
      /\ signal'[s] = [value |-> signal[s].value, next |-> v]
      /\ \A x \in Outer \cup Inner : x # s => signal'[x] = signal[x]
  BY <1>1, WriteIs
<1>3. /\ DOMAIN process' = DOMAIN process /\ process'[p] = to
      /\ \A q \in DOMAIN process : q # p => process'[q] = process[q]
  OBVIOUS
<1>4. MultiplyTypes'
  BY <1>2, <1>3 DEF MultiplyTypes
<1>5. s \notin Inner
  BY InnerNames DEF Outer
<1> QED
  BY <1>1, <1>2, <1>3, <1>4, <1>5

LEMMA ToggleStep ==
    ASSUME MultiplyTypes, Phases, Toggle
    PROVE  MultiplyTypes' /\ (Starts' \/ ClockFalls')
<1>1. /\ Clock.runs /\ process' = [process EXCEPT !["clk"] = WaitingUntil("toggle", now + 5)]
      /\ signal' = Write(signal, "clk", 1 - signal["clk"].value)
      /\ UNCHANGED <<now, due, program>> /\ "clk" \in DOMAIN process
  <2>1. HalfPeriod = 5
    BY DEF MultiplyTypes, HalfPeriod
  <2> QED
    BY <2>1 DEF Toggle, Runs, Clock, Read, Wait
<1>2. ~InputsStand
  BY <1>1, ProcessFields DEF InputsStand
<1>3. Starts \/ ClockFalls
  BY <1>2 DEF Phases, Rises, ResetFalls, IsReset, ResetRises
<1>4. Clock = RunnableAt("toggle") /\ now \in {0, 5}
  BY <1>1, <1>3, ProcessFields DEF Starts, ClockFalls
<1>5. "clk" \in Outer /\ "rst_n" \in Outer /\ "vec_o" \in Outer
  BY DEF Outer
<1>6. signal["clk"].value \in Int /\ 1 - signal["clk"].value \in Int
  BY <1>5 DEF MultiplyTypes
<1>7. /\ MultiplyTypes' /\ now' = now
      /\ signal'["clk"] = [value |-> signal["clk"].value, next |-> 1 - signal["clk"].value]
      /\ signal'["rst_n"] = signal["rst_n"] /\ signal'["vec_o"] = signal["vec_o"]
      /\ \A s \in Inner : signal'[s] = signal[s]
      /\ DOMAIN signal = Outer \cup Inner /\ DOMAIN signal' = Outer \cup Inner
      /\ Clock' = WaitingUntil("toggle", now + 5)
      /\ Compute' = Compute /\ Input' = Input /\ Reset' = Reset
  <2>1. "compute_vector_mul" \in DOMAIN process /\ "generate_input" \in DOMAIN process
        /\ "generate_reset" \in DOMAIN process
    BY DEF MultiplyTypes
  <2>2. /\ MultiplyTypes'
        /\ process'["clk"] = WaitingUntil("toggle", now + 5)
        /\ \A q \in DOMAIN process : q # "clk" => process'[q] = process[q]
        /\ signal'["clk"] = [value |-> signal["clk"].value, next |-> 1 - signal["clk"].value]
        /\ \A x \in Outer \cup Inner : x # "clk" => signal'[x] = signal[x]
        /\ \A x \in Inner : signal'[x] = signal[x]
        /\ DOMAIN signal = Outer \cup Inner /\ DOMAIN signal' = Outer \cup Inner
    BY <1>1, <1>5, <1>6, OneRuns, ZenonT(60)
  <2> QED
    BY <1>1, <1>5, <2>1, <2>2 DEF Clock, Compute, Input, Reset
<1>8. CASE Starts
  <2>1. now = 0 /\ signal["clk"].value = 0
    BY <1>5, <1>7, <1>8 DEF Starts
  <2>2. \A s \in DOMAIN signal' : signal'[s].value = 0
    BY <1>7, <1>8, <2>1 DEF Starts, Outer
  <2>3. Clock' = WaitingUntil("toggle", 5) /\ signal'["clk"].next = 1
    BY <1>7, <2>1
  <2> QED
    BY <1>7, <1>8, <2>1, <2>2, <2>3 DEF Starts
<1>9. CASE ClockFalls
  <2>1. now = 5 /\ Still("clk", 1)
    BY <1>4, <1>9, ProcessFields DEF ClockFalls
  <2>2. Clock' = WaitingUntil("toggle", 10) /\ signal'["clk"].next = 0 /\ signal'["clk"].value = 1
    BY <1>7, <2>1 DEF Still
  <2> QED
    BY <1>7, <1>9, <2>1, <2>2 DEF ClockFalls, Still
<1> QED
  BY <1>3, <1>7, <1>8, <1>9

LEMMA ComputeStep ==
    ASSUME MultiplyTypes, Phases, ComputeVectorMul
    PROVE  MultiplyTypes' /\ (Starts' \/ Rises' \/ IsReset')
<1> DEFINE v == IF signal["rst_n"].value = 0 THEN 0 ELSE Dot
<1>1. /\ Compute.runs /\ process' = [process EXCEPT !["compute_vector_mul"] = Computed]
      /\ signal' = Write(signal, "vec_o", v)
      /\ UNCHANGED <<now, due, program>> /\ "compute_vector_mul" \in DOMAIN process
  BY DEF ComputeVectorMul, Runs, Compute, Read, WaitFor, Computed, ResetLow
<1>2. v \in Int
  BY DotIs
<1> HIDE DEF v
<1>3. Compute # Computed
  BY <1>1, ProcessFields DEF Computed
<1>4. Starts \/ Rises \/ IsReset
  BY <1>3 DEF Phases, ResetFalls, ResetRises, ClockFalls
<1>5. "clk" \in Outer /\ "rst_n" \in Outer /\ "vec_o" \in Outer
  BY DEF Outer
<1>6. /\ MultiplyTypes' /\ now' = now
      /\ signal'["vec_o"] = [value |-> signal["vec_o"].value, next |-> v]
      /\ signal'["rst_n"] = signal["rst_n"] /\ signal'["clk"] = signal["clk"]
      /\ \A s \in Inner : signal'[s] = signal[s]
      /\ DOMAIN signal = Outer \cup Inner /\ DOMAIN signal' = Outer \cup Inner
      /\ Compute' = Computed
      /\ Clock' = Clock /\ Input' = Input /\ Reset' = Reset
  <2>1. "clk" \in DOMAIN process /\ "generate_input" \in DOMAIN process
        /\ "generate_reset" \in DOMAIN process
    BY DEF MultiplyTypes
  <2>2. /\ MultiplyTypes'
        /\ process'["compute_vector_mul"] = Computed
        /\ \A q \in DOMAIN process : q # "compute_vector_mul" => process'[q] = process[q]
        /\ signal'["vec_o"] = [value |-> signal["vec_o"].value, next |-> v]
        /\ \A x \in Outer \cup Inner : x # "vec_o" => signal'[x] = signal[x]
        /\ \A x \in Inner : signal'[x] = signal[x]
        /\ DOMAIN signal = Outer \cup Inner /\ DOMAIN signal' = Outer \cup Inner
    BY <1>1, <1>2, <1>5, OneRuns, ZenonT(60)
  <2> QED
    BY <1>1, <1>5, <2>1, <2>2 DEF Clock, Compute, Input, Reset
<1>7. CASE Starts
  <2>1. now = 0 /\ signal["rst_n"].value = 0 /\ signal["vec_o"].value = 0
    BY <1>5, <1>6, <1>7 DEF Starts
  <2>2. v = 0
    BY <2>1 DEF v
  <2>3. \A s \in DOMAIN signal' : signal'[s].value = 0
    BY <1>6, <1>7, <2>1 DEF Starts, Outer
  <2> QED
    BY <1>6, <1>7, <2>1, <2>2, <2>3 DEF Starts
<1>8. CASE Rises
  <2>1. v = Dot
    BY <1>8 DEF Rises, Still, v
  <2>2. Dot' = Dot
    BY <1>6, ProductsKept
  <2>3. InputsStand'
    BY <1>6, <1>8 DEF Rises, InputsStand, Still
  <2> QED
    BY <1>6, <1>8, <2>1, <2>2, <2>3 DEF Rises, Still
<1>9. CASE IsReset
  <2>1. v = 0
    BY <1>9 DEF IsReset, Still, v
  <2>2. InputsStand'
    BY <1>6, <1>9 DEF IsReset, InputsStand, Still
  <2> QED
    BY <1>6, <1>9, <2>1, <2>2 DEF IsReset, Still
<1> QED
  BY <1>4, <1>6, <1>7, <1>8, <1>9

LEMMA InputStep ==
    ASSUME MultiplyTypes, Phases, GenerateInput
    PROVE  MultiplyTypes' /\ (Starts' \/ ClockFalls')
<1>1. PICK rand \in [Inner -> Inputs] :
         signal' = [s \in DOMAIN signal |->
             IF s \in DOMAIN rand THEN [signal[s] EXCEPT !.next = rand[s]] ELSE signal[s]]
  BY DEF GenerateInput, Inner
<1>2. /\ Input.runs /\ process' = [process EXCEPT !["generate_input"] = Given]
      /\ UNCHANGED <<now, due, program>> /\ "generate_input" \in DOMAIN process
  BY DEF GenerateInput, Runs, Input, WaitFor, Given
<1>3. ~InputsStand
  BY <1>2, ProcessFields DEF InputsStand, Given
<1>4. Starts \/ ClockFalls
  BY <1>3 DEF Phases, Rises, ResetFalls, IsReset, ResetRises
<1>5. signal \in [Outer \cup Inner -> [value : Int, next : Int]]
  BY DEF MultiplyTypes
<1>6. "clk" \in Outer /\ "rst_n" \in Outer /\ "vec_o" \in Outer
  BY DEF Outer
<1>7. /\ signal'["clk"] = signal["clk"] /\ signal'["rst_n"] = signal["rst_n"]
      /\ signal'["vec_o"] = signal["vec_o"] /\ DOMAIN signal' = DOMAIN signal
  BY <1>1, <1>5, <1>6, InnerNames
<1>8. \A s \in Inner : signal'[s].value = signal[s].value
                       /\ signal'[s] \in [value : Int, next : Int]
  <2>1. ASSUME NEW s \in Inner
        PROVE  signal'[s].value = signal[s].value /\ signal'[s] \in [value : Int, next : Int]
    <3>1. rand[s] \in Int
      <4>1. Inputs \subseteq Int
        BY LessonsAssumption DEF LessonsAssumption
      <4> QED
        BY <4>1
    <3>2. signal'[s] = [signal[s] EXCEPT !.next = rand[s]] /\ signal[s] \in [value : Int, next : Int]
      BY <1>1, <1>5
    <3> QED
      BY <3>1, <3>2
  <2> QED
    BY <2>1
<1>9. signal' \in [Outer \cup Inner -> [value : Int, next : Int]]
  <2>1. \A s \in Outer : signal'[s] = signal[s]
    BY <1>7 DEF Outer
  <2>2. signal' = [s \in Outer \cup Inner |-> signal'[s]]
    BY <1>1, <1>5
  <2>3. \A s \in Outer \cup Inner : signal'[s] \in [value : Int, next : Int]
    BY <1>5, <1>8, <2>1
  <2> QED
    BY <2>2, <2>3
<1>10. /\ Clock' = Clock /\ Compute' = Compute /\ Reset' = Reset /\ Input' = Given
       /\ DOMAIN process' = DOMAIN process /\ now' = now
  BY <1>2 DEF MultiplyTypes, Clock, Compute, Reset, Input
<1>11. MultiplyTypes'
  BY <1>2, <1>9, <1>10 DEF MultiplyTypes
<1>12. CASE Starts
  <2>1. \A s \in DOMAIN signal' : signal'[s].value = 0
    BY <1>5, <1>7, <1>8, <1>12 DEF Starts, Outer
  <2> QED
    BY <1>7, <1>10, <1>11, <1>12, <2>1 DEF Starts
<1>13. CASE ClockFalls
  BY <1>7, <1>10, <1>11, <1>13 DEF ClockFalls, Still
<1> QED
  BY <1>4, <1>11, <1>12, <1>13

LEMMA ResetStep ==
    ASSUME MultiplyTypes, Phases, GenerateReset
    PROVE  MultiplyTypes' /\ (Starts' \/ ResetFalls' \/ ResetRises')
<1> DEFINE v == IF Reset.pc = "low" THEN 0 ELSE 1
           to == CASE Reset.pc = "start" -> WaitingUntil("low", now + 1)
                   [] Reset.pc = "low" -> WaitingUntil("high", now + 1)
                   [] Reset.pc = "high" -> WaitingFor("end", {})
<1>1. /\ Reset.runs /\ Reset.pc \in {"start", "low", "high"}
      /\ process' = [process EXCEPT !["generate_reset"] = to]
      /\ signal' = Write(signal, "rst_n", v)
      /\ UNCHANGED <<now, due, program>> /\ "generate_reset" \in DOMAIN process
  BY DEF GenerateReset, Runs, Reset, Wait, WaitFor
<1>2. PICK w \in Int : w = v
  OBVIOUS
<1>3. PICK next : next = to
  OBVIOUS
<1> HIDE DEF v, to
<1>4. ~Rises /\ ~IsReset /\ ~ClockFalls
  BY <1>1, ProcessFields DEF Rises, IsReset, ClockFalls
<1>5. Starts \/ ResetFalls \/ ResetRises
  BY <1>4 DEF Phases
<1>6. "clk" \in Outer /\ "rst_n" \in Outer /\ "vec_o" \in Outer
  BY DEF Outer
<1>7. /\ MultiplyTypes' /\ now' = now
      /\ signal'["rst_n"] = [value |-> signal["rst_n"].value, next |-> w]
      /\ signal'["clk"] = signal["clk"] /\ signal'["vec_o"] = signal["vec_o"]
      /\ \A s \in Inner : signal'[s] = signal[s]
      /\ DOMAIN signal = Outer \cup Inner /\ DOMAIN signal' = Outer \cup Inner
      /\ Reset' = next
      /\ Clock' = Clock /\ Input' = Input /\ Compute' = Compute
  <2>1. "clk" \in DOMAIN process /\ "generate_input" \in DOMAIN process
        /\ "compute_vector_mul" \in DOMAIN process
    BY DEF MultiplyTypes
  <2>2. /\ MultiplyTypes'
        /\ process'["generate_reset"] = next
        /\ \A q \in DOMAIN process : q # "generate_reset" => process'[q] = process[q]
        /\ signal'["rst_n"] = [value |-> signal["rst_n"].value, next |-> w]
        /\ \A x \in Outer \cup Inner : x # "rst_n" => signal'[x] = signal[x]
        /\ \A x \in Inner : signal'[x] = signal[x]
        /\ DOMAIN signal = Outer \cup Inner /\ DOMAIN signal' = Outer \cup Inner
    <3>1. /\ program' = program /\ due' = due /\ now' = now /\ w \in Int
          /\ "generate_reset" \in DOMAIN process /\ "rst_n" \in Outer
          /\ process' = [process EXCEPT !["generate_reset"] = next]
          /\ signal' = Write(signal, "rst_n", w)
      BY <1>1, <1>2, <1>3, <1>6
    <3> QED
      BY <3>1, OneRuns
  <2> QED
    BY <1>1, <1>6, <2>1, <2>2 DEF Clock, Compute, Input, Reset
<1>8. InputsStand => InputsStand'
  BY <1>7 DEF InputsStand, Still
<1>9. CASE Starts
  <2>1. now = 0 /\ signal["rst_n"].value = 0 /\ Reset = RunnableAt("start")
    BY <1>1, <1>6, <1>7, <1>9, ProcessFields DEF Starts
  <2>2. w = 1 /\ next = WaitingUntil("low", 1)
    BY <1>2, <1>3, <2>1, ProcessFields DEF v, to
  <2>3. \A s \in DOMAIN signal' : signal'[s].value = 0
    BY <1>7, <1>9, <2>1 DEF Starts, Outer
  <2> QED
    BY <1>7, <1>9, <2>1, <2>2, <2>3 DEF Starts
<1>10. CASE ResetFalls
  <2>1. now = 1 /\ signal["rst_n"].value = 1 /\ Reset = RunnableAt("low") /\ InputsStand
    BY <1>1, <1>10, ProcessFields DEF ResetFalls
  <2>2. w = 0 /\ next = WaitingUntil("high", 2)
    BY <1>2, <1>3, <2>1, ProcessFields DEF v, to
  <2> QED
    BY <1>7, <1>8, <1>10, <2>1, <2>2 DEF ResetFalls
<1>11. CASE ResetRises
  <2>1. now = 2 /\ Still("rst_n", 0) /\ Reset = RunnableAt("high") /\ InputsStand
    BY <1>1, <1>11, ProcessFields DEF ResetRises
  <2>2. w = 1 /\ next = WaitingFor("end", {})
    BY <1>2, <1>3, <2>1, ProcessFields DEF v, to
  <2> QED
    BY <1>7, <1>8, <1>11, <2>1, <2>2 DEF ResetRises, Still
<1> QED
  BY <1>5, <1>7, <1>9, <1>10, <1>11

\* What a delta cycle makes of each signal and process.
LEMMA DeltaIs ==
    ASSUME MultiplyTypes, DeltaCycle
    PROVE  /\ \A p \in DOMAIN process : ~process[p].runs
           /\ \A s \in DOMAIN signal :
                 /\ signal'[s] \in [value : Int, next : Int]
                 /\ signal'[s].value = signal[s].next /\ signal'[s].next = signal[s].next
                 /\ <<s, "pos">> \in Edges => signal[s].next > signal[s].value
                 /\ <<s, "neg">> \in Edges => signal[s].next < signal[s].value
                 /\ signal[s].next > signal[s].value => <<s, "pos">> \in Edges
                 /\ signal[s].next < signal[s].value => <<s, "neg">> \in Edges
           /\ DOMAIN process' = DOMAIN process
           /\ \A p \in DOMAIN process :
                 /\ process[p].on \cap Edges # {} => process'[p] = RunnableAt(process[p].pc)
                 /\ process[p].on \cap Edges = {} /\ process[p].until # now
                       => process'[p] = process[p]
<1>1. \A p \in DOMAIN process : ~process[p].runs
  BY DEF DeltaCycle, EvaluationEnds
<1>2. ASSUME NEW s \in DOMAIN signal
      PROVE  /\ signal'[s] \in [value : Int, next : Int]
             /\ signal'[s].value = signal[s].next /\ signal'[s].next = signal[s].next
             /\ <<s, "pos">> \in Edges => signal[s].next > signal[s].value
             /\ <<s, "neg">> \in Edges => signal[s].next < signal[s].value
             /\ signal[s].next > signal[s].value => <<s, "pos">> \in Edges
             /\ signal[s].next < signal[s].value => <<s, "neg">> \in Edges
  <2>1. PICK a \in Int, b \in Int : signal[s] = [value |-> a, next |-> b]
    BY DEF MultiplyTypes
  <2>2. signal'[s] = [value |-> b, next |-> b]
    BY <2>1 DEF DeltaCycle
  <2>3. \A side : <<s, side>> \in Edges <=> a # b /\ side = IF b > a THEN "pos" ELSE "neg"
    BY <2>1 DEF Edges, Changed
  <2> QED
    BY <2>1, <2>2, <2>3
<1>3. process' = [p \in DOMAIN process |->
                    IF p \in DeltaWaiters \cup WaitersOf(process, Edges)
                    THEN RunnableAt(process[p].pc) ELSE process[p]]
  BY DEF DeltaCycle, Wake
<1>4. \A p \in DOMAIN process : p \in DeltaWaiters \cup WaitersOf(process, Edges)
                                  <=> process[p].until = now \/ process[p].on \cap Edges # {}
  BY DEF DeltaWaiters, WaitersOf
<1> QED
  BY <1>1, <1>2, <1>3, <1>4

LEMMA DeltaStep ==
    ASSUME MultiplyTypes, Phases, DeltaCycle, UNCHANGED <<program, member, printed>>
    PROVE  MultiplyTypes' /\ Phases'
<1>1. now' = now /\ due' = due /\ program' = program
  BY DEF DeltaCycle
<1>2. /\ signal \in [Outer \cup Inner -> [value : Int, next : Int]]
      /\ DOMAIN signal' = DOMAIN signal /\ "clk" \in Outer /\ "rst_n" \in Outer /\ "vec_o" \in Outer
  BY DEF MultiplyTypes, DeltaCycle, Outer
<1>3. \A s \in Outer \cup Inner :
         /\ signal'[s] \in [value : Int, next : Int]
         /\ signal'[s].value = signal[s].next /\ signal'[s].next = signal[s].next
  BY <1>2, DeltaIs
<1>4. signal' \in [Outer \cup Inner -> [value : Int, next : Int]]
  <2>1. signal' = [s \in Outer \cup Inner |-> signal'[s]]
    BY <1>2 DEF DeltaCycle
  <2>2. \A s \in Outer \cup Inner : signal'[s] \in [value : Int, next : Int]
    BY <1>3
  <2> QED
    BY <2>1, <2>2
<1>5. MultiplyTypes'
  BY <1>1, <1>4, DeltaIs DEF MultiplyTypes
<1>6. /\ "clk" \in DOMAIN process /\ "compute_vector_mul" \in DOMAIN process
      /\ "generate_input" \in DOMAIN process /\ "generate_reset" \in DOMAIN process
  BY DEF MultiplyTypes
<1>7. ~Clock.runs /\ ~Compute.runs /\ ~Input.runs /\ ~Reset.runs
  BY <1>6, DeltaIs DEF Clock, Compute, Input, Reset
<1>8. /\ \A v : signal["clk"].next = v => Still("clk", v)'
      /\ \A v : signal["rst_n"].next = v => Still("rst_n", v)'
      /\ \A v : signal["vec_o"].next = v => Still("vec_o", v)'
      /\ \A s \in Inner : signal'[s].next = signal'[s].value
  <2>1. ASSUME NEW s \in Outer, NEW v, signal[s].next = v
        PROVE  signal'[s] = [value |-> v, next |-> v]
    <3>1. /\ signal'[s] \in [value : Int, next : Int]
          /\ signal'[s].value = v /\ signal'[s].next = v
      BY <1>3, <2>1
    <3> QED
      BY <3>1
  <2> QED
    BY <1>2, <1>3, <2>1 DEF Still
<1>9. /\ Clock.on = {} /\ Clock.until # now => Clock' = Clock
      /\ Reset.on = {} /\ Reset.until # now => Reset' = Reset
  BY <1>6, DeltaIs DEF Clock, Reset
<1>10. Compute = Computed =>
          /\ pos \notin Edges /\ ResetLow \notin Edges => Compute' = Computed
          /\ pos \in Edges \/ ResetLow \in Edges => Compute' = RunnableAt("method")
  <2> SUFFICES ASSUME Compute = Computed
               PROVE  /\ pos \notin Edges /\ ResetLow \notin Edges => Compute' = Computed
                      /\ pos \in Edges \/ ResetLow \in Edges => Compute' = RunnableAt("method")
    OBVIOUS
  <2>1. Compute.on = {pos, ResetLow} /\ Compute.until = -1 /\ Compute.pc = "method"
    BY ProcessFields DEF Computed
  <2>2. now # -1
    BY DEF Phases, Starts, Rises, ResetFalls, IsReset, ResetRises, ClockFalls
  <2> QED
    BY <1>6, <2>1, <2>2, DeltaIs DEF Compute
<1>11. Input = Given =>
          /\ neg \notin Edges => Input' = Given
          /\ neg \in Edges => Input' = RunnableAt("start")
  <2> SUFFICES ASSUME Input = Given
               PROVE  /\ neg \notin Edges => Input' = Given
                      /\ neg \in Edges => Input' = RunnableAt("start")
    OBVIOUS
  <2>1. Input.on = {neg} /\ Input.until = -1 /\ Input.pc = "start"
    BY ProcessFields DEF Given
  <2>2. now # -1
    BY DEF Phases, Starts, Rises, ResetFalls, IsReset, ResetRises, ClockFalls
  <2> QED
    BY <1>6, <2>1, <2>2, DeltaIs DEF Input
<1>12. /\ pos \in Edges <=> signal["clk"].next > signal["clk"].value
       /\ neg \in Edges <=> signal["clk"].next < signal["clk"].value
       /\ ResetLow \in Edges <=> signal["rst_n"].next < signal["rst_n"].value
  BY <1>2, DeltaIs DEF pos, neg, ResetLow
<1>13. signal'["clk"].next = signal["clk"].next /\ signal'["clk"].value = signal["clk"].next
       /\ signal'["rst_n"].next = signal["rst_n"].next /\ signal'["rst_n"].value = signal["rst_n"].next
       /\ signal'["vec_o"].next = signal["vec_o"].next /\ signal'["vec_o"].value = signal["vec_o"].next
  BY <1>2, <1>3
<1>14. InputsStand => InputsStand' /\ pos \notin Edges /\ now # 5
  <2> SUFFICES ASSUME InputsStand
               PROVE  InputsStand' /\ pos \notin Edges /\ now # 5
    OBVIOUS
  <2>1. signal["clk"].next = 1 /\ signal["clk"].value = 1 /\ Clock = WaitingUntil("toggle", 5)
        /\ Input = Given
    BY DEF InputsStand, Still
  <2>2. pos \notin Edges /\ neg \notin Edges
    BY <1>12, <2>1
  <2>3. now # 5
    <3>1. Rises \/ ResetFalls \/ IsReset \/ ResetRises \/ Starts \/ Clock = RunnableAt("toggle")
          \/ Clock = WaitingUntil("toggle", 10)
      BY DEF Phases, ClockFalls
    <3>2. Clock # RunnableAt("toggle")
      BY <1>7, ProcessFields
    <3>3. Clock # WaitingUntil("toggle", 10)
      <4>1. Clock.until = 5
        BY <2>1, ProcessFields
      <4>2. WaitingUntil("toggle", 10).until = 10
        BY ProcessFields
      <4> QED
        BY <4>1, <4>2
    <3> QED
      BY <3>1, <3>2, <3>3 DEF Rises, ResetFalls, IsReset, ResetRises, Starts
  <2>4. Clock' = WaitingUntil("toggle", 5)
    BY <1>9, <2>1, <2>3, ProcessFields
  <2> QED
    BY <1>8, <1>11, <1>13, <2>1, <2>2, <2>3, <2>4 DEF InputsStand, Still
<1>15. CASE Starts
  <2>1. /\ now = 0 /\ Compute = Computed /\ Input = Given
        /\ Clock = WaitingUntil("toggle", 5) /\ signal["clk"].next = 1
        /\ Reset = WaitingUntil("low", 1) /\ signal["rst_n"].next = 1
    BY <1>7, <1>15, ProcessFields DEF Starts
  <2>2. signal["clk"].value = 0 /\ signal["rst_n"].value = 0
    BY <1>2, <1>15 DEF Starts
  <2>3. pos \in Edges /\ neg \notin Edges
    BY <1>12, <2>1, <2>2
  <2>4. Clock' = WaitingUntil("toggle", 5) /\ Reset' = WaitingUntil("low", 1)
    BY <1>9, <2>1, ProcessFields
  <2>5. Compute' = RunnableAt("method") /\ Input' = Given
    BY <1>10, <1>11, <2>1, <2>3
  <2>6. InputsStand'
    BY <1>8, <1>13, <2>1, <2>4, <2>5 DEF InputsStand, Still
  <2>7. Rises'
    BY <1>1, <1>8, <1>13, <2>1, <2>4, <2>5, <2>6 DEF Rises, Still
  <2> QED
    BY <1>5, <2>7 DEF Phases
<1>16. CASE Rises
  <2>1. /\ now = 0 /\ InputsStand /\ signal["rst_n"].next = 1 /\ signal["rst_n"].value = 1
        /\ Reset = WaitingUntil("low", 1) /\ Compute = Computed /\ signal["vec_o"].next = Dot
    BY <1>7, <1>16, ProcessFields DEF Rises, Still
  <2>2. pos \notin Edges /\ ResetLow \notin Edges
    BY <1>12, <1>14, <2>1
  <2>3. Compute' = Computed /\ Reset' = WaitingUntil("low", 1)
    BY <1>9, <1>10, <2>1, <2>2, ProcessFields
  <2>4. Dot' = Dot
    <3>1. \A s \in Inner : signal'[s].value = signal[s].value
      BY <1>3, <2>1 DEF InputsStand
    <3> QED
      BY <3>1, ProductsKept
  <2>5. Rises'
    BY <1>1, <1>8, <1>13, <1>14, <2>1, <2>3, <2>4 DEF Rises, Still
  <2> QED
    BY <1>5, <2>5 DEF Phases
<1>17. CASE ResetFalls
  <2>1. /\ now = 1 /\ InputsStand /\ Compute = Computed /\ signal["rst_n"].value = 1
        /\ Reset = WaitingUntil("high", 2) /\ signal["rst_n"].next = 0
    BY <1>7, <1>17, ProcessFields DEF ResetFalls
  <2>2. ResetLow \in Edges
    BY <1>12, <2>1
  <2>3. Compute' = RunnableAt("method") /\ Reset' = WaitingUntil("high", 2)
    BY <1>9, <1>10, <2>1, <2>2, ProcessFields
  <2>4. IsReset'
    BY <1>1, <1>8, <1>13, <1>14, <2>1, <2>3 DEF IsReset, Still
  <2> QED
    BY <1>5, <2>4 DEF Phases
<1>18. CASE IsReset
  <2>1. /\ now = 1 /\ InputsStand /\ signal["rst_n"].next = 0 /\ signal["rst_n"].value = 0
        /\ Reset = WaitingUntil("high", 2) /\ Compute = Computed /\ signal["vec_o"].next = 0
    BY <1>7, <1>18, ProcessFields DEF IsReset, Still
  <2>2. pos \notin Edges /\ ResetLow \notin Edges
    BY <1>12, <1>14, <2>1
  <2>3. Compute' = Computed /\ Reset' = WaitingUntil("high", 2)
    BY <1>9, <1>10, <2>1, <2>2, ProcessFields
  <2>4. IsReset'
    BY <1>1, <1>8, <1>13, <1>14, <2>1, <2>3 DEF IsReset, Still
  <2> QED
    BY <1>5, <2>4 DEF Phases
<1>19. CASE ResetRises
  <2>1. /\ now = 2 /\ InputsStand /\ Compute = Computed /\ signal["vec_o"].next = 0
        /\ Reset = WaitingFor("end", {})
        /\ signal["rst_n"].next = 1 /\ signal["rst_n"].value \in {0, 1}
    BY <1>7, <1>19, ProcessFields DEF ResetRises, Still
  <2>2. pos \notin Edges /\ ResetLow \notin Edges
    BY <1>12, <1>14, <2>1
  <2>3. Compute' = Computed /\ Reset' = WaitingFor("end", {})
    BY <1>9, <1>10, <2>1, <2>2, ProcessFields
  <2>4. ResetRises'
    BY <1>1, <1>8, <1>13, <1>14, <2>1, <2>3 DEF ResetRises, Still
  <2> QED
    BY <1>5, <2>4 DEF Phases
<1>20. CASE ClockFalls
  <2>1. /\ now = 5 /\ Compute = Computed /\ signal["vec_o"].next = 0
        /\ Reset = WaitingFor("end", {}) /\ signal["rst_n"].next = 1 /\ signal["rst_n"].value = 1
        /\ Input = Given /\ Clock = WaitingUntil("toggle", 10)
        /\ signal["clk"].next = 0 /\ signal["clk"].value \in {0, 1}
    BY <1>7, <1>20, ProcessFields DEF ClockFalls, Still
  <2>2. pos \notin Edges /\ ResetLow \notin Edges
    BY <1>12, <2>1
  <2>3. Compute' = Computed /\ Reset' = WaitingFor("end", {}) /\ Clock' = WaitingUntil("toggle", 10)
    BY <1>9, <1>10, <2>1, <2>2, ProcessFields
  <2>4. Input' \in {RunnableAt("start"), Given}
    BY <1>11, <2>1
  <2>5. ClockFalls'
    BY <1>1, <1>8, <1>13, <2>1, <2>3, <2>4 DEF ClockFalls, Still
  <2> QED
    BY <1>5, <2>5 DEF Phases
<1> QED
  BY <1>15, <1>16, <1>17, <1>18, <1>19, <1>20 DEF Phases

LEMMA TimeIs ==
    ASSUME MultiplyTypes, now \in Nat, \A p \in DOMAIN process : process[p].until \in Int,
           TimeAdvances(End)
    PROVE  /\ \A p \in DOMAIN process : ~process[p].runs /\ process[p].until # now
           /\ \A s \in DOMAIN signal : signal[s].value = signal[s].next
           /\ now' < 10 /\ \E p \in DOMAIN process : process[p].until = now' /\ process[p].until > now
           /\ \A p \in DOMAIN process : process[p].until > now => now' <= process[p].until
           /\ signal' = signal /\ DOMAIN process' = DOMAIN process
           /\ \A x \in DOMAIN due' : due'[x] = {}
           /\ \A p \in DOMAIN process :
                 process'[p] = IF process[p].until = now' THEN RunnableAt(process[p].pc)
                               ELSE process[p]
<1>1. \A x \in DOMAIN due : due[x] = {}
  BY DEF MultiplyTypes
<1>2. Pending = {process[p].until : p \in {q \in DOMAIN process : process[q].until > now}}
  <2>1. UNION {due[x] : x \in DOMAIN due} = {}
    BY <1>1
  <2> QED
    BY <2>1 DEF Pending
<1>3. Pending \subseteq Nat
  BY <1>2
<1>4. Min(Pending) \in Pending /\ (\A t \in Pending : Min(Pending) <= t) /\ now' = Min(Pending)
  BY <1>3, MinIs DEF TimeAdvances
<1>5. /\ \E p \in DOMAIN process : process[p].until = now' /\ process[p].until > now
      /\ \A p \in DOMAIN process : process[p].until > now => now' <= process[p].until
  BY <1>2, <1>4
<1>6. End = 10
  BY DEF MultiplyTypes, End, Locks
<1>7. Notified(now') = {}
  BY <1>1 DEF Notified
<1>8. WaitersOf(process, {<<x, "event">> : x \in Notified(now')}) = {}
  BY <1>7 DEF WaitersOf
<1>9. process' = [p \in DOMAIN process |->
                    IF process[p].until = now' THEN RunnableAt(process[p].pc) ELSE process[p]]
  BY <1>8 DEF TimeAdvances, Wake
<1>10. now' < 10
  BY <1>4, <1>6 DEF TimeAdvances
<1>11. \A x \in DOMAIN due' : due'[x] = {}
  BY <1>1 DEF TimeAdvances
<1>12. /\ \A p \in DOMAIN process : ~process[p].runs /\ process[p].until # now
       /\ \A s \in DOMAIN signal : signal[s].value = signal[s].next
       /\ signal' = signal
  BY DEF TimeAdvances, Quiet, EvaluationEnds, DeltaWaiters, Changed
<1> QED
  BY <1>5, <1>9, <1>10, <1>11, <1>12

LEMMA UntilIs ==
    ASSUME MultiplyTypes, Phases
    PROVE  now \in Nat /\ \A p \in DOMAIN process : process[p].until \in Int
<1>1. now \in Nat
  BY DEF Phases, Starts, Rises, ResetFalls, IsReset, ResetRises, ClockFalls
<1>2. Clock.until \in Int
  <2>1. \/ Clock = RunnableAt("toggle") \/ Clock = WaitingUntil("toggle", 5)
        \/ Clock = WaitingUntil("toggle", 10)
    BY DEF Phases, Starts, InputsStand, Rises, ResetFalls, IsReset, ResetRises, ClockFalls
  <2> QED
    BY <2>1, ProcessFields
<1>3. Compute.until \in Int
  <2>1. Compute = RunnableAt("method") \/ Compute = Computed
    BY DEF Phases, Starts, Rises, ResetFalls, IsReset, ResetRises, ClockFalls
  <2> QED
    BY <2>1, ProcessFields DEF Computed
<1>4. Input.until \in Int
  <2>1. Input = RunnableAt("start") \/ Input = Given
    BY DEF Phases, Starts, InputsStand, Rises, ResetFalls, IsReset, ResetRises, ClockFalls
  <2> QED
    BY <2>1, ProcessFields DEF Given
<1>5. Reset.until \in Int
  <2>1. \/ \E pc : Reset = RunnableAt(pc)
        \/ Reset = WaitingUntil("low", 1) \/ Reset = WaitingUntil("high", 2)
        \/ Reset = WaitingFor("end", {})
    BY DEF Phases, Starts, Rises, ResetFalls, IsReset, ResetRises, ClockFalls
  <2> QED
    BY <2>1, ProcessFields
<1> QED
  BY <1>1, <1>2, <1>3, <1>4, <1>5 DEF MultiplyTypes, Clock, Compute, Input, Reset

LEMMA TimeStep ==
    ASSUME MultiplyTypes, Phases, TimeAdvances(End), UNCHANGED <<program, member, printed>>
    PROVE  MultiplyTypes' /\ Phases'
<1>1. /\ signal \in [Outer \cup Inner -> [value : Int, next : Int]] /\ signal' = signal
      /\ "clk" \in Outer /\ "rst_n" \in Outer /\ "vec_o" \in Outer
      /\ DOMAIN process = {"clk", "compute_vector_mul", "generate_input", "generate_reset"}
  BY UntilIs, TimeIs DEF MultiplyTypes, Outer
<1>2. MultiplyTypes'
  BY <1>1, UntilIs, TimeIs DEF MultiplyTypes
<1>3. ~Clock.runs /\ ~Compute.runs /\ ~Input.runs /\ ~Reset.runs
  BY <1>1, UntilIs, TimeIs DEF Clock, Compute, Input, Reset
<1>4. /\ signal["clk"].value = signal["clk"].next /\ signal["rst_n"].value = signal["rst_n"].next
      /\ signal["vec_o"].value = signal["vec_o"].next
  BY <1>1, UntilIs, TimeIs
<1>5. /\ Clock' = IF Clock.until = now' THEN RunnableAt(Clock.pc) ELSE Clock
      /\ Compute' = IF Compute.until = now' THEN RunnableAt(Compute.pc) ELSE Compute
      /\ Input' = IF Input.until = now' THEN RunnableAt(Input.pc) ELSE Input
      /\ Reset' = IF Reset.until = now' THEN RunnableAt(Reset.pc) ELSE Reset
  BY <1>1, UntilIs, TimeIs DEF Clock, Compute, Input, Reset
<1>6. /\ now' < 10 /\ now' > now /\ now' \in Int
      /\ now' \in {Clock.until, Compute.until, Input.until, Reset.until}
      /\ Clock.until > now => now' <= Clock.until
      /\ Reset.until > now => now' <= Reset.until
  <2>1. PICK p \in DOMAIN process : process[p].until = now' /\ process[p].until > now
    BY UntilIs, TimeIs
  <2>2. now' < 10 /\ now' > now /\ now' \in Int
    BY <2>1, UntilIs, TimeIs
  <2>3. now' \in {Clock.until, Compute.until, Input.until, Reset.until}
    BY <1>1, <2>1 DEF Clock, Compute, Input, Reset
  <2>4. \A q \in DOMAIN process : process[q].until > now => now' <= process[q].until
    BY UntilIs, TimeIs
  <2> QED
    BY <1>1, <2>2, <2>3, <2>4 DEF Clock, Reset
<1>7. Compute = Computed => Compute.until = -1
  BY ProcessFields DEF Computed
<1>8. Input = Given => Input.until = -1
  BY ProcessFields DEF Given
<1>9. ~Starts
  <2> SUFFICES ASSUME Starts
               PROVE  FALSE
    OBVIOUS
  <2>1. signal["clk"].value = 0
    BY <1>1 DEF Starts
  <2>2. Clock # RunnableAt("toggle")
    BY <1>3, ProcessFields
  <2> QED
    BY <1>4, <2>1, <2>2 DEF Starts
<1>10. CASE Rises
  <2>1. /\ now = 0 /\ InputsStand /\ Still("rst_n", 1) /\ Reset = WaitingUntil("low", 1)
        /\ Compute = Computed /\ Clock = WaitingUntil("toggle", 5) /\ Input = Given
    BY <1>3, <1>10, ProcessFields DEF Rises, InputsStand
  <2>2. Clock.until = 5 /\ Reset.until = 1 /\ Reset.pc = "low"
    BY <2>1, ProcessFields
  <2>3. now' = 1
    <3>1. now' \in {5, -1, 1} /\ now' > 0 /\ now' <= 1
      BY <1>6, <1>7, <1>8, <2>1, <2>2
    <3> QED
      BY <3>1
  <2>4. Clock' = Clock /\ Compute' = Computed /\ Input' = Given /\ Reset' = RunnableAt("low")
    BY <1>5, <1>7, <1>8, <2>1, <2>2, <2>3
  <2>5. ResetFalls'
    BY <1>1, <2>1, <2>3, <2>4 DEF ResetFalls, InputsStand, Still
  <2> QED
    BY <1>2, <2>5 DEF Phases
<1>11. ~ResetFalls
  <2>1. Reset # RunnableAt("low")
    BY <1>3, ProcessFields
  <2> QED
    BY <1>4, <2>1 DEF ResetFalls
<1>12. CASE IsReset
  <2>1. /\ now = 1 /\ InputsStand /\ Still("rst_n", 0) /\ Reset = WaitingUntil("high", 2)
        /\ Compute = Computed /\ Clock = WaitingUntil("toggle", 5) /\ Input = Given
        /\ signal["vec_o"].next = 0
    BY <1>3, <1>12, ProcessFields DEF IsReset, InputsStand
  <2>2. Clock.until = 5 /\ Reset.until = 2 /\ Reset.pc = "high"
    BY <2>1, ProcessFields
  <2>3. now' = 2
    <3>1. now' \in {5, -1, 2} /\ now' > 1 /\ now' <= 2
      BY <1>6, <1>7, <1>8, <2>1, <2>2
    <3> QED
      BY <3>1
  <2>4. Clock' = Clock /\ Compute' = Computed /\ Input' = Given /\ Reset' = RunnableAt("high")
    BY <1>5, <1>7, <1>8, <2>1, <2>2, <2>3
  <2>5. Still("vec_o", 0)
    <3>1. signal["vec_o"] \in [value : Int, next : Int]
      BY <1>1
    <3> QED
      BY <1>4, <2>1, <3>1 DEF Still
  <2>6. ResetRises'
    BY <1>1, <2>1, <2>3, <2>4, <2>5 DEF ResetRises, InputsStand, Still
  <2> QED
    BY <1>2, <2>6 DEF Phases
<1>13. CASE ResetRises
  <2>1. /\ now = 2 /\ InputsStand /\ Still("clk", 1) /\ Still("vec_o", 0)
        /\ Reset = WaitingFor("end", {}) /\ signal["rst_n"].next = 1
        /\ Compute = Computed /\ Clock = WaitingUntil("toggle", 5) /\ Input = Given
    BY <1>3, <1>13, ProcessFields DEF ResetRises, InputsStand
  <2>2. Clock.until = 5 /\ Reset.until = -1 /\ Clock.pc = "toggle"
    BY <2>1, ProcessFields
  <2>3. now' = 5
    <3>1. now' \in {5, -1} /\ now' > 2
      BY <1>6, <1>7, <1>8, <2>1, <2>2
    <3> QED
      BY <3>1
  <2>4. Clock' = RunnableAt("toggle") /\ Compute' = Computed /\ Input' = Given /\ Reset' = Reset
    BY <1>5, <1>7, <1>8, <2>1, <2>2, <2>3
  <2>5. Still("rst_n", 1)
    <3>1. signal["rst_n"] \in [value : Int, next : Int]
      BY <1>1
    <3> QED
      BY <1>4, <2>1, <3>1 DEF Still
  <2>6. ClockFalls'
    BY <1>1, <2>1, <2>3, <2>4, <2>5 DEF ClockFalls, Still
  <2> QED
    BY <1>2, <2>6 DEF Phases
<1>14. ~ClockFalls
  <2> SUFFICES ASSUME ClockFalls
               PROVE  FALSE
    OBVIOUS
  <2>1. /\ now = 5 /\ Compute = Computed /\ Input = Given
        /\ Reset = WaitingFor("end", {}) /\ Clock = WaitingUntil("toggle", 10)
    BY <1>3, ProcessFields DEF ClockFalls
  <2>2. Clock.until = 10 /\ Reset.until = -1
    BY <2>1, ProcessFields
  <2>3. now' \in {10, -1} /\ now' > 5 /\ now' < 10
    BY <1>6, <1>7, <1>8, <2>1, <2>2
  <2> QED
    BY <2>3
<1> QED
  BY <1>9, <1>10, <1>11, <1>12, <1>13, <1>14 DEF Phases

LEMMA MultiplyKept ==
    ASSUME MultiplyInv, [Next]_vars
    PROVE  MultiplyInv'
<1>1. program' = program
  BY DEF Next, vars, Kernel, Ended, EventTrigger, QueueTrigger, InitTrigger, BeginCatching, Catch,
         Obtain, Release, FirstWrite, SecondWrite, LastRead, Toggle, DoTest, GenData,
         ComputeVectorMul, GenerateInput, GenerateReset
<1>2. CASE program # "Multiply"
  BY <1>1, <1>2 DEF MultiplyInv
<1>3. CASE program = "Multiply"
  <2>1. MultiplyTypes /\ Phases
    BY <1>3 DEF MultiplyInv
  <2>2. ASSUME UNCHANGED vars
        PROVE  MultiplyTypes' /\ Phases'
    <3>1. UNCHANGED <<now, process, due, signal, program>>
      BY <2>2 DEF vars
    <3>2. Dot' = Dot
      BY <3>1, ProductsKept
    <3>3. MultiplyTypes'
      BY <2>1, <3>1 DEF MultiplyTypes
    <3>4. InputsStand' <=> InputsStand
      BY <3>1 DEF InputsStand, Clock, Input, Still
    <3>5. Phases'
      BY <2>1, <3>1, <3>2, <3>4 DEF Phases, Starts, Rises, ResetFalls, IsReset, ResetRises,
         ClockFalls, Clock, Compute, Input, Reset, Still
    <3> QED
      BY <3>3, <3>5
  <2>3. MultiplyTypes' /\ Phases'
    <3>1. CASE Toggle
      BY <2>1, <3>1, ToggleStep DEF Phases
    <3>2. CASE ComputeVectorMul
      BY <2>1, <3>2, ComputeStep DEF Phases
    <3>3. CASE GenerateInput
      BY <2>1, <3>3, InputStep DEF Phases
    <3>4. CASE GenerateReset
      BY <2>1, <3>4, ResetStep DEF Phases
    <3> QED
      BY <1>3, <2>1, <2>2, <3>1, <3>2, <3>3, <3>4, MultiplySteps, DeltaStep, TimeStep
  <2> QED
    BY <2>3 DEF MultiplyInv
<1> QED
  BY <1>2, <1>3

LEMMA MultiplyInvariance == Spec => []MultiplyInv
<1>1. Init => MultiplyInv
  BY MultiplyBegins
<1>2. MultiplyInv /\ [Next]_vars => MultiplyInv'
  BY MultiplyKept
<1> QED
  BY <1>1, <1>2, PTL DEF Spec

\* Multiply.cpp: for vectors of any length, and any inputs and width of an int, the output is the
\* product, cut to an int once, and after the reset 0, in every order of the processes.
THEOREM ProductIsPut == Spec => []OutputIsProduct
<1>1. MultiplyInv => OutputIsProduct
  <2> SUFFICES ASSUME MultiplyInv, program = "Multiply", Quiet
               PROVE  Read("vec_o") = IF now > 0 THEN 0 ELSE ToInt(Total(Products))
    BY DEF OutputIsProduct
  <2>1. MultiplyTypes /\ Phases
    BY DEF MultiplyInv
  <2>2. "clk" \in DOMAIN signal /\ "rst_n" \in DOMAIN signal /\ "vec_o" \in DOMAIN signal
        /\ "clk" \in DOMAIN process /\ "compute_vector_mul" \in DOMAIN process
        /\ "generate_reset" \in DOMAIN process
    BY <2>1 DEF MultiplyTypes, Outer
  <2>3. /\ signal["clk"].value = signal["clk"].next /\ signal["rst_n"].value = signal["rst_n"].next
        /\ Read("vec_o") = signal["vec_o"].next
        /\ ~Clock.runs /\ ~Compute.runs /\ ~Reset.runs
    BY <2>2 DEF Quiet, EvaluationEnds, Changed, Read, Clock, Compute, Reset
  <2>4. Dot = ToInt(Total(Products))
    BY <2>1, DotIs
  <2>5. \A pc : Clock # RunnableAt(pc) /\ Compute # RunnableAt(pc) /\ Reset # RunnableAt(pc)
    BY <2>3, ProcessFields
  <2>6. CASE Starts
    BY <2>2, <2>3, <2>5, <2>6 DEF Starts
  <2>7. CASE Rises
    BY <2>3, <2>4, <2>5, <2>7 DEF Rises
  <2>8. CASE ResetFalls
    BY <2>3, <2>5, <2>8 DEF ResetFalls
  <2>9. CASE IsReset
    BY <2>3, <2>5, <2>9 DEF IsReset
  <2>10. CASE ResetRises \/ ClockFalls
    BY <2>3, <2>10 DEF ResetRises, ClockFalls, Still
  <2> QED
    BY <2>1, <2>6, <2>7, <2>8, <2>9, <2>10 DEF Phases
<1> QED
  BY <1>1, MultiplyInvariance, PTL
-----------------------------------------------------------------------------
(***************************************************************************)
(* Type correctness                                                         *)
(***************************************************************************)
ProcessType == [pc : Labels, runs : BOOLEAN, on : SUBSET Events, until : Int]
SignalType == [value : IntRange, next : IntRange]
Bit == {0, 1}

ProcessTypes(procs) == \A p \in DOMAIN procs : procs[p] \in ProcessType
SignalTypes(sigs) ==
    /\ \A s \in DOMAIN sigs : sigs[s] \in SignalType
    /\ "clk" \in DOMAIN sigs => sigs["clk"].value \in Bit /\ sigs["clk"].next \in Bit
MemberTypes(m) ==
    /\ m \in [value : Nat, index : Nat, index_ : Nat, valid : Bit]
    /\ program \notin Locks => m.value = 0
PrintedTypes(lines) == \A p \in DOMAIN lines : lines[p] \in Seq(Int)
DueTypes == \A x \in DOMAIN due : due[x] \subseteq {t \in Nat : t > now}

Types ==
    /\ program \in Programs /\ now \in Nat /\ now <= End /\ DueTypes
    /\ ProcessTypes(process) /\ SignalTypes(signal) /\ MemberTypes(member)
    /\ PrintedTypes(printed) /\ DOMAIN signal = Signals(program)

LEMMA SmallInts ==
    /\ IntRange \subseteq Int /\ -1 \in IntRange /\ Bit \subseteq IntRange
    /\ 3 \in IntRange /\ 4 \in IntRange /\ 5 \in IntRange /\ Inputs \subseteq IntRange
BY LessonsAssumption DEF LessonsAssumption, IntRange, Bit

LEMMA EndIs ==
    ASSUME program \in Programs
    PROVE  End \in Nat
BY DEF Programs, End

LEMMA ProcessOf ==
    /\ \A pc \in Labels : RunnableAt(pc) \in ProcessType
    /\ \A pc \in Labels, events \in SUBSET Events : WaitingFor(pc, events) \in ProcessType
    /\ \A pc \in Labels, t \in Int : WaitingUntil(pc, t) \in ProcessType
BY DEF RunnableAt, WaitingFor, WaitingUntil, ProcessType, Never

LEMMA WokenTypes ==
    ASSUME NEW procs, ProcessTypes(procs), NEW S
    PROVE  ProcessTypes(Wake(procs, S))
<1>1. \A p \in DOMAIN procs : procs[p] \in ProcessType /\ procs[p].pc \in Labels
  BY DEF ProcessTypes, ProcessType
<1>2. \A p \in DOMAIN procs : RunnableAt(procs[p].pc) \in ProcessType
  BY <1>1, ProcessOf
<1> QED
  BY <1>1, <1>2 DEF ProcessTypes, Wake

LEMMA ChangedTypes ==
    ASSUME NEW procs, ProcessTypes(procs), NEW p, NEW to \in ProcessType
    PROVE  ProcessTypes([procs EXCEPT ![p] = to])
BY DEF ProcessTypes

LEMMA PrintedMore ==
    ASSUME NEW lines, PrintedTypes(lines), NEW p, NEW x \in Int
    PROVE  PrintedTypes([lines EXCEPT ![p] = Append(@, x)])
<1>1. \A q \in DOMAIN lines : lines[q] \in Seq(Int) /\ Append(lines[q], x) \in Seq(Int)
  BY DEF PrintedTypes
<1> QED
  BY <1>1 DEF PrintedTypes

LEMMA TypesBegin ==
    ASSUME Init
    PROVE  Types
<1>1. program \in Programs /\ now = 0 /\ now \in Nat /\ now <= End
  <2>1. program \in Programs /\ now = 0
    BY DEF Init
  <2> QED
    BY <2>1, EndIs
<1>2. DueTypes
  BY DEF Init, DueTypes
<1>3. ProcessTypes(process)
  <2>1. {e} \in SUBSET Events /\ {eq} \in SUBSET Events /\ {pos} \in SUBSET Events
    BY DEF Events
  <2>2. \A pc \in {"start", "loop", "try", "toggle", "method"} :
           /\ RunnableAt(pc) \in ProcessType /\ WaitingFor(pc, {e}) \in ProcessType
           /\ WaitingFor(pc, {eq}) \in ProcessType /\ WaitingFor(pc, {pos}) \in ProcessType
    <3>1. \A pc \in {"start", "loop", "try", "toggle", "method"} : pc \in Labels
      BY DEF Labels
    <3> QED
      BY <2>1, <3>1, ProcessOf
  <2>3. process = Processes(program)
    BY DEF Init
  <2>4. CASE program = "event"
    BY <2>2, <2>3, <2>4 DEF Processes, ProcessTypes
  <2>5. CASE program = "eventqueue"
    BY <2>2, <2>3, <2>5 DEF Processes, ProcessTypes
  <2>6. CASE program = "init"
    BY <2>2, <2>3, <2>6 DEF Processes, ProcessTypes
  <2>7. CASE program \in Locks
    BY <2>2, <2>3, <2>7 DEF Processes, ProcessTypes, Locks
  <2>8. CASE program = "signal"
    BY <2>2, <2>3, <2>8 DEF Processes, ProcessTypes, Locks
  <2>9. CASE program = "cthread"
    BY <2>2, <2>3, <2>9 DEF Processes, ProcessTypes, Locks
  <2>10. CASE program = "Multiply"
    BY <2>2, <2>3, <2>10 DEF Processes, ProcessTypes, Locks
  <2> QED
    BY <1>1, <2>4, <2>5, <2>6, <2>7, <2>8, <2>9, <2>10 DEF Programs, Locks
<1>4. SignalTypes(signal) /\ DOMAIN signal = Signals(program)
  <2>1. PICK v \in IntRange : /\ signal = [s \in Signals(program) |-> [value |-> v, next |-> v]]
                              /\ v = IF program = "signal" THEN -1 ELSE 0
    BY SmallInts DEF Init, Bit
  <2>2. DOMAIN signal = Signals(program) /\ \A s \in DOMAIN signal : signal[s] \in SignalType
    BY <2>1 DEF SignalType
  <2>3. "clk" \in DOMAIN signal => signal["clk"].value \in Bit /\ signal["clk"].next \in Bit
    <3>1. program = "signal" => "clk" \notin DOMAIN signal
      BY <2>2 DEF Signals
    <3> QED
      BY <2>1, <3>1 DEF Bit
  <2> QED
    BY <2>2, <2>3 DEF SignalTypes
<1>5. MemberTypes(member)
  <2>1. CASE program \in Locks
    BY <2>1, LocksAre DEF Init, MemberTypes, Bit
  <2>2. CASE program \notin Locks
    BY <2>2 DEF Init, MemberTypes, Bit
  <2> QED
    BY <2>1, <2>2
<1>6. PrintedTypes(printed)
  <2>1. << >> \in Seq(Int)
    OBVIOUS
  <2> QED
    BY <2>1 DEF Init, PrintedTypes
<1> QED
  BY <1>1, <1>2, <1>3, <1>4, <1>5, <1>6 DEF Types

\* Every step of a process goes on at a label of the program, with a wait.
LEMMA ProcessesTyped ==
    ASSUME Types, Next
    PROVE  ProcessTypes(process')
<1>1. now \in Nat /\ ProcessTypes(process)
  BY DEF Types
<1>2. \A p : /\ \A pc \in Labels, t \in Nat : ProcessTypes(Wait(p, pc, t))
             /\ \A pc \in Labels, events \in SUBSET Events : ProcessTypes(WaitFor(p, pc, events))
  <2>1. ASSUME NEW p, NEW pc \in Labels, NEW t \in Nat
        PROVE  ProcessTypes(Wait(p, pc, t))
    <3>1. WaitingUntil(pc, now + t) \in ProcessType
      BY <1>1, ProcessOf
    <3> QED
      BY <1>1, <3>1, ChangedTypes DEF Wait
  <2>2. ASSUME NEW p, NEW pc \in Labels, NEW events \in SUBSET Events
        PROVE  ProcessTypes(WaitFor(p, pc, events))
    <3>1. WaitingFor(pc, events) \in ProcessType
      BY ProcessOf
    <3> QED
      BY <1>1, <3>1, ChangedTypes DEF WaitFor
  <2> QED
    BY <2>1, <2>2
<1>3. /\ {"start", "second", "third", "loop", "end", "try", "blocked", "hold", "toggle", "method",
          "low", "high"} \subseteq Labels
      /\ {0, 1, 2, 5, 10} \subseteq Nat
      /\ {{}, {e}, {eq}, {free}, {pos}, {neg}, {pos, ResetLow}} \subseteq SUBSET Events
  BY DEF Labels, Events, ResetLow
<1>4. CASE EventTrigger \/ QueueTrigger \/ InitTrigger
  BY <1>2, <1>3, <1>4 DEF EventTrigger, QueueTrigger, InitTrigger
<1>5. CASE \E p \in Catchers : BeginCatching(p) \/ Catch(p)
  <2>1. PICK p : process' = WaitFor(p, "loop", CaughtBy(p))
    BY <1>5 DEF BeginCatching, Catch
  <2>2. CaughtBy(p) \in {{e}, {eq}}
    BY DEF CaughtBy
  <2> QED
    BY <1>2, <1>3, <2>1, <2>2
<1>6. ASSUME NEW p \in DOMAIN process, Obtain(p)
      PROVE  ProcessTypes(process')
  <2>1. process' = Wait(p, "hold", 1) \/ process' = WaitFor(p, "blocked", {free})
    BY <1>6 DEF Obtain
  <2> QED
    BY <1>2, <1>3, <2>1
<1>7. ASSUME NEW p \in DOMAIN process, Release(p)
      PROVE  ProcessTypes(process')
  <2>1. ProcessTypes(Wait(p, "try", 0))
    BY <1>2, <1>3
  <2>2. PICK procs, S : procs = Wait(p, "try", 0) /\ process' = Wake(procs, S)
    BY <1>7 DEF Release, Notify
  <2> QED
    BY <2>1, <2>2, WokenTypes
<1>8. CASE FirstWrite \/ SecondWrite \/ LastRead
  BY <1>2, <1>3, <1>8 DEF FirstWrite, SecondWrite, LastRead
<1>9. CASE Toggle
  <2>1. HalfPeriod \in Nat
    BY DEF HalfPeriod
  <2> QED
    BY <1>2, <1>3, <1>9, <2>1 DEF Toggle
<1>10. CASE DoTest \/ GenData \/ ComputeVectorMul \/ GenerateInput
  <2>1. \/ process' = WaitFor("DoTest", "loop", {pos})
        \/ process' = WaitFor("GenData", "method", {pos})
        \/ process' = WaitFor("compute_vector_mul", "method", {pos, ResetLow})
        \/ process' = WaitFor("generate_input", "start", {neg})
    BY <1>10 DEF DoTest, GenData, ComputeVectorMul, GenerateInput, ResetLow
  <2> QED
    BY <1>2, <1>3, <2>1
<1>11. CASE GenerateReset
  <2>1. \/ process' = Wait("generate_reset", "low", 1)
        \/ process' = Wait("generate_reset", "high", 1)
        \/ process' = WaitFor("generate_reset", "end", {})
    BY <1>11 DEF GenerateReset, Runs
  <2> QED
    BY <1>2, <1>3, <2>1
<1>12. CASE Kernel
  <2>1. PICK S : process' = Wake(process, S)
    BY <1>12 DEF Kernel, DeltaCycle, TimeAdvances
  <2> QED
    BY <1>1, <2>1, WokenTypes
<1>13. CASE Ended
  BY <1>1, <1>13 DEF Ended, vars
<1> QED
  BY <1>4, <1>5, <1>6, <1>7, <1>8, <1>9, <1>10, <1>11, <1>12, <1>13 DEF Next

LEMMA WrittenTypes ==
    ASSUME NEW sigs, SignalTypes(sigs), NEW s \in DOMAIN sigs, NEW v \in IntRange,
           s = "clk" => v \in Bit
    PROVE  SignalTypes(Write(sigs, s, v)) /\ DOMAIN Write(sigs, s, v) = DOMAIN sigs
<1>1. sigs[s] \in SignalType
  BY DEF SignalTypes
<1>2. sigs[s] = [value |-> sigs[s].value, next |-> sigs[s].next] /\ sigs[s].value \in IntRange
  BY <1>1 DEF SignalType
<1>3. PICK r : r = [value |-> sigs[s].value, next |-> v]
  OBVIOUS
<1>4. r \in SignalType /\ r.value = sigs[s].value /\ r.next = v
  BY <1>2, <1>3 DEF SignalType
<1>5. Write(sigs, s, v) = [sigs EXCEPT ![s] = r]
  <2>1. [sigs[s] EXCEPT !.next = v] = r
    BY <1>2, <1>3
  <2> QED
    BY <2>1 DEF Write
<1>6. /\ DOMAIN Write(sigs, s, v) = DOMAIN sigs /\ Write(sigs, s, v)[s] = r
      /\ \A x \in DOMAIN sigs : x # s => Write(sigs, s, v)[x] = sigs[x]
  BY <1>5
<1> QED
  BY <1>4, <1>6 DEF SignalTypes

LEMMA SignalsTyped ==
    ASSUME Types, Next
    PROVE  SignalTypes(signal') /\ DOMAIN signal' = DOMAIN signal
<1>1. SignalTypes(signal) /\ DOMAIN signal = Signals(program) /\ member.valid \in Bit
  BY DEF Types, MemberTypes
<1>2. CASE signal' = signal
  BY <1>1, <1>2
<1>3. CASE FirstWrite
  <2>1. "s" \in DOMAIN signal
    BY <1>1, <1>3 DEF FirstWrite, Signals
  <2> QED
    BY <1>1, <1>3, <2>1, SmallInts, WrittenTypes DEF FirstWrite
<1>4. CASE SecondWrite
  <2>1. "s" \in DOMAIN signal
    BY <1>1, <1>4 DEF SecondWrite, Signals
  <2>2. PICK sigs : sigs = Write(signal, "s", 4)
    OBVIOUS
  <2>3. SignalTypes(sigs) /\ DOMAIN sigs = DOMAIN signal
    BY <1>1, <2>1, <2>2, SmallInts, WrittenTypes
  <2>4. signal' = Write(sigs, "s", 5)
    BY <1>4, <2>2 DEF SecondWrite
  <2> QED
    BY <2>1, <2>3, <2>4, SmallInts, WrittenTypes
<1>5. CASE Toggle
  <2>1. "clk" \in DOMAIN signal
    BY <1>1, <1>5 DEF Toggle, Signals
  <2>2. PICK v \in Bit : v = 1 - Read("clk")
    BY <1>1, <2>1 DEF SignalTypes, Bit, Read
  <2> QED
    BY <1>1, <1>5, <2>1, <2>2, SmallInts, WrittenTypes DEF Toggle
<1>6. CASE GenData
  <2>1. "val" \in DOMAIN signal
    BY <1>1, <1>6 DEF GenData, Signals
  <2>2. PICK v \in Bit : signal' = signal \/ signal' = Write(signal, "val", v)
    <3>1. member.valid \in Bit /\ 1 - member.valid \in Bit
      BY <1>1 DEF Bit
    <3>2. \/ signal' = signal
          \/ signal' = Write(signal, "val", member.valid)
          \/ signal' = Write(signal, "val", 1 - member.valid)
      BY <1>6 DEF GenData
    <3> QED
      BY <3>1, <3>2
  <2> QED
    BY <1>1, <2>1, <2>2, SmallInts, WrittenTypes
<1>7. CASE ComputeVectorMul
  <2>1. DOMAIN signal = Outer \cup Inner /\ "vec_o" \in DOMAIN signal
    BY <1>1, <1>7 DEF ComputeVectorMul, Signals, Outer, Inner
  <2>2. \A s \in Inner : signal[s].value \in Int
    BY <1>1, <2>1, SmallInts DEF SignalTypes, SignalType
  <2>3. \A i \in Elements : Read(vec1[i]) * Read(vec2[i]) \in Int
    BY <2>2, InnerNames DEF Read
  <2>4. Products \in [Elements -> Int]
    BY <2>3 DEF Products
  <2>5. Dot \in IntRange /\ 0 \in IntRange
    BY <2>4, SumCutOnce, SmallInts DEF Dot, Bit
  <2>6. PICK v \in IntRange : signal' = Write(signal, "vec_o", v)
    BY <1>7, <2>5 DEF ComputeVectorMul
  <2> QED
    BY <1>1, <2>1, <2>6, WrittenTypes
<1>8. CASE GenerateInput
  <2>1. PICK rand \in [Inner -> Inputs] :
           signal' = [s \in DOMAIN signal |->
               IF s \in DOMAIN rand THEN [signal[s] EXCEPT !.next = rand[s]] ELSE signal[s]]
    BY <1>8 DEF GenerateInput, Inner
  <2>2. DOMAIN signal' = DOMAIN signal
    BY <2>1
  <2>3. ASSUME NEW s \in DOMAIN signal
        PROVE  signal'[s] \in SignalType
    <3>1. signal[s] \in SignalType
      BY <1>1 DEF SignalTypes
    <3>2. CASE s \in Inner
      <4>1. PICK v \in IntRange : v = rand[s]
        BY <3>2, SmallInts
      <4>2. signal'[s] = [signal[s] EXCEPT !.next = v]
        BY <2>1, <3>2, <4>1
      <4> QED
        BY <3>1, <4>1, <4>2 DEF SignalType
    <3>3. CASE s \notin Inner
      BY <2>1, <3>1, <3>3
    <3> QED
      BY <3>2, <3>3
  <2>4. "clk" \in DOMAIN signal => signal'["clk"] = signal["clk"]
    BY <2>1, InnerNames
  <2> QED
    BY <1>1, <2>2, <2>3, <2>4 DEF SignalTypes
<1>9. CASE GenerateReset
  <2>1. "rst_n" \in DOMAIN signal
    BY <1>1, <1>9 DEF GenerateReset, Signals
  <2>2. PICK v \in Bit : signal' = Write(signal, "rst_n", v)
    BY <1>9 DEF GenerateReset, Bit
  <2> QED
    BY <1>1, <2>1, <2>2, SmallInts, WrittenTypes
<1>10. CASE DeltaCycle
  <2>1. signal' = [s \in DOMAIN signal |-> [signal[s] EXCEPT !.value = signal[s].next]]
    BY <1>10 DEF DeltaCycle
  <2>2. ASSUME NEW s \in DOMAIN signal
        PROVE  signal'[s] \in SignalType /\ signal'[s].value = signal[s].next
               /\ signal'[s].next = signal[s].next
    <3>1. PICK a \in IntRange, b \in IntRange : signal[s] = [value |-> a, next |-> b]
      BY <1>1 DEF SignalTypes, SignalType
    <3>2. signal'[s] = [value |-> b, next |-> b]
      BY <2>1, <3>1
    <3> QED
      BY <3>1, <3>2 DEF SignalType
  <2> QED
    BY <1>1, <2>1, <2>2 DEF SignalTypes
<1> QED
  BY <1>2, <1>3, <1>4, <1>5, <1>6, <1>7, <1>8, <1>9, <1>10
     DEF Next, Kernel, TimeAdvances, Ended, vars, EventTrigger, QueueTrigger, InitTrigger,
         BeginCatching, Catch, Obtain, Release, LastRead, DoTest

LEMMA MemberTyped ==
    ASSUME Types, Next
    PROVE  MemberTypes(member')
<1>1. /\ member \in [value : Nat, index : Nat, index_ : Nat, valid : Bit]
      /\ program \notin Locks => member.value = 0
  BY DEF Types, MemberTypes
<1>2. PICK a \in Nat, b \in Nat, c \in Nat, d \in Bit :
         member = [value |-> a, index |-> b, index_ |-> c, valid |-> d]
  BY <1>1
<1>3. CASE member' = member
  BY <1>1, <1>3 DEF MemberTypes
<1>4. ASSUME NEW p, Obtain(p), member' # member
      PROVE  MemberTypes(member')
  <2>1. program \in Locks /\ a > 0 /\ member' = [member EXCEPT !.value = a - 1]
    BY <1>2, <1>4 DEF Obtain
  <2> QED
    BY <1>2, <2>1 DEF MemberTypes
<1>5. ASSUME NEW p, Release(p)
      PROVE  MemberTypes(member')
  <2>1. program \in Locks /\ member' = [member EXCEPT !.value = a + 1]
    BY <1>2, <1>5 DEF Release
  <2> QED
    BY <1>2, <2>1 DEF MemberTypes
<1>6. CASE DoTest
  <2>1. PICK i \in Nat : member' = [member EXCEPT !.index = i]
    <3>1. member' = [member EXCEPT !.index = 1] \/ member' = [member EXCEPT !.index = b + 1]
      BY <1>2, <1>6 DEF DoTest
    <3> QED
      BY <3>1
  <2> QED
    BY <1>1, <1>2, <2>1 DEF MemberTypes
<1>7. CASE GenData
  <2>1. PICK i \in Nat, v \in Bit : member' = [member EXCEPT !.index_ = i, !.valid = v]
    <3>1. c + 1 \in Nat /\ d \in Bit /\ 1 - d \in Bit
      BY DEF Bit
    <3>2. \/ member' = [member EXCEPT !.index_ = c + 1, !.valid = d]
          \/ member' = [member EXCEPT !.index_ = c + 1, !.valid = 1 - d]
      BY <1>2, <1>7 DEF GenData
    <3> QED
      BY <3>1, <3>2
  <2> QED
    BY <1>1, <1>2, <2>1 DEF MemberTypes
<1> QED
  BY <1>3, <1>4, <1>5, <1>6, <1>7
     DEF Next, Kernel, Ended, vars, EventTrigger, QueueTrigger, InitTrigger, BeginCatching, Catch,
         FirstWrite, SecondWrite, LastRead, Toggle, ComputeVectorMul, GenerateInput, GenerateReset

LEMMA PrintedTyped ==
    ASSUME Types, Next
    PROVE  PrintedTypes(printed')
<1>1. PrintedTypes(printed) /\ now \in Int /\ SignalTypes(signal) /\ DOMAIN signal = Signals(program)
      /\ SignalTypes(signal') /\ DOMAIN signal' = DOMAIN signal /\ MemberTypes(member')
  BY SignalsTyped, MemberTyped DEF Types
<1>2. CASE printed' = printed
  BY <1>1, <1>2
<1>3. ASSUME NEW p, NEW x \in Int, printed' = [printed EXCEPT ![p] = Append(@, x)]
      PROVE  PrintedTypes(printed')
  BY <1>1, <1>3, PrintedMore
<1>4. \A s \in DOMAIN signal : signal[s].value \in Int /\ signal'[s].value \in Int
  BY <1>1, SmallInts DEF SignalTypes, SignalType
<1>5. ASSUME NEW p, Catch(p) \/ Obtain(p)
      PROVE  PrintedTypes(printed')
  <2>1. printed' = [printed EXCEPT ![p] = Append(@, now)] \/ printed' = printed
    BY <1>5 DEF Catch, Obtain, Prints
  <2> QED
    BY <1>1, <1>2, <1>3, <2>1
<1>6. CASE FirstWrite
  <2>1. "s" \in DOMAIN signal
    BY <1>1, <1>6 DEF FirstWrite, Signals
  <2>2. PICK x \in Int : x = signal'["s"].value
    BY <1>4, <2>1
  <2>3. printed' = [printed EXCEPT !["readwrite"] = Append(@, x)]
    BY <1>6, <2>2 DEF FirstWrite, Prints
  <2> QED
    BY <1>3, <2>3
<1>7. CASE SecondWrite
  <2>1. "s" \in DOMAIN signal
    BY <1>1, <1>7 DEF SecondWrite, Signals
  <2>2. PICK x \in Int, y \in Int : x = Read("s") /\ y = signal'["s"].value
    BY <1>4, <2>1 DEF Read
  <2>3. printed' = [printed EXCEPT !["readwrite"] = @ \o <<x, y>>]
    BY <1>7, <2>2 DEF SecondWrite
  <2>4. \A p \in DOMAIN printed : printed[p] \in Seq(Int) /\ printed[p] \o <<x, y>> \in Seq(Int)
    BY <1>1 DEF PrintedTypes
  <2> QED
    BY <2>3, <2>4 DEF PrintedTypes
<1>8. CASE LastRead
  <2>1. "s" \in DOMAIN signal
    BY <1>1, <1>8 DEF LastRead, Signals
  <2>2. PICK x \in Int : x = Read("s")
    BY <1>4, <2>1 DEF Read
  <2>3. printed' = [printed EXCEPT !["readwrite"] = Append(@, x)]
    BY <1>8, <2>2 DEF LastRead, Prints
  <2> QED
    BY <1>3, <2>3
<1>9. CASE DoTest
  <2>1. PICK x \in Int : x = member'.index
    BY <1>1 DEF MemberTypes
  <2>2. printed' = [printed EXCEPT !["DoTest"] = Append(@, x)]
    BY <1>9, <2>1 DEF DoTest, Prints
  <2> QED
    BY <1>3, <2>2
<1> QED
  BY <1>2, <1>5, <1>6, <1>7, <1>8, <1>9
     DEF Next, Kernel, Ended, vars, EventTrigger, QueueTrigger, InitTrigger, BeginCatching,
         Release, Toggle, GenData, ComputeVectorMul, GenerateInput, GenerateReset

\* No notification is left behind when the time goes on, and none is pending for now.
LEMMA TimeTyped ==
    ASSUME Types, Next
    PROVE  now' \in Nat /\ now' <= End /\ DueTypes'
<1>1. now \in Nat /\ End \in Nat /\ now <= End /\ DueTypes /\ ProcessTypes(process)
  BY EndIs DEF Types
<1>2. \A S : S \subseteq {t \in Nat : t > now} =>
         \A t \in {now + 1, now + 2} :
             /\ NotifyAt(S, t) \subseteq {u \in Nat : u > now}
             /\ QueueNotifyAt(S, t) \subseteq {u \in Nat : u > now}
  <2>1. ASSUME NEW S, S \subseteq {t \in Nat : t > now}, NEW t \in {now + 1, now + 2}
        PROVE  /\ NotifyAt(S, t) \subseteq {u \in Nat : u > now}
               /\ QueueNotifyAt(S, t) \subseteq {u \in Nat : u > now}
    <3>1. t \in Nat /\ t > now
      BY <1>1
    <3>2. S \cup {t} \subseteq Nat /\ S \cup {t} # {}
      BY <2>1, <3>1
    <3>3. Min(S \cup {t}) \in S \cup {t}
      BY <3>2, MinIs
    <3> QED
      BY <2>1, <3>1, <3>3 DEF NotifyAt, QueueNotifyAt
  <2> QED
    BY <2>1
<1>3. \A x \in DOMAIN due : due[x] \subseteq {t \in Nat : t > now}
  BY <1>1 DEF DueTypes
<1>4. ASSUME now' = now, DOMAIN due' = DOMAIN due,
             \A x \in DOMAIN due : due'[x] \subseteq {t \in Nat : t > now}
      PROVE  now' \in Nat /\ now' <= End /\ DueTypes'
  BY <1>1, <1>4 DEF DueTypes
<1>5. CASE UNCHANGED <<now, due>>
  BY <1>3, <1>4, <1>5
<1>6. CASE EventTrigger
  <2>1. now' = now /\ due' = [due EXCEPT !["e"] = IF now = 4 THEN {} ELSE NotifyAt(@, now + 1)]
    BY <1>6 DEF EventTrigger
  <2>2. \A x \in DOMAIN due : due'[x] \in {due[x], {}, NotifyAt(due[x], now + 1)}
    BY <2>1
  <2> QED
    BY <1>2, <1>3, <1>4, <2>1, <2>2
<1>7. CASE InitTrigger
  <2>1. now' = now /\ due' = [due EXCEPT !["e"] = NotifyAt(@, now + 1)]
    BY <1>7 DEF InitTrigger
  <2>2. \A x \in DOMAIN due : due'[x] \in {due[x], NotifyAt(due[x], now + 1)}
    BY <2>1
  <2> QED
    BY <1>2, <1>3, <1>4, <2>1, <2>2
<1>8. CASE QueueTrigger
  <2>1. now' = now /\ due' = [due EXCEPT
                 !["e"] = NotifyAt(NotifyAt(@, now + 2), now + 1),
                 !["eq"] = QueueNotifyAt(QueueNotifyAt(@, now + 2), now + 1)]
    BY <1>8 DEF QueueTrigger
  <2>2. \A x \in DOMAIN due :
           due'[x] \in {due[x], NotifyAt(NotifyAt(due[x], now + 2), now + 1),
                        QueueNotifyAt(QueueNotifyAt(due[x], now + 2), now + 1)}
    BY <2>1
  <2>3. \A x \in DOMAIN due : /\ NotifyAt(due[x], now + 2) \subseteq {t \in Nat : t > now}
                              /\ QueueNotifyAt(due[x], now + 2) \subseteq {t \in Nat : t > now}
    BY <1>2, <1>3
  <2>4. \A x \in DOMAIN due :
           /\ NotifyAt(NotifyAt(due[x], now + 2), now + 1) \subseteq {t \in Nat : t > now}
           /\ QueueNotifyAt(QueueNotifyAt(due[x], now + 2), now + 1) \subseteq {t \in Nat : t > now}
    BY <1>2, <2>3
  <2>5. \A x \in DOMAIN due : due'[x] \subseteq {t \in Nat : t > now}
    BY <1>3, <2>2, <2>4
  <2> QED
    BY <1>4, <2>1, <2>5
<1>9. CASE TimeAdvances(End)
  <2>1. Pending \subseteq {t \in Nat : t > now}
    <3>1. \A p \in DOMAIN process : process[p].until \in Int
      BY <1>1 DEF ProcessTypes, ProcessType
    <3> QED
      BY <1>1, <1>3, <3>1 DEF Pending
  <2>2. Pending # {} /\ Pending \subseteq Nat /\ now' = Min(Pending) /\ Min(Pending) < End
    BY <1>9, <2>1 DEF TimeAdvances
  <2>3. PICK m : m = now' /\ m \in Pending /\ \A t \in Pending : m <= t
    BY <2>2, MinIs
  <2>4. m \in Nat /\ m < End
    BY <2>1, <2>2, <2>3
  <2>5. DOMAIN due' = DOMAIN due /\ \A x \in DOMAIN due : due'[x] = due[x] \ {m}
    BY <1>9, <2>3 DEF TimeAdvances
  <2>6. \A x \in DOMAIN due : due'[x] \subseteq {t \in Nat : t > m}
    <3>1. ASSUME NEW x \in DOMAIN due, NEW t \in due[x], t # m
          PROVE  t \in Nat /\ t > m
      <4>1. t \in Pending
        BY <3>1 DEF Pending
      <4>2. t \in Nat /\ m <= t
        BY <2>1, <2>3, <4>1
      <4> QED
        BY <2>4, <3>1, <4>2
    <3> QED
      BY <2>5, <3>1
  <2> QED
    BY <1>1, <2>3, <2>4, <2>5, <2>6 DEF DueTypes
<1> QED
  BY <1>5, <1>6, <1>7, <1>8, <1>9
     DEF Next, Kernel, DeltaCycle, Ended, vars, BeginCatching, Catch, Obtain, Release,
         FirstWrite, SecondWrite, LastRead, Toggle, DoTest, GenData,
         ComputeVectorMul, GenerateInput, GenerateReset

LEMMA TypesKept ==
    ASSUME Types, [Next]_vars
    PROVE  Types'
<1>1. CASE Next
  <2>1. program' = program
    BY <1>1 DEF Next, vars, Kernel, Ended, EventTrigger, QueueTrigger, InitTrigger, BeginCatching,
       Catch, Obtain, Release, FirstWrite, SecondWrite, LastRead, Toggle, DoTest, GenData,
       ComputeVectorMul, GenerateInput, GenerateReset
  <2>2. End' = End /\ Signals(program)' = Signals(program)
    BY <2>1 DEF End, Signals
  <2>3. ProcessTypes(process)' /\ PrintedTypes(printed)'
    BY <1>1, ProcessesTyped, PrintedTyped DEF ProcessTypes, PrintedTypes
  <2>4. SignalTypes(signal)' /\ DOMAIN signal' = Signals(program)
    BY <1>1, SignalsTyped DEF SignalTypes, Types
  <2>5. MemberTypes(member)'
    BY <1>1, <2>1, MemberTyped DEF MemberTypes
  <2> QED
    BY <1>1, <2>1, <2>2, <2>3, <2>4, <2>5, TimeTyped DEF Types
<1>2. CASE UNCHANGED vars
  <2>1. UNCHANGED <<now, process, due, signal, program, member, printed>>
    BY <1>2 DEF vars
  <2>2. End' = End /\ Signals(program)' = Signals(program)
    BY <2>1 DEF End, Signals
  <2> QED
    BY <2>1, <2>2 DEF Types, DueTypes, ProcessTypes, SignalTypes, MemberTypes, PrintedTypes
<1> QED
  BY <1>1, <1>2

\* The lessons: no output or signal leaves the range of an int, no notification is left behind,
\* and a semaphore is never below zero nor above its resources.
THEOREM TypeCorrect == Spec => []TypeOK
<1>1. Init => Types
  BY TypesBegin
<1>2. Types /\ [Next]_vars => Types'
  BY TypesKept
<1>3. Types /\ LockInv => TypeOK
  <2> SUFFICES ASSUME Types, LockInv
               PROVE  TypeOK
    OBVIOUS
  <2>1. program \in Programs /\ now \in 0 .. End
    BY EndIs DEF Types
  <2>2. \A p \in DOMAIN process : process[p] \in ProcessType
    BY DEF Types, ProcessTypes
  <2>3. \A x \in DOMAIN due : \A t \in due[x] : t > now
    BY DEF Types, DueTypes
  <2>4. \A s \in DOMAIN signal : signal[s] \in SignalType
    BY DEF Types, SignalTypes
  <2>5. member.value \in Nat /\ member.valid \in {0, 1} /\ member.index \in Nat
        /\ member.index_ \in Nat
    BY DEF Types, MemberTypes, Bit
  <2>6. member.value \in 0 .. (IF program \in Locks THEN Resources[program] ELSE 0)
    <3>1. CASE program \in Locks
      <4>1. IsFiniteSet(Holders)
        BY <3>1, LocksAre, FS_Subset DEF LockInv, LockTypes, Holders
      <4>2. PICK h \in Nat, r \in Nat : h = Cardinality(Holders) /\ r = Resources[program]
        BY <3>1, <4>1, LocksAre, FS_CardinalityType
      <4>3. member.value + h = r
        BY <3>1, <4>2 DEF LockInv, LockKnows
      <4>4. PICK v \in Nat : v = member.value
        BY <2>5
      <4>5. v <= r
        BY <4>3, <4>4
      <4> QED
        BY <3>1, <4>2, <4>4, <4>5
    <3>2. CASE program \notin Locks
      BY <3>2 DEF Types, MemberTypes
    <3> QED
      BY <3>1, <3>2
  <2>7. \A p \in DOMAIN printed : printed[p] \in Seq(Int)
    BY DEF Types, PrintedTypes
  <2> QED
    BY <2>1, <2>2, <2>3, <2>4, <2>5, <2>6, <2>7 DEF TypeOK, ProcessType, SignalType
<1> QED
  BY <1>1, <1>2, <1>3, LocksInvariance, PTL DEF Spec
=============================================================================
