------------------------ MODULE AddressRouterProofs ------------------------
(***************************************************************************)
(* Proofs about AddressRouter, for any number of memories, any windows,     *)
(* memories and walks.                                                      *)
(***************************************************************************)
EXTENDS AddressRouter, TLAPS

-----------------------------------------------------------------------------
(* Arithmetic. *)

LEMMA Division ==
  ASSUME NEW a \in Nat, NEW n \in Nat \ {0}
  PROVE  /\ a \div n \in Nat /\ a % n \in 0 .. n - 1
         /\ a = n * (a \div n) + (a % n)
  OBVIOUS

LEMMA Products == \A x, y \in Nat : x * y \in Nat
  OBVIOUS

LEMMA ProductsGrow ==
  ASSUME NEW x \in Nat, NEW y \in Nat, NEW s \in Nat, x <= y
  PROVE  s * x <= s * y
<1>1. s * (y - x) \in Nat
  BY Products
<1>2. s * y = s * x + s * (y - x)
  OBVIOUS
<1> QED  BY <1>1, <1>2, Products

\* The quotient is the only number with a remainder below the divisor.
LEMMA Quotient ==
  ASSUME NEW a \in Nat, NEW n \in Nat \ {0}, NEW q \in Nat, NEW r \in 0 .. n - 1,
         a = n * q + r
  PROVE  a \div n = q /\ a % n = r
<1> DEFINE p == a \div n
           s == a % n
<1>1. p \in Nat /\ s \in 0 .. n - 1 /\ a = n * p + s
  BY Division
<1> HIDE DEF p, s
<1>2. n * p \in Nat /\ n * q \in Nat
  BY <1>1, Products
<1>3. ~(p + 1 <= q)
  <2> SUFFICES ASSUME p + 1 <= q PROVE FALSE
    OBVIOUS
  <2>1. n * (p + 1) <= n * q /\ n * (p + 1) = n * p + n
    BY <1>1, ProductsGrow
  <2> QED  BY <1>1, <1>2, <2>1
<1>4. ~(q + 1 <= p)
  <2> SUFFICES ASSUME q + 1 <= p PROVE FALSE
    OBVIOUS
  <2>1. n * (q + 1) <= n * p /\ n * (q + 1) = n * q + n
    BY <1>1, ProductsGrow
  <2> QED  BY <1>1, <1>2, <2>1
<1>5. p = q
  BY <1>1, <1>3, <1>4
<1>6. s = r
  BY <1>1, <1>2, <1>5
<1> USE DEF p, s
<1> QED  BY <1>5, <1>6

LEMMA Sizes ==
  /\ N_TARGETS \in Nat \ {0, 1} /\ Window \in Nat \ {0} /\ SIZE \in Nat \ {0}
  /\ Margin \in Nat \ {0} /\ Margin <= Window /\ Margin % 4 = 0
  /\ Window % 8 = 0 /\ Window % 4 = 0 /\ Window \div 8 \in Nat
  /\ Window = 8 * (Window \div 8) /\ Window \div 2 = 4 * (Window \div 8)
  /\ N_TARGETS * Window \in Nat /\ N_TARGETS * Window <= 4 * SIZE /\ 2 * Window <= N_TARGETS * Window
  /\ Window * N_TARGETS = N_TARGETS * Window
  /\ (4 * SIZE) % Window = 0
  /\ DirectFirst \in Nat /\ DirectEnd \in Nat /\ DirectFirst % 4 = 0 /\ DirectEnd % 4 = 0
  /\ DirectFirst < DirectEnd /\ DirectEnd <= N_TARGETS * Window
<1>1. N_TARGETS \in Nat \ {0, 1} /\ Window \in Nat \ {0} /\ SIZE \in Nat \ {0}
  BY RouterAssumption
<1>2. N_TARGETS * Window \in Nat /\ Window * N_TARGETS = N_TARGETS * Window
  BY <1>1, Products
<1>3. 2 * Window <= N_TARGETS * Window
  <2>1. Window * 2 <= Window * N_TARGETS
    BY <1>1, ProductsGrow
  <2> QED  BY <1>1, <1>2, <2>1
<1>4. Window % 8 = 0
  BY RouterAssumption
<1>5. /\ Window % 4 = 0 /\ Window \div 8 \in Nat
      /\ Window = 8 * (Window \div 8) /\ Window \div 2 = 4 * (Window \div 8)
  BY <1>1, <1>4
<1> QED  BY <1>1, <1>2, <1>3, <1>4, <1>5, RouterAssumption

\* The place of a byte of the bus: its memory and its distance from the window's start.
LEMMA PlaceOfByte ==
  ASSUME NEW a \in Bytes
  PROVE  /\ a \in Nat /\ a \div Window \in Targets /\ a % Window \in 0 .. Window - 1
         /\ a = Window * (a \div Window) + (a % Window)
         /\ (a \div Window) % N_TARGETS = a \div Window
         /\ Window * (a \div Window) \in Nat
<1>1. a \in Nat /\ a < N_TARGETS * Window
  BY Sizes DEF Bytes
<1> DEFINE q == a \div Window
           r == a % Window
<1>2. q \in Nat /\ r \in 0 .. Window - 1 /\ a = Window * q + r
  BY <1>1, Sizes, Division
<1> HIDE DEF q, r
<1>3. q < N_TARGETS
  <2> SUFFICES ASSUME N_TARGETS <= q PROVE FALSE
    BY <1>2, Sizes
  <2>1. Window * N_TARGETS <= Window * q /\ Window * q \in Nat
    BY <1>2, Sizes, ProductsGrow, Products
  <2> QED  BY <1>1, <1>2, <2>1, Sizes
<1>4. q % N_TARGETS = q
  <2>1. q = N_TARGETS * 0 + q
    BY <1>2, Sizes
  <2> QED  BY <1>2, <1>3, <2>1, Sizes, Quotient
<1>5. Window * q \in Nat
  BY <1>2, Sizes, Products
<1> USE DEF q, r
<1> QED  BY <1>1, <1>2, <1>3, <1>4, <1>5, Sizes DEF Targets

\* The word of a word address, and that no other address has it.
LEMMA PlaceOfWord ==
  ASSUME NEW a \in BusWords
  PROVE  /\ a \in Bytes /\ a % 4 = 0
         /\ (a % Window) % 4 = 0 /\ a % Window = 4 * ((a % Window) \div 4)
         /\ (a % Window) \div 4 \in 0 .. SIZE - 1 /\ (a % Window) \div 4 < Window \div 4
         /\ a \div 4 \in 0 .. SIZE - 1 /\ a = 4 * (a \div 4)
<1>1. a \in Bytes /\ a \in Nat /\ a % 4 = 0 /\ a < N_TARGETS * Window
  BY Sizes DEF BusWords, Bytes
<1> DEFINE q == a \div Window
           r == a % Window
           h == Window \div 8
<1>2. q \in Nat /\ r \in 0 .. Window - 1 /\ a = Window * q + r
  BY <1>1, PlaceOfByte DEF Targets
<1>3. h \in Nat /\ Window = 8 * h /\ h * q \in Nat
  BY <1>2, Sizes, Products
<1> HIDE DEF q, r, h
<1>4. a = 8 * (h * q) + r
  <2>1. (8 * h) * q = 8 * (h * q)
    BY <1>2, <1>3
  <2> QED  BY <1>2, <1>3, <2>1
<1>5. r % 4 = 0 /\ r = 4 * (r \div 4)
  BY <1>1, <1>2, <1>3, <1>4
<1>6. r \div 4 \in 0 .. SIZE - 1 /\ r \div 4 < Window \div 4
  BY <1>2, <1>3, <1>5, Sizes
<1>7. a \div 4 \in 0 .. SIZE - 1 /\ a = 4 * (a \div 4)
  BY <1>1, Sizes
<1> USE DEF r
<1> QED  BY <1>1, <1>5, <1>6, <1>7

LEMMA WordsApart ==
  ASSUME NEW a \in BusWords, NEW b \in BusWords,
         a \div Window = b \div Window, (a % Window) \div 4 = (b % Window) \div 4
  PROVE  a = b
<1>1. a % Window = b % Window
  BY PlaceOfWord
<1> QED  BY <1>1, PlaceOfWord, PlaceOfByte
-----------------------------------------------------------------------------
(* The router. *)

LEMMA Decoded ==
  ASSUME NEW a \in Bytes
  PROVE  /\ decode_address(a).target = a \div Window
         /\ decode_address(a).masked = a % Window
  BY PlaceOfByte DEF decode_address

\* The range of a memory is its window.
LEMMA RangeOfByte ==
  ASSUME NEW a \in Bytes
  PROVE  /\ get_direct_mem_ptr(a) \in [memory : Targets, start : Bytes, end : Bytes]
         /\ get_direct_mem_ptr(a).memory = a \div Window
         /\ get_direct_mem_ptr(a).start = Window * (a \div Window)
         /\ get_direct_mem_ptr(a).end = Window * (a \div Window) + Window - 1
<1> DEFINE q == a \div Window
<1>1. q \in Targets /\ q \in Nat /\ q < N_TARGETS /\ Window * q \in Nat
  BY PlaceOfByte, Sizes DEF Targets
<1>2. decode_address(a).target = q
  BY Decoded
<1> HIDE DEF q
<1>3. q * Window = Window * q
  BY <1>1, Sizes
<1>4. 0 % Window = 0
  BY Sizes
<1>5. (4 * SIZE - 1) % Window = Window - 1
  <2> DEFINE k == (4 * SIZE) \div Window
  <2>1. k \in Nat /\ 4 * SIZE = Window * k
    BY Sizes, Division
  <2> HIDE DEF k
  <2>2. k # 0
    BY <2>1, Sizes
  <2>3. k - 1 \in Nat /\ Window * (k - 1) = Window * k - Window
    BY <2>1, <2>2, Sizes
  <2>4. 4 * SIZE - 1 = Window * (k - 1) + (Window - 1)
    BY <2>1, <2>3, Sizes, Products
  <2> QED  BY <2>3, <2>4, Sizes, Quotient
<1>6. get_direct_mem_ptr(a) =
         [memory |-> q, start |-> Window * q, end |-> Window * q + Window - 1]
  <2>1. compose_address(q, 0) = Window * q
    BY <1>1, <1>3, <1>4 DEF compose_address
  <2>2. compose_address(q, 4 * SIZE - 1) = Window * q + Window - 1
    BY <1>1, <1>3, <1>5, Sizes DEF compose_address
  <2> QED  BY <1>2, <2>1, <2>2 DEF get_direct_mem_ptr, MemoryRange
<1>7. Window * q + Window <= N_TARGETS * Window
  <2>1. Window * (q + 1) <= Window * N_TARGETS /\ Window * (q + 1) = Window * q + Window
    BY <1>1, Sizes, ProductsGrow
  <2> QED  BY <2>1, Sizes
<1>8. Window * q \in Bytes /\ Window * q + Window - 1 \in Bytes
  BY <1>1, <1>7, Sizes DEF Bytes
<1> USE DEF q
<1> QED  BY <1>1, <1>6, <1>8

\* The addresses of a range are those of its window.
LEMMA InWindow ==
  ASSUME NEW q \in Nat, NEW b \in Window * q .. Window * q + Window - 1
  PROVE  b \div Window = q /\ b % Window = b - Window * q
<1>1. Window * q \in Nat
  BY Sizes, Products
<1>2. b - Window * q \in 0 .. Window - 1 /\ b \in Nat /\ b = Window * q + (b - Window * q)
  BY <1>1, Sizes
<1> QED  BY <1>2, Sizes, Quotient
-----------------------------------------------------------------------------
(* The invariant. *)

\* The loop is on its way, and has a pointer to the window of its last transaction; what is
\* behind the windows is as the constructor left it, and a dump is what the memory holds.
WalkInv ==
    /\ pc = "loop" => i \in Walk /\ dump = << >>
    /\ pc = "dump" => dump = << >>
    /\ program = "test" => ~dmi_ptr_valid /\ pc \notin {"dump", "dump_again"} /\ dump = << >>
    /\ pc = "reported" => dump = << >>
    /\ dmi_ptr_valid => dmi_data = get_direct_mem_ptr(last_trans)
    /\ program = "test2" => \A t \in Targets : \A w \in 0 .. SIZE - 1 :
                               w >= Window \div 4 => mem[t][w] = Initial(t, w)

IInv == TypeOK /\ WalkInv

LEMMA WalkTyped ==
  ASSUME program \in {"test", "test2"}
  PROVE  /\ First \in Walk /\ First \in BusWords /\ Walk \subseteq BusWords
         /\ Limit \in Nat /\ Limit % 4 = 0
<1>1. CASE program = "test"
  BY <1>1, Sizes DEF First, Limit, Walk, BusWords, Bytes
<1>2. CASE program = "test2"
  <2>1. /\ First = Window - Margin /\ Limit = Window + Margin
    BY <1>2 DEF First, Limit
  <2>2. First \in Nat /\ First % 4 = 0 /\ Limit \in Nat /\ Limit % 4 = 0 /\ First < Limit
        /\ Limit <= N_TARGETS * Window
    BY <2>1, Sizes
  <2> HIDE DEF First, Limit
  <2> QED  BY <2>2, Sizes DEF Walk, BusWords, Bytes
<1> QED  BY <1>1, <1>2

\* Where the loop goes on.
LEMMA StepTyped ==
  ASSUME program \in {"test", "test2"}, i \in Walk
  PROVE  /\ i \in BusWords /\ i + 4 \in Walk \cup {Limit}
         /\ Step \in {"loop", "dump", "end"}
         /\ Step = "loop" => i + 4 \in Walk
         /\ program = "test" => Step # "dump"
<1>1. i \in BusWords /\ Limit \in Nat /\ Limit % 4 = 0 /\ First \in Nat
  BY WalkTyped DEF BusWords, Bytes
<1>2. i \in Nat /\ i % 4 = 0 /\ First <= i /\ i < Limit
  BY <1>1 DEF Walk, BusWords, Bytes
<1>3. i + 4 <= Limit /\ (i + 4) % 4 = 0
  BY <1>1, <1>2
<1>4. i + 4 < Limit => i + 4 \in Walk
  BY <1>1, <1>2, <1>3 DEF Walk
<1>5. i + 4 = Limit \/ i + 4 < Limit
  BY <1>1, <1>2, <1>3
<1> QED  BY <1>1, <1>4, <1>5 DEF Step

LEMMA InitInv == Init => IInv
<1> SUFFICES ASSUME Init PROVE IInv
  OBVIOUS
<1> USE DEF Init
<1>1. program \in {"test", "test2"} /\ i \in Walk /\ dump = << >>
  BY WalkTyped
<1>2. mem \in [Targets -> [0 .. SIZE - 1 -> Words]]
  BY DEF Words
<1>3. 0 \in Targets /\ 0 \in Bytes /\ 0 \in BusWords
  BY Sizes DEF Targets, Bytes, BusWords
<1>4. TypeOK
  BY <1>1, <1>2, <1>3 DEF TypeOK
<1>5. WalkInv
  BY <1>1 DEF WalkInv
<1> QED  BY <1>4, <1>5 DEF IInv
-----------------------------------------------------------------------------
(* The accesses. *)

\* What any access does to the words: it copies one of them, or none.
LEMMA CopiedTyped ==
  ASSUME TypeOK, NEW t \in Targets, NEW w \in 0 .. SIZE - 1, NEW cmd \in {"R", "W"},
         NEW a \in BusWords
  PROVE  /\ Copied(t, w, cmd, a) \in [Targets -> [0 .. SIZE - 1 -> Words]]
         /\ \A u \in Targets : \A v \in 0 .. SIZE - 1 :
               Copied(t, w, cmd, a)[u][v] =
                  IF u = t /\ v = w /\ cmd = "W" THEN Data(a) ELSE mem[u][v]
<1>1. mem \in [Targets -> [0 .. SIZE - 1 -> Words]] /\ Data(a) \in Words
  BY DEF TypeOK, Words
<1> QED  BY <1>1, Zenon, SMT DEF Copied

\* The place a pointer of the window leads to.
LEMMA DmiPlace ==
  ASSUME IInv, pc = "loop", DmiAvailable
  PROVE  /\ program = "test2" /\ i \in BusWords
         /\ dmi_data.memory = i \div Window
         /\ (i - dmi_data.start) \div 4 = (i % Window) \div 4
<1>1. i \in Walk /\ program = "test2" /\ last_trans \in BusWords
      /\ dmi_data = get_direct_mem_ptr(last_trans)
  BY DEF IInv, WalkInv, TypeOK, DmiAvailable
<1>2. i \in BusWords /\ i \in Nat
  BY <1>1, WalkTyped DEF BusWords, Bytes
<1>3. PICK q \in Nat : q = last_trans \div Window
  BY <1>1, PlaceOfWord, PlaceOfByte DEF Targets
<1>4. /\ dmi_data.memory = q /\ dmi_data.start = Window * q
      /\ dmi_data.end = Window * q + Window - 1
  BY <1>1, <1>3, PlaceOfWord, RangeOfByte
<1>5. i \in Window * q .. Window * q + Window - 1
  BY <1>2, <1>4 DEF DmiAvailable
<1>6. i \div Window = q /\ i % Window = i - Window * q
  BY <1>5, InWindow
<1> QED  BY <1>1, <1>2, <1>4, <1>6

\* An access to the word of an address of test2.cpp, either way.
LEMMA WindowAccess ==
  ASSUME IInv, program = "test2", pc = "loop", NEW cmd \in {"R", "W"},
         mem' = Copied(i \div Window, (i % Window) \div 4, cmd, i),
         i' = i + 4, pc' = Step, UNCHANGED <<program, inject_error, dump>>,
         dmi_ptr_valid' \in BOOLEAN, last_trans' \in BusWords,
         dmi_data' = dmi_data \/ dmi_data' = get_direct_mem_ptr(last_trans'),
         dmi_ptr_valid' => dmi_data' = get_direct_mem_ptr(last_trans')
  PROVE  IInv'
<1>1. i \in Walk /\ program \in {"test", "test2"}
  BY DEF IInv, WalkInv
<1>2. i \in BusWords
  BY <1>1, StepTyped
<1>3. PICK t \in Targets, w \in 0 .. SIZE - 1 :
         t = i \div Window /\ w = (i % Window) \div 4 /\ w < Window \div 4
  BY <1>2, PlaceOfWord, PlaceOfByte
<1>4. /\ mem' \in [Targets -> [0 .. SIZE - 1 -> Words]]
      /\ \A u \in Targets : \A v \in 0 .. SIZE - 1 :
            v >= Window \div 4 => mem'[u][v] = mem[u][v]
  <2>1. mem' = Copied(t, w, cmd, i) /\ TypeOK
    BY <1>3 DEF IInv
  <2>2. \A v \in 0 .. SIZE - 1 : v >= Window \div 4 => v # w
    BY <1>3, Sizes
  <2> QED  BY <1>2, <2>1, <2>2, CopiedTyped
<1>5. First' = First /\ Limit' = Limit /\ Walk' = Walk
  BY DEF First, Limit, Walk
<1>6. i' \in Walk' \cup {Limit'} /\ pc' \in {"loop", "dump", "end"}
      /\ (pc' = "loop" => i' \in Walk')
  BY <1>1, <1>5, StepTyped
<1>7. dmi_data'.memory \in Targets /\ {dmi_data'.start, dmi_data'.end} \subseteq Bytes
  <2>1. CASE dmi_data' = dmi_data
    BY <2>1 DEF IInv, TypeOK
  <2>2. CASE dmi_data' = get_direct_mem_ptr(last_trans')
    <3>1. last_trans' \in Bytes
      BY PlaceOfWord
    <3> QED  BY <2>2, <3>1, RangeOfByte
  <2> QED  BY <2>1, <2>2
<1>8. TypeOK'
  BY <1>4, <1>6, <1>7 DEF IInv, TypeOK
<1>9. WalkInv'
  <2>1. dump' = << >>
    BY DEF IInv, WalkInv
  <2>2. \A t1 \in Targets : \A w1 \in 0 .. SIZE - 1 :
           w1 >= Window \div 4 => mem'[t1][w1] = Initial(t1, w1)
    BY <1>4 DEF IInv, WalkInv
  <2> QED  BY <1>6, <2>1, <2>2 DEF WalkInv, get_direct_mem_ptr, decode_address,
                                   compose_address, MemoryRange
<1> QED  BY <1>8, <1>9 DEF IInv

LEMMA DmiAccessInv ==
  ASSUME IInv, NEW cmd \in {"R", "W"}, DmiAccess(cmd) PROVE IInv'
<1>1. /\ program = "test2" /\ dmi_data.memory = i \div Window
      /\ (i - dmi_data.start) \div 4 = (i % Window) \div 4
  BY DmiPlace DEF DmiAccess
<1>2. mem' = Copied(i \div Window, (i % Window) \div 4, cmd, i)
  BY <1>1 DEF DmiAccess
<1>3. last_trans' \in BusWords /\ dmi_ptr_valid' \in BOOLEAN
      /\ (dmi_ptr_valid' => dmi_data' = get_direct_mem_ptr(last_trans'))
  BY DEF DmiAccess, IInv, TypeOK, WalkInv
<1> QED  BY <1>1, <1>2, <1>3, WindowAccess DEF DmiAccess

LEMMA TransportAccessInv ==
  ASSUME IInv, NEW cmd \in {"R", "W"}, TransportAccess(cmd) PROVE IInv'
<1>1. i \in BusWords /\ i \in Bytes
  BY StepTyped, PlaceOfWord DEF TransportAccess, IInv, WalkInv
<1>2. mem' = Copied(i \div Window, (i % Window) \div 4, cmd, i)
  BY <1>1, Decoded DEF TransportAccess
<1> QED  BY <1>1, <1>2, WindowAccess DEF TransportAccess

LEMMA DirectAccessInv ==
  ASSUME IInv, NEW cmd \in {"R", "W"}, DirectAccess(cmd) PROVE IInv'
<1> USE DEF DirectAccess
<1>1. i \in Walk /\ program \in {"test", "test2"} /\ ~dmi_ptr_valid /\ dump = << >>
  BY DEF IInv, WalkInv
<1>2. i \in BusWords /\ i \div 4 \in 0 .. SIZE - 1
  BY <1>1, StepTyped, PlaceOfWord
<1>3. 0 \in Targets
  BY Sizes DEF Targets
<1>4. mem' \in [Targets -> [0 .. SIZE - 1 -> Words]]
  BY <1>2, <1>3, CopiedTyped DEF IInv
<1>5. First' = First /\ Limit' = Limit /\ Walk' = Walk
  BY DEF First, Limit, Walk
<1>6. i' \in Walk' \cup {Limit'} /\ pc' \in {"loop", "end"}
      /\ (pc' = "loop" => i' \in Walk')
  BY <1>1, <1>5, StepTyped
<1>7. TypeOK'
  BY <1>2, <1>4, <1>6 DEF IInv, TypeOK
<1>8. WalkInv'
  BY <1>1, <1>6 DEF WalkInv
<1> QED  BY <1>7, <1>8 DEF IInv

\* A step without an access.
LEMMA QuietStep ==
  ASSUME IInv,
         UNCHANGED <<program, i, inject_error, mem, dmi_ptr_valid, dmi_data, last_trans>>,
         \/ UNCHANGED <<pc, dump>>
         \/ pc = "loop" /\ pc' = "reported" /\ UNCHANGED dump
         \/ pc \in {"dump", "dump_again"} /\ pc' \in {"dump_again", "end"}
            /\ ~(pc = "dump" /\ pc' = "end")
  PROVE  IInv'
<1>1. First' = First /\ Limit' = Limit /\ Walk' = Walk
  BY DEF First, Limit, Walk
<1>2. TypeOK'
  BY <1>1 DEF IInv, TypeOK
<1>3. program = "test" => ~(pc \in {"dump", "dump_again"})
  BY DEF IInv, WalkInv
<1>4. get_direct_mem_ptr(last_trans)' = get_direct_mem_ptr(last_trans)
  BY DEF get_direct_mem_ptr, decode_address, compose_address, MemoryRange
<1>5. WalkInv'
  BY <1>1, <1>3, <1>4 DEF IInv, WalkInv, TypeOK
<1> QED  BY <1>2, <1>5 DEF IInv

LEMMA NextInv == IInv /\ [Next]_vars => IInv'
<1> SUFFICES ASSUME IInv, [Next]_vars PROVE IInv'
  OBVIOUS
<1>1. ASSUME NEW cmd \in {"R", "W"}, DmiAccess(cmd) PROVE IInv'
  BY <1>1, DmiAccessInv
<1>2. ASSUME NEW cmd \in {"R", "W"}, TransportAccess(cmd) PROVE IInv'
  BY <1>2, TransportAccessInv
<1>3. ASSUME NEW cmd \in {"R", "W"}, DirectAccess(cmd) PROVE IInv'
  BY <1>3, DirectAccessInv
<1>4. CASE TransportFails
  BY <1>4, QuietStep DEF TransportFails
<1>5. CASE DumpAcross
  BY <1>5, QuietStep DEF DumpAcross
<1>6. CASE DumpSecond
  BY <1>6, QuietStep DEF DumpSecond
<1>7. CASE UNCHANGED vars
  BY <1>7, QuietStep DEF vars
<1> QED  BY <1>1, <1>2, <1>3, <1>4, <1>5, <1>6, <1>7 DEF Next, Ended

LEMMA Invariance == Spec => []IInv
  BY InitInv, NextInv, PTL DEF Spec
-----------------------------------------------------------------------------
(* The dumps. *)

DumpInv ==
    /\ pc = "dump_again" => dump = transport_dbg(Window \div 2, Window)
    /\ pc = "end" /\ program = "test2" => dump = transport_dbg(Window, Window \div 2)

LEMMA SameDump ==
  ASSUME UNCHANGED mem, NEW a \in Nat, NEW n \in Nat
  PROVE  transport_dbg(a, n)' = transport_dbg(a, n)
  BY DEF transport_dbg, decode_address

LEMMA DumpStep == IInv /\ DumpInv /\ [Next]_vars => DumpInv'
<1> SUFFICES ASSUME IInv, DumpInv, [Next]_vars PROVE DumpInv'
  OBVIOUS
<1>s. Window \in Nat /\ Window \div 2 \in Nat
  BY Sizes
<1>a. ASSUME pc = "loop", pc' = Step, UNCHANGED program PROVE DumpInv'
  <2>1. program \in {"test", "test2"} /\ i \in Walk
    BY <1>a DEF IInv, TypeOK, WalkInv
  <2>2. Step # "dump_again" /\ (Step = "end" => program = "test")
    BY <2>1 DEF Step
  <2> QED  BY <1>a, <2>2 DEF DumpInv
<1>1. CASE \E cmd \in {"R", "W"} : DmiAccess(cmd) \/ TransportAccess(cmd) \/ DirectAccess(cmd)
  BY <1>1, <1>a DEF DmiAccess, TransportAccess, DirectAccess
<1>2. CASE TransportFails
  BY <1>2 DEF TransportFails, DumpInv
<1>3. CASE DumpAcross
  <2>1. transport_dbg(Window \div 2, Window)' = transport_dbg(Window \div 2, Window)
    BY <1>3, <1>s, SameDump DEF DumpAcross
  <2> QED  BY <1>3, <2>1 DEF DumpAcross, DumpInv
<1>4. CASE DumpSecond
  <2>1. transport_dbg(Window, Window \div 2)' = transport_dbg(Window, Window \div 2)
    BY <1>4, <1>s, SameDump DEF DumpSecond
  <2> QED  BY <1>4, <2>1 DEF DumpSecond, DumpInv
<1>5. CASE UNCHANGED vars
  <2>1. /\ transport_dbg(Window, Window \div 2)' = transport_dbg(Window, Window \div 2)
        /\ transport_dbg(Window \div 2, Window)' = transport_dbg(Window \div 2, Window)
    BY <1>5, <1>s, SameDump DEF vars
  <2> QED  BY <1>5, <2>1 DEF vars, DumpInv
<1> QED  BY <1>1, <1>2, <1>3, <1>4, <1>5 DEF Next, Ended

LEMMA HalfWindow == (Window \div 2) \div Window = 0 /\ (Window \div 2) % Window = Window \div 2
<1> DEFINE half == Window \div 2
<1>1. half \in 0 .. Window - 1 /\ half \in Nat /\ half = Window * 0 + half
  BY Sizes
<1> HIDE DEF half
<1>2. half \div Window = 0 /\ half % Window = half
  BY <1>1, Sizes, Quotient
<1> USE DEF half
<1> QED  BY <1>2

\* The first dump starts in the middle of a window, and goes on for as long as one is.
LEMMA FirstDump ==
  ASSUME IInv, program = "test2", NEW a \in DOMAIN transport_dbg(Window \div 2, Window)
  PROVE  /\ a \in Nat /\ a % 4 = 0 /\ a \div 4 \in 0 .. SIZE - 1
         /\ transport_dbg(Window \div 2, Window)[a] = mem[0][a \div 4]
         /\ a \div Window = 0 => a % Window = a
         /\ a \div Window # 0 => mem[0][a \div 4] = Initial(0, a \div 4)
<1> DEFINE h == Window \div 8
           half == Window \div 2
           to == decode_address(half)
<1>1. h \in Nat \ {0} /\ Window = 8 * h /\ half = 4 * h
  BY Sizes
<1>2. half \div Window = 0 /\ half % Window = half
  BY HalfWindow
<1>3. half \in Bytes
  BY <1>1, Sizes DEF Bytes
<1>4. to.target = 0 /\ to.masked = half /\ to.masked \div 4 = h
  BY <1>1, <1>2, <1>3, Decoded
<1> DEFINE num == IF Window < (SIZE - h) * 4 THEN Window ELSE (SIZE - h) * 4
<1>5. transport_dbg(half, Window) =
         [x \in {y \in half .. half + num - 1 : y % 4 = 0} |-> mem[0][h + (x - half) \div 4]]
  <2> HIDE DEF h, half
  <2> QED  BY <1>4 DEF transport_dbg
<1>6. a \in half .. half + num - 1 /\ a % 4 = 0
      /\ transport_dbg(half, Window)[a] = mem[0][h + (a - half) \div 4]
  <2> HIDE DEF h, half, num
  <2>1. DOMAIN transport_dbg(half, Window) = {y \in half .. half + num - 1 : y % 4 = 0}
    BY <1>5
  <2>2. a \in DOMAIN transport_dbg(half, Window)
    BY DEF half
  <2> QED  BY <1>5, <2>1, <2>2
<1> HIDE DEF h, half
<1>7. /\ a \in Nat /\ a \div 4 \in 0 .. SIZE - 1 /\ h + (a - half) \div 4 = a \div 4
      /\ num \in Int /\ num <= (SIZE - h) * 4
  BY <1>1, <1>6, Sizes
<1>8. ASSUME a \div Window = 0 PROVE a % Window = a
  <2>1. a = Window * (a \div Window) + (a % Window) /\ a % Window \in 0 .. Window - 1
    BY <1>7, Sizes, Division
  <2>2. Window * (a \div Window) = 0
    BY <1>8, Sizes
  <2> QED  BY <2>1, <2>2, Sizes
<1>9. a \div Window # 0 => a >= Window
  <2> SUFFICES ASSUME a < Window PROVE a \div Window = 0
    BY <1>7, Sizes
  <2>1. a \in 0 .. Window - 1 /\ a = Window * 0 + a
    BY <1>7, Sizes
  <2> QED  BY <1>7, <2>1, Sizes, Quotient
<1>10. a >= Window => a \div 4 >= Window \div 4
  BY <1>1, <1>7, Sizes
<1>11. 0 \in Targets
  BY Sizes DEF Targets
<1>12. a \div Window # 0 => mem[0][a \div 4] = Initial(0, a \div 4)
  BY <1>7, <1>9, <1>10, <1>11 DEF IInv, WalkInv
<1> USE DEF half
<1> QED  BY <1>6, <1>7, <1>8, <1>12

\* The second one is the first half of a window.
LEMMA SecondDump ==
  ASSUME NEW a \in DOMAIN transport_dbg(Window, Window \div 2)
  PROVE  /\ a \in Nat /\ a \div Window = 1 /\ a % Window = a - Window
         /\ transport_dbg(Window, Window \div 2)[a] = mem[1][(a - Window) \div 4]
<1> DEFINE half == Window \div 2
           to == decode_address(Window)
<1>1. half \in Nat /\ half < Window /\ Window \in Bytes
  BY Sizes DEF Bytes
<1>2. Window \div Window = 1 /\ Window % Window = 0
  BY Sizes
<1>3. to.target = 1 /\ to.masked = 0 /\ to.masked \div 4 = 0
  BY <1>1, <1>2, Decoded
<1> DEFINE num == IF half < (SIZE - 0) * 4 THEN half ELSE (SIZE - 0) * 4
<1>4. transport_dbg(Window, half) =
         [x \in {y \in Window .. Window + num - 1 : y % 4 = 0} |-> mem[1][0 + (x - Window) \div 4]]
  <2> HIDE DEF half
  <2> QED  BY <1>3 DEF transport_dbg
<1>5. a \in Window .. Window + num - 1
      /\ transport_dbg(Window, half)[a] = mem[1][0 + (a - Window) \div 4]
  <2> HIDE DEF half, num
  <2>1. DOMAIN transport_dbg(Window, half) = {y \in Window .. Window + num - 1 : y % 4 = 0}
    BY <1>4
  <2>2. a \in DOMAIN transport_dbg(Window, half)
    BY DEF half
  <2> QED  BY <1>4, <2>1, <2>2
<1>6. num \in Nat /\ num < Window
  BY <1>1, Sizes
<1>7. a \in Window * 1 .. Window * 1 + Window - 1 /\ a \in Nat /\ (a - Window) \div 4 \in Nat
  <2> HIDE DEF num
  <2> QED  BY <1>5, <1>6, Sizes
<1>8. a \div Window = 1 /\ a % Window = a - Window * 1
  BY <1>7, InWindow
<1> QED  BY <1>5, <1>7, <1>8, Sizes
-----------------------------------------------------------------------------
(* The theorems. *)

\* Type correctness: no access leaves the array of a memory (lines 49, 55, 286 and 288 of test2.cpp).
THEOREM TypeCorrect == Spec => []TypeOK
<1>1. IInv => TypeOK
  BY DEF IInv
<1> QED  BY <1>1, Invariance, PTL

\* The pointer is always good for the address it was asked for (line 101 of test2.cpp), and
\* for one window only.
THEOREM PointerServes == Spec => []DmiServesItsAddress
<1>1. IInv => DmiServesItsAddress
  <2> SUFFICES ASSUME IInv, dmi_ptr_valid PROVE DmiServesItsAddress
    BY DEF DmiServesItsAddress
  <2>1. last_trans \in Bytes /\ dmi_data = get_direct_mem_ptr(last_trans)
    BY PlaceOfWord DEF IInv, TypeOK, WalkInv
  <2> DEFINE q == last_trans \div Window
             r == last_trans % Window
  <2>2. q \in Nat /\ r \in 0 .. Window - 1 /\ last_trans = Window * q + r
        /\ Window * q \in Nat
    BY <2>1, PlaceOfByte DEF Targets
  <2>3. /\ dmi_data.memory = q /\ dmi_data.start = Window * q
        /\ dmi_data.end = Window * q + Window - 1
    BY <2>1, <2>2, RangeOfByte
  <2> HIDE DEF q, r
  <2>4. \A a \in Window * q .. Window * q + Window - 1 : a \div Window = q
    BY <2>2, InWindow
  <2>5. Window * q <= last_trans /\ last_trans <= Window * q + Window - 1
    BY <2>2, Sizes
  <2> QED  BY <2>3, <2>4, <2>5 DEF DmiServesItsAddress
<1> QED  BY <1>1, Invariance, PTL

\* The dumps (from line 111 of test2.cpp) show what the walk has left, and behind the window words that
\* no access has touched.
THEOREM DumpsTrue == Spec => []DumpShowsMemory
<1>1. Init => DumpInv
  BY DEF Init, DumpInv
<1>2. IInv /\ DumpInv => DumpShowsMemory
  <2> SUFFICES ASSUME IInv, DumpInv, NEW a \in DOMAIN dump
               PROVE  LET first == IF pc = "end" THEN Window ELSE Window \div 2 IN
                      IF a \div Window = first \div Window THEN dump[a] = BusWord(a)
                      ELSE dump[a] = Initial(first \div Window,
                                             (a - (first \div Window) * Window) \div 4)
    BY DEF DumpShowsMemory
  <2>1. dump # << >>
    OBVIOUS
  <2>2. program = "test2" /\ pc \in {"dump_again", "end"}
    BY <2>1 DEF IInv, TypeOK, WalkInv
  <2>3. CASE pc = "dump_again"
    <3>1. dump = transport_dbg(Window \div 2, Window)
      BY <2>3 DEF DumpInv
    <3>2. /\ a \in Nat /\ dump[a] = mem[0][a \div 4]
          /\ a \div Window = 0 => a % Window = a
          /\ a \div Window # 0 => mem[0][a \div 4] = Initial(0, a \div 4)
      BY <2>2, <3>1, FirstDump
    <3>3. (Window \div 2) \div Window = 0 /\ a - 0 * Window = a
      BY <3>2, HalfWindow, Sizes
    <3>4. CASE a \div Window = 0
      BY <2>2, <2>3, <3>2, <3>3, <3>4 DEF BusWord
    <3>5. CASE a \div Window # 0
      BY <2>3, <3>2, <3>3, <3>5
    <3> QED  BY <3>4, <3>5
  <2>4. CASE pc = "end"
    <3>1. dump = transport_dbg(Window, Window \div 2)
      BY <2>2, <2>4 DEF DumpInv
    <3>2. a \div Window = 1 /\ a % Window = a - Window /\ dump[a] = mem[1][(a - Window) \div 4]
      BY <3>1, SecondDump
    <3>3. Window \div Window = 1
      BY Sizes
    <3> QED  BY <2>2, <2>4, <3>2, <3>3 DEF BusWord
  <2> QED  BY <2>2, <2>3, <2>4
<1> QED  BY <1>1, <1>2, DumpStep, Invariance, PTL DEF Spec

LEMMA BusWordTyped ==
  ASSUME TypeOK, NEW a \in BusWords
  PROVE  BusWord(a) \in Words
<1>1. mem \in [Targets -> [0 .. SIZE - 1 -> Words]] /\ 0 \in Targets
  BY Sizes DEF TypeOK, Targets
<1>2. /\ a \div 4 \in 0 .. SIZE - 1 /\ a \div Window \in Targets
      /\ (a % Window) \div 4 \in 0 .. SIZE - 1
  BY PlaceOfWord, PlaceOfByte
<1> QED  BY <1>1, <1>2 DEF BusWord

\* An access to the word of an address is one to the flat memory.
LEMMA AccessIsFlat ==
  ASSUME IInv, i \in BusWords, NEW cmd \in {"R", "W"}, UNCHANGED program,
         NEW t \in Targets, NEW w \in 0 .. SIZE - 1,
         IF program = "test" THEN t = 0 /\ w = i \div 4
                             ELSE t = i \div Window /\ w = (i % Window) \div 4,
         mem' = Copied(t, w, cmd, i), shown' = Line(t, w, cmd, i)
  PROVE  Flat!Next
<1>1. TypeOK /\ BusWord(i) = mem[t][w]
  BY DEF IInv, BusWord
<1>2. \A a \in BusWords :
         BusWord(a)' = IF a = i /\ cmd = "W" THEN Data(i) ELSE BusWord(a)
  <2> SUFFICES ASSUME NEW a \in BusWords
               PROVE  BusWord(a)' = IF a = i /\ cmd = "W" THEN Data(i) ELSE BusWord(a)
    OBVIOUS
  <2>1. \A u \in Targets : \A v \in 0 .. SIZE - 1 :
           mem'[u][v] = IF u = t /\ v = w /\ cmd = "W" THEN Data(i) ELSE mem[u][v]
    BY <1>1, CopiedTyped
  <2>2. CASE program = "test"
    <3>1. a \div 4 \in 0 .. SIZE - 1 /\ 0 \in Targets /\ (a = i <=> a \div 4 = w)
      BY <2>2, PlaceOfWord, Sizes DEF Targets
    <3> QED  BY <2>1, <2>2, <3>1 DEF BusWord
  <2>3. CASE program # "test"
    <3>1. a \div Window \in Targets /\ (a % Window) \div 4 \in 0 .. SIZE - 1
      BY PlaceOfWord, PlaceOfByte
    <3>2. a = i <=> (a \div Window = t /\ (a % Window) \div 4 = w)
      BY <2>3, WordsApart
    <3> QED  BY <2>1, <2>3, <3>1, <3>2 DEF BusWord
  <2> QED  BY <2>2, <2>3
<1>3. CASE cmd = "R"
  <2>1. [a \in BusWords |-> BusWord(a)]' = [a \in BusWords |-> BusWord(a)]
    BY <1>2, <1>3
  <2>2. shown' = [cmd |-> "R", at |-> i, data |-> [a \in BusWords |-> BusWord(a)][i]]
    BY <1>1, <1>3 DEF Line
  <2> QED  BY <2>1, <2>2 DEF Flat!Next, Flat!Read
<1>4. CASE cmd = "W"
  <2>1. [a \in BusWords |-> BusWord(a)]' =
           [[a \in BusWords |-> BusWord(a)] EXCEPT ![i] = Data(i)]
    BY <1>2, <1>4
  <2>2. shown' = [cmd |-> "W", at |-> i, data |-> Data(i)] /\ Data(i) \in Words
    BY <1>4 DEF Line, Words
  <2> QED  BY <2>1, <2>2 DEF Flat!Next, Flat!Write
<1> QED  BY <1>3, <1>4

\* Transactions and pointers (lines 34 to 104 of test2.cpp, and the walk of test.cpp) work
\* on one flat memory of the bus, however many memories there are and whatever their size.
THEOREM MemoryIsFlat == Spec => OneMemory
<1>1. Init => Flat!Init
  <2> SUFFICES ASSUME Init PROVE Flat!Init
    OBVIOUS
  <2>1. TypeOK
    BY InitInv DEF IInv
  <2>2. \A a \in BusWords : BusWord(a) \in Words
    BY <2>1, BusWordTyped
  <2> QED  BY <2>2 DEF Init, Flat!Init
<1>2. IInv /\ [Next]_vars => [Flat!Next]_<<[a \in BusWords |-> BusWord(a)], shown>>
  <2> SUFFICES ASSUME IInv, [Next]_vars
               PROVE  Flat!Next \/ UNCHANGED <<[a \in BusWords |-> BusWord(a)], shown>>
    OBVIOUS
  <2>1. pc = "loop" => i \in BusWords
    BY StepTyped DEF IInv, TypeOK, WalkInv
  <2>2. ASSUME UNCHANGED <<mem, program, shown>>
        PROVE  UNCHANGED <<[a \in BusWords |-> BusWord(a)], shown>>
    BY <2>2 DEF BusWord
  <2>3. ASSUME NEW cmd \in {"R", "W"}, DmiAccess(cmd) PROVE Flat!Next
    <3> USE <2>3 DEF DmiAccess
    <3>1. PICK t \in Targets, w \in 0 .. SIZE - 1 :
             t = i \div Window /\ w = (i % Window) \div 4
      BY <2>1, PlaceOfWord, PlaceOfByte
    <3>2. program = "test2" /\ dmi_data.memory = t /\ (i - dmi_data.start) \div 4 = w
      BY <3>1, DmiPlace
    <3>3. mem' = Copied(t, w, cmd, i) /\ shown' = Line(t, w, cmd, i)
      BY <3>2
    <3> QED  BY <2>1, <3>1, <3>2, <3>3, AccessIsFlat
  <2>4. ASSUME NEW cmd \in {"R", "W"}, TransportAccess(cmd) PROVE Flat!Next
    <3> USE <2>4 DEF TransportAccess
    <3>1. PICK t \in Targets, w \in 0 .. SIZE - 1 :
             t = i \div Window /\ w = (i % Window) \div 4
      BY <2>1, PlaceOfWord, PlaceOfByte
    <3>2. decode_address(i).target = t /\ decode_address(i).masked = i % Window
      BY <2>1, <3>1, PlaceOfWord, Decoded
    <3>3. mem' = Copied(t, w, cmd, i) /\ shown' = Line(t, w, cmd, i)
      BY <3>1, <3>2
    <3> QED  BY <2>1, <3>1, <3>3, AccessIsFlat
  <2>5. ASSUME NEW cmd \in {"R", "W"}, DirectAccess(cmd) PROVE Flat!Next
    <3> USE <2>5 DEF DirectAccess
    <3>1. i \div 4 \in 0 .. SIZE - 1 /\ 0 \in Targets
      BY <2>1, PlaceOfWord, Sizes DEF Targets
    <3> QED  BY <2>1, <3>1, AccessIsFlat
  <2>6. CASE TransportFails \/ DumpAcross \/ DumpSecond \/ Ended \/ UNCHANGED vars
    BY <2>2, <2>6 DEF TransportFails, DumpAcross, DumpSecond, Ended, vars
  <2> QED  BY <2>3, <2>4, <2>5, <2>6 DEF Next
<1> QED  BY <1>1, <1>2, Invariance, PTL DEF Spec, OneMemory, Flat!Spec
=============================================================================
