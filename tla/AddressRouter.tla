---------------------------- MODULE AddressRouter ----------------------------
(***************************************************************************)
(* SystemC/TLM2.0/test2.cpp: an initiator that walks over the border of two *)
(* memories behind a router, and then dumps what it finds there; and        *)
(* test.cpp, where one memory answers the initiator point to point.         *)
(*                                                                         *)
(* An access takes one of two ways: a transaction, which the router sends   *)
(* on with the address the memory knows, or the pointer (DMI) that the      *)
(* router has handed out for a range of addresses of the bus.  The          *)
(* initiator is the only thread, so an access is one action with the time   *)
(* it takes left out.                                                       *)
(***************************************************************************)
EXTENDS Integers, FiniteSets

CONSTANTS
    N_TARGETS,
    Window,     \* bytes of the bus that a memory answers for: 0xFF + 1
    SIZE,       \* words of a memory
    Margin,     \* bytes the initiator visits on each side of the border
    DirectFirst, DirectEnd    \* the first address test.cpp visits, and the one behind

ASSUME RouterAssumption ==
    /\ {N_TARGETS, Window, SIZE, Margin} \subseteq Nat \ {0}
    /\ N_TARGETS > 1 /\ Margin <= Window
    /\ Window % 8 = 0 /\ Margin % 4 = 0
    /\ N_TARGETS * Window <= 4 * SIZE /\ (4 * SIZE) % Window = 0
    /\ {DirectFirst, DirectEnd} \subseteq Nat
    /\ DirectFirst % 4 = 0 /\ DirectEnd % 4 = 0
    /\ DirectFirst < DirectEnd /\ DirectEnd <= N_TARGETS * Window

VARIABLES
    program,         \* "test" or "test2"
    pc,              \* "loop", "dump", "dump_again", "end", or "reported" after an error
    i,               \* the address the loop has come to
    inject_error,    \* whether INJECT_ERROR is defined
    mem,             \* mem[t][w]: the words of the memories
    dmi_ptr_valid,
    dmi_data,        \* the memory the pointer leads to, its first and last address
    last_trans,      \* the address of the last transaction, kept for the properties
    shown,           \* the line printed last
    dump             \* the words printed of a dump, at their addresses

vars ==
    <<program, pc, i, inject_error, mem, dmi_ptr_valid, dmi_data, last_trans, shown, dump>>

Targets == 0 .. N_TARGETS - 1
Bytes == 0 .. N_TARGETS * Window - 1
BusWords == {a \in Bytes : a % 4 = 0}
First == IF program = "test" THEN DirectFirst ELSE Window - Margin
Limit == IF program = "test" THEN DirectEnd ELSE Window + Margin
Walk == {a \in First .. Limit - 1 : a % 4 = 0}

\* What the constructor stores and what the loop writes; each word tells its place.
Initial(t, w) == <<"memory", t, w>>
Data(a) == <<"data", a>>
Words ==
    {Initial(t, w) : t \in Targets, w \in 0 .. SIZE - 1} \cup {Data(a) : a \in BusWords}

Init ==
    /\ program \in {"test", "test2"}
    /\ pc = "loop"
    /\ i = First
    /\ inject_error \in (IF program = "test" THEN {FALSE} ELSE BOOLEAN)
    /\ mem = [t \in Targets |-> [w \in 0 .. SIZE - 1 |-> Initial(t, w)]]
    /\ dmi_ptr_valid = FALSE
    /\ dmi_data = [memory |-> 0, start |-> 0, end |-> 0]
    /\ last_trans = 0
    /\ shown = << >>
    /\ dump = << >>
-----------------------------------------------------------------------------
(***************************************************************************)
(* Router                                                                   *)
(***************************************************************************)

\* Mutant: one bit of the address too few.
DecodeHalf(address) ==
    [target |-> (address \div Window) % N_TARGETS, masked |-> address % (Window \div 2)]

decode_address(address) ==
    [target |-> (address \div Window) % N_TARGETS, masked |-> address % Window]

\* Mutant: the range of the memory is not cut to the part that is on the bus.
ComposeUncut(target_nr, address) == target_nr * Window + address

compose_address(target_nr, address) == target_nr * Window + (address % Window)
-----------------------------------------------------------------------------
(***************************************************************************)
(* Memory                                                                   *)
(***************************************************************************)

\* The response of b_transport to an access of four bytes.
Response(masked, width) ==
    IF masked \div 4 >= SIZE THEN "address_error"
    ELSE IF width < 4 THEN "burst_error"
    ELSE "ok"

\* memcpy between the data of an access and a word, for either way.
Copied(t, w, cmd, a) == IF cmd = "W" THEN [mem EXCEPT ![t][w] = Data(a)] ELSE mem
Line(t, w, cmd, a) ==
    [cmd |-> cmd, at |-> a, data |-> IF cmd = "W" THEN Data(a) ELSE mem[t][w]]

\* get_direct_mem_ptr: all of the memory, and what the router makes of it.
MemoryRange == [start |-> 0, end |-> 4 * SIZE - 1]

\* Mutant: the address that the last transaction has left behind is sent again.
DmiOfMasked(address) ==
    LET to == decode_address(decode_address(address).masked) IN
    [memory |-> to.target, start |-> compose_address(to.target, MemoryRange.start),
     end |-> compose_address(to.target, MemoryRange.end)]

get_direct_mem_ptr(address) ==
    LET to == decode_address(address) IN
    [memory |-> to.target, start |-> compose_address(to.target, MemoryRange.start),
     end |-> compose_address(to.target, MemoryRange.end)]

\* transport_dbg: as many words, from the one addressed, as the memory has.
transport_dbg(address, length) ==
    LET to == decode_address(address)
        adr == to.masked \div 4
        num == IF length < (SIZE - adr) * 4 THEN length ELSE (SIZE - adr) * 4
    IN  [a \in {x \in address .. address + num - 1 : x % 4 = 0} |->
            mem[to.target][adr + (a - address) \div 4]]
-----------------------------------------------------------------------------
(***************************************************************************)
(* Initiator                                                                *)
(***************************************************************************)
\* Mutant: the loop takes one address too many.
StepPast == IF i + 4 <= Limit THEN "loop" ELSE IF program = "test" THEN "end" ELSE "dump"

Step == IF i + 4 < Limit THEN "loop" ELSE IF program = "test" THEN "end" ELSE "dump"

DmiAvailable == dmi_ptr_valid /\ dmi_data.start <= i /\ i <= dmi_data.end

\* The pointer, moved by the distance from the start of its range.
DmiAccess(cmd) ==
    /\ pc = "loop" /\ DmiAvailable
    /\ LET w == (i - dmi_data.start) \div 4 IN
       /\ mem' = Copied(dmi_data.memory, w, cmd, i)
       /\ shown' = Line(dmi_data.memory, w, cmd, i)
    /\ i' = i + 4 /\ pc' = Step
    /\ UNCHANGED <<program, inject_error, dmi_ptr_valid, dmi_data, last_trans, dump>>

\* With INJECT_ERROR the streaming width of every access of the walk is 2.
StreamingWidth == IF inject_error THEN 2 ELSE 4

\* A transaction that succeeds, and the range that is asked for afterwards: the memory
\* always gives the hint.
TransportAccess(cmd) ==
    LET to == decode_address(i) IN
    /\ program = "test2" /\ pc = "loop" /\ ~DmiAvailable
    /\ Response(to.masked, StreamingWidth) = "ok"
    /\ mem' = Copied(to.target, to.masked \div 4, cmd, i)
    /\ shown' = Line(to.target, to.masked \div 4, cmd, i)
    /\ last_trans' = i
    /\ dmi_ptr_valid' = TRUE
    /\ dmi_data' = get_direct_mem_ptr(i)
    /\ i' = i + 4 /\ pc' = Step
    /\ UNCHANGED <<program, inject_error, dump>>

\* test.cpp: the memory gets the address of the bus, and no pointer is handed out.
DirectAccess(cmd) ==
    /\ program = "test" /\ pc = "loop"
    /\ Response(i, StreamingWidth) = "ok"
    /\ mem' = Copied(0, i \div 4, cmd, i)
    /\ shown' = Line(0, i \div 4, cmd, i)
    /\ last_trans' = i
    /\ i' = i + 4 /\ pc' = Step
    /\ UNCHANGED <<program, inject_error, dmi_ptr_valid, dmi_data, dump>>

\* One that fails: SC_REPORT_ERROR throws, and nobody catches it.
TransportFails ==
    /\ pc = "loop" /\ ~DmiAvailable
    /\ LET address == IF program = "test" THEN i ELSE decode_address(i).masked
       IN  Response(address, StreamingWidth) # "ok"
    /\ pc' = "reported"
    /\ UNCHANGED <<program, i, inject_error, mem, dmi_ptr_valid, dmi_data, last_trans>>
    /\ UNCHANGED <<shown, dump>>

\* A = 128, 256 bytes; then A = 256, 128 bytes.
DumpAcross ==
    /\ pc = "dump"
    /\ dump' = transport_dbg(Window \div 2, Window)
    /\ pc' = "dump_again"
    /\ UNCHANGED <<program, i, inject_error, mem, dmi_ptr_valid, dmi_data, last_trans>>
    /\ UNCHANGED shown

DumpSecond ==
    /\ pc = "dump_again"
    /\ dump' = transport_dbg(Window, Window \div 2)
    /\ pc' = "end"
    /\ UNCHANGED <<program, i, inject_error, mem, dmi_ptr_valid, dmi_data, last_trans>>
    /\ UNCHANGED shown

Ended == pc \in {"end", "reported"} /\ UNCHANGED vars

Next ==
    \/ \E cmd \in {"R", "W"} : DmiAccess(cmd) \/ TransportAccess(cmd) \/ DirectAccess(cmd)
    \/ TransportFails \/ DumpAcross \/ DumpSecond \/ Ended

Spec == Init /\ [][Next]_vars
-----------------------------------------------------------------------------
\* Type invariant: no access leaves the array of a memory.
TypeOK ==
    /\ program \in {"test", "test2"}
    /\ pc \in {"loop", "dump", "dump_again", "end", "reported"}
    /\ i \in Walk \cup {Limit}
    /\ inject_error \in BOOLEAN /\ dmi_ptr_valid \in BOOLEAN
    /\ mem \in [Targets -> [0 .. SIZE - 1 -> Words]]
    /\ dmi_data.memory \in Targets /\ {dmi_data.start, dmi_data.end} \subseteq Bytes
    /\ last_trans \in BusWords

\* The word of the memories that an address of the bus stands for.
BusWord(a) ==
    IF program = "test" THEN mem[0][a \div 4] ELSE mem[a \div Window][(a % Window) \div 4]

\* Transactions and direct accesses, on both sides of the border, work on one flat memory:
\* no word is reached under two addresses, and no way misses what the other one wrote.
Flat == INSTANCE FlatMemory WITH
            Address <- BusWords, Word <- Words, flat <- [a \in BusWords |-> BusWord(a)]
OneMemory == Flat!Spec

\* The range asked for after a transaction (line 101) serves the address of that
\* transaction, and lies inside the window of the memory its pointer leads to, although
\* the memory offers all of its words.
DmiServesItsAddress ==
    dmi_ptr_valid =>
        /\ dmi_data.start <= last_trans /\ last_trans <= dmi_data.end
        /\ \A a \in dmi_data.start .. dmi_data.end : a \div Window = dmi_data.memory

\* What a dump prints at an address of the memory it was sent to is what the accesses left
\* there; behind the window the first dump prints words of that memory that no other
\* access reaches.
DumpShowsMemory ==
    \A a \in DOMAIN dump :
        LET first == IF pc = "end" THEN Window ELSE Window \div 2 IN
        IF a \div Window = first \div Window THEN dump[a] = BusWord(a)
        ELSE dump[a] = Initial(first \div Window, (a - (first \div Window) * Window) \div 4)
=============================================================================
