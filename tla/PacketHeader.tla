---------------------------- MODULE PacketHeader ----------------------------
(***************************************************************************)
(* The command header of the indirect buffer (cp_model/ajqueue.cpp): one   *)
(* 32-bit word, of which AJQueue reads the fields by mask and shift.  A     *)
(* mask-and-shift of an unsigned word is a division and a remainder.        *)
(***************************************************************************)
EXTENDS Integers

Word == Nat

\* (w & mask) >> lo, where mask has its `width' bits set from bit lo upwards.
Bits(w, lo, width) == (w \div 2^lo) % 2^width

getHeaderBodydws(w) == Bits(w, 6, 14)      \* mask 0x000FFFC0, >> 6
getHeaderCmdType(w) == Bits(w, 24, 4)      \* mask 0x0F000000, >> 24
getHeaderDst(w)     == Bits(w, 28, 3)      \* mask 0x70000000, >> 28
getHeaderPacketType(w) == Bits(w, 31, 1)   \* mask 0x80000000, >> 31

dst_cu == 0
dst_event_sync == 3
device_sync_cmd == 2

\* CpCommandHeader and CpEventSync: the only header with an effect is an
\* event_sync packet of type 2, which becomes a CpDeviceSync.
IsDeviceSync(w) == getHeaderDst(w) = dst_event_sync /\ getHeaderCmdType(w) = device_sync_cmd
=============================================================================
