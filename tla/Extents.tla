------------------------------- MODULE Extents -------------------------------
(***************************************************************************)
(* The shapes in which every container reader answers: where something     *)
(* lives at run time (vm), in the file (file) and where its bytes are      *)
(* stored for loading (load: flash, on a microcontroller).                 *)
(***************************************************************************)
EXTENDS Integers, Sequences, FiniteSets, FiniteSetsExt

CONSTANTS MaxAddress, \* u64::MAX
          NoRange,    \* an extent's None
          None        \* any other Option's None

ASSUME WidthAssumption == MaxAddress \in Nat

Addresses == 0..MaxAddress
Ranges    == [start : Addresses, size : Addresses]
ASSUME RangeAssumption == NoRange \notin Ranges

Extents   == [{"vm", "file", "load"} -> Ranges \cup {NoRange}]

AddrRange(start, size) == [start |-> start, size |-> size]

\* bool::then_some of a range.
RangeIf(condition, start, size) == IF condition THEN AddrRange(start, size) ELSE NoRange

Extent(vm, file, load) == [vm |-> vm, file |-> file, load |-> load]

Lesser(m, n) == IF m <= n THEN m ELSE n

EndOf(range) == Lesser(range.start + range.size, MaxAddress)

\* From the first byte to one past the last, where linkers put end markers.
Within(range, address) == range.start <= address /\ address <= EndOf(range)

\* Neither begins before the other ends.
Apart(start, size, other, otherSize) == start + size <= other \/ other + otherSize <= start

\* Bytes of the source, or why there are none.
Bytes(from, size) == [status |-> "ok", from |-> from, size |-> size]
Refused(status)   == [status |-> status, from |-> 0, size |-> 0]

Malformed == [status |-> "Malformed"]
=============================================================================
