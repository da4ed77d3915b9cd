----------------------------- MODULE ProbeTable -----------------------------
(***************************************************************************)
(* Open addressing with linear probing, as the engine's caches write it    *)
(* out each for itself (ROWS in core/isotropy/traverse_exact.c, the layout *)
(* buckets of core/modes/frame.c): a table of `size` slots numbered from   *)
(* 0, a slot 0 when it is empty, else the number of an entry kept          *)
(* elsewhere, entries numbered from 1.                                     *)
(***************************************************************************)
EXTENDS Integers, SequencesExt

EmptySlots(size) == [s \in 0 .. size - 1 |-> 0]

(* The slot at which a probe from hash h stops, the first that is one of
   `stops`; it has no value, and the loop in the code no end, when there is
   none. *)
ProbeStop(size, h, stops) ==
    LET at(k) == (h + k) % size
    IN  at(CHOOSE k \in 0 .. size - 1 :
               at(k) \in stops /\ \A j \in 0 .. k - 1 : at(j) \notin stops)

(* The table with entry i, of hash h, in the first empty slot. *)
Placed(slots, size, h, i) ==
    [slots EXCEPT ![ProbeStop(size, h, {s \in DOMAIN slots : slots[s] = 0})] = i]

(* A new table with entries 1, 2, ... of these hashes, placed in order. *)
Filled(size, hashes) ==
    LET table[n \in 0 .. Len(hashes)] ==
            IF n = 0 THEN EmptySlots(size) ELSE Placed(table[n - 1], size, hashes[n], n)
    IN  table[Len(hashes)]

(* Every probe ends: some slot is empty. *)
HasEmptySlot(slots, size) == size = 0 \/ \E s \in 0 .. size - 1 : slots[s] = 0
=============================================================================
