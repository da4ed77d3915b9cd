---------------------------- MODULE FrameLayouts ----------------------------
(***************************************************************************)
(* The atom layouts of core/modes/frame.c.  materialize builds the atoms   *)
(* of a site in a supercell once and keeps them in a ring of LAYOUT_CACHE  *)
(* entries, found through hashed buckets; when the ring is full the oldest *)
(* entry is freed, however recently it was read.                           *)
(*                                                                         *)
(* A layout's serial stands for its memory: it is freed when no ring entry *)
(* has it any more.                                                        *)
(***************************************************************************)
EXTENDS ProbeTable

CONSTANTS
    Layouts,       \* the keys: site, cell and setting
    LayoutHash,    \* key_hash
    Faults,        \* per key: what goes wrong when it is made, "none" for most
    LAYOUT_CACHE,  \* entries of the ring (4096)
    LAYOUT_BUCKETS \* buckets (8192)

ASSUME LayoutAssumption ==
    /\ LayoutHash \in [Layouts -> Nat]
    /\ Faults \in [Layouts -> {"none", "value", "runtime", "range"}]
    /\ LAYOUT_CACHE \in Nat \ {0, 1}
    /\ LAYOUT_BUCKETS \in Nat /\ LAYOUT_BUCKETS > LAYOUT_CACHE

VARIABLE layouts  \* layout_cache with its next index, layout_bucket, layout_serial

NoLayout == [key |-> <<>>, serial |-> 0]

(* layout_find: the ring entry of a key, 0 when there is none. *)
LayoutFind(L, key) ==
    L.bucket[ProbeStop(LAYOUT_BUCKETS, LayoutHash[key],
                       {b \in DOMAIN L.bucket : L.bucket[b] = 0 \/ L.ring[L.bucket[b]].key = key})]

(* layout_rehash *)
Rehashed(ring) ==
    Filled(LAYOUT_BUCKETS, [slot \in DOMAIN ring |-> LayoutHash[ring[slot].key]])

\* A fault: the buckets are rebuilt only while the ring grows.
KeptUnhashed(L, entry) ==
    IF Len(L.ring) = LAYOUT_CACHE
    THEN [ring |-> [L.ring EXCEPT ![L.next + 1] = entry], next |-> (L.next + 1) % LAYOUT_CACHE,
          bucket |-> L.bucket, serial |-> entry.serial]
    ELSE [ring |-> Append(L.ring, entry), next |-> (L.next + 1) % LAYOUT_CACHE,
          bucket |-> Rehashed(Append(L.ring, entry)), serial |-> entry.serial]

\* A fault: a full ring always gives up the same entry.
KeptInPlace(L, entry) ==
    LET full == Len(L.ring) = LAYOUT_CACHE
        ring == IF full THEN [L.ring EXCEPT ![L.next + 1] = entry] ELSE Append(L.ring, entry)
    IN  [ring |-> ring, next |-> IF full THEN L.next ELSE (L.next + 1) % LAYOUT_CACHE,
         bucket |-> Rehashed(ring), serial |-> entry.serial]

(* A new layout takes the slot `next`, which is a new one until the ring is
   full and the oldest one from then on. *)
Kept(L, entry) ==
    LET ring == IF Len(L.ring) = LAYOUT_CACHE
                THEN [L.ring EXCEPT ![L.next + 1] = entry]
                ELSE Append(L.ring, entry)
    IN  [ring |-> ring, next |-> (L.next + 1) % LAYOUT_CACHE,
         bucket |-> Rehashed(ring), serial |-> entry.serial]

(* materialize.  `short`: the allocation of the call that fails, "tables"
   before the new layout has its serial and "layout" after it, or "none".
   "value" and "runtime": the Source tables do not fit, with an error the
   caller may or may not go on from; "range": a coordinate does not fit its
   integers. *)
Outcome(L, status, layout, hit) == [mem |-> L, status |-> status, layout |-> layout, hit |-> hit]

Materialize(L, key, short) ==
    LET slot == LayoutFind(L, key)
        made == [key |-> key, serial |-> L.serial + 1]
        counted == [L EXCEPT !.serial = @ + 1]
    IN  IF slot # 0 THEN Outcome(L, "ok", L.ring[slot], TRUE)
        ELSE IF short = "tables" THEN Outcome(L, "memory", NoLayout, FALSE)
        ELSE IF Faults[key] \in {"value", "runtime"} THEN Outcome(L, Faults[key], NoLayout, FALSE)
        ELSE IF short = "layout" THEN Outcome(counted, "memory", NoLayout, FALSE)
        ELSE IF Faults[key] = "range" THEN Outcome(counted, "arith", NoLayout, FALSE)
        ELSE Outcome(Kept(L, made), "ok", made, FALSE)

NoLayouts == [ring |-> <<>>, next |-> 0, bucket |-> EmptySlots(LAYOUT_BUCKETS), serial |-> 0]

-----------------------------------------------------------------------------
(* A lookup through the buckets answers as a scan of the ring would: every
   key that is kept is found at its entry and no other key is found, however
   the ring has turned. *)
LayoutsFound ==
    /\ HasEmptySlot(layouts.bucket, LAYOUT_BUCKETS)
    /\ \A key \in Layouts :
          LET slot == LayoutFind(layouts, key) IN
          IF slot = 0 THEN \A s \in DOMAIN layouts.ring : layouts.ring[s].key # key
          ELSE layouts.ring[slot].key = key
=============================================================================
