------------------------------ MODULE ExactRows ------------------------------
(***************************************************************************)
(* How core/isotropy/traverse_exact.c lets a later stage of a request      *)
(* recover the exact rows of an earlier one.  The stages hand each other   *)
(* doubles, some of them printed with six decimals and read back; the walk *)
(* that made them leaves the exact subspace behind in the table ROWS,      *)
(* under the bits of its doubles.  A later stage looks its doubles up: the *)
(* display for the correctly rounded doubles, the coupled orbits for the   *)
(* exact coefficients.                                                     *)
(*                                                                         *)
(* Requests are served one at a time.  Each one starts with ROWS empty;    *)
(* the residue fields of FieldTable stay.                                  *)
(***************************************************************************)
EXTENDS FieldTable, ProbeTable, FiniteSets

CONSTANTS
    Doubles,     \* the blocks of doubles that occur
    DoublesHash, \* doubles_hash
    Bases,       \* the subspaces a walk can emit, in terms of its field
    Orthogonal,  \* the correctly rounded doubles of <<m, basis>>
    Shown,       \* the same doubles, through their display with six decimals
    FirstSlots   \* slots of the first table (1024)

Subspaces == Moduli \X Bases

ASSUME RowAssumption ==
    /\ DoublesHash \in [Doubles -> Nat]
    /\ Orthogonal \in [Subspaces -> Doubles]
    /\ Shown \in [Subspaces -> Doubles]
    /\ FirstSlots \in Nat \ {0, 1}

VARIABLES
    ROWS,      \* the table: its entries, slots and slot_count
    F,         \* the order of the current field, 0 before the first walk
    walking,   \* a walk is emitting its nodes
    emitted,   \* history: the subspaces emitted in this request
    rowLost    \* history: an allocation failed while one was stored

rowVars == <<ROWS, F, walking, emitted, rowLost>>

None == <<0, 0>>  \* no subspace, or one that is no longer decidable (m = -1)
NoDoubles == -1   \* no rounded doubles (a null pointer)

EmptyRows == [entries |-> <<>>, slots |-> EmptySlots(0), slot_count |-> 0]

(* row_cache_find: the entry of these doubles, 0 when there is none. *)
Find(R, d) ==
    IF R.slot_count = 0 THEN 0
    ELSE R.slots[ProbeStop(R.slot_count, DoublesHash[d],
                           {s \in DOMAIN R.slots : R.slots[s] = 0 \/ R.entries[R.slots[s]].d = d})]

Hashes(entries) == [i \in DOMAIN entries |-> DoublesHash[entries[i].d]]

\* A fault: what is stored first is kept, whatever comes later.
MarkNothing(R, i, x) == R

\* A fault: the table grows when it is full, not when it is half full.
MustGrowWhenFull(R) == Len(R.entries) + 1 > R.slot_count

(* row_cache_put: the other subspace of known doubles makes both
   undecidable; a table that would be more than half full is doubled first. *)
MarkKnown(R, i, x) ==
    IF R.entries[i].x = x THEN R ELSE [R EXCEPT !.entries[i].x = None]

MustGrow(R) == (Len(R.entries) + 1) * 2 > R.slot_count

Grown(R) ==
    LET size == IF R.slot_count = 0 THEN FirstSlots ELSE 2 * R.slot_count
    IN  IF MustGrow(R)
        THEN [R EXCEPT !.slots = Filled(size, Hashes(R.entries)), !.slot_count = size]
        ELSE R

Stored(R, d, x, rounded) ==
    [R EXCEPT !.entries = Append(@, [d |-> d, x |-> x, rounded |-> rounded]),
              !.slots = Placed(@, R.slot_count, DoublesHash[d], Len(R.entries) + 1)]

(* What a put leaves behind, and whether memory ran out on the way: in the
   doubling, or later, for the entry itself. *)
PutResults(R, d, x, rounded) ==
    IF Find(R, d) # 0
    THEN {[table |-> MarkKnown(R, Find(R, d), x), lost |-> FALSE]}
    ELSE {[table |-> Stored(Grown(R), d, x, rounded), lost |-> FALSE],
          [table |-> Grown(R), lost |-> TRUE]}
         \cup IF MustGrow(R) THEN {[table |-> R, lost |-> TRUE]} ELSE {}

(* row_cache_get and exact_refine_rows *)
SubspaceOf(d) == IF Find(ROWS, d) = 0 THEN None ELSE ROWS.entries[Find(ROWS, d)].x
Refined(d) ==
    IF SubspaceOf(d) = None THEN NoDoubles ELSE ROWS.entries[Find(ROWS, d)].rounded

-----------------------------------------------------------------------------
(* st_state: a request starts with exact_rows_reset. *)
StartRequest ==
    /\ ROWS' = EmptyRows
    /\ walking' = FALSE
    /\ emitted' = {}
    /\ rowLost' = FALSE
    /\ UNCHANGED <<F, fieldVars>>

(* exact_image_walk, up to its first node: without a field it fails. *)
Walk(m) ==
    /\ ~walking
    /\ \E p \in {0} \cup {PrimeOf[key] : key \in Moduli \X Attempts} :
          /\ FieldFor(m, p)
          /\ walking' = (p # 0)
          /\ F' = IF p # 0 THEN m ELSE F
    /\ UNCHANGED <<ROWS, emitted, rowLost>>

(* exact_rows_to_doubles, at a node: the orthogonal rows are stored under
   their doubles, and under the doubles they will be shown as when those
   differ. *)
Emit(basis) ==
    LET x == <<F, basis>> IN
    /\ walking
    /\ emitted' = emitted \cup {x}
    /\ \E first \in PutResults(ROWS, Orthogonal[x], x, NoDoubles) :
          \/ /\ Shown[x] = Orthogonal[x]
             /\ ROWS' = first.table
             /\ rowLost' = (rowLost \/ first.lost)
          \/ /\ Shown[x] # Orthogonal[x]
             /\ \E second \in PutResults(first.table, Shown[x], x, Orthogonal[x]) :
                   /\ ROWS' = second.table
                   /\ rowLost' = (rowLost \/ first.lost \/ second.lost)
    /\ UNCHANGED <<F, walking, fieldVars>>

EndWalk ==
    /\ walking
    /\ walking' = FALSE
    /\ UNCHANGED <<ROWS, F, emitted, rowLost, fieldVars>>

(* exact_coupled_orbit: the source's field is widened to hold the phases of
   the operations, and becomes the current one. *)
CoupledOrbit(d, m) ==
    /\ ~walking
    /\ SubspaceOf(d) # None
    /\ m % SubspaceOf(d)[1] = 0
    /\ \E p \in {0} \cup {PrimeOf[key] : key \in Moduli \X Attempts} :
          /\ FieldFor(m, p)
          /\ F' = IF p # 0 THEN m ELSE F
    /\ UNCHANGED <<ROWS, walking, emitted, rowLost>>

Solve(m, attempt) ==
    /\ SolverPrime(m, attempt)
    /\ UNCHANGED rowVars

RowsInit ==
    /\ FieldInit
    /\ ROWS = EmptyRows
    /\ F = 0
    /\ walking = FALSE
    /\ emitted = {}
    /\ rowLost = FALSE

RowsNext ==
    \/ StartRequest
    \/ \E m \in Moduli : Walk(m)
    \/ \E basis \in Bases : Emit(basis)
    \/ EndWalk
    \/ \E d \in Doubles, m \in Moduli : CoupledOrbit(d, m)
    \/ \E m \in Moduli, attempt \in Attempts : Solve(m, attempt)

-----------------------------------------------------------------------------
(* The subspaces of this request that these doubles can stand for. *)
Meanings(d) == {x \in emitted : d \in {Orthogonal[x], Shown[x]}}

(* Doubles are read back as an exact subspace only when one of this request
   stands behind them, and then always; doubles that two of them share are
   read back as neither (the comment in row_cache_put: "the same doubles for
   another exact subspace: no longer decidable").  Rows read back from
   six-decimal text are replaced by the doubles of the one subspace they show,
   and left alone when two show them.  When memory ran out an answer may be
   missing, or given although a second meaning was lost. *)
RowsExact ==
    \A d \in Doubles :
        /\ SubspaceOf(d) # None => SubspaceOf(d) \in Meanings(d)
        /\ ~rowLost => (SubspaceOf(d) # None <=> Cardinality(Meanings(d)) = 1)
        /\ Refined(d) # NoDoubles =>
              \E x \in Meanings(d) :
                  /\ Shown[x] = d
                  /\ Refined(d) = Orthogonal[x]
                  /\ rowLost \/ Meanings(d) = {x}
        /\ \A x \in emitted :
              ~rowLost /\ Meanings(d) = {x} /\ Shown[x] = d /\ Orthogonal[x] # d
                  => Refined(d) = Orthogonal[x]

(* The loops that probe ROWS end: half of the slots or more are empty,
   across every doubling and every failed one. *)
RowProbesEnd ==
    /\ HasEmptySlot(ROWS.slots, ROWS.slot_count)
    /\ 2 * Len(ROWS.entries) <= ROWS.slot_count
=============================================================================
