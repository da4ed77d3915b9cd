---------------------------- MODULE EngineProofs ----------------------------
(***************************************************************************)
(* Proofs about Engine, for any orders, primes, doubles, hashes, table     *)
(* sizes, frames and images.  Four of its parts have an inductive          *)
(* invariant each.                                                         *)
(*                                                                         *)
(* FieldAnswered fails for a process that has used up its field entries.   *)
(* It holds, for ever, when there is an entry for every order: the fields  *)
(* held are distinct, so a table that is full holds them all, and an       *)
(* order that is not held finds room. FieldInv is the inductive            *)
(* invariant.                                                              *)
(*                                                                         *)
(* Rows and layouts are found through tables of open addresses. Indexed    *)
(* says what filling one leaves: every entry in a slot that its probe      *)
(* gets to past no empty one, and no two in one slot.  RowsInv adds what   *)
(* the entries stand for: the subspaces whose doubles were put, one of     *)
(* them or none, and unless memory ran out an entry for each put.          *)
(*                                                                         *)
(* FramesInv says that the ring of layouts is such a table, that the       *)
(* other rings hold what would be found again, or say that memory ran      *)
(* out, and that the last frame answered as it would have alone.           *)
(*                                                                         *)
(* WalkInv says where the walk over the subspaces is: its nodes are the    *)
(* fixed spaces of their stabilizers, the subspaces seen are their orbits, *)
(* and whatever a pair fixes of a node that is done was seen.  For the     *)
(* node it is at, every pair fixes it or does on it what a candidate does. *)
(***************************************************************************)
EXTENDS Engine, Induction

(* There is an entry for every order the process will ask for. *)
Room == IsFiniteSet(Moduli) /\ Cardinality(Moduli) <= FieldSlots

Entries == [key : Moduli \X Attempts, p : Nat]

(* An entry holds the prime of its key. *)
Faithful(table) == \A i \in 1 .. Len(table) : table[i].p = PrimeOf[table[i].key]

FieldInv ==
    /\ primes \in Seq(Entries) /\ Faithful(primes)
    /\ fields \in Seq(Entries) /\ Faithful(fields)
    /\ \A i \in 1 .. Len(fields) : fields[i].key[2] = 0
    /\ \A i, j \in 1 .. Len(fields) : fields[i].key = fields[j].key => i = j
    /\ FieldAnswered

-----------------------------------------------------------------------------
\* The lookup of a key that a faithful table holds gives its prime.
LEMMA LookupFaithful ==
    ASSUME NEW table \in Seq(Entries), Faithful(table), NEW key, Held(table, key) # {}
    PROVE  Looked(table, key) = PrimeOf[key]
<1> DEFINE first == CHOOSE i \in Held(table, key) : \A j \in Held(table, key) : i <= j
<1>1. Held(table, key) \subseteq 1 .. Len(table)
  BY DEF Held
<1>2. first \in Held(table, key)
  <2>1. \E i \in Held(table, key) : \A j \in Held(table, key) : i <= j
    BY <1>1, SmallestNat
  <2> QED BY <2>1
<1>3. table[first].key = key /\ table[first].p = PrimeOf[table[first].key]
  BY <1>1, <1>2 DEF Held, Faithful
<1> QED BY <1>3 DEF Looked

\* prime_for answers with the prime, whether it has it in its table or not.
LEMMA PrimeForRight ==
    ASSUME primes \in Seq(Entries), Faithful(primes), NEW key
    PROVE  PrimeFor(key) = PrimeOf[key]
BY LookupFaithful DEF PrimeFor

\* A table stays faithful with an entry that holds the prime of its key.
LEMMA AppendFaithful ==
    ASSUME NEW table \in Seq(Entries), Faithful(table),
           NEW key \in Moduli \X Attempts, NEW p \in Nat, p = PrimeOf[key]
    PROVE  /\ Append(table, [key |-> key, p |-> p]) \in Seq(Entries)
           /\ Faithful(Append(table, [key |-> key, p |-> p]))
<1> DEFINE e == [key |-> key, p |-> p]
<1>1. e \in Entries /\ e.key = key /\ e.p = p
  BY DEF Entries
<1> HIDE DEF e
<1>2. Append(table, e) \in Seq(Entries)
  BY <1>1
<1>3. /\ Len(Append(table, e)) = Len(table) + 1
      /\ \A i \in 1 .. Len(table) : Append(table, e)[i] = table[i]
      /\ Append(table, e)[Len(table) + 1] = e
  OBVIOUS
<1>4. Faithful(Append(table, e))
  BY <1>1, <1>3 DEF Faithful
<1> QED BY <1>2, <1>4 DEF e

\* prime_for leaves its table as faithful as it was.
LEMMA RememberFaithful ==
    ASSUME primes \in Seq(Entries), Faithful(primes),
           NEW key \in Moduli \X Attempts, RememberPrime(key)
    PROVE  primes' \in Seq(Entries) /\ Faithful(primes')
<1>1. CASE primes' = primes
  BY <1>1
<1>2. CASE primes' = Append(primes, [key |-> key, p |-> PrimeOf[key]])
  <2>1. PrimeOf[key] \in Nat
    BY FieldAssumption
  <2> QED BY <1>2, <2>1, AppendFaithful
<1> QED BY <1>1, <1>2 DEF RememberPrime

\* An order whose field is not held finds a free entry.
LEMMA RoomForField ==
    ASSUME Room, FieldInv, NEW m \in Moduli, Held(fields, <<m, 0>>) = {}
    PROVE  Len(fields) < FieldSlots
<1> DEFINE others == Moduli \ {m}
           order == [i \in 1 .. Len(fields) |-> fields[i].key[1]]
<1>1. fields \in Seq(Entries) /\ Len(fields) \in Nat
  BY DEF FieldInv
<1>2. \A i \in 1 .. Len(fields) :
          /\ fields[i].key \in Moduli \X Attempts
          /\ fields[i].key[2] = 0
          /\ fields[i].key = <<fields[i].key[1], 0>>
          /\ fields[i].key # <<m, 0>>
  <2> TAKE i \in 1 .. Len(fields)
  <2>1. fields[i] \in Entries
    BY <1>1
  <2>2. fields[i].key \in Moduli \X Attempts /\ fields[i].key[2] = 0
    BY <2>1 DEF Entries, FieldInv
  <2>3. fields[i].key = <<fields[i].key[1], 0>>
    BY <2>2
  <2>4. fields[i].key # <<m, 0>>
    BY <1>1 DEF Held
  <2> QED BY <2>2, <2>3, <2>4
<1>3. order \in Injection(1 .. Len(fields), others)
  <2>1. order \in [1 .. Len(fields) -> others]
    <3>1. ASSUME NEW i \in 1 .. Len(fields) PROVE fields[i].key[1] \in others
      BY <1>2
    <3> QED BY <3>1
  <2>2. ASSUME NEW i \in 1 .. Len(fields), NEW j \in 1 .. Len(fields), order[i] = order[j]
        PROVE  i = j
    <3>1. fields[i].key = fields[j].key
      BY <1>2, <2>2
    <3> QED BY <3>1 DEF FieldInv
  <2> QED BY <2>1, <2>2 DEF Injection, IsInjective
<1>4. IsFiniteSet(others) /\ Cardinality(others) = Cardinality(Moduli) - 1
  BY FS_RemoveElement DEF Room
<1>5. Cardinality(1 .. Len(fields)) <= Cardinality(others)
  BY <1>3, <1>4, FS_Injection
<1>6. Cardinality(1 .. Len(fields)) = Len(fields)
  <2>1. ASSUME NEW n \in Nat PROVE Cardinality(1 .. n) = n
    <3>1. 1 \in Int /\ n \in Int
      OBVIOUS
    <3>2. Cardinality(1 .. n) = IF 1 > n THEN 0 ELSE n - 1 + 1
      BY <3>1, FS_Interval, Zenon
    <3> QED BY <3>2
  <2> QED BY <1>1, <2>1
<1>7. Cardinality(Moduli) \in Nat
  BY FS_CardinalityType DEF Room
<1> QED BY <1>1, <1>4, <1>5, <1>6, <1>7, FieldAssumption DEF Room

-----------------------------------------------------------------------------
\* Every call of modp_field is answered with the prime, unless starved.
LEMMA FieldForPreserves ==
    ASSUME Room, FieldInv, NEW m \in Moduli, NEW p, FieldFor(m, p)
    PROVE  FieldInv'
<1> DEFINE key == <<m, 0>>
<1>1. key \in Moduli \X Attempts /\ PrimeOf[key] \in Nat
  BY FieldAssumption
<1>2. CASE FieldHeld(m, p)
  <2>1. p = PrimeOf[key]
    BY <1>2, LookupFaithful DEF FieldHeld, FieldInv
  <2>2. asked' = [m |-> m, p |-> p, starved |-> FALSE] /\ UNCHANGED <<primes, fields>>
    BY <1>2 DEF FieldHeld, Answer
  <2>3. FieldAnswered'
    BY <2>1, <2>2 DEF FieldAnswered
  <2> QED BY <2>2, <2>3 DEF FieldInv, Faithful
<1>3. CASE FieldMade(m, p)
  <2>1. p = PrimeOf[key]
    BY <1>3, PrimeForRight, RoomForField DEF FieldMade, FieldInv
  <2>2. asked' = [m |-> m, p |-> p, starved |-> FALSE]
    BY <1>3 DEF FieldMade, Answer
  <2>3. FieldAnswered'
    BY <2>1, <2>2 DEF FieldAnswered
  <2>4. primes' \in Seq(Entries) /\ Faithful(primes')
    BY <1>1, <1>3, RememberFaithful DEF FieldMade, FieldInv
  <2>5. CASE fields' = fields
    BY <2>3, <2>4, <2>5 DEF FieldInv, Faithful
  <2>6. CASE fields' = Append(fields, [key |-> key, p |-> p])
    <3> DEFINE e == [key |-> key, p |-> p]
    <3>1. e.key = key /\ e \in Entries
      BY <1>1, <2>1 DEF Entries
    <3>2. fields' \in Seq(Entries) /\ Faithful(fields')
      BY <1>1, <2>1, <2>6, AppendFaithful DEF FieldInv
    <3>3. fields \in Seq(Entries) /\ fields' = Append(fields, e)
      BY <2>6 DEF FieldInv
    <3> HIDE DEF e
    <3>4. /\ Len(fields') = Len(fields) + 1
          /\ Len(fields) \in Nat
          /\ \A i \in 1 .. Len(fields) : fields'[i] = fields[i]
          /\ fields'[Len(fields) + 1] = e
      BY <3>1, <3>3
    <3>5. \A i \in 1 .. Len(fields') : fields'[i].key[2] = 0
      BY <3>1, <3>4 DEF FieldInv
    <3>6. \A i \in 1 .. Len(fields) : fields[i].key # key
      BY <1>3, <3>3 DEF FieldMade, Held
    <3>7. \A i, j \in 1 .. Len(fields') : fields'[i].key = fields'[j].key => i = j
      <4>1. \A i, j \in 1 .. Len(fields) : fields[i].key = fields[j].key => i = j
        BY DEF FieldInv
      <4>2. \A i \in 1 .. Len(fields') : i \in 1 .. Len(fields) \/ i = Len(fields) + 1
        BY <3>4
      <4> SUFFICES ASSUME NEW i \in 1 .. Len(fields'), NEW j \in 1 .. Len(fields'),
                          fields'[i].key = fields'[j].key
                   PROVE  i = j
        OBVIOUS
      <4>3. CASE i \in 1 .. Len(fields) /\ j \in 1 .. Len(fields)
        BY <4>1, <4>3, <3>4
      <4>4. CASE i \in 1 .. Len(fields) /\ j = Len(fields) + 1
        BY <4>4, <3>1, <3>4, <3>6
      <4>5. CASE i = Len(fields) + 1 /\ j \in 1 .. Len(fields)
        BY <4>5, <3>1, <3>4, <3>6
      <4> QED BY <4>2, <4>3, <4>4, <4>5
    <3> QED BY <2>3, <2>4, <3>2, <3>5, <3>7 DEF FieldInv
  <2> QED BY <1>3, <2>5, <2>6 DEF FieldMade
<1>4. CASE FieldStarved(m, p)
  <2>1. asked' = [m |-> m, p |-> p, starved |-> TRUE] /\ fields' = fields
    BY <1>4 DEF FieldStarved, Answer
  <2>2. FieldAnswered'
    BY <2>1 DEF FieldAnswered
  <2>3. primes' \in Seq(Entries) /\ Faithful(primes')
    BY <1>1, <1>4, RememberFaithful DEF FieldStarved, FieldInv
  <2> QED BY <2>1, <2>2, <2>3 DEF FieldInv, Faithful
<1> QED BY <1>2, <1>3, <1>4 DEF FieldFor

\* A solver that looks a prime up leaves the residue fields right.
LEMMA SolverPrimePreserves ==
    ASSUME FieldInv, NEW m \in Moduli, NEW attempt \in Attempts, SolverPrime(m, attempt)
    PROVE  FieldInv'
<1>1. primes' \in Seq(Entries) /\ Faithful(primes')
  BY RememberFaithful DEF SolverPrime, FieldInv
<1>2. UNCHANGED <<fields, asked>>
  BY DEF SolverPrime
<1> QED BY <1>1, <1>2 DEF FieldInv, Faithful, FieldAnswered

\* A step that leaves both tables alone keeps the invariant of the fields.
LEMMA FieldUnchanged ==
    ASSUME FieldInv, UNCHANGED fieldVars
    PROVE  FieldInv'
BY DEF FieldInv, fieldVars, Faithful, FieldAnswered

-----------------------------------------------------------------------------
\* With an entry for every order, a process of any age answers modp_field as
\* a fresh one does: with the prime of the order, unless memory ran out.
THEOREM FieldsAlwaysAnswered ==
    ASSUME Room
    PROVE  EngineSpec => []FieldAnswered
<1>1. EngineInit => FieldInv
  <2> SUFFICES ASSUME EngineInit PROVE FieldInv
    OBVIOUS
  <2>1. primes = <<>> /\ fields = <<>> /\ asked = NotAsked
    BY DEF EngineInit, RowsInit, FieldInit
  <2>2. <<>> \in Seq(Entries) /\ Faithful(<<>>)
    BY DEF Faithful
  <2> QED BY <2>1, <2>2 DEF FieldInv, FieldAnswered, NotAsked
<1>2. FieldInv /\ [EngineNext]_engineVars => FieldInv'
  <2> SUFFICES ASSUME FieldInv, [EngineNext]_engineVars PROVE FieldInv'
    OBVIOUS
  <2>1. CASE StartRequest
    BY <2>1, FieldUnchanged DEF StartRequest
  <2>2. ASSUME NEW m \in Moduli, Walk(m) PROVE FieldInv'
    BY <2>2, FieldForPreserves DEF Walk
  <2>3. ASSUME NEW basis \in Bases, Emit(basis) PROVE FieldInv'
    BY <2>3, FieldUnchanged DEF Emit
  <2>4. CASE EndWalk
    BY <2>4, FieldUnchanged DEF EndWalk
  <2>5. ASSUME NEW d \in Doubles, NEW m \in Moduli, CoupledOrbit(d, m) PROVE FieldInv'
    BY <2>5, FieldForPreserves DEF CoupledOrbit
  <2>6. ASSUME NEW m \in Moduli, NEW attempt \in Attempts, Solve(m, attempt) PROVE FieldInv'
    BY <2>6, SolverPrimePreserves DEF Solve
  <2>7. CASE UNCHANGED fieldVars
    BY <2>7, FieldUnchanged
  <2>8. RowsNext => FieldInv'
    BY <2>1, <2>2, <2>3, <2>4, <2>5, <2>6 DEF RowsNext
  <2>9. RowsNext \/ UNCHANGED fieldVars
    BY DEF EngineNext, engineVars
  <2> QED BY <2>7, <2>8, <2>9
<1>3. FieldInv => FieldAnswered
  BY DEF FieldInv
<1> QED BY <1>1, <1>2, <1>3, PTL DEF EngineSpec

-----------------------------------------------------------------------------
(* The table of ProbeTable. *)
Turn(size, h, k) == (h + k) % size

\* A probe can get to every slot.
LEMMA EverySlotProbed ==
    ASSUME NEW size \in Nat \ {0}, NEW h \in Nat, NEW s \in 0 .. size - 1
    PROVE  \E k \in 0 .. size - 1 : Turn(size, h, k) = s
<1>1. PICK r : r = h % size
  OBVIOUS
<1>2. PICK q : q = h \div size
  OBVIOUS
<1>3. h = q * size + r /\ r \in 0 .. size - 1 /\ q \in Int
  BY <1>1, <1>2
<1>4. CASE s >= r
  <2>1. s - r \in 0 .. size - 1
    BY <1>3, <1>4
  <2>2. h + (s - r) = q * size + s
    BY <1>3
  <2>3. (q * size + s) % size = s
    BY <1>3
  <2> QED BY <2>1, <2>2, <2>3 DEF Turn
<1>5. CASE s < r
  <2>1. s - r + size \in 0 .. size - 1
    BY <1>3, <1>5
  <2>2. h + (s - r + size) = (q + 1) * size + s
    BY <1>3
  <2>3. ((q + 1) * size + s) % size = s
    BY <1>3
  <2> QED BY <2>1, <2>2, <2>3 DEF Turn
<1> QED BY <1>3, <1>4, <1>5

\* A probe is always in the table.
LEMMA ProbeInTable ==
    ASSUME NEW size \in Nat \ {0}, NEW h \in Nat, NEW k \in Nat
    PROVE  Turn(size, h, k) \in 0 .. size - 1
BY DEF Turn

\* The probe stops at the first of its stops.
LEMMA ProbeStops ==
    ASSUME NEW size \in Nat \ {0}, NEW h \in Nat, NEW stops, NEW s \in stops,
           stops \subseteq 0 .. size - 1
    PROVE  \E k \in 0 .. size - 1 :
              /\ ProbeStop(size, h, stops) = Turn(size, h, k)
              /\ Turn(size, h, k) \in stops
              /\ \A j \in 0 .. k - 1 : Turn(size, h, j) \notin stops
<1> DEFINE T == {k \in 0 .. size - 1 : Turn(size, h, k) \in stops}
<1>1. T # {}
  <2>1. s \in 0 .. size - 1
    OBVIOUS
  <2>2. \E k \in 0 .. size - 1 : Turn(size, h, k) = s
    BY <2>1, EverySlotProbed
  <2> QED BY <2>2
<1>2. T \subseteq Nat
  OBVIOUS
<1>3. PICK k \in T : \A j \in T : k <= j
  BY <1>1, <1>2, SmallestNat
<1>4. \E m \in 0 .. size - 1 :
        Turn(size, h, m) \in stops /\ \A j \in 0 .. m - 1 : Turn(size, h, j) \notin stops
  <2>1. ASSUME NEW j \in 0 .. k - 1 PROVE Turn(size, h, j) \notin stops
    <3>1. j \in 0 .. size - 1 /\ ~(k <= j)
      BY <1>3
    <3> QED BY <1>3, <3>1
  <2> QED BY <1>3, <2>1
<1>5. PICK m : m = CHOOSE k_1 \in 0 .. size - 1 :
        Turn(size, h, k_1) \in stops /\ \A j \in 0 .. k_1 - 1 : Turn(size, h, j) \notin stops
  OBVIOUS
<1>6. /\ m \in 0 .. size - 1 /\ Turn(size, h, m) \in stops
      /\ \A j \in 0 .. m - 1 : Turn(size, h, j) \notin stops
  BY <1>4, <1>5
<1>7. ProbeStop(size, h, stops) = Turn(size, h, m)
  BY <1>5 DEF ProbeStop, Turn
<1> QED BY <1>6, <1>7

\* So many numbers.
LEMMA NumbersCounted ==
    ASSUME NEW n \in Nat
    PROVE  /\ IsFiniteSet(0 .. n - 1) /\ Cardinality(0 .. n - 1) = n
           /\ IsFiniteSet(1 .. n) /\ Cardinality(1 .. n) = n
<1>1. \A a, b \in Int : Cardinality(a .. b) = IF a > b THEN 0 ELSE b - a + 1
  BY FS_Interval, Zenon
<1>2. \A a, b \in Int : IsFiniteSet(a .. b)
  BY FS_Interval, Zenon
<1>3. Cardinality(0 .. n - 1) = n
  BY <1>1
<1>4. Cardinality(1 .. n) = n
  BY <1>1
<1> QED BY <1>2, <1>3, <1>4

\* Entries 1 to n, of these hashes, are in the table: each where its probe gets
\* past no empty slot, no two in one slot.
Indexed(slots, size, hashes, n) ==
    /\ slots \in [0 .. size - 1 -> 0 .. n]
    /\ \A i \in 1 .. n : \E k \in 0 .. size - 1 :
          /\ slots[Turn(size, hashes[i], k)] = i
          /\ \A j \in 0 .. k - 1 : slots[Turn(size, hashes[i], j)] # 0
    /\ \A s, t \in 0 .. size - 1 : slots[s] = slots[t] /\ slots[s] # 0 => s = t

\* Fewer entries than slots leave one empty.
LEMMA SlotLeft ==
    ASSUME NEW size \in Nat, NEW hashes, NEW n \in Nat, NEW slots,
           Indexed(slots, size, hashes, n), n < size
    PROVE  \E s \in 0 .. size - 1 : slots[s] = 0
<1> SUFFICES ASSUME \A s \in 0 .. size - 1 : slots[s] # 0 PROVE FALSE
  OBVIOUS
<1>1. slots \in [0 .. size - 1 -> 1 .. n]
  BY DEF Indexed
<1>2. slots \in Injection(0 .. size - 1, 1 .. n)
  <2>1. \A s, t \in 0 .. size - 1 : slots[s] = slots[t] => s = t
    BY DEF Indexed
  <2> QED BY <1>1, <2>1 DEF Injection, IsInjective
<1>3. /\ IsFiniteSet(0 .. size - 1) /\ Cardinality(0 .. size - 1) = size
      /\ IsFiniteSet(1 .. n) /\ Cardinality(1 .. n) = n
  BY NumbersCounted
<1>4. Cardinality(0 .. size - 1) <= Cardinality(1 .. n)
  BY <1>2, <1>3, FS_Injection
<1> QED BY <1>3, <1>4

\* An entry put into the first empty slot of its probe is in the table with
\* the others.
LEMMA PlacedIndexed ==
    ASSUME NEW size \in Nat, NEW hashes, NEW n \in Nat, NEW slots, NEW h \in Nat,
           Indexed(slots, size, hashes, n), n < size, h = hashes[n + 1],
           \A i \in 1 .. n : hashes[i] \in Nat
    PROVE  Indexed(Placed(slots, size, h, n + 1), size, hashes, n + 1)
<1>1. PICK stops : stops = {s \in DOMAIN slots : slots[s] = 0}
  OBVIOUS
<1>2. slots \in [0 .. size - 1 -> 0 .. n]
  BY DEF Indexed
<1>3. stops = {s \in 0 .. size - 1 : slots[s] = 0}
  BY <1>1, <1>2
<1>4. PICK empty \in stops : TRUE
  BY <1>3, SlotLeft
<1>5. PICK k \in 0 .. size - 1 :
        /\ ProbeStop(size, h, stops) = Turn(size, h, k) /\ Turn(size, h, k) \in stops
        /\ \A j \in 0 .. k - 1 : Turn(size, h, j) \notin stops
  <2>1. stops \subseteq 0 .. size - 1 /\ size \in Nat \ {0}
    BY <1>3
  <2> QED BY <1>4, <2>1, ProbeStops
<1>6. PICK stop : stop = Turn(size, h, k)
  OBVIOUS
<1>7. stop \in 0 .. size - 1 /\ slots[stop] = 0
  BY <1>3, <1>5, <1>6
<1>8. PICK new : new = Placed(slots, size, h, n + 1)
  OBVIOUS
<1>9. /\ new \in [0 .. size - 1 -> 0 .. n + 1] /\ new[stop] = n + 1
      /\ \A s \in 0 .. size - 1 : s # stop => new[s] = slots[s]
  <2>1. new = [slots EXCEPT ![stop] = n + 1]
    BY <1>1, <1>5, <1>6, <1>8 DEF Placed
  <2> QED BY <1>2, <1>7, <2>1
<1>10. ASSUME NEW i \in 1 .. n + 1
       PROVE  \E m \in 0 .. size - 1 :
                 /\ new[Turn(size, hashes[i], m)] = i
                 /\ \A j \in 0 .. m - 1 : new[Turn(size, hashes[i], j)] # 0
  <2>1. CASE i = n + 1
    <3>1. new[Turn(size, hashes[i], k)] = i
      BY <1>6, <1>9, <2>1
    <3>2. ASSUME NEW j \in 0 .. k - 1 PROVE new[Turn(size, hashes[i], j)] # 0
      <4>1. Turn(size, h, j) \in 0 .. size - 1
        <5>1. size \in Nat \ {0} /\ j \in Nat
          OBVIOUS
        <5> QED BY <5>1, ProbeInTable
      <4>2. slots[Turn(size, h, j)] # 0
        BY <1>3, <1>5, <4>1
      <4>3. Turn(size, h, j) # stop
        BY <1>7, <4>2
      <4> QED BY <1>9, <2>1, <4>1, <4>2, <4>3
    <3> QED BY <3>1, <3>2
  <2>2. CASE i \in 1 .. n
    <3>1. PICK m \in 0 .. size - 1 :
            /\ slots[Turn(size, hashes[i], m)] = i
            /\ \A j \in 0 .. m - 1 : slots[Turn(size, hashes[i], j)] # 0
      BY <2>2 DEF Indexed
    <3>2. ASSUME NEW j \in 0 .. m PROVE Turn(size, hashes[i], j) \in 0 .. size - 1
      <4>1. size \in Nat \ {0} /\ j \in Nat /\ hashes[i] \in Nat
        BY <2>2
      <4> QED BY <4>1, ProbeInTable
    <3>3. \A j \in 0 .. m : slots[Turn(size, hashes[i], j)] # 0
      <4>1. \A j \in 0 .. m : j \in 0 .. m - 1 \/ j = m
        OBVIOUS
      <4> QED BY <2>2, <3>1, <4>1
    <3>4. \A j \in 0 .. m : new[Turn(size, hashes[i], j)] = slots[Turn(size, hashes[i], j)]
      BY <1>7, <1>9, <3>2, <3>3
    <3> QED BY <3>1, <3>3, <3>4
  <2>3. i = n + 1 \/ i \in 1 .. n
    OBVIOUS
  <2> QED BY <2>1, <2>2, <2>3
<1>11. \A s, t \in 0 .. size - 1 : new[s] = new[t] /\ new[s] # 0 => s = t
  <2>1. \A s \in 0 .. size - 1 : slots[s] # n + 1
    BY <1>2
  <2>2. \A s, t \in 0 .. size - 1 : slots[s] = slots[t] /\ slots[s] # 0 => s = t
    BY DEF Indexed
  <2> QED BY <1>9, <2>1, <2>2
<1>12. Indexed(new, size, hashes, n + 1)
  <2>1. \A i \in 1 .. n + 1 : \E m \in 0 .. size - 1 :
            /\ new[Turn(size, hashes[i], m)] = i
            /\ \A j \in 0 .. m - 1 : new[Turn(size, hashes[i], j)] # 0
    BY <1>10
  <2>2. new \in [0 .. size - 1 -> 0 .. n + 1]
    BY <1>9
  <2> QED BY <1>11, <2>1, <2>2 DEF Indexed
<1> QED BY <1>8, <1>12

\* A new table has its entries.
LEMMA FilledIndexed ==
    ASSUME NEW size \in Nat, NEW hashes, Len(hashes) \in Nat, Len(hashes) < size,
           \A i \in 1 .. Len(hashes) : hashes[i] \in Nat
    PROVE  Indexed(Filled(size, hashes), size, hashes, Len(hashes))
<1> DEFINE Next(table, i) ==
               IF i = 0 THEN EmptySlots(size) ELSE Placed(table[i - 1], size, hashes[i], i)
           Up(n, table) == /\ table = [i \in 0 .. n |-> Next(table, i)]
                           /\ \A i \in 0 .. n : Indexed(table[i], size, hashes, i)
           S == {n \in Nat : n <= Len(hashes) => \E table : Up(n, table)}
<1>1. 0 \in S
  <2>1. PICK table : table = [i \in 0 .. 0 |-> EmptySlots(size)]
    OBVIOUS
  <2>2. table = [i \in 0 .. 0 |-> Next(table, i)]
    <3>1. \A i \in 0 .. 0 : Next(table, i) = EmptySlots(size)
      OBVIOUS
    <3> QED BY <2>1, <3>1
  <2>3. Indexed(EmptySlots(size), size, hashes, 0)
    BY DEF Indexed, EmptySlots
  <2>4. \A i \in 0 .. 0 : Indexed(table[i], size, hashes, i)
    BY <2>1, <2>3
  <2> QED BY <2>2, <2>4
<1>2. ASSUME NEW n \in Nat, n \in S PROVE n + 1 \in S
  <2> SUFFICES ASSUME n + 1 <= Len(hashes) PROVE \E table : Up(n + 1, table)
    OBVIOUS
  <2>1. PICK old : Up(n, old)
    BY <1>2
  <2>2. PICK last : last = Placed(old[n], size, hashes[n + 1], n + 1)
    OBVIOUS
  <2>3. PICK table : table = [i \in 0 .. n + 1 |-> IF i = n + 1 THEN last ELSE old[i]]
    OBVIOUS
  <2>4. \A i \in 0 .. n : table[i] = old[i]
    BY <2>3
  <2>5. table[n + 1] = last
    BY <2>3
  <2>6. ASSUME NEW i \in 0 .. n + 1 PROVE table[i] = Next(table, i)
    <3>1. CASE i = n + 1
      <4>1. table[i - 1] = old[n] /\ i # 0
        BY <2>4, <3>1
      <4> QED BY <2>2, <2>5, <3>1, <4>1
    <3>2. CASE i \in 0 .. n
      <4>1. old[i] = Next(old, i)
        BY <2>1, <3>2
      <4>2. i = 0 \/ i - 1 \in 0 .. n
        BY <3>2
      <4>3. Next(table, i) = Next(old, i)
        BY <2>4, <4>2
      <4> QED BY <2>4, <3>2, <4>1, <4>3
    <3>3. i = n + 1 \/ i \in 0 .. n
      OBVIOUS
    <3> QED BY <3>1, <3>2, <3>3
  <2>7. Indexed(last, size, hashes, n + 1)
    <3>1. Indexed(old[n], size, hashes, n)
      BY <2>1
    <3>2. hashes[n + 1] \in Nat /\ n < size /\ \A i \in 1 .. n : hashes[i] \in Nat
      OBVIOUS
    <3> QED BY <2>2, <3>1, <3>2, PlacedIndexed
  <2>8. ASSUME NEW i \in 0 .. n + 1 PROVE Indexed(table[i], size, hashes, i)
    <3>1. CASE i = n + 1
      BY <2>5, <2>7, <3>1
    <3>2. CASE i \in 0 .. n
      BY <2>1, <2>4, <3>2
    <3>3. i = n + 1 \/ i \in 0 .. n
      OBVIOUS
    <3> QED BY <3>1, <3>2, <3>3
  <2>9. table = [i \in 0 .. n + 1 |-> Next(table, i)]
    BY <2>3, <2>6
  <2> QED BY <2>8, <2>9
<1>3. Nat \subseteq S
  <2> HIDE DEF S
  <2> QED BY <1>1, <1>2, NatInSet
<1>4. \E table : Up(Len(hashes), table)
  BY <1>3
<1>5. PICK filled : filled = CHOOSE table : table = [i \in 0 .. Len(hashes) |-> Next(table, i)]
  OBVIOUS
<1>6. filled = [i \in 0 .. Len(hashes) |-> Next(filled, i)]
  BY <1>4, <1>5
<1>7. PICK table : Up(Len(hashes), table)
  BY <1>4
<1>8. \A i \in 0 .. Len(hashes) : filled[i] = table[i]
  <2> DEFINE E == {n \in Nat : n <= Len(hashes) => filled[n] = table[n]}
  <2>1. 0 \in E
    BY <1>6, <1>7
  <2>2. ASSUME NEW n \in Nat, n \in E PROVE n + 1 \in E
    <3> SUFFICES ASSUME n + 1 <= Len(hashes) PROVE filled[n + 1] = table[n + 1]
      OBVIOUS
    <3>1. filled[n] = table[n]
      BY <2>2
    <3>2. filled[n + 1] = Next(filled, n + 1) /\ table[n + 1] = Next(table, n + 1)
      BY <1>6, <1>7
    <3> QED BY <3>1, <3>2
  <2>3. Nat \subseteq E
    <3> HIDE DEF E
    <3> QED BY <2>1, <2>2, NatInSet
  <2> QED BY <2>3
<1>9. Filled(size, hashes) = filled[Len(hashes)]
  BY <1>5 DEF Filled
<1>10. Len(hashes) \in 0 .. Len(hashes)
  OBVIOUS
<1> QED BY <1>7, <1>8, <1>9, <1>10

\* The entries that are wanted have this hash.
OfHash(wanted, hashes, n, h) == \A i \in wanted : i \in 1 .. n /\ hashes[i] = h

\* A probe for the wanted entries stops at them and at the empty slots.
StopsFor(stops, slots, wanted) ==
    /\ stops \subseteq DOMAIN slots
    /\ \A s \in DOMAIN slots : s \in stops <=> slots[s] = 0 \/ slots[s] \in wanted

\* A lookup finds an entry that is wanted, and an empty slot only when none of
\* the entries is.
LEMMA LookupRight ==
    ASSUME NEW size \in Nat, NEW hashes, NEW n \in Nat, NEW slots, NEW h \in Nat,
           NEW wanted, NEW stops, NEW stop,
           Indexed(slots, size, hashes, n), n < size, OfHash(wanted, hashes, n, h),
           StopsFor(stops, slots, wanted), stop = ProbeStop(size, h, stops)
    PROVE  /\ slots[stop] = 0 \/ slots[stop] \in wanted
           /\ slots[stop] = 0 => \A i \in wanted : FALSE
<1> USE DEF OfHash, StopsFor
<1>1. slots \in [0 .. size - 1 -> 0 .. n]
  BY DEF Indexed
<1>2. stops \subseteq 0 .. size - 1
  BY <1>1
<1>3. PICK empty \in stops : TRUE
  BY <1>1, SlotLeft
<1>4. PICK k \in 0 .. size - 1 :
        /\ ProbeStop(size, h, stops) = Turn(size, h, k) /\ Turn(size, h, k) \in stops
        /\ \A j \in 0 .. k - 1 : Turn(size, h, j) \notin stops
  <2>1. size \in Nat \ {0}
    BY <1>2, <1>3
  <2> QED BY <1>2, <1>3, <2>1, ProbeStops
<1>5. PICK found : found = slots[Turn(size, h, k)]
  OBVIOUS
<1>6. found = 0 \/ found \in wanted
  BY <1>4, <1>5
<1>7. ASSUME NEW i \in wanted, found = 0 PROVE FALSE
  <2>1. i \in 1 .. n /\ hashes[i] = h
    OBVIOUS
  <2>2. PICK m \in 0 .. size - 1 :
          /\ slots[Turn(size, h, m)] = i
          /\ \A j \in 0 .. m - 1 : slots[Turn(size, h, j)] # 0
    <3>1. PICK m \in 0 .. size - 1 :
            /\ slots[Turn(size, hashes[i], m)] = i
            /\ \A j \in 0 .. m - 1 : slots[Turn(size, hashes[i], j)] # 0
      BY <2>1 DEF Indexed
    <3> QED BY <2>1, <3>1
  <2>3. Turn(size, h, m) \in stops
    <3>1. size \in Nat \ {0} /\ m \in Nat
      OBVIOUS
    <3>2. Turn(size, h, m) \in 0 .. size - 1
      BY <3>1, ProbeInTable
    <3> QED BY <1>1, <2>2, <3>2
  <2>4. ~(m < k)
    BY <1>4, <2>3
  <2>5. ~(k < m)
    <3>1. slots[Turn(size, h, k)] = 0
      BY <1>5, <1>7
    <3>2. k < m => k \in 0 .. m - 1
      OBVIOUS
    <3> QED BY <2>2, <3>1, <3>2
  <2>6. m = k
    BY <2>4, <2>5
  <2>7. slots[Turn(size, h, k)] = i
    BY <2>2, <2>6
  <2>8. i = 0
    BY <1>5, <1>7, <2>7
  <2>9. i \in 1 .. n
    BY <2>1
  <2> QED BY <2>8, <2>9
<1>8. ProbeStop(size, h, stops) = Turn(size, h, k)
  BY <1>4
<1> QED BY <1>5, <1>6, <1>7, <1>8

-----------------------------------------------------------------------------
(* The table of the exact rows. *)
\* A table of rows: at most half full, its entries under distinct doubles,
\* each found by its hash.
RowTable(R) ==
    /\ R = [entries |-> R.entries, slots |-> R.slots, slot_count |-> R.slot_count]
    /\ R.entries = [i \in 1 .. Len(R.entries) |-> R.entries[i]] /\ Len(R.entries) \in Nat
    /\ \A i \in 1 .. Len(R.entries) :
          /\ R.entries[i].d \in Doubles
          /\ R.entries[i] = [d |-> R.entries[i].d, x |-> R.entries[i].x,
                             rounded |-> R.entries[i].rounded]
    /\ \A i, j \in 1 .. Len(R.entries) : R.entries[i].d = R.entries[j].d => i = j
    /\ R.slot_count \in Nat /\ 2 * Len(R.entries) <= R.slot_count
    /\ Indexed(R.slots, R.slot_count, Hashes(R.entries), Len(R.entries))

\* The hashes of the entries.
LEMMA EntryHashes ==
    ASSUME NEW R, RowTable(R)
    PROVE  /\ Len(Hashes(R.entries)) = Len(R.entries)
           /\ \A i \in 1 .. Len(R.entries) :
                 Hashes(R.entries)[i] = DoublesHash[R.entries[i].d] /\ Hashes(R.entries)[i] \in Nat
<1>1. PICK n \in Nat : n = Len(R.entries)
  BY DEF RowTable
<1>2. DOMAIN R.entries = 1 .. n /\ \A i \in 1 .. n : R.entries[i].d \in Doubles
  BY <1>1 DEF RowTable
<1>3. \A d \in Doubles : DoublesHash[d] \in Nat
  BY RowAssumption
<1>4. PICK list : list = [i \in 1 .. n |-> DoublesHash[R.entries[i].d]]
  OBVIOUS
<1>5. Hashes(R.entries) = list
  BY <1>2, <1>4 DEF Hashes
<1>6. Len(list) = n
  BY <1>4
<1>7. \A i \in 1 .. n : list[i] = DoublesHash[R.entries[i].d] /\ list[i] \in Nat
  BY <1>2, <1>3, <1>4
<1> QED BY <1>1, <1>5, <1>6, <1>7

\* row_cache_find finds the entry of its doubles, if there is one.
LEMMA FindRight ==
    ASSUME NEW R, RowTable(R), NEW d \in Doubles
    PROVE  /\ Find(R, d) \in 0 .. Len(R.entries)
           /\ Find(R, d) # 0 => R.entries[Find(R, d)].d = d
           /\ Find(R, d) = 0 => \A i \in 1 .. Len(R.entries) : R.entries[i].d # d
<1>1. PICK n \in Nat : n = Len(R.entries)
  BY DEF RowTable
<1>2. CASE R.slot_count = 0
  <2>1. n = 0
    BY <1>1, <1>2 DEF RowTable
  <2>2. Find(R, d) = 0
    BY <1>2 DEF Find
  <2> QED BY <1>1, <2>1, <2>2
<1>3. CASE R.slot_count # 0
  <2>1. PICK wanted : wanted = {i \in 1 .. n : R.entries[i].d = d}
    OBVIOUS
  <2>2. PICK stops : stops = {s \in DOMAIN R.slots : R.slots[s] = 0 \/ R.slots[s] \in wanted}
    OBVIOUS
  <2>3. PICK size \in Nat : size = R.slot_count /\ 2 * n <= size /\ size # 0
    BY <1>1, <1>3 DEF RowTable
  <2>4. n < size
    BY <2>3
  <2>5. Indexed(R.slots, size, Hashes(R.entries), n)
    BY <1>1, <2>3 DEF RowTable
  <2>6. PICK h \in Nat : h = DoublesHash[d]
    BY RowAssumption
  <2>7. \A i \in wanted : i \in 1 .. n /\ Hashes(R.entries)[i] = h
    BY <1>1, <2>1, <2>6, EntryHashes
  <2>8. {s \in DOMAIN R.slots : R.slots[s] = 0 \/ R.entries[R.slots[s]].d = d} = stops
    <3>1. \A s \in DOMAIN R.slots : R.slots[s] \in 0 .. n
      BY <2>5 DEF Indexed
    <3>2. \A s \in DOMAIN R.slots :
            R.slots[s] # 0 => (R.slots[s] \in wanted <=> R.entries[R.slots[s]].d = d)
      BY <2>1, <3>1
    <3> QED BY <2>2, <3>2
  <2>9. PICK found : found = R.slots[ProbeStop(size, h, stops)]
    OBVIOUS
  <2>10. IF wanted = {} THEN found = 0 ELSE found \in wanted
    <3>1. PICK hashes : hashes = Hashes(R.entries)
      OBVIOUS
    <3>2. PICK slots : slots = R.slots
      OBVIOUS
    <3>3. Indexed(slots, size, hashes, n) /\ \A i \in wanted : i \in 1 .. n /\ hashes[i] = h
      BY <2>5, <2>7, <3>1, <3>2
    <3>4. StopsFor(stops, slots, wanted)
      BY <2>2, <3>2 DEF StopsFor
    <3>5. OfHash(wanted, hashes, n, h)
      BY <3>3 DEF OfHash
    <3>6. PICK stop : stop = ProbeStop(size, h, stops)
      OBVIOUS
    <3>7. Indexed(slots, size, hashes, n)
      BY <3>3
    <3>8. slots[stop] = 0 \/ slots[stop] \in wanted
      BY ONLY size \in Nat, n \in Nat, h \in Nat, <2>4, <3>4, <3>5, <3>6, <3>7, LookupRight
    <3>9. slots[stop] = 0 => \A i \in wanted : FALSE
      BY ONLY size \in Nat, n \in Nat, h \in Nat, <2>4, <3>4, <3>5, <3>6, <3>7, LookupRight
    <3>10. 0 \notin wanted
      BY <2>1
    <3> QED BY <2>9, <3>2, <3>6, <3>8, <3>9, <3>10
  <2>11. Find(R, d) = found
    BY <1>3, <2>3, <2>6, <2>8, <2>9 DEF Find
  <2> QED BY <1>1, <2>1, <2>10, <2>11
<1> QED BY <1>2, <1>3

\* A table that would be more than half full is doubled, with the same entries.
LEMMA GrownTable ==
    ASSUME NEW R, RowTable(R)
    PROVE  /\ RowTable(Grown(R)) /\ Grown(R).entries = R.entries
           /\ 2 * (Len(R.entries) + 1) <= Grown(R).slot_count
<1>1. PICK n \in Nat : n = Len(R.entries)
  BY DEF RowTable
<1>2. PICK old \in Nat : old = R.slot_count /\ 2 * n <= old
  BY <1>1 DEF RowTable
<1>3. CASE ~MustGrow(R)
  BY <1>1, <1>2, <1>3 DEF Grown, MustGrow
<1>4. CASE MustGrow(R)
  <2>1. PICK size : size = IF old = 0 THEN FirstSlots ELSE 2 * old
    OBVIOUS
  <2>2. size \in Nat /\ 2 * (n + 1) <= size
    <3>1. FirstSlots \in Nat \ {0, 1}
      BY RowAssumption
    <3> QED BY <1>2, <2>1, <3>1
  <2>3. PICK filled : filled = Filled(size, Hashes(R.entries))
    OBVIOUS
  <2>4. PICK new : new = [R EXCEPT !.slots = filled, !.slot_count = size]
    OBVIOUS
  <2>5. Grown(R) = new
    BY <1>2, <1>4, <2>1, <2>3, <2>4 DEF Grown
  <2>6. new = [entries |-> R.entries, slots |-> filled, slot_count |-> size]
    BY <2>4 DEF RowTable
  <2>7. new.entries = R.entries /\ new.slots = filled /\ new.slot_count = size
    BY <2>6
  <2>8. Indexed(filled, size, Hashes(R.entries), n)
    <3>1. PICK hashes : hashes = Hashes(R.entries)
      OBVIOUS
    <3>2. Len(hashes) = n /\ \A i \in 1 .. Len(hashes) : hashes[i] \in Nat
      BY <1>1, <3>1, EntryHashes
    <3>3. Len(hashes) \in Nat /\ Len(hashes) < size
      BY <2>2, <3>2
    <3> QED BY <2>2, <2>3, <3>1, <3>2, <3>3, FilledIndexed
  <2>9. RowTable(new)
    BY <1>1, <2>2, <2>6, <2>7, <2>8 DEF RowTable
  <2> QED BY <1>1, <2>2, <2>5, <2>7, <2>9
<1> QED BY <1>3, <1>4

\* A table with room takes one more entry at its end.
LEMMA StoredTable ==
    ASSUME NEW R, NEW d \in Doubles, NEW x, NEW rounded, NEW new,
           RowTable(R), 2 * (Len(R.entries) + 1) <= R.slot_count,
           \A i \in 1 .. Len(R.entries) : R.entries[i].d # d,
           new = Stored(R, d, x, rounded)
    PROVE  /\ RowTable(new) /\ Len(new.entries) = Len(R.entries) + 1
           /\ \A i \in 1 .. Len(R.entries) : new.entries[i] = R.entries[i]
           /\ new.entries[Len(R.entries) + 1] = [d |-> d, x |-> x, rounded |-> rounded]
<1>1. PICK n \in Nat : n = Len(R.entries)
  BY DEF RowTable
<1>2. PICK size \in Nat : size = R.slot_count
  BY DEF RowTable
<1>3. 2 * (n + 1) <= size
  BY <1>1, <1>2
<1>4. PICK e : e = [d |-> d, x |-> x, rounded |-> rounded]
  OBVIOUS
<1>5. PICK f : f = [i \in 1 .. n + 1 |-> IF i <= n THEN R.entries[i] ELSE e]
  OBVIOUS
<1>6. PICK old : old = R.entries
  OBVIOUS
<1>7. old = [i \in 1 .. n |-> f[i]]
  <2>1. old = [i \in 1 .. n |-> R.entries[i]]
    BY <1>1, <1>6 DEF RowTable
  <2>2. \A i \in 1 .. n : f[i] = R.entries[i]
    BY <1>5
  <2> QED BY <2>1, <2>2
<1>8. PICK entries : entries = Append(old, e)
  OBVIOUS
<1>9. entries = [i \in 1 .. (n + 1) |-> f[i]]
  <2>1. f[n + 1] = e
    BY <1>5
  <2>2. Append(old, f[n + 1]) = [i \in 1 .. (n + 1) |-> f[i]]
    BY <1>7, SeqOfEntries
  <2> QED BY <1>8, <2>1, <2>2
<1>10. Len(entries) = n + 1 /\ DOMAIN entries = 1 .. n + 1
  BY <1>9
<1>11. \A i \in 1 .. n : entries[i] = R.entries[i]
  BY <1>5, <1>9
<1>12. entries[n + 1] = e
  BY <1>5, <1>9
<1>13. PICK slots : slots = Placed(R.slots, size, DoublesHash[d], n + 1)
  OBVIOUS
<1>14. new = [R EXCEPT !.entries = entries, !.slots = slots]
  BY <1>1, <1>2, <1>4, <1>6, <1>8, <1>13 DEF Stored
<1>15. new = [entries |-> entries, slots |-> slots, slot_count |-> size]
  BY <1>2, <1>14 DEF RowTable
<1>16. new.entries = entries /\ new.slots = slots /\ new.slot_count = size
  BY <1>15
<1>17. PICK hashes : hashes = Hashes(entries)
  OBVIOUS
<1>18. \A i \in 1 .. n + 1 : hashes[i] = DoublesHash[entries[i].d]
  BY <1>10, <1>17 DEF Hashes
<1>19. \A i \in 1 .. n : hashes[i] = Hashes(R.entries)[i] /\ hashes[i] \in Nat
  BY <1>1, <1>11, <1>18, EntryHashes
<1>20. hashes[n + 1] = DoublesHash[d]
  BY <1>4, <1>12, <1>18
<1>21. Indexed(R.slots, size, hashes, n)
  <2>1. Indexed(R.slots, size, Hashes(R.entries), n)
    BY <1>1, <1>2 DEF RowTable
  <2>2. PICK before : before = Hashes(R.entries)
    OBVIOUS
  <2>3. PICK table : table = R.slots
    OBVIOUS
  <2>4. Indexed(table, size, before, n)
    BY <2>1, <2>2, <2>3
  <2>5. \A i \in 1 .. n : hashes[i] = before[i]
    BY <1>19, <2>2
  <2>6. ASSUME NEW i \in 1 .. n
        PROVE  \E k \in 0 .. size - 1 :
                  /\ table[Turn(size, hashes[i], k)] = i
                  /\ \A j \in 0 .. k - 1 : table[Turn(size, hashes[i], j)] # 0
    <3>1. \E k \in 0 .. size - 1 :
                  /\ table[Turn(size, before[i], k)] = i
                  /\ \A j \in 0 .. k - 1 : table[Turn(size, before[i], j)] # 0
      BY <2>4 DEF Indexed
    <3> QED BY <2>5, <3>1
  <2>7. Indexed(table, size, hashes, n)
    BY <2>4, <2>6 DEF Indexed
  <2> QED BY <2>3, <2>7
<1>22. Indexed(slots, size, hashes, n + 1)
  <2>1. PICK h \in Nat : h = DoublesHash[d]
    BY RowAssumption
  <2>2. n < size
    BY <1>3
  <2>3. h = hashes[n + 1]
    BY <1>20, <2>1
  <2>4. \A i \in 1 .. n : hashes[i] \in Nat
    BY <1>19
  <2>5. PICK before : before = R.slots
    OBVIOUS
  <2>6. Indexed(before, size, hashes, n)
    BY <1>21, <2>5
  <2>7. Indexed(Placed(before, size, h, n + 1), size, hashes, n + 1)
    BY ONLY size \in Nat, n \in Nat, h \in Nat, <2>2, <2>3, <2>4, <2>6, PlacedIndexed
  <2> QED BY <1>13, <2>1, <2>5, <2>7
<1>23. RowTable(new)
  <2>1. new = [entries |-> new.entries, slots |-> new.slots, slot_count |-> new.slot_count]
    BY <1>15, <1>16
  <2>2. entries = [i \in 1 .. Len(entries) |-> entries[i]] /\ Len(entries) \in Nat
    BY <1>9, <1>10
  <2>3. \A i \in 1 .. n + 1 : i \in 1 .. n \/ i = n + 1
    OBVIOUS
  <2>4. ASSUME NEW i \in 1 .. n + 1
        PROVE  /\ entries[i].d \in Doubles
               /\ entries[i] = [d |-> entries[i].d, x |-> entries[i].x,
                                rounded |-> entries[i].rounded]
    <3>1. CASE i \in 1 .. n
      BY <1>1, <1>11, <3>1 DEF RowTable
    <3>2. CASE i = n + 1
      BY <1>4, <1>12, <3>2
    <3> QED BY <2>3, <3>1, <3>2
  <2>5. ASSUME NEW i \in 1 .. n + 1, NEW j \in 1 .. n + 1, entries[i].d = entries[j].d
        PROVE  i = j
    <3>1. entries[n + 1].d = d
      BY <1>4, <1>12
    <3>2. \A k \in 1 .. n : entries[k].d = R.entries[k].d /\ entries[k].d # d
      BY <1>1, <1>11
    <3>3. CASE i \in 1 .. n /\ j \in 1 .. n
      <4>1. R.entries[i].d = R.entries[j].d
        BY <2>5, <3>2, <3>3
      <4> QED BY <1>1, <3>3, <4>1 DEF RowTable
    <3>4. CASE ~(i \in 1 .. n /\ j \in 1 .. n)
      BY <2>3, <2>5, <3>1, <3>2, <3>4
    <3> QED BY <3>3, <3>4
  <2>6. Indexed(slots, size, Hashes(entries), Len(entries))
    BY <1>10, <1>17, <1>22
  <2> QED BY <1>3, <1>10, <1>16, <2>1, <2>2, <2>4, <2>5, <2>6 DEF RowTable
<1> QED BY <1>1, <1>4, <1>10, <1>11, <1>12, <1>16, <1>23

-----------------------------------------------------------------------------
(* What the doubles put so far mean: P holds a pair <<d, x>> for every put of
   the doubles d of a subspace x.  An entry stands for a subspace put under
   its doubles, or for none when two were; unless memory ran out (lost), every
   put left an entry. *)
RoundedFor(d, x) == IF d = Orthogonal[x] THEN NoDoubles ELSE Orthogonal[x]

Stands(e, P) ==
    /\ e.x # None => <<e.d, e.x>> \in P /\ e.rounded = RoundedFor(e.d, e.x)
    /\ e.x = None => \E x, y : x # y /\ <<e.d, x>> \in P /\ <<e.d, y>> \in P

Answers(e, d, x) == e.d = d /\ e.x \in {x, None}

\* One more put.
Adds(Q, P, put) == P \subseteq Q /\ put \in Q /\ \A stored \in Q : stored \in P \/ stored = put

Holds(R, P, lost) ==
    /\ RowTable(R)
    /\ \A i \in 1 .. Len(R.entries) : Stands(R.entries[i], P)
    /\ ~lost => \A d \in Doubles, x \in Subspaces :
                   <<d, x>> \in P => \E i \in 1 .. Len(R.entries) : Answers(R.entries[i], d, x)

\* More puts leave what an entry stands for.
LEMMA StandsStill ==
    ASSUME NEW e, NEW P, NEW Q, Stands(e, P), P \subseteq Q
    PROVE  Stands(e, Q)
BY DEF Stands

\* No subspace is None.
LEMMA NoneIsNoSubspace ==
    ASSUME NEW x \in Subspaces
    PROVE  x # None
<1>1. PICK m \in Moduli, b \in Bases : x = <<m, b>>
  BY DEF Subspaces
<1>2. m # 0
  BY FieldAssumption
<1> QED BY <1>1, <1>2 DEF None

\* Doubles that are known already: the other subspace makes them undecidable.
LEMMA MarkHolds ==
    ASSUME NEW R, NEW P, NEW lost, NEW Q, NEW after, Holds(R, P, lost), NEW i \in 1 .. Len(R.entries),
           NEW x \in Subspaces, NEW new, new = MarkKnown(R, i, x),
           P \subseteq Q, \A stored \in Q : stored \in P \/ stored = <<R.entries[i].d, x>>,
           <<R.entries[i].d, x>> \in Q, lost => after
    PROVE  Holds(new, Q, after)
<1>1. PICK n \in Nat : n = Len(R.entries)
  BY DEF Holds, RowTable
<1>2. RowTable(R) /\ \A j \in 1 .. n : Stands(R.entries[j], P)
  BY <1>1 DEF Holds
<1>3. x # None
  BY NoneIsNoSubspace
<1>4. i \in 1 .. n
  BY <1>1
<1>5. PICK e : e = IF R.entries[i].x = x THEN R.entries[i]
                   ELSE [d |-> R.entries[i].d, x |-> None, rounded |-> R.entries[i].rounded]
  OBVIOUS
<1>6. PICK entries : entries = [R.entries EXCEPT ![i] = e]
  OBVIOUS
<1>7. /\ entries = [j \in 1 .. n |-> entries[j]] /\ Len(entries) = n /\ entries[i] = e
      /\ \A j \in 1 .. n : j # i => entries[j] = R.entries[j]
  <2>1. PICK f : f = R.entries
    OBVIOUS
  <2>2. f = [j \in 1 .. n |-> f[j]]
    BY <1>1, <1>2, <2>1 DEF RowTable
  <2>3. entries = [j \in 1 .. n |-> IF j = i THEN e ELSE f[j]]
    BY <1>4, <1>6, <2>1, <2>2
  <2> QED BY <1>4, <2>1, <2>3
<1>8. new = [entries |-> entries, slots |-> R.slots, slot_count |-> R.slot_count]
  <2>1. R = [entries |-> R.entries, slots |-> R.slots, slot_count |-> R.slot_count]
    BY <1>2 DEF RowTable
  <2>2. R.entries[i] = [d |-> R.entries[i].d, x |-> R.entries[i].x, rounded |-> R.entries[i].rounded]
    BY <1>1, <1>2 DEF RowTable
  <2>3. CASE R.entries[i].x = x
    <3>1. new = R /\ e = R.entries[i]
      BY <1>5, <2>3 DEF MarkKnown
    <3>2. entries = R.entries
      <4>1. PICK f : f = R.entries
        OBVIOUS
      <4>2. f = [j \in 1 .. n |-> f[j]]
        BY <1>1, <1>2, <4>1 DEF RowTable
      <4> QED BY <1>4, <1>6, <3>1, <4>1, <4>2
    <3> QED BY <2>1, <3>1, <3>2
  <2>4. CASE R.entries[i].x # x
    <3>1. e = [R.entries[i] EXCEPT !.x = None]
      BY <1>5, <2>2, <2>4
    <3>2. new = [R EXCEPT !.entries = [R.entries EXCEPT ![i] = [R.entries[i] EXCEPT !.x = None]]]
      BY <2>4 DEF MarkKnown
    <3>3. new = [R EXCEPT !.entries = entries]
      BY <1>6, <3>1, <3>2
    <3> QED BY <2>1, <3>3
  <2> QED BY <2>3, <2>4
<1>9. new.entries = entries /\ new.slots = R.slots /\ new.slot_count = R.slot_count
  BY <1>8
<1>10. e.d = R.entries[i].d /\ (e.x = None \/ (e = R.entries[i] /\ e.x = x))
  BY <1>5
<1>11. \A j \in 1 .. n : entries[j].d = R.entries[j].d
  BY <1>7, <1>10
<1>12. RowTable(new)
  <2>1. new = [entries |-> new.entries, slots |-> new.slots, slot_count |-> new.slot_count]
    BY <1>8, <1>9
  <2>2. ASSUME NEW j \in 1 .. n
        PROVE  /\ entries[j].d \in Doubles
               /\ entries[j] = [d |-> entries[j].d, x |-> entries[j].x,
                                rounded |-> entries[j].rounded]
    <3>1. /\ R.entries[j].d \in Doubles
          /\ R.entries[j] = [d |-> R.entries[j].d, x |-> R.entries[j].x,
                                rounded |-> R.entries[j].rounded]
      BY <1>1, <1>2 DEF RowTable
    <3>2. CASE j = i
      BY <1>5, <1>7, <3>1, <3>2
    <3>3. CASE j # i
      BY <1>7, <3>1, <3>3
    <3> QED BY <3>2, <3>3
  <2>3. \A j, k \in 1 .. n : entries[j].d = entries[k].d => j = k
    BY <1>1, <1>2, <1>11 DEF RowTable
  <2>4. PICK hashes : hashes = Hashes(R.entries)
    OBVIOUS
  <2>5. Hashes(entries) = hashes
    <3>1. DOMAIN R.entries = 1 .. n /\ DOMAIN entries = 1 .. n
      BY <1>1, <1>2, <1>7 DEF RowTable
    <3> QED BY <1>11, <2>4, <3>1 DEF Hashes
  <2>6. Indexed(R.slots, R.slot_count, Hashes(entries), n)
    BY <1>1, <1>2, <2>4, <2>5 DEF RowTable
  <2>7. R.slot_count \in Nat /\ 2 * n <= R.slot_count
    BY <1>1, <1>2 DEF RowTable
  <2> QED BY <1>1, <1>7, <1>9, <2>1, <2>2, <2>3, <2>6, <2>7 DEF RowTable
<1>13. Stands(e, Q)
  <2>1. Stands(R.entries[i], P)
    BY <1>2, <1>4
  <2>2. Stands(R.entries[i], Q)
    BY <2>1, StandsStill
  <2>3. CASE e = R.entries[i]
    BY <2>2, <2>3
  <2>4. CASE R.entries[i].x # x
    <3>1. e.x = None /\ e.d = R.entries[i].d
      BY <1>5, <2>4
    <3>2. \E a, b : a # b /\ <<e.d, a>> \in Q /\ <<e.d, b>> \in Q
      <4>1. CASE R.entries[i].x = None
        BY <2>2, <3>1, <4>1 DEF Stands
      <4>2. CASE R.entries[i].x # None
        <5>1. <<e.d, R.entries[i].x>> \in Q
          BY <2>2, <3>1, <4>2 DEF Stands
        <5> QED BY <2>4, <3>1, <5>1
      <4> QED BY <4>1, <4>2
    <3> QED BY <3>1, <3>2 DEF Stands
  <2> QED BY <1>5, <2>3, <2>4
<1>14. \A j \in 1 .. n : Stands(entries[j], Q)
  <2>1. \A j \in 1 .. n : Stands(R.entries[j], Q)
    BY <1>2, StandsStill
  <2> QED BY <1>7, <1>13, <2>1
<1>15. ~after => \A d \in Doubles, y \in Subspaces :
          <<d, y>> \in Q => \E j \in 1 .. n : Answers(entries[j], d, y)
  <2> SUFFICES ASSUME ~after, NEW d \in Doubles, NEW y \in Subspaces, <<d, y>> \in Q
               PROVE  \E j \in 1 .. n : Answers(entries[j], d, y)
    OBVIOUS
  <2>1. CASE <<d, y>> \in P
    <3>1. PICK j \in 1 .. n : Answers(R.entries[j], d, y)
      BY <1>1, <2>1 DEF Holds
    <3>2. CASE j # i
      BY <1>7, <3>1, <3>2
    <3>3. CASE j = i
      BY <1>7, <1>10, <3>1, <3>3 DEF Answers
    <3> QED BY <3>2, <3>3
  <2>2. CASE <<d, y>> = <<R.entries[i].d, x>>
    <3>1. d = R.entries[i].d /\ y = x
      BY <2>2
    <3>2. Answers(entries[i], d, y)
      BY <1>7, <1>10, <3>1 DEF Answers
    <3> QED BY <1>4, <3>2
  <2> QED BY <2>1, <2>2
<1> QED BY <1>7, <1>9, <1>12, <1>14, <1>15 DEF Holds

\* Doubles that are new to the table get an entry, in a table with room.
LEMMA StoreHolds ==
    ASSUME NEW R, NEW P, NEW lost, NEW Q, NEW after, NEW d \in Doubles, NEW x \in Subspaces,
           NEW new, Holds(R, P, lost), 2 * (Len(R.entries) + 1) <= R.slot_count,
           \A i \in 1 .. Len(R.entries) : R.entries[i].d # d,
           new = Stored(R, d, x, RoundedFor(d, x)),
           P \subseteq Q, \A stored \in Q : stored \in P \/ stored = <<d, x>>,
           <<d, x>> \in Q, lost => after
    PROVE  Holds(new, Q, after)
<1>1. PICK n \in Nat : n = Len(R.entries)
  BY DEF Holds, RowTable
<1>2. RowTable(R) /\ \A i \in 1 .. n : Stands(R.entries[i], P)
  BY <1>1 DEF Holds
<1>3. PICK e : e = [d |-> d, x |-> x, rounded |-> RoundedFor(d, x)]
  OBVIOUS
<1>4. /\ RowTable(new) /\ Len(new.entries) = n + 1
      /\ \A i \in 1 .. n : new.entries[i] = R.entries[i]
      /\ new.entries[n + 1] = e
  BY <1>1, <1>2, <1>3, StoredTable
<1>5. x # None
  BY NoneIsNoSubspace
<1>6. Stands(e, Q)
  BY <1>3, <1>5 DEF Stands
<1>7. \A i \in 1 .. n + 1 : i \in 1 .. n \/ i = n + 1
  OBVIOUS
<1>8. \A i \in 1 .. n + 1 : Stands(new.entries[i], Q)
  <2>1. \A i \in 1 .. n : Stands(R.entries[i], Q)
    BY <1>2, StandsStill
  <2> QED BY <1>4, <1>6, <1>7, <2>1
<1>9. ~after => \A b \in Doubles, y \in Subspaces :
          <<b, y>> \in Q => \E i \in 1 .. n + 1 : Answers(new.entries[i], b, y)
  <2> SUFFICES ASSUME ~after, NEW b \in Doubles, NEW y \in Subspaces, <<b, y>> \in Q
               PROVE  \E i \in 1 .. n + 1 : Answers(new.entries[i], b, y)
    OBVIOUS
  <2>1. CASE <<b, y>> \in P
    <3>1. PICK i \in 1 .. n : Answers(R.entries[i], b, y)
      BY <1>1, <2>1 DEF Holds
    <3>2. i \in 1 .. n + 1 /\ Answers(new.entries[i], b, y)
      BY <1>4, <3>1
    <3> QED BY <3>2
  <2>2. CASE <<b, y>> = <<d, x>>
    <3>1. b = d /\ y = x
      BY <2>2
    <3>2. Answers(new.entries[n + 1], b, y)
      BY <1>3, <1>4, <3>1 DEF Answers
    <3> QED BY <3>2
  <2> QED BY <2>1, <2>2
<1> QED BY <1>4, <1>8, <1>9 DEF Holds

\* Doubling the table, or losing what was to be put, keeps what it holds.
LEMMA LoseHolds ==
    ASSUME NEW R, NEW P, NEW lost, NEW Q, Holds(R, P, lost), P \subseteq Q
    PROVE  Holds(R, Q, TRUE) /\ Holds(Grown(R), Q, TRUE)
<1>1. RowTable(R) /\ \A i \in 1 .. Len(R.entries) : Stands(R.entries[i], Q)
  BY StandsStill DEF Holds
<1>2. RowTable(Grown(R)) /\ Grown(R).entries = R.entries
  BY <1>1, GrownTable
<1> QED BY <1>1, <1>2 DEF Holds

\* A table filled anew from the rows of the old one holds the same rows.
LEMMA GrownHolds ==
    ASSUME NEW R, NEW P, NEW lost, Holds(R, P, lost)
    PROVE  Holds(Grown(R), P, lost)
<1>1. RowTable(R)
  BY DEF Holds
<1>2. RowTable(Grown(R)) /\ Grown(R).entries = R.entries
  BY <1>1, GrownTable
<1> QED BY <1>2 DEF Holds

\* row_cache_put
LEMMA PutHolds ==
    ASSUME NEW R, NEW P, NEW lost, NEW Q, NEW after, NEW d \in Doubles, NEW x \in Subspaces,
           NEW rounded, NEW put, Holds(R, P, lost), rounded = RoundedFor(d, x),
           put \in PutResults(R, d, x, rounded), Adds(Q, P, <<d, x>>),
           lost => after, put.lost => after
    PROVE  Holds(put.table, Q, after)
<1>a. P \subseteq Q /\ <<d, x>> \in Q /\ \A stored \in Q : stored \in P \/ stored = <<d, x>>
  BY DEF Adds
<1>1. RowTable(R)
  BY DEF Holds
<1>2. PICK i : i = Find(R, d)
  OBVIOUS
<1>3. /\ i \in 0 .. Len(R.entries)
      /\ i # 0 => R.entries[i].d = d
      /\ i = 0 => \A j \in 1 .. Len(R.entries) : R.entries[j].d # d
  BY <1>1, <1>2, FindRight
<1>4. CASE i # 0
  <2>1. put.table = MarkKnown(R, i, x)
    BY <1>2, <1>4 DEF PutResults
  <2>2. i \in 1 .. Len(R.entries)
    <3>1. Len(R.entries) \in Nat
      BY <1>1 DEF RowTable
    <3> QED BY <1>3, <1>4, <3>1
  <2>3. PICK new : new = put.table
    OBVIOUS
  <2>4. d = R.entries[i].d
    BY <1>3, <1>4
  <2>5. <<R.entries[i].d, x>> \in Q /\ \A stored \in Q : stored \in P \/ stored = <<R.entries[i].d, x>>
    BY <1>a, <2>4
  <2>6. Holds(new, Q, after)
    BY <1>a, <2>1, <2>2, <2>3, <2>5, MarkHolds
  <2> QED BY <2>3, <2>6
<1>5. CASE i = 0
  <2>1. \/ put.table = Stored(Grown(R), d, x, rounded)
        \/ put.table \in {R, Grown(R)} /\ put.lost
    BY <1>2, <1>5 DEF PutResults
  <2>2. CASE put.table = Stored(Grown(R), d, x, rounded)
    <3>1. PICK grown : grown = Grown(R)
      OBVIOUS
    <3>2. Holds(grown, P, lost)
      BY <3>1, GrownHolds
    <3>3. grown.entries = R.entries /\ 2 * (Len(R.entries) + 1) <= grown.slot_count
      BY <1>1, <3>1, GrownTable
    <3>4. PICK new : new = put.table
      OBVIOUS
    <3>5. 2 * (Len(grown.entries) + 1) <= grown.slot_count
      BY <3>3
    <3>6. \A j \in 1 .. Len(grown.entries) : grown.entries[j].d # d
      BY <1>3, <1>5, <3>3
    <3>7. new = Stored(grown, d, x, RoundedFor(d, x))
      BY <2>2, <3>1, <3>4
    <3>8. Holds(new, Q, after)
      BY <1>a, <3>2, <3>5, <3>6, <3>7, StoreHolds
    <3> QED BY <3>4, <3>8
  <2>3. CASE put.table \in {R, Grown(R)} /\ put.lost
    <3>1. Holds(R, Q, TRUE) /\ Holds(Grown(R), Q, TRUE)
      BY <1>a, LoseHolds
    <3>2. Holds(put.table, Q, TRUE)
      BY <2>3, <3>1
    <3>3. after
      BY <2>3
    <3> QED BY <3>2, <3>3 DEF Holds
  <2> QED BY <2>1, <2>2, <2>3
<1> QED BY <1>4, <1>5

-----------------------------------------------------------------------------
(* The puts of a request that emitted these subspaces: each under its doubles
   and under the doubles it will be shown as. *)
Puts(S) == {<<Orthogonal[x], x>> : x \in S} \cup {<<Shown[x], x>> : x \in S}

(* The inductive invariant of ROWS. *)
RowsInv ==
    /\ Holds(ROWS, Puts(emitted), rowLost)
    /\ emitted \subseteq Subspaces
    /\ IsFiniteSet(emitted)
    /\ walking => F \in Moduli

\* Which subspaces were put under these doubles.
LEMMA PutUnder ==
    ASSUME NEW S, NEW d, NEW x
    PROVE  <<d, x>> \in Puts(S) <=> x \in S /\ d \in {Orthogonal[x], Shown[x]}
BY DEF Puts

\* A request starts with the empty table.
LEMMA EmptyHolds ==
    ASSUME NEW lost
    PROVE  Holds(EmptyRows, Puts({}), lost) /\ IsFiniteSet({})
<1>1. RowTable(EmptyRows)
  <2>1. PICK entries : entries = <<>>
    OBVIOUS
  <2>2. PICK slots : slots = EmptySlots(0)
    OBVIOUS
  <2>3. EmptyRows = [entries |-> entries, slots |-> slots, slot_count |-> 0]
    BY <2>1, <2>2 DEF EmptyRows
  <2>4. EmptyRows.entries = entries /\ EmptyRows.slots = slots /\ EmptyRows.slot_count = 0
    BY <2>3
  <2>5. Len(entries) = 0 /\ entries = [i \in 1 .. 0 |-> entries[i]]
    BY <2>1
  <2>6. Indexed(slots, 0, Hashes(entries), 0)
    BY <2>2 DEF Indexed, EmptySlots
  <2> QED BY <2>3, <2>4, <2>5, <2>6 DEF RowTable
<1>2. Len(EmptyRows.entries) = 0
  BY DEF EmptyRows
<1>3. Puts({}) = {}
  BY DEF Puts
<1>4. Holds(EmptyRows, {}, lost)
  BY <1>1, <1>2 DEF Holds
<1>5. IsFiniteSet({})
  BY FS_EmptySet
<1> QED BY <1>3, <1>4, <1>5

\* A node is stored under its doubles, and under those it will be shown as.
LEMMA EmitPreserves ==
    ASSUME RowsInv, NEW basis \in Bases, Emit(basis)
    PROVE  RowsInv'
<1>1. PICK x : x = <<F, basis>>
  OBVIOUS
<1>2. F \in Moduli /\ walking
  BY DEF Emit, RowsInv
<1>3. x \in Subspaces
  BY <1>1, <1>2 DEF Subspaces
<1>4. PICK d \in Doubles : d = Orthogonal[x]
  BY <1>3, RowAssumption
<1>5. PICK shown \in Doubles : shown = Shown[x]
  BY <1>3, RowAssumption
<1>6. PICK after : after = rowLost'
  OBVIOUS
<1>7. emitted' = emitted \cup {x} /\ UNCHANGED <<F, walking>>
  BY <1>1 DEF Emit
<1>8. PICK first \in PutResults(ROWS, d, x, NoDoubles) :
        \/ /\ shown = d /\ ROWS' = first.table
           /\ rowLost' = (rowLost \/ first.lost)
        \/ /\ shown # d
           /\ \E second \in PutResults(first.table, shown, x, d) :
                 /\ ROWS' = second.table
                 /\ rowLost' = (rowLost \/ first.lost \/ second.lost)
  BY <1>1, <1>4, <1>5 DEF Emit
<1>9. (rowLost => after) /\ (first.lost => after)
  BY <1>6, <1>8
<1>10. PICK P : P = Puts(emitted)
  OBVIOUS
<1>11. PICK mid : mid = P \cup {<<d, x>>}
  OBVIOUS
<1>12. PICK table : table = first.table
  OBVIOUS
<1>13. Holds(table, mid, after)
  <2>1. PICK R : R = ROWS
    OBVIOUS
  <2>2. Holds(R, P, rowLost)
    BY <1>10, <2>1 DEF RowsInv
  <2>3. PICK rounded : rounded = NoDoubles
    OBVIOUS
  <2>4. rounded = RoundedFor(d, x)
    BY <1>4, <2>3 DEF RoundedFor
  <2>5. first \in PutResults(R, d, x, rounded)
    BY <2>1, <2>3
  <2>6. Adds(mid, P, <<d, x>>)
    BY <1>11 DEF Adds
  <2>7. rowLost => after
    BY <1>9
  <2>8. first.lost => after
    BY <1>9
  <2>9. Holds(first.table, mid, after)
    BY <1>3, <2>2, <2>4, <2>5, <2>6, <2>7, <2>8, PutHolds
  <2> QED BY <1>12, <2>9
<1>14. PICK Q : Q = Puts(emitted')
  OBVIOUS
<1>15. Q = mid \cup {<<shown, x>>}
  BY <1>4, <1>5, <1>7, <1>10, <1>11, <1>14 DEF Puts
<1>16. Holds(ROWS', Q, after)
  <2>1. CASE shown = d
    <3>1. Q = mid
      BY <1>11, <1>15, <2>1
    <3> QED BY <1>8, <1>12, <1>13, <2>1, <3>1
  <2>2. CASE shown # d
    <3>1. PICK second \in PutResults(table, shown, x, d) :
            /\ ROWS' = second.table
            /\ rowLost' = (rowLost \/ first.lost \/ second.lost)
      BY <1>8, <1>12, <2>2
    <3>2. second.lost => after
      BY <1>6, <3>1
    <3>3. d = RoundedFor(shown, x)
      BY <1>4, <2>2 DEF RoundedFor
    <3>4. Adds(Q, mid, <<shown, x>>)
      BY <1>15 DEF Adds
    <3>5. after => after
      OBVIOUS
    <3>6. second \in PutResults(table, shown, x, d)
      OBVIOUS
    <3>7. Holds(second.table, Q, after)
      BY <1>3, <1>13, <3>2, <3>3, <3>4, <3>5, <3>6, PutHolds
    <3> QED BY <3>1, <3>7
  <2> QED BY <2>1, <2>2
<1>17. Holds(ROWS, Puts(emitted), rowLost)'
  BY <1>6, <1>14, <1>16
<1>18. IsFiniteSet(emitted')
  BY <1>7, FS_AddElement DEF RowsInv
<1> QED BY <1>2, <1>3, <1>7, <1>17, <1>18 DEF RowsInv

\* Every step of the rows.
LEMMA RowsStep ==
    ASSUME RowsInv, RowsNext
    PROVE  RowsInv'
<1>1. CASE StartRequest
  <2>1. ROWS' = EmptyRows /\ emitted' = {} /\ walking' = FALSE
    BY <1>1 DEF StartRequest
  <2>2. PICK lost : lost = rowLost'
    OBVIOUS
  <2>3. Holds(EmptyRows, Puts({}), lost) /\ IsFiniteSet({})
    BY EmptyHolds
  <2> QED BY <2>1, <2>2, <2>3 DEF RowsInv
<1>2. ASSUME NEW m \in Moduli, Walk(m) PROVE RowsInv'
  <2>1. walking' => F' = m
    BY <1>2 DEF Walk
  <2>2. UNCHANGED <<ROWS, emitted, rowLost>>
    BY <1>2 DEF Walk
  <2> QED BY <2>1, <2>2 DEF RowsInv
<1>3. ASSUME NEW basis \in Bases, Emit(basis) PROVE RowsInv'
  BY <1>3, EmitPreserves
<1>4. CASE EndWalk
  BY <1>4 DEF EndWalk, RowsInv
<1>5. ASSUME NEW d \in Doubles, NEW m \in Moduli, CoupledOrbit(d, m) PROVE RowsInv'
  BY <1>5 DEF CoupledOrbit, RowsInv
<1>6. ASSUME NEW m \in Moduli, NEW attempt \in Attempts, Solve(m, attempt) PROVE RowsInv'
  BY <1>6 DEF Solve, rowVars, RowsInv
<1> QED BY <1>1, <1>2, <1>3, <1>4, <1>5, <1>6 DEF RowsNext

\* The invariant says that the probes end.
LEMMA RowsEnd ==
    ASSUME RowsInv
    PROVE  RowProbesEnd
<1>1. RowTable(ROWS)
  BY DEF RowsInv, Holds
<1>2. PICK slots : slots = ROWS.slots
  OBVIOUS
<1>3. PICK size \in Nat : size = ROWS.slot_count
  BY <1>1 DEF RowTable
<1>4. PICK n \in Nat : n = Len(ROWS.entries)
  BY <1>1 DEF RowTable
<1>5. 2 * n <= size
  BY <1>1, <1>3, <1>4 DEF RowTable
<1>6. PICK hashes : hashes = Hashes(ROWS.entries)
  OBVIOUS
<1>7. Indexed(slots, size, hashes, n)
  BY <1>1, <1>2, <1>3, <1>4, <1>6 DEF RowTable
<1>8. CASE size = 0
  BY <1>2, <1>3, <1>4, <1>5, <1>8 DEF RowProbesEnd, HasEmptySlot
<1>9. CASE size # 0
  <2>1. n < size
    BY <1>5, <1>9
  <2>2. \E s \in 0 .. size - 1 : slots[s] = 0
    BY <1>7, <2>1, SlotLeft
  <2> QED BY <1>2, <1>3, <1>4, <1>5, <2>2 DEF RowProbesEnd, HasEmptySlot
<1> QED BY <1>8, <1>9

\* What the invariant says of a read.
LEMMA RowRead ==
    ASSUME RowsInv, NEW d \in Doubles, NEW x, x = SubspaceOf(d)
    PROVE  /\ x # None => x \in Meanings(d)
           /\ x # None => ROWS.entries[Find(ROWS, d)].rounded = RoundedFor(d, x)
           /\ ~rowLost /\ x # None => Meanings(d) = {x}
           /\ ~rowLost /\ x = None /\ Meanings(d) # {} =>
                 \E y, z \in Meanings(d) : y # z
<1>1. PICK R : R = ROWS
  OBVIOUS
<1>2. PICK P : P = Puts(emitted)
  OBVIOUS
<1>3. PICK n \in Nat : n = Len(R.entries)
  BY <1>1 DEF RowsInv, Holds, RowTable
<1>4. Holds(R, P, rowLost)
  BY <1>1, <1>2 DEF RowsInv
<1>5. RowTable(R) /\ \A j \in 1 .. n : Stands(R.entries[j], P)
  BY <1>3, <1>4 DEF Holds
<1>6. \A y : <<d, y>> \in P <=> y \in Meanings(d)
  BY <1>2, PutUnder DEF Meanings
<1>7. PICK i : i = Find(R, d)
  OBVIOUS
<1>8. /\ i \in 0 .. n
      /\ i # 0 => R.entries[i].d = d
      /\ i = 0 => \A j \in 1 .. n : R.entries[j].d # d
  BY <1>3, <1>5, <1>7, FindRight
<1>9. x = IF i = 0 THEN None ELSE R.entries[i].x
  BY <1>1, <1>7 DEF SubspaceOf
<1>10. ASSUME x # None
       PROVE  x \in Meanings(d) /\ R.entries[i].rounded = RoundedFor(d, x)
  <2>1. i \in 1 .. n /\ x = R.entries[i].x /\ R.entries[i].d = d
    BY <1>8, <1>9, <1>10
  <2>2. <<d, x>> \in P /\ R.entries[i].rounded = RoundedFor(d, x)
    BY <1>5, <1>10, <2>1 DEF Stands
  <2> QED BY <1>6, <2>2
<1>11. ASSUME ~rowLost, NEW y \in Meanings(d)
       PROVE  i \in 1 .. n /\ R.entries[i].d = d /\ R.entries[i].x \in {y, None}
  <2>1. y \in Subspaces /\ <<d, y>> \in P
    BY <1>6 DEF Meanings, RowsInv
  <2>2. PICK j \in 1 .. n : Answers(R.entries[j], d, y)
    BY <1>3, <1>4, <1>11, <2>1 DEF Holds
  <2>3. R.entries[j].d = d
    BY <2>2 DEF Answers
  <2>4. i \in 1 .. n /\ R.entries[i].d = d
    BY <1>8, <2>3
  <2>5. i = j
    BY <1>3, <1>5, <2>3, <2>4 DEF RowTable
  <2> QED BY <2>2, <2>4, <2>5 DEF Answers
<1>12. ASSUME ~rowLost, x # None PROVE Meanings(d) = {x}
  <2>1. \A y \in Meanings(d) : y = x
    BY <1>9, <1>11, <1>12
  <2> QED BY <1>10, <1>12, <2>1
<1>13. ASSUME ~rowLost, x = None, Meanings(d) # {}
       PROVE  \E y, z \in Meanings(d) : y # z
  <2>1. PICK w \in Meanings(d) : TRUE
    BY <1>13
  <2>2. i \in 1 .. n /\ R.entries[i].d = d
    BY <1>11, <1>13
  <2>3. R.entries[i].x = None
    BY <1>9, <1>13, <2>2
  <2>4. PICK y, z : y # z /\ <<d, y>> \in P /\ <<d, z>> \in P
    BY <1>5, <2>2, <2>3 DEF Stands
  <2> QED BY <1>6, <2>4
<1> QED BY <1>1, <1>7, <1>10, <1>12, <1>13

\* The invariant says what is read back.
LEMMA RowsRight ==
    ASSUME RowsInv
    PROVE  RowsExact
<1> SUFFICES ASSUME NEW d \in Doubles
             PROVE  /\ SubspaceOf(d) # None => SubspaceOf(d) \in Meanings(d)
                    /\ ~rowLost => (SubspaceOf(d) # None <=> Cardinality(Meanings(d)) = 1)
                    /\ Refined(d) # NoDoubles =>
                          \E x \in Meanings(d) :
                              /\ Shown[x] = d
                              /\ Refined(d) = Orthogonal[x]
                              /\ rowLost \/ Meanings(d) = {x}
                    /\ \A x \in emitted :
                          ~rowLost /\ Meanings(d) = {x} /\ Shown[x] = d /\ Orthogonal[x] # d
                              => Refined(d) = Orthogonal[x]
  BY DEF RowsExact
<1>1. PICK x : x = SubspaceOf(d)
  OBVIOUS
<1>2. x # None => x \in Meanings(d)
  BY <1>1, RowRead
<1>3. x # None => ROWS.entries[Find(ROWS, d)].rounded = RoundedFor(d, x)
  BY <1>1, RowRead
<1>4. ~rowLost /\ x # None => Meanings(d) = {x}
  BY <1>1, RowRead
<1>5. ~rowLost /\ x = None /\ Meanings(d) # {} => \E y, z \in Meanings(d) : y # z
  BY <1>1, RowRead
<1>6. Refined(d) = IF x = None THEN NoDoubles ELSE RoundedFor(d, x)
  BY <1>1, <1>3 DEF Refined
<1>7. ~rowLost => (x # None <=> Cardinality(Meanings(d)) = 1)
  <2>1. ASSUME ~rowLost, x # None PROVE Cardinality(Meanings(d)) = 1
    <3>1. Meanings(d) = {x}
      BY <1>4, <2>1
    <3>2. Cardinality({x}) = 1
      BY FS_Singleton
    <3> QED BY <3>1, <3>2
  <2>2. ASSUME ~rowLost, x = None, Cardinality(Meanings(d)) = 1 PROVE FALSE
    <3>1. IsFiniteSet(Meanings(d))
      <4>1. IsFiniteSet(emitted) /\ Meanings(d) \subseteq emitted
        BY DEF RowsInv, Meanings
      <4> QED BY <4>1, FS_Subset
    <3>2. PICK M : M = Meanings(d)
      OBVIOUS
    <3>3. IsFiniteSet(M) /\ Cardinality(M) = 1
      BY <2>2, <3>1, <3>2
    <3>4. PICK y : M = {y}
      BY <3>3, FS_Singleton
    <3> QED BY <1>5, <2>2, <3>2, <3>4
  <2> QED BY <2>1, <2>2
<1>8. ASSUME Refined(d) # NoDoubles
      PROVE  /\ x \in Meanings(d) /\ Shown[x] = d /\ Refined(d) = Orthogonal[x]
             /\ rowLost \/ Meanings(d) = {x}
  <2>1. x # None /\ Refined(d) = RoundedFor(d, x)
    BY <1>6, <1>8
  <2>2. d # Orthogonal[x] /\ Refined(d) = Orthogonal[x]
    BY <1>8, <2>1 DEF RoundedFor
  <2>3. x \in Meanings(d)
    BY <1>2, <2>1
  <2>4. Shown[x] = d
    BY <2>2, <2>3 DEF Meanings
  <2> QED BY <1>4, <2>1, <2>2, <2>3, <2>4
<1>9. ASSUME NEW y \in emitted, ~rowLost, Meanings(d) = {y}, Orthogonal[y] # d
      PROVE  Refined(d) = Orthogonal[y]
  <2>1. x # None
    BY <1>5, <1>9
  <2>2. x = y
    BY <1>2, <1>9, <2>1
  <2> QED BY <1>6, <1>9, <2>1, <2>2 DEF RoundedFor
<1> QED BY <1>1, <1>2, <1>7, <1>8, <1>9

-----------------------------------------------------------------------------
\* Every step of the engine keeps the invariant of the rows.
LEMMA RowsInductive == EngineSpec => []RowsInv
<1>1. EngineInit => RowsInv
  <2> SUFFICES ASSUME EngineInit PROVE RowsInv
    OBVIOUS
  <2>1. ROWS = EmptyRows /\ emitted = {} /\ walking = FALSE
    BY DEF EngineInit, RowsInit
  <2>2. Holds(EmptyRows, Puts({}), rowLost) /\ IsFiniteSet({})
    BY EmptyHolds
  <2> QED BY <2>1, <2>2 DEF RowsInv
<1>2. RowsInv /\ [EngineNext]_engineVars => RowsInv'
  <2> SUFFICES ASSUME RowsInv, [EngineNext]_engineVars PROVE RowsInv'
    OBVIOUS
  <2>1. CASE RowsNext
    BY <2>1, RowsStep
  <2>2. CASE UNCHANGED rowVars
    BY <2>2 DEF rowVars, RowsInv
  <2>3. RowsNext \/ UNCHANGED rowVars
    BY DEF EngineNext, engineVars
  <2> QED BY <2>1, <2>2, <2>3
<1> QED BY <1>1, <1>2, PTL DEF EngineSpec

\* The loops of row_cache_find and row_cache_put end in every state a process
\* can get to, whatever was stored and wherever memory ran out.
THEOREM RowProbesAlwaysEnd == EngineSpec => []RowProbesEnd
<1>1. RowsInv => RowProbesEnd
  BY RowsEnd
<1> QED BY <1>1, RowsInductive, PTL

\* Doubles are read back as the one subspace of the request that stands
\* behind them, and as none when two do, whatever the hashes collide on and
\* however often the table was doubled.
THEOREM RowsAlwaysExact == EngineSpec => []RowsExact
<1>1. RowsInv => RowsExact
  BY RowsRight
<1> QED BY <1>1, RowsInductive, PTL

-----------------------------------------------------------------------------
\* The next slot of a ring.
LEMMA NextSlot ==
    ASSUME NEW size \in Nat \ {0}, NEW k \in 0 .. size - 1
    PROVE  (k + 1) % size = IF k + 1 = size THEN 0 ELSE k + 1
OBVIOUS

RingHashes(ring) == [slot \in DOMAIN ring |-> LayoutHash[ring[slot].key]]

(* The layouts kept: in a ring that turns when it is full, under distinct
   keys that can be made, each found by its hash. *)
LayoutTable(L) ==
    /\ L = [ring |-> L.ring, next |-> L.next, bucket |-> L.bucket, serial |-> L.serial]
    /\ L.ring = [i \in 1 .. Len(L.ring) |-> L.ring[i]]
    /\ Len(L.ring) \in Nat /\ Len(L.ring) <= LAYOUT_CACHE
    /\ \A i \in 1 .. Len(L.ring) : L.ring[i].key \in Layouts /\ Faults[L.ring[i].key] = "none"
    /\ \A i, j \in 1 .. Len(L.ring) : L.ring[i].key = L.ring[j].key => i = j
    /\ L.next \in 0 .. LAYOUT_CACHE - 1 /\ (Len(L.ring) < LAYOUT_CACHE => L.next = Len(L.ring))
    /\ Indexed(L.bucket, LAYOUT_BUCKETS, RingHashes(L.ring), Len(L.ring))

(* A layout that is kept, and one that the next layout does not displace. *)
Present(L, e) == \E i \in 1 .. Len(L.ring) : L.ring[i] = e
Safe(L, e) ==
    \E i \in 1 .. Len(L.ring) : L.ring[i] = e /\ (Len(L.ring) = LAYOUT_CACHE => i # L.next + 1)

\* The hashes of the layouts in the ring.
LEMMA HashesOfRing ==
    ASSUME NEW n \in Nat, NEW ring, ring = [i \in 1 .. n |-> ring[i]],
           \A i \in 1 .. n : ring[i].key \in Layouts
    PROVE  /\ Len(RingHashes(ring)) = n
           /\ \A i \in 1 .. n : RingHashes(ring)[i] = LayoutHash[ring[i].key] /\ RingHashes(ring)[i] \in Nat
<1>1. DOMAIN ring = 1 .. n
  OBVIOUS
<1>2. \A key \in Layouts : LayoutHash[key] \in Nat
  BY LayoutAssumption
<1>3. PICK list : list = [i \in 1 .. n |-> LayoutHash[ring[i].key]]
  OBVIOUS
<1>4. RingHashes(ring) = list
  BY <1>1, <1>3 DEF RingHashes
<1>5. Len(list) = n
  BY <1>3
<1>6. \A i \in 1 .. n : list[i] = LayoutHash[ring[i].key] /\ list[i] \in Nat
  BY <1>2, <1>3
<1> QED BY <1>4, <1>5, <1>6

\* layout_find finds the layout of a key, if it is kept.
LEMMA LayoutFindRight ==
    ASSUME NEW L, LayoutTable(L), NEW key \in Layouts
    PROVE  /\ LayoutFind(L, key) \in 0 .. Len(L.ring)
           /\ LayoutFind(L, key) # 0 => L.ring[LayoutFind(L, key)].key = key
           /\ LayoutFind(L, key) = 0 => \A i \in 1 .. Len(L.ring) : L.ring[i].key # key
<1>1. PICK n \in Nat : n = Len(L.ring)
  BY DEF LayoutTable
<1>2. PICK wanted : wanted = {i \in 1 .. n : L.ring[i].key = key}
  OBVIOUS
<1>3. PICK stops : stops = {s \in DOMAIN L.bucket : L.bucket[s] = 0 \/ L.bucket[s] \in wanted}
  OBVIOUS
<1>4. PICK size \in Nat : size = LAYOUT_BUCKETS
  BY LayoutAssumption
<1>5. n < size
  <2>1. n <= LAYOUT_CACHE
    BY <1>1 DEF LayoutTable
  <2> QED BY <1>4, <2>1, LayoutAssumption
<1>6. PICK bucket : bucket = L.bucket
  OBVIOUS
<1>7. PICK hashes : hashes = RingHashes(L.ring)
  OBVIOUS
<1>8. Indexed(bucket, size, hashes, n)
  BY <1>1, <1>4, <1>6, <1>7 DEF LayoutTable
<1>9. PICK h \in Nat : h = LayoutHash[key]
  BY LayoutAssumption
<1>10. OfHash(wanted, hashes, n, h)
  <2>1. PICK ring : ring = L.ring
    OBVIOUS
  <2>2. ring = [i \in 1 .. n |-> ring[i]] /\ \A i \in 1 .. n : ring[i].key \in Layouts
    BY <1>1, <2>1 DEF LayoutTable
  <2>3. \A i \in 1 .. n : RingHashes(ring)[i] = LayoutHash[ring[i].key]
    BY <2>2, HashesOfRing
  <2> QED BY <1>2, <1>7, <1>9, <2>1, <2>3 DEF OfHash
<1>11. StopsFor(stops, bucket, wanted)
  BY <1>3, <1>6 DEF StopsFor
<1>12. PICK stop : stop = ProbeStop(size, h, stops)
  OBVIOUS
<1>13. bucket[stop] = 0 \/ bucket[stop] \in wanted
  BY ONLY size \in Nat, n \in Nat, h \in Nat, <1>5, <1>8, <1>10, <1>11, <1>12, LookupRight
<1>14. bucket[stop] = 0 => \A i \in wanted : FALSE
  BY ONLY size \in Nat, n \in Nat, h \in Nat, <1>5, <1>8, <1>10, <1>11, <1>12, LookupRight
<1>15. {b \in DOMAIN L.bucket : L.bucket[b] = 0 \/ L.ring[L.bucket[b]].key = key} = stops
  <2>1. \A s \in DOMAIN L.bucket : L.bucket[s] \in 0 .. n
    BY <1>6, <1>8 DEF Indexed
  <2>2. \A s \in DOMAIN L.bucket :
          L.bucket[s] # 0 => (L.bucket[s] \in wanted <=> L.ring[L.bucket[s]].key = key)
    BY <1>2, <2>1
  <2> QED BY <1>3, <2>2
<1>16. LayoutFind(L, key) = bucket[stop]
  BY <1>4, <1>6, <1>9, <1>12, <1>15 DEF LayoutFind
<1> QED BY <1>1, <1>2, <1>13, <1>14, <1>16

\* A new layout takes the next slot, which is the oldest one of a full ring.
LEMMA KeptTable ==
    ASSUME NEW L, NEW entry, NEW new, LayoutTable(L), new = Kept(L, entry),
           entry.key \in Layouts, Faults[entry.key] = "none",
           \A i \in 1 .. Len(L.ring) : L.ring[i].key # entry.key
    PROVE  LayoutTable(new) /\ Safe(new, entry) /\ \A e : Safe(L, e) => Present(new, e)
<1>1. PICK n \in Nat : n = Len(L.ring)
  BY DEF LayoutTable
<1>2. PICK size \in Nat : size = LAYOUT_CACHE /\ size > 1 /\ n <= size
  BY <1>1, LayoutAssumption DEF LayoutTable
<1>3. PICK next \in 0 .. size - 1 : next = L.next /\ (n < size => next = n)
  BY <1>1, <1>2 DEF LayoutTable
<1>4. PICK old : old = L.ring
  OBVIOUS
<1>5. /\ old = [i \in 1 .. n |-> old[i]]
      /\ \A i \in 1 .. n : old[i].key \in Layouts /\ Faults[old[i].key] = "none"
      /\ \A i, j \in 1 .. n : old[i].key = old[j].key => i = j
      /\ \A i \in 1 .. n : old[i].key # entry.key
  BY <1>1, <1>4 DEF LayoutTable
<1>6. PICK ring : ring = IF n = size THEN [old EXCEPT ![next + 1] = entry] ELSE Append(old, entry)
  OBVIOUS
<1>7. PICK m \in Nat : m = IF n = size THEN n ELSE n + 1
  OBVIOUS
<1>8. /\ ring = [i \in 1 .. m |-> ring[i]] /\ Len(ring) = m
      /\ next + 1 \in 1 .. m /\ ring[next + 1] = entry
      /\ \A i \in 1 .. m : i # next + 1 => i \in 1 .. n /\ ring[i] = old[i]
  <2>1. CASE n = size
    <3>1. ring = [i \in 1 .. n |-> IF i = next + 1 THEN entry ELSE old[i]]
      BY <1>5, <1>6, <2>1
    <3> QED BY <1>7, <2>1, <3>1
  <2>2. CASE n # size
    <3>1. next = n
      BY <1>2, <1>3, <2>2
    <3>2. PICK f : f = [i \in 1 .. n + 1 |-> IF i <= n THEN old[i] ELSE entry]
      OBVIOUS
    <3>3. old = [i \in 1 .. n |-> f[i]] /\ f[n + 1] = entry
      BY <1>5, <3>2
    <3>4. Append(old, f[n + 1]) = [i \in 1 .. (n + 1) |-> f[i]]
      BY <3>3, SeqOfEntries
    <3>5. ring = [i \in 1 .. n + 1 |-> f[i]]
      BY <1>6, <2>2, <3>3, <3>4
    <3>6. Len(ring) = n + 1 /\ ring[n + 1] = entry
      BY <3>3, <3>5
    <3>7. \A i \in 1 .. n : ring[i] = old[i]
      BY <3>2, <3>5
    <3>8. m = n + 1
      BY <1>7, <2>2
    <3>9. ring = [i \in 1 .. m |-> ring[i]]
      BY <3>5, <3>8
    <3>10. next + 1 \in 1 .. m /\ ring[next + 1] = entry
      BY <3>1, <3>6, <3>8
    <3>11. \A i \in 1 .. m : i # next + 1 => i \in 1 .. n
      BY <3>1, <3>8
    <3> QED BY <3>6, <3>7, <3>8, <3>9, <3>10, <3>11
  <2> QED BY <2>1, <2>2
<1>9. PICK turned \in 0 .. size - 1 :
        turned = (next + 1) % size /\ turned = IF next + 1 = size THEN 0 ELSE next + 1
  <2>1. (next + 1) % size = IF next + 1 = size THEN 0 ELSE next + 1
    <3>1. size \in Nat \ {0} /\ next \in 0 .. size - 1
      BY <1>2
    <3> QED BY <3>1, NextSlot
  <2> QED BY <1>2, <2>1
<1>10. PICK bucket : bucket = Rehashed(ring)
  OBVIOUS
<1>11. new = [ring |-> ring, next |-> turned, bucket |-> bucket, serial |-> entry.serial]
  BY <1>1, <1>2, <1>3, <1>4, <1>6, <1>9, <1>10 DEF Kept
<1>12. new.ring = ring /\ new.next = turned /\ new.bucket = bucket /\ new.serial = entry.serial
  BY <1>11
<1>13. m <= size /\ (m < size => turned = m)
  BY <1>2, <1>3, <1>7, <1>9
<1>14. \A i \in 1 .. m : ring[i].key \in Layouts /\ Faults[ring[i].key] = "none"
  BY <1>5, <1>8
<1>15. \A i, j \in 1 .. m : ring[i].key = ring[j].key => i = j
  <2> SUFFICES ASSUME NEW i \in 1 .. m, NEW j \in 1 .. m, ring[i].key = ring[j].key PROVE i = j
    OBVIOUS
  <2>1. CASE i = next + 1 /\ j # next + 1
    BY <1>5, <1>8, <2>1
  <2>2. CASE j = next + 1 /\ i # next + 1
    BY <1>5, <1>8, <2>2
  <2>3. CASE i # next + 1 /\ j # next + 1
    BY <1>5, <1>8, <2>3
  <2> QED BY <2>1, <2>2, <2>3
<1>16. Indexed(bucket, LAYOUT_BUCKETS, RingHashes(ring), m)
  <2>1. PICK hashes : hashes = RingHashes(ring)
    OBVIOUS
  <2>2. PICK buckets \in Nat : buckets = LAYOUT_BUCKETS /\ m < buckets
    BY <1>2, <1>13, LayoutAssumption
  <2>3. Len(hashes) = m /\ \A i \in 1 .. m : hashes[i] \in Nat
    BY <1>8, <1>14, <2>1, HashesOfRing
  <2>4. bucket = Filled(buckets, hashes)
    BY <1>10, <2>1, <2>2 DEF Rehashed, RingHashes
  <2>5. Len(hashes) \in Nat /\ Len(hashes) < buckets
    BY <2>2, <2>3
  <2>6. \A i \in 1 .. Len(hashes) : hashes[i] \in Nat
    BY <2>3
  <2>7. Indexed(Filled(buckets, hashes), buckets, hashes, Len(hashes))
    BY <2>2, <2>5, <2>6, FilledIndexed
  <2> QED BY <2>1, <2>2, <2>3, <2>4, <2>7
<1>17. LayoutTable(new)
  BY <1>2, <1>8, <1>9, <1>11, <1>12, <1>13, <1>14, <1>15, <1>16 DEF LayoutTable
<1>18. Safe(new, entry)
  <2>1. m = size => next + 1 # turned + 1
    BY <1>2, <1>9
  <2> QED BY <1>2, <1>8, <1>12, <2>1 DEF Safe
<1>19. ASSUME NEW e, Safe(L, e) PROVE Present(new, e)
  <2>1. PICK i \in 1 .. n : old[i] = e /\ (n = size => i # next + 1)
    BY <1>1, <1>2, <1>3, <1>4, <1>19 DEF Safe
  <2>2. i \in 1 .. m /\ i # next + 1
    BY <1>3, <1>2, <1>7, <2>1
  <2>3. ring[i] = e
    BY <1>8, <2>1, <2>2
  <2> QED BY <1>8, <1>12, <2>2, <2>3 DEF Present
<1> QED BY <1>17, <1>18, <1>19

\* A call of materialize: what it leaves in the ring, and what it answers.
LEMMA MaterializeTable ==
    ASSUME NEW L, NEW key \in Layouts, NEW short, NEW out, LayoutTable(L),
           out = Materialize(L, key, short)
    PROVE  /\ LayoutTable(out.mem)
           /\ out.layout = NoLayout \/ Present(out.mem, out.layout)
           /\ ~out.hit => out.layout = NoLayout \/ Safe(out.mem, out.layout)
           /\ \A e : Safe(L, e) => Present(out.mem, e)
<1> DEFINE made == [key |-> key, serial |-> L.serial + 1]
           counted == [L EXCEPT !.serial = @ + 1]
<1>1. PICK slot : slot = LayoutFind(L, key)
  OBVIOUS
<1>2. /\ slot \in 0 .. Len(L.ring)
      /\ slot = 0 => \A i \in 1 .. Len(L.ring) : L.ring[i].key # key
  BY <1>1, LayoutFindRight
<1>3. \A e : Safe(L, e) => Present(L, e)
  BY DEF Safe, Present
<1>4. PICK new : new = counted
  OBVIOUS
<1>5. /\ new = [ring |-> new.ring, next |-> new.next, bucket |-> new.bucket, serial |-> new.serial]
      /\ new.ring = L.ring /\ new.next = L.next /\ new.bucket = L.bucket
  BY <1>4 DEF LayoutTable
<1>6. LayoutTable(new)
  BY <1>5 DEF LayoutTable
<1>7. \A e : Safe(L, e) => Present(new, e)
  BY <1>3, <1>5 DEF Present
<1>8. CASE out = Outcome(L, "ok", L.ring[slot], TRUE) /\ slot # 0
  <2>1. out.mem = L /\ out.layout = L.ring[slot] /\ out.hit
    BY <1>8 DEF Outcome
  <2>2. Len(L.ring) \in Nat
    BY DEF LayoutTable
  <2>3. Present(L, L.ring[slot])
    BY <1>2, <1>8, <2>2 DEF Present
  <2> QED BY <1>3, <2>1, <2>3
<1>9. CASE \E status : out = Outcome(L, status, NoLayout, FALSE)
  <2>1. out.mem = L /\ out.layout = NoLayout
    BY <1>9 DEF Outcome
  <2> QED BY <1>3, <2>1
<1>10. CASE \E status : out = Outcome(new, status, NoLayout, FALSE)
  <2>1. out.mem = new /\ out.layout = NoLayout
    BY <1>10 DEF Outcome
  <2> QED BY <1>6, <1>7, <2>1
<1>11. CASE out = Outcome(Kept(L, made), "ok", made, FALSE) /\ slot = 0 /\ Faults[key] = "none"
  <2>1. PICK entry : entry = made
    OBVIOUS
  <2>2. entry.key = key
    BY <2>1
  <2>3. PICK kept : kept = Kept(L, entry)
    OBVIOUS
  <2>4. out.mem = kept /\ out.layout = entry
    BY <1>11, <2>1, <2>3 DEF Outcome
  <2>5. entry.key \in Layouts
    BY <2>2
  <2>6. Faults[entry.key] = "none"
    BY <1>11, <2>2
  <2>7. \A i \in 1 .. Len(L.ring) : L.ring[i].key # entry.key
    BY <1>2, <1>11, <2>2
  <2>8. LayoutTable(kept) /\ Safe(kept, entry) /\ \A e : Safe(L, e) => Present(kept, e)
    BY ONLY LayoutTable(L), <2>3, <2>5, <2>6, <2>7, KeptTable
  <2>9. Present(kept, entry)
    BY <2>8 DEF Safe, Present
  <2> QED BY <2>4, <2>8, <2>9
<1>12. \/ out = Outcome(L, "ok", L.ring[slot], TRUE) /\ slot # 0
       \/ \E status : out = Outcome(L, status, NoLayout, FALSE)
       \/ \E status : out = Outcome(new, status, NoLayout, FALSE)
       \/ out = Outcome(Kept(L, made), "ok", made, FALSE) /\ slot = 0 /\ Faults[key] = "none"
  <2>1. CASE slot # 0
    BY <1>1, <2>1 DEF Materialize
  <2>2. CASE slot = 0
    <3>1. Faults[key] \in {"none", "value", "runtime", "range"}
      BY LayoutAssumption
    <3>2. CASE short = "tables"
      BY <1>1, <2>2, <3>2 DEF Materialize
    <3>3. CASE short # "tables" /\ Faults[key] \in {"value", "runtime"}
      BY <1>1, <2>2, <3>3 DEF Materialize
    <3>4. CASE short = "layout" /\ Faults[key] \in {"none", "range"}
      BY <1>1, <1>4, <2>2, <3>4 DEF Materialize
    <3>5. CASE short \notin {"tables", "layout"} /\ Faults[key] = "range"
      BY <1>1, <1>4, <2>2, <3>5 DEF Materialize
    <3>6. CASE short \notin {"tables", "layout"} /\ Faults[key] = "none"
      BY <1>1, <2>2, <3>6 DEF Materialize
    <3> QED BY <3>1, <3>2, <3>3, <3>4, <3>5, <3>6
  <2> QED BY <2>1, <2>2
<1> QED BY <1>8, <1>9, <1>10, <1>11, <1>12

(* How a call goes when memory suffices, which the ring has no part in. *)
Verdict(key) ==
    CASE Faults[key] = "none" -> "ok"
      [] Faults[key] = "range" -> "arith"
      [] OTHER -> Faults[key]

\* A call that memory suffices for says the same whatever the ring holds.
LEMMA MaterializeTells ==
    ASSUME NEW L, NEW key \in Layouts, NEW out, LayoutTable(L), out = Materialize(L, key, "none")
    PROVE  /\ out.status = Verdict(key)
           /\ out.layout.key = IF Verdict(key) = "ok" THEN key ELSE <<>>
<1>1. PICK slot : slot = LayoutFind(L, key)
  OBVIOUS
<1>2. /\ slot \in 0 .. Len(L.ring)
      /\ slot # 0 => L.ring[slot].key = key
  BY <1>1, LayoutFindRight
<1>3. Faults[key] \in {"none", "value", "runtime", "range"}
  BY LayoutAssumption
<1>4. CASE slot # 0
  <2>1. out.status = "ok" /\ out.layout = L.ring[slot]
    BY <1>1, <1>4 DEF Materialize, Outcome
  <2>2. Len(L.ring) \in Nat
    BY DEF LayoutTable
  <2>3. Faults[L.ring[slot].key] = "none"
    BY <1>2, <1>4, <2>2 DEF LayoutTable
  <2> QED BY <1>2, <1>4, <2>1, <2>3 DEF Verdict
<1>5. CASE slot = 0
  <2>1. CASE Faults[key] \in {"value", "runtime"}
    <3>1. out.status = Faults[key] /\ out.layout = NoLayout
      BY <1>1, <1>5, <2>1 DEF Materialize, Outcome
    <3> QED BY <2>1, <3>1 DEF Verdict, NoLayout
  <2>2. CASE Faults[key] = "range"
    <3>1. out.status = "arith" /\ out.layout = NoLayout
      BY <1>1, <1>5, <2>2 DEF Materialize, Outcome
    <3> QED BY <2>2, <3>1 DEF Verdict, NoLayout
  <2>3. CASE Faults[key] = "none"
    <3>1. out.status = "ok" /\ out.layout = [key |-> key, serial |-> L.serial + 1]
      BY <1>1, <1>5, <2>3 DEF Materialize, Outcome
    <3> QED BY <2>3, <3>1 DEF Verdict
  <2> QED BY <1>3, <2>1, <2>2, <2>3
<1> QED BY <1>4, <1>5

\* A process starts without layouts.
LEMMA NoLayoutsTable == LayoutTable(NoLayouts)
<1>1. PICK ring : ring = <<>>
  OBVIOUS
<1>2. PICK bucket : bucket = EmptySlots(LAYOUT_BUCKETS)
  OBVIOUS
<1>3. NoLayouts = [ring |-> ring, next |-> 0, bucket |-> bucket, serial |-> 0]
  BY <1>1, <1>2 DEF NoLayouts
<1>4. NoLayouts.ring = ring /\ NoLayouts.next = 0 /\ NoLayouts.bucket = bucket /\ NoLayouts.serial = 0
  BY <1>3
<1>5. Len(ring) = 0 /\ ring = [i \in 1 .. 0 |-> ring[i]]
  BY <1>1
<1>6. Indexed(bucket, LAYOUT_BUCKETS, RingHashes(ring), 0)
  <2>1. bucket = [s \in 0 .. LAYOUT_BUCKETS - 1 |-> 0]
    BY <1>2 DEF EmptySlots
  <2>2. LAYOUT_BUCKETS \in Nat
    BY LayoutAssumption
  <2> QED BY <2>1, <2>2 DEF Indexed
<1>7. LAYOUT_CACHE \in Nat \ {0, 1}
  BY LayoutAssumption
<1> QED BY <1>3, <1>4, <1>5, <1>6, <1>7 DEF LayoutTable

\* The invariant of the ring says that the lookups are right.
LEMMA LayoutsRight ==
    ASSUME LayoutTable(layouts)
    PROVE  LayoutsFound
<1>1. HasEmptySlot(layouts.bucket, LAYOUT_BUCKETS)
  <2>1. PICK bucket : bucket = layouts.bucket
    OBVIOUS
  <2>2. PICK size \in Nat : size = LAYOUT_BUCKETS
    BY LayoutAssumption
  <2>3. PICK n \in Nat : n = Len(layouts.ring) /\ n <= LAYOUT_CACHE
    BY DEF LayoutTable
  <2>4. n < size
    BY <2>2, <2>3, LayoutAssumption
  <2>5. PICK hashes : hashes = RingHashes(layouts.ring)
    OBVIOUS
  <2>6. Indexed(bucket, size, hashes, n)
    BY <2>1, <2>2, <2>3, <2>5 DEF LayoutTable
  <2>7. \E s \in 0 .. size - 1 : bucket[s] = 0
    BY <2>4, <2>6, SlotLeft
  <2> QED BY <2>1, <2>2, <2>7 DEF HasEmptySlot
<1>2. ASSUME NEW key \in Layouts
      PROVE  IF LayoutFind(layouts, key) = 0
             THEN \A s \in DOMAIN layouts.ring : layouts.ring[s].key # key
             ELSE layouts.ring[LayoutFind(layouts, key)].key = key
  <2>1. DOMAIN layouts.ring = 1 .. Len(layouts.ring)
    BY DEF LayoutTable
  <2>2. /\ LayoutFind(layouts, key) # 0 => layouts.ring[LayoutFind(layouts, key)].key = key
        /\ LayoutFind(layouts, key) = 0 =>
              \A i \in 1 .. Len(layouts.ring) : layouts.ring[i].key # key
    BY LayoutFindRight
  <2> QED BY <2>1, <2>2
<1> QED BY <1>1, <1>2 DEF LayoutsFound
-----------------------------------------------------------------------------
\* The least of a set of natural numbers.
LEMMA LeastIsMin ==
    ASSUME NEW S, S \subseteq Nat, S # {}
    PROVE  Min(S) \in S /\ \A y \in S : Min(S) <= y
<1>1. \E x \in S : \A y \in S : x <= y
  BY SmallestNat
<1> QED BY <1>1 DEF Min

\* The first condition that holds gives the error.
LEMMA FirstErrorFirst ==
    ASSUME NEW checks, Len(checks) \in Nat \ {0}, checks[1][1]
    PROVE  FirstError(checks) = checks[1][2]
<1>1. PICK I : I = {i \in 1 .. Len(checks) : checks[i][1]}
  OBVIOUS
<1>2. 1 \in I
  BY <1>1
<1>3. I \subseteq Nat /\ I # {} /\ \A i \in I : 1 <= i
  BY <1>1, <1>2
<1>4. Min(I) = 1
  <2>1. PICK m : m = Min(I)
    OBVIOUS
  <2>2. m \in I /\ \A y \in I : m <= y
    BY <1>3, <2>1, LeastIsMin
  <2>3. m \in Nat /\ m <= 1 /\ 1 <= m
    BY <1>2, <1>3, <2>2
  <2> QED BY <2>1, <2>3
<1>5. SelectInSeq(checks, LAMBDA c : c[1]) = 1
  BY <1>1, <1>3, <1>4 DEF SelectInSeq
<1> QED BY <1>5 DEF FirstError

\* Without an error none of the conditions holds.
LEMMA FirstErrorNone ==
    ASSUME NEW checks, Len(checks) \in Nat, FirstError(checks) = "ok",
           \A i \in 1 .. Len(checks) : checks[i][1] => checks[i][2] # "ok"
    PROVE  \A i \in 1 .. Len(checks) : ~checks[i][1]
<1>1. PICK I : I = {i \in 1 .. Len(checks) : checks[i][1]}
  OBVIOUS
<1>2. CASE I = {}
  BY <1>1, <1>2
<1>3. CASE I # {}
  <2>1. PICK m : m = Min(I)
    OBVIOUS
  <2>2. m \in I
    <3>1. I \subseteq Nat
      BY <1>1
    <3> QED BY <1>3, <2>1, <3>1, LeastIsMin
  <2>3. SelectInSeq(checks, LAMBDA c : c[1]) = m
    BY <1>1, <1>3, <2>1 DEF SelectInSeq
  <2>4. FirstError(checks) = checks[m][2]
    BY <1>1, <2>2, <2>3 DEF FirstError
  <2> QED BY <1>1, <2>2, <2>4
<1> QED BY <1>2, <1>3

\* The first index of a selection, or 0.
LEMMA FirstOrNone ==
    ASSUME NEW n \in Nat, NEW I, I \subseteq 1 .. n, NEW first, first = IF I # {} THEN Min(I) ELSE 0
    PROVE  first \in 0 .. n /\ (first # 0 => first \in I) /\ (first = 0 <=> I = {})
<1>1. CASE I = {}
  BY <1>1
<1>2. CASE I # {}
  <2>1. I \subseteq Nat
    OBVIOUS
  <2>2. first \in I
    BY <1>2, <2>1, LeastIsMin
  <2> QED BY <1>2, <2>2
<1> QED BY <1>1, <1>2

\* What iso_rows fails with.
LEMMA RowsErrorIs ==
    ASSUME NEW g \in Irreps, NEW starved \in BOOLEAN
    PROVE  RowsError(g, starved) =
               IF g \in Source.misplaced THEN "key"
               ELSE IF starved /\ Source.old[g] > 0 THEN "memory" ELSE "ok"
<1>1. PICK placed \in BOOLEAN : placed = (g \in Source.misplaced)
  <2>1. CASE g \in Source.misplaced
    <3>1. (g \in Source.misplaced) = TRUE
      BY <2>1
    <3> QED BY <3>1
  <2>2. CASE g \notin Source.misplaced
    <3>1. (g \in Source.misplaced) = FALSE
      BY <2>2
    <3> QED BY <3>1
  <2> QED BY <2>1, <2>2
<1>2. PICK short \in BOOLEAN : short = (starved /\ Source.old[g] > 0)
  <2>1. Source.old[g] \in Nat
    BY SourceAssumption
  <2> QED BY <2>1
<1>3. PICK checks : checks = << <<placed, "key">>, <<short, "memory">> >>
  OBVIOUS
<1>4. RowsError(g, starved) = FirstError(checks)
  BY <1>1, <1>2, <1>3 DEF RowsError
<1>5. /\ Len(checks) = 2 /\ checks[1][1] = placed /\ checks[1][2] = "key"
      /\ checks[2][1] = short /\ checks[2][2] = "memory"
  BY <1>3
<1>6. CASE placed
  <2>1. FirstError(checks) = checks[1][2]
    <3>1. checks[1][1]
      BY <1>5, <1>6
    <3>2. Len(checks) \in Nat \ {0}
      BY <1>5
    <3> QED BY <3>1, <3>2, FirstErrorFirst
  <2> QED BY <1>1, <1>4, <1>5, <1>6, <2>1
<1>7. CASE ~placed
  <2>1. PICK I : I = {i \in 1 .. Len(checks) : checks[i][1]}
    OBVIOUS
  <2>2. I = IF short THEN {2} ELSE {}
    <3>1. \A i : i \in 1 .. 2 <=> i = 1 \/ i = 2
      OBVIOUS
    <3> QED BY <1>5, <1>7, <2>1, <3>1
  <2>3. PICK first : first = IF I # {} THEN Min(I) ELSE 0
    OBVIOUS
  <2>4. first = IF short THEN 2 ELSE 0
    <3>1. 2 \in Nat /\ I \subseteq 1 .. 2
      BY <2>2
    <3>2. first \in 0 .. 2 /\ (first # 0 => first \in I) /\ (first = 0 <=> I = {})
      BY <2>3, <3>1, FirstOrNone
    <3> QED BY <2>2, <3>2
  <2>5. SelectInSeq(checks, LAMBDA c : c[1]) = first
    BY <2>1, <2>3 DEF SelectInSeq
  <2>6. FirstError(checks) = IF short THEN "memory" ELSE "ok"
    BY <1>5, <2>4, <2>5 DEF FirstError
  <2> QED BY <1>1, <1>2, <1>4, <1>7, <2>6
<1> QED BY <1>6, <1>7

\* A frame that gets past its first errors asks for an irrep of the k, and for
\* a parametric cell only of a k with one parameter.
LEMMA EarlyTells ==
    ASSUME NEW ask, NEW family, NEW short, EarlyError(ask, family, short) = "ok"
    PROVE  /\ ask.gid \in family.littles
           /\ ask.params # "none" => Source.slots[ask.sg, ask.k] = 1
<1>1. PICK b1 \in BOOLEAN : b1 = (family.status # "ok")
  OBVIOUS
<1>2. PICK b2 \in BOOLEAN : b2 = (ask.gid \notin family.littles)
  OBVIOUS
<1>3. PICK b3 \in BOOLEAN : b3 = (ask.vector \notin 1 .. 3)
  OBVIOUS
<1>4. PICK b4 \in BOOLEAN : b4 = (short = <<"frame", "entries">>)
  OBVIOUS
<1>5. PICK b5 \in BOOLEAN : b5 = (ask.entries = "missing")
  OBVIOUS
<1>6. PICK b6 \in BOOLEAN : b6 = (ask.params # "none" /\ Source.slots[ask.sg, ask.k] # 1)
  OBVIOUS
<1>7. PICK checks : checks = << <<b1, family.status>>, <<b2, "value">>, <<b3, "value">>,
                                <<b4, "memory">>, <<b5, "key">>, <<b6, "key">> >>
  OBVIOUS
<1>8. EarlyError(ask, family, short) = FirstError(checks)
  BY <1>1, <1>2, <1>3, <1>4, <1>5, <1>6, <1>7 DEF EarlyError
<1>9. Len(checks) = 6
  BY <1>7
<1>10. \A i \in 1 .. Len(checks) : checks[i][1] => checks[i][2] # "ok"
  <2>1. \A i \in 1 .. 6 : i = 1 \/ i = 2 \/ i = 3 \/ i = 4 \/ i = 5 \/ i = 6
    OBVIOUS
  <2>2. checks[1][1] => checks[1][2] # "ok"
    BY <1>1, <1>7
  <2>3. /\ checks[2][2] # "ok" /\ checks[3][2] # "ok" /\ checks[4][2] # "ok"
        /\ checks[5][2] # "ok" /\ checks[6][2] # "ok"
    BY <1>7
  <2> QED BY <1>9, <2>1, <2>2, <2>3
<1>11. \A i \in 1 .. Len(checks) : ~checks[i][1]
  <2>1. Len(checks) \in Nat
    BY <1>9
  <2> QED BY <1>8, <1>10, <2>1, FirstErrorNone
<1>12. ~checks[2][1] /\ ~checks[6][1]
  BY <1>9, <1>11
<1>13. checks[2][1] = b2 /\ checks[6][1] = b6
  BY <1>7
<1> QED BY <1>2, <1>6, <1>12, <1>13

-----------------------------------------------------------------------------
(* The memos besides the layouts: rings whose entries say what would be found
   again, or say that memory ran out. *)
MemoTable(R) ==
    /\ R = [ring |-> R.ring, next |-> R.next]
    /\ Len(R.ring) \in Nat /\ R.ring = [i \in 1 .. Len(R.ring) |-> R.ring[i]]

\* A ring takes an entry, and keeps others of its own.
LEMMA RememberKeeps ==
    ASSUME NEW R, NEW size, NEW entry, NEW new, MemoTable(R), new = Remember(R, size, entry)
    PROVE  /\ MemoTable(new)
           /\ \A i \in 1 .. Len(new.ring) :
                 new.ring[i] = entry \/ \E j \in 1 .. Len(R.ring) : new.ring[i] = R.ring[j]
<1>1. PICK n \in Nat : n = Len(R.ring)
  BY DEF MemoTable
<1>2. PICK old : old = R.ring
  OBVIOUS
<1>3. old = [i \in 1 .. n |-> old[i]]
  BY <1>1, <1>2 DEF MemoTable
<1>4. PICK at : at = R.next + 1
  OBVIOUS
<1>5. PICK ring : ring = IF n = size THEN [old EXCEPT ![at] = entry] ELSE Append(old, entry)
  OBVIOUS
<1>6. PICK next : next = (R.next + 1) % size
  OBVIOUS
<1>7. new = [ring |-> ring, next |-> next]
  BY <1>1, <1>2, <1>4, <1>5, <1>6 DEF Remember
<1>8. new.ring = ring /\ new.next = next
  BY <1>7
<1>9. CASE n = size
  <2>1. ring = [i \in 1 .. n |-> IF i = at THEN entry ELSE old[i]]
    BY <1>3, <1>5, <1>9
  <2>2. Len(ring) = n /\ ring = [i \in 1 .. n |-> ring[i]]
    BY <2>1
  <2>3. \A i \in 1 .. n : ring[i] = entry \/ ring[i] = old[i]
    BY <2>1
  <2> QED BY <1>1, <1>2, <1>7, <1>8, <2>2, <2>3 DEF MemoTable
<1>10. CASE n # size
  <2>1. PICK f : f = [i \in 1 .. n + 1 |-> IF i <= n THEN old[i] ELSE entry]
    OBVIOUS
  <2>2. old = [i \in 1 .. n |-> f[i]] /\ f[n + 1] = entry
    BY <1>3, <2>1
  <2>3. Append(old, f[n + 1]) = [i \in 1 .. (n + 1) |-> f[i]]
    BY <2>2, SeqOfEntries
  <2>4. ring = [i \in 1 .. n + 1 |-> f[i]]
    BY <1>5, <1>10, <2>2, <2>3
  <2>5. Len(ring) = n + 1 /\ ring = [i \in 1 .. n + 1 |-> ring[i]]
    BY <2>4
  <2>6. \A i \in 1 .. n + 1 : ring[i] = entry \/ (i \in 1 .. n /\ ring[i] = old[i])
    BY <2>1, <2>4
  <2>7. MemoTable(new)
    BY <1>1, <1>7, <1>8, <2>5 DEF MemoTable
  <2>8. \A i \in 1 .. Len(new.ring) : i \in 1 .. n + 1
    BY <1>8, <2>5
  <2>9. ASSUME NEW i \in 1 .. Len(new.ring)
        PROVE  new.ring[i] = entry \/ \E j \in 1 .. n : new.ring[i] = old[j]
    BY <1>8, <2>6, <2>8
  <2> QED BY <1>1, <1>2, <2>7, <2>9
<1> QED BY <1>9, <1>10

\* A process starts with empty rings.
LEMMA NoEntriesTable == MemoTable(NoEntries) /\ Len(NoEntries.ring) = 0
BY DEF NoEntries, MemoTable

-----------------------------------------------------------------------------
FamilyFor(sg, k, starved) == FamilyOf(sg, k, Littles(sg, k), starved)

\* The irreps of a k, and its canonical cell.
LEMMA FamilyParts ==
    ASSUME NEW sg, NEW k, NEW starved \in BOOLEAN, NEW f, f = FamilyFor(sg, k, starved)
    PROVE  /\ f.sg = sg /\ f.k = k /\ f.littles \subseteq Irreps
           /\ f.canonical \in Cells \cup {NoCell}
<1>1. PICK found : found = Littles(sg, k)
  OBVIOUS
<1>2. found.gids \subseteq Irreps
  BY <1>1 DEF Littles
<1>3. f = FamilyOf(sg, k, found, starved)
  BY <1>1 DEF FamilyFor
<1>4. PICK telling : telling = {g \in found.gids : RowsError(g, starved) # "ok" \/ Source.rows[g] # <<>>}
  OBVIOUS
<1>5. PICK first : first = Min(telling)
  OBVIOUS
<1>6. PICK status : status = RowsError(first, starved)
  OBVIOUS
<1>7. PICK cell : cell = IF found.unlabelled \/ telling = {} \/ status # "ok" THEN NoCell
                         ELSE Source.rows[first][1].cell
  OBVIOUS
<1>8. f.sg = sg /\ f.k = k /\ f.littles = found.gids /\ f.canonical = cell
  <2>1. CASE found.unlabelled
    BY <1>3, <1>7, <2>1 DEF FamilyOf
  <2>2. CASE ~found.unlabelled /\ telling = {}
    BY <1>3, <1>4, <1>7, <2>2 DEF FamilyOf
  <2>3. CASE ~found.unlabelled /\ telling # {}
    BY <1>3, <1>4, <1>5, <1>6, <1>7, <2>3 DEF FamilyOf
  <2> QED BY <2>1, <2>2, <2>3
<1>9. ASSUME telling # {}, status = "ok" PROVE Source.rows[first][1].cell \in Cells \cup {NoCell}
  <2>1. first \in telling
    <3>1. telling \subseteq Nat
      BY <1>2, <1>4, SourceAssumption
    <3> QED BY <1>5, <1>9, <3>1, LeastIsMin
  <2>2. first \in Irreps /\ Source.rows[first] # <<>>
    BY <1>2, <1>4, <1>6, <1>9, <2>1
  <2>3. PICK rows : rows = Source.rows[first]
    OBVIOUS
  <2>4. rows \in Seq(Range(rows)) /\ rows # <<>>
    BY <2>2, <2>3, SourceAssumption
  <2>5. rows[1] \in Range(rows)
    BY <2>4
  <2>6. rows[1] \in UNION {Range(Source.rows[g]) : g \in Irreps}
    BY <2>2, <2>3, <2>5
  <2>7. rows[1].cell \in {row.cell : row \in UNION {Range(Source.rows[g]) : g \in Irreps}}
    BY <2>6
  <2> QED BY <2>3, <2>7 DEF Cells
<1> QED BY <1>2, <1>7, <1>8, <1>9

\* A family that was made when memory ran out, and does not say so, is the
\* one there would have been.
LEMMA StarvedFamily ==
    ASSUME NEW sg, NEW k, FamilyFor(sg, k, TRUE).status # "memory"
    PROVE  FamilyFor(sg, k, TRUE) = FamilyFor(sg, k, FALSE)
<1>1. PICK found : found = Littles(sg, k)
  OBVIOUS
<1>2. PICK G : G = found.gids
  OBVIOUS
<1>3. G \subseteq Irreps
  BY <1>1, <1>2 DEF Littles
<1>4. PICK T1 : T1 = {g \in G : RowsError(g, TRUE) # "ok" \/ Source.rows[g] # <<>>}
  OBVIOUS
<1>5. PICK T0 : T0 = {g \in G : RowsError(g, FALSE) # "ok" \/ Source.rows[g] # <<>>}
  OBVIOUS
<1>6. \A g \in G : /\ RowsError(g, TRUE) = IF g \in Source.misplaced THEN "key"
                                           ELSE IF Source.old[g] > 0 THEN "memory" ELSE "ok"
                   /\ RowsError(g, FALSE) = IF g \in Source.misplaced THEN "key" ELSE "ok"
  BY <1>3, RowsErrorIs
<1>7. \A g \in G : Source.old[g] \in Nat /\ (Source.old[g] = 0 => Source.rows[g] = <<>>)
  BY <1>3, SourceAssumption
<1>8. T0 \subseteq T1
  BY <1>4, <1>5, <1>6
<1>9. PICK first : first = Min(T1)
  OBVIOUS
<1>10. PICK f : f = FamilyOf(sg, k, found, TRUE)
  OBVIOUS
<1>11. PICK f0 : f0 = FamilyOf(sg, k, found, FALSE)
  OBVIOUS
<1>12. f.status # "memory"
  BY <1>1, <1>10 DEF FamilyFor
<1>13. CASE found.unlabelled
  BY <1>1, <1>13 DEF FamilyFor, FamilyOf
<1>14. CASE ~found.unlabelled /\ T1 = {}
  <2>1. T0 = {}
    BY <1>8, <1>14
  <2>2. f = [sg |-> sg, k |-> k, littles |-> G, status |-> "ok", canonical |-> NoCell]
    BY <1>2, <1>4, <1>10, <1>14 DEF FamilyOf
  <2>3. f0 = [sg |-> sg, k |-> k, littles |-> G, status |-> "ok", canonical |-> NoCell]
    BY <1>2, <1>5, <1>11, <1>14, <2>1 DEF FamilyOf
  <2> QED BY <1>1, <1>10, <1>11, <2>2, <2>3 DEF FamilyFor
<1>15. CASE ~found.unlabelled /\ T1 # {}
  <2>1. T1 \subseteq Nat
    BY <1>3, <1>4, SourceAssumption
  <2>2. first \in T1 /\ \A g \in T1 : first <= g
    BY <1>9, <1>15, <2>1, LeastIsMin
  <2>3. PICK status : status = RowsError(first, TRUE)
    OBVIOUS
  <2>4. f = [sg |-> sg, k |-> k, littles |-> G, status |-> status,
             canonical |-> IF status = "ok" THEN Source.rows[first][1].cell ELSE NoCell]
    BY <1>2, <1>4, <1>9, <1>10, <1>15, <2>3 DEF FamilyOf
  <2>5. status # "memory"
    BY <1>12, <2>4
  <2>6. first \in G
    BY <1>4, <2>2
  <2>7. first \in Source.misplaced
    <3>1. RowsError(first, TRUE) # "ok" \/ Source.rows[first] # <<>>
      BY <1>4, <2>2
    <3>2. PICK old \in Nat : old = Source.old[first] /\ (old = 0 => Source.rows[first] = <<>>)
      BY <1>7, <2>6
    <3>3. status = IF first \in Source.misplaced THEN "key" ELSE IF old > 0 THEN "memory" ELSE "ok"
      BY <1>6, <2>3, <2>6, <3>2
    <3>4. old > 0 \/ old = 0
      OBVIOUS
    <3> QED BY <2>3, <2>5, <3>1, <3>2, <3>3, <3>4
  <2>8. first \in T0 /\ RowsError(first, FALSE) = "key" /\ status = "key"
    BY <1>5, <1>6, <2>3, <2>6, <2>7
  <2>9. Min(T0) = first
    <3>1. PICK m : m = Min(T0)
      OBVIOUS
    <3>2. T0 \subseteq Nat /\ T0 # {}
      BY <1>8, <2>1, <2>8
    <3>3. m \in T0 /\ \A g \in T0 : m <= g
      BY <3>1, <3>2, LeastIsMin
    <3>4. m \in Nat /\ first \in Nat /\ m <= first /\ first <= m
      BY <1>8, <2>1, <2>2, <2>8, <3>2, <3>3
    <3> QED BY <3>1, <3>4
  <2>10. f0 = [sg |-> sg, k |-> k, littles |-> G, status |-> "key", canonical |-> NoCell]
    <3>1. T0 # {}
      BY <2>8
    <3> QED BY <1>2, <1>5, <1>11, <1>15, <2>8, <2>9, <3>1 DEF FamilyOf
  <2> QED BY <1>1, <1>10, <1>11, <2>4, <2>8, <2>10 DEF FamilyFor
<1> QED BY <1>13, <1>14, <1>15

\* Without a shortage no family says that memory ran out.
LEMMA FamilySuffices ==
    ASSUME NEW sg, NEW k
    PROVE  FamilyFor(sg, k, FALSE).status # "memory"
<1>1. PICK found : found = Littles(sg, k)
  OBVIOUS
<1>2. PICK G : G = found.gids
  OBVIOUS
<1>3. G \subseteq Irreps
  BY <1>1, <1>2 DEF Littles
<1>4. PICK T : T = {g \in G : RowsError(g, FALSE) # "ok" \/ Source.rows[g] # <<>>}
  OBVIOUS
<1>5. PICK f : f = FamilyOf(sg, k, found, FALSE)
  OBVIOUS
<1>6. CASE found.unlabelled
  BY <1>5, <1>1, <1>6 DEF FamilyOf, FamilyFor
<1>7. CASE ~found.unlabelled /\ T = {}
  <2>1. f.status = "ok"
    BY <1>2, <1>4, <1>5, <1>7 DEF FamilyOf
  <2> QED BY <1>1, <1>5, <2>1 DEF FamilyFor
<1>8. CASE ~found.unlabelled /\ T # {}
  <2>1. T \subseteq Nat
    BY <1>3, <1>4, SourceAssumption
  <2>2. PICK first \in T : first = Min(T)
    BY <1>8, <2>1, LeastIsMin
  <2>3. f.status = RowsError(first, FALSE)
    BY <1>2, <1>4, <1>5, <1>8, <2>2 DEF FamilyOf
  <2>4. first \in Irreps
    BY <1>3, <1>4
  <2>5. RowsError(first, FALSE) # "memory"
    BY <2>4, RowsErrorIs
  <2> QED BY <1>1, <1>5, <2>3, <2>5 DEF FamilyFor
<1> QED BY <1>6, <1>7, <1>8

-----------------------------------------------------------------------------
(* A family that can be found says what its irreps say, or what they say when
   memory ran out. *)
FamilyRight(f) ==
    \/ f.sg = -1
    \/ f.k \notin Source.long /\ \E starved \in BOOLEAN : f = FamilyFor(f.sg, f.k, starved)

FamiliesRight(R) == MemoTable(R) /\ \A i \in 1 .. Len(R.ring) : FamilyRight(R.ring[i])

(* The family a process would make of a k if it was asked for nothing else. *)
FamilyAlone(sg, k) ==
    IF k \in Source.long
    THEN [sg |-> -1, k |-> k, littles |-> {}, status |-> "value", canonical |-> NoCell]
    ELSE FamilyFor(sg, k, FALSE)

\* k_family_of, what it keeps and what it answers.
LEMMA KFamilyRight ==
    ASSUME NEW R, NEW sg \in Nat, NEW k, NEW short, NEW out, FamiliesRight(R),
           out = KFamilyOf(R, sg, k, short)
    PROVE  /\ FamiliesRight(out.memo)
           /\ out.family.littles \subseteq Irreps
           /\ out.family.canonical \in Cells \cup {NoCell}
           /\ short = NoShortage /\ out.family.status # "memory" =>
                 out.family = FamilyAlone(sg, k)
           /\ short = NoShortage /\ Len(R.ring) = 0 => out.family = FamilyAlone(sg, k)
<1>1. PICK n \in Nat : n = Len(R.ring)
  BY DEF FamiliesRight, MemoTable
<1>2. PICK I : I = {i \in 1 .. n : IsFamily(R.ring[i], sg, k)}
  OBVIOUS
<1>3. PICK at : at = IF I # {} THEN Min(I) ELSE 0
  OBVIOUS
<1>4. at \in 0 .. n /\ (at # 0 => at \in I) /\ (at = 0 <=> I = {})
  <2>1. I \subseteq 1 .. n
    BY <1>2
  <2> QED BY <1>3, <2>1, FirstOrNone
<1>5. SelectInSeq(R.ring, LAMBDA f : IsFamily(f, sg, k)) = at
  BY <1>1, <1>2, <1>3 DEF SelectInSeq
<1>6. PICK none : none = [sg |-> -1, k |-> k, littles |-> {}, status |-> "memory", canonical |-> NoCell]
  OBVIOUS
<1>7. CASE at # 0
  <2>1. PICK f : f = R.ring[at]
    OBVIOUS
  <2>2. out.memo = R /\ out.family = f
    BY <1>5, <1>7, <2>1 DEF KFamilyOf
  <2>3. f.sg = sg /\ f.k = k
    BY <1>2, <1>4, <1>7, <2>1 DEF IsFamily
  <2>4. FamilyRight(f)
    BY <1>1, <1>4, <1>7, <2>1 DEF FamiliesRight
  <2>5. k \notin Source.long
    BY <2>3, <2>4 DEF FamilyRight
  <2>6. PICK starved \in BOOLEAN : f = FamilyFor(sg, k, starved)
    BY <2>3, <2>4 DEF FamilyRight
  <2>7. f.littles \subseteq Irreps /\ f.canonical \in Cells \cup {NoCell}
    BY <2>6, FamilyParts
  <2>8. f.status # "memory" => f = FamilyFor(sg, k, FALSE)
    <3>1. CASE starved
      <4>1. starved = TRUE
        BY <3>1
      <4> QED BY <2>6, <4>1, StarvedFamily
    <3>2. CASE ~starved
      <4>1. starved = FALSE
        BY <3>2
      <4> QED BY <2>6, <4>1
    <3> QED BY <3>1, <3>2
  <2>9. n # 0
    BY <1>4, <1>7
  <2> QED BY <1>1, <2>2, <2>5, <2>7, <2>8, <2>9 DEF FamilyAlone
<1>8. CASE at = 0 /\ k \in Source.long
  <2>1. out.memo = R /\ out.family = [none EXCEPT !.status = "value"]
    BY <1>5, <1>6, <1>8 DEF KFamilyOf
  <2>2. out.family = FamilyAlone(sg, k)
    BY <1>6, <1>8, <2>1 DEF FamilyAlone
  <2>3. out.family.littles = {} /\ out.family.canonical = NoCell
    BY <1>6, <2>1
  <2> QED BY <2>1, <2>2, <2>3
<1>9. CASE at = 0 /\ k \notin Source.long
  <2>1. PICK starved \in BOOLEAN : starved = (short = <<"family", "rows">>)
    OBVIOUS
  <2>2. PICK made : made = FamilyFor(sg, k, starved)
    OBVIOUS
  <2>3. MadeFamily(sg, k, short) = made
    BY <2>1, <2>2 DEF MadeFamily, FamilyFor
  <2>4. PICK f : f = IF short = <<"family", "lists">> THEN none ELSE made
    OBVIOUS
  <2>5. out = [memo |-> Remember(R, K_FAMILY_CACHE, f), family |-> f]
    BY <1>5, <1>6, <1>9, <2>3, <2>4 DEF KFamilyOf
  <2>6. made.sg = sg /\ made.k = k /\ made.littles \subseteq Irreps /\ made.canonical \in Cells \cup {NoCell}
    BY <2>2, FamilyParts
  <2>7. FamilyRight(made)
    BY <1>9, <2>2, <2>6 DEF FamilyRight
  <2>8. FamilyRight(none) /\ none.littles = {} /\ none.canonical = NoCell
    BY <1>6 DEF FamilyRight
  <2>9. FamilyRight(f) /\ f.littles \subseteq Irreps /\ f.canonical \in Cells \cup {NoCell}
    BY <2>4, <2>6, <2>7, <2>8
  <2>10. PICK memo : memo = Remember(R, K_FAMILY_CACHE, f)
    OBVIOUS
  <2>11. FamiliesRight(memo)
    <3>1. MemoTable(R)
      BY DEF FamiliesRight
    <3>2. /\ MemoTable(memo)
          /\ \A i \in 1 .. Len(memo.ring) :
                memo.ring[i] = f \/ \E j \in 1 .. Len(R.ring) : memo.ring[i] = R.ring[j]
      BY <2>10, <3>1, RememberKeeps
    <3> QED BY <2>9, <3>2 DEF FamiliesRight
  <2>12. short = NoShortage => f = FamilyAlone(sg, k)
    <3>1. short = NoShortage => starved = FALSE /\ f = made
      <4>1. NoShortage # <<"family", "rows">> /\ NoShortage # <<"family", "lists">>
        BY DEF NoShortage
      <4> QED BY <2>1, <2>4, <4>1
    <3> QED BY <1>9, <2>2, <3>1 DEF FamilyAlone
  <2>13. out.memo = memo /\ out.family = f
    BY <2>5, <2>10
  <2> QED BY <2>9, <2>11, <2>12, <2>13
<1> QED BY <1>7, <1>8, <1>9

-----------------------------------------------------------------------------
(* A parametric cell that is kept is the one the tables give. *)
BasesRight(R) ==
    MemoTable(R) /\ \A i \in 1 .. Len(R.ring) : R.ring[i].found = Source.find[R.ring[i].key]

\* find_isotropy_basis.
LEMMA FindBasisRight ==
    ASSUME NEW R, NEW key, NEW out, BasesRight(R), out = FindBasis(R, key)
    PROVE  BasesRight(out.memo) /\ out.found = Source.find[key]
<1>1. PICK n \in Nat : n = Len(R.ring)
  BY DEF BasesRight, MemoTable
<1>2. PICK I : I = {i \in 1 .. n : R.ring[i].key = key}
  OBVIOUS
<1>3. PICK at : at = IF I # {} THEN Min(I) ELSE 0
  OBVIOUS
<1>4. at \in 0 .. n /\ (at # 0 => at \in I)
  <2>1. I \subseteq 1 .. n
    BY <1>2
  <2> QED BY <1>3, <2>1, FirstOrNone
<1>5. SelectInSeq(R.ring, LAMBDA b : b.key = key) = at
  BY <1>1, <1>2, <1>3 DEF SelectInSeq
<1>6. CASE at # 0
  <2>1. out.memo = R /\ out.found = R.ring[at].found
    BY <1>5, <1>6 DEF FindBasis
  <2>2. R.ring[at].key = key
    BY <1>2, <1>4, <1>6
  <2>3. R.ring[at].found = Source.find[R.ring[at].key]
    BY <1>1, <1>4, <1>6 DEF BasesRight
  <2> QED BY <2>1, <2>2, <2>3
<1>7. CASE at = 0
  <2>1. PICK made : made = [key |-> key, found |-> Source.find[key]]
    OBVIOUS
  <2>2. PICK memo : memo = Remember(R, BASIS_CACHE, made)
    OBVIOUS
  <2>3. out.memo = memo /\ out.found = Source.find[key]
    BY <1>5, <1>7, <2>1, <2>2 DEF FindBasis
  <2>4. MemoTable(R)
    BY DEF BasesRight
  <2>5. /\ MemoTable(memo)
        /\ \A i \in 1 .. Len(memo.ring) :
              memo.ring[i] = made \/ \E j \in 1 .. Len(R.ring) : memo.ring[i] = R.ring[j]
    BY <2>2, <2>4, RememberKeeps
  <2>6. made.found = Source.find[made.key]
    BY <2>1
  <2>7. BasesRight(memo)
    BY <2>5, <2>6 DEF BasesRight
  <2> QED BY <2>3, <2>7
<1> QED BY <1>6, <1>7

(* An inverse transform that is kept is that of its irrep, unless memory ran
   out. *)
InverseRight(e) == ~e.starved => e.gid = 0 \/ e.status = Source.inverse[e.gid]
InversesRight(R) == MemoTable(R) /\ \A i \in 1 .. Len(R.ring) : InverseRight(R.ring[i])

\* cached_transform_inverse.
LEMMA InverseAnswered ==
    ASSUME NEW R, NEW g, NEW short, NEW out, InversesRight(R), out = TransformInverse(R, g, short)
    PROVE  /\ InversesRight(out.memo)
           /\ short = NoShortage /\ g # 0 /\ ~out.entry.starved => out.entry.status = Source.inverse[g]
           /\ short = NoShortage /\ Len(R.ring) = 0 => ~out.entry.starved
<1>1. PICK n \in Nat : n = Len(R.ring)
  BY DEF InversesRight, MemoTable
<1>2. PICK I : I = {i \in 1 .. n : R.ring[i].gid = g}
  OBVIOUS
<1>3. PICK at : at = IF I # {} THEN Min(I) ELSE 0
  OBVIOUS
<1>4. at \in 0 .. n /\ (at # 0 => at \in I)
  <2>1. I \subseteq 1 .. n
    BY <1>2
  <2> QED BY <1>3, <2>1, FirstOrNone
<1>5. SelectInSeq(R.ring, LAMBDA e : e.gid = g) = at
  BY <1>1, <1>2, <1>3 DEF SelectInSeq
<1>6. CASE at # 0
  <2>1. PICK e : e = R.ring[at]
    OBVIOUS
  <2>2. out.memo = R /\ out.entry = e
    BY <1>5, <1>6, <2>1 DEF TransformInverse
  <2>3. e.gid = g
    BY <1>2, <1>4, <1>6, <2>1
  <2>4. InverseRight(e)
    BY <1>1, <1>4, <1>6, <2>1 DEF InversesRight
  <2>5. n # 0
    BY <1>4, <1>6
  <2> QED BY <1>1, <2>2, <2>3, <2>4, <2>5 DEF InverseRight
<1>7. CASE at = 0
  <2>1. PICK starved \in BOOLEAN : starved = (short = <<"inverse", "transform">>)
    OBVIOUS
  <2>2. PICK status : status = IF starved THEN "failed" ELSE Source.inverse[g]
    OBVIOUS
  <2>3. PICK made : made = [gid |-> IF status = "ok" /\ short = <<"inverse", "kept">> THEN 0 ELSE g,
                            status |-> status, starved |-> starved]
    OBVIOUS
  <2>4. PICK memo : memo = Remember(R, INVERSE_CACHE, made)
    OBVIOUS
  <2>5. out.memo = memo /\ out.entry = made
    BY <1>5, <1>7, <2>1, <2>2, <2>3, <2>4 DEF TransformInverse
  <2>6. InverseRight(made)
    BY <2>2, <2>3 DEF InverseRight
  <2>7. MemoTable(R)
    BY DEF InversesRight
  <2>8. /\ MemoTable(memo)
        /\ \A i \in 1 .. Len(memo.ring) :
              memo.ring[i] = made \/ \E j \in 1 .. Len(R.ring) : memo.ring[i] = R.ring[j]
    BY <2>4, <2>7, RememberKeeps
  <2>9. InversesRight(memo)
    BY <2>6, <2>8 DEF InversesRight
  <2>10. short = NoShortage => ~starved
    <3>1. NoShortage # <<"inverse", "transform">>
      BY DEF NoShortage
    <3> QED BY <2>1, <3>1
  <2>11. ~starved => made.status = Source.inverse[g]
    BY <2>2, <2>3
  <2>12. made.starved = starved
    BY <2>3
  <2> QED BY <2>5, <2>9, <2>10, <2>11, <2>12
<1> QED BY <1>6, <1>7
-----------------------------------------------------------------------------
\* What is shown depends on the layouts through their statuses and keys, and
\* on the inverse transform only where there must be one.
LEMMA PresentedAlike ==
    ASSUME NEW ask, NEW row, NEW cell, NEW c, NEW b, NEW t, NEW d, NEW e, NEW u,
           c.status = d.status, c.layout.key = d.layout.key,
           b.status = e.status, b.layout.key = e.layout.key,
           Source.type[ask.gid] # 1 => t.status = u.status
    PROVE  Presented(ask, row, cell, c, b, t, NoShortage) = Presented(ask, row, cell, d, e, u, NoShortage)
<1>1. PICK inverse \in BOOLEAN : inverse = (~(Source.type[ask.gid] # 1) \/ t.status = "ok")
  OBVIOUS
<1>2. inverse = (~(Source.type[ask.gid] # 1) \/ u.status = "ok")
  BY <1>1
<1>3. PICK cs : cs = c.status
  OBVIOUS
<1>4. PICK ck : ck = c.layout.key
  OBVIOUS
<1>5. PICK bs : bs = b.status
  OBVIOUS
<1>6. PICK bk : bk = b.layout.key
  OBVIOUS
<1>7. d.status = cs /\ d.layout.key = ck /\ e.status = bs /\ e.layout.key = bk
  BY <1>3, <1>4, <1>5, <1>6
<1> QED BY <1>1, <1>2, <1>3, <1>4, <1>5, <1>6, <1>7 DEF Presented

\* A candidate that fails for good ends the frame.
LEMMA CandidateEnds ==
    ASSUME NEW ask, NEW row, NEW cell, NEW c, NEW b, NEW t,
           c.status \notin {"ok", "none", "value", "empty"}
    PROVE  Presented(ask, row, cell, c, b, t, NoShortage) = NoFrame(c.status)
<1> DEFINE complex == Source.type[ask.gid] # 1
           direction == c.status = "ok" /\ ask.fits
           block == Block(ask, ~complex \/ t.status = "ok", direction, b.status = "ok",
                          ask.rows \/ row # 0, NoShortage)
           checks == << <<c.status \notin {"ok", "none", "value"}, c.status>>,
                        <<b.status = "memory", "memory">>,
                        <<complex /\ NoShortage = <<"frame", "inverse">>, "memory">>,
                        <<direction /\ NoShortage = <<"frame", "direction">>, "memory">>,
                        <<block = "declined" /\ b.status # "none", b.status>>,
                        <<block = "declined", "empty">>,
                        <<block \notin {"ok", "adopted"}, block>> >>
<1>1. Len(checks) \in Nat \ {0}
  OBVIOUS
<1>2. checks[1][1] /\ checks[1][2] = c.status
  OBVIOUS
<1>3. FirstError(checks) = c.status
  <2> HIDE DEF checks
  <2> QED BY <1>1, <1>2, FirstErrorFirst
<1>4. PICK ended : ended = FirstError(checks)
  OBVIOUS
<1>5. Presented(ask, row, cell, c, b, t, NoShortage) =
        IF ended = "empty" THEN FrameAnswer("empty", cell, row, NoLayout.key)
        ELSE IF ended # "ok" THEN NoFrame(ended)
        ELSE FrameAnswer("ok", cell, row, IF block = "adopted" THEN c.layout.key ELSE b.layout.key)
  BY <1>4 DEF Presented
<1>6. ended = c.status
  BY <1>3, <1>4
<1> QED BY <1>5, <1>6

-----------------------------------------------------------------------------
\* The keys of the layouts that a frame asks for.
LEMMA LayoutKeys ==
    ASSUME NEW ask \in AllAsks, ask.site # 0, NEW cell \in Cells
    PROVE  <<ask.sg, ask.site, cell, ask.setting>> \in Layouts
BY AskAssumption

\* How the layouts go when memory suffices.
LEMMA VerdictIs ==
    ASSUME NEW key \in Layouts
    PROVE  Verdict(key) \in {"ok", "value", "runtime", "arith"}
<1>1. Faults[key] \in {"none", "value", "runtime", "range"}
  BY LayoutAssumption
<1> QED BY <1>1 DEF Verdict

(* What a call of materialize leaves: the table, and what it answered among
   what is kept. *)
Left(out) ==
    /\ LayoutTable(out.mem)
    /\ out.layout = NoLayout \/ Present(out.mem, out.layout)

(* What a frame is told of a layout: how the call went, and what it made. *)
Told(out, wanted, key) ==
    /\ ~wanted => out.status = "none" /\ out.layout.key = <<>>
    /\ wanted => out.status = Verdict(key)
                /\ out.layout.key = IF Verdict(key) = "ok" THEN key ELSE <<>>

WantsCandidate(ask, late) ==
    /\ late = "ok" /\ ask.occurrence # NoCell /\ ask.rows
    /\ Source.type[ask.gid] = 1 /\ ask.params # "none" /\ ask.vector # 2

KeyOf(ask, cell) == <<ask.sg, ask.site, cell, ask.setting>>

\* The candidate layout of a frame.
LEMMA CandidateRight ==
    ASSUME NEW L, NEW ask \in AllAsks, NEW late, NEW short, NEW c, LayoutTable(L),
           late = "ok" => ask.site # 0, c = CandidateLayout(L, ask, late, short)
    PROVE  /\ Left(c)
           /\ ~c.hit => c.layout = NoLayout \/ Safe(c.mem, c.layout)
           /\ WantsCandidate(ask, late) => KeyOf(ask, ask.occurrence) \in Layouts
           /\ short = NoShortage => Told(c, WantsCandidate(ask, late), KeyOf(ask, ask.occurrence))
<1>1. PICK key : key = KeyOf(ask, ask.occurrence)
  OBVIOUS
<1>2. CASE ~WantsCandidate(ask, late)
  <2>1. c = Outcome(L, "none", NoLayout, FALSE)
    BY <1>2 DEF CandidateLayout, WantsCandidate
  <2>2. c.mem = L /\ c.status = "none" /\ c.layout = NoLayout
    BY <2>1 DEF Outcome
  <2>3. NoLayout.key = <<>>
    BY DEF NoLayout
  <2> QED BY <1>2, <2>2, <2>3 DEF Left, Told
<1>3. CASE WantsCandidate(ask, late)
  <2>1. ask.occurrence \in Cells
    BY <1>3 DEF WantsCandidate, Cells
  <2>2. ask.site # 0
    BY <1>3 DEF WantsCandidate
  <2>3. key \in Layouts
    BY <1>1, <2>1, <2>2, LayoutKeys DEF KeyOf
  <2>4. PICK at : at = At(short, "candidate")
    OBVIOUS
  <2>5. c = Materialize(L, key, at)
    BY <1>1, <1>3, <2>4 DEF CandidateLayout, WantsCandidate, KeyOf
  <2>6. /\ LayoutTable(c.mem)
        /\ c.layout = NoLayout \/ Present(c.mem, c.layout)
        /\ ~c.hit => c.layout = NoLayout \/ Safe(c.mem, c.layout)
    BY <2>3, <2>5, MaterializeTable
  <2>7. ASSUME short = NoShortage
        PROVE  c.status = Verdict(key) /\ c.layout.key = IF Verdict(key) = "ok" THEN key ELSE <<>>
    <3>1. at = "none"
      BY <2>4, <2>7 DEF At, NoShortage
    <3>2. c = Materialize(L, key, "none")
      BY <2>5, <3>1
    <3> QED BY <2>3, <3>2, MaterializeTells
  <2> QED BY <1>1, <1>3, <2>3, <2>6, <2>7 DEF Left, Told
<1> QED BY <1>2, <1>3

WantsBaseline(cell, late, c) ==
    late = "ok" /\ c.status \in {"ok", "none", "value"} /\ cell # NoCell

\* The baseline layout, made after the candidate.
LEMMA BaselineRight ==
    ASSUME NEW ask \in AllAsks, NEW cell, NEW canonical, NEW late, NEW short, NEW c, NEW b,
           LayoutTable(c.mem), late = "ok" => ask.site # 0,
           late = "ok" => cell \in Cells \cup {NoCell} /\ canonical \in Cells \cup {NoCell},
           b = BaselineLayout(ask, cell, canonical, late, c, short)
    PROVE  /\ Left(b)
           /\ \A e : Safe(c.mem, e) => Present(b.mem, e)
           /\ WantsBaseline(cell, late, c) => KeyOf(ask, BaselineCell(cell, canonical)) \in Layouts
           /\ short = NoShortage =>
                 Told(b, WantsBaseline(cell, late, c), KeyOf(ask, BaselineCell(cell, canonical)))
<1>1. PICK key : key = KeyOf(ask, BaselineCell(cell, canonical))
  OBVIOUS
<1>2. CASE ~WantsBaseline(cell, late, c)
  <2>1. b = Outcome(c.mem, "none", NoLayout, FALSE)
    BY <1>2 DEF BaselineLayout, WantsBaseline
  <2>2. b.mem = c.mem /\ b.status = "none" /\ b.layout = NoLayout
    BY <2>1 DEF Outcome
  <2>3. NoLayout.key = <<>>
    BY DEF NoLayout
  <2>4. \A e : Safe(c.mem, e) => Present(b.mem, e)
    BY <2>2 DEF Safe, Present
  <2> QED BY <1>2, <2>2, <2>3, <2>4 DEF Left, Told
<1>3. CASE WantsBaseline(cell, late, c)
  <2>1. ask.site # 0 /\ cell \in Cells \cup {NoCell} /\ canonical \in Cells \cup {NoCell} /\ cell # NoCell
    BY <1>3 DEF WantsBaseline
  <2>2. BaselineCell(cell, canonical) \in Cells
    <3>1. BaselineCell(cell, canonical) = cell \/ (canonical # NoCell /\ BaselineCell(cell, canonical) = canonical)
      BY DEF BaselineCell
    <3> QED BY <2>1, <3>1
  <2>3. key \in Layouts
    BY <1>1, <2>1, <2>2, LayoutKeys DEF KeyOf
  <2>4. PICK at : at = At(short, "baseline")
    OBVIOUS
  <2>5. PICK L : L = c.mem
    OBVIOUS
  <2>6. b = Materialize(L, key, at)
    BY <1>1, <1>3, <2>4, <2>5 DEF BaselineLayout, WantsBaseline, KeyOf
  <2>7. LayoutTable(L)
    BY <2>5
  <2>8. /\ LayoutTable(b.mem)
        /\ b.layout = NoLayout \/ Present(b.mem, b.layout)
        /\ \A e : Safe(L, e) => Present(b.mem, e)
    BY <2>3, <2>6, <2>7, MaterializeTable
  <2>9. ASSUME short = NoShortage
        PROVE  b.status = Verdict(key) /\ b.layout.key = IF Verdict(key) = "ok" THEN key ELSE <<>>
    <3>1. at = "none"
      BY <2>4, <2>9 DEF At, NoShortage
    <3>2. b = Materialize(L, key, "none")
      BY <2>6, <3>1
    <3> QED BY <2>3, <2>7, <3>2, MaterializeTells
  <2> QED BY <1>1, <1>3, <2>3, <2>5, <2>8, <2>9 DEF Left, Told
<1> QED BY <1>2, <1>3

-----------------------------------------------------------------------------
MemosRight(M) ==
    /\ M = [families |-> M.families, bases |-> M.bases, inverses |-> M.inverses]
    /\ FamiliesRight(M.families) /\ BasesRight(M.bases) /\ InversesRight(M.inverses)

\* The end of a frame: what it keeps, and the layouts it reads.
LEMMA ShownKeeps ==
    ASSUME NEW M, NEW ask, NEW short, NEW family, NEW row, NEW cell, NEW late, NEW c, NEW b, NEW out,
           MemosRight(M), out = FrameShown(M, ask, short, family, row, cell, late, c, b)
    PROVE  /\ MemosRight(out.memos) /\ out.layouts = b.mem
           /\ out.reads = [candidate |-> c.layout, reused |-> c.hit, baseline |-> b.layout]
<1>1. PICK inverted : inverted = TransformInverse(M.inverses, ask.gid, short)
  OBVIOUS
<1>2. out.layouts = b.mem /\ out.reads = [candidate |-> c.layout, reused |-> c.hit, baseline |-> b.layout]
  BY DEF FrameShown
<1>3. out.memos = M \/ out.memos = [M EXCEPT !.inverses = inverted.memo]
  BY <1>1 DEF FrameShown
<1>4. InversesRight(inverted.memo)
  <2>1. PICK R : R = M.inverses
    OBVIOUS
  <2>2. InversesRight(R) /\ inverted = TransformInverse(R, ask.gid, short)
    BY <1>1, <2>1 DEF MemosRight
  <2> QED BY <2>2, InverseAnswered
<1>5. PICK new : new = [M EXCEPT !.inverses = inverted.memo]
  OBVIOUS
<1>6. new = [families |-> M.families, bases |-> M.bases, inverses |-> inverted.memo]
  BY <1>5 DEF MemosRight
<1>7. new.families = M.families /\ new.bases = M.bases /\ new.inverses = inverted.memo
  BY <1>6
<1>8. MemosRight(new)
  BY <1>4, <1>6, <1>7 DEF MemosRight
<1> QED BY <1>2, <1>3, <1>5, <1>8

\* Two ends of a frame answer alike, with other memos and other layouts that
\* went the same way, if memory sufficed.
LEMMA ShownAlike ==
    ASSUME NEW M, NEW N, NEW ask, NEW f, NEW h, NEW row, NEW cell, NEW late,
           NEW c, NEW b, NEW d, NEW e, NEW out, NEW alone,
           MemosRight(M), MemosRight(N), Len(N.inverses.ring) = 0,
           late = "ok" => ask.gid # 0,
           c.status = d.status, c.layout.key = d.layout.key,
           b.status = e.status, b.layout.key = e.layout.key,
           b.status # "memory", c.status # "empty",
           out = FrameShown(M, ask, NoShortage, f, row, cell, late, c, b),
           alone = FrameShown(N, ask, NoShortage, h, row, cell, late, d, e),
           ~out.starved
    PROVE  out.answer = alone.answer
<1>1. PICK t : t = TransformInverse(M.inverses, ask.gid, NoShortage).entry
  OBVIOUS
<1>2. PICK u : u = TransformInverse(N.inverses, ask.gid, NoShortage).entry
  OBVIOUS
<1>3. PICK empty \in BOOLEAN :
        empty = (late = "ok" /\ cell = NoCell /\ ~(ask.occurrence # NoCell /\ ask.rows))
  OBVIOUS
<1>4. out.answer = IF late # "ok" THEN NoFrame(late)
                   ELSE IF empty THEN FrameAnswer("empty", cell, row, NoLayout.key)
                   ELSE Presented(ask, row, cell, c, b, t, NoShortage)
  BY <1>1, <1>3 DEF FrameShown
<1>5. alone.answer = IF late # "ok" THEN NoFrame(late)
                     ELSE IF empty THEN FrameAnswer("empty", cell, row, NoLayout.key)
                     ELSE Presented(ask, row, cell, d, e, u, NoShortage)
  BY <1>2, <1>3 DEF FrameShown
<1>6. CASE late # "ok" \/ empty
  BY <1>4, <1>5, <1>6
<1>7. CASE late = "ok" /\ ~empty /\ c.status \notin {"ok", "none", "value"}
  <2>1. c.status \notin {"ok", "none", "value", "empty"} /\ d.status \notin {"ok", "none", "value", "empty"}
    BY <1>7
  <2>2. Presented(ask, row, cell, c, b, t, NoShortage) = NoFrame(c.status)
    BY <2>1, CandidateEnds
  <2>3. Presented(ask, row, cell, d, e, u, NoShortage) = NoFrame(d.status)
    BY <2>1, CandidateEnds
  <2> QED BY <1>4, <1>5, <1>7, <2>2, <2>3
<1>8. CASE late = "ok" /\ ~empty /\ c.status \in {"ok", "none", "value"}
  <2>1. Source.type[ask.gid] # 1 => t.status = u.status
    <3> SUFFICES ASSUME Source.type[ask.gid] # 1 PROVE t.status = u.status
      OBVIOUS
    <3>1. NoShortage # <<"frame", "inverse">>
      BY DEF NoShortage
    <3>2. t.starved => out.starved
      BY <1>1, <1>3, <1>8, <3>1 DEF FrameShown
    <3>3. ask.gid # 0
      BY <1>8
    <3>4. PICK R : R = M.inverses
      OBVIOUS
    <3>5. PICK S : S = N.inverses
      OBVIOUS
    <3>6. InversesRight(R) /\ InversesRight(S) /\ Len(S.ring) = 0
      BY <3>4, <3>5 DEF MemosRight
    <3>7. PICK g : g = ask.gid
      OBVIOUS
    <3>8. ASSUME NEW p, p = TransformInverse(R, g, NoShortage), ~p.entry.starved
          PROVE  p.entry.status = Source.inverse[g]
      BY <3>3, <3>6, <3>7, <3>8, InverseAnswered
    <3>9. ASSUME NEW p, p = TransformInverse(S, g, NoShortage)
          PROVE  p.entry.status = Source.inverse[g]
      <4>1. ~p.entry.starved
        BY <3>6, <3>9, InverseAnswered
      <4> QED BY <3>3, <3>6, <3>7, <3>9, <4>1, InverseAnswered
    <3> QED BY <1>1, <1>2, <3>2, <3>4, <3>5, <3>7, <3>8, <3>9
  <2>2. Presented(ask, row, cell, c, b, t, NoShortage) = Presented(ask, row, cell, d, e, u, NoShortage)
    BY <2>1, PresentedAlike
  <2> QED BY <1>4, <1>5, <2>2
<1> QED BY <1>6, <1>7, <1>8

-----------------------------------------------------------------------------
(* What a frame leaves behind is as right as what it found, and what it reads
   of the layouts is there: the baseline, and a candidate that it made. *)
FrameRight(out) ==
    /\ MemosRight(out.memos) /\ LayoutTable(out.layouts)
    /\ out.reads.baseline = NoLayout \/ Present(out.layouts, out.reads.baseline)
    /\ ~out.reads.reused =>
          out.reads.candidate = NoLayout \/ Present(out.layouts, out.reads.candidate)

(* A frame that gets to its layouts has a site, and cells of the tables. *)
Placeable(ask, cell, canonical, late) ==
    late = "ok" => /\ ask.site # 0
                   /\ cell \in Cells \cup {NoCell} /\ canonical \in Cells \cup {NoCell}

\* From the layouts on, a frame leaves memos and layouts right.
LEMMA WithLayoutsRight ==
    ASSUME NEW M, NEW L, NEW ask \in AllAsks, NEW short, NEW family, NEW row, NEW cell,
           NEW canonical, NEW late, NEW c, NEW out, MemosRight(M), LayoutTable(L),
           Placeable(ask, cell, canonical, late), c = CandidateLayout(L, ask, late, short),
           out = WithLayouts(M, ask, short, family, row, cell, canonical, late, c)
    PROVE  FrameRight(out)
<1>1. late = "ok" => ask.site # 0
  BY DEF Placeable
<1>2. late = "ok" => cell \in Cells \cup {NoCell} /\ canonical \in Cells \cup {NoCell}
  BY DEF Placeable
<1>3. Left(c) /\ (~c.hit => c.layout = NoLayout \/ Safe(c.mem, c.layout))
  BY <1>1, CandidateRight
<1>4. PICK b : b = BaselineLayout(ask, cell, canonical, late, c, short)
  OBVIOUS
<1>5. LayoutTable(c.mem)
  BY <1>3 DEF Left
<1>6. Left(b) /\ \A e : Safe(c.mem, e) => Present(b.mem, e)
  BY <1>1, <1>2, <1>4, <1>5, BaselineRight
<1>7. out = FrameShown(M, ask, short, family, row, cell, late, c, b)
  BY <1>4 DEF WithLayouts
<1>8. /\ MemosRight(out.memos) /\ out.layouts = b.mem
      /\ out.reads = [candidate |-> c.layout, reused |-> c.hit, baseline |-> b.layout]
  BY <1>7, ShownKeeps
<1>9. out.reads.candidate = c.layout /\ out.reads.reused = c.hit /\ out.reads.baseline = b.layout
  BY <1>8
<1> QED BY <1>3, <1>6, <1>8, <1>9 DEF Left, FrameRight

\* Two processes, of which the second keeps no inverse transform.
Histories(M, N, L, K) ==
    /\ MemosRight(M) /\ MemosRight(N) /\ Len(N.inverses.ring) = 0
    /\ LayoutTable(L) /\ LayoutTable(K)

\* A frame ended this way, where memory did not run out.
Ended(out, L, M, ask, f, row, cell, canonical, late) ==
    out = WithLayouts(M, ask, NoShortage, f, row, cell, canonical, late,
                      CandidateLayout(L, ask, late, NoShortage))

\* From the layouts on, two processes answer the same frame alike, unless
\* the first used a transform that was made in want of memory.
LEMMA WithLayoutsAlike ==
    ASSUME NEW M, NEW N, NEW L, NEW K, NEW ask \in AllAsks, NEW f, NEW h, NEW row, NEW cell,
           NEW canonical, NEW late, NEW out, NEW alone,
           Histories(M, N, L, K), Placeable(ask, cell, canonical, late), late = "ok" => ask.gid # 0,
           Ended(out, L, M, ask, f, row, cell, canonical, late),
           Ended(alone, K, N, ask, h, row, cell, canonical, late),
           ~out.starved
    PROVE  out.answer = alone.answer
<1>01. PICK c : c = CandidateLayout(L, ask, late, NoShortage)
  OBVIOUS
<1>02. PICK d : d = CandidateLayout(K, ask, late, NoShortage)
  OBVIOUS
<1>03. LayoutTable(L) /\ LayoutTable(K)
  BY DEF Histories
<1>04. MemosRight(M) /\ MemosRight(N) /\ Len(N.inverses.ring) = 0
  BY DEF Histories
<1>05. out = WithLayouts(M, ask, NoShortage, f, row, cell, canonical, late, c)
  BY <1>01 DEF Ended
<1>06. alone = WithLayouts(N, ask, NoShortage, h, row, cell, canonical, late, d)
  BY <1>02 DEF Ended
<1>1. late = "ok" => ask.site # 0
  BY DEF Placeable
<1>2. late = "ok" => cell \in Cells \cup {NoCell} /\ canonical \in Cells \cup {NoCell}
  BY DEF Placeable
<1>3. PICK key : key = KeyOf(ask, ask.occurrence)
  OBVIOUS
<1>4. PICK wants \in BOOLEAN : wants = WantsCandidate(ask, late)
  BY DEF WantsCandidate
<1>5. /\ LayoutTable(c.mem) /\ Told(c, wants, key)
      /\ wants => key \in Layouts
  BY <1>01, <1>02, <1>03, <1>1, <1>3, <1>4, CandidateRight DEF Left
<1>6. LayoutTable(d.mem) /\ Told(d, wants, key)
  BY <1>01, <1>02, <1>03, <1>1, <1>3, <1>4, CandidateRight DEF Left
<1>7. c.status = d.status /\ c.layout.key = d.layout.key /\ c.status # "empty"
  <2>1. CASE wants
    <3>1. Verdict(key) \in {"ok", "value", "runtime", "arith"}
      BY <1>5, <2>1, VerdictIs
    <3> QED BY <1>5, <1>6, <2>1, <3>1 DEF Told
  <2>2. CASE ~wants
    BY <1>5, <1>6, <2>2 DEF Told
  <2> QED BY <2>1, <2>2
<1>8. PICK place : place = KeyOf(ask, BaselineCell(cell, canonical))
  OBVIOUS
<1>9. PICK both \in BOOLEAN : both = WantsBaseline(cell, late, c)
  BY DEF WantsBaseline
<1>10. both = WantsBaseline(cell, late, d)
  BY <1>7, <1>9 DEF WantsBaseline
<1>11. PICK b : b = BaselineLayout(ask, cell, canonical, late, c, NoShortage)
  OBVIOUS
<1>12. PICK e : e = BaselineLayout(ask, cell, canonical, late, d, NoShortage)
  OBVIOUS
<1>13. Told(b, both, place) /\ (both => place \in Layouts)
  BY <1>1, <1>2, <1>5, <1>8, <1>9, <1>11, BaselineRight
<1>14. Told(e, both, place)
  BY <1>1, <1>2, <1>6, <1>8, <1>10, <1>12, BaselineRight
<1>15. b.status = e.status /\ b.layout.key = e.layout.key /\ b.status # "memory"
  <2>1. CASE both
    <3>1. Verdict(place) \in {"ok", "value", "runtime", "arith"}
      BY <1>13, <2>1, VerdictIs
    <3> QED BY <1>13, <1>14, <2>1, <3>1 DEF Told
  <2>2. CASE ~both
    BY <1>13, <1>14, <2>2 DEF Told
  <2> QED BY <2>1, <2>2
<1>16. out = FrameShown(M, ask, NoShortage, f, row, cell, late, c, b)
  BY <1>05, <1>11 DEF WithLayouts
<1>17. alone = FrameShown(N, ask, NoShortage, h, row, cell, late, d, e)
  BY <1>06, <1>12 DEF WithLayouts
<1>18. c.status = d.status
  BY <1>7
<1>19. c.layout.key = d.layout.key
  BY <1>7
<1>20. c.status # "empty"
  BY <1>7
<1>21. b.status = e.status
  BY <1>15
<1>22. b.layout.key = e.layout.key
  BY <1>15
<1>23. b.status # "memory"
  BY <1>15
<1> QED BY <1>04, <1>16, <1>17, <1>18, <1>19, <1>20, <1>21, <1>22, <1>23, ShownAlike

\* The row of a frame is one of its irrep's, or none.
LEMMA ChosenRowIs ==
    ASSUME NEW ask, NEW rows, Len(rows) \in Nat
    PROVE  ChosenRow(ask, rows) \in 0 .. Len(rows)
<1>1. CASE rows = <<>>
  BY <1>1 DEF ChosenRow
<1>2. CASE rows # <<>>
  <2>1. PICK n \in Nat : n = Len(rows)
    OBVIOUS
  <2>2. PICK named : named = IF ask.row = 0 THEN 0 ELSE SelectInSeq(rows, LAMBDA r : r.id = ask.row)
    OBVIOUS
  <2>3. PICK fitting :
          fitting = IF ask.params = "none"
                    THEN SelectInSeq(rows, LAMBDA r : \A other \in Range(rows) : r.rank <= other.rank)
                    ELSE IF ask.entries = "some" THEN SelectInSeq(rows, LAMBDA r : r.direction = ask.site) ELSE 0
    OBVIOUS
  <2>4. PICK home : home = SelectInSeq(rows, LAMBDA r : r.home)
    OBVIOUS
  <2>5. named \in 0 .. n
    <3>1. PICK I : I = {i \in 1 .. n : rows[i].id = ask.row}
      OBVIOUS
    <3>2. PICK first : first = IF I # {} THEN Min(I) ELSE 0
      OBVIOUS
    <3>3. I \subseteq 1 .. n
      BY <3>1
    <3>4. first \in 0 .. n
      BY <3>2, <3>3, FirstOrNone
    <3>5. SelectInSeq(rows, LAMBDA r : r.id = ask.row) = first
      BY <2>1, <3>1, <3>2 DEF SelectInSeq
    <3> QED BY <2>2, <3>4, <3>5
  <2>6. fitting \in 0 .. n
    <3>1. PICK I : I = {i \in 1 .. n : \A other \in Range(rows) : rows[i].rank <= other.rank}
      OBVIOUS
    <3>2. PICK first : first = IF I # {} THEN Min(I) ELSE 0
      OBVIOUS
    <3>3. I \subseteq 1 .. n
      BY <3>1
    <3>4. first \in 0 .. n
      BY <3>2, <3>3, FirstOrNone
    <3>5. SelectInSeq(rows, LAMBDA r : \A other \in Range(rows) : r.rank <= other.rank) = first
      BY <2>1, <3>1, <3>2 DEF SelectInSeq
    <3>6. PICK J : J = {i \in 1 .. n : rows[i].direction = ask.site}
      OBVIOUS
    <3>7. PICK next : next = IF J # {} THEN Min(J) ELSE 0
      OBVIOUS
    <3>8. J \subseteq 1 .. n
      BY <3>6
    <3>9. next \in 0 .. n
      BY <3>7, <3>8, FirstOrNone
    <3>10. SelectInSeq(rows, LAMBDA r : r.direction = ask.site) = next
      BY <2>1, <3>6, <3>7 DEF SelectInSeq
    <3> QED BY <2>3, <3>4, <3>5, <3>9, <3>10
  <2>7. home \in 0 .. n
    <3>1. PICK I : I = {i \in 1 .. n : rows[i].home}
      OBVIOUS
    <3>2. PICK first : first = IF I # {} THEN Min(I) ELSE 0
      OBVIOUS
    <3>3. I \subseteq 1 .. n
      BY <3>1
    <3>4. first \in 0 .. n
      BY <3>2, <3>3, FirstOrNone
    <3>5. SelectInSeq(rows, LAMBDA r : r.home) = first
      BY <2>1, <3>1, <3>2 DEF SelectInSeq
    <3> QED BY <2>4, <3>4, <3>5
  <2>8. 1 \in 0 .. n
    BY <1>2, <2>1
  <2>9. PICK tries : tries = <<named, fitting, home, 1>>
    OBVIOUS
  <2>10. PICK I : I = {i \in 1 .. 4 : tries[i] # 0}
    OBVIOUS
  <2>11. 4 \in I
    BY <2>9, <2>10
  <2>12. PICK j : j = Min(I)
    OBVIOUS
  <2>13. j \in I
    <3>1. I \subseteq Nat /\ I # {}
      BY <2>10, <2>11
    <3> QED BY <2>12, <3>1, LeastIsMin
  <2>14. SelectInSeq(tries, LAMBDA i : i # 0) = j
    <3>1. Len(tries) = 4
      BY <2>9
    <3>2. {i \in 1 .. Len(tries) : tries[i] # 0} = I
      BY <2>10, <3>1
    <3>3. I # {}
      BY <2>11
    <3> QED BY <2>12, <3>2, <3>3 DEF SelectInSeq
  <2>15. tries[j] \in 0 .. n
    <3>1. j = 1 \/ j = 2 \/ j = 3 \/ j = 4
      BY <2>10, <2>13
    <3> QED BY <2>5, <2>6, <2>7, <2>8, <2>9, <3>1
  <2>16. ChosenRow(ask, rows) = tries[j]
    BY <1>2, <2>2, <2>3, <2>4, <2>9, <2>14 DEF ChosenRow
  <2> QED BY <2>1, <2>15, <2>16
<1> QED BY <1>1, <1>2

\* The cells a frame comes to are cells of the tables.
LEMMA FrameCells ==
    ASSUME NEW ask \in AllAsks, ask.gid \in Irreps, NEW family, NEW found,
           family.canonical \in Cells \cup {NoCell}, found.cell \in Cells \cup {NoCell},
           NEW rows, rows = Source.rows[ask.gid], NEW at, at = ChosenRow(ask, rows)
    PROVE  /\ ChosenCell(ask, rows, at, found.cell) \in Cells \cup {NoCell}
           /\ (IF family.canonical # NoCell THEN family.canonical ELSE found.cell)
                 \in Cells \cup {NoCell}
<1>1. rows \in Seq(Range(rows))
  BY SourceAssumption
<1>2. PICK n \in Nat : n = Len(rows)
  BY <1>1
<1>3. at \in 0 .. n
  BY <1>2, ChosenRowIs
<1>4. ask.cell \in Cells \cup {NoCell}
  BY DEF Cells
<1>5. at # 0 => rows[at].cell \in Cells \cup {NoCell}
  <2> SUFFICES ASSUME at # 0 PROVE rows[at].cell \in Cells \cup {NoCell}
    OBVIOUS
  <2>1. at \in 1 .. n
    BY <1>3
  <2>2. rows[at] \in Range(rows)
    BY <1>1, <1>2, <2>1
  <2>3. rows[at] \in UNION {Range(Source.rows[g]) : g \in Irreps}
    BY <2>2
  <2>4. rows[at].cell \in {row.cell : row \in UNION {Range(Source.rows[g]) : g \in Irreps}}
    BY <2>3
  <2> QED BY <2>4 DEF Cells
<1>6. ChosenCell(ask, rows, at, found.cell) =
        IF ask.rows \/ (ask.row # 0 /\ \E r \in Range(rows) : r.id = ask.row) THEN ask.cell
        ELSE IF at # 0 THEN rows[at].cell ELSE found.cell
  BY DEF ChosenCell
<1> QED BY <1>4, <1>5, <1>6

(* A frame past its first errors asks about a site, for an irrep, and has
   cells of the tables. *)
Ready(ask, family, found, early) ==
    early = "ok" =>
        /\ ask.site # 0 /\ ask.gid \in Irreps
        /\ family.canonical \in Cells \cup {NoCell} /\ found.cell \in Cells \cup {NoCell}

\* From its rows on, a frame leaves memos and layouts right.
LEMMA LocatedRight ==
    ASSUME NEW M, NEW L, NEW ask \in AllAsks, NEW short, NEW family, NEW found, NEW early, NEW out,
           MemosRight(M), LayoutTable(L), Ready(ask, family, found, early),
           out = Located(L, M, ask, short, family, found, early)
    PROVE  FrameRight(out)
<1>1. PICK rows : rows = Source.rows[ask.gid]
  OBVIOUS
<1>2. PICK at : at = ChosenRow(ask, rows)
  OBVIOUS
<1>3. PICK late : late = IF early = "ok" THEN LateError(ask, found, rows, at, short) ELSE early
  OBVIOUS
<1>4. PICK row : row = IF at = 0 THEN 0 ELSE rows[at].id
  OBVIOUS
<1>5. PICK cell : cell = ChosenCell(ask, rows, at, found.cell)
  OBVIOUS
<1>6. PICK canonical : canonical = IF family.canonical # NoCell THEN family.canonical ELSE found.cell
  OBVIOUS
<1>7. PICK c : c = CandidateLayout(L, ask, late, short)
  OBVIOUS
<1>8. out = WithLayouts(M, ask, short, family, row, cell, canonical, late, c)
  BY <1>1, <1>2, <1>3, <1>4, <1>5, <1>6, <1>7 DEF Located
<1>9. Placeable(ask, cell, canonical, late)
  <2> SUFFICES ASSUME late = "ok"
               PROVE  /\ ask.site # 0
                      /\ cell \in Cells \cup {NoCell} /\ canonical \in Cells \cup {NoCell}
    BY DEF Placeable
  <2>1. early = "ok"
    BY <1>3
  <2>2. /\ ask.site # 0 /\ ask.gid \in Irreps
        /\ family.canonical \in Cells \cup {NoCell} /\ found.cell \in Cells \cup {NoCell}
    BY <2>1 DEF Ready
  <2>3. ask.gid \in Irreps
    BY <2>2
  <2>4. family.canonical \in Cells \cup {NoCell}
    BY <2>2
  <2>5. found.cell \in Cells \cup {NoCell}
    BY <2>2
  <2> QED BY <1>1, <1>2, <1>5, <1>6, <2>2, <2>3, <2>4, <2>5, FrameCells
<1> QED BY <1>7, <1>8, <1>9, WithLayoutsRight

\* From their rows on, two processes answer the same frame alike.
LEMMA LocatedAlike ==
    ASSUME NEW M, NEW N, NEW L, NEW K, NEW ask \in AllAsks, NEW f, NEW h, NEW found, NEW early,
           NEW out, NEW alone,
           Histories(M, N, L, K),
           Ready(ask, f, found, early), early = "ok" => f = h,
           out = Located(L, M, ask, NoShortage, f, found, early),
           alone = Located(K, N, ask, NoShortage, h, found, early),
           ~out.starved
    PROVE  out.answer = alone.answer
<1>1. PICK rows : rows = Source.rows[ask.gid]
  OBVIOUS
<1>2. PICK at : at = ChosenRow(ask, rows)
  OBVIOUS
<1>3. PICK late : late = IF early = "ok" THEN LateError(ask, found, rows, at, NoShortage) ELSE early
  OBVIOUS
<1>4. PICK row : row = IF at = 0 THEN 0 ELSE rows[at].id
  OBVIOUS
<1>5. PICK cell : cell = ChosenCell(ask, rows, at, found.cell)
  OBVIOUS
<1>6. PICK canonical : canonical = IF f.canonical # NoCell THEN f.canonical ELSE found.cell
  OBVIOUS
<1>7. PICK other : other = IF h.canonical # NoCell THEN h.canonical ELSE found.cell
  OBVIOUS
<1>8. Ended(out, L, M, ask, f, row, cell, canonical, late)
  BY <1>1, <1>2, <1>3, <1>4, <1>5, <1>6 DEF Located, Ended
<1>9. Ended(alone, K, N, ask, h, row, cell, other, late)
  BY <1>1, <1>2, <1>3, <1>4, <1>5, <1>7 DEF Located, Ended
<1>12. CASE early # "ok"
  <2>1. late # "ok"
    BY <1>3, <1>12
  <2>2. out.answer = NoFrame(late)
    BY <1>8, <2>1 DEF Ended, WithLayouts, FrameShown
  <2>3. alone.answer = NoFrame(late)
    BY <1>9, <2>1 DEF Ended, WithLayouts, FrameShown
  <2> QED BY <2>2, <2>3
<1>13. CASE early = "ok"
  <2>1. other = canonical
    BY <1>6, <1>7, <1>13
  <2>2. /\ ask.site # 0 /\ ask.gid \in Irreps
        /\ f.canonical \in Cells \cup {NoCell} /\ found.cell \in Cells \cup {NoCell}
    BY <1>13 DEF Ready
  <2>3. ask.gid \in Irreps
    BY <2>2
  <2>4. f.canonical \in Cells \cup {NoCell}
    BY <2>2
  <2>5. found.cell \in Cells \cup {NoCell}
    BY <2>2
  <2>6. cell \in Cells \cup {NoCell} /\ canonical \in Cells \cup {NoCell}
    BY <1>1, <1>2, <1>5, <1>6, <2>3, <2>4, <2>5, FrameCells
  <2>7. Placeable(ask, cell, canonical, late)
    BY <2>2, <2>6 DEF Placeable
  <2>8. ask.gid # 0
    BY <2>3, SourceAssumption
  <2>9. Ended(alone, K, N, ask, h, row, cell, canonical, late)
    BY <1>9, <2>1
  <2>10. late = "ok" => ask.gid # 0
    BY <2>8
  <2> QED BY <1>8, <2>7, <2>9, <2>10, WithLayoutsAlike
<1> QED BY <1>12, <1>13
-----------------------------------------------------------------------------
\* What a parametric k was asked for has a cell of the tables, or none.
LEMMA FoundCell ==
    ASSUME NEW ask \in AllAsks, ask.params # "none", Source.slots[ask.sg, ask.k] = 1
    PROVE  Source.find[<<ask.sg, ask.k, ask.params>>].cell \in Cells \cup {NoCell}
<1>1. PICK key : key = <<ask.sg, ask.k, ask.params>>
  OBVIOUS
<1>2. key \in DOMAIN Source.find
  BY <1>1, AskAssumption
<1>3. Source.find[key].cell \in {Source.find[x].cell : x \in DOMAIN Source.find}
  BY <1>2
<1>4. PICK cell : cell = Source.find[key].cell
  OBVIOUS
<1>5. CASE cell = NoCell
  BY <1>1, <1>4, <1>5
<1>6. CASE cell # NoCell
  BY <1>1, <1>3, <1>4, <1>6 DEF Cells
<1> QED BY <1>5, <1>6

(* The first error, "ok" of a frame that asks about a site for an irrep of
   the k, and for a parametric cell only of a k with one parameter. *)
Asked(ask, family, early) ==
    early = "ok" =>
        /\ ask.site # 0 /\ ask.gid \in Irreps
        /\ family.canonical \in Cells \cup {NoCell}
        /\ ask.params # "none" => Source.slots[ask.sg, ask.k] = 1

(* The cell of a parametric k, for a frame that gets to it. *)
FoundFor(ask, early) ==
    IF early = "ok" /\ ask.params # "none" THEN Source.find[<<ask.sg, ask.k, ask.params>>]
    ELSE [status |-> "ok", cell |-> NoCell]

\* A frame that gets to its rows is ready for them.
LEMMA FoundReady ==
    ASSUME NEW ask \in AllAsks, NEW family, NEW early, Asked(ask, family, early)
    PROVE  Ready(ask, family, FoundFor(ask, early), early)
<1> SUFFICES ASSUME early = "ok"
             PROVE  /\ ask.site # 0 /\ ask.gid \in Irreps
                    /\ family.canonical \in Cells \cup {NoCell}
                    /\ FoundFor(ask, early).cell \in Cells \cup {NoCell}
  BY DEF Ready
<1>1. /\ ask.site # 0 /\ ask.gid \in Irreps
      /\ family.canonical \in Cells \cup {NoCell}
      /\ ask.params # "none" => Source.slots[ask.sg, ask.k] = 1
  BY DEF Asked
<1>2. CASE ask.params # "none"
  BY <1>1, <1>2, FoundCell DEF FoundFor
<1>3. CASE ask.params = "none"
  <2>1. FoundFor(ask, early) = [status |-> "ok", cell |-> NoCell]
    BY <1>3 DEF FoundFor
  <2>2. FoundFor(ask, early).cell = NoCell
    BY <2>1
  <2> QED BY <1>1, <2>2
<1> QED BY <1>1, <1>2, <1>3

\* The memos after the parametric cell was looked for.
BasedMemos(M, ask, early) ==
    IF early = "ok" /\ ask.params # "none"
    THEN [M EXCEPT !.bases = FindBasis(M.bases, <<ask.sg, ask.k, ask.params>>).memo]
    ELSE M

\* A frame goes on from the parametric cell with what the tables say.
LEMMA ParametrizedIs ==
    ASSUME NEW L, NEW M, NEW ask, NEW short, NEW family, NEW early, MemosRight(M)
    PROVE  /\ Parametrized(L, M, ask, short, family, early)
                = Located(L, BasedMemos(M, ask, early), ask, short, family, FoundFor(ask, early), early)
           /\ MemosRight(BasedMemos(M, ask, early))
           /\ BasedMemos(M, ask, early).inverses = M.inverses
<1>1. PICK key : key = <<ask.sg, ask.k, ask.params>>
  OBVIOUS
<1>2. PICK based : based = FindBasis(M.bases, key)
  OBVIOUS
<1>3. /\ M = [families |-> M.families, bases |-> M.bases, inverses |-> M.inverses]
      /\ FamiliesRight(M.families) /\ BasesRight(M.bases) /\ InversesRight(M.inverses)
  BY DEF MemosRight
<1>4. BasesRight(based.memo) /\ based.found = Source.find[key]
  BY <1>2, <1>3, FindBasisRight
<1>5. PICK wanted \in BOOLEAN : wanted = (early = "ok" /\ ask.params # "none")
  OBVIOUS
<1>6. PICK after : after = IF wanted THEN [M EXCEPT !.bases = based.memo] ELSE M
  OBVIOUS
<1>7. after = BasedMemos(M, ask, early)
  BY <1>1, <1>2, <1>5, <1>6 DEF BasedMemos
<1>8. after.families = M.families /\ after.inverses = M.inverses
  BY <1>3, <1>6
<1>9. after.bases = IF wanted THEN based.memo ELSE M.bases
  BY <1>3, <1>6
<1>10. after = [families |-> after.families, bases |-> after.bases, inverses |-> after.inverses]
  BY <1>3, <1>6
<1>11. MemosRight(after)
  BY <1>3, <1>4, <1>8, <1>9, <1>10 DEF MemosRight
<1>12. PICK found : found = IF wanted THEN based.found ELSE [status |-> "ok", cell |-> NoCell]
  OBVIOUS
<1>13. found = FoundFor(ask, early)
  BY <1>1, <1>4, <1>5, <1>12 DEF FoundFor
<1>14. Parametrized(L, M, ask, short, family, early) = Located(L, after, ask, short, family, found, early)
  BY <1>1, <1>2, <1>5, <1>6, <1>12 DEF Parametrized
<1> QED BY <1>7, <1>8, <1>11, <1>13, <1>14

\* From the family on, a frame leaves things right.
LEMMA ParametrizedRight ==
    ASSUME NEW M, NEW L, NEW ask \in AllAsks, NEW short, NEW family, NEW early, NEW out,
           MemosRight(M), LayoutTable(L), Asked(ask, family, early),
           out = Parametrized(L, M, ask, short, family, early)
    PROVE  FrameRight(out)
<1>1. PICK after : after = BasedMemos(M, ask, early)
  OBVIOUS
<1>2. PICK found : found = FoundFor(ask, early)
  OBVIOUS
<1>3. out = Located(L, after, ask, short, family, found, early) /\ MemosRight(after)
  BY <1>1, <1>2, ParametrizedIs
<1>4. Ready(ask, family, found, early)
  BY <1>2, FoundReady
<1> QED BY <1>3, <1>4, LocatedRight

\* From the family on, two processes answer the same frame alike.
LEMMA ParametrizedAlike ==
    ASSUME NEW M, NEW N, NEW L, NEW K, NEW ask \in AllAsks, NEW f, NEW h, NEW early, NEW out, NEW alone,
           Histories(M, N, L, K), Asked(ask, f, early), early = "ok" => f = h,
           out = Parametrized(L, M, ask, NoShortage, f, early),
           alone = Parametrized(K, N, ask, NoShortage, h, early),
           ~out.starved
    PROVE  out.answer = alone.answer
<1>1. PICK after : after = BasedMemos(M, ask, early)
  OBVIOUS
<1>2. PICK other : other = BasedMemos(N, ask, early)
  OBVIOUS
<1>3. PICK found : found = FoundFor(ask, early)
  OBVIOUS
<1>4. MemosRight(M) /\ MemosRight(N) /\ Len(N.inverses.ring) = 0 /\ LayoutTable(L) /\ LayoutTable(K)
  BY DEF Histories
<1>5. out = Located(L, after, ask, NoShortage, f, found, early) /\ MemosRight(after)
  BY <1>1, <1>3, <1>4, ParametrizedIs
<1>6. /\ alone = Located(K, other, ask, NoShortage, h, found, early) /\ MemosRight(other)
      /\ other.inverses = N.inverses
  BY <1>2, <1>3, <1>4, ParametrizedIs
<1>7. Ready(ask, f, found, early)
  BY <1>3, FoundReady
<1>8. Histories(after, other, L, K)
  BY <1>4, <1>5, <1>6 DEF Histories
<1>9. out = Located(L, after, ask, NoShortage, f, found, early)
  BY <1>5
<1>10. alone = Located(K, other, ask, NoShortage, h, found, early)
  BY <1>6
<1> QED BY <1>7, <1>8, <1>9, <1>10, LocatedAlike

\* A frame about a site, whose family ran out of memory, says so.
LEMMA StarvedSays ==
    ASSUME NEW M, NEW L, NEW ask, NEW short, NEW family, NEW early, NEW out,
           out = Parametrized(L, M, ask, short, family, early),
           MemosRight(M), ask.site # 0, family.status = "memory"
    PROVE  out.starved
<1>1. PICK after : after = BasedMemos(M, ask, early)
  OBVIOUS
<1>2. PICK found : found = FoundFor(ask, early)
  OBVIOUS
<1>3. out = Located(L, after, ask, short, family, found, early)
  BY <1>1, <1>2, ParametrizedIs
<1>4. PICK rows : rows = Source.rows[ask.gid]
  OBVIOUS
<1>5. PICK at : at = ChosenRow(ask, rows)
  OBVIOUS
<1>6. PICK late : late = IF early = "ok" THEN LateError(ask, found, rows, at, short) ELSE early
  OBVIOUS
<1>7. PICK row : row = IF at = 0 THEN 0 ELSE rows[at].id
  OBVIOUS
<1>8. PICK cell : cell = ChosenCell(ask, rows, at, found.cell)
  OBVIOUS
<1>9. PICK canonical : canonical = IF family.canonical # NoCell THEN family.canonical ELSE found.cell
  OBVIOUS
<1>10. PICK c : c = CandidateLayout(L, ask, late, short)
  OBVIOUS
<1>11. out = WithLayouts(after, ask, short, family, row, cell, canonical, late, c)
  BY <1>3, <1>4, <1>5, <1>6, <1>7, <1>8, <1>9, <1>10 DEF Located
<1>12. PICK b : b = BaselineLayout(ask, cell, canonical, late, c, short)
  OBVIOUS
<1>13. out = FrameShown(after, ask, short, family, row, cell, late, c, b)
  BY <1>11, <1>12 DEF WithLayouts
<1> QED BY <1>13 DEF FrameShown

-----------------------------------------------------------------------------
\* How a frame begins.
EarlyOf(ask, family, short) == IF ask.site # 0 THEN EarlyError(ask, family, short) ELSE "key"
FamiliedMemos(M, ask, families) == IF ask.site # 0 THEN [M EXCEPT !.families = families] ELSE M

\* The memos are right with the family that was looked up.
LEMMA FamiliedRight ==
    ASSUME NEW M, NEW ask, NEW families, NEW after, MemosRight(M), FamiliesRight(families),
           after = FamiliedMemos(M, ask, families)
    PROVE  MemosRight(after) /\ after.inverses = M.inverses
<1>1. /\ M = [families |-> M.families, bases |-> M.bases, inverses |-> M.inverses]
      /\ FamiliesRight(M.families) /\ BasesRight(M.bases) /\ InversesRight(M.inverses)
  BY DEF MemosRight
<1>2. CASE ask.site # 0
  <2>1. after = [M EXCEPT !.families = families]
    BY <1>2 DEF FamiliedMemos
  <2>2. after.families = families /\ after.bases = M.bases /\ after.inverses = M.inverses
    BY <1>1, <2>1
  <2>3. after = [families |-> after.families, bases |-> after.bases, inverses |-> after.inverses]
    BY <1>1, <2>1
  <2> QED BY <1>1, <2>2, <2>3 DEF MemosRight
<1>3. CASE ~(ask.site # 0)
  BY <1>3 DEF FamiliedMemos
<1> QED BY <1>2, <1>3

\* The first error, once the family is known.
LEMMA EarlyAsked ==
    ASSUME NEW ask, NEW family, NEW short, NEW early, early = EarlyOf(ask, family, short),
           family.littles \subseteq Irreps, family.canonical \in Cells \cup {NoCell}
    PROVE  Asked(ask, family, early)
<1> SUFFICES ASSUME early = "ok"
             PROVE  /\ ask.site # 0 /\ ask.gid \in Irreps
                    /\ ask.params # "none" => Source.slots[ask.sg, ask.k] = 1
  BY DEF Asked
<1>1. ask.site # 0 /\ EarlyError(ask, family, short) = "ok"
  BY DEF EarlyOf
<1> QED BY <1>1, EarlyTells

\* mode_frame begins with the family.
LEMMA FrameBegins ==
    ASSUME NEW L, NEW M, NEW ask, NEW short, NEW looked,
           looked = KFamilyOf(M.families, ask.sg, ask.k, short)
    PROVE  ModeFrame(L, M, ask, short)
             = Parametrized(L, FamiliedMemos(M, ask, looked.memo), ask, short, looked.family,
                            EarlyOf(ask, looked.family, short))
<1>1. PICK sited \in BOOLEAN : sited = (ask.site # 0)
  OBVIOUS
<1>2. PICK after : after = IF sited THEN [M EXCEPT !.families = looked.memo] ELSE M
  OBVIOUS
<1>3. PICK early : early = IF sited THEN EarlyError(ask, looked.family, short) ELSE "key"
  OBVIOUS
<1>4. ModeFrame(L, M, ask, short) = Parametrized(L, after, ask, short, looked.family, early)
  BY <1>1, <1>2, <1>3 DEF ModeFrame, AfterFamily
<1>5. after = FamiliedMemos(M, ask, looked.memo)
  BY <1>1, <1>2 DEF FamiliedMemos
<1>6. early = EarlyOf(ask, looked.family, short)
  BY <1>1, <1>3 DEF EarlyOf
<1> QED BY <1>4, <1>5, <1>6

\* A frame leaves the memos and the layouts right, and reads what is there.
LEMMA ModeFrameRight ==
    ASSUME NEW M, NEW L, NEW ask \in AllAsks, NEW short, NEW out, MemosRight(M), LayoutTable(L),
           out = ModeFrame(L, M, ask, short)
    PROVE  FrameRight(out)
<1>1. PICK looked : looked = KFamilyOf(M.families, ask.sg, ask.k, short)
  OBVIOUS
<1>2. ask.sg \in Nat
  BY AskAssumption
<1>3. FamiliesRight(M.families)
  BY DEF MemosRight
<1>4. /\ FamiliesRight(looked.memo)
      /\ looked.family.littles \subseteq Irreps /\ looked.family.canonical \in Cells \cup {NoCell}
  BY <1>1, <1>2, <1>3, KFamilyRight
<1>5. PICK family : family = looked.family
  OBVIOUS
<1>6. PICK after : after = FamiliedMemos(M, ask, looked.memo)
  OBVIOUS
<1>7. PICK early : early = EarlyOf(ask, family, short)
  OBVIOUS
<1>8. out = Parametrized(L, after, ask, short, family, early)
  BY <1>1, <1>5, <1>6, <1>7, FrameBegins
<1>9. MemosRight(after)
  BY <1>4, <1>6, FamiliedRight
<1>10. Asked(ask, family, early)
  BY <1>4, <1>5, <1>7, EarlyAsked
<1> QED BY <1>8, <1>9, <1>10, ParametrizedRight

\* The memos of a process that was asked for nothing.
LEMMA NoMemosRight == MemosRight(NoMemos) /\ Len(NoMemos.families.ring) = 0 /\ Len(NoMemos.inverses.ring) = 0
<1>1. MemoTable(NoEntries) /\ Len(NoEntries.ring) = 0
  BY NoEntriesTable
<1>2. FamiliesRight(NoEntries) /\ BasesRight(NoEntries) /\ InversesRight(NoEntries)
  BY <1>1 DEF FamiliesRight, BasesRight, InversesRight
<1> QED BY <1>1, <1>2 DEF MemosRight, NoMemos

\* Where memory never mattered, a frame answers as it would alone.
LEMMA ModeFrameAlike ==
    ASSUME NEW M, NEW L, NEW ask \in AllAsks, NEW out, MemosRight(M), LayoutTable(L),
           out = ModeFrame(L, M, ask, NoShortage), ~out.starved
    PROVE  out.answer = ModeFrame(NoLayouts, NoMemos, ask, NoShortage).answer
<1>1. PICK looked : looked = KFamilyOf(M.families, ask.sg, ask.k, NoShortage)
  OBVIOUS
<1>2. PICK fresh : fresh = KFamilyOf(NoMemos.families, ask.sg, ask.k, NoShortage)
  OBVIOUS
<1>3. ask.sg \in Nat
  BY AskAssumption
<1>4. FamiliesRight(M.families) /\ FamiliesRight(NoMemos.families)
  BY NoMemosRight DEF MemosRight
<1>5. /\ FamiliesRight(looked.memo)
      /\ looked.family.littles \subseteq Irreps /\ looked.family.canonical \in Cells \cup {NoCell}
      /\ looked.family.status # "memory" => looked.family = FamilyAlone(ask.sg, ask.k)
  BY <1>1, <1>3, <1>4, KFamilyRight
<1>6. FamiliesRight(fresh.memo) /\ fresh.family = FamilyAlone(ask.sg, ask.k)
  BY <1>2, <1>3, <1>4, KFamilyRight, NoMemosRight
<1>7. PICK f : f = looked.family
  OBVIOUS
<1>8. PICK h : h = fresh.family
  OBVIOUS
<1>9. PICK after : after = FamiliedMemos(M, ask, looked.memo)
  OBVIOUS
<1>10. PICK other : other = FamiliedMemos(NoMemos, ask, fresh.memo)
  OBVIOUS
<1>11. PICK early : early = EarlyOf(ask, f, NoShortage)
  OBVIOUS
<1>12. out = Parametrized(L, after, ask, NoShortage, f, early)
  BY <1>1, <1>7, <1>9, <1>11, FrameBegins
<1>13. MemosRight(after)
  BY <1>5, <1>9, FamiliedRight
<1>14. MemosRight(other) /\ other.inverses = NoMemos.inverses
  BY <1>6, <1>10, FamiliedRight, NoMemosRight
<1>15. ask.site # 0 => f = h
  <2>1. ask.site # 0 => f.status # "memory"
    BY <1>12, <1>13, StarvedSays
  <2> QED BY <1>5, <1>6, <1>7, <1>8, <2>1
<1>16. early = EarlyOf(ask, h, NoShortage)
  BY <1>11, <1>15 DEF EarlyOf
<1>17. PICK alone : alone = ModeFrame(NoLayouts, NoMemos, ask, NoShortage)
  OBVIOUS
<1>18. alone = Parametrized(NoLayouts, other, ask, NoShortage, h, early)
  BY <1>2, <1>8, <1>10, <1>16, <1>17, FrameBegins
<1>19. Asked(ask, f, early)
  BY <1>5, <1>7, <1>11, EarlyAsked
<1>20. early = "ok" => f = h
  BY <1>11, <1>15 DEF EarlyOf
<1>21. Histories(after, other, L, NoLayouts)
  BY <1>13, <1>14, NoMemosRight, NoLayoutsTable DEF Histories
<1>22. out.answer = alone.answer
  BY <1>12, <1>18, <1>19, <1>20, <1>21, ParametrizedAlike
<1> QED BY <1>17, <1>22

-----------------------------------------------------------------------------
(* The invariant of the frames: the layouts are a table and the memos are
   right, the last frame reads what is there, and answered as it would have
   alone. *)
FramesInv ==
    /\ LayoutTable(layouts) /\ MemosRight(memos)
    /\ frame.reads.baseline = NoLayout \/ Present(layouts, frame.reads.baseline)
    /\ ~frame.reads.reused =>
          frame.reads.candidate = NoLayout \/ Present(layouts, frame.reads.candidate)
    /\ FrameAsAlone

\* A frame keeps the invariant.
LEMMA FrameStep ==
    ASSUME FramesInv, FramesNext
    PROVE  FramesInv'
<1>1. PICK ask \in AllAsks, short \in Shortages \cup {NoShortage} : Frame(ask, short)
  BY DEF FramesNext
<1>2. PICK now : /\ now = ModeFrame(layouts, memos, ask, short)
                 /\ layouts' = now.layouts /\ memos' = now.memos
                 /\ frame' = [ask |-> ask, answer |-> now.answer, reads |-> now.reads,
                              starved |-> now.starved \/ short # NoShortage]
  BY <1>1 DEF Frame
<1>3. LayoutTable(layouts) /\ MemosRight(memos)
  BY DEF FramesInv
<1>4. FrameRight(now)
  BY <1>2, <1>3, ModeFrameRight
<1>5. frame'.reads = now.reads /\ frame'.ask = ask /\ frame'.answer = now.answer
  BY <1>2
<1>6. ~frame'.starved => short = NoShortage /\ ~now.starved
  BY <1>2
<1>7. FrameAsAlone'
  <2> SUFFICES ASSUME ~frame'.starved
               PROVE  frame'.answer = ModeFrame(NoLayouts, NoMemos, frame'.ask, NoShortage).answer
    BY DEF FrameAsAlone
  <2>1. now.answer = ModeFrame(NoLayouts, NoMemos, ask, NoShortage).answer
    BY <1>2, <1>3, <1>6, ModeFrameAlike
  <2> QED BY <1>5, <2>1
<1>8. LayoutTable(layouts') /\ MemosRight(memos')
  BY <1>2, <1>4 DEF FrameRight
<1>9. now.reads.baseline = NoLayout \/ Present(layouts', now.reads.baseline)
  BY <1>2, <1>4 DEF FrameRight
<1>10. ~now.reads.reused => now.reads.candidate = NoLayout \/ Present(layouts', now.reads.candidate)
  BY <1>2, <1>4 DEF FrameRight
<1> QED BY <1>5, <1>7, <1>8, <1>9, <1>10 DEF FramesInv

\* A layout of the ring is a live one.
LEMMA PresentIsLive ==
    ASSUME LayoutTable(layouts), NEW e, e = NoLayout \/ Present(layouts, e)
    PROVE  e \in Live
<1>1. DOMAIN layouts.ring = 1 .. Len(layouts.ring)
  BY DEF LayoutTable
<1> QED BY <1>1 DEF Live, Present

\* The invariant gives what a frame reads.
LEMMA FramesRead ==
    ASSUME FramesInv
    PROVE  FrameReadsLive
<1>1. LayoutTable(layouts)
  BY DEF FramesInv
<1>2. frame.reads.baseline \in Live
  BY <1>1, PresentIsLive DEF FramesInv
<1>3. ~frame.reads.reused => frame.reads.candidate \in Live
  BY <1>1, PresentIsLive DEF FramesInv
<1> QED BY <1>2, <1>3 DEF FrameReadsLive
-----------------------------------------------------------------------------

\* Every step of the engine keeps the invariant of the frames.
LEMMA FramesInductive == EngineSpec => []FramesInv
<1>1. EngineInit => FramesInv
  <2> SUFFICES ASSUME EngineInit PROVE FramesInv
    OBVIOUS
  <2>1. /\ layouts = NoLayouts /\ memos = NoMemos
        /\ frame = [ask |-> "none",
                    reads |-> [candidate |-> NoLayout, reused |-> FALSE, baseline |-> NoLayout]]
        /\ frames = [made |-> 0, short |-> 0]
    BY DEF EngineInit, FramesInit
  <2>2. frame.reads.baseline = NoLayout /\ frame.reads.candidate = NoLayout
    BY <2>1
  <2>3. FrameAsAlone
    BY <2>1 DEF FrameAsAlone
  <2> QED BY <2>1, <2>2, <2>3, NoLayoutsTable, NoMemosRight DEF FramesInv
<1>2. FramesInv /\ [EngineNext]_engineVars => FramesInv'
  <2> SUFFICES ASSUME FramesInv, [EngineNext]_engineVars PROVE FramesInv'
    OBVIOUS
  <2>1. CASE FramesNext
    BY <2>1, FrameStep
  <2>2. CASE UNCHANGED frameVars
    BY <2>2 DEF frameVars, FramesInv, FrameAsAlone
  <2>3. FramesNext \/ UNCHANGED frameVars
    BY DEF EngineNext, engineVars
  <2> QED BY <2>1, <2>2, <2>3
<1> QED BY <1>1, <1>2, PTL DEF EngineSpec

\* The lookups in the ring of layouts end, and find a layout just when it is
\* kept, whatever was made and given up before.
THEOREM LayoutsAlwaysFound == EngineSpec => []LayoutsFound
<1>1. FramesInv => LayoutsFound
  BY LayoutsRight DEF FramesInv
<1> QED BY <1>1, FramesInductive, PTL

\* No frame reads a baseline that was freed, nor a candidate it made itself:
\* making the one never frees the other.
THEOREM FramesReadLive == EngineSpec => []FrameReadsLive
<1>1. FramesInv => FrameReadsLive
  BY FramesRead
<1> QED BY <1>1, FramesInductive, PTL

\* A frame answers as in a process that was asked for nothing else, whatever
\* the four rings keep and have given up, where memory did not run out.
THEOREM FramesAsAlone == EngineSpec => []FrameAsAlone
<1>1. FramesInv => FrameAsAlone
  BY DEF FramesInv
<1> QED BY <1>1, FramesInductive, PTL

-----------------------------------------------------------------------------
(* The walk over the isotropy subspaces *)

\* The pairs carry vectors to vectors,
LEMMA Carried ==
    ASSUME NEW im \in Images, NEW p \in Pairs(im)
    PROVE  \A x \in Points[im] : Act[im][p][x] \in Points[im]
<1>1. IsImage(im)
  BY ImagesAssumption
<1>2. Act[im][p] \in [Points[im] -> Points[im]]
  BY <1>1 DEF IsImage
<1> QED BY <1>2

\* linearly,
LEMMA CarriedLinearly ==
    ASSUME NEW im \in Images
    PROVE  /\ Zero[im] \in Points[im]
           /\ \A x \in Points[im] :
                 Opposite[im][x] \in Points[im] /\ Opposite[im][Opposite[im][x]] = x
           /\ \A p \in Pairs(im) :
                 /\ Act[im][p][Zero[im]] = Zero[im]
                 /\ \A x \in Points[im] :
                       Act[im][p][Opposite[im][x]] = Opposite[im][Act[im][p][x]]
<1>1. IsImage(im)
  BY ImagesAssumption
<1>2. Opposite[im] \in [Points[im] -> Points[im]]
  BY <1>1 DEF IsImage
<1>3. \A x \in Points[im] : Opposite[im][x] \in Points[im]
  BY <1>2
<1> QED BY <1>1, <1>3 DEF IsImage

\* and as a group: with products,
LEMMA CarriedByProduct ==
    ASSUME NEW im \in Images, NEW p \in Pairs(im), NEW q \in Pairs(im)
    PROVE  /\ Product[im][p][q] \in Pairs(im)
           /\ \A x \in Points[im] : Act[im][Product[im][p][q]][x] = Act[im][p][Act[im][q][x]]
<1>1. IsImage(im)
  BY ImagesAssumption
<1>2. Product[im] \in [Pairs(im) -> [Pairs(im) -> Pairs(im)]]
  BY <1>1 DEF IsImage
<1>3. Product[im][p][q] \in Pairs(im)
  BY <1>2
<1> QED BY <1>1, <1>3 DEF IsImage

\* an identity,
LEMMA SomeIdentity ==
    ASSUME NEW im \in Images
    PROVE  \E e \in Pairs(im) : \A x \in Points[im] : Act[im][e][x] = x
<1>1. IsImage(im)
  BY ImagesAssumption
<1>2. PICK e \in Pairs(im) : Identity(im, e)
  BY <1>1 DEF IsImage
<1> QED BY <1>2 DEF Identity

\* and inverses on both sides.
LEMMA SomeInverse ==
    ASSUME NEW im \in Images, NEW p \in Pairs(im)
    PROVE  \E q \in Pairs(im) : \A x \in Points[im] :
              Act[im][q][Act[im][p][x]] = x /\ Act[im][p][Act[im][q][x]] = x
<1>1. ASSUME NEW a \in Pairs(im)
      PROVE  \E b \in Pairs(im) : \A x \in Points[im] : Act[im][b][Act[im][a][x]] = x
  <2>1. IsImage(im)
    BY ImagesAssumption
  <2>2. PICK b \in Pairs(im) : Identity(im, Product[im][b][a])
    BY <2>1 DEF IsImage
  <2>3. \A x \in Points[im] : Act[im][Product[im][b][a]][x] = x
    BY <2>2 DEF Identity
  <2>4. \A x \in Points[im] : Act[im][Product[im][b][a]][x] = Act[im][b][Act[im][a][x]]
    BY CarriedByProduct
  <2> QED BY <2>3, <2>4
<1>2. PICK q \in Pairs(im) : \A x \in Points[im] : Act[im][q][Act[im][p][x]] = x
  BY <1>1
<1>3. PICK r \in Pairs(im) : \A x \in Points[im] : Act[im][r][Act[im][q][x]] = x
  BY <1>1
<1>4. ASSUME NEW x \in Points[im] PROVE Act[im][p][Act[im][q][x]] = x
  <2>1. PICK y \in Points[im] : y = Act[im][q][x]
    BY Carried
  <2>2. PICK z \in Points[im] : z = Act[im][p][y]
    BY Carried
  <2>3. Act[im][q][z] = y
    BY <1>2, <2>2
  <2>4. Act[im][r][y] = x
    BY <1>3, <2>1
  <2>5. Act[im][r][Act[im][q][z]] = z
    BY <1>3
  <2> QED BY <2>1, <2>2, <2>3, <2>4, <2>5
<1> QED BY <1>2, <1>4

\* The identity is among them, and neutral.
LEMMA Neutral ==
    ASSUME NEW im \in Images
    PROVE  \E e \in Pairs(im) : Identity(im, e) /\ \A p \in Pairs(im) : Product[im][p][e] = p
<1>1. IsImage(im)
  BY ImagesAssumption
<1> QED BY <1>1 DEF IsImage

\* The pairs are numbered from 1.
LEMMA PairsNumbered ==
    ASSUME image \in Images
    PROVE  PairCount \in Nat /\ PairCount >= 1 /\ Pairs(image) = 1 .. PairCount
<1>1. IsImage(image)
  BY ImagesAssumption
<1>2. Len(Act[image]) \in Nat /\ DOMAIN Act[image] = 1 .. Len(Act[image]) /\ \E e \in Pairs(image) : TRUE
  BY <1>1 DEF IsImage
<1> QED BY <1>2 DEF PairCount, Pairs

(* Where a pair carries a set of vectors, and those of it that it fixes; the
   products of a pair with others, on both sides. *)
Carry(im, S, p) == {Act[im][p][x] : x \in S}
Within(im, S, p) == {x \in S : Act[im][p][x] = x}
Cosets(im, p, M) == {Product[im][p][m] : m \in M} \cup {Product[im][m][p] : m \in M}

(* A set of vectors that holds the opposite of each. *)
Symmetric(im, S) == S \subseteq Points[im] /\ \A x \in S : Opposite[im][x] \in S

\* A pair does with such a set what any pair does that is the same up to sign.
LEMMA ProjectiveApplies ==
    ASSUME image \in Images, NEW S, Symmetric(image, S), NEW p \in Pairs(image)
    PROVE  Apply(S, Projective(p)) = Apply(S, p)
<1>1. /\ \A x \in Points[image] : Opposite[image][Opposite[image][x]] = x
      /\ \A x \in Points[image] : Act[image][p][Opposite[image][x]] = Opposite[image][Act[image][p][x]]
  BY CarriedLinearly
<1>2. PICK T : T = {q \in Pairs(image) : SameUpToSign(q, p)}
  OBVIOUS
<1>3. p \in T /\ T \subseteq Nat
  BY <1>2, PairsNumbered DEF SameUpToSign
<1>4. PICK least \in T : \A q \in T : least <= q
  BY <1>3, SmallestNat
<1>5. Representative(p, least) /\ least \in Pairs(image)
  <2>1. \A r \in Pairs(image) : SameUpToSign(r, p) => least <= r
    BY <1>2, <1>4
  <2> QED BY <1>2, <2>1 DEF Representative
<1>6. PICK q : q = Projective(p)
  OBVIOUS
<1>7. q \in Pairs(image) /\ Representative(p, q)
  BY <1>5, <1>6 DEF Projective
<1>8. SameUpToSign(q, p)
  BY <1>7 DEF Representative
<1>9. CASE Act[image][q] = Act[image][p]
  BY <1>6, <1>9 DEF Apply
<1>10. CASE \A x \in Points[image] : Act[image][q][x] = Opposite[image][Act[image][p][x]]
  <2>1. ASSUME NEW x \in S PROVE Act[image][q][x] = Act[image][p][Opposite[image][x]]
    BY <1>1, <1>10 DEF Symmetric
  <2>2. ASSUME NEW x \in S PROVE Act[image][p][x] = Act[image][q][Opposite[image][x]]
    <3>1. PICK y \in S : y = Opposite[image][x]
      BY DEF Symmetric
    <3>2. Opposite[image][y] = x
      BY <1>1, <3>1 DEF Symmetric
    <3>3. Act[image][q][y] = Act[image][p][Opposite[image][y]]
      BY <2>1
    <3> QED BY <3>1, <3>2, <3>3
  <2>3. \A x \in S : Opposite[image][x] \in S
    BY DEF Symmetric
  <2>4. Apply(S, q) \subseteq Apply(S, p)
    BY <2>1, <2>3 DEF Apply
  <2>5. Apply(S, p) \subseteq Apply(S, q)
    BY <2>2, <2>3 DEF Apply
  <2> QED BY <1>6, <2>4, <2>5
<1> QED BY <1>8, <1>9, <1>10 DEF SameUpToSign

\* The orbit of a subspace is that of all pairs, itself among them.
LEMMA OrbitOfAll ==
    ASSUME image \in Images, NEW S, Symmetric(image, S)
    PROVE  /\ Orbit(S) = {Carry(image, S, p) : p \in Pairs(image)}
           /\ S \in Orbit(S)
<1>1. Orbit(S) = {Carry(image, S, p) : p \in Pairs(image)}
  <2>1. \A p \in Pairs(image) : Apply(S, Projective(p)) = Apply(S, p)
    BY ProjectiveApplies
  <2>2. \A p \in Pairs(image) : Apply(S, p) = Carry(image, S, p)
    BY DEF Apply, Carry
  <2>3. \A p \in Pairs(image) : Apply(S, Projective(p)) = Carry(image, S, p)
    BY <2>1, <2>2
  <2> QED BY <2>3 DEF Orbit
<1>2. PICK e \in Pairs(image) : \A x \in Points[image] : Act[image][e][x] = x
  BY SomeIdentity
<1>3. Carry(image, S, e) = S
  BY <1>2 DEF Carry, Symmetric
<1> QED BY <1>1, <1>2, <1>3

\* A subspace carried on by another pair, and back.
LEMMA CarriedTwice ==
    ASSUME NEW im \in Images, NEW S, S \subseteq Points[im], NEW p \in Pairs(im)
    PROVE  /\ \A q \in Pairs(im) : /\ Product[im][q][p] \in Pairs(im)
                                      /\ Carry(im, Carry(im, S, p), q) = Carry(im, S, Product[im][q][p])
           /\ \E q \in Pairs(im) : Carry(im, Carry(im, S, p), q) = S
           /\ Carry(im, S, p) \subseteq Points[im]
<1>1. ASSUME NEW q \in Pairs(im)
      PROVE  /\ Product[im][q][p] \in Pairs(im)
             /\ Carry(im, Carry(im, S, p), q) = Carry(im, S, Product[im][q][p])
  <2>1. \A x \in S : Act[im][Product[im][q][p]][x] = Act[im][q][Act[im][p][x]]
    BY CarriedByProduct
  <2>2. Carry(im, Carry(im, S, p), q) = {Act[im][q][Act[im][p][x]] : x \in S}
    BY DEF Carry
  <2>3. Carry(im, S, Product[im][q][p]) = {Act[im][Product[im][q][p]][x] : x \in S}
    BY DEF Carry
  <2>4. Product[im][q][p] \in Pairs(im)
    BY CarriedByProduct
  <2> QED BY <2>1, <2>2, <2>3, <2>4
<1>2. \E q \in Pairs(im) : Carry(im, Carry(im, S, p), q) = S
  <2>1. PICK q \in Pairs(im) : \A x \in Points[im] : Act[im][q][Act[im][p][x]] = x
    BY SomeInverse
  <2>2. Carry(im, Carry(im, S, p), q) = {Act[im][q][Act[im][p][x]] : x \in S}
    BY DEF Carry
  <2> QED BY <2>1, <2>2
<1>3. Carry(im, S, p) \subseteq Points[im]
  BY Carried DEF Carry
<1> QED BY <1>1, <1>2, <1>3

\* What a pair carries is symmetric again.
LEMMA CarriedSymmetric ==
    ASSUME NEW im \in Images, NEW S, Symmetric(im, S), NEW p \in Pairs(im)
    PROVE  Symmetric(im, Carry(im, S, p))
<1>1. \A x \in S : Opposite[im][Act[im][p][x]] = Act[im][p][Opposite[im][x]]
  BY CarriedLinearly DEF Symmetric
<1>2. \A x \in S : Opposite[im][x] \in S
  BY DEF Symmetric
<1>3. Carry(im, S, p) \subseteq Points[im]
  BY CarriedTwice DEF Symmetric
<1>4. ASSUME NEW y \in Carry(im, S, p) PROVE Opposite[im][y] \in Carry(im, S, p)
  <2>1. PICK x \in S : y = Act[im][p][x]
    BY DEF Carry
  <2>2. Opposite[im][y] = Act[im][p][Opposite[im][x]]
    BY <1>1, <2>1
  <2> QED BY <1>2, <2>2 DEF Carry
<1> QED BY <1>3, <1>4 DEF Symmetric

-----------------------------------------------------------------------------
(* What the walk keeps *)

Fixes(im, S, p) == \A x \in S : Act[im][p][x] = x
Stabilizer(im, S) == {p \in Pairs(im) : Fixes(im, S, p)}
FixedByAll(im, P) == {x \in Points[im] : \A p \in P : Act[im][p][x] = x}

(* A node is the fixed space of its stabilizer, which its flags tell. *)
NodeRight(im, node) ==
    /\ Symmetric(im, node.space)
    /\ node.flags \in [Pairs(im) -> {-1, 0}]
    /\ Minus(node.flags) = Stabilizer(im, node.space)
    /\ node.space = FixedByAll(im, Minus(node.flags))

(* The subspaces seen are the orbits of the nodes. *)
SeenRight(im, nodes, n, met) ==
    /\ Points[im] \in met
    /\ \A S \in met : \A p \in Pairs(im) : Carry(im, S, p) \in met
    /\ \A S \in met : \E i \in 1 .. n, p \in Pairs(im) : S = Carry(im, nodes[i].space, p)
    /\ \A i \in 1 .. n : nodes[i].space \in met

(* The nodes, one for each orbit. *)
NodesRight(im, nodes, n, met) ==
    /\ \A i \in 1 .. n : NodeRight(im, nodes[i])
    /\ SeenRight(im, nodes, n, met)
    /\ \A i, j \in 1 .. n : \A p \in Pairs(im) : nodes[j].space = Carry(im, nodes[i].space, p) => i = j

(* What a pair fixes of a subspace was seen, or is nothing. *)
Met(im, met, S, p) == Within(im, S, p) \in met \cup {{Zero[im]}}
AllMet(im, nodes, n, met) == \A i \in 1 .. n : \A p \in Pairs(im) : Met(im, met, nodes[i].space, p)

(* Some pair of a set does with a subspace what p does, unless p fixes it. *)
SameOn(im, S, p, c) == \A x \in S : Act[im][p][x] = Act[im][c][x]
Covered(im, S, P, p) == Fixes(im, S, p) \/ \E c \in P : SameOn(im, S, p, c)

(* The search of a node: its candidates are collected, tried, and the
   stabilizer of a new subspace is closed. *)
Collecting ==
    /\ tried = {} /\ pair \in 1 .. PairCount
    /\ candidateFlags \in [Pairs(image) -> {-1, 0, 1}]
    /\ \A p \in Pairs(image) :
          p < pair \/ candidateFlags[p] # 0 => Covered(image, Node.space, candidates, p)
Trying == \A p \in Pairs(image) : Covered(image, Node.space, candidates \cup tried, p)
Closing ==
    /\ pair \in 1 .. PairCount + 1
    /\ child = [space |-> child.space, flags |-> child.flags, minus |-> child.minus]
    /\ child.flags \in [Pairs(image) -> {-1, 0}] /\ child.minus = Minus(child.flags)
    /\ Symmetric(image, child.space) /\ child.space \notin seen
    /\ child.minus \subseteq Stabilizer(image, child.space)
    /\ child.space = FixedByAll(image, child.minus)
    /\ \A e \in Pairs(image) : Identity(image, e) => e \in child.minus
    /\ \A p \in Pairs(image) : p < pair /\ Fixes(image, child.space, p) => p \in child.minus
Searching ==
    /\ candidates \subseteq Pairs(image) /\ tried \subseteq Pairs(image)
    /\ \A t \in tried :
          \/ Met(image, seen, Node.space, t)
          \/ phase = "close" /\ child.space = Within(image, Node.space, t)
    /\ phase = "collect" => Collecting
    /\ phase \in {"try", "close"} => Trying
    /\ phase = "close" => Closing

Walking ==
    /\ phase \in {"try", "collect", "close", "stopped", "failed", "done"}
    /\ image \in Images
    /\ Len(queue) \in Nat /\ queue = [i \in 1 .. Len(queue) |-> queue[i]]
    /\ NodesRight(image, queue, Len(queue), seen)
    /\ head \in 0 .. Len(queue)
    /\ AllMet(image, queue, head - 1, seen)
    /\ phase = "done" => AllMet(image, queue, Len(queue), seen)
    /\ phase = "try" /\ head = 0 => candidates = {}
    /\ phase \in {"collect", "close"} => head # 0
    /\ phase \in {"try", "collect", "close"} /\ head # 0 => Searching
WalkInv ==
    \/ phase \in {"start", "failed"} /\ queue = <<>> /\ head = 0 /\ candidates = {}
    \/ Walking

-----------------------------------------------------------------------------
(* One step at a time *)

\* A subspace that lies in the orbit of one seen was seen.
LEMMA OrbitSeen ==
    ASSUME image \in Images, NEW D, Symmetric(image, D), Orbit(D) \cap seen # {},
           \A S \in seen : \A p \in Pairs(image) : Carry(image, S, p) \in seen
    PROVE  D \in seen
<1>1. Orbit(D) = {Carry(image, D, p) : p \in Pairs(image)}
  BY OrbitOfAll
<1>2. PICK p \in Pairs(image) : Carry(image, D, p) \in seen
  BY <1>1
<1>3. D \subseteq Points[image]
  BY DEF Symmetric
<1>4. PICK q \in Pairs(image) : Carry(image, Carry(image, D, p), q) = D
  BY <1>3, CarriedTwice
<1> QED BY <1>2, <1>4

\* What a pair fixes of a node is the fixed space of what stabilizes the
\* node and of the products with the pair.
LEMMA ChildFixed ==
    ASSUME NEW im \in Images, NEW S, NEW P, NEW c \in Pairs(im), NEW M,
           Symmetric(im, S), P = Stabilizer(im, S), S = FixedByAll(im, P),
           M = P \cup Cosets(im, c, P)
    PROVE  LET D == Within(im, S, c)
           IN  /\ M \subseteq Stabilizer(im, D)
               /\ D = FixedByAll(im, M)
               /\ Symmetric(im, D)
               /\ \A e \in Pairs(im) : Identity(im, e) => e \in M
<1>1. PICK D : D = Within(im, S, c)
  OBVIOUS
<1>2. D \subseteq S /\ S \subseteq Points[im] /\ \A x \in D : Act[im][c][x] = x
  BY <1>1 DEF Within, Symmetric
<1>3. P \subseteq Pairs(im) /\ \A m \in P : \A x \in D : Act[im][m][x] = x
  BY <1>2 DEF Stabilizer, Fixes
<1>4. ASSUME NEW m \in P
      PROVE  /\ Product[im][c][m] \in Stabilizer(im, D)
             /\ Product[im][m][c] \in Stabilizer(im, D)
  <2>1. m \in Pairs(im)
    BY <1>3
  <2>2. Product[im][c][m] \in Pairs(im) /\ Product[im][m][c] \in Pairs(im)
    BY <2>1, CarriedByProduct
  <2>3. ASSUME NEW x \in D
        PROVE  Act[im][Product[im][c][m]][x] = x /\ Act[im][Product[im][m][c]][x] = x
    <3>1. x \in Points[im] /\ Act[im][c][x] = x /\ Act[im][m][x] = x
      BY <1>2, <1>3
    <3>2. Act[im][Product[im][c][m]][x] = Act[im][c][Act[im][m][x]]
      BY <2>1, <3>1, CarriedByProduct
    <3>3. Act[im][Product[im][m][c]][x] = Act[im][m][Act[im][c][x]]
      BY <2>1, <3>1, CarriedByProduct
    <3> QED BY <3>1, <3>2, <3>3
  <2> QED BY <2>2, <2>3 DEF Stabilizer, Fixes
<1>5. P \subseteq Stabilizer(im, D)
  BY <1>3 DEF Stabilizer, Fixes
<1>6. M \subseteq Stabilizer(im, D)
  BY <1>4, <1>5 DEF Cosets
<1>7. D \subseteq FixedByAll(im, M)
  BY <1>2, <1>6 DEF Stabilizer, Fixes, FixedByAll
<1>8. \A e \in Pairs(im) : Identity(im, e) => e \in P
  BY <1>2 DEF Identity, Stabilizer, Fixes
<1>9. ASSUME NEW x \in FixedByAll(im, M) PROVE x \in D
  <2>1. x \in Points[im] /\ \A m \in M : Act[im][m][x] = x
    BY DEF FixedByAll
  <2>2. x \in S
    BY <2>1 DEF FixedByAll
  <2>3. PICK e \in Pairs(im) : Identity(im, e) /\ \A p \in Pairs(im) : Product[im][p][e] = p
    BY Neutral
  <2>4. Product[im][c][e] \in M
    BY <1>8, <2>3 DEF Cosets
  <2>5. c \in M
    BY <2>3, <2>4
  <2> QED BY <1>1, <2>1, <2>2, <2>5 DEF Within
<1>10. Symmetric(im, D)
  <2>1. D \subseteq Points[im]
    BY <1>2
  <2>2. ASSUME NEW x \in D PROVE Opposite[im][x] \in D
    <3>1. x \in S /\ x \in Points[im] /\ Act[im][c][x] = x
      BY <1>2
    <3>2. Opposite[im][x] \in S
      BY <3>1 DEF Symmetric
    <3>3. Act[im][c][Opposite[im][x]] = Opposite[im][Act[im][c][x]]
      BY <3>1, CarriedLinearly
    <3> QED BY <1>1, <3>1, <3>2, <3>3 DEF Within
  <2> QED BY <2>1, <2>2 DEF Symmetric
<1>11. D = FixedByAll(im, M)
  BY <1>7, <1>9
<1> QED BY <1>1, <1>6, <1>8, <1>10, <1>11

\* A pair that preserves a subspace may join what it is the fixed space of.
LEMMA JoinFixed ==
    ASSUME NEW im \in Images, NEW D, NEW M, NEW p \in Pairs(im), NEW J,
           D \subseteq Points[im], M \subseteq Stabilizer(im, D), D = FixedByAll(im, M),
           Fixes(im, D, p),
           J = Cosets(im, p, M)
    PROVE  /\ J \subseteq Stabilizer(im, D)
           /\ D = FixedByAll(im, M \cup J)
<1>1. M \subseteq Pairs(im) /\ \A m \in M : \A x \in D : Act[im][m][x] = x
  BY DEF Stabilizer, Fixes
<1>2. ASSUME NEW m \in M
      PROVE  /\ Product[im][p][m] \in Stabilizer(im, D)
             /\ Product[im][m][p] \in Stabilizer(im, D)
  <2>1. m \in Pairs(im)
    BY <1>1
  <2>2. Product[im][p][m] \in Pairs(im) /\ Product[im][m][p] \in Pairs(im)
    BY <2>1, CarriedByProduct
  <2>3. ASSUME NEW x \in D
        PROVE  Act[im][Product[im][p][m]][x] = x /\ Act[im][Product[im][m][p]][x] = x
    <3>1. x \in Points[im] /\ Act[im][p][x] = x /\ Act[im][m][x] = x
      BY <1>1 DEF Fixes
    <3>2. Act[im][Product[im][p][m]][x] = Act[im][p][Act[im][m][x]]
      BY <2>1, <3>1, CarriedByProduct
    <3>3. Act[im][Product[im][m][p]][x] = Act[im][m][Act[im][p][x]]
      BY <2>1, <3>1, CarriedByProduct
    <3> QED BY <3>1, <3>2, <3>3
  <2> QED BY <2>2, <2>3 DEF Stabilizer, Fixes
<1>3. J \subseteq Stabilizer(im, D)
  BY <1>2 DEF Cosets
<1>4. D \subseteq FixedByAll(im, M \cup J)
  BY <1>1, <1>3 DEF Stabilizer, Fixes, FixedByAll
<1>5. FixedByAll(im, M \cup J) \subseteq FixedByAll(im, M)
  BY DEF FixedByAll
<1> QED BY <1>3, <1>4, <1>5

\* Where the flags of some pairs are set to -1, these join the stabilizer.
LEMMA FlagsJoin ==
    ASSUME NEW T, NEW flags \in [T -> {-1, 0}], NEW J, J \subseteq T
    PROVE  /\ Flagged(flags, J, -1) \in [T -> {-1, 0}]
           /\ Minus(Flagged(flags, J, -1)) = Minus(flags) \cup J
<1>1. Flagged(flags, J, -1) = [p \in T |-> IF p \in J THEN -1 ELSE flags[p]]
  BY DEF Flagged
<1>2. Flagged(flags, J, -1) \in [T -> {-1, 0}]
  BY <1>1
<1>3. \A p \in T : Flagged(flags, J, -1)[p] = -1 <=> p \in J \/ flags[p] = -1
  BY <1>1
<1> QED BY <1>2, <1>3 DEF Minus

\* Flags that are -1 for a set of pairs and 0 for all others tell that set.
LEMMA FlagsTell ==
    ASSUME NEW T, NEW M, M \subseteq T, NEW flags, flags = [p \in T |-> IF p \in M THEN -1 ELSE 0]
    PROVE  flags \in [T -> {-1, 0}] /\ Minus(flags) = M
<1>1. flags \in [T -> {-1, 0}]
  OBVIOUS
<1>2. \A p \in T : flags[p] = -1 <=> p \in M
  OBVIOUS
<1> QED BY <1>1, <1>2 DEF Minus

\* The root, the whole space, is right.
LEMMA RootRight ==
    ASSUME NEW im \in Images, NEW nodes,
           nodes = <<[space |-> Points[im],
                      flags |-> [p \in Pairs(im) |-> IF Identity(im, p) THEN -1 ELSE 0]]>>
    PROVE  Len(nodes) = 1 /\ nodes = [i \in 1 .. 1 |-> nodes[i]] /\ NodesRight(im, nodes, 1, {Points[im]})
<1>1. Len(nodes) = 1 /\ nodes = [i \in 1 .. 1 |-> nodes[i]]
  OBVIOUS
<1>2. PICK M : M = Stabilizer(im, Points[im])
  OBVIOUS
<1>3. PICK flags : flags = [p \in Pairs(im) |-> IF Identity(im, p) THEN -1 ELSE 0]
  OBVIOUS
<1>4. nodes[1].space = Points[im] /\ nodes[1].flags = flags
  BY <1>3
<1>5. \A p \in Pairs(im) : Identity(im, p) <=> p \in M
  BY <1>2 DEF Stabilizer, Fixes, Identity
<1>6. flags = [p \in Pairs(im) |-> IF p \in M THEN -1 ELSE 0] /\ M \subseteq Pairs(im)
  BY <1>2, <1>3, <1>5 DEF Stabilizer
<1>7. flags \in [Pairs(im) -> {-1, 0}] /\ Minus(flags) = M
  BY <1>6, FlagsTell
<1>8. Points[im] = FixedByAll(im, M)
  BY <1>2 DEF FixedByAll, Stabilizer, Fixes
<1>9. Symmetric(im, Points[im])
  BY CarriedLinearly DEF Symmetric
<1>10. NodeRight(im, nodes[1])
  BY <1>2, <1>4, <1>7, <1>8, <1>9 DEF NodeRight
<1>11. ASSUME NEW p \in Pairs(im) PROVE Carry(im, Points[im], p) = Points[im]
  <2>1. PICK q \in Pairs(im) : \A x \in Points[im] :
            Act[im][q][Act[im][p][x]] = x /\ Act[im][p][Act[im][q][x]] = x
    BY SomeInverse
  <2>2. \A x \in Points[im] : Act[im][p][x] \in Points[im] /\ Act[im][q][x] \in Points[im]
    BY Carried
  <2>3. Carry(im, Points[im], p) \subseteq Points[im]
    BY <2>2 DEF Carry
  <2>4. \A x \in Points[im] : Act[im][q][x] \in Points[im] /\ x = Act[im][p][Act[im][q][x]]
    BY <2>1, <2>2
  <2>5. \A x \in Points[im] : x \in Carry(im, Points[im], p)
    BY <2>4 DEF Carry
  <2> QED BY <2>3, <2>5
<1>12. SeenRight(im, nodes, 1, {Points[im]})
  <2>1. \E p \in Pairs(im) : Points[im] = Carry(im, nodes[1].space, p)
    BY <1>4, <1>11, Neutral
  <2>2. 1 .. 1 = {1}
    OBVIOUS
  <2> QED BY <1>4, <1>11, <2>1, <2>2 DEF SeenRight
<1>13. \A i, j \in 1 .. 1 : i = j
  OBVIOUS
<1>14. \A i \in 1 .. 1 : NodeRight(im, nodes[i])
  BY <1>10
<1> QED BY <1>1, <1>12, <1>13, <1>14 DEF NodesRight

\* A new node that was not seen keeps one node for each orbit.
LEMMA NodeAdded ==
    ASSUME image \in Images, NEW nodes, NEW n \in Nat, NEW met, NodesRight(image, nodes, n, met),
           NEW more, NEW node, NodeRight(image, node), node.space \notin met,
           \A i \in 1 .. n : more[i] = nodes[i], more[n + 1] = node
    PROVE  NodesRight(image, more, n + 1, met \cup Orbit(node.space))
<1>1. PICK D : D = node.space
  OBVIOUS
<1>2. PICK now : now = met \cup Orbit(D)
  OBVIOUS
<1>3. Symmetric(image, D) /\ D \subseteq Points[image]
  BY <1>1 DEF NodeRight, Symmetric
<1>4. Orbit(D) = {Carry(image, D, p) : p \in Pairs(image)} /\ D \in Orbit(D)
  BY <1>3, OrbitOfAll
<1>5. SeenRight(image, nodes, n, met)
  BY DEF NodesRight
<1>6. \A i \in 1 .. n + 1 : i \in 1 .. n \/ i = n + 1
  OBVIOUS
<1>7. 1 .. n \subseteq 1 .. n + 1 /\ n + 1 \in 1 .. n + 1
  OBVIOUS
<1>8. \A i \in 1 .. n + 1 : NodeRight(image, more[i])
  BY <1>6 DEF NodesRight
<1>9. SeenRight(image, more, n + 1, now)
  <2>1. Points[image] \in now
    BY <1>2, <1>5 DEF SeenRight
  <2>2. ASSUME NEW S \in now, NEW p \in Pairs(image) PROVE Carry(image, S, p) \in now
    <3>1. CASE S \in met
      BY <1>2, <1>5, <3>1 DEF SeenRight
    <3>2. CASE S \in Orbit(D)
      <4>1. PICK q \in Pairs(image) : S = Carry(image, D, q)
        BY <1>4, <3>2
      <4>2. D \subseteq Points[image]
        BY <1>3
      <4>3. /\ Product[image][p][q] \in Pairs(image)
            /\ Carry(image, Carry(image, D, q), p) = Carry(image, D, Product[image][p][q])
        BY <4>2, CarriedTwice
      <4>4. PICK r \in Pairs(image) : Carry(image, S, p) = Carry(image, D, r)
        BY <4>1, <4>3
      <4> QED BY <1>2, <1>4, <4>4
    <3> QED BY <1>2, <3>1, <3>2
  <2>3. ASSUME NEW S \in now
        PROVE  \E i \in 1 .. n + 1, p \in Pairs(image) : S = Carry(image, more[i].space, p)
    <3>1. CASE S \in met
      <4>1. PICK i \in 1 .. n, p \in Pairs(image) : S = Carry(image, nodes[i].space, p)
        BY <1>5, <3>1 DEF SeenRight
      <4> QED BY <1>7, <4>1
    <3>2. CASE S \in Orbit(D)
      BY <1>1, <1>4, <1>7, <3>2
    <3> QED BY <1>2, <3>1, <3>2
  <2>4. \A i \in 1 .. n + 1 : more[i].space \in now
    BY <1>1, <1>2, <1>4, <1>5, <1>6 DEF SeenRight
  <2> QED BY <2>1, <2>2, <2>3, <2>4 DEF SeenRight
<1>10. ASSUME NEW i \in 1 .. n + 1, NEW j \in 1 .. n + 1, NEW p \in Pairs(image),
              more[j].space = Carry(image, more[i].space, p)
       PROVE  i = j
  <2>1. CASE i \in 1 .. n /\ j \in 1 .. n
    BY <1>10, <2>1 DEF NodesRight
  <2>2. CASE i \in 1 .. n /\ j = n + 1
    <3>1. D = Carry(image, nodes[i].space, p) /\ nodes[i].space \in met
      BY <1>1, <1>5, <1>10, <2>2 DEF SeenRight
    <3>2. D \in met
      BY <1>5, <3>1 DEF SeenRight
    <3> QED BY <1>1, <3>2
  <2>3. CASE i = n + 1 /\ j \in 1 .. n
    <3>1. nodes[j].space = Carry(image, D, p) /\ nodes[j].space \in met
      BY <1>1, <1>5, <1>10, <2>3 DEF SeenRight
    <3>2. D \subseteq Points[image]
      BY <1>3
    <3>3. \E q \in Pairs(image) : Carry(image, Carry(image, D, p), q) = D
      BY <3>2, CarriedTwice
    <3>4. PICK q \in Pairs(image) : D = Carry(image, nodes[j].space, q)
      BY <3>1, <3>3
    <3>5. D \in met
      BY <1>5, <3>1, <3>4 DEF SeenRight
    <3> QED BY <1>1, <3>5
  <2> QED BY <1>6, <2>1, <2>2, <2>3
<1> QED BY <1>1, <1>2, <1>8, <1>9, <1>10 DEF NodesRight

\* What is met of the nodes is met of all that was seen.
LEMMA MetOfAll ==
    ASSUME NEW im \in Images, NEW nodes, NEW n, NEW met, NodesRight(im, nodes, n, met),
           AllMet(im, nodes, n, met), NEW S \in met, NEW p \in Pairs(im)
    PROVE  Met(im, met, S, p)
<1>1. SeenRight(im, nodes, n, met)
  BY DEF NodesRight
<1>2. PICK i \in 1 .. n, q \in Pairs(im) : S = Carry(im, nodes[i].space, q)
  BY <1>1 DEF SeenRight
<1>3. PICK N : N = nodes[i].space
  OBVIOUS
<1>4. N \subseteq Points[im]
  BY <1>3 DEF NodesRight, NodeRight, Symmetric
<1>5. PICK r \in Pairs(im) : \A x \in Points[im] : Act[im][r][Act[im][q][x]] = x /\ Act[im][q][Act[im][r][x]] = x
  BY SomeInverse
<1>6. Product[im][p][q] \in Pairs(im)
      /\ \A x \in Points[im] : Act[im][Product[im][p][q]][x] = Act[im][p][Act[im][q][x]]
  BY CarriedByProduct
<1>7. PICK t \in Pairs(im) : \A x \in Points[im] : Act[im][t][x] = Act[im][r][Act[im][p][Act[im][q][x]]]
  <2>1. PICK s \in Pairs(im) : s = Product[im][p][q]
    BY <1>6
  <2>2. Product[im][r][s] \in Pairs(im)
        /\ \A x \in Points[im] : Act[im][Product[im][r][s]][x] = Act[im][r][Act[im][s][x]]
    BY CarriedByProduct
  <2>3. \A x \in Points[im] : Act[im][Product[im][r][s]][x] = Act[im][r][Act[im][p][Act[im][q][x]]]
    BY <1>6, <2>1, <2>2
  <2> QED BY <2>2, <2>3
\* x is fixed by r p q just where its image is fixed by p
<1>8. ASSUME NEW x \in Points[im]
      PROVE  Act[im][t][x] = x <=> Act[im][p][Act[im][q][x]] = Act[im][q][x]
  <2>1. PICK y \in Points[im] : y = Act[im][q][x]
    BY Carried
  <2>2. PICK z \in Points[im] : z = Act[im][p][y]
    BY Carried
  <2>3. Act[im][t][x] = Act[im][r][z]
    BY <1>7, <2>1, <2>2
  <2>4. Act[im][r][y] = x /\ Act[im][q][Act[im][r][z]] = z
    BY <1>5, <2>1
  <2>5. Act[im][r][z] = x <=> z = y
    BY <2>1, <2>4
  <2> QED BY <2>1, <2>2, <2>3, <2>5
<1>9. Within(im, S, p) = Carry(im, Within(im, N, t), q)
  <2>1. S = {Act[im][q][x] : x \in N}
    BY <1>2, <1>3 DEF Carry
  <2>2. Within(im, S, p) = {Act[im][q][x] : x \in {y \in N : Act[im][p][Act[im][q][y]] = Act[im][q][y]}}
    BY <2>1 DEF Within
  <2>3. Within(im, N, t) = {y \in N : Act[im][p][Act[im][q][y]] = Act[im][q][y]}
    BY <1>4, <1>8 DEF Within
  <2> QED BY <2>2, <2>3 DEF Carry
<1>10. Within(im, N, t) \in met \/ Within(im, N, t) = {Zero[im]}
  BY <1>3 DEF AllMet, Met
<1>11. CASE Within(im, N, t) \in met
  BY <1>1, <1>9, <1>11 DEF SeenRight, Met
<1>12. CASE Within(im, N, t) = {Zero[im]}
  <2>1. Act[im][q][Zero[im]] = Zero[im]
    BY CarriedLinearly
  <2>2. Carry(im, {Zero[im]}, q) = {Zero[im]}
    BY <2>1 DEF Carry
  <2> QED BY <1>9, <1>12, <2>2 DEF Met
<1> QED BY <1>10, <1>11, <1>12

\* A node all of whose candidates were tried has met all it should.
LEMMA NodeDone ==
    ASSUME Walking, phase = "try", candidates = {}
    PROVE  AllMet(image, queue, head, seen)
<1>1. CASE head = 0
  BY <1>1 DEF AllMet
<1>2. CASE head # 0
  <2>1. head \in 1 .. Len(queue) /\ Len(queue) \in Nat
    BY <1>2 DEF Walking
  <2>2. \A i \in 1 .. head : i \in 1 .. head - 1 \/ i = head
    BY <2>1
  <2>3. image \in Images /\ NodeRight(image, Node) /\ Node.space \in seen
    BY <2>1 DEF Walking, NodesRight, SeenRight, Node
  <2>4. /\ \A t \in tried : Met(image, seen, Node.space, t)
        /\ \A p \in Pairs(image) : Covered(image, Node.space, tried, p)
    BY <1>2 DEF Walking, Searching, Trying
  <2>5. ASSUME NEW p \in Pairs(image) PROVE Met(image, seen, Node.space, p)
    <3>1. CASE Fixes(image, Node.space, p)
      <4>1. Within(image, Node.space, p) = Node.space
        BY <3>1 DEF Fixes, Within
      <4> QED BY <2>3, <4>1 DEF Met
    <3>2. CASE \E t \in tried : SameOn(image, Node.space, p, t)
      <4>1. PICK t \in tried : SameOn(image, Node.space, p, t)
        BY <3>2
      <4>2. Within(image, Node.space, p) = Within(image, Node.space, t)
        BY <4>1 DEF SameOn, Within
      <4> QED BY <2>4, <4>2 DEF Met
    <3> QED BY <2>4, <3>1, <3>2 DEF Covered
  <2>6. \A p \in Pairs(image) : Met(image, seen, queue[head].space, p)
    BY <2>5 DEF Node
  <2>7. \A i \in 1 .. head - 1 : \A p \in Pairs(image) : Met(image, seen, queue[i].space, p)
    BY DEF Walking, AllMet
  <2> QED BY <2>2, <2>6, <2>7 DEF AllMet
<1> QED BY <1>1, <1>2

\* The root
LEMMA BeginWalks == ASSUME WalkInv, NEW im \in Images, Begin(im) PROVE Walking'
<1>1. head' = 0 /\ candidates' = {} /\ phase' = "try" /\ image' = im /\ seen' = {Points[im]}
  BY DEF WalkInv, Walking, Begin
<1>2. PICK nodes : nodes = queue'
  OBVIOUS
<1>3. nodes = <<[space |-> Points[im],
                 flags |-> [p \in Pairs(im) |-> IF Identity(im, p) THEN -1 ELSE 0]]>>
  BY <1>2 DEF Begin
<1>4. Len(nodes) = 1 /\ nodes = [i \in 1 .. 1 |-> nodes[i]] /\ NodesRight(im, nodes, 1, {Points[im]})
  BY <1>3, RootRight
<1>5. AllMet(im, nodes, 0 - 1, {Points[im]})
  BY DEF AllMet
<1> QED BY <1>1, <1>2, <1>4, <1>5 DEF Walking

\* The next node
LEMMA VisitWalks == ASSUME Walking, NEW more \in BOOLEAN, Visit(more) PROVE Walking'
<1>1. AllMet(image, queue, head, seen)
  BY NodeDone DEF Visit
<1>2. /\ UNCHANGED <<image, queue, seen, candidates, child>> /\ head' = head + 1
      /\ pair' = 1 /\ tried' = {} /\ candidates = {}
      /\ candidateFlags' = queue[head + 1].flags
      /\ phase' = IF more THEN "collect" ELSE "stopped"
  BY DEF Visit
<1>3. head + 1 \in 1 .. Len(queue) /\ head \in Nat /\ Len(queue) \in Nat
  BY DEF Walking, Visit
<1>4. head' \in 0 .. Len(queue) /\ head' - 1 = head /\ head' # 0
  BY <1>2, <1>3
<1>5. image \in Images
  BY DEF Walking
<1>6. PICK node : node = queue[head + 1]
  OBVIOUS
<1>7. NodeRight(image, node) /\ Node' = node
  BY <1>2, <1>3, <1>6 DEF Walking, NodesRight, Node
<1>8. Collecting'
  <2>1. PairCount' = PairCount /\ 1 \in 1 .. PairCount
    BY <1>2, <1>5, PairsNumbered DEF PairCount
  <2>2. node.flags \in [Pairs(image) -> {-1, 0, 1}]
    BY <1>7 DEF NodeRight
  <2>3. ASSUME NEW p \in Pairs(image), p < 1 \/ node.flags[p] # 0
        PROVE  Covered(image, node.space, {}, p)
    <3>1. p >= 1
      BY <1>5, PairsNumbered
    <3>2. node.flags[p] # 0
      BY <1>5, <2>3, <3>1, PairsNumbered
    <3>3. node.flags \in [Pairs(image) -> {-1, 0}]
      BY <1>7 DEF NodeRight
    <3>4. p \in Minus(node.flags)
      BY <3>2, <3>3 DEF Minus
    <3> QED BY <1>7, <3>4 DEF NodeRight, Stabilizer, Covered
  <2> QED BY <1>2, <1>6, <1>7, <2>1, <2>2, <2>3 DEF Collecting
<1>9. Searching'
  BY <1>2, <1>8 DEF Searching
<1> QED BY <1>1, <1>2, <1>4, <1>9 DEF Walking

\* A pair of the node
LEMMA CollectWalks == ASSUME Walking, Collect PROVE Walking'
<1>1. phase = "collect" /\ UNCHANGED <<image, queue, head, seen, tried, child, Node, PairCount>>
  BY DEF Collect, Node, PairCount
<1>2. /\ head \in 1 .. Len(queue) /\ Len(queue) \in Nat /\ image \in Images
      /\ Searching /\ Collecting
  BY <1>1 DEF Walking, Searching
<1>3. NodeRight(image, Node)
  BY <1>2 DEF Walking, NodesRight, Node
<1>4. PICK M : M = Minus(Node.flags)
  OBVIOUS
<1>5. M = Stabilizer(image, Node.space) /\ Node.space \subseteq Points[image]
  BY <1>3, <1>4 DEF NodeRight, Symmetric
<1>6. pair \in 1 .. PairCount /\ PairCount \in Nat /\ Pairs(image) = 1 .. PairCount
  BY <1>2, PairsNumbered DEF Collecting
<1>7. /\ pair' = pair + 1
      /\ phase' = IF pair = PairCount THEN "try" ELSE "collect"
      /\ candidateFlags[pair] = 0 =>
            /\ candidates' = candidates \cup {pair}
            /\ candidateFlags' = Flagged(candidateFlags, LeftCoset(pair, M), 1)
      /\ candidateFlags[pair] # 0 => candidates' = candidates /\ candidateFlags' = candidateFlags
  BY <1>4 DEF Collect
<1>8. candidates' \subseteq Pairs(image) /\ candidates \subseteq candidates'
  BY <1>2, <1>6, <1>7 DEF Searching
\* the coset does on the node what the pair does
<1>9. \A p \in LeftCoset(pair, M) : SameOn(image, Node.space, p, pair)
  <2>1. ASSUME NEW m \in M PROVE SameOn(image, Node.space, Product[image][pair][m], pair)
    <3>1. m \in Pairs(image) /\ \A x \in Node.space : Act[image][m][x] = x
      BY <1>5 DEF Stabilizer, Fixes
    <3>2. pair \in Pairs(image)
      BY <1>6
    <3>3. \A x \in Points[image] : Act[image][Product[image][pair][m]][x] = Act[image][pair][Act[image][m][x]]
      BY <1>2, <3>1, <3>2, CarriedByProduct
    <3> QED BY <1>5, <3>1, <3>3 DEF SameOn
  <2> QED BY <2>1 DEF LeftCoset
<1>10. candidateFlags' \in [Pairs(image) -> {-1, 0, 1}]
  <2>1. candidateFlags \in [Pairs(image) -> {-1, 0, 1}]
    BY <1>2 DEF Collecting
  <2> QED BY <1>7, <2>1 DEF Flagged
<1>11. ASSUME NEW p \in Pairs(image), p < pair + 1 \/ candidateFlags'[p] # 0
       PROVE  Covered(image, Node.space, candidates', p)
  <2>1. CASE p < pair \/ candidateFlags[p] # 0
    <3>1. Covered(image, Node.space, candidates, p)
      BY <1>2, <2>1 DEF Collecting
    <3> QED BY <1>8, <3>1 DEF Covered
  <2>2. CASE p = pair /\ candidateFlags[p] = 0
    BY <1>7, <2>2 DEF Covered, SameOn
  <2>3. CASE candidateFlags[p] = 0 /\ candidateFlags'[p] # 0
    <3>1. candidateFlags[pair] = 0
      BY <1>7, <2>3
    <3>2. candidateFlags \in [Pairs(image) -> {-1, 0, 1}]
      BY <1>2 DEF Collecting
    <3>3. candidateFlags'[p] = IF p \in LeftCoset(pair, M) THEN 1 ELSE candidateFlags[p]
      BY <1>7, <3>1, <3>2 DEF Flagged
    <3>4. p \in LeftCoset(pair, M)
      BY <2>3, <3>3
    <3> QED BY <1>7, <1>9, <3>1, <3>4 DEF Covered
  <2>4. p \in Int /\ pair \in Int
    BY <1>6
  <2> QED BY <1>11, <2>1, <2>2, <2>3, <2>4
<1>12. Searching'
  <2>1. CASE pair = PairCount
    <3>1. \A p \in Pairs(image) : p < pair + 1
      BY <1>6, <2>1
    <3>2. tried = {}
      BY <1>2 DEF Collecting
    <3>3. \A p \in Pairs(image) : Covered(image, Node.space, candidates' \cup tried', p)
      BY <1>1, <1>11, <3>1, <3>2
    <3>4. Trying'
      BY <1>1, <3>3 DEF Trying
    <3> QED BY <1>1, <1>7, <1>8, <2>1, <3>2, <3>4 DEF Searching
  <2>2. CASE pair # PairCount
    <3>1. pair' \in 1 .. PairCount
      BY <1>6, <1>7, <2>2
    <3>2. tried' = {}
      BY <1>1, <1>2 DEF Collecting
    <3>3. Collecting'
      BY <1>1, <1>7, <1>10, <1>11, <3>1, <3>2 DEF Collecting
    <3> QED BY <1>1, <1>7, <1>8, <2>2, <3>2, <3>3 DEF Searching
  <2> QED BY <2>1, <2>2
<1> QED BY <1>1, <1>2, <1>7, <1>12 DEF Walking

\* A candidate that is passed over has met what it should.
LEMMA PassedMet ==
    ASSUME Walking, NEW c \in candidates, PassOver(c)
    PROVE  Met(image, seen, Node.space, c)
<1>1. phase = "try"
  BY DEF PassOver, TakeCandidate
<1>2. head \in 1 .. Len(queue) /\ image \in Images /\ Searching
  BY <1>1 DEF Walking
<1>3. NodeRight(image, Node) /\ Node.space \in seen
  BY <1>2 DEF Walking, NodesRight, SeenRight, Node
<1>4. PICK S : S = Node.space
  OBVIOUS
<1>5. PICK D : D = Within(image, S, c)
  OBVIOUS
<1>6. MatrixDone(c) \/ ~Found(D) \/ Overlaps(D)
  BY <1>4, <1>5 DEF PassOver, FixedSpaceIntersection, Within
<1>7. CASE MatrixDone(c)
  <2>1. PICK t \in tried : Act[image][t] = Act[image][c]
    BY <1>7 DEF MatrixDone
  <2>2. Within(image, S, t) = D
    BY <1>5, <2>1 DEF Within
  <2>3. Met(image, seen, S, t)
    BY <1>1, <1>2, <1>4 DEF Searching
  <2> QED BY <1>4, <1>5, <2>2, <2>3 DEF Met
<1>8. CASE ~Found(D)
  BY <1>3, <1>4, <1>5, <1>8 DEF Found, Met
<1>9. CASE Overlaps(D)
  <2>1. Stabilizer(image, S) = Minus(Node.flags) /\ Symmetric(image, S) /\ S = FixedByAll(image, Minus(Node.flags))
    BY <1>3, <1>4 DEF NodeRight
  <2>2. c \in Pairs(image)
    BY <1>2 DEF Searching
  <2>3. PICK P : P = Stabilizer(image, S) /\ S = FixedByAll(image, P)
    BY <2>1
  <2>4. PICK M : M = P \cup Cosets(image, c, P)
    OBVIOUS
  <2>5. Symmetric(image, S)
    BY <2>1
  <2>6. Symmetric(image, D)
    BY <1>2, <1>5, <2>2, <2>3, <2>4, <2>5, ChildFixed
  <2>7. \A T \in seen : \A p \in Pairs(image) : Carry(image, T, p) \in seen
    BY DEF Walking, NodesRight, SeenRight
  <2>8. Orbit(D) \cap seen # {} => D \in seen
    BY <1>2, <2>6, <2>7, OrbitSeen
  <2> QED BY <1>4, <1>5, <1>9, <2>8 DEF Overlaps, Met
<1> QED BY <1>6, <1>7, <1>8, <1>9

\* A candidate that leads to nothing new
LEMMA PassOverWalks == ASSUME Walking, NEW c \in candidates, PassOver(c) PROVE Walking'
<1>1. /\ phase = "try"
      /\ UNCHANGED <<image, phase, queue, head, seen, pair, candidateFlags, child, Node>>
      /\ candidates' = candidates \ {c} /\ tried' = tried \cup {c}
  BY DEF PassOver, TakeCandidate, Node
<1>2. head # 0
  BY <1>1 DEF Walking
<1>3. Searching
  BY <1>1, <1>2 DEF Walking
<1>4. Met(image, seen, Node.space, c)
  BY PassedMet
<1>5. candidates' \subseteq Pairs(image) /\ tried' \subseteq Pairs(image)
  BY <1>1, <1>3 DEF Searching
<1>6. candidates' \cup tried' = candidates \cup tried
  BY <1>1
<1>7. Trying'
  BY <1>1, <1>3, <1>6 DEF Searching, Trying
<1>8. \A t \in tried' : Met(image, seen, Node.space, t)
  BY <1>1, <1>3, <1>4 DEF Searching
<1>9. Searching'
  BY <1>1, <1>5, <1>7, <1>8 DEF Searching
<1> QED BY <1>1, <1>2, <1>9 DEF Walking

\* A new subspace
LEMMA NewChildWalks == ASSUME Walking, NEW c \in candidates, NewChild(c) PROVE Walking'
<1>1. /\ phase = "try" /\ phase' = "close" /\ pair' = 1
      /\ UNCHANGED <<image, queue, head, seen, candidateFlags, Node, PairCount>>
      /\ candidates' = candidates \ {c} /\ tried' = tried \cup {c}
  BY DEF NewChild, TakeCandidate, Node, PairCount
<1>2. head \in 1 .. Len(queue) /\ image \in Images /\ Searching /\ c \in Pairs(image)
  BY <1>1 DEF Walking, Searching
<1>3. NodeRight(image, Node)
  BY <1>2 DEF Walking, NodesRight, Node
<1>4. PICK S : S = Node.space
  OBVIOUS
<1>5. PICK D : D = Within(image, S, c)
  OBVIOUS
<1>6. PICK P : P = Minus(Node.flags)
  OBVIOUS
<1>7. Symmetric(image, S) /\ P = Stabilizer(image, S) /\ S = FixedByAll(image, P)
  BY <1>3, <1>4, <1>6 DEF NodeRight
<1>8. PICK M : M = P \cup Cosets(image, c, P)
  OBVIOUS
<1>9. PICK flags : flags = [p \in Pairs(image) |-> IF p \in M THEN -1 ELSE 0]
  OBVIOUS
<1>10. child' = [space |-> D, flags |-> flags, minus |-> M] /\ D \notin seen
  BY <1>4, <1>5, <1>6, <1>8, <1>9 DEF NewChild, FixedSpaceIntersection, Within, BothCosets, LeftCoset, Cosets, Overlaps
<1>11. P = Stabilizer(image, S)
  BY <1>7
<1>12. S = FixedByAll(image, P)
  BY <1>7
<1>13. /\ M \subseteq Stabilizer(image, D) /\ D = FixedByAll(image, M) /\ Symmetric(image, D)
       /\ \A e \in Pairs(image) : Identity(image, e) => e \in M
  <2>1. image \in Images /\ c \in Pairs(image)
    BY <1>2
  <2>2. /\ M \subseteq Stabilizer(image, Within(image, S, c))
        /\ Within(image, S, c) = FixedByAll(image, M)
        /\ Symmetric(image, Within(image, S, c))
        /\ \A e \in Pairs(image) : Identity(image, e) => e \in M
    <3>1. image \in Images
      BY <2>1
    <3>2. c \in Pairs(image)
      BY <2>1
    <3>3. Symmetric(image, S)
      BY <1>7
    <3> QED BY <1>8, <1>11, <1>12, <3>1, <3>2, <3>3, ChildFixed
  <2> QED BY <1>5, <2>2
<1>14. M \subseteq Pairs(image)
  BY <1>13 DEF Stabilizer
<1>15. flags \in [Pairs(image) -> {-1, 0}] /\ Minus(flags) = M
  BY <1>9, <1>14, FlagsTell
<1>16. PairCount \in Nat /\ Pairs(image) = 1 .. PairCount
  BY <1>2, PairsNumbered
<1>17. pair' \in 1 .. PairCount + 1 /\ \A p \in Pairs(image) : ~(p < pair')
  BY <1>1, <1>16
<1>18. child'.space = D /\ child'.flags = flags /\ child'.minus = M
  BY <1>10
<1>19. Closing'
  BY <1>1, <1>10, <1>13, <1>15, <1>17, <1>18 DEF Closing
<1>20. candidates' \subseteq Pairs(image) /\ tried' \subseteq Pairs(image)
       /\ candidates' \cup tried' = candidates \cup tried
  BY <1>1, <1>2 DEF Searching
<1>21. Trying'
  BY <1>1, <1>2, <1>20 DEF Searching, Trying
<1>22. \A t \in tried' : Met(image, seen, Node.space, t) \/ child'.space = Within(image, Node.space, t)
  BY <1>1, <1>2, <1>4, <1>5, <1>18 DEF Searching
<1>23. Searching'
  BY <1>1, <1>19, <1>20, <1>21, <1>22 DEF Searching
<1>24. head # 0
  BY <1>2
<1> QED BY <1>1, <1>23, <1>24 DEF Walking

\* A pair of the child
LEMMA CloseWalks == ASSUME Walking, ClosePair PROVE Walking'
<1>1. /\ phase = "close" /\ pair <= PairCount /\ pair' = pair + 1
      /\ UNCHANGED <<image, phase, queue, head, seen, candidateFlags, candidates, tried, Node, PairCount>>
  BY DEF ClosePair, Node, PairCount
<1>2. head # 0 /\ image \in Images /\ Searching /\ Closing /\ Trying
  BY <1>1 DEF Walking, Searching
<1>3. PairCount \in Nat /\ Pairs(image) = 1 .. PairCount /\ pair \in 1 .. PairCount
  BY <1>1, <1>2, PairsNumbered DEF Closing
<1>4. PICK D : D = child.space
  OBVIOUS
<1>5. PICK M : M = child.minus
  OBVIOUS
<1>6. PICK flags : flags = child.flags
  OBVIOUS
<1>7. child = [space |-> D, flags |-> flags, minus |-> M]
  BY <1>2, <1>4, <1>5, <1>6 DEF Closing
<1>8. /\ flags \in [Pairs(image) -> {-1, 0}] /\ M = Minus(flags)
      /\ Symmetric(image, D) /\ D \notin seen
      /\ M \subseteq Stabilizer(image, D) /\ D = FixedByAll(image, M)
  BY <1>2, <1>4, <1>5, <1>6 DEF Closing
<1>9. /\ \A e \in Pairs(image) : Identity(image, e) => e \in M
      /\ \A p \in Pairs(image) : p < pair /\ Fixes(image, D, p) => p \in M
  BY <1>2, <1>4, <1>5 DEF Closing
<1>10. PICK J : J = Cosets(image, pair, M)
  OBVIOUS
<1>11. Apply(D, Projective(pair)) \notin seen
  <2>1. Apply(D, Projective(pair)) \in Orbit(D)
    BY <1>3 DEF Orbit
  <2>2. Orbit(D) \cap seen # {} => D \in seen
    <3>1. \A S \in seen : \A p \in Pairs(image) : Carry(image, S, p) \in seen
      BY DEF Walking, NodesRight, SeenRight
    <3> QED BY <1>2, <1>8, <3>1, OrbitSeen
  <2> QED BY <1>8, <2>1, <2>2
<1>12. ASSUME flags[pair] = 0 /\ Fixes(image, D, pair)
       PROVE  Closing' /\ child'.space = child.space
  <2>1. child' = [space |-> D, flags |-> Flagged(flags, J, -1), minus |-> M \cup J]
    <3>1. Preserves(child.space, pair) /\ child.flags[pair] = 0
      BY <1>4, <1>6, <1>12 DEF Preserves, Fixes
    <3>2. BothCosets(pair, child.minus) = J
      BY <1>5, <1>10 DEF BothCosets, LeftCoset, Cosets
    <3>3. child' = [child EXCEPT !.flags = Flagged(@, J, -1), !.minus = @ \cup J]
      BY <3>1, <3>2 DEF ClosePair
    <3> QED BY <1>7, <3>3
  <2>2. D \subseteq Points[image] /\ pair \in Pairs(image) /\ Fixes(image, D, pair)
    BY <1>3, <1>8, <1>12 DEF Symmetric
  <2>3. M \subseteq Stabilizer(image, D)
    BY <1>8
  <2>4. J \subseteq Stabilizer(image, D) /\ D = FixedByAll(image, M \cup J)
    <3>1. image \in Images
      BY <1>2
    <3>2. D = FixedByAll(image, M)
      BY <1>8
    <3>3. D \subseteq Points[image]
      BY <2>2
    <3>4. Fixes(image, D, pair)
      BY <2>2
    <3>5. pair \in Pairs(image)
      BY <2>2
    <3> QED BY <1>10, <2>3, <3>1, <3>2, <3>3, <3>4, <3>5, JoinFixed
  <2>5. J \subseteq Pairs(image)
    BY <2>4 DEF Stabilizer
  <2>6. Flagged(flags, J, -1) \in [Pairs(image) -> {-1, 0}] /\ Minus(Flagged(flags, J, -1)) = M \cup J
    BY <1>8, <2>5, FlagsJoin
  <2>7. pair \in J
    <3>1. PICK e \in Pairs(image) : Identity(image, e) /\ \A p \in Pairs(image) : Product[image][p][e] = p
      BY <1>2, Neutral
    <3>2. e \in M /\ Product[image][pair][e] = pair
      BY <1>3, <1>9, <3>1
    <3> QED BY <1>10, <3>2 DEF Cosets
  <2>8. \A p \in Pairs(image) : p < pair + 1 => p < pair \/ p = pair
    BY <1>3
  <2>9. child'.space = D /\ child'.flags = Flagged(flags, J, -1) /\ child'.minus = M \cup J
    BY <2>1
  <2>10. pair' \in 1 .. PairCount + 1
    BY <1>1, <1>3
  <2>11. /\ \A e \in Pairs(image) : Identity(image, e) => e \in M \cup J
         /\ \A p \in Pairs(image) : p < pair' /\ Fixes(image, D, p) => p \in M \cup J
    BY <1>1, <1>9, <2>7, <2>8
  <2>12. M \cup J \subseteq Stabilizer(image, D)
    BY <2>3, <2>4
  <2>13. Closing' /\ child'.space = child.space
    BY <1>1, <1>4, <1>8, <2>1, <2>4, <2>6, <2>9, <2>10, <2>11, <2>12 DEF Closing
  <2> QED BY <2>13
<1>13. ASSUME ~(flags[pair] = 0 /\ Fixes(image, D, pair))
       PROVE  Closing' /\ child'.space = child.space
  <2>1. child' = child
    <3>1. Apply(child.space, Projective(pair)) \notin seen
      BY <1>4, <1>11
    <3>2. ~(child.flags[pair] = 0) \/ ~Preserves(child.space, pair)
      BY <1>4, <1>6, <1>13 DEF Preserves, Fixes
    <3> QED BY <3>1, <3>2 DEF ClosePair
  <2>2. Fixes(image, D, pair) => pair \in M
    <3>1. ASSUME Fixes(image, D, pair) PROVE flags[pair] = -1
      BY <1>3, <1>8, <1>13, <3>1
    <3> QED BY <1>3, <1>8, <3>1 DEF Minus
  <2>3. \A p \in Pairs(image) : p < pair + 1 => p < pair \/ p = pair
    BY <1>3
  <2>4. \A p \in Pairs(image) : p < pair' /\ Fixes(image, child'.space, p) => p \in child'.minus
    BY <1>1, <1>4, <1>5, <1>9, <2>1, <2>2, <2>3
  <2>5. pair' \in 1 .. PairCount + 1
    BY <1>1, <1>3
  <2>6. Closing'
    BY <1>1, <1>2, <2>1, <2>4, <2>5 DEF Closing
  <2> QED BY <2>1, <2>6
<1>14. Closing' /\ child'.space = child.space
  BY <1>12, <1>13
<1>15. Trying'
  BY <1>1, <1>2 DEF Trying
<1>16. Searching'
  BY <1>1, <1>2, <1>14, <1>15 DEF Searching
<1> QED BY <1>1, <1>2, <1>16 DEF Walking

\* The child becomes a node.
LEMMA PushWalks == ASSUME Walking, PushNode PROVE Walking'
<1>1. /\ phase = "close" /\ pair > PairCount /\ phase' = "try"
      /\ UNCHANGED <<image, head, pair, candidateFlags, candidates, tried>>
      /\ seen' = seen \cup Orbit(child.space)
      /\ queue' = Append(queue, [space |-> child.space, flags |-> child.flags])
  BY DEF PushNode
<1>2. head # 0 /\ image \in Images /\ Searching /\ Closing /\ Trying
  BY <1>1 DEF Walking, Searching
<1>3. PICK D : D = child.space
  OBVIOUS
<1>4. PICK node : node = [space |-> D, flags |-> child.flags]
  OBVIOUS
<1>5. NodeRight(image, node) /\ node.space = D /\ D \notin seen
  <2>1. \A p \in Pairs(image) : p < pair
    BY <1>1, <1>2, PairsNumbered DEF Closing
  <2>2. child.minus = Stabilizer(image, D)
    BY <1>2, <1>3, <2>1 DEF Closing, Stabilizer
  <2>3. node.space = D /\ node.flags = child.flags
    BY <1>4
  <2> QED BY <1>2, <1>3, <2>2, <2>3 DEF Closing, NodeRight
<1>6. PICK n \in Nat : n = Len(queue)
  BY DEF Walking
<1>7. PICK more : more = [i \in 1 .. n + 1 |-> IF i = n + 1 THEN node ELSE queue[i]]
  OBVIOUS
<1>8. queue' = more /\ Len(more) = n + 1
  <2>1. queue = [i \in 1 .. n |-> queue[i]]
    BY <1>6 DEF Walking
  <2>2. queue = [i \in 1 .. n |-> more[i]]
    <3>1. \A i \in 1 .. n : i \in 1 .. n + 1 /\ i # n + 1
      OBVIOUS
    <3>2. \A i \in 1 .. n : more[i] = queue[i]
      BY <1>7, <3>1
    <3> QED BY <2>1, <3>2
  <2>3. more[n + 1] = node
    BY <1>7
  <2>4. Append(queue, more[n + 1]) = [i \in 1 .. n + 1 |-> more[i]]
    BY <2>2, SeqOfEntries
  <2>5. more = [i \in 1 .. n + 1 |-> more[i]]
    BY <1>7
  <2>6. n + 1 \in Nat
    OBVIOUS
  <2>7. Len(more) = n + 1
    BY <2>5, <2>6, SeqOfEntries
  <2> QED BY <1>1, <1>3, <1>4, <2>3, <2>4, <2>5, <2>7
<1>9. \A i \in 1 .. n : more[i] = queue[i]
  BY <1>7
<1>10. more[n + 1] = node
  BY <1>7
<1>11. NodesRight(image, queue, n, seen)
  BY <1>6 DEF Walking
<1>12. node.space \notin seen /\ NodeRight(image, node)
  BY <1>5
<1>13. NodesRight(image, more, n + 1, seen \cup Orbit(node.space))
  BY <1>2, <1>9, <1>10, <1>11, <1>12, NodeAdded
<1>14. seen' = seen \cup Orbit(D) /\ seen \subseteq seen'
  BY <1>1, <1>3
<1>15. D \in seen'
  <2>1. Symmetric(image, D)
    BY <1>5 DEF NodeRight
  <2> QED BY <1>2, <1>14, <2>1, OrbitOfAll
<1>16. head \in 1 .. n
  BY <1>2, <1>6 DEF Walking
<1>17. Node' = Node
  BY <1>1, <1>8, <1>9, <1>16 DEF Node
<1>18. \A S, p : Met(image, seen, S, p) => Met(image, seen', S, p)
  BY <1>14 DEF Met
<1>19. AllMet(image, queue', head - 1, seen')
  <2>1. \A i \in 1 .. head - 1 : i \in 1 .. n
    BY <1>16
  <2>2. AllMet(image, queue, head - 1, seen)
    BY DEF Walking
  <2> QED BY <1>8, <1>9, <1>18, <2>1, <2>2 DEF AllMet
<1>20. \A t \in tried : Met(image, seen', Node.space, t)
  <2>1. ASSUME NEW t \in tried, child.space = Within(image, Node.space, t)
        PROVE  Met(image, seen', Node.space, t)
    BY <1>3, <1>15, <2>1 DEF Met
  <2> QED BY <1>2, <1>18, <2>1 DEF Searching
<1>21. Trying'
  BY <1>1, <1>2, <1>17 DEF Trying
<1>22. Searching'
  BY <1>1, <1>2, <1>17, <1>20, <1>21 DEF Searching
<1>23. head' \in 0 .. Len(queue') /\ Len(queue') \in Nat
  BY <1>1, <1>8, <1>16
<1>24. queue' = [i \in 1 .. n + 1 |-> queue'[i]] /\ Len(queue') = n + 1
  BY <1>7, <1>8
<1>25. NodesRight(image, queue', Len(queue'), seen')
  BY <1>5, <1>8, <1>13, <1>14
<1>26. head' = head /\ head # 0 /\ image' = image /\ phase' = "try"
  BY <1>1, <1>2
<1> QED BY <1>2, <1>19, <1>22, <1>23, <1>24, <1>25, <1>26 DEF Walking

\* What the walk keeps, it keeps with every step,
LEMMA WalkInductive ==
    /\ WalkInit => WalkInv
    /\ WalkInv /\ [WalkNext]_walkVars => WalkInv'
<1>1. WalkInit => WalkInv
  BY DEF WalkInit, WalkInv
<1>2. ASSUME WalkInv, WalkNext PROVE WalkInv'
  <2>1. ASSUME NEW im \in Images, Begin(im) PROVE WalkInv'
    BY <1>2, <2>1, BeginWalks DEF WalkInv
  <2>2. ASSUME NEW more \in BOOLEAN, Visit(more) PROVE WalkInv'
    <3>1. Walking
      BY <1>2, <2>2 DEF WalkInv, Visit
    <3> QED BY <2>2, <3>1, VisitWalks DEF WalkInv
  <2>3. ASSUME Collect PROVE WalkInv'
    <3>1. Walking
      BY <1>2, <2>3 DEF WalkInv, Collect
    <3> QED BY <2>3, <3>1, CollectWalks DEF WalkInv
  <2>4. ASSUME NEW c \in candidates, PassOver(c) PROVE WalkInv'
    <3>1. Walking
      BY <1>2, <2>4 DEF WalkInv
    <3> QED BY <2>4, <3>1, PassOverWalks DEF WalkInv
  <2>5. ASSUME NEW c \in candidates, NewChild(c) PROVE WalkInv'
    <3>1. Walking
      BY <1>2, <2>5 DEF WalkInv
    <3> QED BY <2>5, <3>1, NewChildWalks DEF WalkInv
  <2>6. ASSUME ClosePair PROVE WalkInv'
    <3>1. Walking
      BY <1>2, <2>6 DEF WalkInv, ClosePair
    <3> QED BY <2>6, <3>1, CloseWalks DEF WalkInv
  <2>7. ASSUME PushNode PROVE WalkInv'
    <3>1. Walking
      BY <1>2, <2>7 DEF WalkInv, PushNode
    <3> QED BY <2>7, <3>1, PushWalks DEF WalkInv
  <2>8. ASSUME Finish PROVE WalkInv'
    <3>1. Walking /\ phase = "try" /\ candidates = {} /\ head = Len(queue)
      BY <1>2, <2>8 DEF WalkInv, Finish
    <3>2. AllMet(image, queue, Len(queue), seen)
      BY <3>1, NodeDone
    <3>3. phase' = "done" /\ UNCHANGED <<image, queue, head, seen>>
      BY <2>8 DEF Finish
    <3>4. Walking'
      BY <3>1, <3>2, <3>3 DEF Walking
    <3> QED BY <3>4 DEF WalkInv
  <2>9. ASSUME Fail PROVE WalkInv'
    <3>1. phase' = "failed" /\ UNCHANGED <<image, queue, head, seen, candidates>>
      BY <2>9 DEF Fail
    <3>2. CASE Walking
      <4>1. Walking'
        BY <3>1, <3>2 DEF Walking
      <4> QED BY <4>1 DEF WalkInv
    <3>3. CASE ~Walking
      BY <1>2, <3>1, <3>3 DEF WalkInv
    <3> QED BY <3>2, <3>3
  <2> QED BY <1>2, <2>1, <2>2, <2>3, <2>4, <2>5, <2>6, <2>7, <2>8, <2>9 DEF WalkNext, WalkStep
<1>3. ASSUME WalkInv, UNCHANGED walkVars PROVE WalkInv'
  BY <1>3 DEF WalkInv, Walking, Searching, Collecting, Trying, Closing, Node, PairCount, walkVars
<1> QED BY <1>1, <1>2, <1>3

\* and it is what the properties ask.
LEMMA WalkAnswers ==
    ASSUME WalkInv PROVE NodesAreFixedSpaces /\ OnePerOrbit /\ WalkComplete
<1>1. CASE queue = <<>> /\ phase \in {"start", "failed"}
  BY <1>1 DEF NodesAreFixedSpaces, OnePerOrbit, WalkComplete
<1>2. CASE Walking
  <2>1. PICK n \in Nat : n = Len(queue) /\ DOMAIN queue = 1 .. n
    BY <1>2 DEF Walking
  <2>2. image \in Images /\ NodesRight(image, queue, n, seen) /\ (phase = "done" => AllMet(image, queue, n, seen))
    BY <1>2, <2>1 DEF Walking
  <2>3. SeenRight(image, queue, n, seen)
    BY <2>2 DEF NodesRight
  <2>4. NodesAreFixedSpaces
    <3>1. ASSUME NEW i \in 1 .. n
          PROVE  /\ Minus(queue[i].flags) = Stabilizer(image, queue[i].space)
                 /\ queue[i].space = FixedByAll(image, Minus(queue[i].flags))
      BY <2>2 DEF NodesRight, NodeRight
    <3>2. \A S : Stabilizer(image, S) = {p \in Pairs(image) : Preserves(S, p)}
      BY DEF Stabilizer, Fixes, Preserves
    <3> QED BY <2>1, <3>1, <3>2 DEF NodesAreFixedSpaces, FixedByAll
  <2>5. \A S, p : Apply(S, p) = Carry(image, S, p)
    BY DEF Apply, Carry
  <2>6. OnePerOrbit
    BY <2>1, <2>2, <2>5 DEF OnePerOrbit, NodesRight
  <2>7. ASSUME phase = "done", NEW S \in seen, NEW p \in Pairs(image)
        PROVE  FixedSpaceIntersection(S, p) \in seen \cup {{Zero[image]}}
    <3>1. AllMet(image, queue, n, seen)
      BY <2>2, <2>7
    <3>2. Met(image, seen, S, p)
      BY <2>2, <3>1, MetOfAll
    <3> QED BY <3>2 DEF Met, Within, FixedSpaceIntersection
  <2>8. ASSUME NEW S \in seen PROVE \E i \in DOMAIN queue, p \in Pairs(image) : S = Apply(queue[i].space, p)
    <3>1. PICK i \in 1 .. n, p \in Pairs(image) : S = Carry(image, queue[i].space, p)
      BY <2>3 DEF SeenRight
    <3> QED BY <2>1, <2>5, <3>1
  <2>9. WalkComplete
    BY <2>3, <2>7, <2>8 DEF WalkComplete, SeenRight
  <2> QED BY <2>4, <2>6, <2>9
<1> QED BY <1>1, <1>2 DEF WalkInv

-----------------------------------------------------------------------------
\* Every step of the engine keeps the invariant of the walk.
LEMMA WalkKept == EngineSpec => []WalkInv
<1>1. EngineInit => WalkInv
  BY WalkInductive DEF EngineInit
<1>2. WalkInv /\ [EngineNext]_engineVars => WalkInv'
  <2>1. [EngineNext]_engineVars => [WalkNext]_walkVars
    BY DEF EngineNext, engineVars
  <2> QED BY <2>1, WalkInductive
<1> QED BY <1>1, <1>2, PTL DEF EngineSpec

\* A node that is handed out is the fixed space of the pairs flagged in it,
\* and these are its whole stabilizer.
THEOREM NodesAlwaysFixedSpaces == EngineSpec => []NodesAreFixedSpaces
<1>1. WalkInv => NodesAreFixedSpaces
  BY WalkAnswers
<1> QED BY <1>1, WalkKept, PTL

\* The walk hands out one subspace of an orbit.
THEOREM AlwaysOnePerOrbit == EngineSpec => []OnePerOrbit
<1>1. WalkInv => OnePerOrbit
  BY WalkAnswers
<1> QED BY <1>1, WalkKept, PTL

\* A walk that ends by itself has met every isotropy subspace, though it
\* tries one pair of each coset and skips the matrices and orbits it knows.
THEOREM WalksComplete == EngineSpec => []WalkComplete
<1>1. WalkInv => WalkComplete
  BY WalkAnswers
<1> QED BY <1>1, WalkKept, PTL
=============================================================================
