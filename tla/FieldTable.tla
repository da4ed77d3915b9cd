----------------------------- MODULE FieldTable -----------------------------
(***************************************************************************)
(* The tables of core/math/exact_kernel.c that live as long as the         *)
(* process: for an order m, a prime p = 1 mod m (prime_for), and the       *)
(* residue field a walk over Q(zeta_m) computes in (modp_field).  A server *)
(* answers every request of its life from the same two tables.             *)
(*                                                                         *)
(* A prime stands for itself and for all that follows from it and from m   *)
(* alone: the root, the units, the inverse Vandermonde matrix.             *)
(***************************************************************************)
EXTENDS Integers, Sequences

CONSTANTS
    Moduli,      \* the orders m the engine computes with
    Attempts,    \* which of the primes for m is asked for, counted from 0
    PrimeOf,     \* prime_search: the prime of <<m, attempt>>, 0 when there is none
    PrimeSlots,  \* entries of prime_for's table (64)
    FieldSlots   \* entries of modp_field's table (16)

ASSUME FieldAssumption ==
    /\ Moduli \subseteq Nat \ {0}
    /\ 0 \in Attempts
    /\ PrimeOf \in [Moduli \X Attempts -> Nat]
    /\ PrimeSlots \in Nat
    /\ FieldSlots \in Nat

VARIABLES
    primes,   \* prime_for's table
    fields,   \* modp_field's table
    asked     \* history: the last call of modp_field and its answer

fieldVars == <<primes, fields, asked>>

\* A fault: the order is left out of the comparison.
HeldByAttempt(table, key) == {i \in DOMAIN table : table[i].key[2] = key[2]}

(* Where a table holds a key, and the first entry that does. *)
Held(table, key) == {i \in DOMAIN table : table[i].key = key}
Looked(table, key) ==
    table[CHOOSE i \in Held(table, key) : \A j \in Held(table, key) : i <= j].p

(* prime_for: the table first, else a search, remembered while there is
   room; a full table only means that the search is repeated. *)
PrimeFor(key) == IF Held(primes, key) # {} THEN Looked(primes, key) ELSE PrimeOf[key]
RememberPrime(key) ==
    primes' = IF Held(primes, key) # {} \/ PrimeOf[key] = 0 \/ Len(primes) >= PrimeSlots
              THEN primes
              ELSE Append(primes, [key |-> key, p |-> PrimeOf[key]])

(* modp_field(m, phi, 0): answers p, or 0 for a failure.  Unlike prime_for
   it cannot answer without a free entry, for the caller keeps pointers
   into the entry.  starved: an allocation failed. *)
Answer(m, p, starved) == asked' = [m |-> m, p |-> p, starved |-> starved]

FieldHeld(m, p) ==
    /\ Held(fields, <<m, 0>>) # {}
    /\ p = Looked(fields, <<m, 0>>)
    /\ Answer(m, p, FALSE)
    /\ UNCHANGED <<primes, fields>>

FieldMade(m, p) ==
    LET key == <<m, 0>>
        q == PrimeFor(key)
        room == Len(fields) < FieldSlots
    IN  /\ Held(fields, key) = {}
        /\ p = IF room THEN q ELSE 0
        /\ RememberPrime(key)
        /\ fields' = IF p # 0 THEN Append(fields, [key |-> key, p |-> p]) ELSE fields
        /\ Answer(m, p, FALSE)

FieldStarved(m, p) ==
    /\ Held(fields, <<m, 0>>) = {}
    /\ PrimeFor(<<m, 0>>) # 0
    /\ p = 0
    /\ RememberPrime(<<m, 0>>)
    /\ Answer(m, p, TRUE)
    /\ UNCHANGED fields

FieldFor(m, p) == FieldHeld(m, p) \/ FieldMade(m, p) \/ FieldStarved(m, p)

(* The exact solvers ask for further primes of m, and keep none of them. *)
SolverPrime(m, attempt) ==
    /\ RememberPrime(<<m, attempt>>)
    /\ UNCHANGED <<fields, asked>>

NotAsked == [m |-> 0, p |-> 0, starved |-> TRUE]

FieldInit ==
    /\ primes = <<>>
    /\ fields = <<>>
    /\ asked = NotAsked

-----------------------------------------------------------------------------
(* core/math/modp.h describes modp_field: "Nonzero when none is available".
   So an order that has a prime is answered with that prime in every state
   of the process, whatever was asked before it, unless memory ran out. *)
FieldAnswered == ~asked.starved => asked.p = PrimeOf[<<asked.m, 0>>]
=============================================================================
