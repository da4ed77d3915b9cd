---------------------------- MODULE IsotropyWalk ----------------------------
(***************************************************************************)
(* The walk over the isotropy subspaces of one irrep:                      *)
(* core/isotropy/traverse_exact.c, walk() and what it calls.  From the     *)
(* whole representation space it intersects each node with the fixed       *)
(* spaces of the operations, keeps one subspace of every orbit, and hands  *)
(* each of them to a callback that makes a row of it.                      *)
(*                                                                         *)
(* A "pair" (a space operation and a translation) is a number; it acts on  *)
(* the vectors of the representation space.  A subspace is the set of its  *)
(* vectors.  The reduced equations that the code interns as a key stand    *)
(* for exactly that, so keys are subspaces here.  Which subspace of an     *)
(* orbit is displayed (nice_score) is left out.                            *)
(***************************************************************************)
EXTENDS Integers, Sequences

CONSTANTS
    Images,    \* names of the irreps' images, the inputs of the walk
    Points,    \* per image, the vectors of the representation space
    Zero,      \* the zero vector
    Opposite,  \* x |-> -x
    Act,       \* for every pair its matrix, as a map of the vectors
    Product    \* pair_product: the pair that is the product of two

Pairs(im) == DOMAIN Act[im]
Identity(im, e) == \A x \in Points[im] : Act[im][e][x] = x

(* What the tables of traversal_tables() and the matrices have to be: a
   group that acts linearly. *)
IsImage(im) ==
    /\ Zero[im] \in Points[im]
    /\ Opposite[im] \in [Points[im] -> Points[im]]
    /\ \A x \in Points[im] : Opposite[im][Opposite[im][x]] = x
    /\ Len(Act[im]) \in Nat /\ DOMAIN Act[im] = 1 .. Len(Act[im])
    /\ \A p \in Pairs(im) :
           /\ Act[im][p] \in [Points[im] -> Points[im]]
           /\ Act[im][p][Zero[im]] = Zero[im]
           /\ \A x \in Points[im] : Act[im][p][Opposite[im][x]] = Opposite[im][Act[im][p][x]]
    /\ Product[im] \in [Pairs(im) -> [Pairs(im) -> Pairs(im)]]
    /\ \E e \in Pairs(im) : Identity(im, e) /\ \A p \in Pairs(im) : Product[im][p][e] = p
    /\ \A p, q \in Pairs(im) : \A x \in Points[im] :
           Act[im][Product[im][p][q]][x] = Act[im][p][Act[im][q][x]]
    /\ \A p \in Pairs(im) : \E q \in Pairs(im) : Identity(im, Product[im][q][p])

ASSUME ImagesAssumption == \A im \in Images : IsImage(im)

VARIABLES
    image,           \* the irrep that is walked
    phase,           \* the loop the walk is in, or how it ended
    queue,           \* the nodes: a subspace and the flags of the pairs
    head,            \* how many nodes were handed out
    seen,            \* the subspaces of all orbits kept so far
    pair,            \* the counter of the loops over the pairs
    candidateFlags,  \* the flags while the candidates of a node are collected
    candidates,      \* the candidates of the node not tried yet
    tried,           \* and those that were: their matrices are done
    child            \* the new subspace whose flags are being closed

walkVars == <<image, phase, queue, head, seen, pair, candidateFlags, candidates, tried, child>>

PairCount == Len(Act[image])
Node == queue[head]
Apply(S, p) == {Act[image][p][x] : x \in S}                       \* transform, and its key
(* A fault: a pair that only maps the subspace to itself counts too. *)
PreservesAsAWhole(S, p) == Apply(S, p) = S
Preserves(S, p) == \A x \in S : Act[image][p][x] = x              \* orderparam_check
FixedSpaceIntersection(S, p) == {x \in S : Act[image][p][x] = x}
NoChild == [space |-> {}, flags |-> <<>>, minus |-> {}]

(* projective_pairs: the first pair whose matrix is that of p up to sign. *)
SameUpToSign(p, q) ==
    \/ Act[image][p] = Act[image][q]
    \/ \A x \in Points[image] : Act[image][p][x] = Opposite[image][Act[image][q][x]]
Representative(p, q) ==
    /\ SameUpToSign(q, p)
    /\ \A r \in Pairs(image) : SameUpToSign(r, p) => q <= r
Projective(p) == CHOOSE q \in Pairs(image) : Representative(p, q)

(* A fault: only the subspace that is kept is remembered. *)
OrbitForgotten(S) == {S}

(* orbit: the keys of the images of S, one per projective class. *)
Orbit(S) == {Apply(S, Projective(p)) : p \in Pairs(image)}

(* What remains of a set of flags when those of some pairs are overwritten. *)
Flagged(flags, pairs, value) == [p \in DOMAIN flags |-> IF p \in pairs THEN value ELSE flags[p]]
Minus(flags) == {p \in DOMAIN flags : flags[p] = -1}
LeftCoset(p, S) == {Product[image][p][m] : m \in S}
BothCosets(p, S) == LeftCoset(p, S) \cup {Product[image][m][p] : m \in S}

-----------------------------------------------------------------------------
(* The root of the walk: the whole space, which every pair maps to itself. *)
Begin(im) ==
    /\ phase = "start"
    /\ phase' = "try"
    /\ image' = im
    /\ queue' = <<[space |-> Points[im],
                   flags |-> [p \in Pairs(im) |-> IF Identity(im, p) THEN -1 ELSE 0]]>>
    /\ seen' = {Points[im]}
    /\ UNCHANGED <<head, pair, candidateFlags, candidates, tried, child>>

(* The next node goes to the callback, which may end the walk: when the
   occurrence asked for is found. *)
Visit(more) ==
    /\ phase = "try"
    /\ candidates = {}
    /\ head < Len(queue)
    /\ head' = head + 1
    /\ phase' = IF more THEN "collect" ELSE "stopped"
    /\ candidateFlags' = queue[head + 1].flags
    /\ tried' = {}
    /\ pair' = 1
    /\ UNCHANGED <<image, queue, seen, candidates, child>>

(* One pair per coset of the node's stabilizer is a candidate. *)
Collect ==
    LET isCandidate == candidateFlags[pair] = 0
    IN  /\ phase = "collect"
        /\ candidates' = IF isCandidate THEN candidates \cup {pair} ELSE candidates
        /\ candidateFlags' =
               IF isCandidate
               THEN Flagged(candidateFlags, LeftCoset(pair, Minus(Node.flags)), 1)
               ELSE candidateFlags
        /\ pair' = pair + 1
        /\ phase' = IF pair = PairCount THEN "try" ELSE "collect"
        /\ UNCHANGED <<image, queue, head, seen, tried, child>>

NextCandidate(c) == c \in candidates /\ \A d \in candidates : c <= d
MatrixDone(c) == \E t \in tried : Act[image][t] = Act[image][c]
(* Neither nothing nor all of the node, and of an orbit not met before. *)
Found(D) == D # Node.space /\ D # {Zero[image]}
Overlaps(D) == D \in seen \/ Orbit(D) \cap seen # {}

TakeCandidate(c) ==
    /\ phase = "try"
    /\ NextCandidate(c)
    /\ candidates' = candidates \ {c}
    /\ tried' = tried \cup {c}

PassOver(c) ==
    LET D == FixedSpaceIntersection(Node.space, c)
    IN  /\ TakeCandidate(c)
        /\ MatrixDone(c) \/ ~Found(D) \/ Overlaps(D)
        /\ UNCHANGED <<image, phase, queue, head, seen, pair, candidateFlags, child>>

(* A fault: the orbit is remembered before the stabilizer is closed. *)
RememberEarly(c) ==
    LET D == FixedSpaceIntersection(Node.space, c)
        minus == Minus(Node.flags) \cup BothCosets(c, Minus(Node.flags))
    IN  /\ TakeCandidate(c)
        /\ ~MatrixDone(c) /\ Found(D) /\ ~Overlaps(D)
        /\ child' = [space |-> D,
                     flags |-> [p \in Pairs(image) |-> IF p \in minus THEN -1 ELSE 0],
                     minus |-> minus]
        /\ seen' = seen \cup Orbit(D)
        /\ pair' = 1
        /\ phase' = "close"
        /\ UNCHANGED <<image, queue, head, candidateFlags>>

(* A new subspace.  close_child_flags starts from the parent's stabilizer
   and its products with the candidate. *)
NewChild(c) ==
    LET D == FixedSpaceIntersection(Node.space, c)
        minus == Minus(Node.flags) \cup BothCosets(c, Minus(Node.flags))
    IN  /\ TakeCandidate(c)
        /\ ~MatrixDone(c) /\ Found(D) /\ ~Overlaps(D)
        /\ child' = [space |-> D,
                     flags |-> [p \in Pairs(image) |-> IF p \in minus THEN -1 ELSE 0],
                     minus |-> minus]
        /\ pair' = 1
        /\ phase' = "close"
        /\ UNCHANGED <<image, queue, head, seen, candidateFlags>>

(* A pair that preserves the child joins its stabilizer, with its products.
   A pair that maps it to a subspace seen before is struck out. *)
ClosePair ==
    LET open == child.flags[pair] = 0
        joined == BothCosets(pair, child.minus)
        key == Apply(child.space, Projective(pair))
    IN  /\ phase = "close"
        /\ pair <= PairCount
        /\ child' = IF ~open THEN child
                    ELSE IF Preserves(child.space, pair)
                    THEN [child EXCEPT !.flags = Flagged(@, joined, -1),
                                       !.minus = @ \cup joined]
                    ELSE IF key \in seen
                    THEN [child EXCEPT !.flags = Flagged(@, LeftCoset(pair, child.minus), 1)]
                    ELSE child
        /\ pair' = pair + 1
        /\ UNCHANGED <<image, phase, queue, head, seen, candidateFlags, candidates, tried>>

PushNode ==
    /\ phase = "close"
    /\ pair > PairCount
    /\ seen' = seen \cup Orbit(child.space)
    /\ queue' = Append(queue, [space |-> child.space, flags |-> child.flags])
    /\ phase' = "try"
    /\ child' = NoChild
    /\ UNCHANGED <<image, head, pair, candidateFlags, candidates, tried>>

Finish ==
    /\ phase = "try"
    /\ candidates = {}
    /\ head = Len(queue)
    /\ phase' = "done"
    /\ UNCHANGED <<image, queue, head, seen, pair, candidateFlags, candidates, tried, child>>

(* No memory, a value that does not reconstruct, an error of the callback:
   the walk ends with a status, and its caller drops what it has. *)
Fail ==
    /\ phase \in {"start", "collect", "try", "close"}
    /\ phase' = "failed"
    /\ UNCHANGED <<image, queue, head, seen, pair, candidateFlags, candidates, tried, child>>

WalkInit ==
    /\ image = "none"
    /\ phase = "start"
    /\ queue = <<>>
    /\ head = 0
    /\ seen = {}
    /\ pair = 1
    /\ candidateFlags = <<>>
    /\ candidates = {}
    /\ tried = {}
    /\ child = NoChild

WalkStep ==
    \/ \E im \in Images : Begin(im)
    \/ \E more \in BOOLEAN : Visit(more)
    \/ Collect
    \/ \E c \in candidates : PassOver(c) \/ NewChild(c)
    \/ ClosePair
    \/ PushNode
    \/ Finish

WalkNext == WalkStep \/ Fail
WalkSpec == WalkInit /\ [][WalkNext]_walkVars

-----------------------------------------------------------------------------
(* "each node is the fixed space of its stabilizer" (certify_walk): when a
   node is handed out, the pairs flagged in it are its whole stabilizer, and
   nothing else than the node is fixed by all of them. *)
NodesAreFixedSpaces ==
    \A i \in DOMAIN queue :
        LET stabilizer == Minus(queue[i].flags)
        IN  /\ stabilizer = {p \in Pairs(image) : Preserves(queue[i].space, p)}
            /\ queue[i].space = {x \in Points[image] : \A p \in stabilizer : Act[image][p][x] = x}

(* No orbit is handed out twice: no operation maps a node to another. *)
OnePerOrbit ==
    \A i, j \in DOMAIN queue : \A p \in Pairs(image) :
        queue[j].space = Apply(queue[i].space, p) => i = j

(* "its intersection with the fixed space of every other matrix lies in the
   orbit of some node" (certify_walk): a walk that ends by itself has met
   every isotropy subspace.  The subspaces met are the orbits of the nodes;
   they contain the whole space and, with a subspace, all it has in common
   with the fixed space of a pair, unless that is zero. *)
WalkComplete ==
    phase = "done" =>
        /\ Points[image] \in seen
        /\ \A S \in seen : \A p \in Pairs(image) :
               FixedSpaceIntersection(S, p) \in seen \cup {{Zero[image]}}
        /\ \A S \in seen : \E i \in DOMAIN queue, p \in Pairs(image) :
               S = Apply(queue[i].space, p)
=============================================================================
