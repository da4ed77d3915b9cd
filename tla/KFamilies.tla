----------------------------- MODULE KFamilies ------------------------------
(***************************************************************************)
(* The k families of a supercell's reciprocal mesh (core/k/families.c), as *)
(* one process answers several requests.  Every vector of the mesh is      *)
(* looked up in the families of k points of the parent: the families whose *)
(* star, brought to standard parameters, holds an image of the vector      *)
(* under the operations of the lattice.  The preferred ones of least       *)
(* dimension are kept, and the vectors are grouped by family and orbit.    *)
(* Standard parameters, the minima of orbits and the families of a vector  *)
(* are remembered for the life of the process.                             *)
(***************************************************************************)
EXTENDS KStars

CONSTANTS
    Stars,            \* Stars[sg]: the stars of its families, in the order of the tables
    SgRotations,      \* SgRotations[sg]: its point operations
    LatticeRotations, \* those of the largest group with the lattice, in order
    SettingMatrix,    \* SettingMatrix[sg]: to the axes of the International setting
    Sessions          \* what one process is asked: sequences of
                      \* [sg, basis, preferred, tight]; tight: memory may run out

(* The tables are lists, a group of the lattice has the identity.  A request asks
   for a space group of the tables; a supercell with no volume has no mesh. *)
Requested == UNION {Range(s) : s \in Sessions}
Matrices == [1 .. 3 -> [1 .. 3 -> Int]]
UnitMatrix == <<<<1, 0, 0>>, <<0, 1, 0>>, <<0, 0, 1>>>>
Cross(u, v) == <<u[2] * v[3] - u[3] * v[2], u[3] * v[1] - u[1] * v[3], u[1] * v[2] - u[2] * v[1]>>
Det(b) == Dot(b[1], Cross(b[2], b[3]))
ASSUME KTablesAssumption ==
    \A sg \in DOMAIN Stars :
        /\ Stars[sg] \in Seq(Range(Stars[sg]))
        /\ LatticeRotations[sg] \in Seq(Range(LatticeRotations[sg]))
        /\ UnitMatrix \in Range(LatticeRotations[sg])
ASSUME KRequestsAssumption ==
    /\ Sessions \subseteq Seq(Requested)
    /\ \A r \in Requested : r.sg \in DOMAIN Stars /\ r.basis \in Matrices /\ Det(r.basis) # 0

VARIABLES
    session,     \* requests to come
    kRequest,    \* the one being answered
    kContext,    \* of its space group: [sg, stars, solvers, rotations, lattice, setting]
    kStep,       \* "idle", "looking", "trying", "own", "answered", "failed"
    kMesh,       \* the vectors
    kOrder,      \* the vector whose turn it is
    kTargets,    \* images of it that are to be looked up
    kFamily,     \* the family to be tried for the first of these
    kHeld,       \* candidates found for it: sequence of [family, params]
    kFound,      \* per family found for the vector: [params, vector]
    kMatches,    \* the families kept, still to be brought to the vector itself
    kGroups,     \* sequence of [family, orbit, params, vector]
    kOccurrences, \* sequence of [order, vector, group, params]
    standardMemo, orbitMemo, candidateMemo

kVars == <<session, kRequest, kContext, kStep, kMesh, kOrder, kTargets, kFamily, kHeld, kFound, kMatches,
           kGroups, kOccurrences, standardMemo, orbitMemo, candidateMemo>>

(* A fault: the inverses are left out. *)
StandardRotationsAlone(rotations) == rotations
(* The operations of the parent and these after the inversion. *)
StandardRotations(rotations) == rotations \cup {NegMatrix(m) : m \in rotations}
(* load_sg_context, and the solvers of its stars. *)
ContextOf(sg) ==
    [sg |-> sg, stars |-> Stars[sg],
     solvers |-> [f \in DOMAIN Stars[sg] |-> [a \in DOMAIN Stars[sg][f] |-> SolverOf(Stars[sg][f][a])]],
     rotations |-> StandardRotations(Range(SgRotations[sg])),
     lattice |-> LatticeRotations[sg], setting |-> SettingMatrix[sg]]
Families == DOMAIN kContext.stars
KDimension(f) == Len(kContext.stars[f][1]) - 1

-----------------------------------------------------------------------------
(* reciprocal_mesh: the quotient of the reciprocal lattices *)
Abs(n) == IF n < 0 THEN -n ELSE n
(* The columns of the adjugate, as numerators over the determinant. *)
MeshGenerators(b) ==
    LET det == Det(b)
        Signed(v) == [i \in 1 .. 3 |-> (IF det < 0 THEN -v[i] ELSE v[i]) % Abs(det)]
    IN  <<Signed(Cross(b[2], b[3])), Signed(Cross(b[3], b[1])), Signed(Cross(b[1], b[2]))>>
PlusMod(u, v, det) == [i \in 1 .. 3 |-> (u[i] + v[i]) % det]
Offset(n, g, det) == [i \in 1 .. 3 |-> (-n * g[i]) % det]
(* 0, -g, -2g, ... up to the first in the subgroup. *)
CyclicOffsets(g, subgroup, det) ==
    LET count == Min({n \in 1 .. det : Offset(n, g, det) \in subgroup})
    IN  [n \in 1 .. count |-> Offset(n - 1, g, det)]
ReciprocalMesh(b) ==
    LET det == Abs(Det(b))
        g == MeshGenerators(b)
        third == CyclicOffsets(g[3], {<<0, 0, 0>>}, det)
        second == CyclicOffsets(g[2], Range(third), det)
        joined == UNION {{PlusMod(second[s], third[t], det) : t \in DOMAIN third} : s \in DOMAIN second}
        first == CyclicOffsets(g[1], joined, det)
        At(n) == LET f == n \div (Len(second) * Len(third))
                     s == (n \div Len(third)) % Len(second)
                     t == n % Len(third)
                 IN  PlusMod(first[f + 1], PlusMod(second[s + 1], third[t + 1], det), det)
    IN  [n \in 1 .. Len(first) * Len(second) * Len(third) |->
            LET v == At(n - 1)
            IN  <<(v[1] * KDen) \div det, (v[2] * KDen) \div det, (v[3] * KDen) \div det>>]

-----------------------------------------------------------------------------
(* Orders of vectors.  key_cmp: by the reduced numerators and the denominators
   of the coordinates modulo 1; a vector's place is a number. *)
KeyPlace(n) ==
    LET g == Max({h \in 1 .. KDen : n % h = 0 /\ KDen % h = 0})
    IN  (n \div g) * (KDen + 1) + KDen \div g
KeyOf(v) ==
    LET base == (KDen + 1) * (KDen + 1)
    IN  (KeyPlace(v[1] % KDen) * base + KeyPlace(v[2] % KDen)) * base + KeyPlace(v[3] % KDen)
LeastKey(vectors) == Min({KeyOf(v) : v \in vectors})
(* cinter_cmp: by magnitude and sign of the International coordinates. *)
InterPlace(n) == 2 * Abs(n) + (IF n < 0 THEN 1 ELSE 0)
InterOf(v) ==
    LET w == Rotated(kContext.setting, v)
        base == 16 * KDen
    IN  (InterPlace(w[1]) * base + InterPlace(w[2])) * base + InterPlace(w[3])

OrbitOf(v) == {Mod1(w) : w \in {Rotated(m, v) : m \in kContext.rotations}}
LatticeOrbit(v) == {Mod1(w) : w \in {Rotated(m, v) : m \in Range(kContext.lattice)}}
Heads(s) == Ascending({n \in DOMAIN s : \A m \in 1 .. n - 1 : s[m] # s[n]}, Len(s))
(* The vector, then its images, each once. *)
TargetsOf(v) ==
    LET all == <<v>> \o [g \in DOMAIN kContext.lattice |-> Mod1(Rotated(kContext.lattice[g], v))]
        once == Heads(all)
    IN  [n \in DOMAIN once |-> all[once[n]]]

-----------------------------------------------------------------------------
(* Parameters *)
Fixed(f) == KDimension(f) = 0
StarAt(f, params) == {Mod1(v) : v \in {KVector(arm, params) : arm \in Range(kContext.stars[f])}}
SourceParams(f, v) ==  \* source_kparam: none or one
    IF Fixed(f) THEN IF v \in StarAt(f, <<>>) THEN {<<>>} ELSE {}
    ELSE FirstSolution(kContext.stars[f], kContext.solvers[f], v)

FirstArmAt(f, params) == KVector(kContext.stars[f][1], params)
PlaceOf(f, params) ==
    CHOOSE place \in {InterOf(v) : v \in {FirstArmAt(f, params)}} : TRUE
ParamShifts(n) == {[c \in 1 .. n |-> KDen * s[c]] : s \in [1 .. n -> -1 .. 1]}
(* standard_scan over an orbit: of the parameters that put a vector of it on an
   arm, moved by whole periods, those whose first arm is least. *)
LeastParams(f, orbit) ==
    LET n == KDimension(f)
        solved == UNION {AllSolutions(kContext.stars[f], kContext.solvers[f], v) : v \in orbit}
        moved == {[c \in 1 .. n |-> p[c] + s[c]] : p \in solved, s \in ParamShifts(n)}
        least == Min({PlaceOf(f, p) : p \in moved})
    IN  CHOOSE p \in moved : PlaceOf(f, p) = least
(* memo_put, of a key that is not there *)
Remembering(memo, key, value) ==
    [k \in DOMAIN memo \cup {key} |-> IF k \in DOMAIN memo THEN memo[k] ELSE value]
(* standard_kparam with its two memos; an orbit is known by its least vector. *)
ParamsKey(f, params) == <<kContext.sg, f, params>>
OrbitKey(f, params) ==
    CHOOSE key \in {<<kContext.sg, f, LeastKey(OrbitOf(v))>> : v \in {FirstArmAt(f, params)}} : TRUE
LearnOrbit(f, params) ==
    \E key \in {OrbitKey(f, params)} :
        orbitMemo' = IF key \in DOMAIN orbitMemo THEN orbitMemo
                     ELSE Remembering(orbitMemo, key, LeastParams(f, UNION {OrbitOf(v) : v \in {FirstArmAt(f, params)}}))
Learn(f, params) ==
    IF ParamsKey(f, params) \in DOMAIN standardMemo THEN UNCHANGED <<standardMemo, orbitMemo>>
    ELSE /\ LearnOrbit(f, params)
         /\ \E least \in {orbitMemo'[OrbitKey(f, params)]} :
                standardMemo' = Remembering(standardMemo, ParamsKey(f, params),
                    IF PlaceOf(f, least) < PlaceOf(f, params) THEN least ELSE params)

-----------------------------------------------------------------------------
(* The families of one vector: family_candidates, family_matches *)
Preferred(f, params) ==
    \E p \in kRequest.preferred : p.family = f /\ p.params = [c \in DOMAIN params |-> params[c] % KDen]
(* Of the families found, preferred ones before others, then those of least
   dimension, in the order of the tables. *)
BestOf(found) ==
    LET liked == {f \in DOMAIN found : Preferred(f, found[f].params)}
        among == IF liked = {} THEN DOMAIN found ELSE liked
        least == {f \in among : \A g \in among : KDimension(f) <= KDimension(g)}
    IN  Ascending(least, Len(kContext.stars))
(* What is held for a target adds the families not found for one before. *)
Adding(found, held, target) ==
    LET new == {n \in DOMAIN held : held[n].family \notin DOMAIN found}
        At(f) == CHOOSE n \in new : held[n].family = f
    IN  [f \in DOMAIN found \cup {held[n].family : n \in new} |->
            IF f \in DOMAIN found THEN found[f] ELSE [params |-> held[At(f)].params, vector |-> target]]

AskFamilies ==
    /\ kStep \in {"idle", "answered", "failed"}
    /\ session # <<>>
    /\ session' = Tail(session)
    /\ kRequest' = Head(session)
    /\ kContext' = ContextOf(Head(session).sg)
    /\ kMesh' = ReciprocalMesh(Head(session).basis)
    /\ kStep' = "own" /\ kOrder' = 0 /\ kMatches' = <<>>
    /\ kTargets' = <<>> /\ kFamily' = 0 /\ kHeld' = <<>> /\ kFound' = <<>>
    /\ kGroups' = <<>> /\ kOccurrences' = <<>>
    /\ UNCHANGED <<standardMemo, orbitMemo, candidateMemo>>

TargetDone(held) ==
    /\ kFound' = Adding(kFound, held, Head(kTargets))
    /\ kTargets' = Tail(kTargets)
    /\ kFamily' = 0 /\ kHeld' = <<>>
    /\ IF kTargets' # <<>> THEN kStep' = "looking" /\ UNCHANGED kMatches
       ELSE kStep' = "own" /\ kMatches' = BestOf(kFound')
    /\ UNCHANGED <<session, kRequest, kContext, kMesh, kOrder, kGroups, kOccurrences, standardMemo, orbitMemo>>
CandidateKey == <<kContext.sg, Head(kTargets)>>
LookUpTarget ==
    /\ kStep = "looking"
    /\ IF CandidateKey \in DOMAIN candidateMemo
       THEN TargetDone(candidateMemo[CandidateKey]) /\ UNCHANGED candidateMemo
       ELSE /\ kStep' = "trying" /\ kFamily' = 1
            /\ UNCHANGED <<session, kRequest, kContext, kMesh, kOrder, kTargets, kHeld, kFound, kMatches,
                           kGroups, kOccurrences, standardMemo, orbitMemo, candidateMemo>>
(* The family's star through the target holds it, if it does so still with the
   standard parameters. *)
HeldAfter(f, params, target) ==
    IF target \in StarAt(f, params)
    THEN Append(kHeld, [family |-> f, params |-> params]) ELSE kHeld
TryFamily ==
    LET target == Head(kTargets)
    IN  /\ kStep = "trying" /\ kFamily \in Families
        /\ \E source \in {SourceParams(kFamily, target)} :
               \/ /\ source = {} \/ Fixed(kFamily)
                  /\ kHeld' = IF source = {} THEN kHeld ELSE HeldAfter(kFamily, <<>>, target)
                  /\ UNCHANGED <<standardMemo, orbitMemo>>
               \/ /\ ~Fixed(kFamily)
                  /\ \E params \in source :
                         /\ Learn(kFamily, params)
                         /\ kHeld' = HeldAfter(kFamily, standardMemo'[ParamsKey(kFamily, params)], target)
        /\ kFamily' = kFamily + 1
        /\ UNCHANGED <<session, kRequest, kContext, kStep, kMesh, kOrder, kTargets, kFound, kMatches, kGroups,
                       kOccurrences, candidateMemo>>
KeepCandidates ==
    /\ kStep = "trying" /\ kFamily \notin Families
    /\ candidateMemo' = Remembering(candidateMemo, CandidateKey, kHeld)
    /\ TargetDone(kHeld)

-----------------------------------------------------------------------------
(* The occurrences: k_family_records *)
GroupOf(groups, f, orbit) == {g \in DOMAIN groups : groups[g].family = f /\ groups[g].orbit = orbit}
(* A match becomes an occurrence, in the group of its family and orbit. *)
Occur(f, match) ==
    LET v == kMesh[kOrder]
        orbit == LeastKey(LatticeOrbit(v))
        mine == GroupOf(kGroups, f, orbit)
        group == IF mine = {} THEN Len(kGroups) + 1 ELSE Min(mine)
    IN  /\ kGroups' = IF mine # {} THEN kGroups
                      ELSE Append(kGroups, [family |-> f, orbit |-> orbit, params |-> match.params, vector |-> match.vector])
        /\ kOccurrences' = Append(kOccurrences, [vector |-> v, group |-> group, params |-> match.params])
(* A family found at an image of the vector holds the vector itself, or its
   opposite, with other parameters, or it does not. *)
OwnMatch(f, params) ==
    LET v == kMesh[kOrder]
        star == StarAt(f, params)
    IN  IF v \in star \/ Mod1(Neg(v)) \in star THEN [params |-> params, vector |-> v] ELSE kFound[f]
MatchFamily ==
    LET f == Head(kMatches)
        source == SourceParams(f, kMesh[kOrder])
    IN  /\ kStep = "own" /\ kMatches # <<>>
        /\ \/ /\ Fixed(f) \/ source = {}
              /\ Occur(f, kFound[f])
              /\ UNCHANGED <<standardMemo, orbitMemo>>
           \/ /\ ~Fixed(f)
              /\ \E params \in source :
                     /\ Learn(f, params)
                     /\ Occur(f, OwnMatch(f, standardMemo'[ParamsKey(f, params)]))
        /\ kMatches' = Tail(kMatches)
        /\ UNCHANGED <<session, kRequest, kContext, kStep, kMesh, kOrder, kTargets, kFamily, kHeld, kFound, candidateMemo>>
NextVector ==
    /\ kStep = "own" /\ kMatches = <<>>
    /\ kOrder' = kOrder + 1
    /\ kFound' = <<>>
    /\ IF kOrder = Len(kMesh) THEN kStep' = "answered" /\ kTargets' = <<>>
       ELSE kStep' = "looking" /\ kTargets' = TargetsOf(kMesh[kOrder + 1])
    /\ UNCHANGED <<session, kRequest, kContext, kMesh, kFamily, kHeld, kMatches, kGroups, kOccurrences,
                   standardMemo, orbitMemo, candidateMemo>>
(* Whose standard parameters the next step asks for. *)
UnderWay ==
    CASE kStep = "trying" /\ kFamily \in Families ->
             {<<kFamily, p>> : p \in IF Fixed(kFamily) THEN {} ELSE SourceParams(kFamily, Head(kTargets))}
      [] kStep = "own" /\ kMatches # <<>> ->
             {<<Head(kMatches), p>> : p \in IF Fixed(Head(kMatches)) THEN {}
                                            ELSE SourceParams(Head(kMatches), kMesh[kOrder])}
      [] OTHER -> {}
(* Memory runs out.  What was remembered before stays; the least of an orbit
   may be remembered when the parameters that asked for it are not. *)
KRunsOut ==
    /\ kRequest.tight /\ kStep \in {"looking", "trying", "own"}
    /\ kStep' = "failed"
    /\ \/ UNCHANGED orbitMemo
       \/ \E under \in UnderWay :  \* a family and its parameters
             ParamsKey(under[1], under[2]) \notin DOMAIN standardMemo /\ LearnOrbit(under[1], under[2])
    /\ UNCHANGED <<session, kRequest, kContext, kMesh, kOrder, kTargets, kFamily, kHeld, kFound, kMatches,
                   kGroups, kOccurrences, standardMemo, candidateMemo>>

NoContext == [sg |-> 0, stars |-> <<>>, solvers |-> <<>>, rotations |-> {}, lattice |-> <<>>, setting |-> <<>>]
NoRequest == [sg |-> 0, basis |-> <<>>, preferred |-> {}, tight |-> FALSE]
KAt(sessions) ==
    /\ session \in sessions /\ kRequest = NoRequest /\ kContext = NoContext /\ kStep = "idle"
    /\ kMesh = <<>> /\ kOrder = 0 /\ kTargets = <<>> /\ kFamily = 0 /\ kHeld = <<>> /\ kFound = <<>>
    /\ kMatches = <<>> /\ kGroups = <<>> /\ kOccurrences = <<>>
    /\ standardMemo = <<>> /\ orbitMemo = <<>> /\ candidateMemo = <<>>
KInit == KAt(Sessions)
KNext ==
    \/ AskFamilies \/ LookUpTarget \/ TryFamily \/ KeepCandidates
    \/ MatchFamily \/ NextVector \/ KRunsOut
KSpec == KInit /\ [][KNext]_kVars

(* The records: for each group one for each of the parameters its occurrences
   have.  Those of the group's own parameters show the vector of its match. *)
OccurrencesOf(g, params) ==
    {o \in DOMAIN kOccurrences : kOccurrences[o].group = g /\ kOccurrences[o].params = params}
RecordOf(g, params) ==
    [family |-> kGroups[g].family, params |-> params,
     vector |-> IF params = kGroups[g].params THEN kGroups[g].vector
                ELSE kOccurrences[Min(OccurrencesOf(g, params))].vector,
     listed |-> {kOccurrences[o].vector : o \in OccurrencesOf(g, params)}]
Records == {RecordOf(kOccurrences[o].group, kOccurrences[o].params) : o \in DOMAIN kOccurrences}

-----------------------------------------------------------------------------
(* The mesh, from its definition: the vectors with integral products with the
   basis of the supercell. *)
KSpace == (0 .. KDen - 1) \X (0 .. KDen - 1) \X (0 .. KDen - 1)
MeshOf(b) == {v \in KSpace : \A i \in 1 .. 3 : Dot(b[i], v) % KDen = 0}
OnStar(record, v) ==
    LET star == StarAt(record.family, record.params)
    IN  v \in star \/ Mod1(Neg(v)) \in star
OnItsStar == \A r \in Records : \A v \in r.listed : \E w \in LatticeOrbit(v) : OnStar(r, w)
(* Each wave vector of the supercell belongs to one row: every vector of the
   mesh lies, up to its sign, on the star of exactly one record, unless k points
   are preferred.  In any case every vector is listed, and a record lists nothing
   but vectors that the lattice carries onto its star.  (families.c, rows.c) *)
EachStarHasItsRow ==
    kStep = "answered" =>
        /\ kRequest.preferred = {} => \A v \in MeshOf(kRequest.basis) :
               \E r \in Records : OnStar(r, v) /\ \A other \in Records \ {r} : ~OnStar(other, v)
        /\ \A v \in MeshOf(kRequest.basis) : \E r \in Records : v \in r.listed
        /\ OnItsStar
=============================================================================
