---------------------------- MODULE ProcessProofs ---------------------------
(***************************************************************************)
(* What holds of an apo process for all inputs, catalogs, parents and      *)
(* irreps, though the steps of its parts come in any order.                *)
(*                                                                         *)
(* The command line.  EndsAsTold follows from what a run holds at each of  *)
(* its steps (Holding): the trap and the CIF of --sg are there between two *)
(* of them, the launch is out before the answer to `show`.                 *)
(* AsksWhatIsMeant follows from AskedInv, which says of every step what    *)
(* has been refused by then, and from lemmas about a single input: what    *)
(* the words or the file of a case say of its sites (Tells) whether lists  *)
(* are merged or the last entry counts, what the four layers refuse, and   *)
(* that together they refuse just what the manual does.                    *)
(*                                                                         *)
(* The coupled OPDs.  The frequencies coupled_tuples() keeps are those of  *)
(* the request that is being answered: the proof needs the reset at the    *)
(* start of a request, as its key holds nothing of the slots.              *)
(* CoupledDistinct and CoupledComplete follow from CoupledInv: what is     *)
(* listed are candidates of the choices of rows that are done, and all     *)
(* their directions.  The lemmas below it follow a choice of rows from its *)
(* number to its candidates: its digits, the domains of its rows, the      *)
(* tuples that the generators leave apart, the classes these stand for.    *)
(*                                                                         *)
(* The k families.  OnItsStar follows from FamiliesInv: candidates that    *)
(* were remembered for a target, by whatever request, have stars that hold *)
(* it, and so has what is found for the vector whose images the targets    *)
(* are.  It rests on what is looked up after standard parameters: whatever *)
(* these are, only a star that holds the target is kept.                   *)
(***************************************************************************)
EXTENDS Process, Induction

-----------------------------------------------------------------------------
(* The command line *)

CliSteps == {"start", "reading", "asking", "asked", "answered", "ended", "elsewhere"}

(* What a run holds at each step: error_trap from the start of an example to
   its end, the CIF of --sg only in a process of its own, nothing said of the
   exit before it; a launch is out before the answer to `show` is written, and
   nothing else is published before the end. *)
Holding ==
    /\ cliStep # "ended" => status = -1
    /\ trap => input.command = "example"
    /\ trap <=> input.command = "example" /\ cliStep \in {"reading", "asking", "asked"}
    /\ tempCif => input.parent = "sg" /\ cliStep \in {"reading", "asking", "asked", "answered"}
    /\ output # "none" => cliStep = "ended" /\ input.command # "example"
    /\ published /\ cliStep # "ended" => cliStep = "answered" /\ input.command = "show"
    /\ cliStep = "answered" =>
          /\ input.command # "example" /\ engine \in {"answer", "modeError"}
          /\ input.command = "show" => published /\ engine = "answer"

ToldInv ==
    /\ input \in Inputs /\ cliStep \in CliSteps
    /\ Holding
    /\ EndsAsTold

\* An example is a case file of its own, nothing of which is refused before
\* it is read.
LEMMA ExampleAccepted ==
    ASSUME NEW in \in Inputs, in.command = "example"
    PROVE  ~ArgsRefused(in) /\ in.parent # "sg"
<1>1. IsInput(in)
  BY InputsAssumption
<1>2. in.file /\ ~in.text /\ in.parent # "sg"
  BY <1>1 DEF IsInput
<1> QED BY <1>2 DEF ArgsRefused

\* A refusal ends the run with the status for it.
LEMMA RefuseTells ==
    ASSUME Refuse, tempCif => input.parent = "sg", trap => input.command = "example",
           input \in Inputs
    PROVE  /\ cliStep' = "ended" /\ ~trap' /\ ~tempCif'
           /\ status' = IF trap THEN 1 ELSE 2
<1>1. CASE trap
  <2>1. ~tempCif
    BY <1>1, ExampleAccepted
  <2> QED BY <1>1, <2>1 DEF Refuse
<1>2. CASE ~trap
  BY <1>2 DEF Refuse, ExitWith
<1> QED BY <1>1, <1>2

\* So does a failure of the engine.
LEMMA FailsTells ==
    ASSUME NEW failure, Fails(failure), tempCif => input.parent = "sg",
           trap => input.command = "example", input \in Inputs
    PROVE  /\ cliStep' = "ended" /\ ~trap' /\ ~tempCif' /\ engine' = failure
           /\ status' \in IF trap THEN {1} ELSE {1, 2}
           /\ UNCHANGED <<input, case, options, output, published>>
<1>1. CASE trap
  <2>1. ~tempCif
    BY <1>1, ExampleAccepted
  <2> QED BY <1>1, <2>1 DEF Fails
<1>2. CASE ~trap
  BY <1>2 DEF Fails, ExitWith
<1> QED BY <1>1, <1>2

\* A run starts with nothing to tell, or its words are refused.
LEMMA StartTold == ASSUME ToldInv, Start PROVE ToldInv'
<1>1. CASE ArgsRefused(input)
  <2>1. Refuse /\ UNCHANGED <<input, case, options, engine, output, published>> /\ cliStep = "start"
    BY <1>1 DEF Start
  <2>2. input.command # "example"
    BY <1>1, ExampleAccepted DEF ToldInv
  <2> QED BY <2>1, <2>2, RefuseTells DEF ToldInv, Holding, EndsAsTold, CliSteps
<1>2. CASE ~ArgsRefused(input)
  BY <1>2 DEF Start, ToldInv, Holding, EndsAsTold, CliSteps
<1> QED BY <1>1, <1>2

\* Reading the case tells of nothing but a refusal.
LEMMA ReadTold == ASSUME ToldInv, Read PROVE ToldInv'
<1>1. CASE ReadRefused \/ TextRefused
  <2>1. Refuse /\ UNCHANGED <<input, options, engine, output, published>> /\ cliStep = "reading"
    BY <1>1 DEF Read
  <2> QED BY <2>1, RefuseTells DEF ToldInv, Holding, EndsAsTold, CliSteps
<1>2. CASE ~(ReadRefused \/ TextRefused)
  BY <1>2 DEF Read, ToldInv, Holding, EndsAsTold, CliSteps
<1> QED BY <1>1, <1>2

\* Asking the engine may fail.
LEMMA AskTold == ASSUME ToldInv, Ask PROVE ToldInv'
<1>1. CASE Fails("caught")
  <2>1. cliStep = "asking"
    BY DEF Ask
  <2> QED BY <1>1, <2>1, FailsTells DEF ToldInv, Holding, EndsAsTold, CliSteps
<1>2. CASE ~Fails("caught")
  <2>1. /\ cliStep = "asking" /\ cliStep' = "asked"
        /\ UNCHANGED <<input, case, engine, output, published, trap, tempCif, status>>
    BY <1>2 DEF Ask
  <2> QED BY <2>1 DEF ToldInv, Holding, EndsAsTold, CliSteps
<1> QED BY <1>1, <1>2

\* The engine may fail, or leave an answer.
LEMMA ComputeTold == ASSUME ToldInv, Compute PROVE ToldInv'
<1>1. cliStep = "asked" /\ input.command \notin {"show", "example"}
  BY DEF Compute, Launches
<1>2. ASSUME NEW failure \in {"caught", "uncaught", "memory"}, Fails(failure)
      PROVE  ToldInv'
  BY <1>1, <1>2, FailsTells DEF ToldInv, Holding, EndsAsTold, CliSteps
<1>3. CASE \A failure \in {"caught", "uncaught", "memory"} : ~Fails(failure)
  <2>1. /\ engine' \in {"answer", "modeError"} /\ cliStep' = "answered"
        /\ UNCHANGED <<input, case, options, output, published, trap, tempCif, status>>
    BY <1>3 DEF Compute
  <2> QED BY <1>1, <2>1 DEF ToldInv, Holding, EndsAsTold, CliSteps
<1> QED BY <1>2, <1>3

\* The answer is written, with the status for it.
LEMMA WriteTold == ASSUME ToldInv, Write PROVE ToldInv'
<1>1. /\ cliStep = "answered" /\ UNCHANGED <<input, case, options, engine, published>>
      /\ WriteResult(IF engine = "modeError" THEN 2 ELSE 0)
  BY DEF Write
<1>2. CASE Refuse /\ UNCHANGED output
  BY <1>1, <1>2, RefuseTells DEF ToldInv, Holding, EndsAsTold, CliSteps
<1>3. CASE ~(Refuse /\ UNCHANGED output)
  <2>1. /\ output' \in {"whole", "short"} /\ trap' = trap
        /\ cliStep' = "ended" /\ status' = (IF engine = "modeError" THEN 2 ELSE 0) /\ tempCif' = FALSE
    BY <1>1, <1>3 DEF WriteResult, ExitWith
  <2> QED BY <1>1, <2>1 DEF ToldInv, Holding, EndsAsTold, CliSteps
<1> QED BY <1>2, <1>3

\* A launch is out before the run says so.
LEMMA PostTold == ASSUME ToldInv, Post PROVE ToldInv'
<1>1. cliStep = "asked" /\ input.command = "show" /\ UNCHANGED <<input, case, options, output>>
  BY DEF Post
<1>2. CASE Refuse
  <2>1. published' \in {published, TRUE}
    BY <1>2 DEF Post
  <2> QED BY <1>1, <1>2, <2>1, RefuseTells DEF ToldInv, Holding, EndsAsTold, CliSteps
<1>3. CASE ~Refuse
  <2>1. published' = TRUE /\ engine' = "answer" /\ cliStep' = "answered" /\ UNCHANGED <<trap, tempCif, status>>
    BY <1>3 DEF Post
  <2> QED BY <1>1, <2>1 DEF ToldInv, Holding, EndsAsTold, CliSteps
<1> QED BY <1>2, <1>3

\* An example is published before it says so, and its trap is gone.
LEMMA PublishTold == ASSUME ToldInv, PublishExample PROVE ToldInv'
<1>1. cliStep = "asked" /\ input.command = "example" /\ UNCHANGED <<input, case, options, engine, output>>
  BY DEF PublishExample
<1>2. trap
  BY <1>1 DEF ToldInv, Holding
<1>3. CASE Refuse
  <2>1. published' = published \/ (published' = TRUE /\ status' = 0)
    BY <1>3 DEF PublishExample
  <2> QED BY <1>1, <1>2, <1>3, <2>1, RefuseTells DEF ToldInv, Holding, EndsAsTold, CliSteps
<1>4. CASE ~Refuse
  <2>1. /\ trap' = FALSE /\ cliStep' = "ended" /\ tempCif' = tempCif
        /\ (status' = 0 /\ published' = TRUE) \/ (status' = 1 /\ published' = published)
    BY <1>4 DEF PublishExample
  <2>2. ~tempCif
    BY <1>1, ExampleAccepted DEF ToldInv, Holding
  <2> QED BY <1>1, <1>2, <2>1, <2>2 DEF ToldInv, Holding, EndsAsTold, CliSteps
<1> QED BY <1>3, <1>4

\* The next example starts with nothing left behind.
LEMMA NextExampleTold == ASSUME ToldInv, NextExample PROVE ToldInv'
<1>1. /\ cliStep = "ended" /\ input.command = "example"
      /\ input' \in Inputs /\ input'.command = "example" /\ cliStep' = "start"
      /\ published' = FALSE /\ status' = -1 /\ UNCHANGED <<output, trap, tempCif>>
  BY DEF NextExample
<1> QED BY <1>1 DEF ToldInv, Holding, EndsAsTold, CliSteps

\* Every step of the command line keeps what a run holds, and ends it as told.
LEMMA ToldInductive ==
    /\ \A in \in Inputs, step \in {"start", "elsewhere"} : CliAt(in, step) => ToldInv
    /\ ToldInv /\ [CliNext]_cliVars => ToldInv'
<1>1. ASSUME NEW in \in Inputs, NEW step \in {"start", "elsewhere"}, CliAt(in, step)
      PROVE  ToldInv
  BY <1>1 DEF CliAt, ToldInv, Holding, EndsAsTold, CliSteps
<1>2. ASSUME ToldInv, CliNext PROVE ToldInv'
  BY <1>2, StartTold, ReadTold, AskTold, ComputeTold, WriteTold, PostTold, PublishTold, NextExampleTold
     DEF CliNext
<1>3. ASSUME ToldInv, UNCHANGED cliVars PROVE ToldInv'
  BY <1>3 DEF cliVars, ToldInv, Holding, EndsAsTold
<1> QED BY <1>1, <1>2, <1>3

-----------------------------------------------------------------------------
(* Sequences made of sets and of parts of sequences *)

\* A set of numbers up to n has a greatest one.
LEMMA GreatestUpTo ==
    ASSUME NEW n \in Nat, NEW S, S \subseteq 1 .. n, S # {}
    PROVE  \E x \in S : \A y \in S : y <= x
<1>1. PICK T : T = {n - y : y \in S}
  OBVIOUS
<1>2. T \subseteq Nat /\ T # {}
  <2>1. \A y \in S : n - y \in Nat
    OBVIOUS
  <2> QED BY <1>1, <2>1
<1>3. PICK t \in T : \A y \in T : t <= y
  BY <1>2, SmallestNat
<1>4. PICK x \in S : t = n - x
  BY <1>1, <1>3
<1>5. ASSUME NEW y \in S PROVE y <= x
  <2>1. t <= n - y
    BY <1>1, <1>3
  <2> QED BY <1>4, <2>1
<1> QED BY <1>5

\* SetToSeq lists a finite set, each element once.
LEMMA ListOfSet ==
    ASSUME NEW S, IsFiniteSet(S), NEW s, s = SetToSeq(S)
    PROVE  /\ Cardinality(S) \in Nat /\ s = [i \in 1 .. Cardinality(S) |-> s[i]]
           /\ \A i \in 1 .. Cardinality(S) : s[i] \in S
           /\ \A i, j \in 1 .. Cardinality(S) : s[i] = s[j] => i = j
           /\ \A x \in S : \E i \in 1 .. Cardinality(S) : s[i] = x
<1>1. PICK n \in Nat : n = Cardinality(S)
  BY FS_CardinalityType
<1>2. ExistsBijection(1 .. n, S)
  BY <1>1, FS_CardinalityType
<1>3. PICK f \in [1 .. n -> S] : IsInjective(f)
  BY <1>2 DEF ExistsBijection, Bijection, Injection
<1>4. s \in [1 .. n -> S] /\ IsInjective(s)
  BY <1>1, <1>3 DEF SetToSeq
<1>5. s \in Injection(1 .. n, S)
  BY <1>4 DEF Injection
<1>6. IsFiniteSet(1 .. n) /\ Cardinality(1 .. n) = n
  BY FS_Interval
<1>7. s \in Surjection(1 .. n, S)
  BY <1>1, <1>5, <1>6, FS_Injection
<1>8. \A x \in S : \E i \in 1 .. n : s[i] = x
  BY <1>7 DEF Surjection
<1>9. \A i, j \in 1 .. n : s[i] = s[j] => i = j
  BY <1>4 DEF IsInjective
<1> QED BY <1>1, <1>4, <1>8, <1>9

\* The names in a list are finitely many.
LEMMA NamesFinite ==
    ASSUME NEW sites, Len(sites) \in Nat, NEW names, names = {sites[i].name : i \in 1 .. Len(sites)}
    PROVE  IsFiniteSet(names)
<1>1. PICK n \in Nat : n = Len(sites)
  OBVIOUS
<1>2. PICK f : f = [i \in 1 .. n |-> sites[i].name]
  OBVIOUS
<1>3. f \in Surjection(1 .. n, names)
  BY <1>1, <1>2 DEF Surjection
<1>4. IsFiniteSet(1 .. n)
  BY FS_Interval
<1> QED BY <1>3, <1>4, FS_Surjection

-----------------------------------------------------------------------------
(* The sites of a case *)

(* A list of sites says for every name given to it what `kindsOf` does: the
   last entry for the name does, and there is no other name. *)
Tells(sites, given, kindsOf) ==
    /\ Len(sites) \in Nat /\ sites = [i \in 1 .. Len(sites) |-> sites[i]]
    /\ \A i \in 1 .. Len(sites) : sites[i].name \in given
    /\ \A i \in 1 .. Len(sites) : LastFor(sites, i) => sites[i].kinds = kindsOf[sites[i].name]
    /\ \A n \in given : \E i \in 1 .. Len(sites) : LastFor(sites, i) /\ sites[i].name = n

\* The three lists merged say of a name all that any of them does.
LEMMA MergedTells ==
    ASSUME NEW sites, Len(sites) \in Nat, DOMAIN sites = 1 .. Len(sites),
           NEW given, given = {sites[i].name : i \in 1 .. Len(sites)},
           NEW kindsOf, kindsOf = [n \in given |->
               UNION {sites[i].kinds : i \in {j \in 1 .. Len(sites) : sites[j].name = n}}]
    PROVE  Tells(MergedSites(sites), given, kindsOf)
<1>1. PICK S : S = {[name |-> n, kinds |-> kindsOf[n]] : n \in given}
  OBVIOUS
<1>2. IsFiniteSet(given)
  BY NamesFinite
<1>3. IsFiniteSet(S)
  <2>1. PICK f : f = [n \in given |-> [name |-> n, kinds |-> kindsOf[n]]]
    OBVIOUS
  <2>2. f \in Surjection(given, S)
    BY <1>1, <2>1 DEF Surjection
  <2> QED BY <1>2, <2>2, FS_Surjection
<1>4. PICK s : s = SetToSeq(S)
  OBVIOUS
<1>5. MergedSites(sites) = s
  BY <1>1, <1>4 DEF MergedSites
<1>6. PICK m : m = Cardinality(S)
  OBVIOUS
<1>7. /\ m = Cardinality(S) /\ m \in Nat /\ s = [i \in 1 .. m |-> s[i]]
      /\ \A i \in 1 .. m : s[i] \in S
      /\ \A i, j \in 1 .. m : s[i] = s[j] => i = j
      /\ \A x \in S : \E i \in 1 .. m : s[i] = x
  BY <1>3, <1>4, <1>6, ListOfSet
<1>8. Len(s) = m /\ DOMAIN s = 1 .. m
  BY <1>7, SeqOfEntries
<1>9. \A x \in S : x.name \in given /\ x.kinds = kindsOf[x.name]
  <2> TAKE x \in S
  <2>1. PICK n \in given : x = [name |-> n, kinds |-> kindsOf[n]]
    BY <1>1
  <2> QED BY <2>1
<1>10. \A i, j \in 1 .. m : s[i].name = s[j].name => i = j
  <2>1. ASSUME NEW x \in S, NEW y \in S, x.name = y.name PROVE x = y
    <3>1. PICK a \in given : x = [name |-> a, kinds |-> kindsOf[a]]
      BY <1>1
    <3>2. PICK b \in given : y = [name |-> b, kinds |-> kindsOf[b]]
      BY <1>1
    <3>3. a = b
      BY <2>1, <3>1, <3>2
    <3> QED BY <3>1, <3>2, <3>3
  <2> QED BY <1>7, <2>1
<1>11. \A i \in 1 .. m : LastFor(s, i)
  BY <1>8, <1>10 DEF LastFor
<1>12. \A n \in given : \E i \in 1 .. m : s[i].name = n
  <2> TAKE n \in given
  <2>1. PICK x \in S : x = [name |-> n, kinds |-> kindsOf[n]]
    BY <1>1
  <2>2. PICK i \in 1 .. m : s[i] = x
    BY <1>7
  <2> QED BY <2>1, <2>2
<1>13. \A i \in 1 .. m : s[i].name \in given /\ s[i].kinds = kindsOf[s[i].name]
  BY <1>7, <1>9
<1> QED BY <1>5, <1>7, <1>8, <1>11, <1>12, <1>13 DEF Tells

\* An entry with kinds that no later one up to n has the name of.
LastGiven(sites, n, i) ==
    /\ i \in 1 .. n /\ sites[i].kinds # {}
    /\ \A j \in 1 .. n : sites[j].kinds # {} /\ sites[j].name = sites[i].name => j <= i

(* What is chosen of the first n sites: entries of theirs with kinds, among
   them the last one for each name. *)
ChosenFrom(s, sites, n) ==
    /\ Len(s) \in Nat /\ s = [i \in 1 .. Len(s) |-> s[i]]
    /\ \A i \in 1 .. Len(s) : \E j \in 1 .. n : s[i] = sites[j] /\ sites[j].kinds # {}
    /\ \A j \in 1 .. n : LastGiven(sites, n, j) =>
          \E i \in 1 .. Len(s) : s[i] = sites[j] /\ LastFor(s, i)

\* One more site is passed over, or appended.
LEMMA ChosenMore ==
    ASSUME NEW sites, NEW n \in Nat, NEW s, NEW new, ChosenFrom(s, sites, n),
           new = IF sites[n + 1].kinds = {} THEN s ELSE Append(s, sites[n + 1])
    PROVE  ChosenFrom(new, sites, n + 1)
<1>1. CASE sites[n + 1].kinds = {}
  <2>1. ASSUME NEW j \in 1 .. n + 1, LastGiven(sites, n + 1, j)
        PROVE  j \in 1 .. n /\ LastGiven(sites, n, j)
    BY <1>1, <2>1 DEF LastGiven
  <2> QED BY <1>1, <2>1 DEF ChosenFrom
<1>2. CASE sites[n + 1].kinds # {}
  <2>1. PICK k \in Nat : k = Len(s) /\ k \in Nat /\ k + 1 \in Nat /\ k + 1 \in 1 .. k + 1
                 /\ 1 .. k \subseteq 1 .. k + 1
    BY DEF ChosenFrom
  <2>2. PICK f : f = [i \in 1 .. k + 1 |-> IF i = k + 1 THEN sites[n + 1] ELSE s[i]]
    OBVIOUS
  <2>3. s = [i \in 1 .. k |-> s[i]]
    BY <2>1 DEF ChosenFrom
  <2>4. s = [i \in 1 .. k |-> f[i]]
    BY <2>2, <2>3
  <2>5. f[k + 1] = sites[n + 1]
    BY <2>1, <2>2
  <2>6. new = [i \in 1 .. k + 1 |-> f[i]]
    BY <1>2, <2>4, <2>5, SeqOfEntries
  <2>7. Len(new) = k + 1 /\ DOMAIN new = 1 .. k + 1 /\ new = [i \in 1 .. k + 1 |-> new[i]]
    BY <2>6, SeqOfEntries
  <2>8. new[k + 1] = sites[n + 1] /\ \A i \in 1 .. k : new[i] = s[i]
    BY <2>1, <2>2, <2>6
  <2>9. ASSUME NEW i \in 1 .. k + 1
        PROVE  \E j \in 1 .. n + 1 : new[i] = sites[j] /\ sites[j].kinds # {}
    <3>1. CASE i = k + 1
      BY <1>2, <2>1, <2>8, <3>1
    <3>2. CASE i \in 1 .. k
      <4>1. PICK j \in 1 .. n : s[i] = sites[j] /\ sites[j].kinds # {}
        BY <2>1, <3>2 DEF ChosenFrom
      <4> QED BY <2>1, <2>8, <3>2, <4>1
    <3> QED BY <2>1, <3>1, <3>2
  <2>10. ASSUME NEW j \in 1 .. n + 1, LastGiven(sites, n + 1, j)
         PROVE  \E i \in 1 .. k + 1 : new[i] = sites[j] /\ LastFor(new, i)
    <3>1. CASE j = n + 1
      <4>1. LastFor(new, k + 1)
        BY <2>1, <2>7 DEF LastFor
      <4> QED BY <2>1, <2>8, <3>1, <4>1
    <3>2. CASE j \in 1 .. n
      <4>1. LastGiven(sites, n, j)
        BY <2>10, <3>2 DEF LastGiven
      <4>2. sites[n + 1].name # sites[j].name
        BY <1>2, <2>10, <3>2 DEF LastGiven
      <4>3. PICK i \in 1 .. k : s[i] = sites[j] /\ LastFor(s, i)
        BY <2>1, <3>2, <4>1 DEF ChosenFrom
      <4>4. DOMAIN s = 1 .. k
        BY <2>3
      <4>5. \A h \in 1 .. k + 1 : h > i => new[h].name # new[i].name
        BY <2>8, <4>2, <4>3, <4>4 DEF LastFor
      <4>6. LastFor(new, i)
        BY <2>7, <4>5 DEF LastFor
      <4> QED BY <2>1, <2>8, <4>3, <4>6
    <3> QED BY <2>1, <3>1, <3>2
  <2> QED BY <2>1, <2>7, <2>9, <2>10 DEF ChosenFrom
<1> QED BY <1>1, <1>2

\* One more site is chosen or passed over.
Choice(chosen, site) == IF site.kinds = {} THEN chosen ELSE Append(chosen, site)

\* What is chosen of a list.
LEMMA ChosenIs ==
    ASSUME NEW sites, Len(sites) \in Nat
    PROVE  ChosenFrom(Chosen(sites), sites, Len(sites))
<1> DEFINE Next(table, i) ==
               IF i = 0 THEN <<>> ELSE Choice(table[i - 1], sites[i])
           Up(n, table) == /\ table = [i \in 0 .. n |-> Next(table, i)]
                           /\ \A i \in 0 .. n : ChosenFrom(table[i], sites, i)
           S == {n \in Nat : n <= Len(sites) => \E table : Up(n, table)}
<1>1. 0 \in S
  <2>1. PICK table : table = [i \in 0 .. 0 |-> <<>>]
    OBVIOUS
  <2>2. table = [i \in 0 .. 0 |-> Next(table, i)]
    <3>1. \A i \in 0 .. 0 : Next(table, i) = <<>>
      OBVIOUS
    <3> QED BY <2>1, <3>1
  <2>3. ChosenFrom(<<>>, sites, 0)
    BY DEF ChosenFrom, LastGiven
  <2>4. \A i \in 0 .. 0 : ChosenFrom(table[i], sites, i)
    BY <2>1, <2>3
  <2> QED BY <2>2, <2>4
<1>2. ASSUME NEW n \in Nat, n \in S PROVE n + 1 \in S
  <2> SUFFICES ASSUME n + 1 <= Len(sites) PROVE \E table : Up(n + 1, table)
    OBVIOUS
  <2>1. PICK old : Up(n, old)
    BY <1>2
  <2>2. PICK last : last = Choice(old[n], sites[n + 1])
    OBVIOUS
  <2>3. PICK table : table = [i \in 0 .. n + 1 |-> IF i = n + 1 THEN last ELSE old[i]]
    OBVIOUS
  <2>4. \A i \in 0 .. n : table[i] = old[i]
    BY <2>3
  <2>5. table[n + 1] = last
    BY <2>3
  <2>6. ASSUME NEW i \in 0 .. n + 1 PROVE table[i] = Next(table, i)
    <3>1. CASE i = n + 1
      <4>1. table[i - 1] = old[n] /\ i # 0
        BY <2>4, <3>1
      <4> QED BY <2>2, <2>5, <3>1, <4>1
    <3>2. CASE i \in 0 .. n
      <4>1. old[i] = Next(old, i)
        BY <2>1, <3>2
      <4>2. i = 0 \/ i - 1 \in 0 .. n
        BY <3>2
      <4>3. Next(table, i) = Next(old, i)
        BY <2>4, <4>2
      <4> QED BY <2>4, <3>2, <4>1, <4>3
    <3>3. i = n + 1 \/ i \in 0 .. n
      OBVIOUS
    <3> QED BY <3>1, <3>2, <3>3
  <2>7. ChosenFrom(last, sites, n + 1)
    <3>1. ChosenFrom(old[n], sites, n)
      BY <2>1
    <3> QED BY <2>2, <3>1, ChosenMore DEF Choice
  <2>8. ASSUME NEW i \in 0 .. n + 1 PROVE ChosenFrom(table[i], sites, i)
    <3>1. CASE i = n + 1
      BY <2>5, <2>7, <3>1
    <3>2. CASE i \in 0 .. n
      BY <2>1, <2>4, <3>2
    <3>3. i = n + 1 \/ i \in 0 .. n
      OBVIOUS
    <3> QED BY <3>1, <3>2, <3>3
  <2>9. table = [i \in 0 .. n + 1 |-> Next(table, i)]
    BY <2>3, <2>6
  <2> QED BY <2>8, <2>9
<1>3. Nat \subseteq S
  <2> HIDE DEF S
  <2> QED BY <1>1, <1>2, NatInSet
<1>4. \E table : Up(Len(sites), table)
  BY <1>3
<1>5. PICK chosen : chosen = CHOOSE table : table = [i \in 0 .. Len(sites) |-> Next(table, i)]
  OBVIOUS
<1>6. chosen = [i \in 0 .. Len(sites) |-> Next(chosen, i)]
  BY <1>4, <1>5
<1>7. PICK table : Up(Len(sites), table)
  BY <1>4
<1>8. \A i \in 0 .. Len(sites) : chosen[i] = table[i]
  <2> DEFINE E == {n \in Nat : n <= Len(sites) => chosen[n] = table[n]}
  <2>1. 0 \in E
    BY <1>6, <1>7
  <2>2. ASSUME NEW n \in Nat, n \in E PROVE n + 1 \in E
    <3> SUFFICES ASSUME n + 1 <= Len(sites) PROVE chosen[n + 1] = table[n + 1]
      OBVIOUS
    <3>1. chosen[n] = table[n]
      BY <2>2
    <3>2. chosen[n + 1] = Next(chosen, n + 1) /\ table[n + 1] = Next(table, n + 1)
      BY <1>6, <1>7
    <3> QED BY <3>1, <3>2
  <2>3. Nat \subseteq E
    <3> HIDE DEF E
    <3> QED BY <2>1, <2>2, NatInSet
  <2> QED BY <2>3
<1>9. Chosen(sites) = chosen[Len(sites)]
  BY <1>5 DEF Chosen, Choice
<1>10. Len(sites) \in 0 .. Len(sites)
  OBVIOUS
<1> QED BY <1>7, <1>8, <1>9, <1>10

\* Of two entries that no later one has the name of, with one name, there is one.
LEMMA LastForOne ==
    ASSUME NEW s, NEW m \in Nat, DOMAIN s = 1 .. m, NEW i \in 1 .. m, NEW j \in 1 .. m,
           LastFor(s, i), LastFor(s, j), s[i].name = s[j].name
    PROVE  i = j
BY DEF LastFor

\* The chosen sites say of a name what its last entry does.
LEMMA ChosenTells ==
    ASSUME NEW sites, NEW m \in Nat, m = Len(sites), DOMAIN sites = 1 .. m,
           NEW given, given = {sites[i].name : i \in {j \in 1 .. m : sites[j].kinds # {}}},
           NEW kindsOf,
           \A i \in 1 .. m : LastGiven(sites, m, i) => kindsOf[sites[i].name] = sites[i].kinds
    PROVE  Tells(Chosen(sites), given, kindsOf)
<1>1. PICK s : s = Chosen(sites)
  OBVIOUS
<1>2. ChosenFrom(s, sites, m)
  BY <1>1, ChosenIs
<1>3. PICK k \in Nat : k = Len(s)
  BY <1>2 DEF ChosenFrom
<1>4. s = [i \in 1 .. k |-> s[i]] /\ DOMAIN s = 1 .. k
  BY <1>2, <1>3 DEF ChosenFrom
<1>5. ASSUME NEW i \in 1 .. k PROVE s[i].name \in given
  <2>1. PICK j \in 1 .. m : s[i] = sites[j] /\ sites[j].kinds # {}
    BY <1>2, <1>3 DEF ChosenFrom
  <2> QED BY <2>1
<1>6. ASSUME NEW n \in given
      PROVE  \E j \in 1 .. m : sites[j].name = n /\ LastGiven(sites, m, j)
  <2>1. PICK E : E = {j \in 1 .. m : sites[j].kinds # {} /\ sites[j].name = n}
    OBVIOUS
  <2>2. E \subseteq 1 .. m /\ E # {}
    BY <2>1
  <2>3. PICK x \in E : \A y \in E : y <= x
    BY <2>2, GreatestUpTo
  <2>4. x \in 1 .. m /\ sites[x].kinds # {} /\ sites[x].name = n
    BY <2>1, <2>3
  <2>5. \A j \in 1 .. m : sites[j].kinds # {} /\ sites[j].name = sites[x].name => j <= x
    BY <2>1, <2>3, <2>4
  <2>6. LastGiven(sites, m, x)
    BY <2>4, <2>5 DEF LastGiven
  <2> QED BY <2>4, <2>6
<1>7. ASSUME NEW n \in given
      PROVE  \E i \in 1 .. k : LastFor(s, i) /\ s[i].name = n /\ s[i].kinds = kindsOf[n]
  <2>1. PICK j \in 1 .. m : sites[j].name = n /\ LastGiven(sites, m, j)
    BY <1>6
  <2>2. PICK i \in 1 .. k : s[i] = sites[j] /\ LastFor(s, i)
    BY <1>2, <1>3, <2>1 DEF ChosenFrom
  <2> QED BY <2>1, <2>2
<1>8. ASSUME NEW i \in 1 .. k, LastFor(s, i) PROVE s[i].kinds = kindsOf[s[i].name]
  <2>1. PICK j \in 1 .. k : LastFor(s, j) /\ s[j].name = s[i].name /\ s[j].kinds = kindsOf[s[i].name]
    BY <1>5, <1>7
  <2>2. i = j
    BY <1>3, <1>4, <1>8, <2>1, LastForOne
  <2> QED BY <2>1, <2>2
<1> QED BY <1>1, <1>3, <1>4, <1>5, <1>7, <1>8 DEF Tells

\* The atoms of each kind are those that the names said to have it select.
LEMMA SitesTold ==
    ASSUME NEW sites, NEW given, NEW kindsOf, Tells(sites, given, kindsOf)
    PROVE  /\ \A k \in Kinds : SitesOf(sites)[k] =
                  {a \in DOMAIN Atoms : \E n \in given : Selects(n, Atoms[a]) /\ k \in kindsOf[n]}
           /\ SitesOf(sites) = [k \in Kinds |-> SitesOf(sites)[k]]
           /\ (\A i \in DOMAIN sites : \E a \in DOMAIN Atoms : Selects(sites[i].name, Atoms[a]))
                <=> \A n \in given : \E a \in DOMAIN Atoms : Selects(n, Atoms[a])
           /\ sites = <<>> <=> given = {}
<1>1. PICK m \in Nat : m = Len(sites)
  BY DEF Tells
<1>2. /\ sites = [i \in 1 .. m |-> sites[i]] /\ DOMAIN sites = 1 .. m
      /\ \A i \in 1 .. m : sites[i].name \in given
      /\ \A i \in 1 .. m : LastFor(sites, i) => sites[i].kinds = kindsOf[sites[i].name]
      /\ \A n \in given : \E i \in 1 .. m : LastFor(sites, i) /\ sites[i].name = n
  BY <1>1 DEF Tells
<1>3. ASSUME NEW k \in Kinds, NEW a \in DOMAIN Atoms
      PROVE  (\E i \in 1 .. m : LastFor(sites, i) /\ Selects(sites[i].name, Atoms[a]) /\ k \in sites[i].kinds)
                <=> \E n \in given : Selects(n, Atoms[a]) /\ k \in kindsOf[n]
  <2>1. ASSUME NEW i \in 1 .. m, LastFor(sites, i), Selects(sites[i].name, Atoms[a]), k \in sites[i].kinds
        PROVE  \E n \in given : Selects(n, Atoms[a]) /\ k \in kindsOf[n]
    BY <1>2, <2>1
  <2>2. ASSUME NEW n \in given, Selects(n, Atoms[a]), k \in kindsOf[n]
        PROVE  \E i \in 1 .. m : LastFor(sites, i) /\ Selects(sites[i].name, Atoms[a]) /\ k \in sites[i].kinds
    <3>1. PICK i \in 1 .. m : LastFor(sites, i) /\ sites[i].name = n
      BY <1>2
    <3>2. sites[i].kinds = kindsOf[n]
      BY <1>2, <3>1
    <3> QED BY <2>2, <3>1, <3>2
  <2> QED BY <2>1, <2>2
<1>4. \A k \in Kinds : SitesOf(sites)[k] = {a \in DOMAIN Atoms :
        \E i \in 1 .. m : LastFor(sites, i) /\ Selects(sites[i].name, Atoms[a]) /\ k \in sites[i].kinds}
  BY <1>2 DEF SitesOf
<1>5. ASSUME NEW k \in Kinds
      PROVE  SitesOf(sites)[k] =
                {a \in DOMAIN Atoms : \E n \in given : Selects(n, Atoms[a]) /\ k \in kindsOf[n]}
  BY <1>3, <1>4
<1>6. SitesOf(sites) = [k \in Kinds |-> SitesOf(sites)[k]]
  BY DEF SitesOf
<1>7. (\A i \in DOMAIN sites : \E a \in DOMAIN Atoms : Selects(sites[i].name, Atoms[a]))
          <=> \A n \in given : \E a \in DOMAIN Atoms : Selects(n, Atoms[a])
  <2>1. ASSUME \A i \in DOMAIN sites : \E a \in DOMAIN Atoms : Selects(sites[i].name, Atoms[a]), NEW n \in given
        PROVE  \E a \in DOMAIN Atoms : Selects(n, Atoms[a])
    BY <1>2, <2>1
  <2>2. ASSUME \A n \in given : \E a \in DOMAIN Atoms : Selects(n, Atoms[a]), NEW i \in DOMAIN sites
        PROVE  \E a \in DOMAIN Atoms : Selects(sites[i].name, Atoms[a])
    BY <1>2, <2>2
  <2> QED BY <2>1, <2>2
<1>8. sites = <<>> <=> given = {}
  <2>1. ASSUME given = {} PROVE sites = <<>>
    <3>1. ~ \E i \in 1 .. m : TRUE
      BY <1>2, <2>1
    <3>2. m = 0
      BY <3>1
    <3> QED BY <1>1, <1>2, <3>2
  <2>2. ASSUME given # {} PROVE sites # <<>>
    BY <1>2, <2>2
  <2> QED BY <2>1, <2>2
<1> QED BY <1>5, <1>6, <1>7, <1>8

\* When every name selects an atom and is given a kind, there is a site to
\* distort unless no name is given.
LEMMA NoSitesTold ==
    ASSUME NEW sites, NEW given, NEW kindsOf, Tells(sites, given, kindsOf),
           \A n \in given : kindsOf[n] # {} /\ kindsOf[n] \subseteq Kinds
    PROVE  /\ given = {} => SitesOf(sites) = NoSites
           /\ SitesOf(sites) = NoSites /\ (\A n \in given : \E a \in DOMAIN Atoms : Selects(n, Atoms[a]))
                 => given = {}
<1>1. /\ \A k \in Kinds : SitesOf(sites)[k] =
            {a \in DOMAIN Atoms : \E n \in given : Selects(n, Atoms[a]) /\ k \in kindsOf[n]}
      /\ SitesOf(sites) = [k \in Kinds |-> SitesOf(sites)[k]]
  BY SitesTold
<1>2. ASSUME given = {} PROVE SitesOf(sites) = NoSites
  <2>1. \A k \in Kinds : SitesOf(sites)[k] = {}
    BY <1>1, <1>2
  <2> QED BY <1>1, <2>1 DEF NoSites
<1>3. ASSUME SitesOf(sites) = NoSites, NEW n \in given, NEW a \in DOMAIN Atoms, Selects(n, Atoms[a])
      PROVE  FALSE
  <2>1. PICK k \in Kinds : k \in kindsOf[n]
    OBVIOUS
  <2>2. a \in SitesOf(sites)[k]
    BY <1>1, <1>3, <2>1
  <2>3. SitesOf(sites)[k] = {}
    BY <1>3 DEF NoSites
  <2> QED BY <2>2, <2>3
<1> QED BY <1>2, <1>3

-----------------------------------------------------------------------------
(* What a case says *)

CaseOf(in) == IF in.file THEN FileCase(in) ELSE WordsCase(Defaulted(in))

\* The case of --sg without a distortion has one of its own, and is as said otherwise.
LEMMA MeantSites ==
    ASSUME NEW in \in Inputs, NEW meant, meant = Defaulted(in)
    PROVE  /\ meant.slots = in.slots /\ meant.strain = in.strain /\ meant.opd = in.opd
           /\ meant.file = in.file /\ meant.text = in.text /\ meant.parent = in.parent
           /\ meant.command = in.command /\ (in.file => meant = in)
           /\ \E m \in Nat : /\ m = Len(meant.sites) /\ DOMAIN meant.sites = 1 .. m
                             /\ \A i \in 1 .. m :
                                   /\ ~in.file => meant.sites[i].kinds # {} /\ meant.sites[i].kinds \subseteq Kinds
                                   /\ meant.sites[i].kinds \subseteq Kinds \cup {"malformed"}
<1>1. IsInput(in)
  BY InputsAssumption
<1>2. PICK sites : sites = <<[name |-> Atoms[1].label, kinds |-> {"displacive"}]>>
  OBVIOUS
<1>3. CASE in.parent = "sg" /\ in.sites = <<>> /\ ~in.strain
  <2>1. meant = [in EXCEPT !.sites = sites]
    BY <1>2, <1>3 DEF Defaulted
  <2>2. DOMAIN in = {"command", "upto", "file", "parent", "amplitudes", "strain", "opd", "text", "slots", "sites"}
    BY <1>1 DEF IsInput
  <2>3. /\ meant.slots = in.slots /\ meant.strain = in.strain /\ meant.opd = in.opd
        /\ meant.file = in.file /\ meant.text = in.text /\ meant.parent = in.parent
        /\ meant.command = in.command /\ meant.sites = sites
    BY <2>1, <2>2
  <2>4. Len(sites) = 1 /\ DOMAIN sites = 1 .. 1 /\ sites[1].kinds = {"displacive"}
    BY <1>2
  <2>5. ~in.file
    BY <1>1, <1>3 DEF IsInput
  <2>6. \A i \in 1 .. 1 : i = 1
    OBVIOUS
  <2> QED BY <2>3, <2>4, <2>5, <2>6 DEF Kinds
<1>4. CASE ~(in.parent = "sg" /\ in.sites = <<>> /\ ~in.strain)
  <2>1. meant = in
    BY <1>4 DEF Defaulted
  <2>2. PICK m \in Nat : m = Len(in.sites) /\ DOMAIN in.sites = 1 .. m
    <3>1. in.sites \in Seq(Range(in.sites))
      BY <1>1 DEF IsInput
    <3> QED BY <3>1
  <2>3. \A i \in DOMAIN in.sites :
           /\ ~in.file => in.sites[i].kinds # {} /\ in.sites[i].kinds \subseteq Kinds
           /\ in.sites[i].kinds \subseteq Kinds \cup {"malformed"}
    BY <1>1 DEF IsInput
  <2> QED BY <2>1, <2>2, <2>3
<1> QED BY <1>3, <1>4

\* A case says what its words or its file do: slots, strain and OPD as they
\* are, and of every name the kinds it was given.
LEMMA CaseSays ==
    ASSUME NEW in \in Inputs, NEW meant, meant = Defaulted(in), NEW c, c = CaseOf(in),
           NEW kindsOf, kindsOf = [n \in Named(meant) |-> KindsOf(meant, n)]
    PROVE  /\ c.slots = in.slots /\ c.strain = in.strain /\ c.opd = in.opd
           /\ Tells(c.sites, Named(meant), kindsOf)
           /\ \A n \in Named(meant) : KindsOf(meant, n) # {}
           /\ (\A i \in DOMAIN meant.sites : "malformed" \notin meant.sites[i].kinds) =>
                 \A n \in Named(meant) : KindsOf(meant, n) \subseteq Kinds
<1>1. /\ meant.slots = in.slots /\ meant.strain = in.strain /\ meant.opd = in.opd
      /\ meant.file = in.file /\ (in.file => meant = in)
  BY MeantSites
<1>2. PICK m \in Nat :
        /\ m = Len(meant.sites) /\ DOMAIN meant.sites = 1 .. m
        /\ \A i \in 1 .. m :
              /\ ~in.file => meant.sites[i].kinds # {} /\ meant.sites[i].kinds \subseteq Kinds
              /\ meant.sites[i].kinds \subseteq Kinds \cup {"malformed"}
  BY MeantSites
<1>3. PICK sites : sites = meant.sites
  OBVIOUS
<1>4. PICK given : given = Named(meant)
  OBVIOUS
<1>5. given = {sites[i].name : i \in {j \in 1 .. m : sites[j].kinds # {}}}
  BY <1>2, <1>3, <1>4 DEF Named
<1>6. \A n \in given : kindsOf[n] = KindsOf(meant, n)
  BY <1>4
<1>7. CASE in.file
  <2>1. c.slots = in.slots /\ c.strain = in.strain /\ c.opd = in.opd /\ c.sites = Chosen(sites)
    BY <1>1, <1>3, <1>7 DEF CaseOf, FileCase
  <2>2. ASSUME NEW i \in 1 .. m, LastGiven(sites, m, i)
        PROVE  sites[i].name \in given /\ KindsOf(meant, sites[i].name) = sites[i].kinds
    <3>1. PICK n : n = sites[i].name
      OBVIOUS
    <3>2. PICK entries : entries = {j \in 1 .. m : sites[j].name = n /\ sites[j].kinds # {}}
      OBVIOUS
    <3>3. KindsOf(meant, n) = sites[CHOOSE j \in entries : \A h \in entries : h <= j].kinds
      BY <1>1, <1>2, <1>3, <1>7, <3>2 DEF KindsOf
    <3>4. i \in entries /\ \A h \in entries : h <= i
      BY <2>2, <3>1, <3>2 DEF LastGiven
    <3>5. \A j \in entries : (\A h \in entries : h <= j) => j = i
      BY <3>2, <3>4
    <3>6. (CHOOSE j \in entries : \A h \in entries : h <= j) = i
      BY <3>4, <3>5
    <3>7. sites[i].name \in given
      BY <1>5, <2>2 DEF LastGiven
    <3> QED BY <3>1, <3>3, <3>6, <3>7
  <2>3. \A i \in 1 .. m : LastGiven(sites, m, i) => kindsOf[sites[i].name] = sites[i].kinds
    BY <1>6, <2>2
  <2>4. Tells(Chosen(sites), given, kindsOf)
    <3>1. m = Len(sites) /\ DOMAIN sites = 1 .. m
      BY <1>2, <1>3
    <3> QED BY <1>5, <2>3, <3>1, ChosenTells
  <2>5. ASSUME NEW n \in given
        PROVE  \E i \in 1 .. m : LastGiven(sites, m, i) /\ sites[i].name = n
    <3>1. PICK E : E = {j \in 1 .. m : sites[j].kinds # {} /\ sites[j].name = n}
      OBVIOUS
    <3>2. E \subseteq 1 .. m /\ E # {}
      BY <1>5, <3>1
    <3>3. PICK x \in E : \A y \in E : y <= x
      BY <3>2, GreatestUpTo
    <3>4. x \in 1 .. m /\ sites[x].kinds # {} /\ sites[x].name = n
      BY <3>1, <3>3
    <3>5. \A j \in 1 .. m : sites[j].kinds # {} /\ sites[j].name = sites[x].name => j <= x
      BY <3>1, <3>3, <3>4
    <3> QED BY <3>4, <3>5 DEF LastGiven
  <2>6. \A n \in given : \E i \in 1 .. m : KindsOf(meant, n) = sites[i].kinds /\ sites[i].kinds # {}
    BY <2>2, <2>5 DEF LastGiven
  <2>7. (\A i \in DOMAIN meant.sites : "malformed" \notin meant.sites[i].kinds) =>
            \A i \in 1 .. m : sites[i].kinds \subseteq Kinds
    BY <1>2, <1>3
  <2>8. (\A i \in DOMAIN meant.sites : "malformed" \notin meant.sites[i].kinds) =>
            \A n \in given : KindsOf(meant, n) \subseteq Kinds
    BY <2>6, <2>7
  <2> QED BY <1>4, <2>1, <2>4, <2>6, <2>8
<1>8. CASE ~in.file
  <2>1. c.slots = in.slots /\ c.strain = in.strain /\ c.opd = in.opd /\ c.sites = MergedSites(sites)
    BY <1>1, <1>3, <1>8 DEF CaseOf, WordsCase
  <2>2. \A i \in 1 .. m : sites[i].kinds # {} /\ sites[i].kinds \subseteq Kinds
    BY <1>2, <1>3, <1>8
  <2>3. given = {sites[i].name : i \in 1 .. m}
    BY <1>5, <2>2
  <2>4. ASSUME NEW n \in given
        PROVE  KindsOf(meant, n) = UNION {sites[i].kinds : i \in {j \in 1 .. m : sites[j].name = n}}
    <3>1. {i \in DOMAIN meant.sites : meant.sites[i].name = n /\ meant.sites[i].kinds # {}}
              = {j \in 1 .. m : sites[j].name = n}
      BY <1>2, <1>3, <2>2
    <3>2. KindsOf(meant, n) = UNION {meant.sites[i].kinds :
              i \in {i \in DOMAIN meant.sites : meant.sites[i].name = n /\ meant.sites[i].kinds # {}}}
      BY <1>1, <1>8 DEF KindsOf
    <3> QED BY <1>3, <3>1, <3>2
  <2>5. kindsOf = [n \in given |-> UNION {sites[i].kinds : i \in {j \in 1 .. m : sites[j].name = n}}]
    BY <1>4, <2>4
  <2>6. Tells(MergedSites(sites), given, kindsOf)
    <3>1. Len(sites) \in Nat /\ DOMAIN sites = 1 .. Len(sites) /\ m = Len(sites)
      BY <1>2, <1>3
    <3>2. given = {sites[i].name : i \in 1 .. Len(sites)}
      BY <2>3, <3>1
    <3>3. kindsOf = [n \in given |-> UNION {sites[i].kinds : i \in {j \in 1 .. Len(sites) : sites[j].name = n}}]
      BY <2>5, <3>1
    <3> QED BY <3>1, <3>2, <3>3, MergedTells
  <2>7. ASSUME NEW n \in given PROVE KindsOf(meant, n) # {} /\ KindsOf(meant, n) \subseteq Kinds
    <3>1. PICK i \in 1 .. m : sites[i].name = n
      BY <2>3
    <3>2. sites[i].kinds \subseteq KindsOf(meant, n)
      BY <2>4, <3>1
    <3>3. KindsOf(meant, n) \subseteq Kinds
      BY <2>2, <2>4
    <3> QED BY <2>2, <3>2, <3>3
  <2> QED BY <1>4, <2>1, <2>6, <2>7
<1> QED BY <1>7, <1>8

\* Words never launch, so the stage is that of the command, of the file otherwise.
LEMMA StageOfCase ==
    ASSUME NEW in \in Inputs, ~ArgsRefused(in)
    PROVE  /\ StageOf(in, CaseOf(in)) = StageOf(in, FileCase(in))
           /\ ~in.file => StageOf(in, FileCase(in)) = in.command /\ in.command \in Stages /\ ~Launches(in)
           /\ in.text => StageOf(in, NoCase) = StageOf(in, FileCase(in))
           /\ StageOf(in, FileCase(in)) \in Stages
           /\ StageOf(in, FileCase(in)) = "modes" /\ Launches(in) => in.opd
<1>1. IsInput(in)
  BY InputsAssumption
<1>2. in.command \in Commands /\ (in.command = "example" => in.file) /\ in.upto \in Stages
  BY <1>1 DEF IsInput
<1>3. in.command \in {"run", "show"} => in.file
  BY DEF ArgsRefused
<1>4. in.text => in.command \in {"modes", "run"}
  BY DEF ArgsRefused
<1>5. LaunchStage(FileCase(in)) \in Stages /\ (LaunchStage(FileCase(in)) = "modes" => in.opd)
  <2>1. FileCase(in).opd = in.opd
    BY DEF FileCase
  <2> QED BY <2>1 DEF LaunchStage, Stages
<1>6. ASSUME NEW c PROVE ~Launches(in) => StageOf(in, c) = IF in.command = "run" THEN in.upto ELSE in.command
  BY DEF StageOf, Launches
<1>7. Launches(in) => in.file /\ ~in.text
  BY <1>2, <1>3, <1>4 DEF Launches
<1>8. in.file => CaseOf(in) = FileCase(in)
  BY DEF CaseOf
<1>9. Launches(in) => StageOf(in, FileCase(in)) = LaunchStage(FileCase(in))
  BY DEF StageOf, Launches
<1>10. ~Launches(in) /\ in.command # "run" => in.command \in Stages
  BY <1>2 DEF Launches, Commands
<1> QED BY <1>2, <1>3, <1>5, <1>6, <1>7, <1>8, <1>9, <1>10

\* A slot is as the catalog wants it when neither the reader of the case nor
\* the core refuses it, and the other way round.
SlotRead(in, s) ==  \* what WordsRefused and FileRefused say of a slot
    IF in.file THEN "" \in Names(s)
    ELSE \/ "" \in Names(s) /\ Names(s) # {""}
         \/ "" \notin Names(s) /\ ~Distinct(s)
LEMMA SlotGiven ==
    ASSUME NEW in \in Inputs, NEW s \in Slots(in)
    PROVE  ParamsGiven(in, s) <=> /\ ~SlotRefused(s) /\ ~SlotRead(in, s)
                                  /\ \A i \in DOMAIN s.params : s.params[i][2] # "?"
<1>1. IsInput(in)
  BY InputsAssumption
<1>2. s.params \in Seq(Range(s.params))
  BY <1>1 DEF IsInput, Slots
<1>3. PICK k \in Nat : k = Len(s.params) /\ DOMAIN s.params = 1 .. k
  BY <1>2
<1>4. Names(s) = {} <=> k = 0
  <2>1. Names(s) = {s.params[i][1] : i \in 1 .. k}
    BY <1>3 DEF Names
  <2>2. k # 0 => 1 \in 1 .. k
    BY <1>3
  <2>3. k = 0 => 1 .. k = {}
    BY <1>3
  <2> QED BY <2>1, <2>2, <2>3
<1>5. Names(s) = {} => Distinct(s)
  BY <1>3, <1>4, FS_EmptySet DEF Distinct
<1>6. ASSUME s.label \in DOMAIN Catalog
      PROVE  /\ Len(Catalog[s.label]) \in Nat /\ "" \notin Range(Catalog[s.label])
             /\ Range(Catalog[s.label]) = {} <=> Len(Catalog[s.label]) = 0
  <2>1. PICK names : names = Catalog[s.label]
    OBVIOUS
  <2>2. names \in Seq(Range(names)) /\ "" \notin Range(names)
    BY <1>6, <2>1, CatalogAssumption
  <2>3. PICK m \in Nat : m = Len(names) /\ DOMAIN names = 1 .. m
    <3>1. ASSUME NEW S, names \in Seq(S) PROVE Len(names) \in Nat /\ DOMAIN names = 1 .. Len(names)
      BY <3>1
    <3> QED BY <2>2, <3>1
  <2>5. Range(names) = {names[i] : i \in 1 .. m}
    BY <2>3 DEF Range
  <2>6. m # 0 => 1 \in 1 .. m
    BY <2>3
  <2>7. m = 0 => 1 .. m = {}
    BY <2>3
  <2> QED BY <2>1, <2>2, <2>3, <2>5, <2>6, <2>7
<1>7. Positional(s) <=> Names(s) = {} \/ Names(s) = {""}
  BY DEF Positional
<1> QED BY <1>3, <1>4, <1>5, <1>6, <1>7 DEF ParamsGiven, SlotRefused, SlotRead

\* What the layers that look at a case go by.
LEMMA CaseBasis ==
    ASSUME NEW in \in Inputs, NEW meant, meant = Defaulted(in), NEW c, c = CaseOf(in)
    PROVE  /\ Slots(c) = Slots(in) /\ Slots(meant) = Slots(in)
           /\ c.sites = <<>> <=> Named(meant) = {}
           /\ ~in.file => (meant.sites = <<>> <=> Named(meant) = {})
           /\ (\A i \in DOMAIN meant.sites : "malformed" \notin meant.sites[i].kinds) =>
                 /\ Named(meant) = {} => SitesOf(c.sites) = NoSites
                 /\ (\A n \in Named(meant) : \E a \in DOMAIN Atoms : Selects(n, Atoms[a]))
                       => (SitesOf(c.sites) = NoSites => Named(meant) = {})
           /\ (\A i \in DOMAIN c.sites : \E a \in DOMAIN Atoms : Selects(c.sites[i].name, Atoms[a]))
                 <=> \A n \in Named(meant) : \E a \in DOMAIN Atoms : Selects(n, Atoms[a])
           /\ Slots(in) = {} <=> in.slots = <<>>
<1>1. PICK kindsOf : kindsOf = [n \in Named(meant) |-> KindsOf(meant, n)]
  OBVIOUS
<1>2. /\ c.slots = in.slots
      /\ Tells(c.sites, Named(meant), kindsOf)
      /\ \A n \in Named(meant) : KindsOf(meant, n) # {}
      /\ (\A i \in DOMAIN meant.sites : "malformed" \notin meant.sites[i].kinds) =>
            \A n \in Named(meant) : KindsOf(meant, n) \subseteq Kinds
  BY <1>1, CaseSays
<1>3. meant.slots = in.slots
  BY MeantSites
<1>4. PICK m \in Nat : m = Len(meant.sites) /\ DOMAIN meant.sites = 1 .. m
                       /\ (~in.file => \A i \in 1 .. m : meant.sites[i].kinds # {})
  BY MeantSites
<1>5. ~in.file => (meant.sites = <<>> <=> Named(meant) = {})
  <2> SUFFICES ASSUME ~in.file PROVE meant.sites = <<>> <=> Named(meant) = {}
    OBVIOUS
  <2>1. Named(meant) = {meant.sites[i].name : i \in 1 .. m}
    BY <1>4 DEF Named
  <2>2. CASE m = 0
    <3>1. 1 .. m = {}
      BY <2>2
    <3>2. meant.sites = <<>>
      <4>1. IsInput(in)
        BY InputsAssumption
      <4>2. ASSUME NEW s, NEW S, s \in Seq(S), DOMAIN s = {} PROVE s = <<>>
        BY <4>2
      <4>3. meant.sites # <<[name |-> Atoms[1].label, kinds |-> {"displacive"}]>>
        BY <1>4, <2>2
      <4>4. DOMAIN in = {"command", "upto", "file", "parent", "amplitudes", "strain", "opd", "text", "slots", "sites"}
        BY <4>1 DEF IsInput
      <4>5. meant = in
        BY <4>3, <4>4 DEF Defaulted
      <4>6. in.sites \in Seq(Range(in.sites))
        BY <4>1 DEF IsInput
      <4> QED BY <1>4, <3>1, <4>2, <4>5, <4>6
    <3> QED BY <2>1, <3>1, <3>2
  <2>3. CASE m # 0
    <3>1. 1 \in 1 .. m
      BY <1>4, <2>3
    <3>2. meant.sites[1].name \in Named(meant)
      BY <2>1, <3>1
    <3>3. meant.sites # <<>>
      <4>1. Len(meant.sites) # 0
        BY <1>4, <2>3
      <4> QED BY <4>1
    <3> QED BY <3>2, <3>3
  <2> QED BY <2>2, <2>3
<1>6. \A n \in Named(meant) : kindsOf[n] = KindsOf(meant, n)
  BY <1>1
<1>7. /\ (\A i \in DOMAIN c.sites : \E a \in DOMAIN Atoms : Selects(c.sites[i].name, Atoms[a]))
             <=> \A n \in Named(meant) : \E a \in DOMAIN Atoms : Selects(n, Atoms[a])
      /\ c.sites = <<>> <=> Named(meant) = {}
  BY <1>2, SitesTold
<1>8. ASSUME \A i \in DOMAIN meant.sites : "malformed" \notin meant.sites[i].kinds
      PROVE  /\ Named(meant) = {} => SitesOf(c.sites) = NoSites
             /\ (\A n \in Named(meant) : \E a \in DOMAIN Atoms : Selects(n, Atoms[a]))
                   => (SitesOf(c.sites) = NoSites => Named(meant) = {})
  <2>1. \A n \in Named(meant) : kindsOf[n] # {} /\ kindsOf[n] \subseteq Kinds
    BY <1>2, <1>6, <1>8
  <2> QED BY <1>2, <2>1, NoSitesTold
<1>9. Slots(c) = Slots(in) /\ Slots(meant) = Slots(in)
  BY <1>2, <1>3 DEF Slots
<1>10. Slots(in) = {} <=> in.slots = <<>>
  <2>1. IsInput(in)
    BY InputsAssumption
  <2>2. in.slots \in Seq(Range(in.slots))
    BY <2>1 DEF IsInput
  <2>3. ASSUME NEW s, NEW S, s \in Seq(S) PROVE s = <<>> <=> DOMAIN s = {}
    BY <2>3
  <2> QED BY <2>2, <2>3 DEF Slots
<1> QED BY <1>5, <1>7, <1>8, <1>9, <1>10

\* What is refused before the engine is asked is not complete for its stage,
\* or not well formed, or a text of nothing but options.
LEMMA RefusedRightly ==
    ASSUME input \in Inputs, ~ArgsRefused(input),
           NEW stage, stage = StageOf(input, FileCase(input)),
           ReadRefused \/ TextRefused
    PROVE  \/ ~WellFormed(input) \/ ~Complete(Defaulted(input), stage)
           \/ input.text /\ stage # "modes"
<1>1. PICK in \in Inputs : in = input
  OBVIOUS
<1>2. PICK meant : meant = Defaulted(in)
  OBVIOUS
<1>3. PICK c : c = CaseOf(in)
  OBVIOUS
<1>4. /\ meant.slots = in.slots /\ meant.strain = in.strain /\ meant.opd = in.opd
      /\ meant.file = in.file /\ meant.text = in.text /\ meant.parent = in.parent
      /\ meant.command = in.command /\ (in.file => meant = in)
  BY <1>2, MeantSites
<1>5. /\ Slots(c) = Slots(in) /\ Slots(meant) = Slots(in)
      /\ c.sites = <<>> <=> Named(meant) = {}
      /\ ~in.file => (meant.sites = <<>> <=> Named(meant) = {})
      /\ Slots(in) = {} <=> in.slots = <<>>
  BY <1>2, <1>3, CaseBasis
<1>6. c.slots = in.slots /\ c.strain = in.strain /\ c.opd = in.opd
  BY <1>2, <1>3, CaseSays
<1>7. /\ StageOf(in, c) = StageOf(in, FileCase(in)) /\ stage = StageOf(in, FileCase(in))
      /\ ~in.file => stage = in.command /\ in.command \in Stages
      /\ in.text => StageOf(in, NoCase) = stage
      /\ ~ArgsRefused(in)
  BY <1>1, <1>3, StageOfCase
<1>8. ASSUME NEW s \in Slots(in)
      PROVE  ParamsGiven(in, s) <=> /\ ~SlotRefused(s) /\ ~SlotRead(in, s)
                                    /\ \A i \in DOMAIN s.params : s.params[i][2] # "?"
  BY SlotGiven
<1>9. \A s : ParamsGiven(meant, s) <=> ParamsGiven(in, s)
  BY <1>4 DEF ParamsGiven
<1>10. SUFFICES ASSUME WellFormed(in), Complete(meant, stage), ReadRefused, input = in PROVE FALSE
  <2>1. TextRefused => in.text /\ stage # "modes"
    BY <1>1, <1>7 DEF TextRefused
  <2> QED BY <1>1, <1>2, <2>1
<1>11. /\ in.parent \in {"cif", "sg"} /\ \A i \in DOMAIN in.sites : "malformed" \notin in.sites[i].kinds
  BY <1>10 DEF WellFormed
<1>12. /\ stage # "kpoints" => in.strain \/ Named(meant) # {}
       /\ Len(in.slots) <= MAX_SLOTS
       /\ \A s \in Slots(in) : ParamsGiven(in, s)
       /\ in.slots = <<>> => stage = "kpoints" \/ (stage = "irreps" /\ in.strain /\ Named(meant) = {})
       /\ stage = "irreps" /\ in.strain /\ Named(meant) = {} => \A s \in Slots(in) : Gamma(s)
       /\ Deep(stage) => \A s \in Slots(in) : s.ir # ""
       /\ stage = "modes" => in.opd
  BY <1>4, <1>5, <1>9, <1>10 DEF Complete
<1>13. \A s \in Slots(in) : ~SlotRead(in, s) /\ \A i \in DOMAIN s.params : s.params[i][2] # "?"
  BY <1>8, <1>12
<1>14. ~(Len(in.slots) > MAX_SLOTS)
  <2>1. IsInput(in)
    BY InputsAssumption
  <2>2. in.slots \in Seq(Range(in.slots))
    BY <2>1 DEF IsInput
  <2>3. Len(in.slots) \in Nat
    BY <2>2
  <2>4. Len(in.slots) <= MAX_SLOTS
    BY <1>12
  <2>5. MAX_SLOTS \in Nat
    BY SlotsAssumption
  <2> QED BY <2>3, <2>4, <2>5
<1>15. CASE in.file
  <2>1. c = FileCase(in)
    BY <1>3, <1>15 DEF CaseOf
  <2>2. ~FileRefused(in)
    <3>1. \A s \in Slots(in) : "" \notin Names(s)
      BY <1>13, <1>15 DEF SlotRead
    <3> QED BY <1>11, <1>13, <1>14, <3>1 DEF FileRefused
  <2>3. CaseRefused(stage, c)
    BY <1>7, <1>10, <1>15, <2>1, <2>2 DEF ReadRefused
  <2> QED BY <1>5, <1>6, <1>12, <2>3 DEF CaseRefused, PureStrain
<1>16. CASE ~in.file
  <2>1. ~WordsRefused(in)
    <3>1. "ir" \in Says(in) => Deep(stage)
      <4>1. Says(in) \subseteq Takes(in.command)
        BY <1>7, <1>16 DEF ArgsRefused
      <4>2. "ir" \in Takes(in.command) => in.command \in {"opds", "modes"}
        BY DEF Takes
      <4> QED BY <1>7, <1>16, <4>1, <4>2 DEF Deep
    <3>2. \A s \in Slots(in) : ~("" \in Names(s) /\ Names(s) # {""}) /\ ~("" \notin Names(s) /\ ~Distinct(s))
      BY <1>13, <1>16 DEF SlotRead
    <3> QED BY <1>12, <1>13, <1>14, <3>1, <3>2 DEF WordsRefused
  <2>2. SelectionRefused(meant)
    BY <1>2, <1>10, <1>16, <2>1 DEF ReadRefused
  <2>3. stage = "modes" => {"slots", "ir", "opd"} \subseteq Says(meant)
    <3> SUFFICES ASSUME stage = "modes" PROVE {"slots", "ir", "opd"} \subseteq Says(meant)
      OBVIOUS
    <3>1. in.slots # <<>> /\ in.opd
      BY <1>12
    <3>2. \A s \in Slots(in) : s.ir # ""
      BY <1>12 DEF Deep
    <3>3. \E i \in DOMAIN in.slots : in.slots[i].ir # ""
      BY <1>5, <3>1, <3>2 DEF Slots
    <3> QED BY <1>4, <3>1, <3>3 DEF Says
  <2>4. stage = in.command /\ meant.command = stage /\ meant.parent # "none"
    BY <1>4, <1>7, <1>11, <1>16
  <2> QED BY <1>4, <1>5, <1>12, <1>16, <2>2, <2>3, <2>4 DEF SelectionRefused, PureStrain
<1> QED BY <1>15, <1>16

\* What no layer refuses is well formed and complete for its stage.
LEMMA AllowedRightly ==
    ASSUME input \in Inputs, ~ArgsRefused(input), ~ReadRefused,
           NEW stage, stage = StageOf(input, FileCase(input)), stage # "info",
           ~PipelineRefused(CaseOf(input), Deep(stage), stage = "kpoints")
    PROVE  WellFormed(input) /\ Complete(Defaulted(input), stage)
<1>1. PICK in \in Inputs : in = input
  OBVIOUS
<1>2. PICK meant : meant = Defaulted(in)
  OBVIOUS
<1>3. PICK c : c = CaseOf(in)
  OBVIOUS
<1>4. /\ meant.slots = in.slots /\ meant.strain = in.strain /\ meant.opd = in.opd
      /\ meant.file = in.file /\ meant.text = in.text /\ meant.parent = in.parent
      /\ meant.command = in.command /\ (in.file => meant = in)
  BY <1>2, MeantSites
<1>5. /\ Slots(c) = Slots(in) /\ Slots(meant) = Slots(in)
      /\ c.sites = <<>> <=> Named(meant) = {}
      /\ ~in.file => (meant.sites = <<>> <=> Named(meant) = {})
      /\ Slots(in) = {} <=> in.slots = <<>>
  BY <1>2, <1>3, CaseBasis
<1>6. c.slots = in.slots /\ c.strain = in.strain /\ c.opd = in.opd
  BY <1>2, <1>3, CaseSays
<1>7. /\ StageOf(in, c) = StageOf(in, FileCase(in)) /\ stage = StageOf(in, FileCase(in))
      /\ ~in.file => stage = in.command /\ in.command \in Stages
      /\ stage \in Stages
      /\ stage = "modes" /\ Launches(in) => in.opd
      /\ ~ArgsRefused(in)
  BY <1>1, <1>3, StageOfCase
<1>8. ASSUME NEW s \in Slots(in)
      PROVE  ParamsGiven(in, s) <=> /\ ~SlotRefused(s) /\ ~SlotRead(in, s)
                                    /\ \A i \in DOMAIN s.params : s.params[i][2] # "?"
  BY SlotGiven
<1>9. \A s : ParamsGiven(meant, s) <=> ParamsGiven(in, s)
  BY <1>4 DEF ParamsGiven
<1>10. IsInput(in)
  BY InputsAssumption
<1>11. /\ in.file => /\ ~FileRefused(in) /\ (~Launches(in) => ~CaseRefused(stage, c))
       /\ ~in.file => ~SelectionRefused(meant) /\ ~WordsRefused(in)
  BY <1>1, <1>2, <1>3, <1>7 DEF ReadRefused, CaseOf
<1>12. /\ in.parent \in {"cif", "sg"}
       /\ \A i \in DOMAIN in.sites : "malformed" \notin in.sites[i].kinds
  <2>1. in.parent \in {"cif", "sg", "both", "none"} /\ (in.file => in.parent # "sg")
    BY <1>10 DEF IsInput
  <2>2. CASE in.file
    BY <1>11, <2>1, <2>2 DEF FileRefused
  <2>3. CASE ~in.file
    <3>1. in.parent # "none"
      BY <1>4, <1>11, <2>3 DEF SelectionRefused
    <3>2. in.parent # "both"
      BY <1>7, <2>3 DEF ArgsRefused
    <3>3. \A i \in DOMAIN in.sites : in.sites[i].kinds \subseteq Kinds
      BY <1>10, <2>3 DEF IsInput
    <3> QED BY <2>1, <3>1, <3>2, <3>3 DEF Kinds
  <2> QED BY <2>2, <2>3
<1>13. \A i \in DOMAIN meant.sites : "malformed" \notin meant.sites[i].kinds
  <2>1. CASE in.file
    BY <1>4, <1>12, <2>1
  <2>2. CASE ~in.file
    <3>1. PICK m \in Nat : DOMAIN meant.sites = 1 .. m
                           /\ \A i \in 1 .. m : ~in.file => meant.sites[i].kinds \subseteq Kinds
      BY <1>2, MeantSites
    <3> QED BY <2>2, <3>1 DEF Kinds
  <2> QED BY <2>1, <2>2
<1>14. /\ Named(meant) = {} => SitesOf(c.sites) = NoSites
       /\ (\A n \in Named(meant) : \E a \in DOMAIN Atoms : Selects(n, Atoms[a]))
             => (SitesOf(c.sites) = NoSites => Named(meant) = {})
  BY <1>2, <1>3, <1>13, CaseBasis
<1>15. /\ \A i \in DOMAIN c.sites : \E a \in DOMAIN Atoms : Selects(c.sites[i].name, Atoms[a])
       /\ stage = "kpoints" \/ c.strain \/ SitesOf(c.sites) # NoSites
       /\ ~Deep(stage) /\ stage # "kpoints" /\ c.strain /\ SitesOf(c.sites) = NoSites => \A s \in Slots(c) : Gamma(s)
       /\ c.slots = <<>> => stage = "kpoints" \/ (~Deep(stage) /\ c.strain /\ SitesOf(c.sites) = NoSites)
       /\ Deep(stage) => \A s \in Slots(c) : s.ir # ""
       /\ \A s \in Slots(c) : ~SlotRefused(s)
  <2>1. ~PipelineRefused(c, Deep(stage), stage = "kpoints")
    BY <1>1, <1>3
  <2> QED BY <2>1 DEF PipelineRefused
<1>16. \A n \in Named(meant) : \E a \in DOMAIN Atoms : Selects(n, Atoms[a])
  BY <1>2, <1>3, <1>15, CaseBasis
<1>17. SitesOf(c.sites) = NoSites <=> Named(meant) = {}
  BY <1>14, <1>16
<1>18. Len(in.slots) <= MAX_SLOTS
  <2>1. in.slots \in Seq(Range(in.slots))
    BY <1>10 DEF IsInput
  <2>2. Len(in.slots) \in Nat /\ MAX_SLOTS \in Nat
    BY <2>1, SlotsAssumption
  <2>3. ~(Len(in.slots) > MAX_SLOTS)
    BY <1>11 DEF FileRefused, WordsRefused
  <2> QED BY <2>2, <2>3
<1>19. ASSUME NEW s \in Slots(in) PROVE ParamsGiven(in, s)
  <2>1. ~SlotRefused(s)
    BY <1>5, <1>15
  <2>2. ~SlotRead(in, s) /\ \A i \in DOMAIN s.params : s.params[i][2] # "?"
    BY <1>11 DEF SlotRead, FileRefused, WordsRefused
  <2> QED BY <1>8, <2>1, <2>2
<1>20. stage = "modes" => in.opd
  <2> SUFFICES ASSUME stage = "modes" PROVE in.opd
    OBVIOUS
  <2>1. CASE in.file
    BY <1>6, <1>7, <1>11, <2>1 DEF CaseRefused
  <2>2. CASE ~in.file
    <3>1. "opd" \in Says(meant)
      BY <1>4, <1>7, <1>11, <2>2 DEF SelectionRefused
    <3> QED BY <1>4, <3>1 DEF Says
  <2> QED BY <2>1, <2>2
<1>21. WellFormed(in)
  BY <1>7, <1>12 DEF WellFormed
<1>22. \A s \in Slots(meant) : ParamsGiven(meant, s)
  BY <1>5, <1>9, <1>19
<1>23. stage = "irreps" <=> ~Deep(stage) /\ stage # "kpoints"
  BY <1>1, <1>7 DEF Deep, Stages
<1>24. /\ stage # "kpoints" => meant.strain \/ Named(meant) # {}
       /\ meant.slots = <<>> => stage = "kpoints" \/ (stage = "irreps" /\ meant.strain /\ Named(meant) = {})
       /\ stage = "irreps" /\ meant.strain /\ Named(meant) = {} => \A s \in Slots(meant) : Gamma(s)
       /\ Deep(stage) => \A s \in Slots(meant) : s.ir # ""
  BY <1>4, <1>5, <1>6, <1>15, <1>17, <1>23
<1>25. Len(meant.slots) <= MAX_SLOTS /\ (stage = "modes" => meant.opd)
  BY <1>4, <1>18, <1>20
<1>26. Complete(meant, stage)
  BY <1>16, <1>22, <1>24, <1>25 DEF Complete
<1> QED BY <1>1, <1>2, <1>21, <1>26

\* A slot is asked for as it was given.
LEMMA SlotAsked ==
    ASSUME NEW in \in Inputs, NEW s \in Slots(in), ~SlotRefused(s), NEW o \in SlotOptions(s)
    PROVE  /\ o.label = s.label /\ o.ir = s.ir
           /\ Positional(s) => \A p \in DOMAIN s.params : o.params[Catalog[s.label][p]] = s.params[p][2]
           /\ ~Positional(s) => \A n \in Names(s) : <<n, o.params[n]>> \in Range(s.params)
<1>1. PICK names : names = Catalog[s.label]
  OBVIOUS
<1>2. s.label \in DOMAIN Catalog
  BY DEF SlotRefused
<1>3. /\ names \in Seq(Range(names))
      /\ \A i, j \in DOMAIN names : names[i] = names[j] => i = j
  BY <1>1, <1>2, CatalogAssumption
<1>4. ASSUME NEW q, NEW S, q \in Seq(S) PROVE Len(q) \in Nat /\ DOMAIN q = 1 .. Len(q)
  BY <1>4
<1>5. DOMAIN names = 1 .. Len(names)
  BY <1>3, <1>4
<1>6. DOMAIN s.params = 1 .. Len(s.params)
  <2>1. IsInput(in)
    BY InputsAssumption
  <2>2. s.params \in Seq(Range(s.params))
    BY <2>1 DEF IsInput, Slots
  <2> QED BY <1>4, <2>2
<1>7. CASE Positional(s)
  <2>1. Len(s.params) = Len(names)
    BY <1>1, <1>2, <1>7 DEF SlotRefused
  <2>2. o = [label |-> s.label,
             params |-> [n \in Range(names) |-> s.params[CHOOSE i \in DOMAIN names : names[i] = n][2]],
             ir |-> s.ir]
    BY <1>1, <1>7 DEF SlotOptions
  <2>3. ASSUME NEW p \in DOMAIN s.params PROVE o.params[names[p]] = s.params[p][2]
    <3>1. p \in DOMAIN names
      BY <1>5, <1>6, <2>1
    <3>2. (CHOOSE i \in DOMAIN names : names[i] = names[p]) = p
      BY <1>3, <3>1
    <3>3. names[p] \in Range(names)
      BY <3>1 DEF Range
    <3>4. o.params = [n \in Range(names) |-> s.params[CHOOSE i \in DOMAIN names : names[i] = n][2]]
      BY <2>2
    <3>5. o.params[names[p]] = s.params[CHOOSE i \in DOMAIN names : names[i] = names[p]][2]
      BY <3>3, <3>4
    <3> QED BY <3>2, <3>5
  <2> QED BY <1>1, <1>7, <2>2, <2>3
<1>8. CASE ~Positional(s)
  <2>1. Names(s) = Range(names)
    BY <1>1, <1>2, <1>8 DEF SlotRefused
  <2>2. PICK given : given = {s.params[i] : i \in DOMAIN s.params}
    OBVIOUS
  <2>3. PICK p \in [Range(names) -> {g[2] : g \in given}] :
          /\ \A n \in Range(names) : <<n, p[n]>> \in given
          /\ o = [label |-> s.label, params |-> p, ir |-> s.ir]
    BY <1>1, <1>8, <2>2 DEF SlotOptions
  <2>4. given = Range(s.params)
    BY <2>2 DEF Range
  <2> QED BY <1>8, <2>1, <2>3, <2>4
<1> QED BY <1>7, <1>8

\* The options of the request are what was said.
LEMMA OptionsTold ==
    ASSUME NEW in \in Inputs, NEW meant, meant = Defaulted(in),
           NEW o \in PipelineOptions(CaseOf(in)), \A s \in Slots(in) : ~SlotRefused(s)
    PROVE  /\ \A k \in Kinds : o.sites[k] =
                  {a \in DOMAIN Atoms : \E n \in Named(meant) : Selects(n, Atoms[a]) /\ k \in KindsOf(meant, n)}
           /\ o.strain = in.strain /\ o.opd = in.opd
           /\ Len(o.slots) = Len(in.slots)
           /\ \A i \in DOMAIN in.slots : o.slots[i] \in SlotOptions(in.slots[i])
<1>1. PICK c : c = CaseOf(in)
  OBVIOUS
<1>2. PICK kindsOf : kindsOf = [n \in Named(meant) |-> KindsOf(meant, n)]
  OBVIOUS
<1>3. /\ c.slots = in.slots /\ c.strain = in.strain /\ c.opd = in.opd
      /\ Tells(c.sites, Named(meant), kindsOf)
  BY <1>1, <1>2, CaseSays
<1>4. PICK slots \in [DOMAIN c.slots -> UNION {SlotOptions(s) : s \in Slots(c)}] :
        /\ \A i \in DOMAIN c.slots : slots[i] \in SlotOptions(c.slots[i])
        /\ o = [sites |-> SitesOf(c.sites), strain |-> c.strain, opd |-> c.opd, slots |-> slots]
  BY <1>1 DEF PipelineOptions
<1>5. \A k \in Kinds : SitesOf(c.sites)[k] =
          {a \in DOMAIN Atoms : \E n \in Named(meant) : Selects(n, Atoms[a]) /\ k \in kindsOf[n]}
  BY <1>3, SitesTold
<1>6. \A n \in Named(meant) : kindsOf[n] = KindsOf(meant, n)
  BY <1>2
<1>7. ASSUME NEW k \in Kinds
      PROVE  o.sites[k] = {a \in DOMAIN Atoms :
                 \E n \in Named(meant) : Selects(n, Atoms[a]) /\ k \in KindsOf(meant, n)}
  BY <1>4, <1>5, <1>6
<1>8. Len(o.slots) = Len(in.slots)
  <2>1. IsInput(in)
    BY InputsAssumption
  <2>2. in.slots \in Seq(Range(in.slots))
    BY <2>1 DEF IsInput
  <2>3. PICK m \in Nat : m = Len(in.slots) /\ DOMAIN in.slots = 1 .. m
    BY <2>2
  <2>4. slots = [i \in 1 .. m |-> slots[i]]
    BY <1>3, <1>4, <2>3
  <2>5. Len(slots) = m
    BY <2>3, <2>4, SeqOfEntries
  <2> QED BY <1>4, <2>3, <2>5
<1> QED BY <1>3, <1>4, <1>7, <1>8

-----------------------------------------------------------------------------
(* What the engine is asked *)

(* Nothing of the input that is refused is among what the engine is asked;
   when it is asked nothing, the input was refused. *)
Allowed ==
    LET stage == StageOf(input, FileCase(input))
    IN  /\ ~ArgsRefused(input) /\ ~ReadRefused /\ stage # "info"
        /\ ~PipelineRefused(CaseOf(input), Deep(stage), stage = "kpoints")
AskedInv ==
    /\ input \in Inputs /\ cliStep \in CliSteps
    /\ cliStep \in {"start", "reading", "asking", "elsewhere"} => options = Nothing /\ engine = "none"
    /\ cliStep \in {"reading", "asking"} => ~ArgsRefused(input)
    /\ cliStep = "asking" => case = CaseOf(input) /\ ~ReadRefused /\ ~TextRefused
    /\ cliStep \in {"asked", "answered"} => options # Nothing
    /\ options \notin {Nothing, ParentOnly} => Allowed /\ options \in PipelineOptions(CaseOf(input))
    /\ cliStep = "ended" /\ options = Nothing /\ engine = "none" =>
          ArgsRefused(input) \/ ReadRefused \/ TextRefused

\* The engine is asked what is meant.
LEMMA AskedAsMeant == AskedInv => AsksWhatIsMeant
<1> SUFFICES ASSUME AskedInv PROVE AsksWhatIsMeant
  OBVIOUS
<1>1. PICK meant : meant = Defaulted(input)
  OBVIOUS
<1>2. PICK stage : stage = StageOf(input, FileCase(input))
  OBVIOUS
<1>3. input \in Inputs
  BY DEF AskedInv
<1>4. ASSUME options \notin {Nothing, ParentOnly}
      PROVE  /\ WellFormed(input) /\ Complete(meant, stage)
             /\ \A k \in Kinds : options.sites[k] =
                    {a \in DOMAIN Atoms : \E n \in Named(meant) : Selects(n, Atoms[a]) /\ k \in KindsOf(meant, n)}
             /\ options.strain = input.strain /\ options.opd = input.opd
             /\ Len(options.slots) = Len(input.slots)
             /\ \A i \in DOMAIN input.slots :
                    /\ options.slots[i].label = input.slots[i].label
                    /\ options.slots[i].ir = input.slots[i].ir
                    /\ Positional(input.slots[i]) =>
                           \A p \in DOMAIN input.slots[i].params :
                               options.slots[i].params[Catalog[input.slots[i].label][p]] = input.slots[i].params[p][2]
                    /\ ~Positional(input.slots[i]) =>
                           \A n \in Names(input.slots[i]) :
                               <<n, options.slots[i].params[n]>> \in Range(input.slots[i].params)
  <2>1. Allowed /\ options \in PipelineOptions(CaseOf(input))
    BY <1>4 DEF AskedInv
  <2>2. /\ ~ArgsRefused(input) /\ ~ReadRefused /\ stage # "info"
        /\ ~PipelineRefused(CaseOf(input), Deep(stage), stage = "kpoints")
    BY <1>2, <2>1 DEF Allowed
  <2>3. WellFormed(input) /\ Complete(meant, stage)
    BY <1>1, <1>2, <1>3, <2>2, AllowedRightly
  <2>4. \A s \in Slots(input) : ~SlotRefused(s)
    <3>1. \A s \in Slots(CaseOf(input)) : ~SlotRefused(s)
      BY <2>2 DEF PipelineRefused
    <3>2. Slots(CaseOf(input)) = Slots(input)
      BY <1>3, CaseBasis
    <3> QED BY <3>1, <3>2
  <2>5. /\ \A k \in Kinds : options.sites[k] =
              {a \in DOMAIN Atoms : \E n \in Named(meant) : Selects(n, Atoms[a]) /\ k \in KindsOf(meant, n)}
        /\ options.strain = input.strain /\ options.opd = input.opd
        /\ Len(options.slots) = Len(input.slots)
        /\ \A i \in DOMAIN input.slots : options.slots[i] \in SlotOptions(input.slots[i])
    BY <1>1, <1>3, <2>1, <2>4, OptionsTold
  <2>6. ASSUME NEW i \in DOMAIN input.slots
        PROVE  /\ options.slots[i].label = input.slots[i].label
               /\ options.slots[i].ir = input.slots[i].ir
               /\ Positional(input.slots[i]) =>
                      \A p \in DOMAIN input.slots[i].params :
                          options.slots[i].params[Catalog[input.slots[i].label][p]] = input.slots[i].params[p][2]
               /\ ~Positional(input.slots[i]) =>
                      \A n \in Names(input.slots[i]) :
                          <<n, options.slots[i].params[n]>> \in Range(input.slots[i].params)
    <3>1. PICK s \in Slots(input) : s = input.slots[i]
      BY DEF Slots
    <3>2. PICK o \in SlotOptions(s) : o = options.slots[i]
      BY <2>5, <3>1
    <3>3. /\ o.label = s.label /\ o.ir = s.ir
          /\ Positional(s) => \A p \in DOMAIN s.params : o.params[Catalog[s.label][p]] = s.params[p][2]
          /\ ~Positional(s) => \A n \in Names(s) : <<n, o.params[n]>> \in Range(s.params)
      BY <1>3, <2>4, <3>1, <3>2, SlotAsked
    <3> QED BY <3>1, <3>2, <3>3
  <2> QED BY <2>3, <2>5, <2>6
<1>5. ASSUME cliStep = "ended", options = Nothing, engine = "none", stage # "info"
      PROVE  ~WellFormed(input) \/ ~Complete(meant, stage) \/ (input.text /\ stage # "modes")
  <2>1. CASE ArgsRefused(input)
    BY <2>1 DEF WellFormed
  <2>2. CASE ~ArgsRefused(input)
    <3>1. ReadRefused \/ TextRefused
      BY <1>5, <2>2 DEF AskedInv
    <3> QED BY <1>1, <1>2, <1>3, <2>2, <3>1, RefusedRightly
  <2> QED BY <2>1, <2>2
<1> QED BY <1>1, <1>2, <1>4, <1>5 DEF AsksWhatIsMeant

\* What the steps after the request leave alone.
LEMMA AskedStays ==
    ASSUME AskedInv, input' = input, options' = options, options # Nothing, cliStep' \in {"answered", "ended"}
    PROVE  AskedInv'
BY DEF AskedInv, Allowed, ReadRefused, CliSteps

\* A refusal ends the run.
LEMMA RefuseEnds == Refuse => cliStep' = "ended"
BY DEF Refuse, ExitWith

\* So does a failure.
LEMMA FailsEnds ==
    ASSUME NEW failure, Fails(failure)
    PROVE  cliStep' = "ended" /\ engine' = failure /\ UNCHANGED <<input, case, options>>
BY DEF Fails, ExitWith

\* The words of a command are refused, or are to be read.
LEMMA StartAsked == ASSUME AskedInv, Start PROVE AskedInv'
<1>1. cliStep = "start" /\ UNCHANGED <<input, options, engine>>
  BY DEF Start
<1>2. CASE ArgsRefused(input)
  <2>1. cliStep' = "ended"
    BY <1>2, RefuseEnds DEF Start
  <2> QED BY <1>1, <1>2, <2>1 DEF AskedInv, CliSteps
<1>3. CASE ~ArgsRefused(input)
  <2>1. cliStep' = "reading"
    BY <1>3 DEF Start
  <2> QED BY <1>1, <1>3, <2>1 DEF AskedInv, CliSteps
<1> QED BY <1>2, <1>3

\* A case is refused, or it is what was said.
LEMMA ReadAsked == ASSUME AskedInv, Read PROVE AskedInv'
<1>1. cliStep = "reading" /\ UNCHANGED <<input, options, engine>> /\ case' = CaseOf(input)
  BY DEF Read, CaseOf
<1>2. (ReadRefused' <=> ReadRefused) /\ (TextRefused' <=> TextRefused)
  BY <1>1 DEF ReadRefused, TextRefused
<1>3. CASE ReadRefused \/ TextRefused
  <2>1. cliStep' = "ended"
    BY <1>3, RefuseEnds DEF Read
  <2> QED BY <1>1, <1>2, <1>3, <2>1 DEF AskedInv, CliSteps
<1>4. CASE ~(ReadRefused \/ TextRefused)
  <2>1. cliStep' = "asking"
    BY <1>4 DEF Read
  <2> QED BY <1>1, <1>2, <1>4, <2>1 DEF AskedInv, CliSteps
<1> QED BY <1>3, <1>4

\* The core refuses the case, or its options are asked for.
LEMMA AskAsked == ASSUME AskedInv, Ask PROVE AskedInv'
<1>1. /\ cliStep = "asking" /\ options = Nothing /\ case = CaseOf(input) /\ input \in Inputs
      /\ ~ArgsRefused(input) /\ ~ReadRefused
  BY DEF Ask, AskedInv
<1>2. CASE Fails("caught")
  <2>1. cliStep' = "ended" /\ engine' = "caught" /\ UNCHANGED <<input, options>>
    BY <1>2, FailsEnds
  <2> QED BY <1>1, <2>1 DEF AskedInv, CliSteps
<1>3. CASE ~Fails("caught")
  <2>1. PICK stage : stage = StageOf(input, case)
    OBVIOUS
  <2>2. stage = StageOf(input, FileCase(input))
    BY <1>1, <2>1, StageOfCase
  <2>3. /\ cliStep' = "asked" /\ input' = input
        /\ stage = "info" \/ ~PipelineRefused(case, Deep(stage), stage = "kpoints")
        /\ options' \in IF stage = "info" THEN {ParentOnly} ELSE PipelineOptions(case)
    BY <1>3, <2>1 DEF Ask
  <2>4. (ReadRefused' <=> ReadRefused)
    BY <2>3 DEF ReadRefused
  <2>5. CASE stage = "info"
    <3>1. options' = ParentOnly /\ ParentOnly # Nothing
      BY <2>3, <2>5 DEF ParentOnly, Nothing
    <3> QED BY <1>1, <2>3, <3>1 DEF AskedInv, CliSteps
  <2>6. CASE stage # "info"
    <3>1. options' \in PipelineOptions(CaseOf(input))
      BY <1>1, <2>3, <2>6
    <3>2. options' # Nothing
      <4>1. PICK slots : options' = [sites |-> SitesOf(case.sites), strain |-> case.strain, opd |-> case.opd, slots |-> slots]
        BY <1>1, <3>1 DEF PipelineOptions
      <4>2. "sites" \in DOMAIN options'
        BY <4>1
      <4>3. "sites" \notin DOMAIN <<>>
        OBVIOUS
      <4> QED BY <4>2, <4>3 DEF Nothing
    <3>3. Allowed
      BY <1>1, <2>2, <2>3, <2>6 DEF Allowed
    <3>4. Allowed'
      BY <2>3, <2>4, <3>3 DEF Allowed
    <3> QED BY <1>1, <2>3, <3>1, <3>2, <3>4 DEF AskedInv, CliSteps
  <2> QED BY <2>5, <2>6
<1> QED BY <1>2, <1>3

\* The steps after the request leave its options alone.
LEMMA AfterAsked ==
    ASSUME AskedInv, Compute \/ Write \/ Post \/ PublishExample
    PROVE  AskedInv'
<1>1. cliStep \in {"asked", "answered"} /\ input' = input /\ options' = options
  BY FailsEnds DEF Compute, Write, Post, PublishExample
<1>2. cliStep' \in {"answered", "ended"}
  <2>1. CASE Compute
    <3>1. (\E failure \in {"caught", "uncaught", "memory"} : Fails(failure)) \/ cliStep' = "answered"
      BY <2>1 DEF Compute
    <3> QED BY <3>1, FailsEnds
  <2>2. CASE Write
    BY <2>2, RefuseEnds DEF Write, WriteResult, ExitWith
  <2>3. CASE Post
    BY <2>3, RefuseEnds DEF Post
  <2>4. CASE PublishExample
    BY <2>4, RefuseEnds DEF PublishExample
  <2> QED BY <2>1, <2>2, <2>3, <2>4
<1>3. options # Nothing
  BY <1>1 DEF AskedInv
<1> QED BY <1>1, <1>2, <1>3, AskedStays

\* The next example has no options yet.
LEMMA NextExampleAsked == ASSUME AskedInv, NextExample PROVE AskedInv'
<1>1. input' \in Inputs /\ cliStep' = "start" /\ options' = Nothing /\ engine' = "none"
  BY DEF NextExample
<1> QED BY <1>1 DEF AskedInv, CliSteps

\* Every step of the command line keeps what is asked to what was said.
LEMMA AskedInductive ==
    /\ \A in \in Inputs, step \in {"start", "elsewhere"} : CliAt(in, step) => AskedInv
    /\ AskedInv /\ [CliNext]_cliVars => AskedInv'
<1>1. ASSUME NEW in \in Inputs, NEW step \in {"start", "elsewhere"}, CliAt(in, step)
      PROVE  AskedInv
  BY <1>1 DEF CliAt, AskedInv, CliSteps
<1>2. ASSUME AskedInv, CliNext PROVE AskedInv'
  BY <1>2, StartAsked, ReadAsked, AskAsked, AfterAsked, NextExampleAsked DEF CliNext
<1>3. ASSUME AskedInv, UNCHANGED cliVars PROVE AskedInv'
  BY <1>3 DEF cliVars, AskedInv, Allowed, ReadRefused, TextRefused
<1> QED BY <1>1, <1>2, <1>3

-----------------------------------------------------------------------------
(* The coupled OPDs *)

(* Looking groups up and adding those that are new keeps a right table right. *)
LEMMA KnownStaysRight ==
    ASSUME NEW known, NEW c, NEW rows,
           \A H \in DOMAIN known : known[H] = SubductionFrequency(c, H)
    PROVE  LET more == Frequencies(known, c, rows)
           IN  \A H \in DOMAIN more : more[H] = SubductionFrequency(c, H)
BY DEF Frequencies

(* One choice of rows reads and extends the table of its own request. *)
LEMMA ScanKeepsRight ==
    ASSUME FrequenciesRight, NEW rows, NEW fault, ScanRows(rows, fault)
    PROVE  FrequenciesRight'
<1> DEFINE scanned == IF fault = 0 THEN rows ELSE SubSeq(rows, 1, fault - 1)
<1>1. frequencies' = Frequencies(frequencies, couple, scanned) /\ couple' = couple
  BY DEF ScanRows
<1>2. \A H \in DOMAIN frequencies : frequencies[H] = SubductionFrequency(couple, H)
  BY DEF FrequenciesRight
<1> HIDE DEF scanned
<1>3. \A H \in DOMAIN Frequencies(frequencies, couple, scanned) :
        Frequencies(frequencies, couple, scanned)[H] = SubductionFrequency(couple, H)
  BY <1>2, KnownStaysRight
<1> QED
  BY <1>1, <1>3 DEF FrequenciesRight, SubductionFrequency, SlotsOf, FixedBy

\* Every step of the coupled OPDs keeps the frequencies right.
LEMMA FrequenciesInductive ==
    /\ CoupledInit \/ CoupledAtRest => FrequenciesRight
    /\ FrequenciesRight /\ [CoupledNext]_coupledVars => FrequenciesRight'
<1>1. CoupledInit \/ CoupledAtRest => FrequenciesRight
  BY DEF CoupledInit, CoupledAtRest, FrequenciesRight
<1>2. FrequenciesRight /\ [CoupledNext]_coupledVars => FrequenciesRight'
  <2> SUFFICES ASSUME FrequenciesRight, [CoupledNext]_coupledVars PROVE FrequenciesRight'
    OBVIOUS
  <2>1. ASSUME NEW c \in Couples, NEW l \in RowLimits, AskCoupled(c, l) PROVE FrequenciesRight'
    BY <2>1 DEF AskCoupled, FrequenciesRight
  <2>2. ASSUME coupling = "scanning",
               NEW rows \in {Candidates(couple, combo)}, NEW fault \in 0 .. Len(rows),
               ScanRows(rows, fault)
        PROVE FrequenciesRight'
    BY <2>2, ScanKeepsRight
  <2>3. ASSUME UNCHANGED coupledVars PROVE FrequenciesRight'
    BY <2>3 DEF coupledVars, FrequenciesRight, SubductionFrequency, SlotsOf, FixedBy
  <2> QED
    BY <2>1, <2>2, <2>3 DEF CoupledNext
<1> QED BY <1>1, <1>2

-----------------------------------------------------------------------------
(* The coupled OPDs: numbers and their digits *)

\* The numbers in a set, in order.
LEMMA InOrderLists ==
    ASSUME NEW N \in Nat, NEW S, S \subseteq 1 .. N
    PROVE  /\ InOrder(N, S) \in Seq(S)
           /\ \A x \in S : \E i \in DOMAIN InOrder(N, S) : InOrder(N, S)[i] = x
           /\ \A i, j \in DOMAIN InOrder(N, S) : InOrder(N, S)[i] = InOrder(N, S)[j] => i = j
<1> DEFINE X == Seq(S)
           g == [n \in 1 .. N |-> [x \in X |-> IF n \in S THEN Append(x, n) ELSE x]]
<1>1. \A n \in 1 .. N, x \in X : g[n][x] = (IF n \in S THEN Append(x, n) ELSE x) /\ g[n][x] \in X
  OBVIOUS
<1>2. <<>> \in X
  OBVIOUS
<1>3. PICK t : Iterates(t, N, <<>>, g) /\ \A n \in 0 .. N : t[n] \in X
  <2> HIDE DEF g, X
  <2>1. \A n \in 1 .. N, x \in X : g[n][x] \in X
    BY <1>1
  <2> QED BY <1>2, <2>1, Iteration, ZenonT(60)
<1>4. t = [n \in 0 .. N |-> IF n = 0 THEN <<>> ELSE g[n][t[n - 1]]]
  BY <1>3 DEF Iterates
<1>5. t = [n \in 0 .. N |-> IF n = 0 THEN <<>> ELSE IF n \in S THEN Append(t[n - 1], n) ELSE t[n - 1]]
  <2>1. \A n \in 0 .. N : n # 0 => g[n][t[n - 1]] = IF n \in S THEN Append(t[n - 1], n) ELSE t[n - 1]
    <3>1. \A n \in 0 .. N : n # 0 => n \in 1 .. N /\ n - 1 \in 0 .. N
      OBVIOUS
    <3> HIDE DEF g, X
    <3> QED BY <1>1, <1>3, <3>1
  <2> HIDE DEF g, X
  <2> QED BY <1>4, <2>1
<1>6. PICK order : order = CHOOSE o : o = [i \in 0 .. N |->
                        IF i = 0 THEN <<>> ELSE IF i \in S THEN Append(o[i - 1], i) ELSE o[i - 1]]
  BY Zenon
<1>7. order = [i \in 0 .. N |->
                        IF i = 0 THEN <<>> ELSE IF i \in S THEN Append(order[i - 1], i) ELSE order[i - 1]]
  BY <1>5, <1>6, Zenon
<1>8. InOrder(N, S) = order[N]
  BY <1>6 DEF InOrder
<1> HIDE DEF g, X
<1> DEFINE Good(n, o) == /\ o \in Seq(S \cap 1 .. n)
                         /\ \A x \in S \cap 1 .. n : \E i \in DOMAIN o : o[i] = x
                         /\ \A i, j \in DOMAIN o : o[i] = o[j] => i = j
           T == {n \in 0 .. N : Good(n, order[n])}
<1>9. 0 \in T
  <2>1. order[0] = <<>>
    BY <1>7
  <2>2. Good(0, <<>>)
    OBVIOUS
  <2> HIDE DEF Good
  <2> QED BY <2>1, <2>2
<1>10. ASSUME NEW n \in 1 .. N, n - 1 \in T PROVE n \in T
  <2>1. PICK o : o = order[n - 1]
    OBVIOUS
  <2>2. Good(n - 1, o)
    BY <1>10, <2>1
  <2>3. order[n] = IF n \in S THEN Append(o, n) ELSE o
    <3>1. n \in 0 .. N /\ n # 0
      OBVIOUS
    <3>2. order[n] = IF n = 0 THEN <<>> ELSE IF n \in S THEN Append(order[n - 1], n) ELSE order[n - 1]
      BY <1>7, <3>1
    <3> QED BY <2>1, <3>1, <3>2
  <2>4. S \cap 1 .. n = (S \cap 1 .. n - 1) \cup (IF n \in S THEN {n} ELSE {}) /\ n \notin 1 .. n - 1
    OBVIOUS
  <2>5. CASE n \notin S
    <3>1. S \cap 1 .. n = S \cap 1 .. n - 1
      BY <2>4, <2>5
    <3> QED BY <2>2, <2>3, <2>5, <3>1
  <2>6. CASE n \in S
    <3>1. PICK a : a = Append(o, n)
      OBVIOUS
    <3>2. /\ a \in Seq(S \cap 1 .. n) /\ DOMAIN a = 1 .. Len(o) + 1 /\ Len(o) \in Nat
          /\ DOMAIN o = 1 .. Len(o)
          /\ \A i \in 1 .. Len(o) : a[i] = o[i] /\ o[i] \in 1 .. n - 1
          /\ a[Len(o) + 1] = n
      <4>1. o \in Seq(S \cap 1 .. n) /\ n \in S \cap 1 .. n
        BY <2>2, <2>4, <2>6
      <4> QED BY <2>2, <3>1, <4>1
    <3>3. \A x \in S \cap 1 .. n : \E i \in DOMAIN a : a[i] = x
      <4> SUFFICES ASSUME NEW x \in S \cap 1 .. n PROVE \E i \in DOMAIN a : a[i] = x
        OBVIOUS
      <4>1. CASE x = n
        BY <3>2, <4>1
      <4>2. CASE x \in S \cap 1 .. n - 1
        <5>1. PICK i \in DOMAIN o : o[i] = x
          BY <2>2, <4>2
        <5> QED BY <3>2, <5>1
      <4> QED BY <2>4, <4>1, <4>2
    <3>4. \A i, j \in DOMAIN a : a[i] = a[j] => i = j
      <4> SUFFICES ASSUME NEW i \in DOMAIN a, NEW j \in DOMAIN a, a[i] = a[j] PROVE i = j
        OBVIOUS
      <4>1. i \in 1 .. Len(o) \/ i = Len(o) + 1
        BY <3>2
      <4>2. j \in 1 .. Len(o) \/ j = Len(o) + 1
        BY <3>2
      <4> QED BY <2>2, <2>4, <3>2, <4>1, <4>2
    <3> QED 
      <4>1. order[n] = a
        BY <2>3, <2>6, <3>1
      <4>2. Good(n, a)
        BY <3>2, <3>3, <3>4
      <4> HIDE DEF Good
      <4> QED BY <4>1, <4>2
  <2> QED BY <2>5, <2>6
<1>11. N \in T
  <2> HIDE DEF T
  <2>1. 0 .. N \subseteq T
    BY <1>9, <1>10, UpTo
  <2> QED BY <2>1
<1>12. S \cap 1 .. N = S
  OBVIOUS
<1>13. Good(N, order[N])
  BY <1>11
<1> QED BY <1>8, <1>12, <1>13

\* A listing of a sequence is that sequence.
LEMMA ListingIs ==
    ASSUME NEW f, NEW N \in Nat, DOMAIN f = 1 .. N, f = [i \in 1 .. N |-> f[i]]
    PROVE  Listing(f) = f
<1>1. f \in Seq({f[i] : i \in 1 .. N})
  OBVIOUS
<1> QED BY <1>1 DEF Listing

\* The product of the numbers of a sequence, by its steps.
LEMMA TimesIs ==
    ASSUME NEW sizes, NEW N \in Nat, Len(sizes) = N, \A i \in 1 .. N : sizes[i] \in Nat \ {0}
    PROVE  \E P : /\ P[0] = 1 /\ P[N] = Times(sizes)
                  /\ \A s \in 0 .. N : P[s] \in Nat \ {0}
                  /\ \A s \in 1 .. N : P[s] = P[s - 1] * sizes[s]
<1> DEFINE X == Nat \ {0}
           g == [n \in 1 .. N |-> [x \in X |-> x * sizes[n]]]
<1>1. ASSUME NEW n \in 1 .. N, NEW x \in X PROVE g[n][x] = x * sizes[n] /\ g[n][x] \in X
  <2>1. PICK m \in Nat \ {0} : m = sizes[n]
    OBVIOUS
  <2>2. x * m \in Nat \ {0}
    OBVIOUS
  <2> QED BY <2>1, <2>2
<1>2. 1 \in X
  OBVIOUS
<1>3. PICK t : Iterates(t, N, 1, g) /\ \A n \in 0 .. N : t[n] \in X
  <2> HIDE DEF g, X
  <2>1. \A n \in 1 .. N, x \in X : g[n][x] \in X
    BY <1>1
  <2> QED BY <1>2, <2>1, Iteration, ZenonT(60)
<1>4. t = [n \in 0 .. N |-> IF n = 0 THEN 1 ELSE g[n][t[n - 1]]]
  BY <1>3 DEF Iterates
<1>5. t = [n \in 0 .. N |-> IF n = 0 THEN 1 ELSE t[n - 1] * sizes[n]]
  <2>1. \A n \in 0 .. N : n # 0 => g[n][t[n - 1]] = t[n - 1] * sizes[n]
    <3>1. \A n \in 0 .. N : n # 0 => n \in 1 .. N /\ n - 1 \in 0 .. N
      OBVIOUS
    <3> HIDE DEF g, X
    <3> QED BY <1>1, <1>3, <3>1
  <2> HIDE DEF g, X
  <2> QED BY <1>4, <2>1
<1>6. PICK P : P = CHOOSE o : o = [n \in 0 .. N |-> IF n = 0 THEN 1 ELSE o[n - 1] * sizes[n]]
  OBVIOUS
<1>7. P = [n \in 0 .. N |-> IF n = 0 THEN 1 ELSE P[n - 1] * sizes[n]]
  BY <1>5, <1>6
<1>8. Times(sizes) = P[N]
  BY <1>6 DEF Times
<1>9. P[0] = 1 /\ \A s \in 1 .. N : P[s] = P[s - 1] * sizes[s]
  <2>1. 0 \in 0 .. N /\ \A s \in 1 .. N : s \in 0 .. N /\ s # 0
    OBVIOUS
  <2> QED BY <1>7, <2>1
<1>10. \A s \in 0 .. N : P[s] \in X
  <2> DEFINE S == {s \in 0 .. N : P[s] \in X}
  <2>1. 0 \in S
    BY <1>9
  <2>2. ASSUME NEW n \in 1 .. N, n - 1 \in S PROVE n \in S
    <3>1. P[n] = g[n][P[n - 1]] /\ P[n - 1] \in X
      <4> HIDE DEF g
      <4> QED BY <1>1, <1>9, <2>2
    <3> HIDE DEF g, X
    <3> QED BY <1>1, <3>1
  <2>3. 0 .. N \subseteq S
    <3> HIDE DEF S
    <3> QED BY <2>1, <2>2, UpTo
  <2> QED BY <2>3
<1> QED BY <1>8, <1>9, <1>10

\* R[s] is what is left of k after s of its digits.
LeavesOf(sizes, N, k, R) ==
    /\ R[0] = k
    /\ \A s \in 0 .. N : R[s] \in Nat
    /\ \A s \in 1 .. N : R[s] = R[s - 1] \div sizes[s]
    /\ Digits(sizes, k) = [s \in 1 .. N |-> (R[s - 1] % sizes[s]) + 1]

\* The digits of a number, by what is left of it.
LEMMA DigitsIs ==
    ASSUME NEW sizes, NEW N \in Nat, Len(sizes) = N, DOMAIN sizes = 1 .. N,
           \A i \in 1 .. N : sizes[i] \in Nat \ {0}, NEW k \in Nat
    PROVE  \E R : LeavesOf(sizes, N, k, R)
<1> DEFINE g == [n \in 1 .. N |-> [x \in Nat |-> x \div sizes[n]]]
<1>1. ASSUME NEW n \in 1 .. N, NEW x \in Nat PROVE g[n][x] = x \div sizes[n] /\ g[n][x] \in Nat
  <2>1. PICK m \in Nat \ {0} : m = sizes[n]
    OBVIOUS
  <2>2. x \div m \in Nat
    BY DividedUp
  <2> QED BY <2>1, <2>2
<1>3. PICK t : Iterates(t, N, k, g) /\ \A n \in 0 .. N : t[n] \in Nat
  <2> HIDE DEF g
  <2>1. \A n \in 1 .. N, x \in Nat : g[n][x] \in Nat
    BY <1>1
  <2> QED BY <2>1, Iteration, ZenonT(60)
<1>4. t = [n \in 0 .. N |-> IF n = 0 THEN k ELSE g[n][t[n - 1]]]
  BY <1>3 DEF Iterates
<1>5. t = [n \in 0 .. N |-> IF n = 0 THEN k ELSE t[n - 1] \div sizes[n]]
  <2>1. \A n \in 0 .. N : n # 0 => g[n][t[n - 1]] = t[n - 1] \div sizes[n]
    <3>1. \A n \in 0 .. N : n # 0 => n \in 1 .. N /\ n - 1 \in 0 .. N
      OBVIOUS
    <3> HIDE DEF g
    <3> QED BY <1>1, <1>3, <3>1
  <2> HIDE DEF g
  <2> QED BY <1>4, <2>1
<1>6. PICK R : R = CHOOSE o : o = [n \in 0 .. Len(sizes) |-> IF n = 0 THEN k ELSE o[n - 1] \div sizes[n]]
  OBVIOUS
<1>7. R = [n \in 0 .. N |-> IF n = 0 THEN k ELSE R[n - 1] \div sizes[n]]
  <2>1. t = [n \in 0 .. Len(sizes) |-> IF n = 0 THEN k ELSE t[n - 1] \div sizes[n]]
    BY <1>5
  <2>2. R = [n \in 0 .. Len(sizes) |-> IF n = 0 THEN k ELSE R[n - 1] \div sizes[n]]
    BY <1>6, <2>1
  <2> QED BY <2>2
<1>9. R[0] = k /\ \A s \in 1 .. N : R[s] = R[s - 1] \div sizes[s]
  <2>1. 0 \in 0 .. N /\ \A s \in 1 .. N : s \in 0 .. N /\ s # 0
    OBVIOUS
  <2> QED BY <1>7, <2>1
<1>10. \A s \in 0 .. N : R[s] \in Nat
  <2> DEFINE S == {s \in 0 .. N : R[s] \in Nat}
  <2>1. 0 \in S
    BY <1>9
  <2>2. ASSUME NEW n \in 1 .. N, n - 1 \in S PROVE n \in S
    <3>1. R[n] = g[n][R[n - 1]] /\ R[n - 1] \in Nat
      <4> HIDE DEF g
      <4> QED BY <1>1, <1>9, <2>2
    <3> HIDE DEF g
    <3> QED BY <1>1, <3>1
  <2>3. 0 .. N \subseteq S
    <3> HIDE DEF S
    <3> QED BY <2>1, <2>2, UpTo
  <2> QED BY <2>3
<1>11. PICK d : d = [s \in DOMAIN sizes |-> (R[s - 1] % sizes[s]) + 1]
  OBVIOUS
<1>12. Digits(sizes, k) = Listing(d)
  <2> DEFINE W == CHOOSE o : o = [i \in 0 .. Len(sizes) |-> IF i = 0 THEN k ELSE o[i - 1] \div sizes[i]]
  <2>1. PICK f : f = [n \in DOMAIN sizes |-> (W[n - 1] % sizes[n]) + 1]
    OBVIOUS
  <2>2. Digits(sizes, k) = Listing(f)
    BY <2>1 DEF Digits
  <2>3. R = W
    BY <1>6
  <2>4. f = d
    <3> HIDE DEF W
    <3> QED BY <1>11, <2>1, <2>3
  <2> QED BY <2>2, <2>4
<1>13. Listing(d) = d
  BY <1>11, ListingIs
<1> QED BY <1>9, <1>10, <1>11, <1>12, <1>13 DEF LeavesOf

\* Two numbers below the product of the sizes that have the same digits are
\* the same.
LEMMA DigitsTell ==
    ASSUME NEW sizes, NEW N \in Nat, Len(sizes) = N, DOMAIN sizes = 1 .. N,
           \A i \in 1 .. N : sizes[i] \in Nat \ {0},
           NEW k \in 0 .. Times(sizes) - 1, NEW l \in 0 .. Times(sizes) - 1,
           Digits(sizes, k) = Digits(sizes, l)
    PROVE  k = l
<1>1. PICK P : /\ P[0] = 1 /\ P[N] = Times(sizes)
               /\ \A s \in 0 .. N : P[s] \in Nat \ {0}
               /\ \A s \in 1 .. N : P[s] = P[s - 1] * sizes[s]
  BY TimesIs
<1>2. N \in 0 .. N /\ P[N] \in Nat
  BY <1>1
<1>3. k \in Nat /\ l \in Nat /\ k < P[N] /\ l < P[N]
  BY <1>1, <1>2
<1>4. \A m \in Nat : m < P[N] =>
        \E R : LeavesOf(sizes, N, m, R) /\ R[N] = 0
  <2> SUFFICES ASSUME NEW m \in Nat, m < P[N]
      PROVE \E R : LeavesOf(sizes, N, m, R) /\ R[N] = 0
    OBVIOUS
  <2>1. PICK R : LeavesOf(sizes, N, m, R)
    BY DigitsIs
  <2> DEFINE S == {s \in 0 .. N : R[s] * P[s] <= m}
  <2>2. 0 \in S
    BY <1>1, <2>1 DEF LeavesOf
  <2>3. ASSUME NEW n \in 1 .. N, n - 1 \in S PROVE n \in S
    <3>1. n \in 0 .. N /\ n - 1 \in 0 .. N
      OBVIOUS
    <3>2. PICK z \in Nat \ {0} : z = sizes[n]
      OBVIOUS
    <3>3. PICK r \in Nat : r = R[n]
      BY <2>1, <3>1 DEF LeavesOf
    <3>4. PICK q \in Nat : q = R[n - 1]
      BY <2>1, <3>1 DEF LeavesOf
    <3>5. PICK p \in Nat : p = P[n - 1]
      BY <1>1, <3>1
    <3>6. r = q \div z /\ P[n] = p * z
      BY <1>1, <2>1, <3>2, <3>3, <3>4, <3>5 DEF LeavesOf
    <3>7. r * z \in Nat /\ r * z <= q
      <4>1. q = (q \div z) * z + (q % z) /\ q % z \in 0 .. z - 1
        BY DividedUp
      <4>2. PICK x \in Nat : x = r * z
        BY ProductIsNat
      <4>3. PICK y \in Nat : y = q % z
        BY <4>1
      <4> QED BY <3>6, <4>1, <4>2, <4>3
    <3>8. (r * z) * p <= q * p
      BY <3>7, ProductGrows
    <3>9. r * (p * z) = (r * z) * p
      BY ProductOrder
    <3>10. q * p <= m
      BY <2>3, <3>4, <3>5
    <3>11. (r * z) * p \in Nat /\ q * p \in Nat
      BY <3>7, ProductIsNat
    <3>12. r * (p * z) <= m
      BY <3>8, <3>9, <3>10, <3>11
    <3> QED BY <3>1, <3>3, <3>6, <3>12
  <2>4. 0 .. N \subseteq S
    <3> HIDE DEF S
    <3> QED BY <2>2, <2>3, UpTo
  <2>5. R[N] * P[N] <= m /\ R[N] \in Nat
    BY <1>2, <2>1, <2>4 DEF LeavesOf
  <2>6. R[N] = 0
    <3>1. SUFFICES ASSUME R[N] # 0 PROVE FALSE
      OBVIOUS
    <3>2. PICK r \in Nat : r = R[N] /\ 1 <= r
      BY <2>5, <3>1
    <3>3. PICK p \in Nat : p = P[N]
      BY <1>2
    <3>4. 1 * p <= r * p
      BY <3>2, ProductGrows
    <3>5. r * p \in Nat
      BY ProductIsNat
    <3> QED BY <2>5, <3>2, <3>3, <3>4, <3>5
  <2> QED BY <2>1, <2>6
<1>5. PICK R : LeavesOf(sizes, N, k, R) /\ R[N] = 0
  BY <1>3, <1>4
<1>6. PICK Q : LeavesOf(sizes, N, l, Q) /\ Q[N] = 0
  BY <1>3, <1>4
<1> DEFINE E == {i \in 0 .. N : R[N - i] = Q[N - i]}
<1>7. 0 \in E
  BY <1>5, <1>6 DEF LeavesOf
<1>8. ASSUME NEW n \in 1 .. N, n - 1 \in E PROVE n \in E
  <2>1. PICK s \in 1 .. N : s = N + 1 - n
    OBVIOUS
  <2>2. N - (n - 1) = s /\ N - n = s - 1 /\ s - 1 \in 0 .. N
    BY <2>1
  <2>3. R[s] = Q[s]
    BY <1>8, <2>2
  <2>4. PICK z \in Nat \ {0} : z = sizes[s]
    OBVIOUS
  <2>5. PICK r \in Nat : r = R[s - 1]
    BY <1>5, <2>2 DEF LeavesOf
  <2>6. PICK q \in Nat : q = Q[s - 1]
    BY <1>6, <2>2 DEF LeavesOf
  <2>7. r \div z = q \div z
    BY <1>5, <1>6, <2>3, <2>4, <2>5, <2>6 DEF LeavesOf
  <2>8. r % z = q % z
    <3>1. Digits(sizes, k)[s] = (r % z) + 1
      BY <1>5, <2>4, <2>5 DEF LeavesOf
    <3>2. Digits(sizes, k)[s] = (q % z) + 1
      BY <1>6, <2>4, <2>6 DEF LeavesOf
    <3>3. r % z \in Int /\ q % z \in Int
      BY DividedUp
    <3> QED BY <3>1, <3>2, <3>3
  <2>9. r = (r \div z) * z + (r % z) /\ q = (q \div z) * z + (q % z)
    BY DividedUp
  <2>10. r = q
    <3>1. (r \div z) * z = (q \div z) * z
      BY <2>7
    <3> QED BY <2>8, <2>9, <3>1
  <2>11. R[N - n] = Q[N - n]
    BY <2>2, <2>5, <2>6, <2>10
  <2>12. n \in 0 .. N
    OBVIOUS
  <2> QED BY <2>11, <2>12
<1>9. N \in E
  <2>1. 0 .. N \subseteq E
    <3> HIDE DEF E
    <3> QED BY <1>7, <1>8, UpTo
  <2> HIDE DEF E
  <2> QED BY <2>1
<1>10. N - N = 0
  OBVIOUS
<1> QED BY <1>5, <1>6, <1>9, <1>10 DEF LeavesOf

\* Whatever digits are wanted, there is a number that has them.
LEMMA DigitsReach ==
    ASSUME NEW sizes, NEW N \in Nat, Len(sizes) = N, DOMAIN sizes = 1 .. N,
           \A i \in 1 .. N : sizes[i] \in Nat \ {0},
           NEW d, d = [s \in 1 .. N |-> d[s]], \A s \in 1 .. N : d[s] \in 1 .. sizes[s]
    PROVE  \E k \in 0 .. Times(sizes) - 1 : Digits(sizes, k) = d
<1>1. PICK P : /\ P[0] = 1 /\ P[N] = Times(sizes)
               /\ \A s \in 0 .. N : P[s] \in Nat \ {0}
               /\ \A s \in 1 .. N : P[s] = P[s - 1] * sizes[s]
  BY TimesIs
<1> DEFINE g == [n \in 1 .. N |-> [x \in Nat |-> x * sizes[N + 1 - n] + d[N + 1 - n] - 1]]
<1>2. ASSUME NEW n \in 1 .. N, NEW x \in Nat
      PROVE  g[n][x] = x * sizes[N + 1 - n] + d[N + 1 - n] - 1 /\ g[n][x] \in Nat
  <2>1. N + 1 - n \in 1 .. N
    OBVIOUS
  <2>2. PICK m \in Nat \ {0} : m = sizes[N + 1 - n]
    BY <2>1
  <2>3. PICK e \in 1 .. m : e = d[N + 1 - n]
    BY <2>1, <2>2
  <2>4. PICK y \in Nat : y = x * m
    BY ProductIsNat
  <2>5. y + e - 1 \in Nat
    OBVIOUS
  <2> QED BY <2>2, <2>3, <2>4, <2>5
<1>3. PICK u : Iterates(u, N, 0, g) /\ \A n \in 0 .. N : u[n] \in Nat
  <2> HIDE DEF g
  <2>1. \A n \in 1 .. N, x \in Nat : g[n][x] \in Nat
    BY <1>2
  <2> QED BY <2>1, Iteration
<1>4. u = [n \in 0 .. N |-> IF n = 0 THEN 0 ELSE g[n][u[n - 1]]]
  BY <1>3 DEF Iterates
<1>5. u[0] = 0 /\ \A n \in 1 .. N : u[n] = u[n - 1] * sizes[N + 1 - n] + d[N + 1 - n] - 1
  <2>1. 0 \in 0 .. N /\ \A n \in 1 .. N : n \in 0 .. N /\ n # 0 /\ n - 1 \in 0 .. N
    OBVIOUS
  <2>2. u[0] = 0
    BY <1>4, <2>1
  <2>3. ASSUME NEW n \in 1 .. N PROVE u[n] = u[n - 1] * sizes[N + 1 - n] + d[N + 1 - n] - 1
    <3>1. u[n] = g[n][u[n - 1]]
      <4> HIDE DEF g
      <4> QED BY <1>4, <2>1
    <3>2. u[n - 1] \in Nat
      BY <1>3, <2>1
    <3> HIDE DEF g
    <3> QED BY <1>2, <3>1, <3>2
  <2> QED BY <2>2, <2>3
<1>6. PICK v : v = [s \in 0 .. N |-> u[N - s]]
  OBVIOUS
<1>7. /\ v[N] = 0
      /\ \A s \in 0 .. N : v[s] \in Nat
      /\ \A s \in 1 .. N : v[s - 1] = v[s] * sizes[s] + d[s] - 1
  <2>1. v[N] = 0
    BY <1>5, <1>6 DEF LeavesOf
  <2>2. ASSUME NEW s \in 0 .. N PROVE v[s] \in Nat
    BY <1>3, <1>6
  <2>3. ASSUME NEW s \in 1 .. N PROVE v[s - 1] = v[s] * sizes[s] + d[s] - 1
    <3>1. PICK n \in 1 .. N : n = N + 1 - s
      OBVIOUS
    <3>2. N + 1 - n = s /\ n - 1 = N - s /\ N - (s - 1) = n
      BY <3>1
    <3>3. s \in 0 .. N /\ s - 1 \in 0 .. N
      OBVIOUS
    <3>4. v[s - 1] = u[N - (s - 1)] /\ v[s] = u[N - s]
      BY <1>6, <3>3
    <3>5. v[s - 1] = u[n] /\ v[s] = u[n - 1]
      BY <3>2, <3>4
    <3> QED BY <1>5, <3>2, <3>5
  <2> QED BY <2>1, <2>2, <2>3
<1>8. PICK k \in Nat : k = v[0]
  BY <1>7
<1>9. k < Times(sizes)
  <2> DEFINE S == {i \in 0 .. N : (v[N - i] + 1) * P[N - i] <= P[N]}
  <2>1. 0 \in S
    <3>1. P[N] \in Nat
      BY <1>1
    <3> QED BY <1>7, <3>1
  <2>2. ASSUME NEW n \in 1 .. N, n - 1 \in S PROVE n \in S
    <3>1. PICK s \in 1 .. N : s = N + 1 - n
      OBVIOUS
    <3>2. N - (n - 1) = s /\ N - n = s - 1 /\ s - 1 \in 0 .. N /\ s \in 0 .. N /\ N \in 0 .. N
      <4>1. N - (n - 1) = s /\ N - n = s - 1
        BY <3>1
      <4>2. s - 1 \in 0 .. N /\ s \in 0 .. N /\ N \in 0 .. N
        OBVIOUS
      <4> QED BY <4>1, <4>2
    <3>3. PICK z \in Nat \ {0} : z = sizes[s]
      OBVIOUS
    <3>4. PICK e \in 1 .. z : e = d[s]
      BY <3>3
    <3>5. PICK w \in Nat : w = v[s]
      BY <1>7, <3>2
    <3>6. PICK p \in Nat : p = P[s - 1]
      BY <1>1, <3>2
    <3>7. P[s] = p * z /\ v[s - 1] = w * z + e - 1
      BY <1>1, <1>7, <3>3, <3>4, <3>5, <3>6
    <3>8. w * z \in Nat /\ (w + 1) * z = w * z + z
      BY ProductIsNat
    <3>9. PICK y \in Nat : y = v[s - 1] + 1 /\ y <= (w + 1) * z
      <4>1. PICK x \in Nat : x = w * z
        BY <3>8
      <4>2. (w + 1) * z = x + z
        <5>1. (w + 1) * z = w * z + z
          BY <3>8
        <5> QED BY <4>1, <5>1, Zenon
      <4>3. v[s - 1] = x + e - 1
        <5>1. v[s - 1] = w * z + e - 1
          BY <3>7, Zenon
        <5> QED BY <4>1, <5>1, Zenon
      <4>4. v[s - 1] + 1 = x + e
        BY <4>3
      <4>5. x + e \in Nat /\ x + e <= x + z
        OBVIOUS
      <4> QED BY <4>2, <4>4, <4>5
    <3>10. y * p <= ((w + 1) * z) * p
      <4>1. (w + 1) * z \in Nat
        BY ProductIsNat
      <4> QED BY <3>9, <4>1, ProductGrows
    <3>11. ((w + 1) * z) * p = (w + 1) * (p * z)
      BY ProductOrder
    <3>12. (w + 1) * (p * z) <= P[N]
      BY <2>2, <3>2, <3>5, <3>7
    <3>13. y * p \in Nat /\ ((w + 1) * z) * p \in Nat /\ P[N] \in Nat
      <4>1. (w + 1) * z \in Nat
        BY ProductIsNat
      <4> QED BY <1>1, <3>2, <4>1, ProductIsNat
    <3>14. y * p <= P[N]
      <4>1. PICK a \in Nat : a = y * p
        BY <3>13
      <4>2. PICK b \in Nat : b = ((w + 1) * z) * p
        BY <3>13
      <4>3. PICK m \in Nat : m = P[N]
        BY <3>13
      <4>4. a <= b /\ b <= m
        BY <3>10, <3>11, <3>12, <4>1, <4>2, <4>3
      <4>5. a <= m
        BY <4>4
      <4> QED BY <4>1, <4>3, <4>5
    <3>15. (v[N - n] + 1) * P[N - n] <= P[N]
      BY <3>2, <3>6, <3>9, <3>14
    <3> QED BY <3>15
  <2>3. N \in S
    <3>1. 0 .. N \subseteq S
      <4> HIDE DEF S
      <4> QED BY <2>1, <2>2, UpTo
    <3> QED BY <3>1
  <2>4. (k + 1) * 1 <= P[N]
    <3>1. N - N = 0
      OBVIOUS
    <3> QED BY <1>1, <1>8, <2>3, <3>1
  <2>5. P[N] \in Nat
    BY <1>1
  <2> QED BY <1>1, <2>4, <2>5
<1>10. PICK R : LeavesOf(sizes, N, k, R)
  BY DigitsIs
<1>11. ASSUME NEW s \in 1 .. N
       PROVE  (v[s - 1] \div sizes[s]) = v[s] /\ (v[s - 1] % sizes[s]) = d[s] - 1
  <2>1. s \in 0 .. N /\ s - 1 \in 0 .. N
    OBVIOUS
  <2>2. PICK z \in Nat \ {0} : z = sizes[s]
    OBVIOUS
  <2>3. PICK e \in 0 .. z - 1 : e = d[s] - 1 /\ d[s] \in Int
    BY <2>2
  <2>4. PICK w \in Nat : w = v[s]
    BY <1>7, <2>1
  <2>5. v[s - 1] = w * z + e
    <3>1. PICK x \in Nat : x = w * z
      BY ProductIsNat
    <3> QED BY <1>7, <2>2, <2>3, <2>4, <3>1
  <2>6. (w * z + e) \div z = w /\ (w * z + e) % z = e
    BY PutTogether
  <2> QED BY <2>2, <2>3, <2>4, <2>5, <2>6
<1>12. \A s \in 0 .. N : R[s] = v[s]
  <2> DEFINE S == {s \in 0 .. N : R[s] = v[s]}
  <2>1. 0 \in S
    BY <1>8, <1>10 DEF LeavesOf
  <2>2. ASSUME NEW n \in 1 .. N, n - 1 \in S PROVE n \in S
    BY <1>10, <1>11, <2>2 DEF LeavesOf
  <2>3. 0 .. N \subseteq S
    <3> HIDE DEF S
    <3> QED BY <2>1, <2>2, UpTo
  <2> QED BY <2>3
<1>13. \A s \in 1 .. N : (R[s - 1] % sizes[s]) + 1 = d[s]
  <2> SUFFICES ASSUME NEW s \in 1 .. N PROVE (R[s - 1] % sizes[s]) + 1 = d[s]
    OBVIOUS
  <2>1. s - 1 \in 0 .. N
    OBVIOUS
  <2>2. d[s] \in Int
    OBVIOUS
  <2> QED BY <1>11, <1>12, <2>1, <2>2
<1>14. Digits(sizes, k) = d
  BY <1>10, <1>13 DEF LeavesOf
<1>15. Times(sizes) \in Nat
  BY <1>1
<1> QED BY <1>9, <1>14, <1>15

\* The tuples of numbers up to the sizes.
Tuples(sizes, N) == {t \in [1 .. N -> Nat] : \A s \in 1 .. N : t[s] \in 1 .. sizes[s]}

\* What a sequence is backwards.
LEMMA BackwardsIs ==
    ASSUME NEW f, NEW N \in Nat, Len(f) = N, DOMAIN f = 1 .. N
    PROVE  /\ Backwards(f) = [n \in 1 .. N |-> f[N + 1 - n]]
           /\ Len(Backwards(f)) = N /\ DOMAIN Backwards(f) = 1 .. N
<1>1. Backwards(f) = [n \in 1 .. N |-> f[N + 1 - n]]
  BY DEF Backwards
<1>2. PICK b : b = Backwards(f)
  OBVIOUS
<1>3. Len(b) = N /\ DOMAIN b = 1 .. N
  BY <1>1, <1>2
<1> QED BY <1>1, <1>2, <1>3

\* The product of the sizes is the same backwards.
LEMMA TimesBackwards ==
    ASSUME NEW sizes, NEW N \in Nat, Len(sizes) = N, DOMAIN sizes = 1 .. N,
           \A i \in 1 .. N : sizes[i] \in Nat \ {0}
    PROVE  Times(Backwards(sizes)) = Times(sizes)
<1>1. PICK P : /\ P[0] = 1 /\ P[N] = Times(sizes)
               /\ \A s \in 0 .. N : P[s] \in Nat \ {0}
               /\ \A s \in 1 .. N : P[s] = P[s - 1] * sizes[s]
  BY TimesIs
<1>2. PICK b : b = Backwards(sizes)
  OBVIOUS
<1>3. b = [n \in 1 .. N |-> sizes[N + 1 - n]] /\ Len(b) = N /\ DOMAIN b = 1 .. N
  BY <1>2, BackwardsIs
<1>4. \A i \in 1 .. N : b[i] = sizes[N + 1 - i] /\ b[i] \in Nat \ {0}
  <2>1. \A i \in 1 .. N : N + 1 - i \in 1 .. N
    OBVIOUS
  <2> QED BY <1>3, <2>1
<1>5. PICK Q : /\ Q[0] = 1 /\ Q[N] = Times(b)
               /\ \A s \in 0 .. N : Q[s] \in Nat \ {0}
               /\ \A s \in 1 .. N : Q[s] = Q[s - 1] * b[s]
  <2>1. Len(b) = N
    BY <1>3
  <2>2. \A i \in 1 .. N : b[i] \in Nat \ {0}
    BY <1>4
  <2> QED BY <2>1, <2>2, TimesIs
<1> DEFINE S == {i \in 0 .. N : P[N - i] * Q[i] = P[N]}
<1>6. 0 \in S
  <2>1. P[N] \in Nat
    BY <1>1
  <2> QED BY <1>5, <2>1
<1>7. ASSUME NEW n \in 1 .. N, n - 1 \in S PROVE n \in S
  <2>1. PICK s \in 1 .. N : s = N + 1 - n
    OBVIOUS
  <2>2. N - (n - 1) = s /\ N - n = s - 1
    BY <2>1
  <2>3. s - 1 \in 0 .. N /\ n - 1 \in 0 .. N /\ n \in 0 .. N
    OBVIOUS
  <2>4. PICK z \in Nat : z = sizes[s]
    OBVIOUS
  <2>5. PICK p \in Nat : p = P[s - 1]
    BY <1>1, <2>3
  <2>6. PICK q \in Nat : q = Q[n - 1]
    BY <1>5, <2>3
  <2>7. P[s] = p * z
    BY <1>1, <2>4, <2>5
  <2>8. Q[n] = q * z
    BY <1>4, <1>5, <2>1, <2>4, <2>6
  <2>9. (p * z) * q = P[N]
    BY <1>7, <2>2, <2>6, <2>7
  <2>10. (p * z) * q = p * (q * z)
    BY ProductOrder
  <2>11. P[N - n] * Q[n] = P[N]
    BY <2>2, <2>5, <2>8, <2>9, <2>10
  <2> QED BY <2>3, <2>11
<1>8. N \in S
  <2>1. 0 .. N \subseteq S
    <3> HIDE DEF S
    <3> QED BY <1>6, <1>7, UpTo
  <2> QED BY <2>1
<1>9. N - N = 0 /\ Q[N] \in Nat
  BY <1>5
<1>10. 1 * Q[N] = P[N]
  BY <1>1, <1>8, <1>9
<1> QED BY <1>1, <1>2, <1>5, <1>9, <1>10

\* The k-th tuple is one, and each is the k-th for some k.
LEMMA TuplesAre ==
    ASSUME NEW sizes, NEW N \in Nat, Len(sizes) = N, DOMAIN sizes = 1 .. N,
           \A i \in 1 .. N : sizes[i] \in Nat \ {0}
    PROVE  /\ Times(sizes) \in Nat \ {0}
           /\ \A k \in 0 .. Times(sizes) - 1 : Tuple(sizes, k) \in Tuples(sizes, N)
           /\ \A t \in Tuples(sizes, N) : \E k \in 0 .. Times(sizes) - 1 : Tuple(sizes, k) = t
<1>1. Times(sizes) \in Nat \ {0}
  BY TimesIs
<1>2. PICK b : b = Backwards(sizes)
  OBVIOUS
<1>3. b = [n \in 1 .. N |-> sizes[N + 1 - n]]
  BY <1>2, BackwardsIs
<1>4. Len(b) = N
  BY <1>3
<1>5. DOMAIN b = 1 .. N
  BY <1>3
<1>6. \A i \in 1 .. N : b[i] = sizes[N + 1 - i]
  BY <1>3
<1>7. \A i \in 1 .. N : b[i] \in Nat \ {0}
  <2>1. \A i \in 1 .. N : N + 1 - i \in 1 .. N
    OBVIOUS
  <2> QED BY <1>6, <2>1
<1>8. Times(b) = Times(sizes)
  BY <1>2, TimesBackwards
<1>9. ASSUME NEW f, f = [i \in 1 .. N |-> f[i]]
      PROVE  Listing(Backwards(f)) = [n \in 1 .. N |-> f[N + 1 - n]]
  <2>1. Len(f) = N /\ DOMAIN f = 1 .. N
    BY <1>9
  <2>2. PICK h : h = [n \in 1 .. N |-> f[N + 1 - n]]
    OBVIOUS
  <2>3. Backwards(f) = h
    BY <2>1, <2>2, BackwardsIs
  <2>4. Listing(h) = h
    BY <2>2, ListingIs
  <2> QED BY <2>2, <2>3, <2>4
<1>10. ASSUME NEW k \in 0 .. Times(sizes) - 1 PROVE Tuple(sizes, k) \in Tuples(sizes, N)
  <2>1. k \in Nat
    BY <1>1
  <2>2. PICK R : LeavesOf(b, N, k, R)
    BY <1>4, <1>5, <1>7, <2>1, DigitsIs
  <2>3. PICK d : d = Digits(b, k)
    OBVIOUS
  <2>4. d = [s \in 1 .. N |-> (R[s - 1] % b[s]) + 1]
    BY <2>2, <2>3 DEF LeavesOf
  <2>5. ASSUME NEW s \in 1 .. N PROVE d[s] \in Nat /\ d[s] \in 1 .. b[s]
    <3>1. PICK m \in Nat \ {0} : m = b[s]
      BY <1>7
    <3>2. s - 1 \in 0 .. N
      OBVIOUS
    <3>3. PICK r \in Nat : r = R[s - 1]
      BY <2>2, <3>2 DEF LeavesOf
    <3>4. r % m \in 0 .. m - 1
      BY DividedUp
    <3>5. d[s] = (r % m) + 1
      BY <2>4, <3>1, <3>3
    <3> QED BY <3>1, <3>4, <3>5
  <2>6. Tuple(sizes, k) = [n \in 1 .. N |-> d[N + 1 - n]]
    <3>1. d = [i \in 1 .. N |-> d[i]]
      BY <2>4
    <3>2. Listing(Backwards(d)) = [n \in 1 .. N |-> d[N + 1 - n]]
      BY <1>9, <3>1
    <3> QED BY <1>2, <2>3, <3>2 DEF Tuple
  <2>7. ASSUME NEW n \in 1 .. N PROVE d[N + 1 - n] \in Nat /\ d[N + 1 - n] \in 1 .. sizes[n]
    <3>1. PICK s \in 1 .. N : s = N + 1 - n
      OBVIOUS
    <3>2. N + 1 - s = n
      BY <3>1
    <3>3. b[s] = sizes[n]
      BY <1>6, <3>2
    <3> QED BY <2>5, <3>1, <3>3
  <2> QED BY <2>6, <2>7 DEF Tuples
<1>11. ASSUME NEW t \in Tuples(sizes, N) PROVE \E k \in 0 .. Times(sizes) - 1 : Tuple(sizes, k) = t
  <2>1. t \in [1 .. N -> Nat] /\ \A s \in 1 .. N : t[s] \in 1 .. sizes[s]
    BY DEF Tuples
  <2>2. PICK d : d = [n \in 1 .. N |-> t[N + 1 - n]]
    OBVIOUS
  <2>3. d = [n \in 1 .. N |-> d[n]]
    BY <2>2
  <2>4. \A s \in 1 .. N : d[s] \in 1 .. b[s]
    <3>1. \A s \in 1 .. N : N + 1 - s \in 1 .. N
      OBVIOUS
    <3> QED BY <1>6, <2>1, <2>2, <3>1
  <2>5. PICK k \in 0 .. Times(b) - 1 : Digits(b, k) = d
    BY <1>4, <1>5, <1>7, <2>3, <2>4, DigitsReach
  <2>6. [n \in 1 .. N |-> d[N + 1 - n]] = t
    <3>1. \A n \in 1 .. N : N + 1 - n \in 1 .. N /\ N + 1 - (N + 1 - n) = n
      OBVIOUS
    <3>2. \A n \in 1 .. N : d[N + 1 - n] = t[n]
      BY <2>2, <3>1
    <3> QED BY <2>1, <3>2
  <2>7. Listing(Backwards(d)) = t
    BY <1>9, <2>3, <2>6
  <2>8. Tuple(sizes, k) = t
    BY <1>2, <2>5, <2>7 DEF Tuple
  <2> QED BY <1>8, <2>5, <2>8
<1> QED BY <1>1, <1>10, <1>11

-----------------------------------------------------------------------------
(* Closures *)

\* The tuples that the actions carry into a set, that set included.
Widened(actions, R) == R \cup {Joint(a, t) : a \in actions, t \in R}

\* All that the actions reach from a set of tuples.
Reach(actions, R, all) ==
    {x \in all : \A C \in SUBSET all : R \subseteq C /\ Widened(actions, C) = C => x \in C}

\* What is reached before a step is reached after it.
LEMMA ReachSteps ==
    ASSUME NEW actions, NEW all, NEW R \in SUBSET all,
           \A a \in actions, t \in all : Joint(a, t) \in all
    PROVE  /\ R \subseteq Widened(actions, R) /\ Widened(actions, R) \in SUBSET all
           /\ Reach(actions, Widened(actions, R), all) = Reach(actions, R, all)
           /\ Widened(actions, R) = R => Reach(actions, R, all) = R
<1>1. R \subseteq Widened(actions, R) /\ Widened(actions, R) \in SUBSET all
  BY DEF Widened
<1>2. ASSUME NEW C \in SUBSET all, Widened(actions, C) = C
      PROVE  R \subseteq C <=> Widened(actions, R) \subseteq C
  <2>1. R \subseteq C => Widened(actions, R) \subseteq Widened(actions, C)
    BY DEF Widened
  <2> QED BY <1>1, <1>2, <2>1
<1>3. Reach(actions, Widened(actions, R), all) = Reach(actions, R, all)
  BY <1>2 DEF Reach
<1>4. Widened(actions, R) = R => Reach(actions, R, all) = R
  BY DEF Reach
<1> QED BY <1>1, <1>3, <1>4

\* The closure of a tuple is what the actions reach from it.
LEMMA ClosureReaches ==
    ASSUME NEW actions, NEW all, IsFiniteSet(all), NEW tuple \in all,
           \A a \in actions, t \in all : Joint(a, t) \in all
    PROVE  Closure(actions, tuple, all) = Reach(actions, {tuple}, all)
<1> DEFINE G(R) == Widened(actions, R)
           L(R) == Reach(actions, R, all)
<1>1. PICK W : W = [R \in SUBSET all |-> L(R)]
  OBVIOUS
<1>2. ASSUME NEW R \in SUBSET all
      PROVE  /\ R \subseteq G(R) /\ G(R) \in SUBSET all /\ L(G(R)) = L(R)
             /\ G(R) = R => L(R) = R
  <2>1. /\ R \subseteq Widened(actions, R) /\ Widened(actions, R) \in SUBSET all
        /\ Reach(actions, Widened(actions, R), all) = Reach(actions, R, all)
        /\ Widened(actions, R) = R => Reach(actions, R, all) = R
    BY ReachSteps
  <2> QED BY <2>1
<1>3. \A R \in SUBSET all : W[R] = IF G(R) = R THEN R ELSE W[G(R)]
  <2> HIDE DEF G, L
  <2> QED BY <1>1, <1>2
<1>4. W = [R \in SUBSET all |-> IF G(R) = R THEN R ELSE W[G(R)]]
  <2> HIDE DEF G, L
  <2> QED BY <1>1, <1>3
<1>5. PICK f : f = CHOOSE o : o = [R \in SUBSET all |-> IF G(R) = R THEN R ELSE o[G(R)]]
  OBVIOUS
<1>6. f = [R \in SUBSET all |-> IF G(R) = R THEN R ELSE f[G(R)]]
  <2> HIDE DEF G, L
  <2> QED BY <1>4, <1>5
<1>7. Closure(actions, tuple, all) = f[{tuple}]
  BY <1>5 DEF Closure, Widened
<1> DEFINE Good == {T \in SUBSET all : \A D \in SUBSET T : f[all \ D] = W[all \ D]}
<1>8. ASSUME NEW T \in SUBSET all, \A x \in T : T \ {x} \in Good PROVE T \in Good
  <2>1. ASSUME NEW D \in SUBSET T, D # T PROVE f[all \ D] = W[all \ D]
    <3>1. PICK x \in T : x \notin D
      BY <2>1
    <3>2. D \in SUBSET (T \ {x})
      BY <3>1
    <3> QED BY <1>8, <3>1, <3>2
  <2>2. f[all \ T] = W[all \ T]
    <3>1. PICK R \in SUBSET all : R = all \ T
      OBVIOUS
    <3>2. R \subseteq G(R) /\ G(R) \in SUBSET all
      BY <1>2
    <3>3. CASE G(R) = R
      <4> HIDE DEF G, L
      <4> QED BY <1>3, <1>6, <3>1, <3>3
    <3>4. CASE G(R) # R
      <4>1. PICK D : D = all \ G(R)
        OBVIOUS
      <4>2. D \in SUBSET T /\ D # T /\ all \ D = G(R)
        <5> HIDE DEF G, L
        <5> QED BY <3>1, <3>2, <3>4, <4>1
      <4>3. f[G(R)] = W[G(R)]
        <5> HIDE DEF G, L
        <5> QED BY <2>1, <4>2
      <4> HIDE DEF G, L
      <4> QED BY <1>3, <1>6, <3>1, <3>4, <4>3
    <3> QED BY <3>3, <3>4
  <2> HIDE DEF G, L
  <2> QED BY <2>1, <2>2
<1>9. SUBSET all \subseteq Good
  <2> HIDE DEF Good
  <2> QED BY <1>8, SubsetsInSet
<1>10. PICK D : D = all \ {tuple}
  OBVIOUS
<1>11. all \ D = {tuple} /\ D \in SUBSET all
  BY <1>10
<1>12. f[{tuple}] = W[{tuple}]
  <2>1. D \in Good
    BY <1>9, <1>11
  <2> HIDE DEF G, L
  <2> QED BY <1>11, <2>1
<1> QED BY <1>1, <1>7, <1>12

\* The actions lead nowhere else.
IsStable(actions, C) == \A a \in actions, t \in C : Joint(a, t) \in C

\* The closure of a tuple holds it, is closed, and is in all that is closed
\* and holds it.
LEMMA ClosureIs ==
    ASSUME NEW actions, NEW all, IsFiniteSet(all), NEW tuple \in all,
           \A a \in actions, t \in all : Joint(a, t) \in all
    PROVE  /\ Closure(actions, tuple, all) \subseteq all
           /\ tuple \in Closure(actions, tuple, all)
           /\ IsStable(actions, Closure(actions, tuple, all))
           /\ \A C \in SUBSET all : tuple \in C /\ IsStable(actions, C) => Closure(actions, tuple, all) \subseteq C
<1>1. PICK K : K = Reach(actions, {tuple}, all)
  OBVIOUS
<1>2. Closure(actions, tuple, all) = K
  BY <1>1, ClosureReaches
<1>3. \A C : Widened(actions, C) = C <=> IsStable(actions, C)
  BY DEF Widened, IsStable
<1>4. K \subseteq all /\ tuple \in K
  BY <1>1 DEF Reach
<1>5. \A C \in SUBSET all : tuple \in C /\ IsStable(actions, C) => K \subseteq C
  BY <1>1, <1>3 DEF Reach
<1>6. IsStable(actions, K)
  <2> SUFFICES ASSUME NEW a \in actions, NEW t \in K PROVE Joint(a, t) \in K
    BY DEF IsStable
  <2>1. Joint(a, t) \in all
    BY <1>4
  <2>2. ASSUME NEW C \in SUBSET all, {tuple} \subseteq C, Widened(actions, C) = C PROVE Joint(a, t) \in C
    <3>1. t \in C
      BY <1>1, <2>2 DEF Reach
    <3> QED BY <1>3, <2>2, <3>1 DEF IsStable
  <2> QED BY <1>1, <2>1, <2>2 DEF Reach
<1> QED BY <1>2, <1>4, <1>5, <1>6

-----------------------------------------------------------------------------
(* The coupled OPDs: classes of tuples *)

\* Of the tuples seen so far, the retained ones stand for their classes.
Retains(x, actions, all, n, sizes) ==
    /\ \A k \in 0 .. n - 1 : Tuple(sizes, k) \in x.seen
    /\ \A t \in x.seen : \E i \in DOMAIN x.retained : t \in Closure(actions, x.retained[i], all)
    /\ \A i \in DOMAIN x.retained : Closure(actions, x.retained[i], all) \subseteq x.seen
    /\ \A i \in DOMAIN x.retained : \A j \in 1 .. i - 1 :
           x.retained[i] \notin Closure(actions, x.retained[j], all)

\* The retained tuples stand for all, each for one class.
LEMMA RetainedAre ==
    ASSUME NEW sizes, NEW N \in Nat, Len(sizes) = N, DOMAIN sizes = 1 .. N,
           \A i \in 1 .. N : sizes[i] \in Nat \ {0}, NEW actions,
           NEW all, all = Tuples(sizes, N),
           \A a \in actions, t \in all : Joint(a, t) \in all
    PROVE  \E r : /\ r = RelativeTuples(sizes, actions) /\ r \in Seq(all)
                  /\ \A t \in all : \E i \in DOMAIN r : t \in Closure(actions, r[i], all)
                  /\ \A i \in DOMAIN r : \A j \in 1 .. i - 1 : r[i] \notin Closure(actions, r[j], all)
<1> DEFINE X == [retained : Seq(all), seen : SUBSET all]
           b == [retained |-> <<>>, seen |-> {}]
           Step(n, x) == IF Tuple(sizes, n - 1) \in x.seen THEN x
                         ELSE [retained |-> Append(x.retained, Tuple(sizes, n - 1)),
                               seen |-> x.seen \cup Closure(actions, Tuple(sizes, n - 1), all)]
<1>1. PICK M \in Nat : M = Times(sizes)
  BY TuplesAre
<1>2. \A k \in 0 .. M - 1 : Tuple(sizes, k) \in all
  BY <1>1, TuplesAre
<1>3. \A t \in all : \E k \in 0 .. M - 1 : Tuple(sizes, k) = t
  BY <1>1, TuplesAre
<1>4. all = {Tuple(sizes, k) : k \in 0 .. M - 1}
  BY <1>2, <1>3
<1>5. IsFiniteSet(all)
  <2>1. PICK f : f = [k \in 0 .. M - 1 |-> Tuple(sizes, k)]
    OBVIOUS
  <2>2. IsFiniteSet(0 .. M - 1)
    BY FS_Interval
  <2>3. IsFiniteSet({f[k] : k \in 0 .. M - 1})
    BY <2>2, FiniteImage
  <2>4. all = {f[k] : k \in 0 .. M - 1}
    BY <1>4, <2>1
  <2> QED BY <2>3, <2>4
<1>6. \A t \in all : Closure(actions, t, all) \subseteq all /\ t \in Closure(actions, t, all)
  <2> SUFFICES ASSUME NEW t \in all
      PROVE Closure(actions, t, all) \subseteq all /\ t \in Closure(actions, t, all)
    OBVIOUS
  <2> QED BY <1>5, ClosureIs
<1>7. ASSUME NEW n \in 1 .. M, NEW x \in X PROVE Step(n, x) \in X
  <2>1. Tuple(sizes, n - 1) \in all
    BY <1>2
  <2>2. PICK t \in all : t = Tuple(sizes, n - 1)
    BY <2>1
  <2>3. Closure(actions, t, all) \in SUBSET all
    BY <1>6
  <2>4. Append(x.retained, t) \in Seq(all)
    OBVIOUS
  <2> QED BY <2>2, <2>3, <2>4
<1>8. PICK g : g = [n \in 1 .. M |-> [x \in X |-> Step(n, x)]]
  OBVIOUS
<1>9. \A n \in 1 .. M, x \in X : g[n][x] = Step(n, x)
  <2> HIDE DEF X, Step
  <2> QED BY <1>8
<1>10. \A n \in 1 .. M, x \in X : g[n][x] \in X
  <2> HIDE DEF X, Step
  <2> QED BY <1>7, <1>9
<1>11. b \in X
  OBVIOUS
<1>12. PICK u : Iterates(u, M, b, g) /\ \A n \in 0 .. M : u[n] \in X
  <2> HIDE DEF X, b
  <2> QED BY <1>10, <1>11, Iteration, ZenonT(60)
<1>13. u = [n \in 0 .. M |-> IF n = 0 THEN b ELSE Step(n, u[n - 1])]
  <2>1. u = [n \in 0 .. M |-> IF n = 0 THEN b ELSE g[n][u[n - 1]]]
    BY <1>12 DEF Iterates
  <2>2. \A n \in 0 .. M : n # 0 => n \in 1 .. M /\ n - 1 \in 0 .. M
    OBVIOUS
  <2>3. \A n \in 0 .. M : n # 0 => g[n][u[n - 1]] = Step(n, u[n - 1])
    <3> HIDE DEF X, Step
    <3> QED BY <1>9, <1>12, <2>2
  <2> HIDE DEF Step, b
  <2> QED BY <2>1, <2>3
<1>14. PICK scan : scan = CHOOSE o : o = [k \in 0 .. M |-> IF k = 0 THEN b ELSE Step(k, o[k - 1])]
  OBVIOUS
<1>15. scan = [k \in 0 .. M |-> IF k = 0 THEN b ELSE Step(k, scan[k - 1])]
  <2> HIDE DEF Step, b
  <2> QED BY <1>13, <1>14
<1>16. RelativeTuples(sizes, actions) = scan[M].retained
  BY <1>1, <1>4, <1>14 DEF RelativeTuples
<1> DEFINE S == {n \in 0 .. M : scan[n] \in X /\ Retains(scan[n], actions, all, n, sizes)}
<1>17. 0 \in S
  <2>1. scan[0] = b
    <3>1. 0 \in 0 .. M
      OBVIOUS
    <3> HIDE DEF b, Step
    <3> QED BY <1>15, <3>1
  <2>2. Retains(b, actions, all, 0, sizes)
    BY DEF Retains
  <2> HIDE DEF b
  <2> QED BY <1>11, <2>1, <2>2
<1>18. ASSUME NEW n \in 1 .. M, n - 1 \in S PROVE n \in S
  <2>1. PICK x \in X : x = scan[n - 1]
    BY <1>18
  <2>2. Retains(x, actions, all, n - 1, sizes)
    BY <1>18, <2>1
  <2>3. scan[n] = Step(n, x)
    <3>1. n \in 0 .. M /\ n # 0
      OBVIOUS
    <3> HIDE DEF Step, b
    <3> QED BY <1>15, <2>1, <3>1
  <2>4. Step(n, x) \in X
    BY <1>7
  <2>5. PICK t \in all : t = Tuple(sizes, n - 1)
    BY <1>2
  <2>6. \A k \in 0 .. n - 1 : k \in 0 .. (n - 1) - 1 \/ k = n - 1
    OBVIOUS
  <2>7. CASE t \in x.seen
    <3>1. Step(n, x) = x
      BY <2>5, <2>7
    <3>2. Retains(x, actions, all, n, sizes)
      BY <2>2, <2>5, <2>6, <2>7 DEF Retains
    <3> HIDE DEF Step, X
    <3> QED BY <2>3, <2>4, <3>1, <3>2
  <2>8. CASE t \notin x.seen
    <3>1. PICK r : r = Append(x.retained, t)
      OBVIOUS
    <3>2. PICK old \in Seq(all) : old = x.retained
      OBVIOUS
    <3>3. PICK z \in Nat : z = Len(old)
      OBVIOUS
    <3>4. /\ DOMAIN old = 1 .. z /\ DOMAIN r = 1 .. z + 1
          /\ \A i \in 1 .. z : r[i] = old[i]
          /\ r[z + 1] = t
      BY <3>1, <3>2, <3>3
    <3>5. PICK y : y = Step(n, x)
      OBVIOUS
    <3>6. y.retained = r /\ y.seen = x.seen \cup Closure(actions, t, all)
      BY <2>5, <2>8, <3>1, <3>5
    <3>7. \A k \in 0 .. n - 1 : Tuple(sizes, k) \in y.seen
      BY <1>6, <2>2, <2>5, <2>6, <3>6 DEF Retains
    <3>8. \A s \in y.seen : \E i \in DOMAIN r : s \in Closure(actions, r[i], all)
      <4> SUFFICES ASSUME NEW s \in y.seen PROVE \E i \in DOMAIN r : s \in Closure(actions, r[i], all)
        OBVIOUS
      <4>1. CASE s \in x.seen
        <5>1. PICK i \in DOMAIN old : s \in Closure(actions, old[i], all)
          BY <2>2, <3>2, <4>1 DEF Retains
        <5> QED BY <3>4, <5>1
      <4>2. CASE s \in Closure(actions, t, all)
        BY <3>4, <4>2
      <4> QED BY <3>6, <4>1, <4>2
    <3>9. \A i \in DOMAIN r : Closure(actions, r[i], all) \subseteq y.seen
      <4> SUFFICES ASSUME NEW i \in DOMAIN r PROVE Closure(actions, r[i], all) \subseteq y.seen
        OBVIOUS
      <4>1. CASE i \in 1 .. z
        BY <2>2, <3>2, <3>4, <3>6, <4>1 DEF Retains
      <4>2. CASE i = z + 1
        BY <3>4, <3>6, <4>2
      <4> QED BY <3>4, <4>1, <4>2
    <3>10. \A i \in DOMAIN r : \A j \in 1 .. i - 1 : r[i] \notin Closure(actions, r[j], all)
      <4> SUFFICES ASSUME NEW i \in DOMAIN r, NEW j \in 1 .. i - 1 PROVE r[i] \notin Closure(actions, r[j], all)
        OBVIOUS
      <4>1. j \in 1 .. z
        BY <3>4
      <4>2. CASE i \in 1 .. z
        BY <2>2, <3>2, <3>4, <4>1, <4>2 DEF Retains
      <4>3. CASE i = z + 1
        <5>1. Closure(actions, old[j], all) \subseteq x.seen
          BY <2>2, <3>2, <3>4, <4>1 DEF Retains
        <5> QED BY <2>8, <3>4, <4>1, <4>3, <5>1
      <4> QED BY <3>4, <4>2, <4>3
    <3>11. Retains(y, actions, all, n, sizes)
      BY <3>6, <3>7, <3>8, <3>9, <3>10 DEF Retains
    <3> HIDE DEF Step, X
    <3> QED BY <2>3, <2>4, <3>5, <3>11
  <2> QED BY <2>7, <2>8
<1>19. M \in S
  <2>1. 0 .. M \subseteq S
    <3> HIDE DEF S
    <3> QED BY <1>17, <1>18, UpTo
  <2> QED BY <2>1
<1>20. PICK r : r = scan[M].retained
  OBVIOUS
<1>21. r \in Seq(all)
  BY <1>19, <1>20
<1>22. Retains(scan[M], actions, all, M, sizes)
  BY <1>19
<1>23. \A t \in all : \E i \in DOMAIN r : t \in Closure(actions, r[i], all)
  BY <1>3, <1>20, <1>22 DEF Retains
<1>24. \A i \in DOMAIN r : \A j \in 1 .. i - 1 : r[i] \notin Closure(actions, r[j], all)
  BY <1>20, <1>22 DEF Retains
<1> QED BY <1>16, <1>20, <1>21, <1>23, <1>24

-----------------------------------------------------------------------------
(* The coupled OPDs: operations and subspaces *)

\* An operation is a point operation with a translation.
LEMMA KernelOpsAre ==
    ASSUME NEW c \in Couples
    PROVE  /\ PointOps[c] \in Nat \ {0} /\ Fractions[c] \in Nat \ {0}
           /\ 1 \in KernelOps(c) /\ IsFiniteSet(KernelOps(c))
           /\ KernelOps(c) = 1 .. PointOps[c] * Fractions[c] /\ PointOps[c] * Fractions[c] \in Nat
           /\ \A p \in 1 .. PointOps[c], f \in 1 .. Fractions[c] : WithFraction(c, p, f) \in KernelOps(c)
           /\ \A g \in KernelOps(c) : /\ Point(c, g) \in 1 .. PointOps[c]
                                      /\ \E f \in 1 .. Fractions[c] : g = WithFraction(c, Point(c, g), f)
<1>1. PICK P \in Nat \ {0} : P = PointOps[c]
  BY CouplesAssumption DEF AreOperations
<1>2. PICK Fr \in Nat \ {0} : Fr = Fractions[c]
  BY CouplesAssumption DEF AreOperations
<1>3. PICK z \in Nat \ {0} : z = P * Fr
  OBVIOUS
<1>4. KernelOps(c) = 1 .. z
  BY <1>1, <1>2, <1>3 DEF KernelOps
<1>5. IsFiniteSet(1 .. z)
  BY FS_Interval
<1>6. ASSUME NEW p \in 1 .. P, NEW f \in 1 .. Fr PROVE WithFraction(c, p, f) \in KernelOps(c)
  <2>1. (p - 1) * Fr <= (P - 1) * Fr
    BY ProductGrows
  <2>2. (P - 1) * Fr = z - Fr
    BY <1>3
  <2>3. PICK x \in Nat : x = (p - 1) * Fr
    BY ProductIsNat
  <2>4. x + f \in 1 .. z
    BY <2>1, <2>2, <2>3
  <2>5. WithFraction(c, p, f) = x + f
    BY <1>2, <2>3 DEF WithFraction
  <2> QED BY <1>4, <2>4, <2>5
<1>7. ASSUME NEW g \in KernelOps(c)
      PROVE  Point(c, g) \in 1 .. P /\ \E f \in 1 .. Fr : g = WithFraction(c, Point(c, g), f)
  <2>1. PICK m \in Nat : m = g - 1 /\ m < z
    BY <1>4
  <2>2. PICK q \in Nat : q = m \div Fr
    BY DividedUp
  <2>3. PICK r \in 0 .. Fr - 1 : r = m % Fr
    BY DividedUp
  <2>4. m = q * Fr + r
    BY <2>2, <2>3, DividedUp
  <2>5. q < P
    <3>1. SUFFICES ASSUME P <= q PROVE FALSE
      OBVIOUS
    <3>2. P * Fr <= q * Fr
      BY <3>1, ProductGrows
    <3>3. PICK x \in Nat : x = q * Fr
      BY ProductIsNat
    <3> QED BY <1>3, <2>1, <2>4, <3>2, <3>3
  <2>6. Point(c, g) = q + 1
    BY <1>2, <2>1, <2>2 DEF Point
  <2>7. g = WithFraction(c, q + 1, r + 1)
    <3>1. (q + 1) - 1 = q
      OBVIOUS
    <3>2. WithFraction(c, q + 1, r + 1) = q * Fr + (r + 1)
      BY <1>2, <3>1 DEF WithFraction
    <3>3. PICK x \in Nat : x = q * Fr
      BY ProductIsNat
    <3> QED BY <1>4, <2>1, <2>4, <3>2, <3>3
  <2>8. r + 1 \in 1 .. Fr /\ q + 1 \in 1 .. P
    BY <2>5
  <2> QED BY <2>6, <2>7, <2>8
<1> QED BY <1>1, <1>2, <1>3, <1>4, <1>5, <1>6, <1>7

\* The operations are a group that acts on the vectors of each slot.
LEMMA OperationsAre ==
    ASSUME NEW c \in Couples
    PROVE  /\ \A s \in SlotsOf(c), g \in KernelOps(c) : \A x \in SlotVectors(c, s) :
                  Moves[c][s][g][x] \in SlotVectors(c, s)
           /\ \A s \in SlotsOf(c) : \A x \in SlotVectors(c, s) : Moves[c][s][1][x] = x
           /\ \A g, h \in KernelOps(c) : \E k \in KernelOps(c) : ActsAs(c, k, g, h)
           /\ \A g \in KernelOps(c) : \E h \in KernelOps(c) : ActsAs(c, 1, g, h) /\ ActsAs(c, 1, h, g)
<1>1. AreOperations(c)
  BY CouplesAssumption
<1>2. ASSUME NEW s \in SlotsOf(c), NEW g \in KernelOps(c), NEW x \in SlotVectors(c, s)
      PROVE  Moves[c][s][g][x] \in SlotVectors(c, s)
  <2>1. Moves[c][s][g] \in [SlotVectors(c, s) -> SlotVectors(c, s)]
    BY <1>1 DEF AreOperations
  <2> QED BY <2>1
<1>3. ASSUME NEW s \in SlotsOf(c), NEW x \in SlotVectors(c, s) PROVE Moves[c][s][1][x] = x
  BY <1>1 DEF AreOperations
<1>4. ASSUME NEW g \in KernelOps(c), NEW h \in KernelOps(c) PROVE \E k \in KernelOps(c) : ActsAs(c, k, g, h)
  <2>1. PICK f \in 1 .. Fractions[c] :
            ActsAs(c, WithFraction(c, PointProduct[c][Point(c, g)][Point(c, h)], f), g, h)
    BY <1>1 DEF AreOperations
  <2>2. Point(c, g) \in 1 .. PointOps[c] /\ Point(c, h) \in 1 .. PointOps[c]
    BY KernelOpsAre
  <2>3. PointProduct[c][Point(c, g)][Point(c, h)] \in 1 .. PointOps[c]
    BY <1>1, <2>2 DEF AreOperations
  <2>4. WithFraction(c, PointProduct[c][Point(c, g)][Point(c, h)], f) \in KernelOps(c)
    BY <2>3, KernelOpsAre
  <2> QED BY <2>1, <2>4
<1>5. ASSUME NEW g \in KernelOps(c)
      PROVE \E h \in KernelOps(c) : ActsAs(c, 1, g, h) /\ ActsAs(c, 1, h, g)
  BY <1>1 DEF AreOperations
<1> QED BY <1>2, <1>3, <1>4, <1>5

\* Where an operation moves a vector; the identity leaves it where it is.
LEMMA MoveIs ==
    ASSUME NEW c \in Couples, NEW s \in SlotsOf(c), NEW g \in KernelOps(c), NEW x \in SlotVectors(c, s)
    PROVE  Moves[c][s][g][x] \in SlotVectors(c, s) /\ Moves[c][s][1][x] = x
BY OperationsAre

\* A subspace holds all that its operations leave free.
IsSubspace(c, s, U) == U \subseteq SlotVectors(c, s) /\ FixedBy(c, s, Fixing(c, s, U)) = U

\* Where operations carry a set of vectors.
LEMMA ImageIs ==
    ASSUME NEW c \in Couples, NEW s \in SlotsOf(c), NEW U \in SUBSET SlotVectors(c, s)
    PROVE  /\ \A g \in KernelOps(c) : Image(c, s, g, U) \in SUBSET SlotVectors(c, s)
           /\ Image(c, s, 1, U) = U
           /\ \A g, h, k : ActsAs(c, g, h, k) => Image(c, s, g, U) = Image(c, s, h, Image(c, s, k, U))
<1>1. ASSUME NEW g \in KernelOps(c) PROVE Image(c, s, g, U) \in SUBSET SlotVectors(c, s)
  <2>1. \A x \in SlotVectors(c, s) : Moves[c][s][g][x] \in SlotVectors(c, s)
    BY OperationsAre
  <2> QED BY <2>1 DEF Image
<1>2. Image(c, s, 1, U) = U
  BY OperationsAre DEF Image
<1>3. ASSUME NEW g, NEW h, NEW k, ActsAs(c, g, h, k)
      PROVE  Image(c, s, g, U) = Image(c, s, h, Image(c, s, k, U))
  <2>1. \A x \in U : Moves[c][s][g][x] = Moves[c][s][h][Moves[c][s][k][x]]
    BY <1>3 DEF ActsAs
  <2> QED BY <2>1 DEF Image
<1> QED BY <1>1, <1>2, <1>3

\* What one operation carries to a set, its inverse carries back.
LEMMA ImageBack ==
    ASSUME NEW c \in Couples, NEW g \in KernelOps(c)
    PROVE  \E h \in KernelOps(c) : \A s \in SlotsOf(c) : \A U \in SUBSET SlotVectors(c, s) :
               /\ Image(c, s, h, Image(c, s, g, U)) = U
               /\ Image(c, s, g, Image(c, s, h, U)) = U
<1>1. PICK h \in KernelOps(c) : ActsAs(c, 1, g, h) /\ ActsAs(c, 1, h, g)
  BY OperationsAre
<1>2. ASSUME NEW s \in SlotsOf(c), NEW U \in SUBSET SlotVectors(c, s)
      PROVE  /\ Image(c, s, h, Image(c, s, g, U)) = U
             /\ Image(c, s, g, Image(c, s, h, U)) = U
  BY <1>1, ImageIs
<1> QED BY <1>2

\* Two operations one after the other are one.
LEMMA ImageTwice ==
    ASSUME NEW c \in Couples, NEW g \in KernelOps(c), NEW h \in KernelOps(c)
    PROVE  \E k \in KernelOps(c) : \A s \in SlotsOf(c) : \A U \in SUBSET SlotVectors(c, s) :
               Image(c, s, k, U) = Image(c, s, g, Image(c, s, h, U))
<1>1. PICK k \in KernelOps(c) : ActsAs(c, k, g, h)
  BY OperationsAre
<1>2. ASSUME NEW s \in SlotsOf(c), NEW U \in SUBSET SlotVectors(c, s)
      PROVE  Image(c, s, k, U) = Image(c, s, g, Image(c, s, h, U))
  BY <1>1, ImageIs
<1> QED BY <1>2

\* An operation carries subspaces to subspaces.
LEMMA SubspaceCarried ==
    ASSUME NEW c \in Couples, NEW s \in SlotsOf(c), NEW U, IsSubspace(c, s, U), NEW g \in KernelOps(c)
    PROVE  IsSubspace(c, s, Image(c, s, g, U))
<1>1. U \in SUBSET SlotVectors(c, s)
  BY DEF IsSubspace
<1>2. PICK W : W = Image(c, s, g, U)
  OBVIOUS
<1>3. W \in SUBSET SlotVectors(c, s)
  BY <1>1, <1>2, ImageIs
<1>4. PICK h \in KernelOps(c) : ActsAs(c, 1, g, h) /\ ActsAs(c, 1, h, g)
  BY OperationsAre
<1> DEFINE V == SlotVectors(c, s)
           M == Moves[c][s]
<1>5. /\ \A k \in KernelOps(c) : \A x \in V : M[k][x] \in V
      /\ \A x \in V : M[g][M[h][x]] = x /\ M[h][M[g][x]] = x
  <2>1. \A k \in KernelOps(c) : \A x \in V : M[k][x] \in V
    BY OperationsAre
  <2>2. \A x \in V : M[1][x] = x
    BY OperationsAre
  <2>3. \A x \in V : M[1][x] = M[g][M[h][x]] /\ M[1][x] = M[h][M[g][x]]
    BY <1>4 DEF ActsAs
  <2> QED BY <2>1, <2>2, <2>3
<1>6. W \subseteq FixedBy(c, s, Fixing(c, s, W))
  BY <1>3 DEF FixedBy, Fixing
<1>7. ASSUME NEW x \in FixedBy(c, s, Fixing(c, s, W)) PROVE x \in W
  <2>1. x \in V /\ \A k \in Fixing(c, s, W) : M[k][x] = x
    BY DEF FixedBy
  <2>2. PICK y \in V : y = M[h][x]
    BY <1>5, <2>1
  <2>3. ASSUME NEW k \in Fixing(c, s, U) PROVE M[k][y] = y
    <3>1. k \in KernelOps(c) /\ \A u \in U : M[k][u] = u
      BY DEF Fixing
    <3>2. PICK j \in KernelOps(c) : ActsAs(c, j, k, h)
      BY <3>1, OperationsAre
    <3>3. PICK m \in KernelOps(c) : ActsAs(c, m, g, j)
      BY OperationsAre
    <3>4. \A v \in V : M[m][v] = M[g][M[k][M[h][v]]]
      BY <3>2, <3>3 DEF ActsAs
    <3>5. \A w \in W : M[m][w] = w
      <4> SUFFICES ASSUME NEW w \in W PROVE M[m][w] = w
        OBVIOUS
      <4>1. PICK u \in U : w = M[g][u]
        BY <1>2 DEF Image
      <4>2. M[h][w] = u /\ w \in V
        BY <1>1, <1>3, <1>5, <4>1
      <4> QED BY <3>1, <3>4, <4>1, <4>2
    <3>6. m \in Fixing(c, s, W)
      BY <3>5 DEF Fixing
    <3>7. M[g][M[k][y]] = x
      BY <2>1, <2>2, <3>4, <3>6
    <3>8. M[k][y] \in V
      BY <1>5, <3>1
    <3>9. M[h][M[g][M[k][y]]] = M[k][y]
      BY <1>5, <3>8
    <3> QED BY <2>2, <3>7, <3>9
  <2>4. y \in FixedBy(c, s, Fixing(c, s, U))
    BY <2>3 DEF FixedBy
  <2>5. y \in U
    BY <2>4 DEF IsSubspace
  <2>6. x = M[g][y]
    BY <1>5, <2>1, <2>2
  <2> QED BY <1>2, <2>5, <2>6 DEF Image
<1> QED BY <1>2, <1>3, <1>6, <1>7 DEF IsSubspace

\* The first of each value.
LEMMA FirstsAre ==
    ASSUME NEW values, NEW keys \in SUBSET Nat
    PROVE  /\ Firsts(values, keys) \subseteq keys
           /\ \A k \in keys : \E m \in Firsts(values, keys) : values[m] = values[k]
           /\ \A m, n \in Firsts(values, keys) : values[m] = values[n] => m = n
<1>1. Firsts(values, keys) \subseteq keys
  BY DEF Firsts
<1>2. ASSUME NEW k \in keys PROVE \E m \in Firsts(values, keys) : values[m] = values[k]
  <2>1. PICK T : T = {m \in keys : values[m] = values[k]}
    OBVIOUS
  <2>2. T \subseteq Nat /\ T # {}
    BY <2>1
  <2>3. PICK m \in T : \A y \in T : m <= y
    BY <2>2, SmallestNat
  <2>4. m \in keys /\ values[m] = values[k]
    BY <2>1
  <2>5. \A n \in keys : n < m => values[n] # values[m]
    BY <2>1, <2>3, <2>4
  <2> QED BY <2>4, <2>5 DEF Firsts
<1>3. ASSUME NEW m \in Firsts(values, keys), NEW n \in Firsts(values, keys), values[m] = values[n] PROVE m = n
  <2>1. m \in Nat /\ n \in Nat
    BY <1>1
  <2>2. ~(m < n) /\ ~(n < m)
    BY <1>3 DEF Firsts
  <2> QED BY <2>1, <2>2
<1> QED BY <1>1, <1>2, <1>3

-----------------------------------------------------------------------------
(* The coupled OPDs: the domains of a row *)

\* A sequence without repeats that holds the members of a set.
ListsOf(D, R) ==
    /\ D = [d \in 1 .. Len(D) |-> D[d]] /\ Len(D) \in Nat /\ DOMAIN D = 1 .. Len(D)
    /\ \A d \in 1 .. Len(D) : D[d] \in R
    /\ \A V \in R : \E d \in 1 .. Len(D) : D[d] = V
    /\ \A d, e \in 1 .. Len(D) : D[d] = D[e] => d = e

\* What the first N of some operations carry a subspace to.
ImagesUnder(c, s, U, ops, N) == {Image(c, s, ops[n], U) : n \in 1 .. N}

\* The domains that some operations carry a subspace to are their images,
\* each once.
LEMMA OrbitUnderIs ==
    ASSUME NEW c \in Couples, NEW s \in SlotsOf(c), NEW U, IsSubspace(c, s, U),
           NEW ops, NEW N \in Nat, DOMAIN ops = 1 .. N, \A n \in 1 .. N : ops[n] \in KernelOps(c)
    PROVE  /\ OrbitUnder(c, s, U, ops).reached = ImagesUnder(c, s, U, ops, N)
           /\ ListsOf(OrbitUnder(c, s, U, ops).domains, ImagesUnder(c, s, U, ops, N))
<1>1. PICK images : images = [n \in 1 .. N |-> Image(c, s, ops[n], U)]
  OBVIOUS
<1>2. Listing(images) = images /\ DOMAIN images = 1 .. N /\ Len(images) = N
  <2>1. images = [n \in 1 .. N |-> images[n]] /\ DOMAIN images = 1 .. N /\ Len(images) = N
    BY <1>1
  <2> QED BY <2>1, ListingIs
<1>3. PICK new : new = Firsts(images, 1 .. N)
  OBVIOUS
<1>4. 1 .. N \in SUBSET Nat
  OBVIOUS
<1>5. /\ new \subseteq 1 .. N
      /\ \A k \in 1 .. N : \E m \in new : images[m] = images[k]
      /\ \A m, n \in new : images[m] = images[n] => m = n
  BY <1>3, <1>4, FirstsAre
<1>6. PICK groups : groups = [n \in new |-> Fixing(c, s, images[n])]
  OBVIOUS
<1>7. PICK firsts : firsts = Firsts(groups, new)
  OBVIOUS
<1>8. new \in SUBSET Nat
  BY <1>5
<1>9. /\ firsts \subseteq new
      /\ \A k \in new : \E m \in firsts : groups[m] = groups[k]
      /\ \A m, n \in firsts : groups[m] = groups[n] => m = n
  BY <1>7, <1>8, FirstsAre
<1>10. PICK kept : kept = InOrder(N, firsts)
  OBVIOUS
<1>11. firsts \subseteq 1 .. N
  BY <1>5, <1>9
<1>12. /\ kept \in Seq(firsts)
       /\ \A x \in firsts : \E i \in DOMAIN kept : kept[i] = x
       /\ \A i, j \in DOMAIN kept : kept[i] = kept[j] => i = j
  <2>1. InOrder(N, firsts) \in Seq(firsts)
    BY <1>11, InOrderLists
  <2>2. \A x \in firsts : \E i \in DOMAIN InOrder(N, firsts) : InOrder(N, firsts)[i] = x
    BY <1>11, InOrderLists
  <2>3. \A i, j \in DOMAIN InOrder(N, firsts) : InOrder(N, firsts)[i] = InOrder(N, firsts)[j] => i = j
    BY <1>11, InOrderLists
  <2> QED BY <1>10, <2>1, <2>2, <2>3
<1>13. PICK D : D = [d \in DOMAIN kept |-> images[kept[d]]]
  OBVIOUS
<1>14. PICK z \in Nat : z = Len(kept) /\ DOMAIN kept = 1 .. z
  BY <1>12
<1>15. /\ D = [d \in 1 .. z |-> images[kept[d]]]
       /\ DOMAIN D = 1 .. z /\ Len(D) = z
  BY <1>13, <1>14
<1>16. Listing(D) = D
  <2>1. D = [d \in 1 .. z |-> D[d]]
    BY <1>15
  <2> QED BY <1>15, <2>1, ListingIs
<1>17. PICK R : R = {images[n] : n \in new}
  OBVIOUS
<1>18. OrbitUnder(c, s, U, ops) = [reached |-> R, domains |-> D]
  <2>1. PICK im : im = [n \in DOMAIN ops |-> Image(c, s, ops[n], U)]
    OBVIOUS
  <2>2. im = images
    BY <1>1, <2>1
  <2>3. OrbitUnder(c, s, U, ops) = OrbitPass(c, s, Listing(im), Firsts(Listing(im), DOMAIN ops))
    BY <2>1 DEF OrbitUnder
  <2>4. OrbitUnder(c, s, U, ops) = OrbitPass(c, s, images, new)
    BY <1>2, <1>3, <2>2, <2>3
  <2>5. OrbitPass(c, s, images, new) = [reached |-> R, domains |-> Listing(D)]
    BY <1>2, <1>6, <1>7, <1>10, <1>13, <1>17 DEF OrbitPass
  <2> QED BY <1>16, <2>4, <2>5
<1>19. ASSUME NEW n \in 1 .. N PROVE IsSubspace(c, s, images[n]) /\ images[n] = Image(c, s, ops[n], U)
  BY <1>1, SubspaceCarried
<1>20. R = ImagesUnder(c, s, U, ops, N)
  <2>1. R = {images[n] : n \in 1 .. N}
    BY <1>5, <1>17
  <2> QED BY <1>19, <2>1 DEF ImagesUnder
<1>21. ASSUME NEW m \in 1 .. N, NEW n \in 1 .. N, m \in new, n \in new, groups[m] = groups[n]
       PROVE  images[m] = images[n]
  BY <1>6, <1>19, <1>21 DEF IsSubspace
<1>22. \A d \in 1 .. z : kept[d] \in firsts /\ kept[d] \in new /\ kept[d] \in 1 .. N
  <2> SUFFICES ASSUME NEW d \in 1 .. z PROVE kept[d] \in firsts
    BY <1>9, <1>11
  <2> QED BY <1>12, <1>14
<1>23. \A d \in 1 .. z : D[d] \in R
  BY <1>15, <1>17, <1>22
<1>24. ASSUME NEW V \in R PROVE \E d \in 1 .. z : D[d] = V
  <2>1. PICK n \in new : V = images[n]
    BY <1>17
  <2>2. PICK m \in firsts : groups[m] = groups[n]
    BY <1>9
  <2>3. images[m] = images[n]
    BY <1>5, <1>9, <1>21, <2>2
  <2>4. PICK d \in 1 .. z : kept[d] = m
    BY <1>12, <1>14
  <2> QED BY <1>15, <2>1, <2>3, <2>4
<1>25. ASSUME NEW d \in 1 .. z, NEW e \in 1 .. z, D[d] = D[e] PROVE d = e
  <2>1. images[kept[d]] = images[kept[e]]
    BY <1>15, <1>25
  <2>2. kept[d] = kept[e]
    BY <1>5, <1>22, <2>1
  <2> QED BY <1>12, <1>14, <2>2
<1>26. ListsOf(D, R)
  <2>1. D = [d \in 1 .. Len(D) |-> D[d]]
    BY <1>15
  <2> QED BY <1>15, <1>23, <1>24, <1>25, <2>1 DEF ListsOf
<1> QED BY <1>18, <1>20, <1>26

\* The coset representatives are point operations, and there is one.
LEMMA CosetsAre ==
    ASSUME NEW c \in Couples, NEW points
    PROVE  /\ CosetScan(c, points) \in Seq(1 .. PointOps[c])
           /\ Len(CosetScan(c, points)) \in Nat \ {0}
<1>1. PICK P \in Nat \ {0} : P = PointOps[c]
  BY KernelOpsAre
<1>17. PICK Q : Q = UNION {{PointProduct[c][p][q] : q \in points} : p \in 1 .. P}
  OBVIOUS
<1> DEFINE b == [chosen |-> <<>>, marked |-> {}]
           Step(p, x) == IF p \in x.marked THEN x
                         ELSE [chosen |-> Append(x.chosen, p),
                               marked |-> x.marked \cup {PointProduct[c][p][q] : q \in points}]
           X == [chosen : Seq(1 .. P), marked : SUBSET Q]
<1>2. ASSUME NEW p \in 1 .. P, NEW x \in X PROVE Step(p, x) \in X
  <2>1. Append(x.chosen, p) \in Seq(1 .. P)
    OBVIOUS
  <2>2. x.marked \cup {PointProduct[c][p][q] : q \in points}
            \in SUBSET Q
    BY <1>17
  <2> QED BY <2>1, <2>2
<1>3. b \in X
  OBVIOUS
<1>4. PICK g : g = [p \in 1 .. P |-> [x \in X |-> Step(p, x)]]
  OBVIOUS
<1>5. \A p \in 1 .. P, x \in X : g[p][x] = Step(p, x)
  <2> HIDE DEF X, Step
  <2> QED BY <1>4
<1>6. \A p \in 1 .. P, x \in X : g[p][x] \in X
  <2> HIDE DEF X, Step
  <2> QED BY <1>2, <1>5
<1>7. PICK u : Iterates(u, P, b, g) /\ \A n \in 0 .. P : u[n] \in X
  <2> HIDE DEF X, b
  <2> QED BY <1>3, <1>6, Iteration
<1>8. u = [p \in 0 .. P |-> IF p = 0 THEN b ELSE Step(p, u[p - 1])]
  <2>1. u = [p \in 0 .. P |-> IF p = 0 THEN b ELSE g[p][u[p - 1]]]
    BY <1>7 DEF Iterates
  <2>2. \A p \in 0 .. P : p # 0 => p \in 1 .. P /\ p - 1 \in 0 .. P
    OBVIOUS
  <2>3. \A p \in 0 .. P : p # 0 => g[p][u[p - 1]] = Step(p, u[p - 1])
    <3> HIDE DEF X, Step
    <3> QED BY <1>5, <1>7, <2>2
  <2> HIDE DEF Step, b
  <2> QED BY <2>1, <2>3
<1>9. PICK scan : scan = CHOOSE o : o = [p \in 0 .. P |-> IF p = 0 THEN b ELSE Step(p, o[p - 1])]
  OBVIOUS
<1>10. scan = [p \in 0 .. P |-> IF p = 0 THEN b ELSE Step(p, scan[p - 1])]
  <2> HIDE DEF Step, b
  <2> QED BY <1>8, <1>9
<1>11. CosetScan(c, points) = scan[P].chosen
  BY <1>1, <1>9 DEF CosetScan
<1> DEFINE S == {n \in 0 .. P : scan[n] \in X /\ (n # 0 => Len(scan[n].chosen) # 0)
                                /\ (n = 0 => scan[n].marked = {})}
<1>12. 0 \in S
  <2>1. scan[0] = b
    <3>1. 0 \in 0 .. P
      OBVIOUS
    <3> HIDE DEF b, Step
    <3> QED BY <1>10, <3>1
  <2>2. b.marked = {}
    OBVIOUS
  <2> HIDE DEF b, X
  <2> QED BY <1>3, <2>1, <2>2
<1>13. ASSUME NEW n \in 1 .. P, n - 1 \in S PROVE n \in S
  <2>1. PICK x \in X : x = scan[n - 1]
    BY <1>13
  <2>2. scan[n] = Step(n, x)
    <3>1. n \in 0 .. P /\ n # 0
      OBVIOUS
    <3> HIDE DEF Step, b
    <3> QED BY <1>10, <2>1, <3>1
  <2>3. Step(n, x) \in X
    BY <1>2
  <2>4. Len(Step(n, x).chosen) # 0
    <3>1. CASE n \in x.marked
      <4>1. Step(n, x) = x
        BY <3>1
      <4>2. n - 1 # 0
        BY <1>13, <2>1, <3>1
      <4>3. Len(x.chosen) # 0
        BY <1>13, <2>1, <4>2
      <4> QED BY <4>1, <4>3
    <3>2. CASE n \notin x.marked
      <4>1. PICK o \in Seq(1 .. P) : o = x.chosen
        OBVIOUS
      <4>2. Len(Append(o, n)) = Len(o) + 1 /\ Len(o) \in Nat
        OBVIOUS
      <4>3. Step(n, x).chosen = Append(o, n)
        BY <3>2, <4>1
      <4> QED BY <4>2, <4>3
    <3> QED BY <3>1, <3>2
  <2> HIDE DEF Step, X
  <2> QED BY <2>2, <2>3, <2>4
<1>14. P \in S
  <2>1. 0 .. P \subseteq S
    <3> HIDE DEF S
    <3> QED BY <1>12, <1>13, UpTo
  <2>2. P \in 0 .. P
    OBVIOUS
  <2> HIDE DEF S
  <2> QED BY <2>1, <2>2
<1>15. PICK o \in Seq(1 .. P) : o = scan[P].chosen /\ Len(o) # 0
  BY <1>14
<1> QED BY <1>1, <1>11, <1>15

\* The operations of the numbered pass are operations of the parent, and there
\* is one.
LEMMA DomainOpsAre ==
    ASSUME NEW c \in Couples, NEW s \in SlotsOf(c), NEW U
    PROVE  \E N \in Nat \ {0} : /\ DOMAIN DomainOps(c, s, U) = 1 .. N
                                /\ \A i \in 1 .. N : DomainOps(c, s, U)[i] \in KernelOps(c)
<1>1. PICK cosets : cosets = CosetScan(c, {Point(c, g) : g \in Fixing(c, s, U)})
  OBVIOUS
<1>2. cosets \in Seq(1 .. PointOps[c]) /\ Len(cosets) \in Nat \ {0}
  BY <1>1, CosetsAre
<1>3. PICK n \in Nat \ {0} : n = Len(cosets)
  BY <1>2
<1>4. PICK Fr \in Nat \ {0} : Fr = Fractions[c]
  BY KernelOpsAre
<1>5. PICK N \in Nat \ {0} : N = n * Fr
  OBVIOUS
<1>6. DomainOps(c, s, U) =
          [i \in 1 .. N |-> WithFraction(c, cosets[((i - 1) % n) + 1], ((i - 1) \div n) + 1)]
  BY <1>1, <1>3, <1>4, <1>5 DEF DomainOps
<1>7. ASSUME NEW i \in 1 .. N PROVE DomainOps(c, s, U)[i] \in KernelOps(c)
  <2>1. PICK m \in Nat : m = i - 1 /\ m < N
    OBVIOUS
  <2>2. PICK q \in Nat : q = m \div n
    BY DividedUp
  <2>3. PICK r \in 0 .. n - 1 : r = m % n
    BY DividedUp
  <2>4. m = q * n + r
    BY <2>2, <2>3, DividedUp
  <2>5. q < Fr
    <3>1. SUFFICES ASSUME Fr <= q PROVE FALSE
      OBVIOUS
    <3>2. Fr * n <= q * n
      BY <3>1, ProductGrows
    <3>3. PICK x \in Nat : x = q * n
      BY ProductIsNat
    <3>4. Fr * n = N
      BY <1>5
    <3> QED BY <2>1, <2>4, <3>2, <3>3, <3>4
  <2>6. r + 1 \in 1 .. n /\ q + 1 \in 1 .. Fr
    BY <2>5
  <2>7. cosets[r + 1] \in 1 .. PointOps[c]
    <3>1. PICK Q : Q = 1 .. PointOps[c]
      OBVIOUS
    <3>2. cosets \in Seq(Q)
      BY <1>2, <3>1
    <3>3. cosets[r + 1] \in Q
      BY <1>3, <2>6, <3>2
    <3> QED BY <3>1, <3>3
  <2>8. WithFraction(c, cosets[r + 1], q + 1) \in KernelOps(c)
    BY <1>4, <2>6, <2>7, KernelOpsAre
  <2> QED BY <1>6, <2>1, <2>2, <2>3, <2>8
<1>8. DOMAIN DomainOps(c, s, U) = 1 .. N
  BY <1>6
<1> QED BY <1>7, <1>8

\* All that the operations carry a subspace to.
ImagesOf(c, s, U) == {Image(c, s, g, U) : g \in KernelOps(c)}

\* An operation is two generators, one after the other.
LEMMA TwoGenerators ==
    ASSUME NEW c \in Couples, NEW g \in KernelOps(c)
    PROVE  \E a, b \in Generators(c) : /\ a \in KernelOps(c) /\ b \in KernelOps(c) /\ ActsAs(c, g, a, b)
                                       /\ \A s \in SlotsOf(c) : \A U \in SUBSET SlotVectors(c, s) :
                                              Image(c, s, g, U) = Image(c, s, a, Image(c, s, b, U))
<1>1. PICK f \in 1 .. Fractions[c] : g = WithFraction(c, Point(c, g), f)
  BY KernelOpsAre
<1>2. PICK p \in 1 .. PointOps[c] : p = Point(c, g)
  BY KernelOpsAre
<1>3. 1 \in 1 .. PointOps[c] /\ 1 \in 1 .. Fractions[c]
  <2>1. PointOps[c] \in Nat \ {0} /\ Fractions[c] \in Nat \ {0}
    BY KernelOpsAre
  <2> QED BY <2>1
<1>4. PICK a : a = WithFraction(c, p, 1)
  OBVIOUS
<1>5. PICK b : b = WithFraction(c, 1, f)
  OBVIOUS
<1>6. a \in KernelOps(c) /\ b \in KernelOps(c)
  BY <1>3, <1>4, <1>5, KernelOpsAre
<1>7. a \in Generators(c) /\ b \in Generators(c)
  BY <1>4, <1>5 DEF Generators
<1>8. ActsAs(c, g, a, b)
  <2>1. ActsAs(c, WithFraction(c, p, f), WithFraction(c, p, 1), WithFraction(c, 1, f))
    BY CouplesAssumption DEF AreOperations
  <2> QED BY <1>1, <1>2, <1>4, <1>5, <2>1
<1>9. ASSUME NEW s \in SlotsOf(c), NEW U \in SUBSET SlotVectors(c, s)
      PROVE  Image(c, s, g, U) = Image(c, s, a, Image(c, s, b, U))
  BY <1>8, ImageIs
<1> QED BY <1>6, <1>7, <1>8, <1>9

\* The generators are operations.
LEMMA GeneratorsAre ==
    ASSUME NEW c \in Couples
    PROVE  Generators(c) \subseteq KernelOps(c)
<1>1. 1 \in 1 .. PointOps[c] /\ 1 \in 1 .. Fractions[c]
  <2>1. PointOps[c] \in Nat \ {0} /\ Fractions[c] \in Nat \ {0}
    BY KernelOpsAre
  <2> QED BY <2>1
<1>2. \A p \in 1 .. PointOps[c] : WithFraction(c, p, 1) \in KernelOps(c)
  BY <1>1, KernelOpsAre
<1>3. \A f \in 1 .. Fractions[c] : WithFraction(c, 1, f) \in KernelOps(c)
  BY <1>1, KernelOpsAre
<1> QED BY <1>2, <1>3 DEF Generators

\* The domains of a row are all that the operations carry it to, each once,
\* whether they were counted by the stored subgroups or not.
LEMMA SlotOrbitIs ==
    ASSUME NEW c \in Couples, NEW s \in SlotsOf(c), NEW U, IsSubspace(c, s, U)
    PROVE  /\ ListsOf(SlotOrbit(c, s, U).domains, ImagesOf(c, s, U))
           /\ Len(SlotOrbit(c, s, U).domains) \in Nat \ {0}
<1>1. PICK N \in Nat \ {0} : /\ DOMAIN DomainOps(c, s, U) = 1 .. N
                             /\ \A i \in 1 .. N : DomainOps(c, s, U)[i] \in KernelOps(c)
  BY DomainOpsAre
<1>2. PICK ops : ops = DomainOps(c, s, U)
  OBVIOUS
<1>3. DOMAIN ops = 1 .. N
  BY <1>1, <1>2
<1>4. \A i \in 1 .. N : ops[i] \in KernelOps(c)
  BY <1>1, <1>2
<1>5. PICK R : R = ImagesUnder(c, s, U, ops, N)
  OBVIOUS
<1>6. PICK numbered : numbered = OrbitUnder(c, s, U, ops)
  OBVIOUS
<1>7. numbered.reached = R /\ ListsOf(numbered.domains, R)
  BY <1>3, <1>4, <1>5, <1>6, OrbitUnderIs
<1>8. PICK own : own = [g \in KernelOps(c) |-> g]
  OBVIOUS
<1>9. ListsOf(OrbitUnder(c, s, U, own).domains, ImagesOf(c, s, U))
  <2>1. PICK M \in Nat : M = PointOps[c] * Fractions[c] /\ KernelOps(c) = 1 .. M
    BY KernelOpsAre
  <2>2. DOMAIN own = 1 .. M
    BY <1>8, <2>1
  <2>3. \A n \in 1 .. M : own[n] \in KernelOps(c)
    BY <1>8, <2>1
  <2>4. ListsOf(OrbitUnder(c, s, U, own).domains, ImagesUnder(c, s, U, own, M))
    BY <2>2, <2>3, OrbitUnderIs
  <2>5. \A n \in 1 .. M : own[n] = n
    BY <1>8, <2>1
  <2>6. ImagesUnder(c, s, U, own, M) = ImagesOf(c, s, U)
    BY <2>1, <2>5 DEF ImagesOf, ImagesUnder
  <2> QED BY <2>4, <2>6
<1>10. ASSUME ~Unmatched(c, s, numbered) PROVE R = ImagesOf(c, s, U)
  <2>1. R \subseteq ImagesOf(c, s, U)
    BY <1>4, <1>5 DEF ImagesOf, ImagesUnder
  <2>2. \A V \in R : V \in SUBSET SlotVectors(c, s)
    <3> SUFFICES ASSUME NEW n \in 1 .. N PROVE Image(c, s, ops[n], U) \in SUBSET SlotVectors(c, s)
      BY <1>5 DEF ImagesUnder
    <3>1. ops[n] \in KernelOps(c) /\ U \in SUBSET SlotVectors(c, s)
      BY <1>4 DEF IsSubspace
    <3> QED BY <3>1, ImageIs
  <2>3. ASSUME NEW V \in R, NEW a \in Generators(c) PROVE Image(c, s, a, V) \in R
    <3>1. PICK D : D = numbered.domains
      OBVIOUS
    <3>2. PICK d \in DOMAIN D : D[d] = V
      BY <1>7, <3>1 DEF ListsOf
    <3> QED BY <1>7, <1>10, <3>1, <3>2 DEF Unmatched
  <2>4. ASSUME NEW g \in KernelOps(c) PROVE Image(c, s, g, U) \in R
    <3>1. 1 \in 1 .. N
      OBVIOUS
    <3>2. PICK h \in KernelOps(c) : h = ops[1]
      BY <1>4, <3>1
    <3>3. PICK V \in R : V = Image(c, s, h, U)
      BY <1>5, <3>1, <3>2 DEF ImagesUnder
    <3>4. U \in SUBSET SlotVectors(c, s)
      BY DEF IsSubspace
    <3>5. PICK i \in KernelOps(c) : Image(c, s, i, V) = U
      BY <3>3, <3>4, ImageBack
    <3>6. PICK k \in KernelOps(c) : Image(c, s, k, V) = Image(c, s, g, Image(c, s, i, V))
      BY <2>2, ImageTwice
    <3>7. PICK a, b \in Generators(c) : Image(c, s, k, V) = Image(c, s, a, Image(c, s, b, V))
      BY <2>2, TwoGenerators
    <3>8. Image(c, s, b, V) \in R
      BY <2>3
    <3>9. Image(c, s, a, Image(c, s, b, V)) \in R
      BY <2>3, <3>8
    <3> QED BY <3>5, <3>6, <3>7, <3>9
  <2>5. ImagesOf(c, s, U) \subseteq R
    BY <2>4 DEF ImagesOf
  <2> QED BY <2>1, <2>5
<1>11. PICK D : D = SlotOrbit(c, s, U).domains
  OBVIOUS
<1>12. ListsOf(D, ImagesOf(c, s, U))
  <2>1. SlotOrbit(c, s, U) = Confirmed(c, s, U, numbered)
    BY <1>2, <1>6 DEF SlotOrbit
  <2>2. CASE InSourceOrder[c][s] /\ ~Unmatched(c, s, numbered)
    <3>1. D = numbered.domains
      BY <1>11, <2>1, <2>2 DEF Confirmed
    <3> QED BY <1>7, <1>10, <2>2, <3>1
  <2>3. CASE ~(InSourceOrder[c][s] /\ ~Unmatched(c, s, numbered))
    <3>1. D = OrbitUnder(c, s, U, own).domains
      BY <1>8, <1>11, <2>1, <2>3 DEF Confirmed
    <3> QED BY <1>9, <3>1
  <2> QED BY <2>2, <2>3
<1>13. Len(D) \in Nat \ {0}
  <2>1. Image(c, s, 1, U) \in ImagesOf(c, s, U)
    BY KernelOpsAre DEF ImagesOf
  <2>2. Len(D) \in Nat /\ \E d \in 1 .. Len(D) : D[d] = Image(c, s, 1, U)
    BY <1>12, <2>1 DEF ListsOf
  <2> QED BY <2>2
<1> QED BY <1>11, <1>12, <1>13

\* An operation permutes the domains of a row.
LEMMA DomainActionsAre ==
    ASSUME NEW c \in Couples, NEW s \in SlotsOf(c), NEW row, IsSubspace(c, s, row),
           NEW D, ListsOf(D, ImagesOf(c, s, row)), NEW g \in KernelOps(c)
    PROVE  /\ DOMAIN DomainActions(c, s, D, g) = 1 .. Len(D)
           /\ \A d \in 1 .. Len(D) : /\ DomainActions(c, s, D, g)[d] \in 1 .. Len(D)
                                     /\ D[DomainActions(c, s, D, g)[d]] = Image(c, s, g, D[d])
<1>1. PICK z \in Nat : z = Len(D) /\ DOMAIN D = 1 .. z
  BY DEF ListsOf
<1>2. /\ \A d \in 1 .. z : D[d] \in ImagesOf(c, s, row)
      /\ \A V \in ImagesOf(c, s, row) : \E d \in 1 .. z : D[d] = V
  BY <1>1 DEF ListsOf
<1>3. ASSUME NEW V \in ImagesOf(c, s, row) PROVE IsSubspace(c, s, V)
  BY SubspaceCarried DEF ImagesOf
<1>4. ASSUME NEW V \in ImagesOf(c, s, row) PROVE Image(c, s, g, V) \in ImagesOf(c, s, row)
  <2>1. PICK h \in KernelOps(c) : V = Image(c, s, h, row)
    BY DEF ImagesOf
  <2>2. row \in SUBSET SlotVectors(c, s)
    BY DEF IsSubspace
  <2>3. PICK k \in KernelOps(c) : Image(c, s, k, row) = Image(c, s, g, Image(c, s, h, row))
    BY <2>2, ImageTwice
  <2> QED BY <2>1, <2>3 DEF ImagesOf
<1>5. PICK f : f = [d \in 1 .. z |-> DomainOf(c, s, D, Image(c, s, g, D[d]))]
  OBVIOUS
<1>6. DomainActions(c, s, D, g) = f
  <2>1. f = [d \in 1 .. z |-> f[d]] /\ DOMAIN f = 1 .. z
    BY <1>5
  <2>2. Listing(f) = f
    BY <2>1, ListingIs
  <2> QED BY <1>1, <1>5, <2>2 DEF DomainActions
<1>7. ASSUME NEW d \in 1 .. z PROVE f[d] \in 1 .. z /\ D[f[d]] = Image(c, s, g, D[d])
  <2>1. PICK V : V = Image(c, s, g, D[d])
    OBVIOUS
  <2>2. V \in ImagesOf(c, s, row)
    BY <1>2, <1>4, <2>1
  <2>3. \E e \in DOMAIN D : D[e] = V \/ Fixing(c, s, D[e]) = Fixing(c, s, V)
    BY <1>1, <1>2, <2>2
  <2>4. PICK e : e = DomainOf(c, s, D, V)
    OBVIOUS
  <2>5. e \in DOMAIN D /\ (D[e] = V \/ Fixing(c, s, D[e]) = Fixing(c, s, V))
    BY <2>3, <2>4 DEF DomainOf
  <2>6. IsSubspace(c, s, D[e]) /\ IsSubspace(c, s, V)
    BY <1>1, <1>2, <1>3, <2>2, <2>5
  <2>7. D[e] = V
    BY <2>5, <2>6 DEF IsSubspace
  <2> QED BY <1>1, <1>5, <2>1, <2>4, <2>5, <2>7
<1>8. DOMAIN f = 1 .. z
  BY <1>5
<1> QED BY <1>1, <1>6, <1>7, <1>8

\* One domain of each slot.
OfDomains(c, orbits, t) == [s \in SlotsOf(c) |-> orbits[s][t[s]]]

\* The slots have rows, and their domains are listed.
AreOrbits(c, rows, orbits) ==
    \A s \in SlotsOf(c) : /\ IsSubspace(c, s, rows[s])
                          /\ ListsOf(orbits[s], ImagesOf(c, s, rows[s])) /\ Len(orbits[s]) \in Nat \ {0}

\* What an operation does to the domains of all slots.
Action(c, orbits, g) == Listing([s \in SlotsOf(c) |-> DomainActions(c, s, orbits[s], g)])

\* The slots are numbered.
LEMMA SlotsAre ==
    ASSUME NEW c \in Couples
    PROVE  \E N \in Nat \ {0} : SlotsOf(c) = 1 .. N /\ N = Len(SlotRows[c])
BY CouplesAssumption DEF AreRows

\* An action carries one tuple of domains to the tuple of their images.
LEMMA ActionCarries ==
    ASSUME NEW c \in Couples, NEW rows, NEW orbits, AreOrbits(c, rows, orbits),
           NEW N \in Nat, SlotsOf(c) = 1 .. N, NEW sizes, \A s \in 1 .. N : sizes[s] = Len(orbits[s]),
           NEW g \in KernelOps(c), NEW t \in Tuples(sizes, N)
    PROVE  /\ Joint(Action(c, orbits, g), t) \in Tuples(sizes, N)
           /\ \A s \in SlotsOf(c) : OfDomains(c, orbits, Joint(Action(c, orbits, g), t))[s]
                                        = Image(c, s, g, OfDomains(c, orbits, t)[s])
<1>1. t \in [1 .. N -> Nat] /\ \A s \in 1 .. N : t[s] \in 1 .. sizes[s]
  BY DEF Tuples
<1>2. PICK a : a = [s \in 1 .. N |-> DomainActions(c, s, orbits[s], g)]
  OBVIOUS
<1>3. Action(c, orbits, g) = a
  <2>1. a = [s \in 1 .. N |-> a[s]] /\ DOMAIN a = 1 .. N
    BY <1>2
  <2>2. Listing(a) = a
    BY <2>1, ListingIs
  <2> QED BY <1>2, <2>2 DEF Action
<1>4. PICK u : u = [s \in 1 .. N |-> a[s][t[s]]]
  OBVIOUS
<1>5. Joint(a, t) = u
  <2>1. u = [s \in 1 .. N |-> u[s]] /\ DOMAIN u = 1 .. N
    BY <1>4
  <2>2. Listing(u) = u
    BY <2>1, ListingIs
  <2>3. DOMAIN t = 1 .. N
    BY <1>1
  <2> QED BY <1>4, <2>2, <2>3 DEF Joint
<1>6. ASSUME NEW s \in 1 .. N
      PROVE  u[s] \in 1 .. sizes[s] /\ u[s] \in Nat /\ orbits[s][u[s]] = Image(c, s, g, orbits[s][t[s]])
  <2>1. IsSubspace(c, s, rows[s]) /\ Len(orbits[s]) \in Nat
    BY DEF AreOrbits
  <2>2. ListsOf(orbits[s], ImagesOf(c, s, rows[s]))
    BY DEF AreOrbits
  <2>3. s \in SlotsOf(c)
    OBVIOUS
  <2>4. PICK d : d = t[s]
    OBVIOUS
  <2>5. d \in 1 .. Len(orbits[s])
    BY <1>1, <2>4
  <2>6. PICK b : b = DomainActions(c, s, orbits[s], g)
    OBVIOUS
  <2>7. b[d] \in 1 .. Len(orbits[s]) /\ orbits[s][b[d]] = Image(c, s, g, orbits[s][d])
    BY <2>1, <2>2, <2>3, <2>5, <2>6, DomainActionsAre
  <2>8. u[s] = b[d]
    BY <1>2, <1>4, <2>4, <2>6
  <2> QED BY <2>1, <2>4, <2>7, <2>8
<1>7. u \in Tuples(sizes, N)
  BY <1>4, <1>6 DEF Tuples
<1>8. \A s \in 1 .. N : OfDomains(c, orbits, u)[s] = Image(c, s, g, OfDomains(c, orbits, t)[s])
  BY <1>6 DEF OfDomains
<1> QED BY <1>3, <1>5, <1>7, <1>8

\* The tuples of a closure are those some operation carries the first to.
LEMMA ClosureOfTuple ==
    ASSUME NEW c \in Couples, NEW rows, NEW orbits, AreOrbits(c, rows, orbits),
           NEW N \in Nat, SlotsOf(c) = 1 .. N, NEW sizes, \A s \in 1 .. N : sizes[s] = Len(orbits[s]),
           NEW all, all = Tuples(sizes, N), IsFiniteSet(all),
           NEW actions, actions = {Action(c, orbits, g) : g \in Generators(c)},
           NEW t \in all, NEW u \in all
    PROVE  u \in Closure(actions, t, all) <=> Equivalent(c, OfDomains(c, orbits, t), OfDomains(c, orbits, u))
<1> DEFINE Dom(x) == OfDomains(c, orbits, x)
<1>1. ASSUME NEW g \in KernelOps(c), NEW x \in all
      PROVE  /\ Joint(Action(c, orbits, g), x) \in all
             /\ \A s \in SlotsOf(c) : Dom(Joint(Action(c, orbits, g), x))[s] = Image(c, s, g, Dom(x)[s])
  BY ActionCarries
<1>2. \A a \in actions, x \in all : Joint(a, x) \in all
  <2> SUFFICES ASSUME NEW g \in Generators(c), NEW x \in all PROVE Joint(Action(c, orbits, g), x) \in all
    OBVIOUS
  <2> QED BY <1>1, GeneratorsAre
<1>3. \A x \in all, s \in SlotsOf(c) : Dom(x)[s] \in SUBSET SlotVectors(c, s)
  <2> SUFFICES ASSUME NEW x \in all, NEW s \in SlotsOf(c) PROVE Dom(x)[s] \in SUBSET SlotVectors(c, s)
    OBVIOUS
  <2>1. x[s] \in 1 .. Len(orbits[s])
    BY DEF Tuples
  <2>2. orbits[s][x[s]] \in ImagesOf(c, s, rows[s])
    BY <2>1 DEF AreOrbits, ListsOf
  <2>3. PICK g \in KernelOps(c) : orbits[s][x[s]] = Image(c, s, g, rows[s])
    BY <2>2 DEF ImagesOf
  <2>4. rows[s] \in SUBSET SlotVectors(c, s)
    BY DEF AreOrbits, IsSubspace
  <2>5. Image(c, s, g, rows[s]) \in SUBSET SlotVectors(c, s)
    BY <2>4, ImageIs
  <2> QED BY <2>3, <2>5 DEF OfDomains
<1>4. PICK K : K = Closure(actions, t, all)
  OBVIOUS
<1>5. /\ K \subseteq all /\ t \in K
      /\ IsStable(actions, K)
      /\ \A C \in SUBSET all : t \in C /\ IsStable(actions, C) => K \subseteq C
  <2>1. Closure(actions, t, all) \subseteq all /\ t \in Closure(actions, t, all)
    BY <1>2, ClosureIs
  <2>2. IsStable(actions, Closure(actions, t, all))
    BY <1>2, ClosureIs
  <2>3. ASSUME NEW C \in SUBSET all, t \in C, IsStable(actions, C) PROVE Closure(actions, t, all) \subseteq C
    BY <1>2, <2>3, ClosureIs
  <2> QED BY <1>4, <2>1, <2>2, <2>3
<1>6. ASSUME u \in K PROVE Equivalent(c, Dom(t), Dom(u))
  <2>1. PICK C : C = {x \in all : Equivalent(c, Dom(t), Dom(x))}
    OBVIOUS
  <2>2. t \in C
    <3>1. \A s \in SlotsOf(c) : Image(c, s, 1, Dom(t)[s]) = Dom(t)[s]
      BY <1>3, ImageIs
    <3> HIDE DEF Dom
    <3> QED BY <2>1, <3>1, KernelOpsAre DEF Equivalent
  <2>3. ASSUME NEW g \in Generators(c), NEW x \in C PROVE Joint(Action(c, orbits, g), x) \in C
    <3>1. g \in KernelOps(c) /\ x \in all
      BY <2>1, GeneratorsAre
    <3>2. PICK h \in KernelOps(c) : \A s \in SlotsOf(c) : Image(c, s, h, Dom(t)[s]) = Dom(x)[s]
      BY <2>1 DEF Equivalent
    <3>3. PICK k \in KernelOps(c) : \A s \in SlotsOf(c) : \A U \in SUBSET SlotVectors(c, s) :
               Image(c, s, k, U) = Image(c, s, g, Image(c, s, h, U))
      BY <3>1, ImageTwice
    <3>4. PICK y \in all : y = Joint(Action(c, orbits, g), x)
      BY <1>1, <3>1
    <3>5. \A s \in SlotsOf(c) : Image(c, s, k, Dom(t)[s]) = Dom(y)[s]
      <4> SUFFICES ASSUME NEW s \in SlotsOf(c) PROVE Image(c, s, k, Dom(t)[s]) = Dom(y)[s]
        OBVIOUS
      <4>1. Dom(y)[s] = Image(c, s, g, Dom(x)[s])
        BY <1>1, <3>1, <3>4
      <4>2. Dom(t)[s] \in SUBSET SlotVectors(c, s)
        BY <1>3
      <4> HIDE DEF Dom
      <4> QED BY <3>2, <3>3, <4>1, <4>2
    <3>6. Equivalent(c, Dom(t), Dom(y))
      BY <3>5 DEF Equivalent
    <3> QED BY <2>1, <3>4, <3>6
  <2>4. IsStable(actions, C)
    BY <2>3 DEF IsStable
  <2>5. C \in SUBSET all
    BY <2>1
  <2>6. K \subseteq C
    BY <1>5, <2>2, <2>4, <2>5
  <2> QED BY <1>6, <2>1, <2>6
<1>7. ASSUME Equivalent(c, Dom(t), Dom(u)) PROVE u \in K
  <2>1. PICK g \in KernelOps(c) : \A s \in SlotsOf(c) : Image(c, s, g, Dom(t)[s]) = Dom(u)[s]
    BY <1>7 DEF Equivalent
  <2>2. PICK a, b \in Generators(c) : /\ a \in KernelOps(c) /\ b \in KernelOps(c) /\ ActsAs(c, g, a, b)
                                      /\ \A s \in SlotsOf(c) : \A U \in SUBSET SlotVectors(c, s) :
                                             Image(c, s, g, U) = Image(c, s, a, Image(c, s, b, U))
    BY TwoGenerators
  <2>3. PICK x : x = Joint(Action(c, orbits, b), t)
    OBVIOUS
  <2>4. x \in K /\ x \in all
    <3>1. Action(c, orbits, b) \in actions
      BY <2>2
    <3> QED BY <1>5, <2>3, <3>1 DEF IsStable
  <2>5. PICK y : y = Joint(Action(c, orbits, a), x)
    OBVIOUS
  <2>6. y \in K /\ y \in all
    <3>1. Action(c, orbits, a) \in actions
      BY <2>2
    <3> QED BY <1>5, <2>4, <2>5, <3>1 DEF IsStable
  <2>7. ASSUME NEW s \in SlotsOf(c) PROVE Dom(y)[s] = Dom(u)[s]
    <3>1. Dom(x)[s] = Image(c, s, b, Dom(t)[s])
      BY <1>1, <2>2, <2>3
    <3>2. Dom(y)[s] = Image(c, s, a, Dom(x)[s])
      BY <1>1, <2>2, <2>4, <2>5
    <3>3. Dom(t)[s] \in SUBSET SlotVectors(c, s)
      BY <1>3
    <3>4. Image(c, s, g, Dom(t)[s]) = Dom(u)[s]
      BY <2>1
    <3> HIDE DEF Dom
    <3> QED BY <2>2, <3>1, <3>2, <3>3, <3>4
  <2>8. y = u
    <3>1. y \in [1 .. N -> Nat] /\ u \in [1 .. N -> Nat]
      BY <2>6 DEF Tuples
    <3>2. ASSUME NEW s \in 1 .. N PROVE y[s] = u[s]
      <4>1. y[s] \in 1 .. Len(orbits[s]) /\ u[s] \in 1 .. Len(orbits[s])
        BY <2>6 DEF Tuples
      <4>2. orbits[s][y[s]] = orbits[s][u[s]]
        BY <2>7 DEF OfDomains
      <4>3. \A d, e \in 1 .. Len(orbits[s]) : orbits[s][d] = orbits[s][e] => d = e
        BY DEF AreOrbits, ListsOf
      <4> QED BY <4>1, <4>2, <4>3
    <3> QED BY <3>1, <3>2
  <2> QED BY <2>6, <2>8
<1> QED BY <1>4, <1>6, <1>7

-----------------------------------------------------------------------------
(* The coupled OPDs: the candidates of a choice of rows *)

\* The candidates of a choice of rows: tuples of their images, one for each
\* class and each class once.
CandidatesTell(c, k, rows, C) ==
    /\ Len(C) \in Nat /\ DOMAIN C = 1 .. Len(C) /\ C = [i \in 1 .. Len(C) |-> C[i]]
    /\ \A i \in 1 .. Len(C) : /\ C[i] = Candidate(c, k, C[i].domains)
                              /\ DOMAIN C[i].domains = SlotsOf(c)
                              /\ \A s \in SlotsOf(c) : C[i].domains[s] \in ImagesOf(c, s, rows[s])
    /\ \A i \in 1 .. Len(C) : \A j \in 1 .. i - 1 : ~Equivalent(c, C[j].domains, C[i].domains)
    /\ \A U : (\A s \in SlotsOf(c) : U[s] \in ImagesOf(c, s, rows[s])) =>
                  \E i \in 1 .. Len(C) : Equivalent(c, C[i].domains, U)

\* The candidates that are made of the domains of a choice of rows.
LEMMA CandidatesOfAre ==
    ASSUME NEW c \in Couples, NEW k, NEW rows, NEW orbits, AreOrbits(c, rows, orbits)
    PROVE  CandidatesTell(c, k, rows, CandidatesOf(c, k, orbits))
<1>1. PICK N \in Nat \ {0} : SlotsOf(c) = 1 .. N /\ N = Len(SlotRows[c])
  BY SlotsAre
<1>2. PICK sizes : sizes = [s \in 1 .. N |-> Len(orbits[s])]
  OBVIOUS
<1>3. \A i \in 1 .. N : sizes[i] \in Nat \ {0}
  BY <1>1, <1>2 DEF AreOrbits
<1>4. Len(sizes) = N
  BY <1>2
<1>5. DOMAIN sizes = 1 .. N
  BY <1>2
<1>6. Listing(sizes) = sizes
  <2>1. sizes = [s \in 1 .. N |-> sizes[s]]
    BY <1>2
  <2> QED BY <1>5, <2>1, ListingIs
<1>7. \A s \in 1 .. N : sizes[s] = Len(orbits[s])
  BY <1>2
<1>8. PICK all : all = Tuples(sizes, N)
  OBVIOUS
<1>9. PICK actions : actions = {Action(c, orbits, g) : g \in Generators(c)}
  OBVIOUS
<1>10. \A a \in actions, t \in all : Joint(a, t) \in all
  <2> SUFFICES ASSUME NEW g \in Generators(c), NEW t \in all PROVE Joint(Action(c, orbits, g), t) \in all
    BY <1>9
  <2>1. g \in KernelOps(c) /\ t \in Tuples(sizes, N) /\ SlotsOf(c) = 1 .. N
    BY <1>1, <1>8, GeneratorsAre
  <2> QED BY <1>7, <1>8, <2>1, ActionCarries
<1>11. IsFiniteSet(all)
  <2>1. PICK M \in Nat : M = Times(sizes)
    BY <1>3, <1>4, <1>5, TuplesAre
  <2>2. \A t \in all : \E n \in 0 .. M - 1 : Tuple(sizes, n) = t
    BY <1>3, <1>4, <1>5, <1>8, <2>1, TuplesAre
  <2>3. \A n \in 0 .. M - 1 : Tuple(sizes, n) \in all
    BY <1>3, <1>4, <1>5, <1>8, <2>1, TuplesAre
  <2>4. PICK f : f = [n \in 0 .. M - 1 |-> Tuple(sizes, n)]
    OBVIOUS
  <2>5. IsFiniteSet(0 .. M - 1)
    BY FS_Interval
  <2>6. IsFiniteSet({f[n] : n \in 0 .. M - 1})
    BY <2>5, FiniteImage
  <2>7. all = {f[n] : n \in 0 .. M - 1}
    BY <2>2, <2>3, <2>4
  <2> QED BY <2>6, <2>7
<1>12. PICK r : /\ r = RelativeTuples(sizes, actions) /\ r \in Seq(all)
                /\ \A t \in all : \E i \in DOMAIN r : t \in Closure(actions, r[i], all)
                /\ \A i \in DOMAIN r : \A j \in 1 .. i - 1 : r[i] \notin Closure(actions, r[j], all)
  BY <1>3, <1>4, <1>5, <1>8, <1>10, RetainedAre
<1>13. ASSUME NEW t \in all, NEW u \in all
       PROVE  u \in Closure(actions, t, all) <=> Equivalent(c, OfDomains(c, orbits, t), OfDomains(c, orbits, u))
  <2>1. SlotsOf(c) = 1 .. N /\ N \in Nat
    BY <1>1
  <2> QED BY <1>7, <1>8, <1>9, <1>11, <2>1, ClosureOfTuple
<1>14. PICK z \in Nat : z = Len(r) /\ DOMAIN r = 1 .. z /\ \A i \in 1 .. z : r[i] \in all
  BY <1>12
<1>15. PICK C : C = [i \in 1 .. z |-> Candidate(c, k, OfDomains(c, orbits, r[i]))]
  OBVIOUS
<1>16. CandidatesOf(c, k, orbits) = C
  <2>1. ASSUME NEW t PROVE Listing([s \in SlotsOf(c) |-> orbits[s][t[s]]]) = OfDomains(c, orbits, t)
    <3>1. PICK f : f = OfDomains(c, orbits, t)
      OBVIOUS
    <3>2. f = [s \in SlotsOf(c) |-> orbits[s][t[s]]]
      BY <3>1 DEF OfDomains
    <3>3. DOMAIN f = 1 .. N /\ f = [s \in 1 .. N |-> f[s]] /\ N \in Nat
      BY <1>1, <3>2
    <3>4. Listing(f) = f
      BY <3>3, ListingIs
    <3> QED BY <3>1, <3>2, <3>4
  <2>8. PICK acts : acts = {Listing([s \in SlotsOf(c) |-> DomainActions(c, s, orbits[s], g)]) : g \in Generators(c)}
    OBVIOUS
  <2>9. acts = actions
    BY <1>9, <2>8 DEF Action
  <2>10. PICK tuples : tuples = RelativeTuples(Listing([s \in SlotsOf(c) |-> Len(orbits[s])]), acts)
    OBVIOUS
  <2>2. PICK D : D = [i \in DOMAIN tuples |->
                         Candidate(c, k, Listing([s \in SlotsOf(c) |-> orbits[s][tuples[i][s]]]))]
    OBVIOUS
  <2>4. [s \in SlotsOf(c) |-> Len(orbits[s])] = sizes
    BY <1>1, <1>2
  <2>11. tuples = r
    BY <1>6, <1>12, <2>4, <2>9, <2>10
  <2>3. D = C
    BY <1>14, <1>15, <2>1, <2>2, <2>11
  <2>5. CandidatesOf(c, k, orbits) = Listing(D)
    BY <2>2, <2>8, <2>10 DEF CandidatesOf
  <2>6. C = [i \in 1 .. z |-> C[i]] /\ DOMAIN C = 1 .. z
    BY <1>15
  <2>7. Listing(C) = C
    BY <2>6, ListingIs
  <2> QED BY <2>3, <2>5, <2>7
<1>17. Len(C) = z /\ DOMAIN C = 1 .. z /\ C = [i \in 1 .. z |-> C[i]]
  BY <1>15
<1>18. ASSUME NEW i \in 1 .. z
       PROVE  /\ C[i].domains = OfDomains(c, orbits, r[i])
              /\ C[i] = Candidate(c, k, C[i].domains) /\ DOMAIN C[i].domains = SlotsOf(c)
              /\ \A s \in SlotsOf(c) : C[i].domains[s] \in ImagesOf(c, s, rows[s])
  <2>1. C[i] = Candidate(c, k, OfDomains(c, orbits, r[i]))
    BY <1>15
  <2>2. C[i].domains = OfDomains(c, orbits, r[i])
    BY <2>1 DEF Candidate
  <2>3. DOMAIN OfDomains(c, orbits, r[i]) = SlotsOf(c)
    BY DEF OfDomains
  <2>4. ASSUME NEW s \in SlotsOf(c) PROVE OfDomains(c, orbits, r[i])[s] \in ImagesOf(c, s, rows[s])
    <3>1. r[i][s] \in 1 .. Len(orbits[s])
      BY <1>1, <1>7, <1>8, <1>14 DEF Tuples
    <3>2. orbits[s][r[i][s]] \in ImagesOf(c, s, rows[s])
      BY <3>1 DEF AreOrbits, ListsOf
    <3> QED BY <3>2 DEF OfDomains
  <2> QED BY <2>1, <2>2, <2>3, <2>4
<1>19. ASSUME NEW i \in 1 .. z, NEW j \in 1 .. i - 1 PROVE ~Equivalent(c, C[j].domains, C[i].domains)
  <2>1. j \in 1 .. z
    OBVIOUS
  <2>2. r[i] \notin Closure(actions, r[j], all)
    BY <1>12, <1>14
  <2>3. ~Equivalent(c, OfDomains(c, orbits, r[j]), OfDomains(c, orbits, r[i]))
    BY <1>13, <1>14, <2>1, <2>2
  <2> QED BY <1>18, <2>1, <2>3
<1>20. ASSUME NEW U, \A s \in SlotsOf(c) : U[s] \in ImagesOf(c, s, rows[s])
       PROVE  \E i \in 1 .. z : Equivalent(c, C[i].domains, U)
  <2>1. PICK t : t = [s \in 1 .. N |-> CHOOSE d \in 1 .. Len(orbits[s]) : orbits[s][d] = U[s]]
    OBVIOUS
  <2>2. ASSUME NEW s \in 1 .. N
        PROVE  t[s] \in 1 .. sizes[s] /\ t[s] \in Nat /\ orbits[s][t[s]] = U[s]
    <3>1. \E d \in 1 .. Len(orbits[s]) : orbits[s][d] = U[s]
      BY <1>1, <1>20 DEF AreOrbits, ListsOf
    <3>2. t[s] \in 1 .. Len(orbits[s]) /\ orbits[s][t[s]] = U[s]
      BY <2>1, <3>1
    <3>3. Len(orbits[s]) \in Nat /\ sizes[s] = Len(orbits[s])
      BY <1>1, <1>7 DEF AreOrbits
    <3> QED BY <3>2, <3>3
  <2>3. t \in all
    BY <1>8, <2>1, <2>2 DEF Tuples
  <2>4. PICK i \in 1 .. z : t \in Closure(actions, r[i], all)
    BY <1>12, <1>14, <2>3
  <2>5. Equivalent(c, OfDomains(c, orbits, r[i]), OfDomains(c, orbits, t))
    BY <1>13, <1>14, <2>3, <2>4
  <2>6. \A s \in SlotsOf(c) : OfDomains(c, orbits, t)[s] = U[s]
    BY <1>1, <2>2 DEF OfDomains
  <2>7. Equivalent(c, OfDomains(c, orbits, r[i]), U)
    BY <2>5, <2>6 DEF Equivalent
  <2> QED BY <1>18, <2>7
<1> QED BY <1>16, <1>17, <1>18, <1>19, <1>20 DEF CandidatesTell

-----------------------------------------------------------------------------
(* Choices of rows *)

\* A choice takes one row of each slot.
LEMMA RowsAre ==
    ASSUME NEW c \in Couples
    PROVE  \E N \in Nat \ {0} :
               /\ SlotsOf(c) = 1 .. N /\ Len(RowCounts(c)) = N /\ DOMAIN RowCounts(c) = 1 .. N
               /\ \A s \in 1 .. N : RowCounts(c)[s] \in Nat \ {0} /\ DOMAIN SlotRows[c][s] = 1 .. RowCounts(c)[s]
<1>1. PICK N \in Nat \ {0} : SlotsOf(c) = 1 .. N /\ N = Len(SlotRows[c])
  BY SlotsAre
<1>2. PICK n : n = RowCounts(c)
  OBVIOUS
<1>3. n = [s \in 1 .. N |-> Len(SlotRows[c][s])]
  BY <1>1, <1>2 DEF RowCounts
<1>4. ASSUME NEW s \in 1 .. N PROVE n[s] \in Nat \ {0} /\ DOMAIN SlotRows[c][s] = 1 .. n[s]
  <2>1. SlotRows[c][s] \in Seq(SUBSET SlotVectors(c, s)) /\ SlotRows[c][s] # <<>>
    BY <1>1, CouplesAssumption DEF AreRows
  <2>2. PICK r \in Seq(SUBSET SlotVectors(c, s)) : r = SlotRows[c][s] /\ r # <<>>
    BY <2>1
  <2>3. Len(r) \in Nat \ {0} /\ DOMAIN r = 1 .. Len(r)
    BY <2>2
  <2> QED BY <1>3, <2>2, <2>3
<1>5. Len(n) = N /\ DOMAIN n = 1 .. N
  BY <1>3
<1> QED BY <1>1, <1>2, <1>4, <1>5

\* The rows that choice k takes, one number for each slot.
ChoiceOf(c, k) == Digits(RowCounts(c), k)

\* The choices are numbered: each number takes rows, two take different ones,
\* and none is left out.
LEMMA ChoicesAre ==
    ASSUME NEW c \in Couples
    PROVE  /\ Combos(c) \in Nat \ {0}
           /\ \A k \in 0 .. Combos(c) - 1 : \A s \in SlotsOf(c) :
                  /\ ChoiceOf(c, k)[s] \in DOMAIN SlotRows[c][s]
                  /\ RowsOf(c, k)[s] = SlotRows[c][s][ChoiceOf(c, k)[s]]
           /\ \A d : (\A s \in SlotsOf(c) : d[s] \in DOMAIN SlotRows[c][s]) =>
                  \E k \in 0 .. Combos(c) - 1 : \A s \in SlotsOf(c) : RowsOf(c, k)[s] = SlotRows[c][s][d[s]]
<1>1. PICK N \in Nat \ {0} :
               /\ SlotsOf(c) = 1 .. N /\ Len(RowCounts(c)) = N /\ DOMAIN RowCounts(c) = 1 .. N
               /\ \A s \in 1 .. N : RowCounts(c)[s] \in Nat \ {0} /\ DOMAIN SlotRows[c][s] = 1 .. RowCounts(c)[s]
  BY RowsAre
<1>2. PICK n : n = RowCounts(c)
  OBVIOUS
<1>3. \A s \in 1 .. N : n[s] \in Nat \ {0}
  BY <1>1, <1>2
<1>4. Len(n) = N
  BY <1>1, <1>2
<1>5. DOMAIN n = 1 .. N
  BY <1>1, <1>2
<1>6. Combos(c) = Times(n)
  BY <1>2 DEF Combos
<1>7. Combos(c) \in Nat \ {0}
  BY <1>3, <1>4, <1>5, <1>6, TuplesAre
<1>8. ASSUME NEW k \in 0 .. Combos(c) - 1
      PROVE  \A s \in SlotsOf(c) : /\ ChoiceOf(c, k)[s] \in DOMAIN SlotRows[c][s]
                                   /\ RowsOf(c, k)[s] = SlotRows[c][s][ChoiceOf(c, k)[s]]
  <2>1. k \in Nat
    BY <1>7
  <2>2. PICK R : LeavesOf(n, N, k, R)
    BY <1>3, <1>4, <1>5, <2>1, DigitsIs
  <2>3. PICK d : d = Digits(n, k) /\ d = ChoiceOf(c, k)
    BY <1>2 DEF ChoiceOf
  <2>4. d = [s \in 1 .. N |-> (R[s - 1] % n[s]) + 1]
    BY <2>2, <2>3 DEF LeavesOf
  <2>5. ASSUME NEW s \in SlotsOf(c) PROVE d[s] \in DOMAIN SlotRows[c][s]
    <3>1. s \in 1 .. N
      BY <1>1
    <3>2. PICK m \in Nat \ {0} : m = n[s]
      BY <1>3, <3>1
    <3>3. s - 1 \in 0 .. N
      BY <3>1
    <3>4. PICK q \in Nat : q = R[s - 1]
      BY <2>2, <3>3 DEF LeavesOf
    <3>5. q % m \in 0 .. m - 1
      BY DividedUp
    <3>6. d[s] = (q % m) + 1
      BY <2>4, <3>1, <3>2, <3>4
    <3>7. d[s] \in 1 .. m
      BY <3>5, <3>6
    <3> QED BY <1>1, <1>2, <3>1, <3>2, <3>7
  <2>6. \A s \in SlotsOf(c) : RowsOf(c, k)[s] = SlotRows[c][s][d[s]]
    BY <1>2, <2>3 DEF RowsOf
  <2> QED BY <2>3, <2>5, <2>6
<1>9. ASSUME NEW d, \A s \in SlotsOf(c) : d[s] \in DOMAIN SlotRows[c][s]
      PROVE  \E k \in 0 .. Combos(c) - 1 : \A s \in SlotsOf(c) : RowsOf(c, k)[s] = SlotRows[c][s][d[s]]
  <2>1. PICK e : e = [s \in 1 .. N |-> d[s]]
    OBVIOUS
  <2>2. e = [s \in 1 .. N |-> e[s]]
    BY <2>1
  <2>3. \A s \in 1 .. N : e[s] \in 1 .. n[s]
    BY <1>1, <1>2, <1>9, <2>1
  <2>4. PICK k \in 0 .. Times(n) - 1 : Digits(n, k) = e
    BY <1>3, <1>4, <1>5, <2>2, <2>3, DigitsReach
  <2>5. \A s \in SlotsOf(c) : RowsOf(c, k)[s] = SlotRows[c][s][d[s]]
    BY <1>1, <1>2, <2>1, <2>4 DEF RowsOf
  <2> QED BY <1>6, <2>4, <2>5
<1> QED BY <1>7, <1>8, <1>9

\* Two choices differ in some slot.
LEMMA ChoicesDiffer ==
    ASSUME NEW c \in Couples, NEW k \in 0 .. Combos(c) - 1, NEW l \in 0 .. Combos(c) - 1,
           \A s \in SlotsOf(c) : ChoiceOf(c, k)[s] = ChoiceOf(c, l)[s]
    PROVE  k = l
<1>1. PICK N \in Nat \ {0} :
               /\ SlotsOf(c) = 1 .. N /\ Len(RowCounts(c)) = N /\ DOMAIN RowCounts(c) = 1 .. N
               /\ \A s \in 1 .. N : RowCounts(c)[s] \in Nat \ {0} /\ DOMAIN SlotRows[c][s] = 1 .. RowCounts(c)[s]
  BY RowsAre
<1>2. PICK n : n = RowCounts(c)
  OBVIOUS
<1>3. \A s \in 1 .. N : n[s] \in Nat \ {0}
  BY <1>1, <1>2
<1>4. Len(n) = N
  BY <1>1, <1>2
<1>5. DOMAIN n = 1 .. N
  BY <1>1, <1>2
<1>6. Combos(c) = Times(n) /\ Combos(c) \in Nat
  BY <1>2, ChoicesAre DEF Combos
<1>7. k \in Nat /\ l \in Nat
  BY <1>6
<1>8. PICK R : LeavesOf(n, N, k, R)
  BY <1>3, <1>4, <1>5, <1>7, DigitsIs
<1>9. PICK Q : LeavesOf(n, N, l, Q)
  BY <1>3, <1>4, <1>5, <1>7, DigitsIs
<1>10. PICK d : d = Digits(n, k)
  OBVIOUS
<1>11. PICK e : e = Digits(n, l)
  OBVIOUS
<1>12. d = [s \in 1 .. N |-> (R[s - 1] % n[s]) + 1]
  BY <1>8, <1>10 DEF LeavesOf
<1>13. e = [s \in 1 .. N |-> (Q[s - 1] % n[s]) + 1]
  BY <1>9, <1>11 DEF LeavesOf
<1>14. \A s \in 1 .. N : d[s] = e[s]
  BY <1>1, <1>2, <1>10, <1>11 DEF ChoiceOf
<1>15. DOMAIN d = 1 .. N /\ DOMAIN e = 1 .. N
  BY <1>12, <1>13
<1>16. d = [s \in 1 .. N |-> d[s]] /\ e = [s \in 1 .. N |-> e[s]]
  BY <1>12, <1>13, <1>15
<1>17. d = e
  BY <1>14, <1>16
<1>18. k \in 0 .. Times(n) - 1 /\ l \in 0 .. Times(n) - 1
  BY <1>6
<1> QED BY <1>3, <1>4, <1>5, <1>10, <1>11, <1>17, <1>18, DigitsTell

\* The rows are subspaces.
LEMMA RowsAreSubspaces ==
    ASSUME NEW c \in Couples, NEW k \in 0 .. Combos(c) - 1, NEW s \in SlotsOf(c)
    PROVE  IsSubspace(c, s, RowsOf(c, k)[s])
<1>1. PICK d \in DOMAIN SlotRows[c][s] : RowsOf(c, k)[s] = SlotRows[c][s][d]
  BY ChoicesAre
<1>2. SlotRows[c][s] \in Seq(SUBSET SlotVectors(c, s))
  BY CouplesAssumption DEF AreRows
<1>3. SlotRows[c][s][d] \in SUBSET SlotVectors(c, s)
  <2>1. PICK Q : Q = SUBSET SlotVectors(c, s)
    OBVIOUS
  <2>2. PICK r \in Seq(Q) : r = SlotRows[c][s]
    BY <1>2, <2>1
  <2>3. r[d] \in Q
    BY <2>2
  <2> QED BY <2>1, <2>2, <2>3
<1>4. FixedBy(c, s, Fixing(c, s, SlotRows[c][s][d])) = SlotRows[c][s][d]
  <2>1. AreRows(c)
    BY CouplesAssumption
  <2> QED BY <2>1 DEF AreRows
<1> QED BY <1>1, <1>3, <1>4 DEF IsSubspace

\* The candidates of choice k.
LEMMA CandidatesAre ==
    ASSUME NEW c \in Couples, NEW k \in 0 .. Combos(c) - 1
    PROVE  CandidatesTell(c, k, RowsOf(c, k), Candidates(c, k))
<1>1. PICK N \in Nat \ {0} : SlotsOf(c) = 1 .. N /\ N = Len(SlotRows[c])
  BY SlotsAre
<1>2. PICK rows : rows = RowsOf(c, k)
  OBVIOUS
<1>3. PICK orbits : orbits = [s \in SlotsOf(c) |-> SlotOrbit(c, s, rows[s]).domains]
  OBVIOUS
<1>4. Listing(orbits) = orbits
  <2>1. orbits = [s \in 1 .. N |-> orbits[s]] /\ DOMAIN orbits = 1 .. N
    BY <1>1, <1>3
  <2> QED BY <2>1, ListingIs
<1>5. ASSUME NEW s \in SlotsOf(c)
      PROVE  /\ IsSubspace(c, s, rows[s])
             /\ ListsOf(orbits[s], ImagesOf(c, s, rows[s])) /\ Len(orbits[s]) \in Nat \ {0}
  <2>1. IsSubspace(c, s, rows[s])
    BY <1>2, RowsAreSubspaces
  <2>2. orbits[s] = SlotOrbit(c, s, rows[s]).domains
    BY <1>3
  <2>3. /\ ListsOf(SlotOrbit(c, s, rows[s]).domains, ImagesOf(c, s, rows[s]))
        /\ Len(SlotOrbit(c, s, rows[s]).domains) \in Nat \ {0}
    BY <2>1, SlotOrbitIs
  <2> QED BY <2>1, <2>2, <2>3
<1>6. AreOrbits(c, rows, orbits)
  BY <1>5 DEF AreOrbits
<1>7. CandidatesTell(c, k, rows, CandidatesOf(c, k, orbits))
  BY <1>6, CandidatesOfAre
<1>8. Candidates(c, k) = CandidatesOf(c, k, Listing(orbits))
  BY <1>2, <1>3 DEF Candidates
<1> QED BY <1>2, <1>4, <1>7, <1>8

-----------------------------------------------------------------------------
(* Classes *)

\* A set of vectors of each slot.
OfVectors(c, U) == \A s \in SlotsOf(c) : U[s] \in SUBSET SlotVectors(c, s)

\* What is carried to another can be carried back.
LEMMA EquivalentBack ==
    ASSUME NEW c \in Couples, NEW U, NEW V, OfVectors(c, U), Equivalent(c, U, V)
    PROVE  Equivalent(c, V, U)
<1>1. PICK g \in KernelOps(c) : \A s \in SlotsOf(c) : Image(c, s, g, U[s]) = V[s]
  BY DEF Equivalent
<1>2. PICK h \in KernelOps(c) : \A s \in SlotsOf(c) : \A W \in SUBSET SlotVectors(c, s) :
               /\ Image(c, s, h, Image(c, s, g, W)) = W
               /\ Image(c, s, g, Image(c, s, h, W)) = W
  BY ImageBack
<1>3. \A s \in SlotsOf(c) : Image(c, s, h, V[s]) = U[s]
  BY <1>1, <1>2 DEF OfVectors
<1> QED BY <1>3 DEF Equivalent

\* What is carried twice is carried.
LEMMA EquivalentTwice ==
    ASSUME NEW c \in Couples, NEW U, NEW V, NEW W, OfVectors(c, U), Equivalent(c, U, V), Equivalent(c, V, W)
    PROVE  Equivalent(c, U, W)
<1>1. PICK h \in KernelOps(c) : \A s \in SlotsOf(c) : Image(c, s, h, U[s]) = V[s]
  BY DEF Equivalent
<1>2. PICK g \in KernelOps(c) : \A s \in SlotsOf(c) : Image(c, s, g, V[s]) = W[s]
  BY DEF Equivalent
<1>3. PICK k \in KernelOps(c) : \A s \in SlotsOf(c) : \A X \in SUBSET SlotVectors(c, s) :
               Image(c, s, k, X) = Image(c, s, g, Image(c, s, h, X))
  BY ImageTwice
<1>4. \A s \in SlotsOf(c) : Image(c, s, k, U[s]) = W[s]
  BY <1>1, <1>2, <1>3 DEF OfVectors
<1> QED BY <1>4 DEF Equivalent

\* ImagesOf of the rows of a choice are sets of vectors.
LEMMA ImagesAreVectors ==
    ASSUME NEW c \in Couples, NEW k \in 0 .. Combos(c) - 1, NEW U,
           \A s \in SlotsOf(c) : U[s] \in ImagesOf(c, s, RowsOf(c, k)[s])
    PROVE  OfVectors(c, U)
<1> SUFFICES ASSUME NEW s \in SlotsOf(c) PROVE U[s] \in SUBSET SlotVectors(c, s)
  BY DEF OfVectors
<1>1. RowsOf(c, k)[s] \in SUBSET SlotVectors(c, s)
  BY RowsAreSubspaces DEF IsSubspace
<1>2. PICK g \in KernelOps(c) : U[s] = Image(c, s, g, RowsOf(c, k)[s])
  BY DEF ImagesOf
<1>3. Image(c, s, g, RowsOf(c, k)[s]) \in SUBSET SlotVectors(c, s)
  BY <1>1, ImageIs
<1> QED BY <1>2, <1>3

\* No operation carries images of the rows of one choice to those of another.
LEMMA ChoicesApart ==
    ASSUME NEW c \in Couples, NEW k \in 0 .. Combos(c) - 1, NEW l \in 0 .. Combos(c) - 1,
           NEW U, \A s \in SlotsOf(c) : U[s] \in ImagesOf(c, s, RowsOf(c, k)[s]),
           NEW V, \A s \in SlotsOf(c) : V[s] \in ImagesOf(c, s, RowsOf(c, l)[s]),
           Equivalent(c, U, V)
    PROVE  k = l
<1>1. PICK g \in KernelOps(c) : \A s \in SlotsOf(c) : Image(c, s, g, U[s]) = V[s]
  BY DEF Equivalent
<1>2. ASSUME NEW s \in SlotsOf(c) PROVE ChoiceOf(c, k)[s] = ChoiceOf(c, l)[s]
  <2>1. PICK i \in DOMAIN SlotRows[c][s] : i = ChoiceOf(c, k)[s] /\ RowsOf(c, k)[s] = SlotRows[c][s][i]
    BY ChoicesAre
  <2>2. PICK j \in DOMAIN SlotRows[c][s] : j = ChoiceOf(c, l)[s] /\ RowsOf(c, l)[s] = SlotRows[c][s][j]
    BY ChoicesAre
  <2>3. PICK A \in SUBSET SlotVectors(c, s) : A = RowsOf(c, k)[s]
    BY RowsAreSubspaces DEF IsSubspace
  <2>4. PICK B \in SUBSET SlotVectors(c, s) : B = RowsOf(c, l)[s]
    BY RowsAreSubspaces DEF IsSubspace
  <2>5. PICK a \in KernelOps(c) : U[s] = Image(c, s, a, A)
    BY <2>3 DEF ImagesOf
  <2>6. PICK b \in KernelOps(c) : V[s] = Image(c, s, b, B)
    BY <2>4 DEF ImagesOf
  <2>7. PICK b1 \in KernelOps(c) : Image(c, s, b1, Image(c, s, b, B)) = B
    BY ImageBack
  <2>8. PICK m \in KernelOps(c) : Image(c, s, m, A) = Image(c, s, g, Image(c, s, a, A))
    BY ImageTwice, ZenonT(40)
  <2>9. PICK n \in KernelOps(c) : \A r \in SlotsOf(c) : \A W \in SUBSET SlotVectors(c, r) :
               Image(c, r, n, W) = Image(c, r, b1, Image(c, r, m, W))
    BY ImageTwice
  <2>10. Image(c, s, n, A) = Image(c, s, b1, Image(c, s, m, A))
    BY <2>9
  <2>11. Image(c, s, n, A) = B
    BY <1>1, <2>5, <2>6, <2>7, <2>8, <2>10
  <2>12. Image(c, s, n, SlotRows[c][s][i]) = SlotRows[c][s][j]
    BY <2>1, <2>2, <2>3, <2>4, <2>11
  <2>13. i = j
    <3>1. AreRows(c)
      BY CouplesAssumption
    <3>2. \A p \in DOMAIN SlotRows[c][s] : \A q \in DOMAIN SlotRows[c][s], h \in KernelOps(c) :
              Image(c, s, h, SlotRows[c][s][p]) = SlotRows[c][s][q] => p = q
      BY <3>1, Zenon DEF AreRows
    <3> QED BY <2>12, <3>2
  <2> QED BY <2>1, <2>2, <2>13
<1> QED BY <1>2, ChoicesDiffer

\* Each tuple of directions of the slots is made of images of the rows of a choice.
LEMMA DirectionsAreImages ==
    ASSUME NEW c \in Couples, NEW U \in AllDirections(c)
    PROVE  \E k \in 0 .. Combos(c) - 1 : \A s \in SlotsOf(c) : U[s] \in ImagesOf(c, s, RowsOf(c, k)[s])
<1>1. ASSUME NEW s \in SlotsOf(c)
      PROVE  \E i \in DOMAIN SlotRows[c][s] : U[s] \in ImagesOf(c, s, SlotRows[c][s][i])
  <2>1. U[s] \in Directions(c, s)
    BY DEF AllDirections
  <2>2. \E g \in KernelOps(c), i \in DOMAIN SlotRows[c][s] : U[s] = Image(c, s, g, SlotRows[c][s][i])
    BY <2>1 DEF Directions
  <2> QED BY <2>2 DEF ImagesOf
<1>2. PICK d : d = [s \in SlotsOf(c) |->
                        CHOOSE i \in DOMAIN SlotRows[c][s] : U[s] \in ImagesOf(c, s, SlotRows[c][s][i])]
  OBVIOUS
<1>3. \A s \in SlotsOf(c) : d[s] \in DOMAIN SlotRows[c][s] /\ U[s] \in ImagesOf(c, s, SlotRows[c][s][d[s]])
  BY <1>1, <1>2
<1>4. PICK k \in 0 .. Combos(c) - 1 : \A s \in SlotsOf(c) : RowsOf(c, k)[s] = SlotRows[c][s][d[s]]
  BY <1>3, ChoicesAre
<1> QED BY <1>3, <1>4

\* What fixes a tuple that an operation carries is carried with it.
LEMMA CommonCarried ==
    ASSUME NEW c \in Couples, NEW U, OfVectors(c, U), NEW g \in KernelOps(c),
           NEW V, \A s \in SlotsOf(c) : Image(c, s, g, U[s]) = V[s]
    PROVE  Common(c, V) = Carried(c, g, Common(c, U))
<1>1. PICK j \in KernelOps(c) : ActsAs(c, 1, g, j) /\ ActsAs(c, 1, j, g)
  BY OperationsAre
<1>2. ASSUME NEW s \in SlotsOf(c)
      PROVE  /\ \A k \in KernelOps(c) : \A x \in SlotVectors(c, s) : Moves[c][s][k][x] \in SlotVectors(c, s)
             /\ \A x \in SlotVectors(c, s) : Moves[c][s][g][Moves[c][s][j][x]] = x
             /\ \A x \in SlotVectors(c, s) : Moves[c][s][j][Moves[c][s][g][x]] = x
  <2>1. \A k \in KernelOps(c) : \A x \in SlotVectors(c, s) : Moves[c][s][k][x] \in SlotVectors(c, s)
    BY OperationsAre
  <2>2. \A x \in SlotVectors(c, s) : Moves[c][s][1][x] = x
    BY OperationsAre
  <2>3. \A x \in SlotVectors(c, s) : /\ Moves[c][s][1][x] = Moves[c][s][g][Moves[c][s][j][x]]
                                     /\ Moves[c][s][1][x] = Moves[c][s][j][Moves[c][s][g][x]]
    BY <1>1 DEF ActsAs
  <2> QED BY <2>1, <2>2, <2>3
<1>3. ASSUME NEW h \in Common(c, V) PROVE h \in Carried(c, g, Common(c, U))
  <2>1. h \in KernelOps(c) /\ \A s \in SlotsOf(c) : \A x \in V[s] : Moves[c][s][h][x] = x
    BY DEF Common, Fixing
  <2>2. PICK i \in KernelOps(c) : ActsAs(c, i, h, g)
    BY <2>1, OperationsAre
  <2>3. PICK k \in KernelOps(c) : ActsAs(c, k, j, i)
    BY OperationsAre
  <2>4. \A s \in SlotsOf(c) : \A x \in SlotVectors(c, s) :
            Moves[c][s][k][x] = Moves[c][s][j][Moves[c][s][h][Moves[c][s][g][x]]]
    BY <2>2, <2>3 DEF ActsAs
  <2>5. ASSUME NEW s \in SlotsOf(c), NEW x \in U[s] PROVE Moves[c][s][k][x] = x
    <3>1. x \in SlotVectors(c, s)
      BY DEF OfVectors
    <3>2. Moves[c][s][g][x] \in V[s]
      BY DEF Image
    <3>3. Moves[c][s][h][Moves[c][s][g][x]] = Moves[c][s][g][x]
      BY <2>1, <3>2
    <3>4. Moves[c][s][k][x] = Moves[c][s][j][Moves[c][s][h][Moves[c][s][g][x]]]
      BY <2>4, <3>1
    <3>5. Moves[c][s][j][Moves[c][s][g][x]] = x
      BY <1>2, <3>1
    <3> QED BY <3>3, <3>4, <3>5
  <2>6. k \in Common(c, U)
    BY <2>5 DEF Common, Fixing
  <2>7. ASSUME NEW s \in SlotsOf(c), NEW x \in SlotVectors(c, s)
        PROVE  Moves[c][s][h][Moves[c][s][g][x]] = Moves[c][s][g][Moves[c][s][k][x]]
    <3>1. Moves[c][s][h][Moves[c][s][g][x]] \in SlotVectors(c, s)
      BY <1>2, <2>1
    <3>2. Moves[c][s][k][x] = Moves[c][s][j][Moves[c][s][h][Moves[c][s][g][x]]]
      BY <2>4
    <3>3. Moves[c][s][g][Moves[c][s][j][Moves[c][s][h][Moves[c][s][g][x]]]] = Moves[c][s][h][Moves[c][s][g][x]]
      BY <1>2, <3>1
    <3> QED BY <3>2, <3>3
  <2> QED BY <2>1, <2>6, <2>7 DEF Carried
<1>4. ASSUME NEW h \in Carried(c, g, Common(c, U)) PROVE h \in Common(c, V)
  <2>1. h \in KernelOps(c)
    BY DEF Carried
  <2>2. PICK k \in Common(c, U) : \A s \in SlotsOf(c) : \A x \in SlotVectors(c, s) :
            Moves[c][s][h][Moves[c][s][g][x]] = Moves[c][s][g][Moves[c][s][k][x]]
    BY DEF Carried
  <2>3. ASSUME NEW s \in SlotsOf(c), NEW y \in V[s] PROVE Moves[c][s][h][y] = y
    <3>1. PICK x \in U[s] : y = Moves[c][s][g][x]
      BY DEF Image
    <3>2. x \in SlotVectors(c, s)
      BY DEF OfVectors
    <3>3. Moves[c][s][k][x] = x
      BY DEF Common, Fixing
    <3> QED BY <2>2, <3>1, <3>2, <3>3
  <2> QED BY <2>1, <2>3 DEF Common, Fixing
<1> QED BY <1>3, <1>4

\* An operation carries coupled directions to coupled directions.
LEMMA DirectionCarried ==
    ASSUME NEW c \in Couples, NEW U, OfVectors(c, U), NEW V, Equivalent(c, U, V), IsDirection(c, U)
    PROVE  IsDirection(c, V)
<1>1. PICK g \in KernelOps(c) : \A s \in SlotsOf(c) : Image(c, s, g, U[s]) = V[s]
  BY DEF Equivalent
<1>2. Common(c, V) = Carried(c, g, Common(c, U))
  BY <1>1, CommonCarried
<1>3. PICK j \in KernelOps(c) : ActsAs(c, 1, g, j) /\ ActsAs(c, 1, j, g)
  BY OperationsAre
<1> SUFFICES ASSUME NEW s \in SlotsOf(c) PROVE FixedBy(c, s, Common(c, V)) = V[s]
  BY DEF IsDirection
<1> DEFINE X == SlotVectors(c, s)
           M == Moves[c][s]
<1>4. /\ \A k \in KernelOps(c) : \A x \in X : M[k][x] \in X
      /\ \A x \in X : M[g][M[j][x]] = x /\ M[j][M[g][x]] = x
  <2>1. \A k \in KernelOps(c) : \A x \in X : M[k][x] \in X
    BY OperationsAre
  <2>2. \A x \in X : M[1][x] = x
    BY OperationsAre
  <2>3. \A x \in X : M[1][x] = M[g][M[j][x]] /\ M[1][x] = M[j][M[g][x]]
    BY <1>3 DEF ActsAs
  <2> QED BY <2>1, <2>2, <2>3
<1>5. V[s] \in SUBSET X
  <2>1. U[s] \in SUBSET SlotVectors(c, s)
    BY DEF OfVectors
  <2> QED BY <1>1, <2>1, ImageIs
<1>6. V[s] \subseteq FixedBy(c, s, Common(c, V))
  BY <1>5 DEF FixedBy, Common, Fixing
<1>7. ASSUME NEW x \in FixedBy(c, s, Common(c, V)) PROVE x \in V[s]
  <2>1. x \in X /\ \A h \in Common(c, V) : M[h][x] = x
    BY DEF FixedBy
  <2>2. PICK y \in X : y = M[j][x]
    BY <1>4, <2>1
  <2>3. M[g][y] = x
    <3>1. M[g][M[j][x]] = x
      BY <1>4, <2>1
    <3> QED BY <2>2, <3>1
  <2>4. ASSUME NEW k \in Common(c, U) PROVE M[k][y] = y
    <3>1. k \in KernelOps(c)
      BY DEF Common
    <3>2. PICK i \in KernelOps(c) : ActsAs(c, i, k, j)
      BY <3>1, OperationsAre
    <3>3. PICK h \in KernelOps(c) : ActsAs(c, h, g, i)
      BY OperationsAre
    <3>4. ASSUME NEW r \in SlotsOf(c), NEW z \in SlotVectors(c, r)
          PROVE  Moves[c][r][h][Moves[c][r][g][z]] = Moves[c][r][g][Moves[c][r][k][z]]
      <4>1. Moves[c][r][g][z] \in SlotVectors(c, r)
        BY MoveIs
      <4>2. Moves[c][r][j][Moves[c][r][g][z]] = z
        <5>1. Moves[c][r][1][z] = z
          BY MoveIs
        <5> QED BY <1>3, <5>1 DEF ActsAs
      <4>3. Moves[c][r][h][Moves[c][r][g][z]]
                = Moves[c][r][g][Moves[c][r][k][Moves[c][r][j][Moves[c][r][g][z]]]]
        <5>1. PICK v \in SlotVectors(c, r) : v = Moves[c][r][g][z]
          BY <4>1
        <5>2. Moves[c][r][h][v] = Moves[c][r][g][Moves[c][r][i][v]]
          BY <3>3 DEF ActsAs
        <5>3. Moves[c][r][i][v] = Moves[c][r][k][Moves[c][r][j][v]]
          BY <3>2 DEF ActsAs
        <5> QED BY <5>1, <5>2, <5>3
      <4> QED BY <4>2, <4>3
    <3>5. h \in Common(c, V)
      <4>1. h \in Carried(c, g, Common(c, U))
        BY <3>4, Zenon DEF Carried
      <4> QED BY <1>2, <4>1
    <3>6. M[g][M[k][y]] = x
      BY <2>1, <2>3, <3>4, <3>5
    <3>7. M[k][y] \in X
      BY <1>4, <3>1
    <3>8. M[j][M[g][M[k][y]]] = M[k][y]
      BY <1>4, <3>7
    <3> QED BY <2>2, <3>6, <3>8
  <2>5. y \in FixedBy(c, s, Common(c, U))
    BY <2>4 DEF FixedBy
  <2>6. y \in U[s]
    BY <2>5 DEF IsDirection
  <2>7. M[g][y] \in Image(c, s, g, U[s])
    BY <2>6 DEF Image
  <2> QED BY <1>1, <2>3, <2>7
<1> QED BY <1>6, <1>7

\* Whether the group of a tuple is identified is the same for its class.
LEMMA NamedCarried ==
    ASSUME NEW c \in Couples, NEW U, OfVectors(c, U), NEW V, Equivalent(c, U, V), Common(c, U) \in Unnamed
    PROVE  Common(c, V) \in Unnamed
<1>1. PICK g \in KernelOps(c) : \A s \in SlotsOf(c) : Image(c, s, g, U[s]) = V[s]
  BY DEF Equivalent
<1>2. Common(c, V) = Carried(c, g, Common(c, U))
  BY <1>1, CommonCarried
<1>3. \A s \in SlotsOf(c) : Image(c, s, 1, U[s]) = U[s]
  BY ImageIs DEF OfVectors
<1>4. 1 \in KernelOps(c)
  BY KernelOpsAre
<1>5. Common(c, U) = Carried(c, 1, Common(c, U))
  BY <1>3, <1>4, CommonCarried
<1>6. Common(c, U) \subseteq KernelOps(c)
  BY DEF Common
<1>7. Carried(c, g, Common(c, U)) \in Unnamed
  BY <1>5, <1>6, CouplesAssumption
<1> QED BY <1>2, <1>7

-----------------------------------------------------------------------------
(* The coupled OPDs: the rows that are listed *)

\* A tuple of domains that all its operations leave as many vectors free as it
\* has, is all they leave free.
LEMMA MatchIs ==
    ASSUME NEW c \in Couples, NEW U, OfVectors(c, U), DOMAIN U = SlotsOf(c)
    PROVE  SubductionFrequency(c, Common(c, U)) = FreeRows(U) <=> IsDirection(c, U)
<1>1. PICK H : H = Common(c, U)
  OBVIOUS
<1>2. ASSUME NEW s \in SlotsOf(c)
      PROVE  Cardinality(FixedBy(c, s, H)) = Cardinality(U[s]) <=> FixedBy(c, s, H) = U[s]
  <2>1. AreOperations(c)
    BY CouplesAssumption
  <2>2. IsFiniteSet(SlotVectors(c, s))
    BY <2>1 DEF AreOperations
  <2>3. FixedBy(c, s, H) \in SUBSET SlotVectors(c, s)
    BY DEF FixedBy
  <2>4. IsFiniteSet(FixedBy(c, s, H))
    BY <2>2, <2>3, FS_Subset
  <2>5. U[s] \in SUBSET FixedBy(c, s, H)
    BY <1>1 DEF OfVectors, FixedBy, Common, Fixing
  <2> QED BY <2>4, <2>5, FS_Subset
<1>3. SubductionFrequency(c, H) = [s \in SlotsOf(c) |-> Cardinality(FixedBy(c, s, H))]
  BY DEF SubductionFrequency
<1>4. FreeRows(U) = [s \in SlotsOf(c) |-> Cardinality(U[s])]
  BY DEF FreeRows
<1>5. SubductionFrequency(c, H) = FreeRows(U)
          <=> \A s \in SlotsOf(c) : Cardinality(FixedBy(c, s, H)) = Cardinality(U[s])
  BY <1>3, <1>4
<1> QED BY <1>1, <1>2, <1>5 DEF IsDirection

-----------------------------------------------------------------------------
(* The list of rows *)

\* A list of rows, no two with the key of one group in one choice of rows.
AreRowsListed(rows) ==
    /\ Len(rows) \in Nat /\ DOMAIN rows = 1 .. Len(rows) /\ rows = [i \in 1 .. Len(rows) |-> rows[i]]
    /\ \A i \in 1 .. Len(rows) : \A j \in 1 .. i - 1 : ~SameKey(rows[j], rows[i])

\* What the first n of the scanned tuples add to a list.
Adds(rows, more, known, scanned, n) ==
    /\ AreRowsListed(more)
    /\ Len(rows) <= Len(more) /\ \A i \in 1 .. Len(rows) : more[i] = rows[i]
    /\ \A i \in 1 .. Len(more) : i \in 1 .. Len(rows) \/
           \E p \in 1 .. n : more[i] = scanned[p] /\ Matches(known, scanned[p])
    /\ Full(more) \/ \A p \in 1 .. n : Matches(known, scanned[p]) /\ scanned[p].group \notin Unnamed =>
           \E i \in 1 .. Len(more) : SameKey(more[i], scanned[p])

\* One more tuple is kept, or was there, or does not count.
LEMMA AddsOne ==
    ASSUME NEW rows, AreRowsListed(rows), NEW old, NEW known, NEW scanned, NEW n \in Nat,
           Adds(rows, old, known, scanned, n), NEW more,
           more = IF Matches(known, scanned[n + 1]) THEN EmitTuple(old, scanned[n + 1]) ELSE old
    PROVE  Adds(rows, more, known, scanned, n + 1)
<1>1. PICK z \in Nat : z = Len(old)
  BY DEF Adds, AreRowsListed
<1>2. PICK m \in Nat : m = Len(rows) /\ m <= z
  BY <1>1 DEF Adds, AreRowsListed
<1>3. PICK row : row = scanned[n + 1]
  OBVIOUS
<1>4. /\ DOMAIN old = 1 .. z /\ old = [i \in 1 .. z |-> old[i]]
      /\ \A i \in 1 .. z : \A j \in 1 .. i - 1 : ~SameKey(old[j], old[i])
      /\ \A i \in 1 .. m : old[i] = rows[i]
      /\ \A i \in 1 .. z : i \in 1 .. m \/ \E p \in 1 .. n : old[i] = scanned[p] /\ Matches(known, scanned[p])
  BY <1>1, <1>2 DEF Adds, AreRowsListed
<1>5. Full(old) \/ \A p \in 1 .. n : Matches(known, scanned[p]) /\ scanned[p].group \notin Unnamed =>
           \E i \in 1 .. z : SameKey(old[i], scanned[p])
  BY <1>1 DEF Adds
<1>6. \A p \in 1 .. n : p \in 1 .. n + 1
  OBVIOUS
<1>7. \A p \in 1 .. n + 1 : p \in 1 .. n \/ p = n + 1
  OBVIOUS
<1>8. CASE more = old
  <2>1. AreRowsListed(more)
    BY <1>8 DEF Adds
  <2>2. Len(rows) <= Len(more) /\ \A i \in 1 .. Len(rows) : more[i] = rows[i]
    BY <1>8 DEF Adds
  <2>3. \A i \in 1 .. z : i \in 1 .. m \/ \E p \in 1 .. n + 1 : old[i] = scanned[p] /\ Matches(known, scanned[p])
    BY <1>4, <1>6
  <2>4. Full(old) \/ \A p \in 1 .. n + 1 : Matches(known, scanned[p]) /\ scanned[p].group \notin Unnamed =>
             \E i \in 1 .. z : SameKey(old[i], scanned[p])
    <3> SUFFICES ASSUME ~Full(old), NEW p \in 1 .. n + 1, Matches(known, scanned[p]), scanned[p].group \notin Unnamed
                 PROVE  \E i \in 1 .. z : SameKey(old[i], scanned[p])
      OBVIOUS
    <3>1. CASE p \in 1 .. n
      BY <1>5, <3>1
    <3>2. CASE p = n + 1
      <4>1. EmitTuple(old, row) = old /\ row.group \notin Unnamed
        BY <1>3, <1>8, <3>2
      <4>2. Append(old, row) # old
        <5>1. Append(old, row) = [i \in 1 .. z + 1 |-> IF i = z + 1 THEN row ELSE old[i]]
          BY <1>4, AppendIs
        <5>2. DOMAIN Append(old, row) = 1 .. z + 1
          BY <5>1
        <5>3. z + 1 \in 1 .. z + 1 /\ z + 1 \notin 1 .. z
          OBVIOUS
        <5> QED BY <1>4, <5>2, <5>3
      <4>3. \E i \in DOMAIN old : SameKey(old[i], row)
        BY <4>1, <4>2 DEF EmitTuple
      <4> QED BY <1>3, <1>4, <3>2, <4>3
    <3> QED BY <1>7, <3>1, <3>2
  <2>5. \A i \in 1 .. Len(more) : i \in 1 .. Len(rows) \/
            \E p \in 1 .. n + 1 : more[i] = scanned[p] /\ Matches(known, scanned[p])
    BY <1>1, <1>2, <1>8, <2>3
  <2>6. Full(more) \/ \A p \in 1 .. n + 1 : Matches(known, scanned[p]) /\ scanned[p].group \notin Unnamed =>
             \E i \in 1 .. Len(more) : SameKey(more[i], scanned[p])
    BY <1>1, <1>8, <2>4
  <2> QED BY <2>1, <2>2, <2>5, <2>6 DEF Adds
<1>9. CASE more # old
  <2>1. Matches(known, row) /\ more = EmitTuple(old, row)
    BY <1>3, <1>9
  <2>2. /\ more = Append(old, row)
        /\ ~Full(old) /\ \A i \in DOMAIN old : ~SameKey(old[i], row)
    BY <1>9, <2>1 DEF EmitTuple
  <2>3. more = [i \in 1 .. z + 1 |-> IF i = z + 1 THEN row ELSE old[i]]
    <3>1. old = [i \in 1 .. z |-> old[i]]
      BY <1>4
    <3>2. Append(old, row) = [i \in 1 .. z + 1 |-> IF i = z + 1 THEN row ELSE old[i]]
      BY <3>1, AppendIs
    <3> QED BY <2>2, <3>2
  <2>4. Len(more) = z + 1 /\ DOMAIN more = 1 .. z + 1 /\ more[z + 1] = row /\ more = [i \in 1 .. z + 1 |-> more[i]]
    BY <2>3
  <2>5. \A i \in 1 .. z : more[i] = old[i]
    BY <2>3
  <2>6. \A i \in 1 .. z + 1 : i \in 1 .. z \/ i = z + 1
    OBVIOUS
  <2>7. \A i \in 1 .. z + 1 : \A j \in 1 .. i - 1 : ~SameKey(more[j], more[i])
    <3> SUFFICES ASSUME NEW i \in 1 .. z + 1, NEW j \in 1 .. i - 1 PROVE ~SameKey(more[j], more[i])
      OBVIOUS
    <3>1. j \in 1 .. z /\ more[j] = old[j]
      BY <2>5
    <3>2. CASE i \in 1 .. z
      BY <1>4, <2>5, <3>1, <3>2
    <3>3. CASE i = z + 1
      BY <1>4, <2>2, <2>4, <3>1, <3>3
    <3> QED BY <2>6, <3>2, <3>3
  <2>8. AreRowsListed(more)
    <3>1. z + 1 \in Nat
      OBVIOUS
    <3>2. Len(more) \in Nat /\ DOMAIN more = 1 .. Len(more) /\ more = [i \in 1 .. Len(more) |-> more[i]]
      <4> PICK y \in Nat : y = z + 1
        BY <3>1
      <4>1. Len(more) = y /\ DOMAIN more = 1 .. y /\ more = [i \in 1 .. y |-> more[i]]
        BY <2>4
      <4> QED BY <4>1
    <3>3. \A i \in 1 .. Len(more) : \A j \in 1 .. i - 1 : ~SameKey(more[j], more[i])
      BY <2>4, <2>7
    <3> QED BY <3>2, <3>3 DEF AreRowsListed
  <2>9. Len(rows) <= Len(more) /\ \A i \in 1 .. Len(rows) : more[i] = rows[i]
    <3>1. \A i \in 1 .. m : i \in 1 .. z
      BY <1>2
    <3>2. \A i \in 1 .. m : more[i] = rows[i]
      BY <1>4, <2>5, <3>1
    <3>3. m <= z + 1
      BY <1>2
    <3> QED BY <1>2, <2>4, <3>2, <3>3
  <2>10. \A i \in 1 .. z + 1 : i \in 1 .. m \/
             \E p \in 1 .. n + 1 : more[i] = scanned[p] /\ Matches(known, scanned[p])
    <3> SUFFICES ASSUME NEW i \in 1 .. z + 1, i \notin 1 .. m
                 PROVE  \E p \in 1 .. n + 1 : more[i] = scanned[p] /\ Matches(known, scanned[p])
      OBVIOUS
    <3>1. CASE i \in 1 .. z
      BY <1>4, <1>6, <2>5, <3>1
    <3>2. CASE i = z + 1
      BY <1>3, <2>1, <2>4, <3>2
    <3> QED BY <2>6, <3>1, <3>2
  <2>11. \A p \in 1 .. n + 1 : Matches(known, scanned[p]) /\ scanned[p].group \notin Unnamed =>
             \E i \in 1 .. z + 1 : SameKey(more[i], scanned[p])
    <3> SUFFICES ASSUME NEW p \in 1 .. n + 1, Matches(known, scanned[p]), scanned[p].group \notin Unnamed
                 PROVE  \E i \in 1 .. z + 1 : SameKey(more[i], scanned[p])
      OBVIOUS
    <3>1. CASE p \in 1 .. n
      <4>1. PICK i \in 1 .. z : SameKey(old[i], scanned[p])
        BY <1>5, <2>2, <3>1
      <4> QED BY <2>5, <4>1
    <3>2. CASE p = n + 1
      <4>1. SameKey(more[z + 1], scanned[p])
        BY <1>3, <2>4, <3>2 DEF SameKey
      <4> QED BY <4>1
    <3> QED BY <1>7, <3>1, <3>2
  <2> QED BY <1>2, <2>4, <2>8, <2>9, <2>10, <2>11 DEF Adds
<1> QED BY <1>8, <1>9

\* What the tuples of a choice of rows add to the list.
LEMMA EmittedAre ==
    ASSUME NEW rows, AreRowsListed(rows), NEW known, NEW scanned, NEW N \in Nat, Len(scanned) = N
    PROVE  Adds(rows, Emitted(rows, known, scanned), known, scanned, N)
<1> DEFINE Y == {rows[i] : i \in 1 .. Len(rows)} \cup {scanned[p] : p \in 1 .. N}
           X == Seq(Y)
           Step(n, x) == IF Matches(known, scanned[n]) THEN EmitTuple(x, scanned[n]) ELSE x
<1>1. ASSUME NEW n \in 1 .. N, NEW x \in X PROVE Step(n, x) \in X
  <2>1. scanned[n] \in Y
    OBVIOUS
  <2>2. Append(x, scanned[n]) \in X
    <3> HIDE DEF Y
    <3> QED BY <2>1
  <2>3. EmitTuple(x, scanned[n]) \in X
    <3> HIDE DEF X
    <3> QED BY <2>2 DEF EmitTuple
  <2> HIDE DEF X
  <2> QED BY <2>3
<1>2. rows \in X
  <2>1. rows = [i \in 1 .. Len(rows) |-> rows[i]] /\ Len(rows) \in Nat
    BY DEF AreRowsListed
  <2>2. \A i \in 1 .. Len(rows) : rows[i] \in Y
    OBVIOUS
  <2> HIDE DEF Y
  <2> QED BY <2>1, <2>2
<1>3. PICK g : g = [n \in 1 .. N |-> [x \in X |-> Step(n, x)]]
  OBVIOUS
<1>4. \A n \in 1 .. N, x \in X : g[n][x] = Step(n, x)
  <2> HIDE DEF X, Step
  <2> QED BY <1>3
<1>5. \A n \in 1 .. N, x \in X : g[n][x] \in X
  <2> HIDE DEF X, Step
  <2> QED BY <1>1, <1>4
<1>6. PICK u : Iterates(u, N, rows, g) /\ \A n \in 0 .. N : u[n] \in X
  <2> HIDE DEF X
  <2> QED BY <1>2, <1>5, Iteration, ZenonT(60)
<1>7. u = [n \in 0 .. N |-> IF n = 0 THEN rows ELSE Step(n, u[n - 1])]
  <2>1. u = [n \in 0 .. N |-> IF n = 0 THEN rows ELSE g[n][u[n - 1]]]
    BY <1>6 DEF Iterates
  <2>2. \A n \in 0 .. N : n # 0 => n \in 1 .. N /\ n - 1 \in 0 .. N
    OBVIOUS
  <2>3. \A n \in 0 .. N : n # 0 => g[n][u[n - 1]] = Step(n, u[n - 1])
    <3> HIDE DEF X, Step
    <3> QED BY <1>4, <1>6, <2>2
  <2> HIDE DEF Step
  <2> QED BY <2>1, <2>3
<1>8. PICK emit : emit = CHOOSE o : o = [n \in 0 .. N |-> IF n = 0 THEN rows ELSE Step(n, o[n - 1])]
  OBVIOUS
<1>9. emit = [n \in 0 .. N |-> IF n = 0 THEN rows ELSE Step(n, emit[n - 1])]
  <2> HIDE DEF Step
  <2> QED BY <1>7, <1>8
<1>10. Emitted(rows, known, scanned) = emit[N]
  BY <1>8 DEF Emitted
<1> DEFINE S == {n \in 0 .. N : Adds(rows, emit[n], known, scanned, n)}
<1>11. 0 \in S
  <2>1. emit[0] = rows
    <3>1. 0 \in 0 .. N
      OBVIOUS
    <3> HIDE DEF Step
    <3> QED BY <1>9, <3>1
  <2>2. Adds(rows, rows, known, scanned, 0)
    BY DEF Adds, AreRowsListed
  <2> QED BY <2>1, <2>2
<1>12. ASSUME NEW n \in 1 .. N, n - 1 \in S PROVE n \in S
  <2>1. PICK k \in Nat : k = n - 1 /\ k + 1 = n
    OBVIOUS
  <2>2. Adds(rows, emit[k], known, scanned, k)
    BY <1>12, <2>1
  <2>3. emit[n] = Step(n, emit[k])
    <3>1. n \in 0 .. N /\ n # 0
      OBVIOUS
    <3> HIDE DEF Step
    <3> QED BY <1>9, <2>1, <3>1
  <2>4. emit[n] = IF Matches(known, scanned[k + 1]) THEN EmitTuple(emit[k], scanned[k + 1]) ELSE emit[k]
    BY <2>1, <2>3
  <2>5. Adds(rows, emit[n], known, scanned, k + 1)
    BY <2>2, <2>4, AddsOne
  <2> QED BY <2>1, <2>5
<1>13. N \in S
  <2>1. 0 .. N \subseteq S
    <3> HIDE DEF S
    <3> QED BY <1>11, <1>12, UpTo
  <2> HIDE DEF S
  <2> QED BY <2>1
<1> QED BY <1>10, <1>13

\* The first N candidates are scanned, all of them if there is no fault, and
\* what is known of their groups tells which of them are directions.
Judged(c, C, fault, scanned, known, N) ==
    /\ Len(scanned) = N /\ (fault = 0 => N = Len(C))
    /\ \A p \in 1 .. N : /\ p \in 1 .. Len(C) /\ scanned[p] = C[p]
                         /\ Matches(known, scanned[p]) <=> IsDirection(c, C[p].domains)

\* The candidates of choice k, or those before a fault, are judged by what they are.
LEMMA ScannedAre ==
    ASSUME NEW c \in Couples, NEW k \in 0 .. Combos(c) - 1, NEW C, C = Candidates(c, k),
           NEW fault \in 0 .. Len(C), NEW scanned,
           scanned = IF fault = 0 THEN C ELSE SubSeq(C, 1, fault - 1),
           NEW before, \A H \in DOMAIN before : before[H] = SubductionFrequency(c, H),
           NEW known, known = Frequencies(before, c, scanned)
    PROVE  \E N \in 0 .. Len(C) : Judged(c, C, fault, scanned, known, N)
<1>1. CandidatesTell(c, k, RowsOf(c, k), C)
  BY CandidatesAre
<1>2. PICK M \in Nat : M = Len(C) /\ DOMAIN C = 1 .. M /\ C = [i \in 1 .. M |-> C[i]]
  BY <1>1 DEF CandidatesTell
<1>3. PICK N \in 0 .. M : /\ Len(scanned) = N /\ (fault = 0 => N = M)
                          /\ DOMAIN scanned = 1 .. N /\ \A p \in 1 .. N : scanned[p] = C[p]
  <2>1. CASE fault = 0
    BY <1>2, <2>1
  <2>2. CASE fault # 0
    <3>1. PICK n \in 0 .. M : n = fault - 1
      BY <1>2, <2>2
    <3>2. PICK S : S = {C[i] : i \in 1 .. M}
      OBVIOUS
    <3>3. C \in Seq(S)
      BY <1>2, <3>2
    <3>4. scanned = SubSeq(C, 1, n)
      BY <2>2, <3>1
    <3>5. Len(scanned) = n /\ DOMAIN scanned = 1 .. n /\ \A p \in 1 .. n : scanned[p] = C[p]
      BY <1>2, <3>3, <3>4
    <3> QED BY <2>2, <3>5
  <2> QED BY <2>1, <2>2
<1>4. \A p \in 1 .. N : p \in 1 .. M
  OBVIOUS
<1>5. ASSUME NEW p \in 1 .. N PROVE Matches(known, scanned[p]) <=> IsDirection(c, C[p].domains)
  <2>1. PICK U : U = C[p].domains
    OBVIOUS
  <2>2. /\ C[p] = Candidate(c, k, U) /\ DOMAIN U = SlotsOf(c)
        /\ \A s \in SlotsOf(c) : U[s] \in ImagesOf(c, s, RowsOf(c, k)[s])
    BY <1>1, <1>2, <1>4, <2>1 DEF CandidatesTell
  <2>3. OfVectors(c, U)
    BY <2>2, ImagesAreVectors
  <2>4. C[p].group = Common(c, U)
    BY <2>2 DEF Candidate
  <2>5. scanned[p] = C[p] /\ p \in DOMAIN scanned
    BY <1>3
  <2>6. known[Common(c, U)] = SubductionFrequency(c, Common(c, U))
    <3>1. Common(c, U) \in {scanned[i].group : i \in DOMAIN scanned}
      BY <2>4, <2>5
    <3> QED BY <3>1 DEF Frequencies
  <2>7. Matches(known, scanned[p]) <=> SubductionFrequency(c, Common(c, U)) = FreeRows(U)
    BY <2>1, <2>4, <2>5, <2>6 DEF Matches
  <2>8. DOMAIN U = SlotsOf(c)
    BY <2>2
  <2>9. SubductionFrequency(c, Common(c, U)) = FreeRows(U) <=> IsDirection(c, U)
    BY <2>3, <2>8, MatchIs
  <2> QED BY <2>1, <2>7, <2>9
<1> QED BY <1>2, <1>3, <1>4, <1>5 DEF Judged

-----------------------------------------------------------------------------
(* The scan *)

\* The rows of a list are directions of the first n choices of rows.
ListedFrom(rows, c, n) ==
    /\ AreRowsListed(rows)
    /\ \A i \in 1 .. Len(rows) : \E k \in 0 .. n - 1 : \E p \in 1 .. Len(Candidates(c, k)) :
           rows[i] = Candidates(c, k)[p] /\ IsDirection(c, rows[i].domains)
\* The directions of the first n choices of rows are listed.
Offered(rows, c, n) ==
    \A k \in 0 .. n - 1 : \A p \in 1 .. Len(Candidates(c, k)) :
        LET row == Candidates(c, k)[p]
        IN  IsDirection(c, row.domains) /\ row.group \notin Unnamed =>
                \E i \in 1 .. Len(rows) : SameKey(rows[i], row)

\* What a scan finds is what there is, up to the choice of rows it has reached.
CoupledInv ==
    /\ FrequenciesRight
    /\ coupling = "idle" => listed = <<>>
    /\ coupling # "idle" =>
           couple \in Couples /\ combo \in 0 .. Combos(couple) /\ ListedFrom(listed, couple, combo)
    /\ coupling = "scanning" => combo # Combos(couple) /\ Offered(listed, couple, combo)
    /\ coupling = "answered" /\ ~Full(listed) => Offered(listed, couple, Combos(couple))

\* One choice of rows is scanned.
LEMMA ChoiceScanned ==
    ASSUME NEW c \in Couples, NEW k \in 0 .. Combos(c) - 1, NEW C, C = Candidates(c, k),
           NEW fault \in 0 .. Len(C), NEW scanned,
           scanned = IF fault = 0 THEN C ELSE SubSeq(C, 1, fault - 1),
           NEW before, \A H \in DOMAIN before : before[H] = SubductionFrequency(c, H),
           NEW known, known = Frequencies(before, c, scanned),
           NEW rows, ListedFrom(rows, c, k), NEW more, more = Emitted(rows, known, scanned)
    PROVE  /\ ListedFrom(more, c, k + 1)
           /\ Offered(rows, c, k) /\ fault = 0 => Full(more) \/ Offered(more, c, k + 1)
<1>0. PICK N \in 0 .. Len(C) : Judged(c, C, fault, scanned, known, N)
  BY ScannedAre
<1>1. /\ Len(scanned) = N /\ (fault = 0 => N = Len(C))
      /\ \A p \in 1 .. N : /\ p \in 1 .. Len(C) /\ scanned[p] = C[p]
                           /\ Matches(known, scanned[p]) <=> IsDirection(c, C[p].domains)
  BY <1>0 DEF Judged
<1>2. PICK M \in Nat : M = Len(C)
  BY CandidatesAre DEF CandidatesTell
<1>3. N \in Nat /\ Len(scanned) = N
  BY <1>1, <1>2
<1>4. AreRowsListed(rows)
  BY DEF ListedFrom
<1>5. Adds(rows, more, known, scanned, N)
  BY <1>3, <1>4, EmittedAre
<1>6. k \in Int /\ k + 1 - 1 = k /\ k \in 0 .. k /\ \A l \in 0 .. k - 1 : l \in 0 .. k
  BY ChoicesAre
<1>7. \A l \in 0 .. k : l \in 0 .. k - 1 \/ l = k
  BY <1>6
<1>8. ListedFrom(more, c, k + 1)
  <2>1. AreRowsListed(more)
    BY <1>5 DEF Adds
  <2>2. ASSUME NEW i \in 1 .. Len(more)
        PROVE  \E l \in 0 .. k : \E p \in 1 .. Len(Candidates(c, l)) :
                   more[i] = Candidates(c, l)[p] /\ IsDirection(c, more[i].domains)
    <3>1. CASE i \in 1 .. Len(rows)
      <4>1. more[i] = rows[i]
        BY <1>5, <3>1 DEF Adds
      <4>2. PICK l \in 0 .. k - 1 : \E p \in 1 .. Len(Candidates(c, l)) :
                   rows[i] = Candidates(c, l)[p] /\ IsDirection(c, rows[i].domains)
        BY <3>1 DEF ListedFrom
      <4> QED BY <1>6, <4>1, <4>2
    <3>2. CASE i \notin 1 .. Len(rows)
      <4>1. PICK p \in 1 .. N : more[i] = scanned[p] /\ Matches(known, scanned[p])
        <5>1. \A x \in 1 .. Len(more) : x \in 1 .. Len(rows) \/
                  \E p \in 1 .. N : more[x] = scanned[p] /\ Matches(known, scanned[p])
          BY <1>5, Zenon DEF Adds
        <5> QED BY <3>2, <5>1
      <4>2. p \in 1 .. Len(C) /\ more[i] = C[p] /\ IsDirection(c, C[p].domains)
        BY <1>1, <4>1
      <4> QED BY <1>6, <4>2
    <3> QED BY <3>1, <3>2
  <2> QED BY <1>6, <2>1, <2>2 DEF ListedFrom
<1>9. ASSUME Offered(rows, c, k), fault = 0, ~Full(more) PROVE Offered(more, c, k + 1)
  <2>1. ASSUME NEW l \in 0 .. k, NEW p \in 1 .. Len(Candidates(c, l)),
               IsDirection(c, Candidates(c, l)[p].domains), Candidates(c, l)[p].group \notin Unnamed
        PROVE  \E i \in 1 .. Len(more) : SameKey(more[i], Candidates(c, l)[p])
    <3>1. CASE l = k
      <4>1. p \in 1 .. N /\ Candidates(c, l)[p] = C[p]
        BY <1>1, <1>9, <2>1, <3>1
      <4>2. scanned[p] = C[p] /\ Matches(known, scanned[p]) /\ scanned[p].group \notin Unnamed
        BY <1>1, <2>1, <4>1
      <4> QED BY <1>5, <1>9, <4>1, <4>2 DEF Adds
    <3>2. CASE l \in 0 .. k - 1
      <4>1. PICK i \in 1 .. Len(rows) : SameKey(rows[i], Candidates(c, l)[p])
        BY <1>9, <2>1, <3>2 DEF Offered
      <4>2. more[i] = rows[i]
        BY <1>5 DEF Adds
      <4>3. i \in 1 .. Len(more)
        <5>1. Len(rows) \in Nat /\ Len(more) \in Nat /\ Len(rows) <= Len(more)
          BY <1>4, <1>5 DEF Adds, AreRowsListed
        <5> QED BY <5>1
      <4> QED BY <4>1, <4>2, <4>3
    <3> QED BY <1>7, <3>1, <3>2
  <2> QED BY <1>6, <2>1 DEF Offered
<1> QED BY <1>8, <1>9

\* A request starts with no rows, none of its choices of rows done.
LEMMA NothingScanned ==
    ASSUME NEW c \in Couples
    PROVE  /\ 0 \in 0 .. Combos(c) /\ 0 # Combos(c)
           /\ ListedFrom(<<>>, c, 0) /\ Offered(<<>>, c, 0)
<1>1. Combos(c) \in Nat \ {0}
  BY ChoicesAre
<1>2. AreRowsListed(<<>>)
  BY DEF AreRowsListed
<1>3. \A k \in 0 .. 0 - 1 : FALSE
  OBVIOUS
<1> QED BY <1>1, <1>2, <1>3 DEF ListedFrom, Offered

\* A scan that has come to a choice of rows does it.
LEMMA ScanKeepsInv ==
    ASSUME CoupledInv, coupling = "scanning", NEW fault \in 0 .. Len(Candidates(couple, combo)),
           ScanRows(Candidates(couple, combo), fault)
    PROVE  CoupledInv'
<1> DEFINE C == Candidates(couple, combo)
           scanned == IF fault = 0 THEN C ELSE SubSeq(C, 1, fault - 1)
           known == Frequencies(frequencies, couple, scanned)
           rows == Emitted(listed, known, scanned)
<1>1. couple \in Couples /\ combo \in 0 .. Combos(couple) /\ ListedFrom(listed, couple, combo)
  BY DEF CoupledInv
<1>2. combo # Combos(couple) /\ Offered(listed, couple, combo)
  BY DEF CoupledInv
<1>3. Combos(couple) \in Nat
  BY <1>1, ChoicesAre
<1>4. combo \in 0 .. Combos(couple) - 1 /\ combo + 1 \in 0 .. Combos(couple)
  BY <1>1, <1>2, <1>3
<1>5. \A H \in DOMAIN frequencies : frequencies[H] = SubductionFrequency(couple, H)
  BY DEF CoupledInv, FrequenciesRight
<1>6. ListedFrom(rows, couple, combo + 1) /\ (fault = 0 => Full(rows) \/ Offered(rows, couple, combo + 1))
  <2>1. couple \in Couples
    BY <1>1
  <2>2. combo \in 0 .. Combos(couple) - 1
    BY <1>4
  <2>3. ListedFrom(listed, couple, combo)
    BY <1>1
  <2> HIDE DEF C, scanned, known, rows
  <2>4. C = Candidates(couple, combo)
    BY DEF C
  <2>5. scanned = IF fault = 0 THEN C ELSE SubSeq(C, 1, fault - 1)
    BY DEF scanned
  <2>6. known = Frequencies(frequencies, couple, scanned)
    BY DEF known
  <2>7. rows = Emitted(listed, known, scanned)
    BY DEF rows
  <2>8. fault \in 0 .. Len(C)
    BY <2>4
  <2>9. /\ ListedFrom(rows, couple, combo + 1)
        /\ Offered(listed, couple, combo) /\ fault = 0 => Full(rows) \/ Offered(rows, couple, combo + 1)
    BY <1>5, <2>1, <2>2, <2>3, <2>4, <2>5, <2>6, <2>7, <2>8, ChoiceScanned
  <2> QED BY <1>2, <2>9
<1>7. /\ listed' = rows /\ combo' = combo + 1 /\ couple' = couple /\ rowLimit' = rowLimit
      /\ coupling' = CASE Full(rows) -> "answered"
                       [] ~Full(rows) /\ fault # 0 -> "failed"
                       [] ~Full(rows) /\ fault = 0 ->
                              IF combo + 1 = Combos(couple) THEN "answered" ELSE "scanning"
  BY DEF ScanRows
<1>8. FrequenciesRight'
  BY ScanKeepsRight DEF CoupledInv
<1>9. ListedFrom(listed, couple, combo)'
  BY <1>6, <1>7
<1>10. Full(listed)' <=> Full(rows)
  <2> HIDE DEF rows
  <2> QED BY <1>7 DEF Full
<1>11. ~Full(rows) /\ fault = 0 => Offered(listed, couple, combo)'
  BY <1>6, <1>7
<1> HIDE DEF C, scanned, known, rows
<1>12. coupling' \in {"answered", "failed", "scanning"}
  BY <1>7
<1>13. (coupling = "scanning" => combo # Combos(couple) /\ Offered(listed, couple, combo))'
  BY <1>7, <1>11
<1>14. (coupling = "answered" /\ ~Full(listed) => Offered(listed, couple, Combos(couple)))'
  BY <1>7, <1>10, <1>11
<1>15. (coupling # "idle" => couple \in Couples /\ combo \in 0 .. Combos(couple) /\ ListedFrom(listed, couple, combo))'
  BY <1>1, <1>4, <1>7, <1>9
<1> QED BY <1>8, <1>12, <1>13, <1>14, <1>15 DEF CoupledInv

\* What a scan finds is what there is, whatever step the process takes.
LEMMA CoupledInductive ==
    /\ CoupledInit \/ CoupledAtRest => CoupledInv
    /\ CoupledInv /\ [CoupledNext]_coupledVars => CoupledInv'
<1>1. CoupledInit \/ CoupledAtRest => CoupledInv
  BY FrequenciesInductive DEF CoupledInit, CoupledAtRest, CoupledInv
<1>2. ASSUME CoupledInv, NEW c \in Couples, NEW l \in RowLimits, AskCoupled(c, l) PROVE CoupledInv'
  <2>1. c \in Couples /\ 0 \in 0 .. Combos(c) /\ 0 # Combos(c) /\ ListedFrom(<<>>, c, 0) /\ Offered(<<>>, c, 0)
    BY NothingScanned
  <2>2. couple' = c /\ combo' = 0 /\ listed' = <<>> /\ coupling' = "scanning" /\ frequencies' = <<>>
    BY <1>2 DEF AskCoupled
  <2>3. FrequenciesRight'
    BY <2>2 DEF FrequenciesRight
  <2>4. (couple \in Couples /\ combo \in 0 .. Combos(couple) /\ ListedFrom(listed, couple, combo))'
    BY <2>1, <2>2
  <2>5. (combo # Combos(couple) /\ Offered(listed, couple, combo))'
    BY <2>1, <2>2
  <2> QED BY <2>2, <2>3, <2>4, <2>5 DEF CoupledInv
<1>3. ASSUME CoupledInv, coupling = "scanning", NEW rows \in {Candidates(couple, combo)},
             NEW fault \in 0 .. Len(rows), ScanRows(rows, fault)
      PROVE  CoupledInv'
  BY <1>3, ScanKeepsInv
<1>4. ASSUME CoupledInv, UNCHANGED coupledVars PROVE CoupledInv'
  <2>1. /\ couple' = couple /\ combo' = combo /\ listed' = listed /\ coupling' = coupling
        /\ rowLimit' = rowLimit /\ frequencies' = frequencies
    BY <1>4 DEF coupledVars
  <2>2. FrequenciesRight'
    BY <1>4, FrequenciesInductive DEF CoupledInv
  <2> QED BY <1>4, <2>1, <2>2 DEF CoupledInv, Full
<1> QED BY <1>1, <1>2, <1>3, <1>4 DEF CoupledNext

\* A listed row is a candidate of a choice of rows.
LEMMA RowIsCandidate ==
    ASSUME NEW c \in Couples, NEW rows, ListedFrom(rows, c, Combos(c)), NEW i \in 1 .. Len(rows)
    PROVE  \E k \in 0 .. Combos(c) - 1 : \E p \in 1 .. Len(Candidates(c, k)) :
               /\ rows[i] = Candidates(c, k)[p] /\ IsDirection(c, rows[i].domains)
               /\ rows[i].rows = k /\ rows[i].group = Common(c, rows[i].domains)
               /\ \A s \in SlotsOf(c) : rows[i].domains[s] \in ImagesOf(c, s, RowsOf(c, k)[s])
<1>1. PICK k \in 0 .. Combos(c) - 1 : \E p \in 1 .. Len(Candidates(c, k)) :
               rows[i] = Candidates(c, k)[p] /\ IsDirection(c, rows[i].domains)
  BY DEF ListedFrom
<1>2. PICK p \in 1 .. Len(Candidates(c, k)) :
               rows[i] = Candidates(c, k)[p] /\ IsDirection(c, rows[i].domains)
  BY <1>1
<1>3. CandidatesTell(c, k, RowsOf(c, k), Candidates(c, k))
  BY CandidatesAre
<1>4. /\ rows[i] = Candidate(c, k, rows[i].domains)
      /\ \A s \in SlotsOf(c) : rows[i].domains[s] \in ImagesOf(c, s, RowsOf(c, k)[s])
  BY <1>2, <1>3 DEF CandidatesTell
<1>5. rows[i].rows = k /\ rows[i].group = Common(c, rows[i].domains)
  <2>1. PICK U : U = rows[i].domains
    OBVIOUS
  <2>2. rows[i] = [rows |-> k, domains |-> U, group |-> Common(c, U)]
    BY <1>4, <2>1 DEF Candidate
  <2> QED BY <2>1, <2>2
<1> QED BY <1>2, <1>4, <1>5

\* The rows of the first choices are rows of all.
LEMMA ListedFromAll ==
    ASSUME NEW c \in Couples, NEW n \in 0 .. Combos(c), NEW rows, ListedFrom(rows, c, n)
    PROVE  ListedFrom(rows, c, Combos(c))
<1>1. Combos(c) \in Nat
  BY ChoicesAre
<1>2. \A k \in 0 .. n - 1 : k \in 0 .. Combos(c) - 1
  BY <1>1
<1> QED BY <1>2 DEF ListedFrom

\* No operation carries one listed row to another.
LEMMA RowsApart ==
    ASSUME NEW c \in Couples, NEW rows, ListedFrom(rows, c, Combos(c)),
           NEW i \in 1 .. Len(rows), NEW j \in 1 .. i - 1
    PROVE  ~Equivalent(c, rows[j].domains, rows[i].domains)
<1> SUFFICES ASSUME Equivalent(c, rows[j].domains, rows[i].domains) PROVE FALSE
  OBVIOUS
<1>1. j \in 1 .. Len(rows) /\ ~SameKey(rows[j], rows[i])
  BY DEF ListedFrom, AreRowsListed
<1>2. PICK k \in 0 .. Combos(c) - 1 : \E p \in 1 .. Len(Candidates(c, k)) :
               /\ rows[i] = Candidates(c, k)[p] /\ IsDirection(c, rows[i].domains)
               /\ rows[i].rows = k /\ rows[i].group = Common(c, rows[i].domains)
               /\ \A s \in SlotsOf(c) : rows[i].domains[s] \in ImagesOf(c, s, RowsOf(c, k)[s])
  BY RowIsCandidate
<1>3. PICK l \in 0 .. Combos(c) - 1 : \E q \in 1 .. Len(Candidates(c, l)) :
               /\ rows[j] = Candidates(c, l)[q] /\ IsDirection(c, rows[j].domains)
               /\ rows[j].rows = l /\ rows[j].group = Common(c, rows[j].domains)
               /\ \A s \in SlotsOf(c) : rows[j].domains[s] \in ImagesOf(c, s, RowsOf(c, l)[s])
  BY <1>1, RowIsCandidate
<1>4. \A s \in SlotsOf(c) : rows[i].domains[s] \in ImagesOf(c, s, RowsOf(c, k)[s])
  BY <1>2
<1>5. \A s \in SlotsOf(c) : rows[j].domains[s] \in ImagesOf(c, s, RowsOf(c, l)[s])
  BY <1>3
<1>6. l = k
  BY <1>4, <1>5, ChoicesApart
<1>7. PICK C : C = Candidates(c, k)
  OBVIOUS
<1>8. PICK M \in Nat : M = Len(C) /\ \A a \in 1 .. M : \A b \in 1 .. a - 1 : ~Equivalent(c, C[b].domains, C[a].domains)
  BY <1>7, CandidatesAre DEF CandidatesTell
<1>9. PICK p \in 1 .. M : rows[i] = C[p]
  BY <1>2, <1>7, <1>8
<1>10. PICK q \in 1 .. M : rows[j] = C[q]
  BY <1>3, <1>6, <1>7, <1>8
<1>11. OfVectors(c, rows[j].domains)
  BY <1>5, ImagesAreVectors
<1>12. Equivalent(c, rows[i].domains, rows[j].domains)
  BY <1>11, EquivalentBack
<1>13. q \in 1 .. p - 1 \/ p \in 1 .. q - 1 \/ p = q
  OBVIOUS
<1>14. p = q
  BY <1>8, <1>9, <1>10, <1>12, <1>13
<1> QED BY <1>1, <1>9, <1>10, <1>14 DEF SameKey

\* A direction whose group is identified is carried from a listed row.
LEMMA DirectionListed ==
    ASSUME NEW c \in Couples, NEW rows, ListedFrom(rows, c, Combos(c)), Offered(rows, c, Combos(c)),
           NEW U \in AllDirections(c), IsDirection(c, U), Common(c, U) \notin Unnamed
    PROVE  \E i \in 1 .. Len(rows) : Equivalent(c, rows[i].domains, U)
<1>1. PICK k \in 0 .. Combos(c) - 1 : \A s \in SlotsOf(c) : U[s] \in ImagesOf(c, s, RowsOf(c, k)[s])
  BY DirectionsAreImages
<1>2. PICK C : C = Candidates(c, k)
  OBVIOUS
<1>3. CandidatesTell(c, k, RowsOf(c, k), C)
  BY <1>2, CandidatesAre
<1>4. PICK p \in 1 .. Len(C) : Equivalent(c, C[p].domains, U)
  BY <1>1, <1>3 DEF CandidatesTell
<1>5. PICK V : V = C[p].domains
  OBVIOUS
<1>6. C[p] = Candidate(c, k, V) /\ \A s \in SlotsOf(c) : V[s] \in ImagesOf(c, s, RowsOf(c, k)[s])
  BY <1>3, <1>5 DEF CandidatesTell
<1>7. C[p].rows = k /\ C[p].group = Common(c, V)
  BY <1>6 DEF Candidate
<1>8. \A s \in SlotsOf(c) : V[s] \in ImagesOf(c, s, RowsOf(c, k)[s])
  BY <1>6
<1>9. OfVectors(c, V)
  BY <1>8, ImagesAreVectors
<1>10. OfVectors(c, U)
  BY <1>1, ImagesAreVectors
<1>11. Equivalent(c, V, U)
  BY <1>4, <1>5
<1>12. Equivalent(c, U, V)
  BY <1>9, <1>11, EquivalentBack
<1>13. IsDirection(c, V)
  BY <1>10, <1>12, DirectionCarried
<1>14. Common(c, V) \notin Unnamed
  BY <1>9, <1>11, NamedCarried
<1>15. PICK i \in 1 .. Len(rows) : SameKey(rows[i], C[p])
  BY <1>2, <1>5, <1>7, <1>13, <1>14 DEF Offered
<1>16. PICK l \in 0 .. Combos(c) - 1 : \E q \in 1 .. Len(Candidates(c, l)) :
               /\ rows[i] = Candidates(c, l)[q] /\ IsDirection(c, rows[i].domains)
               /\ rows[i].rows = l /\ rows[i].group = Common(c, rows[i].domains)
               /\ \A s \in SlotsOf(c) : rows[i].domains[s] \in ImagesOf(c, s, RowsOf(c, l)[s])
  BY RowIsCandidate
<1>17. rows[i].group = Common(c, V) /\ Common(c, rows[i].domains) = Common(c, V) /\ IsDirection(c, rows[i].domains)
  BY <1>7, <1>15, <1>16 DEF SameKey
<1>18. \A s \in SlotsOf(c) : rows[i].domains[s] = V[s]
  BY <1>13, <1>17 DEF IsDirection
<1>19. Equivalent(c, rows[i].domains, U)
  BY <1>11, <1>18 DEF Equivalent
<1> QED BY <1>19

\* What is there is listed once, and all of it.
LEMMA CoupledAsPromised ==
    ASSUME CoupledInv
    PROVE  CoupledDistinct /\ CoupledComplete
<1>1. ASSUME coupling # "idle"
      PROVE  couple \in Couples /\ ListedFrom(listed, couple, Combos(couple)) /\ DOMAIN listed = 1 .. Len(listed)
  <2>1. couple \in Couples /\ combo \in 0 .. Combos(couple) /\ ListedFrom(listed, couple, combo)
    BY <1>1 DEF CoupledInv
  <2>2. ListedFrom(listed, couple, Combos(couple))
    BY <2>1, ListedFromAll
  <2> QED BY <2>1, <2>2 DEF ListedFrom, AreRowsListed
<1>2. CoupledDistinct
  <2>1. CASE coupling = "idle"
    BY <2>1 DEF CoupledInv, CoupledDistinct
  <2>2. CASE coupling # "idle"
    <3>1. \A i \in 1 .. Len(listed) : IsDirection(couple, listed[i].domains)
      BY <1>1, <2>2 DEF ListedFrom
    <3>2. \A i \in 1 .. Len(listed) : \A j \in 1 .. i - 1 : ~Equivalent(couple, listed[j].domains, listed[i].domains)
      BY <1>1, <2>2, RowsApart
    <3> QED BY <1>1, <2>2, <3>1, <3>2 DEF CoupledDistinct
  <2> QED BY <2>1, <2>2
<1>3. CoupledComplete
  <2> SUFFICES ASSUME coupling = "answered", ~Full(listed), NEW U \in AllDirections(couple),
                      IsDirection(couple, U), Common(couple, U) \notin Unnamed
               PROVE  \E i \in DOMAIN listed : Equivalent(couple, listed[i].domains, U)
    BY DEF CoupledComplete
  <2>1. Offered(listed, couple, Combos(couple))
    BY DEF CoupledInv
  <2>2. couple \in Couples /\ ListedFrom(listed, couple, Combos(couple)) /\ DOMAIN listed = 1 .. Len(listed)
    BY <1>1
  <2>3. \E i \in 1 .. Len(listed) : Equivalent(couple, listed[i].domains, U)
    BY <2>1, <2>2, DirectionListed
  <2> QED BY <2>2, <2>3
<1> QED BY <1>2, <1>3

-----------------------------------------------------------------------------
(* The k families: lists of numbers and vectors *)

(* All the numbers up to n that are in a set, and no others. *)
ListsUp(o, S, n) ==
    /\ o \in Seq(S \cap 1 .. n)
    /\ \A x \in S \cap 1 .. n : \E i \in DOMAIN o : o[i] = x

\* The numbers up to a number that are in a set, all of them and no others.
LEMMA AscendingLists ==
    ASSUME NEW N \in Nat, NEW S
    PROVE  ListsUp(Ascending(S, N), S, N)
<1> DEFINE X == Seq(S \cap 1 .. N)
           g == [n \in 1 .. N |-> [x \in X |-> IF n \in S THEN Append(x, n) ELSE x]]
<1>1. \A n \in 1 .. N, x \in X : g[n][x] = (IF n \in S THEN Append(x, n) ELSE x) /\ g[n][x] \in X
  OBVIOUS
<1>2. <<>> \in X
  OBVIOUS
<1>3. PICK t : Iterates(t, N, <<>>, g) /\ \A n \in 0 .. N : t[n] \in X
  <2> HIDE DEF g, X
  <2>1. \A n \in 1 .. N, x \in X : g[n][x] \in X
    BY <1>1
  <2> QED BY <1>2, <2>1, Iteration, ZenonT(60)
<1>4. t = [n \in 0 .. N |-> IF n = 0 THEN <<>> ELSE g[n][t[n - 1]]]
  BY <1>3 DEF Iterates
<1>5. t = [n \in 0 .. N |-> IF n = 0 THEN <<>> ELSE IF n \in S THEN Append(t[n - 1], n) ELSE t[n - 1]]
  <2>1. \A n \in 0 .. N : n # 0 => g[n][t[n - 1]] = IF n \in S THEN Append(t[n - 1], n) ELSE t[n - 1]
    <3>1. \A n \in 0 .. N : n # 0 => n \in 1 .. N /\ n - 1 \in 0 .. N
      OBVIOUS
    <3> HIDE DEF g, X
    <3> QED BY <1>1, <1>3, <3>1
  <2> HIDE DEF g, X
  <2> QED BY <1>4, <2>1
<1>6. PICK order : order = CHOOSE o : o = [i \in 0 .. N |->
                        IF i = 0 THEN <<>> ELSE IF i \in S THEN Append(o[i - 1], i) ELSE o[i - 1]]
  BY Zenon
<1>7. order = [i \in 0 .. N |->
                        IF i = 0 THEN <<>> ELSE IF i \in S THEN Append(order[i - 1], i) ELSE order[i - 1]]
  BY <1>5, <1>6, Zenon
<1>8. Ascending(S, N) = order[N]
  BY <1>6 DEF Ascending
<1> HIDE DEF g, X
<1> DEFINE Lists(n, o) == o \in X /\ \A x \in S \cap 1 .. n : \E i \in DOMAIN o : o[i] = x
           T == {n \in 0 .. N : Lists(n, order[n])}
<1>9. 0 \in T
  BY <1>2, <1>7
<1>10. ASSUME NEW n \in 1 .. N, n - 1 \in T PROVE n \in T
  <2>1. PICK o : o = order[n - 1] /\ Lists(n - 1, o)
    BY <1>10
  <2>2. n \in 0 .. N /\ n # 0
    OBVIOUS
  <2>3. order[n] = IF n \in S THEN Append(o, n) ELSE o
    BY <1>7, <2>1, <2>2
  <2>4. o \in Seq(S \cap 1 .. N) /\ \A x \in S \cap 1 .. n - 1 : \E i \in DOMAIN o : o[i] = x
    BY <2>1 DEF X
  <2>5. CASE n \in S
    <3>1. Append(o, n) \in Seq(S \cap 1 .. N)
      BY <2>4, <2>5
    <3>2. \A x \in S \cap 1 .. n : \E i \in DOMAIN Append(o, n) : Append(o, n)[i] = x
      <4>1. DOMAIN Append(o, n) = 1 .. Len(o) + 1 /\ Append(o, n)[Len(o) + 1] = n /\ Len(o) \in Nat
            /\ \A i \in DOMAIN o : i \in 1 .. Len(o) + 1 /\ Append(o, n)[i] = o[i]
        BY <2>4
      <4>2. \A x \in S \cap 1 .. n : x = n \/ x \in S \cap 1 .. n - 1
        OBVIOUS
      <4> QED BY <2>4, <4>1, <4>2
    <3> QED BY <2>2, <2>3, <2>5, <3>1, <3>2 DEF X
  <2>6. CASE n \notin S
    <3>1. \A x \in S \cap 1 .. n : x \in S \cap 1 .. n - 1
      BY <2>6
    <3> QED BY <2>2, <2>3, <2>4, <2>6, <3>1 DEF X
  <2> QED BY <2>5, <2>6
<1>11. 0 .. N \subseteq T
  <2> HIDE DEF T
  <2> QED BY <1>9, <1>10, UpTo
<1>12. N \in 0 .. N
  OBVIOUS
<1>13. PICK o : o = order[N] /\ Lists(N, o)
  BY <1>11, <1>12
<1>14. ListsUp(o, S, N)
  BY <1>13 DEF X, ListsUp
<1> QED BY <1>8, <1>13, <1>14

-----------------------------------------------------------------------------
(* The reciprocal mesh *)

Vectors3 == [1 .. 3 -> Int]
(* Vectors with coordinates modulo a number. *)
Modulo(d) == [1 .. 3 -> 0 .. d - 1]


Zero3 == <<0, 0, 0>>

\* The generators of a mesh are vectors modulo the volume, which is not 0.
LEMMA MeshGeneratorsAre ==
    ASSUME NEW b \in Matrices, Det(b) # 0
    PROVE  /\ Abs(Det(b)) \in Nat \ {0}
           /\ \A i \in 1 .. 3 : MeshGenerators(b)[i] \in Vectors3
<1>1. /\ b[1] \in Vectors3 /\ b[2] \in Vectors3 /\ b[3] \in Vectors3
  BY DEF Matrices, Vectors3
<1>2. \A u, v \in Vectors3 : Cross(u, v) \in Vectors3 /\ Dot(u, v) \in Int
  <2> SUFFICES ASSUME NEW u \in Vectors3, NEW v \in Vectors3 PROVE Cross(u, v) \in Vectors3 /\ Dot(u, v) \in Int
    OBVIOUS
  <2>1. u[1] \in Int /\ u[2] \in Int /\ u[3] \in Int /\ v[1] \in Int /\ v[2] \in Int /\ v[3] \in Int
    BY DEF Vectors3
  <2> QED BY <2>1 DEF Cross, Dot, Vectors3
<1>3. Det(b) \in Int
  BY <1>1, <1>2 DEF Det
<1>4. Abs(Det(b)) \in Nat \ {0}
  BY <1>3 DEF Abs
<1>5. PICK d \in Nat \ {0} : d = Abs(Det(b))
  BY <1>4
<1>6. \A v \in Vectors3 : [i \in 1 .. 3 |-> (IF Det(b) < 0 THEN -v[i] ELSE v[i]) % Abs(Det(b))] \in Vectors3
  <2> SUFFICES ASSUME NEW v \in Vectors3, NEW i \in 1 .. 3
               PROVE (IF Det(b) < 0 THEN -v[i] ELSE v[i]) % Abs(Det(b)) \in Int
    BY DEF Vectors3
  <2>1. PICK x \in Int : x = IF Det(b) < 0 THEN -v[i] ELSE v[i]
    BY DEF Vectors3
  <2>2. x % d \in Int
    OBVIOUS
  <2> QED BY <1>5, <2>1, <2>2
<1> QED BY <1>1, <1>2, <1>4, <1>6 DEF MeshGenerators

\* A multiple of a vector, modulo a number: none of it and that number of it
\* are nothing.
LEMMA OffsetIs ==
    ASSUME NEW d \in Nat \ {0}, NEW g \in Vectors3, NEW n \in Int
    PROVE  /\ Offset(n, g, d) \in Modulo(d)
           /\ n \in {0, d} => Offset(n, g, d) = Zero3
<1>1. \A i \in 1 .. 3 : (-n * g[i]) % d \in 0 .. d - 1 /\ (n \in {0, d} => (-n * g[i]) % d = 0)
  <2> SUFFICES ASSUME NEW i \in 1 .. 3
               PROVE  (-n * g[i]) % d \in 0 .. d - 1 /\ (n \in {0, d} => (-n * g[i]) % d = 0)
    OBVIOUS
  <2>1. PICK x \in Int : x = g[i]
    BY DEF Vectors3
  <2>2. PICK y \in Int : y = -n * x
    OBVIOUS
  <2>3. y % d \in 0 .. d - 1
    OBVIOUS
  <2>4. ASSUME n = 0 PROVE y % d = 0
    BY <2>2, <2>4
  <2>5. ASSUME n = d PROVE y % d = 0
    <3>1. PICK z \in Int : z = -x
      OBVIOUS
    <3>2. y = z * d
      BY <2>2, <2>5, <3>1
    <3>3. (z * d) % d = 0
      OBVIOUS
    <3> QED BY <3>2, <3>3
  <2> QED BY <2>1, <2>2, <2>3, <2>4, <2>5
<1> QED BY <1>1 DEF Offset, Modulo, Zero3

\* The offsets of a generator are one or more vectors, and nothing is one.
LEMMA CyclicAre ==
    ASSUME NEW d \in Nat \ {0}, NEW g \in Vectors3, NEW H, Zero3 \in H
    PROVE  \E c \in 1 .. d :
               /\ CyclicOffsets(g, H, d) \in [1 .. c -> Modulo(d)]
               /\ CyclicOffsets(g, H, d)[1] = Zero3
<1> DEFINE S == {n \in 1 .. d : Offset(n, g, d) \in H}
<1>1. d \in S
  BY OffsetIs
<1>2. IsFiniteSet(S) /\ S \subseteq Int
  <2>1. IsFiniteSet(1 .. d) /\ S \in SUBSET (1 .. d) /\ 1 .. d \subseteq Int
    BY FS_Interval
  <2> HIDE DEF S
  <2> QED BY <2>1, FS_Subset
<1>3. Min(S) \in S
  BY <1>1, <1>2, MaxMin
<1>4. PICK c \in 1 .. d : c = Min(S)
  BY <1>3
<1>5. CyclicOffsets(g, H, d) = [n \in 1 .. c |-> Offset(n - 1, g, d)]
  BY <1>4 DEF CyclicOffsets
<1>6. \A n \in 1 .. c : Offset(n - 1, g, d) \in Modulo(d)
  BY OffsetIs
<1>7. 1 \in 1 .. c /\ Offset(1 - 1, g, d) = Zero3
  BY OffsetIs
<1> QED BY <1>5, <1>6, <1>7

\* The sum of two vectors, modulo a number.
LEMMA PlusIs ==
    ASSUME NEW d \in Nat \ {0}, NEW u \in Modulo(d), NEW v \in Modulo(d)
    PROVE  /\ PlusMod(u, v, d) \in Modulo(d)
           /\ u = Zero3 /\ v = Zero3 => PlusMod(u, v, d) = Zero3
<1>1. \A i \in 1 .. 3 : (u[i] + v[i]) % d \in 0 .. d - 1
  <2> SUFFICES ASSUME NEW i \in 1 .. 3 PROVE (u[i] + v[i]) % d \in 0 .. d - 1
    OBVIOUS
  <2>1. PICK x \in Int : x = u[i] + v[i]
    BY DEF Modulo
  <2> QED BY <2>1
<1>2. 0 % d = 0
  OBVIOUS
<1>3. ASSUME u = Zero3, v = Zero3 PROVE PlusMod(u, v, d) = Zero3
  <2>1. \A i \in 1 .. 3 : u[i] + v[i] = 0
    BY <1>3 DEF Zero3
  <2> QED BY <1>2, <2>1 DEF PlusMod, Zero3
<1> QED BY <1>1, <1>3 DEF PlusMod, Modulo

\* A coordinate brought from one denominator to another stays below it.
LEMMA Scaled ==
    ASSUME NEW d \in Nat \ {0}, NEW k \in Nat \ {0}, NEW x \in 0 .. d - 1
    PROVE  (x * k) \div d \in 0 .. k - 1
<1>1. PICK p \in Nat : p = x * k
  BY ProductIsNat
<1>2. PICK q \in Nat : q = p \div d
  BY DividedUp
<1>3. PICK r \in 0 .. d - 1 : r = p % d
  BY DividedUp
<1>4. p = q * d + r
  BY <1>2, <1>3, DividedUp
<1>5. ASSUME k <= q PROVE FALSE
  <2>1. k * d <= q * d
    BY <1>5, ProductGrows
  <2>2. (x + 1) * k <= d * k
    BY ProductGrows
  <2>3. (x + 1) * k = p + k /\ d * k = k * d
    BY <1>1
  <2>4. PICK y \in Int : y = k * d
    OBVIOUS
  <2>5. PICK z \in Int : z = q * d
    OBVIOUS
  <2> QED BY <1>4, <2>1, <2>2, <2>3, <2>4, <2>5
<1> QED BY <1>1, <1>2, <1>5

\* The mesh of a supercell is a list of vectors.
LEMMA MeshIs ==
    ASSUME NEW b \in Matrices, Det(b) # 0
    PROVE  ReciprocalMesh(b) \in Seq(KSpace)
<1> DEFINE d == Abs(Det(b))
           g == MeshGenerators(b)
           inner == CyclicOffsets(g[3], {<<0, 0, 0>>}, d)
           middle == CyclicOffsets(g[2], Range(inner), d)
           joined == UNION {{PlusMod(middle[s], inner[t], d) : t \in DOMAIN inner} : s \in DOMAIN middle}
           outer == CyclicOffsets(g[1], joined, d)
           Place(n) == PlusMod(outer[n \div (Len(middle) * Len(inner)) + 1],
                               PlusMod(middle[((n \div Len(inner)) % Len(middle)) + 1], inner[(n % Len(inner)) + 1], d), d)
           Down(v) == <<(v[1] * KDen) \div d, (v[2] * KDen) \div d, (v[3] * KDen) \div d>>
<1>1. ReciprocalMesh(b) = [n \in 1 .. Len(outer) * Len(middle) * Len(inner) |-> Down(Place(n - 1))]
  BY DEF ReciprocalMesh
<1>2. d \in Nat \ {0} /\ g[1] \in Vectors3 /\ g[2] \in Vectors3 /\ g[3] \in Vectors3
  BY MeshGeneratorsAre
<1> HIDE DEF d, g
<1>3. PICK tc \in 1 .. d : inner \in [1 .. tc -> Modulo(d)] /\ inner[1] = Zero3
  BY <1>2, CyclicAre DEF Zero3
<1> HIDE DEF inner
<1>4. PICK sc \in 1 .. d : middle \in [1 .. sc -> Modulo(d)] /\ middle[1] = Zero3
  <2>1. Zero3 \in Range(inner)
    BY <1>3 DEF Range
  <2> QED BY <1>2, <2>1, CyclicAre
<1> HIDE DEF middle
<1>5. PICK fc \in 1 .. d : outer \in [1 .. fc -> Modulo(d)] /\ outer[1] = Zero3
  <2>1. 1 \in DOMAIN middle /\ 1 \in DOMAIN inner
    BY <1>2, <1>3, <1>4
  <2>2. Zero3 \in Modulo(d)
    BY <1>2 DEF Zero3, Modulo
  <2>3. PlusMod(middle[1], inner[1], d) = Zero3
    BY <1>2, <1>3, <1>4, <2>2, PlusIs
  <2>4. Zero3 \in joined
    BY <2>1, <2>3
  <2> HIDE DEF joined
  <2> QED BY <1>2, <2>4, CyclicAre
<1> HIDE DEF outer, joined
<1>6. /\ Len(outer) = fc /\ Len(middle) = sc /\ Len(inner) = tc
       /\ fc \in Nat \ {0} /\ sc \in Nat \ {0} /\ tc \in Nat \ {0}
  BY <1>2, <1>3, <1>4, <1>5
<1>7. \A n \in 0 .. fc * sc * tc - 1 : Place(n) \in Modulo(d)
  <2> SUFFICES ASSUME NEW n \in 0 .. fc * sc * tc - 1 PROVE Place(n) \in Modulo(d)
    OBVIOUS
  <2>1. PICK m \in Nat \ {0} : m = sc * tc
    BY <1>6, ProductIsNat
  <2>2. fc * sc * tc = fc * m
    BY <1>6, <2>1
  <2>3. n \in Nat /\ n < fc * m
    BY <1>6, <2>2
  <2>4. PICK q \in Nat : q = n \div m
    BY <2>3, DividedUp
  <2>5. q < fc
    <3>1. PICK r \in 0 .. m - 1 : r = n % m
      BY <2>3, DividedUp
    <3>2. n = q * m + r
      BY <2>3, <2>4, <3>1, DividedUp
    <3>3. ASSUME fc <= q PROVE FALSE
      <4>1. fc * m <= q * m
        BY <1>6, <3>3, ProductGrows
      <4>2. PICK y \in Int : y = q * m
        OBVIOUS
      <4>3. PICK z \in Int : z = fc * m
        BY <1>6
      <4> QED BY <2>3, <3>1, <3>2, <4>1, <4>2, <4>3
    <3> QED BY <1>6, <3>3
  <2>6. q + 1 \in 1 .. fc
    BY <1>6, <2>5
  <2>7. PICK t \in 0 .. tc - 1 : t = n % tc
    BY <1>6, <2>3, DividedUp
  <2>8. PICK p \in Nat : p = n \div tc
    BY <1>6, <2>3, DividedUp
  <2>9. PICK s \in 0 .. sc - 1 : s = p % sc
    BY <1>6, DividedUp
  <2>10. t + 1 \in 1 .. tc /\ s + 1 \in 1 .. sc
    BY <1>6
  <2>11. outer[q + 1] \in Modulo(d) /\ middle[s + 1] \in Modulo(d) /\ inner[t + 1] \in Modulo(d)
    BY <1>3, <1>4, <1>5, <2>6, <2>10
  <2>12. PlusMod(outer[q + 1], PlusMod(middle[s + 1], inner[t + 1], d), d) \in Modulo(d)
    BY <1>2, <2>11, PlusIs
  <2> QED BY <1>6, <2>1, <2>4, <2>7, <2>8, <2>9, <2>12
<1>8. \A v \in Modulo(d) : Down(v) \in KSpace
  <2> SUFFICES ASSUME NEW v \in Modulo(d) PROVE Down(v) \in KSpace
    OBVIOUS
  <2>1. v[1] \in 0 .. d - 1 /\ v[2] \in 0 .. d - 1 /\ v[3] \in 0 .. d - 1
    BY <1>2 DEF Modulo
  <2> QED BY <1>2, <2>1, Scaled, KDenAssumption DEF KSpace
<1>9. fc * sc * tc \in Nat
  <2>1. fc * sc \in Nat
    BY <1>6, ProductIsNat
  <2> QED BY <1>6, <2>1, ProductIsNat
<1>10. PICK count \in Nat : count = fc * sc * tc
  BY <1>9
<1>11. \A n \in 1 .. count : Down(Place(n - 1)) \in KSpace
  <2>1. \A n \in 1 .. count : n - 1 \in 0 .. count - 1
    OBVIOUS
  <2> HIDE DEF Place, Down
  <2> QED BY <1>7, <1>8, <1>10, <2>1
<1>12. ReciprocalMesh(b) \in [1 .. count -> KSpace]
  <2> HIDE DEF Place, Down
  <2> QED BY <1>1, <1>6, <1>10, <1>11
<1> QED BY <1>12

-----------------------------------------------------------------------------
(* The k families: what is found and remembered *)

(* The star of a family with parameters, in the tables of a space group. *)
StarIn(stars, f, params) == {Mod1(v) : v \in {KVector(arm, params) : arm \in Range(stars[f])}}
(* Candidates for a target, each with a star that holds it. *)
HoldIt(stars, held, target) ==
    /\ held \in Seq(Range(held))
    /\ \A n \in DOMAIN held : target \in StarIn(stars, held[n].family, held[n].params)
(* The images of a vector under the operations of the lattice of a space group. *)
ImagesIn(sg, v) == {Mod1(w) : w \in {Rotated(m, v) : m \in Range(LatticeRotations[sg])}}
(* An occurrence is of a vector that the lattice carries onto the star of its
   family. *)
Carries(sg, f, params, v) ==
    \E w \in ImagesIn(sg, v) : w \in StarIn(Stars[sg], f, params) \/ Mod1(Neg(w)) \in StarIn(Stars[sg], f, params)

(* Of a request that is being answered: its context and its mesh, and how far
   it is. *)
ContextRight ==
    kStep # "idle" =>
        /\ kRequest \in Requested
        /\ kContext.sg = kRequest.sg /\ kContext.stars = Stars[kRequest.sg]
        /\ kContext.lattice = LatticeRotations[kRequest.sg]
        /\ kMesh \in Seq(KSpace)
TurnRight ==
    /\ kStep \in {"looking", "trying"} =>
          /\ kOrder \in DOMAIN kMesh
          /\ kTargets # <<>> /\ kTargets \in Seq(ImagesIn(kRequest.sg, kMesh[kOrder]))
    /\ kStep = "own" => kOrder \in 0 .. Len(kMesh)
    /\ kStep = "trying" => HoldIt(Stars[kRequest.sg], kHeld, Head(kTargets))
    /\ kStep \in {"looking", "own"} => kHeld = <<>>
(* What was remembered of a target, by whatever request, holds for its space
   group. *)
MemoRight ==
    \A key \in DOMAIN candidateMemo : HoldIt(Stars[key[1]], candidateMemo[key], key[2])
FoundRight ==
    /\ kMatches \in Seq(DOMAIN kFound)
    /\ \A f \in DOMAIN kFound :
          /\ kMesh[kOrder] \in ImagesIn(kRequest.sg, kMesh[kOrder])
          /\ kFound[f].vector \in ImagesIn(kRequest.sg, kMesh[kOrder])
          /\ kFound[f].vector \in StarIn(Stars[kRequest.sg], f, kFound[f].params)
OccurrencesRight ==
    /\ kGroups \in Seq(Range(kGroups)) /\ kOccurrences \in Seq(Range(kOccurrences))
    /\ \A o \in DOMAIN kOccurrences :
          /\ kOccurrences[o].group \in DOMAIN kGroups
          /\ Carries(kRequest.sg, kGroups[kOccurrences[o].group].family, kOccurrences[o].params, kOccurrences[o].vector)
    /\ kStep = "idle" => kOccurrences = <<>>
FamiliesInv ==
    /\ session \in Seq(Requested)
    /\ ContextRight /\ TurnRight /\ MemoRight /\ FoundRight /\ OccurrencesRight

\* The vectors themselves are among their images, and all of these are vectors.
LEMMA ImagesAre ==
    ASSUME NEW sg \in DOMAIN Stars, NEW v \in KSpace
    PROVE  v \in ImagesIn(sg, v)
<1>1. v[1] \in 0 .. KDen - 1 /\ v[2] \in 0 .. KDen - 1 /\ v[3] \in 0 .. KDen - 1 /\ v = <<v[1], v[2], v[3]>>
  BY DEF KSpace
<1>2. Rotated(UnitMatrix, v) = v
  BY <1>1, KDenAssumption DEF Rotated, UnitMatrix, Dot
<1>3. Mod1(v) = v
  BY <1>1, KDenAssumption DEF Mod1
<1>4. UnitMatrix \in Range(LatticeRotations[sg])
  BY KTablesAssumption
<1> QED BY <1>2, <1>3, <1>4 DEF ImagesIn

\* What is to be looked up for a vector are images of it, itself among them.
LEMMA TargetsAre ==
    ASSUME NEW sg \in DOMAIN Stars, NEW v \in KSpace, kContext.lattice = LatticeRotations[sg]
    PROVE  TargetsOf(v) \in Seq(ImagesIn(sg, v)) /\ TargetsOf(v) # <<>>
<1> DEFINE lattice == LatticeRotations[sg]
           all == <<v>> \o [g \in DOMAIN lattice |-> Mod1(Rotated(lattice[g], v))]
<1>1. lattice \in Seq(Range(lattice))
  BY KTablesAssumption
<1>2. all \in Seq(ImagesIn(sg, v))
  <2>1. v \in ImagesIn(sg, v)
    BY ImagesAre
  <2>2. \A g \in DOMAIN lattice : Mod1(Rotated(lattice[g], v)) \in ImagesIn(sg, v)
    BY DEF ImagesIn, Range
  <2>3. DOMAIN lattice = 1 .. Len(lattice) /\ Len(lattice) \in Nat
    BY <1>1
  <2>4. [g \in DOMAIN lattice |-> Mod1(Rotated(lattice[g], v))] \in Seq(ImagesIn(sg, v))
    <3> HIDE DEF lattice
    <3> QED BY <2>2, <2>3
  <2>5. <<v>> \in Seq(ImagesIn(sg, v))
    BY <2>1
  <2> QED BY <2>4, <2>5
<1> HIDE DEF all
<1>3. Heads(all) \in Seq(DOMAIN all) /\ Heads(all) # <<>>
  <2>1. Len(all) \in Nat /\ DOMAIN all = 1 .. Len(all)
    BY <1>2
  <2>2. PICK H : H = {n \in DOMAIN all : \A m \in 1 .. n - 1 : all[m] # all[n]}
    OBVIOUS
  <2>3. PICK rising : rising = Ascending(H, Len(all)) /\ ListsUp(rising, H, Len(all))
    <3>1. ListsUp(Ascending(H, Len(all)), H, Len(all))
      <4> HIDE DEF ListsUp
      <4> QED BY <2>1, AscendingLists
    <3> QED BY <3>1
  <2>4. H \cap 1 .. Len(all) \subseteq DOMAIN all
    BY <2>1
  <2>5. Heads(all) = Ascending(H, Len(all))
    BY <2>2 DEF Heads
  <2>6. 1 \in H \cap 1 .. Len(all)
    <3>1. Len(all) # 0
      BY <1>1 DEF all
    <3> QED BY <2>1, <2>2, <3>1
  <2>7. rising \in Seq(H \cap 1 .. Len(all)) /\ rising # <<>>
    BY <2>3, <2>6 DEF ListsUp
  <2> QED BY <2>3, <2>4, <2>5, <2>7
<1>4. PICK once \in Seq(DOMAIN all) : once = Heads(all) /\ once # <<>>
  BY <1>3
<1>5. TargetsOf(v) = [n \in DOMAIN once |-> all[once[n]]]
  BY <1>4 DEF TargetsOf, all, lattice
<1>6. \A n \in DOMAIN once : all[once[n]] \in ImagesIn(sg, v)
  BY <1>2
<1>7. DOMAIN once = 1 .. Len(once) /\ Len(once) \in Nat
  BY <1>4
<1> QED BY <1>4, <1>5, <1>6, <1>7

\* A star is that of the tables of the request's space group.
LEMMA StarIs ==
    ASSUME NEW sg, kContext.stars = Stars[sg], NEW f, NEW params
    PROVE  StarAt(f, params) = StarIn(Stars[sg], f, params)
BY DEF StarAt, StarIn
\* No step starts without a request.
LEMMA RequestKnown ==
    ASSUME FamiliesInv, kStep # "idle"
    PROVE  /\ kRequest \in Requested /\ kRequest.sg \in DOMAIN Stars
           /\ kContext.sg = kRequest.sg /\ kContext.stars = Stars[kRequest.sg]
           /\ kContext.lattice = LatticeRotations[kRequest.sg]
           /\ kMesh \in Seq(KSpace)
           /\ Len(kContext.stars) \in Nat
<1>1. kRequest \in Requested
  BY DEF FamiliesInv, ContextRight
<1>2. kRequest.sg \in DOMAIN Stars
  BY <1>1, KRequestsAssumption
<1>3. Stars[kRequest.sg] \in Seq(Range(Stars[kRequest.sg]))
  BY <1>2, KTablesAssumption
<1> QED BY <1>1, <1>2, <1>3 DEF FamiliesInv, ContextRight

\* A request starts over, but for what is remembered.
LEMMA AskRight == ASSUME FamiliesInv, AskFamilies PROVE FamiliesInv'
<1>1. session \in Seq(Requested) /\ session # <<>> /\ kRequest' = Head(session) /\ session' = Tail(session)
  BY DEF FamiliesInv, AskFamilies
<1>2. kRequest' \in Requested /\ session' \in Seq(Requested)
  BY <1>1
<1>3. kRequest'.basis \in Matrices /\ Det(kRequest'.basis) # 0
  BY <1>2, KRequestsAssumption
<1>4. kMesh' \in Seq(KSpace)
  <2>1. kMesh' = ReciprocalMesh(kRequest'.basis)
    BY DEF AskFamilies
  <2> QED BY <1>3, <2>1, MeshIs
<1>5. kContext' = ContextOf(kRequest'.sg)
  BY DEF AskFamilies
<1>6. kContext'.sg = kRequest'.sg /\ kContext'.stars = Stars[kRequest'.sg] /\ kContext'.lattice = LatticeRotations[kRequest'.sg]
  BY <1>5 DEF ContextOf
<1>7. ContextRight'
  BY <1>2, <1>4, <1>6 DEF ContextRight
<1>8. /\ kStep' = "own" /\ kOrder' = 0 /\ kMatches' = <<>> /\ kHeld' = <<>> /\ kFound' = <<>> /\ kGroups' = <<>>
      /\ kOccurrences' = <<>> /\ candidateMemo' = candidateMemo
  BY DEF AskFamilies
<1>9. TurnRight' /\ FoundRight' /\ OccurrencesRight'
  BY <1>4, <1>8 DEF TurnRight, FoundRight, OccurrencesRight
<1>10. MemoRight'
  BY <1>8 DEF FamiliesInv, MemoRight
<1> QED BY <1>2, <1>7, <1>9, <1>10 DEF FamiliesInv

\* Candidates that hold a target are found for the vector, if not yet for
\* another image of it.
LEMMA DoneRight ==
    ASSUME FamiliesInv, kStep \in {"looking", "trying"}, NEW held,
           HoldIt(Stars[kRequest.sg], held, Head(kTargets)), TargetDone(held)
    PROVE  session' \in Seq(Requested) /\ ContextRight' /\ TurnRight' /\ FoundRight' /\ OccurrencesRight'
<1> DEFINE v == kMesh[kOrder]
           target == Head(kTargets)
           new == {n \in DOMAIN held : held[n].family \notin DOMAIN kFound}
           Of(f) == CHOOSE n \in new : held[n].family = f
<1>1. /\ kRequest \in Requested /\ kRequest.sg \in DOMAIN Stars
      /\ kContext.sg = kRequest.sg /\ kContext.stars = Stars[kRequest.sg]
      /\ kContext.lattice = LatticeRotations[kRequest.sg]
      /\ kMesh \in Seq(KSpace) /\ Len(kContext.stars) \in Nat
  BY RequestKnown
<1>2. /\ UNCHANGED <<session, kRequest, kContext, kMesh, kOrder, kGroups, kOccurrences>>
      /\ kFound' = Adding(kFound, held, target)
      /\ kTargets' = Tail(kTargets) /\ kHeld' = <<>>
      /\ IF kTargets' # <<>> THEN kStep' = "looking" /\ UNCHANGED kMatches
         ELSE kStep' = "own" /\ kMatches' = BestOf(kFound')
  BY DEF TargetDone
<1>3. /\ kOrder \in DOMAIN kMesh /\ v \in KSpace
      /\ kTargets # <<>> /\ kTargets \in Seq(ImagesIn(kRequest.sg, v))
  BY <1>1 DEF FamiliesInv, TurnRight
<1>4. target \in ImagesIn(kRequest.sg, v) /\ kTargets' \in Seq(ImagesIn(kRequest.sg, v))
  BY <1>2, <1>3
<1>5. v \in ImagesIn(kRequest.sg, v)
  BY <1>1, <1>3, ImagesAre
<1>6. kFound' = [f \in DOMAIN kFound \cup {held[n].family : n \in new} |->
            IF f \in DOMAIN kFound THEN kFound[f] ELSE [params |-> held[Of(f)].params, vector |-> target]]
  BY <1>2 DEF Adding
<1>7. \A f \in {held[n].family : n \in new} : target \in StarIn(Stars[kRequest.sg], f, held[Of(f)].params)
  <2> SUFFICES ASSUME NEW n \in new PROVE target \in StarIn(Stars[kRequest.sg], held[n].family, held[Of(held[n].family)].params)
    OBVIOUS
  <2>1. Of(held[n].family) \in new /\ held[Of(held[n].family)].family = held[n].family
    OBVIOUS
  <2> HIDE DEF Of
  <2> QED BY <2>1 DEF HoldIt
<1>8. \A f \in DOMAIN kFound' :
          kFound'[f].vector \in ImagesIn(kRequest.sg, v) /\ kFound'[f].vector \in StarIn(Stars[kRequest.sg], f, kFound'[f].params)
  <2> SUFFICES ASSUME NEW f \in DOMAIN kFound'
               PROVE  /\ kFound'[f].vector \in ImagesIn(kRequest.sg, v)
                      /\ kFound'[f].vector \in StarIn(Stars[kRequest.sg], f, kFound'[f].params)
    OBVIOUS
  <2>1. CASE f \in DOMAIN kFound
    <3>1. kFound'[f] = kFound[f]
      BY <1>6, <2>1
    <3> QED BY <2>1, <3>1 DEF FamiliesInv, FoundRight
  <2>2. CASE f \notin DOMAIN kFound
    <3> HIDE DEF new, Of, target
    <3>1. f \in {held[n].family : n \in new} /\ kFound'[f] = [params |-> held[Of(f)].params, vector |-> target]
      BY <1>6, <2>2
    <3> QED BY <1>4, <1>7, <3>1
  <2> QED BY <2>1, <2>2
<1>9. kMatches' \in Seq(DOMAIN kFound')
  <2>1. CASE kTargets' # <<>>
    <3>1. DOMAIN kFound \subseteq DOMAIN kFound'
      BY <1>6
    <3> QED BY <1>2, <2>1, <3>1 DEF FamiliesInv, FoundRight
  <2>2. CASE kTargets' = <<>>
    <3>1. \A X : \A Y \in SUBSET X : Seq(Y) \subseteq Seq(X)
      OBVIOUS
    <3>2. ASSUME NEW found PROVE BestOf(found) \in Seq(DOMAIN found)
      <4>1. PICK best \in SUBSET DOMAIN found : BestOf(found) = Ascending(best, Len(kContext.stars))
        BY Zenon DEF BestOf
      <4>2. ListsUp(Ascending(best, Len(kContext.stars)), best, Len(kContext.stars))
        BY <1>1, AscendingLists
      <4> QED BY <3>1, <4>1, <4>2 DEF ListsUp
    <3> QED BY <1>2, <2>2, <3>2
  <2> QED BY <2>1, <2>2
<1>10. ContextRight'
  BY <1>2, <1>1 DEF ContextRight
<1>11. TurnRight'
  BY <1>1, <1>2, <1>3, <1>4 DEF TurnRight
<1>12. FoundRight'
  BY <1>2, <1>5, <1>8, <1>9 DEF FoundRight
<1>13. OccurrencesRight'
  BY <1>2 DEF FamiliesInv, OccurrencesRight
<1> QED BY <1>2, <1>10, <1>11, <1>12, <1>13 DEF FamiliesInv
\* What is remembered of a target is taken, or its families are tried.
LEMMA LookUpRight == ASSUME FamiliesInv, LookUpTarget PROVE FamiliesInv'
<1>1. kStep = "looking" /\ kContext.sg = kRequest.sg
  BY RequestKnown DEF LookUpTarget
<1>2. MemoRight'
  <2>1. candidateMemo' = candidateMemo
    BY DEF LookUpTarget
  <2> QED BY <2>1 DEF FamiliesInv, MemoRight
<1>3. CASE CandidateKey \in DOMAIN candidateMemo
  <2>1. CandidateKey[1] = kRequest.sg /\ CandidateKey[2] = Head(kTargets)
    BY <1>1 DEF CandidateKey
  <2>2. HoldIt(Stars[kRequest.sg], candidateMemo[CandidateKey], Head(kTargets))
    BY <1>3, <2>1 DEF FamiliesInv, MemoRight
  <2>3. TargetDone(candidateMemo[CandidateKey])
    BY <1>3 DEF LookUpTarget
  <2>4. session' \in Seq(Requested) /\ ContextRight' /\ TurnRight' /\ FoundRight' /\ OccurrencesRight'
    BY <1>1, <2>2, <2>3, DoneRight
  <2> QED BY <1>2, <2>4 DEF FamiliesInv
<1>4. CASE CandidateKey \notin DOMAIN candidateMemo
  <2>1. /\ kStep' = "trying"
        /\ UNCHANGED <<session, kRequest, kContext, kMesh, kOrder, kTargets, kHeld, kFound, kMatches, kGroups, kOccurrences>>
    BY <1>4 DEF LookUpTarget
  <2>2. kHeld = <<>>
    BY <1>1 DEF FamiliesInv, TurnRight
  <2>3. HoldIt(Stars[kRequest.sg], <<>>, Head(kTargets))
    BY DEF HoldIt, Range
  <2>4. TurnRight'
    BY <1>1, <2>1, <2>2, <2>3 DEF FamiliesInv, TurnRight
  <2>5. ContextRight'
    BY <1>1, <2>1 DEF FamiliesInv, ContextRight
  <2>6. FoundRight'
    BY <2>1 DEF FamiliesInv, FoundRight
  <2>7. OccurrencesRight'
    BY <1>1, <2>1 DEF FamiliesInv, OccurrencesRight
  <2> QED BY <1>2, <2>1, <2>4, <2>5, <2>6, <2>7 DEF FamiliesInv
<1> QED BY <1>3, <1>4

\* A candidate is added if its star holds the target, whatever was remembered
\* of its parameters.
LEMMA HeldRight ==
    ASSUME FamiliesInv, kStep = "trying", NEW f, NEW params
    PROVE  HoldIt(Stars[kRequest.sg], HeldAfter(f, params, Head(kTargets)), Head(kTargets))
<1>1. HoldIt(Stars[kRequest.sg], kHeld, Head(kTargets))
  BY DEF FamiliesInv, TurnRight
<1>2. CASE Head(kTargets) \in StarAt(f, params)
  <2>1. PICK c : c = [family |-> f, params |-> params]
    OBVIOUS
  <2>2. Head(kTargets) \in StarIn(Stars[kRequest.sg], c.family, c.params)
    BY <1>2, <2>1, RequestKnown, StarIs
  <2>3. HeldAfter(f, params, Head(kTargets)) = Append(kHeld, c)
    BY <1>2, <2>1 DEF HeldAfter
  <2>4. kHeld \in Seq(Range(kHeld)) /\ \A n \in DOMAIN kHeld : Head(kTargets) \in StarIn(Stars[kRequest.sg], kHeld[n].family, kHeld[n].params)
    BY <1>1 DEF HoldIt
  <2>5. PICK longer : longer = Append(kHeld, c)
    OBVIOUS
  <2>6. DOMAIN longer = 1 .. Len(kHeld) + 1 /\ Len(kHeld) \in Nat /\ longer[Len(kHeld) + 1] = c
        /\ \A n \in 1 .. Len(kHeld) : n \in DOMAIN kHeld /\ longer[n] = kHeld[n]
    BY <2>4, <2>5
  <2>7. longer = [n \in 1 .. Len(kHeld) + 1 |-> longer[n]]
    <3>1. kHeld = [n \in 1 .. Len(kHeld) |-> kHeld[n]]
      BY <2>4
    <3>2. longer = [n \in 1 .. Len(kHeld) + 1 |-> IF n = Len(kHeld) + 1 THEN c ELSE kHeld[n]]
      <4>1. PICK k \in Nat : k = Len(kHeld)
        BY <2>6
      <4>2. Append(kHeld, c) = [n \in 1 .. k + 1 |-> IF n = k + 1 THEN c ELSE kHeld[n]]
        BY <3>1, <4>1, AppendIs
      <4> QED BY <2>5, <4>1, <4>2
    <3> QED BY <3>2
  <2>8. longer \in Seq(Range(longer))
    BY <2>6, <2>7 DEF Range
  <2>9. \A n \in DOMAIN longer : Head(kTargets) \in StarIn(Stars[kRequest.sg], longer[n].family, longer[n].params)
    <3>1. \A n \in DOMAIN longer : n = Len(kHeld) + 1 \/ n \in 1 .. Len(kHeld)
      BY <2>6
    <3> QED BY <2>2, <2>4, <2>6, <3>1
  <2> QED BY <2>3, <2>5, <2>8, <2>9 DEF HoldIt
<1>3. CASE Head(kTargets) \notin StarAt(f, params)
  BY <1>1, <1>3 DEF HeldAfter
<1> QED BY <1>2, <1>3

LEMMA TryRight == ASSUME FamiliesInv, TryFamily PROVE FamiliesInv'
<1>1. /\ kStep = "trying"
      /\ UNCHANGED <<session, kRequest, kContext, kStep, kMesh, kOrder, kTargets, kFound, kMatches, kGroups,
                     kOccurrences, candidateMemo>>
  BY DEF TryFamily
<1>2. HoldIt(Stars[kRequest.sg], kHeld', Head(kTargets))
  <2>1. kHeld' = kHeld \/ \E params : kHeld' = HeldAfter(kFamily, params, Head(kTargets))
    BY DEF TryFamily
  <2>2. HoldIt(Stars[kRequest.sg], kHeld, Head(kTargets))
    BY <1>1 DEF FamiliesInv, TurnRight
  <2> QED BY <1>1, <2>1, <2>2, HeldRight
<1>3. TurnRight'
  BY <1>1, <1>2 DEF FamiliesInv, TurnRight
<1>4. ContextRight' /\ MemoRight' /\ FoundRight' /\ OccurrencesRight'
  BY <1>1 DEF FamiliesInv, ContextRight, MemoRight, FoundRight, OccurrencesRight
<1> QED BY <1>1, <1>3, <1>4 DEF FamiliesInv

\* All families tried, the candidates are remembered for the target.
LEMMA KeepRight == ASSUME FamiliesInv, KeepCandidates PROVE FamiliesInv'
<1>1. kStep = "trying" /\ TargetDone(kHeld)
      /\ candidateMemo' = Remembering(candidateMemo, CandidateKey, kHeld)
  BY DEF KeepCandidates
<1>2. HoldIt(Stars[kRequest.sg], kHeld, Head(kTargets))
  BY <1>1 DEF FamiliesInv, TurnRight
<1>3. session' \in Seq(Requested) /\ ContextRight' /\ TurnRight' /\ FoundRight' /\ OccurrencesRight'
  BY <1>1, <1>2, DoneRight
<1>4. CandidateKey[1] = kRequest.sg /\ CandidateKey[2] = Head(kTargets)
  BY <1>1, RequestKnown DEF CandidateKey
<1>5. \A key \in DOMAIN candidateMemo' :
          \/ key \in DOMAIN candidateMemo /\ candidateMemo'[key] = candidateMemo[key]
          \/ key = CandidateKey /\ candidateMemo'[key] = kHeld
  BY <1>1 DEF Remembering
<1>6. MemoRight'
  BY <1>2, <1>4, <1>5 DEF FamiliesInv, MemoRight
<1> QED BY <1>3, <1>6 DEF FamiliesInv

\* A vector with an image on the star of a family occurs in a group of it.
LEMMA OccurRight ==
    ASSUME FamiliesInv, kStep = "own", NEW f, NEW match, Occur(f, match),
           Carries(kRequest.sg, f, match.params, kMesh[kOrder]),
           kStep' = kStep, kRequest' = kRequest
    PROVE  OccurrencesRight'
<1> DEFINE v == kMesh[kOrder]
           orbit == LeastKey(LatticeOrbit(v))
           mine == GroupOf(kGroups, f, orbit)
           group == IF mine = {} THEN Len(kGroups) + 1 ELSE Min(mine)
<1>1. kGroups \in Seq(Range(kGroups)) /\ kOccurrences \in Seq(Range(kOccurrences))
  BY DEF FamiliesInv, OccurrencesRight
<1>2. PICK ng \in Nat : ng = Len(kGroups) /\ DOMAIN kGroups = 1 .. ng
  BY <1>1
<1>3. PICK no \in Nat : no = Len(kOccurrences) /\ DOMAIN kOccurrences = 1 .. no
  BY <1>1
<1>4. PICK c : c = [vector |-> v, group |-> group, params |-> match.params] /\ kOccurrences' = Append(kOccurrences, c)
  BY DEF Occur
<1>5. kGroups' = IF mine # {} THEN kGroups
                 ELSE Append(kGroups, [family |-> f, orbit |-> orbit, params |-> match.params, vector |-> match.vector])
  BY DEF Occur
<1>6. mine = {g \in DOMAIN kGroups : kGroups[g].family = f /\ kGroups[g].orbit = orbit}
  BY DEF GroupOf
<1> HIDE DEF orbit, mine
<1>7. /\ kGroups' \in Seq(Range(kGroups'))
      /\ \A g \in DOMAIN kGroups : g \in DOMAIN kGroups' /\ kGroups'[g] = kGroups[g]
      /\ group \in DOMAIN kGroups' /\ kGroups'[group].family = f
  <2>1. CASE mine = {}
    <3>1. PICK d : d = [family |-> f, orbit |-> orbit, params |-> match.params, vector |-> match.vector]
      OBVIOUS
    <3>2. kGroups' = Append(kGroups, d) /\ group = ng + 1
      BY <1>2, <1>5, <2>1, <3>1
    <3>3. /\ kGroups' = [g \in 1 .. ng + 1 |-> kGroups'[g]]
          /\ DOMAIN kGroups' = 1 .. ng + 1 /\ kGroups'[ng + 1] = d
          /\ \A g \in 1 .. ng : kGroups'[g] = kGroups[g]
      <4>1. kGroups = [g \in 1 .. ng |-> kGroups[g]]
        BY <1>1, <1>2
      <4>2. kGroups' = [g \in 1 .. ng + 1 |-> IF g = ng + 1 THEN d ELSE kGroups[g]]
        BY <3>2, <4>1, AppendIs
      <4> QED BY <4>2
    <3>4. kGroups' \in Seq(Range(kGroups'))
      BY <3>3 DEF Range
    <3>5. d.family = f
      BY <3>1
    <3> HIDE DEF group
    <3> QED BY <1>2, <3>2, <3>3, <3>4, <3>5
  <2>2. CASE mine # {}
    <3>1. mine \in SUBSET (1 .. ng) /\ IsFiniteSet(1 .. ng) /\ 1 .. ng \subseteq Int
      BY <1>2, <1>6, FS_Interval
    <3>2. Min(mine) \in mine
      <4>1. IsFiniteSet(mine) /\ mine \subseteq Int
        BY <3>1, FS_Subset
      <4> QED BY <2>2, <4>1, MaxMin
    <3>3. group = Min(mine) /\ kGroups' = kGroups
      BY <1>5, <2>2
    <3> HIDE DEF group
    <3> QED BY <1>1, <1>6, <3>2, <3>3
  <2> QED BY <2>1, <2>2
<1>8. c.group = group /\ c.params = match.params /\ c.vector = v
  BY <1>4
<1> HIDE DEF group, v
<1>9. /\ kOccurrences' = [o \in 1 .. no + 1 |-> kOccurrences'[o]]
      /\ DOMAIN kOccurrences' = 1 .. no + 1 /\ kOccurrences'[no + 1] = c
      /\ \A o \in 1 .. no : kOccurrences'[o] = kOccurrences[o]
  BY <1>1, <1>3, <1>4
<1>10. kOccurrences' \in Seq(Range(kOccurrences'))
  BY <1>9 DEF Range
<1>11. \A o \in DOMAIN kOccurrences' :
          /\ kOccurrences'[o].group \in DOMAIN kGroups'
          /\ Carries(kRequest.sg, kGroups'[kOccurrences'[o].group].family, kOccurrences'[o].params, kOccurrences'[o].vector)
  <2>1. ASSUME NEW o \in 1 .. no
        PROVE  /\ kOccurrences'[o].group \in DOMAIN kGroups'
               /\ Carries(kRequest.sg, kGroups'[kOccurrences'[o].group].family, kOccurrences'[o].params, kOccurrences'[o].vector)
    <3>1. /\ kOccurrences[o].group \in DOMAIN kGroups
          /\ Carries(kRequest.sg, kGroups[kOccurrences[o].group].family, kOccurrences[o].params, kOccurrences[o].vector)
      BY <1>3 DEF FamiliesInv, OccurrencesRight
    <3> QED BY <1>7, <1>9, <3>1
  <2>2. /\ kOccurrences'[no + 1].group \in DOMAIN kGroups'
        /\ Carries(kRequest.sg, kGroups'[kOccurrences'[no + 1].group].family, kOccurrences'[no + 1].params, kOccurrences'[no + 1].vector)
    BY <1>7, <1>8, <1>9 DEF v
  <2>3. \A o \in DOMAIN kOccurrences' : o \in 1 .. no \/ o = no + 1
    BY <1>9
  <2> QED BY <2>1, <2>2, <2>3
<1> QED BY <1>7, <1>10, <1>11 DEF OccurrencesRight

LEMMA MatchRight == ASSUME FamiliesInv, MatchFamily PROVE FamiliesInv'
<1> DEFINE f == Head(kMatches)
           v == kMesh[kOrder]
<1>1. /\ kStep = "own" /\ kMatches # <<>> /\ kMatches' = Tail(kMatches)
      /\ UNCHANGED <<session, kRequest, kContext, kStep, kMesh, kOrder, kTargets, kFamily, kHeld, kFound, candidateMemo>>
  BY DEF MatchFamily
<1>2. PICK match : /\ Occur(f, match)
                   /\ match = kFound[f] \/ \E params : match = OwnMatch(f, params)
  BY DEF MatchFamily
<1>3. f \in DOMAIN kFound /\ kMatches' \in Seq(DOMAIN kFound)
  BY <1>1 DEF FamiliesInv, FoundRight
<1>4. /\ v \in ImagesIn(kRequest.sg, v)
      /\ kFound[f].vector \in ImagesIn(kRequest.sg, v)
      /\ kFound[f].vector \in StarIn(Stars[kRequest.sg], f, kFound[f].params)
  BY <1>3 DEF FamiliesInv, FoundRight
<1>5. Carries(kRequest.sg, f, kFound[f].params, v)
  BY <1>4 DEF Carries
<1>6. Carries(kRequest.sg, f, match.params, v)
  <2>1. CASE match = kFound[f]
    BY <1>5, <2>1
  <2>2. ASSUME NEW params, match = OwnMatch(f, params), match # kFound[f]
        PROVE  Carries(kRequest.sg, f, match.params, v)
    <3>1. StarAt(f, params) = StarIn(Stars[kRequest.sg], f, params)
      BY <1>1, RequestKnown, StarIs
    <3>2. /\ v \in StarAt(f, params) \/ Mod1(Neg(v)) \in StarAt(f, params)
          /\ match = [params |-> params, vector |-> v]
      BY <2>2 DEF OwnMatch
    <3>3. match.params = params
      BY <3>2
    <3> QED BY <1>4, <3>1, <3>2, <3>3 DEF Carries
  <2> QED BY <1>2, <2>1, <2>2
<1>7. OccurrencesRight'
  BY <1>1, <1>2, <1>6, OccurRight
<1>8. ContextRight' /\ TurnRight' /\ MemoRight'
  BY <1>1 DEF FamiliesInv, ContextRight, TurnRight, MemoRight
<1>9. FoundRight'
  BY <1>1, <1>3 DEF FamiliesInv, FoundRight
<1> QED BY <1>1, <1>7, <1>8, <1>9 DEF FamiliesInv

\* The next vector is looked for from its own images.
LEMMA NextRight == ASSUME FamiliesInv, NextVector PROVE FamiliesInv'
<1>1. /\ kStep = "own" /\ kMatches = <<>> /\ kOrder' = kOrder + 1 /\ kFound' = <<>>
      /\ IF kOrder = Len(kMesh) THEN kStep' = "answered" ELSE kStep' = "looking" /\ kTargets' = TargetsOf(kMesh[kOrder + 1])
      /\ UNCHANGED <<session, kRequest, kContext, kMesh, kHeld, kMatches, kGroups, kOccurrences, candidateMemo>>
  BY DEF NextVector
<1>2. kOrder \in 0 .. Len(kMesh) /\ kMesh \in Seq(KSpace) /\ kRequest.sg \in DOMAIN Stars
      /\ kContext.lattice = LatticeRotations[kRequest.sg]
  BY <1>1, RequestKnown DEF FamiliesInv, TurnRight
<1>3. TurnRight'
  <2>1. CASE kOrder = Len(kMesh)
    BY <1>1, <2>1 DEF TurnRight
  <2>2. CASE kOrder # Len(kMesh)
    <3>1. kOrder' \in DOMAIN kMesh /\ kMesh[kOrder'] \in KSpace
      BY <1>1, <1>2, <2>2
    <3>2. kTargets' \in Seq(ImagesIn(kRequest.sg, kMesh[kOrder'])) /\ kTargets' # <<>>
      BY <1>1, <1>2, <2>2, <3>1, TargetsAre
    <3>3. kHeld = <<>>
      BY <1>1 DEF FamiliesInv, TurnRight
    <3> QED BY <1>1, <2>2, <3>1, <3>2, <3>3 DEF TurnRight
  <2> QED BY <2>1, <2>2
<1>4. FoundRight'
  BY <1>1 DEF FoundRight
<1>5. ContextRight' /\ MemoRight' /\ OccurrencesRight'
  BY <1>1 DEF FamiliesInv, ContextRight, MemoRight, OccurrencesRight
<1> QED BY <1>1, <1>3, <1>4, <1>5 DEF FamiliesInv

LEMMA RunsOutRight == ASSUME FamiliesInv, KRunsOut PROVE FamiliesInv'
<1>1. /\ kStep' = "failed" /\ kStep # "idle"
      /\ UNCHANGED <<session, kRequest, kContext, kMesh, kOrder, kFound, kMatches, kGroups, kOccurrences, candidateMemo>>
  BY DEF KRunsOut
<1> QED BY <1>1 DEF FamiliesInv, ContextRight, TurnRight, MemoRight, FoundRight, OccurrencesRight

\* However many requests a process answers: all is right at its start, and
\* each step leaves it right.
LEMMA FamiliesInductive ==
    /\ KInit \/ FamiliesAtRest => FamiliesInv
    /\ FamiliesInv /\ [KNext]_kVars => FamiliesInv'
<1>1. ASSUME KInit \/ FamiliesAtRest PROVE FamiliesInv
  <2>1. session \in Seq(Requested)
    <3>1. session \in Sessions \/ session = <<>>
      BY <1>1 DEF KInit, FamiliesAtRest, KAt
    <3>2. Sessions \subseteq Seq(Requested)
      BY KRequestsAssumption, Zenon
    <3>3. <<>> \in Seq(Requested)
      OBVIOUS
    <3> QED BY <3>1, <3>2, <3>3, Zenon
  <2>2. /\ kStep = "idle" /\ kFound = <<>> /\ kMatches = <<>> /\ kGroups = <<>> /\ kOccurrences = <<>> /\ candidateMemo = <<>>
    BY <1>1 DEF KInit, FamiliesAtRest, KAt
  <2>3. ContextRight /\ TurnRight
    BY <2>2 DEF ContextRight, TurnRight
  <2>4. MemoRight /\ FoundRight /\ OccurrencesRight
    BY <2>2 DEF MemoRight, FoundRight, OccurrencesRight
  <2> QED BY <2>1, <2>3, <2>4 DEF FamiliesInv
<1>2. ASSUME FamiliesInv, UNCHANGED kVars PROVE FamiliesInv'
  BY <1>2 DEF kVars, FamiliesInv, ContextRight, TurnRight, MemoRight, FoundRight, OccurrencesRight
<1> QED
  BY <1>1, <1>2, AskRight, LookUpRight, TryRight, KeepRight, MatchRight, NextRight, RunsOutRight DEF KNext

\* Then the records list nothing but what the lattice carries onto their stars.
LEMMA FamiliesAsPromised ==
    ASSUME FamiliesInv
    PROVE  OnItsStar
<1> SUFFICES ASSUME NEW r \in Records, NEW v \in r.listed
             PROVE  \E w \in LatticeOrbit(v) : OnStar(r, w)
  BY DEF OnItsStar
<1>1. PICK p \in DOMAIN kOccurrences : r = RecordOf(kOccurrences[p].group, kOccurrences[p].params)
  BY DEF Records
<1>2. PICK g, params : g = kOccurrences[p].group /\ params = kOccurrences[p].params
  OBVIOUS
<1>3. /\ r.family = kGroups[g].family /\ r.params = params
      /\ r.listed = {kOccurrences[o].vector : o \in OccurrencesOf(g, params)}
  BY <1>1, <1>2 DEF RecordOf
<1>4. PICK o \in OccurrencesOf(g, params) : v = kOccurrences[o].vector
  BY <1>3
<1>5. o \in DOMAIN kOccurrences /\ kOccurrences[o].group = g /\ kOccurrences[o].params = params
  BY DEF OccurrencesOf
<1>6. Carries(kRequest.sg, r.family, r.params, v)
  BY <1>3, <1>4, <1>5 DEF FamiliesInv, OccurrencesRight
<1>7. kStep # "idle"
  BY <1>5 DEF FamiliesInv, OccurrencesRight
<1>8. kContext.stars = Stars[kRequest.sg] /\ kContext.lattice = LatticeRotations[kRequest.sg]
  BY <1>7, RequestKnown
<1>9. LatticeOrbit(v) = ImagesIn(kRequest.sg, v)
  BY <1>8 DEF LatticeOrbit, ImagesIn
<1>10. StarAt(r.family, r.params) = StarIn(Stars[kRequest.sg], r.family, r.params)
  BY <1>8, StarIs
<1> QED BY <1>6, <1>9, <1>10 DEF Carries, OnStar

-----------------------------------------------------------------------------
(* The process *)

\* A process starts with its parts at their starts or at rest, and a step of
\* one part leaves the others alone.
LEMMA PartsApart ==
    /\ ProcessInit =>
          /\ \E in \in Inputs, step \in {"start", "elsewhere"} : CliAt(in, step)
          /\ CoupledInit \/ CoupledAtRest
          /\ KInit \/ FamiliesAtRest
    /\ [ProcessNext]_<<engineVars, cliVars, coupledVars, kVars, modeVars, kernelVars>> =>
          [CliNext]_cliVars /\ [CoupledNext]_coupledVars /\ [KNext]_kVars
<1>1. ASSUME ProcessInit
      PROVE  /\ \E in \in Inputs, step \in {"start", "elsewhere"} : CliAt(in, step)
             /\ CoupledInit \/ CoupledAtRest
             /\ KInit \/ FamiliesAtRest
  <2>1. (\E in \in Inputs : CliAt(in, "start")) \/ CliAt(CHOOSE in \in Inputs : TRUE, "elsewhere")
    BY <1>1 DEF ProcessInit, CliInit, CliAtRest
  <2>2. (CHOOSE in \in Inputs : TRUE) \in Inputs
    BY InputsAssumption
  <2>3. (CoupledInit \/ CoupledAtRest) /\ (KInit \/ FamiliesAtRest)
    BY <1>1 DEF ProcessInit
  <2> QED BY <2>1, <2>2, <2>3
<1>2. ASSUME [ProcessNext]_<<engineVars, cliVars, coupledVars, kVars, modeVars, kernelVars>>
      PROVE  [CliNext]_cliVars /\ [CoupledNext]_coupledVars /\ [KNext]_kVars
  BY <1>2 DEF ProcessNext
<1> QED BY <1>1, <1>2

(* The cache of coupled_tuples(), keyed by lattice and operations alone and
   kept from one request to the next in the process, never answers with the
   frequencies of other slots. *)
THEOREM FrequenciesAlwaysRight == ProcessSpec => []FrequenciesRight
<1>1. ProcessInit => FrequenciesRight
  BY PartsApart, FrequenciesInductive
<1>2. FrequenciesRight /\ [ProcessNext]_<<engineVars, cliVars, coupledVars, kVars, modeVars, kernelVars>>
         => FrequenciesRight'
  BY PartsApart, FrequenciesInductive
<1> QED BY <1>1, <1>2, PTL DEF ProcessSpec

(* No coupled direction is listed twice, however the rows of the slots, their
   domains and the limit fall: no operation of the parent carries one listed
   row to another, and each is all that its operations leave free. *)
THEOREM CoupledAlwaysDistinct == ProcessSpec => []CoupledDistinct
<1>1. ProcessInit => CoupledInv
  BY PartsApart, CoupledInductive
<1>2. CoupledInv /\ [ProcessNext]_<<engineVars, cliVars, coupledVars, kVars, modeVars, kernelVars>> => CoupledInv'
  BY PartsApart, CoupledInductive
<1>3. CoupledInv => CoupledDistinct
  BY CoupledAsPromised
<1> QED BY <1>1, <1>2, <1>3, PTL DEF ProcessSpec

(* None is missing from an answer that the limit did not cut: the numbered
   domains, the generators and the key of a row lose none. *)
THEOREM CoupledAlwaysComplete == ProcessSpec => []CoupledComplete
<1>1. ProcessInit => CoupledInv
  BY PartsApart, CoupledInductive
<1>2. CoupledInv /\ [ProcessNext]_<<engineVars, cliVars, coupledVars, kVars, modeVars, kernelVars>> => CoupledInv'
  BY PartsApart, CoupledInductive
<1>3. CoupledInv => CoupledComplete
  BY CoupledAsPromised
<1> QED BY <1>1, <1>2, <1>3, PTL DEF ProcessSpec

(* However many requests a process has answered, for whatever space groups, and
   wherever memory ran out: a record of k_family_records() lists nothing but
   vectors that the lattice carries, up to their sign, onto the star of its own
   family and parameters.  It is the last part of EachStarHasItsRow. *)
THEOREM ListedAlwaysOnItsStar == ProcessSpec => []OnItsStar
<1>1. ProcessInit => FamiliesInv
  BY PartsApart, FamiliesInductive
<1>2. FamiliesInv /\ [ProcessNext]_<<engineVars, cliVars, coupledVars, kVars, modeVars, kernelVars>> => FamiliesInv'
  BY PartsApart, FamiliesInductive
<1>3. FamiliesInv => OnItsStar
  BY FamiliesAsPromised
<1> QED BY <1>1, <1>2, <1>3, PTL DEF ProcessSpec

(* Whatever the case, words or a file: what the engine is asked is what was
   said, and what is refused was not complete for its stage. *)
THEOREM AsksAlwaysWhatIsMeant == ProcessSpec => []AsksWhatIsMeant
<1>1. ProcessInit => AskedInv
  BY PartsApart, AskedInductive
<1>2. AskedInv /\ [ProcessNext]_<<engineVars, cliVars, coupledVars, kVars, modeVars, kernelVars>> => AskedInv'
  BY PartsApart, AskedInductive
<1>3. AskedInv => AsksWhatIsMeant
  BY AskedAsMeant
<1> QED BY <1>1, <1>2, <1>3, PTL DEF ProcessSpec

(* However a run of the command line ends, it says what it left behind. *)
THEOREM EndsAlwaysAsTold == ProcessSpec => []EndsAsTold
<1>1. ProcessInit => ToldInv
  BY PartsApart, ToldInductive
<1>2. ToldInv /\ [ProcessNext]_<<engineVars, cliVars, coupledVars, kVars, modeVars, kernelVars>> => ToldInv'
  BY PartsApart, ToldInductive
<1>3. ToldInv => EndsAsTold
  BY DEF ToldInv
<1> QED BY <1>1, <1>2, <1>3, PTL DEF ProcessSpec
=============================================================================
