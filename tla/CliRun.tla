------------------------------- MODULE CliRun -------------------------------
(***************************************************************************)
(* The command line (cli/apo_main.c, core/run/cli.c): what the user says,  *)
(* in words or in a case file, is read into a case; the case is turned     *)
(* into the options of a request; the engine answers; the answer is        *)
(* written, or the case is published in a running server.  The server      *)
(* itself reads cases the same way for its examples (apo_case_launch),     *)
(* with error_trap set so that a refusal comes back to it.                 *)
(*                                                                         *)
(* A case is given by its slots, its sites, strain and the OPD.  A slot's  *)
(* params are pairs <<name, value>>; positional values have the name "".   *)
(* A site is a selector with the kinds of distortion it gets, or it is     *)
(* "malformed".                                                            *)
(***************************************************************************)
EXTENDS Integers, Sequences, FiniteSets, SequencesExt

CONSTANTS
    Inputs,     \* what users say: records, see IsInput
    Atoms,      \* the atom sites of the CIF: records [label, type]
    Catalog,    \* k_catalog_json: the labels of k points with their parameter names
    MAX_SLOTS   \* 4

Kinds == {"displacive", "magnetic", "occupancy"}
Stages == {"info", "kpoints", "irreps", "opds", "modes"}
Commands == Stages \cup {"run", "show", "example"}
IsInput(in) ==
    /\ DOMAIN in = {"command", "upto", "file", "parent", "amplitudes", "strain", "opd", "text", "slots", "sites"}
    /\ in.command \in Commands
    /\ in.upto \in Stages \ {"info"}                   \* of run only
    /\ in.file \in BOOLEAN                             \* a case file, or words
    /\ in.parent \in {"cif", "sg", "both", "none"}     \* --sg N: a file made for the space group
    /\ in.file => in.parent # "sg"
    /\ in.amplitudes \in {"none", "fine", "bad"}      \* of show only
    /\ in.strain \in BOOLEAN /\ in.opd \in BOOLEAN /\ in.text \in BOOLEAN
    /\ in.command # "show" => in.amplitudes = "none"
    /\ in.command = "example" => in.file /\ ~in.text  \* the body of a request
    /\ in.slots \in Seq(Range(in.slots)) /\ in.sites \in Seq(Range(in.sites))
    /\ \A i \in DOMAIN in.slots :
          /\ {"label", "params", "ir"} = DOMAIN in.slots[i]
          /\ in.slots[i].params \in Seq(Range(in.slots[i].params))
    /\ \A i \in DOMAIN in.sites :  \* words name a site in one of the three lists
          {"name", "kinds"} = DOMAIN in.sites[i] /\ (~in.file => in.sites[i].kinds # {})
    /\ \A i \in DOMAIN in.sites : in.sites[i].kinds \subseteq Kinds \cup (IF in.file THEN {"malformed"} ELSE {})
ASSUME InputsAssumption == Inputs # {} /\ \A in \in Inputs : IsInput(in)
ASSUME SlotsAssumption == MAX_SLOTS \in Nat \ {0}
ASSUME CatalogAssumption ==  \* a k point's parameters have names, each its own
    \A label \in DOMAIN Catalog :
        LET names == Catalog[label]
        IN  names \in Seq(Range(names)) /\ "" \notin Range(names) /\ \A i, j \in DOMAIN names : names[i] = names[j] => i = j

VARIABLES
    input,     \* the input of this run
    cliStep,   \* "start", "reading", "asking", "answered", "ended"
    case,      \* the case read from it
    options,   \* the options of the request
    engine,    \* the engine's answer: "none", "answer", "modeError", or a failure
    output,    \* "none", "whole", or "short" when the disk was full
    published, \* a launch was accepted by a server
    trap,      \* error_trap is set
    tempCif,   \* the CIF of --sg lies in the temporary directory
    status     \* exit status, -1 while running; 0 or 1 are also apo_case_launch's result

cliVars == <<input, cliStep, case, options, engine, output, published, trap, tempCif, status>>

NoCase == [slots |-> <<>>, sites |-> <<>>, strain |-> FALSE, opd |-> FALSE]
Nothing == <<>>
ParentOnly == <<"info">>  \* apo info asks for no selection
Gamma(slot) == slot.label = "GM"
Names(slot) == {slot.params[i][1] : i \in DOMAIN slot.params}
Distinct(slot) == Cardinality(Names(slot)) = Len(slot.params)

-----------------------------------------------------------------------------
(* Words: the options of each command, and what is refused before a case is made. *)
Takes(command) ==
    CASE command = "irreps" -> {"slots", "sites", "strain"}
      [] command = "opds" -> {"slots", "ir", "sites", "strain"}
      [] command = "modes" -> {"slots", "ir", "sites", "strain", "opd"}
      [] OTHER -> {}
Says(in) ==
    {o \in {"slots", "ir", "sites", "strain", "opd"} :
        CASE o = "slots" -> in.slots # <<>>
          [] o = "ir" -> \E i \in DOMAIN in.slots : in.slots[i].ir # ""
          [] o = "sites" -> in.sites # <<>>
          [] o = "strain" -> in.strain
          [] OTHER -> in.opd}
ArgsRefused(in) ==
    \/ in.command \in {"run", "show"} /\ ~in.file
    \/ in.file /\ in.command \notin {"modes", "run", "show", "example"}
    \/ in.text /\ in.command \notin {"modes", "run"}
    \/ ~in.file /\ ~(Says(in) \subseteq Takes(in.command))
    \/ in.command = "opds" /\ ~({"slots", "ir"} \subseteq Says(in))
    \/ in.parent = "sg" /\ in.command \notin {"kpoints", "irreps", "opds"}
    \/ in.parent = "both" /\ ~in.file

(* --sg without a distortion displaces the atom of the CIF made for it. *)
Defaulted(in) ==
    IF in.parent = "sg" /\ in.sites = <<>> /\ ~in.strain
    THEN [in EXCEPT !.sites = <<[name |-> Atoms[1].label, kinds |-> {"displacive"}]>>]
    ELSE in

Slots(in) == {in.slots[i] : i \in DOMAIN in.slots}
PureStrain(sites, strain) == strain /\ sites = <<>>
SelectionRefused(in) ==  \* cli_case, without --case
    LET pure == PureStrain(in.sites, in.strain)
    IN  \/ in.parent = "none"
        \/ in.command = "modes" /\ ~({"slots", "ir", "opd"} \subseteq Says(in))
        \/ in.command = "irreps" /\ ~pure /\ in.slots = <<>>
        \/ in.command = "irreps" /\ pure /\ \E s \in Slots(in) : ~Gamma(s)
        \/ in.command \in {"irreps", "opds", "modes"} /\ in.sites = <<>> /\ ~in.strain
WordsRefused(in) ==  \* case_from_cli
    \/ Len(in.slots) > MAX_SLOTS
    \/ "ir" \in Says(in) /\ \E s \in Slots(in) : s.ir = ""
    \/ \E s \in Slots(in) : \/ "" \in Names(s) /\ Names(s) # {""}
                            \/ "" \notin Names(s) /\ ~Distinct(s)
                            \/ \E i \in DOMAIN s.params : s.params[i][2] = "?"

(* A fault: each list makes an entry of its own. *)
ListedSites(sites) == SetToSeq({[name |-> s.name, kinds |-> {k}] : s \in Range(sites), k \in Kinds}
                               \cap UNION {{[name |-> s.name, kinds |-> {k}] : k \in s.kinds} : s \in Range(sites)})
(* The three lists --displacive, --magnetic, --occupancy: a name's kinds are
   those of all the lists it is in. *)
MergedSites(sites) ==
    LET names == {sites[i].name : i \in DOMAIN sites}
        kinds == [n \in names |-> UNION {sites[i].kinds : i \in {j \in DOMAIN sites : sites[j].name = n}}]
    IN  SetToSeq({[name |-> n, kinds |-> kinds[n]] : n \in names})
WordsCase(in) ==
    [slots |-> in.slots, sites |-> MergedSites(in.sites), strain |-> in.strain, opd |-> in.opd]

-----------------------------------------------------------------------------
(* A case file: case_from_json, json_slot. *)
Chosen(sites) ==
    LET chosen[n \in 0 .. Len(sites)] ==
            IF n = 0 THEN <<>>
            ELSE IF sites[n].kinds = {} THEN chosen[n - 1] ELSE Append(chosen[n - 1], sites[n])
    IN  chosen[Len(sites)]
FileRefused(in) ==
    \/ in.parent \in {"both", "none"}
    \/ Len(in.slots) > MAX_SLOTS
    \/ \E i \in DOMAIN in.sites : "malformed" \in in.sites[i].kinds
    \/ \E s \in Slots(in) : \/ "" \in Names(s)
                            \/ \E i \in DOMAIN s.params : s.params[i][2] = "?"
FileCase(in) ==
    [slots |-> in.slots, sites |-> Chosen(in.sites), strain |-> in.strain, opd |-> in.opd]
CaseRefused(stage, c) ==  \* cli_case, with --case
    LET pure == stage = "irreps" /\ PureStrain(c.sites, c.strain)
    IN  \/ pure /\ \E s \in Slots(c) : ~Gamma(s)
        \/ c.slots = <<>> /\ stage # "kpoints" /\ ~pure
        \/ stage = "modes" /\ ~c.opd

(* How far a case goes: case_launch takes it as deep as it says. *)
LaunchStage(c) ==
    CASE c.opd -> "modes"
      [] ~c.opd /\ c.slots # <<>> /\ \A s \in Slots(c) : s.ir # "" -> "opds"
      [] ~c.opd /\ \E s \in Slots(c) : s.ir = "" -> "irreps"
      [] OTHER -> "kpoints"
Launches(in) == in.command \in {"show", "example"}
StageOf(in, c) ==
    CASE Launches(in) -> LaunchStage(c)
      [] in.command = "run" -> in.upto
      [] OTHER -> in.command
Deep(stage) == stage \in {"opds", "modes"}

-----------------------------------------------------------------------------
(* The options of the request: pipeline_options, slot_params.  A selector is a
   type or a label of an atom site; of two entries for a name the last counts. *)
Selects(name, atom) == name \in {atom.label, atom.type}
LastFor(sites, i) == \A j \in DOMAIN sites : j > i => sites[j].name # sites[i].name
SitesOf(sites) ==
    [k \in Kinds |-> {a \in DOMAIN Atoms :
        \E i \in DOMAIN sites : LastFor(sites, i) /\ Selects(sites[i].name, Atoms[a]) /\ k \in sites[i].kinds}]
Positional(slot) == Names(slot) \subseteq {""}
SlotRefused(slot) ==
    slot.label \in DOMAIN Catalog =>
        IF Positional(slot)
        THEN Len(slot.params) # Len(Catalog[slot.label])
        ELSE Names(slot) # Range(Catalog[slot.label])
(* What a slot asks for.  A name that comes twice keeps one of its values: the
   pairs were sorted by name alone, with qsort. *)
SlotOptions(slot) ==
    LET names == Catalog[slot.label]
        given == {slot.params[i] : i \in DOMAIN slot.params}
        At(n) == CHOOSE i \in DOMAIN names : names[i] = n
    IN  {[label |-> slot.label, params |-> p, ir |-> slot.ir] :
            p \in IF Positional(slot)
                  THEN {[n \in Range(names) |-> slot.params[At(n)][2]]}
                  ELSE {p \in [Range(names) -> {g[2] : g \in given}] : \A n \in Range(names) : <<n, p[n]>> \in given}}
NoSites == [k \in Kinds |-> {}]
PipelineRefused(c, requireIrreps, allowEmpty) ==
    LET pure == ~requireIrreps /\ ~allowEmpty /\ c.strain /\ SitesOf(c.sites) = NoSites
    IN  \/ \E i \in DOMAIN c.sites : ~\E a \in DOMAIN Atoms : Selects(c.sites[i].name, Atoms[a])
        \/ ~allowEmpty /\ ~c.strain /\ SitesOf(c.sites) = NoSites
        \/ pure /\ \E s \in Slots(c) : ~Gamma(s)
        \/ c.slots = <<>> /\ ~allowEmpty /\ ~pure
        \/ requireIrreps /\ \E s \in Slots(c) : s.ir = ""
        \/ \E s \in Slots(c) : SlotRefused(s)
PipelineOptions(c) ==
    {[sites |-> SitesOf(c.sites), strain |-> c.strain, opd |-> c.opd, slots |-> slots] :
        slots \in {f \in [DOMAIN c.slots -> UNION {SlotOptions(s) : s \in Slots(c)}] :
                      \A i \in DOMAIN c.slots : f[i] \in SlotOptions(c.slots[i])}}

-----------------------------------------------------------------------------
CliAt(in, step) ==
    /\ input = in
    /\ cliStep = step /\ case = NoCase /\ options = Nothing
    /\ engine = "none" /\ output = "none"
    /\ published = FALSE /\ trap = FALSE /\ tempCif = FALSE /\ status = -1
CliInit == \E in \in Inputs : CliAt(in, "start")

(* A fault: nobody removes the CIF of --sg. *)
ExitLeaving(code) == cliStep' = "ended" /\ status' = code /\ UNCHANGED tempCif
(* The process ends, with the files it made for itself removed (atexit). *)
ExitWith(code) == cliStep' = "ended" /\ status' = code /\ tempCif' = FALSE
(* usage_error, fail_buf: out of the process, or back into apo_case_launch. *)
Refuse ==
    IF trap THEN cliStep' = "ended" /\ status' = 1 /\ trap' = FALSE /\ UNCHANGED tempCif
    ELSE ExitWith(2) /\ UNCHANGED trap

Start ==
    /\ cliStep = "start"
    /\ IF ArgsRefused(input)
       THEN Refuse
       ELSE /\ cliStep' = "reading"
            /\ tempCif' = (input.parent = "sg")
            /\ trap' = (input.command = "example")
            /\ UNCHANGED status
    /\ UNCHANGED <<input, case, options, engine, output, published>>
ReadRefused ==
    IF input.file
    THEN \/ FileRefused(input)
         \/ ~Launches(input) /\ CaseRefused(StageOf(input, FileCase(input)), FileCase(input))
    ELSE SelectionRefused(Defaulted(input)) \/ WordsRefused(input)
TextRefused == input.text /\ StageOf(input, NoCase) # "modes"
Read ==
    /\ cliStep = "reading"
    /\ case' = IF input.file THEN FileCase(input) ELSE WordsCase(Defaulted(input))
    /\ IF ReadRefused \/ TextRefused
       THEN Refuse
       ELSE cliStep' = "asking" /\ UNCHANGED <<trap, tempCif, status>>
    /\ UNCHANGED <<input, options, engine, output, published>>

(* report_error tells the errors it knows from the others. *)
Fails(failure) ==
    /\ engine' = failure
    /\ IF trap THEN cliStep' = "ended" /\ status' = 1 /\ trap' = FALSE /\ UNCHANGED tempCif
       ELSE ExitWith(IF failure = "caught" THEN 2 ELSE 1) /\ UNCHANGED trap
    /\ UNCHANGED <<input, case, options, output, published>>

Ask ==
    LET stage == StageOf(input, case)
    IN  /\ cliStep = "asking"
        /\ \/ Fails("caught")    \* the CIF cannot be read
           \/ /\ stage # "info" /\ PipelineRefused(case, Deep(stage), stage = "kpoints")
              /\ Fails("caught")
           \/ /\ stage = "info" \/ ~PipelineRefused(case, Deep(stage), stage = "kpoints")
              /\ options' \in IF stage = "info" THEN {ParentOnly} ELSE PipelineOptions(case)
              /\ cliStep' = "asked"
              /\ UNCHANGED <<input, case, engine, output, published, trap, tempCif, status>>

(* The engine answers; a case to be shown is only asked for its options. *)
Compute ==
    /\ cliStep = "asked"
    /\ ~Launches(input)
    /\ \/ \E failure \in {"caught", "uncaught", "memory"} : Fails(failure)
       \/ /\ \E answer \in {"answer", "modeError"} :
                 /\ answer = "modeError" => StageOf(input, case) = "modes" /\ ~input.text
                 /\ engine' = answer
          /\ cliStep' = "answered"
          /\ UNCHANGED <<input, case, options, output, published, trap, tempCif, status>>

(* write_result: the file cannot be opened, or what fwrite and fclose say of it
   is not looked at. *)
WriteResult(code) ==
    \/ Refuse /\ UNCHANGED output
    \/ /\ output' \in {"whole", "short"}
       /\ ExitWith(code)
       /\ UNCHANGED trap
Write ==
    /\ cliStep = "answered"
    /\ WriteResult(IF engine = "modeError" THEN 2 ELSE 0)
    /\ UNCHANGED <<input, case, options, engine, published>>
(* case_launch after the options, and show_command: the launch is posted; the
   server refuses it or nobody is there, or the reply is lost. *)
AmplitudesRefused ==
    /\ input.amplitudes # "none"
    /\ input.amplitudes = "bad" \/ StageOf(input, case) # "modes"
Post ==
    /\ cliStep = "asked" /\ input.command = "show"
    /\ \/ AmplitudesRefused /\ Refuse /\ UNCHANGED <<engine, published>>
       \/ Refuse /\ UNCHANGED <<engine, published>>  \* no CIF any more, no server, or no room
       \/ /\ ~AmplitudesRefused
          /\ published' = TRUE
          /\ \/ Refuse /\ UNCHANGED engine
             \/ engine' = "answer" /\ cliStep' = "answered" /\ UNCHANGED <<trap, tempCif, status>>
    /\ UNCHANGED <<input, case, options, output>>

(* apo_case_launch and example: the server publishes what it read itself. *)
PublishExample ==
    /\ cliStep = "asked" /\ input.command = "example"
    /\ \/ Refuse /\ UNCHANGED published  \* the CIF is gone
       \/ /\ trap' = FALSE
          /\ cliStep' = "ended"
          /\ \/ status' = 0 /\ published' = TRUE
             \/ status' = 1 /\ UNCHANGED published  \* the mailbox is full
          /\ UNCHANGED tempCif
    /\ UNCHANGED <<input, case, options, engine, output>>
NextExample ==
    /\ cliStep = "ended" /\ input.command = "example" /\ status # 2
    /\ input' \in {in \in Inputs : in.command = "example"}
    /\ cliStep' = "start" /\ case' = NoCase /\ options' = Nothing
    /\ published' = FALSE /\ engine' = "none" /\ status' = -1
    /\ UNCHANGED <<output, trap, tempCif>>

CliNext == Start \/ Read \/ Ask \/ Compute \/ Write \/ Post \/ PublishExample \/ NextExample
CliSpec == CliInit /\ [][CliNext]_cliVars

-----------------------------------------------------------------------------
(* What the manual asks of a case for a stage, whichever way it is said. *)
Named(in) == {in.sites[i].name : i \in {j \in DOMAIN in.sites : in.sites[j].kinds # {}}}
KindsOf(in, name) ==
    LET entries == {i \in DOMAIN in.sites : in.sites[i].name = name /\ in.sites[i].kinds # {}}
    IN  IF in.file THEN in.sites[CHOOSE i \in entries : \A j \in entries : j <= i].kinds
        ELSE UNION {in.sites[i].kinds : i \in entries}
ParamsGiven(in, slot) ==
    /\ slot.label \in DOMAIN Catalog
    /\ \A i \in DOMAIN slot.params : slot.params[i][2] # "?"
    /\ \/ Names(slot) = Range(Catalog[slot.label]) /\ (in.file \/ Distinct(slot))
       \/ ~in.file /\ Positional(slot) /\ Len(slot.params) = Len(Catalog[slot.label])
Complete(in, stage) ==
    LET pure == in.strain /\ Named(in) = {}
    IN  /\ \A n \in Named(in) : \E a \in DOMAIN Atoms : Selects(n, Atoms[a])
        /\ stage # "kpoints" => in.strain \/ Named(in) # {}
        /\ Len(in.slots) <= MAX_SLOTS
        /\ \A s \in Slots(in) : ParamsGiven(in, s)
        /\ in.slots = <<>> => stage = "kpoints" \/ (stage = "irreps" /\ pure)
        /\ stage = "irreps" /\ pure => \A s \in Slots(in) : Gamma(s)
        /\ Deep(stage) => \A s \in Slots(in) : s.ir # ""
        /\ stage = "modes" => in.opd
WellFormed(in) ==
    /\ ~ArgsRefused(in)
    /\ in.parent \in {"cif", "sg"}
    /\ \A i \in DOMAIN in.sites : "malformed" \notin in.sites[i].kinds

(* Four layers look at a case, in two spellings: the options of the command,
   the reading of words or of a file, the checks for the stage, and the core.
   Between them they let a case through exactly when it is complete for its
   stage, and what the engine is asked then is what was said: the atoms of
   every kind, and for every slot its k point, parameters and irrep. *)
AsksWhatIsMeant ==
    LET meant == Defaulted(input)
        stage == StageOf(input, FileCase(input))
    IN  /\ options \notin {Nothing, ParentOnly} =>
               /\ WellFormed(input) /\ Complete(meant, stage)
               /\ \A k \in Kinds : options.sites[k] =
                      {a \in DOMAIN Atoms : \E n \in Named(meant) : Selects(n, Atoms[a]) /\ k \in KindsOf(meant, n)}
               /\ options.strain = input.strain /\ options.opd = input.opd
               /\ Len(options.slots) = Len(input.slots)
               /\ \A i \in DOMAIN input.slots :
                      /\ options.slots[i].label = input.slots[i].label
                      /\ options.slots[i].ir = input.slots[i].ir
                      /\ Positional(input.slots[i]) =>
                             \A p \in DOMAIN input.slots[i].params :
                                 options.slots[i].params[Catalog[input.slots[i].label][p]] = input.slots[i].params[p][2]
                      /\ ~Positional(input.slots[i]) =>
                             \A n \in Names(input.slots[i]) :
                                 <<n, options.slots[i].params[n]>> \in Range(input.slots[i].params)
        /\ cliStep = "ended" /\ options = Nothing /\ engine = "none" /\ stage # "info" =>
               ~WellFormed(input) \/ ~Complete(meant, stage) \/ (input.text /\ stage # "modes")

(* How a run ends says what it left behind.  Status 0: an answer was written,
   or a launch was published and acknowledged.  An answer under another status
   is one whose mode details failed.  A refusal leaves neither answer nor
   launch, unless the launch was out before the reply or the output file
   failed.  The CIF of --sg is gone, and no refusal of an example ends the
   server or leaves a trap behind. *)
EndsAsTold ==
    /\ cliStep = "ended" =>
           /\ status = 0 => /\ input.command \in {"show", "example"} => published
                            /\ input.command # "example" => output # "none" /\ engine = "answer"
           /\ output # "none" /\ status # 0 => engine = "modeError"
           /\ published /\ status # 0 => input.command = "show" /\ output = "none"
           /\ ~tempCif /\ ~trap
    /\ input.command = "example" => status \in {-1, 0, 1}
=============================================================================
