----------------------------- MODULE InputPage -----------------------------
(***************************************************************************)
(* The input page of gui/web/index.html: one record of state that the user *)
(* (file, k-point, irrep and OPD buttons, recent inputs) and the launches  *)
(* of the server change through callbacks that await replies.              *)
(*                                                                         *)
(* An input is the CIF text of state.cif, abstracted to a member of        *)
(* Inputs; an analysis carries the input and the OPD index it was sent     *)
(* with.  Each step is what one callback does between two awaits.          *)
(***************************************************************************)
EXTENDS Integers, Sequences, FiniteSets, SequencesExt

CONSTANTS
    Inputs,       \* CIF texts
    Opds,         \* OPD indexes, 1 among them
    NoInput,      \* the empty state.cif, and state.backendState = null
    MaxRecent,    \* the 20 recent inputs that are kept
    MaxActions    \* bound of the model: launches and clicks

ASSUME PageAssumption ==
    /\ 1 \in Opds
    /\ NoInput \notin Inputs
    /\ MaxRecent \in Nat \ {0}
    /\ MaxActions \in Nat

VARIABLES
    cif,          \* state.cif
    opd,          \* state.orderparamIndex
    backend,      \* state.backendState: the input and OPD index it is for
    running,      \* state.running
    sections,     \* the sections of the page that are not hidden
    awaiting,     \* the callbacks that await something
    polling,      \* pollGuiLaunch() awaits a reply
    recent,       \* recentInputs, newest first
    crossed,      \* history: the input was replaced while an analysis was out
    actions       \* how much of MaxActions is used up

vars == <<cif, opd, backend, running, sections, awaiting, polling, recent, crossed,
          actions>>

Sections == <<"distortion", "k", "irrep", "opd", "modes">>

\* hideAfter(step): step 1 hides every section, 2 all after the first, ...
Hidden(shown, step) == shown \ {Sections[i] : i \in step..Len(Sections)}

NoResult == [cif |-> NoInput, opd |-> 1, modes |-> FALSE]
NotAwaited == [kind |-> "none", cif |-> NoInput, opd |-> 1]

\* Each callback is awaited at most once more than MaxActions allows.
Slots == 1..MaxActions
Free == CHOOSE slot \in Slots : awaiting[slot] = NotAwaited
Await(task) == awaiting' = [awaiting EXCEPT ![Free] = task]
Done(slot) == awaiting' = [awaiting EXCEPT ![slot] = NotAwaited]
AnalysisOut == \E slot \in Slots : awaiting[slot].kind \notin {"none", "file"}

Init ==
    /\ cif = NoInput
    /\ opd = 1
    /\ backend = NoResult
    /\ running = FALSE
    /\ sections = {}
    /\ awaiting = [slot \in Slots |-> NotAwaited]
    /\ polling = FALSE
    /\ recent = <<>>
    /\ crossed = FALSE
    /\ actions = 0

Act == actions < MaxActions /\ actions' = actions + 1

\* rememberInput(): the entry takes its input and OPD index from the page and
\* its result from the backend state; an equal one moves to the front.
Remembered(input, index, result) ==
    LET entry == [cif |-> input, opd |-> index, result |-> result]
        all == <<entry>> \o RemoveFirst(recent, entry)
    IN  SubSeq(all, 1, IF Len(all) < MaxRecent THEN Len(all) ELSE MaxRecent)

\* A fault: the old result survives.
StartOverWithResult == opd' = 1 /\ sections' = {} /\ UNCHANGED backend

\* resetAnalysisWorkflow()
StartOver == opd' = 1 /\ sections' = {} /\ backend' = NoResult

\* A fault: a second analysis is let through.
RefusesNoInput == cif = NoInput

\* The early return of analyze().
Refuses == running \/ cif = NoInput

-----------------------------------------------------------------------------
(* The user                                                                *)

\* A file is chosen; its content is awaited.
ChooseFile(input) ==
    /\ Act
    /\ Await([kind |-> "file", cif |-> input, opd |-> 1])
    /\ UNCHANGED <<cif, opd, backend, running, sections, polling, recent, crossed>>

\* The file has been read: it becomes the input, the workflow starts over, and
\* analyze() sends it unless something is running.
FileRead(slot) ==
    LET input == awaiting[slot].cif IN
    /\ awaiting[slot].kind = "file"
    /\ cif' = input
    /\ StartOver
    /\ crossed' = (crossed \/ AnalysisOut)
    /\ IF running
       THEN Done(slot) /\ UNCHANGED running
       ELSE /\ running' = TRUE
            /\ awaiting' = [awaiting EXCEPT ![slot] =
                               [kind |-> "parent", cif |-> input, opd |-> 1]]
    /\ UNCHANGED <<polling, recent, actions>>

\* What the handler of a workflow button does after analyze() returned: with a
\* backend state it shows the next section and hides those behind it.
Proceed(kind, shown, result) ==
    IF result = NoResult THEN shown
    ELSE CASE kind = "parent" -> Hidden(shown, 2) \cup {"distortion"}
           [] kind = "k" -> Hidden(shown \cup {"irrep"}, 4)
           [] kind = "irrep" -> (shown \cup {"opd"}) \ {"modes"}
           [] kind = "opd" -> shown \cup {"modes"}
           [] OTHER -> shown

\* "Select distortion" shows the k section without computing.
PressDistortion ==
    /\ Act
    /\ "distortion" \in sections
    /\ backend # NoResult
    /\ sections' = Hidden(sections \cup {"k"}, 3)
    /\ UNCHANGED <<cif, opd, backend, running, awaiting, polling, recent, crossed>>

\* k-ok resets the OPD index and calls analyze(), which returns at once while
\* something is running or there is no input; the handler then goes on.
PressK ==
    /\ Act
    /\ "k" \in sections
    /\ opd' = 1
    /\ IF Refuses
       THEN /\ sections' = Proceed("k", sections, backend)
            /\ UNCHANGED <<running, awaiting>>
       ELSE /\ running' = TRUE
            /\ Await([kind |-> "k", cif |-> cif, opd |-> 1])
            /\ UNCHANGED sections
    /\ UNCHANGED <<cif, backend, polling, recent, crossed>>

\* irrep-ok and opd-ok do nothing while something is running, except that
\* opd-ok has stored its index before it looks.  withStepCalculating() disables
\* the button until its own analysis is back.
PressIrrepOrOpd(kind, index) ==
    /\ Act
    /\ kind \in sections
    /\ \A slot \in Slots : awaiting[slot].kind # kind
    /\ kind = "irrep" => index = 1
    /\ IF running
       THEN /\ opd' = IF kind = "opd" THEN index ELSE opd
            /\ UNCHANGED <<running, awaiting>>
       ELSE /\ opd' = index
            /\ running' = TRUE
            /\ Await([kind |-> kind, cif |-> cif, opd |-> index])
    /\ UNCHANGED <<cif, backend, sections, polling, recent, crossed>>

\* A choice is changed in a section: the results that depend on it are hidden,
\* and only the distortion and irrep selections reset the OPD index.
ChangeChoice(section) ==
    /\ Act
    /\ section \in sections
    /\ sections' = CASE section \in {"distortion", "k"} -> sections \ {"irrep", "opd", "modes"}
                     [] section = "irrep" -> sections \ {"opd", "modes"}
                     [] OTHER -> sections \ {"modes"}
    /\ \/ section = "distortion" /\ opd' = 1
       \/ section = "k" /\ UNCHANGED opd
       \/ section = "irrep" /\ opd' = 1
       \/ section = "opd" /\ opd' \in Opds
    /\ UNCHANGED <<cif, backend, running, awaiting, polling, recent, crossed>>

\* A recent input is opened again, unless something is running.  The request
\* names the OPD of the result by its label, which wins over the index.
UseSavedInput(entry) ==
    /\ Act
    /\ ~running
    /\ \A slot \in Slots : awaiting[slot].kind # "saved"
    /\ running' = TRUE
    /\ Await([kind |-> "saved", cif |-> entry.cif, opd |-> entry.result.opd])
    /\ UNCHANGED <<cif, opd, backend, sections, polling, recent, crossed>>

-----------------------------------------------------------------------------
(* Replies                                                                 *)

\* An analysis of a workflow button succeeds: whatever the input is by now,
\* its reply becomes the backend state, and one with mode details is remembered.
\* renderOPD() resets an OPD index that is beyond the rows of the reply, which
\* has none unless they were asked for.
AnalysisDone(slot) ==
    LET task == awaiting[slot]
        result == [cif |-> task.cif, opd |-> task.opd, modes |-> task.kind = "opd"]
    IN
    /\ task.kind \in {"parent", "k", "irrep", "opd"}
    /\ backend' = result
    /\ recent' = IF task.kind = "opd" THEN Remembered(cif, opd, result) ELSE recent
    /\ running' = FALSE
    /\ sections' = Proceed(task.kind, sections, result)
    /\ opd' = IF task.kind \in {"parent", "k"} THEN 1 ELSE opd
    /\ Done(slot)
    /\ UNCHANGED <<cif, polling, crossed, actions>>

\* A fault: state.running is only cleared by a reply.
AnalysisFailedRunning(slot) ==
    LET kind == awaiting[slot].kind IN
    /\ kind \notin {"none", "file"}
    /\ sections' = IF kind = "saved" THEN sections ELSE Proceed(kind, sections, backend)
    /\ Done(slot)
    /\ UNCHANGED <<cif, opd, backend, running, polling, recent, crossed, actions>>

\* It fails: an error is shown, and the handler goes on with what there is.
AnalysisFailed(slot) ==
    LET kind == awaiting[slot].kind IN
    /\ kind \notin {"none", "file"}
    /\ running' = FALSE
    /\ sections' = IF kind = "saved" THEN sections ELSE Proceed(kind, sections, backend)
    /\ Done(slot)
    /\ UNCHANGED <<cif, opd, backend, polling, recent, crossed, actions>>

\* renderGuiLaunch(): the whole page is set to the launch, in one callback.
\* It starts over, and a selection that the backend state does not offer stops
\* it after the input has been replaced.
RenderLaunch(input, index, stage) ==
    LET result == [cif |-> input, opd |-> index, modes |-> stage = "modes"] IN
    /\ cif' = input
    /\ backend' = result
    /\ running' = FALSE
    /\ \/ /\ opd' = index
          /\ sections' = {"distortion", "k"}
                \cup (IF stage \in {"irreps", "opds", "modes"} THEN {"irrep"} ELSE {})
                \cup (IF stage \in {"opds", "modes"} THEN {"opd"} ELSE {})
                \cup (IF stage = "modes" THEN {"modes"} ELSE {})
          /\ recent' = IF stage = "modes" THEN Remembered(input, index, result) ELSE recent
       \/ /\ stage # "kpoints"
          /\ opd' = 1
          /\ sections' = {}
          /\ UNCHANGED recent

\* The reply for a recent input is rendered like a launch.
SavedDone(slot) ==
    LET task == awaiting[slot] IN
    /\ task.kind = "saved"
    /\ RenderLaunch(task.cif, task.opd, "modes")
    /\ Done(slot)
    /\ crossed' = (crossed \/ \E other \in Slots \ {slot} :
                      awaiting[other].kind \notin {"none", "file"})
    /\ UNCHANGED <<polling, actions>>

\* pollGuiLaunch() looks at state.running only before it asks the server.
PollSend ==
    /\ ~polling
    /\ ~running
    /\ polling' = TRUE
    /\ UNCHANGED <<cif, opd, backend, running, sections, awaiting, recent, crossed,
                   actions>>

\* A poll brings nothing or fails.
PollEmpty ==
    /\ polling
    /\ polling' = FALSE
    /\ UNCHANGED <<cif, opd, backend, running, sections, awaiting, recent, crossed,
                   actions>>

\* A poll brings a launch, which is rendered at once: also when an analysis was
\* started after the poll was sent, and state.running is cleared for it too.
PollLaunch(input, index, stage) ==
    /\ polling
    /\ Act
    /\ polling' = FALSE
    /\ stage \in {"kpoints", "irreps"} => index = 1
    /\ RenderLaunch(input, index, stage)
    /\ crossed' = (crossed \/ AnalysisOut)
    /\ UNCHANGED awaiting

-----------------------------------------------------------------------------

UserStep ==
    \/ \E input \in Inputs : ChooseFile(input)
    \/ PressDistortion
    \/ PressK
    \/ \E section \in {"distortion", "k", "irrep", "opd"} : ChangeChoice(section)
    \/ \E kind \in {"irrep", "opd"}, index \in Opds : PressIrrepOrOpd(kind, index)
    \/ \E i \in 1..Len(recent) : UseSavedInput(recent[i])

ReplyStep ==
    \E slot \in Slots :
        FileRead(slot) \/ AnalysisDone(slot) \/ AnalysisFailed(slot) \/ SavedDone(slot)

PollStep ==
    \/ PollSend
    \/ PollEmpty
    \/ \E input \in Inputs, index \in Opds, stage \in {"kpoints", "irreps", "opds", "modes"} :
          PollLaunch(input, index, stage)

Next == UserStep \/ ReplyStep \/ PollStep

Spec == Init /\ [][Next]_vars

\* Files are read and the server answers; the timer of the page keeps polling.
Fairness == WF_vars(ReplyStep) /\ WF_vars(PollSend) /\ WF_vars(PollEmpty)

FairSpec == Spec /\ Fairness

-----------------------------------------------------------------------------
(* Properties                                                              *)

\* state.running is only set while a reply is awaited that will clear it, so
\* no sequence of clicks, launches and failures stops the page for good.  And
\* unless a launch or a file replaced the input meanwhile at most one analysis
\* is out, so that no two of them write the state in the order of their answers.
RunningIsAwaited ==
    /\ running => AnalysisOut
    /\ ~crossed => Cardinality({slot \in Slots : awaiting[slot].kind \notin {"none", "file"}}) <= 1

\* Unless a launch or a file replaced the input while an analysis was out, the
\* result on the page belongs to the input on the page, and a remembered input
\* is the one its result was computed from, so that opening it again shows the
\* same OPD of the same structure.  There are never more than MaxRecent.
ResultOfInput ==
    /\ ~crossed =>
           /\ backend = NoResult \/ backend.cif = cif
           /\ \A i \in 1..Len(recent) : recent[i].cif = recent[i].result.cif
    /\ Len(recent) <= MaxRecent

\* The page polls for launches again and again.
PollsForever == []<>polling
=============================================================================
