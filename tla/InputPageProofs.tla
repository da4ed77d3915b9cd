-------------------------- MODULE InputPageProofs --------------------------
(***************************************************************************)
(* Proofs about InputPage, for any inputs, any OPD indexes and any number  *)
(* of clicks and launches.  The inductive invariant has three parts beside *)
(* the types: there is a slot for every callback that may still be awaited,*)
(* state.running is set exactly while an analysis is out as long as no     *)
(* launch or file crossed one, and what is out was sent for the input that *)
(* is on the page.                                                         *)
(***************************************************************************)
EXTENDS InputPage, Induction

Kinds == {"none", "file", "parent", "k", "irrep", "opd", "saved"}
Texts == Inputs \cup {NoInput}
Tasks == [kind : Kinds, cif : Texts, opd : Opds]
Results == [cif : Texts, opd : Opds, modes : BOOLEAN]
Entries == [cif : Texts, opd : Opds, result : Results]

PageTypes ==
    /\ cif \in Texts
    /\ opd \in Opds
    /\ backend \in Results
    /\ running \in BOOLEAN
    /\ awaiting \in [Slots -> Tasks]
    /\ recent \in Seq(Entries)
    /\ crossed \in BOOLEAN
    /\ actions \in 0..MaxActions

Occupied == {slot \in Slots : awaiting[slot] # NotAwaited}

(* The analyses whose answer is still to come. *)
Out == {slot \in Slots : awaiting[slot].kind \notin {"none", "file"}}

(* Each click and launch awaits at most one callback. *)
RoomLeft == Cardinality(Occupied) <= actions

(* analyze() lets one analysis out at a time, and only a file or a launch   *)
(* that replaces the input clears state.running before its answer.          *)
RunningTells ==
    /\ running => Out # {}
    /\ ~crossed => (Out # {} => running)
    /\ ~crossed => \A s, t \in Out : s = t

(* A recent input that is opened again replaces the input when it answers. *)
SentForPage ==
    ~crossed =>
        /\ backend = NoResult \/ backend.cif = cif
        /\ \A slot \in Out : awaiting[slot].kind = "saved" \/ awaiting[slot].cif = cif
        /\ \A i \in 1..Len(recent) : recent[i].cif = recent[i].result.cif

PageInv ==
    /\ PageTypes
    /\ RoomLeft
    /\ RunningTells
    /\ SentForPage
    /\ Len(recent) <= MaxRecent

-----------------------------------------------------------------------------
\* There are finitely many slots, so the occupied ones can be counted.
LEMMA SlotsCounted ==
    /\ IsFiniteSet(Slots) /\ Cardinality(Slots) = MaxActions
    /\ \A S \in SUBSET Slots : IsFiniteSet(S) /\ Cardinality(S) \in Nat
<1>1. IsFiniteSet(Slots) /\ Cardinality(Slots) = MaxActions
  BY FS_Interval, PageAssumption DEF Slots
<1>2. ASSUME NEW S \in SUBSET Slots PROVE IsFiniteSet(S) /\ Cardinality(S) \in Nat
  BY <1>1, FS_Subset, FS_CardinalityType
<1> QED BY <1>1, <1>2

\* While the bound allows another action there is a free slot for its callback.
LEMMA FreeSlot ==
    ASSUME PageInv, actions < MaxActions
    PROVE  Free \in Slots /\ awaiting[Free] = NotAwaited
<1>1. Occupied \in SUBSET Slots
  BY DEF Occupied
<1>2. Occupied # Slots
  BY <1>1, SlotsCounted, PageAssumption DEF PageInv, PageTypes, RoomLeft
<1>3. \E slot \in Slots : awaiting[slot] = NotAwaited
  BY <1>1, <1>2 DEF Occupied
<1> QED BY <1>3, Zenon DEF Free

\* What awaiting one more callback, or no longer one, does to the slots.
LEMMA SlotSet ==
    ASSUME PageTypes, NEW slot \in Slots, NEW task \in Tasks,
           awaiting' = [awaiting EXCEPT ![slot] = task]
    PROVE  /\ awaiting' \in [Slots -> Tasks]
           /\ awaiting'[slot] = task
           /\ \A other \in Slots \ {slot} : awaiting'[other] = awaiting[other]
           /\ Out' = IF task.kind \in {"none", "file"} THEN Out \ {slot} ELSE Out \cup {slot}
           /\ Occupied' = IF task = NotAwaited THEN Occupied \ {slot} ELSE Occupied \cup {slot}
<1>1. /\ awaiting' \in [Slots -> Tasks]
      /\ awaiting'[slot] = task
      /\ \A other \in Slots \ {slot} : awaiting'[other] = awaiting[other]
  BY DEF PageTypes
<1>2. Out' = IF task.kind \in {"none", "file"} THEN Out \ {slot} ELSE Out \cup {slot}
  BY <1>1 DEF Out
<1>3. Occupied' = IF task = NotAwaited THEN Occupied \ {slot} ELSE Occupied \cup {slot}
  BY <1>1 DEF Occupied
<1> QED BY <1>1, <1>2, <1>3

\* The count of the occupied slots after such a step.
LEMMA SlotCount ==
    ASSUME PageInv, NEW slot \in Slots
    PROVE  /\ Cardinality(Occupied \ {slot}) <= actions
           /\ Cardinality(Occupied \cup {slot}) <= actions + 1
           /\ slot \in Occupied => Cardinality(Occupied \cup {slot}) <= actions
<1>1. Occupied \in SUBSET Slots /\ IsFiniteSet(Occupied) /\ Cardinality(Occupied) \in Nat
  <2>1. Occupied \in SUBSET Slots
    BY DEF Occupied
  <2> QED BY <2>1, SlotsCounted
<1>2. actions \in Nat /\ Cardinality(Occupied) <= actions
  BY PageAssumption DEF PageInv, PageTypes, RoomLeft
<1>3. Cardinality(Occupied \ {slot}) <= actions
  BY <1>1, <1>2, FS_RemoveElement
<1>4. Cardinality(Occupied \cup {slot}) <= actions + 1
  BY <1>1, <1>2, FS_AddElement
<1>5. slot \in Occupied => Cardinality(Occupied \cup {slot}) <= actions
  BY <1>1, <1>2, FS_AddElement
<1> QED BY <1>3, <1>4, <1>5

\* Removing an element, if it is there, leaves a sequence over the same set.
LEMMA RemovedIsSeq ==
    ASSUME NEW S, NEW s \in Seq(S), NEW e
    PROVE  RemoveFirst(s, e) \in Seq(S)
<1> DEFINE places == {i \in 1..Len(s) : s[i] = e}
           k == CHOOSE x \in places : \A y \in places : x <= y
<1>1. CASE places = {}
  BY <1>1 DEF RemoveFirst
<1>2. CASE places # {}
  <2>1. k \in places
    <3>1. \E x \in places : \A y \in places : x <= y
      <4>1. places \subseteq Nat
        OBVIOUS
      <4> HIDE DEF places
      <4> QED BY <4>1, <1>2, SmallestNat
    <3> HIDE DEF places
    <3> QED BY <3>1, Zenon
  <2>2. RemoveFirst(s, e) = RemoveAt(s, k)
    BY <1>2 DEF RemoveFirst, SelectInSeq, Min
  <2>3. k \in 1..Len(s)
    BY <2>1
  <2> HIDE DEF k, places
  <2>4. SubSeq(s, 1, k - 1) \in Seq(S) /\ SubSeq(s, k + 1, Len(s)) \in Seq(S)
    <3>1. Len(s) \in Nat /\ \A i \in 1..Len(s) : s[i] \in S
      OBVIOUS
    <3> QED BY <2>3, <3>1
  <2> QED BY <2>2, <2>4 DEF RemoveAt
<1> QED BY <1>1, <1>2

\* rememberInput() keeps a list of entries short, and keeps it a list of
\* entries whose result belongs to their input if the new one is such.
LEMMA RememberedKept ==
    ASSUME PageTypes, NEW input \in Texts, NEW index \in Opds, NEW result \in Results
    PROVE  /\ Remembered(input, index, result) \in Seq(Entries)
           /\ Len(Remembered(input, index, result)) <= MaxRecent
           /\ (\A i \in 1..Len(recent) : recent[i].cif = recent[i].result.cif)
                 /\ input = result.cif
              => \A i \in 1..Len(Remembered(input, index, result)) :
                    Remembered(input, index, result)[i].cif
                       = Remembered(input, index, result)[i].result.cif
<1> DEFINE entry == [cif |-> input, opd |-> index, result |-> result]
           all == <<entry>> \o RemoveFirst(recent, entry)
           new == Remembered(input, index, result)
<1>1. entry \in Entries
  BY DEF Entries
<1>2. ASSUME NEW S, recent \in Seq(S), entry \in S
      PROVE  new \in Seq(S) /\ Len(new) <= MaxRecent
  <2>1. RemoveFirst(recent, entry) \in Seq(S)
    BY <1>2, RemovedIsSeq
  <2>2. all \in Seq(S) /\ Len(all) \in Nat /\ \A i \in 1..Len(all) : all[i] \in S
    <3>1. <<entry>> \in Seq(S)
      BY <1>2
    <3> HIDE DEF entry
    <3> QED BY <2>1, <3>1
  <2>3. new = SubSeq(all, 1, IF Len(all) < MaxRecent THEN Len(all) ELSE MaxRecent)
    BY DEF Remembered
  <2> HIDE DEF all, new
  <2>4. PICK n \in Nat : n = (IF Len(all) < MaxRecent THEN Len(all) ELSE MaxRecent)
    BY <2>2, PageAssumption
  <2>5. n <= Len(all) /\ n <= MaxRecent
    BY <2>2, <2>4, PageAssumption
  <2>6. new = SubSeq(all, 1, n)
    BY <2>3, <2>4
  <2>7. SubSeq(all, 1, n) \in Seq(S) /\ Len(SubSeq(all, 1, n)) = n
    BY <2>2, <2>5
  <2> QED BY <2>5, <2>6, <2>7
<1>3. new \in Seq(Entries) /\ Len(new) <= MaxRecent
  <2>1. recent \in Seq(Entries)
    BY DEF PageTypes
  <2> HIDE DEF new, entry
  <2> QED BY <2>1, <1>1, <1>2
<1>4. ASSUME \A i \in 1..Len(recent) : recent[i].cif = recent[i].result.cif, input = result.cif
      PROVE  \A i \in 1..Len(new) : new[i].cif = new[i].result.cif
  <2> DEFINE S == {e \in Entries : e.cif = e.result.cif}
  <2>1. entry \in S
    BY <1>1, <1>4
  <2>2. recent \in Seq(S)
    BY <1>4 DEF PageTypes
  <2>3. new \in Seq(S)
    <3> HIDE DEF S, new, entry
    <3> QED BY <2>1, <2>2, <1>2
  <2>4. \A i \in 1..Len(new) : new[i] \in S
    <3> HIDE DEF S, new
    <3> QED BY <2>3
  <2> HIDE DEF new
  <2> QED BY <2>4
<1> QED BY <1>3, <1>4

-----------------------------------------------------------------------------
(* Steps *)

\* The page starts with nothing awaited.
LEMMA InitPageInv == Init => PageInv
<1> SUFFICES ASSUME Init PROVE PageInv
  OBVIOUS
<1>1. NotAwaited \in Tasks /\ NoResult \in Results
  BY PageAssumption DEF NotAwaited, NoResult, Tasks, Results, Texts, Kinds
<1>2. PageTypes
  <2>1. awaiting \in [Slots -> Tasks]
    BY <1>1 DEF Init
  <2>2. recent \in Seq(Entries)
    BY DEF Init
  <2>3. cif \in Texts /\ opd \in Opds /\ backend \in Results
    BY <1>1, PageAssumption DEF Init, Texts
  <2>4. running \in BOOLEAN /\ crossed \in BOOLEAN
    BY DEF Init
  <2>5. actions \in 0..MaxActions
    BY PageAssumption DEF Init
  <2> QED BY <2>1, <2>2, <2>3, <2>4, <2>5 DEF PageTypes
<1>3. Occupied = {} /\ Out = {}
  BY DEF Init, Occupied, Out, NotAwaited
<1>4. RoomLeft
  BY <1>3, FS_EmptySet, PageAssumption DEF RoomLeft, Init
<1> QED BY <1>2, <1>3, <1>4, PageAssumption DEF PageInv, RunningTells, SentForPage, Init

\* A step that awaits nothing new and keeps the input and the result.
LEMMA QuietKeeps ==
    ASSUME PageInv, opd' \in Opds, actions' \in {actions, actions + 1}, actions' <= MaxActions,
           UNCHANGED <<cif, backend, running, awaiting, recent, crossed>>
    PROVE  PageInv'
<1>1. actions \in Nat /\ actions' \in 0..MaxActions /\ actions <= actions'
  BY PageAssumption DEF PageInv, PageTypes
<1>2. PageTypes'
  BY <1>1 DEF PageInv, PageTypes
<1>3. Occupied' = Occupied /\ Out' = Out
  BY DEF Occupied, Out
<1>4. RoomLeft'
  <2>1. Occupied \in SUBSET Slots
    BY DEF Occupied
  <2>2. Cardinality(Occupied) \in Nat
    BY <2>1, SlotsCounted
  <2> QED BY <1>1, <1>3, <2>2 DEF PageInv, RoomLeft
<1>5. RunningTells'
  BY <1>3 DEF PageInv, RunningTells
<1>6. SentForPage'
  BY <1>3 DEF PageInv, SentForPage
<1> QED BY <1>2, <1>4, <1>5, <1>6 DEF PageInv

\* A callback is awaited in the free slot.
LEMMA Awaited ==
    ASSUME PageInv, Act, NEW task \in Tasks, Await(task)
    PROVE  \E slot \in Slots :
              /\ awaiting[slot] = NotAwaited
              /\ slot \notin Out
              /\ awaiting' = [awaiting EXCEPT ![slot] = task]
              /\ Cardinality(Occupied') <= actions'
              /\ actions' \in 0..MaxActions
<1>1. actions < MaxActions /\ actions' = actions + 1
  BY DEF Act
<1>2. Free \in Slots /\ awaiting[Free] = NotAwaited
  BY <1>1, FreeSlot
<1>3. PICK slot \in Slots : slot = Free
  BY <1>2
<1>4. awaiting[slot] = NotAwaited /\ awaiting' = [awaiting EXCEPT ![slot] = task]
  BY <1>2, <1>3 DEF Await
<1>5. slot \notin Out /\ slot \notin Occupied
  BY <1>4 DEF Out, Occupied, NotAwaited
<1>6. Occupied' = Occupied \/ Occupied' = Occupied \cup {slot}
  <2>1. Occupied' = IF task = NotAwaited THEN Occupied \ {slot} ELSE Occupied \cup {slot}
    BY <1>4, SlotSet DEF PageInv
  <2> QED BY <2>1, <1>5
<1>7. Cardinality(Occupied') <= actions'
  <2>1. actions \in Nat
    BY PageAssumption DEF PageInv, PageTypes
  <2>2. Cardinality(Occupied) <= actions /\ Cardinality(Occupied \cup {slot}) <= actions + 1
    BY SlotCount DEF PageInv, RoomLeft
  <2>3. Occupied \in SUBSET Slots
    BY DEF Occupied
  <2>4. Cardinality(Occupied) \in Nat
    BY <2>3, SlotsCounted
  <2>5. CASE Occupied' = Occupied
    BY <1>1, <2>1, <2>2, <2>4, <2>5
  <2>6. CASE Occupied' = Occupied \cup {slot}
    BY <1>1, <2>2, <2>6
  <2> QED BY <1>6, <2>5, <2>6
<1>8. actions' \in 0..MaxActions
  BY <1>1, PageAssumption DEF PageInv, PageTypes
<1> QED BY <1>4, <1>5, <1>7, <1>8

\* A file is awaited: no analysis is out for it yet.
LEMMA ChooseFileKeeps ==
    ASSUME PageInv, NEW input \in Inputs, ChooseFile(input)
    PROVE  PageInv'
<1> DEFINE task == [kind |-> "file", cif |-> input, opd |-> 1]
<1>1. task \in Tasks /\ task.kind = "file"
  BY PageAssumption DEF Tasks, Kinds, Texts
<1>2. Act /\ Await(task) /\ UNCHANGED <<cif, opd, backend, running, recent, crossed>>
  BY DEF ChooseFile
<1> HIDE DEF task
<1>3. PICK slot \in Slots :
         /\ slot \notin Out
         /\ awaiting' = [awaiting EXCEPT ![slot] = task]
         /\ Cardinality(Occupied') <= actions'
         /\ actions' \in 0..MaxActions
  BY <1>1, <1>2, Awaited
<1>4. /\ awaiting' \in [Slots -> Tasks]
      /\ \A other \in Slots \ {slot} : awaiting'[other] = awaiting[other]
      /\ Out' = Out
  <2>1. /\ awaiting' \in [Slots -> Tasks]
        /\ \A other \in Slots \ {slot} : awaiting'[other] = awaiting[other]
        /\ Out' = Out \ {slot}
    BY <1>1, <1>3, SlotSet DEF PageInv
  <2> QED BY <2>1, <1>3
<1>5. PageTypes'
  BY <1>2, <1>3, <1>4 DEF PageInv, PageTypes
<1>6. RunningTells'
  BY <1>2, <1>4 DEF PageInv, RunningTells
<1>7. SentForPage'
  <2>1. \A s \in Out : awaiting'[s] = awaiting[s]
    BY <1>3, <1>4 DEF Out
  <2> QED BY <1>2, <1>4, <2>1 DEF PageInv, SentForPage
<1> QED BY <1>2, <1>3, <1>5, <1>6, <1>7 DEF PageInv, RoomLeft

\* An analysis is sent, for the input on the page or for a recent one.
LEMMA SentKeeps ==
    ASSUME PageInv, Act, ~running, NEW task \in Tasks, task.kind \notin {"none", "file"},
           task.kind = "saved" \/ task.cif = cif, Await(task),
           running' = TRUE, opd' \in Opds, UNCHANGED <<cif, backend, recent, crossed>>
    PROVE  PageInv'
<1>1. PICK slot \in Slots :
         /\ slot \notin Out
         /\ awaiting' = [awaiting EXCEPT ![slot] = task]
         /\ Cardinality(Occupied') <= actions'
         /\ actions' \in 0..MaxActions
  BY Awaited
<1>2. /\ awaiting' \in [Slots -> Tasks]
      /\ awaiting'[slot] = task
      /\ \A other \in Slots \ {slot} : awaiting'[other] = awaiting[other]
      /\ Out' = Out \cup {slot}
  BY <1>1, SlotSet DEF PageInv
<1>3. PageTypes'
  BY <1>1, <1>2 DEF PageInv, PageTypes
<1>4. RunningTells'
  BY <1>2 DEF PageInv, RunningTells
<1>5. SentForPage'
  <2>1. \A s \in Out : awaiting'[s] = awaiting[s]
    BY <1>1, <1>2 DEF Out
  <2> QED BY <1>2, <2>1 DEF PageInv, SentForPage
<1> QED BY <1>1, <1>3, <1>4, <1>5 DEF PageInv, RoomLeft

\* The file becomes the input and is analysed unless something is running.
LEMMA FileReadKeeps ==
    ASSUME PageInv, NEW slot \in Slots, FileRead(slot)
    PROVE  PageInv'
<1> DEFINE input == awaiting[slot].cif
           task == IF running THEN NotAwaited ELSE [kind |-> "parent", cif |-> input, opd |-> 1]
<1>1. input \in Texts /\ slot \notin Out /\ slot \in Occupied
  BY DEF FileRead, PageInv, PageTypes, Tasks, Out, Occupied, NotAwaited
<1>2. task \in Tasks /\ (running => task.kind = "none") /\ (~running => task.kind = "parent" /\ task.cif = input)
  BY <1>1, PageAssumption DEF Tasks, Kinds, NotAwaited, Texts
<1>3. /\ cif' = input /\ opd' = 1 /\ backend' = NoResult
      /\ crossed' = (crossed \/ AnalysisOut)
      /\ awaiting' = [awaiting EXCEPT ![slot] = task]
      /\ running' = TRUE
      /\ UNCHANGED <<recent, actions>>
  BY DEF FileRead, StartOver, Done, PageInv, PageTypes
<1>4. AnalysisOut <=> Out # {}
  BY DEF AnalysisOut, Out
<1> HIDE DEF task, input
<1>5. /\ awaiting' \in [Slots -> Tasks]
      /\ awaiting'[slot] = task
      /\ Out' = IF task.kind \in {"none", "file"} THEN Out \ {slot} ELSE Out \cup {slot}
      /\ Occupied' = IF task = NotAwaited THEN Occupied \ {slot} ELSE Occupied \cup {slot}
  BY <1>2, <1>3, SlotSet DEF PageInv
<1>6. PageTypes'
  <2>1. NoResult \in Results /\ 1 \in Opds
    BY PageAssumption DEF NoResult, Results, Texts
  <2> QED BY <1>1, <1>3, <1>5, <2>1 DEF PageInv, PageTypes
<1>7. RoomLeft'
  <2>1. CASE task = NotAwaited
    BY <1>3, <1>5, <2>1, SlotCount DEF RoomLeft
  <2>2. CASE task # NotAwaited
    BY <1>1, <1>3, <1>5, <2>2, SlotCount DEF RoomLeft
  <2> QED BY <2>1, <2>2
<1>8. running => Out # {} /\ Out' = Out
  BY <1>1, <1>2, <1>5 DEF PageInv, RunningTells
<1>9. ~running => Out' = Out \cup {slot}
  BY <1>2, <1>5
<1>10. RunningTells'
  BY <1>3, <1>4, <1>8, <1>9 DEF PageInv, RunningTells
<1>11. SentForPage'
  BY <1>2, <1>3, <1>4, <1>5, <1>8, <1>9 DEF PageInv, SentForPage, RunningTells
<1> QED BY <1>3, <1>6, <1>7, <1>10, <1>11 DEF PageInv

\* An answer frees its slot.
LEMMA Answered ==
    ASSUME PageInv, NEW slot \in Slots, Done(slot), UNCHANGED actions
    PROVE  /\ awaiting' \in [Slots -> Tasks]
           /\ \A other \in Out' : awaiting'[other] = awaiting[other]
           /\ Out' = Out \ {slot}
           /\ RoomLeft'
<1>1. NotAwaited \in Tasks /\ NotAwaited.kind = "none"
  BY PageAssumption DEF Tasks, Kinds, NotAwaited, Texts
<1>2. /\ awaiting' \in [Slots -> Tasks]
      /\ \A other \in Slots \ {slot} : awaiting'[other] = awaiting[other]
      /\ Out' = Out \ {slot}
      /\ Occupied' = Occupied \ {slot}
  BY <1>1, SlotSet DEF PageInv, Done
<1>3. RoomLeft'
  BY <1>2, SlotCount DEF RoomLeft
<1>4. \A other \in Out' : awaiting'[other] = awaiting[other]
  BY <1>2 DEF Out
<1> QED BY <1>2, <1>3, <1>4

\* Without a crossing the analysis that answers was the only one out.
LEMMA OnlyOneOut ==
    ASSUME PageInv, ~crossed, NEW slot \in Out
    PROVE  Out \ {slot} = {}
BY DEF PageInv, RunningTells

\* An analysis answers: its result is the one of its input.
LEMMA AnalysisDoneKeeps ==
    ASSUME PageInv, NEW slot \in Slots, AnalysisDone(slot)
    PROVE  PageInv'
<1> DEFINE task == awaiting[slot]
           result == [cif |-> task.cif, opd |-> task.opd, modes |-> task.kind = "opd"]
<1>1. /\ task.kind \in {"parent", "k", "irrep", "opd"}
      /\ backend' = result
      /\ recent' = IF task.kind = "opd" THEN Remembered(cif, opd, result) ELSE recent
      /\ running' = FALSE
      /\ opd' = IF task.kind \in {"parent", "k"} THEN 1 ELSE opd
      /\ Done(slot)
      /\ UNCHANGED <<cif, crossed, actions>>
  BY DEF AnalysisDone
<1>2. task \in Tasks /\ slot \in Out
  BY <1>1 DEF PageInv, PageTypes, Out
<1>3. result \in Results /\ result.cif = task.cif
  BY <1>2 DEF Tasks, Results
<1> HIDE DEF task, result
<1>4. /\ awaiting' \in [Slots -> Tasks]
      /\ Out' = Out \ {slot}
      /\ RoomLeft'
  BY <1>1, Answered
<1>5. /\ recent' \in Seq(Entries)
      /\ Len(recent') <= MaxRecent
      /\ (\A i \in 1..Len(recent) : recent[i].cif = recent[i].result.cif) /\ cif = task.cif
         => \A i \in 1..Len(recent') : recent'[i].cif = recent'[i].result.cif
  <2>1. CASE task.kind = "opd"
    BY <1>1, <1>3, <2>1, RememberedKept DEF PageInv, PageTypes
  <2>2. CASE task.kind # "opd"
    BY <1>1, <2>2 DEF PageInv, PageTypes
  <2> QED BY <2>1, <2>2
<1>6. PageTypes'
  BY <1>1, <1>3, <1>4, <1>5, PageAssumption DEF PageInv, PageTypes
<1>7. ~crossed => Out' = {}
  BY <1>2, <1>4, OnlyOneOut
<1>8. RunningTells'
  BY <1>1, <1>7 DEF RunningTells
<1>9. ~crossed => task.cif = cif
  BY <1>1, <1>2 DEF PageInv, SentForPage, task
<1>10. SentForPage'
  BY <1>1, <1>3, <1>5, <1>7, <1>9 DEF PageInv, SentForPage
<1> QED BY <1>4, <1>5, <1>6, <1>8, <1>10 DEF PageInv

\* A failed analysis only clears what it had set.
LEMMA AnalysisFailedKeeps ==
    ASSUME PageInv, NEW slot \in Slots, AnalysisFailed(slot)
    PROVE  PageInv'
<1>1. /\ slot \in Out
      /\ running' = FALSE
      /\ Done(slot)
      /\ UNCHANGED <<cif, opd, backend, recent, crossed, actions>>
  BY DEF AnalysisFailed, Out
<1>2. /\ awaiting' \in [Slots -> Tasks]
      /\ Out' = Out \ {slot}
      /\ RoomLeft'
  BY <1>1, Answered
<1>3. PageTypes'
  BY <1>1, <1>2 DEF PageInv, PageTypes
<1>4. ~crossed => Out' = {}
  BY <1>1, <1>2, OnlyOneOut
<1>5. RunningTells'
  BY <1>1, <1>4 DEF RunningTells
<1>6. SentForPage'
  BY <1>1, <1>4 DEF PageInv, SentForPage
<1> QED BY <1>1, <1>2, <1>3, <1>5, <1>6 DEF PageInv

-----------------------------------------------------------------------------
(* Launches *)

\* A launch sets the page to one input and its result.
LEMMA Rendered ==
    ASSUME PageInv, NEW input \in Texts, NEW index \in Opds,
           NEW stage \in {"kpoints", "irreps", "opds", "modes"},
           RenderLaunch(input, index, stage)
    PROVE  /\ cif' = input /\ backend' \in Results /\ backend'.cif = input
           /\ running' = FALSE /\ opd' \in Opds
           /\ recent' \in Seq(Entries) /\ Len(recent') <= MaxRecent
           /\ (\A i \in 1..Len(recent) : recent[i].cif = recent[i].result.cif)
              => \A i \in 1..Len(recent') : recent'[i].cif = recent'[i].result.cif
<1> DEFINE result == [cif |-> input, opd |-> index, modes |-> stage = "modes"]
<1>1. result \in Results /\ result.cif = input
  BY DEF Results
<1>2. /\ cif' = input /\ backend' = result /\ running' = FALSE
      /\ opd' \in {index, 1}
      /\ recent' = recent \/ recent' = Remembered(input, index, result)
  BY DEF RenderLaunch
<1> HIDE DEF result
<1>3. /\ recent' \in Seq(Entries) /\ Len(recent') <= MaxRecent
      /\ (\A i \in 1..Len(recent) : recent[i].cif = recent[i].result.cif)
         => \A i \in 1..Len(recent') : recent'[i].cif = recent'[i].result.cif
  <2>1. CASE recent' = recent
    BY <2>1 DEF PageInv, PageTypes
  <2>2. CASE recent' = Remembered(input, index, result)
    BY <1>1, <2>2, RememberedKept DEF PageInv
  <2> QED BY <1>2, <2>1, <2>2
<1> QED BY <1>1, <1>2, <1>3, PageAssumption

\* A recent input that was opened replaces input and result together.
LEMMA SavedDoneKeeps ==
    ASSUME PageInv, NEW slot \in Slots, SavedDone(slot)
    PROVE  PageInv'
<1>1. /\ awaiting[slot].kind = "saved"
      /\ RenderLaunch(awaiting[slot].cif, awaiting[slot].opd, "modes")
      /\ Done(slot)
      /\ crossed' = (crossed \/ \E other \in Slots \ {slot} :
                        awaiting[other].kind \notin {"none", "file"})
      /\ UNCHANGED actions
  BY DEF SavedDone
<1>2. awaiting[slot].cif \in Texts /\ awaiting[slot].opd \in Opds
  BY DEF PageInv, PageTypes, Tasks
<1>3. /\ backend' \in Results /\ backend'.cif = cif' /\ cif' \in Texts
      /\ running' = FALSE /\ opd' \in Opds
      /\ recent' \in Seq(Entries) /\ Len(recent') <= MaxRecent
      /\ (\A i \in 1..Len(recent) : recent[i].cif = recent[i].result.cif)
         => \A i \in 1..Len(recent') : recent'[i].cif = recent'[i].result.cif
  BY <1>1, <1>2, Rendered
<1>4. /\ awaiting' \in [Slots -> Tasks]
      /\ Out' = Out \ {slot}
      /\ RoomLeft'
  BY <1>1, Answered
<1>5. crossed' = (crossed \/ Out \ {slot} # {})
  BY <1>1 DEF Out
<1>6. PageTypes'
  BY <1>1, <1>3, <1>4, <1>5 DEF PageInv, PageTypes
<1>7. RunningTells'
  BY <1>3, <1>4, <1>5 DEF RunningTells
<1>8. SentForPage'
  BY <1>3, <1>4, <1>5 DEF PageInv, SentForPage
<1> QED BY <1>3, <1>4, <1>6, <1>7, <1>8 DEF PageInv

\* So does a launch that a poll brings.
LEMMA PollLaunchKeeps ==
    ASSUME PageInv, NEW input \in Inputs, NEW index \in Opds,
           NEW stage \in {"kpoints", "irreps", "opds", "modes"},
           PollLaunch(input, index, stage)
    PROVE  PageInv'
<1>1. /\ actions < MaxActions /\ actions' = actions + 1
      /\ RenderLaunch(input, index, stage)
      /\ crossed' = (crossed \/ AnalysisOut)
      /\ UNCHANGED awaiting
  BY DEF PollLaunch, Act
<1>2. /\ backend' \in Results /\ backend'.cif = cif' /\ cif' \in Texts
      /\ running' = FALSE /\ opd' \in Opds
      /\ recent' \in Seq(Entries) /\ Len(recent') <= MaxRecent
      /\ (\A i \in 1..Len(recent) : recent[i].cif = recent[i].result.cif)
         => \A i \in 1..Len(recent') : recent'[i].cif = recent'[i].result.cif
  <2>1. input \in Texts
    BY DEF Texts
  <2> QED BY <1>1, <2>1, Rendered
<1>3. Out' = Out /\ Occupied' = Occupied
  BY <1>1 DEF Out, Occupied
<1>4. crossed' = (crossed \/ Out # {})
  BY <1>1 DEF Out, AnalysisOut
<1>5. actions \in Nat /\ actions' \in 0..MaxActions
  BY <1>1, PageAssumption DEF PageInv, PageTypes
<1>6. PageTypes'
  BY <1>1, <1>2, <1>4, <1>5 DEF PageInv, PageTypes
<1>7. RoomLeft'
  <2>1. Occupied \in SUBSET Slots
    BY DEF Occupied
  <2>2. Cardinality(Occupied) \in Nat
    BY <2>1, SlotsCounted
  <2> QED BY <1>1, <1>3, <1>5, <2>2 DEF PageInv, RoomLeft
<1>8. RunningTells'
  BY <1>2, <1>3, <1>4 DEF RunningTells
<1>9. SentForPage'
  BY <1>2, <1>3, <1>4 DEF PageInv, SentForPage
<1> QED BY <1>2, <1>6, <1>7, <1>8, <1>9 DEF PageInv

-----------------------------------------------------------------------------
(* The buttons *)

\* Every button either sends one analysis or sends nothing.
LEMMA PressesKeep ==
    ASSUME PageInv,
           \/ PressDistortion
           \/ PressK
           \/ \E section \in {"distortion", "k", "irrep", "opd"} : ChangeChoice(section)
           \/ \E kind \in {"irrep", "opd"}, index \in Opds : PressIrrepOrOpd(kind, index)
           \/ \E i \in 1..Len(recent) : UseSavedInput(recent[i])
    PROVE  PageInv'
<1>0. /\ opd \in Opds /\ 1 \in Opds /\ cif \in Texts
      /\ Act => actions' = actions + 1 /\ actions' <= MaxActions
  BY PageAssumption DEF PageInv, PageTypes, Act
<1>1. CASE PressDistortion
  BY <1>0, <1>1, QuietKeeps DEF PressDistortion
<1>2. CASE PressK
  <2> DEFINE task == [kind |-> "k", cif |-> cif, opd |-> 1]
  <2>1. task \in Tasks /\ task.kind = "k" /\ task.cif = cif
    BY <1>0 DEF Tasks, Kinds
  <2> HIDE DEF task
  <2>2. CASE Refuses
    BY <1>0, <1>2, <2>2, QuietKeeps DEF PressK
  <2>3. CASE ~Refuses
    <3>1. /\ Act /\ ~running /\ Await(task) /\ running' = TRUE /\ opd' \in Opds
          /\ UNCHANGED <<cif, backend, recent, crossed>>
      BY <1>0, <1>2, <2>3 DEF PressK, Refuses, task
    <3> QED BY <2>1, <3>1, SentKeeps
  <2> QED BY <2>2, <2>3
<1>3. ASSUME NEW section \in {"distortion", "k", "irrep", "opd"}, ChangeChoice(section)
      PROVE  PageInv'
  BY <1>0, <1>3, QuietKeeps DEF ChangeChoice
<1>4. ASSUME NEW kind \in {"irrep", "opd"}, NEW index \in Opds, PressIrrepOrOpd(kind, index)
      PROVE  PageInv'
  <2> DEFINE task == [kind |-> kind, cif |-> cif, opd |-> index]
  <2>1. task \in Tasks /\ task.kind = kind /\ task.cif = cif
    BY <1>0 DEF Tasks, Kinds
  <2> HIDE DEF task
  <2>2. CASE running
    BY <1>0, <1>4, <2>2, QuietKeeps DEF PressIrrepOrOpd
  <2>3. CASE ~running
    <3>1. /\ Act /\ Await(task) /\ running' = TRUE /\ opd' \in Opds
          /\ UNCHANGED <<cif, backend, recent, crossed>>
      BY <1>4, <2>3 DEF PressIrrepOrOpd, task
    <3> QED BY <2>1, <2>3, <3>1, SentKeeps
  <2> QED BY <2>2, <2>3
<1>5. ASSUME NEW i \in 1..Len(recent), UseSavedInput(recent[i])
      PROVE  PageInv'
  <2> DEFINE task == [kind |-> "saved", cif |-> recent[i].cif, opd |-> recent[i].result.opd]
  <2>1. recent[i] \in Entries
    BY DEF PageInv, PageTypes
  <2>2. task \in Tasks /\ task.kind = "saved"
    BY <2>1 DEF Tasks, Kinds, Entries, Results
  <2> HIDE DEF task
  <2>3. /\ Act /\ ~running /\ Await(task) /\ running' = TRUE
        /\ UNCHANGED <<cif, opd, backend, recent, crossed>>
    BY <1>5 DEF UseSavedInput, task
  <2> QED BY <1>0, <2>2, <2>3, SentKeeps
<1> QED BY <1>1, <1>2, <1>3, <1>4, <1>5

\* Every step of the page keeps the invariant.
LEMMA PageStep == PageInv /\ [Next]_vars => PageInv'
<1> SUFFICES ASSUME PageInv, [Next]_vars PROVE PageInv'
  OBVIOUS
<1>1. CASE UNCHANGED vars
  BY <1>1 DEF vars, PageInv, PageTypes, RoomLeft, RunningTells, SentForPage, Occupied, Out
<1>2. CASE UserStep
  <2>1. ASSUME NEW input \in Inputs, ChooseFile(input) PROVE PageInv'
    BY <2>1, ChooseFileKeeps
  <2> QED BY <1>2, <2>1, PressesKeep DEF UserStep
<1>3. CASE ReplyStep
  BY <1>3, FileReadKeeps, AnalysisDoneKeeps, AnalysisFailedKeeps, SavedDoneKeeps DEF ReplyStep
<1>4. CASE PollSend \/ PollEmpty
  <2>1. /\ opd \in Opds /\ actions \in Nat /\ actions <= MaxActions
    BY PageAssumption DEF PageInv, PageTypes
  <2> QED BY <1>4, <2>1, QuietKeeps DEF PollSend, PollEmpty
<1>5. ASSUME NEW input \in Inputs, NEW index \in Opds,
             NEW stage \in {"kpoints", "irreps", "opds", "modes"},
             PollLaunch(input, index, stage)
      PROVE  PageInv'
  BY <1>5, PollLaunchKeeps
<1> QED BY <1>1, <1>2, <1>3, <1>4, <1>5 DEF Next, PollStep

-----------------------------------------------------------------------------
(* Theorems *)

\* The invariant holds in every reachable state of the page, whatever the
\* user, the server and the launches do.
THEOREM PageInvariant == Spec => []PageInv
<1> QED BY InitPageInv, PageStep, PTL DEF Spec

\* state.running is only set while an answer is awaited that will clear it,
\* and without a crossing one analysis is out at a time.
THEOREM RunningAlwaysAwaited == Spec => []RunningIsAwaited
<1>1. PageInv => RunningIsAwaited
  <2> SUFFICES ASSUME PageInv PROVE RunningIsAwaited
    OBVIOUS
  <2>1. running => AnalysisOut
    BY DEF PageInv, RunningTells, AnalysisOut, Out
  <2>2. ASSUME ~crossed PROVE Cardinality(Out) <= 1
    <3>1. Out = {} \/ \E slot : Out = {slot}
      BY <2>2 DEF PageInv, RunningTells
    <3>2. CASE Out = {}
      <4>1. Cardinality(Out) = 0
        BY <3>2, FS_EmptySet
      <4> QED BY <4>1
    <3>3. ASSUME NEW slot, Out = {slot} PROVE Cardinality(Out) <= 1
      <4>1. Cardinality(Out) = 1
        BY <3>3, FS_Singleton
      <4> QED BY <4>1
    <3> QED BY <3>1, <3>2, <3>3
  <2> QED BY <2>1, <2>2 DEF RunningIsAwaited, Out
<1> QED BY <1>1, PageInvariant, PTL

\* Without a crossing the result on the page is that of its input, and so is
\* the one of every recent input, of which there are at most MaxRecent.
THEOREM ResultAlwaysOfInput == Spec => []ResultOfInput
<1>1. PageInv => ResultOfInput
  BY DEF PageInv, SentForPage, ResultOfInput
<1> QED BY <1>1, PageInvariant, PTL
=============================================================================
