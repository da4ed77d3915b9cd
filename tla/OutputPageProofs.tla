-------------------------- MODULE OutputPageProofs --------------------------
(***************************************************************************)
(* Proofs about the output page.                                           *)
(*                                                                         *)
(* The first part is about the two windows (OutputWindows).  Once every    *)
(* message has arrived, they agree; while messages are under way, what     *)
(* they disagree about is on its way, and the invariant says where.        *)
(*                                                                         *)
(* The second part is about the viewer of the popup (Viewer).  What the    *)
(* user left a tab with is what is saved of it, or is still in the viewer; *)
(* and the panel shows what the viewer holds.                              *)
(*                                                                         *)
(* The third part is about its occupancies.  Amplitudes are feasible when  *)
(* at the child itself every atom has between nothing and all of it, and   *)
(* no shared position more than all; they are possible when that is so at  *)
(* every master amplitude.  The two are the same, because the parent is    *)
(* feasible and every amplitude between is between the two.  The range a   *)
(* slider is given keeps feasible amplitudes feasible, and every place     *)
(* amplitudes are saved in or read from holds feasible ones.               *)
(***************************************************************************)
EXTENDS OutputPage, Induction, SequenceTheorems

-----------------------------------------------------------------------------
(* Messages                                                                *)

\* A sequence has an element in the set; one that nothing of the other set
\* comes after.
Has(s, S) == \E i \in 1..Len(s) : s[i] \in S
EndsIn(s, S, T) == \E i \in 1..Len(s) : s[i] \in S /\ \A j \in (i + 1)..Len(s) : s[j] \notin T

Selectable == Results \cup {None}
TabState == [Results -> Nat]

HostMessage ==
    [type : {"ready"}]
        \cup [type : {"select"}, revision : Selectable]
        \cup [type : {"close"}, revision : Results]
        \cup [type : {"result-state"}, revision : Results, state : Nat]

PopupMessage ==
    [type : {"results"}, order : Seq(Results), state : TabState, active : Selectable]
        \cup [type : {"result"}, revision : Results, state : {0}]
        \cup [type : {"amplitudes"}, revision : Results, state : Nat]

\* The results a message to the popup can add to its tabs, with their states.
Carries(m) ==
    CASE m.type = "results" -> {m.order[i] : i \in 1..Len(m.order)}
      [] m.type = "result" -> {m.revision}
      [] OTHER -> {}
StateIn(m, r) == IF m.type = "results" THEN m.state[r] ELSE m.state

Readies == {m \in HostMessage : m.type = "ready"}
Closings(r) == {m \in HostMessage : m.type = "close" /\ m.revision = r}
Selections(r) == {m \in HostMessage : m.type = "select" /\ m.revision = r}
OtherSelections(r) == {m \in HostMessage : m.type = "select" /\ m.revision # r}
Saves(r, v) == {m \in HostMessage : m.type = "result-state" /\ m.revision = r /\ m.state = v}
OtherSaves(r, v) == {m \in HostMessage : m.type = "result-state" /\ m.revision = r /\ m.state # v}
Bringing(r) == {m \in PopupMessage : r \in Carries(m)}
Announcing == {m \in PopupMessage : m.type = "result"}
Outdated(r, v) == {m \in PopupMessage : r \in Carries(m) /\ StateIn(m, r) # v}

-----------------------------------------------------------------------------
(* The invariant                                                           *)

Distinct(s) == \A i, j \in 1..Len(s) : s[i] = s[j] => i = j

TabLists(R) ==
    {tabs \in [order : Seq(R), active : R \cup {None}] :
        Distinct(tabs.order) /\ tabs.active \in InTabs(tabs) \cup {None}}

WindowTypes ==
    /\ host \in TabLists(Results) /\ popup \in TabLists(Results)
    /\ kept \in TabState /\ shown \in TabState /\ newest \in TabState
    /\ phase \in {"closed", "loading", "open"}
    /\ displayed = popup.active
    /\ frames \subseteq Results
    /\ toPopup \in Seq(PopupMessage) /\ toHost \in Seq(HostMessage)
    /\ results \in 0..MaxResults
    /\ launched \subseteq Results
    /\ hurried \in BOOLEAN /\ clicks \in Nat
    /\ phase # "open" => popup = NoTabs

\* No window knows of a result before it is there, and only launches bring
\* amplitudes.
NothingAhead ==
    /\ InTabs(host) \subseteq 1..results
    /\ InTabs(popup) \subseteq 1..results
    /\ launched \subseteq 1..results
    /\ \A r \in Results : r > results => kept[r] = 0 /\ newest[r] = 0
    /\ \A i \in 1..Len(toHost) :
            toHost[i].type = "result-state" => toHost[i].revision <= results
    /\ \A i \in 1..Len(toPopup) :
            /\ Carries(toPopup[i]) \subseteq 1..results
            /\ toPopup[i].type = "amplitudes" => toPopup[i].revision \in launched

\* A single result is news to the popup when it arrives.
AnnouncedOnce ==
    \A i \in 1..Len(toPopup) :
        toPopup[i].type = "result" =>
            /\ toPopup[i].revision \notin InTabs(popup)
            /\ \A j \in 1..(i - 1) : toPopup[i].revision \notin Carries(toPopup[j])

\* A result the popup does not have is on its way, will be once the host
\* hears that the popup is ready, or is being closed.
MissingComes ==
    phase = "open" =>
        \A r \in InTabs(host) \ InTabs(popup) :
            \/ Has(toPopup, Bringing(r))
            \/ Has(toHost, Readies)
            \/ Has(toHost, Closings(r))

Gone(r) == r \notin InTabs(host) \/ Has(toHost, Closings(r))

\* The selection of the popup is the one the host will come to, unless there
\* is none, a result is announced that will be selected next, or it is closed.
SelectionComes ==
    phase = "open" =>
        LET r == popup.active IN
        \/ r = None
        \/ Has(toPopup, Announcing)
        \/ Gone(r)
        \/ host.active = r /\ ~Has(toHost, OtherSelections(r))
        \/ EndsIn(toHost, Selections(r), OtherSelections(r))

\* What the host keeps of a result, or will once it has heard of the last
\* save, is what the user did last.
SaveComes(r) ==
    \/ kept[r] = newest[r] /\ ~Has(toHost, OtherSaves(r, newest[r]))
    \/ EndsIn(toHost, Saves(r, newest[r]), OtherSaves(r, newest[r]))

\* A result in the popup is as the user left it, and the host will hear of
\* it; the host knows already of one that is not, and so do the messages that
\* bring it.
EditsCome ==
    ~hurried =>
        \A r \in Results \ launched :
            \/ Gone(r)
            \/ /\ SaveComes(r)
               /\ phase = "open" /\ r \in InTabs(popup) => shown[r] = newest[r]
               /\ phase = "open" /\ r \notin InTabs(popup) =>
                    /\ kept[r] = newest[r] /\ ~Has(toHost, OtherSaves(r, newest[r]))
                    /\ ~Has(toPopup, Outdated(r, newest[r]))

WindowInv ==
    /\ WindowTypes /\ NothingAhead /\ AnnouncedOnce
    /\ MissingComes /\ SelectionComes /\ EditsCome

-----------------------------------------------------------------------------
(* Lemmas about messages                                                   *)

\* A sequence appended to another, element by element.
LEMMA Appended ==
    ASSUME NEW M, NEW s \in Seq(M), NEW t \in Seq(M)
    PROVE  /\ s \o t \in Seq(M) /\ Len(s \o t) = Len(s) + Len(t)
           /\ \A i \in 1..Len(s) : (s \o t)[i] = s[i]
           /\ \A i \in 1..Len(t) : (s \o t)[Len(s) + i] = t[i]
  OBVIOUS

\* What a sequence has that another one was appended to.
LEMMA HasConcat ==
    ASSUME NEW M, NEW s \in Seq(M), NEW t \in Seq(M), NEW S
    PROVE  Has(s \o t, S) <=> Has(s, S) \/ Has(t, S)
<1>1. /\ s \o t \in Seq(M) /\ Len(s \o t) = Len(s) + Len(t)
      /\ \A i \in 1..Len(s) : (s \o t)[i] = s[i]
      /\ \A i \in 1..Len(t) : (s \o t)[Len(s) + i] = t[i]
  BY Appended
<1>2. Len(s) \in Nat /\ Len(t) \in Nat
  OBVIOUS
<1>3. ASSUME Has(s, S) PROVE Has(s \o t, S)
  <2>1. PICK i \in 1..Len(s) : s[i] \in S
    BY <1>3 DEF Has
  <2>2. i \in 1..Len(s \o t) /\ (s \o t)[i] \in S
    BY <1>1, <1>2, <2>1
  <2> QED BY <2>2 DEF Has
<1>4. ASSUME Has(t, S) PROVE Has(s \o t, S)
  <2>1. PICK i \in 1..Len(t) : t[i] \in S
    BY <1>4 DEF Has
  <2>2. Len(s) + i \in 1..Len(s \o t) /\ (s \o t)[Len(s) + i] \in S
    BY <1>1, <1>2, <2>1
  <2> QED BY <2>2 DEF Has
<1>5. ASSUME Has(s \o t, S) PROVE Has(s, S) \/ Has(t, S)
  <2>1. PICK i \in 1..Len(s \o t) : (s \o t)[i] \in S
    BY <1>5 DEF Has
  <2>2. CASE i <= Len(s)
    <3>1. i \in 1..Len(s) /\ s[i] \in S
      BY <1>1, <1>2, <2>1, <2>2
    <3> QED BY <3>1 DEF Has
  <2>3. CASE i > Len(s)
    <3>1. i - Len(s) \in 1..Len(t) /\ i = Len(s) + (i - Len(s))
      BY <1>1, <1>2, <2>1, <2>3
    <3>2. t[i - Len(s)] \in S
      BY <1>1, <2>1, <3>1
    <3> QED BY <3>1, <3>2 DEF Has
  <2> QED BY <1>1, <1>2, <2>1, <2>2, <2>3
<1> QED BY <1>3, <1>4, <1>5

\* What a sequence has is its head or in its tail.
LEMMA HasTail ==
    ASSUME NEW M, NEW s \in Seq(M), s # <<>>, NEW S
    PROVE  /\ Head(s) \in M /\ Tail(s) \in Seq(M)
           /\ Has(s, S) <=> Head(s) \in S \/ Has(Tail(s), S)
<1>1. /\ Len(s) \in Nat \ {0} /\ Head(s) = s[1] /\ Head(s) \in M
      /\ Tail(s) \in Seq(M) /\ Len(Tail(s)) = Len(s) - 1
      /\ \A i \in 1..(Len(s) - 1) : Tail(s)[i] = s[i + 1]
  OBVIOUS
<1>2. ASSUME Has(s, S), Head(s) \notin S PROVE Has(Tail(s), S)
  <2>1. PICK i \in 1..Len(s) : s[i] \in S
    BY <1>2 DEF Has
  <2>2. i - 1 \in 1..Len(Tail(s)) /\ Tail(s)[i - 1] = s[(i - 1) + 1] /\ (i - 1) + 1 = i
    BY <1>1, <1>2, <2>1
  <2> QED BY <2>1, <2>2 DEF Has
<1>3. ASSUME Has(Tail(s), S) PROVE Has(s, S)
  <2>1. PICK i \in 1..Len(Tail(s)) : Tail(s)[i] \in S
    BY <1>3 DEF Has
  <2>2. i + 1 \in 1..Len(s) /\ s[i + 1] \in S
    BY <1>1, <2>1
  <2> QED BY <2>2 DEF Has
<1>4. ASSUME Head(s) \in S PROVE Has(s, S)
  BY <1>1, <1>4 DEF Has
<1> QED BY <1>1, <1>2, <1>3, <1>4

\* The empty sequence has nothing, and one of one element has that.
LEMMA HasFew ==
    /\ \A S : ~Has(<<>>, S)
    /\ \A S, m : Has(<<m>>, S) <=> m \in S
<1>1. \A m : Len(<<m>>) = 1 /\ <<m>>[1] = m
  OBVIOUS
<1>2. \A m : 1..Len(<<m>>) = {1}
  BY <1>1
<1> QED BY <1>1, <1>2 DEF Has

\* What nothing of a set comes after is so still when nothing of it follows,
\* and what follows may itself be such.
LEMMA EndsConcat ==
    ASSUME NEW M, NEW s \in Seq(M), NEW t \in Seq(M), NEW S, NEW T
    PROVE  /\ EndsIn(s, S, T) /\ ~Has(t, T) => EndsIn(s \o t, S, T)
           /\ EndsIn(t, S, T) => EndsIn(s \o t, S, T)
<1>1. /\ s \o t \in Seq(M) /\ Len(s \o t) = Len(s) + Len(t)
      /\ \A i \in 1..Len(s) : (s \o t)[i] = s[i]
      /\ \A i \in 1..Len(t) : (s \o t)[Len(s) + i] = t[i]
  BY Appended
<1>2. Len(s) \in Nat /\ Len(t) \in Nat
  OBVIOUS
<1>3. ASSUME EndsIn(s, S, T), ~Has(t, T) PROVE EndsIn(s \o t, S, T)
  <2>1. PICK i \in 1..Len(s) : s[i] \in S /\ \A j \in (i + 1)..Len(s) : s[j] \notin T
    BY <1>3 DEF EndsIn
  <2>2. ASSUME NEW j \in (i + 1)..Len(s \o t) PROVE (s \o t)[j] \notin T
    <3>1. CASE j <= Len(s)
      <4>1. j \in 1..Len(s) /\ j \in (i + 1)..Len(s)
        BY <1>1, <1>2, <2>1, <3>1
      <4> QED BY <1>1, <2>1, <4>1
    <3>2. CASE j > Len(s)
      <4>1. j - Len(s) \in 1..Len(t) /\ j = Len(s) + (j - Len(s))
        BY <1>1, <1>2, <3>2
      <4> QED BY <1>1, <1>3, <4>1 DEF Has
    <3> QED BY <1>1, <1>2, <3>1, <3>2
  <2>3. i \in 1..Len(s \o t) /\ (s \o t)[i] \in S
    BY <1>1, <1>2, <2>1
  <2> QED BY <2>2, <2>3 DEF EndsIn
<1>4. ASSUME EndsIn(t, S, T) PROVE EndsIn(s \o t, S, T)
  <2>1. PICK i \in 1..Len(t) : t[i] \in S /\ \A j \in (i + 1)..Len(t) : t[j] \notin T
    BY <1>4 DEF EndsIn
  <2>2. ASSUME NEW j \in (Len(s) + i + 1)..Len(s \o t) PROVE (s \o t)[j] \notin T
    <3>1. j - Len(s) \in 1..Len(t) /\ j - Len(s) \in (i + 1)..Len(t)
           /\ j = Len(s) + (j - Len(s))
      BY <1>1, <1>2, <2>1
    <3> QED BY <1>1, <2>1, <3>1
  <2>3. Len(s) + i \in 1..Len(s \o t) /\ (s \o t)[Len(s) + i] \in S
    BY <1>1, <1>2, <2>1
  <2> QED BY <2>2, <2>3 DEF EndsIn
<1> QED BY <1>3, <1>4

\* When the head is gone, the tail ends so, or has nothing of the set at all.
LEMMA EndsTail ==
    ASSUME NEW M, NEW s \in Seq(M), s # <<>>, NEW S, NEW T, EndsIn(s, S, T)
    PROVE  EndsIn(Tail(s), S, T) \/ (Head(s) \in S /\ ~Has(Tail(s), T))
<1>0. PICK u : u = Tail(s)
  OBVIOUS
<1>1. /\ Len(s) \in Nat \ {0} /\ Head(s) = s[1]
      /\ u \in Seq(M) /\ Len(u) = Len(s) - 1
      /\ \A i \in 1..(Len(s) - 1) : u[i] = s[i + 1]
  BY <1>0
<1>2. PICK i \in 1..Len(s) : s[i] \in S /\ \A j \in (i + 1)..Len(s) : s[j] \notin T
  BY DEF EndsIn
<1>3. ASSUME NEW j \in i..Len(u) PROVE u[j] \notin T
  <2>1. j \in 1..(Len(s) - 1) /\ j + 1 \in (i + 1)..Len(s)
    BY <1>1, <1>2
  <2> QED BY <1>1, <1>2, <2>1
<1>4. CASE i = 1
  BY <1>0, <1>1, <1>2, <1>3, <1>4 DEF Has
<1>5. CASE i > 1
  <2>1. i - 1 \in 1..Len(u) /\ u[i - 1] = s[(i - 1) + 1] /\ (i - 1) + 1 = i
    BY <1>1, <1>2, <1>5
  <2>2. \A j \in ((i - 1) + 1)..Len(u) : u[j] \notin T
    BY <1>3, <2>1
  <2>3. PICK k \in 1..Len(u) : k = i - 1
    BY <2>1
  <2>4. u[k] \in S /\ \A j \in (k + 1)..Len(u) : u[j] \notin T
    BY <1>2, <2>1, <2>2, <2>3
  <2>5. EndsIn(u, S, T)
    BY <2>4 DEF EndsIn
  <2> QED BY <1>0, <2>5
<1> QED BY <1>1, <1>2, <1>4, <1>5

\* A single element ends a sequence of one.
LEMMA EndsOne ==
    ASSUME NEW S, NEW T, NEW m \in S
    PROVE  EndsIn(<<m>>, S, T)
<1>1. Len(<<m>>) = 1 /\ <<m>>[1] = m
  OBVIOUS
<1>2. 1 \in 1..Len(<<m>>) /\ \A j \in (1 + 1)..Len(<<m>>) : FALSE
  BY <1>1
<1> QED BY <1>1, <1>2 DEF EndsIn

\* The messages to the host, read off their type, and that they are such.
LEMMA HostMessages ==
    /\ \A m \in HostMessage :
        /\ m.type \in {"ready", "select", "close", "result-state"}
        /\ m.type = "ready" => m = [type |-> "ready"]
        /\ m.type = "select" => m.revision \in Selectable
        /\ m.type = "close" => m.revision \in Results
        /\ m.type = "result-state" => m.revision \in Results /\ m.state \in Nat
    /\ [type |-> "ready"] \in HostMessage
    /\ \A r \in Selectable : [type |-> "select", revision |-> r] \in HostMessage
    /\ \A r \in Results : [type |-> "close", revision |-> r] \in HostMessage
    /\ \A r \in Results, v \in Nat :
            [type |-> "result-state", revision |-> r, state |-> v] \in HostMessage
<1>1. \A m \in [type : {"ready"}] : m.type = "ready" /\ m = [type |-> "ready"]
  OBVIOUS
<1>2. \A m \in [type : {"select"}, revision : Selectable] :
            m.type = "select" /\ m.revision \in Selectable
  OBVIOUS
<1>3. \A m \in [type : {"close"}, revision : Results] :
            m.type = "close" /\ m.revision \in Results
  OBVIOUS
<1>4. \A m \in [type : {"result-state"}, revision : Results, state : Nat] :
            m.type = "result-state" /\ m.revision \in Results /\ m.state \in Nat
  OBVIOUS
<1>5. \A m \in HostMessage :
        \/ m \in [type : {"ready"}]
        \/ m \in [type : {"select"}, revision : Selectable]
        \/ m \in [type : {"close"}, revision : Results]
        \/ m \in [type : {"result-state"}, revision : Results, state : Nat]
  BY DEF HostMessage
<1>6. [type |-> "ready"] \in HostMessage
  BY DEF HostMessage
<1>7. \A r \in Selectable : [type |-> "select", revision |-> r] \in HostMessage
  BY DEF HostMessage
<1>8. \A r \in Results : [type |-> "close", revision |-> r] \in HostMessage
  BY DEF HostMessage
<1>9. \A r \in Results, v \in Nat :
            [type |-> "result-state", revision |-> r, state |-> v] \in HostMessage
  BY DEF HostMessage
<1>10. ASSUME NEW m \in HostMessage
       PROVE  /\ m.type \in {"ready", "select", "close", "result-state"}
              /\ m.type = "ready" => m = [type |-> "ready"]
              /\ m.type = "select" => m.revision \in Selectable
              /\ m.type = "close" => m.revision \in Results
              /\ m.type = "result-state" => m.revision \in Results /\ m.state \in Nat
  BY <1>1, <1>2, <1>3, <1>4, <1>5
<1> QED BY <1>6, <1>7, <1>8, <1>9, <1>10

\* The messages to the popup.
LEMMA PopupMessages ==
    /\ \A m \in PopupMessage :
        /\ m.type \in {"results", "result", "amplitudes"}
        /\ m.type = "results" => /\ m.order \in Seq(Results) /\ m.state \in TabState
                                 /\ m.active \in Selectable
        /\ m.type = "result" => m.revision \in Results /\ m.state = 0
        /\ m.type = "amplitudes" => m.revision \in Results /\ m.state \in Nat
    /\ \A order \in Seq(Results), state \in TabState, active \in Selectable :
        [type |-> "results", order |-> order, state |-> state, active |-> active]
            \in PopupMessage
    /\ \A r \in Results : [type |-> "result", revision |-> r, state |-> 0] \in PopupMessage
    /\ \A r \in Results, v \in Nat :
            [type |-> "amplitudes", revision |-> r, state |-> v] \in PopupMessage
<1>1. \A m \in [type : {"results"}, order : Seq(Results), state : TabState,
                active : Selectable] :
            /\ m.type = "results" /\ m.order \in Seq(Results) /\ m.state \in TabState
            /\ m.active \in Selectable
  OBVIOUS
<1>2. \A m \in [type : {"result"}, revision : Results, state : {0}] :
            m.type = "result" /\ m.revision \in Results /\ m.state = 0
  OBVIOUS
<1>3. \A m \in [type : {"amplitudes"}, revision : Results, state : Nat] :
            m.type = "amplitudes" /\ m.revision \in Results /\ m.state \in Nat
  OBVIOUS
<1>4. \A m \in PopupMessage :
        \/ m \in [type : {"results"}, order : Seq(Results), state : TabState,
                  active : Selectable]
        \/ m \in [type : {"result"}, revision : Results, state : {0}]
        \/ m \in [type : {"amplitudes"}, revision : Results, state : Nat]
  BY DEF PopupMessage
<1>5. \A order \in Seq(Results), state \in TabState, active \in Selectable :
        [type |-> "results", order |-> order, state |-> state, active |-> active]
            \in PopupMessage
  BY DEF PopupMessage
<1>6. \A r \in Results : [type |-> "result", revision |-> r, state |-> 0] \in PopupMessage
  BY DEF PopupMessage
<1>7. \A r \in Results, v \in Nat :
            [type |-> "amplitudes", revision |-> r, state |-> v] \in PopupMessage
  BY DEF PopupMessage
<1>8. ASSUME NEW m \in PopupMessage
      PROVE  /\ m.type \in {"results", "result", "amplitudes"}
             /\ m.type = "results" => /\ m.order \in Seq(Results) /\ m.state \in TabState
                                      /\ m.active \in Selectable
             /\ m.type = "result" => m.revision \in Results /\ m.state = 0
             /\ m.type = "amplitudes" => m.revision \in Results /\ m.state \in Nat
  BY <1>1, <1>2, <1>3, <1>4
<1> QED BY <1>5, <1>6, <1>7, <1>8

-----------------------------------------------------------------------------
(* Lemmas about the tab list                                               *)

\* The list without one of its results.
LEMMA Removed ==
    ASSUME NEW R, NEW s \in Seq(R), Distinct(s), NEW k \in 1..Len(s)
    PROVE  /\ RemoveAt(s, k) \in Seq(R) /\ Distinct(RemoveAt(s, k))
           /\ {RemoveAt(s, k)[i] : i \in 1..Len(RemoveAt(s, k))}
                = {s[i] : i \in 1..Len(s)} \ {s[k]}
<1> DEFINE u == RemoveAt(s, k)
<1>1. Len(s) \in Nat /\ k \in Nat /\ \A i \in 1..Len(s) : s[i] \in R
  OBVIOUS
<1>2. /\ SubSeq(s, 1, k - 1) \in Seq(R) /\ Len(SubSeq(s, 1, k - 1)) = k - 1
      /\ \A i \in 1..(k - 1) : SubSeq(s, 1, k - 1)[i] = s[i]
  BY <1>1
<1>3. /\ SubSeq(s, k + 1, Len(s)) \in Seq(R)
      /\ Len(SubSeq(s, k + 1, Len(s))) = Len(s) - k
      /\ \A i \in 1..(Len(s) - k) : SubSeq(s, k + 1, Len(s))[i] = s[k + i]
  BY <1>1
<1>4. /\ u \in Seq(R) /\ Len(u) = Len(s) - 1
      /\ \A i \in 1..(k - 1) : u[i] = s[i]
      /\ \A i \in 1..(Len(s) - k) : u[(k - 1) + i] = s[k + i]
  <2> DEFINE p == SubSeq(s, 1, k - 1)
             q == SubSeq(s, k + 1, Len(s))
  <2>1. u = p \o q
    BY DEF RemoveAt
  <2>2. /\ p \in Seq(R) /\ q \in Seq(R) /\ Len(p) = k - 1 /\ Len(q) = Len(s) - k
        /\ \A i \in 1..Len(p) : p[i] = s[i]
        /\ \A i \in 1..Len(q) : q[i] = s[k + i]
    BY <1>2, <1>3
  <2> HIDE DEF p, q, u
  <2>3. /\ u \in Seq(R) /\ Len(u) = Len(p) + Len(q)
        /\ \A i \in 1..Len(p) : u[i] = p[i]
        /\ \A i \in 1..Len(q) : u[Len(p) + i] = q[i]
    <3>1. p \in Seq(R) /\ q \in Seq(R)
      BY <2>2
    <3> QED BY ONLY <2>1, <3>1, Appended
  <2> QED BY <1>1, <2>2, <2>3
<1> HIDE DEF u
<1>5. ASSUME NEW i \in 1..Len(u)
      PROVE  \E j \in 1..Len(s) : /\ j # k /\ u[i] = s[j]
                                  /\ i = IF j < k THEN j ELSE j - 1
  <2>1. CASE i < k
    <3>1. i \in 1..(k - 1) /\ i \in 1..Len(s) /\ i # k
      BY <1>1, <1>4, <2>1
    <3> QED BY <1>4, <2>1, <3>1
  <2>2. CASE i >= k
    <3>1. (i + 1) - k \in 1..(Len(s) - k) /\ (k - 1) + ((i + 1) - k) = i
          /\ k + ((i + 1) - k) = i + 1
      BY <1>1, <1>4, <2>2
    <3>2. u[i] = s[i + 1]
      BY <1>4, <3>1
    <3>3. i + 1 \in 1..Len(s) /\ i + 1 # k /\ ~(i + 1 < k) /\ i = (i + 1) - 1
      BY <1>1, <1>4, <2>2
    <3> QED BY <3>2, <3>3
  <2> QED BY <1>1, <1>4, <2>1, <2>2
<1>6. ASSUME NEW j \in 1..Len(s), j # k
      PROVE  \E i \in 1..Len(u) : u[i] = s[j]
  <2>1. CASE j < k
    <3>1. j \in 1..(k - 1) /\ j \in 1..Len(u)
      BY <1>1, <1>4, <2>1
    <3> QED BY <1>4, <3>1
  <2>2. CASE j > k
    <3>1. j - k \in 1..(Len(s) - k) /\ k + (j - k) = j /\ (k - 1) + (j - k) = j - 1
          /\ j - 1 \in 1..Len(u)
      BY <1>1, <1>4, <2>2
    <3> QED BY <1>4, <3>1
  <2> QED BY <1>1, <1>6, <2>1, <2>2
<1>7. Distinct(u)
  <2>1. SUFFICES ASSUME NEW a \in 1..Len(u), NEW b \in 1..Len(u), u[a] = u[b]
                 PROVE  a = b
    BY DEF Distinct
  <2>2. PICK c \in 1..Len(s) : c # k /\ u[a] = s[c] /\ a = IF c < k THEN c ELSE c - 1
    BY <1>5
  <2>3. PICK d \in 1..Len(s) : d # k /\ u[b] = s[d] /\ b = IF d < k THEN d ELSE d - 1
    BY <1>5
  <2>4. c = d
    BY <2>1, <2>2, <2>3 DEF Distinct
  <2> QED BY <2>2, <2>3, <2>4
<1>8. {u[i] : i \in 1..Len(u)} = {s[i] : i \in 1..Len(s)} \ {s[k]}
  <2>1. ASSUME NEW i \in 1..Len(u)
        PROVE  u[i] \in {s[j] : j \in 1..Len(s)} /\ u[i] # s[k]
    <3>1. PICK j \in 1..Len(s) : j # k /\ u[i] = s[j]
      BY <1>5
    <3> QED BY <3>1 DEF Distinct
  <2>2. ASSUME NEW j \in 1..Len(s), s[j] # s[k]
        PROVE  s[j] \in {u[i] : i \in 1..Len(u)}
    <3>1. j # k
      BY <2>2
    <3>2. PICK i \in 1..Len(u) : u[i] = s[j]
      BY <1>6, <3>1
    <3> QED BY <3>2
  <2> QED BY <2>1, <2>2
<1> QED BY <1>4, <1>7, <1>8 DEF u

\* The parts of a tab list.
LEMMA TabListParts ==
    ASSUME NEW R
    PROVE
    /\ \A tabs \in TabLists(R) :
        /\ tabs.order \in Seq(R) /\ Distinct(tabs.order)
        /\ tabs.active \in R \cup {None} /\ tabs.active \in InTabs(tabs) \cup {None}
        /\ InTabs(tabs) \subseteq R
        /\ tabs = [order |-> tabs.order, active |-> tabs.active]
    /\ \A order \in Seq(R) : \A active :
        Distinct(order) /\ active \in {order[i] : i \in 1..Len(order)} \cup {None} =>
            [order |-> order, active |-> active] \in TabLists(R)
<1>1. ASSUME NEW tabs \in TabLists(R)
      PROVE  /\ tabs.order \in Seq(R) /\ Distinct(tabs.order)
             /\ tabs.active \in R \cup {None} /\ tabs.active \in InTabs(tabs) \cup {None}
             /\ InTabs(tabs) \subseteq R
             /\ tabs = [order |-> tabs.order, active |-> tabs.active]
  <2>1. /\ tabs \in [order : Seq(R), active : R \cup {None}]
        /\ Distinct(tabs.order) /\ tabs.active \in InTabs(tabs) \cup {None}
    BY DEF TabLists
  <2>2. tabs.order \in Seq(R) /\ tabs.active \in R \cup {None}
        /\ tabs = [order |-> tabs.order, active |-> tabs.active]
    BY <2>1
  <2>3. InTabs(tabs) \subseteq R
    BY <2>2 DEF InTabs
  <2> QED BY <2>1, <2>2, <2>3
<1>2. ASSUME NEW order \in Seq(R), NEW active, Distinct(order),
             active \in {order[i] : i \in 1..Len(order)} \cup {None}
      PROVE  [order |-> order, active |-> active] \in TabLists(R)
  <2> DEFINE tabs == [order |-> order, active |-> active]
  <2>1. tabs.order = order /\ tabs.active = active
    OBVIOUS
  <2>2. \A i \in 1..Len(order) : order[i] \in R
    OBVIOUS
  <2>3. active \in R \cup {None}
    BY <1>2, <2>2
  <2>4. tabs \in [order : Seq(R), active : R \cup {None}]
    BY <2>3
  <2>5. InTabs(tabs) = {order[i] : i \in 1..Len(order)}
    BY <2>1 DEF InTabs
  <2> QED BY <1>2, <2>1, <2>4, <2>5 DEF TabLists
<1> QED BY <1>1, <1>2

\* An empty list.
LEMMA NoTabsFacts ==
    ASSUME NEW R
    PROVE  NoTabs \in TabLists(R) /\ InTabs(NoTabs) = {} /\ NoTabs.active = None
<1>1. NoTabs.order = <<>> /\ NoTabs.active = None
  BY DEF NoTabs
<1>2. InTabs(NoTabs) = {}
  BY <1>1 DEF InTabs
<1>3. NoTabs \in TabLists(R)
  <2>1. <<>> \in Seq(R) /\ Distinct(<<>>)
    BY DEF Distinct
  <2> QED BY <2>1, TabListParts DEF NoTabs
<1> QED BY <1>1, <1>2, <1>3

\* add()
LEMMA AddedTabs ==
    ASSUME NEW R, NEW tabs \in TabLists(R), NEW r \in R
    PROVE  /\ Add(tabs, r) \in TabLists(R)
           /\ InTabs(Add(tabs, r)) = InTabs(tabs) \cup {r}
           /\ tabs.active # None => Add(tabs, r).active = tabs.active
<1>1. CASE r \in InTabs(tabs)
  BY <1>1 DEF Add
<1>2. CASE r \notin InTabs(tabs)
  <2> DEFINE order == Append(tabs.order, r)
             active == IF tabs.active = None THEN r ELSE tabs.active
  <2>1. Add(tabs, r) = [order |-> order, active |-> active]
    BY <1>2 DEF Add
  <2>2. tabs.order \in Seq(R) /\ Distinct(tabs.order)
        /\ tabs.active \in InTabs(tabs) \cup {None}
    BY TabListParts
  <2>3. /\ order \in Seq(R) /\ Len(order) = Len(tabs.order) + 1 /\ Len(tabs.order) \in Nat
        /\ order[Len(tabs.order) + 1] = r
        /\ \A i \in 1..Len(tabs.order) : order[i] = tabs.order[i]
    BY <2>2
  <2> HIDE DEF order
  <2>4. {order[i] : i \in 1..Len(order)} = InTabs(tabs) \cup {r}
    <3>1. 1..Len(order) = 1..Len(tabs.order) \cup {Len(tabs.order) + 1}
      BY <2>3
    <3> QED BY <2>3, <3>1 DEF InTabs
  <2>5. Distinct(order)
    <3>1. SUFFICES ASSUME NEW i \in 1..Len(order), NEW j \in 1..Len(order), order[i] = order[j]
                   PROVE  i = j
      BY DEF Distinct
    <3>2. \A k \in 1..Len(tabs.order) : tabs.order[k] # r
      BY <1>2 DEF InTabs
    <3>3. CASE i \in 1..Len(tabs.order) /\ j \in 1..Len(tabs.order)
      BY <2>2, <2>3, <3>1, <3>3 DEF Distinct
    <3>4. CASE i = Len(tabs.order) + 1 \/ j = Len(tabs.order) + 1
      <4>1. (i \in 1..Len(tabs.order) \/ i = Len(tabs.order) + 1)
            /\ (j \in 1..Len(tabs.order) \/ j = Len(tabs.order) + 1)
        BY <2>3
      <4> QED BY <2>3, <3>1, <3>2, <3>4, <4>1
    <3> QED BY <2>3, <3>3, <3>4
  <2>6. active \in {order[i] : i \in 1..Len(order)} \cup {None}
    BY <2>2, <2>4
  <2> HIDE DEF active
  <2>7. Add(tabs, r) \in TabLists(R)
    BY <2>1, <2>3, <2>5, <2>6, TabListParts
  <2>8. Add(tabs, r).order = order /\ Add(tabs, r).active = active
    BY <2>1
  <2> QED BY <2>4, <2>7, <2>8 DEF InTabs, active
<1> QED BY <1>1, <1>2

\* select()
LEMMA SelectedTabs ==
    ASSUME NEW R, NEW tabs \in TabLists(R), NEW r
    PROVE  /\ SelectTab(tabs, r) \in TabLists(R)
           /\ InTabs(SelectTab(tabs, r)) = InTabs(tabs)
           /\ SelectTab(tabs, r).active = IF r \in InTabs(tabs) THEN r ELSE tabs.active
<1>1. CASE r \notin InTabs(tabs)
  BY <1>1 DEF SelectTab
<1>2. CASE r \in InTabs(tabs)
  <2>1. /\ tabs.order \in Seq(R) /\ Distinct(tabs.order)
        /\ tabs = [order |-> tabs.order, active |-> tabs.active]
    BY TabListParts
  <2>2. SelectTab(tabs, r) = [order |-> tabs.order, active |-> r]
    BY <1>2, <2>1 DEF SelectTab
  <2>3. SelectTab(tabs, r) \in TabLists(R)
    BY <1>2, <2>1, <2>2, TabListParts DEF InTabs
  <2>4. SelectTab(tabs, r).order = tabs.order /\ SelectTab(tabs, r).active = r
    BY <2>2
  <2> QED BY <1>2, <2>3, <2>4 DEF InTabs
<1> QED BY <1>1, <1>2

\* close()
LEMMA ClosedTabs ==
    ASSUME NEW R, NEW tabs \in TabLists(R), NEW r
    PROVE  /\ Close(tabs, r) \in TabLists(R)
           /\ InTabs(Close(tabs, r)) = InTabs(tabs) \ {r}
           /\ tabs.active # r => Close(tabs, r).active = tabs.active
<1>1. CASE r \notin InTabs(tabs)
  BY <1>1 DEF Close
<1>2. CASE r \in InTabs(tabs)
  <2> DEFINE s == tabs.order
             k == Place(s, r)
             u == RemoveAt(s, k)
             active == IF tabs.active = r THEN Neighbour(s, r) ELSE tabs.active
  <2>1. s \in Seq(R) /\ Distinct(s) /\ tabs.active \in InTabs(tabs) \cup {None}
    BY TabListParts
  <2>2. k \in 1..Len(s) /\ s[k] = r
    BY <1>2 DEF InTabs, Place
  <2>3. Close(tabs, r) = [order |-> u, active |-> active]
    BY <1>2 DEF Close
  <2>4. /\ u \in Seq(R) /\ Distinct(u)
        /\ {u[i] : i \in 1..Len(u)} = InTabs(tabs) \ {r}
    <3>1. InTabs(tabs) = {s[i] : i \in 1..Len(s)}
      BY DEF InTabs
    <3>2. /\ RemoveAt(s, k) \in Seq(R) /\ Distinct(RemoveAt(s, k))
          /\ {RemoveAt(s, k)[i] : i \in 1..Len(RemoveAt(s, k))}
                = {s[i] : i \in 1..Len(s)} \ {s[k]}
      <4> HIDE DEF s, k
      <4> QED BY <2>1, <2>2, Removed
    <3> QED BY <2>2, <3>1, <3>2
  <2>5. Neighbour(s, r) \in (InTabs(tabs) \ {r}) \cup {None}
    <3>1. Len(s) \in Nat
      BY <2>1
    <3>2. Neighbour(s, r) = CASE k < Len(s) -> s[k + 1]
                              [] k = Len(s) /\ k > 1 -> s[k - 1]
                              [] OTHER -> None
      BY DEF Neighbour
    <3> HIDE DEF k, s
    <3>3. CASE k < Len(s)
      <4>1. Neighbour(s, r) = s[k + 1]
        BY <3>2, <3>3
      <4>2. k + 1 \in 1..Len(s) /\ k + 1 # k
        BY <2>2, <3>1, <3>3
      <4>3. s[k + 1] # r
        BY <2>1, <2>2, <4>2 DEF Distinct
      <4> QED BY <4>1, <4>2, <4>3 DEF InTabs, s
    <3>4. CASE k = Len(s) /\ k > 1
      <4>1. Neighbour(s, r) = s[k - 1]
        <5>1. ~(k < Len(s))
          BY <2>2, <3>1, <3>4
        <5> QED BY <3>2, <3>4, <5>1
      <4>2. k - 1 \in 1..Len(s) /\ k - 1 # k
        BY <2>2, <3>1, <3>4
      <4>3. s[k - 1] # r
        BY <2>1, <2>2, <4>2 DEF Distinct
      <4> QED BY <4>1, <4>2, <4>3 DEF InTabs, s
    <3>5. CASE ~(k < Len(s)) /\ ~(k = Len(s) /\ k > 1)
      BY <3>2, <3>5
    <3> QED BY <3>3, <3>4, <3>5
  <2> HIDE DEF k, u
  <2>6. active \in {u[i] : i \in 1..Len(u)} \cup {None}
    BY <2>1, <2>4, <2>5
  <2>7. tabs.active # r => active = tabs.active
    OBVIOUS
  <2> HIDE DEF active
  <2>8. Close(tabs, r) \in TabLists(R)
    BY <2>3, <2>4, <2>6, TabListParts
  <2>9. Close(tabs, r).order = u /\ Close(tabs, r).active = active
    BY <2>3
  <2> QED BY <2>4, <2>7, <2>8, <2>9 DEF InTabs
<1> QED BY <1>1, <1>2

\* The lists of ReceiveResults, one result of a publication longer each.
AddsAll(w, tabs, order) ==
    w = [n \in 0..Len(order) |-> IF n = 0 THEN tabs ELSE Add(w[n - 1], order[n])]

\* There is such a sequence of lists: each step makes one longer by one.
LEMMA AddAllExists ==
    ASSUME NEW tabs, NEW order \in Seq(Results)
    PROVE  \E w : AddsAll(w, tabs, order)
<1> DEFINE Upto(k) == \E all : all = [n \in 0..k |->
                                IF n = 0 THEN tabs ELSE Add(all[n - 1], order[n])]
<1>1. Upto(0)
  <2>1. PICK all : all = [n \in 0..0 |-> tabs]
    OBVIOUS
  <2>2. all = [n \in 0..0 |-> IF n = 0 THEN tabs ELSE Add(all[n - 1], order[n])]
    BY <2>1
  <2> QED BY <2>2
<1>2. ASSUME NEW k \in Nat, Upto(k) PROVE Upto(k + 1)
  <2>1. PICK all : all = [n \in 0..k |-> IF n = 0 THEN tabs ELSE Add(all[n - 1], order[n])]
    BY <1>2
  <2>2. PICK more : more = [n \in 0..(k + 1) |-> IF n <= k THEN all[n]
                                                 ELSE Add(all[k], order[n])]
    OBVIOUS
  <2>3. ASSUME NEW n \in 0..(k + 1)
        PROVE  more[n] = IF n = 0 THEN tabs ELSE Add(more[n - 1], order[n])
    <3>1. CASE n = 0
      <4>1. n \in 0..k /\ n <= k
        BY <3>1
      <4>2. all[n] = tabs
        BY <2>1, <3>1, <4>1
      <4> QED BY <2>2, <3>1, <4>1, <4>2
    <3>2. CASE n # 0 /\ n <= k
      <4>1. n \in 0..k /\ n - 1 \in 0..(k + 1) /\ n - 1 <= k
        BY <3>2
      <4>2. all[n] = Add(all[n - 1], order[n])
        BY <2>1, <3>2, <4>1
      <4>3. more[n] = all[n] /\ more[n - 1] = all[n - 1]
        BY <2>2, <3>2, <4>1
      <4> QED BY <3>2, <4>2, <4>3
    <3>3. CASE n = k + 1
      <4>1. n # 0 /\ n - 1 = k /\ ~(n <= k) /\ k \in 0..(k + 1) /\ k <= k
        BY <3>3
      <4>2. more[n] = Add(all[k], order[n]) /\ more[k] = all[k]
        BY <2>2, <4>1
      <4> QED BY <4>1, <4>2
    <3>4. n = 0 \/ (n # 0 /\ n <= k) \/ n = k + 1
      OBVIOUS
    <3> QED BY <3>1, <3>2, <3>3, <3>4
  <2>4. more = [n \in 0..(k + 1) |-> IF n = 0 THEN tabs ELSE Add(more[n - 1], order[n])]
    <3>1. more = [n \in 0..(k + 1) |-> more[n]]
      BY <2>2
    <3> QED BY <2>3, <3>1
  <2> QED BY <2>4
<1>3. PICK S : S = {k \in Nat : Upto(k)}
  OBVIOUS
<1> HIDE DEF Upto
<1>4. Nat \subseteq S
  <2>1. 0 \in S
    BY <1>1, <1>3
  <2>2. \A k \in Nat : k \in S => k + 1 \in S
    BY <1>2, <1>3
  <2> QED BY <2>1, <2>2, NatInSet
<1>5. Upto(Len(order))
  BY <1>3, <1>4
<1> QED BY <1>5 DEF Upto, AddsAll

\* The results of a publication, added one after the other.
LEMMA AddedAll ==
    ASSUME NEW tabs \in TabLists(Results), NEW order \in Seq(Results),
           NEW all, all = CHOOSE w : w = [n \in 0..Len(order) |->
                                IF n = 0 THEN tabs ELSE Add(w[n - 1], order[n])]
    PROVE  /\ all[Len(order)] \in TabLists(Results)
           /\ InTabs(all[Len(order)]) = InTabs(tabs) \cup {order[i] : i \in 1..Len(order)}
           /\ tabs.active # None => all[Len(order)].active = tabs.active
<1> DEFINE Good(n) ==
        /\ all[n] \in TabLists(Results)
        /\ InTabs(all[n]) = InTabs(tabs) \cup {order[i] : i \in 1..n}
        /\ tabs.active # None => all[n].active = tabs.active
           S == {n \in Nat : n <= Len(order) => Good(n)}
<1> HIDE DEF Good
<1>1. Len(order) \in Nat /\ \A i \in 1..Len(order) : order[i] \in Results
  OBVIOUS
<1>2. all[0] = tabs /\ \A n \in 1..Len(order) : all[n] = Add(all[n - 1], order[n])
  <2>1. \E w : AddsAll(w, tabs, order)
    BY AddAllExists
  <2>2. all = [n \in 0..Len(order) |-> IF n = 0 THEN tabs ELSE Add(all[n - 1], order[n])]
    BY <2>1, Zenon DEF AddsAll
  <2>3. 0 \in 0..Len(order) /\ \A n \in 1..Len(order) : n \in 0..Len(order) /\ n # 0
    BY <1>1
  <2>4. all[0] = tabs
    BY ONLY <2>2, <2>3
  <2>5. ASSUME NEW n \in 1..Len(order) PROVE all[n] = Add(all[n - 1], order[n])
    BY ONLY <2>2, <2>3, n \in 1..Len(order)
  <2> QED BY <2>4, <2>5
<1>3. 0 \in S
  <2>1. {order[i] : i \in 1..0} = {}
    OBVIOUS
  <2>2. Good(0)
    BY <1>2, <2>1 DEF Good
  <2> QED BY <2>2
<1>4. ASSUME NEW n \in Nat, n \in S PROVE n + 1 \in S
  <2>1. SUFFICES ASSUME n + 1 <= Len(order) PROVE Good(n + 1)
    OBVIOUS
  <2>2. n <= Len(order) /\ n + 1 \in 1..Len(order) /\ (n + 1) - 1 = n
    BY <1>1, <2>1
  <2>3. Good(n)
    BY <1>4, <2>2
  <2>4. all[n + 1] = Add(all[n], order[n + 1]) /\ order[n + 1] \in Results
    BY <1>1, <1>2, <2>2
  <2>5. {order[i] : i \in 1..(n + 1)} = {order[i] : i \in 1..n} \cup {order[n + 1]}
    <3>1. 1..(n + 1) = 1..n \cup {n + 1}
      OBVIOUS
    <3> QED BY <3>1
  <2>6. all[n] \in TabLists(Results)
    BY <2>3 DEF Good
  <2>7. /\ Add(all[n], order[n + 1]) \in TabLists(Results)
        /\ InTabs(Add(all[n], order[n + 1])) = InTabs(all[n]) \cup {order[n + 1]}
        /\ all[n].active # None => Add(all[n], order[n + 1]).active = all[n].active
    <3>1. \A t \in TabLists(Results), r \in Results :
            /\ Add(t, r) \in TabLists(Results)
            /\ InTabs(Add(t, r)) = InTabs(t) \cup {r}
            /\ t.active # None => Add(t, r).active = t.active
      BY ONLY AddedTabs
    <3> QED BY <2>4, <2>6, <3>1
  <2> QED BY <2>3, <2>4, <2>5, <2>7 DEF Good
<1>5. Nat \subseteq S
  <2> HIDE DEF S
  <2> QED BY <1>3, <1>4, NatInSet
<1>6. Good(Len(order))
  BY <1>1, <1>5
<1> QED BY <1>6 DEF Good

-----------------------------------------------------------------------------
(* Lemmas about what the popup sends                                       *)

\* saveActive() sends nothing but the state of the result, if it is there.
LEMMA SavedFacts ==
    ASSUME NEW tabs \in TabLists(Results), NEW state \in TabState, NEW r \in Selectable
    PROVE  /\ Saved(tabs, state, r) \in Seq(HostMessage)
           /\ ~Has(Saved(tabs, state, r), Readies)
           /\ \A q : /\ ~Has(Saved(tabs, state, r), Closings(q))
                     /\ ~Has(Saved(tabs, state, r), OtherSelections(q))
           /\ \A q, v : Has(Saved(tabs, state, r), OtherSaves(q, v)) =>
                            q = r /\ r \in InTabs(tabs) /\ state[r] # v
           /\ r \in InTabs(tabs) =>
                \A T : EndsIn(Saved(tabs, state, r), Saves(r, state[r]), T)
           /\ \A i \in 1..Len(Saved(tabs, state, r)) :
                /\ Saved(tabs, state, r)[i].type = "result-state"
                /\ Saved(tabs, state, r)[i].revision \in InTabs(tabs)
<1>1. CASE r \notin InTabs(tabs)
  <2>1. Saved(tabs, state, r) = <<>>
    BY <1>1 DEF Saved
  <2>2. 1..Len(<<>>) = {}
    OBVIOUS
  <2> QED BY <1>1, <2>1, <2>2, HasFew
<1>2. CASE r \in InTabs(tabs)
  <2> DEFINE m == [type |-> "result-state", revision |-> r, state |-> state[r]]
  <2>1. Saved(tabs, state, r) = <<m>>
    BY <1>2 DEF Saved
  <2>2. r \in Results
    BY <1>2, TabListParts
  <2>3. m \in HostMessage
    <3>1. state[r] \in Nat
      BY <2>2 DEF TabState
    <3> QED BY <2>2, <3>1, HostMessages
  <2>4. m.type = "result-state" /\ m.revision = r /\ m.state = state[r]
    OBVIOUS
  <2> HIDE DEF m
  <2>5. /\ m \notin Readies
        /\ \A q : m \notin Closings(q) /\ m \notin OtherSelections(q)
        /\ \A q, v : m \in OtherSaves(q, v) => q = r /\ state[r] # v
        /\ m \in Saves(r, state[r])
    BY <2>3, <2>4 DEF Readies, Closings, OtherSelections, OtherSaves, Saves
  <2>6. Len(<<m>>) = 1 /\ <<m>>[1] = m /\ <<m>> \in Seq(HostMessage)
    BY <2>3
  <2>7. \A i \in 1..Len(<<m>>) : <<m>>[i] = m
    BY <2>6
  <2>8. /\ ~Has(<<m>>, Readies)
        /\ \A q : ~Has(<<m>>, Closings(q)) /\ ~Has(<<m>>, OtherSelections(q))
        /\ \A q, v : Has(<<m>>, OtherSaves(q, v)) => q = r /\ state[r] # v
    BY <2>5, HasFew
  <2>9. \A T : EndsIn(<<m>>, Saves(r, state[r]), T)
    BY <2>5, EndsOne
  <2> QED BY <1>2, <2>1, <2>4, <2>6, <2>7, <2>8, <2>9
<1> QED BY <1>1, <1>2

\* A selection that moved is told last, and nothing else with it.
LEMMA SelectedFacts ==
    ASSUME NEW tabs \in TabLists(Results)
    PROVE  /\ Selected(tabs) \in Seq(HostMessage)
           /\ ~Has(Selected(tabs), Readies)
           /\ \A q : ~Has(Selected(tabs), Closings(q))
           /\ \A q, v : ~Has(Selected(tabs), OtherSaves(q, v))
           /\ ~Has(Selected(tabs), OtherSelections(tabs.active))
           /\ tabs.active # displayed =>
                \A T : EndsIn(Selected(tabs), Selections(tabs.active), T)
           /\ \A i \in 1..Len(Selected(tabs)) : Selected(tabs)[i].type = "select"
<1>1. CASE tabs.active = displayed
  <2>1. Selected(tabs) = <<>>
    BY <1>1 DEF Selected
  <2>2. 1..Len(<<>>) = {}
    OBVIOUS
  <2> QED BY <1>1, <2>1, <2>2, HasFew
<1>2. CASE tabs.active # displayed
  <2> DEFINE m == [type |-> "select", revision |-> tabs.active]
  <2>1. Selected(tabs) = <<m>>
    BY <1>2 DEF Selected
  <2>2. m \in HostMessage
    BY TabListParts, HostMessages DEF Selectable
  <2>3. m.type = "select" /\ m.revision = tabs.active
    OBVIOUS
  <2> HIDE DEF m
  <2>4. /\ m \notin Readies
        /\ \A q : m \notin Closings(q)
        /\ \A q, v : m \notin OtherSaves(q, v)
        /\ m \notin OtherSelections(tabs.active)
        /\ m \in Selections(tabs.active)
    BY <2>2, <2>3 DEF Readies, Closings, OtherSelections, OtherSaves, Selections
  <2>5. Len(<<m>>) = 1 /\ <<m>>[1] = m /\ <<m>> \in Seq(HostMessage)
    BY <2>2
  <2>6. \A i \in 1..Len(<<m>>) : <<m>>[i] = m
    BY <2>5
  <2>7. /\ ~Has(<<m>>, Readies)
        /\ \A q : ~Has(<<m>>, Closings(q))
        /\ \A q, v : ~Has(<<m>>, OtherSaves(q, v))
        /\ ~Has(<<m>>, OtherSelections(tabs.active))
    BY <2>4, HasFew
  <2>8. \A T : EndsIn(<<m>>, Selections(tabs.active), T)
    BY <2>4, EndsOne
  <2> QED BY <1>2, <2>1, <2>3, <2>5, <2>6, <2>7, <2>8
<1> QED BY <1>1, <1>2

\* The message that a tab was closed.
LEMMA CloseMessage ==
    ASSUME NEW r \in Results
    PROVE  LET m == [type |-> "close", revision |-> r] IN
           /\ m \in HostMessage /\ <<m>> \in Seq(HostMessage)
           /\ ~Has(<<m>>, Readies)
           /\ Has(<<m>>, Closings(r))
           /\ \A q : ~Has(<<m>>, OtherSelections(q))
           /\ \A q, v : ~Has(<<m>>, OtherSaves(q, v))
           /\ \A i \in 1..Len(<<m>>) : <<m>>[i].type = "close"
<1> DEFINE m == [type |-> "close", revision |-> r]
<1>1. m \in HostMessage
  BY HostMessages
<1>2. m.type = "close" /\ m.revision = r
  OBVIOUS
<1> HIDE DEF m
<1>3. /\ m \notin Readies /\ m \in Closings(r)
      /\ \A q : m \notin OtherSelections(q)
      /\ \A q, v : m \notin OtherSaves(q, v)
  BY <1>1, <1>2 DEF Readies, Closings, OtherSelections, OtherSaves
<1>4. Len(<<m>>) = 1 /\ <<m>>[1] = m /\ <<m>> \in Seq(HostMessage)
  BY <1>1
<1>5. \A i \in 1..Len(<<m>>) : <<m>>[i] = m
  BY <1>4
<1>6. /\ ~Has(<<m>>, Readies) /\ Has(<<m>>, Closings(r))
      /\ \A q : ~Has(<<m>>, OtherSelections(q))
      /\ \A q, v : ~Has(<<m>>, OtherSaves(q, v))
  BY <1>3, HasFew
<1> QED BY <1>1, <1>2, <1>4, <1>5, <1>6 DEF m

\* Elements of two sequences, one after the other.
LEMMA AllOfConcat ==
    ASSUME NEW M, NEW s \in Seq(M), NEW t \in Seq(M), NEW S,
           \A i \in 1..Len(s) : s[i] \in S, \A i \in 1..Len(t) : t[i] \in S
    PROVE  \A i \in 1..Len(s \o t) : (s \o t)[i] \in S
<1> SUFFICES ASSUME NEW i \in 1..Len(s \o t) PROVE (s \o t)[i] \in S
  OBVIOUS
<1>1. Len(s) \in Nat /\ Len(t) \in Nat /\ Len(s \o t) = Len(s) + Len(t)
  BY Appended
<1>2. CASE i <= Len(s)
  <2>1. i \in 1..Len(s)
    BY <1>1, <1>2
  <2> QED BY <2>1, Appended
<1>3. CASE i > Len(s)
  <2>1. i - Len(s) \in 1..Len(t) /\ i = Len(s) + (i - Len(s))
    BY <1>1, <1>3
  <2>2. (s \o t)[Len(s) + (i - Len(s))] = t[i - Len(s)]
    BY <2>1, Appended
  <2> QED BY <2>1, <2>2
<1> QED BY <1>1, <1>2, <1>3

\* The parts of the invariant that are about the messages to the popup stay
\* true when it takes one and has no more tabs than that one brings.
LEMMA MessageTaken ==
    ASSUME WindowInv, toPopup # <<>>, toPopup' = Tail(toPopup),
           results' = results, launched' = launched,
           InTabs(popup') \subseteq InTabs(popup) \cup Carries(Head(toPopup))
    PROVE  /\ Head(toPopup) \in PopupMessage
           /\ toPopup' \in Seq(PopupMessage)
           /\ InTabs(popup') \subseteq 1..results
           /\ \A i \in 1..Len(toPopup') :
                /\ Carries(toPopup'[i]) \subseteq 1..results
                /\ toPopup'[i].type = "amplitudes" => toPopup'[i].revision \in launched
           /\ Head(toPopup).type = "amplitudes" => Head(toPopup).revision \in launched
           /\ Head(toPopup).type = "result" => Head(toPopup).revision \notin InTabs(popup)
           /\ AnnouncedOnce'
<1>1. toPopup \in Seq(PopupMessage) /\ NothingAhead /\ AnnouncedOnce
  BY DEF WindowInv, WindowTypes
<1>2. /\ Len(toPopup) \in Nat \ {0} /\ Head(toPopup) = toPopup[1]
      /\ toPopup[1] \in PopupMessage
      /\ toPopup' \in Seq(PopupMessage) /\ Len(toPopup') = Len(toPopup) - 1
      /\ \A i \in 1..(Len(toPopup) - 1) : toPopup'[i] = toPopup[i + 1]
  BY <1>1
<1>3. 1 \in 1..Len(toPopup) /\ 1..(1 - 1) = {}
  BY <1>2
<1>4. /\ Carries(Head(toPopup)) \subseteq 1..results
      /\ Head(toPopup).type = "amplitudes" => Head(toPopup).revision \in launched
      /\ Head(toPopup).type = "result" => Head(toPopup).revision \notin InTabs(popup)
  BY <1>1, <1>2, <1>3 DEF NothingAhead, AnnouncedOnce
<1>5. InTabs(popup') \subseteq 1..results
  BY <1>1, <1>4 DEF NothingAhead
<1>6. ASSUME NEW i \in 1..Len(toPopup')
      PROVE  /\ Carries(toPopup'[i]) \subseteq 1..results
             /\ toPopup'[i].type = "amplitudes" => toPopup'[i].revision \in launched
  <2>1. i + 1 \in 1..Len(toPopup) /\ toPopup'[i] = toPopup[i + 1]
    BY <1>2
  <2> QED BY <1>1, <2>1 DEF NothingAhead
<1>7. AnnouncedOnce'
  <2>1. SUFFICES ASSUME NEW i \in 1..Len(toPopup'), toPopup'[i].type = "result"
                 PROVE  /\ toPopup'[i].revision \notin InTabs(popup')
                        /\ \A j \in 1..(i - 1) :
                                toPopup'[i].revision \notin Carries(toPopup'[j])
    BY DEF AnnouncedOnce
  <2>2. i + 1 \in 1..Len(toPopup) /\ toPopup'[i] = toPopup[i + 1]
    BY <1>2
  <2>3. /\ toPopup'[i].revision \notin InTabs(popup)
        /\ \A j \in 1..((i + 1) - 1) : toPopup'[i].revision \notin Carries(toPopup[j])
    BY <1>1, <2>1, <2>2 DEF AnnouncedOnce
  <2>4. 1 \in 1..((i + 1) - 1)
    BY <1>2
  <2>5. toPopup'[i].revision \notin InTabs(popup')
    BY <1>2, <2>3, <2>4
  <2>6. ASSUME NEW j \in 1..(i - 1)
        PROVE  toPopup'[i].revision \notin Carries(toPopup'[j])
    <3>1. j \in 1..(Len(toPopup) - 1) /\ j + 1 \in 1..((i + 1) - 1)
      BY <1>2
    <3> QED BY <1>2, <2>3, <3>1
  <2> QED BY <2>5, <2>6
<1> QED BY <1>2, <1>4, <1>5, <1>6, <1>7

-----------------------------------------------------------------------------
(* A step of the popup                                                     *)

\* A listening popup that sends some messages keeps the invariant if these
\* say what has changed: a tab that is gone is closed, a selection that moved
\* is told last, a state that was changed is saved last.
LEMMA PopupTells ==
    ASSUME WindowInv, phase = "open",
           UNCHANGED <<host, kept, phase, results, launched, hurried>>,
           NEW ms \in Seq(HostMessage), toHost' = toHost \o ms,
           popup' \in TabLists(Results) /\ shown' \in TabState /\ newest' \in TabState,
           displayed' = popup'.active, frames' \subseteq Results, clicks' \in Nat,
           toPopup' \in Seq(PopupMessage),
           InTabs(popup') \subseteq 1..results,
           \A r \in Results : r > results => newest'[r] = 0,
           \A i \in 1..Len(ms) : ms[i].type = "result-state" => ms[i].revision <= results,
           \A i \in 1..Len(toPopup') :
                /\ Carries(toPopup'[i]) \subseteq 1..results
                /\ toPopup'[i].type = "amplitudes" => toPopup'[i].revision \in launched,
           AnnouncedOnce',
           \A r \in Results : r \in InTabs(popup) \/ Has(toPopup, Bringing(r)) =>
                \/ r \in InTabs(popup')
                \/ Has(toPopup', Bringing(r))
                \/ Has(ms, Closings(r)),
           \/ EndsIn(ms, Selections(popup'.active), OtherSelections(popup'.active))
           \/ /\ popup'.active = popup.active
              /\ ~Has(ms, OtherSelections(popup.active))
              /\ Has(toPopup, Announcing) => Has(toPopup', Announcing),
           \A r \in Results \ launched :
                \/ Has(ms, Closings(r))
                \/ /\ newest'[r] = newest[r]
                   /\ r \in InTabs(popup) /\ shown[r] = newest[r] =>
                        /\ ~Has(ms, OtherSaves(r, newest[r]))
                        /\ r \in InTabs(popup') /\ shown'[r] = newest[r]
                   /\ r \notin InTabs(popup) /\ ~Has(toPopup, Outdated(r, newest[r])) =>
                        /\ ~Has(ms, OtherSaves(r, newest[r]))
                        /\ ~Has(toPopup', Outdated(r, newest[r]))
                        /\ r \in InTabs(popup') => shown'[r] = newest[r]
                \/ /\ EndsIn(ms, Saves(r, newest'[r]), OtherSaves(r, newest'[r]))
                   /\ r \in InTabs(popup') /\ shown'[r] = newest'[r]
    PROVE  WindowInv'
<1>1. WindowTypes /\ NothingAhead /\ MissingComes /\ SelectionComes /\ EditsCome
  BY DEF WindowInv
<1>2. toHost \in Seq(HostMessage) /\ toHost' \in Seq(HostMessage)
  BY <1>1 DEF WindowTypes
<1>3. \A S : Has(toHost', S) <=> Has(toHost, S) \/ Has(ms, S)
  BY <1>2, HasConcat
<1>4. \A S, T : /\ EndsIn(toHost, S, T) /\ ~Has(ms, T) => EndsIn(toHost', S, T)
                /\ EndsIn(ms, S, T) => EndsIn(toHost', S, T)
  BY <1>2, EndsConcat
<1>5. WindowTypes'
  BY <1>1, <1>2 DEF WindowTypes
<1>6. NothingAhead'
  <2>1. \A i \in 1..Len(toHost') :
            toHost'[i].type = "result-state" => toHost'[i].revision <= results
    <3> DEFINE S == {m \in HostMessage : m.type = "result-state" => m.revision <= results}
    <3>1. \A i \in 1..Len(toHost) : toHost[i] \in HostMessage
      BY <1>2
    <3>2. \A i \in 1..Len(ms) : ms[i] \in HostMessage
      OBVIOUS
    <3>3. \A i \in 1..Len(toHost) : toHost[i] \in S
      BY <1>1, <3>1 DEF NothingAhead
    <3>4. \A i \in 1..Len(ms) : ms[i] \in S
      BY <3>2
    <3>5. \A i \in 1..Len(toHost') : toHost'[i] \in S
      <4> HIDE DEF S
      <4> QED BY <1>2, <3>3, <3>4, AllOfConcat
    <3> QED BY <3>5
  <2>2. /\ InTabs(host') \subseteq 1..results' /\ launched' \subseteq 1..results'
        /\ \A r \in Results : r > results' => kept'[r] = 0
    BY <1>1 DEF NothingAhead
  <2> QED BY <2>1, <2>2 DEF NothingAhead
<1>7. MissingComes'
  <2>1. SUFFICES ASSUME NEW r \in InTabs(host) \ InTabs(popup')
                 PROVE  \/ Has(toPopup', Bringing(r))
                        \/ Has(toHost', Readies)
                        \/ Has(toHost', Closings(r))
    BY DEF MissingComes, Bringing, Readies, Closings
  <2>2. r \in Results
    BY <1>1, TabListParts DEF WindowTypes
  <2>3. \/ r \in InTabs(popup) \/ Has(toPopup, Bringing(r))
        \/ Has(toHost, Readies) \/ Has(toHost, Closings(r))
    BY <1>1 DEF MissingComes
  <2> QED BY <1>3, <2>1, <2>2, <2>3
<1>8. SelectionComes'
  <2> DEFINE r == popup'.active
  <2>1. SUFFICES \/ r = None
                 \/ Has(toPopup', Announcing)
                 \/ r \notin InTabs(host) \/ Has(toHost', Closings(r))
                 \/ host.active = r /\ ~Has(toHost', OtherSelections(r))
                 \/ EndsIn(toHost', Selections(r), OtherSelections(r))
    BY DEF SelectionComes, Gone, Announcing, Closings, Selections, OtherSelections
  <2>2. CASE EndsIn(ms, Selections(r), OtherSelections(r))
    BY <1>4, <2>2
  <2>3. CASE /\ r = popup.active
             /\ ~Has(ms, OtherSelections(popup.active))
             /\ Has(toPopup, Announcing) => Has(toPopup', Announcing)
    <3>1. \/ r = None
          \/ Has(toPopup, Announcing)
          \/ r \notin InTabs(host) \/ Has(toHost, Closings(r))
          \/ host.active = r /\ ~Has(toHost, OtherSelections(r))
          \/ EndsIn(toHost, Selections(r), OtherSelections(r))
      BY <1>1, <2>3 DEF SelectionComes, Gone
    <3> QED BY <1>3, <1>4, <2>3, <3>1
  <2> QED BY <2>2, <2>3
<1>9. EditsCome'
  <2>1. SUFFICES ASSUME ~hurried, NEW r \in Results \ launched,
                        r \in InTabs(host), ~Has(toHost', Closings(r))
                 PROVE  /\ SaveComes(r)'
                        /\ r \in InTabs(popup') => shown'[r] = newest'[r]
                        /\ r \notin InTabs(popup') =>
                              /\ kept[r] = newest'[r]
                              /\ ~Has(toHost', OtherSaves(r, newest'[r]))
                              /\ ~Has(toPopup', Outdated(r, newest'[r]))
    BY DEF EditsCome, Gone, Closings, OtherSaves, Outdated
  <2>2. ~Has(toHost, Closings(r)) /\ ~Has(ms, Closings(r))
    BY <1>3, <2>1
  <2>3. /\ SaveComes(r)
        /\ r \in InTabs(popup) => shown[r] = newest[r]
        /\ r \notin InTabs(popup) =>
                /\ kept[r] = newest[r] /\ ~Has(toHost, OtherSaves(r, newest[r]))
                /\ ~Has(toPopup, Outdated(r, newest[r]))
    BY <1>1, <2>1, <2>2 DEF EditsCome, Gone
  <2>4. CASE /\ newest'[r] = newest[r]
             /\ ~Has(ms, OtherSaves(r, newest[r]))
    <3>1. SaveComes(r)'
      <4>1. \/ kept[r] = newest[r] /\ ~Has(toHost, OtherSaves(r, newest[r]))
            \/ EndsIn(toHost, Saves(r, newest[r]), OtherSaves(r, newest[r]))
        BY <2>3 DEF SaveComes
      <4>2. \/ kept[r] = newest[r] /\ ~Has(toHost', OtherSaves(r, newest[r]))
            \/ EndsIn(toHost', Saves(r, newest[r]), OtherSaves(r, newest[r]))
        BY <1>3, <1>4, <2>4, <4>1
      <4> QED BY <2>4, <4>2 DEF SaveComes, Saves, OtherSaves
    <3>2. r \in InTabs(popup) => r \in InTabs(popup') /\ shown'[r] = newest[r]
      BY <2>1, <2>2, <2>3, <2>4
    <3> QED BY <1>3, <2>1, <2>2, <2>3, <2>4, <3>1, <3>2
  <2>5. CASE /\ EndsIn(ms, Saves(r, newest'[r]), OtherSaves(r, newest'[r]))
             /\ r \in InTabs(popup') /\ shown'[r] = newest'[r]
    <3>1. SaveComes(r)'
      BY <1>4, <2>5 DEF SaveComes, Saves, OtherSaves
    <3> QED BY <2>5, <3>1
  <2>6. \/ /\ newest'[r] = newest[r]
           /\ ~Has(ms, OtherSaves(r, newest[r]))
        \/ /\ EndsIn(ms, Saves(r, newest'[r]), OtherSaves(r, newest'[r]))
           /\ r \in InTabs(popup') /\ shown'[r] = newest'[r]
    BY <2>1, <2>2, <2>3
  <2> QED BY <2>4, <2>5, <2>6
<1> QED BY <1>5, <1>6, <1>7, <1>8, <1>9 DEF WindowInv

\* A step that goes through displayActive() with some messages before it.
LEMMA DisplayTells ==
    ASSUME WindowInv, NEW tabs \in TabLists(Results), NEW first \in Seq(HostMessage),
           Display(tabs, first)
    PROVE  /\ popup' \in TabLists(Results) /\ popup' = tabs /\ displayed' = popup'.active
           /\ frames' \subseteq Results
           /\ \E ms \in Seq(HostMessage) :
                /\ toHost' = toHost \o ms
                /\ \A q : Has(ms, Closings(q)) <=> Has(first, Closings(q))
                /\ \A q, v : Has(ms, OtherSaves(q, v)) <=> Has(first, OtherSaves(q, v))
                /\ \/ EndsIn(ms, Selections(tabs.active), OtherSelections(tabs.active))
                   \/ /\ tabs.active = popup.active
                      /\ Has(ms, OtherSelections(popup.active))
                            => Has(first, OtherSelections(popup.active))
                /\ \A S : (\A i \in 1..Len(first) : first[i] \in S)
                            /\ {m \in HostMessage : m.type = "select"} \subseteq S
                                => \A i \in 1..Len(ms) : ms[i] \in S
<1> DEFINE ms == first \o Selected(tabs)
<1>1. WindowTypes
  BY DEF WindowInv
<1>2. /\ popup' = tabs /\ displayed' = tabs.active
      /\ frames' = IF tabs.active \notin {None, displayed}
                   THEN frames \cup {tabs.active} ELSE frames
      /\ toHost' = toHost \o first \o Selected(tabs)
  BY DEF Display
<1>3. frames' \subseteq Results
  <2>1. tabs.active # None => tabs.active \in Results
    BY TabListParts DEF Selectable
  <2> QED BY <1>1, <1>2, <2>1 DEF WindowTypes
<1>4. Selected(tabs) \in Seq(HostMessage) /\ ms \in Seq(HostMessage)
  BY SelectedFacts
<1>5. toHost' = toHost \o ms
  <2>1. toHost \in Seq(HostMessage)
    BY <1>1 DEF WindowTypes
  <2> QED BY <1>2, <1>4, <2>1, ConcatAssociative
<1>6. \A S : Has(ms, S) <=> Has(first, S) \/ Has(Selected(tabs), S)
  BY <1>4, HasConcat
<1>7. \A S, T : EndsIn(Selected(tabs), S, T) => EndsIn(ms, S, T)
  BY <1>4, EndsConcat
<1>8. displayed = popup.active
  BY <1>1 DEF WindowTypes
<1>9. \A q : Has(ms, Closings(q)) <=> Has(first, Closings(q))
  BY <1>6, SelectedFacts
<1>10. \A q, v : Has(ms, OtherSaves(q, v)) <=> Has(first, OtherSaves(q, v))
  BY <1>6, SelectedFacts
<1>11. \/ EndsIn(ms, Selections(tabs.active), OtherSelections(tabs.active))
       \/ /\ tabs.active = popup.active
          /\ Has(ms, OtherSelections(popup.active)) => Has(first, OtherSelections(popup.active))
  BY <1>6, <1>7, <1>8, SelectedFacts
<1>12. ASSUME NEW S, \A i \in 1..Len(first) : first[i] \in S,
              {m \in HostMessage : m.type = "select"} \subseteq S
       PROVE  \A i \in 1..Len(ms) : ms[i] \in S
  <2>1. \A i \in 1..Len(Selected(tabs)) :
            Selected(tabs)[i] \in HostMessage /\ Selected(tabs)[i].type = "select"
    BY <1>4, SelectedFacts
  <2>2. \A i \in 1..Len(Selected(tabs)) : Selected(tabs)[i] \in S
    BY <1>12, <2>1
  <2> QED BY <1>4, <1>12, <2>2, AllOfConcat
<1> HIDE DEF ms
<1> QED BY <1>2, <1>3, <1>4, <1>5, <1>9, <1>10, <1>11, <1>12

\* States of tabs the popup has are states of results there are.
LEMMA SmallRevisions ==
    ASSUME NothingAhead, NEW first, NEW ms \in Seq(HostMessage),
           \A i \in 1..Len(first) :
                first[i].type = "result-state" => first[i].revision \in InTabs(popup),
           \A S : (\A i \in 1..Len(first) : first[i] \in S)
                        /\ {m \in HostMessage : m.type = "select"} \subseteq S
                    => \A i \in 1..Len(ms) : ms[i] \in S
    PROVE  \A i \in 1..Len(ms) : ms[i].type = "result-state" => ms[i].revision <= results
<1> DEFINE S == {first[i] : i \in 1..Len(first)} \cup {m \in HostMessage : m.type = "select"}
<1>1. \A i \in 1..Len(ms) : ms[i] \in S
  <2>1. \A i \in 1..Len(first) : first[i] \in S
    OBVIOUS
  <2>2. {m \in HostMessage : m.type = "select"} \subseteq S
    OBVIOUS
  <2> HIDE DEF S
  <2> QED BY <2>1, <2>2
<1>2. \A q \in InTabs(popup) : q <= results
  BY DEF NothingAhead
<1>3. ASSUME NEW m \in S, m.type = "result-state" PROVE m.revision <= results
  BY <1>2, <1>3
<1> HIDE DEF S
<1> QED BY <1>1, <1>3

\* Messages to the popup that stay as they are, in tabs that do.
LEMMA MessagesStay ==
    ASSUME WindowInv, toPopup' = toPopup, InTabs(popup') \subseteq InTabs(popup)
    PROVE  /\ toPopup' \in Seq(PopupMessage)
           /\ InTabs(popup') \subseteq 1..results
           /\ \A i \in 1..Len(toPopup') :
                /\ Carries(toPopup'[i]) \subseteq 1..results
                /\ toPopup'[i].type = "amplitudes" => toPopup'[i].revision \in launched
           /\ AnnouncedOnce'
<1>1. WindowTypes /\ NothingAhead /\ AnnouncedOnce
  BY DEF WindowInv
<1>2. AnnouncedOnce'
  BY <1>1 DEF AnnouncedOnce
<1> QED BY <1>1, <1>2 DEF WindowTypes, NothingAhead

\* A tab is clicked: the state of the one before is saved, and the host told.
LEMMA ActivateKeeps ==
    ASSUME WindowInv, NEW r \in Results, Activate(r)
    PROVE  WindowInv'
<1> DEFINE tabs == SelectTab(popup, r)
           first == Saved(popup, shown, displayed)
<1>1. WindowTypes /\ NothingAhead
  BY DEF WindowInv
<1>2. /\ phase = "open" /\ clicks' = clicks + 1 /\ r \in InTabs(popup) /\ r # popup.active
      /\ Display(tabs, first)
      /\ UNCHANGED <<host, kept, phase, shown, toPopup, results, launched, newest, hurried>>
  BY DEF Activate, Click
<1>3. /\ popup \in TabLists(Results) /\ shown \in TabState /\ displayed \in Selectable
      /\ displayed = popup.active
  BY <1>1, TabListParts DEF WindowTypes, Selectable
<1>4. tabs \in TabLists(Results) /\ InTabs(tabs) = InTabs(popup)
  BY <1>3, SelectedTabs
<1>5. /\ first \in Seq(HostMessage)
      /\ \A q : ~Has(first, Closings(q)) /\ ~Has(first, OtherSelections(q))
      /\ \A q, v : Has(first, OtherSaves(q, v)) => q \in InTabs(popup) /\ shown[q] # v
      /\ \A i \in 1..Len(first) :
            first[i].type = "result-state" /\ first[i].revision \in InTabs(popup)
  BY <1>3, SavedFacts
<1> HIDE DEF tabs, first
<1>6. /\ popup' \in TabLists(Results) /\ popup' = tabs /\ displayed' = popup'.active
      /\ frames' \subseteq Results
  BY <1>2, <1>4, <1>5, DisplayTells
<1>7. PICK ms \in Seq(HostMessage) :
        /\ toHost' = toHost \o ms
        /\ \A q : ~Has(ms, Closings(q))
        /\ \A q, v : Has(ms, OtherSaves(q, v)) => q \in InTabs(popup) /\ shown[q] # v
        /\ \/ EndsIn(ms, Selections(tabs.active), OtherSelections(tabs.active))
           \/ /\ tabs.active = popup.active
              /\ ~Has(ms, OtherSelections(popup.active))
        /\ \A i \in 1..Len(ms) : ms[i].type = "result-state" => ms[i].revision <= results
  <2>1. PICK ms \in Seq(HostMessage) :
            /\ toHost' = toHost \o ms
            /\ \A q : Has(ms, Closings(q)) <=> Has(first, Closings(q))
            /\ \A q, v : Has(ms, OtherSaves(q, v)) <=> Has(first, OtherSaves(q, v))
            /\ \/ EndsIn(ms, Selections(tabs.active), OtherSelections(tabs.active))
               \/ /\ tabs.active = popup.active
                  /\ Has(ms, OtherSelections(popup.active))
                        => Has(first, OtherSelections(popup.active))
            /\ \A S : (\A i \in 1..Len(first) : first[i] \in S)
                        /\ {m \in HostMessage : m.type = "select"} \subseteq S
                            => \A i \in 1..Len(ms) : ms[i] \in S
    BY <1>2, <1>4, <1>5, DisplayTells
  <2>2. \A i \in 1..Len(ms) : ms[i].type = "result-state" => ms[i].revision <= results
    BY <1>1, <1>5, <2>1, SmallRevisions
  <2> QED BY <1>5, <2>1, <2>2
<1>8. /\ toPopup' \in Seq(PopupMessage)
      /\ InTabs(popup') \subseteq 1..results
      /\ \A i \in 1..Len(toPopup') :
            /\ Carries(toPopup'[i]) \subseteq 1..results
            /\ toPopup'[i].type = "amplitudes" => toPopup'[i].revision \in launched
      /\ AnnouncedOnce'
  BY <1>2, <1>4, <1>6, MessagesStay
<1>9. shown' \in TabState /\ newest' \in TabState /\ clicks' \in Nat
  BY <1>1, <1>2 DEF WindowTypes
<1>10. \A q \in Results : q > results => newest'[q] = 0
  BY <1>1, <1>2 DEF NothingAhead
<1> QED BY <1>2, <1>4, <1>6, <1>7, <1>8, <1>9, <1>10, PopupTells

\* The cross of a tab is clicked: after the displayed state, the host is told.
LEMMA CloseTabKeeps ==
    ASSUME WindowInv, NEW r \in Results, CloseTab(r)
    PROVE  WindowInv'
<1> DEFINE tabs == Close(popup, r)
           saved == Saved(popup, shown, displayed)
           closed == <<[type |-> "close", revision |-> r]>>
           first == saved \o closed
<1>1. WindowTypes /\ NothingAhead
  BY DEF WindowInv
<1>2. /\ phase = "open" /\ clicks' = clicks + 1 /\ r \in InTabs(popup)
      /\ Display(tabs, first)
      /\ UNCHANGED <<host, kept, phase, shown, toPopup, results, launched, newest, hurried>>
  BY DEF CloseTab, Click
<1>3. /\ popup \in TabLists(Results) /\ shown \in TabState /\ displayed \in Selectable
      /\ displayed = popup.active
  BY <1>1, TabListParts DEF WindowTypes, Selectable
<1>4. tabs \in TabLists(Results) /\ InTabs(tabs) = InTabs(popup) \ {r}
  BY <1>3, ClosedTabs
<1>5. /\ first \in Seq(HostMessage)
      /\ Has(first, Closings(r))
      /\ \A q : ~Has(first, OtherSelections(q))
      /\ \A q, v : Has(first, OtherSaves(q, v)) => q \in InTabs(popup) /\ shown[q] # v
      /\ \A i \in 1..Len(first) :
            first[i].type = "result-state" => first[i].revision \in InTabs(popup)
  <2>1. /\ saved \in Seq(HostMessage)
        /\ \A q : ~Has(saved, OtherSelections(q))
        /\ \A q, v : Has(saved, OtherSaves(q, v)) => q \in InTabs(popup) /\ shown[q] # v
        /\ \A i \in 1..Len(saved) :
                saved[i].type = "result-state" /\ saved[i].revision \in InTabs(popup)
    BY <1>3, SavedFacts
  <2>2. /\ closed \in Seq(HostMessage) /\ Has(closed, Closings(r))
        /\ \A q : ~Has(closed, OtherSelections(q))
        /\ \A q, v : ~Has(closed, OtherSaves(q, v))
        /\ \A i \in 1..Len(closed) : closed[i].type = "close"
    BY CloseMessage
  <2> HIDE DEF saved, closed
  <2>3. first \in Seq(HostMessage) /\ \A S : Has(first, S) <=> Has(saved, S) \/ Has(closed, S)
    BY <2>1, <2>2, HasConcat
  <2>4. \A i \in 1..Len(first) :
            first[i].type = "result-state" => first[i].revision \in InTabs(popup)
    <3> DEFINE S == {m \in HostMessage : m.type = "result-state" => m.revision \in InTabs(popup)}
    <3>1. \A i \in 1..Len(saved) : saved[i] \in S
      BY <2>1
    <3>2. \A i \in 1..Len(closed) : closed[i] \in S
      BY <2>2
    <3>3. \A i \in 1..Len(first) : first[i] \in S
      <4> HIDE DEF S
      <4> QED BY <2>1, <2>2, <3>1, <3>2, AllOfConcat
    <3> QED BY <3>3
  <2> HIDE DEF first
  <2> QED BY <2>1, <2>2, <2>3, <2>4
<1> HIDE DEF tabs, first
<1>6. /\ popup' \in TabLists(Results) /\ popup' = tabs /\ displayed' = popup'.active
      /\ frames' \subseteq Results
  BY <1>2, <1>4, <1>5, DisplayTells
<1>7. PICK ms \in Seq(HostMessage) :
        /\ toHost' = toHost \o ms
        /\ \A q : Has(ms, Closings(q)) <=> Has(first, Closings(q))
        /\ \A q, v : Has(ms, OtherSaves(q, v)) => q \in InTabs(popup) /\ shown[q] # v
        /\ \/ EndsIn(ms, Selections(tabs.active), OtherSelections(tabs.active))
           \/ /\ tabs.active = popup.active
              /\ ~Has(ms, OtherSelections(popup.active))
        /\ \A i \in 1..Len(ms) : ms[i].type = "result-state" => ms[i].revision <= results
  <2>1. PICK ms \in Seq(HostMessage) :
            /\ toHost' = toHost \o ms
            /\ \A q : Has(ms, Closings(q)) <=> Has(first, Closings(q))
            /\ \A q, v : Has(ms, OtherSaves(q, v)) <=> Has(first, OtherSaves(q, v))
            /\ \/ EndsIn(ms, Selections(tabs.active), OtherSelections(tabs.active))
               \/ /\ tabs.active = popup.active
                  /\ Has(ms, OtherSelections(popup.active))
                        => Has(first, OtherSelections(popup.active))
            /\ \A S : (\A i \in 1..Len(first) : first[i] \in S)
                        /\ {m \in HostMessage : m.type = "select"} \subseteq S
                            => \A i \in 1..Len(ms) : ms[i] \in S
    BY <1>2, <1>4, <1>5, DisplayTells
  <2>2. \A i \in 1..Len(ms) : ms[i].type = "result-state" => ms[i].revision <= results
    BY <1>1, <1>5, <2>1, SmallRevisions
  <2> QED BY <1>5, <2>1, <2>2
<1>8. /\ toPopup' \in Seq(PopupMessage)
      /\ InTabs(popup') \subseteq 1..results
      /\ \A i \in 1..Len(toPopup') :
            /\ Carries(toPopup'[i]) \subseteq 1..results
            /\ toPopup'[i].type = "amplitudes" => toPopup'[i].revision \in launched
      /\ AnnouncedOnce'
  BY <1>2, <1>4, <1>6, MessagesStay
<1>9. shown' \in TabState /\ newest' \in TabState /\ clicks' \in Nat
  BY <1>1, <1>2 DEF WindowTypes
<1>10. \A q \in Results : q > results => newest'[q] = 0
  BY <1>1, <1>2 DEF NothingAhead
<1>11. Has(ms, Closings(r))
  BY <1>5, <1>7
<1>12. \A q \in Results : q # r => (q \in InTabs(popup') <=> q \in InTabs(popup))
  BY <1>4, <1>6
<1> QED BY <1>2, <1>6, <1>7, <1>8, <1>9, <1>10, <1>11, <1>12, PopupTells

\* A slider is moved: the new state of the displayed result is sent.
LEMMA EditKeeps ==
    ASSUME WindowInv, Edit
    PROVE  WindowInv'
<1> DEFINE ms == Saved(popup, shown', displayed)
<1>1. WindowTypes /\ NothingAhead
  BY DEF WindowInv
<1>2. /\ phase = "open" /\ clicks' = clicks + 1 /\ displayed # None
      /\ newest' = [newest EXCEPT ![displayed] = clicks + 1]
      /\ shown' = [shown EXCEPT ![displayed] = clicks + 1]
      /\ toHost' = toHost \o ms
      /\ UNCHANGED <<host, kept, phase, popup, displayed, frames, toPopup, results,
                     launched, hurried>>
  BY DEF Edit, Click
<1>3. /\ popup \in TabLists(Results) /\ displayed = popup.active /\ displayed \in InTabs(popup)
      /\ displayed \in Results /\ displayed \in Selectable
  <2>1. popup \in TabLists(Results) /\ displayed = popup.active
    BY <1>1 DEF WindowTypes
  <2> QED BY <1>2, <2>1, TabListParts DEF Selectable
<1>4. /\ shown' \in TabState /\ newest' \in TabState /\ clicks' \in Nat
      /\ \A q \in Results : q # displayed => newest'[q] = newest[q] /\ shown'[q] = shown[q]
      /\ newest'[displayed] = shown'[displayed]
  BY <1>1, <1>2, <1>3 DEF WindowTypes, TabState
<1>5. /\ ms \in Seq(HostMessage)
      /\ \A q : ~Has(ms, Closings(q)) /\ ~Has(ms, OtherSelections(q))
      /\ \A q, v : Has(ms, OtherSaves(q, v)) => q = displayed
      /\ \A T : EndsIn(ms, Saves(displayed, shown'[displayed]), T)
      /\ \A i \in 1..Len(ms) : ms[i].revision \in InTabs(popup)
  <2>1. PICK state \in TabState : state = shown'
    BY <1>4
  <2>2. /\ popup \in TabLists(Results) /\ displayed \in Selectable
        /\ displayed \in InTabs(popup)
    BY <1>3
  <2>3. PICK list : list = Saved(popup, state, displayed)
    OBVIOUS
  <2>4. /\ list \in Seq(HostMessage)
        /\ \A q : ~Has(list, Closings(q)) /\ ~Has(list, OtherSelections(q))
        /\ \A q, v : Has(list, OtherSaves(q, v)) => q = displayed
        /\ \A T : EndsIn(list, Saves(displayed, state[displayed]), T)
        /\ \A i \in 1..Len(list) : list[i].revision \in InTabs(popup)
    BY <2>2, <2>3, SavedFacts
  <2> QED BY <2>1, <2>3, <2>4
<1> HIDE DEF ms
<1>6. \A i \in 1..Len(ms) : ms[i].type = "result-state" => ms[i].revision <= results
  BY <1>1, <1>5 DEF NothingAhead
<1>7. /\ toPopup' \in Seq(PopupMessage)
      /\ InTabs(popup') \subseteq 1..results
      /\ \A i \in 1..Len(toPopup') :
            /\ Carries(toPopup'[i]) \subseteq 1..results
            /\ toPopup'[i].type = "amplitudes" => toPopup'[i].revision \in launched
      /\ AnnouncedOnce'
  BY <1>2, MessagesStay
<1>8. \A q \in Results : q > results => newest'[q] = 0
  <2>1. displayed \in 1..results /\ results \in Nat
    BY <1>1, <1>3, WindowsAssumption DEF NothingAhead, WindowTypes
  <2>2. \A q \in Results : q > results => q # displayed
    BY <2>1 DEF Results
  <2> QED BY <1>1, <1>4, <2>2 DEF NothingAhead
<1>9. frames' \subseteq Results
  BY <1>1, <1>2 DEF WindowTypes
<1>10. ASSUME NEW q \in Results \ launched
       PROVE  \/ /\ newest'[q] = newest[q]
                 /\ ~Has(ms, OtherSaves(q, newest[q]))
                 /\ shown'[q] = shown[q]
              \/ /\ EndsIn(ms, Saves(q, newest'[q]), OtherSaves(q, newest'[q]))
                 /\ q \in InTabs(popup') /\ shown'[q] = newest'[q]
  BY <1>2, <1>3, <1>4, <1>5
<1>11. popup' \in TabLists(Results) /\ displayed' = popup'.active /\ InTabs(popup') = InTabs(popup)
       /\ popup'.active = popup.active /\ toPopup' = toPopup
  BY <1>2, <1>3
<1> QED BY <1>2, <1>4, <1>5, <1>6, <1>7, <1>8, <1>9, <1>10, <1>11, PopupTells

\* A frame callback runs: a result that is still displayed is saved.
LEMMA FrameKeeps ==
    ASSUME WindowInv, NEW r \in Results, Frame(r)
    PROVE  WindowInv'
<1> DEFINE ms == IF displayed = r THEN Saved(popup, shown, r) ELSE <<>>
<1>1. WindowTypes /\ NothingAhead
  BY DEF WindowInv
<1>2. /\ phase = "open" /\ frames' = frames \ {r}
      /\ toHost' = toHost \o ms
      /\ UNCHANGED <<host, kept, phase, popup, shown, displayed, toPopup, results, launched,
                     newest, hurried, clicks>>
  BY DEF Frame
<1>3. /\ popup \in TabLists(Results) /\ shown \in TabState /\ r \in Selectable
      /\ popup' \in TabLists(Results) /\ displayed' = popup'.active /\ frames' \subseteq Results
      /\ shown' \in TabState /\ newest' \in TabState /\ clicks' \in Nat
  BY <1>1, <1>2 DEF WindowTypes, Selectable
<1>4. /\ ms \in Seq(HostMessage)
      /\ \A q : ~Has(ms, Closings(q)) /\ ~Has(ms, OtherSelections(q))
      /\ \A q, v : Has(ms, OtherSaves(q, v)) => q \in InTabs(popup) /\ shown[q] # v
      /\ \A i \in 1..Len(ms) : ms[i].revision \in InTabs(popup)
  <2>1. CASE displayed = r
    <3>1. ms = Saved(popup, shown, r)
      BY <2>1
    <3>2. popup \in TabLists(Results) /\ shown \in TabState /\ r \in Selectable
      BY <1>3
    <3> HIDE DEF ms
    <3> QED BY <3>1, <3>2, SavedFacts
  <2>2. CASE displayed # r
    <3>1. ms = <<>> /\ 1..Len(<<>>) = {} /\ <<>> \in Seq(HostMessage)
      BY <2>2
    <3> HIDE DEF ms
    <3> QED BY <3>1, HasFew
  <2> QED BY <2>1, <2>2
<1> HIDE DEF ms
<1>5. \A i \in 1..Len(ms) : ms[i].type = "result-state" => ms[i].revision <= results
  BY <1>1, <1>4 DEF NothingAhead
<1>6. /\ toPopup' \in Seq(PopupMessage)
      /\ InTabs(popup') \subseteq 1..results
      /\ \A i \in 1..Len(toPopup') :
            /\ Carries(toPopup'[i]) \subseteq 1..results
            /\ toPopup'[i].type = "amplitudes" => toPopup'[i].revision \in launched
      /\ AnnouncedOnce'
  BY <1>2, MessagesStay
<1>7. \A q \in Results : q > results => newest'[q] = 0
  BY <1>1, <1>2 DEF NothingAhead
<1> QED BY <1>2, <1>3, <1>4, <1>5, <1>6, <1>7, PopupTells

\* A result arrives that the popup did not have: it is selected, and the host
\* told, after the state of the one before.
LEMMA ReceiveResultKeeps ==
    ASSUME WindowInv, ReceiveResult
    PROVE  WindowInv'
<1>0. PICK m : m = Head(toPopup)
  OBVIOUS
<1>1. WindowTypes /\ NothingAhead /\ AnnouncedOnce /\ toPopup \in Seq(PopupMessage)
  BY DEF WindowInv, WindowTypes
<1> DEFINE tabs == SelectTab(Add(popup, m.revision), m.revision)
           first == Saved(popup, shown, displayed)
<1>2. /\ phase = "open" /\ toPopup # <<>> /\ m.type = "result"
      /\ m \in PopupMessage /\ m.revision \notin InTabs(popup)
      /\ Display(tabs, first)
      /\ shown' = [shown EXCEPT ![m.revision] = m.state]
      /\ toPopup' = Tail(toPopup)
      /\ UNCHANGED <<host, kept, phase, results, launched, newest, hurried, clicks>>
  <2>1. /\ phase = "open" /\ toPopup # <<>> /\ m.type = "result"
        /\ toPopup' = Tail(toPopup)
        /\ UNCHANGED <<host, kept, phase, results, launched, newest, hurried, clicks>>
    BY <1>0 DEF ReceiveResult
  <2>2. m = toPopup[1] /\ 1 \in 1..Len(toPopup) /\ m \in PopupMessage
    BY <1>0, <1>1, <2>1
  <2>3. m.revision \notin InTabs(popup)
    BY <1>1, <2>1, <2>2 DEF AnnouncedOnce
  <2>4. /\ Display(tabs, first)
        /\ shown' = [shown EXCEPT ![m.revision] = m.state]
    BY <1>0, <2>1, <2>3 DEF ReceiveResult
  <2> QED BY <2>1, <2>2, <2>3, <2>4
<1>3. m.revision \in Results /\ m.state = 0 /\ Carries(m) = {m.revision}
  BY <1>2, PopupMessages DEF Carries
<1>4. /\ popup \in TabLists(Results) /\ shown \in TabState /\ displayed \in Selectable
      /\ displayed = popup.active
  BY <1>1, TabListParts DEF WindowTypes, Selectable
<1>5. /\ shown' \in TabState /\ newest' \in TabState /\ clicks' \in Nat
      /\ shown'[m.revision] = 0
      /\ \A q \in Results : q # m.revision => shown'[q] = shown[q]
  BY <1>1, <1>2, <1>3 DEF WindowTypes, TabState
<1>6. /\ tabs \in TabLists(Results) /\ InTabs(tabs) = InTabs(popup) \cup {m.revision}
      /\ tabs.active = m.revision
  BY <1>3, <1>4, AddedTabs, SelectedTabs
<1>7. /\ first \in Seq(HostMessage)
      /\ \A q : ~Has(first, Closings(q)) /\ ~Has(first, OtherSelections(q))
      /\ \A q, v : Has(first, OtherSaves(q, v)) => q \in InTabs(popup) /\ shown[q] # v
      /\ \A i \in 1..Len(first) :
            first[i].type = "result-state" /\ first[i].revision \in InTabs(popup)
  BY <1>4, SavedFacts
<1> HIDE DEF tabs, first
<1>8. /\ popup' \in TabLists(Results) /\ popup' = tabs /\ displayed' = popup'.active
      /\ frames' \subseteq Results
  BY <1>2, <1>6, <1>7, DisplayTells
<1>9. PICK ms \in Seq(HostMessage) :
        /\ toHost' = toHost \o ms
        /\ \A q : ~Has(ms, Closings(q))
        /\ \A q, v : Has(ms, OtherSaves(q, v)) => q \in InTabs(popup) /\ shown[q] # v
        /\ \/ EndsIn(ms, Selections(tabs.active), OtherSelections(tabs.active))
           \/ /\ tabs.active = popup.active
              /\ ~Has(ms, OtherSelections(popup.active))
        /\ \A i \in 1..Len(ms) : ms[i].type = "result-state" => ms[i].revision <= results
  <2>1. PICK ms \in Seq(HostMessage) :
            /\ toHost' = toHost \o ms
            /\ \A q : Has(ms, Closings(q)) <=> Has(first, Closings(q))
            /\ \A q, v : Has(ms, OtherSaves(q, v)) <=> Has(first, OtherSaves(q, v))
            /\ \/ EndsIn(ms, Selections(tabs.active), OtherSelections(tabs.active))
               \/ /\ tabs.active = popup.active
                  /\ Has(ms, OtherSelections(popup.active))
                        => Has(first, OtherSelections(popup.active))
            /\ \A S : (\A i \in 1..Len(first) : first[i] \in S)
                        /\ {n \in HostMessage : n.type = "select"} \subseteq S
                            => \A i \in 1..Len(ms) : ms[i] \in S
    <3>1. Display(tabs, first) /\ tabs \in TabLists(Results) /\ first \in Seq(HostMessage)
      BY <1>2, <1>6, <1>7
    <3> QED BY <3>1, DisplayTells
  <2>2. \A i \in 1..Len(ms) : ms[i].type = "result-state" => ms[i].revision <= results
    BY <1>1, <1>7, <2>1, SmallRevisions
  <2> QED BY <1>7, <2>1, <2>2
<1>10. \A S : Has(toPopup, S) <=> m \in S \/ Has(toPopup', S)
  BY <1>0, <1>1, <1>2, HasTail
<1>11. /\ toPopup' \in Seq(PopupMessage)
       /\ InTabs(popup') \subseteq 1..results
       /\ \A i \in 1..Len(toPopup') :
             /\ Carries(toPopup'[i]) \subseteq 1..results
             /\ toPopup'[i].type = "amplitudes" => toPopup'[i].revision \in launched
       /\ AnnouncedOnce'
  BY <1>0, <1>2, <1>3, <1>6, <1>8, MessageTaken
<1>12. \A q \in Results : q > results => newest'[q] = 0
  BY <1>1, <1>2 DEF NothingAhead
<1>13. \A q \in Results : q \in InTabs(popup) \/ Has(toPopup, Bringing(q)) =>
            q \in InTabs(popup') \/ Has(toPopup', Bringing(q))
  <2>1. \A q : m \in Bringing(q) => q = m.revision
    BY <1>3 DEF Bringing
  <2> QED BY <1>6, <1>8, <1>10, <2>1
<1>14. EndsIn(ms, Selections(popup'.active), OtherSelections(popup'.active))
  <2>1. tabs.active # popup.active
    BY <1>2, <1>3, <1>4, <1>6, TabListParts DEF Results, None
  <2> QED BY <1>8, <1>9, <2>1
<1>15. \A q \in Results : m.revision = q /\ m \notin Outdated(q, newest[q]) => newest[q] = 0
  BY <1>2, <1>3 DEF Outdated, StateIn
<1>16. ASSUME NEW q \in Results
       PROVE  /\ newest'[q] = newest[q]
              /\ q \in InTabs(popup) /\ shown[q] = newest[q] =>
                    /\ ~Has(ms, OtherSaves(q, newest[q]))
                    /\ q \in InTabs(popup') /\ shown'[q] = newest[q]
              /\ q \notin InTabs(popup) /\ ~Has(toPopup, Outdated(q, newest[q])) =>
                    /\ ~Has(ms, OtherSaves(q, newest[q]))
                    /\ ~Has(toPopup', Outdated(q, newest[q]))
                    /\ q \in InTabs(popup') => shown'[q] = newest[q]
  BY <1>2, <1>5, <1>6, <1>8, <1>9, <1>10, <1>15
<1>17. ASSUME NEW q \in Results \ launched
       PROVE  \/ Has(ms, Closings(q))
              \/ /\ newest'[q] = newest[q]
                 /\ q \in InTabs(popup) /\ shown[q] = newest[q] =>
                        /\ ~Has(ms, OtherSaves(q, newest[q]))
                        /\ q \in InTabs(popup') /\ shown'[q] = newest[q]
                 /\ q \notin InTabs(popup) /\ ~Has(toPopup, Outdated(q, newest[q])) =>
                        /\ ~Has(ms, OtherSaves(q, newest[q]))
                        /\ ~Has(toPopup', Outdated(q, newest[q]))
                        /\ q \in InTabs(popup') => shown'[q] = newest[q]
              \/ /\ EndsIn(ms, Saves(q, newest'[q]), OtherSaves(q, newest'[q]))
                 /\ q \in InTabs(popup') /\ shown'[q] = newest'[q]
  BY <1>16
<1>18. \/ EndsIn(ms, Selections(popup'.active), OtherSelections(popup'.active))
       \/ /\ popup'.active = popup.active
          /\ ~Has(ms, OtherSelections(popup.active))
          /\ Has(toPopup, Announcing) => Has(toPopup', Announcing)
  BY <1>14
<1>19. \A q \in Results : q \in InTabs(popup) \/ Has(toPopup, Bringing(q)) =>
            \/ q \in InTabs(popup')
            \/ Has(toPopup', Bringing(q))
            \/ Has(ms, Closings(q))
  BY <1>13
<1>20. /\ phase = "open" /\ UNCHANGED <<host, kept, phase, results, launched, hurried>>
       /\ popup' \in TabLists(Results) /\ shown' \in TabState /\ newest' \in TabState
       /\ displayed' = popup'.active /\ frames' \subseteq Results /\ clicks' \in Nat
  BY <1>2, <1>5, <1>8
<1>21. /\ toHost' = toHost \o ms
       /\ \A i \in 1..Len(ms) : ms[i].type = "result-state" => ms[i].revision <= results
  BY <1>9
<1> QED BY <1>11, <1>12, <1>17, <1>18, <1>19, <1>20, <1>21, PopupTells

\* All results arrive: the popup adds those it does not have.
LEMMA ReceiveResultsKeeps ==
    ASSUME WindowInv, ReceiveResults
    PROVE  WindowInv'
<1>0. PICK m : m = Head(toPopup)
  OBVIOUS
<1>1. WindowTypes /\ NothingAhead /\ toPopup \in Seq(PopupMessage)
  BY DEF WindowInv, WindowTypes
<1> DEFINE all == CHOOSE w : w = [n \in 0..Len(m.order) |->
                        IF n = 0 THEN popup ELSE Add(w[n - 1], m.order[n])]
           added == all[Len(m.order)]
           tabs == IF popup.active = None THEN SelectTab(added, m.active) ELSE added
           first == <<>>
<1>2. /\ phase = "open" /\ toPopup # <<>> /\ m.type = "results"
      /\ Display(tabs, first)
      /\ shown' = [r \in Results |-> IF r \in InTabs(added) \ InTabs(popup) THEN m.state[r]
                                     ELSE shown[r]]
      /\ toPopup' = Tail(toPopup)
      /\ UNCHANGED <<host, kept, phase, results, launched, newest, hurried, clicks>>
  BY <1>0 DEF ReceiveResults
<1>3. /\ m \in PopupMessage /\ m.order \in Seq(Results) /\ m.state \in TabState
      /\ Carries(m) = {m.order[i] : i \in 1..Len(m.order)}
  <2>1. m \in PopupMessage
    BY <1>0, <1>1, <1>2
  <2> QED BY <1>2, <2>1, PopupMessages DEF Carries
<1>4. /\ popup \in TabLists(Results) /\ shown \in TabState
  BY <1>1 DEF WindowTypes
<1>5. added \in TabLists(Results) /\ InTabs(added) = InTabs(popup) \cup Carries(m)
  <2>1. all = CHOOSE w : w = [n \in 0..Len(m.order) |->
                        IF n = 0 THEN popup ELSE Add(w[n - 1], m.order[n])]
    OBVIOUS
  <2> HIDE DEF all
  <2> QED BY <1>3, <1>4, <2>1, AddedAll
<1> HIDE DEF added
<1>6. tabs \in TabLists(Results) /\ InTabs(tabs) = InTabs(popup) \cup Carries(m)
  BY <1>5, SelectedTabs
<1>7. /\ first \in Seq(HostMessage)
      /\ \A S : ~Has(first, S)
      /\ \A i \in 1..Len(first) :
            first[i].type = "result-state" /\ first[i].revision \in InTabs(popup)
  <2>1. 1..Len(<<>>) = {} /\ <<>> \in Seq(HostMessage)
    OBVIOUS
  <2> QED BY <2>1, HasFew
<1> HIDE DEF tabs, first
<1>8. /\ popup' \in TabLists(Results) /\ popup' = tabs /\ displayed' = popup'.active
      /\ frames' \subseteq Results
  BY <1>2, <1>6, <1>7, DisplayTells
<1>9. PICK ms \in Seq(HostMessage) :
        /\ toHost' = toHost \o ms
        /\ \A q : ~Has(ms, Closings(q))
        /\ \A q, v : Has(ms, OtherSaves(q, v)) => q \in InTabs(popup) /\ shown[q] # v
        /\ \/ EndsIn(ms, Selections(tabs.active), OtherSelections(tabs.active))
           \/ /\ tabs.active = popup.active
              /\ ~Has(ms, OtherSelections(popup.active))
        /\ \A i \in 1..Len(ms) : ms[i].type = "result-state" => ms[i].revision <= results
  <2>1. PICK ms \in Seq(HostMessage) :
            /\ toHost' = toHost \o ms
            /\ \A q : Has(ms, Closings(q)) <=> Has(first, Closings(q))
            /\ \A q, v : Has(ms, OtherSaves(q, v)) <=> Has(first, OtherSaves(q, v))
            /\ \/ EndsIn(ms, Selections(tabs.active), OtherSelections(tabs.active))
               \/ /\ tabs.active = popup.active
                  /\ Has(ms, OtherSelections(popup.active))
                        => Has(first, OtherSelections(popup.active))
            /\ \A S : (\A i \in 1..Len(first) : first[i] \in S)
                        /\ {n \in HostMessage : n.type = "select"} \subseteq S
                            => \A i \in 1..Len(ms) : ms[i] \in S
    <3>1. Display(tabs, first) /\ tabs \in TabLists(Results) /\ first \in Seq(HostMessage)
      BY <1>2, <1>6, <1>7
    <3> QED BY <3>1, DisplayTells
  <2>2. \A i \in 1..Len(ms) : ms[i].type = "result-state" => ms[i].revision <= results
    BY <1>1, <1>7, <2>1, SmallRevisions
  <2> QED BY <1>7, <2>1, <2>2
<1>10. \A S : Has(toPopup, S) <=> m \in S \/ Has(toPopup', S)
  BY <1>0, <1>1, <1>2, HasTail
<1>11. /\ toPopup' \in Seq(PopupMessage)
       /\ InTabs(popup') \subseteq 1..results
       /\ \A i \in 1..Len(toPopup') :
             /\ Carries(toPopup'[i]) \subseteq 1..results
             /\ toPopup'[i].type = "amplitudes" => toPopup'[i].revision \in launched
       /\ AnnouncedOnce'
  BY <1>0, <1>2, <1>6, <1>8, MessageTaken
<1>12. \A q \in Results : q > results => newest'[q] = 0
  BY <1>1, <1>2 DEF NothingAhead
<1>13. \A q \in Results : q \in InTabs(popup) \/ Has(toPopup, Bringing(q)) =>
            q \in InTabs(popup') \/ Has(toPopup', Bringing(q))
  <2>1. \A q : m \in Bringing(q) => q \in Carries(m)
    BY DEF Bringing
  <2> QED BY <1>6, <1>8, <1>10, <2>1
<1>14. Has(toPopup, Announcing) => Has(toPopup', Announcing)
  <2>1. m \notin Announcing
    BY <1>2 DEF Announcing
  <2> QED BY <1>10, <2>1
<1>15. /\ shown' \in TabState /\ newest' \in TabState /\ clicks' \in Nat
       /\ \A q \in Results : q \in InTabs(popup) => shown'[q] = shown[q]
       /\ \A q \in Results : q \in InTabs(popup') /\ q \notin InTabs(popup) =>
                q \in Carries(m) /\ shown'[q] = m.state[q]
  <2>1. \A q \in Results : m.state[q] \in Nat /\ shown[q] \in Nat
    BY <1>3, <1>4 DEF TabState
  <2> QED BY <1>1, <1>2, <1>5, <1>6, <1>8, <2>1 DEF WindowTypes, TabState
<1>16. \A q \in Results : q \in Carries(m) /\ m \notin Outdated(q, newest[q])
                                => m.state[q] = newest[q]
  BY <1>2, <1>3 DEF Outdated, StateIn
<1>17. ASSUME NEW q \in Results
       PROVE  /\ newest'[q] = newest[q]
              /\ q \in InTabs(popup) /\ shown[q] = newest[q] =>
                    /\ ~Has(ms, OtherSaves(q, newest[q]))
                    /\ q \in InTabs(popup') /\ shown'[q] = newest[q]
              /\ q \notin InTabs(popup) /\ ~Has(toPopup, Outdated(q, newest[q])) =>
                    /\ ~Has(ms, OtherSaves(q, newest[q]))
                    /\ ~Has(toPopup', Outdated(q, newest[q]))
                    /\ q \in InTabs(popup') => shown'[q] = newest[q]
  BY <1>2, <1>6, <1>8, <1>9, <1>10, <1>15, <1>16
<1>18. ASSUME NEW q \in Results \ launched
       PROVE  \/ Has(ms, Closings(q))
              \/ /\ newest'[q] = newest[q]
                 /\ q \in InTabs(popup) /\ shown[q] = newest[q] =>
                        /\ ~Has(ms, OtherSaves(q, newest[q]))
                        /\ q \in InTabs(popup') /\ shown'[q] = newest[q]
                 /\ q \notin InTabs(popup) /\ ~Has(toPopup, Outdated(q, newest[q])) =>
                        /\ ~Has(ms, OtherSaves(q, newest[q]))
                        /\ ~Has(toPopup', Outdated(q, newest[q]))
                        /\ q \in InTabs(popup') => shown'[q] = newest[q]
              \/ /\ EndsIn(ms, Saves(q, newest'[q]), OtherSaves(q, newest'[q]))
                 /\ q \in InTabs(popup') /\ shown'[q] = newest'[q]
  BY <1>17
<1>19. \/ EndsIn(ms, Selections(popup'.active), OtherSelections(popup'.active))
       \/ /\ popup'.active = popup.active
          /\ ~Has(ms, OtherSelections(popup.active))
          /\ Has(toPopup, Announcing) => Has(toPopup', Announcing)
  BY <1>8, <1>9, <1>14
<1>20. \A q \in Results : q \in InTabs(popup) \/ Has(toPopup, Bringing(q)) =>
            \/ q \in InTabs(popup')
            \/ Has(toPopup', Bringing(q))
            \/ Has(ms, Closings(q))
  BY <1>13
<1>21. /\ phase = "open" /\ UNCHANGED <<host, kept, phase, results, launched, hurried>>
       /\ popup' \in TabLists(Results) /\ shown' \in TabState /\ newest' \in TabState
       /\ displayed' = popup'.active /\ frames' \subseteq Results /\ clicks' \in Nat
  BY <1>2, <1>8, <1>15
<1>22. /\ toHost' = toHost \o ms
       /\ \A i \in 1..Len(ms) : ms[i].type = "result-state" => ms[i].revision <= results
  BY <1>9
<1> QED BY <1>11, <1>12, <1>18, <1>19, <1>20, <1>21, <1>22, PopupTells

\* The amplitudes of a launch arrive: no other result is touched by them.
LEMMA ReceiveAmplitudesKeeps ==
    ASSUME WindowInv, ReceiveAmplitudes
    PROVE  WindowInv'
<1>0. PICK m : m = Head(toPopup)
  OBVIOUS
<1>1. WindowTypes /\ NothingAhead /\ toPopup \in Seq(PopupMessage)
  BY DEF WindowInv, WindowTypes
<1> DEFINE ms == IF displayed = m.revision THEN Saved(popup, shown', displayed) ELSE <<>>
<1>2. /\ phase = "open" /\ toPopup # <<>> /\ m.type = "amplitudes"
      /\ shown' = IF m.revision \in InTabs(popup)
                  THEN [shown EXCEPT ![m.revision] = m.state] ELSE shown
      /\ toHost' = toHost \o ms
      /\ toPopup' = Tail(toPopup)
      /\ UNCHANGED <<host, kept, phase, popup, displayed, frames, results, launched, newest,
                     hurried, clicks>>
  BY <1>0 DEF ReceiveAmplitudes
<1>3. m \in PopupMessage /\ m.revision \in Results /\ m.state \in Nat /\ Carries(m) = {}
  <2>1. m \in PopupMessage
    BY <1>0, <1>1, <1>2
  <2> QED BY <1>2, <2>1, PopupMessages DEF Carries
<1>4. /\ popup \in TabLists(Results) /\ displayed \in Selectable /\ displayed' = popup'.active
      /\ popup' \in TabLists(Results) /\ frames' \subseteq Results /\ newest' \in TabState
      /\ clicks' \in Nat
  BY <1>1, <1>2, TabListParts DEF WindowTypes, Selectable
<1>5. shown' \in TabState /\ \A q \in Results : q # m.revision => shown'[q] = shown[q]
  BY <1>1, <1>2, <1>3 DEF WindowTypes, TabState
<1>6. m.revision \in launched
  BY <1>0, <1>2, MessageTaken
<1>7. /\ ms \in Seq(HostMessage)
      /\ \A q : ~Has(ms, Closings(q)) /\ ~Has(ms, OtherSelections(q))
      /\ \A q, v : Has(ms, OtherSaves(q, v)) => q = m.revision
      /\ \A i \in 1..Len(ms) : ms[i].revision \in InTabs(popup)
  <2>1. CASE displayed = m.revision
    <3>1. ms = Saved(popup, shown', displayed)
      BY <2>1
    <3> HIDE DEF ms
    <3> QED BY <1>4, <1>5, <2>1, <3>1, SavedFacts
  <2>2. CASE displayed # m.revision
    <3>1. ms = <<>> /\ 1..Len(<<>>) = {} /\ <<>> \in Seq(HostMessage)
      BY <2>2
    <3> HIDE DEF ms
    <3> QED BY <3>1, HasFew
  <2> QED BY <2>1, <2>2
<1> HIDE DEF ms
<1>8. \A i \in 1..Len(ms) : ms[i].type = "result-state" => ms[i].revision <= results
  BY <1>1, <1>7 DEF NothingAhead
<1>9. \A S : Has(toPopup, S) <=> m \in S \/ Has(toPopup', S)
  BY <1>0, <1>1, <1>2, HasTail
<1>10. /\ toPopup' \in Seq(PopupMessage)
       /\ InTabs(popup') \subseteq 1..results
       /\ \A i \in 1..Len(toPopup') :
             /\ Carries(toPopup'[i]) \subseteq 1..results
             /\ toPopup'[i].type = "amplitudes" => toPopup'[i].revision \in launched
       /\ AnnouncedOnce'
  BY <1>0, <1>2, MessageTaken
<1>11. \A q \in Results : q > results => newest'[q] = 0
  BY <1>1, <1>2 DEF NothingAhead
<1>12. /\ m \notin Announcing
       /\ \A q : m \notin Bringing(q)
       /\ \A q, v : m \notin Outdated(q, v)
  BY <1>2, <1>3 DEF Announcing, Bringing, Outdated
<1>13. /\ Has(toPopup, Announcing) => Has(toPopup', Announcing)
       /\ \A q : Has(toPopup, Bringing(q)) => Has(toPopup', Bringing(q))
       /\ \A q, v : Has(toPopup', Outdated(q, v)) => Has(toPopup, Outdated(q, v))
  BY <1>9, <1>12
<1>14. ASSUME NEW q \in Results \ launched
       PROVE  newest'[q] = newest[q] /\ shown'[q] = shown[q]
              /\ ~Has(ms, OtherSaves(q, newest[q]))
  BY <1>2, <1>5, <1>6, <1>7
<1>15. ASSUME NEW q \in Results \ launched
       PROVE  \/ Has(ms, Closings(q))
              \/ /\ newest'[q] = newest[q]
                 /\ q \in InTabs(popup) /\ shown[q] = newest[q] =>
                        /\ ~Has(ms, OtherSaves(q, newest[q]))
                        /\ q \in InTabs(popup') /\ shown'[q] = newest[q]
                 /\ q \notin InTabs(popup) /\ ~Has(toPopup, Outdated(q, newest[q])) =>
                        /\ ~Has(ms, OtherSaves(q, newest[q]))
                        /\ ~Has(toPopup', Outdated(q, newest[q]))
                        /\ q \in InTabs(popup') => shown'[q] = newest[q]
              \/ /\ EndsIn(ms, Saves(q, newest'[q]), OtherSaves(q, newest'[q]))
                 /\ q \in InTabs(popup') /\ shown'[q] = newest'[q]
  BY <1>2, <1>13, <1>14
<1>16. \/ EndsIn(ms, Selections(popup'.active), OtherSelections(popup'.active))
       \/ /\ popup'.active = popup.active
          /\ ~Has(ms, OtherSelections(popup.active))
          /\ Has(toPopup, Announcing) => Has(toPopup', Announcing)
  BY <1>2, <1>7, <1>13
<1>17. \A q \in Results : q \in InTabs(popup) \/ Has(toPopup, Bringing(q)) =>
            \/ q \in InTabs(popup')
            \/ Has(toPopup', Bringing(q))
            \/ Has(ms, Closings(q))
  BY <1>2, <1>13
<1>18. /\ phase = "open" /\ UNCHANGED <<host, kept, phase, results, launched, hurried>>
       /\ popup' \in TabLists(Results) /\ shown' \in TabState /\ newest' \in TabState
       /\ displayed' = popup'.active /\ frames' \subseteq Results /\ clicks' \in Nat
  BY <1>2, <1>4, <1>5
<1>19. /\ toHost' = toHost \o ms
       /\ \A i \in 1..Len(ms) : ms[i].type = "result-state" => ms[i].revision <= results
  BY <1>2, <1>8
<1> QED BY <1>7, <1>10, <1>11, <1>15, <1>16, <1>17, <1>18, <1>19, PopupTells

-----------------------------------------------------------------------------
(* A step of the host, and a popup that comes and goes                     *)

\* What the invariant says of the messages to a popup with some tabs when
\* there are n results.
GoodMessages(s, tabs, n, withAmplitudes) ==
    \A i \in 1..Len(s) :
        /\ Carries(s[i]) \subseteq 1..n
        /\ s[i].type = "amplitudes" => s[i].revision \in withAmplitudes
        /\ s[i].type = "result" =>
                /\ s[i].revision \notin tabs
                /\ \A j \in 1..(i - 1) : s[i].revision \notin Carries(s[j])

\* That is the same as two parts of the invariant, in this state and the next.
LEMMA MessagesGood ==
    /\ WindowInv => /\ toPopup \in Seq(PopupMessage)
                    /\ GoodMessages(toPopup, InTabs(popup), results, launched)
    /\ GoodMessages(toPopup, InTabs(popup), results, launched)' =>
            /\ AnnouncedOnce'
            /\ \A i \in 1..Len(toPopup') :
                    /\ Carries(toPopup'[i]) \subseteq 1..results'
                    /\ toPopup'[i].type = "amplitudes" => toPopup'[i].revision \in launched'
<1>1. ASSUME WindowInv
      PROVE  /\ toPopup \in Seq(PopupMessage)
             /\ GoodMessages(toPopup, InTabs(popup), results, launched)
  BY <1>1 DEF WindowInv, WindowTypes, NothingAhead, AnnouncedOnce, GoodMessages
<1>2. ASSUME GoodMessages(toPopup, InTabs(popup), results, launched)'
      PROVE  /\ AnnouncedOnce'
             /\ \A i \in 1..Len(toPopup') :
                    /\ Carries(toPopup'[i]) \subseteq 1..results'
                    /\ toPopup'[i].type = "amplitudes" => toPopup'[i].revision \in launched'
  BY <1>2 DEF GoodMessages, AnnouncedOnce, Carries
<1> QED BY <1>1, <1>2

\* One message more.
LEMMA MessageAdded ==
    ASSUME NEW s \in Seq(PopupMessage), NEW tabs, NEW n, NEW withAmplitudes,
           GoodMessages(s, tabs, n, withAmplitudes),
           NEW m \in PopupMessage, Carries(m) \subseteq 1..n,
           m.type = "amplitudes" => m.revision \in withAmplitudes,
           m.type = "result" =>
                /\ m.revision \notin tabs
                /\ \A j \in 1..Len(s) : m.revision \notin Carries(s[j])
    PROVE  /\ s \o <<m>> \in Seq(PopupMessage)
           /\ GoodMessages(s \o <<m>>, tabs, n, withAmplitudes)
           /\ \A S : Has(s \o <<m>>, S) <=> Has(s, S) \/ m \in S
<1>1. <<m>> \in Seq(PopupMessage) /\ Len(<<m>>) = 1 /\ <<m>>[1] = m
  OBVIOUS
<1>2. \A S : Has(s \o <<m>>, S) <=> Has(s, S) \/ m \in S
  BY <1>1, HasConcat, HasFew
<1>3. PICK u : u = s \o <<m>>
  OBVIOUS
<1>4. /\ u \in Seq(PopupMessage) /\ Len(u) = Len(s) + 1 /\ Len(s) \in Nat
      /\ \A i \in 1..Len(s) : u[i] = s[i]
      /\ u[Len(s) + 1] = m
  BY <1>1, <1>3
<1>5. GoodMessages(u, tabs, n, withAmplitudes)
  <2>1. SUFFICES ASSUME NEW i \in 1..Len(u)
                 PROVE  /\ Carries(u[i]) \subseteq 1..n
                        /\ u[i].type = "amplitudes" => u[i].revision \in withAmplitudes
                        /\ u[i].type = "result" =>
                                /\ u[i].revision \notin tabs
                                /\ \A j \in 1..(i - 1) : u[i].revision \notin Carries(u[j])
    BY DEF GoodMessages
  <2>2. CASE i \in 1..Len(s)
    <3>1. \A j \in 1..(i - 1) : u[j] = s[j]
      BY <1>4, <2>2
    <3> QED BY <1>4, <2>2, <3>1 DEF GoodMessages
  <2>3. CASE i = Len(s) + 1
    <3>1. \A j \in 1..(i - 1) : j \in 1..Len(s) /\ u[j] = s[j]
      BY <1>4, <2>3
    <3> QED BY <1>4, <2>3, <3>1
  <2> QED BY <1>4, <2>2, <2>3
<1> QED BY <1>2, <1>3, <1>4, <1>5

\* The publication of all results.
LEMMA PublishedFacts ==
    ASSUME NEW tabs \in TabLists(Results), NEW state \in TabState
    PROVE  /\ Published(tabs, state) \in PopupMessage
           /\ Published(tabs, state).type = "results"
           /\ Carries(Published(tabs, state)) = InTabs(tabs)
           /\ \A r : r \in InTabs(tabs) => Published(tabs, state) \in Bringing(r)
           /\ \A r, v : Published(tabs, state) \in Outdated(r, v)
                            => r \in InTabs(tabs) /\ state[r] # v
<1>1. tabs.order \in Seq(Results) /\ tabs.active \in Selectable
  BY TabListParts DEF Selectable
<1>2. Published(tabs, state) \in PopupMessage
  BY <1>1, PopupMessages DEF Published
<1>3. /\ Published(tabs, state).type = "results" /\ Published(tabs, state).order = tabs.order
      /\ Published(tabs, state).state = state
  BY DEF Published
<1>4. Carries(Published(tabs, state)) = InTabs(tabs)
  BY <1>3 DEF Carries, InTabs
<1> QED BY <1>2, <1>3, <1>4 DEF Bringing, Outdated, StateIn

\* Nothing to say to a popup that is not there.
LEMMA NoMessages ==
    \A tabs, n, withAmplitudes : /\ GoodMessages(<<>>, tabs, n, withAmplitudes)
                                 /\ <<>> \in Seq(PopupMessage)
BY DEF GoodMessages

\* The initial state satisfies the invariant.
LEMMA WindowsStart == Init => WindowInv
<1> SUFFICES ASSUME Init PROVE WindowInv
  OBVIOUS
<1>1. /\ host = NoTabs /\ popup = NoTabs /\ phase = "closed" /\ displayed = None
      /\ frames = {} /\ toPopup = <<>> /\ toHost = <<>> /\ results = 0 /\ launched = {}
      /\ hurried = FALSE /\ clicks = 0
      /\ kept = [r \in Results |-> 0] /\ shown = [r \in Results |-> 0]
      /\ newest = [r \in Results |-> 0]
  BY DEF Init
<1>2. kept \in TabState /\ shown \in TabState /\ newest \in TabState
  BY <1>1 DEF TabState
<1>3. WindowTypes
  <2>1. <<>> \in Seq(PopupMessage) /\ <<>> \in Seq(HostMessage) /\ 0 \in 0..MaxResults
    BY WindowsAssumption
  <2> QED BY <1>1, <1>2, <2>1, NoTabsFacts DEF WindowTypes
<1>4. 1..Len(<<>>) = {} /\ \A S : ~Has(<<>>, S)
  BY HasFew
<1>5. NothingAhead
  BY <1>1, <1>4, NoTabsFacts DEF NothingAhead
<1>6. AnnouncedOnce /\ MissingComes /\ SelectionComes
  BY <1>1, <1>4 DEF AnnouncedOnce, MissingComes, SelectionComes
<1>7. EditsCome
  BY <1>1, NoTabsFacts DEF EditsCome, Gone
<1> QED BY <1>3, <1>5, <1>6, <1>7 DEF WindowInv

\* A message is missed by a popup that loads.
LEMMA MissMessageKeeps ==
    ASSUME WindowInv, MissMessage
    PROVE  WindowInv'
<1>1. /\ phase = "loading" /\ toPopup # <<>> /\ toPopup' = Tail(toPopup)
      /\ UNCHANGED <<host, kept, phase, popup, shown, displayed, frames, toHost, results,
                     launched, newest, hurried, clicks>>
  BY DEF MissMessage, popupVars
<1>2. WindowTypes /\ NothingAhead /\ EditsCome
  BY DEF WindowInv
<1>3. /\ toPopup' \in Seq(PopupMessage)
      /\ \A i \in 1..Len(toPopup') :
            /\ Carries(toPopup'[i]) \subseteq 1..results
            /\ toPopup'[i].type = "amplitudes" => toPopup'[i].revision \in launched
      /\ AnnouncedOnce'
  BY <1>1, MessageTaken
<1>4. WindowTypes'
  BY <1>1, <1>2, <1>3 DEF WindowTypes
<1>5. NothingAhead'
  BY <1>1, <1>2, <1>3 DEF NothingAhead
<1>6. MissingComes' /\ SelectionComes'
  BY <1>1 DEF MissingComes, SelectionComes
<1>7. EditsCome'
  <2>1. \A r \in Results \ launched : ~hurried => Gone(r) \/ SaveComes(r)
    BY <1>2 DEF EditsCome
  <2>2. \A r : (Gone(r)' <=> Gone(r)) /\ (SaveComes(r)' <=> SaveComes(r))
    BY <1>1 DEF Gone, SaveComes, Closings, Saves, OtherSaves
  <2> QED BY <1>1, <2>1, <2>2 DEF EditsCome
<1> QED BY <1>3, <1>4, <1>5, <1>6, <1>7 DEF WindowInv

\* A popup listens, and says so.
LEMMA PopupLoadedKeeps ==
    ASSUME WindowInv, PopupLoaded
    PROVE  WindowInv'
<1> DEFINE ready == [type |-> "ready"]
<1>1. /\ phase = "loading" /\ phase' = "open"
      /\ hurried' = (hurried \/ toHost # <<>> \/ toPopup # <<>>)
      /\ toHost' = Append(toHost, ready)
      /\ UNCHANGED <<host, kept, popup, shown, displayed, frames, toPopup, results, launched,
                     newest, clicks>>
  BY DEF PopupLoaded, popupVars
<1>2. WindowTypes /\ NothingAhead /\ EditsCome /\ AnnouncedOnce
  BY DEF WindowInv
<1>3. popup = NoTabs /\ popup.active = None /\ InTabs(popup) = {}
  BY <1>1, <1>2, NoTabsFacts DEF WindowTypes
<1>4. /\ ready \in HostMessage /\ ready.type = "ready"
      /\ ready \in Readies /\ \A r : ready \notin Closings(r)
      /\ \A r, v : ready \notin OtherSaves(r, v)
  BY HostMessages DEF Readies, Closings, OtherSaves
<1> HIDE DEF ready
<1>5. /\ toHost \in Seq(HostMessage) /\ <<ready>> \in Seq(HostMessage)
      /\ toHost' = toHost \o <<ready>> /\ toHost' \in Seq(HostMessage)
  <2>1. toHost \in Seq(HostMessage)
    BY <1>2 DEF WindowTypes
  <2> QED BY <1>1, <1>4, <2>1
<1>6. \A S : Has(toHost', S) <=> Has(toHost, S) \/ ready \in S
  BY <1>5, HasConcat, HasFew
<1>7. WindowTypes'
  BY <1>1, <1>2, <1>5 DEF WindowTypes
<1>8. NothingAhead'
  <2> DEFINE S == {m \in HostMessage : m.type = "result-state" => m.revision <= results}
  <2>1. \A i \in 1..Len(toHost) : toHost[i] \in S
    BY <1>2, <1>5 DEF NothingAhead
  <2>2. \A i \in 1..Len(<<ready>>) : <<ready>>[i] \in S
    BY <1>4
  <2>3. \A i \in 1..Len(toHost') : toHost'[i] \in S
    <3> HIDE DEF S
    <3> QED BY <1>5, <2>1, <2>2, AllOfConcat
  <2> QED BY <1>1, <1>2, <2>3 DEF NothingAhead
<1>9. AnnouncedOnce'
  BY <1>1, <1>2 DEF AnnouncedOnce
<1>10. MissingComes'
  <2>1. Has(toHost', Readies)
    BY <1>4, <1>6
  <2> QED BY <2>1 DEF MissingComes, Readies
<1>11. SelectionComes'
  BY <1>1, <1>3 DEF SelectionComes
<1>12. EditsCome'
  <2>1. SUFFICES ASSUME ~hurried, toHost = <<>>, toPopup = <<>>, NEW r \in Results \ launched,
                        r \in InTabs(host)
                 PROVE  /\ SaveComes(r)'
                        /\ kept[r] = newest[r]
                        /\ ~Has(toHost', OtherSaves(r, newest[r]))
                        /\ ~Has(toPopup', Outdated(r, newest[r]))
    BY <1>1, <1>3 DEF EditsCome, Gone, Outdated, OtherSaves
  <2>2. \A S, T : ~Has(toHost, S) /\ ~Has(toPopup, S) /\ ~EndsIn(toHost, S, T)
    <3>1. 1..Len(<<>>) = {}
      OBVIOUS
    <3> QED BY <2>1, <3>1 DEF Has, EndsIn
  <2>3. kept[r] = newest[r]
    BY <1>2, <2>1, <2>2 DEF EditsCome, Gone, SaveComes
  <2>4. ~Has(toHost', OtherSaves(r, newest[r]))
    BY <1>4, <1>6, <2>2
  <2>5. ~Has(toPopup', Outdated(r, newest[r]))
    BY <1>1, <2>2
  <2>6. SaveComes(r)'
    BY <1>1, <2>3, <2>4 DEF SaveComes, OtherSaves
  <2> QED BY <2>3, <2>4, <2>5, <2>6
<1> QED BY <1>7, <1>8, <1>9, <1>10, <1>11, <1>12 DEF WindowInv

\* The popup is left: it saves the displayed result, and is empty.
LEMMA LeavePageKeeps ==
    ASSUME WindowInv, NEW next \in {"loading", "closed"}, LeavePage(next)
    PROVE  WindowInv'
<1> DEFINE ms == Saved(popup, shown, displayed)
<1>1. /\ phase = "open" /\ clicks' = clicks + 1 /\ phase' = next
      /\ toHost' = toHost \o ms
      /\ popup' = NoTabs /\ shown' = [r \in Results |-> 0] /\ displayed' = None
      /\ frames' = {} /\ toPopup' = <<>>
      /\ UNCHANGED <<host, kept, results, launched, newest, hurried>>
  BY DEF LeavePage, Click
<1>2. WindowTypes /\ NothingAhead /\ EditsCome
  BY DEF WindowInv
<1>3. /\ popup \in TabLists(Results) /\ shown \in TabState /\ displayed \in Selectable
      /\ toHost \in Seq(HostMessage)
  BY <1>2, TabListParts DEF WindowTypes, Selectable
<1>4. /\ ms \in Seq(HostMessage)
      /\ \A q, v : Has(ms, OtherSaves(q, v)) => q \in InTabs(popup) /\ shown[q] # v
      /\ \A i \in 1..Len(ms) : ms[i].revision \in InTabs(popup)
  BY <1>3, SavedFacts
<1> HIDE DEF ms
<1>5. toHost' \in Seq(HostMessage) /\ \A S : Has(toHost', S) <=> Has(toHost, S) \/ Has(ms, S)
  BY <1>1, <1>3, <1>4, HasConcat
<1>6. WindowTypes'
  <2>1. shown' \in TabState /\ clicks' \in Nat /\ <<>> \in Seq(PopupMessage)
    BY <1>1, <1>2 DEF TabState, WindowTypes
  <2> QED BY <1>1, <1>2, <1>5, <2>1, NoTabsFacts DEF WindowTypes
<1>7. NothingAhead'
  <2> DEFINE S == {m \in HostMessage : m.type = "result-state" => m.revision <= results}
  <2>1. \A i \in 1..Len(toHost) : toHost[i] \in S
    BY <1>2, <1>3 DEF NothingAhead
  <2>2. \A i \in 1..Len(ms) : ms[i] \in S
    BY <1>2, <1>4 DEF NothingAhead
  <2>3. \A i \in 1..Len(toHost') : toHost'[i] \in S
    <3> HIDE DEF S
    <3> QED BY <1>1, <1>3, <1>4, <2>1, <2>2, AllOfConcat
  <2>4. 1..Len(<<>>) = {}
    OBVIOUS
  <2> QED BY <1>1, <1>2, <2>3, <2>4, NoTabsFacts DEF NothingAhead
<1>8. AnnouncedOnce' /\ MissingComes' /\ SelectionComes'
  <2>1. 1..Len(<<>>) = {}
    OBVIOUS
  <2> QED BY <1>1, <2>1 DEF AnnouncedOnce, MissingComes, SelectionComes
<1>9. EditsCome'
  <2>1. SUFFICES ASSUME ~hurried, NEW r \in Results \ launched,
                        r \in InTabs(host), ~Has(toHost', Closings(r))
                 PROVE  SaveComes(r)'
    BY <1>1 DEF EditsCome, Gone, Closings
  <2>2. /\ SaveComes(r)
        /\ r \in InTabs(popup) => shown[r] = newest[r]
    BY <1>1, <1>2, <1>5, <2>1 DEF EditsCome, Gone
  <2>3. ~Has(ms, OtherSaves(r, newest[r]))
    BY <1>4, <2>2
  <2>4. EndsIn(toHost, Saves(r, newest[r]), OtherSaves(r, newest[r]))
            => EndsIn(toHost', Saves(r, newest[r]), OtherSaves(r, newest[r]))
    BY <1>1, <1>3, <1>4, <2>3, EndsConcat
  <2> QED BY <1>1, <1>5, <2>2, <2>3, <2>4 DEF SaveComes, Saves, OtherSaves
<1> QED BY <1>6, <1>7, <1>8, <1>9 DEF WindowInv

\* "Open output": what a listening popup is told was true when it was sent.
LEMMA OpenOutputKeeps ==
    ASSUME WindowInv, OpenOutput
    PROVE  WindowInv'
<1>1. PICK p : p = Published(host, kept)
  OBVIOUS
<1>2. /\ clicks' = clicks + 1
      /\ UNCHANGED <<host, kept, popup, shown, displayed, frames, results, launched, newest>>
      /\ \/ /\ phase # "closed" /\ toPopup' = Append(toPopup, p)
            /\ UNCHANGED <<phase, toHost, hurried>>
         \/ /\ phase = "closed" /\ phase' = "loading"
            /\ hurried' = (hurried \/ toHost # <<>>) /\ toHost' = <<>>
            /\ toPopup' = <<p>>
  BY <1>1 DEF OpenOutput, Click, ReplacePopup, popupVars
<1>3. WindowTypes /\ NothingAhead /\ MissingComes /\ SelectionComes /\ EditsCome
  BY DEF WindowInv
<1>4. /\ p \in PopupMessage /\ p.type = "results" /\ Carries(p) = InTabs(host)
      /\ Carries(p) \subseteq 1..results
      /\ \A r, v : p \in Outdated(r, v) => r \in InTabs(host) /\ kept[r] # v
  BY <1>1, <1>3, PublishedFacts DEF WindowTypes, NothingAhead
<1>5. /\ toPopup \in Seq(PopupMessage)
      /\ GoodMessages(toPopup, InTabs(popup), results, launched)
  BY MessagesGood
<1>6. CASE /\ phase # "closed" /\ toPopup' = Append(toPopup, p)
           /\ UNCHANGED <<phase, toHost, hurried>>
  <2>1. /\ toPopup' \in Seq(PopupMessage)
        /\ GoodMessages(toPopup', InTabs(popup), results, launched)
        /\ \A S : Has(toPopup', S) <=> Has(toPopup, S) \/ p \in S
    <3>1. toPopup' = toPopup \o <<p>>
      BY <1>4, <1>5, <1>6
    <3> QED BY <1>4, <1>5, <3>1, MessageAdded
  <2>2. /\ AnnouncedOnce'
        /\ \A i \in 1..Len(toPopup') :
                /\ Carries(toPopup'[i]) \subseteq 1..results'
                /\ toPopup'[i].type = "amplitudes" => toPopup'[i].revision \in launched'
    <3>1. GoodMessages(toPopup, InTabs(popup), results, launched)'
      BY <1>2, <2>1
    <3> QED BY <3>1, MessagesGood
  <2>3. WindowTypes'
    BY <1>2, <1>3, <1>6, <2>1 DEF WindowTypes
  <2>4. NothingAhead'
    BY <1>2, <1>3, <1>6, <2>2 DEF NothingAhead
  <2>5. MissingComes'
    BY <1>2, <1>3, <1>6, <2>1 DEF MissingComes, Bringing, Readies, Closings
  <2>6. SelectionComes'
    BY <1>2, <1>3, <1>6, <2>1
        DEF SelectionComes, Gone, Announcing, Closings, Selections, OtherSelections
  <2>7. EditsCome'
    <3>1. SUFFICES ASSUME ~hurried, NEW r \in Results \ launched, ~Gone(r)
                   PROVE  /\ SaveComes(r)'
                          /\ phase = "open" /\ r \in InTabs(popup) => shown[r] = newest[r]
                          /\ phase = "open" /\ r \notin InTabs(popup) =>
                                /\ kept[r] = newest[r]
                                /\ ~Has(toHost, OtherSaves(r, newest[r]))
                                /\ ~Has(toPopup', Outdated(r, newest[r]))
      BY <1>2, <1>6 DEF EditsCome, Gone, Closings, OtherSaves, Outdated
    <3>2. /\ SaveComes(r)
          /\ phase = "open" /\ r \in InTabs(popup) => shown[r] = newest[r]
          /\ phase = "open" /\ r \notin InTabs(popup) =>
                /\ kept[r] = newest[r]
                /\ ~Has(toHost, OtherSaves(r, newest[r]))
                /\ ~Has(toPopup, Outdated(r, newest[r]))
      BY <1>3, <3>1 DEF EditsCome
    <3>3. SaveComes(r)'
      BY <1>2, <1>6, <3>2 DEF SaveComes, Saves, OtherSaves
    <3> QED BY <1>4, <2>1, <3>2, <3>3
  <2> QED BY <2>2, <2>3, <2>4, <2>5, <2>6, <2>7 DEF WindowInv
<1>7. CASE /\ phase = "closed" /\ phase' = "loading"
           /\ hurried' = (hurried \/ toHost # <<>>) /\ toHost' = <<>>
           /\ toPopup' = <<p>>
  <2>1. /\ toPopup' \in Seq(PopupMessage)
        /\ GoodMessages(toPopup', InTabs(popup), results, launched)
    <3>1. toPopup' = <<>> \o <<p>>
      BY <1>7
    <3>2. \A j \in 1..Len(<<>>) : FALSE
      OBVIOUS
    <3> QED BY <1>4, <3>1, <3>2, NoMessages, MessageAdded
  <2>2. /\ AnnouncedOnce'
        /\ \A i \in 1..Len(toPopup') :
                /\ Carries(toPopup'[i]) \subseteq 1..results'
                /\ toPopup'[i].type = "amplitudes" => toPopup'[i].revision \in launched'
    <3>1. GoodMessages(toPopup, InTabs(popup), results, launched)'
      BY <1>2, <2>1
    <3> QED BY <3>1, MessagesGood
  <2>3. WindowTypes'
    <3>1. <<>> \in Seq(HostMessage)
      OBVIOUS
    <3> QED BY <1>2, <1>3, <1>7, <2>1, <3>1 DEF WindowTypes
  <2>4. NothingAhead'
    <3>1. \A i \in 1..Len(<<>>) : FALSE
      OBVIOUS
    <3> QED BY <1>2, <1>3, <1>7, <2>2, <3>1 DEF NothingAhead
  <2>5. MissingComes' /\ SelectionComes'
    BY <1>7 DEF MissingComes, SelectionComes
  <2>6. EditsCome'
    <3>1. SUFFICES ASSUME ~hurried, toHost = <<>>, NEW r \in Results \ launched,
                          r \in InTabs(host)
                   PROVE  SaveComes(r)'
      BY <1>2, <1>7 DEF EditsCome, Gone
    <3>2. \A S, T : ~Has(toHost, S) /\ ~EndsIn(toHost, S, T)
      <4>1. 1..Len(<<>>) = {}
        OBVIOUS
      <4> QED BY <3>1, <4>1 DEF Has, EndsIn
    <3>3. SaveComes(r)
      BY <1>3, <3>1, <3>2 DEF EditsCome, Gone
    <3> QED BY <1>2, <1>7, <3>1, <3>3 DEF SaveComes, Saves, OtherSaves
  <2> QED BY <2>2, <2>3, <2>4, <2>5, <2>6 DEF WindowInv
<1> QED BY <1>2, <1>6, <1>7

\* A message reaches the host: what was to come has come.
LEMMA HostReceiveKeeps ==
    ASSUME WindowInv, HostReceive
    PROVE  WindowInv'
<1>0. PICK m : m = Head(toHost)
  OBVIOUS
<1>1. PICK p : p = Published(host, kept)
  OBVIOUS
<1>2. /\ toHost # <<>> /\ toHost' = Tail(toHost)
      /\ host' = CASE m.type = "select" -> SelectTab(host, m.revision)
                   [] m.type = "close" -> Close(host, m.revision)
                   [] OTHER -> host
      /\ kept' = IF m.type = "result-state" /\ m.revision \in InTabs(host)
                 THEN [kept EXCEPT ![m.revision] = m.state] ELSE kept
      /\ toPopup' = IF phase # "closed"
                    THEN toPopup \o (IF m.type = "ready" THEN <<p>> ELSE <<>>) ELSE toPopup
      /\ UNCHANGED <<phase, popup, shown, displayed, frames, results, launched, newest, hurried,
                     clicks>>
  BY <1>0, <1>1 DEF HostReceive, Answer, popupVars
<1>3. WindowTypes /\ NothingAhead /\ MissingComes /\ SelectionComes /\ EditsCome
  BY DEF WindowInv
<1>4. toHost \in Seq(HostMessage) /\ host \in TabLists(Results) /\ kept \in TabState
  BY <1>3 DEF WindowTypes
<1>5. /\ m \in HostMessage /\ toHost' \in Seq(HostMessage)
      /\ \A S : Has(toHost, S) <=> m \in S \/ Has(toHost', S)
  BY <1>0, <1>2, <1>4, HasTail
<1>6. \A S, T : EndsIn(toHost, S, T) =>
                    EndsIn(toHost', S, T) \/ (m \in S /\ ~Has(toHost', T))
  BY <1>0, <1>2, <1>4, EndsTail
<1>7. /\ p \in PopupMessage /\ p.type = "results" /\ Carries(p) = InTabs(host)
      /\ Carries(p) \subseteq 1..results
      /\ \A r : r \in InTabs(host) => p \in Bringing(r)
      /\ \A r, v : p \in Outdated(r, v) => r \in InTabs(host) /\ kept[r] # v
  BY <1>1, <1>3, PublishedFacts DEF WindowTypes, NothingAhead
<1>8. /\ host' \in TabLists(Results)
      /\ m.type = "close" => InTabs(host') = InTabs(host) \ {m.revision}
                             /\ (host.active # m.revision => host'.active = host.active)
      /\ m.type = "select" =>
            /\ InTabs(host') = InTabs(host)
            /\ host'.active = IF m.revision \in InTabs(host) THEN m.revision ELSE host.active
      /\ m.type \notin {"close", "select"} => host' = host
  <2>1. CASE m.type = "close"
    <3>1. host' = Close(host, m.revision)
      BY <1>2, <2>1
    <3> QED BY <1>4, <2>1, <3>1, ClosedTabs
  <2>2. CASE m.type = "select"
    <3>1. host' = SelectTab(host, m.revision)
      BY <1>2, <2>2
    <3> QED BY <1>4, <2>2, <3>1, SelectedTabs
  <2>3. CASE m.type \notin {"close", "select"}
    <3>1. host' = host
      BY <1>2, <2>3
    <3> QED BY <1>4, <2>3, <3>1
  <2> QED BY <2>1, <2>2, <2>3
<1>9. InTabs(host') \subseteq InTabs(host) /\ \A r : m \in Closings(r) => r \notin InTabs(host')
  BY <1>8 DEF Closings
<1>10. /\ kept' \in TabState
       /\ \A r \in Results : kept'[r] # kept[r] =>
            m.type = "result-state" /\ m.revision = r /\ kept'[r] = m.state
       /\ \A r \in Results : m.type = "result-state" /\ m.revision = r /\ r \in InTabs(host)
                => kept'[r] = m.state
  <2>1. m.type = "result-state" => m.revision \in Results /\ m.state \in Nat
    BY <1>5, HostMessages
  <2> QED BY <1>2, <1>4, <2>1 DEF TabState
<1>11. /\ toPopup' \in Seq(PopupMessage)
       /\ GoodMessages(toPopup', InTabs(popup), results, launched)
       /\ \A S : Has(toPopup', S) <=>
                Has(toPopup, S) \/ (phase # "closed" /\ m.type = "ready" /\ p \in S)
  <2>1. /\ toPopup \in Seq(PopupMessage)
        /\ GoodMessages(toPopup, InTabs(popup), results, launched)
    BY MessagesGood
  <2>2. CASE phase # "closed" /\ m.type = "ready"
    <3>1. toPopup' = toPopup \o <<p>>
      BY <1>2, <2>2
    <3> QED BY <1>7, <2>1, <2>2, <3>1, MessageAdded
  <2>3. CASE ~(phase # "closed" /\ m.type = "ready")
    <3>1. toPopup' = toPopup
      BY <1>2, <2>1, <2>3
    <3> QED BY <2>1, <2>3, <3>1
  <2> QED BY <2>2, <2>3
<1>12. WindowTypes'
  BY <1>2, <1>3, <1>5, <1>8, <1>10, <1>11 DEF WindowTypes
<1>13. AnnouncedOnce' /\ NothingAhead'
  <2>1. /\ AnnouncedOnce'
        /\ \A i \in 1..Len(toPopup') :
                /\ Carries(toPopup'[i]) \subseteq 1..results'
                /\ toPopup'[i].type = "amplitudes" => toPopup'[i].revision \in launched'
    <3>1. GoodMessages(toPopup, InTabs(popup), results, launched)'
      BY <1>2, <1>11
    <3> QED BY <3>1, MessagesGood
  <2>2. \A i \in 1..Len(toHost') :
            toHost'[i].type = "result-state" => toHost'[i].revision <= results
    <3>1. SUFFICES ASSUME NEW i \in 1..Len(toHost')
                   PROVE  toHost'[i].type = "result-state" => toHost'[i].revision <= results
      OBVIOUS
    <3>2. i + 1 \in 1..Len(toHost) /\ toHost'[i] = toHost[i + 1]
      BY <1>2, <1>4
    <3> QED BY <1>3, <3>2 DEF NothingAhead
  <2>3. \A r \in Results : r > results => kept'[r] = 0
    <3>1. SUFFICES ASSUME NEW r \in Results, r > results, kept'[r] # kept[r] PROVE FALSE
      BY <1>3 DEF NothingAhead
    <3>2. m = toHost[1] /\ 1 \in 1..Len(toHost)
      BY <1>0, <1>2, <1>4
    <3>3. m.type = "result-state" /\ m.revision = r
      BY <1>10, <3>1
    <3>4. r <= results
      BY <1>3, <3>2, <3>3 DEF NothingAhead
    <3> QED BY <1>3, <3>1, <3>4 DEF WindowTypes, Results
  <2> QED BY <1>2, <1>3, <1>9, <2>1, <2>2, <2>3 DEF NothingAhead
<1>14. MissingComes'
  <2>1. SUFFICES ASSUME phase = "open", NEW r \in InTabs(host') \ InTabs(popup)
                 PROVE  \/ Has(toPopup', Bringing(r))
                        \/ Has(toHost', Readies)
                        \/ Has(toHost', Closings(r))
    BY <1>2 DEF MissingComes, Bringing, Readies, Closings
  <2>2. r \in InTabs(host) /\ m \notin Closings(r)
    BY <1>9
  <2>3. \/ Has(toPopup, Bringing(r)) \/ Has(toHost, Readies) \/ Has(toHost, Closings(r))
    BY <1>3, <2>1, <2>2 DEF MissingComes
  <2>4. m \in Readies => Has(toPopup', Bringing(r))
    BY <1>7, <1>11, <2>1, <2>2 DEF Readies
  <2> QED BY <1>5, <1>11, <2>2, <2>3, <2>4
<1>15. SelectionComes'
  <2> DEFINE r == popup.active
  <2>1. SUFFICES ASSUME phase = "open", r # None, ~Has(toPopup', Announcing),
                        r \in InTabs(host'), ~Has(toHost', Closings(r))
                 PROVE  \/ host'.active = r /\ ~Has(toHost', OtherSelections(r))
                        \/ EndsIn(toHost', Selections(r), OtherSelections(r))
    BY <1>2 DEF SelectionComes, Gone, Announcing, Closings, Selections, OtherSelections
  <2>2. /\ ~Has(toPopup, Announcing) /\ r \in InTabs(host)
        /\ m \notin Closings(r) /\ ~Has(toHost, Closings(r))
    BY <1>5, <1>9, <1>11, <2>1
  <2>3. \/ host.active = r /\ ~Has(toHost, OtherSelections(r))
        \/ EndsIn(toHost, Selections(r), OtherSelections(r))
    BY <1>3, <2>1, <2>2 DEF SelectionComes, Gone
  <2>4. CASE host.active = r /\ ~Has(toHost, OtherSelections(r))
    <3>1. m \notin OtherSelections(r) /\ ~Has(toHost', OtherSelections(r))
      BY <1>5, <2>4
    <3>2. host'.active = r
      <4>1. m.type = "select" => m.revision = r
        BY <1>5, <3>1 DEF OtherSelections
      <4>2. m.type = "close" => m.revision # r
        BY <1>5, <2>2 DEF Closings
      <4> QED BY <1>8, <2>4, <4>1, <4>2
    <3> QED BY <3>1, <3>2
  <2>5. CASE EndsIn(toHost, Selections(r), OtherSelections(r))
    <3>1. CASE m \in Selections(r) /\ ~Has(toHost', OtherSelections(r))
      <4>1. m.type = "select" /\ m.revision = r
        BY <3>1 DEF Selections
      <4> QED BY <1>8, <2>2, <3>1, <4>1
    <3> QED BY <1>6, <2>5, <3>1
  <2> QED BY <2>3, <2>4, <2>5
<1>16. EditsCome'
  <2>1. SUFFICES ASSUME ~hurried, NEW r \in Results \ launched,
                        r \in InTabs(host'), ~Has(toHost', Closings(r))
                 PROVE  /\ SaveComes(r)'
                        /\ phase = "open" /\ r \in InTabs(popup) => shown[r] = newest[r]
                        /\ phase = "open" /\ r \notin InTabs(popup) =>
                                /\ kept'[r] = newest[r]
                                /\ ~Has(toHost', OtherSaves(r, newest[r]))
                                /\ ~Has(toPopup', Outdated(r, newest[r]))
    BY <1>2 DEF EditsCome, Gone, Closings, OtherSaves, Outdated
  <2>2. r \in InTabs(host) /\ ~Has(toHost, Closings(r))
    BY <1>5, <1>9, <2>1
  <2>3. /\ SaveComes(r)
        /\ phase = "open" /\ r \in InTabs(popup) => shown[r] = newest[r]
        /\ phase = "open" /\ r \notin InTabs(popup) =>
                /\ kept[r] = newest[r]
                /\ ~Has(toHost, OtherSaves(r, newest[r]))
                /\ ~Has(toPopup, Outdated(r, newest[r]))
    BY <1>3, <2>1, <2>2 DEF EditsCome, Gone
  <2>4. kept[r] = newest[r] /\ m \notin OtherSaves(r, newest[r]) => kept'[r] = newest[r]
    BY <1>5, <1>10 DEF OtherSaves
  <2>5. m \in Saves(r, newest[r]) => kept'[r] = newest[r]
    BY <1>10, <2>2 DEF Saves
  <2>6. \/ kept[r] = newest[r] /\ ~Has(toHost, OtherSaves(r, newest[r]))
        \/ EndsIn(toHost, Saves(r, newest[r]), OtherSaves(r, newest[r]))
    BY <2>3 DEF SaveComes
  <2>7. \/ kept'[r] = newest[r] /\ ~Has(toHost', OtherSaves(r, newest[r]))
        \/ EndsIn(toHost', Saves(r, newest[r]), OtherSaves(r, newest[r]))
    BY <1>5, <1>6, <2>4, <2>5, <2>6
  <2>8. SaveComes(r)'
    BY <1>2, <2>7 DEF SaveComes, Saves, OtherSaves
  <2>9. ASSUME phase = "open", r \notin InTabs(popup)
        PROVE  /\ kept'[r] = newest[r]
               /\ ~Has(toHost', OtherSaves(r, newest[r]))
               /\ ~Has(toPopup', Outdated(r, newest[r]))
    BY <1>5, <1>7, <1>11, <2>3, <2>4, <2>9
  <2> QED BY <2>3, <2>8, <2>9
<1> QED BY <1>12, <1>13, <1>14, <1>15, <1>16 DEF WindowInv

\* A result comes from a launch: a popup that listens is told of it alone, one
\* that is opened for it of all.
LEMMA NewResultKeeps ==
    ASSUME WindowInv, NEW withAmplitudes \in BOOLEAN, NewResult(withAmplitudes)
    PROVE  WindowInv'
<1>0. PICK r : r = results + 1
  OBVIOUS
<1>1. PICK tabs : tabs = SelectTab(Add(host, r), r)
  OBVIOUS
<1>2. PICK amplitudes : amplitudes = IF withAmplitudes
                THEN <<[type |-> "amplitudes", revision |-> r, state |-> Amplitudes]>> ELSE <<>>
  OBVIOUS
<1>3. PICK news : news = [type |-> "result", revision |-> r, state |-> 0]
  OBVIOUS
<1>4. PICK p : p = Published(tabs, kept)
  OBVIOUS
<1>5. /\ results < MaxResults /\ results' = r /\ host' = tabs
      /\ kept' = IF withAmplitudes THEN [kept EXCEPT ![r] = Amplitudes] ELSE kept
      /\ launched' = IF withAmplitudes THEN launched \cup {r} ELSE launched
      /\ \/ /\ phase # "closed" /\ toPopup' = toPopup \o <<news>> \o amplitudes
            /\ UNCHANGED <<phase, toHost, hurried>>
         \/ /\ phase = "closed" /\ phase' = "loading"
            /\ hurried' = (hurried \/ toHost # <<>>) /\ toHost' = <<>>
            /\ toPopup' = <<p>> \o amplitudes
         \/ phase = "closed" /\ UNCHANGED <<phase, toPopup, toHost, hurried>>
      /\ UNCHANGED <<popup, shown, displayed, frames, newest, clicks>>
  BY <1>0, <1>1, <1>2, <1>3, <1>4 DEF NewResult, ReplacePopup, popupVars
<1>6. WindowTypes /\ NothingAhead /\ MissingComes /\ SelectionComes /\ EditsCome
  BY DEF WindowInv
<1>7. /\ r \in Results /\ r = results + 1 /\ results \in Nat
      /\ 1..results' = 1..results \cup {r} /\ r \notin 1..results /\ Amplitudes \in Nat
  BY <1>0, <1>5, <1>6, WindowsAssumption DEF WindowTypes, Results, Amplitudes
<1>8. tabs \in TabLists(Results) /\ InTabs(tabs) = InTabs(host) \cup {r}
  <2>1. host \in TabLists(Results)
    BY <1>6 DEF WindowTypes
  <2>2. Add(host, r) \in TabLists(Results) /\ InTabs(Add(host, r)) = InTabs(host) \cup {r}
    BY <1>7, <2>1, AddedTabs
  <2> QED BY <1>1, <2>2, SelectedTabs
<1>9. /\ launched' \subseteq 1..results' /\ launched \subseteq launched'
      /\ withAmplitudes => r \in launched'
  BY <1>5, <1>6, <1>7 DEF NothingAhead
<1>10. /\ kept' \in TabState
       /\ \A q \in Results : kept'[q] # kept[q] => q = r /\ r \in launched'
       /\ r \notin launched' => kept'[r] = 0
  <2>1. kept \in TabState /\ kept[r] = 0
    BY <1>6, <1>7 DEF WindowTypes, NothingAhead
  <2>2. CASE withAmplitudes
    <3>1. kept' = [kept EXCEPT ![r] = Amplitudes]
      BY <1>5, <2>2
    <3> QED BY <1>7, <1>9, <2>1, <2>2, <3>1 DEF TabState
  <2>3. CASE ~withAmplitudes
    <3>1. kept' = kept
      BY <1>5, <2>3
    <3> QED BY <2>1, <3>1
  <2> QED BY <2>2, <2>3
<1>11. newest[r] = 0
  BY <1>6, <1>7 DEF NothingAhead
<1>12. \A v : \A i \in 1..Len(toHost) : toHost[i] \notin OtherSaves(r, v)
  <2>1. ASSUME NEW i \in 1..Len(toHost), toHost[i].type = "result-state"
        PROVE  toHost[i].revision # r
    <3>1. toHost[i].revision <= results
      BY <1>6, <2>1 DEF NothingAhead
    <3> QED BY <1>7, <3>1
  <2> QED BY <2>1 DEF OtherSaves
<1>13. \A v : ~Has(toHost, OtherSaves(r, v))
  BY <1>12 DEF Has
<1>14. /\ toPopup \in Seq(PopupMessage)
       /\ GoodMessages(toPopup, InTabs(popup), results, launched)
       /\ \A i \in 1..Len(toPopup) : r \notin Carries(toPopup[i])
  <2>1. /\ toPopup \in Seq(PopupMessage)
        /\ GoodMessages(toPopup, InTabs(popup), results, launched)
    BY MessagesGood
  <2> QED BY <1>7, <2>1 DEF GoodMessages
<1>15. GoodMessages(toPopup, InTabs(popup), results', launched')
  BY <1>7, <1>9, <1>14 DEF GoodMessages
<1>16. \A q \in Results \ {r} : (q \in InTabs(host') <=> q \in InTabs(host)) /\ kept'[q] = kept[q]
  BY <1>5, <1>8, <1>10
<1>17. \A q \in Results : ~Has(toPopup, Outdated(r, q)) /\ ~Has(toPopup, Outdated(r, 0))
  BY <1>14 DEF Has, Outdated
<1>18. WindowTypes' <=> toPopup' \in Seq(PopupMessage) /\ toHost' \in Seq(HostMessage)
                            /\ phase' \in {"closed", "loading", "open"}
                            /\ (phase' # "open" => popup = NoTabs) /\ hurried' \in BOOLEAN
  <2>1. results' \in 0..MaxResults
    BY <1>5, <1>6, <1>7 DEF WindowTypes, Results
  <2>2. launched' \subseteq Results
    BY <1>5, <1>6, <1>7 DEF WindowTypes
  <2> QED BY <1>5, <1>6, <1>8, <1>10, <2>1, <2>2 DEF WindowTypes, Results
<1>19. /\ InTabs(host') \subseteq 1..results' /\ InTabs(popup') \subseteq 1..results'
       /\ \A q \in Results : q > results' => kept'[q] = 0 /\ newest'[q] = 0
  <2>1. \A q \in Results : q > results' => q # r /\ q > results
    BY <1>5, <1>7 DEF Results
  <2> QED BY <1>5, <1>6, <1>7, <1>8, <1>16, <2>1 DEF NothingAhead
<1>20. toHost' = toHost \/ toHost' = <<>>
  BY <1>5
<1>21. \A i \in 1..Len(toHost') :
            toHost'[i].type = "result-state" => toHost'[i].revision <= results'
  <2>1. CASE toHost' = toHost
    <3>1. \A i \in 1..Len(toHost) :
            toHost[i].type = "result-state" => toHost[i].revision \in Results
                                               /\ toHost[i].revision <= results
      BY <1>6, HostMessages DEF NothingAhead, WindowTypes
    <3>2. \A n \in Results : n <= results => n <= results'
      BY <1>5, <1>7 DEF Results
    <3> QED BY <2>1, <3>1, <3>2
  <2>2. CASE toHost' = <<>>
    <3>1. \A i \in 1..Len(<<>>) : FALSE
      OBVIOUS
    <3> QED BY <2>2, <3>1
  <2> QED BY <1>20, <2>1, <2>2
<1>22. GoodMessages(toPopup, InTabs(popup), results, launched)' => AnnouncedOnce' /\ NothingAhead'
  <2>1. SUFFICES ASSUME GoodMessages(toPopup, InTabs(popup), results, launched)'
                 PROVE  AnnouncedOnce' /\ NothingAhead'
    OBVIOUS
  <2>2. /\ AnnouncedOnce'
        /\ \A i \in 1..Len(toPopup') :
                /\ Carries(toPopup'[i]) \subseteq 1..results'
                /\ toPopup'[i].type = "amplitudes" => toPopup'[i].revision \in launched'
    BY <2>1, MessagesGood
  <2> QED BY <1>9, <1>19, <1>21, <2>2 DEF NothingAhead
<1>23. ASSUME NEW s \in Seq(PopupMessage), GoodMessages(s, InTabs(popup), results', launched')
       PROVE  /\ s \o amplitudes \in Seq(PopupMessage)
              /\ GoodMessages(s \o amplitudes, InTabs(popup), results', launched')
              /\ \A q \in Results : Has(s, Bringing(q)) => Has(s \o amplitudes, Bringing(q))
              /\ Has(s, Announcing) => Has(s \o amplitudes, Announcing)
              /\ \A q, v : Has(s \o amplitudes, Outdated(q, v)) => Has(s, Outdated(q, v))
  <2>1. CASE withAmplitudes
    <3>1. PICK m : m = [type |-> "amplitudes", revision |-> r, state |-> Amplitudes]
      OBVIOUS
    <3>2. m \in PopupMessage
      BY <1>7, <3>1, PopupMessages
    <3>3. m.type = "amplitudes" /\ m.revision = r /\ Carries(m) = {}
      BY <3>1 DEF Carries
    <3>4. amplitudes = <<m>>
      BY <1>2, <2>1, <3>1
    <3>5. Carries(m) \subseteq 1..results' /\ (m.type = "amplitudes" => m.revision \in launched')
      BY <1>9, <2>1, <3>3
    <3>6. m.type = "result" => /\ m.revision \notin InTabs(popup)
                               /\ \A j \in 1..Len(s) : m.revision \notin Carries(s[j])
      BY <3>3
    <3>7. /\ s \o <<m>> \in Seq(PopupMessage)
          /\ GoodMessages(s \o <<m>>, InTabs(popup), results', launched')
          /\ \A S : Has(s \o <<m>>, S) <=> Has(s, S) \/ m \in S
      BY <1>23, <3>2, <3>5, <3>6, MessageAdded
    <3>8. \A q, v : m \notin Outdated(q, v)
      BY <3>3 DEF Outdated
    <3> QED BY <3>4, <3>7, <3>8
  <2>2. CASE ~withAmplitudes
    <3>1. amplitudes = <<>>
      BY <1>2, <2>2
    <3>2. s \o <<>> = s
      OBVIOUS
    <3> QED BY <1>23, <3>1, <3>2
  <2> QED BY <2>1, <2>2
<1>24. CASE /\ phase # "closed" /\ toPopup' = toPopup \o <<news>> \o amplitudes
            /\ UNCHANGED <<phase, toHost, hurried>>
  <2>1. /\ news \in PopupMessage /\ news.type = "result" /\ news.revision = r /\ news.state = 0
        /\ Carries(news) = {r}
    BY <1>3, <1>7, PopupMessages DEF Carries
  <2>2. /\ Carries(news) \subseteq 1..results'
        /\ news.type = "amplitudes" => news.revision \in launched'
    BY <1>7, <2>1
  <2>3. news.type = "result" =>
            /\ news.revision \notin InTabs(popup)
            /\ \A j \in 1..Len(toPopup) : news.revision \notin Carries(toPopup[j])
    BY <1>6, <1>7, <1>14, <2>1 DEF NothingAhead
  <2>4. PICK s : s = toPopup \o <<news>>
    OBVIOUS
  <2>5. /\ s \in Seq(PopupMessage)
        /\ GoodMessages(s, InTabs(popup), results', launched')
        /\ \A S : Has(s, S) <=> Has(toPopup, S) \/ news \in S
    BY <1>14, <1>15, <2>1, <2>2, <2>3, <2>4, MessageAdded
  <2>6. toPopup' = s \o amplitudes
    BY <1>24, <2>4
  <2>7. /\ toPopup' \in Seq(PopupMessage)
        /\ GoodMessages(toPopup', InTabs(popup), results', launched')
        /\ \A q \in Results : Has(s, Bringing(q)) => Has(toPopup', Bringing(q))
        /\ Has(s, Announcing) => Has(toPopup', Announcing)
        /\ \A q, v : Has(toPopup', Outdated(q, v)) => Has(s, Outdated(q, v))
    BY <1>23, <2>5, <2>6
  <2>8. WindowTypes'
    BY <1>6, <1>18, <1>24, <2>7 DEF WindowTypes
  <2>9. AnnouncedOnce' /\ NothingAhead'
    <3>1. GoodMessages(toPopup, InTabs(popup), results, launched)'
      BY <1>5, <2>7
    <3> QED BY <1>22, <3>1
  <2>10. MissingComes'
    <3>1. SUFFICES ASSUME phase = "open", NEW q \in InTabs(host') \ InTabs(popup)
                   PROVE  \/ Has(toPopup', Bringing(q))
                          \/ Has(toHost, Readies)
                          \/ Has(toHost, Closings(q))
      BY <1>5, <1>24 DEF MissingComes, Bringing, Readies, Closings
    <3>2. q \in Results
      BY <1>5, <1>8, TabListParts
    <3>3. CASE q = r
      <4>1. news \in Bringing(q)
        BY <2>1, <3>3 DEF Bringing
      <4> QED BY <2>5, <2>7, <3>2, <4>1
    <3>4. CASE q # r
      BY <1>6, <1>16, <2>5, <2>7, <3>1, <3>2, <3>4 DEF MissingComes
    <3> QED BY <3>3, <3>4
  <2>11. SelectionComes'
    <3>1. news \in Announcing
      BY <2>1 DEF Announcing
    <3>2. Has(toPopup', Announcing)
      BY <2>5, <2>7, <3>1
    <3> QED BY <3>2 DEF SelectionComes, Announcing
  <2>12. EditsCome'
    <3>1. SUFFICES ASSUME ~hurried, NEW q \in Results \ launched',
                          q \in InTabs(host'), ~Has(toHost, Closings(q))
                   PROVE  /\ SaveComes(q)'
                          /\ phase = "open" /\ q \in InTabs(popup) => shown[q] = newest[q]
                          /\ phase = "open" /\ q \notin InTabs(popup) =>
                                /\ kept'[q] = newest[q]
                                /\ ~Has(toHost, OtherSaves(q, newest[q]))
                                /\ ~Has(toPopup', Outdated(q, newest[q]))
      BY <1>5, <1>24 DEF EditsCome, Gone, Closings, OtherSaves, Outdated
    <3>2. CASE q = r
      <4>1. kept'[q] = 0 /\ newest[q] = 0 /\ ~Has(toHost, OtherSaves(q, newest[q]))
        BY <1>10, <1>11, <1>13, <3>1, <3>2
      <4>2. q \notin InTabs(popup)
        BY <1>6, <1>7, <3>2 DEF NothingAhead
      <4>3. news \notin Outdated(q, 0)
        BY <2>1 DEF Outdated, StateIn
      <4>4. ~Has(toPopup', Outdated(q, 0))
        BY <1>17, <2>5, <2>7, <3>2, <4>3
      <4>5. SaveComes(q)'
        BY <1>5, <1>24, <4>1 DEF SaveComes, OtherSaves
      <4> QED BY <4>1, <4>2, <4>4, <4>5
    <3>3. CASE q # r
      <4>1. /\ SaveComes(q)
            /\ phase = "open" /\ q \in InTabs(popup) => shown[q] = newest[q]
            /\ phase = "open" /\ q \notin InTabs(popup) =>
                    /\ kept[q] = newest[q] /\ ~Has(toHost, OtherSaves(q, newest[q]))
                    /\ ~Has(toPopup, Outdated(q, newest[q]))
        BY <1>6, <1>9, <1>16, <3>1, <3>3 DEF EditsCome, Gone
      <4>2. news \notin Outdated(q, newest[q])
        BY <2>1, <3>3 DEF Outdated
      <4>3. kept'[q] = kept[q]
        BY <1>16, <3>3
      <4>4. ~Has(toPopup, Outdated(q, newest[q])) => ~Has(toPopup', Outdated(q, newest[q]))
        BY <2>5, <2>7, <4>2
      <4>5. SaveComes(q)'
        BY <1>5, <1>24, <4>1, <4>3 DEF SaveComes, Saves, OtherSaves
      <4> QED BY <4>1, <4>3, <4>4, <4>5
    <3> QED BY <3>2, <3>3
  <2> QED BY <2>8, <2>9, <2>10, <2>11, <2>12 DEF WindowInv
<1>25. ASSUME phase = "closed", phase' # "open", toHost' = toHost \/ toHost' = <<>>,
              ~hurried' => ~hurried /\ toHost' = toHost
       PROVE  EditsCome'
  <2>1. SUFFICES ASSUME ~hurried, toHost' = toHost, NEW q \in Results \ launched',
                        q \in InTabs(host'), ~Has(toHost, Closings(q))
                 PROVE  SaveComes(q)'
    BY <1>25 DEF EditsCome, Gone, Closings
  <2>2. CASE q = r
    <3>1. kept'[q] = 0 /\ newest[q] = 0 /\ ~Has(toHost, OtherSaves(q, newest[q]))
      BY <1>10, <1>11, <1>13, <2>1, <2>2
    <3> QED BY <1>5, <2>1, <3>1 DEF SaveComes, OtherSaves
  <2>3. CASE q # r
    <3>1. SaveComes(q)
      BY <1>6, <1>9, <1>16, <2>1, <2>3 DEF EditsCome, Gone
    <3>2. kept'[q] = kept[q]
      BY <1>16, <2>3
    <3> QED BY <1>5, <2>1, <3>1, <3>2 DEF SaveComes, Saves, OtherSaves
  <2> QED BY <2>2, <2>3
<1>26. phase' # "open" => MissingComes' /\ SelectionComes'
  BY DEF MissingComes, SelectionComes
<1>27. CASE /\ phase = "closed" /\ phase' = "loading"
            /\ hurried' = (hurried \/ toHost # <<>>) /\ toHost' = <<>>
            /\ toPopup' = <<p>> \o amplitudes
  <2>1. /\ p \in PopupMessage /\ p.type = "results" /\ Carries(p) = InTabs(host')
    BY <1>4, <1>5, <1>6, <1>8, PublishedFacts DEF WindowTypes
  <2>2. Carries(p) \subseteq 1..results' /\ p.type # "amplitudes" /\ p.type # "result"
    BY <1>19, <2>1
  <2>3. /\ <<p>> \in Seq(PopupMessage)
        /\ GoodMessages(<<p>>, InTabs(popup), results', launched')
    <3>1. PICK e : e = <<>>
      OBVIOUS
    <3>2. e \in Seq(PopupMessage) /\ GoodMessages(e, InTabs(popup), results', launched')
      BY <3>1, NoMessages
    <3>3. /\ e \o <<p>> \in Seq(PopupMessage)
          /\ GoodMessages(e \o <<p>>, InTabs(popup), results', launched')
      BY <2>1, <2>2, <3>2, MessageAdded
    <3>4. e \o <<p>> = <<p>>
      BY <3>1
    <3> QED BY <3>3, <3>4
  <2>4. /\ toPopup' \in Seq(PopupMessage)
        /\ GoodMessages(toPopup', InTabs(popup), results', launched')
    BY <1>23, <1>27, <2>3
  <2>5. AnnouncedOnce' /\ NothingAhead'
    <3>1. GoodMessages(toPopup, InTabs(popup), results, launched)'
      BY <1>5, <2>4
    <3> QED BY <1>22, <3>1
  <2>6. WindowTypes'
    <3>1. <<>> \in Seq(HostMessage)
      OBVIOUS
    <3>2. popup = NoTabs /\ hurried \in BOOLEAN
      BY <1>6, <1>27 DEF WindowTypes
    <3>3. hurried' \in BOOLEAN
      BY <1>27, <3>2
    <3> QED BY <1>18, <1>27, <2>4, <3>1, <3>2, <3>3
  <2>7. EditsCome'
    BY <1>25, <1>27
  <2> QED BY <1>26, <1>27, <2>5, <2>6, <2>7 DEF WindowInv
<1>28. CASE phase = "closed" /\ UNCHANGED <<phase, toPopup, toHost, hurried>>
  <2>1. AnnouncedOnce' /\ NothingAhead'
    <3>1. GoodMessages(toPopup, InTabs(popup), results, launched)'
      BY <1>5, <1>15, <1>28
    <3> QED BY <1>22, <3>1
  <2>2. WindowTypes'
    BY <1>6, <1>18, <1>28 DEF WindowTypes
  <2>3. EditsCome'
    BY <1>25, <1>28
  <2> QED BY <1>26, <1>28, <2>1, <2>2, <2>3 DEF WindowInv
<1> QED BY <1>5, <1>24, <1>27, <1>28

-----------------------------------------------------------------------------
(* The windows agree                                                       *)

\* Every step keeps the invariant.
LEMMA WindowStep == WindowInv /\ [Next]_vars => WindowInv'
<1> SUFFICES ASSUME WindowInv, [Next]_vars PROVE WindowInv'
  OBVIOUS
<1>1. CASE UNCHANGED vars
  BY <1>1 DEF vars, popupVars, WindowInv, WindowTypes, NothingAhead, AnnouncedOnce, MissingComes,
              SelectionComes, EditsCome, Gone, SaveComes, Readies, Closings, Selections,
              OtherSelections, Saves, OtherSaves, Bringing, Announcing, Outdated
<1>2. CASE OpenOutput
  BY <1>2, OpenOutputKeeps
<1>3. CASE HostReceive
  BY <1>3, HostReceiveKeeps
<1>4. ASSUME NEW withAmplitudes \in BOOLEAN, NewResult(withAmplitudes) PROVE WindowInv'
  BY <1>4, NewResultKeeps
<1>5. CASE PopupLoaded
  BY <1>5, PopupLoadedKeeps
<1>6. CASE MissMessage
  BY <1>6, MissMessageKeeps
<1>7. CASE ReceiveResults
  BY <1>7, ReceiveResultsKeeps
<1>8. CASE ReceiveResult
  BY <1>8, ReceiveResultKeeps
<1>9. CASE ReceiveAmplitudes
  BY <1>9, ReceiveAmplitudesKeeps
<1>10. CASE Edit
  BY <1>10, EditKeeps
<1>11. ASSUME NEW next \in {"loading", "closed"}, LeavePage(next) PROVE WindowInv'
  BY <1>11, LeavePageKeeps
<1>12. ASSUME NEW r \in Results, Activate(r) PROVE WindowInv'
  BY <1>12, ActivateKeeps
<1>13. ASSUME NEW r \in Results, CloseTab(r) PROVE WindowInv'
  BY <1>13, CloseTabKeeps
<1>14. ASSUME NEW r \in Results, Frame(r) PROVE WindowInv'
  BY <1>14, FrameKeeps
<1> QED
  BY <1>1, <1>2, <1>3, <1>4, <1>5, <1>6, <1>7, <1>8, <1>9, <1>10, <1>11, <1>12, <1>13, <1>14
      DEF Next, HostStep, PopupStep

\* The invariant holds whatever the windows do.
THEOREM WindowInvariant == Spec => []WindowInv
<1>1. Init => WindowInv
  BY WindowsStart
<1>2. WindowInv /\ [Next]_vars => WindowInv'
  BY WindowStep
<1> QED BY <1>1, <1>2, PTL DEF Spec

\* What the windows of the page do is what the windows do: the steps of the
\* viewer leave them alone.
THEOREM PageRunsWindows == OutputPageSpec => Spec
<1>1. OutputPageInit => Init
  BY DEF OutputPageInit
<1>2. [OutputPageNext]_<<vars, viewerVars>> => [Next]_vars
  BY DEF OutputPageNext
<1> QED BY <1>1, <1>2, PTL DEF OutputPageSpec, Spec

\* When no message is under way, nothing is on its way.
LEMMA SettledFacts ==
    ASSUME WindowInv, Settled
    PROVE  /\ phase = "open" /\ \A S : ~Has(toHost, S) /\ ~Has(toPopup, S)
           /\ \A S, T : ~EndsIn(toHost, S, T)
<1>1. \A i \in 1..Len(<<>>) : FALSE
  OBVIOUS
<1> QED BY <1>1 DEF Settled, Has, EndsIn

\* Once every message has arrived, the popup shows every result the input page
\* keeps (output-window.js, output.js).
THEOREM PopupAlwaysShowsAll == Spec => []PopupShowsAll
<1>1. WindowInv => PopupShowsAll
  <2>1. SUFFICES ASSUME WindowInv, Settled PROVE InTabs(host) \subseteq InTabs(popup)
    BY DEF PopupShowsAll
  <2> QED BY <2>1, SettledFacts DEF WindowInv, MissingComes
<1> QED BY <1>1, WindowInvariant, PTL

\* Once every message has arrived, both windows have the same tab selected.
THEOREM SelectionsAlwaysAgree == Spec => []SelectionAgrees
<1>1. WindowInv => SelectionAgrees
  <2>1. SUFFICES ASSUME WindowInv, Settled, popup.active \in InTabs(host)
                 PROVE  host.active = popup.active
    BY DEF SelectionAgrees
  <2>2. popup.active # None
    <3>1. host \in TabLists(Results)
      BY <2>1 DEF WindowInv, WindowTypes
    <3>2. InTabs(host) \subseteq Results
      BY <3>1, TabListParts
    <3> QED BY <2>1, <3>2 DEF Results, None
  <2> QED BY <2>1, <2>2, SettledFacts DEF WindowInv, SelectionComes, Gone
<1> QED BY <1>1, WindowInvariant, PTL

\* Once every message has arrived, the input page keeps what the user did last
\* with each tab.
THEOREM EditsAlwaysPersist == Spec => []EditsPersist
<1>1. WindowInv => EditsPersist
  <2>1. SUFFICES ASSUME WindowInv, Settled, ~hurried, NEW r \in InTabs(host) \ launched
                 PROVE  kept[r] = newest[r]
    BY DEF EditsPersist
  <2>2. r \in Results
    BY <2>1, TabListParts DEF WindowInv, WindowTypes
  <2> QED BY <2>1, <2>2, SettledFacts DEF WindowInv, EditsCome, Gone, SaveComes
<1> QED BY <1>1, WindowInvariant, PTL
-----------------------------------------------------------------------------
(* The viewer and its panel                                                *)

\* A state of the viewer when it has result r, and one at rest.
Parts(a, m, c, l, b, p, y) ==
    [amplitude |-> a, master |-> m, concealed |-> c, limit |-> l, bonds |-> b,
     polyhedra |-> p, playing |-> y]
StateOf(r, v) ==
    /\ v = Parts(v.amplitude, v.master, v.concealed, v.limit, v.bonds, v.polyhedra, v.playing)
    /\ v.amplitude = [mode \in ModesOf(r) |-> v.amplitude[mode]]
    /\ v.bonds \in BOOLEAN /\ v.polyhedra \in BOOLEAN
    /\ Of(r).many => ~v.bonds /\ ~v.polyhedra
AtRest(v) == v.playing = FALSE

ViewerTypes ==
    /\ strip \in TabLists(Shown)
    /\ displaying = strip.active
    /\ StateOf(displaying, view)
    /\ ui = [r \in Shown |-> ui[r]] /\ left = [r \in Shown |-> left[r]]
    /\ \A r \in Shown : ui[r] # NoState => StateOf(r, ui[r]) /\ AtRest(ui[r])
    /\ \A r \in Shown : left[r] # NoState => StateOf(r, left[r])

\* A result in the background is saved as the user left it, and one without a
\* tab is forgotten.
BackgroundSaved ==
    \A r \in Shown :
        /\ r \notin InTabs(strip) => ui[r] = NoState /\ left[r] = NoState
        /\ r # displaying =>
                IF left[r] = NoState THEN ui[r] = NoState
                ELSE ui[r] # NoState /\ ui[r] = Captured(left[r])

\* The viewer shows the displayed result as the user left it.
ForegroundKept ==
    displaying # None =>
        left[displaying] # NoState /\ Captured(view) = Captured(left[displaying])

\* The first frame puts back what is shown anyway, unless it is known to come
\* too late.
FrameHarmless ==
    displaying \in awaiting \ hasty /\ displaying # None /\ ui[displaying] # NoState =>
        ui[displaying] = Captured(view)

MemoryInv == ViewerTypes /\ BackgroundSaved /\ ForegroundKept /\ FrameHarmless

\* The sliders of the panel for result r in state v.
Listed(r, v) == {Of(r).modes[i] : i \in {j \in DOMAIN Of(r).modes : j <= v.limit}}
\* The boxes of the sites, and those above them, when some sites are hidden.
Boxes(r, v) == [c \in ChildSites(r) |-> c \notin v.concealed]

\* The panel p has what it should for result r in state v.
BoxesShow(r, v, p) ==
    /\ p.boxes = Boxes(r, v)
    /\ p.parents = [q \in Parents(r) |-> Ticked(p.boxes, ChildrenOf(r, q))]
    /\ p.elements = [e \in ElementsOf(r) |-> Ticked(p.boxes, SitesOf(r, e))]
SlidersShow(r, v, p) ==
    /\ p.master = v.master
    /\ \A mode \in DOMAIN p.sliders :
            /\ p.sliders[mode].text = v.amplitude[mode] * v.master
            /\ mode \in DOMAIN Of(r).weight =>
                    p.sliders[mode] = [min |-> occupancyRanges(r, v.amplitude)[mode][1],
                                       max |-> occupancyRanges(r, v.amplitude)[mode][2],
                                       text |-> v.amplitude[mode] * v.master]
PanelFields(p) ==
    p = [master |-> p.master, sliders |-> p.sliders, boxes |-> p.boxes, parents |-> p.parents,
         elements |-> p.elements]

PanelInv ==
    /\ PanelFields(panel)
    /\ BoxesShow(displaying, view, panel)
    /\ DOMAIN panel.sliders = Listed(displaying, view)
    /\ stale \/ SlidersShow(displaying, view, panel)

\* The parts of a state, and one of them replaced.
LEMMA PartsFacts ==
    ASSUME NEW a, NEW m, NEW c, NEW l, NEW b, NEW p, NEW y
    PROVE  LET v == Parts(a, m, c, l, b, p, y) IN
           /\ v.amplitude = a /\ v.master = m /\ v.concealed = c /\ v.limit = l
           /\ v.bonds = b /\ v.polyhedra = p /\ v.playing = y
           /\ \A x : [v EXCEPT !.amplitude = x] = Parts(x, m, c, l, b, p, y)
           /\ \A x : [v EXCEPT !.concealed = x] = Parts(a, m, x, l, b, p, y)
           /\ \A x : [v EXCEPT !.playing = x] = Parts(a, m, c, l, b, p, x)
           /\ \A x : [v EXCEPT !.limit = x] = Parts(a, m, c, x, b, p, y)
           /\ \A x : [v EXCEPT !.bonds = x] = Parts(a, m, c, l, x, p, y)
           /\ \A x : [v EXCEPT !.polyhedra = x] = Parts(a, m, c, l, b, x, y)
           /\ \A x : [v EXCEPT !.master = x] = Parts(a, x, c, l, b, p, y)
           /\ v # NoState
<1> DEFINE v == Parts(a, m, c, l, b, p, y)
<1>1. /\ v.amplitude = a /\ v.master = m /\ v.concealed = c /\ v.limit = l
      /\ v.bonds = b /\ v.polyhedra = p /\ v.playing = y
  BY DEF Parts
<1>2. \A x : [v EXCEPT !.amplitude = x] = Parts(x, m, c, l, b, p, y)
  BY DEF Parts
<1>3. \A x : [v EXCEPT !.concealed = x] = Parts(a, m, x, l, b, p, y)
  BY DEF Parts
<1>4. \A x : [v EXCEPT !.playing = x] = Parts(a, m, c, l, b, p, x)
  BY DEF Parts
<1>5. \A x : [v EXCEPT !.limit = x] = Parts(a, m, c, x, b, p, y)
  BY DEF Parts
<1>6. \A x : [v EXCEPT !.bonds = x] = Parts(a, m, c, l, x, p, y)
  BY DEF Parts
<1>7. \A x : [v EXCEPT !.polyhedra = x] = Parts(a, m, c, l, b, x, y)
  BY DEF Parts
<1>8. \A x : [v EXCEPT !.master = x] = Parts(a, x, c, l, b, p, y)
  BY DEF Parts
<1>9. v # NoState
  <2>1. "amplitude" \in DOMAIN v
    BY DEF Parts
  <2>2. DOMAIN NoState = {}
    BY DEF NoState
  <2> QED BY <2>1, <2>2
<1> HIDE DEF v
<1> QED BY <1>1, <1>2, <1>3, <1>4, <1>5, <1>6, <1>7, <1>8, <1>9 DEF v

\* A record with such parts is a state.
LEMMA StateMade ==
    ASSUME NEW r, NEW a, NEW m, NEW c, NEW l, NEW b \in BOOLEAN, NEW p \in BOOLEAN, NEW y,
           a = [mode \in ModesOf(r) |-> a[mode]], Of(r).many => ~b /\ ~p
    PROVE  StateOf(r, Parts(a, m, c, l, b, p, y))
BY PartsFacts DEF StateOf

\* A state that is saved is a state at rest, and saving it again does nothing.
LEMMA CapturedState ==
    ASSUME NEW r, NEW v, StateOf(r, v)
    PROVE  /\ Captured(v) = Parts(v.amplitude, v.master, v.concealed, v.limit, v.bonds,
                                  v.polyhedra, FALSE)
           /\ StateOf(r, Captured(v)) /\ AtRest(Captured(v)) /\ Captured(v) # NoState
           /\ v # NoState /\ (AtRest(v) => Captured(v) = v)
<1>1. v = Parts(v.amplitude, v.master, v.concealed, v.limit, v.bonds, v.polyhedra, v.playing)
      /\ v.amplitude = [mode \in ModesOf(r) |-> v.amplitude[mode]]
      /\ v.bonds \in BOOLEAN /\ v.polyhedra \in BOOLEAN
      /\ (Of(r).many => ~v.bonds /\ ~v.polyhedra)
  BY DEF StateOf
<1>2. Captured(v)
      = Parts(v.amplitude, v.master, v.concealed, v.limit, v.bonds, v.polyhedra, FALSE)
  <2>1. PICK f : f = FALSE
    OBVIOUS
  <2>2. [v EXCEPT !.playing = f] =
            Parts(v.amplitude, v.master, v.concealed, v.limit, v.bonds, v.polyhedra, f)
    BY <1>1, PartsFacts
  <2> QED BY <2>1, <2>2 DEF Captured
<1>3. StateOf(r, Captured(v))
  <2>1. PICK f : f = FALSE
    OBVIOUS
  <2>2. StateOf(r, Parts(v.amplitude, v.master, v.concealed, v.limit, v.bonds, v.polyhedra, f))
    BY <1>1, StateMade
  <2> QED BY <1>2, <2>1, <2>2
<1>4. AtRest(Captured(v)) /\ Captured(v) # NoState
  <2>1. PICK f : f = FALSE
    OBVIOUS
  <2>2. Captured(v)
        = Parts(v.amplitude, v.master, v.concealed, v.limit, v.bonds, v.polyhedra, f)
    BY <1>2, <2>1
  <2> QED BY <2>1, <2>2, PartsFacts DEF AtRest
<1>5. v # NoState
  BY <1>1, PartsFacts
<1>6. AtRest(v) => Captured(v) = v
  BY <1>1, <1>2 DEF AtRest
<1> QED BY <1>2, <1>3, <1>4, <1>5, <1>6

\* Other amplitudes of the same modes.
LEMMA AmplitudesChanged ==
    ASSUME NEW r, NEW v, StateOf(r, v), NEW a, a = [mode \in ModesOf(r) |-> a[mode]]
    PROVE  /\ StateOf(r, [v EXCEPT !.amplitude = a])
           /\ [v EXCEPT !.amplitude = a].playing = v.playing
           /\ Captured([v EXCEPT !.amplitude = a]) = [Captured(v) EXCEPT !.amplitude = a]
<1>1. v = Parts(v.amplitude, v.master, v.concealed, v.limit, v.bonds, v.polyhedra, v.playing)
      /\ v.bonds \in BOOLEAN /\ v.polyhedra \in BOOLEAN
      /\ (Of(r).many => ~v.bonds /\ ~v.polyhedra)
  BY DEF StateOf
<1>2. PICK w : w = [v EXCEPT !.amplitude = a]
  OBVIOUS
<1>3. w = Parts(a, v.master, v.concealed, v.limit, v.bonds, v.polyhedra, v.playing)
  BY <1>1, <1>2, PartsFacts
<1>4. StateOf(r, w)
  BY <1>1, <1>3, StateMade
<1>5. PICK f : f = FALSE
  OBVIOUS
<1>6. Captured(w) = Parts(a, v.master, v.concealed, v.limit, v.bonds, v.polyhedra, f)
  <2>1. Captured(w)
        = Parts(w.amplitude, w.master, w.concealed, w.limit, w.bonds, w.polyhedra, f)
    BY <1>4, <1>5, CapturedState
  <2>2. /\ w.amplitude = a /\ w.master = v.master /\ w.concealed = v.concealed /\ w.limit = v.limit
        /\ w.bonds = v.bonds /\ w.polyhedra = v.polyhedra
    BY <1>3, PartsFacts
  <2> QED BY <2>1, <2>2
<1>7. [Captured(v) EXCEPT !.amplitude = a]
            = Parts(a, v.master, v.concealed, v.limit, v.bonds, v.polyhedra, f)
  <2>1. Captured(v)
        = Parts(v.amplitude, v.master, v.concealed, v.limit, v.bonds, v.polyhedra, f)
    BY <1>5, CapturedState
  <2> QED BY <2>1, PartsFacts
<1> QED BY <1>2, <1>3, <1>4, <1>6, <1>7, PartsFacts

\* What a state is restored from is what comes out: it holds the modes of its
\* own result, and no drawing of too many atoms.
LEMMA RestoredState ==
    ASSUME NEW r, NEW v, NEW s, StateOf(r, s)
    PROVE  Restored(r, v, s) = s
<1>1. s = Parts(s.amplitude, s.master, s.concealed, s.limit, s.bonds, s.polyhedra, s.playing)
      /\ s.amplitude = [mode \in ModesOf(r) |-> s.amplitude[mode]]
      /\ s.bonds \in BOOLEAN /\ s.polyhedra \in BOOLEAN
      /\ (Of(r).many => ~s.bonds /\ ~s.polyhedra)
  BY DEF StateOf
<1>2. DOMAIN s.amplitude = ModesOf(r)
  BY <1>1
<1>3. [mode \in ModesOf(r) |-> IF mode \in DOMAIN s.amplitude THEN s.amplitude[mode]
                               ELSE v.amplitude[mode]] = s.amplitude
  BY <1>1, <1>2
<1>4. (~Of(r).many /\ s.bonds) = s.bonds /\ (~Of(r).many /\ s.polyhedra) = s.polyhedra
  BY <1>1
<1>5. Restored(r, v, s) = [s EXCEPT !.amplitude = s.amplitude, !.bonds = s.bonds,
                                    !.polyhedra = s.polyhedra]
  BY <1>3, <1>4 DEF Restored
<1>6. [s EXCEPT !.amplitude = s.amplitude] = s
  BY <1>1, PartsFacts
<1>7. [s EXCEPT !.bonds = s.bonds] = s
  BY <1>1, PartsFacts
<1>8. [s EXCEPT !.polyhedra = s.polyhedra] = s
  BY <1>1, PartsFacts
<1> QED BY <1>5, <1>6, <1>7, <1>8

\* Amplitudes that are set are those of the same modes.
LEMMA SetModes ==
    ASSUME NEW r, NEW a, a = [mode \in ModesOf(r) |-> a[mode]], NEW list
    PROVE  Set(a, list) = [mode \in ModesOf(r) |-> Set(a, list)[mode]]
<1>1. DOMAIN a = ModesOf(r)
  OBVIOUS
<1>2. PICK f : f = Set(a, list)
  OBVIOUS
<1>3. DOMAIN f = ModesOf(r) /\ f = [mode \in DOMAIN f |-> f[mode]]
  BY <1>1, <1>2 DEF Set
<1> QED BY <1>2, <1>3

\* What the viewer is given for a new result.
LEMMA FreshState ==
    ASSUME NEW r
    PROVE  StateOf(r, Fresh(r))
<1>1. PICK a : a = [mode \in ModesOf(r) |-> 0]
  OBVIOUS
<1>2. a = [mode \in ModesOf(r) |-> a[mode]]
  BY <1>1
<1>3. PICK b \in BOOLEAN : b = ~Of(r).many
  OBVIOUS
<1>4. Fresh(r) = Parts(a, MASTER, {}, BATCH, b, b, FALSE)
  BY <1>1, <1>3 DEF Fresh, Parts
<1> QED BY <1>2, <1>3, <1>4, StateMade

\* Every result with a tab is saved as it was left, when saved are the states
\* and seen what the user last saw.
AllSaved(tabs, saved, seen) ==
    /\ saved = [r \in Shown |-> saved[r]] /\ seen = [r \in Shown |-> seen[r]]
    /\ \A r \in Shown :
        /\ saved[r] # NoState => StateOf(r, saved[r]) /\ AtRest(saved[r])
        /\ seen[r] # NoState => StateOf(r, seen[r])
        /\ r \notin InTabs(tabs) => saved[r] = NoState /\ seen[r] = NoState
        /\ IF seen[r] = NoState THEN saved[r] = NoState ELSE saved[r] = Captured(seen[r])

\* The displayed result has a tab.
LEMMA DisplayedTab ==
    ASSUME ViewerTypes
    PROVE  /\ displaying # None => displaying \in InTabs(strip) /\ displaying \in Shown
           /\ InTabs(strip) \subseteq Shown /\ None \notin Shown
<1>1. strip \in TabLists(Shown) /\ displaying = strip.active
  BY DEF ViewerTypes
<1>2. InTabs(strip) \subseteq Shown /\ strip.active \in InTabs(strip) \cup {None}
  BY <1>1, TabListParts
<1>3. None \notin Shown
  BY ViewerAssumption
<1> QED BY <1>1, <1>2, <1>3

\* saveActive() with the viewer's state saves everything.
LEMMA SavedAll ==
    ASSUME MemoryInv
    PROVE  AllSaved(strip, saveActive(displaying, view), left)
<1> DEFINE saved == saveActive(displaying, view)
<1>1. ViewerTypes /\ BackgroundSaved /\ ForegroundKept
  BY DEF MemoryInv
<1>2. /\ displaying # None => displaying \in InTabs(strip) /\ displaying \in Shown
      /\ InTabs(strip) \subseteq Shown /\ None \notin Shown
  BY <1>1, DisplayedTab
<1>3. /\ ui = [r \in Shown |-> ui[r]] /\ left = [r \in Shown |-> left[r]]
      /\ \A r \in Shown : ui[r] # NoState => StateOf(r, ui[r]) /\ AtRest(ui[r])
      /\ \A r \in Shown : left[r] # NoState => StateOf(r, left[r])
      /\ StateOf(displaying, view)
  BY <1>1 DEF ViewerTypes
<1>4. CASE displaying = None
  <2>1. saved = ui
    BY <1>2, <1>4 DEF saveActive
  <2>2. \A r \in Shown : /\ r # displaying
                         /\ r \notin InTabs(strip) => ui[r] = NoState /\ left[r] = NoState
                         /\ IF left[r] = NoState THEN ui[r] = NoState
                            ELSE ui[r] = Captured(left[r])
    BY <1>1, <1>2, <1>4 DEF BackgroundSaved
  <2> QED BY <1>3, <2>1, <2>2 DEF AllSaved
<1>5. CASE displaying # None
  <2>1. saved = [ui EXCEPT ![displaying] = Captured(view)]
    BY <1>2, <1>5 DEF saveActive
  <2>2. /\ saved = [r \in Shown |-> saved[r]] /\ saved[displaying] = Captured(view)
        /\ \A r \in Shown : r # displaying => saved[r] = ui[r]
    BY <1>2, <1>3, <1>5, <2>1
  <2> HIDE DEF saved
  <2>3. /\ StateOf(displaying, Captured(view)) /\ AtRest(Captured(view))
        /\ Captured(view) # NoState
    BY <1>3, CapturedState
  <2>4. left[displaying] # NoState /\ Captured(view) = Captured(left[displaying])
    BY <1>1, <1>5 DEF ForegroundKept
  <2>5. \A r \in Shown : r # displaying =>
            /\ r \notin InTabs(strip) => ui[r] = NoState /\ left[r] = NoState
            /\ IF left[r] = NoState THEN ui[r] = NoState ELSE ui[r] = Captured(left[r])
    BY <1>1 DEF BackgroundSaved
  <2>6. ASSUME NEW r \in Shown
        PROVE  /\ saved[r] # NoState => StateOf(r, saved[r]) /\ AtRest(saved[r])
               /\ left[r] # NoState => StateOf(r, left[r])
               /\ r \notin InTabs(strip) => saved[r] = NoState /\ left[r] = NoState
               /\ IF left[r] = NoState THEN saved[r] = NoState
                  ELSE saved[r] = Captured(left[r])
    <3>1. CASE r = displaying
      BY <1>2, <1>3, <1>5, <2>2, <2>3, <2>4, <3>1
    <3>2. CASE r # displaying
      BY <1>3, <2>2, <2>5, <3>2
    <3> QED BY <3>1, <3>2
  <2>7. AllSaved(strip, saved, left)
    BY <1>3, <2>2, <2>6 DEF AllSaved
  <2> QED BY <2>7 DEF saved
<1> QED BY <1>4, <1>5

\* displayActive() of the selected tab, when every result is saved.
LEMMA DisplayActiveKeeps ==
    ASSUME NEW r, NEW saved, NEW list, NEW seen,
           strip' \in TabLists(Shown), r = strip'.active, AllSaved(strip', saved, seen),
           ui' = saved, displayActive(r, saved, list, seen)
    PROVE  MemoryInv'
<1>1. /\ saved = [q \in Shown |-> saved[q]] /\ seen = [q \in Shown |-> seen[q]]
      /\ \A q \in Shown :
            /\ saved[q] # NoState => StateOf(q, saved[q]) /\ AtRest(saved[q])
            /\ seen[q] # NoState => StateOf(q, seen[q])
            /\ q \notin InTabs(strip') => saved[q] = NoState /\ seen[q] = NoState
            /\ IF seen[q] = NoState THEN saved[q] = NoState ELSE saved[q] = Captured(seen[q])
  BY DEF AllSaved
<1>2. (r # None => r \in InTabs(strip') /\ r \in Shown) /\ None \notin Shown
  <2>1. InTabs(strip') \subseteq Shown /\ strip'.active \in InTabs(strip') \cup {None}
    BY TabListParts
  <2>2. None \notin Shown
    BY ViewerAssumption
  <2> QED BY <2>1, <2>2
<1>3. PICK fresh : fresh = Fresh(r)
  OBVIOUS
<1>4. PICK amended :
        amended = [fresh EXCEPT !.amplitude = Set(fresh.amplitude, KnownRows(r, list[r]))]
  OBVIOUS
<1>5. /\ displaying' = r
      /\ view' = IF r = None THEN fresh
                 ELSE IF saved[r] # NoState THEN Restored(r, fresh, saved[r]) ELSE amended
      /\ left' = IF r = None \/ seen[r] # NoState THEN seen ELSE [seen EXCEPT ![r] = view']
  BY <1>3, <1>4 DEF displayActive
<1>6. StateOf(r, fresh) /\ StateOf(r, amended)
  <2>1. StateOf(r, fresh)
    BY <1>3, FreshState
  <2>2. PICK a : a = Set(fresh.amplitude, KnownRows(r, list[r]))
    OBVIOUS
  <2>3. a = [mode \in ModesOf(r) |-> a[mode]]
    BY <2>1, <2>2, SetModes DEF StateOf
  <2>4. StateOf(r, [fresh EXCEPT !.amplitude = a])
    BY <2>1, <2>3, AmplitudesChanged
  <2> QED BY <1>4, <2>1, <2>2, <2>4
<1>7. r # None /\ saved[r] # NoState => view' = saved[r] /\ Captured(view') = saved[r]
  <2>1. SUFFICES ASSUME r # None, saved[r] # NoState
                 PROVE  view' = saved[r] /\ Captured(view') = saved[r]
    OBVIOUS
  <2>2. StateOf(r, saved[r]) /\ AtRest(saved[r])
    BY <1>1, <1>2, <2>1
  <2>3. view' = saved[r]
    BY <1>5, <2>1, <2>2, RestoredState
  <2> QED BY <2>2, <2>3, CapturedState
<1>8. StateOf(r, view')
  BY <1>1, <1>2, <1>5, <1>6, <1>7
<1>9. view' # NoState
  BY <1>8, CapturedState
<1>10. /\ left' = [q \in Shown |-> left'[q]]
       /\ \A q \in Shown : q # r => left'[q] = seen[q]
       /\ r # None => left'[r] = IF seen[r] = NoState THEN view' ELSE seen[r]
  <2>1. CASE r = None \/ seen[r] # NoState
    <3>1. left' = seen
      BY <1>5, <2>1
    <3> QED BY <1>1, <2>1, <3>1
  <2>2. CASE ~(r = None \/ seen[r] # NoState)
    <3>1. left' = [seen EXCEPT ![r] = view']
      BY <1>5, <2>2
    <3> QED BY <1>1, <1>2, <2>2, <3>1
  <2> QED BY <2>1, <2>2
<1>11. ViewerTypes'
  <2>1. ASSUME NEW q \in Shown, left'[q] # NoState PROVE StateOf(q, left'[q])
    <3>1. CASE q = r
      BY <1>1, <1>2, <1>8, <1>10, <2>1, <3>1
    <3>2. CASE q # r
      BY <1>1, <1>10, <2>1, <3>2
    <3> QED BY <3>1, <3>2
  <2>2. \A q \in Shown : ui'[q] # NoState => StateOf(q, ui'[q]) /\ AtRest(ui'[q])
    BY <1>1
  <2>3. ui' = [q \in Shown |-> ui'[q]]
    BY <1>1
  <2> QED BY <1>5, <1>8, <1>10, <2>1, <2>2, <2>3 DEF ViewerTypes, StateOf, AtRest, Of, ModesOf
<1>12. BackgroundSaved'
  <2>1. SUFFICES ASSUME NEW q \in Shown
                 PROVE  /\ q \notin InTabs(strip') => ui'[q] = NoState /\ left'[q] = NoState
                        /\ q # r => IF left'[q] = NoState THEN ui'[q] = NoState
                                    ELSE ui'[q] # NoState /\ ui'[q] = Captured(left'[q])
    BY <1>5 DEF BackgroundSaved, Captured
  <2>2. CASE q = r
    BY <1>1, <1>2, <1>5, <2>2
  <2>3. CASE q # r
    <3>1. left'[q] = seen[q] /\ ui'[q] = saved[q]
      BY <1>10, <2>3
    <3>2. seen[q] # NoState => Captured(seen[q]) # NoState
      BY <1>1, CapturedState
    <3> QED BY <1>1, <3>1, <3>2
  <2> QED BY <2>2, <2>3
<1>13. ForegroundKept'
  <2>1. SUFFICES ASSUME r # None
                 PROVE  left'[r] # NoState /\ Captured(view') = Captured(left'[r])
    BY <1>5 DEF ForegroundKept, Captured
  <2>2. CASE seen[r] = NoState
    BY <1>9, <1>10, <2>1, <2>2
  <2>3. CASE seen[r] # NoState
    <3>1. saved[r] = Captured(seen[r]) /\ StateOf(r, seen[r])
      BY <1>1, <1>2, <2>1, <2>3
    <3>2. saved[r] # NoState
      BY <3>1, CapturedState
    <3> QED BY <1>7, <1>10, <2>1, <2>3, <3>1, <3>2
  <2> QED BY <2>2, <2>3
<1>14. FrameHarmless'
  <2>1. SUFFICES ASSUME r # None, saved[r] # NoState
                 PROVE  saved[r] = Captured(view')
    BY <1>5 DEF FrameHarmless, Captured
  <2> QED BY <1>7, <2>1
<1> QED BY <1>11, <1>12, <1>13, <1>14 DEF MemoryInv

\* What the user or a launch does to the displayed result: the state v it gets
\* is remembered, and is saved unless the first frame is known to come too late.
LEMMA ChangeKeeps ==
    ASSUME MemoryInv, NEW v, StateOf(displaying, v),
           view' = v, strip' = strip, displaying' = displaying, awaiting' = awaiting,
           left' = [left EXCEPT ![displaying] = v],
           ui' = [r \in Shown |-> ui'[r]], \A r \in Shown : r # displaying => ui'[r] = ui[r],
           displaying \in Shown /\ ui'[displaying] # NoState =>
                /\ StateOf(displaying, ui'[displaying]) /\ AtRest(ui'[displaying])
                /\ ui'[displaying] = Captured(v) \/ displaying \notin awaiting \ hasty'
    PROVE  MemoryInv'
<1>1. ViewerTypes /\ BackgroundSaved
  BY DEF MemoryInv
<1>2. /\ displaying # None => displaying \in InTabs(strip) /\ displaying \in Shown
      /\ None \notin Shown
  BY <1>1, DisplayedTab
<1>3. /\ left = [r \in Shown |-> left[r]]
      /\ \A r \in Shown : ui[r] # NoState => StateOf(r, ui[r]) /\ AtRest(ui[r])
      /\ \A r \in Shown : left[r] # NoState => StateOf(r, left[r])
  BY <1>1 DEF ViewerTypes
<1>4. /\ left' = [r \in Shown |-> left'[r]]
      /\ \A r \in Shown : r # displaying => left'[r] = left[r]
      /\ displaying # None => left'[displaying] = v
  BY <1>2, <1>3
<1>5. v # NoState
  BY CapturedState
<1>6. ViewerTypes'
  <2>1. \A r \in Shown : left'[r] # NoState => StateOf(r, left'[r])
    BY <1>2, <1>3, <1>4
  <2>2. \A r \in Shown : ui'[r] # NoState => StateOf(r, ui'[r]) /\ AtRest(ui'[r])
    BY <1>3
  <2> QED BY <1>1, <1>4, <2>1, <2>2 DEF ViewerTypes, StateOf, AtRest, Of, ModesOf
<1>7. BackgroundSaved'
  <2>1. SUFFICES ASSUME NEW r \in Shown
                 PROVE  /\ r \notin InTabs(strip) => ui'[r] = NoState /\ left'[r] = NoState
                        /\ r # displaying => IF left'[r] = NoState THEN ui'[r] = NoState
                                    ELSE ui'[r] # NoState /\ ui'[r] = Captured(left'[r])
    BY DEF BackgroundSaved, Captured
  <2>2. CASE r = displaying
    BY <1>2, <2>2
  <2>3. CASE r # displaying
    BY <1>1, <1>4, <2>3 DEF BackgroundSaved
  <2> QED BY <2>2, <2>3
<1>8. ForegroundKept'
  BY <1>4, <1>5 DEF ForegroundKept, Captured
<1>9. FrameHarmless'
  BY <1>2 DEF FrameHarmless, Captured
<1> QED BY <1>6, <1>7, <1>8, <1>9 DEF MemoryInv

\* A change that saveActive() saves, and one that is not saved.
LEMMA SavedChangeKeeps ==
    ASSUME MemoryInv, NEW v, StateOf(displaying, v),
           view' = v, strip' = strip, displaying' = displaying, awaiting' = awaiting,
           left' = [left EXCEPT ![displaying] = v],
           \/ ui' = saveActive(displaying, v)
           \/ /\ ui' = saveActive(displaying, view) \/ ui' = ui
              /\ displaying \notin awaiting \ hasty'
    PROVE  MemoryInv'
<1>1. ViewerTypes
  BY DEF MemoryInv
<1>2. /\ displaying # None => displaying \in InTabs(strip) /\ displaying \in Shown
      /\ InTabs(strip) \subseteq Shown /\ None \notin Shown
  BY <1>1, DisplayedTab
<1>3. /\ ui = [r \in Shown |-> ui[r]]
      /\ \A r \in Shown : ui[r] # NoState => StateOf(r, ui[r]) /\ AtRest(ui[r])
      /\ StateOf(displaying, view)
  BY <1>1 DEF ViewerTypes
<1>4. ASSUME NEW w, StateOf(displaying, w), ui' = saveActive(displaying, w)
      PROVE  /\ ui' = [r \in Shown |-> ui'[r]]
             /\ \A r \in Shown : r # displaying => ui'[r] = ui[r]
             /\ displaying \in Shown =>
                    /\ ui'[displaying] = Captured(w)
                    /\ StateOf(displaying, ui'[displaying]) /\ AtRest(ui'[displaying])
  <2>1. StateOf(displaying, Captured(w)) /\ AtRest(Captured(w))
    BY <1>4, CapturedState
  <2>2. CASE displaying = None
    <3>1. ui' = ui
      BY <1>2, <1>4, <2>2 DEF saveActive
    <3> QED BY <1>2, <1>3, <2>2, <3>1
  <2>3. CASE displaying # None
    <3>1. ui' = [ui EXCEPT ![displaying] = Captured(w)]
      BY <1>2, <1>4, <2>3 DEF saveActive
    <3> QED BY <1>2, <1>3, <2>1, <2>3, <3>1
  <2> QED BY <2>2, <2>3
<1>5. /\ ui' = [r \in Shown |-> ui'[r]]
      /\ \A r \in Shown : r # displaying => ui'[r] = ui[r]
      /\ displaying \in Shown /\ ui'[displaying] # NoState =>
            /\ StateOf(displaying, ui'[displaying]) /\ AtRest(ui'[displaying])
            /\ ui'[displaying] = Captured(v) \/ displaying \notin awaiting \ hasty'
  <2>1. CASE ui' = saveActive(displaying, v)
    BY <1>4, <2>1
  <2>2. CASE ui' = saveActive(displaying, view) /\ displaying \notin awaiting \ hasty'
    BY <1>3, <1>4, <2>2
  <2>3. CASE ui' = ui /\ displaying \notin awaiting \ hasty'
    BY <1>3, <2>3
  <2> QED BY <2>1, <2>2, <2>3
<1> QED BY <1>5, ChangeKeeps

\* A result that the popup does not have comes.
LEMMA ReceiveTabKeeps ==
    ASSUME MemoryInv, NEW r \in Shown, NEW alone \in BOOLEAN, ReceiveTab(r, alone)
    PROVE  MemoryInv'
<1>1. PICK tabs : tabs = IF alone THEN SelectTab(Add(strip, r), r) ELSE Add(strip, r)
  OBVIOUS
<1>2. /\ r \notin InTabs(strip) /\ strip' = tabs
      /\ ui' = IF alone THEN saveActive(displaying, view) ELSE ui
      /\ IF tabs.active = displaying
         THEN UNCHANGED <<displaying, view, panel, visible, awaiting, left, forced, stale>>
         ELSE displayActive(tabs.active, ui', rows, left)
      /\ hasty' = hasty
  BY <1>1 DEF ReceiveTab
<1>3. ViewerTypes /\ BackgroundSaved /\ ForegroundKept /\ FrameHarmless
  BY DEF MemoryInv
<1>4. /\ displaying # None => displaying \in InTabs(strip) /\ displaying \in Shown
      /\ InTabs(strip) \subseteq Shown /\ None \notin Shown
      /\ strip \in TabLists(Shown) /\ displaying = strip.active
  BY <1>3, DisplayedTab DEF ViewerTypes
<1>5. /\ tabs \in TabLists(Shown) /\ InTabs(tabs) = InTabs(strip) \cup {r}
      /\ alone => tabs.active = r
      /\ ~alone /\ displaying # None => tabs.active = displaying
  <2>1. /\ Add(strip, r) \in TabLists(Shown)
        /\ InTabs(Add(strip, r)) = InTabs(strip) \cup {r}
        /\ strip.active # None => Add(strip, r).active = strip.active
    BY <1>4, AddedTabs
  <2>2. /\ SelectTab(Add(strip, r), r) \in TabLists(Shown)
        /\ InTabs(SelectTab(Add(strip, r), r)) = InTabs(strip) \cup {r}
        /\ SelectTab(Add(strip, r), r).active = r
    BY <2>1, SelectedTabs
  <2> QED BY <1>1, <1>4, <2>1, <2>2
<1>6. CASE tabs.active = displaying
  <2>1. ~alone
    BY <1>2, <1>4, <1>5, <1>6
  <2>2. UNCHANGED <<ui, displaying, view, awaiting, left, hasty>>
    BY <1>2, <1>6, <2>1
  <2>3. ViewerTypes'
    BY <1>2, <1>3, <1>5, <1>6, <2>2 DEF ViewerTypes, StateOf, AtRest, Of, ModesOf
  <2>4. BackgroundSaved'
    BY <1>2, <1>3, <1>5, <2>2 DEF BackgroundSaved, Captured
  <2>5. ForegroundKept' /\ FrameHarmless'
    BY <1>3, <2>2 DEF ForegroundKept, FrameHarmless, Captured
  <2> QED BY <2>3, <2>4, <2>5 DEF MemoryInv
<1>7. CASE tabs.active # displaying
  <2>1. ui' = saveActive(displaying, view)
    BY <1>2, <1>4, <1>5, <1>7 DEF saveActive
  <2>2. AllSaved(strip, ui', left)
    BY <2>1, SavedAll
  <2>3. AllSaved(strip', ui', left)
    BY <1>2, <1>5, <2>2 DEF AllSaved
  <2>4. displayActive(strip'.active, ui', rows, left)
    BY <1>2, <1>7
  <2> QED BY <1>2, <1>5, <2>3, <2>4, DisplayActiveKeeps
<1> QED BY <1>6, <1>7

\* A tab is clicked.
LEMMA ActivateTabKeeps ==
    ASSUME MemoryInv, NEW r \in Shown, ActivateTab(r)
    PROVE  MemoryInv'
<1>1. /\ r \in InTabs(strip) /\ strip' = SelectTab(strip, r)
      /\ ui' = saveActive(displaying, view) /\ displayActive(r, ui', rows, left)
  BY DEF ActivateTab
<1>2. strip \in TabLists(Shown)
  BY DEF MemoryInv, ViewerTypes
<1>3. strip' \in TabLists(Shown) /\ InTabs(strip') = InTabs(strip) /\ strip'.active = r
  BY <1>1, <1>2, SelectedTabs
<1>4. AllSaved(strip', ui', left)
  BY <1>1, <1>3, SavedAll DEF AllSaved
<1> QED BY <1>1, <1>3, <1>4, DisplayActiveKeeps

\* The cross of a tab: what is known of it goes.
LEMMA RemoveTabKeeps ==
    ASSUME MemoryInv, NEW r \in Shown, RemoveTab(r)
    PROVE  MemoryInv'
<1>1. PICK saved : saved = saveActive(displaying, view)
  OBVIOUS
<1>2. PICK seen : seen = [left EXCEPT ![r] = NoState]
  OBVIOUS
<1>3. /\ r \in InTabs(strip) /\ strip' = Close(strip, r)
      /\ ui' = [saved EXCEPT ![r] = NoState] /\ hasty' = hasty \ {r}
      /\ IF strip'.active = displaying
         THEN left' = seen /\ UNCHANGED <<displaying, view, awaiting>>
         ELSE displayActive(strip'.active, ui', rows', seen)
  BY <1>1, <1>2 DEF RemoveTab
<1>4. ViewerTypes /\ ForegroundKept /\ FrameHarmless
  BY DEF MemoryInv
<1>5. /\ displaying # None => displaying \in InTabs(strip) /\ displaying \in Shown
      /\ InTabs(strip) \subseteq Shown /\ None \notin Shown
      /\ strip \in TabLists(Shown) /\ displaying = strip.active
  BY <1>4, DisplayedTab DEF ViewerTypes
<1>6. strip' \in TabLists(Shown) /\ InTabs(strip') = InTabs(strip) \ {r}
  BY <1>3, <1>5, ClosedTabs
<1>7. strip'.active \in InTabs(strip') \cup {None}
  BY <1>6, TabListParts
<1>8. AllSaved(strip, saved, left)
  BY <1>1, SavedAll
<1>9. AllSaved(strip', ui', seen)
  <2>1. saved = [q \in Shown |-> saved[q]] /\ left = [q \in Shown |-> left[q]]
    BY <1>8 DEF AllSaved
  <2>2. /\ ui' = [q \in Shown |-> ui'[q]] /\ seen = [q \in Shown |-> seen[q]]
        /\ ui'[r] = NoState /\ seen[r] = NoState
        /\ \A q \in Shown : q # r => ui'[q] = saved[q] /\ seen[q] = left[q]
    BY <1>2, <1>3, <2>1
  <2> QED BY <1>6, <1>8, <2>2 DEF AllSaved
<1>10. CASE strip'.active = displaying
  <2>1. left' = seen /\ UNCHANGED <<displaying, view, awaiting>>
    BY <1>3, <1>10
  <2>2. /\ ui' = [q \in Shown |-> ui'[q]] /\ left' = [q \in Shown |-> left'[q]]
        /\ \A q \in Shown :
            /\ ui'[q] # NoState => StateOf(q, ui'[q]) /\ AtRest(ui'[q])
            /\ left'[q] # NoState => StateOf(q, left'[q])
            /\ q \notin InTabs(strip') => ui'[q] = NoState /\ left'[q] = NoState
            /\ IF left'[q] = NoState THEN ui'[q] = NoState ELSE ui'[q] = Captured(left'[q])
    BY <1>9, <2>1 DEF AllSaved
  <2>3. ViewerTypes'
    BY <1>4, <1>6, <1>10, <2>1, <2>2 DEF ViewerTypes, StateOf, AtRest, Of, ModesOf
  <2>4. BackgroundSaved'
    <3>1. \A q \in Shown : left'[q] # NoState => Captured(left'[q]) # NoState
      BY <2>2, CapturedState
    <3> QED BY <2>2, <3>1 DEF BackgroundSaved, Captured
  <2>5. displaying # None => displaying # r /\ left'[displaying] = left[displaying]
    <3>1. left = [q \in Shown |-> left[q]]
      BY <1>4 DEF ViewerTypes
    <3> QED BY <1>2, <1>5, <1>6, <1>7, <1>10, <2>1, <3>1
  <2>6. ForegroundKept'
    BY <1>4, <2>1, <2>5 DEF ForegroundKept, Captured
  <2>7. FrameHarmless'
    <3>1. displaying # None => ui'[displaying] = saved[displaying]
      <4>1. saved = [q \in Shown |-> saved[q]]
        BY <1>8 DEF AllSaved
      <4> QED BY <1>3, <1>5, <2>5, <4>1
    <3>2. displaying # None => saved[displaying] = Captured(view)
      <4>1. ui = [q \in Shown |-> ui[q]]
        BY <1>4 DEF ViewerTypes
      <4> QED BY <1>1, <1>5, <4>1 DEF saveActive
    <3> QED BY <2>1, <3>1, <3>2 DEF FrameHarmless, Captured
  <2> QED BY <2>3, <2>4, <2>6, <2>7 DEF MemoryInv
<1>11. CASE strip'.active # displaying
  <2>1. displayActive(strip'.active, ui', rows', seen)
    BY <1>3, <1>11
  <2> QED BY <1>6, <1>9, <2>1, DisplayActiveKeeps
<1> QED BY <1>10, <1>11

\* The frame after displayActive() puts back what is shown anyway, or what the
\* user is known to have lost.
LEMMA FirstFrameKeeps ==
    ASSUME MemoryInv, NEW r \in Shown, FirstFrame(r)
    PROVE  MemoryInv'
<1>1. /\ r \in awaiting /\ awaiting' = awaiting \ {r}
      /\ UNCHANGED <<strip, displaying>>
  BY DEF FirstFrame
<1>2. ViewerTypes /\ BackgroundSaved /\ ForegroundKept /\ FrameHarmless
  BY DEF MemoryInv
<1>3. CASE displaying # r
  <2>1. UNCHANGED <<view, ui, left, hasty>>
    BY <1>3 DEF FirstFrame
  <2>2. ViewerTypes'
    BY <1>1, <1>2, <2>1 DEF ViewerTypes, StateOf, AtRest, Of, ModesOf
  <2>3. BackgroundSaved' /\ ForegroundKept'
    BY <1>1, <1>2, <2>1 DEF BackgroundSaved, ForegroundKept, Captured
  <2>4. FrameHarmless'
    BY <1>1, <1>2, <2>1 DEF FrameHarmless, Captured
  <2> QED BY <2>2, <2>3, <2>4 DEF MemoryInv
<1>4. CASE displaying = r
  <2>1. PICK again : again = IF ui[r] # NoState THEN Restored(r, view, ui[r]) ELSE view
    OBVIOUS
  <2>2. /\ view' = again /\ ui' = saveActive(r, again)
        /\ left' = IF r \in hasty THEN [left EXCEPT ![r] = again] ELSE left
        /\ hasty' = hasty \ {r}
    BY <1>4, <2>1 DEF FirstFrame
  <2>3. r # None /\ r \in InTabs(strip)
    BY <1>2, <1>4, DisplayedTab
  <2>4. /\ ui = [q \in Shown |-> ui[q]] /\ left = [q \in Shown |-> left[q]]
        /\ ui[r] # NoState => StateOf(r, ui[r]) /\ AtRest(ui[r])
        /\ left[r] # NoState => StateOf(r, left[r])
        /\ StateOf(r, view)
    BY <1>2, <1>4 DEF ViewerTypes
  <2>5. again = IF ui[r] # NoState THEN ui[r] ELSE view
    BY <2>1, <2>4, RestoredState
  <2>6. StateOf(r, again)
    BY <2>4, <2>5
  <2>7. ui' = [ui EXCEPT ![r] = Captured(again)]
    BY <2>2, <2>3 DEF saveActive
  <2>8. /\ ui' = [q \in Shown |-> ui'[q]] /\ ui'[r] = Captured(again)
        /\ \A q \in Shown : q # r => ui'[q] = ui[q]
    BY <2>4, <2>7
  <2>9. StateOf(r, Captured(again)) /\ AtRest(Captured(again)) /\ again # NoState
    BY <2>6, CapturedState
  <2>10. left[r] # NoState /\ Captured(view) = Captured(left[r])
    BY <1>2, <1>4, <2>3 DEF ForegroundKept
  <2>11. /\ left' = [q \in Shown |-> left'[q]]
         /\ \A q \in Shown : q # r => left'[q] = left[q]
         /\ left'[r] = IF r \in hasty THEN again ELSE left[r]
    BY <2>2, <2>4
  <2>12. left'[r] # NoState /\ StateOf(r, left'[r]) /\ Captured(again) = Captured(left'[r])
    <3>1. CASE r \in hasty
      BY <2>6, <2>9, <2>11, <3>1
    <3>2. CASE r \notin hasty
      <4>1. left'[r] = left[r] /\ StateOf(r, left[r])
        BY <2>4, <2>10, <2>11, <3>2
      <4>2. CASE ui[r] = NoState
        BY <2>5, <2>10, <4>1, <4>2
      <4>3. CASE ui[r] # NoState
        <5>1. ui[r] = Captured(view)
          BY <1>1, <1>2, <1>4, <2>3, <3>2, <4>3 DEF FrameHarmless
        <5>2. Captured(again) = again
          BY <2>4, <2>5, <2>6, <4>3, CapturedState
        <5> QED BY <2>5, <2>10, <4>1, <4>3, <5>1, <5>2
      <4> QED BY <4>2, <4>3
    <3> QED BY <3>1, <3>2
  <2>13. ViewerTypes'
    <3>1. \A q \in Shown : ui'[q] # NoState => StateOf(q, ui'[q]) /\ AtRest(ui'[q])
      BY <1>2, <2>8, <2>9 DEF ViewerTypes
    <3>2. \A q \in Shown : left'[q] # NoState => StateOf(q, left'[q])
      BY <1>2, <2>11, <2>12 DEF ViewerTypes
    <3> QED BY <1>1, <1>2, <1>4, <2>2, <2>6, <2>8, <2>11, <3>1, <3>2
            DEF ViewerTypes, StateOf, AtRest, Of, ModesOf
  <2>14. BackgroundSaved'
    BY <1>1, <1>2, <1>4, <2>3, <2>8, <2>11 DEF BackgroundSaved, Captured
  <2>15. ForegroundKept'
    BY <1>1, <1>4, <2>2, <2>12 DEF ForegroundKept, Captured
  <2>16. FrameHarmless'
    BY <1>1, <1>4 DEF FrameHarmless
  <2> QED BY <2>13, <2>14, <2>15, <2>16 DEF MemoryInv
<1> QED BY <1>3, <1>4

\* Amplitudes of a launch: in the background, what is saved and what the user
\* is to see change together.
LEMMA ReceiveLaunchKeeps ==
    ASSUME MemoryInv, NEW r \in Shown, NEW list \in Launches, ReceiveLaunch(r, list)
    PROVE  MemoryInv'
<1>1. PICK merged : merged = IF ui[r] = NoState THEN ui
                             ELSE [ui EXCEPT ![r].amplitude = Set(@, list)]
  OBVIOUS
<1>2. PICK given : given = [view EXCEPT !.amplitude = Set(@, KnownRows(r, list))]
  OBVIOUS
<1>3. /\ r \in InTabs(strip)
      /\ IF displaying = r
         THEN /\ view' = given /\ left' = [left EXCEPT ![r] = given]
              /\ IF Fails(r, list)
                 THEN ui' = merged /\ hasty' = hasty \cup ({r} \cap awaiting)
                 ELSE ui' = saveActive(r, given)
         ELSE /\ ui' = merged
              /\ left' = IF ui[r] = NoState THEN left
                         ELSE [left EXCEPT ![r].amplitude = merged[r].amplitude]
              /\ UNCHANGED <<view, hasty>>
      /\ UNCHANGED <<strip, displaying, awaiting>>
  BY <1>1, <1>2 DEF ReceiveLaunch
<1>4. ViewerTypes /\ BackgroundSaved /\ ForegroundKept /\ FrameHarmless
  BY DEF MemoryInv
<1>5. /\ ui = [q \in Shown |-> ui[q]] /\ left = [q \in Shown |-> left[q]]
      /\ ui[r] # NoState => StateOf(r, ui[r]) /\ AtRest(ui[r])
      /\ left[r] # NoState => StateOf(r, left[r])
      /\ StateOf(displaying, view)
  BY <1>4 DEF ViewerTypes
<1>6. PICK a : a = Set(ui[r].amplitude, list)
  OBVIOUS
<1>7. ui[r] # NoState => a = [mode \in ModesOf(r) |-> a[mode]]
  BY <1>5, <1>6, SetModes DEF StateOf
<1>8. /\ merged = [q \in Shown |-> merged[q]]
      /\ \A q \in Shown : q # r => merged[q] = ui[q]
      /\ merged[r] = IF ui[r] = NoState THEN NoState ELSE [ui[r] EXCEPT !.amplitude = a]
  BY <1>1, <1>5, <1>6
<1>9. ui[r] # NoState => /\ StateOf(r, merged[r]) /\ AtRest(merged[r])
                         /\ merged[r].amplitude = a
  <2>1. SUFFICES ASSUME ui[r] # NoState
                 PROVE  StateOf(r, merged[r]) /\ AtRest(merged[r]) /\ merged[r].amplitude = a
    OBVIOUS
  <2>2. merged[r] = [ui[r] EXCEPT !.amplitude = a]
    BY <1>8, <2>1
  <2>3. /\ StateOf(r, [ui[r] EXCEPT !.amplitude = a])
        /\ [ui[r] EXCEPT !.amplitude = a].playing = ui[r].playing
    <3>1. PICK u : u = ui[r]
      OBVIOUS
    <3>2. StateOf(r, u) /\ a = [mode \in ModesOf(r) |-> a[mode]]
      BY <1>5, <1>7, <2>1, <3>1
    <3>3. StateOf(r, [u EXCEPT !.amplitude = a])
      BY <3>2, AmplitudesChanged
    <3>4. [u EXCEPT !.amplitude = a].playing = u.playing
      BY <3>2, PartsFacts DEF StateOf
    <3> QED BY <3>1, <3>3, <3>4
  <2>4. [ui[r] EXCEPT !.amplitude = a].amplitude = a
    BY <1>5, <2>1, PartsFacts DEF StateOf
  <2> QED BY <1>5, <2>1, <2>2, <2>3, <2>4 DEF AtRest
<1>10. CASE displaying = r
  <2>1. PICK b : b = Set(view.amplitude, KnownRows(r, list))
    OBVIOUS
  <2>2. b = [mode \in ModesOf(r) |-> b[mode]]
    BY <1>5, <1>10, <2>1, SetModes DEF StateOf
  <2>3. StateOf(r, [view EXCEPT !.amplitude = b])
    BY <1>5, <1>10, <2>2, AmplitudesChanged
  <2>4. StateOf(displaying, given)
    BY <1>2, <1>10, <2>1, <2>3
  <2>5. CASE Fails(r, list)
    <3>1. /\ view' = given /\ left' = [left EXCEPT ![displaying] = given]
          /\ strip' = strip /\ displaying' = displaying /\ awaiting' = awaiting
          /\ ui' = merged /\ displaying \notin awaiting \ hasty'
      BY <1>3, <1>10, <2>5
    <3>2. /\ ui' = [q \in Shown |-> ui'[q]]
          /\ \A q \in Shown : q # displaying => ui'[q] = ui[q]
      BY <1>8, <1>10, <3>1
    <3>3. displaying \in Shown /\ ui'[displaying] # NoState =>
                /\ StateOf(displaying, ui'[displaying]) /\ AtRest(ui'[displaying])
                /\ ui'[displaying] = Captured(given) \/ displaying \notin awaiting \ hasty'
      BY <1>8, <1>9, <1>10, <3>1
    <3> QED BY <2>4, <3>1, <3>2, <3>3, ChangeKeeps
  <2>6. CASE ~Fails(r, list)
    <3>1. /\ view' = given /\ left' = [left EXCEPT ![displaying] = given]
          /\ strip' = strip /\ displaying' = displaying /\ awaiting' = awaiting
          /\ ui' = saveActive(displaying, given)
      BY <1>3, <1>10, <2>6
    <3> QED BY <2>4, <3>1, SavedChangeKeeps
  <2> QED BY <2>5, <2>6
<1>11. CASE displaying # r
  <2>1. ui' = merged /\ UNCHANGED <<view, hasty, strip, displaying, awaiting>>
    BY <1>3, <1>11
  <2>2. ui[r] = NoState => left' = left
    BY <1>3, <1>11
  <2>3. ui[r] # NoState => left[r] # NoState /\ ui[r] = Captured(left[r])
    BY <1>4, <1>11 DEF BackgroundSaved
  <2>4. ui[r] # NoState => left' = [left EXCEPT ![r] = [left[r] EXCEPT !.amplitude = a]]
    BY <1>3, <1>5, <1>9, <1>11
  <2>5. ui[r] # NoState =>
            /\ StateOf(r, [left[r] EXCEPT !.amplitude = a])
            /\ Captured([left[r] EXCEPT !.amplitude = a])
                    = [Captured(left[r]) EXCEPT !.amplitude = a]
    BY <1>5, <1>7, <2>3, AmplitudesChanged
  <2>6. /\ left' = [q \in Shown |-> left'[q]]
        /\ \A q \in Shown : q # r => left'[q] = left[q]
        /\ left'[r] = IF ui[r] = NoState THEN left[r] ELSE [left[r] EXCEPT !.amplitude = a]
    BY <1>5, <2>2, <2>4
  <2>7. /\ left'[r] # NoState => StateOf(r, left'[r])
        /\ IF left'[r] = NoState THEN ui'[r] = NoState
           ELSE ui'[r] # NoState /\ ui'[r] = Captured(left'[r])
    <3>1. CASE ui[r] = NoState
      <4>1. left'[r] = left[r] /\ ui'[r] = NoState
        BY <1>8, <2>1, <2>6, <3>1
      <4> QED BY <1>4, <1>5, <1>11, <3>1, <4>1 DEF BackgroundSaved
    <3>2. CASE ui[r] # NoState
      <4>1. /\ left'[r] = [left[r] EXCEPT !.amplitude = a]
            /\ ui'[r] = [ui[r] EXCEPT !.amplitude = a]
        BY <1>8, <2>1, <2>6, <3>2
      <4>2. StateOf(r, left'[r]) /\ ui'[r] = Captured(left'[r])
        BY <2>3, <2>5, <3>2, <4>1
      <4>3. left'[r] # NoState /\ ui'[r] # NoState
        BY <4>2, CapturedState
      <4> QED BY <4>2, <4>3
    <3> QED BY <3>1, <3>2
  <2>8. ViewerTypes'
    <3>1. ui' = [q \in Shown |-> ui'[q]]
      BY <1>8, <2>1
    <3>2. \A q \in Shown : ui'[q] # NoState => StateOf(q, ui'[q]) /\ AtRest(ui'[q])
      BY <1>4, <1>8, <1>9, <2>1 DEF ViewerTypes
    <3>3. \A q \in Shown : left'[q] # NoState => StateOf(q, left'[q])
      BY <1>4, <2>6, <2>7 DEF ViewerTypes
    <3> QED BY <1>4, <2>1, <2>6, <3>1, <3>2, <3>3
            DEF ViewerTypes, StateOf, AtRest, Of, ModesOf
  <2>9. BackgroundSaved'
    <3>1. SUFFICES ASSUME NEW q \in Shown
                   PROVE  /\ q \notin InTabs(strip) => ui'[q] = NoState /\ left'[q] = NoState
                          /\ q # displaying => IF left'[q] = NoState THEN ui'[q] = NoState
                                    ELSE ui'[q] # NoState /\ ui'[q] = Captured(left'[q])
      BY <2>1 DEF BackgroundSaved, Captured
    <3>2. CASE q = r
      BY <1>3, <2>7, <3>2
    <3>3. CASE q # r
      <4>1. ui'[q] = ui[q] /\ left'[q] = left[q]
        BY <1>8, <2>1, <2>6, <3>3
      <4> QED BY <1>4, <4>1 DEF BackgroundSaved
    <3> QED BY <3>2, <3>3
  <2>10. displaying # None =>
            ui'[displaying] = ui[displaying] /\ left'[displaying] = left[displaying]
    BY <1>4, <1>8, <1>11, <2>1, <2>6, DisplayedTab
  <2>11. ForegroundKept'
    BY <1>4, <2>1, <2>10 DEF ForegroundKept, Captured
  <2>12. FrameHarmless'
    BY <1>4, <2>1, <2>10 DEF FrameHarmless, Captured
  <2> QED BY <2>8, <2>9, <2>11, <2>12 DEF MemoryInv
<1> QED BY <1>10, <1>11

\* What the user can change of a state.
LEMMA UserChanges ==
    ASSUME NEW r, NEW v, StateOf(r, v)
    PROVE  /\ \A x : /\ StateOf(r, [v EXCEPT !.master = x])
                     /\ StateOf(r, [v EXCEPT !.concealed = x])
                     /\ StateOf(r, [v EXCEPT !.limit = x])
                     /\ StateOf(r, [v EXCEPT !.playing = x])
           /\ \A x \in BOOLEAN : ~Of(r).many => /\ StateOf(r, [v EXCEPT !.bonds = x])
                                                /\ StateOf(r, [v EXCEPT !.polyhedra = x])
<1>1. PICK a, m, c, l, b, p, y :
        /\ v = Parts(a, m, c, l, b, p, y) /\ a = [mode \in ModesOf(r) |-> a[mode]]
        /\ b \in BOOLEAN /\ p \in BOOLEAN /\ (Of(r).many => ~b /\ ~p)
  BY DEF StateOf
<1>2. ASSUME NEW x
      PROVE  /\ StateOf(r, [v EXCEPT !.master = x])
             /\ StateOf(r, [v EXCEPT !.concealed = x])
             /\ StateOf(r, [v EXCEPT !.limit = x])
             /\ StateOf(r, [v EXCEPT !.playing = x])
  <2>1. StateOf(r, [v EXCEPT !.master = x])
    <3>1. [v EXCEPT !.master = x] = Parts(a, x, c, l, b, p, y)
      BY <1>1, PartsFacts
    <3>2. StateOf(r, Parts(a, x, c, l, b, p, y))
      BY <1>1, StateMade
    <3> QED BY <3>1, <3>2
  <2>2. StateOf(r, [v EXCEPT !.concealed = x])
    <3>1. [v EXCEPT !.concealed = x] = Parts(a, m, x, l, b, p, y)
      BY <1>1, PartsFacts
    <3>2. StateOf(r, Parts(a, m, x, l, b, p, y))
      BY <1>1, StateMade
    <3> QED BY <3>1, <3>2
  <2>3. StateOf(r, [v EXCEPT !.limit = x])
    <3>1. [v EXCEPT !.limit = x] = Parts(a, m, c, x, b, p, y)
      BY <1>1, PartsFacts
    <3>2. StateOf(r, Parts(a, m, c, x, b, p, y))
      BY <1>1, StateMade
    <3> QED BY <3>1, <3>2
  <2>4. StateOf(r, [v EXCEPT !.playing = x])
    <3>1. [v EXCEPT !.playing = x] = Parts(a, m, c, l, b, p, x)
      BY <1>1, PartsFacts
    <3>2. StateOf(r, Parts(a, m, c, l, b, p, x))
      BY <1>1, StateMade
    <3> QED BY <3>1, <3>2
  <2> QED BY <2>1, <2>2, <2>3, <2>4
<1>3. ASSUME NEW x \in BOOLEAN, ~Of(r).many
      PROVE  StateOf(r, [v EXCEPT !.bonds = x]) /\ StateOf(r, [v EXCEPT !.polyhedra = x])
  <2>1. StateOf(r, [v EXCEPT !.bonds = x])
    <3>1. [v EXCEPT !.bonds = x] = Parts(a, m, c, l, x, p, y)
      BY <1>1, PartsFacts
    <3>2. StateOf(r, Parts(a, m, c, l, x, p, y))
      BY <1>1, <1>3, StateMade
    <3> QED BY <3>1, <3>2
  <2>2. StateOf(r, [v EXCEPT !.polyhedra = x])
    <3>1. [v EXCEPT !.polyhedra = x] = Parts(a, m, c, l, b, x, y)
      BY <1>1, PartsFacts
    <3>2. StateOf(r, Parts(a, m, c, l, b, x, y))
      BY <1>1, <1>3, StateMade
    <3> QED BY <3>1, <3>2
  <2> QED BY <2>1, <2>2
<1> QED BY <1>2, <1>3

\* What a slider, the master slider and "Reset" do.
LEMMA AdjustKeeps ==
    ASSUME MemoryInv, NEW v, StateOf(displaying, v), Adjust(v)
    PROVE  MemoryInv'
BY SavedChangeKeeps DEF Adjust

\* Sites are shown or hidden: the state before is saved.
LEMMA ToggleKeeps ==
    ASSUME MemoryInv, NEW sites, NEW on, NEW p, Toggle(sites, on, p)
    PROVE  MemoryInv'
<1>1. PICK v : v = [view EXCEPT !.concealed = IF on THEN @ \ sites ELSE @ \cup sites]
  OBVIOUS
<1>2. /\ view' = v /\ strip' = strip /\ displaying' = displaying /\ awaiting' = awaiting
      /\ left' = [left EXCEPT ![displaying] = v] /\ ui' = saveActive(displaying, view)
      /\ displaying \notin awaiting \ hasty'
  BY <1>1 DEF Toggle
<1>3. StateOf(displaying, view)
  BY DEF MemoryInv, ViewerTypes
<1>4. StateOf(displaying, v)
  BY <1>1, <1>3, UserChanges
<1> QED BY <1>2, <1>4, SavedChangeKeeps

\* The other things the user does, and an animation.
LEMMA UserStepKeeps ==
    ASSUME MemoryInv, UserStep
    PROVE  MemoryInv'
<1>1. StateOf(displaying, view)
  BY DEF MemoryInv, ViewerTypes
<1>2. ASSUME NEW mode, NEW effective, MoveSlider(mode, effective) PROVE MemoryInv'
  <2>1. PICK x : Adjust([view EXCEPT !.amplitude[mode] = x])
    BY <1>2 DEF MoveSlider
  <2>2. PICK a : a = [view.amplitude EXCEPT ![mode] = x]
    OBVIOUS
  <2>3. a = [m \in ModesOf(displaying) |-> a[m]]
    BY <1>1, <2>2 DEF StateOf
  <2>4. StateOf(displaying, [view EXCEPT !.amplitude = a])
    BY <1>1, <2>3, AmplitudesChanged
  <2>5. [view EXCEPT !.amplitude[mode] = x] = [view EXCEPT !.amplitude = a]
    BY <2>2
  <2> QED BY <2>1, <2>4, <2>5, AdjustKeeps
<1>3. ASSUME NEW m, MoveMaster(m) PROVE MemoryInv'
  <2>1. PICK v : v = [view EXCEPT !.master = m]
    OBVIOUS
  <2>2. PICK w : w = [v EXCEPT !.playing = FALSE]
    OBVIOUS
  <2>3. w = [view EXCEPT !.master = m, !.playing = FALSE]
    BY <2>1, <2>2
  <2>4. StateOf(displaying, w)
    <3>1. PICK f : f = FALSE
      OBVIOUS
    <3>2. StateOf(displaying, v)
      BY <1>1, <2>1, UserChanges
    <3>3. StateOf(displaying, [v EXCEPT !.playing = f])
      BY <3>2, UserChanges
    <3> QED BY <2>2, <3>1, <3>3
  <2> QED BY <1>3, <2>3, <2>4, AdjustKeeps DEF MoveMaster
<1>4. CASE Reset
  <2>1. PICK a : a = [mode \in DOMAIN view.amplitude |-> 0]
    OBVIOUS
  <2>2. a = [mode \in ModesOf(displaying) |-> a[mode]]
    BY <1>1, <2>1 DEF StateOf
  <2>3. PICK u : u = [view EXCEPT !.amplitude = a]
    OBVIOUS
  <2>4. PICK v : v = [u EXCEPT !.master = MASTER]
    OBVIOUS
  <2>5. PICK w : w = [v EXCEPT !.playing = FALSE]
    OBVIOUS
  <2>6. w = [view EXCEPT !.amplitude = a, !.master = MASTER, !.playing = FALSE]
    BY <2>3, <2>4, <2>5
  <2>7. StateOf(displaying, w)
    <3>1. PICK f : f = FALSE
      OBVIOUS
    <3>2. StateOf(displaying, u)
      BY <1>1, <2>2, <2>3, AmplitudesChanged
    <3>3. StateOf(displaying, v)
      BY <2>4, <3>2, UserChanges
    <3>4. StateOf(displaying, [v EXCEPT !.playing = f])
      BY <3>3, UserChanges
    <3> QED BY <2>5, <3>1, <3>4
  <2>8. Adjust([view EXCEPT !.amplitude = a, !.master = MASTER, !.playing = FALSE])
    BY <1>4, <2>1 DEF Reset
  <2> QED BY <2>6, <2>7, <2>8, AdjustKeeps
<1>5. CASE Animate
  <2>1. /\ view' = [view EXCEPT !.playing = ~@] /\ strip' = strip /\ displaying' = displaying
        /\ awaiting' = awaiting /\ left' = [left EXCEPT ![displaying] = view']
        /\ ui' = saveActive(displaying, view')
    BY <1>5 DEF Animate
  <2>2. PICK x : x = ~view.playing
    OBVIOUS
  <2>3. PICK v : v = [view EXCEPT !.playing = x]
    OBVIOUS
  <2>4. view' = v
    BY <2>1, <2>2, <2>3
  <2>5. StateOf(displaying, v)
    BY <1>1, <2>3, UserChanges
  <2> QED BY <2>1, <2>4, <2>5, SavedChangeKeeps
<1>6. ASSUME NEW m, AnimationStep(m) PROVE MemoryInv'
  <2>1. PICK v : v = [view EXCEPT !.master = m]
    OBVIOUS
  <2>2. /\ view' = v /\ strip' = strip /\ displaying' = displaying
        /\ awaiting' = awaiting /\ left' = [left EXCEPT ![displaying] = v]
        /\ ui' = ui /\ displaying \notin awaiting \ hasty'
    BY <1>6, <2>1 DEF AnimationStep
  <2>3. StateOf(displaying, v)
    BY <1>1, <2>1, UserChanges
  <2> QED BY <2>2, <2>3, SavedChangeKeeps
<1>7. CASE LoadMore
  <2>1. PICK v :
            v = [view EXCEPT !.limit = Min({Len(Of(displaying).modes), view.limit + BATCH})]
    OBVIOUS
  <2>2. /\ view' = v /\ strip' = strip /\ displaying' = displaying
        /\ awaiting' = awaiting /\ left' = [left EXCEPT ![displaying] = v]
        /\ ui' = saveActive(displaying, v)
    BY <1>7, <2>1 DEF LoadMore
  <2>3. StateOf(displaying, v)
    BY <1>1, <2>1, UserChanges
  <2> QED BY <2>2, <2>3, SavedChangeKeeps
<1>8. ASSUME NEW v, SwitchDrawing(v), ~Of(displaying).many => StateOf(displaying, v)
      PROVE  MemoryInv'
  <2>1. /\ view' = v /\ strip' = strip /\ displaying' = displaying
        /\ awaiting' = awaiting /\ left' = [left EXCEPT ![displaying] = v]
        /\ ui' = saveActive(displaying, v) /\ ~Of(displaying).many
    BY <1>8 DEF SwitchDrawing
  <2> QED BY <1>8, <2>1, SavedChangeKeeps
<1>9. CASE SwitchDrawing([view EXCEPT !.bonds = ~@])
  <2>1. PICK x \in BOOLEAN : x = ~view.bonds
    OBVIOUS
  <2>2. PICK v : v = [view EXCEPT !.bonds = x]
    OBVIOUS
  <2>3. ~Of(displaying).many => StateOf(displaying, v)
    BY <1>1, <2>2, UserChanges
  <2>4. SwitchDrawing(v)
    BY <1>9, <2>1, <2>2
  <2> QED BY <1>8, <2>3, <2>4
<1>10. CASE SwitchDrawing([view EXCEPT !.polyhedra = ~@])
  <2>1. PICK x \in BOOLEAN : x = ~view.polyhedra
    OBVIOUS
  <2>2. PICK v : v = [view EXCEPT !.polyhedra = x]
    OBVIOUS
  <2>3. ~Of(displaying).many => StateOf(displaying, v)
    BY <1>1, <2>2, UserChanges
  <2>4. SwitchDrawing(v)
    BY <1>10, <2>1, <2>2
  <2> QED BY <1>8, <2>3, <2>4
<1>11. ASSUME NEW c, ToggleSite(c) PROVE MemoryInv'
  BY <1>11, ToggleKeeps DEF ToggleSite
<1>12. ASSUME NEW parent, ToggleParent(parent) PROVE MemoryInv'
  BY <1>12, ToggleKeeps DEF ToggleParent
<1>13. ASSUME NEW element, ToggleElement(element) PROVE MemoryInv'
  BY <1>13, ToggleKeeps DEF ToggleElement
<1> QED
  BY <1>2, <1>3, <1>4, <1>5, <1>6, <1>7, <1>9, <1>10, <1>11, <1>12, <1>13 DEF UserStep

\* Nothing is displayed at first.
LEMMA MemoryStart == ViewerInit => MemoryInv
<1> SUFFICES ASSUME ViewerInit PROVE MemoryInv
  OBVIOUS
<1>1. /\ strip = NoTabs /\ displaying = None /\ view = Fresh(None)
      /\ ui = [r \in Shown |-> NoState] /\ left = [r \in Shown |-> NoState]
  BY DEF ViewerInit
<1>2. ViewerTypes
  BY <1>1, NoTabsFacts, FreshState DEF ViewerTypes
<1>3. BackgroundSaved /\ ForegroundKept /\ FrameHarmless
  BY <1>1 DEF BackgroundSaved, ForegroundKept, FrameHarmless
<1> QED BY <1>2, <1>3 DEF MemoryInv

\* Every step keeps what is remembered.
LEMMA MemoryStep == MemoryInv /\ [OutputPageNext]_<<vars, viewerVars>> => MemoryInv'
<1> SUFFICES ASSUME MemoryInv, [OutputPageNext]_<<vars, viewerVars>> PROVE MemoryInv'
  OBVIOUS
<1>1. CASE UNCHANGED viewerVars
  BY <1>1 DEF viewerVars, MemoryInv, ViewerTypes, BackgroundSaved, ForegroundKept,
              FrameHarmless,
              StateOf, AtRest, Of, ModesOf, Captured
<1>2. ASSUME NEW r \in Shown, NEW alone \in BOOLEAN, ReceiveTab(r, alone) PROVE MemoryInv'
  BY <1>2, ReceiveTabKeeps
<1>3. ASSUME NEW r \in Shown, ActivateTab(r) PROVE MemoryInv'
  BY <1>3, ActivateTabKeeps
<1>4. ASSUME NEW r \in Shown, RemoveTab(r) PROVE MemoryInv'
  BY <1>4, RemoveTabKeeps
<1>5. ASSUME NEW r \in Shown, FirstFrame(r) PROVE MemoryInv'
  BY <1>5, FirstFrameKeeps
<1>6. ASSUME NEW r \in Shown, NEW list \in Launches, ReceiveLaunch(r, list) PROVE MemoryInv'
  BY <1>6, ReceiveLaunchKeeps
<1>7. CASE UserStep
  BY <1>7, UserStepKeeps
<1> QED BY <1>1, <1>2, <1>3, <1>4, <1>5, <1>6, <1>7 DEF OutputPageNext, ViewerNext, TabStep

\* What the popup remembers of its tabs is in order whatever happens.
THEOREM MemoryInvariant == OutputPageSpec => []MemoryInv
<1>1. OutputPageInit => MemoryInv
  BY MemoryStart DEF OutputPageInit
<1>2. MemoryInv /\ [OutputPageNext]_<<vars, viewerVars>> => MemoryInv'
  BY MemoryStep
<1> QED BY <1>1, <1>2, PTL DEF OutputPageSpec

\* A tab that is displayed again shows what the user left it with (output.js,
\* captureState() and restoreState() of mode3d.js).
THEOREM ViewAlwaysSurvives == OutputPageSpec => []ViewSurvives
<1>1. MemoryInv => ViewSurvives
  BY DEF MemoryInv, ForegroundKept, ViewSurvives
<1> QED BY <1>1, MemoryInvariant, PTL

-----------------------------------------------------------------------------
(* The panel shows the view                                                *)

\* What renderModeControls() makes.
LEMMA RenderedShows ==
    ASSUME NEW r, NEW v
    PROVE  LET p == Rendered(r, v) IN
           /\ PanelFields(p) /\ BoxesShow(r, v, p) /\ DOMAIN p.sliders = Listed(r, v)
           /\ SlidersShow(r, v, p)
<1>1. PICK p : p = Rendered(r, v)
  OBVIOUS
<1>2. PICK boxes : boxes = Boxes(r, v)
  OBVIOUS
<1>3. p = [master |-> v.master, sliders |-> Sliders(r, v), boxes |-> boxes,
           parents |-> [q \in Parents(r) |-> Ticked(boxes, ChildrenOf(r, q))],
           elements |-> [e \in ElementsOf(r) |-> Ticked(boxes, SitesOf(r, e))]]
  BY <1>1, <1>2 DEF Rendered, Boxes
<1>4. /\ p.master = v.master /\ p.sliders = Sliders(r, v) /\ p.boxes = boxes
      /\ p.parents = [q \in Parents(r) |-> Ticked(boxes, ChildrenOf(r, q))]
      /\ p.elements = [e \in ElementsOf(r) |-> Ticked(boxes, SitesOf(r, e))]
  BY <1>3
<1>5. PanelFields(p)
  BY <1>3, <1>4 DEF PanelFields
<1>6. BoxesShow(r, v, p)
  BY <1>2, <1>4 DEF BoxesShow
<1>7. PICK ranges : ranges = occupancyRanges(r, v.amplitude)
  OBVIOUS
<1>8. DOMAIN ranges = DOMAIN Of(r).weight
  BY <1>7 DEF occupancyRanges
<1>9. PICK size : size = [mode \in Listed(r, v) |->
                            IF v.amplitude[mode] > LIMIT THEN v.amplitude[mode]
                            ELSE IF v.amplitude[mode] < 0 - LIMIT THEN 0 - v.amplitude[mode]
                            ELSE LIMIT]
  OBVIOUS
<1>10. p.sliders = [mode \in Listed(r, v) |->
                        [min |-> (IF mode \in DOMAIN ranges THEN ranges[mode]
                                  ELSE <<0 - size[mode], size[mode]>>)[1],
                         max |-> (IF mode \in DOMAIN ranges THEN ranges[mode]
                                  ELSE <<0 - size[mode], size[mode]>>)[2],
                         text |-> v.amplitude[mode] * v.master]]
  BY <1>4, <1>7, <1>9 DEF Sliders, Listed
<1>11. DOMAIN p.sliders = Listed(r, v)
  BY <1>10
<1>12. ASSUME NEW mode \in DOMAIN p.sliders
       PROVE  /\ p.sliders[mode].text = v.amplitude[mode] * v.master
              /\ mode \in DOMAIN Of(r).weight =>
                    p.sliders[mode] = [min |-> ranges[mode][1], max |-> ranges[mode][2],
                                       text |-> v.amplitude[mode] * v.master]
  BY <1>8, <1>10
<1>13. SlidersShow(r, v, p)
  BY <1>4, <1>7, <1>12 DEF SlidersShow
<1> QED BY <1>1, <1>5, <1>6, <1>11, <1>13

\* What updateControlValues() makes of a panel: the sliders follow, the boxes
\* stay.
LEMMA UpdatedShows ==
    ASSUME NEW r, NEW v, NEW p, PanelFields(p)
    PROVE  LET u == Updated(r, v, p) IN
           /\ PanelFields(u) /\ u.boxes = p.boxes /\ u.parents = p.parents
           /\ u.elements = p.elements /\ DOMAIN u.sliders = DOMAIN p.sliders
           /\ SlidersShow(r, v, u)
<1>1. PICK u : u = Updated(r, v, p)
  OBVIOUS
<1>2. PICK ranges : ranges = occupancyRanges(r, v.amplitude)
  OBVIOUS
<1>3. DOMAIN ranges = DOMAIN Of(r).weight
  BY <1>2 DEF occupancyRanges
<1>4. PICK sliders : sliders = [mode \in DOMAIN p.sliders |->
            [text |-> v.amplitude[mode] * v.master,
             min |-> IF mode \in DOMAIN ranges THEN ranges[mode][1] ELSE p.sliders[mode].min,
             max |-> IF mode \in DOMAIN ranges THEN ranges[mode][2] ELSE p.sliders[mode].max]]
  OBVIOUS
<1>5. u = [p EXCEPT !.master = v.master, !.sliders = sliders]
  BY <1>1, <1>2, <1>4 DEF Updated
<1>6. u = [master |-> v.master, sliders |-> sliders, boxes |-> p.boxes,
           parents |-> p.parents, elements |-> p.elements]
  BY <1>5 DEF PanelFields
<1>7. /\ u.master = v.master /\ u.sliders = sliders /\ u.boxes = p.boxes
      /\ u.parents = p.parents /\ u.elements = p.elements
  BY <1>6
<1>8. PanelFields(u)
  BY <1>6, <1>7 DEF PanelFields
<1>9. DOMAIN sliders = DOMAIN p.sliders
  BY <1>4
<1>10. ASSUME NEW mode \in DOMAIN sliders
       PROVE  /\ sliders[mode].text = v.amplitude[mode] * v.master
              /\ mode \in DOMAIN Of(r).weight =>
                    sliders[mode] = [min |-> ranges[mode][1], max |-> ranges[mode][2],
                                     text |-> v.amplitude[mode] * v.master]
  BY <1>3, <1>4
<1>11. SlidersShow(r, v, u)
  BY <1>2, <1>7, <1>10 DEF SlidersShow
<1> QED BY <1>1, <1>7, <1>8, <1>9, <1>11

\* A state of which a part is replaced has the other parts it had.
LEMMA OtherParts ==
    ASSUME NEW r, NEW v, StateOf(r, v), NEW x
    PROVE  /\ [v EXCEPT !.amplitude = x].concealed = v.concealed
           /\ [v EXCEPT !.amplitude = x].limit = v.limit
           /\ [v EXCEPT !.master = x].concealed = v.concealed
           /\ [v EXCEPT !.master = x].limit = v.limit
           /\ LET w == [v EXCEPT !.playing = x] IN
              /\ w.concealed = v.concealed /\ w.limit = v.limit
              /\ w.amplitude = v.amplitude /\ w.master = v.master
           /\ LET w == [v EXCEPT !.bonds = x] IN
              /\ w.concealed = v.concealed /\ w.limit = v.limit
              /\ w.amplitude = v.amplitude /\ w.master = v.master
           /\ LET w == [v EXCEPT !.polyhedra = x] IN
              /\ w.concealed = v.concealed /\ w.limit = v.limit
              /\ w.amplitude = v.amplitude /\ w.master = v.master
           /\ LET w == [v EXCEPT !.concealed = x] IN
              /\ w.concealed = x /\ w.limit = v.limit
              /\ w.amplitude = v.amplitude /\ w.master = v.master
<1>1. PICK a, m, c, l, b, p, y : v = Parts(a, m, c, l, b, p, y)
  BY DEF StateOf
<1>2. v.amplitude = a /\ v.master = m /\ v.concealed = c /\ v.limit = l
  BY <1>1, PartsFacts
<1>3. [v EXCEPT !.amplitude = x] = Parts(x, m, c, l, b, p, y)
  BY <1>1, PartsFacts
<1>4. [v EXCEPT !.master = x] = Parts(a, x, c, l, b, p, y)
  BY <1>1, PartsFacts
<1>5. [v EXCEPT !.playing = x] = Parts(a, m, c, l, b, p, x)
  BY <1>1, PartsFacts
<1>6. [v EXCEPT !.bonds = x] = Parts(a, m, c, l, x, p, y)
  BY <1>1, PartsFacts
<1>7. [v EXCEPT !.polyhedra = x] = Parts(a, m, c, l, b, x, y)
  BY <1>1, PartsFacts
<1>8. [v EXCEPT !.concealed = x] = Parts(a, m, x, l, b, p, y)
  BY <1>1, PartsFacts
<1>9. \A a_, m_, c_, l_, b_, p_, y_ :
        /\ Parts(a_, m_, c_, l_, b_, p_, y_).amplitude = a_
        /\ Parts(a_, m_, c_, l_, b_, p_, y_).master = m_
        /\ Parts(a_, m_, c_, l_, b_, p_, y_).concealed = c_
        /\ Parts(a_, m_, c_, l_, b_, p_, y_).limit = l_
  BY PartsFacts
<1> QED BY <1>2, <1>3, <1>4, <1>5, <1>6, <1>7, <1>8, <1>9

\* A panel shows all states with the same hidden sites, pages, amplitudes and
\* master amplitude.
LEMMA SameShown ==
    ASSUME NEW r, NEW v, NEW w, NEW p
    PROVE  /\ v.concealed = w.concealed => (BoxesShow(r, v, p) <=> BoxesShow(r, w, p))
           /\ v.limit = w.limit => Listed(r, v) = Listed(r, w)
           /\ v.amplitude = w.amplitude /\ v.master = w.master =>
                (SlidersShow(r, v, p) <=> SlidersShow(r, w, p))
<1>1. v.concealed = w.concealed => (BoxesShow(r, v, p) <=> BoxesShow(r, w, p))
  BY DEF BoxesShow, Boxes
<1>2. v.limit = w.limit => Listed(r, v) = Listed(r, w)
  BY DEF Listed
<1>3. v.amplitude = w.amplitude /\ v.master = w.master =>
            (SlidersShow(r, v, p) <=> SlidersShow(r, w, p))
  BY DEF SlidersShow
<1> QED BY <1>1, <1>2, <1>3

\* The invariant in the next state, spelled out.
LEMMA PanelNext ==
    ASSUME PanelFields(panel'), BoxesShow(displaying', view', panel'),
           DOMAIN panel'.sliders = Listed(displaying', view'),
           stale' \/ SlidersShow(displaying', view', panel')
    PROVE  PanelInv'
BY DEF PanelInv, PanelFields, BoxesShow, Boxes, Listed, SlidersShow, Of, ChildSites, Parents,
       ElementsOf, ChildrenOf, SitesOf

\* displayActive() renders the panel; only a launch that fails leaves sliders
\* that are not those of the view.
LEMMA DisplayActiveShows ==
    ASSUME NEW r, NEW saved, NEW list, NEW seen, displayActive(r, saved, list, seen)
    PROVE  PanelInv'
<1>1. PICK fresh : fresh = Fresh(r)
  OBVIOUS
<1>2. PICK known : known = (r # None /\ saved[r] # NoState)
  OBVIOUS
<1>3. PICK fails : fails = (r # None /\ ~known /\ Fails(r, list[r]))
  OBVIOUS
<1>4. PICK amended :
        amended = [fresh EXCEPT !.amplitude = Set(fresh.amplitude, KnownRows(r, list[r]))]
  OBVIOUS
<1>5. /\ displaying' = r
      /\ fails => view' = amended /\ panel' = Rendered(r, fresh)
      /\ ~fails => panel' = Rendered(r, view')
      /\ stale' = fails
  BY <1>1, <1>2, <1>3, <1>4 DEF displayActive
<1>6. fails \in BOOLEAN
  BY <1>3
<1>7. CASE ~fails
  <2>1. displaying' = r /\ panel' = Rendered(r, view')
    BY <1>5, <1>7
  <2> QED BY <2>1, RenderedShows, PanelNext
<1>8. CASE fails
  <2>1. displaying' = r /\ view' = amended /\ panel' = Rendered(r, fresh) /\ stale'
    BY <1>5, <1>8
  <2>2. amended.concealed = fresh.concealed /\ amended.limit = fresh.limit
    BY <1>1, <1>4, FreshState, OtherParts
  <2>3. /\ PanelFields(panel') /\ BoxesShow(r, fresh, panel')
        /\ DOMAIN panel'.sliders = Listed(r, fresh)
    BY <2>1, RenderedShows
  <2>4. BoxesShow(r, view', panel') /\ Listed(r, view') = Listed(r, fresh)
    BY <2>1, <2>2, <2>3, SameShown
  <2> QED BY <2>1, <2>3, <2>4, PanelNext
<1> QED BY <1>6, <1>7, <1>8

\* The panel stays, and the view changes in nothing that it shows.
LEMMA PanelStays ==
    ASSUME PanelInv, displaying' = displaying, panel' = panel, stale => stale',
           view'.concealed = view.concealed, view'.limit = view.limit,
           stale' \/ (view'.amplitude = view.amplitude /\ view'.master = view.master)
    PROVE  PanelInv'
<1>1. /\ PanelFields(panel) /\ BoxesShow(displaying, view, panel)
      /\ DOMAIN panel.sliders = Listed(displaying, view)
      /\ stale \/ SlidersShow(displaying, view, panel)
  BY DEF PanelInv
<1>2. PICK v : v = view'
  OBVIOUS
<1>3. BoxesShow(displaying, v, panel) /\ Listed(displaying, v) = Listed(displaying, view)
  BY <1>1, <1>2, SameShown
<1>4. stale' \/ SlidersShow(displaying, v, panel)
  BY <1>1, <1>2, SameShown
<1> QED BY <1>1, <1>2, <1>3, <1>4, PanelNext

\* The sliders follow the view.
LEMMA PanelFollows ==
    ASSUME PanelInv, NEW v, displaying' = displaying, view' = v,
           panel' = Updated(displaying, v, panel),
           v.concealed = view.concealed, v.limit = view.limit
    PROVE  PanelInv'
<1>1. /\ PanelFields(panel) /\ BoxesShow(displaying, view, panel)
      /\ DOMAIN panel.sliders = Listed(displaying, view)
  BY DEF PanelInv
<1>2. PICK u : u = Updated(displaying, v, panel)
  OBVIOUS
<1>3. /\ PanelFields(u) /\ u.boxes = panel.boxes /\ u.parents = panel.parents
      /\ u.elements = panel.elements /\ DOMAIN u.sliders = DOMAIN panel.sliders
      /\ SlidersShow(displaying, v, u)
  BY <1>1, <1>2, UpdatedShows
<1>4. BoxesShow(displaying, view, u)
  BY <1>1, <1>3 DEF BoxesShow
<1>5. BoxesShow(displaying, v, u) /\ Listed(displaying, v) = Listed(displaying, view)
  BY <1>4, SameShown
<1> QED BY <1>1, <1>2, <1>3, <1>5, PanelNext

\* The boxes of some sites are switched.
LEMMA SwitchedShows ==
    ASSUME MemoryInv, PanelInv, NEW sites, NEW on \in BOOLEAN, NEW v,
           v = [view EXCEPT !.concealed = IF on THEN @ \ sites ELSE @ \cup sites]
    PROVE  LET p == Switched(sites, on) IN
           /\ PanelFields(p) /\ p.boxes = Boxes(displaying, v)
           /\ p.master = panel.master /\ p.sliders = panel.sliders
           /\ p.parents = panel.parents /\ p.elements = panel.elements
           /\ \A S \in SUBSET ChildSites(displaying) :
                /\ S \cap sites = {} => Ticked(p.boxes, S) = Ticked(panel.boxes, S)
                /\ S \subseteq sites /\ S # {} =>
                        Ticked(p.boxes, S) = IF on THEN "all" ELSE "none"
<1>1. StateOf(displaying, view)
  BY DEF MemoryInv, ViewerTypes
<1>2. v.concealed = IF on THEN view.concealed \ sites ELSE view.concealed \cup sites
  BY <1>1, OtherParts
<1>3. PanelFields(panel) /\ panel.boxes = Boxes(displaying, view)
  BY DEF PanelInv, BoxesShow
<1>4. PICK boxes : boxes = [c \in ChildSites(displaying) |->
                                IF c \in sites THEN on ELSE panel.boxes[c]]
  OBVIOUS
<1>5. PICK p : p = Switched(sites, on)
  OBVIOUS
<1>6. p = [master |-> panel.master, sliders |-> panel.sliders, boxes |-> boxes,
           parents |-> panel.parents, elements |-> panel.elements]
  BY <1>3, <1>4, <1>5 DEF Switched, PanelFields
<1>7. /\ p.master = panel.master /\ p.sliders = panel.sliders /\ p.boxes = boxes
      /\ p.parents = panel.parents /\ p.elements = panel.elements
  BY <1>6
<1>8. PanelFields(p)
  BY <1>6, <1>7 DEF PanelFields
<1>9. \A c \in ChildSites(displaying) : panel.boxes[c] = (c \notin view.concealed)
  BY <1>3 DEF Boxes
<1>10. boxes = Boxes(displaying, v)
  <2>1. ASSUME NEW c \in ChildSites(displaying)
        PROVE  (IF c \in sites THEN on ELSE panel.boxes[c]) = (c \notin v.concealed)
    <3>1. CASE c \in sites
      <4>1. (c \notin v.concealed) <=> on
        BY <1>2, <3>1
      <4>2. (c \notin v.concealed) \in BOOLEAN
        OBVIOUS
      <4> QED BY <3>1, <4>1, <4>2
    <3>2. CASE c \notin sites
      <4>1. (c \notin v.concealed) <=> (c \notin view.concealed)
        BY <1>2, <3>2
      <4> QED BY <1>9, <3>2, <4>1
    <3> QED BY <3>1, <3>2
  <2> QED BY <1>4, <2>1 DEF Boxes
<1>11. ASSUME NEW S \in SUBSET ChildSites(displaying), S \cap sites = {}
       PROVE  Ticked(boxes, S) = Ticked(panel.boxes, S)
  <2>1. \A s \in S : boxes[s] = panel.boxes[s]
    BY <1>4, <1>11
  <2>2. {s \in S : boxes[s]} = {s \in S : panel.boxes[s]}
    BY <2>1
  <2> QED BY <2>2 DEF Ticked
<1>12. ASSUME NEW S \in SUBSET ChildSites(displaying), S \subseteq sites, S # {}
       PROVE  Ticked(boxes, S) = IF on THEN "all" ELSE "none"
  <2>1. \A s \in S : boxes[s] = on
    BY <1>4, <1>12
  <2>2. {s \in S : boxes[s]} = IF on THEN S ELSE {}
    BY <2>1
  <2> QED BY <1>12, <2>2 DEF Ticked
<1> QED BY <1>5, <1>7, <1>8, <1>10, <1>11, <1>12

\* The boxes of some parents follow those of the sites.
LEMMA ParentsSynced ==
    ASSUME NEW r, NEW p, NEW S, PanelFields(p)
    PROVE  LET u == SyncParents(r, p, S) IN
           /\ PanelFields(u) /\ u.master = p.master /\ u.sliders = p.sliders
           /\ u.boxes = p.boxes /\ u.elements = p.elements
           /\ u.parents = [q \in DOMAIN p.parents |-> u.parents[q]]
           /\ \A q \in DOMAIN p.parents :
                u.parents[q] = IF q \in S THEN Ticked(p.boxes, ChildrenOf(r, q)) ELSE p.parents[q]
<1>1. PICK list : list = [q \in DOMAIN p.parents |->
                IF q \in S THEN Ticked(p.boxes, ChildrenOf(r, q)) ELSE p.parents[q]]
  OBVIOUS
<1>2. PICK u : u = SyncParents(r, p, S)
  OBVIOUS
<1>3. u = [master |-> p.master, sliders |-> p.sliders, boxes |-> p.boxes,
           parents |-> list, elements |-> p.elements]
  BY <1>1, <1>2 DEF SyncParents, PanelFields
<1>4. /\ u.master = p.master /\ u.sliders = p.sliders /\ u.boxes = p.boxes
      /\ u.elements = p.elements /\ u.parents = list
  BY <1>3
<1>5. PanelFields(u)
  BY <1>3, <1>4 DEF PanelFields
<1>6. /\ list = [q \in DOMAIN p.parents |-> list[q]]
      /\ \A q \in DOMAIN p.parents :
            list[q] = IF q \in S THEN Ticked(p.boxes, ChildrenOf(r, q)) ELSE p.parents[q]
  BY <1>1
<1> QED BY <1>2, <1>4, <1>5, <1>6

\* The boxes of some elements follow those of the sites.
LEMMA ElementsSynced ==
    ASSUME NEW r, NEW p, NEW S, PanelFields(p)
    PROVE  LET u == SyncElements(r, p, S) IN
           /\ PanelFields(u) /\ u.master = p.master /\ u.sliders = p.sliders
           /\ u.boxes = p.boxes /\ u.parents = p.parents
           /\ u.elements = [e \in DOMAIN p.elements |-> u.elements[e]]
           /\ \A e \in DOMAIN p.elements :
                u.elements[e] = IF e \in S THEN Ticked(p.boxes, SitesOf(r, e)) ELSE p.elements[e]
<1>1. PICK list : list = [e \in DOMAIN p.elements |->
                IF e \in S THEN Ticked(p.boxes, SitesOf(r, e)) ELSE p.elements[e]]
  OBVIOUS
<1>2. PICK u : u = SyncElements(r, p, S)
  OBVIOUS
<1>3. u = [master |-> p.master, sliders |-> p.sliders, boxes |-> p.boxes,
           parents |-> p.parents, elements |-> list]
  BY <1>1, <1>2 DEF SyncElements, PanelFields
<1>4. /\ u.master = p.master /\ u.sliders = p.sliders /\ u.boxes = p.boxes
      /\ u.parents = p.parents /\ u.elements = list
  BY <1>3
<1>5. PanelFields(u)
  BY <1>3, <1>4 DEF PanelFields
<1>6. /\ list = [e \in DOMAIN p.elements |-> list[e]]
      /\ \A e \in DOMAIN p.elements :
            list[e] = IF e \in S THEN Ticked(p.boxes, SitesOf(r, e)) ELSE p.elements[e]
  BY <1>1
<1> QED BY <1>2, <1>4, <1>5, <1>6

\* A click on the box of a parent sets that box.
LEMMA ParentSet ==
    ASSUME NEW p, NEW k, NEW tick, PanelFields(p)
    PROVE  LET u == [p EXCEPT !.parents[k] = tick] IN
           /\ PanelFields(u) /\ u.master = p.master /\ u.sliders = p.sliders
           /\ u.boxes = p.boxes /\ u.elements = p.elements
           /\ u.parents = [q \in DOMAIN p.parents |-> u.parents[q]]
           /\ \A q \in DOMAIN p.parents :
                u.parents[q] = IF q = k THEN tick ELSE p.parents[q]
<1>1. PICK list : list = [p.parents EXCEPT ![k] = tick]
  OBVIOUS
<1>2. PICK u : u = [p EXCEPT !.parents[k] = tick]
  OBVIOUS
<1>3. u = [master |-> p.master, sliders |-> p.sliders, boxes |-> p.boxes,
           parents |-> list, elements |-> p.elements]
  BY <1>1, <1>2 DEF PanelFields
<1>4. /\ u.master = p.master /\ u.sliders = p.sliders /\ u.boxes = p.boxes
      /\ u.elements = p.elements /\ u.parents = list
  BY <1>3
<1>5. PanelFields(u)
  BY <1>3, <1>4 DEF PanelFields
<1>6. /\ list = [q \in DOMAIN p.parents |-> list[q]]
      /\ \A q \in DOMAIN p.parents :
            list[q] = IF q = k THEN tick ELSE p.parents[q]
  BY <1>1
<1> QED BY <1>2, <1>4, <1>5, <1>6

\* A click on the box of an element sets that box.
LEMMA ElementSet ==
    ASSUME NEW p, NEW k, NEW tick, PanelFields(p)
    PROVE  LET u == [p EXCEPT !.elements[k] = tick] IN
           /\ PanelFields(u) /\ u.master = p.master /\ u.sliders = p.sliders
           /\ u.boxes = p.boxes /\ u.parents = p.parents
           /\ u.elements = [e \in DOMAIN p.elements |-> u.elements[e]]
           /\ \A e \in DOMAIN p.elements :
                u.elements[e] = IF e = k THEN tick ELSE p.elements[e]
<1>1. PICK list : list = [p.elements EXCEPT ![k] = tick]
  OBVIOUS
<1>2. PICK u : u = [p EXCEPT !.elements[k] = tick]
  OBVIOUS
<1>3. u = [master |-> p.master, sliders |-> p.sliders, boxes |-> p.boxes,
           parents |-> p.parents, elements |-> list]
  BY <1>1, <1>2 DEF PanelFields
<1>4. /\ u.master = p.master /\ u.sliders = p.sliders /\ u.boxes = p.boxes
      /\ u.parents = p.parents /\ u.elements = list
  BY <1>3
<1>5. PanelFields(u)
  BY <1>3, <1>4 DEF PanelFields
<1>6. /\ list = [e \in DOMAIN p.elements |-> list[e]]
      /\ \A e \in DOMAIN p.elements :
            list[e] = IF e = k THEN tick ELSE p.elements[e]
  BY <1>1
<1> QED BY <1>2, <1>4, <1>5, <1>6

\* A switch of sites leaves the panel right when every box above them is.
LEMMA TogglePanel ==
    ASSUME MemoryInv, PanelInv, NEW sites, NEW on \in BOOLEAN, NEW p,
           Toggle(sites, on, p), PanelFields(p),
           p.master = panel.master, p.sliders = panel.sliders,
           p.boxes = Switched(sites, on).boxes,
           p.parents = [q \in Parents(displaying) |->
                            Ticked(p.boxes, ChildrenOf(displaying, q))],
           p.elements = [e \in ElementsOf(displaying) |->
                            Ticked(p.boxes, SitesOf(displaying, e))]
    PROVE  PanelInv'
<1>1. PICK v : v = [view EXCEPT !.concealed = IF on THEN @ \ sites ELSE @ \cup sites]
  OBVIOUS
<1>2. view' = v /\ panel' = p /\ displaying' = displaying /\ stale' = stale
  BY <1>1 DEF Toggle
<1>3. p.boxes = Boxes(displaying, v)
  BY <1>1, SwitchedShows
<1>4. BoxesShow(displaying, v, p)
  BY <1>3 DEF BoxesShow
<1>5. StateOf(displaying, view)
  BY DEF MemoryInv, ViewerTypes
<1>6. PICK x : x = IF on THEN view.concealed \ sites ELSE view.concealed \cup sites
  OBVIOUS
<1>7. v = [view EXCEPT !.concealed = x]
  BY <1>1, <1>6
<1>8. v.limit = view.limit /\ v.amplitude = view.amplitude /\ v.master = view.master
  BY <1>5, <1>7, OtherParts
<1>9. DOMAIN p.sliders = Listed(displaying, v)
  <2>1. DOMAIN panel.sliders = Listed(displaying, view)
    BY DEF PanelInv
  <2> QED BY <2>1, <1>8, SameShown
<1>10. stale \/ SlidersShow(displaying, v, p)
  <2>1. stale \/ SlidersShow(displaying, view, panel)
    BY DEF PanelInv
  <2>2. SlidersShow(displaying, view, panel) => SlidersShow(displaying, view, p)
    BY DEF SlidersShow
  <2> QED BY <2>1, <2>2, <1>8, SameShown
<1> QED BY <1>2, <1>4, <1>9, <1>10, PanelNext

\* One child site is switched: its parent and its element follow.
LEMMA ToggleSitePanel ==
    ASSUME MemoryInv, PanelInv, NEW c \in DOMAIN panel.boxes, ToggleSite(c)
    PROVE  PanelInv'
<1>1. PICK r : r = displaying
  OBVIOUS
<1>2. PICK parent : parent = Of(r).parentOf[c]
  OBVIOUS
<1>3. PICK element : element = Of(r).elementOf[parent]
  OBVIOUS
<1>4. PICK on \in BOOLEAN : on = ~panel.boxes[c]
  OBVIOUS
<1>5. PICK s : s = Switched({c}, on)
  OBVIOUS
<1>6. PICK p : p = SyncParents(r, s, {parent})
  OBVIOUS
<1>7. PICK u : u = SyncElements(r, p, {element})
  OBVIOUS
<1>8. Toggle({c}, on, u)
  BY <1>1, <1>2, <1>3, <1>4, <1>5, <1>6, <1>7 DEF ToggleSite
<1>9. PICK v : v = [view EXCEPT !.concealed = IF on THEN @ \ {c} ELSE @ \cup {c}]
  OBVIOUS
<1>10. /\ PanelFields(s)
       /\ s.master = panel.master /\ s.sliders = panel.sliders
       /\ s.parents = panel.parents /\ s.elements = panel.elements
       /\ \A S \in SUBSET ChildSites(r) :
            S \cap {c} = {} => Ticked(s.boxes, S) = Ticked(panel.boxes, S)
  BY <1>1, <1>5, <1>9, SwitchedShows
<1>11. /\ panel.parents = [q \in Parents(r) |-> Ticked(panel.boxes, ChildrenOf(r, q))]
       /\ panel.elements = [e \in ElementsOf(r) |-> Ticked(panel.boxes, SitesOf(r, e))]
  BY <1>1 DEF PanelInv, BoxesShow
<1>12. /\ PanelFields(p) /\ p.master = s.master /\ p.sliders = s.sliders
       /\ p.boxes = s.boxes /\ p.elements = s.elements
       /\ p.parents = [q \in DOMAIN s.parents |-> p.parents[q]]
       /\ \A q \in DOMAIN s.parents :
            p.parents[q] = IF q \in {parent} THEN Ticked(s.boxes, ChildrenOf(r, q))
                           ELSE s.parents[q]
  <2>1. PanelFields(s)
    BY <1>10
  <2>2. PICK S : S = {parent}
    OBVIOUS
  <2>3. p = SyncParents(r, s, S)
    BY <1>6, <2>2
  <2> QED BY <2>1, <2>2, <2>3, ParentsSynced
<1>13. /\ PanelFields(u) /\ u.master = p.master /\ u.sliders = p.sliders
       /\ u.boxes = p.boxes /\ u.parents = p.parents
       /\ u.elements = [e \in DOMAIN p.elements |-> u.elements[e]]
       /\ \A e \in DOMAIN p.elements :
            u.elements[e] = IF e \in {element} THEN Ticked(p.boxes, SitesOf(r, e))
                            ELSE p.elements[e]
  <2>1. PanelFields(p)
    BY <1>12
  <2>2. PICK S : S = {element}
    OBVIOUS
  <2>3. u = SyncElements(r, p, S)
    BY <1>7, <2>2
  <2> QED BY <2>1, <2>2, <2>3, ElementsSynced
<1>14. ASSUME NEW q \in Parents(r), q # parent
       PROVE  Ticked(s.boxes, ChildrenOf(r, q)) = Ticked(panel.boxes, ChildrenOf(r, q))
  <2>1. ChildrenOf(r, q) \in SUBSET ChildSites(r) /\ ChildrenOf(r, q) \cap {c} = {}
    BY <1>2, <1>14 DEF ChildrenOf
  <2> QED BY <2>1, <1>10
<1>15. ASSUME NEW e \in ElementsOf(r), e # element
       PROVE  Ticked(s.boxes, SitesOf(r, e)) = Ticked(panel.boxes, SitesOf(r, e))
  <2>1. SitesOf(r, e) \in SUBSET ChildSites(r) /\ SitesOf(r, e) \cap {c} = {}
    BY <1>2, <1>3, <1>15 DEF SitesOf
  <2> QED BY <2>1, <1>10
<1>16. u.parents = [q \in Parents(r) |-> Ticked(u.boxes, ChildrenOf(r, q))]
  <2>1. DOMAIN s.parents = Parents(r)
    BY <1>10, <1>11
  <2>2. \A q \in Parents(r) : (IF q \in {parent} THEN Ticked(s.boxes, ChildrenOf(r, q))
                               ELSE s.parents[q]) = Ticked(s.boxes, ChildrenOf(r, q))
    BY <1>10, <1>11, <1>14
  <2> QED BY <2>1, <2>2, <1>12, <1>13
<1>17. u.elements = [e \in ElementsOf(r) |-> Ticked(u.boxes, SitesOf(r, e))]
  <2>1. DOMAIN p.elements = ElementsOf(r)
    BY <1>10, <1>11, <1>12
  <2>2. \A e \in ElementsOf(r) : (IF e \in {element} THEN Ticked(p.boxes, SitesOf(r, e))
                                  ELSE p.elements[e]) = Ticked(p.boxes, SitesOf(r, e))
    BY <1>10, <1>11, <1>12, <1>15
  <2> QED BY <2>1, <2>2, <1>12, <1>13
<1>18. u.master = panel.master /\ u.sliders = panel.sliders /\ u.boxes = Switched({c}, on).boxes
  BY <1>5, <1>10, <1>12, <1>13
<1> QED BY <1>1, <1>8, <1>13, <1>16, <1>17, <1>18, TogglePanel

\* All sites of a parent are switched: its box does, and its element follows.
LEMMA ToggleParentPanel ==
    ASSUME MemoryInv, PanelInv, NEW parent \in DOMAIN panel.parents, ToggleParent(parent)
    PROVE  PanelInv'
<1>1. PICK r : r = displaying
  OBVIOUS
<1>2. PICK sites : sites = ChildrenOf(r, parent)
  OBVIOUS
<1>3. PICK element : element = Of(r).elementOf[parent]
  OBVIOUS
<1>4. PICK on \in BOOLEAN : on = Clicked(panel.parents[parent])
  BY DEF Clicked
<1>5. PICK s : s = Switched(sites, on)
  OBVIOUS
<1>6. PICK tick : tick = IF on THEN "all" ELSE "none"
  OBVIOUS
<1>7. PICK p : p = [s EXCEPT !.parents[parent] = tick]
  OBVIOUS
<1>8. PICK u : u = SyncElements(r, p, {element})
  OBVIOUS
<1>9. Toggle(sites, on, u)
  BY <1>1, <1>2, <1>3, <1>4, <1>5, <1>6, <1>7, <1>8 DEF ToggleParent
<1>10. PICK v : v = [view EXCEPT !.concealed = IF on THEN @ \ sites ELSE @ \cup sites]
  OBVIOUS
<1>11. /\ PanelFields(s)
       /\ s.master = panel.master /\ s.sliders = panel.sliders
       /\ s.parents = panel.parents /\ s.elements = panel.elements
       /\ \A S \in SUBSET ChildSites(r) :
            /\ S \cap sites = {} => Ticked(s.boxes, S) = Ticked(panel.boxes, S)
            /\ S \subseteq sites /\ S # {} => Ticked(s.boxes, S) = IF on THEN "all" ELSE "none"
  BY <1>1, <1>5, <1>10, SwitchedShows
<1>12. /\ panel.parents = [q \in Parents(r) |-> Ticked(panel.boxes, ChildrenOf(r, q))]
       /\ panel.elements = [e \in ElementsOf(r) |-> Ticked(panel.boxes, SitesOf(r, e))]
  BY <1>1 DEF PanelInv, BoxesShow
<1>13. /\ PanelFields(p) /\ p.master = s.master /\ p.sliders = s.sliders
       /\ p.boxes = s.boxes /\ p.elements = s.elements
       /\ p.parents = [q \in DOMAIN s.parents |-> p.parents[q]]
       /\ \A q \in DOMAIN s.parents :
            p.parents[q] = IF q = parent THEN tick ELSE s.parents[q]
  <2>1. PanelFields(s)
    BY <1>11
  <2> QED BY <1>7, <2>1, ParentSet
<1>14. /\ PanelFields(u) /\ u.master = p.master /\ u.sliders = p.sliders
       /\ u.boxes = p.boxes /\ u.parents = p.parents
       /\ u.elements = [e \in DOMAIN p.elements |-> u.elements[e]]
       /\ \A e \in DOMAIN p.elements :
            u.elements[e] = IF e \in {element} THEN Ticked(p.boxes, SitesOf(r, e))
                            ELSE p.elements[e]
  <2>1. PanelFields(p)
    BY <1>13
  <2>2. PICK S : S = {element}
    OBVIOUS
  <2>3. u = SyncElements(r, p, S)
    BY <1>8, <2>2
  <2> QED BY <2>1, <2>2, <2>3, ElementsSynced
<1>15. parent \in Parents(r)
  BY <1>12
<1>16. sites \in SUBSET ChildSites(r) /\ sites # {}
  BY <1>2, <1>15 DEF ChildrenOf, Parents, Range, ChildSites
<1>17. Ticked(s.boxes, sites) = tick
  BY <1>6, <1>11, <1>16
<1>18. ASSUME NEW q \in Parents(r), q # parent
       PROVE  Ticked(s.boxes, ChildrenOf(r, q)) = Ticked(panel.boxes, ChildrenOf(r, q))
  <2>1. ChildrenOf(r, q) \in SUBSET ChildSites(r) /\ ChildrenOf(r, q) \cap sites = {}
    BY <1>2, <1>18 DEF ChildrenOf
  <2> QED BY <2>1, <1>11
<1>19. ASSUME NEW e \in ElementsOf(r), e # element
       PROVE  Ticked(s.boxes, SitesOf(r, e)) = Ticked(panel.boxes, SitesOf(r, e))
  <2>1. SitesOf(r, e) \in SUBSET ChildSites(r) /\ SitesOf(r, e) \cap sites = {}
    BY <1>2, <1>3, <1>19 DEF SitesOf, ChildrenOf
  <2> QED BY <2>1, <1>11
<1>20. u.parents = [q \in Parents(r) |-> Ticked(u.boxes, ChildrenOf(r, q))]
  <2>1. DOMAIN s.parents = Parents(r)
    BY <1>11, <1>12
  <2>2. \A q \in Parents(r) : (IF q = parent THEN tick ELSE s.parents[q])
                                = Ticked(s.boxes, ChildrenOf(r, q))
    BY <1>2, <1>11, <1>12, <1>17, <1>18
  <2> QED BY <2>1, <2>2, <1>13, <1>14
<1>21. u.elements = [e \in ElementsOf(r) |-> Ticked(u.boxes, SitesOf(r, e))]
  <2>1. DOMAIN p.elements = ElementsOf(r)
    BY <1>11, <1>12, <1>13
  <2>2. \A e \in ElementsOf(r) : (IF e \in {element} THEN Ticked(p.boxes, SitesOf(r, e))
                                  ELSE p.elements[e]) = Ticked(p.boxes, SitesOf(r, e))
    BY <1>11, <1>12, <1>13, <1>19
  <2> QED BY <2>1, <2>2, <1>13, <1>14
<1>22. u.master = panel.master /\ u.sliders = panel.sliders
       /\ u.boxes = Switched(sites, on).boxes
  BY <1>5, <1>11, <1>13, <1>14
<1> QED BY <1>1, <1>9, <1>14, <1>20, <1>21, <1>22, TogglePanel

\* All sites of an element are switched: its box does, and those of all parents
\* follow.
LEMMA ToggleElementPanel ==
    ASSUME MemoryInv, PanelInv, NEW element \in DOMAIN panel.elements, ToggleElement(element)
    PROVE  PanelInv'
<1>1. PICK r : r = displaying
  OBVIOUS
<1>2. PICK sites : sites = SitesOf(r, element)
  OBVIOUS
<1>3. PICK on \in BOOLEAN : on = Clicked(panel.elements[element])
  BY DEF Clicked
<1>4. PICK s : s = Switched(sites, on)
  OBVIOUS
<1>5. PICK tick : tick = IF on THEN "all" ELSE "none"
  OBVIOUS
<1>6. PICK p : p = [s EXCEPT !.elements[element] = tick]
  OBVIOUS
<1>7. PICK all : all = DOMAIN p.parents
  OBVIOUS
<1>8. PICK u : u = SyncParents(r, p, all)
  OBVIOUS
<1>9. Toggle(sites, on, u)
  BY <1>1, <1>2, <1>3, <1>4, <1>5, <1>6, <1>7, <1>8 DEF ToggleElement
<1>10. PICK v : v = [view EXCEPT !.concealed = IF on THEN @ \ sites ELSE @ \cup sites]
  OBVIOUS
<1>11. /\ PanelFields(s)
       /\ s.master = panel.master /\ s.sliders = panel.sliders
       /\ s.parents = panel.parents /\ s.elements = panel.elements
       /\ \A S \in SUBSET ChildSites(r) :
            /\ S \cap sites = {} => Ticked(s.boxes, S) = Ticked(panel.boxes, S)
            /\ S \subseteq sites /\ S # {} => Ticked(s.boxes, S) = IF on THEN "all" ELSE "none"
  BY <1>1, <1>4, <1>10, SwitchedShows
<1>12. /\ panel.parents = [q \in Parents(r) |-> Ticked(panel.boxes, ChildrenOf(r, q))]
       /\ panel.elements = [e \in ElementsOf(r) |-> Ticked(panel.boxes, SitesOf(r, e))]
  BY <1>1 DEF PanelInv, BoxesShow
<1>13. /\ PanelFields(p) /\ p.master = s.master /\ p.sliders = s.sliders
       /\ p.boxes = s.boxes /\ p.parents = s.parents
       /\ p.elements = [e \in DOMAIN s.elements |-> p.elements[e]]
       /\ \A e \in DOMAIN s.elements :
            p.elements[e] = IF e = element THEN tick ELSE s.elements[e]
  <2>1. PanelFields(s)
    BY <1>11
  <2> QED BY <1>6, <2>1, ElementSet
<1>14. /\ PanelFields(u) /\ u.master = p.master /\ u.sliders = p.sliders
       /\ u.boxes = p.boxes /\ u.elements = p.elements
       /\ u.parents = [q \in DOMAIN p.parents |-> u.parents[q]]
       /\ \A q \in DOMAIN p.parents : q \in all =>
            u.parents[q] = Ticked(p.boxes, ChildrenOf(r, q))
  <2>1. PanelFields(p)
    BY <1>13
  <2> QED BY <1>8, <2>1, ParentsSynced
<1>15. element \in ElementsOf(r)
  BY <1>12
<1>16. sites \in SUBSET ChildSites(r) /\ sites # {}
  <2>1. r \in Shown
    <3>1. r # None
      BY <1>15 DEF ElementsOf, Of, NoCrystal, Range
    <3>2. ViewerTypes
      BY DEF MemoryInv
    <3> QED BY <1>1, <3>1, <3>2, DisplayedTab
  <2>2. PICK q \in Parents(r) : Of(r).elementOf[q] = element
    <3>1. DOMAIN Of(r).elementOf = Parents(r)
      BY <2>1, ViewerAssumption
    <3> QED BY <1>15, <3>1 DEF ElementsOf, Range
  <2>3. PICK c \in ChildSites(r) : Of(r).parentOf[c] = q
    BY <2>2 DEF Parents, Range, ChildSites
  <2> QED BY <1>2, <2>2, <2>3 DEF SitesOf
<1>17. Ticked(s.boxes, sites) = tick
  BY <1>5, <1>11, <1>16
<1>18. ASSUME NEW e \in ElementsOf(r), e # element
       PROVE  Ticked(s.boxes, SitesOf(r, e)) = Ticked(panel.boxes, SitesOf(r, e))
  <2>1. SitesOf(r, e) \in SUBSET ChildSites(r) /\ SitesOf(r, e) \cap sites = {}
    BY <1>2, <1>18 DEF SitesOf
  <2> QED BY <2>1, <1>11
<1>19. u.parents = [q \in Parents(r) |-> Ticked(u.boxes, ChildrenOf(r, q))]
  <2>1. DOMAIN p.parents = Parents(r)
    BY <1>11, <1>12, <1>13
  <2> QED BY <1>7, <1>14, <2>1
<1>20. u.elements = [e \in ElementsOf(r) |-> Ticked(u.boxes, SitesOf(r, e))]
  <2>1. DOMAIN s.elements = ElementsOf(r)
    BY <1>11, <1>12
  <2>2. \A e \in ElementsOf(r) : (IF e = element THEN tick ELSE s.elements[e])
                                = Ticked(s.boxes, SitesOf(r, e))
    BY <1>2, <1>11, <1>12, <1>17, <1>18
  <2> QED BY <2>1, <2>2, <1>13, <1>14
<1>21. u.master = panel.master /\ u.sliders = panel.sliders
       /\ u.boxes = Switched(sites, on).boxes
  BY <1>4, <1>11, <1>13, <1>14
<1> QED BY <1>1, <1>9, <1>14, <1>19, <1>20, <1>21, TogglePanel

\* What else the user does, and an animation: the sliders follow or are made
\* anew, or nothing of the panel is about it.
LEMMA UserStepPanel ==
    ASSUME MemoryInv, PanelInv, UserStep
    PROVE  PanelInv'
<1>1. StateOf(displaying, view)
  BY DEF MemoryInv, ViewerTypes
<1>2. ASSUME NEW v, Adjust(v), v.concealed = view.concealed, v.limit = view.limit
      PROVE  PanelInv'
  <2>1. displaying' = displaying /\ view' = v /\ panel' = Updated(displaying, v, panel)
    BY <1>2 DEF Adjust
  <2> QED BY <1>2, <2>1, PanelFollows
<1>3. ASSUME NEW mode, NEW effective, MoveSlider(mode, effective) PROVE PanelInv'
  <2>1. PICK x : Adjust([view EXCEPT !.amplitude[mode] = x])
    BY <1>3 DEF MoveSlider
  <2>2. PICK a : a = [view.amplitude EXCEPT ![mode] = x]
    OBVIOUS
  <2>3. PICK v : v = [view EXCEPT !.amplitude = a]
    OBVIOUS
  <2>4. Adjust(v)
    BY <2>1, <2>2, <2>3
  <2>5. v.concealed = view.concealed /\ v.limit = view.limit
    BY <1>1, <2>3, OtherParts
  <2> QED BY <1>2, <2>4, <2>5
<1>4. ASSUME NEW m, MoveMaster(m) PROVE PanelInv'
  <2>1. PICK f : f = FALSE
    OBVIOUS
  <2>2. PICK v : v = [view EXCEPT !.master = m]
    OBVIOUS
  <2>3. PICK w : w = [v EXCEPT !.playing = f]
    OBVIOUS
  <2>4. Adjust(w)
    BY <1>4, <2>1, <2>2, <2>3 DEF MoveMaster
  <2>5. v.concealed = view.concealed /\ v.limit = view.limit
    BY <1>1, <2>2, OtherParts
  <2>6. StateOf(displaying, v)
    BY <1>1, <2>2, UserChanges
  <2>7. w.concealed = v.concealed /\ w.limit = v.limit
    BY <2>3, <2>6, OtherParts
  <2> QED BY <1>2, <2>4, <2>5, <2>7
<1>5. CASE Reset
  <2>1. PICK f : f = FALSE
    OBVIOUS
  <2>2. PICK a : a = [mode \in DOMAIN view.amplitude |-> 0]
    OBVIOUS
  <2>3. PICK u : u = [view EXCEPT !.amplitude = a]
    OBVIOUS
  <2>4. PICK v : v = [u EXCEPT !.master = MASTER]
    OBVIOUS
  <2>5. PICK w : w = [v EXCEPT !.playing = f]
    OBVIOUS
  <2>6. Adjust(w)
    <3>1. w = [view EXCEPT !.amplitude = a, !.master = MASTER, !.playing = FALSE]
      BY <2>1, <2>3, <2>4, <2>5
    <3>2. Adjust([view EXCEPT !.amplitude = a, !.master = MASTER, !.playing = FALSE])
      BY <1>5, <2>2 DEF Reset
    <3> QED BY <3>1, <3>2
  <2>7. a = [mode \in ModesOf(displaying) |-> a[mode]]
    BY <1>1, <2>2 DEF StateOf
  <2>8. StateOf(displaying, u) /\ u.concealed = view.concealed /\ u.limit = view.limit
    <3>1. StateOf(displaying, u)
      BY <1>1, <2>3, <2>7, AmplitudesChanged
    <3>2. u.concealed = view.concealed /\ u.limit = view.limit
      BY <1>1, <2>3, OtherParts
    <3> QED BY <3>1, <3>2
  <2>9. StateOf(displaying, v) /\ v.concealed = u.concealed /\ v.limit = u.limit
    <3>1. StateOf(displaying, v)
      BY <2>4, <2>8, UserChanges
    <3>2. v.concealed = u.concealed /\ v.limit = u.limit
      BY <2>4, <2>8, OtherParts
    <3> QED BY <3>1, <3>2
  <2>10. w.concealed = v.concealed /\ w.limit = v.limit
    BY <2>5, <2>9, OtherParts
  <2> QED BY <1>2, <2>6, <2>8, <2>9, <2>10
<1>6. CASE Animate
  <2>1. PICK x : x = ~view.playing
    OBVIOUS
  <2>2. PICK v : v = [view EXCEPT !.playing = x]
    OBVIOUS
  <2>3. displaying' = displaying /\ panel' = panel /\ stale' = stale /\ view' = v
    BY <1>6, <2>1, <2>2 DEF Animate
  <2>4. /\ v.concealed = view.concealed /\ v.limit = view.limit
        /\ v.amplitude = view.amplitude /\ v.master = view.master
    BY <1>1, <2>2, OtherParts
  <2> QED BY <2>3, <2>4, PanelStays
<1>7. ASSUME NEW m, AnimationStep(m) PROVE PanelInv'
  <2>1. PICK v : v = [view EXCEPT !.master = m]
    OBVIOUS
  <2>2. displaying' = displaying /\ view' = v /\ panel' = Updated(displaying, v, panel)
    BY <1>7, <2>1 DEF AnimationStep
  <2>3. v.concealed = view.concealed /\ v.limit = view.limit
    BY <1>1, <2>1, OtherParts
  <2> QED BY <2>2, <2>3, PanelFollows
<1>8. CASE LoadMore
  <2>1. displaying' = displaying /\ panel' = Rendered(displaying, view')
    BY <1>8 DEF LoadMore
  <2> QED BY <2>1, RenderedShows, PanelNext
<1>9. CASE SwitchDrawing([view EXCEPT !.bonds = ~@])
  <2>1. PICK x : x = ~view.bonds
    OBVIOUS
  <2>2. PICK v : v = [view EXCEPT !.bonds = x]
    OBVIOUS
  <2>3. displaying' = displaying /\ panel' = panel /\ stale' = stale /\ view' = v
    BY <1>9, <2>1, <2>2 DEF SwitchDrawing
  <2>4. /\ v.concealed = view.concealed /\ v.limit = view.limit
        /\ v.amplitude = view.amplitude /\ v.master = view.master
    BY <1>1, <2>2, OtherParts
  <2> QED BY <2>3, <2>4, PanelStays
<1>10. CASE SwitchDrawing([view EXCEPT !.polyhedra = ~@])
  <2>1. PICK x : x = ~view.polyhedra
    OBVIOUS
  <2>2. PICK v : v = [view EXCEPT !.polyhedra = x]
    OBVIOUS
  <2>3. displaying' = displaying /\ panel' = panel /\ stale' = stale /\ view' = v
    BY <1>10, <2>1, <2>2 DEF SwitchDrawing
  <2>4. /\ v.concealed = view.concealed /\ v.limit = view.limit
        /\ v.amplitude = view.amplitude /\ v.master = view.master
    BY <1>1, <2>2, OtherParts
  <2> QED BY <2>3, <2>4, PanelStays
<1>11. ASSUME NEW c \in DOMAIN panel.boxes, ToggleSite(c) PROVE PanelInv'
  BY <1>11, ToggleSitePanel
<1>12. ASSUME NEW parent \in DOMAIN panel.parents, ToggleParent(parent) PROVE PanelInv'
  BY <1>12, ToggleParentPanel
<1>13. ASSUME NEW element \in DOMAIN panel.elements, ToggleElement(element) PROVE PanelInv'
  BY <1>13, ToggleElementPanel
<1> QED
  BY <1>3, <1>4, <1>5, <1>6, <1>7, <1>8, <1>9, <1>10, <1>11, <1>12, <1>13 DEF UserStep

\* Tabs come, go and take turns, and launches arrive.
LEMMA TabStepPanel ==
    ASSUME MemoryInv, PanelInv, TabStep
    PROVE  PanelInv'
<1>1. StateOf(displaying, view)
  BY DEF MemoryInv, ViewerTypes
<1>2. ASSUME UNCHANGED <<displaying, view, panel, stale>> PROVE PanelInv'
  BY <1>2, PanelStays
<1>3. ASSUME NEW r \in Shown, NEW alone \in BOOLEAN, ReceiveTab(r, alone) PROVE PanelInv'
  <2>1. CASE strip'.active = displaying
    BY <1>2, <1>3, <2>1 DEF ReceiveTab
  <2>2. CASE strip'.active # displaying
    <3>1. displayActive(strip'.active, ui', rows, left)
      BY <1>3, <2>2 DEF ReceiveTab
    <3> QED BY <3>1, DisplayActiveShows
  <2> QED BY <2>1, <2>2
<1>4. ASSUME NEW r \in Shown, ActivateTab(r) PROVE PanelInv'
  <2>1. displayActive(r, ui', rows, left)
    BY <1>4 DEF ActivateTab
  <2> QED BY <2>1, DisplayActiveShows
<1>5. ASSUME NEW r \in Shown, RemoveTab(r) PROVE PanelInv'
  <2>1. CASE strip'.active = displaying
    BY <1>2, <1>5, <2>1 DEF RemoveTab
  <2>2. CASE strip'.active # displaying
    <3>1. displayActive(strip'.active, ui', rows', [left EXCEPT ![r] = NoState])
      BY <1>5, <2>2 DEF RemoveTab
    <3> QED BY <3>1, DisplayActiveShows
  <2> QED BY <2>1, <2>2
<1>6. ASSUME NEW r \in Shown, FirstFrame(r) PROVE PanelInv'
  <2>1. displaying' = displaying
    BY <1>6 DEF FirstFrame
  <2>2. CASE displaying # r
    BY <1>2, <1>6, <2>1, <2>2 DEF FirstFrame
  <2>3. CASE displaying = r /\ ui[r] = NoState
    <3>1. UNCHANGED <<displaying, view, panel>> /\ (stale => stale')
      BY <1>6, <2>1, <2>3 DEF FirstFrame
    <3>2. view'.concealed = view.concealed /\ view'.limit = view.limit
      BY <3>1
    <3>3. view'.amplitude = view.amplitude /\ view'.master = view.master
      BY <3>1
    <3> QED BY <3>1, <3>2, <3>3, PanelStays
  <2>4. CASE displaying = r /\ ui[r] # NoState
    <3>1. displaying' = r /\ panel' = Rendered(r, view')
      BY <1>6, <2>1, <2>4 DEF FirstFrame
    <3> QED BY <3>1, RenderedShows, PanelNext
  <2> QED BY <2>2, <2>3, <2>4
<1>7. ASSUME NEW r \in Shown, NEW list \in Launches, ReceiveLaunch(r, list) PROVE PanelInv'
  <2>1. displaying' = displaying
    BY <1>7 DEF ReceiveLaunch
  <2>2. CASE displaying # r
    BY <1>2, <1>7, <2>1, <2>2 DEF ReceiveLaunch
  <2>3. CASE displaying = r /\ Fails(r, list)
    <3>1. PICK a : a = Set(view.amplitude, KnownRows(r, list))
      OBVIOUS
    <3>2. PICK v : v = [view EXCEPT !.amplitude = a]
      OBVIOUS
    <3>3. view' = v /\ panel' = panel /\ stale'
      BY <1>7, <2>3, <3>1, <3>2 DEF ReceiveLaunch
    <3>4. v.concealed = view.concealed /\ v.limit = view.limit
      BY <1>1, <3>2, OtherParts
    <3> QED BY <2>1, <3>3, <3>4, PanelStays
  <2>4. CASE displaying = r /\ ~Fails(r, list)
    <3>1. displaying' = r /\ panel' = Rendered(r, view')
      BY <1>7, <2>1, <2>4 DEF ReceiveLaunch
    <3> QED BY <3>1, RenderedShows, PanelNext
  <2> QED BY <2>2, <2>3, <2>4
<1> QED BY <1>3, <1>4, <1>5, <1>6, <1>7 DEF TabStep

\* The panel of no result is there at first, and every step keeps it right.
THEOREM PanelInvariant == OutputPageSpec => [](MemoryInv /\ PanelInv)
<1>1. ViewerInit => PanelInv
  <2> SUFFICES ASSUME ViewerInit PROVE PanelInv
    OBVIOUS
  <2>1. PICK v : v = Fresh(None)
    OBVIOUS
  <2>2. displaying = None /\ view = v /\ panel = Rendered(None, v)
    BY <2>1 DEF ViewerInit
  <2> QED BY <2>2, RenderedShows DEF PanelInv
<1>2. OutputPageInit => MemoryInv /\ PanelInv
  BY <1>1, MemoryStart DEF OutputPageInit
<1>3. MemoryInv /\ PanelInv /\ [OutputPageNext]_<<vars, viewerVars>> => (MemoryInv /\ PanelInv)'
  <2> SUFFICES ASSUME MemoryInv, PanelInv, [OutputPageNext]_<<vars, viewerVars>>
               PROVE  MemoryInv' /\ PanelInv'
    OBVIOUS
  <2>1. MemoryInv'
    BY MemoryStep
  <2>2. CASE UNCHANGED viewerVars
    <3>1. UNCHANGED <<displaying, view, panel, stale>>
      BY <2>2 DEF viewerVars
    <3>2. PanelInv'
      BY <3>1, PanelStays
    <3> QED BY <2>1, <3>2
  <2>3. CASE TabStep
    BY <2>1, <2>3, TabStepPanel
  <2>4. CASE UserStep
    BY <2>1, <2>4, UserStepPanel
  <2> QED BY <2>2, <2>3, <2>4 DEF OutputPageNext, ViewerNext
<1> QED BY <1>2, <1>3, PTL DEF OutputPageSpec

\* The sliders and the boxes of the panel never disagree with the viewer, but
\* for the sliders after a launch that failed (renderModeControls(),
\* updateControlValues() and setChildVisibility() of mode3d.js).
THEOREM PanelAlwaysShowsView == OutputPageSpec => []PanelShowsView
<1>1. PanelInv => PanelShowsView
  <2> SUFFICES ASSUME PanelInv PROVE PanelShowsView
    OBVIOUS
  <2>1. PICK p : p = Rendered(displaying, view)
    OBVIOUS
  <2>2. /\ BoxesShow(displaying, view, p) /\ DOMAIN p.sliders = Listed(displaying, view)
        /\ SlidersShow(displaying, view, p)
    BY <2>1, RenderedShows
  <2>3. /\ BoxesShow(displaying, view, panel)
        /\ DOMAIN panel.sliders = Listed(displaying, view)
        /\ stale \/ SlidersShow(displaying, view, panel)
    BY DEF PanelInv
  <2>4. panel.boxes = p.boxes /\ panel.parents = p.parents /\ panel.elements = p.elements
    BY <2>2, <2>3 DEF BoxesShow
  <2>5. ASSUME ~stale
        PROVE  /\ panel.master = p.master /\ DOMAIN panel.sliders = DOMAIN p.sliders
               /\ \A mode \in DOMAIN panel.sliders :
                    /\ panel.sliders[mode].text = p.sliders[mode].text
                    /\ mode \in DOMAIN Of(displaying).weight =>
                            panel.sliders[mode] = p.sliders[mode]
    BY <2>2, <2>3, <2>5 DEF SlidersShow
  <2> QED BY <2>1, <2>4, <2>5 DEF PanelShowsView
<1> QED BY <1>1, PanelInvariant, PTL

-----------------------------------------------------------------------------
(* What the amplitudes of occupancy modes allow                            *)

\* The least and the greatest of two numbers.
LEMMA OfTwo ==
    ASSUME NEW a \in Int, NEW b \in Int
    PROVE  /\ Min({a, b}) \in {a, b} /\ Min({a, b}) <= a /\ Min({a, b}) <= b
           /\ Max({a, b}) \in {a, b} /\ a <= Max({a, b}) /\ b <= Max({a, b})
<1>1. PICK S : S = {a, b}
  OBVIOUS
<1>2. IsFiniteSet(S)
  <2>1. IsFiniteSet({} \cup {a})
    BY FS_EmptySet, FS_AddElement
  <2>2. IsFiniteSet(({} \cup {a}) \cup {b})
    BY <2>1, FS_AddElement
  <2>3. S = ({} \cup {a}) \cup {b}
    BY <1>1
  <2> QED BY <2>2, <2>3
<1>3. S \subseteq Int /\ S # {} /\ a \in S /\ b \in S
  BY <1>1
<1>4. /\ Max(S) \in S /\ \A y \in S : y <= Max(S)
      /\ Min(S) \in S /\ \A y \in S : Min(S) <= y
  BY <1>2, <1>3, MaxMin
<1> QED BY <1>1, <1>3, <1>4

\* What a positive factor keeps.
LEMMA Factored ==
    ASSUME NEW n \in Nat \ {0}, NEW x \in Int, NEW y \in Int, n * x <= n * y
    PROVE  x <= y
<1> SUFFICES ASSUME y < x PROVE FALSE
  OBVIOUS
<1>1. PICK d \in Nat : x = y + 1 + d
  <2>1. x - y - 1 \in Nat /\ x = y + 1 + (x - y - 1)
    OBVIOUS
  <2> QED BY <2>1
<1>2. n * x = n * y + n + n * d
  BY <1>1
<1>3. n * d \in Nat /\ n * y \in Int
  OBVIOUS
<1> QED BY <1>2, <1>3

\* The atoms of a result and what the occupancy modes do to them.
Atoms(r) == DOMAIN Of(r).base
OccupancyModes(r) == DOMAIN Of(r).weight
Weight(r, mode) == Of(r).weight[mode]

\* What the assumption on the constants says of one result: its atoms are
\* finitely many, and each mode moves each of them, and each shared position,
\* by one step at most.
LEMMA CrystalFacts ==
    ASSUME NEW r \in Shown
    PROVE  /\ IsFiniteSet(Atoms(r)) /\ Of(r).base = [a \in Atoms(r) |-> Of(r).base[a]]
           /\ \A a \in Atoms(r) : Of(r).base[a] \in Int
           /\ DOMAIN Of(r).position = Atoms(r)
           /\ IsFiniteSet(OccupancyModes(r)) /\ OccupancyModes(r) \subseteq ModesOf(r)
           /\ \A mode \in OccupancyModes(r) :
                /\ DOMAIN Weight(r, mode) = Atoms(r)
                /\ \A a \in Atoms(r) : Weight(r, mode)[a] \in {-1, 0, 1}
                /\ \A atoms \in SharedPositions(r) :
                        SumFunctionOnSet(Weight(r, mode), atoms) \in {-1, 0, 1}
<1>1. LET atoms == DOMAIN Of(r).base IN
            /\ IsFiniteSet(atoms) /\ Of(r).base \in [atoms -> Int] /\ DOMAIN Of(r).position = atoms
            /\ IsFiniteSet(DOMAIN Of(r).weight) /\ DOMAIN Of(r).weight \subseteq ModesOf(r)
            /\ \A mode \in DOMAIN Of(r).weight : DOMAIN Of(r).weight[mode] = atoms
  BY ViewerAssumption
<1>2. \A mode \in DOMAIN Of(r).weight :
            LET w == Of(r).weight[mode] IN
            /\ Range(w) \subseteq {-1, 0, 1}
            /\ \A atoms \in SharedPositions(r) : SumFunctionOnSet(w, atoms) \in {-1, 0, 1}
  BY ViewerAssumption
<1>3. ASSUME NEW mode \in OccupancyModes(r)
      PROVE  /\ DOMAIN Weight(r, mode) = Atoms(r)
             /\ \A a \in Atoms(r) : Weight(r, mode)[a] \in {-1, 0, 1}
             /\ \A atoms \in SharedPositions(r) :
                        SumFunctionOnSet(Weight(r, mode), atoms) \in {-1, 0, 1}
  BY <1>1, <1>2 DEF OccupancyModes, Weight, Atoms, Range
<1> QED BY <1>1, <1>3 DEF Atoms, OccupancyModes

\* The shared positions are finitely many finite sets of atoms.
LEMMA SharedFacts ==
    ASSUME NEW r \in Shown
    PROVE  /\ IsFiniteSet(SharedPositions(r))
           /\ \A atoms \in SharedPositions(r) : atoms \subseteq Atoms(r) /\ IsFiniteSet(atoms)
<1>1. /\ IsFiniteSet(Atoms(r)) /\ DOMAIN Of(r).position = Atoms(r)
  BY CrystalFacts
<1>2. PICK f : f = Of(r).position
  OBVIOUS
<1>3. PICK places : places = {f[a] : a \in Atoms(r)}
  OBVIOUS
<1>4. IsFiniteSet(places)
  BY <1>1, <1>3, FiniteImage
<1>5. PICK g : g = [p \in places |-> {a \in Atoms(r) : f[a] = p}]
  OBVIOUS
<1>6. PICK all : all = {g[p] : p \in places}
  OBVIOUS
<1>7. IsFiniteSet(all)
  BY <1>4, <1>6, FiniteImage
<1>8. SharedPositions(r) = {atoms \in all : Cardinality(atoms) > 1}
  <2>1. places = Range(f)
    BY <1>1, <1>2, <1>3 DEF Range
  <2>2. all = {{a \in DOMAIN f : f[a] = p} : p \in Range(f)}
    BY <1>1, <1>2, <1>5, <1>6, <2>1
  <2> QED BY <1>2, <2>2 DEF SharedPositions
<1>9. SharedPositions(r) \subseteq all /\ \A atoms \in all : atoms \subseteq Atoms(r)
  BY <1>5, <1>6, <1>8
<1>10. IsFiniteSet(SharedPositions(r))
  BY <1>7, <1>9, FS_Subset
<1>11. ASSUME NEW atoms \in SharedPositions(r) PROVE atoms \subseteq Atoms(r) /\ IsFiniteSet(atoms)
  BY <1>1, <1>9, FS_Subset
<1> QED BY <1>10, <1>11

-----------------------------------------------------------------------------
\* Whole amplitudes of the occupancy modes.
Whole(r, A) == \A mode \in OccupancyModes(r) : A[mode] \in Int

\* What one atom gets from the modes.
Gain(r, A, a) == [mode \in OccupancyModes(r) |-> A[mode] * Weight(r, mode)[a]]

\* Whole amplitudes make whole changes.
LEMMA ChangeType ==
    ASSUME NEW r \in Shown, NEW A, Whole(r, A)
    PROVE  /\ DOMAIN Change(r, A) = Atoms(r)
           /\ \A a \in Atoms(r) :
                /\ Change(r, A)[a] \in Int
                /\ Change(r, A)[a] = SumFunctionOnSet(Gain(r, A, a), OccupancyModes(r))
                /\ \A mode \in OccupancyModes(r) : Gain(r, A, a)[mode] \in Int
<1>1. \A a \in Atoms(r) : Change(r, A)[a] = SumFunctionOnSet(Gain(r, A, a), OccupancyModes(r))
  <2> TAKE a \in Atoms(r)
  <2>1. PICK f : f = Gain(r, A, a)
    OBVIOUS
  <2>2. DOMAIN f = OccupancyModes(r)
    BY <2>1 DEF Gain
  <2>3. Change(r, A)[a] = Total(f)
    BY <2>1 DEF Change, Gain, Atoms, OccupancyModes, Weight
  <2> QED BY <2>1, <2>2, <2>3 DEF Total, SumFunction
<1>2. DOMAIN Change(r, A) = Atoms(r)
  BY DEF Change, Atoms
<1>3. ASSUME NEW a \in Atoms(r)
      PROVE  /\ \A mode \in OccupancyModes(r) : Gain(r, A, a)[mode] \in Int
             /\ SumFunctionOnSet(Gain(r, A, a), OccupancyModes(r)) \in Int
  <2>1. \A mode \in OccupancyModes(r) : Gain(r, A, a)[mode] \in Int
    <3> TAKE mode \in OccupancyModes(r)
    <3>1. A[mode] \in Int /\ Weight(r, mode)[a] \in Int
      <4>1. Weight(r, mode)[a] \in {-1, 0, 1}
        BY CrystalFacts
      <4> QED BY <4>1 DEF Whole
    <3>2. Gain(r, A, a)[mode] = A[mode] * Weight(r, mode)[a]
      BY DEF Gain
    <3> QED BY <3>1, <3>2
  <2>2. IsFiniteSet(OccupancyModes(r))
    BY CrystalFacts
  <2> QED BY <2>1, <2>2, SumType
<1> QED BY <1>1, <1>2, <1>3

\* One mode is moved.
LEMMA ChangeMoved ==
    ASSUME NEW r \in Shown, NEW A, Whole(r, A), NEW B, NEW mode \in OccupancyModes(r),
           B[mode] \in Int, \A n \in OccupancyModes(r) : n # mode => B[n] = A[n]
    PROVE  /\ Whole(r, B)
           /\ \A a \in Atoms(r) : Change(r, B)[a]
                    = Change(r, A)[a] + (B[mode] - A[mode]) * Weight(r, mode)[a]
<1>1. Whole(r, B)
  BY DEF Whole
<1>2. ASSUME NEW a \in Atoms(r)
      PROVE  Change(r, B)[a] = Change(r, A)[a] + (B[mode] - A[mode]) * Weight(r, mode)[a]
  <2>1. PICK f : f = Gain(r, A, a)
    OBVIOUS
  <2>2. PICK g : g = Gain(r, B, a)
    OBVIOUS
  <2>3. PICK M : M = OccupancyModes(r)
    OBVIOUS
  <2>4. IsFiniteSet(M) /\ IsFiniteSet(M \ {mode})
    BY <2>3, CrystalFacts, FS_Subset
  <2>5. /\ \A n \in M : f[n] \in Int
        /\ Change(r, A)[a] = SumFunctionOnSet(f, M)
    BY <2>1, <2>3, ChangeType
  <2>6. /\ \A n \in M : g[n] \in Int
        /\ Change(r, B)[a] = SumFunctionOnSet(g, M)
    BY <1>1, <2>2, <2>3, ChangeType
  <2>7. SumFunctionOnSet(f, M) = f[mode] + SumFunctionOnSet(f, M \ {mode})
    BY <2>3, <2>4, <2>5, SumSplit
  <2>8. SumFunctionOnSet(g, M) = g[mode] + SumFunctionOnSet(g, M \ {mode})
    BY <2>3, <2>4, <2>6, SumSplit
  <2>9. \A n \in M \ {mode} : f[n] \in Int /\ g[n] = f[n]
    BY <2>1, <2>2, <2>3, <2>5 DEF Gain
  <2>10. SumFunctionOnSet(g, M \ {mode}) = SumFunctionOnSet(f, M \ {mode})
    BY <2>4, <2>9, SumSame
  <2>11. PICK s \in Int : s = SumFunctionOnSet(f, M \ {mode})
    BY <2>4, <2>9, SumType
  <2>12. f[mode] = A[mode] * Weight(r, mode)[a] /\ g[mode] = B[mode] * Weight(r, mode)[a]
    BY <2>1, <2>2 DEF Gain
  <2>13. PICK x \in Int, y \in Int, w \in Int : x = A[mode] /\ y = B[mode] /\ w = Weight(r, mode)[a]
    <3>1. Weight(r, mode)[a] \in {-1, 0, 1}
      BY CrystalFacts
    <3> QED BY <3>1 DEF Whole
  <2>14. Change(r, A)[a] = x * w + s
    BY <2>5, <2>7, <2>11, <2>12, <2>13
  <2>15. Change(r, B)[a] = y * w + s
    BY <2>6, <2>8, <2>10, <2>11, <2>12, <2>13
  <2>16. y * w + s = x * w + s + (y - x) * w
    OBVIOUS
  <2> QED BY <2>13, <2>14, <2>15, <2>16
<1> QED BY <1>1, <1>2

-----------------------------------------------------------------------------
\* Amplitudes that fill every atom and every shared position in the child at
\* most once, and no atom less than not at all.
Filled(r, A, atoms) == SumFunctionOnSet(Of(r).base, atoms) + SumFunctionOnSet(Change(r, A), atoms)
Feasible(r, A) ==
    /\ \A a \in Atoms(r) : Of(r).base[a] + Change(r, A)[a] \in 0..FULL
    /\ \A atoms \in SharedPositions(r) : Filled(r, A, atoms) <= FULL

\* What atoms of a shared position hold, at any master amplitude.
LEMMA HeldAt ==
    ASSUME NEW r \in Shown, NEW A, Whole(r, A), NEW m \in Int, NEW atoms \in SharedPositions(r)
    PROVE  /\ SumFunctionOnSet(Of(r).base, atoms) \in Int
           /\ SumFunctionOnSet(Change(r, A), atoms) \in Int
           /\ SumFunctionOnSet(OccupancyAt(r, A, m), atoms)
                = MASTER * SumFunctionOnSet(Of(r).base, atoms)
                    + m * SumFunctionOnSet(Change(r, A), atoms)
<1>1. PICK f : f = Of(r).base
  OBVIOUS
<1>2. PICK g : g = Change(r, A)
  OBVIOUS
<1>3. PICK h : h = OccupancyAt(r, A, m)
  OBVIOUS
<1>4. IsFiniteSet(atoms) /\ atoms \subseteq Atoms(r)
  BY SharedFacts
<1>5. \A a \in Atoms(r) : f[a] \in Int
  BY <1>1, CrystalFacts
<1>6. DOMAIN g = Atoms(r) /\ \A a \in Atoms(r) : g[a] \in Int
  BY <1>2, ChangeType
<1>7. \A a \in Atoms(r) : h[a] = MASTER * f[a] + m * g[a]
  BY <1>1, <1>2, <1>3, <1>6 DEF OccupancyAt
<1>8. MASTER \in Int
  BY ViewerAssumption
<1>9. \A a \in atoms : f[a] \in Int /\ g[a] \in Int /\ h[a] = MASTER * f[a] + m * g[a]
  BY <1>4, <1>5, <1>6, <1>7
<1>10. SumFunctionOnSet(h, atoms) = MASTER * SumFunctionOnSet(f, atoms) + m * SumFunctionOnSet(g, atoms)
  BY <1>4, <1>8, <1>9, SumLinear
<1>11. \A a \in atoms : f[a] \in Int
  BY <1>9
<1>12. \A a \in atoms : g[a] \in Int
  BY <1>9
<1>13. SumFunctionOnSet(f, atoms) \in Int
  BY <1>4, <1>11, SumType
<1>14. SumFunctionOnSet(g, atoms) \in Int
  BY <1>4, <1>12, SumType
<1> QED BY <1>1, <1>2, <1>3, <1>10, <1>13, <1>14

\* What each atom has, at any master amplitude.
LEMMA AtomAt ==
    ASSUME NEW r \in Shown, NEW A, Whole(r, A), NEW m
    PROVE  /\ DOMAIN OccupancyAt(r, A, m) = Atoms(r)
           /\ \A a \in Atoms(r) :
                OccupancyAt(r, A, m)[a] = MASTER * Of(r).base[a] + m * Change(r, A)[a]
<1>1. PICK g : g = Change(r, A)
  OBVIOUS
<1>2. DOMAIN g = Atoms(r)
  BY <1>1, ChangeType
<1>3. OccupancyAt(r, A, m) = [a \in DOMAIN g |-> MASTER * Of(r).base[a] + m * g[a]]
  BY <1>1 DEF OccupancyAt
<1> QED BY <1>1, <1>2, <1>3

\* The parent is feasible.
LEMMA ParentFeasible ==
    ASSUME NEW r \in Shown
    PROVE  /\ \A a \in Atoms(r) : Of(r).base[a] \in 0..FULL
           /\ \A atoms \in SharedPositions(r) : SumFunctionOnSet(Of(r).base, atoms) <= FULL
<1>1. PICK A : A = [mode \in ModesOf(r) |-> 0]
  OBVIOUS
<1>2. Whole(r, A)
  <2>1. OccupancyModes(r) \subseteq ModesOf(r)
    BY CrystalFacts
  <2> QED BY <1>1, <2>1 DEF Whole
<1>3. Possible(r, A, 0)
  BY <1>1, ViewerAssumption
<1>4. MASTER \in Nat \ {0} /\ FULL \in Nat
  BY ViewerAssumption
<1>5. PICK h : h = OccupancyAt(r, A, 0)
  OBVIOUS
<1>6. /\ \A a \in DOMAIN h : h[a] \in 0..(MASTER * FULL)
      /\ \A atoms \in SharedPositions(r) : SumFunctionOnSet(h, atoms) <= MASTER * FULL
  BY <1>3, <1>5 DEF Possible
<1>7. ASSUME NEW a \in Atoms(r) PROVE Of(r).base[a] \in 0..FULL
  <2>1. PICK b \in Int : b = Of(r).base[a]
    BY CrystalFacts
  <2>2. PICK c \in Int : c = Change(r, A)[a]
    BY <1>2, ChangeType
  <2>3. h[a] = MASTER * b + 0 * c /\ a \in DOMAIN h
    BY <1>2, <1>5, <2>1, <2>2, AtomAt
  <2>4. MASTER * b \in 0..(MASTER * FULL)
    <3>1. MASTER * b + 0 * c = MASTER * b
      BY <1>4
    <3> QED BY <1>6, <2>3, <3>1
  <2>5. MASTER * 0 <= MASTER * b /\ MASTER * b <= MASTER * FULL
    BY <1>4, <2>4
  <2>6. 0 <= b
    BY <1>4, <2>5, Factored
  <2>7. b <= FULL
    BY <1>4, <2>5, Factored
  <2> QED BY <1>4, <2>1, <2>6, <2>7
<1>8. ASSUME NEW atoms \in SharedPositions(r) PROVE SumFunctionOnSet(Of(r).base, atoms) <= FULL
  <2>1. PICK b \in Int : b = SumFunctionOnSet(Of(r).base, atoms)
    BY <1>2, HeldAt
  <2>2. PICK c \in Int : c = SumFunctionOnSet(Change(r, A), atoms)
    BY <1>2, HeldAt
  <2>3. SumFunctionOnSet(h, atoms) = MASTER * b + 0 * c
    BY <1>2, <1>5, <2>1, <2>2, HeldAt
  <2>4. MASTER * b <= MASTER * FULL
    <3>1. MASTER * b + 0 * c = MASTER * b
      BY <1>4
    <3> QED BY <1>6, <2>3, <3>1
  <2>5. b <= FULL
    BY <1>4, <2>4, Factored
  <2> QED BY <2>1, <2>5
<1> QED BY <1>7, <1>8

\* A value between that of the parent and that of the child.
LEMMA Between ==
    ASSUME NEW n \in Nat, NEW m \in 0..n, NEW b \in Int, NEW c \in Int, NEW k \in Int
    PROVE  /\ b <= k /\ b + c <= k => n * b + m * c <= n * k
           /\ 0 <= b /\ 0 <= b + c => 0 <= n * b + m * c
<1>1. PICK q \in Nat : q = n - m
  OBVIOUS
<1>2. PICK d \in Int : d = b + c
  OBVIOUS
<1>3. n * b + m * c = q * b + m * d
  <2>1. n = q + m /\ c = d - b
    BY <1>1, <1>2
  <2>2. (q + m) * b + m * (d - b) = q * b + m * d
    OBVIOUS
  <2> QED BY <2>1, <2>2
<1>4. n * k = q * k + m * k
  <2>1. n = q + m
    BY <1>1
  <2> QED BY <2>1
<1>5. ASSUME NEW s \in Nat, NEW x \in Int, NEW y \in Int, x <= y PROVE s * x <= s * y
  <2>1. PICK e \in Nat : y = x + e
    <3>1. y - x \in Nat /\ y = x + (y - x)
      BY <1>5
    <3> QED BY <3>1
  <2>2. s * y = s * x + s * e /\ s * e \in Nat /\ s * x \in Int
    BY <2>1
  <2> QED BY <2>2
<1>6. m \in Nat /\ q * b \in Int /\ m * d \in Int /\ q * k \in Int /\ m * k \in Int
  BY <1>1, <1>2
<1>7. ASSUME b <= k, d <= k PROVE n * b + m * c <= n * k
  <2>1. q * b <= q * k
    BY <1>5, <1>7
  <2>2. m * d <= m * k
    BY <1>5, <1>6, <1>7
  <2> QED BY <1>3, <1>4, <1>6, <2>1, <2>2
<1>8. ASSUME 0 <= b, 0 <= d PROVE 0 <= n * b + m * c
  <2>1. q * 0 <= q * b
    BY <1>5, <1>8
  <2>2. m * 0 <= m * d
    BY <1>5, <1>6, <1>8
  <2>3. q * 0 = 0 /\ m * 0 = 0
    BY <1>6
  <2> QED BY <1>3, <1>6, <2>1, <2>2, <2>3
<1> QED BY <1>2, <1>7, <1>8

\* The comment of occupancyRanges(): what is possible at master amplitude 1 is
\* possible at every one.
LEMMA FeasiblePossible ==
    ASSUME NEW r \in Shown, NEW A, Whole(r, A)
    PROVE  Feasible(r, A) <=> \A m \in 0..MASTER : Possible(r, A, m)
<1>1. MASTER \in Nat \ {0} /\ FULL \in Nat /\ MASTER \in 0..MASTER
  BY ViewerAssumption
<1>2. ASSUME Feasible(r, A), NEW m \in 0..MASTER PROVE Possible(r, A, m)
  <2>1. PICK h : h = OccupancyAt(r, A, m)
    OBVIOUS
  <2>2. ASSUME NEW a \in DOMAIN h PROVE h[a] \in 0..(MASTER * FULL)
    <3>1. a \in Atoms(r) /\ h[a] = MASTER * Of(r).base[a] + m * Change(r, A)[a]
      BY <2>1, <2>2, AtomAt
    <3>2. PICK b \in Int : b = Of(r).base[a] /\ b \in 0..FULL
      BY <3>1, ParentFeasible
    <3>3. PICK c \in Int : c = Change(r, A)[a]
      BY <3>1, ChangeType
    <3>4. b + c \in 0..FULL
      BY <1>2, <3>1, <3>2, <3>3 DEF Feasible
    <3>5. b <= FULL /\ b + c <= FULL /\ 0 <= b /\ 0 <= b + c
      BY <1>1, <3>2, <3>4
    <3>6. MASTER * b + m * c <= MASTER * FULL /\ 0 <= MASTER * b + m * c
      BY <1>1, <3>5, Between
    <3>7. MASTER * b + m * c \in Int /\ MASTER * FULL \in Int
      BY <1>1
    <3>8. MASTER * b + m * c \in 0..(MASTER * FULL)
      BY <3>6, <3>7
    <3> QED BY <3>1, <3>2, <3>3, <3>8
  <2>3. ASSUME NEW atoms \in SharedPositions(r) PROVE SumFunctionOnSet(h, atoms) <= MASTER * FULL
    <3>1. PICK b \in Int : b = SumFunctionOnSet(Of(r).base, atoms)
      BY HeldAt
    <3>2. PICK c \in Int : c = SumFunctionOnSet(Change(r, A), atoms)
      BY HeldAt
    <3>3. SumFunctionOnSet(h, atoms) = MASTER * b + m * c
      BY <2>1, <3>1, <3>2, HeldAt
    <3>4. b <= FULL
      BY <3>1, ParentFeasible
    <3>5. b + c <= FULL
      BY <1>2, <3>1, <3>2 DEF Feasible, Filled
    <3>6. MASTER * b + m * c <= MASTER * FULL
      BY <1>1, <3>4, <3>5, Between
    <3> QED BY <3>3, <3>6
  <2> QED BY <2>1, <2>2, <2>3 DEF Possible
<1>3. ASSUME Possible(r, A, MASTER) PROVE Feasible(r, A)
  <2>1. PICK h : h = OccupancyAt(r, A, MASTER)
    OBVIOUS
  <2>2. /\ \A a \in DOMAIN h : h[a] \in 0..(MASTER * FULL)
        /\ \A atoms \in SharedPositions(r) : SumFunctionOnSet(h, atoms) <= MASTER * FULL
    BY <1>3, <2>1 DEF Possible
  <2>3. ASSUME NEW a \in Atoms(r) PROVE Of(r).base[a] + Change(r, A)[a] \in 0..FULL
    <3>1. PICK b \in Int : b = Of(r).base[a]
      BY CrystalFacts
    <3>2. PICK c \in Int : c = Change(r, A)[a]
      BY ChangeType
    <3>3. h[a] = MASTER * b + MASTER * c /\ a \in DOMAIN h
      BY <2>1, <3>1, <3>2, AtomAt
    <3>4. PICK d \in Int : d = b + c
      OBVIOUS
    <3>5. MASTER * b + MASTER * c = MASTER * d
      BY <1>1, <3>4
    <3>6. MASTER * d \in 0..(MASTER * FULL)
      BY <2>2, <3>3, <3>5
    <3>7. MASTER * 0 <= MASTER * d /\ MASTER * d <= MASTER * FULL
      BY <1>1, <3>6
    <3>8. 0 <= d
      BY <1>1, <3>7, Factored
    <3>9. d <= FULL
      BY <1>1, <3>7, Factored
    <3> QED BY <1>1, <3>1, <3>2, <3>4, <3>8, <3>9
  <2>4. ASSUME NEW atoms \in SharedPositions(r) PROVE Filled(r, A, atoms) <= FULL
    <3>1. PICK b \in Int : b = SumFunctionOnSet(Of(r).base, atoms)
      BY HeldAt
    <3>2. PICK c \in Int : c = SumFunctionOnSet(Change(r, A), atoms)
      BY HeldAt
    <3>3. SumFunctionOnSet(h, atoms) = MASTER * b + MASTER * c
      BY <1>1, <2>1, <3>1, <3>2, HeldAt
    <3>4. PICK d \in Int : d = b + c
      OBVIOUS
    <3>5. MASTER * b + MASTER * c = MASTER * d
      BY <1>1, <3>4
    <3>6. MASTER * d <= MASTER * FULL
      BY <2>2, <3>3, <3>5
    <3>7. d <= FULL
      BY <1>1, <3>6, Factored
    <3> QED BY <3>1, <3>2, <3>4, <3>7 DEF Filled
  <2> QED BY <2>3, <2>4 DEF Feasible
<1> QED BY <1>1, <1>2, <1>3

-----------------------------------------------------------------------------
\* How far a mode may be moved: what each atom allows. Rest is what the atom
\* has without the mode.
Rest(r, A, mode, a) == Of(r).base[a] + Change(r, A)[a] - A[mode] * Weight(r, mode)[a]

\* The ends an atom allows are what its rest leaves below and above it.
LEMMA AtomRangeFacts ==
    ASSUME NEW r \in Shown, NEW A, Whole(r, A), NEW mode \in OccupancyModes(r), mode \in DOMAIN A
    PROVE  /\ AtomRange(r, A, mode)[1] \in Int /\ AtomRange(r, A, mode)[2] \in Int
           /\ \A a \in Atoms(r) :
                /\ Rest(r, A, mode, a) \in Int
                /\ Weight(r, mode)[a] > 0 =>
                        /\ 0 - Rest(r, A, mode, a) <= AtomRange(r, A, mode)[1]
                        /\ AtomRange(r, A, mode)[2] <= FULL - Rest(r, A, mode, a)
                /\ Weight(r, mode)[a] < 0 =>
                        /\ Rest(r, A, mode, a) - FULL <= AtomRange(r, A, mode)[1]
                        /\ AtomRange(r, A, mode)[2] <= Rest(r, A, mode, a)
<1>1. PICK w : w = Weight(r, mode)
  OBVIOUS
<1>2. PICK B : B = [A EXCEPT ![mode] = 0]
  OBVIOUS
<1>3. PICK change : change = Change(r, B)
  OBVIOUS
<1>4. FULL \in Int /\ A[mode] \in Int
  BY ViewerAssumption DEF Whole
<1>5. \A a \in Atoms(r) : w[a] \in {-1, 0, 1}
  BY <1>1, CrystalFacts
<1>6. DOMAIN w = Atoms(r) /\ IsFiniteSet(Atoms(r))
  BY <1>1, CrystalFacts
<1>7. PICK rest : rest = [a \in Atoms(r) |-> Of(r).base[a] + change[a]]
  OBVIOUS
<1>8. \A a \in Atoms(r) : rest[a] = Rest(r, A, mode, a) /\ rest[a] \in Int
  <2>1. B[mode] \in Int /\ \A n \in OccupancyModes(r) : n # mode => B[n] = A[n]
    BY <1>2
  <2> TAKE a \in Atoms(r)
  <2>2. change[a] = Change(r, A)[a] + (B[mode] - A[mode]) * w[a]
    BY <1>1, <1>3, <2>1, ChangeMoved
  <2>3. PICK c \in Int, x \in Int, b \in Int, v \in Int :
            c = Change(r, A)[a] /\ x = A[mode] /\ b = Of(r).base[a] /\ v = w[a]
    <3>1. Change(r, A)[a] \in Int
      BY ChangeType
    <3>2. Of(r).base[a] \in Int
      BY CrystalFacts
    <3>3. w[a] \in Int
      BY <1>5
    <3> QED BY <1>4, <3>1, <3>2, <3>3
  <2>4. B[mode] = 0
    BY <1>2
  <2>5. change[a] = c + (0 - x) * v
    BY <2>2, <2>3, <2>4
  <2>6. rest[a] = b + (c + (0 - x) * v)
    BY <1>7, <2>3, <2>5
  <2>7. Rest(r, A, mode, a) = b + c - x * v
    BY <1>1, <2>3 DEF Rest
  <2>8. b + (c + (0 - x) * v) = b + c - x * v /\ b + c - x * v \in Int
    OBVIOUS
  <2> QED BY <2>6, <2>7, <2>8
<1>9. PICK moved : moved = {a \in Atoms(r) : w[a] # 0}
  OBVIOUS
<1>10. PICK low : low = [a \in moved |-> IF w[a] > 0 THEN 0 - rest[a] ELSE rest[a] - FULL]
  OBVIOUS
<1>11. PICK high : high = [a \in moved |-> IF w[a] > 0 THEN FULL - rest[a] ELSE rest[a]]
  OBVIOUS
<1>12. PICK lows : lows = {low[a] : a \in moved}
  OBVIOUS
<1>13. PICK highs : highs = {high[a] : a \in moved}
  OBVIOUS
<1>14. AtomRange(r, A, mode) = IF moved = {} THEN <<0, 0>> ELSE <<Max(lows), Min(highs)>>
  <2>1. moved = {a \in DOMAIN w : w[a] # 0}
    BY <1>6, <1>9
  <2>2. lows = {IF w[a] > 0 THEN 0 - (Of(r).base[a] + change[a])
                ELSE (Of(r).base[a] + change[a]) - FULL : a \in moved}
    BY <1>7, <1>9, <1>10, <1>12
  <2>3. highs = {IF w[a] > 0 THEN FULL - (Of(r).base[a] + change[a])
                 ELSE Of(r).base[a] + change[a] : a \in moved}
    BY <1>7, <1>9, <1>11, <1>13
  <2> QED BY <1>1, <1>2, <1>3, <2>1, <2>2, <2>3 DEF AtomRange, Weight
<1>15. CASE moved = {}
  BY <1>1, <1>5, <1>8, <1>9, <1>14, <1>15
<1>16. CASE moved # {}
  <2>1. moved \subseteq Atoms(r) /\ IsFiniteSet(moved)
    BY <1>6, <1>9, FS_Subset
  <2>2. \A a \in moved : low[a] \in Int /\ high[a] \in Int
    BY <1>4, <1>8, <1>10, <1>11, <2>1
  <2>3. IsFiniteSet(lows) /\ lows \subseteq Int /\ lows # {}
    BY <1>12, <1>16, <2>1, <2>2, FiniteImage
  <2>4. IsFiniteSet(highs) /\ highs \subseteq Int /\ highs # {}
    BY <1>13, <1>16, <2>1, <2>2, FiniteImage
  <2>5. Max(lows) \in lows /\ \A y \in lows : y <= Max(lows)
    BY <2>3, MaxMin
  <2>6. Min(highs) \in highs /\ \A y \in highs : Min(highs) <= y
    BY <2>4, MaxMin
  <2>7. PICK lo \in Int, hi \in Int : lo = Max(lows) /\ hi = Min(highs)
    BY <2>3, <2>4, <2>5, <2>6
  <2>8. AtomRange(r, A, mode)[1] = lo /\ AtomRange(r, A, mode)[2] = hi
    BY <1>14, <1>16, <2>7
  <2>9. \A a \in moved : low[a] <= lo /\ hi <= high[a]
    BY <1>12, <1>13, <2>5, <2>6, <2>7
  <2>10. ASSUME NEW a \in Atoms(r)
         PROVE  /\ w[a] > 0 => 0 - rest[a] <= lo /\ hi <= FULL - rest[a]
                /\ w[a] < 0 => rest[a] - FULL <= lo /\ hi <= rest[a]
    <3>1. CASE w[a] = 0
      BY <3>1
    <3>2. CASE w[a] # 0
      <4>1. a \in moved
        BY <1>9, <3>2
      <4>2. /\ low[a] = IF w[a] > 0 THEN 0 - rest[a] ELSE rest[a] - FULL
            /\ high[a] = IF w[a] > 0 THEN FULL - rest[a] ELSE rest[a]
        BY <1>10, <1>11, <4>1
      <4>3. low[a] <= lo /\ hi <= high[a]
        BY <2>9, <4>1
      <4>4. w[a] \in {-1, 1}
        BY <1>5, <3>2
      <4> QED BY <4>2, <4>3, <4>4
    <3> QED BY <3>1, <3>2
  <2> QED BY <1>1, <1>8, <2>7, <2>8, <2>10
<1> QED BY <1>15, <1>16

\* What the shared positions allow: how far their atoms are from filling it.
Room(r, A, atoms) == FULL - SumFunctionOnSet(Of(r).base, atoms) - SumFunctionOnSet(Change(r, A), atoms)
Edges(r, A, mode, sign) ==
    {A[mode] + sign * Room(r, A, atoms) :
        atoms \in {s \in SharedPositions(r) : SumFunctionOnSet(Weight(r, mode), s) = sign}}

\* The edges the shared positions set are finitely many whole numbers.
LEMMA EdgeFacts ==
    ASSUME NEW r \in Shown, NEW A, Whole(r, A), NEW mode \in OccupancyModes(r),
           NEW sign \in {-1, 1}
    PROVE  IsFiniteSet(Edges(r, A, mode, sign)) /\ Edges(r, A, mode, sign) \subseteq Int
<1>1. PICK some : some = {s \in SharedPositions(r) : SumFunctionOnSet(Weight(r, mode), s) = sign}
  OBVIOUS
<1>2. some \subseteq SharedPositions(r) /\ IsFiniteSet(some)
  BY <1>1, SharedFacts, FS_Subset
<1>3. PICK f : f = [atoms \in some |-> A[mode] + sign * Room(r, A, atoms)]
  OBVIOUS
<1>4. Edges(r, A, mode, sign) = {f[atoms] : atoms \in some}
  BY <1>1, <1>3 DEF Edges
<1>5. \A atoms \in some : f[atoms] \in Int
  <2> TAKE atoms \in some
  <2>1. PICK b \in Int : b = SumFunctionOnSet(Of(r).base, atoms)
    BY <1>2, HeldAt
  <2>2. PICK c \in Int : c = SumFunctionOnSet(Change(r, A), atoms)
    BY <1>2, HeldAt
  <2>3. PICK x \in Int, y \in Int : x = A[mode] /\ y = Room(r, A, atoms)
    BY <2>1, <2>2, ViewerAssumption DEF Room, Whole
  <2>4. f[atoms] = x + sign * y
    BY <1>3, <2>3
  <2> QED BY <2>4
<1> QED BY <1>2, <1>4, <1>5, FiniteImage

\* occupancyRanges() in these words.
LEMMA RangeParts ==
    ASSUME NEW r \in Shown, NEW A, NEW mode \in OccupancyModes(r)
    PROVE  occupancyRanges(r, A)[mode] =
              <<Min({Max({AtomRange(r, A, mode)[1]} \cup Edges(r, A, mode, -1)), A[mode]}),
                Max({Min({AtomRange(r, A, mode)[2]} \cup Edges(r, A, mode, 1)), A[mode]})>>
BY DEF occupancyRanges, Edges, Room, Weight, OccupancyModes

\* A finite set of whole numbers with one more.
LEMMA OneMore ==
    ASSUME NEW S, IsFiniteSet(S), S \subseteq Int, NEW x \in Int
    PROVE  /\ Max({x} \cup S) \in Int /\ x <= Max({x} \cup S) /\ \A y \in S : y <= Max({x} \cup S)
           /\ Min({x} \cup S) \in Int /\ Min({x} \cup S) <= x /\ \A y \in S : Min({x} \cup S) <= y
           /\ Min({x} \cup S) \in {x} \cup S
<1>1. PICK T : T = {x} \cup S
  OBVIOUS
<1>2. IsFiniteSet(T)
  <2>1. T = S \cup {x}
    BY <1>1
  <2> QED BY <2>1, FS_AddElement
<1>3. T \subseteq Int /\ T # {} /\ x \in T /\ S \subseteq T
  BY <1>1
<1>4. /\ Max(T) \in T /\ \A y \in T : y <= Max(T)
      /\ Min(T) \in T /\ \A y \in T : Min(T) <= y
  BY <1>2, <1>3, MaxMin
<1> QED BY <1>1, <1>3, <1>4

\* The ends of a range are whole; a value within them that is above the
\* amplitude is within what the atoms and the shared positions allow, and so
\* is one below.
LEMMA RangeFacts ==
    ASSUME NEW r \in Shown, NEW A, Whole(r, A), NEW mode \in OccupancyModes(r), mode \in DOMAIN A
    PROVE  LET range == occupancyRanges(r, A)[mode] IN
           /\ range[1] \in Int /\ range[2] \in Int
           /\ \A y \in Int : A[mode] < y /\ y <= range[2] =>
                /\ y <= AtomRange(r, A, mode)[2]
                /\ \A e \in Edges(r, A, mode, 1) : y <= e
           /\ \A y \in Int : y < A[mode] /\ range[1] <= y =>
                /\ AtomRange(r, A, mode)[1] <= y
                /\ \A e \in Edges(r, A, mode, -1) : e <= y
<1>1. PICK x \in Int, lo \in Int, hi \in Int :
        x = A[mode] /\ lo = AtomRange(r, A, mode)[1] /\ hi = AtomRange(r, A, mode)[2]
  <2>1. AtomRange(r, A, mode)[1] \in Int /\ AtomRange(r, A, mode)[2] \in Int
    BY AtomRangeFacts
  <2> QED BY <2>1 DEF Whole
<1>2. PICK down : down = Edges(r, A, mode, -1)
  OBVIOUS
<1>3. PICK up : up = Edges(r, A, mode, 1)
  OBVIOUS
<1>4. IsFiniteSet(down) /\ down \subseteq Int
  <2>1. PICK sign \in {-1, 1} : sign = -1
    OBVIOUS
  <2> QED BY <1>2, <2>1, EdgeFacts
<1>5. IsFiniteSet(up) /\ up \subseteq Int
  <2>1. PICK sign \in {-1, 1} : sign = 1
    OBVIOUS
  <2> QED BY <1>3, <2>1, EdgeFacts
<1>6. PICK l \in Int : l = Max({lo} \cup down) /\ lo <= l /\ \A e \in down : e <= l
  <2>1. PICK l : l = Max({lo} \cup down)
    OBVIOUS
  <2>2. l \in Int /\ lo <= l /\ \A e \in down : e <= l
    BY <1>4, <2>1, OneMore
  <2> QED BY <2>1, <2>2
<1>7. PICK h \in Int : h = Min({hi} \cup up) /\ h <= hi /\ \A e \in up : h <= e
  <2>1. PICK h : h = Min({hi} \cup up)
    OBVIOUS
  <2>2. h \in Int /\ h <= hi /\ \A e \in up : h <= e
    BY <1>5, <2>1, OneMore
  <2> QED BY <2>1, <2>2
<1>8. PICK range : range = occupancyRanges(r, A)[mode]
  OBVIOUS
<1>9. range = <<Min({l, x}), Max({h, x})>>
  BY <1>1, <1>2, <1>3, <1>6, <1>7, <1>8, RangeParts
<1>10. range[1] \in {l, x}
  BY <1>9, OfTwo
<1>11. range[2] \in {h, x}
  BY <1>9, OfTwo
<1>12. ASSUME NEW y \in Int, x < y, y <= range[2]
       PROVE  y <= hi /\ \A e \in up : y <= e
  <2>1. y <= h
    BY <1>11, <1>12
  <2>2. y <= hi
    BY <1>7, <2>1
  <2>3. ASSUME NEW e \in up PROVE y <= e
    <3>1. e \in Int /\ h <= e
      BY <1>5, <1>7, <2>3
    <3> QED BY <2>1, <3>1
  <2> QED BY <2>2, <2>3
<1>13. ASSUME NEW y \in Int, y < x, range[1] <= y
       PROVE  lo <= y /\ \A e \in down : e <= y
  <2>1. l <= y
    BY <1>10, <1>13
  <2>2. lo <= y
    BY <1>6, <2>1
  <2>3. ASSUME NEW e \in down PROVE e <= y
    <3>1. e \in Int /\ e <= l
      BY <1>4, <1>6, <2>3
    <3> QED BY <2>1, <3>1
  <2> QED BY <2>2, <2>3
<1>14. range[1] \in Int /\ range[2] \in Int
  BY <1>10, <1>11
<1> QED BY <1>1, <1>2, <1>3, <1>8, <1>12, <1>13, <1>14

\* Within its range a mode keeps the amplitudes feasible.
LEMMA RangeFeasible ==
    ASSUME NEW r \in Shown, NEW A, Whole(r, A), Feasible(r, A),
           NEW mode \in OccupancyModes(r), mode \in DOMAIN A,
           NEW B, B[mode] \in Int, \A n \in OccupancyModes(r) : n # mode => B[n] = A[n],
           occupancyRanges(r, A)[mode][1] <= B[mode], B[mode] <= occupancyRanges(r, A)[mode][2]
    PROVE  Whole(r, B) /\ Feasible(r, B)
<1>1. FULL \in Nat
  BY ViewerAssumption
<1>2. PICK x \in Int, y \in Int : x = A[mode] /\ y = B[mode]
  BY DEF Whole
<1>3. PICK w : w = Weight(r, mode)
  OBVIOUS
<1>4. /\ Whole(r, B)
      /\ \A a \in Atoms(r) : Change(r, B)[a] = Change(r, A)[a] + (y - x) * w[a]
  BY <1>2, <1>3, ChangeMoved
<1>5. /\ x < y => /\ y <= AtomRange(r, A, mode)[2]
                  /\ \A e \in Edges(r, A, mode, 1) : y <= e
      /\ y < x => /\ AtomRange(r, A, mode)[1] <= y
                  /\ \A e \in Edges(r, A, mode, -1) : e <= y
  BY <1>2, RangeFacts
<1>6. ASSUME NEW a \in Atoms(r) PROVE Of(r).base[a] + Change(r, B)[a] \in 0..FULL
  <2>1. PICK b \in Int, c \in Int, lo \in Int, hi \in Int :
            /\ b = Of(r).base[a] /\ c = Change(r, A)[a]
            /\ lo = AtomRange(r, A, mode)[1] /\ hi = AtomRange(r, A, mode)[2]
    <3>1. Of(r).base[a] \in Int
      BY CrystalFacts
    <3>2. Change(r, A)[a] \in Int
      BY ChangeType
    <3>3. AtomRange(r, A, mode)[1] \in Int /\ AtomRange(r, A, mode)[2] \in Int
      BY AtomRangeFacts
    <3> QED BY <3>1, <3>2, <3>3
  <2>2. b + c \in 0..FULL
    BY <2>1 DEF Feasible
  <2>3. PICK v \in {-1, 0, 1} : v = w[a]
    BY <1>3, CrystalFacts
  <2>4. Change(r, B)[a] = c + (y - x) * v
    BY <1>4, <2>1, <2>3
  <2>5. PICK rest \in Int : rest = Rest(r, A, mode, a) /\ rest = b + c - x * v
    BY <1>2, <1>3, <2>1, <2>3 DEF Rest
  <2>6. /\ v > 0 => 0 - rest <= lo /\ hi <= FULL - rest
        /\ v < 0 => rest - FULL <= lo /\ hi <= rest
    BY <1>3, <2>1, <2>3, <2>5, AtomRangeFacts
  <2>7. (x < y => y <= hi) /\ (y < x => lo <= y)
    BY <1>5, <2>1
  <2>8. b + (c + (y - x) * v) \in 0..FULL
    <3>1. CASE v = 0
      BY <2>2, <3>1
    <3>2. CASE v = 1
      BY <1>1, <2>2, <2>5, <2>6, <2>7, <3>2
    <3>3. CASE v = -1
      BY <1>1, <2>2, <2>5, <2>6, <2>7, <3>3
    <3> QED BY <2>3, <3>1, <3>2, <3>3
  <2> QED BY <2>1, <2>4, <2>8
<1>7. ASSUME NEW atoms \in SharedPositions(r) PROVE Filled(r, B, atoms) <= FULL
  <2>1. PICK b \in Int : b = SumFunctionOnSet(Of(r).base, atoms)
    BY HeldAt
  <2>2. PICK c \in Int : c = SumFunctionOnSet(Change(r, A), atoms)
    BY HeldAt
  <2>3. PICK v \in {-1, 0, 1} : v = SumFunctionOnSet(w, atoms)
    BY <1>3, CrystalFacts
  <2>4. b + c <= FULL
    BY <2>1, <2>2 DEF Feasible, Filled
  <2>5. SumFunctionOnSet(Change(r, B), atoms) = c + (y - x) * v
    <3>1. IsFiniteSet(atoms) /\ atoms \subseteq Atoms(r)
      BY SharedFacts
    <3>2. PICK f, g, h : f = Change(r, A) /\ g = w /\ h = Change(r, B)
      OBVIOUS
    <3>3. \A a \in Atoms(r) : f[a] \in Int
      BY <3>2, ChangeType
    <3>4. \A a \in Atoms(r) : g[a] \in Int
      <4>1. \A a \in Atoms(r) : g[a] \in {-1, 0, 1}
        BY <1>3, <3>2, CrystalFacts
      <4> QED BY <4>1
    <3>5. PICK d \in Int : d = y - x
      OBVIOUS
    <3>6. \A a \in atoms : f[a] \in Int /\ g[a] \in Int /\ h[a] = 1 * f[a] + d * g[a]
      <4> TAKE a \in atoms
      <4>1. f[a] \in Int /\ g[a] \in Int
        BY <3>1, <3>3, <3>4
      <4>2. h[a] = f[a] + d * g[a]
        BY <1>4, <3>1, <3>2, <3>5
      <4> QED BY <4>1, <4>2
    <3>7. SumFunctionOnSet(h, atoms)
            = 1 * SumFunctionOnSet(f, atoms) + d * SumFunctionOnSet(g, atoms)
      <4>1. 1 \in Int
        OBVIOUS
      <4> QED BY <3>1, <3>6, <4>1, SumLinear
    <3> QED BY <2>2, <2>3, <3>2, <3>5, <3>7
  <2>6. v = 1 \/ v = -1 => x + v * (FULL - b - c) \in Edges(r, A, mode, v)
    BY <1>2, <1>3, <2>1, <2>2, <2>3 DEF Edges, Room
  <2>7. b + (c + (y - x) * v) <= FULL
    <3>1. CASE v = 0
      BY <2>4, <3>1
    <3>2. CASE v = 1
      <4>1. x + (FULL - b - c) \in Edges(r, A, mode, 1)
        <5>1. x + v * (FULL - b - c) = x + (FULL - b - c)
          BY <1>1, <3>2
        <5> QED BY <2>6, <3>2, <5>1
      <4>2. x < y => y <= x + (FULL - b - c)
        BY <1>5, <4>1
      <4> QED BY <1>1, <2>4, <3>2, <4>2
    <3>3. CASE v = -1
      <4>1. x - (FULL - b - c) \in Edges(r, A, mode, -1)
        <5>1. x + v * (FULL - b - c) = x - (FULL - b - c)
          BY <1>1, <3>3
        <5> QED BY <2>6, <3>3, <5>1
      <4>2. y < x => x - (FULL - b - c) <= y
        BY <1>5, <4>1
      <4> QED BY <1>1, <2>4, <3>3, <4>2
    <3> QED BY <2>3, <3>1, <3>2, <3>3
  <2>8. Filled(r, B, atoms) = b + (c + (y - x) * v)
    BY <2>1, <2>5 DEF Filled
  <2> QED BY <2>7, <2>8
<1>8. Feasible(r, B)
  BY <1>6, <1>7 DEF Feasible
<1> QED BY <1>4, <1>8

\* So is the parent at rest.
LEMMA RestFeasible ==
    ASSUME NEW r \in Shown, NEW A, A = [mode \in ModesOf(r) |-> 0]
    PROVE  Whole(r, A) /\ Feasible(r, A)
<1>1. Whole(r, A)
  <2>1. OccupancyModes(r) \subseteq ModesOf(r)
    BY CrystalFacts
  <2> QED BY <2>1 DEF Whole
<1>2. \A a \in Atoms(r) : Change(r, A)[a] = 0
  <2> TAKE a \in Atoms(r)
  <2>1. PICK f : f = Gain(r, A, a)
    OBVIOUS
  <2>2. PICK M : M = OccupancyModes(r)
    OBVIOUS
  <2>3. /\ \A n \in M : f[n] \in Int
        /\ Change(r, A)[a] = SumFunctionOnSet(f, M)
    BY <1>1, <2>1, <2>2, ChangeType
  <2>4. IsFiniteSet(M) /\ M \subseteq ModesOf(r)
    BY <2>2, CrystalFacts
  <2>5. \A n \in M : f[n] \in Int /\ f[n] \in Int /\ f[n] = 0 * f[n] + 0 * f[n]
    <3> TAKE n \in M
    <3>1. Weight(r, n)[a] \in {-1, 0, 1}
      BY <2>2, CrystalFacts
    <3>2. f[n] = 0 * Weight(r, n)[a]
      BY <2>1, <2>2, <2>4 DEF Gain
    <3> QED BY <3>1, <3>2
  <2>6. SumFunctionOnSet(f, M) = 0 * SumFunctionOnSet(f, M) + 0 * SumFunctionOnSet(f, M)
    <3>1. PICK z \in Int : z = 0
      OBVIOUS
    <3>2. \A n \in M : f[n] \in Int /\ f[n] \in Int /\ f[n] = z * f[n] + z * f[n]
      BY <2>5, <3>1
    <3>3. SumFunctionOnSet(f, M) = z * SumFunctionOnSet(f, M) + z * SumFunctionOnSet(f, M)
      BY <2>4, <3>2, SumLinear
    <3> QED BY <3>1, <3>3
  <2>7. SumFunctionOnSet(f, M) \in Int
    BY <2>3, <2>4, SumType
  <2> QED BY <2>3, <2>6, <2>7
<1>3. ASSUME NEW a \in Atoms(r) PROVE Of(r).base[a] + Change(r, A)[a] \in 0..FULL
  <2>1. PICK b \in Int : b = Of(r).base[a] /\ b \in 0..FULL
    BY ParentFeasible
  <2> QED BY <1>2, <2>1
<1>4. ASSUME NEW atoms \in SharedPositions(r) PROVE Filled(r, A, atoms) <= FULL
  <2>1. PICK b \in Int : b = SumFunctionOnSet(Of(r).base, atoms)
    BY <1>1, HeldAt
  <2>2. PICK f : f = Change(r, A)
    OBVIOUS
  <2>3. IsFiniteSet(atoms) /\ atoms \subseteq Atoms(r)
    BY SharedFacts
  <2>4. \A a \in atoms : f[a] = 0
    BY <1>2, <2>2, <2>3
  <2>5. PICK z \in Int : z = 0
    OBVIOUS
  <2>6. \A a \in atoms : f[a] \in Int /\ f[a] \in Int /\ f[a] = z * f[a] + z * f[a]
    BY <2>4, <2>5
  <2>7. SumFunctionOnSet(f, atoms) = z * SumFunctionOnSet(f, atoms) + z * SumFunctionOnSet(f, atoms)
    BY <2>3, <2>6, SumLinear
  <2>8. \A a \in atoms : f[a] \in Int
    BY <2>6
  <2>9. SumFunctionOnSet(f, atoms) \in Int
    BY <2>3, <2>8, SumType
  <2>10. SumFunctionOnSet(f, atoms) = 0
    BY <2>5, <2>7, <2>9
  <2>11. b <= FULL
    BY <2>1, ParentFeasible
  <2> QED BY <2>1, <2>2, <2>10, <2>11 DEF Filled
<1> QED BY <1>1, <1>3, <1>4 DEF Feasible

-----------------------------------------------------------------------------
\* Rows set whole amplitudes.
LEMMA SetWhole ==
    ASSUME NEW r \in Shown, NEW A, Whole(r, A), DOMAIN A = ModesOf(r),
           NEW k \in Int, NEW list, DOMAIN list = 1..k, \A i \in 1..k : list[i][2] \in Int
    PROVE  Whole(r, Set(A, list))
<1>1. SUFFICES ASSUME NEW mode \in OccupancyModes(r) PROVE Set(A, list)[mode] \in Int
  BY DEF Whole
<1>2. mode \in DOMAIN A
  BY CrystalFacts
<1>3. PICK S : S = {0} \cup {i \in 1..k : list[i][1] = mode}
  OBVIOUS
<1>4. IsFiniteSet(S)
  <2>1. IsFiniteSet(1..k)
    BY FS_Interval
  <2>2. IsFiniteSet({i \in 1..k : list[i][1] = mode})
    BY <2>1, FS_Subset
  <2>3. S = {i \in 1..k : list[i][1] = mode} \cup {0}
    BY <1>3
  <2> QED BY <2>2, <2>3, FS_AddElement
<1>5. S \subseteq Int /\ S # {}
  BY <1>3
<1>6. PICK last : last = Max(S)
  OBVIOUS
<1>7. last \in S
  BY <1>4, <1>5, <1>6, MaxMin
<1>8. Set(A, list)[mode] = IF last = 0 THEN A[mode] ELSE list[last][2]
  BY <1>2, <1>3, <1>6 DEF Set
<1>9. A[mode] \in Int
  BY DEF Whole
<1> QED BY <1>3, <1>7, <1>8, <1>9

\* The rows of a launch, and those before an unknown one.
LEMMA LaunchWhole ==
    ASSUME NEW r \in Shown, NEW A, Whole(r, A), DOMAIN A = ModesOf(r),
           NEW list \in Launches \cup {<<>>}
    PROVE  Whole(r, Set(A, list)) /\ Whole(r, Set(A, KnownRows(r, list)))
<1>1. PICK n \in Nat : n = Len(list) /\ DOMAIN list = 1..n /\ \A i \in 1..n : list[i][2] \in Int
  <2>1. CASE list = <<>>
    BY <2>1
  <2>2. CASE list # <<>>
    <3>1. PICK N : list \in Seq(N \X Int)
      BY <2>2, ViewerAssumption
    <3>2. Len(list) \in Nat /\ DOMAIN list = 1..Len(list)
      BY <3>1
    <3>3. \A i \in 1..Len(list) : list[i] \in N \X Int
      BY <3>1
    <3> QED BY <3>2, <3>3
  <2> QED BY <2>1, <2>2
<1>2. Whole(r, Set(A, list))
  BY <1>1, SetWhole
<1>3. PICK unknown : unknown = {j \in 1..n : list[j][1] \notin ModesOf(r)}
  OBVIOUS
<1>4. PICK f : f = [i \in unknown |-> i - 1]
  OBVIOUS
<1>5. PICK S : S = {f[i] : i \in unknown}
  OBVIOUS
<1>6. IsFiniteSet(S) /\ S \subseteq Int
  <2>1. IsFiniteSet(1..n)
    BY FS_Interval
  <2>2. IsFiniteSet(unknown)
    BY <1>3, <2>1, FS_Subset
  <2>3. \A i \in unknown : f[i] \in Int
    BY <1>3, <1>4
  <2> QED BY <1>5, <2>2, <2>3, FiniteImage
<1>7. PICK k \in 0..n : k = Min({n} \cup S)
  <2>1. n \in Int
    OBVIOUS
  <2>2. Min({n} \cup S) \in {n} \cup S /\ Min({n} \cup S) <= n
    BY <1>6, <2>1, OneMore
  <2>3. \A e \in S : e \in 0..n
    BY <1>3, <1>4, <1>5
  <2> QED BY <2>2, <2>3
<1>8. KnownRows(r, list) = SubSeq(list, 1, k)
  <2>1. {i - 1 : i \in {j \in DOMAIN list : list[j][1] \notin ModesOf(r)}} \cup {Len(list)}
            = {n} \cup S
    BY <1>1, <1>3, <1>4, <1>5
  <2> QED BY <1>7, <2>1 DEF KnownRows
<1>9. PICK known : known = KnownRows(r, list)
  OBVIOUS
<1>10. DOMAIN known = 1..k /\ \A i \in 1..k : known[i][2] \in Int
  <2>1. k \in Int /\ k - 1 + 1 = k /\ \A i \in 1..k : i + 1 - 1 = i
    BY <1>7
  <2>2. SubSeq(list, 1, k) = [i \in 1..(k - 1 + 1) |-> list[i + 1 - 1]]
    BY <2>1
  <2>3. known = [i \in 1..k |-> list[i]]
    BY <1>8, <1>9, <2>1, <2>2
  <2> QED BY <1>1, <1>7, <2>3
<1>11. Whole(r, Set(A, known))
  BY <1>10, SetWhole
<1> QED BY <1>2, <1>9, <1>11

-----------------------------------------------------------------------------
\* A state whose occupancies are in order, when some results are forced.
Steady(r, v, exempt) ==
    /\ Whole(r, v.amplitude) /\ v.master \in 0..MASTER
    /\ r \notin exempt => Feasible(r, v.amplitude)

\* The sliders of occupancies have ends.
EndsWhole(r, p) ==
    \A mode \in DOMAIN p.sliders : mode \in OccupancyModes(r) =>
        p.sliders[mode].min \in Int /\ p.sliders[mode].max \in Int

OccupancyInv ==
    /\ rows = [r \in Shown |-> rows[r]] /\ \A r \in Shown : rows[r] \in Launches \cup {<<>>}
    /\ \A r \in Shown : ui[r] # NoState => Steady(r, ui[r], forced)
    /\ displaying # None => Steady(displaying, view, forced)
    /\ EndsWhole(displaying, panel)

\* The invariant in the next state, spelled out.
LEMMA OccupancyNext ==
    ASSUME rows' = [r \in Shown |-> rows'[r]],
           \A r \in Shown : rows'[r] \in Launches \cup {<<>>},
           \A r \in Shown : ui'[r] # NoState => Steady(r, ui'[r], forced'),
           displaying' # None => Steady(displaying', view', forced'),
           EndsWhole(displaying', panel')
    PROVE  OccupancyInv'
BY DEF OccupancyInv, Steady, EndsWhole, Whole, Feasible, Filled, Change, Total, SharedPositions,
       Atoms, OccupancyModes, Of

\* Sliders that show a state have whole ends.
LEMMA ShownEnds ==
    ASSUME NEW r \in Shown \cup {None}, NEW v, NEW p, StateOf(r, v), SlidersShow(r, v, p),
           r # None => Whole(r, v.amplitude)
    PROVE  EndsWhole(r, p)
<1>1. CASE r = None
  <2>1. OccupancyModes(r) = {}
    <3>1. Of(r).weight = <<>>
      BY <1>1 DEF Of, NoCrystal
    <3> QED BY <3>1 DEF OccupancyModes
  <2> QED BY <2>1 DEF EndsWhole
<1>2. CASE r # None
  <2>1. SUFFICES ASSUME NEW mode \in DOMAIN p.sliders, mode \in OccupancyModes(r)
                 PROVE  p.sliders[mode].min \in Int /\ p.sliders[mode].max \in Int
    BY DEF EndsWhole
  <2>2. PICK range : range = occupancyRanges(r, v.amplitude)[mode]
    OBVIOUS
  <2>3. mode \in DOMAIN v.amplitude
    <3>1. v.amplitude = [n \in ModesOf(r) |-> v.amplitude[n]]
      BY DEF StateOf
    <3>2. DOMAIN v.amplitude = ModesOf(r)
      BY <3>1
    <3>3. OccupancyModes(r) \subseteq ModesOf(r)
      BY <1>2, CrystalFacts
    <3> QED BY <2>1, <3>2, <3>3
  <2>4. range[1] \in Int /\ range[2] \in Int
    BY <1>2, <2>1, <2>2, <2>3, RangeFacts
  <2>5. p.sliders[mode] = [min |-> range[1], max |-> range[2], text |-> v.amplitude[mode] * v.master]
    BY <2>1, <2>2 DEF SlidersShow, OccupancyModes
  <2> QED BY <2>4, <2>5
<1> QED BY <1>1, <1>2

\* The history of amplitudes that nothing has checked.
LEMMA ForcesFacts ==
    ASSUME NEW r \in Shown, NEW amplitudes, \A A \in amplitudes : Whole(r, A),
           forced' = Forces(r, amplitudes)
    PROVE  /\ r \notin forced' => \A A \in amplitudes : Feasible(r, A)
           /\ \A q : q # r => (q \in forced' <=> q \in forced)
<1>1. ASSUME r \notin forced', NEW A \in amplitudes PROVE Feasible(r, A)
  <2>1. \A m \in 0..MASTER : Possible(r, A, m)
    BY <1>1 DEF Forces
  <2> QED BY <2>1, FeasiblePossible
<1>2. \A q : q # r => (q \in forced' <=> q \in forced)
  BY DEF Forces
<1> QED BY <1>1, <1>2

\* A state that is saved is as steady as it was.
LEMMA CapturedSteady ==
    ASSUME NEW r, NEW v, StateOf(r, v), NEW F, Steady(r, v, F)
    PROVE  Steady(r, Captured(v), F)
<1>1. PICK f : f = FALSE
  OBVIOUS
<1>2. Captured(v)
      = Parts(v.amplitude, v.master, v.concealed, v.limit, v.bonds, v.polyhedra, f)
  BY <1>1, CapturedState
<1>3. Captured(v).amplitude = v.amplitude /\ Captured(v).master = v.master
  BY <1>2, PartsFacts
<1> QED BY <1>3 DEF Steady

\* Another amplitude or master amplitude of a state.
LEMMA OtherAmplitudes ==
    ASSUME NEW r, NEW v, StateOf(r, v), NEW x
    PROVE  /\ [v EXCEPT !.amplitude = x].amplitude = x
           /\ [v EXCEPT !.amplitude = x].master = v.master
           /\ [v EXCEPT !.master = x].amplitude = v.amplitude
           /\ [v EXCEPT !.master = x].master = x
           /\ [v EXCEPT !.limit = x].amplitude = v.amplitude
           /\ [v EXCEPT !.limit = x].master = v.master
           /\ DOMAIN v.amplitude = ModesOf(r)
<1>1. PICK a, m, c, l, b, p, y : v = Parts(a, m, c, l, b, p, y)
  BY DEF StateOf
<1>2. v.amplitude = a /\ v.master = m
  BY <1>1, PartsFacts
<1>3. [v EXCEPT !.amplitude = x] = Parts(x, m, c, l, b, p, y)
  BY <1>1, PartsFacts
<1>4. [v EXCEPT !.master = x] = Parts(a, x, c, l, b, p, y)
  BY <1>1, PartsFacts
<1>5. [v EXCEPT !.limit = x] = Parts(a, m, c, x, b, p, y)
  BY <1>1, PartsFacts
<1>6. DOMAIN v.amplitude = ModesOf(r)
  <2>1. v.amplitude = [n \in ModesOf(r) |-> v.amplitude[n]]
    BY DEF StateOf
  <2> QED BY <2>1
<1> QED BY <1>2, <1>3, <1>4, <1>5, <1>6, PartsFacts

\* What saveActive() makes of the saved states.
LEMMA SavedSteady ==
    ASSUME MemoryInv, NEW v, StateOf(displaying, v), NEW F,
           displaying # None => Steady(displaying, v, F),
           NEW saved, saved = saveActive(displaying, v)
    PROVE  /\ saved = [q \in Shown |-> saved[q]]
           /\ \A q \in Shown : q # displaying => saved[q] = ui[q]
           /\ displaying # None => /\ saved[displaying] = Captured(v)
                                   /\ Steady(displaying, saved[displaying], F)
<1>1. ViewerTypes
  BY DEF MemoryInv
<1>2. /\ displaying # None => displaying \in InTabs(strip) /\ displaying \in Shown
      /\ InTabs(strip) \subseteq Shown /\ None \notin Shown
  BY <1>1, DisplayedTab
<1>3. ui = [r \in Shown |-> ui[r]]
  BY <1>1 DEF ViewerTypes
<1>4. CASE displaying = None
  <2>1. saved = ui
    BY <1>2, <1>4 DEF saveActive
  <2> QED BY <1>3, <1>4, <2>1
<1>5. CASE displaying # None
  <2>1. saved = [ui EXCEPT ![displaying] = Captured(v)]
    BY <1>2, <1>5 DEF saveActive
  <2>2. /\ saved = [q \in Shown |-> saved[q]] /\ saved[displaying] = Captured(v)
        /\ \A q \in Shown : q # displaying => saved[q] = ui[q]
    BY <1>2, <1>3, <1>5, <2>1
  <2>3. Steady(displaying, Captured(v), F)
    BY <1>5, CapturedSteady
  <2> QED BY <2>2, <2>3
<1> QED BY <1>4, <1>5

\* The types of the next state, spelled out.
LEMMA TypesNext ==
    ASSUME ViewerTypes'
    PROVE  /\ StateOf(displaying', view')
           /\ \A r \in Shown : ui'[r] # NoState => StateOf(r, ui'[r])
BY DEF ViewerTypes, StateOf, Parts, Of, ModesOf, AtRest

\* Another result is displayed, as it was saved or as it is at first.
LEMMA DisplayActiveSteady ==
    ASSUME NEW r \in Shown \cup {None}, NEW saved, NEW list, NEW seen,
           displayActive(r, saved, list, seen), ui' = saved, rows' = list,
           list = [q \in Shown |-> list[q]],
           \A q \in Shown : list[q] \in Launches \cup {<<>>},
           \A q \in Shown : saved[q] # NoState => StateOf(q, saved[q]) /\ Steady(q, saved[q], forced)
    PROVE  OccupancyInv'
<1>1. PICK fresh : fresh = Fresh(r)
  OBVIOUS
<1>2. PICK amended :
        amended = [fresh EXCEPT !.amplitude = Set(fresh.amplitude, KnownRows(r, list[r]))]
  OBVIOUS
<1>3. None \notin Shown /\ MASTER \in Nat
  BY ViewerAssumption
<1>4. /\ displaying' = r
      /\ view' = IF r = None THEN fresh
                 ELSE IF saved[r] # NoState THEN Restored(r, fresh, saved[r]) ELSE amended
      /\ panel' = Rendered(r, fresh) \/ panel' = Rendered(r, view')
      /\ r = None \/ saved[r] # NoState => forced' = forced
      /\ ~(r = None \/ saved[r] # NoState) => forced' = Forces(r, {view'.amplitude})
  BY <1>1, <1>2 DEF displayActive
<1>5. StateOf(r, fresh)
  BY <1>1, FreshState
<1>6. r # None => Steady(r, fresh, {}) /\ DOMAIN fresh.amplitude = ModesOf(r)
  <2>1. fresh.amplitude = [mode \in ModesOf(r) |-> 0] /\ fresh.master = MASTER
    BY <1>1 DEF Fresh
  <2>2. PICK A : A = fresh.amplitude
    OBVIOUS
  <2>3. r # None => Whole(r, A) /\ Feasible(r, A)
    BY <2>1, <2>2, RestFeasible
  <2> QED BY <1>3, <2>1, <2>2, <2>3 DEF Steady
<1>7. CASE r = None
  <2>1. displaying' = None /\ view' = fresh /\ panel' = Rendered(r, fresh) /\ forced' = forced
    BY <1>4, <1>7
  <2>2. EndsWhole(r, panel')
    BY <1>5, <1>7, <2>1, RenderedShows, ShownEnds
  <2> QED BY <1>7, <2>1, <2>2, OccupancyNext
<1>8. CASE r # None /\ saved[r] # NoState
  <2>1. view' = saved[r] /\ displaying' = r /\ forced' = forced
    BY <1>4, <1>8, RestoredState
  <2>2. PICK v : v = view'
    OBVIOUS
  <2>3. StateOf(r, v) /\ Steady(r, v, forced)
    BY <1>8, <2>1, <2>2
  <2>4. SlidersShow(r, fresh, panel') \/ SlidersShow(r, v, panel')
    BY <1>4, <2>2, RenderedShows
  <2>5. EndsWhole(r, panel')
    BY <1>5, <1>6, <2>3, <2>4, ShownEnds DEF Steady
  <2> QED BY <2>1, <2>2, <2>3, <2>5, OccupancyNext
<1>9. CASE r # None /\ saved[r] = NoState
  <2>1. PICK a : a = Set(fresh.amplitude, KnownRows(r, list[r]))
    OBVIOUS
  <2>2. PICK v : v = [fresh EXCEPT !.amplitude = a]
    OBVIOUS
  <2>3. view' = v /\ displaying' = r /\ forced' = Forces(r, {view'.amplitude})
    BY <1>2, <1>4, <1>9, <2>1, <2>2
  <2>4. v.amplitude = a /\ v.master = fresh.master
    BY <1>5, <2>2, OtherAmplitudes
  <2>5. Whole(r, fresh.amplitude) /\ fresh.master \in 0..MASTER
    BY <1>6, <1>9 DEF Steady
  <2>6. Whole(r, a)
    <3>1. PICK A : A = fresh.amplitude
      OBVIOUS
    <3>2. Whole(r, A) /\ DOMAIN A = ModesOf(r)
      BY <1>6, <1>9, <2>5, <3>1
    <3>3. list[r] \in Launches \cup {<<>>}
      BY <1>9
    <3>4. Whole(r, Set(A, KnownRows(r, list[r])))
      BY <1>9, <3>2, <3>3, LaunchWhole
    <3> QED BY <2>1, <3>1, <3>4
  <2>7. PICK some : some = {a}
    OBVIOUS
  <2>8. forced' = Forces(r, some)
    BY <2>3, <2>4, <2>7
  <2>9. /\ r \notin forced' => Feasible(r, a)
        /\ \A q : q # r => (q \in forced' <=> q \in forced)
    <3>1. r \in Shown /\ \A A \in some : Whole(r, A)
      BY <1>9, <2>6, <2>7
    <3> QED BY <2>7, <2>8, <3>1, ForcesFacts
  <2>10. Steady(r, v, forced')
    BY <2>4, <2>5, <2>6, <2>9 DEF Steady
  <2>11. \A q \in Shown : saved[q] # NoState => Steady(q, saved[q], forced')
    BY <1>9, <2>9 DEF Steady
  <2>12. StateOf(r, v)
    <3>1. a = [mode \in ModesOf(r) |-> a[mode]]
      BY <1>5, <2>1, SetModes DEF StateOf
    <3> QED BY <1>5, <2>2, <3>1, AmplitudesChanged
  <2>13. SlidersShow(r, fresh, panel') \/ SlidersShow(r, v, panel')
    BY <1>4, <2>3, RenderedShows
  <2>14. EndsWhole(r, panel')
    BY <1>5, <2>4, <2>5, <2>6, <2>12, <2>13, ShownEnds
  <2> QED BY <2>3, <2>10, <2>11, <2>14, OccupancyNext
<1> QED BY <1>7, <1>8, <1>9

\* Something is done to the displayed result.
LEMMA ChangeSteady ==
    ASSUME MemoryInv, OccupancyInv, NEW v, StateOf(displaying, v),
           view' = v, displaying' = displaying, rows' = rows,
           displaying # None => Steady(displaying, v, forced'),
           \A q \in Shown : q # displaying => (q \in forced' <=> q \in forced),
           \/ ui' = saveActive(displaying, v)
           \/ forced' = forced /\ (ui' = saveActive(displaying, view) \/ ui' = ui),
           EndsWhole(displaying, panel')
    PROVE  OccupancyInv'
<1>1. /\ rows = [r \in Shown |-> rows[r]] /\ \A r \in Shown : rows[r] \in Launches \cup {<<>>}
      /\ \A r \in Shown : ui[r] # NoState => Steady(r, ui[r], forced)
      /\ displaying # None => Steady(displaying, view, forced)
  BY DEF OccupancyInv
<1>2. StateOf(displaying, view)
  BY DEF MemoryInv, ViewerTypes
<1>3. None \notin Shown
  BY ViewerAssumption
<1>4. ASSUME NEW q \in Shown, q # displaying, ui'[q] = ui[q], ui'[q] # NoState
      PROVE  Steady(q, ui'[q], forced')
  BY <1>1, <1>4 DEF Steady
<1>5. \A q \in Shown : ui'[q] # NoState => Steady(q, ui'[q], forced')
  <2>1. CASE ui' = saveActive(displaying, v)
    <3>1. /\ \A q \in Shown : q # displaying => ui'[q] = ui[q]
          /\ displaying # None => Steady(displaying, ui'[displaying], forced')
      BY <2>1, SavedSteady
    <3> QED BY <1>3, <1>4, <3>1
  <2>2. CASE forced' = forced /\ ui' = saveActive(displaying, view)
    <3>1. /\ \A q \in Shown : q # displaying => ui'[q] = ui[q]
          /\ displaying # None => Steady(displaying, ui'[displaying], forced')
      BY <1>1, <1>2, <2>2, SavedSteady
    <3> QED BY <1>3, <1>4, <3>1
  <2>3. CASE forced' = forced /\ ui' = ui
    BY <1>1, <2>3
  <2> QED BY <2>1, <2>2, <2>3
<1> QED BY <1>1, <1>5, OccupancyNext

\* Amplitudes that agree on the occupancy modes give the same occupancies.
LEMMA SameOccupancies ==
    ASSUME NEW r, NEW A, NEW B, \A mode \in OccupancyModes(r) : B[mode] = A[mode]
    PROVE  (Whole(r, A) => Whole(r, B)) /\ (Feasible(r, A) => Feasible(r, B))
<1>1. Whole(r, A) => Whole(r, B)
  BY DEF Whole
<1>2. Change(r, B) = Change(r, A)
  <2>1. ASSUME NEW a
        PROVE  [mode \in DOMAIN Of(r).weight |-> B[mode] * Of(r).weight[mode][a]]
                = [mode \in DOMAIN Of(r).weight |-> A[mode] * Of(r).weight[mode][a]]
    BY DEF OccupancyModes
  <2> QED BY <2>1 DEF Change
<1>3. Feasible(r, A) => Feasible(r, B)
  BY <1>2 DEF Feasible, Filled
<1> QED BY <1>1, <1>3

\* A slider is moved: within its ends if it has those of the view, and else
\* the history tells.
LEMMA MoveSliderSteady ==
    ASSUME MemoryInv, PanelInv, OccupancyInv, NEW mode \in DOMAIN panel.sliders, NEW effective,
           MoveSlider(mode, effective)
    PROVE  OccupancyInv'
<1>1. PICK slider : slider = panel.sliders[mode]
  OBVIOUS
<1>2. PICK unscaled : unscaled = IF view.master > 0 THEN (effective * MASTER) \div view.master
                                 ELSE effective
  OBVIOUS
<1>3. PICK x : x = Min({slider.max, Max({slider.min, unscaled})})
  OBVIOUS
<1>4. PICK A : A = view.amplitude
  OBVIOUS
<1>5. PICK B : B = [A EXCEPT ![mode] = x]
  OBVIOUS
<1>6. PICK v : v = [view EXCEPT !.amplitude = B]
  OBVIOUS
<1>7. /\ slider.min < slider.max /\ effective \in slider.min..slider.max
      /\ Adjust(v) /\ forced' = IF stale THEN Forces(displaying, {view'.amplitude}) ELSE forced
  BY <1>1, <1>2, <1>3, <1>4, <1>5, <1>6 DEF MoveSlider
<1>8. /\ displaying # None /\ view' = v /\ displaying' = displaying /\ rows' = rows
      /\ ui' = saveActive(displaying, v) /\ panel' = Updated(displaying, v, panel)
  BY <1>7 DEF Adjust
<1>9. StateOf(displaying, view) /\ displaying \in Shown
  BY <1>8, DisplayedTab DEF MemoryInv, ViewerTypes
<1>10. A = [m \in ModesOf(displaying) |-> A[m]] /\ DOMAIN A = ModesOf(displaying)
  BY <1>4, <1>9, OtherAmplitudes DEF StateOf
<1>11. StateOf(displaying, v) /\ v.amplitude = B /\ v.master = view.master
  <2>1. B = [m \in ModesOf(displaying) |-> B[m]]
    BY <1>5, <1>10
  <2>2. StateOf(displaying, v)
    BY <1>6, <1>9, <2>1, AmplitudesChanged
  <2>3. v.amplitude = B /\ v.master = view.master
    BY <1>6, <1>9, OtherAmplitudes
  <2> QED BY <2>2, <2>3
<1>12. /\ Whole(displaying, A) /\ view.master \in 0..MASTER
       /\ displaying \notin forced => Feasible(displaying, A)
       /\ EndsWhole(displaying, panel)
  BY <1>4, <1>8 DEF OccupancyInv, Steady
<1>13. \A n \in OccupancyModes(displaying) : n # mode => B[n] = A[n]
  BY <1>5
<1>14. /\ Whole(displaying, B)
       /\ ~stale /\ displaying \notin forced => Feasible(displaying, B)
  <2>1. CASE mode \notin OccupancyModes(displaying)
    <3>1. \A n \in OccupancyModes(displaying) : B[n] = A[n]
      BY <1>13, <2>1
    <3> QED BY <1>12, <3>1, SameOccupancies
  <2>2. CASE mode \in OccupancyModes(displaying)
    <3>1. PICK lo \in Int, hi \in Int : lo = slider.min /\ hi = slider.max
      BY <1>1, <1>12, <2>2 DEF EndsWhole
    <3>2. unscaled \in Int
      <4>1. effective \in Int
        BY <1>7, <3>1
      <4>2. MASTER \in Int /\ view.master \in Int
        BY <1>12, ViewerAssumption
      <4>3. PICK m \in Int : m = view.master
        BY <4>2
      <4>4. m > 0 => (effective * MASTER) \div m \in Int
        BY <4>1, <4>2
      <4> QED BY <1>2, <4>1, <4>3, <4>4
    <3>3. PICK y \in Int : y = Max({lo, unscaled}) /\ lo <= y
      <4>1. PICK u \in Int : u = unscaled
        BY <3>2
      <4>2. Max({lo, u}) \in {lo, u} /\ lo <= Max({lo, u})
        BY OfTwo
      <4> QED BY <4>1, <4>2
    <3>4. x \in Int /\ lo <= x /\ x <= hi
      <4>1. x = Min({hi, y})
        BY <1>3, <3>1, <3>3
      <4>2. x \in {hi, y} /\ x <= hi
        BY <4>1, OfTwo
      <4> QED BY <1>7, <3>1, <3>3, <4>2
    <3>5. mode \in DOMAIN A
      BY <1>9, <1>10, <2>2, CrystalFacts
    <3>6. B[mode] = x
      BY <1>5, <3>5
    <3>7. Whole(displaying, B)
      BY <1>9, <1>12, <1>13, <2>2, <3>4, <3>6, ChangeMoved
    <3>8. ASSUME ~stale, displaying \notin forced PROVE Feasible(displaying, B)
      <4>1. SlidersShow(displaying, view, panel)
        BY <3>8 DEF PanelInv
      <4>2. slider = [min |-> occupancyRanges(displaying, A)[mode][1],
                      max |-> occupancyRanges(displaying, A)[mode][2],
                      text |-> A[mode] * view.master]
        BY <1>1, <1>4, <2>2, <4>1 DEF SlidersShow, OccupancyModes
      <4>3. /\ lo = occupancyRanges(displaying, A)[mode][1]
            /\ hi = occupancyRanges(displaying, A)[mode][2]
        BY <3>1, <4>2
      <4>4. Feasible(displaying, A) /\ Whole(displaying, A)
        BY <1>12, <3>8
      <4>5. B[mode] \in Int
        BY <3>4, <3>6
      <4>6. occupancyRanges(displaying, A)[mode][1] <= B[mode]
        BY <3>4, <3>6, <4>3
      <4>7. B[mode] <= occupancyRanges(displaying, A)[mode][2]
        BY <3>4, <3>6, <4>3
      <4> QED BY <1>9, <1>13, <2>2, <3>5, <4>4, <4>5, <4>6, <4>7, RangeFeasible
    <3> QED BY <3>7, <3>8
  <2> QED BY <2>1, <2>2
<1>15. /\ displaying \notin forced' => Feasible(displaying, B)
       /\ \A q : q # displaying => (q \in forced' <=> q \in forced)
  <2>1. CASE stale
    <3>1. PICK some : some = {B}
      OBVIOUS
    <3>2. forced' = Forces(displaying, some)
      BY <1>7, <1>8, <1>11, <2>1, <3>1
    <3> QED BY <1>9, <1>14, <3>1, <3>2, ForcesFacts
  <2>2. CASE ~stale
    BY <1>7, <1>14, <2>2
  <2> QED BY <2>1, <2>2
<1>16. Steady(displaying, v, forced')
  BY <1>11, <1>12, <1>14, <1>15 DEF Steady
<1>17. EndsWhole(displaying, panel')
  <2>1. PanelFields(panel)
    BY DEF PanelInv
  <2>2. SlidersShow(displaying, v, panel')
    BY <1>8, <2>1, UpdatedShows
  <2> QED BY <1>9, <1>11, <1>14, <2>2, ShownEnds
<1> QED BY <1>8, <1>11, <1>15, <1>16, <1>17, ChangeSteady

\* The boxes of sites, parents and elements are not the sliders.
LEMMA SlidersStay ==
    ASSUME NEW p, "sliders" \in DOMAIN p
    PROVE  /\ \A x, y : /\ LET u == [p EXCEPT !.parents[x] = y] IN
                              "sliders" \in DOMAIN u /\ u.sliders = p.sliders
                        /\ LET u == [p EXCEPT !.elements[x] = y] IN
                              "sliders" \in DOMAIN u /\ u.sliders = p.sliders
           /\ \A r, S : /\ LET u == SyncParents(r, p, S) IN
                              "sliders" \in DOMAIN u /\ u.sliders = p.sliders
                        /\ LET u == SyncElements(r, p, S) IN
                              "sliders" \in DOMAIN u /\ u.sliders = p.sliders
<1>1. ASSUME NEW x
      PROVE  /\ LET u == [p EXCEPT !.parents = x] IN
                   "sliders" \in DOMAIN u /\ u.sliders = p.sliders
             /\ LET u == [p EXCEPT !.elements = x] IN
                   "sliders" \in DOMAIN u /\ u.sliders = p.sliders
  OBVIOUS
<1>2. ASSUME NEW x, NEW y
      PROVE  /\ LET u == [p EXCEPT !.parents[x] = y] IN
                   "sliders" \in DOMAIN u /\ u.sliders = p.sliders
             /\ LET u == [p EXCEPT !.elements[x] = y] IN
                   "sliders" \in DOMAIN u /\ u.sliders = p.sliders
  OBVIOUS
<1>3. ASSUME NEW r, NEW S
      PROVE  /\ LET u == SyncParents(r, p, S) IN
                   "sliders" \in DOMAIN u /\ u.sliders = p.sliders
             /\ LET u == SyncElements(r, p, S) IN
                   "sliders" \in DOMAIN u /\ u.sliders = p.sliders
  BY <1>1 DEF SyncParents, SyncElements
<1> QED BY <1>2, <1>3

\* A click on a box shows or hides sites and leaves the sliders.
LEMMA ToggleSliders ==
    ASSUME PanelInv, \/ \E c \in DOMAIN panel.boxes : ToggleSite(c)
                     \/ \E parent \in DOMAIN panel.parents : ToggleParent(parent)
                     \/ \E element \in DOMAIN panel.elements : ToggleElement(element)
    PROVE  \E sites, on, p : Toggle(sites, on, p) /\ p.sliders = panel.sliders
<1>1. "sliders" \in DOMAIN panel
  BY DEF PanelInv, PanelFields
<1>2. ASSUME NEW sites, NEW on
      PROVE  "sliders" \in DOMAIN Switched(sites, on) /\ Switched(sites, on).sliders = panel.sliders
  BY <1>1 DEF Switched
<1>3. ASSUME NEW c \in DOMAIN panel.boxes, ToggleSite(c)
      PROVE  \E sites, on, p : Toggle(sites, on, p) /\ p.sliders = panel.sliders
  <2>1. PICK s, on, r, P, E : s = Switched({c}, on) /\ Toggle({c}, on, SyncElements(r, SyncParents(r, s, P), E))
    BY <1>3 DEF ToggleSite
  <2>2. PICK p : p = SyncParents(r, s, P)
    OBVIOUS
  <2>3. "sliders" \in DOMAIN s /\ s.sliders = panel.sliders
    BY <1>2, <2>1
  <2>4. "sliders" \in DOMAIN p /\ p.sliders = panel.sliders
    BY <2>2, <2>3, SlidersStay
  <2>5. SyncElements(r, p, E).sliders = panel.sliders
    BY <2>4, SlidersStay
  <2> QED BY <2>1, <2>2, <2>5
<1>4. ASSUME NEW parent \in DOMAIN panel.parents, ToggleParent(parent)
      PROVE  \E sites, on, p : Toggle(sites, on, p) /\ p.sliders = panel.sliders
  <2>1. PICK sites, on, s, r, tick, E :
            /\ s = Switched(sites, on)
            /\ Toggle(sites, on, SyncElements(r, [s EXCEPT !.parents[parent] = tick], E))
    BY <1>4 DEF ToggleParent
  <2>2. PICK p : p = [s EXCEPT !.parents[parent] = tick]
    OBVIOUS
  <2>3. "sliders" \in DOMAIN s /\ s.sliders = panel.sliders
    BY <1>2, <2>1
  <2>4. "sliders" \in DOMAIN p /\ p.sliders = panel.sliders
    BY <2>2, <2>3, SlidersStay
  <2>5. SyncElements(r, p, E).sliders = panel.sliders
    BY <2>4, SlidersStay
  <2> QED BY <2>1, <2>2, <2>5
<1>5. ASSUME NEW element \in DOMAIN panel.elements, ToggleElement(element)
      PROVE  \E sites, on, p : Toggle(sites, on, p) /\ p.sliders = panel.sliders
  <2>1. PICK sites, on, s, r, tick, p :
            /\ s = Switched(sites, on) /\ p = [s EXCEPT !.elements[element] = tick]
            /\ Toggle(sites, on, SyncParents(r, p, DOMAIN p.parents))
    BY <1>5 DEF ToggleElement
  <2>3. "sliders" \in DOMAIN s /\ s.sliders = panel.sliders
    BY <1>2, <2>1
  <2>4. "sliders" \in DOMAIN p /\ p.sliders = panel.sliders
    BY <2>1, <2>3, SlidersStay
  <2>5. SyncParents(r, p, DOMAIN p.parents).sliders = panel.sliders
    BY <2>4, SlidersStay
  <2> QED BY <2>1, <2>5
<1> QED BY <1>3, <1>4, <1>5

\* Nothing that the user or an animation does gives an impossible occupancy.
LEMMA UserStepSteady ==
    ASSUME MemoryInv, PanelInv, OccupancyInv, UserStep
    PROVE  OccupancyInv'
<1>1. StateOf(displaying, view)
  BY DEF MemoryInv, ViewerTypes
<1>2. /\ displaying # None => displaying \in Shown /\ Steady(displaying, view, forced)
      /\ displaying \in Shown \cup {None} /\ EndsWhole(displaying, panel)
      /\ PanelFields(panel)
  BY DisplayedTab DEF MemoryInv, OccupancyInv, PanelInv
<1>3. MASTER \in Nat
  BY ViewerAssumption
<1>4. ASSUME NEW v, StateOf(displaying, v), v.amplitude = view.amplitude, v.master = view.master,
             view' = v, displaying' = displaying, rows' = rows, forced' = forced,
             ui' = saveActive(displaying, v) \/ ui' = saveActive(displaying, view),
             panel'.sliders = panel.sliders
      PROVE  OccupancyInv'
  <2>1. displaying # None => Steady(displaying, v, forced')
    BY <1>2, <1>4 DEF Steady
  <2>2. EndsWhole(displaying, panel')
    BY <1>2, <1>4 DEF EndsWhole
  <2> QED BY <1>4, <2>1, <2>2, ChangeSteady
<1>5. ASSUME NEW v, StateOf(displaying, v), displaying # None => Steady(displaying, v, forced'),
             view' = v, displaying' = displaying, rows' = rows,
             panel' = Updated(displaying, v, panel) \/ panel' = Rendered(displaying, v),
             \A q \in Shown : q # displaying => (q \in forced' <=> q \in forced),
             ui' = saveActive(displaying, v) \/ (ui' = ui /\ forced' = forced)
      PROVE  OccupancyInv'
  <2>1. SlidersShow(displaying, v, panel')
    BY <1>2, <1>5, RenderedShows, UpdatedShows
  <2>2. EndsWhole(displaying, panel')
    BY <1>2, <1>5, <2>1, ShownEnds DEF Steady
  <2> QED BY <1>5, <2>2, ChangeSteady
<1>6. ASSUME NEW mode \in DOMAIN panel.sliders, NEW effective, MoveSlider(mode, effective)
      PROVE  OccupancyInv'
  BY <1>6, MoveSliderSteady
<1>7. ASSUME NEW m \in 0..MASTER, MoveMaster(m) PROVE OccupancyInv'
  <2>1. PICK v : v = [view EXCEPT !.master = m]
    OBVIOUS
  <2>2. PICK f : f = FALSE
    OBVIOUS
  <2>3. PICK w : w = [v EXCEPT !.playing = f]
    OBVIOUS
  <2>4. Adjust(w) /\ forced' = forced
    BY <1>7, <2>1, <2>2, <2>3 DEF MoveMaster
  <2>5. StateOf(displaying, v) /\ v.amplitude = view.amplitude /\ v.master = m
    <3>1. StateOf(displaying, v)
      BY <1>1, <2>1, UserChanges
    <3>2. v.amplitude = view.amplitude /\ v.master = m
      BY <1>1, <2>1, OtherAmplitudes
    <3> QED BY <3>1, <3>2
  <2>6. StateOf(displaying, w) /\ w.amplitude = v.amplitude /\ w.master = v.master
    <3>1. StateOf(displaying, w)
      BY <2>3, <2>5, UserChanges
    <3>2. w.amplitude = v.amplitude /\ w.master = v.master
      BY <2>3, <2>5, OtherParts
    <3> QED BY <3>1, <3>2
  <2>7. displaying # None => Steady(displaying, w, forced')
    BY <1>2, <2>4, <2>5, <2>6 DEF Steady
  <2> QED BY <1>5, <2>4, <2>6, <2>7 DEF Adjust
<1>8. ASSUME NEW m \in 0..MASTER, AnimationStep(m) PROVE OccupancyInv'
  <2>1. PICK v : v = [view EXCEPT !.master = m]
    OBVIOUS
  <2>2. /\ view' = v /\ displaying' = displaying /\ rows' = rows /\ forced' = forced
        /\ ui' = ui /\ panel' = Updated(displaying, v, panel)
    BY <1>8, <2>1 DEF AnimationStep
  <2>3. StateOf(displaying, v)
    BY <1>1, <2>1, UserChanges
  <2>4. v.amplitude = view.amplitude /\ v.master = m
    BY <1>1, <2>1, OtherAmplitudes
  <2>5. displaying # None => Steady(displaying, v, forced')
    BY <1>2, <2>2, <2>4 DEF Steady
  <2> QED BY <1>5, <2>2, <2>3, <2>5
<1>9. CASE Reset
  <2>1. PICK a : a = [mode \in DOMAIN view.amplitude |-> 0]
    OBVIOUS
  <2>2. PICK f : f = FALSE
    OBVIOUS
  <2>3. PICK u : u = [view EXCEPT !.amplitude = a]
    OBVIOUS
  <2>4. PICK v : v = [u EXCEPT !.master = MASTER]
    OBVIOUS
  <2>5. PICK w : w = [v EXCEPT !.playing = f]
    OBVIOUS
  <2>6. Adjust(w) /\ forced' = forced \ {displaying}
    <3>1. w = [view EXCEPT !.amplitude = a, !.master = MASTER, !.playing = FALSE]
      BY <2>2, <2>3, <2>4, <2>5
    <3>2. Adjust([view EXCEPT !.amplitude = a, !.master = MASTER, !.playing = FALSE])
      BY <1>9, <2>1 DEF Reset
    <3> QED BY <1>9, <3>1, <3>2 DEF Reset
  <2>7. DOMAIN view.amplitude = ModesOf(displaying)
    BY <1>1, OtherAmplitudes
  <2>8. StateOf(displaying, u) /\ u.amplitude = a
    <3>1. a = [mode \in ModesOf(displaying) |-> a[mode]]
      BY <2>1, <2>7
    <3>2. StateOf(displaying, u)
      BY <1>1, <2>3, <3>1, AmplitudesChanged
    <3>3. u.amplitude = a
      BY <1>1, <2>3, OtherAmplitudes
    <3> QED BY <3>2, <3>3
  <2>9. StateOf(displaying, v) /\ v.amplitude = a /\ v.master = MASTER
    <3>1. StateOf(displaying, v)
      BY <2>4, <2>8, UserChanges
    <3>2. v.amplitude = u.amplitude /\ v.master = MASTER
      BY <2>4, <2>8, OtherAmplitudes
    <3> QED BY <2>8, <3>1, <3>2
  <2>10. StateOf(displaying, w) /\ w.amplitude = a /\ w.master = MASTER
    <3>1. StateOf(displaying, w)
      BY <2>5, <2>9, UserChanges
    <3>2. w.amplitude = v.amplitude /\ w.master = v.master
      BY <2>5, <2>9, OtherParts
    <3> QED BY <2>9, <3>1, <3>2
  <2>11. displaying # None => Steady(displaying, w, forced')
    <3>1. displaying # None => Whole(displaying, a) /\ Feasible(displaying, a)
      BY <1>2, <2>1, <2>7, RestFeasible
    <3> QED BY <1>3, <2>10, <3>1 DEF Steady
  <2>12. \A q \in Shown : q # displaying => (q \in forced' <=> q \in forced)
    BY <2>6
  <2> QED BY <1>5, <2>6, <2>10, <2>11, <2>12 DEF Adjust
<1>10. CASE Animate
  <2>1. PICK x : x = ~view.playing
    OBVIOUS
  <2>2. PICK v : v = [view EXCEPT !.playing = x]
    OBVIOUS
  <2>3. /\ view' = v /\ displaying' = displaying /\ rows' = rows /\ forced' = forced
        /\ ui' = saveActive(displaying, v) /\ panel' = panel
    BY <1>10, <2>1, <2>2 DEF Animate
  <2>4. StateOf(displaying, v)
    BY <1>1, <2>2, UserChanges
  <2>5. v.amplitude = view.amplitude /\ v.master = view.master
    BY <1>1, <2>2, OtherParts
  <2>6. panel'.sliders = panel.sliders
    BY <2>3
  <2> QED BY <1>4, <2>3, <2>4, <2>5, <2>6
<1>11. CASE LoadMore
  <2>1. PICK x : x = Min({Len(Of(displaying).modes), view.limit + BATCH})
    OBVIOUS
  <2>2. PICK v : v = [view EXCEPT !.limit = x]
    OBVIOUS
  <2>3. /\ view' = v /\ displaying' = displaying /\ rows' = rows /\ forced' = forced
        /\ ui' = saveActive(displaying, v) /\ panel' = Rendered(displaying, v)
    BY <1>11, <2>1, <2>2 DEF LoadMore
  <2>4. StateOf(displaying, v)
    BY <1>1, <2>2, UserChanges
  <2>5. v.amplitude = view.amplitude /\ v.master = view.master
    BY <1>1, <2>2, OtherAmplitudes
  <2>6. displaying # None => Steady(displaying, v, forced')
    BY <1>2, <2>3, <2>5 DEF Steady
  <2> QED BY <1>5, <2>3, <2>4, <2>6
<1>12. ASSUME NEW v, SwitchDrawing(v), ~Of(displaying).many => StateOf(displaying, v),
              v.amplitude = view.amplitude, v.master = view.master
       PROVE  OccupancyInv'
  <2>1. /\ view' = v /\ displaying' = displaying /\ rows' = rows /\ forced' = forced
        /\ ui' = saveActive(displaying, v) /\ panel' = panel /\ StateOf(displaying, v)
    BY <1>12 DEF SwitchDrawing
  <2>2. panel'.sliders = panel.sliders
    BY <2>1
  <2> QED BY <1>4, <1>12, <2>1, <2>2
<1>13. CASE SwitchDrawing([view EXCEPT !.bonds = ~@])
  <2>1. PICK x \in BOOLEAN : x = ~view.bonds
    OBVIOUS
  <2>2. PICK v : v = [view EXCEPT !.bonds = x]
    OBVIOUS
  <2>3. ~Of(displaying).many => StateOf(displaying, v)
    BY <1>1, <2>2, UserChanges
  <2>4. v.amplitude = view.amplitude /\ v.master = view.master
    BY <1>1, <2>2, OtherParts
  <2>5. SwitchDrawing(v)
    BY <1>13, <2>1, <2>2
  <2> QED BY <1>12, <2>3, <2>4, <2>5
<1>14. CASE SwitchDrawing([view EXCEPT !.polyhedra = ~@])
  <2>1. PICK x \in BOOLEAN : x = ~view.polyhedra
    OBVIOUS
  <2>2. PICK v : v = [view EXCEPT !.polyhedra = x]
    OBVIOUS
  <2>3. ~Of(displaying).many => StateOf(displaying, v)
    BY <1>1, <2>2, UserChanges
  <2>4. v.amplitude = view.amplitude /\ v.master = view.master
    BY <1>1, <2>2, OtherParts
  <2>5. SwitchDrawing(v)
    BY <1>14, <2>1, <2>2
  <2> QED BY <1>12, <2>3, <2>4, <2>5
<1>15. ASSUME \/ \E c \in DOMAIN panel.boxes : ToggleSite(c)
              \/ \E parent \in DOMAIN panel.parents : ToggleParent(parent)
              \/ \E element \in DOMAIN panel.elements : ToggleElement(element)
       PROVE  OccupancyInv'
  <2>1. PICK sites, on, p : Toggle(sites, on, p) /\ p.sliders = panel.sliders
    BY <1>15, ToggleSliders
  <2>2. PICK x : x = IF on THEN view.concealed \ sites ELSE view.concealed \cup sites
    OBVIOUS
  <2>3. PICK v : v = [view EXCEPT !.concealed = x]
    OBVIOUS
  <2>4. /\ view' = v /\ displaying' = displaying /\ rows' = rows /\ forced' = forced
        /\ ui' = saveActive(displaying, view) /\ panel'.sliders = panel.sliders
    BY <2>1, <2>2, <2>3 DEF Toggle
  <2>5. StateOf(displaying, v)
    BY <1>1, <2>3, UserChanges
  <2>6. v.amplitude = view.amplitude /\ v.master = view.master
    BY <1>1, <2>3, OtherParts
  <2> QED BY <1>4, <2>4, <2>5, <2>6
<1> QED
  BY <1>6, <1>7, <1>8, <1>9, <1>10, <1>11, <1>13, <1>14, <1>15 DEF UserStep

\* Tabs come, go and take turns, and launches arrive.
LEMMA TabStepSteady ==
    ASSUME MemoryInv, MemoryInv', PanelInv, OccupancyInv, TabStep
    PROVE  OccupancyInv'
<1>1. /\ StateOf(displaying, view) /\ displaying = strip.active /\ strip \in TabLists(Shown)
      /\ ui = [q \in Shown |-> ui[q]] /\ \A q \in Shown : ui[q] # NoState => StateOf(q, ui[q])
  BY DEF MemoryInv, ViewerTypes
<1>2. /\ rows = [q \in Shown |-> rows[q]] /\ \A q \in Shown : rows[q] \in Launches \cup {<<>>}
      /\ \A q \in Shown : ui[q] # NoState => Steady(q, ui[q], forced)
      /\ displaying # None => Steady(displaying, view, forced)
      /\ EndsWhole(displaying, panel)
  BY DEF OccupancyInv
<1>3. /\ displaying # None => displaying \in InTabs(strip) /\ displaying \in Shown
      /\ InTabs(strip) \subseteq Shown /\ None \notin Shown
  BY DisplayedTab DEF MemoryInv
<1>4. \A q \in Shown : ui'[q] # NoState => StateOf(q, ui'[q])
  <2>1. ViewerTypes'
    BY DEF MemoryInv
  <2> QED BY <2>1, TypesNext
<1>5. strip'.active \in Shown \cup {None}
  <2>1. PICK tabs : tabs = strip'
    OBVIOUS
  <2>2. tabs \in TabLists(Shown)
    BY <2>1 DEF MemoryInv, ViewerTypes, TabLists
  <2>3. InTabs(tabs) \subseteq Shown /\ tabs.active \in InTabs(tabs) \cup {None}
    BY <2>2, TabListParts
  <2> QED BY <2>1, <2>3
<1>6. PICK saved : saved = saveActive(displaying, view)
  OBVIOUS
<1>7. /\ saved = [q \in Shown |-> saved[q]]
      /\ \A q \in Shown : saved[q] # NoState => Steady(q, saved[q], forced)
  <2>1. /\ saved = [q \in Shown |-> saved[q]]
        /\ \A q \in Shown : q # displaying => saved[q] = ui[q]
        /\ displaying # None => Steady(displaying, saved[displaying], forced)
    BY <1>1, <1>2, <1>6, SavedSteady
  <2> QED BY <1>2, <1>3, <2>1
<1>8. ASSUME NEW seen, displayActive(strip'.active, ui', rows', seen),
             rows' = [q \in Shown |-> rows'[q]],
             \A q \in Shown : rows'[q] \in Launches \cup {<<>>},
             \A q \in Shown : ui'[q] # NoState => Steady(q, ui'[q], forced)
      PROVE  OccupancyInv'
  <2>1. \A q \in Shown : ui'[q] # NoState => StateOf(q, ui'[q]) /\ Steady(q, ui'[q], forced)
    BY <1>4, <1>8
  <2> QED BY <1>5, <1>8, <2>1, DisplayActiveSteady
<1>9. ASSUME UNCHANGED <<displaying, view, panel, forced>>,
             rows' = [q \in Shown |-> rows'[q]],
             \A q \in Shown : rows'[q] \in Launches \cup {<<>>},
             \A q \in Shown : ui'[q] # NoState => Steady(q, ui'[q], forced)
      PROVE  OccupancyInv'
  BY <1>2, <1>9, OccupancyNext
<1>10. ASSUME NEW r \in Shown, NEW alone \in BOOLEAN, ReceiveTab(r, alone) PROVE OccupancyInv'
  <2>1. ui' = (IF alone THEN saved ELSE ui) /\ rows' = rows
    BY <1>6, <1>10 DEF ReceiveTab
  <2>2. \A q \in Shown : ui'[q] # NoState => Steady(q, ui'[q], forced)
    BY <1>2, <1>7, <2>1
  <2>3. CASE strip'.active = displaying
    <3>1. UNCHANGED <<displaying, view, panel, forced>>
      BY <1>10, <2>3 DEF ReceiveTab
    <3> QED BY <1>2, <1>9, <2>1, <2>2, <3>1
  <2>4. CASE strip'.active # displaying
    <3>1. displayActive(strip'.active, ui', rows, left)
      BY <1>10, <2>4 DEF ReceiveTab
    <3> QED BY <1>2, <1>8, <2>1, <2>2, <3>1
  <2> QED BY <2>3, <2>4
<1>11. ASSUME NEW r \in Shown, ActivateTab(r) PROVE OccupancyInv'
  <2>1. ui' = saved /\ rows' = rows /\ displayActive(r, ui', rows, left)
    BY <1>6, <1>11 DEF ActivateTab
  <2>2. \A q \in Shown : ui'[q] # NoState => StateOf(q, ui'[q]) /\ Steady(q, ui'[q], forced)
    BY <1>4, <1>7, <2>1
  <2> QED BY <1>2, <2>1, <2>2, DisplayActiveSteady
<1>12. ASSUME NEW r \in Shown, RemoveTab(r) PROVE OccupancyInv'
  <2>1. ui' = [saved EXCEPT ![r] = NoState] /\ rows' = [rows EXCEPT ![r] = <<>>]
    BY <1>6, <1>12 DEF RemoveTab
  <2>2. \A q \in Shown : ui'[q] # NoState => Steady(q, ui'[q], forced)
    <3>1. ASSUME NEW q \in Shown, ui'[q] # NoState PROVE Steady(q, ui'[q], forced)
      <4>1. q # r /\ ui'[q] = saved[q]
        BY <1>7, <2>1, <3>1
      <4> QED BY <1>7, <3>1, <4>1
    <3> QED BY <3>1
  <2>3. rows' = [q \in Shown |-> rows'[q]] /\ \A q \in Shown : rows'[q] \in Launches \cup {<<>>}
    BY <1>2, <2>1
  <2>4. CASE strip'.active = displaying
    <3>1. UNCHANGED <<displaying, view, panel, forced>>
      BY <1>12, <2>4 DEF RemoveTab
    <3> QED BY <1>9, <2>2, <2>3, <3>1
  <2>5. CASE strip'.active # displaying
    <3>1. displayActive(strip'.active, ui', rows', [left EXCEPT ![r] = NoState])
      BY <1>12, <2>5 DEF RemoveTab
    <3> QED BY <1>8, <2>2, <2>3, <3>1
  <2> QED BY <2>4, <2>5
<1>13. ASSUME NEW r \in Shown, FirstFrame(r) PROVE OccupancyInv'
  <2>1. displaying' = displaying /\ rows' = rows /\ forced' = forced
    BY <1>13 DEF FirstFrame
  <2>2. CASE displaying # r
    <3>1. UNCHANGED <<view, panel, ui>>
      BY <1>13, <2>2 DEF FirstFrame
    <3> QED BY <1>2, <1>9, <2>1, <3>1
  <2>3. CASE displaying = r
    <3>1. PICK again : again = IF ui[r] # NoState THEN Restored(r, view, ui[r]) ELSE view
      OBVIOUS
    <3>2. /\ view' = again /\ ui' = saveActive(r, again)
          /\ panel' = IF ui[r] # NoState THEN Rendered(r, again) ELSE panel
      BY <1>13, <2>3, <3>1 DEF FirstFrame
    <3>3. again = IF ui[r] # NoState THEN ui[r] ELSE view
      BY <1>1, <3>1, RestoredState
    <3>4. StateOf(r, again) /\ Steady(r, again, forced)
      BY <1>1, <1>2, <1>3, <1>13, <2>3, <3>3
    <3>5. EndsWhole(r, panel')
      <4>1. CASE ui[r] # NoState
        <5>1. SlidersShow(r, again, panel')
          BY <3>2, <4>1, RenderedShows
        <5> QED BY <3>4, <5>1, ShownEnds DEF Steady
      <4>2. CASE ui[r] = NoState
        BY <1>2, <2>3, <3>2, <4>2
      <4> QED BY <4>1, <4>2
    <3> QED BY <2>1, <2>3, <3>2, <3>4, <3>5, ChangeSteady
  <2> QED BY <2>2, <2>3
<1>14. ASSUME NEW r \in Shown, NEW list \in Launches, ReceiveLaunch(r, list) PROVE OccupancyInv'
  <2>1. displaying' = displaying /\ rows' = [rows EXCEPT ![r] = list] /\ r \in InTabs(strip)
    BY <1>14 DEF ReceiveLaunch
  <2>2. rows' = [q \in Shown |-> rows'[q]] /\ \A q \in Shown : rows'[q] \in Launches \cup {<<>>}
    BY <1>2, <1>14, <2>1
  <2>3. PICK merged : merged = IF ui[r] = NoState THEN ui
                               ELSE [ui EXCEPT ![r].amplitude = Set(@, list)]
    OBVIOUS
  <2>4. PICK a : a = Set(ui[r].amplitude, list)
    OBVIOUS
  <2>5. /\ \A q \in Shown : q # r => merged[q] = ui[q]
        /\ merged[r] = IF ui[r] = NoState THEN NoState ELSE [ui[r] EXCEPT !.amplitude = a]
    BY <1>1, <1>14, <2>3, <2>4
  <2>6. ui[r] # NoState => /\ Whole(r, a) /\ merged[r].amplitude = a
                           /\ merged[r].master = ui[r].master /\ merged[r].master \in 0..MASTER
    <3>1. SUFFICES ASSUME ui[r] # NoState
                   PROVE  /\ Whole(r, a) /\ merged[r].amplitude = a
                          /\ merged[r].master = ui[r].master /\ merged[r].master \in 0..MASTER
      OBVIOUS
    <3>2. PICK u : u = ui[r]
      OBVIOUS
    <3>3. StateOf(r, u) /\ Steady(r, u, forced)
      BY <1>1, <1>2, <1>14, <3>1, <3>2
    <3>4. DOMAIN u.amplitude = ModesOf(r)
      BY <3>3, OtherAmplitudes
    <3>5. PICK A : A = u.amplitude
      OBVIOUS
    <3>6. Whole(r, A) /\ u.master \in 0..MASTER
      BY <3>3, <3>5 DEF Steady
    <3>7. Whole(r, Set(A, list))
      BY <1>14, <3>4, <3>5, <3>6, LaunchWhole
    <3>8. [u EXCEPT !.amplitude = a].amplitude = a /\ [u EXCEPT !.amplitude = a].master = u.master
      BY <3>3, OtherAmplitudes
    <3> QED BY <2>4, <2>5, <3>1, <3>2, <3>5, <3>6, <3>7, <3>8
  <2>7. PICK b : b = Set(view.amplitude, KnownRows(r, list))
    OBVIOUS
  <2>8. PICK given : given = [view EXCEPT !.amplitude = b]
    OBVIOUS
  <2>9. displaying = r => /\ StateOf(r, given) /\ given.amplitude = b /\ given.master = view.master
                          /\ Whole(r, b) /\ given.master \in 0..MASTER
    <3>1. SUFFICES ASSUME displaying = r
                   PROVE  /\ StateOf(r, given) /\ given.amplitude = b /\ given.master = view.master
                          /\ Whole(r, b) /\ given.master \in 0..MASTER
      OBVIOUS
    <3>2. b = [mode \in ModesOf(r) |-> b[mode]]
      BY <1>1, <2>7, <3>1, SetModes DEF StateOf
    <3>3. StateOf(r, given)
      BY <1>1, <2>8, <3>1, <3>2, AmplitudesChanged
    <3>4. given.amplitude = b /\ given.master = view.master
      BY <1>1, <2>8, OtherAmplitudes
    <3>5. PICK A : A = view.amplitude
      OBVIOUS
    <3>6. DOMAIN A = ModesOf(r)
      BY <1>1, <3>1, <3>5, OtherAmplitudes
    <3>7. Whole(r, A) /\ view.master \in 0..MASTER
      BY <1>2, <1>3, <1>14, <3>1, <3>5 DEF Steady
    <3>8. Whole(r, Set(A, KnownRows(r, list)))
      BY <1>14, <3>6, <3>7, LaunchWhole
    <3> QED BY <2>7, <3>3, <3>4, <3>5, <3>7, <3>8
  <2>10. CASE displaying # r
    <3>1. ui' = merged /\ UNCHANGED <<view, panel>>
      BY <1>14, <2>3, <2>10 DEF ReceiveLaunch
    <3>2. CASE ui[r] = NoState
      <4>1. forced' = forced
        BY <1>14, <2>10, <3>2 DEF ReceiveLaunch
      <4>2. \A q \in Shown : ui'[q] # NoState => Steady(q, ui'[q], forced)
        BY <1>2, <2>3, <3>1, <3>2
      <4> QED BY <1>9, <2>1, <2>2, <3>1, <4>1, <4>2
    <3>3. CASE ui[r] # NoState
      <4>1. PICK some : some = {a}
        OBVIOUS
      <4>2. forced' = Forces(r, some)
        BY <1>14, <2>3, <2>6, <2>10, <3>3, <4>1 DEF ReceiveLaunch
      <4>3. r \in Shown /\ \A A \in some : Whole(r, A)
        BY <1>14, <2>6, <3>3, <4>1
      <4>4. /\ r \notin forced' => Feasible(r, a)
            /\ \A q : q # r => (q \in forced' <=> q \in forced)
        BY <4>1, <4>2, <4>3, ForcesFacts
      <4>5. Steady(r, ui'[r], forced')
        BY <2>6, <3>1, <3>3, <4>4 DEF Steady
      <4>6. \A q \in Shown : ui'[q] # NoState => Steady(q, ui'[q], forced')
        <5>1. ASSUME NEW q \in Shown, q # r, ui'[q] # NoState PROVE Steady(q, ui'[q], forced')
          <6>1. ui'[q] = ui[q]
            BY <2>5, <3>1, <5>1
          <6> QED BY <1>2, <4>4, <5>1, <6>1 DEF Steady
        <5> QED BY <4>5, <5>1
      <4>7. displaying # None => Steady(displaying, view, forced')
        BY <1>2, <2>10, <4>4 DEF Steady
      <4> QED BY <1>2, <2>1, <2>2, <3>1, <4>6, <4>7, OccupancyNext
    <3> QED BY <3>2, <3>3
  <2>11. CASE displaying = r /\ Fails(r, list)
    <3>1. PICK some : some = {b} \cup (IF ui[r] = NoState THEN {} ELSE {a})
      OBVIOUS
    <3>2. view' = given /\ ui' = merged /\ panel' = panel
      BY <1>14, <2>3, <2>7, <2>8, <2>11 DEF ReceiveLaunch
    <3>3. forced' = Forces(r, some)
      <4>1. PICK m : m = merged[r].amplitude
        OBVIOUS
      <4>2. forced' = Forces(r, {given.amplitude} \cup (IF ui[r] = NoState THEN {} ELSE {m}))
        BY <1>14, <2>3, <2>7, <2>8, <2>11, <4>1 DEF ReceiveLaunch
      <4> QED BY <2>6, <2>9, <2>11, <3>1, <4>1, <4>2
    <3>4. r \in Shown /\ \A A \in some : Whole(r, A)
      BY <1>14, <2>6, <2>9, <2>11, <3>1
    <3>5. /\ r \notin forced' => \A A \in some : Feasible(r, A)
          /\ \A q : q # r => (q \in forced' <=> q \in forced)
      BY <3>3, <3>4, ForcesFacts
    <3>6. Steady(r, given, forced')
      BY <2>9, <2>11, <3>1, <3>5 DEF Steady
    <3>7. \A q \in Shown : ui'[q] # NoState => Steady(q, ui'[q], forced')
      <4>1. ASSUME NEW q \in Shown, q # r, ui'[q] # NoState PROVE Steady(q, ui'[q], forced')
        <5>1. ui'[q] = ui[q]
          BY <2>5, <3>2, <4>1
        <5> QED BY <1>2, <3>5, <4>1, <5>1 DEF Steady
      <4>2. ui'[r] # NoState => Steady(r, ui'[r], forced')
        <5>1. ui'[r] # NoState => ui[r] # NoState
          BY <2>5, <3>2
        <5> QED BY <2>6, <3>1, <3>2, <3>5, <5>1 DEF Steady
      <4> QED BY <4>1, <4>2
    <3> QED BY <1>2, <2>1, <2>2, <2>11, <3>2, <3>6, <3>7, OccupancyNext
  <2>12. CASE displaying = r /\ ~Fails(r, list)
    <3>1. PICK some : some = {b}
      OBVIOUS
    <3>2. view' = given /\ ui' = saveActive(r, given) /\ panel' = Rendered(r, given)
      BY <1>14, <2>7, <2>8, <2>12 DEF ReceiveLaunch
    <3>3. forced' = Forces(r, some)
      BY <1>14, <2>7, <2>8, <2>9, <2>12, <3>1 DEF ReceiveLaunch
    <3>4. r \in Shown /\ \A A \in some : Whole(r, A)
      BY <1>14, <2>9, <2>12, <3>1
    <3>5. /\ r \notin forced' => Feasible(r, b)
          /\ \A q : q # r => (q \in forced' <=> q \in forced)
      BY <3>1, <3>3, <3>4, ForcesFacts
    <3>6. Steady(r, given, forced')
      BY <2>9, <2>12, <3>5 DEF Steady
    <3>7. /\ \A q \in Shown : q # r => ui'[q] = ui[q]
          /\ Steady(r, ui'[r], forced')
      BY <1>3, <1>14, <2>9, <2>12, <3>2, <3>6, SavedSteady
    <3>8. \A q \in Shown : ui'[q] # NoState => Steady(q, ui'[q], forced')
      <4>1. ASSUME NEW q \in Shown, q # r, ui'[q] # NoState PROVE Steady(q, ui'[q], forced')
        <5>1. ui'[q] = ui[q]
          BY <3>7, <4>1
        <5> QED BY <1>2, <3>5, <4>1, <5>1 DEF Steady
      <4> QED BY <3>7, <4>1
    <3>9. EndsWhole(r, panel')
      <4>1. SlidersShow(r, given, panel')
        BY <3>2, RenderedShows
      <4> QED BY <1>14, <2>9, <2>12, <4>1, ShownEnds
    <3> QED BY <2>1, <2>2, <2>12, <3>2, <3>6, <3>8, <3>9, OccupancyNext
  <2> QED BY <2>10, <2>11, <2>12
<1> QED BY <1>10, <1>11, <1>12, <1>13, <1>14 DEF TabStep

\* Every step keeps the occupancies in order.
THEOREM OccupancyInvariant == OutputPageSpec => [](MemoryInv /\ PanelInv /\ OccupancyInv)
<1>1. ViewerInit => OccupancyInv
  <2> SUFFICES ASSUME ViewerInit PROVE OccupancyInv
    OBVIOUS
  <2>1. PICK v : v = Fresh(None)
    OBVIOUS
  <2>2. /\ displaying = None /\ view = v /\ panel = Rendered(None, v)
        /\ ui = [r \in Shown |-> NoState] /\ rows = [r \in Shown |-> <<>>]
    BY <2>1 DEF ViewerInit
  <2>3. SlidersShow(None, v, panel) /\ StateOf(None, v)
    BY <2>1, <2>2, RenderedShows, FreshState
  <2>4. EndsWhole(displaying, panel)
    BY <2>2, <2>3, ShownEnds
  <2> QED BY <2>2, <2>4 DEF OccupancyInv
<1>2. OutputPageInit => OccupancyInv
  BY <1>1 DEF OutputPageInit
<1>3. MemoryInv /\ PanelInv /\ OccupancyInv /\ MemoryInv' /\ [OutputPageNext]_<<vars, viewerVars>> => OccupancyInv'
  <2> SUFFICES ASSUME MemoryInv, PanelInv, OccupancyInv, MemoryInv',
                      [OutputPageNext]_<<vars, viewerVars>>
               PROVE  OccupancyInv'
    OBVIOUS
  <2>1. CASE UNCHANGED viewerVars
    <3>1. UNCHANGED <<displaying, view, panel, ui, rows, forced>>
      BY <2>1 DEF viewerVars
    <3>2. /\ rows = [r \in Shown |-> rows[r]] /\ \A r \in Shown : rows[r] \in Launches \cup {<<>>}
          /\ \A r \in Shown : ui[r] # NoState => Steady(r, ui[r], forced)
          /\ displaying # None => Steady(displaying, view, forced)
          /\ EndsWhole(displaying, panel)
      BY DEF OccupancyInv
    <3> QED BY <3>1, <3>2, OccupancyNext
  <2>2. CASE TabStep
    BY <2>2, TabStepSteady
  <2>3. CASE UserStep
    BY <2>3, UserStepSteady
  <2> QED BY <2>1, <2>2, <2>3 DEF OutputPageNext, ViewerNext
<1> QED BY <1>2, <1>3, PanelInvariant, PTL DEF OutputPageSpec

\* Whatever the user moves, no atom and no shared position gets an occupancy
\* that no structure has, unless a launch asked for one (occupancyRanges() and
\* setAmplitudes() of mode3d.js).
THEOREM OccupanciesAlwaysPossible == OutputPageSpec => []OccupancyPossible
<1>1. MemoryInv /\ OccupancyInv => OccupancyPossible
  <2> SUFFICES ASSUME MemoryInv, OccupancyInv, displaying \notin forced \cup {None}
               PROVE  \A m \in 0..MASTER : Possible(displaying, view.amplitude, m)
    BY DEF OccupancyPossible
  <2>1. displaying \in Shown
    BY DisplayedTab DEF MemoryInv
  <2>2. Whole(displaying, view.amplitude) /\ Feasible(displaying, view.amplitude)
    BY DEF OccupancyInv, Steady
  <2> QED BY <2>1, <2>2, FeasiblePossible
<1> QED BY <1>1, OccupancyInvariant, PTL
=============================================================================
