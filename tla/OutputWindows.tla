--------------------------- MODULE OutputWindows ---------------------------
(***************************************************************************)
(* The output tabs: the input page keeps the results for its whole session *)
(* (OutputWindowHost of gui/web/output-window.js), a popup shows them      *)
(* (gui/web/output.js), and the two copies of the tab list are kept in     *)
(* step by window messages.  Messages of one direction arrive in order; a  *)
(* reloaded or closed popup misses what was on its way to it.              *)
(*                                                                         *)
(* The state of a tab - amplitudes, camera, scroll positions - is a        *)
(* number: 0 at first, the number of the click that changed it last, or    *)
(* Amplitudes for what a launch set.  Each step is a callback of one       *)
(* window, which runs to its end undisturbed.                              *)
(***************************************************************************)
EXTENDS OutputTabs

CONSTANTS
    MaxResults,   \* bound of the model: mode results of the session
    MaxClicks     \* bound of the model: what the user does in either window

ASSUME WindowsAssumption ==
    MaxResults \in Nat /\ MaxClicks \in Nat

VARIABLES
    host,         \* tabs of the input page
    kept,         \* per result: the tab state the input page keeps
    phase,        \* the popup is "closed", "loading" or "open"
    popup,        \* tabs of the popup
    shown,        \* per result: the tab state in the popup
    displayed,    \* displayedRevision of the popup
    frames,       \* results whose animation frame callback is still to run
    toPopup,      \* messages on their way to the popup
    toHost,       \* messages on their way to the input page
    results,      \* OutputWindowHost.revision
    launched,     \* history: results that came with amplitudes
    newest,       \* history, per result: the last click that changed its state
    hurried,      \* history: a popup listened, or was replaced, while messages
                  \* of the one before it were still on their way
    clicks        \* what the user has done so far

popupVars == <<popup, shown, displayed, frames>>
vars == <<host, kept, phase, popupVars, toPopup, toHost, results, launched, newest, hurried, clicks>>

Results == 1..MaxResults
Amplitudes == MaxClicks + 1

Click == clicks < MaxClicks /\ clicks' = clicks + 1

Init ==
    /\ host = NoTabs
    /\ kept = [r \in Results |-> 0]
    /\ phase = "closed"
    /\ popup = NoTabs
    /\ shown = [r \in Results |-> 0]
    /\ displayed = None
    /\ frames = {}
    /\ toPopup = <<>> /\ toHost = <<>>
    /\ results = 0
    /\ launched = {}
    /\ newest = [r \in Results |-> 0]
    /\ hurried = FALSE
    /\ clicks = 0

\* A new popup takes the place of a closed one.  The listener of the host
\* wants messages of the popup it has: what the old one sent last is ignored.
ReplacePopup ==
    /\ phase = "closed"
    /\ phase' = "loading"
    /\ hurried' = (hurried \/ toHost # <<>>)
    /\ toHost' = <<>>

\* publish(): all entries with their state, and the selected one.
Published(tabs, state) ==
    [type |-> "results", order |-> tabs.order, state |-> state, active |-> tabs.active]

-----------------------------------------------------------------------------
(* The input page                                                          *)

\* setData() adds and selects a result; it opens the popup when there is none
\* (unless the browser blocks it) and else sends the result over.  A launch
\* with amplitudes goes on to setAmplitudes() in the same callback.
NewResult(withAmplitudes) ==
    LET r == results + 1
        tabs == SelectTab(Add(host, r), r)
        state == IF withAmplitudes THEN [kept EXCEPT ![r] = Amplitudes] ELSE kept
        amplitudes == IF withAmplitudes
                      THEN <<[type |-> "amplitudes", revision |-> r, state |-> Amplitudes]>>
                      ELSE <<>>
    IN
    /\ results < MaxResults
    /\ results' = r
    /\ host' = tabs
    /\ kept' = state
    /\ launched' = IF withAmplitudes THEN launched \cup {r} ELSE launched
    /\ \/ /\ phase # "closed"
          /\ toPopup' = toPopup \o <<[type |-> "result", revision |-> r, state |-> 0]>>
                               \o amplitudes
          /\ UNCHANGED <<phase, toHost, hurried>>
       \/ /\ ReplacePopup
          /\ toPopup' = <<Published(tabs, kept)>> \o amplitudes
       \/ /\ phase = "closed"
          /\ UNCHANGED <<phase, toPopup, toHost, hurried>>
    /\ UNCHANGED <<popupVars, newest, clicks>>

\* "Open output": open() does nothing with neither results nor a popup, opens
\* a missing popup unless the browser blocks it, and publishes.
OpenOutput ==
    /\ Click
    /\ host.order # <<>> \/ phase # "closed"
    /\ \/ /\ phase # "closed"
          /\ toPopup' = Append(toPopup, Published(host, kept))
          /\ UNCHANGED <<phase, toHost, hurried>>
       \/ /\ ReplacePopup
          /\ toPopup' = <<Published(host, kept)>>
    /\ UNCHANGED <<host, kept, popupVars, results, launched, newest>>

\* A fault: a popup that was reloaded is told nothing.
AnswerNothing(m) == <<>>

\* A fault: what the popup saves is sent back to it.
AnswerSaves(m) ==
    CASE m.type = "ready" -> <<Published(host, kept)>>
      [] m.type = "result-state" ->
            <<[type |-> "amplitudes", revision |-> m.revision, state |-> m.state]>>
      [] OTHER -> <<>>

\* What the host answers: the results, to a popup that says it is ready.
Answer(m) == IF m.type = "ready" THEN <<Published(host, kept)>> ELSE <<>>

\* The message listener of OutputWindowHost.
HostReceive ==
    /\ toHost # <<>>
    /\ LET m == Head(toHost) IN
       /\ toHost' = Tail(toHost)
       /\ host' = CASE m.type = "select" -> SelectTab(host, m.revision)
                    [] m.type = "close" -> Close(host, m.revision)
                    [] OTHER -> host
       /\ kept' = IF m.type = "result-state" /\ m.revision \in InTabs(host)
                  THEN [kept EXCEPT ![m.revision] = m.state] ELSE kept
       /\ toPopup' = IF phase # "closed" THEN toPopup \o Answer(m) ELSE toPopup
    /\ UNCHANGED <<phase, popupVars, results, launched, newest, hurried, clicks>>

-----------------------------------------------------------------------------
(* The popup                                                               *)

\* A fault: the state is saved in the popup only.
SavedHere(tabs, state, r) == <<>>

\* saveActive(): the message with the displayed result's state.
Saved(tabs, state, r) ==
    IF r \in InTabs(tabs)
    THEN <<[type |-> "result-state", revision |-> r, state |-> state[r]]>>
    ELSE <<>>

\* A fault: the selection stays in the popup.
SelectedHere(tabs) == <<>>

\* The message that tells the host of a selection that moved.
Selected(tabs) ==
    IF tabs.active = displayed THEN <<>>
    ELSE <<[type |-> "select", revision |-> tabs.active]>>

\* displayActive(), when the selection has moved away from what is displayed:
\* the host is told, and the new result is saved on the next frame.
Display(tabs, messages) ==
    /\ popup' = tabs
    /\ displayed' = tabs.active
    /\ frames' = IF tabs.active \notin {None, displayed}
                 THEN frames \cup {tabs.active} ELSE frames
    /\ toHost' = toHost \o messages \o Selected(tabs)

\* The script of the popup has run: it listens, and says that it is ready.
PopupLoaded ==
    /\ phase = "loading"
    /\ hurried' = (hurried \/ toHost # <<>> \/ toPopup # <<>>)
    /\ phase' = "open"
    /\ toHost' = Append(toHost, [type |-> "ready"])
    /\ UNCHANGED <<host, kept, popupVars, toPopup, results, launched, newest, clicks>>

\* A message that arrives before the popup listens is gone.
MissMessage ==
    /\ phase = "loading"
    /\ toPopup # <<>>
    /\ toPopup' = Tail(toPopup)
    /\ UNCHANGED <<host, kept, phase, popupVars, toHost, results, launched, newest, hurried,
                   clicks>>

\* "results": unknown entries are added, and an empty popup follows the
\* selection of the host.
ReceiveResults ==
    /\ phase = "open" /\ toPopup # <<>>
    /\ LET m == Head(toPopup)
           known == InTabs(popup)
           AddAll[n \in 0..Len(m.order)] ==
               IF n = 0 THEN popup ELSE Add(AddAll[n - 1], m.order[n])
           added == AddAll[Len(m.order)]
       IN
       /\ m.type = "results"
       /\ Display(IF popup.active = None THEN SelectTab(added, m.active) ELSE added, <<>>)
       /\ shown' = [r \in Results |-> IF r \in InTabs(added) \ known THEN m.state[r]
                                      ELSE shown[r]]
    /\ toPopup' = Tail(toPopup)
    /\ UNCHANGED <<host, kept, phase, results, launched, newest, hurried, clicks>>

\* "result": a new result is added and selected, after the displayed one was
\* saved; one the popup knows only takes the selection of an empty popup.
ReceiveResult ==
    /\ phase = "open" /\ toPopup # <<>>
    /\ LET m == Head(toPopup)
           fresh == m.type = "result" /\ m.revision \notin InTabs(popup)
       IN
       /\ m.type = "result"
       /\ Display(IF fresh THEN SelectTab(Add(popup, m.revision), m.revision) ELSE popup,
                  IF fresh THEN Saved(popup, shown, displayed) ELSE <<>>)
       /\ shown' = IF fresh THEN [shown EXCEPT ![m.revision] = m.state] ELSE shown
    /\ toPopup' = Tail(toPopup)
    /\ UNCHANGED <<host, kept, phase, results, launched, newest, hurried, clicks>>

\* "amplitudes": the state of a known result changes, and a displayed one is
\* saved back at once.
ReceiveAmplitudes ==
    /\ phase = "open" /\ toPopup # <<>>
    /\ LET m == Head(toPopup) IN
       /\ m.type = "amplitudes"
       /\ shown' = IF m.revision \in InTabs(popup)
                   THEN [shown EXCEPT ![m.revision] = m.state] ELSE shown
       /\ toHost' = toHost \o IF displayed = m.revision
                              THEN Saved(popup, shown', displayed) ELSE <<>>
    /\ toPopup' = Tail(toPopup)
    /\ UNCHANGED <<host, kept, phase, popup, displayed, frames, results, launched, newest,
                   hurried, clicks>>

\* A tab is clicked: activate() saves the displayed result and switches.
Activate(r) ==
    /\ phase = "open"
    /\ Click
    /\ r \in InTabs(popup) /\ r # popup.active
    /\ Display(SelectTab(popup, r), Saved(popup, shown, displayed))
    /\ UNCHANGED <<host, kept, phase, shown, toPopup, results, launched, newest, hurried>>

\* The cross of a tab is clicked.
CloseTab(r) ==
    /\ phase = "open"
    /\ Click
    /\ r \in InTabs(popup)
    /\ Display(Close(popup, r),
               Saved(popup, shown, displayed) \o <<[type |-> "close", revision |-> r]>>)
    /\ UNCHANGED <<host, kept, phase, shown, toPopup, results, launched, newest, hurried>>

\* A slider is moved or the view changed, and saveActive() runs.
Edit ==
    /\ phase = "open"
    /\ displayed # None
    /\ Click
    /\ newest' = [newest EXCEPT ![displayed] = clicks + 1]
    /\ shown' = [shown EXCEPT ![displayed] = clicks + 1]
    /\ toHost' = toHost \o Saved(popup, shown', displayed)
    /\ UNCHANGED <<host, kept, phase, popup, displayed, frames, toPopup, results,
                   launched, hurried>>

\* The animation frame after displayActive(): the result is saved if it is
\* still the displayed one.
Frame(r) ==
    /\ phase = "open"
    /\ r \in frames
    /\ frames' = frames \ {r}
    /\ toHost' = toHost \o IF displayed = r THEN Saved(popup, shown, r) ELSE <<>>
    /\ UNCHANGED <<host, kept, phase, popup, shown, displayed, toPopup, results, launched,
                   newest, hurried, clicks>>

\* The popup is reloaded or closed: pagehide saves the displayed result, and
\* the page and the messages on their way to it are gone.
LeavePage(next) ==
    /\ phase = "open"
    /\ Click
    /\ phase' = next
    /\ toHost' = toHost \o Saved(popup, shown, displayed)
    /\ popup' = NoTabs
    /\ shown' = [r \in Results |-> 0]
    /\ displayed' = None
    /\ frames' = {}
    /\ toPopup' = <<>>
    /\ UNCHANGED <<host, kept, results, launched, newest, hurried>>

-----------------------------------------------------------------------------

HostStep == OpenOutput \/ HostReceive \/ \E amplitudes \in BOOLEAN : NewResult(amplitudes)

PopupStep ==
    \/ PopupLoaded \/ MissMessage
    \/ ReceiveResults \/ ReceiveResult \/ ReceiveAmplitudes
    \/ Edit \/ LeavePage("loading") \/ LeavePage("closed")
    \/ \E r \in Results : Activate(r) \/ CloseTab(r) \/ Frame(r)

Next == HostStep \/ PopupStep

Spec == Init /\ [][Next]_vars

\* The windows handle the messages they get, and a page that loads finishes.
Fairness ==
    /\ WF_vars(HostReceive)
    /\ WF_vars(PopupLoaded)
    /\ WF_vars(ReceiveResults \/ ReceiveResult \/ ReceiveAmplitudes)

FairSpec == Spec /\ Fairness

-----------------------------------------------------------------------------
(* Properties                                                              *)

\* Both windows have handled everything they were sent.
Settled == phase = "open" /\ toPopup = <<>> /\ toHost = <<>>

\* Once settled, the popup shows every result the input page keeps: none is
\* missed because the popup was loading, reloaded or opened late.
PopupShowsAll == Settled => InTabs(host) \subseteq InTabs(popup)

\* Once settled, both windows have the same result selected, whoever chose it
\* last, so that a reloaded popup comes back to the tab it was left on.
SelectionAgrees ==
    Settled /\ popup.active \in InTabs(host) => host.active = popup.active

\* Manual.md: tab state persists within the input-page session.  Once
\* settled, the input page has the last state the user gave to each tab, so
\* that a reloaded or reopened popup shows it again - unless a new popup was
\* faster than the last message of the old one.
EditsPersist ==
    Settled /\ ~hurried => \A r \in InTabs(host) \ launched : kept[r] = newest[r]

\* Output-tabs.js: results live until they are explicitly closed.  Once
\* settled, no tab is in the popup that the input page has closed.
ClosedStaysClosed == Settled /\ ~hurried => InTabs(popup) \subseteq InTabs(host)

\* The same for what `apo show --amplitude` set: once settled, the input page
\* keeps the amplitudes of a launch until the user changes them.
AmplitudesPersist ==
    Settled /\ ~hurried => \A r \in InTabs(host) \cap launched :
                   newest[r] = 0 => kept[r] = Amplitudes

\* The windows do not answer each other for ever: once the user rests, the
\* messages that the selections, saves and publications cause run out.
Quiesces == <>[](toHost = <<>> /\ toPopup = <<>>)
=============================================================================
