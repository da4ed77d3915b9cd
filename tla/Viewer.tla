------------------------------- MODULE Viewer -------------------------------
(***************************************************************************)
(* The viewer of the output window (ModeStructureViewer of                 *)
(* gui/web/mode3d.js) and the tabs that take turns in it                   *)
(* (gui/web/output.js): what the user does to the amplitudes, the shown    *)
(* sites and the drawing options of the displayed result, the panel that   *)
(* shows it, and what is saved and restored when another tab is displayed. *)
(*                                                                         *)
(* Occupancies are counted in units, FULL of them a full atom, amplitudes  *)
(* in the same units, and the master amplitude in steps from 0, the parent *)
(* structure, to MASTER, the child.  Colours, labels, camera and scroll    *)
(* positions are left out.                                                 *)
(***************************************************************************)
EXTENDS OutputTabs, FiniteSetsExt

CONSTANTS
    Shown,        \* results the popup may have a tab for
    Crystal,      \* per result: what its payload says (see NoCrystal)
    FULL,         \* units of occupancy 1
    MASTER,       \* steps of the master amplitude
    BATCH,        \* MODE_CONTROL_BATCH_SIZE
    LIMIT,        \* modeAmplitudeLimit() of a mode without occupancies
    Launches,     \* rows <<mode, amplitude>> that launches bring
    MaxTouches    \* bound of the model: what the user and launches do

\* The payload of no result: modes in the order of MODE_KINDS, what the
\* occupancy modes do to an atom, its occupancy in the parent, the position it
\* is at, and the sites of the panel.  many: above MAX_AUTOMATIC_BOND_ATOMS.
NoCrystal == [modes |-> <<>>, weight |-> <<>>, base |-> <<>>, position |-> <<>>,
              parentOf |-> <<>>, elementOf |-> <<>>, many |-> FALSE]

NoState == <<>>   \* no entry.ui

VARIABLES
    strip,        \* the tabs of the popup
    displaying,   \* displayedRevision
    view,         \* what the viewer holds of the displayed result
    panel,        \* what its controls show
    visible,      \* the viewer is drawn and animated
    ui,           \* per result: entry.ui, the state saved last, or NoState
    rows,         \* per result: entry.amplitudes before anything is saved
    awaiting,     \* results whose first frame since displayActive() is to come
    left,         \* history: what the user last saw of each result
    hasty,        \* history: results changed before their first frame without
                  \* being saved: sites toggled, animated, amplitudes refused
    forced,       \* history: a launch set amplitudes no structure can have, or
                  \* failed and left sliders with ends that no longer hold
    stale,        \* history: a launch failed and left the panel as it was
    touches       \* what the user and launches have done so far

viewerVars == <<strip, displaying, view, panel, visible, ui, rows, awaiting, left, hasty, forced,
                stale, touches>>

Of(r) == IF r = None THEN NoCrystal ELSE Crystal[r]
ModesOf(r) == Range(Of(r).modes)
ChildSites(r) == DOMAIN Of(r).parentOf
Parents(r) == Range(Of(r).parentOf)
ElementsOf(r) == Range(Of(r).elementOf)
ChildrenOf(r, parent) == {c \in ChildSites(r) : Of(r).parentOf[c] = parent}
SitesOf(r, element) == {c \in ChildSites(r) : Of(r).elementOf[Of(r).parentOf[c]] = element}
Total(f) == SumFunction(f)

Touch == touches < MaxTouches /\ touches' = touches + 1

-----------------------------------------------------------------------------
(* Amplitudes and what they allow                                          *)

\* What the amplitudes add to the occupancy of each atom, and the occupancy
\* they give it at master amplitude m, in units of 1 / MASTER.
Change(r, amplitude) ==
    [a \in DOMAIN Of(r).base |->
        Total([mode \in DOMAIN Of(r).weight |-> amplitude[mode] * Of(r).weight[mode][a]])]
OccupancyAt(r, amplitude, m) ==
    LET change == Change(r, amplitude)
    IN  [a \in DOMAIN change |-> MASTER * Of(r).base[a] + m * change[a]]

ModeNames(list) == {list[i][1] : i \in DOMAIN list}

\* The atoms of positions that several atoms share.
SharedPositions(r) ==
    {atoms \in {{a \in DOMAIN Of(r).position : Of(r).position[a] = p} : p \in Range(Of(r).position)} :
        Cardinality(atoms) > 1}

\* No atom is there less than not at all or more than once, and no position is
\* filled more than once.
Possible(r, amplitude, m) ==
    LET occupancy == OccupancyAt(r, amplitude, m) IN
    /\ \A a \in DOMAIN occupancy : occupancy[a] \in 0..(MASTER * FULL)
    /\ \A atoms \in SharedPositions(r) :
            SumFunctionOnSet(occupancy, atoms) <= MASTER * FULL

ASSUME ViewerAssumption ==
    /\ FULL \in Nat \ {0} /\ MASTER \in Nat \ {0} /\ BATCH \in Nat \ {0}
    /\ LIMIT \in Nat \ {0} /\ MaxTouches \in Nat
    \* revisions count from 1
    /\ Shown \subseteq Nat \ {None}
    \* what the occupancy modes do to each atom
    /\ \A r \in Shown :
            LET atoms == DOMAIN Of(r).base IN
            /\ IsFiniteSet(atoms) /\ Of(r).base \in [atoms -> Int] /\ DOMAIN Of(r).position = atoms
            /\ IsFiniteSet(DOMAIN Of(r).weight) /\ DOMAIN Of(r).weight \subseteq ModesOf(r)
            /\ \A mode \in DOMAIN Of(r).weight : DOMAIN Of(r).weight[mode] = atoms
    /\ \A list \in Launches : list \in Seq(ModeNames(list) \X Int)
    \* a parent of the panel has a child site, whose element it takes
    /\ \A r \in Shown : DOMAIN Of(r).elementOf = Parents(r)
    \* the slopes of the model keep the edges of the ranges whole
    /\ \A r \in Shown : \A mode \in DOMAIN Of(r).weight :
            LET w == Of(r).weight[mode] IN
            /\ Range(w) \subseteq {-1, 0, 1}
            /\ \A atoms \in SharedPositions(r) : SumFunctionOnSet(w, atoms) \in {-1, 0, 1}
    \* the parent is feasible
    /\ \A r \in Shown : Possible(r, [mode \in ModesOf(r) |-> 0], 0)

\* Where an occupancy mode may be moved to, the others staying where they are:
\* [lowest, highest], within every atom's occupancy.
AtomRange(r, amplitude, mode) ==
    LET w == Of(r).weight[mode]
        change == Change(r, [amplitude EXCEPT ![mode] = 0])
        rest(a) == Of(r).base[a] + change[a]
        moved == {a \in DOMAIN w : w[a] # 0}
    IN  IF moved = {} THEN <<0, 0>>
        ELSE <<Max({IF w[a] > 0 THEN 0 - rest(a) ELSE rest(a) - FULL : a \in moved}),
               Min({IF w[a] > 0 THEN FULL - rest(a) ELSE rest(a) : a \in moved})>>

\* A fault: the atoms of a position are not added up.
AtomRangesOnly(r, amplitude) ==
    [mode \in DOMAIN Of(r).weight |->
        <<Min({AtomRange(r, amplitude, mode)[1], amplitude[mode]}),
          Max({AtomRange(r, amplitude, mode)[2], amplitude[mode]})>>]

\* occupancyRanges(): also within what the shared positions hold, and never
\* without the amplitude of now.
occupancyRanges(r, amplitude) ==
    [mode \in DOMAIN Of(r).weight |->
        LET w == Of(r).weight[mode]
            change == Change(r, amplitude)
            slope(atoms) == SumFunctionOnSet(w, atoms)
            room(atoms) == FULL - SumFunctionOnSet(Of(r).base, atoms)
                                - SumFunctionOnSet(change, atoms)
            edges(sign) == {amplitude[mode] + sign * room(atoms) :
                                atoms \in {s \in SharedPositions(r) : slope(s) = sign}}
            range == AtomRange(r, amplitude, mode)
        IN  <<Min({Max({range[1]} \cup edges(-1)), amplitude[mode]}),
              Max({Min({range[2]} \cup edges(1)), amplitude[mode]})>>]

-----------------------------------------------------------------------------
(* The panel                                                               *)

\* Half-ticked boxes: syncVisibility() of a box above the given child boxes.
Ticked(boxes, sites) ==
    LET on == {s \in sites : boxes[s]} IN
    CASE on = sites -> "all" [] on = {} -> "none" [] OTHER -> "some"

\* The sliders of the modes shown so far, with their ends and what is written
\* next to them, in units of 1 / MASTER.
Sliders(r, v) ==
    LET ranges == occupancyRanges(r, v.amplitude)
        size(mode) == IF v.amplitude[mode] > LIMIT THEN v.amplitude[mode]
                      ELSE IF v.amplitude[mode] < 0 - LIMIT THEN 0 - v.amplitude[mode] ELSE LIMIT
        listed == {Of(r).modes[i] : i \in {j \in DOMAIN Of(r).modes : j <= v.limit}}
    IN  [mode \in listed |->
            LET range == IF mode \in DOMAIN ranges THEN ranges[mode]
                         ELSE <<0 - size(mode), size(mode)>>
            IN  [min |-> range[1], max |-> range[2], text |-> v.amplitude[mode] * v.master]]

\* renderModeControls(): the whole panel anew.
Rendered(r, v) ==
    LET boxes == [c \in ChildSites(r) |-> c \notin v.concealed] IN
    [master |-> v.master,
     sliders |-> Sliders(r, v),
     boxes |-> boxes,
     parents |-> [p \in Parents(r) |-> Ticked(boxes, ChildrenOf(r, p))],
     elements |-> [e \in ElementsOf(r) |-> Ticked(boxes, SitesOf(r, e))]]

\* updateControlValues(): the sliders that are there follow the amplitudes, and
\* those of occupancies get new ends.
Updated(r, v, p) ==
    LET ranges == occupancyRanges(r, v.amplitude) IN
    [p EXCEPT !.master = v.master,
              !.sliders = [mode \in DOMAIN p.sliders |->
                  [text |-> v.amplitude[mode] * v.master,
                   min |-> IF mode \in DOMAIN ranges THEN ranges[mode][1] ELSE p.sliders[mode].min,
                   max |-> IF mode \in DOMAIN ranges THEN ranges[mode][2] ELSE p.sliders[mode].max]]]

-----------------------------------------------------------------------------
(* What the viewer is given, what is saved of it and what is restored      *)

\* setData(): nothing of the result before is left.  displayActive() then has
\* bonds and polyhedra drawn unless there are too many atoms for it.
Fresh(r) ==
    [amplitude |-> [mode \in ModesOf(r) |-> 0], master |-> MASTER, concealed |-> {},
     limit |-> BATCH, bonds |-> ~Of(r).many, polyhedra |-> ~Of(r).many, playing |-> FALSE]

\* captureState(): all of it, but an animation is saved as stopped.
Captured(v) == [v EXCEPT !.playing = FALSE]

\* A fault: which sites are shown is not restored.
RestoredShown(r, v, state) == [state EXCEPT !.concealed = v.concealed]

\* restoreState(): the saved state, except that what is too large to draw
\* stays undrawn.
Restored(r, v, state) ==
    [state EXCEPT !.amplitude = [mode \in ModesOf(r) |->
                                    IF mode \in DOMAIN state.amplitude THEN state.amplitude[mode]
                                    ELSE v.amplitude[mode]],
                  !.bonds = ~Of(r).many /\ state.bonds,
                  !.polyhedra = ~Of(r).many /\ state.polyhedra]

\* The rows that setAmplitudes() takes before one it does not know.
KnownRows(r, list) ==
    SubSeq(list, 1, Min({i - 1 : i \in {j \in DOMAIN list : list[j][1] \notin ModesOf(r)}}
                            \cup {Len(list)}))
Fails(r, list) == KnownRows(r, list) # list

Set(amplitude, list) ==
    LET lastOf(mode) == Max({0} \cup {i \in DOMAIN list : list[i][1] = mode})
    IN  [mode \in DOMAIN amplitude |->
            IF lastOf(mode) = 0 THEN amplitude[mode] ELSE list[lastOf(mode)][2]]

\* The history of amplitudes that nothing has checked: the result may be beyond
\* repair now.
Forces(r, amplitudes) ==
    IF \A amplitude \in amplitudes, m \in 0..MASTER : Possible(r, amplitude, m)
    THEN forced \ {r} ELSE forced \cup {r}

\* saveActive(): entry.ui of the displayed result, if its tab is still there.
saveActive(r, v) ==
    IF r \in InTabs(strip) THEN [ui EXCEPT ![r] = Captured(v)] ELSE ui

\* displayActive() for result r (None when the last tab is gone): with `saved`
\* and `list` as the states and the launched amplitudes of the tabs, and `seen`
\* as the history of what they showed.
\* Amplitudes that fail leave the viewer hidden and its frame unrequested.
displayActive(r, saved, list, seen) ==
    LET fresh == Fresh(r)
        known == r # None /\ saved[r] # NoState
        fails == r # None /\ ~known /\ Fails(r, list[r])
        given == IF r = None THEN fresh
                 ELSE IF known THEN Restored(r, fresh, saved[r])
                 ELSE [fresh EXCEPT !.amplitude = Set(@, KnownRows(r, list[r]))]
    IN
    /\ displaying' = r
    /\ view' = given
    /\ panel' = Rendered(r, IF fails THEN fresh ELSE given)
    /\ visible' = (r # None /\ ~fails)
    /\ awaiting' = IF r = None \/ fails THEN awaiting ELSE awaiting \cup {r}
    /\ left' = IF r = None \/ seen[r] # NoState THEN seen ELSE [seen EXCEPT ![r] = given]
    /\ forced' = IF r = None \/ known THEN forced ELSE Forces(r, {given.amplitude})
    /\ stale' = fails

ViewerInit ==
    /\ strip = NoTabs
    /\ displaying = None
    /\ view = Fresh(None) /\ panel = Rendered(None, Fresh(None))
    /\ visible = FALSE
    /\ ui = [r \in Shown |-> NoState]
    /\ rows = [r \in Shown |-> <<>>]
    /\ awaiting = {}
    /\ left = [r \in Shown |-> NoState]
    /\ hasty = {} /\ forced = {} /\ stale = FALSE
    /\ touches = 0

-----------------------------------------------------------------------------
(* Tabs and launches                                                       *)

\* A result the popup does not have arrives.  On its own it is selected, after
\* the displayed one was saved; in a publication of all it is selected only
\* when the popup is empty.
ReceiveTab(r, alone) ==
    /\ Touch
    /\ r \notin InTabs(strip)
    /\ strip' = IF alone THEN SelectTab(Add(strip, r), r) ELSE Add(strip, r)
    /\ ui' = IF alone THEN saveActive(displaying, view) ELSE ui
    /\ IF strip'.active = displaying
       THEN UNCHANGED <<displaying, view, panel, visible, awaiting, left, forced, stale>>
       ELSE displayActive(strip'.active, ui', rows, left)
    /\ UNCHANGED <<rows, hasty>>

\* A tab is clicked.
ActivateTab(r) ==
    /\ Touch
    /\ r \in InTabs(strip) /\ r # strip.active
    /\ strip' = SelectTab(strip, r)
    /\ ui' = saveActive(displaying, view)
    /\ displayActive(r, ui', rows, left)
    /\ UNCHANGED <<rows, hasty>>

\* The cross of a tab is clicked: the displayed result is saved, and what the
\* popup knows of the closed one goes with it.
RemoveTab(r) ==
    /\ Touch
    /\ r \in InTabs(strip)
    /\ strip' = Close(strip, r)
    /\ ui' = [saveActive(displaying, view) EXCEPT ![r] = NoState]
    /\ rows' = [rows EXCEPT ![r] = <<>>]
    /\ hasty' = hasty \ {r}
    /\ LET seen == [left EXCEPT ![r] = NoState] IN
       IF strip'.active = displaying
       THEN /\ left' = seen
            /\ UNCHANGED <<displaying, view, panel, visible, awaiting, forced, stale>>
       ELSE displayActive(strip'.active, ui', rows', seen)

\* The frame after displayActive(): a result that is still displayed is put
\* back to its saved state once more, then saved.
FirstFrame(r) ==
    /\ r \in awaiting
    /\ awaiting' = awaiting \ {r}
    /\ IF displaying # r THEN UNCHANGED <<view, panel, ui, left, hasty, stale>>
       ELSE LET known == ui[r] # NoState
                again == IF known THEN Restored(r, view, ui[r]) ELSE view
            IN  /\ view' = again
                /\ panel' = IF known THEN Rendered(r, again) ELSE panel
                /\ ui' = saveActive(r, again)
                /\ left' = IF r \in hasty THEN [left EXCEPT ![r] = again] ELSE left
                /\ hasty' = hasty \ {r}
                /\ stale' = (stale /\ ~known)
    /\ UNCHANGED <<strip, displaying, visible, rows, forced, touches>>

\* "amplitudes": what a launch set for a result.  They are kept with its tab,
\* and go into the saved state; a displayed one takes them and is saved, unless
\* one of them is unknown, which stops setAmplitudes() on its way.
ReceiveLaunch(r, list) ==
    /\ Touch
    /\ r \in InTabs(strip)
    /\ rows' = [rows EXCEPT ![r] = list]
    /\ LET merged == IF ui[r] = NoState THEN ui
                     ELSE [ui EXCEPT ![r].amplitude = Set(@, list)]
           given == [view EXCEPT !.amplitude = Set(@, KnownRows(r, list))]
       IN  IF displaying = r
           THEN /\ view' = given
                /\ left' = [left EXCEPT ![r] = given]
                /\ IF Fails(r, list)
                   THEN /\ ui' = merged
                        /\ forced' = Forces(r, {given.amplitude} \cup
                                        (IF ui[r] = NoState THEN {} ELSE {merged[r].amplitude}))
                        /\ hasty' = hasty \cup ({r} \cap awaiting)
                        /\ stale' = TRUE
                        /\ UNCHANGED panel
                   ELSE /\ ui' = saveActive(r, given)
                        /\ forced' = Forces(r, {given.amplitude})
                        /\ hasty' = hasty
                        /\ panel' = Rendered(r, given)
                        /\ stale' = FALSE
           ELSE /\ ui' = merged
                /\ left' = IF ui[r] = NoState THEN left
                           ELSE [left EXCEPT ![r].amplitude = merged[r].amplitude]
                /\ forced' = IF ui[r] = NoState THEN forced ELSE Forces(r, {merged[r].amplitude})
                /\ UNCHANGED <<view, panel, hasty, stale>>
    /\ UNCHANGED <<strip, displaying, visible, awaiting>>

-----------------------------------------------------------------------------
(* What the user does to the displayed result                              *)

\* The change v of the view, shown by updateControlValues() and saved by the
\* listener of the panel.
Adjust(v) ==
    /\ Touch
    /\ displaying # None
    /\ view' = v
    /\ panel' = Updated(displaying, v, panel)
    /\ ui' = saveActive(displaying, v)
    /\ left' = [left EXCEPT ![displaying] = v]
    /\ stale' = FALSE
    /\ UNCHANGED <<strip, displaying, visible, rows, awaiting, hasty>>

\* A slider is moved to `effective`, which is the amplitude times the master
\* amplitude: the amplitude is what that stands for, within the slider's ends.
MoveSlider(mode, effective) ==
    LET slider == panel.sliders[mode]
        unscaled == IF view.master > 0 THEN (effective * MASTER) \div view.master ELSE effective
        amplitude == Min({slider.max, Max({slider.min, unscaled})})
    IN
    /\ slider.min < slider.max
    /\ effective \in slider.min..slider.max
    /\ Adjust([view EXCEPT !.amplitude[mode] = amplitude])
    /\ forced' = IF stale THEN Forces(displaying, {view'.amplitude}) ELSE forced

\* The master slider.
MoveMaster(m) ==
    /\ m # view.master
    /\ Adjust([view EXCEPT !.master = m, !.playing = FALSE])
    /\ UNCHANGED forced

\* resetModeAmplitudes()
Reset ==
    /\ Adjust([view EXCEPT !.amplitude = [mode \in DOMAIN view.amplitude |-> 0],
                             !.master = MASTER, !.playing = FALSE])
    /\ forced' = forced \ {displaying}

\* "Animate" and "Pause".
Animate ==
    /\ Touch
    /\ displaying # None
    /\ view' = [view EXCEPT !.playing = ~@]
    /\ ui' = saveActive(displaying, view')
    /\ left' = [left EXCEPT ![displaying] = view']
    /\ UNCHANGED <<strip, displaying, panel, visible, rows, awaiting, hasty, forced, stale>>

\* animate(): the animation moves the master amplitude; nothing is saved.
AnimationStep(m) ==
    /\ visible /\ view.playing /\ m # view.master
    /\ view' = [view EXCEPT !.master = m]
    /\ panel' = Updated(displaying, view', panel)
    /\ left' = [left EXCEPT ![displaying] = view']
    /\ hasty' = hasty \cup ({displaying} \cap awaiting)
    /\ stale' = FALSE
    /\ UNCHANGED <<strip, displaying, visible, ui, rows, awaiting, forced, touches>>

\* "Show next": more sliders.
LoadMore ==
    /\ Touch
    /\ view.limit < Len(Of(displaying).modes)
    /\ view' = [view EXCEPT !.limit = Min({Len(Of(displaying).modes), view.limit + BATCH})]
    /\ panel' = Rendered(displaying, view')
    /\ ui' = saveActive(displaying, view')
    /\ left' = [left EXCEPT ![displaying] = view']
    /\ stale' = FALSE
    /\ UNCHANGED <<strip, displaying, visible, rows, awaiting, hasty, forced>>

\* Bonds or polyhedra are switched, where the boxes are not disabled.
SwitchDrawing(v) ==
    /\ Touch
    /\ displaying # None /\ ~Of(displaying).many
    /\ view' = v
    /\ ui' = saveActive(displaying, v)
    /\ left' = [left EXCEPT ![displaying] = v]
    /\ UNCHANGED <<strip, displaying, panel, visible, rows, awaiting, hasty, forced, stale>>

\* setChildVisibility() of some sites: their boxes, and the set of hidden ones,
\* beside the boxes p of their parents and elements. The panel saves on the
\* input event, before these listeners of the change event run, and the clicks
\* do not reach it: saved is the state before.
Switched(sites, on) ==
    [panel EXCEPT !.boxes = [c \in ChildSites(displaying) |-> IF c \in sites THEN on ELSE @[c]]]

Toggle(sites, on, p) ==
    LET r == displaying
        v == [view EXCEPT !.concealed = IF on THEN @ \ sites ELSE @ \cup sites]
    IN
    /\ Touch
    /\ view' = v
    /\ panel' = p
    /\ ui' = saveActive(r, view)
    /\ left' = [left EXCEPT ![r] = v]
    /\ hasty' = hasty \cup ({r} \cap awaiting)
    /\ UNCHANGED <<strip, displaying, visible, rows, awaiting, forced, stale>>

\* A box that was partly ticked, or not, is ticked by a click.
Clicked(box) == box # "all"

SyncParents(r, p, parents) ==
    [p EXCEPT !.parents = [q \in DOMAIN @ |-> IF q \in parents THEN Ticked(p.boxes, ChildrenOf(r, q))
                                              ELSE @[q]]]
SyncElements(r, p, elements) ==
    [p EXCEPT !.elements = [e \in DOMAIN @ |-> IF e \in elements THEN Ticked(p.boxes, SitesOf(r, e))
                                               ELSE @[e]]]

ToggleSite(c) ==
    LET r == displaying
        parent == Of(r).parentOf[c]
        on == ~panel.boxes[c]
        p == SyncParents(r, Switched({c}, on), {parent})
    IN  Toggle({c}, on, SyncElements(r, p, {Of(r).elementOf[parent]}))

\* A fault: the box of the element is left as it was.
ToggleParentOnly(parent) ==
    LET sites == ChildrenOf(displaying, parent)
        on == Clicked(panel.parents[parent])
    IN  Toggle(sites, on, [Switched(sites, on) EXCEPT !.parents[parent] = IF on THEN "all" ELSE "none"])

ToggleParent(parent) ==
    LET r == displaying
        sites == ChildrenOf(r, parent)
        on == Clicked(panel.parents[parent])
        p == [Switched(sites, on) EXCEPT !.parents[parent] = IF on THEN "all" ELSE "none"]
    IN  Toggle(sites, on, SyncElements(r, p, {Of(r).elementOf[parent]}))

ToggleElement(element) ==
    LET r == displaying
        sites == SitesOf(r, element)
        on == Clicked(panel.elements[element])
        p == [Switched(sites, on) EXCEPT !.elements[element] = IF on THEN "all" ELSE "none"]
    IN  Toggle(sites, on, SyncParents(r, p, DOMAIN p.parents))

-----------------------------------------------------------------------------

TabStep ==
    \/ \E r \in Shown, alone \in BOOLEAN : ReceiveTab(r, alone)
    \/ \E r \in Shown : ActivateTab(r) \/ RemoveTab(r) \/ FirstFrame(r)
    \/ \E r \in Shown, list \in Launches : ReceiveLaunch(r, list)

UserStep ==
    \/ \E mode \in DOMAIN panel.sliders :
            \E effective \in panel.sliders[mode].min..panel.sliders[mode].max :
                MoveSlider(mode, effective)
    \/ \E m \in 0..MASTER : MoveMaster(m) \/ AnimationStep(m)
    \/ Reset \/ Animate \/ LoadMore
    \/ SwitchDrawing([view EXCEPT !.bonds = ~@])
    \/ SwitchDrawing([view EXCEPT !.polyhedra = ~@])
    \/ \E c \in DOMAIN panel.boxes : ToggleSite(c)
    \/ \E parent \in DOMAIN panel.parents : ToggleParent(parent)
    \/ \E element \in DOMAIN panel.elements : ToggleElement(element)

ViewerNext == TabStep \/ UserStep

-----------------------------------------------------------------------------
(* Properties                                                              *)

\* The comment of occupancyRanges(): limits checked at master amplitude 1 hold
\* at every one.  Whatever sliders are moved in whatever order, tabs changed in
\* between, no atom and no shared position gets an occupancy that no structure
\* has at any master amplitude, unless a launch asked for one, or failed and
\* left the ends of a slider that is then moved.
OccupancyPossible ==
    displaying \notin forced \cup {None} =>
        \A m \in 0..MASTER : Possible(displaying, view.amplitude, m)

\* The panel and the viewer never disagree: the sliders say what is drawn and
\* end where the structure does, and every box is ticked, half-ticked or not as
\* the sites under it are shown - until a failed launch has left the sliders.
PanelShowsView ==
    LET shouldBe == Rendered(displaying, view) IN
    /\ panel.boxes = shouldBe.boxes
    /\ panel.parents = shouldBe.parents
    /\ panel.elements = shouldBe.elements
    /\ ~stale => /\ panel.master = shouldBe.master
                 /\ DOMAIN panel.sliders = DOMAIN shouldBe.sliders
                 /\ \A mode \in DOMAIN panel.sliders :
                        /\ panel.sliders[mode].text = shouldBe.sliders[mode].text
                        /\ mode \in DOMAIN Of(displaying).weight =>
                                panel.sliders[mode] = shouldBe.sliders[mode]

\* Manual.md: tab state persists within the input-page session.  A tab that is
\* displayed again shows what the user left it with, an animation at rest,
\* whatever was done in other tabs and whatever launches came in between.
ViewSurvives == displaying # None => Captured(view) = Captured(left[displaying])
=============================================================================
