----------------------------- MODULE MCProcess ------------------------------
(***************************************************************************)
(* Process on a small instance: the engine's of MCEngine, the coupled      *)
(* requests of MCCoupled, the supercells of MCKFamilies, the modes of      *)
(* MCModes, the matrices of MCKernel, and what users say, in words or in a *)
(* case file.                                                              *)
(* K points have no, one and two parameters, given by name or by position, *)
(* missing, twice or not a number; irreps are given for some of the slots  *)
(* only; selectors are a type, a label, both, in two lists, or select      *)
(* nothing; two slots are allowed.                                         *)
(***************************************************************************)
EXTENDS MCEngine, MCCoupled, MCKFamilies, MCModes, MCKernel, Process

MCAtoms == <<[label |-> "A1", type |-> "A"], [label |-> "A2", type |-> "A"], [label |-> "B1", type |-> "B"]>>
MCCatalog ==
    [label \in {"GM", "DT", "GP"} |->
        CASE label = "GM" -> <<>> [] label = "DT" -> <<"a">> [] OTHER -> <<"a", "b">>]

Slot(label, params, ir) == [label |-> label, params |-> params, ir |-> ir]
GM == Slot("GM", <<>>, "i")
SomeSlots == {
    GM, Slot("GM", <<>>, ""), Slot("X", <<>>, "i"),
    Slot("DT", <<<<"a", "1">>>>, "i"), Slot("DT", <<<<"", "1">>>>, "i"), Slot("DT", <<>>, "i"),
    Slot("DT", <<<<"a", "1">>, <<"a", "2">>>>, "i"), Slot("DT", <<<<"a", "?">>>>, "i"),
    Slot("GP", <<<<"b", "1">>, <<"a", "2">>>>, ""),
    Slot("GP", <<<<"", "1">>, <<"", "2">>>>, "i"), Slot("GP", <<<<"", "1">>, <<"b", "2">>>>, "i")}
FewSlots == {<<>>} \cup {<<s>> : s \in SomeSlots}
SlotLists == FewSlots \cup {<<GM, s>> : s \in SomeSlots} \cup {<<s, GM>> : s \in SomeSlots} \cup {<<GM, GM, GM>>}

Site(name, kinds) == [name |-> name, kinds |-> kinds]
SiteLists == {
    <<>>, <<Site("A", {"displacive"})>>, <<Site("X", {"displacive"})>>, <<Site("A", {"malformed"})>>,
    <<Site("A", {"displacive", "magnetic"}), Site("B1", {"occupancy"})>>,
    <<Site("A1", {"displacive"}), Site("A", {"magnetic"}), Site("A1", {"occupancy"})>>,
    <<Site("B", {"displacive"}), Site("B", {})>>}

(* Words for every command, a file for those that take one. *)
Spellings ==
    [command : Stages, upto : {"modes"}, file : {FALSE}]
    \cup [command : {"run"}, upto : Stages \ {"info"}, file : {TRUE}]
    \cup [command : {"modes", "show", "example"}, upto : {"modes"}, file : {TRUE}]
Plain == [parent |-> "cif", amplitudes |-> "none", text |-> FALSE, opd |-> TRUE, strain |-> TRUE,
          slots |-> <<GM>>, sites |-> <<>>]
Selections ==
    {[slots |-> sl, sites |-> si] :
        sl \in SlotLists, si \in {<<>>, <<Site("A", {"displacive", "magnetic"}), Site("B1", {"occupancy"})>>}}
    \cup {[slots |-> sl, sites |-> si] : sl \in {<<>>, <<GM>>}, si \in SiteLists}
Said ==
    {in \in
        {s @@ d @@ [Plain EXCEPT !.opd = o, !.strain = st] :
            s \in Spellings, d \in Selections, o \in BOOLEAN, st \in BOOLEAN}
        \cup
        {s @@ [Plain EXCEPT !.parent = p, !.opd = o, !.strain = FALSE, !.slots = sl, !.sites = si] :
            s \in Spellings, p \in {"sg", "both", "none"}, o \in BOOLEAN,
            sl \in {<<>>, <<GM>>}, si \in {<<>>, <<Site("A1", {"displacive"})>>}}
        \cup
        {s @@ [Plain EXCEPT !.text = x, !.opd = o, !.amplitudes = a] :
            s \in Spellings, x \in BOOLEAN, o \in BOOLEAN, a \in {"none", "fine", "bad"}} :
        IsInput(in) /\ (in.command = "example" => in.slots \in FewSlots)}
MCInputs == Said
=============================================================================
