----------------------------- MODULE OutputPage -----------------------------
(***************************************************************************)
(* The output window as a whole: its tabs and messages (OutputWindows),    *)
(* where the state of a tab is one value, and the viewer the tabs take     *)
(* turns in (Viewer), where that state is spelled out and the messages are *)
(* what arrives.  What the user does is one step of both descriptions, so  *)
(* a behaviour follows one of them and leaves the other at rest.           *)
(***************************************************************************)
EXTENDS OutputWindows, Viewer

OutputPageInit == Init /\ ViewerInit

\* The first step decides which of the two is followed.
OutputPageNext ==
    \/ strip = NoTabs /\ touches = 0 /\ Next /\ UNCHANGED viewerVars
    \/ results = 0 /\ ViewerNext /\ UNCHANGED vars

OutputPageSpec == OutputPageInit /\ [][OutputPageNext]_<<vars, viewerVars>> /\ Fairness
=============================================================================
