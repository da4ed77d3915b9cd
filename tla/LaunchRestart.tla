--------------------------- MODULE LaunchRestart ---------------------------
(***************************************************************************)
(* LaunchDelivery when the server is stopped and started again on the same *)
(* port while input pages stay open.  The queue and `revision` of          *)
(* gui/server.c live in memory only, state.guiLaunchRevision of a page     *)
(* lives as long as the page: the new process counts from 1 while a page   *)
(* still acknowledges the revisions of the old one.                        *)
(***************************************************************************)
EXTENDS LaunchDelivery

CONSTANT
    MaxRestarts   \* bound of the model: restarts of the server

VARIABLES
    restarts,     \* how often the server was restarted
    stale         \* history: revisions accepted while a page was ahead of them

restartVars == <<vars, restarts, stale>>

\* What the pages, and the polls and replies on their way, say they have seen.
Claims ==
    {after[q] : q \in Pages} \cup {poll[q].after : q \in Pages}
        \cup {poll[q].reply.revision : q \in Pages} \cup orphans

RInit ==
    /\ Init
    /\ restarts = 0
    /\ stale = {}

\* Ctrl+C or POST /shutdown, then `apo serve` again.  The launches of the old
\* process are gone with it, and the histories start over.  A poll that had
\* not been accepted reaches the new process or fails; a reply that had been
\* sent still arrives.
Restart ==
    /\ restarts < MaxRestarts
    /\ restarts' = restarts + 1
    /\ revision' = 0
    /\ pending' = <<>>
    /\ posted' = {}
    /\ \E failed \in SUBSET {q \in Pages : poll[q].stage = "sent"} :
          poll' = [q \in Pages |-> IF q \in failed THEN NoPoll ELSE poll[q]]
    /\ rendered' = [q \in Pages |-> <<>>]
    /\ shown' = {}
    /\ stale' = {}
    /\ UNCHANGED <<after, running, analyses, orphans, spent>>

\* Any step of LaunchDelivery; an accepted launch is stale when a page claims
\* to have seen its revision already.
Step ==
    /\ Next
    /\ stale' = IF revision' > revision /\ \E a \in Claims : a >= revision'
                THEN stale \cup {revision'} ELSE stale
    /\ UNCHANGED restarts

RNext == Restart \/ Step

RSpec == RInit /\ [][RNext]_restartVars

-----------------------------------------------------------------------------

\* What publish() says of its back-pressure: no launch the server accepted is
\* silently dropped.  A page that outlived a restart breaks it.
NothingSilentlyDropped == NoLaunchLost

\* How far the loss reaches: a launch is dropped only if, when it was accepted,
\* some page had not yet polled the new process.  One poll of every page after
\* the restart, before the first launch, is enough to lose none.
OnlyStaleDropped ==
    \A r \in 1..revision :
        r \in stale \/ r \in shown \/ \E i \in 1..Len(pending) : pending[i].revision = r
=============================================================================
