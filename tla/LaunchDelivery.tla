--------------------------- MODULE LaunchDelivery ---------------------------
(***************************************************************************)
(* The way of a launch from `apo show` (or an Examples button) to the      *)
(* input page: gui/server.c accepts it into the launch queue, and every    *)
(* open page of gui/web/index.html polls the server twice a second, takes  *)
(* the oldest pending launch and acknowledges it with its following poll.  *)
(*                                                                         *)
(* Clients send launches, pages poll, replies and requests get lost, a     *)
(* page is reloaded while a poll of it is still on its way, and the user   *)
(* runs analyses, which hold polling back.  Each step of the model is one  *)
(* critical section of the server or one callback of a page.               *)
(***************************************************************************)
EXTENDS LaunchQueue

CONSTANTS
    Clients,      \* processes and buttons that publish launches
    Pages,        \* open input pages
    MaxLost,      \* bound of the model: polls whose request or reply is lost
    MaxReloads,   \* bound of the model: page reloads
    MaxAnalyses   \* bound of the model: analyses the user starts

ASSUME DeliveryAssumption ==
    /\ Pages # {}
    /\ MaxLost \in Nat
    /\ MaxReloads \in Nat
    /\ MaxAnalyses \in Nat

VARIABLES
    posted,       \* the clients whose POST gui_launch the server is working on
    after,        \* per page: state.guiLaunchRevision
    running,      \* per page: state.running
    poll,         \* per page: the poll on its way
    analyses,     \* per page: analyze() calls that await their reply
    orphans,      \* the `after` of polls whose page was reloaded meanwhile
    rendered,     \* history, per page: revisions rendered since it was loaded
    shown,        \* history: revisions some page has rendered
    spent         \* how much of each bound is used up

pageVars == <<after, running, poll, analyses, rendered>>
vars == <<revision, pending, posted, pageVars, orphans, shown, spent>>

NoReply == [revision |-> 0, launch |-> FALSE]
NoPoll == [stage |-> "idle", after |-> 0, reply |-> NoReply]

Polls ==
    [stage : {"idle", "sent", "answered"},
     after : Nat,
     reply : [revision : Nat, launch : BOOLEAN]]

Init ==
    /\ QueueInit
    /\ posted = {}
    /\ after = [q \in Pages |-> 0]
    /\ running = [q \in Pages |-> FALSE]
    /\ poll = [q \in Pages |-> NoPoll]
    /\ analyses = [q \in Pages |-> 0]
    /\ orphans = {}
    /\ rendered = [q \in Pages |-> <<>>]
    /\ shown = {}
    /\ spent = [lost |-> 0, reloads |-> 0, analyses |-> 0]

-----------------------------------------------------------------------------
(* Publishing                                                              *)

\* apo_post() or the Examples button sends a launch to the server.
Post(c) ==
    /\ c \notin posted
    /\ revision < MaxRevision
    /\ posted' = posted \cup {c}
    /\ UNCHANGED <<revision, pending, pageVars, orphans, shown, spent>>

\* publish() accepts the launch.
PublishAccepted(c) ==
    /\ c \in posted
    /\ \E size \in Sizes : Accept(size)
    /\ posted' = posted \ {c}
    /\ UNCHANGED <<pageVars, orphans, shown, spent>>

\* publish() finds the launch invalid or the queue full: it changes nothing.
PublishRefused(c) ==
    /\ c \in posted
    /\ posted' = posted \ {c}
    /\ UNCHANGED <<revision, pending, pageVars, orphans, shown, spent>>

-----------------------------------------------------------------------------
(* Polling                                                                 *)

\* pollGuiLaunch() fires and the page is not computing.
PollSend(q) ==
    /\ poll[q].stage = "idle"
    /\ ~running[q]
    /\ poll' = [poll EXCEPT ![q] = [NoPoll EXCEPT !.stage = "sent", !.after = after[q]]]
    /\ UNCHANGED <<revision, pending, posted, after, running, analyses, rendered,
                   orphans, shown, spent>>

\* The server runs read_mailbox(after, 1) for the page's poll.
PollAnswer(q) ==
    /\ poll[q].stage = "sent"
    /\ Acknowledge(poll[q].after)
    /\ poll' = [poll EXCEPT ![q].stage = "answered",
                            ![q].reply = ReplyTo(poll[q].after, pending')]
    /\ UNCHANGED <<posted, after, running, analyses, rendered, orphans, shown, spent>>

\* The same for a poll whose page was reloaded: nobody gets the reply.
OrphanAnswer(a) ==
    /\ a \in orphans
    /\ Acknowledge(a)
    /\ orphans' = orphans \ {a}
    /\ UNCHANGED <<posted, pageVars, shown, spent>>

\* A fault: state.guiLaunchRevision is only set when no launch came.
PollReceiveKeepingRevision(q) ==
    LET reply == poll[q].reply IN
    /\ poll[q].stage = "answered"
    /\ poll' = [poll EXCEPT ![q] = NoPoll]
    /\ IF reply.launch
       THEN /\ running' = [running EXCEPT ![q] = FALSE]
            /\ rendered' = [rendered EXCEPT ![q] = Append(@, reply.revision)]
            /\ shown' = shown \cup {reply.revision}
            /\ UNCHANGED after
       ELSE after' = [after EXCEPT ![q] = reply.revision]
            /\ UNCHANGED <<running, rendered, shown>>
    /\ UNCHANGED <<revision, pending, posted, analyses, orphans, spent>>

\* A fault: without the inner `finally` a rendered launch leaves state.running set.
PollReceiveRunning(q) ==
    LET reply == poll[q].reply IN
    /\ poll[q].stage = "answered"
    /\ after' = [after EXCEPT ![q] = reply.revision]
    /\ poll' = [poll EXCEPT ![q] = NoPoll]
    /\ IF reply.launch
       THEN /\ running' = [running EXCEPT ![q] = TRUE]
            /\ rendered' = [rendered EXCEPT ![q] = Append(@, reply.revision)]
            /\ shown' = shown \cup {reply.revision}
       ELSE UNCHANGED <<running, rendered, shown>>
    /\ UNCHANGED <<revision, pending, posted, analyses, orphans, spent>>

\* The reply reaches the page.  renderGuiLaunch() runs to its end before the
\* page does anything else, and the inner `finally` clears state.running
\* whether or not an analysis is still awaiting its reply.
PollReceive(q) ==
    LET reply == poll[q].reply IN
    /\ poll[q].stage = "answered"
    /\ after' = [after EXCEPT ![q] = reply.revision]
    /\ poll' = [poll EXCEPT ![q] = NoPoll]
    /\ IF reply.launch
       THEN /\ running' = [running EXCEPT ![q] = FALSE]
            /\ rendered' = [rendered EXCEPT ![q] = Append(@, reply.revision)]
            /\ shown' = shown \cup {reply.revision}
       ELSE UNCHANGED <<running, rendered, shown>>
    /\ UNCHANGED <<revision, pending, posted, analyses, orphans, spent>>

\* The request or its reply is lost, getJSON() throws, and the page tries
\* again after its timeout with the revision it had.
PollLost(q) ==
    /\ poll[q].stage # "idle"
    /\ spent.lost < MaxLost
    /\ poll' = [poll EXCEPT ![q] = NoPoll]
    /\ spent' = [spent EXCEPT !.lost = @ + 1]
    /\ UNCHANGED <<revision, pending, posted, after, running, analyses, rendered,
                   orphans, shown>>

-----------------------------------------------------------------------------
(* The user                                                                *)

\* analyze() or useSavedInput() starts: both return early while running.
AnalyzeStart(q) ==
    /\ ~running[q]
    /\ spent.analyses < MaxAnalyses
    /\ running' = [running EXCEPT ![q] = TRUE]
    /\ analyses' = [analyses EXCEPT ![q] = @ + 1]
    /\ spent' = [spent EXCEPT !.analyses = @ + 1]
    /\ UNCHANGED <<revision, pending, posted, after, poll, rendered, orphans, shown>>

\* An awaited analysis returns or fails; its `finally` clears state.running.
AnalyzeEnd(q) ==
    /\ analyses[q] > 0
    /\ running' = [running EXCEPT ![q] = FALSE]
    /\ analyses' = [analyses EXCEPT ![q] = @ - 1]
    /\ UNCHANGED <<revision, pending, posted, after, poll, rendered, orphans, shown, spent>>

\* The page is reloaded: its script starts over, and a poll it had sent may
\* still reach the server.
Reload(q) ==
    /\ spent.reloads < MaxReloads
    /\ spent' = [spent EXCEPT !.reloads = @ + 1]
    /\ after' = [after EXCEPT ![q] = 0]
    /\ running' = [running EXCEPT ![q] = FALSE]
    /\ poll' = [poll EXCEPT ![q] = NoPoll]
    /\ analyses' = [analyses EXCEPT ![q] = 0]
    /\ rendered' = [rendered EXCEPT ![q] = <<>>]
    /\ orphans' = IF poll[q].stage = "sent" THEN orphans \cup {poll[q].after} ELSE orphans
    /\ UNCHANGED <<revision, pending, posted, shown>>

-----------------------------------------------------------------------------

Publish(c) == Post(c) \/ PublishAccepted(c) \/ PublishRefused(c)

PageStep(q) ==
    \/ PollSend(q) \/ PollAnswer(q) \/ PollReceive(q) \/ PollLost(q)
    \/ AnalyzeStart(q) \/ AnalyzeEnd(q) \/ Reload(q)

Next ==
    \/ \E c \in Clients : Publish(c)
    \/ \E q \in Pages : PageStep(q)
    \/ \E a \in orphans : OrphanAnswer(a)

Spec == Init /\ [][Next]_vars

\* The timer of a page fires again and again, the server answers a poll it
\* has read, the network delivers what it does not lose, and an analysis
\* ends.  Nothing is asked of the users: they need not publish anything.
Fairness ==
    \A q \in Pages :
        /\ WF_vars(PollSend(q))
        /\ WF_vars(PollAnswer(q))
        /\ WF_vars(PollReceive(q))
        /\ WF_vars(AnalyzeEnd(q))

FairSpec == Spec /\ Fairness

-----------------------------------------------------------------------------
(* Properties                                                              *)

TypeOK ==
    /\ revision \in 0..MaxRevision
    /\ pending \in Seq(Launches)
    /\ posted \subseteq Clients
    /\ after \in [Pages -> Nat]
    /\ running \in [Pages -> BOOLEAN]
    /\ poll \in [Pages -> Polls]
    /\ analyses \in [Pages -> Nat]
    /\ orphans \subseteq Nat
    /\ rendered \in [Pages -> Seq(Nat)]
    /\ shown \subseteq Nat
    /\ spent \in [lost : Nat, reloads : Nat, analyses : Nat]

\* Every launch the server ever accepted is still queued or has been rendered
\* by a page: the two-step acknowledgement of read_mailbox() and
\* pollGuiLaunch() loses none, whatever polls get lost, whichever pages race
\* and whenever they are reloaded.
NoLaunchLost ==
    \A r \in 1..revision :
        (\E i \in 1..Len(pending) : pending[i].revision = r) \/ r \in shown

\* A page renders launches in the order the server accepted them, and none
\* twice between two reloads: the FIFO delivery of Manual.md.
RenderedInOrder ==
    \A q \in Pages : \A i, j \in 1..Len(rendered[q]) :
        i < j => rendered[q][i] < rendered[q][j]

\* A launch is rendered for the first time only after every launch accepted
\* before it has been rendered.
ShownInOrder ==
    \A r \in shown : 1..r \subseteq shown

\* The launches that wait are the newest ones, in revision order without a gap.
PendingContiguous ==
    \A i \in 1..Len(pending) : pending[i].revision = revision - Len(pending) + i

\* What makes the properties above inductive.  An `after` that the server may
\* see covers only rendered launches, so freeing what it covers loses nothing;
\* and a reply offers the oldest launch not yet rendered, or one that was.
Covered(a) == a \in 0..revision /\ 1..a \subseteq shown

QueueInv ==
    /\ Len(pending) <= revision
    /\ PendingContiguous
    /\ Covered(revision - Len(pending))

ReplyInv(q) ==
    LET reply == poll[q].reply IN
    /\ reply.launch => /\ reply.revision \in 1..revision
                       /\ reply.revision > after[q]
                       /\ 1..(reply.revision - 1) \subseteq shown
    /\ ~reply.launch => reply.revision >= after[q] /\ Covered(reply.revision)

PageInv(q) ==
    /\ Covered(after[q])
    /\ poll[q].stage # "idle" => poll[q].after = after[q]
    /\ poll[q].stage = "answered" => ReplyInv(q)
    /\ \A i \in 1..Len(rendered[q]) : rendered[q][i] <= after[q]

IInv ==
    /\ TypeOK
    /\ QueueInv
    /\ \A q \in Pages : PageInv(q)
    /\ \A a \in orphans : Covered(a)
    /\ shown \subseteq 1..revision
    /\ ShownInOrder
    /\ RenderedInOrder

\* An accepted launch is rendered in the end, and so a full queue that made
\* publish() refuse drains as the message of the refusal promises.
AcceptedIsShown ==
    \A r \in 1..MaxRevision : (revision >= r) ~> (r \in shown)
FullQueueDrains ==
    (Len(pending) >= MaxCount) ~> (Len(pending) < MaxCount)
=============================================================================
