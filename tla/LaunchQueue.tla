---------------------------- MODULE LaunchQueue ----------------------------
(***************************************************************************)
(* What the GUI launch mailbox of gui/server.c promises its users: an      *)
(* ordered queue of accepted launches with back-pressure, from which a     *)
(* launch leaves only when a reader acknowledges it.  Two operations, both *)
(* run under mailbox_lock and so atomic here: publish() appends, and       *)
(* read_mailbox(after, 1) drops the acknowledged launches and hands out    *)
(* the oldest one left.  Module Mailbox shows that the linked list and the *)
(* counters of the C code implement this queue.                            *)
(***************************************************************************)
EXTENDS Integers, Sequences, FiniteSets

CONSTANTS
    MaxCount,     \* the 128 launches publish() lets wait
    MaxBytes,     \* the 32 MiB of JSON publish() lets wait
    Sizes,        \* the sizes a prepared launch may have
    MaxRevision   \* bound of the model on the launches ever accepted

ASSUME QueueAssumption ==
    /\ MaxCount \in Nat \ {0}
    /\ MaxBytes \in Nat
    /\ Sizes \subseteq Nat \ {0}
    /\ MaxRevision \in Nat

VARIABLES
    revision,     \* the revision of the newest accepted launch, 0 before any
    pending       \* the accepted launches not yet acknowledged, oldest first

queueVars == <<revision, pending>>

Launches == [revision : 1..MaxRevision, bytes : Sizes]

BytesOf(queue) ==
    LET total[n \in 0..Len(queue)] == IF n = 0 THEN 0 ELSE total[n - 1] + queue[n].bytes
    IN  total[Len(queue)]

QueueInit ==
    /\ revision = 0
    /\ pending = <<>>

-----------------------------------------------------------------------------

\* The capacity test of publish(), negated: there is room for `size` more.
Fits(size) ==
    /\ Len(pending) < MaxCount
    /\ BytesOf(pending) + size <= MaxBytes

\* The accepting end of publish(): a fresh revision, linked at the back.
Accept(size) ==
    /\ Fits(size)
    /\ revision < MaxRevision
    /\ revision' = revision + 1
    /\ pending' = Append(pending, [revision |-> revision + 1, bytes |-> size])

\* A fault: the launch that is handed out next is freed with the acknowledged ones.
AcknowledgeNext(after) ==
    /\ pending' = SelectSeq(pending, LAMBDA launch : launch.revision > after + 1)
    /\ UNCHANGED revision

\* A fault: the launch `after` names itself is kept.
AcknowledgeBefore(after) ==
    /\ pending' = SelectSeq(pending, LAMBDA launch : launch.revision >= after)
    /\ UNCHANGED revision

\* The loop of read_mailbox(): every launch at the front that `after` covers
\* is freed, and the first one it does not cover stops the loop.
Acknowledge(after) ==
    /\ \E n \in 0..Len(pending) :
          /\ \A i \in 1..n : pending[i].revision <= after
          /\ n < Len(pending) => pending[n + 1].revision > after
          /\ pending' = SubSeq(pending, n + 1, Len(pending))
    /\ UNCHANGED revision

\* A fault: the newest launch is handed out, as without next=1.
ReplyNewest(after, left) ==
    [revision |-> revision, launch |-> left # <<>> /\ revision > after]

\* The reply of read_mailbox(after, 1) on what is left of the queue: its
\* oldest launch, or no launch and the newest revision.
ReplyTo(after, left) ==
    LET current == IF left = <<>> THEN revision ELSE left[1].revision
    IN  [revision |-> current, launch |-> left # <<>> /\ current > after]

QueueNext ==
    \/ \E size \in Sizes : Accept(size)
    \/ \E after \in 0..MaxRevision : Acknowledge(after)

QueueSpec == QueueInit /\ [][QueueNext]_queueVars
=============================================================================
