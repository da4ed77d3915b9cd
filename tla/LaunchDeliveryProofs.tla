------------------------ MODULE LaunchDeliveryProofs ------------------------
(***************************************************************************)
(* Proofs about LaunchDelivery, for any number of clients and pages, any   *)
(* capacity and any bounds.  IInv is the inductive invariant: it says of   *)
(* every revision a page, a poll or a reply carries that the launches it   *)
(* covers have been rendered, which is why freeing them is harmless.       *)
(* The second half is about LaunchRestart, where that fails: a page may    *)
(* acknowledge what the process before this one had accepted.  RestartInv  *)
(* says the same of the launches that were not stale when they came.       *)
(***************************************************************************)
EXTENDS LaunchRestart, TLAPS

-----------------------------------------------------------------------------
(* Lemmas about the queue                                                  *)

\* publish(): appending a launch with the next revision keeps the queue in
\* order, and covers no launch that was not covered.
LEMMA AcceptKeepsQueue ==
    ASSUME TypeOK, QueueInv, NEW size \in Sizes, Accept(size), shown' = shown
    PROVE  /\ revision' \in 0..MaxRevision
           /\ revision' = revision + 1
           /\ pending' \in Seq(Launches)
           /\ QueueInv'
<1> DEFINE launch == [revision |-> revision + 1, bytes |-> size]
<1>1. revision \in Nat /\ revision < MaxRevision /\ MaxRevision \in Nat
  BY QueueAssumption DEF TypeOK, Accept
<1>2. launch \in Launches
  BY <1>1 DEF Launches
<1>3. pending \in Seq(Launches)
  BY DEF TypeOK
<1>4. /\ pending' = Append(pending, launch)
      /\ revision' = revision + 1
  BY DEF Accept
<1>5. /\ pending' \in Seq(Launches)
      /\ Len(pending') = Len(pending) + 1
      /\ \A i \in 1..Len(pending) : pending'[i] = pending[i]
      /\ pending'[Len(pending) + 1] = launch
  <2> HIDE DEF launch
  <2> QED BY <1>2, <1>3, <1>4
<1>6. PendingContiguous'
  <2>1. ASSUME NEW i \in 1..(Len(pending) + 1)
        PROVE  pending'[i].revision = (revision + 1) - (Len(pending) + 1) + i
    <3>1. CASE i \in 1..Len(pending)
      <4>1. pending'[i] = pending[i] /\ Len(pending) \in Nat
        BY <3>1, <1>3, <1>5
      <4>2. pending[i].revision = revision - Len(pending) + i
        BY <3>1 DEF QueueInv, PendingContiguous
      <4> QED BY <3>1, <4>1, <4>2, <1>1
    <3>2. CASE i = Len(pending) + 1
      BY <3>2, <1>1, <1>3, <1>5
    <3> QED BY <3>1, <3>2, <1>3
  <2> QED BY <2>1, <1>4, <1>5 DEF PendingContiguous
<1>7. (Covered(revision - Len(pending)))'
  BY <1>1, <1>3, <1>4, <1>5 DEF QueueInv, Covered
<1> QED
  BY <1>1, <1>3, <1>4, <1>5, <1>6, <1>7 DEF QueueInv

\* read_mailbox(): what an acknowledgement of rendered launches leaves is
\* still the end of the accepted sequence, and its reply is a launch all of
\* whose predecessors have been rendered, or none when everything has.
LEMMA AcknowledgeKeepsQueue ==
    ASSUME TypeOK, QueueInv, NEW a \in Nat, Covered(a), Acknowledge(a), shown' = shown
    PROVE  /\ revision' = revision
           /\ pending' \in Seq(Launches)
           /\ QueueInv'
           /\ LET reply == ReplyTo(a, pending') IN
              /\ reply \in [revision : Nat, launch : BOOLEAN]
              /\ reply.launch => /\ reply.revision \in 1..revision
                                 /\ reply.revision > a
                                 /\ 1..(reply.revision - 1) \subseteq shown
              /\ ~reply.launch => reply.revision >= a /\ Covered(reply.revision)
<1>1. revision \in Nat /\ pending \in Seq(Launches) /\ revision' = revision
  BY DEF TypeOK, Acknowledge
<1>2. PICK n \in 0..Len(pending) :
          /\ \A i \in 1..n : pending[i].revision <= a
          /\ n < Len(pending) => pending[n + 1].revision > a
          /\ pending' = SubSeq(pending, n + 1, Len(pending))
  BY DEF Acknowledge
<1>3. /\ pending' \in Seq(Launches)
      /\ Len(pending') = Len(pending) - n
      /\ \A i \in 1..Len(pending') : pending'[i] = pending[n + i]
  BY <1>1, <1>2
<1>4. PendingContiguous'
  <2>1. ASSUME NEW i \in 1..(Len(pending) - n)
        PROVE  pending'[i].revision = revision - (Len(pending) - n) + i
    <3>1. Len(pending) \in Nat /\ n + i \in 1..Len(pending)
      BY <1>1, <1>2
    <3>2. pending[n + i].revision = revision - Len(pending) + (n + i)
      BY <3>1 DEF QueueInv, PendingContiguous
    <3>3. pending'[i] = pending[n + i]
      BY <1>3
    <3> QED BY <3>1, <3>2, <3>3, <1>1, <1>2
  <2> QED BY <2>1, <1>1, <1>3 DEF PendingContiguous
<1>5. Covered(revision - Len(pending) + n)
  <2>1. CASE n = 0
    BY <2>1, <1>1 DEF QueueInv
  <2>2. CASE n > 0
    <3>1. n \in 1..n /\ n \in 1..Len(pending) /\ Len(pending) \in Nat
      BY <2>2, <1>1, <1>2
    <3>2. pending[n].revision <= a
      BY <3>1, <1>2
    <3>3. pending[n].revision = revision - Len(pending) + n
      BY <3>1 DEF QueueInv, PendingContiguous
    <3>4. Len(pending) <= revision
      BY DEF QueueInv
    <3> QED BY <3>1, <3>2, <3>3, <3>4, <1>1 DEF Covered
  <2> QED BY <2>1, <2>2, <1>2
<1>6. QueueInv'
  <2>1. (Covered(revision - Len(pending)))'
    BY <1>1, <1>2, <1>3, <1>5 DEF Covered
  <2> QED BY <2>1, <1>1, <1>2, <1>3, <1>4 DEF QueueInv
<1>7. CASE pending' = <<>>
  <2>1. ReplyTo(a, pending') = [revision |-> revision, launch |-> FALSE]
    BY <1>1, <1>7 DEF ReplyTo
  <2>2. Covered(revision)
    <3>1. Len(pending) \in Nat /\ n = Len(pending)
      <4>1. Len(pending') = 0
        BY <1>7
      <4> QED BY <4>1, <1>1, <1>2, <1>3
    <3>2. revision - Len(pending) + n = revision
      BY <3>1, <1>1
    <3> QED BY <3>2, <1>5
  <2> QED BY <2>1, <2>2, <1>1, <1>3, <1>6 DEF Covered
<1>8. CASE pending' # <<>>
  <2>1. n < Len(pending) /\ pending'[1] = pending[n + 1]
    BY <1>1, <1>2, <1>3, <1>8
  <2>2. pending[n + 1].revision = revision - Len(pending) + n + 1
    <3>1. n + 1 \in 1..Len(pending) /\ Len(pending) \in Nat
      BY <2>1, <1>1, <1>2
    <3>2. pending[n + 1].revision = revision - Len(pending) + (n + 1)
      BY <3>1 DEF QueueInv, PendingContiguous
    <3> QED BY <3>1, <3>2, <1>1, <1>2
  <2>3. ReplyTo(a, pending') = [revision |-> revision - Len(pending) + n + 1, launch |-> TRUE]
    BY <2>1, <2>2, <1>1, <1>2, <1>8 DEF ReplyTo
  <2>4. revision - Len(pending) + n + 1 \in 1..revision
    BY <2>1, <1>1, <1>2 DEF QueueInv
  <2> QED
    BY <2>1, <2>2, <2>3, <2>4, <1>1, <1>2, <1>3, <1>5, <1>6 DEF Covered
<1> QED
  BY <1>7, <1>8
-----------------------------------------------------------------------------
(* The invariant                                                           *)

\* What a page relies on survives every step that leaves the page alone: no
\* revision is taken back and nothing shown is forgotten.
LEMMA CoveredKept ==
    ASSUME revision \in Nat, revision' \in Nat, revision <= revision',
           shown \subseteq shown', NEW a, Covered(a)
    PROVE  a \in 0..revision' /\ 1..a \subseteq shown'
BY DEF Covered

\* A page that no step touches keeps its part of the invariant.
LEMMA PageKept ==
    ASSUME revision \in Nat, revision' \in Nat, revision <= revision',
           shown \subseteq shown',
           NEW q, PageInv(q),
           after'[q] = after[q], poll'[q] = poll[q], rendered'[q] = rendered[q]
    PROVE  PageInv(q)'
<1>1. Covered(after[q])'
  BY CoveredKept DEF PageInv, Covered
<1>2. ASSUME poll[q].stage = "answered"
      PROVE  ReplyInv(q)'
  <2>1. ReplyInv(q)
    BY <1>2 DEF PageInv
  <2>2. CASE poll[q].reply.launch
    BY <2>1, <2>2 DEF ReplyInv
  <2>3. CASE ~poll[q].reply.launch
    <3>1. Covered(poll[q].reply.revision) /\ poll[q].reply.revision >= after[q]
      BY <2>1, <2>3 DEF ReplyInv
    <3>2. Covered(poll[q].reply.revision)'
      BY <3>1, CoveredKept DEF Covered
    <3> QED BY <3>1, <3>2, <2>3 DEF ReplyInv
  <2> QED BY <2>2, <2>3
<1> QED
  BY <1>1, <1>2 DEF PageInv

\* Orphaned polls keep their place for the same reason.
LEMMA OrphansKept ==
    ASSUME revision \in Nat, revision' \in Nat, revision <= revision',
           shown \subseteq shown', \A a \in orphans : Covered(a), orphans' \subseteq orphans
    PROVE  (\A a \in orphans : Covered(a))'
BY CoveredKept DEF Covered

\* The program starts in the invariant: nothing accepted, nothing covered.
LEMMA InitInvariant == Init => IInv
<1> SUFFICES ASSUME Init PROVE IInv
  OBVIOUS
<1>1. TypeOK
  BY QueueAssumption DEF Init, QueueInit, TypeOK, Polls, NoPoll, NoReply
<1>2. Covered(0)
  BY DEF Init, QueueInit, Covered
<1>3. QueueInv
  BY <1>2 DEF Init, QueueInit, QueueInv, PendingContiguous
<1>4. \A q \in Pages : PageInv(q)
  BY <1>2 DEF Init, PageInv, NoPoll
<1> QED
  BY <1>1, <1>3, <1>4 DEF Init, QueueInit, IInv, ShownInOrder, RenderedInOrder
\* Steps that touch neither the queue nor what has been shown: a page may
\* change, and its own invariant is then all that has to be shown.
LEMMA PageOnlyStep ==
    ASSUME IInv, TypeOK', UNCHANGED <<revision, pending, shown>>,
           NEW q \in Pages, PageInv(q)',
           \A p \in Pages \ {q} : /\ after'[p] = after[p]
                                  /\ poll'[p] = poll[p]
                                  /\ rendered'[p] = rendered[p],
           \A i, j \in 1..Len(rendered'[q]) :
               i < j => rendered'[q][i] < rendered'[q][j],
           \A a \in orphans' : Covered(a)
    PROVE  IInv'
<1>1. QueueInv'
  BY DEF IInv, QueueInv, PendingContiguous, Covered
<1>2. ASSUME NEW p \in Pages PROVE PageInv(p)'
  <2>1. CASE p = q
    BY <2>1
  <2>2. CASE p # q
    BY <2>2, PageKept DEF IInv, TypeOK
  <2> QED BY <2>1, <2>2
<1>3. RenderedInOrder'
  <2>1. ASSUME NEW p \in Pages, p # q
        PROVE  \A i, j \in 1..Len(rendered'[p]) :
                   i < j => rendered'[p][i] < rendered'[p][j]
    BY <2>1 DEF IInv, RenderedInOrder
  <2> QED BY <2>1 DEF RenderedInOrder
<1>4. (\A a \in orphans : Covered(a))'
  BY DEF Covered
<1> QED
  BY <1>1, <1>2, <1>3, <1>4 DEF IInv, ShownInOrder

\* Steps that leave every page alone.
LEMMA QueueOnlyStep ==
    ASSUME IInv, TypeOK', QueueInv', revision <= revision',
           after' = after, poll' = poll, rendered' = rendered, shown' = shown,
           orphans' \subseteq orphans
    PROVE  IInv'
<1>1. revision \in Nat /\ revision' \in Nat
  BY DEF IInv, TypeOK
<1>2. ASSUME NEW p \in Pages PROVE PageInv(p)'
  BY <1>1, PageKept DEF IInv
<1>3. (\A a \in orphans : Covered(a))'
  BY <1>1, OrphansKept DEF IInv
<1> QED
  BY <1>1, <1>2, <1>3 DEF IInv, ShownInOrder, RenderedInOrder

\* Appending a number above all of an increasing sequence keeps it increasing.
LEMMA AppendAbove ==
    ASSUME NEW s \in Seq(Nat), NEW n \in Nat,
           \A i \in 1..Len(s) : s[i] < n,
           \A i, j \in 1..Len(s) : i < j => s[i] < s[j]
    PROVE  /\ Append(s, n) \in Seq(Nat)
           /\ \A i \in 1..Len(Append(s, n)) : Append(s, n)[i] <= n
           /\ \A i, j \in 1..Len(Append(s, n)) :
                  i < j => Append(s, n)[i] < Append(s, n)[j]
<1> DEFINE t == Append(s, n)
<1>1. /\ t \in Seq(Nat) /\ Len(s) \in Nat /\ Len(t) = Len(s) + 1
      /\ \A i \in 1..Len(s) : t[i] = s[i] /\ s[i] \in Nat
      /\ t[Len(s) + 1] = n
  OBVIOUS
<1> HIDE DEF t
<1>2. ASSUME NEW i \in 1..Len(t) PROVE i \in 1..Len(s) \/ i = Len(s) + 1
  BY <1>1
<1>3. ASSUME NEW i \in 1..Len(t) PROVE t[i] <= n
  BY <1>1, <1>2
<1>4. ASSUME NEW i \in 1..Len(t), NEW j \in 1..Len(t), i < j PROVE t[i] < t[j]
  <2>1. i \in 1..Len(s)
    BY <1>1, <1>4
  <2>2. CASE j \in 1..Len(s)
    BY <2>1, <2>2, <1>1, <1>4
  <2>3. CASE j = Len(s) + 1
    BY <2>1, <2>3, <1>1
  <2> QED BY <2>2, <2>3, <1>2
<1> QED
  BY <1>1, <1>3, <1>4 DEF t

\* The reply reaches the page: what it renders is the next launch nobody has
\* seen, or one that was seen, and it is newer than what this page rendered.
LEMMA PollReceiveStep ==
    ASSUME IInv, NEW q \in Pages, PollReceive(q)
    PROVE  IInv'
<1> DEFINE reply == poll[q].reply
<1>1. /\ poll[q] \in Polls /\ reply \in [revision : Nat, launch : BOOLEAN]
      /\ revision \in Nat /\ after[q] \in Nat /\ rendered[q] \in Seq(Nat)
      /\ shown \subseteq Nat
  BY DEF IInv, TypeOK, Polls
<1>2. PageInv(q) /\ ReplyInv(q)
  BY DEF IInv, PageInv, PollReceive
<1>3. UNCHANGED <<revision, pending, orphans, posted, analyses, spent>>
  BY DEF PollReceive
<1>4. /\ after' = [after EXCEPT ![q] = reply.revision]
      /\ poll' = [poll EXCEPT ![q] = NoPoll]
  BY DEF PollReceive
<1>5. NoPoll \in Polls
  BY DEF NoPoll, NoReply, Polls
<1>6. CASE ~reply.launch
  <2>1. UNCHANGED <<running, rendered, shown>>
    BY <1>6 DEF PollReceive
  <2>2. TypeOK'
    BY <2>1, <1>1, <1>3, <1>4, <1>5 DEF IInv, TypeOK
  <2>3. Covered(reply.revision) /\ reply.revision >= after[q]
    BY <1>2, <1>6 DEF ReplyInv
  <2>4. /\ after'[q] = reply.revision /\ poll'[q] = NoPoll /\ rendered'[q] = rendered[q]
        /\ \A p \in Pages \ {q} : after'[p] = after[p] /\ poll'[p] = poll[p]
    BY <1>4, <2>1 DEF IInv, TypeOK
  <2>5. PageInv(q)'
    <3>1. \A i \in 1..Len(rendered[q]) : rendered[q][i] <= reply.revision
      BY <1>1, <1>2, <2>3 DEF PageInv
    <3>2. Covered(after[q])'
      BY <2>1, <2>3, <2>4, <1>3 DEF Covered
    <3> QED BY <3>1, <3>2, <2>4 DEF PageInv, NoPoll
  <2>6. \A i, j \in 1..Len(rendered'[q]) : i < j => rendered'[q][i] < rendered'[q][j]
    BY <2>1 DEF IInv, RenderedInOrder
  <2>7. \A a \in orphans' : Covered(a)
    BY <1>3 DEF IInv
  <2> QED
    BY <2>1, <2>2, <2>4, <2>5, <2>6, <2>7, <1>3, PageOnlyStep
<1>7. CASE reply.launch
  <2>1. /\ running' = [running EXCEPT ![q] = FALSE]
        /\ rendered' = [rendered EXCEPT ![q] = Append(@, reply.revision)]
        /\ shown' = shown \cup {reply.revision}
    BY <1>7 DEF PollReceive
  <2>2. /\ reply.revision \in 1..revision
        /\ reply.revision > after[q]
        /\ 1..(reply.revision - 1) \subseteq shown
    BY <1>2, <1>7 DEF ReplyInv
  <2>3. /\ after'[q] = reply.revision /\ poll'[q] = NoPoll
        /\ rendered'[q] = Append(rendered[q], reply.revision)
        /\ \A p \in Pages \ {q} : /\ after'[p] = after[p]
                                  /\ poll'[p] = poll[p]
                                  /\ rendered'[p] = rendered[p]
    BY <1>4, <2>1 DEF IInv, TypeOK
  <2>4. 1..reply.revision \subseteq shown'
    BY <2>1, <2>2, <1>1
  <2>5. \A i \in 1..Len(rendered[q]) : rendered[q][i] < reply.revision
    BY <1>1, <1>2, <2>2 DEF PageInv
  <2>6. \A i, j \in 1..Len(rendered[q]) : i < j => rendered[q][i] < rendered[q][j]
    BY DEF IInv, RenderedInOrder
  <2>7. /\ rendered'[q] \in Seq(Nat)
        /\ \A i \in 1..Len(rendered'[q]) : rendered'[q][i] <= reply.revision
        /\ \A i, j \in 1..Len(rendered'[q]) : i < j => rendered'[q][i] < rendered'[q][j]
    <3>1. reply.revision \in Nat
      BY <1>1
    <3> HIDE DEF reply
    <3> QED BY <3>1, <2>3, <2>5, <2>6, <1>1, AppendAbove
  <2>8. TypeOK'
    <3>1. rendered' \in [Pages -> Seq(Nat)]
      BY <2>1, <2>7, <2>3 DEF IInv, TypeOK
    <3>2. after' \in [Pages -> Nat] /\ poll' \in [Pages -> Polls]
      BY <1>1, <1>4, <1>5 DEF IInv, TypeOK
    <3>3. running' \in [Pages -> BOOLEAN] /\ shown' \subseteq Nat
      BY <1>1, <2>1 DEF IInv, TypeOK
    <3> QED BY <3>1, <3>2, <3>3, <1>3 DEF IInv, TypeOK
  <2>9. PageInv(q)'
    <3>1. Covered(after[q])'
      BY <2>2, <2>3, <2>4, <1>1, <1>3 DEF Covered
    <3> QED BY <3>1, <2>3, <2>7 DEF PageInv, NoPoll
  <2>10. ASSUME NEW p \in Pages PROVE PageInv(p)'
    <3>1. CASE p # q
      <4>1. PageInv(p)
        BY DEF IInv
      <4> QED BY <4>1, <3>1, <2>1, <2>3, <1>1, <1>3, PageKept
    <3> QED BY <3>1, <2>9
  <2>11. QueueInv'
    BY <2>1, <1>3 DEF IInv, QueueInv, PendingContiguous, Covered
  <2>12. (\A a \in orphans : Covered(a))'
    BY <2>1, <1>3 DEF IInv, Covered
  <2>13. ShownInOrder' /\ shown' \subseteq 1..revision'
    BY <2>1, <2>2, <2>4, <1>1, <1>3 DEF IInv, ShownInOrder
  <2>14. RenderedInOrder'
    <3>1. ASSUME NEW p \in Pages, p # q
          PROVE  \A i, j \in 1..Len(rendered'[p]) :
                     i < j => rendered'[p][i] < rendered'[p][j]
      BY <3>1, <2>3 DEF IInv, RenderedInOrder
    <3> QED BY <3>1, <2>7 DEF RenderedInOrder
  <2> QED
    BY <2>8, <2>10, <2>11, <2>12, <2>13, <2>14 DEF IInv
<1> QED
  BY <1>6, <1>7
\* The counters of the model's bounds stay naturals.
LEMMA SpentKept ==
    ASSUME TypeOK
    PROVE  /\ [spent EXCEPT !.lost = @ + 1] \in [lost : Nat, reloads : Nat, analyses : Nat]
           /\ [spent EXCEPT !.reloads = @ + 1] \in [lost : Nat, reloads : Nat, analyses : Nat]
           /\ [spent EXCEPT !.analyses = @ + 1] \in [lost : Nat, reloads : Nat, analyses : Nat]
<1>1. spent \in [lost : Nat, reloads : Nat, analyses : Nat]
  BY DEF TypeOK
<1>2. spent.lost + 1 \in Nat /\ spent.reloads + 1 \in Nat /\ spent.analyses + 1 \in Nat
  BY <1>1
<1>3. [spent EXCEPT !.lost = @ + 1] \in [lost : Nat, reloads : Nat, analyses : Nat]
  BY <1>1, <1>2, Zenon
<1>4. [spent EXCEPT !.reloads = @ + 1] \in [lost : Nat, reloads : Nat, analyses : Nat]
  BY <1>1, <1>2, Zenon
<1>5. [spent EXCEPT !.analyses = @ + 1] \in [lost : Nat, reloads : Nat, analyses : Nat]
  BY <1>1, <1>2, Zenon
<1> QED
  BY <1>3, <1>4, <1>5

\* Sending a poll copies the page's own acknowledgement into it.
LEMMA PollSendStep ==
    ASSUME IInv, NEW q \in Pages, PollSend(q)
    PROVE  IInv'
<1> DEFINE sent == [NoPoll EXCEPT !.stage = "sent", !.after = after[q]]
<1>1. /\ poll' = [poll EXCEPT ![q] = sent]
      /\ UNCHANGED <<revision, pending, posted, after, running, analyses, rendered,
                     orphans, shown, spent>>
  BY DEF PollSend
<1>2. sent \in Polls /\ sent.stage = "sent" /\ sent.after = after[q]
  BY DEF NoPoll, NoReply, Polls, IInv, TypeOK
<1>3. /\ poll'[q] = sent
      /\ \A p \in Pages \ {q} : poll'[p] = poll[p]
      /\ poll' \in [Pages -> Polls]
  <2> HIDE DEF sent
  <2> QED BY <1>1, <1>2 DEF IInv, TypeOK
<1>4. TypeOK'
  BY <1>1, <1>3 DEF IInv, TypeOK
<1>5. PageInv(q)'
  <2>1. PageInv(q)
    BY DEF IInv
  <2> HIDE DEF sent
  <2> QED BY <2>1, <1>1, <1>2, <1>3 DEF PageInv, Covered
<1> QED
  BY <1>1, <1>3, <1>4, <1>5, PageOnlyStep DEF IInv, RenderedInOrder

\* Answering a poll frees what the page has acknowledged, and the reply is
\* the next launch of the page: AcknowledgeKeepsQueue.
LEMMA PollAnswerStep ==
    ASSUME IInv, NEW q \in Pages, PollAnswer(q)
    PROVE  IInv'
<1> DEFINE reply == ReplyTo(poll[q].after, pending')
           answered == [poll[q] EXCEPT !.stage = "answered", !.reply = reply]
<1>1. /\ poll[q] \in Polls /\ poll[q].stage = "sent" /\ poll[q].after \in Nat
      /\ Acknowledge(poll[q].after)
      /\ poll' = [poll EXCEPT ![q] = answered]
      /\ UNCHANGED <<posted, after, running, analyses, rendered, orphans, shown, spent>>
  BY DEF PollAnswer, IInv, TypeOK, Polls
<1>2. PageInv(q) /\ poll[q].after = after[q] /\ Covered(poll[q].after)
  BY <1>1 DEF IInv, PageInv
<1>3. /\ revision' = revision
      /\ pending' \in Seq(Launches)
      /\ QueueInv'
      /\ reply \in [revision : Nat, launch : BOOLEAN]
      /\ reply.launch => /\ reply.revision \in 1..revision
                         /\ reply.revision > poll[q].after
                         /\ 1..(reply.revision - 1) \subseteq shown
      /\ ~reply.launch => reply.revision >= poll[q].after /\ Covered(reply.revision)
  BY <1>1, <1>2, AcknowledgeKeepsQueue DEF IInv
<1> HIDE DEF reply
<1>4. /\ answered \in Polls /\ answered.stage = "answered"
      /\ answered.after = poll[q].after /\ answered.reply = reply
  BY <1>1, <1>3 DEF Polls
<1> HIDE DEF answered
<1>5. /\ poll'[q] = answered
      /\ \A p \in Pages \ {q} : poll'[p] = poll[p]
      /\ poll' \in [Pages -> Polls]
  BY <1>1, <1>4 DEF IInv, TypeOK
<1>6. TypeOK'
  BY <1>1, <1>3, <1>5 DEF IInv, TypeOK
<1>7. ReplyInv(q)'
  BY <1>1, <1>2, <1>3, <1>4, <1>5 DEF ReplyInv, Covered
<1>8. PageInv(q)'
  BY <1>1, <1>2, <1>3, <1>4, <1>5, <1>7 DEF PageInv, Covered
<1>9. ASSUME NEW p \in Pages PROVE PageInv(p)'
  <2>1. CASE p = q
    BY <2>1, <1>8
  <2>2. CASE p # q
    BY <2>2, <1>1, <1>3, <1>5, PageKept DEF IInv, TypeOK
  <2> QED BY <2>1, <2>2
<1>10. (\A a \in orphans : Covered(a))'
  BY <1>1, <1>3 DEF IInv, Covered
<1> QED
  BY <1>1, <1>3, <1>6, <1>9, <1>10 DEF IInv, ShownInOrder, RenderedInOrder

\* A reload forgets the page; its poll still on the way keeps its promise.
LEMMA ReloadStep ==
    ASSUME IInv, NEW q \in Pages, Reload(q)
    PROVE  IInv'
<1>1. /\ spent' = [spent EXCEPT !.reloads = @ + 1]
      /\ after' = [after EXCEPT ![q] = 0]
      /\ running' = [running EXCEPT ![q] = FALSE]
      /\ poll' = [poll EXCEPT ![q] = NoPoll]
      /\ analyses' = [analyses EXCEPT ![q] = 0]
      /\ rendered' = [rendered EXCEPT ![q] = <<>>]
      /\ orphans' = IF poll[q].stage = "sent" THEN orphans \cup {poll[q].after} ELSE orphans
      /\ UNCHANGED <<revision, pending, posted, shown>>
  BY DEF Reload
<1>2. NoPoll \in Polls /\ poll[q].after \in Nat /\ <<>> \in Seq(Nat) /\ revision \in Nat
  BY DEF NoPoll, NoReply, Polls, IInv, TypeOK
<1>3. TypeOK'
  <2>1. /\ after' \in [Pages -> Nat] /\ running' \in [Pages -> BOOLEAN]
        /\ poll' \in [Pages -> Polls] /\ analyses' \in [Pages -> Nat]
        /\ rendered' \in [Pages -> Seq(Nat)] /\ orphans' \subseteq Nat
    BY <1>1, <1>2 DEF IInv, TypeOK
  <2>2. spent' \in [lost : Nat, reloads : Nat, analyses : Nat]
    BY <1>1, SpentKept DEF IInv
  <2> QED BY <2>1, <2>2, <1>1 DEF IInv, TypeOK
<1>4. /\ after'[q] = 0 /\ poll'[q] = NoPoll /\ rendered'[q] = <<>>
      /\ \A p \in Pages \ {q} : /\ after'[p] = after[p]
                                /\ poll'[p] = poll[p]
                                /\ rendered'[p] = rendered[p]
  BY <1>1 DEF IInv, TypeOK
<1>5. PageInv(q)'
  BY <1>1, <1>2, <1>4 DEF PageInv, NoPoll, Covered
<1>6. \A a \in orphans' : Covered(a)
  BY <1>1 DEF IInv, PageInv
<1> QED
  BY <1>1, <1>3, <1>4, <1>5, <1>6, PageOnlyStep

LEMMA InvariantStep == IInv /\ [Next]_vars => IInv'
<1> SUFFICES ASSUME IInv, [Next]_vars PROVE IInv'
  OBVIOUS
<1>1. ASSUME NEW c \in Clients, Post(c) \/ PublishRefused(c) PROVE IInv'
  <2>1. TypeOK' /\ UNCHANGED <<revision, pending, after, poll, rendered, orphans, shown>>
    BY <1>1 DEF IInv, TypeOK, pageVars, Post, PublishRefused
  <2>2. QueueInv'
    BY <2>1 DEF IInv, QueueInv, PendingContiguous, Covered
  <2>9. revision \in Nat
    BY DEF IInv, TypeOK
  <2> QED BY <2>1, <2>2, <2>9, QueueOnlyStep
<1>2. ASSUME NEW c \in Clients, PublishAccepted(c) PROVE IInv'
  <2>1. PICK size \in Sizes : Accept(size)
    BY <1>2 DEF PublishAccepted
  <2>2. /\ UNCHANGED <<after, running, poll, analyses, rendered, orphans, shown, spent>>
        /\ posted' \subseteq posted
    BY <1>2 DEF PublishAccepted, pageVars
  <2>3. /\ revision' \in 0..MaxRevision /\ revision' = revision + 1
        /\ pending' \in Seq(Launches) /\ QueueInv'
    BY <2>1, <2>2, AcceptKeepsQueue DEF IInv
  <2>4. TypeOK'
    BY <2>2, <2>3 DEF IInv, TypeOK
  <2>9. revision \in Nat
    BY DEF IInv, TypeOK
  <2> QED BY <2>2, <2>3, <2>4, <2>9, QueueOnlyStep
<1>3. ASSUME NEW q \in Pages, PollSend(q) PROVE IInv'
  BY <1>3, PollSendStep
<1>4. ASSUME NEW q \in Pages, PollAnswer(q) PROVE IInv'
  BY <1>4, PollAnswerStep
<1>5. ASSUME NEW q \in Pages, PollReceive(q) PROVE IInv'
  BY <1>5, PollReceiveStep
<1>6. ASSUME NEW q \in Pages, PollLost(q) PROVE IInv'
  <2>1. /\ poll' = [poll EXCEPT ![q] = NoPoll]
        /\ spent' = [spent EXCEPT !.lost = @ + 1]
        /\ UNCHANGED <<revision, pending, posted, after, running, analyses, rendered,
                       orphans, shown>>
    BY <1>6 DEF PollLost
  <2>2. TypeOK'
    <3>1. poll' \in [Pages -> Polls]
      BY <2>1 DEF IInv, TypeOK, Polls, NoPoll, NoReply
    <3>2. spent' \in [lost : Nat, reloads : Nat, analyses : Nat]
      BY <2>1, SpentKept DEF IInv
    <3> QED BY <2>1, <3>1, <3>2 DEF IInv, TypeOK
  <2>3. poll'[q] = NoPoll /\ \A p \in Pages \ {q} : poll'[p] = poll[p]
    BY <2>1 DEF IInv, TypeOK
  <2>4. PageInv(q)'
    BY <2>1, <2>3 DEF IInv, PageInv, NoPoll, Covered
  <2> QED BY <2>1, <2>2, <2>3, <2>4, PageOnlyStep DEF IInv, RenderedInOrder
<1>7. ASSUME NEW q \in Pages, AnalyzeStart(q) \/ AnalyzeEnd(q) PROVE IInv'
  <2>1. UNCHANGED <<revision, pending, posted, after, poll, rendered, orphans, shown>>
    BY <1>7 DEF AnalyzeStart, AnalyzeEnd
  <2>2. /\ running' \in [Pages -> BOOLEAN] /\ analyses' \in [Pages -> Nat]
        /\ spent' \in [lost : Nat, reloads : Nat, analyses : Nat]
    <3>1. CASE AnalyzeStart(q)
      <4>1. spent' \in [lost : Nat, reloads : Nat, analyses : Nat]
        BY <3>1, SpentKept DEF AnalyzeStart, IInv
      <4>2. running' \in [Pages -> BOOLEAN] /\ analyses' \in [Pages -> Nat]
        BY <3>1 DEF AnalyzeStart, IInv, TypeOK
      <4> QED BY <4>1, <4>2
    <3>2. CASE AnalyzeEnd(q)
      BY <3>2 DEF AnalyzeEnd, IInv, TypeOK
    <3> QED BY <1>7, <3>1, <3>2
  <2>3. TypeOK'
    BY <2>1, <2>2 DEF IInv, TypeOK
  <2>4. PageInv(q)'
    BY <2>1 DEF IInv, PageInv, ReplyInv, Covered
  <2> QED BY <2>1, <2>3, <2>4, PageOnlyStep DEF IInv, RenderedInOrder
<1>8. ASSUME NEW q \in Pages, Reload(q) PROVE IInv'
  BY <1>8, ReloadStep
<1>9. ASSUME NEW a \in orphans, OrphanAnswer(a) PROVE IInv'
  <2>1. /\ Acknowledge(a) /\ orphans' \subseteq orphans
        /\ UNCHANGED <<posted, after, running, poll, analyses, rendered, shown, spent>>
    BY <1>9 DEF OrphanAnswer, pageVars
  <2>2. a \in Nat /\ Covered(a)
    BY DEF IInv, TypeOK
  <2>3. revision' = revision /\ pending' \in Seq(Launches) /\ QueueInv'
    BY <2>1, <2>2, AcknowledgeKeepsQueue DEF IInv
  <2>4. TypeOK'
    BY <2>1, <2>3 DEF IInv, TypeOK
  <2>9. revision \in Nat
    BY DEF IInv, TypeOK
  <2> QED BY <2>1, <2>3, <2>4, <2>9, QueueOnlyStep
<1>10. CASE UNCHANGED vars
  <2>1. UNCHANGED <<revision, pending, after, poll, rendered, orphans, shown>> /\ TypeOK'
    BY <1>10 DEF vars, pageVars, IInv, TypeOK
  <2>2. QueueInv'
    BY <2>1 DEF IInv, QueueInv, PendingContiguous, Covered
  <2>9. revision \in Nat
    BY DEF IInv, TypeOK
  <2> QED BY <2>1, <2>2, <2>9, QueueOnlyStep
<1> QED
  BY <1>1, <1>2, <1>3, <1>4, <1>5, <1>6, <1>7, <1>8, <1>9, <1>10
     DEF Next, Publish, PageStep

-----------------------------------------------------------------------------
(* Theorems                                                                *)

\* The inductive invariant holds in every reachable state of any instance.
THEOREM InductiveInvariant == Spec => []IInv
<1>1. Init => IInv
  BY InitInvariant
<1>2. IInv /\ [Next]_vars => IInv'
  BY InvariantStep
<1> QED
  BY <1>1, <1>2, PTL DEF Spec

\* Every variable keeps its type, and revisions stay within the bound.
THEOREM TypeCorrect == Spec => []TypeOK
<1>1. IInv => TypeOK
  BY DEF IInv
<1> QED
  BY <1>1, InductiveInvariant, PTL

\* The waiting launches are always the newest ones, in order and without gap.
THEOREM QueueContiguous == Spec => []PendingContiguous
<1>1. IInv => PendingContiguous
  BY DEF IInv, QueueInv
<1> QED
  BY <1>1, InductiveInvariant, PTL

\* No accepted launch is lost: what has left the queue has been rendered.
THEOREM NothingLost == Spec => []NoLaunchLost
<1>1. ASSUME IInv PROVE NoLaunchLost
  <2>1. SUFFICES ASSUME NEW r \in 1..revision
                 PROVE  (\E i \in 1..Len(pending) : pending[i].revision = r) \/ r \in shown
    BY DEF NoLaunchLost
  <2>2. revision \in Nat /\ Len(pending) \in Nat /\ Len(pending) <= revision
    BY <1>1 DEF IInv, TypeOK, QueueInv
  <2>3. CASE r <= revision - Len(pending)
    BY <1>1, <2>2, <2>3 DEF IInv, QueueInv, Covered
  <2>4. CASE r > revision - Len(pending)
    <3>1. r - (revision - Len(pending)) \in 1..Len(pending)
      BY <2>2, <2>4
    <3>2. pending[r - (revision - Len(pending))].revision = r
      BY <1>1, <2>2, <3>1 DEF IInv, QueueInv, PendingContiguous
    <3> QED BY <3>1, <3>2
  <2> QED BY <2>2, <2>3, <2>4
<1> QED
  BY <1>1, InductiveInvariant, PTL

\* Between two reloads a page renders launches in the order of acceptance
\* and renders none twice.
THEOREM DeliveredInOrder == Spec => []RenderedInOrder
<1>1. IInv => RenderedInOrder
  BY DEF IInv
<1> QED
  BY <1>1, InductiveInvariant, PTL

\* Across all pages no launch is seen before its predecessors.
THEOREM FirstShownInOrder == Spec => []ShownInOrder
<1>1. IInv => ShownInOrder
  BY DEF IInv
<1> QED
  BY <1>1, InductiveInvariant, PTL

-----------------------------------------------------------------------------
(* Restarts *)

(* What the server and the pages keep across a restart, typed. *)
RestartTypes ==
    /\ revision \in 0..MaxRevision
    /\ pending \in Seq(Launches)
    /\ after \in [Pages -> Nat]
    /\ poll \in [Pages -> Polls]
    /\ orphans \subseteq Nat

(* Freeing what `a` covers drops only launches that were shown, or that     *)
(* were stale when they were accepted.                                      *)
Harmless(a) == \A r \in 1..revision : r <= a => r \in shown \cup stale

(* A reply of this process or of the one before it: the page acknowledges   *)
(* its revision after rendering the launch that comes with it.              *)
HarmlessReply(reply) ==
    \A r \in 1..revision :
        r <= reply.revision => r \in shown \cup stale \/ (reply.launch /\ r = reply.revision)

RestartInv ==
    /\ RestartTypes
    /\ Len(pending) <= revision
    /\ PendingContiguous
    /\ Harmless(revision - Len(pending))
    /\ \A q \in Pages :
          Harmless(after[q]) /\ Harmless(poll[q].after) /\ HarmlessReply(poll[q].reply)
    /\ \A a \in orphans : Harmless(a)

-----------------------------------------------------------------------------
(* Harmless acknowledgements *)

\* Harmlessness is not lost while nothing new is accepted.
LEMMA HarmlessKept ==
    ASSUME revision' = revision, shown \subseteq shown', stale' = stale
    PROVE  /\ \A a : Harmless(a) => Harmless(a)'
           /\ \A reply : HarmlessReply(reply) => HarmlessReply(reply)'
BY DEF Harmless, HarmlessReply

\* A launch is accepted: a claim that covers it makes it stale.
LEMMA HarmlessAccepted ==
    ASSUME RestartTypes, revision' = revision + 1, shown' = shown,
           stale' = IF revision' > revision /\ \E a \in Claims : a >= revision'
                    THEN stale \cup {revision'} ELSE stale
    PROVE  /\ \A a \in Claims \cup {revision - Len(pending)} : Harmless(a) => Harmless(a)'
           /\ \A reply : reply.revision \in Claims /\ HarmlessReply(reply)
                            => HarmlessReply(reply)'
<1>1. revision \in Nat /\ revision' \in Nat /\ revision' > revision
  BY QueueAssumption DEF RestartTypes
<1>2. Claims \subseteq Nat
  BY DEF Claims, RestartTypes, Polls
<1>3. stale \subseteq stale' /\ \A a \in Claims : revision' <= a => revision' \in stale'
  BY <1>1, <1>2
<1>4. \A r \in 1..revision' : r \in 1..revision \/ r = revision'
  BY <1>1
<1>5. revision - Len(pending) <= revision /\ revision - Len(pending) < revision'
  <2>1. Len(pending) \in Nat
    BY DEF RestartTypes
  <2> QED BY <1>1, <2>1
<1>6. ASSUME NEW a \in Claims \cup {revision - Len(pending)}, Harmless(a),
             NEW r \in 1..revision', r <= a
      PROVE  r \in shown' \cup stale'
  <2>1. CASE r \in 1..revision
    BY <1>3, <1>6, <2>1 DEF Harmless
  <2>2. CASE r = revision'
    <3>1. a # revision - Len(pending)
      BY <1>1, <1>5, <1>6, <2>2
    <3> QED BY <1>3, <1>6, <2>2, <3>1
  <2> QED BY <1>4, <2>1, <2>2
<1>7. ASSUME NEW reply, reply.revision \in Claims, HarmlessReply(reply),
             NEW r \in 1..revision', r <= reply.revision
      PROVE  r \in shown' \cup stale' \/ (reply.launch /\ r = reply.revision)
  <2>1. CASE r \in 1..revision
    BY <1>3, <1>7, <2>1 DEF HarmlessReply
  <2>2. CASE r = revision'
    BY <1>3, <1>7, <2>2
  <2> QED BY <1>4, <2>1, <2>2
<1>8. \A a \in Claims \cup {revision - Len(pending)} : Harmless(a) => Harmless(a)'
  BY <1>6 DEF Harmless
<1>9. \A reply : reply.revision \in Claims /\ HarmlessReply(reply) => HarmlessReply(reply)'
  BY <1>7 DEF HarmlessReply
<1> QED BY <1>8, <1>9

\* publish(): the new launch goes to the end of the queue.
LEMMA AcceptedLast ==
    ASSUME RestartTypes, Len(pending) <= revision, PendingContiguous,
           NEW size \in Sizes, Accept(size)
    PROVE  /\ revision' = revision + 1 /\ revision' \in 0..MaxRevision
           /\ pending' \in Seq(Launches)
           /\ Len(pending') = Len(pending) + 1
           /\ PendingContiguous'
<1> DEFINE launch == [revision |-> revision + 1, bytes |-> size]
<1>1. revision \in Nat /\ revision < MaxRevision /\ MaxRevision \in Nat /\ Len(pending) \in Nat
  BY QueueAssumption DEF RestartTypes, Accept
<1>2. launch \in Launches /\ launch.revision = revision + 1
  BY <1>1 DEF Launches
<1>3. pending' = Append(pending, launch) /\ revision' = revision + 1
  BY DEF Accept
<1> HIDE DEF launch
<1>4. /\ pending' \in Seq(Launches)
      /\ Len(pending') = Len(pending) + 1
      /\ \A i \in 1..Len(pending) : pending'[i] = pending[i]
      /\ pending'[Len(pending) + 1] = launch
  BY <1>2, <1>3 DEF RestartTypes
<1>5. ASSUME NEW i \in 1..(Len(pending) + 1)
      PROVE  pending'[i].revision = (revision + 1) - (Len(pending) + 1) + i
  <2>1. CASE i \in 1..Len(pending)
    <3>1. pending'[i] = pending[i] /\ pending[i].revision = revision - Len(pending) + i
      BY <1>4, <2>1 DEF PendingContiguous
    <3> QED BY <1>1, <2>1, <3>1
  <2>2. CASE i = Len(pending) + 1
    BY <1>1, <1>2, <1>4, <2>2
  <2> QED BY <1>1, <2>1, <2>2
<1>6. PendingContiguous'
  BY <1>3, <1>4, <1>5 DEF PendingContiguous
<1> QED BY <1>1, <1>3, <1>4, <1>6

\* read_mailbox(): a harmless acknowledgement frees harmlessly, and so will
\* the next one of a page that was given its reply.
LEMMA AcknowledgedHarmless ==
    ASSUME RestartInv, NEW a \in Nat, Harmless(a), Acknowledge(a)
    PROVE  /\ revision' = revision
           /\ pending' \in Seq(Launches)
           /\ Len(pending') <= revision
           /\ PendingContiguous'
           /\ Harmless(revision - Len(pending'))
           /\ ReplyTo(a, pending') \in [revision : Nat, launch : BOOLEAN]
           /\ HarmlessReply(ReplyTo(a, pending'))
<1>1. revision \in Nat /\ pending \in Seq(Launches) /\ revision' = revision /\ Len(pending) \in Nat
  BY DEF RestartInv, RestartTypes, Acknowledge
<1>2. PICK n \in 0..Len(pending) :
          /\ \A i \in 1..n : pending[i].revision <= a
          /\ n < Len(pending) => pending[n + 1].revision > a
          /\ pending' = SubSeq(pending, n + 1, Len(pending))
  BY DEF Acknowledge
<1>3. /\ pending' \in Seq(Launches)
      /\ Len(pending') = Len(pending) - n
      /\ \A i \in 1..Len(pending') : pending'[i] = pending[n + i]
  BY <1>1, <1>2
<1>4. \A i \in 1..Len(pending) : pending[i].revision = revision - Len(pending) + i
  BY DEF RestartInv, PendingContiguous
<1>5. PendingContiguous'
  <2>1. ASSUME NEW i \in 1..(Len(pending) - n)
        PROVE  pending'[i].revision = revision - (Len(pending) - n) + i
    <3>1. n + i \in 1..Len(pending)
      BY <1>1, <1>2
    <3>2. pending[n + i].revision = revision - Len(pending) + (n + i)
      BY <3>1, <1>4
    <3>3. pending'[i] = pending[n + i]
      BY <1>3
    <3> QED BY <3>1, <3>2, <3>3, <1>1, <1>2
  <2> QED BY <2>1, <1>1, <1>3 DEF PendingContiguous
<1>6. Harmless(revision - Len(pending) + n)
  <2>1. CASE n = 0
    BY <2>1, <1>1 DEF RestartInv
  <2>2. CASE n > 0
    <3>1. n \in 1..n /\ n \in 1..Len(pending)
      BY <2>2, <1>1, <1>2
    <3>2. pending[n].revision <= a /\ pending[n].revision = revision - Len(pending) + n
      BY <3>1, <1>2, <1>4
    <3>3. revision - Len(pending) + n <= a /\ revision - Len(pending) + n \in Int
      BY <3>1, <3>2, <1>1
    <3>4. PICK b \in Int : b = revision - Len(pending) + n
      BY <3>3
    <3>5. \A r \in 1..revision : r <= b => r <= a
      BY <3>3, <3>4
    <3>6. Harmless(b)
      BY <3>5 DEF Harmless
    <3> QED BY <3>4, <3>6
  <2> QED BY <1>2, <2>1, <2>2
<1>7. revision - Len(pending') = revision - Len(pending) + n /\ Len(pending') <= revision
  <2>1. Len(pending) <= revision
    BY DEF RestartInv
  <2>2. n \in 0..Len(pending) /\ Len(pending') = Len(pending) - n
    BY <1>2, <1>3
  <2> QED BY <1>1, <2>1, <2>2
<1>8. /\ ReplyTo(a, pending') \in [revision : Nat, launch : BOOLEAN]
      /\ HarmlessReply(ReplyTo(a, pending'))
  <2>1. CASE pending' = <<>>
    <3>1. ReplyTo(a, pending') = [revision |-> revision, launch |-> FALSE]
      BY <1>1, <2>1 DEF ReplyTo
    <3>2. revision - Len(pending') = revision
      <4>1. Len(pending') = 0
        BY <2>1
      <4> QED BY <4>1, <1>1
    <3>3. Harmless(revision)
      BY <3>2, <1>6, <1>7
    <3> QED BY <1>1, <3>1, <3>3 DEF Harmless, HarmlessReply
  <2>2. CASE pending' # <<>>
    <3>1. n < Len(pending) /\ 1 \in 1..Len(pending')
      BY <1>1, <1>2, <1>3, <2>2
    <3>2. pending'[1] = pending[n + 1] /\ n + 1 \in 1..Len(pending)
      BY <1>1, <1>2, <1>3, <3>1
    <3>3. PICK v \in Nat : v = revision - Len(pending) + (n + 1)
      BY <1>1, <1>2 DEF RestartInv
    <3>4. pending'[1].revision = v /\ v > a
      BY <1>2, <1>4, <3>1, <3>2, <3>3
    <3>5. ReplyTo(a, pending') = [revision |-> v, launch |-> TRUE]
      BY <1>1, <2>2, <3>4 DEF ReplyTo
    <3>6. ASSUME NEW r \in 1..revision, r <= v, r # v PROVE r \in shown \cup stale
      <4>1. n \in Nat /\ r \in Nat
        BY <1>1
      <4>2. r <= revision - Len(pending) + n
        BY <1>1, <3>3, <3>6, <4>1
      <4> QED BY <4>2, <1>6 DEF Harmless
    <3>7. HarmlessReply([revision |-> v, launch |-> TRUE])
      BY <3>6 DEF HarmlessReply
    <3> QED BY <3>3, <3>5, <3>7
  <2> QED BY <2>1, <2>2
<1> QED BY <1>1, <1>3, <1>5, <1>6, <1>7, <1>8

-----------------------------------------------------------------------------
(* Steps of the system with restarts *)

\* A new process, or the first, has accepted nothing that could be dropped.
LEMMA NothingYet ==
    ASSUME revision = 0
    PROVE  (\A a : Harmless(a)) /\ (\A reply : HarmlessReply(reply))
BY DEF Harmless, HarmlessReply

\* The first process starts with nothing accepted.
LEMMA RestartInit == RInit => RestartInv
<1> SUFFICES ASSUME RInit PROVE RestartInv
  OBVIOUS
<1>1. revision = 0 /\ pending = <<>> /\ orphans = {}
  BY DEF RInit, Init, QueueInit
<1>2. /\ after = [q \in Pages |-> 0] /\ poll = [q \in Pages |-> NoPoll]
  BY DEF RInit, Init
<1>3. NoPoll \in Polls
  BY DEF Polls, NoPoll, NoReply
<1>4. RestartTypes
  <2>1. pending \in Seq(Launches) /\ revision \in 0..MaxRevision
    BY <1>1, QueueAssumption
  <2>2. after \in [Pages -> Nat] /\ poll \in [Pages -> Polls]
    BY <1>2, <1>3
  <2> QED BY <1>1, <2>1, <2>2 DEF RestartTypes
<1>5. Len(pending) <= revision /\ PendingContiguous
  BY <1>1 DEF PendingContiguous
<1> QED BY <1>1, <1>4, <1>5, NothingYet DEF RestartInv

\* A restart forgets the launches together with their revisions.
LEMMA RestartKeeps ==
    ASSUME RestartInv, Restart
    PROVE  RestartInv'
<1>1. revision' = 0 /\ pending' = <<>> /\ UNCHANGED <<after, orphans>>
  BY DEF Restart
<1>2. poll' \in [Pages -> Polls]
  <2>1. NoPoll \in Polls
    BY DEF Polls, NoPoll, NoReply
  <2>2. PICK failed \in SUBSET {q \in Pages : poll[q].stage = "sent"} :
           poll' = [q \in Pages |-> IF q \in failed THEN NoPoll ELSE poll[q]]
    BY DEF Restart
  <2>3. \A q \in Pages : poll[q] \in Polls
    BY DEF RestartInv, RestartTypes
  <2> QED BY <2>1, <2>2, <2>3
<1>3. RestartTypes'
  <2>1. pending' \in Seq(Launches) /\ revision' \in 0..MaxRevision
    BY <1>1, QueueAssumption
  <2> QED BY <1>1, <1>2, <2>1 DEF RestartInv, RestartTypes
<1>4. (Len(pending) <= revision /\ PendingContiguous)'
  BY <1>1 DEF PendingContiguous
<1>5. ((\A a : Harmless(a)) /\ (\A reply : HarmlessReply(reply)))'
  BY <1>1 DEF Harmless, HarmlessReply
<1> QED BY <1>3, <1>4, <1>5 DEF RestartInv

\* A step of one page that leaves the queue alone.
LEMMA PageMoves ==
    ASSUME RestartInv, UNCHANGED <<revision, pending>>, stale' = stale, shown \subseteq shown',
           after' \in [Pages -> Nat], poll' \in [Pages -> Polls], orphans' \subseteq Nat,
           NEW q \in Pages,
           \A p \in Pages \ {q} : after'[p] = after[p] /\ poll'[p] = poll[p],
           Harmless(after[q])', Harmless(poll[q].after)', HarmlessReply(poll[q].reply)',
           \A a \in orphans' : Harmless(a)
    PROVE  RestartInv'
<1>1. RestartTypes'
  BY DEF RestartInv, RestartTypes
<1>2. (Len(pending) <= revision /\ PendingContiguous)'
  BY DEF RestartInv, PendingContiguous
<1>3. /\ \A a : Harmless(a) => Harmless(a)'
      /\ \A reply : HarmlessReply(reply) => HarmlessReply(reply)'
  BY HarmlessKept
<1>4. Harmless(revision - Len(pending))'
  BY DEF RestartInv, Harmless
<1>5. ASSUME NEW p \in Pages
      PROVE  (Harmless(after[p]) /\ Harmless(poll[p].after) /\ HarmlessReply(poll[p].reply))'
  <2>1. CASE p = q
    BY <2>1 DEF Harmless, HarmlessReply
  <2>2. CASE p # q
    <3>1. after'[p] = after[p] /\ poll'[p] = poll[p]
      BY <2>2
    <3>2. Harmless(after[p]) /\ Harmless(poll[p].after) /\ HarmlessReply(poll[p].reply)
      BY DEF RestartInv
    <3> QED BY <3>1, <3>2, <1>3 DEF Harmless, HarmlessReply
  <2> QED BY <2>1, <2>2
<1>6. (\A a \in orphans : Harmless(a))'
  BY DEF Harmless
<1> QED BY <1>1, <1>2, <1>4, <1>5, <1>6 DEF RestartInv

\* A poll is answered: by what was freed for it, harmlessly.
LEMMA AnswerMoves ==
    ASSUME RestartInv, NEW q \in Pages, PollAnswer(q), stale' = stale
    PROVE  RestartInv'
<1> DEFINE reply == ReplyTo(poll[q].after, pending')
<1>1. /\ Acknowledge(poll[q].after)
      /\ poll' = [poll EXCEPT ![q].stage = "answered", ![q].reply = reply]
      /\ UNCHANGED <<after, orphans, shown>>
  BY DEF PollAnswer
<1>2. poll \in [Pages -> Polls] /\ poll[q] \in Polls /\ poll[q].after \in Nat /\ Harmless(poll[q].after)
  BY DEF RestartInv, RestartTypes, Polls
<1>3. /\ revision' = revision
      /\ pending' \in Seq(Launches)
      /\ Len(pending') <= revision
      /\ PendingContiguous'
      /\ Harmless(revision - Len(pending'))
      /\ reply \in [revision : Nat, launch : BOOLEAN]
      /\ HarmlessReply(reply)
  BY <1>1, <1>2, AcknowledgedHarmless
<1> HIDE DEF reply
<1>4. /\ poll' \in [Pages -> Polls]
      /\ poll'[q].after = poll[q].after /\ poll'[q].reply = reply
      /\ \A p \in Pages \ {q} : poll'[p] = poll[p]
  BY <1>1, <1>2, <1>3 DEF Polls
<1>5. /\ \A a : Harmless(a) => Harmless(a)'
      /\ \A r : HarmlessReply(r) => HarmlessReply(r)'
  BY <1>1, <1>3, HarmlessKept
<1>6. RestartTypes'
  BY <1>1, <1>3, <1>4 DEF RestartInv, RestartTypes
<1>7. Harmless(revision - Len(pending))'
  BY <1>1, <1>3 DEF Harmless
<1>8. ASSUME NEW p \in Pages
      PROVE  (Harmless(after[p]) /\ Harmless(poll[p].after) /\ HarmlessReply(poll[p].reply))'
  <2>1. /\ after'[p] = after[p] /\ poll'[p].after = poll[p].after
        /\ poll'[p].reply = IF p = q THEN reply ELSE poll[p].reply
    BY <1>1, <1>4
  <2>2. Harmless(after[p]) /\ Harmless(poll[p].after) /\ HarmlessReply(poll[p].reply)
    BY DEF RestartInv
  <2> QED BY <1>3, <1>5, <2>1, <2>2 DEF Harmless, HarmlessReply
<1>9. (\A a \in orphans : Harmless(a))'
  BY <1>1, <1>5 DEF RestartInv, Harmless
<1> QED BY <1>3, <1>6, <1>7, <1>8, <1>9 DEF RestartInv

\* The same for a poll whose page was reloaded.
LEMMA OrphanMoves ==
    ASSUME RestartInv, NEW a \in orphans, OrphanAnswer(a), stale' = stale
    PROVE  RestartInv'
<1>1. /\ Acknowledge(a)
      /\ orphans' = orphans \ {a}
      /\ UNCHANGED <<after, poll, shown>>
  BY DEF OrphanAnswer, pageVars
<1>2. a \in Nat /\ Harmless(a)
  BY DEF RestartInv, RestartTypes
<1>3. /\ revision' = revision
      /\ pending' \in Seq(Launches)
      /\ Len(pending') <= revision
      /\ PendingContiguous'
      /\ Harmless(revision - Len(pending'))
  BY <1>1, <1>2, AcknowledgedHarmless
<1>5. /\ \A b : Harmless(b) => Harmless(b)'
      /\ \A r : HarmlessReply(r) => HarmlessReply(r)'
  BY <1>1, <1>3, HarmlessKept
<1>6. RestartTypes'
  BY <1>1, <1>3 DEF RestartInv, RestartTypes
<1>7. Harmless(revision - Len(pending))'
  BY <1>1, <1>3 DEF Harmless
<1>8. ASSUME NEW p \in Pages
      PROVE  (Harmless(after[p]) /\ Harmless(poll[p].after) /\ HarmlessReply(poll[p].reply))'
  <2>2. Harmless(after[p]) /\ Harmless(poll[p].after) /\ HarmlessReply(poll[p].reply)
    BY DEF RestartInv
  <2> QED BY <1>1, <1>5, <2>2 DEF Harmless, HarmlessReply
<1>9. (\A b \in orphans : Harmless(b))'
  BY <1>1, <1>5 DEF RestartInv, Harmless
<1> QED BY <1>3, <1>6, <1>7, <1>8, <1>9 DEF RestartInv

\* publish() accepts a launch, stale or not.
LEMMA AcceptMoves ==
    ASSUME RestartInv, NEW c \in Clients, PublishAccepted(c),
           stale' = IF revision' > revision /\ \E a \in Claims : a >= revision'
                    THEN stale \cup {revision'} ELSE stale
    PROVE  RestartInv'
<1>1. PICK size \in Sizes : Accept(size)
  BY DEF PublishAccepted
<1>2. UNCHANGED <<after, poll, orphans, shown>>
  BY DEF PublishAccepted, pageVars
<1>3. /\ revision' = revision + 1 /\ revision' \in 0..MaxRevision
      /\ pending' \in Seq(Launches)
      /\ Len(pending') = Len(pending) + 1
      /\ PendingContiguous'
  BY <1>1, AcceptedLast DEF RestartInv
<1>4. /\ \A a \in Claims \cup {revision - Len(pending)} : Harmless(a) => Harmless(a)'
      /\ \A reply : reply.revision \in Claims /\ HarmlessReply(reply)
                       => HarmlessReply(reply)'
  BY <1>2, <1>3, HarmlessAccepted DEF RestartInv
<1>5. RestartTypes'
  BY <1>2, <1>3 DEF RestartInv, RestartTypes
<1>6. Len(pending') <= revision' /\ revision' - Len(pending') = revision - Len(pending)
  <2>1. revision \in Nat /\ Len(pending) \in Nat /\ Len(pending) <= revision
    BY DEF RestartInv, RestartTypes
  <2> QED BY <1>3, <2>1
<1>7. Harmless(revision - Len(pending))'
  <2>1. Harmless(revision - Len(pending))
    BY DEF RestartInv
  <2>2. PICK b : b = revision - Len(pending)
    OBVIOUS
  <2>3. Harmless(b)'
    BY <1>4, <2>1, <2>2
  <2> QED BY <1>6, <2>2, <2>3 DEF Harmless
<1>8. ASSUME NEW p \in Pages
      PROVE  (Harmless(after[p]) /\ Harmless(poll[p].after) /\ HarmlessReply(poll[p].reply))'
  <2>1. Harmless(after[p]) /\ Harmless(poll[p].after) /\ HarmlessReply(poll[p].reply)
    BY DEF RestartInv
  <2>2. {after[p], poll[p].after, poll[p].reply.revision} \subseteq Claims
    BY DEF Claims
  <2>3. PICK x, y, z : x = after[p] /\ y = poll[p].after /\ z = poll[p].reply
    OBVIOUS
  <2>4. Harmless(x)' /\ Harmless(y)' /\ HarmlessReply(z)'
    BY <1>4, <2>1, <2>2, <2>3
  <2> QED BY <1>2, <2>3, <2>4 DEF Harmless, HarmlessReply
<1>9. (\A a \in orphans : Harmless(a))'
  <2>1. \A a \in orphans : Harmless(a) /\ a \in Claims
    BY DEF RestartInv, Claims
  <2>2. \A a \in orphans : Harmless(a)'
    BY <1>4, <2>1
  <2> QED BY <1>2, <2>2 DEF Harmless
<1> QED BY <1>3, <1>5, <1>6, <1>7, <1>8, <1>9 DEF RestartInv

\* A page sends a poll, drops a lost one, or starts over.
LEMMA PollMoves ==
    ASSUME RestartInv, NEW q \in Pages, PollSend(q) \/ PollLost(q) \/ Reload(q), stale' = stale
    PROVE  RestartInv'
<1>1. /\ after \in [Pages -> Nat] /\ poll \in [Pages -> Polls] /\ orphans \subseteq Nat
      /\ poll[q] \in Polls /\ after[q] \in Nat /\ poll[q].after \in Nat
      /\ Harmless(after[q]) /\ Harmless(poll[q].after)
      /\ \A a \in orphans : Harmless(a)
  BY DEF RestartInv, RestartTypes, Polls
<1>2. /\ NoPoll \in Polls /\ NoPoll.after = 0 /\ NoPoll.reply.revision = 0
      /\ [NoPoll EXCEPT !.stage = "sent", !.after = after[q]] \in Polls
      /\ [NoPoll EXCEPT !.stage = "sent", !.after = after[q]].after = after[q]
      /\ [NoPoll EXCEPT !.stage = "sent", !.after = after[q]].reply.revision = 0
  BY <1>1 DEF NoPoll, NoReply, Polls
<1>3. Harmless(0)' /\ \A reply : reply.revision = 0 => HarmlessReply(reply)'
  BY DEF Harmless, HarmlessReply
<1>4. CASE PollSend(q)
  <2>1. /\ poll' = [poll EXCEPT ![q] = [NoPoll EXCEPT !.stage = "sent", !.after = after[q]]]
        /\ UNCHANGED <<revision, pending, after, orphans, shown>>
    BY <1>4 DEF PollSend
  <2>2. /\ poll' \in [Pages -> Polls]
        /\ poll'[q].after = after[q] /\ poll'[q].reply.revision = 0
        /\ \A p \in Pages \ {q} : poll'[p] = poll[p]
    BY <1>1, <1>2, <2>1
  <2>3. Harmless(after[q])' /\ Harmless(poll[q].after)'
    BY <1>1, <2>1, <2>2 DEF Harmless
  <2>4. HarmlessReply(poll[q].reply)'
    BY <2>2 DEF HarmlessReply
  <2> QED BY <1>1, <2>1, <2>2, <2>3, <2>4, PageMoves
<1>5. CASE PollLost(q)
  <2>1. /\ poll' = [poll EXCEPT ![q] = NoPoll]
        /\ UNCHANGED <<revision, pending, after, orphans, shown>>
    BY <1>5 DEF PollLost
  <2>2. /\ poll' \in [Pages -> Polls]
        /\ poll'[q].after = 0 /\ poll'[q].reply.revision = 0
        /\ \A p \in Pages \ {q} : poll'[p] = poll[p]
    BY <1>1, <1>2, <2>1
  <2>3. Harmless(after[q])' /\ Harmless(poll[q].after)'
    BY <1>1, <2>1, <2>2 DEF Harmless
  <2>4. HarmlessReply(poll[q].reply)'
    BY <2>2 DEF HarmlessReply
  <2> QED BY <1>1, <2>1, <2>2, <2>3, <2>4, PageMoves
<1>6. CASE Reload(q)
  <2>1. /\ after' = [after EXCEPT ![q] = 0]
        /\ poll' = [poll EXCEPT ![q] = NoPoll]
        /\ orphans' = IF poll[q].stage = "sent" THEN orphans \cup {poll[q].after} ELSE orphans
        /\ UNCHANGED <<revision, pending, shown>>
    BY <1>6 DEF Reload
  <2>2. /\ poll' \in [Pages -> Polls] /\ after' \in [Pages -> Nat] /\ orphans' \subseteq Nat
        /\ after'[q] = 0 /\ poll'[q].after = 0 /\ poll'[q].reply.revision = 0
        /\ \A p \in Pages \ {q} : poll'[p] = poll[p] /\ after'[p] = after[p]
    BY <1>1, <1>2, <2>1
  <2>3. Harmless(after[q])' /\ Harmless(poll[q].after)' /\ HarmlessReply(poll[q].reply)'
    BY <2>2 DEF Harmless, HarmlessReply
  <2>4. \A a \in orphans' : Harmless(a)
    BY <1>1, <2>1
  <2> QED BY <2>1, <2>2, <2>3, <2>4, PageMoves
<1> QED BY <1>4, <1>5, <1>6

\* A page renders the launch of its reply before it acknowledges it.
LEMMA ReceiveMoves ==
    ASSUME RestartInv, NEW q \in Pages, PollReceive(q), stale' = stale
    PROVE  RestartInv'
<1> DEFINE reply == poll[q].reply
<1>1. /\ after' = [after EXCEPT ![q] = reply.revision]
      /\ poll' = [poll EXCEPT ![q] = NoPoll]
      /\ shown' = IF reply.launch THEN shown \cup {reply.revision} ELSE shown
      /\ UNCHANGED <<revision, pending, orphans>>
  BY DEF PollReceive
<1>2. /\ after \in [Pages -> Nat] /\ poll \in [Pages -> Polls] /\ orphans \subseteq Nat
      /\ reply.revision \in Nat /\ HarmlessReply(reply)
      /\ \A a \in orphans : Harmless(a)
  BY DEF RestartInv, RestartTypes, Polls
<1>3. NoPoll \in Polls /\ NoPoll.after = 0 /\ NoPoll.reply.revision = 0
  BY DEF NoPoll, NoReply, Polls
<1> HIDE DEF reply
<1>4. /\ poll' \in [Pages -> Polls] /\ after' \in [Pages -> Nat]
      /\ after'[q] = reply.revision /\ poll'[q].after = 0 /\ poll'[q].reply.revision = 0
      /\ \A p \in Pages \ {q} : poll'[p] = poll[p] /\ after'[p] = after[p]
      /\ shown \subseteq shown'
  BY <1>1, <1>2, <1>3
<1>5. ASSUME NEW r \in 1..revision, r <= reply.revision PROVE r \in shown' \cup stale
  BY <1>1, <1>2, <1>5 DEF HarmlessReply
<1>6. Harmless(after[q])'
  BY <1>1, <1>4, <1>5 DEF Harmless
<1>7. Harmless(poll[q].after)' /\ HarmlessReply(poll[q].reply)'
  BY <1>4 DEF Harmless, HarmlessReply
<1> QED BY <1>1, <1>2, <1>4, <1>6, <1>7, PageMoves

\* Every step of the system with restarts keeps the invariant.
LEMMA RestartStep == RestartInv /\ [RNext]_restartVars => RestartInv'
<1> SUFFICES ASSUME RestartInv, [RNext]_restartVars PROVE RestartInv'
  OBVIOUS
<1>0. ASSUME UNCHANGED <<revision, pending, after, poll, orphans, shown, stale>>
      PROVE  RestartInv'
  BY <1>0 DEF RestartInv, RestartTypes, PendingContiguous, Harmless, HarmlessReply
<1>1. CASE UNCHANGED restartVars
  BY <1>0, <1>1 DEF restartVars, vars, pageVars
<1>2. CASE Restart
  BY <1>2, RestartKeeps
<1>3. CASE Step
  <2>1. revision' = revision => stale' = stale
    <3>1. revision \in Nat
      BY DEF RestartInv, RestartTypes
    <3> QED BY <1>3, <3>1 DEF Step
  <2>2. ASSUME NEW c \in Clients, Publish(c) PROVE RestartInv'
    <3>1. CASE PublishAccepted(c)
      BY <1>3, <3>1, AcceptMoves DEF Step
    <3>2. CASE Post(c) \/ PublishRefused(c)
      BY <1>0, <2>1, <3>2 DEF Post, PublishRefused, pageVars
    <3> QED BY <2>2, <3>1, <3>2 DEF Publish
  <2>3. ASSUME NEW q \in Pages, PageStep(q) PROVE RestartInv'
    <3>1. CASE PollSend(q) \/ PollLost(q) \/ Reload(q)
      <4>1. revision' = revision
        BY <3>1 DEF PollSend, PollLost, Reload
      <4> QED BY <2>1, <3>1, <4>1, PollMoves
    <3>2. CASE PollAnswer(q)
      <4>1. revision' = revision
        BY <3>2 DEF PollAnswer, Acknowledge
      <4> QED BY <2>1, <3>2, <4>1, AnswerMoves
    <3>3. CASE PollReceive(q)
      <4>1. revision' = revision
        BY <3>3 DEF PollReceive
      <4> QED BY <2>1, <3>3, <4>1, ReceiveMoves
    <3>4. CASE AnalyzeStart(q) \/ AnalyzeEnd(q)
      BY <1>0, <2>1, <3>4 DEF AnalyzeStart, AnalyzeEnd
    <3> QED BY <2>3, <3>1, <3>2, <3>3, <3>4 DEF PageStep
  <2>4. ASSUME NEW a \in orphans, OrphanAnswer(a) PROVE RestartInv'
    <3>1. revision' = revision
      BY <2>4 DEF OrphanAnswer, Acknowledge
    <3> QED BY <2>1, <2>4, <3>1, OrphanMoves
  <2> QED BY <1>3, <2>2, <2>3, <2>4 DEF Step, Next
<1> QED BY <1>1, <1>2, <1>3 DEF RNext

-----------------------------------------------------------------------------
(* Theorems about restarts *)

\* The invariant holds however often the server is restarted.
THEOREM RestartInvariant == RSpec => []RestartInv
<1> QED BY RestartInit, RestartStep, PTL DEF RSpec

\* A launch of the running process that has left the queue was rendered by a
\* page, or was accepted while a page was ahead of the process.
THEOREM OnlyStaleLost == RSpec => []OnlyStaleDropped
<1>1. RestartInv => OnlyStaleDropped
  <2> SUFFICES ASSUME RestartInv, NEW r \in 1..revision
               PROVE  r \in stale \/ r \in shown \/ \E i \in 1..Len(pending) : pending[i].revision = r
    BY DEF OnlyStaleDropped
  <2>1. revision \in Nat /\ Len(pending) \in Nat /\ Len(pending) <= revision
    BY DEF RestartInv, RestartTypes
  <2>2. CASE r <= revision - Len(pending)
    BY <2>2 DEF RestartInv, Harmless
  <2>3. CASE ~(r <= revision - Len(pending))
    <3>1. r - (revision - Len(pending)) \in 1..Len(pending)
      BY <2>1, <2>3
    <3>2. pending[r - (revision - Len(pending))].revision = r
      BY <2>1, <3>1 DEF RestartInv, PendingContiguous
    <3> QED BY <3>1, <3>2
  <2> QED BY <2>2, <2>3
<1> QED BY <1>1, RestartInvariant, PTL
=============================================================================
