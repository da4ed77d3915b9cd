--------------------------- MODULE MailboxProofs ---------------------------
(***************************************************************************)
(* Proofs about Mailbox, for any number of threads and entries and any     *)
(* capacity.  IInv describes the list at every step, also while a thread   *)
(* is in the middle of changing it: the launches in it are the last        *)
(* `count` accepted ones, numbered without a gap, each entry points to the *)
(* one with the next revision, and there are running totals of their bytes *)
(* that end at launch_bytes.  From it follow that no freed entry is        *)
(* touched, that the list is sound whenever mailbox_lock is free, and that *)
(* the threads implement module LaunchQueue.                               *)
(***************************************************************************)
EXTENDS Mailbox, FunctionTheorems, FiniteSetTheorems, Induction, TLAPS

-----------------------------------------------------------------------------
(* The inductive invariant                                                 *)

\* Where a thread can be, and where it can be between lock and unlock.
Places == {"idle", "wants compute_lock", "computes", "unlocks compute_lock",
           "wants mailbox_lock", "publishes", "links", "frees", "reads",
           "unlocks mailbox_lock", "responds", "exits"}

Inside == {"publishes", "links", "frees", "reads", "unlocks mailbox_lock"}

Pointers == Entries \cup {NULL}

\* The types of a reply, of a thread and of an entry.
Replies == [revision : Nat, launch : Nat]

Records == [kind : Kinds \cup {"none"}, at : Places, after : Revisions, size : Nat,
            entry : Pointers, reply : Replies]

Heaps == [revision : Nat, bytes : Nat, next : Pointers]

TypeOK ==
    /\ thread \in [Threads -> Records]
    /\ mailboxOwner \in Threads \cup {NoThread}
    /\ heap \in [Entries -> Heaps]
    /\ allocated \subseteq Entries
    /\ first \in Pointers /\ last \in Pointers
    /\ revision \in 0..MaxRevision /\ latest \in Nat /\ count \in Nat /\ bytes \in Nat

\* What holds of one thread: it is between lock and unlock exactly when it
\* owns mailbox_lock, and what it carries there fits where it is.
Own(t) ==
    /\ thread[t].at \in Inside <=> mailboxOwner = t
    /\ thread[t].at \in {"wants mailbox_lock", "publishes"} /\ thread[t].kind = "launch"
          => thread[t].size \in Sizes
    /\ thread[t].at = "publishes" => thread[t].kind = "launch"
    /\ thread[t].at = "links" =>
          /\ thread[t].entry \in allocated
          /\ heap[thread[t].entry].revision = revision
          /\ heap[thread[t].entry].next = NULL
          /\ latest + 1 = revision
          /\ count < MaxCount
    /\ thread[t].at # "links" => thread[t].entry = NULL
    /\ thread[t].reply.launch # 0 => thread[t].reply.launch = thread[t].reply.revision

\* The entries in the list: all but the one a publisher has yet to link.
Linked == {e \in allocated : \A t \in Threads : thread[t].entry # e}

Oldest == latest - count + 1

\* p points to the entry of launch n, or nowhere when n is yet to come.
PointsTo(p, n) ==
    IF n <= latest THEN p \in Linked /\ heap[p].revision = n ELSE p = NULL

\* The list holds the launches from Oldest to latest, each once ...
Contents ==
    /\ Oldest >= 1 /\ count <= MaxCount
    /\ \A e \in Linked : heap[e].revision \in Oldest..latest
    /\ \A n \in Oldest..latest : \E e \in Linked : heap[e].revision = n
    /\ \A d, e \in Linked : heap[d].revision = heap[e].revision => d = e
    /\ (\A t \in Threads : thread[t].at # "links") => latest = revision

\* ... linked in that order, with no tail when it is empty, except while the
\* loop that empties it runs.
Links ==
    /\ PointsTo(first, Oldest)
    /\ \A e \in Linked : PointsTo(heap[e].next, heap[e].revision + 1)
    /\ count > 0 => last \in Linked /\ heap[last].revision = latest
    /\ count = 0 /\ (\A t \in Threads : thread[t].at # "frees") => last = NULL

\* The bytes of the launches up to and including each add up to launch_bytes.
IsTotal(total) ==
    /\ \A e \in Linked : heap[e].revision = Oldest => total[e] = heap[e].bytes
    /\ \A d, e \in Linked : heap[e].revision = heap[d].revision + 1
                               => total[e] = total[d] + heap[e].bytes
    /\ \A d, e \in Linked : heap[d].revision <= heap[e].revision => total[d] <= total[e]
    /\ \A e \in Linked : heap[e].revision = latest => total[e] = bytes
    /\ count = 0 => bytes = 0

Bytes == \E total \in [Linked -> Nat] : IsTotal(total)

IInv == TypeOK /\ (\A t \in Threads : Own(t)) /\ Contents /\ Links /\ Bytes

-----------------------------------------------------------------------------
(* Typing                                                                  *)

\* What the steps write into a thread's record and into a heap entry is well
\* typed, and leaves the other fields alone.
LEMMA RecordUpdates ==
    ASSUME NEW r \in Records
    PROVE  /\ \A at \in Places : [r EXCEPT !.at = at] \in Records
           /\ \A at \in Places, size \in Nat : [r EXCEPT !.at = at, !.size = size] \in Records
           /\ \A at \in Places, entry \in Pointers :
                [r EXCEPT !.at = at, !.entry = entry] \in Records
           /\ \A at \in Places, reply \in Replies :
                [r EXCEPT !.at = at, !.reply = reply] \in Records
           /\ \A at \in Places, entry \in Pointers, reply \in Replies :
                [r EXCEPT !.at = at, !.entry = entry, !.reply = reply] \in Records
BY DEF Records

\* Moving a thread changes nothing else of it.
LEMMA Moved ==
    ASSUME TypeOK, NEW t \in Threads, NEW at, thread' = [thread EXCEPT ![t].at = at]
    PROVE  /\ thread'[t].at = at /\ thread'[t].kind = thread[t].kind
           /\ thread'[t].after = thread[t].after /\ thread'[t].size = thread[t].size
           /\ thread'[t].entry = thread[t].entry /\ thread'[t].reply = thread[t].reply
           /\ \A u \in Threads : u # t => thread'[u] = thread[u]
<1>1. thread[t] \in Records /\ thread'[t] = [thread[t] EXCEPT !.at = at]
  BY DEF TypeOK
<1>2. \A u \in Threads : u # t => thread'[u] = thread[u]
  BY DEF TypeOK
<1> QED BY <1>1, <1>2 DEF Records

\* A thread without a connection, and one that has just got its own.
LEMMA IdleTyped ==
    /\ Idle \in Records
    /\ \A kind \in Kinds, after \in Revisions : 
         [Idle EXCEPT !.kind = kind, !.after = after, !.at = FirstStop(kind)] \in Records
<1>1. 0 \in Revisions
  BY MailboxAssumption DEF Revisions
<1> QED BY <1>1 DEF Idle, Records, Replies, NoReply, Pointers, Places, Kinds, FirstStop

\* The head of the list is counted.
LEMMA HeadCounted ==
    ASSUME TypeOK, Contents, Links, Bytes, first # NULL
    PROVE  /\ first \in Linked /\ first \in Entries
           /\ count > 0 /\ heap[first].bytes <= bytes
<1>1. first \in Linked /\ heap[first].revision = Oldest /\ Oldest <= latest
  BY DEF Links, PointsTo
<1>2. latest \in Nat /\ count \in Nat /\ first \in Entries
  BY <1>1 DEF TypeOK, Linked
<1>3. count > 0
  BY <1>1, <1>2 DEF Oldest
<1>4. PICK total \in [Linked -> Nat] : IsTotal(total)
  BY DEF Bytes
<1>5. PICK e \in Linked : heap[e].revision = latest
  BY <1>1, <1>2 DEF Contents, Oldest
<1>6. total[first] = heap[first].bytes /\ total[e] = bytes /\ total[first] <= total[e]
  BY <1>1, <1>4, <1>5 DEF IsTotal
<1> QED BY <1>1, <1>2, <1>3, <1>6

\* Every step keeps the types.
LEMMA Typing == IInv /\ [Next]_vars => TypeOK'
<1> SUFFICES ASSUME IInv, [Next]_vars PROVE TypeOK'
  OBVIOUS
<1>0. TypeOK /\ \A t \in Threads : Own(t)
  BY DEF IInv
<1>1. CASE UNCHANGED vars
  BY <1>0, <1>1 DEF TypeOK, vars, listVars
<1>2. ASSUME NEW t \in Threads, Connection(t) PROVE TypeOK'
  <2>1. thread' \in [Threads -> Records]
    BY <1>0, <1>2, IdleTyped DEF TypeOK, Connection, AcceptConnection, Shutdown, Respond
  <2> QED BY <1>0, <1>2, <2>1 DEF TypeOK, Connection, AcceptConnection, Shutdown, Respond, listVars
<1>3. ASSUME NEW t \in Threads, Computing(t) PROVE TypeOK'
  <2>1. thread' \in [Threads -> Records]
    <3>1. CASE LockCompute(t)
      BY <1>0, <3>1, RecordUpdates DEF TypeOK, LockCompute, Places
    <3>2. CASE FinishComputation(t)
      <4>1. CASE thread' = [thread EXCEPT ![t].at = "unlocks compute_lock"]
        BY <1>0, <4>1, RecordUpdates DEF TypeOK, Places
      <4>2. ASSUME NEW size \in Sizes,
                   thread' = [thread EXCEPT ![t].at = "wants mailbox_lock", ![t].size = size]
            PROVE  thread' \in [Threads -> Records]
        BY <1>0, <4>2, RecordUpdates, MailboxAssumption DEF TypeOK, Places
      <4> QED BY <3>2, <4>1, <4>2 DEF FinishComputation
    <3>3. CASE UnlockCompute(t)
      BY <1>0, <3>3, RecordUpdates DEF TypeOK, UnlockCompute, Places
    <3> QED BY <1>3, <3>1, <3>2, <3>3 DEF Computing
  <2> QED BY <1>0, <1>3, <2>1
      DEF TypeOK, Computing, LockCompute, FinishComputation, UnlockCompute, listVars
<1>4. ASSUME NEW t \in Threads, Publishing(t) PROVE TypeOK'
  <2>1. CASE RefuseLaunch(t)
    <3>1. thread' \in [Threads -> Records]
      BY <1>0, <2>1, RecordUpdates DEF TypeOK, RefuseLaunch, Places
    <3> QED BY <1>0, <2>1, <3>1 DEF TypeOK, RefuseLaunch, listVars
  <2>2. CASE FillEntry(t)
    <3>1. PICK e \in Entries \ allocated :
             /\ allocated' = allocated \cup {e}
             /\ heap' = [heap EXCEPT ![e] =
                   [revision |-> revision + 1, bytes |-> thread[t].size, next |-> NULL]]
             /\ thread' = [thread EXCEPT ![t].at = "links", ![t].entry = e]
      BY <2>2 DEF FillEntry
    <3>2. thread' \in [Threads -> Records]
      BY <1>0, <3>1, RecordUpdates DEF TypeOK, Places, Pointers
    <3>3. heap' \in [Entries -> Heaps]
      <4>1. [revision |-> revision + 1, bytes |-> thread[t].size, next |-> NULL] \in Heaps
        BY <1>0, MailboxAssumption DEF TypeOK, Records, Heaps, Pointers
      <4> QED BY <1>0, <3>1, <4>1 DEF TypeOK
    <3>4. revision' \in 0..MaxRevision
      BY <1>0, <2>2, MailboxAssumption DEF TypeOK, FillEntry
    <3> QED BY <1>0, <2>2, <3>1, <3>2, <3>3, <3>4 DEF TypeOK, FillEntry
  <2>3. CASE LinkEntry(t)
    <3> DEFINE entry == thread[t].entry
    <3>1. entry \in Entries /\ heap[entry] \in Heaps
      BY <1>0, <2>3 DEF TypeOK, Own, LinkEntry, At
    <3>2. heap' \in [Entries -> Heaps]
      <4>1. CASE last # NULL
        <5>1. last \in Entries /\ heap[last] \in Heaps /\ heap' = [heap EXCEPT ![last].next = entry]
          BY <1>0, <2>3, <4>1 DEF TypeOK, LinkEntry, Pointers
        <5>2. [heap[last] EXCEPT !.next = entry] \in Heaps
          BY <3>1, <5>1 DEF Heaps, Pointers
        <5> QED BY <1>0, <5>1, <5>2 DEF TypeOK
      <4>2. CASE last = NULL
        BY <1>0, <2>3, <4>2 DEF TypeOK, LinkEntry
      <4> QED BY <4>1, <4>2
    <3>3. [revision |-> heap[entry].revision, launch |-> 0] \in Replies
      BY <3>1 DEF Heaps, Replies
    <3>4. thread' \in [Threads -> Records]
      BY <1>0, <2>3, <3>3, RecordUpdates DEF TypeOK, LinkEntry, Places, Pointers
    <3>5. latest' \in Nat /\ bytes' \in Nat /\ count' \in Nat /\ last' \in Pointers /\ first' \in Pointers
      <4>1. heap[entry].revision \in Nat /\ heap[entry].bytes \in Nat
        BY <3>1 DEF Heaps
      <4>2. /\ latest' = heap[entry].revision /\ bytes' = bytes + heap[entry].bytes
            /\ count' = count + 1 /\ last' = entry /\ first' \in {first, entry}
        BY <2>3 DEF LinkEntry
      <4> QED BY <1>0, <3>1, <4>1, <4>2 DEF TypeOK, Pointers
    <3> QED BY <1>0, <2>3, <3>2, <3>4, <3>5 DEF TypeOK, LinkEntry
  <2> QED BY <1>4, <2>1, <2>2, <2>3 DEF Publishing
<1>5. ASSUME NEW t \in Threads, Reading(t) PROVE TypeOK'
  <2>1. CASE FreeHead(t)
    <3>1. first \in Entries /\ count > 0 /\ heap[first].bytes <= bytes
      BY <2>1, HeadCounted DEF IInv, FreeHead, Acknowledged
    <3>2. heap[first] \in Heaps
      BY <1>0, <3>1 DEF TypeOK
    <3> QED BY <1>0, <2>1, <3>1, <3>2 DEF TypeOK, FreeHead, Heaps
  <2>2. CASE EndFreeing(t)
    <3>1. thread' \in [Threads -> Records]
      BY <1>0, <2>2, RecordUpdates DEF TypeOK, EndFreeing, Places
    <3> QED BY <1>0, <2>2, <3>1 DEF TypeOK, EndFreeing, Pointers
  <2>3. CASE ReadReply(t)
    <3>1. PICK reply \in Replies : thread' =
             [thread EXCEPT ![t].at = "unlocks mailbox_lock", ![t].reply = reply]
      <4> DEFINE next == thread[t].kind = "poll"
                 json == IF next THEN IF first # NULL THEN heap[first].revision ELSE 0
                         ELSE latest
                 current == IF next /\ first # NULL THEN heap[first].revision ELSE revision
      <4>1. first # NULL => heap[first].revision \in Nat
        BY <1>0 DEF TypeOK, Pointers, Heaps
      <4>2. json \in Nat /\ current \in Nat
        BY <1>0, <4>1, MailboxAssumption DEF TypeOK
      <4>3. thread' = [thread EXCEPT ![t].at = "unlocks mailbox_lock",
                          ![t].reply = [revision |-> current,
                                        launch |-> IF json # 0 /\ current > thread[t].after
                                                   THEN json ELSE 0]]
        BY <2>3 DEF ReadReply
      <4>4. [revision |-> current, launch |-> IF json # 0 /\ current > thread[t].after
                                             THEN json ELSE 0] \in Replies
        <5> HIDE DEF json, current
        <5> QED BY <4>2 DEF Replies
      <4> QED BY <4>3, <4>4
    <3>2. thread' \in [Threads -> Records]
      BY <1>0, <3>1, RecordUpdates DEF TypeOK, Places
    <3> QED BY <1>0, <2>3, <3>2 DEF TypeOK, ReadReply, listVars
  <2> QED BY <1>5, <2>1, <2>2, <2>3 DEF Reading
<1>6. ASSUME NEW t \in Threads, Locking(t) PROVE TypeOK'
  <2>1. PICK at \in Places : thread' = [thread EXCEPT ![t].at = at]
    BY <1>6 DEF Locking, LockMailbox, UnlockMailbox, Places
  <2>2. thread' \in [Threads -> Records]
    BY <1>0, <2>1, RecordUpdates DEF TypeOK
  <2> QED BY <1>0, <1>6, <2>2 DEF TypeOK, Locking, LockMailbox, UnlockMailbox, listVars
<1> QED
  BY <1>1, <1>2, <1>3, <1>4, <1>5, <1>6 DEF Next

-----------------------------------------------------------------------------
(* One step of a thread and the rest of the invariant                      *)

\* The parts of the invariant that are about the list.
ListInv == Contents /\ Links /\ Bytes

\* A step that neither touches the list nor takes or gives an entry, and that
\* does not end the loop that frees.
LEMMA QuietStep ==
    ASSUME ListInv, TypeOK, UNCHANGED listVars,
           \A t \in Threads : thread'[t].entry = thread[t].entry,
           \A t \in Threads : thread'[t].at = "links" <=> thread[t].at = "links",
           \A t \in Threads : thread[t].at = "frees" => thread'[t].at = "frees"
    PROVE  ListInv'
<1>1. Linked' = Linked
  BY DEF Linked, listVars
<1>2. Oldest' = Oldest
  BY DEF Oldest, listVars
<1>3. \A p, n : PointsTo(p, n)' <=> PointsTo(p, n)
  BY <1>1 DEF PointsTo, listVars
<1>4. Contents'
  BY <1>1, <1>2 DEF ListInv, Contents, listVars
<1>5. Links'
  BY <1>1, <1>2, <1>3 DEF ListInv, Links, listVars
<1>6. Bytes'
  BY <1>1, <1>2 DEF ListInv, Bytes, IsTotal, listVars
<1> QED BY <1>4, <1>5, <1>6 DEF ListInv

\* What holds of a thread still holds after a step of another one that works
\* inside mailbox_lock, or takes it or gives it back, or leaves both it and
\* the list alone.
LEMMA OthersKeep ==
    ASSUME TypeOK, NEW t \in Threads, NEW u \in Threads, u # t, Own(u),
           thread'[u] = thread[u],
           \/ mailboxOwner \in {t, NoThread} /\ mailboxOwner' \in {t, NoThread}
           \/ UNCHANGED <<mailboxOwner, listVars>>
    PROVE  Own(u)'
<1>1. CASE mailboxOwner \in {t, NoThread} /\ mailboxOwner' \in {t, NoThread}
  <2>1. mailboxOwner # u /\ mailboxOwner' # u
    BY <1>1, MailboxAssumption
  <2>2. thread[u].at \notin Inside
    BY <2>1 DEF Own
  <2> QED BY <2>1, <2>2 DEF Own, Inside
<1>2. CASE UNCHANGED <<mailboxOwner, listVars>>
  BY <1>2 DEF Own, listVars
<1> QED BY <1>1, <1>2

\* A thread outside mailbox_lock.
LEMMA OutsideStep ==
    ASSUME IInv, TypeOK', NEW t \in Threads, Connection(t) \/ Computing(t)
    PROVE  (\A u \in Threads : Own(u))' /\ ListInv'
<1>1. /\ TypeOK /\ ListInv /\ \A u \in Threads : Own(u)
      /\ UNCHANGED <<mailboxOwner, listVars>>
      /\ \A u \in Threads : u # t => thread'[u] = thread[u]
  BY DEF IInv, TypeOK, ListInv, Connection, AcceptConnection, Shutdown, Respond,
         Computing, LockCompute, FinishComputation, UnlockCompute
<1>2. /\ thread[t].at \notin Inside /\ thread'[t].at \notin Inside
      /\ thread'[t].entry = NULL /\ thread[t].entry = NULL
      /\ thread'[t].reply \in {NoReply, thread[t].reply}
      /\ thread'[t].at = "wants mailbox_lock" /\ thread'[t].kind = "launch"
            => thread'[t].size \in Sizes
  <2>0. /\ thread[t] \in Records
        /\ thread[t].at # "links" => thread[t].entry = NULL
    BY <1>1 DEF TypeOK, Own
  <2>1. CASE Connection(t)
    <3>1. CASE AcceptConnection(t)
      <4>1. PICK kind \in Kinds, after \in Revisions : thread' = [thread EXCEPT ![t] =
                [Idle EXCEPT !.kind = kind, !.after = after, !.at = FirstStop(kind)]]
        BY <3>1 DEF AcceptConnection
      <4>2. /\ thread'[t].at = FirstStop(kind) /\ thread'[t].entry = NULL
            /\ thread'[t].reply = NoReply /\ thread'[t].kind = kind
        BY <4>1, <1>1 DEF TypeOK, Idle
      <4>3. thread[t].at = "idle"
        BY <3>1 DEF AcceptConnection, At
      <4>4. FirstStop(kind) \notin Inside /\ (kind = "launch" => FirstStop(kind) # "wants mailbox_lock")
        BY DEF FirstStop, Kinds, Inside
      <4> QED BY <2>0, <4>2, <4>3, <4>4 DEF Inside
    <3>2. CASE Shutdown(t)
      BY <3>2, <2>0, <1>1 DEF Shutdown, At, Inside, Own
    <3>3. CASE Respond(t)
      BY <3>3, <2>0, <1>1 DEF Respond, At, TypeOK, Idle, Inside, Own
    <3> QED BY <2>1, <3>1, <3>2, <3>3 DEF Connection
  <2>2. CASE LockCompute(t)
    <3>1. /\ thread'[t].at = "computes" /\ thread'[t].entry = thread[t].entry
          /\ thread'[t].reply = thread[t].reply
      BY <2>2, <1>1, Moved DEF LockCompute
    <3>2. thread[t].at \notin Inside \cup {"links"}
      BY <2>2 DEF LockCompute, At, Inside
    <3> QED BY <2>0, <3>1, <3>2 DEF Inside
  <2>3. CASE FinishComputation(t)
    <3>1. CASE thread' = [thread EXCEPT ![t].at = "unlocks compute_lock"]
      <4>1. /\ thread'[t].at = "unlocks compute_lock" /\ thread'[t].entry = thread[t].entry
            /\ thread'[t].reply = thread[t].reply
        BY <3>1, <1>1, Moved
      <4> QED BY <2>3, <2>0, <4>1 DEF FinishComputation, At, Inside
    <3>2. ASSUME NEW size \in Sizes,
                 thread' = [thread EXCEPT ![t].at = "wants mailbox_lock", ![t].size = size]
          PROVE  /\ thread[t].at \notin Inside /\ thread'[t].at \notin Inside
                 /\ thread'[t].entry = NULL /\ thread[t].entry = NULL
                 /\ thread'[t].reply \in {NoReply, thread[t].reply}
                 /\ thread'[t].at = "wants mailbox_lock" /\ thread'[t].kind = "launch"
                       => thread'[t].size \in Sizes
      <4>1. thread'[t] = [thread[t] EXCEPT !.at = "wants mailbox_lock", !.size = size]
        BY <3>2, <1>1 DEF TypeOK
      <4>2. /\ thread'[t].at = "wants mailbox_lock" /\ thread'[t].size = size
            /\ thread'[t].entry = thread[t].entry /\ thread'[t].reply = thread[t].reply
        BY <2>0, <4>1 DEF Records
      <4> QED BY <2>3, <2>0, <4>2 DEF FinishComputation, At, Inside
    <3> QED BY <2>3, <3>1, <3>2 DEF FinishComputation
  <2>4. CASE UnlockCompute(t)
    <3>1. /\ thread'[t].at = "responds" /\ thread'[t].entry = thread[t].entry
          /\ thread'[t].reply = thread[t].reply
      BY <2>4, <1>1, Moved DEF UnlockCompute
    <3>2. thread[t].at \notin Inside \cup {"links"}
      BY <2>4 DEF UnlockCompute, At, Inside
    <3> QED BY <2>0, <3>1, <3>2 DEF Inside
  <2> QED BY <2>1, <2>2, <2>3, <2>4 DEF Computing
<1>3. Own(t)'
  <2>1. /\ thread'[t].at \notin {"publishes", "links"}
        /\ thread[t].reply.launch # 0 => thread[t].reply.launch = thread[t].reply.revision
    BY <1>1, <1>2 DEF Own, Inside
  <2>2. thread'[t].reply.launch # 0 => thread'[t].reply.launch = thread'[t].reply.revision
    <3>1. CASE thread'[t].reply = NoReply
      BY <3>1 DEF NoReply
    <3>2. CASE thread'[t].reply = thread[t].reply
      BY <3>2, <2>1
    <3> QED BY <1>2, <3>1, <3>2
  <2>3. mailboxOwner' # t
    BY <1>1, <1>2 DEF Own
  <2> QED BY <1>2, <2>1, <2>2, <2>3 DEF Own
<1>4. \A u \in Threads : Own(u)'
  BY <1>1, <1>3, OthersKeep
<1>5. ListInv'
  BY <1>1, <1>2, QuietStep DEF Inside
<1> QED BY <1>4, <1>5

\* A thread takes mailbox_lock or gives it back.
LEMMA LockingStep ==
    ASSUME IInv, TypeOK', NEW t \in Threads, Locking(t)
    PROVE  (\A u \in Threads : Own(u))' /\ ListInv'
<1>1. /\ TypeOK /\ ListInv /\ \A u \in Threads : Own(u)
      /\ UNCHANGED listVars
  BY DEF IInv, ListInv, Locking, LockMailbox, UnlockMailbox
<1>2. PICK at : /\ thread' = [thread EXCEPT ![t].at = at]
                /\ \/ /\ at \in {"publishes", "frees", "reads"}
                      /\ thread[t].at = "wants mailbox_lock"
                      /\ at = "publishes" => thread[t].kind = "launch"
                      /\ mailboxOwner = NoThread /\ mailboxOwner' = t
                   \/ /\ at \in {"unlocks compute_lock", "responds"}
                      /\ thread[t].at = "unlocks mailbox_lock"
                      /\ mailboxOwner' = NoThread
  BY DEF Locking, LockMailbox, UnlockMailbox, At
<1>3. /\ thread'[t].at = at /\ thread'[t].kind = thread[t].kind
      /\ thread'[t].size = thread[t].size /\ thread'[t].entry = thread[t].entry
      /\ thread'[t].reply = thread[t].reply
      /\ \A u \in Threads : u # t => thread'[u] = thread[u]
  BY <1>1, <1>2, Moved
<1>4. mailboxOwner \in {t, NoThread} /\ mailboxOwner' \in {t, NoThread}
  BY <1>1, <1>2 DEF Own, Inside
<1>5. Own(t)'
  <2>1. thread[t].entry = NULL
    BY <1>1, <1>2 DEF Own
  <2>2. thread'[t].at \in Inside <=> mailboxOwner' = t
    BY <1>2, <1>3, MailboxAssumption DEF Inside
  <2> QED BY <1>1, <1>2, <1>3, <2>1, <2>2 DEF Own
<1>6. \A u \in Threads : Own(u)'
  BY <1>1, <1>3, <1>4, <1>5, OthersKeep
<1>7. ListInv'
  <2>1. /\ \A u \in Threads : thread'[u].entry = thread[u].entry
        /\ \A u \in Threads : thread'[u].at = "links" <=> thread[u].at = "links"
        /\ \A u \in Threads : thread[u].at = "frees" => thread'[u].at = "frees"
    BY <1>2, <1>3
  <2> QED BY <1>1, <2>1, QuietStep
<1> QED BY <1>6, <1>7

\* A publisher that is refused, or that fills an entry, or that links it.
LEMMA RefuseStep ==
    ASSUME IInv, TypeOK', NEW t \in Threads, RefuseLaunch(t)
    PROVE  (\A u \in Threads : Own(u))' /\ ListInv'
<1>1. /\ TypeOK /\ ListInv /\ \A u \in Threads : Own(u)
      /\ UNCHANGED <<mailboxOwner, listVars>>
      /\ thread[t].at = "publishes"
      /\ thread' = [thread EXCEPT ![t].at = "unlocks mailbox_lock"]
  BY DEF IInv, ListInv, RefuseLaunch, At
<1>2. /\ thread'[t].at = "unlocks mailbox_lock" /\ thread'[t].kind = thread[t].kind
      /\ thread'[t].entry = thread[t].entry /\ thread'[t].reply = thread[t].reply
      /\ \A u \in Threads : u # t => thread'[u] = thread[u]
  BY <1>1, Moved
<1>3. Own(t)'
  BY <1>1, <1>2 DEF Own, Inside
<1>4. \A u \in Threads : Own(u)'
  BY <1>1, <1>2, <1>3, OthersKeep
<1>5. ListInv'
  <2>1. /\ \A u \in Threads : thread'[u].entry = thread[u].entry
        /\ \A u \in Threads : thread'[u].at = "links" <=> thread[u].at = "links"
        /\ \A u \in Threads : thread[u].at = "frees" => thread'[u].at = "frees"
    BY <1>1, <1>2
  <2> QED BY <1>1, <2>1, QuietStep
<1> QED BY <1>4, <1>5

\* Only one thread is inside mailbox_lock.
LEMMA Alone ==
    ASSUME \A u \in Threads : Own(u), NEW t \in Threads, thread[t].at \in Inside
    PROVE  /\ mailboxOwner = t
           /\ \A u \in Threads : u # t => thread[u].at \notin Inside /\ thread[u].entry = NULL
BY DEF Own, Inside

\* A publisher fills an entry: it is allocated, but not yet in the list.
LEMMA FillStep ==
    ASSUME IInv, TypeOK', NEW t \in Threads, FillEntry(t)
    PROVE  (\A u \in Threads : Own(u))' /\ ListInv'
<1>1. /\ TypeOK /\ ListInv /\ Contents /\ Links /\ Bytes /\ \A u \in Threads : Own(u)
      /\ thread[t].at = "publishes"
      /\ UNCHANGED <<mailboxOwner, first, last, count, bytes, latest>>
      /\ revision' = revision + 1
      /\ count < MaxCount
  BY MailboxAssumption DEF IInv, ListInv, FillEntry, At, Full, TypeOK
<1>2. PICK e \in Entries \ allocated :
         /\ allocated' = allocated \cup {e}
         /\ heap' = [heap EXCEPT ![e] =
               [revision |-> revision + 1, bytes |-> thread[t].size, next |-> NULL]]
         /\ thread' = [thread EXCEPT ![t].at = "links", ![t].entry = e]
  BY DEF FillEntry
<1>3. /\ thread'[t].at = "links" /\ thread'[t].entry = e
      /\ thread'[t].reply = thread[t].reply
      /\ \A u \in Threads : u # t => thread'[u] = thread[u]
  <2>1. thread[t] \in Records /\ thread'[t] = [thread[t] EXCEPT !.at = "links", !.entry = e]
    BY <1>1, <1>2 DEF TypeOK
  <2> QED BY <2>1, <1>1, <1>2 DEF Records, TypeOK
<1>4. /\ mailboxOwner = t
      /\ \A u \in Threads : u # t => thread[u].at \notin Inside /\ thread[u].entry = NULL
  BY <1>1, Alone DEF Inside
<1>5. \A u \in Threads : thread[u].entry = NULL
  BY <1>1, <1>4 DEF Own
<1>6. latest = revision
  BY <1>1, <1>4 DEF Contents, Inside
<1>7. /\ heap'[e] = [revision |-> revision + 1, bytes |-> thread[t].size, next |-> NULL]
      /\ \A d \in Entries : d # e => heap'[d] = heap[d]
  BY <1>1, <1>2 DEF TypeOK
<1>8. Own(t)'
  <2>1. /\ thread'[t].entry \in allocated' /\ count' < MaxCount
        /\ heap'[thread'[t].entry].revision = revision' /\ latest' + 1 = revision'
        /\ heap'[thread'[t].entry].next = NULL
    BY <1>1, <1>2, <1>3, <1>6, <1>7
  <2>2. mailboxOwner' = t
    BY <1>1, <1>4
  <2> QED BY <1>1, <1>3, <2>1, <2>2 DEF Own, Inside
<1>9. \A u \in Threads : Own(u)'
  BY <1>1, <1>3, <1>4, <1>8, OthersKeep
<1>10. Linked' = Linked /\ Linked = allocated /\ e \notin Linked /\ Linked \subseteq Entries
  BY <1>1, <1>2, <1>3, <1>4, <1>5, MailboxAssumption DEF Linked, TypeOK
<1>11. Oldest' = Oldest /\ \A d \in Linked : heap'[d] = heap[d]
  BY <1>1, <1>7, <1>10 DEF Oldest
<1>12. \A p, n : PointsTo(p, n)' <=> PointsTo(p, n)
  BY <1>1, <1>10, <1>11 DEF PointsTo
<1>13. Contents'
  <2>1. ~ \A u \in Threads : thread'[u].at # "links"
    BY <1>3
  <2> QED BY <1>1, <1>10, <1>11, <2>1 DEF Contents
<1>14. Links'
  BY <1>1, <1>4, <1>10, <1>11, <1>12 DEF Links, Inside
<1>15. Bytes'
  BY <1>1, <1>10, <1>11 DEF Bytes, IsTotal
<1> QED BY <1>9, <1>13, <1>14, <1>15 DEF ListInv

\* A publisher links its entry at the back: the list is one launch longer.
LEMMA LinkStep ==
    ASSUME IInv, TypeOK', NEW t \in Threads, LinkEntry(t)
    PROVE  (\A u \in Threads : Own(u))' /\ ListInv'
<1> DEFINE e == thread[t].entry
<1>1. /\ TypeOK /\ ListInv /\ Contents /\ Links /\ Bytes /\ \A u \in Threads : Own(u)
      /\ thread[t].at = "links"
      /\ UNCHANGED <<mailboxOwner, revision, allocated>>
      /\ last' = e /\ count' = count + 1 /\ bytes' = bytes + heap[e].bytes
      /\ latest' = heap[e].revision
  BY DEF IInv, ListInv, LinkEntry, At
<1>2. /\ e \in allocated /\ e \in Entries /\ e # NULL /\ heap[e].revision = revision
      /\ heap[e].next = NULL /\ latest + 1 = revision /\ latest' = latest + 1
      /\ count < MaxCount /\ count \in Nat /\ latest \in Nat /\ heap[e].bytes \in Nat
      /\ bytes \in Nat
  <2>1. /\ e \in allocated /\ heap[e].revision = revision
        /\ heap[e].next = NULL /\ latest + 1 = revision /\ count < MaxCount
    BY <1>1 DEF Own
  <2>2. heap[e] \in Heaps
    BY <1>1, <2>1 DEF TypeOK
  <2> QED BY <1>1, <2>1, <2>2, MailboxAssumption DEF TypeOK, Heaps
<1>3. /\ thread'[t].at = "unlocks mailbox_lock" /\ thread'[t].entry = NULL
      /\ thread'[t].reply.launch = 0
      /\ \A u \in Threads : u # t => thread'[u] = thread[u]
  <2>1. /\ thread[t] \in Records
        /\ thread'[t] = [thread[t] EXCEPT !.at = "unlocks mailbox_lock", !.entry = NULL,
                            !.reply = [revision |-> heap[e].revision, launch |-> 0]]
    BY <1>1 DEF TypeOK, LinkEntry
  <2>2. \A u \in Threads : u # t => thread'[u] = thread[u]
    BY <1>1 DEF TypeOK, LinkEntry
  <2> QED BY <2>1, <2>2 DEF Records
<1>4. /\ mailboxOwner = t
      /\ \A u \in Threads : u # t => thread[u].at \notin Inside /\ thread[u].entry = NULL
  BY <1>1, Alone DEF Inside
<1>5. Own(t)'
  BY <1>1, <1>3, <1>4 DEF Own, Inside
<1>6. \A u \in Threads : Own(u)'
  BY <1>1, <1>3, <1>4, <1>5, OthersKeep
<1>7. /\ Linked' = allocated /\ Linked = allocated \ {e} /\ Linked \subseteq Entries
      /\ Linked' = Linked \cup {e}
  <2>1. Linked = allocated \ {e}
    BY <1>1, <1>4, MailboxAssumption DEF Linked, TypeOK
  <2>2. Linked' = allocated
    BY <1>1, <1>3, <1>4, MailboxAssumption DEF Linked, TypeOK
  <2> QED BY <1>1, <1>2, <2>1, <2>2 DEF TypeOK
<1>8. Oldest' = Oldest
  BY <1>1, <1>2 DEF Oldest
<1>9. /\ \A d \in Entries : heap'[d].revision = heap[d].revision
      /\ \A d \in Entries : heap'[d].bytes = heap[d].bytes
      /\ \A d \in Entries : heap'[d].next = IF d = last THEN e ELSE heap[d].next
  <2>1. CASE last # NULL
    <3>1. /\ last \in Entries /\ heap[last] \in Heaps
          /\ heap'[last] = [heap[last] EXCEPT !.next = e]
          /\ \A d \in Entries : d # last => heap'[d] = heap[d]
      BY <1>1, <2>1 DEF TypeOK, LinkEntry, Pointers
    <3> QED BY <3>1 DEF Heaps
  <2>2. CASE last = NULL
    BY <1>1, <2>2, MailboxAssumption DEF LinkEntry
  <2> QED BY <2>1, <2>2
<1> HIDE DEF e
<1>10. /\ \A d \in Linked : d # e /\ heap[d].revision \in Oldest..latest
       /\ Oldest \in Int /\ Oldest = latest - count + 1
  BY <1>1, <1>2, <1>7 DEF Contents, Oldest
<1>11. Contents'
  <2>1. \A n \in Oldest..latest' : \E d \in Linked' : heap'[d].revision = n
    <3>1. ASSUME NEW n \in Oldest..latest' PROVE \E d \in Linked' : heap'[d].revision = n
      <4>1. CASE n = latest'
        BY <4>1, <1>1, <1>2, <1>7, <1>9
      <4>2. CASE n # latest'
        <5>1. n \in Oldest..latest
          BY <4>2, <1>2, <1>10
        <5>2. PICK d \in Linked : heap[d].revision = n
          BY <5>1, <1>1 DEF Contents
        <5> QED BY <5>2, <1>7, <1>9
      <4> QED BY <4>1, <4>2
    <3> QED BY <3>1
  <2>2. \A d \in Linked' : heap'[d].revision \in Oldest..latest'
    BY <1>1, <1>2, <1>7, <1>9, <1>10
  <2>3. \A c, d \in Linked' : heap'[c].revision = heap'[d].revision => c = d
    BY <1>1, <1>2, <1>7, <1>9, <1>10 DEF Contents
  <2>4. Oldest' >= 1 /\ count' <= MaxCount /\ latest' = revision'
    BY <1>1, <1>2, <1>8, MailboxAssumption DEF Contents
  <2> QED BY <1>8, <2>1, <2>2, <2>3, <2>4 DEF Contents
<1>12. CASE count = 0
  <2>1. Linked = {} /\ last = NULL /\ Oldest = latest'
    <3>1. last = NULL
      BY <1>1, <1>4, <1>12 DEF Links, Inside
    <3> QED BY <3>1, <1>2, <1>10, <1>12
  <2>2. first' = e
    BY <2>1, <1>1 DEF LinkEntry, e
  <2>3. heap' = heap
    BY <2>1 DEF LinkEntry
  <2>4. Links'
    BY <2>1, <2>2, <2>3, <1>1, <1>2, <1>7, <1>8 DEF Links, PointsTo
  <2>5. Bytes'
    <3>0. PICK total : total = [d \in Linked' |-> heap[d].bytes]
      OBVIOUS
    <3>1. total \in [Linked' -> Nat]
      BY <3>0, <2>1, <1>2, <1>7
    <3>2. bytes = 0
      BY <1>1, <1>12 DEF Bytes, IsTotal
    <3>3. IsTotal(total)'
      BY <3>0, <3>2, <2>1, <2>3, <1>1, <1>2, <1>7, <1>8 DEF IsTotal
    <3> QED BY <3>1, <3>3 DEF Bytes
  <2> QED BY <1>6, <1>11, <2>4, <2>5 DEF ListInv
<1>13. CASE count > 0
  <2>1. /\ last \in Linked /\ heap[last].revision = latest /\ last # NULL
        /\ Oldest <= latest /\ first \in Linked /\ heap[first].revision = Oldest
    BY <1>1, <1>2, <1>7, <1>10, <1>13, MailboxAssumption DEF Links, PointsTo
  <2>2. first' = first
    BY <2>1 DEF LinkEntry
  <2>3. Links'
    <3>1. PointsTo(first, Oldest)'
      BY <2>1, <2>2, <1>2, <1>7, <1>8, <1>9, <1>10 DEF PointsTo
    <3>2. ASSUME NEW d \in Linked' PROVE PointsTo(heap[d].next, heap[d].revision + 1)'
      <4>1. CASE d = e
        BY <4>1, <2>1, <1>1, <1>2, <1>9, <1>10 DEF PointsTo
      <4>2. CASE d = last
        BY <4>2, <2>1, <1>1, <1>2, <1>7, <1>9 DEF PointsTo
      <4>3. CASE d # e /\ d # last
        <5>1. d \in Linked /\ heap[d].revision \in Oldest..latest /\ heap[d].revision # latest
          BY <4>3, <2>1, <1>1, <1>7, <1>10 DEF Contents
        <5>2. heap[d].next \in Linked /\ heap[heap[d].next].revision = heap[d].revision + 1
          BY <5>1, <1>1, <1>2, <1>10 DEF Links, PointsTo
        <5> QED BY <4>3, <5>1, <5>2, <1>2, <1>7, <1>9, <1>10 DEF PointsTo
      <4> QED BY <4>1, <4>2, <4>3
    <3>3. last' \in Linked' /\ heap'[last'].revision = latest' /\ count' # 0
      BY <1>1, <1>2, <1>7, <1>9
    <3> QED BY <3>1, <3>2, <3>3 DEF Links
  <2>4. Bytes'
    <3>1. PICK total \in [Linked -> Nat] : IsTotal(total)
      BY <1>1 DEF Bytes
    <3>0. PICK new : new = [d \in Linked' |-> IF d = e THEN bytes + heap[e].bytes ELSE total[d]]
      OBVIOUS
    <3>2. new \in [Linked' -> Nat]
      BY <3>0, <3>1, <1>2, <1>7
    <3>3. total[last] = bytes /\ \A d \in Linked : total[d] <= bytes /\ total[d] \in Nat
      <4>1. \A d \in Linked : heap[d].revision <= heap[last].revision
        BY <2>1, <1>2, <1>10
      <4> QED BY <4>1, <3>1, <2>1 DEF IsTotal
    <3>4. /\ new[e] = bytes + heap[e].bytes
          /\ \A d \in Linked : new[d] = total[d]
      BY <3>0, <1>7, <1>10
    <3>5. IsTotal(new)'
      <4>1. \A d \in Linked' : heap'[d].revision = Oldest' => new[d] = heap'[d].bytes
        BY <3>1, <3>4, <2>1, <1>2, <1>7, <1>8, <1>9, <1>10 DEF IsTotal
      <4>2. ASSUME NEW c \in Linked', NEW d \in Linked', heap'[d].revision = heap'[c].revision + 1
            PROVE  new[d] = new[c] + heap'[d].bytes
        <5>1. heap[d].revision = heap[c].revision + 1 /\ c \in Entries /\ d \in Entries
          BY <4>2, <1>2, <1>7, <1>9
        <5>2. CASE d = e
          <6>1. c \in Linked /\ heap[c].revision = latest
            BY <5>1, <5>2, <1>2, <1>7, <1>10
          <6>2. c = last
            BY <6>1, <2>1, <1>1 DEF Contents
          <6> QED BY <6>2, <5>2, <3>3, <3>4, <2>1, <1>2, <1>9
        <5>3. CASE d # e
          <6>1. c \in Linked /\ d \in Linked
            BY <5>1, <5>3, <1>2, <1>7, <1>10
          <6> QED BY <6>1, <5>1, <3>1, <3>4, <1>9 DEF IsTotal
        <5> QED BY <5>2, <5>3
      <4>3. ASSUME NEW c \in Linked', NEW d \in Linked', heap'[c].revision <= heap'[d].revision
            PROVE  new[c] <= new[d]
        <5>1. heap[c].revision <= heap[d].revision
          BY <4>3, <1>7, <1>2, <1>9
        <5>2. CASE d = e
          BY <5>2, <3>3, <3>4, <1>2, <1>7
        <5>3. CASE d # e
          <6>1. c \in Linked /\ d \in Linked
            BY <5>1, <5>3, <1>2, <1>7, <1>10
          <6> QED BY <6>1, <5>1, <3>1, <3>4 DEF IsTotal
        <5> QED BY <5>2, <5>3
      <4>4. \A d \in Linked' : heap'[d].revision = latest' => new[d] = bytes'
        BY <3>4, <1>1, <1>2, <1>7, <1>9, <1>10
      <4>5. count' # 0
        BY <1>1, <1>2
      <4> QED BY <4>1, <4>2, <4>3, <4>4, <4>5 DEF IsTotal
    <3> QED BY <3>2, <3>5 DEF Bytes
  <2> QED BY <1>6, <1>11, <2>3, <2>4 DEF ListInv
<1> QED BY <1>2, <1>12, <1>13

\* A reader frees the head of the list.
LEMMA FreeStep ==
    ASSUME IInv, TypeOK', NEW t \in Threads, FreeHead(t)
    PROVE  (\A u \in Threads : Own(u))' /\ ListInv'
<1>0. PICK h : h = first
  OBVIOUS
<1>1. /\ TypeOK /\ Contents /\ Links /\ Bytes /\ \A u \in Threads : Own(u)
      /\ thread[t].at = "frees"
      /\ UNCHANGED <<mailboxOwner, revision, heap, latest, last>> /\ thread' = thread
      /\ first' = heap[h].next /\ count' = count - 1 /\ bytes' = bytes - heap[h].bytes
      /\ allocated' = allocated \ {h}
  BY <1>0 DEF IInv, FreeHead, At
<1>2. /\ h \in Linked /\ h \in Entries /\ count > 0 /\ heap[h].bytes <= bytes
  BY <1>0, HeadCounted DEF IInv, FreeHead, Acknowledged
<1>3. /\ count \in Nat /\ latest \in Nat /\ bytes \in Nat /\ heap[h].bytes \in Nat
      /\ Linked \subseteq Entries /\ NULL \notin Linked
      /\ \A d \in Linked : heap[d].revision \in Nat /\ heap[d].bytes \in Nat
  <2>1. Linked \subseteq Entries
    BY <1>1 DEF TypeOK, Linked
  <2>2. \A d \in Entries : heap[d].revision \in Nat /\ heap[d].bytes \in Nat
    BY <1>1 DEF TypeOK, Heaps
  <2> QED BY <1>1, <1>2, <2>1, <2>2, MailboxAssumption DEF TypeOK
<1>4. Linked' = Linked \ {h}
  BY <1>1 DEF Linked
<1>5. /\ Oldest = latest - count + 1 /\ Oldest' = Oldest + 1 /\ Oldest <= latest
      /\ Oldest \in Int /\ Oldest >= 1
  BY <1>1, <1>2, <1>3 DEF Oldest, Contents
<1>6. heap[h].revision = Oldest
  BY <1>0, <1>1, <1>5 DEF Links, PointsTo
<1>7. /\ \A d \in Linked : heap[d].revision \in Oldest..latest
      /\ \A d \in Linked' : d \in Linked /\ heap[d].revision \in (Oldest + 1)..latest
  BY <1>1, <1>2, <1>4, <1>5, <1>6 DEF Contents
<1>8. Own(t)'
  BY <1>1, Alone DEF Own, Inside
<1>9. \A u \in Threads : Own(u)'
  <2>1. mailboxOwner = t /\ \A u \in Threads : thread'[u] = thread[u]
    BY <1>1, Alone DEF Inside
  <2> QED BY <1>1, <1>8, <2>1, OthersKeep
<1>10. Contents'
  <2>1. \A n \in Oldest'..latest' : \E d \in Linked' : heap'[d].revision = n
    <3>1. ASSUME NEW n \in (Oldest + 1)..latest PROVE \E d \in Linked' : heap[d].revision = n
      <4>1. n \in Oldest..latest /\ n # Oldest
        BY <1>5
      <4>2. PICK d \in Linked : heap[d].revision = n
        BY <4>1, <1>1 DEF Contents
      <4> QED BY <4>1, <4>2, <1>4, <1>6
    <3> QED BY <3>1, <1>1, <1>5
  <2>2. \A c, d \in Linked' : heap'[c].revision = heap'[d].revision => c = d
    BY <1>1, <1>7 DEF Contents
  <2>3. Oldest' >= 1 /\ count' <= MaxCount
    BY <1>1, <1>3, <1>5, MailboxAssumption DEF Contents
  <2>4. (\A u \in Threads : thread'[u].at # "links") => latest' = revision'
    BY <1>1 DEF Contents
  <2> QED BY <1>1, <1>5, <1>7, <2>1, <2>2, <2>3, <2>4 DEF Contents
<1>11. Links'
  <2>1. ASSUME NEW d \in Linked PROVE PointsTo(heap[d].next, heap[d].revision + 1)'
    <3>1. PointsTo(heap[d].next, heap[d].revision + 1)
      BY <1>1 DEF Links
    <3>2. heap[d].revision + 1 # Oldest
      BY <1>5, <1>7
    <3> QED BY <3>1, <3>2, <1>1, <1>4, <1>6 DEF PointsTo
  <2>2. PointsTo(first, Oldest)'
    <3>1. PointsTo(heap[h].next, heap[h].revision + 1)'
      BY <2>1, <1>2
    <3> QED BY <3>1, <1>1, <1>5, <1>6 DEF PointsTo
  <2>3. count' > 0 => last' \in Linked' /\ heap'[last'].revision = latest'
    BY <1>1, <1>2, <1>3, <1>4, <1>5, <1>6 DEF Links
  <2>4. ~ \A u \in Threads : thread'[u].at # "frees"
    BY <1>1
  <2> QED BY <1>7, <2>1, <2>2, <2>3, <2>4 DEF Links
<1>12. Bytes'
  <2>1. PICK total \in [Linked -> Nat] : IsTotal(total)
    BY <1>1 DEF Bytes
  <2>2. total[h] = heap[h].bytes /\ \A d \in Linked : total[h] <= total[d]
    BY <1>2, <1>5, <1>6, <1>7, <2>1 DEF IsTotal
  <2>3. PICK new : new = [d \in Linked' |-> total[d] - heap[h].bytes]
    OBVIOUS
  <2>4. \A d \in Linked' : d \in Linked /\ new[d] = total[d] - heap[h].bytes /\ new[d] \in Nat
    BY <1>3, <1>4, <2>1, <2>2, <2>3
  <2>5. new \in [Linked' -> Nat]
    BY <2>3, <2>4
  <2>6. \A d \in Linked' : heap'[d].revision = Oldest' => new[d] = heap'[d].bytes
    <3>1. ASSUME NEW d \in Linked', heap[d].revision = Oldest + 1 PROVE new[d] = heap[d].bytes
      <4>1. total[d] = total[h] + heap[d].bytes
        BY <3>1, <1>2, <1>6, <1>7, <2>1 DEF IsTotal
      <4> QED BY <4>1, <1>3, <2>2, <2>4, <3>1
    <3> QED BY <3>1, <1>1, <1>5
  <2>7. ASSUME NEW c \in Linked', NEW d \in Linked', heap'[d].revision = heap'[c].revision + 1
        PROVE  new[d] = new[c] + heap'[d].bytes
    <3>1. total[d] = total[c] + heap[d].bytes
      BY <2>1, <2>4, <2>7, <1>1 DEF IsTotal
    <3> QED BY <3>1, <2>1, <2>4, <1>1, <1>3
  <2>8. ASSUME NEW c \in Linked', NEW d \in Linked', heap'[c].revision <= heap'[d].revision
        PROVE  new[c] <= new[d]
    <3>1. total[c] <= total[d]
      BY <2>1, <2>4, <2>8, <1>1 DEF IsTotal
    <3> QED BY <3>1, <2>1, <2>4, <1>3
  <2>9. \A d \in Linked' : heap'[d].revision = latest' => new[d] = bytes'
    BY <2>1, <2>4, <1>1 DEF IsTotal
  <2>10. count' = 0 => bytes' = 0
    <3>1. count' = 0 => heap[h].revision = latest
      BY <1>1, <1>3, <1>5, <1>6
    <3> QED BY <3>1, <2>1, <2>2, <1>1, <1>2, <1>3 DEF IsTotal
  <2>11. IsTotal(new)'
    BY <2>6, <2>7, <2>8, <2>9, <2>10 DEF IsTotal
  <2> QED BY <2>5, <2>11 DEF Bytes
<1> QED BY <1>9, <1>10, <1>11, <1>12 DEF ListInv

\* A reader has freed what was acknowledged: an emptied list gets no tail.
LEMMA EndFreeingStep ==
    ASSUME IInv, TypeOK', NEW t \in Threads, EndFreeing(t)
    PROVE  (\A u \in Threads : Own(u))' /\ ListInv'
<1>1. /\ TypeOK /\ Contents /\ Links /\ Bytes /\ \A u \in Threads : Own(u)
      /\ thread[t].at = "frees"
      /\ UNCHANGED <<mailboxOwner, revision, heap, allocated, first, count, bytes, latest>>
      /\ last' = IF first = NULL THEN NULL ELSE last
      /\ thread' = [thread EXCEPT ![t].at = "reads"]
  BY DEF IInv, EndFreeing, At
<1>2. /\ thread'[t].at = "reads" /\ thread'[t].kind = thread[t].kind
      /\ thread'[t].entry = thread[t].entry /\ thread'[t].reply = thread[t].reply
      /\ \A u \in Threads : u # t => thread'[u] = thread[u]
  BY <1>1, Moved
<1>3. mailboxOwner = t
  BY <1>1, Alone DEF Inside
<1>4. Own(t)'
  BY <1>1, <1>2, <1>3 DEF Own, Inside
<1>5. \A u \in Threads : Own(u)'
  BY <1>1, <1>2, <1>3, <1>4, OthersKeep
<1>6. /\ Linked' = Linked /\ Oldest' = Oldest /\ Linked \subseteq Entries
      /\ \A p, n : PointsTo(p, n)' <=> PointsTo(p, n)
  <2>1. Linked' = Linked /\ Linked \subseteq Entries
    BY <1>1, <1>2 DEF Linked, TypeOK
  <2> QED BY <2>1, <1>1 DEF Oldest, PointsTo
<1>7. /\ count = 0 => first = NULL
      /\ count > 0 => first # NULL
  BY <1>1, <1>6, MailboxAssumption DEF Contents, Links, PointsTo, Oldest, TypeOK
<1>8. Contents'
  BY <1>1, <1>2, <1>6 DEF Contents
<1>9. Links'
  BY <1>1, <1>6, <1>7 DEF Links
<1>10. Bytes'
  BY <1>1, <1>6 DEF Bytes, IsTotal
<1> QED BY <1>5, <1>8, <1>9, <1>10 DEF ListInv

\* A reader has made its reply.
LEMMA ReadStep ==
    ASSUME IInv, TypeOK', NEW t \in Threads, ReadReply(t)
    PROVE  (\A u \in Threads : Own(u))' /\ ListInv'
<1> DEFINE next == thread[t].kind = "poll"
           json == IF next THEN IF first # NULL THEN heap[first].revision ELSE 0
                   ELSE latest
           current == IF next /\ first # NULL THEN heap[first].revision ELSE revision
<1>1. /\ TypeOK /\ ListInv /\ Contents /\ \A u \in Threads : Own(u)
      /\ thread[t].at = "reads"
      /\ UNCHANGED <<mailboxOwner, listVars>>
      /\ thread' = [thread EXCEPT ![t].at = "unlocks mailbox_lock",
                       ![t].reply = [revision |-> current,
                                     launch |-> IF json # 0 /\ current > thread[t].after
                                                THEN json ELSE 0]]
  BY DEF IInv, ListInv, ReadReply, At
<1>2. /\ mailboxOwner = t
      /\ \A u \in Threads : thread[u].at # "links"
  BY <1>1, Alone DEF Inside
<1>3. json # 0 => json = current
  BY <1>1, <1>2 DEF Contents
<1> HIDE DEF json, current
<1>4. /\ thread'[t].at = "unlocks mailbox_lock" /\ thread'[t].entry = thread[t].entry
      /\ thread'[t].reply.launch # 0 => thread'[t].reply.launch = thread'[t].reply.revision
      /\ \A u \in Threads : u # t => thread'[u] = thread[u]
  <2>1. /\ thread[t] \in Records
        /\ thread'[t] = [thread[t] EXCEPT !.at = "unlocks mailbox_lock",
                            !.reply = [revision |-> current,
                                       launch |-> IF json # 0 /\ current > thread[t].after
                                                  THEN json ELSE 0]]
        /\ \A u \in Threads : u # t => thread'[u] = thread[u]
    BY <1>1 DEF TypeOK
  <2>2. /\ thread'[t].at = "unlocks mailbox_lock" /\ thread'[t].entry = thread[t].entry
        /\ thread'[t].reply = [revision |-> current,
                               launch |-> IF json # 0 /\ current > thread[t].after
                                          THEN json ELSE 0]
    BY <2>1 DEF Records
  <2> QED BY <2>1, <2>2, <1>3
<1>5. Own(t)'
  BY <1>1, <1>2, <1>4 DEF Own, Inside
<1>6. \A u \in Threads : Own(u)'
  BY <1>1, <1>2, <1>4, <1>5, OthersKeep
<1>7. ListInv'
  <2>1. /\ \A u \in Threads : thread'[u].entry = thread[u].entry
        /\ \A u \in Threads : thread'[u].at = "links" <=> thread[u].at = "links"
        /\ \A u \in Threads : thread[u].at = "frees" => thread'[u].at = "frees"
    BY <1>1, <1>4
  <2> QED BY <1>1, <2>1, QuietStep
<1> QED BY <1>6, <1>7

-----------------------------------------------------------------------------
(* The invariant                                                           *)

\* The empty mailbox satisfies the invariant.
LEMMA Starts == Init => IInv
<1> SUFFICES ASSUME Init PROVE IInv
  OBVIOUS
<1>1. TypeOK
  <2>1. thread \in [Threads -> Records]
    BY IdleTyped DEF Init
  <2>2. heap \in [Entries -> Heaps]
    <3>1. [revision |-> 0, bytes |-> 0, next |-> NULL] \in Heaps
      BY DEF Heaps, Pointers
    <3> QED BY <3>1 DEF Init
  <2> QED BY <2>1, <2>2, MailboxAssumption DEF Init, TypeOK, Pointers
<1>2. \A t \in Threads : Own(t)
  BY MailboxAssumption DEF Init, Own, Idle, NoReply, Inside
<1>3. Linked = {} /\ Oldest = 1
  BY DEF Init, Linked, Oldest
<1>4. Contents
  BY <1>3, MailboxAssumption DEF Init, Contents
<1>5. Links
  BY <1>3 DEF Init, Links, PointsTo
<1>6. Bytes
  <2>1. PICK total : total = [e \in Linked |-> 0]
    OBVIOUS
  <2>2. total \in [Linked -> Nat] /\ bytes = 0
    BY <2>1 DEF Init
  <2>3. IsTotal(total)
    BY <2>2, <1>3 DEF IsTotal
  <2> QED BY <2>2, <2>3 DEF Bytes
<1> QED BY <1>1, <1>2, <1>4, <1>5, <1>6 DEF IInv

\* Every step of every thread keeps the invariant.
LEMMA Step == IInv /\ [Next]_vars => IInv'
<1> SUFFICES ASSUME IInv, [Next]_vars PROVE IInv'
  OBVIOUS
<1>1. TypeOK'
  BY Typing
<1>2. CASE UNCHANGED vars
  <2>1. ListInv'
    <3>1. UNCHANGED listVars /\ thread' = thread
      BY <1>2 DEF vars
    <3> QED BY <3>1, QuietStep DEF IInv, ListInv
  <2>2. (\A t \in Threads : Own(t))'
    BY <1>2 DEF IInv, Own, vars, listVars
  <2> QED BY <1>1, <2>1, <2>2 DEF IInv, ListInv
<1>3. CASE Next
  <2>1. PICK t \in Threads :
           Connection(t) \/ Computing(t) \/ Publishing(t) \/ Reading(t) \/ Locking(t)
    BY <1>3 DEF Next
  <2>2. (\A u \in Threads : Own(u))' /\ ListInv'
    BY <1>1, <2>1, OutsideStep, LockingStep, RefuseStep, FillStep, LinkStep, FreeStep,
       EndFreeingStep, ReadStep DEF Publishing, Reading
  <2> QED BY <1>1, <2>2 DEF IInv, ListInv
<1> QED BY <1>2, <1>3

\* The inductive invariant holds throughout: threads, lock, list and counters
\* of publish() and read_mailbox() fit together at every step.
THEOREM MailboxInvariant == Spec => []IInv
<1>1. IInv /\ UNCHANGED vars => IInv'
  BY Step
<1> QED BY Starts, Step, PTL DEF Spec

\* publish() and read_mailbox() never write through a pointer to a freed entry.
THEOREM FreedNeverTouched == Spec => []NoFreedEntryTouched
<1>1. IInv => NoFreedEntryTouched
  <2> SUFFICES ASSUME IInv, NEW t \in Threads
               PROVE  /\ thread[t].at = "links" => last = NULL \/ last \in allocated
                      /\ thread[t].at = "frees" => first = NULL \/ first \in allocated
    BY DEF NoFreedEntryTouched
  <2>1. first = NULL \/ first \in allocated
    BY DEF IInv, Links, PointsTo, Linked
  <2>2. ASSUME thread[t].at = "links" PROVE last = NULL \/ last \in allocated
    <3>1. \A u \in Threads : thread[u].at # "frees"
      BY <2>2, Alone DEF IInv, Inside
    <3>2. count \in Nat
      BY DEF IInv, TypeOK
    <3> QED BY <3>1, <3>2 DEF IInv, Links, Linked
  <2> QED BY <2>1, <2>2
<1> QED BY <1>1, MailboxInvariant, PTL

\* The launch in a reply of read_mailbox() is the one whose revision it names,
\* so a page that acknowledges the revision acknowledges what it was given.
THEOREM ReplyNamed == Spec => []ReplyNamesItsLaunch
<1>1. IInv => ReplyNamesItsLaunch
  BY DEF IInv, Own, ReplyNamesItsLaunch
<1> QED BY <1>1, MailboxInvariant, PTL

-----------------------------------------------------------------------------
(* The list as a sequence                                                  *)

\* The launch entry n places from the front, when the list has one.
EntryAt(n) == CHOOSE e \in Linked : heap[e].revision = Oldest + n - 1

\* There is an entry at every place of the list.
LEMMA Nth ==
    ASSUME TypeOK, Contents, NEW n \in 1..count
    PROVE  EntryAt(n) \in Linked /\ heap[EntryAt(n)].revision = Oldest + n - 1
<1>1. Oldest + n - 1 \in Oldest..latest
  BY DEF TypeOK, Oldest
<1>2. \E e \in Linked : heap[e].revision = Oldest + n - 1
  BY <1>1 DEF Contents
<1> QED BY <1>2 DEF EntryAt

\* The first n entries of the list, or all of them, and the step of Chain
\* that goes on to the next.
Prefix(n) == [i \in 1..(IF n <= count THEN n ELSE count) |-> EntryAt(i)]

Longer(seen) ==
    LET next == IF seen = <<>> THEN first ELSE heap[seen[Len(seen)]].next
    IN  IF next = NULL THEN seen ELSE Append(seen, next)

\* Following `next` from launch_first reaches every entry of the list once,
\* in the order the launches were accepted, and stops.
LEMMA ChainIsList ==
    ASSUME TypeOK, Contents, Links
    PROVE  Chain = [i \in 1..count |-> EntryAt(i)]
<1> DEFINE C == Cardinality(Entries)
<1>1. C \in Nat /\ count \in Nat /\ count < C /\ latest \in Nat /\ Oldest = latest - count + 1
  BY MailboxAssumption, FS_CardinalityType DEF TypeOK, Contents, Oldest
<1>2. \A n \in 1..count :
         /\ EntryAt(n) \in Linked /\ heap[EntryAt(n)].revision = Oldest + n - 1
         /\ EntryAt(n) # NULL
  BY Nth, MailboxAssumption DEF TypeOK, Linked
<1>3. ASSUME NEW n \in Nat PROVE Prefix(n + 1) = Longer(Prefix(n))
  <2>0. PICK at : at = [i \in Nat |-> EntryAt(i)]
    OBVIOUS
  <2>1. CASE n = 0 /\ count > 0
    <3>1. first \in Linked /\ heap[first].revision = Oldest
      BY <2>1, <1>1 DEF Links, PointsTo
    <3>2. first = EntryAt(1) /\ first # NULL
      BY <3>1, <2>1, <1>1, <1>2 DEF Contents
    <3>3. Prefix(n) = <<>> /\ Prefix(n + 1) = <<first>>
      BY <3>2, <2>1, <1>1 DEF Prefix
    <3> QED BY <3>2, <3>3 DEF Longer
  <2>2. CASE count = 0
    <3>1. first = NULL
      BY <2>2, <1>1 DEF Links, PointsTo
    <3>2. Prefix(n) = <<>> /\ Prefix(n + 1) = <<>>
      BY <2>2 DEF Prefix
    <3> QED BY <3>1, <3>2 DEF Longer
  <2>3. CASE n > 0 /\ count > 0
    <3>1. PICK k \in 1..count : k = IF n <= count THEN n ELSE count
      BY <2>3, <1>1
    <3>2. /\ Len(Prefix(n)) = k /\ Prefix(n) # <<>>
          /\ Prefix(n)[Len(Prefix(n))] = EntryAt(k)
          /\ Append(Prefix(n), EntryAt(k + 1)) = [i \in 1..(k + 1) |-> EntryAt(i)]
      <4>1. Prefix(n) = [i \in 1..k |-> at[i]] /\ k \in Nat /\ k \in 1..k
        BY <3>1, <2>0, <1>1 DEF Prefix
      <4>2. /\ Len(Prefix(n)) = k /\ Prefix(n) # <<>> /\ Prefix(n)[k] = at[k]
            /\ Append(Prefix(n), at[k + 1]) = [i \in 1..(k + 1) |-> at[i]]
        BY <4>1, SeqOfEntries
      <4>3. [i \in 1..(k + 1) |-> at[i]] = [i \in 1..(k + 1) |-> EntryAt(i)]
        BY <4>1, <2>0
      <4> QED BY <4>1, <4>2, <4>3, <2>0
    <3>3. PointsTo(heap[EntryAt(k)].next, heap[EntryAt(k)].revision + 1)
      BY <3>1, <1>2 DEF Links
    <3>4. CASE k < count
      <4>1. n = k /\ n + 1 \in 1..count
        BY <3>1, <3>4, <1>1
      <4>2. heap[EntryAt(k)].next = EntryAt(n + 1)
        BY <4>1, <3>3, <1>1, <1>2 DEF PointsTo, Contents
      <4>3. Longer(Prefix(n)) = Append(Prefix(n), EntryAt(n + 1))
        BY <3>2, <4>1, <4>2, <1>2 DEF Longer
      <4>4. Append(Prefix(n), EntryAt(n + 1)) = Prefix(n + 1)
        BY <3>2, <4>1, <1>1 DEF Prefix
      <4> QED BY <4>3, <4>4
    <3>5. CASE k = count
      <4>1. heap[EntryAt(k)].next = NULL
        BY <3>3, <3>5, <1>1, <1>2 DEF PointsTo
      <4>2. Prefix(n + 1) = Prefix(n)
        BY <3>1, <3>5, <1>1 DEF Prefix
      <4> QED BY <3>2, <4>1, <4>2 DEF Longer
    <3> QED BY <3>1, <3>4, <3>5, <1>1
  <2> QED BY <2>1, <2>2, <2>3, <1>1
<1>4. Prefix(0) = <<>> /\ Prefix(C) = [i \in 1..count |-> EntryAt(i)]
  BY <1>1 DEF Prefix
<1>5. PICK good : good = [n \in 0..C |-> Prefix(n)]
  OBVIOUS
<1>6. good = [n \in 0..C |-> IF n = 0 THEN <<>> ELSE Longer(good[n - 1])]
  <2>1. ASSUME NEW n \in 0..C
        PROVE  Prefix(n) = IF n = 0 THEN <<>> ELSE Longer(good[n - 1])
    <3>1. CASE n = 0
      BY <3>1, <1>4
    <3>2. CASE n # 0
      <4>1. n - 1 \in Nat /\ n - 1 \in 0..C /\ (n - 1) + 1 = n
        BY <3>2, <1>1
      <4>2. Prefix(n) = Longer(Prefix(n - 1))
        BY <4>1, <1>3
      <4> QED BY <4>1, <4>2, <3>2, <1>5
    <3> QED BY <3>1, <3>2
  <2> QED BY <2>1, <1>5
<1> DEFINE walk == CHOOSE w : w = [n \in 0..C |-> IF n = 0 THEN <<>> ELSE Longer(w[n - 1])]
<1>7. walk = [n \in 0..C |-> IF n = 0 THEN <<>> ELSE Longer(walk[n - 1])]
  BY <1>6, Zenon
<1>8. Chain = walk[C]
  BY DEF Chain, Longer
<1> HIDE DEF walk
<1>9. ASSUME NEW n \in Nat, n <= C => walk[n] = Prefix(n)
      PROVE  n + 1 <= C => walk[n + 1] = Prefix(n + 1)
  <2> SUFFICES ASSUME n + 1 <= C PROVE walk[n + 1] = Prefix(n + 1)
    OBVIOUS
  <2>1. n + 1 \in 0..C /\ n + 1 # 0 /\ (n + 1) - 1 = n /\ n \in 0..C
    BY <1>1, <1>9
  <2>2. walk[n + 1] = Longer(walk[n])
    BY <2>1, <1>7
  <2>3. walk[n] = Prefix(n)
    BY <2>1, <1>9
  <2>4. Prefix(n + 1) = Longer(Prefix(n))
    BY <1>3
  <2> QED BY <2>2, <2>3, <2>4
<1>10. PICK S : S = {n \in Nat : n <= C => walk[n] = Prefix(n)}
  OBVIOUS
<1>11. 0 \in S /\ \A n \in Nat : n \in S => n + 1 \in S
  BY <1>1, <1>4, <1>7, <1>9, <1>10
<1>12. C \in S
  BY <1>1, <1>11, NatInSet
<1> QED BY <1>1, <1>4, <1>8, <1>10, <1>12

\* The sum BytesOf() takes is the last of any running totals.
LEMMA BytesOfTotals ==
    ASSUME NEW q, NEW k \in Nat, Len(q) = k, NEW sum,
           sum = [n \in 0..k |-> IF n = 0 THEN 0 ELSE sum[n - 1] + q[n].bytes]
    PROVE  Queue!BytesOf(q) = sum[k]
<1> DEFINE total == CHOOSE w : w = [n \in 0..Len(q) |->
                        IF n = 0 THEN 0 ELSE w[n - 1] + q[n].bytes]
<1>1. total = [n \in 0..Len(q) |-> IF n = 0 THEN 0 ELSE total[n - 1] + q[n].bytes]
  <2>1. sum = [n \in 0..Len(q) |-> IF n = 0 THEN 0 ELSE sum[n - 1] + q[n].bytes]
    OBVIOUS
  <2> QED BY <2>1, Zenon
<1>2. Queue!BytesOf(q) = total[Len(q)]
  BY DEF Queue!BytesOf
<1> HIDE DEF total
<1>3. ASSUME NEW n \in Nat, n <= k => total[n] = sum[n]
      PROVE  n + 1 <= k => total[n + 1] = sum[n + 1]
  <2> SUFFICES ASSUME n + 1 <= k PROVE total[n + 1] = sum[n + 1]
    OBVIOUS
  <2>1. n + 1 \in 0..k /\ n + 1 # 0 /\ (n + 1) - 1 = n /\ total[n] = sum[n]
    BY <1>3
  <2>2. total[n + 1] = total[n] + q[n + 1].bytes
    BY <2>1, <1>1
  <2>3. sum[n + 1] = sum[n] + q[n + 1].bytes
    BY <2>1
  <2> QED BY <2>1, <2>2, <2>3
<1>4. PICK S : S = {n \in Nat : n <= k => total[n] = sum[n]}
  OBVIOUS
<1>5. 0 \in S
  BY <1>1, <1>4
<1>6. \A n \in Nat : n \in S => n + 1 \in S
  <2>1. ASSUME NEW n \in Nat, n \in S PROVE n + 1 \in S
    <3>1. n <= k => total[n] = sum[n]
      BY <2>1, <1>4
    <3>2. n + 1 <= k => total[n + 1] = sum[n + 1]
      BY <3>1, <1>3
    <3> QED BY <3>2, <1>4
  <2> QED BY <2>1
<1>7. k \in S
  BY <1>5, <1>6, NatInSet
<1> QED BY <1>2, <1>4, <1>7

\* The bytes of the launches in the list are what launch_bytes says.
LEMMA BytesOfList ==
    ASSUME TypeOK, Contents, Links, Bytes, NEW q, Len(q) = count,
           \A n \in 1..count : q[n].bytes = heap[EntryAt(n)].bytes
    PROVE  Queue!BytesOf(q) = bytes
<1>1. PICK total \in [Linked -> Nat] : IsTotal(total)
  BY DEF Bytes
<1>2. PICK sum : sum = [n \in 0..count |-> IF n = 0 THEN 0 ELSE total[EntryAt(n)]]
  OBVIOUS
<1>3. /\ count \in Nat /\ latest \in Nat /\ Oldest = latest - count + 1
      /\ \A n \in 1..count : EntryAt(n) \in Linked /\ heap[EntryAt(n)].revision = Oldest + n - 1
      /\ \A n \in 1..count : heap[EntryAt(n)].bytes \in Nat
  <2>1. \A n \in 1..count : EntryAt(n) \in Linked /\ heap[EntryAt(n)].revision = Oldest + n - 1
    BY Nth
  <2>2. \A e \in Linked : heap[e].bytes \in Nat
    BY DEF TypeOK, Linked, Heaps
  <2> QED BY <2>1, <2>2 DEF TypeOK, Oldest
<1>4. ASSUME NEW n \in 1..count
      PROVE  total[EntryAt(n)] = sum[n - 1] + heap[EntryAt(n)].bytes
  <2>1. CASE n = 1
    <3>1. EntryAt(n) \in Linked /\ heap[EntryAt(n)].revision = Oldest
      <4>1. heap[EntryAt(n)].revision = Oldest + n - 1
        BY <1>3
      <4>2. Oldest + n - 1 = Oldest
        BY <2>1, <1>3
      <4> QED BY <4>1, <4>2, <1>3
    <3>2. total[EntryAt(n)] = heap[EntryAt(n)].bytes
      BY <3>1, <1>1, <1>3 DEF IsTotal
    <3>3. sum[n - 1] = 0
      BY <2>1, <1>2, <1>3
    <3> QED BY <3>2, <3>3, <1>3
  <2>2. CASE n # 1
    <3>1. n - 1 \in 1..count /\ n - 1 \in 0..count /\ n - 1 # 0
      BY <2>2, <1>3
    <3>2. heap[EntryAt(n)].revision = heap[EntryAt(n - 1)].revision + 1
      <4>1. heap[EntryAt(n)].revision = Oldest + n - 1
        BY <1>3
      <4>2. heap[EntryAt(n - 1)].revision = Oldest + (n - 1) - 1
        BY <3>1, <1>3
      <4>3. Oldest \in Int
        BY <1>3
      <4> QED BY <4>1, <4>2, <4>3
    <3>3. total[EntryAt(n)] = total[EntryAt(n - 1)] + heap[EntryAt(n)].bytes
      BY <3>1, <3>2, <1>1, <1>3 DEF IsTotal
    <3>4. sum[n - 1] = total[EntryAt(n - 1)]
      BY <3>1, <1>2
    <3> QED BY <3>3, <3>4
  <2> QED BY <2>1, <2>2
<1>5. sum = [n \in 0..count |-> IF n = 0 THEN 0 ELSE sum[n - 1] + q[n].bytes]
  <2>1. ASSUME NEW n \in 0..count
        PROVE  sum[n] = IF n = 0 THEN 0 ELSE sum[n - 1] + q[n].bytes
    <3>1. n # 0 => n \in 1..count
      BY <1>3
    <3> QED BY <3>1, <1>2, <1>4
  <2> QED BY <2>1, <1>2
<1>6. sum[count] = bytes
  <2>1. CASE count = 0
    BY <2>1, <1>1, <1>2 DEF IsTotal
  <2>2. CASE count # 0
    <3>1. count \in 1..count /\ count \in 0..count /\ heap[EntryAt(count)].revision = latest
      BY <2>2, <1>3
    <3> QED BY <3>1, <1>1, <1>2, <1>3 DEF IsTotal
  <2> QED BY <2>1, <2>2
<1>7. count \in Nat
  BY <1>3
<1> HIDE <1>2, <1>3
<1> QED BY <1>5, <1>6, <1>7, BytesOfTotals

\* When no thread is inside mailbox_lock everything allocated is in the list.
LEMMA AtRest ==
    ASSUME IInv, \A t \in Threads : thread[t].at # "links"
    PROVE  Linked = allocated /\ latest = revision
<1>1. \A t \in Threads : thread[t].entry = NULL
  BY DEF IInv, Own
<1>2. Linked = allocated
  BY <1>1, MailboxAssumption DEF IInv, Linked, TypeOK
<1>3. latest = revision
  BY DEF IInv, Contents
<1> QED BY <1>2, <1>3

\* Entries are counted by their places.
LEMMA CountIs ==
    ASSUME TypeOK, Contents
    PROVE  /\ {EntryAt(i) : i \in 1..count} = Linked
           /\ Cardinality(Linked) = count
<1>1. /\ count \in Nat /\ latest \in Nat /\ Oldest = latest - count + 1
      /\ \A i \in 1..count : EntryAt(i) \in Linked /\ heap[EntryAt(i)].revision = Oldest + i - 1
  BY Nth DEF TypeOK, Oldest
<1>2. ASSUME NEW e \in Linked PROVE \E i \in 1..count : e = EntryAt(i)
  <2>1. PICK i \in 1..count : heap[e].revision = Oldest + i - 1
    <3>1. heap[e].revision \in Oldest..latest
      BY DEF Contents
    <3>2. heap[e].revision - Oldest + 1 \in 1..count
      BY <3>1, <1>1
    <3> QED BY <3>1, <3>2, <1>1
  <2>2. EntryAt(i) \in Linked /\ heap[EntryAt(i)].revision = heap[e].revision
    BY <2>1, <1>1
  <2> QED BY <2>2 DEF Contents
<1>3. PICK f : f = [i \in 1..count |-> EntryAt(i)]
  OBVIOUS
<1>4. f \in Bijection(1..count, Linked)
  <2>1. f \in [1..count -> Linked]
    BY <1>1, <1>3
  <2>2. \A i, j \in 1..count : f[i] = f[j] => i = j
    BY <1>1, <1>3
  <2>3. \A e \in Linked : \E i \in 1..count : f[i] = e
    BY <1>2, <1>3
  <2> QED BY <2>1, <2>2, <2>3, Fun_IsBij
<1>5. Cardinality(Linked) = count
  BY <1>1, <1>4, FS_CountingElements DEF ExistsBijection
<1> QED BY <1>1, <1>2, <1>5

\* Whenever mailbox_lock is free, the linked list of publish() and
\* read_mailbox() ends at launch_last, holds every live entry once and no
\* freed one, and its counters count what is in it.
THEOREM ListAlwaysSound == Spec => []ListSound
<1>1. IInv => ListSound
  <2> SUFFICES ASSUME IInv, mailboxOwner = NoThread
               PROVE  /\ {Chain[i] : i \in 1..Len(Chain)} = allocated
                      /\ Len(Chain) = Cardinality(allocated)
                      /\ last = IF Chain = <<>> THEN NULL ELSE Chain[Len(Chain)]
                      /\ count = Len(Chain)
                      /\ bytes = Queue!BytesOf([i \in 1..Len(Chain) |-> heap[Chain[i]]])
    BY DEF ListSound
  <2>1. \A t \in Threads : thread[t].at \notin Inside
    BY MailboxAssumption DEF IInv, Own
  <2>2. TypeOK /\ Contents /\ Links /\ Bytes /\ Linked = allocated /\ count \in Nat
    BY <2>1, AtRest DEF IInv, Inside, TypeOK
  <2>3. PICK at : at = [i \in 1..count |-> EntryAt(i)]
    OBVIOUS
  <2>4. Chain = [i \in 1..count |-> at[i]]
    BY <2>2, <2>3, ChainIsList
  <2>5. /\ Len(Chain) = count
        /\ \A i \in 1..count : Chain[i] = EntryAt(i)
        /\ Chain = <<>> <=> count = 0
    BY <2>2, <2>3, <2>4, SeqOfEntries
  <2>6. /\ {Chain[i] : i \in 1..Len(Chain)} = allocated
        /\ Len(Chain) = Cardinality(allocated)
    BY <2>2, <2>5, CountIs
  <2>7. last = IF Chain = <<>> THEN NULL ELSE Chain[Len(Chain)]
    <3>1. CASE count = 0
      BY <3>1, <2>1, <2>2, <2>5 DEF Links, Inside
    <3>2. CASE count # 0
      <4>1. last \in Linked /\ heap[last].revision = latest /\ count \in 1..count
        BY <3>2, <2>2 DEF Links
      <4>2. heap[EntryAt(count)].revision = latest /\ EntryAt(count) \in Linked
        BY <4>1, <2>2, Nth DEF Oldest, TypeOK
      <4> QED BY <4>1, <4>2, <3>2, <2>2, <2>5 DEF Contents
    <3> QED BY <3>1, <3>2
  <2>8. bytes = Queue!BytesOf([i \in 1..Len(Chain) |-> heap[Chain[i]]])
    <3>1. PICK q : q = [i \in 1..Len(Chain) |-> heap[Chain[i]]]
      OBVIOUS
    <3>2. Len(q) = count /\ \A n \in 1..count : q[n].bytes = heap[EntryAt(n)].bytes
      BY <3>1, <2>2, <2>5
    <3> QED BY <3>1, <3>2, <2>2, BytesOfList
  <2> QED BY <2>5, <2>6, <2>7, <2>8
<1> QED BY <1>1, MailboxInvariant, PTL

-----------------------------------------------------------------------------
(* The list implements the queue                                           *)

\* W holds the launches after lo and up to hi, each once.
IsTail(W, lo, hi) ==
    /\ W \subseteq Entries /\ lo \in Nat /\ hi \in Nat /\ lo <= hi
    /\ \A e \in W : heap[e].revision \in (lo + 1)..hi
    /\ \A n \in (lo + 1)..hi : \E e \in W : heap[e].revision = n
    /\ \A d, e \in W : heap[d].revision = heap[e].revision => d = e

\* Of the launches in the list, those after a.
LEMMA TailOfList ==
    ASSUME TypeOK, Contents, NEW a \in Nat, NEW W, W = {e \in Linked : heap[e].revision > a},
           NEW lo, lo = IF a < Oldest - 1 THEN Oldest - 1 ELSE IF a > latest THEN latest ELSE a
    PROVE  IsTail(W, lo, latest)
<1>1. /\ Oldest \in Int /\ Oldest >= 1 /\ latest \in Nat /\ Oldest - 1 <= latest
      /\ W \subseteq Entries
  BY DEF TypeOK, Contents, Oldest, Linked
<1>2. lo \in Nat /\ lo <= latest /\ Oldest - 1 <= lo
  BY <1>1
<1>3. \A e \in W : heap[e].revision \in (lo + 1)..latest
  BY <1>1, <1>2 DEF Contents
<1>4. ASSUME NEW n \in (lo + 1)..latest PROVE \E e \in W : heap[e].revision = n
  <2>1. n \in Oldest..latest /\ n > a
    BY <1>1, <1>2
  <2>2. PICK e \in Linked : heap[e].revision = n
    BY <2>1 DEF Contents
  <2> QED BY <2>1, <2>2
<1> QED BY <1>1, <1>2, <1>3, <1>4 DEF IsTail, Contents

\* The waiting launches are always the last accepted ones.
LEMMA WaitingIsTail ==
    ASSUME IInv
    PROVE  /\ \E lo : IsTail(Waiting, lo, revision)
           /\ (\A t \in Threads : thread[t].at # "frees")
                 => IsTail(Waiting, Oldest - 1, revision)
           /\ \A t \in Threads : thread[t].at = "frees" =>
                 Waiting = {e \in Linked : heap[e].revision > thread[t].after}
<1>1. TypeOK /\ Contents /\ \A t \in Threads : Own(t)
  BY DEF IInv
<1>2. /\ Oldest \in Int /\ Oldest >= 1 /\ latest \in Nat /\ count \in Nat
      /\ Oldest = latest - count + 1 /\ revision \in Nat
      /\ Linked \subseteq Entries /\ allocated \subseteq Entries
      /\ \A e \in Entries : heap[e].revision \in Nat
  <2>1. \A e \in Entries : heap[e].revision \in Nat
    BY <1>1 DEF TypeOK, Heaps
  <2> QED BY <1>1, <2>1, MailboxAssumption DEF TypeOK, Contents, Oldest, Linked
<1>3. ASSUME NEW t \in Threads, thread[t].at = "frees"
      PROVE  /\ Waiting = {e \in Linked : heap[e].revision > thread[t].after}
             /\ latest = revision /\ thread[t].after \in Nat
  <2>1. \A u \in Threads : u # t => thread[u].at \notin Inside
    BY <1>1, <1>3, Alone DEF Inside
  <2>2. \A u \in Threads : u # t => thread[u].at # "frees" /\ thread[u].at # "links"
    BY <2>1 DEF Inside
  <2>3. Linked = allocated /\ latest = revision
    BY <1>3, <2>2, AtRest
  <2>4. thread[t].after \in Nat
    BY <1>1 DEF TypeOK, Records, Revisions
  <2> QED BY <1>3, <2>2, <2>3, <2>4 DEF Waiting
<1>4. ASSUME \A t \in Threads : thread[t].at # "frees"
      PROVE  IsTail(Waiting, Oldest - 1, revision)
  <2>1. Waiting = allocated
    BY <1>4 DEF Waiting
  <2>2. CASE \A t \in Threads : thread[t].at # "links"
    <3>1. Linked = allocated /\ latest = revision
      BY <2>2, AtRest
    <3>2. allocated = {e \in Linked : heap[e].revision > 0}
      BY <3>1, <1>1, <1>2 DEF Contents
    <3>3. IsTail(allocated, IF 0 < Oldest - 1 THEN Oldest - 1
                            ELSE IF 0 > latest THEN latest ELSE 0, latest)
      BY <3>2, <1>1, TailOfList
    <3>4. Oldest - 1 = IF 0 < Oldest - 1 THEN Oldest - 1
                       ELSE IF 0 > latest THEN latest ELSE 0
      BY <1>2
    <3> QED BY <2>1, <3>1, <3>3, <3>4
  <2>3. ASSUME NEW t \in Threads, thread[t].at = "links"
        PROVE  IsTail(Waiting, Oldest - 1, revision)
    <3>0. PICK e : e = thread[t].entry
      OBVIOUS
    <3>1. e \in allocated /\ heap[e].revision = revision /\ latest + 1 = revision
      BY <3>0, <2>3, <1>1 DEF Own
    <3>2. \A u \in Threads : u # t => thread[u].entry = NULL
      BY <2>3, <1>1, Alone DEF Inside
    <3>3. Linked = allocated \ {e}
      BY <3>0, <3>1, <3>2, <1>2, MailboxAssumption DEF Linked
    <3>4. \A d \in Linked : heap[d].revision \in Oldest..latest
      BY <1>1 DEF Contents
    <3>5. ASSUME NEW n \in (Oldest - 1 + 1)..revision
          PROVE  \E d \in allocated : heap[d].revision = n
      <4>1. CASE n = revision
        BY <4>1, <3>1
      <4>2. CASE n # revision
        <5>1. n \in Oldest..latest
          BY <4>2, <3>1, <1>2
        <5> QED BY <5>1, <3>3, <1>1 DEF Contents
      <4> QED BY <4>1, <4>2
    <3>6. \A c, d \in allocated : heap[c].revision = heap[d].revision => c = d
      <4>1. ASSUME NEW c \in allocated, NEW d \in allocated,
                   heap[c].revision = heap[d].revision
            PROVE  c = d
        <5>1. CASE c = e \/ d = e
          BY <4>1, <5>1, <3>1, <3>3, <3>4, <1>2
        <5>2. CASE c # e /\ d # e
          BY <4>1, <5>2, <3>3, <1>1 DEF Contents
        <5> QED BY <5>1, <5>2
      <4> QED BY <4>1
    <3>7. \A d \in allocated : heap[d].revision \in (Oldest - 1 + 1)..revision
      BY <3>1, <3>3, <3>4, <1>2
    <3> QED BY <2>1, <3>1, <3>5, <3>6, <3>7, <1>2 DEF IsTail
  <2> QED BY <2>2, <2>3
<1>5. \E lo : IsTail(Waiting, lo, revision)
  <2>1. ASSUME NEW t \in Threads, thread[t].at = "frees"
        PROVE  \E lo : IsTail(Waiting, lo, revision)
    <3>1. PICK lo : lo = IF thread[t].after < Oldest - 1 THEN Oldest - 1
                         ELSE IF thread[t].after > latest THEN latest ELSE thread[t].after
      OBVIOUS
    <3>2. IsTail(Waiting, lo, latest) /\ latest = revision
      BY <2>1, <3>1, <1>1, <1>3, TailOfList
    <3> QED BY <3>2
  <2> QED BY <2>1, <1>4
<1> QED BY <1>3, <1>4, <1>5

\* Pending holds the waiting launches in the order of their revisions.
PendingFrom(lo) ==
    /\ Len(Pending) = revision - lo
    /\ Pending = [i \in 1..(revision - lo) |-> Pending[i]]
    /\ \A i \in 1..(revision - lo) : Pending[i].revision = lo + i
    /\ \A e \in Waiting :
         Pending[heap[e].revision - lo] =
             [revision |-> heap[e].revision, bytes |-> heap[e].bytes]

\* What the refinement mapping picks for each place.
LEMMA PendingIs == \A lo : IsTail(Waiting, lo, revision) => PendingFrom(lo)
<1> SUFFICES ASSUME NEW lo, IsTail(Waiting, lo, revision) PROVE PendingFrom(lo)
  OBVIOUS
<1> DEFINE n == revision - lo
           entry(i) == CHOOSE e \in Waiting : heap[e].revision = lo + i
<1>1. /\ n \in Nat /\ lo \in Nat /\ revision \in Nat
      /\ \A e \in Waiting : heap[e].revision - lo \in 1..n /\ heap[e].revision \in Nat
  BY DEF IsTail
<1>2. \A i \in 1..n : entry(i) \in Waiting /\ heap[entry(i)].revision = lo + i
  <2>1. ASSUME NEW i \in 1..n PROVE \E e \in Waiting : heap[e].revision = lo + i
    <3>1. lo + i \in (lo + 1)..revision
      BY <1>1
    <3> QED BY <3>1 DEF IsTail
  <2> QED BY <2>1
<1>3. \A e \in Waiting : entry(heap[e].revision - lo) = e
  <2>1. ASSUME NEW e \in Waiting PROVE entry(heap[e].revision - lo) = e
    <3>1. PICK i \in 1..n : i = heap[e].revision - lo
      BY <1>1
    <3>2. heap[entry(i)].revision = heap[e].revision /\ entry(i) \in Waiting
      BY <3>1, <1>1, <1>2
    <3> QED BY <3>1, <3>2 DEF IsTail
  <2> QED BY <2>1
<1>4. Cardinality(Waiting) = n
  <2>1. PICK f : f = [i \in 1..n |-> entry(i)]
    OBVIOUS
  <2>2. f \in Bijection(1..n, Waiting)
    <3> HIDE DEF entry
    <3>1. f \in [1..n -> Waiting]
      BY <2>1, <1>2
    <3>2. \A i, j \in 1..n : f[i] = f[j] => i = j
      BY <2>1, <1>1, <1>2
    <3>3. \A e \in Waiting : \E i \in 1..n : f[i] = e
      BY <2>1, <1>1, <1>3
    <3> QED BY <3>1, <3>2, <3>3, Fun_IsBij
  <2> QED BY <1>1, <2>2, FS_CountingElements DEF ExistsBijection
<1>5. Pending = [i \in 1..n |-> [revision |-> lo + i, bytes |-> heap[entry(i)].bytes]]
  <2>1. revision - n = lo
    BY <1>1
  <2> QED BY <1>4, <2>1 DEF Pending
<1> HIDE DEF entry
<1>6. PICK f : f = [i \in Nat |-> [revision |-> lo + i, bytes |-> heap[entry(i)].bytes]]
  OBVIOUS
<1>7. Pending = [i \in 1..n |-> f[i]]
  BY <1>1, <1>5, <1>6
<1>8. Len(Pending) = n /\ DOMAIN Pending = 1..n /\ \A i \in 1..n : Pending[i] = f[i]
  <2>1. n \in Nat
    BY <1>1
  <2> HIDE DEF n
  <2> QED BY <2>1, <1>7, SeqOfEntries
<1>9. \A i \in 1..n : Pending[i] = [revision |-> lo + i, bytes |-> heap[entry(i)].bytes]
  <2>1. \A i \in 1..n : i \in Nat
    BY <1>1
  <2> QED BY <2>1, <1>6, <1>8
<1>10. ASSUME NEW e \in Waiting
       PROVE  Pending[heap[e].revision - lo] =
                  [revision |-> heap[e].revision, bytes |-> heap[e].bytes]
  <2>1. PICK i \in 1..n : i = heap[e].revision - lo
    BY <1>1
  <2>2. entry(i) = e /\ lo + i = heap[e].revision
    BY <2>1, <1>1, <1>3
  <2> QED BY <2>1, <2>2, <1>9
<1>11. Pending = [i \in 1..n |-> Pending[i]]
  BY <1>7, <1>8
<1> QED BY <1>8, <1>9, <1>10, <1>11 DEF PendingFrom

\* The same after a step.
LEMMA PendingIsNext == (\A lo : IsTail(Waiting, lo, revision) => PendingFrom(lo))'
BY PendingIs, PTL

\* A step that changes neither which launches wait nor what they are is none
\* of the queue's.
LEMMA SamePending ==
    ASSUME IInv, Waiting' = Waiting, revision' = revision,
           \A e \in Waiting : /\ heap'[e].revision = heap[e].revision
                              /\ heap'[e].bytes = heap[e].bytes
    PROVE  Pending' = Pending
<1>1. PICK lo : IsTail(Waiting, lo, revision)
  BY WaitingIsTail
<1>2. IsTail(Waiting, lo, revision)'
  BY <1>1 DEF IsTail
<1>3. PendingFrom(lo)
  BY <1>1, PendingIs
<1>4. PendingFrom(lo)'
  BY <1>2, PendingIsNext
<1>5. ASSUME NEW i \in 1..(revision - lo) PROVE Pending'[i] = Pending[i]
  <2>1. lo + i \in (lo + 1)..revision
    BY <1>1 DEF IsTail
  <2>2. PICK e \in Waiting : heap[e].revision = lo + i
    BY <1>1, <2>1 DEF IsTail
  <2>3. heap[e].revision - lo = i
    BY <2>2, <1>1 DEF IsTail
  <2>4. Pending[i] = [revision |-> heap[e].revision, bytes |-> heap[e].bytes]
    BY <2>2, <2>3, <1>3 DEF PendingFrom
  <2>5. Pending'[i] = [revision |-> heap'[e].revision, bytes |-> heap'[e].bytes]
    BY <2>2, <2>3, <1>4 DEF PendingFrom
  <2> QED BY <2>2, <2>4, <2>5
<1> QED BY <1>3, <1>4, <1>5 DEF PendingFrom

\* A step after which the same threads free, up to the same revision, the same
\* entries wait.
LEMMA SameWaiting ==
    ASSUME UNCHANGED <<heap, allocated>>,
           \A t \in Threads : thread'[t].at = "frees" <=> thread[t].at = "frees",
           \A t \in Threads : thread[t].at = "frees" => thread'[t].after = thread[t].after
    PROVE  Waiting' = Waiting
BY DEF Waiting

\* A thread that neither publishes nor frees changes nothing of the queue.
LEMMA QuietImplements ==
    ASSUME IInv, NEW t \in Threads, UNCHANGED listVars,
           \A u \in Threads : u # t => thread'[u] = thread[u],
           thread[t].at # "frees", thread'[t].at # "frees"
    PROVE  UNCHANGED <<revision, Pending>>
<1>1. Waiting' = Waiting
  BY SameWaiting DEF listVars
<1> QED BY <1>1, SamePending DEF listVars

\* FillEntry() is the acceptance of a launch.
LEMMA FillImplements ==
    ASSUME IInv, IInv', NEW t \in Threads, FillEntry(t)
    PROVE  thread[t].size \in Sizes /\ Queue!Accept(thread[t].size)
<1> DEFINE size == thread[t].size
<1>0. PICK low : low = Oldest - 1
  OBVIOUS
<1>1. /\ TypeOK /\ Contents /\ Links /\ Bytes /\ \A u \in Threads : Own(u)
      /\ thread[t].at = "publishes" /\ size \in Sizes /\ size \in Nat
      /\ revision' = revision + 1 /\ revision < MaxRevision /\ revision \in Nat
      /\ count < MaxCount /\ bytes + size <= MaxBytes
  <2>1. size \in Sizes
    BY DEF IInv, Own, FillEntry, At
  <2> QED BY <2>1, MailboxAssumption DEF IInv, FillEntry, At, Full, TypeOK
<1>2. PICK e \in Entries \ allocated :
         /\ allocated' = allocated \cup {e}
         /\ heap' = [heap EXCEPT ![e] =
               [revision |-> revision + 1, bytes |-> size, next |-> NULL]]
         /\ thread' = [thread EXCEPT ![t].at = "links", ![t].entry = e]
  BY DEF FillEntry
<1>3. /\ \A u \in Threads : thread[u].at # "frees" /\ thread[u].at # "links"
      /\ \A u \in Threads : thread'[u].at # "frees"
  <2>1. \A u \in Threads : u # t => thread[u].at \notin Inside
    BY <1>1, Alone DEF Inside
  <2>2. thread'[t].at = "links" /\ \A u \in Threads : u # t => thread'[u] = thread[u]
    <3>1. thread[t] \in Records /\ thread'[t] = [thread[t] EXCEPT !.at = "links", !.entry = e]
      BY <1>1, <1>2 DEF TypeOK
    <3> QED BY <3>1, <1>1, <1>2 DEF Records, TypeOK
  <2> QED BY <1>1, <2>1, <2>2 DEF Inside
<1>4. Waiting = allocated /\ Waiting' = allocated \cup {e} /\ Linked = allocated
      /\ latest = revision
  BY <1>2, <1>3, AtRest DEF Waiting
<1>5. IsTail(Waiting, low, revision) /\ low \in Nat /\ low <= revision
  BY <1>0, <1>3, WaitingIsTail DEF IsTail
<1>6. PendingFrom(low)
  BY <1>5, PendingIs
<1>7. /\ heap'[e] = [revision |-> revision + 1, bytes |-> size, next |-> NULL]
      /\ \A d \in Waiting : heap'[d] = heap[d]
  BY <1>1, <1>2, <1>4 DEF TypeOK
<1>8. IsTail(Waiting, low, revision)'
  <2>1. \A d \in Waiting' : heap'[d].revision \in (low + 1)..(revision + 1)
    BY <1>4, <1>5, <1>7 DEF IsTail
  <2>2. ASSUME NEW n \in (low + 1)..(revision + 1) PROVE \E d \in Waiting' : heap'[d].revision = n
    <3>1. CASE n = revision + 1
      BY <3>1, <1>4, <1>7
    <3>2. CASE n # revision + 1
      <4>1. n \in (low + 1)..revision
        BY <3>2, <1>1, <1>5
      <4> QED BY <4>1, <1>4, <1>5, <1>7 DEF IsTail
    <3> QED BY <3>1, <3>2
  <2>3. \A c, d \in Waiting' : heap'[c].revision = heap'[d].revision => c = d
    <3>1. \A d \in Waiting : heap'[d].revision # revision + 1
      BY <1>1, <1>5, <1>7 DEF IsTail
    <3> QED BY <3>1, <1>4, <1>5, <1>7 DEF IsTail
  <2>4. Waiting' \subseteq Entries
    BY <1>2, <1>4, <1>5 DEF IsTail
  <2> QED BY <2>1, <2>2, <2>3, <2>4, <1>1, <1>5 DEF IsTail
<1>9. PendingFrom(low)'
  BY <1>8, PendingIsNext
<1>10. Pending' = Append(Pending, [revision |-> revision + 1, bytes |-> size])
  <2>1. PICK k : k = revision - low
    OBVIOUS
  <2>2. k \in Nat /\ (revision + 1) - low = k + 1
    BY <2>1, <1>1, <1>5
  <2>3. Pending = [i \in 1..k |-> Pending[i]] /\ Pending' = [i \in 1..(k + 1) |-> Pending'[i]]
    <3>1. revision' - low = k + 1
      <4>1. revision' = revision + 1
        BY <1>1
      <4>2. (revision + 1) - low = k + 1
        BY <2>2
      <4> QED BY <4>1, <4>2
    <3>2. Pending = [i \in 1..k |-> Pending[i]]
      BY <2>1, <1>6 DEF PendingFrom
    <3>3. Pending' = [i \in 1..(k + 1) |-> Pending'[i]]
      BY <3>1, <1>9 DEF PendingFrom
    <3> QED BY <3>2, <3>3
  <2>4. Pending'[k + 1] = [revision |-> revision + 1, bytes |-> size]
    <3>1. e \in Waiting' /\ heap'[e].revision - low = k + 1
      BY <2>1, <1>1, <1>4, <1>5, <1>7
    <3> QED BY <3>1, <1>7, <1>9 DEF PendingFrom
  <2>5. ASSUME NEW i \in 1..k PROVE Pending'[i] = Pending[i]
    <3>1. low + i \in (low + 1)..revision
      BY <2>1, <2>2, <1>1, <1>5
    <3>2. PICK d \in Waiting : heap[d].revision = low + i
      BY <3>1, <2>2, <1>5 DEF IsTail
    <3>3. heap[d].revision - low = i /\ d \in Waiting'
      BY <3>2, <2>2, <1>4, <1>5
    <3>4. Pending[i] = [revision |-> heap[d].revision, bytes |-> heap[d].bytes]
      BY <3>2, <3>3, <1>6 DEF PendingFrom
    <3>5. Pending'[i] = [revision |-> heap'[d].revision, bytes |-> heap'[d].bytes]
      <4>1. heap'[d].revision - low = i
        BY <3>2, <3>3, <1>7
      <4> QED BY <3>3, <4>1, <1>9 DEF PendingFrom
    <3> QED BY <3>2, <3>4, <3>5, <1>7
  <2>6. PICK f : f = [i \in Nat |-> Pending'[i]]
    OBVIOUS
  <2>7. Pending = [i \in 1..k |-> f[i]] /\ Pending' = [i \in 1..(k + 1) |-> f[i]]
    BY <2>2, <2>3, <2>5, <2>6
  <2>8. Append(Pending, f[k + 1]) = [i \in 1..(k + 1) |-> f[i]]
    BY <2>2, <2>7, SeqOfEntries
  <2> QED BY <2>2, <2>4, <2>6, <2>7, <2>8
<1>11. Len(Pending) = count
  BY <1>0, <1>1, <1>4, <1>6 DEF PendingFrom, Oldest, TypeOK
<1>12. Queue!BytesOf(Pending) = bytes
  <2>1. ASSUME NEW n \in 1..count PROVE Pending[n].bytes = heap[EntryAt(n)].bytes
    <3>1. EntryAt(n) \in Waiting /\ heap[EntryAt(n)].revision - low = n
      BY <1>0, <1>1, <1>4, Nth DEF Oldest, TypeOK
    <3>2. Pending[n] = [revision |-> heap[EntryAt(n)].revision, bytes |-> heap[EntryAt(n)].bytes]
      BY <3>1, <1>6 DEF PendingFrom
    <3> QED BY <3>2
  <2> QED BY <2>1, <1>1, <1>11, BytesOfList
<1> QED BY <1>1, <1>10, <1>11, <1>12 DEF Queue!Accept, Queue!Fits

\* Taking mailbox_lock to poll is the acknowledgement: what the poll covers is
\* as good as freed.
LEMMA PollImplements ==
    ASSUME IInv, IInv', NEW t \in Threads, LockMailbox(t), thread[t].kind = "poll"
    PROVE  \E after \in 0..MaxRevision : Queue!Acknowledge(after)
<1>0. PICK a : a = thread[t].after
  OBVIOUS
<1>1. /\ TypeOK /\ Contents /\ \A u \in Threads : Own(u)
      /\ UNCHANGED listVars
      /\ thread' = [thread EXCEPT ![t].at = "frees"]
      /\ mailboxOwner = NoThread
  BY DEF IInv, LockMailbox
<1>2. /\ thread'[t].at = "frees" /\ thread'[t].after = a
      /\ \A u \in Threads : u # t => thread'[u] = thread[u]
  BY <1>0, <1>1, Moved
<1>3. \A u \in Threads : thread[u].at # "frees" /\ thread[u].at # "links"
  BY <1>1, MailboxAssumption DEF Own, Inside
<1>4. a \in 0..MaxRevision /\ a \in Nat
  BY <1>0, <1>1, MailboxAssumption DEF TypeOK, Records, Revisions
<1>5. Linked = allocated /\ latest = revision /\ Waiting = allocated
  BY <1>3, AtRest DEF Waiting
<1>6. Waiting' = {e \in allocated : heap[e].revision > a}
  BY <1>1, <1>2, <1>3 DEF Waiting, listVars
<1>7. PICK low : low = Oldest - 1
  OBVIOUS
<1>8. PICK lo : lo = IF a < low THEN low ELSE IF a > revision THEN revision ELSE a
  OBVIOUS
<1>9. /\ IsTail(Waiting, low, revision)
      /\ low \in Nat /\ revision \in Nat /\ low <= revision
  BY <1>3, <1>7, WaitingIsTail DEF IsTail
<1>10. lo \in Nat /\ low <= lo /\ lo <= revision
  BY <1>4, <1>8, <1>9
<1>11. IsTail(Waiting, lo, revision)'
  <2>1. PICK W : W = {e \in Linked : heap[e].revision > a}
    OBVIOUS
  <2>2. IsTail(W, lo, latest)
    BY <2>1, <1>1, <1>4, <1>5, <1>7, <1>8, TailOfList
  <2> QED BY <2>1, <2>2, <1>1, <1>5, <1>6 DEF IsTail, listVars
<1>12. PendingFrom(low) /\ PendingFrom(lo)'
  BY <1>9, <1>11, PendingIs, PendingIsNext
<1>13. PICK n : n = lo - low
  OBVIOUS
<1>14. /\ n \in 0..Len(Pending) /\ Len(Pending) = revision - low
       /\ Len(Pending) - n = revision - lo
  BY <1>9, <1>10, <1>12, <1>13 DEF PendingFrom
<1>15. \A i \in 1..n : Pending[i].revision <= a
  <2>1. ASSUME NEW i \in 1..n PROVE Pending[i].revision <= a
    <3>1. i \in 1..(revision - low) /\ Pending[i].revision = low + i
      BY <1>9, <1>10, <1>12, <1>13 DEF PendingFrom
    <3> QED BY <3>1, <1>4, <1>8, <1>9, <1>10, <1>13
  <2> QED BY <2>1
<1>16. n < Len(Pending) => Pending[n + 1].revision > a
  <2>1. ASSUME n < Len(Pending) PROVE Pending[n + 1].revision > a
    <3>1. n + 1 \in 1..(revision - low) /\ Pending[n + 1].revision = low + (n + 1)
      BY <2>1, <1>9, <1>10, <1>12, <1>13, <1>14 DEF PendingFrom
    <3>2. lo < revision
      BY <2>1, <1>9, <1>10, <1>13, <1>14
    <3> QED BY <3>1, <3>2, <1>4, <1>8, <1>9, <1>10, <1>13
  <2> QED BY <2>1
<1>17. Pending' = SubSeq(Pending, n + 1, Len(Pending))
  <2>1. PICK k \in Nat : k = revision - lo
    BY <1>9, <1>10
  <2>2. Pending' = [i \in 1..k |-> Pending'[i]]
    BY <2>1, <1>1, <1>12 DEF PendingFrom, listVars
  <2>3. ASSUME NEW i \in 1..k PROVE Pending'[i] = Pending[n + i]
    <3>1. lo + i \in (lo + 1)..revision
      BY <2>1, <1>9, <1>10
    <3>2. PICK e \in Waiting' : heap[e].revision = lo + i
      BY <3>1, <1>1, <1>11 DEF IsTail, listVars
    <3>3. e \in Waiting /\ heap[e].revision - lo = i /\ heap[e].revision - low = n + i
      BY <3>2, <1>5, <1>6, <1>9, <1>10, <1>13
    <3>4. Pending'[i] = [revision |-> heap[e].revision, bytes |-> heap[e].bytes]
      BY <3>2, <3>3, <1>1, <1>12 DEF PendingFrom, listVars
    <3>5. Pending[n + i] = [revision |-> heap[e].revision, bytes |-> heap[e].bytes]
      BY <3>3, <1>12 DEF PendingFrom
    <3> QED BY <3>4, <3>5
  <2>4. SubSeq(Pending, n + 1, Len(Pending)) = [i \in 1..k |-> Pending[n + i]]
    <3>1. /\ n + 1 \in Int /\ Len(Pending) \in Int /\ Len(Pending) - (n + 1) + 1 = k
      BY <2>1, <1>9, <1>10, <1>13, <1>14
    <3>2. SubSeq(Pending, n + 1, Len(Pending)) =
             [i \in 1..(Len(Pending) - (n + 1) + 1) |-> Pending[i + (n + 1) - 1]]
      BY <3>1
    <3>3. 1..(Len(Pending) - (n + 1) + 1) = 1..k
      BY <3>1
    <3>4. \A i \in 1..k : i + (n + 1) - 1 = n + i
      BY <2>1, <1>9, <1>10, <1>13
    <3> HIDE <2>1
    <3> QED BY <3>2, <3>3, <3>4
  <2> QED BY <2>2, <2>3, <2>4
<1> QED BY <1>1, <1>4, <1>14, <1>15, <1>16, <1>17 DEF Queue!Acknowledge, listVars

\* Every other step inside mailbox_lock is none of the queue's: what FreeHead()
\* frees was no longer waiting, and LinkEntry() links what already was.
LEMMA FreeImplements ==
    ASSUME IInv, NEW t \in Threads, FreeHead(t)
    PROVE  UNCHANGED <<revision, Pending>>
<1>1. /\ thread[t].at = "frees" /\ heap[first].revision <= thread[t].after
      /\ allocated' = allocated \ {first} /\ UNCHANGED <<heap, thread, revision>>
  BY DEF FreeHead, Acknowledged, At
<1>2. first \notin Waiting
  <2>1. heap[first].revision \in Nat /\ thread[t].after \in Nat
    <3>1. first \in Entries
      BY HeadCounted DEF IInv, FreeHead, Acknowledged
    <3> QED BY <3>1, MailboxAssumption DEF IInv, TypeOK, Heaps, Records, Revisions
  <2>2. ~(heap[first].revision > thread[t].after)
    BY <1>1, <2>1
  <2> QED BY <1>1, <2>2 DEF Waiting
<1>3. Waiting' = Waiting
  BY <1>1, <1>2 DEF Waiting
<1> QED BY <1>1, <1>3, SamePending

\* The loop that frees ends when no acknowledged launch is left to free.
LEMMA EndFreeingImplements ==
    ASSUME IInv, NEW t \in Threads, EndFreeing(t)
    PROVE  UNCHANGED <<revision, Pending>>
<1>1. /\ TypeOK /\ Contents /\ Links /\ \A u \in Threads : Own(u)
      /\ thread[t].at = "frees" /\ ~Acknowledged(t)
      /\ UNCHANGED <<heap, allocated, revision>>
      /\ thread' = [thread EXCEPT ![t].at = "reads"]
  BY DEF IInv, EndFreeing, At
<1>2. thread'[t].at = "reads" /\ \A u \in Threads : u # t => thread'[u] = thread[u]
  BY <1>1, Moved
<1>3. \A u \in Threads : u # t => thread[u].at \notin Inside
  BY <1>1, Alone DEF Inside
<1>4. Linked = allocated
  BY <1>1, <1>3, AtRest DEF Inside
<1>5. Waiting' = allocated
  BY <1>1, <1>2, <1>3 DEF Waiting, Inside
<1>6. \A e \in Linked : heap[e].revision > thread[t].after
  <2>1. ASSUME NEW e \in Linked PROVE heap[e].revision > thread[t].after
    <3>1. heap[e].revision \in Oldest..latest /\ Oldest \in Int /\ latest \in Nat
      BY <1>1 DEF Contents, TypeOK, Oldest
    <3>2. first \in Linked /\ heap[first].revision = Oldest
      BY <3>1, <1>1 DEF Links, PointsTo
    <3>3. first # NULL /\ thread[t].after \in Nat
      BY <3>2, <1>1, MailboxAssumption DEF Linked, TypeOK, Records, Revisions
    <3> QED BY <3>1, <3>2, <3>3, <1>1 DEF Acknowledged
  <2> QED BY <2>1
<1>7. Waiting = Linked
  BY <1>1, <1>6, WaitingIsTail
<1> QED BY <1>1, <1>4, <1>5, <1>7, SamePending

\* LinkEntry() links an entry that was waiting since it was filled.
LEMMA LinkImplements ==
    ASSUME IInv, NEW t \in Threads, LinkEntry(t)
    PROVE  UNCHANGED <<revision, Pending>>
<1>1. /\ TypeOK /\ \A u \in Threads : Own(u) /\ thread[t].at = "links"
      /\ UNCHANGED <<allocated, revision>>
  BY DEF IInv, LinkEntry, At
<1>2. \A u \in Threads : thread[u].at # "frees"
  BY <1>1, Alone DEF Inside
<1>3. \A u \in Threads : thread'[u].at # "frees"
  <2>1. thread'[t].at = "unlocks mailbox_lock" /\ \A u \in Threads : u # t => thread'[u] = thread[u]
    <3>1. /\ thread[t] \in Records
          /\ thread'[t] = [thread[t] EXCEPT !.at = "unlocks mailbox_lock", !.entry = NULL,
                !.reply = [revision |-> heap[thread[t].entry].revision, launch |-> 0]]
          /\ \A u \in Threads : u # t => thread'[u] = thread[u]
      BY <1>1 DEF TypeOK, LinkEntry
    <3> QED BY <3>1 DEF Records
  <2> QED BY <1>2, <2>1
<1>4. \A d \in Entries : heap'[d].revision = heap[d].revision /\ heap'[d].bytes = heap[d].bytes
  <2>1. CASE last # NULL
    <3>1. /\ last \in Entries /\ heap[last] \in Heaps
          /\ heap'[last] = [heap[last] EXCEPT !.next = thread[t].entry]
          /\ \A d \in Entries : d # last => heap'[d] = heap[d]
      BY <1>1, <2>1 DEF TypeOK, LinkEntry, Pointers
    <3> QED BY <3>1 DEF Heaps
  <2>2. CASE last = NULL
    BY <2>2 DEF LinkEntry
  <2> QED BY <2>1, <2>2
<1>5. Waiting' = Waiting /\ Waiting \subseteq Entries
  BY <1>1, <1>2, <1>3 DEF Waiting, TypeOK
<1> QED BY <1>1, <1>4, <1>5, SamePending

\* Each step is one of the queue, or leaves the queue as it is.
LEMMA QueueStep == IInv /\ IInv' /\ [Next]_vars => [Queue!QueueNext]_<<revision, Pending>>
<1> SUFFICES ASSUME IInv, IInv', [Next]_vars
             PROVE  Queue!QueueNext \/ UNCHANGED <<revision, Pending>>
  OBVIOUS
<1>1. CASE UNCHANGED vars
  <2>1. Waiting' = Waiting
    BY <1>1 DEF Waiting, vars, listVars
  <2> QED BY <1>1, <2>1, SamePending DEF vars, listVars
<1>0. TypeOK /\ \A t \in Threads : thread[t] \in Records
  BY DEF IInv, TypeOK
<1>2. ASSUME NEW t \in Threads, Connection(t) \/ Computing(t) \/ RefuseLaunch(t) \/ ReadReply(t)
                                \/ UnlockMailbox(t)
      PROVE  UNCHANGED <<revision, Pending>>
  <2>1. UNCHANGED listVars /\ thread[t].at # "frees"
    BY <1>2 DEF Connection, AcceptConnection, Shutdown, Respond, Computing, LockCompute,
         FinishComputation, UnlockCompute, RefuseLaunch, ReadReply, UnlockMailbox, At
  <2>2. \A u \in Threads : u # t => thread'[u] = thread[u]
    BY <1>0, <1>2 DEF Connection, AcceptConnection, Shutdown, Respond, Computing, LockCompute,
         FinishComputation, UnlockCompute, RefuseLaunch, ReadReply, UnlockMailbox, TypeOK
  <2>3. thread'[t].at # "frees"
    <3>1. CASE Connection(t)
      <4>1. CASE AcceptConnection(t)
        <5>1. PICK kind \in Kinds, after \in Revisions : thread' = [thread EXCEPT ![t] =
                [Idle EXCEPT !.kind = kind, !.after = after, !.at = FirstStop(kind)]]
          BY <4>1 DEF AcceptConnection
        <5>2. thread'[t].at = FirstStop(kind)
          BY <1>0, <5>1 DEF TypeOK, Idle
        <5> QED BY <5>2 DEF FirstStop
      <4>2. CASE Shutdown(t)
        BY <2>1, <4>2 DEF Shutdown
      <4>3. CASE Respond(t)
        BY <1>0, <4>3 DEF Respond, TypeOK, Idle
      <4> QED BY <3>1, <4>1, <4>2, <4>3 DEF Connection
    <3>2. CASE Computing(t) \/ RefuseLaunch(t) \/ ReadReply(t) \/ UnlockMailbox(t)
      <4>1. CASE Computing(t)
        BY <1>0, <4>1 DEF Computing, LockCompute, FinishComputation, UnlockCompute, TypeOK, Records
      <4>2. CASE RefuseLaunch(t)
        BY <1>0, <4>2 DEF RefuseLaunch, TypeOK, Records
      <4>3. CASE ReadReply(t)
        BY <1>0, <4>3 DEF ReadReply, TypeOK, Records
      <4>4. CASE UnlockMailbox(t)
        <5>1. PICK at \in {"unlocks compute_lock", "responds"} :
                 thread' = [thread EXCEPT ![t].at = at]
          BY <4>4 DEF UnlockMailbox
        <5> QED BY <1>0, <5>1, Moved
      <4> QED BY <3>2, <4>1, <4>2, <4>3, <4>4
    <3> QED BY <1>2, <3>1, <3>2
  <2> QED BY <2>1, <2>2, <2>3, QuietImplements
<1>3. ASSUME NEW t \in Threads, LockMailbox(t), thread[t].kind # "poll"
      PROVE  UNCHANGED <<revision, Pending>>
  <2>1. PICK at \in {"publishes", "reads"} : thread' = [thread EXCEPT ![t].at = at]
    BY <1>3 DEF LockMailbox
  <2>2. thread'[t].at = at /\ \A u \in Threads : u # t => thread'[u] = thread[u]
    BY <1>0, <2>1, Moved
  <2>3. UNCHANGED listVars /\ thread[t].at # "frees"
    BY <1>3 DEF LockMailbox, At
  <2> QED BY <2>1, <2>2, <2>3, QuietImplements
<1>4. ASSUME NEW t \in Threads, LockMailbox(t), thread[t].kind = "poll"
      PROVE  Queue!QueueNext
  BY <1>4, PollImplements DEF Queue!QueueNext
<1>5. ASSUME NEW t \in Threads, FillEntry(t) PROVE Queue!QueueNext
  BY <1>5, FillImplements DEF Queue!QueueNext
<1> QED BY <1>1, <1>2, <1>3, <1>4, <1>5, LinkImplements, FreeImplements, EndFreeingImplements
        DEF Next, Publishing, Reading, Locking

\* The threads of gui/server.c implement the queue the mailbox promises: seen
\* through Pending, every step is an accepted launch, an acknowledgement or
\* nothing at all, with back-pressure exactly where it was promised.
THEOREM MailboxImplementsQueue == Spec => Implements
<1>1. Init => Queue!QueueInit
  <2> SUFFICES ASSUME Init PROVE revision = 0 /\ Pending = <<>>
    BY DEF Queue!QueueInit
  <2>1. Waiting = {} /\ revision = 0
    BY DEF Init, Waiting
  <2>2. Cardinality(Waiting) = 0
    BY <2>1, FS_EmptySet
  <2> QED BY <2>1, <2>2 DEF Pending
<1> QED BY <1>1, QueueStep, MailboxInvariant, PTL
        DEF Spec, Implements, Queue!QueueSpec, Queue!queueVars
=============================================================================
