------------------------------ MODULE Mailbox ------------------------------
(***************************************************************************)
(* The launch mailbox of gui/server.c as its connection threads run it: a  *)
(* linked list of heap entries with a head, a tail, a count and a byte     *)
(* count, guarded by mailbox_lock, and the compute_lock every POST takes   *)
(* first.  A thread serves one connection and ends; a new connection gets  *)
(* a new thread.  Each step is a stretch of code between two points where  *)
(* another thread can see what it did.                                     *)
(*                                                                         *)
(* The list implements module LaunchQueue: see Implements.                 *)
(***************************************************************************)
EXTENDS Integers, Sequences, FiniteSets

CONSTANTS
    Threads,      \* connection threads alive at the same time
    Entries,      \* addresses calloc() may return for a launch_entry
    NULL,         \* the null pointer
    NoThread,     \* the owner of a free lock
    MaxCount,     \* 128 waiting launches
    MaxBytes,     \* 32 MiB of waiting launches
    Sizes,        \* sizes of a prepared launch
    MaxRevision,  \* bound of the model: launches accepted
    MaxRequests   \* bound of the model: connections served

ASSUME MailboxAssumption ==
    /\ NULL \notin Entries /\ NoThread \notin Threads
    /\ MaxCount \in Nat \ {0} /\ MaxBytes \in Nat
    /\ IsFiniteSet(Entries) /\ Cardinality(Entries) > MaxCount
    /\ Sizes \subseteq Nat \ {0}
    /\ MaxRevision \in Nat /\ MaxRequests \in Nat

VARIABLES
    serving,      \* the listening process is alive
    requests,     \* connections accepted so far
    thread,       \* per thread: what it serves and how far it is
    computeOwner, \* the holder of compute_lock
    mailboxOwner, \* the holder of mailbox_lock
    revision,     \* revision: of the newest accepted launch
    heap,         \* the contents of the entries
    allocated,    \* the entries calloc() gave out and free() did not take back
    first, last,  \* launch_first, launch_last
    count, bytes, \* launch_count, launch_bytes
    latest        \* the revision of the launch copied to launch_json, 0 for none

listVars == <<revision, heap, allocated, first, last, count, bytes, latest>>
vars == <<serving, requests, thread, computeOwner, mailboxOwner, listVars>>

Kinds == {"state", "launch", "poll", "peek", "shutdown"}
Revisions == 0..MaxRevision
NoReply == [revision |-> 0, launch |-> 0]
Idle == [kind |-> "none", at |-> "idle", after |-> 0, size |-> 0, entry |-> NULL,
         reply |-> NoReply]

Init ==
    /\ serving = TRUE
    /\ requests = 0
    /\ thread = [t \in Threads |-> Idle]
    /\ computeOwner = NoThread
    /\ mailboxOwner = NoThread
    /\ revision = 0
    /\ heap = [e \in Entries |-> [revision |-> 0, bytes |-> 0, next |-> NULL]]
    /\ allocated = {}
    /\ first = NULL /\ last = NULL
    /\ count = 0 /\ bytes = 0
    /\ latest = 0

At(t, place) == serving /\ thread[t].at = place

-----------------------------------------------------------------------------
(* Connections                                                             *)

\* A fault: compute_lock is taken for every request.
FirstStopLocked(kind) ==
    IF kind = "shutdown" THEN "exits" ELSE "wants compute_lock"

\* Where handle() first waits: a POST takes compute_lock, GET gui_launch only
\* mailbox_lock, and /shutdown neither.
FirstStop(kind) ==
    CASE kind \in {"state", "launch"} -> "wants compute_lock"
      [] kind \in {"poll", "peek"} -> "wants mailbox_lock"
      [] OTHER -> "exits"

\* apo_serve() accepts a connection, and its thread reads the request.  A
\* request that handle() answers without either lock is not modelled.
AcceptConnection(t) ==
    /\ At(t, "idle")
    /\ requests < MaxRequests
    /\ requests' = requests + 1
    /\ \E kind \in Kinds, after \in Revisions :
          /\ kind \notin {"poll", "peek"} => after = 0
          /\ thread' = [thread EXCEPT ![t] =
                [Idle EXCEPT !.kind = kind, !.after = after, !.at = FirstStop(kind)]]
    /\ UNCHANGED <<serving, computeOwner, mailboxOwner, listVars>>

\* POST /shutdown: _exit(0), whatever the other threads are doing.
Shutdown(t) ==
    /\ At(t, "exits")
    /\ serving' = FALSE
    /\ UNCHANGED <<requests, thread, computeOwner, mailboxOwner, listVars>>

\* The reply is sent without a lock, and the thread ends.
Respond(t) ==
    /\ At(t, "responds")
    /\ thread' = [thread EXCEPT ![t] = Idle]
    /\ UNCHANGED <<serving, requests, computeOwner, mailboxOwner, listVars>>

-----------------------------------------------------------------------------
(* compute_lock                                                            *)

LockCompute(t) ==
    /\ At(t, "wants compute_lock")
    /\ computeOwner = NoThread
    /\ computeOwner' = t
    /\ thread' = [thread EXCEPT ![t].at = "computes"]
    /\ UNCHANGED <<serving, requests, mailboxOwner, listVars>>

\* The engine has run: a state request is done, and so is a launch that
\* fails; a valid launch is prepared and goes on to the mailbox.
FinishComputation(t) ==
    /\ At(t, "computes")
    /\ \/ thread' = [thread EXCEPT ![t].at = "unlocks compute_lock"]
       \/ /\ thread[t].kind = "launch"
          /\ \E size \in Sizes : thread' =
                [thread EXCEPT ![t].at = "wants mailbox_lock", ![t].size = size]
    /\ UNCHANGED <<serving, requests, computeOwner, mailboxOwner, listVars>>

UnlockCompute(t) ==
    /\ At(t, "unlocks compute_lock")
    /\ computeOwner' = NoThread
    /\ thread' = [thread EXCEPT ![t].at = "responds"]
    /\ UNCHANGED <<serving, requests, mailboxOwner, listVars>>

-----------------------------------------------------------------------------
(* mailbox_lock                                                            *)

LockMailbox(t) ==
    /\ At(t, "wants mailbox_lock")
    /\ mailboxOwner = NoThread
    /\ mailboxOwner' = t
    /\ thread' = [thread EXCEPT ![t].at =
          CASE thread[t].kind = "launch" -> "publishes"
            [] thread[t].kind = "poll" -> "frees"
            [] OTHER -> "reads"]
    /\ UNCHANGED <<serving, requests, computeOwner, listVars>>

UnlockMailbox(t) ==
    /\ At(t, "unlocks mailbox_lock")
    /\ mailboxOwner' = NoThread
    /\ thread' = [thread EXCEPT ![t].at =
          IF thread[t].kind = "launch" THEN "unlocks compute_lock" ELSE "responds"]
    /\ UNCHANGED <<serving, requests, computeOwner, listVars>>

\* A fault: the launch that asks for room is not counted itself.
FullWithoutIt(size) == count >= MaxCount \/ bytes >= MaxBytes

\* The capacity test of publish().
Full(size) == count >= MaxCount \/ bytes + size > MaxBytes

\* publish() finds the queue full, or calloc() fails.
RefuseLaunch(t) ==
    /\ At(t, "publishes")
    /\ thread' = [thread EXCEPT ![t].at = "unlocks mailbox_lock"]
    /\ UNCHANGED <<serving, requests, computeOwner, mailboxOwner, listVars>>

\* publish() has room: a new entry takes the next revision.
FillEntry(t) ==
    /\ At(t, "publishes")
    /\ ~Full(thread[t].size)
    /\ revision < MaxRevision
    /\ revision' = revision + 1
    /\ \E e \in Entries \ allocated :
          /\ allocated' = allocated \cup {e}
          /\ heap' = [heap EXCEPT ![e] =
                [revision |-> revision + 1, bytes |-> thread[t].size, next |-> NULL]]
          /\ thread' = [thread EXCEPT ![t].at = "links", ![t].entry = e]
    /\ UNCHANGED <<serving, requests, computeOwner, mailboxOwner, first, last, count,
                   bytes, latest>>

\* ... and goes to the back of the list, its text to launch_json.
LinkEntry(t) ==
    LET entry == thread[t].entry IN
    /\ At(t, "links")
    /\ IF last # NULL
       THEN heap' = [heap EXCEPT ![last].next = entry] /\ UNCHANGED first
       ELSE first' = entry /\ UNCHANGED heap
    /\ last' = entry
    /\ count' = count + 1
    /\ bytes' = bytes + heap[entry].bytes
    /\ latest' = heap[entry].revision
    /\ thread' = [thread EXCEPT
          ![t].at = "unlocks mailbox_lock", ![t].entry = NULL,
          ![t].reply = [revision |-> heap[entry].revision, launch |-> 0]]
    /\ UNCHANGED <<serving, requests, computeOwner, mailboxOwner, revision, allocated>>

Acknowledged(t) == first # NULL /\ heap[first].revision <= thread[t].after

\* A fault: the freed launch stays counted.
FreeHeadCounted(t) ==
    /\ At(t, "frees")
    /\ Acknowledged(t)
    /\ first' = heap[first].next
    /\ bytes' = bytes - heap[first].bytes
    /\ allocated' = allocated \ {first}
    /\ UNCHANGED <<serving, requests, thread, computeOwner, mailboxOwner, revision, heap,
                   last, count, latest>>

\* One round of the loop of read_mailbox(): the head is unlinked and freed.
FreeHead(t) ==
    /\ At(t, "frees")
    /\ Acknowledged(t)
    /\ first' = heap[first].next
    /\ count' = count - 1
    /\ bytes' = bytes - heap[first].bytes
    /\ allocated' = allocated \ {first}
    /\ UNCHANGED <<serving, requests, thread, computeOwner, mailboxOwner, revision, heap,
                   last, latest>>

\* A fault: launch_last is left pointing at a freed entry.
EndFreeingDangling(t) ==
    /\ At(t, "frees")
    /\ ~Acknowledged(t)
    /\ thread' = [thread EXCEPT ![t].at = "reads"]
    /\ UNCHANGED <<serving, requests, computeOwner, mailboxOwner, listVars>>

\* The loop ends, and an emptied list has no tail.
EndFreeing(t) ==
    /\ At(t, "frees")
    /\ ~Acknowledged(t)
    /\ last' = IF first = NULL THEN NULL ELSE last
    /\ thread' = [thread EXCEPT ![t].at = "reads"]
    /\ UNCHANGED <<serving, requests, computeOwner, mailboxOwner, revision, heap,
                   allocated, first, count, bytes, latest>>

\* A fault: the reply names the newest revision whatever launch it carries.
ReadReplyNewest(t) ==
    LET next == thread[t].kind = "poll"
        json == IF next THEN IF first # NULL THEN heap[first].revision ELSE 0
                ELSE latest
    IN
    /\ At(t, "reads")
    /\ thread' = [thread EXCEPT
          ![t].at = "unlocks mailbox_lock",
          ![t].reply = [revision |-> revision,
                        launch |-> IF json # 0 /\ revision > thread[t].after
                                   THEN json ELSE 0]]
    /\ UNCHANGED <<serving, requests, computeOwner, mailboxOwner, listVars>>

\* The reply: with next=1 the head of the list, else the newest launch, and
\* no launch (0) when there is none or `after` covers it.
ReadReply(t) ==
    LET next == thread[t].kind = "poll"
        json == IF next THEN IF first # NULL THEN heap[first].revision ELSE 0
                ELSE latest
        current == IF next /\ first # NULL THEN heap[first].revision ELSE revision
    IN
    /\ At(t, "reads")
    /\ thread' = [thread EXCEPT
          ![t].at = "unlocks mailbox_lock",
          ![t].reply = [revision |-> current,
                        launch |-> IF json # 0 /\ current > thread[t].after
                                   THEN json ELSE 0]]
    /\ UNCHANGED <<serving, requests, computeOwner, mailboxOwner, listVars>>

-----------------------------------------------------------------------------

Connection(t) == AcceptConnection(t) \/ Shutdown(t) \/ Respond(t)
Computing(t) == LockCompute(t) \/ FinishComputation(t) \/ UnlockCompute(t)
Publishing(t) == RefuseLaunch(t) \/ FillEntry(t) \/ LinkEntry(t)
Reading(t) == FreeHead(t) \/ EndFreeing(t) \/ ReadReply(t)
Locking(t) == LockMailbox(t) \/ UnlockMailbox(t)

Next ==
    \E t \in Threads :
        Connection(t) \/ Computing(t) \/ Publishing(t) \/ Reading(t) \/ Locking(t)

Spec == Init /\ [][Next]_vars

\* A thread that can run does, but a computation may take for ever.
Fairness ==
    \A t \in Threads :
        /\ WF_vars(LockCompute(t) \/ UnlockCompute(t))
        /\ WF_vars(Publishing(t) \/ Reading(t) \/ Locking(t))
        /\ WF_vars(Respond(t))

FairSpec == Spec /\ Fairness

-----------------------------------------------------------------------------
(* Properties                                                              *)

\* The entries reached from launch_first, in list order; a list without an
\* end would be cut off, longer than the heap has entries.
Chain ==
    LET walk[n \in 0..Cardinality(Entries)] ==
            IF n = 0 THEN <<>>
            ELSE LET seen == walk[n - 1]
                     next == IF seen = <<>> THEN first ELSE heap[seen[Len(seen)]].next
                 IN  IF next = NULL THEN seen ELSE Append(seen, next)
    IN  walk[Cardinality(Entries)]

\* The live entries but those the reader inside the lock is about to free;
\* the entry a publisher is about to link is one of them.
Waiting ==
    {e \in allocated : \A t \in Threads :
        thread[t].at = "frees" => heap[e].revision > thread[t].after}

\* What LaunchQueue calls pending: the waiting launches, oldest first.
Pending ==
    LET n == Cardinality(Waiting)
        nth(i) == heap[CHOOSE e \in Waiting : heap[e].revision = revision - n + i]
    IN  [i \in 1..n |-> [revision |-> revision - n + i, bytes |-> nth(i).bytes]]

Queue == INSTANCE LaunchQueue WITH pending <- Pending

\* Whenever mailbox_lock is free the list is sound: it ends at launch_last,
\* holds every live entry once and no freed one, and the counters that decide
\* about back-pressure count exactly what is in it.
ListSound ==
    mailboxOwner = NoThread =>
        LET chain == Chain IN
        /\ {chain[i] : i \in 1..Len(chain)} = allocated
        /\ Len(chain) = Cardinality(allocated)
        /\ last = IF chain = <<>> THEN NULL ELSE chain[Len(chain)]
        /\ count = Len(chain)
        /\ bytes = Queue!BytesOf([i \in 1..Len(chain) |-> heap[chain[i]]])

\* A thread never writes through a pointer to a freed entry.
NoFreedEntryTouched ==
    \A t \in Threads :
        /\ thread[t].at = "links" => last = NULL \/ last \in allocated
        /\ thread[t].at = "frees" => first = NULL \/ first \in allocated

\* A reply that carries a launch carries the one its revision names: the
\* page acknowledges what it was given.
ReplyNamesItsLaunch ==
    \A t \in Threads :
        thread[t].reply.launch # 0 => thread[t].reply.launch = thread[t].reply.revision

\* Seen through Pending, every step of the threads is an accepted launch, an
\* acknowledgement or nothing at all, with back-pressure where it was promised.
Implements == Queue!QueueSpec

\* A poll is answered however long a computation holds compute_lock.
PollAnswered ==
    \A t \in Threads :
        (thread[t].kind = "poll") ~> (thread[t].kind # "poll" \/ ~serving)
=============================================================================
