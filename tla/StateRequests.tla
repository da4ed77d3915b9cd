---------------------------- MODULE StateRequests ----------------------------
(* POST /api/APOSTRUCT/state in the long-lived GUI server: gui/server.c       *)
(* takes compute_lock, gui_state checks the request and calls st_state of     *)
(* core/run/pipeline.c, which runs the parent, selection and mode-detail      *)
(* stages, and the answer is assembled from the buffers those stages leave.   *)
(*                                                                            *)
(* The engine keeps its working state in statics of the process. Three of     *)
(* them reach an answer: md_err (the text of the last failure), md_vectors    *)
(* (the displacement vectors the answer's "$f64" placeholders point into) and *)
(* rat_overflow of core/child/structure.c (the overflow status of that        *)
(* translation unit's rational arithmetic).                                   *)
EXTENDS Naturals, Sequences, FiniteSets, SequencesExt

CONSTANTS
  Conn,     \* the connections, one thread and one request each
  Asks,     \* the requests a client may send
  NoConn    \* no connection

\* What the checks of the engine tell apart in a request.
\*   fails    the stage whose own checks refuse it ("none": no stage does)
\*   details  include_opd and include_mode_details
\*   verdict  what the mode details end with when no check fails
\*   exact    the selected subgroup's basis has an exact text
\*   bridge   the parent is in a nonstandard setting
\*   far      a site's coordinate overflows the exact bridge arithmetic
Ask == [fails   : {"none", "request", "parent", "select", "front", "cell", "layout", "text"},
        details : BOOLEAN,
        verdict : {"ok", "missing", "unsupported"},
        exact   : BOOLEAN,
        bridge  : BOOLEAN,
        far     : BOOLEAN]

ASSUME AsksAssumption == Asks \subseteq Ask /\ NoConn \notin Conn

VARIABLES
  pc,        \* where the thread of each connection is
  asks,      \* the request each connection carries
  answer,    \* the answer being assembled for it
  computing, \* the owner of compute_lock
  overflow,  \* rat_overflow of core/child/structure.c
  err,       \* md_err: whose failure it describes, and which
  vectors,   \* md_vectors: who pushed each vector
  served     \* history: the connections in the order they took the lock

statics == <<overflow, err, vectors>>
vars == <<pc, asks, answer, computing, overflow, err, vectors, served>>

NoAsk == [fails |-> "none", details |-> FALSE, verdict |-> "ok",
          exact |-> TRUE, bridge |-> FALSE, far |-> FALSE]

\* An answer: "error" with a reason, or "state" with the status of its mode
\* details; its reason, text and vectors name the request they come from.
Blank == [kind |-> "none", status |-> "none", reason |-> "none", of |-> {}]

Init ==
  /\ pc = [c \in Conn |-> "idle"]
  /\ asks = [c \in Conn |-> NoAsk]
  /\ answer = [c \in Conn |-> Blank]
  /\ computing = NoConn
  /\ overflow = FALSE
  /\ err = [of |-> NoConn, reason |-> "none"]
  /\ vectors = <<>>
  /\ served = <<>>

Goto(c, place) == pc' = [pc EXCEPT ![c] = place]
At(c, place) == pc[c] = place

(* ------------------------------------------------ the connection's thread *)
Arrive(c) ==
  /\ At(c, "idle")
  /\ \E a \in Asks : asks' = [asks EXCEPT ![c] = a]
  /\ Goto(c, "arrived")
  /\ UNCHANGED <<answer, computing, statics, served>>

\* A fault: POST handlers that do not wait for each other.
LockIgnored == TRUE

\* compute_lock can be taken.
LockFree == computing = NoConn

Lock(c) ==
  /\ At(c, "arrived")
  /\ LockFree
  /\ computing' = c
  /\ served' = Append(served, c)
  /\ Goto(c, "request")
  /\ UNCHANGED <<asks, answer, statics>>

\* A failure whose text stays in the request's own api_error.
Refuse(c, reason) ==
  /\ answer' = [answer EXCEPT ![c] = [kind |-> "error", status |-> "none",
                                      reason |-> reason, of |-> {c}]]
  /\ Goto(c, "leaving")

\* md_fail: the failure is described in md_err, to be read from there.
Fail(c, reason, place) ==
  /\ err' = [of |-> c, reason |-> reason]
  /\ Goto(c, place)

\* gui_state: state_request and the CIF summary are checked before the engine.
CheckRequest(c) ==
  /\ At(c, "request")
  /\ IF asks[c].fails = "request"
       THEN Refuse(c, "request")
       ELSE Goto(c, "parent") /\ UNCHANGED answer
  /\ UNCHANGED <<asks, computing, statics, served>>

\* st_state: the parent stage, then the selection; the first failing status
\* stops the rest.
ParentStage(c) ==
  /\ At(c, "parent")
  /\ IF asks[c].fails = "parent"
       THEN Fail(c, "parent", "failed")
       ELSE Goto(c, "select") /\ UNCHANGED err
  /\ UNCHANGED <<asks, answer, computing, overflow, vectors, served>>

SelectStage(c) ==
  /\ At(c, "select")
  /\ IF asks[c].fails = "select"
       THEN Fail(c, "select", "failed") /\ UNCHANGED answer
       ELSE /\ answer' = [answer EXCEPT ![c].kind = "state"]
            /\ Goto(c, IF asks[c].details THEN "load" ELSE "expand")
            /\ UNCHANGED err
  /\ UNCHANGED <<asks, computing, overflow, vectors, served>>

(* --------------------------------------------------------- mode details *)
Verdict(c, status, place) ==
  /\ answer' = [answer EXCEPT ![c].status = status]
  /\ Goto(c, place)

\* md_details: the vectors buffer is emptied, md_preflight may already hold
\* the answer, and the specifications and tables are read.
Load(c) ==
  /\ At(c, "load")
  /\ vectors' = <<>>
  /\ \/ /\ asks[c].verdict = "unsupported"
        /\ Verdict(c, "unsupported", "expand")
        /\ UNCHANGED err
     \/ /\ asks[c].verdict # "unsupported"
        /\ asks[c].fails = "front"
        /\ Fail(c, "front", "detailserror")
        /\ UNCHANGED answer
     \/ /\ asks[c].verdict # "unsupported"
        /\ asks[c].fails # "front"
        /\ Goto(c, "basis")
        /\ UNCHANGED <<answer, err>>
  /\ UNCHANGED <<asks, computing, overflow, served>>

\* A fault: the comparison with the snapped value does not reset the status.
OverflowNeverReset(a) == overflow

\* What basis_cinter_to_pml finds in rat_overflow when it has formed the
\* basis: a row with an exact text is taken as it is, any other is compared
\* with its snapped value, which resets the status first. A basis that is not
\* integral in the primitive lattice ("cell") is refused before the status is
\* looked at.
OverflowAtBasis(a) == overflow /\ a.exact

Basis(c) ==
  /\ At(c, "basis")
  /\ overflow' = OverflowAtBasis(asks[c])
  /\ \/ /\ asks[c].fails = "cell"
        /\ Fail(c, "cell", "detailserror")
     \/ /\ asks[c].fails # "cell"
        /\ OverflowAtBasis(asks[c])
        /\ Fail(c, "basis", "detailserror")
     \/ /\ asks[c].fails # "cell"
        /\ ~OverflowAtBasis(asks[c])
        /\ Goto(c, "sites")
        /\ UNCHANGED err
  /\ UNCHANGED <<asks, answer, computing, vectors, served>>

\* md_child_structure's sites. default_wyckoff_params carries a site's point
\* over the bridge, with the status reset first; a point out of range ends the
\* details there and the status stays set.
Sites(c) ==
  /\ At(c, "sites")
  /\ overflow' = IF asks[c].bridge THEN asks[c].far ELSE overflow
  /\ IF asks[c].bridge /\ asks[c].far
       THEN Fail(c, "point", "detailserror")
       ELSE Goto(c, "definitions") /\ UNCHANGED err
  /\ UNCHANGED <<asks, answer, computing, vectors, served>>

\* The rest of build: the layouts and the site loop may fail before or after
\* definitions were written; the vectors of a definition go to md_vectors.
Definitions(c) ==
  /\ At(c, "definitions")
  /\ \/ /\ asks[c].fails = "layout"
        /\ \E n \in 0..1 : vectors' = vectors \o [i \in 1..n |-> c]
        /\ Fail(c, "layout", "detailserror")
        /\ UNCHANGED answer
     \/ /\ asks[c].fails # "layout"
        /\ vectors' = IF asks[c].verdict = "ok" THEN Append(vectors, c) ELSE vectors
        /\ Verdict(c, asks[c].verdict, IF asks[c].verdict = "ok" THEN "text" ELSE "expand")
        /\ UNCHANGED err
  /\ UNCHANGED <<asks, computing, overflow, served>>

\* attach: a failure of the details is the state's answer for them.
DetailsError(c) ==
  /\ At(c, "detailserror")
  /\ answer' = [answer EXCEPT ![c] = [kind |-> "state", status |-> "error",
                                      reason |-> err.reason, of |-> {err.of}]]
  /\ Goto(c, "expand")
  /\ UNCHANGED <<asks, computing, statics, served>>

\* add_mode_text: written from the vectors, for details that are ok.
ModeText(c) ==
  /\ At(c, "text")
  /\ IF asks[c].fails = "text"
       THEN Fail(c, "text", "failed") /\ UNCHANGED answer
       ELSE /\ answer' = [answer EXCEPT ![c].of = @ \cup ToSet(vectors)]
            /\ Goto(c, "expand")
            /\ UNCHANGED err
  /\ UNCHANGED <<asks, computing, overflow, vectors, served>>

(* ------------------------------------------------------------ the answer *)
\* gui_state: the failure of a stage is read from md_err.
StageError(c) ==
  /\ At(c, "failed")
  /\ answer' = [answer EXCEPT ![c] = [kind |-> "error", status |-> "none",
                                      reason |-> err.reason, of |-> {err.of}]]
  /\ Goto(c, "leaving")
  /\ UNCHANGED <<asks, computing, statics, served>>

\* gui_state: each placeholder of ok details is replaced by its vector.
Expand(c) ==
  /\ At(c, "expand")
  /\ answer' = [answer EXCEPT ![c].of =
                  IF answer[c].status = "ok" THEN @ \cup ToSet(vectors) ELSE @]
  /\ Goto(c, "leaving")
  /\ UNCHANGED <<asks, computing, statics, served>>

\* A fault: a refused request returns from the handler with the lock held.
UnlockOnSuccess(c) == computing' = IF answer[c].kind = "error" THEN computing ELSE NoConn

Released(c) == computing' = NoConn

\* handle: the lock is released, then the answer is sent.
Leave(c) ==
  /\ At(c, "leaving")
  /\ Released(c)
  /\ Goto(c, "answered")
  /\ UNCHANGED <<asks, answer, statics, served>>

Stage(c) ==
  \/ CheckRequest(c) \/ ParentStage(c) \/ SelectStage(c)
  \/ Load(c) \/ Basis(c) \/ Sites(c) \/ Definitions(c) \/ DetailsError(c)
  \/ ModeText(c) \/ StageError(c) \/ Expand(c) \/ Leave(c)

AllAnswered == (\A c \in Conn : At(c, "answered")) /\ UNCHANGED vars

Next == (\E c \in Conn : Arrive(c) \/ Lock(c) \/ Stage(c)) \/ AllAnswered

Spec == Init /\ [][Next]_vars

\* A thread that holds the lock runs on, and one that waits for it takes it
\* when it is free: with as many requests as connections, no stronger promise
\* of the mutex is needed.
Fairness == \A c \in Conn : WF_vars(Lock(c)) /\ WF_vars(Stage(c))

FairSpec == Spec /\ Fairness
------------------------------------------------------------------------------
Places == {"idle", "arrived", "request", "parent", "select", "load", "basis", "sites",
           "definitions", "detailserror", "text", "failed", "expand", "leaving", "answered"}

Reasons == {"none", "request", "parent", "select", "front", "cell", "basis", "point", "layout", "text"}

\* What an answer and md_err may hold; an answer never names a failure that
\* nobody wrote to md_err.
Answers == [kind   : {"none", "error", "state"},
            status : {"none", "ok", "missing", "unsupported", "error"},
            reason : Reasons,
            of     : SUBSET Conn]
Failures == [of : Conn \cup {NoConn}, reason : Reasons]

\* Every variable holds what its C counterpart can hold.
TypeOK ==
  /\ pc \in [Conn -> Places]
  /\ asks \in [Conn -> Asks \cup {NoAsk}]
  /\ answer \in [Conn -> Answers]
  /\ computing \in Conn \cup {NoConn}
  /\ overflow \in BOOLEAN
  /\ err \in Failures
  /\ vectors \in Seq(Conn)
  /\ served \in Seq(Conn)

\* An answer is made of its own request alone: the failure it reports, its mode
\* text and the vectors its placeholders were replaced by were all left in the
\* statics by the request it answers, whatever other threads asked meanwhile
\* (handle holds compute_lock from the parsing to the last byte assembled).
AnswersOwnRequest == \A c \in Conn : At(c, "answered") => answer[c].of \subseteq {c}

\* The answer of a process that has served nothing else.
Failure(c, reason) == [kind |-> "error", status |-> "none", reason |-> reason, of |-> {c}]
Details(c, status, reason, of) == [kind |-> "state", status |-> status, reason |-> reason, of |-> of]
Alone(c) ==
  LET a == asks[c] IN
  CASE a.fails \in {"request", "parent", "select"} -> Failure(c, a.fails)
    [] a.fails \notin {"request", "parent", "select"} /\ ~a.details -> Details(c, "none", "none", {})
    [] OTHER ->
        CASE a.verdict = "unsupported" -> Details(c, "unsupported", "none", {})
          [] a.verdict # "unsupported" /\ a.fails \in {"front", "cell"} -> Details(c, "error", a.fails, {c})
          [] OTHER ->
              CASE a.bridge /\ a.far -> Details(c, "error", "point", {c})
                [] ~(a.bridge /\ a.far) /\ a.fails = "layout" -> Details(c, "error", "layout", {c})
                [] OTHER ->
                    IF a.verdict = "missing" THEN Details(c, "missing", "none", {})
                    ELSE IF a.fails = "text" THEN Failure(c, "text")
                    ELSE Details(c, "ok", "none", {c})

\* rational.h: "one status per translation unit (reset by each kernel entry)":
\* a request is answered as a process that served nothing before would answer
\* it. structure.c leaves its status set when a point is out of range, and the
\* next exact basis is refused for it.
AnsweredAsAlone == \A c \in Conn : At(c, "answered") => answer[c] = Alone(c)

\* How far that leak reaches. An answer differs from the one of a fresh process
\* only by the refusal of an exact basis, and exactly when the last request
\* before it that touched the status ended with a point out of range: no other
\* failure, and no partial result of another request, is ever carried over.
ReachesBasis(c) ==
  LET a == asks[c] IN
  /\ a.details
  /\ a.verdict # "unsupported"
  /\ a.fails \notin {"request", "parent", "select", "front"}
LeftOverflow(c) == answer[c].reason = "point"
ClearsOverflow(c) ==
  /\ ReachesBasis(c)
  /\ \/ ~asks[c].exact
     \/ asks[c].bridge /\ answer[c].reason \notin {"cell", "basis"}
Inherits(i) ==
  \E j \in 1..(i - 1) :
    /\ LeftOverflow(served[j])
    /\ \A k \in (j + 1)..(i - 1) : ~ClearsOverflow(served[k])
LeakIsOverflowOnly ==
  \A i \in DOMAIN served :
    LET c == served[i] IN
    At(c, "answered") =>
      answer[c] = IF ReachesBasis(c) /\ asks[c].fails # "cell" /\ asks[c].exact /\ Inherits(i)
                    THEN Details(c, "error", "basis", {c}) ELSE Alone(c)

\* Every request that arrived is answered: each early return of gui_state and
\* handle passes the unlock.
EveryRequestAnswered == \A c \in Conn : At(c, "arrived") ~> At(c, "answered")
==============================================================================
