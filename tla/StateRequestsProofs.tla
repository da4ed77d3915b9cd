------------------------- MODULE StateRequestsProofs -------------------------
(* Proofs about StateRequests, for any number of connections and any set of   *)
(* requests. IInv says which thread each of the engine's statics belongs to   *)
(* while a request is worked on: only the owner of compute_lock is inside the *)
(* handler, and what a later step of its request reads from md_err and        *)
(* md_vectors was left there by the same request. LeakInv adds the order in   *)
(* which they were served, and how rat_overflow is handed from one to the     *)
(* next.                                                                      *)
EXTENDS StateRequests, TLAPS

Inside == {"request", "parent", "select", "load", "basis", "sites", "definitions",
           "detailserror", "text", "failed", "expand", "leaving"}

BeforeVerdict == {"idle", "arrived", "request", "parent", "select", "load", "basis",
                  "sites", "definitions"}

VectorsOf(c) == \A i \in DOMAIN vectors : vectors[i] = c

\* What holds of one thread.
Own(c) ==
  /\ pc[c] \in Inside => computing = c
  /\ answer[c].of \subseteq {c}
  /\ pc[c] \in BeforeVerdict => answer[c].status # "ok"
  /\ pc[c] \in {"failed", "detailserror"} => err.of = c
  /\ pc[c] \in {"basis", "sites", "definitions", "text"} => VectorsOf(c)
  /\ pc[c] = "expand" /\ answer[c].status = "ok" => VectorsOf(c)

IInv == TypeOK /\ \A c \in Conn : Own(c)
------------------------------------------------------------------------------
\* A step of a thread inside the handler leaves every other thread's part of
\* the invariant alone, whatever it does to the statics: no other thread is
\* inside.
LEMMA OthersKeep ==
  ASSUME TypeOK, \A e \in Conn : Own(e),
         NEW c \in Conn, NEW d \in Conn, d # c,
         pc[c] \in Inside,
         pc'[d] = pc[d], answer'[d] = answer[d]
  PROVE  Own(d)'
<1>1. computing = c
  BY DEF Own
<1>2. pc[d] \notin Inside
  BY <1>1 DEF Own
<1>3. /\ answer[d].of \subseteq {d}
      /\ pc[d] \in BeforeVerdict => answer[d].status # "ok"
  BY DEF Own
<1> QED BY <1>2, <1>3 DEF Own, Inside

\* What the steps write into an answer and into md_err is well typed.
LEMMA AnswerTypes ==
  ASSUME NEW c \in Conn, NEW a \in Answers
  PROVE  /\ Blank \in Answers
         /\ \A kind \in {"error", "state"}, status \in {"none", "error"}, reason \in Reasons :
              [kind |-> kind, status |-> status, reason |-> reason, of |-> {c}] \in Answers
         /\ [a EXCEPT !.kind = "state"] \in Answers
         /\ \A status \in {"ok", "missing", "unsupported"} : [a EXCEPT !.status = status] \in Answers
         /\ \A of \in SUBSET Conn : [a EXCEPT !.of = of] \in Answers
         /\ \A reason \in Reasons : [of |-> c, reason |-> reason] \in Failures
BY DEF Answers, Failures, Blank, Reasons

\* Changing one field of an answer leaves the others.
LEMMA AnswerFields ==
  ASSUME NEW a \in Answers
  PROVE  /\ [a EXCEPT !.kind = "state"].of = a.of
         /\ [a EXCEPT !.kind = "state"].status = a.status
         /\ \A status \in {"ok", "missing", "unsupported"} :
              /\ [a EXCEPT !.status = status].of = a.of
              /\ [a EXCEPT !.status = status].status = status
         /\ \A of \in SUBSET Conn :
              /\ [a EXCEPT !.of = of].of = of
              /\ [a EXCEPT !.of = of].status = a.status
BY DEF Answers

\* The initial states.
LEMMA InitIInv == Init => IInv
<1> SUFFICES ASSUME Init PROVE IInv
  OBVIOUS
<1>1. TypeOK
  <2>1. ASSUME NEW c \in Conn PROVE Blank \in Answers
    BY DEF Blank, Answers, Reasons
  <2>2. [of |-> NoConn, reason |-> "none"] \in Failures
    BY DEF Failures, Reasons
  <2>3. <<>> \in Seq(Conn)
    OBVIOUS
  <2>4. pc \in [Conn -> Places] /\ answer \in [Conn -> Answers] /\ asks \in [Conn -> Asks \cup {NoAsk}]
    BY <2>1 DEF Init, Places
  <2> QED BY <2>2, <2>3, <2>4 DEF Init, TypeOK
<1>2. \A c \in Conn : Own(c)
  BY DEF Init, Own, Blank, Inside
<1> QED BY <1>1, <1>2 DEF IInv

\* A thread enters the handler only when no other is inside.
LEMMA EntryKeeps ==
  ASSUME IInv, NEW c \in Conn, Arrive(c) \/ Lock(c)
  PROVE  IInv'
<1>1. TypeOK'
  <2>1. CASE Arrive(c)
    BY <2>1 DEF IInv, TypeOK, Arrive, Goto, statics, Places
  <2>2. CASE Lock(c)
    BY <2>2 DEF IInv, TypeOK, Lock, Goto, statics, Places
  <2> QED BY <2>1, <2>2
<1>2. ASSUME NEW d \in Conn PROVE Own(d)'
  <2>1. CASE Arrive(c)
    BY <2>1 DEF IInv, TypeOK, Own, VectorsOf, Inside, BeforeVerdict, Arrive, At, Goto, statics
  <2>2. CASE Lock(c)
    <3>1. \A e \in Conn : pc[e] \notin Inside
      BY <2>2, AsksAssumption DEF IInv, Own, Lock, LockFree
    <3>2. /\ answer' = answer
          /\ pc'[d] = IF d = c THEN "request" ELSE pc[d]
          /\ pc[c] = "arrived" /\ computing' = c
      BY <2>2 DEF IInv, TypeOK, Lock, At, Goto, statics
    <3> QED BY <3>1, <3>2 DEF IInv, Own, Inside, BeforeVerdict
  <2> QED BY <2>1, <2>2
<1> QED BY <1>1, <1>2 DEF IInv

\* The steps up to the mode details.
LEMMA StagesKeep ==
  ASSUME IInv, NEW c \in Conn, CheckRequest(c) \/ ParentStage(c) \/ SelectStage(c) \/ Load(c)
  PROVE  IInv'
<1> USE DEF IInv
<1>1. TypeOK'
  <2>0. /\ answer[c] \in Answers
        /\ {"request", "parent", "select", "front"} \subseteq Reasons
    BY DEF TypeOK, Reasons
  <2>1. CASE CheckRequest(c)
    <3>1. answer' \in [Conn -> Answers]
      BY <2>0, <2>1, AnswerTypes DEF TypeOK, CheckRequest, Refuse
    <3> QED BY <2>1, <3>1 DEF TypeOK, CheckRequest, Refuse, Goto, statics, Places
  <2>2. CASE ParentStage(c)
    <3>1. err' \in Failures
      BY <2>0, <2>2, AnswerTypes DEF TypeOK, ParentStage, Fail
    <3> QED BY <2>2, <3>1 DEF TypeOK, ParentStage, Fail, Goto, Places
  <2>3. CASE SelectStage(c)
    <3>1. answer' \in [Conn -> Answers] /\ err' \in Failures
      BY <2>0, <2>3, AnswerTypes DEF TypeOK, SelectStage, Fail
    <3> QED BY <2>3, <3>1 DEF TypeOK, SelectStage, Fail, Goto, Places
  <2>4. CASE Load(c)
    <3>1. answer' \in [Conn -> Answers] /\ err' \in Failures
      BY <2>0, <2>4, AnswerTypes DEF TypeOK, Load, Fail, Verdict
    <3>2. vectors' \in Seq(Conn)
      BY <2>4 DEF Load
    <3> QED BY <2>4, <3>1, <3>2 DEF TypeOK, Load, Fail, Verdict, Goto, Places
  <2> QED BY <2>1, <2>2, <2>3, <2>4
<1>2. pc[c] \in {"request", "parent", "select", "load"}
  BY DEF CheckRequest, ParentStage, SelectStage, Load, At
<1>3. ASSUME NEW d \in Conn, d # c PROVE Own(d)'
  <2>1. pc'[d] = pc[d] /\ answer'[d] = answer[d]
    BY <1>3 DEF TypeOK, CheckRequest, ParentStage, SelectStage, Load, Refuse, Fail, Verdict, Goto
  <2>2. pc[c] \in Inside
    BY <1>2 DEF Inside
  <2> QED BY <2>1, <2>2, <1>3, OthersKeep
<1>4. Own(c)'
  <2>1. CASE CheckRequest(c)
    BY <2>1 DEF TypeOK, Own, Inside, BeforeVerdict, CheckRequest, Refuse, At, Goto, statics
  <2>2. CASE ParentStage(c)
    BY <2>2 DEF TypeOK, Own, Inside, BeforeVerdict, ParentStage, Fail, At, Goto
  <2>3. CASE SelectStage(c)
    <3>1. answer[c] \in Answers /\ computing = c /\ answer[c].of \subseteq {c} /\ answer[c].status # "ok"
      BY <2>3 DEF TypeOK, Own, SelectStage, At, Inside, BeforeVerdict
    <3>2. answer'[c].of = answer[c].of /\ answer'[c].status = answer[c].status
      <4>1. answer'[c] = answer[c] \/ answer'[c] = [answer[c] EXCEPT !.kind = "state"]
        BY <2>3 DEF TypeOK, SelectStage
      <4> QED BY <3>1, <4>1, AnswerFields
    <3>3. /\ pc'[c] \in {"failed", "load", "expand"} /\ computing' = computing
          /\ pc'[c] = "failed" => err'.of = c
      BY <2>3 DEF TypeOK, SelectStage, Fail, Goto
    <3> QED BY <3>1, <3>2, <3>3 DEF Own
  <2>4. CASE Load(c)
    <3>1. answer[c] \in Answers /\ computing = c /\ answer[c].of \subseteq {c} /\ answer[c].status # "ok"
      BY <2>4 DEF TypeOK, Own, Load, At, Inside, BeforeVerdict
    <3>2. answer'[c].of = answer[c].of /\ answer'[c].status # "ok"
      <4>1. answer'[c] = answer[c] \/ answer'[c] = [answer[c] EXCEPT !.status = "unsupported"]
        BY <2>4 DEF TypeOK, Load, Verdict
      <4> QED BY <3>1, <4>1, AnswerFields
    <3>3. /\ pc'[c] \in {"detailserror", "basis", "expand"} /\ computing' = computing
          /\ pc'[c] = "detailserror" => err'.of = c
          /\ vectors' = <<>>
      BY <2>4 DEF TypeOK, Load, Fail, Verdict, Goto
    <3> QED BY <3>1, <3>2, <3>3 DEF Own, VectorsOf
  <2> QED BY <2>1, <2>2, <2>3, <2>4
<1> QED BY <1>3, <1>4, <1>1

\* The steps of the mode details.
LEMMA DetailsKeep ==
  ASSUME IInv, NEW c \in Conn, Basis(c) \/ Sites(c) \/ Definitions(c) \/ DetailsError(c)
  PROVE  IInv'
<1> USE DEF IInv
<1>0. asks[c] \in Ask
  <2>1. NoAsk \in Ask
    BY DEF NoAsk, Ask
  <2> QED BY <2>1, AsksAssumption DEF TypeOK
<1>1. TypeOK'
  <2>0. /\ answer[c] \in Answers
        /\ {"cell", "basis", "point", "layout"} \subseteq Reasons
    BY DEF TypeOK, Reasons
  <2>1. CASE Basis(c)
    <3>1. err' \in Failures
      BY <2>0, <2>1, AnswerTypes DEF TypeOK, Basis, Fail
    <3>2. overflow' \in BOOLEAN
      BY <2>1 DEF Basis, OverflowAtBasis
    <3> QED BY <2>1, <3>1, <3>2 DEF TypeOK, Basis, Fail, Goto, Places
  <2>2. CASE Sites(c)
    <3>1. err' \in Failures
      BY <2>0, <2>2, AnswerTypes DEF TypeOK, Sites, Fail
    <3>2. overflow' \in BOOLEAN
      BY <2>2, <1>0 DEF TypeOK, Sites, Ask
    <3> QED BY <2>2, <3>1, <3>2 DEF TypeOK, Sites, Fail, Goto, Places
  <2>3. CASE Definitions(c)
    <3>1. vectors' \in Seq(Conn)
      <4>1. CASE vectors' = Append(vectors, c) \/ vectors' = vectors
        BY <4>1 DEF TypeOK
      <4>2. ASSUME NEW n \in 0..1, vectors' = vectors \o [i \in 1..n |-> c] PROVE vectors' \in Seq(Conn)
        <5>1. [i \in 1..n |-> c] \in Seq(Conn)
          OBVIOUS
        <5>2. vectors \in Seq(Conn)
          BY DEF TypeOK
        <5> QED BY <4>2, <5>1, <5>2
      <4> QED BY <2>3, <4>1, <4>2 DEF Definitions
    <3>2. CASE asks[c].fails = "layout"
      <4>1. answer' = answer /\ err' \in Failures
        BY <2>0, <2>3, <3>2, AnswerTypes DEF Definitions, Fail
      <4> QED BY <2>3, <3>1, <3>2, <4>1 DEF TypeOK, Definitions, Fail, Goto, Places
    <3>3. CASE asks[c].fails # "layout"
      <4>1. pc[c] = "definitions" /\ pc' \in [Conn -> Places]
        BY <2>3, <3>3 DEF TypeOK, Definitions, Verdict, At, Goto, Places
      <4>2. asks[c].verdict \in {"ok", "missing", "unsupported"}
        BY <1>0 DEF Ask
      <4>3. [answer[c] EXCEPT !.status = asks[c].verdict] \in Answers
        BY <2>0, <4>2, AnswerTypes
      <4>4. answer' = [answer EXCEPT ![c] = [answer[c] EXCEPT !.status = asks[c].verdict]]
        BY <2>3, <3>3 DEF Definitions, Verdict
      <4>5. answer' \in [Conn -> Answers]
        BY <4>3, <4>4 DEF TypeOK
      <4> QED BY <2>3, <3>1, <3>3, <4>1, <4>5 DEF TypeOK, Definitions
    <3> QED BY <3>2, <3>3
  <2>4. CASE DetailsError(c)
    <3>1. err.of = c /\ err.reason \in Reasons
      BY <2>4 DEF Own, DetailsError, At, TypeOK, Failures
    <3>2. answer' \in [Conn -> Answers]
      BY <2>4, <3>1, AnswerTypes, <2>0 DEF TypeOK, DetailsError
    <3> QED BY <2>4, <3>2 DEF TypeOK, DetailsError, Goto, statics, Places
  <2> QED BY <2>1, <2>2, <2>3, <2>4
<1>2. pc[c] \in {"basis", "sites", "definitions", "detailserror"}
  BY DEF Basis, Sites, Definitions, DetailsError, At
<1>3. ASSUME NEW d \in Conn, d # c PROVE Own(d)'
  <2>1. pc'[d] = pc[d] /\ answer'[d] = answer[d]
    BY <1>3 DEF TypeOK, Basis, Sites, Definitions, DetailsError, Fail, Verdict, Goto
  <2>2. pc[c] \in Inside
    BY <1>2 DEF Inside
  <2> QED BY <2>1, <2>2, <1>3, OthersKeep
<1>4. Own(c)'
  <2>1. CASE Basis(c)
    BY <2>1 DEF TypeOK, Own, VectorsOf, Inside, BeforeVerdict, Basis, Fail, At, Goto
  <2>2. CASE Sites(c)
    BY <2>2 DEF TypeOK, Own, VectorsOf, Inside, BeforeVerdict, Sites, Fail, At, Goto
  <2>3. CASE Definitions(c)
    <3>1. VectorsOf(c) /\ computing = c /\ answer[c].of \subseteq {c}
      BY <2>3 DEF Own, Definitions, At, Inside
    <3>2. CASE asks[c].fails = "layout"
      <4>1. /\ pc'[c] = "detailserror" /\ err'.of = c
            /\ answer' = answer /\ computing' = computing
        BY <2>3, <3>2 DEF TypeOK, Definitions, Fail, Goto
      <4> QED BY <3>1, <4>1 DEF Own, BeforeVerdict
    <3>3. CASE asks[c].fails # "layout"
      <4>1. /\ answer'[c].of = answer[c].of
            /\ answer'[c].status = asks[c].verdict
            /\ pc'[c] = IF asks[c].verdict = "ok" THEN "text" ELSE "expand"
            /\ computing' = computing
            /\ asks[c].verdict = "ok" => vectors' = Append(vectors, c)
        <5>1. answer[c] \in Answers /\ asks[c].verdict \in {"ok", "missing", "unsupported"}
          BY <1>0 DEF TypeOK, Ask
        <5>2. answer'[c] = [answer[c] EXCEPT !.status = asks[c].verdict]
          BY <2>3, <3>3 DEF TypeOK, Definitions, Verdict
        <5>3. answer'[c].of = answer[c].of /\ answer'[c].status = asks[c].verdict
          BY <5>1, <5>2, AnswerFields
        <5> QED BY <2>3, <3>3, <5>3 DEF TypeOK, Definitions, Verdict, Goto
      <4>2. asks[c].verdict = "ok" => VectorsOf(c)'
        BY <3>1, <4>1 DEF TypeOK, VectorsOf
      <4> QED BY <3>1, <4>1, <4>2 DEF Own, BeforeVerdict
    <3> QED BY <3>2, <3>3
  <2>4. CASE DetailsError(c)
    <3>1. err.of = c
      BY <2>4 DEF Own, DetailsError, At
    <3> QED BY <2>4, <3>1 DEF TypeOK, Own, Inside, BeforeVerdict, DetailsError, At, Goto, statics
  <2> QED BY <2>1, <2>2, <2>3, <2>4
<1> QED BY <1>3, <1>4, <1>1

\* The steps that read the statics into the answer, and the unlock.
LEMMA AnswerKeeps ==
  ASSUME IInv, NEW c \in Conn, ModeText(c) \/ StageError(c) \/ Expand(c) \/ Leave(c)
  PROVE  IInv'
<1> USE DEF IInv
<1>1. pc[c] \in {"text", "failed", "expand", "leaving"}
  BY DEF ModeText, StageError, Expand, Leave, At
<1>2. ASSUME VectorsOf(c) PROVE ToSet(vectors) \subseteq {c}
  BY <1>2 DEF ToSet, VectorsOf
<1>3. ASSUME NEW d \in Conn, d # c PROVE Own(d)'
  <2>1. pc'[d] = pc[d] /\ answer'[d] = answer[d]
    BY <1>3 DEF TypeOK, ModeText, StageError, Expand, Leave, Fail, Goto
  <2>2. pc[c] \in Inside
    BY <1>1 DEF Inside
  <2> QED BY <2>1, <2>2, <1>3, OthersKeep
<1>4. TypeOK' /\ Own(c)'
  <2>0. answer[c] \in Answers /\ "text" \in Reasons
    BY DEF TypeOK, Reasons
  <2>1. CASE ModeText(c)
    <3>1. VectorsOf(c) /\ ToSet(vectors) \subseteq {c}
      BY <2>1, <1>2 DEF Own, ModeText, At
    <3>2. TypeOK'
      <4>1. answer[c].of \cup ToSet(vectors) \in SUBSET Conn
        BY <3>1 DEF Own
      <4>2. [answer[c] EXCEPT !.of = answer[c].of \cup ToSet(vectors)] \in Answers
        BY <2>0, <4>1, AnswerTypes
      <4>3. answer' \in [Conn -> Answers]
        BY <2>1, <4>2 DEF TypeOK, ModeText
      <4>4. err' \in Failures
        BY <2>0, <2>1, AnswerTypes DEF TypeOK, ModeText, Fail
      <4> QED BY <2>1, <4>3, <4>4 DEF TypeOK, ModeText, Fail, Goto, Places
    <3>3. Own(c)'
      <4>1. answer[c].of \subseteq {c} /\ computing = c
        BY <2>1 DEF Own, ModeText, At, Inside
      <4>2. CASE asks[c].fails = "text"
        <5>1. pc'[c] = "failed" /\ err'.of = c /\ answer' = answer /\ computing' = computing
          BY <2>1, <4>2 DEF TypeOK, ModeText, Fail, Goto
        <5> QED BY <4>1, <5>1 DEF Own, BeforeVerdict
      <4>3. CASE asks[c].fails # "text"
        <5>1. /\ pc'[c] = "expand" /\ computing' = computing /\ vectors' = vectors
              /\ answer'[c] = [answer[c] EXCEPT !.of = @ \cup ToSet(vectors)]
          BY <2>1, <4>3 DEF TypeOK, ModeText, Goto
        <5>2. answer'[c].of = answer[c].of \cup ToSet(vectors)
          BY <2>0, <3>1, <4>1, <5>1, AnswerFields
        <5> QED BY <3>1, <4>1, <5>1, <5>2 DEF Own, VectorsOf, BeforeVerdict
      <4> QED BY <4>2, <4>3
    <3> QED BY <3>2, <3>3
  <2>2. CASE StageError(c)
    <3>1. err.of = c /\ err.reason \in Reasons
      BY <2>2 DEF Own, StageError, At, TypeOK, Failures
    <3>2. TypeOK'
      <4>1. answer' \in [Conn -> Answers]
        BY <2>0, <2>2, <3>1, AnswerTypes DEF TypeOK, StageError
      <4> QED BY <2>2, <4>1 DEF TypeOK, StageError, Goto, statics, Places
    <3>3. Own(c)'
      BY <2>2, <3>1 DEF TypeOK, Own, Inside, BeforeVerdict, StageError, At, Goto, statics
    <3> QED BY <3>2, <3>3
  <2>3. CASE Expand(c)
    <3>1. answer[c].status = "ok" => ToSet(vectors) \subseteq {c}
      BY <2>3, <1>2 DEF Own, Expand, At
    <3>2. TypeOK'
      <4>1. answer[c].of \subseteq {c}
        BY DEF Own
      <4>2. (IF answer[c].status = "ok" THEN answer[c].of \cup ToSet(vectors) ELSE answer[c].of) \in SUBSET Conn
        BY <3>1, <4>1
      <4>3. answer' \in [Conn -> Answers]
        BY <2>0, <2>3, <4>2, AnswerTypes DEF TypeOK, Expand
      <4> QED BY <2>3, <4>3 DEF TypeOK, Expand, Goto, statics, Places
    <3>3. Own(c)'
      BY <2>3, <3>1 DEF TypeOK, Own, Inside, BeforeVerdict, Expand, At, Goto, statics
    <3> QED BY <3>2, <3>3
  <2>4. CASE Leave(c)
    <3>1. TypeOK'
      BY <2>4 DEF TypeOK, Leave, Released, Goto, statics, Places
    <3>2. Own(c)'
      BY <2>4 DEF TypeOK, Own, Inside, BeforeVerdict, Leave, At, Goto, statics
    <3> QED BY <3>1, <3>2
  <2> QED BY <2>1, <2>2, <2>3, <2>4
<1> QED BY <1>3, <1>4

\* IInv is inductive.
LEMMA StepIInv == IInv /\ [Next]_vars => IInv'
<1> SUFFICES ASSUME IInv, [Next]_vars PROVE IInv'
  OBVIOUS
<1>1. CASE UNCHANGED vars
  BY <1>1 DEF IInv, TypeOK, Own, VectorsOf, vars
<1>2. ASSUME NEW c \in Conn, Arrive(c) \/ Lock(c) PROVE IInv'
  BY <1>2, EntryKeeps
<1>3. ASSUME NEW c \in Conn, Stage(c) PROVE IInv'
  BY <1>3, StagesKeep, DetailsKeep, AnswerKeeps DEF Stage
<1> QED BY <1>1, <1>2, <1>3 DEF Next, AllAnswered
------------------------------------------------------------------------------
\* The statics belong to the thread inside the handler in every reachable
\* state.
THEOREM StaticsOwned == Spec => []IInv
<1> QED BY InitIInv, StepIInv, PTL DEF Spec

\* Every state of request serving is well typed: in particular no answer
\* names a failure that was never written to md_err.
THEOREM TypeCorrect == Spec => []TypeOK
<1>1. IInv => TypeOK
  BY DEF IInv
<1> QED BY <1>1, StaticsOwned, PTL

\* An answer is made of its own request alone, however many threads ask at
\* once and in whatever order they get compute_lock.
THEOREM OwnAnswers == Spec => []AnswersOwnRequest
<1>1. IInv => AnswersOwnRequest
  BY DEF IInv, Own, AnswersOwnRequest
<1> QED BY <1>1, StaticsOwned, PTL

------------------------------------------------------------------------------
(* What one request leaves to the next *)

(* The answer to a request that found rat_overflow as `inherited` says, and  *)
(* what it leaves in it.                                                     *)
Result(c, inherited) ==
  IF ReachesBasis(c) /\ asks[c].fails # "cell" /\ asks[c].exact /\ inherited
    THEN Details(c, "error", "basis", {c}) ELSE Alone(c)

Leaves(c, inherited, reason) ==
  \/ reason = "point"
  \/ /\ inherited
     /\ ~ /\ ReachesBasis(c)
          /\ ~asks[c].exact \/ (asks[c].bridge /\ reason \notin {"cell", "basis"})

(* What the checks before a place have let pass. *)
Passed(c, inherited) ==
  LET a == asks[c] IN
  /\ pc[c] \in {"parent", "select", "load", "basis", "sites", "definitions", "text"} =>
       a.fails # "request"
  /\ pc[c] \in {"select", "load", "basis", "sites", "definitions", "text"} => a.fails # "parent"
  /\ pc[c] \in {"load", "basis", "sites", "definitions", "text"} => a.fails # "select" /\ a.details
  /\ pc[c] \in {"basis", "sites", "definitions", "text"} => a.verdict # "unsupported" /\ a.fails # "front"
  /\ pc[c] \in {"sites", "definitions", "text"} => a.fails # "cell" /\ ~(inherited /\ a.exact)
  /\ pc[c] \in {"definitions", "text"} => ~(a.bridge /\ a.far)
  /\ pc[c] = "text" => a.fails # "layout" /\ a.verdict = "ok" /\ vectors # <<>>

(* What a place finds in the status and in the answer. *)
Holds(c, inherited) ==
  /\ pc[c] \in {"request", "parent", "select", "load", "basis"} => (overflow <=> inherited)
  /\ pc[c] \in {"sites", "definitions", "text"} => ~overflow
  /\ pc[c] \in {"request", "parent", "select"} => answer[c] = Blank
  /\ pc[c] \in {"load", "basis", "sites", "definitions", "detailserror"} =>
       answer[c] = Details(c, "none", "none", {})
  /\ pc[c] = "text" => answer[c] = Details(c, "ok", "none", {})
  /\ pc[c] = "detailserror" =>
       /\ Details(c, "error", err.reason, {c}) = Result(c, inherited)
       /\ overflow <=> Leaves(c, inherited, err.reason)
  /\ pc[c] = "failed" =>
       /\ Failure(c, err.reason) = Result(c, inherited)
       /\ overflow <=> Leaves(c, inherited, err.reason)
  /\ pc[c] \in {"expand", "leaving"} =>
       /\ answer[c] = Result(c, inherited)
       /\ overflow <=> Leaves(c, inherited, answer[c].reason)

(* The requests were served one after the other. *)
InTurn ==
  /\ \A i, j \in 1..Len(served) : served[i] = served[j] => i = j
  /\ \A c \in Conn : At(c, "idle") \/ At(c, "arrived") =>
       answer[c] = Blank /\ \A i \in 1..Len(served) : served[i] # c
  /\ \A i \in 1..Len(served) : At(served[i], "answered") \/ served[i] = computing
  /\ computing # NoConn =>
       served # <<>> /\ computing = served[Len(served)] /\ pc[computing] \in Inside

LeakInv ==
  /\ IInv
  /\ InTurn
  /\ \A i \in 1..Len(served) :
       At(served[i], "answered") => answer[served[i]] = Result(served[i], Inherits(i))
  /\ computing = NoConn => (overflow <=> Inherits(Len(served) + 1))
  /\ computing # NoConn =>
       Passed(computing, Inherits(Len(served))) /\ Holds(computing, Inherits(Len(served)))

------------------------------------------------------------------------------
\* The requests, the one of a connection that has not asked among them.
LEMMA AskOf ==
  ASSUME TypeOK, NEW c \in Conn
  PROVE  asks[c] \in Ask /\ answer[c] \in Answers
<1>1. NoAsk \in Ask
  BY DEF NoAsk, Ask
<1> QED BY <1>1, AsksAssumption DEF TypeOK

\* What a request ends with, case by case in the order of its checks.
LEMMA Results ==
  ASSUME NEW c, asks[c] \in Ask, NEW inherited \in BOOLEAN
  PROVE  LET a == asks[c]
             known == a.fails \notin {"request", "parent", "select"}
             basis == known /\ a.details /\ a.verdict # "unsupported" /\ a.fails # "front"
             sites == basis /\ a.fails # "cell" /\ ~(inherited /\ a.exact)
             rest == sites /\ ~(a.bridge /\ a.far)
         IN  /\ ~known => Result(c, inherited) = Failure(c, a.fails)
             /\ known /\ ~a.details => Result(c, inherited) = Details(c, "none", "none", {})
             /\ known /\ a.details /\ a.verdict = "unsupported" =>
                  Result(c, inherited) = Details(c, "unsupported", "none", {})
             /\ known /\ a.details /\ a.verdict # "unsupported" /\ a.fails = "front" =>
                  Result(c, inherited) = Details(c, "error", "front", {c})
             /\ basis /\ a.fails = "cell" => Result(c, inherited) = Details(c, "error", "cell", {c})
             /\ basis /\ a.fails # "cell" /\ inherited /\ a.exact =>
                  Result(c, inherited) = Details(c, "error", "basis", {c})
             /\ sites /\ a.bridge /\ a.far => Result(c, inherited) = Details(c, "error", "point", {c})
             /\ rest /\ a.fails = "layout" => Result(c, inherited) = Details(c, "error", "layout", {c})
             /\ rest /\ a.fails # "layout" /\ a.verdict = "missing" =>
                  Result(c, inherited) = Details(c, "missing", "none", {})
             /\ rest /\ a.fails = "text" /\ a.verdict = "ok" =>
                  Result(c, inherited) = Failure(c, "text")
             /\ rest /\ a.fails \notin {"layout", "text"} /\ a.verdict = "ok" =>
                  Result(c, inherited) = Details(c, "ok", "none", {c})
             /\ ReachesBasis(c) <=> basis
<1>1. /\ asks[c].verdict \in {"ok", "missing", "unsupported"}
      /\ asks[c].details \in BOOLEAN /\ asks[c].exact \in BOOLEAN
      /\ asks[c].bridge \in BOOLEAN /\ asks[c].far \in BOOLEAN
  BY DEF Ask
<1>2. ReachesBasis(c) <=> /\ asks[c].fails \notin {"request", "parent", "select"}
                          /\ asks[c].details /\ asks[c].verdict # "unsupported"
                          /\ asks[c].fails # "front"
  BY DEF ReachesBasis
<1> QED BY <1>1, <1>2 DEF Result, Alone

\* The parts of an answer.
LEMMA Parts ==
  /\ \A c, reason : Failure(c, reason).reason = reason /\ Failure(c, reason).status = "none"
  /\ \A c, status, reason, of :
       /\ Details(c, status, reason, of).reason = reason
       /\ Details(c, status, reason, of).status = status
       /\ Details(c, status, reason, of).of = of
  /\ \A c : [Blank EXCEPT !.kind = "state"] = Details(c, "none", "none", {})
  /\ \A c, status :
       [Details(c, "none", "none", {}) EXCEPT !.status = status] = Details(c, status, "none", {})
BY DEF Failure, Details, Blank

\* The steps before the details.
LEMMA FrontAdvances ==
  ASSUME IInv, NEW c \in Conn, NEW inherited \in BOOLEAN,
         Passed(c, inherited), Holds(c, inherited),
         CheckRequest(c) \/ ParentStage(c) \/ SelectStage(c)
  PROVE  Passed(c, inherited)' /\ Holds(c, inherited)'
<1>1. /\ asks' = asks /\ overflow' = overflow /\ vectors' = vectors
      /\ asks[c] \in Ask /\ pc \in [Conn -> Places] /\ answer \in [Conn -> Answers]
  BY AskOf DEF IInv, TypeOK, CheckRequest, ParentStage, SelectStage, statics
<1>2. Result(c, inherited)' = Result(c, inherited)
  BY <1>1 DEF Result, Alone, ReachesBasis, Failure, Details
<1>3. \A reason : Leaves(c, inherited, reason)' <=> Leaves(c, inherited, reason)
  BY <1>1 DEF Leaves, ReachesBasis
<1>4. ASSUME asks[c].fails \in {"request", "parent", "select"}
      PROVE  /\ Failure(c, asks[c].fails) = Result(c, inherited)
             /\ inherited <=> Leaves(c, inherited, asks[c].fails)
  BY <1>1, <1>4, Results DEF Leaves, ReachesBasis
<1>5. CASE CheckRequest(c)
  <2>1. CASE asks[c].fails = "request"
    <3>1. /\ pc'[c] = "leaving" /\ answer'[c] = Failure(c, "request")
          /\ overflow <=> inherited
      BY <1>1, <1>5, <2>1 DEF CheckRequest, Refuse, Goto, At, Failure, Holds
    <3>2. answer'[c] = Result(c, inherited) /\ answer'[c].reason = "request"
      BY <1>4, <2>1, <3>1, Parts
    <3> QED BY <1>1, <1>2, <1>3, <1>4, <2>1, <3>1, <3>2 DEF Passed, Holds
  <2>2. CASE asks[c].fails # "request"
    <3>1. pc[c] = "request" /\ pc'[c] = "parent" /\ answer' = answer
      BY <1>1, <1>5, <2>2 DEF CheckRequest, Goto, At
    <3> QED BY <1>1, <2>2, <3>1 DEF Passed, Holds
  <2> QED BY <2>1, <2>2
<1>6. CASE ParentStage(c)
  <2>1. CASE asks[c].fails = "parent"
    <3>1. /\ pc'[c] = "failed" /\ err'.reason = "parent"
          /\ overflow <=> inherited
      BY <1>1, <1>6, <2>1 DEF ParentStage, Fail, Goto, At, Holds
    <3>2. Failure(c, err.reason)' = Result(c, inherited)
      BY <1>4, <2>1, <3>1 DEF Failure
    <3> QED BY <1>1, <1>2, <1>3, <1>4, <2>1, <3>1, <3>2 DEF Passed, Holds
  <2>2. CASE asks[c].fails # "parent"
    <3>1. pc[c] = "parent" /\ pc'[c] = "select" /\ answer' = answer
      BY <1>1, <1>6, <2>2 DEF ParentStage, Goto, At
    <3> QED BY <1>1, <2>2, <3>1 DEF Passed, Holds
  <2> QED BY <2>1, <2>2
<1>7. CASE SelectStage(c)
  <2>0. pc[c] = "select"
    BY <1>7 DEF SelectStage, At
  <2>1. CASE asks[c].fails = "select"
    <3>1. /\ pc'[c] = "failed" /\ err'.reason = "select"
          /\ overflow <=> inherited
      BY <1>1, <1>7, <2>1 DEF SelectStage, Fail, Goto, At, Holds
    <3>2. Failure(c, err.reason)' = Result(c, inherited)
      BY <1>4, <2>1, <3>1 DEF Failure
    <3> QED BY <1>1, <1>2, <1>3, <1>4, <2>1, <3>1, <3>2 DEF Passed, Holds
  <2>2. CASE asks[c].fails # "select"
    <3>1. /\ pc'[c] = IF asks[c].details THEN "load" ELSE "expand"
          /\ answer'[c] = [answer[c] EXCEPT !.kind = "state"]
          /\ answer[c] = Blank /\ (overflow <=> inherited)
          /\ asks[c].fails \notin {"request", "parent", "select"}
      BY <1>1, <1>7, <2>0, <2>2 DEF SelectStage, Goto, Holds, Passed
    <3>2. answer'[c] = Details(c, "none", "none", {}) /\ answer'[c].reason = "none"
      <4>1. answer'[c] = [Blank EXCEPT !.kind = "state"]
        BY <3>1
      <4>2. answer'[c] = Details(c, "none", "none", {})
        BY <4>1, Parts
      <4> QED BY <4>2, Parts
    <3>3. Details(c, "none", "none", {})' = Details(c, "none", "none", {})
      BY DEF Details
    <3>4. CASE asks[c].details
      BY <1>1, <3>1, <3>2, <3>3, <3>4 DEF Passed, Holds
    <3>5. CASE ~asks[c].details
      <4>1. answer'[c] = Result(c, inherited)
        BY <1>1, <3>1, <3>2, <3>5, Results
      <4>2. overflow <=> Leaves(c, inherited, "none")
        BY <3>1, <3>5 DEF Leaves, ReachesBasis
      <4> QED BY <1>1, <1>2, <1>3, <3>1, <3>2, <3>5, <4>1, <4>2 DEF Passed, Holds
    <3> QED BY <3>4, <3>5
  <2> QED BY <2>1, <2>2
<1> QED BY <1>5, <1>6, <1>7

\* What the steps of the details have in common.
LEMMA DetailsFrame ==
  ASSUME IInv, NEW c \in Conn, NEW inherited \in BOOLEAN,
         Load(c) \/ Basis(c) \/ Sites(c) \/ Definitions(c) \/ DetailsError(c) \/ ModeText(c)
           \/ StageError(c) \/ Expand(c)
  PROVE  /\ asks' = asks /\ asks[c] \in Ask
         /\ pc \in [Conn -> Places] /\ answer \in [Conn -> Answers]
         /\ Result(c, inherited)' = Result(c, inherited)
         /\ \A reason : Leaves(c, inherited, reason)' <=> Leaves(c, inherited, reason)
<1>1. /\ asks' = asks /\ asks[c] \in Ask
      /\ pc \in [Conn -> Places] /\ answer \in [Conn -> Answers]
  BY AskOf DEF IInv, TypeOK, Load, Basis, Sites, Definitions, DetailsError, ModeText, StageError, Expand
<1>2. Result(c, inherited)' = Result(c, inherited)
  BY <1>1 DEF Result, Alone, ReachesBasis, Failure, Details
<1>3. \A reason : Leaves(c, inherited, reason)' <=> Leaves(c, inherited, reason)
  BY <1>1 DEF Leaves, ReachesBasis
<1> QED BY <1>1, <1>2, <1>3

\* The tables are read: the details may be unsupported, or fail here.
LEMMA LoadAdvances ==
  ASSUME IInv, NEW c \in Conn, NEW inherited \in BOOLEAN,
         Passed(c, inherited), Holds(c, inherited), Load(c)
  PROVE  Passed(c, inherited)' /\ Holds(c, inherited)'
<1>1. /\ asks' = asks /\ asks[c] \in Ask
      /\ pc \in [Conn -> Places] /\ answer \in [Conn -> Answers]
      /\ Result(c, inherited)' = Result(c, inherited)
      /\ \A reason : Leaves(c, inherited, reason)' <=> Leaves(c, inherited, reason)
  BY DetailsFrame
<1>2. /\ pc[c] = "load" /\ overflow' = overflow
      /\ overflow <=> inherited
      /\ answer[c] = Details(c, "none", "none", {})
      /\ asks[c].fails \notin {"request", "parent", "select"} /\ asks[c].details
  BY DEF Load, At, Passed, Holds
<1>3. CASE asks[c].verdict = "unsupported"
  <2>1. pc'[c] = "expand" /\ answer'[c] = [answer[c] EXCEPT !.status = "unsupported"]
    BY <1>1, <1>3 DEF Load, Verdict, Goto
  <2>2. answer'[c] = Details(c, "unsupported", "none", {})
    BY <1>2, <2>1, Parts
  <2>3. answer'[c] = Result(c, inherited) /\ answer'[c].reason = "none"
    <3>1. answer'[c].reason = "none"
      BY <2>2, Parts
    <3> QED BY <1>1, <1>2, <1>3, <2>2, <3>1, Results
  <2>4. overflow <=> Leaves(c, inherited, "none")
    BY <1>2, <1>3 DEF Leaves, ReachesBasis
  <2> QED BY <1>1, <1>2, <2>1, <2>3, <2>4 DEF Passed, Holds
<1>4. CASE asks[c].verdict # "unsupported" /\ asks[c].fails = "front"
  <2>1. pc'[c] = "detailserror" /\ answer'[c] = answer[c] /\ err'.reason = "front"
    BY <1>1, <1>4 DEF Load, Fail, Goto
  <2>2. Details(c, "error", "front", {c}) = Result(c, inherited)
    BY <1>1, <1>2, <1>4, Results
  <2>3. overflow <=> Leaves(c, inherited, "front")
    BY <1>2, <1>4 DEF Leaves, ReachesBasis
  <2>4. /\ Details(c, "error", err.reason, {c})' = Details(c, "error", "front", {c})
        /\ Details(c, "none", "none", {})' = Details(c, "none", "none", {})
    BY <2>1 DEF Details
  <2> QED BY <1>1, <1>2, <2>1, <2>2, <2>3, <2>4 DEF Passed, Holds
<1>5. CASE asks[c].verdict # "unsupported" /\ asks[c].fails # "front"
  <2>1. pc'[c] = "basis" /\ answer'[c] = answer[c]
    BY <1>1, <1>5 DEF Load, Goto
  <2>2. Details(c, "none", "none", {})' = Details(c, "none", "none", {})
    BY DEF Details
  <2> QED BY <1>1, <1>2, <1>5, <2>1, <2>2 DEF Passed, Holds
<1> QED BY <1>3, <1>4, <1>5

\* A failure of the details that leaves the status as a fresh answer would.
LEMMA DetailsFail ==
  ASSUME asks' = asks, NEW c, NEW inherited \in BOOLEAN,
         pc'[c] = "detailserror", answer'[c] = answer[c],
         answer[c] = Details(c, "none", "none", {}),
         Details(c, "error", err'.reason, {c}) = Result(c, inherited),
         overflow' <=> Leaves(c, inherited, err'.reason)
  PROVE  Passed(c, inherited)' /\ Holds(c, inherited)'
<1>1. Result(c, inherited)' = Result(c, inherited)
  BY DEF Result, Alone, ReachesBasis, Failure, Details
<1>2. Leaves(c, inherited, err.reason)' <=> Leaves(c, inherited, err'.reason)
  BY DEF Leaves, ReachesBasis
<1>3. /\ Details(c, "error", err.reason, {c})' = Details(c, "error", err'.reason, {c})
      /\ Details(c, "none", "none", {})' = Details(c, "none", "none", {})
  BY DEF Details
<1>4. Passed(c, inherited)'
  BY DEF Passed
<1>5. Holds(c, inherited)'
  BY <1>1, <1>2, <1>3 DEF Holds
<1> QED BY <1>4, <1>5

\* The basis: an exact one is refused for what was inherited.
LEMMA BasisAdvances ==
  ASSUME IInv, NEW c \in Conn, NEW inherited \in BOOLEAN,
         Passed(c, inherited), Holds(c, inherited), Basis(c)
  PROVE  Passed(c, inherited)' /\ Holds(c, inherited)'
<1>1. /\ asks' = asks /\ asks[c] \in Ask
      /\ pc \in [Conn -> Places]
  BY DetailsFrame
<1>2. /\ pc[c] = "basis" /\ answer' = answer
      /\ overflow' <=> (inherited /\ asks[c].exact)
      /\ answer[c] = Details(c, "none", "none", {})
      /\ asks[c].fails \notin {"request", "parent", "select", "front"} /\ asks[c].details
      /\ asks[c].verdict # "unsupported"
      /\ ReachesBasis(c)
  BY DEF Basis, At, Passed, Holds, OverflowAtBasis, ReachesBasis
<1>3. CASE asks[c].fails = "cell"
  <2>1. pc'[c] = "detailserror" /\ err'.reason = "cell"
    BY <1>1, <1>3 DEF Basis, Fail, Goto
  <2>2. Details(c, "error", "cell", {c}) = Result(c, inherited)
    BY <1>1, <1>2, <1>3, Results
  <2>3. overflow' <=> Leaves(c, inherited, "cell")
    BY <1>2 DEF Leaves
  <2> QED BY <1>1, <1>2, <2>1, <2>2, <2>3, DetailsFail
<1>4. CASE asks[c].fails # "cell" /\ inherited /\ asks[c].exact
  <2>1. pc'[c] = "detailserror" /\ err'.reason = "basis"
    BY <1>1, <1>2, <1>4 DEF Basis, Fail, Goto, OverflowAtBasis, Holds
  <2>2. Details(c, "error", "basis", {c}) = Result(c, inherited)
    BY <1>1, <1>2, <1>4, Results
  <2>3. overflow' <=> Leaves(c, inherited, "basis")
    BY <1>2, <1>4 DEF Leaves
  <2> QED BY <1>1, <1>2, <2>1, <2>2, <2>3, DetailsFail
<1>5. CASE asks[c].fails # "cell" /\ ~(inherited /\ asks[c].exact)
  <2>1. pc'[c] = "sites" /\ ~overflow'
    BY <1>1, <1>2, <1>5 DEF Basis, Goto, OverflowAtBasis, Holds
  <2>2. Details(c, "none", "none", {})' = Details(c, "none", "none", {})
    BY DEF Details
  <2>3. Passed(c, inherited)'
    BY <1>1, <1>2, <1>5, <2>1 DEF Passed
  <2>4. Holds(c, inherited)'
    BY <1>1, <1>2, <2>1, <2>2 DEF Holds
  <2> QED BY <2>3, <2>4
<1> QED BY <1>3, <1>4, <1>5

\* The sites: a point out of range sets the status and ends the details.
LEMMA SitesAdvances ==
  ASSUME IInv, NEW c \in Conn, NEW inherited \in BOOLEAN,
         Passed(c, inherited), Holds(c, inherited), Sites(c)
  PROVE  Passed(c, inherited)' /\ Holds(c, inherited)'
<1>1. /\ asks' = asks /\ asks[c] \in Ask
      /\ pc \in [Conn -> Places]
  BY DetailsFrame
<1>2. /\ pc[c] = "sites" /\ answer' = answer /\ ~overflow
      /\ answer[c] = Details(c, "none", "none", {})
      /\ asks[c].fails \notin {"request", "parent", "select", "front", "cell"} /\ asks[c].details
      /\ asks[c].verdict # "unsupported"
      /\ ~(inherited /\ asks[c].exact)
  BY DEF Sites, At, Passed, Holds
<1>3. CASE asks[c].bridge /\ asks[c].far
  <2>1. pc'[c] = "detailserror" /\ err'.reason = "point" /\ overflow'
    BY <1>1, <1>3 DEF Sites, Fail, Goto
  <2>2. Details(c, "error", "point", {c}) = Result(c, inherited)
    BY <1>1, <1>2, <1>3, Results
  <2>3. Leaves(c, inherited, "point")
    BY DEF Leaves
  <2> QED BY <1>1, <1>2, <2>1, <2>2, <2>3, DetailsFail
<1>4. CASE ~(asks[c].bridge /\ asks[c].far)
  <2>1. pc'[c] = "definitions" /\ ~overflow'
    BY <1>1, <1>2, <1>4 DEF Sites, Goto, Ask
  <2>2. Details(c, "none", "none", {})' = Details(c, "none", "none", {})
    BY DEF Details
  <2>3. Passed(c, inherited)'
    BY <1>1, <1>2, <1>4, <2>1 DEF Passed
  <2>4. Holds(c, inherited)'
    BY <1>1, <1>2, <2>1, <2>2 DEF Holds
  <2> QED BY <2>3, <2>4
<1> QED BY <1>3, <1>4

\* The definitions: a failed layout, or a verdict; ok details have vectors.
LEMMA DefinitionsAdvances ==
  ASSUME IInv, NEW c \in Conn, NEW inherited \in BOOLEAN,
         Passed(c, inherited), Holds(c, inherited), Definitions(c)
  PROVE  Passed(c, inherited)' /\ Holds(c, inherited)'
<1>1. /\ asks' = asks /\ asks[c] \in Ask
      /\ pc \in [Conn -> Places] /\ answer \in [Conn -> Answers]
      /\ Result(c, inherited)' = Result(c, inherited)
      /\ \A reason : Leaves(c, inherited, reason)' <=> Leaves(c, inherited, reason)
  BY DetailsFrame
<1>2. /\ pc[c] = "definitions" /\ overflow' = overflow /\ ~overflow
      /\ answer[c] = Details(c, "none", "none", {})
      /\ asks[c].fails \notin {"request", "parent", "select", "front", "cell"} /\ asks[c].details
      /\ asks[c].verdict # "unsupported"
      /\ ~(inherited /\ asks[c].exact)
      /\ ~(asks[c].bridge /\ asks[c].far)
  BY DEF Definitions, At, Passed, Holds
<1>3. ReachesBasis(c)
  BY <1>2 DEF ReachesBasis
<1>4. ~Leaves(c, inherited, "layout") /\ ~Leaves(c, inherited, "none")
  BY <1>1, <1>2, <1>3 DEF Leaves, Ask
<1>5. CASE asks[c].fails = "layout"
  <2>1. pc'[c] = "detailserror" /\ err'.reason = "layout" /\ answer' = answer
    BY <1>1, <1>5 DEF Definitions, Fail, Goto
  <2>2. Details(c, "error", "layout", {c}) = Result(c, inherited)
    BY <1>1, <1>2, <1>5, Results
  <2> QED BY <1>1, <1>2, <1>4, <2>1, <2>2, DetailsFail
<1>6. CASE asks[c].fails # "layout"
  <2>1. /\ pc'[c] = IF asks[c].verdict = "ok" THEN "text" ELSE "expand"
        /\ answer'[c] = [answer[c] EXCEPT !.status = asks[c].verdict]
        /\ asks[c].verdict = "ok" => vectors' = Append(vectors, c)
    BY <1>1, <1>6 DEF Definitions, Verdict, Goto
  <2>2. answer'[c] = Details(c, asks[c].verdict, "none", {})
    BY <1>2, <2>1, Parts
  <2>3. CASE asks[c].verdict = "ok"
    <3>1. vectors' # <<>>
      BY <2>1, <2>3 DEF IInv, TypeOK
    <3>2. Details(c, "ok", "none", {})' = Details(c, "ok", "none", {})
      BY DEF Details
    <3>3. Passed(c, inherited)'
      BY <1>1, <1>2, <1>6, <2>1, <2>3, <3>1 DEF Passed
    <3>4. Holds(c, inherited)'
      BY <1>1, <1>2, <2>1, <2>2, <2>3, <3>2 DEF Holds
    <3> QED BY <3>3, <3>4
  <2>4. CASE asks[c].verdict # "ok"
    <3>1. asks[c].verdict = "missing"
      BY <1>1, <1>2, <2>4 DEF Ask
    <3>2. answer'[c] = Details(c, "missing", "none", {})
      BY <2>2, <3>1
    <3>3. answer'[c] = Result(c, inherited)
      BY <1>1, <1>2, <1>6, <3>1, <3>2, Results
    <3>4. answer'[c].reason = "none"
      BY <3>2, Parts
    <3>5. Holds(c, inherited)'
      BY <1>1, <1>2, <1>4, <2>1, <2>4, <3>3, <3>4 DEF Holds
    <3> QED BY <2>1, <2>4, <3>5 DEF Passed
  <2> QED BY <2>3, <2>4
<1> QED BY <1>5, <1>6

\* A failure of the details becomes their status in the answer.
LEMMA DetailsErrorAdvances ==
  ASSUME IInv, NEW c \in Conn, NEW inherited \in BOOLEAN,
         Passed(c, inherited), Holds(c, inherited), DetailsError(c)
  PROVE  Passed(c, inherited)' /\ Holds(c, inherited)'
<1>1. /\ asks' = asks
      /\ pc \in [Conn -> Places] /\ answer \in [Conn -> Answers]
      /\ Result(c, inherited)' = Result(c, inherited)
      /\ \A reason : Leaves(c, inherited, reason)' <=> Leaves(c, inherited, reason)
  BY DetailsFrame
<1>2. /\ pc[c] = "detailserror" /\ overflow' = overflow
      /\ Details(c, "error", err.reason, {c}) = Result(c, inherited)
      /\ overflow <=> Leaves(c, inherited, err.reason)
      /\ err.of = c
  BY DEF DetailsError, At, Holds, IInv, Own, statics
<1>3. pc'[c] = "expand" /\ answer'[c] = Details(c, "error", err.reason, {c})
  BY <1>1, <1>2 DEF DetailsError, Goto, Details
<1>4. answer'[c].reason = err.reason
  BY <1>3, Parts
<1>5. Holds(c, inherited)'
  BY <1>1, <1>2, <1>3, <1>4 DEF Holds
<1> QED BY <1>3, <1>5 DEF Passed

\* The mode text is written from the vectors of this request.
LEMMA ModeTextAdvances ==
  ASSUME IInv, NEW c \in Conn, NEW inherited \in BOOLEAN,
         Passed(c, inherited), Holds(c, inherited), ModeText(c)
  PROVE  Passed(c, inherited)' /\ Holds(c, inherited)'
<1>1. /\ asks' = asks /\ asks[c] \in Ask
      /\ pc \in [Conn -> Places] /\ answer \in [Conn -> Answers]
      /\ Result(c, inherited)' = Result(c, inherited)
      /\ \A reason : Leaves(c, inherited, reason)' <=> Leaves(c, inherited, reason)
  BY DetailsFrame
<1>2. /\ pc[c] = "text" /\ overflow' = overflow /\ ~overflow
      /\ answer[c] = Details(c, "ok", "none", {})
      /\ asks[c].fails \notin {"request", "parent", "select", "front", "cell", "layout"}
      /\ asks[c].details /\ asks[c].verdict = "ok"
      /\ ~(inherited /\ asks[c].exact)
      /\ ~(asks[c].bridge /\ asks[c].far)
      /\ vectors # <<>>
  BY DEF ModeText, At, Passed, Holds
<1>3. ReachesBasis(c)
  BY <1>2 DEF ReachesBasis
<1>4. ~Leaves(c, inherited, "text") /\ ~Leaves(c, inherited, "none")
  BY <1>1, <1>2, <1>3 DEF Leaves, Ask
<1>5. CASE asks[c].fails = "text"
  <2>1. pc'[c] = "failed" /\ err'.reason = "text"
    BY <1>1, <1>5 DEF ModeText, Fail, Goto
  <2>2. Failure(c, "text") = Result(c, inherited)
    BY <1>1, <1>2, <1>5, Results
  <2>3. Failure(c, err.reason)' = Failure(c, "text")
    BY <2>1 DEF Failure
  <2>4. Holds(c, inherited)'
    BY <1>1, <1>2, <1>4, <2>1, <2>2, <2>3 DEF Holds
  <2> QED BY <2>1, <2>4 DEF Passed
<1>6. CASE asks[c].fails # "text"
  <2>1. /\ pc'[c] = "expand"
        /\ answer'[c] = [answer[c] EXCEPT !.of = answer[c].of \cup ToSet(vectors)]
    BY <1>1, <1>6 DEF ModeText, Goto
  <2>2. answer[c].of = {}
    BY <1>2, Parts
  <2>3. ToSet(vectors) = {c}
    <3>1. VectorsOf(c) /\ vectors \in Seq(Conn)
      BY <1>2 DEF IInv, TypeOK, Own
    <3>2. DOMAIN vectors # {} /\ \A i \in DOMAIN vectors : vectors[i] = c
      BY <1>2, <3>1 DEF VectorsOf
    <3> QED BY <3>2 DEF ToSet
  <2>4. answer[c].of \cup ToSet(vectors) = {c}
    BY <2>2, <2>3
  <2>5. answer'[c] = [Details(c, "ok", "none", {}) EXCEPT !.of = {c}]
    BY <1>2, <2>1, <2>4
  <2>6. answer'[c] = Details(c, "ok", "none", {c})
    BY <2>5 DEF Details
  <2>7. answer'[c] = Result(c, inherited)
    BY <1>1, <1>2, <1>6, <2>6, Results
  <2>8. answer'[c].reason = "none"
    BY <2>6, Parts
  <2>9. Holds(c, inherited)'
    BY <1>1, <1>2, <1>4, <2>1, <2>7, <2>8 DEF Holds
  <2> QED BY <2>1, <2>9 DEF Passed
<1> QED BY <1>5, <1>6

\* A failed stage is answered from md_err.
LEMMA StageErrorAdvances ==
  ASSUME IInv, NEW c \in Conn, NEW inherited \in BOOLEAN,
         Passed(c, inherited), Holds(c, inherited), StageError(c)
  PROVE  Passed(c, inherited)' /\ Holds(c, inherited)'
<1>1. /\ asks' = asks
      /\ pc \in [Conn -> Places] /\ answer \in [Conn -> Answers]
      /\ Result(c, inherited)' = Result(c, inherited)
      /\ \A reason : Leaves(c, inherited, reason)' <=> Leaves(c, inherited, reason)
  BY DetailsFrame
<1>2. /\ pc[c] = "failed" /\ overflow' = overflow
      /\ Failure(c, err.reason) = Result(c, inherited)
      /\ overflow <=> Leaves(c, inherited, err.reason)
      /\ err.of = c
  BY DEF StageError, At, Holds, IInv, Own, statics
<1>3. pc'[c] = "leaving" /\ answer'[c] = Failure(c, err.reason)
  BY <1>1, <1>2 DEF StageError, Goto, Failure
<1>4. answer'[c].reason = err.reason
  BY <1>3, Parts
<1>5. Holds(c, inherited)'
  BY <1>1, <1>2, <1>3, <1>4 DEF Holds
<1> QED BY <1>3, <1>5 DEF Passed

\* The placeholders are replaced by the vectors of this request.
LEMMA ExpandAdvances ==
  ASSUME IInv, NEW c \in Conn, NEW inherited \in BOOLEAN,
         Passed(c, inherited), Holds(c, inherited), Expand(c)
  PROVE  Passed(c, inherited)' /\ Holds(c, inherited)'
<1>1. /\ asks' = asks /\ asks[c] \in Ask
      /\ pc \in [Conn -> Places] /\ answer \in [Conn -> Answers]
      /\ Result(c, inherited)' = Result(c, inherited)
      /\ \A reason : Leaves(c, inherited, reason)' <=> Leaves(c, inherited, reason)
  BY DetailsFrame
<1>2. /\ pc[c] = "expand" /\ overflow' = overflow
      /\ answer[c] = Result(c, inherited)
      /\ overflow <=> Leaves(c, inherited, answer[c].reason)
  BY DEF Expand, At, Holds, statics
<1>3. /\ pc'[c] = "leaving"
      /\ answer'[c] = [answer[c] EXCEPT !.of =
                         IF answer[c].status = "ok" THEN answer[c].of \cup ToSet(vectors)
                         ELSE answer[c].of]
  BY <1>1, <1>2 DEF Expand, Goto
<1>4. PICK of : of = IF answer[c].status = "ok" THEN answer[c].of \cup ToSet(vectors) ELSE answer[c].of
  OBVIOUS
<1>5. of = answer[c].of
  <2>1. CASE answer[c].status = "ok"
    <3>1. answer[c] = Details(c, "ok", "none", {c})
      <4>1. \/ \E reason : answer[c] = Failure(c, reason)
            \/ \E status \in {"none", "unsupported", "error", "missing"} : \E reason, set :
                  answer[c] = Details(c, status, reason, set)
            \/ answer[c] = Details(c, "ok", "none", {c})
        <5>1. asks[c].verdict \in {"ok", "missing", "unsupported"}
          BY <1>1 DEF Ask
        <5> QED BY <1>1, <1>2, <5>1, Results
      <4> QED BY <2>1, <4>1, Parts
    <3>2. answer[c].of = {c}
      BY <3>1, Parts
    <3>3. VectorsOf(c)
      BY <1>2, <2>1 DEF IInv, Own
    <3>4. ToSet(vectors) \subseteq {c}
      BY <3>3 DEF VectorsOf, ToSet
    <3> QED BY <1>4, <2>1, <3>2, <3>4
  <2>2. CASE answer[c].status # "ok"
    BY <1>4, <2>2
  <2> QED BY <2>1, <2>2
<1>6. answer'[c] = answer[c]
  <2>1. answer[c] \in Answers
    BY <1>1
  <2>2. answer'[c] = [answer[c] EXCEPT !.of = answer[c].of]
    BY <1>3, <1>4, <1>5
  <2> QED BY <2>1, <2>2 DEF Answers
<1>7. Holds(c, inherited)'
  BY <1>1, <1>2, <1>3, <1>6 DEF Holds
<1> QED BY <1>3, <1>7 DEF Passed

------------------------------------------------------------------------------
\* What a request inherits depends on the requests served before it alone.
LEMMA InheritsKept ==
  ASSUME NEW i \in Nat,
         \A j \in 1..(i - 1) : /\ served'[j] = served[j]
                               /\ answer'[served[j]] = answer[served[j]]
                               /\ asks'[served[j]] = asks[served[j]]
  PROVE  Inherits(i)' <=> Inherits(i)
<1>1. \A j \in 1..(i - 1) :
        /\ LeftOverflow(served[j])' <=> LeftOverflow(served[j])
        /\ ClearsOverflow(served[j])' <=> ClearsOverflow(served[j])
  BY DEF LeftOverflow, ClearsOverflow, ReachesBasis
<1>2. \A j \in 1..(i - 1) : \A k \in (j + 1)..(i - 1) : k \in 1..(i - 1)
  OBVIOUS
<1> QED BY <1>1, <1>2 DEF Inherits

\* The next request inherits what the one before it leaves.
LEMMA InheritsNext ==
  ASSUME NEW i \in Nat \ {0}
  PROVE  Inherits(i + 1) <=> Leaves(served[i], Inherits(i), answer[served[i]].reason)
<1>1. Leaves(served[i], Inherits(i), answer[served[i]].reason)
        <=> LeftOverflow(served[i]) \/ (Inherits(i) /\ ~ClearsOverflow(served[i]))
  BY DEF Leaves, LeftOverflow, ClearsOverflow
<1>2. ASSUME Inherits(i + 1)
      PROVE  LeftOverflow(served[i]) \/ (Inherits(i) /\ ~ClearsOverflow(served[i]))
  <2>1. PICK j \in 1..i : /\ LeftOverflow(served[j])
                          /\ \A k \in (j + 1)..i : ~ClearsOverflow(served[k])
    BY <1>2 DEF Inherits
  <2>2. CASE j = i
    BY <2>1, <2>2
  <2>3. CASE j # i
    <3>1. j \in 1..(i - 1) /\ i \in (j + 1)..i /\ \A k \in (j + 1)..(i - 1) : k \in (j + 1)..i
      BY <2>3
    <3> QED BY <2>1, <3>1 DEF Inherits
  <2> QED BY <2>2, <2>3
<1>3. ASSUME LeftOverflow(served[i]) PROVE Inherits(i + 1)
  <2>1. i \in 1..((i + 1) - 1) /\ \A k \in (i + 1)..((i + 1) - 1) : FALSE
    OBVIOUS
  <2> QED BY <1>3, <2>1 DEF Inherits
<1>4. ASSUME Inherits(i), ~ClearsOverflow(served[i]) PROVE Inherits(i + 1)
  <2>1. PICK j \in 1..(i - 1) : /\ LeftOverflow(served[j])
                                /\ \A k \in (j + 1)..(i - 1) : ~ClearsOverflow(served[k])
    BY <1>4 DEF Inherits
  <2>2. j \in 1..((i + 1) - 1) /\ \A k \in (j + 1)..((i + 1) - 1) : k \in (j + 1)..(i - 1) \/ k = i
    OBVIOUS
  <2> QED BY <1>4, <2>1, <2>2 DEF Inherits
<1> QED BY <1>1, <1>2, <1>3, <1>4

\* Nothing has been served yet.
LEMMA InitLeak == Init => LeakInv
<1> SUFFICES ASSUME Init PROVE LeakInv
  OBVIOUS
<1>1. served = <<>> /\ Len(served) = 0 /\ computing = NoConn /\ overflow = FALSE
  BY DEF Init
<1>2. ~Inherits(Len(served) + 1)
  BY <1>1 DEF Inherits
<1>3. InTurn
  BY <1>1 DEF InTurn, Init, At
<1> QED BY <1>1, <1>2, <1>3, InitIInv DEF LeakInv

\* A request arrives: its connection was not served yet.
LEMMA ArriveLeak ==
  ASSUME LeakInv, NEW c \in Conn, Arrive(c)
  PROVE  LeakInv'
<1>1. /\ At(c, "idle") /\ pc' = [pc EXCEPT ![c] = "arrived"]
      /\ \A d \in Conn \ {c} : asks'[d] = asks[d]
      /\ UNCHANGED <<answer, computing, overflow, err, vectors, served>>
      /\ pc \in [Conn -> Places]
  BY DEF Arrive, Goto, statics, LeakInv, IInv, TypeOK
<1>2. IInv'
  BY EntryKeeps DEF LeakInv
<1>3. /\ served \in Seq(Conn) /\ Len(served) \in Nat
      /\ \A i \in 1..Len(served) : served[i] \in Conn /\ served[i] # c
      /\ computing # NoConn => computing \in Conn /\ computing # c
  <2>1. served \in Seq(Conn) /\ computing \in Conn \cup {NoConn}
    BY DEF LeakInv, IInv, TypeOK
  <2>2. \A i \in 1..Len(served) : served[i] # c
    BY <1>1 DEF LeakInv, InTurn
  <2>3. computing # NoConn => computing # c
    BY <1>1 DEF LeakInv, InTurn, Inside, At
  <2> QED BY <2>1, <2>2, <2>3
<1>4. /\ \A i \in 1..Len(served) : pc'[served[i]] = pc[served[i]]
      /\ computing # NoConn => pc'[computing] = pc[computing]
  BY <1>1, <1>3
<1>5. InTurn'
  <2>1. \A d \in Conn : At(d, "idle")' \/ At(d, "arrived")' => At(d, "idle") \/ At(d, "arrived")
    BY <1>1 DEF At
  <2> QED BY <1>1, <1>3, <1>4, <2>1 DEF LeakInv, InTurn, At
<1>6. \A i \in 1..(Len(served) + 1) : Inherits(i)' <=> Inherits(i)
  <2>1. ASSUME NEW i \in 1..(Len(served) + 1) PROVE Inherits(i)' <=> Inherits(i)
    <3>1. i \in Nat /\ \A j \in 1..(i - 1) : j \in 1..Len(served)
      BY <1>3
    <3> QED BY <1>1, <1>3, <3>1, InheritsKept
  <2> QED BY <2>1
<1>7. ASSUME NEW d \in Conn \ {c}, NEW inherited
      PROVE  Result(d, inherited)' = Result(d, inherited)
  BY <1>1 DEF Result, Alone, ReachesBasis, Failure, Details
<1>8. ASSUME NEW i \in 1..Len(served), At(served[i], "answered")'
      PROVE  (answer[served[i]] = Result(served[i], Inherits(i)))'
  <2>1. answer[served[i]] = Result(served[i], Inherits(i))
    BY <1>4, <1>1, <1>8 DEF LeakInv, At
  <2>2. Inherits(i)' <=> Inherits(i)
    BY <1>3, <1>6
  <2>3. PICK d \in Conn \ {c} : d = served[i]
    BY <1>3
  <2>4. Result(d, Inherits(i))' = Result(d, Inherits(i))
    BY <1>1, <2>2 DEF Result, Alone, ReachesBasis, Failure, Details
  <2> QED BY <1>1, <2>1, <2>3, <2>4
<1>9. ASSUME computing # NoConn
      PROVE  (Passed(computing, Inherits(Len(served))) /\ Holds(computing, Inherits(Len(served))))'
  <2>1. PICK d \in Conn \ {c} : d = computing
    BY <1>3, <1>9
  <2>2. PICK inherited \in BOOLEAN : inherited <=> Inherits(Len(served))
    OBVIOUS
  <2>3. Inherits(Len(served))' <=> inherited
    <3>1. Len(served) \in 1..(Len(served) + 1)
      BY <1>3, <1>9 DEF LeakInv, InTurn
    <3> QED BY <1>1, <1>6, <2>2, <3>1
  <2>4. Passed(d, inherited) /\ Holds(d, inherited)
    BY <1>9, <2>1, <2>2 DEF LeakInv, Passed, Holds, Result, Leaves
  <2>5. pc'[d] = pc[d] /\ asks'[d] = asks[d]
    BY <1>1, <1>4, <1>9, <2>1
  <2>6. Passed(d, inherited)'
    BY <1>1, <2>4, <2>5 DEF Passed
  <2>7. Holds(d, inherited)'
    <3>1. Result(d, inherited)' = Result(d, inherited)
      BY <1>7
    <3>2. \A reason : Leaves(d, inherited, reason)' <=> Leaves(d, inherited, reason)
      BY <2>5 DEF Leaves, ReachesBasis
    <3>3. /\ Details(d, "none", "none", {})' = Details(d, "none", "none", {})
          /\ Details(d, "ok", "none", {})' = Details(d, "ok", "none", {})
          /\ Details(d, "error", err.reason, {d})' = Details(d, "error", err.reason, {d})
          /\ Failure(d, err.reason)' = Failure(d, err.reason)
      BY <1>1 DEF Details, Failure
    <3> QED BY <1>1, <2>4, <2>5, <3>1, <3>2, <3>3 DEF Holds
  <2> QED BY <1>1, <2>1, <2>3, <2>6, <2>7 DEF Passed, Holds, Result, Leaves
<1>10. (computing = NoConn => (overflow <=> Inherits(Len(served) + 1)))'
  <2>1. Len(served) + 1 \in 1..(Len(served) + 1)
    BY <1>3
  <2> QED BY <1>1, <1>6, <2>1 DEF LeakInv
<1> QED BY <1>1, <1>2, <1>5, <1>8, <1>9, <1>10 DEF LeakInv

\* The lock is taken: the request inherits what the last one left.
LEMMA LockLeak ==
  ASSUME LeakInv, NEW c \in Conn, Lock(c)
  PROVE  LeakInv'
<1>1. /\ At(c, "arrived") /\ pc' = [pc EXCEPT ![c] = "request"]
      /\ computing = NoConn /\ computing' = c
      /\ served' = Append(served, c)
      /\ UNCHANGED <<asks, answer, overflow, err, vectors>>
      /\ pc \in [Conn -> Places] /\ served \in Seq(Conn) /\ Len(served) \in Nat
      /\ c # NoConn
  BY AsksAssumption DEF Lock, LockFree, Goto, statics, LeakInv, IInv, TypeOK
<1>2. IInv'
  BY EntryKeeps DEF LeakInv
<1>3. PICK n \in Nat : n = Len(served)
  BY <1>1
<1>4. /\ Len(served') = n + 1 /\ served'[n + 1] = c
      /\ \A i \in 1..n : served'[i] = served[i] /\ served[i] \in Conn /\ served[i] # c
  <2>1. \A i \in 1..n : served[i] # c
    BY <1>1, <1>3 DEF LeakInv, InTurn
  <2> QED BY <1>1, <1>3, <2>1
<1>5. \A i \in 1..(n + 1) : i \in 1..n \/ i = n + 1
  OBVIOUS
<1>6. pc'[c] = "request" /\ \A d \in Conn \ {c} : pc'[d] = pc[d]
  BY <1>1
<1>7. InTurn'
  <2>1. ASSUME NEW i \in 1..(n + 1), NEW j \in 1..(n + 1), served'[i] = served'[j] PROVE i = j
    <3>1. \A x, y \in 1..n : served[x] = served[y] => x = y
      BY <1>3 DEF LeakInv, InTurn
    <3> QED BY <1>4, <1>5, <2>1, <3>1
  <2>2. ASSUME NEW d \in Conn, At(d, "idle")' \/ At(d, "arrived")'
        PROVE  answer'[d] = Blank /\ \A i \in 1..(n + 1) : served'[i] # d
    <3>1. d # c /\ (At(d, "idle") \/ At(d, "arrived"))
      BY <1>6, <2>2 DEF At
    <3>2. answer[d] = Blank /\ \A i \in 1..n : served[i] # d
      BY <1>3, <3>1 DEF LeakInv, InTurn
    <3> QED BY <1>1, <1>4, <1>5, <3>1, <3>2
  <2>3. ASSUME NEW i \in 1..(n + 1) PROVE At(served[i], "answered")' \/ served'[i] = c
    <3>1. CASE i \in 1..n
      <4>1. At(served[i], "answered")
        <5>1. served[i] # NoConn
          BY <1>4, <3>1, AsksAssumption
        <5> QED BY <1>1, <1>3, <3>1, <5>1 DEF LeakInv, InTurn
      <4> QED BY <1>4, <1>6, <3>1, <4>1 DEF At
    <3> QED BY <1>4, <1>5, <3>1
  <2>4. served' # <<>> /\ c = served'[Len(served')] /\ pc'[c] \in Inside
    BY <1>4, <1>6 DEF Inside
  <2> QED BY <1>1, <1>4, <2>1, <2>2, <2>3, <2>4 DEF InTurn
<1>8. \A i \in 1..(n + 1) : Inherits(i)' <=> Inherits(i)
  <2>1. ASSUME NEW i \in 1..(n + 1) PROVE Inherits(i)' <=> Inherits(i)
    <3>1. i \in Nat /\ \A j \in 1..(i - 1) : j \in 1..n
      OBVIOUS
    <3> QED BY <1>1, <1>4, <3>1, InheritsKept
  <2> QED BY <2>1
<1>9. ASSUME NEW i \in 1..(n + 1), At(served[i], "answered")'
      PROVE  (answer[served[i]] = Result(served[i], Inherits(i)))'
  <2>1. i \in 1..n
    BY <1>4, <1>5, <1>6, <1>9 DEF At
  <2>2. answer[served[i]] = Result(served[i], Inherits(i))
    BY <1>3, <1>4, <1>6, <1>9, <2>1 DEF LeakInv, At
  <2>3. PICK d \in Conn : d = served[i]
    BY <1>4, <2>1
  <2>4. Result(d, Inherits(i))' = Result(d, Inherits(i))
    BY <1>1, <1>8 DEF Result, Alone, ReachesBasis, Failure, Details
  <2> QED BY <1>1, <1>4, <2>1, <2>2, <2>3, <2>4
<1>10. (Passed(c, Inherits(n + 1)) /\ Holds(c, Inherits(n + 1)))'
  <2>1. overflow <=> Inherits(n + 1)
    BY <1>1, <1>3 DEF LeakInv
  <2>2. answer[c] = Blank
    BY <1>1 DEF LeakInv, InTurn
  <2>3. overflow' <=> Inherits(n + 1)'
    BY <1>1, <1>8, <2>1
  <2> QED BY <1>1, <1>6, <2>2, <2>3 DEF Passed, Holds
<1>11. (Passed(computing, Inherits(Len(served))) /\ Holds(computing, Inherits(Len(served))))'
  BY <1>1, <1>4, <1>10 DEF Passed, Holds, Result, Leaves
<1> QED BY <1>1, <1>2, <1>4, <1>7, <1>9, <1>11 DEF LeakInv

\* A step inside the handler, but the last one.
LEMMA InsideLeak ==
  ASSUME LeakInv, NEW c \in Conn,
         \/ CheckRequest(c) \/ ParentStage(c) \/ SelectStage(c)
         \/ Load(c) \/ Basis(c) \/ Sites(c) \/ Definitions(c) \/ DetailsError(c)
         \/ ModeText(c) \/ StageError(c) \/ Expand(c)
  PROVE  LeakInv'
<1>1. /\ pc[c] \in Inside /\ pc'[c] \in Inside
      /\ \A d \in Conn \ {c} : pc'[d] = pc[d] /\ answer'[d] = answer[d]
      /\ UNCHANGED <<asks, computing, served>>
  <2>1. pc \in [Conn -> Places] /\ answer \in [Conn -> Answers]
    BY DEF LeakInv, IInv, TypeOK
  <2>2. CASE CheckRequest(c) \/ ParentStage(c) \/ SelectStage(c) \/ Load(c)
    BY <2>1, <2>2 DEF CheckRequest, ParentStage, SelectStage, Load, Refuse, Fail, Verdict, At, Goto, Inside, statics
  <2>3. CASE Basis(c) \/ Sites(c) \/ Definitions(c) \/ DetailsError(c)
    BY <2>1, <2>3 DEF Basis, Sites, Definitions, DetailsError, Fail, Verdict, At, Goto, Inside, statics
  <2>4. CASE ModeText(c) \/ StageError(c) \/ Expand(c)
    BY <2>1, <2>4 DEF ModeText, StageError, Expand, Fail, At, Goto, Inside, statics
  <2> QED BY <2>2, <2>3, <2>4
<1>2. IInv'
  BY StagesKeep, DetailsKeep, AnswerKeeps DEF LeakInv
<1>3. computing = c /\ computing # NoConn
  BY <1>1, AsksAssumption DEF LeakInv, IInv, Own
<1>4. PICK n \in Nat \ {0} : n = Len(served) /\ c = served[n]
  <2>1. served \in Seq(Conn)
    BY DEF LeakInv, IInv, TypeOK
  <2> QED BY <1>3, <2>1 DEF LeakInv, InTurn
<1>5. \A i \in 1..n : served[i] \in Conn /\ (i # n => served[i] # c)
  <2>1. served \in Seq(Conn)
    BY DEF LeakInv, IInv, TypeOK
  <2> QED BY <1>4, <2>1 DEF LeakInv, InTurn
<1>6. InTurn'
  <2>1. ~At(c, "idle")' /\ ~At(c, "arrived")' /\ ~At(c, "answered")
    BY <1>1 DEF At, Inside
  <2>2. ASSUME NEW d \in Conn, At(d, "idle")' \/ At(d, "arrived")'
        PROVE  answer'[d] = Blank /\ \A i \in 1..n : served'[i] # d
    <3>1. d # c /\ (At(d, "idle") \/ At(d, "arrived"))
      BY <1>1, <2>1, <2>2 DEF At
    <3> QED BY <1>1, <1>4, <3>1 DEF LeakInv, InTurn
  <2>3. ASSUME NEW i \in 1..n PROVE At(served[i], "answered")' \/ served[i] = c
    <3>1. CASE served[i] # c
      <4>1. At(served[i], "answered")
        BY <1>3, <1>4, <3>1 DEF LeakInv, InTurn
      <4> QED BY <1>1, <1>5, <3>1, <4>1 DEF At
    <3> QED BY <3>1
  <2>4. \A i, j \in 1..n : served[i] = served[j] => i = j
    BY <1>4 DEF LeakInv, InTurn
  <2>5. served # <<>>
    BY <1>3 DEF LeakInv, InTurn
  <2> QED BY <1>1, <1>3, <1>4, <2>2, <2>3, <2>4, <2>5 DEF InTurn
<1>7. \A i \in 1..n : Inherits(i)' <=> Inherits(i)
  <2>1. ASSUME NEW i \in 1..n PROVE Inherits(i)' <=> Inherits(i)
    <3>1. i \in Nat /\ \A j \in 1..(i - 1) : j \in 1..n /\ j # n
      OBVIOUS
    <3> QED BY <1>1, <1>5, <3>1, InheritsKept
  <2> QED BY <2>1
<1>8. ASSUME NEW i \in 1..n, At(served[i], "answered")'
      PROVE  (answer[served[i]] = Result(served[i], Inherits(i)))'
  <2>1. served[i] # c
    BY <1>1, <1>8 DEF At, Inside
  <2>2. answer[served[i]] = Result(served[i], Inherits(i))
    BY <1>1, <1>4, <1>5, <1>8, <2>1 DEF LeakInv, At
  <2>3. PICK d \in Conn \ {c} : d = served[i]
    BY <1>5, <2>1
  <2>4. Result(d, Inherits(i))' = Result(d, Inherits(i))
    BY <1>1, <1>7 DEF Result, Alone, ReachesBasis, Failure, Details
  <2> QED BY <1>1, <2>2, <2>3, <2>4
<1>9. (Passed(computing, Inherits(Len(served))) /\ Holds(computing, Inherits(Len(served))))'
  <2>1. PICK inherited \in BOOLEAN : inherited <=> Inherits(n)
    OBVIOUS
  <2>2. Inherits(n)' <=> inherited
    BY <1>7, <2>1
  <2>3. Passed(c, inherited) /\ Holds(c, inherited)
    BY <1>3, <1>4, <2>1 DEF LeakInv, Passed, Holds, Result, Leaves
  <2>4. Passed(c, inherited)' /\ Holds(c, inherited)'
    BY <2>3, FrontAdvances, LoadAdvances, BasisAdvances, SitesAdvances, DefinitionsAdvances,
       DetailsErrorAdvances, ModeTextAdvances, StageErrorAdvances, ExpandAdvances DEF LeakInv
  <2>5. (Passed(c, Inherits(n)) /\ Holds(c, Inherits(n)))'
    BY <2>2, <2>4 DEF Passed, Holds, Result, Leaves
  <2> QED BY <1>1, <1>3, <1>4, <2>5 DEF Passed, Holds, Result, Leaves
<1>10. computing' # NoConn /\ Len(served') = n
  BY <1>1, <1>3, <1>4
<1> QED BY <1>1, <1>2, <1>4, <1>6, <1>8, <1>9, <1>10 DEF LeakInv

\* The handler is left: what the request leaves is what the next inherits.
LEMMA LeaveLeak ==
  ASSUME LeakInv, NEW c \in Conn, Leave(c)
  PROVE  LeakInv'
<1>1. /\ pc[c] = "leaving" /\ pc'[c] = "answered"
      /\ \A d \in Conn \ {c} : pc'[d] = pc[d]
      /\ computing' = NoConn
      /\ UNCHANGED <<asks, answer, overflow, err, vectors, served>>
  BY DEF Leave, At, Goto, Released, statics, LeakInv, IInv, TypeOK
<1>2. IInv'
  BY AnswerKeeps DEF LeakInv
<1>3. computing = c /\ computing # NoConn
  BY <1>1, AsksAssumption DEF LeakInv, IInv, Own, Inside
<1>4. PICK n \in Nat \ {0} : n = Len(served) /\ c = served[n]
  <2>1. served \in Seq(Conn)
    BY DEF LeakInv, IInv, TypeOK
  <2> QED BY <1>3, <2>1 DEF LeakInv, InTurn
<1>5. \A i \in 1..n : served[i] \in Conn /\ (i # n => served[i] # c)
  <2>1. served \in Seq(Conn)
    BY DEF LeakInv, IInv, TypeOK
  <2> QED BY <1>4, <2>1 DEF LeakInv, InTurn
<1>6. InTurn'
  <2>1. ASSUME NEW d \in Conn, At(d, "idle")' \/ At(d, "arrived")'
        PROVE  At(d, "idle") \/ At(d, "arrived")
    BY <1>1, <2>1 DEF At
  <2>2. ASSUME NEW i \in 1..n PROVE At(served[i], "answered")'
    <3>1. CASE served[i] # c
      <4>1. At(served[i], "answered")
        BY <1>3, <1>4, <3>1 DEF LeakInv, InTurn
      <4> QED BY <1>1, <1>5, <3>1, <4>1 DEF At
    <3> QED BY <1>1, <3>1 DEF At
  <2>3. \A i, j \in 1..n : served[i] = served[j] => i = j
    BY <1>4 DEF LeakInv, InTurn
  <2>4. \A d \in Conn : At(d, "idle") \/ At(d, "arrived") =>
          answer[d] = Blank /\ \A i \in 1..n : served[i] # d
    BY <1>4 DEF LeakInv, InTurn
  <2> QED BY <1>1, <1>4, <2>1, <2>2, <2>3, <2>4 DEF InTurn
<1>7. \A i \in 1..(n + 1) : Inherits(i)' <=> Inherits(i)
  BY <1>1, InheritsKept
<1>8. /\ answer[c] = Result(c, Inherits(n))
      /\ overflow <=> Leaves(c, Inherits(n), answer[c].reason)
  BY <1>1, <1>3, <1>4 DEF LeakInv, Holds
<1>9. ASSUME NEW i \in 1..n
      PROVE  (answer[served[i]] = Result(served[i], Inherits(i)))'
  <2>1. answer[served[i]] = Result(served[i], Inherits(i))
    <3>1. CASE i = n
      BY <1>4, <1>8, <3>1
    <3>2. CASE i # n
      <4>1. At(served[i], "answered")
        BY <1>3, <1>4, <1>5, <3>2 DEF LeakInv, InTurn
      <4> QED BY <1>4, <4>1 DEF LeakInv
    <3> QED BY <3>1, <3>2
  <2>2. PICK d \in Conn : d = served[i]
    BY <1>5
  <2>3. Inherits(i)' <=> Inherits(i)
    BY <1>7
  <2>4. Result(d, Inherits(i))' = Result(d, Inherits(i))
    BY <1>1, <2>3 DEF Result, Alone, ReachesBasis, Failure, Details
  <2> QED BY <1>1, <2>1, <2>2, <2>4
<1>10. (overflow <=> Inherits(n + 1))'
  <2>1. Inherits(n + 1) <=> overflow
    BY <1>4, <1>8, InheritsNext
  <2>2. Inherits(n + 1)' <=> Inherits(n + 1)
    BY <1>7
  <2> QED BY <1>1, <2>1, <2>2
<1> QED BY <1>1, <1>2, <1>4, <1>6, <1>9, <1>10 DEF LeakInv

\* Every step keeps the invariant.
LEMMA StepLeak == LeakInv /\ [Next]_vars => LeakInv'
<1> SUFFICES ASSUME LeakInv, [Next]_vars PROVE LeakInv'
  OBVIOUS
<1>1. CASE UNCHANGED vars
  <2>1. IInv'
    BY <1>1, StepIInv DEF LeakInv
  <2>2. UNCHANGED <<pc, asks, answer, computing, overflow, err, vectors, served>>
    BY <1>1 DEF vars, statics
  <2>3. InTurn'
    BY <2>2 DEF LeakInv, InTurn, At
  <2>4. \A i : Inherits(i)' <=> Inherits(i)
    BY <2>2 DEF Inherits, LeftOverflow, ClearsOverflow, ReachesBasis
  <2>5. \A c, inherited : /\ Result(c, inherited)' = Result(c, inherited)
                          /\ Passed(c, inherited)' <=> Passed(c, inherited)
                          /\ Holds(c, inherited)' <=> Holds(c, inherited)
    BY <2>2 DEF Result, Alone, ReachesBasis, Failure, Details, Passed, Holds, Leaves
  <2> QED BY <2>1, <2>2, <2>3, <2>4, <2>5 DEF LeakInv, At
<1>2. ASSUME NEW c \in Conn, Arrive(c) \/ Lock(c) \/ Stage(c) PROVE LeakInv'
  BY <1>2, ArriveLeak, LockLeak, InsideLeak, LeaveLeak DEF Stage
<1>3. CASE AllAnswered
  BY <1>1, <1>3 DEF AllAnswered
<1> QED BY <1>1, <1>2, <1>3 DEF Next

\* The invariant with the order of the requests holds in every state.
THEOREM ServedInTurn == Spec => []LeakInv
<1> QED BY InitLeak, StepLeak, PTL DEF Spec

\* An answer differs from the one of a fresh process only by the refusal of an
\* exact basis, and exactly when the request inherited a point out of range.
THEOREM OnlyOverflowLeaks == Spec => []LeakIsOverflowOnly
<1>1. LeakInv => LeakIsOverflowOnly
  <2> SUFFICES ASSUME LeakInv, NEW i \in DOMAIN served, At(served[i], "answered")
               PROVE  answer[served[i]] = Result(served[i], Inherits(i))
    BY DEF LeakIsOverflowOnly, Result
  <2>1. served \in Seq(Conn)
    BY DEF LeakInv, IInv, TypeOK
  <2>2. i \in 1..Len(served)
    BY <2>1
  <2> QED BY <2>2 DEF LeakInv
<1> QED BY <1>1, ServedInTurn, PTL
==============================================================================
