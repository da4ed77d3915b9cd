-------------------------- MODULE MCStateRequests --------------------------
(* StateRequests with the requests that take each of its branches.          *)
EXTENDS StateRequests

Plain == [fails |-> "none", details |-> TRUE, verdict |-> "ok",
          exact |-> TRUE, bridge |-> FALSE, far |-> FALSE]

MCAsks ==
  {[Plain EXCEPT !.fails = f] : f \in {"none", "request", "parent", "select", "front", "cell", "layout", "text"}}
  \cup {[Plain EXCEPT !.details = FALSE]}
  \cup {[Plain EXCEPT !.verdict = v] : v \in {"missing", "unsupported"}}
  \cup {[Plain EXCEPT !.exact = e, !.bridge = TRUE, !.far = f] : e \in BOOLEAN, f \in BOOLEAN}
  \cup {[Plain EXCEPT !.exact = FALSE, !.fails = f] : f \in {"none", "cell"}}
============================================================================
