---------------------------- MODULE MCOutputPage ----------------------------
(***************************************************************************)
(* OutputPage on two results.  The first has two occupancy modes that move *)
(* two atoms of one position and share one of them, a third atom, and a    *)
(* displacement whose slider is on the second page of the panel; two sites *)
(* of one parent and one of another, all of one element.  The second has   *)
(* too many atoms for bonds.  One launch is fine for the first result and  *)
(* not for the second, one would remove more of an atom than there is and  *)
(* stops at an unknown mode, one would do so only with what follows it.    *)
(***************************************************************************)
EXTENDS OutputPage

Atoms == {"x", "y", "z"}
MCCrystal == <<
    [modes |-> <<"p", "q", "d">>,
     weight |-> [mode \in {"p", "q"} |->
                    [a \in Atoms |-> CASE mode = "p" /\ a = "x" -> 1
                                       [] mode = "p" /\ a = "y" -> -1
                                       [] mode = "q" /\ a # "x" -> 1
                                       [] OTHER -> 0]],
     base |-> [a \in Atoms |-> 1],
     position |-> [a \in Atoms |-> IF a = "z" THEN "r" ELSE "s"],
     parentOf |-> [c \in {"A1", "A2", "B1"} |-> IF c = "B1" THEN "B" ELSE "A"],
     elementOf |-> [parent \in {"A", "B"} |-> "E"],
     many |-> FALSE],
    [NoCrystal EXCEPT !.modes = <<"d">>,
                      !.parentOf = [c \in {"C1"} |-> "C"],
                      !.elementOf = [parent \in {"C"} |-> "F"],
                      !.many = TRUE]>>

MCLaunches == {<< <<"q", 1>>, <<"d", 2>> >>,
               << <<"p", 3>>, <<"u", 1>> >>,
               << <<"p", 1>>, <<"u", 1>>, <<"q", 3>> >>}
=============================================================================
