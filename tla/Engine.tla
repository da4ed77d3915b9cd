------------------------------- MODULE Engine -------------------------------
(***************************************************************************)
(* The engine below the requests: the walk over the isotropy subspaces of  *)
(* an irrep (IsotropyWalk), and what the engine keeps between the calls of *)
(* one process, which is the residue fields and the exact rows of the      *)
(* walks (ExactRows) and the memos of the mode frames (ModeFrames).  All   *)
(* of it is static data or a local of one call, reached by one request at  *)
(* a time: the server computes under its compute_lock, the command line    *)
(* has one thread.                                                         *)
(*                                                                         *)
(* The parts share no variable, so a behaviour exercises one of them and   *)
(* leaves the others in their initial states.                              *)
(***************************************************************************)
EXTENDS ExactRows, ModeFrames, IsotropyWalk

VARIABLE exercised  \* which part this behaviour is about

engineVars == <<fieldVars, rowVars, frameVars, walkVars, exercised>>

EngineInit ==
    /\ RowsInit
    /\ FramesInit
    /\ WalkInit
    /\ exercised \in {"rows", "frames", "walk"}

EngineNext ==
    /\ UNCHANGED exercised
    /\ \/ exercised = "rows" /\ RowsNext /\ UNCHANGED <<frameVars, walkVars>>
       \/ exercised = "frames" /\ FramesNext /\ UNCHANGED <<fieldVars, rowVars, walkVars>>
       \/ exercised = "walk" /\ WalkNext /\ UNCHANGED <<fieldVars, rowVars, frameVars>>

EngineSpec == EngineInit /\ [][EngineNext]_engineVars
=============================================================================
