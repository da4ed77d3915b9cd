------------------------------ MODULE Process -------------------------------
(***************************************************************************)
(* One apo process: its command line (CliRun), what its engine keeps and   *)
(* walks while a request is computed (Engine), the coupled directions of   *)
(* its requests (CoupledOpds), the k families of its supercells            *)
(* (KFamilies), the modes it keeps (IndependentModes) and the kernels it   *)
(* solves for (ExactKernel).  The command line sees of the engine only its *)
(* answer, the engine of the command line only the request; coupled()      *)
(* starts from rows that are found, k_family_records() from a basis,       *)
(* independent_union() from modes, exact_kernel() from a matrix: the steps *)
(* of the six touch no common variable and a behaviour follows one of them. *)
(***************************************************************************)
EXTENDS Engine, CliRun, CoupledOpds, KFamilies, IndependentModes, ExactKernel

EngineAtRest ==
    /\ RowsInit /\ FramesInit /\ WalkInit
    /\ exercised = "none"
CliAtRest == CliAt(CHOOSE in \in Inputs : TRUE, "elsewhere")

CoupledAtRest ==
    /\ couple = CHOOSE c \in Couples : TRUE
    /\ rowLimit = 0 /\ combo = 0 /\ listed = <<>> /\ frequencies = <<>>
    /\ coupling = "idle" /\ coupled = MaxCoupled
FamiliesAtRest == KAt({<<>>})
UnionAtRest == UnionAt({<<>>}, "ended")
KernelAtRest == KernelAt({<<>>}, "ended")

ProcessInit ==
    \/ EngineInit /\ CliAtRest /\ CoupledAtRest /\ FamiliesAtRest /\ UnionAtRest /\ KernelAtRest
    \/ CliInit /\ EngineAtRest /\ CoupledAtRest /\ FamiliesAtRest /\ UnionAtRest /\ KernelAtRest
    \/ CoupledInit /\ EngineAtRest /\ CliAtRest /\ FamiliesAtRest /\ UnionAtRest /\ KernelAtRest
    \/ KInit /\ EngineAtRest /\ CliAtRest /\ CoupledAtRest /\ UnionAtRest /\ KernelAtRest
    \/ UnionInit /\ EngineAtRest /\ CliAtRest /\ CoupledAtRest /\ FamiliesAtRest /\ KernelAtRest
    \/ KernelInit /\ EngineAtRest /\ CliAtRest /\ CoupledAtRest /\ FamiliesAtRest /\ UnionAtRest
ProcessNext ==
    \/ EngineNext /\ UNCHANGED <<cliVars, coupledVars, kVars, modeVars, kernelVars>>
    \/ CliNext /\ UNCHANGED <<engineVars, coupledVars, kVars, modeVars, kernelVars>>
    \/ CoupledNext /\ UNCHANGED <<engineVars, cliVars, kVars, modeVars, kernelVars>>
    \/ KNext /\ UNCHANGED <<engineVars, cliVars, coupledVars, modeVars, kernelVars>>
    \/ UnionNext /\ UNCHANGED <<engineVars, cliVars, coupledVars, kVars, kernelVars>>
    \/ KernelNext /\ UNCHANGED <<engineVars, cliVars, coupledVars, kVars, modeVars>>
ProcessSpec == ProcessInit /\ [][ProcessNext]_<<engineVars, cliVars, coupledVars, kVars, modeVars, kernelVars>>
=============================================================================
