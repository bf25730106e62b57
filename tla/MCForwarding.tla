---------------------------- MODULE MCForwarding ----------------------------
(***************************************************************************)
(* Instances of Forwarding and Doctor for TLC.                             *)
(***************************************************************************)
EXTENDS Doctor, TLC

CONSTANTS vm, host

BothMachines == {vm, host}

\* Every client is run on the client machine, or on the daemon's own machine.
OnClient == [i \in Invocations |-> vm]
OnHost   == [i \in Invocations |-> host]

NoDoctor   == {}
ReadingOrNot == {{}, {"no-refresh"}}
Probing    == {{"interactive"}}

Symmetry == Permutations(Invocations)
=============================================================================
