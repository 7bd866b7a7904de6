------------------------------ MODULE MCOneLoop ------------------------------
(* Values for the constants of BtfHub with a single package loop, for the     *)
(* runs that start the program more than once or look at one loop closely.    *)
EXTENDS BtfHub, TLC

CONSTANTS distro, kernels, p1, p2, p3

MCProducers == {distro}
MCSlices == {kernels}
MCOwner == kernels :> distro
MCPkgs == {p1, p2, p3}
MCQueue == kernels :> <<p1, p2, p3>>
MCName == [p \in MCPkgs |-> p]

\* SUSE builds p1 and p2 of one kernel version: the BTF file name has no build
\* counter, the names of the package and of the vmlinux file do.
MCSharedName == [MCName EXCEPT ![p2] = p1]

\* The premises of ArchiveProofs hold of this instance when no name is shared.
ASSUME MCPremises == ListedOnce /\ (BTFName = MCName => DistinctNames)
=============================================================================
