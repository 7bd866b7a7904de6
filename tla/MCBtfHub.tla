------------------------------ MODULE MCBtfHub ------------------------------
(* Values for the constants of BtfHub: one producer whose loop goes on after  *)
(* a package error (Debian) and one whose loop does not (RHEL, Amazon).       *)
EXTENDS BtfHub, TLC

CONSTANTS debian, rhel, debs, rpms, p1, p2, p3

MCProducers == {debian, rhel}
MCSlices == {debs, rpms}
MCOwner == (debs :> debian) @@ (rpms :> rhel)
MCStrict == {rpms}
MCPkgs == {p1, p2, p3}
MCQueue == (debs :> <<p1, p2>>) @@ (rpms :> <<p3>>)
MCHasBTF == {p3}
MCName == [p \in MCPkgs |-> p]

\* The premises of ArchiveProofs hold of this instance.
ASSUME MCPremises == DistinctNames /\ ListedOnce
=============================================================================
