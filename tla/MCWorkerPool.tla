---------------------------- MODULE MCWorkerPool ----------------------------
(* Values for the constants of WorkerPool: one producer with two flavours of  *)
(* kernels (Ubuntu, SUSE) and one whose only loop returns on any package      *)
(* error (RHEL, Amazon).                                                      *)
EXTENDS WorkerPool, TLC

CONSTANTS ubuntu, rhel, generic, aws, main_rhel, p1, p2, p3, p4

MCProducers == {ubuntu, rhel}
MCSlices == {generic, aws, main_rhel}
MCOwner == (generic :> ubuntu) @@ (aws :> ubuntu) @@ (main_rhel :> rhel)
MCStrict == {main_rhel}
MCPkgs == {p1, p2, p3, p4}
MCQueue == (generic :> <<p1, p2>>) @@ (aws :> <<p3>>) @@ (main_rhel :> <<p4>>)
=============================================================================
