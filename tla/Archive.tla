------------------------------- MODULE Archive -------------------------------
(***************************************************************************)
(* What btfhub promises of the archive directory to whoever publishes it    *)
(* (the workflow of .github/workflows/cron.yml commits it): seen from        *)
(* outside, the entry of a kernel package is none, a tarball that is not    *)
(* complete, a complete tarball, or the marker that says the kernel has its *)
(* own BTF. A marker is final, and a complete tarball is while the program  *)
(* is run without -f.                                                       *)
(***************************************************************************)
CONSTANT Pkgs
VARIABLES entry, forced

Init == entry = [p \in Pkgs |-> "none"] /\ forced \in BOOLEAN

Move(p, old, new) ==
  /\ entry[p] = old
  /\ entry' = [entry EXCEPT ![p] = new]
  /\ UNCHANGED forced

Begin(p)   == Move(p, "none", "incomplete")
Publish(p) == Move(p, "incomplete", "published")
Abort(p)   == Move(p, "incomplete", "none")
Native(p)  == Move(p, "none", "native")
Redo(p)    == forced /\ Move(p, "published", "incomplete")

StartAgain == forced' \in BOOLEAN /\ UNCHANGED entry

Next ==
  \/ StartAgain
  \/ \E p \in Pkgs : Begin(p) \/ Publish(p) \/ Abort(p) \/ Native(p) \/ Redo(p)

Spec == Init /\ [][Next]_<<entry, forced>>
=============================================================================
