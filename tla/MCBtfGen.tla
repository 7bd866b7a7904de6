------------------------------ MODULE MCBtfGen ------------------------------
(* Values for the constants of BtfGen: tarballs of one kernel version in two  *)
(* distributions, and one of another version.                                 *)
EXTENDS BtfGen, TLC

CONSTANTS centos7, ol7, ol8, v1, v2, v3

MCTarballs == {centos7, ol7, ol8}
MCNames == {v1, v2, v3}
MCDistinct == (centos7 :> v1) @@ (ol7 :> v2) @@ (ol8 :> v3)
MCShared == (centos7 :> v1) @@ (ol7 :> v1) @@ (ol8 :> v2)
=============================================================================
