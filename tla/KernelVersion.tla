---------------------------- MODULE KernelVersion ----------------------------
(***************************************************************************)
(* pkg/kernel/kernel.go: a version string is split at '.', '~' and '-' and  *)
(* its leading numbers are compared. A token is modelled by its number, and *)
(* by NotANumber when strconv.Atoi rejects it ("el7", "2+deb10u1").         *)
(***************************************************************************)
EXTENDS Integers, Sequences

NotANumber == -1

\* The tokens in front of the first one that is not a number.
SplitIntoInts(tokens) ==
  LET Numbers(n) == \A i \in 1 .. n : tokens[i] # NotANumber
      n == CHOOSE n \in 0 .. Len(tokens) :
             Numbers(n) /\ (n = Len(tokens) \/ tokens[n + 1] = NotANumber)
  IN  SubSeq(tokens, 1, n)

\* The loop of Less compared the first n numbers of both and found no difference.
SameUpTo(vi, vj, n) == \A y \in 1 .. n : vi[y] = vj[y]

\* It returns at the first difference, or at the end of one of the two.
Less(vi, vj) ==
  \/ \E x \in DOMAIN vi \cap DOMAIN vj :
       SameUpTo(vi, vj, x - 1) /\ vi[x] < vj[x]
  \/ Len(vi) < Len(vj) /\ SameUpTo(vi, vj, Len(vi))
=============================================================================
