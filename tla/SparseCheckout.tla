---------------------------- MODULE SparseCheckout ----------------------------
(***************************************************************************)
(* tools/archive-sparse-checkout.sh: each call adds patterns to git's       *)
(* sparse-checkout file, or starts it anew, and applies it to the working   *)
(* tree of the archive repository, or leaves that to a later call. The      *)
(* script does not stop at a command that fails, except where it says die.  *)
(*                                                                         *)
(* A file of the archive is [distro, release, arch, kernel]. A pattern has  *)
(* the same fields, each a value or Star, and the last pattern of the file   *)
(* that matches a path decides. What `sparse-checkout init` puts into the   *)
(* file selects no file of a directory and is written as the empty file.    *)
(***************************************************************************)
EXTENDS Integers, SequencesExt

CONSTANTS
  Words,        \* what DISTRO, ARCH and VERSION and the parts of a path may be
  RepoFiles,    \* the files of the repository
  Calls,        \* the calls that are made, with their flags and environment
  MaxPatterns   \* bound: no call is made that makes the pattern file longer

Star == "*"
Archs == {"x86_64", "arm64", Star}

Patterns == [distro : Words, release : Words, arch : Words, kernel : Words]
CallType == [incremental : BOOLEAN, exclude : BOOLEAN, noApply : BOOLEAN,
             applyOnly : BOOLEAN, distros : Seq(Words), archs : Seq(Words),
             version : Words, custom : Seq(Patterns)]

\* DISTRO and ARCH default to "*", so that their lists have an element.
ASSUME CallsAssumption ==
  /\ Star \in Words
  /\ RepoFiles \subseteq Patterns
  /\ Calls \subseteq CallType
  /\ \A c \in Calls : c.distros # <<>> /\ c.archs # <<>>

VARIABLES
  cloned,    \* archive/.git exists
  patterns,  \* .git/info/sparse-checkout
  indexed,   \* git has filled the index: the first reset did
  tree,      \* the files in the working tree
  call,      \* the call in execution, or NoCall
  at,        \* where it is, or how the last one ended
  todo,      \* the lines it has still to write
  want,      \* history: the files that the calls so far ask for
  intact     \* history: no call that changes the file was cut short, or could not
             \* clone, since the last one that started it anew

vars == <<cloned, patterns, indexed, tree, call, at, todo, want, intact>>
history == <<want, intact>>

NoCall == [over |-> TRUE]
Over == call = NoCall

-----------------------------------------------------------------------------
(* Patterns *)

Matches(pat, path) == \A f \in DOMAIN path : pat[f] \in {path[f], Star}

\* git: the last line of the file that matches decides.
SelectedBy(file) == {path \in RepoFiles :
  \E i \in DOMAIN file :
    /\ Matches(file[i].pattern, path)
    /\ ~file[i].exclude
    /\ \A j \in DOMAIN file : j > i => ~Matches(file[j].pattern, path)}

Selected == SelectedBy(patterns)

Pattern(distro, release, arch) ==
  [distro |-> distro, release |-> release, arch |-> arch, kernel |-> Star]

\* In exclude mode a call without DISTRO, ARCH and VERSION only adds the custom
\* patterns.
OnlyCustom(c) ==
  c.exclude /\ Head(c.distros) = Star /\ Head(c.archs) = Star /\ c.version = Star

\* One pattern for each of the distributions and architectures.
Generated(c) ==
  IF OnlyCustom(c) THEN <<>>
  ELSE LET n == Len(c.archs) IN
    [i \in 1 .. Len(c.distros) * n |->
       Pattern(c.distros[((i - 1) \div n) + 1], c.version, c.archs[((i - 1) % n) + 1])]

Mut_Lines(c) ==
  [i \in DOMAIN Generated(c) |->
     [exclude |-> c.exclude, pattern |-> Generated(c)[i], append |-> c.incremental]]
  \o [i \in DOMAIN c.custom |->
     [exclude |-> TRUE, pattern |-> c.custom[i], append |-> TRUE]]

\* What tee writes, and whether with -a: TEE_FLAG is empty for the first pattern
\* of a call that is not incremental. Custom patterns are for exclude mode.
Lines(c) ==
  [i \in DOMAIN Generated(c) |->
     [exclude |-> c.exclude, pattern |-> Generated(c)[i],
      append |-> c.incremental \/ i > 1]]
  \o (IF c.exclude
        THEN [i \in DOMAIN c.custom |->
                [exclude |-> TRUE, pattern |-> c.custom[i], append |-> TRUE]]
        ELSE <<>>)

\* What a call means: the files of its distributions, architectures and version
\* are added to, or with --exclude taken from, what the calls before it asked for,
\* or from nothing.
Asked(c, before) ==
  LET In(list, value) == {value, Star} \cap ToSet(list) # {}
      own == {path \in RepoFiles : /\ In(c.distros, path.distro)
                                  /\ In(c.archs, path.arch)
                                  /\ In(<<c.version>>, path.release)}
      custom == {path \in RepoFiles : \E pat \in ToSet(c.custom) : Matches(pat, path)}
      base == IF c.incremental THEN before ELSE {}
  IN  IF c.applyOnly THEN before
      ELSE IF ~c.exclude THEN base \cup own
      ELSE (IF OnlyCustom(c) THEN base ELSE base \ own) \ custom

\* The calls so far are only known while the file is intact.
Keep(ok) ==
  /\ intact' = (intact /\ ok)
  /\ want' = IF intact' THEN want ELSE {}

-----------------------------------------------------------------------------
Init ==
  /\ cloned = FALSE
  /\ patterns = <<>>
  /\ indexed = FALSE
  /\ tree = {}
  /\ call = NoCall
  /\ at = "none"
  /\ todo = <<>>
  /\ want = {}
  /\ intact = TRUE

\* An architecture that does not exist; or a VERSION for more than one.
Invalid(c) ==
  \/ ~(ToSet(c.archs) \subseteq Archs)
  \/ c.version # Star /\ (Len(c.distros) > 1 \/ Len(c.archs) > 1)

Refuse(c) ==
  /\ Over
  /\ Invalid(c)
  /\ at' = "died"
  /\ UNCHANGED <<cloned, patterns, indexed, tree, call, todo, history>>

End(result) == call' = NoCall /\ at' = result

Begin(c) ==
  /\ Over
  /\ ~Invalid(c)
  /\ Len(patterns) + Len(Lines(c)) <= MaxPatterns
  /\ call' = c
  /\ at' = IF cloned THEN "clear" ELSE "clone"
  /\ todo' = IF c.applyOnly THEN <<>> ELSE Lines(c)
  /\ intact' = (intact \/ (~c.incremental /\ ~c.applyOnly))
  /\ want' = IF intact' THEN Asked(c, want) ELSE {}
  /\ UNCHANGED <<cloned, patterns, indexed, tree>>

\* git clone --no-checkout and sparse-checkout init; a failure goes unnoticed.
Clone ==
  /\ at = "clone"
  /\ cloned' \in BOOLEAN
  /\ at' = "clear"
  /\ Keep(cloned' \/ call.applyOnly)
  /\ UNCHANGED <<patterns, indexed, tree, call, todo>>

ClearPatterns ==
  /\ at = "clear"
  /\ patterns' = IF call.incremental \/ call.applyOnly THEN patterns ELSE <<>>
  /\ at' = "write"
  /\ UNCHANGED <<cloned, indexed, tree, call, todo, history>>

\* tee fails where there is no repository, and the script goes on.
AddPattern ==
  /\ at = "write"
  /\ todo # <<>>
  /\ patterns' = IF ~cloned THEN patterns
                 ELSE IF Head(todo).append THEN Append(patterns, Head(todo))
                 ELSE <<Head(todo)>>
  /\ todo' = Tail(todo)
  /\ UNCHANGED <<cloned, indexed, tree, call, at, history>>

EndNoApply ==
  /\ at = "write"
  /\ todo = <<>>
  /\ call.noApply
  /\ End("recorded")
  /\ UNCHANGED <<cloned, patterns, indexed, tree, todo, history>>

\* Reapply works on the files of the index, of which there are none at first.
Reapply ==
  /\ at = "write"
  /\ todo = <<>>
  /\ ~call.noApply
  /\ cloned
  /\ tree' = IF indexed THEN Selected ELSE tree
  /\ at' = "reset"
  /\ UNCHANGED <<cloned, patterns, indexed, call, todo, history>>

ReapplyFails ==
  /\ at = "write"
  /\ todo = <<>>
  /\ ~call.noApply
  /\ End("died")
  /\ UNCHANGED <<cloned, patterns, indexed, tree, todo, history>>

Mut_Reset ==
  /\ at = "reset"
  /\ indexed' = TRUE
  /\ End("applied")
  /\ UNCHANGED <<cloned, patterns, tree, todo, history>>

Reset ==
  /\ at = "reset"
  /\ tree' = Selected
  /\ indexed' = TRUE
  /\ End("applied")
  /\ UNCHANGED <<cloned, patterns, todo, history>>

\* || echo "Reset completed"
ResetFails ==
  /\ at = "reset"
  /\ End("applied")
  /\ UNCHANGED <<cloned, patterns, indexed, tree, todo, history>>

\* Interrupted at the keyboard.
Kill ==
  /\ ~Over
  /\ End("killed")
  /\ todo' = <<>>
  /\ Keep(call.applyOnly)
  /\ UNCHANGED <<cloned, patterns, indexed, tree>>

Next ==
  \/ \E c \in Calls : Refuse(c) \/ Begin(c)
  \/ Clone \/ ClearPatterns \/ AddPattern
  \/ EndNoApply \/ Reapply \/ ReapplyFails \/ Reset \/ ResetFails
  \/ Kill

Spec == Init /\ [][Next]_vars
-----------------------------------------------------------------------------
(* Properties *)

\* When a call is over, the pattern file selects what the calls asked for in their
\* order, whatever they included, excluded and started anew: no line of a call
\* overwrites one that should have stayed. A call that starts the file anew puts
\* right what one that was cut short, or could not clone, has left.
SelectionIsAsked == Over /\ intact => Selected = want

\* A call that ends well and applies the patterns leaves exactly these files in the
\* working tree, those of calls with --no-apply included. Only the first reset is
\* needed for that; a later one may fail, since reapply has done its work.
TreeIsAsked == at = "applied" /\ indexed /\ intact => tree = want
=============================================================================
