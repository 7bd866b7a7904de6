-------------------------- MODULE MCUbuntuListing --------------------------
(* Values for the constants of UbuntuListing: lists of up to two stanzas, with *)
(* kernels in both lists or in one, of a small or an unknown size, signed and  *)
(* unsigned, of two flavours and of one that is not collected, incomplete      *)
(* stanzas and the empty one that two blank lines make.                        *)
EXTENDS UbuntuListing

CONSTANTS k1, k2, k3, k4

MCKernels == {k1, k2, k3, k4}
MCFlavor == (k1 :> "generic") @@ (k2 :> "generic") @@ (k3 :> "aws") @@ (k4 :> NoFlavor)

\* 5.4.0-42.46~a.1, 5.4.0-9.12, 4.15.0-9+x.7 and 4.15
MCVersion == (k1 :> <<5, 4, 0, 42, 46, NotANumber, 1>>) @@ (k2 :> <<5, 4, 0, 9, 12>>)
             @@ (k3 :> <<4, 15, 0, NotANumber, 7>>) @@ (k4 :> <<4, 15>>)

MCURLs == {"pool"}

Value(field, value) == [field |-> field, value |-> value]
Named(type, k, dbgsym) ==
  Value("Package", [type |-> type, kernel |-> k, dbgsym |-> dbgsym])

Image(type, k) ==
  <<Named(type, k, FALSE), OtherLine, Value("Version", MCVersion[k]), Value("Filename", "pool")>>
DebugImage(type, k, size) ==
  <<Named(type, k, TRUE), Value("Version", MCVersion[k]), Value("Size", size),
    Value("Filename", "pool")>>

MainStanzas == {
  Image("signed", k1), Image("unsigned", k1), Image("signed", k2), Image("signed", k3),
  Image("signed", k4), Image("other", k3), <<>>,
  <<Named("signed", k3, FALSE), Value("Filename", "pool")>>}

DebugStanzas == {
  DebugImage("unsigned", k1, 700), DebugImage("signed", k1, 10), DebugImage("signed", k1, 0),
  DebugImage("unsigned", k2, 700), DebugImage("unsigned", k4, 700),
  <<Named("signed", k3, TRUE), Value("Version", MCVersion[k3]), Value("Filename", "pool")>>}

MCMainLists == SeqOf(MainStanzas, 2)
MCDebugLists == SeqOf(DebugStanzas, 2)
MCArchives == {{}, {k1}}

\* pkg/kernel/kernel_test.go: 3.10.0-957 is not less than 3.10.0-957.el7;
\* 3.10.0-956 is, and 3.10.0-957 is less than 3.10.0-957.100.
KernelLess(v, w) == Less(SplitIntoInts(v), SplitIntoInts(w))

ASSUME VersionOrdering ==
  /\ ~KernelLess(<<3, 10, 0, 957>>, <<3, 10, 0, 957, NotANumber>>)
  /\ KernelLess(<<3, 10, 0, 956>>, <<3, 10, 0, 957, NotANumber>>)
  /\ KernelLess(<<3, 10, 0, 957>>, <<3, 10, 0, 957, 100>>)
=============================================================================
