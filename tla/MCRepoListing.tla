---------------------------- MODULE MCRepoListing ----------------------------
(* Values for the constants of RepoListing: for each distribution the entries  *)
(* that its code tells apart, repeated ones and ones with equal versions, and   *)
(* the sets of producers that one run may start.                                *)
EXTENDS RepoListing

\* 3.10.0-957, 3.10.0-862.el7 (below the minimum), 4.18.0-80.el8 and -80.1
Minimum == <<3, 10, 0, 957, NotANumber>>
Old     == <<3, 10, 0, 862, NotANumber>>
V80     == <<4, 18, 0, 80, NotANumber>>
V80_1   == <<4, 18, 0, 80, 1>>

Entry(kind, flavor, version, arch) ==
  [kind |-> kind, flavor |-> flavor, version |-> version, arch |-> arch]
Debug(version) == Entry("debug", "", version, "x86_64")

Stock == [
  rhel   |-> {Debug(V80), Debug(Minimum), Debug(Old), Entry("common", "", V80, "x86_64")},
  amzn   |-> {Debug(V80), Debug(Old), Entry("debug", "", V80, "aarch64"),
              Entry("common", "", V80, "x86_64")},
  centos |-> {Debug(V80), Debug(Old), Entry("debug", "", V80, "aarch64"),
              Entry("common", "", V80, "x86_64")},
  ol     |-> {Debug(V80), Debug(Old), Entry("debug", "", V80, "aarch64"),
              Entry("uek", "", Minimum, "x86_64")},
  fedora |-> {Debug(V80), Debug(V80_1), Entry("debug", "", V80, "aarch64")},
  debian |-> {Debug(V80), Debug(V80_1), Entry("other", "", V80, "x86_64")},
  sles   |-> {Entry("debug", "default", V80_1, "x86_64"), Entry("debug", "azure", V80, "x86_64"),
              Entry("debug", "preempt", V80, "x86_64"), Entry("debug", "default", V80, "aarch64")}]

MCEntries == UNION {Stock[d] : d \in DOMAIN Stock}

MaxEntries == [rhel |-> 2, amzn |-> 2, centos |-> 2, ol |-> 2, fedora |-> 2,
               debian |-> 1, sles |-> 1]

MCPages == [d \in DOMAIN Stock |-> SeqOf(Stock[d], MaxEntries[d])]

Producer(distro, release, arch) ==
  [distro |-> distro, release |-> release, arch |-> arch]

SUSE153 == Producer("sles", "15.3", "x86_64")
SUSE154 == Producer("sles", "15.4", "x86_64")

MCSelections == {
  {Producer("rhel", "7", "x86_64")},
  {Producer("rhel", "7", "x86_64"), Producer("rhel", "8", "x86_64")},
  {Producer("amzn", "2", "x86_64"), Producer("amzn", "2", "arm64")},
  {Producer("centos", "8", "x86_64")},
  {Producer("ol", "8", "x86_64"), Producer("ol", "8", "arm64")},
  {Producer("fedora", "24", "x86_64")}, {Producer("fedora", "24", "arm64")},
  {Producer("fedora", "31", "arm64")},
  {Producer("debian", "stretch", "x86_64")}, {Producer("debian", "bullseye", "x86_64")},
  {SUSE153}, {SUSE153, SUSE154}}

MCHostRepos == ToSet(Repos(SUSE153)) \cup ToSet(Repos(SUSE154))
MCEnabledBefore == {{}, {Repo(SUSE154, 1)}}

ASSUME MCPremises == ZypperNames

\* The producers of two RHEL releases, which -d rhel starts.
RHELReleases == {{Producer("rhel", "7", "x86_64"), Producer("rhel", "8", "x86_64")}}
=============================================================================
