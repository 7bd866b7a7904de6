--------------------------- MODULE MCSparseCheckout ---------------------------
(* Values for the constants of SparseCheckout: two distributions, two releases  *)
(* and two architectures, and the kinds of calls that --help shows.             *)
EXTENDS SparseCheckout

MCWords == {Star, "ubuntu", "centos", "7", "focal", "x86_64", "arm64", "ppc64",
            "3.10", "5.4"}

MCRepoFiles == [distro : {"ubuntu", "centos"}, release : {"7", "focal"},
              arch : {"x86_64", "arm64"}, kernel : {"3.10", "5.4"}]

Call(flags, distros, archs, version, custom) ==
  [incremental |-> "-i" \in flags, exclude |-> "-e" \in flags,
   noApply |-> "-n" \in flags, applyOnly |-> "-a" \in flags,
   distros |-> distros, archs |-> archs, version |-> version, custom |-> custom]

All == <<Star>>
OldKernels == [distro |-> Star, release |-> Star, arch |-> Star, kernel |-> "3.10"]

MCCalls == {
  Call({}, All, All, Star, <<>>),
  Call({"-n"}, <<"ubuntu", "centos">>, <<"x86_64", "arm64">>, Star, <<>>),
  Call({"-i"}, <<"ubuntu">>, All, "7", <<OldKernels>>),
  Call({"-e", "-i"}, <<"centos">>, All, "7", <<>>),
  Call({"-e", "-i", "-n"}, All, All, Star, <<OldKernels>>),
  Call({"-e"}, All, <<"arm64">>, Star, <<OldKernels>>),
  Call({"-a"}, All, All, Star, <<>>),
  Call({}, <<"ubuntu", "centos">>, All, "7", <<>>),
  Call({}, All, <<"ppc64">>, Star, <<>>)}
=============================================================================
