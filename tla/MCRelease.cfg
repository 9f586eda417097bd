CONSTANTS
  MacTargets <- MCTargets
  Builds <- MCBuilds
  Sboms <- MCSboms
  Allowed = {"MIT", "Apache-2.0"}
  ForbiddenAnywhere = {"GPL-3.0"}
  ForbiddenShipped = {"MPL-2.0"}
  Unknown = {"NOASSERTION"}
  KnownExceptions = {"LLVM-exception"}
  Installed = {"arm64", "x86_64"}
  Version = {1, 2}
  Containing <- MCContaining
  Epoch = {1}
  NameMax = 10
  PrefixMax = 12
  FieldMax = 8
SPECIFICATION Spec
INVARIANTS
  ReleaseIsOne
  FrontEndIsCurrent
  LicencesHold
CHECK_DEADLOCK FALSE
