SPECIFICATION Spec
CONSTANTS
  h1 = h1
  h2 = h2
  s1 = s1
  NoHost = NoHost
  NoAddr = NoAddr
  Primary = primary
  Families = {"v4", "v6"}
  Addresses = {1, 2}
  FirstAddr = 1
  Hosts <- MCHosts
  DisabledHosts = {}
  Standbys <- MCStandbys
  Covers <- MCCovers
  Unbindable <- Bindable
  Policies <- MCPolicies
  Reassigns <- Upwards
  MaxAttempts = 2
  MaxCrashes = 1
  CallsDuringStart = FALSE
INVARIANTS
  NoRegress
  SuccessMeansCommitted
  PersistedWhenIdle
PROPERTIES
  CheckpointsOnlyAdvance
  DryRunInert
