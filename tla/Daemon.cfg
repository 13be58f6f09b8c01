\* Two plugins with any dependencies, an inspection and a run that calls tools, two signals.
CONSTANTS
  Plugins = {1, 2}
  Ids = {1, 2, 3}
  Manifests <- MCManifests
  Checked = {1, 2}
  Servers <- MCServers
  Allowed = {"get"}
  Local <- MCLocal
  Namespaces <- MCNamespaces
  MaxTools = 2
  MaxSchema = 2
  q1 = q1
  q2 = q2
  r1 = r1
  Inspections = {q1}
  Submissions = {q2}
  Runs = {r1}
  Signals = {"SIGINT", "SIGTERM"}
SPECIFICATION FairSpec
CHECK_DEADLOCK FALSE
INVARIANTS
  DaemonInv
  DependenciesServe
  NothingInFlight
  LeftOpenForCause
  ExitTellsTruth
PROPERTIES
  DaemonSettles
