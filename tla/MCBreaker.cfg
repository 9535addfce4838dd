SPECIFICATION FairSpec
CONSTANTS
  Callers = {c1, c2, c3}
  Window = 3
  MinSamples = 2
  Cooldown = 1
  ProbeTimeout = 1
  MaxCalls = 2
INVARIANTS TypeOK ClosedMeansHealthy
PROPERTIES OneProbeBeforeTimeout ImplementsGate DeniedGetsThrough
