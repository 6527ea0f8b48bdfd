\* Two lanes and a probe that may die; the diagnostics report wedged lanes.
CONSTANTS
  Lanes = {l1, l2}
  Reports <- MCReports
  Ingress = Ingress
  MaxCrashes = 1
SPECIFICATION FairSpec
INVARIANTS TypeOK AlertsDebounced KeysWereAlerted
PROPERTIES NoWedgeMissed WedgesEnd
