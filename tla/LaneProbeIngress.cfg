CONSTANTS
  Lanes = {l1, l2}
  Reports <- MCReportsManual
  Ingress = Ingress
  MaxCrashes = 1
SPECIFICATION Spec
PROPERTIES StaleMeansSilent
