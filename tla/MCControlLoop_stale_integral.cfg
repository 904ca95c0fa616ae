CONSTANTS
  Devices = {"near", "far"}
  Documents <- MCDocuments
  Cycle = 2
  Longest = 3
  ResumeWithin = 3
  HoldBound = 2
  Demands <- MCDemands
  Caps <- MCCaps
  MaxFaults = 0
SPECIFICATION Spec
INVARIANT NoStaleIntegral
