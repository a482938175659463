CONSTANTS
  ETHERNET_MAX_SIZE = 40
  Arrivals <- MCArrivals
  Payloads <- MCPayloads
  Options <- MCOptions
  TLVs <- MCTLVs
  Tagged <- MCTagged
  Services = {46, 1}
  Dps <- MCDps
  DpPorts <- MCDpPorts
  Costs <- MCCosts
  MaxLinks = 3
SPECIFICATION Spec
CHECK_DEADLOCK FALSE
INVARIANT FitsItsSpace
INVARIANT WholeFramesPass
INVARIANT ReencodedAlike
INVARIANT DecodedIsSent
INVARIANT JsonKeeps
INVARIANT PathConnected
