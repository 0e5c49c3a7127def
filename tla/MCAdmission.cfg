SPECIFICATION Spec
CONSTANTS
  Micro = 10
  Prices <- MCPrices
  Multiplier = 110
  Asks <- MCAsks
  Usages <- MCUsages
  MaxOutput = 4
  MaxCap = 24
INVARIANTS
  SettlesWithinReservation
  OfferIsExact
  FloorRefusesOnlyHopeless
