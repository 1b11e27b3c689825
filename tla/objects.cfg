SPECIFICATION ExchangeSpec
CONSTANTS
    Items <- MCItems
    Types <- MCTypes
    Losses <- MCLosses
    Lenient <- MCLenient
    Made <- MCMade
    Kept <- MCKept
    MaxHurt <- MCMaxHurt
INVARIANTS
  ExchangeInvariant
  RoundTrip
  HalfReadIsRefused
CHECK_DEADLOCK FALSE
