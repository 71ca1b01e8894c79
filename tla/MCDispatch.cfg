\* Calls and replies between contracts, intact or with a byte or word changed.
CONSTANTS
  Base = 4
  AddressLength = 2
  Contracts <- MCContracts
  TryPacked = TRUE
  Noise = {0, 1, 2, 3}
  Pasts = {1}
  FixedLayoutSize = 3
SPECIFICATION Spec
INVARIANTS
  SizeExact
  InsideBuffer
  RunsWhatIsMeant
  RefusedMeansNothing
  EndToEnd
