CONSTANTS
  Self = "ground"
  Peers = {"drone1", "drone2"}
  MaxUps = 2
  MaxWire = 2
SPECIFICATION PresenceSpec
INVARIANTS
  PresenceExact
  ReconnectsReal
PROPERTY
  ImplementsHostPresence
