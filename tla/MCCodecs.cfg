CONSTANTS
  Base = 8
  MaxPayload = 3
  Damage = {0, 1, 7}
  MaxPoints = 4
  Envelopes <- MCEnvelopes
  Clouds <- MCClouds
SPECIFICATION Spec
INVARIANTS
  EnvelopeRoundTrip
  ResizedRejected
  AcceptedIsCanonical
  CloudRestored
  DamagedRejected
CHECK_DEADLOCK FALSE
