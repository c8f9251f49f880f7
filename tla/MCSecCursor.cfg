\* Late listings, a growing universe, windows, damage and crashes.
SPECIFICATION Spec
CONSTANTS
  a = a
  b = b
  c = c
  Entries = {1, 2, 3, 4}
  Issuer <- MCIssuer
  Filing <- MCFiling
  Accepted <- MCAccepted
  Followed = {1}
  Late = {1}
  Silent = {b}
  Sinces = {0}
  Throughs = {1, 2}
PROPERTIES
  CursorMovesOverOutput
  CursorNeverRetreats
  PublishedIsCanonical
