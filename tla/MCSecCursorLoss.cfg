\* Two issuers followed from the start, filings listed in the order of their
\* acceptance, no window.
SPECIFICATION Spec
CONSTANTS
  a = a
  b = b
  c = c
  Entries = {1, 2, 3, 4}
  Issuer <- MCIssuer
  Filing <- MCFiling
  Accepted <- MCAccepted
  Followed = {1, 2}
  Late = {}
  Silent = {}
  Sinces = {0}
  Throughs = {2}
INVARIANT
  NoLoss
