\* Digest jobs and a daily pipeline; recoveries, a notice and both syncs.
SPECIFICATION MCSpec
CONSTANTS
  d1 = d1
  d2 = d2
  d3 = d3
  r1 = r1
  r2 = r2
  n1 = n1
  daily = daily
  pages = pages
  Nobody = Nobody
  Days = {1, 2}
  Runs = {7}
  Claimants = {d1, d2, d3, r1, r2, n1}
  Task <- MCTask
  Syncers = {daily, pages}
  Carriers = {daily}
INVARIANTS
  ClaimOutlivesSend
PROPERTIES
  BranchKeepsEvidence
  DaysClaimedInOrder
  ImplementsDelivery
CHECK_DEADLOCK FALSE
