\* One runner at a time: ranges, repairs, an old parser, a revised index, faults.
SPECIFICATION FairSpec
CONSTANTS
  Days = {1, 2}
  Filings = {1, 2, 3}
  Day <- MCDay
  Malformed = {1}
  Mendable = {1}
  Runners = {1}
  Group = {1}
  None = None
  MaxDays = 1
  MaxFilings = 1
  MaxTime = 2
  MaxFaults = 2
  MaxRevisions = 1
  MaxOld = 1
INVARIANTS ReportIsTrue
PROPERTIES ProgressKept EverythingStored
