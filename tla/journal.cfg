SPECIFICATION JournalSpec
CONSTANTS
  j1 = j1
  j2 = j2
  p1 = p1
  p2 = p2
  NoJob = NoJob
  Jobs <- Jobs2
  Presses <- Presses2
  Actions <- Both
  MaxGeneration = 5
  MaxFaults = 1
SYMMETRY Symmetric
CHECK_DEADLOCK FALSE
INVARIANTS JobSurvives JobSurvivesAtRest
