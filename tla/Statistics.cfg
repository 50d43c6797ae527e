\* One object; the report is full after two periods; the ACS, the device and a restart.
SPECIFICATION Spec
CONSTANTS
  SampleInterval = 2
  TimeReference = 11
  ReportSamples = 2
  FetchSamples = 2
  CsvValues = 2
  Word = 4
  Objects = {s1}
  SubSampleInterval = 1
  RetryDelay = 2
  StartTime = 7
  EndTime = 13
  MaxSettings = 2
  MaxMishaps = 1
  MaxSessions = 1
  Kinds <- MCKinds
  Growths <- MCGrowths
  Intervals <- MCIntervals
INVARIANTS
  TrafficReal
  ReportFaithful
  SlidingWindow
  EnabledIsPolled
  PollingOwns
