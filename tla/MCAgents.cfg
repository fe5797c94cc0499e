SPECIFICATION FairSpec
CONSTANTS
  p1 = p1
  p2 = p2
  Process <- MCProcess
  Task <- MCTask
  base = base
  good = good
  bad = bad
  review = review
  opus = opus
  flash = flash
  lineA = lineA
  lineB = lineB
  Absent = Absent
  Empty = Empty
  Garbled = Garbled
  Cleared = Cleared
  Content <- MCContent
  Request <- MCRequest
  Line <- MCLine
  Outcome <- MCOutcome
  Verified <- MCVerified
  Retries = 1
CHECK_DEADLOCK FALSE
INVARIANT TypeOK
INVARIANT ResultsAreRuns
INVARIANT VerifiedWhenRun
INVARIANT InputsUploaded
PROPERTY RunsEnd
