CONSTANTS
  Sessions = {s1, s2, s3}
  Restorers = {r1}
  MaxRounds = 3
  NoSession = NoSession
  Nobody = Nobody
SPECIFICATION Spec
INVARIANTS TypeOK PullsMatchStatus
PROPERTIES SuccessIsFinal RestoreEnds
