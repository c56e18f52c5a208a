SPECIFICATION Spec
CONSTANTS
  c1 = c1
  c2 = c2
  r1 = r1
  r2 = r2
  s1 = s1
  k1 = k1
  None = None
  Cases = {c1, c2}
  Reviewers = {r1, r2}
  Services = {s1}
  Keys = {k1}
  Verdicts = {"ALLOW_QUALIFIED_ANSWER", "ESCALATE"}
  Authorized <- MCAuthorized
  CaseType <- MCCaseType
  AuditVerified <- MCAuditVerified
  QueueRank <- MCQueueRank
  PageSize = 1
  MaxTime = 1
  MaxRequests = 4
INVARIANTS RecordsAgree DecidedOnWhatWasSeen PagesShowTheQueue
PROPERTIES ReplaysAreAnswered ImplementsLifecycle
CHECK_DEADLOCK FALSE
