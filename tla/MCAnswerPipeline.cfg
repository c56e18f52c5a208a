CONSTANTS
  none = none
  w1 = w1
  w2 = w2
  oldText = oldText
  newText = newText
  noteText = noteText
  otherText = otherText
  helloText = helloText
  None = none
  Chunks <- MCChunks
  Info <- MCInfo
  Texts <- MCTexts
  Requested <- MCRequested
  Answers <- MCAnswers
  RrfScale = 1000
  RrfK = 60
  MaxItems = 4
  MaxExact = 1
  MaxPerSource = 1
  MaxPerVersion = 2
  ContextBudget = 5
  MaxExcerpt = 3
  MinExcerpt = 1
  MaxRevisions = 1
  MinApplicable = 1
  MaxAge = 3
  Kind <- MCKind
  Opposes <- MCOpposes
  Related <- MCRelated
  Mentions <- MCMentions
  Workers = {w1, w2}
  FirstDrafts <- MCFirstDrafts
  SecondDrafts <- MCSecondDrafts
  Grades = {"SUPPORTS", "REFUTES", "UNCERTAIN"}
  MaxAttempts = 2
  MaxRestarts = 1
  CandidateSets <- MCCandidateSets
  Contexts <- MCContexts
  Questions <- MCQuestions
  Fallbacks <- MCFallbacks
SPECIFICATION PipelineSpec
SYMMETRY MCSymmetry
INVARIANTS
  EvidenceIsAccounted
  SufficientIsSound
  ReleasedDraftIsOnRecord
  CarriedClaimsWereSupported
  AnswersRestOnEvidence
CHECK_DEADLOCK FALSE
