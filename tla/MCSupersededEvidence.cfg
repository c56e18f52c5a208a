CONSTANTS
  none = none
  w1 = w1
  w2 = w2
  oldText = oldText
  newText = newText
  noteText = noteText
  otherText = otherText
  helloText = helloText
  None = none
  Chunks <- MCChainChunks
  Info <- MCChain
  Texts <- MCTexts
  Requested <- MCRequested
  Answers <- MCChainAnswers
  RrfScale = 1000
  RrfK = 60
  MaxItems = 4
  MaxExact = 1
  MaxPerSource = 3
  MaxPerVersion = 2
  ContextBudget = 8
  MaxExcerpt = 3
  MinExcerpt = 1
  MaxRevisions = 1
  MinApplicable = 1
  MaxAge = 3
  Kind <- MCKind
  Opposes <- MCOpposes
  Related <- MCRelated
  Mentions <- MCMentions
  Workers = {w1}
  FirstDrafts <- MCFirstDrafts
  SecondDrafts <- MCChainDrafts
  Grades = {"SUPPORTS", "REFUTES", "UNCERTAIN"}
  MaxAttempts = 2
  MaxRestarts = 1
  CandidateSets <- MCCandidateSets
  Contexts <- MCContexts
  Questions <- MCQuestions
  Fallbacks <- MCChainFallbacks
SPECIFICATION PipelineSpec
INVARIANT SelectedIsLatest
CHECK_DEADLOCK FALSE
