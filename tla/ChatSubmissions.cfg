SPECIFICATION FairSpec
CONSTANTS
  Past = {p1}
  NoGroup = NoGroup
  MaxOps = 2
  MaxEvents = 1
INVARIANTS TypeOK OneSubmission NewChatIsEmpty AnswersHaveQuestions
PROPERTIES StoppedStaysSilent SelectionStays EverySubmissionEnds
CHECK_DEADLOCK FALSE
