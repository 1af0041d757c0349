SPECIFICATION Spec
CONSTANTS
  None = None
  TaskIds = {"t1"}
  CommandIds <- LifecycleCommandIds
  TransitionIds <- LifecycleTransitionIds
  Refs <- LifecycleRefs
  StartStates = {"created"}
  Commands <- LifecycleCommands
  Reput = {}
CONSTRAINT FewRefusals
INVARIANTS TypeOK LogIsChain RefsNeverLost PrFollowsHappyPath
PROPERTIES AnswerIsFinal RefinesJournal
