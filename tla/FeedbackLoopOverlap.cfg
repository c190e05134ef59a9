SPECIFICATION Spec
CONSTANTS
  NumItems = 2
  feedA = feedA
  feedB = feedB
  reviewChat = reviewChat
  Sources <- MCSources
  SourceOf <- MCSourceOf
  ChatOf <- MCChatOf
  Specs <- OneSpec
  FetchJob = job
  Handlers = {h1}
  Verdicts = {approved, rejected}
  Unsendable = {}
  None = None
  MaxFaults = 0
INVARIANT
  OneUnansweredCard
