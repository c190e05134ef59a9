SPECIFICATION FairSpec
CONSTANTS
  NumItems = 3
  feedA = feedA
  feedB = feedB
  reviewChat = reviewChat
  Sources <- MCSources
  SourceOf <- MCSourceOf
  ChatOf <- MCChatOf
  Specs <- OneSpec
  FetchJob = job
  Handlers = {h1}
  Verdicts = {approved}
  Unsendable = {3}
  None = None
  MaxFaults = 1
PROPERTIES
  ArchiveIsReviewed
