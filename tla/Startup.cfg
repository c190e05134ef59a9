SPECIFICATION Spec
CONSTANTS
  Chats = {"news", "more", "desk", "ops", "super"}
  Names = {"alpha", "beta", "wire", "bank"}
  Edits <- OneChange
  First <- TwoChannels
  Supergroup = "super"
  Published = {"SPEC_URL"}
  MaxEdits = 2
  MaxFaults = 1
INVARIANTS
  TypeOK
  AudienceIsSafe
  VersionsFirst
  UnresolvedByDefaults
