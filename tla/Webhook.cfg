SPECIFICATION FairSpec
CONSTANTS
  u1 = u1
  u2 = u2
  ann = ann
  bob = bob
  None = None
  Updates <- TwoUpdates
  Users <- TwoUsers
  Mail <- FewMail
  Allowlist <- OnlyBob
  Admins <- OnlyAnn
  Replicas = {r1}
  Tasks = {q1, q2}
  CacheTime = 1
  Window = 1
  MaxFaults = 1
INVARIANTS TypeOK NothingSwallowed RulingsAreFresh AuditComplete
PROPERTIES ImplementsAtMostOnce EventuallyAnswered
