SPECIFICATION Spec
CONSTANTS
  a = a
  b = b
  ka = ka
  kb = kb
  rule = rule
  None = None
  Id = {a, b}
  Text = {ka, kb, rule}
  Workers = {w1}
  Requests <- MixedRequests
  PrefixOf <- PrefixAB
  PartOf <- PartKAKB
  SedFinds <- Plain
  OldSudoers = {"ended", "unended"}
  OldKeys <- TerminatedFiles
  Failures = {"command", "grep", "death"}
  ByHand = {"foreign", "blank"}
  MaxLines = 5
INVARIANTS
  TypeOK
  GrantIsEffective
  RevokedKeyIsGone
