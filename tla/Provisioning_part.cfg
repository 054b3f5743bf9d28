SPECIFICATION Spec
CONSTANTS
  a = a
  b = b
  ka = ka
  kb = kb
  rule = rule
  None = None
  Id = {a, b}
  Text = {ka, kb, rule}
  Workers = {w1}
  Requests <- MixedRequests
  PrefixOf <- Nothing
  PartOf <- PartKAKB
  SedFinds <- Plain
  OldSudoers = {"ended"}
  OldKeys <- TerminatedFiles
  Failures = {}
  ByHand = {}
  MaxLines = 6
INVARIANT
  GrantAddsItsText
