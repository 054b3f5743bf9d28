SPECIFICATION Spec
CONSTANTS
  a = a
  b = b
  ka = ka
  kb = kb
  rule = rule
  None = None
  Id = {a, b}
  Text = {ka, kb, rule}
  Workers = {w1, w2}
  Requests <- KeyRequests
  PrefixOf <- Nothing
  PartOf <- Nothing
  SedFinds <- Plain
  OldSudoers = {"ended"}
  OldKeys <- Nothing
  Failures = {}
  ByHand = {}
  MaxLines = 8
INVARIANT
  RevokedKeyIsGone
