SPECIFICATION Spec
CONSTANTS
  c1 = c1
  c2 = c2
  e1 = e1
  r1 = r1
  s1 = s1
  s2 = s2
  None = None
  Candidates = {c1, c2}
  Experiments = {e1}
  Revisions = {r1}
  Sessions = {s1, s2}
  Results <- GoodAndNot
  Promotions <- AnyPromotion
  Serves = {"evaluate", "promote", "delete", "start", "mode"}
  Production = TRUE
  RequireChampion = TRUE
SYMMETRY Alike
INVARIANT
  OneEarnedChampion
PROPERTIES
  StartsAreGoverned
  ActiveIsKept
