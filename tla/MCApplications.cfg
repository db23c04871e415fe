\* Two requests in flight; room for the whole pipeline and one stale row.
CONSTANTS
  r1 = r1
  r2 = r2
  Requests = {r1, r2}
  MaxHistory = 8
SPECIFICATION Spec
SYMMETRY Symmetry
INVARIANTS
  TypeOK
  HistoryGrounded
  HiredPassedEveryStage

  
