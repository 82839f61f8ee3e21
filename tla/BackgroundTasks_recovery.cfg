SPECIFICATION Spec
CONSTANTS
  Ops = {o1}
  Tasks = {t1}
INVARIANTS
  RecoversOnceDrained
