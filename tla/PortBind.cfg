SPECIFICATION Spec
CONSTANTS
  Thread = {t1, t2}
  Binding = {x1}
  Bit = {a1}
  Key = {key}
  none = none
INVARIANT BindMissesNothing
