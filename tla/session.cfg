SPECIFICATION Spec
CONSTANTS
  NoToken = NoToken
  NoGuard = NoGuard
  Never = Never
  Token = {k1}
  Guard = {api, me}
  Worker = {w1, w2}
  NegTTL = 2
  Life = 4
  MaxTime = 6
INVARIANTS
  TypeOK
  RevokedWithinTTL
  NoFalseRefusal
SYMMETRY WorkerSymmetry
