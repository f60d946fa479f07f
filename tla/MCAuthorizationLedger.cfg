\* Two workers, two requests of the owner, and ordinary reviews beside them.
SPECIFICATION Spec
CONSTANTS
  Workers = {w1, w2}
  Nobody = Nobody
  Orphan = Orphan
  Revs = {}
  NoRev = NoRev
  Requests = {c1, c2}
  NoRequest = NoRequest
SYMMETRY Symmetry
VIEW View
INVARIANTS
  TypeOK
  ConsumedCommandNeverAdvises
  RefusalIsExplained
  SettledHasNoIncident
PROPERTIES
  OneShot
  BlockingIsNotDowngraded
