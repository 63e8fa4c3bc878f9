SPECIFICATION Spec
CONSTANTS
  Tenants = {t1, t2}
  Slugs = {s1, s2}
  Hosts = {h1, h2}
  None = None
  MaxTenantStamp = 2
  Definitions = {d1}
  Fields = {f1}
  Keys = {k1}
  FieldKinds <- PlainKinds
  Resources = {r1, r2, r3}
  Aliases = {a1, a2, a3}
  Values = {v1}
  Empty = Empty
  MaxDefinitionStamp = 3
  MaxResourceTouches = 3
SYMMETRY Symmetry
CONSTRAINT OneInstance
CHECK_DEADLOCK FALSE
INVARIANTS LinksAreSound ValuesBelong StrictStayFilled NotModifiedIsCurrent
PROPERTY RequiredNeverLost
