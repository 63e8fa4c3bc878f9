SPECIFICATION ResolveSpec
CONSTANTS
  Tenants = {t1}
  Slugs = {s1}
  Hosts = {}
  None = None
  MaxTenantStamp = 1
  Definitions = {d1}
  Fields = {f1}
  Keys = {k1}
  FieldKinds <- PlainOptional
  Resources = {r1, r2}
  Aliases = {a1, a2}
  Values = {v1}
  Empty = Empty
  MaxDefinitionStamp = 2
  MaxResourceTouches = 2
SYMMETRY Symmetry
CHECK_DEADLOCK FALSE
INVARIANT UnchangedTagUnchangedAnswer
