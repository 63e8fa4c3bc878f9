--------------------------- MODULE CatalogProofs ---------------------------
(***************************************************************************)
(* Proofs about the tenant directory and the resource catalogue: hostnames *)
(* lead to live tenants, what consumers keep under an unchanged tag is     *)
(* current, links and values stay sound, and required values are never     *)
(* lost, for any tenants, definitions, fields, resources and bounds.       *)
(***************************************************************************)
EXTENDS ResourceCatalog, TLAPS

-----------------------------------------------------------------------------
(* The directory.  A live tenant has a slug of its own, and a hostname is   *)
(* mapped to a live tenant.                                                 *)

DirInv ==
  /\ DirTypeOK
  /\ \A t \in Tenants : Live(t) => tenant[t].slug \in Slugs
  /\ \A t, u \in Tenants : Live(t) /\ Live(u) /\ tenant[t].slug = tenant[u].slug => t = u
  /\ \A h \in Hosts : domain[h] # None => Live(domain[h])

\* A tenant row is written with a free slug and stays live.
LEMMA TenantsMove ==
  ASSUME DirInv, NEW t \in Tenants, NEW row \in Tenant,
         tenant' = [tenant EXCEPT ![t] = row], row.status \in Statuses, row.slug \in Slugs,
         SlugFree(row.slug, t), domain' = domain
  PROVE  DirInv'
  <1>1. tenant' \in [Tenants -> Tenant]
    BY DEF DirInv, DirTypeOK
  <1>2. tenant'[t] = row /\ \A u \in Tenants \ {t} : tenant'[u] = tenant[u]
    BY DEF DirInv, DirTypeOK
  <1>3. \A u \in Tenants : Live(u)' <=> u = t \/ Live(u)
    BY <1>2 DEF Live
  <1>4. \A u, v \in Tenants : Live(u)' /\ Live(v)' /\ tenant'[u].slug = tenant'[v].slug => u = v
    BY <1>2, <1>3 DEF DirInv, SlugFree
  <1>5. \A h \in Hosts : domain'[h] # None => Live(domain[h])'
    BY <1>3 DEF DirInv, DirTypeOK
  <1> QED
    BY <1>1, <1>2, <1>3, <1>4, <1>5 DEF DirInv, DirTypeOK

\* Every step of the administrators.
LEMMA DirInductive == DirInv /\ [DirNext]_dirVars => DirInv'
  <1> SUFFICES ASSUME DirInv, [DirNext]_dirVars PROVE DirInv'
    OBVIOUS
  <1>1. CASE UNCHANGED dirVars
    BY <1>1 DEF dirVars, DirInv, DirTypeOK, Live
  <1>2. ASSUME NEW t \in Tenants, NEW s \in Slugs, CreateTenant(t, s) PROVE DirInv'
    <2> DEFINE row == [status |-> "active", slug |-> s, stamp |-> 1]
    <2>1. row \in Tenant /\ row.slug = s /\ row.status \in Statuses
      BY DEF Tenant, Statuses
    <2>2. tenant' = [tenant EXCEPT ![t] = row] /\ domain' = domain /\ SlugFree(s, t)
      BY <1>2 DEF CreateTenant
    <2> HIDE DEF row
    <2> QED
      BY <2>1, <2>2, TenantsMove
  <1>3. ASSUME NEW t \in Tenants, NEW s \in Slugs, NEW st \in Statuses, UpdateTenant(t, s, st)
        PROVE  DirInv'
    <2> DEFINE row == [status |-> st, slug |-> s, stamp |-> tenant[t].stamp + 1]
    <2>1. row \in Tenant /\ row.slug = s /\ row.status \in Statuses
      BY DEF DirInv, DirTypeOK, Tenant, Statuses
    <2>2. tenant' = [tenant EXCEPT ![t] = row] /\ domain' = domain /\ SlugFree(s, t)
      BY <1>3 DEF UpdateTenant, DirInv, DirTypeOK
    <2> HIDE DEF row
    <2> QED
      BY <2>1, <2>2, TenantsMove
  <1>4. ASSUME NEW t \in Tenants, DeleteTenant(t) PROVE DirInv'
    <2>1. /\ tenant' \in [Tenants -> Tenant]
          /\ tenant'[t].status = "gone"
          /\ \A u \in Tenants \ {t} : tenant'[u] = tenant[u]
      BY <1>4 DEF DeleteTenant, DirInv, DirTypeOK, Tenant
    <2>2. \A u \in Tenants : Live(u)' <=> u # t /\ Live(u)
      BY <2>1 DEF Live, Statuses
    <2>3. /\ domain' \in [Hosts -> Tenants \cup {None}]
          /\ \A h \in Hosts : domain'[h] # None => domain'[h] = domain[h] /\ domain[h] # t
      BY <1>4 DEF DeleteTenant, DirInv, DirTypeOK
    <2>4. \A h \in Hosts : domain'[h] # None => Live(domain[h])'
      BY <2>2, <2>3 DEF DirInv, DirTypeOK
    <2> QED
      BY <2>1, <2>2, <2>3, <2>4 DEF DirInv, DirTypeOK
  <1>5. ASSUME NEW t \in Tenants, NEW h \in Hosts, AddDomain(t, h) \/ DeleteDomain(t, h) PROVE DirInv'
    BY <1>5 DEF AddDomain, DeleteDomain, DirInv, DirTypeOK, Live
  <1>6. ASSUME NEW t \in Tenants, NEW h \in Hosts, NEW g \in Hosts, UpdateDomain(t, h, g) PROVE DirInv'
    <2>1. t # None /\ Live(t)
      BY <1>6, DirectoryAssumption DEF UpdateDomain, DirInv
    <2> QED
      BY <1>6, <2>1 DEF UpdateDomain, DirInv, DirTypeOK, Live
  <1> QED
    BY <1>1, <1>2, <1>3, <1>4, <1>5, <1>6 DEF DirNext

\* The catalogue's specification implements that of the directory: no step of
\* provisioning, writing or resolving changes tenants or hostnames.
THEOREM DirectoryRefined == Spec => DirSpec
  <1>1. Init => DirInit
    BY DEF Init
  <1>2. [Next]_vars => [DirNext]_dirVars
    BY DEF Next, AdminNext, DirectoryStep, RemoveTenant, DefinitionStep, ProvisionStep, ResourceStep,
           ConsumerWriteStep, ResolveStep, vars, DirNext, dirVars
  <1> QED
    BY <1>1, <1>2, PTL DEF Spec, DirSpec

\* Whatever was created, renamed and removed, a live tenant has a slug of its
\* own and a hostname leads to a live tenant.
THEOREM DirectoryInvariant == DirSpec => []DirInv
  <1>1. DirInit => DirInv
    BY DEF DirInit, DirInv, DirTypeOK, NoTenant, Tenant, Live, Statuses
  <1> QED
    BY <1>1, DirInductive, PTL DEF DirSpec

-----------------------------------------------------------------------------
(* The rows.  Links and values are sound because rows that were born keep   *)
(* their tenant, definition and source, and because what a provisioning     *)
(* carries was made for fields of its definition: a field never changes     *)
(* its definition, so it is enough that the insert finds it live.           *)

Born(r) == resource[r].status # "unborn"

RowsAreNamed ==
  /\ \A f \in Fields : field[f].state # "unborn" => field[f].def \in Definitions /\ field[f].key \in Keys
  /\ \A r \in Resources : Born(r) =>
       /\ resource[r].tenant \in Tenants /\ resource[r].def \in Definitions
       /\ resource[r].alias \in Aliases
       /\ resource[r].source # None => Born(resource[r].source)

ProvisionFits ==
  provision # None =>
    \A f \in Fields : provision.given[f] # None =>
      field[f].state # "unborn" /\ field[f].def = provision.def

\* A transaction that holds a resource's lock was begun for a field of its
\* definition, and a clear for a linked resource: if the flag was read as set,
\* the source still has the value.
EditsFit ==
  \A r \in Resources : edit[r] # None =>
    /\ Exists(r)
    /\ field[edit[r].field].state # "unborn" /\ field[edit[r].field].def = resource[r].def
    /\ edit[r].to = None =>
         /\ resource[r].source # None
         /\ edit[r].required => Inherited(r, edit[r].field) # None

RowsInv ==
  CatTypeOK /\ RowsAreNamed /\ LinksAreSound /\ ValuesBelong /\ ProvisionFits /\ EditsFit

\* A resource that exists was born.
LEMMA ExistsIsBorn == \A r \in Resources : Exists(r) => Born(r)
  BY DEF Exists, Born, Statuses

\* The catalogue is empty at first.
LEMMA RowsInitially == CatInit => RowsInv
  <1> SUFFICES ASSUME CatInit PROVE RowsInv
    OBVIOUS
  <1>1. CatTypeOK
    BY DEF CatInit, CatTypeOK, NoDefinition, Definition, NoField, Field, NoResource, Resource,
           NoValues, Stored, Statuses
  <1>2. /\ \A f \in Fields : field[f].state = "unborn"
        /\ \A r \in Resources : resource[r].status = "unborn"
        /\ \A r \in Resources, f \in Fields : value[r][f] = None
        /\ \A r \in Resources : edit[r] = None
    BY DEF CatInit, NoField, NoResource, NoValues
  <1> QED
    BY <1>1, <1>2 DEF CatInit, RowsInv, RowsAreNamed, Born, LinksAreSound, ValuesBelong, Exists,
                      Statuses, ProvisionFits, EditsFit

\* A step of one resource row r, its values changing only for fields of its
\* definition and only a linked one losing any; no transaction begins.
LEMMA ResourceMoves ==
  ASSUME RowsInv, NEW r \in Resources, Exists(r), NEW row \in Resource,
         resource' = [resource EXCEPT ![r] = row], row.status \in Statuses,
         row.tenant = resource[r].tenant, row.def = resource[r].def,
         row.source = resource[r].source, row.alias \in Aliases,
         value' \in [Resources -> [Fields -> Stored]],
         \A q \in Resources, f \in Fields : value'[q][f] # None =>
           value[q][f] # None \/ (q = r /\ f \in FieldsOf(resource[r].def)),
         \A q \in Resources, f \in Fields : value'[q][f] = None =>
           value[q][f] = None \/ resource[q].source # None,
         edit' \in [Resources -> Edit \cup {None}],
         \A q \in Resources : edit'[q] # None => edit'[q] = edit[q],
         UNCHANGED <<definition, field, provision, strict, write>>, reverted' \in BOOLEAN
  PROVE  RowsInv'
  <1> USE ExistsIsBorn DEF RowsInv
  <1>1. resource' \in [Resources -> Resource]
    BY DEF CatTypeOK
  <1>2. CatTypeOK'
    BY <1>1 DEF CatTypeOK
  <1>3. /\ resource'[r] = row
        /\ \A q \in Resources \ {r} : resource'[q] = resource[q]
    BY DEF CatTypeOK
  <1>4. \A q \in Resources : /\ Exists(q)' <=> Exists(q)
                             /\ Born(q)' <=> Born(q)
                             /\ resource'[q].tenant = resource[q].tenant
                             /\ resource'[q].def = resource[q].def
                             /\ resource'[q].source = resource[q].source
    BY <1>3 DEF Exists, Born, Statuses
  <1>5. \A q \in Resources : resource[q].source # None => resource[q].source \in Resources
    BY DEF CatTypeOK, Resource
  <1>6. RowsAreNamed'
    BY <1>3, <1>4, <1>5 DEF RowsAreNamed
  <1>7. LinksAreSound'
    BY <1>4, <1>5 DEF LinksAreSound
  <1>8. ValuesBelong'
    <2> SUFFICES ASSUME NEW q \in Resources, NEW f \in Fields, value'[q][f] # None
                 PROVE  Exists(q)' /\ f \in FieldsOf(resource[q].def)'
      BY DEF ValuesBelong
    <2>1. Exists(q) /\ f \in FieldsOf(resource[q].def)
      BY DEF ValuesBelong
    <2> QED
      BY <1>4, <2>1 DEF FieldsOf
  <1>9. EditsFit'
    <2> SUFFICES ASSUME NEW q \in Resources, edit'[q] # None
                 PROVE  /\ Exists(q)'
                        /\ field[edit[q].field].state # "unborn" /\ field[edit[q].field].def = resource'[q].def
                        /\ edit[q].to = None =>
                             /\ resource'[q].source # None
                             /\ edit[q].required => Inherited(q, edit[q].field)' # None
      BY DEF EditsFit
    <2>1. edit[q] # None /\ Exists(q) /\ edit[q] \in Edit /\ edit'[q] = edit[q]
      BY DEF EditsFit, CatTypeOK
    <2>2. edit[q].field \in Fields
      BY <2>1 DEF Edit
    <2>3. ASSUME resource[q].source # None, Inherited(q, edit[q].field) # None
          PROVE  Inherited(q, edit[q].field)' # None
      <3>1. resource[q].source \in Resources /\ resource[resource[q].source].source = None
        BY <1>5, <2>1, <2>3 DEF LinksAreSound
      <3>2. Inherited(q, edit[q].field)' = value'[resource[q].source][edit[q].field]
        BY <1>4, <2>1, <2>3 DEF Inherited
      <3> QED
        BY <2>2, <2>3, <3>1, <3>2 DEF Inherited
    <2> QED
      BY <1>4, <2>1, <2>3 DEF EditsFit
  <1> QED
    BY <1>2, <1>6, <1>7, <1>8, <1>9 DEF ProvisionFits

\* A transaction takes the lock of an existing resource for a field of its
\* definition; a clear has found that it may fall back on the source.
LEMMA LockRows ==
  ASSUME RowsInv, NEW r \in Resources, NEW f \in Fields, NEW v \in Stored, LockFor(r, f, v),
         v = None => resource[r].source # None /\ MayInherit(r, f),
         UNCHANGED <<definition, field, resource, value, provision, reverted, strict>>,
         write' \in Write \cup {None}
  PROVE  RowsInv'
  <1> DEFINE e == [field |-> f, required |-> field[f].required, to |-> v]
  <1> USE DEF RowsInv
  <1>1. e \in Edit /\ e.field = f /\ e.required = field[f].required /\ e.to = v
    BY DEF CatTypeOK, Field, Edit
  <1>2. edit' = [edit EXCEPT ![r] = e] /\ Exists(r) /\ f \in FieldsOf(resource[r].def)
    BY DEF LockFor
  <1> HIDE DEF e
  <1>3. edit'[r] = e /\ \A q \in Resources \ {r} : edit'[q] = edit[q]
    BY <1>2 DEF CatTypeOK
  <1>4. CatTypeOK'
    BY <1>1, <1>2 DEF CatTypeOK
  <1>5. RowsAreNamed' /\ LinksAreSound' /\ ValuesBelong' /\ ProvisionFits'
    BY DEF RowsAreNamed, LinksAreSound, ValuesBelong, ProvisionFits, Born, Exists, FieldsOf
  <1>6. EditsFit'
    <2> SUFFICES ASSUME NEW q \in Resources, edit'[q] # None
                 PROVE  /\ Exists(q)
                        /\ field[edit'[q].field].state # "unborn"
                        /\ field[edit'[q].field].def = resource[q].def
                        /\ edit'[q].to = None =>
                             /\ resource[q].source # None
                             /\ edit'[q].required => Inherited(q, edit'[q].field) # None
      BY DEF EditsFit, Exists, Inherited
    <2>1. CASE q = r
      BY <1>1, <1>2, <1>3, <2>1 DEF FieldsOf, MayInherit
    <2>2. CASE q # r
      BY <1>3, <2>2 DEF EditsFit
    <2> QED
      BY <2>1, <2>2
  <1> QED
    BY <1>4, <1>5, <1>6

\* A step of one field row.
LEMMA FieldMoves ==
  ASSUME RowsInv, NEW f \in Fields, NEW row \in Field, field' = [field EXCEPT ![f] = row],
         row.state # "unborn", row.def \in Definitions, row.key \in Keys,
         field[f].state # "unborn" => row.def = field[f].def,
         (\A r \in Resources : value[r][f] = None) \/ (field[f].state = "live" /\ row.state = "live"),
         definition' \in [Definitions -> Definition], strict' \in SUBSET Fields,
         UNCHANGED <<resource, value, provision, edit, write, reverted>>
  PROVE  RowsInv'
  <1> USE DEF RowsInv
  <1>1. field' \in [Fields -> Field]
    BY DEF CatTypeOK
  <1>2. field'[f] = row /\ \A g \in Fields \ {f} : field'[g] = field[g]
    BY DEF CatTypeOK
  <1>3. CatTypeOK'
    BY <1>1 DEF CatTypeOK
  <1>4. RowsAreNamed'
    BY <1>2 DEF RowsAreNamed, Born
  <1>5. LinksAreSound'
    BY DEF LinksAreSound, Exists
  <1>6. ValuesBelong'
    BY <1>2 DEF ValuesBelong, Exists, FieldsOf
  <1>7. ProvisionFits'
    BY <1>2 DEF ProvisionFits
  <1>8. EditsFit'
    <2>1. \A r \in Resources : edit[r] # None => edit[r].field \in Fields
      BY DEF CatTypeOK, Edit
    <2> QED
      BY <1>2, <2>1 DEF EditsFit, Exists, Inherited
  <1> QED
    BY <1>3, <1>4, <1>5, <1>6, <1>7, <1>8
\* Touching a definition is counted and changes nothing else.
LEMMA DefinitionTouched ==
  ASSUME CatTypeOK, NEW d \in Definitions
  PROVE  /\ TouchedDefinition(d) \in [Definitions -> Definition]
         /\ TouchedDefinition(d)[d].stamp = definition[d].stamp + 1
         /\ \A e \in Definitions \ {d} : TouchedDefinition(d)[e] = definition[e]
         /\ definition[d].stamp \in Nat
  <1> DEFINE row == [definition[d] EXCEPT !.stamp = @ + 1]
  <1>1. row \in Definition /\ row.stamp = definition[d].stamp + 1 /\ definition[d].stamp \in Nat
    BY DEF CatTypeOK, Definition
  <1>2. TouchedDefinition(d) = [definition EXCEPT ![d] = row]
    BY DEF TouchedDefinition
  <1> HIDE DEF row
  <1> QED
    BY <1>1, <1>2 DEF CatTypeOK

\* A step that changes only definition rows, and stores nothing.
LEMMA DefinitionsMove ==
  ASSUME RowsInv, definition' \in [Definitions -> Definition],
         UNCHANGED <<field, resource, value, strict, provision, edit, write, reverted>>
  PROVE  RowsInv'
  BY DEF RowsInv, CatTypeOK, RowsAreNamed, LinksAreSound, ValuesBelong, ProvisionFits, EditsFit, Born,
         Exists, FieldsOf, Inherited

\* Definitions and fields: creation, changes and removal.
LEMMA DefinitionStepRows ==
  ASSUME RowsInv, DefinitionStep
  PROVE  RowsInv'
  <1> USE DEF RowsInv
  <1>0. UNCHANGED <<provision, edit, write, reverted>>
    BY DEF DefinitionStep
  <1>1. ASSUME NEW d \in Definitions, CreateDefinition(d) PROVE RowsInv'
    <2>1. definition' \in [Definitions -> Definition]
      BY <1>1 DEF CreateDefinition, CatTypeOK, Definition, Statuses
    <2> QED
      BY <1>0, <1>1, <2>1, DefinitionsMove DEF CreateDefinition
  <1>2. ASSUME NEW d \in Definitions, UpdateDefinition(d) PROVE RowsInv'
    <2>1. definition' \in [Definitions -> Definition]
      BY <1>2, DefinitionTouched DEF UpdateDefinition
    <2> QED
      BY <1>0, <1>2, <2>1, DefinitionsMove DEF UpdateDefinition
  <1>3. ASSUME NEW d \in Definitions, NEW st \in Statuses, SetDefinitionStatus(d, st) PROVE RowsInv'
    <2>1. \A D \in [Definitions -> Definition] : [D EXCEPT ![d].status = st] \in [Definitions -> Definition]
      BY DEF Definition
    <2>2. definition' \in [Definitions -> Definition]
      BY <1>3, <2>1, DefinitionTouched DEF SetDefinitionStatus
    <2> QED
      BY <1>0, <1>3, <2>2, DefinitionsMove DEF SetDefinitionStatus
  <1>4. ASSUME NEW d \in Definitions, DeleteDefinition(d) PROVE RowsInv'
    <2>1. definition' \in [Definitions -> Definition]
      BY <1>4 DEF DeleteDefinition, CatTypeOK, Definition
    <2>2. \A f \in Fields : [field[f] EXCEPT !.state = "gone"] \in Field
      BY DEF CatTypeOK, Field
    <2>3. field' \in [Fields -> Field]
      BY <1>4, <2>2 DEF DeleteDefinition, CatTypeOK
    <2>4. \A f \in Fields : /\ field'[f].def = field[f].def /\ field'[f].key = field[f].key
                            /\ field'[f].state = "unborn" <=> field[f].state = "unborn"
                            /\ f \notin FieldsOf(d) => field'[f] = field[f]
      BY <1>4 DEF DeleteDefinition, CatTypeOK, Field, FieldsOf
    <2>5. CatTypeOK' /\ RowsAreNamed' /\ LinksAreSound' /\ ProvisionFits'
      BY <1>0, <1>4, <2>1, <2>3, <2>4
         DEF DeleteDefinition, CatTypeOK, RowsAreNamed, LinksAreSound, ProvisionFits, Born, Exists
    <2>6. \A r \in Resources : edit[r] # None => edit[r].field \in Fields
      BY DEF CatTypeOK, Edit
    <2>7. EditsFit'
      BY <1>0, <1>4, <2>4, <2>6 DEF DeleteDefinition, EditsFit, Exists, Inherited
    <2>8. ValuesBelong'
      BY <1>4, <2>4 DEF DeleteDefinition, ValuesBelong, Exists, FieldsOf
    <2> QED
      BY <2>5, <2>7, <2>8
  <1>5. ASSUME NEW d \in Definitions, NEW f \in Fields, NEW k \in Keys, NEW kind \in FieldKinds,
               AddField(d, f, k, kind[1], kind[2])
        PROVE  RowsInv'
    <2> DEFINE row == [state |-> "live", def |-> d, key |-> k, required |-> kind[1], secret |-> kind[2]]
    <2>1. row \in Field /\ row.state # "unborn" /\ row.def \in Definitions /\ row.key \in Keys
      BY CatalogAssumption DEF Field
    <2>2. field' = [field EXCEPT ![f] = row] /\ field[f].state = "unborn"
      BY <1>5 DEF AddField
    <2>3. definition' \in [Definitions -> Definition] /\ strict' \in SUBSET Fields
      BY <1>5, DefinitionTouched DEF AddField, CatTypeOK
    <2>4. \A r \in Resources : value[r][f] = None
      BY <2>2 DEF ValuesBelong, FieldsOf
    <2>5. UNCHANGED <<resource, value>>
      BY <1>5 DEF AddField
    <2> HIDE DEF row
    <2> QED
      BY <1>0, <2>1, <2>2, <2>3, <2>4, <2>5, FieldMoves
  <1>6. ASSUME NEW f \in Fields, DeleteField(f) PROVE RowsInv'
    <2> DEFINE row == [field[f] EXCEPT !.state = "gone"]
    <2>1. field[f].def \in Definitions /\ field[f].key \in Keys /\ field[f] \in Field
      BY <1>6 DEF DeleteField, RowsAreNamed, CatTypeOK
    <2>2. row \in Field /\ row.state = "gone" /\ row.def = field[f].def /\ row.key = field[f].key
      BY <2>1 DEF Field
    <2>3. field' = [field EXCEPT ![f] = row]
      BY <1>6, Zenon DEF DeleteField
    <2>4. definition' \in [Definitions -> Definition] /\ strict' \in SUBSET Fields
      BY <1>6, <2>1, DefinitionTouched DEF DeleteField, CatTypeOK
    <2>5. UNCHANGED <<resource, value>> /\ \A r \in Resources : value[r][f] = None
      BY <1>6 DEF DeleteField
    <2> HIDE DEF row
    <2> QED
      BY <1>0, <2>1, <2>2, <2>3, <2>4, <2>5, FieldMoves
  <1>7. ASSUME NEW f \in Fields, NEW req \in BOOLEAN, UpdateField(f, req) PROVE RowsInv'
    <2> DEFINE row == [field[f] EXCEPT !.required = req]
    <2>1. field[f].def \in Definitions /\ field[f].key \in Keys /\ field[f] \in Field /\ field[f].state = "live"
      BY <1>7 DEF UpdateField, RowsAreNamed, CatTypeOK
    <2>2. row \in Field /\ row.state = "live" /\ row.def = field[f].def /\ row.key = field[f].key
      BY <2>1 DEF Field
    <2>3. field' = [field EXCEPT ![f] = row]
      BY <1>7, Zenon DEF UpdateField
    <2>4. definition' \in [Definitions -> Definition] /\ strict' \in SUBSET Fields
      BY <1>7, <2>1, DefinitionTouched DEF UpdateField, CatTypeOK
    <2>5. UNCHANGED <<resource, value>>
      BY <1>7 DEF UpdateField
    <2> HIDE DEF row
    <2> QED
      BY <1>0, <2>1, <2>2, <2>3, <2>4, <2>5, FieldMoves
  <1> QED
    BY <1>1, <1>2, <1>3, <1>4, <1>5, <1>6, <1>7 DEF DefinitionStep

\* Provisioning: the check, the insert and the roll-back.
LEMMA ProvisionStepRows ==
  ASSUME RowsInv, ProvisionStep
  PROVE  RowsInv'
  <1> USE ExistsIsBorn DEF RowsInv
  <1>0. UNCHANGED <<definition, field, edit, write, reverted, strict>>
    BY DEF ProvisionStep
  <1>1. ASSUME UNCHANGED <<resource, value>>, provision' \in Provision \cup {None}, ProvisionFits'
        PROVE  RowsInv'
    BY <1>0, <1>1 DEF CatTypeOK, RowsAreNamed, LinksAreSound, ValuesBelong, EditsFit, Born, Exists,
                      FieldsOf, Inherited
  <1>2. ASSUME NEW t \in Tenants, NEW d \in Definitions, NEW s \in Resources \cup {None},
               NEW a \in Aliases, NEW given \in [Fields -> Stored],
               \A f \in Fields : given[f] # None => f \in FieldsOf(d),
               CheckProvision(t, d, s, a, given)
        PROVE  RowsInv'
    <2>1. provision' \in Provision /\ provision'.def = d /\ provision'.given = given
      BY <1>2 DEF CheckProvision, Provision
    <2>2. ProvisionFits'
      BY <1>0, <1>2, <2>1 DEF ProvisionFits, FieldsOf
    <2> QED
      BY <1>1, <1>2, <2>1, <2>2 DEF CheckProvision
  <1>3. ASSUME NEW r \in Resources, NEW a \in Aliases, CheckDuplicate(r, a) PROVE RowsInv'
    <2> DEFINE d == resource[r].def
               given == [f \in Fields |-> IF f \in FieldsOf(d) /\ Shown(r, f) # Empty
                                          THEN Shown(r, f) ELSE None]
    <2>1. Exists(r) /\ CheckProvision(resource[r].tenant, d, None, a, given)
      BY <1>3 DEF CheckDuplicate
    <2>2. d \in Definitions /\ resource[r].tenant \in Tenants
      BY <2>1 DEF RowsAreNamed
    <2>3. \A f \in Fields : Shown(r, f) \in Stored
      BY DEF Shown, Effective, Inherited, CatTypeOK, Resource, Stored
    <2>4. given \in [Fields -> Stored]
      BY <2>3 DEF Stored
    <2>5. \A f \in Fields : given[f] # None => f \in FieldsOf(d)
      OBVIOUS
    <2> HIDE DEF given, d
    <2> QED
      BY <1>2, <2>1, <2>2, <2>4, <2>5
  <1>4. ASSUME NEW r \in Resources, StoreProvision(r) PROVE RowsInv'
    <2> DEFINE p == provision
               row == [status |-> "active", tenant |-> p.tenant, def |-> p.def,
                       alias |-> p.alias, source |-> p.source, stamp |-> 1]
    <2>1. p \in Provision /\ p # None /\ Insertable(p) /\ resource[r].status = "unborn"
      BY <1>4 DEF StoreProvision, CatTypeOK
    <2>2. row \in Resource /\ row.status = "active" /\ row.tenant = p.tenant /\ row.def = p.def
          /\ row.alias = p.alias /\ row.source = p.source
      BY <2>1 DEF Provision, Resource, Statuses
    <2>3. resource' = [resource EXCEPT ![r] = row] /\ value' = [value EXCEPT ![r] = p.given]
          /\ provision' = None
      BY <1>4 DEF StoreProvision
    <2>4. p.given \in [Fields -> Stored] /\ p.tenant \in Tenants /\ p.def \in Definitions
          /\ p.alias \in Aliases /\ p.source \in Resources \cup {None}
      BY <2>1 DEF Provision
    <2> HIDE DEF p, row
    <2>5. CatTypeOK'
      BY <1>0, <2>2, <2>3, <2>4 DEF CatTypeOK
    <2>6. /\ resource'[r] = row /\ value'[r] = p.given
          /\ \A q \in Resources \ {r} : resource'[q] = resource[q] /\ value'[q] = value[q]
      BY <2>3 DEF CatTypeOK
    <2>7. ~Exists(r) /\ \A q \in Resources : resource[q].source # None => resource[q].source \in Resources
      BY <2>1 DEF Exists, Statuses, CatTypeOK, Resource
    <2>8. p.source # None => /\ p.source \in Resources \ {r} /\ Exists(p.source)
                             /\ resource[p.source].tenant = p.tenant
                             /\ resource[p.source].def = p.def
                             /\ resource[p.source].source = None
      BY <2>1, <2>4, <2>7 DEF Insertable, SourceStillSound
    <2>9. RowsAreNamed'
      BY <1>0, <2>2, <2>4, <2>6, <2>7, <2>8 DEF RowsAreNamed, Born
    <2>10. LinksAreSound'
      BY <2>2, <2>6, <2>7, <2>8 DEF LinksAreSound, Exists, Statuses
    <2>11. ValuesBelong'
      <3>1. \A f \in Fields : p.given[f] # None => f \in FieldsOf(p.def)
        BY <2>1 DEF Insertable, ProvisionFits, FieldsOf, p
      <3> QED
        BY <1>0, <2>2, <2>6, <3>1 DEF ValuesBelong, Exists, Statuses, FieldsOf
    <2>12. EditsFit'
      <3> SUFFICES ASSUME NEW q \in Resources, edit[q] # None
                   PROVE  /\ q # r
                          /\ resource[q].source # None => resource[q].source \in Resources \ {r}
        BY <1>0, <2>6 DEF EditsFit, Exists, Inherited
      <3> QED
        BY <2>7 DEF EditsFit, LinksAreSound
    <2> QED
      BY <2>3, <2>5, <2>9, <2>10, <2>11, <2>12 DEF ProvisionFits
  <1>5. CASE RejectProvision
    BY <1>1, <1>5 DEF RejectProvision, ProvisionFits
  <1>6. \A d \in Definitions : \A g \in Inputs(d) :
          g \in [Fields -> Stored] /\ \A f \in Fields : g[f] # None => f \in FieldsOf(d)
    BY DEF Inputs
  <1> QED
    BY <1>2, <1>3, <1>4, <1>5, <1>6 DEF ProvisionStep
\* What a touch of row r leaves as it was.
Touching(r, row) ==
  /\ row \in Resource /\ resource' = [resource EXCEPT ![r] = row]
  /\ row.stamp = resource[r].stamp + 1 /\ row.status \in Statuses /\ row.alias \in Aliases
  /\ row.tenant = resource[r].tenant /\ row.def = resource[r].def /\ row.source = resource[r].source

\* The three ways a resource row is touched.
LEMMA RowTouched ==
  ASSUME RowsInv, NEW r \in Resources, Exists(r)
  PROVE  /\ resource' = Touched(r) => \E row : Touching(r, row)
         /\ \A a \in Aliases : resource' = [Touched(r) EXCEPT ![r].alias = a] => \E row : Touching(r, row)
         /\ \A st \in Statuses : resource' = [Touched(r) EXCEPT ![r].status = st] => \E row : Touching(r, row)
  <1> DEFINE R0 == [resource[r] EXCEPT !.stamp = @ + 1]
             R1(a) == [R0 EXCEPT !.alias = a]
             R2(st) == [R0 EXCEPT !.status = st]
  <1>1. resource[r] \in Resource /\ resource[r].alias \in Aliases /\ resource[r].status \in Statuses
    BY ExistsIsBorn DEF RowsInv, CatTypeOK, RowsAreNamed, Exists
  <1>2. R0 \in Resource /\ R0.stamp = resource[r].stamp + 1 /\ R0.status = resource[r].status
        /\ R0.alias = resource[r].alias /\ R0.tenant = resource[r].tenant
        /\ R0.def = resource[r].def /\ R0.source = resource[r].source
    BY <1>1 DEF Resource
  <1>3. Touched(r) = [resource EXCEPT ![r] = R0]
    BY Zenon DEF Touched
  <1> HIDE DEF R0
  <1>4. ASSUME NEW a \in Aliases
        PROVE  /\ R1(a) \in Resource /\ R1(a).stamp = R0.stamp /\ R1(a).status = R0.status
               /\ R1(a).alias = a /\ R1(a).tenant = R0.tenant /\ R1(a).def = R0.def
               /\ R1(a).source = R0.source
               /\ [Touched(r) EXCEPT ![r].alias = a] = [resource EXCEPT ![r] = R1(a)]
    <2>1. [Touched(r) EXCEPT ![r].alias = a] = [resource EXCEPT ![r] = R1(a)]
      BY <1>3 DEF RowsInv, CatTypeOK
    <2> QED
      BY <1>2, <2>1 DEF Resource
  <1>5. ASSUME NEW st \in Statuses
        PROVE  /\ R2(st) \in Resource /\ R2(st).stamp = R0.stamp /\ R2(st).status = st
               /\ R2(st).alias = R0.alias /\ R2(st).tenant = R0.tenant /\ R2(st).def = R0.def
               /\ R2(st).source = R0.source
               /\ [Touched(r) EXCEPT ![r].status = st] = [resource EXCEPT ![r] = R2(st)]
    <2>1. [Touched(r) EXCEPT ![r].status = st] = [resource EXCEPT ![r] = R2(st)]
      BY <1>3 DEF RowsInv, CatTypeOK
    <2> QED
      BY <1>2, <2>1 DEF Resource
  <1> HIDE DEF R1, R2
  <1>6. resource' = Touched(r) => Touching(r, R0)
    BY <1>1, <1>2, <1>3 DEF Touching
  <1>7. \A a \in Aliases : resource' = [Touched(r) EXCEPT ![r].alias = a] => Touching(r, R1(a))
    BY <1>1, <1>2, <1>4 DEF Touching
  <1>8. \A st \in Statuses : resource' = [Touched(r) EXCEPT ![r].status = st] => Touching(r, R2(st))
    BY <1>1, <1>2, <1>5 DEF Touching
  <1> QED
    BY <1>6, <1>7, <1>8

\* Changes of one resource and of its values.
LEMMA ResourceStepRows ==
  ASSUME RowsInv, ResourceStep
  PROVE  RowsInv'
  <1> USE ExistsIsBorn DEF RowsInv
  <1>0. UNCHANGED <<definition, field, provision, write, strict>> /\ write' \in Write \cup {None}
    BY DEF ResourceStep, CatTypeOK
  <1>1. ASSUME NEW r \in Resources, Exists(r), \E row : Touching(r, row),
               UNCHANGED <<value, edit, reverted>>
        PROVE  RowsInv'
    <2>1. PICK row : Touching(r, row)
      BY <1>1
    <2>2. value' \in [Resources -> [Fields -> Stored]] /\ reverted' \in BOOLEAN
          /\ edit' \in [Resources -> Edit \cup {None}]
      BY <1>1 DEF CatTypeOK
    <2> QED
      BY <1>0, <1>1, <2>1, <2>2, ResourceMoves DEF Touching
  <1>2. ASSUME NEW r \in Resources, NEW f \in Fields, NEW v \in Values \cup {Empty},
               UpdateResourceField(r, f, v)
        PROVE  RowsInv'
    BY <1>0, <1>2, LockRows, CatalogAssumption DEF UpdateResourceField, BeginStore, Stored
  <1>3. ASSUME NEW r \in Resources, NEW f \in Fields, ClearResourceFieldOverride(r, f) PROVE RowsInv'
    BY <1>0, <1>3, LockRows DEF ClearResourceFieldOverride, Stored
  <1>4. ASSUME NEW r \in Resources, edit[r] # None, value' = Written(r),
               edit' = [edit EXCEPT ![r] = None],
               edit[r].to # None => edit[r].field \in FieldsOf(resource[r].def),
               resource' = resource \/ \E row : Touching(r, row), reverted' \in BOOLEAN
        PROVE  RowsInv'
    <2> DEFINE f == edit[r].field
               v == edit[r].to
    <2>1. Exists(r) /\ edit[r] \in Edit /\ (v = None => resource[r].source # None)
      BY <1>4 DEF EditsFit, CatTypeOK
    <2>2. f \in Fields /\ v \in Stored
      BY <2>1 DEF Edit
    <2>3. value' = [value EXCEPT ![r][f] = v]
      BY <1>4 DEF Written
    <2>4. v # None => f \in FieldsOf(resource[r].def)
      BY <1>4
    <2> HIDE DEF f, v
    <2>5. value' \in [Resources -> [Fields -> Stored]]
      BY <2>2, <2>3 DEF CatTypeOK
    <2>6. \A q \in Resources, g \in Fields :
            value'[q][g] = IF q = r /\ g = f THEN v ELSE value[q][g]
      BY <2>2, <2>3 DEF CatTypeOK
    <2>7. /\ \A q \in Resources, g \in Fields : value'[q][g] # None =>
               value[q][g] # None \/ (q = r /\ g \in FieldsOf(resource[r].def))
          /\ \A q \in Resources, g \in Fields : value'[q][g] = None =>
               value[q][g] = None \/ resource[q].source # None
      BY <2>1, <2>4, <2>6
    <2>8. edit' \in [Resources -> Edit \cup {None}] /\ \A q \in Resources : edit'[q] # None => edit'[q] = edit[q]
      BY <1>4 DEF CatTypeOK
    <2>9. \E row \in Resource :
            /\ resource' = [resource EXCEPT ![r] = row] /\ row.status \in Statuses
            /\ row.tenant = resource[r].tenant /\ row.def = resource[r].def
            /\ row.source = resource[r].source /\ row.alias \in Aliases
      <3>1. CASE resource' = resource
        <4>1. /\ resource' = [resource EXCEPT ![r] = resource[r]] /\ resource[r] \in Resource
              /\ resource[r].status \in Statuses /\ resource[r].alias \in Aliases
          BY <2>1, <3>1 DEF CatTypeOK, RowsAreNamed, Exists
        <4> QED
          BY <4>1
      <3>2. CASE \E row : Touching(r, row)
        BY <3>2 DEF Touching
      <3> QED
        BY <1>4, <3>1, <3>2
    <2> QED
      BY <1>0, <1>4, <2>1, <2>5, <2>7, <2>8, <2>9, ResourceMoves
  <1>5. ASSUME NEW r \in Resources, StoreValue(r) PROVE RowsInv'
    <2>1. edit[r] # None /\ Exists(r) /\ resource' = Touched(r) /\ reverted' = reverted
          /\ value' = Written(r) /\ edit' = [edit EXCEPT ![r] = None]
          /\ field[edit[r].field].state = "live"
      BY <1>5 DEF StoreValue, CanTouch, Unlocked
    <2>2. edit[r].field \in FieldsOf(resource[r].def)
      BY <2>1 DEF EditsFit, FieldsOf, CatTypeOK, Edit
    <2>3. reverted' \in BOOLEAN
      BY <2>1 DEF CatTypeOK
    <2> QED
      BY <1>4, <2>1, <2>2, <2>3, RowTouched
  <1>6. ASSUME NEW r \in Resources, DeleteValue(r) PROVE RowsInv'
    BY <1>4, <1>6 DEF DeleteValue, Unlocked
  <1>7. ASSUME NEW r \in Resources, RollBackEdit(r) PROVE RowsInv'
    <2>1. /\ edit' \in [Resources -> Edit \cup {None}]
          /\ \A q \in Resources : edit'[q] # None => edit'[q] = edit[q]
          /\ UNCHANGED <<resource, value, reverted>>
      BY <1>7 DEF RollBackEdit, CatTypeOK
    <2> QED
      BY <1>0, <2>1 DEF CatTypeOK, RowsAreNamed, LinksAreSound, ValuesBelong, ProvisionFits, EditsFit,
                        Born, Exists, FieldsOf, Inherited
  <1>8. ASSUME NEW r \in Resources, DeleteResource(r) PROVE RowsInv'
    <2> DEFINE row == [resource[r] EXCEPT !.status = "gone"]
    <2>1. /\ Exists(r) /\ edit[r] = None /\ ~HasDependents(r) /\ UNCHANGED <<edit, reverted>>
          /\ value' = [value EXCEPT ![r] = NoValues]
      BY <1>8 DEF DeleteResource, Unlocked
    <2>2. resource' = [resource EXCEPT ![r] = row]
      BY <1>8, Zenon DEF DeleteResource
    <2>3. row \in Resource /\ row.status = "gone" /\ row.tenant = resource[r].tenant
          /\ row.def = resource[r].def /\ row.alias = resource[r].alias /\ row.source = resource[r].source
      BY DEF CatTypeOK, Resource
    <2> HIDE DEF row
    <2>4. NoValues \in [Fields -> Stored] /\ \A f \in Fields : NoValues[f] = None
      BY DEF NoValues, Stored
    <2>5. CatTypeOK'
      BY <1>0, <2>1, <2>2, <2>3, <2>4 DEF CatTypeOK
    <2>6. /\ resource'[r] = row /\ value'[r] = NoValues
          /\ \A q \in Resources \ {r} : resource'[q] = resource[q] /\ value'[q] = value[q]
      BY <2>1, <2>2 DEF CatTypeOK
    <2>7. \A q \in Resources : resource[q].source # None => resource[q].source \in Resources
      BY DEF CatTypeOK, Resource
    <2>8. RowsAreNamed'
      BY <1>0, <2>1, <2>3, <2>6, <2>7 DEF RowsAreNamed, Born
    <2>9. LinksAreSound'
      BY <2>1, <2>3, <2>6, <2>7 DEF LinksAreSound, Exists, Statuses, HasDependents
    <2>10. ValuesBelong'
      BY <1>0, <2>4, <2>6 DEF ValuesBelong, Exists, FieldsOf
    <2>11. EditsFit'
      <3> SUFFICES ASSUME NEW q \in Resources, edit[q] # None
                   PROVE  q # r /\ (resource[q].source # None => resource[q].source \in Resources \ {r})
        BY <1>0, <2>1, <2>6 DEF EditsFit, Exists, Inherited
      <3> QED
        BY <2>1, <2>7 DEF EditsFit, HasDependents
    <2> QED
      BY <1>0, <2>5, <2>8, <2>9, <2>10, <2>11 DEF ProvisionFits
  <1>9. ASSUME NEW r \in Resources, NEW a \in Aliases, UpdateResourceIdentity(r, a) PROVE RowsInv'
    BY <1>1, <1>9, RowTouched DEF UpdateResourceIdentity, CanTouch
  <1>10. ASSUME NEW r \in Resources, NEW st \in Statuses, SetResourceStatus(r, st) PROVE RowsInv'
    BY <1>1, <1>10, RowTouched DEF SetResourceStatus, CanTouch
  <1> QED
    BY <1>2, <1>3, <1>5, <1>6, <1>7, <1>8, <1>9, <1>10 DEF ResourceStep

\* The removal of a tenant takes sources and dependents together.
LEMMA RemoveTenantRows ==
  ASSUME RowsInv, NEW t \in Tenants, RemoveTenant(t)
  PROVE  RowsInv'
  <1> USE ExistsIsBorn DEF RowsInv
  <1>0. UNCHANGED <<definition, field, provision, edit, write, reverted, strict>>
    BY DEF RemoveTenant
  <1>1. \A r \in Resources : [resource[r] EXCEPT !.status = "gone"] \in Resource
    BY DEF CatTypeOK, Resource
  <1>2. NoValues \in [Fields -> Stored] /\ \A f \in Fields : NoValues[f] = None
    BY DEF NoValues, Stored
  <1>3. CatTypeOK'
    BY <1>0, <1>1, <1>2 DEF CatTypeOK, RemoveTenant
  <1>4. \A r \in Resources :
          /\ resource'[r].tenant = resource[r].tenant /\ resource'[r].def = resource[r].def
          /\ resource'[r].source = resource[r].source /\ resource'[r].alias = resource[r].alias
          /\ Born(r)' <=> Born(r)
          /\ Exists(r)' <=> Exists(r) /\ resource[r].tenant # t
    BY DEF RemoveTenant, CatTypeOK, Resource, Born, Exists, Statuses
  <1>5. \A r \in Resources : /\ resource[r].tenant = t => value'[r] = NoValues
                             /\ resource[r].tenant # t => value'[r] = value[r]
    BY DEF RemoveTenant
  <1>6. \A q \in Resources : resource[q].source # None => resource[q].source \in Resources
    BY DEF CatTypeOK, Resource
  <1>7. RowsAreNamed'
    BY <1>0, <1>4, <1>6 DEF RowsAreNamed
  <1>8. LinksAreSound'
    BY <1>4, <1>6 DEF LinksAreSound
  <1>9. ValuesBelong'
    BY <1>0, <1>2, <1>4, <1>5 DEF ValuesBelong, FieldsOf
  <1>10. EditsFit'
    <2> SUFFICES ASSUME NEW q \in Resources, edit[q] # None
                 PROVE  /\ resource[q].tenant # t
                        /\ resource[q].source # None =>
                             resource[q].source \in Resources /\ resource[resource[q].source].tenant # t
      BY <1>0, <1>4, <1>5 DEF EditsFit, Inherited
    <2>1. Exists(q) /\ resource[q].tenant # t
      BY DEF EditsFit, RemoveTenant, Unlocked
    <2> QED
      BY <1>6, <2>1 DEF LinksAreSound
  <1> QED
    BY <1>0, <1>3, <1>7, <1>8, <1>9, <1>10 DEF ProvisionFits

\* A consumer's write, checked and stored.
LEMMA WriteStepRows ==
  ASSUME RowsInv, ConsumerWriteStep
  PROVE  RowsInv'
  <1> USE ExistsIsBorn DEF RowsInv
  <1>0. UNCHANGED <<definition, field, resource, value, provision, reverted, strict>>
    BY DEF ConsumerWriteStep
  <1>1. ASSUME edit' = edit, write' \in Write \cup {None} PROVE RowsInv'
    BY <1>0, <1>1 DEF CatTypeOK, RowsAreNamed, LinksAreSound, ValuesBelong, ProvisionFits, EditsFit,
                      Born, Exists, FieldsOf, Inherited
  <1>2. ASSUME NEW t \in Tenants, NEW r \in Resources, NEW f \in Fields, NEW v \in Values \cup {Empty},
               CheckWrite(t, r, f, v)
        PROVE  RowsInv'
    <2>1. field[f].key \in Keys
      BY <1>2 DEF CheckWrite, FieldsOf, RowsAreNamed
    <2>2. write' \in Write
      BY <1>2, <2>1 DEF CheckWrite, Write
    <2> QED
      BY <1>1, <1>2, <2>2 DEF CheckWrite
  <1>3. ASSUME NEW f \in Fields, BeginWrite(f) PROVE RowsInv'
    <2>1. write.resource \in Resources /\ write.value \in Values \cup {Empty} /\ write' = None
      BY <1>3 DEF BeginWrite, CatTypeOK, Write
    <2>2. write.value \in Stored /\ write.value # None
      BY <2>1, CatalogAssumption DEF Stored
    <2>3. LockFor(write.resource, f, write.value)
      BY <1>3 DEF BeginWrite, BeginStore
    <2> QED
      BY <1>0, <2>1, <2>2, <2>3, LockRows
  <1>4. CASE RejectWrite
    BY <1>1, <1>4 DEF RejectWrite
  <1> QED
    BY <1>2, <1>3, <1>4 DEF ConsumerWriteStep

\* Every step keeps the rows sound.
LEMMA RowsInductive == RowsInv /\ [Next]_vars => RowsInv'
  <1> SUFFICES ASSUME RowsInv, [Next]_vars PROVE RowsInv'
    OBVIOUS
  <1>1. ASSUME UNCHANGED <<definition, field, resource, value, provision, edit, write, reverted, strict>>
        PROVE  RowsInv'
    BY <1>1, DefinitionsMove DEF RowsInv, CatTypeOK
  <1>2. CASE DirectoryStep \/ UNCHANGED vars
    BY <1>1, <1>2 DEF DirectoryStep, catVars, vars
  <1>3. CASE ResolveStep
    <2>1. UNCHANGED <<definition, field, resource, value, provision, edit, write, strict>>
      BY <1>3 DEF ResolveStep
    <2>2. reverted' \in BOOLEAN
      BY <1>3 DEF ResolveStep, ReadTenant, NotModified, ReadHeaders, ReadValues, RowsInv, CatTypeOK
    <2> QED
      BY <2>1, <2>2 DEF RowsInv, CatTypeOK, RowsAreNamed, LinksAreSound, ValuesBelong, ProvisionFits,
                        EditsFit, Born, Exists, FieldsOf, Inherited
  <1> QED
    BY <1>2, <1>3, DefinitionStepRows, ProvisionStepRows, ResourceStepRows, RemoveTenantRows,
       WriteStepRows DEF Next, AdminNext

\* The inductive invariant of the catalogue's rows holds in every reachable state.
THEOREM RowsInvariant == Spec => []RowsInv
  <1>1. Init => RowsInv
    BY RowsInitially DEF Init
  <1> QED
    BY <1>1, RowsInductive, PTL DEF Spec

\* Links stay one level deep, inside a tenant and a definition, and never dangle.
THEOREM LinksStaySound == Spec => []LinksAreSound
  <1>1. RowsInv => LinksAreSound
    BY DEF RowsInv
  <1> QED
    BY <1>1, RowsInvariant, PTL

\* A stored value is of a live field of the definition of an existing resource.
THEOREM StoredValuesBelong == Spec => []ValuesBelong
  <1>1. RowsInv => ValuesBelong
    BY DEF RowsInv
  <1> QED
    BY <1>1, RowsInvariant, PTL

\* Every reachable state of directory and catalogue is well typed.
THEOREM CatalogTypes == Spec => []TypeOK
  <1>1. DirInv /\ RowsInv => TypeOK
    BY DEF DirInv, RowsInv, TypeOK
  <1> QED
    BY <1>1, RowsInvariant, DirectoryInvariant, DirectoryRefined, PTL
-----------------------------------------------------------------------------
(* Required values: of a resource that remains, neither its own row nor    *)
(* the row of its source is removed, except by a clear that looked whether *)
(* the source has the value or that read the field as optional.            *)

\* An effective value remains where its row, local or of the source, remains.
LEMMA EffectiveRemains ==
  ASSUME NEW r \in Resources, NEW f \in Fields, resource'[r].source = resource[r].source,
         value[r][f] # None => value'[r][f] # None,
         resource[r].source # None /\ value[resource[r].source][f] # None =>
           value'[resource[r].source][f] # None,
         Effective(r, f) # None
  PROVE  Effective(r, f)' # None
  BY DEF Effective, Inherited

\* A source of a resource that exists is another resource, and exists.
LEMMA SourceExists ==
  ASSUME RowsInv, NEW r \in Resources, Exists(r), resource[r].source # None
  PROVE  /\ resource[r].source \in Resources /\ resource[r].source # r /\ Exists(resource[r].source)
         /\ resource[resource[r].source].source = None
         /\ resource[resource[r].source].tenant = resource[r].tenant
  BY DEF RowsInv, LinksAreSound, CatTypeOK, Resource

\* A value that is stored takes no value away.
LEMMA StoreValueKeeps ==
  ASSUME RowsInv, NEW q \in Resources, StoreValue(q)
  PROVE  RequiredKeptStep
  <1> DEFINE v == edit[q].to
             g == edit[q].field
  <1>1. edit[q] # None /\ edit[q] \in Edit /\ v # None /\ value' = [value EXCEPT ![q][g] = v]
    BY DEF StoreValue, Unlocked, Written, RowsInv, CatTypeOK
  <1>2. g \in Fields
    BY <1>1 DEF Edit
  <1> HIDE DEF v, g
  <1>3. \A p \in Resources, f \in Fields : value[p][f] # None => value'[p][f] # None
    BY <1>1, <1>2 DEF RowsInv, CatTypeOK
  <1>4. \A p \in Resources : resource'[p].source = resource[p].source
    <2>1. PICK row : Touching(q, row)
      BY RowTouched DEF StoreValue, CanTouch
    <2> QED
      BY <2>1 DEF Touching, RowsInv, CatTypeOK
  <1> QED
    BY <1>3, <1>4, SourceExists, EffectiveRemains DEF RequiredKeptStep

\* Each step that leaves a resource leaves it the values of its required fields.
LEMMA RequiredKept == RowsInv /\ [Next]_vars => [RequiredKeptStep]_vars
  <1> SUFFICES ASSUME RowsInv, Next PROVE RequiredKeptStep
    OBVIOUS
  <1>1. ASSUME value' = value, \A r \in Resources : resource'[r].source = resource[r].source
        PROVE  RequiredKeptStep
    BY <1>1, EffectiveRemains DEF RequiredKeptStep
  <1>2. ASSUME UNCHANGED <<resource, value>> PROVE RequiredKeptStep
    BY <1>1, <1>2
  <1>3. CASE DirectoryStep \/ ResolveStep
    BY <1>2, <1>3 DEF DirectoryStep, catVars, ResolveStep
  <1>4. CASE DefinitionStep
    BY <1>2, <1>4 DEF DefinitionStep, CreateDefinition, UpdateDefinition, DeleteDefinition,
                      SetDefinitionStatus, AddField, DeleteField, UpdateField
  <1>5. ASSUME NEW t \in Tenants, RemoveTenant(t) PROVE RequiredKeptStep
    <2> SUFFICES ASSUME NEW r \in Resources, NEW f \in Fields, Exists(r), Exists(r)', Effective(r, f) # None
                 PROVE  Effective(r, f)' # None
      BY DEF RequiredKeptStep
    <2>1. resource[r].tenant # t /\ resource'[r].source = resource[r].source
      BY <1>5 DEF RemoveTenant, Exists, Statuses, RowsInv, CatTypeOK, Resource
    <2>2. \A q \in Resources : resource[q].tenant # t => value'[q] = value[q]
      BY <1>5 DEF RemoveTenant
    <2> QED
      BY <2>1, <2>2, SourceExists, EffectiveRemains
  <1>6. CASE ProvisionStep
    <2>1. ASSUME NEW q \in Resources, StoreProvision(q) PROVE RequiredKeptStep
      <3>1. ~Exists(q) /\ \A p \in Resources \ {q} : resource'[p] = resource[p] /\ value'[p] = value[p]
        BY <2>1 DEF StoreProvision, Exists, Statuses, RowsInv, CatTypeOK
      <3> QED
        BY <3>1, SourceExists, EffectiveRemains DEF RequiredKeptStep
    <2> QED
      BY <1>2, <1>6, <2>1 DEF ProvisionStep, CheckProvision, CheckDuplicate, RejectProvision
  <1>7. ASSUME NEW q \in Resources, DeleteValue(q) PROVE RequiredKeptStep
    <2> DEFINE g == edit[q].field
    <2> SUFFICES ASSUME NEW r \in Resources, NEW f \in Fields, Exists(r), ~ReadAsOptional(r, f),
                        Effective(r, f) # None
                 PROVE  Effective(r, f)' # None
      BY DEF RequiredKeptStep
    <2>1. /\ edit[q] # None /\ edit[q] \in Edit /\ edit[q].to = None
          /\ resource' = resource /\ value' = [value EXCEPT ![q][g] = None]
      BY <1>7 DEF DeleteValue, Unlocked, Written, RowsInv, CatTypeOK
    <2>2. g \in Fields /\ edit[q].required \in BOOLEAN /\ resource[q].source # None
      BY <2>1 DEF Edit, RowsInv, EditsFit
    <2>3. \A p \in Resources, e \in Fields : p # q \/ e # g => value'[p][e] = value[p][e]
      BY <2>1, <2>2 DEF RowsInv, CatTypeOK
    <2>4. CASE r = q /\ f = g
      <3>1. resource[r].source # None /\ Inherited(r, f) # None
        BY <2>1, <2>2, <2>4 DEF ReadAsOptional, RowsInv, EditsFit
      <3>2. value'[resource[r].source][f] = value[resource[r].source][f]
        BY <2>3, <2>4, <3>1, SourceExists
      <3> QED
        BY <2>1, <3>1, <3>2 DEF Effective, Inherited
    <2>5. CASE r # q \/ f # g
      BY <2>1, <2>2, <2>3, <2>5, SourceExists, EffectiveRemains
    <2> QED
      BY <2>4, <2>5
  <1>8. ASSUME NEW q \in Resources, DeleteResource(q) PROVE RequiredKeptStep
    <2> SUFFICES ASSUME NEW r \in Resources, NEW f \in Fields, Exists(r), Exists(r)', Effective(r, f) # None
                 PROVE  Effective(r, f)' # None
      BY DEF RequiredKeptStep
    <2>1. \A p \in Resources \ {q} : resource'[p] = resource[p] /\ value'[p] = value[p]
      BY <1>8 DEF DeleteResource, RowsInv, CatTypeOK
    <2>2. r # q
      BY <1>8 DEF DeleteResource, Exists, Statuses, RowsInv, CatTypeOK, Resource
    <2>3. resource[r].source # q
      BY <1>8 DEF DeleteResource, HasDependents
    <2> QED
      BY <2>1, <2>2, <2>3, SourceExists, EffectiveRemains
  <1>9. CASE ResourceStep
    <2>1. ASSUME NEW q \in Resources, Exists(q), \E row : Touching(q, row), value' = value
          PROVE  RequiredKeptStep
      BY <1>1, <2>1 DEF Touching, RowsInv, CatTypeOK
    <2>2. ASSUME NEW q \in Resources, NEW a \in Aliases, UpdateResourceIdentity(q, a) PROVE RequiredKeptStep
      BY <2>1, <2>2, RowTouched DEF UpdateResourceIdentity, CanTouch
    <2>3. ASSUME NEW q \in Resources, NEW st \in Statuses, SetResourceStatus(q, st) PROVE RequiredKeptStep
      BY <2>1, <2>3, RowTouched DEF SetResourceStatus, CanTouch
    <2> QED
      BY <1>2, <1>7, <1>8, <1>9, <2>2, <2>3, StoreValueKeeps
         DEF ResourceStep, UpdateResourceField, ClearResourceFieldOverride, RollBackEdit
  <1>10. CASE ConsumerWriteStep
    BY <1>2, <1>10 DEF ConsumerWriteStep
  <1> QED
    BY <1>3, <1>4, <1>5, <1>6, <1>9, <1>10 DEF Next, AdminNext

\* A step takes away the effective value of a required field of a resource that
\* remains only where a clear in progress has read the field as optional.
THEOREM RequiredValuesStay == Spec => RequiredNeverLost
  BY RequiredKept, RowsInvariant, PTL DEF Spec, RequiredNeverLost
-----------------------------------------------------------------------------
(* Fields that have been required ever since nothing used their definition: *)
(* no provisioning leaves them out, and no clear has read them as optional. *)

StrictInv ==
  /\ \A f \in strict : field[f].state # "unborn" /\ field[f].required
  /\ provision # None =>
       \A f \in FieldsOf(provision.def) \cap strict :
         provision.given[f] # None \/ provision.source # None
  /\ \A r \in Resources : edit[r] # None /\ edit[r].to = None /\ edit[r].field \in strict => edit[r].required
  /\ StrictStayFilled

\* A step of resources or their transactions, when no field becomes strict and
\* no resource appears.
LEMMA StrictMoves ==
  ASSUME RowsInv, StrictInv, RequiredKeptStep, strict' \subseteq strict,
         \A f \in strict' : field'[f].state # "unborn" /\ field'[f].required,
         provision' \in {provision, None},
         \A r \in Resources : edit'[r] \in {edit[r], None},
         \A r \in Resources : Exists(r)' => Exists(r) /\ resource'[r].def = resource[r].def,
         \A d \in Definitions : FieldsOf(d)' \cap strict' \subseteq FieldsOf(d)
  PROVE  StrictInv'
  <1> USE DEF StrictInv
  <1>1. provision' # None =>
          \A f \in FieldsOf(provision.def)' \cap strict' :
            provision'.given[f] # None \/ provision'.source # None
    <2>1. provision # None => provision.def \in Definitions
      BY DEF RowsInv, CatTypeOK, Provision
    <2> QED
      BY <2>1
  <1>2. StrictStayFilled'
    <2> SUFFICES ASSUME NEW r \in Resources, Exists(r)',
                        NEW f \in (FieldsOf(resource[r].def) \cap strict)'
                 PROVE  Effective(r, f)' # None
      BY DEF StrictStayFilled
    <2>1. Exists(r) /\ resource[r].def \in Definitions /\ resource'[r].def = resource[r].def
      BY ExistsIsBorn DEF RowsInv, RowsAreNamed
    <2>2. f \in Fields /\ f \in FieldsOf(resource[r].def) /\ f \in strict
      BY <2>1 DEF FieldsOf
    <2>3. Effective(r, f) # None /\ field[f].required
      BY <2>1, <2>2 DEF StrictStayFilled
    <2>4. ~ReadAsOptional(r, f)
      BY <2>2 DEF ReadAsOptional
    <2> QED
      BY <2>1, <2>2, <2>3, <2>4 DEF RequiredKeptStep
  <1>3. \A r \in Resources : edit'[r] # None /\ edit'[r].to = None /\ edit'[r].field \in strict' => edit'[r].required
    OBVIOUS
  <1> QED
    BY <1>1, <1>2, <1>3

\* Fields come, change and go.
LEMMA StrictDefinitionStep ==
  ASSUME RowsInv, StrictInv, DefinitionStep, RequiredKeptStep
  PROVE  StrictInv'
  <1> USE DEF RowsInv
  <1>0. UNCHANGED <<provision, edit>> /\ UNCHANGED <<resource, value>>
    BY DEF DefinitionStep, CreateDefinition, UpdateDefinition, DeleteDefinition, SetDefinitionStatus,
           AddField, DeleteField, UpdateField
  <1>1. \A r \in Resources : Exists(r)' <=> Exists(r)
    BY <1>0 DEF Exists
  <1>2. ASSUME strict' \subseteq strict, \A f \in strict' : field'[f].state # "unborn" /\ field'[f].required,
               \A d \in Definitions : FieldsOf(d)' \cap strict' \subseteq FieldsOf(d)
        PROVE  StrictInv'
    BY <1>0, <1>1, <1>2, StrictMoves
  <1>3. ASSUME field' = field, strict' = strict PROVE StrictInv'
    BY <1>2, <1>3 DEF FieldsOf, StrictInv
  <1>4. ASSUME NEW d \in Definitions, DeleteDefinition(d) PROVE StrictInv'
    <2>1. strict' = strict
          /\ \A f \in Fields : /\ field'[f].required = field[f].required /\ field'[f].def = field[f].def
                               /\ field'[f].state # "unborn" <=> field[f].state # "unborn"
                               /\ field'[f].state = "live" => field[f].state = "live"
      BY <1>4 DEF DeleteDefinition, CatTypeOK, Field, FieldsOf
    <2>2. strict \subseteq Fields
      BY DEF CatTypeOK
    <2> QED
      BY <1>2, <2>1, <2>2 DEF FieldsOf, StrictInv
  <1>5. ASSUME NEW f \in Fields, DeleteField(f) \/ \E req \in BOOLEAN : UpdateField(f, req) PROVE StrictInv'
    <2>1. /\ strict' \subseteq strict /\ strict \subseteq Fields
          /\ \A g \in Fields \ {f} : field'[g] = field[g]
          /\ field[f].state = "live" /\ field'[f].def = field[f].def
          /\ f \in strict' => field'[f].state = "live" /\ field'[f].required
      BY <1>5 DEF DeleteField, UpdateField, CatTypeOK, Field
    <2> QED
      BY <1>2, <2>1 DEF FieldsOf, StrictInv
  <1>6. ASSUME NEW d \in Definitions, NEW f \in Fields, NEW k \in Keys, NEW kind \in FieldKinds,
               AddField(d, f, k, kind[1], kind[2])
        PROVE  StrictInv'
    <2>1. /\ field[f].state = "unborn" /\ \A g \in Fields \ {f} : field'[g] = field[g]
          /\ field'[f].state = "live" /\ field'[f].def = d /\ field'[f].required = kind[1]
          /\ strict' = IF kind[1] /\ ~InUse(d) THEN strict \cup {f} ELSE strict
          /\ strict \subseteq Fields
      BY <1>6 DEF AddField, CatTypeOK
    <2>2. f \notin strict
      BY <2>1 DEF StrictInv
    <2>3. CASE ~(kind[1] /\ ~InUse(d))
      BY <1>2, <2>1, <2>2, <2>3 DEF FieldsOf, StrictInv
    <2>4. CASE kind[1] /\ ~InUse(d)
      <3>1. strict' = strict \cup {f}
        BY <2>1, <2>4
      <3>2. \A e : /\ FieldsOf(e)' \subseteq FieldsOf(e) \cup {f}
                   /\ f \in FieldsOf(e)' => e = d
        BY <2>1 DEF FieldsOf
      <3>3. \A g \in strict' : field'[g].state # "unborn" /\ field'[g].required
        BY <2>1, <2>2, <2>4, <3>1 DEF StrictInv
      <3>4. provision # None => provision.def # d
        BY <2>4 DEF InUse
      <3>5. \A r \in Resources : Exists(r) => resource[r].def # d
        BY <2>4 DEF InUse
      <3>6. \A r \in Resources : edit[r] # None => edit[r].field # f
        BY <2>1 DEF EditsFit
      <3>7. StrictStayFilled'
        <4>1. \A r, g : Effective(r, g)' = Effective(r, g)
          BY <1>0 DEF Effective, Inherited
        <4> QED
          BY <1>0, <1>1, <3>1, <3>2, <3>5, <4>1 DEF StrictInv, StrictStayFilled
      <3>8. provision' # None =>
              \A g \in FieldsOf(provision.def)' \cap strict' :
                provision'.given[g] # None \/ provision'.source # None
        BY <1>0, <3>1, <3>2, <3>4 DEF StrictInv
      <3>9. \A r \in Resources : edit'[r] # None /\ edit'[r].to = None /\ edit'[r].field \in strict' => edit'[r].required
        BY <1>0, <3>1, <3>6 DEF StrictInv
      <3> QED
        BY <3>3, <3>7, <3>8, <3>9 DEF StrictInv
    <2> QED
      BY <2>3, <2>4
  <1> QED
    BY <1>3, <1>4, <1>5, <1>6 DEF DefinitionStep, CreateDefinition, UpdateDefinition, SetDefinitionStatus

\* A lock is taken by a transaction that has read the field's flag.
LEMMA StrictLock ==
  ASSUME RowsInv, StrictInv, NEW r \in Resources, NEW f \in Fields, NEW v, LockFor(r, f, v),
         UNCHANGED <<definition, field, resource, value, provision, strict>>
  PROVE  StrictInv'
  <1> DEFINE e == [field |-> f, required |-> field[f].required, to |-> v]
  <1>1. e.field = f /\ e.required = field[f].required
    OBVIOUS
  <1>2. edit' = [edit EXCEPT ![r] = e]
    BY DEF LockFor
  <1> HIDE DEF e
  <1>3. edit'[r] = e /\ \A q \in Resources \ {r} : edit'[q] = edit[q]
    BY <1>2 DEF RowsInv, CatTypeOK
  <1>4. \A q \in Resources : edit'[q] # None /\ edit'[q].to = None /\ edit'[q].field \in strict => edit'[q].required
    BY <1>1, <1>3 DEF StrictInv
  <1> QED
    BY <1>4 DEF StrictInv, StrictStayFilled, Exists, FieldsOf, Effective, Inherited

\* A resource appears with the values its provisioning has checked.
LEMMA StrictProvisionStep ==
  ASSUME RowsInv, StrictInv, ProvisionStep, RequiredKeptStep
  PROVE  StrictInv'
  <1> USE DEF RowsInv
  <1>0. UNCHANGED <<field, edit, strict>> /\ \A d : FieldsOf(d)' = FieldsOf(d)
    BY DEF ProvisionStep, FieldsOf
  <1>1. ASSUME NEW t, NEW d, NEW s, NEW a, NEW given, CheckProvision(t, d, s, a, given) PROVE StrictInv'
    <2>1. UNCHANGED <<resource, value>> /\ RequiredMet(d, s, given)
          /\ provision' = [tenant |-> t, def |-> d, alias |-> a, source |-> s, given |-> given]
      BY <1>1 DEF CheckProvision
    <2>2. provision'.def = d /\ provision'.source = s /\ provision'.given = given
      BY <2>1
    <2>3. \A f \in FieldsOf(d) \cap strict : given[f] # None \/ s # None
      BY <2>1 DEF RequiredMet, StrictInv
    <2>4. StrictStayFilled'
      BY <1>0, <2>1 DEF StrictInv, StrictStayFilled, Exists, Effective, Inherited
    <2> QED
      BY <1>0, <2>2, <2>3, <2>4 DEF StrictInv
  <1>2. CASE RejectProvision
    BY <1>0, <1>2 DEF RejectProvision, StrictInv, StrictStayFilled, Exists, Effective, Inherited
  <1>3. ASSUME NEW q \in Resources, StoreProvision(q) PROVE StrictInv'
    <2> DEFINE p == provision
    <2>1. p # None /\ p \in Provision /\ Insertable(p) /\ ~Exists(q) /\ provision' = None
      BY <1>3 DEF StoreProvision, Exists, Statuses, CatTypeOK
    <2>2. /\ resource'[q].source = p.source /\ resource'[q].def = p.def /\ value'[q] = p.given
          /\ \A r \in Resources \ {q} : resource'[r] = resource[r] /\ value'[r] = value[r]
      BY <1>3 DEF StoreProvision, CatTypeOK
    <2>3. ASSUME NEW f \in FieldsOf(p.def) \cap strict PROVE Effective(q, f)' # None
      <3>1. CASE p.given[f] # None
        BY <2>2, <3>1 DEF Effective
      <3>2. CASE p.given[f] = None
        <4>1. p.source # None
          BY <2>1, <3>2 DEF StrictInv
        <4>2. /\ p.source \in Resources \ {q} /\ Exists(p.source)
              /\ resource[p.source].def = p.def /\ resource[p.source].source = None
          BY <2>1, <4>1 DEF Provision, Insertable, SourceStillSound
        <4>3. value[p.source][f] # None
          BY <4>2 DEF StrictInv, StrictStayFilled, Effective, Inherited
        <4> QED
          BY <2>2, <3>2, <4>1, <4>2, <4>3 DEF Effective, Inherited
      <3> QED
        BY <3>1, <3>2
    <2>4. ASSUME NEW r \in Resources, r # q, Exists(r)', NEW f \in FieldsOf(resource'[r].def) \cap strict
          PROVE  Effective(r, f)' # None
      <3>1. Exists(r) /\ resource'[r] = resource[r]
        BY <2>2, <2>4 DEF Exists
      <3>2. f \in Fields /\ Effective(r, f) # None /\ field[f].required /\ ~ReadAsOptional(r, f)
        BY <2>4, <3>1 DEF StrictInv, StrictStayFilled, ReadAsOptional, FieldsOf
      <3> QED
        BY <2>4, <3>1, <3>2 DEF RequiredKeptStep
    <2>5. StrictStayFilled'
      BY <1>0, <2>2, <2>3, <2>4 DEF StrictStayFilled
    <2> QED
      BY <1>0, <2>1, <2>5 DEF StrictInv
  <1> QED
    BY <1>1, <1>2, <1>3 DEF ProvisionStep, CheckDuplicate

\* Every step keeps strict fields filled.
LEMMA StrictInductive == RowsInv /\ StrictInv /\ [Next]_vars => StrictInv'
  <1> SUFFICES ASSUME RowsInv, StrictInv, [Next]_vars PROVE StrictInv'
    OBVIOUS
  <1>0. RequiredKeptStep \/ UNCHANGED vars
    BY RequiredKept
  <1>1. ASSUME UNCHANGED <<field, resource, value, provision, edit, strict>> PROVE StrictInv'
    BY <1>1 DEF StrictInv, StrictStayFilled, Exists, FieldsOf, Effective, Inherited
  <1>2. CASE DirectoryStep \/ ResolveStep \/ UNCHANGED vars
    BY <1>1, <1>2 DEF DirectoryStep, catVars, ResolveStep, vars
  <1>3. ASSUME RequiredKeptStep, UNCHANGED <<field, provision, strict>>,
               \A r \in Resources : edit'[r] \in {edit[r], None},
               \A r \in Resources : Exists(r)' => Exists(r) /\ resource'[r].def = resource[r].def
        PROVE  StrictInv'
    BY <1>3, StrictMoves DEF StrictInv, FieldsOf
  <1>4. ASSUME RequiredKeptStep, NEW t \in Tenants, RemoveTenant(t) PROVE StrictInv'
    <2>1. \A r \in Resources : Exists(r)' => Exists(r) /\ resource'[r].def = resource[r].def
      BY <1>4 DEF RemoveTenant, RowsInv, CatTypeOK, Resource, Exists, Statuses
    <2> QED
      BY <1>3, <1>4, <2>1 DEF RemoveTenant
  <1>5. ASSUME RequiredKeptStep, ResourceStep PROVE StrictInv'
    <2>0. UNCHANGED <<definition, field, provision, strict>>
      BY <1>5 DEF ResourceStep
    <2>1. ASSUME \A r \in Resources : edit'[r] \in {edit[r], None},
                 NEW q \in Resources, Exists(q), resource' = resource \/ \E row : Touching(q, row)
          PROVE  StrictInv'
      <3>1. \A r \in Resources : Exists(r)' => Exists(r) /\ resource'[r].def = resource[r].def
        BY <2>1 DEF Touching, RowsInv, CatTypeOK, Exists
      <3> QED
        BY <1>3, <1>5, <2>0, <2>1, <3>1
    <2>2. ASSUME NEW q \in Resources, NEW a \in Aliases, UpdateResourceIdentity(q, a) PROVE StrictInv'
      BY <2>1, <2>2, RowTouched DEF UpdateResourceIdentity, CanTouch
    <2>3. ASSUME NEW q \in Resources, NEW st \in Statuses, SetResourceStatus(q, st) PROVE StrictInv'
      BY <2>1, <2>3, RowTouched DEF SetResourceStatus, CanTouch
    <2>4. ASSUME NEW q \in Resources, StoreValue(q) \/ DeleteValue(q) \/ RollBackEdit(q) PROVE StrictInv'
      <3>1. edit[q] # None /\ edit' = [edit EXCEPT ![q] = None]
        BY <2>4 DEF StoreValue, DeleteValue, RollBackEdit, Unlocked
      <3>2. Exists(q) /\ \A r \in Resources : edit'[r] \in {edit[r], None}
        BY <3>1 DEF RowsInv, EditsFit, CatTypeOK
      <3>3. resource' = resource \/ \E row : Touching(q, row)
        BY <2>4, <3>2, RowTouched DEF StoreValue, DeleteValue, RollBackEdit
      <3> QED
        BY <2>1, <3>2, <3>3
    <2>5. ASSUME NEW q \in Resources, DeleteResource(q) PROVE StrictInv'
      <3>1. edit' = edit /\ \A r \in Resources : Exists(r)' => Exists(r) /\ resource'[r].def = resource[r].def
        BY <2>5 DEF DeleteResource, RowsInv, CatTypeOK, Resource, Exists, Statuses
      <3> QED
        BY <1>3, <1>5, <2>0, <3>1
    <2>6. ASSUME NEW q \in Resources, NEW f \in Fields,
                 ClearResourceFieldOverride(q, f) \/ \E v \in Values \cup {Empty} : UpdateResourceField(q, f, v)
          PROVE  StrictInv'
      BY <2>0, <2>6, StrictLock DEF ClearResourceFieldOverride, UpdateResourceField, BeginStore
    <2> QED
      BY <1>5, <2>2, <2>3, <2>4, <2>5, <2>6 DEF ResourceStep
  <1>6. CASE ConsumerWriteStep
    <2>1. UNCHANGED <<definition, field, resource, value, provision, strict>>
      BY <1>6 DEF ConsumerWriteStep
    <2>2. ASSUME NEW f \in Fields, BeginWrite(f) PROVE StrictInv'
      <3>1. write.resource \in Resources
        BY <2>2 DEF BeginWrite, RowsInv, CatTypeOK, Write
      <3> QED
        BY <2>1, <2>2, <3>1, StrictLock DEF BeginWrite, BeginStore
    <2> QED
      BY <1>1, <1>6, <2>1, <2>2 DEF ConsumerWriteStep, CheckWrite, RejectWrite
  <1> QED
    BY <1>0, <1>2, <1>4, <1>5, <1>6, StrictDefinitionStep, StrictProvisionStep DEF Next, AdminNext

\* On every resource, a field that has always been required has a value.
THEOREM StrictFieldsFilled == Spec => []StrictStayFilled
  <1>1. Init => StrictInv
    BY DEF Init, CatInit, StrictInv, StrictStayFilled
  <1>2. StrictInv => StrictStayFilled
    BY DEF StrictInv
  <1> QED
    BY <1>1, <1>2, StrictInductive, RowsInvariant, PTL DEF Spec
-----------------------------------------------------------------------------
(* What a consumer keeps.  The marks of a kept tag, and those of a request  *)
(* under way, were the stamps of their rows once; stamps only grow.  So a    *)
(* mark that equals the present one has been the mark all along, and then    *)
(* neither the alias nor a value it shows has changed.                       *)

MarkFits(r, m) ==
  /\ Born(r)
  /\ m[1] = resource[r].def /\ m[4] = resource[r].source
  /\ m[2] <= resource[r].stamp
  /\ m[3] <= definition[resource[r].def].stamp
  /\ m[5] <= SourceStamp(r)
  /\ m[2] \in Nat /\ m[3] \in Nat /\ m[5] \in Nat

HeadFits(r, head) ==
  /\ MarkFits(r, head.mark)
  /\ head.mark[2] = resource[r].stamp => head.alias = resource[r].alias

RequestFits ==
  request # None =>
    /\ request = [tenant |-> request.tenant, slug |-> request.slug, stamp |-> request.stamp,
                  heads |-> request.heads]
    /\ request.heads # None =>
         /\ DOMAIN request.heads \subseteq Resources
         /\ \A r \in DOMAIN request.heads : HeadFits(r, request.heads[r])

AnswerFits(r, m, answer) ==
  /\ MarkFits(r, m)
  /\ ~reverted /\ Exists(r) /\ m = Mark(r) => answer = <<resource[r].alias, ShownValues(r)>>

CacheFits ==
  cache # None =>
    /\ DOMAIN cache.tag.marks \subseteq Resources
    /\ cache.resources = [r \in DOMAIN cache.tag.marks |-> cache.resources[r]]
    /\ \A r \in DOMAIN cache.tag.marks : AnswerFits(r, cache.tag.marks[r], cache.resources[r])

\* A definition that was not created yet has not been touched.
StampsStart == \A d \in Definitions : definition[d].status = "unborn" => definition[d].stamp = 0

ConsumerInv == StampsStart /\ RequestFits /\ CacheFits

\* The stamps behind the mark of r stay.
SameStamps(r) ==
  /\ resource'[r].stamp = resource[r].stamp
  /\ definition'[resource[r].def].stamp = definition[resource[r].def].stamp
  /\ resource[r].source # None => resource'[resource[r].source].stamp = resource[resource[r].source].stamp

\* What every step that is not a consumer's reading does to the rows.
Ages ==
  /\ \A d \in Definitions : definition[d].stamp <= definition'[d].stamp
  /\ \A r \in Resources : Born(r) =>
       /\ Born(r)' /\ resource'[r].def = resource[r].def /\ resource'[r].source = resource[r].source
       /\ resource[r].stamp <= resource'[r].stamp
       /\ resource'[r].stamp = resource[r].stamp => resource'[r].alias = resource[r].alias
       /\ Exists(r)' => Exists(r)
       /\ Exists(r)' /\ SameStamps(r) /\ ~reverted' => ShownValues(r)' = ShownValues(r)
  /\ reverted => reverted'

\* The stamps of a row that was born are numbers.
LEMMA StampsAreNumbers ==
  ASSUME RowsInv, NEW r \in Resources, Born(r)
  PROVE  /\ resource[r].stamp \in Nat /\ resource[r].def \in Definitions
         /\ definition[resource[r].def].stamp \in Nat
         /\ SourceStamp(r) \in Nat
         /\ resource[r].source # None =>
              resource[r].source \in Resources /\ Born(resource[r].source)
  <1>1. /\ resource[r].stamp \in Nat /\ resource[r].def \in Definitions
        /\ definition[resource[r].def].stamp \in Nat
        /\ resource[r].source # None => resource[r].source \in Resources /\ Born(resource[r].source)
    BY DEF RowsInv, CatTypeOK, RowsAreNamed, Resource, Definition
  <1>2. \A q \in Resources : resource[q].stamp \in Nat
    BY DEF RowsInv, CatTypeOK, Resource
  <1> QED
    BY <1>1, <1>2 DEF SourceStamp

\* A mark that fits goes on fitting, and if it is the present mark afterwards it
\* was before, and the stamps have stayed.
LEMMA MarkAges ==
  ASSUME RowsInv, RowsInv', Ages, NEW r \in Resources, NEW m, MarkFits(r, m)
  PROVE  /\ MarkFits(r, m)'
         /\ m = Mark(r)' => SameStamps(r) /\ m = Mark(r)
         /\ m[2] = resource'[r].stamp => m[2] = resource[r].stamp /\ resource'[r].alias = resource[r].alias
  <1> DEFINE d == resource[r].def
             s == resource[r].source
  <1>1. Born(r) /\ Born(r)' /\ resource'[r].def = d /\ resource'[r].source = s
        /\ resource[r].stamp <= resource'[r].stamp
        /\ (resource'[r].stamp = resource[r].stamp => resource'[r].alias = resource[r].alias)
    BY DEF MarkFits, Ages
  <1>2. /\ resource[r].stamp \in Nat /\ d \in Definitions /\ definition[d].stamp \in Nat
        /\ SourceStamp(r) \in Nat /\ (s # None => s \in Resources /\ Born(s))
    BY <1>1, StampsAreNumbers
  <1>3. resource'[r].stamp \in Nat /\ definition'[d].stamp \in Nat
    BY <1>1, <1>2 DEF RowsInv, CatTypeOK, Resource, Definition
  <1>4. definition[d].stamp <= definition'[d].stamp
    BY <1>2 DEF Ages
  <1>5. s # None => /\ resource[s].stamp \in Nat /\ resource'[s].stamp \in Nat
                    /\ resource[s].stamp <= resource'[s].stamp
    BY <1>2 DEF Ages, RowsInv, CatTypeOK, Resource
  <1>6. /\ SourceStamp(r) = IF s = None THEN 0 ELSE resource[s].stamp
        /\ SourceStamp(r)' = IF s = None THEN 0 ELSE resource'[s].stamp
    BY <1>1 DEF SourceStamp
  <1>7. /\ m[1] = d /\ m[4] = s /\ m[2] <= resource[r].stamp /\ m[3] <= definition[d].stamp
        /\ m[5] <= SourceStamp(r) /\ m[2] \in Nat /\ m[3] \in Nat /\ m[5] \in Nat
    BY DEF MarkFits
  <1>8. Mark(r) = <<d, resource[r].stamp, definition[d].stamp, s, SourceStamp(r)>>
        /\ Mark(r)' = <<d, resource'[r].stamp, definition'[d].stamp, s, SourceStamp(r)'>>
    BY <1>1 DEF Mark
  <1>9. SourceStamp(r) <= SourceStamp(r)' /\ SourceStamp(r)' \in Nat
    BY <1>5, <1>6
  <1>10. MarkFits(r, m)'
    BY <1>1, <1>2, <1>3, <1>4, <1>7, <1>9 DEF MarkFits
  <1>11. ASSUME m = Mark(r)' PROVE SameStamps(r) /\ m = Mark(r)
    <2>1. m[2] = resource'[r].stamp /\ m[3] = definition'[d].stamp /\ m[5] = SourceStamp(r)'
      BY <1>8, <1>11
    <2>2. /\ resource'[r].stamp = resource[r].stamp /\ definition'[d].stamp = definition[d].stamp
          /\ SourceStamp(r)' = SourceStamp(r)
      BY <1>1, <1>2, <1>3, <1>4, <1>7, <1>9, <2>1
    <2>3. SameStamps(r)
      BY <1>6, <2>2 DEF SameStamps
    <2> QED
      BY <1>8, <1>11, <2>2, <2>3
  <1>12. m[2] = resource'[r].stamp => m[2] = resource[r].stamp /\ resource'[r].alias = resource[r].alias
    BY <1>1, <1>2, <1>3, <1>7
  <1> QED
    BY <1>10, <1>11, <1>12

\* What a consumer keeps goes on fitting while the rows age.
LEMMA AgingKeeps ==
  ASSUME RowsInv, RowsInv', Ages, UNCHANGED <<request, cache>>, ConsumerInv, StampsStart'
  PROVE  ConsumerInv'
  <1>1. ASSUME NEW r \in Resources, NEW head, HeadFits(r, head) PROVE HeadFits(r, head)'
    BY <1>1, MarkAges DEF HeadFits
  <1>2. ASSUME NEW r \in Resources, NEW m, NEW answer, AnswerFits(r, m, answer)
        PROVE  AnswerFits(r, m, answer)'
    <2>1. MarkFits(r, m) /\ MarkFits(r, m)'
      BY <1>2, MarkAges DEF AnswerFits
    <2>2. ASSUME ~reverted', Exists(r)', m = Mark(r)' PROVE answer = <<resource'[r].alias, ShownValues(r)'>>
      <3>1. SameStamps(r) /\ m = Mark(r)
        BY <2>1, <2>2, MarkAges
      <3>2. ~reverted /\ Exists(r) /\ resource'[r].alias = resource[r].alias
            /\ ShownValues(r)' = ShownValues(r)
        BY <2>1, <2>2, <3>1 DEF Ages, MarkFits, SameStamps
      <3> QED
        BY <1>2, <3>1, <3>2 DEF AnswerFits
    <2> QED
      BY <2>1, <2>2 DEF AnswerFits
  <1>3. RequestFits'
    BY <1>1 DEF ConsumerInv, RequestFits
  <1>4. CacheFits'
    BY <1>2 DEF ConsumerInv, CacheFits
  <1> QED
    BY <1>3, <1>4 DEF ConsumerInv
\* What a resource shows stays with its fields and with the rows of its values.
LEMMA ShownStays ==
  ASSUME NEW r \in Resources, NEW d, NEW s, Exists(r), Exists(r)',
         resource[r].def = d, resource'[r].def = d, resource[r].source = s, resource'[r].source = s,
         FieldsOf(d)' = FieldsOf(d),
         \A f \in FieldsOf(d) : /\ field'[f].key = field[f].key /\ value'[r][f] = value[r][f]
                                /\ s # None => value'[s][f] = value[s][f]
  PROVE  ShownValues(r)' = ShownValues(r)
  <1>1. \A f \in FieldsOf(d) : Shown(r, f)' = Shown(r, f)
    BY DEF Shown, Effective, Inherited
  <1>2. {<<field'[f].key, Shown(r, f)'>> : f \in FieldsOf(d)} = {<<field[f].key, Shown(r, f)>> : f \in FieldsOf(d)}
    BY <1>1
  <1> QED
    BY <1>2 DEF ShownValues

\* Rows that stay as they are age, when the definitions and fields do.
LEMMA FieldsAge ==
  ASSUME RowsInv, UNCHANGED <<resource, value, reverted>>,
         \A d \in Definitions : definition[d].stamp <= definition'[d].stamp,
         \A r \in Resources : Exists(r) /\ definition'[resource[r].def].stamp = definition[resource[r].def].stamp =>
           /\ FieldsOf(resource[r].def)' = FieldsOf(resource[r].def)
           /\ \A f \in FieldsOf(resource[r].def) : field'[f].key = field[f].key
  PROVE  Ages
  <1>1. \A r \in Resources : Born(r) =>
       /\ Born(r)' /\ resource'[r].def = resource[r].def /\ resource'[r].source = resource[r].source
       /\ resource[r].stamp <= resource'[r].stamp
       /\ resource'[r].alias = resource[r].alias
       /\ Exists(r)' <=> Exists(r)
    BY StampsAreNumbers DEF Born, Exists
  <1>2. ASSUME NEW r \in Resources, Born(r), Exists(r)', SameStamps(r) PROVE ShownValues(r)' = ShownValues(r)
    BY <1>1, <1>2, ShownStays DEF SameStamps
  <1> QED
    BY <1>1, <1>2 DEF Ages

\* Definitions and fields age: every change of a field touches its definition.
LEMMA DefinitionStepAges ==
  ASSUME RowsInv, StampsStart, DefinitionStep
  PROVE  Ages /\ StampsStart' /\ UNCHANGED <<request, cache>>
  <1> USE DEF RowsInv
  <1>0. UNCHANGED <<reverted, request, cache>> /\ \A d \in Definitions : definition[d].stamp \in Nat
    BY DEF DefinitionStep, CatTypeOK, Definition
  <1>1. ASSUME field' = field, UNCHANGED <<resource, value>>,
               \A d \in Definitions : definition[d].stamp <= definition'[d].stamp
        PROVE  Ages
    <2>1. \A d : FieldsOf(d)' = FieldsOf(d)
      BY <1>1 DEF FieldsOf
    <2> QED
      BY <1>0, <1>1, <2>1, FieldsAge
  <1>2. ASSUME NEW d \in Definitions, NEW f \in Fields, CanTouchDefinition(d),
               definition' = TouchedDefinition(d), UNCHANGED <<resource, value>>,
               \A g \in Fields \ {f} : field'[g] = field[g],
               field[f].state = "live" => field[f].def = d,
               field'[f].state = "live" => field'[f].def = d
        PROVE  Ages /\ StampsStart'
    <2>1. definition'[d].stamp = definition[d].stamp + 1 /\ \A e \in Definitions \ {d} : definition'[e] = definition[e]
      BY <1>2, DefinitionTouched
    <2>2. \A e : e # d => f \notin FieldsOf(e) /\ FieldsOf(e)' = FieldsOf(e)
      BY <1>2 DEF FieldsOf
    <2>3. \A e \in Definitions : definition[e].stamp <= definition'[e].stamp
      BY <1>0, <2>1
    <2>4. \A r \in Resources : Exists(r) /\ definition'[resource[r].def].stamp = definition[resource[r].def].stamp =>
            resource[r].def # d
      BY <1>0, <2>1
    <2>5. Ages
      BY <1>0, <1>2, <2>2, <2>3, <2>4, FieldsAge DEF FieldsOf
    <2>6. definition'[d].status # "unborn"
      BY <1>2 DEF CanTouchDefinition, Known, Statuses, TouchedDefinition, CatTypeOK, Definition
    <2> QED
      BY <2>1, <2>5, <2>6 DEF StampsStart
  <1>3. ASSUME NEW d \in Definitions, CreateDefinition(d) PROVE Ages /\ StampsStart'
    <2>1. definition'[d].stamp = 1 /\ definition'[d].status = "active" /\ definition[d].stamp = 0
          /\ \A e \in Definitions \ {d} : definition'[e] = definition[e]
      BY <1>3 DEF CreateDefinition, StampsStart, CatTypeOK
    <2>2. \A e \in Definitions : definition[e].stamp <= definition'[e].stamp
      BY <1>0, <2>1
    <2> QED
      BY <1>1, <1>3, <2>1, <2>2 DEF CreateDefinition, StampsStart
  <1>4. ASSUME NEW d \in Definitions, UpdateDefinition(d) PROVE Ages /\ StampsStart'
    <2>1. definition'[d].stamp = definition[d].stamp + 1 /\ \A e \in Definitions \ {d} : definition'[e] = definition[e]
      BY <1>4, DefinitionTouched DEF UpdateDefinition
    <2>2. definition'[d].status # "unborn"
      BY <1>4 DEF UpdateDefinition, CanTouchDefinition, Known, Statuses, TouchedDefinition, CatTypeOK, Definition
    <2>3. \A e \in Definitions : definition[e].stamp <= definition'[e].stamp
      BY <1>0, <2>1
    <2> QED
      BY <1>1, <1>4, <2>1, <2>2, <2>3 DEF UpdateDefinition, StampsStart
  <1>5. ASSUME NEW d \in Definitions, NEW st \in Statuses, SetDefinitionStatus(d, st) PROVE Ages /\ StampsStart'
    <2> DEFINE D == TouchedDefinition(d)
    <2>1. D \in [Definitions -> Definition] /\ D[d].stamp = definition[d].stamp + 1
          /\ \A e \in Definitions \ {d} : D[e] = definition[e]
      BY DefinitionTouched
    <2>2. definition' = [D EXCEPT ![d].status = st]
      BY <1>5 DEF SetDefinitionStatus
    <2> HIDE DEF D
    <2>3. definition'[d].stamp = definition[d].stamp + 1 /\ definition'[d].status = st
          /\ \A e \in Definitions \ {d} : definition'[e] = definition[e]
      BY <2>1, <2>2 DEF Definition
    <2>4. \A e \in Definitions : definition[e].stamp <= definition'[e].stamp
      BY <1>0, <2>3
    <2> QED
      BY <1>1, <1>5, <2>3, <2>4 DEF SetDefinitionStatus, StampsStart, Statuses
  <1>6. ASSUME NEW d \in Definitions, DeleteDefinition(d) PROVE Ages /\ StampsStart'
    <2>1. \A e \in Definitions : /\ definition'[e].stamp = definition[e].stamp
                                 /\ definition'[e].status = "unborn" => definition[e].status = "unborn"
      BY <1>6 DEF DeleteDefinition, CatTypeOK, Definition
    <2>2. \A e : e # d => FieldsOf(e)' = FieldsOf(e) /\ \A f \in FieldsOf(e) : field'[f] = field[f]
      BY <1>6 DEF DeleteDefinition, FieldsOf, CatTypeOK, Field
    <2>3. \A r \in Resources : Exists(r) => resource[r].def # d
      BY <1>6 DEF DeleteDefinition
    <2>4. UNCHANGED <<resource, value>>
      BY <1>6 DEF DeleteDefinition
    <2>5. \A e \in Definitions : definition[e].stamp <= definition'[e].stamp
      BY <1>0, <2>1
    <2>6. Ages
      BY <1>0, <2>2, <2>3, <2>4, <2>5, FieldsAge
    <2> QED
      BY <2>1, <2>6 DEF StampsStart
  <1>7. ASSUME NEW d \in Definitions, NEW f \in Fields, NEW k \in Keys, NEW kind \in FieldKinds,
               AddField(d, f, k, kind[1], kind[2])
        PROVE  Ages /\ StampsStart'
    <2>1. field[f].state = "unborn" /\ field'[f].def = d /\ \A g \in Fields \ {f} : field'[g] = field[g]
      BY <1>7 DEF AddField, CatTypeOK
    <2> QED
      BY <1>2, <1>7, <2>1 DEF AddField
  <1>8. ASSUME NEW f \in Fields, DeleteField(f) PROVE Ages /\ StampsStart'
    <2>1. field[f].def \in Definitions /\ field'[f].state = "gone" /\ \A g \in Fields \ {f} : field'[g] = field[g]
      BY <1>8 DEF DeleteField, CatTypeOK, Field, RowsAreNamed
    <2> QED
      BY <1>2, <1>8, <2>1 DEF DeleteField
  <1>9. ASSUME NEW f \in Fields, NEW req \in BOOLEAN, UpdateField(f, req) PROVE Ages /\ StampsStart'
    <2>1. field[f].def \in Definitions /\ field'[f].def = field[f].def /\ \A g \in Fields \ {f} : field'[g] = field[g]
      BY <1>9 DEF UpdateField, CatTypeOK, Field, RowsAreNamed
    <2> QED
      BY <1>2, <1>9, <2>1 DEF UpdateField
  <1> QED
    BY <1>0, <1>3, <1>4, <1>5, <1>6, <1>7, <1>8, <1>9 DEF DefinitionStep
\* Rows age when definitions and fields stay and one row q changes that is
\* touched, or new, or removed without dependents.
LEMMA RowAges ==
  ASSUME RowsInv, UNCHANGED <<definition, field>>, reverted => reverted', NEW q \in Resources,
         \A r \in Resources \ {q} : resource'[r] = resource[r] /\ value'[r] = value[r],
         Born(q) =>
           /\ Born(q)' /\ resource'[q].def = resource[q].def /\ resource'[q].source = resource[q].source
           /\ resource[q].stamp <= resource'[q].stamp
           /\ resource'[q].stamp = resource[q].stamp => resource'[q].alias = resource[q].alias
           /\ Exists(q)' => Exists(q),
         \/ ~Born(q)
         \/ resource'[q].stamp # resource[q].stamp
         \/ reverted'
         \/ ~Exists(q)' /\ ~HasDependents(q)
  PROVE  Ages
  <1>1. \A r \in Resources : Born(r) =>
       /\ Born(r)' /\ resource'[r].def = resource[r].def /\ resource'[r].source = resource[r].source
       /\ resource[r].stamp <= resource'[r].stamp
       /\ resource'[r].stamp = resource[r].stamp => resource'[r].alias = resource[r].alias
       /\ Exists(r)' => Exists(r)
    BY StampsAreNumbers DEF Born, Exists
  <1>2. ASSUME NEW r \in Resources, Born(r), Exists(r)', SameStamps(r), ~reverted'
        PROVE  ShownValues(r)' = ShownValues(r)
    <2>1. Exists(r) /\ r # q
      BY <1>1, <1>2 DEF SameStamps
    <2>2. resource[r].source # None => resource[r].source \in Resources /\ Born(resource[r].source)
      BY <1>2, StampsAreNumbers
    <2>3. resource[r].source # None => resource[r].source # q
      BY <1>2, <2>1, <2>2 DEF SameStamps, HasDependents
    <2>4. \A d : FieldsOf(d)' = FieldsOf(d)
      BY DEF FieldsOf
    <2> QED
      BY <1>1, <1>2, <2>1, <2>2, <2>3, <2>4, ShownStays
  <1>3. \A d \in Definitions : definition[d].stamp <= definition'[d].stamp
    BY DEF RowsInv, CatTypeOK, Definition
  <1> QED
    BY <1>1, <1>2, <1>3 DEF Ages

\* A touched row has aged.
LEMMA TouchAges ==
  ASSUME RowsInv, UNCHANGED <<definition, field, reverted>>, NEW q \in Resources, NEW row,
         Exists(q), Touching(q, row), \A r \in Resources \ {q} : value'[r] = value[r]
  PROVE  Ages
  <1>1. resource'[q] = row /\ \A r \in Resources \ {q} : resource'[r] = resource[r]
    BY DEF Touching, RowsInv, CatTypeOK
  <1>2. resource[q].stamp \in Nat
    BY DEF RowsInv, CatTypeOK, Resource
  <1>3. /\ Born(q)' /\ resource'[q].def = resource[q].def /\ resource'[q].source = resource[q].source
        /\ resource'[q].stamp = resource[q].stamp + 1
    BY <1>1 DEF Touching, Born, Statuses
  <1> QED
    BY <1>1, <1>2, <1>3, RowAges

\* A stored value touches its row.
LEMMA StoreValueAges ==
  ASSUME RowsInv, UNCHANGED <<definition, field, reverted>>, NEW q \in Resources, StoreValue(q)
  PROVE  Ages
  <1>1. Exists(q) /\ \A r \in Resources \ {q} : value'[r] = value[r]
    BY DEF StoreValue, Written, CanTouch, RowsInv, CatTypeOK
  <1>2. PICK row : Touching(q, row)
    BY RowTouched DEF StoreValue, CanTouch
  <1> QED
    BY <1>1, <1>2, TouchAges

\* Rows that all stay have aged as well.
LEMMA NothingAges ==
  ASSUME RowsInv, UNCHANGED <<definition, field, resource, value, reverted>>
  PROVE  Ages
  <1>1. \A d : FieldsOf(d)' = FieldsOf(d)
    BY DEF FieldsOf
  <1>2. \A d \in Definitions : definition[d].stamp <= definition'[d].stamp
    BY DEF RowsInv, CatTypeOK, Definition
  <1> QED
    BY <1>1, <1>2, FieldsAge

\* Every step but the readings of consumers: the rows age.
LEMMA OthersAge ==
  ASSUME RowsInv, StampsStart, AdminNext \/ ConsumerWriteStep
  PROVE  Ages /\ StampsStart' /\ UNCHANGED <<request, cache>>
  <1>1. CASE DirectoryStep
    BY <1>1, NothingAges DEF DirectoryStep, catVars, StampsStart
  <1>2. CASE ProvisionStep
    <2>0. UNCHANGED <<definition, field, reverted, request, cache>>
      BY <1>2 DEF ProvisionStep
    <2>1. ASSUME NEW q \in Resources, StoreProvision(q) PROVE Ages
      <3>1. ~Born(q) /\ \A r \in Resources \ {q} : resource'[r] = resource[r] /\ value'[r] = value[r]
        BY <2>1 DEF StoreProvision, Born, RowsInv, CatTypeOK
      <3> QED
        BY <2>0, <3>1, RowAges
    <2>2. ASSUME UNCHANGED <<resource, value>> PROVE Ages
      BY <2>0, <2>2, NothingAges
    <2> QED
      BY <1>2, <2>0, <2>1, <2>2
         DEF ProvisionStep, CheckProvision, CheckDuplicate, RejectProvision, StampsStart
  <1>3. CASE ResourceStep
    <2>0. UNCHANGED <<definition, field, request, cache>>
      BY <1>3 DEF ResourceStep
    <2>1. ASSUME NEW q \in Resources, NEW a \in Aliases, UpdateResourceIdentity(q, a) PROVE Ages
      <3>1. Exists(q) /\ \E row : Touching(q, row)
        BY <2>1, RowTouched DEF UpdateResourceIdentity, CanTouch
      <3> QED
        BY <2>0, <2>1, <3>1, TouchAges DEF UpdateResourceIdentity
    <2>2. ASSUME NEW q \in Resources, NEW st \in Statuses, SetResourceStatus(q, st) PROVE Ages
      <3>1. Exists(q) /\ \E row : Touching(q, row)
        BY <2>2, RowTouched DEF SetResourceStatus, CanTouch
      <3> QED
        BY <2>0, <2>2, <3>1, TouchAges DEF SetResourceStatus
    <2>3. ASSUME NEW q \in Resources, StoreValue(q) PROVE Ages
      BY <2>0, <2>3, StoreValueAges DEF StoreValue
    <2>4. ASSUME NEW q \in Resources, DeleteValue(q) PROVE Ages
      <3>1. reverted' /\ resource' = resource /\ \A r \in Resources \ {q} : value'[r] = value[r]
        BY <2>4 DEF DeleteValue, Written, RowsInv, CatTypeOK
      <3>2. resource[q].stamp \in Nat /\ (Born(q)' <=> Born(q)) /\ (Exists(q)' <=> Exists(q))
        BY <3>1 DEF RowsInv, CatTypeOK, Resource, Born, Exists
      <3> QED
        BY <2>0, <3>1, <3>2, RowAges
    <2>5. ASSUME UNCHANGED <<resource, value, reverted>> PROVE Ages
      BY <2>0, <2>5, NothingAges
    <2>6. ASSUME NEW q \in Resources, DeleteResource(q) PROVE Ages
      <3>1. reverted' = reverted /\ Exists(q) /\ ~HasDependents(q)
            /\ \A r \in Resources \ {q} : resource'[r] = resource[r] /\ value'[r] = value[r]
        BY <2>6 DEF DeleteResource, RowsInv, CatTypeOK
      <3>2. /\ resource'[q].status = "gone" /\ resource'[q].def = resource[q].def
            /\ resource'[q].source = resource[q].source /\ resource'[q].alias = resource[q].alias
            /\ resource'[q].stamp = resource[q].stamp /\ resource[q].stamp \in Nat
        BY <2>6 DEF DeleteResource, RowsInv, CatTypeOK, Resource
      <3>3. Born(q)' /\ ~Exists(q)'
        BY <3>2 DEF Born, Exists, Statuses
      <3> QED
        BY <2>0, <3>1, <3>2, <3>3, RowAges
    <2> QED
      BY <1>3, <2>0, <2>1, <2>2, <2>3, <2>4, <2>5, <2>6
         DEF ResourceStep, StampsStart, UpdateResourceField, ClearResourceFieldOverride, RollBackEdit
  <1>4. ASSUME NEW t \in Tenants, RemoveTenant(t) PROVE Ages /\ StampsStart' /\ UNCHANGED <<request, cache>>
    <2>0. UNCHANGED <<definition, field, reverted, request, cache>>
      BY <1>4 DEF RemoveTenant
    <2>1. \A r \in Resources :
            /\ resource'[r].def = resource[r].def /\ resource'[r].source = resource[r].source
            /\ resource'[r].alias = resource[r].alias /\ resource'[r].stamp = resource[r].stamp
            /\ resource[r].stamp \in Nat
            /\ Born(r) => Born(r)'
            /\ Exists(r)' => Exists(r) /\ resource[r].tenant # t
            /\ resource[r].tenant # t => value'[r] = value[r]
      BY <1>4 DEF RemoveTenant, RowsInv, CatTypeOK, Resource, Born, Exists, Statuses
    <2>2. \A d : FieldsOf(d)' = FieldsOf(d)
      BY <2>0 DEF FieldsOf
    <2>3. \A r \in Resources : Exists(r)' => ShownValues(r)' = ShownValues(r)
      BY <2>0, <2>1, <2>2, SourceExists, ShownStays
    <2>4. \A d \in Definitions : definition[d].stamp <= definition'[d].stamp
      BY <2>0 DEF RowsInv, CatTypeOK, Definition
    <2>5. Ages
      BY <2>0, <2>1, <2>3, <2>4 DEF Ages
    <2> QED
      BY <2>0, <2>5 DEF StampsStart
  <1>5. CASE ConsumerWriteStep
    BY <1>5, NothingAges DEF ConsumerWriteStep, StampsStart
  <1> QED
    BY <1>1, <1>2, <1>3, <1>4, <1>5, DefinitionStepAges DEF AdminNext
\* The headers a request reads carry the present marks.
LEMMA HeadersFit ==
  ASSUME RowsInv, NEW t
  PROVE  /\ DOMAIN Headers(t) = ActiveResources(t) /\ ActiveResources(t) \subseteq Resources
         /\ \A r \in ActiveResources(t) :
              /\ Exists(r) /\ HeadFits(r, Headers(t)[r])
              /\ Headers(t)[r].alias = resource[r].alias /\ Headers(t)[r].mark = Mark(r)
  <1>1. /\ DOMAIN Headers(t) = ActiveResources(t) /\ ActiveResources(t) \subseteq Resources
        /\ \A r \in ActiveResources(t) :
             Headers(t)[r].alias = resource[r].alias /\ Headers(t)[r].mark = Mark(r)
    BY DEF Headers, ActiveResources
  <1>2. ASSUME NEW r \in ActiveResources(t) PROVE Exists(r) /\ HeadFits(r, Headers(t)[r])
    <2>1. r \in Resources /\ Exists(r) /\ Born(r)
      BY DEF ActiveResources, Exists, Born, Statuses
    <2>2. /\ resource[r].stamp \in Nat /\ definition[resource[r].def].stamp \in Nat
          /\ SourceStamp(r) \in Nat
      BY <2>1, StampsAreNumbers
    <2>3. MarkFits(r, Mark(r))
      BY <2>1, <2>2 DEF MarkFits, Mark
    <2> QED
      BY <1>1, <2>1, <2>3 DEF HeadFits
  <1> QED
    BY <1>1, <1>2

\* A consumer that reads tenant, headers and values keeps what fits.
LEMMA ResolveStepFits ==
  ASSUME RowsInv, ConsumerInv, ResolveStep
  PROVE  ConsumerInv'
  <1>0. UNCHANGED <<definition, field, resource, value>> /\ StampsStart'
    BY DEF ResolveStep, ConsumerInv, StampsStart
  <1>1. /\ \A r : Born(r)' <=> Born(r)
        /\ \A r : Exists(r)' <=> Exists(r)
        /\ \A r : ShownValues(r)' = ShownValues(r)
        /\ \A r : Mark(r)' = Mark(r)
        /\ \A r, m : MarkFits(r, m)' <=> MarkFits(r, m)
        /\ \A r, head : HeadFits(r, head)' <=> HeadFits(r, head)
    BY <1>0 DEF Born, Exists, ShownValues, Shown, Effective, Inherited, FieldsOf, Mark, MarkFits,
                HeadFits, SourceStamp
  <1>2. ASSUME UNCHANGED <<cache, reverted>> PROVE CacheFits'
    <2>1. \A r, m, answer : AnswerFits(r, m, answer)' <=> AnswerFits(r, m, answer)
      BY <1>0, <1>1, <1>2 DEF AnswerFits
    <2> QED
      BY <1>2, <2>1 DEF ConsumerInv, CacheFits
  <1>3. ASSUME NEW t \in Tenants, ReadTenant(t) PROVE ConsumerInv'
    <2>1. RequestFits'
      BY <1>3 DEF ReadTenant, RequestFits
    <2> QED
      BY <1>0, <1>2, <1>3, <2>1 DEF ReadTenant, ConsumerInv
  <1>4. CASE NotModified
    BY <1>0, <1>2, <1>4 DEF NotModified, ConsumerInv, RequestFits
  <1>5. CASE ReadHeaders
    <2> DEFINE H == Headers(request.tenant)
    <2>1. request # None /\ request = [tenant |-> request.tenant, slug |-> request.slug,
                                       stamp |-> request.stamp, heads |-> request.heads]
      BY <1>5 DEF ReadHeaders, ConsumerInv, RequestFits
    <2>2. request' = [request EXCEPT !.heads = H]
      BY <1>5 DEF ReadHeaders
    <2>3. DOMAIN H \subseteq Resources /\ \A r \in DOMAIN H : HeadFits(r, H[r])
      BY HeadersFit
    <2> HIDE DEF H
    <2>4. request' = [tenant |-> request.tenant, slug |-> request.slug, stamp |-> request.stamp, heads |-> H]
      BY <2>1, <2>2
    <2>5. RequestFits'
      BY <1>1, <2>3, <2>4 DEF RequestFits
    <2> QED
      BY <1>0, <1>2, <1>5, <2>5 DEF ReadHeaders, ConsumerInv
  <1>6. CASE ReadValues
    <2> DEFINE H == request.heads
               M == [r \in DOMAIN H |-> H[r].mark]
               A == [r \in DOMAIN H |-> <<H[r].alias, ShownValues(r)>>]
    <2>1. DOMAIN H \subseteq Resources /\ \A r \in DOMAIN H : HeadFits(r, H[r])
      BY <1>6 DEF ReadValues, ConsumerInv, RequestFits
    <2>2. request' = None /\ reverted' = FALSE /\ cache'.tag.marks = M /\ cache'.resources = A
      BY <1>6 DEF ReadValues, RequestTag, ComputeETag, Answer
    <2>3. ASSUME NEW r \in DOMAIN H, NEW m, NEW a, m = H[r].mark, a = <<H[r].alias, ShownValues(r)>>
          PROVE  AnswerFits(r, m, a)'
      <3>1. HeadFits(r, H[r])
        BY <2>1
      <3>2. MarkFits(r, m) /\ (m[2] = resource[r].stamp => H[r].alias = resource[r].alias)
        BY <2>3, <3>1 DEF HeadFits
      <3>3. MarkFits(r, m)'
        BY <1>1, <3>2
      <3>4. m = Mark(r) => m[2] = resource[r].stamp
        BY DEF Mark
      <3>5. m = Mark(r)' => a = <<resource'[r].alias, ShownValues(r)'>>
        BY <1>0, <1>1, <2>3, <3>2, <3>4
      <3> QED
        BY <3>3, <3>5 DEF AnswerFits
    <2>4. /\ DOMAIN M = DOMAIN H /\ A = [r \in DOMAIN M |-> A[r]]
          /\ \A r \in DOMAIN H : M[r] = H[r].mark /\ A[r] = <<H[r].alias, ShownValues(r)>>
      OBVIOUS
    <2> HIDE DEF M, A, H
    <2>5. CacheFits'
      BY <2>1, <2>2, <2>3, <2>4 DEF CacheFits
    <2> QED
      BY <1>0, <2>2, <2>5 DEF ConsumerInv, RequestFits
  <1> QED
    BY <1>3, <1>4, <1>5, <1>6 DEF ResolveStep

\* What consumers keep goes on fitting, whoever takes the next step.
LEMMA ConsumersInductive == RowsInv /\ RowsInv' /\ ConsumerInv /\ [Next]_vars => ConsumerInv'
  <1> SUFFICES ASSUME RowsInv, RowsInv', ConsumerInv, [Next]_vars PROVE ConsumerInv'
    OBVIOUS
  <1>1. CASE UNCHANGED vars
    <2>1. UNCHANGED <<definition, field, resource, value, reverted, request, cache>>
      BY <1>1 DEF vars
    <2>2. Ages /\ StampsStart'
      BY <2>1, NothingAges DEF ConsumerInv, StampsStart
    <2> QED
      BY <2>1, <2>2, AgingKeeps
  <1>2. CASE AdminNext \/ ConsumerWriteStep
    BY <1>2, OthersAge, AgingKeeps DEF ConsumerInv
  <1> QED
    BY <1>1, <1>2, ResolveStepFits DEF Next

\* What consumers keep fits the rows in every reachable state.
THEOREM ConsumersInvariant == Spec => []ConsumerInv
  <1>1. Init => ConsumerInv
    BY DEF Init, CatInit, ConsumerInv, StampsStart, RequestFits, CacheFits, NoDefinition
  <1> QED
    BY <1>1, ConsumersInductive, RowsInvariant, PTL DEF Spec

\* A 304 may be trusted: under unchanged marks the kept answer is the present one,
\* although tenant, headers and values are read one after the other.
THEOREM UnchangedTagIsCurrent == Spec => []NotModifiedIsCurrent
  <1>1. ASSUME RowsInv, ConsumerInv PROVE NotModifiedIsCurrent
    <2> DEFINE t == cache.tag.tenant[1]
               H == Headers(t)
               M == cache.tag.marks
    <2> SUFFICES ASSUME cache # None, ~reverted, M = [r \in DOMAIN H |-> H[r].mark]
                 PROVE  cache.resources = Answer(H)
      BY DEF NotModifiedIsCurrent
    <2>1. /\ \A r \in DOMAIN H : /\ Exists(r) /\ H[r].alias = resource[r].alias
                                 /\ H[r].mark = Mark(r)
      BY <1>1, HeadersFit
    <2>2. cache.resources = [r \in DOMAIN M |-> cache.resources[r]]
          /\ \A r \in DOMAIN M : AnswerFits(r, M[r], cache.resources[r])
      BY <1>1 DEF ConsumerInv, CacheFits
    <2> HIDE DEF H, M
    <2>3. DOMAIN M = DOMAIN H /\ \A r \in DOMAIN H : M[r] = H[r].mark
      OBVIOUS
    <2>4. \A r \in DOMAIN H : cache.resources[r] = <<H[r].alias, ShownValues(r)>>
      BY <2>1, <2>2, <2>3 DEF AnswerFits
    <2> QED
      BY <2>2, <2>3, <2>4 DEF Answer
  <1> QED
    BY <1>1, ConsumersInvariant, RowsInvariant, PTL
=============================================================================
