-------------------------- MODULE ResourceCatalog --------------------------
(***************************************************************************)
(* Resource definitions, tenant resources and their values, and the        *)
(* consumer endpoints that read and write them (service/provision.go,      *)
(* resource_update.go, resource_fields.go, resolve.go, httpapi/admin.go,   *)
(* admin_actions.go, consumer.go and the queries behind them).             *)
(*                                                                         *)
(* A resource may be linked to a source resource whose values it inherits  *)
(* where it has no value of its own.  Consumers resolve a tenant in three  *)
(* statements (tenant, headers, values), keep the answer with its ETag and *)
(* revalidate it; provisioning and consumer writes check first and store   *)
(* in a later statement.  Storing or clearing a value locks the resource's *)
(* row but not the field's, whose flags it reads before it writes, so it   *)
(* takes two steps as well.  Every other operation is one step.            *)
(***************************************************************************)
EXTENDS TenantDirectory

CONSTANTS
  Definitions,          \* resource_definitions; a definition's key is its identity
  Fields,               \* identities of resource_fields rows
  Keys,                 \* field keys
  FieldKinds,           \* the (required, secret) flags fields are added with
  Resources,            \* identities of tenant_resources rows
  Aliases,              \* resource aliases (normalised)
  Values,               \* non-empty values the field's data type accepts
  Empty,                \* the empty string
  MaxDefinitionStamp,   \* bound: touches of one definition row
  MaxResourceTouches    \* bound: touches of all resource rows together

ASSUME CatalogAssumption ==
  /\ None \notin Definitions \cup Keys \cup Resources \cup Aliases \cup Values \cup {Empty}
  /\ Empty \notin Values
  /\ FieldKinds \subseteq BOOLEAN \X BOOLEAN
  /\ MaxDefinitionStamp \in Nat
  /\ MaxResourceTouches \in Nat

VARIABLES
  definition,  \* resource_definitions
  field,       \* resource_fields
  resource,    \* tenant_resources
  value,       \* tenant_resource_values: per resource and field, None is no row
  provision,   \* a provisioning transaction that has validated its input, or None
  edit,        \* per resource, the transaction that holds its row lock to
               \* store or clear one value, or None
  write,       \* a consumer write that has passed its checks, or None
  request,     \* a resolve request in progress, or None
  cache,       \* the answer and ETag the consumer keeps, or None
  reverted,    \* history: an override was cleared since cache was read
  strict       \* history: fields required since before any resource had them

catVars == <<definition, field, resource, value, provision, edit, write, request, cache,
             reverted, strict>>
catalog == <<definition, field, resource, value>>
vars == <<tenant, domain, definition, field, resource, value, provision, edit, write,
          request, cache, reverted, strict>>

Ext == INSTANCE FiniteSetsExt

-----------------------------------------------------------------------------
(* Types *)

Stored == Values \cup {Empty, None}

Definition == [status : Statuses \cup {"unborn", "gone"}, stamp : Nat]

Field == [state : {"unborn", "live", "gone"}, def : Definitions \cup {None},
          key : Keys \cup {None}, required : BOOLEAN, secret : BOOLEAN]

Resource == [status : Statuses \cup {"unborn", "gone"}, tenant : Tenants \cup {None},
             def : Definitions \cup {None}, alias : Aliases \cup {None},
             source : Resources \cup {None}, stamp : Nat]

Provision == [tenant : Tenants, def : Definitions, alias : Aliases,
              source : Resources \cup {None}, given : [Fields -> Stored]]

\* The flag as it was read, and the value to store; None deletes the value.
Edit == [field : Fields, required : BOOLEAN, to : Stored]

Write == [tenant : Tenants, resource : Resources, key : Keys, value : Values \cup {Empty}]

NoDefinition == [status |-> "unborn", stamp |-> 0]

NoField == [state |-> "unborn", def |-> None, key |-> None, required |-> FALSE, secret |-> FALSE]

NoResource == [status |-> "unborn", tenant |-> None, def |-> None, alias |-> None,
               source |-> None, stamp |-> 0]

NoValues == [f \in Fields |-> None]

CatTypeOK ==
  /\ definition \in [Definitions -> Definition]
  /\ field \in [Fields -> Field]
  /\ resource \in [Resources -> Resource]
  /\ value \in [Resources -> [Fields -> Stored]]
  /\ provision \in Provision \cup {None}
  /\ edit \in [Resources -> Edit \cup {None}]
  /\ write \in Write \cup {None}
  /\ reverted \in BOOLEAN
  /\ strict \in SUBSET Fields

CatInit ==
  /\ definition = [d \in Definitions |-> NoDefinition]
  /\ field = [f \in Fields |-> NoField]
  /\ resource = [r \in Resources |-> NoResource]
  /\ value = [r \in Resources |-> NoValues]
  /\ provision = None
  /\ edit = [r \in Resources |-> None]
  /\ write = None
  /\ request = None
  /\ cache = None
  /\ reverted = FALSE
  /\ strict = {}

Init == DirInit /\ CatInit

-----------------------------------------------------------------------------
(* Reading the catalogue *)

Known(d) == definition[d].status \in Statuses

Exists(r) == resource[r].status \in Statuses

FieldsOf(d) == {f \in Fields : field[f].state = "live" /\ field[f].def = d}

Inherited(r, f) == IF resource[r].source = None THEN None ELSE value[resource[r].source][f]

\* ListResourceFieldValuesByResourceIDs: the local value, else the source's.
Effective(r, f) == IF value[r][f] # None THEN value[r][f] ELSE Inherited(r, f)

\* A missing value is presented as the empty string (BuildResourceFieldsBatch).
Shown(r, f) == IF Effective(r, f) = None THEN Empty ELSE Effective(r, f)

AliasFree(t, a, r) ==                                   \* uq_tenant_resource_alias
  \A q \in Resources \ {r} : Exists(q) /\ resource[q].tenant = t => resource[q].alias # a

Unlocked(r) == edit[r] = None

HasDependents(r) == \E q \in Resources : Exists(q) /\ resource[q].source = r

-----------------------------------------------------------------------------
(* Definitions and fields *)

CreateDefinition(d) ==
  /\ definition[d].status = "unborn"
  /\ definition' = [definition EXCEPT ![d] = [status |-> "active", stamp |-> 1]]
  /\ UNCHANGED <<field, resource, value, strict>>

TouchedDefinition(d) == [definition EXCEPT ![d].stamp = @ + 1]

CanTouchDefinition(d) == Known(d) /\ definition[d].stamp < MaxDefinitionStamp

SetDefinitionStatus(d, st) ==
  /\ CanTouchDefinition(d)
  /\ definition' = [TouchedDefinition(d) EXCEPT ![d].status = st]
  /\ UNCHANGED <<field, resource, value, strict>>

\* Name and description only; neither is part of what consumers see.
UpdateDefinition(d) ==
  /\ CanTouchDefinition(d)
  /\ definition' = TouchedDefinition(d)
  /\ UNCHANGED <<field, resource, value, strict>>

\* tenant_resources keeps its definition (409 definition_in_use); fields cascade.
DeleteDefinition(d) ==
  /\ Known(d)
  /\ \A r \in Resources : Exists(r) => resource[r].def # d
  /\ definition' = [definition EXCEPT ![d].status = "gone"]
  /\ field' = [f \in Fields |-> IF f \in FieldsOf(d) THEN [field[f] EXCEPT !.state = "gone"]
                                ELSE field[f]]
  /\ UNCHANGED <<resource, value, strict>>

InUse(d) ==
  \/ \E r \in Resources : Exists(r) /\ resource[r].def = d
  \/ provision # None /\ provision.def = d

AddField(d, f, k, req, sec) ==
  /\ CanTouchDefinition(d)
  /\ field[f].state = "unborn"
  /\ \A g \in FieldsOf(d) : field[g].key # k            \* UNIQUE (definition, key)
  /\ field' = [field EXCEPT ![f] = [state |-> "live", def |-> d, key |-> k,
                                    required |-> req, secret |-> sec]]
  /\ definition' = TouchedDefinition(d)
  /\ strict' = IF req /\ ~InUse(d) THEN strict \cup {f} ELSE strict
  /\ UNCHANGED <<resource, value>>

\* Label and required; is_secret cannot be changed.
UpdateField(f, req) ==
  /\ field[f].state = "live"
  /\ CanTouchDefinition(field[f].def)
  /\ field' = [field EXCEPT ![f].required = req]
  /\ definition' = TouchedDefinition(field[f].def)
  /\ strict' = IF req THEN strict ELSE strict \ {f}
  /\ UNCHANGED <<resource, value>>

\* Mutant: a field is removed while values of it are stored.
DeleteFieldInUse(f) ==
  /\ field[f].state = "live"
  /\ CanTouchDefinition(field[f].def)
  /\ field' = [field EXCEPT ![f].state = "gone"]
  /\ definition' = TouchedDefinition(field[f].def)
  /\ strict' = strict \ {f}
  /\ UNCHANGED <<resource, value>>

\* The values' foreign key refuses while any value of the field is stored.
DeleteField(f) ==
  /\ field[f].state = "live"
  /\ CanTouchDefinition(field[f].def)
  /\ \A r \in Resources : value[r][f] = None
  /\ field' = [field EXCEPT ![f].state = "gone"]
  /\ definition' = TouchedDefinition(field[f].def)
  /\ strict' = strict \ {f}
  /\ UNCHANGED <<resource, value>>

DefinitionStep ==
  /\ UNCHANGED <<tenant, domain, provision, edit, write, request, cache, reverted>>
  /\ \/ \E d \in Definitions :
          \/ CreateDefinition(d)
          \/ UpdateDefinition(d)
          \/ DeleteDefinition(d)
          \/ \E st \in Statuses : SetDefinitionStatus(d, st)
          \/ \E f \in Fields, k \in Keys, kind \in FieldKinds :
               AddField(d, f, k, kind[1], kind[2])
     \/ \E f \in Fields : DeleteField(f) \/ \E req \in BOOLEAN : UpdateField(f, req)

-----------------------------------------------------------------------------
(* Provisioning: provisionResource validates, then inserts *)

\* GetResourceForLink and the conditions on the source.
LinkableSource(s, t, d) ==
  /\ resource[s].status = "active"
  /\ resource[s].tenant = t
  /\ resource[s].def = d
  /\ resource[s].source = None

\* Mutant: only the keys that were sent are looked at.
RequiredMetIfGiven(d, s, given) ==
  \A f \in FieldsOf(d) : field[f].required => given[f] # Empty

\* A required field needs a non-empty value, or a row of the source.
RequiredMet(d, s, given) ==
  \A f \in FieldsOf(d) : field[f].required =>
    given[f] \notin {None, Empty} \/ (s # None /\ value[s][f] # None)

\* Input for the fields of d; any key may be left out or given as the empty string.
Inputs(d) == {g \in [Fields -> Stored] : \A f \in Fields \ FieldsOf(d) : g[f] = None}

CheckProvision(t, d, s, a, given) ==
  /\ provision = None
  /\ definition[d].status = "active"
  /\ s # None => LinkableSource(s, t, d)
  /\ RequiredMet(d, s, given)
  /\ provision' = [tenant |-> t, def |-> d, alias |-> a, source |-> s, given |-> given]
  /\ UNCHANGED <<resource, value>>

\* DuplicateResourceInTx: the non-empty effective values become the input of
\* an unlinked resource.
CheckDuplicate(r, a) ==
  /\ Exists(r)
  /\ LET d == resource[r].def
         snapshot == [f \in Fields |-> IF f \in FieldsOf(d) /\ Shown(r, f) # Empty
                                       THEN Shown(r, f) ELSE None]
     IN CheckProvision(resource[r].tenant, d, None, a, snapshot)

\* Mutant: the insert trusts the source that was validated earlier.
SourceStillSoundAssumed(p) == TRUE

\* The trigger validate_tenant_resource_source and the foreign key behind it.
SourceStillSound(p) ==
  p.source # None =>
    /\ Exists(p.source)
    /\ resource[p.source].tenant = p.tenant
    /\ resource[p.source].def = p.def
    /\ resource[p.source].source = None

\* What the constraints check when the rows are inserted.
Insertable(p) ==
  /\ Live(p.tenant)
  /\ Known(p.def)
  /\ AliasFree(p.tenant, p.alias, None)
  /\ SourceStillSound(p)
  /\ p.source # None => Unlocked(p.source)       \* KEY SHARE waits for FOR UPDATE
  /\ \A f \in Fields : p.given[f] # None => field[f].state = "live"

StoreProvision(r) ==
  /\ provision # None
  /\ Insertable(provision)
  /\ resource[r].status = "unborn"
  /\ resource' = [resource EXCEPT ![r] =
       [status |-> "active", tenant |-> provision.tenant, def |-> provision.def,
        alias |-> provision.alias, source |-> provision.source, stamp |-> 1]]
  /\ value' = [value EXCEPT ![r] = provision.given]
  /\ provision' = None

\* A violated constraint, a failed audit insert or commit: everything rolls back.
RejectProvision ==
  /\ provision # None
  /\ provision' = None
  /\ UNCHANGED <<resource, value>>

ProvisionStep ==
  /\ UNCHANGED <<tenant, domain, definition, field, edit, write, request, cache, reverted,
                 strict>>
  /\ \/ \E t \in Tenants, d \in Definitions, s \in Resources \cup {None}, a \in Aliases :
          \E given \in Inputs(d) : CheckProvision(t, d, s, a, given)
     \/ \E r \in Resources, a \in Aliases : CheckDuplicate(r, a)
     \/ \E r \in Resources : StoreProvision(r)
     \/ RejectProvision

-----------------------------------------------------------------------------
(* Changing a resource: every operation first locks its row *)

Touches == Ext!MapThenSumSet(LAMBDA r : resource[r].stamp, Resources)

CanTouch(r) == Exists(r) /\ Touches < MaxResourceTouches

Touched(r) == [resource EXCEPT ![r].stamp = @ + 1]

UpdateResourceIdentity(r, a) ==
  /\ CanTouch(r) /\ Unlocked(r)
  /\ AliasFree(resource[r].tenant, a, r)
  /\ resource' = [Touched(r) EXCEPT ![r].alias = a]
  /\ UNCHANGED <<value, edit, reverted>>

SetResourceStatus(r, st) ==
  /\ CanTouch(r) /\ Unlocked(r)
  /\ resource' = [Touched(r) EXCEPT ![r].status = st]
  /\ UNCHANGED <<value, edit, reverted>>

\* The lock on the resource and the flags of its field, read without a lock.
LockFor(r, f, v) ==
  /\ Exists(r) /\ Unlocked(r)
  /\ f \in FieldsOf(resource[r].def)
  /\ edit' = [edit EXCEPT ![r] = [field |-> f, required |-> field[f].required, to |-> v]]

\* UpdateResourceFieldInTx up to its write.
BeginStore(r, f, v) == (field[f].required => v # Empty) /\ LockFor(r, f, v)

UpdateResourceField(r, f, v) ==
  BeginStore(r, f, v) /\ UNCHANGED <<resource, value, reverted>>

\* Mutant: a required field may be cleared whatever the source holds.
MayInheritAlways(r, f) == TRUE

MayInherit(r, f) == field[f].required => Inherited(r, f) # None

\* ClearResourceFieldOverrideInTx up to its delete.
ClearResourceFieldOverride(r, f) ==
  /\ resource[r].source # None
  /\ MayInherit(r, f)
  /\ LockFor(r, f, None)
  /\ UNCHANGED <<resource, value, reverted>>

Written(r) == [value EXCEPT ![r][edit[r].field] = edit[r].to]

\* UpsertResourceValue and commit: the foreign key wants the field, the
\* resource is touched.
StoreValue(r) ==
  /\ ~Unlocked(r) /\ edit[r].to # None
  /\ CanTouch(r)
  /\ field[edit[r].field].state = "live"
  /\ value' = Written(r)
  /\ resource' = Touched(r)
  /\ edit' = [edit EXCEPT ![r] = None]
  /\ UNCHANGED reverted

\* DeleteResourceValue and commit: no row is touched.
DeleteValue(r) ==
  /\ ~Unlocked(r) /\ edit[r].to = None
  /\ value' = Written(r)
  /\ edit' = [edit EXCEPT ![r] = None]
  /\ reverted' = TRUE
  /\ UNCHANGED resource

\* A refused write, a failed audit insert or commit.
RollBackEdit(r) ==
  /\ ~Unlocked(r)
  /\ edit' = [edit EXCEPT ![r] = None]
  /\ UNCHANGED <<resource, value, reverted>>

\* ON DELETE RESTRICT on source_resource_id; values cascade.
DeleteResource(r) ==
  /\ Exists(r) /\ Unlocked(r)
  /\ ~HasDependents(r)
  /\ resource' = [resource EXCEPT ![r].status = "gone"]
  /\ value' = [value EXCEPT ![r] = NoValues]
  /\ UNCHANGED <<edit, reverted>>

ResourceStep ==
  /\ UNCHANGED <<tenant, domain, definition, field, provision, write, request, cache, strict>>
  /\ \E r \in Resources :
       \/ \E a \in Aliases : UpdateResourceIdentity(r, a)
       \/ \E st \in Statuses : SetResourceStatus(r, st)
       \/ \E f \in Fields : \/ ClearResourceFieldOverride(r, f)
                            \/ \E v \in Values \cup {Empty} : UpdateResourceField(r, f, v)
       \/ StoreValue(r) \/ DeleteValue(r) \/ RollBackEdit(r)
       \/ DeleteResource(r)

\* Removing a tenant takes its resources and their values along.
RemoveTenant(t) ==
  /\ DeleteTenant(t)
  /\ \A r \in Resources : Exists(r) /\ resource[r].tenant = t => Unlocked(r)
  /\ resource' = [r \in Resources |-> IF Exists(r) /\ resource[r].tenant = t
                                      THEN [resource[r] EXCEPT !.status = "gone"]
                                      ELSE resource[r]]
  /\ value' = [r \in Resources |-> IF resource[r].tenant = t THEN NoValues ELSE value[r]]
  /\ UNCHANGED <<definition, field, provision, edit, write, request, cache, reverted, strict>>

-----------------------------------------------------------------------------
(* The consumer's write: handleConsumerWriteValue checks outside the *)
(* transaction and looks the field up again by its key inside it.    *)

CheckWrite(t, r, f, v) ==
  /\ write = None
  /\ Live(t)
  /\ resource[r].status = "active"
  /\ resource[r].tenant = t
  /\ f \in FieldsOf(resource[r].def)
  /\ ~field[f].secret
  /\ write' = [tenant |-> t, resource |-> r, key |-> field[f].key, value |-> v]
  /\ UNCHANGED edit

BeginWrite(f) ==
  /\ write # None
  /\ field[f].key = write.key
  /\ BeginStore(write.resource, f, write.value)
  /\ write' = None

\* The resource or the field is gone, or the value is refused.
RejectWrite ==
  /\ write # None
  /\ write' = None
  /\ UNCHANGED edit

ConsumerWriteStep ==
  /\ UNCHANGED <<tenant, domain, definition, field, resource, value, provision, request,
                 cache, reverted, strict>>
  /\ \/ \E t \in Tenants, r \in Resources, f \in Fields, v \in Values \cup {Empty} :
          CheckWrite(t, r, f, v)
     \/ \E f \in Fields : BeginWrite(f)
     \/ RejectWrite

-----------------------------------------------------------------------------
(* Resolving a tenant *)

ActiveResources(t) == {r \in Resources : resource[r].status = "active" /\ resource[r].tenant = t}

SourceStamp(r) == IF resource[r].source = None THEN 0 ELSE resource[resource[r].source].stamp

\* Mutant: the tag leaves out the resource's own updated_at.
MarkNoStamp(r) == <<resource[r].def, definition[resource[r].def].stamp,
                    resource[r].source, SourceStamp(r)>>

\* What computeETag hashes of one resource.
Mark(r) == <<resource[r].def, resource[r].stamp, definition[resource[r].def].stamp,
             resource[r].source, SourceStamp(r)>>

\* ListResourceHeadersByTenant, as far as the tag and the answer use it.
Headers(t) == [r \in ActiveResources(t) |-> [alias |-> resource[r].alias, mark |-> Mark(r)]]

\* computeETag: tenant id, slug and updated_at, and the marks of the resources.
ComputeETag(t, slug, stamp, heads) ==
  [tenant |-> <<t, slug, stamp>>, marks |-> [r \in DOMAIN heads |-> heads[r].mark]]

\* The values query sees the rows as they are when it runs.
ShownValues(r) ==
  IF Exists(r) THEN {<<field[f].key, Shown(r, f)>> : f \in FieldsOf(resource[r].def)} ELSE {}

\* ResolveTenant: aliases from the headers, values from the later statement.
Answer(heads) == [r \in DOMAIN heads |-> <<heads[r].alias, ShownValues(r)>>]

\* TenantBySlug or TenantByHostname.
ReadTenant(t) ==
  /\ request = None
  /\ tenant[t].status = "active"
  /\ request' = [tenant |-> t, slug |-> tenant[t].slug, stamp |-> tenant[t].stamp, heads |-> None]
  /\ UNCHANGED <<cache, reverted>>

RequestTag(heads) == ComputeETag(request.tenant, request.slug, request.stamp, heads)

\* Version, with If-None-Match equal to the tag: the consumer keeps its answer.
NotModified ==
  /\ request # None /\ request.heads = None
  /\ cache # None /\ cache.tag = RequestTag(Headers(request.tenant))
  /\ request' = None
  /\ UNCHANGED <<cache, reverted>>

\* Version with a different tag, or none to compare with.
ReadHeaders ==
  /\ request # None /\ request.heads = None
  /\ cache # None => cache.tag # RequestTag(Headers(request.tenant))
  /\ request' = [request EXCEPT !.heads = Headers(request.tenant)]
  /\ UNCHANGED <<cache, reverted>>

\* ResolveTenant and the 200 answer, tagged with what the headers gave.
ReadValues ==
  /\ request # None /\ request.heads # None
  /\ cache' = [tag |-> RequestTag(request.heads), slug |-> request.slug,
               resources |-> Answer(request.heads)]
  /\ reverted' = FALSE
  /\ request' = None

ResolveStep ==
  /\ UNCHANGED <<tenant, domain, definition, field, resource, value, provision, edit, write,
                 strict>>
  /\ (\E t \in Tenants : ReadTenant(t)) \/ NotModified \/ ReadHeaders \/ ReadValues

-----------------------------------------------------------------------------
(* Directory steps other than the removal of a tenant leave the catalogue alone. *)
DirectoryStep ==
  /\ UNCHANGED catVars
  /\ \/ \E t \in Tenants, s \in Slugs : CreateTenant(t, s)
     \/ \E t \in Tenants, s \in Slugs, st \in Statuses : UpdateTenant(t, s, st)
     \/ \E t \in Tenants, h \in Hosts : AddDomain(t, h) \/ DeleteDomain(t, h)
     \/ \E t \in Tenants, h, g \in Hosts : UpdateDomain(t, h, g)

AdminNext ==
  \/ DirectoryStep
  \/ \E t \in Tenants : RemoveTenant(t)
  \/ DefinitionStep
  \/ ProvisionStep
  \/ ResourceStep

Next == AdminNext \/ ConsumerWriteStep \/ ResolveStep

\* The console with consumers that resolve.
ResolveSpec == Init /\ [][AdminNext \/ ResolveStep]_vars

Spec == Init /\ [][Next]_vars

-----------------------------------------------------------------------------
(* Properties *)

TypeOK == DirTypeOK /\ CatTypeOK

\* Links are one level deep and stay inside a tenant and a definition, and a
\* source never disappears under its dependents, although a provisioning
\* validates its source in an earlier statement than it inserts
\* (tenant_resource_source_contract, ON DELETE RESTRICT).
LinksAreSound ==
  \A r \in Resources : Exists(r) /\ resource[r].source # None =>
    LET s == resource[r].source IN
      /\ Exists(s)
      /\ resource[s].tenant = resource[r].tenant
      /\ resource[s].def = resource[r].def
      /\ resource[s].source = None

\* A stored value belongs to an existing resource and to a live field of that
\* resource's definition, also when fields and definitions are removed while a
\* provisioning is under way.
ValuesBelong ==
  \A r \in Resources, f \in Fields : value[r][f] # None =>
    Exists(r) /\ f \in FieldsOf(resource[r].def)

\* A clear in progress on r that read the flag of f before f became required.
ReadAsOptional(r, f) ==
  /\ edit[r] # None
  /\ edit[r].field = f /\ edit[r].to = None /\ ~edit[r].required

\* No step takes away the effective value of a required field of a resource
\* that remains: clearing an override falls back to a value, and the source
\* keeps it.  One race is left aside: ClearResourceFieldOverrideInTx reads the
\* flag without locking the field, and updateField may set it before the delete.
RequiredKeptStep ==
  \A r \in Resources, f \in Fields :
    (Exists(r) /\ Exists(r)' /\ f \in FieldsOf(resource[r].def) /\ field[f].required
       /\ Effective(r, f) # None /\ ~ReadAsOptional(r, f)) => Effective(r, f)' # None

RequiredNeverLost == [][RequiredKeptStep]_vars

\* A field that was required before any resource had it and has stayed required
\* always has a value, its own or its source's, on every resource of its
\* definition: provisioning validates it statements before it inserts, sources
\* keep what their dependents rely on, and no clear can have read it as optional.
StrictStayFilled ==
  \A r \in Resources : Exists(r) =>
    \A f \in FieldsOf(resource[r].def) \cap strict : Effective(r, f) # None

\* While the marks in the kept ETag are the marks of the present headers, the
\* kept answer is what a full answer would carry now, so that a 304 may be
\* trusted: values of sources, fields, aliases, statuses and removals included,
\* and although tenant, headers and values were read one after the other.
\* Overrides cleared since are set aside (see UnchangedTagUnchangedAnswer).
NotModifiedIsCurrent ==
  (cache # None /\ ~reverted) =>
    LET heads == Headers(cache.tag.tenant[1]) IN
      cache.tag.marks = [r \in DOMAIN heads |-> heads[r].mark] => cache.resources = Answer(heads)

\* docs/developers/03-contratos-http.adoc:171: every change of a tenant,
\* resource, value or field changes the ETag, cleared overrides included.
UnchangedTagUnchangedAnswer ==
  cache # None =>
    LET heads == Headers(cache.tag.tenant[1]) IN
      cache.tag.marks = [r \in DOMAIN heads |-> heads[r].mark] => cache.resources = Answer(heads)
=============================================================================
