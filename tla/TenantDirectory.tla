-------------------------- MODULE TenantDirectory --------------------------
(***************************************************************************)
(* Tenants and their hostnames (httpapi/admin.go, admin_actions.go,        *)
(* service/resolve.go, store/queries/tenants.sql).                         *)
(*                                                                         *)
(* Every handler commits one transaction, so an operation is one step.     *)
(* updated_at is only ever compared for equality with an earlier reading   *)
(* of the same row, so it is modelled by the number of times the row was   *)
(* touched.  Row identities are UUIDs and are never used twice.  The       *)
(* identify endpoint reads one row and answers its slug under a tag that   *)
(* contains the slug: it keeps no state and is left out.                   *)
(***************************************************************************)
EXTENDS Naturals, FiniteSets

CONSTANTS
  Tenants,         \* identities of tenant rows
  Slugs,           \* tenant slugs (NormalizeTenantSlug accepts them)
  Hosts,           \* canonical hostnames (CanonicalHostname is applied on every path)
  None,            \* SQL NULL
  MaxTenantStamp   \* bound: touches of one tenant row

ASSUME DirectoryAssumption ==
  /\ None \notin Tenants \cup Slugs \cup Hosts
  /\ MaxTenantStamp \in Nat

VARIABLES
  tenant,   \* tenants
  domain    \* tenant_domains: the tenant a hostname is mapped to

dirVars == <<tenant, domain>>

Statuses == {"active", "inactive"}

Tenant == [status : Statuses \cup {"unborn", "gone"}, slug : Slugs \cup {None}, stamp : Nat]

NoTenant == [status |-> "unborn", slug |-> None, stamp |-> 0]

DirTypeOK ==
  /\ tenant \in [Tenants -> Tenant]
  /\ domain \in [Hosts -> Tenants \cup {None}]

DirInit ==
  /\ tenant = [t \in Tenants |-> NoTenant]
  /\ domain = [h \in Hosts |-> None]

-----------------------------------------------------------------------------
(* Administrative operations *)

Live(t) == tenant[t].status \in Statuses

SlugFree(s, t) == \A u \in Tenants \ {t} : Live(u) => tenant[u].slug # s   \* UNIQUE (slug)

CreateTenant(t, s) ==
  /\ tenant[t].status = "unborn"
  /\ SlugFree(s, t)
  /\ tenant' = [tenant EXCEPT ![t] = [status |-> "active", slug |-> s, stamp |-> 1]]
  /\ UNCHANGED domain

UpdateTenant(t, s, st) ==
  /\ Live(t)
  /\ tenant[t].stamp < MaxTenantStamp
  /\ SlugFree(s, t)
  /\ tenant' = [tenant EXCEPT ![t] = [status |-> st, slug |-> s, stamp |-> @.stamp + 1]]
  /\ UNCHANGED domain

\* ON DELETE CASCADE removes the tenant's domains with it.
DeleteTenant(t) ==
  /\ Live(t)
  /\ tenant' = [tenant EXCEPT ![t].status = "gone"]
  /\ domain' = [h \in Hosts |-> IF domain[h] = t THEN None ELSE domain[h]]

AddDomain(t, h) ==
  /\ Live(t)
  /\ domain[h] = None                                     \* UNIQUE (hostname)
  /\ domain' = [domain EXCEPT ![h] = t]
  /\ UNCHANGED tenant

\* Renaming a mapped hostname; the tenant row is not touched.
UpdateDomain(t, h, g) ==
  /\ domain[h] = t
  /\ domain[g] = None
  /\ domain' = [domain EXCEPT ![h] = None, ![g] = t]
  /\ UNCHANGED tenant

DeleteDomain(t, h) ==
  /\ domain[h] = t
  /\ domain' = [domain EXCEPT ![h] = None]
  /\ UNCHANGED tenant

-----------------------------------------------------------------------------
DirNext ==
  \/ \E t \in Tenants, s \in Slugs : CreateTenant(t, s)
  \/ \E t \in Tenants, s \in Slugs, st \in Statuses : UpdateTenant(t, s, st)
  \/ \E t \in Tenants : DeleteTenant(t)
  \/ \E t \in Tenants, h \in Hosts : AddDomain(t, h) \/ DeleteDomain(t, h)
  \/ \E t \in Tenants, h, g \in Hosts : UpdateDomain(t, h, g)

DirSpec == DirInit /\ [][DirNext]_dirVars
=============================================================================
