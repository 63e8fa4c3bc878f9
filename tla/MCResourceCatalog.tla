------------------------- MODULE MCResourceCatalog -------------------------
(* Small catalogues; identities of resources and aliases are interchangeable. *)
EXTENDS ResourceCatalog, TLC

PlainKinds    == {<<FALSE, FALSE>>, <<TRUE, FALSE>>}
PlainOptional == {<<FALSE, FALSE>>}

Symmetry == Permutations(Resources) \cup Permutations(Aliases)

Born == {r \in Resources : resource[r] # NoResource}

OneTenant ==
  \A t \in Tenants : tenant[t] # NoTenant =>
    /\ t = CHOOSE first \in Tenants : TRUE
    /\ tenant[t].slug = CHOOSE first \in Slugs : TRUE

NobodyReads == request = None /\ cache = None

(* Tenants and hostnames alone. *)
Directory == definition = [d \in Definitions |-> NoDefinition]

Catalogue ==
  /\ domain = [h \in Hosts |-> None]
  /\ \A t \in Tenants : tenant[t].stamp <= 1

(* At most n transactions and reads are under way at once. *)
InFlight(n) ==
  Cardinality({r \in Resources : edit[r] # None}) +
    Cardinality({x \in {"provision", "write", "request"} :
      \/ x = "provision" /\ provision # None
      \/ x = "write" /\ write # None
      \/ x = "request" /\ request # None}) <= n

(* Three resources of a tenant, or two of two, and their links, without fields. *)
Links ==
  /\ Catalogue /\ NobodyReads
  /\ OneTenant \/ Cardinality(Born) <= 2
  /\ field = [f \in Fields |-> NoField]
  /\ \A d \in Definitions : definition[d].stamp <= 2

(* Two resources of one tenant, required and optional fields, a consumer that writes. *)
Writers ==
  /\ Catalogue /\ NobodyReads /\ OneTenant /\ InFlight(2)
  /\ Cardinality(Born) <= 2
  /\ \A d \in Definitions : definition[d].status # "inactive"
  /\ \A r \in Resources : resource[r].status # "inactive"

(* Two resources of one tenant and a consumer that resolves. *)
Readers ==
  /\ Catalogue /\ OneTenant /\ write = None
  /\ InFlight(IF request = None THEN 1 ELSE 2)
  /\ request # None /\ cache # None => request.heads = None /\ InFlight(1)
  /\ request # None => provision = None
  /\ \A r \in Resources, f \in Fields :
       /\ value[r][f] # Empty
       /\ edit[r] # None => edit[r].to # Empty
       /\ provision # None => provision.given[f] # Empty
  /\ \A f \in Fields : ~field[f].required /\ ~field[f].secret
  /\ Cardinality(Born) <= 2
  /\ \A d \in Definitions : definition[d].status # "inactive" /\ definition[d].stamp <= 2

(* One run over the four instances. *)
OneInstance == Directory \/ Links \/ Writers \/ Readers
=============================================================================
