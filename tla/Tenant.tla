------------------------------- MODULE Tenant -------------------------------
(***************************************************************************)
(* Which organization a host is served for, and what work done for one     *)
(* organization may read and write (platform/tenant.py, models/domain.py,  *)
(* the organization and domain routes of admin.py and manage.py, the TLS   *)
(* check of main.py).  A host is the base domain, a label under it, or a   *)
(* name of its own; a piece of work is a request, a job or a command.      *)
(***************************************************************************)
EXTENDS Naturals, FiniteSets

CONSTANTS
  Orgs,         \* organizations, each at the label of its slug
  ReservedLabels, \* labels no organization may have
  Names,        \* custom domains
  Rows,         \* rows of OrgScoped tables
  Absent        \* no organization, no owner

TenantAssumption == IsFiniteSet(Orgs) /\ Absent \notin Orgs
ASSUME TenantAssumption

VARIABLES
  status,       \* status[o]: "none", "active" or "suspended" (archived alike)
  domain,       \* domain[n]: the row of org_domain for n
  owner,        \* owner[x]: org_id of row x, Absent when there is no such row
  work          \* the session of the piece of work under way

tenancy == <<status, domain, owner, work>>

Unclaimed == [of |-> Absent, active |-> FALSE]
NoWork == [at |-> "idle", kind |-> "cli", org |-> Absent, loaded |-> {},
           org_id |-> [x \in Rows |-> Absent], new |-> {}, dirty |-> {}, deleted |-> {}]

TenantInit ==
  /\ status = [o \in Orgs |-> "none"]
  /\ domain = [n \in Names |-> Unclaimed]
  /\ owner = [x \in Rows |-> Absent]
  /\ work = NoWork

-----------------------------------------------------------------------------
(* Hosts *)

Labels == {o \in Orgs : status[o] # "none"}
Active == {o \in Orgs : status[o] = "active"}
Hosts == {<<"base">>} \union {<<"label", s>> : s \in Orgs \union ReservedLabels}
                      \union {<<"name", n>> : n \in Names}

\* _org_from_subdomain_of, OrgDomain.resolve.
OfLabel(s) == IF s \in Labels \ ReservedLabels THEN s ELSE Absent
OfName(n) == IF domain[n].active THEN domain[n].of ELSE Absent

\* _sole_active_org: none where there are many.
SoleActive == IF Cardinality(Active) = 1 THEN CHOOSE o \in Active : TRUE ELSE Absent

Named(host) == CASE host[1] = "base" -> SoleActive
                 [] host[1] = "label" -> OfLabel(host[2])
                 [] host[1] = "name" -> OfName(host[2])

\* resolve_tenant: a suspended organization answers that it is gone.
Served(host) == IF Named(host) \in Active THEN Named(host) ELSE Absent

\* tls_check and org_for_host: the base domain always, otherwise the hosts of
\* active organizations.
Certified(host) == host[1] = "base" \/ Named(host) \in Active

\* Fault: whether others are active is not asked.
OrgUrlBare(o) == IF status[o] = "active" THEN <<"base">> ELSE <<"label", o>>

\* org_url: the base domain for the only active organization.
OrgUrl(o) == IF Cardinality(Active) = 1 /\ status[o] = "active" THEN <<"base">> ELSE <<"label", o>>

-----------------------------------------------------------------------------
(* Organizations and their domains *)

\* Organization.validate: a label of its own, none of the reserved ones.
Provision(o) ==
  /\ status[o] = "none" /\ o \notin ReservedLabels
  /\ status' = [status EXCEPT ![o] = "active"]
  /\ UNCHANGED <<domain, owner, work>>

\* suspend and archive, reactivate.
Suspend(o) ==
  /\ o \in Active
  /\ status' = [status EXCEPT ![o] = "suspended"]
  /\ UNCHANGED <<domain, owner, work>>

Reactivate(o) ==
  /\ status[o] = "suspended"
  /\ status' = [status EXCEPT ![o] = "active"]
  /\ UNCHANGED <<domain, owner, work>>

\* domains: by an organization that is served; a name is claimed once.
ClaimName(o, n) ==
  /\ o \in Active /\ domain[n].of = Absent
  /\ domain' = [domain EXCEPT ![n] = [of |-> o, active |-> FALSE]]
  /\ UNCHANGED <<status, owner, work>>

ActivateName(n) ==
  /\ domain[n].of # Absent
  /\ domain' = [domain EXCEPT ![n].active = TRUE]
  /\ UNCHANGED <<status, owner, work>>

\* delete_domain: one's own, or any from the console.
DropName(n) ==
  /\ domain[n].of # Absent
  /\ domain' = [domain EXCEPT ![n] = Unclaimed]
  /\ UNCHANGED <<status, owner, work>>

-----------------------------------------------------------------------------
(* Scope *)

\* A request for a host, a job of an organization (org_scope) or of none, and
\* the command line; Absent is also a request for an installation path.
BeginWork(kind, o) ==
  /\ work.at = "idle"
  /\ kind = "cli" => o = Absent
  /\ kind = "request" => o \in Active \union {Absent}
  /\ kind = "job" => o \in Labels \union {Absent}
  /\ work' = [NoWork EXCEPT !.at = "open", !.kind = kind, !.org = o]
  /\ UNCHANGED <<status, domain, owner>>

There(x) == owner[x] # Absent

\* _apply_tenant_filter: selects see the rows of the organization in force; all
\* of them under unscoped(), through a relationship, or with no organization.
Select(x, unfiltered) ==
  /\ work.at = "open" /\ There(x) /\ x \notin work.loaded
  /\ unfiltered \/ work.org = Absent \/ owner[x] = work.org
  /\ work' = [work EXCEPT !.loaded = @ \union {x}, !.org_id[x] = owner[x]]
  /\ UNCHANGED <<status, domain, owner>>

\* The work makes, changes or removes rows in its session, org_id included.
Add(x, o) ==
  /\ work.at = "open" /\ ~There(x) /\ x \notin work.new
  /\ work' = [work EXCEPT !.new = @ \union {x}, !.org_id[x] = o]
  /\ UNCHANGED <<status, domain, owner>>

Change(x, o) ==
  /\ work.at = "open" /\ x \in work.loaded \ work.deleted
  /\ work' = [work EXCEPT !.dirty = @ \union {x}, !.org_id[x] = o]
  /\ UNCHANGED <<status, domain, owner>>

Remove(x) ==
  /\ work.at = "open" /\ x \in work.loaded
  /\ work' = [work EXCEPT !.deleted = @ \union {x}, !.dirty = @ \ {x}]
  /\ UNCHANGED <<status, domain, owner>>

\* Fault: the guard asks the row as it reads now.
OrgIdNow(x) == work.org_id[x]

\* _persisted_org_id: the one the row was loaded with.
PersistedOrgId(x) == owner[x]

\* _stamp_org, and the column that may not be null.
StampedOrg(x) == IF x \in work.new /\ work.org_id[x] = Absent THEN work.org ELSE work.org_id[x]
Guarded == work.org # Absent \/ work.kind = "request"
Violates ==
  \/ Guarded /\ \E x \in work.new : StampedOrg(x) = Absent \/ (work.org # Absent /\ StampedOrg(x) # work.org)
  \/ work.org # Absent /\ \E x \in work.dirty \union work.deleted : PersistedOrgId(x) # work.org

Commit ==
  /\ work.at = "open"
  /\ ~Violates /\ \A x \in work.new \union work.dirty : StampedOrg(x) # Absent
  /\ owner' = [x \in Rows |-> IF x \in work.deleted THEN Absent
                              ELSE IF x \in work.new \union work.dirty THEN StampedOrg(x) ELSE owner[x]]
  /\ work' = NoWork
  /\ UNCHANGED <<status, domain>>

\* A TenantViolation, any other exception, or nothing to write.
Rollback ==
  /\ work.at = "open"
  /\ work' = NoWork
  /\ UNCHANGED <<status, domain, owner>>

Kinds == {"request", "job", "cli"}

Hosting ==
  \/ \E o \in Orgs : Provision(o) \/ Suspend(o) \/ Reactivate(o) \/ \E n \in Names : ClaimName(o, n)
  \/ \E n \in Names : ActivateName(n) \/ DropName(n)

Working ==
  \/ \E kind \in Kinds, o \in Orgs \union {Absent} : BeginWork(kind, o)
  \/ \E x \in Rows : \/ \E unfiltered \in BOOLEAN : Select(x, unfiltered)
                     \/ \E o \in Orgs \union {Absent} : Add(x, o) \/ Change(x, o)
                     \/ Remove(x)
  \/ Commit \/ Rollback

TenantNext == Hosting \/ Working
TenantSpec == TenantInit /\ [][TenantNext]_tenancy

-----------------------------------------------------------------------------
(* Properties *)

\* Every absolute link the application makes to an organization that is active
\* leads to it, as organizations come, are suspended and come back; and no
\* certificate is asked for a host that would then be refused.
LinksLand ==
  /\ \A o \in Active : Served(OrgUrl(o)) = o
  /\ \A host \in Hosts : Certified(host) /\ host[1] # "base" => Served(host) # Absent

\* Work done for an organization changes and removes rows of its own only, and
\* what it makes is its own: also for rows it came by unfiltered, and whatever
\* it has set their org_id to in its session.
TenantKept ==
  [][\A x \in Rows : (owner'[x] # owner[x] /\ work.org # Absent) =>
       owner[x] = work.org \/ (owner[x] = Absent /\ owner'[x] = work.org)]_tenancy
=============================================================================
