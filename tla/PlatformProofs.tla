--------------------------- MODULE PlatformProofs ----------------------------
(* Theorems about what organizations are served by: tenancy, for any number of *)
(* organizations, names and rows; uploads, for any number of pictures and      *)
(* uploaders; notices, for any number of members, replies and attempts; a      *)
(* subscriber, for any number of requests; and rate limits, for any callers.   *)
EXTENDS Tenant, Uploads, Notices, Audience, RateLimit, FiniteSetTheorems, TLAPS

-----------------------------------------------------------------------------
(* Tenancy *)

Owners == Orgs \union {Absent}
Session == [at : {"idle", "open"}, kind : Kinds, org : Owners, loaded : SUBSET Rows,
            org_id : [Rows -> Owners], new : SUBSET Rows, dirty : SUBSET Rows, deleted : SUBSET Rows]

TenantTyped ==
  /\ status \in [Orgs -> {"none", "active", "suspended"}]
  /\ domain \in [Names -> [of : Owners, active : BOOLEAN]]
  /\ owner \in [Rows -> Owners]
  /\ work \in Session

\* An organization has a label of its own; what a session adds is not there yet.
TenantInv ==
  /\ TenantTyped
  /\ \A o \in Orgs : status[o] # "none" => o \notin ReservedLabels
  /\ \A x \in work.new : owner[x] = Absent

-----------------------------------------------------------------------------
(* The invariant *)

LEMMA InitTenant == TenantInit => TenantInv
<1> SUFFICES ASSUME TenantInit PROVE TenantInv
  OBVIOUS
<1>1. NoWork \in Session /\ NoWork.new = {}
  BY DEF NoWork, Session, Kinds, Owners
<1>2. Unclaimed \in [of : Owners, active : BOOLEAN]
  BY DEF Unclaimed, Owners
<1> QED
  BY <1>1, <1>2 DEF TenantInit, TenantInv, TenantTyped, Owners

LEMMA HostingStep ==
  ASSUME TenantInv, Hosting
  PROVE  TenantInv'
<1>1. ASSUME NEW o \in Orgs, Provision(o) \/ Suspend(o) \/ Reactivate(o) PROVE TenantInv'
  <2>1. /\ status' \in [Orgs -> {"none", "active", "suspended"}]
        /\ UNCHANGED <<domain, owner, work>>
    BY <1>1 DEF Provision, Suspend, Reactivate, TenantInv, TenantTyped
  <2>2. ASSUME NEW q \in Orgs, status'[q] # "none" PROVE q \notin ReservedLabels
    BY <1>1, <2>2 DEF Provision, Suspend, Reactivate, Active, TenantInv, TenantTyped
  <2> QED
    BY <2>1, <2>2 DEF TenantInv, TenantTyped
<1>2. ASSUME NEW n \in Names, ActivateName(n) \/ DropName(n) \/ \E o \in Orgs : ClaimName(o, n)
      PROVE  TenantInv'
  <2>1. Unclaimed \in [of : Owners, active : BOOLEAN]
    BY DEF Unclaimed, Owners
  <2>2. ASSUME NEW o \in Orgs PROVE [of |-> o, active |-> FALSE] \in [of : Owners, active : BOOLEAN]
    BY DEF Owners
  <2>3. domain' \in [Names -> [of : Owners, active : BOOLEAN]]
    <3>1. CASE ActivateName(n)
      <4>1. [domain[n] EXCEPT !.active = TRUE] \in [of : Owners, active : BOOLEAN]
        BY DEF TenantInv, TenantTyped
      <4> QED
        BY <3>1, <4>1 DEF ActivateName, TenantInv, TenantTyped
    <3>2. CASE DropName(n)
      BY <2>1, <3>2 DEF DropName, TenantInv, TenantTyped
    <3>3. ASSUME NEW o \in Orgs, ClaimName(o, n) PROVE domain' \in [Names -> [of : Owners, active : BOOLEAN]]
      BY <2>2, <3>3 DEF ClaimName, TenantInv, TenantTyped
    <3> QED
      BY <1>2, <3>1, <3>2, <3>3
  <2>4. UNCHANGED <<status, owner, work>>
    BY <1>2 DEF ActivateName, DropName, ClaimName
  <2> QED
    BY <2>3, <2>4 DEF TenantInv, TenantTyped
<1> QED
  BY <1>1, <1>2 DEF Hosting

\* A session changes while the rows stand still.
LEMMA SessionStep ==
  ASSUME TenantInv, UNCHANGED <<status, domain, owner>>, work' \in Session,
         \A x \in work'.new : x \in work.new \/ owner[x] = Absent
  PROVE  TenantInv'
BY DEF TenantInv, TenantTyped

LEMMA WorkingStep ==
  ASSUME TenantInv, Working
  PROVE  TenantInv'
<1>0. work \in Session
  BY DEF TenantInv, TenantTyped
<1>1. ASSUME NEW kind \in Kinds, NEW o \in Owners, BeginWork(kind, o) PROVE TenantInv'
  <2>1. work' \in Session /\ work'.new = {}
    BY <1>1 DEF BeginWork, NoWork, Session, Owners
  <2> QED
    BY <1>1, <2>1, SessionStep DEF BeginWork
<1>2. ASSUME NEW x \in Rows, NEW unfiltered \in BOOLEAN, Select(x, unfiltered) PROVE TenantInv'
  <2>1. owner[x] \in Owners
    BY DEF TenantInv, TenantTyped
  <2>2. work' \in Session /\ work'.new = work.new
    BY <1>0, <1>2, <2>1 DEF Select, Session
  <2> QED
    BY <1>2, <2>2, SessionStep DEF Select
<1>3. ASSUME NEW x \in Rows, NEW o \in Owners, Add(x, o) \/ Change(x, o) PROVE TenantInv'
  <2>1. work' \in Session /\ (work'.new = work.new \/ (work'.new = work.new \union {x} /\ owner[x] = Absent))
    <3>1. PICK m : m = [work.org_id EXCEPT ![x] = o]
      OBVIOUS
    <3>2. m \in [Rows -> Owners]
      BY <1>0, <3>1 DEF Session
    <3>3. CASE Add(x, o)
      <4>1. work' = [work EXCEPT !.new = @ \union {x}, !.org_id = m] /\ owner[x] = Absent
        BY <1>0, <3>1, <3>3 DEF Add, There, Session
      <4> QED
        BY <1>0, <3>2, <4>1 DEF Session
    <3>4. CASE Change(x, o)
      <4>1. work' = [work EXCEPT !.dirty = @ \union {x}, !.org_id = m]
        BY <1>0, <3>1, <3>4 DEF Change, Session
      <4> QED
        BY <1>0, <3>2, <4>1 DEF Session
    <3> QED
      BY <1>3, <3>3, <3>4
  <2> QED
    BY <1>3, <2>1, SessionStep DEF Add, Change
<1>4. ASSUME NEW x \in Rows, Remove(x) PROVE TenantInv'
  <2>1. work' \in Session /\ work'.new = work.new
    BY <1>0, <1>4 DEF Remove, Session
  <2> QED
    BY <1>4, <2>1, SessionStep DEF Remove
<1>5. CASE Commit
  <2>1. ASSUME NEW x \in Rows PROVE StampedOrg(x) \in Owners
    BY <1>0 DEF StampedOrg, Session
  <2>2. owner' \in [Rows -> Owners]
    BY <1>5, <2>1 DEF Commit, TenantInv, TenantTyped, Owners
  <2>3. NoWork \in Session /\ NoWork.new = {}
    BY DEF NoWork, Session, Kinds, Owners
  <2> QED
    BY <1>5, <2>2, <2>3 DEF Commit, TenantInv, TenantTyped
<1>6. CASE Rollback
  <2>1. NoWork \in Session /\ NoWork.new = {}
    BY DEF NoWork, Session, Kinds, Owners
  <2> QED
    BY <1>6, <2>1, SessionStep DEF Rollback
<1> QED
  BY <1>1, <1>2, <1>3, <1>4, <1>5, <1>6 DEF Working, Owners

LEMMA TenantStep == TenantInv /\ [TenantNext]_tenancy => TenantInv'
<1> SUFFICES ASSUME TenantInv, [TenantNext]_tenancy PROVE TenantInv'
  OBVIOUS
<1>1. CASE UNCHANGED tenancy
  BY <1>1 DEF tenancy, TenantInv, TenantTyped
<1> QED
  BY <1>1, HostingStep, WorkingStep DEF TenantNext

-----------------------------------------------------------------------------
(* The theorems *)

\* What is committed for an organization.
LEMMA CommitKeeps ==
  ASSUME TenantInv, Commit, work.org # Absent, NEW x \in Rows, owner'[x] # owner[x]
  PROVE  owner[x] = work.org \/ (owner[x] = Absent /\ owner'[x] = work.org)
<1>1. owner'[x] = IF x \in work.deleted THEN Absent
                  ELSE IF x \in work.new \union work.dirty THEN StampedOrg(x) ELSE owner[x]
  BY DEF Commit
<1>2. CASE x \in work.dirty \union work.deleted
  BY <1>2 DEF Commit, Violates, PersistedOrgId
<1>3. CASE x \in work.new /\ x \notin work.dirty \union work.deleted
  <2>1. owner[x] = Absent /\ StampedOrg(x) = work.org
    BY <1>3 DEF Commit, Violates, Guarded, TenantInv
  <2> QED
    BY <1>1, <1>3, <2>1
<1> QED
  BY <1>1, <1>2, <1>3

\* Work done for an organization changes and removes rows of its own only, and
\* what it makes is its own, for any number of rows, come by unfiltered or not
\* (the write stamp of platform/tenant.py).
THEOREM KeepsToItsOwn == TenantSpec => TenantKept
<1> DEFINE Keeping == \A x \in Rows : (owner'[x] # owner[x] /\ work.org # Absent) =>
                        owner[x] = work.org \/ (owner[x] = Absent /\ owner'[x] = work.org)
<1>1. TenantInv /\ [TenantNext]_tenancy => [Keeping]_tenancy
  <2> SUFFICES ASSUME TenantInv, TenantNext PROVE Keeping
    OBVIOUS
  <2>1. CASE Commit
    BY <2>1, CommitKeeps
  <2>2. CASE owner' = owner
    BY <2>2
  <2>3. Commit \/ owner' = owner
    BY DEF TenantNext, Hosting, Working, Provision, Suspend, Reactivate, ClaimName, ActivateName, DropName,
           BeginWork, Select, Add, Change, Remove, Rollback
  <2> QED
    BY <2>1, <2>2, <2>3
<1> QED
  BY <1>1, InitTenant, TenantStep, PTL DEF TenantSpec, TenantKept

LEMMA LinkOfOne ==
  ASSUME TenantInv, NEW o \in Active
  PROVE  Served(OrgUrl(o)) = o
<1>1. o \in Orgs /\ status[o] = "active" /\ o \in Labels \ ReservedLabels
  BY DEF Active, Labels, TenantInv
<1>2. CASE Cardinality(Active) = 1
  <2>1. IsFiniteSet(Active)
    BY FS_Subset, TenantAssumption DEF TenantAssumption, Active
  <2>2. PICK q : Active = {q}
    BY <1>2, <2>1, FS_Singleton
  <2>3. SoleActive = o
    BY <1>2, <2>2 DEF SoleActive
  <2>4. OrgUrl(o) = <<"base">>
    BY <1>1, <1>2 DEF OrgUrl
  <2> QED
    BY <2>3, <2>4 DEF Served, Named
<1>3. CASE Cardinality(Active) # 1
  <2>1. OrgUrl(o) = <<"label", o>>
    BY <1>3 DEF OrgUrl
  <2>2. Named(<<"label", o>>) = o
    BY <1>1 DEF Named, OfLabel
  <2> QED
    BY <2>1, <2>2 DEF Served
<1> QED
  BY <1>2, <1>3

\* Every link to an active organization leads to it, and no certificate is asked
\* for a host that would be refused, for any number of organizations and names
\* (org_url, resolve_tenant, tls_check).
THEOREM LinksAlwaysLand == TenantSpec => []LinksLand
<1>1. TenantInv => LinksLand
  <2> SUFFICES ASSUME TenantInv PROVE LinksLand
    OBVIOUS
  <2>1. ASSUME NEW host \in Hosts, Certified(host), host[1] # "base" PROVE Served(host) # Absent
    BY <2>1, TenantAssumption DEF Certified, Served, Active, TenantAssumption
  <2> QED
    BY <2>1, LinkOfOne DEF LinksLand
<1> QED
  BY <1>1, InitTenant, TenantStep, PTL DEF TenantSpec

-----------------------------------------------------------------------------
(* Uploads *)

Row == [there : BOOLEAN, variants : BOOLEAN, public : BOOLEAN]
Stages == {"idle", "stored", "variants", "logo", "unset", "purge", "purging", "drop"}
Filing == [at : Stages, of : Pictures \union {NoPicture}, seen : Row]

UploadsTyped ==
  /\ upload \in [Pictures -> Row]
  /\ filing \in [Uploaders -> Filing]

\* FilesBehindRows asks for the file a row names now; the row names others once
\* its variants have been made.
Backed(u) ==
  /\ <<u, "original">> \in files
  /\ upload[u].variants => Made(u)

\* FilesBehindRows is not inductive: it has to know of an original whose row is
\* about to be saved, and that only a delete which has begun takes variants away.
UploadInv ==
  /\ UploadsTyped
  /\ \A u \in Pictures : upload[u].there /\ u \notin doomed => Backed(u)
  /\ \A c \in Uploaders :
       /\ filing[c].at = "stored" /\ filing[c].of \notin doomed => <<filing[c].of, "original">> \in files
       /\ filing[c].at = "purging" => filing[c].of \in doomed
       /\ filing[c].at # "idle" => filing[c].of \in Pictures

LEMMA FreshRows == NoUpload \in Row /\ Unfiled \in Filing /\ Unfiled.at = "idle" /\ Unfiled.of = NoPicture
BY DEF NoUpload, Row, Unfiled, Filing, Stages

LEMMA BackedAnswers ==
  ASSUME UploadInv, NEW u \in Pictures, upload[u].there, u \notin doomed,
         NEW v \in Variants \union {"original"}, NEW inside \in BOOLEAN, upload[u].public \/ inside
  PROVE  Answers(inside, u, v)
BY DEF UploadInv, Backed, Made, Answers, KeyFor

\* What is in the files is taken away from uploads that are doomed alone.
LEMMA FilesStay ==
  ASSUME UploadInv, UploadsNext, NEW u \in Pictures, u \notin doomed', NEW v, <<u, v>> \in files
  PROVE  <<u, v>> \in files'
<1>1. u \notin doomed
  BY DEF UploadsNext, SaveVariants, Break, SaveLogo, ClearLogo, PurgeOriginal, DropUpload, SaveUpload,
         MakeVariant, PurgeVariant, BeginUpload, BeginLogo, BeginDelete, UpdateMedia
<1>2. ASSUME NEW c \in Uploaders, PurgeOriginal(c) PROVE <<u, v>> \in files'
  BY <1>2 DEF PurgeOriginal
<1>3. ASSUME NEW c \in Uploaders, NEW w \in Variants, PurgeVariant(c, w) PROVE <<u, v>> \in files'
  BY <1>1, <1>3 DEF PurgeVariant, UploadInv
<1> QED
  BY <1>2, <1>3 DEF UploadsNext, SaveVariants, Break, SaveLogo, ClearLogo, DropUpload, SaveUpload,
         MakeVariant, BeginUpload, BeginLogo, BeginDelete, UpdateMedia

LEMMA InitUploads == UploadsInit => UploadInv
BY FreshRows DEF UploadsInit, UploadInv, UploadsTyped, NoUpload

\* The tables and the requests stay in their domains.
LEMMA NextTyped == UploadInv /\ UploadsNext => UploadsTyped'
<1> SUFFICES ASSUME UploadInv, UploadsNext PROVE UploadsTyped'
  OBVIOUS
<1> USE FreshRows DEF UploadInv, UploadsTyped
<1>1. ASSUME NEW c \in Uploaders, NEW place \in Stages, Proceed(c, place)
      PROVE  filing' \in [Uploaders -> Filing]
  BY <1>1 DEF Proceed, Filing
<1>2. ASSUME NEW c \in Uploaders, EndFiling(c) PROVE filing' \in [Uploaders -> Filing]
  BY <1>2 DEF EndFiling
<1>3. ASSUME NEW c \in Uploaders, SaveVariants(c) PROVE UploadsTyped'
  BY <1>2, <1>3 DEF SaveVariants, Row
<1>4. ASSUME NEW c \in Uploaders, Break(c) \/ SaveLogo(c) PROVE UploadsTyped'
  BY <1>2, <1>4 DEF Break, SaveLogo
<1>5. ASSUME NEW c \in Uploaders, ClearLogo(c) \/ PurgeOriginal(c) PROVE UploadsTyped'
  <2>1. {"purge", "purging", "drop"} \subseteq Stages
    BY DEF Stages
  <2> QED
    BY <1>1, <1>5, <2>1 DEF ClearLogo, PurgeOriginal
<1>6. ASSUME NEW c \in Uploaders, DropUpload(c) PROVE UploadsTyped'
  BY <1>2, <1>6 DEF DropUpload
<1>7. ASSUME NEW c \in Uploaders, NEW public \in BOOLEAN, SaveUpload(c, public) PROVE UploadsTyped'
  <2>1. [NoUpload EXCEPT !.there = TRUE, !.public = public] \in Row
    BY DEF NoUpload, Row
  <2>2. "variants" \in Stages
    BY DEF Stages
  <2> QED
    BY <1>1, <1>7, <2>1, <2>2 DEF SaveUpload
<1>8. ASSUME NEW c \in Uploaders, NEW v \in Variants, MakeVariant(c, v) \/ PurgeVariant(c, v) PROVE UploadsTyped'
  <2>1. {"purging", "drop"} \subseteq Stages
    BY DEF Stages
  <2> QED
    BY <1>1, <1>8, <2>1 DEF MakeVariant, PurgeVariant
<1>9. ASSUME NEW c \in Uploaders, NEW u \in Pictures, BeginUpload(c, u) \/ BeginLogo(c, u) \/ BeginDelete(c, u)
      PROVE  UploadsTyped'
  <2>1. \A at \in Stages : [Unfiled EXCEPT !.at = at, !.of = u] \in Filing
    BY DEF Unfiled, Filing, NoUpload, Row
  <2>2. \A at \in Stages : [Unfiled EXCEPT !.at = at, !.of = u, !.seen = upload[u]] \in Filing
    BY DEF Unfiled, Filing, NoUpload, Row
  <2> QED
    BY <1>9, <2>1, <2>2 DEF Stages, BeginUpload, BeginLogo, BeginDelete, File
<1>10. ASSUME NEW u \in Pictures, UpdateMedia(u) PROVE UploadsTyped'
  BY <1>10 DEF UpdateMedia, Row
<1> QED
  BY <1>3, <1>4, <1>5, <1>6, <1>7, <1>8, <1>9, <1>10 DEF UploadsNext

-----------------------------------------------------------------------------
(* The invariant *)

\* A row is backed after a step: it was before, or the step has saved it.
LEMMA NextBacked ==
  ASSUME UploadInv, UploadsNext, UploadsTyped', NEW u \in Pictures, upload'[u].there, u \notin doomed'
  PROVE  Backed(u)'
<1> USE DEF UploadInv, UploadsTyped, Backed, Made
<1>0. u \notin doomed
  BY DEF UploadsNext, SaveVariants, Break, SaveLogo, ClearLogo, PurgeOriginal, DropUpload, SaveUpload,
         MakeVariant, PurgeVariant, BeginUpload, BeginLogo, BeginDelete, UpdateMedia
<1>1. CASE /\ upload[u].there
           /\ upload'[u].variants => upload[u].variants
  BY <1>0, <1>1, FilesStay
<1>2. ASSUME NEW c \in Uploaders, SaveVariants(c) PROVE Backed(u)'
  <2>1. files' = files /\ filing[c].of \in Pictures
    BY <1>2 DEF SaveVariants
  <2>2. CASE u = filing[c].of
    BY <1>0, <1>2, <2>1, <2>2 DEF SaveVariants
  <2>3. CASE u # filing[c].of
    BY <1>1, <1>2, <2>3 DEF SaveVariants
  <2> QED
    BY <2>2, <2>3
<1>3. ASSUME NEW c \in Uploaders, NEW public \in BOOLEAN, SaveUpload(c, public) PROVE Backed(u)'
  <2>1. CASE u = filing[c].of
    BY <1>0, <1>3, <2>1 DEF SaveUpload, NoUpload
  <2>2. CASE u # filing[c].of
    BY <1>1, <1>3, <2>2 DEF SaveUpload
  <2> QED
    BY <2>1, <2>2
<1>4. ASSUME NEW c \in Uploaders, DropUpload(c) PROVE Backed(u)'
  BY <1>1, <1>4 DEF DropUpload, NoUpload
<1>5. ASSUME NEW w \in Pictures, UpdateMedia(w) PROVE Backed(u)'
  BY <1>1, <1>5 DEF UpdateMedia, Row
<1>6. CASE upload' = upload
  BY <1>1, <1>6
<1> QED
  BY <1>2, <1>3, <1>4, <1>5, <1>6 DEF UploadsNext, Break, SaveLogo, ClearLogo, PurgeOriginal, MakeVariant,
     PurgeVariant, BeginUpload, BeginLogo, BeginDelete

\* A request that goes on knows what it knew, or what its step has done.
LEMMA NextFiling ==
  ASSUME UploadInv, UploadsNext, UploadsTyped', NEW c \in Uploaders
  PROVE  /\ filing'[c].at = "stored" /\ filing'[c].of \notin doomed' => <<filing'[c].of, "original">> \in files'
         /\ filing'[c].at = "purging" => filing'[c].of \in doomed'
         /\ filing'[c].at # "idle" => filing'[c].of \in Pictures
<1> USE FreshRows DEF UploadInv, UploadsTyped
<1>0. doomed \subseteq doomed'
  BY DEF UploadsNext, SaveVariants, Break, SaveLogo, ClearLogo, PurgeOriginal, DropUpload, SaveUpload,
         MakeVariant, PurgeVariant, BeginUpload, BeginLogo, BeginDelete, UpdateMedia
<1>1. CASE filing'[c] = filing[c]
  BY <1>0, <1>1, FilesStay
<1>2. ASSUME NEW d \in Uploaders, EndFiling(d) PROVE filing'[c] = filing[c] \/ filing'[c] = Unfiled
  BY <1>2 DEF EndFiling
<1>3. CASE filing'[c] = Unfiled
  BY <1>3
<1>4. ASSUME NEW d \in Uploaders, NEW u \in Pictures,
             BeginUpload(d, u) \/ BeginLogo(d, u) \/ BeginDelete(d, u)
      PROVE  \/ filing'[c] = filing[c]
             \/ /\ filing'[c].of = u /\ filing'[c].at # "purging"
                /\ filing'[c].at = "stored" => <<u, "original">> \in files'
  <2>1. ASSUME NEW started \in Filing, File(d, started), started.of = u, started.at \in {"logo", "unset", "purge"}
        PROVE  \/ filing'[c] = filing[c]
               \/ filing'[c].of = u /\ filing'[c].at \in {"logo", "unset", "purge"}
    BY <2>1 DEF File
  <2>2. CASE BeginUpload(d, u)
    BY <2>2 DEF BeginUpload, File, Unfiled, Filing
  <2>3. CASE BeginLogo(d, u)
    <3>1. /\ [Unfiled EXCEPT !.at = "logo", !.of = u] \in Filing
          /\ [Unfiled EXCEPT !.at = "logo", !.of = u].of = u
          /\ [Unfiled EXCEPT !.at = "logo", !.of = u].at = "logo"
      BY DEF Unfiled, Filing, Stages, NoUpload, Row
    <3> QED
      BY <2>1, <2>3, <3>1 DEF BeginLogo
  <2>4. CASE BeginDelete(d, u)
    <3>1. ASSUME NEW at \in {"unset", "purge"}
          PROVE  /\ [Unfiled EXCEPT !.at = at, !.of = u, !.seen = upload[u]] \in Filing
                 /\ [Unfiled EXCEPT !.at = at, !.of = u, !.seen = upload[u]].of = u
                 /\ [Unfiled EXCEPT !.at = at, !.of = u, !.seen = upload[u]].at = at
      BY <3>1 DEF Unfiled, Filing, Stages
    <3> QED
      BY <2>1, <2>4, <3>1 DEF BeginDelete
  <2> QED
    BY <1>4, <2>2, <2>3, <2>4
<1>5. ASSUME NEW d \in Uploaders, NEW place \in Stages, Proceed(d, place), filing[d].at # "idle", place # "stored",
             place = "purging" => filing[d].of \in doomed'
      PROVE  \/ filing'[c] = filing[c]
             \/ filing'[c].of \in Pictures /\ filing'[c].at # "stored"
                /\ (filing'[c].at = "purging" => filing'[c].of \in doomed')
  BY <1>5 DEF Proceed, Filing
<1>6. ASSUME NEW d \in Uploaders, SaveVariants(d) \/ Break(d) \/ SaveLogo(d) \/ DropUpload(d)
      PROVE  filing'[c] = filing[c] \/ filing'[c] = Unfiled
  BY <1>2, <1>6 DEF SaveVariants, Break, SaveLogo, DropUpload
<1>7. ASSUME NEW d \in Uploaders, ClearLogo(d) \/ PurgeOriginal(d) \/ (\E public \in BOOLEAN : SaveUpload(d, public))
      PROVE  \/ filing'[c] = filing[c]
             \/ filing'[c].of \in Pictures /\ filing'[c].at # "stored"
                /\ (filing'[c].at = "purging" => filing'[c].of \in doomed')
  BY <1>5, <1>7 DEF ClearLogo, PurgeOriginal, SaveUpload, Stages
<1>8. ASSUME NEW d \in Uploaders, NEW v \in Variants, MakeVariant(d, v) \/ PurgeVariant(d, v)
      PROVE  \/ filing'[c] = filing[c]
             \/ filing'[c].of \in Pictures /\ filing'[c].at # "stored"
                /\ (filing'[c].at = "purging" => filing'[c].of \in doomed')
  BY <1>0, <1>5, <1>8 DEF MakeVariant, PurgeVariant, Stages
<1>9. ASSUME NEW u \in Pictures, UpdateMedia(u) PROVE filing'[c] = filing[c]
  BY <1>9 DEF UpdateMedia
<1> QED
  BY <1>1, <1>3, <1>4, <1>6, <1>7, <1>8, <1>9 DEF UploadsNext

\* Whatever address a page has for a file answers whom the row admits until
\* somebody deletes the upload, for any number of uploads, variants and requests and a crash anywhere
\* (from_file, make_variants, purge_files).
THEOREM FilesThere == UploadsSpec => []FilesBehindRows
<1>1. UploadsInit => UploadInv
  BY InitUploads
<1>2. UploadInv /\ [UploadsNext]_storing => UploadInv'
  <2> SUFFICES ASSUME UploadInv, [UploadsNext]_storing PROVE UploadInv'
    OBVIOUS
  <2>1. CASE UNCHANGED storing
    BY <2>1 DEF storing, UploadInv, UploadsTyped, Backed, Made
  <2>2. CASE UploadsNext
    <3>1. UploadsTyped'
      BY <2>2, NextTyped
    <3>2. \A u \in Pictures : upload'[u].there /\ u \notin doomed' => Backed(u)'
      BY <2>2, <3>1, NextBacked
    <3> QED
      BY <2>2, <3>1, <3>2, NextFiling DEF UploadInv
  <2> QED
    BY <2>1, <2>2
<1>3. UploadInv => FilesBehindRows
  BY BackedAnswers DEF FilesBehindRows
<1> QED
  BY <1>1, <1>2, <1>3, PTL DEF UploadsSpec

-----------------------------------------------------------------------------
(* Notices *)

Notice == [rows : Nat, read : BOOLEAN, emailed : BOOLEAN, mails : Nat, lost : Nat]
MailJob == [at : {"none", "queued", "sending", "sent", "marked", "done", "failed"}, attempts : Nat]
Fan == [at : {"unsaved", "mentions", "authors", "followers", "told"}, by : People \union {NoOne},
        todo : SUBSET (People \union {NoOne, PostAuthor}), parent : People \union {NoOne},
        notified : SUBSET (People \union {NoOne}), queue : People \union {NoOne}]

NoticesTyped ==
  /\ following \subseteq People \union {PostAuthor}
  /\ fan \in [Replies -> Fan]
  /\ notice \in [Replies -> [People -> Notice]]
  /\ mailjob \in [Replies -> [People -> MailJob]]

\* What a request remembers: nothing before the reply is saved, then whom it must
\* not tell again, its writer among them.
Remembers(f) == IF f.at = "unsaved" THEN f.notified = {} /\ f.queue = NoOne /\ f.todo = {}
                ELSE f.by \in f.notified

\* One notice, the request that wrote it and the job about it.
Agree(f, p, n, j) ==
  /\ n.rows > 0 => n.rows = 1 /\ p \in f.notified /\ p # f.by
  /\ f.queue = p /\ p # NoOne => n.rows = 1 /\ j.at = "none"
  /\ j.at = "none" => ~n.emailed
  /\ j.at # "none" => n.rows = 1
  /\ j.at \in {"sending", "sent"} => ~n.emailed
  /\ n.mails = n.lost + (IF n.emailed \/ j.at = "sent" THEN 1 ELSE 0)

\* HeardOnce is not inductive: a second row is avoided by what the request
\* remembers, a second mail by where the job is.
NoticeInv ==
  /\ NoticesTyped
  /\ \A r \in Replies : Remembers(fan[r])
  /\ \A r \in Replies, p \in People : Agree(fan[r], p, notice[r][p], mailjob[r][p])

LEMMA InitNotices == NoticesInit => NoticeInv
<1>1. Silent \in Notice /\ NoMail \in MailJob /\ Unsaved \in Fan
  BY DEF Silent, Notice, NoMail, MailJob, Unsaved, Fan
<1>2. Remembers(Unsaved)
  BY DEF Remembers, Unsaved
<1>3. \A p \in People : Agree(Unsaved, p, Silent, NoMail)
  BY DEF Agree, Unsaved, Silent, NoMail
<1> QED
  BY <1>1, <1>2, <1>3 DEF NoticesInit, NoticeInv, NoticesTyped

\* A step of the request that tells people of r, or of nothing else.
LEMMA FanStep ==
  ASSUME NoticeInv, NEW r \in Replies, NEW f \in Fan, fan' = [fan EXCEPT ![r] = f],
         following' \subseteq People \union {PostAuthor}, notice' = notice, mailjob' = mailjob, Remembers(f),
         \A p \in People : Agree(f, p, notice[r][p], mailjob[r][p])
  PROVE  NoticeInv'
BY DEF NoticeInv, NoticesTyped

\* A step of the job about r that p gets.
LEMMA MailStep ==
  ASSUME NoticeInv, NEW r \in Replies, NEW p \in People, NEW n \in Notice, NEW j \in MailJob,
         fan' = fan, following' = following,
         notice' = [notice EXCEPT ![r][p] = n], mailjob' = [mailjob EXCEPT ![r][p] = j],
         Agree(fan[r], p, n, j)
  PROVE  NoticeInv'
<1>1. NoticesTyped'
  BY DEF NoticeInv, NoticesTyped
<1>2. ASSUME NEW s \in Replies, NEW q \in People
      PROVE  /\ s = r /\ q = p => notice'[s][q] = n /\ mailjob'[s][q] = j
             /\ ~(s = r /\ q = p) => notice'[s][q] = notice[s][q] /\ mailjob'[s][q] = mailjob[s][q]
  BY DEF NoticeInv, NoticesTyped
<1>3. ASSUME NEW s \in Replies, NEW q \in People PROVE Agree(fan'[s], q, notice'[s][q], mailjob'[s][q])
  <2>1. CASE s = r /\ q = p
    BY <1>2, <2>1
  <2>2. CASE ~(s = r /\ q = p)
    BY <1>2, <2>2 DEF NoticeInv
  <2> QED
    BY <2>1, <2>2
<1> QED
  BY <1>1, <1>3 DEF NoticeInv

-----------------------------------------------------------------------------
(* The request that tells people *)

LEMMA FollowStep ==
  ASSUME NoticeInv, NEW p \in People, ToggleFollow(p)
  PROVE  NoticeInv'
BY DEF NoticeInv, NoticesTyped, ToggleFollow

LEMMA SaveStep ==
  ASSUME NoticeInv, NEW r \in Replies, NEW actor \in People, NEW parent \in People \union {NoOne},
         NEW mentioned \in SUBSET People, SaveReply(r, actor, parent, mentioned)
  PROVE  NoticeInv'
<1>1. PICK f : f = [Unsaved EXCEPT !.at = "mentions", !.by = actor, !.todo = mentioned,
                                   !.parent = parent, !.notified = {actor}]
  OBVIOUS
<1>2. /\ f.at = "mentions" /\ f.by = actor /\ f.notified = {actor} /\ f.queue = NoOne
      /\ f \in Fan
  BY <1>1 DEF Unsaved, Fan
<1>3. ASSUME NEW p \in People PROVE Agree(f, p, notice[r][p], mailjob[r][p])
  BY <1>2 DEF NoticeInv, NoticesTyped, Notice, Agree, Remembers, SaveReply
<1>4. Remembers(f)
  BY <1>2 DEF Remembers
<1> QED
  BY <1>1, <1>2, <1>3, <1>4, FanStep DEF SaveReply, NoticeInv, NoticesTyped

LEMMA NextStep ==
  ASSUME NoticeInv, NEW r \in Replies, NextRecipients(r)
  PROVE  NoticeInv'
<1>1. PICK f : f = fan'[r]
  OBVIOUS
<1>2. /\ fan[r] \in Fan /\ fan' = [fan EXCEPT ![r] = f] /\ f \in Fan
      /\ fan[r].at # "unsaved" /\ f.at # "unsaved"
      /\ f.by = fan[r].by /\ f.notified = fan[r].notified /\ f.queue = fan[r].queue
  <2>1. fan[r] \in Fan
    BY DEF NoticeInv, NoticesTyped
  <2>2. CASE fan[r].at = "mentions" /\ f = [fan[r] EXCEPT !.at = "authors", !.todo = {fan[r].parent, PostAuthor} \ {NoOne}]
    <3>1. fan' = [fan EXCEPT ![r] = f]
      BY <2>2, <2>1 DEF NextRecipients, NoticeInv, NoticesTyped
    <3>2. /\ f \in Fan /\ fan[r].at # "unsaved" /\ f.at # "unsaved"
          /\ f.by = fan[r].by /\ f.notified = fan[r].notified /\ f.queue = fan[r].queue
      BY <2>2, <2>1 DEF NoticeInv, NoticesTyped, Fan
    <3> QED
      BY <2>1, <3>1, <3>2
  <2>3. CASE fan[r].at = "authors" /\ f = [fan[r] EXCEPT !.at = "followers", !.todo = following]
    <3>1. fan' = [fan EXCEPT ![r] = f]
      BY <2>3, <2>1 DEF NextRecipients, NoticeInv, NoticesTyped
    <3>2. /\ f \in Fan /\ fan[r].at # "unsaved" /\ f.at # "unsaved"
          /\ f.by = fan[r].by /\ f.notified = fan[r].notified /\ f.queue = fan[r].queue
      BY <2>3, <2>1 DEF NoticeInv, NoticesTyped, Fan
    <3> QED
      BY <2>1, <3>1, <3>2
  <2>4. CASE fan[r].at = "followers" /\ f = [fan[r] EXCEPT !.at = "told"]
    BY <1>1, <2>1, <2>4 DEF NextRecipients, NoticeInv, NoticesTyped, Fan
  <2> QED
    BY <1>1, <2>1, <2>2, <2>3, <2>4 DEF NextRecipients, NoticeInv, NoticesTyped
<1>3. Remembers(f)
  BY <1>2 DEF NoticeInv, Remembers
<1>4. ASSUME NEW p \in People PROVE Agree(f, p, notice[r][p], mailjob[r][p])
  BY <1>2 DEF NoticeInv, Agree
<1> QED
  BY <1>2, <1>3, <1>4, FanStep DEF NextRecipients, NoticeInv, NoticesTyped

LEMMA StopStep ==
  ASSUME NoticeInv, NEW r \in Replies, StopTelling(r)
  PROVE  NoticeInv'
<1>1. PICK f : f = [fan[r] EXCEPT !.at = "told", !.todo = {}, !.queue = NoOne]
  OBVIOUS
<1>2. /\ fan[r] \in Fan /\ fan' = [fan EXCEPT ![r] = f] /\ f \in Fan
      /\ fan[r].at # "unsaved" /\ f.at # "unsaved"
      /\ f.by = fan[r].by /\ f.notified = fan[r].notified /\ f.queue = NoOne
  BY <1>1 DEF StopTelling, NoticeInv, NoticesTyped, Fan
<1>3. Remembers(f)
  BY <1>2 DEF NoticeInv, Remembers
<1>4. ASSUME NEW p \in People PROVE Agree(f, p, notice[r][p], mailjob[r][p])
  BY <1>2 DEF NoticeInv, Agree
<1> QED
  BY <1>2, <1>3, <1>4, FanStep DEF StopTelling, NoticeInv, NoticesTyped

LEMMA EnqueueStep ==
  ASSUME NoticeInv, NEW r \in Replies, EnqueueMail(r)
  PROVE  NoticeInv'
<1>1. PICK f, p : p = fan[r].queue /\ f = [fan[r] EXCEPT !.queue = NoOne]
  OBVIOUS
<1>2. PICK j : j = [at |-> "queued", attempts |-> 0]
  OBVIOUS
<1>3. /\ fan[r] \in Fan /\ p \in People /\ p # NoOne
      /\ fan' = [fan EXCEPT ![r] = f] /\ f \in Fan
      /\ f.at = fan[r].at /\ f.by = fan[r].by /\ f.notified = fan[r].notified /\ f.queue = NoOne
  BY <1>1 DEF EnqueueMail, NoticeInv, NoticesTyped, Fan
<1>4. j \in MailJob /\ j.at = "queued" /\ notice' = notice /\ mailjob' = [mailjob EXCEPT ![r][p] = j]
  BY <1>1, <1>2 DEF EnqueueMail, MailJob
<1>5. NoticesTyped'
  <2>1. mailjob' \in [Replies -> [People -> MailJob]]
    BY <1>3, <1>4 DEF NoticeInv, NoticesTyped
  <2>2. fan' \in [Replies -> Fan] /\ notice' = notice /\ following' = following
    BY <1>3, <1>4 DEF NoticeInv, NoticesTyped, EnqueueMail
  <2> QED
    BY <2>1, <2>2 DEF NoticeInv, NoticesTyped
<1>6. ASSUME NEW s \in Replies PROVE Remembers(fan'[s])
  <2>1. Remembers(f)
    BY <1>1, <1>3 DEF NoticeInv, Remembers
  <2> QED
    BY <1>3, <2>1 DEF NoticeInv, NoticesTyped
<1>7. ASSUME NEW s \in Replies, NEW q \in People PROVE Agree(fan'[s], q, notice'[s][q], mailjob'[s][q])
  <2>1. Agree(fan[s], q, notice[s][q], mailjob[s][q])
    BY DEF NoticeInv
  <2>2. CASE s = r /\ q = p
    <3>1. fan'[s] = f /\ mailjob'[s][q] = j /\ notice'[s][q] = notice[r][p]
      BY <1>3, <1>4, <2>2 DEF NoticeInv, NoticesTyped
    <3>2. Agree(f, p, notice[r][p], j)
      BY <1>1, <1>3, <1>4, <2>1, <2>2 DEF Agree
    <3> QED
      BY <2>2, <3>1, <3>2
  <2>3. CASE s = r /\ q # p
    <3>1. fan'[s] = f /\ mailjob'[s][q] = mailjob[r][q] /\ notice'[s][q] = notice[r][q]
      BY <1>3, <1>4, <2>3 DEF NoticeInv, NoticesTyped
    <3>2. Agree(f, q, notice[r][q], mailjob[r][q])
      BY <1>1, <1>3, <2>1, <2>3 DEF Agree
    <3> QED
      BY <2>3, <3>1, <3>2
  <2>4. CASE s # r
    <3>1. fan'[s] = fan[s] /\ mailjob'[s][q] = mailjob[s][q] /\ notice'[s][q] = notice[s][q]
      BY <1>3, <1>4, <2>4 DEF NoticeInv, NoticesTyped
    <3> QED
      BY <2>1, <3>1
  <2> QED
    BY <2>2, <2>3, <2>4
<1> QED
  BY <1>5, <1>6, <1>7 DEF NoticeInv
LEMMA TellStep ==
  ASSUME NoticeInv, NEW r \in Replies, NEW p \in People, NEW configured \in BOOLEAN, Tell(r, p, configured)
  PROVE  NoticeInv'
<1>0. /\ fan[r] \in Fan /\ fan[r].queue = NoOne /\ p \in fan[r].todo /\ Remembers(fan[r])
      /\ fan[r].at # "unsaved"
  <2>1. fan[r] \in Fan /\ fan[r].queue = NoOne /\ p \in fan[r].todo /\ Remembers(fan[r])
    BY DEF Tell, NoticeInv, NoticesTyped
  <2> QED
    BY <2>1 DEF Remembers
<1>1. CASE MayTell(r, p)
  <2>1. PICK f, n : /\ f = [fan[r] EXCEPT !.todo = @ \ {p}, !.notified = @ \union {p},
                                          !.queue = IF configured THEN p ELSE NoOne]
                    /\ n = [notice[r][p] EXCEPT !.rows = @ + 1]
    OBVIOUS
  <2>2. /\ f \in Fan /\ f.at = fan[r].at /\ f.by = fan[r].by /\ f.notified = fan[r].notified \union {p}
        /\ f.queue \in {p, NoOne}
    BY <1>0, <2>1 DEF Fan
  <2>3. notice[r][p] \in Notice /\ Agree(fan[r], p, notice[r][p], mailjob[r][p])
    BY DEF NoticeInv, NoticesTyped
  <2>4. /\ n \in Notice /\ n.rows = notice[r][p].rows + 1 /\ n.emailed = notice[r][p].emailed
        /\ n.mails = notice[r][p].mails /\ n.lost = notice[r][p].lost
    BY <2>1, <2>3 DEF Notice
  <2>5. /\ fan' = [fan EXCEPT ![r] = f] /\ notice' = [notice EXCEPT ![r][p] = n]
        /\ mailjob' = mailjob /\ following' = following
    BY <1>0, <1>1, <2>1 DEF Tell, NoticeInv, NoticesTyped
  <2>6. NoticesTyped'
    <3>1. notice' \in [Replies -> [People -> Notice]]
      BY <2>4, <2>5 DEF NoticeInv, NoticesTyped
    <3>2. fan' \in [Replies -> Fan]
      BY <2>2, <2>5 DEF NoticeInv, NoticesTyped
    <3> QED
      BY <2>5, <3>1, <3>2 DEF NoticeInv, NoticesTyped
  <2>7. ASSUME NEW s \in Replies PROVE Remembers(fan'[s])
    <3>1. Remembers(f)
      BY <1>0, <2>2 DEF Remembers
    <3> QED
      BY <2>5, <3>1 DEF NoticeInv, NoticesTyped
  <2>8. ASSUME NEW s \in Replies, NEW q \in People PROVE Agree(fan'[s], q, notice'[s][q], mailjob'[s][q])
    <3>1. Agree(fan[s], q, notice[s][q], mailjob[s][q])
      BY DEF NoticeInv
    <3>2. CASE s = r /\ q = p
      <4>1. fan'[s] = f /\ notice'[s][q] = n /\ mailjob'[s][q] = mailjob[r][p]
        BY <2>5, <3>2 DEF NoticeInv, NoticesTyped
      <4>2. notice[r][p].rows = 0 /\ p # fan[r].by
        BY <1>0, <1>1, <2>3 DEF MayTell, Agree, Remembers, Notice
      <4>3. Agree(f, p, n, mailjob[r][p])
        BY <1>0, <2>2, <2>3, <2>4, <4>2 DEF Agree
      <4> QED
        BY <3>2, <4>1, <4>3
    <3>3. CASE s = r /\ q # p
      <4>1. fan'[s] = f /\ notice'[s][q] = notice[r][q] /\ mailjob'[s][q] = mailjob[r][q]
        BY <2>5, <3>3 DEF NoticeInv, NoticesTyped
      <4>2. Agree(f, q, notice[r][q], mailjob[r][q])
        BY <2>2, <3>1, <3>3 DEF Agree
      <4> QED
        BY <3>3, <4>1, <4>2
    <3>4. CASE s # r
      <4>1. fan'[s] = fan[s] /\ notice'[s][q] = notice[s][q] /\ mailjob'[s][q] = mailjob[s][q]
        BY <2>5, <3>4 DEF NoticeInv, NoticesTyped
      <4> QED
        BY <3>1, <4>1
    <3> QED
      BY <3>2, <3>3, <3>4
  <2> QED
    BY <2>6, <2>7, <2>8 DEF NoticeInv
<1>2. CASE ~MayTell(r, p)
  <2>1. PICK f : f = [fan[r] EXCEPT !.todo = @ \ {p}]
    OBVIOUS
  <2>2. /\ f \in Fan /\ f.at = fan[r].at /\ f.by = fan[r].by /\ f.notified = fan[r].notified
        /\ f.queue = fan[r].queue
    BY <1>0, <2>1 DEF Fan
  <2>3. Remembers(f)
    BY <1>0, <2>2 DEF Remembers
  <2>4. ASSUME NEW q \in People PROVE Agree(f, q, notice[r][q], mailjob[r][q])
    BY <2>2 DEF NoticeInv, Agree
  <2>5. fan' = [fan EXCEPT ![r] = f] /\ notice' = notice /\ mailjob' = mailjob /\ following' = following
    BY <1>2, <2>1 DEF Tell, NoticeInv, NoticesTyped
  <2> QED
    BY <2>2, <2>3, <2>4, <2>5, FanStep DEF NoticeInv, NoticesTyped
<1> QED
  BY <1>1, <1>2

-----------------------------------------------------------------------------
(* Reading, and the mail job *)

LEMMA ReadStep ==
  ASSUME NoticeInv, NEW r \in Replies, NEW p \in People, MarkRead(r, p)
  PROVE  NoticeInv'
<1>1. notice[r][p] \in Notice /\ mailjob[r][p] \in MailJob /\ Agree(fan[r], p, notice[r][p], mailjob[r][p])
  BY DEF NoticeInv, NoticesTyped
<1>2. PICK n : n = [notice[r][p] EXCEPT !.read = TRUE]
  OBVIOUS
<1>3. n \in Notice /\ Agree(fan[r], p, n, mailjob[r][p])
  BY <1>1, <1>2 DEF Notice, Agree
<1>4. /\ notice' = [notice EXCEPT ![r][p] = n] /\ mailjob' = [mailjob EXCEPT ![r][p] = mailjob[r][p]]
      /\ fan' = fan /\ following' = following
  BY <1>2 DEF MarkRead, NoticeInv, NoticesTyped
<1> QED
  BY <1>1, <1>3, <1>4, MailStep

LEMMA ReadAllStep ==
  ASSUME NoticeInv, NEW p \in People, MarkAllRead(p)
  PROVE  NoticeInv'
<1>1. ASSUME NEW r \in Replies, NEW q \in People
      PROVE  /\ notice'[r][q] \in Notice /\ notice'[r][q].rows = notice[r][q].rows
             /\ notice'[r][q].emailed = notice[r][q].emailed /\ notice'[r][q].mails = notice[r][q].mails
             /\ notice'[r][q].lost = notice[r][q].lost
  <2>1. notice[r] \in [People -> Notice] /\ notice[r][p] \in Notice
    BY DEF NoticeInv, NoticesTyped
  <2>2. PICK b \in BOOLEAN : b = (notice[r][p].read \/ notice[r][p].rows > 0)
    BY Zenon
  <2>3. PICK n : n = [notice[r][p] EXCEPT !.read = b]
    OBVIOUS
  <2>4. /\ n \in Notice /\ n.rows = notice[r][p].rows /\ n.emailed = notice[r][p].emailed
        /\ n.mails = notice[r][p].mails /\ n.lost = notice[r][p].lost
    BY <2>1, <2>2, <2>3 DEF Notice
  <2>5. notice'[r] = [notice[r] EXCEPT ![p] = n]
    BY <2>1, <2>2, <2>3 DEF MarkAllRead
  <2>6. CASE q = p
    BY <2>1, <2>4, <2>5, <2>6
  <2>7. CASE q # p
    <3>1. notice'[r][q] = notice[r][q]
      BY <2>1, <2>5, <2>7
    <3> QED
      BY <3>1 DEF NoticeInv, NoticesTyped
  <2> QED
    BY <2>6, <2>7
<1>2. NoticesTyped'
  <2>1. ASSUME NEW r \in Replies PROVE notice'[r] \in [People -> Notice]
    <3>1. notice'[r] = [notice[r] EXCEPT ![p].read = @ \/ notice[r][p].rows > 0] /\ notice[r] \in [People -> Notice]
      BY DEF MarkAllRead, NoticeInv, NoticesTyped
    <3> QED
      BY <1>1, <3>1
  <2> QED
    BY <2>1 DEF MarkAllRead, NoticeInv, NoticesTyped
<1>3. ASSUME NEW r \in Replies, NEW q \in People PROVE Agree(fan'[r], q, notice'[r][q], mailjob'[r][q])
  BY <1>1 DEF NoticeInv, Agree, MarkAllRead
<1> QED
  BY <1>2, <1>3 DEF NoticeInv, MarkAllRead

LEMMA JobStep ==
  ASSUME NoticeInv, NEW r \in Replies, NEW p \in People,
         \/ \E able \in BOOLEAN : StartMail(r, p, able)
         \/ SendNotice(r, p) \/ MarkMailed(r, p) \/ FinishMail(r, p) \/ FailMail(r, p)
  PROVE  NoticeInv'
<1>1. notice[r][p] \in Notice /\ mailjob[r][p] \in MailJob /\ Agree(fan[r], p, notice[r][p], mailjob[r][p])
  BY DEF NoticeInv, NoticesTyped
<1> USE <1>1
<1>2. ASSUME NEW able \in BOOLEAN, StartMail(r, p, able) PROVE NoticeInv'
  <2>1. PICK j : j = [at |-> IF able /\ Wanted(r, p) THEN "sending" ELSE "done", attempts |-> mailjob[r][p].attempts + 1]
    OBVIOUS
  <2>2. j \in MailJob /\ Agree(fan[r], p, notice[r][p], j)
    BY <1>2, <2>1 DEF StartMail, MailJob, Agree, Wanted, Notice
  <2>3. /\ notice' = [notice EXCEPT ![r][p] = notice[r][p]] /\ mailjob' = [mailjob EXCEPT ![r][p] = j]
        /\ fan' = fan /\ following' = following
    BY <1>2, <2>1 DEF StartMail, NoticeInv, NoticesTyped
  <2> QED
    BY <2>2, <2>3, MailStep
<1>3. CASE SendNotice(r, p)
  <2>1. PICK n, j : n = [notice[r][p] EXCEPT !.mails = @ + 1] /\ j = [mailjob[r][p] EXCEPT !.at = "sent"]
    OBVIOUS
  <2>2. n \in Notice /\ j \in MailJob /\ Agree(fan[r], p, n, j)
    BY <1>3, <2>1 DEF SendNotice, MailJob, Agree, Notice
  <2>3. /\ notice' = [notice EXCEPT ![r][p] = n] /\ mailjob' = [mailjob EXCEPT ![r][p] = j]
        /\ fan' = fan /\ following' = following
    BY <1>3, <2>1 DEF SendNotice, MailAt, NoticeInv, NoticesTyped
  <2> QED
    BY <2>2, <2>3, MailStep
<1>4. CASE MarkMailed(r, p)
  <2>1. PICK n, j : n = [notice[r][p] EXCEPT !.emailed = TRUE] /\ j = [mailjob[r][p] EXCEPT !.at = "marked"]
    OBVIOUS
  <2>2. n \in Notice /\ j \in MailJob /\ Agree(fan[r], p, n, j)
    BY <1>4, <2>1 DEF MarkMailed, MailJob, Agree, Notice
  <2>3. /\ notice' = [notice EXCEPT ![r][p] = n] /\ mailjob' = [mailjob EXCEPT ![r][p] = j]
        /\ fan' = fan /\ following' = following
    BY <1>4, <2>1 DEF MarkMailed, MailAt, NoticeInv, NoticesTyped
  <2> QED
    BY <2>2, <2>3, MailStep
<1>5. CASE FinishMail(r, p)
  <2>1. PICK j : j = [mailjob[r][p] EXCEPT !.at = "done"]
    OBVIOUS
  <2>2. j \in MailJob /\ Agree(fan[r], p, notice[r][p], j)
    BY <1>5, <2>1 DEF FinishMail, MailJob, Agree, Notice
  <2>3. /\ notice' = [notice EXCEPT ![r][p] = notice[r][p]] /\ mailjob' = [mailjob EXCEPT ![r][p] = j]
        /\ fan' = fan /\ following' = following
    BY <1>5, <2>1 DEF FinishMail, MailAt, NoticeInv, NoticesTyped
  <2> QED
    BY <2>2, <2>3, MailStep
<1>6. CASE FailMail(r, p)
  <2>1. PICK n, j : /\ n = [notice[r][p] EXCEPT !.lost = IF mailjob[r][p].at = "sent" THEN @ + 1 ELSE @]
                    /\ j = [mailjob[r][p] EXCEPT !.at = IF mailjob[r][p].attempts < MailAttempts
                                                          THEN "queued" ELSE "failed"]
    OBVIOUS
  <2>2. n \in Notice /\ j \in MailJob /\ Agree(fan[r], p, n, j)
    BY <1>6, <2>1 DEF FailMail, MailJob, Agree, Notice
  <2>3. /\ notice' = [notice EXCEPT ![r][p] = n] /\ mailjob' = [mailjob EXCEPT ![r][p] = j]
        /\ fan' = fan /\ following' = following
    BY <1>6, <2>1 DEF FailMail, MailAt, NoticeInv, NoticesTyped
  <2> QED
    BY <2>2, <2>3, MailStep
<1> QED
  BY <1>2, <1>3, <1>4, <1>5, <1>6

-----------------------------------------------------------------------------
(* The theorem *)

\* Nobody hears of one reply twice, its writer never, and by mail once more only
\* for each run of the job that died between the message and its mark: for any
\* number of members, replies, follows and attempts (notify_reply_created,
\* deliver_notification_email).
THEOREM HeardAtMostOnce == NoticesSpec => []HeardOnce
<1>1. NoticesInit => NoticeInv
  BY InitNotices
<1>2. NoticeInv /\ [NoticesNext]_noticing => NoticeInv'
  <2> SUFFICES ASSUME NoticeInv, [NoticesNext]_noticing PROVE NoticeInv'
    OBVIOUS
  <2>1. CASE UNCHANGED noticing
    BY <2>1 DEF noticing, NoticeInv, NoticesTyped
  <2>2. CASE Telling(People \union {NoOne}, SUBSET People, BOOLEAN)
    BY <2>2, FollowStep, SaveStep, NextStep, StopStep, TellStep DEF Telling
  <2>3. CASE Mailing
    BY <2>3, EnqueueStep, ReadStep, ReadAllStep, JobStep DEF Mailing
  <2> QED
    BY <2>1, <2>2, <2>3 DEF NoticesNext
<1>3. NoticeInv => HeardOnce
  <2> SUFFICES ASSUME NoticeInv, NEW r \in Replies, NEW p \in People
               PROVE  /\ notice[r][p].rows <= IF p = fan[r].by THEN 0 ELSE 1
                      /\ notice[r][p].mails <= notice[r][p].rows + notice[r][p].lost
    BY DEF HeardOnce
  <2>1. notice[r][p] \in Notice /\ Agree(fan[r], p, notice[r][p], mailjob[r][p])
    BY DEF NoticeInv, NoticesTyped
  <2> QED
    BY <2>1 DEF Agree, Notice
<1> QED
  BY <1>1, <1>2, <1>3, PTL DEF NoticesSpec
-----------------------------------------------------------------------------
(* A subscriber *)

Standings == {"none", "pending", "subscribed", "unsubscribed"}
Asking == [at : {"idle", "subscribe", "confirm", "unsubscribe", "remove"}, seen : Standings, to : Standings,
           alone : BOOLEAN]

\* What a request is going to make of what it has read; one that is alone has
\* read what still is so.
Minded(q) ==
  /\ q.at = "confirm" => q.to = IF q.seen = "pending" THEN "subscribed" ELSE q.seen
  /\ q.at = "unsubscribe" => q.to = "unsubscribed"
  /\ q.at # "idle" /\ q.alone => q.seen = subscriber

AudienceInv ==
  /\ subscriber \in Standings
  /\ asking \in [Posts -> Asking]
  /\ \A c \in Posts : Minded(asking[c])
  /\ \A b, c \in Posts : b # c /\ asking[b].at # "idle" /\ asking[b].alone => asking[c].at = "idle"

LEMMA InitAudience == AudienceInit => AudienceInv
BY DEF AudienceInit, AudienceInv, Standings, Asking, Silence, Minded

LEMMA AskStep ==
  ASSUME AudienceInv, NEW c \in Posts, NEW q \in Asking, Ask(c, q), q.seen = subscriber, Minded(q)
  PROVE  AudienceInv'
<1> DEFINE a == \A b \in Posts \ {c} : asking[b].at = "idle"
<1>1. [q EXCEPT !.alone = a] \in Asking
  BY DEF Asking
<1>2. \A b \in Posts : [asking[b] EXCEPT !.alone = asking[b].at = "idle"] \in Asking
  BY DEF AudienceInv, Asking
<1>3. asking' \in [Posts -> Asking] /\ subscriber' = subscriber
  BY <1>1, <1>2 DEF Ask
<1>4. \A b \in Posts :
        IF b = c THEN /\ asking'[b].at = q.at /\ asking'[b].to = q.to /\ asking'[b].seen = q.seen
                      /\ asking'[b].alone = a
        ELSE /\ asking'[b].at = asking[b].at /\ asking'[b].to = asking[b].to /\ asking'[b].seen = asking[b].seen
             /\ asking[b].at # "idle" => ~asking'[b].alone
  BY <1>1, <1>2 DEF Ask, AudienceInv, Asking
<1>5. ASSUME NEW b \in Posts PROVE Minded(asking[b])'
  <2>1. CASE b = c
    BY <1>3, <1>4, <2>1 DEF Minded
  <2>2. CASE b # c
    BY <1>3, <1>4, <2>2 DEF AudienceInv, Minded
  <2> QED
    BY <2>1, <2>2
<1>6. \A b, d \in Posts : b # d /\ asking'[b].at # "idle" /\ asking'[b].alone => asking'[d].at = "idle"
  BY <1>4
<1> QED
  BY <1>3, <1>5, <1>6 DEF AudienceInv

\* A request ends; only who was not alone may find that another had changed the row.
LEMMA AnsweredStep ==
  ASSUME AudienceInv, NEW c \in Posts, asking[c].at # "idle", Answered(c), subscriber' \in Standings
  PROVE  AudienceInv'
<1>1. Silence \in Asking /\ Silence.at = "idle"
  BY DEF Silence, Asking, Standings
<1>2. asking' = [asking EXCEPT ![c] = Silence]
  BY DEF Answered
<1>3. \A b \in Posts : Minded(asking[b])'
  BY <1>1, <1>2 DEF AudienceInv, Minded
<1> QED
  BY <1>1, <1>2, <1>3 DEF AudienceInv

LEMMA AudienceStep ==
  ASSUME AudienceInv, [AudienceNext]_listing
  PROVE  AudienceInv'
<1>0. subscriber \in Standings
  BY DEF AudienceInv
<1>1. ASSUME NEW c \in Posts, NEW confirmed \in BOOLEAN, BeginSubscribe(c, confirmed) PROVE AudienceInv'
  <2> DEFINE q == [Silence EXCEPT !.at = "subscribe", !.seen = subscriber,
                     !.to = IF subscriber = "subscribed" THEN "subscribed"
                            ELSE IF confirmed THEN "pending" ELSE "subscribed"]
  <2>1. q \in Asking /\ q.seen = subscriber /\ Minded(q)
    BY <1>0 DEF Silence, Asking, Standings, Minded
  <2> QED
    BY <1>1, <2>1, AskStep DEF BeginSubscribe
<1>2. ASSUME NEW c \in Posts, BeginConfirm(c) PROVE AudienceInv'
  <2> DEFINE q == [Silence EXCEPT !.at = "confirm", !.seen = subscriber,
                     !.to = IF Confirms(subscriber) THEN "subscribed" ELSE subscriber]
  <2>1. q \in Asking /\ q.seen = subscriber /\ Minded(q)
    BY <1>0 DEF Silence, Asking, Standings, Minded, Confirms
  <2> QED
    BY <1>2, <2>1, AskStep DEF BeginConfirm
<1>3. ASSUME NEW c \in Posts, BeginUnsubscribe(c) PROVE AudienceInv'
  <2> DEFINE q == [Silence EXCEPT !.at = "unsubscribe", !.seen = subscriber, !.to = "unsubscribed"]
  <2>1. q \in Asking /\ q.seen = subscriber /\ Minded(q)
    BY <1>0 DEF Silence, Asking, Standings, Minded
  <2> QED
    BY <1>3, <2>1, AskStep DEF BeginUnsubscribe
<1>4. ASSUME NEW c \in Posts, BeginRemove(c) PROVE AudienceInv'
  <2> DEFINE q == [Silence EXCEPT !.at = "remove", !.seen = subscriber]
  <2>1. q \in Asking /\ q.seen = subscriber /\ Minded(q)
    BY <1>0 DEF Silence, Asking, Standings, Minded
  <2> QED
    BY <1>4, <2>1, AskStep DEF BeginRemove
<1>5. ASSUME NEW c \in Posts, SaveSubscriber(c) \/ RemoveSubscriber(c) \/ Refuse(c) PROVE AudienceInv'
  <2>1. subscriber' \in Standings
    BY <1>5, <1>0 DEF SaveSubscriber, RemoveSubscriber, Refuse, AudienceInv, Asking, Standings
  <2>2. asking[c].at # "idle" /\ Answered(c)
    BY <1>5 DEF SaveSubscriber, RemoveSubscriber, Refuse
  <2> QED
    BY <2>1, <2>2, AnsweredStep
<1>6. CASE UNCHANGED <<subscriber, asking>>
  BY <1>6 DEF AudienceInv, Minded
<1> QED
  BY <1>1, <1>2, <1>3, <1>4, <1>5, <1>6 DEF AudienceNext, MailConfirmation, listing

LEMMA AudienceInvariant == AudienceSpec => []AudienceInv
BY InitAudience, AudienceStep, PTL DEF AudienceSpec

\* An unsubscription stands until somebody subscribes the address again
\* (Subscriber.confirm takes who is pending and nobody else), for any number of
\* requests of which no two overlap and whatever links were mailed before.
THEOREM UnsubscriptionStands == AudienceSpec => UnsubscribeStands
<1> DEFINE stands == (/\ left => subscriber = "unsubscribed"
                      /\ \A c \in Posts : asking[c].at # "idle" => asking[c].alone)
                     => (left => subscriber = "unsubscribed")'
<1>1. ASSUME AudienceInv, [AudienceNext]_listing PROVE stands
  <2> SUFFICES ASSUME left => subscriber = "unsubscribed",
                      \A c \in Posts : asking[c].at # "idle" => asking[c].alone,
                      left'
               PROVE  subscriber' = "unsubscribed"
    OBVIOUS
  <2>1. ASSUME NEW c \in Posts, SaveSubscriber(c) PROVE subscriber' = "unsubscribed"
    <3>1. asking[c].seen = subscriber /\ Minded(asking[c])
      BY <1>1, <2>1 DEF SaveSubscriber, AudienceInv, Minded
    <3> QED
      BY <2>1, <3>1 DEF SaveSubscriber, Minded
  <2>2. \A c \in Posts : ~RemoveSubscriber(c)
    BY DEF RemoveSubscriber
  <2>3. UNCHANGED <<subscriber, left>> => subscriber' = "unsubscribed"
    OBVIOUS
  <2> QED
    BY <1>1, <2>1, <2>2, <2>3 DEF AudienceNext, Refuse, BeginConfirm, BeginUnsubscribe, BeginRemove, BeginSubscribe,
       Ask, MailConfirmation, listing
<1>2. AudienceInv /\ [AudienceNext]_listing => [stands]_listing
  BY <1>1
<1> QED
  BY <1>2, AudienceInvariant, PTL DEF AudienceSpec, UnsubscribeStands

-----------------------------------------------------------------------------
(* Rate limits *)

Stamps == Nat \X Nat
Since(P, t) == {p \in P : p[1] >= t}
Span(P, a, b) == {p \in P : a <= p[1] /\ p[1] <= b}

\* An entry, and the window it counts in.
IsEntry(r, k) ==
  /\ r = [there |-> r.there, count |-> r.count, start |-> r.start, window |-> r.window]
  /\ r.there \in BOOLEAN /\ r.count \in Nat
  /\ r.there => r.start \in 0..now /\ r.window = Window[k]

Running(r) == r.there /\ ~Expired(r)

\* What k was let do since its window opened is counted, and no more than the
\* limit was let through in the length of one window before that. Where no
\* window is open the next may open now.
Counting(r, P, k) ==
  IF Running(r)
  THEN /\ Cardinality(Since(P, r.start)) <= r.count
       /\ Cardinality(Since(P, r.start)) <= Limit[k]
       /\ Cardinality(Span(P, r.start - Window[k], r.start - 1)) <= Limit[k]
  ELSE /\ Cardinality(Since(P, now - Window[k])) <= Limit[k]
       /\ \A p \in P : p[1] < now

Burst(P, k) == \A t \in 0..now : Cardinality(Span(P, t, t + Window[k])) <= 2 * Limit[k]

Within(r, P, k) ==
  /\ IsEntry(r, k)
  /\ P \subseteq Stamps /\ IsFiniteSet(P) /\ \A p \in P : p[1] <= now
  /\ Counting(r, P, k)
  /\ Burst(P, k)

IsStore(s) ==
  /\ s = [row |-> s.row, before |-> s.before, swept |-> s.swept]
  /\ s.row = [k \in Counters |-> s.row[k]]

Kept(s, past) ==
  /\ IsStore(s) /\ past = [k \in Counters |-> past[k]]
  /\ \A k \in Counters : Within(s.row[k], past[k], k)

\* The inductive invariant under BurstBounded: each counter by itself.
RateInv == now \in Nat /\ Kept(store, passed)

LEMMA LimitsAreNumbers == \A k \in Counters : Limit[k] \in Nat \ {0} /\ Window[k] \in Nat
BY RateAssumption

\* Fewer things, in fewer times.
LEMMA Fewer ==
  ASSUME NEW P, NEW Q, IsFiniteSet(Q), P \subseteq Q
  PROVE  /\ IsFiniteSet(P) /\ Cardinality(P) \in Nat /\ Cardinality(Q) \in Nat
         /\ Cardinality(P) <= Cardinality(Q)
BY FS_Subset, FS_CardinalityType

LEMMA OneMore ==
  ASSUME NEW P, IsFiniteSet(P), NEW x
  PROVE  /\ IsFiniteSet(P \union {x}) /\ Cardinality(P) \in Nat
         /\ Cardinality(P \union {x}) \in Nat
         /\ Cardinality(P \union {x}) <= Cardinality(P) + 1
<1>1. Cardinality(P) \in Nat /\ IsFiniteSet(P \union {x})
  BY FS_CardinalityType, FS_AddElement
<1>2. CASE x \in P
  <2>1. P \union {x} = P
    BY <1>2
  <2>2. Cardinality(P \union {x}) = Cardinality(P)
    BY <2>1
  <2> QED
    BY <1>1, <2>2
<1>3. CASE x \notin P
  BY <1>1, <1>3, FS_AddElement
<1> QED
  BY <1>1, <1>2, <1>3

\* Of two parts.
LEMMA TwoParts ==
  ASSUME NEW P, NEW Q, NEW R, IsFiniteSet(P), IsFiniteSet(Q), R \subseteq P \union Q
  PROVE  /\ Cardinality(R) \in Nat /\ Cardinality(P) \in Nat /\ Cardinality(Q) \in Nat
         /\ Cardinality(R) <= Cardinality(P) + Cardinality(Q)
<1>1. /\ IsFiniteSet(P \union Q)
      /\ Cardinality(P \union Q) = Cardinality(P) + Cardinality(Q) - Cardinality(P \cap Q)
  BY FS_Union
<1>2. IsFiniteSet(P \cap Q) /\ Cardinality(P \cap Q) \in Nat
  BY Fewer
<1>3. Cardinality(R) \in Nat /\ Cardinality(R) <= Cardinality(P \union Q)
  BY <1>1, Fewer
<1>4. Cardinality(P) \in Nat /\ Cardinality(Q) \in Nat
  BY FS_CardinalityType
<1> QED
  BY <1>1, <1>2, <1>3, <1>4

\* One who was forgotten, or never did anything.
LEMMA Blank ==
  ASSUME NEW k \in Counters, NEW r, IsEntry(r, k), now \in Nat
  PROVE  Within(r, {}, k)
<1>1. \A a, b : Since({}, a) = {} /\ Span({}, a, b) = {}
  BY DEF Since, Span
<1>2. Cardinality({}) = 0 /\ IsFiniteSet({})
  BY FS_EmptySet
<1>3. Counting(r, {}, k)
  <2>1. /\ Limit[k] \in Nat /\ r.count \in Nat
        /\ \A a, b : Cardinality(Since({}, a)) = 0 /\ Cardinality(Span({}, a, b)) = 0
    BY <1>1, <1>2, LimitsAreNumbers DEF IsEntry
  <2> QED
    BY <2>1 DEF Counting
<1>4. Burst({}, k)
  <2>1. \A t \in 0..now : Cardinality(Span({}, t, t + Window[k])) = 0
    BY <1>1, <1>2
  <2>2. 0 <= 2 * Limit[k]
    BY LimitsAreNumbers
  <2> QED
    BY <2>1, <2>2 DEF Burst
<1> QED
  BY <1>2, <1>3, <1>4 DEF Within, Stamps

\* An entry that has expired may be dropped.
LEMMA Dropped ==
  ASSUME NEW k \in Counters, NEW r, NEW P, Within(r, P, k), ~Running(r), now \in Nat
  PROVE  Within(NoEntry, P, k)
BY DEF Within, Counting, Running, IsEntry, NoEntry

\* One thing more is no more than the budget, in this window and across it.
LEMMA Across ==
  ASSUME NEW k \in Counters, NEW r, NEW P, Within(r, P, k), now \in Nat,
         Running(r) => r.count < Limit[k], NEW n \in Nat
  PROVE  Burst(P \union {<<now, n>>}, k)
<1> DEFINE x == <<now, n>>
           Q == P \union {x}
<1> SUFFICES ASSUME NEW t \in 0..now
             PROVE  Cardinality(Span(Q, t, t + Window[k])) <= 2 * Limit[k]
  BY DEF Burst
<1>1. /\ P \subseteq Stamps /\ IsFiniteSet(P) /\ Window[k] \in Nat /\ Limit[k] \in Nat \ {0}
      /\ x[1] = now /\ \A p \in P : p[1] \in Nat /\ p[1] <= now
  BY LimitsAreNumbers DEF Within, Stamps
<1>2. CASE now > t + Window[k]
  <2>1. Span(Q, t, t + Window[k]) = Span(P, t, t + Window[k])
    BY <1>1, <1>2 DEF Span
  <2> QED
    BY <2>1 DEF Within, Burst
<1>3. CASE ~(now > t + Window[k]) /\ Running(r)
  <2> DEFINE old == Span(P, r.start - Window[k], r.start - 1)
             cur == Since(P, r.start)
  <2>1. r.start \in 0..now /\ r.count \in Nat /\ r.count < Limit[k] /\ now - r.start <= Window[k]
    BY <1>3, <1>1 DEF Running, Expired, Within, IsEntry
  <2>2. /\ Cardinality(old) <= Limit[k] /\ Cardinality(cur) <= r.count
        /\ IsFiniteSet(old) /\ IsFiniteSet(cur)
    <3>1. old \subseteq P /\ cur \subseteq P
      BY DEF Span, Since
    <3> QED
      BY <1>1, <1>3, <3>1, Fewer DEF Within, Counting
  <2>3. Span(Q, t, t + Window[k]) \subseteq old \union (cur \union {x})
    BY <1>1, <1>3, <2>1 DEF Span, Since
  <2>4. IsFiniteSet(cur \union {x}) /\ Cardinality(cur \union {x}) <= Cardinality(cur) + 1
        /\ Cardinality(cur) \in Nat /\ Cardinality(cur \union {x}) \in Nat
    BY <2>2, OneMore
  <2>5. /\ Cardinality(Span(Q, t, t + Window[k])) <= Cardinality(old) + Cardinality(cur \union {x})
        /\ Cardinality(old) \in Nat /\ Cardinality(Span(Q, t, t + Window[k])) \in Nat
    BY <2>2, <2>3, <2>4, TwoParts
  <2> QED
    BY <1>1, <2>1, <2>2, <2>4, <2>5
<1>4. CASE ~(now > t + Window[k]) /\ ~Running(r)
  <2> DEFINE old == Since(P, now - Window[k])
  <2>1. Cardinality(old) <= Limit[k] /\ IsFiniteSet(old)
    <3>1. old \subseteq P
      BY DEF Since
    <3> QED
      BY <1>1, <1>4, <3>1, Fewer DEF Within, Counting
  <2>2. Span(Q, t, t + Window[k]) \subseteq old \union {x}
    BY <1>1, <1>4 DEF Span, Since
  <2>3. IsFiniteSet(old \union {x}) /\ Cardinality(old \union {x}) <= Cardinality(old) + 1
        /\ Cardinality(old) \in Nat /\ Cardinality(old \union {x}) \in Nat
    BY <2>1, OneMore
  <2>4. Cardinality(Span(Q, t, t + Window[k])) <= Cardinality(old \union {x})
        /\ Cardinality(Span(Q, t, t + Window[k])) \in Nat
    BY <2>2, <2>3, Fewer
  <2> QED
    BY <1>1, <2>1, <2>3, <2>4
<1> QED
  BY <1>2, <1>3, <1>4

\* Let through in an open window, whose count goes on.
LEMMA WentUp ==
  ASSUME NEW k \in Counters, NEW r, NEW P, Within(r, P, k), now \in Nat, Running(r),
         NEW n \in Nat, NEW q, q = [r EXCEPT !.count = @ + 1]
  PROVE  /\ Within(q, P, k)
         /\ r.count < Limit[k] => Within(q, P \union {<<now, n>>}, k)
<1>1. /\ IsEntry(q, k) /\ q.count = r.count + 1 /\ q.start = r.start /\ q.there /\ q.window = r.window
      /\ r.count \in Nat /\ r.start \in 0..now /\ Running(q)
  <2>1. IsEntry(r, k) /\ r.there = TRUE /\ r.count \in Nat /\ r.start \in 0..now /\ r.window = Window[k]
    BY DEF Within, IsEntry, Running
  <2>2. q.count = r.count + 1 /\ q.start = r.start /\ q.there = r.there /\ q.window = r.window
    BY <2>1 DEF IsEntry
  <2>3. q = [there |-> q.there, count |-> q.count, start |-> q.start, window |-> q.window]
    BY <2>1 DEF IsEntry
  <2>4. IsEntry(q, k)
    BY <2>1, <2>2, <2>3 DEF IsEntry
  <2> QED
    BY <2>1, <2>2, <2>4 DEF Running, Expired
<1>2. P \subseteq Stamps /\ IsFiniteSet(P) /\ \A p \in P : p[1] \in Nat /\ p[1] <= now
  BY DEF Within, Stamps
<1>3. Limit[k] \in Nat /\ Window[k] \in Nat
  BY LimitsAreNumbers
<1>4. IsFiniteSet(Since(P, r.start)) /\ Cardinality(Since(P, r.start)) \in Nat
  <2>1. Since(P, r.start) \subseteq P
    BY DEF Since
  <2> QED
    BY <1>2, <2>1, Fewer
<1>5. Within(q, P, k)
  BY <1>1, <1>4 DEF Within, Counting
<1>6. ASSUME r.count < Limit[k] PROVE Within(q, P \union {<<now, n>>}, k)
  <2> DEFINE x == <<now, n>>
  <2>1. Burst(P \union {x}, k)
    BY <1>6, Across
  <2>2. P \union {x} \subseteq Stamps /\ IsFiniteSet(P \union {x}) /\ \A p \in P \union {x} : p[1] <= now
    <3>1. x \in Stamps /\ x[1] = now /\ now <= now
      BY DEF Stamps
    <3>2. IsFiniteSet(P \union {x})
      BY <1>2, OneMore
    <3> HIDE DEF x
    <3> QED
      BY <1>2, <3>1, <3>2
  <2>3. Since(P \union {x}, r.start) = Since(P, r.start) \union {x}
    BY <1>1 DEF Since
  <2>4. Span(P \union {x}, r.start - Window[k], r.start - 1) = Span(P, r.start - Window[k], r.start - 1)
    BY <1>1, <1>2, <1>3 DEF Span
  <2>5. /\ Cardinality(Since(P \union {x}, r.start)) <= r.count + 1
        /\ Cardinality(Since(P \union {x}, r.start)) <= Limit[k]
    <3>1. Cardinality(Since(P, r.start)) <= r.count
      BY DEF Within, Counting
    <3>2. /\ Cardinality(Since(P, r.start) \union {x}) <= Cardinality(Since(P, r.start)) + 1
          /\ Cardinality(Since(P, r.start) \union {x}) \in Nat
      BY <1>4, OneMore
    <3> QED
      <4>1. PICK a, b : a = Cardinality(Since(P, r.start)) /\ b = Cardinality(Since(P \union {x}, r.start))
        OBVIOUS
      <4>2. a \in Nat /\ b \in Nat /\ a <= r.count /\ b <= a + 1
        BY <1>4, <2>3, <3>1, <3>2, <4>1
      <4>3. b <= r.count + 1 /\ b <= Limit[k]
        BY <1>1, <1>3, <1>6, <4>2
      <4> QED
        BY <4>1, <4>3
  <2>6. Counting(q, P \union {x}, k)
    BY <1>1, <2>4, <2>5 DEF Counting, Within
  <2> QED
    BY <1>1, <2>1, <2>2, <2>6 DEF Within
<1> QED
  BY <1>5, <1>6

\* Let through where no window is open: one opens.
LEMMA Opened ==
  ASSUME NEW k \in Counters, NEW r, NEW P, Within(r, P, k), now \in Nat, ~Running(r),
         NEW n \in Nat
  PROVE  Within(Entry(k), P \union {<<now, n>>}, k)
<1> DEFINE x == <<now, n>>
<1>1. P \subseteq Stamps /\ IsFiniteSet(P) /\ \A p \in P : p[1] \in Nat /\ p[1] < now
  BY DEF Within, Stamps, Counting
<1>2. Limit[k] \in Nat \ {0} /\ Window[k] \in Nat
  BY LimitsAreNumbers
<1>3. PICK q : q = Entry(k)
  OBVIOUS
<1>4. IsEntry(q, k) /\ q.there /\ q.count = 1 /\ q.start = now /\ q.window = Window[k] /\ Running(q)
  BY <1>2, <1>3 DEF Entry, IsEntry, Running, Expired
<1>5. Burst(P \union {x}, k)
  BY Across
<1>6. P \union {x} \subseteq Stamps /\ IsFiniteSet(P \union {x}) /\ \A p \in P \union {x} : p[1] <= now
  <2>1. x \in Stamps /\ x[1] = now /\ now <= now
    BY DEF Stamps
  <2>2. IsFiniteSet(P \union {x})
    BY <1>1, OneMore
  <2> HIDE DEF x
  <2> QED
    BY <1>1, <2>1, <2>2
<1>7. Since(P \union {x}, now) = {x}
  BY <1>1 DEF Since
<1>8. Span(P \union {x}, now - Window[k], now - 1) \subseteq Since(P, now - Window[k])
  BY <1>2 DEF Span, Since
<1>9. /\ Cardinality(Since(P, now - Window[k])) <= Limit[k]
      /\ Cardinality(Span(P \union {x}, now - Window[k], now - 1)) <= Cardinality(Since(P, now - Window[k]))
      /\ Cardinality(Span(P \union {x}, now - Window[k], now - 1)) \in Nat
      /\ Cardinality(Since(P, now - Window[k])) \in Nat
  <2>1. Since(P, now - Window[k]) \subseteq P
    BY DEF Since
  <2> QED
    BY <1>1, <1>8, <2>1, Fewer DEF Within, Counting
<1>10. Counting(q, P \union {x}, k)
  <2>1. Cardinality(Since(P \union {x}, now)) = 1
    BY <1>7, FS_Singleton
  <2>2. Cardinality(Span(P \union {x}, now - Window[k], now - 1)) <= Limit[k]
    BY <1>2, <1>9
  <2> HIDE DEF x
  <2> QED
    BY <1>2, <1>4, <2>1, <2>2 DEF Counting
<1> QED
  BY <1>3, <1>4, <1>5, <1>6, <1>10 DEF Within

\* Time passes: a window that ends leaves no more than its own count behind.
LEMMA Ticked ==
  ASSUME NEW k \in Counters, NEW r, NEW P, Within(r, P, k), now \in Nat, now' = now + 1
  PROVE  Within(r, P, k)'
<1>1. /\ P \subseteq Stamps /\ IsFiniteSet(P) /\ \A p \in P : p[1] \in Nat /\ p[1] <= now
      /\ Limit[k] \in Nat \ {0} /\ Window[k] \in Nat /\ IsEntry(r, k)
  BY LimitsAreNumbers DEF Within, Stamps
<1>2. IsEntry(r, k)'
  BY <1>1 DEF IsEntry
<1>3. Running(r)' => Running(r)
  BY <1>1 DEF Running, Expired, IsEntry
<1>4. \A a : IsFiniteSet(Since(P, a)) /\ Cardinality(Since(P, a)) \in Nat
  <2>1. \A a : Since(P, a) \subseteq P
    BY DEF Since
  <2> QED
    BY <1>1, <2>1, Fewer
<1>5. Counting(r, P, k)'
  <2>1. CASE Running(r)'
    BY <1>3, <2>1 DEF Within, Counting
  <2>2. CASE Running(r) /\ ~Running(r)'
    <3>1. r.start \in 0..now /\ r.window = Window[k] /\ now' - r.start > Window[k]
      BY <1>1, <2>2 DEF Running, Expired, IsEntry
    <3>2. Since(P, now' - Window[k]) \subseteq Since(P, r.start)
      BY <1>1, <3>1 DEF Since
    <3>3. Cardinality(Since(P, r.start)) <= Limit[k]
      BY <2>2 DEF Within, Counting
    <3>4. Cardinality(Since(P, now' - Window[k])) <= Limit[k]
      BY <1>1, <1>4, <3>2, <3>3, Fewer
    <3>5. \A p \in P : p[1] < now'
      BY <1>1
    <3> QED
      BY <2>2, <3>4, <3>5 DEF Counting
  <2>3. CASE ~Running(r) /\ ~Running(r)'
    <3>1. Since(P, now' - Window[k]) \subseteq Since(P, now - Window[k])
      BY <1>1 DEF Since
    <3>2. Cardinality(Since(P, now - Window[k])) <= Limit[k]
      BY <2>3 DEF Within, Counting
    <3>3. Cardinality(Since(P, now' - Window[k])) <= Limit[k]
      BY <1>1, <1>4, <3>1, <3>2, Fewer
    <3>4. \A p \in P : p[1] < now'
      BY <1>1
    <3> QED
      BY <2>3, <3>3, <3>4 DEF Counting
  <2> QED
    BY <1>3, <2>1, <2>2, <2>3
<1>6. ASSUME NEW t \in 0..now'
      PROVE  Cardinality(Span(P, t, t + Window[k])) <= 2 * Limit[k]
  <2>1. CASE t \in 0..now
    BY <2>1 DEF Within, Burst
  <2>2. CASE t = now'
    <3>1. Span(P, t, t + Window[k]) = {}
      BY <1>1, <2>2 DEF Span
    <3>2. Cardinality(Span(P, t, t + Window[k])) = 0
      BY <3>1, FS_EmptySet
    <3> QED
      BY <1>1, <3>2
  <2> QED
    BY <2>1, <2>2
<1>7. \A p \in P : p[1] <= now'
  BY <1>1
<1> QED
  BY <1>1, <1>2, <1>5, <1>6, <1>7 DEF Within, Burst

LEMMA NoEntryIs == \A k \in Counters : IsEntry(NoEntry, k) /\ ~Running(NoEntry)
BY DEF IsEntry, NoEntry, Running

LEMMA WithoutRows ==
  ASSUME NEW s, IsStore(s), NEW gone
  PROVE  /\ IsStore(Without(s, gone))
         /\ \A k \in Counters : Without(s, gone).row[k] = IF k \in gone THEN NoEntry ELSE s.row[k]
<1>1. PICK pairs : pairs = {p \in s.before : p[1] \notin gone /\ p[2] \notin gone}
  OBVIOUS
<1>2. PICK rows : rows = [k \in Counters |-> IF k \in gone THEN NoEntry ELSE s.row[k]]
  OBVIOUS
<1>3. PICK w : w = [s EXCEPT !.row = rows, !.before = pairs]
  OBVIOUS
<1>4. Without(s, gone) = w
  BY <1>1, <1>2, <1>3 DEF Without
<1>5. w = [row |-> w.row, before |-> w.before, swept |-> w.swept] /\ w.row = rows
  BY <1>3 DEF IsStore
<1> QED
  BY <1>2, <1>4, <1>5 DEF IsStore

LEMMA PutRows ==
  ASSUME NEW s, IsStore(s), NEW k \in Counters, NEW e
  PROVE  /\ IsStore(Put(s, k, e))
         /\ Put(s, k, e).row[k] = e
         /\ \A c \in Counters \ {k} : Put(s, k, e).row[c] = s.row[c]
<1>1. PICK order : order = s.before \union (IF k \in Keys(s) THEN {} ELSE Keys(s) \X {k})
  OBVIOUS
<1>2. PICK rows : rows = [s.row EXCEPT ![k] = e]
  OBVIOUS
<1>3. PICK w : w = [s EXCEPT !.row = rows, !.before = order]
  OBVIOUS
<1>4. Put(s, k, e) = w
  BY <1>1, <1>2, <1>3 DEF Put
<1>5. w = [row |-> w.row, before |-> w.before, swept |-> w.swept] /\ w.row = rows
  BY <1>3 DEF IsStore
<1>6. rows = [c \in Counters |-> IF c = k THEN e ELSE s.row[c]]
  BY <1>2 DEF IsStore
<1> QED
  BY <1>4, <1>5, <1>6 DEF IsStore

\* _maybe_sweep drops what has expired, and whom it forgets besides.
LEMMA SweptRows ==
  ASSUME NEW s, IsStore(s)
  PROVE  /\ IsStore(Swept(s))
         /\ \A k \in Counters :
              Swept(s).row[k] = IF k \in Forgotten(s) \/ (Due(s) /\ s.row[k].there /\ Expired(s.row[k]))
                                THEN NoEntry ELSE s.row[k]
<1>1. CASE ~Due(s)
  BY <1>1 DEF Swept, Forgotten
<1>2. CASE Due(s)
  <2>1. PICK live : live = Live(s)
    OBVIOUS
  <2>2. PICK w : w = Without(live, Forgotten(s))
    OBVIOUS
  <2>3. PICK end : end = [w EXCEPT !.swept = now]
    OBVIOUS
  <2>4. Swept(s) = end
    BY <1>2, <2>1, <2>2, <2>3 DEF Swept
  <2>5. IsStore(live) /\ IsStore(w)
    BY <2>1, <2>2, WithoutRows DEF Live
  <2>6. IsStore(end) /\ end.row = w.row
    BY <2>3, <2>5 DEF IsStore
  <2>7. \A k \in Counters :
          live.row[k] = IF s.row[k].there /\ Expired(s.row[k]) THEN NoEntry ELSE s.row[k]
    BY <2>1, WithoutRows DEF Live, Keys
  <2>8. \A k \in Counters : w.row[k] = IF k \in Forgotten(s) THEN NoEntry ELSE live.row[k]
    BY <2>2, <2>5, WithoutRows
  <2> QED
    BY <1>2, <2>4, <2>6, <2>7, <2>8
<1> QED
  BY <1>1, <1>2

LEMMA SweptKept ==
  ASSUME NEW s, NEW past, Kept(s, past), now \in Nat
  PROVE  Kept(Swept(s), Anew(past, Forgotten(s)))
<1>1. PICK end : end = Swept(s) /\ IsStore(end)
  BY SweptRows DEF Kept
<1>2. PICK new : new = Anew(past, Forgotten(s))
  OBVIOUS
<1>3. new = [k \in Counters |-> IF k \in Forgotten(s) THEN {} ELSE past[k]]
  BY <1>2 DEF Anew
<1>4. ASSUME NEW k \in Counters PROVE Within(end.row[k], new[k], k)
  <2>1. Within(s.row[k], past[k], k) /\ IsStore(s)
    BY DEF Kept
  <2>2. CASE k \in Forgotten(s)
    <3>1. end.row[k] = NoEntry /\ new[k] = {}
      BY <1>1, <1>3, <2>1, <2>2, SweptRows
    <3> QED
      BY <3>1, NoEntryIs, Blank
  <2>3. CASE k \notin Forgotten(s) /\ end.row[k] # s.row[k]
    <3>1. end.row[k] = NoEntry /\ new[k] = past[k] /\ ~Running(s.row[k])
      BY <1>1, <1>3, <2>1, <2>3, SweptRows DEF Running
    <3> QED
      BY <2>1, <3>1, Dropped
  <2>4. CASE k \notin Forgotten(s) /\ end.row[k] = s.row[k]
    BY <1>3, <2>1, <2>4
  <2> QED
    BY <2>2, <2>3, <2>4
<1> QED
  BY <1>1, <1>2, <1>3, <1>4 DEF Kept

\* The mark that the history makes.
LEMMA LetOne ==
  ASSUME NEW s, NEW past, Kept(s, past), now \in Nat, NEW k \in Counters
  PROVE  \E n \in Nat : Let(past, k) = [past EXCEPT ![k] = @ \union {<<now, n>>}]
<1>1. PICK n : n = 1 + Cardinality({p \in past[k] : p[1] = now})
  OBVIOUS
<1>2. IsFiniteSet(past[k])
  BY DEF Kept, Within
<1>3. n \in Nat
  BY <1>1, <1>2, Fewer
<1>4. Let(past, k) = [past EXCEPT ![k] = @ \union {<<now, n>>}]
  BY <1>1 DEF Let
<1> QED
  BY <1>3, <1>4

LEMMA CountedKept ==
  ASSUME NEW s, NEW past, Kept(s, past), now \in Nat, NEW k \in Counters
  PROVE  /\ ~Spent(s, k) => Kept(Counted(s, k), Let(past, k))
         /\ Spent(s, k) => Kept(Counted(s, k), past)
<1>1. PICK w : w = Counted(s, k)
  OBVIOUS
<1>2. PICK e : e = IF Counts(s, k) THEN [s.row[k] EXCEPT !.count = @ + 1] ELSE Entry(k)
  OBVIOUS
<1>3. IsStore(w) /\ w.row[k] = e /\ \A c \in Counters \ {k} : w.row[c] = s.row[c]
  BY <1>1, <1>2, PutRows DEF Counted, Kept
<1>4. Counts(s, k) <=> Running(s.row[k])
  BY DEF Counts, Running
<1>5. Within(s.row[k], past[k], k) /\ past = [c \in Counters |-> past[c]] /\ IsEntry(s.row[k], k)
  BY DEF Kept, Within
<1>6. ASSUME ~Spent(s, k) PROVE Kept(w, Let(past, k))
  <2>1. PICK n \in Nat : Let(past, k) = [past EXCEPT ![k] = @ \union {<<now, n>>}]
    BY LetOne
  <2>2. PICK new : new = Let(past, k)
    OBVIOUS
  <2>3. /\ new = [c \in Counters |-> new[c]] /\ new[k] = past[k] \union {<<now, n>>}
        /\ \A c \in Counters \ {k} : new[c] = past[c]
    BY <1>5, <2>1, <2>2
  <2>4. Within(e, past[k] \union {<<now, n>>}, k)
    <3>1. CASE Counts(s, k)
      <4>1. s.row[k].count < Limit[k]
        BY <1>5, <1>6, <3>1, LimitsAreNumbers DEF Spent, IsEntry
      <4> QED
        BY <1>2, <1>4, <1>5, <3>1, <4>1, WentUp
    <3>2. CASE ~Counts(s, k)
      BY <1>2, <1>4, <1>5, <3>2, Opened
    <3> QED
      BY <3>1, <3>2
  <2> QED
    BY <1>3, <2>2, <2>3, <2>4 DEF Kept
<1>7. ASSUME Spent(s, k) PROVE Kept(w, past)
  <2>1. Counts(s, k)
    BY <1>7 DEF Spent
  <2>2. Within(e, past[k], k)
    BY <1>2, <1>4, <1>5, <2>1, WentUp
  <2> QED
    BY <1>3, <1>5, <2>2 DEF Kept
<1> QED
  BY <1>1, <1>6, <1>7

LEMMA ClearedKept ==
  ASSUME NEW s, NEW past, Kept(s, past), now \in Nat, NEW k \in Counters
  PROVE  Kept(Cleared(s, k), Anew(past, {k}))
<1>1. PICK w : w = Cleared(s, k)
  OBVIOUS
<1>2. IsStore(w) /\ \A c \in Counters : w.row[c] = IF c \in {k} THEN NoEntry ELSE s.row[c]
  BY <1>1, WithoutRows DEF Cleared, Kept
<1>3. PICK new : new = Anew(past, {k})
  OBVIOUS
<1>4. new = [c \in Counters |-> IF c \in {k} THEN {} ELSE past[c]]
  BY <1>3 DEF Anew
<1>5. ASSUME NEW c \in Counters PROVE Within(w.row[c], new[c], c)
  <2>1. CASE c = k
    BY <1>2, <1>4, <2>1, NoEntryIs, Blank
  <2>2. CASE c # k
    BY <1>2, <1>4, <2>2 DEF Kept
  <2> QED
    BY <2>1, <2>2
<1> QED
  BY <1>1, <1>2, <1>3, <1>4, <1>5 DEF Kept

LEMMA FreshKept ==
  ASSUME now \in Nat
  PROVE  Kept(Fresh, Nothing)
<1>1. \A k \in Counters : Within(NoEntry, {}, k)
  BY NoEntryIs, Blank
<1>2. IsStore(Fresh) /\ \A k \in Counters : Fresh.row[k] = NoEntry
  BY DEF IsStore, Fresh
<1> QED
  BY <1>1, <1>2 DEF Kept, Nothing

LEMMA NextRate == RateInv /\ [RateNext]_counting => RateInv'
<1> SUFFICES ASSUME RateInv, [RateNext]_counting PROVE RateInv'
  OBVIOUS
<1>a. now \in Nat /\ Kept(store, passed)
  BY DEF RateInv
\* What a step does that takes no time.
<1>b. ASSUME NEW s, NEW past, Kept(s, past), now' = now, store' = s, passed' = past
      PROVE  RateInv'
  <2>1. \A k \in Counters : Within(s.row[k], past[k], k)'
    BY <1>b DEF Kept, Within, IsEntry, Counting, Running, Expired, Burst
  <2> QED
    BY <1>a, <1>b, <2>1 DEF RateInv, Kept, IsStore
<1>1. ASSUME NEW k \in Callers, Attempt(k) PROVE RateInv'
  <2>1. PICK s : s = Swept(store)
    OBVIOUS
  <2>2. PICK past : past = Anew(passed, Forgotten(store))
    OBVIOUS
  <2>3. Kept(s, past) /\ k \in Counters
    BY <1>a, <2>1, <2>2, SweptKept DEF Counters
  <2>4. /\ now' = now
        /\ \/ store' = s /\ passed' = past
           \/ ~Spent(s, k) /\ store' = Counted(s, k) /\ passed' = Let(past, k)
    BY <1>1, <2>1, <2>2 DEF Attempt
  <2>5. ~Spent(s, k) => Kept(Counted(s, k), Let(past, k))
    BY <1>a, <2>3, CountedKept
  <2> QED
    BY <1>b, <2>3, <2>4, <2>5
<1>2. ASSUME NEW k \in Callers, NEW e \in Typed, NEW right \in BOOLEAN, SignIn(k, e, right)
      PROVE  RateInv'
  <2>1. PICK s : s = Swept(store)
    OBVIOUS
  <2>2. PICK past : past = Anew(passed, Forgotten(store))
    OBVIOUS
  <2>3. Kept(s, past) /\ k \in Counters /\ e \in Counters
    BY <1>a, <2>1, <2>2, SweptKept DEF Counters
  <2>4. PICK served : served = Counted(s, k)
    OBVIOUS
  <2>5. PICK then : then = Let(past, k)
    OBVIOUS
  <2>6. ~Spent(s, k) => Kept(served, then)
    BY <1>a, <2>3, <2>4, <2>5, CountedKept
  <2>7. PICK again : again = Swept(served)
    OBVIOUS
  <2>8. PICK later : later = Anew(then, Forgotten(served))
    OBVIOUS
  <2>9. ~Spent(s, k) => Kept(again, later)
    BY <1>a, <2>6, <2>7, <2>8, SweptKept
  <2>10. /\ now' = now
         /\ \/ store' = s /\ passed' = past
            \/ ~Spent(s, k) /\ store' = Counted(again, e)
               /\ passed' = IF Spent(served, e) THEN later ELSE Let(later, e)
            \/ ~Spent(s, k) /\ store' = served /\ passed' = then
            \/ ~Spent(s, k) /\ store' = Cleared(served, e) /\ passed' = Anew(then, {e})
    BY <1>2, <2>1, <2>2, <2>4, <2>5, <2>7, <2>8 DEF SignIn, Recorded
  <2>11. CASE store' = s /\ passed' = past
    BY <1>b, <2>3, <2>10, <2>11
  <2>12. CASE ~Spent(s, k) /\ store' = served /\ passed' = then
    BY <1>b, <2>6, <2>10, <2>12
  <2>13. CASE ~Spent(s, k) /\ store' = Cleared(served, e) /\ passed' = Anew(then, {e})
    <3>1. Kept(Cleared(served, e), Anew(then, {e}))
      BY <1>a, <2>3, <2>6, <2>13, ClearedKept
    <3> QED
      BY <1>b, <2>10, <2>13, <3>1
  <2>14. CASE /\ ~Spent(s, k) /\ store' = Counted(again, e)
              /\ passed' = IF Spent(served, e) THEN later ELSE Let(later, e)
    <3>1. Kept(served, then) /\ Kept(again, later) /\ IsStore(served)
      BY <2>6, <2>9, <2>14 DEF Kept
    <3>2. again.row[e] = served.row[e] \/ again.row[e] = NoEntry
      BY <2>3, <2>7, <3>1, SweptRows
    <3>3. CASE ~Spent(served, e)
      <4>1. ~Spent(again, e)
        BY <3>2, <3>3 DEF Spent, Counts, NoEntry
      <4>2. Kept(Counted(again, e), Let(later, e))
        BY <1>a, <2>3, <3>1, <4>1, CountedKept
      <4> QED
        BY <1>b, <2>10, <2>14, <3>3, <4>2
    <3>4. CASE Spent(served, e) /\ Spent(again, e)
      <4>1. Kept(Counted(again, e), later)
        BY <1>a, <2>3, <3>1, <3>4, CountedKept
      <4> QED
        BY <1>b, <2>10, <2>14, <3>4, <4>1
    <3>5. CASE Spent(served, e) /\ ~Spent(again, e)
      <4>1. again.row[e] # served.row[e]
        BY <3>5 DEF Spent, Counts
      <4>2. e \in Forgotten(served) /\ again.row[e] = NoEntry
        BY <2>3, <2>7, <3>1, <3>5, <4>1, SweptRows DEF Spent, Counts
      <4>3. later[e] = {}
        BY <2>3, <2>8, <4>2 DEF Anew
      <4>4. PICK w : w = Counted(again, e)
        OBVIOUS
      <4>5. IsStore(w) /\ w.row[e] = Entry(e) /\ \A c \in Counters \ {e} : w.row[c] = again.row[c]
        <5>1. ~Counts(again, e)
          BY <4>2 DEF Counts, NoEntry
        <5> QED
          BY <2>3, <3>1, <4>4, <5>1, PutRows DEF Counted, Kept
      <4>6. IsEntry(Entry(e), e)
        <5>1. PICK q : q = Entry(e)
          OBVIOUS
        <5> QED
          BY <1>a, <5>1 DEF Entry, IsEntry
      <4>7. Within(Entry(e), {}, e)
        BY <1>a, <2>3, <4>6, Blank
      <4>8. Kept(w, later)
        BY <3>1, <4>3, <4>5, <4>7 DEF Kept
      <4> QED
        BY <1>b, <2>10, <2>14, <3>5, <4>4, <4>8
    <3> QED
      BY <3>3, <3>4, <3>5
  <2> QED
    BY <2>10, <2>11, <2>12, <2>13, <2>14
<1>3. CASE Tick
  <2>1. now' = now + 1 /\ store' = store /\ passed' = passed
    BY <1>3 DEF Tick
  <2>2. PICK s : s = store
    OBVIOUS
  <2>3. PICK past : past = passed
    OBVIOUS
  <2>4. \A k \in Counters : Within(s.row[k], past[k], k)'
    <3> SUFFICES ASSUME NEW k \in Counters PROVE Within(s.row[k], past[k], k)'
      OBVIOUS
    <3>1. PICK r, P : r = s.row[k] /\ P = past[k]
      OBVIOUS
    <3>2. Within(r, P, k)'
      BY <1>a, <2>1, <2>2, <2>3, <3>1, Ticked DEF Kept
    <3> QED
      BY <3>1, <3>2
  <2>5. now' \in Nat
    BY <1>a, <2>1
  <2> QED
    BY <1>a, <2>1, <2>2, <2>3, <2>4, <2>5 DEF RateInv, Kept, IsStore
<1>4. CASE Replace
  BY <1>a, <1>b, <1>4, FreshKept DEF Replace
<1>5. CASE UNCHANGED counting
  BY <1>a, <1>b, <1>5 DEF counting
<1> QED
  BY <1>1, <1>2, <1>3, <1>4, <1>5 DEF RateNext

\* Whatever the limits and windows, however many callers there are and wherever
\* sweeps fall, nobody is let do more than twice his limit in the length of one
\* window (_check_limit, record_failure): the window that is open and the one
\* before it each let through no more than the limit, and no third reaches in.
THEOREM BurstsBounded == RateSpec => []BurstBounded
<1>1. RateInit => RateInv
  BY FreshKept DEF RateInit, RateInv
<1>2. RateInv => BurstBounded
  <2> SUFFICES ASSUME RateInv, NEW k \in Counters, NEW t \in 0..now
               PROVE  Cardinality({p \in passed[k] : p[1] \in t..(t + Window[k])}) <= 2 * Limit[k]
    BY DEF BurstBounded
  <2>1. Within(store.row[k], passed[k], k) /\ now \in Nat /\ Window[k] \in Nat
    BY LimitsAreNumbers DEF RateInv, Kept
  <2>2. {p \in passed[k] : p[1] \in t..(t + Window[k])} = Span(passed[k], t, t + Window[k])
    <3>1. \A p \in passed[k] : p[1] \in Nat
      BY <2>1 DEF Within, Stamps
    <3> QED
      BY <2>1, <3>1 DEF Span
  <2> QED
    BY <2>1, <2>2 DEF Within, Burst
<1> QED
  BY <1>1, <1>2, NextRate, PTL DEF RateSpec
=============================================================================
