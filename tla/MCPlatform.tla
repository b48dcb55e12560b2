---- MODULE MCPlatform ----
(***************************************************************************)
(* Instances for TLC of the components that share nothing but the process: *)
(* the state space is explored in parts, chosen in the initial state, and  *)
(* in each of them the others stand still.  Mail is about notices that     *)
(* followers and the author get; its other kinds differ in who gets them.  *)
(***************************************************************************)
EXTENDS Setup, Plugins, Tenant, Uploads, RateLimit, Notices, Audience, Updates, Themes, TLC

VARIABLE part

state == <<setup, plugging, tenancy, storing, counting, noticing, listing, updating, theming>>
Parts == {"setup", "plugins", "hosts", "work", "uploads", "counters", "telling", "mail", "audience", "updates", "themes"}

\* "club" needs "shop", which needs "pay"; there have been two majors of "pay".
Needed == [s \in Plugs |-> IF s = "shop" THEN <<"pay">> ELSE IF s = "club" THEN <<"shop">> ELSE <<>>]
Published == [s \in Plugs |-> IF s = "pay" THEN {1, 2} ELSE {1}]

Allowed == [k \in Counters |-> IF k \in Typed THEN 2 ELSE 1]
Periods == [k \in Counters |-> IF k = "caller" THEN 1 ELSE 2]

\* Work is done while the organizations stand still; the guards do not ask their
\* status.
Populated == [o \in Orgs |-> IF o \in ReservedLabels THEN "none" ELSE "active"]

MCInit ==
  /\ part \in Parts
  /\ SetupInit /\ PluginsInit /\ UploadsInit /\ RateInit /\ NoticesInit /\ AudienceInit /\ UpdatesInit /\ ThemesInit
  /\ IF part = "work" THEN /\ status = Populated /\ domain = [n \in Names |-> Unclaimed]
                           /\ owner = [x \in Rows |-> Absent] /\ work = NoWork
     ELSE TenantInit

MCNext ==
  /\ UNCHANGED part
  /\ IF part = "setup" THEN SetupNext ELSE UNCHANGED setup
  /\ IF part = "plugins" THEN PluginsNext ELSE UNCHANGED plugging
  /\ IF part = "hosts" THEN Hosting ELSE IF part = "work" THEN Working ELSE UNCHANGED tenancy
  /\ IF part = "uploads" THEN UploadsNext ELSE UNCHANGED storing
  /\ IF part = "counters" THEN RateNext ELSE UNCHANGED counting
  /\ IF part = "telling" THEN Telling(People \union {NoOne}, SUBSET People, {FALSE})
     ELSE IF part = "mail" THEN Telling({NoOne}, {{}}, BOOLEAN) \/ Mailing ELSE UNCHANGED noticing
  /\ IF part = "audience" THEN AudienceNext ELSE UNCHANGED listing
  /\ IF part = "updates" THEN UpdatesNext ELSE UNCHANGED updating
  /\ IF part = "themes" THEN ThemesNext ELSE UNCHANGED theming

MCSpec == MCInit /\ [][MCNext]_<<state, part>>

\* One set of requests and one of rows serve all parts.
Symmetric == Permutations(Clients) \union Permutations(Rows)
====
