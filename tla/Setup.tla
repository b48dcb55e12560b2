------------------------------- MODULE Setup --------------------------------
(***************************************************************************)
(* The first-run wizard and the marks it leaves (controllers/setup.py,     *)
(* platform/install.py and config_store.py, the setup gate of __init__.py, *)
(* `flask setup reset`, `flask seed supremely` and `flask seed demo`).  The *)
(* last step writes in six places: config.env, the administrator, the      *)
(* organization in two commits, config.env again, the scratch file; it may *)
(* stop between any two, and another wizard or the operator may be at the  *)
(* same step.  What the seeds build, organizations of their own, is left   *)
(* out; that they mark the installation and with what behind it is here.   *)
(***************************************************************************)
EXTENDS Naturals

CONSTANTS
  Wizards,      \* browser sessions at the wizard
  Operator,     \* the command line
  Processes,    \* processes that serve the application
  Domains,      \* base domains that are typed
  Nil           \* nothing yet

SetupAssumption == Operator \notin Wizards /\ Nil \notin Processes /\ Nil \notin [by : Wizards, org : BOOLEAN]
ASSUME SetupAssumption

VARIABLES
  config,       \* config.env: BASE_DOMAIN, and SETUP_COMPLETE as the one who wrote
                \* it (who it was is history: the code asks IsComplete)
  ready,        \* processes that have cached SETUP_COMPLETE
  admin,        \* the administrator seeded, with what his wizard had asked for
  staff,        \* whether the command line made an administrator, under an
                \* address of his own
  org,          \* the first organization
  scratch,      \* scratch[w]: what w has filled in, on the data volume
  applying      \* applying[w]: where the last step of w is

setup == <<config, ready, admin, staff, org, scratch, applying>>

Empty == [domain |-> Nil, password |-> FALSE]
Resting == [at |-> "idle", process |-> Nil, blob |-> Nil, org |-> FALSE]
Actors == Wizards \union {Operator}

SetupInit ==
  /\ config = [domain |-> Nil, mark |-> "none"]
  /\ ready = {}
  /\ admin = Nil
  /\ staff = FALSE
  /\ org = "none"
  /\ scratch = [w \in Wizards |-> Empty]
  /\ applying = [a \in Actors |-> Resting]

\* enforce_setup and installation_ready: a process that has seen the mark never
\* serves the wizard again.
IsComplete(file) == file.mark # "none"
Gate(p) == p \notin ready /\ ~IsComplete(config)

Notice(p) ==
  /\ IsComplete(config) /\ p \notin ready
  /\ ready' = ready \union {p}
  /\ UNCHANGED <<config, admin, staff, org, scratch, applying>>

Environment(w, p, domain) ==
  /\ Gate(p) /\ applying[w].at = "idle"
  /\ scratch' = [scratch EXCEPT ![w].domain = domain]
  /\ UNCHANGED <<config, ready, admin, staff, org, applying>>

Password(w, p) ==
  /\ Gate(p) /\ applying[w].at = "idle"
  /\ scratch' = [scratch EXCEPT ![w].password = TRUE]
  /\ UNCHANGED <<config, ready, admin, staff, org, applying>>

Launch(a, started) ==
  /\ applying[a].at = "idle"
  /\ applying' = [applying EXCEPT ![a] = started]
Enter(a, place) == applying' = [applying EXCEPT ![a].at = place, ![a].blob = Nil]

\* organization: behind the gate; the slug is free, unless the step is skipped.
Organize(w, p, wanted) ==
  /\ Gate(p)
  /\ scratch[w].domain # Nil /\ scratch[w].password
  /\ wanted => org = "none"
  /\ Launch(w, [Resting EXCEPT !.at = "organized", !.process = p, !.org = wanted,
                               !.blob = [domain |-> scratch[w].domain, mark |-> "none"]])
  /\ UNCHANGED <<config, ready, admin, staff, org, scratch>>

\* _apply reads config.env to write the domain: the mark may be in it by now.
ReadConfig(w) ==
  /\ applying[w].at = "organized"
  /\ applying' = [applying EXCEPT ![w].at = "domain", ![w].blob = [@ EXCEPT !.mark = config.mark]]
  /\ UNCHANGED <<config, ready, admin, staff, org, scratch>>

\* Fault: the mark is written along with the domain.
WriteDomainAndMark(w) ==
  /\ applying[w].at = "domain"
  /\ config' = [applying[w].blob EXCEPT !.mark = "wizard"]
  /\ Enter(w, "seeding")
  /\ UNCHANGED <<ready, admin, staff, org, scratch>>

\* write_runtime_config: the file is replaced by what was read, merged.
WriteDomain(w) ==
  /\ applying[w].at = "domain"
  /\ config' = applying[w].blob
  /\ Enter(w, "seeding")
  /\ UNCHANGED <<ready, admin, staff, org, scratch>>

\* seed_installation: settings and administrator in one commit, under the
\* unique email; the organization is validated before anything is written.
MaySeed(w) == admin = Nil /\ (applying[w].org => org = "none")

Seed(w) ==
  /\ applying[w].at = "seeding" /\ MaySeed(w)
  /\ admin' = [by |-> w, org |-> applying[w].org]
  /\ Enter(w, IF applying[w].org THEN "tier" ELSE "read")
  /\ UNCHANGED <<config, ready, staff, org, scratch>>

\* provision: ensure_default commits the organization with its tier, the
\* membership and the starter content follow.
ProvisionTier(w) ==
  /\ applying[w].at = "tier" /\ org = "none"
  /\ org' = "bare"
  /\ Enter(w, "owner")
  /\ UNCHANGED <<config, ready, admin, staff, scratch>>

ProvisionOwner(w) ==
  /\ applying[w].at = "owner"
  /\ org' = "owned"
  /\ Enter(w, "read")
  /\ UNCHANGED <<config, ready, admin, staff, scratch>>

\* mark_installed: config.env once more, read again and merged.
MergeMark(a) == [config EXCEPT !.mark = IF a = Operator THEN "console" ELSE "wizard"]

ReadMark(a) ==
  /\ applying[a].at = "read"
  /\ applying' = [applying EXCEPT ![a].at = "mark", ![a].blob = MergeMark(a)]
  /\ UNCHANGED <<config, ready, admin, staff, org, scratch>>

WriteMark(a) ==
  /\ applying[a].at = "mark"
  /\ config' = applying[a].blob
  /\ ready' = ready \union ({applying[a].process} \ {Nil})
  /\ IF a = Operator THEN applying' = [applying EXCEPT ![a] = Resting] ELSE Enter(a, "clear")
  /\ UNCHANGED <<admin, staff, org, scratch>>

Clear(w) ==
  /\ applying[w].at = "clear"
  /\ scratch' = [scratch EXCEPT ![w] = Empty]
  /\ applying' = [applying EXCEPT ![w] = Resting]
  /\ UNCHANGED <<config, ready, admin, staff, org>>

\* What seed_installation refuses: an administrator or the slug is there.
Refused(w) ==
  /\ applying[w].at = "seeding" /\ ~MaySeed(w)
  /\ applying' = [applying EXCEPT ![w] = Resting]
  /\ UNCHANGED <<config, ready, admin, staff, org, scratch>>

\* A failed commit or the end of the process.
Halt(a) ==
  /\ applying[a].at # "idle"
  /\ applying' = [applying EXCEPT ![a] = Resting]
  /\ UNCHANGED <<config, ready, admin, staff, org, scratch>>

Restart(p) ==
  /\ p \in ready
  /\ \A w \in Wizards : applying[w].process # p
  /\ ready' = ready \ {p}
  /\ UNCHANGED <<config, admin, staff, org, scratch, applying>>

\* reset_wizard: the same read, merge and replace from the command line.
BeginReset ==
  /\ Launch(Operator, [Resting EXCEPT !.at = "reset", !.blob = [config EXCEPT !.mark = "none"]])
  /\ UNCHANGED <<config, ready, admin, staff, org, scratch>>

WriteReset ==
  /\ applying[Operator].at = "reset"
  /\ config' = applying[Operator].blob
  /\ applying' = [applying EXCEPT ![Operator] = Resting]
  /\ UNCHANGED <<ready, admin, staff, org, scratch>>

\* seed_supremely: an administrator is made or promoted where there is none; the
\* demo makes its own, and does not ask whether the installation is ready.
SeedConsole(demo) ==
  /\ staff' = (staff \/ demo \/ admin = Nil)
  /\ Launch(Operator, [Resting EXCEPT !.at = IF demo THEN "read" ELSE "asking"])
  /\ UNCHANGED <<config, ready, admin, org, scratch>>

AskReady ==
  /\ applying[Operator].at = "asking"
  /\ applying' = [applying EXCEPT ![Operator] = IF IsComplete(config) THEN Resting ELSE [@ EXCEPT !.at = "read"]]
  /\ UNCHANGED <<config, ready, admin, staff, org, scratch>>

SetupSteps ==
  \/ \E w \in Wizards :
       \/ \E p \in Processes : \/ Password(w, p)
                               \/ \E domain \in Domains : Environment(w, p, domain)
                               \/ \E wanted \in BOOLEAN : Organize(w, p, wanted)
       \/ ReadConfig(w) \/ WriteDomain(w) \/ Seed(w) \/ ProvisionTier(w) \/ ProvisionOwner(w)
       \/ Clear(w) \/ Refused(w)
  \/ \E a \in Actors : ReadMark(a) \/ WriteMark(a)
  \/ \E p \in Processes : Notice(p) \/ Restart(p)
  \/ BeginReset \/ WriteReset \/ AskReady
  \/ \E demo \in BOOLEAN : SeedConsole(demo)

SetupNext == SetupSteps \/ \E a \in Actors : Halt(a)
SetupSpec == SetupInit /\ [][SetupNext]_setup

-----------------------------------------------------------------------------
(* Properties *)

\* An installation that says it is complete has somebody who administers it; and
\* where a wizard said so, the administrator his wizard promised, and for the
\* organization that wizard was asked for an owner: wherever another wizard was
\* stopped or refused, and whatever was read before it was reset or marked from
\* the command line.  (The command line promises only the administrator: what a
\* wizard that died left behind it marks as complete.)
CompleteIsSeeded ==
  IsComplete(config) =>
    /\ admin # Nil \/ staff
    /\ config.mark = "wizard" => admin # Nil /\ (admin.org => org = "owned")

=============================================================================
