------------------------------ MODULE Plugins -------------------------------
(***************************************************************************)
(* Plugins of one organization (platform/plugins.py, the plugin routes of  *)
(* controllers/manage.py): what is on disk, what is installed at which     *)
(* major, what a request is about to write.  To install a plugin installs  *)
(* what it requires first, each in a commit of its own.                    *)
(***************************************************************************)
EXTENDS Naturals, Sequences

CONSTANTS
  Plugs,        \* plugins, by slug
  Requires,     \* Requires[s]: the plugins that plugin s requires, in order
  Majors,       \* Majors[s]: the major versions there have been of s
  Clients       \* requests that may be under way at the same time

\* Every plugin of the first version has its requirements beside it.
ASSUME PluginsAssumption ==
  /\ Requires \in [Plugs -> Seq(Plugs)]
  /\ Majors \in [Plugs -> SUBSET Nat]
  /\ \A s \in Plugs : Majors[s] # {} => \A k \in DOMAIN Requires[s] : Majors[Requires[s][k]] # {}

VARIABLES
  disk,         \* disk[s]: the majors of s on disk; the registry of every process
  pin,          \* pin[s]: the row of org_plugin for s
  lifting       \* lifting[c]: the calls request c is in, the innermost first, and
                \* the row it has read

plugging == <<disk, pin, lifting>>

NoPin == [there |-> FALSE, major |-> 0, enabled |-> FALSE]
Stopped == [at |-> "idle", calls |-> <<>>, seen |-> NoPin, major |-> 0, alone |-> TRUE]

\* discover and _in_dependency_order: a plugin with a missing requirement does
\* not boot.
Needs(s) == {Requires[s][k] : k \in DOMAIN Requires[s]}
Bootable(d) == \A s \in Plugs : d[s] # {} => \A n \in Needs(s) : d[n] # {}

\* check_stranded_pins: nor does a pin that is in use and not on disk.
Stranded(d) == {s \in Plugs : pin[s].enabled /\ pin[s].major \notin d[s]}

PluginsInit ==
  /\ disk = Majors
  /\ pin = [s \in Plugs |-> NoPin]
  /\ lifting = [c \in Clients |-> Stopped]

DefaultMajor(s) == CHOOSE m \in disk[s] : \A k \in disk[s] : k <= m
Installed == {s \in Plugs : pin[s].enabled}
Dependents(s) == {t \in Installed : disk[t] # {} /\ s \in Needs(t)}

Lift(c, started) ==
  /\ lifting[c].at = "idle"
  /\ lifting' = [b \in Clients |->
       IF b = c THEN [started EXCEPT !.alone = \A q \in Clients \ {c} : lifting[q].at = "idle"]
                ELSE [lifting[b] EXCEPT !.alone = lifting[b].at = "idle"]]
Done(c) == lifting' = [lifting EXCEPT ![c] = Stopped]

-----------------------------------------------------------------------------
\* A new version of the application: all requests end, every process boots.
Deploy(s, majors) ==
  LET d == [disk EXCEPT ![s] = majors]
  IN /\ Bootable(d) /\ Stranded(d) = {}
     /\ disk' = d
     /\ lifting' = [c \in Clients |-> Stopped]
     /\ UNCHANGED pin

\* A call of install (or of uninstall, or upgrade): its plugin, and the first of
\* the requirements that its loop has not come to.
Call(s) == [plug |-> s, next |-> 1]
Plug(c) == Head(lifting[c].calls).plug

\* Fault: a requirement that has a row is taken for installed.
OutstandingWithoutRow(call) ==
  /\ call.next <= Len(Requires[call.plug])
  /\ ~pin[Requires[call.plug][call.next]].there

Outstanding(call) == call.next <= Len(Requires[call.plug])

BeginInstall(c, s) ==
  /\ disk[s] # {}
  /\ Lift(c, [Stopped EXCEPT !.at = "install", !.calls = <<Call(s)>>])
  /\ UNCHANGED <<disk, pin>>

\* install calls itself for each requirement, before it looks for its own row.
Require(c) ==
  LET call == Head(lifting[c].calls)
  IN /\ lifting[c].at = "install"
     /\ Outstanding(call)
     /\ lifting' = [lifting EXCEPT ![c].calls =
          <<Call(Requires[call.plug][call.next]), [call EXCEPT !.next = @ + 1]>> \o Tail(@)]
     /\ UNCHANGED <<disk, pin>>

\* Each transaction reads the row; another may commit before it does.
ReadRow(c) ==
  /\ lifting[c].at = "install"
  /\ ~Outstanding(Head(lifting[c].calls))
  /\ lifting' = [lifting EXCEPT ![c].at = "enable", ![c].seen = pin[Plug(c)]]
  /\ UNCHANGED <<disk, pin>>

\* A row that is there keeps its pin, and is written only if it was disabled; a
\* second row of one plugin is refused (Abandon).
SaveRow(c) ==
  LET s == Plug(c)
      rest == Tail(lifting[c].calls)
  IN /\ lifting[c].at = "enable"
     /\ lifting[c].seen.there = pin[s].there
     /\ pin' = IF lifting[c].seen.there
                  THEN [pin EXCEPT ![s].enabled = @ \/ ~lifting[c].seen.enabled]
                  ELSE [pin EXCEPT ![s] = [there |-> TRUE, major |-> DefaultMajor(s), enabled |-> TRUE]]
     /\ IF rest = <<>> THEN Done(c)
        ELSE lifting' = [lifting EXCEPT ![c].at = "install", ![c].calls = rest]
     /\ UNCHANGED disk

\* uninstall: not while an installed plugin requires it.
MayUninstall(s) == Dependents(s) = {}

BeginUninstall(c, s) ==
  /\ MayUninstall(s)
  /\ pin[s].there
  /\ Lift(c, [Stopped EXCEPT !.at = "disable", !.calls = <<Call(s)>>, !.seen = pin[s]])
  /\ UNCHANGED <<disk, pin>>

SaveUninstall(c) ==
  /\ lifting[c].at = "disable"
  /\ pin' = [pin EXCEPT ![Plug(c)].enabled = @ /\ ~lifting[c].seen.enabled]
  /\ Done(c)
  /\ UNCHANGED disk

\* upgrade: to a major on disk, up or down.
BeginUpgrade(c, s, major) ==
  /\ pin[s].there /\ pin[s].major # major
  /\ major \in disk[s]
  /\ Lift(c, [Stopped EXCEPT !.at = "upgrade", !.calls = <<Call(s)>>, !.seen = pin[s], !.major = major])
  /\ UNCHANGED <<disk, pin>>

SaveUpgrade(c) ==
  /\ lifting[c].at = "upgrade"
  /\ pin' = [pin EXCEPT ![Plug(c)].major = lifting[c].major]
  /\ Done(c)
  /\ UNCHANGED disk

Abandon(c) ==
  /\ lifting[c].at # "idle"
  /\ Done(c)
  /\ UNCHANGED <<disk, pin>>

PluginsNext ==
  \/ \E c \in Clients :
       \/ Require(c) \/ ReadRow(c) \/ SaveRow(c) \/ SaveUninstall(c) \/ SaveUpgrade(c) \/ Abandon(c)
       \/ \E s \in Plugs : \/ BeginInstall(c, s) \/ BeginUninstall(c, s)
                           \/ \E major \in Majors[s] : BeginUpgrade(c, s, major)
  \/ \E s \in Plugs : \E majors \in SUBSET Majors[s] : Deploy(s, majors)

PluginsSpec == PluginsInit /\ [][PluginsNext]_plugging

-----------------------------------------------------------------------------
(* Properties *)

\* dispatch, plugin_url_for and visible_nav_entries look a plugin up by its pin.
RequirementsMet == \A s \in Installed : Needs(s) \subseteq Installed

\* Requests that have the plugins to themselves never leave one enabled whose
\* requirements are not, wherever an installation of several commits stops.
RequirementsKept ==
  [][(RequirementsMet /\ \A c \in Clients : lifting[c].at # "idle" => lifting[c].alone)
       => RequirementsMet']_plugging
=============================================================================
