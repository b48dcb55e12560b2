------------------------------ MODULE Updates -------------------------------
(***************************************************************************)
(* Whether the installation is behind the published image                  *)
(* (platform/updates.py, the banner of the console).  A job asks the       *)
(* registry on a thread it may walk away from, and keeps what it was told  *)
(* in one row; pages compare that row with the build they run.             *)
(***************************************************************************)
EXTENDS Naturals

CONSTANTS
  Checkers,     \* workers that may run the check at the same time
  Grace,        \* builds no further apart are the same build
  LastBuild,    \* bound on the dates at which images are built and published
  Unknown       \* no answer, no date

ASSUME UpdatesAssumption == Grace \in Nat /\ LastBuild \in Nat /\ Unknown \notin Nat

VARIABLES
  running,      \* when the image that runs was built, Unknown from source
  enabled,      \* UPDATE_CHECK_ENABLED
  latest,       \* the row updates.latest_built_at
  checking,     \* checking[c]: where the check of c is, and what its thread was told
  dismissed     \* the tokens the browser of an administrator remembers

updating == <<running, enabled, latest, checking, dismissed>>

Unasked == [at |-> "idle", told |-> Unknown]

UpdatesInit ==
  /\ running \in {0, Unknown} /\ enabled = TRUE
  /\ latest = Unknown /\ dismissed = {}
  /\ checking = [c \in Checkers |-> Unasked]

\* pending_update: only on a definite answer.
Pending ==
  enabled /\ running # Unknown /\ latest # Unknown /\ latest > running + Grace

\* The console draws it unless this very answer was dismissed.
Banner == Pending /\ latest \notin dismissed

\* A new image, or other settings: everything is started anew.
Redeploy(image, setting) ==
  /\ image = Unknown <=> running = Unknown
  /\ running' = image /\ enabled' = setting
  /\ checking' = [c \in Checkers |-> Unasked]
  /\ UNCHANGED <<latest, dismissed>>

Dismiss == /\ Banner /\ dismissed' = dismissed \union {latest}
           /\ UNCHANGED <<running, enabled, latest, checking>>

-----------------------------------------------------------------------------
\* _update_check, fetch_latest_built_at: not when switched off, nor from source.
AskRegistry(c) ==
  /\ enabled /\ running # Unknown /\ checking[c].at = "idle"
  /\ checking' = [checking EXCEPT ![c].at = "asking"]
  /\ UNCHANGED <<running, enabled, latest, dismissed>>

\* _fetch: whatever date the registry says, or nothing that is one.
Hear(c, answer) ==
  /\ checking[c].at = "asking"
  /\ checking' = [checking EXCEPT ![c].at = "told", ![c].told = answer]
  /\ UNCHANGED <<running, enabled, latest, dismissed>>

\* The budget is over: the thread is left alone, and what it hears is lost.
GiveUp(c) ==
  /\ checking[c].at = "asking"
  /\ checking' = [checking EXCEPT ![c].at = "told"]
  /\ UNCHANGED <<running, enabled, latest, dismissed>>

\* Fault: no answer is an answer.
Overwritten(told) == told

\* record_check: the last answer stands when there is none.
Kept(told) == IF told = Unknown THEN latest ELSE told

RecordCheck(c) ==
  /\ checking[c].at = "told"
  /\ latest' = Kept(checking[c].told)
  /\ checking' = [checking EXCEPT ![c] = Unasked]
  /\ UNCHANGED <<running, enabled, dismissed>>

UpdatesNext ==
  \/ Dismiss
  \/ \E image \in (0..LastBuild) \union {Unknown}, setting \in BOOLEAN : Redeploy(image, setting)
  \/ \E c \in Checkers : \/ AskRegistry(c) \/ GiveUp(c) \/ RecordCheck(c)
                         \/ \E answer \in (0..LastBuild) \union {Unknown} : Hear(c, answer)

UpdatesSpec == UpdatesInit /\ [][UpdatesNext]_updating

-----------------------------------------------------------------------------
(* Properties *)

\* Once the console says that the installation is behind, it goes on saying so:
\* until it is restarted on another image or with other settings, what it says has
\* been dismissed, or a check that was not given up was told a date, and one that
\* is not newer than the image that runs.  However many checks overlap, come to
\* nothing or are walked away from.
BannerKept ==
  [][Banner => \/ Banner' \/ running' # running \/ enabled' # enabled \/ latest' \in dismissed'
               \/ \E c \in Checkers : /\ checking[c].at = "told" /\ checking'[c].at = "idle"
                                      /\ checking[c].told # Unknown /\ checking[c].told <= running + Grace]_updating
=============================================================================
