------------------------------- MODULE Themes -------------------------------
(***************************************************************************)
(* Themes: packages unpacked onto the data volume (platform/theming.py),   *)
(* the registry each process of the server made of them when it last       *)
(* looked, and the theme and the settings an organization has saved        *)
(* (Manage -> Theme).  "origin" ships with the application.                *)
(***************************************************************************)
EXTENDS Naturals, FiniteSets

CONSTANTS
  Skins,        \* slugs that may be installed; "origin" is not one
  Servers,      \* processes, each with a registry of its own
  Admins,       \* people at the console at the same time
  NoSkin

ThemesAssumption == "origin" \notin Skins /\ NoSkin \notin Skins \union {"origin"}
ASSUME ThemesAssumption

VARIABLES
  unpacked,     \* unpacked[s]: the files in the directory of theme s
  available,    \* available[p]: the installed themes in AVAILABLE_THEMES of process p
  chosen,       \* Organization.theme
  configured,   \* the theme that settings.theme_config was saved for, NoSkin at first
  errand,       \* errand[c]: the request of administrator c
  orderly       \* history: since a save last ran by itself, no save or removal met
                \* another, a registry that was wrong about its theme, or its end
                \* between two commits

theming == <<unpacked, available, chosen, configured, errand, orderly>>

PackageFiles == {"theme.json", "layout.html"}
NoErrand == [at |-> "idle", skin |-> NoSkin, host |-> NoSkin, was |-> NoSkin, alone |-> FALSE]

OnDisk == {s \in Skins : "theme.json" \in unpacked[s]}
Aware(p) == available[p] = OnDisk
Offered(p) == available[p] \union {"origin"}

ThemesInit ==
  /\ unpacked = [s \in Skins |-> {}] /\ available = [p \in Servers |-> {}]
  /\ chosen = "origin" /\ configured = NoSkin
  /\ errand = [c \in Admins |-> NoErrand] /\ orderly = TRUE

\* What a request does to the theme in use, another must not do beside it.
Minding(c) == errand[c].at \in {"choosing", "saved", "removing"}
Undisturbed == \A c \in Admins : ~Minding(c)

Start(c, e) == errand[c] = NoErrand /\ errand' = [errand EXCEPT ![c] = e]

\* The history of a save or a removal, which any other is disturbed by.
StartMinding(c, e, found) ==
  /\ errand[c] = NoErrand
  /\ errand' = [d \in Admins |-> IF d = c THEN [e EXCEPT !.alone = found /\ Undisturbed]
                                 ELSE [errand[d] EXCEPT !.alone = FALSE]]
  /\ orderly' = (orderly /\ found /\ Undisturbed)

Finish(c) == errand' = [errand EXCEPT ![c] = NoErrand]

\* saved_theme: what no longer resolves is Origin.
SavedTheme(p) == IF chosen \in available[p] THEN chosen ELSE "origin"

\* current_theme, and theme_setting_values of the picker: a preview counts where it
\* resolves.
CurrentTheme(p, preview) == IF preview \in Offered(p) THEN preview ELSE SavedTheme(p)

\* theme_config: the stored settings are worn by the saved theme only.
Wears(p, preview) == configured # NoSkin /\ CurrentTheme(p, preview) = SavedTheme(p)

-----------------------------------------------------------------------------
\* init_theming, scan_themes: what is on the volume when the process starts.
Boot(p) ==
  /\ available' = [available EXCEPT ![p] = OnDisk]
  /\ errand' = [c \in Admins |-> IF errand[c].host = p THEN NoErrand ELSE errand[c]]
  /\ orderly' = (orderly /\ \A c \in Admins : errand[c].host = p => errand[c].at # "saved")
  /\ UNCHANGED <<unpacked, chosen, configured>>

\* install_theme_zip: the files of a package that was found fit, one by one over
\* those of an earlier version, and a look at the volume in this process.
Install(c, s, p) ==
  /\ Start(c, [NoErrand EXCEPT !.at = "unpacking", !.skin = s, !.host = p])
  /\ UNCHANGED <<unpacked, available, chosen, configured, orderly>>

Unpack(c, file) ==
  /\ errand[c].at = "unpacking"
  /\ unpacked' = [unpacked EXCEPT ![errand[c].skin] = @ \union {file}]
  /\ UNCHANGED <<available, chosen, configured, errand, orderly>>

\* Fault: what is in use is removed as well.
AnyRemovable(s, p) == s \in available[p]

\* uninstall_theme: an installed theme nobody has chosen.
Removable(s, p) == s \in available[p] /\ chosen # s

Uninstall(c, s, p) ==
  /\ Removable(s, p)
  /\ StartMinding(c, [NoErrand EXCEPT !.at = "removing", !.skin = s, !.host = p], TRUE)
  /\ UNCHANGED <<unpacked, available, chosen, configured>>

RemoveTree(c) ==
  /\ errand[c].at = "removing"
  /\ unpacked' = [unpacked EXCEPT ![errand[c].skin] = {}]
  /\ errand' = [errand EXCEPT ![c] = [NoErrand EXCEPT !.at = "removed", !.host = errand[c].host]]
  /\ UNCHANGED <<available, chosen, configured, orderly>>

Rescan(c) ==
  /\ \/ errand[c].at = "removed"
     \/ errand[c].at = "unpacking" /\ unpacked[errand[c].skin] = PackageFiles
  /\ available' = [available EXCEPT ![errand[c].host] = OnDisk]
  /\ Finish(c) /\ UNCHANGED <<unpacked, chosen, configured, orderly>>

\* theme_settings: the organization was loaded when the request began, the theme
\* is one the process knows; two commits, the theme where it differs from the one
\* loaded, and then the settings checked for it.
BeginSave(c, s, p) ==
  /\ s \in Offered(p)
  /\ StartMinding(c, [NoErrand EXCEPT !.at = "choosing", !.skin = s, !.host = p, !.was = chosen],
                  s \in OnDisk \union {"origin"})
  /\ UNCHANGED <<unpacked, available, chosen, configured>>

SaveTheme(c) ==
  /\ errand[c].at = "choosing"
  /\ chosen' = IF errand[c].skin # errand[c].was THEN errand[c].skin ELSE chosen
  /\ errand' = [errand EXCEPT ![c].at = "saved", ![c].was = NoSkin]
  /\ UNCHANGED <<unpacked, available, configured, orderly>>

SaveConfig(c) ==
  /\ errand[c].at = "saved"
  /\ configured' = errand[c].skin
  /\ orderly' = (orderly \/ errand[c].alone)
  /\ Finish(c) /\ UNCHANGED <<unpacked, available, chosen>>

ThemesNext ==
  \/ \E p \in Servers : Boot(p)
  \/ \E c \in Admins :
       \/ RemoveTree(c) \/ Rescan(c) \/ SaveTheme(c) \/ SaveConfig(c)
       \/ \E file \in PackageFiles : Unpack(c, file)
       \/ \E s \in Skins, p \in Servers : Install(c, s, p) \/ Uninstall(c, s, p)
       \/ \E s \in Skins \union {"origin"}, p \in Servers : BeginSave(c, s, p)

ThemesSpec == ThemesInit /\ [][ThemesNext]_theming

-----------------------------------------------------------------------------
(* Properties *)

\* Stored settings belong to the theme they were saved against: between saves, a
\* process that knows what is installed puts them on no page and no preview in
\* another theme, the theme of the organization being removed included.  Saves and
\* removals that overlap, that were decided in a stale registry or that stopped
\* between two commits can break it, and one save that runs by itself mends that.
OwnSettings ==
  orderly => \A p \in {q \in Servers : Aware(q)}, preview \in Skins \union {"origin", NoSkin} :
    Wears(p, preview) /\ (\A c \in Admins : errand[c].at # "saved") => CurrentTheme(p, preview) = configured
=============================================================================
