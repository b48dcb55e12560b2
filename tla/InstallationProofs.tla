------------------------- MODULE InstallationProofs -------------------------
(* Theorems about what an installation is given: its setup, for any number of  *)
(* wizards and processes; its themes, for any number of themes, processes and  *)
(* people; its news of updates; and its plugins, whatever they require.        *)
EXTENDS Setup, Themes, Updates, Plugins, TLAPS

-----------------------------------------------------------------------------
(* Setup *)

File == [domain : Domains \union {Nil}, mark : {"none", "wizard", "console"}]
Places == {"idle", "organized", "domain", "seeding", "tier", "owner", "read", "mark", "clear", "reset", "asking"}
Application == [at : Places, process : Processes \union {Nil}, blob : File \union {Nil}, org : BOOLEAN]

SetupTyped ==
  /\ config \in File
  /\ admin \in [by : Wizards, org : BOOLEAN] \union {Nil}
  /\ staff \in BOOLEAN
  /\ scratch \in [Wizards -> [domain : Domains \union {Nil}, password : BOOLEAN]]
  /\ applying \in [Actors -> Application]

\* What a mark stands for, by who wrote it.
IsStaffed == admin # Nil \/ staff
IsSeeded == admin # Nil /\ (admin.org => org = "owned")
Honest(file) == (IsComplete(file) => IsStaffed) /\ (file.mark = "wizard" => IsSeeded)

\* What a request at each step has found or made, and what it holds of config.env:
\* who is about to write a mark has seeded all of it, or is the command line.
Backed(a, r) ==
  /\ r.at \in {"organized", "domain", "mark", "reset"} => r.blob \in File /\ Honest(r.blob)
  /\ r.at \in {"tier", "owner"} => admin # Nil
  /\ r.at = "read" => (IF a = Operator THEN IsStaffed ELSE IsSeeded)
  /\ r.at = "asking" => IsStaffed

\* CompleteIsSeeded is not inductive: the file is replaced by what was read of it
\* long before.
SetupInv ==
  /\ SetupTyped
  /\ Honest(config)
  /\ \A a \in Actors : Backed(a, applying[a])

LEMMA InitSetup == SetupInit => SetupInv
<1> SUFFICES ASSUME SetupInit PROVE SetupInv
  OBVIOUS
<1>1. config \in File /\ Honest(config)
  BY DEF SetupInit, File, Honest, IsComplete
<1>2. Resting \in Application /\ Empty \in [domain : Domains \union {Nil}, password : BOOLEAN]
  BY DEF Resting, Application, Places, Empty
<1>3. \A a \in Actors : applying[a] = Resting /\ Backed(a, Resting)
  BY DEF SetupInit, Resting, Backed
<1>4. SetupTyped
  BY <1>1, <1>2 DEF SetupInit, SetupTyped
<1> QED
  BY <1>1, <1>3, <1>4 DEF SetupInv

\* What has been made stays: a file that was honest is.
LEMMA HonestStays ==
  ASSUME admin # Nil => admin' # Nil, staff => staff', IsSeeded => IsSeeded'
  PROVE  /\ IsStaffed => IsStaffed'
         /\ \A file : Honest(file) => Honest(file)'
BY DEF IsStaffed, Honest, IsComplete

\* A request moves on, and nothing it or another relies on is undone.
LEMMA MoveStep ==
  ASSUME SetupInv, NEW a \in Actors, NEW r \in Application,
         applying' = [applying EXCEPT ![a] = r], Backed(a, r)',
         config' \in File, Honest(config)',
         admin' \in [by : Wizards, org : BOOLEAN] \union {Nil}, staff' \in BOOLEAN,
         admin # Nil => admin' # Nil, staff => staff', IsSeeded => IsSeeded',
         scratch' \in [Wizards -> [domain : Domains \union {Nil}, password : BOOLEAN]]
  PROVE  SetupInv'
<1>1. SetupTyped'
  BY DEF SetupInv, SetupTyped
<1>2. ASSUME NEW b \in Actors PROVE Backed(b, applying[b])'
  <2>1. CASE b = a
    BY <2>1 DEF SetupInv, SetupTyped
  <2>2. CASE b # a
    <3>1. applying'[b] = applying[b] /\ Backed(b, applying[b])
      BY <2>2 DEF SetupInv, SetupTyped
    <3>2. PICK r0 : r0 = applying[b]
      OBVIOUS
    <3>3. (IsStaffed => IsStaffed') /\ (Honest(r0.blob) => Honest(r0.blob)')
      BY HonestStays
    <3>4. Backed(b, r0)'
      BY <3>1, <3>2, <3>3 DEF Backed
    <3> QED
      BY <3>1, <3>2, <3>4
  <2> QED
    BY <2>1, <2>2
<1> QED
  BY <1>1, <1>2 DEF SetupInv

LEMMA FormStep ==
  ASSUME SetupInv, NEW w \in Wizards, NEW p \in Processes,
         \/ Password(w, p)
         \/ \E domain \in Domains : Environment(w, p, domain)
  PROVE  SetupInv'
<1>1. /\ UNCHANGED <<config, admin, staff, org, applying>>
      /\ scratch' \in [Wizards -> [domain : Domains \union {Nil}, password : BOOLEAN]]
  BY DEF SetupInv, SetupTyped, Password, Environment
<1> QED
  BY <1>1 DEF SetupInv, SetupTyped, Backed, Honest, IsComplete, IsStaffed, IsSeeded

\* A step that makes nothing: the request moves on, perhaps with what is in the
\* file, and may replace it.
LEMMA FileStep ==
  ASSUME SetupInv, NEW a \in Actors, NEW r \in Application,
         applying' = [applying EXCEPT ![a] = r], Backed(a, r),
         config' = config \/ (config' \in File /\ Honest(config')),
         UNCHANGED <<admin, staff, org>>,
         scratch' \in [Wizards -> [domain : Domains \union {Nil}, password : BOOLEAN]]
  PROVE  SetupInv'
<1>1. IsSeeded' = IsSeeded /\ IsStaffed' = IsStaffed
  BY DEF IsSeeded, IsStaffed
<1>2. Backed(a, r)'
  BY <1>1 DEF Backed, Honest, IsComplete
<1>3. config' \in File /\ Honest(config)'
  BY <1>1 DEF SetupInv, SetupTyped, Honest, IsComplete
<1> QED
  BY <1>1, <1>2, <1>3, MoveStep DEF SetupInv, SetupTyped

LEMMA OrganizeStep ==
  ASSUME SetupInv, NEW w \in Wizards, NEW p \in Processes, NEW wanted \in BOOLEAN, Organize(w, p, wanted)
  PROVE  SetupInv'
<1>1. PICK b : b = [domain |-> scratch[w].domain, mark |-> "none"]
  OBVIOUS
<1>2. b \in File /\ Honest(b)
  BY <1>1 DEF SetupInv, SetupTyped, File, Honest, IsComplete
<1>3. PICK r : r = [Resting EXCEPT !.at = "organized", !.process = p, !.org = wanted, !.blob = b]
  OBVIOUS
<1>4. r \in Application /\ r.at = "organized" /\ r.blob = b
  BY <1>2, <1>3 DEF Resting, Application, Places
<1>5. Backed(w, r) /\ w \in Actors
  BY <1>2, <1>4 DEF Backed, Actors
<1>6. applying' = [applying EXCEPT ![w] = r] /\ UNCHANGED <<config, ready, admin, staff, org, scratch>>
  BY <1>1, <1>3 DEF Organize, Launch
<1> QED
  BY <1>4, <1>5, <1>6, FileStep DEF SetupInv, SetupTyped

LEMMA ReadStep ==
  ASSUME SetupInv, NEW w \in Wizards, ReadConfig(w)
  PROVE  SetupInv'
<1> DEFINE a == applying[w]
<1>0. w \in Actors /\ a \in Application /\ Backed(w, a)
  BY DEF Actors, SetupInv, SetupTyped
<1>1. PICK b : b = [a.blob EXCEPT !.mark = config.mark]
  OBVIOUS
<1>2. a.blob \in File /\ config \in File /\ Honest(config)
  BY <1>0 DEF ReadConfig, Backed, SetupInv, SetupTyped
<1>3. b \in File /\ Honest(b)
  BY <1>1, <1>2 DEF File, Honest, IsComplete
<1>4. PICK r : r = [a EXCEPT !.at = "domain", !.blob = b]
  OBVIOUS
<1>5. r \in Application /\ r.at = "domain" /\ r.blob = b
  BY <1>0, <1>3, <1>4 DEF Application, Places
<1>6. Backed(w, r)
  BY <1>3, <1>5 DEF Backed
<1>7. applying' = [applying EXCEPT ![w] = r] /\ UNCHANGED <<config, ready, admin, staff, org, scratch>>
  BY <1>0, <1>1, <1>4 DEF ReadConfig, SetupInv, SetupTyped
<1> QED
  BY <1>0, <1>5, <1>6, <1>7, FileStep DEF SetupInv, SetupTyped

LEMMA SeedStep ==
  ASSUME SetupInv, NEW w \in Wizards,
         WriteDomain(w) \/ Seed(w) \/ ProvisionTier(w) \/ ProvisionOwner(w)
  PROVE  SetupInv'
<1> DEFINE a == applying[w]
<1>0. w \in Actors /\ w # Operator /\ a \in Application /\ Backed(w, a)
  BY SetupAssumption DEF SetupAssumption, Actors, SetupInv, SetupTyped
<1>1. CASE WriteDomain(w)
  <2>1. PICK r : r = [a EXCEPT !.at = "seeding", !.blob = Nil]
    OBVIOUS
  <2>2. r \in Application /\ Backed(w, r)
    BY <1>0, <2>1 DEF Application, Places, Backed
  <2>3. config' \in File /\ Honest(config') /\ UNCHANGED <<ready, admin, staff, org, scratch>>
    BY <1>0, <1>1 DEF WriteDomain, Backed
  <2>4. applying' = [applying EXCEPT ![w] = r]
    BY <1>1, <2>1 DEF WriteDomain, Enter, SetupInv, SetupTyped, Actors
  <2> QED
    BY <1>0, <2>2, <2>3, <2>4, FileStep DEF SetupInv, SetupTyped
<1>2. CASE Seed(w)
  <2>1. PICK r : r = [a EXCEPT !.at = IF a.org THEN "tier" ELSE "read", !.blob = Nil]
    OBVIOUS
  <2>2. /\ admin' \in [by : Wizards, org : BOOLEAN] /\ admin' # Nil /\ admin'.org = a.org
        /\ UNCHANGED <<config, ready, staff, org, scratch>> /\ ~IsSeeded
    <3>1. admin' = [by |-> w, org |-> a.org] /\ admin = Nil /\ UNCHANGED <<config, ready, staff, org, scratch>>
      BY <1>2 DEF Seed, MaySeed
    <3>2. admin' \in [by : Wizards, org : BOOLEAN] /\ admin'.org = a.org
      BY <1>0, <3>1 DEF Application
    <3> QED
      BY <3>1, <3>2, SetupAssumption DEF SetupAssumption, IsSeeded
  <2>3. r \in Application /\ Backed(w, r)'
    BY <1>0, <2>1, <2>2 DEF Application, Places, Backed, IsSeeded
  <2>4. applying' = [applying EXCEPT ![w] = r]
    BY <1>2, <2>1 DEF Seed, Enter, SetupInv, SetupTyped, Actors
  <2>5. config' \in File /\ Honest(config)'
    BY <2>2 DEF SetupInv, SetupTyped, Honest, IsComplete, IsStaffed
  <2> QED
    BY <1>0, <2>2, <2>3, <2>4, <2>5, MoveStep DEF SetupInv, SetupTyped
<1>3. CASE ProvisionTier(w)
  <2>1. PICK r : r = [a EXCEPT !.at = "owner", !.blob = Nil]
    OBVIOUS
  <2>2. admin # Nil /\ UNCHANGED <<config, ready, admin, staff, scratch>> /\ (IsSeeded => IsSeeded')
    BY <1>0, <1>3 DEF ProvisionTier, Backed, IsSeeded
  <2>3. r \in Application /\ Backed(w, r)'
    BY <1>0, <2>1, <2>2 DEF Application, Places, Backed
  <2>4. applying' = [applying EXCEPT ![w] = r]
    BY <1>3, <2>1 DEF ProvisionTier, Enter, SetupInv, SetupTyped, Actors
  <2>5. config' \in File /\ Honest(config)'
    BY <2>2 DEF SetupInv, SetupTyped, Honest, IsComplete, IsStaffed
  <2> QED
    BY <1>0, <2>2, <2>3, <2>4, <2>5, MoveStep DEF SetupInv, SetupTyped
<1>4. CASE ProvisionOwner(w)
  <2>1. PICK r : r = [a EXCEPT !.at = "read", !.blob = Nil]
    OBVIOUS
  <2>2. admin # Nil /\ UNCHANGED <<config, ready, admin, staff, scratch>> /\ IsSeeded'
    BY <1>0, <1>4 DEF ProvisionOwner, Backed, IsSeeded
  <2>3. r \in Application /\ Backed(w, r)'
    BY <1>0, <2>1, <2>2 DEF Application, Places, Backed
  <2>4. applying' = [applying EXCEPT ![w] = r]
    BY <1>4, <2>1 DEF ProvisionOwner, Enter, SetupInv, SetupTyped, Actors
  <2>5. config' \in File /\ Honest(config)'
    BY <2>2 DEF SetupInv, SetupTyped, Honest, IsComplete, IsStaffed
  <2> QED
    BY <1>0, <2>2, <2>3, <2>4, <2>5, MoveStep DEF SetupInv, SetupTyped
<1> QED
  BY <1>1, <1>2, <1>3, <1>4

LEMMA MarkStep ==
  ASSUME SetupInv, NEW w \in Actors, ReadMark(w) \/ WriteMark(w)
  PROVE  SetupInv'
<1> DEFINE a == applying[w]
<1>0. a \in Application /\ Backed(w, a) /\ config \in File /\ Honest(config)
  BY DEF Actors, SetupInv, SetupTyped
<1>1. CASE ReadMark(w)
  <2>1. PICK b : b = MergeMark(w)
    OBVIOUS
  <2>2. IF w = Operator THEN IsStaffed ELSE IsSeeded
    BY <1>0, <1>1 DEF ReadMark, Backed
  <2>3. b \in File /\ b.mark = IF w = Operator THEN "console" ELSE "wizard"
    BY <1>0, <2>1 DEF MergeMark, File
  <2>4. Honest(b)
    BY <2>2, <2>3 DEF Honest, IsComplete, IsStaffed, IsSeeded
  <2>5. PICK r : r = [a EXCEPT !.at = "mark", !.blob = b]
    OBVIOUS
  <2>6. r \in Application /\ r.at = "mark" /\ r.blob = b
    BY <1>0, <2>3, <2>5 DEF Application, Places
  <2>7. Backed(w, r)
    BY <2>3, <2>4, <2>6 DEF Backed
  <2>8. applying' = [applying EXCEPT ![w] = r] /\ UNCHANGED <<config, ready, admin, staff, org, scratch>>
    BY <1>1, <2>1, <2>5 DEF ReadMark, SetupInv, SetupTyped
  <2> QED
    BY <2>6, <2>7, <2>8, FileStep DEF SetupInv, SetupTyped
<1>2. CASE WriteMark(w)
  <2>1. PICK r : r = IF w = Operator THEN Resting ELSE [a EXCEPT !.at = "clear", !.blob = Nil]
    OBVIOUS
  <2>2. r \in Application /\ Backed(w, r)
    BY <1>0, <2>1 DEF Application, Places, Backed, Resting
  <2>3. config' \in File /\ Honest(config') /\ UNCHANGED <<admin, staff, org, scratch>>
    BY <1>0, <1>2 DEF WriteMark, Backed
  <2>4. applying' = [applying EXCEPT ![w] = r]
    BY <1>2, <2>1 DEF WriteMark, Enter, SetupInv, SetupTyped
  <2> QED
    BY <2>2, <2>3, <2>4, FileStep DEF SetupInv, SetupTyped
<1> QED
  BY <1>1, <1>2

LEMMA RestStep ==
  ASSUME SetupInv, NEW a \in Actors,
         \/ a \in Wizards /\ (Clear(a) \/ Refused(a))
         \/ Halt(a)
         \/ a = Operator /\ WriteReset
  PROVE  SetupInv'
<1>1. Resting \in Application /\ Backed(a, Resting)
  BY DEF Resting, Application, Places, Backed
<1>2. applying' = [applying EXCEPT ![a] = Resting] /\ UNCHANGED <<admin, staff, org>>
  BY DEF Clear, Refused, Halt, WriteReset
<1>3. config' = config \/ (config' \in File /\ Honest(config'))
  BY DEF Clear, Refused, Halt, WriteReset, SetupInv, Backed
<1>4. scratch' \in [Wizards -> [domain : Domains \union {Nil}, password : BOOLEAN]]
  <2>1. Empty \in [domain : Domains \union {Nil}, password : BOOLEAN]
    BY DEF Empty
  <2>2. scratch' = scratch \/ (a \in Wizards /\ scratch' = [scratch EXCEPT ![a] = Empty])
    BY DEF Clear, Refused, Halt, WriteReset
  <2> QED
    BY <2>1, <2>2 DEF SetupInv, SetupTyped
<1> QED
  BY <1>1, <1>2, <1>3, <1>4, FileStep

LEMMA ConsoleStep ==
  ASSUME SetupInv, \/ BeginReset \/ AskReady
                   \/ \E demo \in BOOLEAN : SeedConsole(demo)
  PROVE  SetupInv'
<1>0. Operator \in Actors /\ Resting \in Application
  BY DEF Actors, Resting, Application, Places
<1>1. CASE BeginReset
  <2>1. PICK b : b = [config EXCEPT !.mark = "none"]
    OBVIOUS
  <2>2. PICK r : r = [Resting EXCEPT !.at = "reset", !.blob = b]
    OBVIOUS
  <2>3. b \in File /\ Honest(b)
    BY <2>1 DEF SetupInv, SetupTyped, File, Honest, IsComplete
  <2>4. r \in Application /\ r.at = "reset" /\ r.blob = b
    BY <2>2, <2>3 DEF Resting, Application, Places
  <2>5. Backed(Operator, r)
    BY <2>3, <2>4 DEF Backed
  <2>6. applying' = [applying EXCEPT ![Operator] = r] /\ UNCHANGED <<config, admin, staff, org, scratch>>
    BY <1>1, <2>1, <2>2 DEF BeginReset, Launch
  <2> QED
    BY <1>0, <2>4, <2>5, <2>6, FileStep DEF SetupInv, SetupTyped
<1>2. CASE AskReady
  <2>1. PICK r : r = IF IsComplete(config) THEN Resting ELSE [applying[Operator] EXCEPT !.at = "read"]
    OBVIOUS
  <2>2. applying[Operator] \in Application /\ IsStaffed
    BY <1>0, <1>2 DEF AskReady, SetupInv, SetupTyped, Backed
  <2>3. r \in Application /\ Backed(Operator, r)
    BY <1>0, <2>1, <2>2 DEF Application, Places, Backed, Resting
  <2>4. applying' = [applying EXCEPT ![Operator] = r] /\ UNCHANGED <<config, admin, staff, org, scratch>>
    BY <1>0, <1>2, <2>1 DEF AskReady, SetupInv, SetupTyped
  <2> QED
    BY <1>0, <2>3, <2>4, FileStep DEF SetupInv, SetupTyped
<1>3. ASSUME NEW demo \in BOOLEAN, SeedConsole(demo) PROVE SetupInv'
  <2>1. PICK r : r = [Resting EXCEPT !.at = IF demo THEN "read" ELSE "asking"]
    OBVIOUS
  <2>2. staff' \in BOOLEAN /\ (staff => staff') /\ IsStaffed' /\ UNCHANGED <<config, admin, org, scratch>>
    BY <1>3 DEF SeedConsole, SetupInv, SetupTyped, IsStaffed
  <2>3. r \in Application /\ Backed(Operator, r)'
    BY <2>1, <2>2 DEF Resting, Application, Places, Backed
  <2>4. applying' = [applying EXCEPT ![Operator] = r]
    BY <1>3, <2>1 DEF SeedConsole, Launch
  <2>5. (IsSeeded => IsSeeded') /\ config' \in File /\ Honest(config)'
    BY <2>2 DEF SetupInv, SetupTyped, Honest, IsComplete, IsSeeded
  <2> QED
    BY <1>0, <2>2, <2>3, <2>4, <2>5, MoveStep DEF SetupInv, SetupTyped
<1> QED
  BY <1>1, <1>2, <1>3

\* An installation that says it is complete has somebody who administers it; and
\* where a wizard said so, the organization that was asked for has its owner: for
\* any number of wizards that run at once, stop, are refused or are begun anew,
\* and whatever the command line resets or seeds in between (mark_installed,
\* seed_installation, write_runtime_config, seed_supremely, seed_demo).
THEOREM CompleteMeansSeeded == SetupSpec => []CompleteIsSeeded
<1>1. SetupInit => SetupInv
  BY InitSetup
<1>2. SetupInv /\ [SetupNext]_setup => SetupInv'
  <2> SUFFICES ASSUME SetupInv, [SetupNext]_setup PROVE SetupInv'
    OBVIOUS
  <2>1. CASE UNCHANGED setup
    BY <2>1 DEF setup, SetupInv, SetupTyped, Backed, Honest, IsComplete, IsStaffed, IsSeeded
  <2>2. CASE \E w \in Wizards :
               \/ \E p \in Processes : \/ Password(w, p)
                                       \/ \E domain \in Domains : Environment(w, p, domain)
                                       \/ \E wanted \in BOOLEAN : Organize(w, p, wanted)
               \/ ReadConfig(w) \/ WriteDomain(w) \/ Seed(w) \/ ProvisionTier(w) \/ ProvisionOwner(w)
    BY <2>2, FormStep, OrganizeStep, ReadStep, SeedStep
  <2>3. CASE \/ \E w \in Wizards : Clear(w) \/ Refused(w)
             \/ \E a \in Actors : ReadMark(a) \/ WriteMark(a) \/ Halt(a)
    BY <2>3, MarkStep, RestStep DEF Actors
  <2>4. CASE BeginReset \/ WriteReset \/ AskReady \/ \E demo \in BOOLEAN : SeedConsole(demo)
    BY <2>4, RestStep, ConsoleStep DEF Actors
  <2>5. CASE \E p \in Processes : Notice(p) \/ Restart(p)
    <3>1. UNCHANGED <<config, admin, staff, org, scratch, applying>>
      BY <2>5 DEF Notice, Restart
    <3> QED
      BY <3>1 DEF SetupInv, SetupTyped, Backed, Honest, IsComplete, IsStaffed, IsSeeded
  <2> QED
    BY <2>1, <2>2, <2>3, <2>4, <2>5 DEF SetupNext, SetupSteps
<1>3. SetupInv => CompleteIsSeeded
  BY DEF SetupInv, CompleteIsSeeded, Honest, IsStaffed, IsSeeded
<1> QED
  BY <1>1, <1>2, <1>3, PTL DEF SetupSpec

-----------------------------------------------------------------------------
(* Themes *)

AllSkins == Skins \union {"origin", NoSkin}
Errand == [at : {"idle", "unpacking", "choosing", "saved", "removing", "removed"}, skin : AllSkins,
           host : Servers \union {NoSkin}, was : AllSkins, alone : BOOLEAN]

ThemesTyped ==
  /\ unpacked \in [Skins -> SUBSET PackageFiles]
  /\ available \in [Servers -> SUBSET Skins]
  /\ chosen \in Skins \union {"origin"}
  /\ configured \in AllSkins
  /\ errand \in [Admins -> Errand]
  /\ \A c \in Admins : /\ errand[c].at \in {"unpacking", "removing"} => errand[c].skin \in Skins
                       /\ errand[c].at \in {"choosing", "saved"} => errand[c].skin \in Skins \union {"origin"}
  /\ orderly \in BOOLEAN

There(s) == s = "origin" \/ (s \in Skins /\ "theme.json" \in unpacked[s])

\* A save or a removal that nothing meets: what it decided by is still so.
SaveSound(c) ==
  /\ \A d \in Admins \ {c} : ~Minding(d)
  /\ errand[c].at = "choosing" => There(errand[c].skin) /\ errand[c].was = chosen
  /\ errand[c].at = "saved" => There(errand[c].skin) /\ errand[c].skin = chosen
  /\ errand[c].at = "removing" => errand[c].skin # chosen

\* As long as the history is orderly, the theme in use is there, and the settings
\* were saved for it unless they are about to be.  A save that runs alone is sound
\* whatever was before it: that is why it mends.
Settled == There(chosen) /\ (configured = NoSkin \/ configured = chosen \/ \E c \in Admins : errand[c].at = "saved")

ThemesInv ==
  /\ ThemesTyped
  /\ \A c \in Admins : Minding(c) /\ (orderly \/ errand[c].alone) => SaveSound(c)
  /\ orderly => Settled

LEMMA InitThemes == ThemesInit => ThemesInv
  BY ThemesAssumption
     DEF ThemesInit, ThemesInv, ThemesTyped, Settled, There, Minding, Errand, NoErrand, AllSkins

LEMMA OnDiskTyped == OnDisk \in SUBSET Skins
  BY DEF OnDisk

LEMMA NoErrandTyped == NoErrand \in Errand /\ NoErrand.at = "idle"
  BY DEF NoErrand, Errand, AllSkins

\* What does not touch a sound request, nor the theme in use, leaves it sound.
LEMMA SoundStays ==
  ASSUME NEW c \in Admins, SaveSound(c), errand'[c] = errand[c], chosen' = chosen,
         \A s \in Skins : unpacked[s] \subseteq unpacked'[s],
         \A d \in Admins : Minding(d)' => Minding(d)
  PROVE  SaveSound(c)'
<1>1. \A s : There(s) => There(s)'
  BY DEF There
<1> QED
  BY <1>1 DEF SaveSound

LEMMA BootStep ==
  ASSUME ThemesInv, NEW p \in Servers, Boot(p)
  PROVE  ThemesInv'
<1>1. /\ errand' \in [Admins -> Errand]
      /\ \A c \in Admins : errand'[c] = errand[c] \/ errand'[c] = NoErrand
      /\ UNCHANGED <<unpacked, chosen, configured>>
  BY NoErrandTyped DEF Boot, ThemesInv, ThemesTyped
<1>2. /\ orderly' \in BOOLEAN
      /\ orderly' => orderly
      /\ orderly' => \A c \in Admins : errand[c].at = "saved" => errand'[c] = errand[c]
  <2>1. orderly' = (orderly /\ \A c \in Admins : errand[c].host = p => errand[c].at # "saved")
    BY DEF Boot
  <2>2. \A c \in Admins : errand[c].host # p => errand'[c] = errand[c]
    BY DEF Boot, ThemesInv, ThemesTyped
  <2>3. orderly' \in BOOLEAN
    BY <2>1, Zenon
  <2> QED
    BY <2>1, <2>2, <2>3
<1>3. ThemesTyped'
  BY <1>1, <1>2, OnDiskTyped, NoErrandTyped DEF Boot, ThemesInv, ThemesTyped
<1>4. ASSUME NEW c \in Admins, Minding(c)', orderly' \/ errand'[c].alone PROVE SaveSound(c)'
  <2>1. errand'[c] = errand[c]
    BY <1>1, <1>4, NoErrandTyped DEF Minding
  <2>2. SaveSound(c)
    BY <1>2, <1>4, <2>1 DEF ThemesInv, Minding
  <2>3. \A d \in Admins : Minding(d)' => Minding(d)
    BY <1>1, NoErrandTyped DEF Minding
  <2> QED
    BY <1>1, <2>1, <2>2, <2>3, SoundStays
<1>5. orderly' => Settled'
  BY <1>1, <1>2 DEF ThemesInv, Settled, There
<1> QED
  BY <1>3, <1>4, <1>5 DEF ThemesInv

LEMMA PackageStep ==
  ASSUME ThemesInv, NEW c \in Admins,
         \/ \E file \in PackageFiles : Unpack(c, file)
         \/ \E s \in Skins, p \in Servers : Install(c, s, p)
         \/ Rescan(c)
  PROVE  ThemesInv'
<1>1. /\ UNCHANGED <<chosen, configured, orderly>>
      /\ \A s \in Skins : unpacked[s] \subseteq unpacked'[s]
      /\ unpacked' \in [Skins -> SUBSET PackageFiles] /\ available' \in [Servers -> SUBSET Skins]
  <2>1. CASE \E file \in PackageFiles : Unpack(c, file)
    BY <2>1 DEF Unpack, ThemesInv, ThemesTyped
  <2>2. CASE \E s \in Skins, p \in Servers : Install(c, s, p)
    BY <2>2 DEF Install, ThemesInv, ThemesTyped
  <2>3. CASE Rescan(c)
    BY <2>3, OnDiskTyped DEF Rescan, ThemesInv, ThemesTyped
  <2> QED
    BY <2>1, <2>2, <2>3
<1>2. /\ errand' \in [Admins -> Errand]
      /\ \A d \in Admins : errand'[d] = errand[d] \/ (d = c /\ ~Minding(c) /\ ~Minding(c)')
      /\ errand'[c] = errand[c] \/ errand'[c] = NoErrand \/ (errand'[c].at = "unpacking" /\ errand'[c].skin \in Skins)
  <2>1. CASE \E file \in PackageFiles : Unpack(c, file)
    BY <2>1 DEF Unpack, ThemesInv, ThemesTyped
  <2>2. CASE \E s \in Skins, p \in Servers : Install(c, s, p)
    <3>0. PICK s \in Skins, p \in Servers : Install(c, s, p)
      BY <2>2
    <3>1. PICK e : e = [NoErrand EXCEPT !.at = "unpacking", !.skin = s, !.host = p]
      OBVIOUS
    <3>2. e \in Errand /\ e.at = "unpacking" /\ e.skin = s
      BY <3>1 DEF NoErrand, Errand, AllSkins
    <3>3. errand[c] = NoErrand /\ errand' = [errand EXCEPT ![c] = e]
      BY <3>0, <3>1 DEF Install, Start
    <3> QED
      BY <3>2, <3>3, NoErrandTyped DEF ThemesInv, ThemesTyped, Minding
  <2>3. CASE Rescan(c)
    BY <2>3, NoErrandTyped DEF Rescan, Finish, ThemesInv, ThemesTyped, Minding
  <2> QED
    BY <2>1, <2>2, <2>3
<1>3. ThemesTyped'
  BY <1>1, <1>2, NoErrandTyped DEF ThemesInv, ThemesTyped
<1>4. ASSUME NEW d \in Admins, Minding(d)', orderly' \/ errand'[d].alone PROVE SaveSound(d)'
  <2>1. errand'[d] = errand[d] /\ Minding(d) /\ \A e \in Admins : Minding(e)' => Minding(e)
    BY <1>2, <1>4 DEF Minding
  <2>2. SaveSound(d)
    BY <1>1, <1>4, <2>1 DEF ThemesInv
  <2> QED
    BY <1>1, <2>1, <2>2, SoundStays
<1>5. orderly' => Settled'
  <2>1. \A d \in Admins : errand[d].at = "saved" => errand'[d] = errand[d]
    BY <1>2 DEF Minding
  <2> QED
    BY <1>1, <2>1 DEF ThemesInv, ThemesTyped, Settled, There
<1> QED
  BY <1>3, <1>4, <1>5 DEF ThemesInv

LEMMA BeginStep ==
  ASSUME ThemesInv, NEW c \in Admins, NEW s \in Skins \union {"origin"}, NEW p \in Servers,
         Uninstall(c, s, p) \/ BeginSave(c, s, p), s \in Skins \/ BeginSave(c, s, p)
  PROVE  ThemesInv'
<1>1. PICK e, found :
        /\ StartMinding(c, e, found)
        /\ e \in Errand /\ e.skin = s /\ found \in BOOLEAN
        /\ \/ e.at = "removing" /\ s \in Skins /\ s # chosen
           \/ e.at = "choosing" /\ e.was = chosen /\ (found => There(s))
  <2>1. CASE Uninstall(c, s, p)
    <3>1. PICK e : e = [NoErrand EXCEPT !.at = "removing", !.skin = s, !.host = p]
      OBVIOUS
    <3>2. e \in Errand /\ e.at = "removing" /\ e.skin = s
      BY <3>1 DEF NoErrand, Errand, AllSkins
    <3>3. StartMinding(c, e, TRUE) /\ s \in Skins /\ s # chosen
      BY <2>1, <3>1 DEF Uninstall, Removable, ThemesInv, ThemesTyped
    <3> QED
      BY <3>2, <3>3
  <2>2. CASE BeginSave(c, s, p)
    <3>1. PICK e : e = [NoErrand EXCEPT !.at = "choosing", !.skin = s, !.host = p, !.was = chosen]
      OBVIOUS
    <3>2. e \in Errand /\ e.at = "choosing" /\ e.skin = s /\ e.was = chosen
      BY <3>1 DEF NoErrand, Errand, AllSkins, ThemesInv, ThemesTyped
    <3>3. PICK there \in BOOLEAN : there <=> s \in OnDisk \union {"origin"}
      <4>1. CASE s \in OnDisk \union {"origin"}
        BY <4>1
      <4>2. CASE s \notin OnDisk \union {"origin"}
        BY <4>2
      <4> QED
        BY <4>1, <4>2
    <3>4. StartMinding(c, e, there)
      BY <2>2, <3>1, <3>3 DEF BeginSave, StartMinding
    <3>5. there => There(s)
      BY <3>3 DEF OnDisk, There
    <3> QED
      BY <3>2, <3>4, <3>5
  <2> QED
    BY <2>1, <2>2
<1>2. UNCHANGED <<unpacked, available, chosen, configured>>
  BY DEF Uninstall, BeginSave
<1>3. PICK alone \in BOOLEAN : alone = (found /\ Undisturbed)
  <2>1. (found /\ Undisturbed) \in BOOLEAN
    BY <1>1, Zenon
  <2> QED
    BY <2>1
<1>4. PICK mine : mine = [e EXCEPT !.alone = alone]
  OBVIOUS
<1>5. mine \in Errand /\ mine.at = e.at /\ mine.skin = s /\ mine.was = e.was /\ mine.alone = alone
  BY <1>1, <1>4 DEF Errand
<1>6. /\ errand' = [d \in Admins |-> IF d = c THEN mine ELSE [errand[d] EXCEPT !.alone = FALSE]]
      /\ orderly' = (orderly /\ alone) /\ errand[c].at = "idle"
  <2>1. errand[c] = NoErrand
    BY <1>1 DEF StartMinding
  <2>2. errand' = [d \in Admins |-> IF d = c THEN [e EXCEPT !.alone = found /\ Undisturbed]
                                    ELSE [errand[d] EXCEPT !.alone = FALSE]]
    BY <1>1 DEF StartMinding
  <2>3. orderly' = (orderly /\ found /\ Undisturbed)
    BY <1>1, Zenon DEF StartMinding
  <2> QED
    BY <1>3, <1>4, <2>1, <2>2, <2>3, NoErrandTyped
<1>7. \A d \in Admins : [errand[d] EXCEPT !.alone = FALSE] \in Errand
  BY DEF ThemesInv, ThemesTyped, Errand
<1>8. /\ errand' \in [Admins -> Errand] /\ errand'[c] = mine
      /\ \A d \in Admins \ {c} : errand'[d].at = errand[d].at /\ errand'[d].skin = errand[d].skin /\ ~errand'[d].alone
  <2>1. \A d \in Admins \ {c} : errand'[d] = [errand[d] EXCEPT !.alone = FALSE]
    BY <1>6
  <2>2. \A d \in Admins : errand[d] \in Errand
    BY DEF ThemesInv, ThemesTyped
  <2> QED
    BY <1>5, <1>6, <1>7, <2>1, <2>2 DEF Errand
<1>9. ThemesTyped'
  <2>1. orderly' \in BOOLEAN
    BY <1>6, Zenon
  <2> QED
    BY <1>1, <1>2, <1>5, <1>8, <2>1 DEF ThemesInv, ThemesTyped
<1>10. ASSUME NEW d \in Admins, Minding(d)', orderly' \/ errand'[d].alone PROVE SaveSound(d)'
  <2>1. CASE d = c
    <3>1. found /\ Undisturbed
      BY <1>3, <1>5, <1>6, <1>8, <1>10, <2>1
    <3>2. \A x \in Admins \ {c} : ~Minding(x)'
      BY <1>8, <3>1 DEF Undisturbed, Minding
    <3> QED
      BY <1>1, <1>2, <1>5, <1>8, <2>1, <3>1, <3>2 DEF SaveSound, There
  <2>2. CASE d # c
    <3>1. orderly' /\ Minding(d)
      BY <1>8, <1>10, <2>2 DEF Minding
    <3>2. Undisturbed
      BY <1>3, <1>6, <3>1
    <3> QED
      BY <3>1, <3>2 DEF Undisturbed
  <2> QED
    BY <2>1, <2>2
<1>11. orderly' => Settled'
  <2>1. \A d \in Admins : errand[d].at = "saved" => errand'[d].at = "saved"
    BY <1>6, <1>8
  <2> QED
    BY <1>2, <1>6, <2>1 DEF ThemesInv, Settled, There
<1> QED
  BY <1>9, <1>10, <1>11 DEF ThemesInv

LEMMA SaveStep ==
  ASSUME ThemesInv, NEW c \in Admins, SaveTheme(c)
  PROVE  ThemesInv'
<1> DEFINE e == [errand[c] EXCEPT !.at = "saved", !.was = NoSkin]
<1>1. errand[c] \in Errand /\ errand[c].at = "choosing" /\ errand[c].skin \in Skins \union {"origin"}
  BY DEF SaveTheme, ThemesInv, ThemesTyped
<1>2. e \in Errand /\ e.at = "saved" /\ e.skin = errand[c].skin /\ e.alone = errand[c].alone
  BY <1>1 DEF Errand, AllSkins
<1>3. errand' = [errand EXCEPT ![c] = e]
  BY DEF SaveTheme, ThemesInv, ThemesTyped
<1>4. /\ errand'[c] = e /\ errand' \in [Admins -> Errand]
      /\ \A d \in Admins \ {c} : errand'[d] = errand[d]
  BY <1>2, <1>3 DEF ThemesInv, ThemesTyped
<1>5. UNCHANGED <<unpacked, available, configured, orderly>> /\ chosen' \in Skins \union {"origin"}
  BY <1>1 DEF SaveTheme, ThemesInv, ThemesTyped
<1>6. ThemesTyped'
  BY <1>1, <1>2, <1>4, <1>5 DEF ThemesInv, ThemesTyped
<1>7. SaveSound(c) => SaveSound(c)' /\ There(chosen)'
  <2>1. SaveSound(c) => chosen' = errand[c].skin /\ There(errand[c].skin)
    BY <1>1 DEF SaveSound, SaveTheme
  <2>2. SaveSound(c) => \A d \in Admins \ {c} : ~Minding(d)'
    BY <1>4 DEF SaveSound, Minding
  <2> QED
    BY <1>2, <1>4, <1>5, <2>1, <2>2 DEF SaveSound, There
<1>8. Minding(c) /\ (orderly \/ errand[c].alone => SaveSound(c))
  BY <1>1 DEF ThemesInv, Minding
<1>9. ASSUME NEW d \in Admins, Minding(d)', orderly' \/ errand'[d].alone PROVE SaveSound(d)'
  <2>1. CASE d = c
    BY <1>2, <1>4, <1>5, <1>7, <1>8, <1>9, <2>1
  <2>2. CASE d # c
    <3>1. Minding(d) /\ SaveSound(d)
      BY <1>4, <1>5, <1>9, <2>2 DEF ThemesInv, Minding
    <3> QED
      BY <1>8, <2>2, <3>1 DEF SaveSound
  <2> QED
    BY <2>1, <2>2
<1>10. orderly' => Settled'
  BY <1>2, <1>4, <1>5, <1>7, <1>8 DEF Settled
<1> QED
  BY <1>6, <1>9, <1>10 DEF ThemesInv

\* The end of a save, and of a removal.
LEMMA EndStep ==
  ASSUME ThemesInv, NEW c \in Admins, SaveConfig(c) \/ RemoveTree(c)
  PROVE  ThemesInv'
<1>1. PICK e \in Errand : e.at \in {"idle", "removed"} /\ errand' = [errand EXCEPT ![c] = e]
  <2>1. CASE SaveConfig(c)
    BY <2>1, NoErrandTyped DEF SaveConfig, Finish
  <2>2. CASE RemoveTree(c)
    <3>1. PICK r : r = [NoErrand EXCEPT !.at = "removed", !.host = errand[c].host]
      OBVIOUS
    <3>2. r \in Errand /\ r.at = "removed"
      BY <3>1 DEF NoErrand, Errand, AllSkins, ThemesInv, ThemesTyped
    <3> QED
      BY <2>2, <3>1, <3>2 DEF RemoveTree
  <2> QED
    BY <2>1, <2>2
<1>2. /\ errand' \in [Admins -> Errand] /\ errand'[c] = e
      /\ \A d \in Admins \ {c} : errand'[d] = errand[d]
      /\ Minding(c) /\ ~Minding(c)'
  BY <1>1 DEF SaveConfig, RemoveTree, Minding, ThemesInv, ThemesTyped
<1>3. UNCHANGED <<available, chosen>> /\ errand[c] \in Errand
  BY DEF SaveConfig, RemoveTree, ThemesInv, ThemesTyped
<1>4. unpacked' \in [Skins -> SUBSET PackageFiles] /\ configured' \in AllSkins
  <2>1. errand[c].at = "removing" => errand[c].skin \in Skins
    BY DEF ThemesInv, ThemesTyped
  <2> QED
    BY <1>3, <2>1 DEF SaveConfig, RemoveTree, ThemesInv, ThemesTyped, Errand
<1>5. orderly' \in BOOLEAN /\ (orderly' => orderly \/ errand[c].alone)
  <2>1. CASE SaveConfig(c)
    <3>1. orderly' = (orderly \/ errand[c].alone)
      BY <2>1 DEF SaveConfig
    <3>2. orderly' \in BOOLEAN
      BY <3>1, Zenon
    <3> QED
      BY <3>1, <3>2
  <2>2. CASE RemoveTree(c)
    BY <2>2 DEF RemoveTree, ThemesInv, ThemesTyped
  <2> QED
    BY <2>1, <2>2
<1>6. ThemesTyped'
  BY <1>1, <1>2, <1>3, <1>4, <1>5 DEF ThemesInv, ThemesTyped
<1>7. ASSUME NEW d \in Admins, Minding(d)', orderly' \/ errand'[d].alone PROVE SaveSound(d)'
  <2>1. d # c /\ Minding(d) /\ errand'[d] = errand[d]
    BY <1>2, <1>7 DEF Minding
  <2>2. orderly \/ errand[c].alone \/ errand[d].alone
    BY <1>5, <1>7, <2>1
  <2>3. SaveSound(c) \/ SaveSound(d)
    BY <1>2, <2>1, <2>2 DEF ThemesInv
  <2> QED
    BY <1>2, <2>1, <2>3 DEF SaveSound
<1>8. orderly' => Settled'
  <2> SUFFICES ASSUME orderly' PROVE Settled'
    OBVIOUS
  <2>1. SaveSound(c)
    BY <1>2, <1>5 DEF ThemesInv
  <2>2. CASE SaveConfig(c)
    BY <1>3, <2>1, <2>2 DEF SaveConfig, SaveSound, Settled, There
  <2>3. CASE RemoveTree(c)
    <3>1. orderly /\ Settled /\ UNCHANGED configured /\ errand[c].at = "removing"
      BY <2>3 DEF RemoveTree, ThemesInv
    <3>2. chosen # errand[c].skin /\ \A d \in Admins : errand[d].at # "saved"
      BY <2>1, <3>1 DEF SaveSound, Minding
    <3>3. There(chosen)'
      BY <1>3, <2>3, <3>1, <3>2 DEF RemoveTree, Settled, There, ThemesInv, ThemesTyped
    <3> QED
      BY <1>3, <3>1, <3>2, <3>3 DEF Settled
  <2> QED
    BY <2>2, <2>3
<1> QED
  BY <1>6, <1>7, <1>8 DEF ThemesInv

\* Settings are worn by the theme they were saved for, until a save or a removal is
\* disturbed, and again after the next save that is not: for any number of themes,
\* processes and administrators (theme_config, saved_theme, theme_settings,
\* uninstall_theme).
THEOREM SettingsFit == ThemesSpec => []OwnSettings
<1>1. ThemesInit => ThemesInv
  BY InitThemes
<1>2. ThemesInv /\ [ThemesNext]_theming => ThemesInv'
  <2> SUFFICES ASSUME ThemesInv, [ThemesNext]_theming PROVE ThemesInv'
    OBVIOUS
  <2>1. CASE UNCHANGED theming
    BY <2>1 DEF theming, ThemesInv, ThemesTyped, Settled, There, SaveSound, Minding
  <2>2. CASE \E p \in Servers : Boot(p)
    BY <2>2, BootStep
  <2>3. ASSUME NEW c \in Admins,
               \/ Rescan(c)
               \/ \E file \in PackageFiles : Unpack(c, file)
               \/ \E s \in Skins, p \in Servers : Install(c, s, p)
        PROVE  ThemesInv'
    BY <2>3, PackageStep
  <2>4. ASSUME NEW c \in Admins,
               \/ \E s \in Skins, p \in Servers : Uninstall(c, s, p)
               \/ \E s \in Skins \union {"origin"}, p \in Servers : BeginSave(c, s, p)
        PROVE  ThemesInv'
    BY <2>4, BeginStep
  <2>5. ASSUME NEW c \in Admins, SaveTheme(c) \/ SaveConfig(c) \/ RemoveTree(c) PROVE ThemesInv'
    BY <2>5, SaveStep, EndStep
  <2> QED
    BY <2>1, <2>2, <2>3, <2>4, <2>5 DEF ThemesNext
<1>3. ThemesInv => OwnSettings
  <2> SUFFICES ASSUME ThemesInv, orderly, NEW p \in Servers, Aware(p), NEW preview \in AllSkins,
                      Wears(p, preview), \A c \in Admins : errand[c].at # "saved"
               PROVE  CurrentTheme(p, preview) = configured
    BY DEF OwnSettings, AllSkins
  <2>1. configured = chosen /\ CurrentTheme(p, preview) = SavedTheme(p)
    BY DEF Wears, ThemesInv, Settled
  <2>2. chosen = "origin" \/ chosen \in available[p]
    BY DEF ThemesInv, ThemesTyped, Settled, There, Aware, OnDisk
  <2> QED
    BY <2>1, <2>2 DEF SavedTheme
<1> QED
  BY <1>1, <1>2, <1>3, PTL DEF ThemesSpec

-----------------------------------------------------------------------------
(* The update check *)

Times == Nat \union {Unknown}
Check == [at : {"idle", "asking", "told"}, told : Times]

UpdatesInv ==
  /\ running \in Times
  /\ enabled \in BOOLEAN
  /\ latest \in Times
  /\ checking \in [Checkers -> Check]

LEMMA UnaskedIsCheck == Unasked \in Check
  BY DEF Unasked, Check, Times

LEMMA UpdatesStep ==
  ASSUME UpdatesInv, [UpdatesNext]_updating
  PROVE  UpdatesInv'
<1>1. CASE Dismiss \/ UNCHANGED updating
  BY <1>1 DEF Dismiss, updating, UpdatesInv
<1>2. ASSUME NEW image \in (0..LastBuild) \union {Unknown}, NEW setting \in BOOLEAN, Redeploy(image, setting)
      PROVE  UpdatesInv'
  BY <1>2, UnaskedIsCheck, UpdatesAssumption DEF Redeploy, UpdatesInv, Times
<1>3. ASSUME NEW c \in Checkers,
             \/ AskRegistry(c) \/ GiveUp(c)
             \/ \E answer \in (0..LastBuild) \union {Unknown} : Hear(c, answer)
      PROVE  UpdatesInv'
  <2>1. PICK at \in {"asking", "told"}, told \in Times : checking' = [checking EXCEPT ![c].at = at, ![c].told = told]
    BY <1>3, UpdatesAssumption DEF AskRegistry, GiveUp, Hear, UpdatesInv, Check, Times
  <2>2. [checking[c] EXCEPT !.at = at, !.told = told] \in Check
    BY DEF UpdatesInv, Check
  <2>3. checking' \in [Checkers -> Check]
    BY <2>1, <2>2 DEF UpdatesInv
  <2> QED
    BY <1>3, <2>3 DEF AskRegistry, GiveUp, Hear, UpdatesInv
<1>4. ASSUME NEW c \in Checkers, RecordCheck(c) PROVE UpdatesInv'
  BY <1>4, UnaskedIsCheck DEF RecordCheck, Kept, UpdatesInv, Check
<1> QED
  BY <1>1, <1>2, <1>3, <1>4 DEF UpdatesNext

LEMMA UpdatesInvariant == UpdatesSpec => []UpdatesInv
<1>1. UpdatesInit => UpdatesInv
  BY UnaskedIsCheck DEF UpdatesInit, UpdatesInv, Times
<1> QED
  BY <1>1, UpdatesStep, PTL DEF UpdatesSpec

\* The banner stays until the installation is redeployed, what it says is
\* dismissed, or a check is told a date that is no newer than the image that runs
\* (record_check, pending_update): for any number of checks, overlapping or not,
\* any dates and any grace.
THEOREM BannerStays == UpdatesSpec => BannerKept
<1> DEFINE caught == \E c \in Checkers : /\ checking[c].at = "told" /\ checking'[c].at = "idle"
                                         /\ checking[c].told # Unknown /\ checking[c].told <= running + Grace
           kept == Banner => \/ Banner' \/ running' # running \/ enabled' # enabled \/ latest' \in dismissed'
                             \/ caught
<1>1. ASSUME UpdatesInv, [UpdatesNext]_updating PROVE kept
  <2> SUFFICES ASSUME Banner, UNCHANGED <<running, enabled>>, latest' \notin dismissed'
               PROVE  Banner' \/ caught
    OBVIOUS
  <2>1. ASSUME latest' = latest PROVE Banner'
    BY <2>1 DEF Banner, Pending
  <2>2. ASSUME NEW c \in Checkers, RecordCheck(c), latest' # latest PROVE Banner' \/ caught
    <3>1. /\ checking[c].told # Unknown /\ latest' = checking[c].told
          /\ checking[c].at = "told" /\ checking'[c].at = "idle"
      BY <1>1, <2>2 DEF RecordCheck, Kept, Unasked, UpdatesInv
    <3>2. CASE checking[c].told <= running + Grace
      BY <3>1, <3>2
    <3>3. CASE ~(checking[c].told <= running + Grace)
      <4>1. latest' \in Nat /\ running \in Nat /\ latest' > running + Grace
        BY <1>1, <3>1, <3>3, UpdatesAssumption DEF Banner, Pending, UpdatesInv, Check, Times
      <4> QED
        BY <3>1, <4>1, UpdatesAssumption DEF Banner, Pending
    <3> QED
      BY <3>2, <3>3
  <2> QED
    BY <1>1, <2>1, <2>2 DEF UpdatesNext, Dismiss, Redeploy, AskRegistry, GiveUp, Hear, updating
<1>2. UpdatesInv /\ [UpdatesNext]_updating => [kept]_updating
  BY <1>1
<1> QED
  BY <1>2, UpdatesInvariant, PTL DEF UpdatesSpec, BannerKept

-----------------------------------------------------------------------------
(* Plugins *)

Calling == [plug : Plugs, next : Nat \ {0}]

IsPin(p) ==
  /\ p = [there |-> p.there, major |-> p.major, enabled |-> p.enabled]
  /\ p.there \in BOOLEAN /\ p.enabled \in BOOLEAN

IsLift(l) ==
  /\ l = [at |-> l.at, calls |-> l.calls, seen |-> l.seen, major |-> l.major, alone |-> l.alone]
  /\ l.at \in {"idle", "install", "enable", "disable", "upgrade"}
  /\ l.calls \in Seq(Calling)
  /\ l.alone \in BOOLEAN

\* Every requirement that a call under way has come to is installed, or is being
\* installed by a call inside it.
CallsMet(calls) ==
  \A i \in 1..Len(calls) : \A j \in DOMAIN Requires[calls[i].plug] :
    j < calls[i].next =>
      \/ Requires[calls[i].plug][j] \in Installed
      \/ \E m \in 1..Len(calls) : m < i /\ calls[m].plug = Requires[calls[i].plug][j]

\* What a request that has the plugins to itself knows of them.
Knows(l) ==
  /\ l.at \in {"install", "enable"} => CallsMet(l.calls)
  /\ l.at = "enable" => l.seen = pin[l.calls[1].plug] /\ ~Outstanding(l.calls[1])
  /\ l.at = "disable" => \A t \in Installed : l.calls[1].plug \notin Needs(t)

Sound(c) ==
  /\ IsLift(lifting[c])
  /\ lifting[c].at # "idle" => lifting[c].calls # <<>>
  /\ lifting[c].at \in {"install", "enable"} =>
       \A i \in 1..Len(lifting[c].calls) : disk[lifting[c].calls[i].plug] # {}
  /\ lifting[c].at # "idle" /\ lifting[c].alone =>
       /\ \A b \in Clients \ {c} : lifting[b].at = "idle"
       /\ Knows(lifting[c])

\* The inductive invariant under RequirementsKept: what is in use is on disk,
\* and a request that is alone sees and does what it believes.
PluginsInv ==
  /\ disk \in [Plugs -> SUBSET Nat] /\ Bootable(disk)
  /\ DOMAIN pin = Plugs /\ pin = [s \in Plugs |-> pin[s]]
  /\ \A s \in Plugs : IsPin(pin[s]) /\ (pin[s].enabled => disk[s] # {})
  /\ lifting = [c \in Clients |-> lifting[c]]
  /\ \A c \in Clients : Sound(c)

LEMMA RequirementsArePlugs ==
  \A s \in Plugs : /\ Requires[s] \in Seq(Plugs)
                   /\ Needs(s) \subseteq Plugs
                   /\ \A j \in DOMAIN Requires[s] : Requires[s][j] \in Needs(s)
<1> SUFFICES ASSUME NEW s \in Plugs
             PROVE  /\ Requires[s] \in Seq(Plugs)
                    /\ Needs(s) \subseteq Plugs
                    /\ \A j \in DOMAIN Requires[s] : Requires[s][j] \in Needs(s)
  OBVIOUS
<1>1. Requires[s] \in Seq(Plugs)
  BY PluginsAssumption
<1>2. \A j \in DOMAIN Requires[s] : Requires[s][j] \in Plugs
  BY <1>1
<1> QED
  BY <1>1, <1>2 DEF Needs

\* A lift with its parts named.
LEMMA LiftOf ==
  ASSUME NEW at \in {"idle", "install", "enable", "disable", "upgrade"},
         NEW calls \in Seq(Calling), NEW seen, NEW major, NEW alone \in BOOLEAN
  PROVE  IsLift([at |-> at, calls |-> calls, seen |-> seen, major |-> major, alone |-> alone])
BY DEF IsLift

\* What a request begins with.
LEMMA Edited ==
  ASSUME NEW l, IsLift(l), NEW at \in {"install", "enable", "disable", "upgrade"},
         NEW calls \in Seq(Calling), NEW seen, NEW major
  PROVE  /\ IsLift([l EXCEPT !.at = at, !.calls = calls])
         /\ IsLift([l EXCEPT !.at = at, !.seen = seen])
         /\ IsLift([l EXCEPT !.calls = calls])
         /\ IsLift([l EXCEPT !.at = at, !.calls = calls, !.seen = seen])
         /\ IsLift([l EXCEPT !.at = at, !.calls = calls, !.seen = seen, !.major = major])
<1>1. IsLift([l EXCEPT !.at = at, !.calls = calls])
  <2>1. PICK k : k = [l EXCEPT !.at = at, !.calls = calls]
    OBVIOUS
  <2>2. k.at \in {"idle", "install", "enable", "disable", "upgrade"} /\ k.calls \in Seq(Calling) /\ k.alone \in BOOLEAN
    BY <2>1 DEF IsLift
  <2>3. k = [at |-> k.at, calls |-> k.calls, seen |-> k.seen, major |-> k.major, alone |-> k.alone]
    BY <2>1 DEF IsLift
  <2> QED
    BY <2>1, <2>2, <2>3 DEF IsLift
<1>2. IsLift([l EXCEPT !.at = at, !.seen = seen])
  <2>1. PICK k : k = [l EXCEPT !.at = at, !.seen = seen]
    OBVIOUS
  <2>2. k.at \in {"idle", "install", "enable", "disable", "upgrade"} /\ k.calls \in Seq(Calling) /\ k.alone \in BOOLEAN
    BY <2>1 DEF IsLift
  <2>3. k = [at |-> k.at, calls |-> k.calls, seen |-> k.seen, major |-> k.major, alone |-> k.alone]
    BY <2>1 DEF IsLift
  <2> QED
    BY <2>1, <2>2, <2>3 DEF IsLift
<1>3. IsLift([l EXCEPT !.calls = calls])
  <2>1. PICK k : k = [l EXCEPT !.calls = calls]
    OBVIOUS
  <2>2. k.at \in {"idle", "install", "enable", "disable", "upgrade"} /\ k.calls \in Seq(Calling) /\ k.alone \in BOOLEAN
    BY <2>1 DEF IsLift
  <2>3. k = [at |-> k.at, calls |-> k.calls, seen |-> k.seen, major |-> k.major, alone |-> k.alone]
    BY <2>1 DEF IsLift
  <2> QED
    BY <2>1, <2>2, <2>3 DEF IsLift
<1>4. IsLift([l EXCEPT !.at = at, !.calls = calls, !.seen = seen])
  <2>1. PICK k : k = [l EXCEPT !.at = at, !.calls = calls, !.seen = seen]
    OBVIOUS
  <2>2. k.at \in {"idle", "install", "enable", "disable", "upgrade"} /\ k.calls \in Seq(Calling) /\ k.alone \in BOOLEAN
    BY <2>1 DEF IsLift
  <2>3. k = [at |-> k.at, calls |-> k.calls, seen |-> k.seen, major |-> k.major, alone |-> k.alone]
    BY <2>1 DEF IsLift
  <2> QED
    BY <2>1, <2>2, <2>3 DEF IsLift
<1>5. IsLift([l EXCEPT !.at = at, !.calls = calls, !.seen = seen, !.major = major])
  <2>1. PICK k : k = [l EXCEPT !.at = at, !.calls = calls, !.seen = seen, !.major = major]
    OBVIOUS
  <2>2. k.at \in {"idle", "install", "enable", "disable", "upgrade"} /\ k.calls \in Seq(Calling) /\ k.alone \in BOOLEAN
    BY <2>1 DEF IsLift
  <2>3. k = [at |-> k.at, calls |-> k.calls, seen |-> k.seen, major |-> k.major, alone |-> k.alone]
    BY <2>1 DEF IsLift
  <2> QED
    BY <2>1, <2>2, <2>3 DEF IsLift
<1> QED
  BY <1>1, <1>2, <1>3, <1>4, <1>5

LEMMA OneCall ==
  ASSUME NEW s \in Plugs
  PROVE  /\ <<Call(s)>> \in Seq(Calling) /\ <<Call(s)>> # <<>>
         /\ Len(<<Call(s)>>) = 1 /\ <<Call(s)>>[1] = Call(s)
         /\ Call(s).plug = s /\ Call(s).next = 1
BY DEF Call, Calling

LEMMA KnowsSame ==
  ASSUME pin' = pin
  PROVE  \A l : Knows(l)' <=> Knows(l)
<1>1. Installed' = Installed
  BY DEF Installed
<1>2. \A calls : CallsMet(calls)' <=> CallsMet(calls)
  BY <1>1 DEF CallsMet
<1> QED
  BY <1>1, <1>2 DEF Knows, Outstanding

LEMMA StoppedSound ==
  /\ IsLift(Stopped) /\ Stopped.at = "idle"
  /\ \A c \in Clients : lifting'[c] = Stopped => Sound(c)'
<1>1. IsLift(Stopped) /\ Stopped.at = "idle"
  <2>1. <<>> \in Seq(Calling)
    OBVIOUS
  <2> QED
    BY <2>1, LiftOf DEF Stopped
<1> QED
  BY <1>1 DEF Sound

LEMMA InitPlugins == PluginsInit => PluginsInv
<1> SUFFICES ASSUME PluginsInit PROVE PluginsInv
  OBVIOUS
<1>1. disk \in [Plugs -> SUBSET Nat] /\ Bootable(disk)
  <2>1. disk \in [Plugs -> SUBSET Nat] /\ disk = Majors
    BY PluginsAssumption DEF PluginsInit
  <2> QED
    BY <2>1, PluginsAssumption DEF Bootable, Needs
<1>2. \A s \in Plugs : IsPin(pin[s]) /\ ~pin[s].enabled
  BY DEF PluginsInit, NoPin, IsPin
<1>3. \A c \in Clients : Sound(c)
  <2> SUFFICES ASSUME NEW c \in Clients PROVE Sound(c)
    OBVIOUS
  <2>1. lifting[c] = Stopped
    BY DEF PluginsInit
  <2> QED
    BY <2>1, StoppedSound DEF Sound
<1> QED
  BY <1>1, <1>2, <1>3 DEF PluginsInv, PluginsInit

\* A step of another request while this one is not alone, or idle.
LEMMA BesideSound ==
  ASSUME PluginsInv, NEW c \in Clients, NEW b \in Clients \ {c},
         lifting[c].at # "idle", lifting'[b] = lifting[b], disk' = disk
  PROVE  Sound(b)'
<1>1. Sound(b) /\ Sound(c)
  BY DEF PluginsInv
<1>2. ~(lifting[b].at # "idle" /\ lifting[b].alone)
  BY <1>1 DEF Sound
<1> QED
  BY <1>1, <1>2 DEF Sound

\* The start of a request makes those under way share the plugins.
LEMMA Lifted ==
  ASSUME PluginsInv, NEW c \in Clients, NEW l, Lift(c, l), UNCHANGED <<disk, pin>>,
         IsLift(l), l.at # "idle", l.calls # <<>>,
         l.at \in {"install", "enable"} => \A i \in 1..Len(l.calls) : disk[l.calls[i].plug] # {},
         Knows(l)
  PROVE  PluginsInv'
<1>1. ASSUME NEW b \in Clients \ {c}
      PROVE  Sound(b)'
  <2>1. lifting'[b] = [lifting[b] EXCEPT !.alone = lifting[b].at = "idle"]
    BY DEF Lift
  <2>2. Sound(b)
    BY DEF PluginsInv
  <2>3. IsLift(lifting'[b]) /\ lifting'[b].at = lifting[b].at /\ lifting'[b].calls = lifting[b].calls
        /\ (lifting'[b].at # "idle" => ~lifting'[b].alone)
    BY <2>1, <2>2 DEF Sound, IsLift
  <2> QED
    BY <2>2, <2>3 DEF Sound
<1>2. Sound(c)'
  <2>1. PICK k : k = [l EXCEPT !.alone = \A q \in Clients \ {c} : lifting[q].at = "idle"]
    OBVIOUS
  <2>2. /\ lifting'[c] = k /\ k.at = l.at /\ k.calls = l.calls /\ k.seen = l.seen
        /\ IsLift(k)
        /\ k.alone <=> \A q \in Clients \ {c} : lifting[q].at = "idle"
    BY <2>1 DEF IsLift, Lift
  <2>3. Knows(k)'
    BY <2>2 DEF Knows, CallsMet, Installed, Outstanding
  <2>4. \A q \in Clients \ {c} : lifting'[q].at = lifting[q].at
    <3> SUFFICES ASSUME NEW q \in Clients \ {c} PROVE lifting'[q].at = lifting[q].at
      OBVIOUS
    <3>1. lifting'[q] = [lifting[q] EXCEPT !.alone = lifting[q].at = "idle"] /\ Sound(q)
      BY DEF Lift, PluginsInv
    <3> QED
      BY <3>1 DEF Sound, IsLift
  <2> QED
    BY <2>2, <2>3, <2>4 DEF Sound
<1>3. lifting' = [b \in Clients |-> lifting'[b]]
  BY DEF Lift
<1> QED
  BY <1>1, <1>2, <1>3 DEF PluginsInv

\* A request that goes on, or ends, while the disk stands still.
LEMMA WentOn ==
  ASSUME PluginsInv, NEW c \in Clients, NEW l, lifting[c].at # "idle",
         lifting' = [lifting EXCEPT ![c] = l], disk' = disk,
         pin' = [s \in Plugs |-> pin'[s]],
         \A s \in Plugs : IsPin(pin'[s]) /\ (pin'[s].enabled => disk[s] # {}),
         \/ l = Stopped
         \/ /\ IsLift(l) /\ l.alone = lifting[c].alone /\ l.calls # <<>>
            /\ l.at \in {"install", "enable"} => \A i \in 1..Len(l.calls) : disk[l.calls[i].plug] # {}
            /\ l.alone => Knows(l)'
  PROVE  PluginsInv'
<1>1. lifting'[c] = l /\ \A b \in Clients \ {c} : lifting'[b] = lifting[b]
  BY DEF PluginsInv
<1>2. \A b \in Clients \ {c} : Sound(b)'
  BY <1>1, BesideSound
<1>3. Sound(c)'
  <2>1. CASE l = Stopped
    BY <1>1, <2>1, StoppedSound
  <2>2. CASE l # Stopped
    <3>1. l.alone => \A b \in Clients \ {c} : lifting'[b].at = "idle"
      BY <1>1, <2>2 DEF PluginsInv, Sound
    <3> QED
      BY <1>1, <2>2, <3>1 DEF Sound
  <2> QED
    BY <2>1, <2>2
<1>4. lifting' = [b \in Clients |-> lifting'[b]]
  BY DEF PluginsInv
<1>5. DOMAIN pin' = Plugs
  OBVIOUS
<1> QED
  BY <1>2, <1>3, <1>4, <1>5 DEF PluginsInv

LEMMA UnderWay ==
  ASSUME PluginsInv, NEW c \in Clients, lifting[c].at # "idle"
  PROVE  /\ Sound(c) /\ IsLift(lifting[c])
         /\ lifting[c].calls \in Seq(Calling) /\ lifting[c].calls # <<>>
         /\ Head(lifting[c].calls) = lifting[c].calls[1]
         /\ lifting[c].calls[1] \in Calling
         /\ Plug(c) = lifting[c].calls[1].plug /\ Plug(c) \in Plugs
<1>1. Sound(c)
  BY DEF PluginsInv
<1>2. IsLift(lifting[c]) /\ lifting[c].calls \in Seq(Calling) /\ lifting[c].calls # <<>>
  BY <1>1 DEF Sound, IsLift
<1>3. Head(lifting[c].calls) = lifting[c].calls[1] /\ lifting[c].calls[1] \in Calling
  BY <1>2
<1> QED
  BY <1>1, <1>2, <1>3 DEF Plug, Calling

\* What the transaction of install leaves of the rows.
LEMMA RowSaved ==
  ASSUME PluginsInv, NEW c \in Clients, SaveRow(c), NEW s \in Plugs, s = Plug(c)
  PROVE  /\ IsPin(pin'[s]) /\ \A t \in Plugs : t # s => pin'[t] = pin[t]
         /\ pin' = [t \in Plugs |-> pin'[t]]
         /\ Installed \subseteq Installed'
         /\ lifting[c].alone => s \in Installed'
<1>1. PICK seen : seen = lifting[c].seen
  OBVIOUS
<1>2. pin' = IF seen.there
               THEN [pin EXCEPT ![s].enabled = @ \/ ~seen.enabled]
               ELSE [pin EXCEPT ![s] = [there |-> TRUE, major |-> DefaultMajor(s), enabled |-> TRUE]]
  BY <1>1 DEF SaveRow
<1>3. PICK row : row = pin[s] /\ IsPin(row)
  BY DEF PluginsInv
<1>4. PICK p : p = [row EXCEPT !.enabled = @ \/ ~seen.enabled]
  OBVIOUS
<1>5. IsPin(p) /\ (row.enabled => p.enabled) /\ (~seen.enabled => p.enabled)
  BY <1>3, <1>4 DEF IsPin
<1>6. PICK q : q = [there |-> TRUE, major |-> DefaultMajor(s), enabled |-> TRUE]
  OBVIOUS
<1>7. IsPin(q) /\ q.enabled
  BY <1>6 DEF IsPin
<1>8. DOMAIN pin = Plugs
  BY DEF PluginsInv
<1>9. pin'[s] = p \/ pin'[s] = q
  <2>1. CASE seen.there
    BY <1>2, <1>3, <1>4, <1>8, <2>1
  <2>2. CASE ~seen.there
    BY <1>2, <1>6, <1>8, <2>2
  <2> QED
    BY <2>1, <2>2
<1>10. pin' = [t \in Plugs |-> pin'[t]] /\ \A t \in Plugs : t # s => pin'[t] = pin[t]
  BY <1>2, <1>8
<1>11. Installed \subseteq Installed'
  BY <1>3, <1>5, <1>7, <1>9, <1>10 DEF Installed
<1>12. lifting[c].alone => s \in Installed'
  <2>1. lifting[c].at = "enable" /\ Sound(c) /\ s = lifting[c].calls[1].plug
    BY UnderWay DEF SaveRow
  <2>2. lifting[c].alone => seen = row
    BY <1>1, <1>3, <2>1 DEF Sound, Knows
  <2>3. lifting[c].alone => p.enabled
    BY <1>3, <1>5, <2>2 DEF IsPin
  <2> QED
    BY <1>7, <1>9, <2>3 DEF Installed
<1> QED
  BY <1>5, <1>7, <1>9, <1>10, <1>11, <1>12

LEMMA NextPlugins == PluginsInv /\ [PluginsNext]_plugging => PluginsInv'
<1> SUFFICES ASSUME PluginsInv, [PluginsNext]_plugging
             PROVE  PluginsInv'
  OBVIOUS
<1>1. ASSUME NEW c \in Clients, NEW s \in Plugs, BeginInstall(c, s)
      PROVE  PluginsInv'
  <2> DEFINE l == [Stopped EXCEPT !.at = "install", !.calls = <<Call(s)>>]
  <2>1. Lift(c, l) /\ disk[s] # {} /\ UNCHANGED <<disk, pin>>
    BY <1>1 DEF BeginInstall
  <2>2. l.at = "install" /\ l.calls = <<Call(s)>>
    BY StoppedSound, OneCall DEF IsLift
  <2>3. IsLift(l)
    BY StoppedSound, OneCall, Edited
  <2>4. Len(l.calls) = 1 /\ l.calls[1] = Call(s) /\ l.calls # <<>> /\ Call(s).plug = s /\ Call(s).next = 1
    BY <2>2, OneCall
  <2>5. CallsMet(l.calls)
    <3>1. \A j \in DOMAIN Requires[s] : ~(j < 1)
      BY RequirementsArePlugs
    <3> QED
      BY <2>2, <2>4, <3>1 DEF CallsMet
  <2>6. Knows(l)
    BY <2>2, <2>5 DEF Knows
  <2>7. \A i \in 1..Len(l.calls) : disk[l.calls[i].plug] # {}
    BY <2>1, <2>4
  <2> HIDE DEF l
  <2> QED
    BY <2>1, <2>2, <2>3, <2>4, <2>6, <2>7, Lifted
<1>2. ASSUME NEW c \in Clients, NEW s \in Plugs, BeginUninstall(c, s)
      PROVE  PluginsInv'
  <2> DEFINE l == [Stopped EXCEPT !.at = "disable", !.calls = <<Call(s)>>, !.seen = pin[s]]
  <2>1. Lift(c, l) /\ UNCHANGED <<disk, pin>> /\ Dependents(s) = {}
    BY <1>2 DEF BeginUninstall, MayUninstall
  <2>2. l.at = "disable" /\ l.calls = <<Call(s)>> /\ l.calls # <<>> /\ l.calls[1].plug = s
    BY StoppedSound, OneCall DEF IsLift
  <2>3. IsLift(l)
    BY StoppedSound, OneCall, Edited
  <2>4. \A t \in Installed : s \notin Needs(t)
    BY <2>1 DEF Dependents, Installed, PluginsInv
  <2>5. Knows(l)
    BY <2>2, <2>4 DEF Knows
  <2> HIDE DEF l
  <2> QED
    BY <2>1, <2>2, <2>3, <2>5, Lifted
<1>3. ASSUME NEW c \in Clients, NEW s \in Plugs, NEW major \in Majors[s], BeginUpgrade(c, s, major)
      PROVE  PluginsInv'
  <2> DEFINE l == [Stopped EXCEPT !.at = "upgrade", !.calls = <<Call(s)>>, !.seen = pin[s], !.major = major]
  <2>1. Lift(c, l) /\ UNCHANGED <<disk, pin>>
    BY <1>3 DEF BeginUpgrade
  <2>2. l.at = "upgrade" /\ l.calls = <<Call(s)>> /\ l.calls # <<>>
    BY StoppedSound, OneCall DEF IsLift
  <2>3. IsLift(l)
    BY StoppedSound, OneCall, Edited
  <2>4. Knows(l)
    BY <2>2 DEF Knows
  <2> HIDE DEF l
  <2> QED
    BY <2>1, <2>2, <2>3, <2>4, Lifted
<1>4. ASSUME NEW c \in Clients, Require(c)
      PROVE  PluginsInv'
  <2>1. lifting[c].at = "install" /\ UNCHANGED <<disk, pin>>
    BY <1>4 DEF Require
  <2>2. PICK old : old = lifting[c].calls
    OBVIOUS
  <2>3. Sound(c) /\ IsLift(lifting[c]) /\ old \in Seq(Calling) /\ old # <<>>
    BY <2>1, <2>2, UnderWay
  <2>4. PICK call \in Calling : call = old[1]
    BY <2>3
  <2>5. call.plug \in Plugs /\ call.next \in Nat \ {0} /\ disk[call.plug] # {}
    BY <2>1, <2>2, <2>3, <2>4 DEF Calling, Sound
  <2>6. PICK dep : dep = Requires[call.plug][call.next]
    OBVIOUS
  <2>7. PICK on : on = [call EXCEPT !.next = @ + 1]
    OBVIOUS
  <2>8. on \in Calling /\ on.plug = call.plug /\ on.next = call.next + 1
    BY <2>5, <2>7 DEF Calling
  <2>9. Outstanding(call) /\ lifting' = [lifting EXCEPT ![c].calls = <<Call(dep), on>> \o Tail(old)]
    <3>1. Head(lifting[c].calls) = call
      BY <2>2, <2>3, <2>4
    <3>2. /\ Outstanding(call)
          /\ lifting' = [lifting EXCEPT ![c].calls =
               <<Call(Requires[call.plug][call.next]), [call EXCEPT !.next = @ + 1]>> \o Tail(lifting[c].calls)]
      BY <1>4, <3>1 DEF Require
    <3> QED
      BY <2>2, <2>6, <2>7, <3>2
  <2>10. call.next \in DOMAIN Requires[call.plug]
    BY <2>5, <2>9, RequirementsArePlugs DEF Outstanding
  <2>11. dep \in Plugs /\ disk[dep] # {}
    BY <2>5, <2>6, <2>10, RequirementsArePlugs DEF PluginsInv, Bootable
  <2>12. Call(dep) \in Calling /\ Call(dep).plug = dep /\ Call(dep).next = 1
    BY <2>11 DEF Call, Calling
  <2>13. PICK new : new = <<Call(dep), on>> \o Tail(old)
    OBVIOUS
  <2>14. /\ new \in Seq(Calling) /\ new # <<>> /\ Len(new) = Len(old) + 1
         /\ new[1] = Call(dep) /\ new[2] = on
         /\ \A i \in 3..Len(new) : new[i] = old[i - 1]
    BY <2>3, <2>8, <2>12, <2>13
  <2>15. Len(old) \in Nat \ {0} /\ \A i \in 2..Len(new) : new[i].plug = old[i - 1].plug
    BY <2>3, <2>4, <2>8, <2>14
  <2>16. \A i \in 1..Len(new) : disk[new[i].plug] # {}
    <3>1. \A i \in 1..Len(old) : disk[old[i].plug] # {}
      BY <2>1, <2>2, <2>3 DEF Sound
    <3>2. \A i \in 2..Len(new) : i - 1 \in 1..Len(old)
      BY <2>14, <2>15
    <3>3. \A i \in 2..Len(new) : disk[new[i].plug] # {}
      BY <2>15, <3>1, <3>2
    <3> QED
      BY <2>11, <2>12, <2>14, <3>3
  <2>17. ASSUME CallsMet(old) PROVE CallsMet(new)
    <3> SUFFICES ASSUME NEW i \in 1..Len(new), NEW j \in DOMAIN Requires[new[i].plug], j < new[i].next
                 PROVE  \/ Requires[new[i].plug][j] \in Installed
                        \/ \E m \in 1..Len(new) : m < i /\ new[m].plug = Requires[new[i].plug][j]
      BY DEF CallsMet
    <3>1. i # 1
      <4>1. new[1].plug \in Plugs
        BY <2>11, <2>12, <2>14
      <4>2. DOMAIN Requires[new[1].plug] \subseteq Nat \ {0}
        BY <4>1, RequirementsArePlugs
      <4> QED
        BY <2>12, <2>14, <4>2
    <3>2. new[i].plug = old[i - 1].plug /\ i - 1 \in 1..Len(old)
      BY <2>14, <2>15, <3>1
    <3>3. j \in Nat
      <4>1. new[i].plug \in Plugs
        <5>1. new[i] \in Calling
          BY <2>14
        <5> QED
          BY <5>1 DEF Calling
      <4> QED
        BY <4>1, RequirementsArePlugs
    <3>4. CASE i = 2 /\ j = call.next
      <4>1. new[1].plug = Requires[new[i].plug][j] /\ 1 < i /\ 1 \in 1..Len(new)
        BY <2>4, <2>6, <2>12, <2>14, <2>15, <3>2, <3>4
      <4> QED
        BY <4>1
    <3>5. CASE ~(i = 2 /\ j = call.next)
      <4>1. j < old[i - 1].next
        <5>1. CASE i = 2
          BY <2>4, <2>5, <2>8, <2>14, <3>3, <3>5, <5>1
        <5>2. CASE i # 2
          BY <2>14, <3>1, <5>2
        <5> QED
          BY <5>1, <5>2
      <4>2. \/ Requires[old[i - 1].plug][j] \in Installed
            \/ \E m \in 1..Len(old) : m < i - 1 /\ old[m].plug = Requires[old[i - 1].plug][j]
        BY <2>17, <3>2, <4>1 DEF CallsMet
      <4>3. ASSUME NEW m \in 1..Len(old), m < i - 1
            PROVE  m + 1 \in 1..Len(new) /\ m + 1 < i /\ new[m + 1].plug = old[m].plug
        <5>1. m + 1 \in 2..Len(new) /\ m + 1 < i /\ (m + 1) - 1 = m
          BY <2>14, <2>15, <4>3
        <5>2. new[m + 1].plug = old[(m + 1) - 1].plug
          BY <2>15, <5>1
        <5> QED
          BY <5>1, <5>2
      <4> QED
        BY <3>2, <4>2, <4>3
    <3> QED
      BY <3>4, <3>5
  <2>18. PICK l : l = [lifting[c] EXCEPT !.calls = new]
    OBVIOUS
  <2>19. /\ IsLift(l) /\ l.alone = lifting[c].alone /\ l.calls = new /\ l.at = "install"
         /\ lifting' = [lifting EXCEPT ![c] = l]
    <3>1. IsLift(l)
      BY <2>3, <2>14, <2>18, Edited
    <3>2. l.alone = lifting[c].alone /\ l.calls = new /\ l.at = "install"
      BY <2>1, <2>3, <2>18 DEF IsLift
    <3>3. lifting' = [lifting EXCEPT ![c] = l]
      BY <2>9, <2>13, <2>18 DEF PluginsInv
    <3> QED
      BY <3>1, <3>2, <3>3
  <2>20. l.alone => Knows(l)'
    <3>1. l.alone => CallsMet(old)
      BY <2>1, <2>2, <2>3, <2>19 DEF Sound, Knows
    <3>2. l.alone => Knows(l)
      BY <2>17, <2>19, <3>1 DEF Knows
    <3> QED
      BY <2>1, <3>2, KnowsSame
  <2>21. pin' = [s \in Plugs |-> pin'[s]] /\ \A s \in Plugs : IsPin(pin'[s]) /\ (pin'[s].enabled => disk[s] # {})
    BY <2>1 DEF PluginsInv
  <2> QED
    BY <2>1, <2>14, <2>16, <2>19, <2>20, <2>21, WentOn
<1>5. ASSUME NEW c \in Clients, ReadRow(c)
      PROVE  PluginsInv'
  <2>1. /\ lifting[c].at = "install" /\ UNCHANGED <<disk, pin>> /\ ~Outstanding(lifting[c].calls[1])
        /\ Sound(c) /\ IsLift(lifting[c]) /\ lifting[c].calls # <<>>
        /\ lifting' = [lifting EXCEPT ![c].at = "enable", ![c].seen = pin[lifting[c].calls[1].plug]]
    BY <1>5, UnderWay DEF ReadRow
  <2>2. PICK l : l = [lifting[c] EXCEPT !.at = "enable", !.seen = pin[lifting[c].calls[1].plug]]
    OBVIOUS
  <2>3. IsLift(l)
    BY <2>1, <2>2, Edited DEF IsLift
  <2>4. /\ l.at = "enable" /\ l.calls = lifting[c].calls /\ l.alone = lifting[c].alone
        /\ l.seen = pin[l.calls[1].plug]
    BY <2>1, <2>2 DEF IsLift
  <2>5. lifting' = [lifting EXCEPT ![c] = l]
    BY <2>1, <2>2 DEF PluginsInv
  <2>6. l.alone => Knows(l)'
    <3>1. ASSUME l.alone PROVE CallsMet(l.calls)
      BY <2>1, <2>4, <3>1 DEF Sound, Knows
    <3>2. ~Outstanding(l.calls[1])
      BY <2>1, <2>4
    <3>3. l.alone => Knows(l)
      BY <2>4, <3>1, <3>2 DEF Knows
    <3> QED
      BY <2>1, <3>3, KnowsSame
  <2>7. pin' = [s \in Plugs |-> pin'[s]] /\ \A s \in Plugs : IsPin(pin'[s]) /\ (pin'[s].enabled => disk[s] # {})
    BY <2>1 DEF PluginsInv
  <2>8. \A i \in 1..Len(l.calls) : disk[l.calls[i].plug] # {}
    BY <2>1, <2>4 DEF Sound
  <2> QED
    BY <2>1, <2>3, <2>4, <2>5, <2>6, <2>7, <2>8, WentOn
<1>6. ASSUME NEW c \in Clients, SaveRow(c)
      PROVE  PluginsInv'
  <2>1. /\ lifting[c].at = "enable" /\ disk' = disk
        /\ Sound(c) /\ IsLift(lifting[c])
    BY <1>6, UnderWay DEF SaveRow
  <2>2. PICK old \in Seq(Calling) : old = lifting[c].calls /\ old # <<>>
    BY <2>1, UnderWay
  <2>3. Plug(c) = old[1].plug /\ Plug(c) \in Plugs /\ disk[Plug(c)] # {} /\ Len(old) \in Nat \ {0}
    BY <2>1, <2>2, UnderWay DEF Sound
  <2>4. PICK s \in Plugs : s = Plug(c)
    BY <2>3
  <2>5. /\ IsPin(pin'[s]) /\ \A t \in Plugs : t # s => pin'[t] = pin[t]
        /\ pin' = [t \in Plugs |-> pin'[t]]
        /\ Installed \subseteq Installed'
        /\ lifting[c].alone => s \in Installed'
    BY <1>6, <2>4, RowSaved
  <2>8. \A t \in Plugs : pin'[t].enabled => disk[t] # {}
    BY <2>3, <2>4, <2>5 DEF PluginsInv
  <2>10. CASE Tail(old) = <<>>
    <3>1. lifting' = [lifting EXCEPT ![c] = Stopped]
      BY <1>6, <2>2, <2>10 DEF SaveRow, Done
    <3> QED
      BY <2>1, <2>5, <2>8, <3>1, WentOn DEF PluginsInv
  <2>11. CASE Tail(old) # <<>>
    <3>1. PICK rest : rest = Tail(old)
      OBVIOUS
    <3>2. /\ rest \in Seq(Calling) /\ rest # <<>> /\ Len(rest) = Len(old) - 1
          /\ \A i \in 1..Len(rest) : rest[i] = old[i + 1]
      BY <2>2, <2>11, <3>1
    <3>3. PICK l : l = [lifting[c] EXCEPT !.at = "install", !.calls = rest]
      OBVIOUS
    <3>4. IsLift(l)
      BY <2>1, <3>2, <3>3, Edited
    <3>5. l.at = "install" /\ l.calls = rest /\ l.alone = lifting[c].alone
      BY <2>1, <3>3 DEF IsLift
    <3>6. lifting' = [lifting EXCEPT ![c] = l]
      BY <1>6, <2>2, <2>11, <3>1, <3>3 DEF SaveRow, PluginsInv
    <3>7. \A i \in 1..Len(rest) : disk[rest[i].plug] # {}
      <4>1. \A i \in 1..Len(old) : disk[old[i].plug] # {}
        BY <2>1, <2>2 DEF Sound
      <4>2. \A i \in 1..Len(rest) : i + 1 \in 1..Len(old)
        BY <2>3, <3>2
      <4> QED
        BY <3>2, <4>1, <4>2
    <3>8. ASSUME l.alone PROVE CallsMet(rest)'
      <4>1. CallsMet(old)
        BY <2>1, <2>2, <3>5, <3>8 DEF Sound, Knows
      <4> SUFFICES ASSUME NEW i \in 1..Len(rest), NEW j \in DOMAIN Requires[rest[i].plug], j < rest[i].next
                   PROVE  \/ Requires[rest[i].plug][j] \in Installed'
                          \/ \E m \in 1..Len(rest) : m < i /\ rest[m].plug = Requires[rest[i].plug][j]
        BY DEF CallsMet
      <4>2. rest[i] = old[i + 1] /\ i + 1 \in 1..Len(old)
        BY <2>3, <3>2
      <4>3. \/ Requires[rest[i].plug][j] \in Installed
            \/ \E m \in 1..Len(old) : m < i + 1 /\ old[m].plug = Requires[rest[i].plug][j]
        BY <4>1, <4>2 DEF CallsMet
      <4>4. ASSUME NEW m \in 1..Len(old), m < i + 1, old[m].plug = Requires[rest[i].plug][j]
            PROVE  \/ Requires[rest[i].plug][j] \in Installed'
                   \/ \E q \in 1..Len(rest) : q < i /\ rest[q].plug = Requires[rest[i].plug][j]
        <5>1. CASE m = 1
          BY <2>3, <2>4, <2>5, <3>5, <3>8, <4>4, <5>1
        <5>2. CASE m # 1
          <6>1. m - 1 \in 1..Len(rest) /\ m - 1 < i /\ rest[m - 1] = old[m]
            BY <2>3, <3>2, <4>4, <5>2
          <6> QED
            BY <4>4, <6>1
        <5> QED
          BY <5>1, <5>2
      <4> QED
        BY <2>5, <4>3, <4>4
    <3>9. l.alone => Knows(l)'
      BY <3>5, <3>8 DEF Knows
    <3> QED
      BY <2>1, <2>5, <2>8, <3>2, <3>4, <3>5, <3>6, <3>7, <3>9, WentOn DEF PluginsInv
  <2> QED
    BY <2>10, <2>11
<1>7. ASSUME NEW c \in Clients, SaveUninstall(c) \/ SaveUpgrade(c) \/ Abandon(c)
      PROVE  PluginsInv'
  <2>1. lifting[c].at # "idle" /\ disk' = disk /\ lifting' = [lifting EXCEPT ![c] = Stopped]
    BY <1>7 DEF SaveUninstall, SaveUpgrade, Abandon, Done
  <2>2. PICK s \in Plugs : s = Plug(c)
    BY <2>1, UnderWay
  <2>3. \/ pin' = pin
        \/ pin' = [pin EXCEPT ![s].enabled = @ /\ ~lifting[c].seen.enabled]
        \/ pin' = [pin EXCEPT ![s].major = lifting[c].major]
    BY <1>7, <2>2 DEF SaveUninstall, SaveUpgrade, Abandon
  <2>4. pin' = [t \in Plugs |-> pin'[t]] /\ \A t \in Plugs : t # s => pin'[t] = pin[t]
    BY <2>3 DEF PluginsInv
  <2>5. IsPin(pin'[s]) /\ (pin'[s].enabled => pin[s].enabled)
    <3>1. IsPin(pin[s]) /\ pin = [t \in Plugs |-> pin[t]]
      BY DEF PluginsInv
    <3>2. PICK p : p = [pin[s] EXCEPT !.enabled = @ /\ ~lifting[c].seen.enabled]
      OBVIOUS
    <3>3. IsPin(p) /\ (p.enabled => pin[s].enabled)
      BY <3>1, <3>2 DEF IsPin
    <3>4. PICK q : q = [pin[s] EXCEPT !.major = lifting[c].major]
      OBVIOUS
    <3>5. IsPin(q) /\ (q.enabled => pin[s].enabled)
      BY <3>1, <3>4 DEF IsPin
    <3>6. pin'[s] = pin[s] \/ pin'[s] = p \/ pin'[s] = q
      BY <2>3, <3>1, <3>2, <3>4
    <3> QED
      BY <3>1, <3>3, <3>5, <3>6
  <2>6. \A t \in Plugs : IsPin(pin'[t]) /\ (pin'[t].enabled => disk[t] # {})
    BY <2>4, <2>5 DEF PluginsInv
  <2> QED
    BY <2>1, <2>4, <2>6, WentOn
<1>8. ASSUME NEW s \in Plugs, NEW majors \in SUBSET Majors[s], Deploy(s, majors)
      PROVE  PluginsInv'
  <2>1. /\ disk' = [disk EXCEPT ![s] = majors] /\ Bootable(disk') /\ Stranded(disk') = {}
        /\ pin' = pin /\ lifting' = [c \in Clients |-> Stopped]
    BY <1>8 DEF Deploy
  <2>2. disk' \in [Plugs -> SUBSET Nat]
    BY <2>1, PluginsAssumption DEF PluginsInv
  <2>3. \A t \in Plugs : IsPin(pin'[t]) /\ (pin'[t].enabled => disk'[t] # {})
    BY <2>1 DEF PluginsInv, Stranded
  <2>4. \A c \in Clients : Sound(c)'
    BY <2>1, StoppedSound
  <2> QED
    BY <2>1, <2>2, <2>3, <2>4 DEF PluginsInv, Bootable
<1>9. CASE UNCHANGED plugging
  <2>1. disk' = disk /\ pin' = pin /\ lifting' = lifting
    BY <1>9 DEF plugging
  <2>2. \A c \in Clients : Sound(c)'
    BY <2>1, KnowsSame DEF PluginsInv, Sound
  <2> QED
    BY <2>1, <2>2 DEF PluginsInv, Bootable
<1> QED
  BY <1>1, <1>2, <1>3, <1>4, <1>5, <1>6, <1>7, <1>8, <1>9 DEF PluginsNext

LEMMA PluginsInvariant == PluginsSpec => []PluginsInv
BY InitPlugins, NextPlugins, PTL DEF PluginsSpec

\* Requests that have the plugins to themselves keep every requirement of what
\* is enabled enabled (install, uninstall, upgrade and the boot), whatever the
\* plugins require and wherever an installation stops: a call of install comes
\* to its own row when the calls inside it have enabled all that it requires.
THEOREM RequirementsStay == PluginsSpec => RequirementsKept
<1> DEFINE kept == (RequirementsMet /\ \A c \in Clients : lifting[c].at # "idle" => lifting[c].alone)
                   => RequirementsMet'
<1>1. ASSUME PluginsInv, [PluginsNext]_plugging PROVE kept
  <2> SUFFICES ASSUME RequirementsMet, \A c \in Clients : lifting[c].at # "idle" => lifting[c].alone
               PROVE  RequirementsMet'
    OBVIOUS
  <2>1. ASSUME NEW c \in Clients, SaveRow(c) PROVE RequirementsMet'
    <3>1. /\ lifting[c].at = "enable" /\ lifting[c].alone /\ Sound(c)
          /\ lifting[c].calls \in Seq(Calling) /\ lifting[c].calls # <<>>
      BY <1>1, <2>1, UnderWay DEF SaveRow
    <3>2. PICK s \in Plugs : s = Plug(c) /\ s = lifting[c].calls[1].plug
      BY <1>1, <3>1, UnderWay
    <3>3. /\ \A t \in Plugs : t # s => pin'[t] = pin[t]
          /\ Installed \subseteq Installed'
      BY <1>1, <2>1, <3>2, RowSaved
    <3>4. PICK call : call = lifting[c].calls[1]
      OBVIOUS
    <3>5. call \in Calling /\ call.plug = s /\ ~Outstanding(call)
      BY <3>1, <3>2, <3>4 DEF Sound, Knows
    <3>6. \A j \in DOMAIN Requires[s] : j < call.next
      BY <3>5, RequirementsArePlugs DEF Outstanding, Calling
    <3>7. \A j \in DOMAIN Requires[s] : Requires[s][j] \in Installed
      <4>1. CallsMet(lifting[c].calls) /\ 1 \in 1..Len(lifting[c].calls)
        BY <3>1 DEF Sound, Knows
      <4>2. \A m \in 1..Len(lifting[c].calls) : ~(m < 1)
        OBVIOUS
      <4> QED
        BY <3>4, <3>5, <3>6, <4>1, <4>2 DEF CallsMet
    <3>8. Needs(s) \subseteq Installed
      BY <3>7 DEF Needs
    <3>9. ASSUME NEW t \in Installed' PROVE Needs(t) \subseteq Installed'
      <4>1. t = s \/ t \in Installed
        BY <3>3, <3>9 DEF Installed
      <4> QED
        BY <3>3, <3>8, <4>1 DEF RequirementsMet
    <3> QED
      BY <3>9 DEF RequirementsMet, Needs
  <2>2. ASSUME NEW c \in Clients, SaveUninstall(c) PROVE RequirementsMet'
    <3>1. lifting[c].at = "disable" /\ lifting[c].alone /\ Sound(c)
      BY <1>1, <2>2, UnderWay DEF SaveUninstall
    <3>2. PICK s \in Plugs : s = Plug(c) /\ s = lifting[c].calls[1].plug
      BY <1>1, <3>1, UnderWay
    <3>3. \A t \in Installed : s \notin Needs(t)
      BY <3>1, <3>2 DEF Sound, Knows
    <3>4. Installed' \subseteq Installed /\ Installed \ {s} \subseteq Installed'
      <4>1. pin' = [pin EXCEPT ![s].enabled = @ /\ ~lifting[c].seen.enabled]
        BY <2>2, <3>2 DEF SaveUninstall
      <4>2. \A t \in Plugs : IsPin(pin[t]) /\ DOMAIN pin = Plugs
        BY <1>1 DEF PluginsInv
      <4>3. pin'[s].enabled => pin[s].enabled
        BY <4>1, <4>2 DEF IsPin
      <4>4. \A t \in Plugs : t # s => pin'[t] = pin[t]
        BY <4>1, <4>2
      <4> QED
        BY <4>3, <4>4 DEF Installed
    <3>5. \A t \in Installed : Needs(t) \subseteq Installed \ {s}
      BY <3>3 DEF RequirementsMet
    <3> QED
      BY <3>4, <3>5 DEF RequirementsMet, Needs
  <2>3. ASSUME NEW c \in Clients, SaveUpgrade(c) PROVE RequirementsMet'
    <3>1. PICK s \in Plugs : s = Plug(c)
      BY <1>1, <2>3, UnderWay DEF SaveUpgrade
    <3>2. pin' = [pin EXCEPT ![s].major = lifting[c].major]
      BY <2>3, <3>1 DEF SaveUpgrade
    <3>3. \A t \in Plugs : pin'[t].enabled = pin[t].enabled
      BY <1>1, <3>2 DEF PluginsInv, IsPin
    <3>4. Installed' = Installed
      BY <3>3 DEF Installed
    <3> QED
      BY <3>4 DEF RequirementsMet, Needs
  <2>4. ASSUME pin' = pin PROVE RequirementsMet'
    BY <2>4 DEF RequirementsMet, Installed, Needs
  <2> QED
    BY <1>1, <2>1, <2>2, <2>3, <2>4
    DEF PluginsNext, plugging, Require, ReadRow, Abandon, BeginInstall, BeginUninstall, BeginUpgrade, Deploy
<1>2. PluginsInv /\ [PluginsNext]_plugging => [kept]_plugging
  BY <1>1
<1> QED
  BY <1>2, PluginsInvariant, PTL DEF PluginsSpec, RequirementsKept
=============================================================================
