------------------------------- MODULE Settings -------------------------------
(***************************************************************************)
(* config.yaml and those who read and write it: the settings page in the   *)
(* tabs of a browser (gui/settings.go, settings_page.go), and the syncs    *)
(* that load it (config/config.go).  Nothing locks the file.  A handler's  *)
(* save reads it twice, copies it to config.yaml.bak, truncates it and     *)
(* writes it.  A row of the form stands for a course or a pattern.         *)
(***************************************************************************)
EXTENDS FolderSuggest

CONSTANTS
  Tabs,         \* browser tabs that show the settings page
  Courses,      \* the courses OPAL knows
  Matches,      \* the courses a row's name matches as a pattern
  BadNames,     \* names that are no valid pattern
  Defaults,     \* what an empty file stands for
  Typed,        \* the folders a user types in
  InitialFiles, \* contents of config.yaml to start from; emptied by hand it is
                \* a Raw that sets nothing
  MaxEdits, MaxSaves, MaxFaults,
  Unset, Absent,  \* no value; no row
  Missing, Broken, \* no file; one that does not parse
  Empty,   \* read inside os.WriteFile, or left by a kill: valid YAML without keys
  Nothing

VARIABLES
  file,    \* config.yaml
  backup,  \* config.yaml.bak
  form,    \* what each tab's form shows
  asked,   \* the rows a tab sent with "Suggest folders", until it is answered
  post,    \* the save a tab's submitted form has under way
  run,     \* the folders the last sync used, by course
  synced,  \* the download folder has a history
  edits, saves, faults,
  good,    \* history: the last content of config.yaml that was complete
  overlapped \* history: two saves have been under way at once

settingsVars == <<file, backup, form, asked, post, run, synced, edits, saves, faults, good, overlapped>>

Folders == Dirs

\* As on disk; a field the file does not set is Unset.  The form shows neither the
\* concurrency limits and their like (hidden) nor opal_url and session_state_file
\* (session).
Raw == [path : STRING \cup {Unset}, every : BOOLEAN, courses : SUBSET Names,
        folders : [Names -> Folders \cup {Unset}], default : Folders \cup {Unset},
        sections : BOOLEAN, hidden : Nat \cup {Unset}, session : Nat \cup {Unset}]

Contents == Raw \cup {Missing, Broken, Empty}

ASSUME SettingsAssumption ==
  /\ Matches \in [Names -> SUBSET Courses]
  /\ BadNames \subseteq Names /\ Typed \subseteq Folders
  /\ Defaults \in Raw /\ Defaults.path # Unset /\ Defaults.hidden # Unset
  /\ Defaults.session # Unset /\ Defaults.every
  /\ Defaults.folders = [n \in Names |-> Unset]
  /\ InitialFiles \subseteq Contents \ {Empty}
  /\ MaxEdits \in Nat /\ MaxSaves \in Nat /\ MaxFaults \in Nat

ASSUME MarksAssumption ==
  /\ {Unset, Absent} \cap Folders = {} /\ Unset # Absent
  /\ {Missing, Broken, Empty} \cap Raw = {}
  /\ Missing # Broken /\ Missing # Empty /\ Broken # Empty

-----------------------------------------------------------------------------
(* Load, Save's validation, and the form *)

\* fromRaw: no course selected means all of them.
Normal(raw) ==
  [raw EXCEPT !.path   = IF @ = Unset THEN Defaults.path ELSE @,
              !.every  = @ \/ raw.courses = {},
              !.hidden = IF @ = Unset THEN Defaults.hidden ELSE @,
              !.session = IF @ = Unset THEN Defaults.session ELSE @]

Loads(content) == content \notin {Missing, Broken}

Load(content) == IF content = Empty THEN Defaults ELSE Normal(content)

\* buildCourseRows: the listed courses, then the rules that name no listed one.
Rows(c) == [n \in Names |->
              IF (~c.every /\ n \in c.courses) \/ c.folders[n] # Unset THEN c.folders[n] ELSE Absent]

View(c) == [path |-> c.path, every |-> c.every, rows |-> Rows(c), default |-> c.default,
            sections |-> c.sections]

\* The page of a file that does not parse: an empty form under the error.
BlankForm == [path |-> Unset, every |-> FALSE, rows |-> [n \in Names |-> Absent],
              default |-> Unset, sections |-> FALSE]

\* parseSettingsForm: what the form does not show comes from base, except the
\* session, which is set back to the default.
Parsed(f, base) ==
  [path     |-> f.path,
   every    |-> f.every,
   courses  |-> IF f.every THEN {} ELSE {n \in Names : f.rows[n] # Absent},
   folders  |-> [n \in Names |-> IF f.rows[n] \in Folders THEN f.rows[n] ELSE Unset],
   default  |-> f.default,
   sections |-> f.sections,
   hidden   |-> base.hidden,
   session  |-> Defaults.session]

Valid(c) == /\ c.path # Unset
            /\ \A n \in c.courses : n \notin BadNames
            /\ \A n \in BadNames : c.folders[n] = Unset

\* sectionSubfolderToggleWarning; the mutant sees one direction.
WarnsWhenSwitchedOn(base, c) == ~base.sections /\ c.sections /\ synced
Warns(base, c) == base.sections # c.sections /\ synced

-----------------------------------------------------------------------------
(* Folder resolution: a Go map is ranged over in any order *)

RulesFor(c, course) == {n \in Names : c.folders[n] # Unset /\ course \in Matches[n]}

\* ResolveCourseFolder; Nothing is the course's own name.
Resolved(c, course) ==
  IF RulesFor(c, course) # {} THEN {c.folders[n] : n \in RulesFor(c, course)}
  ELSE IF c.default # Unset THEN {c.default} ELSE {Nothing}

-----------------------------------------------------------------------------
Idle == [at |-> "idle"]
NoForm == [at |-> "closed"]

SettingsInit ==
  /\ file \in InitialFiles
  /\ backup = Missing
  /\ form = [t \in Tabs |-> NoForm]
  /\ asked = [t \in Tabs |-> Nothing]
  /\ post = [t \in Tabs |-> Idle]
  /\ run = Nothing
  /\ synced = FALSE
  /\ edits = 0 /\ saves = 0 /\ faults = 0
  /\ good = file
  /\ overlapped = FALSE

\* loadSettingsViewData: a first visit shows the defaults.
OpenForm(t) ==
  /\ post[t] = Idle
  /\ form' = [form EXCEPT ![t] =
                [at |-> "open", touched |-> {}, opened |-> IF Loads(file) THEN Load(file) ELSE Defaults,
                 shows |-> IF file = Broken THEN BlankForm
                           ELSE IF file = Missing THEN View(Defaults) ELSE View(Load(file))]]
  /\ asked' = [asked EXCEPT ![t] = Nothing]
  /\ UNCHANGED <<file, backup, post, run, synced, edits, saves, faults, good, overlapped>>

\* A change of the form, seen by the page's script only.
Edit(t, shown, rows) ==
  /\ form[t] # NoForm /\ post[t] = Idle
  /\ edits < MaxEdits
  /\ edits' = edits + 1
  /\ form' = [form EXCEPT ![t].shows = shown, ![t].touched = @ \cup rows]
  /\ UNCHANGED <<file, backup, asked, post, run, synced, saves, faults, good, overlapped>>

SetRow(t, n, folder) ==
  /\ form[t] # NoForm
  /\ form[t].shows.rows[n] # folder
  /\ Edit(t, [form[t].shows EXCEPT !.rows[n] = folder], {n})

Toggle(t) ==
  /\ form[t] # NoForm
  /\ \/ Edit(t, [form[t].shows EXCEPT !.every = ~ @], {})
     \/ Edit(t, [form[t].shows EXCEPT !.sections = ~ @], {})
     \/ Edit(t, [form[t].shows EXCEPT !.path = Unset], {})

\* "Suggest folders" sends the rows as they are now ...
Ask(t) ==
  /\ form[t] # NoForm /\ post[t] = Idle
  /\ asked[t] = Nothing
  /\ \E n \in Names : form[t].shows.rows[n] = Unset
  /\ form[t].shows.path # Unset \/ Loads(file)
  /\ asked' = [asked EXCEPT ![t] = form[t].shows]
  /\ UNCHANGED <<file, backup, form, post, run, synced, edits, saves, faults, good, overlapped>>

\* ... and the answer fills the rows that were empty then.
Proposed(f) ==
  Proposal({n \in Names : f.rows[n] = Unset}, {f.rows[n] : n \in Names} \cap Folders, f.default)

Fill(rows, sent) ==
  LET proposal == Proposed(sent)
  IN  [n \in Names |-> IF sent.rows[n] = Unset /\ proposal[n] # NoDir /\ rows[n] # Absent
                       THEN proposal[n] ELSE rows[n]]

Answer(t) ==
  /\ asked[t] # Nothing
  /\ asked' = [asked EXCEPT ![t] = Nothing]
  /\ LET filled == Fill(form[t].shows.rows, asked[t])
     IN  form' = [form EXCEPT ![t].shows.rows = filled,
                              ![t].touched = @ \cup {n \in Names : filled[n] # form[t].shows.rows[n]}]
  /\ UNCHANGED <<file, backup, post, run, synced, edits, saves, faults, good, overlapped>>

-----------------------------------------------------------------------------
(* A POST of the form, in the order of handleSettings and config.Save *)

\* What the file cannot say is taken from the defaults; by the mutant, everything.
BaseDefaults == Defaults
Base == IF Loads(file) THEN Load(file) ELSE Defaults

Submit(t) ==
  /\ form[t] # NoForm /\ post[t] = Idle
  /\ saves < MaxSaves
  /\ saves' = saves + 1
  /\ LET c == Parsed(form[t].shows, Base)
     IN  /\ Valid(c)
         /\ post' = [post EXCEPT ![t] = [at |-> "valid", old |-> Nothing, config |-> c, warned |-> Warns(Base, c),
                                         synced |-> synced]]
  /\ overlapped' = (overlapped \/ \E u \in Tabs : post[u] # Idle)
  /\ asked' = [asked EXCEPT ![t] = Nothing]
  /\ UNCHANGED <<file, backup, form, run, synced, edits, faults, good>>

\* A refused form is shown again as it was.
Refuse(t) ==
  /\ form[t] # NoForm /\ post[t] = Idle
  /\ ~ Valid(Parsed(form[t].shows, Base))
  /\ asked[t] # Nothing
  /\ asked' = [asked EXCEPT ![t] = Nothing]
  /\ UNCHANGED <<file, backup, form, post, run, synced, edits, saves, faults, good, overlapped>>

At(t, stage) == post[t].at = stage

ReadOld(t) ==
  /\ At(t, "valid")
  /\ post' = [post EXCEPT ![t] = [@ EXCEPT !.at = IF file = Missing THEN "backed" ELSE "read",
                                            !.old = file]]
  /\ UNCHANGED <<file, backup, form, asked, run, synced, edits, saves, faults, good, overlapped>>

BackupForgotten(t) ==
  /\ At(t, "read")
  /\ post' = [post EXCEPT ![t].at = "backed"]
  /\ UNCHANGED <<file, backup, form, asked, run, synced, edits, saves, faults, good, overlapped>>

Backup(t) ==
  /\ At(t, "read")
  /\ backup' = post[t].old
  /\ post' = [post EXCEPT ![t].at = "backed"]
  /\ UNCHANGED <<file, form, asked, run, synced, edits, saves, faults, good, overlapped>>

Truncate(t) ==
  /\ At(t, "backed")
  /\ file' = Empty
  /\ post' = [post EXCEPT ![t].at = "writing"]
  /\ UNCHANGED <<backup, form, asked, run, synced, edits, saves, faults, good, overlapped>>

\* Two writes into one file may leave the longer one's tail.
Write(t) ==
  /\ At(t, "writing")
  /\ \/ file' = post[t].config
     \/ file # Empty /\ file' = Broken
  /\ good' = file'
  /\ post' = [post EXCEPT ![t] = Idle]
  /\ form' = [form EXCEPT ![t].touched = {}, ![t].opened = Normal(post[t].config)]
  /\ UNCHANGED <<backup, asked, run, synced, edits, saves, faults, overlapped>>

-----------------------------------------------------------------------------
(* A full disk, a kill of the application, and a sync *)

Fault == faults < MaxFaults /\ faults' = faults + 1

SaveFails(t) ==
  /\ Fault
  /\ post[t].at \in {"read", "backed", "writing"}
  /\ backup' = IF At(t, "read") THEN Empty ELSE backup
  /\ file' = IF At(t, "backed") THEN Empty ELSE file
  /\ post' = [post EXCEPT ![t] = Idle]
  /\ UNCHANGED <<form, asked, run, synced, edits, saves, good, overlapped>>

\* The application is killed; without a save under way that only closes the page.
Kill ==
  /\ Fault
  /\ \E t \in Tabs : post[t] # Idle
  /\ post' = [t \in Tabs |-> Idle]
  /\ form' = [t \in Tabs |-> NoForm]
  /\ asked' = [t \in Tabs |-> Nothing]
  /\ UNCHANGED <<file, backup, run, synced, edits, saves, good, overlapped>>

\* A sync loads the file once, in this process or another, and leaves a history.
Sync ==
  /\ run = Nothing
  /\ Loads(file)
  /\ \E folders \in [Courses -> Folders \cup {Nothing}] :
       /\ \A c \in Courses : folders[c] \in Resolved(Load(file), c)
       /\ run' = [config |-> Load(file), folders |-> folders]
  /\ synced' = TRUE
  /\ UNCHANGED <<file, backup, form, asked, post, edits, saves, faults, good, overlapped>>

Saving(t) == Submit(t) \/ Refuse(t) \/ ReadOld(t) \/ Backup(t) \/ Truncate(t) \/ Write(t)

SettingsNext ==
  \/ \E t \in Tabs : \/ OpenForm(t) \/ Toggle(t) \/ Ask(t) \/ Answer(t)
                     \/ \E n \in Names, f \in Typed \cup {Unset, Absent} : SetRow(t, n, f)
                     \/ Saving(t) \/ SaveFails(t)
  \/ Kill \/ Sync

SettingsSpec == SettingsInit /\ [][SettingsNext]_settingsVars

-----------------------------------------------------------------------------
(* Properties *)

FormContent == [path : STRING \cup {Unset}, every : BOOLEAN, default : Folders \cup {Unset},
                rows : [Names -> Folders \cup {Unset, Absent}], sections : BOOLEAN]

Forms == {NoForm} \cup [at : {"open"}, touched : SUBSET Names, opened : Raw, shows : FormContent]

Posts == {Idle} \cup [at : {"valid", "read", "backed", "writing"}, config : Raw, warned : BOOLEAN,
                      synced : BOOLEAN, old : Contents \cup {Nothing}]

SettingsTypeOK ==
  /\ file \in Contents /\ backup \in Contents /\ good \in Contents
  /\ form \in [Tabs -> Forms]
  /\ asked \in [Tabs -> FormContent \cup {Nothing}]
  /\ post \in [Tabs -> Posts]
  /\ run \in {Nothing} \cup [config : Raw, folders : [Courses -> Folders \cup {Nothing}]]
  /\ synced \in BOOLEAN /\ overlapped \in BOOLEAN
  /\ edits \in 0..MaxEdits /\ saves \in 0..MaxSaves /\ faults \in 0..MaxFaults

Undisturbed == ~overlapped /\ faults = 0 /\ Loads(good)

\* A save writes what nobody touched as it was.  What config.yaml sets and the form
\* does not show is taken from the file as it is now, though not opal_url and
\* session_state_file, which every save sets back; the folder of an untouched row
\* from the form, whether all courses are synced or some; and a course of the list
\* that the form was opened with stays listed, unless the save is for all courses,
\* which empties the list (handleSettings, parseSettingsForm, buildCourseRows).
UntouchedKept ==
  [][\A t \in Tabs : Write(t) /\ Undisturbed
       => /\ file' \in Raw
          /\ Normal(file').hidden = Load(good).hidden
          /\ \A n \in Names \ form[t].touched : file'.folders[n] = form[t].opened.folders[n]
          /\ ~ file'.every /\ ~ form[t].opened.every
             => form[t].opened.courses \ form[t].touched \subseteq file'.courses]_settingsVars

\* A save that changes the layout of a download folder with a history says so,
\* however long its form was open (sectionSubfolderToggleWarning).
LayoutChangeIsAnnounced ==
  [][\A t \in Tabs : Write(t) /\ Undisturbed /\ post[t].synced
       => (post[t].warned <=> file'.sections # Load(good).sections)]_settingsVars

\* A configuration that a first fault cut off is in config.yaml.bak, until the
\* next save copies the torn file over it (config.Save, backupExisting).
TornIsRecoverable ==
  /\ file = Empty /\ good # Missing /\ ~overlapped /\ faults <= 1
  /\ faults = 0 \/ \A t \in Tabs : post[t].at \in {"idle", "valid", "read"}
  => backup = good

=============================================================================
