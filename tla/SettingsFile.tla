---------------------------- MODULE SettingsFile ----------------------------
(***************************************************************************)
(* The settings file of the backend, core/settings/: SettingsManager loads *)
(* it, migrating files of older versions (migrations.py) and filling in    *)
(* what is missing, and writes it again after every change; an import is   *)
(* checked by SettingsValidator against SETTINGS_REGISTRY first.           *)
(* A set of settings is a function from names to values.  The names stand  *)
(* for all settings that are treated alike; a value is the default one,    *)
(* one of the user's, or one that is wrong: of another type, out of its    *)
(* range, not a known model.                                               *)
(***************************************************************************)
EXTENDS Naturals, FiniteSets

CONSTANTS FileNames,   \* bound: the settings that are given a value
          NGiven,      \* bound: how many of them a file or payload gives
          OldVersions, \* bound: versions of files and payloads that are not the current one
          NChanges,    \* bound: changes
          NSaveFailures \* bound: failed or interrupted writes

CurrentVersion == 5

\* SETTINGS_REGISTRY: the settings and their sections.
SectionOf ==
  [theme |-> "general", model_name |-> "transcription",
   default_asr_model_id |-> "transcription", vad_threshold_db |-> "transcription",
   backend |-> "audio", audio_backend |-> "audio", vadThresholdDb |-> "audio",
   key_combination |-> "hotkey", refiner_provider_base_url |-> "refiner",
   coach_prompt_templates |-> "coach", coach_provider_base_url |-> "coach",
   history_enabled |-> "history"]
Registered == DOMAIN SectionOf

\* The fields of the sections' dataclasses: four settings of the registry have none.
Fields == Registered \ {"refiner_provider_base_url", "coach_provider_base_url"}

\* A name that is neither: a setting of another version.
SettingNames == Registered \cup {"unknown"}
Values == {"default", "user", "wrong"}
Modes == {"wispr", "system"}

ASSUME SettingsFileAssumption ==
  /\ FileNames \subseteq SettingNames /\ NGiven \in Nat /\ NChanges \in Nat
  /\ OldVersions \subseteq Nat \ {CurrentVersion} /\ NSaveFailures \in Nat

VARIABLES
  file,         \* the file: NoFile, Broken, or what it holds
  running,      \* the process runs
  settings, settingsVersion, \* _settings, its version
  modes,        \* _mode_container: the active mode and the settings of each
  defaults, servesDefaults,  \* DEFAULT_SETTINGS_STATE, and whether _settings is that object
  booted,       \* history: the file that was loaded, and what was made of it
  behind,       \* history: a write failed, or an update was refused half way
  unchecked,    \* history: values came from the file or by a sync update
  changesLeft, saveFailuresLeft \* for the bounds

servedVars == <<settings, settingsVersion, modes, defaults, servesDefaults>>
fileHistory == <<booted, unchecked>>
fileVars == <<file, running, servedVars, fileHistory, behind, changesLeft, saveFailuresLeft>>

NoFile == [kind |-> "none"]
Broken == [kind |-> "broken"]
Holds(version, given, modesGiven) ==
  [kind |-> "settings", version |-> version, settings |-> given, modes |-> modesGiven]

AllDefaults == [n \in Fields |-> "default"]
ModeDefaults == [active |-> "system", wispr |-> "default", system |-> "default"]
NoModes == [active |-> "none"]
NotGiven == [settings |-> "none"]

\* What a file or a payload may give: a few settings.
Given == UNION {[names -> {"user", "wrong"}] :
                  names \in {s \in SUBSET FileNames : Cardinality(s) <= NGiven}}
Plain(given) == [n \in {m \in DOMAIN given : m # "unknown"} |-> "user"]
GivenModes == [active : Modes, wispr : {"user"}, system : {"default", "wrong"}]

SettingsFileInit ==
  /\ \/ file = NoFile
     \/ \E given \in Given, v \in OldVersions : file = Holds(v, given, NoModes)
  /\ running = FALSE /\ settings = AllDefaults /\ settingsVersion = CurrentVersion
  /\ modes = ModeDefaults /\ defaults = AllDefaults /\ servesDefaults = FALSE
  /\ booted = [file |-> NoFile, settings |-> AllDefaults, modes |-> ModeDefaults]
  /\ behind = FALSE /\ unchecked = FALSE
  /\ changesLeft = NChanges /\ saveFailuresLeft = NSaveFailures

-----------------------------------------------------------------------------
(* Migration                                                               *)

In(sections, names) == {n \in names : n = "unknown" \/ SectionOf[n] \in sections}

\* {**get_category_defaults(), **settings}.
Filled(given, sections) ==
  [n \in DOMAIN given \cup In(sections, Registered) |->
     IF n \in DOMAIN given THEN given[n] ELSE "default"]
With(given, name, value) ==
  [n \in DOMAIN given \cup {name} |-> IF n = name THEN value ELSE given[n]]
Without(given, names) == [n \in DOMAIN given \ names |-> given[n]]

\* _v0_to_v1(): six sections, with their defaults; the others are dropped.
FirstSections == {"general", "transcription", "refiner", "audio", "hotkey", "advanced"}
ToV1(given) ==
  Filled(Without(given, DOMAIN given \ In(FirstSections, DOMAIN given)), FirstSections)

\* _v1_to_v2(): the model of the catalogue follows the name, "medium" without a known one.
ToV2(given) ==
  With(given, "default_asr_model_id",
       IF "model_name" \in DOMAIN given /\ given["model_name"] = "user" THEN "user"
       ELSE "default")

\* _v2_to_v3(): the hotkey section.
ToV3(given) == Filled(given, {"hotkey"})

\* _v3_to_v4(): backend becomes audio_backend, unless that is there; audio loses its VAD.
ToV4(given) ==
  LET renamed == IF "audio_backend" \in DOMAIN given THEN given
                 ELSE IF "backend" \in DOMAIN given
                      THEN Without(With(given, "audio_backend", given["backend"]), {"backend"})
                      ELSE With(given, "audio_backend", "default")
  IN  Without(renamed, {"vadThresholdDb"})

\* _v4_to_v5(): the coach section.
ToV5(given) == Filled(given, {"coach"})

\* migrate_to_current().
Migrated(given, version) ==
  LET v1 == IF version < 1 THEN ToV1(given) ELSE given
      v2 == IF version < 2 THEN ToV2(v1) ELSE v1
      v3 == IF version < 3 THEN ToV3(v2) ELSE v2
      v4 == IF version < 4 THEN ToV4(v3) ELSE v3
  IN  IF version < 5 THEN ToV5(v4) ELSE v4

-----------------------------------------------------------------------------
(* What files and payloads become                                          *)

\* _normalize_settings_payload(): a model that is not known is replaced by that of the model
\* name, if this is one, or by the default.
Normalized(given) ==
  LET known(n) == n \in DOMAIN given /\ given[n] # "wrong"
  IN  With(given, "default_asr_model_id",
           IF known("default_asr_model_id") THEN given["default_asr_model_id"]
           ELSE IF known("model_name") THEN given["model_name"] ELSE "default")

\* The sections' dataclasses take their fields and nothing else, whatever the values; only the
\* coach's templates are built from theirs.
Builds(given) ==
  /\ DOMAIN given \subseteq Fields
  /\ "coach_prompt_templates" \in DOMAIN given => given["coach_prompt_templates"] # "wrong"
Built(given) == [n \in Fields |-> IF n \in DOMAIN given THEN given[n] ELSE "default"]

\* validate_setting(): a known name, and a value of its type and in its range.
ValidSetting(name, value) == name \in Registered /\ value # "wrong"

\* _check_dependencies(): the two thresholds of voice detection are not too far from each
\* other.
ThresholdsAgree(given) ==
  {"vad_threshold_db", "vadThresholdDb"} \subseteq DOMAIN given =>
    given["vad_threshold_db"] = given["vadThresholdDb"]

\* SettingsValidator.validate(): known sections only, with valid settings that go together.
ValidPayload(given, modesGiven) ==
  /\ modesGiven = NoModes
  /\ \A n \in DOMAIN given : ValidSetting(n, given[n])
  /\ ThresholdsAgree(given)

\* ModeSpecificSettings.to_container(), SettingsContainer.from_dict(): pydantic checks them.
ModesBuild(given) == \A m \in Modes : given[m] # "wrong"

\* _migrate_legacy_mode_settings(): the settings of both modes follow the transcription's.
LegacyModes == [active |-> "system", wispr |-> "legacy", system |-> "legacy"]

\* What _load() makes of a file.
Readable(f) ==
  /\ f.kind = "settings"
  /\ Builds(Normalized(Migrated(f.settings, f.version)))
  /\ f.modes # NoModes /\ f.version > 0 => ModesBuild(f.modes)
Loaded(f) == IF Readable(f) THEN Built(Normalized(Migrated(f.settings, f.version)))
             ELSE AllDefaults
LoadedModes(f) == IF ~Readable(f) THEN ModeDefaults
                  ELSE IF f.modes = NoModes \/ f.version = 0 THEN LegacyModes ELSE f.modes

-----------------------------------------------------------------------------
(* The settings manager                                                    *)

\* _save() writes the file in place.  Without it the settings are only in memory; a write that
\* fails, or that the process does not survive, leaves the old file or a broken one.
Saves ==
  \/ /\ file' = Holds(settingsVersion', settings', modes') /\ behind' = FALSE
     /\ running' = TRUE /\ UNCHANGED saveFailuresLeft
  \/ /\ saveFailuresLeft > 0 /\ saveFailuresLeft' = saveFailuresLeft - 1
     /\ file' \in {file, Broken} /\ running' \in BOOLEAN /\ behind' = TRUE

\* _load(), in a process of its own: what cannot be read is replaced by the defaults, on the
\* disk too.
FileLoads ==
  /\ ~running
  /\ settings' = Loaded(file) /\ modes' = LoadedModes(file)
  /\ settingsVersion' = (IF Readable(file) /\ file.version > CurrentVersion THEN file.version
                         ELSE CurrentVersion)
  /\ defaults' = AllDefaults /\ servesDefaults' = ~Readable(file)
  /\ booted' = [file |-> file, settings |-> settings', modes |-> modes']
  /\ unchecked' = (\E n \in Fields : settings'[n] = "wrong")
  /\ UNCHANGED changesLeft
  /\ IF Readable(file)
     THEN running' = TRUE /\ behind' = FALSE /\ UNCHANGED <<file, saveFailuresLeft>>
     ELSE Saves

\* One change more, in a process that runs.
Changes == running /\ changesLeft > 0 /\ changesLeft' = changesLeft - 1

\* import_settings(): all settings that the payload does not give become the defaults.  A
\* payload with modes is refused, so they are never imported.
ImportsPayload ==
  /\ Changes
  /\ \E given \in Given, v \in OldVersions \cup {CurrentVersion} :
       /\ ValidPayload(Normalized(given), NoModes) /\ Builds(Normalized(given))
       /\ settings' = Built(Normalized(given)) /\ settingsVersion' = v
  /\ servesDefaults' = FALSE /\ UNCHANGED <<modes, defaults, fileHistory>>
  /\ Saves

\* apply_sync_update(): nothing is checked but what the constructors check; the modes are taken
\* before the settings are, and stay when those are refused.
AppliesSync ==
  /\ Changes
  /\ \E given \in Given \cup {NotGiven}, newModes \in GivenModes \cup {NoModes},
        v \in OldVersions \cup {CurrentVersion} :
       LET takesModes == newModes # NoModes /\ ModesBuild(newModes)
           fits == /\ newModes = NoModes \/ takesModes
                   /\ given = NotGiven \/ Builds(Normalized(given))
       IN  /\ modes' = IF takesModes THEN newModes ELSE modes
           /\ IF fits /\ given # NotGiven
              THEN /\ settings' = Built(Normalized(given)) /\ settingsVersion' = v
                   /\ servesDefaults' = FALSE /\ unchecked' = TRUE
              ELSE UNCHANGED <<settings, settingsVersion, servesDefaults, unchecked>>
           /\ IF fits THEN Saves
              ELSE /\ behind' = (behind \/ modes' # modes)
                   /\ UNCHANGED <<file, running, saveFailuresLeft>>
  /\ UNCHANGED <<defaults, booted>>

\* Variant of UpdatesPartial: the file is left for later.
UpdatesPartialUnsaved ==
  /\ Changes
  /\ \E n \in Fields \cap FileNames, v \in {"default", "user"} :
       settings' = [settings EXCEPT ![n] = v]
  /\ UNCHANGED <<file, running, settingsVersion, modes, defaults, servesDefaults, fileHistory,
                 behind, saveFailuresLeft>>

\* update_partial(), with a value that was checked: in the object that is served, which may be
\* the defaults.
UpdatesPartial ==
  /\ Changes
  /\ \E n \in Fields \cap FileNames, v \in Values :
       /\ ValidSetting(n, v) /\ settings' = [settings EXCEPT ![n] = v]
       /\ defaults' = IF servesDefaults THEN settings' ELSE defaults
  /\ UNCHANGED <<settingsVersion, modes, servesDefaults, fileHistory>>
  /\ Saves

\* reset_to_defaults().
ResetsAll ==
  /\ Changes /\ settings' = defaults /\ settingsVersion' = CurrentVersion
  /\ servesDefaults' = TRUE /\ modes' = ModeDefaults /\ Saves
  /\ UNCHANGED <<defaults, fileHistory>>

\* What set_active_mode() and reset_mode_to_defaults() of the container make of it; the names
\* update_mode_settings() is given are no attributes of the class ModeSettings, so it refuses
\* them all.
ModesAfter(m) == {[modes EXCEPT !.active = m], [modes EXCEPT ![m] = "default"]}

\* The manager's methods of the same names.
ChangesModes ==
  /\ Changes
  /\ \E m \in Modes : modes' \in ModesAfter(m)
  /\ UNCHANGED <<settings, settingsVersion, defaults, servesDefaults, fileHistory>>
  /\ Saves

\* The process ends.
FileQuits ==
  /\ running /\ running' = FALSE
  /\ UNCHANGED <<file, servedVars, fileHistory, behind, changesLeft, saveFailuresLeft>>

SettingsFileNext ==
  \/ FileLoads \/ ImportsPayload \/ AppliesSync \/ UpdatesPartial \/ ResetsAll
  \/ ChangesModes \/ FileQuits

SettingsFileSpec == SettingsFileInit /\ [][SettingsFileNext]_fileVars

-----------------------------------------------------------------------------
(* Properties                                                              *)

SettingsFileTypeOK ==
  /\ file.kind \in {"none", "broken", "settings"} /\ running \in BOOLEAN
  /\ settings \in [Fields -> Values] /\ defaults \in [Fields -> {"default", "user"}]
  /\ modes \in [active : Modes, wispr : {"default", "user", "legacy"},
                system : {"default", "user", "legacy"}]
  /\ settingsVersion \in OldVersions \cup {CurrentVersion} /\ changesLeft \in 0 .. NChanges
  /\ saveFailuresLeft \in 0 .. NSaveFailures

\* A restart brings back the settings and the modes that are served, whatever was changed and
\* by whom: unless a write failed or was cut short, an update was refused half way, or an
\* import or an update carried the number of an older version.
RestartChangesNothing ==
  running /\ ~behind /\ settingsVersion >= CurrentVersion =>
    Loaded(file) = settings /\ LoadedModes(file) = modes

\* Values that are wrong come from the file or from an update that nothing checks, never by an
\* import or a change; the model is a known one even then.
WrongComesUnchecked ==
  /\ ~unchecked => \A n \in Fields : settings[n] # "wrong"
  /\ settings["default_asr_model_id"] # "wrong"

\* What a file of the current version, or a later one, says of the settings that this version
\* knows is served, or none of it is: no file is read in part.
FilesAreReadWhole ==
  /\ booted.file.kind = "settings"
  /\ booted.settings # AllDefaults \/ booted.modes # ModeDefaults
  =>
    \A n \in DOMAIN booted.file.settings \ {"default_asr_model_id"} :
      n \in Fields /\ booted.settings[n] = booted.file.settings[n]

\* A file of an older version gives what it says to this version (migrations.py).
OldSettingsSurvive ==
  booted.file.kind = "settings" /\ booted.file.version < CurrentVersion =>
    \A n \in {"theme", "model_name", "key_combination"} \cap DOMAIN booted.file.settings :
      booted.file.settings[n] = "user" => booted.settings[n] = "user"

SettingsFileInv ==
  /\ SettingsFileTypeOK /\ RestartChangesNothing /\ WrongComesUnchecked
  /\ FilesAreReadWhole
=============================================================================
