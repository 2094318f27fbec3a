--------------------------- MODULE SettingsSharing ---------------------------
(***************************************************************************)
(* The user settings and those who write them: the backend's               *)
(* SettingsManager and its file (core/settings/manager.py), its routes,    *)
(* the batches of the settings socket (api/transport/settings_sync.py), and*)
(* the copies the main window, the tray menu and the quick settings window *)
(* post back whole (App.tsx, main/utils/api.js, main/windows/tray.js,      *)
(* main/ipc/handlers.js).  A setting is a key; its values are the numbers  *)
(* of the edits that wrote them, 0 being the default of the registry.      *)
(***************************************************************************)
EXTENDS Integers, FiniteSets

CONSTANTS SettingKeys,
          NEdits,        \* bound on the edits, of all writers
          StoreDeaths    \* bound on the deaths of the backend

ASSUME SettingsAssumption ==
  NEdits \in Nat /\ StoreDeaths \in Nat /\ "all" \notin SettingKeys

VARIABLES
  storeUp,
  shared,         \* _settings is the object DEFAULT_SETTINGS_STATE itself
  ownState,       \* the contents of _settings when it is an object of its own
  defaultsState,  \* the contents of DEFAULT_SETTINGS_STATE
  settingsFile,   \* user_settings.json: [is |-> .., holds |-> ..]
  batched,        \* _batched_updates, 0 for a key without an update
  batchTimer,     \* _batch_task sleeps
  copies,         \* the settings each window holds and will post
  posts,          \* the POST each window waits for
  cached,         \* state.cachedSettings of the main process: [filled |-> .., holds |-> ..]
  loadOf,         \* loadSettings() of the main window
  trayDue,        \* scheduleTrayRefresh() has its timer set
  edits, deaths,
  newest,         \* history: the last edit of each key that the backend took
  unseen,         \* history: who missed an edit nobody tells it of
  harm            \* history: what may have lost an edit

settingsVars == <<storeUp, shared, ownState, defaultsState, settingsFile, batched, batchTimer,
                  copies, posts, cached, loadOf, trayDue, edits, deaths, newest, unseen, harm>>

Windows == {"app", "tray", "quick"}
Parties == Windows \cup {"cache"}
Values == 0..NEdits
AllSettings == [SettingKeys -> Values]
Defaults == [k \in SettingKeys |-> 0]
Unread == [k \in SettingKeys |-> -1]
NoPost == [at |-> "none", holds |-> Defaults, key |-> "none"]
NoLoad == [at |-> "idle", holds |-> Defaults]
NowServed == IF shared THEN defaultsState ELSE ownState
Kept(settings) == [is |-> "kept", holds |-> settings]

\* A write while the load, or the POST of a window other than w, is under way.
Crosses(w) ==
  IF loadOf.at # "idle" \/ \E v \in Windows \ {w} : posts[v].at # "none"
  THEN {"crossed"} ELSE {}

CrossesAll == Crosses("none")

-----------------------------------------------------------------------------
\* The manager: each change is saved under its lock before anything else happens.

\* setattr() on the object in place, whichever object that is, then _save().
ChangesInPlace(settings) ==
  /\ IF shared THEN defaultsState' = settings /\ UNCHANGED ownState
     ELSE ownState' = settings /\ UNCHANGED defaultsState
  /\ settingsFile' = Kept(settings) /\ UNCHANGED shared

\* Variant of Imports: the imported settings are not saved.
ImportsUnsaved(settings) ==
  /\ ownState' = settings /\ shared' = FALSE /\ UNCHANGED <<defaultsState, settingsFile>>

\* import_settings() makes a new object.
Imports(settings) ==
  /\ ownState' = settings /\ shared' = FALSE
  /\ settingsFile' = Kept(settings) /\ UNCHANGED defaultsState

\* _load() in a new process: a file that cannot be parsed is replaced by the defaults.
StoreBoots ==
  /\ ~storeUp /\ storeUp' = TRUE
  /\ shared' = (settingsFile.is # "kept")
  /\ ownState' = IF settingsFile.is = "kept" THEN settingsFile.holds ELSE Defaults
  /\ defaultsState' = Defaults
  /\ settingsFile' = Kept(ownState')
  /\ newest' = ownState'
  /\ unseen' = IF ownState' = NowServed THEN unseen ELSE Parties
  /\ harm' = IF ownState' = NowServed THEN harm ELSE harm \cup CrossesAll
  /\ UNCHANGED <<batched, batchTimer, copies, posts, cached, loadOf, trayDue, edits, deaths>>

\* The process dies, between two changes or while open("w") has emptied the file.
StoreDies ==
  /\ storeUp /\ deaths < StoreDeaths /\ deaths' = deaths + 1
  /\ storeUp' = FALSE /\ batched' = Defaults /\ batchTimer' = FALSE
  /\ \/ UNCHANGED settingsFile
     \/ /\ batchTimer \/ \E w \in Windows : posts[w].at = "sent"
        /\ settingsFile' = [settingsFile EXCEPT !.is = "torn"]
  /\ UNCHANGED <<shared, ownState, defaultsState, copies, posts, cached, loadOf, trayDue,
                 edits, newest, unseen, harm>>

-----------------------------------------------------------------------------
\* Writers that are no window.

Edits == edits < NEdits /\ edits' = edits + 1
Overtakes == IF batchTimer THEN {"overtaken"} ELSE {}

\* POST /api/models/select and /api/models/refinement-mode: the object that get_settings()
\* returned is changed in place and saved.
SelectsModel(k) ==
  /\ storeUp /\ Edits
  /\ ChangesInPlace([NowServed EXCEPT ![k] = edits'])
  /\ newest' = [newest EXCEPT ![k] = edits'] /\ unseen' = Parties
  /\ harm' = harm \cup Overtakes \cup CrossesAll
  /\ UNCHANGED <<storeUp, batched, batchTimer, copies, posts, cached, loadOf, trayDue, deaths>>

\* POST /api/settings/reset: reset_to_defaults() takes the shared object as it is.
RouteResets ==
  /\ storeUp /\ Edits
  /\ shared' = TRUE /\ settingsFile' = Kept(defaultsState)
  /\ newest' = Defaults /\ unseen' = Parties
  /\ harm' = harm \cup Overtakes \cup CrossesAll
               \cup (IF defaultsState = Defaults THEN {} ELSE {"defaults"})
  /\ UNCHANGED <<storeUp, ownState, defaultsState, batched, batchTimer, copies, posts, cached,
                 loadOf, trayDue, deaths>>

\* Variant of SocketQueues: the new batch takes the place of the one that waits.
SocketReplaces(k) ==
  /\ storeUp /\ Edits
  /\ batched' = [Defaults EXCEPT ![k] = edits'] /\ batchTimer' = TRUE
  /\ newest' = [newest EXCEPT ![k] = edits'] /\ unseen' = Parties
  /\ harm' = harm \cup CrossesAll
  /\ UNCHANGED <<storeUp, shared, ownState, defaultsState, settingsFile, copies, posts, cached,
                 loadOf, trayDue, deaths>>

\* A settings_update of the settings socket: it is merged in the batch, whose timer starts
\* anew, and answered as applied.
SocketQueues(k) ==
  /\ storeUp /\ Edits
  /\ batched' = [batched EXCEPT ![k] = edits'] /\ batchTimer' = TRUE
  /\ newest' = [newest EXCEPT ![k] = edits'] /\ unseen' = Parties
  /\ harm' = harm \cup CrossesAll
  /\ UNCHANGED <<storeUp, shared, ownState, defaultsState, settingsFile, copies, posts, cached,
                 loadOf, trayDue, deaths>>

\* Variant of BatchApplies: what was applied stays in the batch.
BatchStays ==
  /\ storeUp /\ batchTimer
  /\ ChangesInPlace([k \in SettingKeys |-> IF batched[k] # 0 THEN batched[k] ELSE NowServed[k]])
  /\ batchTimer' = FALSE
  /\ unseen' = Parties /\ harm' = harm \cup CrossesAll
  /\ UNCHANGED <<storeUp, batched, copies, posts, cached, loadOf, trayDue, edits, deaths, newest>>

\* _process_batch(), update_partial() for what it holds.
BatchApplies ==
  /\ storeUp /\ batchTimer
  /\ ChangesInPlace([k \in SettingKeys |-> IF batched[k] # 0 THEN batched[k] ELSE NowServed[k]])
  /\ batched' = Defaults /\ batchTimer' = FALSE
  /\ unseen' = Parties /\ harm' = harm \cup CrossesAll
  /\ UNCHANGED <<storeUp, copies, posts, cached, loadOf, trayDue, edits, deaths, newest>>

-----------------------------------------------------------------------------
\* The windows post whole settings.

\* persistSettingsUpdate() and the settings panel of the main window, a click in the tray
\* menu, quick-settings:update.  The tray stores its copy in the cache before it posts.
WindowPosts(w, key, settings) ==
  /\ posts[w].at = "none" /\ Edits
  /\ posts' = [posts EXCEPT ![w] = [at |-> "sent", holds |-> settings, key |-> key]]
  /\ copies' = [copies EXCEPT ![w] = settings]
  /\ cached' = IF w = "tray" THEN [filled |-> TRUE, holds |-> settings] ELSE cached
  /\ harm' = harm \cup (IF w \in unseen THEN {"stale"} ELSE {}) \cup Crosses(w)
  /\ UNCHANGED <<storeUp, shared, ownState, defaultsState, settingsFile, batched, batchTimer,
                 loadOf, trayDue, deaths, newest, unseen>>

WindowEdits(w, k) ==
  copies[w] # Unread /\ WindowPosts(w, k, [copies[w] EXCEPT ![k] = edits + 1])
PanelResets == WindowPosts("app", "all", Defaults)

PostTaken(w) ==
  /\ storeUp /\ posts[w].at = "sent"
  /\ Imports(posts[w].holds)
  /\ posts' = [posts EXCEPT ![w].at = "taken"]
  /\ newest' = IF posts[w].key = "all" THEN Defaults
               ELSE [newest EXCEPT ![posts[w].key] = posts[w].holds[posts[w].key]]
  /\ unseen' = unseen \cup ({"tray", "quick", "cache"} \ {w})
  /\ harm' = harm \cup Overtakes \cup Crosses(w)
  /\ UNCHANGED <<storeUp, batched, batchTimer, copies, cached, loadOf, trayDue, edits, deaths>>

\* The backend is gone: a POST is not tried again.
PostFails(w) ==
  /\ ~storeUp /\ posts[w].at \in {"sent", "taken"}
  /\ posts' = [posts EXCEPT ![w] = NoPost]
  /\ unseen' = Parties
  /\ UNCHANGED <<storeUp, shared, ownState, defaultsState, settingsFile, batched, batchTimer,
                 copies, cached, loadOf, trayDue, edits, deaths, newest, harm>>

AppPostAnswered ==
  /\ posts["app"].at = "taken"
  /\ posts' = [posts EXCEPT !["app"] = NoPost]
  /\ copies' = [copies EXCEPT !["app"] = posts["app"].holds]
  /\ UNCHANGED <<storeUp, shared, ownState, defaultsState, settingsFile, batched, batchTimer,
                 cached, loadOf, trayDue, edits, deaths, newest, unseen, harm>>

\* Variant of TellsApp: the main window is not told.
TellsNobody == UNCHANGED loadOf

\* settings-updated: the main window loads, unless a load of its own is under way.
TellsApp == loadOf' = IF loadOf.at = "idle" THEN [NoLoad EXCEPT !.at = "asked"] ELSE loadOf

Missed(w) ==
  (unseen \ (IF posts[w].holds = NowServed THEN {"cache"} \cup ({w} \ {"quick"}) ELSE {}))
    \cup (IF loadOf.at = "idle" THEN {} ELSE {"app"})

\* Variant of CachePosted: the cache is left as it was.
CacheForgets(w) == UNCHANGED cached

CachePosted(w) == cached' = [filled |-> TRUE, holds |-> posts[w].holds]

\* saveUserSettings() returns in the main process: the cache is what was posted, the main
\* window is told, and the tray menu is built again, at once or after 150 ms.
MainPostAnswered(w) ==
  /\ w # "app" /\ posts[w].at = "taken"
  /\ posts' = [posts EXCEPT ![w] = NoPost]
  /\ CachePosted(w)
  /\ trayDue' = (trayDue \/ w = "quick")
  /\ copies' = IF w = "tray" THEN [copies EXCEPT !["tray"] = cached'.holds] ELSE copies
  /\ unseen' = Missed(w)
  /\ TellsApp
  /\ UNCHANGED <<storeUp, shared, ownState, defaultsState, settingsFile, batched, batchTimer,
                 edits, deaths, newest, harm>>

\* createTray() from the timer, and quick-settings:get-data, read the cache.
Reads(w) ==
  /\ copies' = [copies EXCEPT ![w] = cached.holds]
  /\ unseen' = IF "cache" \in unseen THEN unseen ELSE unseen \ {w}
  /\ UNCHANGED <<storeUp, shared, ownState, defaultsState, settingsFile, batched, batchTimer,
                 posts, cached, loadOf, edits, deaths, newest, harm>>

TrayRebuilds == trayDue /\ trayDue' = FALSE /\ Reads("tray")
QuickReads == cached.filled /\ posts["quick"].at = "none" /\ Reads("quick") /\ UNCHANGED trayDue

\* loadUserSettings() fills the cache once, for a tray menu or for the quick settings window.
CacheFills(w) ==
  /\ storeUp /\ ~cached.filled
  /\ cached' = [filled |-> TRUE, holds |-> NowServed]
  /\ copies' = [copies EXCEPT ![w] = NowServed]
  /\ unseen' = unseen \ {w, "cache"}
  /\ UNCHANGED <<storeUp, shared, ownState, defaultsState, settingsFile, batched, batchTimer,
                 posts, loadOf, trayDue, edits, deaths, newest, harm>>

\* loadSettings() of the main window: the backend answers, and the answer is shown.
LoadServed ==
  /\ storeUp /\ loadOf.at = "asked" /\ loadOf' = [at |-> "served", holds |-> NowServed]
  /\ UNCHANGED <<storeUp, shared, ownState, defaultsState, settingsFile, batched, batchTimer,
                 copies, posts, cached, trayDue, edits, deaths, newest, unseen, harm>>

LoadAnswered ==
  /\ loadOf.at = "served" /\ loadOf' = NoLoad
  /\ copies' = [copies EXCEPT !["app"] = loadOf.holds]
  /\ unseen' = IF loadOf.holds = NowServed THEN unseen \ {"app"} ELSE unseen
  /\ UNCHANGED <<storeUp, shared, ownState, defaultsState, settingsFile, batched, batchTimer,
                 posts, cached, trayDue, edits, deaths, newest, harm>>

\* Five attempts found no backend: the main window goes on with what it has.
LoadFails ==
  /\ ~storeUp /\ loadOf.at # "idle" /\ loadOf' = NoLoad
  /\ unseen' = unseen \cup {"app"}
  /\ UNCHANGED <<storeUp, shared, ownState, defaultsState, settingsFile, batched, batchTimer,
                 copies, posts, cached, trayDue, edits, deaths, newest, harm>>

-----------------------------------------------------------------------------
SettingsInit ==
  /\ storeUp = FALSE /\ shared = FALSE /\ ownState = Defaults /\ defaultsState = Defaults
  /\ settingsFile = [is |-> "missing", holds |-> Defaults]
  /\ batched = Defaults /\ batchTimer = FALSE
  /\ copies = [w \in Windows |-> IF w = "quick" THEN Unread ELSE Defaults]
  /\ posts = [w \in Windows |-> NoPost]
  /\ cached = [filled |-> FALSE, holds |-> Defaults]
  /\ loadOf = [NoLoad EXCEPT !.at = "asked"] /\ trayDue = FALSE
  /\ edits = 0 /\ deaths = 0
  /\ newest = Defaults /\ unseen = {} /\ harm = {}

SettingsNext ==
  \/ StoreBoots \/ StoreDies \/ RouteResets \/ BatchApplies
  \/ \E k \in SettingKeys : \/ SelectsModel(k) \/ SocketQueues(k)
                            \/ \E w \in Windows : WindowEdits(w, k)
  \/ PanelResets \/ AppPostAnswered \/ TrayRebuilds \/ QuickReads
  \/ CacheFills("tray") \/ CacheFills("quick")
  \/ \E w \in Windows : PostTaken(w) \/ PostFails(w) \/ MainPostAnswered(w)
  \/ LoadServed \/ LoadAnswered \/ LoadFails

SettingsSpec == SettingsInit /\ [][SettingsNext]_settingsVars

-----------------------------------------------------------------------------
SettingsTypeOK ==
  /\ storeUp \in BOOLEAN /\ shared \in BOOLEAN
  /\ ownState \in AllSettings /\ defaultsState \in AllSettings
  /\ settingsFile \in [is : {"missing", "torn", "kept"}, holds : AllSettings]
  /\ batched \in AllSettings /\ batchTimer = (batched # Defaults)
  /\ copies \in [Windows -> AllSettings \cup {Unread}]
  /\ posts \in [Windows -> [at : {"none", "sent", "taken"}, holds : AllSettings,
                             key : SettingKeys \cup {"none", "all"}]]
  /\ cached \in [filled : BOOLEAN, holds : AllSettings]
  /\ loadOf \in [at : {"idle", "asked", "served"}, holds : AllSettings]
  /\ trayDue \in BOOLEAN /\ edits \in Values /\ deaths \in 0..StoreDeaths
  /\ newest \in AllSettings /\ unseen \subseteq Parties
  /\ harm \subseteq {"overtaken", "defaults", "stale", "crossed"}

SettingsRest ==
  /\ storeUp /\ ~batchTimer /\ ~trayDue
  /\ loadOf.at = "idle" /\ \A w \in Windows : posts[w].at = "none"

\* A backend that starts again serves what it served: whichever route an edit takes, it is
\* in the file when the next request is handled.
FileHoldsServed == storeUp => settingsFile = Kept(NowServed)

\* Every edit is kept, although each window posts all settings and not the one it changed:
\* at rest the backend serves the last edit of each key, unless a window posted a copy that
\* misses edits nobody told it of, writes crossed, a batch was overtaken by a later write,
\* or the defaults had been changed in place.
EditsAreKept == SettingsRest /\ harm = {} => NowServed = newest

\* What is edited in the tray or in the quick settings shows in the main window, unless it
\* missed the notification.
AppShowsServed ==
  SettingsRest /\ "app" \notin unseen /\ "crossed" \notin harm => copies["app"] = NowServed

\* "persistent storage, validation, and synchronization of user preferences across the
\* OpenWispr application" (docs/engineering/settings.md:14): one user, editing one setting
\* after the other, loses none of them.
\* The code does not keep this: README, section 6.
SettingsAreSynchronized ==
  SettingsRest /\ harm \subseteq {"stale"} /\ deaths = 0 => NowServed = newest

\* "Reset all settings to defaults." (core/settings/manager.py:754)
\* The code does not keep this: README, section 6.
ResetGivesDefaults == [][RouteResets => NowServed' = Defaults]_settingsVars

\* The file, the backend and the windows agree on the user's last edits.
SettingsInv == SettingsTypeOK /\ FileHoldsServed /\ EditsAreKept /\ AppShowsServed
=============================================================================
