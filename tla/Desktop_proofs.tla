-------------------------- MODULE Desktop_proofs --------------------------
(***************************************************************************)
(* Proofs about the desktop application's components, for every value of   *)
(* their constants.  Each part proves of a component that every behaviour  *)
(* of it has the component's invariant.  The last parts say it of the      *)
(* composition MCDesktop, and prove of HotkeyClient, the client of         *)
(* push-to-talk, that texts are pasted once.                               *)
(***************************************************************************)
EXTENDS HotkeyClient, MCDesktop, FiniteSetTheorems, SequenceTheorems, TLAPS

-----------------------------------------------------------------------------
(* SettingsSharing: unless writes crossed, one write is under way at a time, and what a   *)
(* window or the cache of the main process shows is what the backend serves, if it is not *)
(* among those that missed an edit.                                                       *)

Uncrossed == "crossed" \notin harm
NoneSent == \A v \in Windows : posts[v].at # "sent"
NoPosts == \A v \in Windows : posts[v].at = "none"

OneAtATime ==
  Uncrossed =>
    /\ loadOf.at # "idle" => NoPosts
    /\ \A v, w \in Windows : posts[v].at # "none" /\ posts[w].at # "none" => v = w

\* What the backend took and what it answered is what it serves.
TakenIsServed ==
  Uncrossed => /\ \A w \in Windows : posts[w].at = "taken" => posts[w].holds = NowServed
               /\ loadOf.at = "served" => loadOf.holds = NowServed

PostedIsShown ==
  Uncrossed => \A w \in Windows : posts[w].at # "none" => copies[w] = posts[w].holds

TrayIsCached ==
  Uncrossed /\ posts["tray"].at # "none" => cached.holds = posts["tray"].holds

CacheIsFilled ==
  trayDue \/ copies["quick"] # Unread \/ posts["tray"].at # "none" \/ posts["quick"].at # "none"
    => cached.filled

SeenIsServed ==
  Uncrossed /\ NoneSent =>
    /\ "cache" \notin unseen /\ cached.filled => cached.holds = NowServed
    /\ \A w \in {"tray", "quick"} : w \notin unseen => copies[w] \in {NowServed, Unread}
    /\ "cache" \in unseen =>
         \A w \in {"tray", "quick"} : w \notin unseen => posts[w].at = "taken"

AppSeesServed ==
  Uncrossed /\ NoPosts /\ loadOf.at = "idle" /\ "app" \notin unseen => copies["app"] = NowServed

\* What a window sends changes the setting that was edited only.
SentIsServed ==
  harm = {} => \A w \in Windows : posts[w].at = "sent" =>
    \/ posts[w].key = "all" /\ posts[w].holds = Defaults
    \/ /\ posts[w].key \in SettingKeys
       /\ posts[w].holds = [NowServed EXCEPT ![posts[w].key] = posts[w].holds[posts[w].key]]

\* What waits in the batch are the newest edits of its keys.
NewestIsServed ==
  /\ storeUp /\ harm = {} =>
       \A k \in SettingKeys : newest[k] = IF batched[k] # 0 THEN batched[k] ELSE NowServed[k]
  /\ ~storeUp => batched = Defaults

SettingsIInv ==
  /\ SettingsTypeOK /\ FileHoldsServed
  /\ OneAtATime /\ TakenIsServed /\ PostedIsShown /\ TrayIsCached /\ CacheIsFilled
  /\ SeenIsServed /\ AppSeesServed /\ SentIsServed /\ NewestIsServed

StoreTyped == storeUp \in BOOLEAN /\ shared \in BOOLEAN /\ trayDue \in BOOLEAN
StatesTyped == ownState \in AllSettings /\ defaultsState \in AllSettings
FileTyped ==
  settingsFile \in [is : {"missing", "torn", "kept"}, holds : AllSettings]
BatchTyped == batched \in AllSettings
TimerIsBatch == batchTimer = (batched # Defaults)
CopiesTyped == copies \in [Windows -> AllSettings \cup {Unread}]
PostsTyped ==
  posts \in [Windows -> [at : {"none", "sent", "taken"}, holds : AllSettings,
                          key : SettingKeys \cup {"none", "all"}]]
CachedTyped == cached \in [filled : BOOLEAN, holds : AllSettings]
LoadTyped == loadOf \in [at : {"idle", "asked", "served"}, holds : AllSettings]
EditsTyped == edits \in Values /\ deaths \in 0..StoreDeaths
NewestTyped == newest \in AllSettings
HarmTyped ==
  unseen \subseteq Parties /\ harm \subseteq {"overtaken", "defaults", "stale", "crossed"}
\* The initial state satisfies the invariant.
LEMMA SettingsInitInv == SettingsInit => SettingsIInv
<1> SUFFICES ASSUME SettingsInit PROVE SettingsIInv
  OBVIOUS
<1> USE SettingsAssumption DEF SettingsInit, Windows
<1>1. SettingsTypeOK
  <2> USE DEF Values, AllSettings, Defaults, Parties, NoPost, NoLoad, SettingsTypeOK
  <2>1. StoreTyped
    BY DEF SettingsInit, StoreTyped
  <2>2. StatesTyped
    BY DEF SettingsInit, StatesTyped
  <2>3. FileTyped
    BY DEF SettingsInit, FileTyped
  <2>4. BatchTyped
    BY DEF SettingsInit, BatchTyped
  <2>5. TimerIsBatch
    BY Zenon DEF SettingsInit, TimerIsBatch
  <2>6. CopiesTyped
    BY DEF SettingsInit, CopiesTyped
  <2>7. PostsTyped
    BY DEF SettingsInit, PostsTyped
  <2>8. CachedTyped
    BY DEF SettingsInit, CachedTyped
  <2>9. LoadTyped
    BY DEF SettingsInit, LoadTyped
  <2>10. EditsTyped
    BY DEF SettingsInit, EditsTyped
  <2>11. NewestTyped
    BY DEF SettingsInit, NewestTyped
  <2>12. HarmTyped
    BY DEF SettingsInit, HarmTyped
  <2> QED
    BY <2>1, <2>2, <2>3, <2>4, <2>5, <2>6, <2>7, <2>8, <2>9, <2>10, <2>11, <2>12
       DEF StoreTyped, StatesTyped, FileTyped, BatchTyped, TimerIsBatch, CopiesTyped,
       PostsTyped, CachedTyped, LoadTyped, EditsTyped, NewestTyped, HarmTyped
<1>2. Uncrossed => /\ NoPosts /\ loadOf.at = "asked" /\ NowServed = Defaults
                   /\ cached.filled = FALSE
  BY DEF NoPosts, NoPost, NoLoad, NowServed
<1>3. FileHoldsServed /\ OneAtATime /\ TakenIsServed /\ PostedIsShown /\ TrayIsCached
  BY DEF FileHoldsServed, OneAtATime, TakenIsServed, PostedIsShown, TrayIsCached, NoPosts,
         NoPost, NoLoad
<1>4. CacheIsFilled /\ SeenIsServed /\ AppSeesServed /\ SentIsServed /\ NewestIsServed
  BY DEF CacheIsFilled, SeenIsServed, AppSeesServed, SentIsServed, NewestIsServed, NoPost,
         NoLoad, NowServed, Parties
<1> QED
  BY <1>1, <1>3, <1>4 DEF SettingsIInv

\* Every step preserves the types.
LEMMA SettingsTypeNext == SettingsIInv /\ [SettingsNext]_settingsVars => SettingsTypeOK'
<1> SUFFICES ASSUME SettingsIInv, [SettingsNext]_settingsVars PROVE SettingsTypeOK'
  OBVIOUS
<1> USE SettingsAssumption DEF SettingsIInv, Windows, SettingsTypeOK, Edits, Kept, NowServed,
     ChangesInPlace, Crosses, CrossesAll, Overtakes, Values, AllSettings, Defaults, Parties,
     NoPost, NoLoad
<1>1. CASE StoreBoots
  BY <1>1 DEF StoreTyped, StatesTyped, FileTyped, BatchTyped, TimerIsBatch, CopiesTyped,
     PostsTyped, CachedTyped, LoadTyped, EditsTyped, NewestTyped, HarmTyped, StoreBoots
<1>2. CASE StoreDies
  <2>1. StoreTyped' /\ StatesTyped' /\ FileTyped'
    BY <1>2 DEF StoreTyped, StatesTyped, FileTyped, StoreDies
  <2>2. BatchTyped' /\ CopiesTyped' /\ PostsTyped'
    BY <1>2 DEF BatchTyped, CopiesTyped, PostsTyped, StoreDies
  <2>3. TimerIsBatch'
    BY <1>2, Zenon DEF StoreDies, TimerIsBatch
  <2>4. CachedTyped' /\ LoadTyped' /\ EditsTyped'
    BY <1>2 DEF CachedTyped, LoadTyped, EditsTyped, StoreDies
  <2>5. NewestTyped' /\ HarmTyped'
    BY <1>2 DEF NewestTyped, HarmTyped, StoreDies
  <2> QED
    BY <2>1, <2>2, <2>3, <2>4, <2>5 DEF StoreTyped, StatesTyped, FileTyped, BatchTyped,
       TimerIsBatch, CopiesTyped, PostsTyped, CachedTyped, LoadTyped, EditsTyped,
       NewestTyped, HarmTyped
<1>3. CASE RouteResets
  BY <1>3 DEF StoreTyped, StatesTyped, FileTyped, BatchTyped, TimerIsBatch, CopiesTyped,
     PostsTyped, CachedTyped, LoadTyped, EditsTyped, NewestTyped, HarmTyped, RouteResets
<1>4. CASE BatchApplies
  <2>1. StoreTyped' /\ StatesTyped' /\ FileTyped' /\ BatchTyped' /\ CopiesTyped'
        /\ PostsTyped' /\ CachedTyped' /\ LoadTyped' /\ EditsTyped' /\ NewestTyped'
        /\ HarmTyped'
    BY <1>4 DEF StoreTyped, StatesTyped, FileTyped, BatchTyped, CopiesTyped, PostsTyped,
       CachedTyped, LoadTyped, EditsTyped, NewestTyped, HarmTyped, BatchApplies
  <2>2. TimerIsBatch'
    BY <1>4, Zenon DEF BatchApplies, TimerIsBatch
  <2> QED
    BY <2>1, <2>2 DEF StoreTyped, StatesTyped, FileTyped, BatchTyped, TimerIsBatch,
       CopiesTyped, PostsTyped, CachedTyped, LoadTyped, EditsTyped, NewestTyped, HarmTyped
<1>5. ASSUME NEW k \in SettingKeys, SelectsModel(k) PROVE SettingsTypeOK'
  BY <1>5 DEF StoreTyped, StatesTyped, FileTyped, BatchTyped, TimerIsBatch, CopiesTyped,
     PostsTyped, CachedTyped, LoadTyped, EditsTyped, NewestTyped, HarmTyped, SelectsModel
<1>6. ASSUME NEW k \in SettingKeys, SocketQueues(k) PROVE SettingsTypeOK'
  <2>1. batched' # Defaults /\ batchTimer'
    <3>1. edits' # 0 /\ batched' = [batched EXCEPT ![k] = edits']
      BY <1>6 DEF SocketQueues
    <3>2. batched'[k] # 0 /\ Defaults[k] = 0
      BY <3>1
    <3> QED
      BY <1>6, <3>2 DEF SocketQueues
  <2>2. StoreTyped' /\ StatesTyped' /\ FileTyped' /\ BatchTyped' /\ CopiesTyped'
        /\ PostsTyped' /\ CachedTyped' /\ LoadTyped' /\ EditsTyped' /\ NewestTyped'
        /\ HarmTyped'
    BY <1>6 DEF StoreTyped, StatesTyped, FileTyped, BatchTyped, CopiesTyped, PostsTyped,
       CachedTyped, LoadTyped, EditsTyped, NewestTyped, HarmTyped, SocketQueues
  <2>3. TimerIsBatch'
    BY <2>1, Zenon DEF TimerIsBatch
  <2> QED
    BY <2>2, <2>3 DEF StoreTyped, StatesTyped, FileTyped, BatchTyped, TimerIsBatch,
       CopiesTyped, PostsTyped, CachedTyped, LoadTyped, EditsTyped, NewestTyped, HarmTyped
<1>7. ASSUME NEW w \in Windows, NEW k \in SettingKeys, WindowEdits(w, k) PROVE SettingsTypeOK'
  BY <1>7 DEF StoreTyped, StatesTyped, FileTyped, BatchTyped, TimerIsBatch, CopiesTyped,
     PostsTyped, CachedTyped, LoadTyped, EditsTyped, NewestTyped, HarmTyped, WindowEdits,
     WindowPosts
<1>8. CASE PanelResets
  BY <1>8 DEF StoreTyped, StatesTyped, FileTyped, BatchTyped, TimerIsBatch, CopiesTyped,
     PostsTyped, CachedTyped, LoadTyped, EditsTyped, NewestTyped, HarmTyped, PanelResets,
     WindowPosts
<1>9. CASE AppPostAnswered
  BY <1>9 DEF StoreTyped, StatesTyped, FileTyped, BatchTyped, TimerIsBatch, CopiesTyped,
     PostsTyped, CachedTyped, LoadTyped, EditsTyped, NewestTyped, HarmTyped, AppPostAnswered
<1>10. CASE TrayRebuilds
  BY <1>10 DEF StoreTyped, StatesTyped, FileTyped, BatchTyped, TimerIsBatch, CopiesTyped,
     PostsTyped, CachedTyped, LoadTyped, EditsTyped, NewestTyped, HarmTyped, TrayRebuilds,
     Reads
<1>11. CASE QuickReads
  BY <1>11 DEF StoreTyped, StatesTyped, FileTyped, BatchTyped, TimerIsBatch, CopiesTyped,
     PostsTyped, CachedTyped, LoadTyped, EditsTyped, NewestTyped, HarmTyped, QuickReads,
     Reads
<1>12. ASSUME NEW w \in {"tray", "quick"}, CacheFills(w) PROVE SettingsTypeOK'
  BY <1>12 DEF StoreTyped, StatesTyped, FileTyped, BatchTyped, TimerIsBatch, CopiesTyped,
     PostsTyped, CachedTyped, LoadTyped, EditsTyped, NewestTyped, HarmTyped, CacheFills
<1>13. ASSUME NEW w \in Windows, PostTaken(w) PROVE SettingsTypeOK'
  <2>1. /\ posts[w].holds \in AllSettings
        /\ newest' = Defaults
             \/ newest' = [newest EXCEPT ![posts[w].key] = posts[w].holds[posts[w].key]]
    BY <1>13 DEF PostTaken
  <2>2. StoreTyped' /\ StatesTyped' /\ FileTyped' /\ BatchTyped' /\ TimerIsBatch'
        /\ CopiesTyped'
    BY <1>13 DEF StoreTyped, StatesTyped, FileTyped, BatchTyped, TimerIsBatch, CopiesTyped,
       PostTaken, Imports
  <2>3. PostsTyped' /\ CachedTyped' /\ LoadTyped' /\ EditsTyped' /\ HarmTyped'
    BY <1>13 DEF PostsTyped, CachedTyped, LoadTyped, EditsTyped, HarmTyped, PostTaken,
       Imports
  <2>4. NewestTyped'
    BY <2>1 DEF NewestTyped
  <2> QED
    BY <2>2, <2>3, <2>4 DEF StoreTyped, StatesTyped, FileTyped, BatchTyped, TimerIsBatch,
       CopiesTyped, PostsTyped, CachedTyped, LoadTyped, EditsTyped, NewestTyped, HarmTyped
<1>14. ASSUME NEW w \in Windows, PostFails(w) PROVE SettingsTypeOK'
  BY <1>14 DEF StoreTyped, StatesTyped, FileTyped, BatchTyped, TimerIsBatch, CopiesTyped,
     PostsTyped, CachedTyped, LoadTyped, EditsTyped, NewestTyped, HarmTyped, PostFails
<1>15. ASSUME NEW w \in Windows, MainPostAnswered(w) PROVE SettingsTypeOK'
  BY <1>15 DEF StoreTyped, StatesTyped, FileTyped, BatchTyped, TimerIsBatch, CopiesTyped,
     PostsTyped, CachedTyped, LoadTyped, EditsTyped, NewestTyped, HarmTyped,
     MainPostAnswered, CachePosted, Missed, TellsApp
<1>16. CASE LoadServed
  BY <1>16 DEF StoreTyped, StatesTyped, FileTyped, BatchTyped, TimerIsBatch, CopiesTyped,
     PostsTyped, CachedTyped, LoadTyped, EditsTyped, NewestTyped, HarmTyped, LoadServed
<1>17. CASE LoadAnswered
  BY <1>17 DEF StoreTyped, StatesTyped, FileTyped, BatchTyped, TimerIsBatch, CopiesTyped,
     PostsTyped, CachedTyped, LoadTyped, EditsTyped, NewestTyped, HarmTyped, LoadAnswered
<1>18. CASE LoadFails
  BY <1>18 DEF StoreTyped, StatesTyped, FileTyped, BatchTyped, TimerIsBatch, CopiesTyped,
     PostsTyped, CachedTyped, LoadTyped, EditsTyped, NewestTyped, HarmTyped, LoadFails
<1>19. CASE UNCHANGED settingsVars
  BY <1>19 DEF StoreTyped, StatesTyped, FileTyped, BatchTyped, TimerIsBatch, CopiesTyped,
     PostsTyped, CachedTyped, LoadTyped, EditsTyped, NewestTyped, HarmTyped, settingsVars
<1> QED
  BY <1>1, <1>2, <1>3, <1>4, <1>5, <1>6, <1>7, <1>8, <1>9, <1>10, <1>11, <1>12, <1>13, <1>14,
       <1>15, <1>16, <1>17, <1>18, <1>19 DEF SettingsNext

\* The file holds what is served.
LEMMA FileHoldsServedNext == SettingsIInv /\ [SettingsNext]_settingsVars => FileHoldsServed'
<1> SUFFICES ASSUME SettingsIInv, [SettingsNext]_settingsVars PROVE FileHoldsServed'
  OBVIOUS
<1> USE SettingsAssumption DEF SettingsIInv, Windows, SettingsTypeOK, Edits, Kept, NowServed,
     ChangesInPlace, Crosses, CrossesAll, Overtakes, FileHoldsServed
<1>1. CASE StoreBoots
  BY <1>1 DEF StoreBoots
<1>2. CASE StoreDies
  BY <1>2 DEF StoreDies
<1>3. CASE RouteResets
  BY <1>3 DEF RouteResets
<1>4. CASE BatchApplies
  BY <1>4 DEF BatchApplies
<1>5. ASSUME NEW k \in SettingKeys, SelectsModel(k) PROVE FileHoldsServed'
  BY <1>5 DEF SelectsModel
<1>6. ASSUME NEW k \in SettingKeys, SocketQueues(k) PROVE FileHoldsServed'
  BY <1>6 DEF SocketQueues
<1>7. ASSUME NEW w \in Windows, NEW k \in SettingKeys, WindowEdits(w, k) PROVE FileHoldsServed'
  BY <1>7 DEF WindowEdits, WindowPosts
<1>8. CASE PanelResets
  BY <1>8 DEF PanelResets, WindowPosts
<1>9. CASE AppPostAnswered
  BY <1>9 DEF AppPostAnswered
<1>10. CASE TrayRebuilds
  BY <1>10 DEF TrayRebuilds, Reads
<1>11. CASE QuickReads
  BY <1>11 DEF QuickReads, Reads
<1>12. ASSUME NEW w \in {"tray", "quick"}, CacheFills(w) PROVE FileHoldsServed'
  BY <1>12 DEF CacheFills
<1>13. ASSUME NEW w \in Windows, PostTaken(w) PROVE FileHoldsServed'
  BY <1>13 DEF PostTaken, Imports
<1>14. ASSUME NEW w \in Windows, PostFails(w) PROVE FileHoldsServed'
  BY <1>14 DEF PostFails
<1>15. ASSUME NEW w \in Windows, MainPostAnswered(w) PROVE FileHoldsServed'
  BY <1>15 DEF MainPostAnswered, CachePosted, Missed, TellsApp
<1>16. CASE LoadServed
  BY <1>16 DEF LoadServed
<1>17. CASE LoadAnswered
  BY <1>17 DEF LoadAnswered
<1>18. CASE LoadFails
  BY <1>18 DEF LoadFails
<1>19. CASE UNCHANGED settingsVars
  BY <1>19 DEF settingsVars
<1> QED
  BY <1>1, <1>2, <1>3, <1>4, <1>5, <1>6, <1>7, <1>8, <1>9, <1>10, <1>11, <1>12, <1>13, <1>14,
       <1>15, <1>16, <1>17, <1>18, <1>19 DEF SettingsNext

\* One write is under way at a time.
LEMMA OneAtATimeNext == SettingsIInv /\ [SettingsNext]_settingsVars => OneAtATime'
<1> SUFFICES ASSUME SettingsIInv, [SettingsNext]_settingsVars PROVE OneAtATime'
  OBVIOUS
<1> USE SettingsAssumption DEF SettingsIInv, Windows, SettingsTypeOK, Uncrossed, NoPosts,
     OneAtATime, Crosses, CrossesAll, NoPost, NoLoad
<1>1. CASE StoreBoots
  BY <1>1 DEF StoreBoots
<1>2. CASE StoreDies
  BY <1>2 DEF StoreDies
<1>3. CASE RouteResets
  BY <1>3 DEF RouteResets
<1>4. CASE BatchApplies
  BY <1>4 DEF BatchApplies
<1>5. ASSUME NEW k \in SettingKeys, SelectsModel(k) PROVE OneAtATime'
  BY <1>5 DEF SelectsModel
<1>6. ASSUME NEW k \in SettingKeys, SocketQueues(k) PROVE OneAtATime'
  BY <1>6 DEF SocketQueues
<1>7. ASSUME NEW w \in Windows, NEW k \in SettingKeys, WindowEdits(w, k) PROVE OneAtATime'
  BY <1>7 DEF WindowEdits, WindowPosts
<1>8. CASE PanelResets
  BY <1>8 DEF PanelResets, WindowPosts
<1>9. CASE AppPostAnswered
  BY <1>9 DEF AppPostAnswered
<1>10. CASE TrayRebuilds
  BY <1>10 DEF TrayRebuilds, Reads
<1>11. CASE QuickReads
  BY <1>11 DEF QuickReads, Reads
<1>12. ASSUME NEW w \in {"tray", "quick"}, CacheFills(w) PROVE OneAtATime'
  BY <1>12 DEF CacheFills
<1>13. ASSUME NEW w \in Windows, PostTaken(w) PROVE OneAtATime'
  BY <1>13 DEF PostTaken, Imports
<1>14. ASSUME NEW w \in Windows, PostFails(w) PROVE OneAtATime'
  BY <1>14 DEF PostFails
<1>15. ASSUME NEW w \in Windows, MainPostAnswered(w) PROVE OneAtATime'
  BY <1>15 DEF MainPostAnswered, CachePosted, Missed, TellsApp
<1>16. CASE LoadServed
  BY <1>16 DEF LoadServed
<1>17. CASE LoadAnswered
  BY <1>17 DEF LoadAnswered
<1>18. CASE LoadFails
  BY <1>18 DEF LoadFails
<1>19. CASE UNCHANGED settingsVars
  BY <1>19 DEF settingsVars
<1> QED
  BY <1>1, <1>2, <1>3, <1>4, <1>5, <1>6, <1>7, <1>8, <1>9, <1>10, <1>11, <1>12, <1>13, <1>14,
       <1>15, <1>16, <1>17, <1>18, <1>19 DEF SettingsNext

\* What the backend took and what it answered stays what it serves.
LEMMA TakenIsServedNext == SettingsIInv /\ [SettingsNext]_settingsVars => TakenIsServed'
<1> SUFFICES ASSUME SettingsIInv, [SettingsNext]_settingsVars PROVE TakenIsServed'
  OBVIOUS
<1> USE SettingsAssumption DEF SettingsIInv, Windows, SettingsTypeOK, Edits, Kept, NowServed,
     ChangesInPlace, Crosses, CrossesAll, Overtakes, Uncrossed, TakenIsServed, NoPost, NoLoad
<1>1. CASE StoreBoots
  BY <1>1 DEF StoreBoots
<1>2. CASE StoreDies
  BY <1>2 DEF StoreDies
<1>3. CASE RouteResets
  BY <1>3 DEF RouteResets
<1>4. CASE BatchApplies
  BY <1>4 DEF BatchApplies
<1>5. ASSUME NEW k \in SettingKeys, SelectsModel(k) PROVE TakenIsServed'
  BY <1>5 DEF SelectsModel
<1>6. ASSUME NEW k \in SettingKeys, SocketQueues(k) PROVE TakenIsServed'
  BY <1>6 DEF SocketQueues
<1>7. ASSUME NEW w \in Windows, NEW k \in SettingKeys, WindowEdits(w, k) PROVE TakenIsServed'
  BY <1>7 DEF WindowEdits, WindowPosts
<1>8. CASE PanelResets
  BY <1>8 DEF PanelResets, WindowPosts
<1>9. CASE AppPostAnswered
  BY <1>9 DEF AppPostAnswered
<1>10. CASE TrayRebuilds
  BY <1>10 DEF TrayRebuilds, Reads
<1>11. CASE QuickReads
  BY <1>11 DEF QuickReads, Reads
<1>12. ASSUME NEW w \in {"tray", "quick"}, CacheFills(w) PROVE TakenIsServed'
  BY <1>12 DEF CacheFills
<1>13. ASSUME NEW w \in Windows, PostTaken(w) PROVE TakenIsServed'
  BY <1>13 DEF PostTaken, Imports
<1>14. ASSUME NEW w \in Windows, PostFails(w) PROVE TakenIsServed'
  BY <1>14 DEF PostFails
<1>15. ASSUME NEW w \in Windows, MainPostAnswered(w) PROVE TakenIsServed'
  BY <1>15 DEF MainPostAnswered, CachePosted, Missed, TellsApp
<1>16. CASE LoadServed
  BY <1>16 DEF LoadServed
<1>17. CASE LoadAnswered
  BY <1>17 DEF LoadAnswered
<1>18. CASE LoadFails
  BY <1>18 DEF LoadFails
<1>19. CASE UNCHANGED settingsVars
  BY <1>19 DEF settingsVars
<1> QED
  BY <1>1, <1>2, <1>3, <1>4, <1>5, <1>6, <1>7, <1>8, <1>9, <1>10, <1>11, <1>12, <1>13, <1>14,
       <1>15, <1>16, <1>17, <1>18, <1>19 DEF SettingsNext

\* A window shows what it posts.
LEMMA PostedIsShownNext == SettingsIInv /\ [SettingsNext]_settingsVars => PostedIsShown'
<1> SUFFICES ASSUME SettingsIInv, [SettingsNext]_settingsVars PROVE PostedIsShown'
  OBVIOUS
<1> USE SettingsAssumption DEF SettingsIInv, Windows, SettingsTypeOK, Uncrossed, NoPosts,
     OneAtATime, PostedIsShown, TrayIsCached, CacheIsFilled, NoPost, NoLoad
<1>1. CASE StoreBoots
  BY <1>1 DEF StoreBoots
<1>2. CASE StoreDies
  BY <1>2 DEF StoreDies
<1>3. CASE RouteResets
  BY <1>3 DEF RouteResets
<1>4. CASE BatchApplies
  BY <1>4 DEF BatchApplies
<1>5. ASSUME NEW k \in SettingKeys, SelectsModel(k) PROVE PostedIsShown'
  BY <1>5 DEF SelectsModel
<1>6. ASSUME NEW k \in SettingKeys, SocketQueues(k) PROVE PostedIsShown'
  BY <1>6 DEF SocketQueues
<1>7. ASSUME NEW w \in Windows, NEW k \in SettingKeys, WindowEdits(w, k) PROVE PostedIsShown'
  BY <1>7 DEF WindowEdits, WindowPosts
<1>8. CASE PanelResets
  BY <1>8 DEF PanelResets, WindowPosts
<1>9. CASE AppPostAnswered
  BY <1>9 DEF AppPostAnswered
<1>10. CASE TrayRebuilds
  BY <1>10 DEF TrayRebuilds, Reads
<1>11. CASE QuickReads
  BY <1>11 DEF QuickReads, Reads
<1>12. ASSUME NEW w \in {"tray", "quick"}, CacheFills(w) PROVE PostedIsShown'
  BY <1>12 DEF CacheFills
<1>13. ASSUME NEW w \in Windows, PostTaken(w) PROVE PostedIsShown'
  BY <1>13 DEF PostTaken, Imports
<1>14. ASSUME NEW w \in Windows, PostFails(w) PROVE PostedIsShown'
  BY <1>14 DEF PostFails
<1>15. ASSUME NEW w \in Windows, MainPostAnswered(w) PROVE PostedIsShown'
  BY <1>15 DEF MainPostAnswered, CachePosted, Missed, TellsApp
<1>16. CASE LoadServed
  BY <1>16 DEF LoadServed
<1>17. CASE LoadAnswered
  BY <1>17 DEF LoadAnswered
<1>18. CASE LoadFails
  BY <1>18 DEF LoadFails
<1>19. CASE UNCHANGED settingsVars
  BY <1>19 DEF settingsVars
<1> QED
  BY <1>1, <1>2, <1>3, <1>4, <1>5, <1>6, <1>7, <1>8, <1>9, <1>10, <1>11, <1>12, <1>13, <1>14,
       <1>15, <1>16, <1>17, <1>18, <1>19 DEF SettingsNext

\* What the tray posts is in the cache of the main process.
LEMMA TrayIsCachedNext == SettingsIInv /\ [SettingsNext]_settingsVars => TrayIsCached'
<1> SUFFICES ASSUME SettingsIInv, [SettingsNext]_settingsVars PROVE TrayIsCached'
  OBVIOUS
<1> USE SettingsAssumption DEF SettingsIInv, Windows, SettingsTypeOK, Uncrossed, NoPosts,
     OneAtATime, TrayIsCached, CacheIsFilled, NoPost, NoLoad
<1>1. CASE StoreBoots
  BY <1>1 DEF StoreBoots
<1>2. CASE StoreDies
  BY <1>2 DEF StoreDies
<1>3. CASE RouteResets
  BY <1>3 DEF RouteResets
<1>4. CASE BatchApplies
  BY <1>4 DEF BatchApplies
<1>5. ASSUME NEW k \in SettingKeys, SelectsModel(k) PROVE TrayIsCached'
  BY <1>5 DEF SelectsModel
<1>6. ASSUME NEW k \in SettingKeys, SocketQueues(k) PROVE TrayIsCached'
  BY <1>6 DEF SocketQueues
<1>7. ASSUME NEW w \in Windows, NEW k \in SettingKeys, WindowEdits(w, k) PROVE TrayIsCached'
  BY <1>7 DEF WindowEdits, WindowPosts
<1>8. CASE PanelResets
  BY <1>8 DEF PanelResets, WindowPosts
<1>9. CASE AppPostAnswered
  BY <1>9 DEF AppPostAnswered
<1>10. CASE TrayRebuilds
  BY <1>10 DEF TrayRebuilds, Reads
<1>11. CASE QuickReads
  BY <1>11 DEF QuickReads, Reads
<1>12. ASSUME NEW w \in {"tray", "quick"}, CacheFills(w) PROVE TrayIsCached'
  BY <1>12 DEF CacheFills
<1>13. ASSUME NEW w \in Windows, PostTaken(w) PROVE TrayIsCached'
  BY <1>13 DEF PostTaken, Imports
<1>14. ASSUME NEW w \in Windows, PostFails(w) PROVE TrayIsCached'
  BY <1>14 DEF PostFails
<1>15. ASSUME NEW w \in Windows, MainPostAnswered(w) PROVE TrayIsCached'
  BY <1>15 DEF MainPostAnswered, CachePosted, Missed, TellsApp
<1>16. CASE LoadServed
  BY <1>16 DEF LoadServed
<1>17. CASE LoadAnswered
  BY <1>17 DEF LoadAnswered
<1>18. CASE LoadFails
  BY <1>18 DEF LoadFails
<1>19. CASE UNCHANGED settingsVars
  BY <1>19 DEF settingsVars
<1> QED
  BY <1>1, <1>2, <1>3, <1>4, <1>5, <1>6, <1>7, <1>8, <1>9, <1>10, <1>11, <1>12, <1>13, <1>14,
       <1>15, <1>16, <1>17, <1>18, <1>19 DEF SettingsNext

\* The cache is filled before the tray or the quick settings post.
LEMMA CacheIsFilledNext == SettingsIInv /\ [SettingsNext]_settingsVars => CacheIsFilled'
<1> SUFFICES ASSUME SettingsIInv, [SettingsNext]_settingsVars PROVE CacheIsFilled'
  OBVIOUS
<1> USE SettingsAssumption DEF SettingsIInv, Windows, SettingsTypeOK, CacheIsFilled, NoPost,
     NoLoad
<1>1. CASE StoreBoots
  BY <1>1 DEF StoreBoots
<1>2. CASE StoreDies
  BY <1>2 DEF StoreDies
<1>3. CASE RouteResets
  BY <1>3 DEF RouteResets
<1>4. CASE BatchApplies
  BY <1>4 DEF BatchApplies
<1>5. ASSUME NEW k \in SettingKeys, SelectsModel(k) PROVE CacheIsFilled'
  BY <1>5 DEF SelectsModel
<1>6. ASSUME NEW k \in SettingKeys, SocketQueues(k) PROVE CacheIsFilled'
  BY <1>6 DEF SocketQueues
<1>7. ASSUME NEW w \in Windows, NEW k \in SettingKeys, WindowEdits(w, k) PROVE CacheIsFilled'
  BY <1>7 DEF WindowEdits, WindowPosts
<1>8. CASE PanelResets
  BY <1>8 DEF PanelResets, WindowPosts
<1>9. CASE AppPostAnswered
  BY <1>9 DEF AppPostAnswered
<1>10. CASE TrayRebuilds
  BY <1>10 DEF TrayRebuilds, Reads
<1>11. CASE QuickReads
  BY <1>11 DEF QuickReads, Reads
<1>12. ASSUME NEW w \in {"tray", "quick"}, CacheFills(w) PROVE CacheIsFilled'
  BY <1>12 DEF CacheFills
<1>13. ASSUME NEW w \in Windows, PostTaken(w) PROVE CacheIsFilled'
  BY <1>13 DEF PostTaken, Imports
<1>14. ASSUME NEW w \in Windows, PostFails(w) PROVE CacheIsFilled'
  BY <1>14 DEF PostFails
<1>15. ASSUME NEW w \in Windows, MainPostAnswered(w) PROVE CacheIsFilled'
  BY <1>15 DEF MainPostAnswered, CachePosted, Missed, TellsApp
<1>16. CASE LoadServed
  BY <1>16 DEF LoadServed
<1>17. CASE LoadAnswered
  BY <1>17 DEF LoadAnswered
<1>18. CASE LoadFails
  BY <1>18 DEF LoadFails
<1>19. CASE UNCHANGED settingsVars
  BY <1>19 DEF settingsVars
<1> QED
  BY <1>1, <1>2, <1>3, <1>4, <1>5, <1>6, <1>7, <1>8, <1>9, <1>10, <1>11, <1>12, <1>13, <1>14,
       <1>15, <1>16, <1>17, <1>18, <1>19 DEF SettingsNext

\* What the cache, the tray and the quick settings show is what is served.
LEMMA SeenIsServedNext == SettingsIInv /\ [SettingsNext]_settingsVars => SeenIsServed'
<1> SUFFICES ASSUME SettingsIInv, [SettingsNext]_settingsVars PROVE SeenIsServed'
  OBVIOUS
<1> USE SettingsAssumption DEF SettingsIInv, Windows, SettingsTypeOK, Edits, Kept, NowServed,
     ChangesInPlace, Crosses, CrossesAll, Overtakes, Uncrossed, NoneSent, SeenIsServed,
     OneAtATime, NoPosts, TakenIsServed, PostedIsShown, TrayIsCached, CacheIsFilled, NoPost,
     NoLoad, Parties
<1>1. CASE StoreBoots
  BY <1>1 DEF StoreBoots
<1>2. CASE StoreDies
  BY <1>2 DEF StoreDies
<1>3. CASE RouteResets
  BY <1>3 DEF RouteResets
<1>4. CASE BatchApplies
  BY <1>4 DEF BatchApplies
<1>5. ASSUME NEW k \in SettingKeys, SelectsModel(k) PROVE SeenIsServed'
  BY <1>5 DEF SelectsModel
<1>6. ASSUME NEW k \in SettingKeys, SocketQueues(k) PROVE SeenIsServed'
  BY <1>6 DEF SocketQueues
<1>7. ASSUME NEW w \in Windows, NEW k \in SettingKeys, WindowEdits(w, k) PROVE SeenIsServed'
  BY <1>7 DEF WindowEdits, WindowPosts
<1>8. CASE PanelResets
  BY <1>8 DEF PanelResets, WindowPosts
<1>9. CASE AppPostAnswered
  BY <1>9 DEF AppPostAnswered
<1>10. CASE TrayRebuilds
  BY <1>10 DEF TrayRebuilds, Reads
<1>11. CASE QuickReads
  BY <1>11 DEF QuickReads, Reads
<1>12. ASSUME NEW w \in {"tray", "quick"}, CacheFills(w) PROVE SeenIsServed'
  BY <1>12 DEF CacheFills
<1>13. ASSUME NEW w \in Windows, PostTaken(w) PROVE SeenIsServed'
  BY <1>13 DEF PostTaken, Imports
<1>14. ASSUME NEW w \in Windows, PostFails(w) PROVE SeenIsServed'
  BY <1>14 DEF PostFails
<1>15. ASSUME NEW w \in Windows, MainPostAnswered(w) PROVE SeenIsServed'
  BY <1>15 DEF MainPostAnswered, CachePosted, Missed, TellsApp
<1>16. CASE LoadServed
  BY <1>16 DEF LoadServed
<1>17. CASE LoadAnswered
  BY <1>17 DEF LoadAnswered
<1>18. CASE LoadFails
  BY <1>18 DEF LoadFails
<1>19. CASE UNCHANGED settingsVars
  BY <1>19 DEF settingsVars
<1> QED
  BY <1>1, <1>2, <1>3, <1>4, <1>5, <1>6, <1>7, <1>8, <1>9, <1>10, <1>11, <1>12, <1>13, <1>14,
       <1>15, <1>16, <1>17, <1>18, <1>19 DEF SettingsNext

\* What the main window shows is what is served.
LEMMA AppSeesServedNext == SettingsIInv /\ [SettingsNext]_settingsVars => AppSeesServed'
<1> SUFFICES ASSUME SettingsIInv, [SettingsNext]_settingsVars PROVE AppSeesServed'
  OBVIOUS
<1> USE SettingsAssumption DEF SettingsIInv, Windows, SettingsTypeOK, Edits, Kept, NowServed,
     ChangesInPlace, Crosses, CrossesAll, Overtakes, Uncrossed, NoPosts, OneAtATime,
     TakenIsServed, AppSeesServed, PostedIsShown, NoPost, NoLoad, Parties
<1>1. CASE StoreBoots
  BY <1>1 DEF StoreBoots
<1>2. CASE StoreDies
  BY <1>2 DEF StoreDies
<1>3. CASE RouteResets
  BY <1>3 DEF RouteResets
<1>4. CASE BatchApplies
  BY <1>4 DEF BatchApplies
<1>5. ASSUME NEW k \in SettingKeys, SelectsModel(k) PROVE AppSeesServed'
  BY <1>5 DEF SelectsModel
<1>6. ASSUME NEW k \in SettingKeys, SocketQueues(k) PROVE AppSeesServed'
  BY <1>6 DEF SocketQueues
<1>7. ASSUME NEW w \in Windows, NEW k \in SettingKeys, WindowEdits(w, k) PROVE AppSeesServed'
  BY <1>7 DEF WindowEdits, WindowPosts
<1>8. CASE PanelResets
  BY <1>8 DEF PanelResets, WindowPosts
<1>9. CASE AppPostAnswered
  BY <1>9 DEF AppPostAnswered
<1>10. CASE TrayRebuilds
  BY <1>10 DEF TrayRebuilds, Reads
<1>11. CASE QuickReads
  BY <1>11 DEF QuickReads, Reads
<1>12. ASSUME NEW w \in {"tray", "quick"}, CacheFills(w) PROVE AppSeesServed'
  BY <1>12 DEF CacheFills
<1>13. ASSUME NEW w \in Windows, PostTaken(w) PROVE AppSeesServed'
  BY <1>13 DEF PostTaken, Imports
<1>14. ASSUME NEW w \in Windows, PostFails(w) PROVE AppSeesServed'
  BY <1>14 DEF PostFails
<1>15. ASSUME NEW w \in Windows, MainPostAnswered(w) PROVE AppSeesServed'
  BY <1>15 DEF MainPostAnswered, CachePosted, Missed, TellsApp
<1>16. CASE LoadServed
  BY <1>16 DEF LoadServed
<1>17. CASE LoadAnswered
  BY <1>17 DEF LoadAnswered
<1>18. CASE LoadFails
  BY <1>18 DEF LoadFails
<1>19. CASE UNCHANGED settingsVars
  BY <1>19 DEF settingsVars
<1> QED
  BY <1>1, <1>2, <1>3, <1>4, <1>5, <1>6, <1>7, <1>8, <1>9, <1>10, <1>11, <1>12, <1>13, <1>14,
       <1>15, <1>16, <1>17, <1>18, <1>19 DEF SettingsNext

\* What a window sends changes only the setting that was edited.
LEMMA SentIsServedNext == SettingsIInv /\ [SettingsNext]_settingsVars => SentIsServed'
<1> SUFFICES ASSUME SettingsIInv, [SettingsNext]_settingsVars PROVE SentIsServed'
  OBVIOUS
<1> USE SettingsAssumption DEF SettingsIInv, Windows, SettingsTypeOK, Edits, Kept, NowServed,
     ChangesInPlace, Crosses, CrossesAll, Overtakes, Uncrossed, NoneSent, NoPosts, OneAtATime,
     SentIsServed, SeenIsServed, AppSeesServed, NoPost, NoLoad
<1>1. CASE StoreBoots
  BY <1>1 DEF StoreBoots
<1>2. CASE StoreDies
  BY <1>2 DEF StoreDies
<1>3. CASE RouteResets
  BY <1>3 DEF RouteResets
<1>4. CASE BatchApplies
  BY <1>4 DEF BatchApplies
<1>5. ASSUME NEW k \in SettingKeys, SelectsModel(k) PROVE SentIsServed'
  BY <1>5 DEF SelectsModel
<1>6. ASSUME NEW k \in SettingKeys, SocketQueues(k) PROVE SentIsServed'
  BY <1>6 DEF SocketQueues
<1>7. ASSUME NEW w \in Windows, NEW k \in SettingKeys, WindowEdits(w, k) PROVE SentIsServed'
  BY <1>7 DEF WindowEdits, WindowPosts
<1>8. CASE PanelResets
  BY <1>8 DEF PanelResets, WindowPosts
<1>9. CASE AppPostAnswered
  BY <1>9 DEF AppPostAnswered
<1>10. CASE TrayRebuilds
  BY <1>10 DEF TrayRebuilds, Reads
<1>11. CASE QuickReads
  BY <1>11 DEF QuickReads, Reads
<1>12. ASSUME NEW w \in {"tray", "quick"}, CacheFills(w) PROVE SentIsServed'
  BY <1>12 DEF CacheFills
<1>13. ASSUME NEW w \in Windows, PostTaken(w) PROVE SentIsServed'
  BY <1>13 DEF PostTaken, Imports
<1>14. ASSUME NEW w \in Windows, PostFails(w) PROVE SentIsServed'
  BY <1>14 DEF PostFails
<1>15. ASSUME NEW w \in Windows, MainPostAnswered(w) PROVE SentIsServed'
  BY <1>15 DEF MainPostAnswered, CachePosted, Missed, TellsApp
<1>16. CASE LoadServed
  BY <1>16 DEF LoadServed
<1>17. CASE LoadAnswered
  BY <1>17 DEF LoadAnswered
<1>18. CASE LoadFails
  BY <1>18 DEF LoadFails
<1>19. CASE UNCHANGED settingsVars
  BY <1>19 DEF settingsVars
<1> QED
  BY <1>1, <1>2, <1>3, <1>4, <1>5, <1>6, <1>7, <1>8, <1>9, <1>10, <1>11, <1>12, <1>13, <1>14,
       <1>15, <1>16, <1>17, <1>18, <1>19 DEF SettingsNext

\* The newest edit of each setting waits in the batch or is served.
LEMMA NewestIsServedNext == SettingsIInv /\ [SettingsNext]_settingsVars => NewestIsServed'
<1> SUFFICES ASSUME SettingsIInv, [SettingsNext]_settingsVars PROVE NewestIsServed'
  OBVIOUS
<1> USE SettingsAssumption DEF SettingsIInv, Windows, SettingsTypeOK, Edits, Kept, NowServed,
     ChangesInPlace, Crosses, CrossesAll, Overtakes, SentIsServed, NewestIsServed,
     AllSettings, Defaults, Values
<1>1. CASE StoreBoots
  BY <1>1 DEF StoreBoots
<1>2. CASE StoreDies
  BY <1>2 DEF StoreDies
<1>3. CASE RouteResets
  BY ZenonT(60), <1>3 DEF RouteResets
<1>4. CASE BatchApplies
  BY <1>4 DEF BatchApplies
<1>5. ASSUME NEW k \in SettingKeys, SelectsModel(k) PROVE NewestIsServed'
  <2> SUFFICES ASSUME harm' = {}, NEW j \in SettingKeys
               PROVE  newest'[j] = IF batched'[j] # 0 THEN batched'[j] ELSE NowServed'[j]
    BY <1>5 DEF SelectsModel
  <2>1. /\ harm = {} /\ ~batchTimer /\ batched' = batched /\ storeUp
        /\ newest' = [newest EXCEPT ![k] = edits']
    BY <1>5 DEF SelectsModel
  <2>2. batched[j] = 0
    <3>1. batched = Defaults
      BY <2>1, Zenon
    <3> QED
      BY <3>1
  <2>3. NowServed' = [NowServed EXCEPT ![k] = edits']
    BY <1>5 DEF SelectsModel
  <2>4. newest[j] = NowServed[j]
    BY <2>1, <2>2
  <2>5. newest \in [SettingKeys -> Values] /\ NowServed \in [SettingKeys -> Values]
    OBVIOUS
  <2> HIDE DEF NowServed
  <2> QED
    BY <2>1, <2>2, <2>3, <2>4, <2>5
<1>6. ASSUME NEW k \in SettingKeys, SocketQueues(k) PROVE NewestIsServed'
  BY <1>6 DEF SocketQueues
<1>7. ASSUME NEW w \in Windows, NEW k \in SettingKeys, WindowEdits(w, k) PROVE NewestIsServed'
  BY <1>7 DEF WindowEdits, WindowPosts
<1>8. CASE PanelResets
  BY <1>8 DEF PanelResets, WindowPosts
<1>9. CASE AppPostAnswered
  BY <1>9 DEF AppPostAnswered
<1>10. CASE TrayRebuilds
  BY <1>10 DEF TrayRebuilds, Reads
<1>11. CASE QuickReads
  BY <1>11 DEF QuickReads, Reads
<1>12. ASSUME NEW w \in {"tray", "quick"}, CacheFills(w) PROVE NewestIsServed'
  BY <1>12 DEF CacheFills
<1>13. ASSUME NEW w \in Windows, PostTaken(w) PROVE NewestIsServed'
  <2> SUFFICES ASSUME harm' = {}, NEW j \in SettingKeys
               PROVE  newest'[j] = IF batched'[j] # 0 THEN batched'[j] ELSE NowServed'[j]
    BY <1>13 DEF PostTaken, Imports
  <2>1. /\ harm = {} /\ ~batchTimer /\ batched' = batched /\ storeUp /\ posts[w].at = "sent"
        /\ newest' = IF posts[w].key = "all" THEN Defaults
                     ELSE [newest EXCEPT ![posts[w].key] = posts[w].holds[posts[w].key]]
    BY <1>13 DEF PostTaken
  <2>2. batched[j] = 0
    <3>1. batched = Defaults
      BY <2>1, Zenon
    <3> QED
      BY <3>1
  <2>3. NowServed' = posts[w].holds
    BY <1>13 DEF PostTaken, Imports
  <2>4. newest[j] = NowServed[j]
    BY <2>1, <2>2
  <2>5. newest \in [SettingKeys -> Values] /\ NowServed \in [SettingKeys -> Values]
    OBVIOUS
  <2>6. \/ posts[w].key = "all" /\ posts[w].holds = Defaults
        \/ /\ posts[w].key \in SettingKeys
           /\ posts[w].holds = [NowServed EXCEPT ![posts[w].key] = posts[w].holds[posts[w].key]]
    BY <2>1
  <2> HIDE DEF NowServed
  <2> QED
    BY <2>1, <2>2, <2>3, <2>4, <2>5, <2>6
<1>14. ASSUME NEW w \in Windows, PostFails(w) PROVE NewestIsServed'
  BY <1>14 DEF PostFails
<1>15. ASSUME NEW w \in Windows, MainPostAnswered(w) PROVE NewestIsServed'
  BY <1>15 DEF MainPostAnswered, CachePosted, Missed, TellsApp
<1>16. CASE LoadServed
  BY <1>16 DEF LoadServed
<1>17. CASE LoadAnswered
  BY <1>17 DEF LoadAnswered
<1>18. CASE LoadFails
  BY <1>18 DEF LoadFails
<1>19. CASE UNCHANGED settingsVars
  BY <1>19 DEF settingsVars
<1> QED
  BY <1>1, <1>2, <1>3, <1>4, <1>5, <1>6, <1>7, <1>8, <1>9, <1>10, <1>11, <1>12, <1>13, <1>14,
       <1>15, <1>16, <1>17, <1>18, <1>19 DEF SettingsNext

\* The file, the backend and the windows agree on the user's last edits.
LEMMA SettingsAreSafe == SettingsInit /\ [][SettingsNext]_settingsVars => []SettingsInv
<1>1. SettingsIInv /\ [SettingsNext]_settingsVars => SettingsIInv'
  BY SettingsTypeNext, FileHoldsServedNext, OneAtATimeNext, TakenIsServedNext,
     PostedIsShownNext, TrayIsCachedNext, CacheIsFilledNext, SeenIsServedNext,
     AppSeesServedNext, SentIsServedNext, NewestIsServedNext DEF SettingsIInv
<1>2. SettingsIInv => EditsAreKept
  <2> SUFFICES ASSUME SettingsIInv, storeUp, ~batchTimer, harm = {} PROVE NowServed = newest
    BY DEF EditsAreKept, SettingsRest
  <2>1. NowServed \in [SettingKeys -> Values] /\ newest \in [SettingKeys -> Values]
    BY DEF SettingsIInv, SettingsTypeOK, NowServed, AllSettings
  <2>2. batched = Defaults
    BY DEF SettingsIInv, SettingsTypeOK
  <2>3. \A k \in SettingKeys : newest[k] = NowServed[k]
    BY <2>2 DEF SettingsIInv, NewestIsServed, Defaults
  <2> QED
    BY <2>1, <2>3
<1>3. SettingsIInv => AppShowsServed
  BY DEF SettingsIInv, AppSeesServed, AppShowsServed, SettingsRest, Uncrossed, NoPosts
<1>4. SettingsIInv => SettingsInv
  BY <1>2, <1>3 DEF SettingsIInv, SettingsInv
<1> QED
  BY SettingsInitInv, <1>1, <1>4, PTL

-----------------------------------------------------------------------------
(* hotkeyHandlers.js and holdModeHotkeys.js.  The invariant is inductive as it stands: what *)
(* a configuration leaves fits what is then shown, and a binding that is active has its     *)
(* keys held down.                                                                          *)

KeyConfigs == [keys : [KeySources -> Accelerators], hold : BOOLEAN]

RegisteredFit(sys) ==
  /\ sys \subseteq [keys : Accelerators, source : KeySources]
  /\ \A r, q \in sys : r.keys = q.keys => r = q

BindingsFit(held) ==
  /\ held \subseteq [source : KeySources, keys : Accelerators, active : BOOLEAN]
  /\ \A b, d \in held : b.source = d.source => b = d

\* What may be left: as the properties want it, unless the registration threw halfway.
Fits(sys, held, cur, threw) ==
  /\ RegisteredFit(sys) /\ BindingsFit(held)
  /\ cur \in [KeySources -> Accelerators \cup {NoKeys}]
  /\ threw \/ \A r \in sys : \E s \in KeySources : cur[s] = r.keys
  /\ \A s \in KeySources :
       \/ cur[s].key \in {Odd, "none"}
       \/ [keys |-> cur[s], source |-> s] \in sys
       \/ \E b \in held : b.source = s /\ b.keys = cur[s]

LeftFits(left, threw) == Fits(left.registered, left.bindings, left.current, threw)

\* The initial state satisfies the invariant.
LEMMA HotKeysInitInv == HotKeysInit => HotKeysInv
<1> SUFFICES ASSUME HotKeysInit PROVE HotKeysInv
  OBVIOUS
<1>1. DefaultKey \in Accelerators /\ DefaultSystemKey \in Accelerators
  BY DEF DefaultKey, DefaultSystemKey, Accelerators, Modifiers, MainKeys
<1>2. configured \in [keys : [KeySources -> Accelerators], hold : BOOLEAN]
  BY <1>1 DEF HotKeysInit, KeySources
<1>3. HotKeysTypeOK
  BY <1>2 DEF HotKeysInit, HotKeysTypeOK
<1>4. ShownKeysAreRegistered /\ ShownKeysWork /\ ReleasedIsStopped
  BY DEF HotKeysInit, ShownKeysAreRegistered, ShownKeysWork, ReleasedIsStopped, NoKeys
<1> QED
  BY <1>3, <1>4 DEF HotKeysInv

\* What there is fits.
LEMMA WhatIsFits == HotKeysInv => LeftFits(Unchanged, halfway)
BY DEF HotKeysInv, HotKeysTypeOK, ShownKeysAreRegistered, ShownKeysWork, LeftFits, Fits,
       RegisteredFit, BindingsFit, Unchanged, Left, Known

\* When the keys are cleared nothing is left that is not shown.
LEMMA ClearedFits ==
  ASSUME HotKeysInv
  PROVE  /\ LeftFits(Cleared, halfway) /\ Cleared.bindings = {}
         /\ Cleared.registered = {r \in registered : r.keys \notin Known}
<1>1. /\ Cleared.registered = {r \in registered : r.keys \notin Known}
      /\ Cleared.bindings = {} /\ Cleared.current = [s \in KeySources |-> NoKeys]
  BY DEF Cleared, Left, NoneCurrent
<1>2. RegisteredFit(Cleared.registered)
  BY <1>1 DEF HotKeysInv, HotKeysTypeOK, RegisteredFit
<1>3. halfway \/ Cleared.registered = {}
  BY <1>1 DEF HotKeysInv, ShownKeysAreRegistered
<1> QED
  BY <1>1, <1>2, <1>3 DEF LeftFits, Fits, BindingsFit, NoKeys

\* The bindings of hold mode are one for each source.
LEMMA BoundFits ==
  ASSUME NEW keys \in [KeySources -> Accelerators]
  PROVE  /\ BindingsFit(Bound(keys))
         /\ \A s \in KeySources : keys[s].key # Odd => \E b \in Bound(keys) : b.source = s
              /\ b.keys = keys[s]
<1>1. BindingsFit(Bound(keys))
  <2>1. ASSUME NEW b \in Bound(keys)
        PROVE  /\ b \in [source : KeySources, keys : Accelerators, active : BOOLEAN]
               /\ b = [source |-> b.source, keys |-> keys[b.source], active |-> FALSE]
    <3>1. PICK s \in KeySources : b = [source |-> s, keys |-> keys[s], active |-> FALSE]
      BY <2>1 DEF Bound
    <3> QED
      BY <3>1
  <2> QED
    BY <2>1 DEF BindingsFit
<1>2. ASSUME NEW s \in KeySources, keys[s].key # Odd
      PROVE  \E b \in Bound(keys) : b.source = s /\ b.keys = keys[s]
  <2> DEFINE b == [source |-> s, keys |-> keys[s], active |-> FALSE]
  <2>1. b \in Bound(keys)
    BY <1>2 DEF Bound
  <2> QED
    BY <2>1
<1> QED
  BY <1>1, <1>2

\* What the bindings are after holds are set fits the keys,
LEMMA HoldsFits ==
  ASSUME HotKeysInv, NEW keys \in [KeySources -> Accelerators]
  PROVE  LeftFits(Holds(keys), halfway)
<1>1. CASE Holds(keys) = Cleared
  BY <1>1, ClearedFits
<1>2. CASE Holds(keys) = Left(Cleared.registered, Bound(keys), keys)
  <2>1. /\ Holds(keys).registered = Cleared.registered
        /\ Holds(keys).bindings = Bound(keys) /\ Holds(keys).current = keys
    BY <1>2 DEF Left
  <2>2. RegisteredFit(Cleared.registered)
    BY ClearedFits DEF LeftFits, Fits
  <2>3. halfway \/ Cleared.registered = {}
    BY ClearedFits DEF HotKeysInv, ShownKeysAreRegistered
  <2>4. \A s \in KeySources :
          keys[s].key = Odd \/ \E b \in Bound(keys) : b.source = s /\ b.keys = keys[s]
    BY BoundFits
  <2> QED
    BY <2>1, <2>2, <2>3, <2>4, BoundFits DEF LeftFits, Fits
<1> QED
  BY <1>1, <1>2 DEF Holds

\* and so does what they are after both were registered.
LEMMA RegistersFits ==
  ASSUME HotKeysInv, NEW keys \in [KeySources -> Accelerators],
         keys.microphone # keys.system, \A s \in KeySources : Available(keys[s])
  PROVE  LeftFits(Registers(keys),
                  halfway \/ (keys.microphone.key # Odd /\ keys.system.key = Odd))
<1> DEFINE own == [s \in KeySources |-> [keys |-> keys[s], source |-> s]]
           kept == Cleared.registered
           threw == keys.microphone.key # Odd /\ keys.system.key = Odd
<1>1. /\ kept = {r \in registered : r.keys \notin Known} /\ RegisteredFit(kept)
      /\ halfway \/ kept = {}
  BY ClearedFits DEF LeftFits, Fits, HotKeysInv, ShownKeysAreRegistered
<1>2. \A s \in KeySources : keys[s].key # Odd => \A r \in kept : r.keys # keys[s]
  BY <1>1 DEF Available, Owned
<1>3. /\ own.microphone = [keys |-> keys.microphone, source |-> "microphone"]
      /\ own.system = [keys |-> keys.system, source |-> "system"]
      /\ {own[s] : s \in KeySources} = {own.microphone, own.system}
  BY DEF KeySources
<1>4. /\ keys.microphone \in Accelerators /\ keys.system \in Accelerators
      /\ "microphone" \in KeySources /\ "system" \in KeySources
  BY DEF KeySources
<1>5. CASE keys.microphone.key = Odd
  <2>1. Registers(keys) = Cleared
    BY <1>5 DEF Registers
  <2>2. LeftFits(Cleared, halfway)
    BY ClearedFits
  <2> QED
    BY <1>5, <2>1, <2>2 DEF LeftFits, Fits
<1>6. CASE threw
  <2>1. Registers(keys) = Left(kept \cup {own.microphone}, {}, NoneCurrent)
    BY <1>6 DEF Registers
  <2>2. RegisteredFit(kept \cup {own.microphone})
    BY <1>1, <1>2, <1>3, <1>4, <1>6 DEF RegisteredFit
  <2> QED
    BY <1>6, <2>1, <2>2 DEF LeftFits, Fits, Left, NoneCurrent, BindingsFit, NoKeys
<1>7. CASE keys.microphone.key # Odd /\ keys.system.key # Odd
  <2>1. Registers(keys) = Left(kept \cup {own[s] : s \in KeySources}, {}, keys)
    BY <1>7 DEF Registers
  <2>2. RegisteredFit(kept \cup {own.microphone, own.system})
    BY <1>1, <1>2, <1>3, <1>4, <1>7 DEF RegisteredFit
  <2>3. \A s \in KeySources : [keys |-> keys[s], source |-> s] \in {own[x] : x \in KeySources}
    OBVIOUS
  <2>4. halfway \/ \A r \in kept \cup {own[x] : x \in KeySources} : \E s \in KeySources :
          keys[s] = r.keys
    BY <1>1
  <2>5. /\ Registers(keys).registered = kept \cup {own[s] : s \in KeySources}
        /\ Registers(keys).bindings = {} /\ Registers(keys).current = keys
    BY <2>1 DEF Left
  <2> HIDE DEF own, kept
  <2> QED
    BY <1>3, <1>7, <2>2, <2>3, <2>4, <2>5 DEF LeftFits, Fits, BindingsFit
<1> QED
  BY <1>5, <1>6, <1>7

\* Whatever a configuration leaves fits.
LEMMA ConfiguredFits ==
  ASSUME HotKeysInv, NEW c \in KeyConfigs
  PROVE  LeftFits(RegisterConfigured(c), halfway \/ Throws(c))
<1>1. c.keys \in [KeySources -> Accelerators]
  BY DEF KeyConfigs
<1>2. CASE RegisterConfigured(c) = Unchanged
  BY <1>2, WhatIsFits DEF LeftFits, Fits
<1>3. CASE c.keys.microphone # c.keys.system /\ c.hold
  <2>1. RegisterConfigured(c) = Holds(c.keys)
    BY <1>3 DEF RegisterConfigured
  <2> QED
    BY <1>1, <2>1, HoldsFits DEF LeftFits, Fits
<1>4. CASE /\ c.keys.microphone # c.keys.system /\ ~c.hold
           /\ \A s \in KeySources : Available(c.keys[s])
  <2>1. RegisterConfigured(c) = Registers(c.keys)
    BY <1>4 DEF RegisterConfigured
  <2>2. Throws(c) <=> c.keys.microphone.key # Odd /\ c.keys.system.key = Odd
    BY <1>4 DEF Throws
  <2>3. LeftFits(Registers(c.keys),
                 halfway \/ (c.keys.microphone.key # Odd /\ c.keys.system.key = Odd))
    BY <1>1, <1>4, RegistersFits
  <2> QED
    BY <2>1, <2>2, <2>3 DEF LeftFits, Fits
<1>5. CASE c.keys.microphone = c.keys.system
  <2>1. RegisterConfigured(c) = Unchanged
    BY <1>5 DEF RegisterConfigured
  <2> QED
    BY <1>2, <2>1
<1>6. CASE /\ c.keys.microphone # c.keys.system /\ ~c.hold
           /\ ~\A s \in KeySources : Available(c.keys[s])
  <2>1. RegisterConfigured(c) = Unchanged
    BY <1>6 DEF RegisterConfigured
  <2> QED
    BY <1>2, <2>1
<1> QED
  BY <1>3, <1>4, <1>5, <1>6

\* A change of the configuration keeps the invariant.
LEMMA BecomesKeeps ==
  ASSUME HotKeysInv, NEW on \in BOOLEAN, NEW c \in KeyConfigs, NEW left, Becomes(on, c, left),
         LeftFits(left, halfway \/ (on /\ Throws(c)))
  PROVE  HotKeysInv'
<1>1. /\ registered' = left.registered /\ bindings' = left.bindings /\ current' = left.current
      /\ keysOn' = on /\ configured' = c
      /\ UNCHANGED <<foreign, down, asked>>
  BY DEF Becomes
<1>2. halfway' = (halfway \/ (on /\ Throws(c)))
  BY DEF Becomes
<1>3. halfway' \in BOOLEAN
  BY <1>2, Zenon DEF Throws
<1>4. /\ bindings' = bindings /\ torn' = torn
      \/ torn' = torn \cup {b.source : b \in {x \in bindings : x.active}}
  BY DEF Becomes
<1>5. torn' \subseteq KeySources
  BY <1>4 DEF HotKeysInv, HotKeysTypeOK
<1>6. Fits(registered', bindings', current', halfway')
  BY <1>1, <1>2, Zenon DEF LeftFits
<1>7. HotKeysTypeOK'
  BY <1>1, <1>3, <1>5, <1>6
  DEF Fits, RegisteredFit, BindingsFit, HotKeysTypeOK, HotKeysInv, KeyConfigs
<1>8. ShownKeysAreRegistered' /\ ShownKeysWork'
  BY <1>6 DEF ShownKeysAreRegistered, ShownKeysWork, Fits, Known
<1>9. ReleasedIsStopped'
  BY <1>1, <1>4 DEF HotKeysInv, ReleasedIsStopped
<1> QED
  BY <1>7, <1>8, <1>8, <1>9 DEF HotKeysInv

\* applyConfig() keeps the invariant,
LEMMA ApplyKeeps ==
  ASSUME HotKeysInv, NEW c \in KeyConfigs, NEW on \in BOOLEAN, ApplyConfig(c, on)
  PROVE  HotKeysInv'
<1>1. CASE on
  <2>1. Becomes(TRUE, c, RegisterConfigured(c))
    BY <1>1 DEF ApplyConfig
  <2>2. LeftFits(RegisterConfigured(c), halfway \/ (TRUE /\ Throws(c)))
    BY ConfiguredFits, Zenon
  <2> QED
    BY <2>1, <2>2, BecomesKeeps
<1>2. CASE ~on
  <2>1. Becomes(FALSE, c, Cleared)
    BY <1>2 DEF ApplyConfig
  <2>2. LeftFits(Cleared, halfway \/ (FALSE /\ Throws(c)))
    BY ClearedFits DEF LeftFits, Fits
  <2> QED
    BY <2>1, <2>2, BecomesKeeps
<1> QED
  BY <1>1, <1>2

\* so does a key that is set,
LEMMA RegisterKeeps ==
  ASSUME HotKeysInv, NEW keys \in Accelerators, RegisterHotkey(keys)
  PROVE  HotKeysInv'
<1> DEFINE c == [configured EXCEPT !.keys.microphone = keys]
<1>1. c \in KeyConfigs
  BY DEF HotKeysInv, HotKeysTypeOK, KeyConfigs, KeySources
<1>2. Becomes(keysOn, c, IF keysOn THEN RegisterConfigured(c) ELSE Unchanged)
  BY DEF RegisterHotkey
<1>3. keysOn \in BOOLEAN
  BY DEF HotKeysInv, HotKeysTypeOK
<1> HIDE DEF c
<1>4. CASE keysOn
  <2>1. Becomes(TRUE, c, RegisterConfigured(c))
    BY <1>2, <1>3, <1>4
  <2>2. LeftFits(RegisterConfigured(c), halfway \/ (TRUE /\ Throws(c)))
    BY <1>1, ConfiguredFits, Zenon
  <2> QED
    BY <1>1, <2>1, <2>2, BecomesKeeps
<1>5. CASE ~keysOn
  <2>1. Becomes(FALSE, c, Unchanged)
    BY <1>2, <1>3, <1>5
  <2>2. LeftFits(Unchanged, halfway \/ (FALSE /\ Throws(c)))
    BY WhatIsFits DEF LeftFits, Fits
  <2> QED
    BY <1>1, <2>1, <2>2, BecomesKeeps
<1> QED
  BY <1>4, <1>5

\* keys that are switched on or off,
LEMMA ToggleKeeps ==
  ASSUME HotKeysInv, NEW on \in BOOLEAN, ToggleKeys(on)
  PROVE  HotKeysInv'
<1> DEFINE keys == IF current.microphone # NoKeys THEN current.microphone ELSE DefaultKey
           c == [configured EXCEPT !.keys.microphone = keys]
<1>1. DefaultKey \in Accelerators
  BY DEF DefaultKey, Accelerators, Modifiers, MainKeys
<1>2. keys \in Accelerators
  BY <1>1 DEF HotKeysInv, HotKeysTypeOK, KeySources
<1> HIDE DEF keys
<1>3. c \in KeyConfigs /\ configured \in KeyConfigs
  BY <1>2 DEF HotKeysInv, HotKeysTypeOK, KeyConfigs, KeySources
<1>4. CASE on
  <2>1. Becomes(TRUE, c, RegisterConfigured(c))
    BY <1>4 DEF ToggleKeys, keys
  <2> HIDE DEF c
  <2>2. LeftFits(RegisterConfigured(c), halfway \/ (TRUE /\ Throws(c)))
    BY <1>3, ConfiguredFits, Zenon
  <2> QED
    BY <1>3, <2>1, <2>2, BecomesKeeps
<1>5. CASE ~on
  <2>1. Becomes(FALSE, configured, Cleared)
    BY <1>5 DEF ToggleKeys
  <2>2. LeftFits(Cleared, halfway \/ (FALSE /\ Throws(configured)))
    BY ClearedFits DEF LeftFits, Fits
  <2> QED
    BY <1>3, <2>1, <2>2, BecomesKeeps
<1> QED
  BY <1>4, <1>5

\* A binding keeps its source and keys when it becomes active or is so no more.
LEMMA TurnedFits ==
  ASSUME BindingsFit(bindings), NEW hit, hit \subseteq bindings, NEW on \in BOOLEAN
  PROVE  LET new == (bindings \ hit) \cup {[b EXCEPT !.active = on] : b \in hit} IN
         /\ BindingsFit(new)
         /\ \A b \in bindings : \E d \in new : d.source = b.source /\ d.keys = b.keys
<1> DEFINE new == (bindings \ hit) \cup {[b EXCEPT !.active = on] : b \in hit}
<1>1. ASSUME NEW b \in bindings
      PROVE  /\ [b EXCEPT !.active = on] \in [source : KeySources, keys : Accelerators,
                  active : BOOLEAN]
             /\ [b EXCEPT !.active = on].source = b.source
             /\ [b EXCEPT !.active = on].keys = b.keys
  BY DEF BindingsFit
<1>2. new \subseteq [source : KeySources, keys : Accelerators, active : BOOLEAN]
  BY <1>1 DEF BindingsFit
<1>3. ASSUME NEW b \in new, NEW d \in new, b.source = d.source PROVE b = d
  BY <1>1, <1>3 DEF BindingsFit
<1>4. ASSUME NEW b \in bindings PROVE \E d \in new : d.source = b.source /\ d.keys = b.keys
  <2>1. CASE b \in hit
    <3>1. [b EXCEPT !.active = on] \in new
      BY <2>1
    <3> QED
      BY <1>1, <3>1
  <2>2. CASE b \notin hit
    BY <2>2
  <2> QED
    BY <2>1, <2>2
<1> QED
  BY <1>2, <1>3, <1>4 DEF BindingsFit

\* a key that goes down,
LEMMA KeyDownKeeps ==
  ASSUME HotKeysInv, NEW key \in Modifiers \cup MainKeys, KeyDown(key)
  PROVE  HotKeysInv'
<1> DEFINE hit == {b \in bindings : ~b.active /\ Matches(b, key, down \cup {key})}
<1>1. /\ down' = down \cup {key}
      /\ bindings' = (bindings \ hit) \cup {[b EXCEPT !.active = TRUE] : b \in hit}
      /\ asked' = asked \cup {b.source : b \in hit} /\ torn' = torn \ {b.source : b \in hit}
      /\ UNCHANGED <<keysOn, configured, current, registered, halfway>>
  BY DEF KeyDown
<1>2. \A b \in hit : /\ b \in bindings /\ ~b.active /\ b.keys.key = key
                     /\ b.keys.mods \subseteq down \cup {key}
  BY DEF Matches
<1>3. BindingsFit(bindings) /\ \A b \in bindings : b.active \in BOOLEAN
  BY DEF HotKeysInv, HotKeysTypeOK, BindingsFit
<1> HIDE DEF hit
<1>4. /\ BindingsFit(bindings')
      /\ \A b \in bindings : \E d \in bindings' : d.source = b.source /\ d.keys = b.keys
  BY <1>1, <1>2, <1>3, TurnedFits
<1>5. HotKeysTypeOK'
  BY <1>1, <1>2, <1>4 DEF HotKeysInv, HotKeysTypeOK, BindingsFit
<1>6. ShownKeysAreRegistered'
  BY <1>1 DEF HotKeysInv, ShownKeysAreRegistered, Known
<1>7. ShownKeysWork'
  <2>1. /\ UNCHANGED <<current, registered>>
        /\ \A b \in bindings : \E d \in bindings' : d.source = b.source /\ d.keys = b.keys
    BY <1>1, <1>4
  <2> QED
    BY <2>1 DEF HotKeysInv, ShownKeysWork
<1>8. ASSUME NEW s \in asked' \ torn'
      PROVE  \E b \in bindings' : /\ b.source = s /\ b.active
                                  /\ b.keys.mods \cup {b.keys.key} \subseteq down'
  <2>1. CASE s \in {b.source : b \in hit}
    <3>1. PICK b \in hit : b.source = s
      BY <2>1
    <3>2. /\ [b EXCEPT !.active = TRUE] \in bindings'
          /\ [b EXCEPT !.active = TRUE].source = s /\ [b EXCEPT !.active = TRUE].active
          /\ [b EXCEPT !.active = TRUE].keys = b.keys
      <4>1. b \in bindings /\ b \in [source : KeySources, keys : Accelerators, active : BOOLEAN]
        BY <1>2, <1>3, <3>1 DEF BindingsFit
      <4>2. [b EXCEPT !.active = TRUE] \in bindings'
        BY <1>1, <3>1
      <4> QED
        BY <3>1, <4>1, <4>2
    <3> QED
      BY <1>1, <1>2, <3>1, <3>2
  <2>2. CASE s \notin {b.source : b \in hit}
    <3>1. s \in asked \ torn
      BY <1>1, <1>8, <2>2
    <3>2. PICK b \in bindings : /\ b.source = s /\ b.active
                                /\ b.keys.mods \cup {b.keys.key} \subseteq down
      BY <3>1 DEF HotKeysInv, ReleasedIsStopped
    <3>3. b \in bindings'
      BY <1>1, <1>2, <3>2
    <3> QED
      BY <1>1, <3>2, <3>3
  <2> QED
    BY <2>1, <2>2
<1> QED
  BY <1>5, <1>6, <1>7, <1>8 DEF HotKeysInv, ReleasedIsStopped

\* and a key that comes up.
LEMMA KeyUpKeeps ==
  ASSUME HotKeysInv, NEW key \in Modifiers \cup MainKeys, KeyUp(key)
  PROVE  HotKeysInv'
<1> DEFINE hit == {b \in bindings : b.active /\ Releases(b, key, down \ {key})}
<1>1. /\ down' = down \ {key}
      /\ bindings' = (bindings \ hit) \cup {[b EXCEPT !.active = FALSE] : b \in hit}
      /\ asked' = asked \ {b.source : b \in hit} /\ torn' = torn
      /\ UNCHANGED <<keysOn, configured, current, registered, halfway>>
  BY DEF KeyUp
<1>2. \A b \in bindings : b.active /\ b \notin hit =>
        b.keys.key # key /\ b.keys.mods \subseteq down \ {key}
  BY DEF Releases
<1>3. BindingsFit(bindings) /\ hit \subseteq bindings
  BY DEF HotKeysInv, HotKeysTypeOK, BindingsFit
<1> HIDE DEF hit
<1>4. /\ BindingsFit(bindings')
      /\ \A b \in bindings : \E d \in bindings' : d.source = b.source /\ d.keys = b.keys
  BY <1>1, <1>3, TurnedFits
<1>5. HotKeysTypeOK'
  BY <1>1, <1>4 DEF HotKeysInv, HotKeysTypeOK, BindingsFit
<1>6. ShownKeysAreRegistered'
  BY <1>1 DEF HotKeysInv, ShownKeysAreRegistered, Known
<1>7. ShownKeysWork'
  <2>1. /\ UNCHANGED <<current, registered>>
        /\ \A b \in bindings : \E d \in bindings' : d.source = b.source /\ d.keys = b.keys
    BY <1>1, <1>4
  <2> QED
    BY <2>1 DEF HotKeysInv, ShownKeysWork
<1>8. ASSUME NEW s \in asked' \ torn'
      PROVE  \E b \in bindings' : /\ b.source = s /\ b.active
                                  /\ b.keys.mods \cup {b.keys.key} \subseteq down'
  <2>1. s \in asked \ torn /\ s \notin {b.source : b \in hit}
    BY <1>1, <1>8
  <2>2. PICK b \in bindings : /\ b.source = s /\ b.active
                              /\ b.keys.mods \cup {b.keys.key} \subseteq down
    BY <2>1 DEF HotKeysInv, ReleasedIsStopped
  <2>3. b \notin hit /\ b \in bindings'
    BY <1>1, <2>1, <2>2
  <2> QED
    BY <1>1, <1>2, <2>2, <2>3
<1> QED
  BY <1>5, <1>6, <1>7, <1>8 DEF HotKeysInv, ReleasedIsStopped

\* The keys shown are registered and do work, and a release stops what a press has started.
LEMMA KeysAreSafe == HotKeysInit /\ [][HotKeysNext]_keyVars => []HotKeysInv
<1>1. HotKeysInv /\ [HotKeysNext]_keyVars => HotKeysInv'
  <2> SUFFICES ASSUME HotKeysInv, [HotKeysNext]_keyVars PROVE HotKeysInv'
    OBVIOUS
  <2>1. ASSUME NEW c \in KeyConfigs, NEW on \in BOOLEAN, ApplyConfig(c, on) PROVE HotKeysInv'
    BY <2>1, ApplyKeeps
  <2>2. ASSUME NEW keys \in Accelerators, RegisterHotkey(keys) PROVE HotKeysInv'
    BY <2>2, RegisterKeeps
  <2>3. ASSUME NEW keys \in Accelerators, OtherAppTakes(keys) PROVE HotKeysInv'
    BY <2>3 DEF OtherAppTakes, HotKeysInv, HotKeysTypeOK, ShownKeysAreRegistered, Known,
                ShownKeysWork, ReleasedIsStopped
  <2>4. ASSUME NEW on \in BOOLEAN, ToggleKeys(on) PROVE HotKeysInv'
    BY <2>4, ToggleKeeps
  <2>5. ASSUME NEW key \in Modifiers \cup MainKeys, KeyDown(key) PROVE HotKeysInv'
    BY <2>5, KeyDownKeeps
  <2>6. ASSUME NEW key \in Modifiers \cup MainKeys, KeyUp(key) PROVE HotKeysInv'
    BY <2>6, KeyUpKeeps
  <2>7. CASE UNCHANGED keyVars
    BY <2>7 DEF keyVars, HotKeysInv, HotKeysTypeOK, ShownKeysAreRegistered, Known,
                ShownKeysWork, ReleasedIsStopped
  <2> QED
    BY <2>1, <2>2, <2>3, <2>4, <2>5, <2>6, <2>7 DEF HotKeysNext, KeyConfigs
<1> QED
  BY HotKeysInitInv, <1>1, PTL

-----------------------------------------------------------------------------
(* The components side by side *)

\* What the composition does to the settings, the settings do.
LEMMA SettingssSteps == Spec => SettingsInit /\ [][SettingsNext]_settingsVars
<1>1. Init => SettingsInit
  BY DEF Init
<1>2. [Next]_vars => [SettingsNext]_settingsVars
  BY DEF Next, Alone, vars
<1> QED
  BY <1>1, <1>2, PTL DEF Spec

\* What the composition does to the keys, their handlers do.
LEMMA KeysSteps == Spec => HotKeysInit /\ [][HotKeysNext]_keyVars
<1>1. Init => HotKeysInit
  BY DEF Init
<1>2. [Next]_vars => [HotKeysNext]_keyVars
  BY DEF Next, Alone, vars
<1> QED
  BY <1>1, <1>2, PTL DEF Spec

\* A window shows what the backend serves, and the newest edit of each setting is kept, unless
\* one of the hazards on record has happened (settings manager, App.tsx, tray.js).
THEOREM SettingsAreShared == Spec => []SettingsInv
<1> QED
  BY SettingssSteps, SettingsAreSafe, PTL

\* A key that is shown is registered or held for, a key that is registered is shown, and a hold
\* that ends has its stop (hotkeyHandlers.js, holdModeHotkeys.js): ShownInv's first half.
THEOREM ShownKeysStayRegistered == Spec => []HotKeysInv
<1> QED
  BY KeysSteps, KeysAreSafe, PTL

-----------------------------------------------------------------------------
(* HotkeyClient: the types of what the handlers share; and whoever waits for an        *)
(* acknowledgement waits for a waiter that is still there.                             *)

Some == 0..NSessions
Lives == {"idle", "starting", "recording", "stopping", "error"}
Sources == CaptureSources \cup {Quiet}
StopActions == {"cancel", "finish", "finish_and_paste"}
Kinds == {"closed", "lost", "error", "started", "stopping", "idle", "commit", "ack", "stopped",
          "discarded"}

StartCall == [source : Sources, by : {"key", "restart"}, got : {"no", "ok", "failed", "done"},
              of : Some]
StopCall == [act : StopActions, by : {"key", "window"}, at : {"ack", "answer", "done"},
             got : {"no", "ok"}, until : Some]
SocketMessage == [kind : Kinds, of : Some]
ClientSocket == [open : {"connecting", "open", "closing"}, inbox : Seq(SocketMessage)]
Served1 == [at : {"none", "recording", "ending", "ended", "over"}, spoke : BOOLEAN,
            discards : BOOLEAN, closes : SUBSET Nat]

\* What a handler finds or leaves, with n sockets made so far.
ClientStates(n) ==
  [life : Lives, active : Some, source : Sources, restart : Sources,
   action : StopActions \cup {Quiet}, candidate : Some, pastedLive : BOOLEAN,
   waiter : -1..NSessions, starts : Seq(StartCall), stops : Seq(StopCall),
   socket : 0..n, socketOf : Some, pasted : [HkSessions -> Nat]]

WaitedFor(c) == (\E j \in DOMAIN c.stops : c.stops[j].at = "ack") => c.waiter # NoWaiter

\* A handler leaves the client in order, and adds no calls.
LeavesClient(c, n) ==
  /\ c \in ClientStates(n) /\ WaitedFor(c)
  /\ Len(c.starts) <= NSessions /\ Len(c.stops) <= NStopCalls

ClientIInv ==
  /\ LeavesClient(Client, Len(sockets))
  /\ sockets \in Seq(ClientSocket)
  /\ serving \in Some /\ served \in [HkSessions -> Served1]
  /\ holding \in Sources

LEMMA ClientIs ==
  /\ Client.life = life /\ Client.active = active /\ Client.source = source
  /\ Client.restart = restart /\ Client.action = action /\ Client.candidate = candidate
  /\ Client.pastedLive = pastedLive /\ Client.waiter = waiter /\ Client.starts = startCalls
  /\ Client.stops = stopCalls /\ Client.socket = socket /\ Client.socketOf = socketOf
  /\ Client.pasted = pasted
BY DEF Client

LEMMA ClientFields ==
  ASSUME NEW n \in Nat
  PROVE  Client \in ClientStates(n) <=>
           /\ life \in Lives /\ active \in Some /\ source \in Sources /\ restart \in Sources
           /\ action \in StopActions \cup {Quiet} /\ candidate \in Some
           /\ pastedLive \in BOOLEAN /\ waiter \in -1..NSessions
           /\ startCalls \in Seq(StartCall) /\ stopCalls \in Seq(StopCall)
           /\ socket \in 0..n /\ socketOf \in Some /\ pasted \in [HkSessions -> Nat]
BY DEF Client, ClientStates

LEMMA ClientTypesFollow == ClientIInv => HotkeyClientTypeOK
<1> SUFFICES ASSUME ClientIInv PROVE HotkeyClientTypeOK
  OBVIOUS
<1>1. Len(sockets) \in Nat
  BY DEF ClientIInv
<1> QED
  BY <1>1, ClientFields, ClientIs DEF ClientIInv, LeavesClient, WaitedFor, HotkeyClientTypeOK,
     Some, Lives, Sources, StopActions

LEMMA ClientInitInv == HotkeyClientInit => ClientIInv
<1> SUFFICES ASSUME HotkeyClientInit PROVE ClientIInv
  OBVIOUS
<1>1. startCalls = <<>> /\ stopCalls = <<>> /\ sockets = <<>>
  BY DEF HotkeyClientInit
<1>2. served \in [HkSessions -> Served1]
  BY DEF HotkeyClientInit, Session, Served1
<1>3. pasted \in [HkSessions -> Nat]
  BY DEF HotkeyClientInit
<1>6. /\ life \in Lives /\ source \in Sources /\ restart \in Sources
      /\ action \in StopActions \cup {Quiet} /\ pastedLive \in BOOLEAN
  BY DEF HotkeyClientInit, Lives, Sources
<1>7. /\ active \in Some /\ candidate \in Some /\ waiter \in -1..NSessions
      /\ socket \in 0..0 /\ socketOf \in Some
  BY HotkeyClientAssumption DEF HotkeyClientInit, Some, Nobody, NoWaiter
<1>4. Client \in ClientStates(0)
  BY <1>1, <1>3, <1>6, <1>7, ClientFields
<1>5. WaitedFor(Client)
  BY <1>1, ClientIs DEF WaitedFor
<1>8. sockets \in Seq(ClientSocket) /\ Len(sockets) = 0 /\ serving \in Some /\ holding \in Sources
  BY <1>1, HotkeyClientAssumption DEF HotkeyClientInit, Some, Sources, Nobody
<1>9. LeavesClient(Client, 0)
  BY <1>1, <1>4, <1>5, ClientIs, HotkeyClientAssumption DEF LeavesClient
<1> QED
  BY <1>2, <1>8, <1>9 DEF ClientIInv

LEMMA GoesOnLeaves ==
  ASSUME NEW n \in Nat, NEW c \in ClientStates(n),
         Len(c.starts) <= NSessions, Len(c.stops) <= NStopCalls
  PROVE  LeavesClient(GoesOn(c), n)
<1> DEFINE waiting == {j \in DOMAIN c.stops : c.stops[j].at = "ack"}
           pastes == IF c.candidate = Nobody THEN {}
                     ELSE {j \in waiting : c.stops[j].act = "finish_and_paste"}
           stops == [j \in DOMAIN c.stops |-> IF j \in waiting
                                              THEN [c.stops[j] EXCEPT !.at = "answer"]
                                              ELSE c.stops[j]]
           pastedThen == [s \in HkSessions |-> IF s = c.candidate
                                         THEN c.pasted[s] + Cardinality(pastes) ELSE c.pasted[s]]
<1>0. GoesOn(c) = [c EXCEPT !.stops = stops, !.pastedLive = @ \/ pastes # {}, !.pasted = pastedThen]
  BY DEF GoesOn
<1>1. c.stops \in Seq(StopCall) /\ c.pasted \in [HkSessions -> Nat] /\ c.pastedLive \in BOOLEAN
  BY DEF ClientStates
<1>2. stops \in Seq(StopCall) /\ Len(stops) = Len(c.stops)
  <2>1. \A j \in 1..Len(c.stops) : stops[j] \in StopCall
    <3> SUFFICES ASSUME NEW j \in 1..Len(c.stops) PROVE stops[j] \in StopCall
      OBVIOUS
    <3>1. c.stops[j] \in StopCall
      BY <1>1
    <3>2. [c.stops[j] EXCEPT !.at = "answer"] \in StopCall
      BY <3>1 DEF StopCall
    <3> QED
      BY <1>1, <3>1, <3>2
  <2>2. stops \in [1..Len(c.stops) -> StopCall]
    <3>1. DOMAIN c.stops = 1..Len(c.stops)
      BY <1>1
    <3>2. stops = [j \in 1..Len(c.stops) |-> stops[j]]
      BY <3>1
    <3> HIDE DEF stops
    <3> QED
      BY <2>1, <3>2
  <2> HIDE DEF stops
  <2>3. Len(c.stops) \in Nat
    BY <1>1
  <2>4. stops \in Seq(StopCall)
    BY <2>2, <2>3, SeqDef
  <2> QED
    BY <2>2, <2>3, <2>4, LenProperties
<1>3. \A j \in DOMAIN stops : stops[j].at # "ack"
  <2> SUFFICES ASSUME NEW j \in DOMAIN stops PROVE stops[j].at # "ack"
    OBVIOUS
  <2>1. j \in DOMAIN c.stops /\ c.stops[j] \in StopCall
    BY <1>1
  <2>2. CASE j \in waiting
    <3>1. stops[j] = [c.stops[j] EXCEPT !.at = "answer"]
      BY <2>1, <2>2
    <3>2. [c.stops[j] EXCEPT !.at = "answer"].at = "answer"
      BY <2>1 DEF StopCall
    <3> QED
      BY <3>1, <3>2
  <2>3. CASE j \notin waiting
    BY <2>1, <2>3
  <2> QED
    BY <2>2, <2>3
<1>4. IsFiniteSet(pastes)
  <2>1. IsFiniteSet(1..Len(c.stops))
    <3>1. Len(c.stops) \in Int
      BY <1>1
    <3> QED
      BY <3>1, FS_Interval
  <2>2. pastes \subseteq 1..Len(c.stops)
    <3>1. DOMAIN c.stops = 1..Len(c.stops)
      BY <1>1
    <3> QED
      BY <3>1
  <2> QED
    BY <2>1, <2>2, FS_Subset
<1>5. pastedThen \in [HkSessions -> Nat]
  <2>1. Cardinality(pastes) \in Nat
    BY <1>4, FS_CardinalityType
  <2> HIDE DEF pastes
  <2> QED
    BY <1>1, <2>1
<1>8. (c.pastedLive \/ pastes # {}) \in BOOLEAN
  OBVIOUS
<1> HIDE DEF waiting, pastes, stops, pastedThen
<1>6. GoesOn(c) \in ClientStates(n)
  BY <1>0, <1>1, <1>2, <1>5, <1>8 DEF ClientStates
<1>7. GoesOn(c).stops = stops /\ GoesOn(c).starts = c.starts
  <2> DEFINE live == c.pastedLive \/ pastes # {}
  <2>1. GoesOn(c) = [c EXCEPT !.stops = stops, !.pastedLive = live, !.pasted = pastedThen]
    BY <1>0
  <2> HIDE DEF live
  <2> QED
    BY <2>1 DEF ClientStates
<1> QED
  BY <1>2, <1>3, <1>6, <1>7 DEF LeavesClient, WaitedFor

LEMMA ResolvedLeaves ==
  ASSUME NEW n \in Nat, NEW c, LeavesClient(c, n)
  PROVE  [c EXCEPT !.waiter = NoWaiter] \in ClientStates(n)
         /\ [c EXCEPT !.waiter = NoWaiter].starts = c.starts
         /\ [c EXCEPT !.waiter = NoWaiter].stops = c.stops
         /\ LeavesClient(GoesOn([c EXCEPT !.waiter = NoWaiter]), n)
<1>1. c \in ClientStates(n)
  BY DEF LeavesClient
<1>2. NoWaiter \in -1..NSessions
  BY HotkeyClientAssumption DEF NoWaiter
<1>3. /\ [c EXCEPT !.waiter = NoWaiter] \in ClientStates(n)
      /\ [c EXCEPT !.waiter = NoWaiter].starts = c.starts
      /\ [c EXCEPT !.waiter = NoWaiter].stops = c.stops
  BY <1>1, <1>2 DEF ClientStates
<1> HIDE DEF NoWaiter
<1> QED
  BY <1>3, GoesOnLeaves DEF LeavesClient

LEMMA ResolveLeaves ==
  ASSUME NEW n \in Nat, NEW c, LeavesClient(c, n), NEW s
  PROVE  LeavesClient(ResolveStopWaiter(c, s), n)
<1>1. CASE Resolves(c, s)
  BY <1>1, ResolvedLeaves DEF ResolveStopWaiter
<1>2. CASE ~Resolves(c, s)
  BY <1>2 DEF ResolveStopWaiter
<1> QED
  BY <1>1, <1>2

LEMMA StartRecordingLeaves ==
  ASSUME NEW n \in Nat, NEW c \in ClientStates(n), NEW src \in CaptureSources,
         NEW by \in {"key", "restart"}, Len(c.starts) < NSessions, Len(c.stops) <= NStopCalls
  PROVE  /\ StartRecording(c, src, by) \in ClientStates(n)
         /\ Len(StartRecording(c, src, by).starts) <= NSessions
         /\ StartRecording(c, src, by).stops = c.stops
         /\ StartRecording(c, src, by).waiter = c.waiter
<1> DEFINE call == [source |-> src, by |-> by, got |-> "no", of |-> Nobody]
           starts == Append(c.starts, call)
<1>1. c.starts \in Seq(StartCall)
  BY DEF ClientStates
<1>2. call \in StartCall
  BY HotkeyClientAssumption DEF StartCall, Sources, Some, Nobody
<1>3. starts \in Seq(StartCall) /\ Len(starts) = Len(c.starts) + 1 /\ Len(c.starts) \in Nat
  BY <1>1, <1>2
<1>4. Nobody \in Some /\ src \in Sources
  BY HotkeyClientAssumption DEF Some, Nobody, Sources
<1>5. StartRecording(c, src, by) =
        [c EXCEPT !.candidate = Nobody, !.pastedLive = FALSE, !.life = "starting",
                  !.source = src, !.starts = starts]
  BY DEF StartRecording
<1> HIDE DEF call, starts
<1>6. StartRecording(c, src, by).starts = starts /\ StartRecording(c, src, by).stops = c.stops
      /\ StartRecording(c, src, by).waiter = c.waiter
  BY <1>5 DEF ClientStates
<1>7. StartRecording(c, src, by) \in ClientStates(n)
  BY <1>3, <1>4, <1>5 DEF ClientStates, Lives
<1> QED
  BY <1>3, <1>6, <1>7, HotkeyClientAssumption

LEMMA StopRecordingLeaves ==
  ASSUME NEW n \in Nat, NEW c, LeavesClient(c, n), NEW act \in StopActions,
         NEW by \in {"key", "window"}, Len(c.stops) < NStopCalls
  PROVE  LeavesClient(StopRecording(c, act, by), n)
<1> DEFINE does == IF c.action # Quiet THEN c.action ELSE act
           call == [act |-> does, by |-> by, at |-> "ack", got |-> "no", until |-> Nobody]
           stops == Append(c.stops, call)
           waits == IF c.waiter = NoWaiter THEN c.active ELSE c.waiter
           d == StopRecording(c, act, by)
<1>1. /\ c \in ClientStates(n) /\ c.stops \in Seq(StopCall) /\ c.starts \in Seq(StartCall)
      /\ c.action \in StopActions \cup {Quiet} /\ c.active \in Some /\ c.waiter \in -1..NSessions
  BY DEF LeavesClient, ClientStates
<1>2. does \in StopActions
  BY <1>1
<1>3. call \in StopCall
  BY <1>2, HotkeyClientAssumption DEF StopCall, Some, Nobody
<1>4. stops \in Seq(StopCall) /\ Len(stops) = Len(c.stops) + 1 /\ Len(c.stops) \in Nat
  BY <1>1, <1>3
<1>5. waits \in -1..NSessions /\ waits # NoWaiter
  BY <1>1, HotkeyClientAssumption DEF Some, NoWaiter
<1>6. d = [c EXCEPT !.action = does, !.life = "stopping", !.waiter = waits, !.stops = stops]
  BY DEF StopRecording
<1> HIDE DEF does, call, stops, waits, d
<1>7. d \in ClientStates(n)
  BY <1>1, <1>2, <1>4, <1>5, <1>6 DEF ClientStates, Lives
<1>8. d.starts = c.starts /\ d.stops = stops /\ d.waiter = waits
  BY <1>1, <1>6 DEF ClientStates
<1>9. LeavesClient(d, n)
  BY <1>4, <1>5, <1>7, <1>8, HotkeyClientAssumption DEF LeavesClient, WaitedFor
<1> QED
  BY <1>9 DEF d

\* A handler that touches neither the calls nor the waiter.
LEMMA OthersLeave ==
  ASSUME NEW n \in Nat, NEW c, LeavesClient(c, n), NEW d \in ClientStates(n),
         d.starts = c.starts, d.stops = c.stops, d.waiter = c.waiter
  PROVE  LeavesClient(d, n)
BY DEF LeavesClient, WaitedFor

LEMMA StatusLeaves ==
  ASSUME NEW n \in Nat, NEW c, LeavesClient(c, n), NEW s \in Some
  PROVE  /\ LeavesClient(OnStarted(c, s), n) /\ LeavesClient(OnStatusStopping(c, s), n)
         /\ LeavesClient(OnStatusIdle(c), n) /\ LeavesClient(OnCommit(c, s), n)
<1>1. c \in ClientStates(n) /\ Nobody \in Some
  BY HotkeyClientAssumption DEF LeavesClient, Some, Nobody
<1>2. \A d \in {OnStarted(c, s), OnStatusStopping(c, s), OnStatusIdle(c), OnCommit(c, s)} :
        d \in ClientStates(n) /\ d.starts = c.starts /\ d.stops = c.stops /\ d.waiter = c.waiter
  <2>1. OnStarted(c, s) \in ClientStates(n) /\ OnStarted(c, s).starts = c.starts
        /\ OnStarted(c, s).stops = c.stops /\ OnStarted(c, s).waiter = c.waiter
    BY <1>1 DEF OnStarted, ClientStates, Lives
  <2>2. OnStatusStopping(c, s) \in ClientStates(n) /\ OnStatusStopping(c, s).starts = c.starts
        /\ OnStatusStopping(c, s).stops = c.stops /\ OnStatusStopping(c, s).waiter = c.waiter
    BY <1>1 DEF OnStatusStopping, ClientStates, Lives
  <2>3. OnStatusIdle(c) \in ClientStates(n) /\ OnStatusIdle(c).starts = c.starts
        /\ OnStatusIdle(c).stops = c.stops /\ OnStatusIdle(c).waiter = c.waiter
    BY <1>1 DEF OnStatusIdle, ClientStates, Lives
  <2>4. [c EXCEPT !.candidate = s] \in ClientStates(n) /\ [c EXCEPT !.candidate = s].starts = c.starts
        /\ [c EXCEPT !.candidate = s].stops = c.stops /\ [c EXCEPT !.candidate = s].waiter = c.waiter
    BY <1>1 DEF ClientStates
  <2>5. OnCommit(c, s) \in {c, [c EXCEPT !.candidate = s]}
    BY DEF OnCommit
  <2> QED
    BY <1>1, <2>1, <2>2, <2>3, <2>4, <2>5
<1> QED
  BY <1>2, OthersLeave

LEMMA StopAckLeaves ==
  ASSUME NEW n \in Nat, NEW c, LeavesClient(c, n), NEW s \in Some
  PROVE  LeavesClient(OnStopAck(c, s), n)
BY StatusLeaves, ResolveLeaves DEF OnStopAck, OnStatusStopping

LEMMA ErrorLeaves ==
  ASSUME NEW n \in Nat, NEW c, LeavesClient(c, n)
  PROVE  LeavesClient(OnError(c), n)
<1> DEFINE d == [c EXCEPT !.life = "error"]
<1>1. c \in ClientStates(n)
  BY DEF LeavesClient
<1>2. d \in ClientStates(n) /\ d.starts = c.starts /\ d.stops = c.stops /\ d.waiter = c.waiter
  BY <1>1 DEF ClientStates, Lives
<1>3. OnError(c) = IF c.waiter = NoWaiter THEN d ELSE GoesOn([d EXCEPT !.waiter = NoWaiter])
  BY DEF OnError
<1> HIDE DEF d
<1> QED
  BY <1>2, <1>3, OthersLeave, ResolvedLeaves

LEMMA CloseLeaves ==
  ASSUME NEW n \in Nat, NEW c, LeavesClient(c, n), NEW normal \in BOOLEAN
  PROVE  LeavesClient(OnClose(c, normal), n)
<1> DEFINE d == [c EXCEPT !.socket = Nobody, !.socketOf = Nobody]
           e == [d EXCEPT !.life = "error"]
<1>1. c \in ClientStates(n) /\ Nobody \in Some /\ Nobody \in 0..n
  BY HotkeyClientAssumption DEF LeavesClient, Some, Nobody
<1>2. d \in ClientStates(n) /\ d.starts = c.starts /\ d.stops = c.stops /\ d.waiter = c.waiter
  BY <1>1 DEF ClientStates
<1>3. OnClose(c, normal) \in {ResolveStopWaiter(d, Nobody), e, d}
  BY DEF OnClose
<1> HIDE DEF d
<1>4. e \in ClientStates(n) /\ e.starts = c.starts /\ e.stops = c.stops /\ e.waiter = c.waiter
  BY <1>2 DEF ClientStates, Lives
<1> HIDE DEF e
<1> QED
  BY <1>2, <1>3, <1>4, OthersLeave, ResolveLeaves

\* The result of a session: what it pastes, the end of it, and the restart that was asked for.
LEMMA StoppedLeaves ==
  ASSUME NEW n \in Nat, LeavesClient(Client, n), NEW s \in Some, NEW text \in BOOLEAN
  PROVE  LeavesClient(OnStopped(Client, s, text), n)
<1> DEFINE c == Client
           d == IF text /\ c.action = "finish_and_paste" /\ ~c.pastedLive THEN Pastes(c, s) ELSE c
           idle == [d EXCEPT !.candidate = Nobody, !.pastedLive = FALSE, !.action = Quiet,
                             !.life = "idle", !.active = Nobody, !.source = Quiet]
           resolved == IF Resolves(c, s) THEN [idle EXCEPT !.waiter = NoWaiter] ELSE idle
           again == [resolved EXCEPT !.restart = Quiet]
           restarted == IF c.restart = Quiet \/ ~CanStart THEN resolved
                        ELSE StartRecording(again, c.restart, "restart")
<1>1. c \in ClientStates(n) /\ Nobody \in Some /\ Quiet \in Sources /\ Quiet \in StopActions \cup {Quiet}
  BY HotkeyClientAssumption DEF LeavesClient, Some, Nobody, Sources
<1>2. d \in ClientStates(n) /\ d.starts = c.starts /\ d.stops = c.stops /\ d.waiter = c.waiter
  <2>1. CASE s = Nobody
    BY <1>1, <2>1 DEF Pastes
  <2>2. CASE s # Nobody
    <3>1. s \in HkSessions /\ c.pasted \in [HkSessions -> Nat]
      BY <1>1, <2>2, HotkeyClientAssumption DEF Some, Nobody, HkSessions, ClientStates
    <3>2. [c.pasted EXCEPT ![s] = @ + 1] \in [HkSessions -> Nat]
      BY <3>1
    <3>3. [c EXCEPT !.pasted = [c.pasted EXCEPT ![s] = @ + 1]] \in ClientStates(n)
      BY <1>1, <3>2 DEF ClientStates
    <3>4. Pastes(c, s) = [c EXCEPT !.pasted = [c.pasted EXCEPT ![s] = @ + 1]]
      BY <1>1, <2>2 DEF Pastes, ClientStates
    <3>5. Pastes(c, s).starts = c.starts /\ Pastes(c, s).stops = c.stops
          /\ Pastes(c, s).waiter = c.waiter
      BY <1>1, <3>4 DEF ClientStates
    <3> QED
      BY <1>1, <3>3, <3>4, <3>5
  <2> QED
    BY <2>1, <2>2
<1> HIDE DEF d
<1>3. /\ idle \in ClientStates(n) /\ idle.starts = c.starts /\ idle.stops = c.stops
      /\ idle.waiter = c.waiter
  BY <1>1, <1>2 DEF ClientStates, Lives
<1> HIDE DEF idle
<1>4. LeavesClient(idle, n)
  BY <1>3, OthersLeave
<1>5. resolved \in ClientStates(n) /\ resolved.starts = c.starts /\ resolved.stops = c.stops
  BY <1>3, <1>4, ResolvedLeaves
<1>6. ~Resolves(c, s) => resolved = idle
  OBVIOUS
<1> HIDE DEF resolved
<1>7. /\ again \in ClientStates(n) /\ again.starts = c.starts /\ again.stops = c.stops
      /\ again.waiter = resolved.waiter
  BY <1>1, <1>5 DEF ClientStates
<1> HIDE DEF again
<1>8. /\ restarted \in ClientStates(n) /\ Len(restarted.starts) <= NSessions
      /\ restarted.stops = c.stops /\ restarted.waiter = resolved.waiter
  <2>1. CASE c.restart = Quiet \/ ~CanStart
    BY <1>5, <2>1 DEF LeavesClient
  <2>2. CASE ~(c.restart = Quiet \/ ~CanStart)
    <3>1. c.restart \in CaptureSources
      BY <1>1, <2>2 DEF ClientStates, Sources
    <3>2. Len(again.starts) < NSessions /\ Len(again.stops) <= NStopCalls
      BY <1>7, <2>2, ClientIs DEF CanStart, LeavesClient
    <3>3. restarted = StartRecording(again, c.restart, "restart")
      BY <2>2
    <3> HIDE DEF restarted
    <3> QED
      BY <1>7, <3>1, <3>2, <3>3, StartRecordingLeaves
  <2> QED
    BY <2>1, <2>2
<1>9. OnStopped(c, s, text) = IF Resolves(c, s) THEN GoesOn(restarted) ELSE restarted
  BY DEF OnStopped, d, idle, resolved, again
<1> HIDE DEF restarted
<1>10. CASE Resolves(c, s)
  BY <1>8, <1>9, <1>10, GoesOnLeaves DEF LeavesClient
<1>11. CASE ~Resolves(c, s)
  BY <1>4, <1>3, <1>6, <1>8, <1>9, <1>11 DEF LeavesClient, WaitedFor
<1> QED
  BY <1>10, <1>11

\* Whatever a socket tells.
LEMMA HandledLeaves ==
  ASSUME NEW n \in Nat, LeavesClient(Client, n), NEW m \in SocketMessage
  PROVE  LeavesClient(Handled(Client, m), n)
<1>1. m.kind \in Kinds /\ m.of \in Some
  BY DEF SocketMessage
<1>2. CASE m.kind \in {"closed", "lost"}
  <2>1. Handled(Client, m) = OnClose(Client, TRUE) \/ Handled(Client, m) = OnClose(Client, FALSE)
    BY <1>2 DEF Handled
  <2>2. LeavesClient(OnClose(Client, TRUE), n) /\ LeavesClient(OnClose(Client, FALSE), n)
    BY CloseLeaves
  <2> QED
    BY <2>1, <2>2
<1>3. CASE m.kind = "error"
  <2>1. Handled(Client, m) = OnError(Client)
    BY <1>3 DEF Handled
  <2> QED
    BY <2>1, ErrorLeaves
<1>4. CASE m.kind \notin {"closed", "lost", "error"} /\ ~IsExpected(Client, m.of)
  <2>1. Handled(Client, m) = Client
    BY <1>4 DEF Handled
  <2> QED
    BY <2>1
<1>5. CASE m.kind \notin {"closed", "lost", "error"} /\ IsExpected(Client, m.of)
  <2>1. CASE m.kind = "started"
    <3>1. Handled(Client, m) = OnStarted(Client, m.of)
      BY <1>5, <2>1 DEF Handled
    <3> QED
      BY <1>1, <3>1, StatusLeaves
  <2>2. CASE m.kind = "stopping"
    <3>1. Handled(Client, m) = OnStatusStopping(Client, m.of)
      BY <1>5, <2>2 DEF Handled
    <3> QED
      BY <1>1, <3>1, StatusLeaves
  <2>3. CASE m.kind = "idle"
    <3>1. Handled(Client, m) = OnStatusIdle(Client)
      BY <1>5, <2>3 DEF Handled
    <3> QED
      BY <1>1, <3>1, StatusLeaves
  <2>4. CASE m.kind = "commit"
    <3>1. Handled(Client, m) = OnCommit(Client, m.of)
      BY <1>5, <2>4 DEF Handled
    <3> QED
      BY <1>1, <3>1, StatusLeaves
  <2>5. CASE m.kind = "ack"
    <3>1. Handled(Client, m) = OnStopAck(Client, m.of)
      BY <1>5, <2>5 DEF Handled
    <3> QED
      BY <1>1, <3>1, StopAckLeaves
  <2>6. CASE m.kind = "stopped"
    <3>1. Handled(Client, m) = OnStopped(Client, m.of, TRUE)
      BY <1>5, <2>6 DEF Handled
    <3> QED
      BY <1>1, <3>1, StoppedLeaves
  <2>7. CASE m.kind = "discarded"
    <3>1. Handled(Client, m) = OnStopped(Client, m.of, FALSE)
      BY <1>5, <2>7 DEF Handled
    <3> QED
      BY <1>1, <3>1, StoppedLeaves
  <2> QED
    BY <1>1, <1>5, <2>1, <2>2, <2>3, <2>4, <2>5, <2>6, <2>7 DEF Kinds
<1> QED
  BY <1>2, <1>3, <1>4, <1>5

\* The client is what its handler leaves.
LEMMA ClientIsLeft ==
  ASSUME NEW n \in Nat, NEW c, LeavesClient(c, n), ClientBecomes(c)
  PROVE  Client' = c
<1>1. c \in ClientStates(n)
  BY DEF LeavesClient
<1>2. c = [life |-> c.life, active |-> c.active, source |-> c.source, restart |-> c.restart,
           action |-> c.action, candidate |-> c.candidate, pastedLive |-> c.pastedLive,
           waiter |-> c.waiter, starts |-> c.starts, stops |-> c.stops,
           socket |-> c.socket, socketOf |-> c.socketOf, pasted |-> c.pasted]
  BY <1>1 DEF ClientStates
<1> QED
  BY <1>2 DEF ClientBecomes, Client

LEMMA MoreSockets ==
  ASSUME NEW n \in Nat, NEW m \in Nat, n <= m, NEW c, LeavesClient(c, n)
  PROVE  LeavesClient(c, m)
<1>1. 0..n \subseteq 0..m
  OBVIOUS
<1> QED
  BY <1>1 DEF LeavesClient, ClientStates

\* A handler of the client that leaves the service alone.
LEMMA HandlerKeeps ==
  ASSUME ClientIInv, NEW c, LeavesClient(c, Len(sockets)), ClientBecomes(c),
         UNCHANGED <<sockets, serving, served>>, holding' \in Sources
  PROVE  ClientIInv'
<1>1. Len(sockets) \in Nat
  BY DEF ClientIInv
<1> QED
  BY <1>1, ClientIsLeft DEF ClientIInv

LEMMA PressKeeps ==
  ASSUME ClientIInv, NEW src \in CaptureSources, Press(src)
  PROVE  ClientIInv'
<1> DEFINE c == [Client EXCEPT !.restart = src]
<1>0. /\ LeavesClient(Client, Len(sockets)) /\ Len(sockets) \in Nat /\ src \in Sources
      /\ UNCHANGED <<sockets, serving, served>> /\ holding' \in Sources
  BY DEF Press, serviceVars, ClientIInv, Sources
<1>1. Client \in ClientStates(Len(sockets))
  BY <1>0 DEF LeavesClient
<1>2. /\ c \in ClientStates(Len(sockets)) /\ c.starts = Client.starts /\ c.stops = Client.stops
      /\ c.waiter = Client.waiter
  BY <1>0, <1>1 DEF ClientStates
<1> HIDE DEF c
<1>3. LeavesClient(c, Len(sockets))
  BY <1>0, <1>2, OthersLeave
<1>4. CASE CanStart /\ life \in {"idle", "error"} /\ ClientBecomes(StartRecording(Client, src, "key"))
  <2> DEFINE d == StartRecording(Client, src, "key")
  <2>1. /\ d \in ClientStates(Len(sockets)) /\ Len(d.starts) <= NSessions
        /\ d.stops = Client.stops /\ d.waiter = Client.waiter
    BY <1>0, <1>1, <1>4, ClientIs, StartRecordingLeaves DEF CanStart, LeavesClient
  <2>2. LeavesClient(d, Len(sockets))
    BY <1>0, <2>1 DEF LeavesClient, WaitedFor
  <2> QED
    BY <1>0, <1>4, <2>2, HandlerKeeps
<1>5. CASE ClientBecomes(Client)
  BY <1>0, <1>5, HandlerKeeps
<1>6. CASE ClientBecomes(c)
  BY <1>0, <1>3, <1>6, HandlerKeeps
<1>7. CASE CanStop /\ ClientBecomes(StopRecording(c, "finish_and_paste", "key"))
  <2>1. Len(c.stops) < NStopCalls
    BY <1>2, <1>7, ClientIs DEF CanStop
  <2>2. LeavesClient(StopRecording(c, "finish_and_paste", "key"), Len(sockets))
    BY <1>0, <1>3, <2>1, StopRecordingLeaves DEF StopActions
  <2> QED
    BY <1>0, <1>7, <2>2, HandlerKeeps
<1> QED
  BY <1>4, <1>5, <1>6, <1>7 DEF Press, c

LEMMA ReleaseKeeps == ClientIInv /\ Release => ClientIInv'
<1> SUFFICES ASSUME ClientIInv, Release PROVE ClientIInv'
  OBVIOUS
<1>0. /\ LeavesClient(Client, Len(sockets)) /\ Len(sockets) \in Nat
      /\ UNCHANGED <<sockets, serving, served>> /\ holding' \in Sources
  BY DEF Release, serviceVars, ClientIInv, Sources
<1>1. CASE CanStop /\ ClientBecomes(StopRecording(Client, "finish_and_paste", "key"))
  <2>1. LeavesClient(StopRecording(Client, "finish_and_paste", "key"), Len(sockets))
    BY <1>0, <1>1, ClientIs, StopRecordingLeaves DEF StopActions, CanStop
  <2> QED
    BY <1>0, <1>1, <2>1, HandlerKeeps
<1>2. CASE ClientBecomes(Client)
  BY <1>0, <1>2, HandlerKeeps
<1> QED
  BY <1>1, <1>2 DEF Release

LEMMA FloatingActionKeeps ==
  ASSUME ClientIInv, NEW act \in WindowActions, FloatingAction(act)
  PROVE  ClientIInv'
<1> DEFINE c == [Client EXCEPT !.action = act]
<1>0. /\ LeavesClient(Client, Len(sockets)) /\ Len(sockets) \in Nat /\ act \in StopActions
      /\ UNCHANGED <<sockets, serving, served>> /\ holding' \in Sources
      /\ ClientBecomes(StopRecording(c, act, "window")) /\ CanStop
  BY HotkeyClientAssumption DEF FloatingAction, serviceVars, ClientIInv, StopActions
<1>1. Client \in ClientStates(Len(sockets))
  BY <1>0 DEF LeavesClient
<1>2. /\ c \in ClientStates(Len(sockets)) /\ c.starts = Client.starts /\ c.stops = Client.stops
      /\ c.waiter = Client.waiter
  BY <1>0, <1>1 DEF ClientStates
<1> HIDE DEF c
<1>3. LeavesClient(c, Len(sockets)) /\ Len(c.stops) < NStopCalls
  BY <1>0, <1>2, ClientIs, OthersLeave DEF CanStop
<1>4. LeavesClient(StopRecording(c, act, "window"), Len(sockets))
  BY <1>0, <1>3, StopRecordingLeaves
<1> QED
  BY <1>0, <1>4, HandlerKeeps

\* What is sent to a socket is a message more.
LEMMA MoreMail ==
  ASSUME NEW k \in ClientSocket, NEW m \in SocketMessage,
         NEW open \in {"connecting", "open", "closing"}
  PROVE  /\ [k EXCEPT !.inbox = Append(@, m)] \in ClientSocket
         /\ [k EXCEPT !.open = open, !.inbox = Append(@, m)] \in ClientSocket
         /\ [open |-> open, inbox |-> Append(k.inbox, m)] \in ClientSocket
<1>1. k.inbox \in Seq(SocketMessage)
  BY DEF ClientSocket
<1>2. Append(k.inbox, m) \in Seq(SocketMessage)
  BY <1>1
<1> QED
  BY <1>2 DEF ClientSocket

LEMMA MessageIs ==
  ASSUME NEW kind \in Kinds, NEW s \in Some
  PROVE  Message(kind, s) \in SocketMessage
BY DEF Message, SocketMessage

LEMMA NobodyIsSome == Nobody \in Some /\ HkSessions \subseteq Some
BY HotkeyClientAssumption DEF Some, Nobody, HkSessions

\* Sockets that are changed one by one stay sockets.
LEMMA SocketsStay ==
  ASSUME NEW ks, sockets \in Seq(ClientSocket), ks = [k \in DOMAIN sockets |-> ks[k]],
         \A k \in DOMAIN sockets : ks[k] \in ClientSocket
  PROVE  ks \in Seq(ClientSocket) /\ Len(ks) = Len(sockets)
<1>1. DOMAIN sockets = 1..Len(sockets) /\ Len(sockets) \in Nat
  OBVIOUS
<1>2. ks \in [1..Len(sockets) -> ClientSocket]
  BY <1>1
<1>3. ks \in Seq(ClientSocket)
  BY <1>1, <1>2, SeqDef
<1> QED
  BY <1>1, <1>2, <1>3, LenProperties

LEMMA TellStays ==
  ASSUME sockets \in Seq(ClientSocket), NEW kind \in Kinds, NEW s \in Some
  PROVE  Tell(kind, s) \in Seq(ClientSocket) /\ Len(Tell(kind, s)) = Len(sockets)
<1>1. ASSUME NEW k \in DOMAIN sockets PROVE Tell(kind, s)[k] \in ClientSocket
  <2>1. sockets[k] \in ClientSocket
    OBVIOUS
  <2>2. [sockets[k] EXCEPT !.inbox = Append(@, Message(kind, s))] \in ClientSocket
    BY <2>1, MoreMail, MessageIs
  <2> QED
    BY <2>1, <2>2 DEF Tell
<1>2. Tell(kind, s) = [k \in DOMAIN sockets |-> Tell(kind, s)[k]]
  BY DEF Tell
<1> QED
  BY <1>1, <1>2, SocketsStay

\* One socket is changed.
LEMMA SocketStays ==
  ASSUME sockets \in Seq(ClientSocket), NEW k \in DOMAIN sockets, NEW t \in ClientSocket
  PROVE  [sockets EXCEPT ![k] = t] \in Seq(ClientSocket)
         /\ Len([sockets EXCEPT ![k] = t]) = Len(sockets)
OBVIOUS

\* The calls of the client as the service leaves them.
LEMMA CallsLeave ==
  ASSUME ClientIInv, ClientRests, startCalls' \in Seq(StartCall), stopCalls' \in Seq(StopCall),
         Len(startCalls') = Len(startCalls), Len(stopCalls') = Len(stopCalls),
         \A j \in DOMAIN stopCalls : stopCalls'[j].at = stopCalls[j].at,
         Len(sockets') = Len(sockets)
  PROVE  LeavesClient(Client, Len(sockets))'
<1>1. Len(sockets) \in Nat
  BY DEF ClientIInv
<1>2. Client' \in ClientStates(Len(sockets))
  <2>1. Client \in ClientStates(Len(sockets))
    BY DEF ClientIInv, LeavesClient
  <2> DEFINE n == Len(sockets)
  <2>2. /\ life' \in Lives /\ active' \in Some /\ source' \in Sources /\ restart' \in Sources
        /\ action' \in StopActions \cup {Quiet} /\ candidate' \in Some
        /\ pastedLive' \in BOOLEAN /\ waiter' \in -1..NSessions
        /\ socket' \in 0..n /\ socketOf' \in Some /\ pasted' \in [HkSessions -> Nat]
    BY <1>1, <2>1, ClientFields DEF ClientRests
  <2> HIDE DEF n
  <2>3. Client' \in ClientStates(n)
    BY <2>2 DEF Client, ClientStates
  <2> QED
    BY <2>3 DEF n
<1>3. /\ Client'.starts = startCalls' /\ Client'.stops = stopCalls' /\ Client'.waiter = waiter
      /\ Client.starts = startCalls /\ Client.stops = stopCalls /\ Client.waiter = waiter
  BY DEF Client, ClientRests
<1>4. DOMAIN stopCalls' = DOMAIN stopCalls
  <2>1. stopCalls \in Seq(StopCall)
    BY <1>1, ClientFields DEF ClientIInv, LeavesClient
  <2> QED
    BY <2>1
<1>5. WaitedFor(Client')
  BY <1>3, <1>4 DEF WaitedFor, ClientIInv, LeavesClient
<1>6. Len(startCalls') <= NSessions /\ Len(stopCalls') <= NStopCalls
  BY <1>3 DEF ClientIInv, LeavesClient
<1> QED
  BY <1>2, <1>3, <1>5, <1>6 DEF LeavesClient

LEMMA SocketTellsKeeps ==
  ASSUME ClientIInv, NEW k \in DOMAIN sockets, SocketTells(k)
  PROVE  ClientIInv'
<1> DEFINE n == Len(sockets)
           m == Head(sockets[k].inbox)
<1>0. n \in Nat /\ LeavesClient(Client, n) /\ sockets[k] \in ClientSocket
  BY DEF ClientIInv
<1>1. /\ n \in Nat /\ LeavesClient(Client, n) /\ sockets[k] \in ClientSocket
      /\ sockets[k].inbox \in Seq(SocketMessage) /\ sockets[k].inbox # <<>>
  BY <1>0 DEF SocketTells, ClientSocket
<1>2. m \in SocketMessage /\ Tail(sockets[k].inbox) \in Seq(SocketMessage)
  BY <1>1
<1>3. LeavesClient(Handled(Client, m), n)
  BY <1>1, <1>2, HandledLeaves
<1>4. ClientBecomes(Handled(Client, m)) /\ UNCHANGED <<serving, served, holding>>
  BY DEF SocketTells, ClientKeeps
<1>5. Client' = Handled(Client, m)
  BY <1>1, <1>3, <1>4, ClientIsLeft
<1>6. [sockets[k] EXCEPT !.inbox = Tail(@)] \in ClientSocket
  BY <1>1, <1>2 DEF ClientSocket
<1>7. sockets' = [sockets EXCEPT ![k] = [sockets[k] EXCEPT !.inbox = Tail(@)]]
  BY DEF SocketTells
<1>8. sockets' \in Seq(ClientSocket) /\ Len(sockets') = n
  BY <1>6, <1>7, SocketStays DEF ClientIInv
<1> QED
  BY <1>3, <1>4, <1>5, <1>8 DEF ClientIInv

\* The socket that was is closed, with what it has still to tell.
LEMMA ClosesStay ==
  ASSUME ClientIInv
  PROVE  ClientCloses \in Seq(ClientSocket) /\ Len(ClientCloses) = Len(sockets)
<1>1. /\ sockets \in Seq(ClientSocket) /\ Len(sockets) \in Nat /\ socket \in 0..Len(sockets)
  BY ClientFields DEF ClientIInv, LeavesClient
<1>2. CASE socket = Nobody \/ sockets[socket].open \notin {"connecting", "open"}
  BY <1>1, <1>2 DEF ClientCloses
<1>3. CASE ~(socket = Nobody \/ sockets[socket].open \notin {"connecting", "open"})
  <2> DEFINE t == [sockets[socket] EXCEPT !.open = "closing",
                                          !.inbox = Append(@, Message("closed", Nobody))]
  <2>1. socket \in DOMAIN sockets /\ sockets[socket] \in ClientSocket
    BY <1>1, <1>3 DEF Nobody
  <2>2. Message("closed", Nobody) \in SocketMessage
    BY MessageIs, NobodyIsSome DEF Kinds
  <2>3. t \in ClientSocket
    BY <2>1, <2>2, MoreMail
  <2>4. ClientCloses = [sockets EXCEPT ![socket] = t]
    BY <1>3 DEF ClientCloses
  <2> HIDE DEF t
  <2> QED
    BY <1>1, <2>1, <2>3, <2>4, SocketStays
<1> QED
  BY <1>2, <1>3

LEMMA StartAnsweredKeeps ==
  ASSUME ClientIInv, NEW i \in DOMAIN startCalls, StartAnswered(i)
  PROVE  ClientIInv'
<1> DEFINE n == Len(sockets)
           call == startCalls[i]
           starts == [startCalls EXCEPT ![i] = StartDone]
           c == [Client EXCEPT !.starts[i] = StartDone]
<1>1. /\ n \in Nat /\ Client \in ClientStates(n) /\ WaitedFor(Client)
      /\ startCalls \in Seq(StartCall) /\ call \in StartCall /\ sockets \in Seq(ClientSocket)
      /\ Len(startCalls) <= NSessions /\ Len(stopCalls) <= NStopCalls
  BY ClientIs, ClientFields DEF ClientIInv, LeavesClient
<1>2. StartDone \in StartCall
  BY NobodyIsSome DEF StartDone, StartCall, Sources
<1>3. starts \in Seq(StartCall) /\ Len(starts) = Len(startCalls)
  BY <1>1, <1>2
<1>4. c = [Client EXCEPT !.starts = starts]
  BY ClientIs
<1> HIDE DEF starts
<1>5. /\ c \in ClientStates(n) /\ c.starts = starts /\ c.stops = Client.stops
      /\ c.waiter = Client.waiter
  BY <1>1, <1>3, <1>4 DEF ClientStates
<1> HIDE DEF c
<1>6. LeavesClient(c, n)
  BY <1>1, <1>3, <1>5, ClientIs DEF LeavesClient, WaitedFor
<1>7. serving' = serving /\ served' = served /\ holding' = holding
  BY DEF StartAnswered, ClientKeeps
<1>8. CASE call.got = "ok"
  <2> DEFINE d == [c EXCEPT !.candidate = Nobody, !.pastedLive = FALSE, !.active = call.of,
                            !.life = "starting", !.source = call.source,
                            !.socket = n + 1, !.socketOf = call.of]
  <2>1. ClientBecomes(d) /\ sockets' = Append(ClientCloses, [open |-> "connecting", inbox |-> <<>>])
    BY <1>8 DEF StartAnswered, c
  <2>2. sockets' \in Seq(ClientSocket) /\ Len(sockets') = n + 1
    <3>1. [open |-> "connecting", inbox |-> <<>>] \in ClientSocket
      BY DEF ClientSocket
    <3> QED
      BY <1>1, <2>1, <3>1, ClosesStay
  <2>3. LeavesClient(c, n + 1)
    BY <1>1, <1>6, MoreSockets
  <2>4. /\ call.of \in Some /\ call.source \in Sources /\ Nobody \in Some /\ n + 1 \in 0..(n + 1)
    BY <1>1, NobodyIsSome DEF StartCall
  <2>5. /\ d \in ClientStates(n + 1) /\ d.starts = c.starts /\ d.stops = c.stops
        /\ d.waiter = c.waiter
    BY <2>3, <2>4 DEF ClientStates, LeavesClient, Lives
  <2> HIDE DEF d
  <2>6. LeavesClient(d, n + 1)
    BY <1>1, <2>3, <2>5, OthersLeave
  <2>7. Client' = d
    BY <1>1, <2>1, <2>6, ClientIsLeft
  <2> QED
    BY <1>7, <2>2, <2>6, <2>7 DEF ClientIInv
<1>9. CASE call.got # "ok"
  <2>1. sockets' = sockets /\ ClientBecomes(IF call.by = "key" THEN ToggleFails(c) ELSE c)
    BY <1>9 DEF StartAnswered, c
  <2>2. /\ ToggleFails(c) \in ClientStates(n) /\ ToggleFails(c).starts = c.starts
        /\ ToggleFails(c).stops = c.stops /\ ToggleFails(c).waiter = c.waiter
    BY <1>5 DEF ToggleFails, ClientStates, Lives, Sources
  <2>3. LeavesClient(ToggleFails(c), n)
    BY <1>1, <1>6, <2>2, OthersLeave
  <2>4. LeavesClient(IF call.by = "key" THEN ToggleFails(c) ELSE c, n)
    BY <1>6, <2>3
  <2> QED
    BY <1>1, <1>7, <2>1, <2>4, ClientIsLeft DEF ClientIInv
<1> QED
  BY <1>8, <1>9

LEMMA StopAnsweredKeeps ==
  ASSUME ClientIInv, NEW j \in DOMAIN stopCalls, StopAnswered(j)
  PROVE  ClientIInv'
<1> DEFINE n == Len(sockets)
           call == stopCalls[j]
           stops == [stopCalls EXCEPT ![j] = StopDone]
           c == [Client EXCEPT !.stops[j] = StopDone]
           d == IF call.got = "ok" THEN c
                ELSE [c EXCEPT !.candidate = Nobody, !.pastedLive = FALSE, !.action = Quiet]
           e == IF call.by = "window" THEN [d EXCEPT !.action = Quiet]
                ELSE IF call.got = "ok" THEN d ELSE ToggleFails(d)
<1>1. /\ n \in Nat /\ Client \in ClientStates(n) /\ WaitedFor(Client)
      /\ stopCalls \in Seq(StopCall)
      /\ Len(startCalls) <= NSessions /\ Len(stopCalls) <= NStopCalls
  BY ClientIs, ClientFields DEF ClientIInv, LeavesClient
<1>2. StopDone \in StopCall
  BY NobodyIsSome DEF StopDone, StopCall, StopActions
<1>3. stops \in Seq(StopCall) /\ Len(stops) = Len(stopCalls)
  BY <1>1, <1>2
<1>4. \A i \in DOMAIN stops : stops[i].at = "ack" => i \in DOMAIN stopCalls /\ stopCalls[i].at = "ack"
  BY DEF StopDone
<1>5. c = [Client EXCEPT !.stops = stops]
  BY ClientIs
<1> HIDE DEF stops
<1>6. /\ c \in ClientStates(n) /\ c.stops = stops /\ c.starts = Client.starts
      /\ c.waiter = Client.waiter
  BY <1>1, <1>3, <1>5 DEF ClientStates
<1> HIDE DEF c
<1>7. LeavesClient(c, n)
  BY <1>1, <1>3, <1>4, <1>6, ClientIs DEF LeavesClient, WaitedFor
<1>8. d \in ClientStates(n) /\ d.stops = c.stops /\ d.starts = c.starts /\ d.waiter = c.waiter
  <2>1. Nobody \in Some
    BY NobodyIsSome
  <2> QED
    BY <1>6, <2>1 DEF ClientStates
<1> HIDE DEF d
<1>9. e \in ClientStates(n) /\ e.stops = c.stops /\ e.starts = c.starts /\ e.waiter = c.waiter
  BY <1>8 DEF ClientStates, ToggleFails, Lives, Sources
<1>10. ClientBecomes(e) /\ UNCHANGED <<sockets, serving, served, holding>>
  BY DEF StopAnswered, ClientKeeps, serviceVars, c, d
<1> HIDE DEF e
<1>11. LeavesClient(e, n)
  BY <1>1, <1>7, <1>9, OthersLeave
<1> QED
  BY <1>1, <1>10, <1>11, ClientIsLeft DEF ClientIInv

\* What the service and the network leave alone.
LEMMA ServiceKeeps ==
  ASSUME ClientIInv, ClientRests, startCalls' \in Seq(StartCall), stopCalls' \in Seq(StopCall),
         Len(startCalls') = Len(startCalls), Len(stopCalls') = Len(stopCalls),
         \A j \in DOMAIN stopCalls : stopCalls'[j].at = stopCalls[j].at,
         sockets' \in Seq(ClientSocket), Len(sockets') = Len(sockets),
         serving' \in Some, served' \in [HkSessions -> Served1]
  PROVE  ClientIInv'
<1>1. holding' \in Sources
  BY DEF ClientIInv, ClientRests
<1> QED
  BY <1>1, CallsLeave DEF ClientIInv

LEMMA CallsAre ==
  ClientIInv => /\ startCalls \in Seq(StartCall) /\ stopCalls \in Seq(StopCall)
                /\ sockets \in Seq(ClientSocket) /\ Len(sockets) \in Nat
                /\ serving \in Some /\ served \in [HkSessions -> Served1]
<1> SUFFICES ASSUME ClientIInv
             PROVE  /\ startCalls \in Seq(StartCall) /\ stopCalls \in Seq(StopCall)
                    /\ Len(sockets) \in Nat
  BY DEF ClientIInv
<1>1. Len(sockets) \in Nat
  BY DEF ClientIInv
<1> QED
  BY <1>1, ClientFields DEF ClientIInv, LeavesClient

\* What begins the end of a session.
LEMMA BeginsEnd ==
  ASSUME ClientIInv, HkRecording, NEW cancel \in BOOLEAN, ServiceBeginsEnd(cancel)
  PROVE  /\ served' \in [HkSessions -> Served1]
         /\ sockets' \in Seq(ClientSocket) /\ Len(sockets') = Len(sockets)
<1>1. serving \in HkSessions /\ served \in [HkSessions -> Served1] /\ serving \in Some
  BY CallsAre, HotkeyClientAssumption DEF HkRecording, HkSessions, Some, Nobody
<1>2. OpenSockets \subseteq Nat
  <2>1. DOMAIN sockets = 1..Len(sockets) /\ Len(sockets) \in Nat
    BY CallsAre
  <2> QED
    BY <2>1 DEF OpenSockets
<1>3. [served[serving] EXCEPT !.at = "ending", !.discards = cancel, !.closes = OpenSockets] \in Served1
  <2>1. served[serving] \in Served1
    BY <1>1
  <2> HIDE DEF OpenSockets
  <2> QED
    BY <1>2, <2>1 DEF Served1
<1>4. served' = [served EXCEPT ![serving] =
                   [served[serving] EXCEPT !.at = "ending", !.discards = cancel,
                                           !.closes = OpenSockets]]
  BY DEF ServiceBeginsEnd
<1>5. served' \in [HkSessions -> Served1]
  BY <1>1, <1>3, <1>4
<1>6. sockets' = Tell("ack", serving)
  BY DEF ServiceBeginsEnd
<1> QED
  BY <1>1, <1>5, <1>6, TellStays, CallsAre DEF Kinds

LEMMA ServiceStartsKeeps ==
  ASSUME ClientIInv, NEW i \in DOMAIN startCalls, ServiceStarts(i)
  PROVE  ClientIInv'
<1>0. ClientRests /\ stopCalls' = stopCalls
  BY DEF ServiceStarts
<1>1. /\ ClientRests /\ stopCalls' = stopCalls /\ startCalls \in Seq(StartCall)
      /\ startCalls[i] \in StartCall /\ stopCalls \in Seq(StopCall)
      /\ sockets \in Seq(ClientSocket) /\ serving \in Some /\ served \in [HkSessions -> Served1]
  BY <1>0, CallsAre, ElementOfSeq
<1>2. ASSUME NEW s \in HkSessions, served' = [served EXCEPT ![s].at = "recording"], serving' = s,
             sockets' = Tell("started", s),
             startCalls' = [startCalls EXCEPT ![i].got = "ok", ![i].of = s]
      PROVE  ClientIInv'
  <2>1. s \in Some
    BY NobodyIsSome
  <2>2. [served[s] EXCEPT !.at = "recording"] \in Served1
    <3>1. served[s] \in Served1
      BY <1>1
    <3> QED
      BY <3>1 DEF Served1
  <2>3. served' \in [HkSessions -> Served1]
    BY <1>1, <1>2, <2>2
  <2>4. [startCalls[i] EXCEPT !.got = "ok", !.of = s] \in StartCall
    BY <1>1, <2>1 DEF StartCall
  <2>5. startCalls' = [startCalls EXCEPT ![i] = [startCalls[i] EXCEPT !.got = "ok", !.of = s]]
    BY <1>1, <1>2
  <2>6. startCalls' \in Seq(StartCall) /\ Len(startCalls') = Len(startCalls)
    BY <1>1, <2>4, <2>5
  <2>7. sockets' \in Seq(ClientSocket) /\ Len(sockets') = Len(sockets)
    BY <1>1, <1>2, <2>1, TellStays DEF Kinds
  <2> QED
    BY <1>1, <1>2, <2>1, <2>3, <2>6, <2>7, ServiceKeeps
<1>3. CASE /\ sockets' = Tell("error", Nobody) /\ UNCHANGED <<serving, served>>
           /\ startCalls' = [startCalls EXCEPT ![i].got = "failed"]
  <2>1. [startCalls[i] EXCEPT !.got = "failed"] \in StartCall
    BY <1>1 DEF StartCall
  <2>2. startCalls' \in Seq(StartCall) /\ Len(startCalls') = Len(startCalls)
    BY <1>1, <1>3, <2>1
  <2>3. sockets' \in Seq(ClientSocket) /\ Len(sockets') = Len(sockets)
    BY <1>1, <1>3, NobodyIsSome, TellStays DEF Kinds
  <2> QED
    BY <1>1, <1>3, <2>2, <2>3, ServiceKeeps
<1>4. CASE HkRecording /\ ServiceBeginsEnd(FALSE) /\ UNCHANGED <<serving, startCalls>>
  <2>1. /\ served' \in [HkSessions -> Served1]
        /\ sockets' \in Seq(ClientSocket) /\ Len(sockets') = Len(sockets)
    BY <1>4, BeginsEnd
  <2> QED
    BY <1>1, <1>4, <2>1, ServiceKeeps
<1> QED
  BY <1>2, <1>3, <1>4 DEF ServiceStarts

\* A stop call that is told something stays where it is.
LEMMA CallTold ==
  ASSUME stopCalls \in Seq(StopCall), NEW j \in DOMAIN stopCalls, NEW t \in StopCall,
         t.at = stopCalls[j].at, stopCalls' = [stopCalls EXCEPT ![j] = t]
  PROVE  /\ stopCalls' \in Seq(StopCall) /\ Len(stopCalls') = Len(stopCalls)
         /\ \A i \in DOMAIN stopCalls : stopCalls'[i].at = stopCalls[i].at
OBVIOUS

LEMMA ServiceStopsKeeps ==
  ASSUME ClientIInv, NEW j \in DOMAIN stopCalls, ServiceStops(j)
  PROVE  ClientIInv'
<1>1. /\ ClientRests /\ startCalls' = startCalls /\ serving' = serving
      /\ startCalls \in Seq(StartCall) /\ stopCalls[j] \in StopCall /\ stopCalls \in Seq(StopCall)
      /\ sockets \in Seq(ClientSocket) /\ serving \in Some /\ served \in [HkSessions -> Served1]
  BY CallsAre DEF ServiceStops
<1>2. /\ [stopCalls[j] EXCEPT !.got = "ok"] \in StopCall
      /\ [stopCalls[j] EXCEPT !.got = "ok"].at = stopCalls[j].at
      /\ [stopCalls[j] EXCEPT !.until = serving] \in StopCall
      /\ [stopCalls[j] EXCEPT !.until = serving].at = stopCalls[j].at
  BY <1>1 DEF StopCall
<1>3. \/ stopCalls' = [stopCalls EXCEPT ![j] = [stopCalls[j] EXCEPT !.got = "ok"]]
      \/ stopCalls' = [stopCalls EXCEPT ![j] = [stopCalls[j] EXCEPT !.until = serving]]
  BY <1>1 DEF ServiceStops
<1>4. /\ stopCalls' \in Seq(StopCall) /\ Len(stopCalls') = Len(stopCalls)
      /\ \A i \in DOMAIN stopCalls : stopCalls'[i].at = stopCalls[i].at
  BY <1>1, <1>2, <1>3, CallTold
<1>5. /\ served' \in [HkSessions -> Served1]
      /\ sockets' \in Seq(ClientSocket) /\ Len(sockets') = Len(sockets)
  <2>1. CASE UNCHANGED <<served, sockets>>
    BY <1>1, <2>1
  <2>2. CASE HkRecording /\ ServiceBeginsEnd(stopCalls[j].act = "cancel")
    <3>1. (stopCalls[j].act = "cancel") \in BOOLEAN
      OBVIOUS
    <3> QED
      BY <2>2, <3>1, BeginsEnd
  <2> QED
    BY <2>1, <2>2 DEF ServiceStops
<1> QED
  BY <1>1, <1>4, <1>5, ServiceKeeps

LEMMA SessionGoesOnKeeps ==
  ASSUME ClientIInv, NEW s \in HkSessions, ServiceCommits(s) \/ ServiceEnds(s)
  PROVE  ClientIInv'
<1>1. /\ ClientRests /\ startCalls' = startCalls /\ stopCalls' = stopCalls /\ serving' = serving
      /\ startCalls \in Seq(StartCall) /\ stopCalls \in Seq(StopCall) /\ served[s] \in Served1
      /\ sockets \in Seq(ClientSocket) /\ serving \in Some /\ served \in [HkSessions -> Served1]
  BY CallsAre DEF ServiceCommits, ServiceEnds
<1>2. \/ served' = [served EXCEPT ![s] = [served[s] EXCEPT !.spoke = TRUE]]
      \/ served' = [served EXCEPT ![s] = [served[s] EXCEPT !.at = "ended"]]
  BY <1>1 DEF ServiceCommits, ServiceEnds
<1>3. /\ [served[s] EXCEPT !.spoke = TRUE] \in Served1
      /\ [served[s] EXCEPT !.at = "ended"] \in Served1
  BY <1>1 DEF Served1
<1>4. served' \in [HkSessions -> Served1]
  BY <1>1, <1>2, <1>3
<1>5. \E kind \in Kinds : sockets' = Tell(kind, s)
  BY DEF ServiceCommits, ServiceEnds, Kinds
<1>6. sockets' \in Seq(ClientSocket) /\ Len(sockets') = Len(sockets)
  BY <1>1, <1>5, NobodyIsSome, TellStays
<1> QED
  BY <1>1, <1>4, <1>6, ServiceKeeps

LEMMA ServiceRestsKeeps ==
  ASSUME ClientIInv, NEW s \in HkSessions, ServiceRests(s)
  PROVE  ClientIInv'
<1>1. /\ ClientRests /\ startCalls' = startCalls /\ Nobody \in Some
      /\ startCalls \in Seq(StartCall) /\ stopCalls \in Seq(StopCall)
      /\ sockets \in Seq(ClientSocket) /\ serving \in Some /\ served \in [HkSessions -> Served1]
  BY CallsAre, NobodyIsSome DEF ServiceRests
<1>2. Session("over") \in Served1 /\ served' = [served EXCEPT ![s] = Session("over")]
  BY DEF ServiceRests, Session, Served1
<1>3. serving' \in Some /\ served' \in [HkSessions -> Served1]
  BY <1>1, <1>2 DEF ServiceRests
<1>4. sockets' \in Seq(ClientSocket) /\ Len(sockets') = Len(sockets)
  <2> DEFINE ks == [k \in DOMAIN sockets |->
                     IF k \in OpenSockets \cap served[s].closes
                     THEN [open |-> "closing",
                           inbox |-> Append(Tell("idle", Nobody)[k].inbox,
                                            Message("closed", Nobody))]
                     ELSE Tell("idle", Nobody)[k]]
  <2>1. sockets' = ks
    BY DEF ServiceRests
  <2>2. Tell("idle", Nobody) \in Seq(ClientSocket) /\ Len(Tell("idle", Nobody)) = Len(sockets)
    BY <1>1, TellStays DEF Kinds
  <2>3. Message("closed", Nobody) \in SocketMessage
    BY <1>1, MessageIs DEF Kinds
  <2>4. ASSUME NEW k \in DOMAIN sockets PROVE ks[k] \in ClientSocket
    <3>1. Tell("idle", Nobody)[k] \in ClientSocket
      BY <1>1, <2>2
    <3>2. [open |-> "closing", inbox |-> Append(Tell("idle", Nobody)[k].inbox,
                                                Message("closed", Nobody))] \in ClientSocket
      BY <2>3, <3>1, MoreMail
    <3> QED
      BY <3>1, <3>2
  <2>5. ks = [k \in DOMAIN sockets |-> ks[k]]
    OBVIOUS
  <2> HIDE DEF ks
  <2> QED
    BY <1>1, <2>1, <2>4, <2>5, SocketsStay
<1>5. /\ stopCalls' \in Seq(StopCall) /\ Len(stopCalls') = Len(stopCalls)
      /\ \A i \in DOMAIN stopCalls : stopCalls'[i].at = stopCalls[i].at
  <2>1. stopCalls' = [j \in DOMAIN stopCalls |->
                        IF stopCalls[j].until = s THEN [stopCalls[j] EXCEPT !.got = "ok"]
                        ELSE stopCalls[j]]
    BY DEF ServiceRests
  <2>2. ASSUME NEW j \in DOMAIN stopCalls
        PROVE  stopCalls'[j] \in StopCall /\ stopCalls'[j].at = stopCalls[j].at
    <3>1. stopCalls[j] \in StopCall
      BY <1>1
    <3>2. /\ [stopCalls[j] EXCEPT !.got = "ok"] \in StopCall
          /\ [stopCalls[j] EXCEPT !.got = "ok"].at = stopCalls[j].at
      BY <3>1 DEF StopCall
    <3> QED
      BY <2>1, <3>1, <3>2
  <2>3. DOMAIN stopCalls = 1..Len(stopCalls) /\ Len(stopCalls) \in Nat
    BY <1>1
  <2>4. stopCalls' \in [1..Len(stopCalls) -> StopCall]
    <3>1. stopCalls' = [j \in 1..Len(stopCalls) |-> stopCalls'[j]]
      BY <2>1, <2>3
    <3> QED
      BY <2>2, <2>3, <3>1
  <2>5. stopCalls' \in Seq(StopCall)
    BY <2>3, <2>4, SeqDef
  <2> QED
    BY <2>2, <2>3, <2>4, <2>5, LenProperties
<1> QED
  BY <1>1, <1>3, <1>4, <1>5, ServiceKeeps

LEMMA SocketChangesKeeps ==
  ASSUME ClientIInv, NEW k \in DOMAIN sockets, SocketOpens(k) \/ SocketFails(k)
  PROVE  ClientIInv'
<1>1. /\ ClientRests /\ startCalls' = startCalls /\ stopCalls' = stopCalls /\ serving' = serving
      /\ startCalls \in Seq(StartCall) /\ stopCalls \in Seq(StopCall) /\ Nobody \in Some
      /\ sockets \in Seq(ClientSocket) /\ serving \in Some /\ served \in [HkSessions -> Served1]
      /\ served' = served
  BY CallsAre, NobodyIsSome DEF SocketOpens, SocketFails
<1>2. ASSUME NEW m \in SocketMessage PROVE <<m>> \in Seq(SocketMessage)
  OBVIOUS
<1>3. \E t \in ClientSocket : sockets' = [sockets EXCEPT ![k] = t]
  <2>1. CASE SocketOpens(k)
    <3> DEFINE m == IF serving = Nobody THEN Message("idle", Nobody)
                    ELSE Message(IF HkRecording THEN "started" ELSE "stopping", serving)
    <3>1. sockets' = [sockets EXCEPT ![k] = [open |-> "open", inbox |-> <<m>>]]
      BY <2>1 DEF SocketOpens
    <3>2. m \in SocketMessage
      BY <1>1, MessageIs DEF Kinds
    <3> HIDE DEF m
    <3>3. [open |-> "open", inbox |-> <<m>>] \in ClientSocket
      BY <1>2, <3>2 DEF ClientSocket
    <3> QED
      BY <3>1, <3>3
  <2>2. CASE SocketFails(k)
    <3> DEFINE mail == IF sockets[k].open = "open" THEN <<Message("lost", Nobody)>> ELSE <<>>
    <3>1. sockets' = [sockets EXCEPT ![k] = [open |-> "closing", inbox |-> mail]]
      BY <2>2 DEF SocketFails
    <3>2. Message("lost", Nobody) \in SocketMessage
      BY <1>1, MessageIs DEF Kinds
    <3>3. mail \in Seq(SocketMessage)
      BY <1>2, <3>2
    <3> HIDE DEF mail
    <3>4. [open |-> "closing", inbox |-> mail] \in ClientSocket
      BY <3>3 DEF ClientSocket
    <3> QED
      BY <3>1, <3>4
  <2> QED
    BY <2>1, <2>2
<1>4. sockets' \in Seq(ClientSocket) /\ Len(sockets') = Len(sockets)
  BY <1>1, <1>3, SocketStays
<1> QED
  BY <1>1, <1>4, ServiceKeeps

LEMMA ClientStepKeeps ==
  ASSUME ClientIInv, [HotkeyClientNext]_clientVars
  PROVE  ClientIInv'
<1>1. ASSUME NEW src \in CaptureSources, Press(src) PROVE ClientIInv'
  BY <1>1, PressKeeps
<1>2. CASE Release
  BY <1>2, ReleaseKeeps
<1>3. ASSUME NEW act \in WindowActions, FloatingAction(act) PROVE ClientIInv'
  BY <1>3, FloatingActionKeeps
<1>4. CASE ServiceStep
  <2>1. ASSUME NEW i \in DOMAIN startCalls, ServiceStarts(i) PROVE ClientIInv'
    BY <2>1, ServiceStartsKeeps
  <2>2. ASSUME NEW j \in DOMAIN stopCalls, ServiceStops(j) PROVE ClientIInv'
    BY <2>2, ServiceStopsKeeps
  <2>3. ASSUME NEW s \in HkSessions, ServiceEnds(s) PROVE ClientIInv'
    BY <2>3, SessionGoesOnKeeps
  <2>4. ASSUME NEW s \in HkSessions, ServiceRests(s) PROVE ClientIInv'
    BY <2>4, ServiceRestsKeeps
  <2> QED
    BY <1>4, <2>1, <2>2, <2>3, <2>4 DEF ServiceStep
<1>5. ASSUME NEW s \in HkSessions, ServiceCommits(s) PROVE ClientIInv'
  BY <1>5, SessionGoesOnKeeps
<1>6. CASE AnswersArrive
  <2>1. ASSUME NEW i \in DOMAIN startCalls, StartAnswered(i) PROVE ClientIInv'
    BY <2>1, StartAnsweredKeeps
  <2>2. ASSUME NEW j \in DOMAIN stopCalls, StopAnswered(j) PROVE ClientIInv'
    BY <2>2, StopAnsweredKeeps
  <2> QED
    BY <1>6, <2>1, <2>2 DEF AnswersArrive
<1>7. ASSUME NEW k \in DOMAIN sockets, SocketTells(k) PROVE ClientIInv'
  BY <1>7, SocketTellsKeeps
<1>8. ASSUME NEW k \in DOMAIN sockets, SocketOpens(k) \/ SocketFails(k) PROVE ClientIInv'
  BY <1>8, SocketChangesKeeps
<1>9. CASE UNCHANGED clientVars
  BY <1>9 DEF clientVars, serviceVars, ClientIInv, Client
<1> QED
  BY <1>1, <1>2, <1>3, <1>4, <1>5, <1>6, <1>7, <1>8, <1>9 DEF HotkeyClientNext

\* In every behaviour what the handlers of the hot keys, of the answers and of the sockets
\* share keeps its types, and a call of stopRecording() that waits for its acknowledgement has
\* a waiter that is still there to be resolved (hotkeyHandlers.js:180).
THEOREM WhoeverWaitsIsWaitedFor == HotkeyClientSpec => []HotkeyClientTypeOK
<1>1. ClientIInv /\ [HotkeyClientNext]_clientVars => ClientIInv'
  BY ClientStepKeeps
<1> QED
  BY ClientInitInv, ClientTypesFollow, <1>1, PTL DEF HotkeyClientSpec

-----------------------------------------------------------------------------
(* HotkeyClient: a text is pasted once, a cancelled one never. *)

\* Neither calls nor sessions nor sockets overlapped.
Normal == ~doubled /\ ~overlapped

Serves(s) == served[s].at \in {"recording", "ending", "ended"}

OneByOne == ~jammed /\ \A s \in HkSessions : Serves(s) <=> serving = s

\* Only what tells of no session has no session.
WellSent == \A k \in DOMAIN sockets : \A p \in DOMAIN sockets[k].inbox :
              sockets[k].inbox[p].of = Nobody
                <=> sockets[k].inbox[p].kind \in {"closed", "lost", "error", "idle"}

\* Every start that was answered was answered with a session of its own.
StartsFit ==
  /\ \A i \in DOMAIN startCalls : startCalls[i].got = "ok" =>
       startCalls[i].of \in HkSessions /\ served[startCalls[i].of].at # "none"
  /\ \A i, j \in DOMAIN startCalls :
       startCalls[i].got = "ok" /\ startCalls[j].got = "ok" /\ i # j
         => startCalls[i].of # startCalls[j].of

ServedInv == WellSent /\ StartsFit /\ OneByOne /\ cancelled \subseteq HkSessions

\* Where in a session its socket tells a message: the results of a session come in this order.
Rank(m, s) == IF m.of # s THEN 5
              ELSE IF m.kind = "started" THEN 1
              ELSE IF m.kind = "commit" THEN 2
              ELSE IF m.kind \in {"ack", "stopping"} THEN 3
              ELSE IF m.kind \in {"stopped", "discarded"} THEN 4 ELSE 5

\* The current socket: its session, how far that is, and what is on its way.
Line == [of |-> socketOf, at |-> served[socketOf].at, open |-> sockets[socket].open,
         mail |-> sockets[socket].inbox]

Ranked(l, p) == Rank(l.mail[p], l.of)

\* The result of the session is still to come.
Due(l) == \/ l.at \in {"recording", "ending"} /\ l.open \in {"connecting", "open"}
          \/ \E p \in DOMAIN l.mail : Ranked(l, p) = 4

\* The messages come in the session's order, and none comes early or late.
InOrder(l) ==
  \A p, q \in DOMAIN l.mail : p < q =>
    Ranked(l, p) <= Ranked(l, q) /\ (Ranked(l, p) \in {1, 4} => Ranked(l, p) # Ranked(l, q))

InTime(l) ==
  \A p \in DOMAIN l.mail :
    /\ l.open # "connecting"
    /\ Ranked(l, p) \in {3, 4} => l.at # "recording"
    /\ Ranked(l, p) = 4 => l.at \in {"ended", "over"}
    /\ Ranked(l, p) <= 2 => Due(l)
    /\ l.open = "open" /\ l.at = "recording" => Ranked(l, p) <= 2
    /\ l.open = "open" /\ l.at = "ending" => Ranked(l, p) <= 3

\* A client that waits, for an answer to its start or for the end of its stops.
IsStarting(c) == \E i \in DOMAIN c.starts : c.starts[i].got # "done"
Waits(c) == \E j \in DOMAIN c.stops : c.stops[j].at = "ack"
PasteWaits(c) == \E j \in DOMAIN c.stops : c.stops[j].at = "ack" /\ c.stops[j].act = "finish_and_paste"

\* One start and one stop at a time.
OneCall(c) ==
  /\ \A i, j \in DOMAIN c.starts :
       c.starts[i].got # "done" /\ c.starts[j].got # "done" => i = j
  /\ \A i, j \in DOMAIN c.stops : c.stops[i].at = "ack" /\ c.stops[j].at = "ack" => i = j

\* What was pasted, and what may still be; X are the cancelled sessions.
PasteFits(c, X) ==
  /\ \A s \in HkSessions : c.pasted[s] <= 1
  /\ \A s \in X : c.pasted[s] = 0
  /\ OneCall(c)
  /\ IsStarting(c) => c.candidate = Nobody
  /\ c.candidate # Nobody /\ c.pasted[c.candidate] > 0 => c.life = "stopping" /\ ~Waits(c)
  /\ c.candidate \in X => c.life = "stopping" /\ ~PasteWaits(c)
  /\ c.socket = Nobody => c.socketOf = Nobody /\ c.life # "recording"

\* The client and its current socket.
Follows(c, l) ==
  /\ c.socketOf = l.of /\ l.of \in HkSessions /\ l.at # "none"
  /\ c.active \in {Nobody, l.of} /\ c.candidate \in {Nobody, l.of}

OpensFirst(c, l, X) ==
  l.open = "connecting" => /\ c.candidate = Nobody /\ c.pasted[l.of] = 0 /\ l.of \notin X
                           /\ c.life # "recording"

AwaitsResult(c, l) ==
  Due(l) => ~IsStarting(c) /\ c.life \in {"starting", "recording", "stopping"}

OnlyCloses(l) ==
  l.open = "closing" /\ \A p \in DOMAIN l.mail : l.mail[p].kind \in {"closed", "lost"}

PastedBefore(c, l) ==
  c.pasted[l.of] > 0 => /\ l.at # "recording" /\ (Due(l) => c.pastedLive)
                        /\ \A p \in DOMAIN l.mail : Ranked(l, p) > 2

HearsStart(c, l) ==
  c.life = "recording" => /\ c.active = l.of /\ c.pasted[l.of] = 0
                          /\ \A p \in DOMAIN l.mail : Ranked(l, p) # 1

HoldsCancelled(c, l, X) ==
  l.of \in X /\ Due(l) => /\ c.life = "stopping" /\ c.action # "finish_and_paste"
                          /\ ~PasteWaits(c)
                          /\ \A p \in DOMAIN l.mail : Ranked(l, p) # 1

LineFits(c, l, X) ==
  /\ Follows(c, l) /\ InOrder(l) /\ InTime(l) /\ OpensFirst(c, l, X) /\ AwaitsResult(c, l)
  /\ c.candidate # Nobody => Due(l) \/ OnlyCloses(l)
  /\ PastedBefore(c, l) /\ HearsStart(c, l) /\ HoldsCancelled(c, l, X)

\* Of a session that has not begun, or that the client was not told of, it knows nothing.
Unheard(c, s, X) ==
  c.active # s /\ c.socketOf # s /\ c.candidate # s /\ c.pasted[s] = 0 /\ s \notin X

NewsFits ==
  /\ \A s \in HkSessions : served[s].at = "none" => Unheard(Client, s, cancelled)
  /\ \A i \in DOMAIN startCalls :
       startCalls[i].got = "ok" => Unheard(Client, startCalls[i].of, cancelled)

PasteIInv ==
  Normal => /\ PasteFits(Client, cancelled) /\ NewsFits
            /\ socket # Nobody => LineFits(Client, Line, cancelled)

-----------------------------------------------------------------------------

Lines == [of : HkSessions, at : {"none", "recording", "ending", "ended", "over"},
          open : {"connecting", "open", "closing"}, mail : Seq(SocketMessage)]

LEMMA SomeIs == Some = HkSessions \cup {Nobody} /\ Nobody \notin HkSessions
BY HotkeyClientAssumption DEF Some, HkSessions, Nobody

\* What the calls that go on do to the client.
LEMMA GoesOnIs ==
  ASSUME NEW n \in Nat, NEW c \in ClientStates(n), NEW d, d = GoesOn(c)
  PROVE  /\ d.life = c.life /\ d.active = c.active /\ d.action = c.action
         /\ d.candidate = c.candidate /\ d.starts = c.starts /\ d.socket = c.socket
         /\ d.socketOf = c.socketOf /\ d.waiter = c.waiter /\ d.restart = c.restart
         /\ ~Waits(d) /\ ~PasteWaits(d)
         /\ \A s \in HkSessions : s # c.candidate => d.pasted[s] = c.pasted[s]
         /\ c.candidate = Nobody \/ ~PasteWaits(c) =>
              d.pasted = c.pasted /\ d.pastedLive = c.pastedLive
         /\ c.candidate # Nobody /\ PasteWaits(c) /\ OneCall(c) =>
              d.pasted[c.candidate] = c.pasted[c.candidate] + 1 /\ d.pastedLive
<1> DEFINE waiting == {j \in DOMAIN c.stops : c.stops[j].at = "ack"}
           pastes == IF c.candidate = Nobody THEN {}
                     ELSE {j \in waiting : c.stops[j].act = "finish_and_paste"}
           stops == [j \in DOMAIN c.stops |-> IF j \in waiting
                                              THEN [c.stops[j] EXCEPT !.at = "answer"]
                                              ELSE c.stops[j]]
           live == c.pastedLive \/ pastes # {}
           pastedThen == [s \in HkSessions |-> IF s = c.candidate
                                         THEN c.pasted[s] + Cardinality(pastes) ELSE c.pasted[s]]
<1>0. d = [c EXCEPT !.stops = stops, !.pastedLive = live, !.pasted = pastedThen]
  BY DEF GoesOn
<1>1. /\ c.stops \in Seq(StopCall) /\ c.pasted \in [HkSessions -> Nat] /\ c.pastedLive \in BOOLEAN
      /\ c.candidate \in Some
  BY DEF ClientStates
<1>2. \A j \in DOMAIN stops : stops[j].at # "ack"
  <2> SUFFICES ASSUME NEW j \in DOMAIN stops PROVE stops[j].at # "ack"
    OBVIOUS
  <2>1. j \in DOMAIN c.stops /\ c.stops[j] \in StopCall
    BY <1>1
  <2>2. CASE j \in waiting
    <3>1. stops[j] = [c.stops[j] EXCEPT !.at = "answer"]
      BY <2>1, <2>2
    <3>2. [c.stops[j] EXCEPT !.at = "answer"].at = "answer"
      BY <2>1 DEF StopCall
    <3> QED
      BY <3>1, <3>2
  <2>3. CASE j \notin waiting
    BY <2>1, <2>3
  <2> QED
    BY <2>2, <2>3
<1>3. pastes = {} => pastedThen = c.pasted /\ live = c.pastedLive
  <2> SUFFICES ASSUME pastes = {} PROVE pastedThen = c.pasted /\ live = c.pastedLive
    OBVIOUS
  <2>1. Cardinality(pastes) = 0
    BY FS_EmptySet
  <2>2. live = c.pastedLive
    BY <1>1
  <2>3. \A s \in HkSessions : pastedThen[s] = c.pasted[s]
    BY <1>1, <2>1
  <2>4. pastedThen = c.pasted
    BY <1>1, <2>3
  <2> QED
    BY <2>2, <2>4
<1>4. c.candidate = Nobody \/ ~PasteWaits(c) => pastes = {}
  BY DEF PasteWaits
<1>5. ASSUME c.candidate # Nobody, PasteWaits(c), OneCall(c)
      PROVE  pastedThen[c.candidate] = c.pasted[c.candidate] + 1 /\ live
  <2>1. PICK j \in DOMAIN c.stops : c.stops[j].at = "ack" /\ c.stops[j].act = "finish_and_paste"
    BY <1>5 DEF PasteWaits
  <2>2. \A i \in DOMAIN c.stops : c.stops[i].at = "ack" => i = j
    BY <1>5, <2>1 DEF OneCall
  <2>3. pastes = {j}
    BY <1>5, <2>1, <2>2
  <2>4. Cardinality(pastes) = 1
    BY <2>3, FS_Singleton
  <2>5. c.candidate \in HkSessions
    BY <1>1, <1>5, SomeIs
  <2> QED
    BY <2>3, <2>4, <2>5
<1>6. \A s \in HkSessions : s # c.candidate => pastedThen[s] = c.pasted[s]
  OBVIOUS
<1> HIDE DEF waiting, pastes, stops, live, pastedThen
<1>7. /\ d.life = c.life /\ d.active = c.active /\ d.action = c.action
      /\ d.candidate = c.candidate /\ d.starts = c.starts /\ d.socket = c.socket
      /\ d.socketOf = c.socketOf /\ d.waiter = c.waiter /\ d.restart = c.restart
      /\ d.stops = stops /\ d.pastedLive = live /\ d.pasted = pastedThen
  BY <1>0 DEF ClientStates
<1> QED
  BY <1>2, <1>3, <1>4, <1>5, <1>6, <1>7 DEF Waits, PasteWaits

\* The calls that go on paste the candidate that was not pasted yet, and only once.
LEMMA GoesOnFits ==
  ASSUME NEW n \in Nat, NEW c \in ClientStates(n), NEW X \in SUBSET HkSessions, PasteFits(c, X),
         c.candidate # Nobody => c.life = "stopping"
  PROVE  PasteFits(GoesOn(c), X)
<1> DEFINE d == GoesOn(c)
<1>1. /\ d.life = c.life /\ d.candidate = c.candidate /\ d.starts = c.starts
      /\ d.socket = c.socket /\ d.socketOf = c.socketOf
      /\ ~Waits(d) /\ ~PasteWaits(d)
      /\ \A s \in HkSessions : s # c.candidate => d.pasted[s] = c.pasted[s]
      /\ c.candidate = Nobody \/ ~PasteWaits(c) => d.pasted = c.pasted
      /\ c.candidate # Nobody /\ PasteWaits(c) =>
           d.pasted[c.candidate] = c.pasted[c.candidate] + 1
  BY GoesOnIs DEF PasteFits
<1> HIDE DEF d
<1>2. c.candidate \in Some /\ c.pasted \in [HkSessions -> Nat]
  BY DEF ClientStates
<1>3. PasteWaits(c) => Waits(c)
  BY DEF PasteWaits, Waits
<1>4. c.candidate # Nobody /\ PasteWaits(c) => c.pasted[c.candidate] = 0 /\ c.candidate \notin X
  <2>1. c.candidate # Nobody => c.candidate \in HkSessions /\ c.pasted[c.candidate] \in Nat
    BY <1>2, SomeIs
  <2> QED
    BY <1>3, <2>1 DEF PasteFits
<1>5. \A s \in HkSessions : d.pasted[s] <= 1
  <2> SUFFICES ASSUME NEW s \in HkSessions PROVE d.pasted[s] <= 1
    OBVIOUS
  <2>1. c.pasted[s] <= 1
    BY DEF PasteFits
  <2> QED
    BY <1>1, <1>4, <2>1
<1>6. \A s \in X : d.pasted[s] = 0
  <2> SUFFICES ASSUME NEW s \in X PROVE d.pasted[s] = 0
    OBVIOUS
  <2>1. c.pasted[s] = 0 /\ s \in HkSessions
    BY DEF PasteFits
  <2> QED
    BY <1>1, <1>4, <2>1
<1>7. OneCall(d)
  BY <1>1 DEF OneCall, Waits, PasteFits
<1>8. PasteFits(d, X)
  BY <1>1, <1>5, <1>6, <1>7 DEF PasteFits, IsStarting
<1> QED
  BY <1>8 DEF d

LEMMA RankIs ==
  ASSUME NEW m, NEW s
  PROVE  /\ Rank(m, s) \in 1..5
         /\ Rank(m, s) # 5 => m.of = s
         /\ Rank(m, s) = 1 <=> m.of = s /\ m.kind = "started"
         /\ Rank(m, s) = 2 <=> m.of = s /\ m.kind = "commit"
         /\ Rank(m, s) = 3 <=> m.of = s /\ m.kind \in {"ack", "stopping"}
         /\ Rank(m, s) = 4 <=> m.of = s /\ m.kind \in {"stopped", "discarded"}
BY DEF Rank

\* A message less is on its way.
LEMMA LineHeard ==
  ASSUME NEW l \in Lines, l.mail # <<>>, NEW k, k = [l EXCEPT !.mail = Tail(l.mail)]
  PROVE  /\ k \in Lines /\ k.of = l.of /\ k.at = l.at /\ k.open = l.open
         /\ k.mail = Tail(l.mail) /\ 1 \in DOMAIN l.mail /\ Head(l.mail) = l.mail[1]
         /\ \A p \in DOMAIN k.mail : /\ p + 1 \in DOMAIN l.mail /\ k.mail[p] = l.mail[p + 1]
                                     /\ Ranked(k, p) = Ranked(l, p + 1) /\ p \in Nat /\ p >= 1
         /\ \A p \in DOMAIN l.mail : p # 1 => p - 1 \in DOMAIN k.mail
         /\ \A p \in DOMAIN l.mail : p \in Nat /\ p >= 1 /\ l.mail[p] \in SocketMessage
         /\ Len(k.mail) = Len(l.mail) - 1 /\ DOMAIN k.mail = 1..Len(k.mail)
<1>1. l.mail \in Seq(SocketMessage)
  BY DEF Lines
<1>2. Tail(l.mail) \in Seq(SocketMessage)
  BY <1>1
<1>3. k \in Lines /\ k.of = l.of /\ k.at = l.at /\ k.open = l.open /\ k.mail = Tail(l.mail)
  BY <1>2 DEF Lines
<1>4. /\ 1 \in DOMAIN l.mail /\ Head(l.mail) = l.mail[1]
      /\ \A p \in DOMAIN Tail(l.mail) : p + 1 \in DOMAIN l.mail /\ Tail(l.mail)[p] = l.mail[p + 1]
                                        /\ p \in Nat /\ p >= 1
      /\ \A p \in DOMAIN l.mail : p # 1 => p - 1 \in DOMAIN Tail(l.mail)
      /\ \A p \in DOMAIN l.mail : p \in Nat /\ p >= 1 /\ l.mail[p] \in SocketMessage
      /\ Len(Tail(l.mail)) = Len(l.mail) - 1 /\ DOMAIN Tail(l.mail) = 1..Len(Tail(l.mail))
  BY <1>1, <1>2
<1> QED
  BY <1>3, <1>4 DEF Ranked

LEMMA HeardFits ==
  ASSUME NEW l \in Lines, l.mail # <<>>, NEW k, k = [l EXCEPT !.mail = Tail(l.mail)],
         InOrder(l), InTime(l)
  PROVE  /\ InOrder(k) /\ InTime(k)
         /\ Due(k) => Due(l)
         /\ Due(l) => Due(k) \/ Ranked(l, 1) = 4
         /\ Ranked(l, 1) = 4 => ~Due(k)
         /\ OnlyCloses(l) => OnlyCloses(k)
         /\ \A p \in DOMAIN k.mail : /\ Ranked(l, 1) <= Ranked(k, p)
                                     /\ Ranked(l, 1) \in {1, 4} => Ranked(l, 1) # Ranked(k, p)
<1>1. /\ k \in Lines /\ k.of = l.of /\ k.at = l.at /\ k.open = l.open
      /\ k.mail = Tail(l.mail) /\ 1 \in DOMAIN l.mail /\ Head(l.mail) = l.mail[1]
      /\ \A p \in DOMAIN k.mail : /\ p + 1 \in DOMAIN l.mail /\ k.mail[p] = l.mail[p + 1]
                                  /\ Ranked(k, p) = Ranked(l, p + 1) /\ p \in Nat /\ p >= 1
      /\ \A p \in DOMAIN l.mail : p # 1 => p - 1 \in DOMAIN k.mail
      /\ \A p \in DOMAIN l.mail : p \in Nat /\ p >= 1
  BY LineHeard
<1>2. \A p \in DOMAIN l.mail : Ranked(l, p) \in 1..5
  BY RankIs DEF Ranked
<1>3. \A p \in DOMAIN k.mail : /\ Ranked(l, 1) <= Ranked(k, p)
                               /\ Ranked(l, 1) \in {1, 4} => Ranked(l, 1) # Ranked(k, p)
  <2> SUFFICES ASSUME NEW p \in DOMAIN k.mail
               PROVE  /\ Ranked(l, 1) <= Ranked(k, p)
                      /\ Ranked(l, 1) \in {1, 4} => Ranked(l, 1) # Ranked(k, p)
    OBVIOUS
  <2>1. p + 1 \in DOMAIN l.mail /\ Ranked(k, p) = Ranked(l, p + 1) /\ p \in Nat /\ p >= 1
    BY <1>1
  <2>2. 1 < p + 1
    BY <2>1
  <2> QED
    BY <1>1, <2>1, <2>2 DEF InOrder
<1>4. InOrder(k)
  <2> SUFFICES ASSUME NEW p \in DOMAIN k.mail, NEW q \in DOMAIN k.mail, p < q
               PROVE  Ranked(k, p) <= Ranked(k, q)
                      /\ (Ranked(k, p) \in {1, 4} => Ranked(k, p) # Ranked(k, q))
    BY DEF InOrder
  <2>1. p + 1 < q + 1 /\ p + 1 \in DOMAIN l.mail /\ q + 1 \in DOMAIN l.mail
    BY <1>1
  <2> QED
    BY <1>1, <2>1 DEF InOrder
<1>5. (\E p \in DOMAIN k.mail : Ranked(k, p) = 4) => \E p \in DOMAIN l.mail : Ranked(l, p) = 4
  BY <1>1
<1>6. Due(k) => Due(l)
  BY <1>1, <1>5 DEF Due
<1>7. Due(l) => Due(k) \/ Ranked(l, 1) = 4
  <2>1. ASSUME NEW p \in DOMAIN l.mail, Ranked(l, p) = 4, p # 1 PROVE Due(k)
    <3>1. p - 1 \in DOMAIN k.mail /\ Ranked(k, p - 1) = Ranked(l, (p - 1) + 1) /\ (p - 1) + 1 = p
      <4>1. p - 1 \in DOMAIN k.mail /\ p \in Nat
        BY <1>1, <2>1
      <4>2. (p - 1) + 1 = p
        BY <4>1
      <4> QED
        BY <1>1, <4>1, <4>2
    <3> QED
      BY <2>1, <3>1 DEF Due
  <2> QED
    BY <1>1, <2>1 DEF Due
<1>8. Ranked(l, 1) = 4 => ~Due(k)
  <2> SUFFICES ASSUME Ranked(l, 1) = 4 PROVE ~Due(k)
    OBVIOUS
  <2>1. l.at \in {"ended", "over"}
    BY <1>1 DEF InTime
  <2>2. \A p \in DOMAIN k.mail : Ranked(k, p) # 4
    BY <1>3
  <2> QED
    BY <1>1, <2>1, <2>2 DEF Due
<1>9. InTime(k)
  <2> SUFFICES ASSUME NEW p \in DOMAIN k.mail
               PROVE  /\ k.open # "connecting"
                      /\ Ranked(k, p) \in {3, 4} => k.at # "recording"
                      /\ Ranked(k, p) = 4 => k.at \in {"ended", "over"}
                      /\ Ranked(k, p) <= 2 => Due(k)
                      /\ k.open = "open" /\ k.at = "recording" => Ranked(k, p) <= 2
                      /\ k.open = "open" /\ k.at = "ending" => Ranked(k, p) <= 3
    BY DEF InTime
  <2>1. p + 1 \in DOMAIN l.mail /\ Ranked(k, p) = Ranked(l, p + 1)
    BY <1>1
  <2>2. Ranked(l, 1) <= Ranked(k, p) /\ Ranked(l, 1) \in 1..5 /\ Ranked(k, p) \in 1..5
    BY <1>1, <1>2, <1>3, <2>1
  <2>3. Ranked(k, p) <= 2 => Due(k)
    BY <1>7, <2>1, <2>2 DEF InTime
  <2> QED
    BY <1>1, <2>1, <2>3 DEF InTime
<1>10. OnlyCloses(l) => OnlyCloses(k)
  BY <1>1 DEF OnlyCloses
<1> QED
  BY <1>3, <1>4, <1>6, <1>7, <1>8, <1>9, <1>10

LEMMA CallsSame ==
  ASSUME NEW c, NEW d, d.starts = c.starts, d.stops = c.stops
  PROVE  /\ OneCall(d) <=> OneCall(c)
         /\ IsStarting(d) <=> IsStarting(c)
         /\ Waits(d) <=> Waits(c)
         /\ PasteWaits(d) <=> PasteWaits(c)
BY DEF OneCall, IsStarting, Waits, PasteWaits

\* What the head of the current socket's mail finds.
HearsNext(c, n, l, k, X) ==
  /\ n \in Nat /\ LeavesClient(c, n) /\ X \subseteq HkSessions
  /\ l \in Lines /\ l.mail # <<>> /\ k = [l EXCEPT !.mail = Tail(l.mail)]
  /\ PasteFits(c, X) /\ LineFits(c, l, X)

LEMMA HearsIs ==
  ASSUME NEW c, NEW n, NEW l, NEW k, NEW X, HearsNext(c, n, l, k, X)
  PROVE  /\ c \in ClientStates(n) /\ c.socket # Nobody /\ c.socketOf = l.of
         /\ l.of \in HkSessions /\ l.of # Nobody
         /\ k \in Lines /\ k.of = l.of /\ k.at = l.at /\ k.open = l.open /\ l.open # "connecting"
         /\ InOrder(k) /\ InTime(k) /\ Follows(c, k)
         /\ Due(k) => Due(l)
         /\ c.pasted[l.of] \in Nat
         /\ Ranked(l, 1) \in 1..5 /\ l.mail[1] \in SocketMessage /\ Head(l.mail) = l.mail[1]
<1>1. /\ l \in Lines /\ l.mail # <<>> /\ k = [l EXCEPT !.mail = Tail(l.mail)]
      /\ InOrder(l) /\ InTime(l) /\ Follows(c, l) /\ c \in ClientStates(n)
  BY DEF HearsNext, LineFits, LeavesClient
<1>2. InOrder(k) /\ InTime(k) /\ (Due(k) => Due(l))
  BY <1>1, HeardFits
<1>3. /\ k \in Lines /\ k.of = l.of /\ k.at = l.at /\ k.open = l.open /\ 1 \in DOMAIN l.mail
      /\ l.mail[1] \in SocketMessage /\ Head(l.mail) = l.mail[1]
  BY <1>1, LineHeard
<1>4. l.open # "connecting"
  BY <1>1, <1>3 DEF InTime
<1>5. c.socketOf = l.of /\ l.of \in HkSessions /\ l.of # Nobody
  BY <1>1, SomeIs DEF Follows
<1>6. c.socket # Nobody
  BY <1>5 DEF HearsNext, PasteFits
<1>7. c.pasted[l.of] \in Nat
  BY <1>1, <1>5 DEF ClientStates
<1>8. Ranked(l, 1) \in 1..5
  BY RankIs DEF Ranked
<1> QED
  BY <1>1, <1>2, <1>3, <1>4, <1>5, <1>6, <1>7, <1>8 DEF Follows

LEMMA StartedFits ==
  ASSUME NEW c, NEW n, NEW l, NEW k, NEW X, HearsNext(c, n, l, k, X), Ranked(l, 1) = 1
  PROVE  PasteFits(OnStarted(c, l.of), X) /\ LineFits(OnStarted(c, l.of), k, X)
<1> DEFINE d == OnStarted(c, l.of)
<1>1. /\ c \in ClientStates(n) /\ c.socket # Nobody /\ c.socketOf = l.of /\ l.of # Nobody
      /\ k.of = l.of /\ k.at = l.at /\ k.open = l.open /\ l.open # "connecting"
      /\ InOrder(k) /\ InTime(k) /\ Follows(c, k) /\ (Due(k) => Due(l)) /\ c.pasted[l.of] \in Nat
  BY HearsIs
<1>2. /\ d.life = "recording" /\ d.active = l.of /\ d.action = c.action
      /\ d.candidate = c.candidate /\ d.pastedLive = c.pastedLive /\ d.starts = c.starts
      /\ d.stops = c.stops /\ d.socket = c.socket /\ d.socketOf = c.socketOf /\ d.pasted = c.pasted
  BY <1>1 DEF OnStarted, ClientStates
<1> HIDE DEF d
<1>3. /\ OneCall(d) <=> OneCall(c)
      /\ IsStarting(d) <=> IsStarting(c)
      /\ Waits(d) <=> Waits(c)
      /\ PasteWaits(d) <=> PasteWaits(c)
  BY <1>2, CallsSame
<1>4. /\ l \in Lines /\ l.mail # <<>> /\ k = [l EXCEPT !.mail = Tail(l.mail)] /\ InOrder(l)
      /\ InTime(l) /\ 1 \in DOMAIN l.mail
  BY LineHeard DEF HearsNext, LineFits
<1>5. Due(l) /\ Due(k)
  BY <1>4, HeardFits DEF InTime
<1>6. c.pasted[l.of] = 0
  BY <1>1, <1>4 DEF HearsNext, LineFits, PastedBefore
<1>7. l.of \notin X
  BY <1>4, <1>5 DEF HearsNext, LineFits, HoldsCancelled
<1>8. \A p \in DOMAIN k.mail : Ranked(k, p) # 1
  BY <1>4, HeardFits
<1>9. ~IsStarting(c) /\ c.candidate \in {Nobody, l.of}
  BY <1>5 DEF HearsNext, LineFits, AwaitsResult, Follows
<1>10. PasteFits(d, X)
  BY <1>1, <1>2, <1>3, <1>6, <1>7, <1>9, SomeIs DEF PasteFits, HearsNext
<1>11. LineFits(d, k, X)
  BY <1>1, <1>2, <1>3, <1>5, <1>6, <1>7, <1>8, <1>9
     DEF LineFits, Follows, OpensFirst, AwaitsResult, PastedBefore, HearsStart, HoldsCancelled
<1> QED
  BY <1>10, <1>11 DEF d

LEMMA CommitFits ==
  ASSUME NEW c, NEW n, NEW l, NEW k, NEW X, HearsNext(c, n, l, k, X), Ranked(l, 1) = 2
  PROVE  PasteFits(OnCommit(c, l.of), X) /\ LineFits(OnCommit(c, l.of), k, X)
<1> DEFINE d == OnCommit(c, l.of)
<1>1. /\ c \in ClientStates(n) /\ c.socket # Nobody /\ c.socketOf = l.of /\ l.of # Nobody
      /\ k.of = l.of /\ k.at = l.at /\ k.open = l.open /\ l.open # "connecting"
      /\ InOrder(k) /\ InTime(k) /\ Follows(c, k) /\ (Due(k) => Due(l)) /\ c.pasted[l.of] \in Nat
  BY HearsIs
<1>2. /\ d.life = c.life /\ d.active = c.active /\ d.action = c.action
      /\ d.candidate = (IF c.life = "stopping" THEN c.candidate ELSE l.of)
      /\ d.pastedLive = c.pastedLive /\ d.starts = c.starts
      /\ d.stops = c.stops /\ d.socket = c.socket /\ d.socketOf = c.socketOf /\ d.pasted = c.pasted
  BY <1>1 DEF OnCommit, ClientStates
<1> HIDE DEF d
<1>3. /\ OneCall(d) <=> OneCall(c)
      /\ IsStarting(d) <=> IsStarting(c)
      /\ Waits(d) <=> Waits(c)
      /\ PasteWaits(d) <=> PasteWaits(c)
  BY <1>2, CallsSame
<1>4. /\ l \in Lines /\ l.mail # <<>> /\ k = [l EXCEPT !.mail = Tail(l.mail)] /\ InOrder(l)
      /\ InTime(l) /\ 1 \in DOMAIN l.mail
  BY LineHeard DEF HearsNext, LineFits
<1>5. Due(l) /\ Due(k)
  BY <1>4, HeardFits DEF InTime
<1>6. c.pasted[l.of] = 0
  BY <1>1, <1>4 DEF HearsNext, LineFits, PastedBefore
<1>7. l.of \in X => c.life = "stopping"
  BY <1>5 DEF HearsNext, LineFits, HoldsCancelled
<1>8. \A p \in DOMAIN k.mail : Ranked(k, p) # 1
  <2>1. \A p \in DOMAIN k.mail : Ranked(l, 1) <= Ranked(k, p)
    BY <1>4, HeardFits
  <2> QED
    BY <2>1
<1>9. ~IsStarting(c) /\ c.candidate \in {Nobody, l.of}
  BY <1>5 DEF HearsNext, LineFits, AwaitsResult, Follows
<1>10. PasteFits(d, X)
  BY <1>1, <1>2, <1>3, <1>6, <1>7, <1>9 DEF PasteFits, HearsNext
<1>11. LineFits(d, k, X)
  <2>1. OpensFirst(d, k, X) /\ Follows(d, k)
    BY <1>1, <1>2, <1>9 DEF OpensFirst, Follows
  <2>2. AwaitsResult(d, k) /\ PastedBefore(d, k)
    BY <1>1, <1>2, <1>3, <1>5, <1>6 DEF AwaitsResult, PastedBefore, HearsNext, LineFits
  <2>3. HearsStart(d, k) /\ HoldsCancelled(d, k, X)
    BY <1>1, <1>2, <1>3, <1>5, <1>8 DEF HearsStart, HoldsCancelled, HearsNext, LineFits
  <2> QED
    BY <1>1, <1>5, <2>1, <2>2, <2>3 DEF LineFits
<1> QED
  BY <1>10, <1>11 DEF d

\* Clients that differ in what does not matter here.
Alike(c, d) ==
  /\ d.life = c.life /\ d.active = c.active /\ d.action = c.action /\ d.candidate = c.candidate
  /\ d.pastedLive = c.pastedLive /\ d.pasted = c.pasted
  /\ d.socket = c.socket /\ d.socketOf = c.socketOf
  /\ OneCall(c) => OneCall(d)
  /\ IsStarting(d) <=> IsStarting(c)
  /\ Waits(d) <=> Waits(c)
  /\ PasteWaits(d) <=> PasteWaits(c)

LEMMA AlikeFits ==
  ASSUME NEW c, NEW d, NEW X, Alike(c, d)
  PROVE  /\ PasteFits(c, X) => PasteFits(d, X)
         /\ \A l : LineFits(c, l, X) => LineFits(d, l, X)
         /\ \A s : Unheard(c, s, X) => Unheard(d, s, X)
<1>1. PasteFits(c, X) => PasteFits(d, X)
  BY DEF Alike, PasteFits
<1>2. ASSUME NEW l, LineFits(c, l, X) PROVE LineFits(d, l, X)
  <2>1. Follows(d, l) /\ OpensFirst(d, l, X) /\ AwaitsResult(d, l)
    BY <1>2 DEF Alike, LineFits, Follows, OpensFirst, AwaitsResult
  <2>2. PastedBefore(d, l) /\ HearsStart(d, l) /\ HoldsCancelled(d, l, X)
    BY <1>2 DEF Alike, LineFits, PastedBefore, HearsStart, HoldsCancelled
  <2> QED
    BY <1>2, <2>1, <2>2 DEF Alike, LineFits
<1>3. \A s : Unheard(c, s, X) => Unheard(d, s, X)
  BY DEF Alike, Unheard
<1> QED
  BY <1>1, <1>2, <1>3

LEMMA WaiterAlike ==
  ASSUME NEW n, NEW c \in ClientStates(n), NEW w \in -1..NSessions, NEW d, d = [c EXCEPT !.waiter = w]
  PROVE  Alike(c, d) /\ d \in ClientStates(n) /\ d.waiter = w
<1>1. /\ d \in ClientStates(n) /\ d.waiter = w /\ d.life = c.life /\ d.active = c.active
      /\ d.action = c.action /\ d.candidate = c.candidate /\ d.pastedLive = c.pastedLive
      /\ d.pasted = c.pasted /\ d.socket = c.socket /\ d.socketOf = c.socketOf
      /\ d.starts = c.starts /\ d.stops = c.stops
  BY DEF ClientStates
<1> QED
  BY <1>1, CallsSame DEF Alike

LEMMA GoesOnFollows ==
  ASSUME NEW n \in Nat, NEW c \in ClientStates(n), NEW X \in SUBSET HkSessions, NEW l,
         PasteFits(c, X), LineFits(c, l, X), c.life = "stopping", l.at # "recording",
         \A p \in DOMAIN l.mail : Ranked(l, p) > 2
  PROVE  LineFits(GoesOn(c), l, X)
<1> DEFINE d == GoesOn(c)
<1>1. /\ d.life = c.life /\ d.active = c.active /\ d.action = c.action
      /\ d.candidate = c.candidate /\ d.starts = c.starts
      /\ d.socket = c.socket /\ d.socketOf = c.socketOf
      /\ ~Waits(d) /\ ~PasteWaits(d)
      /\ \A s \in HkSessions : s # c.candidate => d.pasted[s] = c.pasted[s]
      /\ c.candidate = Nobody \/ ~PasteWaits(c) => d.pasted = c.pasted /\ d.pastedLive = c.pastedLive
      /\ c.candidate # Nobody /\ PasteWaits(c) =>
           d.pasted[c.candidate] = c.pasted[c.candidate] + 1 /\ d.pastedLive
  BY GoesOnIs DEF PasteFits
<1> HIDE DEF d
<1>2. l.of \in HkSessions /\ c.candidate \in {Nobody, l.of} /\ l.of # Nobody
  BY SomeIs DEF LineFits, Follows
<1>3. IsStarting(d) <=> IsStarting(c)
  BY <1>1 DEF IsStarting
<1>4. /\ PasteWaits(c) /\ c.candidate # Nobody => d.pastedLive
      /\ ~(PasteWaits(c) /\ c.candidate # Nobody) =>
            d.pasted = c.pasted /\ d.pastedLive = c.pastedLive
  BY <1>1
<1>5. PastedBefore(d, l)
  BY <1>4 DEF PastedBefore, LineFits
<1>6. OpensFirst(d, l, X)
  BY <1>1, <1>2 DEF OpensFirst, LineFits
<1>7. Follows(d, l) /\ AwaitsResult(d, l)
  BY <1>1, <1>3 DEF Follows, AwaitsResult, LineFits
<1>8. HearsStart(d, l) /\ HoldsCancelled(d, l, X)
  BY <1>1 DEF HearsStart, HoldsCancelled, LineFits
<1>9. LineFits(d, l, X)
  BY <1>1, <1>5, <1>6, <1>7, <1>8 DEF LineFits
<1> QED
  BY <1>9 DEF d

LEMMA StoppingFits ==
  ASSUME NEW c, NEW n, NEW l, NEW k, NEW X, HearsNext(c, n, l, k, X), Ranked(l, 1) = 3
  PROVE  /\ OnStatusStopping(c, l.of) \in ClientStates(n)
         /\ OnStatusStopping(c, l.of).life = "stopping"
         /\ PasteFits(OnStatusStopping(c, l.of), X) /\ LineFits(OnStatusStopping(c, l.of), k, X)
         /\ k.at # "recording" /\ \A p \in DOMAIN k.mail : Ranked(k, p) > 2
<1> DEFINE d == OnStatusStopping(c, l.of)
<1>1. /\ c \in ClientStates(n) /\ c.socket # Nobody /\ c.socketOf = l.of /\ l.of # Nobody
      /\ k.of = l.of /\ k.at = l.at /\ k.open = l.open /\ l.open # "connecting"
      /\ InOrder(k) /\ InTime(k) /\ Follows(c, k) /\ (Due(k) => Due(l)) /\ c.pasted[l.of] \in Nat
  BY HearsIs
<1>2. /\ d.life = "stopping" /\ d.active = l.of /\ d.action = c.action
      /\ d.candidate = c.candidate /\ d.pastedLive = c.pastedLive /\ d.starts = c.starts
      /\ d.stops = c.stops /\ d.socket = c.socket /\ d.socketOf = c.socketOf /\ d.pasted = c.pasted
  BY <1>1 DEF OnStatusStopping, ClientStates
<1>0. d \in ClientStates(n)
  BY <1>1, SomeIs DEF OnStatusStopping, ClientStates, Lives, Follows
<1> HIDE DEF d
<1>3. /\ OneCall(d) <=> OneCall(c)
      /\ IsStarting(d) <=> IsStarting(c)
      /\ Waits(d) <=> Waits(c)
      /\ PasteWaits(d) <=> PasteWaits(c)
  BY <1>2, CallsSame
<1>4. /\ l \in Lines /\ l.mail # <<>> /\ k = [l EXCEPT !.mail = Tail(l.mail)] /\ InOrder(l)
      /\ InTime(l) /\ 1 \in DOMAIN l.mail
  BY LineHeard DEF HearsNext, LineFits
<1>5. Due(l) => Due(k)
  BY <1>4, HeardFits
<1>6. k.at # "recording"
  BY <1>1, <1>4 DEF InTime
<1>7. \A p \in DOMAIN k.mail : Ranked(k, p) > 2
  <2>1. \A p \in DOMAIN k.mail : Ranked(l, 1) <= Ranked(k, p)
    BY <1>4, HeardFits
  <2>2. \A p \in DOMAIN k.mail : Ranked(k, p) \in 1..5
    BY RankIs DEF Ranked
  <2> QED
    BY <2>1, <2>2
<1>8. c.candidate # Nobody => Due(k) \/ OnlyCloses(k)
  <2>1. OnlyCloses(l) => OnlyCloses(k)
    BY <1>4, HeardFits
  <2> QED
    BY <1>5, <2>1 DEF HearsNext, LineFits
<1>10. PasteFits(d, X)
  BY <1>1, <1>2, <1>3 DEF PasteFits, HearsNext
<1>11. LineFits(d, k, X)
  <2>1. OpensFirst(d, k, X) /\ Follows(d, k)
    BY <1>1, <1>2 DEF OpensFirst, Follows
  <2>2. AwaitsResult(d, k)
    BY <1>1, <1>2, <1>3 DEF AwaitsResult, HearsNext, LineFits
  <2>3. PastedBefore(d, k)
    BY <1>1, <1>2, <1>6, <1>7 DEF PastedBefore, HearsNext, LineFits
  <2>4. HearsStart(d, k)
    BY <1>2 DEF HearsStart
  <2>5. HoldsCancelled(d, k, X)
    <3>1. \A p \in DOMAIN k.mail : Ranked(k, p) # 1
      BY <1>7
    <3> QED
      BY <1>1, <1>2, <1>3, <3>1 DEF HoldsCancelled, HearsNext, LineFits
  <2> QED
    BY <1>1, <1>2, <1>8, <2>1, <2>2, <2>3, <2>4, <2>5 DEF LineFits
<1> QED
  BY <1>0, <1>2, <1>6, <1>7, <1>10, <1>11 DEF d

LEMMA StopAckFits ==
  ASSUME NEW c, NEW n, NEW l, NEW k, NEW X, HearsNext(c, n, l, k, X), Ranked(l, 1) = 3
  PROVE  PasteFits(OnStopAck(c, l.of), X) /\ LineFits(OnStopAck(c, l.of), k, X)
<1> DEFINE d == OnStatusStopping(c, l.of)
           e == [d EXCEPT !.waiter = NoWaiter]
<1>1. /\ d \in ClientStates(n) /\ d.life = "stopping" /\ PasteFits(d, X) /\ LineFits(d, k, X)
      /\ k.at # "recording" /\ \A p \in DOMAIN k.mail : Ranked(k, p) > 2
  BY StoppingFits
<1>2. OnStopAck(c, l.of) = IF Resolves(d, l.of) THEN GoesOn(e) ELSE d
  BY DEF OnStopAck, OnStatusStopping, ResolveStopWaiter
<1>3. NoWaiter \in -1..NSessions /\ n \in Nat /\ X \in SUBSET HkSessions
  BY HotkeyClientAssumption DEF NoWaiter, HearsNext
<1> HIDE DEF d, NoWaiter
<1>4. Alike(d, e) /\ e \in ClientStates(n)
  BY <1>1, <1>3, WaiterAlike
<1> HIDE DEF e
<1>5. PasteFits(e, X) /\ LineFits(e, k, X) /\ e.life = "stopping"
  BY <1>1, <1>4, AlikeFits DEF Alike
<1>6. PasteFits(GoesOn(e), X) /\ LineFits(GoesOn(e), k, X)
  BY <1>1, <1>3, <1>4, <1>5, GoesOnFits, GoesOnFollows
<1> QED
  BY <1>1, <1>2, <1>6

\* A client that nothing is due to, and that remembers nothing.
LEMMA NothingDue ==
  ASSUME NEW d, NEW k, NEW X, d.candidate = Nobody, d.active \in {Nobody, k.of},
         d.socketOf = k.of, k.of \in HkSessions, k.at # "none", k.open # "connecting",
         d.pasted[k.of] > 0 => k.at # "recording",
         d.life # "recording", InOrder(k), InTime(k), ~Due(k),
         \A p \in DOMAIN k.mail : Ranked(k, p) > 2
  PROVE  LineFits(d, k, X)
BY DEF LineFits, Follows, OpensFirst, AwaitsResult, PastedBefore, HearsStart, HoldsCancelled

\* What the current socket tells of no session or of another one.
LEMMA HearsOthers ==
  ASSUME NEW c, NEW n, NEW l, NEW k, NEW X, HearsNext(c, n, l, k, X), Ranked(l, 1) = 5
  PROVE  /\ ~Due(k) /\ ~Due(l) /\ \A p \in DOMAIN k.mail : Ranked(k, p) > 2
         /\ c.candidate # Nobody => l.mail[1].kind \in {"closed", "lost"}
         /\ LineFits(c, k, X)
<1>1. /\ l \in Lines /\ l.mail # <<>> /\ k = [l EXCEPT !.mail = Tail(l.mail)]
      /\ InOrder(l) /\ InTime(l) /\ 1 \in DOMAIN l.mail
  BY LineHeard DEF HearsNext, LineFits
<1>2. /\ k \in Lines /\ k.of = l.of /\ k.at = l.at /\ k.open = l.open /\ l.open # "connecting"
      /\ InOrder(k) /\ InTime(k) /\ Follows(c, k) /\ (Due(k) => Due(l))
  BY HearsIs
<1>3. \A p \in DOMAIN l.mail : Ranked(l, p) = 5
  <2> SUFFICES ASSUME NEW p \in DOMAIN l.mail PROVE Ranked(l, p) = 5
    OBVIOUS
  <2>1. Ranked(l, p) \in 1..5 /\ p \in Nat /\ p >= 1
    BY <1>1, RankIs, LineHeard DEF Ranked
  <2>2. CASE p = 1
    BY <2>2
  <2>3. CASE p # 1
    <3>1. 1 < p
      BY <2>1, <2>3
    <3>2. Ranked(l, 1) <= Ranked(l, p)
      BY <1>1, <3>1 DEF InOrder
    <3> QED
      BY <2>1, <3>2
  <2> QED
    BY <2>2, <2>3
<1>4. ~Due(l)
  <2>1. l.open \in {"connecting", "open", "closing"}
    BY <1>1 DEF Lines
  <2>2. ~(l.open = "open" /\ l.at \in {"recording", "ending"})
    BY <1>1, <1>3 DEF InTime
  <2> QED
    BY <1>2, <1>3, <2>1, <2>2 DEF Due
<1>5. \A p \in DOMAIN k.mail : Ranked(k, p) > 2
  <2>1. \A p \in DOMAIN k.mail : p + 1 \in DOMAIN l.mail /\ Ranked(k, p) = Ranked(l, p + 1)
    BY <1>1, LineHeard
  <2> QED
    BY <1>3, <2>1
<1>6. c.candidate # Nobody => OnlyCloses(l)
  BY <1>4 DEF HearsNext, LineFits
<1>7. OnlyCloses(l) => OnlyCloses(k) /\ l.mail[1].kind \in {"closed", "lost"}
  <2>1. OnlyCloses(l) => OnlyCloses(k)
    BY <1>1, HeardFits
  <2> QED
    BY <1>1, <2>1 DEF OnlyCloses
<1>8. LineFits(c, k, X)
  <2>1. OpensFirst(c, k, X) /\ AwaitsResult(c, k) /\ HoldsCancelled(c, k, X)
    BY <1>2, <1>4 DEF OpensFirst, AwaitsResult, HoldsCancelled
  <2>2. PastedBefore(c, k) /\ HearsStart(c, k)
    <3>1. PastedBefore(c, l) /\ HearsStart(c, l)
      BY DEF HearsNext, LineFits
    <3>2. \A p \in DOMAIN k.mail : Ranked(k, p) # 1
      BY <1>5
    <3> QED
      BY <1>2, <1>4, <1>5, <3>1, <3>2 DEF PastedBefore, HearsStart
  <2> QED
    BY <1>2, <1>6, <1>7, <2>1, <2>2 DEF LineFits
<1> QED
  BY <1>2, <1>4, <1>5, <1>6, <1>7, <1>8

LEMMA IdleFits ==
  ASSUME NEW c, NEW n, NEW l, NEW k, NEW X, HearsNext(c, n, l, k, X), Ranked(l, 1) = 5,
         l.mail[1].kind = "idle"
  PROVE  PasteFits(OnStatusIdle(c), X) /\ LineFits(OnStatusIdle(c), k, X)
<1> DEFINE d == OnStatusIdle(c)
<1>1. /\ c \in ClientStates(n) /\ c.socket # Nobody /\ c.socketOf = k.of /\ k.of \in HkSessions
      /\ k.open # "connecting" /\ InOrder(k) /\ InTime(k) /\ Follows(c, k)
  BY HearsIs
<1>2. /\ ~Due(k) /\ \A p \in DOMAIN k.mail : Ranked(k, p) > 2
      /\ c.candidate = Nobody /\ LineFits(c, k, X)
  BY HearsOthers
<1>3. /\ d.life = "idle" /\ d.active = Nobody /\ d.candidate = c.candidate /\ d.starts = c.starts
      /\ d.stops = c.stops /\ d.socket = c.socket /\ d.socketOf = c.socketOf /\ d.pasted = c.pasted
  BY <1>1 DEF OnStatusIdle, ClientStates
<1> HIDE DEF d
<1>4. /\ OneCall(d) <=> OneCall(c)
      /\ IsStarting(d) <=> IsStarting(c)
      /\ Waits(d) <=> Waits(c)
      /\ PasteWaits(d) <=> PasteWaits(c)
  BY <1>3, CallsSame
<1>5. Nobody \notin X
  BY SomeIs DEF HearsNext
<1>6. PasteFits(d, X)
  BY <1>1, <1>2, <1>3, <1>4, <1>5 DEF PasteFits, HearsNext
<1>7. d.pasted[k.of] > 0 => k.at # "recording"
  BY <1>2, <1>3 DEF LineFits, PastedBefore
<1>8. LineFits(d, k, X)
  BY <1>1, <1>2, <1>3, <1>7, NothingDue DEF Follows
<1> QED
  BY <1>6, <1>8 DEF d

LEMMA ErrorFits ==
  ASSUME NEW c, NEW n, NEW l, NEW k, NEW X, HearsNext(c, n, l, k, X), Ranked(l, 1) = 5,
         l.mail[1].kind = "error"
  PROVE  PasteFits(OnError(c), X) /\ LineFits(OnError(c), k, X)
<1> DEFINE d == [c EXCEPT !.life = "error"]
           e == [d EXCEPT !.waiter = NoWaiter]
           f == GoesOn(e)
<1>1. /\ c \in ClientStates(n) /\ c.socket # Nobody /\ c.socketOf = k.of /\ k.of \in HkSessions
      /\ k.open # "connecting" /\ InOrder(k) /\ InTime(k) /\ Follows(c, k) /\ n \in Nat
      /\ X \in SUBSET HkSessions
  <2>1. n \in Nat /\ X \in SUBSET HkSessions
    BY DEF HearsNext
  <2> QED
    BY <2>1, HearsIs
<1>2. /\ ~Due(k) /\ \A p \in DOMAIN k.mail : Ranked(k, p) > 2
      /\ c.candidate = Nobody /\ LineFits(c, k, X)
  BY HearsOthers
<1>3. /\ d.life = "error" /\ d.active = c.active /\ d.candidate = c.candidate
      /\ d.starts = c.starts /\ d \in ClientStates(n)
      /\ d.stops = c.stops /\ d.socket = c.socket /\ d.socketOf = c.socketOf /\ d.pasted = c.pasted
  BY <1>1 DEF ClientStates, Lives
<1>0. NoWaiter \in -1..NSessions
  BY HotkeyClientAssumption DEF NoWaiter
<1>9. OnError(c) = IF c.waiter = NoWaiter THEN d ELSE f
  BY DEF OnError
<1> HIDE DEF d, NoWaiter
<1>4. /\ OneCall(d) <=> OneCall(c)
      /\ IsStarting(d) <=> IsStarting(c)
      /\ Waits(d) <=> Waits(c)
      /\ PasteWaits(d) <=> PasteWaits(c)
  BY <1>3, CallsSame
<1>5. Nobody \notin X
  BY SomeIs DEF HearsNext
<1>6. PasteFits(d, X)
  BY <1>1, <1>2, <1>3, <1>4, <1>5 DEF PasteFits, HearsNext
<1>7. d.pasted[k.of] > 0 => k.at # "recording"
  BY <1>2, <1>3 DEF LineFits, PastedBefore
<1>8. LineFits(d, k, X)
  BY <1>1, <1>2, <1>3, <1>7, NothingDue DEF Follows
<1>10. Alike(d, e) /\ e \in ClientStates(n)
  BY <1>0, <1>3, WaiterAlike
<1> HIDE DEF e
<1>11. PasteFits(e, X) /\ LineFits(e, k, X) /\ e.candidate = Nobody /\ e.life = "error"
  BY <1>2, <1>3, <1>6, <1>8, <1>10, AlikeFits DEF Alike
<1>12. PasteFits(f, X)
  BY <1>1, <1>10, <1>11, GoesOnFits
<1>13. /\ f.life = e.life /\ f.active = e.active /\ f.candidate = e.candidate
       /\ f.socketOf = e.socketOf /\ f.pasted = e.pasted
  BY <1>1, <1>10, <1>11, GoesOnIs
<1> HIDE DEF f
<1>14. LineFits(f, k, X)
  <2>1. f.active \in {Nobody, k.of} /\ f.socketOf = k.of /\ f.life # "recording" /\ f.candidate = Nobody
    BY <1>11, <1>13 DEF LineFits, Follows
  <2>2. f.pasted[k.of] > 0 => k.at # "recording"
    BY <1>11, <1>13 DEF LineFits, PastedBefore
  <2>3. k.at # "none"
    BY <1>1 DEF Follows
  <2> QED
    BY <1>1, <1>2, <2>1, <2>2, <2>3, NothingDue
<1> QED
  BY <1>6, <1>8, <1>9, <1>12, <1>14

LEMMA CloseFits ==
  ASSUME NEW n \in Nat, NEW c \in ClientStates(n), NEW X \in SUBSET HkSessions, PasteFits(c, X),
         NEW normal \in BOOLEAN
  PROVE  PasteFits(OnClose(c, normal), X)
<1> DEFINE d == [c EXCEPT !.socket = Nobody, !.socketOf = Nobody]
           e == [d EXCEPT !.life = "error"]
           f == [d EXCEPT !.waiter = NoWaiter]
<1>1. Nobody \in Some /\ Nobody \in 0..n /\ NoWaiter \in -1..NSessions
  BY HotkeyClientAssumption DEF Some, Nobody, NoWaiter
<1>2. /\ d \in ClientStates(n) /\ d.life = c.life /\ d.candidate = c.candidate
      /\ d.starts = c.starts /\ d.stops = c.stops /\ d.socket = Nobody /\ d.socketOf = Nobody
      /\ d.pasted = c.pasted
  BY <1>1 DEF ClientStates
<1>3. OnClose(c, normal) =
        IF normal /\ c.life = "stopping" THEN IF Resolves(d, Nobody) THEN GoesOn(f) ELSE d
        ELSE IF c.life \in {"starting", "recording"} THEN e ELSE d
  BY DEF OnClose, ResolveStopWaiter
<1> HIDE DEF d, NoWaiter
<1>4. /\ OneCall(d) <=> OneCall(c)
      /\ IsStarting(d) <=> IsStarting(c)
      /\ Waits(d) <=> Waits(c)
      /\ PasteWaits(d) <=> PasteWaits(c)
  BY <1>2, CallsSame
<1>5. CASE c.life # "recording"
  <2>1. PasteFits(d, X)
    BY <1>2, <1>4, <1>5 DEF PasteFits
  <2>2. Alike(d, f) /\ f \in ClientStates(n)
    BY <1>1, <1>2, WaiterAlike
  <2>3. PasteFits(f, X) /\ f.life = c.life
    BY <1>2, <2>1, <2>2, AlikeFits DEF Alike
  <2>4. c.life = "stopping" => PasteFits(GoesOn(f), X)
    BY <2>2, <2>3, GoesOnFits
  <2>5. c.life = "starting" => PasteFits(e, X)
    <3> SUFFICES ASSUME c.life = "starting" PROVE PasteFits(e, X)
      OBVIOUS
    <3>1. /\ e.life = "error" /\ e.candidate = d.candidate /\ e.starts = d.starts
          /\ e.stops = d.stops /\ e.socket = d.socket /\ e.socketOf = d.socketOf
          /\ e.pasted = d.pasted
      BY <1>2 DEF ClientStates
    <3> HIDE DEF e
    <3>2. /\ OneCall(e) <=> OneCall(d)
          /\ IsStarting(e) <=> IsStarting(d)
          /\ Waits(e) <=> Waits(d)
          /\ PasteWaits(e) <=> PasteWaits(d)
      BY <3>1, CallsSame
    <3> QED
      BY <1>2, <2>1, <3>1, <3>2 DEF PasteFits
  <2> QED
    BY <1>3, <1>5, <2>1, <2>4, <2>5
<1>6. CASE c.life = "recording"
  <2>1. /\ e.life = "error" /\ e.candidate = d.candidate /\ e.starts = d.starts
        /\ e.stops = d.stops /\ e.socket = d.socket /\ e.socketOf = d.socketOf
        /\ e.pasted = d.pasted
    BY <1>2 DEF ClientStates
  <2>2. OnClose(c, normal) = e
    BY <1>3, <1>6
  <2> HIDE DEF e
  <2>3. /\ OneCall(e) <=> OneCall(d)
        /\ IsStarting(e) <=> IsStarting(d)
        /\ Waits(e) <=> Waits(d)
        /\ PasteWaits(e) <=> PasteWaits(d)
    BY <2>1, CallsSame
  <2> QED
    BY <1>2, <1>4, <1>6, <2>1, <2>2, <2>3 DEF PasteFits
<1> QED
  BY <1>5, <1>6

\* A start begins with nothing to paste, and alone.
LEMMA StartFits ==
  ASSUME NEW n \in Nat, NEW c \in ClientStates(n), NEW X \in SUBSET HkSessions, PasteFits(c, X),
         ~IsStarting(c), NEW src, NEW by, NEW d, d = StartRecording(c, src, by)
  PROVE  /\ PasteFits(d, X) /\ d.candidate = Nobody /\ d.active = c.active
         /\ d.socketOf = c.socketOf /\ d.socket = c.socket /\ d.life = "starting"
         /\ d.pasted = c.pasted
         /\ \A l : LineFits(c, l, X) /\ ~Due(l) => LineFits(d, l, X)
<1> DEFINE starts == Append(c.starts, [source |-> src, by |-> by, got |-> "no", of |-> Nobody])
<1>1. d = [c EXCEPT !.candidate = Nobody, !.pastedLive = FALSE, !.life = "starting",
                    !.source = src, !.starts = starts]
  BY DEF StartRecording
<1>2. \A i, j \in DOMAIN starts : starts[i].got # "done" /\ starts[j].got # "done" => i = j
  <2>1. c.starts \in Seq(StartCall)
    BY DEF ClientStates
  <2>2. \A i \in DOMAIN c.starts : c.starts[i].got = "done"
    BY DEF IsStarting
  <2>3. \A i \in DOMAIN starts : \/ i \in DOMAIN c.starts /\ starts[i] = c.starts[i]
                                 \/ i = Len(c.starts) + 1
    BY <2>1
  <2> HIDE DEF starts
  <2> QED
    BY <2>2, <2>3
<1> HIDE DEF starts
<1>3. /\ d.candidate = Nobody /\ d.life = "starting" /\ d.starts = starts /\ d.stops = c.stops
      /\ d.active = c.active /\ d.pasted = c.pasted /\ d.socket = c.socket
      /\ d.socketOf = c.socketOf
  BY <1>1 DEF ClientStates
<1>4. /\ OneCall(d)
      /\ Waits(d) <=> Waits(c)
      /\ PasteWaits(d) <=> PasteWaits(c)
  BY <1>2, <1>3 DEF OneCall, Waits, PasteWaits, PasteFits
<1>5. Nobody \notin X
  BY SomeIs
<1>6. PasteFits(d, X)
  BY <1>3, <1>4, <1>5 DEF PasteFits
<1>7. ASSUME NEW l, LineFits(c, l, X), ~Due(l) PROVE LineFits(d, l, X)
  <2>1. Follows(d, l) /\ OpensFirst(d, l, X) /\ AwaitsResult(d, l)
    BY <1>3, <1>7 DEF LineFits, Follows, OpensFirst, AwaitsResult
  <2>2. PastedBefore(d, l) /\ HearsStart(d, l) /\ HoldsCancelled(d, l, X)
    BY <1>3, <1>7 DEF LineFits, PastedBefore, HearsStart, HoldsCancelled
  <2> QED
    BY <1>3, <1>7, <2>1, <2>2 DEF LineFits
<1> QED
  BY <1>3, <1>6, <1>7

\* The result of the session: it is pasted unless it was, and the restart begins alone.
LEMMA StoppedFits ==
  ASSUME NEW n, NEW l, NEW k, NEW X, HearsNext(Client, n, l, k, X), Ranked(l, 1) = 4,
         NEW text \in BOOLEAN
  PROVE  PasteFits(OnStopped(Client, l.of, text), X) /\ LineFits(OnStopped(Client, l.of, text), k, X)
<1> DEFINE c == Client
           s == l.of
           pastedNow == [c.pasted EXCEPT ![s] = @ + 1]
           d == IF text /\ c.action = "finish_and_paste" /\ ~c.pastedLive THEN Pastes(c, s) ELSE c
           idle == [d EXCEPT !.candidate = Nobody, !.pastedLive = FALSE, !.action = Quiet,
                             !.life = "idle", !.active = Nobody, !.source = Quiet]
           resolved == IF Resolves(c, s) THEN [idle EXCEPT !.waiter = NoWaiter] ELSE idle
           again == [resolved EXCEPT !.restart = Quiet]
           restarted == IF c.restart = Quiet \/ ~CanStart THEN resolved
                        ELSE StartRecording(again, c.restart, "restart")
           last == OnStopped(c, s, text)
<1>1. /\ c \in ClientStates(n) /\ c.socket # Nobody /\ c.socketOf = k.of /\ k.of \in HkSessions
      /\ k.open # "connecting" /\ InOrder(k) /\ InTime(k) /\ Follows(c, k) /\ k.of = s
      /\ k.at = l.at /\ s \in HkSessions /\ s # Nobody /\ c.pasted[s] \in Nat
  BY HearsIs
<1>2. n \in Nat /\ X \in SUBSET HkSessions /\ LeavesClient(c, n) /\ PasteFits(c, X)
  BY DEF HearsNext
<1>3. /\ l \in Lines /\ l.mail # <<>> /\ k = [l EXCEPT !.mail = Tail(l.mail)] /\ InOrder(l)
      /\ InTime(l) /\ 1 \in DOMAIN l.mail
  BY LineHeard DEF HearsNext, LineFits
<1>4. Due(l) /\ k.at \in {"ended", "over"}
  BY <1>1, <1>3 DEF Due, InTime
<1>5. ~Due(k)
  BY <1>3, HeardFits
<1>6. \A p \in DOMAIN k.mail : Ranked(k, p) > 2
  <2>1. \A p \in DOMAIN k.mail : Ranked(l, 1) <= Ranked(k, p)
    BY <1>3, HeardFits
  <2>2. \A p \in DOMAIN k.mail : Ranked(k, p) \in 1..5
    BY RankIs DEF Ranked
  <2> QED
    BY <2>1, <2>2
<1>7. ~IsStarting(c)
  BY <1>4 DEF HearsNext, LineFits, AwaitsResult
<1>8. c.pasted[s] > 0 => c.pastedLive
  BY <1>4 DEF HearsNext, LineFits, PastedBefore
<1>9. s \in X => c.action # "finish_and_paste"
  BY <1>4 DEF HearsNext, LineFits, HoldsCancelled
<1>10. /\ d \in ClientStates(n) /\ d.starts = c.starts /\ d.stops = c.stops /\ d.waiter = c.waiter
       /\ d.socket = c.socket /\ d.socketOf = c.socketOf
       /\ \A t \in HkSessions : d.pasted[t] <= 1
       /\ \A t \in X : d.pasted[t] = 0
  <2>1. CASE text /\ c.action = "finish_and_paste" /\ ~c.pastedLive
    <3>1. pastedNow \in [HkSessions -> Nat] /\ c.pasted \in [HkSessions -> Nat]
      BY <1>1 DEF ClientStates
    <3>2. \A t \in HkSessions : pastedNow[t] = IF t = s THEN c.pasted[s] + 1 ELSE c.pasted[t]
      BY <1>1, <3>1
    <3>3. c.pasted[s] = 0 /\ s \notin X
      BY <1>1, <1>8, <1>9, <2>1
    <3>4. d = [c EXCEPT !.pasted = pastedNow]
      BY <1>1, <2>1 DEF Pastes, ClientStates
    <3> HIDE DEF pastedNow, d
    <3>5. /\ d \in ClientStates(n) /\ d.starts = c.starts /\ d.stops = c.stops
          /\ d.waiter = c.waiter /\ d.socket = c.socket /\ d.socketOf = c.socketOf
          /\ d.pasted = pastedNow
      BY <1>1, <3>1, <3>4 DEF ClientStates
    <3>6. \A t \in HkSessions : d.pasted[t] <= 1
      <4>1. \A t \in HkSessions : c.pasted[t] <= 1
        BY <1>2 DEF PasteFits
      <4> QED
        BY <3>2, <3>3, <3>5, <4>1
    <3>7. \A t \in X : d.pasted[t] = 0
      <4>1. \A t \in X : c.pasted[t] = 0
        BY <1>2 DEF PasteFits
      <4> QED
        BY <1>2, <3>2, <3>3, <3>5, <4>1
    <3> QED
      BY <3>5, <3>6, <3>7
  <2>2. CASE ~(text /\ c.action = "finish_and_paste" /\ ~c.pastedLive)
    <3>1. d = c
      BY <2>2
    <3> QED
      BY <1>1, <1>2, <3>1 DEF PasteFits
  <2> QED
    BY <2>1, <2>2
<1> HIDE DEF d
<1>11. Nobody \in Some /\ Quiet \in Sources /\ NoWaiter \in -1..NSessions
  BY HotkeyClientAssumption DEF Some, Nobody, Sources, NoWaiter
<1>12. /\ idle \in ClientStates(n) /\ idle.starts = c.starts /\ idle.stops = c.stops
       /\ idle.waiter = c.waiter /\ idle.socket = c.socket /\ idle.socketOf = c.socketOf
       /\ idle.life = "idle" /\ idle.active = Nobody /\ idle.candidate = Nobody
       /\ idle.pasted = d.pasted
  BY <1>10, <1>11 DEF ClientStates, Lives
<1> HIDE DEF idle, NoWaiter
<1>13. /\ OneCall(idle) /\ ~IsStarting(idle)
  BY <1>2, <1>7, <1>12, CallsSame DEF PasteFits
<1>14. Nobody \notin X
  BY <1>2, SomeIs
<1>15. PasteFits(idle, X)
  BY <1>1, <1>2, <1>10, <1>12, <1>13, <1>14 DEF PasteFits
<1>16. /\ resolved \in ClientStates(n) /\ Alike(idle, resolved) /\ resolved.starts = c.starts
       /\ resolved.stops = c.stops
  <2>1. CASE Resolves(c, s)
    <3>1. resolved = [idle EXCEPT !.waiter = NoWaiter]
      BY <2>1
    <3> HIDE DEF resolved
    <3>2. resolved.starts = c.starts /\ resolved.stops = c.stops
      BY <1>12, <3>1 DEF ClientStates
    <3> QED
      BY <1>11, <1>12, <3>1, <3>2, WaiterAlike
  <2>2. CASE ~Resolves(c, s)
    BY <1>12, <2>2 DEF Alike
  <2> QED
    BY <2>1, <2>2
<1> HIDE DEF resolved
<1>17. /\ PasteFits(resolved, X) /\ resolved.candidate = Nobody /\ resolved.active = Nobody
       /\ resolved.socketOf = c.socketOf /\ resolved.socket = c.socket /\ resolved.life = "idle"
       /\ OneCall(resolved) /\ ~IsStarting(resolved)
  BY <1>12, <1>13, <1>15, <1>16, AlikeFits DEF Alike
<1>18. /\ restarted \in ClientStates(n) /\ PasteFits(restarted, X) /\ restarted.candidate = Nobody
       /\ restarted.active = Nobody /\ restarted.socketOf = c.socketOf
       /\ restarted.life # "recording"
  <2>1. CASE c.restart = Quiet \/ ~CanStart
    BY <1>16, <1>17, <2>1
  <2>2. CASE ~(c.restart = Quiet \/ ~CanStart)
    <3>1. c.restart \in CaptureSources
      BY <1>1, <2>2 DEF ClientStates, Sources
    <3>2. /\ again \in ClientStates(n) /\ again.starts = c.starts /\ again.stops = c.stops
          /\ again.active = Nobody /\ again.socketOf = c.socketOf /\ again.socket = c.socket
          /\ again.pasted = resolved.pasted
      BY <1>11, <1>16, <1>17 DEF ClientStates
    <3>3. Len(again.starts) < NSessions /\ Len(again.stops) <= NStopCalls
      BY <1>2, <3>2, <2>2, ClientIs DEF CanStart, LeavesClient
    <3>4. restarted = StartRecording(again, c.restart, "restart")
      BY <2>2
    <3> HIDE DEF again, restarted
    <3>5. restarted \in ClientStates(n)
      BY <1>2, <3>1, <3>2, <3>3, <3>4, StartRecordingLeaves
    <3>6. Alike(resolved, again)
      <4>1. /\ again.life = resolved.life /\ again.action = resolved.action
            /\ again.candidate = resolved.candidate /\ again.pastedLive = resolved.pastedLive
            /\ again.active = resolved.active /\ again.socket = resolved.socket
            /\ again.socketOf = resolved.socketOf
        BY <1>11, <1>16 DEF ClientStates, again
      <4> QED
        BY <1>16, <3>2, <4>1, CallsSame DEF Alike
    <3>7. PasteFits(again, X) /\ ~IsStarting(again)
      BY <1>17, <3>6, AlikeFits DEF Alike
    <3> QED
      BY <1>2, <3>2, <3>4, <3>5, <3>7, StartFits
  <2> QED
    BY <2>1, <2>2
<1>19. last = IF Resolves(c, s) THEN GoesOn(restarted) ELSE restarted
  BY DEF OnStopped, d, idle, resolved
<1> HIDE DEF restarted, last
<1>20. /\ PasteFits(last, X) /\ last.candidate = Nobody /\ last.active = Nobody
       /\ last.socketOf = c.socketOf /\ last.life # "recording"
  <2>1. PasteFits(GoesOn(restarted), X)
    BY <1>2, <1>18, GoesOnFits
  <2>2. /\ GoesOn(restarted).life = restarted.life /\ GoesOn(restarted).active = restarted.active
        /\ GoesOn(restarted).candidate = restarted.candidate
        /\ GoesOn(restarted).socketOf = restarted.socketOf
    BY <1>2, <1>18, GoesOnIs
  <2> QED
    BY <1>18, <1>19, <2>1, <2>2
<1>21. LineFits(last, k, X)
  <2>1. k.at # "none" /\ k.at # "recording"
    BY <1>4
  <2> QED
    BY <1>1, <1>5, <1>6, <1>20, <2>1, NothingDue
<1> QED
  BY <1>20, <1>21 DEF last

\* Whatever a socket tells.
LEMMA HandledFits ==
  ASSUME NEW n, NEW l, NEW k, NEW X, HearsNext(Client, n, l, k, X),
         NEW m, m = l.mail[1], m.of = Nobody <=> m.kind \in {"closed", "lost", "error", "idle"},
         m.kind \notin {"closed", "lost"}
  PROVE  PasteFits(Handled(Client, m), X) /\ LineFits(Handled(Client, m), k, X)
<1>1. /\ Client \in ClientStates(n) /\ Client.socketOf = l.of /\ l.of \in HkSessions /\ l.of # Nobody
      /\ m \in SocketMessage /\ m.kind \in Kinds
  BY HearsIs DEF SocketMessage
<1>2. Ranked(l, 1) = Rank(m, l.of)
  BY DEF Ranked
<1>3. Client.active \in {Nobody, l.of}
  BY DEF HearsNext, LineFits, Follows
<1>4. CASE m.kind = "error"
  <2>1. Handled(Client, m) = OnError(Client)
    BY <1>4 DEF Handled
  <2>2. Ranked(l, 1) = 5
    BY <1>1, <1>2, <1>4 DEF Rank
  <2> QED
    BY <1>4, <2>1, <2>2, ErrorFits
<1>5. CASE m.kind # "error" /\ ~IsExpected(Client, m.of)
  <2>1. Handled(Client, m) = Client
    BY <1>5 DEF Handled
  <2>2. Ranked(l, 1) = 5
    BY <1>1, <1>2, <1>5 DEF Rank, IsExpected
  <2>3. LineFits(Client, k, X)
    BY <2>2, HearsOthers
  <2> QED
    BY <2>1, <2>3 DEF HearsNext
<1>6. CASE m.kind = "idle" /\ IsExpected(Client, m.of)
  <2>1. Handled(Client, m) = OnStatusIdle(Client)
    BY <1>6 DEF Handled
  <2>2. Ranked(l, 1) = 5
    BY <1>1, <1>2, <1>6 DEF Rank
  <2> QED
    BY <1>6, <2>1, <2>2, IdleFits
<1>7. CASE m.kind \notin {"error", "idle"} /\ IsExpected(Client, m.of)
  <2>0. m.of = l.of
    BY <1>1, <1>3, <1>7 DEF IsExpected
  <2>1. CASE m.kind = "started"
    <3>1. Handled(Client, m) = OnStarted(Client, l.of) /\ Ranked(l, 1) = 1
      BY <1>2, <1>7, <2>0, <2>1 DEF Handled, Rank
    <3> QED
      BY <3>1, StartedFits
  <2>2. CASE m.kind = "stopping"
    <3>1. Handled(Client, m) = OnStatusStopping(Client, l.of) /\ Ranked(l, 1) = 3
      BY <1>2, <1>7, <2>0, <2>2 DEF Handled, Rank
    <3> QED
      BY <3>1, StoppingFits
  <2>3. CASE m.kind = "commit"
    <3>1. Handled(Client, m) = OnCommit(Client, l.of) /\ Ranked(l, 1) = 2
      BY <1>2, <1>7, <2>0, <2>3 DEF Handled, Rank
    <3> QED
      BY <3>1, CommitFits
  <2>4. CASE m.kind = "ack"
    <3>1. Handled(Client, m) = OnStopAck(Client, l.of) /\ Ranked(l, 1) = 3
      BY <1>2, <1>7, <2>0, <2>4 DEF Handled, Rank
    <3> QED
      BY <3>1, StopAckFits
  <2>5. CASE m.kind = "stopped"
    <3>1. Handled(Client, m) = OnStopped(Client, l.of, TRUE) /\ Ranked(l, 1) = 4
      BY <1>2, <1>7, <2>0, <2>5 DEF Handled, Rank
    <3> QED
      BY <3>1, StoppedFits
  <2>6. CASE m.kind = "discarded"
    <3>1. Handled(Client, m) = OnStopped(Client, l.of, FALSE) /\ Ranked(l, 1) = 4
      BY <1>2, <1>7, <2>0, <2>6 DEF Handled, Rank
    <3> QED
      BY <3>1, StoppedFits
  <2> QED
    BY <1>1, <1>7, <2>1, <2>2, <2>3, <2>4, <2>5, <2>6 DEF Kinds
<1> QED
  BY <1>4, <1>5, <1>6, <1>7

\* A stop of a client that no stop waits in, and that has not pasted yet.
LEMMA StopFits ==
  ASSUME NEW n \in Nat, NEW c \in ClientStates(n), NEW X \in SUBSET HkSessions, PasteFits(c, X),
         ~Waits(c), c.life \in {"starting", "recording"}, NEW act, NEW by, NEW d,
         d = StopRecording(c, act, by)
  PROVE  /\ PasteFits(d, X) /\ d.candidate = c.candidate /\ d.active = c.active
         /\ d.socketOf = c.socketOf /\ d.socket = c.socket /\ d.pasted = c.pasted
         /\ d.life = "stopping" /\ d.starts = c.starts
         /\ d.action = (IF c.action # Quiet THEN c.action ELSE act)
         /\ PasteWaits(d) => d.action = "finish_and_paste"
         /\ \A l : LineFits(c, l, X) => LineFits(d, l, X)
<1> DEFINE does == IF c.action # Quiet THEN c.action ELSE act
           call == [act |-> does, by |-> by, at |-> "ack", got |-> "no", until |-> Nobody]
           stops == Append(c.stops, call)
           waits == IF c.waiter = NoWaiter THEN c.active ELSE c.waiter
<1>1. d = [c EXCEPT !.action = does, !.life = "stopping", !.waiter = waits, !.stops = stops]
  BY DEF StopRecording
<1>2. \A i \in DOMAIN stops : \/ stops[i].at # "ack"
                              \/ i = Len(c.stops) + 1 /\ stops[i].act = does
  <2>1. c.stops \in Seq(StopCall)
    BY DEF ClientStates
  <2>2. \A i \in DOMAIN c.stops : c.stops[i].at # "ack"
    BY DEF Waits
  <2>3. \A i \in DOMAIN stops : \/ i \in DOMAIN c.stops /\ stops[i] = c.stops[i]
                                \/ i = Len(c.stops) + 1 /\ stops[i] = call
    BY <2>1
  <2>4. call.act = does
    OBVIOUS
  <2> HIDE DEF stops, call
  <2> QED
    BY <2>2, <2>3, <2>4
<1> HIDE DEF stops, waits, does
<1>3. /\ d.candidate = c.candidate /\ d.life = "stopping" /\ d.starts = c.starts /\ d.stops = stops
      /\ d.active = c.active /\ d.pasted = c.pasted /\ d.socket = c.socket
      /\ d.socketOf = c.socketOf /\ d.action = does /\ d.pastedLive = c.pastedLive
  BY <1>1 DEF ClientStates
<1>4. /\ OneCall(d)
      /\ IsStarting(d) <=> IsStarting(c)
      /\ PasteWaits(d) => d.action = "finish_and_paste"
  <2>1. OneCall(c)
    BY DEF PasteFits
  <2> QED
    BY <1>2, <1>3, <2>1 DEF OneCall, IsStarting, PasteWaits
<1>5. c.candidate # Nobody => c.pasted[c.candidate] = 0 /\ c.candidate \notin X
  <2>1. c.candidate # Nobody => c.pasted[c.candidate] \in Nat
    BY SomeIs DEF ClientStates
  <2> QED
    BY <2>1 DEF PasteFits
<1>6. PasteFits(d, X)
  <2>1. Nobody \notin X
    BY SomeIs
  <2> QED
    BY <1>3, <1>4, <1>5, <2>1 DEF PasteFits
<1>7. ASSUME NEW l, LineFits(c, l, X) PROVE LineFits(d, l, X)
  <2>1. Follows(d, l) /\ OpensFirst(d, l, X) /\ AwaitsResult(d, l)
    BY <1>3, <1>4, <1>7 DEF LineFits, Follows, OpensFirst, AwaitsResult
  <2>2. PastedBefore(d, l) /\ HearsStart(d, l)
    BY <1>3, <1>7 DEF LineFits, PastedBefore, HearsStart
  <2>3. HoldsCancelled(d, l, X)
    BY <1>7 DEF LineFits, HoldsCancelled
  <2> QED
    BY <1>3, <1>7, <2>1, <2>2, <2>3 DEF LineFits
<1> QED
  BY <1>3, <1>4, <1>6, <1>7 DEF does

\* The stop that cancels the session whose recording the client shows.
LEMMA CancelFits ==
  ASSUME NEW n \in Nat, NEW c \in ClientStates(n), NEW X \in SUBSET HkSessions, PasteFits(c, X),
         ~Waits(c), c.life = "recording", c.action = "cancel", NEW by, NEW d,
         d = StopRecording(c, "cancel", by), NEW l \in Lines, LineFits(c, l, X)
  PROVE  PasteFits(d, X \cup {l.of}) /\ LineFits(d, l, X \cup {l.of}) /\ c.active = l.of
<1>1. /\ PasteFits(d, X) /\ d.candidate = c.candidate /\ d.active = c.active
      /\ d.socketOf = c.socketOf /\ d.socket = c.socket /\ d.pasted = c.pasted
      /\ d.life = "stopping" /\ d.action = "cancel" /\ LineFits(d, l, X)
      /\ PasteWaits(d) => d.action = "finish_and_paste"
  <2>1. c.life \in {"starting", "recording"} /\ c.action # Quiet
    BY DEF Quiet
  <2> QED
    BY <2>1, StopFits
<1>2. /\ c.active = l.of /\ c.pasted[l.of] = 0 /\ l.open # "connecting"
      /\ \A p \in DOMAIN l.mail : Ranked(l, p) # 1
  BY DEF LineFits, HearsStart, OpensFirst
<1>3. PasteFits(d, X \cup {l.of})
  BY <1>1, <1>2 DEF PasteFits
<1>4. HoldsCancelled(d, l, X \cup {l.of}) /\ OpensFirst(d, l, X \cup {l.of})
  BY <1>1, <1>2 DEF HoldsCancelled, OpensFirst
<1> QED
  BY <1>1, <1>2, <1>3, <1>4 DEF LineFits

-----------------------------------------------------------------------------
(* ... and what the steps do. *)

LEMMA ClientTyped ==
  ClientIInv => /\ Len(sockets) \in Nat /\ LeavesClient(Client, Len(sockets))
                /\ Client \in ClientStates(Len(sockets)) /\ sockets \in Seq(ClientSocket)
                /\ served \in [HkSessions -> Served1] /\ serving \in Some
BY CallsAre DEF ClientIInv, LeavesClient

LEMMA BecomesIs ==
  ASSUME NEW c, ClientBecomes(c)
  PROVE  /\ Client'.life = c.life /\ Client'.active = c.active /\ Client'.source = c.source
         /\ Client'.restart = c.restart /\ Client'.action = c.action
         /\ Client'.candidate = c.candidate /\ Client'.pastedLive = c.pastedLive
         /\ Client'.waiter = c.waiter /\ Client'.starts = c.starts /\ Client'.stops = c.stops
         /\ Client'.socket = c.socket /\ Client'.socketOf = c.socketOf
         /\ Client'.pasted = c.pasted
         /\ Alike(c, Client')
<1>1. /\ Client'.life = c.life /\ Client'.active = c.active /\ Client'.source = c.source
      /\ Client'.restart = c.restart /\ Client'.action = c.action
      /\ Client'.candidate = c.candidate /\ Client'.pastedLive = c.pastedLive
      /\ Client'.waiter = c.waiter /\ Client'.starts = c.starts /\ Client'.stops = c.stops
      /\ Client'.socket = c.socket /\ Client'.socketOf = c.socketOf
      /\ Client'.pasted = c.pasted
  BY DEF ClientBecomes, Client
<1> HIDE DEF ClientBecomes
<1> QED
  BY <1>1, CallsSame DEF Alike

LEMMA LineIs ==
  ASSUME ClientIInv, socket # Nobody, socketOf \in HkSessions
  PROVE  /\ socket \in DOMAIN sockets /\ Line \in Lines /\ Line.of = socketOf
         /\ Line.at = served[socketOf].at /\ Line.open = sockets[socket].open
         /\ Line.mail = sockets[socket].inbox
<1>1. socket \in 0..Len(sockets) /\ sockets \in Seq(ClientSocket) /\ Len(sockets) \in Nat
  BY ClientTyped, ClientFields
<1>2. socket \in DOMAIN sockets
  BY <1>1 DEF Nobody
<1>3. sockets[socket] \in ClientSocket /\ served[socketOf] \in Served1
  BY <1>1, <1>2, ClientTyped
<1> QED
  BY <1>2, <1>3 DEF Line, Lines, ClientSocket, Served1

\* The answers that a step leaves were there before.
StartsKept == \A i \in DOMAIN startCalls' : startCalls'[i].got = "ok" =>
                i \in DOMAIN startCalls /\ startCalls'[i] = startCalls[i]

LEMMA NewsKept ==
  ASSUME NewsFits, StartsFit, StartsKept, UNCHANGED served,
         \A s \in HkSessions : Unheard(Client, s, cancelled) => Unheard(Client', s, cancelled')
  PROVE  NewsFits'
BY DEF NewsFits, StartsFit, StartsKept

LEMMA ServedKept ==
  ASSUME ServedInv, StartsKept, WellSent', cancelled' \subseteq HkSessions,
         UNCHANGED <<served, serving, jammed>>
  PROVE  ServedInv'
<1>1. StartsFit'
  BY DEF ServedInv, StartsFit, StartsKept
<1>2. OneByOne'
  BY DEF ServedInv, OneByOne, Serves
<1> QED
  BY <1>1, <1>2 DEF ServedInv

\* A step of the user.
LEMMA UserPastes ==
  ASSUME ClientIInv, PasteIInv, ServedInv, Normal, NEW d, ClientBecomes(d), StartsKept,
         UNCHANGED <<sockets, served, serving, jammed>>, d.socket = socket, d.socketOf = socketOf,
         d.active = active, d.pasted = pasted, d.candidate \in {candidate, Nobody},
         cancelled' \subseteq cancelled \cup {active}, cancelled' \subseteq HkSessions,
         PasteFits(d, cancelled'), socket # Nobody => LineFits(d, Line, cancelled')
  PROVE  PasteIInv' /\ ServedInv'
<1>1. /\ Client'.socket = socket /\ Client'.socketOf = socketOf /\ Client'.active = active
      /\ Client'.pasted = pasted /\ Client'.candidate \in {candidate, Nobody} /\ Alike(d, Client')
  BY BecomesIs
<1>2. PasteFits(Client', cancelled') /\ (socket # Nobody => LineFits(Client', Line, cancelled'))
  BY <1>1, AlikeFits
<1>3. NewsFits'
  <2>1. ASSUME NEW s \in HkSessions, Unheard(Client, s, cancelled)
        PROVE  Unheard(Client', s, cancelled')
    BY <1>1, <2>1, SomeIs, ClientIs DEF Unheard
  <2> QED
    BY <2>1, NewsKept DEF PasteIInv, ServedInv
<1>4. socket' = socket /\ Line' = Line
  BY DEF ClientBecomes, Line
<1>5. WellSent'
  BY DEF ServedInv, WellSent
<1>6. ServedInv'
  BY <1>5, ServedKept
<1> QED
  BY <1>2, <1>3, <1>4, <1>6 DEF PasteIInv

LEMMA CallsClear ==
  ASSUME NEW c, c = Client
  PROVE  /\ Waits(c) <=> \E j \in DOMAIN stopCalls : stopCalls[j].at = "ack"
         /\ IsStarting(c) <=> \E i \in DOMAIN startCalls : startCalls[i].got # "done"
BY ClientIs DEF Waits, IsStarting

LEMMA StartsMore ==
  ASSUME ClientIInv, NEW call, call.got # "ok", startCalls' = Append(startCalls, call)
  PROVE  StartsKept
<1>1. startCalls \in Seq(StartCall)
  BY CallsAre
<1>2. \A i \in DOMAIN startCalls' : \/ i \in DOMAIN startCalls /\ startCalls'[i] = startCalls[i]
                                    \/ startCalls'[i] = call
  BY <1>1
<1> QED
  BY <1>2 DEF StartsKept

LEMMA RestartAlike ==
  ASSUME NEW n, NEW c \in ClientStates(n), NEW src \in Sources, NEW d, d = [c EXCEPT !.restart = src]
  PROVE  /\ Alike(c, d) /\ d \in ClientStates(n) /\ d.starts = c.starts /\ d.stops = c.stops
         /\ d.waiter = c.waiter
<1>1. /\ d \in ClientStates(n) /\ d.life = c.life /\ d.active = c.active
      /\ d.action = c.action /\ d.candidate = c.candidate /\ d.pastedLive = c.pastedLive
      /\ d.pasted = c.pasted /\ d.socket = c.socket /\ d.socketOf = c.socketOf
      /\ d.starts = c.starts /\ d.stops = c.stops /\ d.waiter = c.waiter
  BY DEF ClientStates
<1> QED
  BY <1>1, CallsSame DEF Alike

\* What a step finds, if the calls and the sockets do not overlap.
Undisturbed == /\ ClientIInv /\ ServedInv /\ PasteIInv /\ Normal /\ Normal'

LEMMA UndisturbedIs ==
  Undisturbed => /\ PasteFits(Client, cancelled) /\ NewsFits
                 /\ socket # Nobody => LineFits(Client, Line, cancelled)
                 /\ Client \in ClientStates(Len(sockets)) /\ Len(sockets) \in Nat
                 /\ cancelled \in SUBSET HkSessions
                 /\ socket # Nobody => Line \in Lines /\ Line.of = socketOf /\ socketOf \in HkSessions
<1> SUFFICES ASSUME Undisturbed
             PROVE  /\ PasteFits(Client, cancelled) /\ NewsFits
                    /\ socket # Nobody => LineFits(Client, Line, cancelled)
                    /\ Client \in ClientStates(Len(sockets)) /\ Len(sockets) \in Nat
                    /\ cancelled \in SUBSET HkSessions
                    /\ socket # Nobody => Line \in Lines /\ Line.of = socketOf
                                          /\ socketOf \in HkSessions
  OBVIOUS
<1>1. /\ PasteFits(Client, cancelled) /\ NewsFits
      /\ socket # Nobody => LineFits(Client, Line, cancelled)
      /\ ClientIInv /\ cancelled \in SUBSET HkSessions
  BY DEF Undisturbed, PasteIInv, ServedInv
<1>2. socket # Nobody => socketOf \in HkSessions
  BY <1>1, ClientIs DEF LineFits, Follows
<1> QED
  BY <1>1, <1>2, ClientTyped, LineIs

LEMMA PressPastes ==
  ASSUME Undisturbed, NEW src \in CaptureSources, Press(src)
  PROVE  PasteIInv' /\ ServedInv'
<1> DEFINE n == Len(sockets)
           c == [Client EXCEPT !.restart = src]
<1>1. /\ PasteFits(Client, cancelled) /\ (socket # Nobody => LineFits(Client, Line, cancelled))
      /\ Client \in ClientStates(n) /\ n \in Nat /\ cancelled \in SUBSET HkSessions
  BY UndisturbedIs
<1>2. /\ UNCHANGED <<sockets, served, serving, jammed, cancelled>> /\ ~doubled /\ ~doubled'
      /\ ClientIInv /\ PasteIInv /\ ServedInv /\ Normal /\ cancelled \subseteq HkSessions
  BY DEF Undisturbed, Normal, ServedInv, Press, serviceVars
<1>3. /\ Alike(Client, c) /\ c \in ClientStates(n) /\ c.starts = startCalls
      /\ c.stops = stopCalls
  <2>1. src \in Sources
    BY DEF Sources
  <2> QED
    BY <1>1, <2>1, RestartAlike, ClientIs
<1>4. /\ PasteFits(c, cancelled) /\ (socket # Nobody => LineFits(c, Line, cancelled))
      /\ c.life = life /\ c.active = active /\ c.socket = socket /\ c.socketOf = socketOf
      /\ c.pasted = pasted /\ c.candidate = candidate
  BY <1>1, <1>3, AlikeFits, ClientIs DEF Alike
<1> HIDE DEF c
<1>5. CASE /\ life \in {"idle", "error"} /\ ClientBecomes(StartRecording(Client, src, "key"))
           /\ StartsAgain
  <2> DEFINE d == StartRecording(Client, src, "key")
  <2>1. ~IsStarting(Client)
    BY <1>2, <1>5, CallsClear DEF StartsAgain
  <2>2. socket # Nobody => ~Due(Line)
    BY <1>1, <1>5, ClientIs DEF LineFits, AwaitsResult
  <2>3. /\ PasteFits(d, cancelled) /\ d.candidate = Nobody /\ d.active = active
        /\ d.socketOf = socketOf /\ d.socket = socket /\ d.pasted = pasted
        /\ socket # Nobody => LineFits(d, Line, cancelled)
    BY <1>1, <2>1, <2>2, StartFits, ClientIs
  <2>4. StartsKept
    <3>1. startCalls' = Append(startCalls, [source |-> src, by |-> "key", got |-> "no",
                                            of |-> Nobody])
      BY <1>1, <1>5, ClientIs DEF ClientBecomes, StartRecording, ClientStates
    <3> QED
      BY <1>2, <3>1, StartsMore
  <2> HIDE DEF d
  <2>5. ClientBecomes(d)
    BY <1>5 DEF d
  <2> QED
    BY <1>1, <1>2, <2>3, <2>4, <2>5, UserPastes
<1>6. CASE ClientBecomes(Client)
  <2>1. StartsKept
    BY <1>6, ClientIs DEF ClientBecomes, StartsKept
  <2> QED
    BY <1>1, <1>2, <1>6, <2>1, UserPastes, ClientIs
<1>7. CASE ClientBecomes(c)
  <2>1. StartsKept
    BY <1>3, <1>7 DEF ClientBecomes, StartsKept
  <2> QED
    BY <1>2, <1>4, <1>7, <2>1, UserPastes
<1>8. CASE Busy /\ ClientBecomes(StopRecording(c, "finish_and_paste", "key")) /\ StopsAgain
  <2> DEFINE d == StopRecording(c, "finish_and_paste", "key")
  <2>1. ~Waits(c)
    BY <1>2, <1>3, <1>8 DEF StopsAgain, Waits
  <2>2. c.life \in {"starting", "recording"}
    BY <1>4, <1>8 DEF Busy
  <2>3. /\ PasteFits(d, cancelled) /\ d.candidate = candidate /\ d.active = active
        /\ d.socketOf = socketOf /\ d.socket = socket /\ d.pasted = pasted
        /\ d.starts = startCalls
        /\ socket # Nobody => LineFits(d, Line, cancelled)
    BY <1>1, <1>3, <1>4, <2>1, <2>2, StopFits
  <2> HIDE DEF d
  <2>4. ClientBecomes(d)
    BY <1>8 DEF d
  <2>5. StartsKept
    BY <2>3, <2>4 DEF ClientBecomes, StartsKept
  <2> QED
    BY <1>2, <2>3, <2>4, <2>5, UserPastes
<1> QED
  BY <1>5, <1>6, <1>7, <1>8 DEF Press, c

LEMMA ReleasePastes ==
  ASSUME Undisturbed, Release
  PROVE  PasteIInv' /\ ServedInv'
<1> DEFINE n == Len(sockets)
           d == StopRecording(Client, "finish_and_paste", "key")
<1>1. /\ PasteFits(Client, cancelled) /\ (socket # Nobody => LineFits(Client, Line, cancelled))
      /\ Client \in ClientStates(n) /\ n \in Nat /\ cancelled \in SUBSET HkSessions
  BY UndisturbedIs
<1>2. /\ UNCHANGED <<sockets, served, serving, jammed, cancelled>> /\ ~doubled /\ ~doubled'
      /\ ClientIInv /\ PasteIInv /\ ServedInv /\ Normal /\ cancelled \subseteq HkSessions
  BY DEF Undisturbed, Normal, ServedInv, Release, serviceVars
<1>3. CASE ClientBecomes(Client)
  <2>1. StartsKept
    BY <1>3, ClientIs DEF ClientBecomes, StartsKept
  <2> QED
    BY <1>1, <1>2, <1>3, <2>1, UserPastes, ClientIs
<1>4. CASE Busy /\ ClientBecomes(d) /\ StopsAgain
  <2>1. ~Waits(Client) /\ Client.life \in {"starting", "recording"}
    BY <1>2, <1>4, CallsClear, ClientIs DEF StopsAgain, Busy
  <2>2. /\ PasteFits(d, cancelled) /\ d.candidate = candidate /\ d.active = active
        /\ d.socketOf = socketOf /\ d.socket = socket /\ d.pasted = pasted
        /\ d.starts = startCalls
        /\ socket # Nobody => LineFits(d, Line, cancelled)
    BY <1>1, <2>1, StopFits, ClientIs
  <2> HIDE DEF d
  <2>3. StartsKept
    BY <1>4, <2>2 DEF ClientBecomes, StartsKept
  <2> QED
    BY <1>2, <1>4, <2>2, <2>3, UserPastes
<1> QED
  BY <1>3, <1>4 DEF Release

LEMMA FloatingActionPastes ==
  ASSUME Undisturbed, NEW act \in WindowActions, FloatingAction(act)
  PROVE  PasteIInv' /\ ServedInv'
<1> DEFINE n == Len(sockets)
           c == [Client EXCEPT !.action = act]
           d == StopRecording(c, act, "window")
<1>1. /\ PasteFits(Client, cancelled) /\ (socket # Nobody => LineFits(Client, Line, cancelled))
      /\ Client \in ClientStates(n) /\ n \in Nat /\ cancelled \in SUBSET HkSessions
      /\ socket # Nobody => Line \in Lines
  BY UndisturbedIs
<1>2. /\ UNCHANGED <<sockets, served, serving, jammed>> /\ ~doubled /\ ~doubled' /\ ClientBecomes(d)
      /\ ClientIInv /\ PasteIInv /\ ServedInv /\ Normal /\ life = "recording"
      /\ cancelled' = IF act = "cancel" THEN cancelled \cup ({active} \ {Nobody}) ELSE cancelled
      /\ StopsAgain /\ act \in StopActions
  BY HotkeyClientAssumption DEF Undisturbed, Normal, FloatingAction, serviceVars, StopActions
<1>3. /\ c \in ClientStates(n) /\ c.life = "recording" /\ c.active = active /\ c.action = act
      /\ c.candidate = candidate /\ c.pastedLive = pastedLive /\ c.pasted = pasted
      /\ c.starts = startCalls /\ c.stops = stopCalls /\ c.socket = socket
      /\ c.socketOf = socketOf
  <2>1. act \in StopActions \cup {Quiet}
    BY <1>2
  <2> QED
    BY <1>1, <1>2, <2>1, ClientIs DEF ClientStates
<1> HIDE DEF c
<1>4. /\ OneCall(c) <=> OneCall(Client)
      /\ IsStarting(c) <=> IsStarting(Client)
      /\ Waits(c) <=> Waits(Client)
      /\ PasteWaits(c) <=> PasteWaits(Client)
  BY <1>3, CallsSame, ClientIs
<1>5. PasteFits(c, cancelled) /\ ~Waits(c)
  <2>1. PasteFits(c, cancelled)
    BY <1>1, <1>2, <1>3, <1>4, ClientIs DEF PasteFits
  <2> QED
    BY <1>2, <1>4, <2>1, CallsClear DEF StopsAgain
<1>6. socket # Nobody /\ LineFits(c, Line, cancelled)
  <2>1. socket # Nobody
    BY <1>1, <1>2, ClientIs DEF PasteFits
  <2>2. LineFits(Client, Line, cancelled)
    BY <1>1, <2>1
  <2>3. /\ Follows(c, Line) /\ OpensFirst(c, Line, cancelled) /\ AwaitsResult(c, Line)
        /\ PastedBefore(c, Line) /\ HearsStart(c, Line)
    BY <1>2, <1>3, <1>4, <2>2, ClientIs
       DEF LineFits, Follows, OpensFirst, AwaitsResult, PastedBefore, HearsStart
  <2>4. HoldsCancelled(c, Line, cancelled)
    BY <1>2, <2>2, ClientIs DEF LineFits, HoldsCancelled
  <2> QED
    BY <1>3, <2>1, <2>2, <2>3, <2>4, ClientIs DEF LineFits
<1>7. /\ d.candidate = candidate /\ d.active = active /\ d.socketOf = socketOf
      /\ d.socket = socket /\ d.pasted = pasted /\ d.starts = startCalls
      /\ PasteFits(d, cancelled) /\ LineFits(d, Line, cancelled)
  BY <1>1, <1>3, <1>5, <1>6, StopFits
<1>8. PasteFits(d, cancelled') /\ LineFits(d, Line, cancelled')
  <2>1. CASE act = "cancel"
    <3>1. d = StopRecording(c, "cancel", "window") /\ c.action = "cancel"
      BY <1>3, <2>1
    <3> HIDE DEF d
    <3>2. PasteFits(d, cancelled \cup {Line.of}) /\ LineFits(d, Line, cancelled \cup {Line.of})
          /\ c.active = Line.of
      BY <1>1, <1>3, <1>5, <1>6, <3>1, CancelFits
    <3>3. Line.of # Nobody
      BY <1>1, <1>6, SomeIs DEF Lines
    <3>4. cancelled' = cancelled \cup {Line.of}
      BY <1>2, <1>3, <2>1, <3>2, <3>3
    <3> QED
      BY <3>2, <3>4
  <2>2. CASE act # "cancel"
    BY <1>2, <1>7, <2>2
  <2> QED
    BY <2>1, <2>2
<1> HIDE DEF d
<1>9. StartsKept
  BY <1>2, <1>7 DEF ClientBecomes, StartsKept
<1>10. cancelled' \subseteq cancelled \cup {active} /\ cancelled' \subseteq HkSessions
  BY <1>1, <1>2, <1>3, SomeIs DEF ClientStates
<1> QED
  BY <1>2, <1>7, <1>8, <1>9, <1>10, UserPastes

\* A handler leaves alone the sessions that the client knows nothing of, and the socket.
Spares(c, d) ==
  /\ \A s \in HkSessions \ {c.active, c.socketOf, c.candidate} :
       d.active # s /\ d.socketOf # s /\ d.candidate # s /\ d.pasted[s] = c.pasted[s]
  /\ \A i \in DOMAIN d.starts : d.starts[i].got = "ok" =>
       i \in DOMAIN c.starts /\ d.starts[i] = c.starts[i]
  /\ d.socket = c.socket

LEMMA SparesAll ==
  ASSUME NEW b, NEW c, NEW d, Spares(b, c), Spares(c, d)
  PROVE  Spares(b, d)
<1>1. ASSUME NEW s \in HkSessions \ {b.active, b.socketOf, b.candidate}
      PROVE  d.active # s /\ d.socketOf # s /\ d.candidate # s /\ d.pasted[s] = b.pasted[s]
  <2>1. c.active # s /\ c.socketOf # s /\ c.candidate # s /\ c.pasted[s] = b.pasted[s]
    BY <1>1 DEF Spares
  <2>2. s \in HkSessions \ {c.active, c.socketOf, c.candidate}
    BY <1>1, <2>1
  <2> QED
    BY <2>1, <2>2 DEF Spares
<1>2. \A i \in DOMAIN d.starts : d.starts[i].got = "ok" =>
        i \in DOMAIN b.starts /\ d.starts[i] = b.starts[i]
  BY DEF Spares
<1> QED
  BY <1>1, <1>2 DEF Spares

LEMMA SparesFields ==
  ASSUME NEW c, NEW d, d.active \in {c.active, c.socketOf, Nobody}, d.socketOf = c.socketOf,
         d.candidate \in {c.candidate, c.active, c.socketOf, Nobody}, d.pasted = c.pasted,
         d.starts = c.starts, d.socket = c.socket
  PROVE  Spares(c, d)
BY SomeIs DEF Spares

LEMMA GoesOnSpares ==
  ASSUME NEW n \in Nat, NEW c \in ClientStates(n)
  PROVE  Spares(c, GoesOn(c))
<1> DEFINE d == GoesOn(c)
<1>1. /\ d.active = c.active /\ d.candidate = c.candidate /\ d.starts = c.starts
      /\ d.socket = c.socket /\ d.socketOf = c.socketOf
      /\ \A s \in HkSessions : s # c.candidate => d.pasted[s] = c.pasted[s]
  BY GoesOnIs
<1> HIDE DEF d
<1>2. Spares(c, d)
  BY <1>1 DEF Spares
<1> QED
  BY <1>2 DEF d

LEMMA ResolvedSpares ==
  ASSUME NEW n \in Nat, NEW c \in ClientStates(n)
  PROVE  /\ Spares(c, GoesOn([c EXCEPT !.waiter = NoWaiter]))
         /\ \A s : Spares(c, ResolveStopWaiter(c, s))
<1> DEFINE e == [c EXCEPT !.waiter = NoWaiter]
<1>1. NoWaiter \in -1..NSessions
  BY HotkeyClientAssumption DEF NoWaiter
<1> HIDE DEF NoWaiter
<1>2. e \in ClientStates(n) /\ Spares(c, e)
  <2>1. /\ e \in ClientStates(n) /\ e.active = c.active /\ e.candidate = c.candidate
        /\ e.starts = c.starts /\ e.socket = c.socket /\ e.socketOf = c.socketOf
        /\ e.pasted = c.pasted
    BY <1>1 DEF ClientStates
  <2> HIDE DEF e
  <2> QED
    BY <2>1, SparesFields
<1>3. \A s : ResolveStopWaiter(c, s) \in {c, GoesOn(e)}
  BY DEF ResolveStopWaiter
<1> HIDE DEF e
<1>4. Spares(c, GoesOn(e))
  BY <1>2, GoesOnSpares, SparesAll
<1>5. Spares(c, c)
  BY DEF Spares
<1> QED
  BY <1>3, <1>4, <1>5 DEF e

LEMMA StoppedSpares ==
  ASSUME NEW n \in Nat, LeavesClient(Client, n), NEW s \in {Client.active, Client.socketOf},
         s # Nobody, NEW text \in BOOLEAN
  PROVE  Spares(Client, OnStopped(Client, s, text))
<1> DEFINE c == Client
           pastedNow == [c.pasted EXCEPT ![s] = @ + 1]
           d == IF text /\ c.action = "finish_and_paste" /\ ~c.pastedLive THEN Pastes(c, s) ELSE c
           idle == [d EXCEPT !.candidate = Nobody, !.pastedLive = FALSE, !.action = Quiet,
                             !.life = "idle", !.active = Nobody, !.source = Quiet]
           resolved == IF Resolves(c, s) THEN [idle EXCEPT !.waiter = NoWaiter] ELSE idle
           again == [resolved EXCEPT !.restart = Quiet]
           restarted == IF c.restart = Quiet \/ ~CanStart THEN resolved
                        ELSE StartRecording(again, c.restart, "restart")
           last == OnStopped(c, s, text)
<1>1. c \in ClientStates(n) /\ Nobody \in Some /\ Quiet \in Sources /\ NoWaiter \in -1..NSessions
  BY HotkeyClientAssumption DEF LeavesClient, Some, Nobody, Sources, NoWaiter
<1>2. s \in HkSessions /\ c.pasted \in [HkSessions -> Nat]
  BY <1>1, SomeIs DEF ClientStates
<1>3. d \in ClientStates(n) /\ Spares(c, d)
  <2>1. CASE d = c
    BY <1>1, <2>1 DEF Spares
  <2>2. CASE d = Pastes(c, s)
    <3>1. pastedNow \in [HkSessions -> Nat]
          /\ \A t \in HkSessions : t # s => pastedNow[t] = c.pasted[t]
      BY <1>2
    <3>2. d = [c EXCEPT !.pasted = pastedNow]
      BY <1>1, <2>2 DEF Pastes, ClientStates
    <3> HIDE DEF d, pastedNow
    <3>3. /\ d \in ClientStates(n) /\ d.active = c.active /\ d.candidate = c.candidate
          /\ d.starts = c.starts /\ d.socket = c.socket /\ d.socketOf = c.socketOf
          /\ d.pasted = pastedNow
      BY <1>1, <3>1, <3>2 DEF ClientStates
    <3> QED
      BY <3>1, <3>3 DEF Spares
  <2> QED
    BY <2>1, <2>2
<1> HIDE DEF d, NoWaiter
<1>4. idle \in ClientStates(n) /\ Spares(d, idle)
  <2>1. /\ idle \in ClientStates(n) /\ idle.active = Nobody /\ idle.candidate = Nobody
        /\ idle.starts = d.starts /\ idle.socket = d.socket /\ idle.socketOf = d.socketOf
        /\ idle.pasted = d.pasted
    BY <1>1, <1>3 DEF ClientStates, Lives
  <2> HIDE DEF idle
  <2> QED
    BY <2>1, SparesFields
<1> HIDE DEF idle
<1>5. resolved \in ClientStates(n) /\ Spares(idle, resolved)
  <2>1. CASE resolved = idle
    BY <1>4, <2>1 DEF Spares
  <2>2. CASE resolved = [idle EXCEPT !.waiter = NoWaiter]
    <3> HIDE DEF resolved
    <3>1. /\ resolved \in ClientStates(n) /\ resolved.active = idle.active
          /\ resolved.candidate = idle.candidate /\ resolved.starts = idle.starts
          /\ resolved.socket = idle.socket /\ resolved.socketOf = idle.socketOf
          /\ resolved.pasted = idle.pasted
      BY <1>1, <1>4, <2>2 DEF ClientStates
    <3> QED
      BY <3>1, SparesFields
  <2> QED
    BY <2>1, <2>2
<1>6. resolved.starts = c.starts /\ resolved.stops = c.stops
  <2>1. d.starts = c.starts /\ d.stops = c.stops
    <3>1. CASE d = c
      BY <3>1
    <3>2. CASE d = Pastes(c, s)
      BY <1>1, <3>2 DEF Pastes, ClientStates
    <3> QED
      BY <3>1, <3>2 DEF d
  <2>2. idle.starts = d.starts /\ idle.stops = d.stops
    BY <1>3 DEF idle, ClientStates
  <2> QED
    BY <1>4, <2>1, <2>2 DEF ClientStates
<1> HIDE DEF resolved
<1>7. restarted \in ClientStates(n) /\ Spares(resolved, restarted)
  <2>1. CASE restarted = resolved
    BY <1>5, <2>1 DEF Spares
  <2>2. CASE ~(c.restart = Quiet \/ ~CanStart)
    <3>1. c.restart \in CaptureSources
      BY <1>1, <2>2 DEF ClientStates, Sources
    <3>2. /\ again \in ClientStates(n) /\ again.starts = c.starts /\ again.stops = c.stops
          /\ again.active = resolved.active /\ again.socketOf = resolved.socketOf
          /\ again.socket = resolved.socket /\ again.pasted = resolved.pasted
      BY <1>1, <1>5, <1>6 DEF ClientStates
    <3>3. Len(again.starts) < NSessions /\ Len(again.stops) <= NStopCalls
      BY <3>2, <2>2, ClientIs DEF CanStart, LeavesClient
    <3>4. restarted = StartRecording(again, c.restart, "restart")
      BY <2>2
    <3> HIDE DEF again, restarted
    <3>5. restarted \in ClientStates(n)
      BY <3>1, <3>2, <3>3, <3>4, StartRecordingLeaves
    <3> DEFINE starts == Append(again.starts, [source |-> c.restart, by |-> "restart",
                                               got |-> "no", of |-> Nobody])
    <3>6. \A i \in DOMAIN starts : starts[i].got = "ok" =>
            i \in DOMAIN again.starts /\ starts[i] = again.starts[i]
      BY <3>2 DEF ClientStates
    <3>7. restarted = [again EXCEPT !.candidate = Nobody, !.pastedLive = FALSE,
                                    !.life = "starting", !.source = c.restart, !.starts = starts]
      BY <3>4 DEF StartRecording
    <3> HIDE DEF starts
    <3>8. /\ restarted.candidate = Nobody /\ restarted.starts = starts
          /\ restarted.active = again.active /\ restarted.pasted = again.pasted
          /\ restarted.socket = again.socket /\ restarted.socketOf = again.socketOf
      BY <3>2, <3>7 DEF ClientStates
    <3>9. Spares(resolved, restarted)
      BY <1>6, <3>2, <3>6, <3>8, SomeIs DEF Spares
    <3> QED
      BY <3>5, <3>9
  <2> QED
    BY <2>1, <2>2
<1>8. last = IF Resolves(c, s) THEN GoesOn(restarted) ELSE restarted
  BY DEF OnStopped, d, idle, resolved
<1> HIDE DEF restarted, last
<1>9. Spares(c, restarted)
  BY <1>3, <1>4, <1>5, <1>7, SparesAll
<1>10. Spares(c, GoesOn(restarted))
  BY <1>7, <1>9, GoesOnSpares, SparesAll
<1>11. Spares(c, last)
  BY <1>8, <1>9, <1>10
<1> QED
  BY <1>11 DEF last

\* Whatever a socket tells but its close.
LEMMA HandledSpares ==
  ASSUME NEW n \in Nat, LeavesClient(Client, n), NEW m \in SocketMessage,
         m.of = Nobody <=> m.kind \in {"closed", "lost", "error", "idle"},
         m.kind \notin {"closed", "lost"}
  PROVE  Spares(Client, Handled(Client, m))
<1> DEFINE c == Client
<1>1. c \in ClientStates(n) /\ m.kind \in Kinds /\ m.of \in Some /\ Nobody \in Some
  BY SomeIs DEF LeavesClient, SocketMessage
<1>2. CASE m.kind = "error"
  <2> DEFINE d == [c EXCEPT !.life = "error"]
  <2>1. d \in ClientStates(n) /\ Spares(c, d)
    <3>1. /\ d \in ClientStates(n) /\ d.active = c.active /\ d.candidate = c.candidate
          /\ d.starts = c.starts /\ d.socket = c.socket /\ d.socketOf = c.socketOf
          /\ d.pasted = c.pasted
      BY <1>1 DEF ClientStates, Lives
    <3> HIDE DEF d
    <3> QED
      BY <3>1, SparesFields
  <2>2. Handled(c, m) \in {d, GoesOn([d EXCEPT !.waiter = NoWaiter])}
    BY <1>2 DEF Handled, OnError
  <2> HIDE DEF d
  <2>3. Spares(d, GoesOn([d EXCEPT !.waiter = NoWaiter]))
    BY <2>1, ResolvedSpares
  <2> HIDE DEF c
  <2>4. Spares(c, GoesOn([d EXCEPT !.waiter = NoWaiter]))
    BY <2>1, <2>3, SparesAll
  <2> QED
    BY <2>1, <2>2, <2>4 DEF c
<1>3. CASE m.kind # "error" /\ ~IsExpected(c, m.of)
  <2>1. Handled(c, m) = c
    BY <1>3 DEF Handled
  <2>2. Spares(c, c)
    BY DEF Spares
  <2> QED
    BY <2>1, <2>2
<1>4. CASE m.kind # "error" /\ IsExpected(c, m.of)
  <2>1. m.kind # "idle" => m.of \in {c.active, c.socketOf} /\ m.of # Nobody
    BY <1>4 DEF IsExpected
  <2>2. CASE m.kind = "started"
    <3> DEFINE d == OnStarted(c, m.of)
    <3>1. /\ d.active = m.of /\ d.candidate = c.candidate
          /\ d.starts = c.starts /\ d.socket = c.socket /\ d.socketOf = c.socketOf
          /\ d.pasted = c.pasted /\ Handled(c, m) = d
      BY <1>1, <1>4, <2>2 DEF Handled, OnStarted, ClientStates
    <3> HIDE DEF d
    <3> QED
      BY <2>1, <2>2, <3>1, SparesFields
  <2>3. CASE m.kind = "idle"
    <3> DEFINE d == OnStatusIdle(c)
    <3>1. /\ d.active = Nobody /\ d.candidate = c.candidate
          /\ d.starts = c.starts /\ d.socket = c.socket /\ d.socketOf = c.socketOf
          /\ d.pasted = c.pasted /\ Handled(c, m) = d
      BY <1>1, <1>4, <2>3 DEF Handled, OnStatusIdle, ClientStates
    <3> HIDE DEF d
    <3> QED
      BY <3>1, SparesFields
  <2>4. CASE m.kind = "commit"
    <3> DEFINE d == OnCommit(c, m.of)
    <3>1. /\ d.active = c.active /\ d.candidate \in {c.candidate, m.of}
          /\ d.starts = c.starts /\ d.socket = c.socket /\ d.socketOf = c.socketOf
          /\ d.pasted = c.pasted /\ Handled(c, m) = d
      BY <1>1, <1>4, <2>4 DEF Handled, OnCommit, ClientStates
    <3> HIDE DEF d
    <3> QED
      BY <2>1, <2>4, <3>1, SparesFields
  <2>5. CASE m.kind \in {"stopping", "ack"}
    <3> DEFINE d == OnStatusStopping(c, m.of)
    <3>1. /\ d.active = m.of /\ d.candidate = c.candidate /\ d \in ClientStates(n)
          /\ d.starts = c.starts /\ d.socket = c.socket /\ d.socketOf = c.socketOf
          /\ d.pasted = c.pasted
      BY <1>1 DEF OnStatusStopping, ClientStates, Lives
    <3>2. Handled(c, m) \in {d, ResolveStopWaiter(d, m.of)}
      BY <1>4, <2>5 DEF Handled, OnStatusStopping, OnStopAck
    <3> HIDE DEF d
    <3>3. Spares(c, d)
      BY <2>1, <2>5, <3>1, SparesFields
    <3>4. Spares(d, ResolveStopWaiter(d, m.of))
      BY <3>1, ResolvedSpares
    <3> HIDE DEF c
    <3>5. Spares(c, ResolveStopWaiter(d, m.of))
      BY <3>3, <3>4, SparesAll
    <3> QED
      BY <3>2, <3>3, <3>5 DEF c
  <2>6. CASE m.kind = "stopped"
    <3>1. Handled(c, m) = OnStopped(c, m.of, TRUE)
      BY <1>4, <2>6 DEF Handled
    <3> QED
      BY <2>1, <2>6, <3>1, StoppedSpares
  <2>7. CASE m.kind = "discarded"
    <3>1. Handled(c, m) = OnStopped(c, m.of, FALSE)
      BY <1>4, <2>7 DEF Handled
    <3> QED
      BY <2>1, <2>7, <3>1, StoppedSpares
  <2> QED
    BY <1>1, <1>4, <2>2, <2>3, <2>4, <2>5, <2>6, <2>7 DEF Kinds
<1> QED
  BY <1>2, <1>3, <1>4

\* The close of a socket leaves no socket.
LEMMA CloseSpares ==
  ASSUME NEW n \in Nat, NEW c \in ClientStates(n), NEW normal \in BOOLEAN, NEW d,
         d = OnClose(c, normal)
  PROVE  /\ d.socket = Nobody /\ d.socketOf = Nobody /\ d.starts = c.starts
         /\ d.active = c.active /\ d.candidate = c.candidate
         /\ \A s \in HkSessions : s # c.candidate => d.pasted[s] = c.pasted[s]
<1> DEFINE b == [c EXCEPT !.socket = Nobody, !.socketOf = Nobody]
           e == [b EXCEPT !.life = "error"]
           f == [b EXCEPT !.waiter = NoWaiter]
<1>1. Nobody \in Some /\ Nobody \in 0..n /\ NoWaiter \in -1..NSessions
  BY HotkeyClientAssumption DEF Some, Nobody, NoWaiter
<1>2. /\ b \in ClientStates(n) /\ b.candidate = c.candidate /\ b.active = c.active
      /\ b.starts = c.starts /\ b.socket = Nobody /\ b.socketOf = Nobody /\ b.pasted = c.pasted
  BY <1>1 DEF ClientStates
<1>3. d \in {GoesOn(f), b, e}
  BY DEF OnClose, ResolveStopWaiter
<1> HIDE DEF b, NoWaiter
<1>4. /\ e.candidate = c.candidate /\ e.active = c.active
      /\ e.starts = c.starts /\ e.socket = Nobody /\ e.socketOf = Nobody /\ e.pasted = c.pasted
  BY <1>2 DEF ClientStates
<1>5. /\ f \in ClientStates(n) /\ f.candidate = c.candidate /\ f.active = c.active
      /\ f.starts = c.starts /\ f.socket = Nobody /\ f.socketOf = Nobody /\ f.pasted = c.pasted
  BY <1>1, <1>2 DEF ClientStates
<1> HIDE DEF e, f
<1>6. /\ GoesOn(f).candidate = f.candidate /\ GoesOn(f).active = f.active
      /\ GoesOn(f).starts = f.starts /\ GoesOn(f).socket = f.socket
      /\ GoesOn(f).socketOf = f.socketOf
      /\ \A s \in HkSessions : s # f.candidate => GoesOn(f).pasted[s] = f.pasted[s]
  BY <1>5, GoesOnIs
<1> QED
  BY <1>2, <1>3, <1>4, <1>5, <1>6

\* What is on its way to a socket.
Well(mail) == \A p \in DOMAIN mail :
                mail[p].of = Nobody <=> mail[p].kind \in {"closed", "lost", "error", "idle"}

LEMMA WellSentIs ==
  /\ WellSent <=> \A k \in DOMAIN sockets : Well(sockets[k].inbox)
  /\ WellSent' <=> \A k \in DOMAIN sockets' : Well(sockets'[k].inbox)
BY DEF WellSent, Well

LEMMA TellsIs ==
  ASSUME ClientIInv, ServedInv, NEW k \in DOMAIN sockets, SocketTells(k), NEW m,
         m = Head(sockets[k].inbox)
  PROVE  /\ m \in SocketMessage /\ m = sockets[k].inbox[1]
         /\ m.of = Nobody <=> m.kind \in {"closed", "lost", "error", "idle"}
         /\ Client' = Handled(Client, m) /\ LeavesClient(Handled(Client, m), Len(sockets))
         /\ sockets[k].inbox \in Seq(SocketMessage) /\ sockets[k].inbox # <<>>
         /\ sockets' = [sockets EXCEPT ![k].inbox = Tail(sockets[k].inbox)]
         /\ UNCHANGED <<served, serving, cancelled, jammed>>
         /\ WellSent'
<1>1. sockets[k] \in ClientSocket /\ sockets[k].inbox # <<>>
  BY ClientTyped DEF SocketTells
<1>2. sockets[k].inbox \in Seq(SocketMessage)
  BY <1>1 DEF ClientSocket
<1>3. m \in SocketMessage /\ m = sockets[k].inbox[1] /\ 1 \in DOMAIN sockets[k].inbox
  BY <1>1, <1>2
<1>4. m.of = Nobody <=> m.kind \in {"closed", "lost", "error", "idle"}
  BY <1>3 DEF ServedInv, WellSent
<1>5. LeavesClient(Handled(Client, m), Len(sockets))
  BY <1>3, ClientTyped, HandledLeaves
<1>6. ClientBecomes(Handled(Client, m))
  BY DEF SocketTells
<1>7. Client' = Handled(Client, m)
  BY <1>5, <1>6, ClientTyped, ClientIsLeft
<1>8. UNCHANGED <<served, serving, cancelled, jammed>>
      /\ sockets' = [sockets EXCEPT ![k].inbox = Tail(sockets[k].inbox)]
  BY DEF SocketTells
<1>9. WellSent'
  <2>1. sockets' = [sockets EXCEPT ![k] = [sockets[k] EXCEPT !.inbox = Tail(sockets[k].inbox)]]
    BY <1>8
  <2>2. [sockets[k] EXCEPT !.inbox = Tail(sockets[k].inbox)].inbox = Tail(sockets[k].inbox)
    BY <1>1 DEF ClientSocket
  <2>3. Well(Tail(sockets[k].inbox))
    <3>1. \A p \in DOMAIN Tail(sockets[k].inbox) :
            /\ p + 1 \in DOMAIN sockets[k].inbox
            /\ Tail(sockets[k].inbox)[p] = sockets[k].inbox[p + 1]
      BY <1>1, <1>2
    <3>2. Well(sockets[k].inbox)
      BY WellSentIs DEF ServedInv
    <3> QED
      BY <3>1, <3>2 DEF Well
  <2>4. \A q \in DOMAIN sockets' : sockets'[q] = sockets[q] \/ q = k
    BY <2>1
  <2>5. \A q \in DOMAIN sockets : Well(sockets[q].inbox)
    BY WellSentIs DEF ServedInv
  <2>6. DOMAIN sockets' = DOMAIN sockets /\ sockets'[k].inbox = Tail(sockets[k].inbox)
    BY <2>1, <2>2
  <2> QED
    BY <2>3, <2>4, <2>5, <2>6, WellSentIs
<1> QED
  BY <1>1, <1>2, <1>3, <1>4, <1>5, <1>7, <1>8, <1>9

LEMMA SocketTellsPastes ==
  ASSUME Undisturbed, NEW k \in DOMAIN sockets, SocketTells(k)
  PROVE  PasteIInv' /\ ServedInv'
<1> DEFINE n == Len(sockets)
           c == Client
           m == Head(sockets[k].inbox)
           d == Handled(c, m)
           X == cancelled
<1>0. ClientIInv /\ ServedInv /\ Normal /\ Normal'
  BY DEF Undisturbed
<1>1. /\ PasteFits(c, X) /\ NewsFits
      /\ (socket # Nobody => LineFits(c, Line, X))
      /\ c \in ClientStates(n) /\ n \in Nat /\ X \in SUBSET HkSessions
      /\ (socket # Nobody => Line \in Lines /\ Line.of = socketOf /\ socketOf \in HkSessions)
  BY UndisturbedIs
<1>2. /\ m \in SocketMessage /\ m = sockets[k].inbox[1]
      /\ (m.of = Nobody <=> m.kind \in {"closed", "lost", "error", "idle"})
      /\ Client' = d /\ LeavesClient(d, n)
      /\ sockets[k].inbox \in Seq(SocketMessage) /\ sockets[k].inbox # <<>>
      /\ sockets' = [sockets EXCEPT ![k].inbox = Tail(sockets[k].inbox)]
      /\ UNCHANGED <<served, serving, cancelled, jammed>> /\ WellSent'
  BY <1>0, TellsIs
<1>3. LeavesClient(c, n) /\ StartsFit
  BY <1>0, ClientTyped DEF ServedInv
<1>4. c.starts = startCalls /\ c.socket = socket /\ c.socketOf = socketOf
      /\ d.starts = startCalls' /\ d.socket = socket' /\ d.socketOf = socketOf'
  <2>1. Client'.starts = startCalls' /\ Client'.socket = socket' /\ Client'.socketOf = socketOf'
    BY DEF Client
  <2> HIDE DEF d
  <2> QED
    BY <1>2, <2>1, ClientIs
<1>5. CASE m.kind \in {"closed", "lost"}
  <2>1. PICK normal \in BOOLEAN : d = OnClose(c, normal)
    BY <1>5 DEF Handled
  <2> HIDE DEF d, c
  <2>2. PasteFits(d, X)
    BY <1>1, <2>1, CloseFits
  <2>3. /\ d.socket = Nobody /\ d.socketOf = Nobody /\ d.starts = c.starts
        /\ d.active = c.active /\ d.candidate = c.candidate
        /\ \A s \in HkSessions : s # c.candidate => d.pasted[s] = c.pasted[s]
    BY <1>1, <2>1, CloseSpares
  <2>4. \A s \in HkSessions : Unheard(c, s, X) => Unheard(d, s, X)
    BY <2>3, SomeIs DEF Unheard
  <2>5. StartsKept
    BY <1>4, <2>3 DEF StartsKept
  <2>6. NewsFits'
    BY <1>1, <1>2, <1>3, <2>4, <2>5, NewsKept DEF c
  <2>7. ServedInv'
    BY <1>0, <1>1, <1>2, <2>5, ServedKept
  <2> QED
    BY <1>2, <1>4, <2>2, <2>3, <2>6, <2>7 DEF PasteIInv
<1>6. CASE m.kind \notin {"closed", "lost"}
  <2>1. k = socket
    BY <1>0, <1>6 DEF SocketTells, Normal
  <2>2. socket # Nobody
    <3>1. DOMAIN sockets = 1..Len(sockets)
      BY <1>0, ClientTyped
    <3> QED
      BY <2>1, <3>1 DEF Nobody
  <2> DEFINE l == Line
             h == [l EXCEPT !.mail = Tail(l.mail)]
  <2>3. l \in Lines /\ l.mail = sockets[k].inbox /\ l.mail # <<>> /\ l.of = socketOf
    BY <1>0, <1>1, <1>2, <2>1, <2>2, LineIs
  <2>4. HearsNext(c, n, l, h, X)
    BY <1>1, <1>3, <2>2, <2>3 DEF HearsNext
  <2>5. m = l.mail[1]
    BY <1>2, <2>3
  <2>6. PasteFits(d, X) /\ LineFits(d, h, X)
    <3> HIDE DEF l, h, m
    <3> QED
      BY <1>2, <1>6, <2>4, <2>5, HandledFits
  <2>7. Spares(c, d)
    BY <1>1, <1>2, <1>3, <1>6, HandledSpares
  <2> HIDE DEF d, c
  <2>8. \A s \in HkSessions : Unheard(c, s, X) => Unheard(d, s, X)
    BY <2>7 DEF Unheard, Spares
  <2>9. StartsKept
    BY <1>4, <2>7 DEF StartsKept, Spares
  <2>10. NewsFits'
    BY <1>1, <1>2, <1>3, <2>8, <2>9, NewsKept DEF c
  <2>11. socket' = socket /\ socketOf' = socketOf
    <3>1. d.socketOf = h.of /\ h.of = l.of
      BY <2>3, <2>6 DEF LineFits, Follows, Lines
    <3> QED
      BY <1>4, <2>3, <2>7, <3>1 DEF Spares
  <2>12. Line' = h
    <3>1. sockets'[k].inbox = Tail(sockets[k].inbox) /\ sockets'[k].open = sockets[k].open
      <4>1. sockets[k] \in ClientSocket
        BY <1>0, ClientTyped
      <4> QED
        BY <1>2, <4>1 DEF ClientSocket
    <3>2. Line' = [of |-> socketOf, at |-> served[socketOf].at, open |-> sockets[k].open,
                   mail |-> Tail(sockets[k].inbox)]
      BY <1>2, <2>1, <2>11, <3>1 DEF Line
    <3>3. h = [of |-> socketOf, at |-> served[socketOf].at, open |-> sockets[k].open,
               mail |-> Tail(sockets[k].inbox)]
      <4>1. l = [of |-> socketOf, at |-> served[socketOf].at, open |-> sockets[k].open,
                 mail |-> sockets[k].inbox]
        BY <2>1 DEF Line
      <4> DEFINE t == Tail(sockets[k].inbox)
      <4>2. h = [l EXCEPT !.mail = t]
        BY <2>3
      <4> HIDE DEF l, h, t
      <4>3. h = [of |-> socketOf, at |-> served[socketOf].at, open |-> sockets[k].open,
                 mail |-> t]
        BY <4>1, <4>2
      <4> QED
        BY <4>3 DEF t
    <3> QED
      BY <3>2, <3>3
  <2> HIDE DEF h, l
  <2>13. ServedInv'
    BY <1>0, <1>1, <1>2, <2>9, ServedKept
  <2> QED
    BY <1>2, <2>6, <2>10, <2>12, <2>13 DEF PasteIInv
<1> QED
  BY <1>5, <1>6

LEMMA StopAnsweredPastes ==
  ASSUME Undisturbed, NEW j \in DOMAIN stopCalls, StopAnswered(j)
  PROVE  PasteIInv' /\ ServedInv'
<1> DEFINE n == Len(sockets)
           stops == [stopCalls EXCEPT ![j] = StopDone]
           c == [Client EXCEPT !.stops[j] = StopDone]
           d == IF stopCalls[j].by = "window" THEN [c EXCEPT !.action = Quiet] ELSE c
           X == cancelled
<1>0. ClientIInv /\ ServedInv /\ PasteIInv /\ Normal
  BY DEF Undisturbed
<1>1. /\ PasteFits(Client, X) /\ (socket # Nobody => LineFits(Client, Line, X))
      /\ Client \in ClientStates(n) /\ n \in Nat /\ X \in SUBSET HkSessions
  BY UndisturbedIs
<1>2. stopCalls \in Seq(StopCall) /\ stopCalls[j] \in StopCall
  BY <1>0, CallsAre
<1>3. ClientBecomes(d) /\ UNCHANGED <<sockets, served, serving, jammed, cancelled>>
      /\ stopCalls[j].at = "answer"
  <2>1. stopCalls[j].got = "ok"
    BY <1>2 DEF StopAnswered, StopCall
  <2> QED
    BY <2>1 DEF StopAnswered, ClientKeeps, serviceVars
<1>4. c = [Client EXCEPT !.stops = stops]
  BY ClientIs
<1>5. /\ \A i \in DOMAIN stops : stops[i].at = "ack" => /\ i \in DOMAIN stopCalls
                                                       /\ stops[i] = stopCalls[i]
      /\ \A i \in DOMAIN stopCalls : stopCalls[i].at = "ack" => /\ i \in DOMAIN stops
                                                               /\ stops[i] = stopCalls[i]
  <2>1. StopDone.at = "done"
    BY DEF StopDone
  <2> HIDE DEF StopDone
  <2> QED
    BY <1>2, <1>3, <2>1
<1> HIDE DEF stops
<1>6. /\ c.life = life /\ c.active = active /\ c.action = action /\ c.candidate = candidate
      /\ c.pastedLive = pastedLive /\ c.pasted = pasted /\ c.starts = startCalls
      /\ c.stops = stops /\ c.socket = socket /\ c.socketOf = socketOf
  BY <1>1, <1>4, ClientIs DEF ClientStates
<1>7. \A a \in {c, [c EXCEPT !.action = Quiet]} :
        /\ a.life = life /\ a.active = active /\ a.action \in {action, Quiet}
        /\ a.candidate = candidate /\ a.pastedLive = pastedLive /\ a.pasted = pasted
        /\ a.starts = startCalls /\ a.stops = stops /\ a.socket = socket
        /\ a.socketOf = socketOf
  <2>1. DOMAIN c = DOMAIN Client
    BY <1>4
  <2>2. c = [c EXCEPT !.life = c.life]
    BY <1>4
  <2> QED
    BY <1>1, <1>4, <1>6 DEF ClientStates
<1>8. /\ d.life = life /\ d.active = active /\ d.action \in {action, Quiet}
      /\ d.candidate = candidate /\ d.pastedLive = pastedLive /\ d.pasted = pasted
      /\ d.starts = startCalls /\ d.stops = stops /\ d.socket = socket /\ d.socketOf = socketOf
  BY <1>7
<1> HIDE DEF d, c
<1>9. /\ OneCall(Client) => OneCall(d)
      /\ IsStarting(d) <=> IsStarting(Client)
      /\ Waits(d) <=> Waits(Client)
      /\ PasteWaits(d) <=> PasteWaits(Client)
  BY <1>5, <1>8, ClientIs DEF OneCall, IsStarting, Waits, PasteWaits
<1>10. PasteFits(d, X)
  BY <1>1, <1>8, <1>9, ClientIs DEF PasteFits
<1>11. socket # Nobody => LineFits(d, Line, X)
  <2> SUFFICES ASSUME socket # Nobody PROVE LineFits(d, Line, X)
    OBVIOUS
  <2>1. LineFits(Client, Line, X)
    BY <1>1
  <2>2. /\ Follows(d, Line) /\ OpensFirst(d, Line, X) /\ AwaitsResult(d, Line)
        /\ PastedBefore(d, Line) /\ HearsStart(d, Line)
    BY <1>8, <1>9, <2>1, ClientIs
       DEF LineFits, Follows, OpensFirst, AwaitsResult, PastedBefore, HearsStart
  <2>3. HoldsCancelled(d, Line, X)
    BY <1>8, <1>9, <2>1, ClientIs DEF LineFits, HoldsCancelled, Quiet
  <2> QED
    BY <1>8, <2>1, <2>2, <2>3, ClientIs DEF LineFits
<1>12. StartsKept
  BY <1>3, <1>8 DEF ClientBecomes, StartsKept
<1> QED
  BY <1>0, <1>1, <1>3, <1>8, <1>10, <1>11, <1>12, UserPastes

LEMMA ClosesAre ==
  ASSUME ClientIInv
  PROVE  ClientCloses \in Seq(ClientSocket) /\ Len(ClientCloses) = Len(sockets)
BY ClosesStay, ClientTyped

\* A message more.
LEMMA WellMore ==
  ASSUME NEW mail \in Seq(SocketMessage), Well(mail), NEW kind \in Kinds, NEW s \in Some,
         s = Nobody <=> kind \in {"closed", "lost", "error", "idle"}
  PROVE  Well(Append(mail, Message(kind, s)))
<1>1. \A p \in DOMAIN Append(mail, Message(kind, s)) :
        \/ p \in DOMAIN mail /\ Append(mail, Message(kind, s))[p] = mail[p]
        \/ Append(mail, Message(kind, s))[p] = Message(kind, s)
  BY MessageIs
<1>2. Message(kind, s).of = s /\ Message(kind, s).kind = kind
  BY DEF Message
<1> QED
  BY <1>1, <1>2 DEF Well

LEMMA ClosesWell ==
  ASSUME ClientIInv, WellSent
  PROVE  \A k \in DOMAIN ClientCloses : Well(ClientCloses[k].inbox)
<1>1. \A k \in DOMAIN sockets : Well(sockets[k].inbox) /\ sockets[k] \in ClientSocket
  BY WellSentIs, CallsAre
<1>2. CASE ClientCloses = sockets
  BY <1>1, <1>2
<1>3. CASE /\ socket # Nobody
           /\ ClientCloses = [sockets EXCEPT ![socket].open = "closing",
                                 ![socket].inbox = Append(@, Message("closed", Nobody))]
  <2> SUFFICES ASSUME NEW k \in DOMAIN sockets PROVE Well(ClientCloses[k].inbox)
    BY <1>3
  <2>1. CASE k # socket
    BY <1>1, <1>3, <2>1
  <2>2. CASE k = socket
    <3>1. ClientCloses[k].inbox = Append(sockets[k].inbox, Message("closed", Nobody))
      <4>1. ClientCloses[k] = [sockets[k] EXCEPT !.open = "closing",
                                 !.inbox = Append(@, Message("closed", Nobody))]
        BY <1>3, <2>2
      <4> QED
        BY <1>1, <4>1 DEF ClientSocket
    <3>2. sockets[k].inbox \in Seq(SocketMessage) /\ Well(sockets[k].inbox)
      BY <1>1 DEF ClientSocket
    <3> QED
      BY <3>1, <3>2, SomeIs, WellMore DEF Kinds
  <2> QED
    BY <2>1, <2>2
<1> QED
  BY <1>2, <1>3 DEF ClientCloses

\* The answer to a start begins a new socket, of a session the client knows nothing of.
LEMMA StartAnsweredPastes ==
  ASSUME Undisturbed, NEW i \in DOMAIN startCalls, StartAnswered(i)
  PROVE  PasteIInv' /\ ServedInv'
<1> DEFINE n == Len(sockets)
           call == startCalls[i]
           starts == [startCalls EXCEPT ![i] = StartDone]
           c == [Client EXCEPT !.starts[i] = StartDone]
           X == cancelled
<1>0. ClientIInv /\ ServedInv /\ PasteIInv /\ Normal
  BY DEF Undisturbed
<1>1. /\ PasteFits(Client, X) /\ NewsFits /\ (socket # Nobody => LineFits(Client, Line, X))
      /\ Client \in ClientStates(n) /\ n \in Nat /\ X \in SUBSET HkSessions
  BY UndisturbedIs
<1>2. startCalls \in Seq(StartCall) /\ call \in StartCall
  BY <1>0, CallsAre
<1>3. call.got \in {"ok", "failed"} /\ UNCHANGED <<served, serving, jammed, cancelled>>
  BY DEF StartAnswered, ClientKeeps
<1>4. IsStarting(Client) /\ candidate = Nobody
  <2>1. IsStarting(Client)
    BY <1>3, CallsClear
  <2> QED
    BY <1>1, <2>1, ClientIs DEF PasteFits
<1>5. /\ DOMAIN starts = DOMAIN startCalls /\ starts[i].got = "done"
      /\ \A q \in DOMAIN starts : starts[q].got = "done"
  <2>1. StartDone.got = "done"
    BY DEF StartDone
  <2>2. \A q \in DOMAIN startCalls : startCalls[q].got # "done" => q = i
    BY <1>1, <1>3, ClientIs DEF PasteFits, OneCall
  <2> HIDE DEF StartDone
  <2> QED
    BY <1>2, <2>1, <2>2
<1>6. c = [Client EXCEPT !.starts = starts]
  BY ClientIs
<1> HIDE DEF starts
<1>7. /\ c.life = life /\ c.active = active /\ c.action = action /\ c.candidate = candidate
      /\ c.pastedLive = pastedLive /\ c.pasted = pasted /\ c.starts = starts
      /\ c.stops = stopCalls /\ c.socket = socket /\ c.socketOf = socketOf
  BY <1>1, <1>6, ClientIs DEF ClientStates
<1>8. CASE call.got = "ok"
  <2> DEFINE d == [c EXCEPT !.candidate = Nobody, !.pastedLive = FALSE, !.active = call.of,
                            !.life = "starting", !.source = call.source,
                            !.socket = n + 1, !.socketOf = call.of]
             l == [of |-> call.of, at |-> served[call.of].at, open |-> "connecting", mail |-> <<>>]
  <2>1. ClientBecomes(d) /\ sockets' = Append(ClientCloses, [open |-> "connecting", inbox |-> <<>>])
    BY <1>8 DEF StartAnswered
  <2>2. /\ d.life = "starting" /\ d.active = call.of /\ d.candidate = Nobody
        /\ d.pasted = pasted /\ d.starts = starts
        /\ d.stops = stopCalls /\ d.socket = n + 1 /\ d.socketOf = call.of
    BY <1>1, <1>6, ClientIs DEF ClientStates
  <2> HIDE DEF d, c
  <2>3. /\ call.of \in HkSessions /\ served[call.of].at # "none"
        /\ Unheard(Client, call.of, X)
    BY <1>0, <1>1, <1>8 DEF ServedInv, StartsFit, NewsFits
  <2>4. ~IsStarting(d) /\ OneCall(d) /\ (Waits(d) <=> Waits(Client))
        /\ (PasteWaits(d) <=> PasteWaits(Client))
    BY <1>1, <1>5, <2>2, ClientIs DEF IsStarting, OneCall, Waits, PasteWaits, PasteFits
  <2>5. n + 1 # Nobody /\ Nobody \notin X
    BY <1>1, SomeIs DEF Nobody
  <2>6. PasteFits(d, X)
    BY <1>1, <2>2, <2>4, <2>5, ClientIs DEF PasteFits
  <2>7. LineFits(d, l, X)
    <3>1. /\ l.of = call.of /\ l.at = served[call.of].at /\ l.open = "connecting"
          /\ DOMAIN l.mail = {}
      OBVIOUS
    <3> HIDE DEF l, call
    <3>2. d.pasted[l.of] = 0 /\ l.of \notin X
      BY <2>2, <2>3, <3>1, ClientIs DEF Unheard
    <3>3. InOrder(l) /\ InTime(l)
      BY <3>1 DEF InOrder, InTime
    <3>4. Follows(d, l) /\ OpensFirst(d, l, X)
      BY <2>2, <2>3, <3>1, <3>2 DEF Follows, OpensFirst
    <3>5. AwaitsResult(d, l) /\ PastedBefore(d, l) /\ HearsStart(d, l) /\ HoldsCancelled(d, l, X)
      BY <2>2, <2>4, <3>2 DEF AwaitsResult, PastedBefore, HearsStart, HoldsCancelled
    <3> QED
      BY <2>2, <3>3, <3>4, <3>5 DEF LineFits
  <2>8. Line' = l
    <3>1. socket' = n + 1 /\ socketOf' = call.of
      BY <2>1, <2>2 DEF ClientBecomes
    <3>2. sockets'[n + 1] = [open |-> "connecting", inbox |-> <<>>]
      BY <1>0, <1>1, <2>1, ClosesAre
    <3> QED
      BY <1>3, <3>1, <3>2 DEF Line
  <2>9. NewsFits'
    <3>1. \A q \in DOMAIN startCalls' : startCalls'[q].got # "ok"
      BY <1>5, <2>1, <2>2 DEF ClientBecomes
    <3>2. /\ Client'.active = call.of /\ Client'.socketOf = call.of /\ Client'.candidate = Nobody
          /\ Client'.pasted = pasted
      BY <2>1, <2>2, BecomesIs
    <3>3. ASSUME NEW s \in HkSessions, served[s].at = "none" PROVE Unheard(Client', s, X)
      <4>1. Unheard(Client, s, X) /\ s # call.of /\ s # Nobody
        BY <1>1, <2>3, <3>3, SomeIs DEF NewsFits
      <4> QED
        BY <3>2, <4>1, ClientIs DEF Unheard
    <3> QED
      BY <1>3, <3>1, <3>3 DEF NewsFits
  <2>10. PasteFits(Client', X) /\ LineFits(Client', l, X)
    BY <2>1, <2>6, <2>7, BecomesIs, AlikeFits
  <2>11. WellSent'
    <3>1. \A k \in DOMAIN ClientCloses : Well(ClientCloses[k].inbox)
      BY <1>0, ClosesWell DEF ServedInv
    <3>2. ASSUME NEW k \in DOMAIN sockets' PROVE Well(sockets'[k].inbox)
      <4>1. \/ sockets'[k] = ClientCloses[k] /\ k \in DOMAIN ClientCloses
            \/ sockets'[k] = [open |-> "connecting", inbox |-> <<>>]
        BY <1>0, <2>1, <3>2, ClosesAre
      <4> QED
        BY <3>1, <4>1 DEF Well
    <3> QED
      BY <3>2, WellSentIs
  <2>12. StartsKept
    BY <1>5, <2>1, <2>2 DEF ClientBecomes, StartsKept
  <2>13. ServedInv'
    BY <1>0, <1>1, <1>3, <2>11, <2>12, ServedKept
  <2> QED
    BY <1>3, <2>8, <2>9, <2>10, <2>13 DEF PasteIInv
<1>9. CASE call.got = "failed"
  <2> DEFINE d == IF call.by = "key" THEN ToggleFails(c) ELSE c
  <2>1. ClientBecomes(d) /\ sockets' = sockets
    BY <1>9 DEF StartAnswered
  <2>2. /\ d.life \in {life, "error"} /\ d.active = active /\ d.action = action
        /\ d.candidate = Nobody /\ d.pastedLive = pastedLive /\ d.pasted = pasted
        /\ d.starts = starts /\ d.stops = stopCalls /\ d.socket = socket
        /\ d.socketOf = socketOf
    <3>1. /\ ToggleFails(c).life = "error" /\ ToggleFails(c).active = active
          /\ ToggleFails(c).action = action /\ ToggleFails(c).candidate = candidate
          /\ ToggleFails(c).pastedLive = pastedLive /\ ToggleFails(c).pasted = pasted
          /\ ToggleFails(c).starts = starts /\ ToggleFails(c).stops = stopCalls
          /\ ToggleFails(c).socket = socket /\ ToggleFails(c).socketOf = socketOf
      BY <1>1, <1>6, ClientIs DEF ClientStates, ToggleFails
    <3> QED
      BY <1>4, <1>7, <3>1
  <2> HIDE DEF d, c
  <2>3. ~IsStarting(d) /\ OneCall(d) /\ (Waits(d) <=> Waits(Client))
        /\ (PasteWaits(d) <=> PasteWaits(Client))
    BY <1>1, <1>5, <2>2, ClientIs DEF IsStarting, OneCall, Waits, PasteWaits, PasteFits
  <2>4. PasteFits(d, X)
    <3>1. Nobody \notin X
      BY <1>1, SomeIs
    <3> QED
      BY <1>1, <2>2, <2>3, <3>1, ClientIs DEF PasteFits
  <2>5. socket # Nobody => LineFits(d, Line, X)
    <3> SUFFICES ASSUME socket # Nobody PROVE LineFits(d, Line, X)
      OBVIOUS
    <3>1. LineFits(Client, Line, X) /\ ~Due(Line)
      BY <1>1, <1>4 DEF LineFits, AwaitsResult
    <3>2. /\ Follows(d, Line) /\ OpensFirst(d, Line, X) /\ AwaitsResult(d, Line)
          /\ PastedBefore(d, Line) /\ HearsStart(d, Line) /\ HoldsCancelled(d, Line, X)
      BY <1>4, <2>2, <3>1, ClientIs DEF LineFits, Follows, OpensFirst, AwaitsResult,
         PastedBefore, HearsStart, HoldsCancelled
    <3> QED
      BY <2>2, <3>1, <3>2 DEF LineFits
  <2>6. StartsKept
    BY <1>5, <2>1, <2>2 DEF ClientBecomes, StartsKept
  <2> QED
    BY <1>0, <1>1, <1>3, <2>1, <2>2, <2>4, <2>5, <2>6, UserPastes
<1> QED
  BY <1>3, <1>8, <1>9

-----------------------------------------------------------------------------

\* What the service does to its calls the client does not notice.
LEMMA ServiceSame ==
  ASSUME ClientRests, DOMAIN startCalls' = DOMAIN startCalls, DOMAIN stopCalls' = DOMAIN stopCalls,
         \A i \in DOMAIN startCalls : startCalls'[i].got = "done" <=> startCalls[i].got = "done",
         \A j \in DOMAIN stopCalls : /\ stopCalls'[j].at = stopCalls[j].at
                                     /\ stopCalls'[j].act = stopCalls[j].act
  PROVE  Alike(Client, Client')
<1>1. /\ Client'.life = life /\ Client'.active = active /\ Client'.action = action
      /\ Client'.candidate = candidate /\ Client'.pastedLive = pastedLive
      /\ Client'.pasted = pasted /\ Client'.socket = socket /\ Client'.socketOf = socketOf
      /\ Client'.starts = startCalls' /\ Client'.stops = stopCalls'
  BY DEF Client, ClientRests
<1>2. /\ OneCall(Client) => OneCall(Client')
      /\ IsStarting(Client') <=> IsStarting(Client)
      /\ Waits(Client') <=> Waits(Client)
      /\ PasteWaits(Client') <=> PasteWaits(Client)
  BY <1>1, ClientIs DEF OneCall, IsStarting, Waits, PasteWaits
<1> QED
  BY <1>1, <1>2, ClientIs DEF Alike

LEMMA ServicePastes ==
  ASSUME Undisturbed, ClientRests, Alike(Client, Client'), NewsFits',
         socket # Nobody => LineFits(Client, Line', cancelled)
  PROVE  PasteIInv'
<1>1. PasteFits(Client, cancelled) /\ cancelled' = cancelled /\ socket' = socket
  BY UndisturbedIs DEF ClientRests
<1>2. PasteFits(Client', cancelled) /\ (socket # Nobody => LineFits(Client', Line', cancelled))
  BY <1>1, AlikeFits
<1> QED
  BY <1>1, <1>2 DEF PasteIInv

\* The answers that the service gives are for sessions that have just begun.
LEMMA ServiceNews ==
  ASSUME Undisturbed, ClientRests, Alike(Client, Client'),
         \A s \in HkSessions : served'[s].at = "none" => served[s].at = "none",
         \A i \in DOMAIN startCalls' : startCalls'[i].got = "ok" =>
           \/ /\ i \in DOMAIN startCalls /\ startCalls[i].got = "ok"
              /\ startCalls[i].of = startCalls'[i].of
           \/ startCalls'[i].of \in HkSessions /\ served[startCalls'[i].of].at = "none"
  PROVE  NewsFits'
<1>1. NewsFits /\ cancelled' = cancelled
  BY UndisturbedIs DEF ClientRests
<1>2. \A s : Unheard(Client, s, cancelled) => Unheard(Client', s, cancelled)
  BY AlikeFits
<1> QED
  BY <1>1, <1>2 DEF NewsFits

-----------------------------------------------------------------------------

\* A message of rank r may follow what is on its way in l, whose session gets to at.
MayTell(l, at, open, r) ==
  /\ at # "none" /\ (at = "recording" => l.at = "recording")
  /\ at \in {"recording", "ending"} => l.at \in {"recording", "ending"}
  /\ l.at \in {"ended", "over"} => at \in {"ended", "over"}
  /\ l.open = "open" =>
       /\ r \in 2..5 /\ open \in {"open", "closing"}
       /\ r = 2 => at = "recording"
       /\ r = 3 => at # "recording" /\ l.at \in {"recording", "ending"}
       /\ r = 4 => at \in {"ended", "over"} /\ l.at \in {"recording", "ending"}
       /\ at = "recording" => r = 2
       /\ at = "ending" => r <= 3
       /\ l.at \in {"recording", "ending"} =>
            (at \in {"recording", "ending"} /\ open = "open") \/ r = 4

LEMMA ToldIs ==
  ASSUME NEW l \in Lines, NEW k \in Lines, NEW m \in SocketMessage, k.of = l.of,
         k.mail = Append(l.mail, m)
  PROVE  /\ Len(l.mail) \in Nat /\ Len(l.mail) + 1 \in DOMAIN k.mail
         /\ Len(k.mail) = Len(l.mail) + 1 /\ k.mail[Len(l.mail) + 1] = m
         /\ \A p \in DOMAIN k.mail : p \in DOMAIN l.mail \/ p = Len(l.mail) + 1
         /\ \A p \in DOMAIN l.mail : /\ p \in Nat /\ p <= Len(l.mail) /\ p \in DOMAIN k.mail
                                     /\ k.mail[p] = l.mail[p] /\ Ranked(k, p) = Ranked(l, p)
         /\ Ranked(k, Len(l.mail) + 1) = Rank(m, l.of)
<1>1. l.mail \in Seq(SocketMessage)
  BY DEF Lines
<1>2. /\ Len(l.mail) \in Nat /\ Len(l.mail) + 1 \in DOMAIN Append(l.mail, m)
      /\ Len(Append(l.mail, m)) = Len(l.mail) + 1 /\ Append(l.mail, m)[Len(l.mail) + 1] = m
      /\ \A p \in DOMAIN Append(l.mail, m) : p \in DOMAIN l.mail \/ p = Len(l.mail) + 1
      /\ \A p \in DOMAIN l.mail : /\ p \in Nat /\ p <= Len(l.mail)
                                  /\ p \in DOMAIN Append(l.mail, m)
                                  /\ Append(l.mail, m)[p] = l.mail[p]
  BY <1>1
<1> QED
  BY <1>2 DEF Ranked

LEMMA ToldFits ==
  ASSUME NEW l \in Lines, NEW k \in Lines, NEW m \in SocketMessage, NEW c, NEW X,
         LineFits(c, l, X), l.open = "open", k.of = l.of, k.mail = Append(l.mail, m),
         MayTell(l, k.at, k.open, Rank(m, l.of))
  PROVE  LineFits(c, k, X)
<1> DEFINE r == Rank(m, l.of)
           n == Len(l.mail) + 1
<1>1. /\ n \in DOMAIN k.mail /\ n \in Nat /\ Ranked(k, n) = r
      /\ \A p \in DOMAIN k.mail : p \in DOMAIN l.mail \/ p = n
      /\ \A p \in DOMAIN l.mail : /\ p < n /\ p \in DOMAIN k.mail
                                  /\ k.mail[p] = l.mail[p] /\ Ranked(k, p) = Ranked(l, p)
  <2>1. /\ Len(l.mail) \in Nat /\ Len(l.mail) + 1 \in DOMAIN k.mail
        /\ \A p \in DOMAIN k.mail : p \in DOMAIN l.mail \/ p = Len(l.mail) + 1
        /\ \A p \in DOMAIN l.mail : /\ p \in Nat /\ p <= Len(l.mail) /\ p \in DOMAIN k.mail
                                    /\ k.mail[p] = l.mail[p] /\ Ranked(k, p) = Ranked(l, p)
        /\ Ranked(k, Len(l.mail) + 1) = Rank(m, l.of)
    BY ToldIs
  <2>2. \A p \in DOMAIN l.mail : p < Len(l.mail) + 1
    BY <2>1
  <2> QED
    BY <2>1, <2>2
<1>2. MayTell(l, k.at, k.open, r) /\ r \in 2..5 /\ k.open \in {"open", "closing"}
  BY DEF MayTell
<1>3. \A p \in DOMAIN l.mail : Ranked(l, p) \in 1..5
  BY RankIs DEF Ranked
<1> HIDE DEF r, n
<1>4. \A p \in DOMAIN l.mail :
        /\ l.at = "recording" => Ranked(l, p) <= 2
        /\ l.at = "ending" => Ranked(l, p) <= 3
        /\ Ranked(l, p) \in {3, 4} => l.at # "recording"
        /\ Ranked(l, p) = 4 => l.at \in {"ended", "over"}
        /\ Ranked(l, p) <= 2 => Due(l)
  BY DEF LineFits, InTime
<1>5. \A p \in DOMAIN l.mail : Ranked(l, p) <= r /\ (Ranked(l, p) \in {1, 4} => Ranked(l, p) # r)
  BY <1>2, <1>3, <1>4 DEF MayTell
<1>6. InOrder(k)
  <2> SUFFICES ASSUME NEW p \in DOMAIN k.mail, NEW q \in DOMAIN k.mail, p < q
               PROVE  Ranked(k, p) <= Ranked(k, q)
                      /\ (Ranked(k, p) \in {1, 4} => Ranked(k, p) # Ranked(k, q))
    BY DEF InOrder
  <2>1. CASE q \in DOMAIN l.mail
    <3>1. p \in DOMAIN l.mail
      <4>1. p # n
        BY <1>1, <2>1
      <4> QED
        BY <1>1, <4>1
    <3> QED
      BY <1>1, <2>1, <3>1 DEF LineFits, InOrder
  <2>2. CASE q = n
    <3>1. p \in DOMAIN l.mail
      BY <1>1, <2>2
    <3> QED
      BY <1>1, <1>5, <2>2, <3>1
  <2> QED
    BY <1>1, <2>1, <2>2
<1>7. Due(l) => Due(k)
  <2>1. ASSUME NEW p \in DOMAIN l.mail, Ranked(l, p) = 4 PROVE Due(k)
    BY <1>1, <2>1 DEF Due
  <2>2. CASE l.at \in {"recording", "ending"}
    BY <1>1, <1>2, <2>2 DEF Due, MayTell
  <2> QED
    BY <2>1, <2>2 DEF Due
<1>8. Due(k) => Due(l)
  <2>1. CASE k.at \in {"recording", "ending"}
    BY <1>2, <2>1 DEF Due, MayTell
  <2>2. ASSUME NEW p \in DOMAIN k.mail, Ranked(k, p) = 4 PROVE Due(l)
    <3>1. CASE p \in DOMAIN l.mail
      BY <1>1, <2>2, <3>1 DEF Due
    <3>2. CASE p = n
      BY <1>1, <1>2, <2>2, <3>2 DEF Due, MayTell
    <3> QED
      BY <1>1, <3>1, <3>2
  <2> QED
    BY <2>1, <2>2 DEF Due
<1>9. InTime(k)
  <2> SUFFICES ASSUME NEW p \in DOMAIN k.mail
               PROVE  /\ k.open # "connecting"
                      /\ Ranked(k, p) \in {3, 4} => k.at # "recording"
                      /\ Ranked(k, p) = 4 => k.at \in {"ended", "over"}
                      /\ Ranked(k, p) <= 2 => Due(k)
                      /\ k.open = "open" /\ k.at = "recording" => Ranked(k, p) <= 2
                      /\ k.open = "open" /\ k.at = "ending" => Ranked(k, p) <= 3
    BY DEF InTime
  <2>1. CASE p \in DOMAIN l.mail
    <3>1. Ranked(k, p) = Ranked(l, p) /\ Ranked(l, p) \in 1..5
      BY <1>1, <1>3, <2>1
    <3> QED
      BY <1>2, <1>4, <1>7, <2>1, <3>1 DEF MayTell
  <2>2. CASE p = n
    <3>1. Ranked(k, p) = r
      BY <1>1, <2>2
    <3>2. r = 2 => Due(k)
      BY <1>2, <1>7 DEF MayTell, Due
    <3> QED
      BY <1>2, <3>1, <3>2 DEF MayTell
  <2> QED
    BY <1>1, <2>1, <2>2
<1>10. Follows(c, k) /\ OpensFirst(c, k, X)
  BY <1>2 DEF LineFits, Follows, OpensFirst, MayTell
<1>11. AwaitsResult(c, k) /\ (c.candidate # Nobody => Due(k) \/ OnlyCloses(k))
  BY <1>7, <1>8 DEF LineFits, AwaitsResult, OnlyCloses
<1>12. PastedBefore(c, k)
  <2> SUFFICES ASSUME c.pasted[l.of] > 0
               PROVE  /\ k.at # "recording" /\ (Due(k) => c.pastedLive)
                      /\ \A p \in DOMAIN k.mail : Ranked(k, p) > 2
    BY DEF PastedBefore
  <2>1. /\ l.at # "recording" /\ (Due(l) => c.pastedLive)
        /\ \A p \in DOMAIN l.mail : Ranked(l, p) > 2
    BY DEF LineFits, PastedBefore
  <2>2. k.at # "recording" /\ r > 2
    BY <1>2, <2>1 DEF MayTell
  <2> QED
    BY <1>1, <1>8, <2>1, <2>2
<1>13. \A p \in DOMAIN k.mail : Ranked(k, p) # 1 \/ (p \in DOMAIN l.mail /\ Ranked(l, p) = 1)
  BY <1>1, <1>2
<1>14. HearsStart(c, k) /\ HoldsCancelled(c, k, X)
  BY <1>8, <1>13 DEF LineFits, HearsStart, HoldsCancelled
<1> QED
  BY <1>6, <1>9, <1>10, <1>11, <1>12, <1>14 DEF LineFits

\* On its way to a socket that does not hear, nothing changes but the session.
LEMMA UntoldFits ==
  ASSUME NEW l \in Lines, NEW k \in Lines, NEW c, NEW X, NEW r,
         LineFits(c, l, X), l.open # "open", k.of = l.of, k.mail = l.mail, k.open = l.open,
         MayTell(l, k.at, k.open, r)
  PROVE  LineFits(c, k, X)
<1>1. \A p \in DOMAIN l.mail : Ranked(k, p) = Ranked(l, p)
  BY DEF Ranked
<1>2. /\ k.at # "none" /\ (k.at = "recording" => l.at = "recording")
      /\ k.at \in {"recording", "ending"} => l.at \in {"recording", "ending"}
      /\ l.at \in {"ended", "over"} => k.at \in {"ended", "over"}
  BY DEF MayTell
<1>3. \A p \in DOMAIN l.mail : /\ l.open = "closing"
                               /\ Ranked(l, p) \in {3, 4} => l.at # "recording"
                               /\ Ranked(l, p) = 4 => l.at \in {"ended", "over"}
                               /\ Ranked(l, p) <= 2 => Due(l)
  BY DEF LineFits, InTime, Lines
<1>4. l.open = "closing" => (Due(k) <=> Due(l))
  BY <1>1 DEF Due
<1>5. Due(k) => Due(l)
  BY <1>1, <1>2 DEF Due
<1>6. InOrder(k) /\ InTime(k)
  BY <1>1, <1>2, <1>3, <1>4 DEF LineFits, InOrder, InTime
<1>7. Follows(c, k) /\ OpensFirst(c, k, X) /\ AwaitsResult(c, k)
  BY <1>2, <1>5 DEF LineFits, Follows, OpensFirst, AwaitsResult
<1>8. c.candidate # Nobody => Due(k) \/ OnlyCloses(k)
  <2>1. l.open \in {"connecting", "closing"}
    BY DEF Lines
  <2> QED
    BY <1>4, <2>1 DEF LineFits, OpensFirst, OnlyCloses
<1>9. PastedBefore(c, k) /\ HearsStart(c, k) /\ HoldsCancelled(c, k, X)
  BY <1>1, <1>2, <1>5 DEF LineFits, PastedBefore, HearsStart, HoldsCancelled
<1> QED
  BY <1>6, <1>7, <1>8, <1>9 DEF LineFits

\* What a message leaves of the current socket.
LEMMA LineTold ==
  ASSUME ClientIInv, ClientIInv', ClientRests, socket # Nobody, socketOf \in HkSessions,
         NEW kind \in Kinds, NEW s \in Some, sockets' = Tell(kind, s)
  PROVE  /\ Line' \in Lines /\ Line'.of = socketOf /\ Line'.at = served'[socketOf].at
         /\ Line'.open = Line.open
         /\ Line'.mail = IF Line.open = "open" THEN Append(Line.mail, Message(kind, s))
                         ELSE Line.mail
<1>1. socket \in DOMAIN sockets /\ sockets[socket] \in ClientSocket
      /\ socket' = socket /\ socketOf' = socketOf
  BY LineIs, ClientTyped DEF ClientRests
<1>2. served'[socketOf] \in Served1 /\ sockets' \in Seq(ClientSocket)
  BY DEF ClientIInv
<1>3. sockets'[socket] = IF sockets[socket].open = "open"
                         THEN [sockets[socket] EXCEPT !.inbox = Append(@, Message(kind, s))]
                         ELSE sockets[socket]
  BY <1>1 DEF Tell, OpenSockets
<1>4. /\ sockets'[socket].open = sockets[socket].open
      /\ sockets'[socket].inbox = IF sockets[socket].open = "open"
                                  THEN Append(sockets[socket].inbox, Message(kind, s))
                                  ELSE sockets[socket].inbox
  BY <1>1, <1>3 DEF ClientSocket
<1>5. DOMAIN sockets' = DOMAIN sockets
  BY DEF Tell
<1>6. sockets'[socket] \in ClientSocket
  BY <1>1, <1>2, <1>5
<1>7. Line' = [of |-> socketOf, at |-> served'[socketOf].at, open |-> sockets'[socket].open,
               mail |-> sockets'[socket].inbox]
  BY <1>1 DEF Line
<1>8. Line' \in Lines
  BY <1>2, <1>6, <1>7 DEF Lines, ClientSocket, Served1
<1> QED
  BY <1>4, <1>7, <1>8 DEF Line

LEMMA OneTold ==
  ASSUME NEW l \in Lines, NEW k \in Lines, NEW m \in SocketMessage, NEW c, NEW X,
         LineFits(c, l, X), k.of = l.of, k.open = l.open,
         k.mail = IF l.open = "open" THEN Append(l.mail, m) ELSE l.mail,
         MayTell(l, k.at, k.open, Rank(m, l.of))
  PROVE  LineFits(c, k, X)
<1>1. CASE l.open = "open"
  BY <1>1, ToldFits
<1>2. CASE l.open # "open"
  BY <1>2, UntoldFits
<1> QED
  BY <1>1, <1>2

LEMMA TellingPastes ==
  ASSUME Undisturbed, ClientIInv', ClientRests, Alike(Client, Client'), NewsFits',
         NEW kind \in Kinds, NEW s \in Some, sockets' = Tell(kind, s),
         socket # Nobody => MayTell(Line, served'[socketOf].at, Line.open,
                                    Rank(Message(kind, s), socketOf))
  PROVE  PasteIInv'
<1>1. SUFFICES ASSUME socket # Nobody PROVE LineFits(Client, Line', cancelled)
  BY ServicePastes
<1>2. /\ LineFits(Client, Line, cancelled) /\ Line \in Lines /\ Line.of = socketOf
      /\ socketOf \in HkSessions /\ ClientIInv
  BY <1>1, UndisturbedIs DEF Undisturbed
<1>3. /\ Line' \in Lines /\ Line'.of = Line.of /\ Line'.at = served'[socketOf].at
      /\ Line'.open = Line.open
      /\ Line'.mail = IF Line.open = "open" THEN Append(Line.mail, Message(kind, s))
                      ELSE Line.mail
  BY <1>1, <1>2, LineTold
<1>4. Message(kind, s) \in SocketMessage
  BY MessageIs
<1>5. MayTell(Line, Line'.at, Line'.open, Rank(Message(kind, s), Line.of))
  BY <1>1, <1>2, <1>3
<1> QED
  BY <1>2, <1>3, <1>4, <1>5, OneTold

\* The session whose socket the client has, and the one that is served.
LEMMA ServedIs ==
  ASSUME Undisturbed
  PROVE  /\ \A s \in HkSessions : Serves(s) <=> serving = s
         /\ socket # Nobody => /\ Line.at # "none" /\ (Serves(socketOf) <=> serving = socketOf)
                               /\ Line.at = served[socketOf].at
         /\ HkRecording => serving \in HkSessions
         /\ ClientIInv /\ WellSent /\ StartsFit /\ ~jammed
<1>1. ClientIInv /\ ServedInv /\ ~overlapped
  BY DEF Undisturbed, Normal
<1>2. \A s \in HkSessions : Serves(s) <=> serving = s
  BY <1>1 DEF ServedInv, OneByOne
<1>3. socket # Nobody => socketOf \in HkSessions /\ Line.at # "none" /\ Line.at = served[socketOf].at
  BY <1>1, UndisturbedIs, LineIs DEF LineFits, Follows
<1>4. HkRecording => serving \in HkSessions
  BY <1>1, CallsAre, SomeIs DEF HkRecording
<1> QED
  BY <1>1, <1>2, <1>3, <1>4 DEF ServedInv, OneByOne

\* What the service tells all sockets.
LEMMA WellTold ==
  ASSUME ClientIInv, WellSent, NEW kind \in Kinds, NEW s \in Some, sockets' = Tell(kind, s),
         s = Nobody <=> kind \in {"closed", "lost", "error", "idle"}
  PROVE  WellSent'
<1> SUFFICES ASSUME NEW k \in DOMAIN sockets' PROVE Well(sockets'[k].inbox)
  BY WellSentIs
<1>1. k \in DOMAIN sockets /\ sockets[k] \in ClientSocket /\ Well(sockets[k].inbox)
  <2>1. k \in DOMAIN sockets
    BY DEF Tell
  <2> QED
    BY <2>1, CallsAre, WellSentIs
<1>2. CASE k \in OpenSockets
  <2>1. sockets'[k] = [sockets[k] EXCEPT !.inbox = Append(@, Message(kind, s))]
    BY <1>1, <1>2 DEF Tell
  <2>2. /\ sockets'[k].inbox = Append(sockets[k].inbox, Message(kind, s))
        /\ sockets[k].inbox \in Seq(SocketMessage)
    BY <1>1, <2>1 DEF ClientSocket
  <2> QED
    BY <1>1, <2>2, WellMore
<1>3. CASE k \notin OpenSockets
  BY <1>1, <1>3 DEF Tell
<1> QED
  BY <1>2, <1>3

\* What a step of the service must leave in order.
LEMMA ServiceServes ==
  ASSUME Undisturbed, ClientRests, WellSent', StartsFit', jammed' = jammed,
         \A s \in HkSessions : Serves(s)' <=> serving' = s
  PROVE  ServedInv'
BY ServedIs DEF Undisturbed, ServedInv, OneByOne, ClientRests

LEMMA StartsGoOn ==
  ASSUME StartsFit, startCalls' = startCalls,
         \A s \in HkSessions : served[s].at # "none" => served'[s].at # "none"
  PROVE  StartsFit'
BY DEF StartsFit

LEMMA ServiceStartsPastes ==
  ASSUME Undisturbed, NEW i \in DOMAIN startCalls, ServiceStarts(i)
  PROVE  PasteIInv' /\ ServedInv'
<1>1. /\ ClientRests /\ stopCalls' = stopCalls /\ startCalls[i].got = "no"
      /\ startCalls \in Seq(StartCall) /\ startCalls[i] \in StartCall
      /\ served \in [HkSessions -> Served1]
  <2>1. startCalls \in Seq(StartCall) /\ served \in [HkSessions -> Served1]
    BY ServedIs, CallsAre
  <2>2. ClientRests /\ stopCalls' = stopCalls /\ startCalls[i].got = "no"
    BY DEF ServiceStarts
  <2> QED
    BY <2>1, <2>2
<1>2. ClientIInv'
  BY ServedIs, ServiceStartsKeeps
<1>3. ASSUME NEW s \in HkSessions, served[s].at = "none", ~HkRecording, serving' = s,
             jammed' = jammed,
             served' = [served EXCEPT ![s].at = "recording"],
             sockets' = Tell("started", s), overlapped' = (overlapped \/ serving # Nobody),
             startCalls' = [startCalls EXCEPT ![i].got = "ok", ![i].of = s]
      PROVE  PasteIInv' /\ ServedInv'
  <2>1. serving = Nobody
    BY <1>3 DEF Undisturbed, Normal
  <2>2. startCalls' = [startCalls EXCEPT ![i] = [startCalls[i] EXCEPT !.got = "ok", !.of = s]]
    BY <1>1, <1>3
  <2>3. /\ DOMAIN startCalls' = DOMAIN startCalls
        /\ startCalls'[i].got = "ok" /\ startCalls'[i].of = s
        /\ \A j \in DOMAIN startCalls : j # i => startCalls'[j] = startCalls[j]
    <3>1. /\ [startCalls[i] EXCEPT !.got = "ok", !.of = s].got = "ok"
          /\ [startCalls[i] EXCEPT !.got = "ok", !.of = s].of = s
      BY <1>1 DEF StartCall
    <3> QED
      BY <1>1, <2>2, <3>1
  <2>4. Alike(Client, Client')
    BY <1>1, <2>3, ServiceSame
  <2>5. \A t \in HkSessions : t # s => served'[t] = served[t]
    BY <1>1, <1>3
  <2>6. served'[s].at = "recording"
    <3>1. served[s] \in Served1 /\ served'[s] = [served[s] EXCEPT !.at = "recording"]
      BY <1>1, <1>3
    <3> QED
      BY <3>1 DEF Served1
  <2>7. NewsFits'
    BY <1>1, <1>3, <2>3, <2>4, <2>5, <2>6, ServiceNews
  <2>8. socket # Nobody => MayTell(Line, served'[socketOf].at, Line.open,
                                   Rank(Message("started", s), socketOf))
    <3> SUFFICES ASSUME socket # Nobody
                 PROVE  MayTell(Line, served'[socketOf].at, Line.open,
                                Rank(Message("started", s), socketOf))
      OBVIOUS
    <3>1. /\ socketOf \in HkSessions /\ Line.at = served[socketOf].at /\ Line.at # "none"
          /\ ~Serves(socketOf) /\ Line \in Lines
      BY <2>1, UndisturbedIs, ServedIs, SomeIs
    <3>2. socketOf # s
      BY <1>3, <3>1
    <3>3. served'[socketOf].at = Line.at /\ Line.at = "over"
      BY <2>5, <3>1, <3>2 DEF Serves, Lines
    <3>4. Rank(Message("started", s), socketOf) = 5
      BY <3>2 DEF Rank, Message
    <3> QED
      BY <3>3, <3>4 DEF MayTell
  <2>9. s \in Some
    BY SomeIs
  <2>10. PasteIInv'
    BY <1>1, <1>2, <1>3, <2>4, <2>7, <2>8, <2>9, TellingPastes DEF Kinds
  <2>11. WellSent'
    BY <1>3, <2>9, SomeIs, ServedIs, WellTold DEF Kinds
  <2>12. StartsFit'
    BY <1>3, <2>3, <2>5, <2>6, ServedIs DEF StartsFit
  <2>13. \A t \in HkSessions : Serves(t)' <=> serving' = t
    BY <1>3, <2>1, <2>5, <2>6, SomeIs, ServedIs DEF Serves
  <2> QED
    BY <1>1, <1>3, <2>10, <2>11, <2>12, <2>13, ServiceServes
<1>4. CASE /\ sockets' = Tell("error", Nobody) /\ ~HkRecording
           /\ UNCHANGED <<serving, served, jammed>>
           /\ startCalls' = [startCalls EXCEPT ![i].got = "failed"]
  <2>1. startCalls' = [startCalls EXCEPT ![i] = [startCalls[i] EXCEPT !.got = "failed"]]
    BY <1>1, <1>4
  <2>2. /\ DOMAIN startCalls' = DOMAIN startCalls
        /\ startCalls'[i].got = "failed"
        /\ \A j \in DOMAIN startCalls : j # i => startCalls'[j] = startCalls[j]
    <3>1. [startCalls[i] EXCEPT !.got = "failed"].got = "failed"
      BY <1>1 DEF StartCall
    <3> QED
      BY <1>1, <2>1, <3>1
  <2>3. Alike(Client, Client')
    BY <1>1, <2>2, ServiceSame
  <2>4. NewsFits'
    BY <1>1, <1>4, <2>2, <2>3, ServiceNews
  <2>5. socket # Nobody => MayTell(Line, served'[socketOf].at, Line.open,
                                   Rank(Message("error", Nobody), socketOf))
    <3> SUFFICES ASSUME socket # Nobody
                 PROVE  MayTell(Line, served'[socketOf].at, Line.open,
                                Rank(Message("error", Nobody), socketOf))
      OBVIOUS
    <3>1. /\ socketOf \in HkSessions /\ Line.at = served[socketOf].at /\ Line.at # "none"
          /\ (Serves(socketOf) <=> serving = socketOf) /\ Line \in Lines
          /\ LineFits(Client, Line, cancelled) /\ socketOf # Nobody
      BY UndisturbedIs, ServedIs, SomeIs
    <3>2. ~Due(Line)
      <4>1. IsStarting(Client)
        BY <1>1, CallsClear
      <4> QED
        BY <3>1, <4>1 DEF LineFits, AwaitsResult
    <3>3. Line.at # "recording"
      BY <1>4, <3>1 DEF Serves, HkRecording
    <3>4. Line.open = "open" => Line.at # "ending"
      BY <3>2 DEF Due
    <3>5. Rank(Message("error", Nobody), socketOf) = 5
      BY <3>1 DEF Rank, Message
    <3>6. served'[socketOf].at = Line.at
      BY <1>4, <3>1
    <3> QED
      BY <3>1, <3>3, <3>4, <3>5, <3>6 DEF MayTell, Lines
  <2>6. PasteIInv'
    BY <1>1, <1>2, <1>4, <2>3, <2>4, <2>5, SomeIs, TellingPastes DEF Kinds
  <2>7. WellSent'
    BY <1>4, SomeIs, ServedIs, WellTold DEF Kinds
  <2>8. StartsFit'
    BY <1>4, <2>2, ServedIs DEF StartsFit
  <2>9. \A t \in HkSessions : Serves(t)' <=> serving' = t
    BY <1>4, ServedIs DEF Serves
  <2> QED
    BY <1>1, <1>4, <2>6, <2>7, <2>8, <2>9, ServiceServes
<1>5. overlapped' # TRUE
  BY DEF Undisturbed, Normal
<1> QED
  BY <1>3, <1>4, <1>5 DEF ServiceStarts

\* A stop call that is told something is the call it was.
LEMMA StopTold ==
  ASSUME ClientIInv, NEW j \in DOMAIN stopCalls, NEW s,
         \/ stopCalls' = [stopCalls EXCEPT ![j].got = "ok"]
         \/ stopCalls' = [stopCalls EXCEPT ![j].until = s]
  PROVE  /\ DOMAIN stopCalls' = DOMAIN stopCalls
         /\ \A i \in DOMAIN stopCalls : /\ stopCalls'[i].at = stopCalls[i].at
                                        /\ stopCalls'[i].act = stopCalls[i].act
<1>1. stopCalls \in Seq(StopCall) /\ stopCalls[j] \in StopCall
  <2>1. stopCalls \in Seq(StopCall)
    BY CallsAre
  <2> QED
    BY <2>1
<1>2. /\ [stopCalls[j] EXCEPT !.got = "ok"].at = stopCalls[j].at
      /\ [stopCalls[j] EXCEPT !.got = "ok"].act = stopCalls[j].act
      /\ [stopCalls[j] EXCEPT !.until = s].at = stopCalls[j].at
      /\ [stopCalls[j] EXCEPT !.until = s].act = stopCalls[j].act
  BY <1>1 DEF StopCall
<1>3. \/ stopCalls' = [stopCalls EXCEPT ![j] = [stopCalls[j] EXCEPT !.got = "ok"]]
      \/ stopCalls' = [stopCalls EXCEPT ![j] = [stopCalls[j] EXCEPT !.until = s]]
  BY <1>1
<1> QED
  BY <1>1, <1>2, <1>3

LEMMA ServiceStopsPastes ==
  ASSUME Undisturbed, NEW j \in DOMAIN stopCalls, ServiceStops(j)
  PROVE  PasteIInv' /\ ServedInv'
<1>1. ClientRests /\ startCalls' = startCalls /\ serving' = serving /\ jammed' = jammed
  BY DEF ServiceStops
<1>2. ClientIInv' /\ ClientIInv /\ served \in [HkSessions -> Served1]
  BY ServedIs, ServiceStopsKeeps, CallsAre
<1>3. Alike(Client, Client')
  <2>1. \/ stopCalls' = [stopCalls EXCEPT ![j].got = "ok"]
        \/ stopCalls' = [stopCalls EXCEPT ![j].until = serving]
    BY DEF ServiceStops
  <2> QED
    BY <1>1, <1>2, <2>1, StopTold, ServiceSame
<1>4. CASE UNCHANGED <<served, sockets>>
  <2>1. NewsFits'
    BY <1>1, <1>3, <1>4, ServiceNews
  <2>2. Line' = Line
    BY <1>1, <1>4 DEF Line, ClientRests
  <2>3. PasteIInv'
    BY <1>1, <1>3, <2>1, <2>2, UndisturbedIs, ServicePastes
  <2>4. WellSent' /\ StartsFit' /\ \A t \in HkSessions : Serves(t)' <=> serving' = t
    BY <1>1, <1>4, ServedIs DEF WellSent, StartsFit, Serves
  <2> QED
    BY <1>1, <2>3, <2>4, ServiceServes
<1>5. CASE HkRecording /\ ServiceBeginsEnd(stopCalls[j].act = "cancel")
  <2>1. serving \in HkSessions /\ served[serving].at = "recording"
    BY <1>5, ServedIs DEF HkRecording
  <2>2. /\ served'[serving].at = "ending" /\ sockets' = Tell("ack", serving)
        /\ \A s \in HkSessions : s # serving => served'[s] = served[s]
    <3>1. served' = [served EXCEPT ![serving] =
                       [served[serving] EXCEPT !.at = "ending",
                                               !.discards = (stopCalls[j].act = "cancel"),
                                               !.closes = OpenSockets]]
      BY <1>5 DEF ServiceBeginsEnd
    <3>2. [served[serving] EXCEPT !.at = "ending", !.discards = (stopCalls[j].act = "cancel"),
                                  !.closes = OpenSockets].at = "ending"
      BY <1>2, <2>1 DEF Served1
    <3> QED
      BY <1>2, <1>5, <2>1, <3>1, <3>2 DEF ServiceBeginsEnd
  <2>3. NewsFits'
    BY <1>1, <1>3, <2>1, <2>2, ServiceNews
  <2>4. socket # Nobody => MayTell(Line, served'[socketOf].at, Line.open,
                                   Rank(Message("ack", serving), socketOf))
    <3> SUFFICES ASSUME socket # Nobody
                 PROVE  MayTell(Line, served'[socketOf].at, Line.open,
                                Rank(Message("ack", serving), socketOf))
      OBVIOUS
    <3>1. /\ socketOf \in HkSessions /\ Line.at = served[socketOf].at /\ Line.at # "none"
          /\ (Serves(socketOf) <=> serving = socketOf) /\ Line \in Lines
      BY UndisturbedIs, ServedIs
    <3>2. CASE socketOf = serving
      <4>1. Rank(Message("ack", serving), socketOf) = 3
        BY <3>2 DEF Rank, Message
      <4> QED
        BY <2>1, <2>2, <3>1, <3>2, <4>1 DEF MayTell
    <3>3. CASE socketOf # serving
      <4>1. Rank(Message("ack", serving), socketOf) = 5
        BY <3>3 DEF Rank, Message
      <4>2. served'[socketOf].at = Line.at /\ Line.at = "over"
        BY <2>2, <3>1, <3>3 DEF Serves, Lines
      <4> QED
        BY <4>1, <4>2 DEF MayTell
    <3> QED
      BY <3>2, <3>3
  <2>5. PasteIInv'
    BY <1>1, <1>2, <1>3, <2>1, <2>2, <2>3, <2>4, SomeIs, TellingPastes DEF Kinds
  <2>6. WellSent'
    BY <1>2, <2>1, <2>2, SomeIs, ServedIs, WellTold DEF Kinds
  <2>7. StartsFit'
    BY <1>1, <2>2, ServedIs, StartsGoOn
  <2>8. \A t \in HkSessions : Serves(t)' <=> serving' = t
    BY <1>1, <2>1, <2>2, ServedIs DEF Serves
  <2> QED
    BY <1>1, <2>5, <2>6, <2>7, <2>8, ServiceServes
<1> QED
  BY <1>4, <1>5 DEF ServiceStops

LEMMA SessionGoesOnPastes ==
  ASSUME Undisturbed, NEW s \in HkSessions, ServiceCommits(s) \/ ServiceEnds(s)
  PROVE  PasteIInv' /\ ServedInv'
<1>1. /\ ClientRests /\ startCalls' = startCalls /\ stopCalls' = stopCalls
      /\ ClientIInv' /\ ClientIInv /\ served \in [HkSessions -> Served1]
      /\ serving' = serving /\ jammed' = jammed
  BY ServedIs, SessionGoesOnKeeps, CallsAre DEF ServiceCommits, ServiceEnds
<1>2. Alike(Client, Client')
  BY <1>1, ServiceSame
<1>3. /\ \A t \in HkSessions : t # s => served'[t] = served[t]
      /\ \/ /\ served[s].at = "recording" /\ served'[s].at = "recording"
            /\ sockets' = Tell("commit", s)
         \/ /\ served[s].at = "ending" /\ served'[s].at = "ended"
            /\ \E kind \in {"stopped", "discarded"} : sockets' = Tell(kind, s)
  <2>1. /\ [served[s] EXCEPT !.spoke = TRUE].at = served[s].at
        /\ [served[s] EXCEPT !.at = "ended"].at = "ended"
    BY <1>1 DEF Served1
  <2>2. CASE ServiceCommits(s)
    <3>1. served' = [served EXCEPT ![s] = [served[s] EXCEPT !.spoke = TRUE]]
      BY <1>1, <2>2 DEF ServiceCommits
    <3> QED
      BY <1>1, <2>1, <2>2, <3>1 DEF ServiceCommits
  <2>3. CASE ServiceEnds(s)
    <3>1. served' = [served EXCEPT ![s] = [served[s] EXCEPT !.at = "ended"]]
      BY <1>1, <2>3 DEF ServiceEnds
    <3> QED
      BY <1>1, <2>1, <2>3, <3>1 DEF ServiceEnds
  <2> QED
    BY <2>2, <2>3
<1>4. NewsFits'
  BY <1>1, <1>2, <1>3, ServiceNews
<1>5. serving = s
  BY <1>3, ServedIs DEF Serves
<1>6. ASSUME NEW kind \in {"commit", "stopped", "discarded"}, sockets' = Tell(kind, s),
             kind = "commit" <=> served[s].at = "recording", socket # Nobody
      PROVE  MayTell(Line, served'[socketOf].at, Line.open, Rank(Message(kind, s), socketOf))
  <2>1. /\ socketOf \in HkSessions /\ Line.at = served[socketOf].at /\ Line.at # "none"
        /\ (Serves(socketOf) <=> serving = socketOf) /\ Line \in Lines
    BY <1>6, UndisturbedIs, ServedIs
  <2>2. CASE socketOf = s
    <3>1. Rank(Message(kind, s), socketOf) = IF kind = "commit" THEN 2 ELSE 4
      BY <2>2 DEF Rank, Message
    <3> QED
      BY <1>3, <1>6, <2>1, <2>2, <3>1 DEF MayTell
  <2>3. CASE socketOf # s
    <3>1. Rank(Message(kind, s), socketOf) = 5
      BY <2>3 DEF Rank, Message
    <3>2. served'[socketOf].at = Line.at /\ Line.at = "over"
      BY <1>3, <1>5, <2>1, <2>3 DEF Serves, Lines
    <3> QED
      BY <3>1, <3>2 DEF MayTell
  <2> QED
    BY <2>2, <2>3
<1>7. ASSUME NEW kind \in {"commit", "stopped", "discarded"}, sockets' = Tell(kind, s),
             kind = "commit" <=> served[s].at = "recording"
      PROVE  PasteIInv' /\ WellSent'
  <2>1. PasteIInv'
    BY <1>1, <1>2, <1>4, <1>6, <1>7, SomeIs, TellingPastes DEF Kinds
  <2>2. WellSent'
    BY <1>1, <1>7, SomeIs, ServedIs, WellTold DEF Kinds
  <2> QED
    BY <2>1, <2>2
<1>8. StartsFit'
  BY <1>1, <1>3, ServedIs, StartsGoOn
<1>9. \A t \in HkSessions : Serves(t)' <=> serving' = t
  BY <1>1, <1>3, ServedIs DEF Serves
<1>10. PasteIInv' /\ WellSent'
  BY <1>3, <1>7
<1> QED
  BY <1>1, <1>8, <1>9, <1>10, ServiceServes

\* A session that is over tells its state, and then closes the sockets it knew.
LEMMA RestsAre ==
  ASSUME Undisturbed, NEW s \in HkSessions, ServiceRests(s)
  PROVE  /\ ClientRests /\ startCalls' = startCalls /\ ClientIInv'
         /\ serving = s /\ serving' = Nobody /\ served'[s].at = "over"
         /\ \A r \in HkSessions : r # s => served'[r] = served[r]
         /\ Alike(Client, Client')
<1>1. ClientIInv /\ served \in [HkSessions -> Served1] /\ stopCalls \in Seq(StopCall)
  BY ServedIs, CallsAre
<1>2. served[s].at = "ended" /\ served' = [served EXCEPT ![s] = Session("over")]
  BY DEF ServiceRests
<1>3. serving = s
  BY <1>2, ServedIs DEF Serves
<1>4. served'[s].at = "over" /\ \A r \in HkSessions : r # s => served'[r] = served[r]
  BY <1>1, <1>2 DEF Session
<1>5. ClientRests /\ startCalls' = startCalls /\ serving' = Nobody
  BY <1>3 DEF ServiceRests
<1>6. /\ DOMAIN stopCalls' = DOMAIN stopCalls
      /\ \A j \in DOMAIN stopCalls : /\ stopCalls'[j].at = stopCalls[j].at
                                     /\ stopCalls'[j].act = stopCalls[j].act
  <2>1. stopCalls' = [j \in DOMAIN stopCalls |->
                        IF stopCalls[j].until = s THEN [stopCalls[j] EXCEPT !.got = "ok"]
                        ELSE stopCalls[j]]
    BY DEF ServiceRests
  <2>2. ASSUME NEW j \in DOMAIN stopCalls
        PROVE  /\ [stopCalls[j] EXCEPT !.got = "ok"].at = stopCalls[j].at
               /\ [stopCalls[j] EXCEPT !.got = "ok"].act = stopCalls[j].act
    <3>1. stopCalls[j] \in StopCall
      BY <1>1
    <3> QED
      BY <3>1 DEF StopCall
  <2> QED
    BY <2>1, <2>2
<1>7. Alike(Client, Client')
  BY <1>5, <1>6, ServiceSame
<1> QED
  BY <1>1, <1>3, <1>4, <1>5, <1>7, ServiceRestsKeeps

\* What it leaves on the way to a socket.
LEMMA RestsTell ==
  ASSUME ClientIInv, NEW s \in HkSessions, ServiceRests(s), NEW k \in DOMAIN sockets
  PROVE  /\ DOMAIN sockets' = DOMAIN sockets
         /\ sockets[k].open # "open" => sockets'[k] = sockets[k]
         /\ sockets[k].open = "open" =>
              LET told == Append(sockets[k].inbox, Message("idle", Nobody))
              IN  \/ sockets'[k] = [open |-> "open", inbox |-> told]
                  \/ sockets'[k] = [open |-> "closing",
                                    inbox |-> Append(told, Message("closed", Nobody))]
<1> DEFINE told == Tell("idle", Nobody)[k]
           mail == Append(sockets[k].inbox, Message("idle", Nobody))
<1>1. sockets[k] \in ClientSocket
  BY CallsAre
<1>2. /\ DOMAIN sockets' = DOMAIN sockets
      /\ sockets'[k] = IF k \in OpenSockets \cap served[s].closes
                       THEN [open |-> "closing",
                             inbox |-> Append(told.inbox, Message("closed", Nobody))]
                       ELSE told
  BY DEF ServiceRests
<1>3. CASE sockets[k].open # "open"
  <2>1. told = sockets[k] /\ k \notin OpenSockets
    BY <1>3 DEF Tell, OpenSockets
  <2> QED
    BY <1>2, <1>3, <2>1
<1>4. CASE sockets[k].open = "open"
  <2>1. told = [sockets[k] EXCEPT !.inbox = mail]
    BY <1>4 DEF Tell, OpenSockets
  <2> HIDE DEF mail, told
  <2>2. told = [open |-> "open", inbox |-> mail]
    BY <1>1, <1>4, <2>1 DEF ClientSocket
  <2>3. told.inbox = mail
    BY <2>2
  <2> QED
    BY <1>2, <1>4, <2>2, <2>3 DEF mail
<1> QED
  BY <1>3, <1>4, <1>2

LEMMA ServiceRestsPastes ==
  ASSUME Undisturbed, NEW s \in HkSessions, ServiceRests(s)
  PROVE  PasteIInv' /\ ServedInv'
<1>1. /\ ClientRests /\ startCalls' = startCalls /\ ClientIInv' /\ ClientIInv
      /\ serving = s /\ served'[s].at = "over"
      /\ \A r \in HkSessions : r # s => served'[r] = served[r]
      /\ Alike(Client, Client')
  BY RestsAre, ServedIs
<1>2. NewsFits'
  BY <1>1, ServiceNews
<1>13. ServedInv'
  <2>1. jammed' = jammed /\ serving' = Nobody
    BY RestsAre DEF ServiceRests
  <2>2. ASSUME NEW k \in DOMAIN sockets' PROVE Well(sockets'[k].inbox)
    <3>1. k \in DOMAIN sockets /\ DOMAIN sockets' = DOMAIN sockets
      BY <2>2 DEF ServiceRests
    <3>2. Well(sockets[k].inbox) /\ sockets[k].inbox \in Seq(SocketMessage)
      <4>1. sockets[k] \in ClientSocket
        BY <1>1, <3>1, CallsAre
      <4> QED
        BY <3>1, <4>1, ServedIs, WellSentIs DEF ClientSocket
    <3> DEFINE told == Append(sockets[k].inbox, Message("idle", Nobody))
    <3>3. told \in Seq(SocketMessage) /\ Well(told)
      BY <3>2, SomeIs, MessageIs, WellMore DEF Kinds
    <3>4. Well(Append(told, Message("closed", Nobody)))
      <4> HIDE DEF told
      <4> QED
        BY <3>3, SomeIs, WellMore DEF Kinds
    <3>5. \/ sockets'[k] = sockets[k]
          \/ sockets'[k] = [open |-> "open", inbox |-> told]
          \/ sockets'[k] = [open |-> "closing",
                            inbox |-> Append(told, Message("closed", Nobody))]
      BY <1>1, <3>1, RestsTell
    <3> HIDE DEF told
    <3>6. \/ sockets'[k].inbox = sockets[k].inbox
          \/ sockets'[k].inbox = told
          \/ sockets'[k].inbox = Append(told, Message("closed", Nobody))
      BY <3>5
    <3> QED
      BY <3>2, <3>3, <3>4, <3>6
  <2>3. WellSent'
    BY <2>2, WellSentIs
  <2>4. StartsFit'
    BY <1>1, ServedIs, StartsGoOn
  <2>5. \A t \in HkSessions : Serves(t)' <=> serving' = t
    BY <1>1, <2>1, SomeIs, ServedIs DEF Serves
  <2> QED
    BY <1>1, <2>1, <2>3, <2>4, <2>5, ServiceServes
<1>3. SUFFICES ASSUME socket # Nobody PROVE LineFits(Client, Line', cancelled)
  BY <1>1, <1>2, <1>13, ServicePastes
<1> DEFINE l == Line
           at == served'[socketOf].at
<1>4. /\ l \in Lines /\ l.of = socketOf /\ socketOf \in HkSessions
      /\ l.at = served[socketOf].at /\ l.open = sockets[socket].open
      /\ l.mail = sockets[socket].inbox /\ socket \in DOMAIN sockets /\ l.at # "none"
      /\ (Serves(socketOf) <=> serving = socketOf) /\ LineFits(Client, l, cancelled)
  BY <1>1, <1>3, UndisturbedIs, LineIs, ServedIs
<1>5. Line' = [of |-> socketOf, at |-> at, open |-> sockets'[socket].open,
               mail |-> sockets'[socket].inbox]
  BY <1>1 DEF Line, ClientRests
<1>6. at = "over" /\ l.at \in {"ended", "over"}
  <2>1. CASE socketOf = s
    <3>1. served[s].at = "ended"
      BY DEF ServiceRests
    <3> QED
      BY <1>1, <1>4, <2>1, <3>1
  <2>2. CASE socketOf # s
    BY <1>1, <1>4, <2>2 DEF Serves, Lines
  <2> QED
    BY <2>1, <2>2
<1>7. socketOf # Nobody /\ Nobody \in Some
  BY <1>4, SomeIs
<1>8. /\ Message("idle", Nobody) \in SocketMessage /\ Rank(Message("idle", Nobody), socketOf) = 5
      /\ Message("closed", Nobody) \in SocketMessage
      /\ Rank(Message("closed", Nobody), socketOf) = 5
  BY <1>7, MessageIs DEF Kinds, Rank, Message
<1> HIDE DEF l, at
<1>9. l.mail \in Seq(SocketMessage)
  BY <1>4 DEF Lines
<1> DEFINE told == Append(l.mail, Message("idle", Nobody))
           k == [of |-> socketOf, at |-> at, open |-> "open", mail |-> told]
           h == [of |-> socketOf, at |-> at, open |-> "closing",
                 mail |-> Append(told, Message("closed", Nobody))]
<1>10. CASE l.open # "open"
  <2>1. sockets'[socket] = sockets[socket]
    BY <1>1, <1>4, <1>10, RestsTell
  <2> DEFINE u == [of |-> socketOf, at |-> at, open |-> l.open, mail |-> l.mail]
  <2>2. Line' = u
    BY <1>4, <1>5, <2>1
  <2>3. u \in Lines /\ u.of = l.of /\ u.at = at /\ u.open = l.open /\ u.mail = l.mail
    BY <1>4, <1>6, <1>9 DEF Lines
  <2> HIDE DEF u
  <2>4. MayTell(l, u.at, u.open, 5)
    BY <1>6, <1>10, <2>3 DEF MayTell
  <2> QED
    BY <1>4, <1>10, <2>2, <2>3, <2>4, UntoldFits
<1>11. CASE l.open = "open"
  <2>1. \/ sockets'[socket] = [open |-> "open", inbox |-> told]
        \/ sockets'[socket] = [open |-> "closing",
                               inbox |-> Append(told, Message("closed", Nobody))]
    BY <1>1, <1>4, <1>11, RestsTell
  <2>2. told \in Seq(SocketMessage) /\ Append(told, Message("closed", Nobody)) \in Seq(SocketMessage)
    BY <1>8, <1>9
  <2>3. /\ k \in Lines /\ k.of = l.of /\ k.at = at /\ k.open = "open" /\ k.mail = told
        /\ h \in Lines /\ h.of = k.of /\ h.at = at /\ h.open = "closing"
        /\ h.mail = Append(k.mail, Message("closed", Nobody))
    BY <1>4, <1>6, <2>2 DEF Lines
  <2>4. Line' = k \/ Line' = h
    <3> HIDE DEF told
    <3>1. CASE sockets'[socket] = [open |-> "open", inbox |-> told]
      <4>1. sockets'[socket].open = "open" /\ sockets'[socket].inbox = told
        BY <3>1
      <4> QED
        BY <1>5, <4>1
    <3>2. CASE sockets'[socket] = [open |-> "closing",
                                   inbox |-> Append(told, Message("closed", Nobody))]
      <4>1. /\ sockets'[socket].open = "closing"
            /\ sockets'[socket].inbox = Append(told, Message("closed", Nobody))
        BY <3>2
      <4> QED
        BY <1>5, <4>1
    <3> QED
      BY <2>1, <3>1, <3>2
  <2> HIDE DEF k, h
  <2>5. LineFits(Client, k, cancelled)
    <3>1. MayTell(l, k.at, k.open, Rank(Message("idle", Nobody), l.of))
      BY <1>4, <1>6, <1>8, <2>3 DEF MayTell
    <3> QED
      BY <1>4, <1>8, <1>11, <2>3, <3>1, ToldFits
  <2>6. LineFits(Client, h, cancelled)
    <3>1. MayTell(k, h.at, h.open, Rank(Message("closed", Nobody), k.of))
      BY <1>4, <1>6, <1>8, <2>3 DEF MayTell
    <3> QED
      BY <1>8, <2>3, <2>5, <3>1, ToldFits
  <2> QED
    BY <2>4, <2>5, <2>6
<1> QED
  BY <1>10, <1>11

\* A socket that is accepted is told the state of the service first.
LEMMA OpenedFits ==
  ASSUME NEW l \in Lines, NEW k \in Lines, NEW m \in SocketMessage, NEW c, NEW X,
         LineFits(c, l, X), l.open = "connecting",
         k.of = l.of, k.at = l.at, k.open = "open", k.mail = <<m>>,
         Rank(m, l.of) \in {1, 3, 5}, Rank(m, l.of) = 1 <=> l.at = "recording",
         l.at = "ending" => Rank(m, l.of) = 3
  PROVE  LineFits(c, k, X)
<1>1. /\ k.of = l.of /\ k.at = l.at /\ k.open = "open" /\ DOMAIN k.mail = {1}
      /\ Ranked(k, 1) = Rank(m, l.of)
  BY DEF Lines, Ranked
<1>2. /\ c.candidate = Nobody /\ c.pasted[l.of] = 0 /\ l.of \notin X /\ c.life # "recording"
  BY DEF LineFits, OpensFirst
<1>3. Due(k) <=> l.at \in {"recording", "ending"}
  BY <1>1 DEF Due
<1>4. Due(k) => Due(l)
  BY <1>3 DEF Due
<1>5. InOrder(k)
  BY <1>1 DEF InOrder
<1>6. InTime(k)
  BY <1>1, <1>3 DEF InTime
<1>7. Follows(c, k) /\ OpensFirst(c, k, X) /\ AwaitsResult(c, k)
  BY <1>1, <1>4 DEF LineFits, Follows, OpensFirst, AwaitsResult
<1>8. PastedBefore(c, k) /\ HearsStart(c, k) /\ HoldsCancelled(c, k, X)
  BY <1>1, <1>2 DEF PastedBefore, HearsStart, HoldsCancelled
<1> QED
  BY <1>2, <1>5, <1>6, <1>7, <1>8 DEF LineFits

\* Of a socket that is refused or lost nothing comes but its close.
LEMMA FailedFits ==
  ASSUME NEW l \in Lines, NEW k \in Lines, NEW c, NEW X, LineFits(c, l, X),
         l.open \in {"connecting", "open"}, NEW mail \in {<<Message("lost", Nobody)>>, <<>>},
         k.of = l.of, k.at = l.at, k.open = "closing", k.mail = mail
  PROVE  LineFits(c, k, X)
<1>1. k.of = l.of /\ k.at = l.at /\ k.open = "closing" /\ k.mail = mail
  OBVIOUS
<1>2. l.of # Nobody
  BY SomeIs DEF Lines
<1>3. \A p \in DOMAIN k.mail : p = 1 /\ k.mail[p] = Message("lost", Nobody) /\ Ranked(k, p) = 5
  <2>1. \A p \in DOMAIN mail : p = 1 /\ mail[p] = Message("lost", Nobody)
    OBVIOUS
  <2>2. Rank(Message("lost", Nobody), l.of) = 5
    BY <1>2 DEF Rank, Message
  <2> QED
    BY <1>1, <2>1, <2>2 DEF Ranked
<1>4. ~Due(k)
  BY <1>1, <1>3 DEF Due
<1>5. InOrder(k) /\ InTime(k)
  BY <1>1, <1>3 DEF InOrder, InTime
<1>6. Follows(c, k) /\ OpensFirst(c, k, X) /\ AwaitsResult(c, k)
  BY <1>1, <1>4 DEF LineFits, Follows, OpensFirst, AwaitsResult
<1>7. OnlyCloses(k)
  BY <1>1, <1>3 DEF OnlyCloses, Message
<1>8. PastedBefore(c, k) /\ HearsStart(c, k) /\ HoldsCancelled(c, k, X)
  BY <1>1, <1>3, <1>4 DEF LineFits, PastedBefore, HearsStart, HoldsCancelled
<1> QED
  BY <1>5, <1>6, <1>7, <1>8 DEF LineFits

LEMMA SocketChangesPastes ==
  ASSUME Undisturbed, NEW q \in DOMAIN sockets, SocketOpens(q) \/ SocketFails(q)
  PROVE  PasteIInv' /\ ServedInv'
<1>1. /\ ClientRests /\ startCalls' = startCalls /\ stopCalls' = stopCalls
      /\ served' = served /\ ClientIInv' /\ ClientIInv
  BY SocketChangesKeeps, ServedIs DEF SocketOpens, SocketFails
<1>2. Alike(Client, Client')
  BY <1>1, ServiceSame
<1>3. NewsFits'
  BY <1>1, <1>2, ServiceNews
<1>11. ServedInv'
  <2>1. jammed' = jammed /\ serving' = serving
    BY DEF SocketOpens, SocketFails
  <2>2. \E open, mail : /\ Well(mail)
          /\ sockets' = [sockets EXCEPT ![q] = [open |-> open, inbox |-> mail]]
    <3> DEFINE told == <<IF serving = Nobody THEN Message("idle", Nobody)
                         ELSE Message(IF HkRecording THEN "started" ELSE "stopping", serving)>>
               closes == IF sockets[q].open = "open" THEN <<Message("lost", Nobody)>> ELSE <<>>
    <3>1. Well(told) /\ Well(closes)
      BY DEF Well, Message
    <3>2. \/ sockets' = [sockets EXCEPT ![q] = [open |-> "open", inbox |-> told]]
          \/ sockets' = [sockets EXCEPT ![q] = [open |-> "closing", inbox |-> closes]]
      BY DEF SocketOpens, SocketFails
    <3> HIDE DEF told, closes
    <3> QED
      BY <3>1, <3>2
  <2>3. WellSent'
    <3>1. PICK open, mail : /\ Well(mail)
            /\ sockets' = [sockets EXCEPT ![q] = [open |-> open, inbox |-> mail]]
      BY <2>2
    <3>2. \A k \in DOMAIN sockets : Well(sockets[k].inbox)
      BY ServedIs, WellSentIs
    <3>3. \A k \in DOMAIN sockets' : /\ k \in DOMAIN sockets
                                     /\ sockets'[k] = sockets[k] \/ sockets'[k].inbox = mail
      BY <3>1
    <3> QED
      BY <3>1, <3>2, <3>3, WellSentIs
  <2>4. StartsFit'
    BY <1>1, ServedIs, StartsGoOn
  <2>5. \A t \in HkSessions : Serves(t)' <=> serving' = t
    BY <1>1, <2>1, ServedIs DEF Serves
  <2> QED
    BY <1>1, <2>1, <2>3, <2>4, <2>5, ServiceServes
<1>4. SUFFICES ASSUME socket # Nobody PROVE LineFits(Client, Line', cancelled)
  BY <1>1, <1>2, <1>3, <1>11, ServicePastes
<1> DEFINE l == Line
<1>5. /\ l \in Lines /\ l.of = socketOf /\ socketOf \in HkSessions
      /\ l.at = served[socketOf].at /\ l.open = sockets[socket].open
      /\ l.mail = sockets[socket].inbox /\ socket \in DOMAIN sockets
      /\ (Serves(socketOf) <=> serving = socketOf) /\ LineFits(Client, l, cancelled)
  BY <1>1, <1>4, UndisturbedIs, LineIs, ServedIs
<1>6. Line' \in Lines
  <2>1. socket' # Nobody /\ socketOf' \in HkSessions
    BY <1>1, <1>4, <1>5 DEF ClientRests
  <2>2. socket' \in DOMAIN sockets' /\ sockets' \in Seq(ClientSocket)
        /\ served' \in [HkSessions -> Served1]
    <3>1. DOMAIN sockets' = DOMAIN sockets /\ socket' = socket
      BY <1>1 DEF SocketOpens, SocketFails, ClientRests
    <3> QED
      BY <1>1, <1>5, <3>1 DEF ClientIInv
  <2>3. sockets'[socket'] \in ClientSocket /\ served'[socketOf'] \in Served1
    BY <2>1, <2>2
  <2> QED
    BY <2>1, <2>3 DEF Line, Lines, ClientSocket, Served1
<1>7. ASSUME NEW open, NEW mail, q = socket,
             sockets' = [sockets EXCEPT ![q] = [open |-> open, inbox |-> mail]]
      PROVE  /\ Line'.of = l.of /\ Line'.at = l.at
             /\ Line'.open = open /\ Line'.mail = mail
  <2>1. sockets'[socket].open = open /\ sockets'[socket].inbox = mail
    BY <1>5, <1>7
  <2>2. Line' = [of |-> socketOf, at |-> served[socketOf].at, open |-> open, mail |-> mail]
    BY <1>1, <2>1 DEF Line, ClientRests
  <2> HIDE DEF l
  <2> QED
    BY <1>5, <2>2
<1>8. CASE q # socket
  <2>1. sockets'[socket] = sockets[socket]
    BY <1>5, <1>8 DEF SocketOpens, SocketFails
  <2>2. Line' = l
    BY <1>1, <2>1 DEF Line, ClientRests
  <2> QED
    BY <1>5, <2>2
<1> HIDE DEF l
<1>9. CASE q = socket /\ SocketOpens(q)
  <2> DEFINE m == IF serving = Nobody THEN Message("idle", Nobody)
                  ELSE Message(IF HkRecording THEN "started" ELSE "stopping", serving)
  <2>1. /\ sockets[q].open = "connecting"
        /\ sockets' = [sockets EXCEPT ![q] = [open |-> "open", inbox |-> <<m>>]]
    BY <1>9 DEF SocketOpens
  <2>2. Line'.of = l.of /\ Line'.at = l.at /\ Line'.open = "open" /\ Line'.mail = <<m>>
    BY <1>7, <1>9, <2>1
  <2>3. m \in SocketMessage
    BY <1>1, CallsAre, SomeIs, MessageIs DEF Kinds
  <2>4. socketOf # Nobody
    BY <1>5, SomeIs
  <2>5. CASE serving # socketOf
    <3>1. Rank(m, l.of) = 5
      BY <1>5, <2>4, <2>5 DEF Rank, Message
    <3>2. l.at \notin {"recording", "ending"}
      BY <1>5, <2>5 DEF Serves
    <3> HIDE DEF m
    <3> QED
      BY <1>5, <1>6, <1>9, <2>1, <2>2, <2>3, <3>1, <3>2, OpenedFits
  <2>6. CASE serving = socketOf
    <3>1. m = Message(IF HkRecording THEN "started" ELSE "stopping", socketOf)
      BY <2>4, <2>6
    <3>2. HkRecording <=> l.at = "recording"
      BY <1>5, <2>4, <2>6 DEF HkRecording
    <3>3. Rank(m, l.of) = IF l.at = "recording" THEN 1 ELSE 3
      BY <1>5, <3>1, <3>2 DEF Rank, Message
    <3> HIDE DEF m
    <3> QED
      BY <1>5, <1>6, <1>9, <2>1, <2>2, <2>3, <3>3, OpenedFits
  <2> QED
    BY <2>5, <2>6
<1>10. CASE q = socket /\ SocketFails(q)
  <2> DEFINE mail == IF sockets[q].open = "open" THEN <<Message("lost", Nobody)>> ELSE <<>>
  <2>1. /\ sockets[q].open \in {"connecting", "open"}
        /\ sockets' = [sockets EXCEPT ![q] = [open |-> "closing", inbox |-> mail]]
    BY <1>10 DEF SocketFails
  <2>2. Line'.of = l.of /\ Line'.at = l.at /\ Line'.open = "closing" /\ Line'.mail = mail
    BY <1>7, <1>10, <2>1
  <2>3. mail \in {<<Message("lost", Nobody)>>, <<>>}
    OBVIOUS
  <2> HIDE DEF mail
  <2> QED
    BY <1>5, <1>6, <1>10, <2>1, <2>2, <2>3, FailedFits
<1> QED
  BY <1>8, <1>9, <1>10

-----------------------------------------------------------------------------


LEMMA ClientInitPastes == HotkeyClientInit => ServedInv /\ PasteIInv
<1> SUFFICES ASSUME HotkeyClientInit PROVE ServedInv /\ PasteIInv
  OBVIOUS
<1>1. /\ DOMAIN sockets = {} /\ DOMAIN startCalls = {} /\ DOMAIN stopCalls = {}
      /\ served = [s \in HkSessions |-> Session("none")] /\ serving = Nobody
      /\ active = Nobody /\ socket = Nobody /\ socketOf = Nobody /\ candidate = Nobody
      /\ pasted = [s \in HkSessions |-> 0] /\ cancelled = {} /\ ~jammed /\ life = "idle"
  BY DEF HotkeyClientInit
<1>2. \A s \in HkSessions : served[s].at = "none" /\ pasted[s] = 0 /\ s # Nobody
  BY <1>1, SomeIs DEF Session
<1>3. WellSent /\ StartsFit /\ OneByOne
  BY <1>1, <1>2 DEF WellSent, StartsFit, OneByOne, Serves
<1>4. NewsFits
  BY <1>1, <1>2, ClientIs DEF NewsFits, Unheard
<1>5. OneCall(Client) /\ ~IsStarting(Client)
  BY <1>1, ClientIs DEF OneCall, IsStarting
<1>6. PasteFits(Client, cancelled)
  BY <1>1, <1>2, <1>5, ClientIs DEF PasteFits
<1> QED
  BY <1>1, <1>3, <1>4, <1>6 DEF ServedInv, PasteIInv

\* While neither calls nor sessions nor sockets overlap, every step keeps it so.
LEMMA NextPastes ==
  ASSUME Undisturbed, HotkeyClientNext
  PROVE  PasteIInv' /\ ServedInv'
<1>1. ASSUME NEW src \in CaptureSources, Press(src) PROVE PasteIInv' /\ ServedInv'
  BY <1>1, PressPastes
<1>2. CASE Release
  BY <1>2, ReleasePastes
<1>3. ASSUME NEW act \in WindowActions, FloatingAction(act) PROVE PasteIInv' /\ ServedInv'
  BY <1>3, FloatingActionPastes
<1>4. CASE ServiceStep
  <2>1. ASSUME NEW i \in DOMAIN startCalls, ServiceStarts(i) PROVE PasteIInv' /\ ServedInv'
    BY <2>1, ServiceStartsPastes
  <2>2. ASSUME NEW j \in DOMAIN stopCalls, ServiceStops(j) PROVE PasteIInv' /\ ServedInv'
    BY <2>2, ServiceStopsPastes
  <2>3. ASSUME NEW s \in HkSessions, ServiceEnds(s) PROVE PasteIInv' /\ ServedInv'
    BY <2>3, SessionGoesOnPastes
  <2>4. ASSUME NEW s \in HkSessions, ServiceRests(s) PROVE PasteIInv' /\ ServedInv'
    BY <2>4, ServiceRestsPastes
  <2> QED
    BY <1>4, <2>1, <2>2, <2>3, <2>4 DEF ServiceStep
<1>5. ASSUME NEW s \in HkSessions, ServiceCommits(s) PROVE PasteIInv' /\ ServedInv'
  BY <1>5, SessionGoesOnPastes
<1>6. CASE AnswersArrive
  <2>1. ASSUME NEW i \in DOMAIN startCalls, StartAnswered(i) PROVE PasteIInv' /\ ServedInv'
    BY <2>1, StartAnsweredPastes
  <2>2. ASSUME NEW j \in DOMAIN stopCalls, StopAnswered(j) PROVE PasteIInv' /\ ServedInv'
    BY <2>2, StopAnsweredPastes
  <2> QED
    BY <1>6, <2>1, <2>2 DEF AnswersArrive
<1>7. ASSUME NEW k \in DOMAIN sockets, SocketTells(k) PROVE PasteIInv' /\ ServedInv'
  BY <1>7, SocketTellsPastes
<1>8. ASSUME NEW k \in DOMAIN sockets, SocketOpens(k) \/ SocketFails(k)
      PROVE  PasteIInv' /\ ServedInv'
  BY <1>8, SocketChangesPastes
<1> QED
  BY <1>1, <1>2, <1>3, <1>4, <1>5, <1>6, <1>7, <1>8 DEF HotkeyClientNext

\* What was once disturbed is never said to be undisturbed again.
LEMMA DisturbedStays ==
  ASSUME HotkeyClientNext, Normal' PROVE Normal
<1>1. doubled => doubled'
  BY DEF HotkeyClientNext, Press, Release, FloatingAction, ServiceStep, AnswersArrive, StopsAgain,
     StartsAgain, ClientRests, ClientKeeps, ServiceStarts, ServiceStops, ServiceEnds, ServiceRests,
     ServiceCommits, StartAnswered, StopAnswered, SocketTells, SocketOpens, SocketFails
<1>2. overlapped => overlapped'
  BY DEF HotkeyClientNext, Press, Release, FloatingAction, ServiceStep, AnswersArrive,
     serviceVars, ServiceStarts, ServiceStops, ServiceEnds, ServiceRests,
     ServiceCommits, StartAnswered, StopAnswered, SocketTells, SocketOpens, SocketFails
<1> QED
  BY <1>1, <1>2 DEF Normal

\* In every behaviour in which neither calls nor sessions nor sockets overlap, the text of a
\* session is pasted at most once, whether at the acknowledgement of its stop or with its
\* result, and nothing is pasted of a session that was cancelled (hotkeyHandlers.js:180-330).
THEOREM TextsArePastedOnce == HotkeyClientSpec => [](PastedOnce /\ CancelPastesNothing)
<1> DEFINE Inv == ClientIInv /\ PasteIInv /\ (Normal => ServedInv)
<1>1. HotkeyClientInit => Inv
  BY ClientInitInv, ClientInitPastes
<1>2. Inv /\ [HotkeyClientNext]_clientVars => Inv'
  <2> SUFFICES ASSUME Inv, [HotkeyClientNext]_clientVars PROVE Inv'
    OBVIOUS
  <2>1. ClientIInv'
    BY ClientStepKeeps
  <2>2. CASE HotkeyClientNext /\ Normal'
    <3>1. Undisturbed
      BY <2>2, DisturbedStays DEF Undisturbed
    <3> QED
      BY <2>1, <2>2, <3>1, NextPastes
  <2>3. CASE ~Normal'
    BY <2>1, <2>3 DEF PasteIInv
  <2>4. CASE UNCHANGED clientVars
    <3>1. /\ Normal' <=> Normal
          /\ ServedInv => ServedInv'
          /\ Client' = Client /\ Line' = Line /\ cancelled' = cancelled /\ socket' = socket
          /\ served' = served /\ startCalls' = startCalls
      BY <2>4 DEF clientVars, serviceVars, Normal, ServedInv, WellSent, StartsFit, OneByOne,
         Serves, Client, Line
    <3>2. PasteIInv => PasteIInv'
      BY <3>1 DEF PasteIInv, NewsFits
    <3> QED
      BY <2>1, <3>1, <3>2
  <2> QED
    BY <2>2, <2>3, <2>4
<1>3. Inv => PastedOnce /\ CancelPastesNothing
  BY ClientIs DEF PasteIInv, PasteFits, Normal, PastedOnce, CancelPastesNothing
<1> QED
  BY <1>1, <1>2, <1>3, PTL DEF HotkeyClientSpec
===========================================================================
