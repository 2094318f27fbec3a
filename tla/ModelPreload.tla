---------------------------- MODULE ModelPreload -----------------------------
(***************************************************************************)
(* Preloading of models: BackendService.preload_model and                  *)
(* clear_model_cache of app/api/services/backend_service.py.  A request    *)
(* runs in a thread of its own, cancels the preload under way by a flag    *)
(* that all preloads share, waits a second for its thread, clears the flag *)
(* and starts the next.  A preload is named after the request that started *)
(* it.                                                                     *)
(***************************************************************************)
EXTENDS Naturals

CONSTANTS NPreloads,     \* requests, numbered as they come
          CacheModels    \* models

Preloads == 1 .. NPreloads
NoPreload == 0

ASSUME PreloadAssumption == NPreloads \in Nat /\ CacheModels # {}

VARIABLES
  preloadAsk,      \* where each request is
  preloadOf,       \* the model it is for
  loader,          \* where its thread is
  preloadThread,   \* _preload_thread
  preloadCancel,   \* _preload_cancelled
  modelCache,      \* the keys of _model_cache
  crossed          \* a request has begun while another was under way

preloadVars == <<preloadAsk, preloadOf, loader, preloadThread, preloadCancel, modelCache,
                 crossed>>

PreloadInit ==
  /\ preloadAsk = [p \in Preloads |-> "idle"]
  /\ preloadOf = [p \in Preloads |-> CHOOSE m \in CacheModels : TRUE]
  /\ loader = [p \in Preloads |-> "none"]
  /\ preloadThread = NoPreload
  /\ preloadCancel = FALSE
  /\ modelCache = {}
  /\ crossed = FALSE

LoaderEnds == {"complete", "error", "cancelled"}
Alive(p) == loader[p] \notin LoaderEnds \cup {"none"}
AskGoes(p, place) == preloadAsk' = [preloadAsk EXCEPT ![p] = place]
LoaderGoesTo(p, place) == loader' = [loader EXCEPT ![p] = place]

-----------------------------------------------------------------------------
(* preload_model *)

PreloadBegins(p, m) ==
  /\ preloadAsk[p] = "idle"
  /\ p > 1 => preloadAsk[p - 1] # "idle"
  /\ AskGoes(p, IF m \in modelCache THEN "done" ELSE "missed")
  /\ preloadOf' = [preloadOf EXCEPT ![p] = m]
  /\ crossed' = (crossed \/ \E q \in Preloads : preloadAsk[q] \notin {"idle", "done"})
  /\ UNCHANGED <<loader, preloadThread, preloadCancel, modelCache>>

PreloadCancels(p) ==
  /\ preloadAsk[p] = "missed"
  /\ IF preloadThread # NoPreload /\ Alive(preloadThread)
     THEN preloadCancel' = TRUE /\ AskGoes(p, "joining")
     ELSE UNCHANGED preloadCancel /\ AskGoes(p, "joined")
  /\ UNCHANGED <<preloadOf, loader, preloadThread, modelCache, crossed>>

\* Variant of PreloadJoins: the thread is waited for as long as it takes.
PreloadJoinsForever(p) ==
  /\ preloadAsk[p] = "joining" /\ ~Alive(preloadThread)
  /\ AskGoes(p, "joined")
  /\ UNCHANGED <<preloadOf, loader, preloadThread, preloadCancel, modelCache, crossed>>

\* The thread has ended, or a second has passed.
PreloadJoins(p) ==
  /\ preloadAsk[p] = "joining"
  /\ AskGoes(p, "joined")
  /\ UNCHANGED <<preloadOf, loader, preloadThread, preloadCancel, modelCache, crossed>>

\* Variant of PreloadClears: the flag is left as it is.
PreloadKeeps(p) ==
  /\ preloadAsk[p] = "joined"
  /\ AskGoes(p, "cleared")
  /\ UNCHANGED <<preloadOf, loader, preloadThread, preloadCancel, modelCache, crossed>>

PreloadClears(p) ==
  /\ preloadAsk[p] = "joined"
  /\ preloadCancel' = FALSE
  /\ AskGoes(p, "cleared")
  /\ UNCHANGED <<preloadOf, loader, preloadThread, modelCache, crossed>>

\* Variant of PreloadLaunches: the request does not end.
PreloadLaunchesOn(p) ==
  /\ preloadAsk[p] = "cleared"
  /\ preloadThread' = p
  /\ LoaderGoesTo(p, "preparing")
  /\ UNCHANGED <<preloadAsk, preloadOf, preloadCancel, modelCache, crossed>>

PreloadLaunches(p) ==
  /\ preloadAsk[p] = "cleared"
  /\ preloadThread' = p
  /\ LoaderGoesTo(p, "preparing")
  /\ AskGoes(p, "done")
  /\ UNCHANGED <<preloadOf, preloadCancel, modelCache, crossed>>

-----------------------------------------------------------------------------
(* _load *)

\* One of the four checks of the flag, and what follows it.
LoaderChecks(p) ==
  /\ loader[p] \in {"preparing", "loaded", "announced", "warm"}
  /\ LoaderGoesTo(p, IF preloadCancel THEN "cancelled"
                     ELSE CASE loader[p] = "preparing" -> "loading"
                            [] loader[p] = "loaded" -> "announced"
                            [] loader[p] = "announced" -> "warming"
                            [] loader[p] = "warm" -> "storing")
  /\ UNCHANGED <<preloadAsk, preloadOf, preloadThread, preloadCancel, modelCache, crossed>>

\* The model is loaded, all attempts failed, or 30 s have passed.
LoaderLoads(p) ==
  /\ loader[p] = "loading"
  /\ LoaderGoesTo(p, "loaded") \/ LoaderGoesTo(p, "error")
  /\ UNCHANGED <<preloadAsk, preloadOf, preloadThread, preloadCancel, modelCache, crossed>>

LoaderWarms(p) ==
  /\ loader[p] = "warming"
  /\ LoaderGoesTo(p, "warm") \/ LoaderGoesTo(p, "error")
  /\ UNCHANGED <<preloadAsk, preloadOf, preloadThread, preloadCancel, modelCache, crossed>>

LoaderStores(p) ==
  /\ loader[p] = "storing"
  /\ modelCache' = modelCache \cup {preloadOf[p]}
  /\ LoaderGoesTo(p, "complete")
  /\ UNCHANGED <<preloadAsk, preloadOf, preloadThread, preloadCancel, crossed>>

ClearModelCache ==
  /\ modelCache # {}
  /\ modelCache' = {}
  /\ UNCHANGED <<preloadAsk, preloadOf, loader, preloadThread, preloadCancel, crossed>>

-----------------------------------------------------------------------------
PreloadStep(p) ==
  PreloadCancels(p) \/ PreloadJoins(p) \/ PreloadClears(p) \/ PreloadLaunches(p)

PreloadNext ==
  \/ \E p \in Preloads :
       \/ \E m \in CacheModels : PreloadBegins(p, m)
       \/ PreloadStep(p)
       \/ LoaderChecks(p) \/ LoaderLoads(p) \/ LoaderWarms(p) \/ LoaderStores(p)
  \/ ClearModelCache

PreloadSpec == PreloadInit /\ [][PreloadNext]_preloadVars

\* A request that has begun runs on, and its join has a timeout.  A thread may hang in the
\* warm-up.
PreloadFairness == \A p \in Preloads : WF_preloadVars(PreloadStep(p))

PreloadFairSpec == PreloadSpec /\ PreloadFairness

-----------------------------------------------------------------------------
(* Properties *)

\* Types of the requests, threads and cache; only requests that are done have threads.
PreloadTypeOK ==
  /\ preloadAsk \in [Preloads -> {"idle", "missed", "joining", "joined", "cleared", "done"}]
  /\ preloadOf \in [Preloads -> CacheModels]
  /\ loader \in [Preloads -> LoaderEnds \cup {"none", "preparing", "loading", "loaded",
                                              "announced", "warming", "warm", "storing"}]
  /\ preloadThread \in Preloads \cup {NoPreload}
  /\ \A p \in Preloads : loader[p] # "none" => preloadAsk[p] = "done"
  /\ preloadCancel \in BOOLEAN
  /\ modelCache \subseteq CacheModels
  /\ crossed \in BOOLEAN

\* If requests never overlapped, a preload is only cancelled by a later request: the flag
\* of an earlier one never ends it.
NewestIsKept ==
  ~crossed => \A p \in Preloads :
    loader[p] = "cancelled" => \E q \in p + 1 .. NPreloads : preloadAsk[q] # "idle"

\* A request to preload returns, even if the thread it cancels hangs.
PreloadsReturn == \A p \in Preloads : []<>(preloadAsk[p] \in {"idle", "done"})

\* "Cancel any existing preload": a preload does not store its model when a later one has
\* taken its place.
\* The code does not keep this: README, section 6.
CancelledIsNotStored ==
  [][\A p \in Preloads : LoaderStores(p) => preloadThread = p]_preloadVars

\* The shared flag ends only preloads that a later request was to end.
PreloadInv == PreloadTypeOK /\ NewestIsKept
=============================================================================
