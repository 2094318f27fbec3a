------------------------------ MODULE HotKeys -------------------------------
(***************************************************************************)
(* The hot keys of the desktop application: how electron/main/ipc/         *)
(* hotkeyHandlers.js registers the configured ones with the operating      *)
(* system (toggle mode), and how services/holdModeHotkeys.js follows every *)
(* key of the keyboard instead (hold mode).  What a press then starts is   *)
(* modelled in HotkeyClient.  Node runs one handler at a time; the user    *)
(* presses and releases keys, and changes the settings, in any order.      *)
(***************************************************************************)
EXTENDS Naturals

CONSTANTS NConfigs,  \* bound: changes of the configuration
          NPresses,  \* bound: keys pressed
          HookWorks  \* iohook, an optional dependency, can be loaded

ASSUME HotKeysAssumption == NConfigs \in Nat /\ NPresses \in Nat /\ HookWorks \in BOOLEAN

Modifiers == {"ctrl", "shift"}
MainKeys == {"T", "Y"}
Odd == "odd"   \* a key that neither Electron nor parseHoldAccelerator knows
Accelerators == [mods : {{"ctrl"}, Modifiers}, key : MainKeys \cup {Odd}]
NoKeys == [mods |-> {}, key |-> "none"]
KeySources == {"microphone", "system"}
DefaultKey == [mods |-> Modifiers, key |-> "T"]
DefaultSystemKey == [mods |-> Modifiers, key |-> "Y"]

VARIABLES
  keysOn,      \* hotkeyEnabled
  configured,  \* hotkeyConfigState: the two accelerators, and whether a release stops
  current,     \* currentMicrophone-, currentSystemHotkeyAccelerator
  registered,  \* globalShortcut: what this application has, and for which source
  foreign,     \* what other applications have
  bindings,    \* the hold-mode controller's
  down,        \* the keys held down
  asked,       \* sources that hold mode has started and not stopped again
  torn,        \* history: sources whose binding was dropped while it was active
  halfway,     \* history: a registration has thrown after the first of the two keys
  configs, presses \* counters, for the bounds

keyVars == <<keysOn, configured, current, registered, foreign, bindings, down, asked, torn,
             halfway, configs, presses>>

HotKeysInit ==
  /\ keysOn = TRUE
  /\ configured = [keys |-> [microphone |-> DefaultKey, system |-> DefaultSystemKey],
                   hold |-> FALSE]
  /\ current = [s \in KeySources |-> NoKeys]
  /\ registered = {} /\ foreign = {}
  /\ bindings = {}
  /\ down = {} /\ asked = {} /\ torn = {}
  /\ halfway = FALSE
  /\ configs = 0 /\ presses = 0

-----------------------------------------------------------------------------
(* Registration                                                            *)

Known == {current[s] : s \in KeySources}
Owned(keys) == {r \in registered : r.keys = keys} # {}

\* Variant of Available: only the other applications count.
AvailableToUs(keys) == keys.key = Odd \/ keys \notin foreign

\* checkHotkeyAvailability(): a key of this application's own that it does not know of
\* counts as another's.  A key that makes Electron throw counts as free.
Available(keys) ==
  \/ keys.key = Odd
  \/ keys \in Known /\ Owned(keys)
  \/ keys \notin foreign /\ ~Owned(keys)

\* What registerConfiguredHotkeys leaves.
Left(sys, held, cur) == [registered |-> sys, bindings |-> held, current |-> cur]
Unchanged == Left(registered, bindings, current)
NoneCurrent == [s \in KeySources |-> NoKeys]

\* Variant of Cleared: the accelerators are forgotten, not unregistered.
ClearedOnPaper == Left(registered, {}, NoneCurrent)

\* clearRegisteredHotkeys(): what it knows of is unregistered.
Cleared == Left({r \in registered : r.keys \notin Known}, {}, NoneCurrent)

Bound(keys) == {[source |-> s, keys |-> keys[s], active |-> FALSE] :
                  s \in {x \in KeySources : keys[x].key # Odd}}

\* configure(): without the hook nothing is bound; with nothing to bind it is not needed.
Holds(keys) == IF HookWorks \/ Bound(keys) = {} THEN Left(Cleared.registered, Bound(keys), keys)
               ELSE Cleared

\* Variant of Registers: the keys are written down before they are registered.
RegistersAtOnce(keys) ==
  IF keys.microphone.key = Odd THEN Left(Cleared.registered, {}, keys)
  ELSE Left(Cleared.registered \cup {[keys |-> keys.microphone, source |-> "microphone"]}
              \cup (IF keys.system.key = Odd THEN {}
                    ELSE {[keys |-> keys.system, source |-> "system"]}), {}, keys)

\* When the second register() throws, the first key stays registered: what is then cleared
\* is what has been written down, and that comes last.
Registers(keys) ==
  LET own == [s \in KeySources |-> [keys |-> keys[s], source |-> s]] IN
  CASE keys.microphone.key = Odd -> Cleared
    [] keys.microphone.key # Odd /\ keys.system.key = Odd ->
         Left(Cleared.registered \cup {own.microphone}, {}, NoneCurrent)
    [] OTHER -> Left(Cleared.registered \cup {own[s] : s \in KeySources}, {}, keys)

\* A configuration that is refused before anything is cleared leaves the old keys.
RegisterConfigured(c) ==
  CASE c.keys.microphone = c.keys.system -> Unchanged
    [] c.keys.microphone # c.keys.system /\ c.hold -> Holds(c.keys)
    [] OTHER -> IF \A s \in KeySources : Available(c.keys[s]) THEN Registers(c.keys)
                ELSE Unchanged

Throws(c) == ~c.hold /\ c.keys.microphone.key # Odd /\ c.keys.system.key = Odd

\* The keys become what the configuration gives, once all is applied.
Becomes(on, c, left) ==
  /\ configs < NConfigs /\ configs' = configs + 1
  /\ keysOn' = on /\ configured' = c
  /\ registered' = left.registered /\ bindings' = left.bindings /\ current' = left.current
  /\ torn' = IF left.bindings = bindings THEN torn
             ELSE torn \cup {b.source : b \in {x \in bindings : x.active}}
  /\ halfway' = (halfway \/ (on /\ Throws(c)))
  /\ UNCHANGED <<foreign, down, asked, presses>>

\* applyHotkeyConfig(): whenever settings are saved, from the panel, the tray or the quick
\* settings, changed or not.
ApplyConfig(c, on) == Becomes(on, c, IF on THEN RegisterConfigured(c) ELSE Cleared)

\* registerHotkey(), for the microphone.
RegisterHotkey(keys) ==
  LET c == [configured EXCEPT !.keys.microphone = keys] IN
  Becomes(keysOn, c, IF keysOn THEN RegisterConfigured(c) ELSE Unchanged)

\* hotkey:toggle.  Enabling registers the current key, or the default one when none is.
ToggleKeys(on) ==
  LET keys == IF current.microphone # NoKeys THEN current.microphone ELSE DefaultKey
      c == [configured EXCEPT !.keys.microphone = keys]
  IN  IF on THEN Becomes(TRUE, c, RegisterConfigured(c)) ELSE Becomes(FALSE, configured, Cleared)

OtherAppTakes(keys) ==
  /\ foreign = {} /\ ~Owned(keys)
  /\ foreign' = {keys}
  /\ UNCHANGED <<keysOn, configured, current, registered, bindings, down, asked, torn, halfway,
                 configs, presses>>

-----------------------------------------------------------------------------
(* The keyboard, in hold mode                                              *)

\* eventMatchesAccelerator(): the key, with exactly these modifiers.
Matches(b, key, held) == b.keys.key = key /\ b.keys.mods = held \cap Modifiers

KeyDown(key) ==
  LET hit == {b \in bindings : ~b.active /\ Matches(b, key, down \cup {key})} IN
  /\ key \notin down /\ presses < NPresses
  /\ presses' = presses + 1
  /\ down' = down \cup {key}
  /\ bindings' = (bindings \ hit) \cup {[b EXCEPT !.active = TRUE] : b \in hit}
  /\ asked' = asked \cup {b.source : b \in hit}
  /\ torn' = torn \ {b.source : b \in hit}
  /\ UNCHANGED <<keysOn, configured, current, registered, foreign, halfway, configs>>

\* Variant of Releases: only the main key counts.
ReleasesByKey(b, key, held) == b.keys.key = key

\* shouldReleaseAccelerator(): the key, or a modifier that is missing.
Releases(b, key, held) == b.keys.key = key \/ ~(b.keys.mods \subseteq held)

KeyUp(key) ==
  LET hit == {b \in bindings : b.active /\ Releases(b, key, down \ {key})} IN
  /\ key \in down
  /\ down' = down \ {key}
  /\ bindings' = (bindings \ hit) \cup {[b EXCEPT !.active = FALSE] : b \in hit}
  /\ asked' = asked \ {b.source : b \in hit}
  /\ UNCHANGED <<keysOn, configured, current, registered, foreign, torn, halfway, configs,
                 presses>>

HotKeysNext ==
  \/ \E c \in [keys : [KeySources -> Accelerators], hold : BOOLEAN], on \in BOOLEAN :
       ApplyConfig(c, on)
  \/ \E keys \in Accelerators : RegisterHotkey(keys) \/ OtherAppTakes(keys)
  \/ \E on \in BOOLEAN : ToggleKeys(on)
  \/ \E key \in Modifiers \cup MainKeys : KeyDown(key) \/ KeyUp(key)

HotKeysSpec == HotKeysInit /\ [][HotKeysNext]_keyVars

-----------------------------------------------------------------------------
(* Properties                                                              *)

\* The variables have their types; a key is registered for one source only.
HotKeysTypeOK ==
  /\ keysOn \in BOOLEAN /\ halfway \in BOOLEAN
  /\ configured \in [keys : [KeySources -> Accelerators], hold : BOOLEAN]
  /\ current \in [KeySources -> Accelerators \cup {NoKeys}]
  /\ registered \subseteq [keys : Accelerators, source : KeySources]
  /\ \A r, q \in registered : r.keys = q.keys => r = q
  /\ bindings \subseteq [source : KeySources, keys : Accelerators, active : BOOLEAN]
  /\ \A b, d \in bindings : b.source = d.source => b = d
  /\ down \subseteq Modifiers \cup MainKeys
  /\ asked \subseteq KeySources /\ torn \subseteq KeySources

\* The system calls the application for the keys that it shows as its own and for no
\* others, through any series of settings, refusals and other applications: the two are
\* told apart by three variables that are written at different places.  A registration
\* that throws halfway is excluded: the key it leaves behind is taken for another
\* application's, and cannot be registered again before a restart.
ShownKeysAreRegistered ==
  halfway \/ {r.keys : r \in registered} \subseteq Known

\* And the keys that are shown do work: they are registered, or followed in hold mode,
\* unless hold mode cannot express them.
ShownKeysWork ==
  \A s \in KeySources :
    \/ current[s].key \in {Odd, "none"}
    \/ [keys |-> current[s], source |-> s] \in registered
    \/ \E b \in bindings : b.source = s /\ b.keys = current[s]

\* A recording that hold mode has started is stopped no later than its keys are let go, in
\* whatever order they are, also while the keys of the other source are held; unless its
\* binding was dropped by a change of the settings.
ReleasedIsStopped ==
  \A s \in asked \ torn :
    \E b \in bindings : b.source = s /\ b.active /\ b.keys.mods \cup {b.keys.key} \subseteq down

\* Without the exception this is docs/engineering/architecture-overview.md:217 "Hold Mode:
\* Hold to record, release to stop".  Settings that are saved while the keys are held make
\* new bindings, which know of no key that is down: its release is not seen.
\* The code does not keep this: README, section 6.
HoldToRecord == asked # {} => down # {}

\* The keys shown are registered, do work, and stop when released what they have started.
HotKeysInv == HotKeysTypeOK /\ ShownKeysAreRegistered /\ ShownKeysWork /\ ReleasedIsStopped
=============================================================================
