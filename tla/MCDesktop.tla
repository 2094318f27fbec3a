----------------------------- MODULE MCDesktop -----------------------------
(* The keys, the overlay and the settings of the desktop application, and  *)
(* the two algorithms that cut audio, each by itself: the variable         *)
(* component says which of them the behaviour is about.  Safety only.      *)
EXTENDS HotKeys, Overlay, SettingsSharing, Chunking, PipelineAudio

VARIABLE component

vars == <<component, keyVars, overlayVars, settingsVars, chunkVars, audioVars>>

Init ==
  /\ component \in {"keys", "overlay", "settings", "chunks", "audio"}
  /\ HotKeysInit /\ OverlayInit /\ SettingsInit /\ ChunkingInit /\ PipelineAudioInit
  \* which pipeline it is matters only when the behaviour is about one
  /\ component # "audio" => pipeKind = "wispr"

\* A step of component c leaves the other components alone.
Alone(c) ==
  /\ UNCHANGED component
  /\ c # "keys" => UNCHANGED keyVars
  /\ c # "overlay" => UNCHANGED overlayVars
  /\ c # "settings" => UNCHANGED settingsVars
  /\ c # "chunks" => UNCHANGED chunkVars
  /\ c # "audio" => UNCHANGED audioVars

Next ==
  \/ component = "keys" /\ HotKeysNext /\ Alone("keys")
  \/ component = "overlay" /\ OverlayNext /\ Alone("overlay")
  \/ component = "settings" /\ SettingsNext /\ Alone("settings")
  \/ component = "chunks" /\ ChunkingNext /\ Alone("chunks")
  \/ component = "audio" /\ PipelineAudioNext /\ Alone("audio")

Spec == Init /\ [][Next]_vars

-----------------------------------------------------------------------------
(* Properties of two components. *)

\* What the user sees is so: the keys (hotkeyHandlers.js, holdModeHotkeys.js) and the
\* overlay (FloatingWindow.tsx).
ShownInv == HotKeysInv /\ OverlayInv

\* However audio is cut, by the chunker (fast_chunker.py) or by a pipeline (audio/pipelines/),
\* nothing of it is lost unnoticed, repeated or out of order.
CuttingInv == ChunkingInv /\ PipelineAudioInv
=============================================================================
