----------------------------- MODULE MCServices -----------------------------
(* What the backend's sessions rest on, each by itself: voice detection,   *)
(* the two engines that decode, the services that work on a text, and the  *)
(* settings file.  The variable component says which of them the behaviour *)
(* is about.  Safety only.                                                 *)
EXTENDS Vad, StreamingEngine, WhisperTranscriber, TextServices, SettingsFile

\* Constants that a configuration cannot write: functions of the mode, and of the confidence.
VadHysteresisOf == [m \in VadModes |-> IF m = "hotkey" THEN 1 ELSE 2]
VadSilenceOf == [m \in VadModes |-> IF m = "hotkey" THEN 1 ELSE 3]
VadPeakHoldOf == [m \in VadModes |-> IF m = "hotkey" THEN 0 ELSE 2]
TrustedOf == [c \in {"medium", "high"} |-> IF c = "medium" THEN 1 ELSE 2]

\* Texts of two words and of three, with a word that comes twice and words in other scripts.
RefinerTextsOf ==
  UNION {{<<w, w>>, <<w, s>>, <<f, s>>, <<Accented(s), f>>, <<w, f, s>>} :
           w \in LongWords, s \in ShortWords, f \in ForeignWords}

VARIABLE component

vars == <<component, vadVars, streamVars, whisperVars, textVars, fileVars>>

\* What a component starts with matters only when the behaviour is about it.
Idle(c) ==
  /\ c # "vad" => vadMode = "system"
  /\ c # "whisper" => execution = "auto" /\ device = "cpu"
  /\ c # "file" => file = NoFile

Init ==
  /\ component \in {"vad", "stream", "whisper", "refiner", "coach", "file"}
  /\ VadInit /\ StreamingInit /\ WhisperInit /\ TextInit /\ SettingsFileInit
  /\ Idle(component)

\* A step of component c leaves the other components alone.
Alone(c) ==
  /\ UNCHANGED component
  /\ c # "vad" => UNCHANGED vadVars
  /\ c # "stream" => UNCHANGED streamVars
  /\ c # "whisper" => UNCHANGED whisperVars
  /\ c \notin {"refiner", "coach"} => UNCHANGED textVars
  /\ c # "file" => UNCHANGED fileVars

Next ==
  \/ component = "vad" /\ VadNext /\ Alone("vad")
  \/ component = "stream" /\ StreamingNext /\ Alone("stream")
  \/ component = "whisper" /\ WhisperNext /\ Alone("whisper")
  \/ component = "refiner" /\ RefinerNext /\ Alone("refiner")
  \/ component = "coach" /\ CoachNext /\ Alone("coach")
  \/ component = "file" /\ SettingsFileNext /\ Alone("file")

Spec == Init /\ [][Next]_vars
=============================================================================
