\* A box pushed, broken and a footstep; a storage of any content.
SPECIFICATION Spec
CONSTANTS
  Event = {"push", "crack", "step"}
  Cap <- MCCap
  TotalCap = 2
  Level = {"low", "high"}
  Actions <- MCActions
  Default <- MCDefault
  KeyName = {"w", "s", "x", "r"}
  Reserved = {"r"}
  Loudness = "low"
INVARIANTS OneSong VoicesCounted SettingsHold KeysApart
