------------------------------- MODULE UIView -------------------------------
(***************************************************************************)
(* What the UI task promises to the other tasks: it sends one Wi-Fi        *)
(* configuration, chosen by the user or, if the start menu is left alone,  *)
(* the one in the EEPROM; it saves that configuration once the network is  *)
(* up; it declares "without connection" only when the user says so after a *)
(* failure; it posts setpoints and saves those the user enters.  UITask    *)
(* implements this; Greenhouse composes it with the others.                *)
(***************************************************************************)
EXTENDS Integers, Sequences

CONSTANTS
  Fields,        \* what the SSID and the password of a configuration can be
  NoConfig,      \* before a configuration is chosen
  BAD,           \* a field of the EEPROM with a bad checksum
  BootFields,    \* what a field of the EEPROM can hold at boot
  BootLevels,    \* levels the EEPROM may hold at boot
  UserLevels,    \* setpoints the user can enter
  EnvLevels,     \* setpoints the other tasks post
  QUEUE_LENGTH   \* length of the queues (main.cpp: 3)

INITIAL_SETPOINT == 1000
DEFAULT_LEVEL == 1200
BAD_LEVEL == 65535

EVENT_BIT_0 == 0
EVENT_BIT_1 == 1
EVENT_BIT_2 == 2

Configs == [ssid : Fields, pwd : Fields]

VARIABLES
  stage,            \* where the dialogue is, see Stages
  config,           \* the configuration that was sent
  checkDefault,     \* the start menu was left alone
  currentSetpoint, savedLevel, savedConfig,
  eventGroup, controllerQueue, wifiQueue   \* shared

uiVars == <<stage, config, checkDefault, currentSetpoint, savedLevel, savedConfig>>
sharedVars == <<eventGroup, controllerQueue, wifiQueue>>
vars == <<uiVars, sharedVars>>

Stages == {"wifi", "connecting", "default_check", "save_ssid", "save_pwd", "saved",
           "default_level", "error", "setpoint", "edit", "save_level", "home"}

Offer(queue, item) == IF Len(queue) < QUEUE_LENGTH THEN Append(queue, item) ELSE queue

Init ==
  /\ stage = "wifi"
  /\ config = NoConfig
  /\ checkDefault = FALSE
  /\ currentSetpoint = INITIAL_SETPOINT
  /\ savedLevel \in BootLevels \cup {BAD_LEVEL}
  /\ savedConfig \in [ssid : BootFields, pwd : BootFields]
  /\ eventGroup = {}
  /\ controllerQueue = <<>>
  /\ wifiQueue = <<>>

\* Slip: the menu can still be used while the network is being joined.
SendConfigAgain ==
  /\ stage \in {"wifi", "connecting"}
  /\ config' \in Configs
  /\ wifiQueue' = Offer(wifiQueue, config')
  /\ stage' = "connecting"
  /\ UNCHANGED <<checkDefault, currentSetpoint, savedLevel, savedConfig, eventGroup, controllerQueue>>

\* The user chose or typed a configuration.
SendConfig ==
  /\ stage = "wifi"
  /\ config' \in Configs
  /\ wifiQueue' = Offer(wifiQueue, config')
  /\ stage' = "connecting"
  /\ UNCHANGED <<checkDefault, currentSetpoint, savedLevel, savedConfig, eventGroup, controllerQueue>>

\* Nobody used the start menu.
SendDefault ==
  /\ stage = "wifi"
  /\ config' \in Configs
  /\ wifiQueue' = Offer(wifiQueue, config')
  /\ checkDefault' = TRUE
  /\ stage' = "default_check"
  /\ UNCHANGED <<currentSetpoint, savedLevel, savedConfig, eventGroup, controllerQueue>>

\* Slip: the configuration is saved whatever the verdict.
UpOrDown == eventGroup # {}
Up == EVENT_BIT_0 \in eventGroup /\ EVENT_BIT_1 \notin eventGroup
Down == EVENT_BIT_1 \in eventGroup

CheckBits ==
  /\ stage \in {"connecting", "default_check"}
  /\ \/ Up /\ stage' = "save_ssid"
     \/ Down /\ stage = "connecting" /\ stage' = "error"
     \/ ~Up /\ stage = "default_check" /\ stage' = "default_level"
  /\ UNCHANGED <<config, checkDefault, currentSetpoint, savedLevel, savedConfig, sharedVars>>

SaveSsid ==
  /\ stage = "save_ssid"
  /\ \E field \in {config.ssid, savedConfig.ssid, BAD} :
       savedConfig' = [savedConfig EXCEPT !.ssid = field]
  /\ stage' \in {"save_pwd", "saved"}
  /\ UNCHANGED <<config, checkDefault, currentSetpoint, savedLevel, sharedVars>>

SavePwd ==
  /\ stage = "save_pwd"
  /\ \E field \in {config.pwd, savedConfig.pwd, BAD} :
       savedConfig' = [savedConfig EXCEPT !.pwd = field]
  /\ stage' = "saved"
  /\ UNCHANGED <<config, checkDefault, currentSetpoint, savedLevel, sharedVars>>

Saved ==
  /\ stage = "saved"
  /\ stage' = IF checkDefault THEN "default_level" ELSE "setpoint"
  /\ UNCHANGED <<config, checkDefault, currentSetpoint, savedLevel, savedConfig, sharedVars>>

LevelRead == {IF level = BAD_LEVEL THEN DEFAULT_LEVEL ELSE level : level \in {savedLevel, BAD_LEVEL}}

\* Slip: the level is only looked at, not posted.
PostNothing == UNCHANGED controllerQueue
PostSavedLevel ==
  \E level \in LevelRead : controllerQueue' = Offer(controllerQueue, level)

DefaultLevel ==
  /\ stage = "default_level"
  /\ PostSavedLevel
  /\ stage' = "home"
  /\ UNCHANGED <<config, checkDefault, currentSetpoint, savedLevel, savedConfig, eventGroup, wifiQueue>>

\* The user goes on without a connection ...
PressError ==
  /\ stage = "error"
  /\ eventGroup' = eventGroup \cup {EVENT_BIT_2}
  /\ stage' = "setpoint"
  /\ UNCHANGED <<config, checkDefault, currentSetpoint, savedLevel, savedConfig,
                 controllerQueue, wifiQueue>>

\* ... uses the saved setpoint ...
UseSaved ==
  /\ stage = "setpoint"
  /\ PostSavedLevel
  /\ stage' = "home"
  /\ UNCHANGED <<config, checkDefault, currentSetpoint, savedLevel, savedConfig, eventGroup, wifiQueue>>

\* ... or enters one.
StartEdit ==
  /\ stage \in {"setpoint", "home"}
  /\ stage' = "edit"
  /\ UNCHANGED <<config, checkDefault, currentSetpoint, savedLevel, savedConfig, sharedVars>>

Confirm ==
  /\ stage = "edit"
  /\ currentSetpoint' \in UserLevels
  /\ controllerQueue' = Offer(controllerQueue, currentSetpoint')
  /\ stage' = "save_level"
  /\ UNCHANGED <<config, checkDefault, savedLevel, savedConfig, eventGroup, wifiQueue>>

SaveLevel ==
  /\ stage = "save_level"
  /\ savedLevel' \in {currentSetpoint, savedLevel, BAD_LEVEL}
  /\ stage' = "home"
  /\ UNCHANGED <<config, checkDefault, currentSetpoint, savedConfig, sharedVars>>

\* What happens by itself, and what needs the user.
Automatic == CheckBits \/ SaveSsid \/ SavePwd \/ Saved \/ DefaultLevel \/ SaveLevel
User == SendConfig \/ SendDefault \/ PressError \/ UseSaved \/ StartEdit \/ Confirm

UI == Automatic \/ User

\* What it assumes of the other tasks: a verdict only after a configuration
\* was sent, and only one.
EnvTakeConfig ==
  /\ wifiQueue # <<>>
  /\ wifiQueue' = Tail(wifiQueue)
  /\ UNCHANGED <<uiVars, eventGroup, controllerQueue>>

EnvSetBits ==
  /\ stage # "wifi" /\ eventGroup = {}
  /\ \E bit \in {EVENT_BIT_0, EVENT_BIT_1} : eventGroup' = {bit}
  /\ UNCHANGED <<uiVars, controllerQueue, wifiQueue>>

EnvControllerQueue ==
  /\ \/ controllerQueue # <<>> /\ controllerQueue' = Tail(controllerQueue)
     \/ /\ Len(controllerQueue) < QUEUE_LENGTH
        /\ \E level \in EnvLevels : controllerQueue' = Append(controllerQueue, level)
  /\ UNCHANGED <<uiVars, eventGroup, wifiQueue>>

Next == UI \/ EnvTakeConfig \/ EnvSetBits \/ EnvControllerQueue

Spec == Init /\ [][Next]_vars
\* What happens by itself does happen.
FairSpec == Spec /\ WF_vars(Automatic)
=============================================================================
