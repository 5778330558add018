------------------------------- MODULE UITask -------------------------------
(***************************************************************************)
(* The UI task of src/ui/UITask.cpp: eleven screens driven by a rotary     *)
(* encoder with a button and by time-outs, and the values in the EEPROM    *)
(* (src/storage/ConfigStorage.cpp) that the screens load and save.         *)
(*                                                                         *)
(* One turn of the loop in run() is: receive a sample, handleInput,        *)
(* checkTimeOut, draw, sleep 200 ms; uiPc says which comes next.  A turn is  *)
(* cut where the task touches something others see or that outlives it: a  *)
(* queue, the event group, a field of the EEPROM.  Time is counted in      *)
(* turns.  A text is the sequence of the screens its characters were typed *)
(* on; texts from elsewhere are <<BLANK>> (initial), <<EEPROM>> and, where *)
(* the checksum of the field was wrong, <<>>.  Drawing is left out, except *)
(* that drawing WIFI_CONNECTING looks at the event group.                  *)
(*                                                                         *)
(* Losing power is not an action: a boot starts in Init, and Init allows   *)
(* whatever a run, cut anywhere, can leave in the EEPROM.                  *)
(***************************************************************************)
EXTENDS Integers, Sequences

CONSTANTS
  Deltas,             \* what getDelta can return, 0 included
  BootLevels,         \* levels the EEPROM may hold at boot
  QUEUE_LENGTH,       \* length of the queues (main.cpp: 3)
  SETPOINT_STEP,      \* 10 in the code; multiples of it get to the same range
  WIFI_MAX_SIZE,      \* 60 in the code
  SSID_WIFI_TIMEOUT,  \* 5000 ms, in turns like all times below
  CONFIRM_TIMEOUT,    \* 5000 ms
  START_UP_TIMEOUT    \* 30000 ms

ASSUME DeltasAssumption == Deltas \subseteq Int /\ 0 \in Deltas
ASSUME SizesAssumption ==
  QUEUE_LENGTH \in Nat \ {0} /\ WIFI_MAX_SIZE \in Nat /\ SETPOINT_STEP \in Nat \ {0}
ASSUME TimeoutsAssumption ==
  SSID_WIFI_TIMEOUT \in Nat /\ CONFIRM_TIMEOUT \in Nat /\ START_UP_TIMEOUT \in Nat

SETPOINT_MIN == 0
SETPOINT_MAX == 1500
INITIAL_SETPOINT == 1000   \* UITask.h: editValue and currentSetpoint
DEFAULT_LEVEL == 1200      \* when the level in the EEPROM fails its checksum
Levels == SETPOINT_MIN .. SETPOINT_MAX
ASSUME BootLevelsAssumption == BootLevels \subseteq Levels

EVENT_BIT_0 == 0
EVENT_BIT_1 == 1
EVENT_BIT_2 == 2

BLANK == "blank"
EEPROM == "eeprom"
BAD == <<"bad">>           \* a field of the EEPROM that fails its checksum
BAD_LEVEL == 65535         \* what getCo2Level returns for a bad checksum: 0xFFFF

EntryScreens == {"WIFI_NEW_SSID", "WIFI_NEW_PWD"}
WifiScreens ==
  {"WIFI_MENU", "WIFI_SAVED", "WIFI_ERROR", "WIFI_CONNECTING", "WIFI_CONFIRM"} \cup EntryScreens
SetpointScreens == {"SETPOINT_SELECT", "SETPOINT_SAVED", "HOME", "EDIT_SETPOINT"}

\* Characters by where they come from, and what wifiConfigInfo can hold.
Chars == EntryScreens \cup {BLANK, EEPROM}
Config == [ssid : Seq(Chars), pwd : Seq(Chars)]

VARIABLES
  uiPc,                                    \* what the turn does next
  currentScreen, wifiMenuSelection, spMenuSelection, editValue, currentSetpoint,
  wifiInfo, wifiConfigInfo, setWifiPwd, checkDefault,
  idle,                                  \* turns since lastActive (saturates)
  savedLevel, savedConfig,               \* the fields of the EEPROM
  eventGroup, controllerQueue, displayQueue, wifiQueue,   \* shared
  sent,                                  \* history: configurations sent (saturates at 2)
  unattended                             \* history: nobody uses the encoder any more

menuVars == <<currentScreen, wifiMenuSelection, spMenuSelection>>
setpointVars == <<editValue, currentSetpoint>>
wifiVars == <<wifiInfo, wifiConfigInfo, setWifiPwd>>
eepromVars == <<savedLevel, savedConfig>>
sharedVars == <<eventGroup, controllerQueue, displayQueue, wifiQueue>>
vars == <<uiPc, menuVars, setpointVars, wifiVars, checkDefault, idle, eepromVars,
          sharedVars, sent, unattended>>

Points == {"receive", "input", "save_level", "timeout", "check_bits", "save_ssid",
           "save_pwd", "saved", "default_level", "draw", "sleep"}

IdleMax ==
  1 + CHOOSE t \in {SSID_WIFI_TIMEOUT, CONFIRM_TIMEOUT, START_UP_TIMEOUT} :
        \A u \in {SSID_WIFI_TIMEOUT, CONFIRM_TIMEOUT, START_UP_TIMEOUT} : u <= t

Goto(point) == uiPc' = point

\* xQueueSend(ToBack) with timeout 0; the task ignores a failure.
Offer(queue, item) == IF Len(queue) < QUEUE_LENGTH THEN Append(queue, item) ELSE queue

Clamp(n, low, high) == IF n < low THEN low ELSE IF n > high THEN high ELSE n

-----------------------------------------------------------------------------
Init ==
  /\ uiPc = "receive"
  /\ currentScreen = "WIFI_MENU"
  /\ wifiMenuSelection = 0
  /\ spMenuSelection = 0
  /\ editValue = INITIAL_SETPOINT
  /\ currentSetpoint = INITIAL_SETPOINT
  /\ wifiInfo = <<>>
  /\ wifiConfigInfo = [ssid |-> <<BLANK>>, pwd |-> <<BLANK>>]
  /\ setWifiPwd = FALSE
  /\ checkDefault = FALSE
  /\ idle = 0
  /\ savedLevel \in BootLevels \cup {BAD_LEVEL}
  /\ savedConfig \in [ssid : {<<EEPROM>>, BAD}, pwd : {<<EEPROM>>, BAD}]
  /\ eventGroup = {}
  /\ controllerQueue = <<>>
  /\ displayQueue = <<>>
  /\ wifiQueue = <<>>
  /\ sent = 0
  /\ unattended = FALSE

\* The loop takes at most one sample per turn; latestData is only drawn.
Receive ==
  /\ uiPc = "receive"
  /\ displayQueue' = IF displayQueue = <<>> THEN <<>> ELSE Tail(displayQueue)
  /\ Goto("input")
  /\ UNCHANGED <<menuVars, setpointVars, wifiVars, checkDefault, idle, eepromVars,
                 eventGroup, controllerQueue, wifiQueue, sent, unattended>>

-----------------------------------------------------------------------------
(* handleInput: first the rotation, then the button, on the same screen.   *)

Sign(delta) == IF delta > 0 THEN 1 ELSE IF delta < 0 THEN -1 ELSE 0

RotateActive(delta) ==
  delta # 0 /\ currentScreen \in {"WIFI_MENU", "EDIT_SETPOINT"} \cup EntryScreens

\* What the three values are after the rotation.
MenuAfter(delta) ==
  IF currentScreen = "WIFI_MENU" THEN Clamp(wifiMenuSelection + Sign(delta), 0, 1)
                                 ELSE wifiMenuSelection
SpMenuAfter(delta) ==
  IF currentScreen = "SETPOINT_SELECT" THEN Clamp(spMenuSelection + Sign(delta), 0, 1)
                                       ELSE spMenuSelection
\* Slip: the ends of the range are not enforced.
EditAfterUnclamped(delta) ==
  IF currentScreen = "EDIT_SETPOINT" THEN editValue + delta * SETPOINT_STEP ELSE editValue
EditAfter(delta) ==
  IF currentScreen = "EDIT_SETPOINT"
    THEN Clamp(editValue + delta * SETPOINT_STEP, SETPOINT_MIN, SETPOINT_MAX)
    ELSE editValue

Rotate(delta) ==
  /\ wifiMenuSelection' = MenuAfter(delta)
  /\ spMenuSelection' = SpMenuAfter(delta)

NoPress(delta) ==
  /\ Rotate(delta)
  /\ editValue' = EditAfter(delta)
  /\ idle' = IF RotateActive(delta) THEN 0 ELSE idle
  /\ Goto("timeout")
  /\ UNCHANGED <<currentScreen, currentSetpoint, wifiVars, eepromVars, controllerQueue,
                 wifiQueue, eventGroup, sent>>

\* What every press does: lastActive is now, the turn goes on.
Pressed(delta) == Rotate(delta) /\ idle' = 0 /\ Goto("timeout")

PressMenu(delta) ==
  /\ currentScreen = "WIFI_MENU"
  /\ Pressed(delta)
  /\ currentScreen' = IF MenuAfter(delta) = 0 THEN "WIFI_SAVED" ELSE "WIFI_NEW_SSID"
  /\ UNCHANGED <<setpointVars, wifiVars, eepromVars, controllerQueue, wifiQueue, eventGroup, sent>>

\* What a field of the EEPROM reads as: a failed read is a failed checksum.
FieldRead(field) == {<<>>} \cup IF field = BAD THEN {} ELSE {field}
LevelRead == {IF level = BAD_LEVEL THEN DEFAULT_LEVEL ELSE level : level \in {savedLevel, BAD_LEVEL}}

\* getInfoFromMemory: load both fields and send them to CONNECT.
GetInfoFromMemory ==
  /\ wifiConfigInfo' \in [ssid : FieldRead(savedConfig.ssid), pwd : FieldRead(savedConfig.pwd)]
  /\ wifiQueue' = Offer(wifiQueue, wifiConfigInfo')
  /\ sent' = IF sent < 2 THEN sent + 1 ELSE 2

PressSaved(delta) ==
  /\ currentScreen = "WIFI_SAVED"
  /\ Pressed(delta)
  /\ GetInfoFromMemory
  /\ currentScreen' = "WIFI_CONNECTING"
  /\ UNCHANGED <<setpointVars, wifiInfo, setWifiPwd, eepromVars, controllerQueue, eventGroup>>

\* A press adds the character; when the text is full it leaves the screen.
PressEntry(delta) ==
  /\ currentScreen \in EntryScreens
  /\ Pressed(delta)
  /\ IF Len(wifiInfo) <= WIFI_MAX_SIZE
       THEN wifiInfo' = Append(wifiInfo, currentScreen) /\ UNCHANGED currentScreen
       ELSE currentScreen' = "WIFI_CONFIRM" /\ UNCHANGED wifiInfo
  /\ UNCHANGED <<setpointVars, wifiConfigInfo, setWifiPwd, eepromVars, controllerQueue,
                 wifiQueue, eventGroup, sent>>

\* Slip: the text is not cleared before the password is entered.
ConfirmSsidUncleared(delta) ==
  /\ currentScreen = "WIFI_CONFIRM"
  /\ ~setWifiPwd
  /\ Pressed(delta)
  /\ wifiConfigInfo' = [wifiConfigInfo EXCEPT !.ssid = wifiInfo]
  /\ currentScreen' = "WIFI_NEW_PWD"
  /\ UNCHANGED <<wifiInfo, setpointVars, setWifiPwd, eepromVars, controllerQueue, wifiQueue,
                 eventGroup, sent>>

ConfirmSsid(delta) ==
  /\ currentScreen = "WIFI_CONFIRM"
  /\ ~setWifiPwd
  /\ Pressed(delta)
  /\ wifiConfigInfo' = [wifiConfigInfo EXCEPT !.ssid = wifiInfo]
  /\ currentScreen' = "WIFI_NEW_PWD"
  /\ wifiInfo' = <<>>
  /\ UNCHANGED <<setpointVars, setWifiPwd, eepromVars, controllerQueue, wifiQueue, eventGroup, sent>>

ConfirmPwd(delta) ==
  /\ currentScreen = "WIFI_CONFIRM"
  /\ setWifiPwd
  /\ Pressed(delta)
  /\ wifiConfigInfo' = [wifiConfigInfo EXCEPT !.pwd = wifiInfo]
  /\ wifiQueue' = Offer(wifiQueue, wifiConfigInfo')
  /\ sent' = IF sent < 2 THEN sent + 1 ELSE 2
  /\ setWifiPwd' = FALSE
  /\ currentScreen' = "WIFI_CONNECTING"
  /\ UNCHANGED <<setpointVars, wifiInfo, eepromVars, controllerQueue, eventGroup>>

PressSetpointSelect(delta) ==
  /\ currentScreen = "SETPOINT_SELECT"
  /\ Pressed(delta)
  /\ editValue' = currentSetpoint
  /\ currentScreen' = IF SpMenuAfter(delta) = 0 THEN "SETPOINT_SAVED" ELSE "EDIT_SETPOINT"
  /\ UNCHANGED <<currentSetpoint, wifiVars, eepromVars, controllerQueue, wifiQueue, eventGroup, sent>>

\* Load the level from the EEPROM and post it.
PostSavedLevel ==
  \E level \in LevelRead : controllerQueue' = Offer(controllerQueue, level)

PressSetpointSaved(delta) ==
  /\ currentScreen = "SETPOINT_SAVED"
  /\ Pressed(delta)
  /\ PostSavedLevel
  /\ currentScreen' = "HOME"
  /\ UNCHANGED <<setpointVars, wifiVars, eepromVars, wifiQueue, eventGroup, sent>>

\* Slip: after a failure the user may try again from the start menu.
PressErrorRetry(delta) ==
  /\ currentScreen = "WIFI_ERROR"
  /\ Pressed(delta)
  /\ currentScreen' = "WIFI_MENU"
  /\ UNCHANGED <<setpointVars, wifiVars, eepromVars, controllerQueue, wifiQueue, eventGroup, sent>>

PressError(delta) ==
  /\ currentScreen = "WIFI_ERROR"
  /\ Pressed(delta)
  /\ eventGroup' = eventGroup \cup {EVENT_BIT_2}
  /\ currentScreen' = "SETPOINT_SELECT"
  /\ UNCHANGED <<setpointVars, wifiVars, eepromVars, controllerQueue, wifiQueue, sent>>

PressHome(delta) ==
  /\ currentScreen = "HOME"
  /\ Pressed(delta)
  /\ editValue' = currentSetpoint
  /\ currentScreen' = "EDIT_SETPOINT"
  /\ UNCHANGED <<currentSetpoint, wifiVars, eepromVars, controllerQueue, wifiQueue, eventGroup, sent>>

\* The first half of a press on EDIT_SETPOINT: post the value ...
PressEdit(delta) ==
  /\ currentScreen = "EDIT_SETPOINT"
  /\ Rotate(delta)
  /\ editValue' = EditAfter(delta)
  /\ currentSetpoint' = EditAfter(delta)
  /\ controllerQueue' = Offer(controllerQueue, EditAfter(delta))
  /\ Goto("save_level")
  /\ idle' = IF RotateActive(delta) THEN 0 ELSE idle
  /\ UNCHANGED <<currentScreen, wifiVars, eepromVars, wifiQueue, eventGroup, sent>>

\* A press that nothing handles: only lastActive changes.
PressIgnored(delta) ==
  /\ currentScreen = "WIFI_CONNECTING"
  /\ Pressed(delta)
  /\ UNCHANGED <<currentScreen, setpointVars, wifiVars, eepromVars, controllerQueue,
                 wifiQueue, eventGroup, sent>>

Press(delta) ==
  \/ PressMenu(delta) \/ PressSaved(delta) \/ PressEntry(delta)
  \/ ConfirmSsid(delta) \/ ConfirmPwd(delta) \/ PressSetpointSelect(delta)
  \/ PressSetpointSaved(delta) \/ PressError(delta) \/ PressHome(delta)
  \/ PressEdit(delta) \/ PressIgnored(delta)

HandleInput ==
  /\ uiPc = "input"
  /\ \/ ~unattended /\ \E delta \in Deltas : NoPress(delta) \/ Press(delta)
     \/ unattended /\ NoPress(0)
  /\ UNCHANGED <<checkDefault, displayQueue, unattended>>

\* ... the second half: save it.  The write is all or nothing or leaves the
\* field with a bad checksum; its result is ignored.
SaveLevel ==
  /\ uiPc = "save_level"
  /\ savedLevel' \in {currentSetpoint, savedLevel, BAD_LEVEL}
  /\ currentScreen' = "HOME"
  /\ idle' = 0
  /\ Goto("timeout")
  /\ UNCHANGED <<wifiMenuSelection, spMenuSelection, setpointVars, wifiVars, checkDefault,
                 savedConfig, sharedVars, sent, unattended>>

-----------------------------------------------------------------------------
(* checkTimeOut.                                                           *)

\* On an entry screen: confirm what there is.
EntryTimeout ==
  /\ currentScreen \in EntryScreens
  /\ idle > SSID_WIFI_TIMEOUT
  /\ setWifiPwd' = (setWifiPwd \/ currentScreen = "WIFI_NEW_PWD")
  /\ currentScreen' = "WIFI_CONFIRM"
  /\ idle' = 0
  /\ Goto("draw")
  /\ UNCHANGED <<wifiInfo, wifiConfigInfo, checkDefault, wifiQueue, sent>>

\* Nobody confirms: back to the entry screen with an empty text.
ConfirmTimeout ==
  /\ currentScreen = "WIFI_CONFIRM"
  /\ idle > CONFIRM_TIMEOUT
  /\ currentScreen' = IF setWifiPwd THEN "WIFI_NEW_PWD" ELSE "WIFI_NEW_SSID"
  /\ wifiInfo' = <<>>
  /\ idle' = 0
  /\ Goto("draw")
  /\ UNCHANGED <<wifiConfigInfo, setWifiPwd, checkDefault, wifiQueue, sent>>

\* Nobody uses the start menu: checkLastConfigInfo, which goes on at
\* check_bits and default_level.
MenuTimeout ==
  /\ currentScreen = "WIFI_MENU"
  /\ idle > START_UP_TIMEOUT
  /\ checkDefault' = TRUE
  /\ GetInfoFromMemory
  /\ Goto("check_bits")
  /\ UNCHANGED <<currentScreen, wifiInfo, setWifiPwd, idle>>

TimedOut ==
  \/ currentScreen \in EntryScreens /\ idle > SSID_WIFI_TIMEOUT
  \/ currentScreen = "WIFI_CONFIRM" /\ idle > CONFIRM_TIMEOUT
  \/ currentScreen = "WIFI_MENU" /\ idle > START_UP_TIMEOUT

NoTimeout ==
  /\ ~TimedOut
  /\ Goto("draw")
  /\ UNCHANGED <<currentScreen, wifiVars, checkDefault, idle, wifiQueue, sent>>

CheckTimeOut ==
  /\ uiPc = "timeout"
  /\ EntryTimeout \/ ConfirmTimeout \/ MenuTimeout \/ NoTimeout
  /\ UNCHANGED <<wifiMenuSelection, spMenuSelection, setpointVars, eepromVars,
                 eventGroup, controllerQueue, displayQueue, unattended>>

-----------------------------------------------------------------------------
(* checkEventBits, called by checkLastConfigInfo and by every drawing of   *)
(* WIFI_CONNECTING.  checkDefault tells the two apart: it is set only by   *)
(* checkLastConfigInfo, and HOME, where that ends, has no way back.        *)

Failed == EVENT_BIT_1 \in eventGroup

AfterCheck == Goto(IF checkDefault THEN "default_level" ELSE "sleep")

CheckEventBits ==
  /\ uiPc = "check_bits"
  /\ IF Failed
       THEN currentScreen' = "WIFI_ERROR" /\ AfterCheck
       ELSE /\ UNCHANGED currentScreen
            /\ IF EVENT_BIT_0 \in eventGroup THEN Goto("save_ssid") ELSE AfterCheck
  /\ UNCHANGED <<wifiMenuSelection, spMenuSelection, setpointVars, wifiVars, checkDefault,
                 idle, eepromVars, sharedVars, sent, unattended>>

\* setWifiConfig: two writes, the second only if the first returned its full count.
\* A refused write does, and one that is complete may not (PicoI2C).
SaveSsid ==
  /\ uiPc = "save_ssid"
  /\ \E field \in {wifiConfigInfo.ssid, savedConfig.ssid, BAD} :
       savedConfig' = [savedConfig EXCEPT !.ssid = field]
  /\ Goto("save_pwd") \/ Goto("saved")
  /\ UNCHANGED <<menuVars, setpointVars, wifiVars, checkDefault, idle, savedLevel,
                 sharedVars, sent, unattended>>

SavePwd ==
  /\ uiPc = "save_pwd"
  /\ \E field \in {wifiConfigInfo.pwd, savedConfig.pwd, BAD} :
       savedConfig' = [savedConfig EXCEPT !.pwd = field]
  /\ Goto("saved")
  /\ UNCHANGED <<menuVars, setpointVars, wifiVars, checkDefault, idle, savedLevel,
                 sharedVars, sent, unattended>>

\* What follows saveInfoToMemory, which ignores the result.
Saved ==
  /\ uiPc = "saved"
  /\ currentScreen' = IF checkDefault THEN currentScreen ELSE "SETPOINT_SELECT"
  /\ idle' = 0
  /\ wifiInfo' = <<>>
  /\ AfterCheck
  /\ UNCHANGED <<wifiMenuSelection, spMenuSelection, setpointVars, wifiConfigInfo, setWifiPwd,
                 checkDefault, eepromVars, sharedVars, sent, unattended>>

\* Slip: the screen is left as it is.
DefaultLevelNoHome ==
  /\ uiPc = "default_level"
  /\ PostSavedLevel
  /\ Goto("draw")
  /\ UNCHANGED <<menuVars, setpointVars, wifiVars, checkDefault, idle,
                 eepromVars, eventGroup, displayQueue, wifiQueue, sent, unattended>>

\* The end of checkLastConfigInfo.
DefaultLevel ==
  /\ uiPc = "default_level"
  /\ PostSavedLevel
  /\ currentScreen' = "HOME"
  /\ Goto("draw")
  /\ UNCHANGED <<wifiMenuSelection, spMenuSelection, setpointVars, wifiVars, checkDefault, idle,
                 eepromVars, eventGroup, displayQueue, wifiQueue, sent, unattended>>

\* Slip: drawing looks at nothing.
AfterDrawAlways == "sleep"
AfterDraw == IF currentScreen = "WIFI_CONNECTING" THEN "check_bits" ELSE "sleep"

Draw ==
  /\ uiPc = "draw"
  /\ Goto(AfterDraw)
  /\ UNCHANGED <<menuVars, setpointVars, wifiVars, checkDefault, idle, eepromVars,
                 sharedVars, sent, unattended>>

\* vTaskDelay at the end of the turn.
Sleep ==
  /\ uiPc = "sleep"
  /\ idle' = IF idle < IdleMax THEN idle + 1 ELSE idle
  /\ Goto("receive")
  /\ UNCHANGED <<menuVars, setpointVars, wifiVars, checkDefault, eepromVars,
                 sharedVars, sent, unattended>>

Task ==
  \/ Receive \/ HandleInput \/ SaveLevel \/ CheckTimeOut \/ CheckEventBits
  \/ SaveSsid \/ SavePwd \/ Saved \/ DefaultLevel \/ Draw \/ Sleep

-----------------------------------------------------------------------------
(* The user, and what the other tasks do to the shared objects.            *)

UserLeaves ==
  /\ ~unattended
  /\ unattended' = TRUE
  /\ UNCHANGED <<uiPc, menuVars, setpointVars, wifiVars, checkDefault, idle, eepromVars,
                 sharedVars, sent>>

\* CONNECT takes a configuration ...
EnvTakeConfig ==
  /\ wifiQueue # <<>>
  /\ wifiQueue' = Tail(wifiQueue)
  /\ UNCHANGED <<uiPc, menuVars, setpointVars, wifiVars, checkDefault, idle, eepromVars,
                 eventGroup, controllerQueue, displayQueue, sent, unattended>>

\* ... and then sets one of two bits, once.
EnvSetBits ==
  /\ sent > 0 /\ eventGroup = {}
  /\ \E bit \in {EVENT_BIT_0, EVENT_BIT_1} : eventGroup' = {bit}
  /\ UNCHANGED <<uiPc, menuVars, setpointVars, wifiVars, checkDefault, idle, eepromVars,
                 controllerQueue, displayQueue, wifiQueue, sent, unattended>>

\* CONTROLLER takes setpoints, READ posts them.
EnvControllerQueue ==
  /\ \/ controllerQueue # <<>> /\ controllerQueue' = Tail(controllerQueue)
     \/ /\ Len(controllerQueue) < QUEUE_LENGTH
        /\ \E level \in BootLevels : controllerQueue' = Append(controllerQueue, level)
  /\ UNCHANGED <<uiPc, menuVars, setpointVars, wifiVars, checkDefault, idle, eepromVars,
                 eventGroup, displayQueue, wifiQueue, sent, unattended>>

\* CONTROLLER offers samples; what is in one does not matter here.
EnvSample ==
  /\ displayQueue' = Offer(displayQueue, "sample")
  /\ UNCHANGED <<uiPc, menuVars, setpointVars, wifiVars, checkDefault, idle, eepromVars,
                 eventGroup, controllerQueue, wifiQueue, sent, unattended>>

Environment == EnvTakeConfig \/ EnvSetBits \/ EnvControllerQueue \/ EnvSample

Next == Task \/ UserLeaves \/ Environment

Spec == Init /\ [][Next]_vars
\* The scheduler runs a ready task; the loop never blocks on another task.
FairSpec == Spec /\ WF_vars(Task)

-----------------------------------------------------------------------------
\* Type invariant.
TypeOK ==
  /\ uiPc \in Points
  /\ currentScreen \in WifiScreens \cup SetpointScreens
  /\ wifiMenuSelection \in 0 .. 1 /\ spMenuSelection \in 0 .. 1
  /\ editValue \in Levels /\ currentSetpoint \in Levels
  /\ wifiInfo \in Seq(EntryScreens) /\ Len(wifiInfo) <= WIFI_MAX_SIZE + 1
  /\ wifiConfigInfo \in Config
  /\ setWifiPwd \in BOOLEAN /\ checkDefault \in BOOLEAN
  /\ idle \in 0 .. IdleMax
  /\ savedLevel \in Levels \cup {BAD_LEVEL}
  /\ savedConfig \in [ssid : Seq(Chars) \cup {BAD}, pwd : Seq(Chars) \cup {BAD}]
  /\ eventGroup \subseteq {EVENT_BIT_0, EVENT_BIT_1, EVENT_BIT_2}
  /\ controllerQueue \in Seq(Levels) /\ Len(controllerQueue) <= QUEUE_LENGTH
  /\ displayQueue \in Seq({"sample"}) /\ Len(displayQueue) <= QUEUE_LENGTH
  /\ wifiQueue \in Seq(Config) /\ Len(wifiQueue) <= QUEUE_LENGTH
  /\ sent \in 0 .. 2
  /\ unattended \in BOOLEAN

(* CONNECT takes one configuration and then ends, so the UI must not send  *)
(* a second one in a boot, whichever way the user and the time-outs lead   *)
(* it through the eleven screens.                                          *)
OneConfigPerBoot == sent <= 1

(* A configuration that is sent has a password typed on the password       *)
(* screen, or the one from the EEPROM, and never an initial value: the     *)
(* text and the flag setWifiPwd are shared by both entry screens.          *)
CredentialsTyped ==
  \A i \in 1 .. Len(wifiQueue) :
    LET config == wifiQueue[i]
    IN  /\ \A j \in 1 .. Len(config.pwd) : config.pwd[j] \notin {"WIFI_NEW_SSID", BLANK}
        /\ config.ssid # <<BLANK>>

(* The same of the SSID: what was typed under "New password: " is not      *)
(* saved as the SSID.                                                      *)
SsidTyped ==
  \A i \in 1 .. Len(wifiConfigInfo.ssid) : wifiConfigInfo.ssid[i] # "WIFI_NEW_PWD"

(* A start menu nobody uses ends at HOME (the comment at its time-out: "if *)
(* power loss, able to recover itself").                                   *)
MenuRecovers == unattended /\ currentScreen = "WIFI_MENU" ~> currentScreen = "HOME"

(* Once CONNECT has its verdict the screen follows it, pressed or not.     *)
ConnectingResolves ==
  currentScreen = "WIFI_CONNECTING" /\ eventGroup # {}
    ~> currentScreen \in {"WIFI_ERROR", "SETPOINT_SELECT"}

\* No screen that the UI is to leave by itself is left only by a press.
ScreensMoveOn == MenuRecovers /\ ConnectingResolves

-----------------------------------------------------------------------------
(* This implements UIView: screens, texts, turns and time-outs reduce to   *)
(* the stage the dialogue is in.                                           *)

stageBar ==
  CASE uiPc \in {"save_ssid", "save_pwd", "saved", "default_level", "save_level"} -> uiPc
    [] uiPc = "check_bits" /\ checkDefault -> "default_check"
    [] OTHER ->
         CASE currentScreen \in {"WIFI_MENU", "WIFI_SAVED", "WIFI_CONFIRM"} \cup EntryScreens -> "wifi"
           [] currentScreen = "WIFI_CONNECTING" -> "connecting"
           [] currentScreen = "WIFI_ERROR" -> "error"
           [] currentScreen \in {"SETPOINT_SELECT", "SETPOINT_SAVED"} -> "setpoint"
           [] currentScreen = "EDIT_SETPOINT" -> "edit"
           [] currentScreen = "HOME" -> "home"

View == INSTANCE UIView WITH
  stage <- stageBar,
  config <- IF stageBar = "wifi" THEN <<>> ELSE wifiConfigInfo,
  Fields <- Seq(Chars),
  NoConfig <- <<>>,
  BootFields <- {<<EEPROM>>, BAD},
  UserLevels <- Levels,
  EnvLevels <- BootLevels

(* Every turn of the UI task is made of steps that UIView allows: whatever *)
(* the user does, and with every time-out, the other tasks see that        *)
(* dialogue and the EEPROM is written only by its save steps.  And what    *)
(* needs no user happens: a verdict is seen, the configuration is saved,   *)
(* the saved setpoint is posted.                                           *)
ImplementsFairView == View!FairSpec

-----------------------------------------------------------------------------
(* Small values for UITask, and smaller ones for its liveness and its      *)
(* refinement (LiveDeltas).  A step of 1500 reaches 0 and 1500 from every  *)
(* setpoint, with and without clamping; a text is full after one           *)
(* character; the start menu waits longest.                                *)
MCDeltas == {-1, 0, 1}
LiveDeltas == {0, 1}
MCBootLevels == {1500}
=============================================================================
