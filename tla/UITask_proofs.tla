--------------------------- MODULE UITask_proofs ---------------------------
(***************************************************************************)
(* Proofs about UITask for every queue length, length of the texts, set of  *)
(* levels and time-out: one configuration per boot is sent, and it was     *)
(* typed where it should have been.                                        *)
(***************************************************************************)
EXTENDS UITask, SequenceTheorems, TLAPS

(* The points of a turn at which the verdict of CONNECT is looked at, and  *)
(* the screens from which a configuration can still be sent.               *)
Checking == {"check_bits", "save_ssid", "save_pwd", "saved", "default_level"}
SendingScreens == {"WIFI_MENU", "WIFI_SAVED", "WIFI_CONFIRM"} \cup EntryScreens

(* A sending screen says that nothing was sent yet, except where the start *)
(* menu timed out and its turn has not got to HOME.                        *)
OneInv ==
  /\ uiPc \in Points
  /\ currentScreen \in WifiScreens \cup SetpointScreens
  /\ checkDefault \in BOOLEAN
  /\ sent \in 0 .. 1
  /\ uiPc \notin Checking /\ currentScreen \in SendingScreens => sent = 0
  /\ currentScreen = "WIFI_CONNECTING" => sent = 1
  /\ uiPc \in Checking =>
       sent = 1 /\ currentScreen \in {"WIFI_MENU", "WIFI_ERROR", "WIFI_CONNECTING"}
  /\ uiPc \in Checking \ {"default_level"} => checkDefault \/ currentScreen = "WIFI_CONNECTING"
  /\ uiPc = "save_level" => currentScreen = "EDIT_SETPOINT"

(* What a configuration may be made of, and where it comes from.           *)
Typed == {config \in [ssid : Seq(Chars), pwd : Seq({"WIFI_NEW_PWD", EEPROM})] :
            config.ssid # <<BLANK>>}
Stored == {<<EEPROM>>, BAD}
CredInv ==
  /\ setWifiPwd \in BOOLEAN
  /\ wifiInfo \in Seq(EntryScreens)
  /\ wifiConfigInfo \in Config
  /\ wifiQueue \in Seq(Typed)
  /\ currentScreen = "WIFI_NEW_PWD" \/ setWifiPwd =>
       wifiInfo \in Seq({"WIFI_NEW_PWD"}) /\ wifiConfigInfo.ssid # <<BLANK>>
  /\ setWifiPwd => currentScreen \in {"WIFI_NEW_PWD", "WIFI_CONFIRM"}
  /\ sent = 0 => savedConfig \in [ssid : Stored, pwd : Stored]

-----------------------------------------------------------------------------
(* One configuration.                                                      *)
LEMMA OneInit == Init => OneInv
<1> SUFFICES ASSUME Init PROVE OneInv
  OBVIOUS
<1>1. uiPc = "receive" /\ currentScreen = "WIFI_MENU" /\ checkDefault \in BOOLEAN /\ sent = 0
  BY DEF Init
<1> QED
  BY <1>1 DEF OneInv, Points, WifiScreens, SetpointScreens, EntryScreens, SendingScreens, Checking

LEMMA OneInput == OneInv /\ HandleInput => OneInv'
<1> SUFFICES ASSUME OneInv, HandleInput PROVE OneInv'
  OBVIOUS
<1> USE DEF OneInv, Points, WifiScreens, SetpointScreens, EntryScreens, SendingScreens,
            Checking, Goto
<1>0. uiPc = "input" /\ UNCHANGED checkDefault
  BY DEF HandleInput
<1>1. ASSUME NEW delta, NoPress(delta)
      PROVE  OneInv'
  BY <1>0, <1>1 DEF NoPress
<1>2. ASSUME NEW delta, PressMenu(delta) \/ PressEntry(delta) \/ ConfirmSsid(delta)
      PROVE  OneInv'
  BY <1>0, <1>2 DEF PressMenu, PressEntry, ConfirmSsid, Pressed
<1>3. ASSUME NEW delta, PressSaved(delta) \/ ConfirmPwd(delta)
      PROVE  OneInv'
  BY <1>0, <1>3 DEF PressSaved, GetInfoFromMemory, ConfirmPwd, Pressed
<1>4. ASSUME NEW delta, PressSetpointSelect(delta) \/ PressSetpointSaved(delta) \/ PressHome(delta)
      PROVE  OneInv'
  BY <1>0, <1>4 DEF PressSetpointSelect, PressSetpointSaved, PressHome, Pressed
<1>5. ASSUME NEW delta, PressError(delta) \/ PressEdit(delta) \/ PressIgnored(delta)
      PROVE  OneInv'
  BY <1>0, <1>5 DEF PressError, PressEdit, PressIgnored, Pressed
<1> QED BY <1>1, <1>2, <1>3, <1>4, <1>5 DEF HandleInput, Press

LEMMA OneStep == OneInv /\ [Next]_vars => OneInv'
<1> SUFFICES ASSUME OneInv, [Next]_vars PROVE OneInv'
  OBVIOUS
<1> USE DEF OneInv, Points, WifiScreens, SetpointScreens, EntryScreens, SendingScreens, Checking,
            Goto, menuVars, sharedVars
<1>1. CASE HandleInput
  BY <1>1, OneInput
<1>2. CASE Receive \/ SaveLevel \/ Draw \/ Sleep
  BY <1>2 DEF Receive, SaveLevel, Draw, AfterDraw, Sleep
<1>3. CASE CheckTimeOut
  <2>1. CASE EntryTimeout \/ ConfirmTimeout \/ NoTimeout
    BY <1>3, <2>1 DEF CheckTimeOut, EntryTimeout, ConfirmTimeout, NoTimeout
  <2>2. CASE MenuTimeout
    BY <1>3, <2>2 DEF CheckTimeOut, MenuTimeout, GetInfoFromMemory
  <2> QED BY <1>3, <2>1, <2>2 DEF CheckTimeOut
<1>4. CASE CheckEventBits
  BY <1>4 DEF CheckEventBits, AfterCheck
<1>5. CASE SaveSsid \/ SavePwd
  BY <1>5 DEF SaveSsid, SavePwd
<1>6. CASE Saved
  BY <1>6 DEF Saved, AfterCheck
<1>7. CASE DefaultLevel
  BY <1>7 DEF DefaultLevel
<1>8. CASE UserLeaves \/ Environment \/ UNCHANGED vars
  BY <1>8
  DEF UserLeaves, Environment, EnvTakeConfig, EnvSetBits, EnvControllerQueue, EnvSample, vars
<1> QED BY <1>1, <1>2, <1>3, <1>4, <1>5, <1>6, <1>7, <1>8 DEF Next, Task

(* From the sending of the configuration on, the task stays behind the     *)
(* screens and the points of a turn from which it is sent.                 *)
THEOREM OneInvHolds == Spec => []OneInv
  BY OneInit, OneStep, PTL DEF Spec

(* Through any sequence of presses, rotations and time-outs on the eleven  *)
(* screens the UI sends at most one configuration in a boot.               *)
THEOREM OneConfig == Spec => []OneConfigPerBoot
<1>1. OneInv => OneConfigPerBoot
  BY DEF OneInv, OneConfigPerBoot
<1> QED BY <1>1, OneInvHolds, PTL

-----------------------------------------------------------------------------
(* Credentials.                                                            *)
LEMMA OfferInSeq ==
  ASSUME NEW S, NEW queue \in Seq(S), NEW item \in S
  PROVE  Offer(queue, item) \in Seq(S)
  BY AppendProperties DEF Offer

(* The texts that are not typed in this run.                               *)
LEMMA Texts ==
  /\ <<>> \in Seq({"WIFI_NEW_PWD"}) /\ <<>> \in Seq(EntryScreens) /\ <<>> \in Seq(Typed)
  /\ <<BLANK>> \in Seq(Chars)
  /\ <<EEPROM>> \in Seq({"WIFI_NEW_PWD", EEPROM}) /\ <<EEPROM>> # <<BLANK>>
  /\ <<>> # <<BLANK>>
<1>1. <<BLANK>> \in Seq(Chars)
  BY DEF Chars
<1>2. <<EEPROM>> \in Seq({"WIFI_NEW_PWD", EEPROM})
  OBVIOUS
<1>3. BLANK # EEPROM
  BY DEF BLANK, EEPROM
<1> QED BY <1>1, <1>2, <1>3, EmptySeq

(* A text that is typed is a text, and not the initial one.                *)
LEMMA EntryTexts ==
  ASSUME NEW text \in Seq(EntryScreens)
  PROVE  text \in Seq(Chars) /\ text # <<BLANK>>
<1>1. EntryScreens \subseteq Chars /\ BLANK \notin EntryScreens
  BY DEF EntryScreens, Chars, BLANK
<1>2. \A j \in 1 .. Len(text) : text[j] \in EntryScreens
  OBVIOUS
<1>3. text \in Seq(Chars)
  BY <1>1, <1>2, SeqMonotonic
<1>4. text # <<BLANK>>
  BY <1>1, <1>2
<1> QED BY <1>3, <1>4

(* What is read from fields nobody wrote in this run can be sent.          *)
LEMMA ReadsTyped ==
  ASSUME savedConfig \in [ssid : Stored, pwd : Stored],
         NEW config \in [ssid : FieldRead(savedConfig.ssid), pwd : FieldRead(savedConfig.pwd)]
  PROVE  config \in Typed /\ config \in Config
<1>1. ASSUME NEW field \in Stored, NEW text \in FieldRead(field)
      PROVE  text \in {<<>>, <<EEPROM>>}
  BY <1>1 DEF FieldRead, Stored
<1>2. config.ssid \in {<<>>, <<EEPROM>>} /\ config.pwd \in {<<>>, <<EEPROM>>}
  BY <1>1
<1>3. /\ {<<>>, <<EEPROM>>} \subseteq Seq(Chars)
      /\ {<<>>, <<EEPROM>>} \subseteq Seq({"WIFI_NEW_PWD", EEPROM})
  BY EmptySeq DEF Chars
<1> QED BY <1>2, <1>3, Texts DEF Typed, Config

LEMMA CredInit == Init => CredInv
<1> SUFFICES ASSUME Init PROVE CredInv
  OBVIOUS
<1>1. setWifiPwd = FALSE /\ setWifiPwd \in BOOLEAN
  BY DEF Init
<1>2. wifiInfo \in Seq(EntryScreens) /\ wifiQueue \in Seq(Typed)
  BY Texts DEF Init
<1>3. wifiConfigInfo \in Config
  BY Texts DEF Init, Config
<1>4. currentScreen = "WIFI_MENU" /\ savedConfig \in [ssid : Stored, pwd : Stored]
  BY DEF Init, Stored
<1> QED BY <1>1, <1>2, <1>3, <1>4 DEF CredInv

LEMMA CredInput == OneInv /\ CredInv /\ HandleInput => CredInv'
<1> SUFFICES ASSUME OneInv, CredInv, HandleInput PROVE CredInv'
  OBVIOUS
<1>0. uiPc = "input"
  BY DEF HandleInput
<1>1. ASSUME NEW delta, NoPress(delta)
      PROVE  CredInv'
  BY <1>1 DEF CredInv, NoPress, wifiVars, eepromVars
<1>2. ASSUME NEW delta, PressMenu(delta)
      PROVE  CredInv'
  BY <1>2 DEF CredInv, PressMenu, wifiVars, eepromVars
<1>3. ASSUME NEW delta, PressSaved(delta)
      PROVE  CredInv'
  <2>1. sent = 0 /\ ~setWifiPwd
    BY <1>0, <1>3 DEF OneInv, CredInv, PressSaved, Checking, SendingScreens
  <2>2. wifiConfigInfo' \in Typed /\ wifiConfigInfo' \in Config
    BY <1>3, <2>1, ReadsTyped DEF CredInv, PressSaved, GetInfoFromMemory
  <2>3. wifiQueue' \in Seq(Typed)
    BY <1>3, <2>2, OfferInSeq DEF CredInv, PressSaved, GetInfoFromMemory
  <2>4. sent' = 1
    BY <1>3, <2>1 DEF PressSaved, GetInfoFromMemory
  <2> QED BY <1>3, <2>1, <2>2, <2>3, <2>4 DEF CredInv, PressSaved
<1>4. ASSUME NEW delta, PressEntry(delta)
      PROVE  CredInv'
  <2>1. CASE Len(wifiInfo) <= WIFI_MAX_SIZE
    <3>1. wifiInfo' \in Seq(EntryScreens)
      BY <1>4, <2>1, AppendProperties DEF CredInv, PressEntry
    <3>2. currentScreen = "WIFI_NEW_PWD" => wifiInfo' \in Seq({"WIFI_NEW_PWD"})
      BY <1>4, <2>1, AppendProperties DEF CredInv, PressEntry
    <3>3. setWifiPwd => currentScreen = "WIFI_NEW_PWD"
      BY <1>4 DEF CredInv, PressEntry, EntryScreens
    <3> QED BY <1>4, <2>1, <3>1, <3>2, <3>3 DEF CredInv, PressEntry, eepromVars
  <2>2. CASE ~(Len(wifiInfo) <= WIFI_MAX_SIZE)
    BY <1>4, <2>2 DEF CredInv, PressEntry, eepromVars
  <2> QED BY <2>1, <2>2
<1>5. ASSUME NEW delta, ConfirmSsid(delta)
      PROVE  CredInv'
  <2>1. wifiInfo \in Seq(Chars) /\ wifiInfo # <<BLANK>>
    BY EntryTexts DEF CredInv
  <2>2. wifiConfigInfo' \in Config /\ wifiConfigInfo'.ssid # <<BLANK>>
    BY <1>5, <2>1 DEF CredInv, ConfirmSsid, Config
  <2> QED BY <1>5, <2>2, Texts DEF CredInv, ConfirmSsid, eepromVars
<1>6. ASSUME NEW delta, ConfirmPwd(delta)
      PROVE  CredInv'
  <2>1. wifiInfo \in Seq({"WIFI_NEW_PWD"}) /\ wifiConfigInfo.ssid # <<BLANK>>
    BY <1>6 DEF CredInv, ConfirmPwd
  <2>2. wifiInfo \in Seq({"WIFI_NEW_PWD", EEPROM}) /\ wifiInfo \in Seq(Chars)
    BY <2>1, SeqMonotonic DEF Chars, EntryScreens
  <2>3. wifiConfigInfo' \in Typed /\ wifiConfigInfo' \in Config
    BY <1>6, <2>1, <2>2 DEF CredInv, ConfirmPwd, Config, Typed
  <2>4. wifiQueue' \in Seq(Typed)
    BY <1>6, <2>3, OfferInSeq DEF CredInv, ConfirmPwd
  <2>5. sent' # 0
    BY <1>6 DEF OneInv, ConfirmPwd
  <2> QED BY <1>6, <2>3, <2>4, <2>5 DEF CredInv, ConfirmPwd
<1>7. ASSUME NEW delta, PressSetpointSelect(delta) \/ PressSetpointSaved(delta) \/ PressHome(delta)
      PROVE  CredInv'
  BY <1>7 DEF CredInv, PressSetpointSelect, PressSetpointSaved, PressHome, wifiVars, eepromVars
<1>8. ASSUME NEW delta, PressError(delta) \/ PressEdit(delta) \/ PressIgnored(delta)
      PROVE  CredInv'
  BY <1>8 DEF CredInv, PressError, PressEdit, PressIgnored, wifiVars, eepromVars
<1> QED
  BY <1>1, <1>2, <1>3, <1>4, <1>5, <1>6, <1>7, <1>8 DEF HandleInput, Press

LEMMA CredStep == OneInv /\ CredInv /\ [Next]_vars => CredInv'
<1> SUFFICES ASSUME OneInv, CredInv, [Next]_vars PROVE CredInv'
  OBVIOUS
<1> USE DEF menuVars, sharedVars, wifiVars, eepromVars
<1>1. CASE HandleInput
  BY <1>1, CredInput
<1>2. CASE Receive \/ Draw \/ Sleep \/ UserLeaves
  BY <1>2 DEF CredInv, Receive, Draw, Sleep, UserLeaves
<1>3. CASE SaveLevel
  BY <1>3 DEF CredInv, OneInv, SaveLevel
<1>4. CASE CheckTimeOut
  <2>1. CASE EntryTimeout
    BY <1>4, <2>1 DEF CredInv, CheckTimeOut, EntryTimeout, EntryScreens
  <2>2. CASE ConfirmTimeout
    BY <1>4, <2>2, Texts DEF CredInv, CheckTimeOut, ConfirmTimeout
  <2>3. CASE NoTimeout
    BY <1>4, <2>3 DEF CredInv, CheckTimeOut, NoTimeout
  <2>4. CASE MenuTimeout
    <3>1. sent = 0 /\ ~setWifiPwd
      BY <1>4, <2>4 DEF OneInv, CredInv, CheckTimeOut, MenuTimeout, Checking, SendingScreens
    <3>2. wifiConfigInfo' \in Typed /\ wifiConfigInfo' \in Config
      BY <2>4, <3>1, ReadsTyped DEF CredInv, MenuTimeout, GetInfoFromMemory
    <3>3. wifiQueue' \in Seq(Typed) /\ sent' = 1
      BY <2>4, <3>1, <3>2, OfferInSeq DEF CredInv, MenuTimeout, GetInfoFromMemory
    <3> QED BY <1>4, <2>4, <3>1, <3>2, <3>3 DEF CredInv, CheckTimeOut, MenuTimeout
  <2> QED BY <1>4, <2>1, <2>2, <2>3, <2>4 DEF CheckTimeOut
<1>5. CASE CheckEventBits
  BY <1>5 DEF CredInv, OneInv, CheckEventBits, Checking
<1>6. CASE SaveSsid \/ SavePwd
  BY <1>6 DEF CredInv, OneInv, SaveSsid, SavePwd, Checking
<1>7. CASE Saved
  BY <1>7, Texts DEF CredInv, OneInv, Saved, Checking
<1>8. CASE DefaultLevel
  BY <1>8 DEF CredInv, OneInv, DefaultLevel, Checking
<1>9. CASE EnvTakeConfig
  <2>1. wifiQueue' \in Seq(Typed)
    BY <1>9, HeadTailProperties DEF CredInv, EnvTakeConfig
  <2> QED BY <1>9, <2>1 DEF CredInv, EnvTakeConfig
<1>10. CASE EnvSetBits \/ EnvControllerQueue \/ EnvSample \/ UNCHANGED vars
  BY <1>10 DEF CredInv, EnvSetBits, EnvControllerQueue, EnvSample, vars
<1> QED
  BY <1>1, <1>2, <1>3, <1>4, <1>5, <1>6, <1>7, <1>8, <1>9, <1>10 DEF Next, Task, Environment

(* Whatever is sent to CONNECT has a password typed on the password screen *)
(* or read from the EEPROM, and no initial value, though both entry        *)
(* screens share the text and the time-outs race the presses.              *)
THEOREM CredentialsAreTyped == Spec => []CredentialsTyped
<1>1. ASSUME NEW config \in Typed
      PROVE  /\ \A j \in 1 .. Len(config.pwd) : config.pwd[j] \notin {"WIFI_NEW_SSID", BLANK}
             /\ config.ssid # <<BLANK>>
  <2>1. config.pwd \in Seq({"WIFI_NEW_PWD", EEPROM}) /\ config.ssid # <<BLANK>>
    BY DEF Typed
  <2>2. \A j \in 1 .. Len(config.pwd) : config.pwd[j] \in {"WIFI_NEW_PWD", EEPROM}
    BY <2>1
  <2> QED BY <2>1, <2>2 DEF BLANK, EEPROM
<1>2. CredInv => CredentialsTyped
  <2> SUFFICES ASSUME CredInv, NEW i \in 1 .. Len(wifiQueue)
               PROVE  wifiQueue[i] \in Typed
    BY <1>1 DEF CredentialsTyped
  <2> QED BY DEF CredInv
<1> QED BY <1>2, CredInit, CredStep, OneInvHolds, PTL DEF Spec

-----------------------------------------------------------------------------
(* Types.                                                                  *)
LEMMA IdleMaxType == IdleMax \in Nat
<1> DEFINE limits == {SSID_WIFI_TIMEOUT, CONFIRM_TIMEOUT, START_UP_TIMEOUT}
<1>1. \E t \in limits : \A u \in limits : u <= t
  BY TimeoutsAssumption
<1>2. (CHOOSE t \in limits : \A u \in limits : u <= t) \in limits
  BY <1>1
<1> QED BY <1>2, TimeoutsAssumption DEF IdleMax

(* The limited queues: what fits is appended, what does not is dropped.    *)
LEMMA OfferType ==
  ASSUME NEW S, NEW queue \in Seq(S), Len(queue) <= QUEUE_LENGTH, NEW item \in S
  PROVE  Offer(queue, item) \in Seq(S) /\ Len(Offer(queue, item)) <= QUEUE_LENGTH
<1>1. Append(queue, item) \in Seq(S) /\ Len(Append(queue, item)) = Len(queue) + 1
  BY AppendProperties
<1> QED BY <1>1, SizesAssumption, LenProperties DEF Offer

LEMMA TailType ==
  ASSUME NEW S, NEW queue \in Seq(S), Len(queue) <= QUEUE_LENGTH, queue # <<>>
  PROVE  Tail(queue) \in Seq(S) /\ Len(Tail(queue)) <= QUEUE_LENGTH
<1>1. Tail(queue) \in Seq(S) /\ Len(Tail(queue)) = Len(queue) - 1
  BY HeadTailProperties
<1> QED BY <1>1, SizesAssumption, LenProperties

(* A rotation by any amount leaves the selections and the value in range.  *)
LEMMA RotationTypes ==
  ASSUME TypeOK, NEW delta \in Int
  PROVE  /\ MenuAfter(delta) \in 0 .. 1
         /\ SpMenuAfter(delta) \in 0 .. 1
         /\ EditAfter(delta) \in Levels
<1>1. Sign(delta) \in Int
  BY DEF Sign
<1>2. \A n \in Int : Clamp(n, 0, 1) \in 0 .. 1
  BY DEF Clamp
<1>3. \A n \in Int : Clamp(n, SETPOINT_MIN, SETPOINT_MAX) \in Levels
  BY DEF Clamp, Levels, SETPOINT_MIN, SETPOINT_MAX
<1>4. delta * SETPOINT_STEP \in Int
  BY SizesAssumption
<1>5. editValue \in Int /\ editValue + delta * SETPOINT_STEP \in Int
  BY <1>4 DEF TypeOK, Levels, SETPOINT_MIN, SETPOINT_MAX
<1> QED BY <1>1, <1>2, <1>3, <1>5 DEF TypeOK, MenuAfter, SpMenuAfter, EditAfter

(* What is read from the EEPROM has its type, whatever the field holds.    *)
LEMMA ReadTypes ==
  ASSUME TypeOK
  PROVE  /\ [ssid : FieldRead(savedConfig.ssid), pwd : FieldRead(savedConfig.pwd)] \subseteq Config
         /\ LevelRead \subseteq Levels
<1>1. ASSUME NEW field \in Seq(Chars) \cup {BAD}
      PROVE  FieldRead(field) \subseteq Seq(Chars)
  BY EmptySeq DEF FieldRead
<1>2. /\ FieldRead(savedConfig.ssid) \subseteq Seq(Chars)
      /\ FieldRead(savedConfig.pwd) \subseteq Seq(Chars)
  BY <1>1 DEF TypeOK
<1>3. LevelRead \subseteq Levels
  BY DEF TypeOK, LevelRead, Levels, SETPOINT_MIN, SETPOINT_MAX, DEFAULT_LEVEL, BAD_LEVEL
<1> QED BY <1>2, <1>3 DEF Config

LEMMA SendType ==
  ASSUME TypeOK, GetInfoFromMemory
  PROVE  /\ wifiConfigInfo' \in Config
         /\ wifiQueue' \in Seq(Config) /\ Len(wifiQueue') <= QUEUE_LENGTH
         /\ sent' \in 0 .. 2
<1>1. wifiConfigInfo' \in Config
  BY ReadTypes DEF GetInfoFromMemory
<1>2. wifiQueue' \in Seq(Config) /\ Len(wifiQueue') <= QUEUE_LENGTH
  BY <1>1, OfferType DEF TypeOK, GetInfoFromMemory
<1> QED BY <1>1, <1>2 DEF TypeOK, GetInfoFromMemory

LEMMA PostType ==
  ASSUME TypeOK, PostSavedLevel
  PROVE  controllerQueue' \in Seq(Levels) /\ Len(controllerQueue') <= QUEUE_LENGTH
<1>1. PICK level \in LevelRead : controllerQueue' = Offer(controllerQueue, level)
  BY DEF PostSavedLevel
<1>2. level \in Levels /\ controllerQueue \in Seq(Levels) /\ Len(controllerQueue) <= QUEUE_LENGTH
  BY <1>1, ReadTypes DEF TypeOK
<1> QED BY <1>1, <1>2, OfferType

LEMMA TypeInit == Init => TypeOK
<1> SUFFICES ASSUME Init PROVE TypeOK
  OBVIOUS
<1>1. /\ uiPc \in Points /\ currentScreen \in WifiScreens \cup SetpointScreens
      /\ wifiMenuSelection \in 0 .. 1 /\ spMenuSelection \in 0 .. 1
      /\ sent \in 0 .. 2 /\ idle \in 0 .. IdleMax
  BY IdleMaxType DEF Init, Points, WifiScreens
<1>2. editValue \in Levels /\ currentSetpoint \in Levels
  BY DEF Init, INITIAL_SETPOINT, Levels, SETPOINT_MIN, SETPOINT_MAX
<1>3. /\ setWifiPwd \in BOOLEAN /\ checkDefault \in BOOLEAN /\ unattended \in BOOLEAN
  BY DEF Init
<1>4. /\ wifiInfo \in Seq(EntryScreens) /\ Len(wifiInfo) <= WIFI_MAX_SIZE + 1
      /\ controllerQueue \in Seq(Levels) /\ Len(controllerQueue) <= QUEUE_LENGTH
      /\ displayQueue \in Seq({"sample"}) /\ Len(displayQueue) <= QUEUE_LENGTH
      /\ wifiQueue \in Seq(Config) /\ Len(wifiQueue) <= QUEUE_LENGTH
  BY EmptySeq, SizesAssumption DEF Init
<1>5. wifiConfigInfo \in Config
  BY Texts DEF Init, Config
<1>6. savedConfig \in [ssid : Seq(Chars) \cup {BAD}, pwd : Seq(Chars) \cup {BAD}]
  <2>1. <<EEPROM>> \in Seq(Chars)
    BY DEF Chars
  <2> QED BY <2>1 DEF Init
<1>7. savedLevel \in Levels \cup {BAD_LEVEL} /\ eventGroup = {}
  BY BootLevelsAssumption DEF Init
<1> QED BY <1>1, <1>2, <1>3, <1>4, <1>5, <1>6, <1>7 DEF TypeOK

LEMMA TypeInput == TypeOK /\ HandleInput => TypeOK'
<1> SUFFICES ASSUME TypeOK, HandleInput PROVE TypeOK'
  OBVIOUS
<1> USE DEF Goto, Points, WifiScreens, SetpointScreens, EntryScreens, wifiVars, eepromVars
<1>0. idle \in 0 .. IdleMax /\ 0 \in 0 .. IdleMax
  BY IdleMaxType DEF TypeOK
<1>1. UNCHANGED <<checkDefault, displayQueue, unattended>>
  BY DEF HandleInput
<1>2. ASSUME NEW delta \in Int
      PROVE  /\ MenuAfter(delta) \in 0 .. 1 /\ SpMenuAfter(delta) \in 0 .. 1
             /\ EditAfter(delta) \in Levels
  BY RotationTypes
<1>3. ASSUME NEW delta \in Int, NoPress(delta)
      PROVE  TypeOK'
  BY <1>0, <1>1, <1>2, <1>3 DEF TypeOK, NoPress, Rotate
<1> USE DEF Pressed, Rotate
<1>4. ASSUME NEW delta \in Int, PressMenu(delta)
      PROVE  TypeOK'
  BY <1>0, <1>1, <1>2, <1>4 DEF TypeOK, PressMenu, setpointVars
<1>5. ASSUME NEW delta \in Int, PressSaved(delta)
      PROVE  TypeOK'
  BY <1>0, <1>1, <1>2, <1>5, SendType DEF TypeOK, PressSaved, setpointVars
<1>6. ASSUME NEW delta \in Int, PressEntry(delta)
      PROVE  TypeOK'
  <2>1. wifiInfo' \in Seq(EntryScreens) /\ Len(wifiInfo') <= WIFI_MAX_SIZE + 1
    <3>1. wifiInfo \in Seq(EntryScreens) /\ Len(wifiInfo) \in Nat /\ currentScreen \in EntryScreens
      BY <1>6, LenProperties DEF TypeOK, PressEntry
    <3>2. /\ Append(wifiInfo, currentScreen) \in Seq(EntryScreens)
          /\ Len(Append(wifiInfo, currentScreen)) = Len(wifiInfo) + 1
      BY <3>1, AppendProperties
    <3>3. \/ Len(wifiInfo) <= WIFI_MAX_SIZE /\ wifiInfo' = Append(wifiInfo, currentScreen)
          \/ wifiInfo' = wifiInfo
      BY <1>6 DEF PressEntry
    <3>4. Len(wifiInfo) <= WIFI_MAX_SIZE + 1 /\ WIFI_MAX_SIZE \in Nat
      BY SizesAssumption DEF TypeOK
    <3>5. CASE Len(wifiInfo) <= WIFI_MAX_SIZE /\ wifiInfo' = Append(wifiInfo, currentScreen)
      BY <3>1, <3>2, <3>4, <3>5
    <3>6. CASE wifiInfo' = wifiInfo
      BY <3>1, <3>4, <3>6
    <3> QED BY <3>3, <3>5, <3>6
  <2>2. currentScreen' \in WifiScreens
    BY <1>6 DEF PressEntry
  <2> QED BY <1>0, <1>1, <1>2, <1>6, <2>1, <2>2 DEF TypeOK, PressEntry, setpointVars
<1>7. ASSUME NEW delta \in Int, ConfirmSsid(delta)
      PROVE  TypeOK'
  <2>1. wifiConfigInfo' \in Config
    BY <1>7, EntryTexts DEF TypeOK, ConfirmSsid, Config
  <2>2. wifiInfo' \in Seq(EntryScreens) /\ Len(wifiInfo') <= WIFI_MAX_SIZE + 1
    BY <1>7, EmptySeq, SizesAssumption DEF ConfirmSsid
  <2> QED BY <1>0, <1>1, <1>2, <1>7, <2>1, <2>2 DEF TypeOK, ConfirmSsid, setpointVars
<1>8. ASSUME NEW delta \in Int, ConfirmPwd(delta)
      PROVE  TypeOK'
  <2>1. wifiConfigInfo' \in Config
    BY <1>8, EntryTexts DEF TypeOK, ConfirmPwd, Config
  <2>2. wifiQueue' \in Seq(Config) /\ Len(wifiQueue') <= QUEUE_LENGTH
    <3>1. wifiQueue \in Seq(Config) /\ Len(wifiQueue) <= QUEUE_LENGTH
      BY DEF TypeOK
    <3>2. wifiQueue' = Offer(wifiQueue, wifiConfigInfo')
      BY <1>8 DEF ConfirmPwd
    <3> QED BY <2>1, <3>1, <3>2, OfferType
  <2>3. sent' \in 0 .. 2
    BY <1>8 DEF TypeOK, ConfirmPwd
  <2> QED BY <1>0, <1>1, <1>2, <1>8, <2>1, <2>2, <2>3 DEF TypeOK, ConfirmPwd, setpointVars
<1>9. ASSUME NEW delta \in Int, PressSetpointSelect(delta) \/ PressHome(delta)
      PROVE  TypeOK'
  BY <1>0, <1>1, <1>2, <1>9 DEF TypeOK, PressSetpointSelect, PressHome
<1>10. ASSUME NEW delta \in Int, PressSetpointSaved(delta)
       PROVE  TypeOK'
  BY <1>0, <1>1, <1>2, <1>10, PostType DEF TypeOK, PressSetpointSaved, setpointVars
<1>11. ASSUME NEW delta \in Int, PressError(delta) \/ PressIgnored(delta)
       PROVE  TypeOK'
  BY <1>0, <1>1, <1>2, <1>11 DEF TypeOK, PressError, PressIgnored, setpointVars
<1>12. ASSUME NEW delta \in Int, PressEdit(delta)
       PROVE  TypeOK'
  <2>1. controllerQueue' \in Seq(Levels) /\ Len(controllerQueue') <= QUEUE_LENGTH
    BY <1>2, <1>12, OfferType DEF TypeOK, PressEdit
  <2> QED BY <1>0, <1>1, <1>2, <1>12, <2>1 DEF TypeOK, PressEdit
<1>13. \E delta \in Int : NoPress(delta) \/ Press(delta)
  BY DeltasAssumption DEF HandleInput
<1> QED
  BY <1>3, <1>4, <1>5, <1>6, <1>7, <1>8, <1>9, <1>10, <1>11, <1>12, <1>13 DEF Press

LEMMA TypeStep == TypeOK /\ [Next]_vars => TypeOK'
<1> SUFFICES ASSUME TypeOK, [Next]_vars PROVE TypeOK'
  OBVIOUS
<1> USE DEF Goto, Points, WifiScreens, SetpointScreens, EntryScreens, menuVars, setpointVars,
            wifiVars, eepromVars, sharedVars
<1>0. idle \in 0 .. IdleMax /\ 0 \in 0 .. IdleMax
  BY IdleMaxType DEF TypeOK
<1>1. CASE HandleInput
  BY <1>1, TypeInput
<1>2. CASE Receive
  <2>1. displayQueue' \in Seq({"sample"}) /\ Len(displayQueue') <= QUEUE_LENGTH
    BY <1>2, TailType, EmptySeq, SizesAssumption DEF TypeOK, Receive
  <2> QED BY <1>2, <2>1 DEF TypeOK, Receive
<1>3. CASE SaveLevel
  BY <1>0, <1>3 DEF TypeOK, SaveLevel
<1>4. CASE CheckTimeOut
  <2>1. CASE EntryTimeout
    BY <1>0, <1>4, <2>1 DEF TypeOK, CheckTimeOut, EntryTimeout
  <2>2. CASE ConfirmTimeout
    BY <1>0, <1>4, <2>2, EmptySeq, SizesAssumption DEF TypeOK, CheckTimeOut, ConfirmTimeout
  <2>3. CASE MenuTimeout
    BY <1>4, <2>3, SendType DEF TypeOK, CheckTimeOut, MenuTimeout
  <2>4. CASE NoTimeout
    BY <1>4, <2>4 DEF TypeOK, CheckTimeOut, NoTimeout
  <2> QED BY <1>4, <2>1, <2>2, <2>3, <2>4 DEF CheckTimeOut
<1>5. CASE CheckEventBits
  BY <1>5 DEF TypeOK, CheckEventBits, AfterCheck
<1>6. CASE SaveSsid
  <2>1. savedConfig' \in [ssid : Seq(Chars) \cup {BAD}, pwd : Seq(Chars) \cup {BAD}]
    BY <1>6 DEF TypeOK, Config, SaveSsid
  <2> QED BY <1>6, <2>1 DEF TypeOK, SaveSsid
<1>7. CASE SavePwd
  <2>1. savedConfig' \in [ssid : Seq(Chars) \cup {BAD}, pwd : Seq(Chars) \cup {BAD}]
    BY <1>7 DEF TypeOK, Config, SavePwd
  <2> QED BY <1>7, <2>1 DEF TypeOK, SavePwd
<1>8. CASE Saved
  BY <1>0, <1>8, EmptySeq, SizesAssumption DEF TypeOK, Saved, AfterCheck
<1>9. CASE DefaultLevel
  BY <1>9, PostType DEF TypeOK, DefaultLevel
<1>10. CASE Draw
  BY <1>10 DEF TypeOK, Draw, AfterDraw
<1>11. CASE Sleep
  <2>1. idle' \in 0 .. IdleMax
    BY <1>0, <1>11, IdleMaxType DEF Sleep
  <2> QED BY <1>11, <2>1 DEF TypeOK, Sleep
<1>12. CASE UserLeaves \/ UNCHANGED vars
  BY ZenonT(40), <1>12 DEF TypeOK, UserLeaves, vars
<1>13. CASE EnvTakeConfig
  <2>1. wifiQueue' \in Seq(Config) /\ Len(wifiQueue') <= QUEUE_LENGTH
    BY <1>13, TailType DEF TypeOK, EnvTakeConfig
  <2> QED BY <1>13, <2>1 DEF TypeOK, EnvTakeConfig
<1>14. CASE EnvSetBits
  BY <1>14 DEF TypeOK, EnvSetBits
<1>15. CASE EnvControllerQueue
  <2>1. controllerQueue' \in Seq(Levels) /\ Len(controllerQueue') <= QUEUE_LENGTH
    <3>1. CASE controllerQueue # <<>> /\ controllerQueue' = Tail(controllerQueue)
      BY <3>1, TailType DEF TypeOK
    <3>2. ASSUME Len(controllerQueue) < QUEUE_LENGTH,
                 NEW level \in BootLevels, controllerQueue' = Append(controllerQueue, level)
          PROVE  controllerQueue' \in Seq(Levels) /\ Len(controllerQueue') <= QUEUE_LENGTH
      BY <3>2, AppendProperties, LenProperties, BootLevelsAssumption, SizesAssumption DEF TypeOK
    <3> QED BY <1>15, <3>1, <3>2 DEF EnvControllerQueue
  <2> QED BY <1>15, <2>1 DEF TypeOK, EnvControllerQueue
<1>16. CASE EnvSample
  <2>1. displayQueue' \in Seq({"sample"}) /\ Len(displayQueue') <= QUEUE_LENGTH
    BY <1>16, OfferType DEF TypeOK, EnvSample
  <2> QED BY <1>16, <2>1 DEF TypeOK, EnvSample
<1> QED
  BY <1>1, <1>2, <1>3, <1>4, <1>5, <1>6, <1>7, <1>8, <1>9, <1>10, <1>11, <1>12, <1>13, <1>14,
     <1>15, <1>16
  DEF Next, Task, Environment

(* Every variable keeps its type: no text outgrows its limit whatever is    *)
(* pressed, no setpoint leaves its range, no queue outgrows its length.    *)
THEOREM TypesHold == Spec => []TypeOK
  BY TypeInit, TypeStep, PTL DEF Spec

-----------------------------------------------------------------------------
(* The safety half of ImplementsFairView, for all constants: each          *)
(* step of the UI task, of its user and of its environment is a step of    *)
(* the dialogue UIView promises, or invisible to the other tasks.          *)

(* checkDefault tells the two callers of checkEventBits apart.             *)
DefaultInv ==
  /\ uiPc \notin Checking /\ currentScreen \in SendingScreens => checkDefault = FALSE
  /\ currentScreen = "WIFI_CONNECTING" => checkDefault = FALSE
  /\ uiPc \in Checking /\ currentScreen # "WIFI_CONNECTING" => checkDefault = TRUE
  /\ uiPc = "default_level" => checkDefault = TRUE

LEMMA DefaultInit == Init => DefaultInv
<1> SUFFICES ASSUME Init PROVE DefaultInv
  OBVIOUS
<1>1. uiPc = "receive" /\ currentScreen = "WIFI_MENU" /\ checkDefault = FALSE
  BY DEF Init
<1> QED BY <1>1 DEF DefaultInv, Checking

LEMMA DefaultStep == OneInv /\ DefaultInv /\ [Next]_vars => DefaultInv'
<1> SUFFICES ASSUME OneInv, DefaultInv, [Next]_vars PROVE DefaultInv'
  OBVIOUS
<1> USE DEF OneInv, DefaultInv, Points, WifiScreens, SetpointScreens, EntryScreens, SendingScreens,
            Checking, Goto, menuVars, sharedVars
<1>1. CASE HandleInput
  <2>1. uiPc = "input" /\ UNCHANGED checkDefault
    BY <1>1 DEF HandleInput
  <2>2. /\ uiPc' \in {"timeout", "save_level"}
        /\ currentScreen' \in SendingScreens \cup {"WIFI_CONNECTING"}
             => currentScreen \in SendingScreens \cup {"WIFI_CONNECTING"}
    BY <1>1
    DEF HandleInput, NoPress, Press, PressMenu, PressSaved, PressEntry, ConfirmSsid, ConfirmPwd,
        PressSetpointSelect, PressSetpointSaved, PressError, PressHome, PressEdit, PressIgnored,
        Pressed
  <2> QED BY <2>1, <2>2
<1>2. CASE Receive \/ SaveLevel \/ Draw \/ Sleep
  BY <1>2 DEF Receive, SaveLevel, Draw, AfterDraw, Sleep
<1>3. CASE CheckTimeOut
  <2>1. CASE EntryTimeout \/ ConfirmTimeout \/ NoTimeout
    BY <1>3, <2>1 DEF CheckTimeOut, EntryTimeout, ConfirmTimeout, NoTimeout
  <2>2. CASE MenuTimeout
    BY <1>3, <2>2 DEF CheckTimeOut, MenuTimeout
  <2> QED BY <1>3, <2>1, <2>2 DEF CheckTimeOut
<1>4. CASE CheckEventBits
  BY <1>4 DEF CheckEventBits, AfterCheck
<1>5. CASE SaveSsid \/ SavePwd \/ Saved \/ DefaultLevel
  BY <1>5 DEF SaveSsid, SavePwd, Saved, AfterCheck, DefaultLevel
<1>6. CASE UserLeaves \/ Environment \/ UNCHANGED vars
  BY <1>6
  DEF UserLeaves, Environment, EnvTakeConfig, EnvSetBits, EnvControllerQueue, EnvSample, vars
<1> QED BY <1>1, <1>2, <1>3, <1>4, <1>5, <1>6 DEF Next, Task

-----------------------------------------------------------------------------
(* The stage of the dialogue, read off the screen and the place in a turn. *)
Writing == {"save_ssid", "save_pwd", "saved", "default_level", "save_level"}
ScreenStage ==
  CASE currentScreen \in SendingScreens -> "wifi"
    [] currentScreen = "WIFI_CONNECTING" -> "connecting"
    [] currentScreen = "WIFI_ERROR" -> "error"
    [] currentScreen \in {"SETPOINT_SELECT", "SETPOINT_SAVED"} -> "setpoint"
    [] currentScreen = "EDIT_SETPOINT" -> "edit"
    [] currentScreen = "HOME" -> "home"

LEMMA StageIs ==
  /\ uiPc \in Writing => stageBar = uiPc
  /\ uiPc = "check_bits" /\ checkDefault => stageBar = "default_check"
  /\ uiPc \notin Writing /\ ~(uiPc = "check_bits" /\ checkDefault) => stageBar = ScreenStage
<1>1. ASSUME uiPc \in Writing
      PROVE  stageBar = uiPc
  BY <1>1 DEF stageBar, Writing
<1>2. ASSUME uiPc = "check_bits", checkDefault
      PROVE  stageBar = "default_check"
  BY <1>2 DEF stageBar
<1>3. ASSUME uiPc \notin Writing, ~(uiPc = "check_bits" /\ checkDefault)
      PROVE  stageBar = ScreenStage
  BY <1>3 DEF stageBar, Writing, ScreenStage, SendingScreens
<1> QED BY <1>1, <1>2, <1>3

(* The same of the next state.                                             *)
LEMMA StageIsNext ==
  /\ uiPc' \in Writing => stageBar' = uiPc'
  /\ uiPc' = "check_bits" /\ checkDefault' => stageBar' = "default_check"
  /\ uiPc' \notin Writing /\ ~(uiPc' = "check_bits" /\ checkDefault') => stageBar' = ScreenStage'
<1>1. (/\ uiPc \in Writing => stageBar = uiPc
       /\ uiPc = "check_bits" /\ checkDefault => stageBar = "default_check"
       /\ uiPc \notin Writing /\ ~(uiPc = "check_bits" /\ checkDefault) => stageBar = ScreenStage)'
  BY StageIs, PTL
<1> QED BY <1>1 DEF Writing

(* Away from the writes a screen belongs to one stage.                     *)
StageOfScreen ==
  /\ ScreenStage = "wifi" <=> currentScreen \in SendingScreens
  /\ ScreenStage = "connecting" <=> currentScreen = "WIFI_CONNECTING"
  /\ ScreenStage = "error" <=> currentScreen = "WIFI_ERROR"
  /\ ScreenStage = "setpoint" <=> currentScreen \in {"SETPOINT_SELECT", "SETPOINT_SAVED"}
  /\ ScreenStage = "edit" <=> currentScreen = "EDIT_SETPOINT"
  /\ ScreenStage = "home" <=> currentScreen = "HOME"
  /\ ScreenStage \notin Writing \cup {"default_check"}

LEMMA ScreenStages == currentScreen \in WifiScreens \cup SetpointScreens => StageOfScreen
  BY DEF StageOfScreen, ScreenStage, SendingScreens, EntryScreens, WifiScreens, SetpointScreens,
         Writing

LEMMA ScreenStagesNext == currentScreen' \in WifiScreens \cup SetpointScreens => StageOfScreen'
<1>1. (currentScreen \in WifiScreens \cup SetpointScreens => StageOfScreen)'
  BY ScreenStages, PTL
<1> QED BY <1>1 DEF WifiScreens, SetpointScreens

ViewVars == UNCHANGED <<stageBar, checkDefault, currentSetpoint, savedLevel, savedConfig,
                        eventGroup, controllerQueue, wifiQueue>>

(* What the view calls the configuration that was sent.                    *)
configBar == IF stageBar = "wifi" THEN <<>> ELSE wifiConfigInfo

LEMMA ViewStutter ==
  ASSUME ViewVars, stageBar = "wifi" \/ UNCHANGED wifiConfigInfo
  PROVE  UNCHANGED View!vars
  BY DEF ViewVars, View!vars, View!uiVars, View!sharedVars

LEMMA ViewInit == Init => View!Init
<1> SUFFICES ASSUME Init PROVE View!Init
  OBVIOUS
<1>1. uiPc = "receive" /\ currentScreen = "WIFI_MENU"
  BY DEF Init
<1>2. stageBar = "wifi"
  BY <1>1, StageIs, StageIsNext, ScreenStages, ScreenStagesNext
  DEF Writing, WifiScreens, SendingScreens, StageOfScreen
<1> QED
  BY <1>2
  DEF Init, View!Init, INITIAL_SETPOINT, View!INITIAL_SETPOINT, BAD_LEVEL, View!BAD_LEVEL

(* The names of the view for the same values.                              *)
LEMMA SameValues ==
  /\ View!LevelRead = LevelRead
  /\ \A queue, item : View!Offer(queue, item) = Offer(queue, item)
  /\ View!EVENT_BIT_0 = EVENT_BIT_0 /\ View!EVENT_BIT_1 = EVENT_BIT_1
  /\ View!EVENT_BIT_2 = EVENT_BIT_2 /\ View!BAD_LEVEL = BAD_LEVEL
  /\ View!Configs = Config
  BY DEF View!LevelRead, LevelRead, View!Offer, Offer, View!EVENT_BIT_0, EVENT_BIT_0,
         View!EVENT_BIT_1, EVENT_BIT_1, View!EVENT_BIT_2, EVENT_BIT_2, View!BAD_LEVEL, BAD_LEVEL,
         View!DEFAULT_LEVEL, DEFAULT_LEVEL, View!Configs, Config

-----------------------------------------------------------------------------
(* The presses.                                                            *)
LEMMA ViewOfInput ==
  ASSUME TypeOK, OneInv, HandleInput
  PROVE  View!UI \/ UNCHANGED View!vars
<1>1. uiPc = "input" /\ UNCHANGED checkDefault
  BY DEF HandleInput
<1>2. stageBar = ScreenStage
  BY <1>1, StageIs, StageIsNext DEF Writing
<1>3. currentScreen \in WifiScreens \cup SetpointScreens
  BY DEF TypeOK
<1>4. currentScreen' \in WifiScreens \cup SetpointScreens
  BY TypeInput DEF TypeOK
<1>5. uiPc' = "timeout" => stageBar' = ScreenStage'
  BY StageIs, StageIsNext DEF Writing
<1> USE DEF Pressed, Goto, eepromVars, setpointVars, wifiVars
<1>6. ASSUME NEW delta, NoPress(delta) \/ PressIgnored(delta)
      PROVE  UNCHANGED View!vars
  <2>1. /\ UNCHANGED <<currentScreen, currentSetpoint, savedLevel, savedConfig, eventGroup,
                       controllerQueue, wifiQueue, wifiConfigInfo>>
        /\ uiPc' = "timeout"
    BY <1>6 DEF NoPress, PressIgnored
  <2>2. ScreenStage' = ScreenStage
    BY <2>1 DEF ScreenStage
  <2> QED BY <1>1, <1>2, <1>5, <2>1, <2>2, ViewStutter DEF ViewVars
<1>7. ASSUME NEW delta, PressMenu(delta) \/ PressEntry(delta) \/ ConfirmSsid(delta)
      PROVE  UNCHANGED View!vars
  <2>1. /\ UNCHANGED <<currentSetpoint, savedLevel, savedConfig, eventGroup, controllerQueue,
                       wifiQueue>>
        /\ uiPc' = "timeout"
        /\ currentScreen \in SendingScreens /\ currentScreen' \in SendingScreens
    BY <1>7 DEF PressMenu, PressEntry, ConfirmSsid, SendingScreens, EntryScreens
  <2>2. stageBar = "wifi" /\ stageBar' = "wifi"
    BY <1>2, <1>3, <1>4, <1>5, <2>1, ScreenStages, ScreenStagesNext DEF StageOfScreen
  <2> QED BY <1>1, <2>1, <2>2, ViewStutter DEF ViewVars
<1>8. ASSUME NEW delta, PressSaved(delta) \/ ConfirmPwd(delta)
      PROVE  View!SendConfig
  <2>1. /\ UNCHANGED <<currentSetpoint, savedLevel, savedConfig, eventGroup, controllerQueue>>
        /\ wifiQueue' = Offer(wifiQueue, wifiConfigInfo')
        /\ uiPc' = "timeout"
        /\ currentScreen \in SendingScreens /\ currentScreen' = "WIFI_CONNECTING"
    BY <1>8 DEF PressSaved, GetInfoFromMemory, ConfirmPwd, SendingScreens
  <2>2. stageBar = "wifi" /\ stageBar' = "connecting"
    BY <1>2, <1>3, <1>4, <1>5, <2>1, ScreenStages, ScreenStagesNext DEF StageOfScreen
  <2>3. wifiConfigInfo' \in Config
    BY TypeInput DEF TypeOK
  <2> QED BY <1>1, <2>1, <2>2, <2>3, SameValues DEF View!SendConfig
<1>9. ASSUME NEW delta, PressSetpointSelect(delta) \/ PressHome(delta)
      PROVE  View!StartEdit \/ UNCHANGED View!vars
  <2>1. /\ UNCHANGED <<currentSetpoint, savedLevel, savedConfig, eventGroup, controllerQueue,
                       wifiQueue, wifiConfigInfo>>
        /\ uiPc' = "timeout"
        /\ \/ currentScreen = "SETPOINT_SELECT" /\ currentScreen' = "SETPOINT_SAVED"
           \/ currentScreen \in {"SETPOINT_SELECT", "HOME"} /\ currentScreen' = "EDIT_SETPOINT"
    BY <1>9 DEF PressSetpointSelect, PressHome
  <2>2. \/ stageBar = "setpoint" /\ stageBar' = "setpoint"
        \/ stageBar \in {"setpoint", "home"} /\ stageBar' = "edit"
    BY <1>2, <1>3, <1>4, <1>5, <2>1, ScreenStages, ScreenStagesNext DEF StageOfScreen
  <2> QED BY <1>1, <2>1, <2>2, ViewStutter DEF ViewVars, View!StartEdit, View!sharedVars
<1>10. ASSUME NEW delta, PressSetpointSaved(delta)
       PROVE  View!UseSaved
  <2>1. /\ UNCHANGED <<currentSetpoint, savedLevel, savedConfig>>
        /\ UNCHANGED <<eventGroup, wifiQueue, wifiConfigInfo>>
        /\ PostSavedLevel
        /\ uiPc' = "timeout" /\ currentScreen = "SETPOINT_SAVED" /\ currentScreen' = "HOME"
    BY <1>10 DEF PressSetpointSaved
  <2>2. stageBar = "setpoint" /\ stageBar' = "home"
    BY <1>2, <1>3, <1>4, <1>5, <2>1, ScreenStages, ScreenStagesNext DEF StageOfScreen
  <2> QED BY <1>1, <2>1, <2>2, SameValues DEF PostSavedLevel, View!UseSaved, View!PostSavedLevel
<1>11. ASSUME NEW delta, PressError(delta)
       PROVE  View!PressError
  <2>1. /\ UNCHANGED <<currentSetpoint, savedLevel, savedConfig>>
        /\ UNCHANGED <<controllerQueue, wifiQueue, wifiConfigInfo>>
        /\ eventGroup' = eventGroup \cup {EVENT_BIT_2}
        /\ uiPc' = "timeout" /\ currentScreen = "WIFI_ERROR" /\ currentScreen' = "SETPOINT_SELECT"
    BY <1>11 DEF PressError
  <2>2. stageBar = "error" /\ stageBar' = "setpoint"
    BY <1>2, <1>3, <1>4, <1>5, <2>1, ScreenStages, ScreenStagesNext DEF StageOfScreen
  <2> QED BY <1>1, <2>1, <2>2, SameValues DEF View!PressError
<1>12. ASSUME NEW delta, PressEdit(delta)
       PROVE  View!Confirm
  <2>1. /\ UNCHANGED <<savedLevel, savedConfig, eventGroup, wifiQueue, wifiConfigInfo>>
        /\ controllerQueue' = Offer(controllerQueue, currentSetpoint')
        /\ uiPc' = "save_level" /\ currentScreen = "EDIT_SETPOINT"
    BY <1>12 DEF PressEdit
  <2>2. stageBar = "edit" /\ stageBar' = "save_level"
    BY <1>2, <1>3, <2>1, ScreenStages, ScreenStagesNext, StageIs, StageIsNext
    DEF Writing, StageOfScreen
  <2>3. currentSetpoint' \in Levels
    BY TypeInput DEF TypeOK
  <2> QED BY <1>1, <2>1, <2>2, <2>3, SameValues DEF View!Confirm
<1> QED
  BY <1>6, <1>7, <1>8, <1>9, <1>10, <1>11, <1>12
  DEF HandleInput, Press, View!UI, View!User

(* The rest of a turn.                                                     *)
LEMMA ViewOfTurn ==
  ASSUME TypeOK, OneInv, DefaultInv,
         Receive \/ SaveLevel \/ CheckTimeOut \/ Draw \/ Sleep
  PROVE  View!UI \/ UNCHANGED View!vars
<1> USE DEF Goto, menuVars, eepromVars, setpointVars, wifiVars, sharedVars
<1>1. currentScreen \in WifiScreens \cup SetpointScreens
  BY DEF TypeOK
<1>2. currentScreen' \in WifiScreens \cup SetpointScreens
  <2>1. TypeOK'
    BY TypeStep DEF Next, Task
  <2> QED BY <2>1 DEF TypeOK
<1>3. CASE Receive \/ Draw \/ Sleep
  <2>1. UNCHANGED <<currentScreen, checkDefault, currentSetpoint, savedLevel, savedConfig,
                    eventGroup, controllerQueue, wifiQueue, wifiConfigInfo>>
    BY <1>3 DEF Receive, Draw, Sleep
  <2>2. /\ uiPc \in {"receive", "draw", "sleep"}
        /\ \/ uiPc' \in {"input", "sleep", "receive"}
           \/ uiPc' = "check_bits" /\ currentScreen = "WIFI_CONNECTING"
    BY <1>3 DEF Receive, Draw, AfterDraw, Sleep
  <2>3. stageBar = ScreenStage /\ stageBar' = ScreenStage'
    BY <2>1, <2>2, StageIs, StageIsNext DEF Writing, DefaultInv
  <2>4. ScreenStage' = ScreenStage
    BY <2>1 DEF ScreenStage
  <2> QED BY <2>1, <2>3, <2>4, ViewStutter DEF ViewVars
<1>4. CASE SaveLevel
  <2>1. /\ UNCHANGED <<checkDefault, currentSetpoint, savedConfig, eventGroup, controllerQueue,
                       wifiQueue, wifiConfigInfo>>
        /\ savedLevel' \in {currentSetpoint, savedLevel, BAD_LEVEL}
        /\ uiPc = "save_level" /\ uiPc' = "timeout" /\ currentScreen' = "HOME"
    BY <1>4 DEF SaveLevel
  <2>2. stageBar = "save_level" /\ stageBar' = "home"
    BY <1>2, <2>1, StageIs, StageIsNext, ScreenStages, ScreenStagesNext DEF Writing, StageOfScreen
  <2>3. View!SaveLevel
    BY <2>1, <2>2, SameValues DEF View!SaveLevel, View!sharedVars
  <2> QED BY <2>3 DEF View!UI, View!Automatic
<1>5. CASE CheckTimeOut
  <2>1. /\ UNCHANGED <<currentSetpoint, savedLevel, savedConfig, eventGroup, controllerQueue>>
        /\ uiPc = "timeout"
    BY <1>5 DEF CheckTimeOut
  <2>2. stageBar = ScreenStage
    BY <2>1, StageIs, StageIsNext DEF Writing
  <2>3. CASE NoTimeout
    <3>1. UNCHANGED <<currentScreen, wifiConfigInfo, checkDefault, wifiQueue>> /\ uiPc' = "draw"
      BY <2>3 DEF NoTimeout
    <3>2. stageBar' = ScreenStage' /\ ScreenStage' = ScreenStage
      BY <3>1, StageIs, StageIsNext DEF Writing, ScreenStage
    <3> QED BY <2>1, <2>2, <3>1, <3>2, ViewStutter DEF ViewVars
  <2>4. CASE EntryTimeout \/ ConfirmTimeout
    <3>1. /\ UNCHANGED <<wifiConfigInfo, checkDefault, wifiQueue>> /\ uiPc' = "draw"
          /\ currentScreen \in SendingScreens /\ currentScreen' \in SendingScreens
      BY <2>4 DEF EntryTimeout, ConfirmTimeout, SendingScreens, EntryScreens
    <3>2. stageBar = "wifi" /\ stageBar' = "wifi"
      BY <1>1, <1>2, <2>2, <3>1, StageIs, StageIsNext, ScreenStages, ScreenStagesNext
      DEF Writing, StageOfScreen
    <3> QED BY <2>1, <3>1, <3>2, ViewStutter DEF ViewVars
  <2>5. CASE MenuTimeout
    <3>1. /\ wifiQueue' = Offer(wifiQueue, wifiConfigInfo') /\ checkDefault' = TRUE
          /\ uiPc' = "check_bits" /\ currentScreen \in SendingScreens
      BY <2>5 DEF MenuTimeout, GetInfoFromMemory, SendingScreens
    <3>2. stageBar = "wifi" /\ stageBar' = "default_check"
      BY <1>1, <2>2, <3>1, StageIs, StageIsNext, ScreenStages, ScreenStagesNext
      DEF Writing, StageOfScreen
    <3>3. wifiConfigInfo' \in Config
      BY <2>5, SendType DEF MenuTimeout
    <3>4. View!SendDefault
      BY <2>1, <3>1, <3>2, <3>3, SameValues DEF View!SendDefault
    <3> QED BY <3>4 DEF View!UI, View!User
  <2> QED BY <1>5, <2>3, <2>4, <2>5 DEF CheckTimeOut
<1> QED BY <1>3, <1>4, <1>5

(* The verdict and the writes that follow it.                              *)
LEMMA ViewOfCheck ==
  ASSUME TypeOK, OneInv, DefaultInv, CheckEventBits \/ SaveSsid \/ SavePwd \/ Saved \/ DefaultLevel
  PROVE  View!UI \/ UNCHANGED View!vars
<1> USE DEF Goto, menuVars, eepromVars, setpointVars, wifiVars, sharedVars
<1>1. currentScreen \in WifiScreens \cup SetpointScreens
  BY DEF TypeOK
<1>2. currentScreen' \in WifiScreens \cup SetpointScreens
  <2>1. TypeOK'
    BY TypeStep DEF Next, Task
  <2> QED BY <2>1 DEF TypeOK
<1>3. CASE CheckEventBits
  <2>1. /\ UNCHANGED <<checkDefault, currentSetpoint, savedLevel, savedConfig, eventGroup,
                       controllerQueue, wifiQueue, wifiConfigInfo>>
        /\ uiPc = "check_bits"
    BY <1>3 DEF CheckEventBits
  <2>2. View!Up <=> EVENT_BIT_0 \in eventGroup /\ ~Failed
    BY SameValues DEF View!Up, Failed
  <2>3. View!Down <=> Failed
    BY SameValues DEF View!Down, Failed
  <2>4. CASE ~Failed /\ EVENT_BIT_0 \in eventGroup
    <3>1. stageBar \in {"connecting", "default_check"} /\ stageBar # "wifi"
      BY <1>1, <2>1, StageIs, StageIsNext, ScreenStages, ScreenStagesNext
      DEF Writing, OneInv, Checking, StageOfScreen
    <3>2. stageBar' = "save_ssid"
      BY <1>3, <2>4, StageIs, StageIsNext DEF CheckEventBits, Writing
    <3> QED
      BY <2>1, <2>2, <2>4, <3>1, <3>2
      DEF View!CheckBits, View!UI, View!Automatic, View!sharedVars
  <2>5. CASE checkDefault /\ ~(~Failed /\ EVENT_BIT_0 \in eventGroup)
    <3>1. stageBar = "default_check"
      BY <2>1, <2>5, StageIs, StageIsNext DEF Writing
    <3>2. stageBar' = "default_level"
      BY <1>3, <2>5, StageIs, StageIsNext DEF CheckEventBits, AfterCheck, Writing
    <3> QED
      BY <2>1, <2>2, <2>5, <3>1, <3>2
      DEF View!CheckBits, View!UI, View!Automatic, View!sharedVars
  <2>6. CASE ~checkDefault /\ ~(~Failed /\ EVENT_BIT_0 \in eventGroup)
    <3>1. currentScreen = "WIFI_CONNECTING" /\ uiPc' = "sleep"
      BY <1>3, <2>1, <2>6 DEF CheckEventBits, AfterCheck, OneInv, Checking
    <3>2. stageBar = "connecting"
      BY <1>1, <2>1, <2>6, <3>1, StageIs, StageIsNext, ScreenStages, ScreenStagesNext
      DEF Writing, StageOfScreen
    <3>3. stageBar' = ScreenStage'
      BY <3>1, StageIs, StageIsNext DEF Writing
    <3>4. CASE Failed
      <4>1. stageBar' = "error"
        BY <1>2, <1>3, <3>3, <3>4, ScreenStages, ScreenStagesNext DEF CheckEventBits, StageOfScreen
      <4> QED
        BY <2>1, <2>3, <3>2, <3>4, <4>1 DEF View!CheckBits, View!UI, View!Automatic, View!sharedVars
    <3>5. CASE ~Failed
      <4>1. currentScreen' = "WIFI_CONNECTING"
        BY <1>3, <2>6, <3>1, <3>5 DEF CheckEventBits
      <4>2. stageBar' = "connecting"
        BY <1>2, <3>3, <4>1, ScreenStages, ScreenStagesNext DEF StageOfScreen
      <4> QED BY <2>1, <3>2, <4>2, ViewStutter DEF ViewVars
    <3> QED BY <3>4, <3>5
  <2> QED BY <2>4, <2>5, <2>6
<1>4. CASE SaveSsid \/ SavePwd
  <2>1. /\ UNCHANGED <<checkDefault, currentSetpoint, savedLevel, eventGroup, controllerQueue,
                       wifiQueue, wifiConfigInfo>>
        /\ uiPc \in Writing /\ uiPc' \in Writing
    BY <1>4 DEF SaveSsid, SavePwd, Writing
  <2>2. stageBar = uiPc /\ stageBar' = uiPc' /\ stageBar # "wifi" /\ stageBar' # "wifi"
    BY <2>1, StageIs, StageIsNext DEF Writing
  <2>3. View!SaveSsid \/ View!SavePwd
    BY <1>4, <2>1, <2>2 DEF SaveSsid, SavePwd, View!SaveSsid, View!SavePwd, View!sharedVars
  <2> QED BY <2>3 DEF View!UI, View!Automatic
<1>5. CASE Saved
  <2>1. /\ UNCHANGED <<checkDefault, currentSetpoint, savedLevel, savedConfig, eventGroup,
                       controllerQueue, wifiQueue, wifiConfigInfo>>
        /\ uiPc = "saved"
    BY <1>5 DEF Saved
  <2>2. stageBar = "saved"
    BY <2>1, StageIs, StageIsNext DEF Writing
  <2>3. checkDefault => stageBar' = "default_level"
    BY <1>5, StageIs, StageIsNext DEF Saved, AfterCheck, Writing
  <2>4. ~checkDefault => stageBar' = "setpoint"
    <3>1. ~checkDefault => uiPc' = "sleep" /\ currentScreen' = "SETPOINT_SELECT"
      BY <1>5 DEF Saved, AfterCheck
    <3> QED
      BY <1>2, <3>1, StageIs, StageIsNext, ScreenStages, ScreenStagesNext
      DEF Writing, StageOfScreen
  <2>5. View!Saved
    BY <2>1, <2>2, <2>3, <2>4 DEF View!Saved, View!sharedVars
  <2> QED BY <2>5 DEF View!UI, View!Automatic
<1>6. CASE DefaultLevel
  <2>1. /\ UNCHANGED <<checkDefault, currentSetpoint, savedLevel, savedConfig, eventGroup,
                       wifiQueue, wifiConfigInfo>>
        /\ PostSavedLevel
        /\ uiPc = "default_level" /\ uiPc' = "draw" /\ currentScreen' = "HOME"
    BY <1>6 DEF DefaultLevel
  <2>2. stageBar = "default_level" /\ stageBar' = "home"
    BY <1>2, <2>1, StageIs, StageIsNext, ScreenStages, ScreenStagesNext DEF Writing, StageOfScreen
  <2>3. View!DefaultLevel
    BY <2>1, <2>2, SameValues DEF PostSavedLevel, View!DefaultLevel, View!PostSavedLevel
  <2> QED BY <2>3 DEF View!UI, View!Automatic
<1> QED BY <1>3, <1>4, <1>5, <1>6

(* The user who leaves, and the other tasks.                               *)
LEMMA ViewOfOthers ==
  ASSUME TypeOK, OneInv, UserLeaves \/ Environment \/ UNCHANGED vars
  PROVE  View!Next \/ UNCHANGED View!vars
<1> USE DEF menuVars, eepromVars, setpointVars, wifiVars
<1>1. UNCHANGED <<uiPc, currentScreen, checkDefault, currentSetpoint, savedLevel, savedConfig,
                  wifiConfigInfo>>
  BY DEF UserLeaves, Environment, EnvTakeConfig, EnvSetBits, EnvControllerQueue, EnvSample, vars
<1>2. stageBar' = stageBar
  BY <1>1 DEF stageBar
<1>3. CASE UserLeaves \/ EnvSample \/ UNCHANGED vars
  <2>1. UNCHANGED <<eventGroup, controllerQueue, wifiQueue>>
    BY <1>3 DEF UserLeaves, EnvSample, vars, sharedVars
  <2> QED BY <1>1, <1>2, <2>1, ViewStutter DEF ViewVars
<1>4. CASE EnvTakeConfig
  BY <1>1, <1>2, <1>4 DEF EnvTakeConfig, View!EnvTakeConfig, View!uiVars, View!Next
<1>5. CASE EnvSetBits
  <2>1. stageBar # "wifi"
    <3>1. sent # 0
      BY <1>5 DEF EnvSetBits, OneInv
    <3>2. currentScreen \in WifiScreens \cup SetpointScreens
      BY DEF TypeOK
    <3> QED
      BY <3>1, <3>2, StageIs, StageIsNext, ScreenStages, ScreenStagesNext
      DEF OneInv, Writing, Checking, SendingScreens, StageOfScreen
  <2> QED
    BY <1>1, <1>2, <1>5, <2>1, SameValues DEF EnvSetBits, View!EnvSetBits, View!uiVars, View!Next
<1>6. CASE EnvControllerQueue
  BY <1>1, <1>2, <1>6 DEF EnvControllerQueue, View!EnvControllerQueue, View!uiVars, View!Next
<1> QED BY <1>3, <1>4, <1>5, <1>6 DEF Environment

(* What UI does, with its eleven screens, time-outs and texts, is the      *)
(* dialogue UIView tells the other tasks: one configuration, saved only    *)
(* once the network is up, and "without connection" only after a failure.  *)
THEOREM UIImplementsView == Spec => View!Spec
<1>1. TypeOK /\ OneInv /\ DefaultInv /\ [Next]_vars => [View!Next]_(View!vars)
  BY ViewOfInput, ViewOfTurn, ViewOfCheck, ViewOfOthers DEF Next, Task, View!Next
<1>2. Spec => []DefaultInv
  BY DefaultInit, DefaultStep, OneInvHolds, PTL DEF Spec
<1> QED BY <1>1, <1>2, ViewInit, TypesHold, OneInvHolds, PTL DEF Spec, View!Spec
=============================================================================
