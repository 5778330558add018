------------------------------- MODULE Storage -------------------------------
(***************************************************************************)
(* The configuration in the EEPROM: storage/ConfigStorage.cpp over         *)
(* storage/Eeprom.cpp.  Every field is a record in an entry of its own:    *)
(* its bytes and a checksum, for the two texts with a terminator between.  *)
(* A write is one transaction on the bus and the EEPROM programs what has  *)
(* arrived: a refused, cut off or unpowered write leaves only a first part *)
(* of the record, and what writeBytes returns does not tell (PicoI2C).     *)
(*                                                                         *)
(* The checksum is taken to tell any two bodies apart; its second byte is  *)
(* zero for some bodies.                                                   *)
(***************************************************************************)
EXTENDS Integers, Sequences, SequencesExt

CONSTANTS
  Chars,        \* characters of a text, without the terminator
  ENTRY_SIZE,   \* bytes of an entry (64)
  MAX_TEXT,     \* longest text the UI lets one enter (61)
  Levels,       \* setpoints, as two bytes
  ZeroCrc,      \* bodies whose checksum ends with a zero byte
  SAVES,        \* bound on saves
  FAULTS        \* bound on incomplete writes

(* A record of the longest text fits into its entry.  A byte is a sequence  *)
(* of one element, so that it differs from the bytes of a checksum.         *)
Parameters ==
  /\ ENTRY_SIZE \in Nat /\ MAX_TEXT \in Nat /\ ENTRY_SIZE >= 4 /\ MAX_TEXT + 3 <= ENTRY_SIZE
  /\ \A c \in Chars : Len(c) = 1 /\ c # <<"zero">>
  /\ \A level \in Levels :
       level = <<level[1], level[2]>> /\ Len(level[1]) = 1 /\ Len(level[2]) = 1
  /\ SAVES \in Nat /\ FAULTS \in Nat

ZERO == <<"zero">>
BLANK == <<"blank">>
BAD == <<<<"bad">>>>   \* 0xFFFF, or an empty text

VARIABLES
  memory,       \* the EEPROM
  step,         \* where setWifiConfig is: "idle", "ssid" or "password"
  info,         \* its parameter
  saved,        \* history: the values each field was asked to hold
  pairs,        \* history: the configurations setWifiConfig was asked for
  saves, faults \* saves and incomplete writes so far

vars == <<memory, step, info, saved, pairs, saves, faults>>

Texts == UNION {[1 .. n -> Chars] : n \in 0 .. MAX_TEXT}
Fields == {"co2", "ssid", "password"}

\* CO2_ADDR, SSID_ADDR and PASSWORD_ADDR.  Slip: they overlap.
AddressTight(field) == IF field = "co2" THEN 0 ELSE IF field = "ssid" THEN 4 ELSE 4 + ENTRY_SIZE - 1
Address(field) == IF field = "co2" THEN 0 ELSE IF field = "ssid" THEN ENTRY_SIZE ELSE 2 * ENTRY_SIZE
Cells == 0 .. 3 * ENTRY_SIZE - 1

Crc(body) == <<<<"high", body>>, IF body \in ZeroCrc THEN ZERO ELSE <<"low", body>>>>
TextRecord(text) == text \o <<ZERO>> \o Crc(text \o <<ZERO>>)
LevelRecord(level) == level \o Crc(level)

Init ==
  /\ memory = [a \in Cells |-> BLANK]
  /\ step = "idle" /\ info = <<<<>>, <<>>>>
  /\ saved = [f \in Fields |-> {}] /\ pairs = {}
  /\ saves = 0 /\ faults = 0

-----------------------------------------------------------------------------
(* Eeprom::writeBytes: what is programmed of a record, and the result.     *)

Fits(record) == Len(record) <= ENTRY_SIZE

Program(field, record, n) ==
  [a \in Cells |-> IF a \in Address(field) .. Address(field) + n - 1
                   THEN record[a - Address(field) + 1] ELSE memory[a]]

WriteBytes(field, record, result) ==
  \/ /\ ~Fits(record)
     /\ result = FALSE
     /\ UNCHANGED <<memory, faults>>
  \/ /\ Fits(record)
     /\ memory' = Program(field, record, Len(record))
     /\ result = TRUE
     /\ UNCHANGED faults
  \/ /\ Fits(record)
     /\ faults < FAULTS /\ faults' = faults + 1
     /\ \E n \in 0 .. Len(record) : memory' = Program(field, record, n)

-----------------------------------------------------------------------------
(* Eeprom::readBytes and the decoding of ConfigStorage.                    *)

\* The buffer after a read of which n bytes arrived; its result is ignored.
ReadBytes(field, size, n) ==
  [i \in 1 .. size |-> IF i <= n THEN memory[Address(field) + i - 1] ELSE ZERO]

\* getCo2Level.
GetCo2Level(n) ==
  LET buffer == ReadBytes("co2", 4, n)
      body == SubSeq(buffer, 1, 2)
  IN  IF SubSeq(buffer, 3, 4) = Crc(body) THEN body ELSE BAD

Terminator(buffer) == SelectInSeq(buffer, LAMBDA cell : cell = ZERO)

Valid(buffer, at) == SubSeq(buffer, at + 1, at + 2) = Crc(SubSeq(buffer, 1, at))

\* getWifiConfig, for one of its texts.
GetText(field, n) ==
  LET buffer == ReadBytes(field, ENTRY_SIZE, n)
      at == Terminator(buffer)
  IN  IF at > 0 /\ at + 2 <= ENTRY_SIZE /\ Valid(buffer, at) THEN SubSeq(buffer, 1, at - 1) ELSE BAD

Reads(field) ==
  IF field = "co2" THEN {GetCo2Level(n) : n \in 0 .. 4} ELSE {GetText(field, n) : n \in 0 .. ENTRY_SIZE}

-----------------------------------------------------------------------------
SetCo2Level(level) ==
  /\ step = "idle"
  /\ saves < SAVES /\ saves' = saves + 1
  /\ \E result \in BOOLEAN : WriteBytes("co2", LevelRecord(level), result)
  /\ saved' = [saved EXCEPT !["co2"] = @ \cup {level}]
  /\ UNCHANGED <<step, info, pairs>>

SetWifiConfig(ssid, password) ==
  /\ step = "idle"
  /\ saves < SAVES /\ saves' = saves + 1
  /\ step' = "ssid" /\ info' = <<ssid, password>>
  /\ pairs' = pairs \cup {info'}
  /\ UNCHANGED <<memory, saved, faults>>

\* The password is written if the name was, as far as writeBytes knows.
AfterSsid(result) == IF result THEN "password" ELSE "idle"

WriteSsid ==
  /\ step = "ssid"
  /\ \E result \in BOOLEAN :
       /\ WriteBytes("ssid", TextRecord(info[1]), result)
       /\ step' = AfterSsid(result)
  /\ saved' = [saved EXCEPT !["ssid"] = @ \cup {info[1]}]
  /\ UNCHANGED <<info, pairs, saves>>

WritePassword ==
  /\ step = "password"
  /\ \E result \in BOOLEAN : WriteBytes("password", TextRecord(info[2]), result)
  /\ step' = "idle"
  /\ saved' = [saved EXCEPT !["password"] = @ \cup {info[2]}]
  /\ UNCHANGED <<info, pairs, saves>>

\* Power is lost between two writes and comes back.
Restart ==
  /\ step = "password"
  /\ faults < FAULTS /\ faults' = faults + 1
  /\ step' = "idle"
  /\ UNCHANGED <<memory, info, saved, pairs, saves>>

Next ==
  \/ \E level \in Levels : SetCo2Level(level)
  \/ \E ssid \in Texts, password \in Texts : SetWifiConfig(ssid, password)
  \/ WriteSsid \/ WritePassword \/ Restart

Spec == Init /\ [][Next]_vars

-----------------------------------------------------------------------------
\* Type invariant: what is behind the setpoint in its entry is never written.
TypeOK ==
  /\ DOMAIN memory = Cells
  /\ \A a \in 4 .. ENTRY_SIZE - 1 : memory[a] = BLANK
  /\ step \in {"idle", "ssid", "password"} /\ info \in Texts \X Texts
  /\ saved["ssid"] \subseteq Texts /\ saved["password"] \subseteq Texts /\ saved["co2"] \subseteq Levels
  /\ pairs \subseteq Texts \X Texts /\ faults \in 0 .. FAULTS

(* "each value read is validated with checksum calculation": whatever      *)
(* writes were cut off, over whatever lay in the EEPROM, and however much  *)
(* of a read arrived, a field reads as a value saved for it or as bad.     *)
ReadsOnlySaved == \A field \in Fields : Reads(field) \subseteq saved[field] \cup {BAD}

(* The SSID and the password that are read together were saved together,   *)
(* unless a save was cut off between or within its two writes.             *)
PairsMatch ==
  step = "idle" /\ faults = 0 /\ pairs # {} => <<GetText("ssid", ENTRY_SIZE), GetText("password", ENTRY_SIZE)>> \in pairs

(* "it + 3" stays inside the buffer: the terminator that is found has its  *)
(* two checksum bytes behind it, also for the longest text.  A record cut  *)
(* off over an older one can end in a zero that is none.                   *)
TerminatorInside ==
  faults = 0 =>
    \A field \in {"ssid", "password"} :
      Terminator(ReadBytes(field, ENTRY_SIZE, ENTRY_SIZE)) + 2 <= ENTRY_SIZE
=============================================================================
