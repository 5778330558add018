---------------------------- MODULE ModbusFrame ----------------------------
(***************************************************************************)
(* The bytes of an RTU message of nanomodbus: unit, function, data, CRC.   *)
(*                                                                         *)
(* A byte is <<n>>.  The two bytes of a CRC stand for what they were       *)
(* computed from: no other bytes have that CRC, and where one of them is   *)
(* read as a number it counts as NOISE.                                    *)
(***************************************************************************)
LOCAL INSTANCE Integers
LOCAL INSTANCE Sequences

EXCEPTION == 128   \* added to the function code of a refusal
NOISE == 255       \* what a byte that is no number counts as

\* put_1 and put_2.
Plain(n) == <<n % 256>>
TwoBytes(word) == <<Plain(word \div 256), Plain(word)>>

Crc(body) == <<<<1, body>>, <<2, body>>>>
Frame(body) == body \o Crc(body)

\* get_1.
NumberOf(byte) == IF Len(byte) = 1 THEN byte[1] ELSE NOISE

\* Slip: the CRC is received and not compared.
CrcIgnored(bytes) == TRUE

\* recv_msg_footer.
CrcMatches(bytes) ==
  LET n == Len(bytes) - 2
  IN  SubSeq(bytes, n + 1, n + 2) = Crc(SubSeq(bytes, 1, n))
=============================================================================
