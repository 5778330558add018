------------------------------ MODULE MCModbus ------------------------------
(* Small values for Modbus: two registers of one device, as temperature    *)
(* and humidity, one of another, and the write to the fan.                 *)
EXTENDS Modbus

Temperature == [unit |-> 241, fc |-> READ_HOLDING, addr |-> 257, value |-> 0]
Humidity == [unit |-> 241, fc |-> READ_HOLDING, addr |-> 256, value |-> 0]
CO2 == [unit |-> 240, fc |-> READ_HOLDING, addr |-> 256, value |-> 0]
FanSpeed == [unit |-> 1, fc |-> WRITE_SINGLE, addr |-> 0, value |-> 1]

MCRequests == {Temperature, Humidity, CO2, FanSpeed}
\* A zero, and a word that holds the number and the function code of the fan.
MCWords == {0, 262}
=============================================================================
