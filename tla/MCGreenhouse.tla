---------------------------- MODULE MCGreenhouse ----------------------------
(* Small values for Greenhouse: a network the user can choose and the one  *)
(* in the EEPROM, one setpoint each for the user and TalkBack (which also  *)
(* answers one out of range), and queues of one item.                      *)
EXTENDS Greenhouse
MCFields == {<<"typed">>, <<"eeprom">>}
MCBad == <<"bad">>
MCBootFields == {<<"eeprom">>}
MCBootLevels == {1500}
MCUserLevels == {1500}
MCCommands == {1500, 1501}
LiveCommands == {1500}
LiveFields == {<<"eeprom">>}
=============================================================================
