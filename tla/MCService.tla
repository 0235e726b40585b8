----------------------------- MODULE MCService ------------------------------
(* Configurations that a server may serve in any order: a room, playing    *)
(* alone with other devices, another sampling rate and (in Any) a faulty   *)
(* extra configuration, an update of the room's settings, and one that     *)
(* switches to the mixer and names an unusable ambient sound file.         *)
EXTENDS Service

Device(d, r) == [device |-> d, rate |-> r]

Room ==
  [NoConfig EXCEPT !.audio = Device("hw", 1), !.dev = 1, !.host = "relay",
                   !.ambient = "file", !.extra = 1, !.devs = {Own}]
Alone ==
  [NoConfig EXCEPT !.audio = Device("hw", 2), !.host = NoHost, !.settings = 1,
                   !.ambient = "none", !.extra = 0, !.devs = {Own, "peer"}]
Update == [NoConfig EXCEPT !.host = "relay", !.settings = 1]
Mixer ==
  [NoConfig EXCEPT !.audio = Device("manual", 1), !.restart = TRUE, !.host = "relay",
                   !.ambient = "bad", !.mixer = TRUE]

Usable == {Room, Alone, Update}
Any == {Room, [Alone EXCEPT !.extrabad = TRUE], Update, Mixer}
NoFiles == {NoConfig}
=============================================================================
