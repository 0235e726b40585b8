----------------------------- MODULE Lifecycle ------------------------------
(***************************************************************************)
(* What the backend promises its clients in ov_types.h: a session needs a  *)
(* running audio backend (the comment of start_session), and the session   *)
(* is ended before the audio backend is started anew or stopped (the note  *)
(* of stop_audiobackend).                                                  *)
(***************************************************************************)
VARIABLES audio, session

lifecycle == <<audio, session>>

Init == audio = FALSE /\ session = FALSE

StartAudio   == ~session /\ audio' = TRUE /\ UNCHANGED session
StopAudio    == ~session /\ audio' = FALSE /\ UNCHANGED session
StartSession == audio /\ ~session /\ session' = TRUE /\ UNCHANGED audio
EndSession   == session' = FALSE /\ UNCHANGED audio

Next == StartAudio \/ StopAudio \/ StartSession \/ EndSession

Spec == Init /\ [][Next]_lifecycle
=============================================================================
