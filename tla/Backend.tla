------------------------------- MODULE Backend ------------------------------
(***************************************************************************)
(* The audio backend of an ovbox (ov_render_base_t with ov_render_tascar_t)*)
(* as its only caller, the configuration service, drives it: an audio      *)
(* server (jackd) that is spawned or external, and a session, made of a    *)
(* TASCAR renderer and, in a room, an ovboxclient_t.  The operations are   *)
(* action formulas; module Service puts them in order.                     *)
(*                                                                         *)
(* The flags and the objects are separate state, because an operation that *)
(* throws leaves some of them changed.  The text of a TASCAR session is not*)
(* modelled, only which settings it was built from.                        *)
(***************************************************************************)
EXTENDS Integers

CONSTANTS
  Rate,         \* sampling rates, all positive
  OtherRates,   \* rates of an audio server that runs already, if there may be one
  Value,        \* values of a group of settings; 0 is the default
  Host,         \* relay servers; NoHost (the empty name) is one of them
  NoHost,
  DevId,        \* devices in a room; Own is this device
  Own,
  Failures      \* what may fail: see FailureKinds

FailureKinds ==
  {"jackd",    \* the audio server does not come up
   "client",   \* the constructor of ovboxclient_t throws
   "load",     \* the constructor of TASCAR::session_t throws
   "run",      \* the TASCAR session does not validate or start
   "file",     \* an ambient sound file cannot be downloaded
   "device",   \* the description of a device has a value of a wrong type
   "net",      \* the configuration server cannot be reached
   "invalid",  \* its reply is not a reply of the API
   "garbled"}  \* its reply has a hash but no JSON

ASSUME BackendAssumption ==
  /\ Rate \subseteq Nat \ {0} /\ Rate # {}
  /\ OtherRates \subseteq Rate
  /\ 0 \in Value
  /\ NoHost \in Host
  /\ Own \in DevId
  /\ Failures \subseteq FailureKinds

(* audio_device_t: "hw" stands for the devices of the driver "jack" that   *)
(* an audio server is spawned for, "manual" for the one under which the    *)
(* user runs it, "none" for every other driver, the empty one included.    *)
Audio == [device : {"none", "manual", "hw"}, rate : Rate]

Stage == [host : Host, thisdevice : Value, rendersettings : Value,
          stage : SUBSET DevId]

VARIABLES
  session_active, audio_active, restart_needed, session_ready,
  tascar, ovboxclient,  \* these objects exist
  h_jack,               \* an audio server process was spawned
  server,               \* rate of the spawned server, 0 when it does not run
  audiodevice, stage,
  extra,                \* the variables that set_extra_config sets
  loaded                \* history: what the TASCAR session, if any, was built from

flags == <<session_active, audio_active, restart_needed, session_ready>>
settings == <<audiodevice, stage, extra>>
backend == <<flags, tascar, ovboxclient, h_jack, server, settings, loaded>>

Loaded == [audio : Audio, stage : Stage, extra : Value]

Unbuilt == CHOOSE l \in Loaded : TRUE

BackendTypeOK ==
  /\ session_active \in BOOLEAN /\ audio_active \in BOOLEAN
  /\ restart_needed \in BOOLEAN /\ session_ready \in BOOLEAN
  /\ tascar \in BOOLEAN /\ ovboxclient \in BOOLEAN /\ h_jack \in BOOLEAN
  /\ server \in Rate \cup {0}
  /\ audiodevice \in Audio /\ stage \in Stage /\ extra \in Value
  /\ loaded \in Loaded

BackendInit ==
  /\ session_active = FALSE /\ audio_active = FALSE
  /\ restart_needed = FALSE /\ session_ready = FALSE
  /\ tascar = FALSE /\ ovboxclient = FALSE /\ h_jack = FALSE
  /\ server = 0
  /\ audiodevice \in {a \in Audio : a.device = "none"}
  /\ stage = [host |-> NoHost, thisdevice |-> 0, rendersettings |-> 0, stage |-> {}]
  /\ extra = 0
  /\ loaded = Unbuilt

----------------------------------------------------------------------------
InRoom == stage.host # NoHost

(* Building a session in a room reads stage.stage[thisstagedeviceid], which*)
(* enters a default device when this device is not in the list.            *)
StageAsBuilt ==
  IF InRoom THEN [stage EXCEPT !.stage = @ \cup {Own}] ELSE stage

(* A server runs: the spawned one, or the user's.  One of another program  *)
(* may run as well (OtherRates), whatever the device is.                   *)
AudioUp == audiodevice.device = "manual" \/ server # 0

StartFlags == session_active' = TRUE /\ restart_needed' = FALSE

start_session ==
  /\ AudioUp \/ OtherRates # {}
  /\ StartFlags
  /\ session_ready' = TRUE
  /\ tascar' = TRUE
  /\ ovboxclient' = (ovboxclient \/ InRoom)
  /\ stage' = StageAsBuilt
  /\ loaded' = [audio |-> audiodevice, stage |-> StageAsBuilt, extra |-> extra]
  /\ UNCHANGED <<audio_active, h_jack, server, audiodevice, extra>>

(* start_session throws: before the client exists, with the client but     *)
(* without the renderer, or after both were deleted again.  The flags of   *)
(* the base class are already set.                                         *)
start_session_throws ==
  /\ \/ "client" \in Failures /\ InRoom /\ UNCHANGED <<tascar, ovboxclient>>
     \/ /\ "load" \in Failures \/ ~AudioUp
        /\ ovboxclient' = (ovboxclient \/ InRoom)
        /\ UNCHANGED tascar
     \/ "run" \in Failures /\ (AudioUp \/ OtherRates # {}) /\ tascar' = FALSE /\ ovboxclient' = FALSE
  /\ loaded' = Unbuilt
  /\ StartFlags
  /\ stage' = StageAsBuilt
  /\ UNCHANGED <<session_ready, audio_active, h_jack, server, audiodevice, extra>>

(* Mutant: the renderer stays when it was not announced as ready. *)
end_session_if_ready ==
  /\ session_active' = FALSE /\ session_ready' = FALSE
  /\ tascar' = (tascar /\ ~session_ready)
  /\ ovboxclient' = (ovboxclient /\ ~session_ready)
  /\ loaded' = Unbuilt
  /\ UNCHANGED <<restart_needed, audio_active, h_jack, server, settings>>

end_session ==
  /\ session_active' = FALSE /\ session_ready' = FALSE
  /\ tascar' = FALSE /\ ovboxclient' = FALSE
  /\ loaded' = Unbuilt
  /\ UNCHANGED <<restart_needed, audio_active, h_jack, server, settings>>

(* Mutant: the rate is read although the server cannot be reached. *)
start_audiobackend_unchecked ==
  /\ audio_active' = TRUE
  /\ \E r \in {audiodevice.rate, 0} :
       /\ audiodevice' = [audiodevice EXCEPT !.rate = r]
       /\ h_jack' = TRUE /\ server' = r
  /\ UNCHANGED <<session_active, restart_needed, session_ready, tascar,
                 ovboxclient, stage, extra, loaded>>

(* The rate of the server that runs, the spawned one or one that ran       *)
(* already, replaces the requested one.                                    *)
start_audiobackend ==
  /\ audio_active' = TRUE
  /\ \E r \in {audiodevice.rate} \cup OtherRates :
       /\ audiodevice' = [audiodevice EXCEPT !.rate = r]
       /\ IF audiodevice.device = "hw"
          THEN h_jack' = TRUE /\ server' = r
          ELSE UNCHANGED <<h_jack, server>>
  /\ UNCHANGED <<session_active, restart_needed, session_ready, tascar,
                 ovboxclient, stage, extra, loaded>>

(* No server came up within ten seconds; audio_active is already set. *)
start_audiobackend_throws ==
  /\ "jackd" \in Failures
  /\ audiodevice.device = "hw"
  /\ audio_active' = TRUE
  /\ h_jack' = TRUE /\ server' = 0
  /\ UNCHANGED <<session_active, restart_needed, session_ready, tascar,
                 ovboxclient, settings, loaded>>

stop_audiobackend ==
  /\ audio_active' = FALSE
  /\ h_jack' = FALSE
  /\ server' = IF h_jack THEN 0 ELSE server
  /\ UNCHANGED <<session_active, restart_needed, session_ready, tascar,
                 ovboxclient, settings, loaded>>

require_session_restart == restart_needed' = TRUE

----------------------------------------------------------------------------
(* Setters.  Each says whether it asks for a restart of the session. *)

Untouched == UNCHANGED <<session_active, audio_active, session_ready, tascar,
                         ovboxclient, h_jack, server, loaded>>

RestartIf(cond) == restart_needed' = (restart_needed \/ cond)

set_thisdev(d) ==
  /\ RestartIf(d # stage.thisdevice)
  /\ stage' = [stage EXCEPT !.thisdevice = d]
  /\ Untouched /\ UNCHANGED <<audiodevice, extra>>

(* set_relay_server up to the end of the session that a change asks for. *)
set_relay_server(h) ==
  /\ stage' = [stage EXCEPT !.host = h]
  /\ Untouched /\ UNCHANGED <<restart_needed, audiodevice, extra>>

(* Mutant: new render settings wait for the next session. *)
set_render_settings_later(s) ==
  /\ RestartIf(s # stage.rendersettings /\ ~session_active)
  /\ stage' = [stage EXCEPT !.rendersettings = s]
  /\ Untouched /\ UNCHANGED <<audiodevice, extra>>

set_render_settings(s) ==
  /\ RestartIf(s # stage.rendersettings)
  /\ stage' = [stage EXCEPT !.rendersettings = s]
  /\ Untouched /\ UNCHANGED <<audiodevice, extra>>

(* set_extra_config; the part after a throw is not reached. *)
set_extra_config(x, throws) ==
  /\ extra' = x
  /\ RestartIf(~throws /\ session_active /\ x # extra)
  /\ Untouched /\ UNCHANGED <<audiodevice, stage>>

(* Mutant: the list of devices is not compared with the current one. *)
set_stage_always(devs) ==
  /\ RestartIf(session_active)
  /\ stage' = [stage EXCEPT !.stage = devs]
  /\ Untouched /\ UNCHANGED <<audiodevice, extra>>

set_stage(devs) ==
  /\ RestartIf(session_active /\ devs # stage.stage)
  /\ stage' = [stage EXCEPT !.stage = devs]
  /\ Untouched /\ UNCHANGED <<audiodevice, extra>>
=============================================================================
