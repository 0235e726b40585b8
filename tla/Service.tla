------------------------------- MODULE Service ------------------------------
(***************************************************************************)
(* The configuration service (ov_client_orlandoviols_t): its thread polls  *)
(* a web server for the configuration of the device, merges what it gets   *)
(* into the configuration it has, and applies the whole of it to the       *)
(* backend after every poll, changed or not.  An exception ends the        *)
(* application where it is thrown; the error is reported to the server and *)
(* the next poll starts over.                                              *)
(*                                                                         *)
(* A step of the thread is a call of the backend or a part of parse_config *)
(* between two calls.  Other threads change what the server serves, and    *)
(* start and stop the service.  Messages of the session that upload plugin *)
(* settings, and the files the service leaves for the next start of the    *)
(* program, are not modelled.                                              *)
(***************************************************************************)
EXTENDS Backend

CONSTANTS
  Absent,    \* a field that a configuration does not mention
  Configs,   \* configurations the server may serve
  Files      \* contents of the configuration files, merged into one

(* The fields that parse_config reads.  "ambient" is the ambient sound     *)
(* file: none, a usable one, or one that is not in B-format; "quit" stands *)
(* for every request that ends the program; "extrabad" is an extra         *)
(* configuration with a value of a wrong type at its end.                  *)
Config ==
  [audio : Audio \cup {Absent}, restart : BOOLEAN \cup {Absent},
   dev : Value \cup {Absent}, host : Host \cup {Absent},
   ambient : {"none", "file", "bad", Absent}, settings : Value,
   extra : Value \cup {Absent}, extrabad : BOOLEAN,
   devs : (SUBSET DevId) \cup {Absent},
   mixer : BOOLEAN \cup {Absent}, quit : BOOLEAN \cup {Absent}]

NoConfig ==
  [audio |-> Absent, restart |-> Absent, dev |-> Absent, host |-> Absent,
   ambient |-> Absent, settings |-> 0, extra |-> Absent, extrabad |-> FALSE,
   devs |-> Absent, mixer |-> Absent, quit |-> Absent]

ASSUME ServiceAssumption ==
  /\ Configs \subseteq Config /\ Configs # {}
  /\ Files \subseteq Config /\ Files # {}

VARIABLES
  pc, runservice, quitrequest_,
  devcfg, standalone_mixer, hash, lasterrmsg, was_active,
  served,     \* what the server serves
  fault,      \* what ended the last application, "none" if it completed
  dirty       \* history: devcfg changed since an application completed

thread == <<quitrequest_, devcfg, standalone_mixer, hash, lasterrmsg, was_active,
            fault, dirty>>
outside == <<runservice, served>>
vars == <<backend, thread, outside, pc>>

Ends   == [aEnd |-> "aStop", rEnd |-> "rStop", relayEnd |-> "relayFlag",
           sEnd |-> "sStart", finEnd |-> "finStop"]
Stops  == [aStop |-> "aStart", rStop |-> "rStart", finStop |-> "off"]
Starts == [aStart |-> "flag", rStart |-> "reflag", xStart |-> "session"]

Labels == DOMAIN Ends \cup DOMAIN Stops \cup DOMAIN Starts \cup
  {"off", "aborted", "boot", "greet", "poll", "parse", "audio", "flag", "reflag",
   "thisdev", "relay", "relayFlag", "ambient", "settings", "extra", "stage",
   "audiocheck", "session", "sStart", "clear", "report", "wait"}

TypeOK ==
  /\ BackendTypeOK
  /\ pc \in Labels
  /\ runservice \in BOOLEAN /\ quitrequest_ \in BOOLEAN /\ standalone_mixer \in BOOLEAN
  /\ was_active \in BOOLEAN /\ dirty \in BOOLEAN
  /\ devcfg \in Config /\ served \in Configs
  /\ hash \in Configs \cup {NoConfig}
  /\ lasterrmsg \in {"xxx", "", "error"}
  /\ fault \in {"none", "config", "start", "file", "jackd", "garbled", "invalid"}

Init ==
  /\ BackendInit
  /\ pc = "off" /\ runservice = FALSE /\ quitrequest_ = FALSE
  /\ devcfg = NoConfig /\ standalone_mixer = FALSE /\ was_active = FALSE
  /\ hash = NoConfig /\ served \in Configs
  /\ lasterrmsg = "xxx" /\ fault = "none" /\ dirty = FALSE

----------------------------------------------------------------------------
Goto(l) == pc' = l /\ UNCHANGED outside
Throw(f) == fault' = f /\ Goto("report")

(* A step of an application that completes, or that throws. *)
Then(l) == Goto(l) /\ UNCHANGED thread
Throws(f) == /\ Throw(f)
             /\ UNCHANGED <<quitrequest_, devcfg, standalone_mixer, hash,
                            lasterrmsg, was_active, dirty>>

(* A flag is set when the configuration has it and it is true. *)
On(flag) == flag = TRUE

(* json_merge: what the new configuration does not mention stays.  The     *)
(* values that are merged together with a field follow that field.         *)
Merge(old, new) ==
  [f \in DOMAIN old |->
     CASE f = "settings" -> IF new.host = Absent THEN old.settings ELSE new.settings
       [] f = "extrabad" -> IF new.extra = Absent THEN old.extrabad ELSE new.extrabad
       [] OTHER -> IF new[f] = Absent THEN old[f] ELSE new[f]]

(* Mutant: a new configuration replaces the whole of the old one. *)
MergeReplaces(old, new) == new

Replies == {"config"} \cup (Failures \cap {"net", "invalid", "garbled"})

(* Mutant: the hash of what is served is kept although the reply got lost. *)
device_update_eagerly(r, old) ==
  /\ hash' = IF r # "invalid" THEN served ELSE hash
  /\ devcfg' = IF r = "config" /\ hash # served THEN Merge(old, served) ELSE old

(* device_update with reply r: the hash is taken from the first line of the*)
(* reply before anything else of it is read.                               *)
device_update(r, old) ==
  /\ hash' = IF r \in {"config", "garbled"} THEN served ELSE hash
  /\ devcfg' = IF r = "config" /\ hash # served THEN Merge(old, served) ELSE old

report_error(msg) ==
  lasterrmsg' \in {msg} \cup (IF "net" \in Failures THEN {lasterrmsg} ELSE {})

(* The first poll is outside of any try block. *)
boot ==
  /\ pc = "boot"
  /\ \E f \in Files, r \in Replies :
       /\ device_update(r, Merge(devcfg, f))
       /\ Goto(IF r \in {"invalid", "garbled"} THEN "aborted" ELSE "greet")
  /\ standalone_mixer' = On(devcfg'.mixer)
  /\ dirty' = TRUE
  /\ UNCHANGED <<quitrequest_, lasterrmsg, was_active, fault, backend>>

(* The error of an earlier run is reset and the announcement is fetched.   *)
greet ==
  /\ pc = "greet"
  /\ report_error("")
  /\ \/ /\ lasterrmsg' = "" \/ standalone_mixer
        /\ Goto("poll") /\ UNCHANGED quitrequest_
     \/ /\ "net" \in Failures /\ ~standalone_mixer
        /\ quitrequest_' = TRUE /\ Goto("off")
  /\ UNCHANGED <<devcfg, standalone_mixer, hash, was_active, fault, dirty, backend>>

poll(r) ==
  /\ pc = "poll" /\ runservice
  /\ device_update(r, devcfg)
  /\ dirty' = (dirty \/ devcfg' # devcfg)
  /\ CASE r = "invalid" -> fault' = r /\ Goto("poll")
       [] r = "garbled" -> Throw(r)
       [] OTHER -> fault' = "none" /\ Goto("parse")
  /\ UNCHANGED <<quitrequest_, standalone_mixer, lasterrmsg, was_active, backend>>

(* A change of mixer mode or a request ends the program: the rest of the   *)
(* configuration is left to the next one.                                  *)
parse ==
  /\ pc = "parse"
  /\ standalone_mixer' = On(devcfg.mixer)
  /\ quitrequest_' = (\/ quitrequest_ \/ On(devcfg.quit)
                      \/ On(devcfg.mixer) # standalone_mixer)
  /\ Goto(IF quitrequest_' THEN "wait" ELSE "audio")
  /\ UNCHANGED <<devcfg, hash, lasterrmsg, was_active, fault, dirty, backend>>

----------------------------------------------------------------------------
(* Application of the configuration (parse_config), call by call. *)

ends == pc \in DOMAIN Ends /\ end_session /\ Then(Ends[pc])

stops == pc \in DOMAIN Stops /\ stop_audiobackend /\ Then(Stops[pc])

starts ==
  /\ pc \in DOMAIN Starts
  /\ \/ start_audiobackend /\ Then(Starts[pc])
     \/ start_audiobackend_throws /\ Throws("jackd")

Manual(a) == a.device = "manual"

(* Mutant: the session stays while the audio backend restarts. *)
configure_audio_backend_under_session(a) ==
  LET no_restart == Manual(audiodevice) /\ Manual(a)
  IN IF audiodevice = a /\ audio_active
     THEN UNCHANGED backend /\ Then("flag")
     ELSE /\ audiodevice' = a
          /\ audio_active' = (audio_active \/ no_restart)
          /\ RestartIf(session_active)
          /\ Then(IF no_restart THEN "flag"
                  ELSE IF audio_active THEN "aStop" ELSE "aStart")
          /\ UNCHANGED <<session_active, session_ready, tascar, ovboxclient,
                         h_jack, server, stage, extra, loaded>>

(* configure_audio_backend: a server that the user runs is left alone.     *)
configure_audio_backend(a) ==
  LET no_restart == Manual(audiodevice) /\ Manual(a)
      ending == audio_active /\ ~no_restart /\ session_active
  IN IF audiodevice = a /\ audio_active
     THEN UNCHANGED backend /\ Then("flag")
     ELSE /\ audiodevice' = a
          /\ audio_active' = (audio_active \/ no_restart)
          /\ RestartIf(ending)
          /\ Then(IF no_restart THEN "flag"
                  ELSE IF ~audio_active THEN "aStart"
                  ELSE IF ending THEN "aEnd" ELSE "aStop")
          /\ UNCHANGED <<session_active, session_ready, tascar, ovboxclient,
                         h_jack, server, stage, extra, loaded>>

audio ==
  /\ pc = "audio"
  /\ IF devcfg.audio = Absent
     THEN UNCHANGED backend /\ Then("thisdev")
     ELSE configure_audio_backend(devcfg.audio)

(* The request to restart the audio backend of every application. *)
flag ==
  /\ pc = "flag"
  /\ was_active' = session_active
  /\ Goto(IF ~On(devcfg.restart) THEN "thisdev"
          ELSE IF session_active THEN "rEnd" ELSE "rStop")
  /\ UNCHANGED <<quitrequest_, devcfg, standalone_mixer, hash, lasterrmsg, fault,
                 dirty, backend>>

reflag ==
  /\ pc = "reflag"
  /\ RestartIf(was_active)
  /\ Untouched /\ UNCHANGED settings
  /\ Then("thisdev")

(* get_stage_dev on a description of a device; it may throw before the     *)
(* setter that takes its result is called.                                 *)
get_stage_dev_throws == "device" \in Failures /\ Throws("config") /\ UNCHANGED backend

thisdev ==
  /\ pc = "thisdev"
  /\ \/ /\ IF devcfg.dev = Absent THEN UNCHANGED backend ELSE set_thisdev(devcfg.dev)
        /\ Then(IF devcfg.host = Absent THEN "audiocheck" ELSE "relay")
     \/ devcfg.dev # Absent /\ get_stage_dev_throws

relay ==
  /\ pc = "relay"
  /\ set_relay_server(devcfg.host)
  /\ Then(IF session_active /\ stage.host # devcfg.host THEN "relayEnd" ELSE "ambient")

relayFlag ==
  /\ pc = "relayFlag"
  /\ RestartIf(TRUE)
  /\ Untouched /\ UNCHANGED settings
  /\ Then("ambient")

(* The ambient sound file is downloaded, unless it is there already, and   *)
(* must have four channels.                                                *)
ambient ==
  /\ pc = "ambient"
  /\ \/ devcfg.ambient # "bad" /\ Then("settings")
     \/ devcfg.ambient = "bad" /\ Throws("config")
     \/ "file" \in Failures /\ devcfg.ambient \in {"file", "bad"} /\ Throws("file")
  /\ UNCHANGED backend

rendersettings ==
  /\ pc = "settings"
  /\ set_render_settings(devcfg.settings)
  /\ Then("extra")

extraconfig ==
  /\ pc = "extra"
  /\ IF devcfg.extra = Absent
     THEN UNCHANGED backend /\ Then("stage")
     ELSE /\ set_extra_config(devcfg.extra, devcfg.extrabad)
          /\ IF devcfg.extrabad THEN Throws("config") ELSE Then("stage")

roomdev ==
  /\ pc = "stage"
  /\ \/ /\ IF devcfg.devs = Absent THEN UNCHANGED backend ELSE set_stage(devcfg.devs)
        /\ Then("audiocheck")
     \/ devcfg.devs \notin {Absent, {}} /\ get_stage_dev_throws

audiocheck ==
  /\ pc = "audiocheck"
  /\ UNCHANGED backend
  /\ Then(IF audio_active THEN "session" ELSE "xStart")

restart_session_if_needed ==
  /\ pc = "session"
  /\ UNCHANGED backend
  /\ Then(IF ~session_active THEN "sStart" ELSE IF restart_needed THEN "sEnd" ELSE "clear")

session ==
  /\ pc = "sStart"
  /\ \/ start_session /\ Then("clear")
     \/ start_session_throws /\ Throws("start")

clear ==
  /\ pc = "clear"
  /\ IF session_active THEN report_error("") ELSE UNCHANGED lasterrmsg
  /\ dirty' = FALSE
  /\ Goto("wait")
  /\ UNCHANGED <<quitrequest_, devcfg, standalone_mixer, hash, was_active, fault,
                 backend>>

report ==
  /\ pc = "report"
  /\ report_error("error")
  /\ Goto("wait")
  /\ UNCHANGED <<quitrequest_, devcfg, standalone_mixer, hash, was_active, fault,
                 dirty, backend>>

wait == pc = "wait" /\ Then("poll") /\ UNCHANGED backend

(* Mutant: without a session the audio server is not stopped. *)
finish_session_only ==
  /\ pc = "poll" /\ ~runservice
  /\ Then(IF session_active THEN "finEnd" ELSE "off")
  /\ UNCHANGED backend

finish ==
  /\ pc = "poll" /\ ~runservice
  /\ Then(IF session_active THEN "finEnd" ELSE "finStop")
  /\ UNCHANGED backend

apply ==
  \/ parse \/ audio \/ flag \/ reflag \/ thisdev \/ relay \/ relayFlag \/ ambient
  \/ rendersettings \/ extraconfig \/ roomdev \/ audiocheck
  \/ restart_session_if_needed \/ session \/ clear \/ report
  \/ ends \/ stops \/ starts

service == boot \/ greet \/ (\E r \in Replies : poll(r)) \/ apply \/ wait \/ finish

----------------------------------------------------------------------------
(* Other threads, and the web server. *)

(* A new thread; only the hash is a variable of the thread itself. *)
start_service ==
  /\ pc = "off" /\ ~runservice
  /\ runservice' = TRUE /\ pc' = "boot" /\ hash' = NoConfig
  /\ UNCHANGED <<backend, quitrequest_, devcfg, standalone_mixer, lasterrmsg,
                 was_active, fault, dirty, served>>

stop_service ==
  /\ runservice
  /\ runservice' = FALSE
  /\ UNCHANGED <<backend, thread, served, pc>>

(* A change matters only to the next request, so it is made right before. *)
Serve ==
  /\ pc \in {"off", "boot", "poll", "aborted"}
  /\ served' \in Configs \ {served}
  /\ UNCHANGED <<backend, thread, runservice, pc>>

Next == service \/ start_service \/ stop_service \/ Serve

(* The thread runs; a request to the web server that is repeated long      *)
(* enough succeeds.                                                        *)
Fairness ==
  /\ WF_vars(service)
  /\ SF_vars(poll("config"))
  /\ SF_vars(ambient /\ pc' = "settings")

Spec == Init /\ [][Next]_vars /\ Fairness
----------------------------------------------------------------------------
(* Properties. *)

(* Whatever throws, and wherever: when the flag says that no session is    *)
(* active, no renderer and no network client is left behind, which the     *)
(* next start_session would overwrite (ov_render_tascar.cc:1405, 1559).    *)
NoLeak == ~session_active => ~tascar /\ ~ovboxclient

(* Between two applications a running session was built from the current   *)
(* settings: every setter that changed one of them also asked for a        *)
(* restart, and no exception lost the request.  (The extra configuration   *)
(* is not among them: set_extra_config may throw before it asks.)          *)
RunsConfig ==
  pc = "wait" /\ fault = "none" /\ ~quitrequest_ /\ tascar =>
    /\ loaded.stage = stage
    /\ loaded.audio = audiodevice \/ Manual(audiodevice)
    /\ ovboxclient = InRoom

(* The audio backend and the session keep the order ov_types.h asks for.   *)
L == INSTANCE Lifecycle WITH audio <- audio_active, session <- tascar
ImplementsLifecycle == L!Spec

(* A running session is only torn down for a reason: the configuration     *)
(* changed since it was last applied, a restart of the audio backend is    *)
(* requested, or the service stops.  All applications in between find      *)
(* nothing to do.                                                          *)
SettledSessionKept ==
  [][tascar /\ ~tascar' => dirty \/ On(devcfg.restart) \/ ~runservice]_vars

(* After an application that completed, the session runs                   *)
(* (ov_types.h:486-490: a session that is needed is restarted, one that is *)
(* inactive is started).                                                   *)
StartedAfterPoll ==
  pc = "wait" /\ fault = "none" /\ ~quitrequest_ => tascar

(* stop_service ends the session, the network client and the audio server, *)
(* from wherever the thread is.                                            *)
Stopped == pc \in {"off", "aborted"} /\ ~tascar /\ ~ovboxclient /\ ~h_jack
StopEndsAll == ~runservice ~> Stopped \/ runservice

(* What the server goes on serving is what the session runs from, again    *)
(* and again, when only downloads fail, and not for ever.                  *)
Applied(c) ==
  /\ tascar
  /\ c.host # Absent => loaded.stage.host = c.host /\ loaded.stage.rendersettings = c.settings
  /\ c.host # Absent /\ c.devs # Absent => c.devs \subseteq loaded.stage.stage
  /\ c.dev # Absent => loaded.stage.thisdevice = c.dev
  /\ c.audio # Absent => loaded.audio = c.audio \/ Manual(c.audio)
  /\ c.host # Absent /\ c.extra # Absent => loaded.extra = c.extra

ConfigApplied ==
  [](fault \in {"none", "file"}) =>
    \A c \in Configs :
      <>[](served = c /\ runservice /\ ~quitrequest_ /\ pc \notin {"off", "aborted"})
        => []<>Applied(c)
=============================================================================
