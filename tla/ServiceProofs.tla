---------------------------- MODULE ServiceProofs ---------------------------
(***************************************************************************)
(* Proofs about module Service, for every set of configurations, hosts,    *)
(* devices and values, and whatever fails.                                 *)
(***************************************************************************)
EXTENDS Service, TLAPS

(* The history variable has a value to start from. *)
LEMMA UnbuiltType == Unbuilt \in Loaded
<1>1. PICK r \in Rate : TRUE BY BackendAssumption
<1>2. [audio |-> [device |-> "hw", rate |-> r],
       stage |-> [host |-> NoHost, thisdevice |-> 0, rendersettings |-> 0, stage |-> {}],
       extra |-> 0] \in Loaded
  BY <1>1, BackendAssumption DEF Loaded, Audio, Stage
<1> QED BY <1>2 DEF Unbuilt

(* Every operation of the backend keeps the types of its state. *)
LEMMA StageAsBuiltType == BackendTypeOK => StageAsBuilt \in Stage
BY BackendAssumption DEF BackendTypeOK, StageAsBuilt, Stage

LEMMA StartSessionType ==
  ASSUME BackendTypeOK, start_session PROVE BackendTypeOK'
BY StageAsBuiltType DEF BackendTypeOK, start_session, StartFlags, Loaded, InRoom

LEMMA StartSessionThrowsType ==
  ASSUME BackendTypeOK, start_session_throws PROVE BackendTypeOK'
BY StageAsBuiltType, UnbuiltType DEF BackendTypeOK, start_session_throws, StartFlags, InRoom

LEMMA EndSessionType ==
  ASSUME BackendTypeOK, end_session PROVE BackendTypeOK'
BY UnbuiltType DEF BackendTypeOK, end_session, settings

LEMMA StartAudioType ==
  ASSUME BackendTypeOK, start_audiobackend PROVE BackendTypeOK'
BY BackendAssumption DEF BackendTypeOK, start_audiobackend, Audio

LEMMA StartAudioThrowsType ==
  ASSUME BackendTypeOK, start_audiobackend_throws PROVE BackendTypeOK'
BY DEF BackendTypeOK, start_audiobackend_throws, settings

LEMMA StopAudioType ==
  ASSUME BackendTypeOK, stop_audiobackend PROVE BackendTypeOK'
BY DEF BackendTypeOK, stop_audiobackend, settings

LEMMA SetterTypes ==
  ASSUME BackendTypeOK
  PROVE  /\ \A v \in Value : set_thisdev(v) => BackendTypeOK'
         /\ \A h \in Host : set_relay_server(h) => BackendTypeOK'
         /\ \A v \in Value : set_render_settings(v) => BackendTypeOK'
         /\ \A v \in Value, t \in BOOLEAN : set_extra_config(v, t) => BackendTypeOK'
         /\ \A d \in SUBSET DevId : set_stage(d) => BackendTypeOK'
<1> USE DEF BackendTypeOK, Untouched, RestartIf, Stage
<1>1. \A v \in Value : set_thisdev(v) => BackendTypeOK' BY DEF set_thisdev
<1>2. \A h \in Host : set_relay_server(h) => BackendTypeOK' BY DEF set_relay_server
<1>3. \A v \in Value : set_render_settings(v) => BackendTypeOK' BY DEF set_render_settings
<1>4. \A v \in Value, t \in BOOLEAN : set_extra_config(v, t) => BackendTypeOK'
  BY DEF set_extra_config
<1>5. \A d \in SUBSET DevId : set_stage(d) => BackendTypeOK' BY DEF set_stage
<1> QED BY <1>1, <1>2, <1>3, <1>4, <1>5

LEMMA RestartFlagType ==
  ASSUME BackendTypeOK, NEW b \in BOOLEAN, RestartIf(b), Untouched, UNCHANGED settings
  PROVE  BackendTypeOK'
BY DEF BackendTypeOK, RestartIf, Untouched, settings

LEMMA UnchangedType ==
  ASSUME BackendTypeOK, UNCHANGED backend PROVE BackendTypeOK'
BY DEF BackendTypeOK, backend, flags, settings

(* Merging two configurations yields a configuration. *)
LEMMA MergeType ==
  ASSUME NEW old \in Config, NEW new \in Config PROVE Merge(old, new) \in Config
<1> DEFINE m == Merge(old, new)
<1>1. DOMAIN old = {"audio", "restart", "dev", "host", "ambient", "settings", "extra",
                    "extrabad", "devs", "mixer", "quit"}
  BY DEF Config
<1>2. m = [audio |-> m.audio, restart |-> m.restart, dev |-> m.dev, host |-> m.host,
           ambient |-> m.ambient, settings |-> m.settings, extra |-> m.extra,
           extrabad |-> m.extrabad, devs |-> m.devs, mixer |-> m.mixer, quit |-> m.quit]
  BY <1>1 DEF Merge
<1>3. m.audio \in Audio \cup {Absent} /\ m.restart \in BOOLEAN \cup {Absent}
  BY <1>1 DEF Merge, Config
<1>4. m.dev \in Value \cup {Absent} /\ m.host \in Host \cup {Absent}
  BY <1>1 DEF Merge, Config
<1>5. m.ambient \in {"none", "file", "bad", Absent} /\ m.settings \in Value
  BY <1>1 DEF Merge, Config
<1>6. m.extra \in Value \cup {Absent} /\ m.extrabad \in BOOLEAN
  BY <1>1 DEF Merge, Config
<1>7. m.devs \in (SUBSET DevId) \cup {Absent}
  BY <1>1 DEF Merge, Config
<1>8. m.mixer \in BOOLEAN \cup {Absent} /\ m.quit \in BOOLEAN \cup {Absent}
  BY <1>1 DEF Merge, Config
<1> HIDE DEF m
<1>9. m \in Config BY <1>2, <1>3, <1>4, <1>5, <1>6, <1>7, <1>8 DEF Config
<1> QED BY <1>9 DEF m

LEMMA Assumptions ==
  /\ Configs \subseteq Config
  /\ Files \subseteq Config
  /\ NoConfig \in Config
<1>1. NoConfig \in Config BY BackendAssumption DEF NoConfig, Config
<1> QED BY <1>1, ServiceAssumption

LEMMA UpdateType ==
  ASSUME NEW old \in Config, NEW r \in Replies, device_update(r, old),
         served \in Configs, hash \in Configs \cup {NoConfig}
  PROVE  devcfg' \in Config /\ hash' \in Configs \cup {NoConfig}
<1>1. served \in Config BY Assumptions
<1>2. Merge(old, served) \in Config BY <1>1, MergeType
<1> QED BY <1>2 DEF device_update

(* Where ending, stopping and starting lead. *)
LEMMA EndsLead ==
  ASSUME NEW p \in DOMAIN Ends
  PROVE  \/ p = "aEnd" /\ Ends[p] = "aStop"
         \/ p = "rEnd" /\ Ends[p] = "rStop"
         \/ p = "relayEnd" /\ Ends[p] = "relayFlag"
         \/ p = "sEnd" /\ Ends[p] = "sStart"
         \/ p = "finEnd" /\ Ends[p] = "finStop"
BY DEF Ends

LEMMA StopsLead ==
  ASSUME NEW p \in DOMAIN Stops
  PROVE  \/ p = "aStop" /\ Stops[p] = "aStart"
         \/ p = "rStop" /\ Stops[p] = "rStart"
         \/ p = "finStop" /\ Stops[p] = "off"
BY DEF Stops

LEMMA StartsLead ==
  ASSUME NEW p \in DOMAIN Starts
  PROVE  \/ p = "aStart" /\ Starts[p] = "flag"
         \/ p = "rStart" /\ Starts[p] = "reflag"
         \/ p = "xStart" /\ Starts[p] = "session"
BY DEF Starts

LEMMA AllLabels ==
  Labels = {"aEnd", "rEnd", "relayEnd", "sEnd", "finEnd", "aStop", "rStop", "finStop",
            "aStart", "rStart", "xStart", "off", "aborted", "boot", "greet", "poll",
            "parse", "audio", "flag", "reflag", "thisdev", "relay", "relayFlag",
            "ambient", "settings", "extra", "stage", "audiocheck", "session", "sStart",
            "clear", "report", "wait"}
BY DEF Labels, Ends, Stops, Starts

(* The part of TypeOK that is not about the backend. *)
ThreadTypeOK ==
  /\ pc \in Labels
  /\ runservice \in BOOLEAN /\ quitrequest_ \in BOOLEAN /\ standalone_mixer \in BOOLEAN
  /\ was_active \in BOOLEAN /\ dirty \in BOOLEAN
  /\ devcfg \in Config /\ served \in Configs
  /\ hash \in Configs \cup {NoConfig}
  /\ lasterrmsg \in {"xxx", "", "error"}
  /\ fault \in {"none", "config", "start", "file", "jackd", "garbled", "invalid"}

LEMMA TypeParts ==
  /\ TypeOK <=> BackendTypeOK /\ ThreadTypeOK
  /\ TypeOK' <=> BackendTypeOK' /\ ThreadTypeOK'
BY DEF TypeOK, ThreadTypeOK

(* A call that completes or throws only moves on. *)
LEMMA ThenType ==
  ASSUME ThreadTypeOK, NEW l \in Labels, Then(l) PROVE ThreadTypeOK'
BY DEF ThreadTypeOK, Then, Goto, thread, outside

LEMMA ThrowsType ==
  ASSUME ThreadTypeOK, NEW f \in {"config", "start", "file", "jackd"}, Throws(f)
  PROVE  ThreadTypeOK'
BY AllLabels DEF ThreadTypeOK, Throws, Throw, Goto, outside

LEMMA InitType == Init => TypeOK
<1> SUFFICES ASSUME Init PROVE TypeOK OBVIOUS
<1>1. BackendTypeOK
  BY UnbuiltType, BackendAssumption DEF Init, BackendInit, BackendTypeOK, Stage
<1>2. ThreadTypeOK
  BY AllLabels, Assumptions DEF Init, ThreadTypeOK
<1> QED BY <1>1, <1>2, TypeParts

(* The fields of the merged configuration, when they are mentioned. *)
LEMMA FieldTypes ==
  ASSUME ThreadTypeOK
  PROVE  /\ devcfg.audio # Absent => devcfg.audio \in Audio
         /\ devcfg.dev # Absent => devcfg.dev \in Value
         /\ devcfg.host # Absent => devcfg.host \in Host
         /\ devcfg.settings \in Value /\ devcfg.extrabad \in BOOLEAN
         /\ devcfg.extra # Absent => devcfg.extra \in Value
         /\ devcfg.devs # Absent => devcfg.devs \in SUBSET DevId
BY DEF ThreadTypeOK, Config

LEMMA PollingType ==
  ASSUME TypeOK, boot \/ greet \/ (\E r \in Replies : poll(r)) PROVE TypeOK'
<1>1. BackendTypeOK /\ ThreadTypeOK BY TypeParts
<1>2. BackendTypeOK' BY <1>1, UnchangedType DEF boot, greet, poll
<1>3. CASE boot
  <2>1. PICK f \in Files, r \in Replies :
          /\ device_update(r, Merge(devcfg, f))
          /\ Goto(IF r \in {"invalid", "garbled"} THEN "aborted" ELSE "greet")
    BY <1>3 DEF boot
  <2>2. Merge(devcfg, f) \in Config
    BY <1>1, MergeType, Assumptions DEF ThreadTypeOK
  <2>3. devcfg' \in Config /\ hash' \in Configs \cup {NoConfig}
    BY <1>1, <2>1, <2>2, UpdateType DEF ThreadTypeOK
  <2>4. ThreadTypeOK'
    BY <1>1, <1>3, <2>1, <2>3, AllLabels DEF ThreadTypeOK, boot, Goto, outside, On
  <2> QED BY <1>2, <2>4, TypeParts
<1>4. CASE greet
  <2>1. ThreadTypeOK'
    BY <1>1, <1>4, AllLabels DEF ThreadTypeOK, greet, Goto, outside, report_error
  <2> QED BY <1>2, <2>1, TypeParts
<1>5. ASSUME NEW r \in Replies, poll(r) PROVE TypeOK'
  <2>1. devcfg' \in Config /\ hash' \in Configs \cup {NoConfig}
    BY <1>1, <1>5, UpdateType DEF ThreadTypeOK, poll
  <2>2. dirty' \in BOOLEAN
    BY <1>5, <1>1 DEF poll, ThreadTypeOK
  <2>3. /\ pc' \in {"poll", "report", "parse"}
        /\ fault' \in {"invalid", "garbled", "none"}
        /\ UNCHANGED outside
    BY <1>5 DEF poll, Throw, Goto
  <2>4. ThreadTypeOK'
    BY <1>1, <1>5, <2>1, <2>2, <2>3, AllLabels DEF ThreadTypeOK, poll, outside
  <2> QED BY <1>2, <2>4, TypeParts
<1> QED BY <1>3, <1>4, <1>5

(* Steps that end, stop or start something. *)
LEMMA CallType == ASSUME TypeOK, ends \/ stops \/ starts \/ session PROVE TypeOK'
<1>1. BackendTypeOK /\ ThreadTypeOK BY TypeParts
<1>2. BackendTypeOK'
  BY <1>1, EndSessionType, StopAudioType, StartAudioType, StartAudioThrowsType,
     StartSessionType, StartSessionThrowsType DEF ends, stops, starts, session
<1>3. CASE ends
  <2>1. Ends[pc] \in Labels /\ Then(Ends[pc]) BY <1>3, EndsLead, AllLabels DEF ends
  <2> QED BY <1>1, <1>2, <2>1, ThenType, TypeParts
<1>4. CASE stops
  <2>1. Stops[pc] \in Labels /\ Then(Stops[pc]) BY <1>4, StopsLead, AllLabels DEF stops
  <2> QED BY <1>1, <1>2, <2>1, ThenType, TypeParts
<1>5. CASE starts
  <2>1. Starts[pc] \in Labels /\ (Then(Starts[pc]) \/ Throws("jackd"))
    BY <1>5, StartsLead, AllLabels DEF starts
  <2> QED BY <1>1, <1>2, <2>1, ThenType, ThrowsType, TypeParts
<1>6. CASE session
  <2>1. Then("clear") \/ Throws("start") BY <1>6 DEF session
  <2> QED BY <1>1, <1>2, <2>1, ThenType, ThrowsType, AllLabels, TypeParts
<1> QED BY <1>3, <1>4, <1>5, <1>6

LEMMA ConfigureType ==
  ASSUME BackendTypeOK, NEW a \in Audio, configure_audio_backend(a) PROVE BackendTypeOK'
<1>1. CASE audiodevice = a /\ audio_active
  BY <1>1, UnchangedType DEF configure_audio_backend
<1>2. CASE ~(audiodevice = a /\ audio_active)
  BY <1>2 DEF configure_audio_backend, BackendTypeOK, RestartIf, Manual
<1> QED BY <1>1, <1>2

(* The relay server is only set from a configuration that names one, which *)
(* the types rest on.                                                      *)
RelayKnown == pc = "relay" => devcfg.host # Absent

(* Steps that apply a part of the configuration. *)
LEMMA ApplyType ==
  ASSUME TypeOK, RelayKnown,
         \/ parse \/ audio \/ flag \/ reflag \/ thisdev \/ relay \/ relayFlag
         \/ ambient \/ rendersettings \/ extraconfig \/ roomdev \/ audiocheck
         \/ restart_session_if_needed \/ clear \/ report \/ wait \/ finish
  PROVE  TypeOK'
<1>1. BackendTypeOK /\ ThreadTypeOK BY TypeParts
<1>2. CASE parse
  <2>1. ThreadTypeOK'
    BY <1>1, <1>2, AllLabels DEF ThreadTypeOK, parse, Goto, outside, On
  <2> QED BY <1>1, <1>2, <2>1, UnchangedType, TypeParts DEF parse
<1>3. CASE audio
  <2>1. BackendTypeOK'
    BY <1>1, <1>3, ConfigureType, UnchangedType, FieldTypes DEF audio
  <2>2. \E l \in Labels : Then(l)
    BY <1>3, AllLabels DEF audio, configure_audio_backend
  <2> QED BY <1>1, <2>1, <2>2, ThenType, TypeParts
<1>4. CASE flag
  <2>1. ThreadTypeOK'
    BY <1>1, <1>4, AllLabels DEF ThreadTypeOK, BackendTypeOK, flag, Goto, outside
  <2> QED BY <1>1, <1>4, <2>1, UnchangedType, TypeParts DEF flag
<1>5. CASE reflag \/ relayFlag
  <2>1. \E b \in BOOLEAN : RestartIf(b) /\ Untouched /\ UNCHANGED settings
    BY <1>1, <1>5 DEF reflag, relayFlag, ThreadTypeOK
  <2>2. BackendTypeOK' BY <1>1, <2>1, RestartFlagType
  <2>3. \E l \in Labels : Then(l) BY <1>5, AllLabels DEF reflag, relayFlag
  <2> QED BY <1>1, <2>2, <2>3, ThenType, TypeParts
<1>6. CASE thisdev
  <2>1. BackendTypeOK'
    BY <1>1, <1>6, SetterTypes, UnchangedType, FieldTypes DEF thisdev, get_stage_dev_throws
  <2>2. (\E l \in Labels : Then(l)) \/ Throws("config")
    BY <1>6, AllLabels DEF thisdev, get_stage_dev_throws
  <2> QED BY <1>1, <2>1, <2>2, ThenType, ThrowsType, TypeParts
<1>7. CASE relay
  <2>1. BackendTypeOK'
    BY <1>1, <1>7, SetterTypes, FieldTypes DEF relay, RelayKnown
  <2>2. \E l \in Labels : Then(l) BY <1>7, AllLabels DEF relay
  <2> QED BY <1>1, <2>1, <2>2, ThenType, TypeParts
<1>8. CASE ambient
  <2>1. (\E l \in Labels : Then(l)) \/ Throws("config") \/ Throws("file")
    BY <1>8, AllLabels DEF ambient
  <2> QED BY <1>1, <1>8, <2>1, ThenType, ThrowsType, UnchangedType, TypeParts DEF ambient
<1>9. CASE rendersettings
  <2>1. BackendTypeOK' BY <1>1, <1>9, SetterTypes, FieldTypes DEF rendersettings
  <2>2. \E l \in Labels : Then(l) BY <1>9, AllLabels DEF rendersettings
  <2> QED BY <1>1, <2>1, <2>2, ThenType, TypeParts
<1>10. CASE extraconfig
  <2>1. BackendTypeOK'
    BY <1>1, <1>10, SetterTypes, UnchangedType, FieldTypes DEF extraconfig
  <2>2. (\E l \in Labels : Then(l)) \/ Throws("config")
    BY <1>10, AllLabels DEF extraconfig
  <2> QED BY <1>1, <2>1, <2>2, ThenType, ThrowsType, TypeParts
<1>11. CASE roomdev
  <2>1. BackendTypeOK'
    BY <1>1, <1>11, SetterTypes, UnchangedType, FieldTypes DEF roomdev, get_stage_dev_throws
  <2>2. (\E l \in Labels : Then(l)) \/ Throws("config")
    BY <1>11, AllLabels DEF roomdev, get_stage_dev_throws
  <2> QED BY <1>1, <2>1, <2>2, ThenType, ThrowsType, TypeParts
<1>12. CASE audiocheck \/ restart_session_if_needed \/ wait \/ finish
  <2>1. \E l \in Labels : Then(l)
    BY <1>12, AllLabels DEF audiocheck, restart_session_if_needed, wait, finish
  <2>2. UNCHANGED backend
    BY <1>12 DEF audiocheck, restart_session_if_needed, wait, finish
  <2> QED BY <1>1, <2>1, <2>2, ThenType, UnchangedType, TypeParts
<1>13. CASE clear \/ report
  <2>1. ThreadTypeOK'
    <3>1. CASE clear
      BY <1>1, <3>1, AllLabels DEF ThreadTypeOK, clear, Goto, outside, report_error
    <3>2. CASE report
      BY <1>1, <3>2, AllLabels DEF ThreadTypeOK, report, Goto, outside, report_error
    <3> QED BY <1>13, <3>1, <3>2
  <2>2. UNCHANGED backend BY <1>13 DEF clear, report
  <2> QED BY <1>1, <2>1, <2>2, UnchangedType, TypeParts
<1> QED BY <1>2, <1>3, <1>4, <1>5, <1>6, <1>7, <1>8, <1>9, <1>10, <1>11, <1>12, <1>13

LEMMA OutsideType == ASSUME TypeOK, start_service \/ stop_service \/ Serve PROVE TypeOK'
<1>1. BackendTypeOK /\ ThreadTypeOK BY TypeParts
<1>2. UNCHANGED backend BY DEF start_service, stop_service, Serve
<1>3. ThreadTypeOK'
  <2>1. CASE start_service
    BY <1>1, <2>1, AllLabels DEF ThreadTypeOK, start_service, thread
  <2>2. CASE stop_service
    BY <1>1, <2>2, AllLabels DEF ThreadTypeOK, stop_service, thread
  <2>3. CASE Serve
    BY <1>1, <2>3, AllLabels, Assumptions DEF ThreadTypeOK, Serve, thread
  <2> QED BY <2>1, <2>2, <2>3
<1> QED BY <1>1, <1>2, <1>3, UnchangedType, TypeParts

LEMMA NextAfterCall ==
  ASSUME ends \/ stops \/ starts \/ session PROVE pc' # "relay"
<1>1. CASE ends BY <1>1, EndsLead DEF ends, Then, Goto
<1>2. CASE stops BY <1>2, StopsLead DEF stops, Then, Goto
<1>3. CASE starts BY <1>3, StartsLead DEF starts, Then, Throws, Throw, Goto
<1>4. CASE session BY <1>4 DEF session, Then, Throws, Throw, Goto
<1> QED BY <1>1, <1>2, <1>3, <1>4

LEMMA RelayKnownStep == RelayKnown /\ [Next]_vars => RelayKnown'
<1> SUFFICES ASSUME RelayKnown, [Next]_vars PROVE RelayKnown' OBVIOUS
<1> USE DEF RelayKnown, Then, Throws, Throw, Goto
<1>1. CASE boot \/ greet \/ (\E r \in Replies : poll(r))
  BY <1>1 DEF boot, greet, poll
<1>2. CASE ends \/ stops \/ starts \/ session BY <1>2, NextAfterCall
<1>3. CASE thisdev BY <1>3 DEF thisdev, get_stage_dev_throws, Throws, Throw, thread
<1>4. CASE audio BY <1>4 DEF audio, configure_audio_backend
<1>5. CASE parse \/ flag \/ reflag \/ relay \/ relayFlag \/ ambient
  BY <1>5 DEF parse, flag, reflag, relay, relayFlag, ambient
<1>6. CASE rendersettings \/ extraconfig \/ roomdev \/ audiocheck
  BY <1>6 DEF rendersettings, extraconfig, roomdev, get_stage_dev_throws, audiocheck
<1>7. CASE restart_session_if_needed \/ clear \/ report \/ wait \/ finish
  BY <1>7 DEF restart_session_if_needed, clear, report, wait, finish
<1>8. CASE start_service \/ stop_service \/ Serve
  BY <1>8 DEF start_service, stop_service, Serve, thread
<1>9. CASE UNCHANGED vars BY <1>9 DEF vars, thread
<1> QED BY <1>1, <1>2, <1>3, <1>4, <1>5, <1>6, <1>7, <1>8, <1>9 DEF Next, service, apply

LEMMA TypeStep == TypeOK /\ RelayKnown /\ [Next]_vars => TypeOK'
<1> SUFFICES ASSUME TypeOK, RelayKnown, [Next]_vars PROVE TypeOK' OBVIOUS
<1>1. CASE service
  BY <1>1, PollingType, CallType, ApplyType DEF service, apply
<1>2. CASE start_service \/ stop_service \/ Serve BY <1>2, OutsideType
<1>3. CASE UNCHANGED vars
  <2>1. UNCHANGED backend BY <1>3 DEF vars
  <2>2. ThreadTypeOK' BY <1>3, TypeParts DEF vars, thread, outside, ThreadTypeOK
  <2> QED BY <2>1, <2>2, UnchangedType, TypeParts
<1> QED BY <1>1, <1>2, <1>3 DEF Next

(* The service and the backend keep their types. *)
THEOREM TypeCorrect == Spec => []TypeOK
<1>1. Init => RelayKnown BY DEF Init, RelayKnown
<1> QED BY <1>1, InitType, TypeStep, RelayKnownStep, PTL DEF Spec

(***************************************************************************)
(* Order of session and audio backend.  NoLeak is not inductive alone: the *)
(* thread may start a session only where it knows that none is active, and *)
(* the audio backend must be up there, so what it knows at each label is   *)
(* part of the invariant.                                                  *)
(***************************************************************************)
AudioFirst == session_active => audio_active

Idle == {"aStop", "rStop", "finStop", "aStart", "rStart", "xStart", "sStart"}
Powered == {"session", "sEnd", "sStart"}

Ordered ==
  /\ NoLeak
  /\ AudioFirst
  /\ pc \in Idle => ~session_active
  /\ pc \in Powered => audio_active

quiet == <<session_active, audio_active, tascar, ovboxclient>>

(* What one step does to the objects, and that it maps to a step of the    *)
(* abstract module.                                                        *)
Good == Ordered' /\ [L!Next]_(L!lifecycle)

(* Steps that neither touch the objects nor lead to where more is known. *)
LEMMA QuietStep ==
  ASSUME Ordered, UNCHANGED quiet, pc' \notin Idle \cup Powered \/ pc' = pc
  PROVE  Good
BY DEF Good, Ordered, NoLeak, AudioFirst, quiet, L!lifecycle

LEMMA OrderedCalls ==
  ASSUME TypeOK, Ordered, ends \/ stops \/ starts \/ session PROVE Good
<1> USE DEF Good, Ordered, NoLeak, AudioFirst, Idle, Powered, Then, Throws, Throw, Goto,
           L!Next, L!lifecycle
<1>1. CASE ends
  <2>1. session_active' = FALSE /\ tascar' = FALSE /\ ovboxclient' = FALSE
        /\ audio_active' = audio_active
    BY <1>1 DEF ends, end_session
  <2>2. pc' \in Powered => pc = "sEnd" BY <1>1, EndsLead DEF ends
  <2>3. L!EndSession BY <2>1 DEF L!EndSession
  <2> QED BY <2>1, <2>2, <2>3
<1>2. CASE stops
  <2>1. audio_active' = FALSE /\ UNCHANGED <<session_active, tascar, ovboxclient>>
    BY <1>2 DEF stops, stop_audiobackend
  <2>2. pc \in Idle /\ pc' \notin Powered BY <1>2, StopsLead DEF stops
  <2>3. ~session_active /\ ~tascar BY <2>2
  <2>4. L!StopAudio BY <2>1, <2>3 DEF L!StopAudio
  <2> QED BY <2>1, <2>2, <2>3, <2>4
<1>3. CASE starts
  <2>1. audio_active' = TRUE /\ UNCHANGED <<session_active, tascar, ovboxclient>>
    BY <1>3 DEF starts, start_audiobackend, start_audiobackend_throws
  <2>2. pc \in Idle BY <1>3, StartsLead DEF starts
  <2>3. ~session_active /\ ~tascar BY <2>2
  <2>4. L!StartAudio BY <2>1, <2>3 DEF L!StartAudio
  <2> QED BY <2>1, <2>3, <2>4
<1>4. CASE session
  <2>1. ~session_active /\ ~tascar /\ audio_active BY <1>4 DEF session
  <2>2. session_active' = TRUE /\ audio_active' = audio_active
    BY <1>4 DEF session, start_session, start_session_throws, StartFlags
  <2>3. pc' \notin Idle \cup Powered BY <1>4 DEF session
  <2>4. tascar' = TRUE \/ UNCHANGED tascar \/ tascar' = FALSE
    BY <1>4 DEF session, start_session, start_session_throws
  <2>5. L!StartSession \/ UNCHANGED L!lifecycle
    BY <2>1, <2>2, <2>4 DEF L!StartSession, TypeOK, BackendTypeOK
  <2> QED BY <2>1, <2>2, <2>3, <2>5
<1> QED BY <1>1, <1>2, <1>3, <1>4

LEMMA OrderedApply ==
  ASSUME TypeOK, Ordered, apply PROVE Good
<1> USE DEF Idle, Powered, Then, Throws, Throw, Goto, quiet
<1>1. CASE ends \/ stops \/ starts \/ session BY <1>1, OrderedCalls
<1>2. CASE parse \/ ambient \/ clear \/ report
  <2>1. UNCHANGED quiet BY <1>2 DEF parse, ambient, clear, report, backend, flags
  <2>2. pc' \notin Idle \cup Powered BY <1>2 DEF parse, ambient, clear, report
  <2> QED BY <2>1, <2>2, QuietStep
<1>3. CASE audio
  <2>1. CASE devcfg.audio = Absent
    <3>1. UNCHANGED quiet /\ pc' = "thisdev" BY <1>3, <2>1 DEF audio, backend, flags
    <3> QED BY <3>1, QuietStep
  <2>2. CASE audiodevice = devcfg.audio /\ audio_active /\ devcfg.audio # Absent
    <3>1. UNCHANGED quiet /\ pc' = "flag"
      BY <1>3, <2>2 DEF audio, configure_audio_backend, backend, flags
    <3> QED BY <3>1, QuietStep
  <2>3. CASE ~(audiodevice = devcfg.audio /\ audio_active) /\ devcfg.audio # Absent
    <3>1. UNCHANGED <<session_active, tascar, ovboxclient>>
      BY <1>3, <2>3 DEF audio, configure_audio_backend
    <3>2. audio_active' = audio_active \/ (audio_active' = TRUE /\ ~audio_active)
      BY <1>3, <2>3 DEF audio, configure_audio_backend, TypeOK, BackendTypeOK
    <3>3. pc' \in Idle => ~session_active
      BY <1>3, <2>3 DEF audio, configure_audio_backend, Ordered, AudioFirst
    <3>4. pc' \notin Powered BY <1>3, <2>3 DEF audio, configure_audio_backend
    <3>5. Ordered'
      BY <3>1, <3>2, <3>3, <3>4 DEF Ordered, NoLeak, AudioFirst
    <3>6. [L!Next]_(L!lifecycle)
      BY <3>1, <3>2 DEF L!Next, L!StartAudio, L!lifecycle, Ordered, NoLeak, AudioFirst
    <3> QED BY <3>5, <3>6 DEF Good
  <2> QED BY <2>1, <2>2, <2>3
<1>4. CASE flag
  <2>1. UNCHANGED quiet /\ pc' \notin Powered BY <1>4 DEF flag, backend, flags
  <2>2. pc' \in Idle => ~session_active BY <1>4 DEF flag
  <2> QED BY <2>1, <2>2 DEF Good, Ordered, NoLeak, AudioFirst, L!lifecycle
<1>5. CASE reflag \/ relayFlag \/ thisdev \/ relay
  <2>1. UNCHANGED quiet
    BY <1>5 DEF reflag, relayFlag, thisdev, get_stage_dev_throws, relay, Untouched,
               set_thisdev, set_relay_server, backend, flags
  <2>2. pc' \notin Idle \cup Powered
    BY <1>5 DEF reflag, relayFlag, thisdev, get_stage_dev_throws, relay
  <2> QED BY <2>1, <2>2, QuietStep
<1>6. CASE rendersettings \/ extraconfig \/ roomdev
  <2>1. UNCHANGED quiet
    BY <1>6 DEF rendersettings, extraconfig, roomdev, get_stage_dev_throws, Untouched,
               set_render_settings, set_extra_config, set_stage, backend, flags
  <2>2. pc' \notin Idle \cup Powered
    BY <1>6 DEF rendersettings, extraconfig, roomdev, get_stage_dev_throws
  <2> QED BY <2>1, <2>2, QuietStep
<1>7. CASE audiocheck
  <2>1. UNCHANGED quiet /\ pc' = IF audio_active THEN "session" ELSE "xStart"
    BY <1>7 DEF audiocheck, backend, flags
  <2> QED BY <2>1 DEF Good, Ordered, NoLeak, AudioFirst, L!lifecycle
<1>8. CASE restart_session_if_needed
  <2>1. UNCHANGED quiet /\ audio_active
    BY <1>8 DEF restart_session_if_needed, backend, flags, Ordered
  <2>2. pc' \in Idle => ~session_active BY <1>8 DEF restart_session_if_needed
  <2> QED BY <2>1, <2>2 DEF Good, Ordered, NoLeak, AudioFirst, L!lifecycle
<1> QED BY <1>1, <1>2, <1>3, <1>4, <1>5, <1>6, <1>7, <1>8 DEF apply

LEMMA OrderedStep == TypeOK /\ Ordered /\ [Next]_vars => Good
<1> SUFFICES ASSUME TypeOK, Ordered, [Next]_vars PROVE Good OBVIOUS
<1> USE DEF Idle, Powered, Then, Throw, Goto, quiet
<1>1. CASE apply BY <1>1, OrderedApply
<1>2. CASE boot \/ greet \/ (\E r \in Replies : poll(r)) \/ wait
  <2>1. UNCHANGED quiet BY <1>2 DEF boot, greet, poll, wait, backend, flags
  <2>2. pc' \notin Idle \cup Powered BY <1>2 DEF boot, greet, poll, wait
  <2> QED BY <2>1, <2>2, QuietStep
<1>3. CASE finish
  <2>1. UNCHANGED quiet /\ pc' = IF session_active THEN "finEnd" ELSE "finStop"
    BY <1>3 DEF finish, backend, flags
  <2> QED BY <2>1 DEF Good, Ordered, NoLeak, AudioFirst, L!lifecycle
<1>4. CASE start_service \/ stop_service \/ Serve
  <2>1. UNCHANGED quiet /\ (pc' = pc \/ pc' = "boot")
    BY <1>4 DEF start_service, stop_service, Serve, backend, flags
  <2> QED BY <2>1, QuietStep
<1>5. CASE UNCHANGED vars
  <2>1. UNCHANGED quiet /\ pc' = pc BY <1>5 DEF vars, backend, flags
  <2> QED BY <2>1, QuietStep
<1> QED BY <1>1, <1>2, <1>3, <1>4, <1>5 DEF Next, service

LEMMA OrderedInvariant == Spec => []Ordered
<1>1. Init => Ordered
  BY DEF Init, BackendInit, Ordered, NoLeak, AudioFirst, Idle, Powered
<1>2. TypeOK /\ Ordered /\ [Next]_vars => Ordered' BY OrderedStep DEF Good
<1> QED BY <1>1, <1>2, TypeCorrect, PTL DEF Spec

(* No session that is not active leaves a renderer or client behind. *)
THEOREM NothingLeaks == Spec => []NoLeak
<1>1. Ordered => NoLeak BY DEF Ordered
<1> QED BY <1>1, OrderedInvariant, PTL

(* Session and audio backend are started and ended in the order the        *)
(* interface asks for, whatever fails.                                     *)
THEOREM LifecycleImplemented == Spec => ImplementsLifecycle
<1>1. Init => L!Init BY DEF Init, BackendInit, L!Init
<1>2. TypeOK /\ Ordered /\ [Next]_vars => [L!Next]_(L!lifecycle)
  BY OrderedStep DEF Good
<1> QED BY <1>1, <1>2, TypeCorrect, OrderedInvariant, PTL DEF Spec, ImplementsLifecycle, L!Spec

(***************************************************************************)
(* What a running session was built from.  Between two applications the    *)
(* invariant only has to speak of the end of one, but inside of an         *)
(* application a setting may be newer than the session as long as the      *)
(* request to restart it is pending, or the thread is about to end it.     *)
(***************************************************************************)
Rebuilt ==
  /\ loaded.stage = stage
  /\ loaded.audio = audiodevice \/ Manual(audiodevice)
  /\ ovboxclient = InRoom

Current ==
  /\ tascar => restart_needed \/ pc = "relayEnd" \/ Rebuilt
  /\ pc = "clear" /\ tascar => ~restart_needed
  /\ pc = "report" => fault # "none"
  /\ pc = "wait" /\ fault = "none" /\ ~quitrequest_ /\ tascar => ~restart_needed

(* A setting that keeps its value leaves the stage as it is. *)
LEMMA SameStage ==
  ASSUME BackendTypeOK
  PROVE  /\ [stage EXCEPT !.thisdevice = stage.thisdevice] = stage
         /\ [stage EXCEPT !.host = stage.host] = stage
         /\ [stage EXCEPT !.rendersettings = stage.rendersettings] = stage
         /\ [stage EXCEPT !.stage = stage.stage] = stage
BY DEF BackendTypeOK, Stage

(* Every setter leaves what a session is built from as it is, or asks for  *)
(* a restart; the list of devices matters only to a session that runs.     *)
KeepsOrAsks ==
  \/ restart_needed' = TRUE
  \/ UNCHANGED <<restart_needed, stage>>

LEMMA SetterAsks ==
  ASSUME BackendTypeOK
  PROVE  /\ \A v \in Value : set_thisdev(v) => KeepsOrAsks
         /\ \A v \in Value : set_render_settings(v) => KeepsOrAsks
         /\ \A d \in SUBSET DevId : set_stage(d) /\ session_active => KeepsOrAsks
<1> USE DEF KeepsOrAsks, RestartIf, BackendTypeOK
<1>1. ASSUME NEW v \in Value, set_thisdev(v) PROVE KeepsOrAsks
  <2>1. CASE v = stage.thisdevice BY <1>1, <2>1, SameStage DEF set_thisdev
  <2>2. CASE v # stage.thisdevice BY <1>1, <2>2 DEF set_thisdev
  <2> QED BY <2>1, <2>2
<1>2. ASSUME NEW v \in Value, set_render_settings(v) PROVE KeepsOrAsks
  <2>1. CASE v = stage.rendersettings BY <1>2, <2>1, SameStage DEF set_render_settings
  <2>2. CASE v # stage.rendersettings BY <1>2, <2>2 DEF set_render_settings
  <2> QED BY <2>1, <2>2
<1>3. ASSUME NEW d \in SUBSET DevId, set_stage(d), session_active PROVE KeepsOrAsks
  <2>1. CASE d = stage.stage BY <1>3, <2>1, SameStage DEF set_stage
  <2>2. CASE d # stage.stage BY <1>3, <2>2 DEF set_stage
  <2> QED BY <2>1, <2>2
<1> QED BY <1>1, <1>2, <1>3

LEMMA CurrentCalls ==
  ASSUME TypeOK, Ordered, Current, ends \/ stops \/ starts \/ session PROVE Current'
<1> USE DEF Current, Then, Throws, Throw, Goto, thread
<1>1. CASE ends
  <2>1. ~tascar' BY <1>1 DEF ends, end_session
  <2>2. pc' # "report" BY <1>1, EndsLead DEF ends
  <2> QED BY <2>1, <2>2
<1>2. CASE stops
  <2>1. ~tascar' BY <1>2, StopsLead DEF stops, stop_audiobackend, Ordered, NoLeak, Idle
  <2>2. pc' # "report" BY <1>2, StopsLead DEF stops
  <2> QED BY <2>1, <2>2
<1>3. CASE starts
  <2>1. ~tascar'
    BY <1>3, StartsLead DEF starts, start_audiobackend, start_audiobackend_throws,
       Ordered, NoLeak, Idle
  <2>2. pc' = "report" => fault' # "none" BY <1>3, StartsLead DEF starts
  <2> QED BY <2>1, <2>2
<1>4. CASE session
  <2>1. ~tascar /\ ~ovboxclient BY <1>4 DEF session, Ordered, NoLeak, Idle
  <2>2. CASE start_session /\ Then("clear")
    <3>1. restart_needed' = FALSE /\ pc' = "clear" BY <2>2 DEF start_session, StartFlags
    <3>2. Rebuilt'
      BY <2>1, <2>2 DEF start_session, Rebuilt, InRoom, StageAsBuilt, TypeOK,
         BackendTypeOK, Stage
    <3> QED BY <3>1, <3>2
  <2>3. CASE start_session_throws /\ Throws("start")
    <3>1. ~tascar' BY <2>1, <2>3 DEF start_session_throws
    <3> QED BY <2>3, <3>1
  <2> QED BY <1>4, <2>2, <2>3 DEF session
<1> QED BY <1>1, <1>2, <1>3, <1>4

(* A step of an application that keeps or asks, while no end of a session  *)
(* is pending.                                                             *)
LEMMA CurrentKept ==
  ASSUME Current, KeepsOrAsks, pc # "relayEnd",
         UNCHANGED <<tascar, ovboxclient, audiodevice, loaded>>,
         pc' \notin {"clear", "report", "wait"}
  PROVE  Current'
BY DEF Current, KeepsOrAsks, Rebuilt, Manual, InRoom

(* A description of a device that cannot be read changes nothing.          *)
LEMMA CurrentThrown ==
  ASSUME Current, get_stage_dev_throws, pc # "relayEnd" PROVE Current'
BY DEF Current, get_stage_dev_throws, Throws, Throw, Goto, Rebuilt, Manual, InRoom, backend,
   flags, settings

LEMMA CurrentApply ==
  ASSUME TypeOK, Ordered, Current, apply PROVE Current'
<1> USE DEF Then, Throws, Throw, Goto
<1>1. CASE ends \/ stops \/ starts \/ session BY <1>1, CurrentCalls
<1>2. CASE parse
  BY <1>2 DEF Current, parse, Rebuilt, Manual, InRoom, backend, flags, settings
<1>3. CASE audio
  <2> USE DEF Current, Rebuilt, Manual, InRoom, thread
  <2>1. CASE devcfg.audio = Absent
    BY <1>3, <2>1 DEF audio, backend, flags, settings
  <2>2. CASE devcfg.audio # Absent /\ audiodevice = devcfg.audio /\ audio_active
    BY <1>3, <2>2 DEF audio, configure_audio_backend, backend, flags, settings
  <2>3. CASE devcfg.audio # Absent /\ ~(audiodevice = devcfg.audio /\ audio_active)
    <3>1. UNCHANGED <<tascar, ovboxclient, stage, loaded>>
          /\ audiodevice' = devcfg.audio /\ pc' \in {"flag", "aStart", "aEnd", "aStop"}
      BY <1>3, <2>3 DEF audio, configure_audio_backend
    <3>2. restart_needed' = restart_needed \/ restart_needed' = TRUE
      BY <1>3, <2>3 DEF audio, configure_audio_backend, RestartIf, TypeOK, BackendTypeOK
    <3>3. tascar => restart_needed' = TRUE \/ Manual(devcfg.audio)
      BY <1>3, <2>3 DEF audio, configure_audio_backend, RestartIf, Ordered, NoLeak,
         AudioFirst
    <3> QED BY <1>3, <3>1, <3>2, <3>3 DEF audio
  <2> QED BY <2>1, <2>2, <2>3
<1>4. CASE flag \/ audiocheck
  BY <1>4 DEF Current, flag, audiocheck, Rebuilt, Manual, InRoom, backend, flags, settings
<1>5. CASE reflag \/ relayFlag
  <2>1. KeepsOrAsks
    BY <1>5 DEF reflag, relayFlag, RestartIf, KeepsOrAsks, settings, TypeOK, BackendTypeOK
  <2>2. UNCHANGED <<tascar, ovboxclient, audiodevice, loaded>>
    BY <1>5 DEF reflag, relayFlag, Untouched, settings
  <2> QED BY <1>5, <2>1, <2>2, CurrentKept DEF reflag, relayFlag
<1>6. CASE thisdev
  <2>1. CASE get_stage_dev_throws BY <1>6, <2>1, CurrentThrown DEF thisdev
  <2>2. CASE ~get_stage_dev_throws
    <3>1. KeepsOrAsks
      BY <1>6, <2>2, SetterAsks, FieldTypes, TypeParts DEF thisdev, KeepsOrAsks, backend,
         flags, settings
    <3>2. UNCHANGED <<tascar, ovboxclient, audiodevice, loaded>>
      BY <1>6, <2>2 DEF thisdev, set_thisdev, Untouched, backend, flags, settings
    <3> QED BY <1>6, <2>2, <3>1, <3>2, CurrentKept DEF thisdev
  <2> QED BY <2>1, <2>2
<1>7. CASE relay
  <2>1. UNCHANGED <<tascar, restart_needed, ovboxclient, audiodevice, loaded>>
    BY <1>7 DEF relay, set_relay_server, Untouched
  <2>2. CASE pc' = "relayEnd" BY <2>1, <2>2, <1>7 DEF Current, relay
  <2>3. CASE tascar /\ pc' # "relayEnd"
    <3>1. stage.host = devcfg.host BY <1>7, <2>3 DEF relay, Ordered, NoLeak
    <3>2. stage' = stage
      BY <1>7, <3>1, SameStage DEF relay, set_relay_server, TypeOK
    <3> QED BY <1>7, <2>1, <2>3, <3>2, CurrentKept DEF KeepsOrAsks, relay
  <2>4. CASE ~tascar BY <1>7, <2>1, <2>4 DEF Current, relay
  <2> QED BY <2>2, <2>3, <2>4
<1>8. CASE ambient
  BY <1>8 DEF Current, ambient, Rebuilt, Manual, InRoom, backend, flags, settings
<1>9. CASE rendersettings
  <2>1. KeepsOrAsks BY <1>9, SetterAsks, FieldTypes, TypeParts DEF rendersettings
  <2>2. UNCHANGED <<tascar, ovboxclient, audiodevice, loaded>>
    BY <1>9 DEF rendersettings, set_render_settings, Untouched
  <2> QED BY <1>9, <2>1, <2>2, CurrentKept DEF rendersettings
<1>10. CASE extraconfig
  <2>1. UNCHANGED <<tascar, ovboxclient, audiodevice, stage, loaded>>
    BY <1>10 DEF extraconfig, set_extra_config, Untouched, backend, flags, settings
  <2>2. restart_needed' = restart_needed \/ restart_needed' = TRUE
    BY <1>10 DEF extraconfig, set_extra_config, RestartIf, TypeOK, BackendTypeOK, backend,
       flags
  <2>3. pc' = "stage" \/ (pc' = "report" /\ fault' = "config") BY <1>10 DEF extraconfig
  <2> QED BY <1>10, <2>1, <2>2, <2>3 DEF Current, Rebuilt, Manual, InRoom, extraconfig
<1>11. CASE roomdev
  <2>1. CASE get_stage_dev_throws BY <1>11, <2>1, CurrentThrown DEF roomdev
  <2>2. CASE ~get_stage_dev_throws
    <3>1. tascar => KeepsOrAsks
      BY <1>11, <2>2, SetterAsks, FieldTypes, TypeParts DEF roomdev, KeepsOrAsks, backend,
         flags, settings, Ordered, NoLeak
    <3>2. UNCHANGED <<tascar, ovboxclient, audiodevice, loaded>>
      BY <1>11, <2>2 DEF roomdev, set_stage, Untouched, backend, flags, settings
    <3>3. CASE tascar BY <1>11, <2>2, <3>1, <3>2, <3>3, CurrentKept DEF roomdev
    <3>4. CASE ~tascar BY <1>11, <2>2, <3>2, <3>4 DEF Current, roomdev
    <3> QED BY <3>3, <3>4
  <2> QED BY <2>1, <2>2
<1>12. CASE restart_session_if_needed
  BY <1>12 DEF Current, restart_session_if_needed, Rebuilt, Manual, InRoom, backend,
     flags, settings, Ordered, NoLeak
<1>13. CASE clear
  BY <1>13 DEF Current, clear, Rebuilt, Manual, InRoom, backend, flags, settings
<1>14. CASE report
  BY <1>14 DEF Current, report, Rebuilt, Manual, InRoom, backend, flags, settings
<1> QED BY <1>1, <1>2, <1>3, <1>4, <1>5, <1>6, <1>7, <1>8, <1>9, <1>10, <1>11, <1>12,
           <1>13, <1>14 DEF apply

LEMMA CurrentStep == TypeOK /\ Ordered /\ Current /\ [Next]_vars => Current'
<1> SUFFICES ASSUME TypeOK, Ordered, Current, [Next]_vars PROVE Current' OBVIOUS
<1>1. CASE apply BY <1>1, CurrentApply
<1> USE DEF Current, Rebuilt, Manual, InRoom, Then, Throw, Goto, backend, flags, settings
<1>2. CASE boot \/ greet
  <2>1. UNCHANGED backend /\ pc' \in {"aborted", "greet", "poll", "off"}
    BY <1>2 DEF boot, greet
  <2> QED BY <2>1, <1>2 DEF boot, greet
<1>6. CASE wait \/ finish BY <1>6 DEF wait, finish, thread
<1>3. CASE \E r \in Replies : poll(r) BY <1>3 DEF poll, Replies
<1>4. CASE start_service \/ stop_service \/ Serve
  BY <1>4 DEF start_service, stop_service, Serve, thread
<1>5. CASE UNCHANGED vars BY <1>5 DEF vars, thread
<1> QED BY <1>1, <1>2, <1>3, <1>4, <1>5, <1>6 DEF Next, service

LEMMA CurrentInvariant == Spec => []Current
<1>1. Init => Current BY DEF Init, BackendInit, Current
<1> QED BY <1>1, CurrentStep, TypeCorrect, OrderedInvariant, PTL DEF Spec

(* After an application that completed, a running session was built from   *)
(* the current settings, whatever threw on the way and whichever request   *)
(* was pending before.                                                     *)
THEOREM RunsCurrent == Spec => []RunsConfig
<1>1. Current => RunsConfig BY DEF Current, RunsConfig, Rebuilt
<1> QED BY <1>1, CurrentInvariant, PTL

(***************************************************************************)
(* A settled session is left alone.  This needs that no other audio server *)
(* runs, whose sampling rate would replace the requested one at every      *)
(* start, and that every list of devices names this device, which building *)
(* a session adds to it: otherwise the backend never holds what the        *)
(* configuration asks for, and every application finds a difference.       *)
(***************************************************************************)
OnlyServer == OtherRates = {}
OwnListed == \A c \in Configs \cup Files : c.devs # Absent => Own \in c.devs

(* The labels behind each part of an application. *)
PastDevs == {"audiocheck", "xStart", "session", "sEnd", "sStart", "clear"}
PastExtra == PastDevs \cup {"stage"}
PastSettings == PastExtra \cup {"extra"}
PastRelay == PastSettings \cup {"relayEnd", "relayFlag", "ambient", "settings"}
PastDev == PastRelay \cup {"relay"}
PastAudio == PastDev \cup {"aEnd", "aStop", "aStart", "flag", "rEnd", "rStop", "rStart",
                           "reflag", "thisdev"}

HasHost == devcfg.host # Absent

(* The backend holds what the configuration asks for, as far as it was     *)
(* applied; all of it when it did not change since.                        *)
Taken ==
  /\ ~dirty \/ pc \in PastAudio => devcfg.audio \in {Absent, audiodevice}
  /\ ~dirty \/ pc \in PastDev => devcfg.dev \in {Absent, stage.thisdevice}
  /\ ~dirty \/ pc \in PastRelay => devcfg.host \in {Absent, stage.host}
  /\ (~dirty \/ pc \in PastSettings) /\ HasHost => devcfg.settings = stage.rendersettings
  /\ (~dirty \/ pc \in PastExtra) /\ HasHost => devcfg.extra \in {Absent, extra}
  /\ (~dirty \/ pc \in PastDevs) /\ HasHost => devcfg.devs \in {Absent, stage.stage}

(* Why the thread is where it ends a session. *)
Reason ==
  /\ tascar /\ ~dirty => ~restart_needed
  /\ pc = "clear" /\ tascar => ~restart_needed
  /\ pc = "sEnd" => restart_needed
  /\ pc \in {"aEnd", "relayEnd"} => dirty
  /\ pc \in {"reflag", "relayFlag"} => ~session_active
  /\ pc \in {"finEnd", "finStop"} => ~runservice
  /\ pc = "rEnd" => On(devcfg.restart)
  /\ pc \in {"relayEnd", "relayFlag", "ambient", "settings", "extra", "stage"} => HasHost

DevsListed == devcfg.devs # Absent => Own \in devcfg.devs

LEMMA DevsListedStep ==
  ASSUME OwnListed, TypeOK, DevsListed, [Next]_vars PROVE DevsListed'
<1> USE DEF DevsListed
<1>1. ASSUME NEW old \in Config, NEW new \in Config,
             old.devs # Absent => Own \in old.devs, new.devs # Absent => Own \in new.devs
      PROVE  LET m == Merge(old, new) IN m.devs # Absent => Own \in m.devs
  BY <1>1 DEF Merge, Config
<1>2. served \in Config /\ served \in Configs /\ devcfg \in Config
  BY Assumptions DEF TypeOK
<1>3. served.devs # Absent => Own \in served.devs BY <1>2 DEF OwnListed
<1>4. CASE boot
  <2>1. PICK f \in Files, r \in Replies : device_update(r, Merge(devcfg, f))
    BY <1>4 DEF boot
  <2>2. f \in Config /\ (f.devs # Absent => Own \in f.devs)
    BY Assumptions DEF OwnListed
  <2>3. Merge(devcfg, f) \in Config BY <1>2, <2>2, MergeType
  <2> QED BY <1>1, <1>2, <1>3, <2>1, <2>2, <2>3 DEF device_update
<1>5. CASE \E r \in Replies : poll(r)
  BY <1>1, <1>2, <1>3, <1>5 DEF poll, device_update
<1>6. CASE UNCHANGED devcfg BY <1>6
<1>7. boot \/ (\E r \in Replies : poll(r)) \/ UNCHANGED devcfg
  BY DEF Next, service, apply, greet, wait, finish, start_service, stop_service, Serve,
     vars, thread, parse, audio, configure_audio_backend, flag, reflag, thisdev, relay,
     relayFlag, ambient, rendersettings, extraconfig, roomdev, get_stage_dev_throws, audiocheck,
     restart_session_if_needed, session, clear, report, ends, stops, starts, Then, Throws
<1> QED BY <1>4, <1>5, <1>6, <1>7

(* Steps outside of an application. *)
LEMMA TakenOutside ==
  ASSUME TypeOK, Taken, Reason,
         \/ boot \/ greet \/ (\E r \in Replies : poll(r)) \/ wait \/ finish
         \/ start_service \/ stop_service \/ Serve
  PROVE  Taken' /\ Reason'
<1> USE DEF Taken, Reason, HasHost, PastAudio, PastDev, PastRelay, PastSettings, PastExtra,
           PastDevs, backend, flags, settings, outside, thread, Then, Throw, Goto
<1>1. CASE boot BY <1>1 DEF boot
<1>2. CASE greet BY <1>2 DEF greet
<1>3. ASSUME NEW r \in Replies, poll(r) PROVE Taken' /\ Reason'
  <2>1. UNCHANGED backend /\ runservice BY <1>3 DEF poll
  <2>2. ~dirty' => ~dirty /\ devcfg' = devcfg BY <1>3 DEF poll
  <2>3. pc' \in {"poll", "report", "parse"} BY <1>3 DEF poll
  <2>4. Taken' BY <2>1, <2>2, <2>3
  <2>5. Reason' BY <2>1, <2>2, <2>3
  <2> QED BY <2>4, <2>5
<1>4. CASE wait BY <1>4 DEF wait
<1>5. CASE finish BY <1>5 DEF finish
<1>6. CASE start_service BY <1>6 DEF start_service
<1>7. CASE stop_service BY <1>7 DEF stop_service
<1>8. CASE Serve BY <1>8 DEF Serve
<1> QED BY <1>1, <1>2, <1>3, <1>4, <1>5, <1>6, <1>7, <1>8

LEMMA TakenCalls ==
  ASSUME OnlyServer, DevsListed, TypeOK, Ordered, Taken, Reason,
         ends \/ stops \/ starts \/ session
  PROVE  Taken' /\ Reason'
<1> USE DEF Taken, Reason, HasHost, PastAudio, PastDev, PastRelay, PastSettings, PastExtra,
           PastDevs, settings, outside, thread, Then, Throws, Throw, Goto
<1>1. CASE ends BY <1>1, EndsLead DEF ends, end_session
<1>2. CASE stops BY <1>2, StopsLead DEF stops, stop_audiobackend, Ordered, NoLeak, Idle
<1>3. CASE starts
  <2>1. ~session_active /\ ~tascar BY <1>3, StartsLead DEF starts, Ordered, NoLeak, Idle
  <2>2. [audiodevice EXCEPT !.rate = audiodevice.rate] = audiodevice
    BY DEF TypeOK, BackendTypeOK, Audio
  <2>3. UNCHANGED <<session_active, tascar, restart_needed, audiodevice, stage, extra>>
    BY <1>3, <2>2 DEF starts, start_audiobackend, start_audiobackend_throws, OnlyServer
  <2> QED BY <1>3, <2>1, <2>3, StartsLead DEF starts
<1>4. CASE session
  <2>1. ~tascar BY <1>4 DEF session, Ordered, NoLeak, Idle
  <2>2. stage' = StageAsBuilt /\ UNCHANGED <<audiodevice, extra>>
    BY <1>4 DEF session, start_session, start_session_throws
  <2>3. restart_needed' = FALSE
    BY <1>4 DEF session, start_session, start_session_throws, StartFlags
  <2>4. UNCHANGED devcfg /\ UNCHANGED dirty /\ pc' \in {"clear", "report"} BY <1>4 DEF session
  <2>5. stage'.thisdevice = stage.thisdevice /\ stage'.host = stage.host
        /\ stage'.rendersettings = stage.rendersettings
    BY <2>2 DEF StageAsBuilt, TypeOK, BackendTypeOK, Stage
  <2>6. Own \in stage.stage => stage'.stage = stage.stage
    BY <2>2 DEF StageAsBuilt, TypeOK, BackendTypeOK, Stage
  <2>7. Taken' BY <1>4, <2>2, <2>4, <2>5, <2>6 DEF session, DevsListed
  <2>8. Reason' BY <1>4, <2>3, <2>4 DEF session
  <2> QED BY <2>7, <2>8
<1> QED BY <1>1, <1>2, <1>3, <1>4

LEMMA TakenApply ==
  ASSUME OnlyServer, DevsListed, TypeOK, RelayKnown, Ordered, Taken, Reason, apply
  PROVE  Taken' /\ Reason'
<1> USE DEF Taken, Reason, HasHost, PastAudio, PastDev, PastRelay, PastSettings, PastExtra,
           PastDevs, backend, flags, settings, outside, thread, Untouched, RestartIf,
           Then, Throws, Throw, Goto
<1>1. CASE ends \/ stops \/ starts \/ session BY <1>1, TakenCalls
<1>2. CASE parse BY <1>2 DEF parse
<1>3. CASE audio
  <2>1. CASE devcfg.audio = Absent BY <1>3, <2>1 DEF audio
  <2>2. CASE devcfg.audio # Absent /\ audiodevice = devcfg.audio /\ audio_active
    BY <1>3, <2>2 DEF audio, configure_audio_backend
  <2>3. CASE devcfg.audio # Absent /\ ~(audiodevice = devcfg.audio /\ audio_active)
    <3>1. UNCHANGED <<thread, stage, extra, tascar>> /\ audiodevice' = devcfg.audio
          /\ pc' \in {"flag", "aStart", "aEnd", "aStop"}
      BY <1>3, <2>3 DEF audio, configure_audio_backend
    <3>2. pc' = "aEnd" => dirty BY <1>3, <2>3 DEF audio, configure_audio_backend
    <3>3. tascar => dirty BY <2>3 DEF Ordered, NoLeak, AudioFirst
    <3>4. Taken' BY <1>3, <3>1 DEF audio
    <3>5. Reason' BY <1>3, <3>1, <3>2, <3>3 DEF audio
    <3> QED BY <3>4, <3>5
  <2> QED BY <2>1, <2>2, <2>3
<1>4. CASE flag BY <1>4 DEF flag
<1>5. CASE reflag BY <1>5 DEF reflag, Ordered, NoLeak
<1>6. CASE relayFlag BY <1>6 DEF relayFlag, Ordered, NoLeak
<1>7. CASE thisdev
  <2>1. CASE devcfg.dev = Absent BY <1>7, <2>1 DEF thisdev
  <2>2. CASE devcfg.dev # Absent /\ ~get_stage_dev_throws
    <3>1. stage'.thisdevice = devcfg.dev /\ stage'.host = stage.host
          /\ stage'.rendersettings = stage.rendersettings /\ stage'.stage = stage.stage
      BY <1>7, <2>2 DEF thisdev, set_thisdev, TypeOK, BackendTypeOK, Stage
    <3>2. Taken' BY <1>7, <2>2, <3>1 DEF thisdev, set_thisdev
    <3>3. Reason' BY <1>7, <2>2 DEF thisdev, set_thisdev
    <3> QED BY <3>2, <3>3
  <2>3. CASE get_stage_dev_throws BY <1>7, <2>3 DEF thisdev, get_stage_dev_throws
  <2> QED BY <2>1, <2>2, <2>3
<1>8. CASE relay
  <2>1. HasHost BY <1>8 DEF relay, RelayKnown
  <2>2. stage'.host = devcfg.host /\ stage'.thisdevice = stage.thisdevice
        /\ stage'.rendersettings = stage.rendersettings /\ stage'.stage = stage.stage
    BY <1>8 DEF relay, set_relay_server, TypeOK, BackendTypeOK, Stage
  <2>3. Taken' BY <1>8, <2>1, <2>2 DEF relay, set_relay_server
  <2>4. Reason' BY <1>8, <2>1 DEF relay, set_relay_server
  <2> QED BY <2>3, <2>4
<1>9. CASE ambient BY <1>9 DEF ambient
<1>10. CASE rendersettings
  <2>1. stage'.host = stage.host /\ stage'.thisdevice = stage.thisdevice
        /\ stage'.rendersettings = devcfg.settings /\ stage'.stage = stage.stage
    BY <1>10 DEF rendersettings, set_render_settings, TypeOK, BackendTypeOK, Stage
  <2>2. Taken' BY <1>10, <2>1 DEF rendersettings, set_render_settings
  <2>3. Reason' BY <1>10 DEF rendersettings, set_render_settings
  <2> QED BY <2>2, <2>3
<1>11. CASE extraconfig
  <2>1. CASE devcfg.extra = Absent BY <1>11, <2>1 DEF extraconfig
  <2>2. CASE devcfg.extra # Absent BY <1>11, <2>2 DEF extraconfig, set_extra_config
  <2> QED BY <2>1, <2>2
<1>12. CASE roomdev
  <2>1. CASE devcfg.devs = Absent BY <1>12, <2>1 DEF roomdev
  <2>2. CASE devcfg.devs # Absent /\ ~get_stage_dev_throws
    <3>1. stage'.host = stage.host /\ stage'.thisdevice = stage.thisdevice
          /\ stage'.rendersettings = stage.rendersettings /\ stage'.stage = devcfg.devs
      BY <1>12, <2>2 DEF roomdev, set_stage, TypeOK, BackendTypeOK, Stage
    <3>2. Taken' BY <1>12, <2>2, <3>1 DEF roomdev, set_stage
    <3>3. Reason' BY <1>12, <2>2 DEF roomdev, set_stage
    <3> QED BY <3>2, <3>3
  <2>3. CASE get_stage_dev_throws BY <1>12, <2>3 DEF roomdev, get_stage_dev_throws
  <2> QED BY <2>1, <2>2, <2>3
<1>13. CASE audiocheck BY <1>13 DEF audiocheck
<1>14. CASE restart_session_if_needed BY <1>14 DEF restart_session_if_needed, Ordered, NoLeak
<1>15. CASE clear BY <1>15 DEF clear
<1>16. CASE report BY <1>16 DEF report
<1> QED BY <1>1, <1>2, <1>3, <1>4, <1>5, <1>6, <1>7, <1>8, <1>9, <1>10, <1>11, <1>12,
           <1>13, <1>14, <1>15, <1>16 DEF apply

SettledInv == OnlyServer /\ OwnListed => DevsListed /\ Taken /\ Reason

LEMMA SettledStep ==
  TypeOK /\ RelayKnown /\ Ordered /\ SettledInv /\ [Next]_vars => SettledInv'
<1> SUFFICES ASSUME TypeOK, RelayKnown, Ordered, OnlyServer, OwnListed, DevsListed, Taken,
                    Reason, [Next]_vars
             PROVE  DevsListed' /\ Taken' /\ Reason'
  BY DEF SettledInv, OnlyServer, OwnListed
<1>1. DevsListed' BY DevsListedStep
<1>2. Taken' /\ Reason'
  <2>1. CASE apply BY <2>1, TakenApply
  <2>2. CASE boot \/ greet \/ (\E r \in Replies : poll(r)) \/ wait \/ finish
    BY <2>2, TakenOutside
  <2>3. CASE start_service \/ stop_service \/ Serve BY <2>3, TakenOutside
  <2>4. CASE UNCHANGED vars
    BY <2>4 DEF vars, thread, outside, backend, flags, settings, Taken, Reason, HasHost,
       PastAudio, PastDev, PastRelay, PastSettings, PastExtra, PastDevs
  <2> QED BY <2>1, <2>2, <2>3, <2>4 DEF Next, service
<1> QED BY <1>1, <1>2

(* Where a session ends, there is a reason. *)
LEMMA EndsForAReason ==
  ASSUME TypeOK, Ordered, Reason, [Next]_vars, tascar, ~tascar'
  PROVE  dirty \/ On(devcfg.restart) \/ ~runservice
<1>1. CASE ends BY <1>1, EndsLead DEF ends, Reason
<1>2. CASE session BY <1>2 DEF session, Ordered, NoLeak, Idle
<1>3. CASE stops BY <1>3 DEF stops, stop_audiobackend
<1>4. CASE starts BY <1>4 DEF starts, start_audiobackend, start_audiobackend_throws
<1>5. ends \/ session \/ stops \/ starts \/ UNCHANGED tascar
  BY DEF Next, service, apply, boot, greet, poll, wait, finish, start_service,
     stop_service, Serve, vars, backend, flags, parse, audio, configure_audio_backend,
     flag, reflag, thisdev, get_stage_dev_throws, set_thisdev, relay, set_relay_server,
     relayFlag, ambient, rendersettings, set_render_settings, extraconfig, set_extra_config, roomdev, set_stage,
     audiocheck, restart_session_if_needed, clear, report, Untouched
<1> QED BY <1>1, <1>2, <1>3, <1>4, <1>5

(* When no other audio server runs and the lists of devices name this      *)
(* device, a running session is only torn down for a reason, although      *)
(* every poll applies the whole configuration anew.                        *)
THEOREM SessionKept ==
  Spec => (OnlyServer /\ OwnListed => SettledSessionKept)
<1> SUFFICES ASSUME OnlyServer, OwnListed PROVE Spec => SettledSessionKept OBVIOUS
<1>1. Init => RelayKnown /\ SettledInv
  BY DEF Init, BackendInit, RelayKnown, SettledInv, DevsListed, Taken, Reason, HasHost,
     NoConfig, PastAudio, PastDev, PastRelay, PastSettings, PastExtra, PastDevs
<1>2. TypeOK /\ Ordered /\ SettledInv /\ [Next]_vars
        => [tascar /\ ~tascar' => dirty \/ On(devcfg.restart) \/ ~runservice]_vars
  BY EndsForAReason DEF SettledInv
<1> QED
  BY <1>1, <1>2, SettledStep, RelayKnownStep, TypeCorrect, OrderedInvariant, PTL
     DEF Spec, SettledSessionKept
(***************************************************************************)
(* The end of the service.  Once it is told to stop, the thread only goes  *)
(* on with the application it is in; each of its steps leads nearer to the *)
(* end.                                                                    *)
(***************************************************************************)
StepsLeft ==
  [off |-> 0, aborted |-> 0, finStop |-> 1, finEnd |-> 2, poll |-> 3, greet |-> 4,
   boot |-> 5, wait |-> 4, report |-> 5, clear |-> 5, sStart |-> 6, sEnd |-> 7,
   session |-> 8, xStart |-> 9, audiocheck |-> 10, stage |-> 11, extra |-> 12,
   settings |-> 13, ambient |-> 14, relayFlag |-> 15, relayEnd |-> 16, relay |-> 17,
   thisdev |-> 18, reflag |-> 19, rStart |-> 20, rStop |-> 21, rEnd |-> 22,
   flag |-> 23, aStart |-> 24, aStop |-> 25, aEnd |-> 26, audio |-> 27, parse |-> 28]

Nearer == StepsLeft[pc'] < StepsLeft[pc]

LEMMA CallsNearer == ASSUME ends \/ stops \/ starts \/ session PROVE Nearer
<1> USE DEF Nearer, StepsLeft, Then, Throws, Throw, Goto
<1>1. CASE ends BY <1>1, EndsLead DEF ends
<1>2. CASE stops BY <1>2, StopsLead DEF stops
<1>3. CASE starts BY <1>3, StartsLead DEF starts
<1>4. CASE session BY <1>4 DEF session
<1> QED BY <1>1, <1>2, <1>3, <1>4

LEMMA ServiceNearer == ASSUME ~runservice, service PROVE Nearer
<1> USE DEF Nearer, StepsLeft, Then, Throws, Throw, Goto
<1>1. CASE boot BY <1>1 DEF boot
<1>2. CASE greet
  <2>1. pc = "greet" /\ pc' \in {"poll", "off"} BY <1>2 DEF greet
  <2> QED BY <2>1
<1>3. ~(\E r \in Replies : poll(r)) BY DEF poll
<1>4. CASE ends \/ stops \/ starts \/ session BY <1>4, CallsNearer
<1>5. CASE parse BY <1>5 DEF parse
<1>6. CASE audio BY <1>6 DEF audio, configure_audio_backend
<1>7. CASE flag \/ reflag \/ thisdev BY <1>7 DEF flag, reflag, thisdev, get_stage_dev_throws
<1>8. CASE relay \/ relayFlag \/ ambient
  <2>1. CASE relay BY <2>1 DEF relay
  <2>2. CASE relayFlag BY <2>2 DEF relayFlag
  <2>3. CASE ambient BY <2>3 DEF ambient
  <2> QED BY <1>8, <2>1, <2>2, <2>3
<1>9. CASE rendersettings \/ extraconfig \/ roomdev
  BY <1>9 DEF rendersettings, extraconfig, roomdev, get_stage_dev_throws
<1>10. CASE audiocheck \/ restart_session_if_needed
  BY <1>10 DEF audiocheck, restart_session_if_needed
<1>11. CASE clear \/ report \/ wait \/ finish
  <2>1. CASE clear
    <3>1. pc = "clear" /\ pc' = "wait" BY <2>1 DEF clear
    <3> QED BY <3>1
  <2>2. CASE report BY <2>2 DEF report
  <2>3. CASE wait \/ finish BY <2>3 DEF wait, finish
  <2> QED BY <1>11, <2>1, <2>2, <2>3
<1> QED
  BY <1>1, <1>2, <1>3, <1>4, <1>5, <1>6, <1>7, <1>8, <1>9, <1>10, <1>11
     DEF service, apply

(* Before the first application and after the last step nothing runs.      *)
NothingRuns ==
  pc \in {"off", "aborted", "boot", "greet"} => ~tascar /\ ~ovboxclient /\ ~h_jack

LEMMA NothingRunsStep == Ordered /\ NothingRuns /\ [Next]_vars => NothingRuns'
<1> SUFFICES ASSUME Ordered, NothingRuns, [Next]_vars PROVE NothingRuns' OBVIOUS
<1> USE DEF Then, Throws, Throw, Goto
<1> DEFINE Out == {"off", "aborted", "boot", "greet"}
<1>1. CASE boot \/ greet
  <2>1. pc \in Out /\ UNCHANGED <<tascar, ovboxclient, h_jack>>
    BY <1>1 DEF boot, greet, backend
  <2> QED BY <2>1 DEF NothingRuns
<1>2. CASE stops
  <2>1. CASE pc = "finStop"
    <3>1. ~tascar /\ ~ovboxclient BY <2>1 DEF Ordered, Idle, NoLeak
    <3>2. h_jack' = FALSE /\ UNCHANGED <<tascar, ovboxclient>>
      BY <1>2 DEF stops, stop_audiobackend
    <3> QED BY <3>1, <3>2 DEF NothingRuns
  <2>2. CASE pc # "finStop"
    <3>1. pc' \notin Out BY <1>2, <2>2, StopsLead DEF stops
    <3> QED BY <3>1 DEF NothingRuns
  <2> QED BY <2>1, <2>2
<1>3. CASE ends \/ starts \/ session
  <2>1. CASE ends BY <2>1, EndsLead DEF ends, NothingRuns
  <2>2. CASE starts BY <2>2, StartsLead DEF starts, NothingRuns
  <2>3. CASE session BY <2>3 DEF session, NothingRuns
  <2> QED BY <1>3, <2>1, <2>2, <2>3
<1>4. CASE (\E r \in Replies : poll(r)) \/ parse \/ audio \/ flag \/ reflag \/ thisdev
  <2>1. pc' \notin Out
    BY <1>4 DEF poll, parse, audio, configure_audio_backend, flag, reflag, thisdev,
       get_stage_dev_throws
  <2> QED BY <2>1 DEF NothingRuns
<1>5. CASE \/ relay \/ relayFlag \/ ambient \/ rendersettings \/ extraconfig \/ roomdev
           \/ audiocheck \/ restart_session_if_needed \/ clear \/ report \/ wait \/ finish
  <2>1. pc' \notin Out
    BY <1>5 DEF relay, relayFlag, ambient, rendersettings, extraconfig, roomdev,
       get_stage_dev_throws,
       audiocheck, restart_session_if_needed, clear, report, wait, finish
  <2> QED BY <2>1 DEF NothingRuns
<1>6. CASE start_service \/ stop_service \/ Serve
  <2>1. UNCHANGED <<tascar, ovboxclient, h_jack>> /\ (pc' = pc \/ pc = "off")
    BY <1>6 DEF start_service, stop_service, Serve, backend
  <2> QED BY <2>1 DEF NothingRuns
<1>7. CASE UNCHANGED vars BY <1>7 DEF vars, backend, NothingRuns
<1> QED BY <1>1, <1>2, <1>3, <1>4, <1>5, <1>6, <1>7 DEF Next, service, apply

(* stop_service ends within the application that is under way: each of at  *)
(* most 28 calls and steps the thread still takes leads nearer to the end, *)
(* nothing else moves it but a new start, and where it ends no renderer,   *)
(* no network client and no audio server is left                           *)
(* (ov_client_orlandoviols.cc:181-186, 665-704).                           *)
THEOREM StopBounded ==
  Spec => /\ [][~runservice /\ service => StepsLeft[pc'] < StepsLeft[pc]]_vars
          /\ [][pc' # pc => service \/ start_service]_vars
          /\ []NothingRuns
<1>1. [Next]_vars => [~runservice /\ service => StepsLeft[pc'] < StepsLeft[pc]]_vars
  BY ServiceNearer DEF Nearer
<1>2. [Next]_vars => [pc' # pc => service \/ start_service]_vars
  BY DEF Next, stop_service, Serve
<1>3. Init => NothingRuns BY DEF Init, BackendInit, NothingRuns
<1> QED BY <1>1, <1>2, <1>3, NothingRunsStep, OrderedInvariant, PTL DEF Spec
=============================================================================
