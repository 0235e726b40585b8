---------------------------- MODULE SessionProofs ----------------------------
(***************************************************************************)
(* Proofs about Session: what a session is built from, that its ports      *)
(* exist, that members hear each other once, and that no audio goes round. *)
(* The steps of the specification are simple; the work is in the operators *)
(* that derive ports, connections and sockets from a stage.                *)
(***************************************************************************)
EXTENDS Session, TLAPS, FiniteSetTheorems, FunctionTheorems

Chosen(d) == {setup.start[d]} \cup setup.choices[d]

(* What every stage has that was polled at some time, by d in setup.       *)
Formed(s, d) ==
  /\ s.host = s.thisdevice.present
  /\ s.host => s.stage[d] = s.thisdevice
  /\ \A m \in Devices : s.stage[m].present => s.host /\ Room[m] = Room[d]
  /\ s.render.xrecport \subseteq xrecports(d)

Typed ==
  /\ setup \in Setups
  /\ config \in [Devices -> Settings]
  /\ stage \in [Devices -> Stage]
  /\ built \in [Devices -> Stage \cup {NoSession}]
  /\ registered \in [Devices -> Entry]
  /\ lists \in [Devices -> [Devices -> Entry]]

(* A running session is the one the renderer stores, and that was polled.  *)
Base ==
  /\ Typed
  /\ \A d \in Devices : config[d] \in Chosen(d)
  /\ \A d \in Devices : Running(d) => built[d] = stage[d]
  /\ \A d \in Devices : Formed(stage[d], d)

(* Only a client that registered has a list, and new entries are true.     *)
Joined(d) == registered[d].new
Informed ==
  /\ \A d \in Devices : Joined(d) => d \in Clients /\ registered[d] = Truth(d)
  /\ \A d, e \in Devices : lists[d][e].on => Joined(d)
  /\ \A d, e \in Devices :
       lists[d][e].new => e \in Clients /\ lists[d][e] = Truth(e)

(* s goes by an entry of x that is wrong, although both have registered.   *)
(* This does not go round in circles: s heard of the mode that x is no     *)
(* more in before x registered in its new one, and had registered itself   *)
(* before that.                                                            *)
Stale(s, x) == Joined(s) /\ Joined(x) /\ lists[s][x].on /\ lists[s][x].mode # mode(x)
NoStaleCircle ==
  \A C \in SUBSET Devices : (\A x \in C : \E s \in C : Stale(s, x)) => C = {}

IInv == Base /\ Informed /\ NoStaleCircle

LEMMA AbsentMember == Absent \in Member
  BY DEF Absent, Member

LEMMA SetupType ==
  ASSUME setup \in Setups
  PROVE  /\ setup.used \subseteq Devices
         /\ setup.start \in [Devices -> Settings]
         /\ setup.choices \in [Devices -> SUBSET Settings]
  BY SessionAssumption DEF Setup

LEMMA ChosenType ==
  ASSUME setup \in Setups, NEW d \in Devices
  PROVE  Chosen(d) \subseteq Settings
  BY SetupType DEF Chosen

LEMMA PolledType ==
  ASSUME Typed, NEW d \in Devices
  PROVE  Polled(d) \in Stage
  <1>1. /\ config[d] \in Settings
        /\ config[d].dev \in Member /\ config[d].render \in Render
        /\ config[d].dev.present \in BOOLEAN
    BY DEF Typed, Settings, Member
  <1>2. \A m \in Devices : config[m].dev \in Member
    BY DEF Typed, Settings
  <1>3. [m \in Devices |->
           IF config[d].dev.present /\ Room[m] = Room[d] /\ config[m].dev.present
           THEN config[m].dev ELSE Absent] \in [Devices -> Member]
    BY <1>2, AbsentMember
  <1> QED
    BY <1>1, <1>3 DEF Polled, Stage

LEMMA PolledFormed ==
  ASSUME Typed, NEW d \in Devices, config[d] \in Chosen(d)
  PROVE  Formed(Polled(d), d)
  <1>1. /\ Polled(d).host = config[d].dev.present
        /\ Polled(d).thisdevice = config[d].dev
        /\ Polled(d).render = config[d].render
    BY DEF Polled
  <1>2. \A m \in Devices : Polled(d).stage[m] =
           IF config[d].dev.present /\ Room[m] = Room[d] /\ config[m].dev.present
           THEN config[m].dev ELSE Absent
    BY DEF Polled
  <1>3. config[d].render.xrecport \subseteq xrecports(d)
    BY DEF Chosen, xrecports
  <1>4. ~Absent.present
    BY DEF Absent
  <1> QED
    BY <1>1, <1>2, <1>3, <1>4 DEF Formed

LEMMA EntryTypes ==
  /\ NoEntry \in Entry /\ ~NoEntry.on /\ ~NoEntry.new
  /\ \A d \in Devices : Truth(d) \in Entry /\ Truth(d).new /\ Truth(d).mode = mode(d)
  <1>1. \A d \in Devices : mode(d) \subseteq Flag
    BY DEF mode, When, Flag
  <1> QED
    BY <1>1 DEF NoEntry, Entry, Truth

LEMMA InitIInv == Init => IInv
  <1> SUFFICES ASSUME Init PROVE IInv
    OBVIOUS
  <1>1. setup \in Setups /\ config = setup.start /\ config \in [Devices -> Settings]
    BY SetupType DEF Init
  <1>2. Unset \in Render
    BY DEF Unset, Render, Extra
  <1> DEFINE none == [host |-> FALSE, render |-> Unset, thisdevice |-> Absent,
                      stage |-> [m \in Devices |-> Absent]]
  <1>3. none \in Stage
    BY <1>2, AbsentMember DEF Stage
  <1>4. stage = [d \in Devices |-> none] /\ built = [d \in Devices |-> NoSession]
    BY DEF Init
  <1>5. /\ registered = [d \in Devices |-> NoEntry]
        /\ lists = [d \in Devices |-> [e \in Devices |-> NoEntry]]
    BY DEF Init
  <1>6. Typed
    BY <1>1, <1>3, <1>4, <1>5, EntryTypes DEF Typed
  <1>7. \A d \in Devices : config[d] \in Chosen(d)
    BY <1>1 DEF Chosen
  <1>8. \A d \in Devices : ~Running(d)
    BY <1>4 DEF Running
  <1>9. ASSUME NEW d \in Devices PROVE Formed(none, d)
    BY DEF Formed, Absent, Unset
  <1>10. Base
    BY <1>4, <1>6, <1>7, <1>8, <1>9 DEF Base
  <1>11. Informed
    BY <1>5, EntryTypes DEF Informed, Joined
  <1>12. NoStaleCircle
    BY <1>5, EntryTypes DEF NoStaleCircle, Stale, Joined
  <1> QED
    BY <1>10, <1>11, <1>12 DEF IInv

(* Equal stages are built into equal sessions: the comparisons leave none  *)
(* of the parts of a stage out.                                            *)
LEMMA SameUnlessDiffers ==
  ASSUME NEW a \in Stage, NEW b \in Stage, ~Differs(a, b)
  PROVE  a = b
  BY DEF Stage, Differs

(* What becomes of the entries when a client ends.                         *)
LEMMA Left ==
  ASSUME Typed, NEW d \in Devices, Leave(d)
  PROVE  /\ registered' \in [Devices -> Entry] /\ lists' \in [Devices -> [Devices -> Entry]]
         /\ ~registered[d].new'
         /\ \A x \in Devices \ {d} : registered[x]' = registered[x]
         /\ \A x \in Devices : ~lists[d][x].on' /\ ~lists[d][x].new' /\ ~lists[x][d].new'
         /\ \A x, y \in Devices \ {d} : lists[x][y]' = lists[x][y]
         /\ \A x \in Devices : lists[x][d].on' => lists[x][d].on
  <1>1. registered' = [registered EXCEPT ![d].new = FALSE] /\ lists' = forgotten(d)
    BY DEF Leave
  <1>2. ASSUME NEW x \in Entry
        PROVE  /\ [x EXCEPT !.new = FALSE] \in Entry /\ ~[x EXCEPT !.new = FALSE].new
               /\ [x EXCEPT !.new = FALSE].on = x.on
    BY DEF Entry
  <1>3. /\ registered' \in [Devices -> Entry] /\ ~registered[d].new'
        /\ \A x \in Devices \ {d} : registered[x]' = registered[x]
    BY <1>1, <1>2 DEF Typed
  <1>4. ASSUME NEW x \in Devices
        PROVE  /\ lists'[x] \in [Devices -> Entry]
               /\ x = d => \A y \in Devices : lists'[x][y] = NoEntry
               /\ x # d => /\ \A y \in Devices \ {d} : lists'[x][y] = lists[x][y]
                          /\ lists'[x][d] = [lists[x][d] EXCEPT !.new = FALSE]
    <2>1. lists[x] \in [Devices -> Entry]
      BY DEF Typed
    <2>2. CASE x = d
      BY <1>1, <2>2, EntryTypes DEF forgotten
    <2>3. CASE x # d
      <3>1. lists'[x] = [lists[x] EXCEPT ![d].new = FALSE]
        BY <1>1, <2>3 DEF forgotten
      <3> QED
        BY <1>2, <2>1, <2>3, <3>1
    <2> QED
      BY <2>2, <2>3
  <1>5. lists' = [x \in Devices |-> lists'[x]]
    BY <1>1 DEF forgotten
  <1>6. \A x \in Devices : lists[x][d] \in Entry
    BY DEF Typed
  <1>7. lists' \in [Devices -> [Devices -> Entry]]
    BY <1>4, <1>5
  <1>8. ASSUME NEW x \in Devices
        PROVE  ~lists'[d][x].on /\ ~lists'[d][x].new /\ ~lists'[x][d].new
    <2>1. lists'[d][x] = NoEntry
      BY <1>4
    <2>2. CASE x = d
      BY <2>1, <2>2, EntryTypes
    <2>3. CASE x # d
      <3>1. lists'[x][d] = [lists[x][d] EXCEPT !.new = FALSE]
        BY <1>4, <2>3
      <3> QED
        BY <1>2, <1>6, <2>1, <3>1, EntryTypes
    <2> QED
      BY <2>2, <2>3
  <1>9. \A x, y \in Devices \ {d} : lists'[x][y] = lists[x][y]
    BY <1>4
  <1>10. ASSUME NEW x \in Devices, lists'[x][d].on PROVE lists[x][d].on
    <2>1. x # d
      BY <1>8, <1>10
    <2>2. lists'[x][d] = [lists[x][d] EXCEPT !.new = FALSE]
      BY <1>4, <2>1
    <2> QED
      BY <1>2, <1>6, <1>10, <2>2
  <1> QED
    BY <1>3, <1>7, <1>8, <1>9, <1>10

LEMMA NextBase == IInv /\ [Next]_vars => Base'
  <1> SUFFICES ASSUME IInv, [Next]_vars PROVE Base'
    OBVIOUS
  <1>1. setup \in Setups /\ setup.used \subseteq Devices
    BY SetupType DEF IInv, Base, Typed
  <1>2. ASSUME setup' = setup PROVE \A d \in Devices : /\ Chosen(d)' = Chosen(d)
                                                       /\ xrecports(d)' = xrecports(d)
    BY <1>2 DEF Chosen, xrecports
  <1>3. ASSUME setup' = setup, stage' = stage
        PROVE  \A d \in Devices : Formed(stage[d], d)'
    BY <1>2, <1>3 DEF Formed, IInv, Base
  <1>4. ASSUME NEW d \in Devices, Change(d) PROVE Base'
    <2>1. PICK c \in setup.choices[d] : config' = [config EXCEPT ![d] = c]
      BY <1>4 DEF Change
    <2>2. UNCHANGED <<setup, stage, built, registered, lists>>
      BY <1>4 DEF Change, known
    <2>3. c \in Settings /\ c \in Chosen(d)
      BY <1>1, SetupType DEF Chosen
    <2>4. Typed'
      BY <2>1, <2>2, <2>3 DEF IInv, Base, Typed
    <2>5. \A e \in Devices : config[e]' \in Chosen(e)
      BY <2>1, <2>3 DEF IInv, Base, Typed
    <2> QED
      BY <1>2, <1>3, <2>2, <2>4, <2>5 DEF IInv, Base, Running
  <1>5. ASSUME NEW d \in Devices, Poll(d) PROVE Base'
    <2>1. UNCHANGED <<setup, config>>
      BY <1>5 DEF Poll
    <2>2. Polled(d) \in Stage /\ Formed(Polled(d), d)
      BY PolledType, PolledFormed DEF IInv, Base
    <2>3. stage' = [stage EXCEPT ![d] = Polled(d)]
      BY <1>5 DEF Poll
    <2>4. built' = [built EXCEPT ![d] = Polled(d)]
      <3>1. CASE ~Running(d) \/ Differs(Polled(d), stage[d])
        BY <1>5, <3>1 DEF Poll
      <3>2. CASE Running(d) /\ ~Differs(Polled(d), stage[d])
        <4>1. Polled(d) = stage[d]
          BY <2>2, <3>2, SameUnlessDiffers DEF IInv, Base, Typed
        <4>2. built[d] = stage[d]
          BY <3>2 DEF IInv, Base
        <4>3. built' = built
          BY <1>5, <3>2 DEF Poll
        <4> QED
          BY <4>1, <4>2, <4>3 DEF IInv, Base, Typed
      <3> QED
        BY <3>1, <3>2
    <2>5. registered' \in [Devices -> Entry] /\ lists' \in [Devices -> [Devices -> Entry]]
      <3>1. CASE Leave(d)
        BY <3>1, Left DEF IInv, Base
      <3>2. CASE UNCHANGED known
        BY <3>2 DEF IInv, Base, Typed, known
      <3> QED
        BY <1>5, <3>1, <3>2 DEF Poll, known
    <2>6. Typed'
      BY <2>1, <2>2, <2>3, <2>4, <2>5 DEF IInv, Base, Typed
    <2>7. \A e \in Devices : Running(e)' => built[e]' = stage[e]'
      BY <2>3, <2>4 DEF IInv, Base, Typed, Running
    <2>8. \A e \in Devices : Formed(stage[e]', e)
      BY <2>2, <2>3 DEF IInv, Base, Typed
    <2>9. \A e \in Devices : Formed(stage[e], e)'
      BY <1>2, <2>1, <2>8 DEF Formed
    <2> QED
      BY <1>2, <2>1, <2>6, <2>7, <2>9 DEF IInv, Base
  <1>6. ASSUME NEW d \in Devices, End(d) PROVE Base'
    <2>1. built' = [built EXCEPT ![d] = NoSession] /\ UNCHANGED <<setup, config, stage>>
      BY <1>6 DEF End
    <2>2. Leave(d) /\ Typed
      BY <1>6 DEF End, IInv, Base
    <2>3. registered' \in [Devices -> Entry] /\ lists' \in [Devices -> [Devices -> Entry]]
      BY <2>2, Left
    <2>4. Typed'
      BY <2>1, <2>3 DEF IInv, Base, Typed
    <2> QED
      BY <1>2, <1>3, <2>1, <2>4 DEF IInv, Base, Typed, Running
  <1>7. ASSUME NEW d \in Devices, NEW e \in Devices, Register(d) \/ Learn(d, e) \/ Expire(d, e)
        PROVE  Base'
    <2>1. UNCHANGED <<setup, config, stage, built>>
      BY <1>7 DEF Register, Learn, Expire
    <2>2. registered' \in [Devices -> Entry] /\ lists' \in [Devices -> [Devices -> Entry]]
      <3>1. registered \in [Devices -> Entry] /\ lists \in [Devices -> [Devices -> Entry]]
        BY DEF IInv, Base, Typed
      <3>2. CASE Register(d)
        BY <3>1, <3>2, EntryTypes DEF Register
      <3>3. ASSUME NEW entry \in Entry, lists' = [lists EXCEPT ![d][e] = entry]
            PROVE  lists' \in [Devices -> [Devices -> Entry]]
        BY <3>1, <3>3
      <3>4. CASE Learn(d, e)
        BY <3>1, <3>3, <3>4 DEF Learn
      <3>5. CASE Expire(d, e)
        BY <3>1, <3>3, <3>5, EntryTypes DEF Expire
      <3> QED
        BY <1>7, <3>2, <3>4, <3>5
    <2>3. Typed'
      BY <2>1, <2>2 DEF IInv, Base, Typed
    <2> QED
      BY <1>2, <1>3, <2>1, <2>3 DEF IInv, Base, Running
  <1>8. CASE UNCHANGED vars
    BY <1>2, <1>3, <1>8 DEF vars, known, IInv, Base, Typed, Running
  <1> QED
    BY <1>1, <1>4, <1>5, <1>6, <1>7, <1>8 DEF Next

(* What an unchanged session leaves as it is.                              *)
LEMMA SameSession ==
  ASSUME NEW d, built'[d] = built[d]
  PROVE  /\ mode(d)' = mode(d) /\ Truth(d)' = Truth(d)
         /\ (Running(d)' <=> Running(d)) /\ (d \in Clients' <=> d \in Clients)
  BY DEF mode, Truth, Running, Clients

(* Circles of stale entries are not closed by entries that are replaced,   *)
(* nor by clients that end: only a client that registers could.            *)
LEMMA FewerStale ==
  ASSUME NoStaleCircle, \A s, x \in Devices : Stale(s, x)' => Stale(s, x)
  PROVE  NoStaleCircle'
  BY DEF NoStaleCircle

LEMMA NextKnown == IInv /\ [Next]_vars => Informed' /\ NoStaleCircle'
  <1> SUFFICES ASSUME IInv, [Next]_vars PROVE Informed' /\ NoStaleCircle'
    OBVIOUS
  <1>1. setup.used \subseteq Devices /\ Typed /\ Informed /\ NoStaleCircle
    BY SetupType DEF IInv, Base, Typed
  <1>2. ASSUME UNCHANGED <<built, registered, lists>> PROVE Informed' /\ NoStaleCircle'
    <2>1. \A d \in Devices : /\ mode(d)' = mode(d) /\ Truth(d)' = Truth(d)
                            /\ (d \in Clients' <=> d \in Clients)
      BY <1>2, SameSession
    <2>2. \A s, x \in Devices : Stale(s, x)' <=> Stale(s, x)
      BY <1>2, <2>1 DEF Stale, Joined
    <2> QED
      BY <1>1, <1>2, <2>1, <2>2, FewerStale DEF Informed, Joined
  <1>3. ASSUME NEW d \in Devices, Leave(d), \A x \in Devices \ {d} : built[x]' = built[x]
        PROVE  Informed' /\ NoStaleCircle'
    <2>1. /\ ~registered[d].new'
          /\ \A x \in Devices \ {d} : registered[x]' = registered[x]
          /\ \A x \in Devices : ~lists[d][x].on' /\ ~lists[d][x].new' /\ ~lists[x][d].new'
          /\ \A x, y \in Devices \ {d} : lists[x][y]' = lists[x][y]
          /\ \A x \in Devices : lists[x][d].on' => lists[x][d].on
      BY <1>1, <1>3, Left
    <2>2. \A x \in Devices \ {d} : /\ mode(x)' = mode(x) /\ Truth(x)' = Truth(x)
                                   /\ (x \in Clients' <=> x \in Clients)
      BY <1>3, SameSession
    <2>3. \A x \in Devices : Joined(x)' <=> x # d /\ Joined(x)
      BY <2>1 DEF Joined
    <2>4. \A x \in Devices : Joined(x)' => (x \in Clients)' /\ registered[x]' = Truth(x)'
      BY <1>1, <2>1, <2>2, <2>3 DEF Informed
    <2>5. \A x, y \in Devices : lists[x][y].on' => Joined(x)'
      BY <1>1, <2>1, <2>3 DEF Informed
    <2>6. \A x, y \in Devices :
            lists[x][y].new' => (y \in Clients)' /\ lists[x][y]' = Truth(y)'
      BY <1>1, <2>1, <2>2 DEF Informed
    <2>7. \A s, x \in Devices : Stale(s, x)' => Stale(s, x)
      BY <2>1, <2>2, <2>3 DEF Stale
    <2> QED
      BY <1>1, <2>4, <2>5, <2>6, <2>7, FewerStale DEF Informed
  <1>4. ASSUME NEW d \in Devices, Poll(d) PROVE Informed' /\ NoStaleCircle'
    <2>1. CASE Leave(d) /\ built' = [built EXCEPT ![d] = Polled(d)]
      BY <1>1, <1>3, <2>1 DEF Typed
    <2>2. CASE UNCHANGED <<built, registered, lists>>
      BY <1>2, <2>2
    <2> QED
      BY <1>4, <2>1, <2>2 DEF Poll, known
  <1>5. ASSUME NEW d \in Devices, End(d) PROVE Informed' /\ NoStaleCircle'
    BY <1>1, <1>3, <1>5 DEF End, Typed
  <1>6. ASSUME NEW d \in Devices, Register(d) PROVE Informed' /\ NoStaleCircle'
    <2>1. /\ d \in Clients /\ registered' = [registered EXCEPT ![d] = Truth(d)]
          /\ UNCHANGED <<built, lists>> /\ registered[d] # Truth(d)
      BY <1>6 DEF Register
    <2>2. \A x \in Devices : /\ mode(x)' = mode(x) /\ Truth(x)' = Truth(x)
                            /\ (x \in Clients' <=> x \in Clients)
      BY <2>1, SameSession
    <2>3. ~Joined(d) /\ \A x \in Devices : Joined(x)' <=> x = d \/ Joined(x)
      BY <1>1, <2>1, EntryTypes DEF Joined, Typed, Informed
    <2>4. Informed'
      BY <1>1, <2>1, <2>2, <2>3 DEF Informed, Typed
    <2>5. \A x \in Devices : ~Stale(d, x)'
      BY <1>1, <2>1, <2>3 DEF Stale, Informed
    <2>6. \A s, x \in Devices : Stale(s, x)' /\ x # d => Stale(s, x)
      BY <2>1, <2>2, <2>3, <2>5 DEF Stale
    <2>7. ASSUME NEW C \in SUBSET Devices, \A x \in C : \E s \in C : Stale(s, x)'
          PROVE  C = {}
      <3>1. \A x \in C \ {d} : \E s \in C \ {d} : Stale(s, x)
        BY <2>5, <2>6, <2>7
      <3>2. C \ {d} = {}
        BY <1>1, <3>1 DEF NoStaleCircle
      <3> QED
        BY <2>5, <2>7, <3>2
    <2> QED
      BY <2>4, <2>7 DEF NoStaleCircle
  <1>7. ASSUME NEW d \in Devices, NEW e \in Devices, NEW entry \in Entry,
               lists' = [lists EXCEPT ![d][e] = entry], UNCHANGED <<built, registered>>,
               entry.on => Joined(d),
               entry.new \/ (Joined(e) /\ entry.on) => e \in Clients /\ entry = Truth(e)
        PROVE  Informed' /\ NoStaleCircle'
    <2>1. \A x \in Devices : /\ mode(x)' = mode(x) /\ Truth(x)' = Truth(x)
                            /\ (x \in Clients' <=> x \in Clients)
                            /\ (Joined(x)' <=> Joined(x))
      BY <1>7, SameSession DEF Joined
    <2>2. /\ lists[d][e]' = entry
          /\ \A x, y \in Devices : x # d \/ y # e => lists[x][y]' = lists[x][y]
      BY <1>1, <1>7 DEF Typed
    <2>3. Informed'
      <3>1. \A x \in Devices : Joined(x)' => (x \in Clients)' /\ registered[x]' = Truth(x)'
        BY <1>1, <1>7, <2>1 DEF Informed
      <3>2. ASSUME NEW x \in Devices, NEW y \in Devices
            PROVE  /\ lists[x][y]'.on => Joined(x)'
                   /\ lists[x][y]'.new => (y \in Clients)' /\ lists[x][y]' = Truth(y)'
        <4>1. CASE x = d /\ y = e
          BY <1>7, <2>1, <2>2, <4>1
        <4>2. CASE x # d \/ y # e
          BY <1>1, <2>1, <2>2, <4>2 DEF Informed
        <4> QED
          BY <4>1, <4>2
      <3> QED
        BY <3>1, <3>2 DEF Informed
    <2>4. \A s, x \in Devices : Stale(s, x)' => Stale(s, x)
      BY <1>7, <2>1, <2>2, EntryTypes DEF Stale
    <2> QED
      BY <1>1, <2>3, <2>4, FewerStale
  <1>8. ASSUME NEW d \in Devices, NEW e \in Devices, Learn(d, e)
        PROVE  Informed' /\ NoStaleCircle'
    <2>1. /\ registered[e] \in Entry /\ Joined(d)
          /\ lists' = [lists EXCEPT ![d][e] = registered[e]] /\ UNCHANGED <<built, registered>>
      BY <1>1, <1>8 DEF Learn, Typed, Joined
    <2>2. registered[e].new \/ Joined(e) => e \in Clients /\ registered[e] = Truth(e)
      BY <1>1 DEF Informed, Joined
    <2> QED
      BY <1>7, <2>1, <2>2
  <1>9. ASSUME NEW d \in Devices, NEW e \in Devices, Expire(d, e)
        PROVE  Informed' /\ NoStaleCircle'
    BY <1>7, <1>9, EntryTypes DEF Expire
  <1>10. CASE UNCHANGED vars
    BY <1>2, <1>10 DEF vars, known
  <1>11. ASSUME NEW d \in Devices, Change(d) PROVE Informed' /\ NoStaleCircle'
    BY <1>2, <1>11 DEF Change, known
  <1> QED
    BY <1>1, <1>4, <1>5, <1>6, <1>8, <1>9, <1>10, <1>11 DEF Next

LEMMA NextIInv == IInv /\ [Next]_vars => IInv'
  BY NextBase, NextKnown DEF IInv

(* IInv holds in every reachable state: whatever is polled, edited, ended  *)
(* and registered in which order, a running session was built from what    *)
(* the renderer stores (the setters and start_session of                   *)
(* ov_render_tascar_t), and clients do not hold wrong entries of each      *)
(* other in a circle (a list starts empty with each ovboxclient_t).        *)
THEOREM Invariance == Spec => []IInv
  BY InitIInv, NextIInv, PTL DEF Spec

(* Configurations, stages and sessions keep their types.                   *)
THEOREM TypeCorrect == Spec => []TypeOK
  <1>1. IInv => TypeOK
    BY DEF IInv, Base, Typed, TypeOK, Running
  <1> QED
    BY <1>1, Invariance, PTL

-----------------------------------------------------------------------------
(* Every port that is connected or waited for is made (PortsExist).        *)

LEMMA OwnPortsHave ==
  ASSUME NEW s, NEW d
  PROVE  /\ Port("tuner", d, "in", 0) \in Ports(s, d)
         /\ \A k \in Bus(s) : /\ Port("bus", d, "in", busname(s, k)) \in Ports(s, d)
                              /\ get_channel_source(s, d, k) \in Ports(s, d)
         /\ \A k \in Indices(s.thisdevice) :
              /\ Has(s, "reclevelanalyser") => Port("level", d, "in", k) \in Ports(s, d)
              /\ SelfDelayed(s) => Port("sec", d, "in", k) \in Ports(s, d)
         /\ Metronome(s) => \A n \in {0, 1} : Port("metronome", d, "out", n) \in Ports(s, d)
         /\ \A k \in SenderChannels(s) : Port("sender", d, "in", k) \in Ports(s, d)
  <1>1. OwnPorts(s, d) \subseteq Ports(s, d)
    BY DEF Ports
  <1>2. Port("tuner", d, "in", 0) \in OwnPorts(s, d)
    BY DEF OwnPorts
  <1>3. \A k \in Bus(s) : /\ Port("bus", d, "in", busname(s, k)) \in OwnPorts(s, d)
                          /\ get_channel_source(s, d, k) \in OwnPorts(s, d)
    BY DEF OwnPorts, get_channel_source
  <1>4. \A k \in Indices(s.thisdevice) : Has(s, "reclevelanalyser") =>
          Port("level", d, "in", k) \in OwnPorts(s, d)
    BY DEF OwnPorts, Numbered, When
  <1>5. \A k \in Indices(s.thisdevice) : SelfDelayed(s) =>
          Port("sec", d, "in", k) \in OwnPorts(s, d)
    BY DEF OwnPorts, Numbered, When
  <1>6. Metronome(s) => \A n \in {0, 1} : Port("metronome", d, "out", n) \in OwnPorts(s, d)
    BY DEF OwnPorts, Numbered, When
  <1>7. \A k \in SenderChannels(s) : Port("sender", d, "in", k) \in OwnPorts(s, d)
    BY DEF OwnPorts, Numbered
  <1> QED
    BY <1>1, <1>2, <1>3, <1>4, <1>5, <1>6, <1>7

LEMMA MixPortsHave ==
  ASSUME NEW s, NEW d
  PROVE  /\ Virtual(s) /\ s.render.receive =>
              \A side \in {1, 2} : MainPort(s, d, side) \in Ports(s, d)
         /\ \A m \in Sources(s, d) : \A k \in Indices(Source(s, d, m)) :
              Port("sound", m, "in", portname(Source(s, d, m), k)) \in Ports(s, d)
         /\ InRawRoom(s) /\ s.render.receive =>
              \A io \in {"in", "out"}, n \in {0, 1} : Port("main", d, io, n) \in Ports(s, d)
  <1>1. MixPorts(s, d) \subseteq Ports(s, d)
    BY DEF Ports
  <1>2. Virtual(s) /\ s.render.receive =>
          \A side \in {1, 2} : MainPort(s, d, side) \in MixPorts(s, d)
    BY DEF MixPorts, When
  <1>3. ASSUME NEW m \in Sources(s, d), NEW k \in Indices(Source(s, d, m))
        PROVE  Port("sound", m, "in", portname(Source(s, d, m), k)) \in MixPorts(s, d)
    <2> DEFINE sound(x) == {Port("sound", x, "in", portname(Source(s, d, x), i))
                              : i \in Indices(Source(s, d, x))}
    <2>1. Port("sound", m, "in", portname(Source(s, d, m), k)) \in sound(m)
      OBVIOUS
    <2>2. UNION {sound(x) : x \in Sources(s, d)} \subseteq MixPorts(s, d)
      BY DEF MixPorts
    <2> HIDE DEF sound
    <2> QED
      BY <2>1, <2>2
  <1>4. InRawRoom(s) /\ s.render.receive =>
          \A io \in {"in", "out"}, n \in {0, 1} : Port("main", d, io, n) \in MixPorts(s, d)
    <2> SUFFICES ASSUME InRawRoom(s), s.render.receive, NEW io \in {"in", "out"},
                        NEW n \in {0, 1}
                 PROVE  Port("main", d, io, n) \in MixPorts(s, d)
      OBVIOUS
    <2>1. io \in When(InRawRoom(s) /\ s.render.receive, {"in", "out"})
      BY DEF When
    <2> QED
      BY <2>1 DEF MixPorts
  <1> QED
    BY <1>1, <1>2, <1>3, <1>4

LEMMA ReceiverPortsHave ==
  ASSUME NEW s, NEW d
  PROVE  /\ \A m \in Zita(s, d) : \A k \in chanlist(s.stage[m]) :
              /\ Port("n2j", m, "out", k) \in Ports(s, d)
              /\ m \in SecondaryBus(s, d) => Port("n2jsec", m, "out", k) \in Ports(s, d)
         /\ \A m \in SecondaryBus(s, d) : \A k \in Indices(s.stage[m]) :
              Port("sec", m, "in", k) \in Ports(s, d)
         /\ ~Virtual(s) => \A m \in Received(s, d) : \A k \in chanlist(s.stage[m]) :
              \A io \in {"in", "out"} : Port("route", m, io, k) \in Ports(s, d)
  <1>1. ReceiverPorts(s, d) \subseteq Ports(s, d)
    BY DEF Ports
  <1>2. ASSUME NEW m \in Zita(s, d), NEW k \in chanlist(s.stage[m])
        PROVE  /\ Port("n2j", m, "out", k) \in ReceiverPorts(s, d)
               /\ m \in SecondaryBus(s, d) =>
                    Port("n2jsec", m, "out", k) \in ReceiverPorts(s, d)
    <2> DEFINE out(x) ==
          Numbered("n2j", x, "out", chanlist(s.stage[x]))
            \cup Numbered("n2jsec", x, "out",
                    When(x \in SecondaryBus(s, d), chanlist(s.stage[x])))
    <2>1. Port("n2j", m, "out", k) \in out(m)
      BY DEF Numbered
    <2>2. m \in SecondaryBus(s, d) => Port("n2jsec", m, "out", k) \in out(m)
      BY DEF Numbered, When
    <2>3. UNION {out(x) : x \in Zita(s, d)} \subseteq ReceiverPorts(s, d)
      BY DEF ReceiverPorts
    <2> HIDE DEF out
    <2> QED
      BY <2>1, <2>2, <2>3
  <1>3. ASSUME NEW m \in SecondaryBus(s, d), NEW k \in Indices(s.stage[m])
        PROVE  Port("sec", m, "in", k) \in ReceiverPorts(s, d)
    <2> DEFINE bus(x) == Numbered("sec", x, "in", Indices(s.stage[x]))
    <2>1. Port("sec", m, "in", k) \in bus(m)
      BY DEF Numbered
    <2>2. UNION {bus(x) : x \in SecondaryBus(s, d)} \subseteq ReceiverPorts(s, d)
      BY DEF ReceiverPorts
    <2> HIDE DEF bus
    <2> QED
      BY <2>1, <2>2
  <1>4. ASSUME ~Virtual(s), NEW m \in Received(s, d), NEW k \in chanlist(s.stage[m]),
               NEW io \in {"in", "out"}
        PROVE  Port("route", m, io, k) \in ReceiverPorts(s, d)
    <2> DEFINE route(x, y) == Numbered("route", x, y, chanlist(s.stage[x]))
    <2>1. Port("route", m, io, k) \in route(m, io)
      BY DEF Numbered
    <2>2. m \in When(~Virtual(s), Received(s, d))
      BY <1>4 DEF When
    <2>3. UNION {route(x, y) : x \in When(~Virtual(s), Received(s, d)),
                               y \in {"in", "out"}} \subseteq ReceiverPorts(s, d)
      BY DEF ReceiverPorts
    <2> HIDE DEF route
    <2> QED
      BY <2>1, <2>2, <2>3
  <1> QED
    BY <1>1, <1>2, <1>3, <1>4

LEMMA HwPortsHave ==
  ASSUME NEW s, NEW d
  PROVE  /\ \A k \in Indices(s.thisdevice) : Port("system", d, "capture", k) \in Ports(s, d)
         /\ \A n \in {1, 2} : Port("system", d, "playback", n) \in Ports(s, d)
         /\ LinkPorts(s, d) \subseteq Ports(s, d)
  BY DEF Ports, HwPorts, Numbered

LEMMA MemberType ==
  ASSUME NEW member \in Member
  PROVE  /\ Indices(member) = 1 .. Len(member.channels) /\ Len(member.channels) \in Nat
         /\ \A k \in Indices(member) : member.channels[k] \in {0} \cup Names
         /\ Sends(member) <=> Indices(member) # {}
         /\ ~member.senddownmix => chanlist(member) = Indices(member)
         /\ member.senddownmix => chanlist(member) = {1, 2}
  <1>1. member.channels \in Seq({0} \cup Names)
    BY DEF Member
  <1>2. Indices(member) = 1 .. Len(member.channels) /\ Len(member.channels) \in Nat
    BY <1>1 DEF Indices
  <1>3. Sends(member) <=> Indices(member) # {}
    BY <1>1, <1>2 DEF Sends
  <1>4. 1 .. 2 = {1, 2}
    OBVIOUS
  <1> QED
    BY <1>1, <1>2, <1>3, <1>4 DEF Indices, chanlist

LEMMA StageType ==
  ASSUME NEW s \in Stage
  PROVE  /\ s.host \in BOOLEAN /\ s.render \in Render /\ s.thisdevice \in Member
         /\ \A m \in Devices : s.stage[m] \in Member
  BY DEF Stage

(* The session has a source for itself if it sends its own channels, and   *)
(* for every member it takes the channels of.                              *)
LEMMA HasSources ==
  ASSUME NEW s \in Stage, NEW d \in Devices, Formed(s, d), Virtual(s)
  PROVE  /\ \A m \in Received(s, d) : m \in Sources(s, d) /\ Source(s, d, m) = s.stage[m]
         /\ Metronome(s) /\ s.render.receive => d \in Sources(s, d)
         /\ Source(s, d, d) = s.thisdevice
  <1>1. ASSUME NEW m \in Received(s, d)
        PROVE  m \in Sources(s, d) /\ Source(s, d, m) = s.stage[m]
    <2>1. /\ m \in Devices /\ m # d /\ s.host /\ s.render.receive
          /\ Sends(s.stage[m]) /\ ~s.stage[m].senddownmix
      BY <1>1, StageType DEF Received, Virtual, Member
    <2> QED
      BY <2>1 DEF Sources, Source
  <1>2. ASSUME Metronome(s), s.render.receive PROVE d \in Sources(s, d)
    BY <1>2 DEF Metronome, InVirtualRoom, b_sender, Formed, Sources
  <1> QED
    BY <1>1, <1>2 DEF Source

LEMMA FiniteRange ==
  ASSUME NEW S, IsFiniteSet(S), NEW f
  PROVE  IsFiniteSet({f[x] : x \in S})
  <1> DEFINE T == {f[x] : x \in S}
             g == [x \in S |-> f[x]]
  <1>1. g \in Surjection(S, T)
    BY DEF Surjection
  <1> QED
    BY <1>1, FS_Surjection

(* The outputs of the plain mixer alternate between left and right.        *)
LEMMA MixsideBounds ==
  ASSUME NEW s \in Stage, NEW d \in Devices, NEW m \in Received(s, d),
         NEW k \in chanlist(s.stage[m])
  PROVE  mixside(s, d, m, k) \in {0, 1}
  <1>1. \A q \in Devices : s.stage[q] \in Member /\ IsFiniteSet(chanlist(s.stage[q]))
                          /\ chanlist(s.stage[q]) \subseteq Int
    <2> SUFFICES ASSUME NEW q \in Devices
                 PROVE  s.stage[q] \in Member /\ IsFiniteSet(chanlist(s.stage[q]))
                        /\ chanlist(s.stage[q]) \subseteq Int
      OBVIOUS
    <2>1. s.stage[q] \in Member
      BY StageType
    <2>2. Len(s.stage[q].channels) \in Nat
      BY <2>1, MemberType
    <2>3. \A n \in Nat : IsFiniteSet(1 .. n) /\ 1 .. n \subseteq Int
      BY FS_Interval
    <2> QED
      BY <2>1, <2>2, <2>3 DEF chanlist
  <1> DEFINE before == {x \in Received(s, d) : Id[x] < Id[m]}
             pairs(q) == {<<q, i>> : i \in chanlist(s.stage[q])}
             own == {<<m, i>> : i \in 1 .. k - 1}
  <1>2. before \subseteq Devices /\ IsFiniteSet(before)
    BY SessionAssumption, FS_Subset DEF Received
  <1>3. \A q \in before : IsFiniteSet(pairs(q))
    <2> SUFFICES ASSUME NEW q \in before PROVE IsFiniteSet(pairs(q))
      OBVIOUS
    <2>1. IsFiniteSet(chanlist(s.stage[q]))
      BY <1>1, <1>2
    <2> DEFINE f == [i \in chanlist(s.stage[q]) |-> <<q, i>>]
    <2>2. IsFiniteSet({f[i] : i \in chanlist(s.stage[q])})
      BY <2>1, FiniteRange
    <2>3. {f[i] : i \in chanlist(s.stage[q])} = pairs(q)
      OBVIOUS
    <2> QED
      BY <2>2, <2>3
  <1>4. IsFiniteSet({pairs(q) : q \in before})
    <2> DEFINE f == [q \in before |-> pairs(q)]
    <2>1. IsFiniteSet({f[q] : q \in before})
      BY <1>2, FiniteRange
    <2>2. {f[q] : q \in before} = {pairs(q) : q \in before}
      OBVIOUS
    <2> QED
      BY <2>1, <2>2
  <1>5. IsFiniteSet(UNION {pairs(q) : q \in before})
    BY <1>3, <1>4, FS_UNION
  <1>6. IsFiniteSet(own)
    <2> DEFINE f == [i \in 1 .. k - 1 |-> <<m, i>>]
    <2>1. k \in Int
      BY <1>1 DEF Received
    <2>2. IsFiniteSet(1 .. k - 1)
      BY <2>1, FS_Interval
    <2>3. IsFiniteSet({f[i] : i \in 1 .. k - 1})
      BY <2>2, FiniteRange
    <2>4. {f[i] : i \in 1 .. k - 1} = own
      OBVIOUS
    <2> QED
      BY <2>3, <2>4
  <1>7. MixedBefore(s, d, m, k) = (UNION {pairs(q) : q \in before}) \cup own
    BY DEF MixedBefore
  <1> HIDE DEF before, pairs, own
  <1>8. IsFiniteSet((UNION {pairs(q) : q \in before}) \cup own)
    BY <1>5, <1>6, FS_Union
  <1>9. IsFiniteSet(MixedBefore(s, d, m, k))
    BY <1>7, <1>8
  <1> QED
    BY <1>9, FS_CardinalityType DEF mixside

LEMMA ReceiverEnds ==
  ASSUME NEW s \in Stage, NEW d \in Devices, Formed(s, d), NEW m \in Received(s, d),
         NEW c \in ReceiverConnections(s, d, m)
  PROVE  {c[1], c[2]} \subseteq Ports(s, d)
  <1>1. m \in Devices /\ s.stage[m] \in Member /\ s.host /\ s.render.receive
    BY StageType DEF Received
  <1>2. CASE Virtual(s)
    <2>1. PICK k \in When(m \in Zita(s, d), Indices(s.stage[m])) :
            c = <<Port("n2j", m, "out", k), Port("sound", m, "in", destname(s.stage[m], k))>>
      BY <1>2 DEF ReceiverConnections
    <2>2. m \in Zita(s, d) /\ k \in Indices(s.stage[m])
      BY <2>1 DEF When
    <2>3. k \in chanlist(s.stage[m])
      BY <1>1, <1>2, <2>2, MemberType, StageType DEF Received, Virtual, Member
    <2>4. c[1] \in Ports(s, d)
      BY <2>1, <2>2, <2>3, ReceiverPortsHave
    <2>5. c[2] \in Ports(s, d)
      BY <1>2, <2>1, <2>2, HasSources, MixPortsHave DEF destname
    <2> QED
      BY <2>4, <2>5
  <1>3. CASE ~Virtual(s)
    <2>1. InRawRoom(s)
      BY <1>1, <1>3 DEF InRawRoom
    <2>2. CASE \E k \in When(m \in Zita(s, d), chanlist(s.stage[m])) :
                 c = <<Port("n2j", m, "out", k), Port("route", m, "in", k)>>
      BY <1>3, <2>2, ReceiverPortsHave DEF When
    <2>3. CASE \E k \in chanlist(s.stage[m]) :
                 c = <<Port("route", m, "out", k), Port("main", d, "in", mixside(s, d, m, k))>>
      <3>1. PICK k \in chanlist(s.stage[m]) :
              c = <<Port("route", m, "out", k), Port("main", d, "in", mixside(s, d, m, k))>>
        BY <2>3
      <3>2. mixside(s, d, m, k) \in {0, 1}
        BY <3>1, MixsideBounds
      <3>3. c[1] \in Ports(s, d)
        BY <1>3, <3>1, ReceiverPortsHave
      <3>4. c[2] \in Ports(s, d)
        BY <1>1, <2>1, <3>1, <3>2, MixPortsHave
      <3> QED
        BY <3>3, <3>4
    <2> QED
      BY <1>3, <2>2, <2>3 DEF ReceiverConnections
  <1> QED
    BY <1>2, <1>3

LEMMA SecondaryEnds ==
  ASSUME NEW s \in Stage, NEW d \in Devices, NEW m \in Received(s, d),
         NEW c \in SecondaryConnections(s, d, m)
  PROVE  /\ c[2] \in Ports(s, d)
         /\ ~Wide(s, m) => c[1] \in Ports(s, d)
  <1>1. s.stage[m] \in Member
    BY StageType DEF Received
  <1>2. PICK k \in When(m \in SecondaryBus(s, d) \cap Zita(s, d), Indices(s.stage[m])) :
          c = <<Port("n2jsec", m, "out", k), Port("sec", m, "in", k)>>
    BY DEF SecondaryConnections
  <1>3. m \in SecondaryBus(s, d) /\ m \in Zita(s, d) /\ k \in Indices(s.stage[m])
    BY <1>2 DEF When
  <1>4. ~Wide(s, m) => k \in chanlist(s.stage[m])
    BY <1>1, <1>3, MemberType DEF Wide
  <1> QED
    BY <1>2, <1>3, <1>4, ReceiverPortsHave

LEMMA OwnEnds ==
  ASSUME NEW s \in Stage, NEW d \in Devices, Formed(s, d),
         NEW k \in Indices(s.thisdevice), NEW c \in OwnConnections(s, d, k)
  PROVE  {c[1], c[2]} \subseteq Ports(s, d)
  <1> DEFINE capture == Port("system", d, "capture", k)
             source == get_channel_source(s, d, k)
             fed == {Port("tuner", d, "in", 0)}
                      \cup When(Has(s, "reclevelanalyser"), {Port("level", d, "in", k)})
                      \cup When(k \in Bus(s), {Port("bus", d, "in", busname(s, k))})
             heard == When(d \in Sources(s, d) /\ (s.host => Has(s, "selfmonitor")),
                           {Port("sound", d, "in", portname(s.thisdevice, k))})
             delayed == When(SelfDelayed(s), {Port("sec", d, "in", k)})
             sends == When(k \in SenderChannels(s) /\ (InRawRoom(s) \/ Metronome(s)),
                           {Port("sender", d, "in", k)})
  <1>1. OwnConnections(s, d, k) =
          {<<capture, p>> : p \in fed} \cup {<<source, p>> : p \in heard \cup delayed \cup sends}
    BY DEF OwnConnections
  <1>2. capture \in Ports(s, d) /\ fed \subseteq Ports(s, d)
    BY HwPortsHave, OwnPortsHave DEF When
  <1>3. heard # {} \/ delayed # {} \/ sends # {} => k \in Bus(s)
    BY DEF Bus, When, Sources, SelfDelayed, InRawRoom, Metronome, InVirtualRoom, Has
  <1>4. k \in Bus(s) => source \in Ports(s, d)
    BY OwnPortsHave
  <1>5. heard \subseteq Ports(s, d)
    <2> SUFFICES ASSUME d \in Sources(s, d)
                 PROVE  Port("sound", d, "in", portname(s.thisdevice, k)) \in Ports(s, d)
      BY DEF When
    <2>1. Source(s, d, d) = s.thisdevice
      BY DEF Source
    <2> QED
      BY <2>1, MixPortsHave
  <1>6. delayed \subseteq Ports(s, d) /\ sends \subseteq Ports(s, d)
    BY OwnPortsHave DEF When
  <1> HIDE DEF capture, source, fed, heard, delayed, sends
  <1>7. CASE \E p \in fed : c = <<capture, p>>
    BY <1>2, <1>7
  <1>8. CASE \E p \in heard \cup delayed \cup sends : c = <<source, p>>
    BY <1>3, <1>4, <1>5, <1>6, <1>8
  <1> QED
    BY <1>1, <1>7, <1>8

(* The metronome's own numbering of the sound sources is that of the scene *)
(* when all channels have names, or none.                                  *)
LEMMA SameNumber ==
  ASSUME NEW member \in Member, Consistent(member), NEW k \in Indices(member)
  PROVE  ego_source_name(member, k) = portname(member, k)
  <1>1. CASE member.channels[k] # 0
    BY <1>1 DEF ego_source_name, portname
  <1>2. CASE member.channels[k] = 0
    <2>1. Indices(member) = 1 .. Len(member.channels) /\ Len(member.channels) \in Nat
      BY MemberType
    <2>2. \A i \in 1 .. k : i \in Indices(member)
      BY <2>1
    <2>3. \A i \in 1 .. k : member.channels[i] = 0
      BY <1>2, <2>2 DEF Consistent
    <2>4. {i \in 1 .. k : member.channels[i] = 0} = 1 .. k
      BY <2>3
    <2>5. Cardinality(1 .. k) = k
      BY <2>1, FS_Interval
    <2> QED
      BY <1>2, <2>4, <2>5 DEF ego_source_name, portname
  <1> QED
    BY <1>1, <1>2

LEMMA MetronomeEnds ==
  ASSUME NEW s \in Stage, NEW d \in Devices, Formed(s, d), NEW c \in MetronomeConnections(s, d)
  PROVE  /\ c[1] \in Ports(s, d)
         /\ Consistent(s.thisdevice) => c[2] \in Ports(s, d)
  <1>1. CASE \E k \in When(Metronome(s), SenderChannels(s)) :
               c = <<Port("metronome", d, "out", 0), Port("sender", d, "in", k)>>
    BY <1>1, OwnPortsHave DEF When
  <1>2. CASE \E k \in When(Metronome(s) /\ s.render.receive, Indices(s.thisdevice)) :
               c = <<Port("metronome", d, "out", 1),
                     Port("sound", d, "in", ego_source_name(s.thisdevice, k))>>
    <2>1. PICK k \in When(Metronome(s) /\ s.render.receive, Indices(s.thisdevice)) :
               c = <<Port("metronome", d, "out", 1),
                     Port("sound", d, "in", ego_source_name(s.thisdevice, k))>>
      BY <1>2
    <2>2. Metronome(s) /\ s.render.receive /\ k \in Indices(s.thisdevice)
      BY <2>1 DEF When
    <2>3. Virtual(s)
      BY <2>2 DEF Metronome, InVirtualRoom
    <2>4. d \in Sources(s, d) /\ Source(s, d, d) = s.thisdevice
      BY <2>2, <2>3, HasSources
    <2>5. Port("sound", d, "in", portname(s.thisdevice, k)) \in Ports(s, d)
      BY <2>2, <2>4, MixPortsHave
    <2>6. c[1] \in Ports(s, d)
      BY <2>1, <2>2, OwnPortsHave
    <2> QED
      BY <2>1, <2>2, <2>5, <2>6, SameNumber, StageType
  <1> QED
    BY <1>1, <1>2 DEF MetronomeConnections

LEMMA OutputEnds ==
  ASSUME NEW s \in Stage, NEW d \in Devices, NEW c \in OutputConnections(s, d)
  PROVE  /\ c[2] \in Ports(s, d)
         /\ c[1] \in Ports(s, d) \cup
              {Port("scene", d, p, 0) : p \in
                 When(s.thisdevice.senddownmix /\ s.render.rectype # "hrtf",
                      {"main_l", "main_r"})}
  <1> DEFINE outputs == When(Has(s, "outputports") /\ s.render.receive, {1, 2})
             mix(n) == Port("scene", d, <<"main_l", "main_r">>[n], 0)
  <1>1. outputs \subseteq {1, 2} /\ (outputs # {} => s.render.receive)
    BY DEF When
  <1>2. OutputConnections(s, d) =
          {<<Port("main", d, "out", n - 1), Port("system", d, "playback", n)>>
             : n \in When(InRawRoom(s), outputs)}
          \cup {<<MainPort(s, d, n), Port("system", d, "playback", n)>>
             : n \in When(Virtual(s) /\ ~s.thisdevice.senddownmix, outputs)}
          \cup {<<mix(n), Port("sender", d, "in", n)>>
             : n \in When(InVirtualRoom(s) /\ s.thisdevice.senddownmix, SenderChannels(s))}
    BY DEF OutputConnections
  <1> HIDE DEF outputs
  <1>3. CASE \E n \in When(InRawRoom(s), outputs) :
               c = <<Port("main", d, "out", n - 1), Port("system", d, "playback", n)>>
    <2>1. PICK n \in When(InRawRoom(s), outputs) :
               c = <<Port("main", d, "out", n - 1), Port("system", d, "playback", n)>>
      BY <1>3
    <2>2. InRawRoom(s) /\ s.render.receive /\ n \in {1, 2} /\ n - 1 \in {0, 1}
      BY <1>1, <2>1 DEF When
    <2> QED
      BY <2>1, <2>2, MixPortsHave, HwPortsHave
  <1>4. CASE \E n \in When(Virtual(s) /\ ~s.thisdevice.senddownmix, outputs) :
               c = <<MainPort(s, d, n), Port("system", d, "playback", n)>>
    BY <1>1, <1>4, MixPortsHave, HwPortsHave DEF When
  <1>5. CASE \E n \in When(InVirtualRoom(s) /\ s.thisdevice.senddownmix, SenderChannels(s)) :
               c = <<mix(n), Port("sender", d, "in", n)>>
    <2>1. PICK n \in When(InVirtualRoom(s) /\ s.thisdevice.senddownmix, SenderChannels(s)) :
               c = <<mix(n), Port("sender", d, "in", n)>>
      BY <1>5
    <2>2. InVirtualRoom(s) /\ s.thisdevice.senddownmix /\ n \in SenderChannels(s)
      BY <2>1 DEF When
    <2>3. n \in {1, 2} /\ s.render.receive /\ Virtual(s)
      BY <2>2 DEF SenderChannels, InRawRoom, InVirtualRoom
    <2>4. c[2] \in Ports(s, d)
      BY <2>1, <2>2, OwnPortsHave
    <2>5. CASE s.render.rectype = "hrtf"
      <3>1. mix(n) = MainPort(s, d, n)
        BY <2>5 DEF MainPort, mainport
      <3> QED
        BY <2>1, <2>3, <2>4, <3>1, MixPortsHave
    <2>6. CASE s.render.rectype # "hrtf"
      <3>1. <<"main_l", "main_r">>[n] \in {"main_l", "main_r"}
        BY <2>3
      <3>2. When(s.thisdevice.senddownmix /\ s.render.rectype # "hrtf", {"main_l", "main_r"})
              = {"main_l", "main_r"}
        BY <2>2, <2>6 DEF When
      <3> QED
        BY <2>1, <2>4, <3>1, <3>2
    <2> QED
      BY <2>5, <2>6
  <1> QED
    BY <1>2, <1>3, <1>4, <1>5

LEMMA NetworkEnds ==
  ASSUME NEW s \in Stage, NEW d \in Devices, Formed(s, d), NEW c \in NetworkConnections(s, d)
  PROVE  {c[1], c[2]} \subseteq Ports(s, d) \cup
           (UNION {{e[1] : e \in SecondaryConnections(s, d, m)}
                     : m \in {x \in Devices : Wide(s, x)}})
  <1>1. PICK m \in Received(s, d) :
          c \in ReceiverConnections(s, d, m) \/ c \in SecondaryConnections(s, d, m)
    BY DEF NetworkConnections
  <1>2. m \in Devices
    BY DEF Received
  <1>3. CASE c \in ReceiverConnections(s, d, m)
    BY <1>3, ReceiverEnds
  <1>4. CASE c \in SecondaryConnections(s, d, m)
    BY <1>2, <1>4, SecondaryEnds
  <1> QED
    BY <1>1, <1>3, <1>4

(* Whatever the configuration, a session waits only for ports that one of  *)
(* its clients makes, and connects only ports that exist, except in the    *)
(* three combinations named with PortsExist (start_session).               *)
THEOREM PortsExistHolds == Spec => []PortsExist
  <1>1. IInv => PortsExist
    <2> SUFFICES ASSUME IInv, NEW d \in Devices, Running(d), NEW s, s = built[d]
                 PROVE
          LET odd == {p \in {c[2] : c \in MetronomeConnections(s, d)} : ~Consistent(s.thisdevice)}
              other == {Port("scene", d, p, 0) : p \in
                         When(s.thisdevice.senddownmix /\ s.render.rectype # "hrtf",
                              {"main_l", "main_r"})}
              wide == UNION {{c[1] : c \in SecondaryConnections(s, d, m)}
                               : m \in {x \in Devices : Wide(s, x)}}
          IN /\ WaitPorts(s, d) \subseteq Ports(s, d) \cup (odd \cup other \cup wide)
             /\ \A c \in Connections(s, d) :
                  {c[1], c[2]} \subseteq Ports(s, d) \cup (odd \cup other \cup wide)
      BY DEF PortsExist
    <2> DEFINE odd == {p \in {c[2] : c \in MetronomeConnections(s, d)} : ~Consistent(s.thisdevice)}
               other == {Port("scene", d, p, 0) : p \in
                          When(s.thisdevice.senddownmix /\ s.render.rectype # "hrtf",
                               {"main_l", "main_r"})}
               wide == UNION {{c[1] : c \in SecondaryConnections(s, d, m)}
                                : m \in {x \in Devices : Wide(s, x)}}
               made == Ports(s, d) \cup (odd \cup other \cup wide)
    <2>1. s \in Stage /\ Formed(s, d)
      BY DEF IInv, Base, Typed
    <2>2. \A c \in NetworkConnections(s, d) : {c[1], c[2]} \subseteq Ports(s, d) \cup wide
      BY <2>1, NetworkEnds
    <2>3. \A c \in MetronomeConnections(s, d) : {c[1], c[2]} \subseteq Ports(s, d) \cup odd
      BY <2>1, MetronomeEnds
    <2>4. \A c \in OutputConnections(s, d) : {c[1], c[2]} \subseteq Ports(s, d) \cup other
      BY <2>1, OutputEnds
    <2>5. \A k \in Indices(s.thisdevice) : \A c \in OwnConnections(s, d, k) :
            {c[1], c[2]} \subseteq Ports(s, d)
      BY <2>1, OwnEnds
    <2>6. Numbered("sender", d, "in",
             When(InRawRoom(s) \/ Metronome(s), SenderChannels(s))) \subseteq Ports(s, d)
      BY OwnPortsHave DEF Numbered, When
    <2>7. LinkPorts(s, d) \subseteq Ports(s, d)
      BY HwPortsHave
    <2> HIDE DEF odd, other, wide
    <2>8. WaitPorts(s, d) \subseteq made
      BY <2>2, <2>6, <2>7 DEF WaitPorts
    <2>9. \A c \in Connections(s, d) : {c[1], c[2]} \subseteq made
      BY <2>2, <2>3, <2>4, <2>5 DEF Connections
    <2> QED
      BY <2>8, <2>9 DEF odd, other, wide
  <1> QED
    BY <1>1, Invariance, PTL

-----------------------------------------------------------------------------
(* Port numbers.  Ids lie in 0 .. 31 and two clients on one computer have  *)
(* different offsets, so that equal port numbers mean equal devices.       *)

LEMMA Offsets ==
  /\ \A d \in Devices : Id[d] \in Int /\ 0 <= Id[d] /\ Id[d] <= 31
  /\ \A d \in Devices : portoffset(d) = IF d \in Secondary THEN 64 ELSE 0
  /\ \A d, e \in Devices :
       d # e /\ Machine[d] = Machine[e] => portoffset(d) # portoffset(e)
  BY SessionAssumption DEF portoffset

LEMMA ZitaPort ==
  \A d, m \in Devices : zitaport(d, m) = 4464 + 2 * Id[m] + portoffset(d)
  BY Offsets DEF zitaport, get_zitaport_

(* What there is to know of a socket of d, by kind.                        *)
Placed(k, d, machine) ==
  /\ Machine[d] = machine /\ Running(d) /\ k.owner = d
  /\ k = [udp |-> k.udp, kind |-> k.kind, owner |-> k.owner, from |-> k.from]
  /\ \/ k.kind = "tascar" /\ k.udp = 9871 + portoffset(d) /\ k.from = d
     \/ /\ k.kind = "ovbox"
        /\ k.udp \in {4464 + 2 * Id[d] + portoffset(d), 9870 + portoffset(d)}
                     \cup built[d].render.xrecport
     \/ /\ k.kind = "n2j" /\ k.from \in Zita(built[d], d)
        /\ k.udp = 4464 + 2 * Id[k.from] + portoffset(d)
     \/ /\ k.kind = "n2jsec"
        /\ k.from \in Zita(built[d], d) \cap SecondaryBus(built[d], d)
        /\ k.udp = 4464 + 2 * Id[k.from] + portoffset(d) + 100

LEMMA SocketKinds ==
  ASSUME NEW machine, NEW k \in Sockets(machine)
  PROVE  \E d \in Devices : Placed(k, d, machine)
  <1> DEFINE here == {d \in Devices : Machine[d] = machine /\ Running(d)}
             Socket(udp, kind, d, m) == [udp |-> udp, kind |-> kind, owner |-> d, from |-> m]
  <1>1. CASE \E d \in here : k = Socket(my_tascarport(d), "tascar", d, d)
    BY <1>1 DEF my_tascarport, Placed
  <1>2. CASE \E d \in Clients \cap here :
               \/ k \in {Socket(recport(d), "ovbox", d, d),
                         Socket(dist_to_other_tascarport(d), "ovbox", d, d)}
               \/ \E p \in built[d].render.xrecport : k = Socket(p, "ovbox", d, d)
    BY <1>2, ZitaPort DEF recport, dist_to_other_tascarport, Placed
  <1>3. CASE \E d \in here : \E m \in Zita(built[d], d) :
               k = Socket(zitaport(d, m), "n2j", d, m)
    BY <1>3, ZitaPort DEF Placed, Zita, Received
  <1>4. CASE \E d \in here : \E m \in Zita(built[d], d) \cap SecondaryBus(built[d], d) :
               k = Socket(get_zitaport_(Id[m], portoffset(d), 100), "n2jsec", d, m)
    BY <1>4 DEF get_zitaport_, Placed
  <1> QED
    BY <1>1, <1>2, <1>3, <1>4 DEF Sockets

LEMMA ReceivedFacts ==
  ASSUME IInv, NEW d \in Devices, Running(d), NEW m \in Received(built[d], d)
  PROVE  m \in Devices /\ m # d /\ Room[m] = Room[d]
  BY DEF IInv, Base, Formed, Received

LEMMA XPortsKnown ==
  ASSUME IInv, NEW d \in Devices, Running(d)
  PROVE  built[d].render.xrecport \subseteq xrecports(d)
  BY DEF IInv, Base, Formed

(* Every socket but those of the additional ports is among the reserved.   *)
LEMMA SocketReserved ==
  ASSUME IInv, NEW machine, NEW k \in Sockets(machine)
  PROVE  \E d \in Devices : /\ Machine[d] = machine
                            /\ k.udp \in xrecports(d) \cup Reserved
  <1>1. PICK d \in Devices : Placed(k, d, machine)
    BY SocketKinds
  <1>2. k.udp \in built[d].render.xrecport => k.udp \in xrecports(d)
    BY <1>1, XPortsKnown DEF Placed
  <1>3. portoffset(d) \in {0, 64}
    BY Offsets
  <1>4. \A m \in Devices : Id[m] \in Int /\ 0 <= Id[m] /\ Id[m] <= 31
    BY Offsets
  <1>5. k.from \in Zita(built[d], d) => k.from \in Devices
    BY DEF Zita, Received
  <1> QED
    BY <1>1, <1>2, <1>3, <1>4, <1>5 DEF Reserved, Placed

(* What s sends to the audio port of its stage id arrives, on the computer *)
(* of another member r, only at the network receivers r has for s.  The    *)
(* second receiver of a secondary client is left out: its packets reach    *)
(* the one that the primary client on this computer has for the same id.   *)
LEMMA AudioSockets ==
  ASSUME IInv, PortsApart, NEW s \in Devices, NEW r \in Devices, s # r, Room[s] = Room[r],
         NEW k \in Sockets(Machine[r]), k.udp \in HandedTo(r, 4464 + 2 * Id[s]),
         r \in Secondary /\ built[r].render.secrec => k.kind # "n2jsec"
  PROVE  /\ k.owner = r /\ k.from = s /\ Running(r) /\ s \in Zita(built[r], r)
         /\ k = [udp |-> k.udp, kind |-> k.kind, owner |-> k.owner, from |-> k.from]
         /\ \/ k.kind = "n2j" /\ k.udp = 4464 + 2 * Id[s] + portoffset(r)
            \/ /\ k.kind = "n2jsec" /\ s \in SecondaryBus(built[r], r)
               /\ k.udp = 4464 + 2 * Id[s] + portoffset(r) + 100
  <1>1. PICK d \in Devices : Placed(k, d, Machine[r])
    BY SocketKinds
  <1>2. /\ k.udp \in {4464 + 2 * Id[s] + portoffset(r), 4464 + 2 * Id[s] + 100}
        /\ k.udp # 4464 + 2 * Id[r] + portoffset(r)
        /\ r \in Secondary /\ k.kind = "n2jsec" => k.udp = 4464 + 2 * Id[s] + portoffset(r)
    BY ZitaPort DEF HandedTo, When, recport
  <1>3. portoffset(d) \in {0, 64} /\ portoffset(r) = IF r \in Secondary THEN 64 ELSE 0
    BY Offsets
  <1>4. \A m \in Devices : Id[m] \in Int /\ 0 <= Id[m] /\ Id[m] <= 31
    BY Offsets
  <1>5. k.from \in Zita(built[d], d) => k.from \in Devices /\ Room[k.from] = Room[d]
    BY <1>1, ReceivedFacts DEF Zita, Placed
  <1>6. k.udp \notin built[d].render.xrecport
    <2>1. k.udp \in Reserved
      BY <1>2, <1>3, <1>4 DEF Reserved
    <2> QED
      BY <1>1, <2>1, XPortsKnown DEF PortsApart, Placed
  <1>7. d # r => portoffset(d) # portoffset(r)
    BY <1>1, Offsets DEF Placed
  <1>8. portoffset(d) = 64 \/ portoffset(r) = 64 =>
          \A e, f \in Devices : Id[e] # Id[f] + 18
    BY Offsets DEF PortsApart
  <1>9. Id[s] # Id[r] /\ \A m \in Devices : Room[m] = Room[s] /\ Id[m] = Id[s] => m = s
    BY SessionAssumption
  <1>10. k.kind # "tascar"
    BY <1>1, <1>2, <1>3, <1>4 DEF Placed
  <1>11. k.kind # "ovbox"
    <2>1. k.udp # 9870 + portoffset(d)
      BY <1>2, <1>3, <1>4
    <2>2. k.udp # 4464 + 2 * Id[d] + portoffset(d)
      BY <1>2, <1>3, <1>4, <1>7, <1>8, <1>9
    <2> QED
      BY <1>1, <1>6, <2>1, <2>2 DEF Placed
  <1>12. CASE /\ k.kind = "n2j" /\ k.from \in Zita(built[d], d)
              /\ k.udp = 4464 + 2 * Id[k.from] + portoffset(d)
    <2>1. k.from \in Devices
      BY <1>5, <1>12
    <2>2. portoffset(d) = portoffset(r) /\ Id[k.from] = Id[s]
      BY <1>2, <1>3, <1>4, <1>8, <1>12, <2>1
    <2>3. d = r /\ k.from = s
      BY <1>5, <1>7, <1>9, <1>12, <2>1, <2>2
    <2> QED
      BY <1>1, <1>12, <2>3 DEF Placed
  <1>13. CASE /\ k.kind = "n2jsec"
              /\ k.from \in Zita(built[d], d) \cap SecondaryBus(built[d], d)
              /\ k.udp = 4464 + 2 * Id[k.from] + portoffset(d) + 100
    <2>1. k.from \in Devices
      BY <1>5, <1>13
    <2>2. portoffset(d) = portoffset(r) /\ Id[k.from] = Id[s]
      BY <1>2, <1>3, <1>4, <1>8, <1>13, <2>1
    <2>3. d = r /\ k.from = s
      BY <1>5, <1>7, <1>9, <1>13, <2>1, <2>2
    <2> QED
      BY <1>1, <1>13, <2>3 DEF Placed
  <1> QED
    BY <1>1, <1>10, <1>11, <1>12, <1>13 DEF Placed

(* Head tracking reaches the server of the other session.                  *)
LEMMA HeadSockets ==
  ASSUME IInv, PortsApart, NEW r \in Devices,
         NEW k \in Sockets(Machine[r]), k.udp \in HandedTo(r, 9871)
  PROVE  k.owner = r /\ k.kind = "tascar"
  <1>1. PICK d \in Devices : Placed(k, d, Machine[r])
    BY SocketKinds
  <1>2. k.udp \in {9871 + portoffset(r), 9871 + 100}
    BY DEF HandedTo, When
  <1>3. portoffset(d) \in {0, 64} /\ portoffset(r) \in {0, 64}
    BY Offsets
  <1>4. \A m \in Devices : Id[m] \in Int /\ 0 <= Id[m] /\ Id[m] <= 31
    BY Offsets
  <1>5. k.from \in Zita(built[d], d) => k.from \in Devices
    BY DEF Zita, Received
  <1>6. k.udp \notin built[d].render.xrecport
    <2>1. k.udp \in Reserved
      BY <1>2, <1>3 DEF Reserved
    <2> QED
      BY <1>1, <2>1, XPortsKnown DEF PortsApart, Placed
  <1>7. d # r => portoffset(d) # portoffset(r)
    BY <1>1, Offsets DEF Placed
  <1>8. k.kind = "tascar"
    BY <1>1, <1>2, <1>3, <1>4, <1>5, <1>6 DEF Placed
  <1> QED
    BY <1>1, <1>2, <1>3, <1>7, <1>8 DEF Placed

(* The session of r has one server, and it listens where head tracking is  *)
(* handed to.                                                              *)
LEMMA HeadServer ==
  ASSUME IInv, PortsApart, NEW r \in Devices, Running(r)
  PROVE  LET server == {k \in Sockets(Machine[r]) : k.kind = "tascar" /\ k.owner = r}
         IN /\ Cardinality(server) = 1
            /\ {k \in Sockets(Machine[r]) : k.udp \in HandedTo(r, 9871)} = server
  <1> DEFINE server == {k \in Sockets(Machine[r]) : k.kind = "tascar" /\ k.owner = r}
             one == [udp |-> 9871 + portoffset(r), kind |-> "tascar", owner |-> r, from |-> r]
  <1>1. one \in Sockets(Machine[r])
    BY DEF Sockets, my_tascarport
  <1>2. ASSUME NEW k \in Sockets(Machine[r]), k.kind = "tascar", k.owner = r PROVE k = one
    <2>1. PICK d \in Devices : Placed(k, d, Machine[r])
      BY SocketKinds
    <2>2. d = r /\ k.udp = 9871 + portoffset(r) /\ k.from = r
      BY <1>2, <2>1 DEF Placed
    <2> QED
      BY <1>2, <2>1, <2>2 DEF Placed
  <1>3. server = {one}
    BY <1>1, <1>2
  <1>4. one.udp \in HandedTo(r, 9871)
    <2>1. recport(r) = 4464 + 2 * Id[r] + portoffset(r)
      BY ZitaPort DEF recport
    <2>2. 9871 + portoffset(r) # recport(r)
      BY <2>1, Offsets
    <2> QED
      BY <2>2 DEF HandedTo
  <1>5. {k \in Sockets(Machine[r]) : k.udp \in HandedTo(r, 9871)} = server
    BY <1>3, <1>4, HeadSockets
  <1> HIDE DEF one
  <1>6. Cardinality(server) = 1
    BY <1>3, FS_Singleton
  <1> QED
    BY <1>5, <1>6

(* Nothing listens where a member hands what others send with their        *)
(* additional ports.                                                       *)
LEMMA ExtraSockets ==
  ASSUME IInv, PortsApart, NEW s \in Devices, NEW r \in Devices, s # r, Room[s] = Room[r],
         Running(s), NEW p \in built[s].render.xrecport, NEW k \in Sockets(Machine[r])
  PROVE  k.udp \notin HandedTo(r, p)
  <1>1. p \in xrecports(s)
    BY XPortsKnown
  <1>2. PICK d \in Devices : Machine[d] = Machine[r] /\ k.udp \in xrecports(d) \cup Reserved
    BY SocketReserved
  <1>3. {p + portoffset(r), p + 100} \cap (xrecports(d) \cup Reserved) = {}
    BY <1>1, <1>2 DEF PortsApart
  <1> QED
    BY <1>2, <1>3 DEF HandedTo, When

-----------------------------------------------------------------------------
(* What clients know of each other.                                        *)

LEMMA ModeFlags ==
  ASSUME NEW d
  PROVE  /\ "p2p" \in mode(d) <=> built[d].render.peer2peer
         /\ "donotsend" \in mode(d) <=> ~built[d].render.receive
         /\ "recmix" \in mode(d) <=> built[d].thisdevice.receivedownmix
         /\ "sendmix" \in mode(d) <=> built[d].thisdevice.senddownmix
  BY DEF mode, When

(* Who is acquainted goes by what is true.                                 *)
LEMMA TrueEntries ==
  ASSUME IInv, NEW s \in Clients, NEW r \in Clients, Acquainted(s, r)
  PROVE  /\ Listed(s, r) = Truth(r) /\ Served(s) = Truth(s) /\ Served(r) = Truth(r)
         /\ Truth(s).on /\ Truth(s).mode = mode(s)
         /\ Truth(r).on /\ Truth(r).mode = mode(r)
  <1>1. s \in Devices /\ r \in Devices
    BY DEF Clients
  <1>2. CASE setup.late
    BY <1>1, <1>2 DEF Acquainted, IInv, Informed, Joined, Listed, Served, Truth
  <1>3. CASE ~setup.late
    BY <1>3 DEF Listed, Served, TruthNow, Truth
  <1> QED
    BY <1>2, <1>3

-----------------------------------------------------------------------------
(* No circles.  Audio that comes back goes from one downmix into another   *)
(* one; but who sends a downmix takes none.                                *)

Mixes(x) == built[x].thisdevice.senddownmix /\ ~built[x].thisdevice.receivedownmix

LEMMA DownmixConnection ==
  ASSUME NEW s, NEW d, NEW c \in Connections(s, d), c[1][1] = "scene", c[2][1] = "sender"
  PROVE  InVirtualRoom(s) /\ s.thisdevice.senddownmix
  <1>1. c \notin NetworkConnections(s, d)
    <2> SUFFICES ASSUME NEW m \in Received(s, d),
                        c \in ReceiverConnections(s, d, m) \cup SecondaryConnections(s, d, m)
                 PROVE  FALSE
      BY DEF NetworkConnections
    <2>1. c[1][1] \in {"n2j", "route", "n2jsec"}
      BY DEF ReceiverConnections, SecondaryConnections, Port
    <2> QED
      BY <2>1
  <1>2. c \notin MetronomeConnections(s, d)
    BY DEF MetronomeConnections, Port
  <1>3. \A k \in Indices(s.thisdevice) : c \notin OwnConnections(s, d, k)
    BY DEF OwnConnections, get_channel_source, Port
  <1>4. c \in OutputConnections(s, d)
    BY <1>1, <1>2, <1>3 DEF Connections
  <1> QED
    BY <1>4 DEF OutputConnections, When, Port

LEMMA Returned ==
  ASSUME IInv, PortsApart, NEW s \in Clients, NEW x, Returns(s, x)
  PROVE  /\ x \in Clients /\ Passes(s, x, recport(s))
         /\ s \in Received(built[x], x) /\ Mixes(x)
  <1>1. PICK r \in Clients, l \in Local(s) : \E k \in Reached(s, r, l) :
          /\ k.owner = x
          /\ \/ k.kind = "ovbox"
             \/ k.kind = "n2j" /\ \E c \in Connections(built[x], x), n \in {1, 2} :
                  c[1] = MainPort(built[x], x, n) /\ c[2] = Port("sender", x, "in", n)
    BY DEF Returns
  <1>2. PICK k \in Reached(s, r, l) :
          /\ k.owner = x
          /\ \/ k.kind = "ovbox"
             \/ k.kind = "n2j" /\ \E c \in Connections(built[x], x), n \in {1, 2} :
                  c[1] = MainPort(built[x], x, n) /\ c[2] = Port("sender", x, "in", n)
    BY <1>1
  <1>3. /\ k \in Sockets(Machine[r]) /\ Passes(s, r, l[1]) /\ k.udp \in HandedTo(r, l[2])
        /\ s \in Devices /\ r \in Devices /\ Running(s) /\ s # r /\ Room[s] = Room[r]
    BY <1>2 DEF Reached, Passes, Clients
  <1>4. \/ l[2] = 4464 + 2 * Id[s] /\ l[1] = recport(s)
        \/ l[2] = 9871
        \/ l[2] \in built[s].render.xrecport
    <2>1. recport(s) - portoffset(s) = 4464 + 2 * Id[s]
      BY <1>3, ZitaPort, Offsets DEF recport
    <2> QED
      BY <2>1 DEF Local, When, recport
  <1>5. l[2] # 9871
    BY <1>2, <1>3, HeadSockets
  <1>6. l[2] \notin built[s].render.xrecport
    BY <1>3, ExtraSockets
  <1>7. x = r /\ k.kind = "n2j" /\ s \in Zita(built[r], r) /\ l[1] = recport(s)
    BY <1>2, <1>3, <1>4, <1>5, <1>6, AudioSockets
  <1>8. InVirtualRoom(built[x]) /\ built[x].thisdevice.senddownmix
    BY <1>2, <1>7, DownmixConnection DEF MainPort, Port
  <1> QED
    BY <1>3, <1>7, <1>8 DEF Zita, Mixes, InVirtualRoom, Virtual

(* Among peers a downmix gets into another one only by a stale entry, or   *)
(* while the other has not registered, and so does not send to anybody.    *)
LEMMA StaleReturns ==
  ASSUME IInv, PortsApart, NEW s \in Clients, NEW x \in Clients,
         built[s].render.peer2peer, built[x].render.peer2peer,
         Mixes(s), Mixes(x), Passes(s, x, recport(s))
  PROVE  setup.late /\ Joined(s) /\ (Joined(x) => Stale(s, x))
  <1>1. /\ s # x /\ s \in Devices /\ x \in Devices
        /\ x \in Peers(s) \/ (sendtoserver(s) /\ Relays(s, x))
    BY DEF Passes, Clients
  <1>2. /\ "p2p" \in mode(s) /\ "p2p" \in mode(x)
        /\ "sendmix" \in mode(s) /\ "recmix" \notin mode(x)
    BY ModeFlags DEF Mixes
  <1>3. /\ Truth(s).mode = mode(s) /\ Truth(x).mode = mode(x)
    BY DEF Truth
  <1>4. x \in Peers(s) => "recmix" \in Listed(s, x).mode /\ Listed(s, x).on
    BY <1>2 DEF Peers, PeerTargets, Targets
  <1>5. ASSUME Served(s) = Truth(s), Served(x) = Truth(x) PROVE ~Relays(s, x)
    BY <1>2, <1>3, <1>5 DEF Relays
  <1>6. setup.late
    <2> SUFFICES ASSUME ~setup.late PROVE FALSE
      OBVIOUS
    <2>1. Listed(s, x) = Truth(x) /\ Served(s) = Truth(s) /\ Served(x) = Truth(x)
      BY DEF Listed, Served, TruthNow
    <2> QED
      BY <1>1, <1>2, <1>3, <1>4, <1>5, <2>1
  <1>7. \E o \in Devices : lists[s][o].on
    <2>1. CASE x \in Peers(s)
      BY <1>1, <1>4, <1>6, <2>1 DEF Listed
    <2>2. CASE sendtoserver(s)
      <3>1. Targets(s) # PeerTargets(s)
        BY <1>2, <2>2 DEF sendtoserver, peer2peer
      <3>2. PICK o \in Targets(s) : TRUE
        BY <3>1 DEF PeerTargets
      <3> QED
        BY <1>6, <3>2 DEF Targets, Listed
    <2> QED
      BY <1>1, <2>1, <2>2
  <1>8. Joined(s)
    BY <1>1, <1>7 DEF IInv, Informed
  <1>9. ASSUME Joined(x) PROVE Stale(s, x)
    <2>1. Served(s) = Truth(s) /\ Served(x) = Truth(x)
      BY <1>1, <1>6, <1>8, <1>9 DEF IInv, Informed, Served
    <2>2. x \in Peers(s)
      BY <1>1, <1>5, <2>1
    <2> QED
      BY <1>2, <1>4, <1>6, <1>8, <1>9, <2>2 DEF Stale, Listed
  <1> QED
    BY <1>6, <1>8, <1>9

(* Nothing goes round in circles: not from mix to mix, and not from the    *)
(* ports messages are handed to into those a client listens on, while      *)
(* peers run any sessions with lists that may lag behind (recsrv goes by   *)
(* ep.mode), or relayed ones up-to-date sessions.                          *)
THEOREM NoAudioReturnsHolds == Spec => []NoAudioReturns
  <1>1. IInv => NoAudioReturns
    <2> SUFFICES ASSUME IInv, PortsApart,
                        \/ \A d \in Clients : built[d].render.peer2peer
                        \/ \A d \in Clients : UpToDate(d),
                        NEW circle \in (SUBSET Clients) \ {{}},
                        \A x \in circle : \E s \in circle : Returns(s, x)
                 PROVE  FALSE
      BY DEF NoAudioReturns
    <2>1. PICK x \in circle, s \in circle : Returns(s, x)
      OBVIOUS
    <2>2. s \in Clients /\ x \in Clients /\ s \in Devices /\ x \in Devices
      BY DEF Clients
    <2>3. \A y, z \in circle : Returns(y, z) =>
             /\ Passes(y, z, recport(y)) /\ y \in Received(built[z], z)
             /\ Mixes(z)
      BY Returned
    <2>4. \A y \in circle : Mixes(y)
      BY <2>3
    <2>5. CASE \A d \in Clients : built[d].render.peer2peer
      <3> DEFINE D == {y \in circle : \E z \in circle : Returns(y, z)}
      <3>1. \A y, z \in circle : Returns(y, z) => Joined(y) /\ (Joined(z) => Stale(y, z))
        BY <2>3, <2>4, <2>5, StaleReturns
      <3>2. ASSUME NEW z \in D PROVE \E y \in D : Stale(y, z)
        <4>1. PICK y \in circle : Returns(y, z)
          OBVIOUS
        <4>2. Joined(z)
          BY <3>1
        <4>3. y \in D
          BY <4>1
        <4> QED
          BY <3>1, <4>1, <4>2, <4>3
      <3>3. D \subseteq Devices
        BY DEF Clients
      <3>4. s \in D
        BY <2>1
      <3> HIDE DEF D
      <3> QED
        BY <3>2, <3>3, <3>4 DEF IInv, NoStaleCircle
    <2>6. CASE \A d \in Clients : UpToDate(d)
      <3>1. built[x] = Polled(x) /\ built[s] = Polled(s)
        BY <2>2, <2>6 DEF UpToDate, IInv, Base
      <3>2. built[s].thisdevice = config[s].dev
        BY <3>1 DEF Polled
      <3>3. built[x].stage[s].present /\ built[x].stage[s].senddownmix = built[x].thisdevice.receivedownmix
        BY <2>1, <2>3 DEF Received
      <3>4. built[x].stage[s] = config[s].dev
        BY <2>2, <3>1, <3>3 DEF Polled, Absent
      <3> QED
        BY <2>4, <3>2, <3>3, <3>4 DEF Mixes
    <2> QED
      BY <2>5, <2>6
  <1> QED
    BY <1>1, Invariance, PTL

-----------------------------------------------------------------------------
(* Members hear each other once.                                           *)

(* What up-to-date sessions know of each other.                            *)
LEMMA Known ==
  ASSUME IInv, NEW s \in Devices, NEW r \in Devices, Room[s] = Room[r],
         UpToDate(s), UpToDate(r)
  PROVE  /\ built[s] = stage[s] /\ built[r] = stage[r]
         /\ stage[s] \in Stage /\ stage[r] \in Stage /\ Formed(stage[r], r)
         /\ stage[s].host = stage[s].thisdevice.present
         /\ stage[r].host /\ stage[s].host => stage[r].stage[s] = stage[s].thisdevice
         /\ stage[r].stage[s].present => stage[r].stage[s] = stage[s].thisdevice
  <1>1. /\ built[s] = stage[s] /\ built[r] = stage[r]
        /\ stage[s] = Polled(s) /\ stage[r] = Polled(r)
        /\ stage[s] \in Stage /\ stage[r] \in Stage /\ Formed(stage[r], r)
    BY DEF IInv, Base, Typed, UpToDate
  <1>2. stage[s].thisdevice = config[s].dev /\ stage[s].host = config[s].dev.present
    BY <1>1 DEF Polled
  <1>3. stage[r].host = config[r].dev.present
        /\ stage[r].stage[s] = IF config[r].dev.present /\ config[s].dev.present
                               THEN config[s].dev ELSE Absent
    BY <1>1 DEF Polled
  <1> QED
    BY <1>1, <1>2, <1>3 DEF Absent

(* If s sends what r takes, r has a network receiver for s, and they agree *)
(* on the channels unless s mixes down without virtual acoustics.          *)
LEMMA FitsReceived ==
  ASSUME IInv, NEW s \in Devices, NEW r \in Devices, s # r, Room[s] = Room[r],
         UpToDate(s), UpToDate(r), Acquainted(s, r), Fits(s, r)
  PROVE  /\ Passes(s, r, recport(s)) /\ s \in Zita(built[r], r)
         /\ ~(InRawRoom(stage[s]) /\ stage[s].thisdevice.senddownmix) =>
              SenderChannels(built[s]) = chanlist(built[r].stage[s])
  <1> DEFINE from == stage[s]
             to == stage[r]
             member == stage[s].thisdevice
  <1>1. /\ from.host /\ to.host /\ SenderChannels(from) # {} /\ ~member.nozita
        /\ to.render.receive /\ member.senddownmix = to.thisdevice.receivedownmix
    BY DEF Fits
  <1>2. /\ built[s] = from /\ built[r] = to /\ from \in Stage /\ to \in Stage
        /\ to.stage[s] = member /\ member.present
    BY <1>1, Known
  <1>3. member \in Member /\ to.thisdevice \in Member
    BY <1>2, StageType
  <1>4. Passes(s, r, recport(s))
    <2>1. s \in Clients /\ r \in Clients
      BY <1>1, <1>2 DEF Clients, UpToDate
    <2>2. /\ Listed(s, r).on /\ Listed(s, r).mode = mode(r)
          /\ Served(s).on /\ Served(s).mode = mode(s)
          /\ Served(r).on /\ Served(r).mode = mode(r)
      BY <2>1, TrueEntries
    <2>3. "donotsend" \notin mode(r) /\ (("recmix" \in mode(r)) = ("sendmix" \in mode(s)))
      <3>1. ("recmix" \in mode(r)) <=> ("sendmix" \in mode(s))
        BY <1>1, <1>2, ModeFlags
      <3> QED
        BY <1>1, <1>2, <3>1, ModeFlags
    <2>4. r \in Targets(s)
      BY <2>2 DEF Targets
    <2>5. CASE peer2peer(s) /\ "p2p" \in mode(r)
      <3>1. r \in Peers(s)
        BY <2>2, <2>3, <2>4, <2>5 DEF Peers, PeerTargets, Wanted
      <3> QED
        BY <2>1, <3>1 DEF Passes
    <2>6. CASE ~(peer2peer(s) /\ "p2p" \in mode(r))
      <3>1. sendtoserver(s)
        BY <2>2, <2>4, <2>6 DEF sendtoserver, PeerTargets
      <3>2. Relays(s, r)
        BY <2>2, <2>3, <2>6 DEF Relays, peer2peer
      <3> QED
        BY <2>1, <3>1, <3>2 DEF Passes
    <2> QED
      BY <2>5, <2>6
  <1>5. Virtual(to) => Sends(member) /\ ~member.senddownmix
    <2> SUFFICES ASSUME Virtual(to) PROVE Sends(member) /\ ~member.senddownmix
      OBVIOUS
    <2>1. ~member.senddownmix
      BY <1>1, <1>3 DEF Virtual, Member
    <2>2. SenderChannels(from) \subseteq Indices(member)
      BY <2>1 DEF SenderChannels
    <2> QED
      BY <1>1, <1>3, <2>1, <2>2, MemberType
  <1>6. s \in Zita(built[r], r)
    BY <1>1, <1>2, <1>5 DEF Zita, Received
  <1>7. ASSUME ~(InRawRoom(from) /\ member.senddownmix)
        PROVE  SenderChannels(from) = chanlist(member)
    <2>1. CASE InRawRoom(from)
      BY <1>3, <1>7, <2>1, MemberType DEF SenderChannels
    <2>2. CASE ~InRawRoom(from) /\ member.senddownmix
      BY <1>1, <1>3, <2>2, MemberType DEF SenderChannels
    <2>3. CASE ~InRawRoom(from) /\ ~member.senddownmix
      BY <1>1, <1>3, <2>3, MemberType DEF SenderChannels
    <2> QED
      BY <2>1, <2>2, <2>3
  <1> QED
    BY <1>2, <1>4, <1>6, <1>7

(* The programs on a computer that send to the audio port of the client    *)
(* are the network sender, if there is one, and no others.                 *)
LEMMA LocalAudio ==
  ASSUME IInv, PortsApart, NEW s \in Devices, Running(s)
  PROVE  /\ \A l \in Local(s) : l[1] = recport(s) =>
              l[2] = 4464 + 2 * Id[s] /\ SenderChannels(built[s]) # {}
         /\ \A l \in Local(s) : l[1] = dist_to_other_tascarport(s) => l[2] = 9871
         /\ dist_to_other_tascarport(s) # recport(s)
         /\ SenderChannels(built[s]) # {} => <<recport(s), 4464 + 2 * Id[s]>> \in Local(s)
  <1>1. /\ recport(s) = 4464 + 2 * Id[s] + portoffset(s)
        /\ recport(s) - portoffset(s) = 4464 + 2 * Id[s]
        /\ dist_to_other_tascarport(s) = 9870 + portoffset(s)
        /\ recport(s) # dist_to_other_tascarport(s)
        /\ recport(s) \in Reserved /\ dist_to_other_tascarport(s) \in Reserved
    BY ZitaPort, Offsets DEF recport, dist_to_other_tascarport, Reserved
  <1>2. \A p \in built[s].render.xrecport : p \notin Reserved
    BY XPortsKnown DEF PortsApart
  <1>3. zitaport(s, s) = recport(s)
    BY DEF recport
  <1>4. ASSUME NEW l \in Local(s)
        PROVE  \/ l = <<recport(s), 4464 + 2 * Id[s]>> /\ SenderChannels(built[s]) # {}
               \/ l = <<dist_to_other_tascarport(s), 9871>>
               \/ \E p \in built[s].render.xrecport : l = <<p, p>>
    BY <1>1, <1>3 DEF Local, When
  <1>5. SenderChannels(built[s]) # {} => <<recport(s), 4464 + 2 * Id[s]>> \in Local(s)
    BY <1>1, <1>3 DEF Local, When
  <1> QED
    BY <1>1, <1>2, <1>4, <1>5

LEMMA LocalHead ==
  ASSUME IInv, PortsApart, NEW s \in Devices, Running(s),
         NEW l \in Local(s), l[1] = dist_to_other_tascarport(s)
  PROVE  l[2] = 9871 /\ l[1] # recport(s)
  <1>1. /\ \A x \in Local(s) : x[1] = recport(s) =>
              x[2] = 4464 + 2 * Id[s] /\ SenderChannels(built[s]) # {}
        /\ \A x \in Local(s) : x[1] = dist_to_other_tascarport(s) => x[2] = 9871
        /\ dist_to_other_tascarport(s) # recport(s)
        /\ SenderChannels(built[s]) # {} => <<recport(s), 4464 + 2 * Id[s]>> \in Local(s)
    BY LocalAudio
  <1> QED
    BY <1>1

LEMMA PairCardinality ==
  ASSUME NEW a, NEW b, a # b
  PROVE  Cardinality({a}) = 1 /\ Cardinality({a, b}) = 2
  <1>1. IsFiniteSet({a}) /\ Cardinality({a}) = 1
    BY FS_Singleton
  <1>2. Cardinality({a} \cup {b}) = 2
    BY <1>1, FS_AddElement
  <1>3. {a, b} = {a} \cup {b}
    OBVIOUS
  <1> QED
    BY <1>1, <1>2, <1>3

(* The sockets that get the audio of s on the computer of r.               *)
Got(s, r) == UNION {Reached(s, r, l) : l \in {x \in Local(s) : x[1] = recport(s)}}

Receiver(kind, s, r) ==
  [udp |-> 4464 + 2 * Id[s] + portoffset(r) + (IF kind = "n2j" THEN 0 ELSE 100),
   kind |-> kind, owner |-> r, from |-> s]

LEMMA GotReceivers ==
  ASSUME IInv, PortsApart, NEW s \in Devices, NEW r \in Devices, s # r, Room[s] = Room[r],
         UpToDate(s), UpToDate(r), Acquainted(s, r),
         ~(r \in Secondary /\ stage[r].render.secrec)
  PROVE  /\ Fits(s, r) => Got(s, r) = {Receiver("n2j", s, r)} \cup
              When(stage[r].render.secrec, {Receiver("n2jsec", s, r)})
         /\ ~Fits(s, r) => Got(s, r) = {}
  <1>1. /\ built[s] = stage[s] /\ built[r] = stage[r] /\ Running(s) /\ Running(r)
        /\ stage[r].stage[s].present => stage[r].stage[s] = stage[s].thisdevice
    BY Known DEF UpToDate
  <1>5. /\ \A l \in Local(s) : l[1] = recport(s) =>
              l[2] = 4464 + 2 * Id[s] /\ SenderChannels(built[s]) # {}
        /\ SenderChannels(built[s]) # {} => <<recport(s), 4464 + 2 * Id[s]>> \in Local(s)
    <2>1. Running(s)
      BY <1>1
    <2> QED
      BY <2>1, LocalAudio
  <1>2. ASSUME NEW k \in Got(s, r)
        PROVE  /\ SenderChannels(built[s]) # {} /\ Passes(s, r, recport(s))
               /\ s \in Zita(built[r], r)
               /\ \/ k = Receiver("n2j", s, r)
                  \/ k = Receiver("n2jsec", s, r) /\ s \in SecondaryBus(built[r], r)
    <2>1. PICK l \in Local(s) : l[1] = recport(s) /\ k \in Reached(s, r, l)
      BY DEF Got
    <2>2. l[2] = 4464 + 2 * Id[s] /\ SenderChannels(built[s]) # {}
      BY <1>5, <2>1
    <2>3. /\ k \in Sockets(Machine[r]) /\ Passes(s, r, recport(s))
          /\ k.udp \in HandedTo(r, 4464 + 2 * Id[s])
      BY <2>1, <2>2 DEF Reached
    <2>4. /\ k.owner = r /\ k.from = s /\ s \in Zita(built[r], r)
          /\ k = [udp |-> k.udp, kind |-> k.kind, owner |-> k.owner, from |-> k.from]
          /\ \/ k.kind = "n2j" /\ k.udp = 4464 + 2 * Id[s] + portoffset(r)
             \/ /\ k.kind = "n2jsec" /\ s \in SecondaryBus(built[r], r)
                /\ k.udp = 4464 + 2 * Id[s] + portoffset(r) + 100
      BY <1>1, <2>3, AudioSockets
    <2>5. 4464 + 2 * Id[s] + portoffset(r) + 0 = 4464 + 2 * Id[s] + portoffset(r)
      BY Offsets
    <2> QED
      BY <2>2, <2>3, <2>4, <2>5 DEF Receiver
  <1>3. ASSUME ~Fits(s, r), NEW k \in Got(s, r) PROVE FALSE
    <2>1. /\ SenderChannels(stage[s]) # {} /\ Passes(s, r, recport(s)) /\ s \in Zita(stage[r], r)
      BY <1>1, <1>2, <1>3
    <2>2. stage[s].host /\ stage[r].host
      BY <1>1, <2>1 DEF Passes, Clients
    <2>3. /\ stage[r].render.receive /\ stage[r].stage[s].present /\ ~stage[r].stage[s].nozita
          /\ stage[r].stage[s].senddownmix = stage[r].thisdevice.receivedownmix
      BY <2>1 DEF Zita, Received
    <2> QED
      BY <1>1, <1>3, <2>1, <2>2, <2>3 DEF Fits
  <1>4. ASSUME Fits(s, r)
        PROVE  Got(s, r) = {Receiver("n2j", s, r)} \cup
                 When(stage[r].render.secrec, {Receiver("n2jsec", s, r)})
    <2> DEFINE port == 4464 + 2 * Id[s]
    <2>1. Passes(s, r, recport(s)) /\ s \in Zita(built[r], r) /\ SenderChannels(built[s]) # {}
      BY <1>1, <1>4, FitsReceived DEF Fits
    <2>2. s \in SecondaryBus(built[r], r) <=> stage[r].render.secrec
      BY <1>1, <2>1 DEF SecondaryBus, When, Zita
    <2>3. \A k \in Sockets(Machine[r]) : k.udp \in HandedTo(r, port) => k \in Got(s, r)
      <3> DEFINE l == <<recport(s), port>>
      <3>1. l \in Local(s) /\ l[1] = recport(s) /\ l[2] = port
        BY <1>5, <2>1
      <3>2. Reached(s, r, l) \subseteq Got(s, r)
        BY <3>1 DEF Got
      <3>3. Reached(s, r, l) = {k \in Sockets(Machine[r]) : k.udp \in HandedTo(r, port)}
        BY <2>1, <3>1 DEF Reached
      <3> QED
        BY <3>1, <3>2, <3>3
    <2>4. portoffset(r) = IF r \in Secondary THEN 64 ELSE 0
      BY Offsets
    <2>5. Id[s] # Id[r] /\ \A d \in Devices : Id[d] \in Int /\ 0 <= Id[d] /\ Id[d] <= 31
      BY Offsets, SessionAssumption
    <2>6. recport(r) = 4464 + 2 * Id[r] + portoffset(r)
      BY ZitaPort DEF recport
    <2>7. Receiver("n2j", s, r) \in Got(s, r)
      <3>1. zitaport(r, s) = Receiver("n2j", s, r).udp
        BY <2>4, <2>5, ZitaPort DEF Receiver
      <3>2. Receiver("n2j", s, r) \in Sockets(Machine[r])
        BY <1>1, <2>1, <3>1 DEF Sockets, Receiver
      <3>3. Receiver("n2j", s, r).udp = port + portoffset(r)
        BY <2>4, <2>5 DEF Receiver
      <3>4. port + portoffset(r) # recport(r)
        BY <2>4, <2>5, <2>6
      <3>5. port + portoffset(r) \in HandedTo(r, port)
        BY <3>4 DEF HandedTo
      <3> QED
        BY <2>3, <3>2, <3>3, <3>5
    <2>8. ASSUME stage[r].render.secrec PROVE Receiver("n2jsec", s, r) \in Got(s, r)
      <3>1. portoffset(r) = 0
        BY <2>4, <2>8
      <3>2. get_zitaport_(Id[s], portoffset(r), 100) = Receiver("n2jsec", s, r).udp
        BY <3>1, <2>5 DEF Receiver, get_zitaport_
      <3>3. Receiver("n2jsec", s, r) \in Sockets(Machine[r])
        BY <1>1, <2>1, <2>2, <2>8, <3>2 DEF Sockets, Receiver
      <3>4. Receiver("n2jsec", s, r).udp = port + 100
        BY <3>1, <2>5 DEF Receiver
      <3>5. port + 100 # recport(r)
        BY <3>1, <2>5, <2>6
      <3>6. port + 100 \in HandedTo(r, port)
        BY <1>1, <2>8, <3>5 DEF HandedTo, When
      <3> QED
        BY <2>3, <3>3, <3>4, <3>6
    <2>9. ASSUME NEW k \in Got(s, r)
          PROVE  \/ k = Receiver("n2j", s, r)
                 \/ k = Receiver("n2jsec", s, r) /\ stage[r].render.secrec
      <3>1. CASE k = Receiver("n2j", s, r)
        BY <3>1
      <3>2. CASE k = Receiver("n2jsec", s, r) /\ s \in SecondaryBus(built[r], r)
        BY <2>2, <3>2
      <3> QED
        BY <1>2, <3>1, <3>2
    <2> QED
      BY <2>7, <2>8, <2>9 DEF When
  <1> QED
    BY <1>3, <1>4

(* Head tracking is passed to those that receive, by way of the server     *)
(* only from clients that are no peers, or for the sake of others.         *)
LEMMA HeadPasses ==
  ASSUME IInv, PortsApart, NEW s \in Devices, NEW r \in Devices, s # r, Room[s] = Room[r],
         UpToDate(s), UpToDate(r), Acquainted(s, r),
         NEW l \in Local(s), l[1] = dist_to_other_tascarport(s)
  PROVE  /\ Passes(s, r, l[1]) => stage[r].host /\ stage[r].render.receive
         /\ /\ stage[r].host /\ stage[r].render.receive
            /\ ~stage[s].render.peer2peer \/ stage[r].render.peer2peer
            => Passes(s, r, l[1])
  <1>1. Running(s) /\ Running(r) /\ built[s] = stage[s] /\ built[r] = stage[r]
    BY Known DEF UpToDate
  <1>2. l[1] # recport(s)
    BY <1>1, LocalHead
  <1>3. s \in Clients
    <2>1. ASSUME ~built[s].host PROVE FALSE
      <3>1. /\ recport(s) \in Nat /\ dist_to_other_tascarport(s) \in Reserved
            /\ l \notin {<<zitaport(s, s), recport(s) - portoffset(s)>>}
        BY <1>1, <1>2, ZitaPort, Offsets
           DEF recport, dist_to_other_tascarport, Reserved
      <3>2. l[1] \in built[s].render.xrecport
        BY <2>1, <3>1 DEF Local, When, InVirtualRoom
      <3> QED
        BY <1>1, <3>1, <3>2, XPortsKnown DEF PortsApart
    <2> QED
      BY <1>1, <2>1 DEF Clients
  <1>4. Passes(s, r, l[1]) =>
          r \in Clients /\ (r \in XPeers(s) \/ (xsendtoserver(s) /\ Relays(s, r)))
    BY <1>2 DEF Passes
  <1>5. /\ r \in Clients <=> stage[r].host
        /\ "donotsend" \in mode(r) <=> ~stage[r].render.receive
        /\ peer2peer(s) <=> stage[s].render.peer2peer
        /\ "p2p" \in mode(r) <=> stage[r].render.peer2peer
        /\ "p2p" \in mode(s) <=> stage[s].render.peer2peer
    BY <1>1, ModeFlags DEF Clients, peer2peer
  <1>6. r \in Clients =>
          /\ Listed(s, r).on /\ Listed(s, r).mode = mode(r)
          /\ Served(s).on /\ Served(s).mode = mode(s)
          /\ Served(r).on /\ Served(r).mode = mode(r)
    BY <1>3, TrueEntries
  <1>7. Passes(s, r, l[1]) => stage[r].host /\ stage[r].render.receive
    BY <1>4, <1>5, <1>6 DEF XPeers, Wanted, Relays
  <1>8. ASSUME stage[r].host, stage[r].render.receive,
               ~stage[s].render.peer2peer \/ stage[r].render.peer2peer
        PROVE  Passes(s, r, l[1])
    <2>1. r \in Clients /\ "donotsend" \notin mode(r)
      BY <1>5, <1>8
    <2>2. CASE stage[s].render.peer2peer
      <3>1. r \in XPeers(s)
        BY <1>5, <1>6, <1>8, <2>1, <2>2 DEF XPeers, PeerTargets, Targets, Wanted
      <3> QED
        BY <1>2, <1>3, <2>1, <3>1 DEF Passes
    <2>3. CASE ~stage[s].render.peer2peer
      <3>1. xsendtoserver(s) /\ Relays(s, r)
        BY <1>5, <1>6, <2>1, <2>3 DEF xsendtoserver, Relays
      <3> QED
        BY <1>2, <1>3, <2>1, <3>1 DEF Passes
    <2> QED
      BY <2>2, <2>3
  <1> QED
    BY <1>7, <1>8

(* Only receivers feed what comes after them. *)
LEMMA FromReceiver ==
  ASSUME NEW s, NEW d, NEW c \in Connections(s, d), c[1][1] \in {"n2j", "route"}
  PROVE  \E m \in Received(s, d) : c \in ReceiverConnections(s, d, m)
  <1>1. \A m \in Received(s, d) : c \notin SecondaryConnections(s, d, m)
    BY DEF SecondaryConnections, Port
  <1>2. c \notin MetronomeConnections(s, d)
    BY DEF MetronomeConnections, Port
  <1>3. \A k \in Indices(s.thisdevice) : c \notin OwnConnections(s, d, k)
    BY DEF OwnConnections, get_channel_source, Port
  <1>4. c \notin OutputConnections(s, d)
    BY DEF OutputConnections, MainPort, Port
  <1>5. c \in NetworkConnections(s, d)
    BY <1>2, <1>3, <1>4 DEF Connections
  <1> QED
    BY <1>1, <1>5 DEF NetworkConnections

LEMMA OneWay ==
  ASSUME IInv, NEW s \in Devices, NEW r \in Devices, Running(r),
         s \in Zita(built[r], r), NEW k \in chanlist(built[r].stage[s])
  PROVE  Cardinality(Ways(s, r, k)) = 1
  <1> DEFINE b == built[r]
             member == b.stage[s]
             to(p) == {c \in Connections(b, r) : c[1] = p /\ c[2] \in Ports(b, r)}
             out == Port("n2j", s, "out", k)
             route == Port("route", s, "out", k)
  <1>1. b \in Stage /\ Formed(b, r) /\ s \in Received(b, r) /\ member \in Member
    BY StageType DEF IInv, Base, Typed, Zita
  <1>2. ReceiverConnections(b, r, s) \subseteq Connections(b, r)
    BY <1>1 DEF Connections, NetworkConnections
  <1>3. \A c \in ReceiverConnections(b, r, s) : c[2] \in Ports(b, r)
    BY <1>1, ReceiverEnds
  <1>4. CASE Virtual(b)
    <2> DEFINE e == <<out, Port("sound", s, "in", destname(member, k))>>
    <2>1. k \in Indices(member)
      BY <1>1, <1>4, MemberType, StageType DEF Received, Virtual, Member
    <2>2. e \in ReceiverConnections(b, r, s)
      BY <1>4, <2>1 DEF ReceiverConnections, When
    <2>3. ASSUME NEW c \in Connections(b, r), c[1] = out PROVE c = e
      <3>1. c[1][1] = "n2j"
        BY <2>3 DEF Port
      <3>2. PICK m \in Received(b, r) : c \in ReceiverConnections(b, r, m)
        BY <3>1, FromReceiver
      <3>3. PICK i : c = <<Port("n2j", m, "out", i),
                           Port("sound", m, "in", destname(b.stage[m], i))>>
        BY <1>4, <3>2 DEF ReceiverConnections
      <3>4. m = s /\ i = k
        BY <2>3, <3>3 DEF Port
      <3> QED
        BY <3>3, <3>4
    <2>4. to(out) = {e}
      BY <1>2, <1>3, <2>2, <2>3
    <2>5. Ways(s, r, k) = to(out)
      BY <1>4 DEF Ways
    <2> QED
      BY <2>4, <2>5, FS_Singleton
  <1>5. CASE ~Virtual(b)
    <2> DEFINE e == <<out, Port("route", s, "in", k)>>
               f == <<route, Port("main", r, "in", mixside(b, r, s, k))>>
    <2>1. e \in ReceiverConnections(b, r, s) /\ f \in ReceiverConnections(b, r, s)
      BY <1>5 DEF ReceiverConnections, When
    <2>2. ASSUME NEW c \in Connections(b, r), c[1] = out \/ c[1] = route
          PROVE  (c[1] = out => c = e) /\ (c[1] = route => c = f)
      <3>1. c[1][1] \in {"n2j", "route"}
        BY <2>2 DEF Port
      <3>2. PICK m \in Received(b, r) : c \in ReceiverConnections(b, r, m)
        BY <3>1, FromReceiver
      <3>3. \E i : \/ c = <<Port("n2j", m, "out", i), Port("route", m, "in", i)>>
                   \/ c = <<Port("route", m, "out", i), Port("main", r, "in", mixside(b, r, m, i))>>
        BY <1>5, <3>2 DEF ReceiverConnections
      <3> QED
        BY <3>3 DEF Port
    <2>3. to(out) = {e} /\ to(route) = {f}
      BY <1>2, <1>3, <2>1, <2>2
    <2>4. Ways(s, r, k) = to(out) \X to(route)
      BY <1>5 DEF Ways
    <2> HIDE DEF e, f, to
    <2>5. Ways(s, r, k) = {<<e, f>>}
      <3>1. Ways(s, r, k) = {e} \X {f}
        BY <2>3, <2>4
      <3>2. \A w : w \in {e} \X {f} <=> w = <<e, f>>
        OBVIOUS
      <3> QED
        BY <3>1, <3>2
    <2> QED
      BY <2>5, FS_Singleton
  <1> QED
    BY <1>4, <1>5

(* Members whose sessions are up to date hear each other once, on every    *)
(* stage whose ports do not meet: port numbers are computed in five places *)
(* and agree (get_zitaport_, ovboxclient_t, recsrv, process_msg, xrecsrv). *)
THEOREM HeardOnceHolds == Spec => []HeardOnce
  <1>1. IInv => HeardOnce
    <2> SUFFICES ASSUME IInv, PortsApart, NEW s \in Devices, NEW r \in Devices,
                        s # r, Room[s] = Room[r], UpToDate(s), UpToDate(r),
                        Acquainted(s, r), ~(r \in Secondary /\ stage[r].render.secrec)
          PROVE
      /\ LET kinds == {"n2j"} \cup When(stage[r].render.secrec, {"n2jsec"})
         IN IF Fits(s, r)
            THEN /\ {<<k.kind, k.owner, k.from>> : k \in Got(s, r)}
                      = {<<kind, r, s>> : kind \in kinds}
                 /\ Cardinality(Got(s, r)) = Cardinality(kinds)
                 /\ ~(InRawRoom(stage[s]) /\ stage[s].thisdevice.senddownmix) =>
                      SenderChannels(built[s]) = chanlist(built[r].stage[s])
                 /\ \A k \in chanlist(stage[s].thisdevice) :
                      Cardinality(Ways(s, r, k)) = 1
            ELSE Got(s, r) = {}
      /\ \A l \in Local(s) : l[1] = dist_to_other_tascarport(s) =>
           LET server == {k \in Sockets(Machine[r]) : k.kind = "tascar" /\ k.owner = r}
               receives == stage[r].host /\ stage[r].render.receive
               served == ~stage[s].render.peer2peer \/ stage[r].render.peer2peer
           IN /\ Cardinality(server) = 1
              /\ Reached(s, r, l) \subseteq When(receives, server)
              /\ receives /\ served => Reached(s, r, l) = server
      BY DEF HeardOnce, Got
    <2>1. ASSUME NEW l \in Local(s), l[1] = dist_to_other_tascarport(s)
          PROVE  LET server == {k \in Sockets(Machine[r]) : k.kind = "tascar" /\ k.owner = r}
                     receives == stage[r].host /\ stage[r].render.receive
                     served == ~stage[s].render.peer2peer \/ stage[r].render.peer2peer
                 IN /\ Cardinality(server) = 1
                    /\ Reached(s, r, l) \subseteq When(receives, server)
                    /\ receives /\ served => Reached(s, r, l) = server
      <3> DEFINE server == {k \in Sockets(Machine[r]) : k.kind = "tascar" /\ k.owner = r}
      <3>1. Running(s) /\ Running(r)
        BY DEF UpToDate
      <3>2. l[2] = 9871
        BY <2>1, <3>1, LocalHead
      <3>3. /\ Cardinality(server) = 1
            /\ {k \in Sockets(Machine[r]) : k.udp \in HandedTo(r, 9871)} = server
        BY <3>1, HeadServer
      <3> HIDE DEF server
      <3>4. /\ Passes(s, r, l[1]) => Reached(s, r, l) = server
            /\ ~Passes(s, r, l[1]) => Reached(s, r, l) = {}
        BY <3>2, <3>3 DEF Reached
      <3>5. /\ Passes(s, r, l[1]) => stage[r].host /\ stage[r].render.receive
            /\ /\ stage[r].host /\ stage[r].render.receive
               /\ ~stage[s].render.peer2peer \/ stage[r].render.peer2peer
               => Passes(s, r, l[1])
        BY <2>1, HeadPasses
      <3> QED
        BY <3>3, <3>4, <3>5 DEF When, server
    <2>2. CASE ~Fits(s, r)
      BY <2>1, <2>2, GotReceivers
    <2>3. CASE Fits(s, r)
      <3> DEFINE kinds == {"n2j"} \cup When(stage[r].render.secrec, {"n2jsec"})
                 n2j == Receiver("n2j", s, r)
                 n2jsec == Receiver("n2jsec", s, r)
      <3>1. Got(s, r) = {n2j} \cup When(stage[r].render.secrec, {n2jsec})
        BY <2>3, GotReceivers
      <3>2. /\ n2j.kind = "n2j" /\ n2j.owner = r /\ n2j.from = s
            /\ n2jsec.kind = "n2jsec" /\ n2jsec.owner = r /\ n2jsec.from = s
            /\ n2j # n2jsec
        BY DEF Receiver
      <3>3. {<<k.kind, k.owner, k.from>> : k \in Got(s, r)} = {<<kind, r, s>> : kind \in kinds}
        BY <3>1, <3>2 DEF When
      <3>4. Cardinality(Got(s, r)) = Cardinality(kinds)
        <4>1. CASE stage[r].render.secrec
          <5>1. Got(s, r) = {n2j, n2jsec} /\ kinds = {"n2j", "n2jsec"}
            BY <3>1, <4>1 DEF When
          <5>2. Cardinality({n2j, n2jsec}) = 2
            BY <3>2, PairCardinality
          <5>3. Cardinality({"n2j", "n2jsec"}) = 2
            <6>1. "n2j" # "n2jsec"
              OBVIOUS
            <6> QED
              BY <6>1, PairCardinality
          <5> QED
            BY <5>1, <5>2, <5>3
        <4>2. CASE ~stage[r].render.secrec
          <5>1. Got(s, r) = {n2j} /\ kinds = {"n2j"}
            BY <3>1, <4>2 DEF When
          <5> QED
            BY <5>1, FS_Singleton
        <4> QED
          BY <4>1, <4>2
      <3>5. /\ s \in Zita(built[r], r)
            /\ ~(InRawRoom(stage[s]) /\ stage[s].thisdevice.senddownmix) =>
                 SenderChannels(built[s]) = chanlist(built[r].stage[s])
        BY <2>3, FitsReceived
      <3>6. built[r].stage[s] = stage[s].thisdevice /\ Running(r)
        BY <2>3, Known DEF Fits, UpToDate
      <3>7. \A k \in chanlist(stage[s].thisdevice) : Cardinality(Ways(s, r, k)) = 1
        BY <3>5, <3>6, OneWay
      <3> QED
        BY <2>1, <2>3, <3>3, <3>4, <3>5, <3>7
    <2> QED
      BY <2>2, <2>3
  <1> QED
    BY <1>1, Invariance, PTL

=============================================================================
