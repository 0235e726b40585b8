------------------------- MODULE CallerListProofs --------------------------
(***************************************************************************)
(* Theorems about the member list and its two threads, for every list      *)
(* size, timeout, set of modes and reporting period.                       *)
(***************************************************************************)
EXTENDS CallerList, TLAPS

(* Positions of the status thread within the loop over the list. *)
InLoop == {"check", "live", "mark", "load", "store", "dead", "reset"}

(* The mutex is held exactly while a thread is in its critical section. *)
Mutex ==
  /\ recv.pc \in {"announced", "mode", "timeout", "count", "store"} <=> mstat = "recv"
  /\ sp \in {"report", "clear"} <=> mstat = "status"

(* Between seeing a nonzero timeout and writing the decremented one, only  *)
(* the status thread could make it zero.                                   *)
Countdown ==
  /\ \A c \in Cid : endpoints[c].timeout <= TIMEOUT
  /\ loaded <= TIMEOUT
  /\ sp \in {"live", "mark", "load"} => endpoints[cur].timeout # 0
  /\ sp = "store" => loaded # 0

(* The announced flag is only set while the member counts as announced,    *)
(* but for the entry that is just being reset.                             *)
Announced ==
  /\ \A c \in Cid :
       endpoints[c].announced => c \in told \/ (sp = "reset" /\ c = cur)
  /\ sp = "mark" => cur \in told

(* What was counted and not reported, while a report is being made and    *)
(* while a ping time is being counted, too.                                *)
Reported ==
  /\ \A c \in Cid :
       unreported[c] <= IF sp = "clear" /\ c = cur THEN 0 ELSE endpoints[c].pingt_n
  /\ recv.pc \in {"trylock", "count"} => endpoints[recv.cid].pingt_n < MaxPing
  /\ recv.pc = "store" => unreported[recv.cid] <= recv.n /\ recv.n < MaxPing

Position ==
  /\ sp \in InLoop \cup {"clear"} => cur \in Cid
  /\ sp \in {"lock", "report", "clear"} => statlogcnt >= 1

IInv == TypeOK /\ Mutex /\ Countdown /\ Announced /\ Reported /\ Position

USE DEF Cid

LEMMA Constants ==
  /\ Num \in Nat /\ Num > 0
  /\ TIMEOUT \in 0 .. UIntMax /\ TIMEOUT > 0 /\ UIntMax \in Nat
  /\ P2P \in Mode
  /\ MaxPing \in Nat
  /\ \A p \in LogPeriods : p \in Nat /\ p > 0
  BY CallerListAssumption

LEMMA EntryFields ==
  ASSUME NEW e \in Entry
  PROVE  /\ e.timeout \in 0 .. UIntMax
         /\ e.announced \in BOOLEAN
         /\ e.pingt_n \in 0 .. MaxPing
  BY DEF Entry

(* What a change of one entry leaves alone. *)
LEMMA EntryChanged ==
  ASSUME TypeOK, NEW c \in Cid, NEW e \in Entry,
         endpoints' = [endpoints EXCEPT ![c] = e]
  PROVE  /\ endpoints' \in [Cid -> Entry]
         /\ endpoints'[c] = e
         /\ \A d \in Cid \ {c} : endpoints'[d] = endpoints[d]
  BY DEF TypeOK

(* The types of what the steps read. *)
LEMMA Facts ==
  ASSUME IInv
  PROVE  /\ \A c \in Cid : /\ endpoints[c] \in Entry
                           /\ endpoints[c].timeout \in 0 .. UIntMax
                           /\ endpoints[c].announced \in BOOLEAN
                           /\ endpoints[c].pingt_n \in 0 .. MaxPing
                           /\ unreported[c] \in Int
         /\ loaded \in 0 .. UIntMax /\ cur \in 0 .. Num /\ statlogcnt \in Nat
         /\ recv.pc \in RecvSteps /\ recv.cid \in Cid
         /\ recv.mode \in Mode /\ recv.n \in 0 .. MaxPing
  <1>1. \A c \in Cid : endpoints[c] \in Entry
    BY DEF IInv, TypeOK
  <1> QED
    BY <1>1, EntryFields DEF IInv, TypeOK, RecvState

(* The values the steps give the state of the receiving thread. *)
LEMMA RecvValues ==
  ASSUME TypeOK
  PROVE  /\ Idle \in RecvState /\ Idle.pc = "idle"
         /\ \A s \in RecvSteps :
              LET r == [recv EXCEPT !.pc = s]
              IN  r \in RecvState /\ r.pc = s /\ r.cid = recv.cid /\ r.n = recv.n
  <1>1. Idle \in RecvState /\ Idle.pc = "idle"
    BY Constants DEF Idle, RecvState, RecvSteps
  <1> QED
    BY <1>1 DEF TypeOK, RecvState

LEMMA IInvInit == Init => IInv
  <1> SUFFICES ASSUME Init PROVE IInv
    OBVIOUS
  <1>1. FreshEntry \in Entry
    BY Constants DEF FreshEntry, Entry
  <1>2. Idle \in RecvState /\ Idle.pc = "idle"
    BY Constants DEF Idle, RecvState, RecvSteps
  <1>3. TypeOK
    BY <1>1, <1>2, Constants DEF Init, TypeOK, StatusSteps
  <1> QED
    BY <1>2, <1>3, Constants
    DEF Init, IInv, Mutex, Countdown, Announced, Reported, Position, InLoop,
        FreshEntry

LEMMA RegAnnouncedStep == ASSUME IInv, RegAnnounced PROVE IInv'
  <1> DEFINE c == recv.cid
             e == [endpoints[c] EXCEPT !.announced =
                     IF recv.mode = endpoints[c].mode THEN @ ELSE FALSE]
  <1>1. TypeOK /\ c \in Cid /\ endpoints[c] \in Entry
    BY Facts DEF IInv
  <1>2. e \in Entry
    BY <1>1 DEF Entry
  <1>3. /\ e.announced => endpoints[c].announced
        /\ e.timeout = endpoints[c].timeout /\ e.pingt_n = endpoints[c].pingt_n
    BY <1>1 DEF Entry
  <1>4. endpoints' = [endpoints EXCEPT ![c] = e]
    BY DEF RegAnnounced
  <1> HIDE DEF e
  <1>5. /\ endpoints' \in [Cid -> Entry] /\ endpoints'[c] = e
        /\ \A d \in Cid \ {c} : endpoints'[d] = endpoints[d]
    BY <1>1, <1>2, <1>4, EntryChanged
  <1>6. recv' \in RecvState /\ recv'.pc = "mode" /\ recv.pc = "announced"
    BY <1>1, RecvValues DEF RegAnnounced, RecvGoto, RecvSteps
  <1>7. TypeOK'
    BY <1>1, <1>5, <1>6 DEF RegAnnounced, statusVars, TypeOK
  <1>8. Mutex' /\ Position'
    BY <1>6 DEF RegAnnounced, statusVars, IInv, Mutex, Position
  <1>9. Countdown'
    BY <1>1, <1>3, <1>5 DEF RegAnnounced, statusVars, IInv, Countdown
  <1>10. Announced'
    BY <1>1, <1>3, <1>5 DEF RegAnnounced, statusVars, IInv, Announced
  <1>11. Reported'
    BY <1>1, <1>3, <1>5, <1>6 DEF RegAnnounced, statusVars, IInv, Reported
  <1> QED
    BY <1>7, <1>8, <1>9, <1>10, <1>11 DEF IInv

LEMMA RegModeStep == ASSUME IInv, RegMode PROVE IInv'
  <1> DEFINE c == recv.cid
             e == [endpoints[c] EXCEPT !.mode = recv.mode]
  <1>1. TypeOK /\ c \in Cid /\ endpoints[c] \in Entry /\ recv.mode \in Mode
    BY Facts DEF IInv
  <1>2. e \in Entry
    BY <1>1 DEF Entry
  <1>3. /\ e.announced = endpoints[c].announced
        /\ e.timeout = endpoints[c].timeout /\ e.pingt_n = endpoints[c].pingt_n
    BY <1>1 DEF Entry
  <1>4. endpoints' = [endpoints EXCEPT ![c] = e]
    BY DEF RegMode
  <1> HIDE DEF e
  <1>5. /\ endpoints' \in [Cid -> Entry] /\ endpoints'[c] = e
        /\ \A d \in Cid \ {c} : endpoints'[d] = endpoints[d]
    BY <1>1, <1>2, <1>4, EntryChanged
  <1>6. recv' \in RecvState /\ recv'.pc = "timeout" /\ recv.pc = "mode"
    BY <1>1, RecvValues DEF RegMode, RecvGoto, RecvSteps
  <1>7. TypeOK'
    BY <1>1, <1>5, <1>6 DEF RegMode, statusVars, TypeOK
  <1>8. Mutex' /\ Position'
    BY <1>6 DEF RegMode, statusVars, IInv, Mutex, Position
  <1>9. Countdown'
    BY <1>1, <1>3, <1>5 DEF RegMode, statusVars, IInv, Countdown
  <1>10. Announced'
    BY <1>1, <1>3, <1>5 DEF RegMode, statusVars, IInv, Announced
  <1>11. Reported'
    BY <1>1, <1>3, <1>5, <1>6 DEF RegMode, statusVars, IInv, Reported
  <1> QED
    BY <1>7, <1>8, <1>9, <1>10, <1>11 DEF IInv

LEMMA RegTimeoutStep == ASSUME IInv, RegTimeout PROVE IInv'
  <1> DEFINE c == recv.cid
             e == [endpoints[c] EXCEPT !.timeout = TIMEOUT]
  <1>1. TypeOK /\ c \in Cid /\ endpoints[c] \in Entry
    BY Facts DEF IInv
  <1>2. e \in Entry
    BY <1>1, Constants DEF Entry
  <1>3. /\ e.announced = endpoints[c].announced
        /\ e.timeout = TIMEOUT /\ e.pingt_n = endpoints[c].pingt_n
    BY <1>1 DEF Entry
  <1>4. endpoints' = [endpoints EXCEPT ![c] = e]
    BY DEF RegTimeout
  <1> HIDE DEF e
  <1>5. /\ endpoints' \in [Cid -> Entry] /\ endpoints'[c] = e
        /\ \A d \in Cid \ {c} : endpoints'[d] = endpoints[d]
    BY <1>1, <1>2, <1>4, EntryChanged
  <1>6. recv' \in RecvState /\ recv'.pc = "idle" /\ recv.pc = "timeout"
    BY <1>1, RecvValues DEF RegTimeout
  <1>7. TypeOK'
    <2>1. age' \in [Cid -> 0 .. TIMEOUT]
      BY <1>1, Constants DEF RegTimeout, TypeOK
    <2> QED
      BY <1>1, <1>5, <1>6, <2>1 DEF RegTimeout, statusVars, TypeOK
  <1>8. Mutex' /\ Position'
    BY <1>6 DEF RegTimeout, statusVars, IInv, Mutex, Position
  <1>9. Countdown'
    BY <1>1, <1>3, <1>5, Constants DEF RegTimeout, statusVars, IInv, Countdown
  <1>10. Announced'
    BY <1>1, <1>3, <1>5 DEF RegTimeout, statusVars, IInv, Announced
  <1>11. Reported'
    BY <1>1, <1>3, <1>5, <1>6 DEF RegTimeout, statusVars, IInv, Reported
  <1> QED
    BY <1>7, <1>8, <1>9, <1>10, <1>11 DEF IInv

LEMMA PingTimeoutStep ==
  ASSUME IInv, NEW c \in Cid, PingTimeout(c) PROVE IInv'
  <1> DEFINE e == [endpoints[c] EXCEPT !.timeout = TIMEOUT]
  <1>1. TypeOK /\ endpoints[c] \in Entry
    BY Facts DEF IInv
  <1>2. e \in Entry
    BY <1>1, Constants DEF Entry
  <1>3. /\ e.announced = endpoints[c].announced
        /\ e.timeout = TIMEOUT /\ e.pingt_n = endpoints[c].pingt_n
    BY <1>1 DEF Entry
  <1>4. endpoints' = [endpoints EXCEPT ![c] = e]
    BY DEF PingTimeout
  <1> HIDE DEF e
  <1>5. /\ endpoints' \in [Cid -> Entry] /\ endpoints'[c] = e
        /\ \A d \in Cid \ {c} : endpoints'[d] = endpoints[d]
    BY <1>1, <1>2, <1>4, EntryChanged
  <1>6. /\ recv' \in RecvState /\ recv.pc = "idle"
        /\ \/ recv' = recv
           \/ /\ recv'.pc = "trylock" /\ recv'.cid = c
              /\ endpoints[c].pingt_n < MaxPing
    <2> DEFINE r == [pc |-> "trylock", cid |-> c, mode |-> P2P, n |-> 0]
    <2>1. r \in RecvState /\ r.pc = "trylock" /\ r.cid = c
      BY Constants DEF RecvState, RecvSteps
    <2> QED
      BY <1>1, <2>1 DEF PingTimeout, TypeOK
  <1>7. TypeOK'
    BY <1>1, <1>5, <1>6 DEF PingTimeout, statusVars, TypeOK
  <1>8. Mutex' /\ Position'
    BY <1>6 DEF PingTimeout, statusVars, IInv, Mutex, Position
  <1>9. Countdown'
    BY <1>1, <1>3, <1>5, Constants DEF PingTimeout, statusVars, IInv, Countdown
  <1>10. Announced'
    BY <1>1, <1>3, <1>5 DEF PingTimeout, statusVars, IInv, Announced
  <1>11. Reported'
    BY <1>1, <1>3, <1>5, <1>6 DEF PingTimeout, statusVars, IInv, Reported
  <1> QED
    BY <1>7, <1>8, <1>9, <1>10, <1>11 DEF IInv

LEMMA PingLockStep == ASSUME IInv, PingLock PROVE IInv'
  <1>1. TypeOK /\ recv.cid \in Cid
    BY Facts DEF IInv
  <1>2. /\ recv' \in RecvState /\ recv.pc = "trylock"
        /\ \/ mstat = "none" /\ mstat' = "recv"
              /\ recv'.pc = "count" /\ recv'.cid = recv.cid
           \/ mstat # "none" /\ mstat' = mstat /\ recv'.pc = "idle"
    <2> DEFINE r == [recv EXCEPT !.pc = "count"]
    <2>1. r \in RecvState /\ r.pc = "count" /\ r.cid = recv.cid
      BY <1>1, RecvValues DEF RecvSteps
    <2>2. Idle \in RecvState /\ Idle.pc = "idle"
      BY <1>1, RecvValues
    <2> QED
      BY <2>1, <2>2 DEF PingLock, RecvGoto
  <1>3. TypeOK'
    BY <1>1, <1>2 DEF PingLock, statusVars, TypeOK
  <1>4. Mutex' /\ Position'
    BY <1>2 DEF PingLock, statusVars, IInv, Mutex, Position
  <1>5. Countdown' /\ Announced'
    BY DEF PingLock, statusVars, IInv, Countdown, Announced
  <1>6. Reported'
    BY <1>2 DEF PingLock, statusVars, IInv, Reported
  <1> QED
    BY <1>3, <1>4, <1>5, <1>6 DEF IInv

LEMMA PingLoadStep == ASSUME IInv, PingLoad PROVE IInv'
  <1>1. TypeOK /\ recv.cid \in Cid /\ mstat = "recv" /\ sp # "clear"
    BY Facts DEF IInv, Mutex, PingLoad
  <1>2. /\ recv' \in RecvState /\ recv.pc = "count"
        /\ recv'.pc = "store" /\ recv'.cid = recv.cid
        /\ recv'.n = endpoints[recv.cid].pingt_n
    <2> DEFINE k == endpoints[recv.cid].pingt_n
               r == [recv EXCEPT !.pc = "store", !.n = k]
    <2>1. k \in 0 .. MaxPing
      BY <1>1, Facts
    <2>2. r \in RecvState /\ r.pc = "store" /\ r.cid = recv.cid /\ r.n = k
      BY <1>1, <2>1 DEF TypeOK, RecvState, RecvSteps
    <2> QED
      BY <2>2 DEF PingLoad
  <1>3. TypeOK'
    BY <1>1, <1>2 DEF PingLoad, statusVars, TypeOK
  <1>4. Mutex' /\ Position'
    BY <1>2 DEF PingLoad, statusVars, IInv, Mutex, Position
  <1>5. Countdown' /\ Announced'
    BY DEF PingLoad, statusVars, IInv, Countdown, Announced
  <1>6. Reported'
    BY <1>1, <1>2 DEF PingLoad, statusVars, IInv, Reported
  <1> QED
    BY <1>3, <1>4, <1>5, <1>6 DEF IInv

LEMMA PingStoreStep == ASSUME IInv, PingStore PROVE IInv'
  <1> DEFINE c == recv.cid
             e == [endpoints[c] EXCEPT !.pingt_n = recv.n + 1]
  <1>1. /\ TypeOK /\ c \in Cid /\ endpoints[c] \in Entry
        /\ recv.n \in 0 .. MaxPing /\ unreported[c] \in Int
    BY Facts DEF IInv
  <1>2. /\ recv.pc = "store" /\ mstat = "recv" /\ sp # "clear"
        /\ recv.n < MaxPing /\ unreported[c] <= recv.n
    BY DEF IInv, Mutex, Reported, PingStore
  <1>3. recv.n + 1 \in 0 .. MaxPing /\ unreported[c] + 1 <= recv.n + 1
    BY <1>1, <1>2, Constants
  <1>4. e \in Entry
    BY <1>1, <1>3 DEF Entry
  <1>5. /\ e.announced = endpoints[c].announced
        /\ e.timeout = endpoints[c].timeout /\ e.pingt_n = recv.n + 1
    BY <1>1 DEF Entry
  <1>6. endpoints' = [endpoints EXCEPT ![c] = e]
    BY DEF PingStore
  <1> HIDE DEF e
  <1>7. /\ endpoints' \in [Cid -> Entry] /\ endpoints'[c] = e
        /\ \A d \in Cid \ {c} : endpoints'[d] = endpoints[d]
    BY <1>1, <1>4, <1>6, EntryChanged
  <1>8. recv' \in RecvState /\ recv'.pc = "idle"
    BY <1>1, RecvValues DEF PingStore
  <1>9. /\ unreported' \in [Cid -> Int] /\ unreported'[c] = unreported[c] + 1
        /\ \A d \in Cid \ {c} : unreported'[d] = unreported[d]
    BY <1>1 DEF PingStore, TypeOK
  <1>10. TypeOK'
    BY <1>1, <1>7, <1>8, <1>9 DEF PingStore, statusVars, TypeOK
  <1>11. Mutex' /\ Position'
    BY <1>2, <1>8 DEF PingStore, statusVars, IInv, Mutex, Position
  <1>12. Countdown'
    BY <1>1, <1>5, <1>7 DEF PingStore, statusVars, IInv, Countdown
  <1>13. Announced'
    BY <1>1, <1>5, <1>7 DEF PingStore, statusVars, IInv, Announced
  <1>14. Reported'
    <2>1. sp' # "clear" /\ Reported
      BY <1>2 DEF PingStore, statusVars, IInv
    <2>2. unreported'[c] <= endpoints'[c].pingt_n
      BY <1>3, <1>5, <1>7, <1>9
    <2>3. \A d \in Cid \ {c} : unreported'[d] <= endpoints'[d].pingt_n
      BY <1>2, <1>7, <1>9, <2>1 DEF Reported
    <2> QED
      BY <1>8, <2>1, <2>2, <2>3 DEF Reported
  <1> QED
    BY <1>10, <1>11, <1>12, <1>13, <1>14 DEF IInv


LEMMA RegLockStep ==
  ASSUME IInv, NEW c \in Cid, NEW m \in Mode, RegLock(c, m) PROVE IInv'
  <1> DEFINE r == [pc |-> "announced", cid |-> c, mode |-> m, n |-> 0]
  <1>1. TypeOK
    BY DEF IInv
  <1>2. r \in RecvState /\ r.pc = "announced"
    BY Constants DEF RecvState, RecvSteps
  <1>3. recv' \in RecvState /\ recv'.pc = "announced" /\ recv.pc = "idle"
    BY <1>2 DEF RegLock
  <1>4. TypeOK'
    BY <1>1, <1>3 DEF RegLock, statusVars, TypeOK
  <1>5. Mutex' /\ Position'
    BY <1>3 DEF RegLock, statusVars, IInv, Mutex, Position
  <1>6. Countdown' /\ Announced'
    BY DEF RegLock, statusVars, IInv, Countdown, Announced
  <1>7. Reported'
    BY <1>3 DEF RegLock, statusVars, IInv, Reported
  <1> QED
    BY <1>4, <1>5, <1>6, <1>7 DEF IInv

(* The local address and the public key matter to nothing else. *)
LEMMA AddressStep ==
  ASSUME IInv, NEW c \in Cid, cid_setlocalip(c) \/ cid_set_pubkey(c) PROVE IInv'
  <1> DEFINE e == IF cid_setlocalip(c)
                  THEN [endpoints[c] EXCEPT !.has_localep = TRUE]
                  ELSE [endpoints[c] EXCEPT !.has_pubkey = TRUE]
  <1>1. TypeOK /\ endpoints[c] \in Entry
    BY Facts DEF IInv
  <1>2. /\ e \in Entry /\ e.announced = endpoints[c].announced
        /\ e.timeout = endpoints[c].timeout /\ e.pingt_n = endpoints[c].pingt_n
    BY <1>1 DEF Entry
  <1>3. /\ endpoints' = [endpoints EXCEPT ![c] = e]
        /\ UNCHANGED <<mstat, sp, cur, loaded, statlogcnt, logPeriod, recv,
                       active, told, age, unreported>>
    BY DEF cid_setlocalip, cid_set_pubkey, statusVars
  <1> HIDE DEF e
  <1>4. /\ endpoints' \in [Cid -> Entry] /\ endpoints'[c] = e
        /\ \A d \in Cid \ {c} : endpoints'[d] = endpoints[d]
    BY <1>1, <1>2, <1>3, EntryChanged
  <1>5. TypeOK'
    BY <1>1, <1>3, <1>4 DEF TypeOK
  <1>6. Mutex' /\ Position'
    BY <1>3 DEF IInv, Mutex, Position
  <1>7. Countdown'
    BY <1>2, <1>3, <1>4 DEF IInv, Countdown
  <1>8. Announced'
    BY <1>2, <1>3, <1>4 DEF IInv, Announced
  <1>9. Reported'
    BY <1>2, <1>3, <1>4 DEF IInv, Reported
  <1> QED
    BY <1>5, <1>6, <1>7, <1>8, <1>9 DEF IInv

LEMMA CheckTimeoutStep ==
  ASSUME IInv, StartRound \/ CheckTimeout PROVE IInv'
  <1>1. TypeOK'
    <2>1. sp' \in StatusSteps /\ cur' \in 0 .. Num
      BY Constants DEF StartRound, CheckTimeout, IInv, TypeOK, StatusSteps
    <2> QED
      BY <2>1 DEF StartRound, CheckTimeout, IInv, TypeOK
  <1>2. Mutex' /\ Position'
    BY Constants
    DEF StartRound, CheckTimeout, IInv, TypeOK, Mutex, Position, InLoop
  <1>3. Countdown'
    BY DEF StartRound, CheckTimeout, IInv, Countdown
  <1>4. Announced' /\ Reported'
    BY DEF StartRound, CheckTimeout, IInv, Announced, Reported
  <1> QED
    BY <1>1, <1>2, <1>3, <1>4 DEF IInv

LEMMA AnnounceNewStep == ASSUME IInv, AnnounceNew PROVE IInv'
  <1>1. cur \in Cid
    BY DEF AnnounceNew, IInv, Position, InLoop
  <1>2. TypeOK'
    BY <1>1 DEF AnnounceNew, IInv, TypeOK, StatusSteps
  <1>3. Mutex' /\ Position' /\ Countdown'
    BY <1>1 DEF AnnounceNew, IInv, Mutex, Position, InLoop, Countdown
  <1>4. Announced'
    BY <1>1 DEF AnnounceNew, IInv, Announced
  <1>5. Reported'
    BY DEF AnnounceNew, IInv, Reported
  <1> QED
    BY <1>2, <1>3, <1>4, <1>5 DEF IInv

LEMMA MarkAnnouncedStep == ASSUME IInv, MarkAnnounced PROVE IInv'
  <1> DEFINE e == [endpoints[cur] EXCEPT !.announced = TRUE]
  <1>1. cur \in Cid
    BY DEF MarkAnnounced, IInv, Position, InLoop
  <1>2. TypeOK /\ endpoints[cur] \in Entry
    BY <1>1, Facts DEF IInv
  <1>3. /\ e \in Entry
        /\ e.timeout = endpoints[cur].timeout /\ e.pingt_n = endpoints[cur].pingt_n
    BY <1>2 DEF Entry
  <1>4. endpoints' = [endpoints EXCEPT ![cur] = e]
    BY DEF MarkAnnounced
  <1> HIDE DEF e
  <1>5. /\ endpoints' \in [Cid -> Entry] /\ endpoints'[cur] = e
        /\ \A d \in Cid \ {cur} : endpoints'[d] = endpoints[d]
    BY <1>1, <1>2, <1>3, <1>4, EntryChanged
  <1>6. TypeOK'
    BY <1>2, <1>5 DEF MarkAnnounced, TypeOK, StatusSteps
  <1>7. Mutex' /\ Position'
    BY DEF MarkAnnounced, IInv, Mutex, Position, InLoop
  <1>8. Countdown'
    BY <1>1, <1>3, <1>5 DEF MarkAnnounced, IInv, Countdown
  <1>9. Announced'
    BY <1>1, <1>5 DEF MarkAnnounced, IInv, Announced
  <1>10. Reported'
    BY <1>1, <1>3, <1>5 DEF MarkAnnounced, IInv, Reported
  <1> QED
    BY <1>6, <1>7, <1>8, <1>9, <1>10 DEF IInv

LEMMA LoadTimeoutStep == ASSUME IInv, LoadTimeout PROVE IInv'
  <1>1. cur \in Cid
    BY DEF LoadTimeout, IInv, Position, InLoop
  <1>2. /\ loaded' = endpoints[cur].timeout /\ loaded' \in 0 .. UIntMax
        /\ loaded' # 0 /\ loaded' <= TIMEOUT
    BY <1>1, Facts DEF LoadTimeout, IInv, Countdown
  <1>3. TypeOK'
    BY <1>2 DEF LoadTimeout, IInv, TypeOK, StatusSteps
  <1>4. Mutex' /\ Position'
    BY <1>1 DEF LoadTimeout, IInv, Mutex, Position, InLoop
  <1>5. Countdown'
    BY <1>2 DEF LoadTimeout, IInv, Countdown
  <1>6. Announced' /\ Reported'
    BY DEF LoadTimeout, IInv, Announced, Reported
  <1> QED
    BY <1>3, <1>4, <1>5, <1>6 DEF IInv

(* The next position of the status thread in the list. *)
LEMMA NextEntryFacts ==
  ASSUME cur \in Cid, NextEntry
  PROVE  /\ (sp' = "check" /\ cur' \in Cid) \/ (sp' = "log" /\ cur' = 0)
         /\ cur' \in 0 .. Num
  <1>1. cur \in 0 .. (Num - 1) /\ Num \in Nat /\ Num > 0
    BY Constants
  <1>2. CASE cur + 1 < Num
    <2>1. sp' = "check" /\ cur' = cur + 1
      BY <1>2 DEF NextEntry
    <2>2. cur + 1 \in Cid /\ cur + 1 \in 0 .. Num
      BY <1>1, <1>2
    <2> QED
      BY <2>1, <2>2
  <1>3. CASE ~(cur + 1 < Num)
    BY <1>1, <1>3 DEF NextEntry
  <1> QED
    BY <1>2, <1>3

LEMMA StoreTimeoutStep == ASSUME IInv, StoreTimeout PROVE IInv'
  <1> DEFINE e == [endpoints[cur] EXCEPT !.timeout = Decremented(loaded)]
  <1>1. cur \in Cid /\ sp = "store"
    BY DEF StoreTimeout, IInv, Position, InLoop
  <1>2. TypeOK /\ endpoints[cur] \in Entry
    BY <1>1, Facts DEF IInv
  <1>3. loaded \in 0 .. UIntMax /\ loaded # 0 /\ loaded <= TIMEOUT
    BY <1>1, Facts DEF IInv, Countdown
  <1>4. /\ Decremented(loaded) = loaded - 1
        /\ loaded - 1 \in 0 .. UIntMax /\ loaded - 1 <= TIMEOUT
    BY <1>3, Constants DEF Decremented
  <1>5. /\ e \in Entry /\ e.announced = endpoints[cur].announced
        /\ e.timeout = loaded - 1 /\ e.pingt_n = endpoints[cur].pingt_n
    BY <1>2, <1>4 DEF Entry
  <1>6. endpoints' = [endpoints EXCEPT ![cur] = e]
    BY DEF StoreTimeout
  <1> HIDE DEF e
  <1>7. /\ endpoints' \in [Cid -> Entry] /\ endpoints'[cur] = e
        /\ \A d \in Cid \ {cur} : endpoints'[d] = endpoints[d]
    BY <1>1, <1>2, <1>5, <1>6, EntryChanged
  <1>8. /\ (sp' = "check" /\ cur' \in Cid) \/ (sp' = "log" /\ cur' = 0)
        /\ cur' \in 0 .. Num /\ loaded' = 0
    BY <1>1, NextEntryFacts DEF StoreTimeout
  <1>9. TypeOK'
    <2>1. age' \in [Cid -> 0 .. TIMEOUT]
      <3> DEFINE a == IF age[cur] < TIMEOUT THEN age[cur] + 1 ELSE age[cur]
      <3>1. age[cur] \in 0 .. TIMEOUT /\ TIMEOUT \in Nat
        BY <1>1, <1>2, Constants DEF TypeOK
      <3>2. a \in 0 .. TIMEOUT
        BY <3>1
      <3>3. age' = [age EXCEPT ![cur] = a]
        BY DEF StoreTimeout
      <3> HIDE DEF a
      <3> QED
        BY <1>2, <3>2, <3>3 DEF TypeOK
    <2>2. sp' \in StatusSteps /\ loaded' \in 0 .. UIntMax
      BY <1>8, Constants DEF StatusSteps
    <2> QED
      BY <1>2, <1>7, <1>8, <2>1, <2>2 DEF StoreTimeout, TypeOK
  <1>10. Mutex' /\ Position'
    BY <1>1, <1>8 DEF StoreTimeout, IInv, Mutex, Position, InLoop
  <1>11. Countdown'
    BY <1>4, <1>5, <1>7, <1>8, Constants DEF IInv, Countdown
  <1>12. Announced'
    BY <1>1, <1>5, <1>7, <1>8 DEF StoreTimeout, IInv, Announced
  <1>13. Reported'
    BY <1>1, <1>5, <1>7, <1>8 DEF StoreTimeout, IInv, Reported
  <1> QED
    BY <1>9, <1>10, <1>11, <1>12, <1>13 DEF IInv

LEMMA AnnounceLostStep == ASSUME IInv, AnnounceLost PROVE IInv'
  <1>1. TypeOK' /\ Mutex' /\ Position'
    BY DEF AnnounceLost, IInv, TypeOK, StatusSteps, Mutex, Position, InLoop
  <1>2. Countdown' /\ Announced'
    BY DEF AnnounceLost, IInv, Countdown, Announced
  <1>3. Reported'
    BY DEF AnnounceLost, IInv, Reported
  <1> QED
    BY <1>1, <1>2, <1>3 DEF IInv

LEMMA ResetEntryStep == ASSUME IInv, ResetEntry PROVE IInv'
  <1>1. cur \in Cid /\ sp = "reset" /\ TypeOK /\ Reported
    BY DEF ResetEntry, IInv, Position, InLoop
  <1>2. /\ FreshEntry \in Entry /\ ~FreshEntry.announced
        /\ FreshEntry.timeout = 0 /\ FreshEntry.pingt_n = 0
    BY Constants DEF Entry, FreshEntry
  <1>3. /\ endpoints' \in [Cid -> Entry] /\ endpoints'[cur] = FreshEntry
        /\ \A d \in Cid \ {cur} : endpoints'[d] = endpoints[d]
    BY <1>1, <1>2, EntryChanged DEF ResetEntry
  <1>4. /\ unreported' \in [Cid -> Int] /\ unreported'[cur] = 0
        /\ \A d \in Cid \ {cur} : unreported'[d] = unreported[d]
    BY <1>1 DEF ResetEntry, TypeOK
  <1>5. /\ (sp' = "check" /\ cur' \in Cid) \/ (sp' = "log" /\ cur' = 0)
        /\ cur' \in 0 .. Num
    BY <1>1, NextEntryFacts DEF ResetEntry
  <1>6. TypeOK'
    <2>1. sp' \in StatusSteps
      BY <1>5 DEF StatusSteps
    <2> QED
      BY <1>1, <1>3, <1>4, <1>5, <2>1 DEF ResetEntry, TypeOK
  <1>7. Mutex' /\ Position'
    BY <1>1, <1>5 DEF ResetEntry, IInv, Mutex, Position, InLoop
  <1>8. Countdown'
    BY <1>2, <1>3, <1>5, Constants DEF ResetEntry, IInv, Countdown
  <1>9. Announced'
    BY <1>1, <1>2, <1>3, <1>5 DEF ResetEntry, IInv, Announced
  <1>10. Reported'
    <2>1. sp' # "clear" /\ recv' = recv
      BY <1>5 DEF ResetEntry
    <2>2. \A d \in Cid : unreported'[d] <= endpoints'[d].pingt_n
      BY <1>1, <1>2, <1>3, <1>4 DEF Reported
    <2>3. recv.pc \in {"trylock", "count"} => endpoints'[recv.cid].pingt_n < MaxPing
      BY <1>1, <1>2, <1>3, Facts, Constants DEF Reported
    <2>4. recv.pc = "store" => unreported'[recv.cid] <= recv.n /\ recv.n < MaxPing
      BY <1>1, <1>4, Facts DEF Reported
    <2> QED
      BY <2>1, <2>2, <2>3, <2>4 DEF Reported
  <1> QED
    BY <1>6, <1>7, <1>8, <1>9, <1>10 DEF IInv

LEMMA SkipEntryStep == ASSUME IInv, SkipEntry PROVE IInv'
  <1>1. cur \in Cid /\ sp = "dead"
    BY DEF SkipEntry, IInv, Position, InLoop
  <1>2. /\ (sp' = "check" /\ cur' \in Cid) \/ (sp' = "log" /\ cur' = 0)
        /\ cur' \in 0 .. Num
    BY <1>1, NextEntryFacts DEF SkipEntry
  <1>3. TypeOK'
    <2>1. sp' \in StatusSteps
      BY <1>2 DEF StatusSteps
    <2> QED
      BY <1>2, <2>1 DEF SkipEntry, IInv, TypeOK
  <1>4. Mutex' /\ Position'
    BY <1>1, <1>2 DEF SkipEntry, IInv, Mutex, Position, InLoop
  <1>5. Countdown'
    BY <1>2 DEF SkipEntry, IInv, Countdown
  <1>6. Announced' /\ Reported'
    BY <1>1, <1>2 DEF SkipEntry, IInv, Announced, Reported
  <1> QED
    BY <1>3, <1>4, <1>5, <1>6 DEF IInv

LEMMA EndRoundStep == ASSUME IInv, EndRound PROVE IInv'
  <1>1. /\ sp = "log" /\ statlogcnt \in Nat
        /\ logPeriod \in LogPeriods /\ logPeriod \in Nat /\ logPeriod > 0
    BY Constants DEF EndRound, IInv, TypeOK
  <1>2. /\ sp' = "sleep" \/ (sp' = "lock" /\ statlogcnt' = logPeriod)
        /\ statlogcnt' \in Nat
    BY <1>1 DEF EndRound
  <1>3. TypeOK'
    BY <1>2 DEF EndRound, IInv, TypeOK, StatusSteps
  <1>4. Mutex' /\ Position'
    BY <1>1, <1>2 DEF EndRound, IInv, Mutex, Position, InLoop
  <1>5. Countdown'
    BY <1>2 DEF EndRound, IInv, Countdown
  <1>6. Announced' /\ Reported'
    BY <1>1, <1>2 DEF EndRound, IInv, Announced, Reported
  <1> QED
    BY <1>3, <1>4, <1>5, <1>6 DEF IInv

LEMMA ReportLockStep == ASSUME IInv, ReportLock PROVE IInv'
  <1>1. TypeOK'
    BY Constants DEF ReportLock, IInv, TypeOK, StatusSteps
  <1>2. Mutex' /\ Position'
    BY DEF ReportLock, IInv, Mutex, Position, InLoop
  <1>3. Countdown' /\ Announced'
    BY DEF ReportLock, IInv, Countdown, Announced
  <1>4. Reported'
    BY DEF ReportLock, IInv, Reported
  <1> QED
    BY <1>1, <1>2, <1>3, <1>4 DEF IInv

LEMMA ReportStep == ASSUME IInv, Report PROVE IInv'
  <1>1. cur \in Cid /\ sp = "report"
    BY Constants, Facts DEF Report
  <1>2. CASE endpoints[cur].timeout # 0
    <2>1. sp' = "clear" /\ cur' = cur
      BY <1>2 DEF Report
    <2>2. /\ unreported' \in [Cid -> Int]
          /\ unreported'[cur] = unreported[cur] - endpoints[cur].pingt_n
          /\ \A d \in Cid \ {cur} : unreported'[d] = unreported[d]
      <3>1. unreported[cur] \in Int /\ endpoints[cur].pingt_n \in 0 .. MaxPing
        BY <1>1, Facts
      <3>2. unreported' = [unreported EXCEPT ![cur] =
                             unreported[cur] - endpoints[cur].pingt_n]
        BY <1>2 DEF Report
      <3>3. unreported[cur] - endpoints[cur].pingt_n \in Int
        BY <3>1, Constants
      <3> QED
        BY <1>1, <3>2, <3>3 DEF IInv, TypeOK
    <2>3. unreported'[cur] <= 0
      <3>1. /\ unreported[cur] \in Int /\ endpoints[cur].pingt_n \in Int
            /\ unreported[cur] <= endpoints[cur].pingt_n
        BY <1>1, Facts, Constants DEF IInv, Reported
      <3> QED
        BY <2>2, <3>1
    <2>4. TypeOK'
      BY <2>1, <2>2 DEF Report, IInv, TypeOK, StatusSteps
    <2>5. Mutex' /\ Position'
      BY <1>1, <2>1 DEF Report, IInv, Mutex, Position, InLoop
    <2>6. Countdown' /\ Announced'
      BY <1>1, <2>1 DEF Report, IInv, Countdown, Announced
    <2>7. Reported'
      <3>1. mstat = "status" /\ recv.pc # "store"
        BY <1>1 DEF IInv, Mutex
      <3> QED
        BY <1>1, <2>1, <2>2, <2>3, <3>1 DEF Report, IInv, Reported
    <2> QED
      BY <2>4, <2>5, <2>6, <2>7 DEF IInv
  <1>3. CASE ~(endpoints[cur].timeout # 0)
    <2>1. sp' = "report" /\ cur' \in 0 .. Num
      BY <1>1, <1>3, Constants DEF Report
    <2>2. TypeOK'
      BY <1>1, <1>3, <2>1 DEF Report, IInv, TypeOK
    <2>3. Mutex' /\ Position'
      BY <1>1, <1>3, <2>1 DEF Report, IInv, Mutex, Position, InLoop
    <2>4. Countdown' /\ Announced' /\ Reported'
      BY <1>1, <1>3, <2>1 DEF Report, IInv, Countdown, Announced, Reported
    <2> QED
      BY <2>2, <2>3, <2>4 DEF IInv
  <1> QED
    BY <1>2, <1>3

LEMMA ClearStatisticsStep == ASSUME IInv, ClearStatistics PROVE IInv'
  <1> DEFINE e == [endpoints[cur] EXCEPT !.pingt_n = 0]
  <1>1. /\ cur \in Cid /\ sp = "clear" /\ mstat = "status"
        /\ recv.pc \notin {"count", "store"}
    BY DEF ClearStatistics, IInv, Position, Mutex
  <1>2. TypeOK /\ endpoints[cur] \in Entry
    BY <1>1, Facts DEF IInv
  <1>3. /\ e \in Entry /\ e.announced = endpoints[cur].announced
        /\ e.timeout = endpoints[cur].timeout /\ e.pingt_n = 0
    BY <1>2, Constants DEF Entry
  <1>4. endpoints' = [endpoints EXCEPT ![cur] = e]
    BY DEF ClearStatistics
  <1> HIDE DEF e
  <1>5. /\ endpoints' \in [Cid -> Entry] /\ endpoints'[cur] = e
        /\ \A d \in Cid \ {cur} : endpoints'[d] = endpoints[d]
    BY <1>1, <1>2, <1>3, <1>4, EntryChanged
  <1>6. sp' = "report" /\ cur' \in 0 .. Num
    BY <1>1, Constants DEF ClearStatistics
  <1>7. TypeOK'
    BY <1>2, <1>5, <1>6 DEF ClearStatistics, TypeOK, StatusSteps
  <1>8. Mutex' /\ Position'
    BY <1>1, <1>6 DEF ClearStatistics, IInv, Mutex, Position, InLoop
  <1>9. Countdown'
    BY <1>1, <1>3, <1>5, <1>6 DEF ClearStatistics, IInv, Countdown
  <1>10. Announced'
    BY <1>1, <1>3, <1>5, <1>6 DEF ClearStatistics, IInv, Announced
  <1>11. Reported'
    <2>1. \A d \in Cid : unreported[d] <= endpoints'[d].pingt_n
      BY <1>1, <1>3, <1>5 DEF IInv, Reported
    <2>2. recv.pc = "trylock" => endpoints'[recv.cid].pingt_n < MaxPing
      BY <1>1, <1>3, <1>5, Facts, Constants DEF IInv, Reported
    <2> QED
      BY <1>1, <1>6, <2>1, <2>2 DEF ClearStatistics, Reported
  <1> QED
    BY <1>7, <1>8, <1>9, <1>10, <1>11 DEF IInv

LEMMA ReportDoneStep == ASSUME IInv, ReportDone PROVE IInv'
  <1>1. sp = "report" /\ statlogcnt - 1 \in Nat
    BY DEF ReportDone, IInv, TypeOK, Position
  <1>2. TypeOK'
    BY <1>1, Constants DEF ReportDone, IInv, TypeOK, StatusSteps
  <1>3. Mutex' /\ Position'
    BY <1>1 DEF ReportDone, IInv, Mutex, Position, InLoop
  <1>4. Countdown' /\ Announced' /\ Reported'
    BY <1>1 DEF ReportDone, IInv, Countdown, Announced, Reported
  <1> QED
    BY <1>2, <1>3, <1>4 DEF IInv

LEMMA EnvironmentStep == ASSUME IInv, set_hiresping \/ Environment PROVE IInv'
  <1>1. /\ logPeriod' \in LogPeriods /\ active' \subseteq Cid
        /\ UNCHANGED <<endpoints, mstat, sp, cur, loaded, statlogcnt, recv,
                       told, age, unreported>>
    BY DEF set_hiresping, Environment, Join, Leave, statusVars, IInv, TypeOK
  <1>2. TypeOK'
    BY <1>1 DEF IInv, TypeOK
  <1>3. Mutex' /\ Position' /\ Countdown' /\ Announced' /\ Reported'
    BY <1>1 DEF IInv, Mutex, Position, Countdown, Announced, Reported
  <1> QED
    BY <1>2, <1>3 DEF IInv

LEMMA StutterStep == ASSUME IInv, UNCHANGED vars PROVE IInv'
  BY DEF vars, statusVars, IInv, TypeOK, Mutex, Position, Countdown, Announced,
         Reported

LEMMA IInvNext == IInv /\ [Next]_vars => IInv'
  <1> SUFFICES ASSUME IInv, [Next]_vars PROVE IInv'
    OBVIOUS
  <1>1. CASE checkstatus
    BY <1>1, CheckTimeoutStep, AnnounceNewStep, MarkAnnouncedStep,
       LoadTimeoutStep, StoreTimeoutStep, AnnounceLostStep, ResetEntryStep,
       SkipEntryStep, EndRoundStep, ReportLockStep, ReportStep,
       ClearStatisticsStep, ReportDoneStep DEF checkstatus
  <1>2. CASE RecvStep
    BY <1>2, RegAnnouncedStep, RegModeStep, RegTimeoutStep, PingLockStep,
       PingLoadStep, PingStoreStep DEF RecvStep
  <1>3. ASSUME NEW c \in Cid, RecvStart(c) PROVE IInv'
    <2>1. ASSUME NEW m \in Mode, RegDropped(c, m) PROVE IInv'
      BY <2>1, StutterStep DEF RegDropped
    <2> QED
      BY <1>3, <2>1, RegLockStep, PingTimeoutStep, AddressStep DEF RecvStart
  <1>4. CASE set_hiresping \/ Environment
    BY <1>4, EnvironmentStep
  <1>5. CASE UNCHANGED vars
    BY <1>5, StutterStep
  <1> QED
    BY <1>1, <1>2, <1>3, <1>4, <1>5 DEF Next

(* IInv holds in every state of the two threads. *)
THEOREM Invariance == Spec => []IInv
  BY IInvInit, IInvNext, PTL DEF Spec

(* Every entry and every thread position keeps its type. *)
THEOREM TypeCorrect == Spec => []TypeOK
  <1>1. IInv => TypeOK
    BY DEF IInv
  <1> QED
    BY <1>1, Invariance, PTL

(* The unsigned timeout of a member never wraps below zero, although it is *)
(* decremented without the lock the registration takes.                    *)
THEOREM TimeoutNeverWraps == Spec => []NoUnderflow
  <1>1. IInv => NoUnderflow
    BY DEF IInv, Countdown, NoUnderflow
  <1> QED
    BY <1>1, Invariance, PTL

(* No ping time is lost between a report and the reset of its statistics.  *)
THEOREM PingsAccountedFor == Spec => []PingsReported
  <1>1. IInv => PingsReported
    BY DEF IInv, Reported, PingsReported
  <1> QED
    BY <1>1, Invariance, PTL

(* Whoever is announced lost has been announced new before.                *)
THEOREM LostOnlyAfterNew == Spec => LostAfterNew
  <1>1. IInv /\ [Next]_vars => [AnnounceLost => cur \in told]_vars
    <2> SUFFICES ASSUME IInv, AnnounceLost PROVE cur \in told
      OBVIOUS
    <2>1. sp = "dead" /\ cur \in Cid /\ endpoints[cur].announced
      BY DEF AnnounceLost, IInv, Position, InLoop
    <2> QED
      BY <2>1 DEF IInv, Announced
  <1> QED
    BY <1>1, Invariance, PTL DEF Spec, LostAfterNew
----------------------------------------------------------------------------
(* How far a round is from its end: five steps for an entry, and two for   *)
(* each entry of the report.                                               *)
StepsAt ==
  [check |-> 5, live |-> 4, mark |-> 3, load |-> 2, store |-> 1,
   dead |-> 2, reset |-> 1]

RoundLeft ==
  CASE sp \in InLoop  -> 5 * (Num - 1 - cur) + StepsAt[sp] + 2 * Num + 3
    [] sp = "log"     -> 2 * Num + 3
    [] sp = "lock"    -> 2 * Num + 2
    [] sp = "report"  -> 2 * (Num - cur) + 1
    [] sp = "clear"   -> 2 * (Num - cur)
    [] sp = "sleep"   -> 0

(* How far the receiving thread is from the end of its operation.          *)
RecvLeft ==
  CASE recv.pc = "announced" -> 3 [] recv.pc = "mode" -> 2
    [] recv.pc = "timeout" -> 1 [] recv.pc = "trylock" -> 3
    [] recv.pc = "count" -> 2 [] recv.pc = "store" -> 1
    [] recv.pc = "idle" -> 0

LEMMA RoundLeftBounded == IInv => RoundLeft \in 0 .. (7 * Num + 3)
  <1> SUFFICES ASSUME IInv PROVE RoundLeft \in 0 .. (7 * Num + 3)
    OBVIOUS
  <1>1. Num \in Nat /\ Num > 0 /\ cur \in 0 .. Num /\ sp \in StatusSteps
    BY Constants, Facts DEF IInv, TypeOK
  <1>2. sp \in InLoop => cur \in 0 .. (Num - 1)
    BY DEF IInv, Position
  <1>3. sp \in InLoop => StepsAt[sp] \in 1 .. 5
    BY DEF StepsAt, InLoop
  <1> QED
    BY <1>1, <1>2, <1>3 DEF RoundLeft, StatusSteps, InLoop

(* Going on to the next entry.                                             *)
LEMMA NextEntryLeft ==
  ASSUME cur \in Cid, sp \in InLoop, NextEntry
  PROVE  RoundLeft' < RoundLeft
  <1>1. Num \in Nat /\ cur \in 0 .. (Num - 1) /\ StepsAt[sp] \in 1 .. 5
    BY Constants DEF StepsAt, InLoop
  <1>2. RoundLeft = 5 * (Num - 1 - cur) + StepsAt[sp] + 2 * Num + 3
    BY DEF RoundLeft, InLoop
  <1>3. CASE cur + 1 < Num
    <2>1. sp' = "check" /\ cur' = cur + 1
      BY <1>3 DEF NextEntry
    <2>2. RoundLeft' = 5 * (Num - 1 - (cur + 1)) + 5 + 2 * Num + 3
      BY <2>1 DEF RoundLeft, InLoop, StepsAt
    <2> QED
      BY <1>1, <1>2, <2>2
  <1>4. CASE ~(cur + 1 < Num)
    <2>1. sp' = "log"
      BY <1>4 DEF NextEntry
    <2>2. RoundLeft' = 2 * Num + 3
      BY <2>1 DEF RoundLeft, InLoop
    <2> QED
      BY <1>1, <1>2, <2>2
  <1> QED
    BY <1>3, <1>4

(* Every step of the status thread but the first of a round brings it      *)
(* nearer to its end.                                                      *)
LEMMA RoundGoesOn ==
  ASSUME IInv, checkstatus, sp # "sleep"
  PROVE  RoundLeft' < RoundLeft
  <1>1. Num \in Nat /\ Num > 0 /\ cur \in 0 .. Num
    BY Constants, Facts
  <1>2. sp \in InLoop => cur \in 0 .. (Num - 1)
    BY DEF IInv, Position
  <1>3. ASSUME StoreTimeout \/ ResetEntry \/ SkipEntry
        PROVE  RoundLeft' < RoundLeft
    <2>1. sp \in InLoop /\ NextEntry
      BY <1>3 DEF StoreTimeout, ResetEntry, SkipEntry, InLoop
    <2> QED
      BY <2>1, <1>2, NextEntryLeft
  <1>4. ASSUME CheckTimeout \/ AnnounceNew \/ MarkAnnounced \/ LoadTimeout
                 \/ AnnounceLost
        PROVE  RoundLeft' < RoundLeft
    <2>1. /\ sp \in InLoop /\ sp' \in InLoop /\ cur' = cur
          /\ StepsAt[sp'] < StepsAt[sp]
          /\ StepsAt[sp] \in Int /\ StepsAt[sp'] \in Int
      BY <1>4 DEF CheckTimeout, AnnounceNew, MarkAnnounced, LoadTimeout,
                  AnnounceLost, InLoop, StepsAt
    <2>2. RoundLeft = 5 * (Num - 1 - cur) + StepsAt[sp] + 2 * Num + 3
      BY <2>1 DEF RoundLeft, InLoop
    <2>3. RoundLeft' = 5 * (Num - 1 - cur) + StepsAt[sp'] + 2 * Num + 3
      BY <2>1 DEF RoundLeft, InLoop, StepsAt
    <2> QED
      BY <1>1, <2>1, <2>2, <2>3
  <1>5. ASSUME EndRound \/ ReportLock \/ Report \/ ClearStatistics \/ ReportDone
        PROVE  RoundLeft' < RoundLeft
    BY <1>1, <1>5 DEF EndRound, ReportLock, Report, ClearStatistics, ReportDone,
                      RoundLeft, InLoop
  <1> QED
    BY <1>3, <1>4, <1>5 DEF checkstatus, StartRound

LEMMA OthersLeaveRound ==
  ASSUME [Next]_vars, ~checkstatus
  PROVE  UNCHANGED statusVars
  BY DEF Next, vars, statusVars, RecvStep, RecvStart, RegAnnounced, RegMode,
         RegTimeout, PingLock, PingLoad, PingStore, RegLock, RegDropped,
         PingTimeout, cid_setlocalip, cid_set_pubkey, set_hiresping, Environment

(* While it holds the mutex the receiving thread only takes steps towards  *)
(* the end of its operation, which releases it.                            *)
LEMMA HolderGoesOn ==
  ASSUME IInv, [Next]_vars, mstat = "recv"
  PROVE  UNCHANGED <<mstat, recv>> \/ RecvLeft' < RecvLeft
  <1>1. recv.pc \in {"announced", "mode", "timeout", "count", "store"}
    BY DEF IInv, Mutex
  <1>2. ASSUME RecvStep PROVE RecvLeft' < RecvLeft
    <2>1. Idle.pc = "idle" /\ recv \in RecvState
      BY DEF Idle, IInv, TypeOK
    <2>2. \/ recv.pc = "announced" /\ recv'.pc = "mode"
          \/ recv.pc = "mode" /\ recv'.pc = "timeout"
          \/ recv.pc = "timeout" /\ recv'.pc = "idle"
          \/ recv.pc = "count" /\ recv'.pc = "store"
          \/ recv.pc = "store" /\ recv'.pc = "idle"
      BY <1>1, <1>2, <2>1 DEF RecvStep, RegAnnounced, RegMode, RegTimeout,
         PingLock, PingLoad, PingStore, RecvGoto, RecvState
    <2> QED
      BY <2>2 DEF RecvLeft
  <1>3. ASSUME NEW c \in Cid, RecvStart(c) PROVE UNCHANGED <<mstat, recv>>
    BY <1>1, <1>3 DEF RecvStart, RegLock, RegDropped, PingTimeout,
                      cid_setlocalip, cid_set_pubkey, vars
  <1>4. ASSUME checkstatus PROVE UNCHANGED <<mstat, recv>>
    <2>1. mstat # "status" /\ mstat # "none"
      OBVIOUS
    <2>2. ~ReportLock /\ ~ReportDone
      BY <2>1 DEF ReportLock, ReportDone, IInv, Mutex
    <2> QED
      BY <1>4, <2>2 DEF checkstatus, StartRound, CheckTimeout, AnnounceNew,
         MarkAnnounced, LoadTimeout, StoreTimeout, AnnounceLost, ResetEntry,
         SkipEntry, EndRound, Report, ClearStatistics
  <1> QED
    BY <1>2, <1>3, <1>4 DEF Next, set_hiresping, Environment, vars

(* The status thread may be kept waiting only before the report.           *)
OnlyLockWaits ==
  sp = "lock" => mstat = "none" \/ (mstat = "recv" /\ RecvLeft \in 1 .. 3)

(* A round of the status thread is bounded, and so is its wait for the     *)
(* mutex: a round takes at most seven steps per entry and three more, no   *)
(* other thread sets it back, and when it waits for the mutex the          *)
(* receiving thread holds it and is at most three steps from its release   *)
(* (callerlist.cc:121-176 against 58-66 and 84-95).                        *)
THEOREM RoundBounded ==
  Spec => /\ [](RoundLeft \in 0 .. (7 * Num + 3))
          /\ [][RoundLeft' # RoundLeft =>
                  sp = "sleep" \/ RoundLeft' < RoundLeft]_vars
          /\ []OnlyLockWaits
          /\ [][mstat = "recv" =>
                  UNCHANGED <<mstat, recv>> \/ RecvLeft' < RecvLeft]_vars
  <1>1. IInv /\ [Next]_vars =>
          [RoundLeft' # RoundLeft => sp = "sleep" \/ RoundLeft' < RoundLeft]_vars
    <2> SUFFICES ASSUME IInv, [Next]_vars, RoundLeft' # RoundLeft, sp # "sleep"
                 PROVE  RoundLeft' < RoundLeft
      OBVIOUS
    <2>1. CASE ~checkstatus
      BY <2>1, OthersLeaveRound DEF statusVars, RoundLeft, InLoop
    <2> QED
      BY <2>1, RoundGoesOn
  <1>2. IInv => OnlyLockWaits
    BY DEF IInv, TypeOK, Mutex, OnlyLockWaits, RecvLeft
  <1>3. IInv /\ [Next]_vars =>
          [mstat = "recv" => UNCHANGED <<mstat, recv>> \/ RecvLeft' < RecvLeft]_vars
    BY HolderGoesOn
  <1> QED
    BY <1>1, <1>2, <1>3, RoundLeftBounded, Invariance, PTL DEF Spec

----------------------------------------------------------------------------
(* The timeout of member c as the status thread is going to leave it.      *)
Remaining(c) ==
  IF sp = "store" /\ cur = c THEN Decremented(loaded) ELSE endpoints[c].timeout

(* The operations of the receiving thread that prove a member alive.       *)
Refresh(c) == PingTimeout(c) \/ (RegTimeout /\ recv.cid = c)

(* A write to another field keeps the timeouts.                            *)
LEMMA EntryKept ==
  ASSUME NEW es \in [Cid -> Entry], NEW c \in Cid, NEW d \in Cid, NEW v
  PROVE  /\ [es EXCEPT ![d].announced = v][c].timeout = es[c].timeout
         /\ [es EXCEPT ![d].mode = v][c].timeout = es[c].timeout
         /\ [es EXCEPT ![d].pingt_n = v][c].timeout = es[c].timeout
         /\ [es EXCEPT ![d].has_localep = v][c].timeout = es[c].timeout
         /\ [es EXCEPT ![d].has_pubkey = v][c].timeout = es[c].timeout
  <1>1. es[c] \in Entry /\ es[d] \in Entry
    OBVIOUS
  <1>2. /\ [es[d] EXCEPT !.announced = v].timeout = es[d].timeout
        /\ [es[d] EXCEPT !.mode = v].timeout = es[d].timeout
        /\ [es[d] EXCEPT !.pingt_n = v].timeout = es[d].timeout
        /\ [es[d] EXCEPT !.has_localep = v].timeout = es[d].timeout
        /\ [es[d] EXCEPT !.has_pubkey = v].timeout = es[d].timeout
    BY <1>1 DEF Entry
  <1> QED
    BY <1>2

LEMMA TimeoutChangedBy ==
  ASSUME IInv, [Next]_vars, ~checkstatus, NEW c \in Cid, ~Refresh(c)
  PROVE  endpoints'[c].timeout = endpoints[c].timeout
  <1>1. endpoints \in [Cid -> Entry] /\ recv.cid \in Cid
    BY Facts DEF IInv, TypeOK
  <1>2. CASE RecvStep
    <2>1. CASE RegTimeout
      <3>1. recv.cid # c
        BY <2>1 DEF Refresh
      <3> QED
        BY <2>1, <3>1, <1>1 DEF RegTimeout
    <2>2. CASE RegAnnounced
      BY <2>2, <1>1, EntryKept DEF RegAnnounced
    <2>3. CASE RegMode
      BY <2>3, <1>1, EntryKept DEF RegMode
    <2>4. CASE PingStore
      BY <2>4, <1>1, EntryKept DEF PingStore
    <2>5. CASE PingLock \/ PingLoad
      BY <2>5 DEF PingLock, PingLoad
    <2> QED
      BY <1>2, <2>1, <2>2, <2>3, <2>4, <2>5 DEF RecvStep
  <1>3. ASSUME NEW d \in Cid, RecvStart(d)
        PROVE  endpoints'[c].timeout = endpoints[c].timeout
    <2>1. CASE PingTimeout(d)
      <3>1. d # c
        BY <2>1 DEF Refresh
      <3> QED
        BY <2>1, <3>1, <1>1 DEF PingTimeout
    <2>2. CASE cid_setlocalip(d)
      BY <2>2, <1>1, EntryKept DEF cid_setlocalip
    <2>3. CASE cid_set_pubkey(d)
      BY <2>3, <1>1, EntryKept DEF cid_set_pubkey
    <2>4. ASSUME NEW m \in Mode, RegLock(d, m) \/ RegDropped(d, m)
          PROVE  endpoints'[c].timeout = endpoints[c].timeout
      BY <2>4 DEF RegLock, RegDropped, vars
    <2> QED
      BY <1>3, <2>1, <2>2, <2>3, <2>4 DEF RecvStart
  <1> QED
    BY <1>2, <1>3 DEF Next, set_hiresping, Environment, vars

(* The status thread never lengthens the life of a member.                 *)
LEMMA StatusCountsDown ==
  ASSUME IInv, checkstatus, NEW c \in Cid
  PROVE  /\ Remaining(c)' <= Remaining(c)
         /\ LoadTimeout /\ cur = c => Remaining(c)' < Remaining(c)
  <1>1. endpoints \in [Cid -> Entry] /\ endpoints[c].timeout \in Nat
        /\ loaded \in Nat /\ UIntMax \in Nat
    <2>1. endpoints \in [Cid -> Entry] /\ loaded \in 0 .. UIntMax
      BY DEF IInv, TypeOK
    <2>2. endpoints[c].timeout \in 0 .. UIntMax
      BY <2>1, EntryFields
    <2> QED
      BY <2>1, <2>2, Constants
  <1>2. CASE LoadTimeout
    <2>1. sp # "store" /\ sp' = "store" /\ cur' = cur /\ endpoints' = endpoints
          /\ loaded' = endpoints[cur].timeout
      BY <1>2 DEF LoadTimeout
    <2>2. CASE cur = c
      <3>1. endpoints[c].timeout # 0
        BY <2>2, LoadTimeoutStep, <1>2, <2>1 DEF IInv, Countdown
      <3>2. Remaining(c) = endpoints[c].timeout
        BY <2>1 DEF Remaining
      <3>3. Remaining(c)' = endpoints[c].timeout - 1
        BY <2>1, <2>2, <3>1 DEF Remaining, Decremented
      <3> QED
        BY <3>2, <3>3, <1>1
    <2>3. CASE cur # c
      BY <1>1, <2>1, <2>3 DEF Remaining
    <2> QED
      BY <2>2, <2>3
  <1>3. CASE StoreTimeout
    <2>1. cur \in Cid /\ sp = "store" /\ sp' # "store"
          /\ endpoints' = [endpoints EXCEPT ![cur].timeout = Decremented(loaded)]
      BY <1>3, NextEntryFacts DEF StoreTimeout, IInv, Position, InLoop
    <2>2. Remaining(c)' = endpoints'[c].timeout
      BY <2>1 DEF Remaining
    <2>3. Decremented(loaded) \in Nat
      BY <1>1 DEF Decremented
    <2>4. CASE cur = c
      <3>1. endpoints'[c].timeout = Decremented(loaded)
        BY <2>1, <2>4, <1>1 DEF Entry
      <3> QED
        BY <2>1, <2>2, <2>3, <2>4, <3>1, <1>3 DEF Remaining, LoadTimeout
    <2>5. CASE cur # c
      <3>1. endpoints'[c] = endpoints[c]
        BY <2>1, <2>5, <1>1
      <3> QED
        BY <2>1, <2>2, <2>5, <3>1, <1>1 DEF Remaining
    <2> QED
      BY <2>4, <2>5
  <1>4. CASE ResetEntry
    <2>1. cur \in Cid /\ sp = "reset" /\ sp' # "store"
          /\ endpoints' = [endpoints EXCEPT ![cur] = FreshEntry]
      BY <1>4, NextEntryFacts DEF ResetEntry, IInv, Position, InLoop
    <2>2. Remaining(c) = endpoints[c].timeout /\ Remaining(c)' = endpoints'[c].timeout
      BY <2>1 DEF Remaining
    <2>3. endpoints'[c].timeout \in {0, endpoints[c].timeout}
      BY <2>1, <1>1 DEF FreshEntry
    <2> QED
      BY <2>1, <2>2, <2>3, <1>1 DEF LoadTimeout
  <1>5. CASE ~(LoadTimeout \/ StoreTimeout \/ ResetEntry)
    <2>1. sp # "store" /\ sp' # "store"
      BY <1>5, NextEntryFacts DEF checkstatus, StartRound, CheckTimeout,
         AnnounceNew, MarkAnnounced, AnnounceLost, SkipEntry, EndRound,
         ReportLock, Report, ClearStatistics, ReportDone, IInv, Position, InLoop
    <2>2. endpoints'[c].timeout = endpoints[c].timeout
      <3>1. CASE MarkAnnounced
        BY <3>1, <1>1, EntryKept DEF MarkAnnounced
      <3>2. CASE ClearStatistics
        BY <3>2, <1>1, EntryKept DEF ClearStatistics
      <3> QED
        BY <1>5, <3>1, <3>2 DEF checkstatus, StartRound, CheckTimeout,
           AnnounceNew, AnnounceLost, SkipEntry, EndRound, ReportLock, Report,
           ReportDone
    <2> QED
      BY <1>1, <1>5, <2>1, <2>2 DEF Remaining
  <1> QED
    BY <1>2, <1>3, <1>4, <1>5

(* A member that gives no sign of life is counted down: its timeout, with  *)
(* the decrement under way, grows only through a ping or a registration of *)
(* its own, and every pass of the status thread that finds it connected    *)
(* takes one off (callerlist.cc:127-149).                                  *)
THEOREM SilentMemberCountsDown ==
  Spec => [][\A c \in Cid :
               /\ Remaining(c)' > Remaining(c) => Refresh(c)
               /\ LoadTimeout /\ cur = c => Remaining(c)' < Remaining(c)]_vars
  <1>1. ASSUME IInv, [Next]_vars, NEW c \in Cid
        PROVE  /\ Remaining(c)' > Remaining(c) => Refresh(c)
               /\ LoadTimeout /\ cur = c => Remaining(c)' < Remaining(c)
    <2>1. Remaining(c) \in Int
      BY <1>1, Facts, Constants DEF Remaining, Decremented
    <2>2. CASE checkstatus
      <3>1. Remaining(c)' \in Int
        <4>1. IInv'
          BY <1>1, IInvNext
        <4>2. endpoints' \in [Cid -> Entry] /\ loaded' \in 0 .. UIntMax
          BY <4>1 DEF IInv, TypeOK
        <4>3. endpoints'[c].timeout \in Int
          BY <4>2, EntryFields
        <4> QED
          BY <4>2, <4>3, Constants DEF Remaining, Decremented
      <3> QED
        BY <1>1, <2>1, <2>2, <3>1, StatusCountsDown
    <2>3. CASE ~checkstatus /\ ~Refresh(c)
      <3>1. Remaining(c)' = Remaining(c)
        BY <1>1, <2>3, TimeoutChangedBy, OthersLeaveRound
           DEF Remaining, statusVars
      <3> QED
        BY <2>1, <2>3, <3>1 DEF checkstatus
    <2>4. CASE ~checkstatus /\ Refresh(c)
      BY <2>4 DEF checkstatus
    <2> QED
      BY <2>2, <2>3, <2>4
  <1>2. IInv /\ [Next]_vars =>
          [\A c \in Cid :
             /\ Remaining(c)' > Remaining(c) => Refresh(c)
             /\ LoadTimeout /\ cur = c => Remaining(c)' < Remaining(c)]_vars
    BY <1>1
  <1> QED
    BY <1>2, Invariance, PTL DEF Spec
=============================================================================
