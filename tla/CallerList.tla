---------------------------- MODULE CallerList -----------------------------
(***************************************************************************)
(* The list of session members an ovbox client keeps (endpoint_list_t) and *)
(* the two threads that share it:                                          *)
(*                                                                         *)
(*  - the receiving thread, which enters what the relay server says about  *)
(*    a member (cid_register on PORT_LISTCID, cid_setlocalip, cid_set_     *)
(*    pubkey) or, in a server built on the class, what a ping showed       *)
(*    (cid_setpingtime);                                                   *)
(*  - the status thread (checkstatus), which once per ping period counts   *)
(*    every member's timeout down, announces new and lost members through  *)
(*    virtual callbacks, and from time to time reports ping statistics.    *)
(*                                                                         *)
(* The mutex mstat is held for a registration and for the report, but not  *)
(* while the status thread counts down and resets entries, so single reads *)
(* and writes of an entry are the steps of this module.  Addresses and     *)
(* versions are left out of an entry; the mode stands for the data a       *)
(* registration brings.                                                    *)
(***************************************************************************)
EXTENDS Integers

CONSTANTS
  Num,        \* size of the list (MAX_STAGE_ID)
  TIMEOUT,    \* CALLERLIST_TIMEOUT, in ping periods
  UIntMax,    \* largest value of the uint32_t timeout
  Mode,       \* operation modes a member may register with
  P2P,        \* the mode of a fresh entry (B_PEER2PEER)
  LogPeriods, \* values of 60000 / pingperiodms
  Ops,        \* operations of the receiving thread that occur
  MaxPing     \* bound: ping times collected between two reports

ASSUME CallerListAssumption ==
  /\ Num \in Nat \ {0}
  /\ TIMEOUT \in Nat \ {0}
  /\ UIntMax \in Nat /\ UIntMax > TIMEOUT
  /\ P2P \in Mode
  /\ LogPeriods \subseteq Nat \ {0} /\ LogPeriods # {}
  /\ Ops \subseteq {"register", "ping", "localip", "pubkey"}
  /\ MaxPing \in Nat

Cid == 0 .. (Num - 1)

VARIABLES
  endpoints,  \* the list
  mstat,      \* holder of the mutex: "none", "status" or "recv"
  sp, cur,    \* status thread: next step and entry
  loaded,     \* status thread: the timeout it read for the decrement
  statlogcnt, \* status thread: rounds until the next report
  logPeriod,  \* what 60000 / pingperiodms gives now
  recv,       \* receiving thread: next step and arguments
  active,     \* environment: members the relay server still reports
  told,       \* history: members announced as new and not yet as lost
  age,        \* history: decrements since the last registration of a member
  unreported  \* history: ping times counted and not yet reported

statusVars == <<sp, cur, loaded, statlogcnt>>
vars == <<endpoints, mstat, statusVars, logPeriod, recv, active, told, age,
          unreported>>

Entry == [timeout : 0 .. UIntMax, announced : BOOLEAN, mode : Mode,
          pingt_n : 0 .. MaxPing, has_localep : BOOLEAN, has_pubkey : BOOLEAN]

(* ep_desc_t() *)
FreshEntry == [timeout |-> 0, announced |-> FALSE, mode |-> P2P,
               pingt_n |-> 0, has_localep |-> FALSE, has_pubkey |-> FALSE]

Idle == [pc |-> "idle", cid |-> 0, mode |-> P2P, n |-> 0]

RecvSteps ==
  {"idle", "announced", "mode", "timeout", "trylock", "count", "store"}

RecvState == [pc : RecvSteps, cid : Cid, mode : Mode, n : 0 .. MaxPing]

StatusSteps == {"sleep", "check", "live", "mark", "load", "store", "dead",
                "reset", "log", "lock", "report", "clear"}

Init ==
  /\ endpoints = [c \in Cid |-> FreshEntry]
  /\ mstat = "none"
  /\ sp = "sleep" /\ cur = 0 /\ loaded = 0
  /\ logPeriod \in LogPeriods
  /\ statlogcnt = logPeriod
  /\ recv = Idle
  /\ active = {}
  /\ told = {}
  /\ age = [c \in Cid |-> TIMEOUT]
  /\ unreported = [c \in Cid |-> 0]

----------------------------------------------------------------------------
(* The receiving thread. *)

RecvGoto(step) == recv' = [recv EXCEPT !.pc = step]

(* cid_register: try_lock, so a registration that meets the report of the  *)
(* status thread is dropped.                                               *)
RegLock(c, m) ==
  /\ recv.pc = "idle" /\ "register" \in Ops /\ c \in active
  /\ mstat = "none"
  /\ mstat' = "recv"
  /\ recv' = [pc |-> "announced", cid |-> c, mode |-> m, n |-> 0]
  /\ UNCHANGED <<endpoints, statusVars, logPeriod, active, told, age, unreported>>

RegDropped(c, m) ==
  /\ recv.pc = "idle" /\ "register" \in Ops /\ c \in active
  /\ mstat # "none"
  /\ UNCHANGED vars

(* Mutant: the flag is set, not cleared. *)
RegAnnouncedSet ==
  /\ recv.pc = "announced"
  /\ endpoints' = [endpoints EXCEPT ![recv.cid].announced =
                     IF recv.mode = endpoints[recv.cid].mode THEN @ ELSE TRUE]
  /\ RecvGoto("mode")
  /\ UNCHANGED <<mstat, statusVars, logPeriod, active, told, age, unreported>>

(* A changed mode is to be announced again. *)
RegAnnounced ==
  /\ recv.pc = "announced"
  /\ endpoints' = [endpoints EXCEPT ![recv.cid].announced =
                     IF recv.mode = endpoints[recv.cid].mode THEN @ ELSE FALSE]
  /\ RecvGoto("mode")
  /\ UNCHANGED <<mstat, statusVars, logPeriod, active, told, age, unreported>>

RegMode ==
  /\ recv.pc = "mode"
  /\ endpoints' = [endpoints EXCEPT ![recv.cid].mode = recv.mode]
  /\ RecvGoto("timeout")
  /\ UNCHANGED <<mstat, statusVars, logPeriod, active, told, age, unreported>>

(* Mutant: the mutex is not released. *)
RegTimeoutLocked ==
  /\ recv.pc = "timeout"
  /\ endpoints' = [endpoints EXCEPT ![recv.cid].timeout = TIMEOUT]
  /\ age' = [age EXCEPT ![recv.cid] = 0]
  /\ recv' = Idle
  /\ UNCHANGED <<mstat, statusVars, logPeriod, active, told, unreported>>

RegTimeout ==
  /\ recv.pc = "timeout"
  /\ endpoints' = [endpoints EXCEPT ![recv.cid].timeout = TIMEOUT]
  /\ age' = [age EXCEPT ![recv.cid] = 0]
  /\ mstat' = "none"
  /\ recv' = Idle
  /\ UNCHANGED <<statusVars, logPeriod, active, told, unreported>>

(* cid_setpingtime: the timeout is refreshed without the mutex; a positive *)
(* ping time is to be counted.                                             *)
PingTimeout(c) ==
  /\ recv.pc = "idle" /\ "ping" \in Ops /\ c \in active
  /\ endpoints' = [endpoints EXCEPT ![c].timeout = TIMEOUT]
  /\ \/ recv' = recv
     \/ /\ endpoints[c].pingt_n < MaxPing
        /\ recv' = [pc |-> "trylock", cid |-> c, mode |-> P2P, n |-> 0]
  /\ UNCHANGED <<mstat, statusVars, logPeriod, active, told, age, unreported>>

PingLock ==
  /\ recv.pc = "trylock"
  /\ IF mstat = "none" THEN mstat' = "recv" /\ RecvGoto("count")
                       ELSE mstat' = mstat /\ recv' = Idle
  /\ UNCHANGED <<endpoints, statusVars, logPeriod, active, told, age, unreported>>

(* ++pingt_n reads and writes in two steps: a reset does not take the lock. *)
PingLoad ==
  /\ recv.pc = "count"
  /\ recv' = [recv EXCEPT !.pc = "store", !.n = endpoints[recv.cid].pingt_n]
  /\ UNCHANGED <<endpoints, mstat, statusVars, logPeriod, active, told, age,
                 unreported>>

PingStore ==
  /\ recv.pc = "store"
  /\ endpoints' = [endpoints EXCEPT ![recv.cid].pingt_n = recv.n + 1]
  /\ unreported' = [unreported EXCEPT ![recv.cid] = @ + 1]
  /\ mstat' = "none"
  /\ recv' = Idle
  /\ UNCHANGED <<statusVars, logPeriod, active, told, age>>

cid_setlocalip(c) ==
  /\ recv.pc = "idle" /\ "localip" \in Ops /\ c \in active
  /\ endpoints' = [endpoints EXCEPT ![c].has_localep = TRUE]
  /\ UNCHANGED <<mstat, statusVars, logPeriod, recv, active, told, age, unreported>>

cid_set_pubkey(c) ==
  /\ recv.pc = "idle" /\ "pubkey" \in Ops /\ c \in active
  /\ endpoints' = [endpoints EXCEPT ![c].has_pubkey = TRUE]
  /\ UNCHANGED <<mstat, statusVars, logPeriod, recv, active, told, age, unreported>>

----------------------------------------------------------------------------
(* The status thread: the loop over the list. *)

StartRound ==
  /\ sp = "sleep"
  /\ sp' = "check" /\ cur' = 0
  /\ UNCHANGED <<endpoints, mstat, loaded, statlogcnt, logPeriod, recv, active,
                 told, age, unreported>>

(* Mutant: the timeout is not looked at. *)
CheckNothing ==
  /\ sp = "check"
  /\ sp' = "live"
  /\ UNCHANGED <<endpoints, mstat, cur, loaded, statlogcnt, logPeriod, recv,
                 active, told, age, unreported>>

CheckTimeout ==
  /\ sp = "check"
  /\ sp' = IF endpoints[cur].timeout # 0 THEN "live" ELSE "dead"
  /\ UNCHANGED <<endpoints, mstat, cur, loaded, statlogcnt, logPeriod, recv,
                 active, told, age, unreported>>

(* announce_new_connection, for an entry found unannounced. *)
AnnounceNew ==
  /\ sp = "live"
  /\ ~endpoints[cur].announced
  /\ told' = told \cup {cur}
  /\ sp' = "mark"
  /\ UNCHANGED <<endpoints, mstat, cur, loaded, statlogcnt, logPeriod, recv,
                 active, age, unreported>>

MarkAnnounced ==
  /\ sp = "mark"
  /\ endpoints' = [endpoints EXCEPT ![cur].announced = TRUE]
  /\ sp' = "load"
  /\ UNCHANGED <<mstat, cur, loaded, statlogcnt, logPeriod, recv, active, told,
                 age, unreported>>

(* --timeout reads and writes in two steps: no lock is held. *)
LoadTimeout ==
  /\ sp = "load" \/ (sp = "live" /\ endpoints[cur].announced)
  /\ loaded' = endpoints[cur].timeout
  /\ sp' = "store"
  /\ UNCHANGED <<endpoints, mstat, cur, statlogcnt, logPeriod, recv, active,
                 told, age, unreported>>

NextEntry ==
  IF cur + 1 < Num THEN sp' = "check" /\ cur' = cur + 1
                   ELSE sp' = "log" /\ cur' = 0

(* Mutant: the timeout is read and written back. *)
NotDecremented(t) == t

Decremented(t) == IF t = 0 THEN UIntMax ELSE t - 1

StoreTimeout ==
  /\ sp = "store"
  /\ endpoints' = [endpoints EXCEPT ![cur].timeout = Decremented(loaded)]
  /\ age' = [age EXCEPT ![cur] = IF @ < TIMEOUT THEN @ + 1 ELSE @]
  /\ NextEntry
  /\ loaded' = 0
  /\ UNCHANGED <<mstat, statlogcnt, logPeriod, recv, active, told, unreported>>

(* announce_connection_lost, for an entry that had been announced. *)
AnnounceLost ==
  /\ sp = "dead"
  /\ endpoints[cur].announced
  /\ told' = told \ {cur}
  /\ sp' = "reset"
  /\ UNCHANGED <<endpoints, mstat, cur, loaded, statlogcnt, logPeriod, recv,
                 active, age, unreported>>

(* Mutant: the reset keeps the announced flag. *)
ResetKeepsAnnounced ==
  /\ sp = "reset"
  /\ endpoints' = [endpoints EXCEPT ![cur] = [FreshEntry EXCEPT !.announced = TRUE]]
  /\ unreported' = [unreported EXCEPT ![cur] = 0]
  /\ NextEntry
  /\ UNCHANGED <<mstat, loaded, statlogcnt, logPeriod, recv, active, told, age>>

ResetEntry ==
  /\ sp = "reset"
  /\ endpoints' = [endpoints EXCEPT ![cur] = FreshEntry]
  /\ unreported' = [unreported EXCEPT ![cur] = 0]
  /\ NextEntry
  /\ UNCHANGED <<mstat, loaded, statlogcnt, logPeriod, recv, active, told, age>>

SkipEntry ==
  /\ sp = "dead"
  /\ ~endpoints[cur].announced
  /\ NextEntry
  /\ UNCHANGED <<endpoints, mstat, loaded, statlogcnt, logPeriod, recv, active,
                 told, age, unreported>>

(* Mutant: the counter is not set again when it has reached zero. *)
EndRoundUnset ==
  /\ sp = "log"
  /\ IF statlogcnt = 0
     THEN sp' = "lock" /\ statlogcnt' = statlogcnt
     ELSE sp' = "sleep" /\ statlogcnt' = statlogcnt - 1
  /\ UNCHANGED <<endpoints, mstat, cur, loaded, logPeriod, recv, active, told,
                 age, unreported>>

(* The end of a round; every statlogcnt rounds the report is due. *)
EndRound ==
  /\ sp = "log"
  /\ IF statlogcnt = 0
     THEN sp' = "lock" /\ statlogcnt' = logPeriod
     ELSE sp' = "sleep" /\ statlogcnt' = statlogcnt - 1
  /\ UNCHANGED <<endpoints, mstat, cur, loaded, logPeriod, recv, active, told,
                 age, unreported>>

(* Mutant: the report does not wait for the mutex. *)
ReportUnlocked ==
  /\ sp = "lock"
  /\ sp' = "report" /\ cur' = 0
  /\ UNCHANGED <<endpoints, mstat, loaded, statlogcnt, logPeriod, recv, active,
                 told, age, unreported>>

ReportLock ==
  /\ sp = "lock"
  /\ mstat = "none"
  /\ mstat' = "status"
  /\ sp' = "report" /\ cur' = 0
  /\ UNCHANGED <<endpoints, loaded, statlogcnt, logPeriod, recv, active, told,
                 age, unreported>>

(* announce_latency, for a connected member, ... *)
Report ==
  /\ sp = "report" /\ cur < Num
  /\ IF endpoints[cur].timeout # 0
     THEN /\ unreported' = [unreported EXCEPT ![cur] = @ - endpoints[cur].pingt_n]
          /\ sp' = "clear" /\ cur' = cur
     ELSE /\ UNCHANGED <<unreported, sp>>
          /\ cur' = cur + 1
  /\ UNCHANGED <<endpoints, mstat, loaded, statlogcnt, logPeriod, recv, active,
                 told, age>>

(* ... and its statistics start again. *)
ClearStatistics ==
  /\ sp = "clear"
  /\ endpoints' = [endpoints EXCEPT ![cur].pingt_n = 0]
  /\ sp' = "report" /\ cur' = cur + 1
  /\ UNCHANGED <<mstat, loaded, statlogcnt, logPeriod, recv, active, told, age,
                 unreported>>

ReportDone ==
  /\ sp = "report" /\ cur = Num
  /\ mstat' = "none"
  /\ statlogcnt' = statlogcnt - 1
  /\ sp' = "sleep" /\ cur' = 0
  /\ UNCHANGED <<endpoints, loaded, logPeriod, recv, active, told, age, unreported>>

----------------------------------------------------------------------------
(* set_hiresping, from the thread that controls the client. *)
set_hiresping ==
  /\ logPeriod' \in LogPeriods
  /\ UNCHANGED <<endpoints, mstat, statusVars, recv, active, told, age, unreported>>

(* Members enter and leave the session. *)
Join(c) == active' = active \cup {c}
Leave(c) == active' = active \ {c}

Environment ==
  /\ \E c \in Cid : Join(c) \/ Leave(c)
  /\ UNCHANGED <<endpoints, mstat, statusVars, logPeriod, recv, told, age, unreported>>

checkstatus ==
  \/ StartRound \/ CheckTimeout \/ AnnounceNew \/ MarkAnnounced \/ LoadTimeout
  \/ StoreTimeout \/ AnnounceLost \/ ResetEntry \/ SkipEntry \/ EndRound
  \/ ReportLock \/ Report \/ ClearStatistics \/ ReportDone

RecvStep == RegAnnounced \/ RegMode \/ RegTimeout \/ PingLock \/ PingLoad \/ PingStore

RecvStart(c) ==
  \/ \E m \in Mode : RegLock(c, m) \/ RegDropped(c, m)
  \/ PingTimeout(c) \/ cid_setlocalip(c) \/ cid_set_pubkey(c)

Next ==
  \/ checkstatus
  \/ RecvStep
  \/ \E c \in Cid : RecvStart(c)
  \/ set_hiresping
  \/ Environment

Spec == Init /\ [][Next]_vars

(* Both threads run; the mutex, free for most of the time, is got by the   *)
(* status thread that blocks on it; and the relay server repeats its       *)
(* member list, so that a member in the session gets a registration        *)
(* through now and then.                                                   *)
FairSpec ==
  /\ Spec
  /\ WF_vars(checkstatus)
  /\ SF_vars(ReportLock)
  /\ WF_vars(RecvStep)
  /\ \A c \in Cid : SF_vars(\E m \in Mode : RegLock(c, m))

----------------------------------------------------------------------------
TypeOK ==
  /\ endpoints \in [Cid -> Entry]
  /\ mstat \in {"none", "status", "recv"}
  /\ sp \in StatusSteps /\ cur \in 0 .. Num /\ loaded \in 0 .. UIntMax
  /\ statlogcnt \in Nat /\ logPeriod \in LogPeriods
  /\ recv \in RecvState
  /\ active \subseteq Cid
  /\ told \subseteq Cid
  /\ age \in [Cid -> 0 .. TIMEOUT]
  /\ unreported \in [Cid -> Int]

(* The unsigned timeout never wraps: the status thread only decrements a   *)
(* timeout it has seen nonzero, whatever the receiving thread writes in    *)
(* between (callerlist.cc:134-140 against 63 and 83).                      *)
NoUnderflow == \A c \in Cid : endpoints[c].timeout <= TIMEOUT

(* A member is only announced lost after it was announced new: the         *)
(* announced flag never outlives the announcement (136-145).               *)
LostAfterNew == [][AnnounceLost => cur \in told]_vars

(* No ping time is lost between the report and the reset of the statistics *)
(* (callerlist.cc:152-165): what was counted since the last report or reset *)
(* is still in the statistics.  They may hold more than that, when a reset *)
(* falls into the increment.                                               *)
PingsReported ==
  \A c \in Cid :
    ~(sp = "clear" /\ cur = c) => unreported[c] <= endpoints[c].pingt_n

(* The round completes: neither the mutex nor the list can hold the status *)
(* thread up for ever.                                                     *)
RoundsComplete == []<>(sp = "sleep")

(* A member that is no longer reported disappears from the list for good.  *)
LeaverExpires ==
  \A c \in Cid : <>[](c \notin active) => <>[](endpoints[c].timeout = 0)

(* A member that stays in the session is connected and announced again and *)
(* again, even when a registration was dropped or wiped out by a reset.    *)
MemberConnected ==
  \A c \in Cid :
    <>[](c \in active) => []<>(endpoints[c].timeout # 0 /\ c \in told)

(* "timeout of caller actvity, in ping periods" (callerlist.h:25-26): a    *)
(* registered member stays connected for TIMEOUT ping periods.             *)
StaysForTimeout == \A c \in Cid : age[c] < TIMEOUT => endpoints[c].timeout # 0
=============================================================================
