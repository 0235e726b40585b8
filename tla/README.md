# A TLA+ model of libov

libov is the library of the *ovbox*, a device with which musicians play together
over the Internet. Each device runs an audio session (a TASCAR renderer on a JACK
server), exchanges audio packets with the other members of its room through a
relay server or directly (peer-to-peer), and takes its configuration from a web
server that it polls.

This directory models the parts of libov that carry state and in which several
threads, packets or failures meet. Paths below are relative to `src/src/` unless
they say otherwise; `PROJECT.json` maps every definition to its lines.

Contents: [system](#1-the-system) - [modules](#2-modules) -
[runs](#3-runs) - [disagreements found](#4-where-code-and-documentation-disagree) -
[proofs](#5-proofs) - [what is not modelled](#6-what-is-left-out) -
[plan](#7-plan) - [how to run](#8-how-to-run).

## 1. The system

    configuration server (web)          relay server (UDP)           other members
            |  poll, report                    ^  |                        ^ |
            v                                  |  v                        | v
    ov_client_orlandoviols_t  -- calls -->  ov_render_tascar_t  -- owns --> ovboxclient_t
      (configuration service)               (audio backend)                  |  |  |
                                             |          |                    |  |  +- message_sorter_t
                                           jackd   TASCAR session            |  +---- endpoint_list_t
                                                                             +------- ovbox_udpsocket_t
                                                                                      (ovtcpsocket_t)

| component | state it keeps | operations | what is hard about it |
|---|---|---|---|
| **Packet sorter** `message_sorter_t`, driven by `ovboxclient_t::sendsrv` | two held-back messages `buf1`, `buf2`; last sequence number in and out per stream; statistics per device | `process(&pmsg)` in a loop after each datagram | one pair of buffers for all streams; pointers into itself are returned; 16 bit sequence numbers; loss, duplication, reordering, sender restarts |
| **Packet numbering** `ovbox_udpsocket_t::packmsg`, `sequence_map_t` | a counter per destination port | `packmsg` | wrap; control messages are not numbered; one map for several threads |
| **Member list** `endpoint_list_t` | a table of members with timeout, mode, ping statistics; mutex `mstat` | `cid_register`, `cid_setpingtime`, `cid_setlocalip`, `cid_set_pubkey`; thread `checkstatus` | the mutex is held for some accesses only; `try_lock` drops updates; callbacks between read and write |
| **Forwarding and peer routing** `recsrv`, `xrecsrv`, `process_msg`, `send_ping` | modes, routes, keys of members | receive a local packet and send copies; hand a received one to local receivers and proxy clients | what is known of the members is learned datagram by datagram; peers, relay, proxies, downmix and encryption decide together |
| **TCP tunnel** `ovtcpsocket_t` | listening and client sockets; per connection a reading and a writing thread; a table of threads by descriptor | bind, connect, accept, frame datagrams, end | partial reads and writes; writes that block; descriptors that are used again; ends at any time |
| **UDP sockets and message format** `udpsocket_t`, `common.cc` | file descriptor, keys | send, receive, pack, unpack, encrypt | header layout, checks of length and secret |
| **Audio backend** `ov_render_base_t`, `ov_render_tascar_t` | flags of session and audio server; renderer, network client, server process; all settings | start, end and restart a session; start and stop the audio server; setters | flags and objects are set apart, and an exception may come in between |
| **Audio sessions as built** `ov_render_tascar_t::start_session` and its parts | the document of the running session: clients, ports, connections, ports to wait for, network senders and receivers | build from the settings that were polled | parts are made in different functions under different conditions; sessions of several devices, built from different versions of the settings, form one network |
| **Configuration service** `ov_client_orlandoviols_t` | merged configuration `devcfg`, hash, last error | a thread: poll, merge, apply, report; `start_service`, `stop_service` | every poll applies everything; an exception ends an application anywhere; stop at any time |
| **Sound cards, MAC address, error messages, encryption example** | none | enumeration through the system | pure I/O |

How they interact: the service thread is the only caller of the backend. The
backend creates an `ovboxclient_t` when it starts a session in a room and deletes
it when the session ends. The client starts its threads in the constructor:
receiving (`sendsrv`), local forwarding (`recsrv`, `xrecsrv`), pings
(`pingservice`) and, through its base class, the status thread of the member
list. The receiving thread calls the sorter for each datagram; control messages
that come out of it update the member list, which the status thread counts down
and from which it calls back into the client.

What makes the components correct:

- *Sorter*: each datagram is handed out or given up, once; it waits for at most
  one more datagram; order within a stream is kept as far as the network allows;
  what the counters say about losses is true.
- *Member list*: a timeout never wraps; a member that stays is connected and
  announced, one that leaves expires; lost follows new; no ping time vanishes
  between report and reset.
- *Backend and service*: no object outlives its flag; the audio server is not
  stopped under a session; what runs is what was configured; nothing is restarted
  without a reason; the service can be stopped from anywhere.

- *Forwarding*: nobody gets a packet twice, whatever is known of the members; once
  all is known everybody gets it, readable; the encryption lock tells the truth.
- *TCP tunnel*: datagrams come out whole and in order; both ends of a connection
  close; a destructor returns and leaves no thread behind.
- *Sessions*: every port that is connected or waited for exists; members hear each
  other once; no audio goes round in circles.

The hazards behind these, each at its line, are the list `hazards` in
`PROJECT.json`, with the property that covers it or the reason why none does.

## 2. Modules

| module | extends | models |
|---|---|---|
| `ReorderBuffer` | | what the sorter promises: an abstract buffer that delays by at most one |
| `MessageSorter` | | `message_sorter_t` and the loop in `sendsrv` |
| `SorterNetwork` | `MessageSorter` | senders that number packets, a network, and the sorter behind it |
| `CallerList` | | `endpoint_list_t`, its status thread and the receiving thread |
| `Lifecycle` | | the order of session and audio server that `ov_types.h` asks for |
| `Backend` | | the operations of the audio backend, as action formulas |
| `Service` | `Backend` | the configuration service, which calls them |
| `Forwarding` | | copies of local packets, the relay server, proxies, keys, restarts of clients |
| `DatagramPipe` | | what a direction of the tunnel promises: a queue of whole datagrams |
| `TcpTunnel` | | `ovtcpsocket_t` as client and as server, with all its threads |
| `Session` | | the sessions of several devices as a graph of ports and sockets |
| `MCSorterNetwork`, `MCCallerList`, `MCService`, `MCForwarding`, `MCTcpTunnel`, `MCSession` | the above | small instances |
| `MessageSorterProofs`, `CallerListProofs`, `ServiceProofs`, `ForwardingProofs`, `TcpTunnelProofs`, `SessionProofs` | the above, `TLAPS` | theorems |
| `SorterNetworkProofs` | `SorterNetwork`, `MessageSorterProofs` | theorems about the sorter behind a network |
| `TcpTunnelPipeProofs` | `TcpTunnelProofs` | the refinement of `DatagramPipe`, and that delivery goes on |

Operators marked "Mutant" in a module are variants of the definition below them,
each with one plausible mistake. Nothing uses them; they document which mistake
each property detects (`mutants` in `PROJECT.json`).

### 2.1 MessageSorter

One action is one call of `process`, that is one iteration of

    msgbuf_t* pmsg(&msg);
    while(sorter.process(&pmsg)) process_msg(*pmsg);

plus `Recv` (a valid datagram) and `RecvNothing` (time-out, short datagram, wrong
secret; the sorter is not called). `SortSpecial`, `SortHold`, `SortRelease`,
`SortPass`, `DrainBuf1`, `DrainBuf2` and `SortDone` are the branches of `process`
in their order. `pmsg` is the name of the buffer the local pointer designates, and
`Pointee` what it finds there: that the pointer designates the right buffer is
not assumed, it is `PointerDiscipline`.

The content of a message is its arrival number `id`. `sequence_t` is the range
`-Half .. Half-1` and `Wrap` the conversion to it (`Half` is 2^15 in the code, and at
least 4 here: with 3, the difference that opens a gap could not be told from a step back).
`lost` is an integer where the code has a `size_t`: where the model goes below
zero the code wraps. `delivered` and `dropped` are histories. In this module any
device may deliver any number at any time, which includes every loss, repetition,
reordering and restart of a sender.

`ReorderBuffer` is the sorter without numbers, streams or buffers: a datagram can
be overtaken by its direct successor only and is given up only when that one takes
its place. The refinement mapping is the identity on the three histories.

### 2.2 SorterNetwork

A network is a record of limits (`Networks`); the run chooses one of several at the
start. The module adds the senders (`PackMsg`: the number of the boundary port advances like that
of a data port, because `packmsg` compares with `>=`) and a network that loses,
repeats and reorders within these limits. `stray` datagrams come from nobody and
have any number: with them the sorter faces arbitrary arrivals. `n`, the true number of a
packet in its stream, travels with it as a history, so that order can be stated
without sequence numbers. The network is external code.

### 2.3 CallerList

One action is one read or one write of a shared entry wherever the code holds no
lock: `--timeout` is `LoadTimeout` and `StoreTimeout`, `++pingt_n` is `PingLoad`
and `PingStore`, and `announce_new_connection` is separate from the assignment to
`announced` after it. Under the lock single steps are kept too, because the status
thread resets entries without it. `mstat` is the mutex and its holder; `RegDropped`
is the `try_lock` that fails. Addresses, versions and the values of ping times are
left out; `mode` stands for the data of a registration. `cid_setpingtime` is only
called by a server built on the class, and is modelled with the list it belongs to.
`told`, `age` and `unreported` are histories, `active` is the environment.

### 2.4 Backend, Service, Lifecycle

`Backend` keeps flags (`session_active`, `audio_active`, `restart_needed`,
`session_ready`) and objects (`tascar`, `ovboxclient`, `h_jack`, `server`) apart,
and has for each operation that can throw a second formula with what it leaves
behind when it does. `loaded` is a history: which settings the running session was
built from. The XML text of a TASCAR session is abstracted to that record.

`Service` is the thread with a program counter. Each label of `parse_config` is one
call of the backend or the code between two calls. `end_session`,
`stop_audiobackend` and `start_audiobackend` are called from several places, so the
tables `Ends`, `Stops` and `Starts` map the label of such a call to the one after
it. `Throws(f)` ends an application from wherever it is, as the `catch` in
`service` does, and leads to the report of the error.

Data abstractions:

- an audio device is *hw* (a server is spawned for it), *manual* (the user runs the
  server) or *none* (no or another driver, as before the first configuration), with
  a rate that stands for rate and period;
- the description of a device is good, or makes `get_stage_dev` throw;
- a group of settings that is compared and stored as a whole is one `Value`;
- the ambient sound is none, a usable file, or one of the wrong format;
- `quit` stands for every request that ends the program (owner, access point,
  version, installation);
- `extrabad` is an extra configuration with a bad value behind good ones;
- a configuration is a record whose fields may be `Absent`; `Merge` is
  `json_merge` on it;
- what the server serves is read by a request only, so it changes only right
  before one. This drops no behaviour.

`Lifecycle` states the comments of `ov_types.h`: a session needs a running audio
backend, and the audio backend is started or stopped without a session.

### 2.5 Forwarding

One packet is on its way at a time; the state that matters is what each client
knows of the others. `endpoints[m][o]` is an `ep_desc_t` with its parts learned by
different messages (`LISTCID`, `SETLOCALIP`, `PUBKEY`): each message that the server
repeats replaces one part (`Learn`), a registration that times out resets the entry
(`Expire`), a restart gives a client a new socket and a new key (`inc`) of which the
others learn later. `Copies` is `recsrv`, `XCopies` is `xrecsrv`, `Deliver` is
`process_msg` with its proxy copies, `Relay` is the server, which is not in this
repository and is modelled from the comments and the messages of the client.
Packets get lost (`Lose`), which also stands for a datagram to a socket that is gone.
`sent.calm` is a history: the packet was sent while everything anybody knew was up
to date, and nothing disturbed it since. A `Setup` is a session: modes, networks,
proxies, which entries are unstable and who restarts.

### 2.6 TcpTunnel, DatagramPipe

One action per system call, with the test of `run_server` before it; only around
`accept`, which may wait for long, the two are apart: `StartHandler` serves a connection
that came in after the flag was cleared. A stream is a queue of units (the header, then the parts of the body) of length `Cap`, so that
frames are cut and writers block; a unit says which datagram and which part of it it
is, and the reader checks neither: what lies at the place of a header is taken for
one. `HQuit` is both the test of `run_server` and the time-out of `read`; writing has
no time-out (`WBlock`). `Accept` takes the lowest free descriptor, as the kernel
does, and `StartHandler` joins the thread that had it before. `life` follows the owner of
an object: constructor, `bind` or `connect`, destructor, in its steps. `input` and
`output` are histories. `DatagramPipe` is the promise for one direction; under
the refinement mapping `output` of an end is what the handler of the other end sent
to its target port.

### 2.7 Session

The state is small: the settings on the server, what each device polled
(`stage`), and the settings its running session was built from (`built`). All that
`start_session` and the functions it calls write into the document is a function of
the latter: `Ports`, `Connections`, `WaitPorts`, `Received`, `SenderChannels`,
`Sockets`. Which members a packet goes to depends on its kind: audio is sent by
`recsrv` (`Peers`, `sendtoserver`), head tracking and additional ports by `xrecsrv`,
which does not ask for the kind of mix and has its own rule for the server (`XPeers`,
`xsendtoserver`). `Relays` is the relay server (external), `Passes` the sum of these, and
`HandedTo` the local ports of `process_msg` (`Forwarding` has the details of a packet's way).

The senders go by their own list of members, which may lag. `registered` is what the server
has of each client, `lists` what each client has of the others. A client that starts has an empty
list and is not registered; it registers (`Register`) and learns of the others from the server
(`Learn`), entries time out (`Expire`), and those of a client that is gone stay, marked by
`new = FALSE`, until they are replaced (`Leave`). In setups with `late = FALSE` everybody knows
the truth at once, which keeps the runs about everything else small. Assumed is that a
list message in flight is not overtaken by the next change, that a registration does not arrive
after its client ended, and that the server's own entries do not expire. A copy sent to the
address of an old client is taken to be able to arrive at the new one.

Port numbers are computed as in the code. `PortsApart` collects the conditions under
which the port numbers of several devices, which users choose in part, do not meet.
Positions, gains, acoustics and the text of the document are left out; so are the parts that add no audio path.

## 3. Runs

`runs` in `PROJECT.json` lists module, configuration and properties. Sizes are
those of the state graph.

| run | question | bounds, and why they suffice |
|---|---|---|
| `MCSorterNetwork` | Is the sorter a reorder buffer, does its loop end, and what do order, drops and counters say behind four kinds of network? | `Half = 6` gives all branches, wraps included. *Ordered*: two devices, a control port, two losses: one gap, two in a row, gaps in both streams, no wrap (see the finding). *Swapping*: nine packets across the wrap, with swaps before, at and behind it. *Unruly*: two streams of one device share the counter; one loss, one duplicate, overtaking by two, right before the wrap. *Anything*: four arbitrary datagrams fill both buffers, drain them, and overwrite `buf1` |
| `MCCallerList` | All interleavings of a member with both threads; do rounds complete, leavers expire, members stay? | every operation; `TIMEOUT = 2` separates "counting down" from "expired"; report every first or second round. One entry: entries share the lock, and a thread that is at another one is a thread that is elsewhere |
| `MCService` | Four configurations in any order, every failure, restarts of the service | each configuration differs from each in what takes part in a restart: room or alone, device and rate, mixer mode, ambient file, extra configuration; failures include a description of a device that throws; 3.9 million states |
| `MCServiceLive` | Can the service be stopped, and does a configuration reach the session? | downloads and requests that fail now and then |
| `MCForwarding` | Does each packet arrive once, readable, and is the lock true, while the members learn of each other? | six sessions, each with the unstable entries its case is about: two peers of which one changes to relay mode; two members over the relay; a peer with a neighbour and a member in relay mode; downmixer, its listener and others; a proxy with a client, served by peers or by the relay; `MaxInc = 2`: in the first one member may restart once, hence an old and a new key |
| `MCTcpTunnel` | Frames, ends and threads of the tunnel | `Cap = 1`: every frame is cut and every writer blocks. Two datagrams in a row, one in each direction, two clients one after the other (a descriptor is used again) and at once; breaks and ends at any point |
| `MCSession` | Does the graph of the sessions fit together? | every combination of one device's settings against several of another's (7392 pairs); two devices that change among four roles while each polls on its own, both as peers, both over the relay, or one of each; two that change between listener and downmixer, or to a member that does not receive, while their lists lag, both as peers or one of them; two rooms whose devices share a computer, with stage ids 17 apart, head tracking and different additional ports, with no, some or only peers |
| `MCSorterWrap`, `MCSorterDeadline`, `MCCallerListTimeout`, `MCServiceStart`, `MCForwardingProxy` | see section 4 | smallest instances that show it |

### What the properties say

Sorter.
`Conservation`: delivered, dropped and pending datagrams partition the arrivals.
`HeldIsNewest`: while the thread waits for the network only the newest datagram
can be held, in `buf1`. `PointerDiscipline`: a pointer into the sorter's buffers
never designates a valid message when `process` is called. `LoopTerminates`:
the loop ends.
`OrderKeptUnwrapped`: what is handed out of a stream never steps back, on a network
that keeps the order before the numbers wrap (`Straight`) and, across the wrap, when
neighbours of one stream are swapped and nothing is lost (`Neighbours`). Without the
conditions it is `OrderKept`, which fails at the wrap (section 4). `NothingDropped`:
swaps of one stream alone lose nothing. `DropsBelowLosses`: each drop in the sorter
costs the network a loss, plus one for the first gap. `LostIsGapBalance`: the lost counter of
a device is the span of packet numbers seen minus packets received, over its
streams, wrap or not, if no two packets of a stream that come one after the other are
half the range of the numbers apart (`NoJump`). `NoFalseSeqErr`: losses alone are not sequence errors, before the wrap.

Member list.
`NoUnderflow`: the unlocked decrement cannot wrap the unsigned timeout, whatever is
written in between. `LostAfterNew`: nobody is announced lost who was not announced
new. `PingsReported`: what was counted since the last report or reset is still
there to be reported. `RoundsComplete`, `LeaverExpires`, `MemberConnected`: as in
section 1.

Backend and service.
`NoLeak`: no active session, no renderer and no client, after any failure.
`RunsConfig`: after a completed application the running session was built from the
current settings. `ImplementsLifecycle`: see 2.4. `SettledSessionKept`: a session is
torn down only if the configuration changed, a restart of the audio backend is
requested, or the service stops. `StopEndsAll`: after `stop_service` everything
ends. `ConfigApplied`: what the server keeps serving is what the session runs from,
again and again.

Forwarding.
`AtMostOnce`: no local receiver gets a packet twice, nor its own, however incomplete
or old the lists are: what a peer gets directly the relay does not send it too. It is
stated for `Steady` sessions, see section 6.
`ServedWhenKnown`: a packet sent when everything is known reaches everybody that
takes packets exactly once and readable, directly, over the relay, or over the
proxy, and nobody else, if proxies are set up as meant (`ProxiesServe`, see section 6).
`LockMeansEncrypted`: while a client reports that all it sends is encrypted, no
plain copy leaves it.

TCP tunnel.
`ImplementsPipe`: both directions are queues of whole datagrams.
`NoThreadSurvives`: writers end before their descriptor is closed, every running
handler is in the table that the destructor walks, and none is left when it returns.
`Delivered`: what goes in comes out while the connection holds. `DestructorReturns`:
whatever the threads are doing. `BothEndsClose`: a connection that breaks or is
closed at one end ends at both.

Sessions.
`PortsExist`: a session waits for and connects only ports that one of its clients
makes. `HeardOnce`: between up-to-date sessions of which the sender knows the receiver, the audio
of a member reaches exactly the receivers meant for it, with the channels they expect, and
each channel has one way into the mix; who does not take it hears nothing. Head tracking
reaches the server of the other session, if that one receives, and nothing else. By the rule
of `xrecsrv` a member that uses the relay gets that of a peer only if another peer is not
sent to, so for such a pair only "nothing else" is stated. `NoAudioReturns`: there is
no circle of mixes and ports, not even while sessions and lists lag. Both are about stages whose ports do not meet
(`PortsApart`, which holds in all setups of the run).

### Fairness

- `MessageSorter`: weak fairness of `process`. The thread runs; nothing can block it
  inside the loop.
- `SorterNetwork`: also of `RecvNothing`. The socket has a receive time-out
  (`set_timeout_usec`), so a thread on a silent socket comes back. No packet is
  assumed to arrive.
- `CallerList`: weak fairness of each thread's steps. Strong fairness of
  `ReportLock`: the status thread blocks on a mutex that is free for most of the
  time. Strong fairness of a registration for each member in the session, because
  the relay server repeats its member list for ever and a registration is dropped
  only while the report is running. It is assumed of the relay server, which is
  not in this repository.
- `Service`: weak fairness of the thread. Strong fairness of a successful poll and
  of a successful download of the ambient file, because both are tried again on
  every poll. `ConfigApplied` also assumes that only downloads fail; section 4 and
  6 say what happens otherwise.
- `TcpTunnel`: weak fairness per thread: threads run, and a system call returns when
  it can. A `write` to a full stream that nobody reads cannot, no matter how fair.
  Owners need not call `Close`, datagrams need not arrive, connections need not break.
- `Forwarding`, `Session`: none; their properties are safety properties.

## 4. Where code and documentation disagree

Five runs are expected to end in a violation. Each checks a sentence of the
documentation against what the code does.

1. **The wrap of the sequence numbers breaks the order** (`MCSorterWrap`,
   `OrderKept`). `ovboxclient.h:48-52`: the class sorts out-of-order messages. All
   differences are taken modulo 2^16, but `ovboxclient.cc:702` decides by
   `buf1.seq < pmsg->seq` which of two messages goes first. Lose a packet right
   before the wrap: its successor (large number) is held, the one after (small
   number) goes first. The network never reordered anything.
2. **The reorder deadline releases nothing** (`MCSorterDeadline`,
   `HeldUntilDeadline`). `ovboxclient.h:144-148`: "Set the deadline to wait for
   packages in case reordering is required." The deadline is the receive time-out
   of the socket; when it passes, `sendsrv` (`ovboxclient.cc:367`) does not call the
   sorter. A held packet waits for the next datagram, and for ever if none comes.
3. **A registration can be lost** (`MCCallerListTimeout`, `StaysForTimeout`).
   `callerlist.h:26`: "timeout of caller actvity, in ping periods". The status
   thread decrements (`callerlist.cc:140`) and resets (143-146) without the mutex
   and overwrites a registration in between, so a member that was active less
   than the timeout ago counts as disconnected. `MemberConnected` shows that the
   next registration repairs it.
4. **A failed start is not repeated** (`MCServiceStart`, `StartedAfterPoll`).
   `ov_types.h:486-490`: "if the session is inactive, then start the session".
   `ov_types.cc:276` sets `session_active` before the renderer exists, and the
   handler of a renderer that fails to start does not clear it (the call is
   commented out, `ov_render_tascar.cc:1589`). The next poll finds the session
   active, starts nothing, and clears the error at the server.

5. **A held message loses its sender** (`MCForwardingProxy`,
   `ForwardedFromOutside`). `ovboxclient.cc:64-66`: messages go to the proxy clients
   "if the message arrived from outside the local network". `process_msg` looks at
   `msg.sender`, but `msgbuf_t::copy` (`udpsocket.cc:635`), with which the sorter
   keeps a message, copies every field except that one. After the sorter held it, a
   message of a neighbour may be forwarded, one from outside may not.

## 5. Proofs

The theorems hold for every value of the constants that satisfies the named
assumptions: `SorterAssumption`, `CallerListAssumption`, `BackendAssumption`,
`ServiceAssumption`, `ForwardingAssumption`, `SetupsAssumption`,
`TunnelAssumption`, `SessionAssumption`. These say that the bounds are numbers, that
the defaults of the code are among the values, that instances have the type of an
instance, for the member list that the timeout is positive and fits its type, and
for the sessions that there are finitely many devices, that a room has one per stage id
(0 to 31), and a computer at most one primary and one secondary client.

**MessageSorterProofs** - `TypeCorrect`, `NothingVanishes` (Conservation),
`OneHeld` (HeldIsNewest), `PointersSafe` (PointerDiscipline), `SorterRefines`
(ImplementsReorderBuffer), `BoundedOvertakingHolds`. `Conservation` is not
inductive: whether `SortRelease` loses what is in `buf2` depends on where the loop
is. The invariant `IInv` adds `Buffers`, which says for each position of `pmsg`
which buffers can be in use and which arrivals they hold; `buf2` is in use
only between handing out `buf1` and draining `buf2`. With `Open` of the abstract
module equal to `Pending`, each branch of `process` is one abstract step or none.
`LoopBounded` gives the loop a measure: `LoopLeft` is at most three while the loop
runs, and every call takes at least one off. It follows from the place of `pmsg` and from
which buffers are full there, that is from `IInv` again.

**SorterNetworkProofs** - `NetTypeCorrect` (NetTypeOK), `NetRefines`,
`NoFalseSeqErrHolds` (NoFalseSeqErr), `DropsBelowLossesHolds` (DropsBelowLosses),
`NothingDroppedHolds` (NothingDropped), `OrderKeptUnwrappedHolds`
(OrderKeptUnwrapped), for any number of devices, streams and packets and any width
of the sequence numbers. `NetRefines` says that the composed system is a sorter with
arbitrary datagrams: the theorems of `MessageSorterProofs` hold for it, and their
invariant is a part of this one. What the sorter does not know, the true numbers of
packets, is tied to what it does by `Carries`: a sequence number is the wrapped packet
number (`Numbers`), and the numbers the sorter keeps of a stream are those of the
last packet that arrived and the last that was handed out (`Linked`). From there the
two cases part.
On a network that keeps the order, what comes is ahead of all that was received, and
what is held ahead of all that was handed out of its stream (`Ahead`), so that no
comparison goes backwards. A packet is `Gone` when it was sent and is neither on
its way nor received: there are at most as many as losses (`GoneInv`). What opens a gap
is the successor of one that is gone, and a message is overwritten in `buf1` by the
next one of this kind (`Drops`): the dropped messages and the one behind them inject into `Gone`.
With swapped neighbours, the stream is in one of five phases (`Neat`): `Settled`
(packets 1 to m have arrived and are handed out), `Waiting` (m + 1 is in
`buf1` and m still to come), and three positions of the loop in between. In none of
them another message can take the place of the held one. Differences of
neighbours survive the wrap, which the lemmas about `Wrap` say.

`LostIsGapBalanceHolds` (LostIsGapBalance) holds for every network, also one that loses,
repeats and reorders at the same time, as long as `NoJump` does. Every number comes
from a counter of a sender (`Traced`). Of the numbers between two that
come one after the other each was lost, came before them and overtook the older one, or is
still on its way and overtaken by the newer one; so the two are at most
`loss + 2 * overtake + 1` apart
(`Close` for packets on their way, `Near` for those that came). Hence the wrapped
difference the code adds up is the true one. What it compares with is the last arrival of the
stream (`Followed`), so the sum of the differences is the span (`Balanced`). The sum itself is
stated without a fold: `Reached` and `Before` are the sets of numbers up to the last and up
to the first packet of each stream, `Moves` the packets that came after it. Each step adds to or
takes from these sets a slice whose size is the difference the code computed.

**CallerListProofs** - `TypeCorrect`, `TimeoutNeverWraps` (NoUnderflow),
`PingsAccountedFor` (PingsReported), `LostOnlyAfterNew` (LostAfterNew). `IInv`
is the conjunction of `Mutex` (who is in a critical section holds the lock),
`Countdown` (between the check of a timeout and the write of the decremented one it
cannot become zero, since only the status thread lowers it), `Announced` (the flag
does not outlive the announcement, except between the callback and the reset),
`Reported` (the statistics cover what was not reported, also in the middle of an
increment) and `Position` (the thread's place in the list). There is one lemma
per action. The argument shows what the mutex is good for: `PingsReported` needs
it, `NoUnderflow` does not.
`RoundBounded` is what `RoundsComplete` rests on: a measure of what is left of a round, at
most `7 * Num + 3`, that no other thread raises, and, for the one place where the thread
can be kept waiting, that the receiving thread holds the mutex then and is at most three
steps from its release. `SilentMemberCountsDown` is the same for `LeaverExpires`: with
`Remaining`, the timeout minus the decrement that is under way, no interleaving
brings back what was counted down, except a sign of life of the member.

**ServiceProofs** - `TypeCorrect`, `NothingLeaks` (NoLeak), `LifecycleImplemented`
(ImplementsLifecycle). `TypeOK` alone is not inductive: at `relay` the
configuration must have a host, which `RelayKnown` adds. `Ordered` is `NoLeak`, "a
renderer needs an active audio backend", and for two sets of labels what the
calls before them established: at the labels where the audio backend is stopped or
started no session is active, and where a session is started the audio backend
is. An exception at any step leads back to labels that claim nothing.
`RunsCurrent` (RunsConfig) needs the same of the settings: `Current` says that at every
label, also after an exception, a session that runs was built from the current
settings, or the request to restart it is pending, or the thread is about to end it.
`SessionKept` (SettledSessionKept) is an action property under
two hypotheses of section 6 (`OnlyServer`, `OwnListed`). Its invariant says,
for each label, which parts of the configuration the backend holds already
(`Taken`); if none of them differed from before there was no reason to ask for a restart,
so where one is asked for a difference is on record (`Reason`).
`StopBounded` is about the way out: `StepsLeft` gives each label the number of steps that
are left once `runservice` is cleared, at most 28. Whatever throws leads to a smaller one,
and no renderer, client or audio server is left at the labels where the thread is not running.

**ForwardingProofs** - `TypeCorrect`, `LockIsTrue` (LockMeansEncrypted). The lock
of a client is a conjunction over the copies of one packet, collected in a flag
while they are sent; the theorem says for any session and any state of the lists
that the flag agrees with the seals of the copies on their way. `IInv` adds that
the flag is down while nothing was sent yet.

`NotTwice` (AtMostOnce) has to follow one packet through all its copies. `Listed` says
that an entry in use is about a member of the session and, when restarts keep
members in or out of peer-to-peer mode, is right about that mode however old it is. So sender and
server never disagree on who is served directly. `Once` says the rest: no
two copies are on their way to one receiver, none together with a copy for the server that would be
relayed to the same one, and whoever was handed the packet is not the target of a copy
that is left. Copies made by a proxy go to its clients only.

`ServedHolds` (ServedWhenKnown) needs no history of single copies. When all is known the
settings alone decide who gets the packet directly, from the server or from a proxy
(`GetsDirect`, `GetsRelayed`, `GetsForwarded`), hence which copies may exist and what may be
handed to whom. The invariant `Calm` says that there is nothing else
(`NothingElse`) and that what is missing has a copy on its way (`Everything`); with no
copies left, everybody has exactly what is due (`Expected`). `OneOfThree` shows from
`ProxiesServe` that the three ways exclude each other and that there is one for each
member that takes the packet. Deliveries at most once then follow without counting.

**TcpTunnelProofs** - `TypeCorrect`, `NoThreadLeft` (NoThreadSurvives).
`NoThreadSurvives` speaks of the moments when a descriptor is closed and when a
destructor returns; what makes them safe happens earlier. `Waiting` says that
every connection is in the backlog once at most and has no handler yet, `Serving`
the same of the one the acceptor has in hand, which also has its descriptor, and
`Table` that a handler that runs is in the table under its own descriptor. Hence
two that run have different descriptors, and an entry is only replaced when its
thread has closed.
`EndsGoOn` looks at an end that has to close (`Ending`: its object ends, the
connection broke, or the other side closed it). Either one of its threads can take a step
(`Able`), or its writer is blocked on a full stream whose other end has not been
given to a handler yet, reads, or ends itself (`HeldUp`). The last case and a connection that
is never accepted are the exceptions of `DestructorReturns`: the theorem says
that there are no others. `EndLeft` is at most four once the
handler has left its loop. The invariant `EndInv` says that the flag follows the owner, and
that a handler leaves its loop for a reason that lasts and has told its writer.

**TcpTunnelPipeProofs** - `PipeImplemented` (ImplementsPipe), for any number of
connections and datagrams, any capacity and any number of parts. The
reader checks nothing, so the theorem needs the content of the stream. `Order`:
its units follow each other without a gap, the first is the one the reader
expects, the successor of the last is the one the writer is at. The ends of this
chain hold only while the reader reads and the writer writes: who gave up
a frame in the middle never writes again (`Writes` is false: its connection is
unusable or its object has ended, and neither is ever undone), and who left its loop
in the middle of a frame never reads again (`Reads` is false). `Threads` ties the threads' registers to the
histories, `Numbered` numbers the datagrams.
`NothingGetsStuck` uses the same chain for `Delivered`: on a connection nobody ends
(`Undisturbed`) both threads of both ends stay in their loops, so a datagram that is missing at
the other side has a unit in the stream, which can be read, or is with the writer,
which then has room for it.

**SessionProofs** - `TypeCorrect` (TypeOK), `PortsExistHolds` (PortsExist),
`HeardOnceHolds` (HeardOnce), `NoAudioReturnsHolds` (NoAudioReturns), for any devices,
rooms, computers and configurations. The steps are simple and so is `IInv`: a running
session is the stage the renderer stores, because equal stages build equal sessions
and unequal ones are noticed (`SameUnlessDiffers`), and that stage is one that was polled
(`Formed`). These are the parts of `Base`; `Informed` and `NoStaleCircle` are about the
lists, see below. Most of the work is in the operators. For `PortsExist` there is one lemma per kind of
port (`OwnPortsHave` to `HwPortsHave`) and one per kind of connection (`ReceiverEnds` to
`OutputEnds`): the condition under which a connection is made implies the
one under which its ends are. `SameNumber` is where
consistently named channels are needed. For the other two, `SocketKinds` lists who
listens, `Offsets` and `ZitaPort` give the ranges of the numbers (2 per stage id,
shifted by 64 and 100), and `SocketReserved`, `AudioSockets`, `HeadSockets` and `ExtraSockets`
decide which sockets a port can belong to. `AudioSockets` is where two
clients on one computer with stage ids 18 apart would meet. With `LocalAudio` (what a
device sends) that yields exactly the receivers of `HeardOnce`, and with `HeadPasses` (who
`xrecsrv` sends to) and `HeadServer` the way of head tracking; `OneWay` adds that what
follows a receiver is connected once. In a circle, every device puts what it gets into
a downmix it sends, hence has virtual acoustics and takes no downmix (`Mixes`, from
`Returned` and `DownmixConnection`). But what it gets is such a downmix. An up-to-date session
has no receiver for it. Among peers `recsrv` sends it only where the list of the sender has the
receiver as one that takes downmixes, which is outdated (`StaleReturns`): in a circle every
device has an outdated entry of the next one. That cannot be. Only a registered client has a
list, and what it gets is true when it gets it (`Informed`). So if s goes by an old mode of x, it
heard of it before x registered in its new one, and had registered itself before that. Around
the circle each device would have registered before the next: whenever a client
registers, nobody it goes by can close a circle that was not there (`NoStaleCircle`).

Model-checked only: all liveness properties and everything that uses fairness
(`LoopTerminates`, `RoundsComplete`, `LeaverExpires`, `MemberConnected`,
`StopEndsAll`, `ConfigApplied`, `Delivered`, `DestructorReturns`, `BothEndsClose`),
which are out of reach of the prover. Every safety property of a passing run is stated
by a theorem. The theorems about measures (`LoopBounded`, `RoundBounded`,
`SilentMemberCountsDown`, `StopBounded`, `EndsGoOn`, `NothingGetsStuck`) are the safety
behind seven of the nine: that nothing leads away from the goal, and what a thread can wait for. That
a step which can be taken is taken remains for TLC. `MemberConnected` and
`ConfigApplied` depend on what the servers do and have no such part.

## 6. What is left out

- *Pings and their statistics, bit rates, the text of control messages, the packing
  of headers*: they do not decide where a packet goes.
- *The teardown of the client*: the order of destructors is listed as a hazard; what a
  thread finds in a destroyed object is undefined.
- *Uploads*: a message of the running session can make another thread upload
  plugin settings and wake the service. The shared variables are listed as hazards.
- *Parts of a session that add no audio path between members*: the recorder, web
  mixer, echo canceller, included files.
- *Files for the next start of the program* and the branches that end the program
  (`quit`) are one flag.
- *Races inside standard containers* (`seqmap`, `sorter.stat`): undefined
  behaviour within `std::map` is below the level of these modules.
- *Sound cards, MAC address, error messages, encryption example*: no state.

Assumptions that limit a result:

- `LostIsGapBalance` assumes `NoJump`: no datagrams from nobody, and either no more packets
  per stream than half the range of the numbers or a network with
  `loss + 2 * overtake + 1` below that half. Without it a jump of half the range counts as
  a step back, here and in the code; with 16 bits, that takes 32767 packets lost in
  one network.

- `MCService` has `OtherRates = {}`: no other audio server runs when one is spawned.
  With one at a different rate, `start_audiobackend` replaces the requested rate by
  the actual one, the next poll finds a difference and restarts audio and session,
  for ever: `SettledSessionKept` fails. This was confirmed with TLC and is listed as
  a hazard.
- The configurations of that run list the own device in the room. A room without it
  leads to a restart on each poll, since building the session enters it.
- `RunsConfig` leaves the extra configuration out: `set_extra_config` asks for a
  restart at its end, so that a bad value behind a good one stores the latter
  without a restart. Listed as a hazard.
- `AtMostOnce` is about `Steady` sessions and excepts devices that use a proxy: while a
  neighbour's list is incomplete they may get a packet from it and from the proxy. A
  session of more than two devices is steady if nobody restarts into or out of
  peer-to-peer mode. Otherwise, TLC finds, a packet may arrive twice. A member in relay mode
  makes everybody send to the server as well; a peer that restarts in relay mode gets
  the direct copy with its old entry and the relayed one with its new registration, and
  so do the receivers of a sender that restarts while its copy for the server is on its way.
  Every client a proxy lists must say that it uses one.
- `ServedWhenKnown` assumes that proxies are set up as meant (`ProxiesServe`): the client
  has one proxy, a peer in its own network that takes the same mix, the client
  itself is a peer that takes nothing else, who is in that network sends to local
  addresses, and no packet passes through the sorter's buffers (section 4, item 5). TLC finds
  a packet that is doubled or lost when a condition is dropped.
- `ServedWhenKnown` is about packets that are sent when all is known. After a restart
  copies are still sealed with the old key; the client cannot open them and hands
  them on as they are, until its new key is known.
- `packmsg` numbers the boundary port `MAXSPECIALPORT` and the sorter does not sort it. No run has
  it among its ports, and nothing is stated of the order on control ports.
- `LockMeansEncrypted` is about the packets of `recsrv`. `xrecsrv` neither counts its
  copies nor encrypts the one for the server.
- `Delivered` excepts a handler that was started before `bind` knew its port: it sends
  to port 0. `DestructorReturns` excepts both ends closing at once, when each may be
  blocked in `write`, and a connection that the kernel took and nobody accepts
  (the listening socket is never closed, because `isopen` is never set). In each
  case TLC shows the blocked state when the exception is removed.
- The tunnel assumes that SIGPIPE is ignored, that no fixed response port is asked
  for, and that both ends learn of a connection that breaks. The code sets no keepalive: an
  end that only reads from a connection whose other end vanished waits for ever.
  Frames larger than the buffer, which the writers do not send, and the byte written behind
  what was read (`ovtcpsocket.cc:249`, also after a failed read) are not in the model. The
  latter is a hazard that no property covers.
- `PortsExist` excepts three combinations in which the code does connect missing ports:
  the metronome with channels of which only some have names
  (`ov_render_tascar.cc:745` counts all channels, TASCAR those without a name), the
  downmix of a receiver other than the default one (909), and the second bus of a
  downmixer with more than two channels.
- `HeardOnce` does not compare the number of channels a downmixer in raw mode sends.
  It excepts secondary clients with a second receiver: `process_msg` does not shift
  its port (`ovboxclient.cc:460`), it hears nothing, and what it should get goes to the
  second receiver that the primary client on the computer has for the same stage id.
- `HeardOnce` and `NoAudioReturns` assume `PortsApart`: no stage ids 18 apart where
  there are secondary clients (the port ranges of first and second receivers meet), and
  additional ports outside of the ranges of the program and not shared by
  members of one room (each would forward to the other for ever). Nothing in the code
  checks this; the configuration server would have to.
- `NoAudioReturns` holds at any time if all clients are peers. The relay server does not
  know about mixes: with one member that uses it, a peer with an outdated
  session is enough for a circle, so there it is stated for up-to-date sessions only.
- A configuration whose hash arrived with a garbled body is not asked for again.
  `ConfigApplied` is stated without garbled replies. Listed as a hazard.

## 7. Plan

What is left, the most useful first.

1. Ping statistics and the message format as operators, checked against reference
   definitions.
2. Uploads and the session's message thread in `Service`; the teardown of the client.

## 8. How to run

    tlc -workers 2 -config MCService.cfg MCService     # a run
    tlapm ServiceProofs.tla                            # a proof module

Every configuration file starts with a line that says what it instantiates.
