# A TLA+ model of the LoRa farm simulation

The repository holds two programs on top of ns-3:

* `lora-p2p-project/lora-p2p-transfer.cc`, a camera that sends an image over a
  slow LoRa-like link to a receiver, with selective retransmission;
* `lorawan-develop/lorawan-develop`, the lorawan module: Class A end devices,
  gateways, a radio channel and a network server.

Both are discrete-event programs: one thread, a queue of timed events, handlers
that run to completion. All that is hard about them is *in which order* handlers
run, what state an earlier one has left to a later one, what two ends of a link
take the same bits to mean, and what the radio loses. The modules keep the
handlers, their guards and their order, and abstract payloads and wording.

Paths are relative to `src/`; `L` stands for `src/lorawan-develop/lorawan-develop`.

## 1. Inventory

| component | state | operations | what must hold | module |
|---|---|---|---|---|
| P2P image transfer (`lora-p2p-transfer.cc`) | pending chunks, received chunks, completion flag, four timers, metrics | SendChunks, SendChunk, CheckAcks, SendAcks, both HandleRead, SaveImage | nothing is acknowledged that is not stored; completion means the file is whole; both ends finish and stop | `ImageTransfer`, `ReliableTransfer` |
| End device MAC and PHY (`end-device-lorawan-mac`, `class-a-end-device-lorawan-mac`, `end-device-lora-phy`, `simple-end-device-lora-phy`) | radio state, frame counter, retransmission parameters, window and retransmission events, duty cycle | Send, DoSend, PostponeTransmission, TxFinished, Open/Close of both windows, StartReceive, EndReceive, Receive, FailedReception, ParseCommands (ACK) | no assertion fails; transmissions are bounded; no window interrupts the radio; every packet is reported once; no wait is for ever | `ClassAEndDevice`, `EventQueue` |
| MAC commands and ADR at the device (`end-device-lorawan-mac`) | data rate, power, channels, ADR counter, pending answers | ParseCommands, OnLinkAdrReq, OnDutyCycleReq, OnRxParamSetupReq, OnDevStatusReq, OnNewChannelReq, ..., the backoff and the checks of Send | commands are applied as a whole or not at all; nothing a server may ask for stops the device; a lost link is found again | `DeviceCommands`, `AdrLoop` |
| ADR at the server (`adr-component`) | received powers of the last packets | BeforeSendingReply, AdrImplementation and the combining methods | results stay in the tables of the device; no margin is spent that the link does not have | `AdrAlgorithm`, `AdrLoop` |
| Logical channels, sub-bands, regions (`logical-lora-channel*`, `sub-band`, `lorawan-mac-helper`, look-ups of `lorawan-mac`) | channels and masks, next transmission time per sub-band | GetWaitTime, AddEvent, enable/disable/replace, tables of three regions | every look-up is within its table | `ChannelPlan` |
| Headers, commands, addresses (`lora-frame-header`, `lorawan-mac-header`, `mac-command`, `lora-device-address*`) | a header under construction, the generator's counters | Serialize, Deserialize, Add..., NextAddress, GetNextAddress | what is read is what was written, or a prefix; an address finds its owner | `MacCommands`, `DeviceAddress`, `FrameHeader`, `HeaderExchange` |
| Gateway MAC and PHY (`gateway-lora-phy`, `simple-gateway-lora-phy`, `gateway-lorawan-mac`) | reception paths, their pending EndReceive events, TX flag, rest of each sub-band | StartReceive, EndReceive, Send, TxFinished, Receive | paths and events agree; the fate of a frame is told once; half duplex | `Gateway`, `EventQueue` |
| Network server (`network-server`, `network-scheduler`, `network-status`, `end-device-status`, `network-controller*`, `gateway-status`, `forwarder`) | per device: list of received packets with the gateways that heard them, the next reply, the next opportunity | Receive, OnReceivedPacket, InsertReceivedPacket, OnReceiveWindowOpportunity, GetBestGatewayForDevice, BeforeSendingReply, InitializeReply | one reply per uplink that asks, fitting it, in time for a window, through a gateway that heard it; or the server gives up | `NetworkServer` |
| Radio channel and interference (`lora-channel`, `lora-interference-helper`, `lora-phy`) | signals under way, the list of signals at each antenna | Send, Add, CleanOldEvents, IsDestroyedByInterference, GetOnAirTime | an interferer is not forgotten while it matters; of two colliding frames one at most is received | `Radio`, `Interference`, `AirTime` |
| Energy (`lora-radio-energy-model`, `lora-tx-current-model`, the PHY's listeners) | radio state, time and energy of the last update, pending state changes | ChangeState, re-entered by the energy source | every moment is charged with the state the radio was in | `RadioEnergy`, `Radio` |
| Packet tracker (`lora-packet-tracker`) | tables of packets seen at MAC and PHY | the trace sinks, the counts | counts add up | `PacketTracker`, `Radio` |
| Senders, net device, helpers, propagation, scripts, examples, tests | | | | not modelled, see 7 |

Interactions: an application calls the device's `Send`; device and gateway PHYs
meet on the channel; a gateway forwards uplinks through `Forwarder` over a
point-to-point link (2 ms in the examples) to the server; the server sends its
reply back the same way, after asking the gateway *object* directly whether it
is free, and reads power and data rate from the device *object*. The hard
behaviours are: an application that calls `Send` at any moment; receptions that
outlive a window; one event (`m_nextTx`) that serves two purposes; parameters
that change between an uplink, its windows and the next `Send`; frames lost,
duplicated by several gateways, or destroyed; downlinks that interrupt
receptions; an energy source that calls back into the radio in the middle of a
switch; state of a gateway read 2 ms before it is used.

## 2. Modules

| module | what it is |
|---|---|
| `ReliableTransfer` | abstract promise of the image transfer: chunks are stored, confirmed, and only then is it finished |
| `ImageTransfer` | the protocol of `lora-p2p-transfer.cc`, shown to implement `ReliableTransfer` |
| `EventQueue` | the simulator's timed events as a set of [what, left, later] records, with Schedule, Cancel, Due and Elapse; `later` keeps the order of events of one instant |
| `ClassAEndDevice` | MAC and PHY of an end device (uses `EventQueue`) |
| `Gateway`, `MCGateway` | MAC and PHY of a gateway (uses `EventQueue`); its instance for TLC |
| `NetworkServer` | the server as one device meets it |
| `ChannelPlan` | channels, sub-bands and the tables of a region |
| `MacCommands` | the fields of every MAC command, its bytes and its reading |
| `DeviceCommands` | what commands, backoff and the checks of Send do to a device (`ChannelPlan`, `MacCommands`) |
| `AdrAlgorithm` | the server's ADR algorithm as pure functions |
| `AdrLoop`, `MCAdrLoop` | composition of `DeviceCommands` and `AdrAlgorithm` over a link |
| `DeviceAddress`, `FrameHeader` | addresses and their generator; both headers (`MacCommands`) |
| `HeaderExchange`, `MCHeaderExchange` | composition: installation, frames as bytes between devices and server |
| `Interference`, `AirTime`, `RadioEnergy`, `PacketTracker` | the signals at an antenna and which survive; the time a frame takes; states and charges of a radio; the tracker's tables |
| `Radio`, `MCRadio` | composition of these on one channel |
| `*_proofs` | theorems about the module of that name; `Radio_proofs` also those about `AirTime`, `AdrLoop_proofs` those about `AdrAlgorithm` and `DeviceCommands` |

The modules have one style: an object is a record in one variable, a method is
an operator from the object (and its arguments) to the object, so a method that
calls another is a composition of operators in the order of the calls, and an
action of `Next` is a whole handler. An operator that a comment calls a mutant
is a plausible slip in the operator after it; each property notices its mutant.

### 2.1 ImageTransfer

`m_pendingChunks`, `m_chunks`, `m_complete`, `g_metrics` have the names of the
code. A timer is the number of half-second slots left, or `Off`. A chunk's bytes
are the set of their offsets in the image, so that a chunk cut short or overrun
shows in `savedImage`. The link is a bag of data packets (it may reorder; the
program's FIFO queue is one of its behaviours) of which at most `MaxLosses` are
lost. ACKs are not lost, as `main()` installs the error model on the receiver's
device only. `StopApplication` has no action: `main()` stops the simulator at
the time at which the applications would stop.

### 2.2 ClassAEndDevice

Time is in thirds of a second. `EndReceive` is chosen freely to be a frame
for the device with an ACK, a frame for somebody else, or garbage. A downlink
that is for the device and has no ACK while one is awaited does not occur: the
server sets the bit on every answer to a confirmed uplink, which is what
`ReplyFitsUplink` of `NetworkServer` says. `Paced` says whether the application
waits for one packet to finish before it hands over the next, or calls `Send` at
any moment. `fault` names the assertion that would have stopped the program, so
that every NS_ASSERT and NS_ABORT_MSG of the handlers is one invariant, `NoFault`.

### 2.3 Gateway

`paths` holds the frame each reception path is locked on, `occupied` is
`m_occupiedReceptionPaths`, `rest` is `GetWaitTime` per sub-band. The other
fields record what the outside sees: which trace fired for a frame, what was
forwarded, what was on the air during a transmission. Frames arrive at any
moment, each once; downlinks are ordered at any moment; a frame is destroyed by
interference or not, freely (`Radio` has the interference).

### 2.4 NetworkServer

`received` is `m_receivedPacketList` (a packet is the number of its uplink),
`reply` is `m_reply`, `window` and `left` are `m_receiveWindowEvent`. An uplink
carries one of `RequestSets` (of confirmed, ADRACKReq, LinkCheckReq) and is heard
by any set of gateways; each copy has its own delay. It is a new packet, or the
last one once more if that was confirmed. Counters are those of `DoSend`: a
retransmission and the next new packet share one (`CurrentFCnt`), and the server,
which knows packets by their counter, files both under the first it heard of
(`FiledUnder`). `ReplyFitsUplink` says what a reply still gets right, and
`ReplyThroughHearer` what it does not. At each opportunity any set of
gateways is free: the answer of `IsAvailableForTransmission` is an input here.
`UplinkGap` is what the device guarantees: no uplink before the second window of
the one before it is over.

### 2.5 AdrLoop

`dev` is the record of `DeviceCommands`: data rate, power, channels with their
mask, pending answers and the counter of the backoff. An uplink goes through the
phases "up", "open" (the server may reply) and "down"; `frame` is what was sent,
`reply` what comes back, `history` the last received powers, `resting` the
sub-bands whose duty cycle is used up, `postponed` those `m_nextTx` waits for.
Closing the second window cancels `m_nextTx`: of packets handed over during an
uplink, one that waits for the duty cycle is lost, one that waits for the end of
the windows alone is kept if it was handed over before the second one opened, and
a reception that is going on then keeps either (`WindowsClose`). Packets of an
application have the sizes of `AppPayloads`, as `PeriodicSender` draws them.
While `storm` holds the channel may destroy anything; it ends at some moment or
never. The server reads the power of the device when it replies, not when the
uplink was sent, as `AdrComponent` does. Powers are in quarters of a dB; the
logarithm of the noise floor is rounded to 117 dB.

### 2.6 HeaderExchange

Devices take addresses from the generator, one of them past the wrap of its 25
bits; the server keeps a status of each under its address. A header is filled by
the `Add...` functions, written into `wire` byte by byte and read back: by the
receiver, and by the scheduler's look-up in a direction nobody has set
(`m_isUplink` is not initialised, so both values occur). `Crash` in a list of
commands read is the dereferenced null pointer of a CID without a class.

### 2.7 Radio

Senders put frames on the channel at any tick; `flight` holds what has not
reached an antenna, in any order. The gateway and the end device each have the
list of `LoraInterferenceHelper`, the same one that decides at the end of a
reception. The end device opens and closes its window at any moment, its source
may run dry at any update and call back into the radio. `arrived`, `missed`,
`received` and `spent` are what an observer has seen. Received powers are
constants of the instance; air times come from `AirTime`, exactly as
`GetOnAirTime` computes them, with its unsigned numerator.

## 3. Runs

| run | instance | shows |
|---|---|---|
| `image_transfer` | 5 chunks, the last shorter, 4 losses, timers in the program's proportions | all safety properties, termination, silence, no premature retransmission, and `ImplementsFairPromise`: refinement with liveness |
| `device_paced` | 2 confirmed packets of 3 attempts, paced | one report for each packet, and each is reported |
| `device_unpaced` | 3 confirmed packets, `Send` at any moment | no assertion fails, the budget holds, the radio is never interrupted, an ACK ends its own packet's retransmissions, no wait is for ever |
| `gateway` | 2 paths, 2 uplinks and a foreign downlink, 2 orders, 1 sub-band | paths match events, one outcome per frame, and always one; half duplex |
| `server` | 3 uplinks, retransmissions among them, with 4 sets of requests, 2 gateways, copies up to one tick apart, any gateways free | a reply is sent once and in time, and fits the uplinks that share its counter; each request is answered or given up on |
| `headers` | 2 devices, up to 3 commands of every kind in a header | round trip up to the 15 bytes that FOptsLen counts, beyond them a prefix and nothing invented; an address finds one owner, past the wrap too |
| `adr` | 2 links to 2 gateways, servers that go by the worst or the best of 2 packets, packets of 47 and 51 bytes, interference that may end; a new channel, or one that is refused, or a link check | a packet that waits finds a channel when its time comes; no look-up throws; a careful server keeps the margin; what it asks for is what the device then uses; a deaf device is heard again, and a periodic application goes on being heard of |
| `radio` | 3 senders and a gateway, frames of 9 and 40 bytes at SF12, source may run dry | lists of interferers are complete while they matter; no double capture; energy is charged to the right state; the tracker's counts add up |

The runs below end in a violation, each of a sentence that the repository
itself says about the code; PROJECT.json quotes it.

| run | the code does |
|---|---|
| `device_counter` | a retransmission carries the next packet's frame counter, and the next packet carries it again |
| `gateway_two_bands` | two downlinks in two sub-bands overlap and the end of the first clears the TX flag |
| `headers_lookup` | the scheduler looks up the sender with a header of undefined direction, and a command without a class is a null pointer |
| `radio_retransmission` | the tracker does not know the packet of a retransmission and aborts the simulation |

The modules state more sentences of the repository that the code contradicts.
They have no run of their own; the change to a configuration with which TLC
shows each is in the last column.

| sentence | in | what the code does | shown by |
|---|---|---|---|
| `RateIsShareOfChunks` | `ImageTransfer` | the retransmission rate is a share of all sendings | `image_transfer` with `ImageSize = 5`, `MaxLosses = 2` |
| `PostponedIsSent` | `ClassAEndDevice` | a packet postponed to the end of the windows is cancelled when they end | `device_unpaced` |
| `NewerPacketWins` | `ClassAEndDevice` | the retransmission of an older packet replaces a newer one that waits | `device_unpaced` |
| `OneReport` | `ClassAEndDevice` | without pacing, a packet whose procedure goes on is reported as failed | `device_unpaced` |
| `NoWindowInTx` | `ClassAEndDevice` | with a duty cycle of 1 a packet goes out inside the windows and the program aborts | `device_unpaced` with `DutyWait = 1` |
| `SleepsFromStandby` | `ClassAEndDevice` | `Receive` retransmits and puts the transmitting radio to sleep | `device_unpaced` with `DutyWait = 12` |
| `CountsPaths` | `Gateway` | a downlink that interrupts receptions leaves them counted as occupied | `gateway` |
| `ReplyNamesLastPacket` | `NetworkServer` | after the counter wraps the list of packets never grows again | `server` with `CounterValues = 2`, `MaxUplinks = 4`, `NumGateways = 1` |
| `ReplyThroughHearer` | `NetworkServer` | a retransmission and the next packet have one counter, and the new packet is answered through a gateway that heard only the retransmission | `server` |
| `BestGatewayIsTaken` | `NetworkServer` | of gateways with the same power one alone is considered | `server` with `NumGateways = 3`, `Power = {10, 11}`, `MaxUplinks = 1` |
| `TransmissionIsPerformed` | `AdrLoop` | a packet postponed with a free channel in sight finds none after a LinkAdrReq has masked that channel: a null pointer | `adr` with `RequestSets <- MCOtherBand` |
| `LargestPayloadIsSent` | `AdrLoop` | with ADR and the largest payload of data rate 0, one answer that waits has every packet refused for ever | `adr` with `AppPayloads = {51}` |
| `PeekIsNext` | `HeaderExchange` | GetNextAddress returns the address after the next | `headers` with `MaxCommands = 1` |
| `SoleCommandArrives` | `HeaderExchange` | the constructors of RxTimingSetupAns, TxParamSetupAns and DlChannelAns leave another command's type in the object | `headers` with `Answers <- MCTimingAnswers`, `MaxCommands = 1` |
| `GatewayListsAll` | `Radio` | a signal that arrives while the gateway transmits is never listed as interference | `radio` |

Read off the code on the way, outside the models: `--loss` is documented as a
packet loss rate and set as an error rate per byte; a gateway in the ALOHA region
has no sub-band for the second window's frequency and asserts; the channel list
of a region with one channel makes the ADR backoff throw; the upper and lower
edge of a sub-band belong to neither; `m_aggregatedDutyCycle` is set by
DutyCycleReq and never used; a gateway does not look at the frequency of a frame
before it locks on it.

### Bounds

* `ImageTransfer`: five chunks are enough for a first, an inner and a short last
  chunk, and for losses of several of one burst; four losses allow a chunk to be
  lost, resent and lost again. `OneResendPerLoss` needs a burst and its ACK to
  fit into one check period, `LinkRate * (AckTimeout - AckInterval - AckDelay)`;
  the other properties do not, and the theorems cover every setting.
  `AckBufferAssumption` is the limit of 255 chunks of the code's ACK buffer:
  beyond it the program writes past an array and there is nothing to model.
* Device: RX1 opens after 3 ticks, RX2 after 6 (1 s and 2 s), a window lasts one,
  a frame 2 or 4 (within a window's distance, and beyond the second window),
  ACK_TIMEOUT is 3, 5 or 9 (1 to 3 s). `DutyWait` 13 is the shortest wait that
  is longer than an uplink, both windows and the longest frame together
  (1 + 6 + 1 + 4 = 12); the 1 % duty cycle of EU868 is far longer. Two packets
  show every interplay of an old and a new one; the third lets a postponed
  packet be replaced. `Oldest` bounds how far back the second window is counted.
* Gateway: two paths and three frames make a frame find no path; frames last
  2 or 3 ticks and downlinks 2, so that each can begin and end inside the other;
  a sub-band rests for three air times.
* Server: three uplinks are a packet, its retransmission and the next packet,
  which is where counters meet; four counter values do not wrap. In the run a
  confirmed uplink asks for no link check beside the acknowledgment; the theorems
  cover all sets of requests. One tick
  of spread in a window delay of two lets copies arrive apart, and apart from the
  windows. The theorems cover every number of uplinks and gateways, all powers
  and all timings.
* `adr`: `ADR_ACK_LIMIT` 1 and `ADR_ACK_DELAY` 1 for 64 and 32: the backoff is
  the same sequence of steps after fewer uplinks. `HistoryRange` 2 for 4 is the
  least for which a combination of packets differs from one of them. In
  the run 47 bytes are the most that fit data rate 0 beside the answers of one
  downlink (two commands, four bytes), 51 what fits it without any. On one
  link a server that goes by the best packets takes the power down to where it
  has no margin, the other needs the low data rates; a device that loses its
  server starts too fast for its link, or loses it to the interference. Each further command is sent at
  most once, as the application and controllers may choose to; a behaviour of the
  run has those of one set of `RequestSets` (a channel with a data rate of its
  own, which the mask of the ADR component takes away again; a channel that
  is refused; a link check), the theorems any. A channel in another
  sub-band is left out of it, as `NoFault` is violated with one (`MCOtherBand`).
* `headers`: three commands are enough to exceed 15 bytes; frame counters take
  a value with two different bytes and the largest one.
* `radio`: a tick is a second. 9 bytes at SF12 last one tick, 40 bytes two, as
  long as `OldEventThreshold`, which is the limit up to which the list is
  complete (`InterferersListed` and `FramesThatOutlastTheList`). `MaxEvents` 2 for 100 makes the
  clean-up happen; `MaxTime` 4 lets two long frames follow one another.
  Of the depletion callback one switch is modelled: a callback that makes two
  defeats `m_isSupersededChangeState`, which is one flag for any depth, and the
  charge then goes to the wrong state.

### Fairness

The fairness is that of the simulator's event loop: if an event is due it
runs, and if none is the clock moves on. It is weak fairness of the disjunction
of these steps (`WF(Next)` for the transfer, whose every step is an event;
`Clock` in `AdrLoop`: an uplink goes through its windows, a sub-band through its
rest, a postponed packet to the radio). The application, the channel, the device
(for the server) and the server (for the gateway) owe nothing: they may stop at
any time. The one exception is `AdrLoop`, where the application is
`PeriodicSender`, whose `SendPacket` schedules itself again and whose size is
random: packets of the smallest size come for ever, which is when `turn` changes. That the interference ends is a hypothesis of `HeardAgain`, not fairness.
The losses of a transfer are finite, `MaxLosses`; without that nothing
terminates.

## 4. Theorems

All are proved with TLAPS for every value of the constants that satisfies the
assumptions named in the modules and the hypotheses named here.

| module | theorem | statement |
|---|---|---|
| `ImageTransfer_proofs` | `TypeCorrect`, `AckedStored`, `FinalAckCovers`, `DoneSaved` | `Spec => []` of `TypeOK`, `AckedIsStored`, `FinalAckSuffices`, `DoneMeansSaved` |
| | `OneResendEach` | if checks come late enough (`ChecksAreLate`), `Spec => []OneResendPerLoss` |
| | `ImplementsReliableTransfer` | `Spec => Promise!Spec` |
| `ClassAEndDevice_proofs` | `TypeCorrect` | `Spec => []TypeOK` |
| | `Invariance`, `FaultFree`, `WithinTxBudget`, `RadioFollowsEvents`, `AcksEndTheirPackets` | if the duty cycle outlasts an exchange (`RestsLongEnough`), `Spec => []` of `IInv`, `NoFault`, `TxBudget`, `RadioBusy`, `AckEndsItsPacket` |
| | `ReportedOnce` | if moreover `Paced` and frames outlast a window (`FramesOutlast`), `Spec => []OneReport` |
| `Gateway_proofs` | `TypeCorrect`, `LocksMatch`, `TracedAtMostOnce` | `Spec => []` of `TypeOK`, `PathsAreLocked`, `OneOutcome` |
| | `HalfDuplexOneBand` | with one sub-band that rests longer than a downlink lasts, `Spec => []HalfDuplex` |
| `NetworkServer_proofs` | `TypeCorrect`, `RepliesFit`, `OneReplyEach`, `RepliesInTime` | if `MaxUplinks <= CounterValues`, `Spec => []` of `TypeOK`, `ReplyFitsUplink`, `OneReplyIfAsked`, `ReplyInTime`, with retransmissions that share the counter of the next packet |
| `AdrLoop_proofs` | `TypesKept` | `Spec => []TypeOK` |
| | `OrdersAreObeyed`, `MarginStays` | if no controller but the ADR component sends LinkAdrReq (`LeaveAdr`), `Spec => AdrIsObeyed`, `Spec => MarginKept` |
| | `NothingFails` | in the EU region, if what other controllers ask for is mild (`Peaceful`), `Spec => []NoFault` |
| | of `AdrAlgorithm`: `ParametersStayInTheTables` | for every estimate, data rate and even power, the result has a data rate, a power index, and the index means that power at the device |
| | `MarginIsNotOverspent` | from an estimate not above the true ratio, a device ends above the threshold of its new data rate or no worse than it was |
| `Radio_proofs` | `OverlapIsIntersection` | `GetOverlapTime` is the length of the intersection, in either order |
| | `EnergyAccounted` | `Spec => []EnergyIsAccounted` |
| | `InterferersListed` | if no frame is longer than `OldEventThreshold` (`ShortFrames`), `Spec => []InterferersAreListed` |
| | `OneCapture` | if moreover every signal has an energy (`Audible`), `Spec => []NoDoubleCapture` |
| | `EachCountsOnce`, `FoundUnlessSentTwice` | if `MaxAttempts = 1`, `Spec => []` of `CountsAddUp`, `PacketIsFound` |
| | of `AirTime`: `HeadersPreventWrap`, `LongerFramesLast`, `EmptyFramesWrap` | the unsigned numerator does not wrap for a frame with headers, a longer frame is on the air at least as long; without headers it does wrap |
| | `FramesThatOutlastTheList` | of the frames that the payload tables admit, exactly those of SF12 with more than 40 bytes last longer than two seconds |
| `HeaderExchange_proofs` | `TypesKept`, `OwnerIsFound` | `Spec => []` of `TypeOK`, `OneOwner` |
| | `NoneIsInvented` | if the answers a device adds are readable (`Answers` within `UplinkRead`), `Spec => []NothingInvented` |
| | `PacketsComeThrough` | if moreover `6 * MaxCommands < 256`, `Spec => []RoundTrip` |

**ImageTransfer.** The properties are not inductive. The invariant `IInv` adds
which timers go with which phase of the sender (`SenderPhase`), that every ACK
in flight names stored chunks only (`AcksAreTrue`), and that the receiver's
timer, its completion flag and the file go together (`ReceiverPhase`).
`AckedIsStored` follows because an ACK only takes chunks off the pending set that
it names; `DoneMeansSaved` because the pending set is then empty, so everything
is stored and the receiver has saved it in the step that stored the last chunk.
The refinement maps stored chunks to `stored`, what is off the pending set to
`confirmed`; every action is a `Store`, a `Confirm`, a `Finish` or a stutter.

`OneResendPerLoss` is about time. `ChecksAreLate` says that the oldest
information an ACK can hold, `AckTrip` = `AckInterval + AckDelay`, is no older
than `AckTimeout`, and that the link carries a burst of resends, at most
`MaxLosses` or the image, in the time that is left. The invariant `Resends` says
that at most one copy of a chunk is in flight, and none of a chunk that is
stored (`OneCopy`); that there have been as many losses as resends and chunks
still missing together, at least (`LossesCount`); how the clocks of the two
applications and of the link stand to each other in the first pass and after it
(`FirstPass`, `PassOver`); and that what is stored but still pending at the
sender is acknowledged before the next check (`Covered`).
The program's 10 s against 2 s and a delay leave room: TLC finds the property
still true on `image_transfer` with an `AckTimeout` of 9 ticks instead of 20,
where the hypothesis fails, and false with 8.

**ClassAEndDevice.** `TypeOK` is inductive once the operators are shown to
preserve the record's type one by one, which is where the unsigned counter of
attempts, the modulus of the frame counter and the non-negative delays of
events matter. The invariant `IInv` adds `Timed`: at most one event of each
class is pending, and each of an exchange is due at its moment, reckoned from
what is left of the duty cycle's wait; `Phase`: what the radio does fits what is
pending; `Budget`: the attempts made and those left add up, a pending attempt is
owed, and an acknowledgement to come is for the packet in progress.
`RestsLongEnough` is what keeps exchanges apart: the first window closes before
the second opens, and transmission, both windows and a reception that begins in
the last moment of the second are over before the sub-band may be used again.
`AddEvent` (`logical-lora-channel-helper.cc:104`) makes that wait the time on air
divided by the duty cycle, a hundredfold with the 1 % sub-bands that the default
channels of EU868 lie in (`lorawan-mac-helper.cc:312`). The tenfold wait of the
10 % sub-band (line 314), or a short uplink answered by a very long downlink,
need not satisfy it, and then the theorems say nothing: with a `DutyWait` of 12
ticks instead of 13, `device_unpaced` violates `NoFault` and `AckEndsItsPacket`.
`ReportedOnce` needs that packets come one at a time (`Paced`) and that a frame
outlasts a window of eight symbols (`end-device-lorawan-mac.cc:107`), as every
frame with a preamble does: so a reception that the second window leaves behind
ends after the window has closed, and only one of the two decides (`Single`).

**Gateway.** `Good` is the invariant: `TypeOK`, `PathsMatchQueue`, `PathsDiffer`,
one pending EndReceive per frame, frames that have not arrived are untraced, a
frame that is still being received is untraced, and the count of occupied paths
is at least their number, which is why the decrement of `Free` stays in Nat.
`HalfDuplex` needs `Duplex` on top: during a downlink the flag is set, and while
it is set no path is locked. That is where `OneBand` comes in: the pending
TxFinished is due before the sub-band allows another downlink (`EndsInTime`), so
there is one at most. With two sub-bands this fails, and `gateway_two_bands` is
the counterexample.

**NetworkServer.** What the server knows of the last uplink depends on what is
still to come, so the invariant `Good` is about time. `OnTime`: a copy on its way
arrives within `CopySpread` of the uplink, and a pending opportunity is due
`window * WindowDelay` after the first of the copies; so all copies are in before
the first opportunity, and everything is over before the next uplink
(`OverInTime`, from `UplinkGap > 2 * WindowDelay + CopySpread`). `Counted`:
counters never go back, and uplinks that share one are a packet's retransmission
and what follows it, which keep the link check that one of them asks for. `Listed`
is about the list of packets: what is in it was the first of its counter to be
heard, by gateways that heard one of its counter (`Entered`); everything heard is
there once its copies have come (`Complete`); what shares the last uplink's
counter is at the end (`AtEnd`), and is there while an opportunity is pending.
`Prepared`: the pending reply is what the last uplink asked for, and is reset
otherwise. `DecidedLate`: nothing has been decided of an uplink before its
opportunity. `Fits` is `ReplyFitsUplink` of the replies already sent. The
hypothesis on the counters is needed: with a wrap a new packet is taken for an
old one (`ReplyNamesLastPacket` in section 3). `BestOfGateways` shows that the
choice of a gateway is defined, by the well-foundedness of the numbers.

**AdrLoop.** The loops of `AdrImplementation` are the arithmetic of the steps
they take, so that the two theorems about `AdrAlgorithm` are facts about
integers; average, minimum and maximum come in through the one hypothesis that
the estimate is not above the ratio. `ParseCommands` folds the handlers over the
commands of a downlink; that each stage keeps what the handlers keep is an
induction over the position in the list (`ParseInStages`, by well-foundedness of
the numbers), and the same holds for sums over gateways and packets.

`TypeOK` is not inductive, and the invariant `TInv` says why. The channels of a
device have data rates that the tables have, and the ones it began with are
still among them, enabled or not (`Device`); the counter of the backoff may pass
its limit by one only when no packet is postponed, as `Send` sets it back
(`end-device-lorawan-mac.cc:176`) and only a packet that goes out counts, so a
postponed one has yet to be counted; a frame carries the parameters of a device
(`SentFrame`), the history the powers of such frames at the gateways, and the
reply commands with fields of their width (`Reply`). There is no hypothesis on
the commands: they may ask for anything that the fields can say, in any region.

`OrdersAreObeyed` rests on `Told`: a reply holds LinkAdrReq exactly if the ADR
component gave an order, and then each is that order, until the device hears it.
That the device accepts it is `ParametersStayInTheTables` for power and data
rate, and for the channels the fact that the mask of channels 0 to 2 names the
default channels, which carry the data rates 0 to 5 whatever NewChannelReq has
asked for since: the handler refuses to replace them. `LeaveAdr` is what the
repository does: of its controller components `adr-component.cc:140` alone adds
a LinkAdrReq. With two orders in a downlink the device would end with the last.

`MarginStays` adds `LossInv`, for servers that go by the minimum. A device that
sends with less than full power has a margin; a frame in the air was sent with
the power that the device has now or less, as only the backoff comes between
uplink and reply and it raises the power and lowers the rate; so the last
packet, and with it the worst of the history, says no more than what the link
would give now (`NotOptimistic`), and `MarginIsNotOverspent` applies. The
history as a whole need not say the truth; that one packet of it does is enough.

`NothingFails` adds `Quiet`: every channel that may be used lies in the sub-band
of the default ones (`HomeBand`), one of the default ones is enabled, the data
rate is one that they support, and only that sub-band is ever resting or waited
for. `Peaceful` allows NewChannelReq in that sub-band, or outside of all, which
the device refuses, or for frequency 0, which takes a channel away; it allows
LinkAdrReq of other controllers if they keep to what `Quiet` says. Each part is
needed: a channel in another sub-band strands a postponed packet (`TransmissionIsPerformed`
in section 3), with a rate of 6 or without a default channel the device can be
left with nothing to send on, and in the regions of one channel the last step of
the backoff throws.

**Radio.** `EnergyInv` says that the state the model charges is that of the PHY,
that no change of state is pending between events, and that what has been
charged plus the current state's share is what was spent. `ListInv` says that
every signal that has arrived is listed unless it ended more than
`OldEventThreshold` ago, and that no pending reception has lasted that long: one
that the clean-up erases ended before any of them began.

`OneCapture` needs what `IsDestroyedByInterference` computes. `CaptureInv` says
that what the gateway has received was, over its duration, four times (six dB)
the energy of each other signal of its spreading factor and frequency that it
has received or is receiving, and that all these are in its list as long as they
can meet another (`ShortFrames`; without it, with `OldEventThreshold = 0`, TLC finds two
receptions). Two signals that overlap for most of their time cannot each outweigh
the other (`NotBoth`). `Audible` says that `DbmToW` of every signal is a positive number: the
provers have no facts about powers of ten.

`EachCountsOnce` goes by `CountInv`: every uplink that was sent has an entry that
is open exactly as long as its signal is on the way or being received
(`OnTheWay`); it is closed with one outcome, `RECEIVED` as often as the gateway
has received and as its MAC has reported (`Closures`). `MaxAttempts = 1` is what
unconfirmed traffic does, the default of the end device; with retransmissions
the tracker aborts (`radio_retransmission`).

The sums in `CumulativeInterferenceEnergy` and `CountsAddUp` are folds over sets.
What a fold computes for every finite set is proved by induction over its
subsets, from the well-foundedness of strict inclusion (`SmallestSet`), after the
function it is defined by has been shown to exist (`SumsExist`).

**HeaderExchange.** The invariant `Inv` has two parts. `Installed`: the device of
number i has the address i - 1 steps after the first one, modulo the 2^25 of a
network (`AddressAt`), the generator stands at the next, and every installed
device has a status. As there are no more than 2^25 devices, no two have the same
address, and `operator<` leaves two different addresses different
(`OwnerIsFound`): a status is never taken for an owner that came before the wrap.
`Underway`: a header that is being written has only commands that the `Add...`
functions build for its direction, `fOptsLen` is the length of their bytes modulo
256, the packet on the wire is what `Send` writes of that header, and what was
received is what the readers make of that packet.

Three facts carry the rest. Each command, written with its CID and read by the
class that its direction's table names for it, comes out as it was
(`UplinkTravels`, `DownlinkTravels`, a case for each command, down to the bits
of its bytes). The loop of `Deserialize`, over the bytes of commands in a row
and whatever follows them, has read the first n commands when it has passed
their bytes, and stops at the first that ends at or after `FOptsLen`: so it
reads a prefix. If `FOptsLen` is at most 15 and says how many bytes there are,
that prefix is the whole list, and the FPort comes next. The induction goes over
the position in the bytes, by well-foundedness of the numbers, as does the
concatenation in `FOptsBytes`.

The two hypotheses are what the code asks for. `UplinkRead` leaves out
`RxTimingSetupAns`, `TxParamSetupAns` and `DlChannelAns`, whose constructors name
the type of another command (`SoleCommandArrives` in section 3); no handler of the
device adds one. `m_fOptsLen` is a `uint8_t`: from 43 commands of up to 6 bytes on
it could come round to 15 or less, and the header would be taken for a short one.
The code never checks that, but applications and handlers add a few commands.

Out of the prover's reach and left to TLC: liveness (`Completes`, `FallsSilent`,
`EachIsReported`, `WaitingEnds`, `EveryFrameIsTraced`, `AnsweredOrGivenUp`,
`HeardAgain`, `SendsAgain` and the fair refinement). Every invariant and every
action property that a passing run checks is also stated by a theorem; what a
theorem asks for beyond the assumptions of the modules is in the table.

## 5. What is abstracted

* Payloads, wording, logging and positions. Received powers are constants of an
  instance; the formulas that give them from a distance are not there.
* Sensitivity, interference and losses are free choices in `Gateway` and
  `ClassAEndDevice`; `Radio` and `AdrLoop` have them.
* Time is counted in ticks; events of one instant run in the order in which they
  were scheduled where that order is the code's (`EventQueue`), in any order
  where they come from different parties.
* Decibels are integers, or quarters; linear powers are in units in which six dB
  are a factor of four (`Interference`).
* `ClassAEndDevice` keeps the parameters of transmissions constant, `AdrLoop`
  sends every packet once: a retransmission with changed parameters is in
  neither.

## 6. Running

`tlc -config <run>.cfg <module>` for a run (module `ImageTransfer`,
`ClassAEndDevice`, `NetworkServer`, or `MCGateway`, `MCHeaderExchange`,
`MCAdrLoop`, `MCRadio`), `tlapm <module>_proofs.tla` for the proofs. The longest
runs, `adr`, `server` and `radio`, take about three minutes; the proofs of `HeaderExchange` take about
five, those of any other module less.

## 7. Not modelled

* Senders: a timer that calls `Send`; the applications of `ClassAEndDevice` and
  `AdrLoop` include what they do.
* Net device, installation helpers other than the tables of `LorawanMacHelper`
  and the addresses: delegation and set-up before the simulation runs.
* Propagation, shadowing, buildings and mobility: random and real-valued
  geometry without protocol state.
* The scripts and result files of the P2P project and its `phase1` copy, the
  examples, tests and experiments.
* Printing, and the tracker's record of finished retransmissions, which
  repeats the reports of the device (`OneReport`).
* Recharging of an energy source, on which the code does nothing of its own;
  PHYs that are added or removed while frames fly.
* `NetworkServer` composed with `Gateway` for several devices: that a gateway is
  read as free and taken by the time the order arrives. Each module leaves the
  other's moves free, so nothing is assumed, but the product needs two devices,
  two links with a delay and a gateway, which is beyond runs of minutes.
