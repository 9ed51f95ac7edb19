# Verification of the DE1-SoC IoT panel

The panel is a DE1-SoC board that shows text messages or five graphs of sensor
data on a VGA screen.  A C program on the ARM processor (`src/SW/MQTT_Txt_Renderer`)
receives the messages from an MQTT broker and writes bytes into a memory of the FPGA
fabric; Verilog (`src/*.v`, `src/lib/*.v`) turns that memory into pixels.  The
modules here model that code in TLA+, check it with TLC and prove part of it with TLAPS.

## 1. The system

    broker <-- TCP --> MQTT client --> main loop --> write_8b --> from_hps port
                       (mqtt.c,        (main.c,                       |
                        arm_mqtt.c)     Circ_Buffer.c)          Mem_Controller.v
                                                                      | port 1
    VGA <-- interpolators, fonts <-- hs_buf <-- Buff_Controller <-- character memory
                                                          port 2

| Component | State it keeps | Operations | What makes it correct |
|---|---|---|---|
| Memory bus: `main.c:45-49,207-261`, `Mem_Controller.v`, Qsys ports and memory | command word, status word (one edge old), 14-state machine, address, data and output registers | `write_8b`, `write_16b`, `read_8b`, `read_16b` | a call stores or returns exactly its bytes, whatever edge its accesses fall on |
| Graph refresh: `Edge_Trigger.v`, `Buff_Controller.v`, port 2 | edge detector, counter, 100 column registers | a write to 0x8A0 starts a copy of 100 columns | no trigger is lost; the graphs end up showing the memory |
| Circular buffers: `Circ_Buffer.c`, `send_CB` | ring, head, tail, n_el, empty, full; the shared `cb_data` | `CB_put`, `CB_get_data`, `send_CB` | each graph shows its own last samples |
| MQTT send buffer: `mqtt_mq_*` | one block: packets from the left, headers from the right | register, find, clean | no message is lost, changed or reordered |
| MQTT session: `mqtt_sync`, `__mqtt_recv`, `__mqtt_send` | queue with states, error, `send_offset`, pid generator, timers | connect, subscribe, publish, answer, retransmit, ping | QoS 2 delivers once, in order; what is acknowledged was handed over |
| AMQTT wrapper: `arm_mqtt.c` | callback buffer, static `old_msg` | init, subscribe, poll, publish | a message that arrives is shown once |
| Main loop and parser: `main.c:71-205` | old mode and period, line being parsed | poll, parse, print or plot, publish settings | every valid data message updates its graphs, then triggers |
| Text cursor: `main.c:270-302` | `cur_x`, `cur_y` | `print_str`, `new_line_`, `clear_line_` | stays in 42 x 22 and clears the line it enters |
| Settings panel: KEY[1], KEY[2] | two counters | step, wrap, publish `M-<mode>.<period>` | the broker ends up with the panel's settings |
| VGA timing, character and font lookup: `VGA_Sync.v`, `CI_Gen.v`, `FI_Gen.v`, `Font_BMP.v` | two counters, the outputs of two memories | a pixel every two edges | each pixel shows the character it belongs to, although both memories lag; no pixel is left out |
| Line interpolator: `PX_Lin_Interpol.v` | none | one pixel | the line passes through the samples and keeps between them |
| Axes, themes, 7-segment displays, debug shift register, Qsys interconnect, `SW/OLD` | | | not modelled (section 6) |

### What is hard here

* **Two clocked parties and no acknowledgement.**  The status word lags by an edge, the
  machine reads the command word while it runs, and a copy of columns takes 101 edges of
  which the processor learns nothing.
* **Resets and kills that hit one side only.**  KEY[0] resets the fabric and not the
  processor; a killed program leaves its command in the port.
* **Retransmission.**  QoS 2 is a four-step exchange; client and broker repeat packets on
  their own, acknowledgements may come twice or late, completed messages remain in the queue
  until it is full, and a full queue is an error that is never left because the panel installs
  no reconnect callback.
* **Two arrays in one buffer** that grow towards each other and are compacted in place.
* **One scratch array for five graphs**, and ring fields that are redundant.
* **A program that does not look at results.**  `main()` ignores what `mqtt_sync`, `sscanf` and
  `AMQTT_Publish` return, notices a message by comparing two buffers, keeps heads and settings in arrays
  that can overflow, and reads mode and period in two accesses while the user presses keys.
* **A byte stream.**  Packets arrive in pieces of any size and several at a time.
* **A pipeline without enables.**  Character memory and font memory each answer an edge late, and a
  pixel lasts two edges; one constant, `px_x + 1`, makes up for it.

`PROJECT.json` lists each hazard at its line, with the properties that cover it.

## 2. Modules

| Module | Models | Correspondence |
|---|---|---|
| `MemOps` | the command words | `Ops` is what the four driver functions can put into `from_hps`; `After` is the 13-bit sum |
| `AtomicMem` | *abstract*: the promise of the driver functions | bytes are stored only during a call, all of them by its return; a read returns what is stored |
| `MemController` | driver, ports, state machine, port 1 | one action per bus access (`Issue`, `Poll`, `Sample..`, `Collect`, `Take`, `Release`), each with `Fabric`, the simultaneous step of all registers; `Stall` is an edge without an access; `Crash`, `Boot`, `Reset` |
| `GraphRefresh` | trigger, copy, port 2, `main()`'s writes | EXTENDS `MemController`, so both sides run on the same edges; `Display` is the display side's part of an edge |
| `SlidingWindow` | *abstract*: what graphs show | the last `Size` samples, the newest repeated |
| `CircBuffer` | `Circ_Buffer.c`, `send_CB` | `CB_put`, `CB_get_data`, `pad` are operators, `Sample` is `CB_put` followed by `send_CB` |
| `TextCursor` | `new_line_`, `clear_line_`, `print_str` | `PrintLine(n)` is a line of n characters, all its writes included; a screen is which cells hold ink |
| `DataMessage` | the graph-mode branch of `main()`, the copy to the graphs | `StartParse`, `TakeLine`, `Plot`, `Trigger`: head, a line, a `CB_put` with its `send_CB`, the write to 0x8A0; `Copied` is the end of the copy; `CutSample` a `send_CB` of which KEY[0] wipes a command |
| `Panel` | `main()`, `arm_mqtt.c`, the keys and their counters, SW[0] and SW[1] | EXTENDS `TextCursor` and `DataMessage`; one action per access to the status word, per call of `AMQTT_Poll`, per line printed or parsed; beside them `Key`, `Switch` and `Copy` at any time |
| `Raster` | `VGA_Sync.v`, `Sync_Gen.v`, `CI_Gen.v`, `FI_Gen.v`, `Font_BMP.v`, port 2 in text mode | `Edge` is one edge of CLOCK_50 for all registers; `Reset` is KEY[0] |
| `LineInterpol` | `PX_Lin_Interpol.v` and its ports | operators; `OnLine` is the reference definition |
| `MessageQueue` | *abstract*: a queue of messages | messages leave only from the front and complete |
| `MqttQueue` | `mqtt_mq_*` and `MQTT_CLIENT_TRY_PACK` | the buffer as bytes, pointers as offsets |
| `MqttRecv` | `recvall`, the receive buffer, `mqtt_unpack_*` | `Pass(k)` is one pass of the loop of `__mqtt_recv` for which k bytes arrive; the broker packs with the formats of the packers |
| `ExactlyOnce` | *abstract*: a channel that delivers once and in order | |
| `MqttClient` | `mqtt_sync`, `__mqtt_recv`, `__mqtt_send`, `mqtt_publish` | one action per received packet type, one per message sent, the keep-alive in `FinishSend`; `pc` says where `mqtt_sync` is |
| `MqttSession` | the client with a broker | EXTENDS `MqttClient`; the broker is external and follows MQTT 3.1.1 |
| `*_proofs` | theorems | section 5 |
| `MC*` | nothing but definitions TLC needs | |

Operators named `X_Something` that stand before an `X` and are commented *Mutant* are wrong
versions of `X`: with them in its place the property they belong to fails, which is how
each property is known to depend on the code.

Abstractions, each with its reason:

* *Bytes* are a small set and the memory a few bytes: no property compares values except
  for equality, and the theorems hold for every set and depth.
* *Addresses* of text writes are all 0: text only takes time as far as graphs are concerned.
* *Processor speed*: any number of edges may pass between two accesses (`Stall`), the least is
  one for a write and two for a read.  A restart of the program takes longer than a command of
  at most five edges (`Settled`) and than a copy (`Driving`).
* *Switches* are the three settings that decide what drives port 2.
* *Time in the client*: a timeout may come whenever a message awaits its answer and a
  keep-alive ping at the end of any send, each up to a bound.  Broker packets interleave with
  the steps of `mqtt_sync` at every point where the code reads or writes the socket.
* *Packet identifiers*: the LFSR visits all 65535 values and skips those in the queue;
  `__mqtt_next_pid` is any identifier not in the queue.
* *The send buffer* is `Cap` slots in the session.  256 bytes with 24-byte headers hold about
  five packets of the panel, so 4 to 6 is the real size and not a reduction.
* *Sockets*: TCP neither loses nor reorders; a connection that breaks drops what is under way
  and sets the client's error.  `Partial` lets a send stop half-way through a packet.
* Not in the session: unsubscribe, disconnect and reconnect (the panel calls none of them),
  malformed packets (the broker of `MqttSession` conforms).
* *Packets in `MqttRecv`* may be malformed or too large for the buffer (`NoPacket`).  One kind is left out: a PUBLISH whose
  topic is longer than its rest, which `mqtt.c:1363-1380` takes without a check.  Nothing is said of it.
* *The client in `Panel`* is what the session promises: what is staged is sent in order, some at each
  `mqtt_sync`, and arrives once; a full buffer or a lost connection is an error that stays.  So the panel
  is composed with the promise and not with the client's own states.
* *Messages in `Panel`* are the lengths of their lines, their head, and for each line of a data message the
  quantity it names and its values; `Wild` is a value that is missing, malformed or out of range, whose
  conversion to `uint8_t` is then any byte (undefined behaviour, or an old value).
* *Overflows in `Panel`*: `sprintf` of a two-digit period writes one byte past `out_msg`; what lies there
  (`beside`) is nothing that matters, `old_mode` or `old_period`, as the compiler decides.  A head that
  does not fit in `msg_head`, of the message or of one of its lines, ends the program or leaves any settings; that it
  may change other variables of `main()` and let it go on is left out.
* *The copy in `Panel`* has a beginning, an end, and between them anything the keys, the switches and `main()` do.  It
  takes all columns at its end, or, when SW[0] or SW[1] had port 2 read something else at any edge of it, or `main()`
  wrote columns during it, gives bytes of which nothing is known (`Spoilt`).  `GraphRefresh` has its edges, and shows that
  an undisturbed copy is of the columns in the memory and that no trigger falls into one, which `Trigger` relies on.
* *KEY[0] in `Panel`* clears the counters and the registers of the graphs.  It also clears `from_hps`: when it comes inside a
  `write_8b`, a part of the line or of the sample is written and `main()` waits for ever (`Hang`); when it comes
  between two calls, or while `main()` does something else, it goes on (`Reset`).
* *The glyphs in `Raster`* need a margin: the first column of each is blank (`FontAssumption`), as it is in
  `font_mem.hex`, whose glyphs take up columns 3 to 12 of 15.

## 3. Runs

| Run | Bounds | Shows |
|---|---|---|
| `mem_controller` | 3 bytes of 2 values, 1 reset, kills unbounded | the inductive invariant's consequences, `AtomicMemory` (refinement) and `CommandReturns` (liveness).  Three bytes: a 16-bit access that wraps, one that does not, a byte neither touches |
| `graph_refresh` | 3 graphs of 1 column, all contents, 1 reset | `NoLostTrigger`, `ShownIsStored`: every content, kills and KEY[0] at every edge of messages and copies |
| `graph_overlap` | 2 graphs of 4 columns of one height each, no kills | `ShownIsStored` where a copy (9 edges) is longer than a `write_8b` (7 at least), so that the next message writes columns that are being copied |
| `graph_timing` | the real sizes: 5 x 20 columns, the trigger 0xA0 bytes after the first, 42 characters a line | `NoLostTrigger` with the real sizes, where it depends on a message taking longer than a copy; all bytes 0 because only time counts |
| `circ_buffer` | 2 buffers of 3 samples, any initial storage; a screen of a few characters with a border on both sides, any text, a font with one letter | what the screen shows, graphs and text: `FieldsAgree`, `SlidingWindows` through empty, full and wrap; `TextShown` and `RowByRow` through several lines and frames, with characters written, SW[0], SW[9] and KEY[0] at any edge; the assumption `LinesDrawn` compares the interpolator with `OnLine` on the real sizes |
| `mqtt_queue` | sending: 12 bytes, headers of 2, messages of 1 or 2; receiving: a buffer of 10 bytes, bytes up to 7, two packets under way, cut anywhere | `HeadersIntact`, `MessagesKept`: up to three messages, so there is a first, a middle and a last one to keep; messages that exactly fill the buffer.  `Aligned`, `AsSent`, `NoFalseError`, `AllHanded` (liveness): every type of packet, one that exactly fills the buffer, one that is too large, malformed ones, a connection closed at any time |
| `mqtt_session` | 2 publications out, 1 in (any QoS), 1 ping, no timeouts | no acknowledgement is unexpected and both directions deliver, under fairness |
| `mqtt_retry` | 2 publications each way, 1 timeout, 1 packet repeated by the broker, 4 slots, refusals, connection loss | QoS 2 under retransmission |
| `panel` | four scenes: keys (mode 0..7 and period as in the hardware, 2 presses, a link that stalls, pings and breaks), texts (rows of 2, cursor wraps at 4, both modes), data (2 axes, 1 scalar, windows of 2; heads that overflow), and a key, every position of the switches, a text and a data message together | `BelowColumns`, `LastLinesShown`, `LastIsVisible`, `AxesTogether`, `PlotsOnlyData` and, under fairness, `SettingsArrive`.  The first three scenes each vary one input widely; the fourth interleaves all of them, KEY[0] and the switches with every step of a message and of a copy.  The counters start near their wraps, line lengths lie on both sides of the width of a row and of the wrap of `cur_x`, and the windows fill up, so that samples also leave them |
| `mqtt_late_ping` | 1 ping, 1 timeout | violates `NoUnknownAck` |
| `mqtt_reuse` | 2 publications in, identifiers reused | violates `AllPassed` |
| `mqtt_partial` | 2 publications, 1 ping, partial sends | violates `Framed` |

`MCMqttRetry` makes packet identifiers model values and symmetric: the client never compares
them except for equality.  Its broker draws its own from the numbers, so that an identifier used
in both directions at once occurs in `mqtt_session`, where both draw from 1, 2, 3.
`circ_buffer` and `mqtt_queue` each run two models that share no state; a behaviour exercises one of them.
`CHECK_DEADLOCK FALSE` stands in the MQTT configurations because those systems really stop:
a full send buffer is an error for ever, and a lost connection too; and in `panel`, where `AMQTT_Subscribe`
ends the program when the broker was not reached.

### The three violations

1. **A late ping answer** (`mqtt.c:868`).  A PINGREQ that times out is sent again, the broker
   answers both, and the second PINGRESP finds no open PINGREQ: `MQTT_ERROR_ACK_OF_UNKNOWN`, which
   the panel cannot leave.  The header says of `error` that it "should be MQTT_OK for the entirety
   of the connection." (`mqtt.h:1129`)
2. **A reused identifier** (`mqtt.c:757`).  The duplicate check finds completed PUBRECs, which stay in
   the queue until it is full.  A new QoS 2 publication with the identifier of an earlier one is taken
   for a duplicate, is not passed to the callback and never answered.  "All the publishes received from
   the broker will be passed to this function." (`mqtt.h:1161`)
3. **A partial send** (`mqtt.c:558`).  `send_offset` is one per client; when a message before
   the interrupted one becomes due, it is sent from the middle.  "This is used to allow partial send
   commands." (`mqtt.h:1113`)

The passing runs hold these three causes out by their constants: `mqtt_session` has no timeout,
`mqtt_retry` no pings, both have `Reuse` and `Partial` FALSE.

### Observations without a run

* `Txt_Renderer.v:203` asks for the character one pixel ahead to make up for the memories, and the index
  into the glyph (`FI_Gen`) uses the same `px_x_p1` without any delay: the picture is the text moved to the left by
  one pixel, and at the border of two characters the bit is taken from the glyph before.  Only the
  margin of the glyphs hides it; `TextShown` says exactly this and is proved for every font with margins.
* `main.c:129`: with a period of 10 to 14 `out_msg` overflows by one byte.  `main.c:147,193`: `msg_head` is
  filled without a bound.  When the program survives this with other old settings, they are published again, unless
  the overflow has made them equal to the chosen ones: `SettingsArrive` exempts only that, and what was accepted before must arrive
  all the same.
* `Txt_Renderer.v:93,297`: KEY[0] clears the graphs but not the windows of the program, so they stay flat until the next
  data message; and when it comes inside a `write_8b`, `main()` never goes on, which is why `SettingsArrive` exempts a
  program that hangs.
* `main.c:91`: when `AMQTT_Init` fails, its result is ignored and `client` stays NULL; the subscription
  that follows ends the program (`Connect`).
* `mqtt.c:661`: when the broker closes the connection, complete packets still in the receive
  buffer are lost (`SocketError` in `MqttRecv`; `AllHanded` exempts it).
* `mqtt.c:1358` takes a PUBLISH with a rest of less than four bytes for malformed, also a QoS 0 one whose topic is one
  character and whose message is empty, which the protocol allows.  `Legal` leaves such packets out, so `NoFalseError` does not
  cover them.

## 4. Fairness

* `MemController!FairSpec`: weak fairness of the driver's own accesses.  The processor runs the loop
  it is in; the fabric needs no fairness because every step is an edge.  Beginning a call, kills and
  resets are not fair.  `CommandReturns` exempts a command wiped by KEY[0]: then the loop
  `while (!op_completed())` really never ends.
* `MqttSession!FairSpec`: weak fairness of entering and leaving `__mqtt_send` and of the broker's
  reading, because the main loop calls `mqtt_sync` for ever and TCP delivers; strong fairness of receiving
  and sending, because a packet that is there at every call, with the socket writable
  again and again, is handled in one of them.  Publishing, timeouts, pings, refusals and the loss
  of the connection are not fair.
* `MqttRecv!RFair`: weak fairness of receiving at least a byte when there is one, or finding the connection
  closed: `mqtt_sync` is called for ever and TCP delivers.  Sending and closing are not fair.
* `Panel!PFairSpec`: weak fairness of the steps of `main()`, because it runs its loop; strong fairness of a poll
  that sends something, because a socket that is writable again and again takes what waits; weak fairness of `Copy`, as the
  fabric has an edge every 20 ns.  Keys, switches, messages and trouble on the link are not fair.  A `main()` that hangs in a
  `write_8b` has no step left, so nothing is asked of it.

## 5. Proofs

All are checked by TLAPS for every value of the constants that satisfies the named assumptions.  Every safety property of the
runs is a theorem, and so is each of the four refinements.  A theorem that needs more of the constants than the assumptions
states it in an `ASSUME`; each such hypothesis holds in the run that checks the property.

**Memory bus** (`MemController_proofs`; assumes `Depth > 1`, `0 \in Byte`, `MaxResets \in Nat`).
None of the safety properties is inductive: that the flag is current depends on which
states the machine can be in at each point of the driver, and that depends on the command word.  The
inductive invariant `IInv` has five parts: `TypeOK`; `WordInv` (the command word at each point of
the driver); `StateInv` (the machine's state for each command word, and the lagging flag); `DataInv`
(what has reached address, data registers and memory in each state); `DoneInv` and `TakeInv` (what a
completed command guarantees until the driver has used it).  `FabricTypes`, `EdgeStates`,
`QuietEdgeWord` and `QuietEdgeData` say what an edge does, so that the proof of a driver action
cites them and adds its own changes.  From `IInv`:

* `TypeCorrect`: `Spec => []TypeOK`
* `FlagCurrent`: `Spec => []FlagIsCurrent`
* `WordHeld`: `Spec => []WordIsHeld`
* `Implements`: `Spec => AtomicMemory`.  `InitAbstract` and `StepAbstract` map every step to a step of `AtomicMem`
  or to a stutter: an edge that writes is a `Store`, `SampleWritten` a `ReturnWrite`, `Take` a `ReturnRead`.

**Circular buffers** (`CircBuffer_proofs`; assumes `Size > 0`, `0 \in Byte`).
The inductive invariant is `FieldsAgree` with the types.  `WrapOnce` reduces `% Size` to one
subtraction, which is the only place that reasons about it; `PutRoom` and `PutFull` say what
`CB_put` does to the sequence of samples, `SendPads` what `send_CB` writes.

* `FieldsCorrect`: `BSpec => [](BTypeOK /\ FieldsAgree)`
* `Slides`: `BSpec => SlidingWindows`

**Send buffer** (`MqttQueue_proofs`; assumes positive sizes and a header byte that is no data byte).  `Good` says of
a queue: messages rise from the left without overlap and end before `curr`, headers fill the right end, and `curr_sz` is
the room between.  `RegisterGood`, `CleanGood` and `SetStateGood` say that packing, compacting in place and a change of
state keep this, and what they do to the sequence of messages, of which `MessageQueue` is the specification.

* `TypeCorrect`: `Spec => []TypeOK`; `HeadersIntactHolds`: `Spec => []HeadersIntact`
* `MessagesKeptHolds`: `Spec => MessagesKept`, a refinement, by a lemma for each operation

**Session** (`MqttSession_proofs`).  `IInv` has the types of client and broker and `Fits`, which is about the queue
alone: drawn identifiers are real and differ, a PUBREL stands only beside a PUBLISH of its identifier that is complete, two
open PUBRELs differ, and behind an open QoS 2 PUBLISH the others are unsent.  A step of the client cleans the queue, moves one
message forward in its states or appends one; `SuffixFits`, `ForwardFits` and `AppendFits` show once that these keep `Fits`,
and the actions cite them.

* `TypeCorrect`, `OneInflightHolds`, `DistinctPidsHolds`: `Spec => []` of `TypeOK`, `OneInflight`, `DistinctPids`

The others relate the queue to what is under way, and each direction has an invariant of its own beside `IInv`:

* `OutInv`, for publications of the panel.  `OnTheWay`: what the broker has not delivered waits in the queue, only the
  next of it is on the connection, and a PUBLISH that comes again meets a broker that knows its identifier.  `Known`: the broker
  knows an identifier only while the client's exchange of it is open, and not yet that of a publication it has not delivered.
  `Answered` orders the answers on the connection, so that a late PUBREC or PUBCOMP never completes a message of the next exchange of
  the same identifier.
  `NothingLostHolds`: `Spec => []NothingLost`; `ExactlyOnceOutHolds`: `Spec => ExactlyOnceOut`, for any number of
  retransmissions, repeated packets and lost connections.  Both assume `PubQos = {2}`, as the two
  properties are about QoS 2: `AMQTT_Publish` publishes at no other.
* `InInv`, for publications of the broker.  `RecKept`: as long as a publication that was passed to the callback may come
  again, its PUBREC waits in the queue, where the duplicate check finds it; `AckGiven` and `RelGiven`: whatever is acknowledged or
  released was passed.  `CalledOnceHolds` and `AckedIsCalledHolds`: `Spec => []` of `CalledOnce` and `AckedIsCalled`.  Both assume
  `Reuse = FALSE`: with a reused identifier the duplicate check takes another publication's PUBREC (the second violation).
* `FlowInv`, for answers.  `Flow` counts: of each type and identifier there are never more requests and answers on the
  connection than messages in the queue that wait for one, so that every answer finds its message.
  `NoUnknownAckHolds`: `Spec => []NoUnknownAck`, assuming `MaxTimeouts = 0` and `MaxDup = 0`: a request sent twice is
  answered twice (the first violation).

**Receive buffer** (`MqttRecv_proofs`; assumes that the broker's packets are `Legal` or none at all, `NoPacket`, and that a
length that fits the buffer has few enough digits).  The invariant `RecvInv` says that the buffer and the wire together are the packed
packets that are not handled yet, and that a full buffer has been noticed.  That a pass keeps it is `PassRight`, which
needs that `mqtt_unpack_response` undoes the packer for every packet and every piece of one:
`DigitsShape` (the digits of a length are recognised and give it back), `Word16` (two bytes), a lemma for each type of packet
(`PingUndone`, `ConnackUndone`, ...), `UnpackRight` (a
packet that has arrived in part is waited for, a whole one is taken apart) and `Remainder` (what follows it).  Digits, lengths and streams are recursive functions.  The library's induction theorems take an operator as a
parameter, which the provers cannot instantiate; `CompleteInduction` takes a set and `Recursion` takes functions instead, and
the recursive definitions are proved to be what they say (`DigitsDef`, `NumberDef`, `StreamDef`).

* `AlignedHolds`, `NoFalseErrorHolds`: `RSpec => []` of `Aligned`, `NoFalseError`; `AsSentHolds`: `RSpec => AsSent`

**Graph refresh** (`GraphRefresh_proofs`).  Every step of `GraphRefresh` is a step of the memory bus or leaves it
alone, so the inductive invariant of the bus carries over.

* `GTypeCorrect`: `GSpec => []GTypeOK`; `BusUndisturbed`: `GSpec => AtomicMemory`

`RefreshInv` adds what the two sides know of each other: `RunInv` (where `main()` is in a line, and that only the trigger
writes to its address), `RiseInv` (the trigger's address rises on port 1 with the write and at no other time), `TimeInv`
(a race: while a copy runs, the edges it still needs are at most as many as `main()` takes until its next trigger rises, seven
for each byte still to write) and `CopyInv` (the cells behind the counter are the columns in the memory).

* `NoLostTriggerHolds`, `ShownIsStoredHolds`: `GSpec => []` of `NoLostTrigger`, `ShownIsStored`

Both assume `NCells <= 7 * GCols + 3` and `NCells <= 7 * TextLen + 3`: a copy takes no longer than the shortest message.  With
the panel's lines of 20 columns that is true of seven graphs, and it has five.

**Panel** (`Panel_proofs`).  Text, data, settings and queue each have an invariant (`TextInv`, `DataInv`,
`AxesInv`, `UserInv`, `QueueInv`), kept by the actions that touch them and by all that leave their variables alone.
`DataInv` relates what is planned and parsed to the message in the buffer.  `AxesInv` is about the ages of the samples, how many
lines of Magneto came after the one each is from: in the middle of a line the axes that are plotted are one sample ahead of the
others, so at its end they are together.  `CopyInv` says that the registers are the columns once the trigger's address is on port 1 and
an unspoilt copy is over, and `EndInv` that the columns are the windows except inside a `send_CB` that never returns.

* `BelowColumnsHolds`, `LastLinesHolds`, `AxesTogetherHolds`, `PTypeCorrect`: `PSpec => []` of `BelowColumns`,
  `LastLinesShown`, `AxesTogether`, `PTypeOK`; `PlotsOnlyDataHolds`: `PSpec => PlotsOnlyData`
* `LastIsVisibleHolds`: `PSpec => []LastIsVisible`.  `VisInv` says of a message half printed that its lines so far
  are the newest on the screen, and of one half parsed which values are plotted, which wait in `plots`, and that no later line
  has overwritten them; with `CopyInv` it gives what the graphs are drawn from.

**Picture** (`Raster_proofs`; assumes the sizes are positive, a character at least two pixels wide, at least one
character to a screen, and `FontAssumption`).  `TextShown` is not inductive: it speaks of the edge at which a pixel is
visible, and depends on the two edges before.  `Delayed` says what the memories give in terms of the counter one and two
edges ago; `LookAhead` and `SameCell` then say that these were the same character unless the pixel is in a margin.
`RowByRow` follows from an invariant that gives the last pixel as a function of the counters (`LastOf`).  The
interpolator needs division by an unknown width: `DivMod`, `TimesMonotone` and `FewTimes` carry it.

* `RasTypeCorrect`, `TextShownHolds`: `RasSpec => []` of `RasTypeOK`, `TextShown`; `RowByRowHolds`: `RasSpec => RowByRow`
* `LinesInterpolate`: `OnLine` for every number and width of columns; `LeftOfAxis`: nothing is drawn where `px` wraps

**Model-checked only**: liveness (`CommandReturns`, `AllDelivered`, `AllPassed`, `AllHanded`, `SettingsArrive`), which needs
fairness and so ENABLED, out of the prover's reach.  Every other property of a passing run is proved.

## 6. Not modelled, and why

* *Unsubscribe, disconnect and reconnect* of the client library, and threads: the panel has one thread and calls none of
  them (so the identifier that `mqtt.c:422` draws outside the mutex and the callback that `mqtt.c:78` calls inside it are no
  hazards of the panel).  *The packers of CONNECT, SUBSCRIBE and UNSUBSCRIBE*: pure, called once.
* *Floats*: TLA+ has none.  What the code does with a value that is out of range is in `DataMessage`.
* *Axes, colours and themes*: comparisons with constants, a priority and look-up tables, without state; *7-segment
  displays*; *sync pulses and VGA_CLK*, which only leave the chip (`TextShown` holds in both halves of a pixel, so that it does not
  matter in which of them the screen samples).
* *Lines as drawn*: a steep line is dotted, because each column of pixels has one point; `OnLine` is what holds.
* *Clock values*: timeouts and keep-alive may come at any time, up to a bound, which includes every clock.
* *`Debug_SHR`* drives nothing; *`SW/OLD`* is not built; *other socket layers of `mqtt_pal.c`* are not built.
* *Generated code*: the Qsys interconnect, two copies of the memory controller's calibration (`sequencer*.c`, some 11,000
  lines each), the header dumps `core_sys.h` and `hps_0.h`.  These, the copies of the client under `SW/OLD` and the
  comments of `mqtt.h` are by far the larger part of the lines in the repository; the panel's own code and the part of the
  client it uses are about four thousand lines, and that is what the modules stand for.

What a next step would take up: the composition of `Panel` with the session instead of its promise, and of the session with
the receive buffer instead of whole packets; that `Panel`'s graphs are those of `CircBuffer` and its writes those of `GraphRefresh`.
